---------------------------- MODULE MCNameAnalysis ----------------------------
(***************************************************************************)
(* Trees for the TLC runs of NameAnalysis.  Names do not interact, so one  *)
(* ordinary name shows every way to hide, capture or miss a declaration.   *)
(***************************************************************************)
EXTENDS NameAnalysis

CONSTANT x  \* the name the trees declare and use

Function(name, type, parameters) ==
    [kind |-> "function", name |-> name, type |-> type, parameters |-> parameters]

\* Functions that are and are not main, with up to two parameters.
MCNodes ==
    {Function(Main, "int", <<>>), Function(Main, "bool", <<>>), Function(Main, "int", <<x>>),
     Function(x, "int", <<>>), Function(x, "int", <<x, x>>)}
    \cup [kind : {"variable"}, name : {x}, reads : {<<>>, <<x>>}]
    \cup [kind : {"loop"}, name : {x}, reads : {<<x>>}]
    \cup [kind : {"statement"}, reads : {<<x>>}]
    \cup [kind : {"block", "end"}]

MCNames == {Main, x}
MCSymbols == [name : Names, kind : SymbolKinds, declaration : Declaration]
================================================================================
