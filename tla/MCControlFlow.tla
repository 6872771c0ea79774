---------------------------- MODULE MCControlFlow ----------------------------
(* Trees for the TLC run of ControlFlow. *)
EXTENDS ControlFlow

CONSTANT x  \* another function name

Plain(kinds) == {[kind |-> kind] : kind \in kinds}
Function(name, type, parameters) ==
    [kind |-> "function", name |-> name, type |-> type, parameters |-> parameters]

\* Every kind of statement, and functions of every kind, nested in each other.
MCNodes ==
    {Function(Main, "int", 0), Function(Main, "int", 1), Function(Main, "bool", 0),
     Function(x, "void", 0), Function(x, "int", 0)}
    \cup Plain({"if", "else", "loop", "block", "simple", "return", "break", "continue", "end"})
===============================================================================
