------------------------------ MODULE NameAnalysis ------------------------------
(***************************************************************************)
(* Declaration collection, entry point validation and name resolution, in  *)
(* the order and under the conditions of Compiler::compile(); and what     *)
(* lexical scoping means for a tree, defined without scopes, symbols or    *)
(* visits, to compare the passes with.                                     *)
(***************************************************************************)
EXTENDS NameResolver

CONSTANT Main  \* the name of the entry point

ASSUME MainAssumption == Main \in Names

VARIABLES
    phase  \* the pass that runs, or how the compilation left them

vars == <<collectorVars, resolverVars, phase>>

Init ==
    /\ CollectorInit
    /\ ResolverInit
    /\ phase = "collect"

Collect ==
    /\ phase = "collect"
    /\ CollectorNext
    /\ UNCHANGED <<resolverVars, phase>>

\* collect() returns whether it reported no error.
CollectReturns ==
    /\ phase = "collect"
    /\ step = "node"
    /\ phase' = IF duplicates = {} THEN "validate" ELSE "rejected"
    /\ UNCHANGED <<collectorVars, resolverVars>>

Resolving ==
    /\ phase = "resolve"
    /\ ResolverNext
    /\ UNCHANGED <<collectorVars, phase>>

ResolveReturns ==
    /\ phase = "resolve"
    /\ at > Len(tree)
    /\ phase' = IF reports = {} THEN "accepted" ELSE "rejected"
    /\ UNCHANGED <<collectorVars, resolverVars>>

--------------------------------------------------------------------------------
(* Lexical scoping, read off the tree. *)

Positions == DOMAIN tree
HasBody(i) == tree[i].kind \in {"function", "loop", "block"}
Ends(i) == tree[i].kind = "end"

\* Some node between them ends body j: there are more ends than bodies up to it.
Ended(j, i) ==
    \E k \in {k \in j + 1 .. i - 1 : Ends(k)} :
        Quantify(j + 1 .. k, Ends) > Quantify(j + 1 .. k, HasBody)
Encloses(j, i) == HasBody(j) /\ ~Ended(j, i)

\* A region is a body, named by its node, or the program (0).
Program == 0
RegionsAround(i) == {Program} \cup {j \in 1 .. i - 1 : Encloses(j, i)}
Region(i) == Max(RegionsAround(i))
Outward(r) == {r} \cup IF r = Program THEN {} ELSE RegionsAround(r)
FunctionOf(r) == Max({Program} \cup {j \in Outward(r) \ {Program} : tree[j].kind = "function"})

\* Every declaration: where it is known, after which node, and whether it is a
\* variable or parameter of a function.
Declared(i, position, name, region, after, local) ==
    [declaration |-> [node |-> i, position |-> position], name |-> name,
     region |-> region, after |-> after, local |-> local]

OfKind(kind) == {i \in Positions : tree[i].kind = kind}
Declarations ==
    {Declared(i, 0, tree[i].name, Region(i), 0, FALSE) : i \in OfKind("function")}
    \cup {Declared(i, 0, tree[i].name, i, 0, TRUE) : i \in OfKind("loop")}
    \cup {Declared(i, 0, tree[i].name, Region(i),
                   IF Region(i) = Program THEN 0 ELSE i, Region(i) # Program)
          : i \in OfKind("variable")}
    \cup UNION {{Declared(i, k, tree[i].parameters[k], i, 0, TRUE)
                 : k \in DOMAIN tree[i].parameters} : i \in OfKind("function")}

\* What a name used in node i may mean, the innermost meaning, and whether that
\* belongs to another function's body.
Known(name, i) ==
    LET regions == Outward(Region(i)) IN
        {d \in Declarations : d.name = name /\ d.region \in regions}
Meanings(name, i) == {d \in Known(name, i) : i > d.after}
Meaning(name, i) ==
    LET meanings == Meanings(name, i) IN
        CHOOSE d \in meanings : \A e \in meanings : e.region <= d.region
Captured(name, i) ==
    /\ Meanings(name, i) # {}
    /\ LET meaning == Meaning(name, i) IN
           meaning.local /\ FunctionOf(meaning.region) # FunctionOf(Region(i))

\* Declarations in the same region of a name that an earlier one has taken.
Earlier(d, e) ==
    /\ d.name = e.name
    /\ d.region = e.region
    /\ \/ d.declaration.node < e.declaration.node
       \/ /\ d.declaration.node = e.declaration.node
          /\ d.declaration.position < e.declaration.position
Redeclared ==
    LET all == Declarations IN {e \in all : \E d \in all : Earlier(d, e)}

Uses == UNION {{<<i, k>> : k \in DOMAIN Reads(tree[i])} : i \in Positions}
NameOf(use) == Reads(tree[use[1]])[use[2]]

HasEntryPoint ==
    LET mains == {i \in OfKind("function") : tree[i].name = Main /\ Region(i) = Program} IN
        /\ mains # {}
        /\ \A i \in mains : tree[i].type = "int" /\ tree[i].parameters = <<>>

WellScoped ==
    /\ Redeclared = {}
    /\ HasEntryPoint
    /\ \A use \in Uses :
          /\ Meanings(NameOf(use), use[1]) # {} \/ NameOf(use) \in Builtins
          /\ ~Captured(NameOf(use), use[1])

--------------------------------------------------------------------------------
(* The pass in the middle. *)

TopLevel(i) == Region(i) = Program

\* The first top-level function named main is examined, through its symbol.
ValidateEntryPoint ==
    /\ phase = "validate"
    /\ LET mains == {i \in OfKind("function") : tree[i].name = Main /\ TopLevel(i)}
           first == Min(mains) IN
         phase' = IF /\ mains # {}
                     /\ Own(first) \in DOMAIN symbolOf
                     /\ symbols[symbolOf[Own(first)]].kind = "function"
                     /\ tree[first].type = "int"
                     /\ tree[first].parameters = <<>>
                  THEN "resolve" ELSE "rejected"
    /\ UNCHANGED <<collectorVars, resolverVars>>

Decided == phase \in {"accepted", "rejected"}
Finished == Decided /\ UNCHANGED vars

Next ==
    \/ Collect
    \/ CollectReturns
    \/ ValidateEntryPoint
    \/ Resolving
    \/ ResolveReturns
    \/ Finished

Spec == Init /\ [][Next]_vars

--------------------------------------------------------------------------------
(* Properties *)

\* Every name the resolver has bound, an illegal capture included, leads to the
\* declaration that lexical scoping gives it, or to a builtin if there is none.
ResolutionIsLexical ==
    Decided => \A use \in DOMAIN resolution :
        IF Meanings(NameOf(use), use[1]) = {}
        THEN resolution[use] = BuiltinTarget /\ NameOf(use) \in Builtins
        ELSE /\ resolution[use] # BuiltinTarget
             /\ symbols[resolution[use]].declaration =
                    Meaning(NameOf(use), use[1]).declaration

\* The passes let exactly the well scoped programs through.
AcceptsWellScoped ==
    /\ phase = "accepted" => WellScoped /\ DOMAIN resolution = Uses
    /\ phase = "rejected" => ~WellScoped

\* A redeclaration is reported at each declaration but the first, and the note
\* points to the first.
DuplicatesReported ==
    Decided =>
        /\ {x[1] : x \in duplicates} = {d.declaration : d \in Redeclared}
        /\ \A x \in duplicates, d, e \in Declarations :
              d.declaration = x[1] /\ symbols[x[2]].declaration = e.declaration =>
                  Earlier(e, d) /\ e \notin Redeclared

\* The kind of an error says what is wrong with the name: it is declared too
\* late, it belongs to an enclosing function, or it is not declared at all; and
\* the resolver never misses information that the collector left for it.
ReportsExplain ==
    Decided => \A report \in reports :
        LET i == report[1]
            name == NameOf(<<i, report[2]>>) IN
        CASE report[3] = "capture" -> Captured(name, i)
          [] report[3] = "before declaration" ->
                Meanings(name, i) = {} /\ Known(name, i) # {}
          [] report[3] = "unknown" -> Known(name, i) = {}
          [] report[3] = "missing" -> FALSE
================================================================================
