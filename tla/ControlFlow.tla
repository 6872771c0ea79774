------------------------------ MODULE ControlFlow ------------------------------
(***************************************************************************)
(* ControlFlowChecker::check(): one visit of the functions of a program    *)
(* that computes whether control may leave each statement at its end.  The *)
(* tree is any tree: its next node is chosen when the visit reaches it.    *)
(* Nodes are:                                                              *)
(*   function  name, type of the result, parameters (how many); its items  *)
(*             follow                                                      *)
(*   if        its then block follows                                      *)
(*   else      ends the then block; the else block follows                 *)
(*   loop      while, for-range or for-each; its body follows              *)
(*   block     its items follow                                            *)
(*   return, break, continue, and simple for the other statements          *)
(*   end       the innermost open body ends                                *)
(* Of FlowSummary only falls_through has an effect on well-formed trees.   *)
(***************************************************************************)
EXTENDS Naturals, Sequences, FiniteSets, SequencesExt

CONSTANTS
    Nodes,     \* the nodes a tree may have
    MaxNodes,  \* bound on the size of a tree
    Main       \* the name of the entry point

Bodies == {"function", "if", "else", "loop", "block"}
Transfers == {"break", "continue"}
Statements == {"if", "loop", "block", "simple", "return"} \cup Transfers

ASSUME NodeAssumption ==
    /\ MaxNodes \in Nat
    /\ \A node \in Nodes :
          /\ node.kind \in Bodies \cup Statements \cup {"end"}
          /\ node.kind = "function" => node.parameters \in Nat

VARIABLES
    tree,     \* the nodes visited so far
    visits,   \* the check_block() calls in progress, innermost last
    errors,   \* <<node, what is wrong>>
    warnings  \* the statements reported as unreachable

vars == <<tree, visits, errors, warnings>>

Here == Len(tree) + 1
Visit == Last(visits)
InBlock == visits # <<>>

\* A call of check_block() for the body of node Here.  In the else block of an
\* if, before says whether control leaves its then block.
Enter(loops, report, before) ==
    [node |-> Here, loops |-> loops, report |-> report, before |-> before,
     reachable |-> TRUE, reported |-> FALSE]

Init ==
    /\ tree = <<>>
    /\ visits = <<>>
    /\ errors = {}
    /\ warnings = {}

Arrives(node) == tree' = Append(tree, node)

\* Bound: the bodies that are open can still be ended.
Fits == Len(tree') + Len(visits') <= MaxNodes

\* Of the unreachable statements of a block the first one is reported.
WarnIfUnreachable ==
    warnings' = IF Visit.reachable \/ Visit.reported \/ ~Visit.report
                THEN warnings ELSE warnings \cup {Here}

\* The visit of a block after a statement that control leaves if falls.
After(visit, falls) ==
    [visit EXCEPT !.reachable = @ /\ falls, !.reported = @ \/ ~visit.reachable]

CheckSimple(node) ==
    /\ node.kind = "simple"
    /\ InBlock
    /\ Arrives(node)
    /\ WarnIfUnreachable
    /\ visits' = Append(Front(visits), After(Visit, TRUE))
    /\ UNCHANGED errors

CheckReturn(node) ==
    /\ node.kind = "return"
    /\ InBlock
    /\ Arrives(node)
    /\ WarnIfUnreachable
    /\ visits' = Append(Front(visits), After(Visit, FALSE))
    /\ UNCHANGED errors

\* break or continue: outside a loop it is an error and has no other effect.
CheckTransfer(node) ==
    /\ node.kind \in Transfers
    /\ InBlock
    /\ Arrives(node)
    /\ WarnIfUnreachable
    /\ visits' = Append(Front(visits), After(Visit, Visit.loops = 0))
    /\ errors' = errors \cup IF Visit.loops = 0 THEN {<<Here, "outside loop">>} ELSE {}

\* Mutant: statements below an unreachable one are reported as well.
CheckNestedCascading(node) ==
    /\ node.kind \in {"if", "loop", "block"}
    /\ InBlock
    /\ Arrives(node)
    /\ WarnIfUnreachable
    /\ visits' = Append(visits, Enter(Visit.loops + (IF node.kind = "loop" THEN 1 ELSE 0),
                                      Visit.report, FALSE))
    /\ UNCHANGED errors

\* A statement with a block: what is below an unreachable one is not reported.
CheckNested(node) ==
    /\ node.kind \in {"if", "loop", "block"}
    /\ InBlock
    /\ Arrives(node)
    /\ WarnIfUnreachable
    /\ visits' = Append(visits, Enter(Visit.loops + (IF node.kind = "loop" THEN 1 ELSE 0),
                                      Visit.report /\ Visit.reachable, FALSE))
    /\ UNCHANGED errors

CheckElse(node) ==
    /\ node.kind = "else"
    /\ InBlock
    /\ tree[Visit.node].kind = "if"
    /\ Arrives(node)
    /\ visits' = Append(Front(visits), Enter(Visit.loops, Visit.report, Visit.reachable))
    /\ UNCHANGED <<errors, warnings>>

\* Mutant: a nested function is checked at the loop depth it is declared at.
CheckFunctionInLoop(node) ==
    /\ node.kind = "function"
    /\ Arrives(node)
    /\ visits' = Append(visits, Enter(IF InBlock THEN Visit.loops ELSE 0, TRUE, FALSE))
    /\ UNCHANGED <<errors, warnings>>

\* A function nested in a block is checked on its own, in unreachable code too.
CheckFunction(node) ==
    /\ node.kind = "function"
    /\ Arrives(node)
    /\ visits' = Append(visits, Enter(0, TRUE, FALSE))
    /\ UNCHANGED <<errors, warnings>>

\* main returns 0 by itself.
MainExemption(i, top) ==
    /\ top
    /\ tree[i].name = Main
    /\ tree[i].parameters = 0
    /\ tree[i].type = "int"

FunctionEnds(node) ==
    /\ node.kind = "end"
    /\ InBlock
    /\ tree[Visit.node].kind = "function"
    /\ Arrives(node)
    /\ visits' = Front(visits)
    /\ errors' = errors \cup
          IF /\ Visit.reachable
             /\ tree[Visit.node].type # "void"
             /\ ~MainExemption(Visit.node, Len(visits) = 1)
          THEN {<<Visit.node, "no return">>} ELSE {}
    /\ UNCHANGED warnings

\* Mutant: control leaves an if only if it leaves both blocks.
FallsThroughBoth(visit) ==
    CASE tree[visit.node].kind \in {"if", "loop"} -> TRUE
      [] tree[visit.node].kind = "else" -> visit.before /\ visit.reachable
      [] tree[visit.node].kind = "block" -> visit.reachable

\* Whether control leaves the statement whose last block was visited.
FallsThrough(visit) ==
    CASE tree[visit.node].kind \in {"if", "loop"} -> TRUE
      [] tree[visit.node].kind = "else" -> visit.before \/ visit.reachable
      [] tree[visit.node].kind = "block" -> visit.reachable

StatementEnds(node) ==
    /\ node.kind = "end"
    /\ InBlock
    /\ tree[Visit.node].kind # "function"
    /\ Arrives(node)
    /\ visits' = Append(Front(Front(visits)),
                        After(Last(Front(visits)), FallsThrough(Visit)))
    /\ UNCHANGED <<errors, warnings>>

Check(node) ==
    \/ CheckSimple(node)
    \/ CheckReturn(node)
    \/ CheckTransfer(node)
    \/ CheckNested(node)
    \/ CheckElse(node)
    \/ CheckFunction(node)
    \/ FunctionEnds(node)
    \/ StatementEnds(node)

Next == \E node \in Nodes : Check(node) /\ Fits

Spec == Init /\ [][Next]_vars

--------------------------------------------------------------------------------
(* Where an execution gets to, whatever conditions and ranges evaluate to. *)

Level(i) == Cardinality({j \in 1 .. i - 1 : tree[j].kind \in Bodies \ {"else"}})
            - Cardinality({j \in 1 .. i - 1 : tree[j].kind = "end"})
Close(i) ==
    LET inner == IF tree[i].kind = "else" THEN Level(i) ELSE Level(i) + 1 IN
    CHOOSE j \in i + 1 .. Len(tree) :
        /\ tree[j].kind \in {"end", "else"} /\ Level(j) = inner
        /\ \A k \in i + 1 .. j - 1 : tree[k].kind \in {"end", "else"} => Level(k) # inner

\* The bodies around a node, and the nearest one of some kind.
Encloses(i, j) == tree[i].kind \in Bodies /\ i < j /\ j < Close(i)
Nearest(kinds, j) == {i \in 1 .. j - 1 : tree[i].kind \in kinds /\ Encloses(i, j)}
Innermost(kinds, j) == CHOOSE i \in Nearest(kinds, j) : \A k \in Nearest(kinds, j) : k <= i
FunctionOf(j) == Innermost({"function"}, j)
LoopsOf(j) == {i \in Nearest({"loop"}, j) : i > FunctionOf(j)}

\* The steps of an execution that is about to execute node i; an end or else
\* node stands for the end of the block before it.
Steps(i) ==
    CASE tree[i].kind = "function" -> {Close(i) + 1}
      [] tree[i].kind \in {"simple", "block"} -> {i + 1}
      [] tree[i].kind \in {"if", "loop"} -> {i + 1, Close(i) + 1}
      [] tree[i].kind = "else" -> {Close(i) + 1}
      [] tree[i].kind = "return" -> {}
      [] tree[i].kind \in Transfers ->
             IF LoopsOf(i) = {} THEN {i + 1}
             ELSE IF tree[i].kind = "continue" THEN {Innermost({"loop"}, i)}
             ELSE {Close(Innermost({"loop"}, i)) + 1}
      [] tree[i].kind = "end" ->
             LET body == CHOOSE j \in 1 .. i - 1 : tree[j].kind \in Bodies /\ Close(j) = i IN
             CASE tree[body].kind = "function" -> {}
               [] tree[body].kind = "loop" -> {body}
               [] OTHER -> {i + 1}

\* Where the executions of function f get to.
Reached(f) ==
    LET steps == [i \in DOMAIN tree |-> Steps(i)]
        after[n \in 0 .. Len(tree)] ==
            IF n = 0 THEN {f + 1}
            ELSE LET before == after[n - 1] IN before \cup UNION {steps[i] : i \in before}
    IN  after[Len(tree)]

Complete == visits = <<>>
Functions == {i \in DOMAIN tree : tree[i].kind = "function"}
StatementsOf(f) == {i \in f + 1 .. Close(f) : tree[i].kind \in Statements /\ FunctionOf(i) = f}
BlockOf(i) == Innermost(Bodies, i)
EntryPoint(f) ==
    /\ tree[f].name = Main /\ tree[f].type = "int" /\ tree[f].parameters = 0
    /\ \A g \in Functions : ~Encloses(g, f)

--------------------------------------------------------------------------------
(* Properties *)

\* A function is rejected for a missing return exactly if an execution of it
\* may reach its end, unless it is void or the program's main.
EndsReported ==
    Complete => \A f \in Functions :
        <<f, "no return">> \in errors <=>
            /\ tree[f].type # "void"
            /\ ~EntryPoint(f)
            /\ Close(f) \in Reached(f)

\* break and continue are rejected exactly if no loop of their own function is
\* around them, whatever is around the function.
TransfersReported ==
    Complete => \A i \in DOMAIN tree :
        <<i, "outside loop">> \in errors <=>
            tree[i].kind \in Transfers /\ LoopsOf(i) = {}

\* An execution never reaches a statement that is reported as unreachable; and
\* of the statements it never reaches the first of each block is reported, and
\* nothing in a block that is not reached itself.
DeadCodeReportedOnce ==
    Complete => \A f \in Functions :
        LET reached == Reached(f)
            dead == StatementsOf(f) \ reached IN
        warnings \cap StatementsOf(f) =
            {i \in dead : /\ BlockOf(i) + 1 \in reached
                          /\ \A j \in dead : BlockOf(j) = BlockOf(i) => i <= j}
================================================================================
