------------------------------ MODULE Generation ------------------------------
(***************************************************************************)
(* What becomes of an accepted program: the type checker, the lowerer and  *)
(* the generator one after the other, against what the language supports   *)
(* and the order in which it evaluates.                                    *)
(***************************************************************************)
EXTENDS CppGenerator, Typing

\* The program has no error of types, and its loops have what leaves them.
IsAccepted ==
    /\ errors = {}
    /\ \A j \in DOMAIN program : program[j].kind \in {"break", "continue"} =>
        \E i \in Around(j) : IsLoop(program[i]) /\ i > FunctionAround(j)

--------------------------------------------------------------------------------
(* What code generation does not support, at its place *)

IsCallOf(e, names) == e.node = "call" /\ Inner(e.args[1]).node = "name" /\ Inner(e.args[1]).name \in names
IsGlobalVariable(name) == name \in DOMAIN Symbols /\ Symbols[name].kind = "variable"

Unsupported(j) ==
    LET node == program[j]
        isStatement(x) == node.kind = "expression" /\ x.e = Inner(node.args[1])
                          /\ \A k \in 3 .. Len(x.at) : x.at[k] = 1
        isLocal == Around(j) # {}
    IN  (IF node.kind = (IF isLocal THEN "function" ELSE "variable") THEN {<<j>>} ELSE {})
        \cup (IF isLocal /\ node.kind = "variable" /\ node.args = <<>> THEN {<<j>>} ELSE {})
        \cup (IF node.kind = "expression" /\ Inner(node.args[1]).node # "call" THEN {<<j, 1>>} ELSE {})
        \cup (IF IsTarget(node) /\ IsGlobalVariable(node.name) THEN {<<j, 0>>} ELSE {})
        \cup {Append(x.at, 1) : x \in {x \in Expressions(j) : IsCallOf(x.e, Uncallable)}}
        \cup {x.at : x \in {x \in Expressions(j) :
                \/ IsCallOf(x.e, {"print"}) /\ ~isStatement(x)
                \/ x.e.node = "name" /\ IsGlobalVariable(x.e.name)}}

--------------------------------------------------------------------------------
(* Evaluation: the operations in the order in which they are carried out, by    *)
(* place.  An operand that is not evaluated is one that && or || passes over.   *)

Concatenations(sets) ==
    LET upTo[k \in 0 .. Len(sets)] ==
            IF k = 0 THEN {<<>>} ELSE {a \o b : a \in upTo[k - 1], b \in sets[k]}
    IN  upTo[Len(sets)]

Decides(left, at, right) ==
    {a \o <<<<at, "decided">>>> : a \in left} \cup {a \o <<<<at, "open">>>> \o b : a \in left, b \in right}

\* From left to right, and operands before their operation.
RECURSIVE Evaluations(_, _)
Evaluations(e, at) ==
    LET operands == [k \in DOMAIN e.args |-> Evaluations(e.args[k], Append(at, k))] IN
    CASE e.node \in {"integer", "literal", "name"} -> {<<>>}
      [] e.node \in {"unary", "parenthesized", "member"} -> operands[1]
      [] e.node = "binary" /\ IsLogical(e.operator) -> Decides(operands[1], at, operands[2])
      [] OTHER -> Concatenations(Append(operands, {<<at>>}))

TargetEvaluations(node, j) ==
    [k \in 1 .. Len(node.args) - 1 |->
        Concatenations(<<Evaluations(node.args[k], <<j, k>>), {<<<<j, 0, k>>>>}>>)]

\* A target before the value that it is assigned.
StatementEvaluations(node, j) ==
    LET operands == [k \in DOMAIN node.args |-> Evaluations(node.args[k], <<j, k>>)] IN
    IF IsTarget(node) THEN Concatenations(Append(TargetEvaluations(node, j), operands[Len(operands)]))
    ELSE Concatenations(operands)

Permutation(n, order) == {order[k] : k \in 1 .. n} = 1 .. n
Orders(n) == {order \in [1 .. n -> 1 .. n] : Permutation(n, order)}

RECURSIVE Executions(_)
\* C++ says nothing about the order of arguments and of most operands.
Executions(term) ==
    LET operands == [k \in DOMAIN term.args |-> Executions(term.args[k])] IN
    CASE term.cpp = "constant" -> {<<>>}
      [] term.cpp = "enclosed" -> operands[1]
      [] term.cpp = "shortcut" -> Decides(operands[1], term.at, operands[2])
      [] term.cpp = "ordered" -> Concatenations(Append(operands, {<<term.at>>}))
      [] term.cpp = "application" ->
            UNION {Concatenations(Append([k \in DOMAIN order |-> operands[order[k]]], {<<term.at>>}))
                   : order \in Orders(Len(operands))}

StatementExecutions(terms) == Concatenations([k \in DOMAIN terms |-> Executions(terms[k])])

--------------------------------------------------------------------------------
(* Properties *)

\* The three passes agree on the language, each with rules of its own: nothing in
\* an accepted program is malformed or out of range to the lowerer; it reports
\* only what is not supported, and something if there is such a thing; and what it
\* makes of the others, the generator accepts.
Agree(lowered, unsupported) ==
    /\ \A r \in lowered.reports : r.kind = "unsupported" /\ r.at \in unsupported
    /\ lowered.reports = {} <=> unsupported = {}
    /\ lowered.reports = {} => GeneratedFrom(lowered.code).reports = {}

PassesAgree == IsAccepted => Agree(LoweredProgram, UNION {Unsupported(j) : j \in DOMAIN program})

Evaluates(output, j, whole) ==
    LET isEachRound == program[j].kind = "while" IN
    /\ StatementExecutions(output.once) = IF isEachRound THEN {<<>>} ELSE whole
    /\ StatementExecutions(output.rounds) = IF isEachRound THEN whole ELSE {<<>>}

EvaluatesTheProgram(output) ==
    /\ [k \in DOMAIN output |-> output[k].at[1]] =
            SelectSeq([j \in DOMAIN program |-> j], LAMBDA j : program[j].kind # "end")
    /\ \A k \in DOMAIN output :
            Evaluates(output[k], output[k].at[1],
                      StatementEvaluations(program[output[k].at[1]], output[k].at[1]))

GeneratesInOrder(lowered) == lowered.reports = {} => EvaluatesTheProgram(GeneratedFrom(lowered.code).output)

\* The generated code carries out the operations of every statement once, and from
\* left to right, in any order in which C++ may evaluate it; && and || evaluate
\* their right operand only if the left one does not decide; the condition of a
\* while statement is evaluated in each round, and what a for statement is over
\* before the first.
EvaluatesInOrder == IsAccepted => GeneratesInOrder(LoweredProgram)
================================================================================
