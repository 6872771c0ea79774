------------------------------ MODULE TypeChecker ------------------------------
(***************************************************************************)
(* TypeChecker::check(): one visit of a program whose names are resolved.  *)
(* The program is any program: its next statement is chosen when the visit *)
(* reaches it; end ends the innermost open body, and else the then block   *)
(* of an if, whose else block it opens.                                    *)
(*                                                                         *)
(* An expression is a node, with its operands in args.  A place in the     *)
(* program, of a diagnostic or a recorded type, is the number of the       *)
(* statement and then those of the operands on the way down.               *)
(***************************************************************************)
EXTENDS AstTypes, FiniteSets, TLC

CONSTANTS
    MaxInt,     \* the greatest std::int64_t
    Declared,   \* the types in declarations, as the collector met them
    Symbols,    \* the functions and variables around, and what all functions
                \* have as parameters: kind and types
    Bindings,   \* names of variables of for-each statements
    Statements, \* what the program may have
    Samples,    \* statements it may end with after at most one other
    MaxSize     \* bound on the statements, with the ends of what is open

ASSUME CheckAssumption ==
    /\ MaxInt \in Nat /\ MaxSize \in Nat
    /\ \A name \in DOMAIN Symbols : Symbols[name].kind \in {"function", "variable", "parameter"}
    /\ Bindings \cap DOMAIN Symbols = {}

VARIABLES
    program,   \* the statements visited so far
    blocks,    \* the bodies open, with current_return_type_ before each
    returns,   \* current_return_type_
    info,      \* TypeInfo: place of an expression -> type
    members,   \* TypeInfo: place of a member access -> member
    targets,   \* TypeInfo: number of an assignment -> type of its target
    inferred,  \* TypeInfo: number of a for-each -> type of its variable
    errors     \* places reported

vars == <<types, program, blocks, returns, info, members, targets, inferred, errors>>

Here == Len(program) + 1
Enclosing == {blocks[i].node : i \in DOMAIN blocks}

--------------------------------------------------------------------------------
(* What a name is *)

Builtins ==
    ("print" :> [takes |-> <<Scalars>>, gives |-> "void"])
    @@ ("read_int" :> [takes |-> <<>>, gives |-> "int"])
    @@ ("read_string" :> [takes |-> <<>>, gives |-> "string"])
    @@ ("read_char" :> [takes |-> <<>>, gives |-> "char"])
    @@ ("len" :> [takes |-> <<{"string"}>>, gives |-> "int"])
    @@ ("substring" :> [takes |-> <<{"string"}, {"int"}, {"int"}>>, gives |-> "string"])

MemberFunctions ==
    ("length" :> [takes |-> <<>>, gives |-> "int"])
    @@ ("push" :> [takes |-> <<{"char"}>>, gives |-> "void"])

IsFunction(name) == name \in DOMAIN Symbols /\ Symbols[name].kind = "function"
IsVariable(name) == name \in Bindings \/ (name \in DOMAIN Symbols /\ ~IsFunction(name))

Inside(name) ==
    {i \in Enclosing : program[i].kind = "each" /\ program[i].name = name
                       /\ \A j \in Enclosing : program[j].kind = "function" => j < i}
\* The for-each statement whose variable the name is.
Binding(name) == CHOOSE i \in Inside(name) : \A j \in Inside(name) : j <= i

\* The types of the declarations, interned in their order.
InitialTypes ==
    LET after[i \in 0 .. Len(Declared)] ==
            IF i = 0 THEN [id \in 1 .. 5 |-> Primitive(PrimitiveKinds[id])]
            ELSE TypeIdFor(after[i - 1], Declared[i]).types
    IN  after[Len(Declared)]

DeclaredId(type) == TypeIdFor(InitialTypes, type).id
TypeOfSymbol(name) ==
    IF name \notin Bindings THEN DeclaredId(Symbols[name].type)
    ELSE IF Binding(name) \in DOMAIN inferred THEN inferred[Binding(name)]
    ELSE NoType

NoCallable == [kind |-> "none", name |-> ""]
Callable(kind, name) == [kind |-> kind, name |-> name]

--------------------------------------------------------------------------------
(* Expressions: operators over a node, its place and the results of operands *)

Result(type, callable) == [type |-> type, callable |-> callable]
Value(type) == [result |-> Result(type, NoCallable), errors |-> {}]
Failure(places) == [result |-> Result(NoType, NoCallable), errors |-> places]
Failed(r) == r.type = NoType /\ r.callable = NoCallable
IsCallable(r) == r.callable # NoCallable

RECURSIVE IsLiteralOf(_, _)
\* unwrap_integer_literal() finds a literal of that magnitude.
IsLiteralOf(e, magnitude) ==
    CASE e.node = "integer" -> e.value = magnitude
      [] e.node = "parenthesized" -> IsLiteralOf(e.args[1], magnitude)
      [] OTHER -> FALSE

RECURSIVE IsMinimum(_)
IsMinimum(e) ==
    \/ e.node = "parenthesized" /\ IsMinimum(e.args[1])
    \/ e.node = "unary" /\ e.operator = "+" /\ IsMinimum(e.args[1])
    \/ e.node = "unary" /\ e.operator = "-" /\ IsLiteralOf(e.args[1], MaxInt + 1)

\* Whether the operand may be the literal that only exists negated.
AllowsMinimum(e, allowed) ==
    \/ e.node = "unary" /\ e.operator = "-" /\ IsLiteralOf(e.args[1], MaxInt + 1)
    \/ e.node = "parenthesized" /\ allowed

CheckInteger(e, at, allowed) ==
    IF e.value > (IF allowed THEN MaxInt + 1 ELSE MaxInt) THEN Failure({at})
    ELSE Value(IntegerType)

CheckIdentifier(e) ==
    CASE e.name \in DOMAIN Builtins ->
            [result |-> Result(NoType, Callable("builtin", e.name)), errors |-> {}]
      [] IsFunction(e.name) ->
            [result |-> Result(NoType, Callable("function", e.name)), errors |-> {}]
      [] OTHER -> Value(TypeOfSymbol(e.name))

CheckUnary(e, at, operand) ==
    LET expected == PrimitiveTypeId(IF e.operator = "!" THEN "bool" ELSE "int") IN
    CASE Failed(operand) -> Failure({})
      [] \/ IsCallable(operand)
         \/ e.operator = "-" /\ IsMinimum(e.args[1])
         \/ operand.type \notin {NoType, expected} -> Failure({at})
      [] OTHER -> Value(expected)

IsArithmetic(operator) == operator \in {"+", "-", "*", "/", "%"}
IsLogical(operator) == operator \in {"&&", "||"}
IsEquality(operator) == operator \in {"==", "!="}
IsOrdering(operator) == operator \in {"<", "<=", ">", ">="}

\* The type of an operation, NoType if there is none.
OperationType(ts, operator, left, right) ==
    LET both(kind) == left = PrimitiveTypeId(kind) /\ right = PrimitiveTypeId(kind) IN
    CASE operator = "+" /\ both("string") -> PrimitiveTypeId("string")
      [] IsArithmetic(operator) /\ both("int") -> IntegerType
      [] \/ IsLogical(operator) /\ both("bool")
         \/ IsOrdering(operator) /\ (both("int") \/ both("string"))
         \/ IsEquality(operator) /\ left = right /\ ts[left].kind \notin {"vector", "void"} ->
            PrimitiveTypeId("bool")
      [] OTHER -> NoType

CheckBinary(ts, e, at, left, right) ==
    CASE Failed(left) \/ Failed(right) -> Failure({})
      [] IsCallable(left) \/ IsCallable(right) -> Failure({at})
      [] OTHER -> LET type == OperationType(ts, e.operator, left.type, right.type) IN
                  IF type = NoType THEN Failure({at}) ELSE Value(type)

ElementOf(ts, type) ==
    IF type = PrimitiveTypeId("string") THEN PrimitiveTypeId("char")
    ELSE ts[type].element
IsIndexable(ts, type) == type = PrimitiveTypeId("string") \/ ts[type].kind = "vector"

IsIndex(r) == r.type = IntegerType

CheckIndex(ts, at, base, index) ==
    CASE ~Failed(index) /\ ~IsIndex(index) -> Failure({Append(at, 2)})
      [] Failed(index) \/ Failed(base) -> Failure({})
      [] OTHER -> IF ~IsCallable(base) /\ IsIndexable(ts, base.type)
                  THEN Value(ElementOf(ts, base.type)) ELSE Failure({Append(at, 1)})

CheckMember(e, at, base) ==
    CASE Failed(base) -> Failure({})
      [] base.type = PrimitiveTypeId("string") /\ e.name \in DOMAIN MemberFunctions ->
            [result |-> Result(NoType, Callable("member", e.name)), errors |-> {}]
      [] OTHER -> Failure({at})

\* Of the arguments only the first two are looked at.
CheckVector(written, at, arguments) ==
    LET element == written.types[written.id].element
        wrong == {i \in DOMAIN arguments : i <= 2 /\ ~Failed(arguments[i])
                      /\ arguments[i].type # IF i = 1 THEN IntegerType ELSE element}
        places == {Append(at, i) : i \in wrong} \cup IF Len(arguments) > 2 THEN {at} ELSE {}
    IN  IF places # {} \/ \E i \in DOMAIN arguments : Failed(arguments[i])
        THEN Failure(places) ELSE Value(written.id)

--------------------------------------------------------------------------------
(* Calls *)

Signature(callable) ==
    CASE callable.kind = "function" ->
            LET function == Symbols[callable.name] IN
            [takes |-> [i \in DOMAIN function.parameters |-> {DeclaredId(function.parameters[i])}],
             gives |-> DeclaredId(function.result)]
      [] OTHER ->
            LET known == IF callable.kind = "builtin" THEN Builtins[callable.name]
                         ELSE MemberFunctions[callable.name] IN
            [takes |-> [i \in DOMAIN known.takes |-> {PrimitiveTypeId(k) : k \in known.takes[i]}],
             gives |-> PrimitiveTypeId(known.gives)]

RECURSIVE IsMutableReceiver(_)
IsMutableReceiver(e) ==
    CASE e.node = "name" -> IsVariable(e.name)
      [] e.node \in {"parenthesized", "index"} -> IsMutableReceiver(e.args[1])
      [] OTHER -> FALSE

RECURSIVE Receiver(_, _)
\* The base of the member access that is called, and its place.
Receiver(callee, at) ==
    IF callee.node = "parenthesized" THEN Receiver(callee.args[1], Append(at, 1))
    ELSE [base |-> callee.args[1], at |-> Append(at, 1)]

\* The receivers that push() may not have.
WrongReceivers(callable, callee, at) ==
    IF callable # Callable("member", "push") THEN {}
    ELSE {r.at : r \in {x \in {Receiver(callee, at)} : ~IsMutableReceiver(x.base)}}

\* Mutant: an argument that has no type is compared too.
WrongOrFailedArguments(takes, at, arguments) ==
    {Append(at, i + 1) : i \in {j \in DOMAIN arguments :
        IsCallable(arguments[j]) \/ (j <= Len(takes) /\ arguments[j].type \notin takes[j])}}
    \cup IF Len(arguments) # Len(takes) THEN {at} ELSE {}

\* Operand i + 1 of a call is argument i.
WrongArguments(takes, at, arguments) ==
    {Append(at, i + 1) : i \in {j \in DOMAIN arguments :
        \/ IsCallable(arguments[j])
        \/ j <= Len(takes) /\ arguments[j].type \notin takes[j] \cup {NoType}}}
    \cup IF Len(arguments) # Len(takes) THEN {at} ELSE {}

CallVerdict(signature, at, arguments, places) ==
    LET wrong == places \cup WrongArguments(signature.takes, at, arguments) IN
    IF wrong # {} \/ \E i \in DOMAIN arguments : Failed(arguments[i])
    THEN Failure(wrong) ELSE Value(signature.gives)

CheckCall(e, at, callee, arguments) ==
    CASE Failed(callee) -> Failure({})
      [] callee.type # NoType -> Failure({Append(at, 1)})
      [] OTHER -> CallVerdict(Signature(callee.callable), at, arguments,
                              WrongReceivers(callee.callable, e.args[1], Append(at, 1)))
--------------------------------------------------------------------------------
(* The visit of an expression.  What it has so far: the context of types, what *)
(* is recorded and reported, and the results of the operands visited.          *)

Verdict(ts, e, at, allowed, rs, written) ==
    CASE e.node = "integer" -> CheckInteger(e, at, allowed)
      [] e.node = "literal" -> Value(PrimitiveTypeId(e.type))
      [] e.node = "name" -> CheckIdentifier(e)
      [] e.node = "unary" -> CheckUnary(e, at, rs[1])
      [] e.node = "binary" -> CheckBinary(ts, e, at, rs[1], rs[2])
      [] e.node = "call" -> CheckCall(e, at, rs[1], Tail(rs))
      [] e.node = "index" -> CheckIndex(ts, at, rs[1], rs[2])
      [] e.node = "member" -> CheckMember(e, at, rs[1])
      [] e.node = "vector" -> CheckVector(written, at, rs)
      [] e.node = "parenthesized" -> [result |-> rs[1], errors |-> {}]

\* A type that is written is interned before the operands are visited.
WrittenType(visit, e) == TypeIdFor(visit.types, e.type)
Interning(visit, e) ==
    IF e.node = "vector" THEN [visit EXCEPT !.types = WrittenType(visit, e).types] ELSE visit

\* Mutant: what a member access denotes is recorded as if it had a type.
ConcludeCallables(visit, e, at, verdict) ==
    [visit EXCEPT
        !.info = IF verdict.result.type = NoType THEN @ ELSE (at :> verdict.result.type) @@ @,
        !.members = IF e.node # "member" THEN @ ELSE (at :> e.name) @@ @,
        !.errors = @ \cup verdict.errors,
        !.results = <<verdict.result>>]

Conclude(visit, e, at, verdict) ==
    [visit EXCEPT
        !.info = IF verdict.result.type = NoType THEN @ ELSE (at :> verdict.result.type) @@ @,
        !.members = IF e.node = "member" /\ IsCallable(verdict.result)
                    THEN (at :> e.name) @@ @ ELSE @,
        !.errors = @ \cup verdict.errors,
        !.results = <<verdict.result>>]

Concluded(before, visit, e, at, allowed) ==
    Conclude(visit, e, at,
             Verdict(visit.types, e, at, allowed, visit.results, WrittenType(before, e)))

RECURSIVE CheckExpression(_, _, _, _), CheckEach(_, _, _, _), Proceed(_, _, _, _, _)
CheckExpression(visit, e, at, allowed) ==
    Concluded(visit,
              CheckEach([Interning(visit, e) EXCEPT !.results = <<>>], e.args, at,
                        AllowsMinimum(e, allowed)),
              e, at, allowed)

Proceed(before, visit, es, at, allowed) ==
    CheckEach([visit EXCEPT !.results = before.results \o @], es, at, allowed)

\* Appends the results of the expressions that are left.
CheckEach(visit, es, at, allowed) ==
    IF Len(visit.results) = Len(es) THEN visit
    ELSE Proceed(visit,
                 CheckExpression(visit, es[Len(visit.results) + 1],
                                 Append(at, Len(visit.results) + 1), allowed),
                 es, at, allowed)

--------------------------------------------------------------------------------
(* Statements.  Their expressions are in args, of an assignment the indices of *)
(* the target and then the value.                                              *)

Bodies == {"function", "if", "while", "range", "each", "block"}
IsGlobal == blocks = <<>>

RECURSIVE IsGlobalConstant(_)
IsGlobalConstant(e) ==
    /\ e.node \in {"integer", "literal", "unary", "binary", "parenthesized"}
    /\ \A i \in DOMAIN e.args : IsGlobalConstant(e.args[i])

IsChecked(node) ==
    node.kind = "variable" /\ IsGlobal => \A i \in DOMAIN node.args : IsGlobalConstant(node.args[i])

Visited(node) ==
    CheckEach([types |-> types, info |-> info, members |-> members, errors |-> {}, results |-> <<>>],
              IF IsChecked(node) THEN node.args ELSE <<>>, <<Here>>, FALSE)

\* The value reported unless it has one of the types; what failed has been
\* reported.
WrongValue(r, i, expected) ==
    IF Failed(r) \/ r.type \in expected THEN {} ELSE {<<i>>}

VariableErrors(node, rs) ==
    IF ~IsChecked(node) THEN {<<1>>}
    ELSE UNION {WrongValue(rs[i], i, {DeclaredId(node.type)}) : i \in DOMAIN rs}

\* check_assignment_target(): its type after i indices, and what is reported.
TargetSteps(ts, node, rs) ==
    LET after[i \in 0 .. Len(node.args) - 1] ==
            IF i = 0
            THEN IF IsVariable(node.name)
                 THEN [type |-> TypeOfSymbol(node.name), valid |-> TRUE, errors |-> {}]
                 ELSE [type |-> NoType, valid |-> FALSE, errors |-> {<<0>>}]
            ELSE LET so == after[i - 1] IN
                 CASE ~IsIndex(rs[i]) ->
                        [so EXCEPT !.valid = FALSE, !.errors = @ \cup WrongValue(rs[i], i, {})]
                   [] IsIndex(rs[i]) /\ so.type = NoType -> so
                   [] OTHER ->
                        IF IsIndexable(ts, so.type) THEN [so EXCEPT !.type = ElementOf(ts, @)]
                        ELSE [type |-> NoType, valid |-> FALSE, errors |-> so.errors \cup {<<0>>}]
    IN  after[Len(node.args) - 1]

TargetOf(step) == IF step.valid THEN step.type ELSE NoType

\* Of compound operators only += takes strings.
AssignmentErrors(ts, node, rs) ==
    LET step == TargetSteps(ts, node, rs)
        n == Len(rs)
        takes == CASE TargetOf(step) = NoType -> {rs[n].type}
                   [] node.operator = "=" -> {TargetOf(step)}
                   [] OTHER -> {TargetOf(step)} \cap
                                 ({IntegerType} \cup
                                  IF node.operator = "+" THEN {PrimitiveTypeId("string")} ELSE {})
    IN  step.errors \cup WrongValue(rs[n], n, takes)

\* The type of the result is that of the function that is being checked.
ReturnErrors(rs) ==
    IF rs = <<>> THEN IF returns = VoidTypeId THEN {} ELSE {<<>>}
    ELSE WrongValue(rs[1], 1, {returns} \ {VoidTypeId})

EachElement(ts, r) ==
    IF r.type # NoType /\ IsIndexable(ts, r.type) THEN ElementOf(ts, r.type) ELSE NoType

StatementErrors(ts, node, rs) ==
    CASE node.kind = "variable" -> VariableErrors(node, rs)
      [] node.kind = "assignment" -> AssignmentErrors(ts, node, rs)
      [] node.kind = "expression" -> IF IsCallable(rs[1]) THEN {<<1>>} ELSE {}
      [] node.kind = "return" -> ReturnErrors(rs)
      [] node.kind \in {"if", "while"} -> WrongValue(rs[1], 1, {PrimitiveTypeId("bool")})
      [] node.kind = "range" -> UNION {WrongValue(rs[i], i, {IntegerType}) : i \in 1 .. 2}
      [] node.kind = "each" ->
            IF EachElement(ts, rs[1]) # NoType THEN {} ELSE WrongValue(rs[1], 1, {})
      [] OTHER -> {}

RECURSIVE Mentions(_, _)
Mentions(e, name) ==
    \/ e.node = "name" /\ e.name = name
    \/ \E i \in DOMAIN e.args : Mentions(e.args[i], name)

\* Names are resolved: the variables of for-each statements, in their bodies.
IsResolved(node) ==
    \A name \in Bindings :
        \/ node.kind = "assignment" /\ node.name = name
        \/ \E i \in DOMAIN node.args : Mentions(node.args[i], name)
        => Inside(name) # {}

Records(node, visit) ==
    /\ program' = Append(program, node)
    /\ types' = visit.types
    /\ info' = visit.info
    /\ members' = visit.members
    /\ errors' = errors \cup visit.errors
                 \cup {<<Here>> \o at : at \in StatementErrors(visit.types, node, visit.results)}

\* check_block() for the body of the node.
Opens(result) ==
    /\ blocks' = Append(blocks, [node |-> Here, around |-> returns])
    /\ returns' = result

CheckSimple(node) ==
    /\ node.kind \in {"variable", "expression", "return", "break", "continue"}
    /\ node.kind # "variable" => ~IsGlobal
    /\ IsResolved(node)
    /\ Records(node, Visited(node))
    /\ UNCHANGED <<blocks, returns, targets, inferred>>

RecordTarget(step) ==
    targets' = IF TargetOf(step) = NoType THEN targets ELSE (Here :> TargetOf(step)) @@ targets

CheckAssignment(node) ==
    /\ node.kind = "assignment"
    /\ ~IsGlobal
    /\ IsResolved(node)
    /\ Records(node, Visited(node))
    /\ RecordTarget(TargetSteps(types', node, Visited(node).results))
    /\ UNCHANGED <<blocks, returns, inferred>>

CheckNested(node) ==
    /\ node.kind \in {"if", "while", "range", "block"}
    /\ ~IsGlobal
    /\ IsResolved(node)
    /\ Records(node, Visited(node))
    /\ Opens(returns)
    /\ UNCHANGED <<targets, inferred>>

\* The second block of the if: the first ends.
CheckElse(node) ==
    /\ node.kind = "else"
    /\ ~IsGlobal
    /\ program[blocks[Len(blocks)].node].kind = "if"
    /\ program' = Append(program, node)
    /\ blocks' = [blocks EXCEPT ![Len(blocks)].node = Here]
    /\ UNCHANGED <<types, returns, info, members, errors, targets, inferred>>

\* The variable has a type only if its elements have one; the body is checked in
\* any case.
Infer(type) == inferred' = IF type = NoType THEN inferred ELSE (Here :> type) @@ inferred

CheckForEach(node) ==
    /\ node.kind = "each"
    /\ ~IsGlobal
    /\ IsResolved(node)
    /\ Records(node, Visited(node))
    /\ Infer(EachElement(types', Visited(node).results[1]))
    /\ Opens(returns)
    /\ UNCHANGED targets

CheckFunction(node) ==
    /\ node.kind = "function"
    /\ program' = Append(program, node)
    /\ Opens(DeclaredId(node.result))
    /\ UNCHANGED <<types, info, members, errors, targets, inferred>>

\* Mutant: what a function returns is still expected after it.
EndsInsideFunction(node) ==
    /\ node.kind = "end"
    /\ blocks # <<>>
    /\ program' = Append(program, node)
    /\ blocks' = SubSeq(blocks, 1, Len(blocks) - 1)
    /\ UNCHANGED <<types, info, members, errors, targets, inferred, returns>>

\* After a nested function the result type of the function around is back.
Ends(node) ==
    /\ node.kind = "end"
    /\ blocks # <<>>
    /\ program' = Append(program, node)
    /\ blocks' = SubSeq(blocks, 1, Len(blocks) - 1)
    /\ returns' = blocks[Len(blocks)].around
    /\ UNCHANGED <<types, info, members, errors, targets, inferred>>

Check(node) ==
    \/ CheckSimple(node)
    \/ CheckAssignment(node)
    \/ CheckNested(node)
    \/ CheckElse(node)
    \/ CheckForEach(node)
    \/ CheckFunction(node)
    \/ Ends(node)

Init ==
    /\ types = InitialTypes
    /\ program = <<>> /\ blocks = <<>>
    /\ returns = NoType
    /\ info = <<>> /\ members = <<>> /\ targets = <<>> /\ inferred = <<>>
    /\ errors = {}

Fits == Len(program') + Len(blocks') <= MaxSize

Next ==
    /\ \A i \in DOMAIN program : program[i] \in Statements
    /\ \E node \in Statements \cup IF Len(program) <= 1 THEN Samples ELSE {} :
           Check(node) /\ Fits

Spec == Init /\ [][Next]_vars
================================================================================
