------------------------------- MODULE Lowerer --------------------------------
(***************************************************************************)
(* Lowerer::lower(): the program that the type checker has left is visited *)
(* once more, with the tables it filled, and becomes lowered code.  The    *)
(* lowerer holds what the tables say against rules of its own.  A report   *)
(* is malformed, for tables that cannot be; range, for a number; or        *)
(* unsupported, for what the language has and code generation does not.    *)
(*                                                                         *)
(* Lowered code has the form of the program: statements in their order,    *)
(* with ends.  Its nodes keep their place, which the code calls span.  A   *)
(* malformed report is placed at the node that is lowered.  Left out: what *)
(* the parser never builds.                                                *)
(***************************************************************************)
EXTENDS TypeChecker
LOCAL INSTANCE SequencesExt

CONSTANT Uncallable \* main, and functions in functions

ASSUME UncallableAssumption == \A name \in Uncallable : IsFunction(name)

--------------------------------------------------------------------------------
(* Results: what is made, or the report that ends the attempt *)

Makes(x) == [made |-> <<x>>, reports |-> {}]
Rejects(kind, at) == [made |-> <<>>, reports |-> {[kind |-> kind, at |-> at]}]
IsMade(r) == r.reports = {}

\* One after the other, up to the first that is rejected.
Nothing == [made |-> <<>>, reports |-> {}]
Then(so, r) == IF IsMade(so) /\ IsMade(r) THEN [r EXCEPT !.made = so.made \o @] ELSE IF IsMade(so) THEN r ELSE so
InOrder(rs) == FoldLeft(Then, Nothing, rs)

TypeAt(at) == IF at \in DOMAIN info THEN info[at] ELSE NoType

\* A node over operands that are made, if it is well-formed.
Node(kind, what, at, operands, isWellFormed) ==
    IF ~IsMade(operands) THEN operands
    ELSE IF ~isWellFormed THEN Rejects("malformed", at)
    ELSE Makes([node |-> kind, what |-> what, at |-> at, type |-> TypeAt(at), args |-> operands.made])

--------------------------------------------------------------------------------
(* Types and storages *)

IsVector(type) == type # NoType /\ types[type].kind = "vector"
SyntaxTypeMatches(type, id) == Denotes(types)[id] = type
ValidValueType(id) == Denotes(types)[id].base # "void"
IsContainer(type) == type = PrimitiveTypeId("string") \/ IsVector(type)

\* Symbols: a name, and the statement that declares it or 0.
Global(name) == <<name, 0>>
IsParameter(name) == name \in DOMAIN Symbols /\ Symbols[name].kind = "parameter"
Storage(type, isParameter) == [type |-> type, isParameter |-> isParameter]
ParameterStorages ==
    [id \in {Global(name) : name \in {n \in DOMAIN Symbols : IsParameter(n)}} |->
        Storage(DeclaredId(Symbols[id[1]].type), TRUE)]

LoopsOver(s, name) ==
    {s.open[i].number : i \in {k \in DOMAIN s.open : /\ program[s.open[k].number].kind = "each"
                                                     /\ program[s.open[k].number].name = name}}
\* What the name resolver has bound the name to.
Resolution(s, name) ==
    IF name \notin Bindings THEN Global(name)
    ELSE <<name, CHOOSE i \in LoopsOver(s, name) : \A j \in LoopsOver(s, name) : j <= i>>

ActiveStorage(s, name, at) ==
    LET id == Resolution(s, name)
        isActive == id \in DOMAIN s.storages /\ s.storages[id].isParameter = IsParameter(name)
    IN  IF ~IsVariable(name) \/ (IsParameter(name) /\ ~isActive) THEN Rejects("malformed", at)
        ELSE IF ~isActive THEN Rejects("unsupported", at)
        ELSE IF name \notin Bindings /\ s.storages[id].type # DeclaredId(Symbols[name].type)
        THEN Rejects("malformed", at)
        ELSE Makes(id)

--------------------------------------------------------------------------------
(* Expressions *)

LowerInteger(e, at, allowed) ==
    IF e.value > (IF allowed THEN MaxInt + 1 ELSE MaxInt) /\ TypeAt(at) = IntegerType
    THEN Rejects("range", at)
    ELSE Node("integer", e.value, at, Nothing, TypeAt(at) = IntegerType)

LowerLiteral(e, at) == Node("literal", e.type, at, Nothing, TypeAt(at) = PrimitiveTypeId(e.type))

LowerIdentifier(s, e, at) ==
    LET storage == ActiveStorage(s, e.name, at) IN
    IF ~IsMade(storage) THEN storage
    ELSE Node("storage", storage.made[1], at, Nothing, s.storages[storage.made[1]].type = TypeAt(at))

LowerUnary(e, at, operand) ==
    IF IsMade(operand) /\ e.operator = "-" /\ IsMinimum(e.args[1]) THEN Rejects("range", at)
    ELSE Node("unary", e.operator, at, operand,
              {operand.made[1].type, TypeAt(at)} = {PrimitiveTypeId(IF e.operator = "!" THEN "bool" ELSE "int")})

\* The operand types that an operator has for a result type.
OperandsMatch(operator, left, right, result) ==
    LET both(kind) == left = PrimitiveTypeId(kind) /\ right = PrimitiveTypeId(kind) IN
    \/ IsLogical(operator) /\ both("bool") /\ result = PrimitiveTypeId("bool")
    \/ /\ IsEquality(operator) /\ left = right /\ result = PrimitiveTypeId("bool")
       /\ types[left].kind \notin {"vector", "void"}
    \/ IsOrdering(operator) /\ (both("int") \/ both("string")) /\ result = PrimitiveTypeId("bool")
    \/ IsArithmetic(operator) /\ both("int") /\ result = IntegerType
    \/ operator = "+" /\ both("string") /\ result = PrimitiveTypeId("string")

LowerBinary(e, at, operands) ==
    Node("binary", e.operator, at, operands,
         OperandsMatch(e.operator, operands.made[1].type, operands.made[2].type, TypeAt(at)))

\* The type that an index of a container of that type gives.
LowerIndex(at, operands) ==
    LET base == TypeAt(Append(at, 1)) IN
    IF /\ TypeAt(Append(at, 2)) = IntegerType
       /\ IsContainer(base)
       /\ TypeAt(at) = ElementOf(types, base)
    THEN Node("index", base, at, operands, TRUE)
    ELSE Rejects("malformed", at)

LowerVector(e, at, operands) ==
    LET type == TypeAt(at) IN
    IF /\ IsVector(type)
       /\ SyntaxTypeMatches(e.type, type)
       /\ Len(e.args) <= 2
       /\ \A i \in DOMAIN e.args :
            TypeAt(Append(at, i)) = IF i = 1 THEN IntegerType ELSE types[type].element
    THEN Node("vector", types[type].element, at, operands, TRUE)
    ELSE Rejects("malformed", at)

LowerParenthesized(at, operand) ==
    Node("grouped", "", at, operand, operand.made[1].type = TypeAt(at))

--------------------------------------------------------------------------------
(* Calls.  Operand i + 1 is argument i; arguments are looked at before one of  *)
(* them is lowered.                                                            *)

RECURSIVE Unwrapped(_)
Unwrapped(e) == IF e.node = "parenthesized" THEN Unwrapped(e.args[1]) ELSE e

TakesArguments(e, at, takes) ==
    /\ Len(e.args) = Len(takes) + 1
    /\ \A i \in DOMAIN takes : TypeAt(Append(at, i + 1)) \in takes[i]

Primitives(kinds) == {PrimitiveTypeId(kind) : kind \in kinds}

\* print is a statement only: the one that is being lowered.
LowerBuiltinCall(s, e, at, name, arguments) ==
    LET builtin == Builtins[name] IN
    IF name = "print" /\ at # s.statement THEN Rejects("unsupported", at)
    ELSE IF /\ TypeAt(at) = PrimitiveTypeId(builtin.gives)
            /\ TakesArguments(e, at, [i \in DOMAIN builtin.takes |-> Primitives(builtin.takes[i])])
    THEN Node("builtin", name, at, arguments, TRUE)
    ELSE Rejects("malformed", at)

LowerUserCall(e, at, name, arguments) ==
    LET function == Symbols[name] IN
    IF ~IsFunction(name) THEN Rejects("malformed", at)
    ELSE IF name \in Uncallable THEN Rejects("unsupported", Append(at, 1))
    ELSE IF /\ TypeAt(at) = DeclaredId(function.result)
            /\ TakesArguments(e, at, [i \in DOMAIN function.parameters |->
                                        {DeclaredId(function.parameters[i])}])
    THEN Node("call", name, at, arguments, TRUE)
    ELSE Rejects("malformed", at)

\* The place of a member access is that of its base without the last step.
MemberPlace(base) == SubSeq(base, 1, Len(base) - 1)

LowerMemberCall(e, at, base, operands) ==
    LET member == members[MemberPlace(base)]
        signature == MemberFunctions[member]
    IN  IF /\ MemberPlace(base) \in DOMAIN members
           /\ TypeAt(base) = PrimitiveTypeId("string")
           /\ TypeAt(at) = PrimitiveTypeId(signature.gives)
           /\ TakesArguments(e, at, [i \in DOMAIN signature.takes |-> Primitives(signature.takes[i])])
        THEN Node("member", member, at, operands, TRUE)
        ELSE Rejects("malformed", at)

RECURSIVE LowerExpression(_, _, _, _)
LowerOperands(s, e, at, allowed, from) ==
    InOrder([i \in 1 .. Len(e.args) - from |->
                LowerExpression(s, e.args[i + from], Append(at, i + from), allowed)])

LowerCall(s, e, at) ==
    LET callee == Unwrapped(e.args[1]) IN
    IF callee.node = "member"
    THEN LET receiver == Receiver(e.args[1], Append(at, 1)) IN
         LowerMemberCall(e, at, receiver.at,
             InOrder(<<LowerExpression(s, receiver.base, receiver.at, FALSE)>>
                     \o [i \in 1 .. Len(e.args) - 1 |->
                            LowerExpression(s, e.args[i + 1], Append(at, i + 1), FALSE)]))
    ELSE IF callee.node # "name" THEN Rejects("unsupported", Append(at, 1))
    ELSE IF callee.name \in DOMAIN Builtins
    THEN LowerBuiltinCall(s, e, at, callee.name, LowerOperands(s, e, at, FALSE, 1))
    ELSE LowerUserCall(e, at, callee.name, LowerOperands(s, e, at, FALSE, 1))

LowerExpression(s, e, at, allowed) ==
    IF TypeAt(at) = NoType THEN Rejects("malformed", at)
    ELSE CASE e.node = "integer" -> LowerInteger(e, at, allowed)
           [] e.node = "literal" -> LowerLiteral(e, at)
           [] e.node = "name" -> LowerIdentifier(s, e, at)
           [] e.node = "unary" -> LowerUnary(e, at, LowerOperands(s, e, at, AllowsMinimum(e, FALSE), 0))
           [] e.node = "binary" -> LowerBinary(e, at, LowerOperands(s, e, at, FALSE, 0))
           [] e.node = "call" -> LowerCall(s, e, at)
           [] e.node = "index" -> LowerIndex(at, LowerOperands(s, e, at, FALSE, 0))
           [] e.node = "member" -> Rejects("unsupported", at)
           [] e.node = "vector" -> LowerVector(e, at, LowerOperands(s, e, at, FALSE, 0))
           [] e.node = "parenthesized" ->
                LowerParenthesized(at, LowerOperands(s, e, at, allowed, 0))

--------------------------------------------------------------------------------
(* Statements.  What lowering has so far: active storages; the open bodies,    *)
(* with the storages around each; how many bodies are open of those it passes  *)
(* over; the function's result and the loops around; the temporaries made.     *)

Start ==
    [storages |-> <<>>, open |-> <<>>, skipped |-> 0, statement |-> <<>>, result |-> NoType,
     loops |-> 0, temporaries |-> 0, reports |-> {}, code |-> <<>>]

Reporting(s, reports) == [s EXCEPT !.reports = @ \cup reports]
Report(s, kind, at) == Reporting(s, Rejects(kind, at).reports)

Lowered(kind, i, what, args) == [kind |-> kind, at |-> <<i>>, what |-> what, args |-> args]
Emit(s, statement) == [s EXCEPT !.code = Append(@, statement)]
\* The statement, if its operands are made.
EmitIf(s, operands, kind, i, what) ==
    IF IsMade(operands) THEN Emit(s, Lowered(kind, i, what, operands.made))
    ELSE Reporting(s, operands.reports)

IsLoop(node) == node.kind \in {"while", "range", "each"}

\* lower_scoped_block() for the body of statement i.
Enter(s, i) ==
    [s EXCEPT !.open = Append(@, [number |-> i, around |-> s.storages]),
              !.loops = @ + IF IsLoop(program[i]) THEN 1 ELSE 0]
Skip(s) == [s EXCEPT !.skipped = @ + 1]
Adding(s, id, type) == [s EXCEPT !.storages = (id :> Storage(type, FALSE)) @@ @]

\* The symbols have the types that the declarations write.
ValidSignature(node) ==
    /\ SyntaxTypeMatches(node.result, DeclaredId(node.result))
    /\ \A name \in DOMAIN Symbols : IsParameter(name) =>
        /\ SyntaxTypeMatches(Symbols[name].type, DeclaredId(Symbols[name].type))
        /\ ValidValueType(DeclaredId(Symbols[name].type))

LowerFunction(s, i, node) ==
    IF s.open # <<>> THEN Skip(Report(s, "unsupported", <<i>>))
    ELSE LET result == DeclaredId(node.result)
             checked == IF ValidSignature(node) THEN s ELSE Report(s, "malformed", <<i>>)
         IN
         [Enter(Emit(checked, Lowered("function", i, result, <<>>)), i) EXCEPT
            !.storages = ParameterStorages, !.loops = 0, !.result = result]

LowerEnd(s) ==
    LET ended == s.open[Len(s.open)] IN
    IF s.skipped > 0 THEN [s EXCEPT !.skipped = @ - 1]
    ELSE Emit([s EXCEPT !.open = SubSeq(@, 1, Len(@) - 1),
                        !.storages = ended.around,
                        !.loops = @ - IF IsLoop(program[ended.number]) THEN 1 ELSE 0],
              Lowered("end", ended.number, <<>>, <<>>))

LowerVariable(s, i, node) ==
    LET type == DeclaredId(node.type)
        operands == LowerOperands(s, node, <<i>>, FALSE, 0)
        next == EmitIf(s, operands, "variable", i, type)
    IN  CASE s.open = <<>> -> Report(s, "unsupported", <<i>>)
          [] s.open # <<>> /\ ~(SyntaxTypeMatches(node.type, type) /\ ValidValueType(type)) ->
                Report(s, "malformed", <<i>>)
          [] OTHER ->
                IF node.args = <<>> THEN Report(s, "unsupported", <<i>>)
                ELSE IF TypeAt(<<i, 1>>) # type \/ <<"", i>> \in DOMAIN s.storages
                THEN Report(s, "malformed", <<i, 1>>)
                ELSE IF IsMade(operands) THEN Adding(next, <<"", i>>, type) ELSE next

\* The types of the target after its indices, NoType where it has no elements.
TargetChain(type, indices) ==
    LET after[k \in 0 .. indices] ==
            IF k = 0 THEN type
            ELSE IF IsContainer(after[k - 1]) THEN ElementOf(types, after[k - 1]) ELSE NoType
    IN  after

\* = takes any type, += also strings, the others integers.
TakesOperator(operator, type) ==
    operator = "=" \/ type = IntegerType \/ (operator = "+" /\ type = PrimitiveTypeId("string"))

LowerTargetIndex(s, i, node, k, chain) ==
    IF TypeAt(<<i, k>>) = IntegerType /\ chain[k] # NoType
    THEN LowerExpression(s, node.args[k], <<i, k>>, FALSE)
    ELSE Rejects("malformed", <<i, k>>)

LowerAssignedValue(s, i, node, k, type) ==
    IF /\ i \in DOMAIN targets /\ type = targets[i] /\ TypeAt(<<i, k>>) = type
       /\ TakesOperator(node.operator, type)
    THEN LowerExpression(s, node.args[k], <<i, k>>, FALSE)
    ELSE Rejects("malformed", <<i, k>>)

LowerAssignment(s, i, node) ==
    LET storage == ActiveStorage(s, node.name, <<i, 0>>)
        n == Len(node.args)
        chain == TargetChain(s.storages[storage.made[1]].type, n - 1)
    IN  IF ~IsMade(storage) THEN Reporting(s, storage.reports)
        ELSE IF i \notin DOMAIN targets THEN Report(s, "malformed", <<i, 0>>)
        ELSE EmitIf(s,
                InOrder([k \in 1 .. n |-> IF k < n THEN LowerTargetIndex(s, i, node, k, chain)
                                          ELSE LowerAssignedValue(s, i, node, k, chain[n - 1])]),
                "assignment", i, [storage |-> storage.made[1], operator |-> node.operator, chain |-> chain])

RECURSIVE UnwrappedPlace(_, _)
UnwrappedPlace(e, at) == IF e.node = "parenthesized" THEN UnwrappedPlace(e.args[1], Append(at, 1)) ELSE at

LowerExpressionStatement(s, i, node) ==
    IF Unwrapped(node.args[1]).node # "call" THEN Report(s, "unsupported", <<i, 1>>)
    ELSE EmitIf(s, LowerOperands([s EXCEPT !.statement = UnwrappedPlace(node.args[1], <<i, 1>>)],
                                 node, <<i>>, FALSE, 0), "expression", i, <<>>)

\* The body is lowered although the condition is not.
LowerConditional(s, i, node) ==
    IF TypeAt(<<i, 1>>) # PrimitiveTypeId("bool") THEN Skip(Report(s, "malformed", <<i, 1>>))
    ELSE Enter(EmitIf(s, LowerOperands(s, node, <<i>>, FALSE, 0), node.kind, i, <<>>), i)

\* The else block begins with the storages around the then block.
LowerElse(s, i) ==
    Emit([s EXCEPT !.open[Len(s.open)].number = i, !.storages = s.open[Len(s.open)].around],
         Lowered("else", i, <<>>, <<>>))

Temporary(id, role, owner, type) == [id |-> id, role |-> role, owner |-> owner, type |-> type]
\* Their ids are given in order.
MakeTemporaries(s, owner, roles) ==
    [k \in DOMAIN roles |-> Temporary(s.temporaries + k - 1, roles[k][1], owner, roles[k][2])]

\* The body of a loop with a variable, if what the loop is over is made.
EnterLoop(s, i, node, operands, loop, roles) ==
    IF ~IsMade(operands) THEN Skip(Reporting(s, operands.reports))
    ELSE Adding(Enter([Emit(s, Lowered(node.kind, i,
                                       [loop |-> loop, temporaries |-> MakeTemporaries(s, loop.owner, roles)],
                                       operands.made))
                       EXCEPT !.temporaries = @ + Len(roles)], i), loop.owner, loop.type)

\* A loop over a range ends with a comparison, or with an active flag.
Loop(owner, type, condition) == [owner |-> owner, type |-> type, condition |-> condition]
RangeCondition(operator) == IF operator = "..=" THEN "active" ELSE "less"
RangeRoles(condition) ==
    <<<<"begin", IntegerType>>, <<"end", IntegerType>>, <<"cursor", IntegerType>>>>
    \o IF condition = "active" THEN <<<<"active", PrimitiveTypeId("bool")>>>> ELSE <<>>

LowerForRange(s, i, node) ==
    IF /\ <<"", i>> \notin DOMAIN s.storages
       /\ \A k \in 1 .. 2 : TypeAt(<<i, k>>) = IntegerType
    THEN EnterLoop(s, i, node, LowerOperands(s, node, <<i>>, FALSE, 0),
                   Loop(<<"", i>>, IntegerType, RangeCondition(node.operator)),
                   RangeRoles(RangeCondition(node.operator)))
    ELSE Skip(Report(s, "malformed", <<i>>))

LowerForEach(s, i, node) ==
    LET iterable == TypeAt(<<i, 1>>)
        owner == <<node.name, i>>
    IN  IF /\ owner \notin DOMAIN s.storages
           /\ i \in DOMAIN inferred
           /\ IsContainer(iterable)
           /\ inferred[i] = ElementOf(types, iterable)
           /\ ValidValueType(iterable) /\ ValidValueType(inferred[i])
        THEN EnterLoop(s, i, node, LowerOperands(s, node, <<i>>, FALSE, 0), Loop(owner, inferred[i], "each"),
                       <<<<"snapshot", iterable>>>>)
        ELSE Skip(Report(s, "malformed", <<i>>))

LowerReturn(s, i, node) ==
    IF (node.args = <<>>) # (s.result = VoidTypeId) THEN Report(s, "malformed", <<i>>)
    ELSE IF node.args # <<>> /\ TypeAt(<<i, 1>>) # s.result THEN Report(s, "malformed", <<i, 1>>)
    ELSE EmitIf(s, LowerOperands(s, node, <<i>>, FALSE, 0), "return", i, <<>>)

LowerTransfer(s, i, node) ==
    IF s.loops = 0 THEN Report(s, "malformed", <<i>>) ELSE Emit(s, Lowered(node.kind, i, <<>>, <<>>))

LowerBlock(s, i) == Enter(Emit(s, Lowered("block", i, <<>>, <<>>)), i)

LowerStatement(s, i, node) ==
    CASE node.kind = "end" -> LowerEnd(s)
      [] s.skipped > 0 /\ node.kind # "end" -> IF node.kind \in Bodies THEN Skip(s) ELSE s
      [] s.skipped = 0 /\ node.kind = "function" -> LowerFunction(s, i, node)
      [] s.skipped = 0 /\ node.kind = "variable" -> LowerVariable(s, i, node)
      [] s.skipped = 0 /\ node.kind = "assignment" -> LowerAssignment(s, i, node)
      [] s.skipped = 0 /\ node.kind = "expression" -> LowerExpressionStatement(s, i, node)
      [] s.skipped = 0 /\ node.kind \in {"if", "while"} -> LowerConditional(s, i, node)
      [] s.skipped = 0 /\ node.kind = "range" -> LowerForRange(s, i, node)
      [] s.skipped = 0 /\ node.kind = "each" -> LowerForEach(s, i, node)
      [] s.skipped = 0 /\ node.kind = "return" -> LowerReturn(s, i, node)
      [] s.skipped = 0 /\ node.kind \in {"break", "continue"} -> LowerTransfer(s, i, node)
      [] s.skipped = 0 /\ node.kind = "else" -> LowerElse(s, i)
      [] s.skipped = 0 /\ node.kind = "block" -> LowerBlock(s, i)

\* What lower() makes of the program, whose main function is elsewhere.  Bodies
\* that are open end with the program.
LoweredProgram ==
    LET after[i \in 0 .. Len(program)] ==
            IF i = 0 THEN Start ELSE LowerStatement(after[i - 1], i, program[i])
    IN  after[Len(program)]
================================================================================
