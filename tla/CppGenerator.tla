----------------------------- MODULE CppGenerator -----------------------------
(***************************************************************************)
(* CppGenerator::generate(): C++ for lowered code, whose form it checks by *)
(* rules of its own.  Of the text it is kept what is executed and what C++ *)
(* says about the order: a term has the terms it evaluates, and the place  *)
(* of the node whose operation it carries out.                             *)
(***************************************************************************)
EXTENDS Lowerer

--------------------------------------------------------------------------------
(* C++ terms.  A constant is a literal, a variable, or what has no operation.  *)
(* Enclosed is a term in parentheses, with or without a sign.  An application  *)
(* is a call, or an operator, on argument expressions; ordered, it is in a     *)
(* lambda that declares a variable for each argument before.  A shortcut is && *)
(* or ||.                                                                      *)

Term(cpp, at, args) == [cpp |-> cpp, at |-> at, args |-> args]
Constant == Term("constant", <<>>, <<>>)

\* The term over the terms of operands.
Applied(cpp, at, operands) ==
    IF IsMade(operands) THEN Makes(Term(cpp, at, operands.made)) ELSE operands

--------------------------------------------------------------------------------
(* Storages *)

StorageReference(g, x) ==
    IF x.what \in DOMAIN g.storages /\ g.storages[x.what].type = x.type THEN Makes(Constant)
    ELSE Rejects("malformed", x.at)

\* A name that the function has not declared yet.
IsNew(g, id) == id \notin DOMAIN g.storages /\ id \notin g.seen
Introduce(g, id, type) == [g EXCEPT !.storages = (id :> Storage(type, FALSE)) @@ @, !.seen = @ \cup {id}]

--------------------------------------------------------------------------------
(* Expressions *)

EmitInteger(x) ==
    IF x.type = IntegerType /\ x.what > MaxInt THEN Rejects("range", x.at)
    ELSE IF x.type = IntegerType THEN Makes(Constant) ELSE Rejects("malformed", x.at)

EmitLiteral(x) ==
    IF x.type = PrimitiveTypeId(x.what) THEN Makes(Constant) ELSE Rejects("malformed", x.at)

\* Mutant: the literal is not looked for in parentheses.
IsBareLiteral(x, magnitude) == x.type = IntegerType /\ x.node = "integer" /\ x.what = magnitude

RECURSIVE GroupsLiteral(_, _)
\* unwrap_integer_literal() finds a literal of that magnitude.
GroupsLiteral(x, magnitude) ==
    /\ x.type = IntegerType
    /\ \/ x.node = "integer" /\ x.what = magnitude
       \/ x.node = "grouped" /\ GroupsLiteral(x.args[1], magnitude)

EmitUnary(x, operand) ==
    LET expected == PrimitiveTypeId(IF x.what = "!" THEN "bool" ELSE "int") IN
    IF x.type # expected \/ x.args[1].type # expected THEN Rejects("malformed", x.at)
    ELSE IF x.what = "-" /\ GroupsLiteral(x.args[1], MaxInt + 1) THEN Makes(Constant)
    ELSE Applied("enclosed", x.at, operand)

ValidBinaryTypes(operator, left, right, result) ==
    CASE operator = "+" ->
            left = right /\ left \in Primitives({"int", "string"}) /\ result = left
      [] IsArithmetic(operator) /\ operator # "+" ->
            left = IntegerType /\ right = IntegerType /\ result = IntegerType
      [] IsLogical(operator) -> {left, right, result} = Primitives({"bool"})
      [] IsOrdering(operator) ->
            /\ left = right /\ left \in Primitives({"int", "string"})
            /\ result = PrimitiveTypeId("bool")
      [] IsEquality(operator) ->
            /\ left = right /\ types[left].kind \notin {"vector", "void"}
            /\ result = PrimitiveTypeId("bool")

\* Mutant: all operators get their operands from variables.
OrdersEveryOperator(x, operands) ==
    IF ValidBinaryTypes(x.what, x.args[1].type, x.args[2].type, x.type)
    THEN Applied("ordered", x.at, operands)
    ELSE Rejects("malformed", x.at)

EmitBinary(x, operands) ==
    IF ValidBinaryTypes(x.what, x.args[1].type, x.args[2].type, x.type)
    THEN Applied(IF IsLogical(x.what) THEN "shortcut" ELSE "ordered", x.at, operands)
    ELSE Rejects("malformed", x.at)

EmitGroup(x, operand) ==
    IF x.args[1].type = x.type THEN Applied("enclosed", x.at, operand) ELSE Rejects("malformed", x.at)

ArgumentsMatch(x, takes) ==
    /\ Len(x.args) = Len(takes)
    /\ \A i \in DOMAIN takes : x.args[i].type \in takes[i]

\* With fewer than two arguments there is no order.
EmitUserCall(x, operands) ==
    LET function == Symbols[x.what] IN
    IF x.what \in Uncallable THEN Rejects("unsupported", x.at)
    ELSE IF /\ x.type = DeclaredId(function.result)
            /\ ArgumentsMatch(x, [i \in DOMAIN function.parameters |-> {DeclaredId(function.parameters[i])}])
    THEN Applied(IF Len(x.args) < 2 THEN "application" ELSE "ordered", x.at, operands)
    ELSE Rejects("malformed", x.at)

MatchesBuiltin(x) ==
    /\ x.type = PrimitiveTypeId(Builtins[x.what].gives)
    /\ ArgumentsMatch(x, [i \in DOMAIN Builtins[x.what].takes |-> Primitives(Builtins[x.what].takes[i])])

EmitBuiltinCall(x, operands) ==
    IF x.what = "print" THEN Rejects("unsupported", x.at)
    ELSE IF MatchesBuiltin(x)
    THEN Applied(IF x.what = "substring" THEN "ordered" ELSE "application", x.at, operands)
    ELSE Rejects("malformed", x.at)

EmitVector(x, operands) ==
    IF /\ IsVector(x.type) /\ types[x.type].element = x.what
       /\ Len(x.args) <= 2
       /\ \A i \in DOMAIN x.args : x.args[i].type = IF i = 1 THEN IntegerType ELSE x.what
       /\ ValidValueType(x.type)
    THEN Applied(IF Len(x.args) < 2 THEN "application" ELSE "ordered", x.at, operands)
    ELSE Rejects("malformed", x.at)

IsIndexed(x) ==
    /\ x.what = x.args[1].type /\ x.args[2].type = IntegerType
    /\ IsContainer(x.what)
    /\ x.type = ElementOf(types, x.what)

\* The container is bound to a reference before the index is evaluated.
EmitIndex(x, operands) ==
    IF IsIndexed(x) /\ ValidValueType(x.what) THEN Applied("ordered", x.at, operands) ELSE Rejects("malformed", x.at)

RECURSIVE EmitExpression(_, _), EmitMutable(_, _)
EmitOperands(g, x) == InOrder([i \in DOMAIN x.args |-> EmitExpression(g, x.args[i])])

\* A variable or an element of one, as a reference.
EmitMutable(g, x) ==
    CASE x.node = "storage" -> StorageReference(g, x)
      [] x.node = "grouped" /\ x.args[1].type = x.type ->
            Applied("enclosed", x.at, InOrder(<<EmitMutable(g, x.args[1])>>))
      [] x.node = "index" /\ IsIndexed(x) ->
            Applied("ordered", x.at,
                    InOrder(<<EmitMutable(g, x.args[1]), EmitExpression(g, x.args[2])>>))
      [] OTHER -> Rejects("malformed", x.at)

EmitMemberCall(g, x, operands) ==
    LET signature == MemberFunctions[x.what] IN
    IF /\ x.type = PrimitiveTypeId(signature.gives)
       /\ ArgumentsMatch(x, <<Primitives({"string"})>>
                            \o [i \in DOMAIN signature.takes |-> Primitives(signature.takes[i])])
    THEN IF x.what = "length" THEN Applied("application", x.at, operands)
         ELSE Applied("ordered", x.at,
                      InOrder(<<EmitMutable(g, x.args[1]), EmitExpression(g, x.args[2])>>))
    ELSE Rejects("malformed", x.at)

EmitExpression(g, x) ==
    CASE x.node = "integer" -> EmitInteger(x)
      [] x.node = "literal" -> EmitLiteral(x)
      [] x.node = "storage" -> StorageReference(g, x)
      [] x.node = "unary" -> EmitUnary(x, EmitOperands(g, x))
      [] x.node = "binary" -> EmitBinary(x, EmitOperands(g, x))
      [] x.node = "call" -> EmitUserCall(x, EmitOperands(g, x))
      [] x.node = "builtin" -> EmitBuiltinCall(x, EmitOperands(g, x))
      [] x.node = "member" -> EmitMemberCall(g, x, EmitOperands(g, x))
      [] x.node = "index" -> EmitIndex(x, EmitOperands(g, x))
      [] x.node = "vector" -> EmitVector(x, EmitOperands(g, x))
      [] x.node = "grouped" -> EmitGroup(x, EmitOperands(g, x))

--------------------------------------------------------------------------------
(* Statements.  Of one there are kept the terms that are evaluated in their    *)
(* order before its body, and those that are evaluated before each round.      *)
(* What the generator has so far: the storages that are active, and the        *)
(* temporaries; the open bodies, with those around each; how many bodies are   *)
(* open of those it passes over; the function's result; the loops around; the  *)
(* names that are taken, and the id that the next temporary must have.         *)

StartOutput ==
    [storages |-> <<>>, temporaries |-> {}, open |-> <<>>, result |-> NoType, loops |-> 0, skipped |-> 0,
     seen |-> {}, expected |-> 0, reports |-> {}, output |-> <<>>]

Failing(g, reports) == [g EXCEPT !.reports = @ \cup reports]
Malformed(g, x) == Failing(g, Rejects("malformed", x.at).reports)

Output(x, once, rounds) == [at |-> x.at, once |-> once, rounds |-> rounds]
Write(g, x, once, rounds) == [g EXCEPT !.output = Append(@, Output(x, once, rounds))]
\* The statement that evaluates its operands.
WriteIf(g, x, operands) ==
    IF IsMade(operands) THEN Write(g, x, operands.made, <<>>) ELSE Failing(g, operands.reports)

\* emit_scoped_body() for the statement.
EnterBody(g, x) ==
    [g EXCEPT !.open = Append(@, [kind |-> x.kind, storages |-> g.storages, temporaries |-> g.temporaries]),
              !.loops = @ + IF x.kind \in {"while", "range", "each"} THEN 1 ELSE 0]

PassOver(g) == [g EXCEPT !.skipped = @ + 1]

EmitFunction(g, x) ==
    IF \A id \in DOMAIN ParameterStorages : ValidValueType(ParameterStorages[id].type)
    THEN [EnterBody(Write(g, x, <<>>, <<>>), x) EXCEPT
            !.storages = ParameterStorages, !.temporaries = {}, !.loops = 0, !.result = x.what]
    ELSE PassOver(Malformed(g, x))

EmitEnd(g) ==
    LET ended == g.open[Len(g.open)] IN
    IF g.skipped > 0 THEN [g EXCEPT !.skipped = @ - 1]
    ELSE
    [g EXCEPT !.open = SubSeq(@, 1, Len(@) - 1),
              !.storages = ended.storages, !.temporaries = ended.temporaries,
              !.loops = @ - IF ended.kind \in {"while", "range", "each"} THEN 1 ELSE 0]

EmitVariable(g, x) ==
    LET id == <<"", x.at[1]>>
        initializer == EmitOperands(g, x)
    IN  IF ~(x.args[1].type = x.what /\ IsNew(g, id) /\ ValidValueType(x.what)) THEN Malformed(g, x)
        ELSE IF IsMade(initializer) THEN Introduce(Write(g, x, initializer.made, <<>>), id, x.what)
        ELSE Failing(g, initializer.reports)

\* The index operands are checked against the chain that the lowerer recorded.
ValidTarget(x) ==
    /\ \A k \in 1 .. Len(x.args) - 1 :
        /\ x.args[k].type = IntegerType
        /\ IsContainer(x.what.chain[k - 1])
        /\ x.what.chain[k] = ElementOf(types, x.what.chain[k - 1])
    /\ x.what.chain[Len(x.args) - 1] = x.args[Len(x.args)].type

\* The reference to an element, after those to the elements it is in.
TargetTerm(x, terms) ==
    LET element[k \in 0 .. Len(terms) - 1] ==
            IF k = 0 THEN Constant
            ELSE Term("ordered", <<x.at[1], 0, k>>, <<element[k - 1], terms[k]>>)
    IN  element[Len(terms) - 1]

\* The target before the value.
EmitAssignment(g, x) ==
    LET operands == EmitOperands(g, x)
        target == x.what.chain[Len(x.args) - 1]
    IN  IF /\ x.what.storage \in DOMAIN g.storages
           /\ g.storages[x.what.storage].type = x.what.chain[0]
           /\ ValidTarget(x)
           /\ TakesOperator(x.what.operator, target) /\ target # VoidTypeId
        THEN IF IsMade(operands)
             THEN Write(g, x, <<TargetTerm(x, operands.made), operands.made[Len(x.args)]>>, <<>>)
             ELSE Failing(g, operands.reports)
        ELSE Malformed(g, x)

RECURSIVE Ungrouped(_)
Ungrouped(x) == IF x.node = "grouped" /\ x.args[1].type = x.type THEN Ungrouped(x.args[1]) ELSE x

\* print writes its argument to the stream.
EmitPrint(g, x, call) ==
    IF MatchesBuiltin(call)
    THEN WriteIf(g, x, InOrder(<<Applied("application", call.at, EmitOperands(g, call))>>))
    ELSE Malformed(g, x)

EmitExpressionStatement(g, x) ==
    LET call == Ungrouped(x.args[1]) IN
    IF call.node = "grouped" THEN Malformed(g, x)
    ELSE IF call.node = "builtin" /\ call.what = "print" THEN EmitPrint(g, x, call)
    ELSE IF call.node \in {"call", "builtin", "member"} THEN WriteIf(g, x, EmitOperands(g, x))
    ELSE Failing(g, Rejects("unsupported", x.at).reports)

EmitReturn(g, x) ==
    IF IF x.args = <<>> THEN g.result = VoidTypeId ELSE x.args[1].type = g.result
    THEN WriteIf(g, x, EmitOperands(g, x))
    ELSE Malformed(g, x)

EmitTransfer(g, x) == IF g.loops = 0 THEN Malformed(g, x) ELSE Write(g, x, <<>>, <<>>)
EmitBlock(g, x) == EnterBody(Write(g, x, <<>>, <<>>), x)

EmitConditional(g, x) ==
    LET condition == EmitOperands(g, x) IN
    IF x.args[1].type # PrimitiveTypeId("bool") THEN PassOver(Malformed(g, x))
    ELSE IF ~IsMade(condition) THEN PassOver(Failing(g, condition.reports))
    ELSE EnterBody(IF x.kind = "while" THEN Write(g, x, <<>>, condition.made)
                   ELSE Write(g, x, condition.made, <<>>), x)

\* The second body of the if statement: the storages are those around it.
EmitElse(g, x) ==
    LET around == g.open[Len(g.open)] IN
    [Write(g, x, <<>>, <<>>) EXCEPT !.storages = around.storages, !.temporaries = around.temporaries]

\* The id expected after the temporaries: one out of order leaves it.
ExpectedAfter(g, temporaries) ==
    LET after[k \in 0 .. Len(temporaries)] ==
            IF k = 0 THEN g.expected
            ELSE after[k - 1] + IF temporaries[k].id = after[k - 1] THEN 1 ELSE 0
    IN  after[Len(temporaries)]

\* The temporaries of a loop: in order, and as their position demands.
ValidTemporaries(g, x, roles) ==
    /\ Len(x.what.temporaries) = Len(roles)
    /\ \A k \in DOMAIN roles :
        /\ x.what.temporaries[k] = Temporary(g.expected + k - 1, roles[k][1], x.what.loop.owner, roles[k][2])
        /\ x.what.temporaries[k].id \notin g.temporaries
Activate(g, temporaries) ==
    [g EXCEPT !.temporaries = @ \cup {temporaries[k].id : k \in DOMAIN temporaries}]

\* The body of a loop: its variable and temporaries are there until it ends.  It
\* is emitted whether or not what the loop is over can be.
EmitLoop(g, x, isValid, operands) ==
    LET validated == [g EXCEPT !.expected = ExpectedAfter(g, x.what.temporaries)]
        written == IF IsMade(operands) THEN Write(validated, x, operands.made, <<>>)
                   ELSE Failing(validated, operands.reports)
    IN  IF isValid
        THEN Introduce(Activate(EnterBody(written, x), x.what.temporaries), x.what.loop.owner, x.what.loop.type)
        ELSE PassOver(Malformed(validated, x))

EmitForRange(g, x) ==
    EmitLoop(g, x,
             /\ x.what.loop.type = IntegerType /\ \A k \in 1 .. 2 : x.args[k].type = IntegerType
             /\ IsNew(g, x.what.loop.owner)
             /\ x.what.loop.condition \in {"less", "active"}
             /\ ValidTemporaries(g, x, RangeRoles(x.what.loop.condition)),
             EmitOperands(g, x))

EmitForEach(g, x) ==
    EmitLoop(g, x,
             /\ IsNew(g, x.what.loop.owner)
             /\ IsContainer(x.args[1].type) /\ x.what.loop.type = ElementOf(types, x.args[1].type)
             /\ ValidTemporaries(g, x, <<<<"snapshot", x.args[1].type>>>>)
             /\ ValidValueType(x.args[1].type),
             EmitOperands(g, x))

EmitStatement(g, x) ==
    CASE x.kind = "end" -> EmitEnd(g)
      [] g.skipped > 0 /\ x.kind # "end" -> IF x.kind \in Bodies THEN PassOver(g) ELSE g
      [] g.skipped = 0 /\ x.kind = "function" -> EmitFunction(g, x)
      [] g.skipped = 0 /\ x.kind = "variable" -> EmitVariable(g, x)
      [] g.skipped = 0 /\ x.kind = "assignment" -> EmitAssignment(g, x)
      [] g.skipped = 0 /\ x.kind = "expression" -> EmitExpressionStatement(g, x)
      [] g.skipped = 0 /\ x.kind \in {"if", "while"} -> EmitConditional(g, x)
      [] g.skipped = 0 /\ x.kind = "range" -> EmitForRange(g, x)
      [] g.skipped = 0 /\ x.kind = "each" -> EmitForEach(g, x)
      [] g.skipped = 0 /\ x.kind = "return" -> EmitReturn(g, x)
      [] g.skipped = 0 /\ x.kind \in {"break", "continue"} -> EmitTransfer(g, x)
      [] g.skipped = 0 /\ x.kind = "else" -> EmitElse(g, x)
      [] g.skipped = 0 /\ x.kind = "block" -> EmitBlock(g, x)

\* What generate() makes of lowered code.
GeneratedFrom(code) ==
    LET after[i \in 0 .. Len(code)] ==
            IF i = 0 THEN StartOutput ELSE EmitStatement(after[i - 1], code[i])
    IN  after[Len(code)]
================================================================================
