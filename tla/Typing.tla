-------------------------------- MODULE Typing ---------------------------------
(***************************************************************************)
(* The typing rules of the language, over types as they are written, and   *)
(* what they make of a program that the type checker has visited.          *)
(***************************************************************************)
EXTENDS TypeChecker, Integers

Integer == Written("int", 0)
Bool == Written("bool", 0)
Char == Written("char", 0)
String == Written("string", 0)
Void == Written("void", 0)
ScalarTypes == {Integer, Bool, Char, String}

\* A function is no value.
Function(takes, gives) == [takes |-> takes, gives |-> gives]
IsValue(type) == "base" \in DOMAIN type
Known(signature) ==
    Function([i \in DOMAIN signature.takes |-> {Written(base, 0) : base \in signature.takes[i]}],
             Written(signature.gives, 0))

Arithmetic == {"+", "-", "*", "/", "%"}
Ordering == {"<", "<=", ">", ">="}
Rules ==
    {<<"!", <<Bool>>, Bool>>, <<"+", <<Integer>>, Integer>>, <<"-", <<Integer>>, Integer>>,
     <<"+", <<String, String>>, String>>}
    \cup {<<op, <<Integer, Integer>>, Integer>> : op \in Arithmetic}
    \cup {<<op, <<t, t>>, Bool>> : op \in Ordering, t \in {Integer, String}}
    \cup {<<op, <<t, t>>, Bool>> : op \in {"==", "!="}, t \in ScalarTypes}
    \cup {<<op, <<Bool, Bool>>, Bool>> : op \in {"&&", "||"}}

\* What an index gives.
Elements(type) ==
    CASE type = String -> {Char}
      [] IsValue(type) /\ type.depth > 0 -> {[type EXCEPT !.depth = @ - 1]}
      [] OTHER -> {}

RECURSIVE IsPlace(_)
\* An expression that denotes a variable or an element of one.
IsPlace(e) ==
    \/ e.node = "name" /\ IsVariable(e.name)
    \/ e.node \in {"parenthesized", "index"} /\ IsPlace(e.args[1])

RECURSIVE Inner(_)
Inner(e) == IF e.node = "parenthesized" THEN Inner(e.args[1]) ELSE e
IsPush(e) == Inner(e).node = "member" /\ Inner(e).name = "push"

RECURSIVE Number(_)
\* The number that signs and parentheses around a literal make, in a set.
Number(e) ==
    CASE e.node = "integer" -> {e.value}
      [] e.node = "parenthesized" \/ (e.node = "unary" /\ e.operator = "+") -> Number(e.args[1])
      [] e.node = "unary" /\ e.operator = "-" -> {-n : n \in Number(e.args[1])}
      [] OTHER -> {}

--------------------------------------------------------------------------------
(* Scopes *)

EndsIn(i, j) == {k \in i .. j : program[k].kind = "end"}
BodiesIn(i, j) == {k \in i .. j : program[k].kind \in Bodies}
Around(j) ==
    {i \in BodiesIn(1, j - 1) : \A k \in i + 1 .. j - 1 :
        Cardinality(EndsIn(i + 1, k)) <= Cardinality(BodiesIn(i + 1, k))}
Latest(S) == CHOOSE i \in S : \A j \in S : j <= i
FunctionAround(j) == Latest({i \in Around(j) : program[i].kind = "function"})
EachAround(name, j) ==
    Latest({i \in Around(j) : program[i].kind = "each" /\ program[i].name = name})

--------------------------------------------------------------------------------
(* The types of an expression e of statement j, in a set: none, or one.  A     *)
(* literal is negated if a minus is applied to it.                             *)

\* The types of a node whose operands have the types ts.
Derived(e, ts) ==
    CASE e.node = "unary" ->
            {r[3] : r \in {rule \in Rules : /\ rule[1] = e.operator /\ rule[2] = ts
                                            /\ Number(e) \subseteq -MaxInt - 1 .. MaxInt}}
      [] e.node = "binary" -> {r[3] : r \in {rule \in Rules : rule[1] = e.operator /\ rule[2] = ts}}
      [] e.node = "index" -> IF ts[2] = Integer THEN Elements(ts[1]) ELSE {}
      [] e.node = "member" ->
            IF ts[1] = String /\ e.name \in DOMAIN MemberFunctions
            THEN {Known(MemberFunctions[e.name])} ELSE {}
      [] e.node = "vector" ->
            IF ts \in {<<>>, <<Integer>>} \cup {<<Integer, t>> : t \in Elements(e.type)} THEN {e.type} ELSE {}
      [] e.node = "call" ->
            IF /\ ~IsValue(ts[1])
               /\ Len(ts[1].takes) = Len(ts) - 1
               /\ \A i \in DOMAIN ts[1].takes : ts[i + 1] \in ts[1].takes[i]
               /\ IsPush(e.args[1]) => IsPlace(Inner(e.args[1]).args[1])
            THEN {ts[1].gives} ELSE {}
      [] e.node = "parenthesized" -> {ts[1]}

Negates(e, negated) ==
    (e.node = "unary" /\ e.operator = "-") \/ (e.node = "parenthesized" /\ negated)

The(S) == CHOOSE x \in S : TRUE
DerivedFrom(e, S) ==
    IF {} \in {S[i] : i \in DOMAIN S} THEN {} ELSE Derived(e, [i \in DOMAIN S |-> The(S[i])])

RECURSIVE Types(_, _, _)
Types(e, j, negated) ==
    CASE e.node = "integer" -> {t \in {Integer} : e.value <= MaxInt + (IF negated THEN 1 ELSE 0)}
      [] e.node = "literal" -> {Written(e.type, 0)}
      [] e.node = "name" ->
            IF e.name \in DOMAIN Builtins THEN {Known(Builtins[e.name])}
            ELSE IF e.name \in Bindings
            THEN UNION {Elements(t) : t \in Types(program[EachAround(e.name, j)].args[1],
                                                  EachAround(e.name, j), FALSE)}
            ELSE IF IsFunction(e.name)
            THEN {Function([i \in DOMAIN Symbols[e.name].parameters |->
                                {Symbols[e.name].parameters[i]}], Symbols[e.name].result)}
            ELSE {Symbols[e.name].type}
      [] OTHER -> DerivedFrom(e, [i \in DOMAIN e.args |-> Types(e.args[i], j, Negates(e, negated))])

--------------------------------------------------------------------------------
(* The statements.  A target is an expression of the same form: a name that is *)
(* indexed.  What a node may be reported at are its blames.                    *)

IsTarget(node) == node.kind = "assignment"
Target(node) ==
    LET indexed[k \in 0 .. Len(node.args) - 1] ==
            IF k = 0 THEN [node |-> "name", name |-> node.name, args |-> <<>>]
            ELSE [node |-> "index", args |-> <<indexed[k - 1], node.args[k]>>]
    IN  indexed
WholeTarget(node) == Target(node)[Len(node.args) - 1]
TargetTypes(node, j) ==
    IF IsVariable(node.name) THEN Types(WholeTarget(node), j, FALSE) ELSE {}

\* A global variable has a value before anything is executed.
IsTyped(j) == Around(j) = {} => \A i \in DOMAIN program[j].args : IsGlobalConstant(program[j].args[i])

\* Statement j is right if its expressions have the types ts and its target one
\* of the types T.
Suits(node, j, ts, T) ==
    CASE node.kind = "variable" -> IsTyped(j) /\ \A i \in DOMAIN ts : ts[i] = node.type
      [] IsTarget(node) ->
            \E t \in T : IF node.operator = "=" THEN ts[Len(ts)] = t
                         ELSE <<node.operator, <<t, ts[Len(ts)]>>, t>> \in Rules
      [] node.kind = "expression" -> IsValue(ts[1])
      [] node.kind = "return" ->
            LET result == program[FunctionAround(j)].result IN
            ts = IF result = Void THEN <<>> ELSE <<result>>
      [] node.kind \in {"if", "while"} -> ts[1] = Bool
      [] node.kind = "range" -> ts = <<Integer, Integer>>
      [] node.kind = "each" -> Elements(ts[1]) # {}
      [] OTHER -> TRUE

ArgumentTypes(node, j) == [i \in DOMAIN node.args |-> Types(node.args[i], j, FALSE)]

IsRight(node, j, S) ==
    /\ {} \notin {S[i] : i \in DOMAIN S}
    /\ Suits(node, j, [i \in DOMAIN S |-> The(S[i])], IF IsTarget(node) THEN TargetTypes(node, j) ELSE {})

RECURSIVE Nodes(_, _, _)
Nodes(e, at, negated) ==
    {[e |-> e, at |-> at, negated |-> negated,
      blames |-> {at} \cup {Append(at, i) : i \in DOMAIN e.args} \cup
                 IF e.node = "call" /\ IsPush(e.args[1])
                 THEN {Receiver(e.args[1], Append(at, 1)).at} ELSE {}]}
    \cup UNION {Nodes(e.args[i], Append(at, i), Negates(e, negated)) : i \in DOMAIN e.args}

Expressions(j) ==
    IF ~IsTyped(j) THEN {}
    ELSE UNION {Nodes(program[j].args[i], <<j, i>>, FALSE) : i \in DOMAIN program[j].args}
Targets(j) ==
    IF ~IsTarget(program[j]) THEN {}
    ELSE {[e |-> Target(program[j])[k], at |-> <<j, 0>>, negated |-> FALSE,
           blames |-> {<<j, 0>>, <<j, k>>}] : k \in 0 .. Len(program[j].args) - 1}

--------------------------------------------------------------------------------
(* Properties *)

\* A program is accepted exactly if the rules give every expression a type that
\* its statement can use: a failed operand that is passed over in silence is
\* reported elsewhere, and a return is held to the function it is in.
AcceptsWellTyped ==
    errors = {} <=> \A j \in DOMAIN program : IsRight(program[j], j, ArgumentTypes(program[j], j))

\* TypeInfo, which the lowering reads, has for every expression the type that the
\* rules give it and nothing for the others, in a program with errors as well; so
\* for targets, members and the variables of for-each statements.
RecordsDerivable ==
    LET all == UNION {Expressions(j) : j \in DOMAIN program}
        typed == UNION {{[x |-> x, type |-> t] : t \in Types(x.e, x.at[1], x.negated)} : x \in all}
        means == Denotes(types)
        assigned == {j \in DOMAIN program : IsTarget(program[j])}
        looped == {j \in DOMAIN program : program[j].kind = "each"}
    IN  /\ {<<at, means[info[at]]>> : at \in DOMAIN info} =
               {<<d.x.at, d.type>> : d \in {d \in typed : IsValue(d.type)}}
        /\ {<<at, members[at]>> : at \in DOMAIN members} =
               {<<d.x.at, d.x.e.name>> : d \in {d \in typed : d.x.e.node = "member"}}
        /\ {<<j, means[targets[j]]>> : j \in DOMAIN targets} =
               UNION {{<<j, t>> : t \in TargetTypes(program[j], j)} : j \in assigned}
        /\ {<<j, means[inferred[j]]>> : j \in DOMAIN inferred} =
               UNION {{<<j, t>> : t \in UNION {Elements(u) : u \in Types(program[j].args[1], j, FALSE)}}
                      : j \in looped}

\* Types that an expression without one might have had.
Imagined ==
    ScalarTypes \cup {Void, Written("int", 1), Written("string", 1)}
    \cup {Known(Builtins[name]) : name \in DOMAIN Builtins}
Choices(S) ==
    {ts \in [DOMAIN S -> Imagined \cup UNION {S[i] : i \in DOMAIN S}] :
        \A i \in DOMAIN S : ts[i] \in IF S[i] = {} THEN Imagined ELSE S[i]}

OperandTypes(x) == [i \in DOMAIN x.e.args |-> Types(x.e.args[i], x.at[1], Negates(x.e, x.negated))]
Complete(S) == {} \notin {S[i] : i \in DOMAIN S}

\* Nothing that the operands without a type might be would help.
Hopeless(x) ==
    /\ Types(x.e, x.at[1], x.negated) = {} \/ (x.at[2] = 0 /\ x.e.node = "name" /\ ~IsVariable(x.e.name))
    /\ x.e.args # <<>> => \A ts \in Choices(OperandTypes(x)) : Derived(x.e, ts) = {}
HopelessStatement(j) ==
    \A ts \in Choices(ArgumentTypes(program[j], j)) :
        ~Suits(program[j], j, ts, IF ~IsTarget(program[j]) THEN {}
                                  ELSE IF TargetTypes(program[j], j) = {} THEN Imagined
                                  ELSE TargetTypes(program[j], j))

\* Every report is about a node that is wrong whatever else is repaired: nothing
\* is reported only because an operand was; and every node that is wrong itself,
\* with operands that are right, is reported.
ErrorsAreRooted ==
    LET all == UNION {Expressions(j) \cup Targets(j) : j \in DOMAIN program}
        wrong == {x \in all : /\ Complete(OperandTypes(x))
                              /\ Types(x.e, x.at[1], x.negated) = {}
                              /\ x.e.node # "name"}
    IN  /\ \A at \in errors :
              \/ \E x \in all : at \in x.blames /\ Hopeless(x)
              \/ Len(at) <= 2 /\ HopelessStatement(at[1])
        /\ \A x \in wrong : x.blames \cap errors # {}
        /\ \A j \in DOMAIN program :
              (Complete(ArgumentTypes(program[j], j))
               /\ (IsTarget(program[j]) => TargetTypes(program[j], j) # {})
               /\ ~IsRight(program[j], j, ArgumentTypes(program[j], j)))
              => \E at \in errors : Len(at) <= 2 /\ at[1] = j
================================================================================
