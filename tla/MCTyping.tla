------------------------------- MODULE MCTyping -------------------------------
EXTENDS Generation

N(value) == [node |-> "integer", value |-> value, args |-> <<>>]
L(type) == [node |-> "literal", type |-> type, args |-> <<>>]
V(name) == [node |-> "name", name |-> name, args |-> <<>>]
U(op, e) == [node |-> "unary", operator |-> op, args |-> <<e>>]
B(op, e, f) == [node |-> "binary", operator |-> op, args |-> <<e, f>>]
C(f, args) == [node |-> "call", args |-> <<f>> \o args]
X(e, f) == [node |-> "index", args |-> <<e, f>>]
M(e, name) == [node |-> "member", name |-> name, args |-> <<e>>]
New(type, args) == [node |-> "vector", type |-> type, args |-> args]
P(e) == [node |-> "parenthesized", args |-> <<e>>]

Ints == Written("int", 1)
Matrix == Written("int", 2)
Strings == Written("string", 1)

MCDeclared == <<Strings, Ints, Integer, Void>>
MCSymbols ==
    ("n" :> [kind |-> "parameter", type |-> Integer])
    @@ ("s" :> [kind |-> "parameter", type |-> String])
    @@ ("v" :> [kind |-> "parameter", type |-> Ints])
    @@ ("w" :> [kind |-> "parameter", type |-> Strings])
    @@ ("f" :> [kind |-> "function", parameters |-> <<Integer, Strings>>, result |-> Integer])
    @@ ("x" :> [kind |-> "variable", type |-> Integer])
    @@ ("main" :> [kind |-> "function", parameters |-> <<>>, result |-> Integer])
    @@ ("g" :> [kind |-> "function", parameters |-> <<>>, result |-> Void])

Leaves == {N(1), N(8), P(N(9)), L("bool"), L("char"), L("string"),
           V("n"), V("s"), V("v"), V("w"), V("f"), V("g"), V("print")}
Vectors == {New(Ints, <<>>), New(Matrix, <<>>)}
Unary(E) == {U(op, e) : op \in {"+", "-", "!"}, e \in E} \cup {P(e) : e \in E}
    \cup {M(e, name) : e \in E, name \in {"length", "push", "size"}} \cup {C(e, <<>>) : e \in E}
Binary(E, F) == {B(op, e, f) : op \in {"+", "*", "&&", "<=", "=="}, e \in E, f \in F}
    \cup {X(e, f) : e \in E, f \in F} \cup {C(e, <<f>>) : e \in E, f \in F}
    \cup {New(type, <<e, f>>) : type \in {Ints, Matrix}, e \in E, f \in F}

One == Unary(Leaves \cup Vectors) \cup Binary(Leaves, Leaves)
    \cup {C(V("f"), <<e, f>>) : e, f \in Leaves} \cup {C(V("substring"), <<V("s"), e, f>>) : e, f \in Leaves}
    \cup {New(Ints, <<e>>) : e \in Leaves} \cup {New(Ints, <<N(1), e, f>>) : e \in Leaves, f \in {N(9), V("f")}}
Signed(E) == {U("+", e) : e \in E} \cup {U("-", e) : e \in E} \cup {P(e) : e \in E}
Numbers == {N(7), N(8), N(9)}
MCExpressions == Leaves \cup One \cup Signed(Signed(Signed(Numbers)))
    \cup Unary(Unary(Leaves)) \cup Unary({X(V("w"), V("n")), X(V("w"), N(9)), B("+", V("s"), V("s"))})
    \cup {C(e, <<f>>) : e \in {M(X(V("w"), V("n")), "push"), P(M(P(V("s")), "push")), M(L("string"), "push"),
                                M(B("+", V("s"), V("s")), "push"), M(C(V("read_string"), <<>>), "length")},
                        f \in Leaves}
    \cup Binary({U("!", V("n")), C(V("g"), <<>>)}, Leaves)

S(kind, args) == [kind |-> kind, args |-> args]
Assign(name, op, args) == [kind |-> "assignment", name |-> name, operator |-> op, args |-> args]
Var(type, args) == [kind |-> "variable", type |-> type, args |-> args]
Each(e) == [kind |-> "each", name |-> "c", args |-> <<e>>]
Range(op, args) == [kind |-> "range", operator |-> op, args |-> args]
Func(type) == [kind |-> "function", result |-> type, args |-> <<>>]

Values == {N(1), N(9), L("bool"), L("string"), V("s"), V("w"), V("f"), C(V("g"), <<>>), New(Matrix, <<>>)}
Printed(e) == S("expression", <<C(V("print"), <<e>>)>>)
Called == C(V("f"), <<V("n"), V("w")>>)
Numeric == {N(1), P(Called), X(V("v"), V("n")), U("-", P(P(N(8)))), C(V("read_int"), <<>>)}
Textual == {V("s"), X(V("w"), Called), B("+", V("s"), L("string"))}
Logical == {L("bool"), B("<", V("n"), Called), U("!", B("==", V("s"), C(V("read_string"), <<>>)))}
Integral == {B(op, e, f) : op \in {"+", "%"}, e \in Numeric, f \in Numeric}
    \cup {X(V("v"), e) : e \in Numeric} \cup {C(V("f"), <<e, V("w")>>) : e \in Numeric}
    \cup {C(M(e, "length"), <<>>) : e \in Textual} \cup {C(V("f"), <<Called, New(Strings, <<e, f>>)>>) : e \in Numeric, f \in Textual}
Operated == Integral \cup Numeric \cup Textual \cup Logical
    \cup {B(op, e, f) : op \in {"&&", "||", "=="}, e \in Logical, f \in Logical}
    \cup {B("<=", e, f) : e \in Textual, f \in Textual}
    \cup {C(V("substring"), <<e, f, V("n")>>) : e \in Textual, f \in Numeric}
MCGenerated ==
    {S("expression", <<e>>) : e \in {C(V("main"), <<>>), P(C(P(V("main")), <<>>)), P(P(C(V("print"), <<V("n")>>))),
                                     C(V("print"), <<C(V("main"), <<>>)>>), C(V("print"), <<V("x")>>)}}
    \cup {Printed(e) : e \in Operated}
    \cup {S("expression", <<C(M(X(V("w"), e), "push"), <<X(f, e)>>)>>) : e \in Numeric, f \in Textual}
    \cup {S(kind, <<e>>) : kind \in {"if", "while"}, e \in Logical \cup {B("&&", e, f) : e \in Logical, f \in Logical}}
    \cup {S("return", <<e>>) : e \in Integral} \cup {Var(Integer, <<e>>) : e \in Integral}
    \cup {Range(op, <<e, f>>) : op \in {"..", "..="}, e \in Numeric, f \in Numeric}
    \cup {Each(e) : e \in Textual \cup {New(Ints, <<f>>) : f \in Numeric}}
    \cup {Assign("n", op, <<e>>) : op \in {"=", "+"}, e \in Integral}
    \cup {Assign("v", op, <<e, f>>) : op \in {"=", "%"}, e \in Numeric, f \in Numeric}
    \cup {Assign("w", "=", <<e, f, X(V("s"), e)>>) : e \in Numeric, f \in Numeric}
    \cup {S("block", <<>>), Var(Integer, <<>>), Assign("x", "=", <<N(1)>>), Var(Integer, <<V("x")>>), S("if", <<B("<", V("x"), C(V("main"), <<>>))>>)}
MCSamples == MCGenerated \cup
    {S("expression", <<e>>) : e \in MCExpressions}
    \cup {Var(type, <<e>>) : type \in {Integer, Ints}, e \in Leaves \cup Values \cup Unary(Leaves)}
    \cup {S(kind, <<e>>) : kind \in {"if", "return"}, e \in Values}
    \cup {Each(e) : e \in Values} \cup {Range("..", <<e, f>>) : e, f \in Values}
    \cup {Assign(name, op, <<e>>) : name \in {"n", "s", "f", "print"}, op \in {"=", "+", "*"}, e \in Values}
    \cup {Assign(name, op, <<i, e>>) : name \in {"s", "w", "f"}, op \in {"=", "+"}, i \in Values, e \in Values}
    \cup {Assign("w", op, <<i, k, e>>) : op \in {"=", "+"}, i \in Values, k \in Values,
                                         e \in {L("char"), V("s"), V("f")}}
MCStatements ==
    {Func(Integer), Func(Void), S("end", <<>>), S("return", <<>>), S("return", <<V("n")>>),
     S("return", <<V("c")>>), Each(V("w")), Each(V("c")), Each(N(1)), Each(X(New(Matrix, <<>>), V("n"))),
     Assign("c", "+", <<L("string")>>), Assign("c", "=", <<V("n"), L("char")>>),
     S("while", <<B("==", V("c"), V("n"))>>), Var(Ints, <<New(Ints, <<V("c")>>)>>),
     S("break", <<>>), S("continue", <<>>), S("if", <<L("bool")>>), S("else", <<>>), Range("..=", <<N(1), V("n")>>)}
===============================================================================
