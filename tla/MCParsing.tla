----------------------------- MODULE MCParsing -----------------------------
EXTENDS Parsing

id == Leaf("id")
block == Node("block", <<>>)
Exp(e) == Node("expression", <<e>>)

\* Every operator over identifiers, and then over these.
Over(E) ==
    {Node(op, <<a, b>>) : op \in UNION {Operators[l] : l \in DOMAIN Operators} \cup {"index"},
                          a \in E, b \in E}
    \cup {Node(op, <<a>>) : op \in UnaryOperators \cup {"()", "member", "call"}, a \in E}
    \cup {Node("call", <<id, a>>) : a \in E}
    \cup {Node("construct", <<Node("vector", <<Leaf("int")>>), a, id>>) : a \in E}
SmallExpressions == {id} \cup Over({id})
Expressions == {e \in Over(SmallExpressions) : IsExpression(e)}

Body(items) ==
    Node("program", <<Node("function", <<Leaf("void"), Node("parameters", <<>>), Node("block", items)>>)>>)

Function == Node("function", <<Leaf("int"), Node("parameters", <<Leaf("int"), Leaf("int")>>), block>>)
MatrixType == Node("vector", <<Node("vector", <<Leaf("int")>>)>>)
Simple == {Exp(id), Node("=", <<Node("index", <<id, id>>), id>>), Node("return", <<>>), Node("return", <<id>>),
           Leaf("break"), Node("variable", <<MatrixType>>), Node("variable", <<Leaf("int"), id>>),
           Exp(Node("construct", <<Node("vector", <<Leaf("int")>>)>>)), Function}
Holding(blocks) ==
    {Node("if", <<id, b>>) : b \in blocks} \cup {Node("if", <<id, b, block>>) : b \in blocks}
    \cup {Node("if", <<id, block, b>>) : b \in blocks}
    \cup {Node("while", <<id, b>>) : b \in blocks} \cup {Node("for", <<id, b>>) : b \in blocks}
    \cup {Node("for", <<id, id, b>>) : b \in blocks} \cup blocks
Blocks == {block} \cup {Node("block", <<s>>) : s \in Simple}
Nested == {Node("block", <<s>>) : s \in Holding(Blocks)}

Written(p, cursors, n) == [tree |-> p, cursors |-> cursors, edits |-> n]

\* Programs with most constructs, to be changed at any place.
Variable(e) == Node("variable", <<Leaf("int"), e>>)
Rich(s) == Node("program", <<Function, Body(<<s, Exp(id)>>).args[1], Variable(id)>>)
RichStatements ==
    {Variable(Node("()", <<Node("+", <<id, Node("index", <<id, id>>)>>)>>)),
     Node("if", <<id, Node("block", <<Exp(id)>>), Node("block", <<Leaf("break")>>)>>),
     Node("while", <<Node("<", <<id, id>>), Node("block", <<Node("return", <<>>)>>)>>),
     Node("for", <<id, id, Node("block", <<Node("=", <<id, id>>)>>)>>),
     Node("variable", <<MatrixType, Node("construct", <<MatrixType, id>>)>>),
     Node("block", <<Function, Exp(Node("call", <<id, id, id>>))>>)}

\* Bodies with blocks in blocks, to be changed inside.
Inner == {Body(<<Node(op, <<id, Node("block", <<b>>)>>)>>) : op \in {"if", "while"},
                                                          b \in {block, Node("while", <<id, block>>)}}

\* Where the brace of a then block with an else is to be forgotten.
Elses == {Body(<<Node("if", <<id, b, block>>)>>) : b \in Nested}
BeforeElse(text) == {c \in 0..(Len(text) - 2) : text[c + 1] = "}" /\ text[c + 2] = "else"}

MCStarts ==
    {Written(Body(<<Exp(e)>>), {0}, 0) : e \in Expressions}
    \cup {Written(Body(<<s, t>>), {0}, 0) : s \in Holding(Nested), t \in Simple}
    \cup {Written(Rich(s), 0..Len(Yield(Rich(s))), 2) : s \in RichStatements}
    \cup {Written(p, BeforeElse(Yield(p)), 1) : p \in Elses}
    \cup {Written(p, 5..(Len(Yield(p)) - 1), 2) : p \in Inner}
    \cup {Written(Body(<<s>>), 5..(Len(Yield(Body(<<s>>))) - 1), 1) : s \in Holding({block})}
    \cup {Written(Node("program", <<>>), {0}, 3), Written(Body(<<>>), {5}, 3)}
MCAlphabet == {"id", "(", ")", "{", "}", "[", ",", ";", ".", "=", "+", "==", "<", ">",
               "..", "int", "void", "vector", "if", "else", "for", "in", "return"}

=============================================================================
