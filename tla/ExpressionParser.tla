------------------------- MODULE ExpressionParser -------------------------
(***************************************************************************)
(* The recursive descent of ExpressionParser over the kinds of the tokens. *)
(* A parser takes the index of the current token and returns whether it    *)
(* succeeded, the index it stopped at, the node, and where it reported an  *)
(* error.  Kinds that every parser treats alike are one kind here: "lit"   *)
(* is any literal, "int" any scalar type, "+" also minus, "*" also slash   *)
(* and percent, "==" also !=, "<=" also >=, "+=" every compound            *)
(* assignment, ".." also ..=, "break" also continue.                       *)
(***************************************************************************)
EXTENDS Naturals, Sequences

\* The kinds of the tokens, without the end of file that follows them.
VARIABLE tokens

AtEnd(i) == i > Len(tokens)
Current(i) == IF AtEnd(i) THEN "eof" ELSE tokens[i]

Scalars == {"int"}
ExpressionStarts == {"id", "lit", "(", "vector", "+", "!"}
Delimiters == {"eof", ")", "{", "]", "}", ",", ";", "=", "+=", "..", "int", "void",
               "if", "else", "while", "for", "in", "return", "break"}

Node(op, args) == [op |-> op, args |-> args]
Leaf(op) == Node(op, <<>>)
None == Leaf("none")

Parsed(i, node) == [ok |-> TRUE, at |-> i, node |-> node, errors |-> <<>>]

\* Failure at i, reported at where. An expression parser reports once, so that a
\* failure is passed on as it is.
Failed(i, where) == [ok |-> FALSE, at |-> i, node |-> None, errors |-> <<where>>]

\* Goes on with s, which starts from the result of r, after a success of r.
Then(r, s) == IF r.ok THEN [s EXCEPT !.errors = r.errors \o @] ELSE r

\* A node around the one that was parsed, after other nodes.
Built(op, nodes, r) == IF r.ok THEN [r EXCEPT !.node = Node(op, Append(nodes, @))] ELSE r

-----------------------------------------------------------------------------
(* Types *)

\* After a missing element type, the token in its place is skipped unless it may
\* belong to what follows.
SkipNoType(i) ==
    IF /\ Current(i) \notin {"eof", ">"}
       /\ Current(i) = "void" \/ Current(i) \notin Delimiters
    THEN i + 1 ELSE i

RECURSIVE ParseValueType(_)
ParseValueType(i) ==
    CASE Current(i) \in Scalars -> Parsed(i + 1, Leaf(Current(i)))
      [] Current(i) \notin Scalars \cup {"vector"} -> [Failed(i, i) EXCEPT !.errors = <<>>]
      [] Current(i) = "vector" /\ Current(i + 1) # "<" -> Failed(i + 1, i + 1)
      [] OTHER ->
            LET element == ParseValueType(i + 2)
            IN  CASE ~element.ok ->
                        [Failed(SkipNoType(element.at), element.at) EXCEPT
                            !.errors = IF element.errors = <<>> THEN @ ELSE element.errors]
                  [] element.ok /\ Current(element.at) # ">" -> Failed(element.at, element.at)
                  [] OTHER -> Parsed(element.at + 1, Node("vector", <<element.node>>))

-----------------------------------------------------------------------------
(* Expressions. Binary operators by level, the loosest first. *)

Operators == << {"||"}, {"&&"}, {"=="}, {"<", ">", "<="}, {"+"}, {"*"} >>
Chaining == {1, 2, 5, 6}
UnaryOperators == {"+", "!"}

RECURSIVE ParseBinary(_, _), BinaryRest(_, _), ParseUnary(_), PostfixRest(_),
          ArgumentsFrom(_, _)

ParseExpression(i) == ParseBinary(1, i)

ParseBinary(level, i) ==
    IF level > Len(Operators) THEN ParseUnary(i)
    ELSE LET left == ParseBinary(level + 1, i) IN Then(left, BinaryRest(level, left))

\* What follows a left operand. Equality and comparison take one operator.
BinaryRest(level, left) ==
    IF Current(left.at) \notin Operators[level] THEN left
    ELSE LET right == ParseBinary(level + 1, left.at + 1)
             joined == Parsed(right.at, Node(Current(left.at), <<left.node, right.node>>))
         IN  Then(right,
                CASE level \in Chaining -> BinaryRest(level, joined)
                  [] level \notin Chaining /\ Current(right.at) \in Operators[level] ->
                        Failed(right.at, right.at)
                  [] OTHER -> joined)

\* After the opening parenthesis: the arguments up to the closing one.
ParseArgumentList(i) ==
    CASE Current(i) = ")" -> Parsed(i + 1, <<>>)
      [] Current(i) = "eof" -> Failed(i, i)
      [] OTHER -> ArgumentsFrom(i, <<>>)

ArgumentsFrom(i, arguments) ==
    LET argument == ParseExpression(i)
        next == argument.at
        all == Append(arguments, argument.node)
    IN  Then(argument,
            CASE Current(next) = ")" -> Parsed(next + 1, all)
              [] Current(next) = "," /\ Current(next + 1) \in ExpressionStarts ->
                    ArgumentsFrom(next + 1, all)
              [] Current(next) = "," /\ Current(next + 1) \notin ExpressionStarts ->
                    Failed(next + 1, next + 1)
              [] OTHER -> Failed(next, next))

\* The expression at i and a closing kind after it.
ClosedExpression(i, kind) ==
    LET e == ParseExpression(i)
    IN  Then(e, IF Current(e.at) = kind THEN Parsed(e.at + 1, e.node) ELSE Failed(e.at, e.at))

ParseParenthesized(i) == Built("()", <<>>, ClosedExpression(i + 1, ")"))

ParseVectorConstruction(i) ==
    LET type == ParseValueType(i)
        list == ParseArgumentList(type.at + 1)
    IN  Then(type, IF Current(type.at) # "(" THEN Failed(type.at, type.at)
                   ELSE Then(list, Parsed(list.at, Node("construct", <<type.node>> \o list.node))))

\* A token that cannot start an expression is skipped unless it delimits one.
ParsePrimary(i) ==
    CASE Current(i) \in {"id", "lit"} -> Parsed(i + 1, Leaf(Current(i)))
      [] Current(i) = "(" -> ParseParenthesized(i)
      [] Current(i) = "vector" -> ParseVectorConstruction(i)
      [] OTHER -> Failed(IF Current(i) \in Delimiters THEN i ELSE i + 1, i)

PostfixRest(base) ==
    LET i == base.at
        list == ParseArgumentList(i + 1)
    IN  CASE ~base.ok -> base
          [] base.ok /\ Current(i) = "(" ->
                Then(list, PostfixRest(Parsed(list.at, Node("call", <<base.node>> \o list.node))))
          [] base.ok /\ Current(i) = "[" ->
                PostfixRest(Built("index", <<base.node>>, ClosedExpression(i + 1, "]")))
          [] base.ok /\ Current(i) = "." /\ Current(i + 1) = "id" ->
                PostfixRest(Parsed(i + 2, Node("member", <<base.node>>)))
          [] base.ok /\ Current(i) = "." /\ Current(i + 1) # "id" -> Failed(i + 1, i + 1)
          [] OTHER -> base

ParsePostfix(i) == PostfixRest(ParsePrimary(i))

ParseUnary(i) ==
    IF Current(i) \notin UnaryOperators THEN ParsePostfix(i)
    ELSE Built(Current(i), <<>>, ParseUnary(i + 1))

=============================================================================
