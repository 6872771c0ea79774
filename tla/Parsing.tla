------------------------------ MODULE Parsing ------------------------------
(***************************************************************************)
(* Programs are written, changed token by token and parsed again.  The     *)
(* grammar is stated over syntax trees: which trees are programs, and the  *)
(* tokens a tree is written with.                                          *)
(***************************************************************************)
EXTENDS ProgramParser, FiniteSets

CONSTANTS
    Starts,     \* what is written first: [tree, cursors, edits]
    Alphabet    \* the kinds of tokens that are typed

VARIABLES
    cursor,     \* tokens before the place where the user types
    edits,      \* edits still to be made, the bound
    written,    \* the tree the tokens were first written from
    result      \* what parsing returned, or none before it

vars == <<tokens, cursor, edits, written, result>>

NotParsed == [node |-> None, ends |-> <<>>, errors |-> <<>>]

-----------------------------------------------------------------------------
(* The grammar: trees and how they are written. *)

RECURSIVE Yield(_), YieldAll(_), YieldList(_)

\* One after the other; and separated by commas.
YieldAll(nodes) == IF nodes = <<>> THEN <<>> ELSE Yield(Head(nodes)) \o YieldAll(Tail(nodes))
YieldList(nodes) ==
    IF Len(nodes) < 2 THEN YieldAll(nodes)
    ELSE Yield(Head(nodes)) \o <<",">> \o YieldList(Tail(nodes))

Yield(n) ==
    LET Y(i) == Yield(n.args[i])
        Optional(i, mark) == IF Len(n.args) < i THEN <<>> ELSE mark \o Y(i)
    IN  CASE n.op \in {"id", "lit", "int", "void"} -> <<n.op>>
          [] n.op = "vector" -> <<"vector", "<">> \o Y(1) \o <<">">>
          [] n.op = "()" -> <<"(">> \o Y(1) \o <<")">>
          [] n.op \in {"call", "construct"} -> Y(1) \o <<"(">> \o YieldList(Tail(n.args)) \o <<")">>
          [] n.op = "index" -> Y(1) \o <<"[">> \o Y(2) \o <<"]">>
          [] n.op = "member" -> Y(1) \o <<".", "id">>
          [] n.op \in {"=", "+="} -> Y(1) \o <<n.op>> \o Y(2) \o <<";">>
          [] n.op = "expression" -> Y(1) \o <<";">>
          [] n.op = "variable" -> Y(1) \o <<"id">> \o Optional(2, <<"=">>) \o <<";">>
          [] n.op \in {"return", "break"} -> <<n.op>> \o Optional(1, <<>>) \o <<";">>
          [] n.op = "if" -> <<"if">> \o Y(1) \o Y(2) \o Optional(3, <<"else">>)
          [] n.op = "while" -> <<"while">> \o Y(1) \o Y(2)
          [] n.op = "for" -> <<"for", "id", "in">> \o Y(1)
                                \o (IF Len(n.args) = 3 THEN <<"..">> \o Y(2) \o Y(3) ELSE Y(2))
          [] n.op = "block" -> <<"{">> \o YieldAll(n.args) \o <<"}">>
          [] n.op = "parameter" -> Y(1) \o <<"id">>
          [] n.op = "function" -> Y(1) \o <<"id", "(">> \o
                YieldList([p \in DOMAIN n.args[2].args |-> Node("parameter", <<n.args[2].args[p]>>)])
                                       \o <<")">> \o Y(3)
          [] n.op = "program" -> YieldAll(n.args)
          [] OTHER -> IF Len(n.args) = 1 THEN <<n.op>> \o Y(1) ELSE Y(1) \o <<n.op>> \o Y(2)

RECURSIVE IsType(_), IsExpression(_), IsItem(_)

IsType(n) == n = Leaf("int") \/ (n.op = "vector" /\ Len(n.args) = 1 /\ IsType(n.args[1]))

IsBinary(n) == Len(n.args) = 2 /\ \E l \in DOMAIN Operators : n.op \in Operators[l]

\* How tightly an expression holds together: its level, then unary, then postfix.
Tightness(n) ==
    CASE IsBinary(n) -> CHOOSE l \in DOMAIN Operators : n.op \in Operators[l]
      [] ~IsBinary(n) /\ n.op \in UnaryOperators -> Len(Operators) + 1
      [] OTHER -> Len(Operators) + 2

\* An operand never holds together less than its operator; only the left operand of
\* an operator that may be repeated holds together equally.
IsExpression(n) ==
    LET Operand(i, tight) == IsExpression(n.args[i]) /\ Tightness(n.args[i]) >= tight
        t == Tightness(n)
    IN  CASE n.op \in {"id", "lit"} -> n.args = <<>>
          [] n.op \in {"()", "member"} ->
                Len(n.args) = 1 /\ Operand(1, IF n.op = "()" THEN 1 ELSE t)
          [] n.op \in {"call", "index"} ->
                Operand(1, t) /\ \A i \in 2..Len(n.args) : Operand(i, 1)
          [] n.op = "construct" ->
                n.args[1].op = "vector" /\ IsType(n.args[1])
                    /\ \A i \in 2..Len(n.args) : Operand(i, 1)
          [] IsBinary(n) -> Operand(1, IF t \in Chaining THEN t ELSE t + 1) /\ Operand(2, t + 1)
          [] n.op \in UnaryOperators /\ ~IsBinary(n) -> Len(n.args) = 1 /\ Operand(1, t)
          [] OTHER -> FALSE

\* Statements, blocks and declarations.
IsItem(n) ==
    LET E(i) == IsExpression(n.args[i])
        B(i) == n.args[i].op = "block" /\ IsItem(n.args[i])
    IN  CASE n.op = "block" -> \A i \in DOMAIN n.args : IsItem(n.args[i])
          [] n.op = "function" ->
                /\ n.args[1] = Leaf("void") \/ IsType(n.args[1])
                /\ \A p \in DOMAIN n.args[2].args : IsType(n.args[2].args[p])
                /\ B(3)
          [] n.op = "variable" -> IsType(n.args[1]) /\ (Len(n.args) = 2 => E(2))
          [] n.op \in {"=", "+="} -> IsTarget(n.args[1]) /\ E(1) /\ E(2)
          [] n.op = "expression" -> E(1)
          [] n.op = "return" -> n.args # <<>> => E(1)
          [] n.op = "break" -> n.args = <<>>
          [] n.op = "if" -> E(1) /\ \A i \in 2..Len(n.args) : B(i)
          [] n.op = "while" -> E(1) /\ B(2)
          [] n.op = "for" -> (\A i \in 1..(Len(n.args) - 1) : E(i)) /\ B(Len(n.args))
          [] OTHER -> FALSE

IsProgram(n) ==
    n.op = "program" /\ \A i \in DOMAIN n.args : n.args[i].op \in {"function", "variable"}
                                                    /\ IsItem(n.args[i])

-----------------------------------------------------------------------------
Init ==
    \E s \in Starts :
        /\ tokens = Yield(s.tree)
        /\ cursor \in s.cursors
        /\ edits = s.edits
        /\ written = s.tree
        /\ result = NotParsed

Edit(replacement, rest) ==
    /\ result # NotParsed /\ edits > 0
    /\ tokens' = SubSeq(tokens, 1, cursor) \o replacement \o SubSeq(tokens, rest, Len(tokens))
    /\ cursor' = cursor + Len(replacement)
    /\ edits' = edits - 1
    /\ result' = NotParsed
    /\ UNCHANGED written

Insert == \E kind \in Alphabet : Edit(<<kind>>, cursor + 1)

Delete == cursor < Len(tokens) /\ Edit(<<>>, cursor + 2)

\* Parser::parse_program on the tokens as they are.
Parse ==
    /\ result = NotParsed
    /\ result' = ParseProgram
    /\ UNCHANGED <<tokens, cursor, edits, written>>

Next == Insert \/ Delete \/ Parse

Spec == Init /\ [][Next]_vars

-----------------------------------------------------------------------------
IsParsed == result # NotParsed

\* A tree that is a program is parsed as it was written, and whatever is accepted is a
\* program written with just these tokens: precedence, association, optional parts and
\* the two meanings of a vector type in a block included.
AcceptsTheGrammar ==
    IsParsed =>
        /\ tokens = Yield(written) => result.node = written /\ result.errors = <<>>
        /\ result.errors = <<>> => IsProgram(result.node) /\ Yield(result.node) = tokens

Depth(i) == Count("{", 1, i) - Count("}", 1, i)

Balanced == Depth(Len(tokens)) = 0 /\ \A i \in DOMAIN tokens : Depth(i) >= 0

Suffix == <<"int", "id", "(", ")", "{", "}">>
SuffixNode == Node("function", <<Leaf("int"), Node("parameters", <<>>), Node("block", <<>>)>>)
Extended == INSTANCE ProgramParser WITH tokens <- tokens \o Suffix

\* Whatever was written before it, as long as its braces match and it ends like a
\* declaration, a correct declaration is found and reported about nothing: recovery
\* skips neither too little nor too much.
RecoversToValidSuffix ==
    IsParsed /\ Balanced /\ tokens # <<>> /\ tokens[Len(tokens)] \in {";", "}"} =>
        LET longer == Extended!ParseProgram
        IN  /\ longer.node.args = Append(result.node.args, SuffixNode)
            /\ longer.errors = result.errors

\* The innermost brace that is open before i; whether one may open the then block of an
\* if, which it does if there is nothing but a condition between.
Around(i) ==
    CHOOSE b \in DOMAIN tokens :
        /\ tokens[b] = "{" /\ b < i
        /\ Count("{", b, i - 1) > Count("}", b, i - 1)
        /\ \A k \in (b + 1)..(i - 1) : Count("{", k, i - 1) <= Count("}", k, i - 1)

MayBeThen(b) ==
    \E k \in 1..(b - 1) : tokens[k] = "if" /\ \A j \in k..(b - 1) : tokens[j] \notin {";", "{", "}"}

\* An error in the body of a function does not end the function early or late: with
\* matching braces and no else that could close a then block, it ends at its own brace.
\* An else in any other block, nested in a then block or not, closes nothing.
StaysInBlock ==
    /\ IsParsed /\ Balanced
    /\ Len(tokens) > 5 /\ SubSeq(tokens, 1, 5) = <<"void", "id", "(", ")", "{">>
    /\ \A i \in 5..(Len(tokens) - 1) : Depth(i) > 0
    /\ \A i \in DOMAIN tokens : tokens[i] = "else" => ~MayBeThen(Around(i))
    => /\ result.ends = <<Len(tokens)>>
       /\ \A i \in DOMAIN result.errors : result.errors[i] <= Len(tokens)

\* The tokens with a brace before the one at j.
Braced(j) == SubSeq(tokens, 1, j - 1) \o <<"}">> \o SubSeq(tokens, j, Len(tokens))

\* A then block whose brace is missing ends before the else, unless an if right before
\* it takes the else: that the brace is missing is all that is reported, and the tree is
\* that of the program as it was written with it.
ThenBlockEndsBeforeElse ==
    IsParsed => \A j \in DOMAIN tokens :
        /\ tokens[j] = "else" /\ Braced(j) = Yield(written)
        /\ tokens[j - 1] = "}" => ~MayBeThen(Around(j - 1))
        => result.errors = <<j>> /\ result.node = written

=============================================================================
