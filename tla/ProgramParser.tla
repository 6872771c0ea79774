--------------------------- MODULE ProgramParser ---------------------------
(***************************************************************************)
(* Parser::parse_program: declarations and statements by recursive         *)
(* descent, and the recovery after an error.  A parser that succeeds may   *)
(* have reported errors all the same.                                      *)
(***************************************************************************)
EXTENDS ExpressionParser

ValueTypeStarts == Scalars \cup {"vector"}
ReturnTypeStarts == ValueTypeStarts \cup {"void"}
AssignmentOperators == {"=", "+="}
StrongStarts == ReturnTypeStarts \cup {"if", "while", "for", "return", "break", "{"}

-----------------------------------------------------------------------------
(* Skipping *)

\* The first token from i on that is of one of the kinds, or the end.
FirstOf(i, kinds) ==
    CHOOSE j \in i..(Len(tokens) + 1) :
        /\ Current(j) \in kinds \cup {"eof"}
        /\ \A k \in i..(j - 1) : Current(k) \notin kinds

PastSemicolon(i) == IF Current(i) = ";" THEN i + 1 ELSE i

\* Where parsing resumes when the construct that began at begin failed at i: after a
\* semicolon, before a start of something new, or before a stop. The token a
\* construct begins with does not stop the search when it failed right there.
Resume(begin, i, starts, stops) ==
    IF i > begin /\ tokens[i - 1] \in {";", "}"} THEN i
    ELSE PastSemicolon(FirstOf(IF i = begin /\ Current(i) \in starts THEN i + 1 ELSE i,
                               starts \cup stops))

SynchronizeTopLevel(begin, i) == Resume(begin, i, ReturnTypeStarts, {";"})

\* Mutant: a block is no place to resume at.
SynchronizeStatementPastBlock(begin, i) ==
    Resume(begin, i, StrongStarts \ {"{"}, {";", "}", "else"})

SynchronizeStatement(begin, i) == Resume(begin, i, StrongStarts, {";", "}", "else"})

NothingYet == [at |-> 1, nodes |-> <<>>, ends |-> <<>>, errors |-> <<>>]

\* What the loop over the items of a block or a program has so far: nodes, the last token
\* that each of them took, and errors. Every turn adds an item and consumes something.
After(sofar, item, next) ==
    [at |-> IF next = sofar.at THEN next + 1 ELSE next,
     nodes |-> IF item.ok THEN Append(sofar.nodes, item.node) ELSE sofar.nodes,
     ends |-> IF item.ok THEN Append(sofar.ends, item.at - 1) ELSE sofar.ends,
     errors |-> sofar.errors \o item.errors]

AfterDeclaration(sofar, item) ==
    After(sofar, item, IF item.ok THEN item.at ELSE SynchronizeTopLevel(sofar.at, item.at))

AfterItem(sofar, item) ==
    After(sofar, item, IF item.ok THEN item.at ELSE SynchronizeStatement(sofar.at, item.at))

Count(kind, i, j) == Len(SelectSeq(SubSeq(tokens, i, j), LAMBDA t : t = kind))

\* After the brace that closes the one at i, or the end.
AfterBraces(i) ==
    LET Balanced(j) == Count("{", i, j - 1) = Count("}", i, j - 1)
    IN  CHOOSE j \in (i + 1)..(Len(tokens) + 1) :
            /\ Balanced(j) \/ AtEnd(j)
            /\ \A k \in (i + 1)..(j - 1) : ~Balanced(k)

\* Mutant: the body of a malformed function is looked for after the end of its header.
SkipToBody(i) ==
    LET j == FirstOf(i, {"{"}) IN IF AtEnd(j) THEN j ELSE AfterBraces(j)

SkipMalformedFunction(i) ==
    LET j == FirstOf(i, {";", "}", "{"})
    IN  IF Current(j) = "{" THEN AfterBraces(j) ELSE PastSemicolon(j)

\* Ends a statement that stopped at i. Without a semicolon, what cannot start the
\* next statement is skipped.
FinishStatement(i, node) ==
    IF Current(i) = ";" THEN Parsed(i + 1, node)
    ELSE [Parsed(PastSemicolon(FirstOf(i, {";", "}", "else"} \cup StrongStarts
                                             \cup ExpressionStarts)),
                 node) EXCEPT !.errors = <<i>>]

-----------------------------------------------------------------------------
(* Declarations *)

RECURSIVE ParametersFrom(_, _), BlockFrom(_, _)

ParseBlock(i, stopBeforeElse) ==
    BlockFrom([NothingYet EXCEPT !.at = i + 1], stopBeforeElse)

ParseParameter(i) ==
    IF Current(i) \notin ValueTypeStarts THEN Failed(i, i)
    ELSE LET type == ParseValueType(i)
         IN  Then(type, IF Current(type.at) # "id" THEN Failed(type.at, type.at)
                        ELSE Parsed(type.at + 1, type.node))

ParametersFrom(i, parameters) ==
    LET parameter == ParseParameter(i)
        next == parameter.at
        all == Append(parameters, parameter.node)
    IN  Then(parameter,
            CASE Current(next) = ")" -> Parsed(next + 1, all)
              [] Current(next) = "," /\ Current(next + 1) # ")" -> ParametersFrom(next + 1, all)
              [] Current(next) = "," /\ Current(next + 1) = ")" -> Failed(next + 1, next + 1)
              [] OTHER -> Failed(next, next))

ParseParameters(i) ==
    CASE Current(i) = ")" -> Parsed(i + 1, <<>>)
      [] Current(i) \in {"eof", "{"} -> Failed(i, i)
      [] OTHER -> ParametersFrom(i, <<>>)

\* A function after its name and parameters.
FunctionAfter(type, parameters) ==
    CASE ~parameters.ok -> [parameters EXCEPT !.at = SkipMalformedFunction(@)]
      [] parameters.ok /\ Current(parameters.at) # "{" -> Failed(parameters.at, parameters.at)
      [] OTHER -> Built("function", <<type, Node("parameters", parameters.node)>>,
                        ParseBlock(parameters.at, FALSE))

ParseFunction(type, i) == FunctionAfter(type, ParseParameters(i))

ParseVariable(type, i) ==
    IF Current(i) # "=" THEN FinishStatement(i, Node("variable", <<type>>))
    ELSE LET e == ParseExpression(i + 1)
         IN  Then(e, FinishStatement(e.at, Node("variable", <<type, e.node>>)))

ParseReturnType(i) ==
    IF Current(i) = "void" THEN Parsed(i + 1, Leaf("void")) ELSE ParseValueType(i)

ParseTypedDeclaration(i) ==
    LET type == ParseReturnType(i)
        name == type.at
    IN  Then(type,
            CASE Current(name) # "id" -> Failed(name, name)
              [] Current(name) = "id" /\ Current(name + 1) = "(" ->
                    ParseFunction(type.node, name + 2)
              [] Current(name) = "id" /\ Current(name + 1) # "(" /\ type.node.op = "void" ->
                    Failed(name + 1, name + 1)
              [] OTHER -> ParseVariable(type.node, name + 1))

-----------------------------------------------------------------------------
(* Statements *)

RequiredBlock(i, stopBeforeElse) ==
    IF Current(i) # "{" THEN Failed(i, i) ELSE ParseBlock(i, stopBeforeElse)

ElseAfter(condition, b) ==
    IF ~b.ok \/ Current(b.at) # "else" THEN Built("if", <<condition>>, b)
    ELSE Then(b, Built("if", <<condition, b.node>>, RequiredBlock(b.at + 1, FALSE)))

\* Mutant: the then block of an if takes an else for a stray one.
ParseIfOverElse(i) ==
    LET c == ParseExpression(i + 1) IN Then(c, ElseAfter(c.node, RequiredBlock(c.at, FALSE)))

ParseIf(i) ==
    LET c == ParseExpression(i + 1) IN Then(c, ElseAfter(c.node, RequiredBlock(c.at, TRUE)))

ParseWhile(i) ==
    LET c == ParseExpression(i + 1)
    IN  Then(c, Built("while", <<c.node>>, RequiredBlock(c.at, FALSE)))

\* What a for loop goes over: one expression, or the two ends of a range.
ParseForSequence(i) ==
    LET first == ParseExpression(i)
        last == ParseExpression(first.at + 1)
    IN  Then(first, IF Current(first.at) # ".." THEN Parsed(first.at, <<first.node>>)
                    ELSE Then(last, Parsed(last.at, <<first.node, last.node>>)))

ParseFor(i) ==
    LET sequence == ParseForSequence(i + 3)
    IN  CASE Current(i + 1) # "id" -> Failed(i + 1, i + 1)
          [] Current(i + 1) = "id" /\ Current(i + 2) # "in" -> Failed(i + 2, i + 2)
          [] OTHER ->
                Then(sequence, Built("for", sequence.node, RequiredBlock(sequence.at, FALSE)))

ParseReturn(i) ==
    IF Current(i + 1) \notin ExpressionStarts THEN FinishStatement(i + 1, Leaf("return"))
    ELSE LET e == ParseExpression(i + 1)
         IN  Then(e, FinishStatement(e.at, Node("return", <<e.node>>)))

RECURSIVE IsTarget(_)
IsTarget(node) == node.op = "id" \/ (node.op = "index" /\ IsTarget(node.args[1]))

ParseExpressionOrAssignment(i) ==
    LET e == ParseExpression(i)
        v == ParseExpression(e.at + 1)
    IN  Then(e,
        CASE Current(e.at) \notin AssignmentOperators ->
                FinishStatement(e.at, Node("expression", <<e.node>>))
          [] Current(e.at) \in AssignmentOperators /\ ~IsTarget(e.node) -> Failed(e.at + 1, i)
          [] OTHER -> Then(v, FinishStatement(v.at, Node(Current(e.at), <<e.node, v.node>>))))

ParseStatement(i) ==
    CASE Current(i) = "if" -> ParseIf(i)
      [] Current(i) = "while" -> ParseWhile(i)
      [] Current(i) = "for" -> ParseFor(i)
      [] Current(i) = "return" -> ParseReturn(i)
      [] Current(i) = "break" -> FinishStatement(i + 1, Leaf("break"))
      [] Current(i) = "{" -> ParseBlock(i, FALSE)
      [] OTHER -> ParseExpressionOrAssignment(i)

\* Whether a value type starts at i that is not that of a vector construction.
RECURSIVE SkipValueType(_)
SkipValueType(i) ==
    CASE Current(i) \in Scalars -> i + 1
      [] Current(i) = "vector" /\ Current(i + 1) = "<" ->
            LET j == SkipValueType(i + 2)
            IN  IF j > 0 /\ Current(j) = ">" THEN j + 1 ELSE 0
      [] OTHER -> 0

LooksLikeValueDeclaration(i) ==
    LET j == SkipValueType(i) IN j > 0 /\ Current(j) # "("

\* Mutant: every vector in a block starts a declaration.
AnyVectorDeclares(i) ==
    IF Current(i) \in ReturnTypeStarts THEN ParseTypedDeclaration(i) ELSE ParseStatement(i)

ParseBlockItem(i) ==
    IF \/ Current(i) \in Scalars \cup {"void"}
       \/ Current(i) = "vector" /\ LooksLikeValueDeclaration(i)
    THEN ParseTypedDeclaration(i)
    ELSE ParseStatement(i)

\* The block of an if ends, with an error, before an else; elsewhere an else is reported
\* and skipped.
BlockFrom(sofar, stopBeforeElse) ==
    LET i == sofar.at
        Block(j, e) == [Parsed(j, Node("block", sofar.nodes)) EXCEPT !.errors = sofar.errors \o e]
    IN  CASE Current(i) = "}" -> Block(i + 1, <<>>)
          [] Current(i) = "eof" \/ (Current(i) = "else" /\ stopBeforeElse) -> Block(i, <<i>>)
          [] Current(i) = "else" /\ ~stopBeforeElse ->
                BlockFrom([sofar EXCEPT !.at = i + 1, !.errors = Append(@, i)], stopBeforeElse)
          [] OTHER ->
                BlockFrom(AfterItem(sofar, ParseBlockItem(i)), stopBeforeElse)

-----------------------------------------------------------------------------
(* Programs *)

ParseTopLevelDeclaration(i) ==
    IF Current(i) \in ReturnTypeStarts THEN ParseTypedDeclaration(i) ELSE Failed(i, i)

RECURSIVE DeclarationsFrom(_)
DeclarationsFrom(sofar) ==
    IF AtEnd(sofar.at)
    THEN [node |-> Node("program", sofar.nodes), ends |-> sofar.ends, errors |-> sofar.errors]
    ELSE DeclarationsFrom(AfterDeclaration(sofar, ParseTopLevelDeclaration(sofar.at)))

\* The program, the last token that each of its declarations took, and the errors.
ParseProgram == DeclarationsFrom(NothingYet)

=============================================================================
