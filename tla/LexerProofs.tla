----------------------------- MODULE LexerProofs -----------------------------
(***************************************************************************)
(* TLAPS proofs about Lexer and its lexical grammar, for texts of any      *)
(* length.                                                                 *)
(***************************************************************************)
EXTENDS Lexing, TLAPS, FiniteSetTheorems, SequenceTheorems, WellFoundedInduction

Spans == [begin : Nat, end : Nat]
Kinds == ReservedWords \cup Operators
            \cup {<<"identifier">>, <<"integer">>, <<"string">>, <<"character">>, EndKind}
Tokens == [kind : Kinds, begin : Nat, end : Nat]
Literals == [quote : Quotes \cup {"none"}, begin : Nat, valid : BOOLEAN, size : Nat,
             foreign : SUBSET Nat]

LexTypes ==
    /\ contents \in Seq(STRING)
    /\ offset \in Nat /\ offset <= Len(contents)
    /\ tokens \in Seq(Tokens)
    /\ errors \in Seq(Spans)
    /\ done \in BOOLEAN
    /\ literal \in Literals

\* The open literal begins after every token, and while it is valid after every error;
\* the error it may still get lies inside it.
LiteralApart ==
    literal # NoLiteral =>
        /\ ~done /\ literal.begin < offset /\ literal.quote \in Quotes
        /\ \A i \in DOMAIN tokens : tokens[i].end <= literal.begin
        /\ literal.valid => \A e \in DOMAIN errors : errors[e].end <= literal.begin
        /\ \A o \in literal.foreign : literal.begin < o /\ o < offset

LexInv == LexTypes /\ (done => offset = Len(contents)) /\ LiteralApart /\ SpansInOrder

LEMMA Facts ==
    ASSUME LexInv
    PROVE  /\ tokens \in Seq(Tokens)
           /\ errors \in Seq(Spans) /\ contents \in Seq(STRING)
           /\ offset \in Nat /\ offset <= Len(contents)
           /\ TokensInOrder /\ ErrorsApart
           /\ DOMAIN tokens = 1..Len(tokens) /\ Len(tokens) \in Nat
           /\ DOMAIN errors = 1..Len(errors) /\ Len(errors) \in Nat
           /\ \A i \in DOMAIN tokens : tokens[i] \in Tokens
           /\ \A i \in DOMAIN tokens : tokens[i].begin \in Nat /\ tokens[i].end \in Nat
           /\ \A e \in DOMAIN errors : errors[e] \in Spans
           /\ \A e \in DOMAIN errors : errors[e].begin \in Nat /\ errors[e].end \in Nat
           /\ Len(contents) \in Nat
<1>1. /\ tokens \in Seq(Tokens)
      /\ errors \in Seq(Spans) /\ contents \in Seq(STRING)
      /\ offset \in Nat /\ offset <= Len(contents)
      /\ TokensInOrder /\ ErrorsApart
  BY DEF LexInv, LexTypes, SpansInOrder
<1>2. /\ DOMAIN tokens = 1..Len(tokens) /\ Len(tokens) \in Nat
      /\ DOMAIN errors = 1..Len(errors) /\ Len(errors) \in Nat
      /\ Len(contents) \in Nat
  BY <1>1
<1>3. \A i \in DOMAIN tokens : tokens[i] \in Tokens
  BY <1>1
<1>4. \A e \in DOMAIN errors : errors[e] \in Spans
  BY <1>1
<1>5. \A i \in DOMAIN tokens : tokens[i].begin \in Nat /\ tokens[i].end \in Nat
  BY <1>3 DEF Tokens
<1>6. \A e \in DOMAIN errors : errors[e].begin \in Nat /\ errors[e].end \in Nat
  BY <1>4 DEF Spans
<1>7. QED
  BY <1>1, <1>2, <1>3, <1>4, <1>5, <1>6

-----------------------------------------------------------------------------
(* What one step adds *)

\* A token behind all tokens and errors so far.
LEMMA TokenKeepsOrder ==
    ASSUME LexInv, NEW kind \in Kinds, NEW begin \in Nat, NEW end \in Nat,
           AddToken(kind, begin, end), contents' = contents,
           offset' \in Nat, offset <= offset', end <= offset', offset' <= Len(contents),
           IF kind = EndKind THEN begin = Len(contents) /\ end = Len(contents) ELSE begin < end,
           \A i \in DOMAIN tokens : tokens[i].end <= begin,
           \A e \in DOMAIN errors : errors[e].end <= begin
    PROVE  /\ tokens' \in Seq(Tokens)
           /\ SpansInOrder'
<1> DEFINE n == Len(tokens)
<1>1. /\ n \in Nat /\ DOMAIN tokens = 1..n /\ Len(contents) \in Nat
      /\ \A i \in 1..n : tokens[i].begin \in Nat /\ tokens[i].end \in Nat
      /\ \A e \in DOMAIN errors : errors[e].begin \in Nat /\ errors[e].end \in Nat
      /\ offset \in Nat /\ TokensInOrder /\ ErrorsApart
  BY Facts
<1>2. /\ tokens' = Append(tokens, Token(kind, begin, end)) /\ errors' = errors
      /\ Token(kind, begin, end) = [kind |-> kind, begin |-> begin, end |-> end]
  BY DEF AddToken, Token
<1>3. tokens' \in Seq(Tokens)
  <2>1. Token(kind, begin, end) \in Tokens
    BY <1>2 DEF Tokens
  <2>2. QED
    BY <1>2, <2>1, Facts
<1>4. /\ Len(tokens') = n + 1 /\ DOMAIN tokens' = 1..(n + 1)
      /\ \A i \in 1..n : tokens'[i] = tokens[i]
      /\ tokens'[n + 1] = [kind |-> kind, begin |-> begin, end |-> end]
  BY <1>1, <1>2, Facts
<1> HIDE DEF n
<1>5. TokensInOrder'
  <2>1. \A i \in 1..n :
            /\ tokens[i].end <= offset'
            /\ IF tokens[i].kind = EndKind
               THEN tokens[i].begin = Len(contents) /\ tokens[i].end = Len(contents)
               ELSE tokens[i].begin < tokens[i].end
    BY <1>1 DEF TokensInOrder
  <2>2. \A i \in 1..(n - 1) : tokens[i].end <= tokens[i + 1].begin
    BY <1>1 DEF TokensInOrder
  <2>3. ASSUME NEW i \in 1..n PROVE tokens'[i].end <= tokens'[i + 1].begin
    <3>1. CASE i = n
      <4>1. i \in DOMAIN tokens /\ tokens'[i] = tokens[i]
        BY <1>1, <1>4
      <4>2. tokens[i].end <= begin /\ tokens'[i + 1].begin = begin
        BY <1>4, <3>1, <4>1
      <4>3. QED
        BY <4>1, <4>2
    <3>2. CASE i # n
      <4>1. i \in 1..(n - 1) /\ i + 1 \in 1..n
        BY <1>1, <3>2
      <4>2. tokens'[i] = tokens[i]
        BY <1>4
      <4>3. tokens'[i + 1] = tokens[i + 1]
        BY <1>4, <4>1
      <4>4. QED
        BY <2>2, <4>1, <4>2, <4>3
    <3>3. QED
      BY <3>1, <3>2
  <2>4. QED
    BY <1>1, <1>4, <2>1, <2>3 DEF TokensInOrder
<1>6. ErrorsApart'
  <2>1. SUFFICES ASSUME NEW e \in DOMAIN errors
                 PROVE  /\ errors[e].begin < errors[e].end /\ errors[e].end <= offset'
                        /\ \A i \in 1..(n + 1) : \/ tokens'[i].end <= errors[e].begin
                                                 \/ errors[e].end <= tokens'[i].begin
    BY <1>2, <1>4 DEF ErrorsApart
  <2>2. /\ errors[e].begin < errors[e].end /\ errors[e].end <= offset
        /\ \A i \in 1..n : \/ tokens[i].end <= errors[e].begin
                           \/ errors[e].end <= tokens[i].begin
    BY <1>1 DEF ErrorsApart
  <2>3. errors[e].end <= begin /\ errors[e].end \in Nat /\ errors[e].begin \in Nat
    BY <1>1
  <2>4. \A i \in 1..n : tokens'[i].end <= errors[e].begin \/ errors[e].end <= tokens'[i].begin
    BY <1>4, <2>2
  <2>5. errors[e].end <= tokens'[n + 1].begin
    BY <1>4, <2>3
  <2>6. \A i \in 1..(n + 1) : i \in 1..n \/ i = n + 1
    BY <1>1
  <2>7. errors[e].begin < errors[e].end /\ errors[e].end <= offset'
    BY <1>1, <2>2, <2>3
  <2>8. QED
    BY <2>4, <2>5, <2>6, <2>7
<1>7. QED
  BY <1>3, <1>5, <1>6 DEF SpansInOrder

\* An error that begins behind all tokens.
LEMMA ErrorKeepsOrder ==
    ASSUME LexInv, NEW begin \in Nat, NEW end \in Nat, ReportError(begin, end),
           contents' = contents, offset' \in Nat, offset <= offset', offset' <= Len(contents),
           begin < end, end <= offset',
           \A i \in DOMAIN tokens : tokens[i].end <= begin
    PROVE  errors' \in Seq(Spans) /\ SpansInOrder'
<1>1. /\ errors' = Append(errors, [begin |-> begin, end |-> end]) /\ tokens' = tokens
      /\ [begin |-> begin, end |-> end] \in Spans
  BY DEF ReportError, Span, Spans
<1>2. /\ DOMAIN errors = 1..Len(errors) /\ Len(errors) \in Nat
      /\ DOMAIN errors' = 1..(Len(errors) + 1)
      /\ \A e \in 1..Len(errors) : errors'[e] = errors[e]
      /\ \A e \in 1..Len(errors) : errors[e].begin \in Nat /\ errors[e].end \in Nat
      /\ errors'[Len(errors) + 1] = [begin |-> begin, end |-> end]
      /\ errors' \in Seq(Spans)
  <2>1. /\ DOMAIN errors = 1..Len(errors) /\ Len(errors) \in Nat /\ errors \in Seq(Spans)
        /\ \A e \in 1..Len(errors) : errors[e].begin \in Nat /\ errors[e].end \in Nat
    BY Facts
  <2>2. errors' \in Seq(Spans)
    BY <1>1, <2>1
  <2>3. /\ DOMAIN errors' = 1..(Len(errors) + 1)
        /\ \A e \in 1..Len(errors) : errors'[e] = errors[e]
        /\ errors'[Len(errors) + 1] = [begin |-> begin, end |-> end]
    BY <1>1, <2>1
  <2>4. QED
    BY <2>1, <2>2, <2>3
<1>3. /\ \A i \in DOMAIN tokens : tokens[i].begin \in Nat /\ tokens[i].end \in Nat
      /\ offset \in Nat /\ Len(contents) \in Nat /\ TokensInOrder /\ ErrorsApart
  BY Facts
<1>4. TokensInOrder'
  BY <1>1, <1>3 DEF TokensInOrder
<1>5. ErrorsApart'
  <2>1. \A e \in 1..Len(errors) :
            /\ errors[e].begin < errors[e].end /\ errors[e].end <= offset'
            /\ \A i \in DOMAIN tokens : \/ tokens[i].end <= errors[e].begin
                                        \/ errors[e].end <= tokens[i].begin
    BY <1>2, <1>3 DEF ErrorsApart
  <2>2. QED
    BY <1>1, <1>2, <2>1 DEF ErrorsApart
<1>6. QED
  BY <1>2, <1>4, <1>5 DEF SpansInOrder

\* Nothing but the offset moves.
LEMMA MovingKeepsOrder ==
    ASSUME LexInv, UNCHANGED <<contents, tokens, errors>>,
           offset' \in Nat, offset <= offset', offset' <= Len(contents)
    PROVE  SpansInOrder'
<1>1. /\ \A i \in DOMAIN tokens : tokens[i].begin \in Nat /\ tokens[i].end \in Nat
      /\ \A e \in DOMAIN errors : errors[e].begin \in Nat /\ errors[e].end \in Nat
      /\ offset \in Nat /\ Len(contents) \in Nat /\ TokensInOrder /\ ErrorsApart
  BY Facts
<1>2. TokensInOrder'
  BY <1>1 DEF TokensInOrder
<1>3. ErrorsApart'
  BY <1>1 DEF ErrorsApart
<1>4. QED
  BY <1>2, <1>3 DEF SpansInOrder

\* While no literal is open, everything so far lies before the offset.
LEMMA SoFar ==
    ASSUME LexInv
    PROVE  /\ \A i \in DOMAIN tokens : tokens[i].end <= offset
           /\ \A e \in DOMAIN errors : errors[e].end <= offset
           /\ offset \in Nat /\ Len(contents) \in Nat /\ offset <= Len(contents)
BY Facts DEF TokensInOrder, ErrorsApart

LEMMA NoLiteralType == NoLiteral \in Literals
BY DEF NoLiteral, Literals

-----------------------------------------------------------------------------
(* The initial state, and steps outside literals *)

LEMMA LexStarts == Init => LexInv
<1> SUFFICES ASSUME Init PROVE LexInv
  OBVIOUS
<1>1. /\ contents \in Seq(STRING) /\ offset = 0 /\ tokens = <<>> /\ errors = <<>>
      /\ literal = NoLiteral /\ done = FALSE
  BY TextsAssumption DEF Init
<1>2. Len(contents) \in Nat
  BY <1>1
<1>3. LexTypes
  <2>1. tokens \in Seq(Tokens) /\ errors \in Seq(Spans)
    BY <1>1
  <2>2. offset \in Nat /\ offset <= Len(contents)
    BY <1>1, <1>2
  <2>3. done \in BOOLEAN
    BY <1>1, Zenon
  <2>4. literal \in Literals
    BY <1>1, NoLiteralType
  <2>5. QED
    BY <1>1, <2>1, <2>2, <2>3, <2>4 DEF LexTypes
<1>4. LiteralApart
  BY <1>1 DEF LiteralApart
<1>5. SpansInOrder
  BY <1>1 DEF SpansInOrder, TokensInOrder, ErrorsApart
<1>6. QED
  BY <1>1, <1>3, <1>4, <1>5 DEF LexInv

\* Where offset may be after a step, and what keeps the rest of the invariant.
LEMMA Between ==
    ASSUME LexInv, NEW o \in Nat, offset <= o, o <= Len(contents), ~done, GoTo(o),
           tokens' \in Seq(Tokens), errors' \in Seq(Spans), SpansInOrder',
           literal' \in Literals, LiteralApart'
    PROVE  LexInv'
<1>1. contents' = contents /\ offset' = o /\ done' = done
  BY DEF GoTo
<1>2. LexTypes'
  BY <1>1 DEF LexInv, LexTypes
<1>3. QED
  BY <1>1, <1>2 DEF LexInv

LEMMA NoneOpen == ASSUME literal' = NoLiteral PROVE literal' \in Literals /\ LiteralApart'
BY NoLiteralType DEF LiteralApart

LEMMA ScansToken ==
    ASSUME LexInv, Scanning, NEW kind \in Kinds, kind # EndKind, NEW end \in Nat,
           offset < end, end <= Len(contents),
           AddToken(kind, offset, end), GoTo(end), UNCHANGED literal
    PROVE  LexInv'
<1>1. offset \in Nat /\ Len(contents) \in Nat /\ offset' = end /\ contents' = contents
  BY SoFar DEF GoTo
<1>2. tokens' \in Seq(Tokens) /\ SpansInOrder'
  BY <1>1, SoFar, TokenKeepsOrder
<1>3. errors' \in Seq(Spans) /\ ~done
  BY Facts DEF AddToken, Scanning
<1>4. literal' \in Literals /\ LiteralApart'
  BY NoneOpen DEF Scanning
<1>5. QED
  BY <1>1, <1>2, <1>3, <1>4, Between

LEMMA ScansError ==
    ASSUME LexInv, Scanning, ReportError(offset, offset + 1), GoTo(offset + 1), UNCHANGED literal
    PROVE  LexInv'
<1>1. /\ offset \in Nat /\ Len(contents) \in Nat /\ offset' = offset + 1 /\ contents' = contents
      /\ offset + 1 <= Len(contents)
  BY SoFar DEF GoTo, Scanning, AtEnd
<1>2. errors' \in Seq(Spans) /\ SpansInOrder'
  BY <1>1, SoFar, ErrorKeepsOrder
<1>3. tokens' \in Seq(Tokens) /\ ~done
  BY Facts DEF ReportError, Scanning
<1>4. literal' \in Literals /\ LiteralApart'
  BY NoneOpen DEF Scanning
<1>5. QED
  BY <1>1, <1>2, <1>3, <1>4, Between

LEMMA ScansNothing ==
    ASSUME LexInv, Scanning, NEW end \in Nat, offset <= end, end <= Len(contents),
           GoTo(end), UNCHANGED <<tokens, errors, literal>>
    PROVE  LexInv'
<1>1. offset' = end /\ contents' = contents /\ ~done
  BY DEF GoTo, Scanning
<1>2. tokens' \in Seq(Tokens) /\ errors' \in Seq(Spans) /\ SpansInOrder'
  BY <1>1, Facts, MovingKeepsOrder
<1>3. literal' \in Literals /\ LiteralApart'
  BY NoneOpen DEF Scanning
<1>4. QED
  BY <1>1, <1>2, <1>3, Between

LEMMA ScanningStep ==
    ASSUME LexInv, \/ SkipWhitespace \/ SkipComment \/ LexIdentifier \/ LexInteger
                   \/ LexOperator \/ UnknownCharacter
    PROVE  LexInv'
<1>1. offset \in Nat /\ Len(contents) \in Nat /\ contents \in Seq(STRING)
  BY Facts
<1>2. CASE SkipWhitespace
  <2>1. offset + 1 <= Len(contents)
    BY <1>1, <1>2 DEF SkipWhitespace, Scanning, AtEnd
  <2>2. QED
    BY <1>1, <1>2, <2>1, ScansNothing DEF SkipWhitespace
<1>3. CASE SkipComment
  <2>1. PICK end \in (offset + 2)..Len(contents) : GoTo(end)
    BY <1>3 DEF SkipComment
  <2>2. end \in Nat /\ offset <= end /\ end <= Len(contents)
    BY <1>1, <2>1
  <2>3. QED
    BY <1>3, <2>1, <2>2, ScansNothing DEF SkipComment
<1>4. CASE LexIdentifier
  <2>1. PICK end \in offset..Len(contents) :
            /\ Run(Letters \cup Digits, end)
            /\ AddToken(IF Spelled(end) \in ReservedWords THEN Spelled(end)
                        ELSE <<"identifier">>, offset, end)
            /\ GoTo(end)
    BY <1>4 DEF LexIdentifier, Spelled
  <2>2. end \in Nat /\ offset < end /\ end <= Len(contents)
    BY <1>1, <2>1 DEF Run
  <2>3. Spelled(end)[1] \in Letters
    <3>1. Spelled(end)[1] = contents[offset + 1]
      BY <1>1, <2>2 DEF Spelled
    <3>2. CharacterAt(contents, offset) \in Letters
      BY <1>4 DEF LexIdentifier, Is
    <3>3. QED
      BY <3>1, <3>2 DEF CharacterAt
  <2>4. Spelled(end) # EndKind /\ <<"identifier">> # EndKind
    <3>1. EndKind[1] = "end of file" /\ <<"identifier">>[1] = "identifier"
      BY DEF EndKind
    <3>2. Spelled(end)[1] # "end of file"
      BY <2>3 DEF Letters
    <3>3. QED
      BY <3>1, <3>2
  <2>5. QED
    BY <1>4, <2>1, <2>2, <2>4, ScansToken DEF LexIdentifier, Kinds
<1>5. CASE LexInteger
  <2>1. PICK end \in offset..Len(contents) :
            Run(Digits, end) /\ AddToken(<<"integer">>, offset, end) /\ GoTo(end)
    BY <1>5 DEF LexInteger
  <2>2. end \in Nat /\ offset < end /\ end <= Len(contents)
    BY <1>1, <2>1 DEF Run
  <2>3. <<"integer">> # EndKind /\ <<"integer">> \in Kinds
    BY DEF EndKind, Kinds
  <2>4. QED
    BY <1>5, <2>1, <2>2, <2>3, ScansToken DEF LexInteger
<1>6. CASE LexOperator
  <2>1. PICK end \in (offset + 1)..Len(contents) :
            Spelled(end) \in Operators /\ AddToken(Spelled(end), offset, end) /\ GoTo(end)
    BY <1>6 DEF LexOperator
  <2>2. end \in Nat /\ offset < end /\ end <= Len(contents)
    BY <1>1, <2>1
  <2>3. EndKind \notin Operators
    <3>1. /\ EndKind[1] = "end of file"
          /\ \A op \in Operators : op[1] \in {"(", ".", "=", "/", "&"}
      BY DEF EndKind, Operators
    <3>2. QED
      BY <3>1
  <2>4. QED
    BY <1>6, <2>1, <2>2, <2>3, ScansToken DEF LexOperator, Kinds
<1>7. CASE UnknownCharacter
  BY <1>7, ScansError DEF UnknownCharacter
<1>8. QED
  BY <1>2, <1>3, <1>4, <1>5, <1>6, <1>7

-----------------------------------------------------------------------------
(* Steps inside literals *)

\* What is known of an open literal.
LEMMA Open ==
    ASSUME LexInv, InLiteral
    PROVE  /\ ~done /\ literal \in Literals /\ literal.begin \in Nat /\ literal.begin < offset
           /\ literal.quote \in Quotes
           /\ \A i \in DOMAIN tokens : tokens[i].end <= literal.begin
           /\ literal.valid => \A e \in DOMAIN errors : errors[e].end <= literal.begin
           /\ \A o \in literal.foreign : o \in Nat /\ literal.begin < o /\ o < offset
           /\ \A i \in DOMAIN tokens : tokens[i].end <= offset
<1>1. literal # NoLiteral /\ LiteralApart /\ literal \in Literals
  BY DEF LexInv, LexTypes, InLiteral
<1>2. literal.begin \in Nat /\ literal.foreign \in SUBSET Nat
  BY <1>1 DEF Literals
<1>3. QED
  BY <1>1, <1>2, SoFar DEF LiteralApart

\* A step that ends the literal with an error behind its begin.
LEMMA EndsInError ==
    ASSUME LexInv, InLiteral, NEW begin \in Nat, NEW end \in Nat, NEW o \in Nat,
           literal.begin <= begin, begin < end, end <= o, offset <= o, o <= Len(contents),
           ReportError(begin, end), GoTo(o), literal' = NoLiteral
    PROVE  LexInv'
<1>1. /\ offset \in Nat /\ Len(contents) \in Nat /\ offset' = o /\ contents' = contents
      /\ \A i \in DOMAIN tokens : tokens[i].end \in Nat
  BY Facts DEF GoTo
<1>2. \A i \in DOMAIN tokens : tokens[i].end <= begin
  BY <1>1, Open
<1>3. errors' \in Seq(Spans) /\ SpansInOrder'
  BY <1>1, <1>2, ErrorKeepsOrder
<1>4. tokens' \in Seq(Tokens) /\ ~done
  BY Facts, Open DEF ReportError
<1>5. literal' \in Literals /\ LiteralApart'
  BY NoneOpen
<1>6. QED
  BY <1>1, <1>3, <1>4, <1>5, Between

LEMMA OpenStep == ASSUME LexInv, OpenLiteral PROVE LexInv'
<1>1. /\ offset \in Nat /\ Len(contents) \in Nat /\ ~done /\ offset + 1 <= Len(contents)
      /\ GoTo(offset + 1) /\ offset' = offset + 1 /\ contents' = contents
      /\ UNCHANGED <<tokens, errors>> /\ done' = done
  BY Facts DEF OpenLiteral, Scanning, AtEnd, GoTo
<1>2. /\ literal' = [quote |-> CharacterAt(contents, offset), begin |-> offset,
                     valid |-> TRUE, size |-> 0, foreign |-> {}]
      /\ CharacterAt(contents, offset) \in Quotes
  BY DEF OpenLiteral, Is
<1>3. literal' \in Literals
  BY <1>1, <1>2 DEF Literals
<1>4. LiteralApart'
  <2>1. /\ literal'.begin = offset /\ literal'.foreign = {} /\ literal'.quote \in Quotes
        /\ offset < offset'
    BY <1>1, <1>2
  <2>2. \A i \in DOMAIN tokens' : tokens'[i].end <= literal'.begin
    BY <1>1, <2>1, SoFar
  <2>3. \A e \in DOMAIN errors' : errors'[e].end <= literal'.begin
    BY <1>1, <2>1, SoFar
  <2>4. QED
    BY <1>1, <2>1, <2>2, <2>3 DEF LiteralApart
<1>5. tokens' \in Seq(Tokens) /\ errors' \in Seq(Spans) /\ SpansInOrder'
  BY <1>1, Facts, MovingKeepsOrder
<1>6. QED
  BY <1>1, <1>3, <1>4, <1>5, Between

LEMMA CharacterStep == ASSUME LexInv, LiteralCharacter PROVE LexInv'
<1>1. /\ offset \in Nat /\ Len(contents) \in Nat /\ ~done /\ offset + 1 <= Len(contents)
      /\ GoTo(offset + 1) /\ offset' = offset + 1 /\ contents' = contents
      /\ UNCHANGED <<tokens, errors>> /\ done' = done /\ InLiteral
  BY Facts, Open DEF LiteralCharacter, AtEnd, GoTo
<1>2. PICK f \in {literal.foreign, {offset}} :
        literal' = [literal EXCEPT !.size = literal.size + 1, !.foreign = f]
  BY DEF LiteralCharacter
<1>3. /\ literal \in Literals /\ literal.size \in Nat /\ f \in SUBSET Nat
  BY <1>1, Open DEF Literals
<1>4. literal' \in Literals
  <2>1. literal.size + 1 \in Nat
    BY <1>3
  <2>2. [literal EXCEPT !.size = literal.size + 1] \in Literals
    BY <1>3, <2>1 DEF Literals
  <2>3. literal' = [[literal EXCEPT !.size = literal.size + 1] EXCEPT !.foreign = f]
    BY <1>2
  <2>4. QED
    BY <1>3, <2>2, <2>3 DEF Literals
<1>5. /\ literal'.begin = literal.begin /\ literal'.foreign = f /\ literal'.quote = literal.quote
      /\ literal'.valid = literal.valid
  BY <1>2, <1>3 DEF Literals
<1>6. \A o \in f : literal.begin < o /\ o < offset'
  BY <1>1, Open
<1>7. LiteralApart'
  BY <1>1, <1>5, <1>6, Open DEF LiteralApart
<1>8. tokens' \in Seq(Tokens) /\ errors' \in Seq(Spans) /\ SpansInOrder'
  BY <1>1, Facts, MovingKeepsOrder
<1>9. QED
  BY <1>1, <1>4, <1>7, <1>8, Between

LEMMA EscapeStep == ASSUME LexInv, Escape PROVE LexInv'
<1>1. /\ offset \in Nat /\ Len(contents) \in Nat /\ ~done /\ offset + 2 <= Len(contents)
      /\ GoTo(offset + 2) /\ offset' = offset + 2 /\ contents' = contents /\ done' = done
      /\ InLiteral
  BY Facts, Open DEF Escape, AtEnd, GoTo
<1>2. /\ literal \in Literals /\ literal.size \in Nat /\ literal.begin \in Nat
      /\ literal.begin < offset
  BY <1>1, Open DEF Literals
<1>3. CASE literal' = [literal EXCEPT !.size = @ + 1] /\ UNCHANGED <<tokens, errors>>
  <2>1. literal' \in Literals
    BY <1>2, <1>3 DEF Literals
  <2>2. /\ literal'.begin = literal.begin /\ literal'.foreign = literal.foreign
        /\ literal'.quote = literal.quote /\ literal'.valid = literal.valid
    BY <1>2, <1>3 DEF Literals
  <2>3. \A o \in literal.foreign : literal.begin < o /\ o < offset'
    BY <1>1, Open
  <2>4. LiteralApart'
    BY <1>1, <1>2, <1>3, <2>2, <2>3, Open DEF LiteralApart
  <2>5. tokens' \in Seq(Tokens) /\ errors' \in Seq(Spans) /\ SpansInOrder'
    BY <1>1, <1>3, Facts, MovingKeepsOrder
  <2>6. QED
    BY <1>1, <2>1, <2>4, <2>5, Between
<1>4. CASE literal' = [literal EXCEPT !.valid = FALSE] /\ ReportError(offset, offset + 2)
  <2>1. literal' \in Literals
    BY <1>2, <1>4 DEF Literals
  <2>2. /\ literal'.begin = literal.begin /\ literal'.foreign = literal.foreign
        /\ literal'.quote = literal.quote /\ ~literal'.valid
    BY <1>2, <1>4 DEF Literals
  <2>3. \A o \in literal.foreign : literal.begin < o /\ o < offset'
    BY <1>1, Open
  <2>4. tokens' = tokens
    BY <1>4 DEF ReportError
  <2>5. LiteralApart'
    BY <1>1, <1>2, <2>2, <2>3, <2>4, Open DEF LiteralApart
  <2>6. errors' \in Seq(Spans) /\ SpansInOrder'
    BY <1>1, <1>4, Open, ErrorKeepsOrder
  <2>7. QED
    BY <1>1, <2>1, <2>4, <2>5, <2>6, Facts, Between
<1>5. QED
  BY <1>3, <1>4 DEF Escape

\* A newline is in the text, and so is what comes after it.
LEMMA NewlineInside ==
    ASSUME NEW o \in Nat, Len(contents) \in Nat, Is(o, Newlines)
    PROVE  AfterNewline(o) \in Nat /\ o < AfterNewline(o) /\ AfterNewline(o) <= Len(contents)
BY DEF AfterNewline, Is, AtEnd

LEMMA CloseStep == ASSUME LexInv, CloseLiteral PROVE LexInv'
<1>1. /\ offset \in Nat /\ Len(contents) \in Nat /\ ~done /\ offset + 1 <= Len(contents)
      /\ GoTo(offset + 1) /\ offset' = offset + 1 /\ contents' = contents /\ InLiteral
      /\ literal' = NoLiteral /\ offset + 1 \in Nat
  BY Facts, Open DEF CloseLiteral, AtEnd, GoTo, Is
<1>2. literal.begin \in Nat /\ literal.begin < offset
  BY <1>1, Open
<1>3. CASE UNCHANGED <<tokens, errors>>
  <2>1. tokens' \in Seq(Tokens) /\ errors' \in Seq(Spans) /\ SpansInOrder'
    BY <1>1, <1>3, Facts, MovingKeepsOrder
  <2>2. QED
    BY <1>1, <2>1, NoneOpen, Between
<1>4. CASE literal.valid /\ AddToken(<<literal.quote>>, literal.begin, offset + 1)
  <2>1. <<literal.quote>> \in Kinds /\ <<literal.quote>> # EndKind
    <3>1. literal.quote \in {"string", "character"}
      BY <1>1, Open DEF Quotes
    <3>2. EndKind[1] = "end of file" /\ <<literal.quote>>[1] = literal.quote
      BY DEF EndKind
    <3>3. QED
      BY <3>1, <3>2 DEF Kinds
  <2>2. /\ \A i \in DOMAIN tokens : tokens[i].end <= literal.begin
        /\ \A e \in DOMAIN errors : errors[e].end <= literal.begin
    BY <1>1, <1>4, Open
  <2>3. tokens' \in Seq(Tokens) /\ SpansInOrder'
    BY <1>1, <1>2, <1>4, <2>1, <2>2, TokenKeepsOrder
  <2>4. errors' \in Seq(Spans)
    BY <1>4, Facts DEF AddToken
  <2>5. QED
    BY <1>1, <2>3, <2>4, NoneOpen, Between
<1>5. CASE ReportError(literal.begin, offset + 1)
  <2>1. literal.begin < offset + 1
    BY <1>1, <1>2
  <2>2. QED
    BY <1>1, <1>2, <1>5, <2>1, EndsInError
<1>6. CASE \E o \in literal.foreign : ReportError(o, o + 1)
  <2>1. PICK o \in literal.foreign : ReportError(o, o + 1)
    BY <1>6
  <2>2. o \in Nat /\ literal.begin < o /\ o < offset
    BY <1>1, Open
  <2>3. o + 1 \in Nat /\ literal.begin <= o /\ o < o + 1 /\ o + 1 <= offset + 1
    BY <1>1, <1>2, <2>2
  <2>4. QED
    BY <1>1, <2>1, <2>2, <2>3, EndsInError
<1>7. QED
  BY <1>3, <1>4, <1>5, <1>6 DEF CloseLiteral

LEMMA BrokenStep ==
    ASSUME LexInv, TrailingBackslash \/ RawNewline \/ UnterminatedLiteral
    PROVE  LexInv'
<1>1. /\ offset \in Nat /\ Len(contents) \in Nat /\ offset <= Len(contents) /\ InLiteral
      /\ literal.begin \in Nat /\ literal.begin < offset
  BY Facts, Open DEF TrailingBackslash, RawNewline, UnterminatedLiteral
<1>2. CASE TrailingBackslash
  <2>1. offset + 1 <= Len(contents) /\ literal.begin <= offset /\ offset + 1 \in Nat
    BY <1>1, <1>2 DEF TrailingBackslash, Is, AtEnd
  <2>2. QED
    BY <1>1, <1>2, <2>1, EndsInError DEF TrailingBackslash
<1>3. CASE RawNewline
  <2>1. PICK begin \in {offset, offset + 1} :
            /\ Is(begin, Newlines) /\ ReportError(begin, AfterNewline(begin))
            /\ GoTo(AfterNewline(begin))
    BY <1>3 DEF RawNewline
  <2>2. begin \in Nat /\ literal.begin <= begin /\ offset <= begin
    BY <1>1
  <2>3. /\ AfterNewline(begin) \in Nat /\ begin < AfterNewline(begin)
        /\ AfterNewline(begin) <= Len(contents)
    BY <1>1, <2>1, <2>2, NewlineInside
  <2>4. offset <= AfterNewline(begin) /\ literal' = NoLiteral
    BY <1>1, <1>3, <2>2, <2>3 DEF RawNewline
  <2>5. QED
    BY <1>1, <2>1, <2>2, <2>3, <2>4, EndsInError
<1>4. CASE UnterminatedLiteral
  BY <1>1, <1>4, EndsInError DEF UnterminatedLiteral
<1>5. QED
  BY <1>2, <1>3, <1>4

LEMMA EndStep == ASSUME LexInv, EndOfFile PROVE LexInv'
<1>1. /\ offset \in Nat /\ Len(contents) \in Nat /\ offset = Len(contents)
      /\ AddToken(EndKind, offset, offset) /\ done' = TRUE /\ UNCHANGED <<contents, offset, literal>>
      /\ literal = NoLiteral
  BY Facts DEF EndOfFile, AtEnd, InLiteral
<1>2. EndKind \in Kinds
  BY DEF Kinds
<1>3. tokens' \in Seq(Tokens) /\ SpansInOrder'
  BY <1>1, <1>2, SoFar, TokenKeepsOrder
<1>4. errors' \in Seq(Spans)
  BY <1>1, Facts DEF AddToken
<1>5. LiteralApart'
  BY <1>1 DEF LiteralApart
<1>6. done' \in BOOLEAN
  BY <1>1, Zenon
<1>7. LexTypes'
  BY <1>1, <1>3, <1>4, <1>6 DEF LexInv, LexTypes
<1>8. QED
  BY <1>1, <1>3, <1>5, <1>7 DEF LexInv

LEMMA LexSteps == ASSUME LexInv, [Next]_vars PROVE LexInv'
<1>1. CASE SkipWhitespace \/ SkipComment \/ LexIdentifier \/ LexInteger \/ LexOperator
           \/ UnknownCharacter
  BY <1>1, ScanningStep
<1>2. CASE OpenLiteral
  BY <1>2, OpenStep
<1>3. CASE LiteralCharacter
  BY <1>3, CharacterStep
<1>4. CASE Escape
  BY <1>4, EscapeStep
<1>5. CASE TrailingBackslash \/ RawNewline \/ UnterminatedLiteral
  BY <1>5, BrokenStep
<1>6. CASE CloseLiteral
  BY <1>6, CloseStep
<1>7. CASE EndOfFile
  BY <1>7, EndStep
<1>8. CASE UNCHANGED vars
  BY <1>8 DEF vars, LexInv, LexTypes, LiteralApart, SpansInOrder, TokensInOrder, ErrorsApart,
              AtEnd
<1>9. QED
  BY <1>1, <1>2, <1>3, <1>4, <1>5, <1>6, <1>7, <1>8 DEF Next

-----------------------------------------------------------------------------
(* Lexer::lex(), its add_token() and its diagnostics: for every text, tokens and errors *)
(* stay in order and apart, and inside the text.                                        *)
THEOREM LexedInOrder == Spec => []SpansInOrder
<1>1. Spec => []LexInv
  BY LexStarts, LexSteps, PTL DEF Spec
<1>2. LexInv => SpansInOrder
  BY DEF LexInv
<1>3. QED
  BY <1>1, <1>2, PTL

(* Whatever the text, the span of a token or of an error is one that                  *)
(* SourceManager::slice() accepts: neither the parser nor a diagnostic can make it throw. *)
SpansAreSlices ==
    /\ \A i \in DOMAIN tokens : IsSlice(contents, tokens[i])
    /\ \A e \in DOMAIN errors : IsSlice(contents, errors[e])

LEMMA LexInvSlices == ASSUME LexInv PROVE SpansAreSlices
<1>1. /\ \A i \in DOMAIN tokens : tokens[i].begin \in Nat /\ tokens[i].end \in Nat
      /\ \A e \in DOMAIN errors : errors[e].begin \in Nat /\ errors[e].end \in Nat
      /\ offset \in Nat /\ Len(contents) \in Nat /\ offset <= Len(contents)
      /\ TokensInOrder /\ ErrorsApart
  BY Facts
<1>2. \A i \in DOMAIN tokens : tokens[i].begin <= tokens[i].end
  BY <1>1 DEF TokensInOrder
<1>3. \A e \in DOMAIN errors : errors[e].begin <= errors[e].end
  BY <1>1 DEF ErrorsApart
<1>4. QED
  BY <1>1, <1>2, <1>3, SoFar DEF SpansAreSlices, IsSlice

(* SourceManager::slice(): for texts of any length, it accepts every span of the lexer. *)
THEOREM LexedSpansAreSlices == Spec => []SpansAreSlices
<1>1. Spec => []LexInv
  BY LexStarts, LexSteps, PTL DEF Spec
<1>2. QED
  BY <1>1, LexInvSlices, PTL

-----------------------------------------------------------------------------
(* Places in a text *)

\* What holds of 0, and of n + 1 whenever it holds of n, holds of every number.
LEMMA NatInd ==
    ASSUME NEW T, 0 \in T, \A n \in Nat : n \in T => n + 1 \in T
    PROVE  Nat \subseteq T
<1> SUFFICES ASSUME Nat \ T # {} PROVE FALSE
  OBVIOUS
<1> DEFINE R == {ss \in Nat \X Nat : ss[1] < ss[2]}
<1>1. IsWellFoundedOn(R, Nat)
  BY NatLessThanWellFounded DEF OpToRel
<1> HIDE DEF R
<1>2. PICK n \in Nat \ T : \A m \in Nat \ T : <<m, n>> \notin R
  <2>1. Nat \ T \subseteq Nat
    OBVIOUS
  <2>2. QED
    BY <1>1, <2>1, WFMin
<1>3. n # 0 /\ n - 1 \in Nat
  BY <1>2
<1>4. <<n - 1, n>> \in R
  BY <1>3 DEF R
<1>5. n - 1 \in T
  BY <1>2, <1>3, <1>4
<1>6. QED
  BY <1>2, <1>3, <1>5

\* A set of numbers with an upper bound has a greatest element.
LEMMA GreatestExists ==
    ASSUME NEW S \in SUBSET Nat, NEW bound \in Nat, \A s \in S : s <= bound, S # {}
    PROVE  \E g \in S : \A s \in S : s <= g
<1> DEFINE T == {n \in Nat : (\E s \in S : bound - n <= s)
                                 => \E g \in S : \A s \in S : s <= g}
<1>1. 0 \in T
  <2> SUFFICES ASSUME NEW s \in S, bound - 0 <= s PROVE \E g \in S : \A q \in S : q <= g
    OBVIOUS
  <2>1. s = bound
    OBVIOUS
  <2>2. QED
    BY <2>1
<1>2. ASSUME NEW n \in Nat, n \in T PROVE n + 1 \in T
  <2> SUFFICES ASSUME NEW s \in S, bound - (n + 1) <= s PROVE \E g \in S : \A q \in S : q <= g
    OBVIOUS
  <2>1. CASE \E q \in S : bound - n <= q
    BY <1>2, <2>1
  <2>2. CASE \A q \in S : ~(bound - n <= q)
    <3>1. \A q \in S : q <= s
      BY <2>2
    <3>2. QED
      BY <3>1
  <2>3. QED
    BY <2>1, <2>2
<1> HIDE DEF T
<1>3. bound \in T
  BY <1>1, <1>2, NatInd
<1>4. PICK s \in S : TRUE
  OBVIOUS
<1>5. s \in Nat /\ bound - bound <= s
  BY <1>4
<1>6. QED
  BY <1>3, <1>5 DEF T

\* And a set of numbers that is not empty has a least one.
LEMMA LeastExists ==
    ASSUME NEW S \in SUBSET Nat, S # {}
    PROVE  \E l \in S : \A s \in S : l <= s
<1> DEFINE R == {ss \in Nat \X Nat : ss[1] < ss[2]}
<1>1. IsWellFoundedOn(R, Nat)
  BY NatLessThanWellFounded DEF OpToRel
<1> HIDE DEF R
<1>2. PICK l \in S : \A s \in S : <<s, l>> \notin R
  BY <1>1, WFMin
<1>3. \A s \in S : ~(s < l)
  BY <1>2 DEF R
<1>4. QED
  BY <1>2, <1>3

\* The starts of lines are finitely many, from 0 to the length of the text.
LEMMA StartsFinite ==
    ASSUME NEW text \in Seq(STRING)
    PROVE  /\ Len(text) \in Nat
           /\ LineStarts(text) \in SUBSET Nat
           /\ \A s \in LineStarts(text) : s <= Len(text)
           /\ 0 \in LineStarts(text)
           /\ IsFiniteSet(LineStarts(text))
<1>1. Len(text) \in Nat
  OBVIOUS
<1>2. /\ LineStarts(text) \in SUBSET Nat /\ 0 \in LineStarts(text)
      /\ \A s \in LineStarts(text) : s <= Len(text)
  BY <1>1 DEF LineStarts
<1>3. QED
  BY <1>1, <1>2, FS_BoundedSetOfNaturals

\* s is where the line of offset o starts.
Starts(text, s, o) ==
    /\ s \in LineStarts(text) /\ s <= o
    /\ \A r \in LineStarts(text) : r <= o => r <= s

LEMMA LineHasStart ==
    ASSUME NEW text \in Seq(STRING), NEW o \in Nat
    PROVE  \E s \in Nat : Starts(text, s, o)
<1> DEFINE S == {s \in LineStarts(text) : s <= o}
<1>1. S \in SUBSET Nat /\ S # {}
  BY StartsFinite
<1>2. \E g \in S : \A s \in S : s <= g
  BY <1>1, GreatestExists
<1>3. QED
  BY <1>1, <1>2 DEF Starts

\* As many starts are before it as LineIndex says; no other start has as many.
LEMMA StartFound ==
    ASSUME NEW text \in Seq(STRING), NEW o \in Nat, NEW s \in Nat, Starts(text, s, o)
    PROVE  LineStart(text, LineIndex(text, o)) = s
<1> DEFINE L == LineStarts(text)
           Before(r) == {q \in L : q < r}
           UpTo == {q \in L : q <= o}
<1>1. /\ L \in SUBSET Nat /\ IsFiniteSet(L) /\ s \in L
      /\ \A r \in L : IsFiniteSet(Before(r)) /\ Cardinality(Before(r)) \in Nat
      /\ IsFiniteSet(UpTo) /\ Cardinality(UpTo) \in Nat
  <2>1. L \in SUBSET Nat /\ IsFiniteSet(L) /\ s \in L
    BY StartsFinite DEF Starts
  <2>2. \A r \in L : Before(r) \in SUBSET L
    OBVIOUS
  <2>3. UpTo \in SUBSET L
    OBVIOUS
  <2> HIDE DEF L, Before, UpTo
  <2>4. \A T \in SUBSET L : IsFiniteSet(T) /\ Cardinality(T) \in Nat
    BY <2>1, FS_Subset, FS_CardinalityType
  <2>5. QED
    BY <2>1, <2>2, <2>3, <2>4
<1>2. Cardinality(Before(s)) = Cardinality(UpTo) - 1
  <2>1. Before(s) = UpTo \ {s}
    BY <1>1 DEF Starts
  <2>2. s \in UpTo
    BY <1>1 DEF Starts
  <2> HIDE DEF L, Before, UpTo
  <2>3. QED
    BY <1>1, <2>1, <2>2, FS_RemoveElement
<1>3. ASSUME NEW r \in L, NEW t \in L, r < t
      PROVE  Cardinality(Before(r)) < Cardinality(Before(t))
  <2>1. Before(r) \cup {r} \in SUBSET Before(t)
    BY <1>1, <1>3
  <2>2. r \notin Before(r)
    BY <1>1, <1>3
  <2> HIDE DEF L, Before, UpTo
  <2>3. /\ IsFiniteSet(Before(r) \cup {r})
        /\ Cardinality(Before(r) \cup {r}) = Cardinality(Before(r)) + 1
    BY <1>1, <1>3, <2>2, FS_AddElement
  <2>4. Cardinality(Before(r) \cup {r}) <= Cardinality(Before(t))
    BY <1>1, <1>3, <2>1, FS_Subset
  <2>5. QED
    BY <1>1, <1>3, <2>3, <2>4
<1>4. ASSUME NEW r \in L, Cardinality(Before(r)) = Cardinality(UpTo) - 1 PROVE r = s
  <2> HIDE DEF L, Before, UpTo
  <2>1. ~(r < s) /\ ~(s < r)
    <3>1. s \in L /\ Cardinality(Before(r)) = Cardinality(Before(s))
      BY <1>1, <1>2, <1>4
    <3>2. Cardinality(Before(s)) \in Nat
      BY <1>1
    <3>3. QED
      BY <1>3, <3>1, <3>2
  <2>2. r \in Nat /\ s \in Nat
    BY <1>1
  <2>3. QED
    BY <2>1, <2>2
<1>5. LineIndex(text, o) = Cardinality(UpTo) - 1
  BY DEF LineIndex
<1>6. LineStart(text, LineIndex(text, o))
          = CHOOSE r \in L : Cardinality(Before(r)) = Cardinality(UpTo) - 1
  BY <1>5 DEF LineStart
<1> HIDE DEF L, Before, UpTo
<1>7. QED
  BY <1>1, <1>2, <1>4, <1>6

\* Between the start of its line and the offset there is no line feed, and before the
\* start there is one.
LEMMA StartFacts ==
    ASSUME NEW text \in Seq(STRING), NEW o \in 0..Len(text), NEW s \in Nat, Starts(text, s, o)
    PROVE  /\ s <= o
           /\ \A i \in (s + 1)..o : text[i] # "LF"
           /\ s = 0 \/ (s \in 1..o /\ text[s] = "LF")
<1>1. Len(text) \in Nat /\ s <= o
  BY DEF Starts
<1>2. ASSUME NEW i \in (s + 1)..o, text[i] = "LF" PROVE FALSE
  <2>1. i - 1 \in 0..(Len(text) - 1) /\ (i - 1) + 1 = i
    BY <1>1, <1>2
  <2>2. i \in LineStarts(text)
    BY <1>2, <2>1 DEF LineStarts, CharacterAt
  <2>3. QED
    BY <1>1, <1>2, <2>2 DEF Starts
<1>3. s = 0 \/ (s \in 1..o /\ text[s] = "LF")
  <2>1. s = 0 \/ \E q \in 0..(Len(text) - 1) : s = q + 1 /\ text[q + 1] = "LF"
    BY DEF Starts, LineStarts, CharacterAt
  <2>2. QED
    BY <1>1, <2>1
<1>4. QED
  BY <1>1, <1>2, <1>3

\* There is one line more than line feeds before the offset.
LEMMA LinesCounted ==
    ASSUME NEW text \in Seq(STRING), NEW o \in 0..Len(text)
    PROVE  LineIndex(text, o) = Cardinality({i \in 1..o : text[i] = "LF"})
<1> DEFINE feeds == {i \in 1..o : text[i] = "LF"}
           upTo == {s \in LineStarts(text) : s <= o}
<1>1. Len(text) \in Nat /\ o \in Nat
  OBVIOUS
<1>2. upTo = feeds \cup {0}
  <2>1. ASSUME NEW s \in upTo PROVE s \in feeds \cup {0}
    BY <1>1 DEF LineStarts, CharacterAt
  <2>2. 0 \in upTo
    BY <1>1, StartsFinite
  <2>3. ASSUME NEW i \in feeds PROVE i \in upTo
    <3>1. i - 1 \in 0..(Len(text) - 1) /\ (i - 1) + 1 = i
      BY <1>1
    <3>2. i \in LineStarts(text)
      BY <3>1 DEF LineStarts, CharacterAt
    <3>3. QED
      BY <1>1, <3>2
  <2>4. QED
    BY <2>1, <2>2, <2>3
<1>3. IsFiniteSet(feeds) /\ Cardinality(feeds) \in Nat
  <2>1. IsFiniteSet(1..o)
    BY <1>1, FS_Interval
  <2>2. feeds \in SUBSET (1..o)
    OBVIOUS
  <2> HIDE DEF feeds
  <2>3. QED
    BY <2>1, <2>2, FS_Subset, FS_CardinalityType
<1>4. 0 \notin feeds
  OBVIOUS
<1>5. LineIndex(text, o) = Cardinality(upTo) - 1
  BY DEF LineIndex
<1> HIDE DEF feeds, upTo
<1>6. Cardinality(upTo) = Cardinality(feeds) + 1
  BY <1>2, <1>3, <1>4, FS_AddElement
<1>7. LineIndex(text, o) = Cardinality(feeds)
  BY <1>3, <1>5, <1>6
<1>8. QED
  BY <1>7 DEF feeds

\* The characters behind the last line feed are those from the start of the line on.
LEMMA ColumnsCounted ==
    ASSUME NEW text \in Seq(STRING), NEW o \in 0..Len(text), NEW s \in Nat, Starts(text, s, o)
    PROVE  Cardinality({i \in 1..o : \A f \in {j \in 1..o : text[j] = "LF"} : f < i}) = o - s
<1> DEFINE feeds == {j \in 1..o : text[j] = "LF"}
           behind == {i \in 1..o : \A f \in feeds : f < i}
<1>1. /\ s <= o /\ o \in Nat
      /\ \A i \in (s + 1)..o : text[i] # "LF"
      /\ s = 0 \/ (s \in 1..o /\ text[s] = "LF")
  BY StartFacts
<1>2. ASSUME NEW i \in behind PROVE i \in (s + 1)..o
  <2>1. CASE s = 0
    BY <2>1
  <2>2. CASE s \in feeds
    BY <2>2
  <2>3. QED
    BY <1>1, <2>1, <2>2
<1>3. ASSUME NEW i \in (s + 1)..o PROVE i \in behind
  <2>1. \A f \in feeds : f \in 1..o /\ f \notin (s + 1)..o
    BY <1>1
  <2>2. \A f \in feeds : f < i
    BY <1>1, <1>3, <2>1
  <2>3. i \in 1..o
    BY <1>1, <1>3
  <2>4. QED
    BY <2>2, <2>3
<1>4. behind = (s + 1)..o
  BY <1>2, <1>3
<1> HIDE DEF behind
<1>5. Cardinality(behind) = o - s
  <2>1. s + 1 \in Int /\ o \in Int
    BY <1>1
  <2>2. Cardinality((s + 1)..o) = IF s + 1 > o THEN 0 ELSE o - (s + 1) + 1
    BY <2>1, FS_Interval
  <2>3. (IF s + 1 > o THEN 0 ELSE o - (s + 1) + 1) = o - s
    BY <1>1
  <2>4. QED
    BY <1>4, <2>2, <2>3
<1>6. QED
  BY <1>5 DEF behind

\* e is where the line that starts at s ends: at the first line feed or with the text.
Ends(text, e, s) ==
    /\ e \in s..Len(text)
    /\ e = Len(text) \/ text[e + 1] = "LF"
    /\ \A i \in (s + 1)..e : text[i] # "LF"

LEMMA LineHasEnd ==
    ASSUME NEW text \in Seq(STRING), NEW s \in 0..Len(text)
    PROVE  /\ \E e \in Nat : Ends(text, e, s)
           /\ \A e, f \in Nat : Ends(text, e, s) /\ Ends(text, f, s) => e = f
<1> DEFINE S == {e \in s..Len(text) : e = Len(text) \/ text[e + 1] = "LF"}
<1>1. Len(text) \in Nat /\ s \in Nat
  OBVIOUS
<1>2. S \in SUBSET Nat /\ S # {}
  BY <1>1
<1>3. PICK e \in S : \A f \in S : e <= f
  BY <1>2, LeastExists
<1>4. ASSUME NEW i \in (s + 1)..e, text[i] = "LF" PROVE FALSE
  <2>1. i - 1 \in S
    BY <1>1, <1>3, <1>4
  <2>2. e <= i - 1 /\ e \in Nat
    BY <1>2, <1>3, <2>1
  <2>3. QED
    BY <1>1, <1>4, <2>2
<1>5. Ends(text, e, s)
  BY <1>3, <1>4 DEF Ends
<1>6. ASSUME NEW d \in Nat, NEW f \in Nat, Ends(text, d, s), Ends(text, f, s), d < f
      PROVE  FALSE
  <2>1. d + 1 \in (s + 1)..f /\ d # Len(text)
    BY <1>1, <1>6 DEF Ends
  <2>2. QED
    BY <1>6, <2>1 DEF Ends
<1>7. \A d, f \in Nat : Ends(text, d, s) /\ Ends(text, f, s) => d = f
  <2> SUFFICES ASSUME NEW d \in Nat, NEW f \in Nat, Ends(text, d, s), Ends(text, f, s)
               PROVE  d = f
    OBVIOUS
  <2>1. ~(d < f) /\ ~(f < d)
    BY <1>6
  <2>2. QED
    BY <2>1
<1>8. e \in Nat
  BY <1>2, <1>3
<1>9. QED
  BY <1>5, <1>7, <1>8

\* What LineContaining returns: the line, without a carriage return that ends it.
LEMMA LineFound ==
    ASSUME NEW text \in Seq(STRING), NEW o \in 0..Len(text),
           NEW s \in Nat, Starts(text, s, o), NEW e \in Nat, Ends(text, e, s)
    PROVE  /\ o <= e
           /\ LineContaining(text, o)
                  = SubSeq(text, s + 1, IF e > s /\ text[e] = "CR" THEN e - 1 ELSE e)
<1> DEFINE start == LineStart(text, LineIndex(text, o))
           Finds(f) == /\ f = Len(text) \/ CharacterAt(text, f) = "LF"
                       /\ \A q \in start..(f - 1) : CharacterAt(text, q) # "LF"
           end == CHOOSE f \in start..Len(text) : Finds(f)
<1>0. LineContaining(text, o)
          = SubSeq(text, start + 1,
                   IF end > start /\ CharacterAt(text, end - 1) = "CR" THEN end - 1 ELSE end)
  BY DEF LineContaining
<1>1. /\ s <= o /\ o \in Nat /\ o <= Len(text) /\ Len(text) \in Nat /\ s \in 0..Len(text)
      /\ \A i \in (s + 1)..o : text[i] # "LF"
  BY StartFacts
<1>2. o <= e
  <2> SUFFICES ASSUME e < o PROVE FALSE
    BY <1>1
  <2>1. e + 1 \in (s + 1)..o /\ e # Len(text)
    BY <1>1 DEF Ends
  <2>2. QED
    BY <1>1, <2>1 DEF Ends
<1>3. start = s
  BY <1>1, StartFound
<1> HIDE DEF start
<1>4. \A f \in s..Len(text) : Finds(f) <=> Ends(text, f, s)
  <2> SUFFICES ASSUME NEW f \in s..Len(text) PROVE Finds(f) <=> Ends(text, f, s)
    OBVIOUS
  <2>1. (\A q \in s..(f - 1) : text[q + 1] # "LF") <=> (\A i \in (s + 1)..f : text[i] # "LF")
    <3>1. ASSUME \A q \in s..(f - 1) : text[q + 1] # "LF", NEW i \in (s + 1)..f
          PROVE  text[i] # "LF"
      <4>1. i - 1 \in s..(f - 1) /\ (i - 1) + 1 = i
        BY <1>1, <3>1
      <4>2. QED
        BY <3>1, <4>1
    <3>2. ASSUME \A i \in (s + 1)..f : text[i] # "LF", NEW q \in s..(f - 1)
          PROVE  text[q + 1] # "LF"
      <4>1. q + 1 \in (s + 1)..f
        BY <1>1, <3>2
      <4>2. QED
        BY <3>2, <4>1
    <3>3. QED
      BY <3>1, <3>2
  <2>2. QED
    BY <1>3, <2>1 DEF Ends, CharacterAt
<1>5. end = e
  <2>1. e \in start..Len(text) /\ Finds(e)
    BY <1>3, <1>4 DEF Ends
  <2>2. \A f \in start..Len(text) : Finds(f) => f = e
    <3>1. \A f \in start..Len(text) : f \in Nat /\ f \in s..Len(text)
      BY <1>1, <1>3
    <3> HIDE DEF Finds
    <3>2. QED
      BY <1>1, <1>4, <3>1, LineHasEnd
  <2> HIDE DEF Finds
  <2>3. QED
    BY <2>1, <2>2
<1> HIDE DEF end
<1>6. LineContaining(text, o)
          = SubSeq(text, s + 1,
                   IF e > s /\ CharacterAt(text, e - 1) = "CR" THEN e - 1 ELSE e)
  BY <1>0, <1>3, <1>5, Zenon
<1>7. CharacterAt(text, e - 1) = text[e]
  BY DEF CharacterAt
<1>8. QED
  BY <1>2, <1>6, <1>7

\* What the diagnostics engine shows of a span, if the span does not go on behind a line
\* feed that it begins with.
LEMMA SpanShown ==
    ASSUME NEW text \in Seq(STRING), NEW span, span.begin \in Nat, span.end \in Nat,
           IsSlice(text, span),
           span.end <= span.begin + 1 \/ text[span.begin + 1] # "LF"
    PROVE  IsShown(text, span)
<1> DEFINE o == span.begin
           size == span.end - o
           before == SubSeq(text, 1, o)
           slice == Slice(text, span)
<1>1. o \in 0..Len(text) /\ o \in Nat /\ size \in Nat /\ o + size <= Len(text) /\ Len(text) \in Nat
  BY DEF IsSlice
<1>2. PICK s \in Nat : Starts(text, s, o)
  BY <1>1, LineHasStart
<1>3. s <= o /\ s \in 0..Len(text)
  BY <1>1, <1>2 DEF Starts
<1>4. PICK e \in Nat : Ends(text, e, s)
  BY <1>3, LineHasEnd
<1> DEFINE stop == IF e > s /\ text[e] = "CR" THEN e - 1 ELSE e
           line == SubSeq(text, s + 1, stop)
           prefix == o - s
           available == IF prefix < Len(line) THEN Len(line) - prefix ELSE 0
           shorter == IF size < available THEN size ELSE available
           length == IF shorter = 0 THEN 1 ELSE shorter
<1>5. o <= e /\ LineContaining(text, o) = line /\ e <= Len(text) /\ (e = Len(text) \/ text[e + 1] = "LF")
  BY <1>1, <1>2, <1>4, LineFound DEF Ends
<1>6. /\ stop \in Nat /\ s <= stop /\ stop <= e
      /\ stop = e \/ (stop = e - 1 /\ text[e] = "CR" /\ e > s)
  <2>1. e \in Nat /\ s \in Nat /\ s <= e
    BY <1>3, <1>4 DEF Ends
  <2>2. CASE e > s /\ text[e] = "CR"
    BY <2>1, <2>2
  <2>3. CASE ~(e > s /\ text[e] = "CR")
    BY <2>1, <2>3
  <2>4. QED
    BY <2>2, <2>3
<1>7. /\ Len(line) = stop - s
      /\ \A i \in 1..(stop - s) : line[i] = text[s + i]
  <2>1. \A i \in (s + 1)..stop : text[i] \in STRING
    BY <1>1, <1>5, <1>6
  <2> HIDE DEF stop
  <2>2. /\ Len(line) = IF s + 1 <= stop THEN stop - (s + 1) + 1 ELSE 0
        /\ \A i \in 1..(stop - (s + 1) + 1) : line[i] = text[s + 1 + i - 1]
    BY <1>6, <2>1, SubSeqProperties
  <2> HIDE DEF line
  <2>3. QED
    BY <1>6, <2>2
<1>8. /\ Len(slice) = size
      /\ \A i \in 1..size : slice[i] = text[o + i]
  <2>1. \A i \in (o + 1)..(o + size) : text[i] \in STRING
    BY <1>1
  <2>2. slice = SubSeq(text, o + 1, o + size)
    <3>1. o + size = span.end
      BY <1>1
    <3>2. slice = SubSeq(text, o + 1, span.end)
      BY DEF Slice
    <3> HIDE DEF size, slice, o
    <3>3. QED
      BY <3>1, <3>2
  <2> HIDE DEF size, slice, o
  <2>3. /\ Len(slice) = IF o + 1 <= o + size THEN o + size - (o + 1) + 1 ELSE 0
        /\ \A i \in 1..(o + size - (o + 1) + 1) : slice[i] = text[o + 1 + i - 1]
    BY <1>1, <2>1, <2>2, SubSeqProperties
  <2>4. QED
    BY <1>1, <2>3
<1>9. /\ DOMAIN before = 1..o
      /\ \A i \in 1..o : before[i] = text[i]
  <2>1. \A i \in 1..o : text[i] \in STRING
    BY <1>1
  <2> HIDE DEF o
  <2>2. /\ before \in Seq(STRING) /\ Len(before) = IF 1 <= o THEN o - 1 + 1 ELSE 0
        /\ \A i \in 1..(o - 1 + 1) : before[i] = text[1 + i - 1]
    BY <1>1, <2>1, SubSeqProperties
  <2> HIDE DEF before
  <2>3. QED
    BY <1>1, <2>2
<1>10. /\ available \in Nat /\ available = IF o < stop THEN stop - o ELSE 0
       /\ shorter \in Nat /\ shorter <= size /\ shorter <= available
       /\ shorter = size \/ shorter = available
       /\ length \in Nat
  <2> HIDE DEF line, stop, size, o
  <2>1. available = IF o < stop THEN stop - o ELSE 0
    BY <1>1, <1>3, <1>6, <1>7
  <2>2. available \in Nat
    BY <1>1, <1>6, <2>1
  <2> HIDE DEF available
  <2>3. QED
    BY <1>1, <2>1, <2>2
<1>11. Position(text, o) = [line |-> LineIndex(text, o) + 1, column |-> prefix + 1]
  <2>1. LineStart(text, LineIndex(text, o)) = s
    BY <1>1, <1>2, StartFound
  <2>2. QED
    BY <2>1 DEF Position
<1>12. Marker(text, span) = [line |-> line, prefix |-> prefix, length |-> length]
  <2>1. Position(text, o).column - 1 = prefix
    BY <1>1, <1>3, <1>11
  <2>2. Len(slice) = size
    BY <1>8
  <2> HIDE DEF line, size, stop
  <2>3. QED
    BY <1>5, <2>1, <2>2 DEF Marker
<1>13. Position(text, o).line = Cardinality({i \in DOMAIN before : before[i] = "LF"}) + 1
  <2>1. {i \in DOMAIN before : before[i] = "LF"} = {i \in 1..o : text[i] = "LF"}
    BY <1>9
  <2>2. Position(text, o).line = LineIndex(text, o) + 1
    BY <1>11
  <2>3. o \in 0..Len(text)
    BY <1>1
  <2> HIDE DEF before, o
  <2>4. LineIndex(text, o) = Cardinality({i \in 1..o : text[i] = "LF"})
    BY <2>3, LinesCounted
  <2>5. QED
    BY <2>1, <2>2, <2>4
<1>14. Position(text, o).column - 1
          = Cardinality({i \in DOMAIN before :
                            \A f \in {j \in DOMAIN before : before[j] = "LF"} : f < i})
  <2>1. {j \in DOMAIN before : before[j] = "LF"} = {j \in 1..o : text[j] = "LF"}
    BY <1>9
  <2>2. {i \in DOMAIN before : \A f \in {j \in DOMAIN before : before[j] = "LF"} : f < i}
            = {i \in 1..o : \A f \in {j \in 1..o : text[j] = "LF"} : f < i}
    BY <1>9, <2>1
  <2>3. Cardinality({i \in 1..o : \A f \in {j \in 1..o : text[j] = "LF"} : f < i}) = prefix
    BY <1>1, <1>2, ColumnsCounted
  <2>4. Position(text, o).column - 1 = prefix
    BY <1>1, <1>3, <1>11
  <2>5. QED
    BY <2>2, <2>3, <2>4
<1>15. ASSUME NEW i \in 1..length
       PROVE  \/ prefix + i > Len(line) /\ i = 1
              \/ i <= Len(slice) /\ line[prefix + i] = slice[i]
              \/ i = 1 /\ slice = <<>>
  <2> HIDE DEF line, slice, stop, size, available, o
  <2>1. CASE shorter = 0
    <3>1. i = 1
      BY <1>15, <2>1
    <3>2. CASE available = 0
      BY <1>1, <1>3, <1>6, <1>7, <1>10, <3>1, <3>2
    <3>3. CASE size = 0
      BY <1>1, <1>8, <3>1, <3>3 DEF Slice, slice, size, o
    <3>4. QED
      BY <1>10, <2>1, <3>2, <3>3
  <2>2. CASE shorter # 0
    <3>1. i \in 1..shorter
      BY <1>15, <2>2
    <3>2. i \in 1..size /\ prefix + i \in 1..(stop - s) /\ s + (prefix + i) = o + i
      BY <1>1, <1>3, <1>6, <1>10, <3>1
    <3>3. QED
      BY <1>1, <1>7, <1>8, <3>2
  <2>3. QED
    BY <2>1, <2>2
<1>16. ASSUME length < Len(slice) PROVE slice[length + 1] \in {"CR", "LF"}
  <2>1. length + 1 \in 1..size /\ slice[length + 1] = text[o + length + 1] /\ length < size
    <3>1. length \in Nat /\ length < size
      BY <1>8, <1>10, <1>16
    <3>2. length + 1 \in 1..size
      BY <1>1, <3>1
    <3> HIDE DEF length, size, o, slice
    <3>3. slice[length + 1] = text[o + (length + 1)]
      BY <1>8, <3>2
    <3>4. o + (length + 1) = o + length + 1
      BY <1>1, <3>1
    <3>5. QED
      BY <3>1, <3>2, <3>3, <3>4
  <2>2. shorter = available
    BY <1>10, <2>1
  <2>3. CASE available = 0
    <3>1. length = 1 /\ size > 1
      BY <2>1, <2>2, <2>3
    <3>2. text[o + 1] # "LF"
      BY <1>1, <3>1
    <3>3. stop <= o
      BY <1>1, <1>6, <1>10, <2>3
    <3>4. e # o
      BY <1>1, <1>5, <3>1, <3>2
    <3>5. e = o + 1
      <4>1. o <= e /\ stop <= o /\ e # o /\ (stop = e \/ stop = e - 1)
        BY <1>5, <1>6, <3>3, <3>4
      <4> HIDE DEF o, stop
      <4>2. QED
        BY <1>1, <4>1
    <3>6. text[o + 2] = "LF"
      BY <1>1, <1>5, <3>1, <3>5
    <3>7. QED
      BY <1>1, <2>1, <3>1, <3>6
  <2>4. CASE available # 0
    <3>1. length = available /\ o + length = stop
      BY <1>1, <1>6, <1>10, <2>2, <2>4
    <3>2. stop < Len(text)
      BY <1>1, <2>1, <3>1
    <3>3. text[stop + 1] \in {"CR", "LF"}
      BY <1>5, <1>6, <3>2
    <3>4. QED
      BY <1>1, <2>1, <3>1, <3>3
  <2>5. QED
    BY <2>3, <2>4
<1>17. /\ Marker(text, span).length = length /\ Marker(text, span).prefix = prefix
       /\ Marker(text, span).line = line
  BY <1>12
<1> HIDE DEF line, slice, stop, size, available, shorter, length, prefix
<1>18. QED
  BY <1>13, <1>14, <1>15, <1>16, <1>17 DEF IsShown, slice

-----------------------------------------------------------------------------
(* Every span is shown *)

\* A span of more than one character does not begin with a line feed, and an open literal
\* begins with its quote.
Showable(span) == span.end <= span.begin + 1 \/ CharacterAt(contents, span.begin) # "LF"

SpansShowable ==
    /\ \A i \in DOMAIN tokens : Showable(tokens[i])
    /\ \A e \in DOMAIN errors : Showable(errors[e])

QuoteFirst == InLiteral => CharacterAt(contents, literal.begin) \in Quotes

ShownInv == SpansShowable /\ QuoteFirst

LEMMA TokenShowable ==
    ASSUME LexInv, SpansShowable, NEW kind, NEW begin \in Nat, NEW end \in Nat,
           AddToken(kind, begin, end), contents' = contents,
           end <= begin + 1 \/ CharacterAt(contents, begin) # "LF"
    PROVE  SpansShowable'
<1>1. /\ tokens' = Append(tokens, [kind |-> kind, begin |-> begin, end |-> end])
      /\ errors' = errors
  BY DEF AddToken, Token
<1>2. /\ DOMAIN tokens' = 1..(Len(tokens) + 1) /\ Len(tokens) \in Nat
      /\ DOMAIN tokens = 1..Len(tokens)
      /\ \A i \in DOMAIN tokens : tokens'[i] = tokens[i]
      /\ tokens'[Len(tokens) + 1] = [kind |-> kind, begin |-> begin, end |-> end]
  BY <1>1, Facts
<1>3. \A i \in DOMAIN tokens : Showable(tokens[i])'
  BY <1>2 DEF SpansShowable, Showable
<1>4. ASSUME NEW i \in DOMAIN tokens' PROVE Showable(tokens[i])'
  <2>1. i \in DOMAIN tokens \/ i = Len(tokens) + 1
    BY <1>2
  <2>2. CASE i = Len(tokens) + 1
    BY <1>2, <2>2 DEF Showable
  <2>3. QED
    BY <1>3, <2>1, <2>2
<1>5. \A e \in DOMAIN errors' : Showable(errors[e])'
  BY <1>1 DEF SpansShowable, Showable
<1>6. QED
  BY <1>4, <1>5 DEF SpansShowable

LEMMA ErrorShowable ==
    ASSUME LexInv, SpansShowable, NEW begin \in Nat, NEW end \in Nat,
           ReportError(begin, end), contents' = contents,
           end <= begin + 1 \/ CharacterAt(contents, begin) # "LF"
    PROVE  SpansShowable'
<1>1. /\ errors' = Append(errors, [begin |-> begin, end |-> end])
      /\ tokens' = tokens
  BY DEF ReportError, Span
<1>2. /\ DOMAIN errors' = 1..(Len(errors) + 1) /\ Len(errors) \in Nat
      /\ DOMAIN errors = 1..Len(errors)
      /\ \A e \in DOMAIN errors : errors'[e] = errors[e]
      /\ errors'[Len(errors) + 1] = [begin |-> begin, end |-> end]
  BY <1>1, Facts
<1>3. ASSUME NEW e \in DOMAIN errors' PROVE Showable(errors[e])'
  <2>1. e \in DOMAIN errors \/ e = Len(errors) + 1
    BY <1>2
  <2>2. CASE e \in DOMAIN errors
    BY <1>2, <2>2 DEF SpansShowable, Showable
  <2>3. CASE e = Len(errors) + 1
    BY <1>2, <2>3 DEF Showable
  <2>4. QED
    BY <2>1, <2>2, <2>3
<1>4. \A i \in DOMAIN tokens' : Showable(tokens[i])'
  BY <1>1 DEF SpansShowable, Showable
<1>5. QED
  BY <1>3, <1>4 DEF SpansShowable

LEMMA NothingShowable ==
    ASSUME SpansShowable, UNCHANGED <<contents, tokens, errors>> PROVE SpansShowable'
BY DEF SpansShowable, Showable

\* No letter, digit, operator, quote or backslash is a line feed.
LEMMA NoFeed ==
    ASSUME NEW c, c \in Letters \cup Digits \cup Quotes \cup {"backslash"} PROVE c # "LF"
BY DEF Letters, Digits, Quotes

LEMMA OperatorBegins ==
    ASSUME LexInv, NEW end \in (offset + 1)..Len(contents), Spelled(end) \in Operators
    PROVE  CharacterAt(contents, offset) # "LF"
<1>1. offset \in Nat /\ Len(contents) \in Nat /\ contents \in Seq(STRING)
  BY Facts
<1>2. Spelled(end)[1] = contents[offset + 1]
  BY <1>1 DEF Spelled
<1>3. \A op \in Operators : op[1] # "LF"
  BY DEF Operators
<1>4. QED
  BY <1>2, <1>3 DEF CharacterAt

LEMMA LiteralFacts ==
    ASSUME LexInv, QuoteFirst, InLiteral
    PROVE  CharacterAt(contents, literal.begin) # "LF" /\ literal.begin \in Nat
BY Open, NoFeed DEF QuoteFirst

LEMMA ScanningShows ==
    ASSUME LexInv, ShownInv, \/ SkipWhitespace \/ SkipComment \/ LexIdentifier \/ LexInteger
                             \/ LexOperator \/ UnknownCharacter \/ EndOfFile
    PROVE  ShownInv'
<1>1. offset \in Nat /\ Len(contents) \in Nat /\ SpansShowable
  BY Facts DEF ShownInv
<1>2. UNCHANGED <<contents, literal>> /\ ~InLiteral
  BY DEF SkipWhitespace, SkipComment, LexIdentifier, LexInteger, LexOperator, UnknownCharacter,
         EndOfFile, GoTo, Scanning, InLiteral
<1>3. QuoteFirst'
  BY <1>2 DEF QuoteFirst, InLiteral
<1>4. SpansShowable'
  <2>1. CASE SkipWhitespace \/ SkipComment
    BY <1>1, <1>2, <2>1, NothingShowable DEF SkipWhitespace, SkipComment
  <2>2. CASE LexIdentifier
    <3>1. PICK end \in offset..Len(contents) :
              AddToken(IF Spelled(end) \in ReservedWords THEN Spelled(end)
                       ELSE <<"identifier">>, offset, end)
      BY <2>2 DEF LexIdentifier, Spelled
    <3>2. CharacterAt(contents, offset) \in Letters
      BY <2>2 DEF LexIdentifier, Is
    <3>3. end \in Nat
      BY <1>1
    <3>4. QED
      BY <1>1, <1>2, <3>1, <3>2, <3>3, NoFeed, TokenShowable
  <2>3. CASE LexInteger
    <3>1. PICK end \in offset..Len(contents) : AddToken(<<"integer">>, offset, end)
      BY <2>3 DEF LexInteger
    <3>2. CharacterAt(contents, offset) \in Digits
      BY <2>3 DEF LexInteger, Is
    <3>3. end \in Nat
      BY <1>1
    <3>4. QED
      BY <1>1, <1>2, <3>1, <3>2, <3>3, NoFeed, TokenShowable
  <2>4. CASE LexOperator
    <3>1. PICK end \in (offset + 1)..Len(contents) :
              Spelled(end) \in Operators /\ AddToken(Spelled(end), offset, end)
      BY <2>4 DEF LexOperator
    <3>2. end \in Nat
      BY <1>1
    <3>3. QED
      BY <1>1, <1>2, <3>1, <3>2, OperatorBegins, TokenShowable
  <2>5. CASE UnknownCharacter
    BY <1>1, <1>2, <2>5, ErrorShowable DEF UnknownCharacter
  <2>6. CASE EndOfFile
    BY <1>1, <1>2, <2>6, TokenShowable DEF EndOfFile
  <2>7. QED
    BY <2>1, <2>2, <2>3, <2>4, <2>5, <2>6
<1>5. QED
  BY <1>3, <1>4 DEF ShownInv

LEMMA OpeningShows == ASSUME LexInv, ShownInv, OpenLiteral PROVE ShownInv'
<1>1. /\ UNCHANGED <<contents, tokens, errors>> /\ literal'.begin = offset
      /\ CharacterAt(contents, offset) \in Quotes
  BY DEF OpenLiteral, GoTo, Is
<1>2. QED
  BY <1>1, NothingShowable DEF ShownInv, QuoteFirst

LEMMA GoingOnShows == ASSUME LexInv, ShownInv, LiteralCharacter \/ Escape PROVE ShownInv'
<1>1. /\ InLiteral /\ contents' = contents /\ offset \in Nat
      /\ literal \in Literals /\ SpansShowable
  BY Facts, Open DEF LiteralCharacter, Escape, GoTo, ShownInv
<1>2. literal'.begin = literal.begin
  BY <1>1 DEF LiteralCharacter, Escape, Literals
<1>3. QuoteFirst'
  BY <1>1, <1>2 DEF QuoteFirst, ShownInv
<1>4. CASE UNCHANGED <<tokens, errors>>
  BY <1>1, <1>3, <1>4, NothingShowable DEF ShownInv
<1>5. CASE ReportError(offset, offset + 2) /\ Is(offset, {"backslash"})
  <2>1. CharacterAt(contents, offset) # "LF"
    BY <1>5, NoFeed DEF Is
  <2>2. SpansShowable'
    BY <1>1, <1>5, <2>1, ErrorShowable
  <2>3. QED
    BY <1>3, <2>2 DEF ShownInv
<1>6. QED
  BY <1>4, <1>5 DEF LiteralCharacter, Escape

LEMMA EndingShows ==
    ASSUME LexInv, ShownInv,
           TrailingBackslash \/ RawNewline \/ CloseLiteral \/ UnterminatedLiteral
    PROVE  ShownInv'
<1>1. /\ InLiteral /\ literal' = NoLiteral /\ contents' = contents
      /\ offset \in Nat /\ SpansShowable
  BY Facts DEF TrailingBackslash, RawNewline, CloseLiteral, UnterminatedLiteral, GoTo, ShownInv
<1>2. QuoteFirst'
  BY <1>1 DEF QuoteFirst, InLiteral
<1>3. literal.begin \in Nat /\ CharacterAt(contents, literal.begin) # "LF"
  BY <1>1, LiteralFacts DEF ShownInv
<1>4. SpansShowable'
  <2>1. CASE TrailingBackslash
    BY <1>1, <2>1, ErrorShowable DEF TrailingBackslash
  <2>2. CASE RawNewline
    <3>1. PICK begin \in {offset, offset + 1} :
              Is(begin, Newlines) /\ ReportError(begin, AfterNewline(begin))
      BY <2>2 DEF RawNewline
    <3>2. begin \in Nat
      BY <1>1
    <3>3. CASE Is(begin, {"CR"})
      <4>1. CharacterAt(contents, begin) # "LF"
        BY <3>3 DEF Is
      <4>2. AfterNewline(begin) \in Nat
        BY <3>2 DEF AfterNewline
      <4>3. QED
        BY <1>1, <3>1, <3>2, <4>1, <4>2, ErrorShowable
    <3>4. CASE ~Is(begin, {"CR"})
      <4>1. AfterNewline(begin) = begin + 1
        BY <3>4 DEF AfterNewline
      <4>2. QED
        BY <1>1, <3>1, <3>2, <4>1, ErrorShowable
    <3>5. QED
      BY <3>3, <3>4
  <2>3. CASE CloseLiteral
    <3>1. CASE UNCHANGED <<tokens, errors>>
      BY <1>1, <3>1, NothingShowable
    <3>2. CASE AddToken(<<literal.quote>>, literal.begin, offset + 1)
      BY <1>1, <1>3, <3>2, TokenShowable
    <3>3. CASE ReportError(literal.begin, offset + 1)
      BY <1>1, <1>3, <3>3, ErrorShowable
    <3>4. CASE \E o \in literal.foreign : ReportError(o, o + 1)
      <4>1. PICK o \in literal.foreign : ReportError(o, o + 1)
        BY <3>4
      <4>2. o \in Nat
        BY <1>1, Open
      <4>3. QED
        BY <1>1, <4>1, <4>2, ErrorShowable
    <3>5. QED
      BY <2>3, <3>1, <3>2, <3>3, <3>4 DEF CloseLiteral
  <2>4. CASE UnterminatedLiteral
    BY <1>1, <1>3, <2>4, ErrorShowable DEF UnterminatedLiteral
  <2>5. QED
    BY <2>1, <2>2, <2>3, <2>4
<1>5. QED
  BY <1>2, <1>4 DEF ShownInv

LEMMA ShownStarts == Init => ShownInv
BY DEF Init, ShownInv, SpansShowable, QuoteFirst, InLiteral

LEMMA ShownSteps == ASSUME LexInv, ShownInv, [Next]_vars PROVE ShownInv'
<1>1. CASE \/ SkipWhitespace \/ SkipComment \/ LexIdentifier \/ LexInteger \/ LexOperator
           \/ UnknownCharacter \/ EndOfFile
  BY <1>1, ScanningShows
<1>2. CASE OpenLiteral
  BY <1>2, OpeningShows
<1>3. CASE LiteralCharacter \/ Escape
  BY <1>3, GoingOnShows
<1>4. CASE TrailingBackslash \/ RawNewline \/ CloseLiteral \/ UnterminatedLiteral
  BY <1>4, EndingShows
<1>5. CASE UNCHANGED vars
  BY <1>5 DEF vars, ShownInv, SpansShowable, QuoteFirst, InLiteral, Showable
<1>6. QED
  BY <1>1, <1>2, <1>3, <1>4, <1>5 DEF Next

(* SourceManager::position(), line_containing() and render_source_line(): for texts of any  *)
(* length, every token and error has the line and column of its first character, and the    *)
(* marker under the line covers the characters of the span up to the end of the line.       *)
THEOREM SpansAreShown == Spec => []MarkerShowsSpan
<1>1. ASSUME LexInv, ShownInv PROVE MarkerShowsSpan
  <2>1. SpansAreSlices /\ contents \in Seq(STRING)
    BY <1>1, LexInvSlices, Facts
  <2>2. ASSUME NEW i \in DOMAIN tokens
        PROVE  IsSlice(contents, tokens[i]) /\ IsShown(contents, tokens[i])
    <3>1. tokens[i].begin \in Nat /\ tokens[i].end \in Nat /\ IsSlice(contents, tokens[i])
      BY <1>1, <2>1, Facts DEF SpansAreSlices
    <3>2. tokens[i].end <= tokens[i].begin + 1 \/ contents[tokens[i].begin + 1] # "LF"
      BY <1>1 DEF ShownInv, SpansShowable, Showable, CharacterAt
    <3>3. QED
      BY <2>1, <3>1, <3>2, SpanShown
  <2>3. ASSUME NEW e \in DOMAIN errors
        PROVE  IsSlice(contents, errors[e]) /\ IsShown(contents, errors[e])
    <3>1. errors[e].begin \in Nat /\ errors[e].end \in Nat /\ IsSlice(contents, errors[e])
      BY <1>1, <2>1, Facts DEF SpansAreSlices
    <3>2. errors[e].end <= errors[e].begin + 1 \/ contents[errors[e].begin + 1] # "LF"
      BY <1>1 DEF ShownInv, SpansShowable, Showable, CharacterAt
    <3>3. QED
      BY <2>1, <3>1, <3>2, SpanShown
  <2>4. QED
    BY <2>2, <2>3 DEF MarkerShowsSpan
<1>2. Spec => [](LexInv /\ ShownInv)
  <2>1. Init => LexInv /\ ShownInv
    BY LexStarts, ShownStarts
  <2>2. LexInv /\ ShownInv /\ [Next]_vars => (LexInv /\ ShownInv)'
    BY LexSteps, ShownSteps
  <2>3. QED
    BY <2>1, <2>2, PTL DEF Spec
<1>3. QED
  BY <1>1, <1>2, PTL

-----------------------------------------------------------------------------
(* The elements of a literal *)

\* What one more character makes of the numbers of elements before it.
OneMore(s, quote, n, g) ==
    {size + 1 : size \in
        (IF s[n] \in Newlines \cup {quote, "backslash"} THEN {} ELSE g[n - 1])
        \cup
        (IF n > 1 /\ s[n - 1] = "backslash" /\ s[n] \in EscapeCodes THEN g[n - 2] ELSE {})}

Counts(s, quote, m, g) ==
    g = [n \in 0..m |-> IF n = 0 THEN {0} ELSE OneMore(s, quote, n, g)]

\* More depends on the two counts before it and on the two characters alone.
LEMMA OneMoreAgrees ==
    ASSUME NEW s, NEW t, NEW quote, NEW n, NEW g, NEW h,
           s[n] = t[n], g[n - 1] = h[n - 1],
           n > 1 => s[n - 1] = t[n - 1] /\ g[n - 2] = h[n - 2]
    PROVE  OneMore(s, quote, n, g) = OneMore(t, quote, n, h)
<1>1. (IF s[n] \in Newlines \cup {quote, "backslash"} THEN {} ELSE g[n - 1])
          = (IF t[n] \in Newlines \cup {quote, "backslash"} THEN {} ELSE h[n - 1])
  BY Zenon
<1>2. (IF n > 1 /\ s[n - 1] = "backslash" /\ s[n] \in EscapeCodes THEN g[n - 2] ELSE {})
          = (IF n > 1 /\ t[n - 1] = "backslash" /\ t[n] \in EscapeCodes THEN h[n - 2] ELSE {})
  <2>1. CASE n > 1
    BY <2>1
  <2>2. CASE ~(n > 1)
    BY <2>2
  <2>3. QED
    BY <2>1, <2>2
<1>3. QED
  BY <1>1, <1>2, Zenon DEF OneMore

LEMMA CountsExist == ASSUME NEW s, NEW quote PROVE \A m \in Nat : \E g : Counts(s, quote, m, g)
<1> DEFINE T == {m \in Nat : \E g : Counts(s, quote, m, g)}
<1>1. 0 \in T
  <2>1. PICK g : g = [n \in 0..0 |-> {0}]
    OBVIOUS
  <2>2. \A n \in 0..0 : n = 0
    OBVIOUS
  <2>3. g = [n \in 0..0 |-> IF n = 0 THEN {0} ELSE OneMore(s, quote, n, g)]
    BY <2>1, <2>2
  <2>4. QED
    BY <2>3 DEF Counts
<1>2. ASSUME NEW m \in Nat, m \in T PROVE m + 1 \in T
  <2>1. PICK g : Counts(s, quote, m, g)
    BY <1>2
  <2>2. PICK h : h = [n \in 0..(m + 1) |-> IF n = m + 1 THEN OneMore(s, quote, n, g) ELSE g[n]]
    OBVIOUS
  <2>3. \A n \in 0..m : h[n] = g[n]
    BY <2>2
  <2>4. ASSUME NEW n \in 0..(m + 1)
        PROVE  h[n] = IF n = 0 THEN {0} ELSE OneMore(s, quote, n, h)
    <3>1. CASE n = 0
      <4>1. h[n] = g[n] /\ n \in 0..m
        BY <2>3, <3>1
      <4>2. g[n] = {0}
        BY ONLY <2>1, <3>1, <4>1 DEF Counts
      <4>3. QED
        BY <3>1, <4>1, <4>2
    <3>2. CASE n # 0
      <4>1. n - 1 \in 0..m /\ (n > 1 => n - 2 \in 0..m)
        BY <2>4, <3>2
      <4>2. h[n - 1] = g[n - 1] /\ (n > 1 => h[n - 2] = g[n - 2])
        BY <2>3, <4>1
      <4>3. OneMore(s, quote, n, g) = OneMore(s, quote, n, h)
        BY <4>2, OneMoreAgrees
      <4>4. CASE n = m + 1
        <5>1. h[n] = OneMore(s, quote, n, g)
          BY <2>2, <4>4
        <5>2. QED
          BY <3>2, <4>3, <5>1
      <4>5. CASE n # m + 1
        <5>1. n \in 0..m
          BY <4>5
        <5>2. g[n] = OneMore(s, quote, n, g)
          BY ONLY <2>1, <3>2, <5>1 DEF Counts
        <5>3. h[n] = g[n]
          BY <2>3, <5>1
        <5>4. QED
          BY <3>2, <4>3, <5>2, <5>3
      <4>6. QED
        BY <4>4, <4>5
    <3>3. QED
      BY <3>1, <3>2
  <2>5. h = [n \in 0..(m + 1) |-> IF n = 0 THEN {0} ELSE OneMore(s, quote, n, h)]
    BY <2>2, <2>4
  <2>6. Counts(s, quote, m + 1, h)
    BY <2>5 DEF Counts
  <2>7. QED
    BY <2>6
<1>3. Nat \subseteq T
  <2> HIDE DEF T
  <2>1. QED
    BY <1>1, <1>2, NatInd
<1>4. QED
  BY <1>3

\* What counts the elements of a text counts those of what it begins with.
LEMMA CountsAgree ==
    ASSUME NEW s, NEW t, NEW quote, NEW m \in Nat, NEW k \in 0..m, NEW g, NEW h,
           Counts(s, quote, m, g), Counts(t, quote, k, h), \A i \in 1..k : s[i] = t[i]
    PROVE  \A n \in 0..k : g[n] = h[n]
<1> DEFINE T == {n \in Nat : n <= k => g[n] = h[n] /\ (n > 0 => g[n - 1] = h[n - 1])}
<1>1. g[0] = {0}
  <2>1. 0 \in 0..m
    OBVIOUS
  <2>2. QED
    BY ONLY <2>1, Counts(s, quote, m, g) DEF Counts
<1>2. h[0] = {0}
  <2>1. 0 \in 0..k
    OBVIOUS
  <2>2. QED
    BY ONLY <2>1, Counts(t, quote, k, h) DEF Counts
<1>3. 0 \in T
  BY <1>1, <1>2
<1>4. ASSUME NEW n \in Nat, n \in T, n + 1 <= k PROVE g[n + 1] = h[n + 1] /\ g[n] = h[n]
  <2>1. PICK i : i = n + 1
    OBVIOUS
  <2>2. i \in 0..m /\ i \in 0..k /\ i # 0 /\ i \in 1..k /\ i - 1 = n /\ i - 2 = n - 1
    BY <1>4, <2>1
  <2>3. g[i] = OneMore(s, quote, i, g)
    BY ONLY <2>2, Counts(s, quote, m, g) DEF Counts
  <2>4. h[i] = OneMore(t, quote, i, h)
    BY ONLY <2>2, Counts(t, quote, k, h) DEF Counts
  <2>5. g[n] = h[n] /\ (n > 0 => g[n - 1] = h[n - 1])
    BY <1>4
  <2>6. s[i] = t[i] /\ (i > 1 => s[i - 1] = t[i - 1])
    BY <1>4, <2>1, <2>2
  <2>7. g[i - 1] = h[i - 1] /\ (i > 1 => g[i - 2] = h[i - 2])
    BY <2>1, <2>2, <2>5
  <2>8. OneMore(s, quote, i, g) = OneMore(t, quote, i, h)
    BY <2>6, <2>7, OneMoreAgrees
  <2>9. QED
    BY <2>1, <2>3, <2>4, <2>5, <2>8
<1>5. ASSUME NEW n \in Nat, n \in T PROVE n + 1 \in T
  <2>1. n + 1 \in Nat /\ (n + 1) - 1 = n
    OBVIOUS
  <2>2. QED
    BY <1>4, <1>5, <2>1
<1>6. Nat \subseteq T
  <2> HIDE DEF T
  <2>1. QED
    BY <1>3, <1>5, NatInd
<1>7. QED
  BY <1>6

\* Sizes(), unfolded: some function counts the elements.
LEMMA SizesUnfold ==
    ASSUME NEW s \in Seq(STRING), NEW quote
    PROVE  \E g : Counts(s, quote, Len(s), g) /\ Sizes(s, quote) = g[Len(s)]
<1>1. PICK m \in Nat : m = Len(s)
  OBVIOUS
<1>2. \E g : Counts(s, quote, m, g)
  BY <1>1, CountsExist
<1>3. PICK g : g = CHOOSE h : Counts(s, quote, m, h)
  OBVIOUS
<1>4. Counts(s, quote, m, g)
  BY <1>2, <1>3
<1>5. Sizes(s, quote) = g[m]
  BY <1>1, <1>3, Zenon DEF Sizes, Counts, OneMore
<1>6. QED
  BY <1>1, <1>4, <1>5

Begins(s, t, k) == Len(t) = k /\ \A i \in 1..k : t[i] = s[i]

\* So the function of the whole text says what Sizes makes of each beginning of it.
LEMMA SizesOfBeginning ==
    ASSUME NEW s \in Seq(STRING), NEW quote, NEW g, Counts(s, quote, Len(s), g),
           NEW k \in 0..Len(s), NEW t \in Seq(STRING), Begins(s, t, k)
    PROVE  Sizes(t, quote) = g[k]
<1>1. PICK h : Counts(t, quote, k, h) /\ Sizes(t, quote) = h[k]
  BY SizesUnfold DEF Begins
<1>2. PICK m \in Nat : m = Len(s)
  OBVIOUS
<1>3. Counts(s, quote, m, g) /\ k \in 0..m
  BY <1>2
<1>4. \A i \in 1..k : s[i] = t[i]
  BY DEF Begins
<1>5. \A n \in 0..k : g[n] = h[n]
  BY ONLY <1>1, <1>3, <1>4, m \in Nat, CountsAgree
<1>6. k \in 0..k
  OBVIOUS
<1>7. QED
  BY <1>1, <1>5, <1>6

-----------------------------------------------------------------------------
(* The elements of a literal that opens at b, up to o *)

Inner(text, b, o) == SubSeq(text, b + 2, o)
InnerSizes(text, b, o, quote) == Sizes(Inner(text, b, o), quote)

Plain(character, quote) == character \notin Newlines \cup {quote, "backslash"}

LEMMA InnerIs ==
    ASSUME NEW text \in Seq(STRING), NEW b \in Nat, NEW o \in Nat, b + 1 <= o, o <= Len(text)
    PROVE  /\ Inner(text, b, o) \in Seq(STRING)
           /\ Len(Inner(text, b, o)) = o - (b + 1)
           /\ \A i \in 1..(o - (b + 1)) : Inner(text, b, o)[i] = text[b + 1 + i]
<1>1. b + 2 \in Int /\ o \in Int /\ \A i \in (b + 2)..o : text[i] \in STRING
  BY LenProperties, ElementOfSeq
<1>2. PICK m \in Int : m = b + 2
  BY <1>1
<1>3. PICK s : s = SubSeq(text, m, o)
  OBVIOUS
<1>4. /\ s \in Seq(STRING)
      /\ Len(s) = IF m <= o THEN o - m + 1 ELSE 0
      /\ \A i \in 1 .. o - m + 1 : s[i] = text[m + i - 1]
  <2>1. \A i \in m..o : text[i] \in STRING
    BY <1>1, <1>2
  <2>2. QED
    BY <1>2, <1>3, <2>1, SubSeqProperties
<1>5. s = Inner(text, b, o)
  BY <1>2, <1>3 DEF Inner
<1>6. Len(s) = o - (b + 1)
  BY <1>2, <1>4
<1>7. ASSUME NEW i \in 1..(o - (b + 1)) PROVE s[i] = text[b + 1 + i]
  <2>1. i \in 1 .. o - m + 1 /\ m + i - 1 = b + 1 + i
    BY <1>2
  <2>2. QED
    BY <1>4, <2>1
<1>8. QED
  BY <1>4, <1>5, <1>6, <1>7

LEMMA InnerEmpty ==
    ASSUME NEW text \in Seq(STRING), NEW b \in Nat, NEW quote, b + 1 <= Len(text)
    PROVE  InnerSizes(text, b, b + 1, quote) = {0}
<1>1. PICK o \in Nat : o = b + 1
  OBVIOUS
<1>2. PICK s : s = Inner(text, b, o)
  OBVIOUS
<1>3. s \in Seq(STRING) /\ Len(s) = 0
  <2>1. b + 1 <= o /\ o <= Len(text) /\ o - (b + 1) = 0
    BY <1>1
  <2>2. QED
    BY ONLY <1>2, <2>1, InnerIs, text \in Seq(STRING), b \in Nat, o \in Nat
<1>4. PICK g : Counts(s, quote, Len(s), g) /\ Sizes(s, quote) = g[Len(s)]
  BY <1>3, SizesUnfold
<1>5. Counts(s, quote, 0, g) /\ 0 \in 0..0
  BY <1>3, <1>4
<1>6. g[0] = {0}
  BY ONLY <1>5 DEF Counts
<1>7. QED
  BY <1>1, <1>2, <1>3, <1>4, <1>6 DEF InnerSizes

\* The last element is a plain character or an escape.
LEMMA InnerNext ==
    ASSUME NEW text \in Seq(STRING), NEW b \in Nat, NEW o \in Nat, NEW quote,
           b + 1 < o, o <= Len(text)
    PROVE  InnerSizes(text, b, o, quote) =
               {size + 1 : size \in
                   (IF Plain(text[o], quote) THEN InnerSizes(text, b, o - 1, quote) ELSE {})
                   \cup
                   (IF /\ b + 2 < o
                       /\ text[o - 1] = "backslash" /\ text[o] \in EscapeCodes
                    THEN InnerSizes(text, b, o - 2, quote) ELSE {})}
<1>1. PICK s : s = Inner(text, b, o)
  OBVIOUS
<1>2. PICK n \in Nat : n = o - (b + 1)
  OBVIOUS
<1>3. /\ s \in Seq(STRING) /\ Len(s) = n /\ n > 0
      /\ \A i \in 1..n : s[i] = text[b + 1 + i]
  <2>1. b + 1 <= o
    OBVIOUS
  <2>2. /\ s \in Seq(STRING) /\ Len(s) = o - (b + 1)
        /\ \A i \in 1..(o - (b + 1)) : s[i] = text[b + 1 + i]
    BY <1>1, <2>1, InnerIs
  <2>3. QED
    BY <1>2, <2>2
<1>4. PICK g : Counts(s, quote, n, g) /\ Sizes(s, quote) = g[n]
  BY <1>3, SizesUnfold
<1>5. ASSUME NEW p \in Nat, b + 1 <= p, p <= o, NEW k \in Nat, k = p - (b + 1)
      PROVE  InnerSizes(text, b, p, quote) = g[k]
  <2>1. PICK t : t = Inner(text, b, p)
    OBVIOUS
  <2>2. p <= Len(text)
    BY <1>5
  <2>3. /\ t \in Seq(STRING) /\ Len(t) = k
        /\ \A i \in 1..k : t[i] = text[b + 1 + i]
    <3>1. /\ t \in Seq(STRING) /\ Len(t) = p - (b + 1)
          /\ \A i \in 1..(p - (b + 1)) : t[i] = text[b + 1 + i]
      BY ONLY <1>5, <2>1, <2>2, InnerIs, text \in Seq(STRING), b \in Nat
    <3>2. QED
      BY <1>5, <3>1
  <2>4. k \in 0..Len(s)
    BY <1>2, <1>3, <1>5
  <2>5. Begins(s, t, k)
    BY <1>3, <2>3, <2>4 DEF Begins
  <2>6. Counts(s, quote, Len(s), g)
    BY <1>3, <1>4
  <2>7. Sizes(t, quote) = g[k]
    BY ONLY <1>3, <2>3, <2>4, <2>5, <2>6, SizesOfBeginning
  <2>8. QED
    BY <2>1, <2>7 DEF InnerSizes
<1>6. g[n] = OneMore(s, quote, n, g)
  <2>1. n \in 0..n /\ n # 0
    BY <1>3
  <2>2. QED
    BY ONLY <1>4, <2>1 DEF Counts
<1>7. s[n] = text[o] /\ InnerSizes(text, b, o - 1, quote) = g[n - 1]
  <2>1. n \in 1..n /\ b + 1 + n = o /\ o - 1 \in Nat /\ n - 1 \in Nat /\ n - 1 = (o - 1) - (b + 1)
        /\ b + 1 <= o - 1 /\ o - 1 <= o
    BY <1>2, <1>3
  <2>2. s[n] = text[o]
    BY <1>3, <2>1
  <2>3. PICK p \in Nat, k \in Nat : p = o - 1 /\ k = n - 1
    BY <2>1
  <2>4. InnerSizes(text, b, p, quote) = g[k]
    BY <1>5, <2>1, <2>3
  <2>5. QED
    BY <2>2, <2>3, <2>4
<1>8. n > 1 <=> b + 2 < o
  BY <1>2
<1>9. ASSUME n > 1 PROVE s[n - 1] = text[o - 1] /\ InnerSizes(text, b, o - 2, quote) = g[n - 2]
  <2>1. n - 1 \in 1..n /\ b + 1 + (n - 1) = o - 1 /\ o - 2 \in Nat /\ n - 2 \in Nat
        /\ n - 2 = (o - 2) - (b + 1) /\ b + 1 <= o - 2 /\ o - 2 <= o
    BY <1>2, <1>9
  <2>2. s[n - 1] = text[o - 1]
    BY <1>3, <2>1
  <2>3. PICK p \in Nat, k \in Nat : p = o - 2 /\ k = n - 2
    BY <2>1
  <2>4. InnerSizes(text, b, p, quote) = g[k]
    BY <1>5, <2>1, <2>3
  <2>5. QED
    BY <2>2, <2>3, <2>4
<1>10. (IF s[n] \in Newlines \cup {quote, "backslash"} THEN {} ELSE g[n - 1])
           = (IF Plain(text[o], quote) THEN InnerSizes(text, b, o - 1, quote) ELSE {})
  BY <1>7 DEF Plain
<1>11. (IF n > 1 /\ s[n - 1] = "backslash" /\ s[n] \in EscapeCodes THEN g[n - 2] ELSE {})
           = (IF b + 2 < o /\ text[o - 1] = "backslash" /\ text[o] \in EscapeCodes
              THEN InnerSizes(text, b, o - 2, quote) ELSE {})
  <2>1. CASE n > 1
    <3>1. s[n - 1] = text[o - 1] /\ InnerSizes(text, b, o - 2, quote) = g[n - 2]
          /\ b + 2 < o /\ s[n] = text[o]
      BY <1>7, <1>8, <1>9, <2>1
    <3>2. QED
      BY ONLY <2>1, <3>1
  <2>2. CASE ~(n > 1)
    BY ONLY <1>8, <2>2
  <2>3. QED
    BY <2>1, <2>2
<1>12. InnerSizes(text, b, o, quote) = OneMore(s, quote, n, g)
  BY <1>1, <1>4, <1>6 DEF InnerSizes
<1>13. QED
  BY ONLY <1>10, <1>11, <1>12 DEF OneMore

\* What that says of whether there is any way to cut, and of how many elements.
LEMMA InnerCases ==
    ASSUME NEW text \in Seq(STRING), NEW b \in Nat, NEW o \in Nat, NEW quote,
           b + 1 < o, o <= Len(text)
    PROVE  /\ InnerSizes(text, b, o, quote) # {} =>
                  \/ Plain(text[o], quote) /\ InnerSizes(text, b, o - 1, quote) # {}
                  \/ /\ b + 2 < o /\ text[o - 1] = "backslash" /\ text[o] \in EscapeCodes
                     /\ InnerSizes(text, b, o - 2, quote) # {}
           /\ \A n \in Nat :
                  /\ Plain(text[o], quote)
                  /\ InnerSizes(text, b, o - 1, quote) = {n}
                  /\ ~(/\ b + 2 < o /\ text[o - 1] = "backslash"
                       /\ InnerSizes(text, b, o - 2, quote) # {})
                  => InnerSizes(text, b, o, quote) = {n + 1}
           /\ \A n \in Nat :
                  /\ b + 2 < o /\ text[o - 1] = "backslash" /\ text[o] \in EscapeCodes
                  /\ InnerSizes(text, b, o - 2, quote) = {n}
                  /\ InnerSizes(text, b, o - 1, quote) = {}
                  => InnerSizes(text, b, o, quote) = {n + 1}
<1>1. PICK A, B, C : /\ A = InnerSizes(text, b, o, quote)
                     /\ B = InnerSizes(text, b, o - 1, quote)
                     /\ C = InnerSizes(text, b, o - 2, quote)
  OBVIOUS
<1>2. A = {size + 1 : size \in
                   (IF Plain(text[o], quote) THEN B ELSE {})
                   \cup
                   (IF /\ b + 2 < o
                       /\ text[o - 1] = "backslash" /\ text[o] \in EscapeCodes
                    THEN C ELSE {})}
  BY <1>1, InnerNext
<1>3. A # {} => \/ Plain(text[o], quote) /\ B # {}
                \/ b + 2 < o /\ text[o - 1] = "backslash" /\ text[o] \in EscapeCodes /\ C # {}
  BY ONLY <1>2
<1>4. ASSUME NEW n \in Nat, Plain(text[o], quote), B = {n},
             ~(b + 2 < o /\ text[o - 1] = "backslash" /\ C # {})
      PROVE  A = {n + 1}
  BY ONLY <1>2, <1>4
<1>5. ASSUME NEW n \in Nat, b + 2 < o, text[o - 1] = "backslash", text[o] \in EscapeCodes,
             C = {n}, B = {}
      PROVE  A = {n + 1}
  BY ONLY <1>2, <1>5
<1>6. QED
  BY <1>1, <1>3, <1>4, <1>5

\* No escape begins with the second half of another.
LEMMA NoDoubleBackslash ==
    ASSUME NEW text \in Seq(STRING), NEW b \in Nat, NEW quote, NEW o \in Nat,
           b + 1 < o, o <= Len(text), text[o] = "backslash",
           InnerSizes(text, b, o - 1, quote) # {}
    PROVE  InnerSizes(text, b, o, quote) = {}
<1> DEFINE Fits(p) == InnerSizes(text, b, p, quote) # {}
           T == {n \in Nat : LET p == b + 2 + n
                             IN  p <= Len(text) /\ text[p] = "backslash" /\ Fits(p - 1) => ~Fits(p)}
<1>1. ASSUME NEW p \in Nat, b + 1 < p, p <= Len(text), text[p] = "backslash", Fits(p)
      PROVE  b + 2 < p /\ text[p - 1] = "backslash" /\ Fits(p - 2)
  <2>1. ~Plain(text[p], quote)
    BY <1>1 DEF Plain
  <2>2. QED
    BY <1>1, <2>1, InnerCases
<1> HIDE DEF Fits
<1>2. 0 \in T
  <2>1. ASSUME b + 2 <= Len(text), text[b + 2] = "backslash", Fits(b + 2) PROVE FALSE
    BY <1>1, <2>1
  <2>2. QED
    BY <2>1
<1>3. ASSUME NEW n \in Nat, n \in T PROVE n + 1 \in T
  <2>1. PICK p \in Nat : p = b + 2 + (n + 1)
    OBVIOUS
  <2>2. SUFFICES ASSUME p <= Len(text), text[p] = "backslash", Fits(p - 1), Fits(p) PROVE FALSE
    BY <2>1
  <2>3. text[p - 1] = "backslash" /\ Fits(p - 2)
    BY <1>1, <2>1, <2>2
  <2>4. p - 1 = b + 2 + n /\ (p - 1) - 1 = p - 2 /\ p - 1 <= Len(text)
    BY <2>1, <2>2
  <2>5. QED
    BY <1>3, <2>2, <2>3, <2>4
<1>4. Nat \subseteq T
  <2> HIDE DEF T
  <2>1. QED
    BY <1>2, <1>3, NatInd
<1>5. o - (b + 2) \in Nat /\ b + 2 + (o - (b + 2)) = o
  OBVIOUS
<1>6. Fits(o - 1) => ~Fits(o)
  BY <1>4, <1>5
<1>7. QED
  BY <1>6 DEF Fits

\* No element begins at o.
StuckAt(text, o, quote) ==
    o < Len(text) =>
        \/ text[o + 1] \in Newlines \cup {quote}
        \/ /\ text[o + 1] = "backslash"
           /\ o + 1 < Len(text) => text[o + 2] \notin EscapeCodes

\* Then what begins as a literal and can be cut up to o cannot be cut any further.
LEMMA NothingBehindStuck ==
    ASSUME NEW text \in Seq(STRING), NEW b \in Nat, NEW quote \in Quotes, NEW o \in Nat,
           b + 1 <= o, InnerSizes(text, b, o, quote) # {}, StuckAt(text, o, quote)
    PROVE  \A p \in (o + 1)..Len(text) : InnerSizes(text, b, p, quote) = {}
<1> DEFINE Fits(p) == InnerSizes(text, b, p, quote) # {}
           T == {n \in Nat : \A p \in (o + 1)..Len(text) : p <= o + n => ~Fits(p)}
<1>1. ASSUME NEW p \in (o + 1)..Len(text), Fits(p)
      PROVE  \/ Plain(text[p], quote) /\ Fits(p - 1)
             \/ /\ b + 2 < p /\ text[p - 1] = "backslash" /\ text[p] \in EscapeCodes
                /\ Fits(p - 2)
  <2>1. p \in Nat /\ b + 1 < p /\ p <= Len(text)
    OBVIOUS
  <2>2. QED
    BY <1>1, <2>1, InnerCases
<1>2. /\ Fits(o)
      /\ b + 1 < o /\ o <= Len(text) /\ text[o] = "backslash" => ~Fits(o - 1)
  <2>1. ASSUME b + 1 < o, o <= Len(text), text[o] = "backslash" PROVE ~Fits(o - 1)
    BY <2>1, NoDoubleBackslash
  <2>2. QED
    BY <2>1
<1> HIDE DEF Fits
<1>3. 0 \in T
  OBVIOUS
<1>4. ASSUME NEW n \in Nat, n \in T PROVE n + 1 \in T
  <2>1. SUFFICES ASSUME NEW p \in (o + 1)..Len(text), p = o + n + 1, Fits(p) PROVE FALSE
    <3>1. ASSUME NEW p \in (o + 1)..Len(text), p <= o + (n + 1), Fits(p) PROVE FALSE
      <4>1. p = o + n + 1 \/ p <= o + n
        BY <3>1
      <4>2. QED
        BY <1>4, <2>1, <3>1, <4>1
    <3>2. QED
      BY <3>1
  <2>2. p \in Nat /\ o < Len(text) /\ p <= Len(text)
    BY <2>1
  <2>3. CASE n = 0
    <3>1. p = o + 1 /\ p - 1 = o /\ p - 2 = o - 1
      BY <2>1, <2>3
    <3>2. ~Plain(text[p], quote)
      BY <2>2, <3>1 DEF StuckAt, Plain
    <3>3. b + 2 < p /\ text[p - 1] = "backslash" /\ Fits(p - 2)
      BY <1>1, <2>1, <3>2
    <3>4. QED
      BY <1>2, <3>1, <3>3
  <2>4. CASE n # 0
    <3>1. p - 1 \in (o + 1)..Len(text) /\ p - 1 <= o + n
      BY <2>1, <2>2, <2>4
    <3>2. ~Fits(p - 1)
      BY <1>4, <3>1
    <3>3. text[p - 1] = "backslash" /\ text[p] \in EscapeCodes /\ Fits(p - 2)
      BY <1>1, <2>1, <3>2
    <3>4. CASE n = 1
      <4>1. p - 1 = o + 1 /\ p = o + 2
        BY <2>1, <3>4
      <4>2. text[o + 1] = "backslash" /\ text[o + 2] \in EscapeCodes /\ o + 1 < Len(text)
        BY <2>2, <3>3, <4>1
      <4>3. text[o + 1] \in Newlines \cup {quote}
        BY <2>2, <4>2 DEF StuckAt
      <4>4. QED
        BY <4>2, <4>3 DEF Newlines, Quotes
    <3>5. CASE n # 1
      <4>1. p - 2 \in (o + 1)..Len(text) /\ p - 2 <= o + n
        BY <2>1, <2>2, <2>4, <3>5
      <4>2. QED
        BY <1>4, <3>3, <4>1
    <3>6. QED
      BY <3>4, <3>5
  <2>5. QED
    BY <2>3, <2>4
<1>5. Nat \subseteq T
  <2> HIDE DEF T
  <2>1. QED
    BY <1>3, <1>4, NatInd
<1>6. ASSUME NEW p \in (o + 1)..Len(text) PROVE ~Fits(p)
  <2>1. p - o \in Nat /\ p <= o + (p - o)
    BY <1>6
  <2>2. QED
    BY <1>5, <2>1
<1>7. QED
  BY <1>6 DEF Fits

-----------------------------------------------------------------------------
(* Spellings *)

LEMMA SpellingIs ==
    ASSUME NEW text \in Seq(STRING), NEW o \in Nat, NEW end \in (o + 1)..Len(text)
    PROVE  /\ Spelling(text, o, end) \in Seq(STRING)
           /\ Len(Spelling(text, o, end)) = end - o
           /\ DOMAIN Spelling(text, o, end) = 1..(end - o)
           /\ \A i \in 1..(end - o) : Spelling(text, o, end)[i] = text[o + i]
           /\ Spelling(text, o, end)[1] = text[o + 1]
           /\ Spelling(text, o, end) # <<>>
<1>1. PICK m \in Int : m = o + 1
  OBVIOUS
<1>2. PICK s : s = SubSeq(text, m, end)
  OBVIOUS
<1>3. /\ s \in Seq(STRING)
      /\ Len(s) = IF m <= end THEN end - m + 1 ELSE 0
      /\ \A i \in 1 .. end - m + 1 : s[i] = text[m + i - 1]
  <2>1. \A i \in m..end : text[i] \in STRING
    BY <1>1, LenProperties, ElementOfSeq
  <2>2. end \in Int
    OBVIOUS
  <2>3. QED
    BY <1>1, <1>2, <2>1, <2>2, SubSeqProperties
<1>4. Len(s) = end - o
  BY <1>1, <1>3
<1>5. ASSUME NEW i \in 1..(end - o) PROVE s[i] = text[o + i]
  <2>1. i \in 1 .. end - m + 1 /\ m + i - 1 = o + i
    BY <1>1
  <2>2. QED
    BY <1>3, <2>1
<1>6. DOMAIN s = 1..(end - o) /\ 1 \in 1..(end - o)
  BY <1>3, <1>4
<1>7. s # <<>>
  BY <1>4
<1>8. s = Spelling(text, o, end)
  BY <1>1, <1>2 DEF Spelling
<1>9. QED
  BY <1>3, <1>4, <1>5, <1>6, <1>7, <1>8

\* A quoted text is a literal if what is between the quotes is.
LEMMA LiteralIs ==
    ASSUME NEW text \in Seq(STRING), NEW o \in Nat, NEW end \in (o + 1)..Len(text), NEW quote
    PROVE  IsLiteral(Spelling(text, o, end), quote) <=>
               /\ o + 1 < end /\ text[o + 1] = quote /\ text[end] = quote
               /\ \E size \in InnerSizes(text, o, end - 1, quote) :
                    quote = "character" => size = 1 /\ Inner(text, o, end - 1) # <<"BYTE">>
<1>1. PICK s : s = Spelling(text, o, end)
  OBVIOUS
<1>2. /\ s \in Seq(STRING) /\ Len(s) = end - o
      /\ \A i \in 1..(end - o) : s[i] = text[o + i]
      /\ s[1] = text[o + 1]
  BY <1>1, SpellingIs
<1>3. s[Len(s)] = text[end]
  <2>1. end - o \in 1..(end - o) /\ o + (end - o) = end
    OBVIOUS
  <2>2. QED
    BY <1>2, <2>1
<1>4. Len(s) > 1 <=> o + 1 < end
  BY <1>2
<1>5. ASSUME o + 1 < end PROVE SubSeq(s, 2, Len(s) - 1) = Inner(text, o, end - 1)
  <2>1. PICK p \in Nat : p = end - 1
    BY <1>5
  <2>2. PICK t : t = Inner(text, o, p)
    OBVIOUS
  <2>3. o + 1 <= p /\ p <= Len(text)
    BY <1>5, <2>1
  <2>4. /\ t \in Seq(STRING) /\ Len(t) = p - (o + 1)
        /\ \A i \in 1..(p - (o + 1)) : t[i] = text[o + 1 + i]
    BY ONLY <2>2, <2>3, InnerIs, text \in Seq(STRING), o \in Nat, p \in Nat
  <2>5. PICK n \in Int : n = Len(s) - 1
    BY <1>2
  <2>6. PICK u : u = SubSeq(s, 2, n)
    OBVIOUS
  <2>7. /\ u \in Seq(STRING)
        /\ Len(u) = IF 2 <= n THEN n - 2 + 1 ELSE 0
        /\ \A i \in 1 .. n - 2 + 1 : u[i] = s[2 + i - 1]
    <3>1. \A i \in 2..n : s[i] \in STRING
      BY <1>2, <2>5, LenProperties, ElementOfSeq
    <3>2. QED
      BY <2>6, <3>1, SubSeqProperties
  <2>8. n = p - o
    BY <1>2, <2>1, <2>5
  <2>9. Len(u) = p - (o + 1) /\ Len(u) = Len(t)
    BY <2>3, <2>4, <2>7, <2>8
  <2>10. ASSUME NEW i \in 1..Len(u) PROVE u[i] = t[i]
    <3>1. i \in 1 .. n - 2 + 1 /\ 2 + i - 1 = i + 1 /\ i + 1 \in 1..(end - o)
          /\ o + (i + 1) = o + 1 + i /\ i \in 1..(p - (o + 1))
      BY <2>1, <2>8, <2>9
    <3>2. u[i] = s[i + 1]
      BY <2>7, <3>1
    <3>3. s[i + 1] = text[o + 1 + i]
      BY <1>2, <3>1
    <3>4. t[i] = text[o + 1 + i]
      BY <2>4, <3>1
    <3>5. QED
      BY <3>2, <3>3, <3>4
  <2>11. u = t
    BY <2>4, <2>7, <2>9, <2>10, SeqEqual
  <2>12. QED
    BY <2>1, <2>2, <2>5, <2>6, <2>11
<1>6. QED
  <2>1. CASE o + 1 < end
    <3>1. PICK u : u = SubSeq(s, 2, Len(s) - 1) /\ u = Inner(text, o, end - 1)
      BY <1>5, <2>1
    <3>2. IsLiteral(s, quote) <=>
              /\ Len(s) > 1 /\ s[1] = quote /\ s[Len(s)] = quote
              /\ \E size \in Sizes(u, quote) : quote = "character" => size = 1 /\ u # <<"BYTE">>
      BY <3>1, Zenon DEF IsLiteral
    <3>3. Sizes(u, quote) = InnerSizes(text, o, end - 1, quote)
      BY <3>1 DEF InnerSizes
    <3>4. QED
      BY ONLY <1>1, <1>2, <1>3, <1>4, <2>1, <3>1, <3>2, <3>3
  <2>2. CASE ~(o + 1 < end)
    <3>1. ~(Len(s) > 1)
      BY <1>4, <2>2
    <3>2. ~IsLiteral(s, quote)
      BY <3>1 DEF IsLiteral
    <3>3. QED
      BY <1>1, <2>2, <3>2
  <2>3. QED
    BY <2>1, <2>2

\* A literal that can be cut up to a place where no element begins ends there or never.
LEMMA EndsWhereStuck ==
    ASSUME NEW text \in Seq(STRING), NEW b \in Nat, NEW quote \in Quotes, NEW p \in Nat,
           b + 1 <= p, p <= Len(text), InnerSizes(text, b, p, quote) # {}, StuckAt(text, p, quote),
           NEW end \in (b + 1)..Len(text), IsLiteral(Spelling(text, b, end), quote)
    PROVE  end = p + 1 /\ text[p + 1] = quote
<1>1. /\ b + 1 < end /\ text[end] = quote
      /\ InnerSizes(text, b, end - 1, quote) # {}
  BY LiteralIs
<1>2. ~(p < end - 1)
  <2> SUFFICES ASSUME p < end - 1 PROVE FALSE
    OBVIOUS
  <2>1. end - 1 \in (p + 1)..Len(text)
    OBVIOUS
  <2>2. QED
    BY <1>1, <2>1, NothingBehindStuck
<1>3. ~(end - 1 < p)
  <2> SUFFICES ASSUME end - 1 < p PROVE FALSE
    OBVIOUS
  <2>1. PICK q \in Nat : q = end - 1
    BY <1>1
  <2>2. q + 1 = end /\ b + 1 <= q /\ InnerSizes(text, b, q, quote) # {}
    BY <1>1, <2>1
  <2>3. StuckAt(text, q, quote)
    BY <1>1, <2>2 DEF StuckAt
  <2>4. CASE p <= Len(text)
    <3>1. p \in (q + 1)..Len(text)
      BY <2>1, <2>4
    <3>2. QED
      BY <2>2, <2>3, <3>1, NothingBehindStuck
  <2>5. QED
    BY <2>4
<1>4. QED
  BY <1>1, <1>2, <1>3

-----------------------------------------------------------------------------
(* Kinds *)

\* The first character decides which of the cases of KindOf() is left.
LEMMA FirstCharacter ==
    ASSUME NEW s \in Seq(STRING), s # <<>>
    PROVE  /\ s \in ReservedWords => s[1] \in Letters
           /\ s \in Operators => s[1] \in {"(", ".", "=", "/", "&"}
           /\ Made(s, Digits) => s[1] \in Digits
           /\ \A quote : IsLiteral(s, quote) => s[1] = quote
<1>1. Len(s) \in Nat /\ Len(s) >= 1 /\ DOMAIN s = 1..Len(s) /\ 1 \in DOMAIN s
  BY EmptySeq, LenProperties
<1>2. s \in ReservedWords => s[1] \in Letters
  <2> SUFFICES ASSUME s \in ReservedWords PROVE s[1] \in Letters
    OBVIOUS
  <2>1. s \in Seq(Letters)
    BY ReservedWordsAssumption
  <2>2. QED
    BY <1>1, <2>1, ElementOfSeq
<1>3. s \in Operators => s[1] \in {"(", ".", "=", "/", "&"}
  BY DEF Operators
<1>4. Made(s, Digits) => s[1] \in Digits
  BY <1>1 DEF Made
<1>5. \A quote : IsLiteral(s, quote) => s[1] = quote
  BY DEF IsLiteral
<1>6. QED
  BY <1>2, <1>3, <1>4, <1>5

LEMMA CharacterClasses ==
    /\ \A c \in Letters : c \notin Digits \cup Quotes \cup {"(", ".", "=", "/", "&"} \cup Whitespace
    /\ \A c \in Digits : c \notin Letters \cup Quotes \cup {"(", ".", "=", "/", "&"} \cup Whitespace
    /\ \A c \in Quotes : c \notin Letters \cup Digits \cup {"(", ".", "=", "/", "&"} \cup Whitespace
    /\ \A c \in {"(", ".", "=", "/", "&"} : c \notin Letters \cup Digits \cup Quotes \cup Whitespace
    /\ {"string", "character"} = Quotes /\ "string" # "character"
BY DEF Letters, Digits, Quotes, Whitespace, Newlines

LEMMA NoneIsNoKind ==
    /\ <<"identifier">> # NotALexeme /\ <<"integer">> # NotALexeme
    /\ <<"string">> # NotALexeme /\ <<"character">> # NotALexeme
    /\ \A s \in ReservedWords \cup Operators : s # NotALexeme
<1>1. NotALexeme[1] = "none"
  BY DEF NotALexeme
<1>2. /\ <<"identifier">>[1] = "identifier" /\ <<"integer">>[1] = "integer"
      /\ <<"string">>[1] = "string" /\ <<"character">>[1] = "character"
  OBVIOUS
<1>3. \A s \in ReservedWords : s[1] \in Letters
  <2> SUFFICES ASSUME NEW s \in ReservedWords PROVE s[1] \in Letters
    OBVIOUS
  <2>1. s \in Seq(Letters) /\ s # <<>>
    BY ReservedWordsAssumption
  <2>2. 1 \in 1..Len(s)
    BY <2>1, EmptySeq
  <2>3. QED
    BY <2>1, <2>2, ElementOfSeq
<1>4. \A s \in Operators : s[1] \in {"(", ".", "=", "/", "&"}
  BY DEF Operators
<1>5. QED
  BY <1>1, <1>2, <1>3, <1>4 DEF Letters

LEMMA KindOfWord ==
    ASSUME NEW s \in Seq(STRING), s # <<>>, s[1] \in Letters
    PROVE  KindOf(s) = IF s \in ReservedWords THEN s
                       ELSE IF Made(s, Letters \cup Digits) THEN <<"identifier">> ELSE NotALexeme
<1>1. /\ s \notin Operators /\ ~Made(s, Digits)
      /\ ~IsLiteral(s, "string") /\ ~IsLiteral(s, "character")
  BY FirstCharacter, CharacterClasses
<1>2. CASE s \in ReservedWords
  <2>1. KindOf(s) = s
    BY <1>1, <1>2 DEF KindOf
  <2>2. QED
    BY <1>2, <2>1
<1>3. CASE s \notin ReservedWords /\ Made(s, Letters \cup Digits)
  <2>1. KindOf(s) = <<"identifier">>
    BY <1>1, <1>3 DEF KindOf
  <2>2. QED
    BY <1>3, <2>1
<1>4. CASE s \notin ReservedWords /\ ~Made(s, Letters \cup Digits)
  <2>1. KindOf(s) = NotALexeme
    BY <1>1, <1>4 DEF KindOf
  <2>2. QED
    BY <1>4, <2>1
<1>5. QED
  BY <1>2, <1>3, <1>4

LEMMA KindOfNumber ==
    ASSUME NEW s \in Seq(STRING), s # <<>>, s[1] \in Digits
    PROVE  KindOf(s) = IF Made(s, Digits) THEN <<"integer">> ELSE NotALexeme
<1>1. /\ s \notin Operators /\ s \notin ReservedWords /\ s[1] \notin Letters
      /\ ~IsLiteral(s, "string") /\ ~IsLiteral(s, "character")
  BY FirstCharacter, CharacterClasses
<1>2. CASE Made(s, Digits)
  BY <1>1, <1>2 DEF KindOf
<1>3. CASE ~Made(s, Digits)
  BY <1>1, <1>3 DEF KindOf
<1>4. QED
  BY <1>2, <1>3

LEMMA KindOfQuoted ==
    ASSUME NEW s \in Seq(STRING), s # <<>>, s[1] \in Quotes
    PROVE  KindOf(s) = IF IsLiteral(s, s[1]) THEN <<s[1]>> ELSE NotALexeme
<1>1. /\ s \notin Operators /\ s \notin ReservedWords /\ s[1] \notin Letters /\ ~Made(s, Digits)
      /\ s[1] \in {"string", "character"}
      /\ \A quote : IsLiteral(s, quote) => s[1] = quote
  BY FirstCharacter, CharacterClasses
<1>2. CASE s[1] = "string"
  <2>1. ~IsLiteral(s, "character")
    BY <1>1, <1>2
  <2>2. CASE IsLiteral(s, "string")
    BY <1>1, <1>2, <2>1, <2>2 DEF KindOf
  <2>3. CASE ~IsLiteral(s, "string")
    BY <1>1, <1>2, <2>1, <2>3 DEF KindOf
  <2>4. QED
    BY <2>2, <2>3
<1>3. CASE s[1] = "character"
  <2>1. ~IsLiteral(s, "string")
    BY <1>1, <1>3
  <2>2. CASE IsLiteral(s, "character")
    BY <1>1, <1>3, <2>1, <2>2 DEF KindOf
  <2>3. CASE ~IsLiteral(s, "character")
    BY <1>1, <1>3, <2>1, <2>3 DEF KindOf
  <2>4. QED
    BY <2>2, <2>3
<1>4. QED
  BY <1>1, <1>2, <1>3

LEMMA KindOfOperator ==
    ASSUME NEW s \in Seq(STRING), s # <<>>, s[1] \notin Letters \cup Digits \cup Quotes
    PROVE  KindOf(s) = IF s \in Operators THEN s ELSE NotALexeme
<1>1. /\ s \notin ReservedWords /\ ~Made(s, Digits)
      /\ ~IsLiteral(s, "string") /\ ~IsLiteral(s, "character")
  BY FirstCharacter, CharacterClasses
<1>2. CASE s \in Operators
  BY <1>1, <1>2 DEF KindOf
<1>3. CASE s \notin Operators
  BY <1>1, <1>3 DEF KindOf
<1>4. QED
  BY <1>2, <1>3

-----------------------------------------------------------------------------
(* The text, cut *)

EndsLine(text, o, e) ==
    /\ e \in o..Len(text)
    /\ e = Len(text) \/ StartsWith(text, e, Newlines)
    /\ \A i \in o..(e - 1) : ~StartsWith(text, i, Newlines)

\* A line has one end.
LEMMA LineEndIs ==
    ASSUME NEW text \in Seq(STRING), NEW o \in 0..Len(text)
    PROVE  /\ EndsLine(text, o, LineEnd(text, o))
           /\ \A e : EndsLine(text, o, e) => e = LineEnd(text, o)
<1> DEFINE S == {e \in o..Len(text) : e = Len(text) \/ StartsWith(text, e, Newlines)}
<1>1. Len(text) \in Nat /\ o \in Nat
  BY LenProperties
<1>2. S \in SUBSET Nat /\ S # {}
  BY <1>1
<1>3. PICK e \in S : \A f \in S : e <= f
  BY <1>2, LeastExists
<1>4. ASSUME NEW i \in o..(e - 1), StartsWith(text, i, Newlines) PROVE FALSE
  <2>1. i \in S /\ i < e
    BY <1>1, <1>3, <1>4
  <2>2. QED
    BY <1>2, <1>3, <2>1
<1>5. EndsLine(text, o, e)
  BY <1>3, <1>4 DEF EndsLine
<1>6. ASSUME NEW d, NEW f, EndsLine(text, o, d), EndsLine(text, o, f), d < f PROVE FALSE
  <2>1. d \in o..(f - 1) /\ d # Len(text)
    BY <1>1, <1>6 DEF EndsLine
  <2>2. QED
    BY <1>6, <2>1 DEF EndsLine
<1>7. ASSUME NEW d, NEW f, EndsLine(text, o, d), EndsLine(text, o, f) PROVE d = f
  <2>1. d \in Nat /\ f \in Nat
    BY <1>1, <1>7 DEF EndsLine
  <2>2. ~(d < f) /\ ~(f < d)
    BY <1>6, <1>7
  <2>3. QED
    BY <2>1, <2>2
<1>8. LineEnd(text, o) = CHOOSE f \in o..Len(text) : EndsLine(text, o, f)
  <2>1. LineEnd(text, o) = CHOOSE f \in o..Len(text) :
            /\ f = Len(text) \/ StartsWith(text, f, Newlines)
            /\ \A i \in o..(f - 1) : ~StartsWith(text, i, Newlines)
    BY DEF LineEnd
  <2>2. \A f \in o..Len(text) : EndsLine(text, o, f) <=>
            /\ f = Len(text) \/ StartsWith(text, f, Newlines)
            /\ \A i \in o..(f - 1) : ~StartsWith(text, i, Newlines)
    BY DEF EndsLine
  <2>3. QED
    BY ONLY <2>1, <2>2
<1>9. e \in o..Len(text)
  BY <1>5 DEF EndsLine
<1>10. EndsLine(text, o, LineEnd(text, o))
  BY ONLY <1>5, <1>8, <1>9
<1>11. QED
  BY <1>7, <1>10

LEMMA SkipsForward ==
    ASSUME NEW text \in Seq(STRING), NEW o \in Nat, o < Len(text), SkipBlank(text, o) # o
    PROVE  SkipBlank(text, o) \in (o + 1)..Len(text)
<1>1. Len(text) \in Nat
  BY LenProperties
<1>2. CASE StartsWith(text, o, Whitespace)
  BY <1>1, <1>2 DEF SkipBlank
<1>3. CASE ~StartsWith(text, o, Whitespace)
  <2>1. StartsWith(text, o + 1, {"/"}) /\ SkipBlank(text, o) = LineEnd(text, o + 2)
    BY <1>3 DEF SkipBlank
  <2>2. o + 2 \in 0..Len(text)
    BY <1>1, <2>1 DEF StartsWith
  <2>3. EndsLine(text, o + 2, LineEnd(text, o + 2))
    BY <2>2, LineEndIs
  <2>4. QED
    BY <1>1, <2>1, <2>3 DEF EndsLine
<1>4. QED
  BY <1>2, <1>3

LEMMA LongestIs ==
    ASSUME NEW text \in Seq(STRING), NEW o \in Nat
    PROVE  /\ Lexemes(text, o) # {} =>
                  /\ Longest(text, o) \in Lexemes(text, o)
                  /\ Longest(text, o) \in (o + 1)..Len(text)
           /\ \A end \in Lexemes(text, o) :
                  (\A e \in Lexemes(text, o) : e <= end) => Longest(text, o) = end
<1>1. PICK S : S = Lexemes(text, o)
  OBVIOUS
<1>2. Longest(text, o) = CHOOSE end \in S : \A e \in S : e <= end
  BY <1>1 DEF Longest
<1>3. Len(text) \in Nat
  BY LenProperties
<1>4. S \in SUBSET ((o + 1)..Len(text))
  BY <1>1 DEF Lexemes
<1>5. S \in SUBSET Nat /\ \A s \in S : s <= Len(text)
  BY <1>3, <1>4
<1>6. ASSUME S # {} PROVE Longest(text, o) \in S
  <2>1. \E g \in S : \A s \in S : s <= g
    BY <1>3, <1>5, <1>6, GreatestExists
  <2>2. QED
    BY ONLY <1>2, <2>1
<1>7. ASSUME NEW end \in S, \A e \in S : e <= end PROVE Longest(text, o) = end
  <2>1. \A d \in S : (\A e \in S : e <= d) => d = end
    <3>1. ASSUME NEW d \in S, \A e \in S : e <= d PROVE d = end
      <4>1. d <= end /\ end <= d /\ d \in Nat /\ end \in Nat
        BY <1>5, <1>7, <3>1
      <4>2. QED
        BY <4>1
    <3>2. QED
      BY <3>1
  <2>2. QED
    BY ONLY <1>2, <1>7, <2>1
<1>8. QED
  BY <1>1, <1>4, <1>6, <1>7

\* How the text is cut from o on, if it is cut as g says from each later place.
CutFrom(text, o, g) ==
    IF o = Len(text) THEN [tokens |-> <<Token(EndKind, o, o)>>, stop |-> o]
    ELSE IF SkipBlank(text, o) # o THEN g[SkipBlank(text, o)]
    ELSE IF Lexemes(text, o) = {} THEN [tokens |-> <<>>, stop |-> o]
    ELSE [tokens |-> <<Lexeme(text, o)>> \o g[Longest(text, o)].tokens,
          stop |-> g[Longest(text, o)].stop]

CutBehind(text, m, g) == g = [o \in m..Len(text) |-> CutFrom(text, o, g)]

LEMMA CutFromAgrees ==
    ASSUME NEW text \in Seq(STRING), NEW o \in 0..Len(text), NEW g, NEW h,
           \A p \in (o + 1)..Len(text) : g[p] = h[p]
    PROVE  CutFrom(text, o, g) = CutFrom(text, o, h)
<1>1. o \in Nat /\ Len(text) \in Nat
  BY LenProperties
<1>2. CASE o = Len(text)
  BY <1>2 DEF CutFrom
<1>3. CASE o # Len(text) /\ SkipBlank(text, o) # o
  <2>1. SkipBlank(text, o) \in (o + 1)..Len(text)
    BY <1>1, <1>3, SkipsForward
  <2>2. g[SkipBlank(text, o)] = h[SkipBlank(text, o)]
    BY <2>1
  <2>3. QED
    BY ONLY <1>3, <2>2 DEF CutFrom
<1>4. CASE o # Len(text) /\ SkipBlank(text, o) = o /\ Lexemes(text, o) = {}
  BY <1>4 DEF CutFrom
<1>5. CASE o # Len(text) /\ SkipBlank(text, o) = o /\ Lexemes(text, o) # {}
  <2>1. Longest(text, o) \in (o + 1)..Len(text)
    BY <1>1, <1>5, LongestIs
  <2>2. g[Longest(text, o)] = h[Longest(text, o)]
    BY <2>1
  <2>3. QED
    BY ONLY <1>5, <2>2, Zenon DEF CutFrom
<1>6. QED
  BY <1>2, <1>3, <1>4, <1>5

LEMMA CutExists ==
    ASSUME NEW text \in Seq(STRING)
    PROVE  \E g : CutBehind(text, 0, g)
<1> DEFINE T == {n \in Nat : n <= Len(text) => \E g : CutBehind(text, Len(text) - n, g)}
<1>1. Len(text) \in Nat
  BY LenProperties
<1>2. ASSUME NEW m \in 0..Len(text), NEW g, \A p \in (m + 1)..Len(text) : g[p] = CutFrom(text, p, g)
      PROVE  \E h : CutBehind(text, m, h)
  <2>1. PICK h : h = [o \in m..Len(text) |-> IF o = m THEN CutFrom(text, o, g) ELSE g[o]]
    OBVIOUS
  <2>2. \A p \in (m + 1)..Len(text) : h[p] = g[p]
    BY <1>1, <2>1
  <2>3. ASSUME NEW o \in m..Len(text) PROVE h[o] = CutFrom(text, o, h)
    <3>1. o \in 0..Len(text) /\ \A p \in (o + 1)..Len(text) : p \in (m + 1)..Len(text)
      BY <1>1
    <3>2. \A p \in (o + 1)..Len(text) : g[p] = h[p]
      BY <2>2, <3>1
    <3>3. CutFrom(text, o, g) = CutFrom(text, o, h)
      BY <3>1, <3>2, CutFromAgrees
    <3>4. h[o] = CutFrom(text, o, g)
      <4>1. CASE o = m
        BY <2>1, <4>1
      <4>2. CASE o # m
        <5>1. o \in (m + 1)..Len(text)
          BY <1>1, <4>2
        <5>2. QED
          BY <1>2, <2>2, <5>1
      <4>3. QED
        BY <4>1, <4>2
    <3>5. QED
      BY <3>3, <3>4
  <2>4. h = [o \in m..Len(text) |-> CutFrom(text, o, h)]
    BY <2>1, <2>3
  <2>5. QED
    BY <2>4 DEF CutBehind
<1>3. 0 \in T
  <2>1. PICK m : m = Len(text) - 0
    OBVIOUS
  <2>2. m \in 0..Len(text) /\ (m + 1)..Len(text) = {}
    BY <1>1, <2>1
  <2>3. PICK g : g = [o \in {} |-> 0]
    OBVIOUS
  <2>4. \A p \in (m + 1)..Len(text) : g[p] = CutFrom(text, p, g)
    BY <2>2
  <2>5. QED
    BY <1>2, <2>1, <2>2, <2>4
<1>4. ASSUME NEW n \in Nat, n \in T PROVE n + 1 \in T
  <2>1. SUFFICES ASSUME n + 1 <= Len(text) PROVE \E h : CutBehind(text, Len(text) - (n + 1), h)
    OBVIOUS
  <2>2. PICK m, k : m = Len(text) - (n + 1) /\ k = Len(text) - n
    OBVIOUS
  <2>3. PICK g : CutBehind(text, k, g)
    BY <1>1, <1>4, <2>1, <2>2
  <2>4. m \in 0..Len(text) /\ m + 1 = k
    BY <1>1, <2>1, <2>2
  <2>5. \A p \in (m + 1)..Len(text) : g[p] = CutFrom(text, p, g)
    BY ONLY <2>3, <2>4 DEF CutBehind
  <2>6. \E h : CutBehind(text, m, h)
    BY <1>2, <2>4, <2>5
  <2>7. QED
    BY <2>2, <2>6
<1>5. Nat \subseteq T
  <2> HIDE DEF T
  <2>1. QED
    BY <1>3, <1>4, NatInd
<1>6. Len(text) \in T /\ Len(text) - Len(text) = 0
  BY <1>1, <1>5
<1>7. QED
  BY <1>1, <1>6

\* Cuts(), unfolded.
LEMMA CutsUnfold ==
    ASSUME NEW text \in Seq(STRING)
    PROVE  \A o \in 0..Len(text) : Cuts(text)[o] = CutFrom(text, o, Cuts(text))
<1>1. PICK g : g = CHOOSE h : CutBehind(text, 0, h)
  OBVIOUS
<1>2. CutBehind(text, 0, g)
  BY <1>1, CutExists
<1>3. Cuts(text) = g
  BY <1>1, Zenon DEF Cuts, CutBehind, CutFrom
<1>4. ASSUME NEW o \in 0..Len(text) PROVE g[o] = CutFrom(text, o, g)
  BY ONLY <1>2, <1>4 DEF CutBehind
<1>5. QED
  BY <1>3, <1>4

LEMMA KindIsOne == ASSUME NEW s PROVE KindOf(s) \in Kinds \cup {NotALexeme}
<1>1. CASE s \in ReservedWords \cup Operators
  BY <1>1 DEF KindOf, Kinds
<1>2. CASE s \notin ReservedWords \cup Operators
  <2>1. KindOf(s) \in {<<"identifier">>, <<"integer">>, <<"string">>, <<"character">>, NotALexeme}
    BY <1>2, Zenon DEF KindOf
  <2>2. QED
    BY <2>1 DEF Kinds
<1>3. QED
  BY <1>1, <1>2

LEMMA LexemeIsToken ==
    ASSUME NEW text \in Seq(STRING), NEW o \in Nat, Lexemes(text, o) # {}
    PROVE  Lexeme(text, o) \in Tokens
<1>1. /\ Longest(text, o) \in Lexemes(text, o)
      /\ Longest(text, o) \in Nat
  BY LongestIs
<1>2. KindOf(Spelling(text, o, Longest(text, o))) \in Kinds
  <2>1. KindOf(Spelling(text, o, Longest(text, o))) # NotALexeme
    BY <1>1 DEF Lexemes
  <2>2. QED
    BY <2>1, KindIsOne
<1>3. QED
  BY <1>1, <1>2 DEF Lexeme, Token, Tokens

CutOk(text, o, c) == c.tokens \in Seq(Tokens) /\ c.stop \in Nat /\ o <= c.stop /\ c.stop <= Len(text)

LEMMA CutsType ==
    ASSUME NEW text \in Seq(STRING)
    PROVE  \A o \in 0..Len(text) : CutOk(text, o, Cuts(text)[o])
<1>1. PICK g : g = Cuts(text)
  OBVIOUS
<1> DEFINE T == {n \in Nat : \A o \in 0..Len(text) : Len(text) - o <= n => CutOk(text, o, g[o])}
<1>2. Len(text) \in Nat
  BY LenProperties
<1>3. \A o \in 0..Len(text) : g[o] = CutFrom(text, o, g)
  BY <1>1, CutsUnfold
<1>4. CutOk(text, Len(text), g[Len(text)])
  <2>1. g[Len(text)] = [tokens |-> <<Token(EndKind, Len(text), Len(text))>>, stop |-> Len(text)]
    <3>1. PICK l : l = Len(text)
      OBVIOUS
    <3>2. g[l] = CutFrom(text, l, g)
      BY <1>2, <1>3, <3>1
    <3>3. QED
      BY ONLY <3>1, <3>2 DEF CutFrom
  <2>2. Token(EndKind, Len(text), Len(text)) \in Tokens
    BY <1>2 DEF Token, Tokens, Kinds
  <2>3. <<Token(EndKind, Len(text), Len(text))>> \in Seq(Tokens)
    BY <2>2
  <2>4. QED
    BY <1>2, <2>1, <2>3 DEF CutOk
<1>5. 0 \in T
  <2>1. \A o \in 0..Len(text) : Len(text) - o <= 0 => o = Len(text)
    BY <1>2
  <2>2. QED
    BY <1>4, <2>1
<1>6. ASSUME NEW n \in Nat, n \in T PROVE n + 1 \in T
  <2>1. SUFFICES ASSUME NEW o \in 0..Len(text), Len(text) - o <= n + 1, o # Len(text)
                 PROVE  CutOk(text, o, g[o])
    BY <1>4
  <2>2. o \in Nat /\ o < Len(text)
    BY <1>2, <2>1
  <2>3. ASSUME NEW p \in (o + 1)..Len(text)
        PROVE  /\ g[p].tokens \in Seq(Tokens) /\ g[p].stop \in Nat
               /\ o <= g[p].stop /\ g[p].stop <= Len(text)
    <3>1. p \in 0..Len(text) /\ Len(text) - p <= n /\ o <= p
      BY <1>2, <2>1, <2>2
    <3>2. CutOk(text, p, g[p])
      BY <1>6, <3>1
    <3>3. QED
      BY <2>2, <3>1, <3>2 DEF CutOk
  <2> SUFFICES ASSUME g[o] = CutFrom(text, o, g), o # Len(text) PROVE CutOk(text, o, g[o])
    BY <1>3, <2>1
  <2>4. CASE SkipBlank(text, o) # o
    <3>1. SkipBlank(text, o) \in (o + 1)..Len(text)
      BY <2>2, <2>4, SkipsForward
    <3>2. g[o] = g[SkipBlank(text, o)]
      BY ONLY g[o] = CutFrom(text, o, g), o # Len(text), <2>4 DEF CutFrom
    <3>3. QED
      BY <2>3, <3>1, <3>2 DEF CutOk
  <2>5. CASE SkipBlank(text, o) = o /\ Lexemes(text, o) = {}
    <3>1. g[o] = [tokens |-> <<>>, stop |-> o]
      BY ONLY g[o] = CutFrom(text, o, g), o # Len(text), <2>5 DEF CutFrom
    <3>2. QED
      BY <2>2, <3>1 DEF CutOk
  <2>6. CASE SkipBlank(text, o) = o /\ Lexemes(text, o) # {}
    <3>1. PICK end \in (o + 1)..Len(text) : end = Longest(text, o)
      BY <2>2, <2>6, LongestIs
    <3>2. g[o] = [tokens |-> <<Lexeme(text, o)>> \o g[end].tokens, stop |-> g[end].stop]
      BY ONLY g[o] = CutFrom(text, o, g), o # Len(text), <2>6, <3>1 DEF CutFrom
    <3>3. PICK t \in Tokens : t = Lexeme(text, o)
      BY <2>2, <2>6, LexemeIsToken
    <3>4. <<t>> \in Seq(Tokens)
      OBVIOUS
    <3>5. <<t>> \o g[end].tokens \in Seq(Tokens)
      BY <2>3, <3>4, ConcatProperties
    <3>6. QED
      BY <2>3, <3>2, <3>3, <3>5 DEF CutOk
  <2>7. QED
    BY <2>4, <2>5, <2>6
<1>7. Nat \subseteq T
  <2> HIDE DEF T
  <2>1. QED
    BY <1>5, <1>6, NatInd
<1>8. ASSUME NEW o \in 0..Len(text) PROVE CutOk(text, o, g[o])
  <2>1. PICK n \in Nat : n = Len(text) - o
    BY <1>2
  <2>2. n \in T
    BY <1>7
  <2>3. Len(text) - o <= n
    BY <2>1
  <2>4. QED
    BY <2>2, <2>3
<1>9. QED
  BY <1>1, <1>8

\* kind is that of the longest lexeme that starts at o, and it ends at end.
LexemeAt(text, o, end, kind) ==
    /\ end \in (o + 1)..Len(text) /\ SkipBlank(text, o) = o
    /\ KindOf(Spelling(text, o, end)) = kind /\ kind # NotALexeme
    /\ \A e \in (end + 1)..Len(text) : KindOf(Spelling(text, o, e)) = NotALexeme

NoLexemeAt(text, o) ==
    /\ o < Len(text) /\ SkipBlank(text, o) = o
    /\ \A e \in (o + 1)..Len(text) : KindOf(Spelling(text, o, e)) = NotALexeme

LEMMA CutAtEnd ==
    ASSUME NEW text \in Seq(STRING), NEW o \in Nat, o = Len(text)
    PROVE  Cuts(text)[o].tokens = <<Token(EndKind, o, o)>> /\ Cuts(text)[o].stop = o
<1>1. o \in 0..Len(text)
  OBVIOUS
<1>2. Cuts(text)[o] = [tokens |-> <<Token(EndKind, o, o)>>, stop |-> o]
  BY <1>1, CutsUnfold DEF CutFrom
<1>3. QED
  BY <1>2

LEMMA CutAtBlank ==
    ASSUME NEW text \in Seq(STRING), NEW o \in Nat, o < Len(text), SkipBlank(text, o) # o
    PROVE  Cuts(text)[o] = Cuts(text)[SkipBlank(text, o)]
<1>1. o \in 0..Len(text) /\ o # Len(text)
  BY LenProperties
<1>2. QED
  BY <1>1, CutsUnfold DEF CutFrom

LEMMA CutAtNothing ==
    ASSUME NEW text \in Seq(STRING), NEW o \in Nat, NoLexemeAt(text, o)
    PROVE  Cuts(text)[o].tokens = <<>> /\ Cuts(text)[o].stop = o
<1>1. o \in 0..Len(text) /\ o # Len(text) /\ SkipBlank(text, o) = o
  BY LenProperties DEF NoLexemeAt
<1>2. Lexemes(text, o) = {}
  BY DEF NoLexemeAt, Lexemes
<1>3. Cuts(text)[o] = [tokens |-> <<>>, stop |-> o]
  BY <1>1, <1>2, CutsUnfold DEF CutFrom
<1>4. QED
  BY <1>3

LEMMA CutAtLexeme ==
    ASSUME NEW text \in Seq(STRING), NEW o \in Nat, NEW end, NEW kind,
           LexemeAt(text, o, end, kind)
    PROVE  /\ Cuts(text)[o].tokens = <<Token(kind, o, end)>> \o Cuts(text)[end].tokens
           /\ Cuts(text)[o].stop = Cuts(text)[end].stop
           /\ Token(kind, o, end) \in Tokens
<1>1. /\ o \in 0..Len(text) /\ o # Len(text) /\ SkipBlank(text, o) = o
      /\ end \in Nat /\ Len(text) \in Nat /\ end \in (o + 1)..Len(text)
  BY LenProperties DEF LexemeAt
<1>2. end \in Lexemes(text, o)
  BY <1>1 DEF LexemeAt, Lexemes
<1>3. \A e \in Lexemes(text, o) : e <= end
  <2> SUFFICES ASSUME NEW e \in Lexemes(text, o), ~(e <= end) PROVE FALSE
    OBVIOUS
  <2>1. e \in (o + 1)..Len(text) /\ KindOf(Spelling(text, o, e)) # NotALexeme
    BY DEF Lexemes
  <2>2. e \in (end + 1)..Len(text)
    BY <1>1, <2>1
  <2>3. QED
    BY <2>1, <2>2 DEF LexemeAt
<1>4. Longest(text, o) = end
  BY <1>2, <1>3, LongestIs
<1>5. Lexeme(text, o) = Token(kind, o, end)
  BY <1>4 DEF Lexeme, LexemeAt
<1>6. Lexemes(text, o) # {}
  BY <1>2
<1>7. Cuts(text)[o] = [tokens |-> <<Lexeme(text, o)>> \o Cuts(text)[Longest(text, o)].tokens,
                       stop |-> Cuts(text)[Longest(text, o)].stop]
  BY <1>1, <1>6, CutsUnfold DEF CutFrom
<1>8. QED
  BY <1>1, <1>4, <1>5, <1>6, <1>7, LexemeIsToken

-----------------------------------------------------------------------------
(* What has been read follows the grammar *)

\* While an open literal is valid, its elements have been counted; as long as there is no
\* error it is valid.
LiteralRead ==
    InLiteral =>
        /\ CharacterAt(contents, literal.begin) = literal.quote
        /\ errors = <<>> => literal.valid
        /\ literal.valid =>
            /\ InnerSizes(contents, literal.begin, offset, literal.quote) = {literal.size}
            /\ literal.size = 0 => offset = literal.begin + 1 /\ literal.foreign = {}
            /\ literal.size = 1 =>
                (literal.foreign # {} <=> Inner(contents, literal.begin, offset) = <<"BYTE">>)

KindsRight ==
    \A i \in DOMAIN tokens : tokens[i].kind \in {KindOf(Slice(contents, tokens[i])), EndKind}

\* From where the text still has to be cut.
Place == IF InLiteral THEN literal.begin ELSE offset
Whole == Cuts(contents)[0]

\* Nothing was reported: the tokens so far and those behind Place are those of the grammar.
Follows ==
    /\ Whole.tokens = tokens \o Cuts(contents)[Place].tokens
    /\ Whole.stop = Cuts(contents)[Place].stop

\* The text is no text of the grammar, and that was reported.
Left ==
    /\ errors[1].begin >= Whole.stop
    /\ Whole.stop <= Place /\ Whole.stop < Len(contents)
    /\ Len(Whole.tokens) <= Len(tokens)
    /\ \A i \in 1..Len(Whole.tokens) : tokens[i] = Whole.tokens[i]
    /\ Len(tokens) > Len(Whole.tokens) => tokens[Len(Whole.tokens) + 1].begin >= Whole.stop

GrammarInv ==
    /\ LiteralRead /\ KindsRight
    /\ errors = <<>> /\ ~done => Follows
    /\ errors = <<>> /\ done => tokens = Whole.tokens /\ Whole.stop = Len(contents)
    /\ errors # <<>> => Left

-----------------------------------------------------------------------------
(* What the scanners find is what the grammar says *)

LEMMA PlaceFacts ==
    ASSUME LexInv
    PROVE  /\ contents \in Seq(STRING) /\ Len(contents) \in Nat
           /\ offset \in Nat /\ offset <= Len(contents)
           /\ Place \in Nat /\ Place <= offset /\ Place <= Len(contents)
           /\ tokens \in Seq(Tokens) /\ errors \in Seq(Spans)
<1>1. /\ contents \in Seq(STRING) /\ Len(contents) \in Nat
      /\ offset \in Nat /\ offset <= Len(contents)
      /\ tokens \in Seq(Tokens) /\ errors \in Seq(Spans)
  BY Facts
<1>2. CASE InLiteral
  <2>1. Place = literal.begin /\ literal.begin \in Nat /\ literal.begin < offset
    BY <1>2, Open DEF Place
  <2>2. QED
    BY <1>1, <2>1
<1>3. CASE ~InLiteral
  <2>1. Place = offset
    BY <1>3 DEF Place
  <2>2. QED
    BY <1>1, <2>1
<1>4. QED
  BY <1>2, <1>3

LEMMA BlankRead ==
    ASSUME LexInv, SkipWhitespace \/ SkipComment
    PROVE  /\ offset < Len(contents) /\ SkipBlank(contents, offset) # offset
           /\ GoTo(SkipBlank(contents, offset))
<1>1. /\ contents \in Seq(STRING) /\ Len(contents) \in Nat /\ offset \in Nat
      /\ offset < Len(contents)
  BY PlaceFacts DEF SkipWhitespace, SkipComment, Scanning, AtEnd
<1>2. CASE SkipWhitespace
  <2>1. SkipBlank(contents, offset) = offset + 1
    <3>1. CharacterAt(contents, offset) \in Whitespace
      BY <1>2 DEF SkipWhitespace, Is
    <3>2. StartsWith(contents, offset, Whitespace)
      BY <1>1, <3>1 DEF StartsWith
    <3>3. QED
      BY <3>2 DEF SkipBlank
  <2>2. QED
    BY <1>1, <1>2, <2>1 DEF SkipWhitespace
<1>3. CASE SkipComment
  <2>1. /\ CharacterAt(contents, offset) = "/" /\ CharacterAt(contents, offset + 1) = "/"
        /\ offset + 1 < Len(contents)
    BY <1>1, <1>3 DEF SkipComment, StartsComment, Is, AtEnd
  <2>2. /\ StartsWith(contents, offset, {"/"}) /\ StartsWith(contents, offset + 1, {"/"})
        /\ ~StartsWith(contents, offset, Whitespace)
    BY <1>1, <2>1 DEF StartsWith, Whitespace, Newlines
  <2>3. SkipBlank(contents, offset) = LineEnd(contents, offset + 2)
    BY <2>2 DEF SkipBlank
  <2>4. PICK end \in (offset + 2)..Len(contents) :
            /\ \A o \in (offset + 2)..(end - 1) : ~Is(o, Newlines)
            /\ AtEnd(end) \/ Is(end, Newlines)
            /\ GoTo(end)
    BY <1>3 DEF SkipComment
  <2>5. EndsLine(contents, offset + 2, end)
    <3>1. \A o \in Nat : Is(o, Newlines) <=> StartsWith(contents, o, Newlines)
      BY <1>1 DEF Is, AtEnd, StartsWith
    <3>2. end \in Nat /\ (offset + 2)..(end - 1) \subseteq Nat
      BY <1>1
    <3>3. \A o \in (offset + 2)..(end - 1) : ~StartsWith(contents, o, Newlines)
      BY <2>4, <3>1, <3>2
    <3>4. end = Len(contents) \/ StartsWith(contents, end, Newlines)
      BY <1>1, <2>4, <3>1, <3>2 DEF AtEnd
    <3>5. QED
      BY <3>3, <3>4 DEF EndsLine
  <2>6. offset + 2 \in 0..Len(contents)
    BY <1>1, <2>1
  <2>7. end = LineEnd(contents, offset + 2)
    BY <1>1, <2>5, <2>6, LineEndIs
  <2>8. QED
    BY <1>1, <2>3, <2>4, <2>7
<1>4. QED
  BY <1>2, <1>3

\* A character that is no blank and begins no comment.
LEMMA NoBlank ==
    ASSUME NEW text, NEW o, CharacterAt(text, o) \notin Whitespace,
           CharacterAt(text, o) # "/" \/ ~StartsWith(text, o + 1, {"/"})
    PROVE  SkipBlank(text, o) = o
BY DEF SkipBlank, StartsWith

\* What the longest run of some characters makes.
LEMMA RunMade ==
    ASSUME LexInv, NEW characters, NEW end \in offset..Len(contents), Run(characters, end)
    PROVE  /\ end \in (offset + 1)..Len(contents)
           /\ Made(Spelling(contents, offset, end), characters)
           /\ \A e \in (end + 1)..Len(contents) : ~Made(Spelling(contents, offset, e), characters)
<1>1. /\ contents \in Seq(STRING) /\ Len(contents) \in Nat /\ offset \in Nat
      /\ end \in Nat /\ end \in (offset + 1)..Len(contents)
  BY PlaceFacts DEF Run
<1>2. Made(Spelling(contents, offset, end), characters)
  <2>1. PICK s : s = Spelling(contents, offset, end)
    OBVIOUS
  <2>2. /\ s # <<>> /\ DOMAIN s = 1..(end - offset)
        /\ \A i \in 1..(end - offset) : s[i] = contents[offset + i]
    BY <1>1, <2>1, SpellingIs
  <2>3. ASSUME NEW i \in 1..(end - offset) PROVE contents[offset + i] \in characters
    <3>1. PICK o \in offset..(end - 1) : o + 1 = offset + i
      <4>1. offset + i - 1 \in offset..(end - 1) /\ (offset + i - 1) + 1 = offset + i
        BY <1>1
      <4>2. QED
        BY <4>1
    <3>2. CharacterAt(contents, o) \in characters
      BY DEF Run
    <3>3. QED
      BY <3>1, <3>2 DEF CharacterAt
  <2>4. QED
    BY <2>1, <2>2, <2>3 DEF Made
<1>3. ASSUME NEW e \in (end + 1)..Len(contents), Made(Spelling(contents, offset, e), characters)
      PROVE  FALSE
  <2>1. PICK s : s = Spelling(contents, offset, e)
    OBVIOUS
  <2>2. e \in (offset + 1)..Len(contents) /\ end + 1 - offset \in 1..(e - offset)
    BY <1>1, <1>3
  <2>3. /\ DOMAIN s = 1..(e - offset)
        /\ \A i \in 1..(e - offset) : s[i] = contents[offset + i]
    BY <1>1, <2>1, <2>2, SpellingIs
  <2>4. s[end + 1 - offset] = contents[end + 1]
    <3>1. offset + (end + 1 - offset) = end + 1
      BY <1>1
    <3>2. QED
      BY <2>2, <2>3, <3>1
  <2>5. s[end + 1 - offset] \in characters
    BY <1>3, <2>1, <2>2, <2>3 DEF Made
  <2>6. Is(end, characters)
    BY <1>1, <1>3, <2>4, <2>5 DEF Is, AtEnd, CharacterAt
  <2>7. QED
    BY <2>6 DEF Run
<1>4. QED
  BY <1>1, <1>2, <1>3

LEMMA WordRead ==
    ASSUME LexInv, LexIdentifier
    PROVE  \E end, kind :
               LexemeAt(contents, offset, end, kind) /\ AddToken(kind, offset, end) /\ GoTo(end)
<1>1. /\ contents \in Seq(STRING) /\ Len(contents) \in Nat /\ offset \in Nat
      /\ CharacterAt(contents, offset) \in Letters
  BY PlaceFacts DEF LexIdentifier, Is
<1>2. PICK end \in offset..Len(contents) :
          /\ Run(Letters \cup Digits, end)
          /\ AddToken(IF Spelling(contents, offset, end) \in ReservedWords
                      THEN Spelling(contents, offset, end) ELSE <<"identifier">>, offset, end)
          /\ GoTo(end)
  BY DEF LexIdentifier, Spelling
<1>3. /\ end \in (offset + 1)..Len(contents)
      /\ Made(Spelling(contents, offset, end), Letters \cup Digits)
      /\ \A e \in (end + 1)..Len(contents) :
            ~Made(Spelling(contents, offset, e), Letters \cup Digits)
  BY <1>2, RunMade
<1>4. SkipBlank(contents, offset) = offset
  <2>1. CharacterAt(contents, offset) \notin Whitespace /\ CharacterAt(contents, offset) # "/"
    BY <1>1, CharacterClasses
  <2>2. QED
    BY <2>1, NoBlank
<1>5. ASSUME NEW e \in (offset + 1)..Len(contents)
      PROVE  KindOf(Spelling(contents, offset, e)) =
                IF Spelling(contents, offset, e) \in ReservedWords THEN Spelling(contents, offset, e)
                ELSE IF Made(Spelling(contents, offset, e), Letters \cup Digits)
                     THEN <<"identifier">> ELSE NotALexeme
  <2>1. PICK s : s = Spelling(contents, offset, e)
    OBVIOUS
  <2>2. s \in Seq(STRING) /\ s # <<>> /\ s[1] \in Letters
    BY <1>1, <2>1, SpellingIs DEF CharacterAt
  <2>3. QED
    BY <2>1, <2>2, KindOfWord
<1>6. PICK kind : kind = KindOf(Spelling(contents, offset, end))
  OBVIOUS
<1>7. /\ kind = IF Spelling(contents, offset, end) \in ReservedWords
                THEN Spelling(contents, offset, end) ELSE <<"identifier">>
      /\ kind # NotALexeme
  BY <1>3, <1>5, <1>6, NoneIsNoKind
<1>8. \A s \in ReservedWords : Made(s, Letters \cup Digits)
  <2> SUFFICES ASSUME NEW s \in ReservedWords PROVE Made(s, Letters \cup Digits)
    OBVIOUS
  <2>1. s \in Seq(Letters) /\ s # <<>>
    BY ReservedWordsAssumption
  <2>2. \A i \in DOMAIN s : s[i] \in Letters
    BY <2>1, LenProperties, ElementOfSeq
  <2>3. QED
    BY <2>1, <2>2 DEF Made
<1>9. ASSUME NEW e \in (end + 1)..Len(contents)
      PROVE  KindOf(Spelling(contents, offset, e)) = NotALexeme
  <2>1. e \in (offset + 1)..Len(contents)
    BY <1>1, <1>3
  <2>2. Spelling(contents, offset, e) \notin ReservedWords
    BY <1>3, <1>8
  <2>3. QED
    BY <1>3, <1>5, <2>1, <2>2
<1>10. LexemeAt(contents, offset, end, kind)
  BY <1>3, <1>4, <1>6, <1>7, <1>9 DEF LexemeAt
<1>11. QED
  BY <1>2, <1>7, <1>10

LEMMA NumberRead ==
    ASSUME LexInv, LexInteger
    PROVE  \E end, kind :
               LexemeAt(contents, offset, end, kind) /\ AddToken(kind, offset, end) /\ GoTo(end)
<1>1. /\ contents \in Seq(STRING) /\ Len(contents) \in Nat /\ offset \in Nat
      /\ CharacterAt(contents, offset) \in Digits
  BY PlaceFacts DEF LexInteger, Is
<1>2. PICK end \in offset..Len(contents) :
          Run(Digits, end) /\ AddToken(<<"integer">>, offset, end) /\ GoTo(end)
  BY DEF LexInteger
<1>3. /\ end \in (offset + 1)..Len(contents)
      /\ Made(Spelling(contents, offset, end), Digits)
      /\ \A e \in (end + 1)..Len(contents) : ~Made(Spelling(contents, offset, e), Digits)
  BY <1>2, RunMade
<1>4. SkipBlank(contents, offset) = offset
  <2>1. CharacterAt(contents, offset) \notin Whitespace /\ CharacterAt(contents, offset) # "/"
    BY <1>1, CharacterClasses
  <2>2. QED
    BY <2>1, NoBlank
<1>5. ASSUME NEW e \in (offset + 1)..Len(contents)
      PROVE  KindOf(Spelling(contents, offset, e)) =
                IF Made(Spelling(contents, offset, e), Digits) THEN <<"integer">> ELSE NotALexeme
  <2>1. PICK s : s = Spelling(contents, offset, e)
    OBVIOUS
  <2>2. s \in Seq(STRING) /\ s # <<>> /\ s[1] \in Digits
    BY <1>1, <2>1, SpellingIs DEF CharacterAt
  <2>3. QED
    BY <2>1, <2>2, KindOfNumber
<1>6. KindOf(Spelling(contents, offset, end)) = <<"integer">> /\ <<"integer">> # NotALexeme
  BY <1>3, <1>5, NoneIsNoKind
<1>7. ASSUME NEW e \in (end + 1)..Len(contents)
      PROVE  KindOf(Spelling(contents, offset, e)) = NotALexeme
  <2>1. e \in (offset + 1)..Len(contents)
    BY <1>1, <1>3
  <2>2. QED
    BY <1>3, <1>5, <2>1
<1>8. LexemeAt(contents, offset, end, <<"integer">>)
  BY <1>3, <1>4, <1>6, <1>7 DEF LexemeAt
<1>9. QED
  BY <1>2, <1>8

\* Where no word, number or literal begins, a lexeme is an operator.
LEMMA OperatorKind ==
    ASSUME LexInv, CharacterAt(contents, offset) \notin Letters \cup Digits \cup Quotes
    PROVE  \A e \in (offset + 1)..Len(contents) :
               KindOf(Spelling(contents, offset, e)) =
                   IF Spelling(contents, offset, e) \in Operators
                   THEN Spelling(contents, offset, e) ELSE NotALexeme
<1> SUFFICES ASSUME NEW e \in (offset + 1)..Len(contents)
             PROVE  KindOf(Spelling(contents, offset, e)) =
                        IF Spelling(contents, offset, e) \in Operators
                        THEN Spelling(contents, offset, e) ELSE NotALexeme
  OBVIOUS
<1>1. contents \in Seq(STRING) /\ offset \in Nat
  BY PlaceFacts
<1>2. PICK s : s = Spelling(contents, offset, e)
  OBVIOUS
<1>3. s \in Seq(STRING) /\ s # <<>> /\ s[1] \notin Letters \cup Digits \cup Quotes
  BY <1>1, <1>2, SpellingIs DEF CharacterAt
<1>4. QED
  BY <1>2, <1>3, KindOfOperator

LEMMA OperatorRead ==
    ASSUME LexInv, LexOperator
    PROVE  \E end, kind :
               LexemeAt(contents, offset, end, kind) /\ AddToken(kind, offset, end) /\ GoTo(end)
<1>1. /\ contents \in Seq(STRING) /\ Len(contents) \in Nat /\ offset \in Nat
      /\ offset < Len(contents)
  BY PlaceFacts DEF LexOperator, Scanning, AtEnd
<1>2. PICK end \in (offset + 1)..Len(contents) :
          /\ Spelling(contents, offset, end) \in Operators
          /\ \A e \in (end + 1)..Len(contents) : Spelling(contents, offset, e) \notin Operators
          /\ AddToken(Spelling(contents, offset, end), offset, end)
          /\ GoTo(end)
  BY DEF LexOperator, Spelled, Spelling
<1>3. CharacterAt(contents, offset) \in {"(", ".", "=", "/", "&"}
  <2>1. PICK s : s = Spelling(contents, offset, end)
    OBVIOUS
  <2>2. s \in Seq(STRING) /\ s # <<>> /\ s[1] = contents[offset + 1]
    BY <1>1, <2>1, SpellingIs
  <2>3. s[1] \in {"(", ".", "=", "/", "&"}
    BY <1>2, <2>1, <2>2, FirstCharacter
  <2>4. QED
    BY <2>2, <2>3 DEF CharacterAt
<1>4. SkipBlank(contents, offset) = offset
  <2>1. CharacterAt(contents, offset) \notin Whitespace
    BY <1>3, CharacterClasses
  <2>2. CharacterAt(contents, offset) # "/" \/ ~StartsWith(contents, offset + 1, {"/"})
    BY <1>1 DEF LexOperator, StartsComment, StartsWith, Is, AtEnd
  <2>3. QED
    BY <2>1, <2>2, NoBlank
<1>5. \A e \in (offset + 1)..Len(contents) :
          KindOf(Spelling(contents, offset, e)) =
              IF Spelling(contents, offset, e) \in Operators
              THEN Spelling(contents, offset, e) ELSE NotALexeme
  BY <1>3, CharacterClasses, OperatorKind
<1>6. PICK kind : kind = Spelling(contents, offset, end)
  OBVIOUS
<1>7. KindOf(Spelling(contents, offset, end)) = kind /\ kind # NotALexeme
  BY <1>2, <1>5, <1>6, NoneIsNoKind
<1>8. ASSUME NEW e \in (end + 1)..Len(contents)
      PROVE  KindOf(Spelling(contents, offset, e)) = NotALexeme
  <2>1. e \in (offset + 1)..Len(contents)
    BY <1>1
  <2>2. QED
    BY <1>2, <1>5, <2>1
<1>9. LexemeAt(contents, offset, end, kind)
  BY <1>2, <1>4, <1>7, <1>8 DEF LexemeAt
<1>10. QED
  BY <1>2, <1>6, <1>9

LEMMA NothingRead ==
    ASSUME LexInv, UnknownCharacter
    PROVE  NoLexemeAt(contents, offset)
<1>1. /\ contents \in Seq(STRING) /\ Len(contents) \in Nat /\ offset \in Nat
      /\ offset < Len(contents)
      /\ CharacterAt(contents, offset) \notin Whitespace \cup Letters \cup Digits \cup Quotes
      /\ \A e \in (offset + 1)..Len(contents) : Spelling(contents, offset, e) \notin Operators
  BY PlaceFacts DEF UnknownCharacter, Scanning, Is, AtEnd, Spelled, Spelling
<1>2. CharacterAt(contents, offset) # "/"
  <2> SUFFICES ASSUME CharacterAt(contents, offset) = "/" PROVE FALSE
    OBVIOUS
  <2>1. PICK e \in (offset + 1)..Len(contents) : e = offset + 1
    BY <1>1
  <2>2. PICK s : s = Spelling(contents, offset, e)
    OBVIOUS
  <2>3. s \in Seq(STRING) /\ Len(s) = 1 /\ s[1] = "/"
    <3>1. s \in Seq(STRING) /\ Len(s) = e - offset /\ s[1] = contents[offset + 1]
      BY <1>1, <2>2, SpellingIs
    <3>2. e - offset = 1 /\ contents[offset + 1] = "/"
      BY <1>1, <2>1 DEF CharacterAt
    <3>3. QED
      BY <3>1, <3>2
  <2>4. s = <<"/">>
    BY <2>3
  <2>5. QED
    BY <1>1, <2>2, <2>4 DEF Operators
<1>3. SkipBlank(contents, offset) = offset
  BY <1>1, <1>2, NoBlank
<1>4. \A e \in (offset + 1)..Len(contents) : KindOf(Spelling(contents, offset, e)) = NotALexeme
  BY <1>1, OperatorKind
<1>5. QED
  BY <1>1, <1>3, <1>4 DEF NoLexemeAt

\* A literal that was cut up to a place where no element begins.
LEMMA LiteralStuck ==
    ASSUME NEW text \in Seq(STRING), NEW b \in Nat, NEW quote \in Quotes, NEW p \in Nat,
           b + 1 <= p, p <= Len(text), CharacterAt(text, b) = quote,
           InnerSizes(text, b, p, quote) # {}, StuckAt(text, p, quote)
    PROVE  IF p < Len(text) /\ text[p + 1] = quote /\ IsLiteral(Spelling(text, b, p + 1), quote)
           THEN LexemeAt(text, b, p + 1, <<quote>>)
           ELSE NoLexemeAt(text, b)
<1>1. Len(text) \in Nat /\ b < Len(text)
  BY LenProperties
<1>2. SkipBlank(text, b) = b
  <2>1. CharacterAt(text, b) \notin Whitespace /\ CharacterAt(text, b) # "/"
    BY CharacterClasses
  <2>2. QED
    BY <2>1, NoBlank
<1>3. ASSUME NEW e \in (b + 1)..Len(text)
      PROVE  KindOf(Spelling(text, b, e)) =
                 IF IsLiteral(Spelling(text, b, e), quote) THEN <<quote>> ELSE NotALexeme
  <2>1. PICK s : s = Spelling(text, b, e)
    OBVIOUS
  <2>2. s \in Seq(STRING) /\ s # <<>> /\ s[1] = quote
    BY <2>1, SpellingIs DEF CharacterAt
  <2>3. QED
    BY <2>1, <2>2, KindOfQuoted
<1>4. \A e \in (b + 1)..Len(text) :
          IsLiteral(Spelling(text, b, e), quote) => e = p + 1 /\ text[p + 1] = quote
  BY EndsWhereStuck
<1>5. CASE p < Len(text) /\ text[p + 1] = quote /\ IsLiteral(Spelling(text, b, p + 1), quote)
  <2>1. PICK e \in (b + 1)..Len(text) : e = p + 1
    BY <1>1, <1>5
  <2>2. KindOf(Spelling(text, b, e)) = <<quote>>
    BY <1>3, <1>5, <2>1
  <2>3. <<quote>> # NotALexeme
    BY NoneIsNoKind DEF Quotes
  <2>4. \A f \in (e + 1)..Len(text) : f \in (b + 1)..Len(text) /\ f # p + 1
    BY <1>1, <2>1
  <2>5. \A f \in (e + 1)..Len(text) : KindOf(Spelling(text, b, f)) = NotALexeme
    BY <1>3, <1>4, <2>4
  <2>6. LexemeAt(text, b, e, <<quote>>)
    BY <1>2, <2>2, <2>3, <2>5 DEF LexemeAt
  <2>7. QED
    BY <1>5, <2>1, <2>6
<1>6. CASE ~(p < Len(text) /\ text[p + 1] = quote /\ IsLiteral(Spelling(text, b, p + 1), quote))
  <2>1. \A e \in (b + 1)..Len(text) : ~IsLiteral(Spelling(text, b, e), quote)
    <3>1. ASSUME NEW e \in (b + 1)..Len(text), IsLiteral(Spelling(text, b, e), quote) PROVE FALSE
      <4>1. e = p + 1 /\ text[p + 1] = quote
        BY <1>4, <3>1
      <4>2. p < Len(text)
        BY <1>1, <3>1, <4>1
      <4>3. QED
        BY <1>6, <3>1, <4>1, <4>2
    <3>2. QED
      BY <3>1
  <2>2. \A e \in (b + 1)..Len(text) : KindOf(Spelling(text, b, e)) = NotALexeme
    BY <1>3, <2>1
  <2>3. NoLexemeAt(text, b)
    BY <1>1, <1>2, <2>2 DEF NoLexemeAt
  <2>4. QED
    BY <1>6, <2>3
<1>7. QED
  BY <1>5, <1>6

-----------------------------------------------------------------------------
(* What one step leaves of it *)

LEMMA CutsFacts ==
    ASSUME LexInv
    PROVE  /\ Whole.tokens \in Seq(Tokens) /\ Whole.stop \in Nat /\ Whole.stop <= Len(contents)
           /\ Cuts(contents)[Place].tokens \in Seq(Tokens)
           /\ Cuts(contents)[Place].stop \in Nat /\ Place <= Cuts(contents)[Place].stop
<1>1. contents \in Seq(STRING) /\ Len(contents) \in Nat /\ 0 \in 0..Len(contents)
      /\ Place \in 0..Len(contents)
  BY PlaceFacts
<1>2. CutOk(contents, 0, Cuts(contents)[0]) /\ CutOk(contents, Place, Cuts(contents)[Place])
  BY <1>1, CutsType
<1>3. QED
  BY <1>2 DEF CutOk, Whole

\* Nothing is added.
LEMMA NothingAdded ==
    ASSUME LexInv, GrammarInv, ~done, UNCHANGED <<contents, tokens, errors, done>>, LiteralRead',
           Place' \in Nat, Place <= Place',
           errors = <<>> => Cuts(contents)[Place'] = Cuts(contents)[Place]
    PROVE  GrammarInv'
<1>1. Whole' = Whole
  BY DEF Whole
<1>2. KindsRight'
  BY DEF GrammarInv, KindsRight
<1>3. CASE errors = <<>>
  <2>1. Follows
    BY <1>3 DEF GrammarInv
  <2>2. Cuts(contents)[Place'] = Cuts(contents)[Place]
    BY <1>3
  <2>3. Follows'
    BY <1>1, <2>1, <2>2 DEF Follows
  <2>4. QED
    BY <1>2, <1>3, <2>3 DEF GrammarInv
<1>4. CASE errors # <<>>
  <2>1. Left
    BY <1>4 DEF GrammarInv
  <2>2. Whole.stop \in Nat /\ Place \in Nat
    BY PlaceFacts, CutsFacts
  <2>3. Whole.stop <= Place'
    BY <2>1, <2>2 DEF Left
  <2>4. Left'
    BY <1>1, <2>1, <2>3 DEF Left
  <2>5. QED
    BY <1>2, <1>4, <2>4 DEF GrammarInv
<1>5. QED
  BY <1>3, <1>4

\* The next lexeme becomes a token.
LEMMA LexemeAdded ==
    ASSUME LexInv, GrammarInv, ~done, UNCHANGED <<contents, done>>, LiteralRead',
           NEW kind, NEW end, LexemeAt(contents, Place, end, kind), Place' = end,
           AddToken(kind, Place, end)
    PROVE  GrammarInv'
<1>1. /\ Whole' = Whole /\ errors' = errors
      /\ tokens' = Append(tokens, Token(kind, Place, end))
  BY DEF Whole, AddToken
<1>2. /\ tokens \in Seq(Tokens) /\ Place \in Nat /\ contents \in Seq(STRING)
      /\ Whole.stop \in Nat /\ Whole.tokens \in Seq(Tokens)
  BY PlaceFacts, CutsFacts
<1>3. PICK t \in Tokens : t = Token(kind, Place, end)
  BY <1>2, CutAtLexeme
<1>4. PICK n \in Nat : n = Len(tokens)
  BY <1>2, LenProperties
<1>5. /\ Len(tokens') = n + 1 /\ DOMAIN tokens' = 1..(n + 1) /\ DOMAIN tokens = 1..n
      /\ \A i \in 1..n : tokens'[i] = tokens[i]
      /\ tokens'[n + 1] = t
      /\ tokens' \in Seq(Tokens)
  BY <1>1, <1>2, <1>3, <1>4, AppendProperties, LenProperties
<1>6. t.kind = kind /\ t.begin = Place /\ t.end = end
  BY <1>3 DEF Token
<1>7. KindsRight'
  <2>1. KindsRight
    BY DEF GrammarInv
  <2>2. ASSUME NEW i \in 1..n
        PROVE  tokens'[i].kind \in {KindOf(Slice(contents, tokens'[i])), EndKind}
    BY <1>5, <2>1, <2>2 DEF KindsRight
  <2>3. t.kind = KindOf(Slice(contents, t))
    <3>1. Slice(contents, t) = Spelling(contents, Place, end)
      BY <1>6 DEF Slice, Spelling
    <3>2. QED
      BY <1>6, <3>1 DEF LexemeAt
  <2>4. ASSUME NEW i \in 1..(n + 1)
        PROVE  tokens'[i].kind \in {KindOf(Slice(contents, tokens'[i])), EndKind}
    <3>1. CASE i = n + 1
      BY <1>5, <2>3, <3>1
    <3>2. CASE i # n + 1
      <4>1. i \in 1..n
        BY <3>2
      <4>2. QED
        BY <2>2, <4>1
    <3>3. QED
      BY <3>1, <3>2
  <2>5. QED
    BY <1>5, <2>4 DEF KindsRight
<1>8. CASE errors = <<>>
  <2>1. Follows
    BY <1>8 DEF GrammarInv
  <2>2. PICK rest : rest = Cuts(contents)[end].tokens
    OBVIOUS
  <2>3. /\ Cuts(contents)[Place].tokens = <<t>> \o rest
        /\ Cuts(contents)[Place].stop = Cuts(contents)[end].stop
    <3>1. PICK text \in Seq(STRING), p \in Nat : text = contents /\ p = Place
      BY <1>2
    <3>2. LexemeAt(text, p, end, kind)
      BY <3>1
    <3>3. /\ Cuts(text)[p].tokens = <<Token(kind, p, end)>> \o Cuts(text)[end].tokens
          /\ Cuts(text)[p].stop = Cuts(text)[end].stop
      BY ONLY <3>2, CutAtLexeme, text \in Seq(STRING), p \in Nat
    <3>4. QED
      BY <1>3, <2>2, <3>1, <3>3
  <2>4. rest \in Seq(Tokens) /\ <<t>> \in Seq(Tokens)
    <3>1. end \in 0..Len(contents)
      BY <1>2 DEF LexemeAt
    <3>2. CutOk(contents, end, Cuts(contents)[end])
      BY <1>2, <3>1, CutsType
    <3>3. QED
      BY <2>2, <3>2 DEF CutOk
  <2>5. tokens' = tokens \o <<t>>
    BY <1>1, <1>2, <1>3, AppendIsConcat
  <2>6. (tokens \o <<t>>) \o rest = tokens \o (<<t>> \o rest)
    BY <1>2, <2>4, ConcatAssociative
  <2>7. Whole.tokens = tokens' \o rest
    BY <2>1, <2>3, <2>5, <2>6 DEF Follows
  <2>8. Follows'
    BY <1>1, <2>1, <2>2, <2>3, <2>7 DEF Follows
  <2>9. QED
    BY <1>1, <1>7, <1>8, <2>8 DEF GrammarInv
<1>9. CASE errors # <<>>
  <2>1. Left
    BY <1>9 DEF GrammarInv
  <2>2. PICK m \in Nat : m = Len(Whole.tokens)
    BY <1>2, LenProperties
  <2>3. /\ m <= n /\ Whole.stop <= Place
        /\ \A i \in 1..m : tokens[i] = Whole.tokens[i]
        /\ n > m => tokens[m + 1].begin >= Whole.stop
    BY <1>4, <2>1, <2>2 DEF Left
  <2>4. \A i \in 1..m : tokens'[i] = Whole.tokens[i]
    BY <1>5, <2>3
  <2>5. tokens'[m + 1].begin >= Whole.stop
    <3>1. CASE m = n
      BY <1>2, <1>5, <1>6, <2>3, <3>1
    <3>2. CASE m # n
      <4>1. m + 1 \in 1..n /\ n > m
        BY <2>3, <3>2
      <4>2. QED
        BY <1>5, <2>3, <4>1
    <3>3. QED
      BY <3>1, <3>2
  <2>6. Whole.stop <= Place' /\ m <= Len(tokens')
    <3>1. end \in Nat /\ Place <= end
      BY <1>2 DEF LexemeAt
    <3>2. QED
      BY <1>2, <1>5, <2>3, <3>1
  <2>7. Left'
    BY <1>1, <2>1, <2>2, <2>4, <2>5, <2>6 DEF Left
  <2>8. QED
    BY <1>1, <1>7, <1>9, <2>7 DEF GrammarInv
<1>10. QED
  BY <1>8, <1>9

\* What is no lexeme is reported.
LEMMA ErrorAdded ==
    ASSUME LexInv, GrammarInv, ~done, UNCHANGED <<contents, done>>, LiteralRead',
           NEW begin \in Nat, NEW end, ReportError(begin, end), Place <= begin,
           Place' \in Nat, Place <= Place',
           errors = <<>> => NoLexemeAt(contents, Place)
    PROVE  GrammarInv'
<1>1. /\ Whole' = Whole /\ tokens' = tokens
      /\ errors' = Append(errors, [begin |-> begin, end |-> end])
  BY DEF Whole, ReportError, Span
<1>2. /\ tokens \in Seq(Tokens) /\ Place \in Nat /\ contents \in Seq(STRING)
      /\ errors \in Seq(Spans) /\ Len(contents) \in Nat
      /\ Whole.stop \in Nat /\ Whole.tokens \in Seq(Tokens)
  BY PlaceFacts, CutsFacts
<1>3. KindsRight'
  BY <1>1 DEF GrammarInv, KindsRight
<1>4. CASE errors = <<>>
  <2>1. Follows /\ NoLexemeAt(contents, Place)
    BY <1>4 DEF GrammarInv
  <2>2. Cuts(contents)[Place].tokens = <<>> /\ Cuts(contents)[Place].stop = Place
    BY <1>2, <2>1, CutAtNothing
  <2>3. Whole.tokens = tokens /\ Whole.stop = Place
    BY <1>2, <2>1, <2>2, ConcatEmptySeq DEF Follows
  <2>4. errors' # <<>> /\ errors'[1] = [begin |-> begin, end |-> end]
    <3>1. errors' = <<[begin |-> begin, end |-> end]>>
      BY <1>1, <1>4
    <3>2. QED
      BY <3>1
  <2>5. Place < Len(contents)
    BY <2>1 DEF NoLexemeAt
  <2>6. Left'
    <3>1. /\ errors'[1].begin >= Whole.stop /\ Whole.stop <= Place' /\ Whole.stop < Len(contents)
      BY <1>2, <2>3, <2>4, <2>5
    <3>2. Len(tokens) \in Nat
      BY <1>2, LenProperties
    <3>3. QED
      BY <1>1, <2>3, <3>1, <3>2 DEF Left
  <2>7. QED
    BY <1>3, <2>4, <2>6 DEF GrammarInv
<1>5. CASE errors # <<>>
  <2>1. Left
    BY <1>5 DEF GrammarInv
  <2>2. errors' # <<>> /\ errors'[1] = errors[1]
    <3>1. Len(errors) \in Nat /\ 1 \in 1..Len(errors)
      BY <1>2, <1>5, EmptySeq, LenProperties
    <3>2. PICK x : x = [begin |-> begin, end |-> end]
      OBVIOUS
    <3>3. PICK S : S = Spans \cup {x}
      OBVIOUS
    <3>4. errors \in Seq(S) /\ x \in S
      BY <1>2, <3>3, SeqMonotonic
    <3>5. Append(errors, x) # <<>> /\ Append(errors, x)[1] = errors[1]
      BY <3>1, <3>4, AppendProperties
    <3>6. QED
      BY <1>1, <3>2, <3>5
  <2>3. Whole.stop <= Place'
    BY <1>2, <2>1 DEF Left
  <2>4. Left'
    BY <1>1, <2>1, <2>2, <2>3 DEF Left
  <2>5. QED
    BY <1>3, <2>2, <2>4 DEF GrammarInv
<1>6. QED
  BY <1>4, <1>5

LEMMA EndAdded == ASSUME LexInv, GrammarInv, EndOfFile PROVE GrammarInv'
<1>1. /\ ~InLiteral /\ Place = offset /\ offset = Len(contents) /\ ~done /\ done' = TRUE
      /\ tokens' = Append(tokens, Token(EndKind, offset, offset)) /\ errors' = errors
      /\ UNCHANGED <<contents, offset, literal>>
  BY PlaceFacts DEF EndOfFile, Place, AtEnd, AddToken
<1>2. /\ tokens \in Seq(Tokens) /\ offset \in Nat /\ contents \in Seq(STRING)
      /\ Len(contents) \in Nat
      /\ Whole.stop \in Nat /\ Whole.tokens \in Seq(Tokens)
  BY PlaceFacts, CutsFacts
<1>3. PICK t \in Tokens : t = Token(EndKind, offset, offset)
  BY <1>2 DEF Token, Tokens, Kinds
<1>4. /\ Whole' = Whole /\ LiteralRead' /\ Place' = Place
  BY <1>1 DEF Whole, LiteralRead, InLiteral, Place
<1>5. PICK n \in Nat : n = Len(tokens)
  BY <1>2, LenProperties
<1>6. /\ Len(tokens') = n + 1 /\ DOMAIN tokens' = 1..(n + 1) /\ DOMAIN tokens = 1..n
      /\ \A i \in 1..n : tokens'[i] = tokens[i]
      /\ tokens'[n + 1] = t
  BY <1>1, <1>2, <1>3, <1>5, AppendProperties, LenProperties
<1>7. t.kind = EndKind /\ t.begin = offset
  BY <1>3 DEF Token
<1>8. KindsRight'
  <2>1. KindsRight
    BY DEF GrammarInv
  <2>2. ASSUME NEW i \in 1..(n + 1)
        PROVE  tokens'[i].kind \in {KindOf(Slice(contents, tokens'[i])), EndKind}
    <3>1. CASE i = n + 1
      BY <1>6, <1>7, <3>1
    <3>2. CASE i # n + 1
      <4>1. i \in 1..n
        BY <3>2
      <4>2. QED
        BY <1>6, <2>1, <4>1 DEF KindsRight
    <3>3. QED
      BY <3>1, <3>2
  <2>3. QED
    BY <1>1, <1>6, <2>2 DEF KindsRight
<1>9. CASE errors = <<>>
  <2>1. Follows
    BY <1>1, <1>9 DEF GrammarInv
  <2>2. Cuts(contents)[offset].tokens = <<t>> /\ Cuts(contents)[offset].stop = offset
    BY <1>1, <1>2, <1>3, CutAtEnd
  <2>3. tokens' = tokens \o <<t>>
    BY <1>1, <1>2, <1>3, AppendIsConcat
  <2>4. Whole.tokens = tokens' /\ Whole.stop = Len(contents)
    BY <1>1, <2>1, <2>2, <2>3 DEF Follows
  <2>5. QED
    BY <1>1, <1>4, <1>8, <1>9, <2>4 DEF GrammarInv
<1>10. CASE errors # <<>>
  <2>1. Left
    BY <1>10 DEF GrammarInv
  <2>2. PICK m \in Nat : m = Len(Whole.tokens)
    BY <1>2, LenProperties
  <2>3. /\ m <= n /\ Whole.stop < Len(contents)
        /\ \A i \in 1..m : tokens[i] = Whole.tokens[i]
        /\ n > m => tokens[m + 1].begin >= Whole.stop
    BY <1>5, <2>1, <2>2 DEF Left
  <2>4. \A i \in 1..m : tokens'[i] = Whole.tokens[i]
    BY <1>6, <2>3
  <2>5. tokens'[m + 1].begin >= Whole.stop
    <3>1. CASE m = n
      BY <1>1, <1>2, <1>6, <1>7, <2>3, <3>1
    <3>2. CASE m # n
      <4>1. m + 1 \in 1..n /\ n > m
        BY <2>3, <3>2
      <4>2. QED
        BY <1>6, <2>3, <4>1
    <3>3. QED
      BY <3>1, <3>2
  <2>6. m <= Len(tokens')
    BY <1>6, <2>3
  <2>7. Left'
    BY <1>1, <1>4, <2>1, <2>2, <2>4, <2>5, <2>6 DEF Left
  <2>8. QED
    BY <1>1, <1>4, <1>8, <1>10, <2>7 DEF GrammarInv
<1>11. QED
  BY <1>9, <1>10

-----------------------------------------------------------------------------
(* The steps *)

LEMMA ScansOneThing ==
    ASSUME LexInv, GrammarInv, \/ SkipWhitespace \/ SkipComment \/ LexIdentifier \/ LexInteger
                               \/ LexOperator \/ UnknownCharacter
    PROVE  GrammarInv'
<1>1. /\ ~InLiteral /\ ~done /\ UNCHANGED <<contents, literal, done>> /\ Place = offset
  BY DEF SkipWhitespace, SkipComment, LexIdentifier, LexInteger, LexOperator, UnknownCharacter,
         Scanning, InLiteral, GoTo, Place
<1>2. LiteralRead' /\ Place' = offset' /\ UNCHANGED <<contents, done>>
  BY <1>1 DEF LiteralRead, InLiteral, Place
<1>3. /\ contents \in Seq(STRING) /\ offset \in Nat /\ Len(contents) \in Nat
  BY PlaceFacts
<1>4. CASE SkipWhitespace \/ SkipComment
  <2>1. /\ offset < Len(contents) /\ SkipBlank(contents, offset) # offset
        /\ offset' = SkipBlank(contents, offset) /\ UNCHANGED <<tokens, errors>>
    BY <1>4, BlankRead DEF GoTo, SkipWhitespace, SkipComment
  <2>2. offset' \in (offset + 1)..Len(contents)
    BY <1>3, <2>1, SkipsForward
  <2>3. Cuts(contents)[offset'] = Cuts(contents)[offset]
    BY <1>3, <2>1, CutAtBlank
  <2>4. Place' \in Nat /\ Place <= Place' /\ Cuts(contents)[Place'] = Cuts(contents)[Place]
    BY <1>1, <1>2, <1>3, <2>2, <2>3
  <2>5. QED
    BY <1>1, <1>2, <2>1, <2>4, NothingAdded
<1>5. CASE LexIdentifier \/ LexInteger \/ LexOperator
  <2>1. PICK end, kind :
            LexemeAt(contents, offset, end, kind) /\ AddToken(kind, offset, end) /\ GoTo(end)
    BY <1>5, WordRead, NumberRead, OperatorRead
  <2>2. /\ LexemeAt(contents, Place, end, kind) /\ AddToken(kind, Place, end) /\ Place' = end
    BY <1>1, <1>2, <2>1 DEF GoTo
  <2>3. QED
    BY <1>1, <1>2, <2>2, LexemeAdded
<1>6. CASE UnknownCharacter
  <2>1. NoLexemeAt(contents, Place) /\ ReportError(offset, offset + 1) /\ offset' = offset + 1
    BY <1>1, <1>6, NothingRead DEF UnknownCharacter, GoTo
  <2>2. Place <= offset /\ Place' \in Nat /\ Place <= Place'
    BY <1>1, <1>2, <1>3, <2>1
  <2>3. QED
    BY <1>1, <1>2, <1>3, <2>1, <2>2, ErrorAdded
<1>7. QED
  BY <1>4, <1>5, <1>6

LEMMA OpensOne == ASSUME LexInv, GrammarInv, OpenLiteral PROVE GrammarInv'
<1>1. /\ contents \in Seq(STRING) /\ offset \in Nat /\ Len(contents) \in Nat
      /\ offset + 1 <= Len(contents) /\ ~done /\ ~InLiteral
      /\ UNCHANGED <<contents, tokens, errors, done>> /\ offset' = offset + 1
      /\ CharacterAt(contents, offset) \in Quotes
  BY PlaceFacts DEF OpenLiteral, Scanning, InLiteral, GoTo, Is, AtEnd
<1>2. PICK quote \in Quotes : quote = CharacterAt(contents, offset)
  BY <1>1
<1>3. literal' = [quote |-> quote, begin |-> offset, valid |-> TRUE, size |-> 0, foreign |-> {}]
  BY <1>2 DEF OpenLiteral
<1>4. /\ literal'.quote = quote /\ literal'.begin = offset /\ literal'.valid = TRUE
      /\ literal'.size = 0 /\ literal'.foreign = {}
  BY <1>3
<1>5. InLiteral'
  BY <1>4, CharacterClasses DEF InLiteral, NoLiteral, Quotes
<1>6. InnerSizes(contents, offset, offset + 1, quote) = {0}
  BY <1>1, InnerEmpty
<1>7. LiteralRead'
  BY <1>1, <1>2, <1>4, <1>6 DEF LiteralRead
<1>8. Place = offset /\ Place' = offset
  BY <1>1, <1>4, <1>5 DEF Place
<1>9. QED
  BY <1>1, <1>7, <1>8, NothingAdded

\* An open literal that is still valid.
LEMMA ValidLiteral ==
    ASSUME LexInv, GrammarInv, InLiteral, literal.valid
    PROVE  /\ literal.begin \in Nat /\ literal.begin + 1 <= offset
           /\ CharacterAt(contents, literal.begin) = literal.quote
           /\ literal.quote \in Quotes /\ literal.size \in Nat
           /\ InnerSizes(contents, literal.begin, offset, literal.quote) = {literal.size}
           /\ literal.size = 0 => offset = literal.begin + 1 /\ literal.foreign = {}
           /\ literal.size = 1 =>
               (literal.foreign # {} <=> Inner(contents, literal.begin, offset) = <<"BYTE">>)
<1>1. literal.begin \in Nat /\ literal.begin < offset /\ literal.quote \in Quotes
      /\ literal \in Literals /\ offset \in Nat
  BY Open, Facts
<1>2. literal.size \in Nat
  BY <1>1 DEF Literals
<1>3. QED
  BY <1>1, <1>2 DEF GrammarInv, LiteralRead

LEMMA CharacterRead == ASSUME LexInv, GrammarInv, LiteralCharacter PROVE GrammarInv'
<1>1. /\ contents \in Seq(STRING) /\ offset \in Nat /\ Len(contents) \in Nat
      /\ offset + 1 <= Len(contents) /\ InLiteral /\ ~done
      /\ UNCHANGED <<contents, tokens, errors, done>> /\ offset' = offset + 1
      /\ literal \in Literals
  BY PlaceFacts, Open DEF LiteralCharacter, GoTo, AtEnd
<1>2. PICK b, quote, size, foreign, valid :
          /\ b = literal.begin /\ quote = literal.quote /\ size = literal.size
          /\ foreign = literal.foreign /\ valid = literal.valid
  OBVIOUS
<1>3. PICK f : f = IF Is(offset, {"BYTE"}) /\ foreign = {} THEN {offset} ELSE foreign
  OBVIOUS
<1>4. literal' = [literal EXCEPT !.size = size + 1, !.foreign = f]
  BY <1>2, <1>3 DEF LiteralCharacter
<1>5. /\ literal'.begin = b /\ literal'.quote = quote /\ literal'.size = size + 1
      /\ literal'.foreign = f /\ literal'.valid = valid
  BY <1>1, <1>2, <1>4 DEF Literals
<1>6. InLiteral'
  <2>1. quote \in Quotes
    BY <1>1, <1>2, Open
  <2>2. QED
    BY <1>5, <2>1 DEF InLiteral, NoLiteral, Quotes
<1>7. Place = b /\ Place' = b /\ b \in Nat
  BY <1>1, <1>2, <1>5, <1>6, Open DEF Place
<1>8. CharacterAt(contents, b) = quote /\ (errors = <<>> => valid)
  BY <1>1, <1>2 DEF GrammarInv, LiteralRead
<1>9. ASSUME valid
      PROVE  /\ InnerSizes(contents, b, offset + 1, quote) = {size + 1}
             /\ size + 1 # 0
             /\ size + 1 = 1 => (f # {} <=> Inner(contents, b, offset + 1) = <<"BYTE">>)
  <2>1. /\ b + 1 <= offset /\ quote \in Quotes /\ size \in Nat
        /\ InnerSizes(contents, b, offset, quote) = {size}
        /\ size = 0 => offset = b + 1 /\ foreign = {}
    BY <1>1, <1>2, <1>9, ValidLiteral
  <2>2. PICK o \in Nat : o = offset + 1
    BY <1>1
  <2>3. b + 1 < o /\ o <= Len(contents) /\ o - 1 = offset
    BY <1>1, <1>7, <2>1, <2>2
  <2>4. Plain(contents[o], quote)
    BY <1>1, <1>2, <2>2 DEF LiteralCharacter, Is, AtEnd, CharacterAt, Plain
  <2>5. ~(b + 2 < o /\ contents[o - 1] = "backslash" /\ InnerSizes(contents, b, o - 2, quote) # {})
    <3> SUFFICES ASSUME b + 2 < o, contents[offset] = "backslash",
                        InnerSizes(contents, b, o - 2, quote) # {}
                 PROVE  FALSE
      BY <2>3
    <3>1. b + 1 < offset /\ offset <= Len(contents) /\ o - 2 = offset - 1
      BY <1>1, <1>7, <2>2
    <3>2. InnerSizes(contents, b, offset - 1, quote) # {}
      BY <3>1
    <3>3. InnerSizes(contents, b, offset, quote) = {}
      BY <1>1, <1>7, <3>1, <3>2, NoDoubleBackslash
    <3>4. QED
      BY <2>1, <3>3
  <2>6. InnerSizes(contents, b, o - 1, quote) = {size}
    BY <2>1, <2>3
  <2>7. InnerSizes(contents, b, o, quote) = {size + 1}
    BY ONLY <1>1, <1>7, <2>1, <2>2, <2>3, <2>4, <2>5, <2>6, InnerCases, o \in Nat
  <2>8. ASSUME size = 0 PROVE f # {} <=> Inner(contents, b, o) = <<"BYTE">>
    <3>1. offset = b + 1 /\ foreign = {} /\ o - (b + 1) = 1
      BY <1>7, <2>1, <2>2, <2>8
    <3>2. PICK s : s = Inner(contents, b, o)
      OBVIOUS
    <3>3. b + 1 <= o
      BY <1>7, <2>3
    <3>4. /\ s \in Seq(STRING) /\ Len(s) = o - (b + 1)
          /\ \A i \in 1..(o - (b + 1)) : s[i] = contents[b + 1 + i]
      BY ONLY <1>1, <1>7, <2>3, <3>2, <3>3, InnerIs, o \in Nat
    <3>5. s \in Seq(STRING) /\ Len(s) = 1 /\ s[1] = contents[o]
      BY <2>2, <3>1, <3>4
    <3>6. s = <<"BYTE">> <=> contents[o] = "BYTE"
      BY <3>5
    <3>7. Is(offset, {"BYTE"}) <=> contents[o] = "BYTE"
      BY <1>1, <2>2 DEF Is, AtEnd, CharacterAt
    <3>8. f # {} <=> Is(offset, {"BYTE"})
      BY <1>3, <3>1
    <3>9. QED
      BY <3>2, <3>6, <3>7, <3>8
  <2>9. size + 1 # 0 /\ (size + 1 = 1 => size = 0)
    BY <2>1
  <2>10. QED
    BY <2>2, <2>7, <2>8, <2>9
<1>10. LiteralRead'
  BY <1>1, <1>5, <1>8, <1>9 DEF LiteralRead
<1>11. QED
  BY <1>1, <1>7, <1>10, NothingAdded

\* An escape makes a literal longer by one element, and more than one byte long.
LEMMA EscapeCounted ==
    ASSUME NEW text \in Seq(STRING), NEW b \in Nat, NEW p \in Nat, NEW quote, NEW n \in Nat,
           b + 1 <= p, p + 2 <= Len(text), text[p + 1] = "backslash",
           text[p + 2] \in EscapeCodes, InnerSizes(text, b, p, quote) = {n}
    PROVE  /\ InnerSizes(text, b, p + 2, quote) = {n + 1}
           /\ Inner(text, b, p + 2) # <<"BYTE">>
<1>1. Len(text) \in Nat
  BY LenProperties
<1>2. PICK q \in Nat, o \in Nat : q = p + 1 /\ o = p + 2
  OBVIOUS
<1>3. /\ b + 1 < q /\ q <= Len(text) /\ q - 1 = p
      /\ b + 1 < o /\ b + 1 <= o /\ b + 2 < o /\ o <= Len(text) /\ o - 1 = q /\ o - 2 = p
  BY <1>1, <1>2
<1>4. /\ text[q] = "backslash" /\ text[o] \in EscapeCodes
      /\ InnerSizes(text, b, q - 1, quote) # {}
  BY <1>2, <1>3
<1>5. InnerSizes(text, b, q, quote) = {}
  BY ONLY <1>3, <1>4, NoDoubleBackslash, text \in Seq(STRING), b \in Nat, q \in Nat
<1>6. /\ InnerSizes(text, b, o - 1, quote) = {} /\ InnerSizes(text, b, o - 2, quote) = {n}
      /\ text[o - 1] = "backslash"
  BY <1>3, <1>4, <1>5
<1>7. InnerSizes(text, b, o, quote) = {n + 1}
  BY ONLY <1>3, <1>4, <1>6, InnerCases, text \in Seq(STRING), b \in Nat, o \in Nat, n \in Nat
<1>8. Inner(text, b, o) # <<"BYTE">>
  <2>1. Len(Inner(text, b, o)) = o - (b + 1)
    BY ONLY <1>3, InnerIs, text \in Seq(STRING), b \in Nat, o \in Nat
  <2>2. o - (b + 1) # 1 /\ Len(<<"BYTE">>) = 1
    BY <1>3
  <2>3. QED
    BY <2>1, <2>2
<1>9. QED
  BY <1>2, <1>7, <1>8

LEMMA EscapeRead == ASSUME LexInv, GrammarInv, Escape PROVE GrammarInv'
<1>1. /\ contents \in Seq(STRING) /\ offset \in Nat /\ Len(contents) \in Nat
      /\ offset + 2 <= Len(contents) /\ InLiteral /\ ~done
      /\ UNCHANGED <<contents, done>> /\ offset' = offset + 2
      /\ literal \in Literals /\ contents[offset + 1] = "backslash"
  BY PlaceFacts, Open DEF Escape, GoTo, AtEnd, Is, CharacterAt
<1>2. PICK b, quote, size, foreign, valid :
          /\ b = literal.begin /\ quote = literal.quote /\ size = literal.size
          /\ foreign = literal.foreign /\ valid = literal.valid
  OBVIOUS
<1>3. /\ CharacterAt(contents, b) = quote /\ (errors = <<>> => valid)
      /\ b \in Nat /\ b < offset /\ quote \in Quotes /\ Place = b
  BY <1>1, <1>2, Open DEF GrammarInv, LiteralRead, Place
<1>4. CASE /\ Is(offset + 1, EscapeCodes)
           /\ literal' = [literal EXCEPT !.size = @ + 1]
           /\ UNCHANGED <<tokens, errors>>
  <2>1. /\ literal'.begin = b /\ literal'.quote = quote /\ literal'.size = size + 1
        /\ literal'.foreign = foreign /\ literal'.valid = valid
    BY <1>1, <1>2, <1>4 DEF Literals
  <2>2. InLiteral'
    BY <1>3, <2>1 DEF InLiteral, NoLiteral, Quotes
  <2>3. Place' = b
    BY <2>1, <2>2 DEF Place
  <2>4. ASSUME valid
        PROVE  /\ InnerSizes(contents, b, offset + 2, quote) = {size + 1}
               /\ size + 1 # 0
               /\ size + 1 = 1 => (foreign # {} <=> Inner(contents, b, offset + 2) = <<"BYTE">>)
    <3>1. /\ b + 1 <= offset /\ size \in Nat
          /\ InnerSizes(contents, b, offset, quote) = {size}
          /\ size = 0 => offset = b + 1 /\ foreign = {}
      BY <1>1, <1>2, <2>4, ValidLiteral
    <3>2. /\ b + 1 <= offset /\ offset + 2 <= Len(contents)
          /\ contents[offset + 1] = "backslash" /\ contents[offset + 2] \in EscapeCodes
      BY <1>1, <1>4, <3>1 DEF Is, CharacterAt
    <3>3. /\ InnerSizes(contents, b, offset + 2, quote) = {size + 1}
          /\ Inner(contents, b, offset + 2) # <<"BYTE">>
      <4>1. PICK text \in Seq(STRING), p \in Nat : text = contents /\ p = offset
        BY <1>1
      <4>2. /\ b + 1 <= p /\ p + 2 <= Len(text) /\ text[p + 1] = "backslash"
            /\ text[p + 2] \in EscapeCodes /\ InnerSizes(text, b, p, quote) = {size}
            /\ b \in Nat /\ size \in Nat
        BY <1>3, <3>1, <3>2, <4>1
      <4>3. /\ InnerSizes(text, b, p + 2, quote) = {size + 1}
            /\ Inner(text, b, p + 2) # <<"BYTE">>
        BY ONLY <4>2, EscapeCounted, text \in Seq(STRING), p \in Nat
      <4>4. QED
        BY <4>1, <4>3
    <3>4. size + 1 # 0 /\ (size + 1 = 1 => size = 0)
      BY <3>1
    <3>5. QED
      BY <3>1, <3>3, <3>4
  <2>5. LiteralRead'
    BY <1>1, <1>3, <1>4, <2>1, <2>4 DEF LiteralRead
  <2>6. QED
    BY <1>1, <1>3, <1>4, <2>3, <2>5, NothingAdded
<1>5. CASE /\ ~Is(offset + 1, EscapeCodes)
           /\ literal' = [literal EXCEPT !.valid = FALSE]
           /\ ReportError(offset, offset + 2)
  <2>1. literal'.begin = b /\ literal'.quote = quote /\ literal'.valid = FALSE
    BY <1>1, <1>2, <1>5 DEF Literals
  <2>2. InLiteral'
    BY <1>3, <2>1 DEF InLiteral, NoLiteral, Quotes
  <2>3. Place' = b
    BY <2>1, <2>2 DEF Place
  <2>4. errors' # <<>>
    <3>1. Append(errors, Span(offset, offset + 2)) # <<>>
      <4>1. Span(offset, offset + 2) \in Spans
        BY <1>1 DEF Span, Spans
      <4>2. QED
        BY <4>1, PlaceFacts, AppendProperties
    <3>2. QED
      BY <1>5, <3>1 DEF ReportError
  <2>5. LiteralRead'
    BY <1>1, <1>3, <2>1, <2>4 DEF LiteralRead
  <2>6. ASSUME errors = <<>> PROVE NoLexemeAt(contents, b)
    <3>1. valid /\ literal.valid
      BY <1>2, <1>3, <2>6
    <3>2. InnerSizes(contents, b, offset, quote) # {} /\ b + 1 <= offset
      BY <1>1, <1>2, <3>1, ValidLiteral
    <3>3. StuckAt(contents, offset, quote)
      BY <1>1, <1>5 DEF StuckAt, Is, AtEnd, CharacterAt
    <3>4. ~(offset < Len(contents) /\ contents[offset + 1] = quote)
      BY <1>1, <1>3 DEF Quotes
    <3>5. offset <= Len(contents)
      BY <1>1
    <3>6. QED
      BY <1>1, <1>3, <3>2, <3>3, <3>4, <3>5, LiteralStuck
  <2>7. QED
    BY <1>1, <1>3, <1>5, <2>3, <2>5, <2>6, ErrorAdded
<1>6. QED
  BY <1>4, <1>5 DEF Escape

\* What leaves the literal cannot be in it.
LEMMA BreaksOff ==
    ASSUME LexInv, GrammarInv, InLiteral, StuckAt(contents, offset, literal.quote),
           offset < Len(contents) => contents[offset + 1] # literal.quote,
           NEW begin \in Nat, NEW end, offset <= begin \/ begin = literal.begin,
           ReportError(begin, end), NEW o \in Nat, offset <= o, GoTo(o), literal' = NoLiteral
    PROVE  GrammarInv'
<1>1. /\ contents \in Seq(STRING) /\ offset \in Nat /\ Len(contents) \in Nat
      /\ offset <= Len(contents) /\ ~done /\ UNCHANGED <<contents, done>> /\ offset' = o
  BY PlaceFacts, Open DEF GoTo
<1>2. PICK b, quote : b = literal.begin /\ quote = literal.quote
  OBVIOUS
<1>3. /\ errors = <<>> => literal.valid
      /\ b \in Nat /\ b < offset /\ quote \in Quotes /\ Place = b
  BY <1>2, Open DEF GrammarInv, LiteralRead, Place
<1>4. LiteralRead' /\ Place' = o
  BY <1>1 DEF LiteralRead, InLiteral, Place
<1>5. ASSUME errors = <<>> PROVE NoLexemeAt(contents, b)
  <2>1. /\ InnerSizes(contents, b, offset, quote) # {} /\ b + 1 <= offset
        /\ CharacterAt(contents, b) = quote
    BY <1>2, <1>3, <1>5, ValidLiteral
  <2>2. StuckAt(contents, offset, quote)
    BY <1>2
  <2>3. ~(offset < Len(contents) /\ contents[offset + 1] = quote)
    BY <1>2
  <2>4. QED
    BY <1>1, <1>3, <2>1, <2>2, <2>3, LiteralStuck
<1>6. Place <= begin /\ Place <= Place' /\ Place' \in Nat
  BY <1>1, <1>2, <1>3, <1>4
<1>7. QED
  BY <1>1, <1>3, <1>4, <1>5, <1>6, ErrorAdded

LEMMA BrokenRead ==
    ASSUME LexInv, GrammarInv, TrailingBackslash \/ RawNewline \/ UnterminatedLiteral
    PROVE  GrammarInv'
<1>1. /\ contents \in Seq(STRING) /\ offset \in Nat /\ Len(contents) \in Nat
      /\ offset <= Len(contents) /\ InLiteral /\ literal.quote \in Quotes
      /\ literal.begin \in Nat /\ literal' = NoLiteral
  BY PlaceFacts, Open DEF TrailingBackslash, RawNewline, UnterminatedLiteral
<1>2. CASE TrailingBackslash
  <2>1. /\ offset < Len(contents) /\ contents[offset + 1] = "backslash"
        /\ ~(offset + 1 < Len(contents))
        /\ ReportError(offset, offset + 1) /\ GoTo(offset + 1)
    BY <1>1, <1>2 DEF TrailingBackslash, Is, AtEnd, CharacterAt
  <2>2. StuckAt(contents, offset, literal.quote)
    BY <2>1 DEF StuckAt
  <2>3. contents[offset + 1] # literal.quote
    BY <1>1, <2>1 DEF Quotes
  <2>4. offset + 1 \in Nat /\ offset <= offset + 1 /\ offset <= offset
    BY <1>1
  <2>5. QED
    BY <1>1, <2>1, <2>2, <2>3, <2>4, BreaksOff
<1>3. CASE RawNewline
  <2>1. PICK begin \in {offset, offset + 1} :
            /\ begin > offset => Is(offset, {"backslash"})
            /\ Is(begin, Newlines)
            /\ ReportError(begin, AfterNewline(begin))
            /\ GoTo(AfterNewline(begin))
    BY <1>3 DEF RawNewline
  <2>2. begin \in Nat /\ offset <= begin
    BY <1>1
  <2>3. AfterNewline(begin) \in Nat /\ begin < AfterNewline(begin)
    BY <1>1, <2>1, <2>2, NewlineInside
  <2>4. begin < Len(contents) /\ contents[begin + 1] \in Newlines
    BY <1>1, <2>1, <2>2 DEF Is, AtEnd, CharacterAt
  <2>5. /\ StuckAt(contents, offset, literal.quote)
        /\ offset < Len(contents) => contents[offset + 1] # literal.quote
    <3>1. CASE begin = offset
      BY <1>1, <2>4, <3>1 DEF StuckAt, Newlines, Quotes
    <3>2. CASE begin = offset + 1
      <4>1. contents[offset + 1] = "backslash" /\ offset + 2 = begin + 1
        BY <1>1, <2>1, <3>2 DEF Is, CharacterAt
      <4>2. contents[offset + 2] \notin EscapeCodes
        BY <2>4, <4>1 DEF Newlines, EscapeCodes
      <4>3. QED
        BY <1>1, <4>1, <4>2 DEF StuckAt, Quotes
    <3>3. QED
      BY <2>1, <3>1, <3>2
  <2>6. offset <= AfterNewline(begin)
    BY <1>1, <2>2, <2>3
  <2>7. QED
    BY <1>1, <2>1, <2>2, <2>3, <2>5, <2>6, BreaksOff
<1>4. CASE UnterminatedLiteral
  <2>1. offset = Len(contents) /\ ReportError(literal.begin, offset) /\ GoTo(offset)
    BY <1>1, <1>4 DEF UnterminatedLiteral, AtEnd
  <2>2. StuckAt(contents, offset, literal.quote) /\ ~(offset < Len(contents)) /\ offset <= offset
    BY <1>1, <2>1 DEF StuckAt
  <2>3. QED
    BY <1>1, <2>1, <2>2, BreaksOff
<1>5. QED
  BY <1>2, <1>3, <1>4

LEMMA CloseRead == ASSUME LexInv, GrammarInv, CloseLiteral PROVE GrammarInv'
<1>1. /\ contents \in Seq(STRING) /\ offset \in Nat /\ Len(contents) \in Nat
      /\ offset < Len(contents) /\ contents[offset + 1] = literal.quote
      /\ InLiteral /\ ~done /\ literal' = NoLiteral
      /\ UNCHANGED <<contents, done>> /\ offset' = offset + 1
  BY PlaceFacts, Open DEF CloseLiteral, GoTo, Is, AtEnd, CharacterAt
<1>2. PICK b, quote, size, foreign :
          /\ b = literal.begin /\ quote = literal.quote /\ size = literal.size
          /\ foreign = literal.foreign
  OBVIOUS
<1>3. /\ errors = <<>> => literal.valid
      /\ b \in Nat /\ b < offset /\ quote \in Quotes /\ Place = b
      /\ \A o \in foreign : o \in Nat /\ b < o
  BY <1>1, <1>2, Open DEF GrammarInv, LiteralRead, Place
<1>4. LiteralRead' /\ Place' = offset + 1
  BY <1>1 DEF LiteralRead, InLiteral, Place
<1>5. Place' \in Nat /\ Place <= Place'
  BY <1>1, <1>3, <1>4
<1>6. CASE ~literal.valid /\ UNCHANGED <<tokens, errors>>
  BY <1>1, <1>3, <1>4, <1>5, <1>6, NothingAdded
<1>7. PICK p \in Nat : p = offset + 1
  BY <1>1
<1>8. ASSUME literal.valid
      PROVE  /\ IF \/ quote = "string"
                   \/ size = 1 /\ foreign = {}
                THEN LexemeAt(contents, b, p, <<quote>>) ELSE NoLexemeAt(contents, b)
  <2>1. /\ InnerSizes(contents, b, offset, quote) = {size} /\ b + 1 <= offset
        /\ CharacterAt(contents, b) = quote
        /\ size = 1 => (foreign # {} <=> Inner(contents, b, offset) = <<"BYTE">>)
    BY <1>1, <1>2, <1>8, ValidLiteral
  <2>2. StuckAt(contents, offset, quote)
    BY <1>1, <1>2 DEF StuckAt
  <2>3. IF offset < Len(contents) /\ contents[offset + 1] = quote
           /\ IsLiteral(Spelling(contents, b, offset + 1), quote)
        THEN LexemeAt(contents, b, offset + 1, <<quote>>)
        ELSE NoLexemeAt(contents, b)
    <3>1. offset <= Len(contents) /\ InnerSizes(contents, b, offset, quote) # {}
      BY <1>1, <2>1
    <3>2. QED
      BY <1>1, <1>3, <2>1, <2>2, <3>1, LiteralStuck
  <2>4. IsLiteral(Spelling(contents, b, p), quote) <=>
            /\ b + 1 < p /\ contents[b + 1] = quote /\ contents[p] = quote
            /\ \E n \in InnerSizes(contents, b, p - 1, quote) :
                 quote = "character" => n = 1 /\ Inner(contents, b, p - 1) # <<"BYTE">>
    <3>1. p \in (b + 1)..Len(contents)
      BY <1>1, <1>3, <1>7
    <3>2. QED
      BY ONLY <1>1, <1>3, <3>1, LiteralIs
  <2>5. p - 1 = offset /\ b + 1 < p /\ contents[b + 1] = quote /\ contents[p] = quote
    BY <1>1, <1>2, <1>3, <1>7, <2>1 DEF CharacterAt
  <2>6. IsLiteral(Spelling(contents, b, p), quote) <=>
            (quote = "character" => size = 1 /\ Inner(contents, b, offset) # <<"BYTE">>)
    BY ONLY <2>1, <2>4, <2>5
  <2>7. quote = "character" <=> quote # "string"
    BY <1>3 DEF Quotes
  <2>8. QED
    BY <1>1, <1>2, <1>7, <2>1, <2>3, <2>6, <2>7
<1>9. CASE /\ literal.valid
           /\ quote = "string" \/ (size = 1 /\ foreign = {})
           /\ AddToken(<<quote>>, b, p)
  <2>1. LexemeAt(contents, Place, p, <<quote>>) /\ Place' = p /\ AddToken(<<quote>>, Place, p)
    BY <1>3, <1>4, <1>7, <1>8, <1>9
  <2>2. QED
    BY <1>1, <1>4, <2>1, LexemeAdded
<1>10. CASE /\ literal.valid /\ quote = "character" /\ size # 1 /\ ReportError(b, p)
  <2>1. NoLexemeAt(contents, Place)
    BY <1>3, <1>8, <1>10
  <2>2. Place <= b
    BY <1>3
  <2>3. QED
    BY <1>1, <1>3, <1>4, <1>5, <1>10, <2>1, <2>2, ErrorAdded
<1>11. CASE /\ literal.valid /\ quote = "character"
            /\ \E o \in foreign : ReportError(o, o + 1)
  <2>1. PICK o \in foreign : ReportError(o, o + 1)
    BY <1>11
  <2>2. NoLexemeAt(contents, Place)
    BY <1>3, <1>8, <1>11, <2>1
  <2>3. o \in Nat /\ Place <= o
    BY <1>3, <2>1
  <2>4. QED
    BY <1>1, <1>4, <1>5, <2>1, <2>2, <2>3, ErrorAdded
<1>12. QED
  BY <1>2, <1>6, <1>7, <1>9, <1>10, <1>11 DEF CloseLiteral

LEMMA GrammarStarts == Init => GrammarInv
<1> SUFFICES ASSUME Init PROVE GrammarInv
  OBVIOUS
<1>1. /\ contents \in Seq(STRING) /\ offset = 0 /\ tokens = <<>> /\ errors = <<>> /\ ~InLiteral
      /\ done = FALSE
  BY TextsAssumption DEF Init, InLiteral
<1>2. LexInv /\ Place = 0
  BY <1>1, LexStarts DEF Place
<1>3. Cuts(contents)[0].tokens \in Seq(Tokens)
  BY <1>2, CutsFacts
<1>4. <<>> \o Cuts(contents)[0].tokens = Cuts(contents)[0].tokens
  BY <1>3, ConcatEmptySeq
<1>5. Follows
  BY <1>1, <1>2, <1>4 DEF Follows, Whole
<1>6. LiteralRead /\ KindsRight
  BY <1>1 DEF LiteralRead, KindsRight
<1>7. QED
  BY <1>1, <1>5, <1>6 DEF GrammarInv

LEMMA GrammarSteps == ASSUME LexInv, GrammarInv, [Next]_vars PROVE GrammarInv'
<1>1. CASE SkipWhitespace \/ SkipComment \/ LexIdentifier \/ LexInteger \/ LexOperator
           \/ UnknownCharacter
  BY <1>1, ScansOneThing
<1>2. CASE OpenLiteral
  BY <1>2, OpensOne
<1>3. CASE LiteralCharacter
  BY <1>3, CharacterRead
<1>4. CASE Escape
  BY <1>4, EscapeRead
<1>5. CASE TrailingBackslash \/ RawNewline \/ UnterminatedLiteral
  BY <1>5, BrokenRead
<1>6. CASE CloseLiteral
  BY <1>6, CloseRead
<1>7. CASE EndOfFile
  BY <1>7, EndAdded
<1>8. CASE UNCHANGED vars
  BY <1>8 DEF vars, GrammarInv, LiteralRead, KindsRight, Follows, Left, Whole, Place, InLiteral
<1>9. QED
  BY <1>1, <1>2, <1>3, <1>4, <1>5, <1>6, <1>7, <1>8 DEF Next

(* Lexer::lex() implements the lexical grammar: for texts of any length over any reserved   *)
(* words, a text of the grammar is cut into its longest lexemes and nothing is reported;    *)
(* any other text is reported, no earlier than where it leaves the grammar, and is cut as   *)
(* the grammar says up to there. Every token is a lexeme of its kind.                       *)
THEOREM LexesItsGrammar == Spec => []LexesTheGrammar
<1>1. ASSUME LexInv, GrammarInv PROVE LexesTheGrammar
  <2>1. \A i \in DOMAIN tokens : tokens[i].kind \in {KindOf(Slice(contents, tokens[i])), EndKind}
    BY <1>1 DEF GrammarInv, KindsRight
  <2>2. /\ Whole.tokens \in Seq(Tokens) /\ Whole.stop \in Nat /\ Whole.stop <= Len(contents)
        /\ tokens \in Seq(Tokens) /\ Len(contents) \in Nat
    BY <1>1, CutsFacts, PlaceFacts
  <2>3. AtEnd(Whole.stop) <=> Whole.stop = Len(contents)
    BY <2>2 DEF AtEnd
  <2>4. ASSUME done, errors = <<>>
        PROVE  AtEnd(Whole.stop) /\ tokens = Whole.tokens
    BY <1>1, <2>3, <2>4 DEF GrammarInv
  <2>5. ASSUME errors # <<>>
        PROVE  /\ ~AtEnd(Whole.stop) /\ errors[1].begin >= Whole.stop
               /\ SubSeq(tokens, 1, Len(Whole.tokens)) = Whole.tokens
               /\ Len(tokens) > Len(Whole.tokens) =>
                    tokens[Len(Whole.tokens) + 1].begin >= Whole.stop
    <3>1. Left
      BY <1>1, <2>5 DEF GrammarInv
    <3>2. PICK m \in Nat : m = Len(Whole.tokens)
      BY <2>2, LenProperties
    <3>3. m <= Len(tokens) /\ \A i \in 1..m : tokens[i] = Whole.tokens[i]
      BY <3>1, <3>2 DEF Left
    <3>4. PICK s : s = SubSeq(tokens, 1, m)
      OBVIOUS
    <3>5. s \in Seq(Tokens) /\ Len(s) = m /\ \A i \in 1..m : s[i] = tokens[i]
      <4>1. \A i \in 1..m : tokens[i] \in Tokens
        BY <2>2, <3>3, LenProperties, ElementOfSeq
      <4>2. /\ s \in Seq(Tokens) /\ Len(s) = IF 1 <= m THEN m - 1 + 1 ELSE 0
            /\ \A i \in 1 .. m - 1 + 1 : s[i] = tokens[1 + i - 1]
        BY <3>4, <4>1, SubSeqProperties
      <4>3. QED
        BY <4>2
    <3>6. s = Whole.tokens
      BY <2>2, <3>2, <3>3, <3>5, SeqEqual
    <3>7. QED
      BY <2>2, <2>3, <3>1, <3>2, <3>4, <3>6 DEF Left
  <2>6. QED
    BY <2>1, <2>4, <2>5 DEF LexesTheGrammar, Whole
<1>2. Spec => [](LexInv /\ GrammarInv)
  <2>1. Init => LexInv /\ GrammarInv
    BY LexStarts, GrammarStarts
  <2>2. LexInv /\ GrammarInv /\ [Next]_vars => (LexInv /\ GrammarInv)'
    BY LexSteps, GrammarSteps
  <2>3. QED
    BY <2>1, <2>2, PTL DEF Spec
<1>3. QED
  BY <1>1, <1>2, PTL

=============================================================================
