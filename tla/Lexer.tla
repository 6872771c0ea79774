------------------------------- MODULE Lexer -------------------------------
(***************************************************************************)
(* Lexer::lex: one action per turn of its loop, and one per turn of the    *)
(* loops of lex_string() and lex_character(), which are the same but for   *)
(* their ends.  One character stands for a class of characters that the    *)
(* code treats alike; "OTHER" is an unknown one, "BYTE" one that is not    *)
(* ASCII.  A token's kind is its spelling where that decides it.           *)
(***************************************************************************)
EXTENDS SourcePositions

CONSTANTS
    Texts,          \* the source texts
    ReservedWords   \* spellings, as sequences of letters

VARIABLES
    contents,       \* the text
    offset,         \* what comes next
    tokens,         \* [kind, begin, end]
    errors,         \* spans of reported errors
    literal,        \* the literal that is being scanned, or none
    done            \* whether the end of file was added

vars == <<contents, offset, tokens, errors, literal, done>>

Letters == {"i", "n"}

ASSUME TextsAssumption == Texts \subseteq Seq(STRING)
ASSUME ReservedWordsAssumption == ReservedWords \subseteq Seq(Letters) \ {<<>>}

Digits == {"0"}
Newlines == {"CR", "LF"}
Whitespace == {" "} \cup Newlines
Quotes == {"string", "character"}
EscapeCodes == {"backslash", "string", "character", "n", "0"}

\* One operator of each shape: alone, a prefix of longer ones, of one or two more.
Operators == { <<"(">>, <<".">>, <<".", ".">>, <<".", ".", "=">>, <<"=">>, <<"=", "=">>,
               <<"/">>, <<"/", "=">>, <<"&", "&">> }

EndKind == <<"end of file">>

NoLiteral == [quote |-> "none", begin |-> 0, valid |-> TRUE, size |-> 0, foreign |-> {}]

Init ==
    /\ contents \in Texts
    /\ offset = 0
    /\ tokens = <<>> /\ errors = <<>>
    /\ literal = NoLiteral
    /\ done = FALSE

-----------------------------------------------------------------------------
AtEnd(o) == o >= Len(contents)
Is(o, characters) == ~AtEnd(o) /\ CharacterAt(contents, o) \in characters

Span(begin, end) == [begin |-> begin, end |-> end]
Token(kind, begin, end) == [kind |-> kind, begin |-> begin, end |-> end]

Scanning == ~done /\ literal = NoLiteral /\ ~AtEnd(offset)

AddToken(kind, begin, end) ==
    tokens' = Append(tokens, Token(kind, begin, end)) /\ UNCHANGED errors
ReportError(begin, end) ==
    errors' = Append(errors, Span(begin, end)) /\ UNCHANGED tokens

GoTo(o) == offset' = o /\ UNCHANGED <<contents, done>>

\* The longest run of characters from offset to end.
Run(characters, end) ==
    /\ end > offset
    /\ \A o \in offset..(end - 1) : CharacterAt(contents, o) \in characters
    /\ ~Is(end, characters)

SkipWhitespace ==
    /\ Scanning /\ Is(offset, Whitespace)
    /\ GoTo(offset + 1)
    /\ UNCHANGED <<tokens, errors, literal>>

StartsComment == Is(offset, {"/"}) /\ Is(offset + 1, {"/"})

SkipComment ==
    /\ Scanning /\ StartsComment
    /\ \E end \in (offset + 2)..Len(contents) :
        /\ \A o \in (offset + 2)..(end - 1) : ~Is(o, Newlines)
        /\ AtEnd(end) \/ Is(end, Newlines)
        /\ GoTo(end)
    /\ UNCHANGED <<tokens, errors, literal>>

LexIdentifier ==
    /\ Scanning /\ Is(offset, Letters)
    /\ \E end \in offset..Len(contents) :
        LET spelling == SubSeq(contents, offset + 1, end)
        IN  /\ Run(Letters \cup Digits, end)
            /\ AddToken(IF spelling \in ReservedWords THEN spelling ELSE <<"identifier">>, offset, end)
            /\ GoTo(end)
    /\ UNCHANGED literal

LexInteger ==
    /\ Scanning /\ Is(offset, Digits)
    /\ \E end \in offset..Len(contents) :
        /\ Run(Digits, end)
        /\ AddToken(<<"integer">>, offset, end)
        /\ GoTo(end)
    /\ UNCHANGED literal

Spelled(end) == SubSeq(contents, offset + 1, end)

\* Mutant: the first operator that fits is taken.
LexShortestOperator ==
    /\ Scanning /\ ~StartsComment
    /\ \E end \in (offset + 1)..Len(contents) :
        /\ Spelled(end) \in Operators
        /\ \A e \in (offset + 1)..(end - 1) : Spelled(e) \notin Operators
        /\ AddToken(Spelled(end), offset, end)
        /\ GoTo(end)
    /\ UNCHANGED literal

LexOperator ==
    /\ Scanning /\ ~StartsComment
    /\ \E end \in (offset + 1)..Len(contents) :
        /\ Spelled(end) \in Operators
        /\ \A e \in (end + 1)..Len(contents) : Spelled(e) \notin Operators
        /\ AddToken(Spelled(end), offset, end)
        /\ GoTo(end)
    /\ UNCHANGED literal

\* A character that starts nothing, or half of an operator.
UnknownCharacter ==
    /\ Scanning
    /\ ~Is(offset, Whitespace \cup Letters \cup Digits \cup Quotes)
    /\ \A end \in (offset + 1)..Len(contents) : Spelled(end) \notin Operators
    /\ ReportError(offset, offset + 1)
    /\ GoTo(offset + 1)
    /\ UNCHANGED literal

-----------------------------------------------------------------------------
(* Literals *)

InLiteral == literal # NoLiteral

OpenLiteral ==
    /\ Scanning /\ Is(offset, Quotes)
    /\ literal' = [quote |-> CharacterAt(contents, offset), begin |-> offset,
                   valid |-> TRUE, size |-> 0, foreign |-> {}]
    /\ GoTo(offset + 1)
    /\ UNCHANGED <<tokens, errors>>

\* foreign has the place of the first byte that is not ASCII.
LiteralCharacter ==
    /\ InLiteral /\ ~AtEnd(offset)
    /\ ~Is(offset, Newlines \cup {literal.quote, "backslash"})
    /\ literal' = [literal EXCEPT
            !.size = @ + 1,
            !.foreign = IF Is(offset, {"BYTE"}) /\ @ = {} THEN {offset} ELSE @]
    /\ GoTo(offset + 1)
    /\ UNCHANGED <<tokens, errors>>

Escape ==
    /\ InLiteral /\ Is(offset, {"backslash"})
    /\ ~AtEnd(offset + 1) /\ ~Is(offset + 1, Newlines)
    /\ \/ /\ Is(offset + 1, EscapeCodes)
          /\ literal' = [literal EXCEPT !.size = @ + 1]
          /\ UNCHANGED <<tokens, errors>>
       \/ /\ ~Is(offset + 1, EscapeCodes)
          /\ literal' = [literal EXCEPT !.valid = FALSE]
          /\ ReportError(offset, offset + 2)
    /\ GoTo(offset + 2)

TrailingBackslash ==
    /\ InLiteral /\ Is(offset, {"backslash"}) /\ AtEnd(offset + 1)
    /\ ReportError(offset, offset + 1)
    /\ GoTo(offset + 1)
    /\ literal' = NoLiteral

AfterNewline(o) == IF Is(o, {"CR"}) /\ Is(o + 1, {"LF"}) THEN o + 2 ELSE o + 1

\* A newline, with or without a backslash before it, ends the literal.
RawNewline ==
    /\ InLiteral
    /\ \E begin \in {offset, offset + 1} :
        /\ begin > offset => Is(offset, {"backslash"})
        /\ Is(begin, Newlines)
        /\ ReportError(begin, AfterNewline(begin))
        /\ GoTo(AfterNewline(begin))
    /\ literal' = NoLiteral

CloseLiteral ==
    /\ InLiteral /\ Is(offset, {literal.quote})
    /\ \/ /\ ~literal.valid
          /\ UNCHANGED <<tokens, errors>>
       \/ /\ literal.valid
          /\ literal.quote = "string" \/ (literal.size = 1 /\ literal.foreign = {})
          /\ AddToken(<<literal.quote>>, literal.begin, offset + 1)
       \/ /\ literal.valid /\ literal.quote = "character"
          /\ literal.size # 1 /\ literal.foreign = {}
          /\ ReportError(literal.begin, offset + 1)
       \/ /\ literal.valid /\ literal.quote = "character"
          /\ \E o \in literal.foreign : ReportError(o, o + 1)
    /\ GoTo(offset + 1)
    /\ literal' = NoLiteral

UnterminatedLiteral ==
    /\ InLiteral /\ AtEnd(offset)
    /\ ReportError(literal.begin, offset)
    /\ GoTo(offset)
    /\ literal' = NoLiteral

EndOfFile ==
    /\ ~done /\ ~InLiteral /\ AtEnd(offset)
    /\ AddToken(EndKind, offset, offset)
    /\ done' = TRUE
    /\ UNCHANGED <<contents, offset, literal>>

Next ==
    \/ SkipWhitespace \/ SkipComment
    \/ LexIdentifier \/ LexInteger \/ LexOperator \/ UnknownCharacter
    \/ OpenLiteral \/ LiteralCharacter \/ Escape \/ TrailingBackslash \/ RawNewline
    \/ CloseLiteral \/ UnterminatedLiteral
    \/ EndOfFile

Spec == Init /\ [][Next]_vars

-----------------------------------------------------------------------------
TokensInOrder ==
    /\ \A i \in DOMAIN tokens :
        /\ tokens[i].end <= offset /\ offset <= Len(contents)
        /\ IF tokens[i].kind = EndKind
           THEN tokens[i].begin = Len(contents) /\ tokens[i].end = Len(contents)
           ELSE tokens[i].begin < tokens[i].end
    /\ \A i \in 1..(Len(tokens) - 1) : tokens[i].end <= tokens[i + 1].begin

ErrorsApart ==
    \A e \in DOMAIN errors :
        /\ errors[e].begin < errors[e].end /\ errors[e].end <= offset
        /\ \A i \in DOMAIN tokens :
            tokens[i].end <= errors[e].begin \/ errors[e].end <= tokens[i].begin

\* Tokens follow each other in the text without overlapping, and none covers a reported
\* error: a broken literal leaves no token. All are inside the text, so that no later use
\* of their spans can leave it, and only the end of file is empty.
SpansInOrder == TokensInOrder /\ ErrorsApart

\* The span of every token and of every error is inside the text and shown where it is.
MarkerShowsSpan ==
    \A span \in {errors[i] : i \in DOMAIN errors} \cup {tokens[i] : i \in DOMAIN tokens} :
        IsSlice(contents, span) /\ IsShown(contents, span)

=============================================================================
