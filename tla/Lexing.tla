------------------------------- MODULE Lexing -------------------------------
(***************************************************************************)
(* What Lexer makes of a text, against the lexical grammar, and where its  *)
(* spans are shown to the user.                                            *)
(***************************************************************************)
EXTENDS Lexer

\* The numbers of elements that s can be cut into, plain characters and escapes: none if
\* something in it is neither.
Sizes(s, quote) ==
    LET upTo[n \in 0..Len(s)] ==
            IF n = 0 THEN {0}
            ELSE {size + 1 : size \in
                    (IF s[n] \in Newlines \cup {quote, "backslash"} THEN {} ELSE upTo[n - 1])
                    \cup
                    (IF n > 1 /\ s[n - 1] = "backslash" /\ s[n] \in EscapeCodes
                     THEN upTo[n - 2] ELSE {})}
    IN  upTo[Len(s)]

IsLiteral(s, quote) ==
    /\ Len(s) > 1 /\ s[1] = quote /\ s[Len(s)] = quote
    /\ LET inner == SubSeq(s, 2, Len(s) - 1)
       IN  \E size \in Sizes(inner, quote) :
                quote = "character" => size = 1 /\ inner # <<"BYTE">>

Made(s, characters) == s # <<>> /\ \A i \in DOMAIN s : s[i] \in characters

\* The kind of a lexeme, or none.
NotALexeme == <<"none">>
KindOf(s) ==
    CASE s \in ReservedWords \cup Operators -> s
      [] Made(s, Letters \cup Digits) /\ s[1] \in Letters /\ s \notin ReservedWords ->
            <<"identifier">>
      [] Made(s, Digits) -> <<"integer">>
      [] IsLiteral(s, "string") -> <<"string">>
      [] IsLiteral(s, "character") -> <<"character">>
      [] OTHER -> NotALexeme

StartsWith(text, o, characters) == o < Len(text) /\ CharacterAt(text, o) \in characters

\* The end of the line in which o is.
LineEnd(text, o) ==
    CHOOSE e \in o..Len(text) :
        /\ e = Len(text) \/ StartsWith(text, e, Newlines)
        /\ \A i \in o..(e - 1) : ~StartsWith(text, i, Newlines)

\* Where a blank or a comment that starts at o ends; o if there is none.
SkipBlank(text, o) ==
    IF StartsWith(text, o, Whitespace) THEN o + 1
    ELSE IF StartsWith(text, o, {"/"}) /\ StartsWith(text, o + 1, {"/"})
         THEN LineEnd(text, o + 2)
         ELSE o

Spelling(text, o, end) == SubSeq(text, o + 1, end)

\* Where the lexemes that start at o end, and the longest of them.
Lexemes(text, o) == {end \in (o + 1)..Len(text) : KindOf(Spelling(text, o, end)) # NotALexeme}
Longest(text, o) == CHOOSE end \in Lexemes(text, o) : \A e \in Lexemes(text, o) : e <= end
Lexeme(text, o) == Token(KindOf(Spelling(text, o, Longest(text, o))), o, Longest(text, o))

\* The text from each place on, cut into the longest lexemes, up to the first place where
\* there is none.
Cuts(text) ==
    LET cut[o \in 0..Len(text)] ==
            IF o = Len(text) THEN [tokens |-> <<Token(EndKind, o, o)>>, stop |-> o]
            ELSE IF SkipBlank(text, o) # o THEN cut[SkipBlank(text, o)]
            ELSE IF Lexemes(text, o) = {} THEN [tokens |-> <<>>, stop |-> o]
            ELSE [tokens |-> <<Lexeme(text, o)>> \o cut[Longest(text, o)].tokens,
                  stop |-> cut[Longest(text, o)].stop]
    IN  cut

\* A text of the grammar is cut as the grammar says and nothing is reported; any other
\* is reported, no earlier than where it leaves the grammar, and up to there it is cut
\* as the grammar says. Whatever was reported, every token is a lexeme of its kind.
LexesTheGrammar ==
    /\ \A i \in DOMAIN tokens :
        tokens[i].kind \in {KindOf(Slice(contents, tokens[i])), EndKind}
    /\ done =>
        LET cut == Cuts(contents)[0]
        IN  IF AtEnd(cut.stop) THEN tokens = cut.tokens /\ errors = <<>>
            ELSE /\ errors # <<>> /\ errors[1].begin >= cut.stop
                 /\ SubSeq(tokens, 1, Len(cut.tokens)) = cut.tokens
                 /\ Len(tokens) > Len(cut.tokens) => tokens[Len(cut.tokens) + 1].begin >= cut.stop

=============================================================================
