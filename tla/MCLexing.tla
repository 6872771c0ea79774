------------------------------ MODULE MCLexing ------------------------------
EXTENDS Lexing

All == {"i", "n", "0", "string", "character", "backslash", "CR", "LF", " ", "OTHER", "BYTE",
        "(", ".", "=", "/", "&"}
InLiterals == {"n", "string", "character", "backslash", "CR", "LF", "BYTE"}

TextsOf(characters, n) == UNION {[1..l -> characters] : l \in 0..n}

MCTexts == TextsOf(All, 4) \cup TextsOf(InLiterals, 5) \cup TextsOf({".", "=", "/", "LF", "i"}, 5)
MCReservedWords == {<<"i", "n">>}

=============================================================================
