-------------------------- MODULE SourcePositions --------------------------
(***************************************************************************)
(* What SourceManager says of a place in a text, and which columns the     *)
(* diagnostics engine marks for a span.  Offsets count from 0; a span is   *)
(* [begin, end) .                                                          *)
(***************************************************************************)
EXTENDS Naturals, Sequences, FiniteSets

CharacterAt(text, offset) == text[offset + 1]

LineStarts(text) ==
    {0} \cup {offset + 1 : offset \in {o \in 0..(Len(text) - 1) : CharacterAt(text, o) = "LF"}}

\* Mutant: the start of a line belongs to the line before it.
LineIndexBefore(text, offset) ==
    Cardinality({start \in LineStarts(text) : start < offset \/ start = 0}) - 1

\* The last line that starts at the offset or before it.
LineIndex(text, offset) == Cardinality({start \in LineStarts(text) : start <= offset}) - 1

\* line_starts is sorted: an element has as many before it as its index says.
LineStart(text, index) ==
    CHOOSE start \in LineStarts(text) :
        Cardinality({s \in LineStarts(text) : s < start}) = index

Position(text, offset) ==
    LET index == LineIndex(text, offset)
    IN  [line |-> index + 1, column |-> offset - LineStart(text, index) + 1]

\* A line without its line feed and one carriage return before it.
LineContaining(text, offset) ==
    LET begin == LineStart(text, LineIndex(text, offset))
        end == CHOOSE e \in begin..Len(text) :
                    /\ e = Len(text) \/ CharacterAt(text, e) = "LF"
                    /\ \A o \in begin..(e - 1) : CharacterAt(text, o) # "LF"
        stripped == IF end > begin /\ CharacterAt(text, end - 1) = "CR" THEN end - 1 ELSE end
    IN  SubSeq(text, begin + 1, stripped)

IsSlice(text, span) == span.begin <= span.end /\ span.end <= Len(text)

Slice(text, span) == SubSeq(text, span.begin + 1, span.end)

\* The columns under which render_source_line() writes its marker: after prefix
\* columns, length of them.
Marker(text, span) ==
    LET line == LineContaining(text, span.begin)
        prefix == Position(text, span.begin).column - 1
        available == IF prefix < Len(line) THEN Len(line) - prefix ELSE 0
        requested == Len(Slice(text, span))
        shorter == IF requested < available THEN requested ELSE available
    IN  [line |-> line, prefix |-> prefix, length |-> IF shorter = 0 THEN 1 ELSE shorter]

\* A span is shown in the line where it begins, its columns counted from the last line
\* feed, and what is marked is the text of the span up to the end of the line. At the
\* end of the line a place without text is marked.
IsShown(text, span) ==
    LET before == SubSeq(text, 1, span.begin)
        feeds == {i \in DOMAIN before : before[i] = "LF"}
        position == Position(text, span.begin)
        marker == Marker(text, span)
        slice == Slice(text, span)
    IN  /\ position.line = Cardinality(feeds) + 1
        /\ position.column - 1 =
                Cardinality({i \in DOMAIN before : \A f \in feeds : f < i})
        /\ \A i \in 1..marker.length :
                \/ marker.prefix + i > Len(marker.line) /\ i = 1
                \/ i <= Len(slice) /\ marker.line[marker.prefix + i] = slice[i]
                \/ i = 1 /\ slice = <<>>
        /\ marker.length < Len(slice) => slice[marker.length + 1] \in {"CR", "LF"}

=============================================================================
