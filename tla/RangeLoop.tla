------------------------------- MODULE RangeLoop -------------------------------
(***************************************************************************)
(* The loop that the lowerer plans and the generator writes for a          *)
(* for-range statement: both bounds in constants, a hidden cursor, a copy  *)
(* of it for the body, and for an inclusive range a flag that tells        *)
(* whether the loop goes on.  The body is any code: it may assign the loop *)
(* variable and whatever the bounds were computed from.                    *)
(***************************************************************************)
EXTENDS Integers, Sequences

CONSTANTS
    MinInt, MaxInt  \* the limits of std::int64_t

ASSUME IntegerAssumption == MinInt \in Int /\ MaxInt \in Int /\ MinInt <= MaxInt

Integer == MinInt .. MaxInt

VARIABLES
    operator,    \* the range operator of the statement
    limit,       \* what the expression of its end bound evaluates to now
    pc,          \* the part of the generated statement that is next
    begin, end,  \* tpp_range_begin_, tpp_range_end_
    cursor,      \* tpp_range_cursor_
    active,      \* tpp_range_active_
    variable,    \* tpp_variable_ of the binding
    visited      \* history: the loop variable at each start of the body

temporaries == <<begin, end, cursor, active>>
vars == <<operator, limit, pc, temporaries, variable, visited>>

\* The constants and the cursor have no value before Enter declares them.
Init ==
    /\ operator \in {"exclusive", "inclusive"}
    /\ limit \in Integer
    /\ pc = "enter"
    /\ begin = MinInt /\ end = MinInt /\ cursor = MinInt
    /\ active = FALSE
    /\ variable = MinInt
    /\ visited = <<>>

\* The bounds are evaluated once, begin first, and the cursor starts at begin.
Enter ==
    /\ pc = "enter"
    /\ begin' \in Integer
    /\ end' = limit
    /\ active' = (operator = "inclusive" /\ begin' <= end')
    /\ cursor' = begin'
    /\ pc' = "test"
    /\ UNCHANGED <<operator, limit, variable, visited>>

\* Mutant: the end bound is evaluated again in every test.
RereadsEnd == IF operator = "exclusive" THEN cursor < limit ELSE active

\* Mutant: an exclusive range that visits its end.
VisitsEnd == IF operator = "exclusive" THEN cursor <= end ELSE active

Condition == IF operator = "exclusive" THEN cursor < end ELSE active

\* Bound on the history, one more than there are integers: never reached.
Fits == Len(visited) <= MaxInt - MinInt + 1

Test ==
    /\ pc = "test"
    /\ Fits
    /\ \/ /\ Condition
          /\ variable' = cursor
          /\ visited' = Append(visited, cursor)
          /\ pc' = "body"
       \/ /\ ~Condition
          /\ pc' = "done"
          /\ UNCHANGED <<variable, visited>>
    /\ UNCHANGED <<operator, limit, temporaries>>

\* Some statement of the body.
BodyAssigns ==
    /\ pc = "body"
    /\ variable' \in Integer
    /\ limit' \in Integer
    /\ UNCHANGED <<operator, pc, temporaries, visited>>

\* The end of the body, or continue.
BodyEnds ==
    /\ pc = "body"
    /\ pc' = "step"
    /\ UNCHANGED <<operator, limit, temporaries, variable, visited>>

\* break or return.
BodyLeaves ==
    /\ pc = "body"
    /\ pc' = "done"
    /\ UNCHANGED <<operator, limit, temporaries, variable, visited>>

\* Addition of one; its overflow is undefined behaviour.
Incremented(i) == IF i = MaxInt THEN Integer ELSE {i + 1}

\* Mutant: the cursor is advanced before it is compared with the end.
StepThenCompare ==
    /\ pc = "step"
    /\ pc' = "test"
    /\ cursor' \in Incremented(cursor)
    /\ active' = (operator = "inclusive" /\ cursor' <= end)
    /\ UNCHANGED <<operator, limit, begin, end, variable, visited>>

\* The flag is cleared at the end of an inclusive range, before the cursor is
\* advanced, and then keeps it from being advanced.
Step ==
    /\ pc = "step"
    /\ pc' = "test"
    /\ active' = (operator = "inclusive" /\ cursor # end)
    /\ IF operator = "exclusive" \/ active'
       THEN cursor' \in Incremented(cursor) ELSE UNCHANGED cursor
    /\ UNCHANGED <<operator, limit, begin, end, variable, visited>>

Finished == pc = "done" /\ UNCHANGED vars

Loop == Enter \/ Test \/ BodyAssigns \/ BodyEnds \/ BodyLeaves \/ Step
Next == Loop \/ Finished

Spec == Init /\ [][Next]_vars

\* The generated program runs, and each execution of the body comes to an end.
Fairness == WF_vars(Enter) /\ WF_vars(Test) /\ WF_vars(Step) /\ WF_vars(BodyEnds \/ BodyLeaves)

FairSpec == Spec /\ Fairness

--------------------------------------------------------------------------------
(* Properties *)

TypeOK ==
    /\ operator \in {"exclusive", "inclusive"}
    /\ limit \in Integer
    /\ pc \in {"enter", "test", "body", "step", "done"}
    /\ begin \in Integer /\ end \in Integer /\ cursor \in Integer
    /\ active \in BOOLEAN
    /\ variable \in Integer
    /\ visited \in Seq(Integer)

\* The cursor is not advanced past the greatest integer, whatever the bounds.
NoOverflow ==
    pc = "step" /\ (operator = "exclusive" \/ cursor # end) => cursor < MaxInt

\* The loop visits the values of the range, as RangeMeaning defines it for
\* integers without limits, whatever the body assigns.
Meaning == INSTANCE RangeMeaning WITH
    stage <- CASE pc = "enter" -> "bounds"
               [] pc \in {"test", "step"} -> "between"
               [] pc = "body" -> "body"
               [] pc = "done" -> "over",
    from <- IF pc = "enter" THEN 0 ELSE begin,
    to <- IF pc = "enter" THEN 0 ELSE IF operator = "inclusive" THEN end + 1 ELSE end

VisitsTheRange == Meaning!MeaningSpec

\* Every loop ends if each execution of its body does.
LoopEnds == <>(pc = "done")

\* Inductive: how the cursor, the flag and the values visited correspond.
CursorFollows ==
    /\ pc = "enter" => visited = <<>>
    /\ pc = "test" /\ operator = "exclusive" =>
           cursor = begin + Len(visited) /\ (visited = <<>> \/ cursor <= end)
    /\ pc = "test" /\ operator = "inclusive" /\ active =>
           cursor = begin + Len(visited) /\ cursor <= end
    /\ pc = "test" /\ operator = "inclusive" /\ ~active => begin + Len(visited) > end
    /\ pc \in {"body", "step"} =>
           /\ cursor + 1 = begin + Len(visited)
           /\ IF operator = "exclusive" THEN cursor < end ELSE cursor <= end
================================================================================
