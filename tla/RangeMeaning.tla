----------------------------- MODULE RangeMeaning -----------------------------
(***************************************************************************)
(* What a for-range statement promises: its body is executed once for each *)
(* value of the range, in ascending order, with the bounds the range had   *)
(* when the statement was reached, unless the body leaves the loop.        *)
(* Integers here have no limits.                                           *)
(***************************************************************************)
EXTENDS Integers, Sequences

VARIABLES
    stage,     \* "bounds", "between" two executions of the body, in the
               \* "body", or "over"
    from, to,  \* the bounds, to being the first value after the range
    visited    \* the values the body was executed for

meaningVars == <<stage, from, to, visited>>

MeaningInit ==
    /\ stage = "bounds"
    /\ from = 0
    /\ to = 0
    /\ visited = <<>>

FixBounds ==
    /\ stage = "bounds"
    /\ stage' = "between"
    /\ from' \in Int
    /\ to' \in Int
    /\ UNCHANGED visited

Following == from + Len(visited)

VisitNext ==
    /\ stage = "between"
    /\ Following < to
    /\ stage' = "body"
    /\ visited' = Append(visited, Following)
    /\ UNCHANGED <<from, to>>

BodyReturns ==
    /\ stage = "body"
    /\ stage' = "between"
    /\ UNCHANGED <<from, to, visited>>

BodyLeaves ==
    /\ stage = "body"
    /\ stage' = "over"
    /\ UNCHANGED <<from, to, visited>>

Exhausted ==
    /\ stage = "between"
    /\ Following >= to
    /\ stage' = "over"
    /\ UNCHANGED <<from, to, visited>>

MeaningNext == FixBounds \/ VisitNext \/ BodyReturns \/ BodyLeaves \/ Exhausted

MeaningSpec == MeaningInit /\ [][MeaningNext]_meaningVars
================================================================================
