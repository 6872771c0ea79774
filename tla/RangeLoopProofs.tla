---------------------------- MODULE RangeLoopProofs ----------------------------
(***************************************************************************)
(* TLAPS proofs about RangeLoop, for integers of any width.                *)
(***************************************************************************)
EXTENDS RangeLoop, TLAPS

LoopInv == TypeOK /\ CursorFollows

LEMMA Start == Init => LoopInv
<1> SUFFICES ASSUME Init PROVE LoopInv
  OBVIOUS
<1>1. MinInt \in Integer
  BY IntegerAssumption DEF Integer
<1>2. <<>> \in Seq(Integer)
  OBVIOUS
<1>3. TypeOK
  BY <1>1, <1>2 DEF Init, TypeOK
<1>4. CursorFollows
  BY DEF Init, CursorFollows
<1>5. QED
  BY <1>3, <1>4 DEF LoopInv

LEMMA Preserved == LoopInv /\ [Next]_vars => LoopInv'
<1> SUFFICES ASSUME LoopInv, [Next]_vars PROVE LoopInv'
  OBVIOUS
<1> USE IntegerAssumption DEF LoopInv, TypeOK, CursorFollows, Integer
<1>1. CASE Enter
  <2>1. PICK b \in Integer : begin' = b
    BY <1>1 DEF Enter
  <2>2. /\ pc' = "test" /\ visited' = <<>> /\ cursor' = b /\ end' = limit
        /\ active' = (operator = "inclusive" /\ b <= limit)
        /\ UNCHANGED <<operator, limit, variable>>
    BY <1>1, <2>1 DEF Enter
  <2>3. TypeOK'
    BY <2>1, <2>2
  <2>4. b + Len(visited') = b
    BY <2>2
  <2>5. CursorFollows'
    <3>1. CASE operator = "exclusive"
      BY <2>1, <2>2, <2>4, <3>1
    <3>2. CASE operator = "inclusive"
      <4>1. CASE b <= limit
        <5>1. active' = TRUE
          BY <2>2, <3>2, <4>1
        <5>2. QED
          BY <2>1, <2>2, <2>4, <3>2, <4>1, <5>1
      <4>2. CASE ~(b <= limit)
        <5>1. active' = FALSE
          BY <2>2, <4>2
        <5>2. b > limit
          BY <2>1, <4>2
        <5>3. QED
          BY <2>1, <2>2, <2>4, <3>2, <5>1, <5>2
      <4>3. QED
        BY <4>1, <4>2
    <3>3. QED
      BY <3>1, <3>2
  <2>6. QED
    BY <2>3, <2>5
<1>2. CASE Test
  <2>1. CASE Condition /\ variable' = cursor /\ visited' = Append(visited, cursor)
             /\ pc' = "body" /\ UNCHANGED <<operator, limit, temporaries>>
    <3>1. visited' \in Seq(Integer) /\ Len(visited') = Len(visited) + 1
      BY <2>1
    <3>2. pc = "test"
      BY <1>2 DEF Test
    <3>3. QED
      BY <2>1, <3>1, <3>2 DEF Condition, temporaries
  <2>2. CASE pc' = "done" /\ UNCHANGED <<operator, limit, temporaries, variable, visited>>
    BY <2>2 DEF temporaries
  <2>3. QED
    BY <1>2, <2>1, <2>2 DEF Test, temporaries
<1>3. CASE BodyAssigns
  BY <1>3 DEF BodyAssigns, temporaries
<1>4. CASE BodyEnds
  BY <1>4 DEF BodyEnds, temporaries
<1>5. CASE BodyLeaves
  BY <1>5 DEF BodyLeaves, temporaries
<1>6. CASE Step
  <2>1. /\ pc = "step" /\ pc' = "test" /\ cursor + 1 = begin + Len(visited)
        /\ active' = (operator = "inclusive" /\ cursor # end)
        /\ UNCHANGED <<operator, limit, begin, end, variable, visited>>
    BY <1>6 DEF Step
  <2>2. active' \in BOOLEAN
    BY <2>1
  <2>3. CASE operator = "exclusive" \/ active'
    <3>1. cursor < end
      <4>1. CASE operator = "exclusive"
        BY <2>1, <4>1
      <4>2. CASE operator = "inclusive"
        <5>1. cursor <= end
          BY <2>1, <4>2
        <5>2. cursor # end
          BY <2>1, <2>3, <4>2
        <5>3. QED
          BY <5>1, <5>2
      <4>3. QED
        BY <4>1, <4>2
    <3>2. cursor' = cursor + 1
      BY <1>6, <2>3, <3>1 DEF Step, Incremented
    <3>3. cursor' \in Integer /\ cursor' = begin + Len(visited) /\ cursor' <= end
      BY <2>1, <3>1, <3>2
    <3>4. TypeOK'
      BY <2>1, <2>2, <3>3
    <3>5. CursorFollows'
      BY <2>1, <2>3, <3>3
    <3>6. QED
      BY <3>4, <3>5
  <2>4. CASE ~(operator = "exclusive" \/ active')
    <3>1. operator = "inclusive" /\ ~active' /\ cursor = end /\ cursor' = cursor
      BY <1>6, <2>1, <2>4 DEF Step
    <3>2. begin + Len(visited) > end
      BY <2>1, <3>1
    <3>3. TypeOK'
      BY <2>1, <2>2, <3>1
    <3>4. CursorFollows'
      BY <2>1, <3>1, <3>2
    <3>5. QED
      BY <3>3, <3>4
  <2>5. QED
    BY <2>3, <2>4
<1>7. CASE UNCHANGED vars
  BY <1>7 DEF vars, temporaries
<1>8. QED
  BY <1>1, <1>2, <1>3, <1>4, <1>5, <1>6, <1>7 DEF Next, Loop, Finished

(***************************************************************************)
(* Variables keep their types and the cursor is where the values visited   *)
(* say, for any limits of the integers.                                    *)
(***************************************************************************)
THEOREM LoopCorrect == Spec => [](TypeOK /\ CursorFollows)
  BY Start, Preserved, PTL DEF Spec, LoopInv

(***************************************************************************)
(* The generated loop never increments the greatest integer.               *)
(***************************************************************************)
THEOREM NeverOverflows == Spec => []NoOverflow
<1>1. TypeOK /\ CursorFollows => NoOverflow
  BY IntegerAssumption DEF TypeOK, CursorFollows, NoOverflow, Integer
<1>2. QED
  BY <1>1, LoopCorrect, PTL

LEMMA StartMeans == Init => Meaning!MeaningInit
  BY DEF Init, Meaning!MeaningInit

LEMMA StepMeans == LoopInv /\ [Next]_vars => [Meaning!MeaningNext]_(Meaning!meaningVars)
<1> SUFFICES ASSUME LoopInv, [Next]_vars
             PROVE  Meaning!MeaningNext \/ UNCHANGED Meaning!meaningVars
  OBVIOUS
<1> USE IntegerAssumption DEF LoopInv, TypeOK, CursorFollows, Integer
<1>1. CASE Enter
  <2>1. Meaning!FixBounds
    BY <1>1 DEF Enter, Meaning!FixBounds
  <2>2. QED
    BY <2>1 DEF Meaning!MeaningNext
<1>2. CASE Test
  <2>1. CASE Condition /\ variable' = cursor /\ visited' = Append(visited, cursor)
             /\ pc' = "body"
    <3>1. Meaning!VisitNext
      BY <1>2, <2>1 DEF Test, Condition, temporaries, Meaning!VisitNext, Meaning!Following
    <3>2. QED
      BY <3>1 DEF Meaning!MeaningNext
  <2>2. CASE ~Condition /\ pc' = "done" /\ UNCHANGED <<variable, visited>>
    <3>1. Meaning!Exhausted
      BY <1>2, <2>2 DEF Test, Condition, temporaries, Meaning!Exhausted, Meaning!Following
    <3>2. QED
      BY <3>1 DEF Meaning!MeaningNext
  <2>3. QED
    BY <1>2, <2>1, <2>2 DEF Test
<1>3. CASE BodyAssigns
  BY <1>3 DEF BodyAssigns, temporaries, Meaning!meaningVars
<1>4. CASE BodyEnds
  <2>1. Meaning!BodyReturns
    BY <1>4 DEF BodyEnds, temporaries, Meaning!BodyReturns
  <2>2. QED
    BY <2>1 DEF Meaning!MeaningNext
<1>5. CASE BodyLeaves
  <2>1. Meaning!BodyLeaves
    BY <1>5 DEF BodyLeaves, temporaries, Meaning!BodyLeaves
  <2>2. QED
    BY <2>1 DEF Meaning!MeaningNext
<1>6. CASE Step
  BY <1>6 DEF Step, Meaning!meaningVars
<1>7. CASE UNCHANGED vars
  BY <1>7 DEF vars, temporaries, Meaning!meaningVars
<1>8. QED
  BY <1>1, <1>2, <1>3, <1>4, <1>5, <1>6, <1>7 DEF Next, Loop, Finished

(***************************************************************************)
(* Refinement: with integers of any width, the generated loop executes its *)
(* body for the values of the range that RangeMeaning defines for integers *)
(* without limits, in that order, whatever the body assigns.               *)
(***************************************************************************)
THEOREM LoopImplementsMeaning == Spec => VisitsTheRange
<1>1. Spec => []LoopInv
  BY Start, Preserved, PTL DEF Spec
<1>2. QED
  BY <1>1, StartMeans, StepMeans, PTL DEF Spec, VisitsTheRange, Meaning!MeaningSpec
================================================================================
