------------------------------ MODULE ReadIntProofs ------------------------------
(***************************************************************************)
(* TLAPS proofs about ReadInt, for integers of any width and any tokens.   *)
(***************************************************************************)
EXTENDS ReadInt, TLAPS, WellFoundedInduction

ReadInv == TypeOK /\ NeverWraps /\ ReadIntExact

LEMMA ReadStarts == Init => ReadInv
<1> SUFFICES ASSUME Init PROVE ReadInv
  OBVIOUS
<1>1. /\ token \in Tokens /\ pc = "start" /\ negative = FALSE
      /\ position = 1 /\ magnitude = 0 /\ value = 0 /\ result = 0
  BY DEF Init
<1>2. 0 \in 0 .. 2 * MaxInt + 1 /\ MaxInt >= 0
  BY ReadAssumption
<1>3. TypeOK
  <2>1. pc \in {"start", "digits"} \cup Outcomes /\ pc # "digits"
    BY <1>1
  <2>2. negative \in BOOLEAN
    BY <1>1
  <2>3. /\ position \in Nat /\ position >= 1 /\ magnitude \in 0 .. 2 * MaxInt + 1
        /\ value \in Nat /\ result \in Int
    BY <1>1, <1>2
  <2>4. QED
    BY <1>1, <2>1, <2>2, <2>3 DEF TypeOK
<1>4. NeverWraps
  BY <1>1, <1>2 DEF NeverWraps, Limit
<1>5. ReadIntExact
  BY <1>1 DEF ReadIntExact
<1>6. QED
  BY <1>3, <1>4, <1>5 DEF ReadInv

\* The test before the digit is exact, and so no operation wraps.
LEMMA ExceedsExactly ==
    ASSUME TypeOK, NEW digit \in Digits, magnitude <= Limit
    PROVE  /\ Exceeds(digit) <=> 10 * magnitude + digit > Limit
           /\ ~Exceeds(digit) =>
                  Unsigned(Unsigned(10 * magnitude) + digit) = 10 * magnitude + digit
<1>1. /\ MaxInt \in Nat /\ MaxInt >= 9 /\ magnitude \in Nat /\ digit \in 0 .. 9
      /\ Limit \in {MaxInt, MaxInt + 1}
  BY ReadAssumption DEF TypeOK, Digits, Limit
<1>2. \A n \in 0 .. 2 * MaxInt + 1 : Unsigned(n) = n
  BY <1>1 DEF Unsigned
<1>3. Unsigned(Limit - digit) = Limit - digit
  BY <1>1, <1>2
<1>4. Exceeds(digit) <=> 10 * magnitude + digit > Limit
  BY <1>1, <1>3 DEF Exceeds
<1>5. ASSUME ~Exceeds(digit)
      PROVE  Unsigned(Unsigned(10 * magnitude) + digit) = 10 * magnitude + digit
  <2>1. 10 * magnitude + digit <= Limit
    BY <1>1, <1>4, <1>5
  <2>2. Unsigned(10 * magnitude) = 10 * magnitude
    BY <1>1, <1>2, <2>1
  <2>3. QED
    BY <1>1, <1>2, <2>1, <2>2
<1>6. QED
  BY <1>4, <1>5

\* The sign of a token is one character, or none.
LEMMA SignsBounded == Signs \in {0, 1}
  BY DEF Signs

\* What depends on the token alone is kept by every step, for none changes it.
LEMMA TokenKept ==
    ASSUME token' = token
    PROVE  Signs' = Signs /\ WellFormed' = WellFormed
<1>1. Signs' = Signs
  BY DEF Signs
<1>2. QED
  BY <1>1 DEF WellFormed

\* The character at the position is a digit while digits are read.
LEMMA DigitNext ==
    ASSUME TypeOK, pc = "digits", position <= Len(token)
    PROVE  token[position] \in Digits
<1>1. token \in Seq(Characters) /\ position \in Nat /\ position >= 1
  BY ReadAssumption DEF TypeOK
<1>2. position \in DOMAIN token
  BY <1>1
<1>3. position > Signs /\ WellFormed
  BY DEF TypeOK
<1>4. QED
  BY <1>2, <1>3 DEF WellFormed

LEMMA ReadPreserved == ReadInv /\ [Next]_vars => ReadInv'
<1> SUFFICES ASSUME ReadInv, [Next]_vars PROVE ReadInv'
  OBVIOUS
<1>0. TypeOK /\ NeverWraps /\ ReadIntExact
  BY DEF ReadInv
<1>1. CASE Start
  <2>1. /\ token' = token /\ magnitude' = magnitude /\ value' = value /\ result' = result
        /\ position' = Signs + 1 /\ negative' \in BOOLEAN
        /\ pc = "start" /\ pc' = IF WellFormed THEN "digits" ELSE "format error"
    BY <1>1 DEF Start
  <2>2. Signs' = Signs /\ WellFormed' = WellFormed /\ Signs \in {0, 1}
    BY <2>1, TokenKept, SignsBounded
  <2>3. TypeOK'
    <3>1. position' \in Nat /\ position' >= 1 /\ position' > Signs
      <4>1. position' = Signs + 1
        BY <2>1
      <4>2. QED
        BY <4>1, SignsBounded
    <3>2. pc' \in {"start", "digits"} \cup Outcomes
      BY <2>1 DEF Outcomes
    <3>3. pc' = "digits" => position' > Signs' /\ WellFormed'
      BY <2>1, <2>2, <3>1
    <3>4. QED
      BY <1>0, <2>1, <3>1, <3>2, <3>3 DEF TypeOK
  <2>4. magnitude = 0 /\ value = 0
    BY <1>0, <2>1 DEF TypeOK
  <2>5. NeverWraps'
    <3>1. magnitude' = 0 /\ value' = 0
      BY <2>1, <2>4
    <3>2. Limit' >= 0
      BY ReadAssumption DEF Limit
    <3>3. QED
      BY <3>1, <3>2 DEF NeverWraps
  <2>6. ReadIntExact'
    BY <2>1 DEF ReadIntExact
  <2>7. QED
    BY <2>3, <2>5, <2>6 DEF ReadInv
<1>2. CASE Digit
  <2> DEFINE digit == token[position]
  <2>1. /\ token' = token /\ negative' = negative /\ result' = result
        /\ value' = 10 * value + digit
        /\ pc = "digits" /\ position <= Len(token)
    BY <1>2 DEF Digit
  <2>2. digit \in Digits
    BY <1>0, <2>1, DigitNext
  <2> HIDE DEF digit
  <2>3. digit \in 0 .. 9
    BY <2>2 DEF Digits
  <2>4. magnitude = value /\ magnitude <= Limit /\ value \in Nat /\ MaxInt \in Nat
    BY <1>0, <2>1, ReadAssumption DEF NeverWraps, TypeOK
  <2>5. /\ Signs' = Signs /\ WellFormed' = WellFormed /\ Limit' = Limit
        /\ Limit \in {MaxInt, MaxInt + 1}
    BY <2>1, TokenKept DEF Limit
  <2>6. CASE Exceeds(digit)
    <3>1. pc' = "range error" /\ position' = position /\ magnitude' = magnitude
      BY <1>2, <2>6 DEF Digit, digit
    <3>2. value' > Limit' /\ value' \in Nat
      BY <1>0, <2>1, <2>2, <2>3, <2>4, <2>5, <2>6, ExceedsExactly
    <3>3. TypeOK'
      BY <1>0, <2>1, <3>1, <3>2 DEF TypeOK, Outcomes
    <3>4. NeverWraps' /\ ReadIntExact'
      BY <3>1, <3>2 DEF NeverWraps, ReadIntExact
    <3>5. QED
      BY <3>3, <3>4 DEF ReadInv
  <2>7. CASE ~Exceeds(digit)
    <3>1. /\ pc' = pc /\ position' = position + 1
          /\ magnitude' = Unsigned(Unsigned(10 * magnitude) + digit)
      BY <1>2, <2>7 DEF Digit, digit
    <3>2. magnitude' = 10 * magnitude + digit /\ magnitude' <= Limit
      BY <1>0, <2>2, <2>3, <2>4, <2>5, <2>7, <3>1, ExceedsExactly
    <3>3. /\ magnitude' \in 0 .. 2 * MaxInt + 1
          /\ value' \in Nat /\ value' = magnitude'
      BY <2>1, <2>3, <2>4, <2>5, <3>2
    <3>4. TypeOK'
      <4>1. position \in Nat /\ position >= 1 /\ position > Signs /\ WellFormed
        BY <1>0, <2>1 DEF TypeOK
      <4>2. position' \in Nat /\ position' >= 1 /\ position' > Signs'
        BY <2>5, <3>1, <4>1, SignsBounded
      <4>3. QED
        BY <1>0, <2>1, <2>5, <3>1, <3>3, <4>1, <4>2 DEF TypeOK
    <3>5. NeverWraps' /\ ReadIntExact'
      BY <2>1, <2>5, <3>1, <3>2, <3>3 DEF NeverWraps, ReadIntExact
    <3>6. QED
      BY <3>4, <3>5 DEF ReadInv
  <2>8. QED
    BY <2>6, <2>7
<1>3. CASE Return
  <2>1. /\ token' = token /\ negative' = negative /\ position' = position
        /\ magnitude' = magnitude /\ value' = value
        /\ pc = "digits" /\ pc' = "returned"
        /\ result' = IF ~negative THEN Signed(magnitude)
                     ELSE IF magnitude = MaxInt + 1 THEN MinInt ELSE -Signed(magnitude)
    BY <1>3 DEF Return
  <2>2. /\ magnitude = value /\ magnitude <= Limit /\ magnitude \in Nat
        /\ MaxInt \in Nat /\ negative \in BOOLEAN
    BY <1>0, <2>1, ReadAssumption DEF NeverWraps, TypeOK
  <2>3. result' = (IF negative THEN -value ELSE value) /\ result' \in MinInt .. MaxInt
    <3>1. CASE negative
      BY <2>1, <2>2, <3>1 DEF Limit, Signed, MinInt
    <3>2. CASE ~negative
      BY <2>1, <2>2, <3>2 DEF Limit, Signed, MinInt
    <3>3. QED
      BY <2>2, <3>1, <3>2
  <2>4. TypeOK'
    <3>1. result' \in Int
      BY <2>2, <2>3 DEF MinInt
    <3>2. QED
      BY <1>0, <2>1, <3>1 DEF TypeOK, Outcomes
  <2>5. NeverWraps'
    BY <2>1, <2>2 DEF NeverWraps, Limit
  <2>6. ReadIntExact'
    BY <2>1, <2>3 DEF ReadIntExact
  <2>7. QED
    BY <2>4, <2>5, <2>6 DEF ReadInv
<1>4. CASE UNCHANGED vars
  <2>1. /\ token' = token /\ pc' = pc /\ negative' = negative /\ position' = position
        /\ magnitude' = magnitude /\ value' = value /\ result' = result
    BY <1>4 DEF vars
  <2>2. Signs' = Signs /\ WellFormed' = WellFormed /\ Limit' = Limit
    BY <2>1, TokenKept DEF Limit
  <2>3. TypeOK'
    BY <1>0, <2>1, <2>2 DEF TypeOK
  <2>4. NeverWraps' /\ ReadIntExact'
    BY <1>0, <2>1, <2>2 DEF NeverWraps, ReadIntExact
  <2>5. QED
    BY <2>3, <2>4 DEF ReadInv
<1>5. QED
  BY <1>1, <1>2, <1>3, <1>4 DEF Next, Finished

(***************************************************************************)
(* For integers of any width and any input, read_int() returns exactly the *)
(* number it has read, or there is no integer that begins with its digits. *)
(***************************************************************************)
THEOREM ReadsExactly == Spec => []ReadIntExact
  BY ReadStarts, ReadPreserved, PTL DEF Spec, ReadInv

(***************************************************************************)
(* The accumulator never wraps around.                                     *)
(***************************************************************************)
THEOREM AccumulatorExact == Spec => []NeverWraps
  BY ReadStarts, ReadPreserved, PTL DEF Spec, ReadInv

--------------------------------------------------------------------------------
(* The number that a token means *)

\* Induction over the naturals, with a set for what is to be shown of all.
LEMMA NatInd ==
    ASSUME NEW T, 0 \in T, \A n \in Nat : n \in T => n + 1 \in T
    PROVE  Nat \subseteq T
<1> SUFFICES ASSUME Nat \ T # {} PROVE FALSE
  OBVIOUS
<1> DEFINE R == {ss \in Nat \X Nat : ss[1] < ss[2]}
<1>1. IsWellFoundedOn(R, Nat)
  BY NatLessThanWellFounded DEF OpToRel
<1> HIDE DEF R
<1>2. PICK n \in Nat \ T : \A m \in Nat \ T : <<m, n>> \notin R
  <2>1. Nat \ T \subseteq Nat
    OBVIOUS
  <2>2. QED
    BY <1>1, <2>1, WFMin
<1>3. n # 0 /\ n - 1 \in Nat
  BY <1>2
<1>4. <<n - 1, n>> \in R
  BY <1>3 DEF R
<1>5. n - 1 \in T
  BY <1>2, <1>3, <1>4
<1>6. QED
  BY <1>2, <1>3, <1>5

\* The recursive definition of Prefix defines a function.
Unfolds(n, g) == g = [i \in 0 .. n |-> IF i <= Signs THEN 0 ELSE 10 * g[i - 1] + token[i]]

LEMMA PrefixExists == \A n \in Nat : \E g : Unfolds(n, g)
<1> DEFINE T == {n \in Nat : \E g : Unfolds(n, g)}
<1>1. 0 \in T
  <2>1. Unfolds(0, [i \in 0 .. 0 |-> 0])
    BY SignsBounded DEF Unfolds
  <2>2. QED
    BY <2>1
<1>2. ASSUME NEW n \in T PROVE n + 1 \in T
  <2>1. PICK g : Unfolds(n, g)
    OBVIOUS
  <2> DEFINE h == [i \in 0 .. n + 1 |-> IF i = n + 1
                                      THEN IF i <= Signs THEN 0 ELSE 10 * g[n] + token[i]
                                      ELSE g[i]]
  <2>2. ASSUME NEW i \in 0 .. n + 1
        PROVE  h[i] = IF i <= Signs THEN 0 ELSE 10 * h[i - 1] + token[i]
    BY <2>1, SignsBounded DEF Unfolds
  <2>3. h = [i \in 0 .. n + 1 |-> IF i <= Signs THEN 0 ELSE 10 * h[i - 1] + token[i]]
    BY <2>2
  <2>4. Unfolds(n + 1, h)
    BY <2>3 DEF Unfolds
  <2>5. QED
    BY <2>4
<1>3. T \subseteq Nat
  OBVIOUS
<1> HIDE DEF T
<1>4. Nat \subseteq T
  BY <1>1, <1>2, <1>3, NatInd
<1>5. QED
  BY <1>4 DEF T

LEMMA PrefixUnfolds ==
    ASSUME token \in Seq(Characters), NEW i \in 0 .. Len(token)
    PROVE  Prefix[i] = IF i <= Signs THEN 0 ELSE 10 * Prefix[i - 1] + token[i]
<1>1. Len(token) \in Nat
  OBVIOUS
<1>2. \E g : Unfolds(Len(token), g)
  BY <1>1, PrefixExists
<1>3. Unfolds(Len(token), Prefix)
  BY <1>2 DEF Unfolds, Prefix
<1>4. QED
  BY <1>3 DEF Unfolds

\* More digits never make a smaller number.
LEMMA PrefixGrows ==
    ASSUME token \in Seq(Characters), WellFormed
    PROVE  \A i \in 0 .. Len(token) : Prefix[i] \in Nat /\ Prefix[i] <= Prefix[Len(token)]
<1>1. Len(token) \in Nat
  OBVIOUS
<1>2. \A i \in 1 .. Len(token) : i > Signs => token[i] \in 0 .. 9
  BY DEF WellFormed, Digits
<1> DEFINE T == {n \in Nat : n <= Len(token) => Prefix[n] \in Nat}
<1>3. Nat \subseteq T
  <2>1. 0 \in T
    BY <1>1, PrefixUnfolds, SignsBounded
  <2>2. ASSUME NEW n \in Nat, n \in T PROVE n + 1 \in T
    <3> SUFFICES ASSUME n + 1 <= Len(token) PROVE Prefix[n + 1] \in Nat
      OBVIOUS
    <3>1. Prefix[n] \in Nat /\ n + 1 \in 1 .. Len(token) /\ n + 1 \in 0 .. Len(token)
      BY <1>1, <2>2
    <3>2. Prefix[n + 1] = IF n + 1 <= Signs THEN 0 ELSE 10 * Prefix[n] + token[n + 1]
      BY <3>1, PrefixUnfolds
    <3>3. n + 1 > Signs => token[n + 1] \in 0 .. 9
      BY <1>2, <3>1
    <3>4. QED
      BY <3>1, <3>2, <3>3, SignsBounded
  <2> HIDE DEF T
  <2>3. QED
    BY <2>1, <2>2, NatInd
<1>4. \A i \in 0 .. Len(token) : Prefix[i] \in Nat
  BY <1>1, <1>3
<1>5. \A i \in 0 .. Len(token) - 1 : Prefix[i] <= Prefix[i + 1]
  <2> SUFFICES ASSUME NEW i \in 0 .. Len(token) - 1 PROVE Prefix[i] <= Prefix[i + 1]
    OBVIOUS
  <2>1. i \in 0 .. Len(token) /\ i + 1 \in 0 .. Len(token) /\ i + 1 \in 1 .. Len(token)
    BY <1>1
  <2>2. Prefix[i] \in Nat /\ Prefix[i + 1] \in Nat
    BY <1>4, <2>1
  <2>3. Prefix[i + 1] = IF i + 1 <= Signs THEN 0 ELSE 10 * Prefix[i] + token[i + 1]
    BY <2>1, PrefixUnfolds
  <2>4. Prefix[i] = IF i <= Signs THEN 0 ELSE 10 * Prefix[i - 1] + token[i]
    BY <2>1, PrefixUnfolds
  <2>5. i + 1 > Signs => token[i + 1] \in 0 .. 9
    BY <1>2, <2>1
  <2>6. CASE i + 1 <= Signs
    <3>1. i <= Signs
      BY <2>6, SignsBounded
    <3>2. Prefix[i] = 0 /\ Prefix[i + 1] = 0
      BY <2>3, <2>4, <2>6, <3>1
    <3>3. QED
      BY <3>2
  <2>7. CASE ~(i + 1 <= Signs)
    <3>1. Prefix[i + 1] = 10 * Prefix[i] + token[i + 1]
      BY <2>3, <2>7
    <3>2. token[i + 1] \in 0 .. 9
      BY <2>5, <2>7, SignsBounded
    <3>3. \A a \in Nat, digit \in 0 .. 9 : a <= 10 * a + digit
      OBVIOUS
    <3>4. QED
      BY ONLY <2>2, <3>1, <3>2, <3>3
  <2>8. QED
    BY <2>6, <2>7
<1> DEFINE U == {n \in Nat : n <= Len(token) => Prefix[Len(token) - n] <= Prefix[Len(token)]}
<1>6. Nat \subseteq U
  <2>1. 0 \in U
    BY <1>1, <1>4
  <2>2. ASSUME NEW n \in Nat, n \in U PROVE n + 1 \in U
    <3> SUFFICES ASSUME n + 1 <= Len(token)
                 PROVE  Prefix[Len(token) - (n + 1)] <= Prefix[Len(token)]
      OBVIOUS
    <3> DEFINE i == Len(token) - (n + 1)
    <3>1. i \in 0 .. Len(token) - 1 /\ i + 1 = Len(token) - n
      BY <1>1
    <3>2. Prefix[i] <= Prefix[i + 1] /\ Prefix[i + 1] <= Prefix[Len(token)]
      BY <1>1, <1>5, <2>2, <3>1
    <3>3. Prefix[i] \in Nat /\ Prefix[i + 1] \in Nat /\ Prefix[Len(token)] \in Nat
      BY <1>1, <1>4, <3>1
    <3>4. QED
      BY <3>2, <3>3
  <2> HIDE DEF U
  <2>3. QED
    BY <2>1, <2>2, NatInd
<1>7. ASSUME NEW i \in 0 .. Len(token) PROVE Prefix[i] <= Prefix[Len(token)]
  <2>1. Len(token) - i \in U /\ Len(token) - i <= Len(token)
    BY <1>1, <1>6
  <2>2. Len(token) - (Len(token) - i) = i
    BY <1>1
  <2>3. QED
    BY <2>1, <2>2
<1>8. QED
  BY <1>4, <1>7

\* What has been read is a prefix of the token, and the errors are those of the
\* whole token.
IsNegative == Signs = 1 /\ token[1] = Minus
SignRead == pc # "start" => (negative <=> IsNegative)
Progress ==
    /\ SignRead
    /\ pc = "digits" => position <= Len(token) + 1 /\ value = Prefix[position - 1]
    /\ pc = "returned" => WellFormed /\ value = Prefix[Len(token)]
    /\ pc = "range error" =>
          WellFormed /\ position \in 0 .. Len(token) /\ value = Prefix[position]
    /\ pc = "format error" => ~WellFormed

LEMMA ProgressKept == ReadInv /\ Progress /\ [Next]_vars => Progress'
<1> SUFFICES ASSUME ReadInv, Progress, [Next]_vars PROVE Progress'
  OBVIOUS
<1>1. /\ position \in Nat /\ position >= 1
      /\ pc = "digits" => position > Signs /\ WellFormed
  BY DEF ReadInv, TypeOK
<1>2. token \in Seq(Characters) /\ Len(token) \in Nat /\ Signs \in {0, 1}
  BY ReadAssumption, SignsBounded DEF ReadInv, TypeOK
<1>3. /\ token' = token
      /\ Signs' = Signs /\ WellFormed' = WellFormed /\ Prefix' = Prefix
      /\ IsNegative' <=> IsNegative
  <2>1. token' = token
    BY DEF Next, Start, Digit, Return, Finished, vars
  <2>2. Signs' = Signs /\ WellFormed' = WellFormed
    BY <2>1, TokenKept
  <2>3. QED
    BY <2>1, <2>2 DEF Prefix, IsNegative
<1>4. CASE Start
  <2>1. /\ pc' = IF WellFormed THEN "digits" ELSE "format error"
        /\ position' = Signs + 1 /\ value' = 0
    BY <1>4 DEF Start, ReadInv, TypeOK
  <2>2. WellFormed => Signs + 1 <= Len(token) + 1 /\ Signs \in 0 .. Len(token)
    BY <1>1, <1>2 DEF WellFormed
  <2>3. WellFormed => Prefix[Signs] = 0
    BY <1>1, <1>2, <2>2, PrefixUnfolds
  <2>4. SignRead'
    BY <1>3, <1>4 DEF Start, SignRead, IsNegative
  <2>5. pc' = "digits" => position' <= Len(token) + 1 /\ value' = Prefix[position' - 1]
    <3> SUFFICES ASSUME WellFormed
                 PROVE  position' <= Len(token) + 1 /\ value' = Prefix[position' - 1]
      BY <2>1
    <3>1. position' - 1 = Signs /\ position' <= Len(token) + 1
      BY <1>2, <2>1, <2>2
    <3>2. QED
      BY <2>1, <2>3, <3>1
  <2>6. pc' \in {"digits", "format error"} /\ (pc' = "format error" => ~WellFormed)
    BY <2>1
  <2>7. QED
    BY <1>3, <2>4, <2>5, <2>6 DEF Progress
<1>5. CASE Digit
  <2>1. /\ pc = "digits" /\ position <= Len(token) /\ negative' = negative
        /\ value' = 10 * value + token[position]
        /\ \/ pc' = "range error" /\ position' = position
           \/ pc' = "digits" /\ position' = position + 1
    BY <1>5 DEF Digit
  <2>2. /\ position \in 0 .. Len(token) /\ position > Signs /\ WellFormed
        /\ value = Prefix[position - 1]
    <3>1. position \in 0 .. Len(token)
      <4>1. position <= Len(token)
        BY <2>1
      <4>2. QED
        BY <1>1, <1>2, <4>1
    <3>2. position > Signs /\ WellFormed
      BY <1>1, <1>2, <2>1
    <3>3. value = Prefix[position - 1]
      BY <2>1 DEF Progress
    <3>4. QED
      BY <3>1, <3>2, <3>3
  <2>3. value' = Prefix[position]
    <3>1. Prefix[position] = IF position <= Signs THEN 0
                             ELSE 10 * Prefix[position - 1] + token[position]
      BY <1>1, <1>2, <2>2, PrefixUnfolds
    <3>2. ~(position <= Signs)
      BY <1>1, <1>2, <2>2
    <3>3. QED
      BY <2>1, <2>2, <3>1, <3>2
  <2>4. SignRead'
    BY <1>3, <2>1 DEF Progress, SignRead
  <2>5. CASE pc' = "range error" /\ position' = position
    BY <1>3, <2>2, <2>3, <2>4, <2>5 DEF Progress
  <2>6. CASE pc' = "digits" /\ position' = position + 1
    <3>1. position' - 1 = position /\ position' <= Len(token) + 1
      BY <1>1, <1>2, <2>2, <2>6
    <3>2. value' = Prefix[position' - 1]
      BY <2>3, <3>1
    <3>3. QED
      BY <1>3, <2>4, <2>6, <3>1, <3>2 DEF Progress
  <2>7. QED
    BY <2>1, <2>5, <2>6
<1>6. CASE Return
  <2>1. /\ pc = "digits" /\ position > Len(token) /\ pc' = "returned"
        /\ negative' = negative /\ value' = value
    BY <1>6 DEF Return
  <2>2. position - 1 = Len(token)
    BY <1>1, <1>2, <2>1 DEF Progress
  <2>3. SignRead'
    BY <1>3, <2>1 DEF Progress, SignRead
  <2>4. QED
    BY <1>1, <1>2, <1>3, <2>1, <2>2, <2>3 DEF Progress
<1>7. CASE UNCHANGED vars
  BY <1>3, <1>7 DEF Progress, SignRead, vars
<1>8. QED
  BY <1>4, <1>5, <1>6, <1>7 DEF Next, Finished

\* An outcome is that of the token.
LEMMA OutcomeOfToken == ReadInv /\ Progress => AgreesWithToken
<1> SUFFICES ASSUME ReadInv, Progress, pc \in Outcomes
             PROVE  CASE ~WellFormed -> pc = "format error"
                      [] WellFormed /\ Meant \in MinInt .. MaxInt -> pc = "returned" /\ result = Meant
                      [] WellFormed /\ Meant \notin MinInt .. MaxInt -> pc = "range error"
  BY DEF AgreesWithToken
<1>1. /\ token \in Seq(Characters) /\ Len(token) \in Nat /\ MaxInt \in Nat
  BY ReadAssumption DEF ReadInv, TypeOK
<1>2. Meant = IF negative THEN -Prefix[Len(token)] ELSE Prefix[Len(token)]
  <2>1. negative <=> IsNegative
    BY DEF Progress, SignRead, Outcomes
  <2>2. QED
    BY <2>1 DEF Meant, IsNegative
<1>3. CASE pc = "format error"
  BY <1>3 DEF Progress
<1>4. CASE pc = "returned"
  <2>1. WellFormed /\ value = Prefix[Len(token)]
    BY <1>4 DEF Progress
  <2>2. result = (IF negative THEN -value ELSE value) /\ result \in MinInt .. MaxInt
    BY <1>4 DEF ReadInv, ReadIntExact
  <2>3. result = Meant /\ Meant \in MinInt .. MaxInt
    BY <1>2, <2>1, <2>2
  <2>4. QED
    BY <1>4, <2>1, <2>3
<1>5. CASE pc = "range error"
  <2>1. WellFormed /\ position \in 0 .. Len(token) /\ value = Prefix[position]
    BY <1>5 DEF Progress
  <2>2. value > Limit
    BY <1>5 DEF ReadInv, ReadIntExact
  <2>3. /\ Prefix[position] \in Nat /\ Prefix[Len(token)] \in Nat
        /\ Prefix[position] <= Prefix[Len(token)]
    BY <1>1, <2>1, PrefixGrows
  <2>4. Meant \notin MinInt .. MaxInt
    <3>1. CASE negative
      BY <1>1, <1>2, <2>1, <2>2, <2>3, <3>1 DEF Limit, MinInt
    <3>2. CASE ~negative
      BY <1>1, <1>2, <2>1, <2>2, <2>3, <3>2 DEF Limit, MinInt
    <3>3. QED
      BY <3>1, <3>2
  <2>5. QED
    BY <1>5, <2>1, <2>4
<1>6. QED
  BY <1>3, <1>4, <1>5 DEF Outcomes

(***************************************************************************)
(* For integers of any width and tokens of any length, read_int() returns  *)
(* the number that the token means, or the kind of error that it deserves: *)
(* a range error exactly for numbers that no integer is.                   *)
(***************************************************************************)
THEOREM OutcomeCorrect == Spec => []AgreesWithToken
<1>1. Init => ReadInv /\ Progress
  BY ReadStarts DEF Init, Progress, SignRead
<1>2. (ReadInv /\ Progress) /\ [Next]_vars => (ReadInv /\ Progress)'
  BY ReadPreserved, ProgressKept
<1>3. QED
  BY <1>1, <1>2, OutcomeOfToken, PTL DEF Spec
================================================================================
