-------------------------------- MODULE ReadInt --------------------------------
(***************************************************************************)
(* read_int() of the runtime library: a token of the input becomes a       *)
(* signed integer of fixed width, accumulated in an unsigned one.          *)
(***************************************************************************)
EXTENDS Integers, Sequences

CONSTANTS
    MaxInt,  \* the greatest std::int64_t
    Tokens   \* what the input may hold next, <<>> if no token can be read

\* A digit is its value.
Digits == 0 .. 9
Plus == 10
Minus == 11
Other == 12
Characters == Digits \cup {Plus, Minus, Other}

ASSUME ReadAssumption ==
    /\ MaxInt \in Nat /\ MaxInt >= 9
    /\ Tokens \subseteq Seq(Characters)

MinInt == -MaxInt - 1
Unsigned(n) == n % (2 * (MaxInt + 1))
\* static_cast<std::int64_t> of an unsigned value.
Signed(n) == IF n > MaxInt THEN n - 2 * (MaxInt + 1) ELSE n

VARIABLES
    token,
    pc,
    negative,   \* is_negative
    position,
    magnitude,
    value,      \* history: the digits so far as a number without limits
    result      \* what is returned, 0 before that

vars == <<token, pc, negative, position, magnitude, value, result>>

Outcomes == {"returned", "format error", "range error"}

Init ==
    /\ token \in Tokens
    /\ pc = "start"
    /\ negative = FALSE
    /\ position = 1
    /\ magnitude = 0 /\ value = 0 /\ result = 0

Signs == IF token # <<>> /\ token[1] \in {Plus, Minus} THEN 1 ELSE 0
WellFormed ==
    /\ Len(token) > Signs
    /\ \A i \in DOMAIN token : i > Signs => token[i] \in Digits

\* The sign, and the test of all other characters before any is used.
Start ==
    /\ pc = "start"
    /\ pc' = IF WellFormed THEN "digits" ELSE "format error"
    /\ negative' = (Signs = 1 /\ token[1] = Minus)
    /\ position' = Signs + 1
    /\ UNCHANGED <<token, magnitude, value, result>>

\* Mutant: the limit of the positive numbers for both.
PositiveLimit == MaxInt

Limit == IF negative THEN MaxInt + 1 ELSE MaxInt

\* Mutant: the test does without the digit.
ExceedsBeforeDigit(digit) == magnitude > Limit \div 10

\* The test before a digit is added, in unsigned arithmetic.
Exceeds(digit) == magnitude > Unsigned(Limit - digit) \div 10

Digit ==
    /\ pc = "digits"
    /\ position <= Len(token)
    /\ value' = 10 * value + token[position]
    /\ \/ /\ Exceeds(token[position])
          /\ pc' = "range error"
          /\ UNCHANGED <<position, magnitude>>
       \/ /\ ~Exceeds(token[position])
          /\ magnitude' = Unsigned(Unsigned(10 * magnitude) + token[position])
          /\ position' = position + 1
          /\ UNCHANGED pc
    /\ UNCHANGED <<token, negative, result>>

Return ==
    /\ pc = "digits"
    /\ position > Len(token)
    /\ pc' = "returned"
    /\ result' = IF ~negative THEN Signed(magnitude)
                 ELSE IF magnitude = MaxInt + 1 THEN MinInt ELSE -Signed(magnitude)
    /\ UNCHANGED <<token, negative, position, magnitude, value>>

Finished == pc \in Outcomes /\ UNCHANGED vars

Next == Start \/ Digit \/ Return \/ Finished

Spec == Init /\ [][Next]_vars

--------------------------------------------------------------------------------
(* Properties *)

TypeOK ==
    /\ token \in Tokens
    /\ pc \in {"start", "digits"} \cup Outcomes
    /\ negative \in BOOLEAN
    /\ position \in Nat /\ position >= 1
    /\ magnitude \in 0 .. 2 * MaxInt + 1
    /\ value \in Nat
    /\ result \in Int
    /\ pc = "start" => magnitude = 0 /\ value = 0
    /\ pc = "digits" => position > Signs /\ WellFormed

\* The unsigned accumulator never wraps, whatever the token.
NeverWraps == pc # "range error" => magnitude = value /\ magnitude <= Limit

\* What is returned is the number that was read, of the width of an integer;
\* and a range error is reported only for digits that no integer has.
ReadIntExact ==
    /\ pc = "returned" => /\ result = IF negative THEN -value ELSE value
                          /\ result \in MinInt .. MaxInt
    /\ pc = "range error" => value > Limit

\* The number that the digits among the first i characters mean, and the number
\* that a token of sign and digits means, without limits.
Prefix[i \in 0 .. Len(token)] ==
    IF i <= Signs THEN 0 ELSE 10 * Prefix[i - 1] + token[i]
Meant == IF Signs = 1 /\ token[1] = Minus THEN -Prefix[Len(token)] ELSE Prefix[Len(token)]

\* The outcome by the token alone: the least and the greatest integer are read,
\* with any leading zeros, their neighbours are range errors, and a token that
\* is no number is a format error even if it begins with too many digits.
AgreesWithToken ==
    pc \in Outcomes =>
        CASE ~WellFormed -> pc = "format error"
          [] WellFormed /\ Meant \in MinInt .. MaxInt -> pc = "returned" /\ result = Meant
          [] WellFormed /\ Meant \notin MinInt .. MaxInt -> pc = "range error"
================================================================================
