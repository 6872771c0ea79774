--------------------------- MODULE ControlFlowProofs ---------------------------
(***************************************************************************)
(* The control flow checker reports what the executions of a function      *)
(* justify: TransfersReported, EndsReported and DeadCodeReportedOnce, for  *)
(* trees of any size.                                                      *)
(*                                                                         *)
(* The invariant says it of the part of the tree that is behind the visit. *)
(* It has the set R of the nodes that control gets to, computed in the     *)
(* order of the tree (Follows: no back edge is needed), and the heads H of *)
(* the bodies whose calls are in progress.  Its parts:                     *)
(*   Shape           the stack of calls is the stack of open bodies        *)
(*   Flow            what the flags of the calls say about R               *)
(*   LoopsCounted    whether a call counts a loop of its function          *)
(*   TransferErrors, EndErrors, Warned                                     *)
(*                   what is reported of the nodes behind the visit        *)
(* There is one lemma for each part and each way the stack changes: it     *)
(* stays (Stays), a body starts (Push), an else block replaces the then    *)
(* block (Else), a body ends (Pop).                                        *)
(*                                                                         *)
(* When no call is in progress, bodies are intervals of nodes, and R is    *)
(* what the definitions of ControlFlow say about executions: every node    *)
(* in R but the first of its function has a predecessor before it          *)
(* (Preceded), and no step leads out of R (GoesOn), so that as many rounds *)
(* as there are nodes reach R and nothing else (ReachedIs).                *)
(***************************************************************************)
EXTENDS ControlFlow, TLAPS, FiniteSetTheorems, SequenceTheorems, WellFoundedInduction

-----------------------------------------------------------------------------
(* The bodies around a node, read off the nodes before it *)

Rising(t, i) == {j \in 1 .. i - 1 : t[j].kind \in Bodies \ {"else"}}
Ending(t, i) == {j \in 1 .. i - 1 : t[j].kind = "end"}
LevelIn(t, i) == Cardinality(Rising(t, i)) - Cardinality(Ending(t, i))
InnerIn(t, b) == IF t[b].kind = "else" THEN LevelIn(t, b) ELSE LevelIn(t, b) + 1

\* Node c would close a body b that is open there.
Shuts(t, c, b) == t[c].kind \in {"end", "else"} /\ LevelIn(t, c) = InnerIn(t, b)

\* Body b is open when the visit comes to node i, which may be the one that closes it.
Holds(t, b, i) ==
    b \in 1 .. i - 1 /\ t[b].kind \in Bodies /\ \A c \in b + 1 .. i - 1 : ~Shuts(t, c, b)

\* Of the bodies open at node i, b is the innermost one.
Within(t, b, i) == Holds(t, b, i) /\ \A a \in 1 .. i - 1 : Holds(t, a, i) => a <= b

\* Node c closes body b, and no other.
Matches(t, b, c) ==
    /\ Within(t, b, c) /\ Shuts(t, c, b)
    /\ \A a \in 1 .. c - 1 : Holds(t, a, c) /\ Shuts(t, c, a) => a = b

\* No loop of its function is around node i.
Outside(t, i) ==
    \A l \in 1 .. i - 1 : Holds(t, l, i) /\ t[l].kind = "loop" =>
        \E g \in l + 1 .. i - 1 : Holds(t, g, i) /\ t[g].kind = "function"

-----------------------------------------------------------------------------
(* The stack of visits and the tree *)

\* What is so at every node behind the visit.
Past(t, i) ==
    /\ t[i].kind # "function" => \E f \in 1 .. i - 1 : Holds(t, f, i) /\ t[f].kind = "function"
    /\ t[i].kind \in {"end", "else"} =>
           \E b \in 1 .. i - 1 : Matches(t, b, i) /\ (t[i].kind = "else" => t[b].kind = "if")

\* The visit at level k is of a body that is open and as deep as the level. Its head H[k] is
\* the statement or function it belongs to: the if, for an else block.
AtLevel(t, v, H, k) ==
    LET n == v[k].node IN
    /\ n \in 1 .. Len(t) /\ t[n].kind \in Bodies
    /\ InnerIn(t, n) = k
    /\ \A c \in n + 1 .. Len(t) : t[c].kind \in {"end", "else"} => LevelIn(t, c) > k
    /\ IF t[n].kind = "else"
       THEN H[k] \in 1 .. n - 1 /\ t[H[k]].kind = "if" /\ Matches(t, H[k], n)
       ELSE H[k] = n
    /\ \A m \in 1 .. k - 1 : v[m].node < H[k]

Shape(t, v, H) ==
    /\ LevelIn(t, Len(t) + 1) = Len(v)
    /\ H \in Seq(Nat) /\ Len(H) = Len(v)
    /\ \A k \in 1 .. Len(v) : AtLevel(t, v, H, k)
    /\ Len(v) > 0 => t[v[1].node].kind = "function"
    /\ \A b \in 1 .. Len(t) : t[b].kind \in Bodies =>
           \/ \E k \in 1 .. Len(v) : v[k].node = b
           \/ \E c \in b + 1 .. Len(t) : Matches(t, b, c)
    /\ \A i \in 1 .. Len(t) : Past(t, i)

-----------------------------------------------------------------------------
(* Where control gets to *)

\* Whether an execution that gets to the nodes in R before i gets to i.
Follows(t, R, i) ==
    LET p == i - 1 IN
    /\ i > 1
    /\ \/ t[p].kind = "function"
       \/ t[p].kind \in {"simple", "block", "if", "loop"} /\ p \in R
       \/ t[p].kind \in Transfers /\ p \in R /\ Outside(t, p)
       \/ t[p].kind = "else" /\ \E q \in 1 .. p - 1 : Matches(t, q, p) /\ q \in R
       \/ t[p].kind = "end" /\ \E b \in 1 .. p - 1 : Matches(t, b, p) /\
              \/ t[b].kind \in {"function", "if", "loop"} /\ b \in R
              \/ t[b].kind = "block" /\ p \in R
              \/ t[b].kind = "else" /\ (b \in R \/ p \in R)

Live(v) == Len(v) > 0 /\ v[Len(v)].report /\ v[Len(v)].reachable

\* What a visit knows of the flow: report says that control gets into the body, and with
\* reachable, where the visit is; before says that control leaves the then block.
FlowAt(t, v, H, R, k) ==
    LET n == v[k].node IN
    /\ v[k].report <=> t[n].kind = "function" \/ H[k] \in R
    /\ k < Len(v) => (H[k + 1] \in R <=> v[k].report /\ v[k].reachable)
    /\ t[n].kind = "else" => (n \in R <=> v[k].report /\ v[k].before)

\* R has the nodes that an execution gets to, of those behind the visit.
Flow(t, v, H, R) ==
    /\ R \subseteq 1 .. Len(t)
    /\ \A i \in 1 .. Len(t) : i \in R <=> Follows(t, R, i)
    /\ Live(v) <=> Follows(t, R, Len(t) + 1)
    /\ Len(v) > 0 => H[1] \notin R
    /\ \A k \in 1 .. Len(v) : FlowAt(t, v, H, R, k)

-----------------------------------------------------------------------------
(* What is reported *)

NoLoops(t, v, k) ==
    \A m \in 1 .. k : t[v[m].node].kind = "loop" =>
        \E p \in m + 1 .. k : t[v[p].node].kind = "function"

LoopsCounted(t, v) ==
    \A k \in 1 .. Len(v) : v[k].loops \in Nat /\ (v[k].loops = 0 <=> NoLoops(t, v, k))

TransferErrors(t, E) ==
    /\ E \subseteq (1 .. Len(t)) \X {"outside loop", "no return"}
    /\ \A i \in 1 .. Len(t) :
          <<i, "outside loop">> \in E <=> t[i].kind \in Transfers /\ Outside(t, i)

EndErrors(t, R, E) ==
    \A f \in 1 .. Len(t) : t[f].kind = "function" =>
        (<<f, "no return">> \in E <=>
            /\ t[f].type # "void"
            /\ \E c \in 1 .. Len(t) : Matches(t, f, c) /\ c \in R
            /\ ~(/\ t[f].name = Main /\ t[f].parameters = 0 /\ t[f].type = "int"
                 /\ \A a \in 1 .. f - 1 : ~Holds(t, a, f)))

DeadIn(t, R, b, i) == t[i].kind \in Statements /\ Within(t, b, i) /\ i \notin R

\* Of the statements of its block, which control gets into, i is the first it does not get to.
FirstDead(t, R, i) ==
    \E b \in 1 .. i - 1 :
        DeadIn(t, R, b, i) /\ b + 1 \in R /\ \A j \in b + 1 .. i - 1 : ~DeadIn(t, R, b, j)

\* The visit at level k, which is about to come to node next, has come to a dead statement.
ReportedAt(t, v, R, k, next) ==
    v[k].report =>
        (v[k].reported <=>
            \E j \in v[k].node + 1 .. next - 1 : DeadIn(t, R, v[k].node, j))

Warned(t, v, H, R, W) ==
    /\ W \subseteq 1 .. Len(t)
    /\ \A i \in 1 .. Len(t) : i \in W <=> FirstDead(t, R, i)
    /\ \A k \in 1 .. Len(v) :
          ReportedAt(t, v, R, k, IF k < Len(v) THEN H[k + 1] ELSE Len(t) + 1)

-----------------------------------------------------------------------------
(* Levels *)

\* Trees are sequences of nodes.
LEMMA NodeFacts ==
    ASSUME NEW t \in Seq(Nodes)
    PROVE  /\ Len(t) \in Nat
           /\ \A i \in 1 .. Len(t) :
                 /\ t[i] \in Nodes
                 /\ t[i].kind \in Bodies \cup Statements \cup {"end"}
BY NodeAssumption

\* The nodes that are counted are finitely many.
LEMMA CountsFinite ==
    ASSUME NEW t, NEW i \in Nat \ {0}
    PROVE  /\ IsFiniteSet(Rising(t, i)) /\ Cardinality(Rising(t, i)) \in Nat
           /\ IsFiniteSet(Ending(t, i)) /\ Cardinality(Ending(t, i)) \in Nat
           /\ LevelIn(t, i) \in Int
<1>1. IsFiniteSet(1 .. i - 1)
  BY FS_Interval
<1>2. Rising(t, i) \in SUBSET (1 .. i - 1) /\ Ending(t, i) \in SUBSET (1 .. i - 1)
  BY DEF Rising, Ending
<1>3. /\ IsFiniteSet(Rising(t, i)) /\ Cardinality(Rising(t, i)) \in Nat
      /\ IsFiniteSet(Ending(t, i)) /\ Cardinality(Ending(t, i)) \in Nat
  BY <1>1, <1>2, FS_Subset, FS_CardinalityType
<1>4. QED
  BY <1>3 DEF LevelIn

\* The level changes by one at a body, and at an end.
LEMMA LevelNext ==
    ASSUME NEW t, NEW i \in Nat \ {0}
    PROVE  LevelIn(t, i + 1)
               = LevelIn(t, i) + (IF t[i].kind \in Bodies \ {"else"} THEN 1 ELSE 0)
                     - (IF t[i].kind = "end" THEN 1 ELSE 0)
<1> DEFINE up == IF t[i].kind \in Bodies \ {"else"} THEN 1 ELSE 0
           down == IF t[i].kind = "end" THEN 1 ELSE 0
<1>1. Cardinality(Rising(t, i + 1)) = Cardinality(Rising(t, i)) + up
  <2>1. i \notin Rising(t, i)
    BY DEF Rising
  <2>2. CASE t[i].kind \in Bodies \ {"else"}
    <3>1. Rising(t, i + 1) = Rising(t, i) \cup {i}
      BY <2>2 DEF Rising
    <3>2. QED
      BY <2>1, <2>2, <3>1, CountsFinite, FS_AddElement
  <2>3. CASE t[i].kind \notin Bodies \ {"else"}
    <3>1. Rising(t, i + 1) = Rising(t, i)
      BY <2>3 DEF Rising
    <3>2. QED
      BY <2>3, <3>1, CountsFinite
  <2>4. QED
    BY <2>2, <2>3
<1>2. Cardinality(Ending(t, i + 1)) = Cardinality(Ending(t, i)) + down
  <2>1. i \notin Ending(t, i)
    BY DEF Ending
  <2>2. CASE t[i].kind = "end"
    <3>1. Ending(t, i + 1) = Ending(t, i) \cup {i}
      BY <2>2 DEF Ending
    <3>2. QED
      BY <2>1, <2>2, <3>1, CountsFinite, FS_AddElement
  <2>3. CASE t[i].kind # "end"
    <3>1. Ending(t, i + 1) = Ending(t, i)
      BY <2>3 DEF Ending
    <3>2. QED
      BY <2>3, <3>1, CountsFinite
  <2>4. QED
    BY <2>2, <2>3
<1>3. up \in Nat /\ down \in Nat
  OBVIOUS
<1> HIDE DEF up, down
<1>4. LevelIn(t, i + 1) = LevelIn(t, i) + up - down
  BY <1>1, <1>2, <1>3, CountsFinite DEF LevelIn
<1>5. QED
  BY <1>4 DEF up, down

\* No body is open at the first node.
LEMMA LevelFirst == ASSUME NEW t PROVE LevelIn(t, 1) = 0
<1>1. Rising(t, 1) = {} /\ Ending(t, 1) = {}
  BY DEF Rising, Ending
<1>2. QED
  BY <1>1, FS_EmptySet DEF LevelIn

-----------------------------------------------------------------------------
(* A tree that grows: what is said of the nodes so far does not change *)

Grows(t, node, u) == t \in Seq(Nodes) /\ node \in Nodes /\ u = Append(t, node)

\* The nodes, levels, bodies and matches of the tree so far stay when a node arrives.
LEMMA GrownNodes ==
    ASSUME NEW t, NEW node, NEW u, Grows(t, node, u)
    PROVE  /\ u \in Seq(Nodes) /\ Len(t) \in Nat /\ Len(u) = Len(t) + 1
           /\ u[Len(t) + 1] = node
           /\ \A i \in 1 .. Len(t) : u[i] = t[i]
BY DEF Grows

\* Levels only depend on earlier nodes.
LEMMA GrownLevels ==
    ASSUME NEW t, NEW node, NEW u, Grows(t, node, u)
    PROVE  /\ \A i \in 1 .. Len(t) + 1 : LevelIn(u, i) = LevelIn(t, i)
           /\ \A i \in 1 .. Len(t) : InnerIn(u, i) = InnerIn(t, i)
           /\ \A c, b \in 1 .. Len(t) : Shuts(u, c, b) <=> Shuts(t, c, b)
<1>1. Len(t) \in Nat /\ \A i \in 1 .. Len(t) : u[i] = t[i]
  BY GrownNodes
<1>2. ASSUME NEW i \in 1 .. Len(t) + 1 PROVE LevelIn(u, i) = LevelIn(t, i)
  <2>1. \A j \in 1 .. i - 1 : u[j] = t[j]
    BY <1>1
  <2>2. Rising(u, i) = Rising(t, i) /\ Ending(u, i) = Ending(t, i)
    BY <2>1 DEF Rising, Ending
  <2>3. QED
    BY <2>2 DEF LevelIn
<1>3. ASSUME NEW i \in 1 .. Len(t) PROVE InnerIn(u, i) = InnerIn(t, i)
  <2>1. i \in 1 .. Len(t) + 1
    BY <1>1
  <2>2. QED
    BY <1>1, <1>2, <2>1 DEF InnerIn
<1>4. \A c \in 1 .. Len(t) : u[c] = t[c] /\ LevelIn(u, c) = LevelIn(t, c)
  BY <1>1, <1>2
<1>5. QED
  BY <1>2, <1>3, <1>4 DEF Shuts

\* So do the open bodies.
LEMMA GrownHolds ==
    ASSUME NEW t, NEW node, NEW u, Grows(t, node, u)
    PROVE  /\ \A i \in 1 .. Len(t) + 1 : \A b \in 1 .. i - 1 : Holds(u, b, i) <=> Holds(t, b, i)
           /\ \A i \in 1 .. Len(t) + 1 : \A b \in 1 .. i - 1 : Within(u, b, i) <=> Within(t, b, i)
<1>1. Len(t) \in Nat /\ \A i \in 1 .. Len(t) : u[i] = t[i]
  BY GrownNodes
<1>2. ASSUME NEW i \in 1 .. Len(t) + 1, NEW b \in 1 .. i - 1
      PROVE  Holds(u, b, i) <=> Holds(t, b, i)
  <2>1. b \in 1 .. Len(t) /\ \A c \in b + 1 .. i - 1 : c \in 1 .. Len(t)
    BY <1>1
  <2>2. \A c \in b + 1 .. i - 1 : Shuts(u, c, b) <=> Shuts(t, c, b)
    BY <2>1, GrownLevels
  <2>3. QED
    BY <1>1, <2>1, <2>2 DEF Holds
<1>3. QED
  BY <1>2 DEF Within

\* So do the ends of bodies, and what is said of nodes that the visit has passed.
LEMMA GrownMatches ==
    ASSUME NEW t, NEW node, NEW u, Grows(t, node, u)
    PROVE  /\ \A c \in 1 .. Len(t) : \A b \in 1 .. c - 1 : Matches(u, b, c) <=> Matches(t, b, c)
           /\ \A i \in 1 .. Len(t) : Outside(u, i) <=> Outside(t, i)
           /\ \A i \in 1 .. Len(t) : Past(u, i) <=> Past(t, i)
<1>1. Len(t) \in Nat /\ \A i \in 1 .. Len(t) : u[i] = t[i]
  BY GrownNodes
<1>2. ASSUME NEW c \in 1 .. Len(t), NEW b \in 1 .. c - 1
      PROVE  Matches(u, b, c) <=> Matches(t, b, c)
  <2>1. c \in 1 .. Len(t) + 1 /\ \A a \in 1 .. c - 1 : a \in 1 .. Len(t)
    BY <1>1
  <2>2. \A a \in 1 .. c - 1 : Shuts(u, c, a) <=> Shuts(t, c, a)
    BY <2>1, GrownLevels
  <2>3. /\ \A a \in 1 .. c - 1 : Holds(u, a, c) <=> Holds(t, a, c)
        /\ Within(u, b, c) <=> Within(t, b, c)
    BY <2>1, GrownHolds
  <2>4. QED
    BY <2>2, <2>3 DEF Matches
<1>3. ASSUME NEW i \in 1 .. Len(t)
      PROVE  /\ \A a \in 1 .. i - 1 : u[a] = t[a] /\ (Holds(u, a, i) <=> Holds(t, a, i))
             /\ \A l \in 1 .. i - 1 : \A g \in l + 1 .. i - 1 : g \in 1 .. i - 1
  <2>1. i \in 1 .. Len(t) + 1 /\ \A a \in 1 .. i - 1 : a \in 1 .. Len(t)
    BY <1>1
  <2>2. QED
    BY <1>1, <2>1, GrownHolds
<1>4. ASSUME NEW i \in 1 .. Len(t) PROVE Outside(u, i) <=> Outside(t, i)
  BY <1>3 DEF Outside
<1>5. ASSUME NEW i \in 1 .. Len(t) PROVE Past(u, i) <=> Past(t, i)
  BY <1>1, <1>2, <1>3 DEF Past
<1>6. QED
  BY <1>2, <1>4, <1>5

-----------------------------------------------------------------------------
(* Bodies that are open *)

\* The bodies open behind a node: it may be one, and it may close one.
LEMMA HoldsNext ==
    ASSUME NEW t, NEW i \in Nat \ {0}, NEW b \in 1 .. i
    PROVE  Holds(t, b, i + 1) <=> \/ b = i /\ t[i].kind \in Bodies
                                  \/ Holds(t, b, i) /\ ~Shuts(t, i, b)
<1>1. CASE b = i
  BY <1>1 DEF Holds
<1>2. CASE b # i
  <2>1. b \in 1 .. i - 1 /\ i \in b + 1 .. i /\ \A c \in b + 1 .. i : c \in b + 1 .. i - 1 \/ c = i
    BY <1>2
  <2>2. \A c \in b + 1 .. i - 1 : c \in b + 1 .. i
    BY <1>2
  <2>3. QED
    BY <1>2, <2>1, <2>2 DEF Holds
<1>3. QED
  BY <1>1, <1>2

\* A body that is open at a node is open at the nodes between.
LEMMA HoldsEarlier ==
    ASSUME NEW t, NEW i \in Nat, NEW j \in Nat, NEW b \in 1 .. j - 1, j <= i, Holds(t, b, i)
    PROVE  Holds(t, b, j)
<1>1. \A c \in b + 1 .. j - 1 : c \in b + 1 .. i - 1
  OBVIOUS
<1>2. QED
  BY <1>1 DEF Holds

\* The range of the nodes and heads on the stack.
LEMMA ShapeTypes ==
    ASSUME NEW t \in Seq(Nodes), NEW v, NEW H, Shape(t, v, H)
    PROVE  /\ Len(v) \in Nat /\ Len(t) \in Nat /\ H \in Seq(Nat)
           /\ \A k \in 1 .. Len(v) :
                 /\ H[k] \in 1 .. Len(t) /\ v[k].node \in 1 .. Len(t) /\ H[k] <= v[k].node
                 /\ t[v[k].node].kind \in Bodies
                 /\ InnerIn(t, v[k].node) = k
                 /\ \A m \in 1 .. k - 1 : v[m].node < H[k] /\ v[m].node < v[k].node
<1>1. Len(v) \in Nat /\ Len(t) \in Nat /\ H \in Seq(Nat) /\ Len(H) = Len(v)
  BY DEF Shape
<1>2. ASSUME NEW k \in 1 .. Len(v)
      PROVE  /\ H[k] \in 1 .. Len(t) /\ v[k].node \in 1 .. Len(t) /\ H[k] <= v[k].node
             /\ t[v[k].node].kind \in Bodies
             /\ InnerIn(t, v[k].node) = k
             /\ \A m \in 1 .. k - 1 : v[m].node < H[k]
  <2>1. AtLevel(t, v, H, k)
    BY DEF Shape
  <2>2. QED
    BY <1>1, <2>1 DEF AtLevel
<1>3. ASSUME NEW k \in 1 .. Len(v), NEW m \in 1 .. k - 1
      PROVE  v[m].node < v[k].node
  <2>1. m \in 1 .. Len(v) /\ v[m].node < H[k]
    BY <1>1, <1>2
  <2>2. H[k] <= v[k].node /\ H[k] \in Nat /\ v[k].node \in Nat /\ v[m].node \in Nat
    BY <1>1, <1>2, <2>1
  <2>3. QED
    BY <2>1, <2>2
<1>4. QED
  BY <1>1, <1>2, <1>3

\* The bodies on the stack are the open ones.
LEMMA StackHolds ==
    ASSUME NEW t \in Seq(Nodes), NEW v, NEW H, Shape(t, v, H)
    PROVE  /\ \A k \in 1 .. Len(v) : Holds(t, v[k].node, Len(t) + 1)
           /\ \A b \in 1 .. Len(t) :
                 Holds(t, b, Len(t) + 1) => \E k \in 1 .. Len(v) : v[k].node = b
           /\ Len(v) > 0 => Within(t, v[Len(v)].node, Len(t) + 1)
<1>1. ASSUME NEW k \in 1 .. Len(v) PROVE Holds(t, v[k].node, Len(t) + 1)
  <2>1. PICK n : n = v[k].node
    OBVIOUS
  <2>2. /\ n \in 1 .. Len(t) /\ t[n].kind \in Bodies /\ InnerIn(t, n) = k
        /\ \A c \in n + 1 .. Len(t) : t[c].kind \in {"end", "else"} => LevelIn(t, c) > k
    BY <2>1 DEF Shape, AtLevel
  <2>3. Len(t) \in Nat /\ k \in Nat
    BY ShapeTypes
  <2>4. \A c \in n + 1 .. Len(t) : c \in Nat \ {0} /\ ~Shuts(t, c, n)
    <3> SUFFICES ASSUME NEW c \in n + 1 .. Len(t), Shuts(t, c, n)
                 PROVE  FALSE
      BY <2>2, <2>3
    <3>1. LevelIn(t, c) = k /\ LevelIn(t, c) > k
      BY <2>2 DEF Shuts
    <3>2. QED
      BY <2>3, <3>1
  <2>5. Holds(t, n, Len(t) + 1)
    BY <2>2, <2>3, <2>4 DEF Holds
  <2>6. QED
    BY <2>1, <2>5
<1>2. ASSUME NEW b \in 1 .. Len(t), Holds(t, b, Len(t) + 1)
      PROVE  \E k \in 1 .. Len(v) : v[k].node = b
  <2>1. \A c \in b + 1 .. Len(t) : ~Matches(t, b, c)
    BY <1>2, ShapeTypes DEF Holds, Matches
  <2>2. t[b].kind \in Bodies
    BY <1>2 DEF Holds
  <2>3. QED
    BY <2>1, <2>2 DEF Shape
<1>3. ASSUME Len(v) > 0 PROVE Within(t, v[Len(v)].node, Len(t) + 1)
  <2>1. Len(v) \in 1 .. Len(v) /\ Len(t) \in Nat /\ Len(v) \in Nat
    BY <1>3, ShapeTypes
  <2>2. Holds(t, v[Len(v)].node, Len(t) + 1)
    BY <1>1, <2>1
  <2>3. ASSUME NEW a \in 1 .. Len(t), Holds(t, a, Len(t) + 1) PROVE a <= v[Len(v)].node
    <3>1. PICK k \in 1 .. Len(v) : v[k].node = a
      BY <1>2, <2>3
    <3>2. CASE k = Len(v)
      BY <3>1, <3>2
    <3>3. CASE k \in 1 .. Len(v) - 1
      <4>1. a < v[Len(v)].node /\ v[Len(v)].node \in Nat
        BY <2>1, <3>1, <3>3, ShapeTypes
      <4>2. QED
        BY <4>1
    <3>4. QED
      BY <2>1, <3>2, <3>3
  <2>4. QED
    BY <2>1, <2>2, <2>3 DEF Within
<1>4. QED
  BY <1>1, <1>2, <1>3

\* What the visit requires of the next node.
Fitting(t, v, node) ==
    /\ node.kind # "function" => Len(v) > 0
    /\ node.kind = "else" => t[v[Len(v)].node].kind = "if"

\* The next node closes the innermost body and no other.
LEMMA NextMatches ==
    ASSUME NEW t, NEW node, NEW u, Grows(t, node, u), NEW v, NEW H, Shape(t, v, H),
           Fitting(t, v, node)
    PROVE  /\ node.kind \in {"end", "else"} =>
                  /\ Matches(u, v[Len(v)].node, Len(t) + 1)
                  /\ \A b \in 1 .. Len(t) : Shuts(u, Len(t) + 1, b) => InnerIn(t, b) = Len(v)
           /\ node.kind \notin {"end", "else"} =>
                  \A b \in 1 .. Len(t) : ~Shuts(u, Len(t) + 1, b)
           /\ Past(u, Len(t) + 1)
<1>1. /\ t \in Seq(Nodes) /\ Len(t) \in Nat /\ Len(v) \in Nat /\ u[Len(t) + 1] = node
      /\ \A i \in 1 .. Len(t) : u[i] = t[i]
  BY GrownNodes, ShapeTypes DEF Grows
<1>2. LevelIn(u, Len(t) + 1) = Len(v)
  BY <1>1, GrownLevels DEF Shape
<1>3. \A b \in 1 .. Len(t) : Holds(u, b, Len(t) + 1) <=> Holds(t, b, Len(t) + 1)
  <2>1. Len(t) + 1 \in 1 .. Len(t) + 1 /\ \A b \in 1 .. Len(t) : b \in 1 .. (Len(t) + 1) - 1
    BY <1>1
  <2>2. QED
    BY <2>1, GrownHolds
<1>4. ASSUME NEW b \in 1 .. Len(t), Shuts(u, Len(t) + 1, b) PROVE InnerIn(t, b) = Len(v)
  BY <1>2, <1>4, GrownLevels DEF Shuts
<1>5. ASSUME node.kind \in {"end", "else"} PROVE Matches(u, v[Len(v)].node, Len(t) + 1)
  <2>1. PICK d : d = Len(v)
    OBVIOUS
  <2>2. PICK n : n = v[d].node
    OBVIOUS
  <2>3. d \in 1 .. Len(v) /\ d \in Nat
    BY <1>1, <1>5, <2>1 DEF Fitting
  <2>4. n \in 1 .. Len(t) /\ InnerIn(t, n) = d
    BY <1>1, <2>2, <2>3, ShapeTypes
  <2>5. Shuts(u, Len(t) + 1, n)
    BY <1>1, <1>2, <1>5, <2>1, <2>4, GrownLevels DEF Shuts
  <2>6. Within(u, n, Len(t) + 1)
    <3>1. Within(t, n, Len(t) + 1)
      BY <1>1, <2>1, <2>2, <2>3, StackHolds
    <3>2. \A b \in 1 .. (Len(t) + 1) - 1 : b \in 1 .. Len(t)
      BY <1>1
    <3>3. QED
      BY <1>3, <2>4, <3>1, <3>2 DEF Within
  <2>7. ASSUME NEW a \in 1 .. Len(t), Holds(u, a, Len(t) + 1), Shuts(u, Len(t) + 1, a)
        PROVE  a = n
    <3>1. PICK k \in 1 .. Len(v) : v[k].node = a
      BY <1>1, <1>3, <2>7, StackHolds
    <3>2. k = d
      BY <1>1, <1>4, <2>1, <2>7, <3>1, ShapeTypes
    <3>3. QED
      BY <2>2, <3>1, <3>2
  <2>8. Matches(u, n, Len(t) + 1)
    <3>1. \A b \in 1 .. (Len(t) + 1) - 1 : b \in 1 .. Len(t)
      BY <1>1
    <3>2. QED
      BY <2>5, <2>6, <2>7, <3>1 DEF Matches
  <2>9. QED
    BY <2>1, <2>2, <2>8
<1>6. ASSUME node.kind \notin {"end", "else"}, NEW b \in 1 .. Len(t)
      PROVE  ~Shuts(u, Len(t) + 1, b)
  BY <1>1, <1>6 DEF Shuts
<1>7. Past(u, Len(t) + 1)
  <2>1. ASSUME node.kind # "function"
        PROVE  \E f \in 1 .. (Len(t) + 1) - 1 :
                   Holds(u, f, Len(t) + 1) /\ u[f].kind = "function"
    <3>1. 1 \in 1 .. Len(v) /\ Len(v) > 0
      BY <1>1, <2>1 DEF Fitting
    <3>2. PICK f : f = v[1].node
      OBVIOUS
    <3>3. t[f].kind = "function"
      BY <3>1, <3>2 DEF Shape
    <3>4. f \in 1 .. Len(t) /\ Holds(t, f, Len(t) + 1)
      BY <1>1, <3>1, <3>2, ShapeTypes, StackHolds
    <3>5. f \in 1 .. (Len(t) + 1) - 1
      BY <1>1, <3>4
    <3>6. QED
      BY <1>1, <1>3, <3>3, <3>4, <3>5
  <2>2. ASSUME node.kind \in {"end", "else"}
        PROVE  \E b \in 1 .. (Len(t) + 1) - 1 :
                   Matches(u, b, Len(t) + 1) /\ (node.kind = "else" => u[b].kind = "if")
    <3>1. PICK n : n = v[Len(v)].node
      OBVIOUS
    <3>2. n \in 1 .. (Len(t) + 1) - 1 /\ n \in 1 .. Len(t)
      <4>1. Len(v) \in 1 .. Len(v)
        BY <1>1, <2>2 DEF Fitting
      <4>2. QED
        BY <1>1, <3>1, <4>1, ShapeTypes
    <3>3. Matches(u, n, Len(t) + 1)
      BY <1>5, <2>2, <3>1
    <3>4. node.kind = "else" => u[n].kind = "if"
      BY <1>1, <3>1, <3>2 DEF Fitting
    <3>5. QED
      BY <3>2, <3>3, <3>4
  <2>3. QED
    BY <1>1, <2>1, <2>2 DEF Past
<1>8. QED
  BY <1>4, <1>5, <1>6, <1>7

-----------------------------------------------------------------------------
(* The stack follows the tree *)

\* A visit that stays on the stack still fits its level.
LEMMA OldLevel ==
    ASSUME NEW t, NEW node, NEW u, Grows(t, node, u), NEW v, NEW H, Shape(t, v, H),
           NEW w, NEW G, NEW k \in 1 .. Len(v), G[k] = H[k],
           \A m \in 1 .. k : w[m].node = v[m].node,
           node.kind \in {"end", "else"} => k < Len(v)
    PROVE  AtLevel(u, w, G, k)
<1> DEFINE n == v[k].node
<1>1. /\ t \in Seq(Nodes) /\ Len(t) \in Nat /\ Len(v) \in Nat /\ u[Len(t) + 1] = node
      /\ Len(u) = Len(t) + 1 /\ \A i \in 1 .. Len(t) : u[i] = t[i]
  BY GrownNodes, ShapeTypes DEF Grows
<1>2. LevelIn(u, Len(t) + 1) = Len(v)
  BY <1>1, GrownLevels DEF Shape
<1>3. AtLevel(t, v, H, k) /\ n \in 1 .. Len(t)
  BY <1>1, ShapeTypes DEF Shape
<1>4. w[k].node = n /\ \A m \in 1 .. k - 1 : w[m].node = v[m].node
  BY <1>1
<1> HIDE DEF n
<1>5. n \in 1 .. Len(u) /\ u[n].kind \in Bodies /\ InnerIn(u, n) = k
  BY <1>1, <1>3, GrownLevels DEF AtLevel, n
<1>6. ASSUME NEW c \in n + 1 .. Len(u), u[c].kind \in {"end", "else"} PROVE LevelIn(u, c) > k
  <2>1. CASE c = Len(t) + 1
    BY <1>1, <1>2, <1>6, <2>1
  <2>2. CASE c \in n + 1 .. Len(t)
    <3>1. c \in 1 .. Len(t) /\ c \in 1 .. Len(t) + 1
      BY <1>1, <1>3, <2>2
    <3>2. LevelIn(t, c) > k
      BY <1>1, <1>3, <1>6, <2>2, <3>1 DEF AtLevel, n
    <3>3. QED
      BY <3>1, <3>2, GrownLevels
  <2>3. QED
    BY <1>1, <1>3, <2>1, <2>2
<1>7. IF u[n].kind = "else"
      THEN G[k] \in 1 .. n - 1 /\ u[G[k]].kind = "if" /\ Matches(u, G[k], n)
      ELSE G[k] = n
  <2>1. u[n] = t[n]
    BY <1>1, <1>3
  <2>2. CASE t[n].kind = "else"
    <3>1. H[k] \in 1 .. n - 1 /\ t[H[k]].kind = "if" /\ Matches(t, H[k], n)
      BY <1>3, <2>2 DEF AtLevel, n
    <3>2. H[k] \in 1 .. Len(t)
      BY <1>1, <1>3, <3>1
    <3>3. Matches(u, H[k], n)
      BY <1>3, <3>1, GrownMatches
    <3>4. QED
      BY <1>1, <2>1, <2>2, <3>1, <3>2, <3>3
  <2>3. CASE t[n].kind # "else"
    BY <1>3, <2>1, <2>3 DEF AtLevel, n
  <2>4. QED
    BY <2>2, <2>3
<1>8. \A m \in 1 .. k - 1 : w[m].node < G[k]
  BY <1>3, <1>4 DEF AtLevel
<1>9. QED
  BY <1>4, <1>5, <1>6, <1>7, <1>8 DEF AtLevel

\* A body that was closed stays so.
LEMMA OldBodies ==
    ASSUME NEW t, NEW node, NEW u, Grows(t, node, u), NEW v, NEW H, Shape(t, v, H),
           NEW b \in 1 .. Len(t), u[b].kind \in Bodies, \A k \in 1 .. Len(v) : v[k].node # b
    PROVE  \E c \in b + 1 .. Len(u) : Matches(u, b, c)
<1>1. /\ Len(t) \in Nat /\ Len(u) = Len(t) + 1 /\ u[b] = t[b]
  BY GrownNodes
<1>2. PICK c \in b + 1 .. Len(t) : Matches(t, b, c)
  BY <1>1 DEF Shape
<1>3. c \in 1 .. Len(t) /\ b \in 1 .. c - 1 /\ c \in b + 1 .. Len(u)
  BY <1>1
<1>4. Matches(u, b, c)
  BY <1>2, <1>3, GrownMatches
<1>5. QED
  BY <1>3, <1>4

\* What is so at the nodes behind the visit is so at the next one.
LEMMA OldPast ==
    ASSUME NEW t, NEW node, NEW u, Grows(t, node, u), NEW v, NEW H, Shape(t, v, H),
           Fitting(t, v, node)
    PROVE  \A i \in 1 .. Len(u) : Past(u, i)
<1>1. Len(t) \in Nat /\ Len(u) = Len(t) + 1
  BY GrownNodes
<1>2. \A i \in 1 .. Len(t) : Past(u, i)
  BY GrownMatches DEF Shape
<1>3. Past(u, Len(t) + 1)
  BY NextMatches
<1>4. QED
  BY <1>1, <1>2, <1>3

\* How deep the visit is behind the next node.
LEMMA NextLevel ==
    ASSUME NEW t, NEW node, NEW u, Grows(t, node, u), NEW v, NEW H, Shape(t, v, H)
    PROVE  /\ node.kind \in Bodies \ {"else"} => LevelIn(u, Len(u) + 1) = Len(v) + 1
           /\ node.kind = "end" => LevelIn(u, Len(u) + 1) = Len(v) - 1
           /\ node.kind \notin Bodies \cup {"end"} => LevelIn(u, Len(u) + 1) = Len(v)
           /\ node.kind = "else" => LevelIn(u, Len(u) + 1) = Len(v)
<1>1. Len(t) \in Nat /\ u[Len(t) + 1] = node /\ Len(u) = Len(t) + 1
  BY GrownNodes
<1>2. LevelIn(u, Len(t) + 1) = Len(v)
  BY <1>1, GrownLevels DEF Shape
<1>3. Len(t) + 1 \in Nat \ {0}
  BY <1>1
<1>4. Len(v) \in Nat
  BY ShapeTypes DEF Grows
<1>5. LevelIn(u, Len(u) + 1)
          = Len(v) + (IF node.kind \in Bodies \ {"else"} THEN 1 ELSE 0)
                - (IF node.kind = "end" THEN 1 ELSE 0)
  BY <1>1, <1>2, <1>3, LevelNext
<1>6. PICK l \in Int : l = LevelIn(u, Len(u) + 1)
  BY <1>1, CountsFinite
<1> DEFINE rises == node.kind \in Bodies \ {"else"}
           ends == node.kind = "end"
<1>7. l = Len(v) + (IF rises THEN 1 ELSE 0) - (IF ends THEN 1 ELSE 0)
  BY <1>5, <1>6
<1>8. /\ rises => ~ends
      /\ node.kind = "else" => ~rises /\ ~ends
      /\ node.kind \notin Bodies \cup {"end"} => ~rises /\ ~ends
  BY DEF Bodies
<1> HIDE DEF rises, ends
<1>9. /\ rises => l = Len(v) + 1
      /\ ends => l = Len(v) - 1
      /\ ~rises /\ ~ends => l = Len(v)
  BY <1>4, <1>7, <1>8
<1>10. QED
  BY <1>6, <1>8, <1>9 DEF rises, ends

\* A statement without a body.
LEMMA ShapeStays ==
    ASSUME NEW t, NEW node, NEW u, Grows(t, node, u), NEW v, NEW H, Shape(t, v, H),
           Fitting(t, v, node), node.kind \notin Bodies \cup {"end"},
           NEW w, Len(w) = Len(v), \A k \in 1 .. Len(v) : w[k].node = v[k].node
    PROVE  Shape(u, w, H)
<1>1. /\ t \in Seq(Nodes) /\ Len(t) \in Nat /\ Len(v) \in Nat /\ u[Len(t) + 1] = node
      /\ Len(u) = Len(t) + 1 /\ \A i \in 1 .. Len(t) : u[i] = t[i]
      /\ \A k \in 1 .. Len(v) : v[k].node \in 1 .. Len(t)
  BY GrownNodes, ShapeTypes DEF Grows
<1>2. ASSUME NEW k \in 1 .. Len(v) PROVE AtLevel(u, w, H, k)
  <2>1. \A m \in 1 .. k : w[m].node = v[m].node
    BY <1>1
  <2>2. node.kind \notin {"end", "else"}
    BY DEF Bodies
  <2>3. QED
    BY <2>1, <2>2, OldLevel
<1>3. LevelIn(u, Len(u) + 1) = Len(w)
  BY NextLevel
<1>4. Len(w) > 0 => u[w[1].node].kind = "function"
  BY <1>1 DEF Shape
<1>5. \A b \in 1 .. Len(u) : u[b].kind \in Bodies =>
             \/ \E k \in 1 .. Len(w) : w[k].node = b
             \/ \E c \in b + 1 .. Len(u) : Matches(u, b, c)
  <2>1. SUFFICES ASSUME NEW b \in 1 .. Len(u), u[b].kind \in Bodies,
                        \A k \in 1 .. Len(w) : w[k].node # b
                 PROVE  \E c \in b + 1 .. Len(u) : Matches(u, b, c)
    OBVIOUS
  <2>2. b \in 1 .. Len(t)
    BY <1>1, <2>1
  <2>3. \A k \in 1 .. Len(v) : v[k].node # b
    BY <2>1
  <2>4. QED
    BY <2>1, <2>2, <2>3, OldBodies
<1>6. \A i \in 1 .. Len(u) : Past(u, i)
  BY OldPast
<1>7. H \in Seq(Nat) /\ Len(H) = Len(w)
  BY DEF Shape
<1>8. QED
  BY <1>2, <1>3, <1>4, <1>5, <1>6, <1>7 DEF Shape

\* A body that is not an else block.
LEMMA ShapePush ==
    ASSUME NEW t, NEW node, NEW u, Grows(t, node, u), NEW v, NEW H, Shape(t, v, H),
           Fitting(t, v, node), node.kind \in Bodies \ {"else"},
           NEW w, Len(w) = Len(v) + 1, w[Len(v) + 1].node = Len(t) + 1,
           \A k \in 1 .. Len(v) : w[k].node = v[k].node
    PROVE  Shape(u, w, Append(H, Len(t) + 1))
<1> DEFINE G == Append(H, Len(t) + 1)
<1>1. /\ t \in Seq(Nodes) /\ Len(t) \in Nat /\ Len(v) \in Nat /\ u[Len(t) + 1] = node
      /\ Len(u) = Len(t) + 1 /\ \A i \in 1 .. Len(t) : u[i] = t[i]
      /\ \A k \in 1 .. Len(v) : v[k].node \in 1 .. Len(t)
  BY GrownNodes, ShapeTypes DEF Grows
<1>2. /\ G \in Seq(Nat) /\ Len(G) = Len(w) /\ G[Len(v) + 1] = Len(t) + 1
      /\ \A k \in 1 .. Len(v) : G[k] = H[k]
  <2>1. H \in Seq(Nat) /\ Len(H) = Len(v)
    BY DEF Shape
  <2>2. QED
    BY <1>1, <2>1
<1> HIDE DEF G
<1>3. node.kind \notin {"end", "else"} /\ node.kind # "end"
  BY DEF Bodies
<1>4. ASSUME NEW k \in 1 .. Len(v) PROVE AtLevel(u, w, G, k)
  <2>1. \A m \in 1 .. k : w[m].node = v[m].node
    BY <1>1
  <2>2. QED
    BY <1>2, <1>3, <2>1, OldLevel
<1>5. AtLevel(u, w, G, Len(v) + 1)
  <2>1. PICK k, n : k = Len(v) + 1 /\ n = Len(t) + 1
    OBVIOUS
  <2>2. n \in 1 .. Len(u) /\ u[n].kind \in Bodies /\ u[n].kind # "else" /\ G[k] = n /\ w[k].node = n
    BY <1>1, <1>2, <1>3, <2>1
  <2>3. InnerIn(u, n) = k
    <3>1. LevelIn(u, n) = Len(v)
      BY <1>1, <2>1, GrownLevels DEF Shape
    <3>2. QED
      BY <2>1, <2>2, <3>1 DEF InnerIn
  <2>4. \A m \in 1 .. k - 1 : w[m].node < G[k]
    BY <1>1, <2>1, <2>2
  <2>5. \A c \in n + 1 .. Len(u) : FALSE
    BY <1>1, <2>1
  <2>6. AtLevel(u, w, G, k)
    BY <2>2, <2>3, <2>4, <2>5 DEF AtLevel
  <2>7. QED
    BY <2>1, <2>6
<1>6. \A k \in 1 .. Len(w) : AtLevel(u, w, G, k)
  <2>1. \A k \in 1 .. Len(w) : k \in 1 .. Len(v) \/ k = Len(v) + 1
    BY <1>1
  <2>2. QED
    BY <1>4, <1>5, <2>1
<1>7. LevelIn(u, Len(u) + 1) = Len(w)
  BY NextLevel
<1>8. Len(w) > 0 => u[w[1].node].kind = "function"
  <2>1. CASE Len(v) = 0
    BY <1>1, <2>1 DEF Fitting
  <2>2. CASE Len(v) > 0
    BY <1>1, <2>2 DEF Shape
  <2>3. QED
    BY <1>1, <2>1, <2>2
<1>9. \A b \in 1 .. Len(u) : u[b].kind \in Bodies =>
             \/ \E k \in 1 .. Len(w) : w[k].node = b
             \/ \E c \in b + 1 .. Len(u) : Matches(u, b, c)
  <2>1. \A k \in 1 .. Len(v) : k \in 1 .. Len(w) /\ w[k].node = v[k].node
    BY <1>1
  <2>2. Len(v) + 1 \in 1 .. Len(w)
    BY <1>1
  <2>3. SUFFICES ASSUME NEW b \in 1 .. Len(u), u[b].kind \in Bodies,
                        \A k \in 1 .. Len(w) : w[k].node # b
                 PROVE  \E c \in b + 1 .. Len(u) : Matches(u, b, c)
    OBVIOUS
  <2>4. b \in 1 .. Len(t)
    BY <1>1, <2>2, <2>3
  <2>5. \A k \in 1 .. Len(v) : v[k].node # b
    BY <2>1, <2>3
  <2>6. QED
    BY <2>3, <2>4, <2>5, OldBodies
<1>10. \A i \in 1 .. Len(u) : Past(u, i)
  BY OldPast
<1>11. Shape(u, w, G)
  BY <1>2, <1>6, <1>7, <1>8, <1>9, <1>10 DEF Shape
<1>12. QED
  BY <1>11 DEF G

\* The else block of the innermost if.
LEMMA ShapeElse ==
    ASSUME NEW t, NEW node, NEW u, Grows(t, node, u), NEW v, NEW H, Shape(t, v, H),
           Fitting(t, v, node), node.kind = "else",
           NEW w, Len(w) = Len(v), w[Len(v)].node = Len(t) + 1,
           \A k \in 1 .. Len(v) - 1 : w[k].node = v[k].node
    PROVE  Shape(u, w, H)
<1>1. /\ t \in Seq(Nodes) /\ Len(t) \in Nat /\ Len(v) \in Nat /\ u[Len(t) + 1] = node
      /\ Len(u) = Len(t) + 1 /\ \A i \in 1 .. Len(t) : u[i] = t[i]
      /\ \A k \in 1 .. Len(v) : v[k].node \in 1 .. Len(t)
      /\ Len(v) \in 1 .. Len(v)
  BY GrownNodes, ShapeTypes DEF Grows, Fitting
<1>2. H \in Seq(Nat) /\ Len(H) = Len(w)
  BY DEF Shape
<1>3. ASSUME NEW k \in 1 .. Len(v) - 1 PROVE AtLevel(u, w, H, k)
  <2>1. k \in 1 .. Len(v) /\ k < Len(v) /\ \A m \in 1 .. k : w[m].node = v[m].node
    BY <1>1
  <2>2. QED
    BY <2>1, OldLevel
<1>4. PICK d, n, h : d = Len(v) /\ n = Len(t) + 1 /\ h = v[d].node
  OBVIOUS
<1>5. /\ d \in 1 .. Len(v) /\ h \in 1 .. Len(t) /\ t[h].kind = "if" /\ H[d] = h
      /\ \A m \in 1 .. d - 1 : v[m].node < H[d]
  <2>1. t[h].kind = "if"
    BY <1>4 DEF Fitting
  <2>2. AtLevel(t, v, H, d)
    BY <1>1, <1>4 DEF Shape
  <2>3. QED
    BY <1>1, <1>4, <2>1, <2>2 DEF AtLevel
<1>6. AtLevel(u, w, H, d)
  <2>1. n \in 1 .. Len(u) /\ u[n].kind \in Bodies /\ u[n].kind = "else" /\ w[d].node = n
    BY <1>1, <1>4 DEF Bodies
  <2>2. InnerIn(u, n) = d
    BY <1>1, <1>4, <2>1, GrownLevels DEF InnerIn, Shape
  <2>3. H[d] \in 1 .. n - 1 /\ u[H[d]].kind = "if"
    BY <1>1, <1>4, <1>5
  <2>4. Matches(u, H[d], n)
    BY <1>4, <1>5, NextMatches
  <2>5. \A m \in 1 .. d - 1 : w[m].node < H[d]
    BY <1>1, <1>4, <1>5
  <2>6. \A c \in n + 1 .. Len(u) : FALSE
    BY <1>1, <1>4
  <2>7. QED
    BY <2>1, <2>2, <2>3, <2>4, <2>5, <2>6 DEF AtLevel
<1>7. \A k \in 1 .. Len(w) : AtLevel(u, w, H, k)
  <2>1. \A k \in 1 .. Len(w) : k \in 1 .. Len(v) - 1 \/ k = d
    BY <1>1, <1>4
  <2>2. QED
    BY <1>3, <1>6, <2>1
<1>8. LevelIn(u, Len(u) + 1) = Len(w)
  BY NextLevel
<1>9. u[w[1].node].kind = "function"
  <2>1. CASE d = 1
    BY <1>1, <1>4, <1>5, <2>1 DEF Shape
  <2>2. CASE d # 1
    <3>1. 1 \in 1 .. Len(v) - 1 /\ 1 \in 1 .. Len(v) /\ Len(v) > 0
      BY <1>1, <1>4, <2>2
    <3>2. w[1].node = v[1].node /\ v[1].node \in 1 .. Len(t) /\ t[v[1].node].kind = "function"
      BY <1>1, <3>1 DEF Shape
    <3>3. QED
      BY <1>1, <3>2
  <2>3. QED
    BY <2>1, <2>2
<1>10. ASSUME NEW b \in 1 .. Len(u), u[b].kind \in Bodies
       PROVE  \/ \E k \in 1 .. Len(w) : w[k].node = b
              \/ \E c \in b + 1 .. Len(u) : Matches(u, b, c)
  <2>1. CASE b = n
    BY <1>1, <1>4, <2>1
  <2>2. CASE b = h
    <3>1. Matches(u, h, n) /\ n \in h + 1 .. Len(u)
      BY <1>1, <1>4, <1>5, NextMatches
    <3>2. QED
      BY <2>2, <3>1
  <2>3. CASE b # h /\ b \in 1 .. Len(t)
    <3>1. CASE \A k \in 1 .. Len(v) : v[k].node # b
      <4>1. b \in 1 .. Len(t)
        BY <2>3
      <4>2. QED
        BY <1>10, <3>1, <4>1, OldBodies
    <3>2. CASE \E k \in 1 .. Len(v) : v[k].node = b
      <4>1. PICK k \in 1 .. Len(v) : v[k].node = b
        BY <3>2
      <4>2. k \in 1 .. Len(v) - 1 /\ k \in 1 .. Len(w)
        BY <1>1, <1>4, <2>3, <4>1
      <4>3. QED
        BY <4>1, <4>2
    <3>3. QED
      BY <3>1, <3>2
  <2>4. QED
    BY <1>1, <1>4, <2>1, <2>2, <2>3
<1>11. \A i \in 1 .. Len(u) : Past(u, i)
  BY OldPast
<1>12. QED
  BY <1>2, <1>7, <1>8, <1>9, <1>10, <1>11 DEF Shape

\* The end of the innermost body.
LEMMA ShapePop ==
    ASSUME NEW t, NEW node, NEW u, Grows(t, node, u), NEW v, NEW H, Shape(t, v, H),
           Fitting(t, v, node), node.kind = "end",
           NEW w, Len(w) = Len(v) - 1, NEW G \in Seq(Nat), Len(G) = Len(v) - 1,
           \A k \in 1 .. Len(v) - 1 : w[k].node = v[k].node /\ G[k] = H[k]
    PROVE  Shape(u, w, G)
<1>1. /\ t \in Seq(Nodes) /\ Len(t) \in Nat /\ Len(v) \in Nat /\ u[Len(t) + 1] = node
      /\ Len(u) = Len(t) + 1 /\ \A i \in 1 .. Len(t) : u[i] = t[i]
      /\ \A k \in 1 .. Len(v) : v[k].node \in 1 .. Len(t)
      /\ Len(v) \in 1 .. Len(v)
  BY GrownNodes, ShapeTypes DEF Grows, Fitting
<1>2. ASSUME NEW k \in 1 .. Len(w) PROVE AtLevel(u, w, G, k)
  <2>1. k \in 1 .. Len(v) /\ k < Len(v) /\ k \in 1 .. Len(v) - 1
        /\ \A m \in 1 .. k : w[m].node = v[m].node
    BY <1>1
  <2>2. QED
    BY <2>1, OldLevel
<1>3. LevelIn(u, Len(u) + 1) = Len(w)
  BY NextLevel
<1>4. Len(w) > 0 => u[w[1].node].kind = "function"
  <2>1. ASSUME Len(w) > 0 PROVE u[w[1].node].kind = "function"
    <3>1. 1 \in 1 .. Len(v) - 1 /\ 1 \in 1 .. Len(v) /\ Len(v) > 0
      BY <1>1, <2>1
    <3>2. w[1].node = v[1].node /\ v[1].node \in 1 .. Len(t) /\ t[v[1].node].kind = "function"
      BY <1>1, <3>1 DEF Shape
    <3>3. QED
      BY <1>1, <3>2
  <2>2. QED
    BY <2>1
<1>5. ASSUME NEW b \in 1 .. Len(u), u[b].kind \in Bodies
      PROVE  \/ \E k \in 1 .. Len(w) : w[k].node = b
             \/ \E c \in b + 1 .. Len(u) : Matches(u, b, c)
  <2>1. b \in 1 .. Len(t)
    <3>1. node.kind \notin Bodies
      BY DEF Bodies
    <3>2. QED
      BY <1>1, <1>5, <3>1
  <2>2. CASE b = v[Len(v)].node
    <3>1. Matches(u, b, Len(t) + 1) /\ Len(t) + 1 \in b + 1 .. Len(u)
      BY <1>1, <2>1, <2>2, NextMatches
    <3>2. QED
      BY <3>1
  <2>3. CASE b # v[Len(v)].node
    <3>1. CASE \A k \in 1 .. Len(v) : v[k].node # b
      <4>1. b \in 1 .. Len(t)
        BY <2>1
      <4>2. QED
        BY <1>5, <3>1, <4>1, OldBodies
    <3>2. CASE \E k \in 1 .. Len(v) : v[k].node = b
      <4>1. PICK k \in 1 .. Len(v) : v[k].node = b
        BY <3>2
      <4>2. k \in 1 .. Len(v) - 1 /\ k \in 1 .. Len(w)
        BY <1>1, <2>3, <4>1
      <4>3. QED
        BY <4>1, <4>2
    <3>3. QED
      BY <3>1, <3>2
  <2>4. QED
    BY <2>2, <2>3
<1>6. \A i \in 1 .. Len(u) : Past(u, i)
  BY OldPast
<1>7. QED
  BY <1>2, <1>3, <1>4, <1>5, <1>6 DEF Shape

-----------------------------------------------------------------------------
(* Loops around a statement *)

\* The next node is outside of loops exactly if the visit counts none.
LEMMA NextOutside ==
    ASSUME NEW t, NEW node, NEW u, Grows(t, node, u), NEW v, NEW H, Shape(t, v, H),
           LoopsCounted(t, v), Len(v) > 0
    PROVE  Outside(u, Len(t) + 1) <=> v[Len(v)].loops = 0
<1>1. /\ t \in Seq(Nodes) /\ Len(t) \in Nat /\ Len(v) \in Nat /\ Len(v) \in 1 .. Len(v)
      /\ \A i \in 1 .. Len(t) : u[i] = t[i]
      /\ \A k \in 1 .. Len(v) : v[k].node \in 1 .. Len(t)
  BY GrownNodes, ShapeTypes DEF Grows
<1>2. \A b \in 1 .. Len(t) : Holds(u, b, Len(t) + 1) <=> \E k \in 1 .. Len(v) : v[k].node = b
  <2>1. Len(t) + 1 \in 1 .. Len(t) + 1 /\ \A b \in 1 .. Len(t) : b \in 1 .. (Len(t) + 1) - 1
    BY <1>1
  <2>2. \A b \in 1 .. Len(t) : Holds(u, b, Len(t) + 1) <=> Holds(t, b, Len(t) + 1)
    BY <2>1, GrownHolds
  <2>3. /\ \A k \in 1 .. Len(v) : Holds(t, v[k].node, Len(t) + 1)
        /\ \A b \in 1 .. Len(t) :
              Holds(t, b, Len(t) + 1) => \E k \in 1 .. Len(v) : v[k].node = b
    BY <1>1, StackHolds
  <2>4. QED
    BY <2>2, <2>3
<1> DEFINE Free == \A m \in 1 .. Len(v) : t[v[m].node].kind = "loop" =>
                       \E p \in m + 1 .. Len(v) : t[v[p].node].kind = "function"
<1>3. v[Len(v)].loops = 0 <=> Free
  BY <1>1 DEF LoopsCounted, NoLoops
<1>4. ASSUME Outside(u, Len(t) + 1), NEW m \in 1 .. Len(v), t[v[m].node].kind = "loop"
      PROVE  \E p \in m + 1 .. Len(v) : t[v[p].node].kind = "function"
  <2>1. PICK l \in 1 .. Len(t) : l = v[m].node
    BY <1>1
  <2>2. l \in 1 .. (Len(t) + 1) - 1 /\ Holds(u, l, Len(t) + 1) /\ u[l].kind = "loop"
    BY <1>1, <1>2, <1>4, <2>1
  <2>3. PICK g \in l + 1 .. (Len(t) + 1) - 1 : Holds(u, g, Len(t) + 1) /\ u[g].kind = "function"
    BY <1>4, <2>2 DEF Outside
  <2>4. g \in 1 .. Len(t) /\ l < g
    BY <1>1, <2>1
  <2>5. PICK p \in 1 .. Len(v) : v[p].node = g
    BY <1>2, <2>3, <2>4
  <2>6. ~(p < m) /\ p # m
    <3>1. p < m => v[p].node < v[m].node
      BY <1>1, <2>5, ShapeTypes
    <3>2. QED
      BY <2>1, <2>4, <2>5, <3>1
  <2>7. p \in m + 1 .. Len(v)
    BY <1>1, <2>6
  <2>8. QED
    BY <1>1, <2>3, <2>4, <2>5, <2>7
<1>5. ASSUME Free PROVE Outside(u, Len(t) + 1)
  <2>1. SUFFICES ASSUME NEW l \in 1 .. (Len(t) + 1) - 1, Holds(u, l, Len(t) + 1),
                        u[l].kind = "loop"
                 PROVE  \E g \in l + 1 .. (Len(t) + 1) - 1 :
                            Holds(u, g, Len(t) + 1) /\ u[g].kind = "function"
    BY DEF Outside
  <2>2. l \in 1 .. Len(t)
    BY <1>1
  <2>3. PICK m \in 1 .. Len(v) : v[m].node = l
    BY <1>2, <2>1, <2>2
  <2>4. t[v[m].node].kind = "loop"
    BY <1>1, <2>1, <2>2, <2>3
  <2>5. PICK p \in m + 1 .. Len(v) : t[v[p].node].kind = "function"
    BY <1>5, <2>4
  <2>6. p \in 1 .. Len(v) /\ m \in 1 .. p - 1
    BY <1>1
  <2>7. PICK g : g = v[p].node
    OBVIOUS
  <2>8. g \in 1 .. Len(t) /\ l < g
    BY <1>1, <2>3, <2>6, <2>7, ShapeTypes
  <2>9. g \in l + 1 .. (Len(t) + 1) - 1 /\ Holds(u, g, Len(t) + 1) /\ u[g].kind = "function"
    BY <1>1, <1>2, <2>2, <2>5, <2>6, <2>7, <2>8
  <2>10. QED
    BY <2>9
<1>6. QED
  BY <1>3, <1>4, <1>5

\* The loops and functions on the stack are the same up to level k.
SameLoops(t, v, u, w, k) ==
    \A m \in 1 .. k :
        /\ u[w[m].node].kind = "loop" <=> t[v[m].node].kind = "loop"
        /\ u[w[m].node].kind = "function" <=> t[v[m].node].kind = "function"

\* The count of loops is right for as long as the stack below is the same.
LEMMA LoopsStay ==
    ASSUME NEW t, NEW v, LoopsCounted(t, v), NEW u, NEW w, NEW k \in 1 .. Len(v),
           Len(v) \in Nat, w[k].loops = v[k].loops, SameLoops(t, v, u, w, k)
    PROVE  w[k].loops \in Nat /\ (w[k].loops = 0 <=> NoLoops(u, w, k))
<1>1. v[k].loops \in Nat /\ (v[k].loops = 0 <=> NoLoops(t, v, k))
  BY DEF LoopsCounted
<1>2. \A m \in 1 .. k : \A p \in m + 1 .. k : p \in 1 .. k
  OBVIOUS
<1>3. NoLoops(u, w, k) <=> NoLoops(t, v, k)
  BY <1>2 DEF NoLoops, SameLoops
<1>4. QED
  BY <1>1, <1>3

\* A body is entered: a function without loops, a loop with one more.
LEMMA LoopsPush ==
    ASSUME NEW t, NEW v, LoopsCounted(t, v), Len(v) \in Nat, NEW u, NEW w,
           Len(w) = Len(v) + 1,
           \A k \in 1 .. Len(v) :
               w[k].loops = v[k].loops /\ u[w[k].node].kind = t[v[k].node].kind,
           NEW d, d = Len(v) + 1, NEW kind, kind = u[w[d].node].kind,
           kind = "function" => w[d].loops = 0,
           kind # "function" =>
               /\ Len(v) > 0
               /\ w[d].loops = v[Len(v)].loops + IF kind = "loop" THEN 1 ELSE 0
    PROVE  LoopsCounted(u, w)
<1>1. ASSUME NEW k \in 1 .. Len(v)
      PROVE  w[k].loops \in Nat /\ (w[k].loops = 0 <=> NoLoops(u, w, k))
  <2>1. SameLoops(t, v, u, w, k)
    BY DEF SameLoops
  <2>2. QED
    BY <2>1, LoopsStay
<1>2. d \in Nat /\ d \in 1 .. d /\ Len(w) = d
  OBVIOUS
<1>3. w[d].loops \in Nat /\ (w[d].loops = 0 <=> NoLoops(u, w, d))
  <2>1. CASE kind = "function"
    <3>1. \A m \in 1 .. d : m = d \/ d \in m + 1 .. d
      BY <1>2
    <3>2. NoLoops(u, w, d)
      BY <2>1, <3>1 DEF NoLoops
    <3>3. QED
      BY <2>1, <3>2
  <2>2. CASE kind = "loop"
    <3>1. Len(v) \in 1 .. Len(v) /\ w[d].loops = v[Len(v)].loops + 1
      BY <2>2
    <3>2. v[Len(v)].loops \in Nat
      BY <3>1 DEF LoopsCounted
    <3>3. \A p \in d + 1 .. d : FALSE
      BY <1>2
    <3>4. ~NoLoops(u, w, d)
      BY <1>2, <2>2, <3>3 DEF NoLoops
    <3>5. QED
      BY <3>1, <3>2, <3>4
  <2>3. CASE kind # "function" /\ kind # "loop"
    <3>1. Len(v) \in 1 .. Len(v) /\ w[d].loops = v[Len(v)].loops + 0
      BY <2>3
    <3>2. v[Len(v)].loops \in Nat
      BY <3>1 DEF LoopsCounted
    <3>3. w[d].loops \in Nat /\ w[d].loops = w[Len(v)].loops
      BY <3>1, <3>2
    <3>4. NoLoops(u, w, Len(v)) <=> NoLoops(u, w, d)
      <4>1. \A m \in 1 .. d : m \in 1 .. Len(v) \/ (m = d /\ u[w[m].node].kind # "loop")
        BY <1>2, <2>3
      <4>2. \A m \in 1 .. Len(v) : m \in 1 .. d
        BY <1>2
      <4>3. \A m \in 1 .. Len(v) : \A p \in m + 1 .. d :
                p \in m + 1 .. Len(v) \/ (p = d /\ u[w[p].node].kind # "function")
        BY <1>2, <2>3
      <4>4. \A m \in 1 .. Len(v) : \A p \in m + 1 .. Len(v) : p \in m + 1 .. d
        BY <1>2
      <4>5. QED
        BY <4>1, <4>2, <4>3, <4>4 DEF NoLoops
    <3>5. QED
      BY <1>1, <3>1, <3>3, <3>4
  <2>4. QED
    BY <2>1, <2>2, <2>3
<1>4. \A k \in 1 .. Len(w) : k \in 1 .. Len(v) \/ k = d
  BY <1>2
<1>5. QED
  BY <1>1, <1>3, <1>4 DEF LoopsCounted

\* break and continue are reported right up to the next node.
LEMMA TransferErrorsGrow ==
    ASSUME NEW t, NEW node, NEW u, Grows(t, node, u), NEW E, TransferErrors(t, E), NEW F,
           F \subseteq (1 .. Len(u)) \X {"outside loop", "no return"},
           \A i \in 1 .. Len(t) : <<i, "outside loop">> \in F <=> <<i, "outside loop">> \in E,
           <<Len(t) + 1, "outside loop">> \in F
               <=> node.kind \in Transfers /\ Outside(u, Len(t) + 1)
    PROVE  TransferErrors(u, F)
<1>1. /\ Len(t) \in Nat /\ u[Len(t) + 1] = node
      /\ Len(u) = Len(t) + 1 /\ \A i \in 1 .. Len(t) : u[i] = t[i]
      /\ \A i \in 1 .. Len(t) : Outside(u, i) <=> Outside(t, i)
  BY ONLY Grows(t, node, u), GrownNodes, GrownMatches
<1>2. ASSUME NEW i \in 1 .. Len(u)
      PROVE  <<i, "outside loop">> \in F <=> u[i].kind \in Transfers /\ Outside(u, i)
  <2>1. CASE i \in 1 .. Len(t)
    BY <1>1, <2>1 DEF TransferErrors
  <2>2. CASE i = Len(t) + 1
    BY <1>1, <2>2
  <2>3. i \in 1 .. Len(t) \/ i = Len(t) + 1
    BY ONLY <1>1, i \in 1 .. Len(u)
  <2>4. QED
    BY <2>1, <2>2, <2>3
<1>3. QED
  BY <1>2 DEF TransferErrors

-----------------------------------------------------------------------------
(* The flow of control *)

\* A node ends one body.
LEMMA MatchUnique ==
    ASSUME NEW t, NEW c, NEW a \in 1 .. c - 1, NEW b \in 1 .. c - 1,
           Matches(t, a, c), Matches(t, b, c)
    PROVE  a = b
BY DEF Matches, Within

\* The nodes up to n that an execution gets to are the same.
SameUpTo(R, S, n) == \A i \in 1 .. n : i \in S <=> i \in R

\* Whether control gets to a node depends on the nodes before it.
LEMMA FollowsSame ==
    ASSUME NEW t, NEW node, NEW u, Grows(t, node, u), NEW R, NEW S, SameUpTo(R, S, Len(t)),
           NEW i \in 1 .. Len(t) + 1
    PROVE  Follows(u, S, i) <=> Follows(t, R, i)
<1>1. Len(t) \in Nat /\ \A j \in 1 .. Len(t) : u[j] = t[j]
  BY GrownNodes
<1>2. CASE i = 1
  BY <1>2 DEF Follows
<1>3. CASE i # 1
  <2>1. PICK p \in 1 .. Len(t) : p = i - 1
    BY <1>1, <1>3
  <2>2. /\ u[p] = t[p] /\ (p \in S <=> p \in R)
        /\ (Outside(u, p) <=> Outside(t, p))
        /\ \A q \in 1 .. p - 1 : /\ Matches(u, q, p) <=> Matches(t, q, p)
                                 /\ q \in S <=> q \in R
                                 /\ u[q] = t[q]
    <3>1. \A q \in 1 .. p - 1 : q \in 1 .. Len(t)
      BY <1>1
    <3>2. QED
      BY <1>1, <3>1, GrownMatches DEF SameUpTo
  <2>3. QED
    BY <2>1, <2>2 DEF Follows
<1>4. QED
  BY <1>2, <1>3

\* The nodes that an execution gets to, with the next one if the visit is where control is.
Reaching(t, v, R) == R \cup IF Live(v) THEN {Len(t) + 1} ELSE {}

\* The next node is the only one that is added.
LEMMA ReachingSame ==
    ASSUME NEW t, Len(t) \in Nat, NEW v, NEW R, R \subseteq 1 .. Len(t)
    PROVE  /\ SameUpTo(R, Reaching(t, v, R), Len(t))
           /\ Len(t) + 1 \in Reaching(t, v, R) <=> Live(v)
           /\ Reaching(t, v, R) \subseteq 1 .. Len(t) + 1
           /\ \A i \in 1 .. Len(t) : i \in Reaching(t, v, R) <=> i \in R
<1>1. Len(t) + 1 \notin R /\ \A i \in 1 .. Len(t) : i # Len(t) + 1
  OBVIOUS
<1>2. CASE Live(v)
  <2>1. Reaching(t, v, R) = R \cup {Len(t) + 1}
    BY <1>2 DEF Reaching
  <2>2. \A i \in 1 .. Len(t) : i \in Reaching(t, v, R) <=> i \in R
    BY <1>1, <2>1
  <2>3. Reaching(t, v, R) \subseteq 1 .. Len(t) + 1
    <3>1. 1 .. Len(t) \subseteq 1 .. Len(t) + 1 /\ Len(t) + 1 \in 1 .. Len(t) + 1
      OBVIOUS
    <3>2. QED
      BY <2>1, <3>1
  <2>4. QED
    BY <1>2, <2>1, <2>2, <2>3 DEF SameUpTo
<1>3. CASE ~Live(v)
  <2>1. Reaching(t, v, R) = R
    BY <1>3 DEF Reaching
  <2>2. R \subseteq 1 .. Len(t) + 1
    OBVIOUS
  <2>3. QED
    BY <1>1, <1>3, <2>1, <2>2 DEF SameUpTo
<1>4. QED
  BY <1>2, <1>3

\* Whether control gets behind the next node.
LEMMA NextFollows ==
    ASSUME NEW t, NEW node, NEW u, Grows(t, node, u), NEW v, NEW H, Shape(t, v, H),
           Fitting(t, v, node), LoopsCounted(t, v),
           NEW R, NEW S, SameUpTo(R, S, Len(t)), Len(t) + 1 \in S <=> Live(v),
           NEW n, n = v[Len(v)].node
    PROVE  LET follows == Follows(u, S, Len(u) + 1) IN
           /\ node.kind = "function" => follows
           /\ node.kind \in {"simple", "block", "if", "loop"} => (follows <=> Live(v))
           /\ node.kind \in Transfers => (follows <=> Live(v) /\ v[Len(v)].loops = 0)
           /\ node.kind = "return" => ~follows
           /\ node.kind = "else" => (follows <=> n \in R)
           /\ node.kind = "end" =>
                 (follows <=> \/ t[n].kind \in {"function", "if", "loop"} /\ n \in R
                              \/ t[n].kind = "block" /\ Live(v)
                              \/ t[n].kind = "else" /\ (n \in R \/ Live(v)))
<1>1. /\ t \in Seq(Nodes) /\ Len(t) \in Nat /\ Len(v) \in Nat /\ u[Len(t) + 1] = node
      /\ Len(u) = Len(t) + 1 /\ \A i \in 1 .. Len(t) : u[i] = t[i]
      /\ \A k \in 1 .. Len(v) : v[k].node \in 1 .. Len(t)
  BY GrownNodes, ShapeTypes DEF Grows
<1>2. PICK p : p = Len(t) + 1
  OBVIOUS
<1>3. p \in Nat /\ p = (Len(u) + 1) - 1 /\ u[p] = node /\ (p \in S <=> Live(v))
      /\ Len(u) + 1 > 1
  BY <1>1, <1>2
<1> DEFINE follows == Follows(u, S, Len(u) + 1)
<1>4. follows <=>
      \/ node.kind = "function"
      \/ node.kind \in {"simple", "block", "if", "loop"} /\ Live(v)
      \/ node.kind \in Transfers /\ Live(v) /\ Outside(u, p)
      \/ node.kind = "else" /\ \E q \in 1 .. p - 1 : Matches(u, q, p) /\ q \in S
      \/ node.kind = "end" /\ \E b \in 1 .. p - 1 : Matches(u, b, p) /\
             \/ u[b].kind \in {"function", "if", "loop"} /\ b \in S
             \/ u[b].kind = "block" /\ Live(v)
             \/ u[b].kind = "else" /\ (b \in S \/ Live(v))
  BY <1>3 DEF Follows
<1> HIDE DEF follows
<1>5. ASSUME node.kind \in Transfers PROVE Outside(u, p) <=> v[Len(v)].loops = 0
  <2>1. Len(v) > 0
    BY <1>5 DEF Fitting, Transfers
  <2>2. QED
    BY <1>2, <2>1, NextOutside
<1>6. ASSUME node.kind \in {"end", "else"}
      PROVE  /\ n \in 1 .. p - 1 /\ Matches(u, n, p)
             /\ \A q \in 1 .. p - 1 : Matches(u, q, p) => q = n
             /\ u[n] = t[n] /\ (n \in S <=> n \in R)
  <2>1. Len(v) \in 1 .. Len(v)
    BY <1>1, <1>6 DEF Fitting
  <2>2. n \in 1 .. Len(t) /\ n \in 1 .. p - 1
    BY <1>1, <1>2, <2>1
  <2>3. Matches(u, n, p)
    BY <1>2, <1>6, NextMatches
  <2>4. \A q \in 1 .. p - 1 : Matches(u, q, p) => q = n
    BY <2>2, <2>3, MatchUnique
  <2>5. QED
    BY <1>1, <2>2, <2>3, <2>4 DEF SameUpTo
<1>7. node.kind = "function" => follows
  BY <1>4
<1>8. node.kind \in {"simple", "block", "if", "loop"} => (follows <=> Live(v))
  BY <1>4 DEF Transfers
<1>9. node.kind \in Transfers => (follows <=> Live(v) /\ v[Len(v)].loops = 0)
  BY <1>4, <1>5 DEF Transfers
<1>10. node.kind = "return" => ~follows
  BY <1>4 DEF Transfers
<1>11. node.kind = "else" => (follows <=> n \in R)
  <2>1. SUFFICES ASSUME node.kind = "else" PROVE follows <=> n \in R
    OBVIOUS
  <2>2. follows <=> \E q \in 1 .. p - 1 : Matches(u, q, p) /\ q \in S
    BY <1>4, <2>1 DEF Transfers
  <2>3. QED
    BY <1>6, <2>1, <2>2
<1>12. ASSUME node.kind = "end"
       PROVE  follows <=> \/ t[n].kind \in {"function", "if", "loop"} /\ n \in R
                          \/ t[n].kind = "block" /\ Live(v)
                          \/ t[n].kind = "else" /\ (n \in R \/ Live(v))
  <2>1. follows <=> \E b \in 1 .. p - 1 : Matches(u, b, p) /\
             \/ u[b].kind \in {"function", "if", "loop"} /\ b \in S
             \/ u[b].kind = "block" /\ Live(v)
             \/ u[b].kind = "else" /\ (b \in S \/ Live(v))
    BY <1>4, <1>12 DEF Transfers
  <2>2. QED
    BY <1>6, <1>12, <2>1
<1>13. QED
  BY <1>7, <1>8, <1>9, <1>10, <1>11, <1>12 DEF follows

\* What a lower level of the stack knows stays true.
LEMMA OldFlowAt ==
    ASSUME NEW t, NEW node, NEW u, Grows(t, node, u), NEW v, NEW H, Shape(t, v, H),
           NEW R, NEW S, SameUpTo(R, S, Len(t)), NEW k \in 1 .. Len(v), FlowAt(t, v, H, R, k),
           NEW w, NEW G, w[k].node = v[k].node, G[k] = H[k],
           w[k].report = v[k].report, w[k].before = v[k].before,
           k < Len(w) => (G[k + 1] \in S <=> w[k].report /\ w[k].reachable)
    PROVE  FlowAt(u, w, G, S, k)
<1>1. /\ t \in Seq(Nodes) /\ Len(t) \in Nat /\ Len(v) \in Nat
      /\ \A i \in 1 .. Len(t) : u[i] = t[i]
  BY GrownNodes, ShapeTypes DEF Grows
<1>2. PICK n : n = v[k].node
  OBVIOUS
<1>3. /\ n \in 1 .. Len(t) /\ H[k] \in 1 .. Len(t) /\ w[k].node = n
  BY <1>1, <1>2, ShapeTypes
<1>4. /\ u[n] = t[n] /\ (n \in S <=> n \in R) /\ (H[k] \in S <=> H[k] \in R)
  BY <1>1, <1>3 DEF SameUpTo
<1>5. w[k].report <=> u[n].kind = "function" \/ G[k] \in S
  BY <1>2, <1>4 DEF FlowAt
<1>6. u[n].kind = "else" => (n \in S <=> w[k].report /\ w[k].before)
  BY <1>2, <1>4 DEF FlowAt
<1>7. QED
  BY <1>3, <1>5, <1>6 DEF FlowAt

\* What the visits below the innermost one know stays true.
LEMMA LowerFlowAt ==
    ASSUME NEW t, NEW node, NEW u, Grows(t, node, u), NEW v, NEW H, Shape(t, v, H),
           NEW R, Flow(t, v, H, R), NEW S, SameUpTo(R, S, Len(t)),
           NEW k \in 1 .. Len(v) - 1, NEW w, NEW G, w[k] = v[k],
           G[k] = H[k], G[k + 1] = H[k + 1]
    PROVE  FlowAt(u, w, G, S, k)
<1>1. Len(v) \in Nat /\ t \in Seq(Nodes)
  BY ShapeTypes DEF Grows
<1>2. k \in 1 .. Len(v) /\ k + 1 \in 1 .. Len(v) /\ k \in 1 .. k /\ k < Len(v)
  BY <1>1
<1>3. FlowAt(t, v, H, R, k)
  BY <1>2 DEF Flow
<1>4. H[k + 1] \in 1 .. Len(t)
  BY <1>1, <1>2, ShapeTypes
<1>5. H[k + 1] \in R <=> v[k].report /\ v[k].reachable
  BY <1>2, <1>3 DEF FlowAt
<1>6. G[k + 1] \in S <=> w[k].report /\ w[k].reachable
  BY <1>2, <1>4, <1>5 DEF SameUpTo
<1>7. QED
  BY <1>2, <1>3, <1>6, OldFlowAt

\* The head of the outermost body is a function, and not executed.
LEMMA FirstHead ==
    ASSUME NEW t, NEW node, NEW u, Grows(t, node, u), NEW v, NEW H, Shape(t, v, H),
           NEW R, Flow(t, v, H, R), NEW S, SameUpTo(R, S, Len(t)), Len(v) > 0
    PROVE  H[1] \notin S
<1>1. Len(v) \in Nat /\ t \in Seq(Nodes)
  BY ShapeTypes DEF Grows
<1>2. 1 \in 1 .. Len(v)
  BY <1>1
<1>3. H[1] \in 1 .. Len(t)
  BY <1>1, <1>2, ShapeTypes
<1>4. QED
  BY <1>3 DEF Flow, SameUpTo

\* The flow up to the next node, from what the visits know then.
LEMMA FlowGrows ==
    ASSUME NEW t, NEW node, NEW u, Grows(t, node, u), NEW v, NEW H, Shape(t, v, H),
           NEW R, Flow(t, v, H, R), NEW S, S = Reaching(t, v, R), NEW w, NEW G,
           Live(w) <=> Follows(u, S, Len(u) + 1),
           Len(w) > 0 => G[1] \notin S,
           \A k \in 1 .. Len(w) : FlowAt(u, w, G, S, k)
    PROVE  Flow(u, w, G, S)
<1>1. /\ t \in Seq(Nodes) /\ Len(t) \in Nat /\ Len(u) = Len(t) + 1
      /\ \A i \in 1 .. Len(t) : u[i] = t[i]
  BY ONLY Grows(t, node, u), GrownNodes DEF Grows
<1>2. R \subseteq 1 .. Len(t)
  BY DEF Flow
<1>3. /\ SameUpTo(R, S, Len(t)) /\ (Len(t) + 1 \in S <=> Live(v))
      /\ S \subseteq 1 .. Len(t) + 1
  BY ONLY <1>1, <1>2, S = Reaching(t, v, R), ReachingSame
<1>4. ASSUME NEW i \in 1 .. Len(u) PROVE i \in S <=> Follows(u, S, i)
  <2>1. i \in 1 .. Len(t) + 1
    BY <1>1
  <2>2. Follows(u, S, i) <=> Follows(t, R, i)
    BY ONLY <1>3, <2>1, Grows(t, node, u), FollowsSame
  <2>3. CASE i = Len(t) + 1
    BY <1>3, <2>2, <2>3 DEF Flow
  <2>4. CASE i \in 1 .. Len(t)
    BY <1>3, <2>2, <2>4 DEF Flow, SameUpTo
  <2>5. QED
    BY <1>1, <2>1, <2>3, <2>4
<1>5. QED
  BY <1>1, <1>3, <1>4 DEF Flow

-----------------------------------------------------------------------------
(* The flow of control, step by step *)

\* A statement without a block, which control leaves if falls.
LEMMA FlowStays ==
    ASSUME NEW t, NEW node, NEW u, Grows(t, node, u), NEW v, NEW H, Shape(t, v, H),
           Fitting(t, v, node), LoopsCounted(t, v), NEW R, Flow(t, v, H, R),
           node.kind \in {"simple", "return"} \cup Transfers,
           NEW d, d = Len(v), NEW w, Len(w) = d, \A k \in 1 .. d - 1 : w[k] = v[k],
           w[d].node = v[d].node, w[d].report = v[d].report, w[d].before = v[d].before,
           w[d].reachable <=> /\ v[d].reachable
                              /\ \/ node.kind = "simple"
                                 \/ node.kind \in Transfers /\ v[d].loops = 0
    PROVE  Flow(u, w, H, Reaching(t, v, R))
<1>1. PICK S : S = Reaching(t, v, R)
  OBVIOUS
<1>2. t \in Seq(Nodes) /\ Len(t) \in Nat /\ d \in Nat /\ d \in 1 .. d /\ R \subseteq 1 .. Len(t)
  BY ShapeTypes DEF Grows, Flow, Fitting, Transfers
<1>3. SameUpTo(R, S, Len(t)) /\ (Len(t) + 1 \in S <=> Live(v))
  BY ONLY <1>1, <1>2, ReachingSame
<1> DEFINE falls == node.kind = "simple" \/ (node.kind \in Transfers /\ v[d].loops = 0)
<1>4. Follows(u, S, Len(u) + 1) <=> Live(v) /\ falls
  <2>1. PICK n : n = v[Len(v)].node
    OBVIOUS
  <2>2. /\ node.kind = "simple" => (Follows(u, S, Len(u) + 1) <=> Live(v))
        /\ node.kind \in Transfers =>
               (Follows(u, S, Len(u) + 1) <=> Live(v) /\ v[Len(v)].loops = 0)
        /\ node.kind = "return" => ~Follows(u, S, Len(u) + 1)
    BY <1>3, <2>1, NextFollows
  <2>3. CASE node.kind = "simple"
    BY ONLY <2>2, <2>3
  <2>4. CASE node.kind \in Transfers
    <3>1. node.kind # "simple"
      BY ONLY <2>4 DEF Transfers
    <3>2. QED
      BY ONLY <2>2, <2>4, <3>1, d = Len(v)
  <2>5. CASE node.kind = "return"
    <3>1. node.kind # "simple" /\ node.kind \notin Transfers
      BY ONLY <2>5 DEF Transfers
    <3>2. QED
      BY ONLY <2>2, <2>5, <3>1
  <2>6. QED
    BY <2>3, <2>4, <2>5
<1>5. Live(w) <=> Follows(u, S, Len(u) + 1)
  <2>1. w[d].reachable <=> v[d].reachable /\ falls
    OBVIOUS
  <2> HIDE DEF falls
  <2>2. QED
    BY ONLY <1>2, <1>4, <2>1, w[d].report = v[d].report, Len(w) = d, d = Len(v) DEF Live
<1>6. ASSUME NEW k \in 1 .. Len(w) PROVE FlowAt(u, w, H, S, k)
  <2>1. CASE k \in 1 .. d - 1
    <3>1. k \in 1 .. Len(v) - 1 /\ w[k] = v[k]
      BY <1>2, <2>1
    <3>2. QED
      BY <1>3, <3>1, LowerFlowAt
  <2>2. CASE k = d
    <3>1. k \in 1 .. Len(v) /\ ~(k < Len(w)) /\ FlowAt(t, v, H, R, k)
      BY <1>2, <2>2 DEF Flow
    <3>2. w[k].node = v[k].node
      BY <1>2, <2>2
    <3>3. QED
      BY <1>3, <2>2, <3>1, <3>2, OldFlowAt
  <2>3. QED
    BY <1>2, <2>1, <2>2
<1>7. H[1] \notin S
  BY <1>2, <1>3, FirstHead
<1>8. QED
  BY <1>1, <1>5, <1>6, <1>7, FlowGrows

\* A body is entered.
LEMMA FlowPush ==
    ASSUME NEW t, NEW node, NEW u, Grows(t, node, u), NEW v, NEW H, Shape(t, v, H),
           Fitting(t, v, node), LoopsCounted(t, v), NEW R, Flow(t, v, H, R),
           node.kind \in Bodies \ {"else"},
           NEW d, d = Len(v), NEW w, Len(w) = d + 1, \A k \in 1 .. d : w[k] = v[k],
           w[d + 1].node = Len(t) + 1, w[d + 1].reachable,
           w[d + 1].report <=> node.kind = "function" \/ Live(v)
    PROVE  Flow(u, w, Append(H, Len(t) + 1), Reaching(t, v, R))
<1>1. PICK S : S = Reaching(t, v, R)
  OBVIOUS
<1>2. /\ t \in Seq(Nodes) /\ Len(t) \in Nat /\ d \in Nat /\ R \subseteq 1 .. Len(t)
      /\ H \in Seq(Nat) /\ Len(H) = d
  BY ShapeTypes DEF Grows, Flow, Shape
<1>3. SameUpTo(R, S, Len(t)) /\ (Len(t) + 1 \in S <=> Live(v))
  BY ONLY <1>1, <1>2, ReachingSame
<1>4. PICK G : G = Append(H, Len(t) + 1)
  OBVIOUS
<1>5. G[d + 1] = Len(t) + 1 /\ \A k \in 1 .. d : G[k] = H[k]
  BY <1>2, <1>4
<1>6. Follows(u, S, Len(u) + 1) <=> node.kind = "function" \/ Live(v)
  <2>1. PICK n : n = v[Len(v)].node
    OBVIOUS
  <2>2. QED
    BY <1>3, <2>1, NextFollows DEF Bodies
<1>7. Live(w) <=> Follows(u, S, Len(u) + 1)
  BY <1>2, <1>6 DEF Live
<1>8. ASSUME NEW k \in 1 .. d PROVE FlowAt(u, w, G, S, k)
  <2>1. CASE k \in 1 .. d - 1
    <3>1. /\ k \in 1 .. Len(v) - 1 /\ k + 1 \in 1 .. d
          /\ w[k] = v[k]
      BY <1>2, <2>1
    <3>2. G[k] = H[k] /\ G[k + 1] = H[k + 1]
      BY <1>5, <3>1
    <3>3. QED
      BY <1>3, <3>1, <3>2, LowerFlowAt
  <2>2. CASE k = d
    <3>1. k \in 1 .. Len(v) /\ FlowAt(t, v, H, R, k) /\ w[k].node = v[k].node
      BY <1>2, <2>2 DEF Flow
    <3>2. G[k + 1] \in S <=> w[k].report /\ w[k].reachable
      BY <1>2, <1>3, <1>5, <2>2 DEF Live
    <3>3. QED
      BY <1>3, <1>5, <2>2, <3>1, <3>2, OldFlowAt
  <2>3. QED
    BY <1>2, <2>1, <2>2
<1>9. FlowAt(u, w, G, S, d + 1)
  <2>1. u[Len(t) + 1] = node
    BY GrownNodes
  <2>2. w[d + 1].report <=> u[w[d + 1].node].kind = "function" \/ G[d + 1] \in S
    BY <1>3, <1>5, <2>1
  <2>3. QED
    BY <1>2, <2>1, <2>2 DEF FlowAt
<1>10. \A k \in 1 .. Len(w) : FlowAt(u, w, G, S, k)
  BY <1>2, <1>8, <1>9
<1>11. G[1] \notin S
  <2>1. CASE d = 0
    BY <1>3, <1>5, <2>1 DEF Live
  <2>2. CASE d > 0
    <3>1. G[1] = H[1]
      BY <1>2, <1>5, <2>2
    <3>2. QED
      BY <1>3, <2>2, <3>1, FirstHead
  <2>3. QED
    BY <1>2, <2>1, <2>2
<1>12. QED
  BY <1>1, <1>4, <1>7, <1>10, <1>11, FlowGrows

\* The then block is done and the else block is entered.
LEMMA FlowElse ==
    ASSUME NEW t, NEW node, NEW u, Grows(t, node, u), NEW v, NEW H, Shape(t, v, H),
           Fitting(t, v, node), LoopsCounted(t, v), NEW R, Flow(t, v, H, R),
           node.kind = "else",
           NEW d, d = Len(v), NEW w, Len(w) = d, \A k \in 1 .. d - 1 : w[k] = v[k],
           w[d].node = Len(t) + 1, w[d].reachable,
           w[d].report <=> v[d].report, w[d].before <=> v[d].reachable
    PROVE  Flow(u, w, H, Reaching(t, v, R))
<1>1. PICK S : S = Reaching(t, v, R)
  OBVIOUS
<1>2. /\ t \in Seq(Nodes) /\ Len(t) \in Nat /\ d \in Nat /\ d \in 1 .. d /\ R \subseteq 1 .. Len(t)
  BY ShapeTypes DEF Grows, Flow, Fitting
<1>3. SameUpTo(R, S, Len(t)) /\ (Len(t) + 1 \in S <=> Live(v))
  BY ONLY <1>1, <1>2, ReachingSame
<1>4. PICK n : n = v[d].node
  OBVIOUS
<1>5. t[n].kind = "if" /\ H[d] = n /\ n \in 1 .. Len(t) /\ FlowAt(t, v, H, R, d)
  <2>1. t[n].kind = "if" /\ AtLevel(t, v, H, d) /\ FlowAt(t, v, H, R, d)
    BY <1>2, <1>4 DEF Fitting, Shape, Flow
  <2>2. QED
    BY <1>4, <2>1 DEF AtLevel
<1>6. (v[d].report <=> n \in R) /\ (n \in R <=> n \in S)
  BY <1>3, <1>4, <1>5 DEF FlowAt, SameUpTo
<1>7. Live(w) <=> Follows(u, S, Len(u) + 1)
  <2>1. Follows(u, S, Len(u) + 1) <=> n \in R
    BY <1>3, <1>4, NextFollows
  <2>2. QED
    BY <1>2, <1>6, <2>1 DEF Live
<1>8. ASSUME NEW k \in 1 .. d - 1 PROVE FlowAt(u, w, H, S, k)
  <2>1. k \in 1 .. Len(v) - 1 /\ w[k] = v[k]
    BY <1>2
  <2>2. QED
    BY <1>3, <2>1, LowerFlowAt
<1>9. FlowAt(u, w, H, S, d)
  <2>1. u[Len(t) + 1] = node /\ \A i \in 1 .. Len(t) : u[i] = t[i]
    BY GrownNodes
  <2>2. w[d].report <=> u[w[d].node].kind = "function" \/ H[d] \in S
    BY <1>5, <1>6, <2>1
  <2>3. w[d].node \in S <=> w[d].report /\ w[d].before
    BY <1>2, <1>3 DEF Live
  <2>4. QED
    BY <1>2, <2>1, <2>2, <2>3 DEF FlowAt
<1>10. \A k \in 1 .. Len(w) : FlowAt(u, w, H, S, k)
  BY <1>2, <1>8, <1>9
<1>11. H[1] \notin S
  BY <1>2, <1>3, FirstHead
<1>12. QED
  BY <1>1, <1>7, <1>10, <1>11, FlowGrows

\* The innermost body ends. The visit around it goes on: control is there if it was
\* before the body and leaves it, as far as the body is of a statement.
\* The visits below level n + 1 are the same.
SameBelow(v, w, n) == \A k \in 1 .. n : w[k] = v[k]

\* The visit below level d goes on after the end of body n.
Resumes(t, v, w, d, n) ==
    /\ w[d - 1].node = v[d - 1].node /\ w[d - 1].report = v[d - 1].report
    /\ w[d - 1].before = v[d - 1].before
    /\ w[d - 1].reachable <=>
           /\ v[d - 1].reachable
           /\ \/ t[n].kind \in {"function", "if", "loop"}
              \/ t[n].kind = "block" /\ v[d].reachable
              \/ t[n].kind = "else" /\ (v[d].before \/ v[d].reachable)

\* The body may be that of a function, or of a statement.
LEMMA FlowPop ==
    ASSUME NEW t, NEW node, NEW u, Grows(t, node, u), NEW v, NEW H, Shape(t, v, H),
           Fitting(t, v, node), LoopsCounted(t, v), NEW R, Flow(t, v, H, R),
           node.kind = "end",
           NEW d, d = Len(v), NEW w, Len(w) = d - 1, NEW n, n = v[d].node,
           SameBelow(v, w, d - 2), d > 1 => Resumes(t, v, w, d, n),
           NEW G, \A k \in 1 .. d - 1 : G[k] = H[k]
    PROVE  Flow(u, w, G, Reaching(t, v, R))
<1>1. PICK S : S = Reaching(t, v, R)
  OBVIOUS
<1>0. /\ \A k \in 1 .. d - 2 : w[k] = v[k]
      /\ d > 1 => Resumes(t, v, w, d, n)
  BY DEF SameBelow
<1>2. /\ t \in Seq(Nodes) /\ Len(t) \in Nat /\ d \in Nat /\ d \in 1 .. d /\ R \subseteq 1 .. Len(t)
  BY ShapeTypes DEF Grows, Flow, Fitting
<1>3. SameUpTo(R, S, Len(t)) /\ (Len(t) + 1 \in S <=> Live(v))
  BY ONLY <1>1, <1>2, ReachingSame
<1>4. /\ FlowAt(t, v, H, R, d) /\ AtLevel(t, v, H, d) /\ n \in 1 .. Len(t)
      /\ t[n].kind \in Bodies
  BY <1>2, ShapeTypes DEF Shape, Flow
<1>5. t[n].kind # "else" => H[d] = n
  BY <1>4 DEF AtLevel
<1>6. Follows(u, S, Len(u) + 1) <=>
          /\ H[d] \in R
          /\ \/ t[n].kind \in {"function", "if", "loop"}
             \/ t[n].kind = "block" /\ v[d].reachable
             \/ t[n].kind = "else" /\ (v[d].before \/ v[d].reachable)
  <2>1. Follows(u, S, Len(u) + 1) <=>
            \/ t[n].kind \in {"function", "if", "loop"} /\ n \in R
            \/ t[n].kind = "block" /\ Live(v)
            \/ t[n].kind = "else" /\ (n \in R \/ Live(v))
    BY <1>3, NextFollows
  <2>2. t[n].kind # "function" => (v[d].report <=> H[d] \in R)
    BY <1>4 DEF FlowAt
  <2>3. t[n].kind = "else" => (n \in R <=> v[d].report /\ v[d].before)
    BY <1>4 DEF FlowAt
  <2>4. Live(v) <=> v[d].report /\ v[d].reachable
    BY <1>2 DEF Live
  <2>5. QED
    BY <1>5, <2>1, <2>2, <2>3, <2>4
<1>7. Live(w) <=> Follows(u, S, Len(u) + 1)
  <2>1. CASE d = 1
    <3>1. ~Live(w)
      BY <2>1 DEF Live
    <3>2. H[d] \notin R
      BY <1>2, <2>1 DEF Flow
    <3>3. QED
      BY <1>6, <3>1, <3>2
  <2>2. CASE d > 1
    <3>1. d - 1 \in 1 .. Len(v) /\ d - 1 < Len(v) /\ (d - 1) + 1 = d
      BY <1>2, <2>2
    <3>2. H[d] \in R <=> v[d - 1].report /\ v[d - 1].reachable
      <4>1. FlowAt(t, v, H, R, d - 1)
        BY <3>1 DEF Flow
      <4>2. QED
        BY <3>1, <4>1 DEF FlowAt
    <3>3. Live(w) <=> w[d - 1].report /\ w[d - 1].reachable
      BY <1>2, <2>2 DEF Live
    <3>4. QED
      BY <1>0, <1>6, <2>2, <3>2, <3>3 DEF Resumes
  <2>3. QED
    BY <1>2, <2>1, <2>2
<1>8. ASSUME NEW k \in 1 .. Len(w) PROVE FlowAt(u, w, G, S, k)
  <2>1. CASE k \in 1 .. d - 2
    <3>1. k \in 1 .. Len(v) - 1 /\ k + 1 \in 1 .. d - 1 /\ k \in 1 .. d - 1
          /\ w[k] = v[k]
      BY <1>0, <1>2, <2>1
    <3>2. QED
      BY <1>3, <3>1, LowerFlowAt
  <2>2. CASE k = d - 1
    <3>1. d > 1 /\ k \in 1 .. Len(v) /\ ~(k < Len(w)) /\ FlowAt(t, v, H, R, k)
          /\ k \in 1 .. d - 1
      BY <1>2, <2>2 DEF Flow
    <3>2. w[k].node = v[k].node
      BY <1>0, <2>2, <3>1 DEF Resumes
    <3>3. QED
      BY <1>0, <1>3, <2>2, <3>1, <3>2, OldFlowAt DEF Resumes
  <2>3. QED
    BY <1>2, <2>1, <2>2
<1>9. Len(w) > 0 => G[1] \notin S
  <2>1. SUFFICES ASSUME Len(w) > 0 PROVE G[1] \notin S
    OBVIOUS
  <2>2. G[1] = H[1] /\ Len(v) > 0
    BY <1>2, <2>1
  <2>3. QED
    BY <1>3, <2>2, FirstHead
<1>10. QED
  BY <1>1, <1>7, <1>8, <1>9, FlowGrows

-----------------------------------------------------------------------------
(* Missing returns *)

\* Behind its head, a body is open or its then block is.
LEMMA InsideHead ==
    ASSUME NEW t \in Seq(Nodes), NEW v, NEW H, Shape(t, v, H), NEW k \in 1 .. Len(v),
           NEW j \in H[k] + 1 .. Len(t) + 1
    PROVE  \E b \in H[k] .. j - 1 : Holds(t, b, j)
<1>1. PICK n, h : n = v[k].node /\ h = H[k]
  OBVIOUS
<1>2. /\ n \in 1 .. Len(t) /\ h \in 1 .. Len(t) /\ h <= n /\ Len(t) \in Nat
      /\ Holds(t, n, Len(t) + 1)
  BY <1>1, ShapeTypes, StackHolds
<1>3. j \in h + 1 .. Len(t) + 1 /\ j \in Nat
  BY <1>1, <1>2
<1>4. CASE n < j
  <2>1. n \in 1 .. j - 1 /\ n \in h .. j - 1 /\ j <= Len(t) + 1
    BY <1>2, <1>3, <1>4
  <2>2. Holds(t, n, j)
    BY <1>2, <1>3, <2>1, HoldsEarlier
  <2>3. QED
    BY <1>1, <2>1, <2>2
<1>5. CASE j <= n
  <2>1. AtLevel(t, v, H, k) /\ h # n
    BY <1>1, <1>2, <1>3, <1>5 DEF Shape
  <2>2. Matches(t, h, n)
    BY <1>1, <2>1 DEF AtLevel
  <2>3. Holds(t, h, n)
    BY <2>2 DEF Matches, Within
  <2>4. h \in 1 .. j - 1 /\ h \in h .. j - 1 /\ n \in Nat
    BY <1>2, <1>3
  <2>5. Holds(t, h, j)
    BY <1>3, <1>5, <2>3, <2>4, HoldsEarlier
  <2>6. QED
    BY <1>1, <2>4, <2>5
<1>6. QED
  BY <1>2, <1>3, <1>4, <1>5

\* What the head of a body is.
LEMMA HeadKind ==
    ASSUME NEW t \in Seq(Nodes), NEW v, NEW H, Shape(t, v, H), NEW k \in 1 .. Len(v)
    PROVE  /\ t[H[k]].kind \in Bodies \ {"else"}
           /\ t[v[k].node].kind # "else" => H[k] = v[k].node
           /\ t[v[k].node].kind = "else" => t[H[k]].kind = "if"
<1>1. AtLevel(t, v, H, k) /\ t[v[k].node].kind \in Bodies
  BY DEF Shape, AtLevel
<1>2. QED
  BY <1>1 DEF AtLevel, Bodies

\* The bodies around the head of a body on the stack are those below it on the stack.
LEMMA HeadHolders ==
    ASSUME NEW t \in Seq(Nodes), NEW v, NEW H, Shape(t, v, H), NEW k \in 1 .. Len(v),
           NEW a \in 1 .. H[k] - 1, Holds(t, a, H[k])
    PROVE  \E m \in 1 .. k - 1 : v[m].node = a
<1>1. PICK h : h = H[k]
  OBVIOUS
<1>2. /\ h \in 1 .. Len(t) /\ a \in 1 .. Len(t) /\ a < h /\ Len(t) \in Nat /\ Len(v) \in Nat
      /\ h <= v[k].node /\ v[k].node \in Nat
  BY <1>1, ShapeTypes
<1>3. ASSUME NEW c \in a + 1 .. Len(t), Matches(t, a, c) PROVE FALSE
  <2>1. Shuts(t, c, a) /\ Within(t, a, c) /\ t[c].kind \in {"end", "else"}
    BY <1>3 DEF Matches, Shuts
  <2>2. c \notin a + 1 .. h - 1
    BY <1>1, <2>1 DEF Holds
  <2>3. c # h
    BY <1>1, <2>1, HeadKind DEF Bodies
  <2>4. c \in h + 1 .. Len(t) + 1
    BY <1>2, <1>3, <2>2, <2>3
  <2>5. PICK b \in h .. c - 1 : Holds(t, b, c)
    BY <1>1, <2>4, InsideHead
  <2>6. b \in 1 .. c - 1
    BY <1>2, <2>4
  <2>7. b <= a
    BY <2>1, <2>5, <2>6 DEF Within
  <2>8. QED
    BY <1>2, <2>5, <2>7
<1>4. t[a].kind \in Bodies
  BY DEF Holds
<1>5. PICK m \in 1 .. Len(v) : v[m].node = a
  BY <1>2, <1>3, <1>4 DEF Shape
<1>6. m < k
  <2>1. SUFFICES ASSUME k <= m PROVE FALSE
    BY <1>2
  <2>2. CASE k = m
    BY <1>2, <1>5, <2>2
  <2>3. CASE k < m
    <3>1. k \in 1 .. m - 1
      BY <1>2, <2>3
    <3>2. v[k].node < v[m].node
      BY <3>1, ShapeTypes
    <3>3. QED
      BY <1>2, <1>5, <3>2
  <2>4. QED
    BY <1>2, <2>1, <2>2, <2>3
<1>7. QED
  BY <1>2, <1>5, <1>6

\* No body is around node f.
Alone(t, f) == \A a \in 1 .. f - 1 : ~Holds(t, a, f)

\* A function on the stack is at the bottom exactly if no body is around it.
LEMMA TopLevel ==
    ASSUME NEW t \in Seq(Nodes), NEW v, NEW H, Shape(t, v, H), Len(v) > 0,
           NEW n, n = v[Len(v)].node, t[n].kind = "function"
    PROVE  Len(v) = 1 <=> Alone(t, n)
<1>1. /\ Len(v) \in 1 .. Len(v) /\ Len(v) \in Nat /\ Len(t) \in Nat /\ n \in 1 .. Len(t)
      /\ n = H[Len(v)]
  BY ShapeTypes, HeadKind
<1>2. ASSUME Len(v) = 1, NEW a \in 1 .. n - 1, Holds(t, a, n) PROVE FALSE
  <2>1. a \in 1 .. H[Len(v)] - 1 /\ Holds(t, a, H[Len(v)])
    BY <1>1, <1>2
  <2>2. PICK m \in 1 .. Len(v) - 1 : v[m].node = a
    BY ONLY <1>1, <2>1, t \in Seq(Nodes), Shape(t, v, H), HeadHolders
  <2>3. QED
    BY ONLY <1>2, <2>2
<1>3. ASSUME Len(v) # 1, Alone(t, n) PROVE FALSE
  <2>1. 1 \in 1 .. Len(v) - 1 /\ 1 \in 1 .. Len(v)
    <3>1. Len(v) \in Nat /\ Len(v) >= 1
      BY ONLY <1>1
    <3>2. \A d \in Nat : d >= 1 /\ d # 1 => 1 \in 1 .. d - 1 /\ 1 \in 1 .. d
      OBVIOUS
    <3>3. QED
      BY ONLY <1>3, <3>1, <3>2
  <2>2. PICK a : a = v[1].node
    OBVIOUS
  <2>3. a \in 1 .. Len(t) /\ a < n /\ Holds(t, a, Len(t) + 1)
    <3>1. \A m \in 1 .. Len(v) - 1 : v[m].node < v[Len(v)].node
      BY ONLY <1>1, t \in Seq(Nodes), Shape(t, v, H), ShapeTypes
    <3>2. v[1].node \in 1 .. Len(t) /\ Holds(t, v[1].node, Len(t) + 1)
      BY ONLY <2>1, t \in Seq(Nodes), Shape(t, v, H), ShapeTypes, StackHolds
    <3>3. QED
      BY <2>1, <2>2, <3>1, <3>2
  <2>4. a \in 1 .. n - 1 /\ n <= Len(t) + 1 /\ n \in Nat
    BY <1>1, <2>3
  <2>5. Holds(t, a, n)
    BY <1>1, <2>3, <2>4, HoldsEarlier
  <2>6. QED
    BY <1>3, <2>4, <2>5 DEF Alone
<1>4. QED
  BY <1>2, <1>3 DEF Alone

\* The program's main, of a tree in which nothing is around it.
Exempt(t, f) ==
    /\ t[f].name = Main /\ t[f].parameters = 0 /\ t[f].type = "int"
    /\ Alone(t, f)

\* What the errors say of the nodes behind the visit; and what is added to them, for
\* function n, if its end is the next node.
NoneBeyond(E, i) == \A f \in Nat : f > i => <<f, "no return">> \notin E
Closes(t, node, n) == node.kind = "end" /\ t[n].kind = "function"
Added(t, node, n, S, E, F) ==
    \A f \in 1 .. Len(t) + 1 :
        <<f, "no return">> \in F <=>
            \/ <<f, "no return">> \in E
            \/ /\ f = n /\ Closes(t, node, n)
               /\ t[n].type # "void" /\ Len(t) + 1 \in S /\ ~Exempt(t, n)
Ended(t, f, R) == \E c \in 1 .. Len(t) : Matches(t, f, c) /\ c \in R

\* Missing returns are reported right when the next node ends a function or does not.
LEMMA EndErrorsGrow ==
    ASSUME NEW t, NEW node, NEW u, Grows(t, node, u), NEW v, NEW H, Shape(t, v, H),
           Fitting(t, v, node), NEW R, NEW S, SameUpTo(R, S, Len(t)),
           NEW E, EndErrors(t, R, E), NoneBeyond(E, Len(t)),
           NEW n, n = v[Len(v)].node, NEW F, Added(t, node, n, S, E, F)
    PROVE  EndErrors(u, S, F)
<1>1. /\ t \in Seq(Nodes) /\ Len(t) \in Nat /\ Len(v) \in Nat /\ u[Len(t) + 1] = node
      /\ Len(u) = Len(t) + 1 /\ \A i \in 1 .. Len(t) : u[i] = t[i]
      /\ \A k \in 1 .. Len(v) : v[k].node \in 1 .. Len(t)
  <2>1. t \in Seq(Nodes)
    BY ONLY Grows(t, node, u) DEF Grows
  <2>2. Len(v) \in Nat /\ \A k \in 1 .. Len(v) : v[k].node \in 1 .. Len(t)
    BY ONLY <2>1, Shape(t, v, H), ShapeTypes
  <2>3. Len(t) \in Nat /\ u[Len(t) + 1] = node /\ Len(u) = Len(t) + 1
        /\ \A i \in 1 .. Len(t) : u[i] = t[i]
    BY ONLY Grows(t, node, u), GrownNodes
  <2>4. QED
    BY ONLY <2>1, <2>2, <2>3
<1>2. PICK p : p = Len(t) + 1
  OBVIOUS
<1>3. ASSUME NEW f \in 1 .. Len(t)
      PROVE  Ended(u, f, S) <=> Ended(t, f, R) \/ (Matches(u, f, p) /\ p \in S)
  <2>1. ASSUME NEW c \in 1 .. Len(t)
        PROVE  Matches(u, f, c) /\ c \in S <=> Matches(t, f, c) /\ c \in R
    <3>1. CASE f \in 1 .. c - 1
      BY <3>1, GrownMatches DEF SameUpTo
    <3>2. CASE f \notin 1 .. c - 1
      BY <3>2 DEF Matches, Within, Holds
    <3>3. QED
      BY <3>1, <3>2
  <2>2. \A c \in 1 .. Len(u) : c \in 1 .. Len(t) \/ c = p
    BY <1>1, <1>2
  <2>3. p \in 1 .. Len(u) /\ \A c \in 1 .. Len(t) : c \in 1 .. Len(u)
    BY <1>1, <1>2
  <2>4. QED
    BY <2>1, <2>2, <2>3 DEF Ended
<1>4. ASSUME NEW f \in 1 .. Len(t), t[f].kind = "function", Matches(u, f, p)
      PROVE  Closes(t, node, n) /\ f = n
  <2>1. Shuts(u, p, f)
    BY <1>4 DEF Matches
  <2>2. node.kind \in {"end", "else"}
    BY <1>1, <1>2, <2>1 DEF Shuts
  <2>3. Matches(u, n, p) /\ n \in 1 .. p - 1 /\ f \in 1 .. p - 1
    BY <1>1, <1>2, <2>2, NextMatches DEF Fitting
  <2>4. f = n
    BY <1>4, <2>3, MatchUnique
  <2>5. QED
    BY <1>1, <1>4, <2>2, <2>4 DEF Fitting, Closes
<1>5. ASSUME Closes(t, node, n) PROVE Matches(u, n, p) /\ ~Ended(t, n, R) /\ n \in 1 .. Len(t)
  <2>1. Len(v) \in 1 .. Len(v)
    BY <1>1, <1>5 DEF Fitting, Closes
  <2>2. Holds(t, n, Len(t) + 1) /\ n \in 1 .. Len(t)
    BY <1>1, <2>1, StackHolds
  <2>3. ASSUME NEW c \in 1 .. Len(t), Matches(t, n, c) PROVE FALSE
    <3>1. c \in n + 1 .. Len(t) /\ Shuts(t, c, n)
      BY <1>1, <2>2, <2>3 DEF Matches, Within, Holds
    <3>2. c \in n + 1 .. (Len(t) + 1) - 1
      BY <1>1, <3>1
    <3>3. QED
      BY <2>2, <3>1, <3>2 DEF Holds
  <2>4. QED
    BY <1>2, <1>5, <2>2, <2>3, NextMatches DEF Ended, Closes
<1>6. ASSUME NEW f \in 1 .. Len(t) PROVE Exempt(u, f) <=> Exempt(t, f)
  <2>1. f \in 1 .. Len(t) + 1
    BY <1>1
  <2>2. \A a \in 1 .. f - 1 : Holds(u, a, f) <=> Holds(t, a, f)
    BY <2>1, GrownHolds
  <2>3. QED
    BY <1>1, <2>2 DEF Exempt, Alone
<1>7. ASSUME NEW f \in 1 .. Len(t), t[f].kind = "function"
      PROVE  <<f, "no return">> \in F <=> t[f].type # "void" /\ Ended(u, f, S) /\ ~Exempt(t, f)
  <2>1. <<f, "no return">> \in E <=> t[f].type # "void" /\ Ended(t, f, R) /\ ~Exempt(t, f)
    BY <1>7 DEF EndErrors, Exempt, Alone, Ended
  <2>2. f \in 1 .. Len(u)
    BY <1>1
  <2>3. <<f, "no return">> \in F <=>
            \/ <<f, "no return">> \in E
            \/ f = n /\ Closes(t, node, n) /\ t[n].type # "void" /\ p \in S /\ ~Exempt(t, n)
    BY <1>1, <1>2, <2>2 DEF Added
  <2>4. CASE f = n /\ Closes(t, node, n)
    BY <1>3, <1>5, <2>1, <2>3, <2>4
  <2>5. CASE ~(f = n /\ Closes(t, node, n))
    BY <1>3, <1>4, <1>7, <2>1, <2>3, <2>5
  <2>6. QED
    BY <2>4, <2>5
<1>8. <<p, "no return">> \notin F /\ ~Ended(u, p, S)
  <2>1. p \notin 1 .. Len(t) /\ p \in 1 .. Len(u) /\ p \in Nat /\ p > Len(t)
    BY <1>1, <1>2
  <2>2. <<p, "no return">> \notin F
    <3>1. CASE Closes(t, node, n)
      BY <1>1, <1>5, <2>1, <3>1 DEF Added, NoneBeyond
    <3>2. CASE ~Closes(t, node, n)
      BY <1>1, <2>1, <3>2 DEF Added, NoneBeyond
    <3>3. QED
      BY <3>1, <3>2
  <2>3. ~Ended(u, p, S)
    BY <1>1, <1>2 DEF Matches, Within, Holds, Ended
  <2>4. QED
    BY <2>2, <2>3
<1>9. ASSUME NEW f \in 1 .. Len(u), u[f].kind = "function"
      PROVE  <<f, "no return">> \in F <=> u[f].type # "void" /\ Ended(u, f, S) /\ ~Exempt(u, f)
  <2>1. CASE f \in 1 .. Len(t)
    BY <1>1, <1>6, <1>7, <1>9, <2>1
  <2>2. CASE f = p
    BY <1>8, <2>2
  <2>3. f \in 1 .. Len(t) \/ f = p
    BY ONLY f \in 1 .. Len(u), <1>1, <1>2
  <2>4. QED
    BY ONLY <2>1, <2>2, <2>3
<1>10. QED
  BY <1>9 DEF EndErrors, Exempt, Alone, Ended

-----------------------------------------------------------------------------
(* Dead code *)

\* Whether a statement is dead, and the first of its block, does not change.
LEMMA GrownDead ==
    ASSUME NEW t, NEW node, NEW u, Grows(t, node, u), NEW R, NEW S, SameUpTo(R, S, Len(t)),
           NEW i \in 1 .. Len(t)
    PROVE  /\ \A b \in 1 .. i - 1 : DeadIn(u, S, b, i) <=> DeadIn(t, R, b, i)
           /\ FirstDead(u, S, i) <=> FirstDead(t, R, i)
<1>1. Len(t) \in Nat /\ \A j \in 1 .. Len(t) : u[j] = t[j]
  BY GrownNodes
<1>2. ASSUME NEW j \in 1 .. Len(t), NEW b \in 1 .. j - 1
      PROVE  DeadIn(u, S, b, j) <=> DeadIn(t, R, b, j)
  <2>1. j \in 1 .. Len(t) + 1
    BY <1>1
  <2>2. Within(u, b, j) <=> Within(t, b, j)
    BY <2>1, GrownHolds
  <2>3. QED
    BY <1>1, <2>2 DEF DeadIn, SameUpTo
<1>3. ASSUME NEW b \in 1 .. i - 1
      PROVE  /\ DeadIn(u, S, b, i) <=> DeadIn(t, R, b, i)
             /\ b + 1 \in S <=> b + 1 \in R
             /\ \A j \in b + 1 .. i - 1 : DeadIn(u, S, b, j) <=> DeadIn(t, R, b, j)
  <2>1. b + 1 \in 1 .. Len(t) /\ \A j \in b + 1 .. i - 1 : j \in 1 .. Len(t) /\ b \in 1 .. j - 1
    BY <1>1
  <2>2. QED
    BY <1>2, <2>1 DEF SameUpTo
<1>4. QED
  BY <1>3 DEF FirstDead

\* Control gets to the first node of the innermost body if it gets into it.
LEMMA BodyEntered ==
    ASSUME NEW t \in Seq(Nodes), NEW v, NEW H, Shape(t, v, H), NEW R, Flow(t, v, H, R),
           NEW d, d = Len(v), d > 0, NEW n, n = v[d].node, NEW S, S = Reaching(t, v, R)
    PROVE  n + 1 \in S <=> v[d].report
<1>1. d \in 1 .. d /\ d \in Nat /\ Len(t) \in Nat /\ R \subseteq 1 .. Len(t)
  BY ShapeTypes DEF Flow
<1>2. /\ n \in 1 .. Len(t) /\ t[n].kind \in Bodies
      /\ AtLevel(t, v, H, d) /\ FlowAt(t, v, H, R, d)
  BY <1>1 DEF Shape, Flow, AtLevel
<1>3. v[d].report <=> t[n].kind = "function" \/ H[d] \in R
  BY <1>2 DEF FlowAt
<1>4. PICK i : i = n + 1
  OBVIOUS
<1>5. i - 1 = n /\ i > 1 /\ i \in 1 .. Len(t) + 1
  BY <1>1, <1>2, <1>4
<1>6. Follows(t, R, i) <=>
      \/ t[n].kind = "function"
      \/ t[n].kind \in {"block", "if", "loop"} /\ n \in R
      \/ t[n].kind = "else" /\ \E q \in 1 .. n - 1 : Matches(t, q, n) /\ q \in R
  BY <1>2, <1>5 DEF Follows, Bodies, Transfers
<1>7. Follows(t, R, i) <=> v[d].report
  <2>1. CASE t[n].kind = "else"
    <3>1. H[d] \in 1 .. n - 1 /\ Matches(t, H[d], n)
      BY <1>2, <2>1 DEF AtLevel
    <3>2. \A q \in 1 .. n - 1 : Matches(t, q, n) => q = H[d]
      BY <3>1, MatchUnique
    <3>3. QED
      BY <1>3, <1>6, <2>1, <3>1, <3>2
  <2>2. CASE t[n].kind \in {"block", "if", "loop"}
    <3>1. H[d] = n
      BY <1>2, <2>2 DEF AtLevel
    <3>2. QED
      BY <1>3, <1>6, <2>2, <3>1
  <2>3. CASE t[n].kind = "function"
    BY <1>3, <1>6, <2>3
  <2>4. QED
    BY <1>2, <2>1, <2>2, <2>3 DEF Bodies
<1>8. i \in S <=> Follows(t, R, i)
  <2>1. /\ Len(t) + 1 \in S <=> Live(v)
        /\ \A j \in 1 .. Len(t) : j \in S <=> j \in R
    BY ONLY <1>1, S = Reaching(t, v, R), ReachingSame
  <2>2. CASE i = Len(t) + 1
    BY <2>1, <2>2 DEF Flow
  <2>3. CASE i \in 1 .. Len(t)
    BY <2>1, <2>3 DEF Flow
  <2>4. QED
    BY <1>1, <1>5, <2>2, <2>3
<1>9. QED
  BY <1>4, <1>7, <1>8

\* The next node is in the block of the innermost visit.
LEMMA NextWithin ==
    ASSUME NEW t, NEW node, NEW u, Grows(t, node, u), NEW v, NEW H, Shape(t, v, H),
           Len(v) > 0, NEW b \in 1 .. Len(t)
    PROVE  Within(u, b, Len(t) + 1) <=> b = v[Len(v)].node
<1>1. t \in Seq(Nodes) /\ Len(t) \in Nat /\ Len(v) \in Nat /\ Len(v) \in 1 .. Len(v)
  BY ShapeTypes DEF Grows
<1>2. PICK n : n = v[Len(v)].node
  OBVIOUS
<1>3. n \in 1 .. Len(t) /\ Within(t, n, Len(t) + 1)
  BY <1>1, <1>2, ShapeTypes, StackHolds
<1>4. PICK p : p = Len(t) + 1
  OBVIOUS
<1>5. p \in 1 .. Len(t) + 1 /\ n \in 1 .. p - 1 /\ b \in 1 .. p - 1
  BY <1>1, <1>3, <1>4
<1>6. (Within(u, b, p) <=> Within(t, b, p)) /\ Within(t, n, p)
  BY <1>3, <1>4, <1>5, GrownHolds
<1>7. Within(t, b, p) => b = n
  BY <1>5, <1>6 DEF Within
<1>8. QED
  BY <1>2, <1>4, <1>6, <1>7

\* The next node, if it is a statement.
LEMMA NextDead ==
    ASSUME NEW t, NEW node, NEW u, Grows(t, node, u), NEW v, NEW H, Shape(t, v, H),
           NEW R, Flow(t, v, H, R), NEW S, S = Reaching(t, v, R),
           NEW d, d = Len(v), d > 0, ReportedAt(t, v, R, d, Len(t) + 1)
    PROVE  /\ node.kind \in Statements =>
                 (DeadIn(u, S, v[d].node, Len(t) + 1) <=> ~Live(v))
           /\ FirstDead(u, S, Len(t) + 1) <=>
                 /\ node.kind \in Statements
                 /\ v[d].report /\ ~v[d].reachable /\ ~v[d].reported
<1>1. /\ t \in Seq(Nodes) /\ Len(t) \in Nat /\ d \in 1 .. d /\ d \in Nat
      /\ R \subseteq 1 .. Len(t) /\ u[Len(t) + 1] = node
  BY ShapeTypes, GrownNodes DEF Grows, Flow
<1>2. SameUpTo(R, S, Len(t)) /\ (Len(t) + 1 \in S <=> Live(v))
  BY ONLY <1>1, S = Reaching(t, v, R), ReachingSame
<1>3. PICK n, p : n = v[d].node /\ p = Len(t) + 1
  OBVIOUS
<1>4. n \in 1 .. Len(t) /\ n \in 1 .. p - 1 /\ p - 1 = Len(t)
  BY <1>1, <1>3, ShapeTypes
<1>5. \A b \in 1 .. p - 1 : Within(u, b, p) <=> b = n
  BY <1>3, <1>4, NextWithin
<1>6. \A b \in 1 .. p - 1 :
          DeadIn(u, S, b, p) <=> b = n /\ node.kind \in Statements /\ ~Live(v)
  BY <1>1, <1>2, <1>3, <1>5 DEF DeadIn
<1>7. n + 1 \in S <=> v[d].report
  BY ONLY <1>1, <1>3, d = Len(v), d > 0, S = Reaching(t, v, R), Shape(t, v, H),
          Flow(t, v, H, R), BodyEntered
<1>8. \A j \in n + 1 .. p - 1 : DeadIn(u, S, n, j) <=> DeadIn(t, R, n, j)
  <2>1. \A j \in n + 1 .. p - 1 : j \in 1 .. Len(t) /\ n \in 1 .. j - 1
    BY <1>4
  <2>2. QED
    BY <1>2, <2>1, GrownDead
<1>9. v[d].report =>
          (v[d].reported <=> \E j \in n + 1 .. p - 1 : DeadIn(t, R, n, j))
  BY <1>3 DEF ReportedAt
<1>10. FirstDead(u, S, p) <=>
           /\ DeadIn(u, S, n, p) /\ n + 1 \in S
           /\ \A j \in n + 1 .. p - 1 : ~DeadIn(u, S, n, j)
  BY <1>4, <1>6 DEF FirstDead
<1>11. Live(v) <=> v[d].report /\ v[d].reachable
  BY <1>1 DEF Live
<1>12. DeadIn(u, S, n, p) <=> node.kind \in Statements /\ ~Live(v)
  BY <1>4, <1>6
<1>13. FirstDead(u, S, p) <=>
           /\ node.kind \in Statements
           /\ v[d].report /\ ~v[d].reachable /\ ~v[d].reported
  <2>1. CASE v[d].report
    <3>1. v[d].reported <=> \E j \in n + 1 .. p - 1 : DeadIn(u, S, n, j)
      BY ONLY <1>8, <1>9, <2>1
    <3>2. QED
      BY ONLY <1>7, <1>10, <1>11, <1>12, <2>1, <3>1
  <2>2. CASE ~v[d].report
    BY ONLY <1>7, <1>10, <2>2
  <2>3. QED
    BY <2>1, <2>2
<1>14. QED
  BY ONLY <1>3, <1>12, <1>13

\* What is reported on the way through a block, of the nodes before next.
LEMMA ReportedSame ==
    ASSUME NEW t, NEW node, NEW u, Grows(t, node, u), NEW R, NEW S, SameUpTo(R, S, Len(t)),
           NEW v, NEW w, NEW k, v[k].node \in Nat \ {0}, NEW next \in 1 .. Len(t) + 1,
           ReportedAt(t, v, R, k, next),
           w[k].node = v[k].node, w[k].report = v[k].report, w[k].reported = v[k].reported
    PROVE  ReportedAt(u, w, S, k, next)
<1>1. PICK n : n = v[k].node
  OBVIOUS
<1>2. Len(t) \in Nat /\ n \in Nat \ {0}
  BY <1>1, GrownNodes
<1>3. \A j \in n + 1 .. next - 1 : j \in 1 .. Len(t) /\ n \in 1 .. j - 1
  BY <1>2
<1>4. \A j \in n + 1 .. next - 1 : DeadIn(u, S, n, j) <=> DeadIn(t, R, n, j)
  BY <1>3, GrownDead
<1>5. QED
  BY <1>1, <1>4 DEF ReportedAt

\* Whether a visit has come to a dead statement, when a node arrives that is none.
LEMMA ReportedStays ==
    ASSUME NEW t, NEW node, NEW u, Grows(t, node, u), NEW v, NEW H, Shape(t, v, H),
           NEW R, Flow(t, v, H, R), NEW S, S = Reaching(t, v, R),
           NEW d, d = Len(v), d > 0, ReportedAt(t, v, R, d, Len(t) + 1),
           node.kind \in Statements,
           NEW w, w[d].node = v[d].node, w[d].report = v[d].report,
           w[d].reported <=> v[d].reported \/ ~v[d].reachable
    PROVE  ReportedAt(u, w, S, d, Len(u) + 1)
<1>1. /\ t \in Seq(Nodes) /\ Len(t) \in Nat /\ d \in 1 .. d /\ d \in Nat
      /\ R \subseteq 1 .. Len(t) /\ Len(u) = Len(t) + 1
  BY ShapeTypes, GrownNodes DEF Grows, Flow
<1>2. SameUpTo(R, S, Len(t))
  BY ONLY <1>1, S = Reaching(t, v, R), ReachingSame
<1>3. PICK n, p : n = v[d].node /\ p = Len(t) + 1
  OBVIOUS
<1>4. n \in 1 .. Len(t) /\ p - 1 = Len(t) /\ (Len(u) + 1) - 1 = p /\ p > n /\ p \in Nat
  BY <1>1, <1>3, ShapeTypes
<1>5. DeadIn(u, S, n, p) <=> ~Live(v)
  BY <1>3, NextDead
<1>6. Live(v) <=> v[d].report /\ v[d].reachable
  BY <1>1 DEF Live
<1>7. \A j \in n + 1 .. p - 1 : DeadIn(u, S, n, j) <=> DeadIn(t, R, n, j)
  <2>1. \A j \in n + 1 .. p - 1 : j \in 1 .. Len(t) /\ n \in 1 .. j - 1
    BY <1>4
  <2>2. QED
    BY <1>2, <2>1, GrownDead
<1>8. (\E j \in n + 1 .. p : DeadIn(u, S, n, j)) <=>
          (\E j \in n + 1 .. p - 1 : DeadIn(t, R, n, j)) \/ DeadIn(u, S, n, p)
  <2>1. \A j : j \in n + 1 .. p <=> j \in n + 1 .. p - 1 \/ j = p
    BY <1>4
  <2>2. QED
    BY <1>7, <2>1
<1>9. v[d].report =>
          (v[d].reported <=> \E j \in n + 1 .. p - 1 : DeadIn(t, R, n, j))
  BY <1>3 DEF ReportedAt
<1>10. w[d].report =>
          (w[d].reported <=> \E j \in n + 1 .. p : DeadIn(u, S, n, j))
  BY <1>5, <1>6, <1>8, <1>9
<1>11. QED
  BY <1>3, <1>4, <1>10 DEF ReportedAt

\* A body ends. The block around it goes on behind it.
LEMMA ReportedPop ==
    ASSUME NEW t, NEW node, NEW u, Grows(t, node, u), NEW v, NEW H, Shape(t, v, H),
           node.kind = "end", NEW R, Flow(t, v, H, R), NEW S, SameUpTo(R, S, Len(t)),
           NEW e, e + 1 = Len(v), e \in Nat \ {0}, ReportedAt(t, v, R, e, H[e + 1]),
           NEW w, w[e].node = v[e].node, w[e].report = v[e].report,
           w[e].reported <=> \/ v[e].reported
                             \/ t[v[e + 1].node].kind # "function" /\ ~v[e].reachable
    PROVE  ReportedAt(u, w, S, e, Len(u) + 1)
<1>1. PICK d, n, m, h : d = e + 1 /\ n = v[d].node /\ m = v[e].node /\ h = H[d]
  OBVIOUS
<1>2. /\ t \in Seq(Nodes) /\ Len(t) \in Nat /\ Len(u) = Len(t) + 1 /\ u[Len(t) + 1] = node
      /\ d \in 1 .. Len(v) /\ e \in 1 .. Len(v) /\ e \in 1 .. d - 1 /\ d - 1 = e
      /\ Len(v) \in Nat /\ \A i \in 1 .. Len(t) : u[i] = t[i]
  BY <1>1, ShapeTypes, GrownNodes DEF Grows
<1>3. h \in 1 .. Len(t) /\ m \in 1 .. Len(t) /\ m < h /\ Holds(t, m, Len(t) + 1)
  BY <1>1, <1>2, ShapeTypes, StackHolds
<1>4. /\ t[h].kind \in Bodies \ {"else"}
      /\ t[n].kind # "else" => h = n
      /\ t[n].kind = "else" => t[h].kind = "if"
  BY <1>1, <1>2, HeadKind
<1>5. Within(t, m, h)
  <2>1. m \in 1 .. h - 1 /\ h <= Len(t) + 1 /\ h \in Nat
    BY <1>2, <1>3
  <2>2. Holds(t, m, h)
    BY <1>2, <1>3, <2>1, HoldsEarlier
  <2>3. ASSUME NEW a \in 1 .. h - 1, Holds(t, a, h) PROVE a <= m
    <3>1. PICK q \in 1 .. d - 1 : v[q].node = a
      BY <1>1, <1>2, <2>3, HeadHolders
    <3>2. CASE q = e
      BY <1>1, <1>3, <3>1, <3>2
    <3>3. CASE q # e
      <4>1. q \in 1 .. e - 1
        BY <1>2, <3>3
      <4>2. v[q].node < v[e].node
        BY ONLY <1>2, <4>1, Shape(t, v, H), ShapeTypes
      <4>3. QED
        BY <1>1, <1>3, <3>1, <4>2
    <3>4. QED
      BY <3>2, <3>3
  <2>4. QED
    BY <2>1, <2>2, <2>3 DEF Within
<1>6. h \in R <=> v[e].report /\ v[e].reachable
  <2>1. FlowAt(t, v, H, R, e) /\ e < Len(v)
    BY <1>2 DEF Flow
  <2>2. QED
    BY <1>1, <2>1 DEF FlowAt
<1>7. DeadIn(t, R, m, h) <=>
          t[n].kind # "function" /\ ~(v[e].report /\ v[e].reachable)
  <2>1. t[h].kind \in Statements <=> t[n].kind # "function"
    BY <1>4 DEF Statements, Bodies, Transfers
  <2>2. QED
    BY <1>5, <1>6, <2>1 DEF DeadIn
<1>8. \A j \in m + 1 .. h : DeadIn(u, S, m, j) <=> DeadIn(t, R, m, j)
  <2>1. \A j \in m + 1 .. h : j \in 1 .. Len(t) /\ m \in 1 .. j - 1
    BY <1>2, <1>3
  <2>2. QED
    BY <2>1, GrownDead
<1>9. ASSUME NEW j \in h + 1 .. Len(t) + 1 PROVE ~DeadIn(u, S, m, j)
  <2>1. PICK b \in h .. j - 1 : Holds(t, b, j)
    BY <1>1, <1>2, InsideHead
  <2>2. b \in 1 .. j - 1 /\ b > m /\ b \in Nat /\ m \in Nat /\ j \in 1 .. Len(t) + 1
    BY <1>2, <1>3
  <2>3. Holds(u, b, j)
    BY <2>1, <2>2, GrownHolds
  <2>4. ~Within(u, m, j)
    <3>1. ~(b <= m)
      BY ONLY <2>2
    <3>2. QED
      BY <2>2, <2>3, <3>1 DEF Within
  <2>5. QED
    BY <2>4 DEF DeadIn
<1>10. (\E j \in m + 1 .. Len(t) + 1 : DeadIn(u, S, m, j)) <=>
           (\E j \in m + 1 .. h - 1 : DeadIn(t, R, m, j)) \/ DeadIn(t, R, m, h)
  <2>1. \A j \in m + 1 .. Len(t) + 1 : j \in m + 1 .. h - 1 \/ j = h \/ j \in h + 1 .. Len(t) + 1
    BY ONLY <1>2, <1>3
  <2>2. /\ h \in m + 1 .. Len(t) + 1 /\ h \in m + 1 .. h
        /\ \A j \in m + 1 .. h - 1 : j \in m + 1 .. Len(t) + 1 /\ j \in m + 1 .. h
    BY ONLY <1>2, <1>3
  <2>3. QED
    BY ONLY <1>8, <1>9, <2>1, <2>2
<1>11. v[e].report =>
           (v[e].reported <=> \E j \in m + 1 .. h - 1 : DeadIn(t, R, m, j))
  BY <1>1 DEF ReportedAt
<1>12. w[e].report =>
           (w[e].reported <=> \E j \in m + 1 .. Len(t) + 1 : DeadIn(u, S, m, j))
  BY <1>1, <1>7, <1>10, <1>11
<1>13. (Len(u) + 1) - 1 = Len(t) + 1
  BY <1>2
<1>14. QED
  BY <1>1, <1>12, <1>13 DEF ReportedAt

\* The warning for the next node.
Warns(t, node, v, W, X) ==
    IF /\ node.kind \in Statements
       /\ ~v[Len(v)].reachable /\ ~v[Len(v)].reported /\ v[Len(v)].report
    THEN X = W \cup {Len(t) + 1}
    ELSE X = W

ReportedOn(u, w, G, S) ==
    \A k \in 1 .. Len(w) :
        ReportedAt(u, w, S, k, IF k < Len(w) THEN G[k + 1] ELSE Len(u) + 1)

\* The warnings up to the next node, from what the visits know then.
LEMMA WarnedGrows ==
    ASSUME NEW t, NEW node, NEW u, Grows(t, node, u), NEW v, NEW H, Shape(t, v, H),
           Fitting(t, v, node), NEW R, Flow(t, v, H, R), NEW W, Warned(t, v, H, R, W),
           NEW S, S = Reaching(t, v, R), NEW X, Warns(t, node, v, W, X),
           NEW w, NEW G, ReportedOn(u, w, G, S)
    PROVE  Warned(u, w, G, S, X)
<1>1. /\ t \in Seq(Nodes) /\ Len(t) \in Nat /\ Len(v) \in Nat
      /\ R \subseteq 1 .. Len(t) /\ Len(u) = Len(t) + 1 /\ u[Len(t) + 1] = node
  BY ShapeTypes, GrownNodes DEF Grows, Flow
<1>2. SameUpTo(R, S, Len(t))
  BY ONLY <1>1, S = Reaching(t, v, R), ReachingSame
<1>3. PICK p, d : p = Len(t) + 1 /\ d = Len(v)
  OBVIOUS
<1>4. W \subseteq 1 .. Len(t) /\ p \notin W /\ \A i \in 1 .. Len(t) : i # p
  BY <1>1, <1>3 DEF Warned
<1> DEFINE warns == /\ node.kind \in Statements
                    /\ v[d].report /\ ~v[d].reachable /\ ~v[d].reported
<1>5. X = IF warns THEN W \cup {p} ELSE W
  BY <1>3 DEF Warns
<1>6. FirstDead(u, S, p) <=> warns
  <2>1. CASE d = 0
    <3>1. node.kind = "function"
      BY <1>3, <2>1 DEF Fitting
    <3>2. node.kind \notin Statements
      BY <3>1 DEF Statements, Transfers
    <3>3. ~FirstDead(u, S, p)
      BY <1>1, <1>3, <3>2 DEF FirstDead, DeadIn
    <3>4. QED
      BY <3>2, <3>3
  <2>2. CASE d > 0
    <3>1. d \in 1 .. Len(v) /\ ~(d < Len(v))
      BY <1>1, <1>3, <2>2
    <3>2. ReportedAt(t, v, R, d, Len(t) + 1)
      BY <3>1 DEF Warned
    <3>3. QED
      BY ONLY <1>3, <2>2, <3>2, Grows(t, node, u), Shape(t, v, H), Flow(t, v, H, R),
              S = Reaching(t, v, R), NextDead
  <2>3. QED
    BY <1>1, <1>3, <2>1, <2>2
<1> HIDE DEF warns
<1>7. X \subseteq 1 .. Len(u)
  <2>1. W \subseteq 1 .. Len(u) /\ p \in 1 .. Len(u)
    BY ONLY <1>1, <1>3, <1>4
  <2>2. QED
    BY <1>5, <2>1
<1>8. ASSUME NEW i \in 1 .. Len(u) PROVE i \in X <=> FirstDead(u, S, i)
  <2>1. CASE i \in 1 .. Len(t)
    <3>1. i \in W <=> FirstDead(t, R, i)
      BY <2>1 DEF Warned
    <3>2. FirstDead(u, S, i) <=> FirstDead(t, R, i)
      BY ONLY <1>2, <2>1, Grows(t, node, u), GrownDead
    <3>3. QED
      BY <1>4, <1>5, <2>1, <3>1, <3>2
  <2>2. CASE i = p
    BY <1>4, <1>5, <1>6, <2>2
  <2>3. QED
    BY ONLY <1>1, <1>3, <1>8, <2>1, <2>2
<1>9. QED
  BY <1>7, <1>8 DEF Warned, ReportedOn

\* What the visits below the innermost one have come to does not change.
LEMMA LowerReported ==
    ASSUME NEW t, NEW node, NEW u, Grows(t, node, u), NEW v, NEW H, Shape(t, v, H),
           NEW R, NEW S, SameUpTo(R, S, Len(t)), NEW W, Warned(t, v, H, R, W),
           NEW k \in 1 .. Len(v) - 1, NEW w, w[k] = v[k]
    PROVE  ReportedAt(u, w, S, k, H[k + 1])
<1>1. t \in Seq(Nodes) /\ Len(t) \in Nat /\ Len(v) \in Nat
  BY ShapeTypes DEF Grows
<1>2. k \in 1 .. Len(v) /\ k + 1 \in 1 .. Len(v) /\ k < Len(v)
  BY <1>1
<1>3. H[k + 1] \in 1 .. Len(t) + 1 /\ v[k].node \in Nat \ {0}
  BY <1>1, <1>2, ShapeTypes
<1>4. ReportedAt(t, v, R, k, H[k + 1])
  BY <1>2 DEF Warned
<1>5. QED
  BY ONLY <1>3, <1>4, Grows(t, node, u), SameUpTo(R, S, Len(t)), w[k] = v[k], ReportedSame

-----------------------------------------------------------------------------
(* What holds of the tree and the visit, step by step *)

Known(t, v, E, W, H, R) ==
    /\ Shape(t, v, H)
    /\ Flow(t, v, H, R)
    /\ LoopsCounted(t, v)
    /\ TransferErrors(t, E)
    /\ EndErrors(t, R, E)
    /\ Warned(t, v, H, R, W)

\* Nothing is reported of nodes that have not arrived.
LEMMA NoErrorBeyond ==
    ASSUME NEW t, Len(t) \in Nat, NEW E, TransferErrors(t, E)
    PROVE  NoneBeyond(E, Len(t)) /\ \A f \in Nat : f > Len(t) => <<f, "outside loop">> \notin E
<1>1. E \subseteq (1 .. Len(t)) \X {"outside loop", "no return"}
  BY DEF TransferErrors
<1>2. \A f \in Nat : f > Len(t) => f \notin 1 .. Len(t)
  OBVIOUS
<1>3. QED
  BY <1>1, <1>2 DEF NoneBeyond

\* No error is added.
LEMMA SameErrors ==
    ASSUME NEW t, NEW node, NEW u, Grows(t, node, u), NEW v, NEW H, Shape(t, v, H),
           Fitting(t, v, node), NEW R, NEW S, SameUpTo(R, S, Len(t)), NEW E,
           TransferErrors(t, E), EndErrors(t, R, E), node.kind \notin Transfers,
           node.kind = "end" => t[v[Len(v)].node].kind # "function"
    PROVE  TransferErrors(u, E) /\ EndErrors(u, S, E)
<1>1. Len(t) \in Nat /\ Len(u) = Len(t) + 1
  BY ONLY Grows(t, node, u), GrownNodes
<1>2. NoneBeyond(E, Len(t)) /\ <<Len(t) + 1, "outside loop">> \notin E
  <2>1. Len(t) + 1 \in Nat /\ Len(t) + 1 > Len(t)
    BY <1>1
  <2>2. QED
    BY <1>1, <2>1, NoErrorBeyond
<1>3. TransferErrors(u, E)
  <2>1. E \subseteq (1 .. Len(t)) \X {"outside loop", "no return"}
    BY DEF TransferErrors
  <2>2. 1 .. Len(t) \subseteq 1 .. Len(u)
    BY <1>1
  <2>3. E \subseteq (1 .. Len(u)) \X {"outside loop", "no return"}
    BY ONLY <2>1, <2>2
  <2>4. QED
    BY <1>2, <2>3, TransferErrorsGrow
<1>4. PICK n : n = v[Len(v)].node
  OBVIOUS
<1>5. Added(t, node, n, S, E, E)
  BY <1>4 DEF Added, Closes
<1>6. EndErrors(u, S, E)
  BY ONLY <1>2, <1>4, <1>5, Grows(t, node, u), Shape(t, v, H), Fitting(t, v, node),
          SameUpTo(R, S, Len(t)), EndErrors(t, R, E), EndErrorsGrow
<1>7. QED
  BY <1>3, <1>6

\* The visit at level d goes on after a statement that control leaves if falls.
Advances(v, w, d, falls) ==
    /\ w[d].node = v[d].node /\ w[d].report = v[d].report /\ w[d].before = v[d].before
    /\ w[d].loops = v[d].loops
    /\ w[d].reachable <=> v[d].reachable /\ falls
    /\ w[d].reported <=> v[d].reported \/ ~v[d].reachable

Passes(node, loops) == node.kind = "simple" \/ (node.kind \in Transfers /\ loops = 0)

StraysTo(node, loops, i, E, F) ==
    F = IF node.kind \in Transfers /\ loops = 0 THEN E \cup {<<i, "outside loop">>} ELSE E

\* A statement without a block arrives.
LEMMA KnownStays ==
    ASSUME NEW t, NEW node, NEW u, Grows(t, node, u), NEW v, Fitting(t, v, node),
           NEW E, NEW W, NEW H, NEW R, Known(t, v, E, W, H, R),
           node.kind \in {"simple", "return"} \cup Transfers,
           NEW d, d = Len(v), NEW w, Len(w) = d, SameBelow(v, w, d - 1),
           Advances(v, w, d, Passes(node, v[d].loops)),
           NEW F, StraysTo(node, v[d].loops, Len(t) + 1, E, F),
           NEW X, Warns(t, node, v, W, X)
    PROVE  Known(u, w, F, X, H, Reaching(t, v, R))
<1>1. PICK S : S = Reaching(t, v, R)
  OBVIOUS
<1>2. /\ Shape(t, v, H) /\ Flow(t, v, H, R) /\ LoopsCounted(t, v)
      /\ TransferErrors(t, E) /\ EndErrors(t, R, E) /\ Warned(t, v, H, R, W)
  BY DEF Known
<1>3. t \in Seq(Nodes) /\ Len(u) = Len(t) + 1 /\ \A i \in 1 .. Len(t) : u[i] = t[i]
  BY ONLY Grows(t, node, u), GrownNodes DEF Grows
<1>4. /\ Len(t) \in Nat /\ d \in Nat /\ \A k \in 1 .. d : v[k].node \in 1 .. Len(t)
  BY ONLY d = Len(v), <1>2, <1>3, ShapeTypes
<1>5. d \in 1 .. d /\ d > 0 /\ R \subseteq 1 .. Len(t)
  BY <1>2, <1>4 DEF Fitting, Flow, Transfers
<1>6. SameUpTo(R, S, Len(t))
  BY ONLY <1>1, <1>4, <1>5, ReachingSame
<1>7. \A k \in 1 .. d : w[k].node = v[k].node
  <2>1. \A k \in 1 .. d : k \in 1 .. d - 1 \/ k = d
    BY <1>4
  <2>2. QED
    BY <2>1 DEF SameBelow, Advances
<1>8. node.kind \notin Bodies \cup {"end"} /\ node.kind \in Statements
  BY DEF Bodies, Transfers, Statements
<1>9. Shape(u, w, H)
  BY <1>2, <1>7, <1>8, ShapeStays
<1>10. Flow(u, w, H, S)
  <2>1. Flow(u, w, H, Reaching(t, v, R))
    BY <1>2, FlowStays DEF SameBelow, Advances, Passes
  <2>2. QED
    BY <1>1, <2>1
<1>11. LoopsCounted(u, w)
  <2>1. ASSUME NEW k \in 1 .. d
        PROVE  w[k].loops \in Nat /\ (w[k].loops = 0 <=> NoLoops(u, w, k))
    <3>1. w[k].loops = v[k].loops
      <4>1. k \in 1 .. d - 1 \/ k = d
        BY <1>4
      <4>2. QED
        BY <4>1 DEF SameBelow, Advances
    <3>2. \A m \in 1 .. k : m \in 1 .. d
      BY <1>4
    <3>3. SameLoops(t, v, u, w, k)
      BY <1>3, <1>4, <1>7, <3>2 DEF SameLoops
    <3>4. QED
      BY ONLY k \in 1 .. d, d = Len(v), <1>2, <1>4, <3>1, <3>3, LoopsStay
  <2>2. QED
    BY <2>1 DEF LoopsCounted
<1>12. TransferErrors(u, F) /\ EndErrors(u, S, F)
  <2>1. CASE ~(node.kind \in Transfers /\ v[d].loops = 0) /\ node.kind \notin Transfers
    <3>1. F = E
      BY <2>1 DEF StraysTo
    <3>2. QED
      BY ONLY <1>2, <1>6, <1>8, <2>1, <3>1, Grows(t, node, u), Fitting(t, v, node), SameErrors
  <2>2. CASE node.kind \in Transfers
    <3>1. Outside(u, Len(t) + 1) <=> v[d].loops = 0
      BY ONLY <1>2, <1>5, d = Len(v), Grows(t, node, u), NextOutside
    <3>2. Len(t) + 1 \in Nat /\ Len(t) + 1 > Len(t) /\ Len(t) + 1 \in 1 .. Len(u)
          /\ 1 .. Len(t) \subseteq 1 .. Len(u) /\ \A i \in 1 .. Len(t) : i # Len(t) + 1
      BY ONLY <1>3, <1>4
    <3>3. NoneBeyond(E, Len(t)) /\ <<Len(t) + 1, "outside loop">> \notin E
      BY <1>2, <1>4, <3>2, NoErrorBeyond
    <3>4. F \subseteq (1 .. Len(u)) \X {"outside loop", "no return"}
      <4>1. E \subseteq (1 .. Len(t)) \X {"outside loop", "no return"}
        BY <1>2 DEF TransferErrors
      <4>2. <<Len(t) + 1, "outside loop">> \in (1 .. Len(u)) \X {"outside loop", "no return"}
        BY <3>2
      <4>3. E \subseteq (1 .. Len(u)) \X {"outside loop", "no return"}
        BY ONLY <3>2, <4>1
      <4>4. F \subseteq E \cup {<<Len(t) + 1, "outside loop">>}
        BY DEF StraysTo
      <4>5. QED
        BY ONLY <4>2, <4>3, <4>4
    <3>5. /\ \A i \in 1 .. Len(t) : <<i, "outside loop">> \in F <=> <<i, "outside loop">> \in E
          /\ <<Len(t) + 1, "outside loop">> \in F <=>
                 node.kind \in Transfers /\ Outside(u, Len(t) + 1)
          /\ \A f : <<f, "no return">> \in F <=> <<f, "no return">> \in E
      BY <2>2, <3>1, <3>2, <3>3 DEF StraysTo
    <3>6. TransferErrors(u, F)
      BY ONLY <1>2, <3>4, <3>5, Grows(t, node, u), TransferErrorsGrow
    <3>7. PICK n : n = v[Len(v)].node
      OBVIOUS
    <3>8. Added(t, node, n, S, E, F)
      BY <1>8, <3>5 DEF Added, Closes
    <3>9. EndErrors(u, S, F)
      BY ONLY <1>2, <1>6, <3>3, <3>7, <3>8, Grows(t, node, u), Fitting(t, v, node), EndErrorsGrow
    <3>10. QED
      BY <3>6, <3>9
  <2>3. QED
    BY <2>1, <2>2
<1>13. Warned(u, w, H, S, X)
  <2>1. ASSUME NEW k \in 1 .. Len(w)
        PROVE  ReportedAt(u, w, S, k, IF k < Len(w) THEN H[k + 1] ELSE Len(u) + 1)
    <3>1. CASE k \in 1 .. d - 1
      <4>1. ReportedAt(u, w, S, k, H[k + 1])
        BY ONLY <1>2, <1>6, <3>1, Grows(t, node, u), SameBelow(v, w, d - 1),
                d = Len(v), LowerReported DEF SameBelow
      <4>2. k < Len(w)
        BY <1>4, <3>1
      <4>3. QED
        BY <4>1, <4>2
    <3>2. CASE k = d
      <4>1. ReportedAt(t, v, R, d, Len(t) + 1)
        <5>1. d \in 1 .. Len(v) /\ ~(d < Len(v))
          BY <1>4, <1>5
        <5>2. QED
          BY <1>2, <5>1 DEF Warned
      <4>2. ReportedAt(u, w, S, d, Len(u) + 1)
        BY <1>1, <1>2, <1>5, <1>8, <4>1, ReportedStays DEF Advances
      <4>3. ~(k < Len(w))
        BY <1>4, <3>2
      <4>4. QED
        BY <3>2, <4>2, <4>3
    <3>3. QED
      BY <1>4, <3>1, <3>2
  <2>2. ReportedOn(u, w, H, S)
    BY ONLY <2>1 DEF ReportedOn
  <2>3. QED
    BY ONLY <1>1, <1>2, <2>2, Grows(t, node, u), Fitting(t, v, node), Warns(t, node, v, W, X),
            WarnedGrows
<1>14. QED
  BY <1>1, <1>9, <1>10, <1>11, <1>12, <1>13 DEF Known

\* The count of loops on top of a stack that stays.
LEMMA LoopsBelow ==
    ASSUME NEW t, NEW node, NEW u, Grows(t, node, u), NEW v, NEW H, Shape(t, v, H),
           LoopsCounted(t, v), NEW n \in 0 .. Len(v), NEW w, SameBelow(v, w, n),
           NEW k \in 1 .. n
    PROVE  w[k].loops \in Nat /\ (w[k].loops = 0 <=> NoLoops(u, w, k))
<1>1. t \in Seq(Nodes) /\ \A i \in 1 .. Len(t) : u[i] = t[i]
  BY ONLY Grows(t, node, u), GrownNodes DEF Grows
<1>2. /\ Len(v) \in Nat /\ \A q \in 1 .. Len(v) : v[q].node \in 1 .. Len(t)
  BY ONLY Shape(t, v, H), <1>1, ShapeTypes
<1>3. k \in 1 .. Len(v) /\ \A m \in 1 .. k : m \in 1 .. n /\ m \in 1 .. Len(v)
  BY ONLY <1>2, n \in 0 .. Len(v), k \in 1 .. n
<1>4. SameLoops(t, v, u, w, k) /\ w[k] = v[k]
  BY <1>1, <1>2, <1>3 DEF SameLoops, SameBelow
<1>5. QED
  BY ONLY LoopsCounted(t, v), <1>2, <1>3, <1>4, LoopsStay

\* A statement with a block, or a function, arrives.
LEMMA KnownPush ==
    ASSUME NEW t, NEW node, NEW u, Grows(t, node, u), NEW v, Fitting(t, v, node),
           NEW E, NEW W, NEW H, NEW R, Known(t, v, E, W, H, R),
           node.kind \in Bodies \ {"else"},
           NEW d, d = Len(v), NEW w, Len(w) = d + 1, SameBelow(v, w, d),
           w[d + 1].node = Len(t) + 1, w[d + 1].reachable, ~w[d + 1].reported,
           w[d + 1].report <=> node.kind = "function" \/ Live(v),
           node.kind = "function" => w[d + 1].loops = 0,
           node.kind # "function" =>
               w[d + 1].loops = v[d].loops + IF node.kind = "loop" THEN 1 ELSE 0,
           NEW X, Warns(t, node, v, W, X)
    PROVE  Known(u, w, E, X, Append(H, Len(t) + 1), Reaching(t, v, R))
<1>1. PICK S, G : S = Reaching(t, v, R) /\ G = Append(H, Len(t) + 1)
  OBVIOUS
<1>2. /\ Shape(t, v, H) /\ Flow(t, v, H, R) /\ LoopsCounted(t, v)
      /\ TransferErrors(t, E) /\ EndErrors(t, R, E) /\ Warned(t, v, H, R, W)
  BY DEF Known
<1>3. /\ t \in Seq(Nodes) /\ Len(u) = Len(t) + 1 /\ \A i \in 1 .. Len(t) : u[i] = t[i]
      /\ u[Len(t) + 1] = node
  BY ONLY Grows(t, node, u), GrownNodes DEF Grows
<1>4. /\ Len(t) \in Nat /\ d \in Nat /\ \A k \in 1 .. d : v[k].node \in 1 .. Len(t)
      /\ H \in Seq(Nat)
  BY ONLY d = Len(v), <1>2, <1>3, ShapeTypes
<1>5. R \subseteq 1 .. Len(t) /\ Len(H) = d
  BY ONLY d = Len(v), <1>2 DEF Flow, Shape
<1>6. SameUpTo(R, S, Len(t))
  BY ONLY <1>1, <1>4, <1>5, ReachingSame
<1>7. \A k \in 1 .. d : w[k].node = v[k].node /\ w[k].loops = v[k].loops
  BY DEF SameBelow
<1>8. G[d + 1] = Len(t) + 1 /\ \A k \in 1 .. d : G[k] = H[k]
  BY ONLY <1>1, <1>4, <1>5
<1>9. Shape(u, w, G)
  <2>1. Shape(u, w, Append(H, Len(t) + 1))
    BY ONLY <1>2, <1>7, d = Len(v), Grows(t, node, u), Fitting(t, v, node),
            node.kind \in Bodies \ {"else"}, Len(w) = d + 1, w[d + 1].node = Len(t) + 1,
            ShapePush
  <2>2. QED
    BY <1>1, <2>1
<1>10. Flow(u, w, G, S)
  <2>1. Flow(u, w, Append(H, Len(t) + 1), Reaching(t, v, R))
    BY <1>2, FlowPush DEF SameBelow
  <2>2. QED
    BY <1>1, <2>1
<1>11. LoopsCounted(u, w)
  <2>1. u[w[d + 1].node].kind = node.kind
    BY <1>3
  <2>2. \A k \in 1 .. d : u[w[k].node].kind = t[v[k].node].kind
    BY ONLY <1>3, <1>4, <1>7
  <2>3. node.kind # "function" => d > 0
    BY DEF Fitting
  <2>4. QED
    BY ONLY <1>2, <1>4, <1>7, <2>1, <2>2, <2>3, d = Len(v), Len(w) = d + 1,
            node.kind = "function" => w[d + 1].loops = 0,
            node.kind # "function" =>
               w[d + 1].loops = v[d].loops + IF node.kind = "loop" THEN 1 ELSE 0,
            LoopsPush
<1>12. TransferErrors(u, E) /\ EndErrors(u, S, E)
  <2>1. node.kind \notin Transfers /\ node.kind # "end"
    BY DEF Bodies, Transfers
  <2>2. QED
    BY ONLY <1>2, <1>6, <2>1, Grows(t, node, u), Fitting(t, v, node), SameErrors
<1>13. Warned(u, w, G, S, X)
  <2>1. ASSUME NEW k \in 1 .. Len(w)
        PROVE  ReportedAt(u, w, S, k, IF k < Len(w) THEN G[k + 1] ELSE Len(u) + 1)
    <3>1. CASE k \in 1 .. d - 1
      <4>1. w[k] = v[k]
        <5>1. k \in 1 .. d
          BY ONLY <1>4, <3>1
        <5>2. QED
          BY <5>1 DEF SameBelow
      <4>2. ReportedAt(u, w, S, k, H[k + 1])
        BY ONLY <1>2, <1>6, <3>1, <4>1, Grows(t, node, u), d = Len(v), LowerReported
      <4>3. k < Len(w) /\ k + 1 \in 1 .. d
        BY ONLY <1>4, <3>1, Len(w) = d + 1
      <4>4. QED
        BY <1>8, <4>2, <4>3
    <3>2. CASE k = d
      <4>1. d \in 1 .. Len(v) /\ ~(d < Len(v)) /\ k < Len(w) /\ d \in 1 .. d
        BY ONLY <1>4, <3>2, k \in 1 .. Len(w), Len(w) = d + 1, d = Len(v)
      <4>2. ReportedAt(t, v, R, d, Len(t) + 1)
        BY <1>2, <4>1 DEF Warned
      <4>3. /\ w[d].node = v[d].node /\ w[d].report = v[d].report
            /\ w[d].reported = v[d].reported
        BY <4>1 DEF SameBelow
      <4>4. Len(t) + 1 \in 1 .. Len(t) + 1 /\ v[d].node \in Nat \ {0}
        BY ONLY <1>4, <4>1
      <4>5. ReportedAt(u, w, S, d, Len(t) + 1)
        BY ONLY <1>6, <4>2, <4>3, <4>4, Grows(t, node, u), ReportedSame
      <4>6. QED
        BY <1>8, <3>2, <4>1, <4>5
    <3>3. CASE k = d + 1
      <4>1. ~(k < Len(w)) /\ k \in Nat
        BY ONLY <1>4, <3>3, Len(w) = d + 1
      <4>2. w[k].node + 1 .. (Len(u) + 1) - 1 = {}
        BY <1>3, <1>4, <3>3
      <4>3. ReportedAt(u, w, S, k, Len(u) + 1)
        BY <3>3, <4>2 DEF ReportedAt
      <4>4. QED
        BY <4>1, <4>3
    <3>4. QED
      BY ONLY <1>4, <2>1, Len(w) = d + 1, <3>1, <3>2, <3>3
  <2>2. ReportedOn(u, w, G, S)
    BY ONLY <2>1 DEF ReportedOn
  <2>3. QED
    BY ONLY <1>1, <1>2, <2>2, Grows(t, node, u), Fitting(t, v, node), Warns(t, node, v, W, X),
            WarnedGrows
<1>14. QED
  BY <1>1, <1>9, <1>10, <1>11, <1>12, <1>13 DEF Known

\* An else block starts.
LEMMA KnownElse ==
    ASSUME NEW t, NEW node, NEW u, Grows(t, node, u), NEW v, Fitting(t, v, node),
           NEW E, NEW W, NEW H, NEW R, Known(t, v, E, W, H, R),
           node.kind = "else",
           NEW d, d = Len(v), NEW w, Len(w) = d, SameBelow(v, w, d - 1),
           w[d].node = Len(t) + 1, w[d].reachable, ~w[d].reported,
           w[d].report <=> v[d].report, w[d].before <=> v[d].reachable,
           w[d].loops = v[d].loops
    PROVE  Known(u, w, E, W, H, Reaching(t, v, R))
<1>1. PICK S : S = Reaching(t, v, R)
  OBVIOUS
<1>2. /\ Shape(t, v, H) /\ Flow(t, v, H, R) /\ LoopsCounted(t, v)
      /\ TransferErrors(t, E) /\ EndErrors(t, R, E) /\ Warned(t, v, H, R, W)
  BY DEF Known
<1>3. /\ t \in Seq(Nodes) /\ Len(u) = Len(t) + 1 /\ \A i \in 1 .. Len(t) : u[i] = t[i]
      /\ u[Len(t) + 1] = node
  BY ONLY Grows(t, node, u), GrownNodes DEF Grows
<1>4. /\ Len(t) \in Nat /\ d \in Nat /\ \A k \in 1 .. d : v[k].node \in 1 .. Len(t)
  BY ONLY d = Len(v), <1>2, <1>3, ShapeTypes
<1>5. /\ R \subseteq 1 .. Len(t) /\ d \in 1 .. d
      /\ node.kind \notin Transfers /\ node.kind # "end" /\ node.kind \notin Statements
  BY <1>2, <1>4 DEF Flow, Fitting, Transfers, Statements
<1>6. SameUpTo(R, S, Len(t))
  BY ONLY <1>1, <1>4, <1>5, ReachingSame
<1>7. \A k \in 1 .. d - 1 : w[k].node = v[k].node
  BY DEF SameBelow
<1>8. Shape(u, w, H)
  BY ONLY <1>2, <1>7, d = Len(v), Grows(t, node, u), Fitting(t, v, node), node.kind = "else",
          Len(w) = d, w[d].node = Len(t) + 1, ShapeElse
<1>9. Flow(u, w, H, S)
  <2>1. Flow(u, w, H, Reaching(t, v, R))
    BY <1>2, FlowElse DEF SameBelow
  <2>2. QED
    BY <1>1, <2>1
<1>10. LoopsCounted(u, w)
  <2>1. ASSUME NEW k \in 1 .. d - 1
        PROVE  w[k].loops \in Nat /\ (w[k].loops = 0 <=> NoLoops(u, w, k))
    <3>1. d - 1 \in 0 .. Len(v)
      BY ONLY <1>4, <1>5, d = Len(v)
    <3>2. QED
      BY ONLY <1>2, <2>1, <3>1, Grows(t, node, u), SameBelow(v, w, d - 1), LoopsBelow
  <2>2. w[d].loops \in Nat /\ (w[d].loops = 0 <=> NoLoops(u, w, d))
    <3>1. t[v[d].node].kind = "if" /\ u[w[d].node].kind = "else"
      BY <1>3 DEF Fitting
    <3>2. ASSUME NEW m \in 1 .. d
          PROVE  /\ u[w[m].node].kind = "loop" <=> t[v[m].node].kind = "loop"
                 /\ u[w[m].node].kind = "function" <=> t[v[m].node].kind = "function"
      <4>1. CASE m = d
        BY <3>1, <4>1
      <4>2. CASE m \in 1 .. d - 1
        <5>1. w[m].node = v[m].node /\ v[m].node \in 1 .. Len(t)
          BY <1>4, <1>7, <4>2
        <5>2. QED
          BY <1>3, <5>1
      <4>3. QED
        BY ONLY <1>4, m \in 1 .. d, <4>1, <4>2
    <3>3. SameLoops(t, v, u, w, d)
      BY ONLY <3>2 DEF SameLoops
    <3>4. QED
      BY ONLY <1>2, <1>4, <1>5, <3>3, d = Len(v), w[d].loops = v[d].loops, LoopsStay
  <2>3. \A k \in 1 .. d : k \in 1 .. d - 1 \/ k = d
    BY ONLY <1>4
  <2>4. QED
    BY <2>1, <2>2, <2>3 DEF LoopsCounted
<1>11. TransferErrors(u, E) /\ EndErrors(u, S, E)
  BY ONLY <1>2, <1>5, <1>6, Grows(t, node, u), Fitting(t, v, node), SameErrors
<1>12. Warned(u, w, H, S, W)
  <2>1. ASSUME NEW k \in 1 .. Len(w)
        PROVE  ReportedAt(u, w, S, k, IF k < Len(w) THEN H[k + 1] ELSE Len(u) + 1)
    <3>1. CASE k \in 1 .. d - 1
      <4>1. w[k] = v[k]
        BY <3>1 DEF SameBelow
      <4>2. ReportedAt(u, w, S, k, H[k + 1])
        BY ONLY <1>2, <1>6, <3>1, <4>1, Grows(t, node, u), d = Len(v), LowerReported
      <4>3. k < Len(w)
        BY ONLY <1>4, <3>1, Len(w) = d
      <4>4. QED
        BY <4>2, <4>3
    <3>2. CASE k = d
      <4>1. ~(k < Len(w)) /\ k \in Nat
        BY ONLY <1>4, <3>2, Len(w) = d
      <4>2. w[k].node + 1 .. (Len(u) + 1) - 1 = {}
        BY <1>3, <1>4, <3>2
      <4>3. ReportedAt(u, w, S, k, Len(u) + 1)
        BY <3>2, <4>2 DEF ReportedAt
      <4>4. QED
        BY <4>1, <4>3
    <3>3. QED
      BY ONLY <1>4, <2>1, Len(w) = d, <3>1, <3>2
  <2>2. ReportedOn(u, w, H, S)
    BY ONLY <2>1 DEF ReportedOn
  <2>3. Warns(t, node, v, W, W)
    BY ONLY <1>5 DEF Warns
  <2>4. QED
    BY ONLY <1>1, <1>2, <2>2, <2>3, Grows(t, node, u), Fitting(t, v, node), WarnedGrows
<1>13. QED
  BY <1>1, <1>8, <1>9, <1>10, <1>11, <1>12 DEF Known

\* The end of a body: that of a function may be an error, and leaves the visit around it
\* as it was; that of a statement does not, and the visit goes on.
Falls(t, v, d) ==
    \/ t[v[d].node].kind \in {"if", "loop"}
    \/ t[v[d].node].kind = "block" /\ v[d].reachable
    \/ t[v[d].node].kind = "else" /\ (v[d].before \/ v[d].reachable)

Leaves(t, v, w, d) ==
    IF t[v[d].node].kind = "function" THEN SameBelow(v, w, d - 1)
    ELSE SameBelow(v, w, d - 2) /\ Advances(v, w, d - 1, Falls(t, v, d))

MayEnd(t, v, E, F) ==
    LET n == v[Len(v)].node IN
    F = IF /\ t[n].kind = "function" /\ v[Len(v)].reachable
           /\ t[n].type # "void" /\ ~Exempt(t, n)
        THEN E \cup {<<n, "no return">>} ELSE E

\* The error that the end of a body adds, in terms of where control gets to.
LEMMA EndsAdded ==
    ASSUME NEW t, Len(t) \in Nat, NEW node, node.kind = "end", NEW v, NEW H, NEW R,
           Flow(t, v, H, R), NEW S, Len(t) + 1 \in S <=> Live(v), Len(v) \in Nat \ {0},
           NEW n, n = v[Len(v)].node, NEW E, NEW F, MayEnd(t, v, E, F)
    PROVE  Added(t, node, n, S, E, F)
<1>1. PICK d : d = Len(v)
  OBVIOUS
<1>2. d \in 1 .. Len(v) /\ d \in Nat \ {0}
  BY <1>1
<1>3. t[n].kind = "function" => v[d].report
  <2>1. FlowAt(t, v, H, R, d)
    BY <1>2 DEF Flow
  <2>2. QED
    BY <1>1, <2>1 DEF FlowAt
<1>4. Live(v) <=> v[d].report /\ v[d].reachable
  BY <1>1, <1>2 DEF Live
<1> DEFINE fails == /\ t[n].kind = "function" /\ t[n].type # "void" /\ Len(t) + 1 \in S
                    /\ ~Exempt(t, n)
<1>5. fails <=> /\ t[n].kind = "function" /\ v[d].reachable
                /\ t[n].type # "void" /\ ~Exempt(t, n)
  BY ONLY <1>3, <1>4, Len(t) + 1 \in S <=> Live(v)
<1>6. F = IF fails THEN E \cup {<<n, "no return">>} ELSE E
  BY <1>1, <1>5 DEF MayEnd
<1>7. \A f : (<<f, "no return">> \in F <=> <<f, "no return">> \in E \/ (f = n /\ fails))
  <2> HIDE DEF fails
  <2>1. QED
    BY ONLY <1>6
<1>8. QED
  BY ONLY <1>7, node.kind = "end" DEF Added, Closes

\* It is none about a break or continue.
LEMMA EndTransfers ==
    ASSUME NEW t, NEW node, NEW u, Grows(t, node, u), node.kind = "end", NEW v, Len(v) > 0,
           v[Len(v)].node \in 1 .. Len(t), NEW E, NEW F, TransferErrors(t, E), MayEnd(t, v, E, F)
    PROVE  TransferErrors(u, F)
<1>1. Len(t) \in Nat /\ Len(u) = Len(t) + 1
  BY ONLY Grows(t, node, u), GrownNodes
<1>2. PICK n : n = v[Len(v)].node
  OBVIOUS
<1>3. F = E \/ F = E \cup {<<n, "no return">>}
  BY <1>2 DEF MayEnd
<1>4. /\ n \in 1 .. Len(u) /\ 1 .. Len(t) \subseteq 1 .. Len(u)
      /\ Len(t) + 1 \in Nat /\ Len(t) + 1 > Len(t)
  BY ONLY <1>1, <1>2, v[Len(v)].node \in 1 .. Len(t)
<1>5. F \subseteq (1 .. Len(u)) \X {"outside loop", "no return"}
  <2>1. E \subseteq (1 .. Len(t)) \X {"outside loop", "no return"}
    BY DEF TransferErrors
  <2>2. E \subseteq (1 .. Len(u)) \X {"outside loop", "no return"}
    BY ONLY <1>4, <2>1
  <2>3. <<n, "no return">> \in (1 .. Len(u)) \X {"outside loop", "no return"}
    BY ONLY <1>4
  <2>4. QED
    BY ONLY <1>3, <2>2, <2>3
<1>6. \A f : <<f, "outside loop">> \in F <=> <<f, "outside loop">> \in E
  <2>1. TAKE f
  <2>2. <<f, "outside loop">> # <<n, "no return">>
    OBVIOUS
  <2>3. CASE F = E
    BY ONLY <2>3
  <2>4. CASE F = E \cup {<<n, "no return">>}
    BY ONLY <2>2, <2>4
  <2>5. QED
    BY ONLY <1>3, <2>3, <2>4
<1>7. <<Len(t) + 1, "outside loop">> \notin E
  BY ONLY <1>1, <1>4, TransferErrors(t, E), NoErrorBeyond
<1>8. node.kind \notin Transfers
  BY DEF Transfers
<1>9. QED
  BY ONLY <1>5, <1>6, <1>7, <1>8, Grows(t, node, u), TransferErrors(t, E), TransferErrorsGrow

\* A body ends.
LEMMA KnownPop ==
    ASSUME NEW t, NEW node, NEW u, Grows(t, node, u), NEW v, Fitting(t, v, node),
           NEW E, NEW W, NEW H, NEW R, Known(t, v, E, W, H, R),
           node.kind = "end",
           NEW d, d = Len(v), NEW w, Len(w) = d - 1, Leaves(t, v, w, d),
           NEW F, MayEnd(t, v, E, F),
           NEW G \in Seq(Nat), Len(G) = d - 1, \A k \in 1 .. d - 1 : G[k] = H[k]
    PROVE  Known(u, w, F, W, G, Reaching(t, v, R))
<1>1. PICK S, n : S = Reaching(t, v, R) /\ n = v[d].node
  OBVIOUS
<1>2. /\ Shape(t, v, H) /\ Flow(t, v, H, R) /\ LoopsCounted(t, v)
      /\ TransferErrors(t, E) /\ EndErrors(t, R, E) /\ Warned(t, v, H, R, W)
  BY DEF Known
<1>3. /\ t \in Seq(Nodes) /\ Len(u) = Len(t) + 1 /\ \A i \in 1 .. Len(t) : u[i] = t[i]
      /\ u[Len(t) + 1] = node
  BY ONLY Grows(t, node, u), GrownNodes DEF Grows
<1>4. /\ Len(t) \in Nat /\ d \in Nat /\ \A k \in 1 .. d : v[k].node \in 1 .. Len(t)
  BY ONLY d = Len(v), <1>2, <1>3, ShapeTypes
<1>5. /\ R \subseteq 1 .. Len(t) /\ d \in 1 .. d /\ d \in Nat \ {0} /\ n \in 1 .. Len(t)
      /\ node.kind \notin Transfers /\ node.kind \notin Statements
  BY <1>1, <1>2, <1>4 DEF Flow, Fitting, Transfers, Statements
<1>6. SameUpTo(R, S, Len(t)) /\ (Len(t) + 1 \in S <=> Live(v))
  BY ONLY <1>1, <1>4, <1>5, ReachingSame
<1>7. t[n].kind \in Bodies /\ (d = 1 => t[n].kind = "function")
  <2>1. AtLevel(t, v, H, d)
    BY ONLY <1>2, <1>5, d = Len(v) DEF Shape
  <2>2. d = 1 => t[n].kind = "function"
    BY ONLY <1>1, <1>2, d = Len(v) DEF Shape
  <2>3. QED
    BY <1>1, <2>1, <2>2 DEF AtLevel
<1>8. SameBelow(v, w, d - 2)
  <2>1. CASE t[n].kind = "function"
    <3>1. SameBelow(v, w, d - 1)
      BY ONLY <1>1, <2>1, Leaves(t, v, w, d) DEF Leaves
    <3>2. \A k \in 1 .. d - 2 : k \in 1 .. d - 1
      BY ONLY <1>5
    <3>3. QED
      BY ONLY <3>1, <3>2 DEF SameBelow
  <2>2. CASE t[n].kind # "function"
    BY ONLY <1>1, <2>2, Leaves(t, v, w, d) DEF Leaves
  <2>3. QED
    BY <2>1, <2>2
<1>9. d > 1 => /\ w[d - 1].node = v[d - 1].node /\ w[d - 1].report = v[d - 1].report
               /\ w[d - 1].before = v[d - 1].before /\ w[d - 1].loops = v[d - 1].loops
               /\ w[d - 1].reachable <=>
                      v[d - 1].reachable /\ (t[n].kind = "function" \/ Falls(t, v, d))
               /\ w[d - 1].reported <=>
                      \/ v[d - 1].reported
                      \/ t[n].kind # "function" /\ ~v[d - 1].reachable
  <2>1. CASE t[n].kind = "function" /\ d > 1
    <3>1. SameBelow(v, w, d - 1)
      BY ONLY <1>1, <2>1, Leaves(t, v, w, d) DEF Leaves
    <3>2. d - 1 \in 1 .. d - 1
      BY ONLY <1>5, <2>1
    <3>3. w[d - 1] = v[d - 1]
      BY ONLY <3>1, <3>2 DEF SameBelow
    <3>4. QED
      BY ONLY <2>1, <3>3
  <2>2. CASE t[n].kind # "function"
    <3>1. Advances(v, w, d - 1, Falls(t, v, d))
      BY ONLY <1>1, <2>2, Leaves(t, v, w, d) DEF Leaves
    <3>2. QED
      BY ONLY <2>2, <3>1 DEF Advances
  <2>3. QED
    BY <2>1, <2>2
<1>10. \A k \in 1 .. d - 1 : w[k].node = v[k].node /\ w[k].loops = v[k].loops
  <2>1. \A k \in 1 .. d - 1 : k \in 1 .. d - 2 \/ (k = d - 1 /\ d > 1)
    BY ONLY <1>5
  <2>2. QED
    BY ONLY <1>8, <1>9, <2>1 DEF SameBelow
<1>11. Shape(u, w, G)
  <2>1. /\ Len(w) = Len(v) - 1 /\ Len(G) = Len(v) - 1
        /\ \A k \in 1 .. Len(v) - 1 : w[k].node = v[k].node /\ G[k] = H[k]
    BY ONLY <1>10, d = Len(v), Len(w) = d - 1, Len(G) = d - 1,
            \A k \in 1 .. d - 1 : G[k] = H[k]
  <2>2. QED
    BY ONLY <1>2, <2>1, Grows(t, node, u), Fitting(t, v, node), node.kind = "end",
            G \in Seq(Nat), ShapePop
<1>12. Flow(u, w, G, S)
  <2>2. Falls(t, v, d) <=>
            \/ t[n].kind \in {"if", "loop"}
            \/ t[n].kind = "block" /\ v[d].reachable
            \/ t[n].kind = "else" /\ (v[d].before \/ v[d].reachable)
    BY ONLY <1>1 DEF Falls
  <2>3. d > 1 => Resumes(t, v, w, d, n)
    <3>1. t[n].kind = "function" \/ Falls(t, v, d) <=>
              \/ t[n].kind \in {"function", "if", "loop"}
              \/ t[n].kind = "block" /\ v[d].reachable
              \/ t[n].kind = "else" /\ (v[d].before \/ v[d].reachable)
      <4>1. t[n].kind \in {"function", "if", "loop"} <=>
                t[n].kind = "function" \/ t[n].kind \in {"if", "loop"}
        OBVIOUS
      <4>2. QED
        BY ONLY <2>2, <4>1, Zenon
    <3>2. QED
      BY ONLY <1>9, <3>1, Zenon DEF Resumes
  <2>4. Flow(u, w, G, Reaching(t, v, R))
    BY ONLY <1>1, <1>2, <1>8, <2>3, Grows(t, node, u), Fitting(t, v, node),
            node.kind = "end", d = Len(v), Len(w) = d - 1,
            \A k \in 1 .. d - 1 : G[k] = H[k], FlowPop
  <2>5. QED
    BY <1>1, <2>4
<1>13. LoopsCounted(u, w)
  <2>1. ASSUME NEW k \in 1 .. d - 1
        PROVE  w[k].loops \in Nat /\ (w[k].loops = 0 <=> NoLoops(u, w, k))
    <3>1. \A m \in 1 .. k : m \in 1 .. d - 1 /\ m \in 1 .. d
      BY ONLY <1>5, k \in 1 .. d - 1
    <3>2. \A m \in 1 .. k : u[w[m].node] = t[v[m].node]
      BY ONLY <1>3, <1>4, <1>10, <3>1
    <3>3. SameLoops(t, v, u, w, k)
      BY ONLY <3>2 DEF SameLoops
    <3>4. k \in 1 .. Len(v) /\ Len(v) \in Nat
      BY ONLY <1>5, k \in 1 .. d - 1, d = Len(v)
    <3>5. QED
      BY ONLY <1>2, <1>10, <3>3, <3>4, k \in 1 .. d - 1, LoopsStay
  <2>2. QED
    BY ONLY <2>1, Len(w) = d - 1 DEF LoopsCounted
<1>14. TransferErrors(u, F) /\ EndErrors(u, S, F)
  <2>1. Len(v) > 0 /\ v[Len(v)].node = n /\ Len(v) \in Nat \ {0}
    BY ONLY <1>1, <1>5, d = Len(v)
  <2>2. TransferErrors(u, F)
    BY ONLY <1>2, <1>5, <2>1, Grows(t, node, u), node.kind = "end", MayEnd(t, v, E, F),
            EndTransfers
  <2>3. Added(t, node, n, S, E, F)
    BY ONLY <1>2, <1>4, <1>6, <2>1, node.kind = "end", MayEnd(t, v, E, F), EndsAdded
  <2>4. NoneBeyond(E, Len(t))
    BY ONLY <1>2, <1>4, NoErrorBeyond
  <2>5. EndErrors(u, S, F)
    BY ONLY <1>2, <1>6, <2>1, <2>3, <2>4, Grows(t, node, u), Fitting(t, v, node), EndErrorsGrow
  <2>6. QED
    BY <2>2, <2>5
<1>15. Warned(u, w, G, S, W)
  <2>1. ASSUME NEW k \in 1 .. Len(w)
        PROVE  ReportedAt(u, w, S, k, IF k < Len(w) THEN G[k + 1] ELSE Len(u) + 1)
    <3>1. CASE k \in 1 .. d - 2
      <4>1. w[k] = v[k]
        BY ONLY <1>8, <3>1 DEF SameBelow
      <4>2. k \in 1 .. Len(v) - 1 /\ k < Len(w) /\ k + 1 \in 1 .. d - 1
        BY ONLY <1>5, <3>1, d = Len(v), Len(w) = d - 1
      <4>3. ReportedAt(u, w, S, k, H[k + 1])
        BY ONLY <1>2, <1>6, <4>1, <4>2, Grows(t, node, u), LowerReported
      <4>4. G[k + 1] = H[k + 1]
        BY <4>2
      <4>5. QED
        BY ONLY <4>2, <4>3, <4>4
    <3>2. CASE k = d - 1
      <4>1. /\ k + 1 = Len(v) /\ k \in Nat \ {0} /\ ~(k < Len(w)) /\ k < Len(v)
            /\ k \in 1 .. Len(v) /\ d > 1 /\ k + 1 = d
        BY ONLY <1>5, <3>2, k \in 1 .. Len(w), Len(w) = d - 1, d = Len(v)
      <4>2. ReportedAt(t, v, R, k, H[k + 1])
        BY ONLY <1>2, <4>1 DEF Warned
      <4>3. /\ w[k].node = v[k].node /\ w[k].report = v[k].report
            /\ w[k].reported <=> \/ v[k].reported
                                 \/ t[v[k + 1].node].kind # "function" /\ ~v[k].reachable
        BY ONLY <1>1, <1>9, <3>2, <4>1
      <4>4. ReportedAt(u, w, S, k, Len(u) + 1)
        BY ONLY <1>2, <1>6, <4>1, <4>2, <4>3, Grows(t, node, u), node.kind = "end", ReportedPop
      <4>5. QED
        BY ONLY <4>1, <4>4
    <3>3. QED
      BY ONLY <1>5, <2>1, Len(w) = d - 1, <3>1, <3>2
  <2>2. ReportedOn(u, w, G, S)
    BY ONLY <2>1 DEF ReportedOn
  <2>3. Warns(t, node, v, W, W)
    BY ONLY <1>5 DEF Warns
  <2>4. QED
    BY ONLY <1>1, <1>2, <2>2, <2>3, Grows(t, node, u), Fitting(t, v, node), WarnedGrows
<1>16. QED
  BY <1>1, <1>11, <1>12, <1>13, <1>14, <1>15 DEF Known

-----------------------------------------------------------------------------
(* The invariant *)

Calls ==
    [node : Nat, loops : Nat, report : BOOLEAN, before : BOOLEAN, reachable : BOOLEAN,
     reported : BOOLEAN]

TypeOK == tree \in Seq(Nodes) /\ visits \in Seq(Calls)

FlowInv ==
    /\ TypeOK
    /\ \E H, R : Known(tree, visits, errors, warnings, H, R)

\* A sequence without its last element.
LEMMA FirstPart ==
    ASSUME NEW S, NEW s \in Seq(S), Len(s) > 0
    PROVE  /\ SubSeq(s, 1, Len(s) - 1) \in Seq(S) /\ Len(SubSeq(s, 1, Len(s) - 1)) = Len(s) - 1
           /\ \A k \in 1 .. Len(s) - 1 : SubSeq(s, 1, Len(s) - 1)[k] = s[k]
<1>1. Len(s) \in Nat /\ Len(s) - 1 \in Nat /\ 1 \in Nat
  OBVIOUS
<1>2. \A i \in 1 .. Len(s) - 1 : s[i] \in S
  BY <1>1
<1>3. PICK n \in Nat : n = Len(s) - 1
  BY <1>1
<1>4. PICK r : r = SubSeq(s, 1, n)
  OBVIOUS
<1>5. /\ r \in Seq(S) /\ Len(r) = IF 1 <= n THEN n - 1 + 1 ELSE 0
      /\ \A i \in 1 .. n - 1 + 1 : r[i] = s[1 + i - 1]
  BY <1>2, <1>3, <1>4, SubSeqProperties
<1>6. Len(r) = n /\ n - 1 + 1 = n /\ \A i \in 1 .. n : 1 + i - 1 = i
  BY <1>3, <1>5
<1>7. QED
  BY <1>3, <1>4, <1>5, <1>6

\* The calls in progress after the innermost one is replaced, entered or left.
LEMMA TopReplaced ==
    ASSUME NEW v \in Seq(Calls), v # <<>>, NEW call \in Calls
    PROVE  LET w == Append(Front(v), call) IN
           /\ Len(v) \in Nat \ {0} /\ Last(v) = v[Len(v)] /\ Last(v) \in Calls
           /\ w \in Seq(Calls) /\ Len(w) = Len(v) /\ SameBelow(v, w, Len(v) - 1)
           /\ w[Len(v)] = call
<1>1. Len(v) \in Nat \ {0} /\ Last(v) = v[Len(v)] /\ v[Len(v)] \in Calls
  BY DEF Last
<1>2. /\ Front(v) \in Seq(Calls) /\ Len(Front(v)) = Len(v) - 1
      /\ \A k \in 1 .. Len(v) - 1 : Front(v)[k] = v[k]
  BY <1>1, FirstPart DEF Front
<1>3. QED
  BY <1>1, <1>2 DEF SameBelow

\* A call starts.
LEMMA TopEntered ==
    ASSUME NEW v \in Seq(Calls), NEW call \in Calls
    PROVE  LET w == Append(v, call) IN
           /\ Len(v) \in Nat /\ w \in Seq(Calls) /\ Len(w) = Len(v) + 1
           /\ SameBelow(v, w, Len(v)) /\ w[Len(v) + 1] = call
BY DEF SameBelow

\* A call returns.
LEMMA TopLeft ==
    ASSUME NEW v \in Seq(Calls), v # <<>>
    PROVE  /\ Len(v) \in Nat \ {0} /\ Last(v) = v[Len(v)] /\ Last(v) \in Calls
           /\ Front(v) \in Seq(Calls) /\ Len(Front(v)) = Len(v) - 1
           /\ SameBelow(v, Front(v), Len(v) - 1)
<1>1. Len(v) \in Nat \ {0} /\ Last(v) = v[Len(v)] /\ v[Len(v)] \in Calls
  BY DEF Last
<1>2. /\ Front(v) \in Seq(Calls) /\ Len(Front(v)) = Len(v) - 1
      /\ \A k \in 1 .. Len(v) - 1 : Front(v)[k] = v[k]
  BY <1>1, FirstPart DEF Front
<1>3. QED
  BY <1>1, <1>2 DEF SameBelow

\* What After() changes of a call.
LEMMA AfterFields ==
    ASSUME NEW call \in Calls, NEW falls \in BOOLEAN
    PROVE  LET next == After(call, falls) IN
           /\ next \in Calls
           /\ next.node = call.node /\ next.report = call.report /\ next.before = call.before
           /\ next.loops = call.loops
           /\ next.reachable <=> call.reachable /\ falls
           /\ next.reported <=> call.reported \/ ~call.reachable
BY DEF After, Calls

\* The visit of node adds what WarnIfUnreachable says.
LEMMA StatementWarns ==
    ASSUME InBlock, WarnIfUnreachable, NEW node, node.kind \in Statements
    PROVE  Warns(tree, node, visits, warnings, warnings')
BY DEF WarnIfUnreachable, Warns, Visit, Last, Here

\* A statement without a block.
LEMMA SimpleKept ==
    ASSUME FlowInv, NEW node \in Nodes, InBlock, Arrives(node), WarnIfUnreachable,
           node.kind \in {"simple", "return"} \cup Transfers,
           visits' = Append(Front(visits), After(Visit, Passes(node, Visit.loops))),
           StraysTo(node, Visit.loops, Here, errors, errors')
    PROVE  FlowInv'
<1>1. PICK H, R : Known(tree, visits, errors, warnings, H, R)
  BY DEF FlowInv
<1>2. tree \in Seq(Nodes) /\ visits \in Seq(Calls) /\ visits # <<>>
  BY DEF FlowInv, TypeOK, InBlock
<1>3. PICK call : call = After(Visit, Passes(node, Visit.loops))
  OBVIOUS
<1>4. /\ Visit \in Calls /\ Visit = visits[Len(visits)] /\ Len(visits) \in Nat \ {0}
  BY <1>2, TopLeft DEF Visit
<1>5. Passes(node, Visit.loops) \in BOOLEAN
  BY DEF Passes
<1>6. /\ call \in Calls
      /\ call.node = Visit.node /\ call.report = Visit.report /\ call.before = Visit.before
      /\ call.loops = Visit.loops
      /\ call.reachable <=> Visit.reachable /\ Passes(node, Visit.loops)
      /\ call.reported <=> Visit.reported \/ ~Visit.reachable
  BY ONLY <1>3, <1>4, <1>5, AfterFields
<1>7. /\ visits' \in Seq(Calls) /\ Len(visits') = Len(visits)
      /\ SameBelow(visits, visits', Len(visits) - 1) /\ visits'[Len(visits)] = call
  BY <1>2, <1>3, <1>6, TopReplaced
<1>8. Advances(visits, visits', Len(visits), Passes(node, visits[Len(visits)].loops))
  BY ONLY <1>4, <1>6, <1>7 DEF Advances
<1>9. Grows(tree, node, tree') /\ tree' \in Seq(Nodes)
  BY <1>2 DEF Grows, Arrives
<1>10. Fitting(tree, visits, node)
  BY <1>4 DEF Fitting, Transfers
<1>11. node.kind \in Statements
  BY DEF Statements, Transfers
<1>12. Warns(tree, node, visits, warnings, warnings')
  BY <1>11, StatementWarns
<1>13. StraysTo(node, visits[Len(visits)].loops, Len(tree) + 1, errors, errors')
  BY <1>4 DEF Here
<1>14. Known(tree', visits', errors', warnings', H, Reaching(tree, visits, R))
  BY ONLY <1>1, <1>7, <1>8, <1>9, <1>10, <1>12, <1>13,
          node.kind \in {"simple", "return"} \cup Transfers, KnownStays
<1>15. QED
  BY <1>7, <1>9, <1>14 DEF FlowInv, TypeOK

\* A statement with a block, or a function.
LEMMA BodyKept ==
    ASSUME FlowInv, NEW node \in Nodes, Arrives(node), node.kind \in Bodies \ {"else"},
           node.kind # "function" => InBlock,
           Warns(tree, node, visits, warnings, warnings'),
           NEW loops \in Nat, NEW report \in BOOLEAN,
           visits' = Append(visits, Enter(loops, report, FALSE)),
           report <=> node.kind = "function" \/ Live(visits),
           node.kind = "function" => loops = 0,
           node.kind # "function" =>
               loops = visits[Len(visits)].loops + IF node.kind = "loop" THEN 1 ELSE 0,
           UNCHANGED errors
    PROVE  FlowInv'
<1>1. PICK H, R : Known(tree, visits, errors, warnings, H, R)
  BY DEF FlowInv
<1>2. tree \in Seq(Nodes) /\ visits \in Seq(Calls) /\ Len(tree) + 1 \in Nat
  BY DEF FlowInv, TypeOK
<1>3. PICK call : call = Enter(loops, report, FALSE)
  OBVIOUS
<1>4. /\ call \in Calls /\ call.node = Len(tree) + 1 /\ call.reachable /\ ~call.reported
      /\ call.report = report /\ call.loops = loops
  BY <1>2, <1>3 DEF Enter, Calls, Here
<1>5. /\ visits' \in Seq(Calls) /\ Len(visits') = Len(visits) + 1
      /\ SameBelow(visits, visits', Len(visits)) /\ visits'[Len(visits) + 1] = call
  BY <1>2, <1>3, <1>4, TopEntered
<1>6. Grows(tree, node, tree') /\ tree' \in Seq(Nodes)
  BY <1>2 DEF Grows, Arrives
<1>7. Fitting(tree, visits, node)
  BY <1>2 DEF Fitting, InBlock
<1>8. Known(tree', visits', errors, warnings', Append(H, Len(tree) + 1),
            Reaching(tree, visits, R))
  BY <1>1, <1>4, <1>5, <1>6, <1>7, KnownPush
<1>9. QED
  BY <1>5, <1>6, <1>8 DEF FlowInv, TypeOK

\* An else block.
LEMMA ElseKept ==
    ASSUME FlowInv, NEW node \in Nodes, CheckElse(node)
    PROVE  FlowInv'
<1>1. PICK H, R : Known(tree, visits, errors, warnings, H, R)
  BY DEF FlowInv
<1>2. tree \in Seq(Nodes) /\ visits \in Seq(Calls) /\ visits # <<>> /\ Len(tree) + 1 \in Nat
  BY DEF FlowInv, TypeOK, CheckElse, InBlock
<1>3. PICK call : call = Enter(Visit.loops, Visit.report, Visit.reachable)
  OBVIOUS
<1>4. /\ Visit \in Calls /\ Visit = visits[Len(visits)] /\ Len(visits) \in Nat \ {0}
  BY <1>2, TopLeft DEF Visit
<1>5. /\ call \in Calls /\ call.node = Len(tree) + 1 /\ call.reachable /\ ~call.reported
      /\ call.report = Visit.report /\ call.before = Visit.reachable
      /\ call.loops = Visit.loops
  BY <1>2, <1>3, <1>4 DEF Enter, Calls, Here
<1>6. /\ visits' \in Seq(Calls) /\ Len(visits') = Len(visits)
      /\ SameBelow(visits, visits', Len(visits) - 1) /\ visits'[Len(visits)] = call
  BY <1>2, <1>3, <1>5, TopReplaced DEF CheckElse
<1>7. Grows(tree, node, tree') /\ tree' \in Seq(Nodes)
  BY <1>2 DEF Grows, Arrives, CheckElse
<1>8. Fitting(tree, visits, node) /\ node.kind = "else"
  BY <1>4 DEF Fitting, CheckElse
<1>9. Known(tree', visits', errors, warnings, H, Reaching(tree, visits, R))
  BY <1>1, <1>4, <1>5, <1>6, <1>7, <1>8, KnownElse
<1>10. errors' = errors /\ warnings' = warnings
  BY DEF CheckElse
<1>11. QED
  BY <1>6, <1>7, <1>9, <1>10 DEF FlowInv, TypeOK

\* The heads of the bodies that stay open at the end of one.
LEMMA HeadsLeft ==
    ASSUME NEW t \in Seq(Nodes), NEW v, NEW H, Shape(t, v, H), Len(v) > 0
    PROVE  \E G \in Seq(Nat) : /\ Len(G) = Len(v) - 1
                               /\ \A k \in 1 .. Len(v) - 1 : G[k] = H[k]
<1>1. H \in Seq(Nat) /\ Len(H) = Len(v)
  BY DEF Shape
<1>2. PICK G : G = SubSeq(H, 1, Len(H) - 1)
  OBVIOUS
<1>3. G \in Seq(Nat) /\ Len(G) = Len(H) - 1 /\ \A k \in 1 .. Len(H) - 1 : G[k] = H[k]
  BY <1>1, <1>2, FirstPart
<1>4. QED
  BY <1>1, <1>3

\* The end of a function.
LEMMA FunctionEndKept ==
    ASSUME FlowInv, NEW node \in Nodes, FunctionEnds(node)
    PROVE  FlowInv'
<1>1. PICK H, R : Known(tree, visits, errors, warnings, H, R)
  BY DEF FlowInv
<1>0. /\ node.kind = "end" /\ InBlock /\ tree[Visit.node].kind = "function"
      /\ Arrives(node) /\ visits' = Front(visits)
  BY DEF FunctionEnds
<1>2. tree \in Seq(Nodes) /\ visits \in Seq(Calls) /\ visits # <<>>
  BY <1>0 DEF FlowInv, TypeOK, InBlock
<1>3. /\ Visit = visits[Len(visits)] /\ Len(visits) \in Nat \ {0} /\ Len(visits) > 0
      /\ visits' \in Seq(Calls) /\ Len(visits') = Len(visits) - 1
      /\ SameBelow(visits, visits', Len(visits) - 1)
  BY <1>0, <1>2, TopLeft DEF Visit
<1>4. Grows(tree, node, tree') /\ tree' \in Seq(Nodes)
  BY <1>0, <1>2 DEF Grows, Arrives
<1>5. Fitting(tree, visits, node) /\ node.kind = "end"
  BY <1>0, <1>3 DEF Fitting
<1>6. tree[visits[Len(visits)].node].kind = "function"
  BY <1>0, <1>3
<1>7. Leaves(tree, visits, visits', Len(visits))
  BY <1>3, <1>6 DEF Leaves
<1>8. Shape(tree, visits, H)
  BY <1>1 DEF Known
<1>9. Len(visits) = 1 <=> Alone(tree, visits[Len(visits)].node)
  BY <1>2, <1>3, <1>6, <1>8, TopLevel
<1>10. MainExemption(Visit.node, Len(visits) = 1) <=> Exempt(tree, visits[Len(visits)].node)
  BY <1>3, <1>9 DEF MainExemption, Exempt
<1>11. MayEnd(tree, visits, errors, errors')
  BY <1>3, <1>6, <1>10 DEF MayEnd, FunctionEnds
<1>12. PICK G \in Seq(Nat) : /\ Len(G) = Len(visits) - 1
                             /\ \A k \in 1 .. Len(visits) - 1 : G[k] = H[k]
  BY <1>2, <1>3, <1>8, HeadsLeft
<1>13. Known(tree', visits', errors', warnings, G, Reaching(tree, visits, R))
  BY ONLY <1>1, <1>3, <1>4, <1>5, <1>7, <1>11, <1>12, KnownPop
<1>14. warnings' = warnings
  BY DEF FunctionEnds
<1>15. QED
  BY <1>3, <1>4, <1>13, <1>14 DEF FlowInv, TypeOK

\* The end of a statement with a block.
LEMMA StatementEndKept ==
    ASSUME FlowInv, NEW node \in Nodes, StatementEnds(node)
    PROVE  FlowInv'
<1>1. /\ node.kind = "end" /\ InBlock /\ tree[Visit.node].kind # "function"
      /\ Arrives(node)
      /\ visits' = Append(Front(Front(visits)),
                          After(Last(Front(visits)), FallsThrough(Visit)))
      /\ errors' = errors /\ warnings' = warnings
  BY DEF StatementEnds
<1>2. PICK H, R : Known(tree, visits, errors, warnings, H, R)
  BY DEF FlowInv
<1>3. tree \in Seq(Nodes) /\ visits \in Seq(Calls) /\ visits # <<>> /\ Shape(tree, visits, H)
  BY <1>1, <1>2 DEF FlowInv, TypeOK, InBlock, Known
<1>4. PICK lower : lower = Front(visits)
  OBVIOUS
<1>5. PICK d : d = Len(visits)
  OBVIOUS
<1>6. /\ Visit = visits[d] /\ Visit \in Calls /\ d \in Nat \ {0} /\ d \in 1 .. d
      /\ lower \in Seq(Calls) /\ Len(lower) = d - 1 /\ SameBelow(visits, lower, d - 1)
  BY <1>3, <1>4, <1>5, TopLeft DEF Visit
<1>7. /\ tree[visits[1].node].kind = "function" /\ tree[Visit.node].kind \in Bodies
  <2>1. AtLevel(tree, visits, H, d)
    BY <1>3, <1>5, <1>6 DEF Shape
  <2>2. QED
    BY <1>3, <1>5, <1>6, <2>1 DEF Shape, AtLevel
<1>8. d > 1 /\ lower # <<>>
  BY <1>1, <1>6, <1>7
<1>9. FallsThrough(Visit) \in BOOLEAN /\ (FallsThrough(Visit) <=> Falls(tree, visits, d))
  <2>1. tree[Visit.node].kind \in {"if", "loop", "else", "block"}
    BY <1>1, <1>7 DEF Bodies
  <2>2. Visit.before \in BOOLEAN /\ Visit.reachable \in BOOLEAN
    BY <1>6 DEF Calls
  <2>3. CASE tree[Visit.node].kind \in {"if", "loop"}
    BY <1>6, <2>3 DEF FallsThrough, Falls
  <2>4. CASE tree[Visit.node].kind = "else"
    BY <1>6, <2>2, <2>4 DEF FallsThrough, Falls
  <2>5. CASE tree[Visit.node].kind = "block"
    BY <1>6, <2>2, <2>5 DEF FallsThrough, Falls
  <2>6. QED
    BY <2>1, <2>3, <2>4, <2>5
<1>10. PICK call : call = After(Last(lower), FallsThrough(Visit))
  OBVIOUS
<1>11. Last(lower) = visits[d - 1] /\ Last(lower) \in Calls
  <2>1. Last(lower) = lower[d - 1] /\ Last(lower) \in Calls
    BY <1>6, <1>8, TopLeft
  <2>2. d - 1 \in 1 .. d - 1
    BY <1>6, <1>8
  <2>3. QED
    BY <1>6, <2>1, <2>2 DEF SameBelow
<1>12. /\ call \in Calls
       /\ call.node = Last(lower).node /\ call.report = Last(lower).report
       /\ call.before = Last(lower).before /\ call.loops = Last(lower).loops
       /\ call.reachable <=> Last(lower).reachable /\ FallsThrough(Visit)
       /\ call.reported <=> Last(lower).reported \/ ~Last(lower).reachable
  BY ONLY <1>9, <1>10, <1>11, AfterFields
<1>13. /\ visits' \in Seq(Calls) /\ Len(visits') = d - 1
       /\ SameBelow(lower, visits', d - 2) /\ visits'[d - 1] = call
  <2>1. visits' = Append(Front(lower), call)
    BY <1>1, <1>4, <1>10
  <2>2. Len(lower) - 1 = d - 2
    BY <1>6
  <2>3. QED
    BY <1>6, <1>8, <1>12, <2>1, <2>2, TopReplaced
<1>14. SameBelow(visits, visits', d - 2)
  <2>1. \A k \in 1 .. d - 2 : k \in 1 .. d - 1
    BY <1>6
  <2>2. QED
    BY <1>6, <1>13, <2>1 DEF SameBelow
<1>15. Advances(visits, visits', d - 1, Falls(tree, visits, d))
  BY ONLY <1>9, <1>11, <1>12, <1>13 DEF Advances
<1>16. Leaves(tree, visits, visits', d)
  BY <1>1, <1>6, <1>14, <1>15 DEF Leaves
<1>17. MayEnd(tree, visits, errors, errors')
  BY <1>1, <1>5, <1>6 DEF MayEnd
<1>18. Grows(tree, node, tree') /\ tree' \in Seq(Nodes)
  BY <1>1, <1>3 DEF Grows, Arrives
<1>19. Fitting(tree, visits, node)
  BY <1>1, <1>5, <1>6 DEF Fitting
<1>20. PICK G \in Seq(Nat) : Len(G) = d - 1 /\ \A k \in 1 .. d - 1 : G[k] = H[k]
  BY <1>3, <1>5, <1>6, HeadsLeft
<1>21. Known(tree', visits', errors', warnings, G, Reaching(tree, visits, R))
  <2>1. node.kind = "end"
    BY <1>1
  <2>2. Len(visits') = d - 1
    BY <1>13
  <2>3. QED
    BY ONLY <1>2, <1>5, <1>16, <1>17, <1>18, <1>19, <1>20, <2>1, <2>2, KnownPop
<1>22. QED
  BY <1>1, <1>13, <1>18, <1>21 DEF FlowInv, TypeOK

\* The invariant holds before the first node,
LEMMA FlowInvStarts == ASSUME Init PROVE FlowInv
<1>1. /\ tree = <<>> /\ visits = <<>> /\ errors = {} /\ warnings = {}
      /\ Len(tree) = 0 /\ Len(visits) = 0 /\ TypeOK
  BY DEF Init, TypeOK
<1>2. /\ 1 .. Len(tree) = {} /\ 1 .. Len(visits) = {} /\ Len(tree) + 1 = 1
      /\ ~(Len(visits) > 0)
  BY <1>1
<1>3. PICK H : H = <<>> /\ H \in Seq(Nat) /\ Len(H) = 0
  <2>1. <<>> \in Seq(Nat) /\ Len(<<>>) = 0
    OBVIOUS
  <2>2. QED
    BY <2>1
<1>4. Shape(tree, visits, H)
  BY ONLY <1>1, <1>2, <1>3, LevelFirst DEF Shape
<1>5. Flow(tree, visits, H, {})
  <2>1. ~Live(visits) /\ ~Follows(tree, {}, 1)
    BY <1>2 DEF Live, Follows
  <2>2. QED
    BY ONLY <1>2, <2>1 DEF Flow
<1>6. LoopsCounted(tree, visits) /\ TransferErrors(tree, errors) /\ EndErrors(tree, {}, errors)
  BY ONLY <1>1, <1>2 DEF LoopsCounted, TransferErrors, EndErrors
<1>7. Warned(tree, visits, H, {}, warnings)
  BY ONLY <1>1, <1>2 DEF Warned
<1>8. Known(tree, visits, errors, warnings, H, {})
  BY <1>4, <1>5, <1>6, <1>7 DEF Known
<1>9. QED
  BY <1>1, <1>8 DEF FlowInv

\* and every node that the visit comes to keeps it.
LEMMA FlowInvKept == ASSUME FlowInv, [Next]_vars PROVE FlowInv'
<1>1. CASE UNCHANGED vars
  BY <1>1 DEF vars, FlowInv, TypeOK
<1>2. ASSUME NEW node \in Nodes, CheckSimple(node) PROVE FlowInv'
  <2>1. /\ node.kind = "simple" /\ InBlock /\ Arrives(node) /\ WarnIfUnreachable
        /\ visits' = Append(Front(visits), After(Visit, TRUE)) /\ errors' = errors
    BY <1>2 DEF CheckSimple
  <2>2. Passes(node, Visit.loops) = TRUE /\ node.kind \notin Transfers
    BY <2>1 DEF Passes, Transfers
  <2>3. StraysTo(node, Visit.loops, Here, errors, errors')
    BY <2>1, <2>2 DEF StraysTo
  <2>4. QED
    BY <2>1, <2>2, <2>3, SimpleKept
<1>3. ASSUME NEW node \in Nodes, CheckReturn(node) PROVE FlowInv'
  <2>1. /\ node.kind = "return" /\ InBlock /\ Arrives(node) /\ WarnIfUnreachable
        /\ visits' = Append(Front(visits), After(Visit, FALSE)) /\ errors' = errors
    BY <1>3 DEF CheckReturn
  <2>2. Passes(node, Visit.loops) = FALSE /\ node.kind \notin Transfers
    BY <2>1 DEF Passes, Transfers
  <2>3. StraysTo(node, Visit.loops, Here, errors, errors')
    BY <2>1, <2>2 DEF StraysTo
  <2>4. QED
    BY <2>1, <2>2, <2>3, SimpleKept
<1>4. ASSUME NEW node \in Nodes, CheckTransfer(node) PROVE FlowInv'
  <2>1. /\ node.kind \in Transfers /\ InBlock /\ Arrives(node) /\ WarnIfUnreachable
        /\ visits' = Append(Front(visits), After(Visit, Visit.loops = 0))
        /\ errors' = errors \cup IF Visit.loops = 0 THEN {<<Here, "outside loop">>} ELSE {}
    BY <1>4 DEF CheckTransfer
  <2>2. Passes(node, Visit.loops) = (Visit.loops = 0)
    BY <2>1 DEF Passes, Transfers
  <2>3. StraysTo(node, Visit.loops, Here, errors, errors')
    BY <2>1 DEF StraysTo
  <2>4. QED
    BY <2>1, <2>2, <2>3, SimpleKept
<1>5. ASSUME NEW node \in Nodes, CheckNested(node) PROVE FlowInv'
  <2>1. /\ node.kind \in {"if", "loop", "block"} /\ InBlock /\ Arrives(node)
        /\ WarnIfUnreachable /\ errors' = errors
        /\ visits' = Append(visits, Enter(Visit.loops + (IF node.kind = "loop" THEN 1 ELSE 0),
                                          Visit.report /\ Visit.reachable, FALSE))
    BY <1>5 DEF CheckNested
  <2>2. /\ Visit = visits[Len(visits)] /\ Len(visits) > 0
        /\ Visit.loops \in Nat /\ Visit.report \in BOOLEAN /\ Visit.reachable \in BOOLEAN
    <3>1. visits \in Seq(Calls) /\ visits # <<>>
      BY <2>1 DEF FlowInv, TypeOK, InBlock
    <3>2. Visit = visits[Len(visits)] /\ Visit \in Calls /\ Len(visits) \in Nat \ {0}
      BY <3>1, TopLeft DEF Visit
    <3>3. QED
      BY <3>2 DEF Calls
  <2>3. PICK loops \in Nat : loops = Visit.loops + (IF node.kind = "loop" THEN 1 ELSE 0)
    BY <2>2
  <2>4. PICK report \in BOOLEAN : report = (Visit.report /\ Visit.reachable)
    OBVIOUS
  <2>5. report <=> Live(visits)
    BY <2>2, <2>4 DEF Live
  <2>6. Warns(tree, node, visits, warnings, warnings')
    <3>1. node.kind \in Statements
      BY <2>1 DEF Statements
    <3>2. QED
      BY <2>1, <3>1, StatementWarns
  <2>7. /\ node.kind \in Bodies \ {"else"} /\ node.kind # "function"
    BY <2>1 DEF Bodies
  <2>8. visits' = Append(visits, Enter(loops, report, FALSE))
    BY ONLY <2>1, <2>3, <2>4
  <2>9. loops = visits[Len(visits)].loops + IF node.kind = "loop" THEN 1 ELSE 0
    BY ONLY <2>2, <2>3
  <2>10. QED
    BY ONLY FlowInv, <2>1, <2>5, <2>6, <2>7, <2>8, <2>9, BodyKept
<1>6. ASSUME NEW node \in Nodes, CheckFunction(node) PROVE FlowInv'
  <2>1. /\ node.kind = "function" /\ Arrives(node) /\ errors' = errors
        /\ visits' = Append(visits, Enter(0, TRUE, FALSE)) /\ warnings' = warnings
    BY <1>6 DEF CheckFunction
  <2>2. Warns(tree, node, visits, warnings, warnings')
    BY <2>1 DEF Warns, Statements, Transfers
  <2>3. node.kind \in Bodies \ {"else"} /\ 0 \in Nat /\ TRUE \in BOOLEAN
    BY <2>1 DEF Bodies
  <2>4. QED
    BY ONLY FlowInv, <2>1, <2>2, <2>3, BodyKept
<1>7. QED
  BY <1>1, <1>2, <1>3, <1>4, <1>5, <1>6, ElseKept, FunctionEndKept, StatementEndKept
     DEF Next, Check

(* Whatever the visit has come to, the stack of calls, the reports and the  *)
(* flags of the calls agree with where control gets to in the tree so far.  *)
THEOREM FlowInvHolds == Spec => []FlowInv
<1>1. Init => FlowInv
  BY FlowInvStarts
<1>2. FlowInv /\ [Next]_vars => FlowInv'
  BY FlowInvKept
<1>3. QED
  BY <1>1, <1>2, PTL DEF Spec

-----------------------------------------------------------------------------
(* A tree whose bodies have all ended *)

Whole(t) ==
    /\ t \in Seq(Nodes)
    /\ \A b \in 1 .. Len(t) : t[b].kind \in Bodies => \E c \in b + 1 .. Len(t) : Matches(t, b, c)
    /\ \A i \in 1 .. Len(t) : Past(t, i)

\* Of the functions open at node i, f is the innermost one.
Owner(t, f, i) ==
    /\ Holds(t, f, i) /\ t[f].kind = "function"
    /\ \A g \in 1 .. i - 1 : Holds(t, g, i) /\ t[g].kind = "function" => g <= f

\* A body is open up to the node that closes it.
LEMMA HoldsUntil ==
    ASSUME NEW t, NEW c \in Nat, NEW b \in 1 .. c - 1, Matches(t, b, c), NEW i \in Nat, b < i
    PROVE  Holds(t, b, i) <=> i <= c
<1>1. /\ Holds(t, b, c) /\ Shuts(t, c, b) /\ t[b].kind \in Bodies
  BY DEF Matches, Within, Holds
<1>2. b \in 1 .. i - 1 /\ b \in Nat
  OBVIOUS
<1>3. CASE i <= c
  BY ONLY <1>1, <1>2, <1>3, c \in Nat, i \in Nat, b \in 1 .. i - 1, HoldsEarlier
<1>4. CASE ~(i <= c)
  <2>1. c \in b + 1 .. i - 1
    BY <1>2, <1>4
  <2>2. QED
    BY <1>1, <1>4, <2>1 DEF Holds
<1>5. QED
  BY <1>3, <1>4

\* What closes a body: the end of a function is not an else node.
LEMMA Closer ==
    ASSUME NEW t, Whole(t), NEW c \in 1 .. Len(t), NEW b \in 1 .. c - 1, Matches(t, b, c)
    PROVE  /\ t[c].kind \in {"end", "else"} /\ t[b].kind \in Bodies
           /\ t[c].kind = "else" => t[b].kind = "if"
<1>1. t[c].kind \in {"end", "else"} /\ t[b].kind \in Bodies
  BY DEF Matches, Within, Holds, Shuts
<1>2. PICK a \in 1 .. c - 1 : Matches(t, a, c) /\ (t[c].kind = "else" => t[a].kind = "if")
  BY <1>1 DEF Whole, Past
<1>3. a = b
  BY <1>2, MatchUnique
<1>4. QED
  BY <1>1, <1>2, <1>3

\* Bodies are nested.
LEMMA Nested ==
    ASSUME NEW t, NEW m \in Nat, NEW c \in Nat, NEW a \in 1 .. m - 1, NEW b \in 1 .. c - 1,
           Matches(t, a, m), Matches(t, b, c), a < b, b < m
    PROVE  c < m
<1>1. a # b /\ b \in 1 .. m - 1 /\ a \in Nat /\ b \in Nat
  OBVIOUS
<1>2. c # m
  BY <1>1, MatchUnique
<1>3. CASE m < c
  <2>1. Holds(t, b, m)
    <3>1. m <= c
      BY <1>3
    <3>2. QED
      BY ONLY <3>1, m \in Nat, c \in Nat, b \in 1 .. c - 1, Matches(t, b, c), b < m, HoldsUntil
  <2>2. b <= a
    BY <1>1, <2>1 DEF Matches, Within
  <2>3. QED
    BY <1>1, <2>2
<1>4. QED
  BY <1>2, <1>3

\* The functions around a body are around what is in it and what follows it.
LEMMA SameFunctions ==
    ASSUME NEW t, Whole(t), NEW c \in 1 .. Len(t), NEW b \in 1 .. c - 1, Matches(t, b, c),
           NEW i \in b + 1 .. c + 1, NEW g \in 1 .. b - 1, t[g].kind = "function"
    PROVE  Holds(t, g, i) <=> Holds(t, g, b)
<1>1. Len(t) \in Nat /\ c \in Nat /\ b \in Nat /\ i \in Nat /\ g \in Nat /\ g \in 1 .. Len(t)
  BY NodeFacts DEF Whole
<1>2. PICK m \in g + 1 .. Len(t) : Matches(t, g, m)
  BY <1>1 DEF Whole, Bodies
<1>3. m \in Nat /\ g \in 1 .. m - 1 /\ m \in 1 .. Len(t) /\ g < b /\ g < i
  BY <1>1, <1>2
<1>4. /\ Holds(t, g, i) <=> i <= m
      /\ Holds(t, g, b) <=> b <= m
  BY ONLY <1>1, <1>2, <1>3, HoldsUntil
<1>5. t[m].kind = "end" /\ t[b].kind # "end"
  <2>1. t[m].kind \in {"end", "else"} /\ (t[m].kind = "else" => t[g].kind = "if")
    BY <1>2, <1>3, Closer
  <2>2. t[b].kind \in Bodies
    BY Closer
  <2>3. QED
    BY <2>1, <2>2 DEF Bodies
<1>6. b # m
  BY <1>5
<1>7. b < m => c < m
  BY <1>1, <1>2, <1>3, Nested
<1>8. QED
  BY <1>1, <1>3, <1>4, <1>6, <1>7

\* The function around a node is that around, or is, the innermost body.
LEMMA OwnerWithin ==
    ASSUME NEW t, Whole(t), NEW i \in 1 .. Len(t) + 1, NEW b \in 1 .. i - 1, Within(t, b, i),
           NEW f
    PROVE  /\ t[b].kind = "function" => (Owner(t, f, i) <=> f = b)
           /\ t[b].kind # "function" => (Owner(t, f, i) <=> Owner(t, f, b))
<1>1. /\ Len(t) \in Nat /\ i \in Nat /\ b \in Nat /\ b \in 1 .. Len(t)
      /\ Holds(t, b, i) /\ t[b].kind \in Bodies
      /\ \A a \in 1 .. i - 1 : Holds(t, a, i) => a <= b
  BY NodeFacts DEF Whole, Within, Holds
<1>2. PICK c \in b + 1 .. Len(t) : Matches(t, b, c)
  BY <1>1 DEF Whole
<1>3. /\ c \in 1 .. Len(t) /\ c \in Nat /\ b \in 1 .. c - 1 /\ b < i
  BY <1>1, <1>2
<1>4. i \in b + 1 .. c + 1
  <2>1. i <= c
    BY ONLY <1>1, <1>2, <1>3, HoldsUntil
  <2>2. QED
    BY <1>1, <1>3, <2>1
<1>5. ASSUME NEW g \in 1 .. b - 1, t[g].kind = "function"
      PROVE  Holds(t, g, i) <=> Holds(t, g, b)
  BY <1>2, <1>3, <1>4, <1>5, SameFunctions
<1>6. CASE t[b].kind = "function"
  <2>1. Owner(t, b, i)
    BY <1>1, <1>6 DEF Owner
  <2>2. ASSUME Owner(t, f, i) PROVE f = b
    <3>1. f \in 1 .. i - 1 /\ f <= b /\ b <= f
      BY <1>1, <1>6, <2>2 DEF Owner, Holds
    <3>2. QED
      BY <1>1, <3>1
  <2>3. QED
    BY <1>6, <2>1, <2>2
<1>7. CASE t[b].kind # "function"
  <2>1. ASSUME NEW g, t[g].kind = "function"
        PROVE  Holds(t, g, i) <=> Holds(t, g, b)
    <3>1. Holds(t, g, i) => g \in 1 .. b - 1
      <4>1. SUFFICES ASSUME Holds(t, g, i) PROVE g \in 1 .. b - 1
        OBVIOUS
      <4>2. g \in 1 .. i - 1 /\ g <= b /\ g # b
        BY <1>1, <1>7, <2>1, <4>1 DEF Holds
      <4>3. QED
        BY <1>1, <4>2
    <3>2. Holds(t, g, b) => g \in 1 .. b - 1
      BY DEF Holds
    <3>3. QED
      BY <1>5, <2>1, <3>1, <3>2
  <2>2. \A g \in 1 .. b - 1 : g \in 1 .. i - 1
    BY <1>1
  <2>3. \A g : Holds(t, g, i) => g \in 1 .. i - 1
    BY DEF Holds
  <2>4. \A g : Holds(t, g, b) => g \in 1 .. b - 1
    BY DEF Holds
  <2>5. QED
    BY <1>7, <2>1, <2>2, <2>3, <2>4 DEF Owner
<1>8. QED
  BY <1>6, <1>7

\* Behind the end of a body the function is that around the body.
LEMMA OwnerPast ==
    ASSUME NEW t, Whole(t), NEW c \in 1 .. Len(t), NEW b \in 1 .. c - 1, Matches(t, b, c), NEW f
    PROVE  Owner(t, f, c + 1) <=> Owner(t, f, b)
<1>1. /\ Len(t) \in Nat /\ c \in Nat \ {0} /\ b \in Nat /\ c + 1 \in b + 1 .. c + 1
      /\ (c + 1) - 1 = c
  BY NodeFacts DEF Whole
<1>2. t[c].kind \in {"end", "else"} /\ Within(t, b, c) /\ Shuts(t, c, b)
  BY Closer DEF Matches
<1>3. ASSUME NEW g, t[g].kind = "function"
      PROVE  Holds(t, g, c + 1) <=> Holds(t, g, b)
  <2>1. ASSUME Holds(t, g, c + 1) PROVE g \in 1 .. b - 1
    <3>1. g \in 1 .. c /\ g # c
      BY <1>1, <1>2, <1>3, <2>1 DEF Holds
    <3>2. Holds(t, g, c) /\ ~Shuts(t, c, g)
      BY <1>1, <2>1, <3>1, HoldsNext
    <3>3. g \in 1 .. c - 1 /\ g <= b /\ g # b
      BY <1>1, <1>2, <3>1, <3>2 DEF Within
    <3>4. QED
      BY <1>1, <3>3
  <2>2. Holds(t, g, b) => g \in 1 .. b - 1
    BY DEF Holds
  <2>3. QED
    BY <1>1, <1>3, <2>1, <2>2, SameFunctions
<1>4. \A g : Holds(t, g, c + 1) => g \in 1 .. (c + 1) - 1
  BY DEF Holds
<1>5. \A g : Holds(t, g, b) => g \in 1 .. b - 1
  BY DEF Holds
<1>6. \A g \in 1 .. b - 1 : g \in 1 .. (c + 1) - 1
  BY <1>1
<1>7. QED
  BY <1>3, <1>4, <1>5, <1>6 DEF Owner

\* Nodes that neither start a function nor end a body have the same function as the next.
LEMMA OwnerNext ==
    ASSUME NEW t, NEW p \in Nat \ {0}, t[p].kind \notin {"function", "end", "else"}, NEW f
    PROVE  Owner(t, f, p + 1) <=> Owner(t, f, p)
<1>1. ASSUME NEW g, t[g].kind = "function"
      PROVE  Holds(t, g, p + 1) <=> Holds(t, g, p)
  <2>1. g # p /\ ~Shuts(t, p, g)
    BY <1>1 DEF Shuts
  <2>2. Holds(t, g, p + 1) => g \in 1 .. p
    BY DEF Holds
  <2>3. Holds(t, g, p) => g \in 1 .. p
    BY DEF Holds
  <2>4. QED
    BY <2>1, <2>2, <2>3, HoldsNext
<1>2. \A g : Holds(t, g, p + 1) => g \in 1 .. (p + 1) - 1
  BY DEF Holds
<1>3. \A g : Holds(t, g, p) => g \in 1 .. p - 1
  BY DEF Holds
<1>4. \A g \in 1 .. p - 1 : g \in 1 .. (p + 1) - 1
  OBVIOUS
<1>5. QED
  BY <1>1, <1>2, <1>3, <1>4 DEF Owner

\* The first node of a function belongs to it.
LEMMA OwnerFirst ==
    ASSUME NEW t, NEW p \in Nat \ {0}, t[p].kind = "function", NEW f
    PROVE  Owner(t, f, p + 1) <=> f = p
<1>1. Holds(t, p, p + 1) /\ p \in 1 .. (p + 1) - 1
  <2>1. p \in 1 .. p /\ t[p].kind \in Bodies
    BY DEF Bodies
  <2>2. QED
    BY <2>1, HoldsNext
<1>2. \A g \in 1 .. (p + 1) - 1 : g <= p /\ (p <= g => g = p)
  OBVIOUS
<1>3. Owner(t, f, p + 1) => f \in 1 .. (p + 1) - 1
  BY DEF Owner, Holds
<1>4. QED
  BY <1>1, <1>2, <1>3 DEF Owner

\* Every node of a function but the function itself is in the tree.
LEMMA OwnedInside ==
    ASSUME NEW t, Whole(t), NEW i \in Nat, NEW b, i <= Len(t) + 1, Holds(t, b, i)
    PROVE  i \in 1 .. Len(t)
<1>1. Len(t) \in Nat /\ b \in 1 .. i - 1 /\ b \in 1 .. Len(t) /\ t[b].kind \in Bodies /\ b < i
  BY NodeFacts DEF Whole, Holds
<1>2. PICK c \in b + 1 .. Len(t) : Matches(t, b, c)
  BY <1>1 DEF Whole
<1>3. c \in Nat /\ b \in 1 .. c - 1
  BY <1>1, <1>2
<1>4. i <= c
  BY ONLY i \in Nat, <1>1, <1>2, <1>3, Holds(t, b, i), HoldsUntil
<1>5. QED
  BY <1>1, <1>2, <1>4

-----------------------------------------------------------------------------
(* What the definitions say of a whole tree *)

\* Induction over the natural numbers.
LEMMA NatInd ==
    ASSUME NEW T, 0 \in T, \A n \in Nat : n \in T => n + 1 \in T
    PROVE  Nat \subseteq T
<1> SUFFICES ASSUME Nat \ T # {} PROVE FALSE
  OBVIOUS
<1> DEFINE below == {pair \in Nat \X Nat : pair[1] < pair[2]}
<1>1. IsWellFoundedOn(below, Nat)
  BY NatLessThanWellFounded DEF OpToRel
<1> HIDE DEF below
<1>2. PICK n \in Nat \ T : \A m \in Nat \ T : <<m, n>> \notin below
  <2>1. Nat \ T \subseteq Nat
    OBVIOUS
  <2>2. QED
    BY <1>1, <2>1, WFMin
<1>3. n # 0 /\ n - 1 \in Nat
  BY <1>2
<1>4. <<n - 1, n>> \in below
  BY <1>3 DEF below
<1>5. n - 1 \in T
  BY <1>2, <1>3, <1>4
<1>6. QED
  BY <1>2, <1>3, <1>5

\* A set of numbers up to n has a greatest one.
LEMMA Greatest ==
    ASSUME NEW n \in Nat, NEW S, S \subseteq 1 .. n, S # {}
    PROVE  \E m \in S : \A k \in S : k <= m
<1> DEFINE T == {i \in Nat : (\E k \in S : k <= i) => \E m \in S : m <= i
                                   /\ \A k \in S : k <= i => k <= m}
<1>1. 0 \in T
  OBVIOUS
<1>2. ASSUME NEW i \in Nat, i \in T PROVE i + 1 \in T
  <2>1. CASE i + 1 \in S
    BY <2>1
  <2>2. CASE i + 1 \notin S
    <3>1. \A k \in S : k <= i + 1 <=> k <= i
      BY <2>2
    <3>2. QED
      BY <1>2, <3>1
  <2>3. QED
    BY <2>1, <2>2
<1>3. \A i \in Nat : i \in T => i + 1 \in T
  BY <1>2
<1> HIDE DEF T
<1>4. n \in T
  BY <1>1, <1>3, NatInd
<1>5. (\E k \in S : k <= n) => \E m \in S : m <= n /\ \A k \in S : k <= n => k <= m
  BY <1>4 DEF T
<1>6. \A k \in S : k <= n
  OBVIOUS
<1>7. QED
  BY <1>5, <1>6

\* Close is the node that matches.
LEMMA CloseIs ==
    ASSUME tree \in Seq(Nodes), NEW b \in 1 .. Len(tree), NEW c \in b + 1 .. Len(tree),
           Matches(tree, b, c)
    PROVE  Close(b) = c
<1>1. Len(tree) \in Nat
  OBVIOUS
<1>2. PICK inner : inner = InnerIn(tree, b)
  OBVIOUS
<1>3. \A j : Level(j) = LevelIn(tree, j)
  BY DEF Level, LevelIn, Rising, Ending
<1>4. inner = IF tree[b].kind = "else" THEN Level(b) ELSE Level(b) + 1
  BY <1>2, <1>3 DEF InnerIn
<1>5. /\ tree[c].kind \in {"end", "else"} /\ Level(c) = inner
      /\ \A k \in b + 1 .. c - 1 : tree[k].kind \in {"end", "else"} => Level(k) # inner
  BY <1>2, <1>3 DEF Matches, Within, Holds, Shuts
<1>6. ASSUME NEW j \in b + 1 .. Len(tree),
             tree[j].kind \in {"end", "else"}, Level(j) = inner,
             \A k \in b + 1 .. j - 1 : tree[k].kind \in {"end", "else"} => Level(k) # inner
      PROVE  j = c
  <2>1. ~(j \in b + 1 .. c - 1) /\ ~(c \in b + 1 .. j - 1)
    BY ONLY <1>5, <1>6
  <2>2. QED
    BY ONLY <1>1, <2>1, b \in 1 .. Len(tree), c \in b + 1 .. Len(tree), j \in b + 1 .. Len(tree)
<1> DEFINE closes(j) ==
        /\ tree[j].kind \in {"end", "else"} /\ Level(j) = inner
        /\ \A k \in b + 1 .. j - 1 : tree[k].kind \in {"end", "else"} => Level(k) # inner
<1>7. closes(c) /\ \A j \in b + 1 .. Len(tree) : closes(j) => j = c
  BY <1>5, <1>6
<1>8. Close(b) = CHOOSE j \in b + 1 .. Len(tree) : closes(j)
  BY <1>4 DEF Close
<1> HIDE DEF closes
<1>9. QED
  BY <1>7, <1>8

\* A node that closes nothing is between the ends of the bodies that are open there.
LEMMA EnclosesIs ==
    ASSUME Whole(tree), NEW j \in 1 .. Len(tree), tree[j].kind \notin {"end", "else"},
           NEW i \in 1 .. j - 1
    PROVE  Encloses(i, j) <=> Holds(tree, i, j)
<1>1. /\ Len(tree) \in Nat /\ i \in Nat /\ j \in Nat /\ i < j /\ i \in 1 .. Len(tree)
      /\ tree \in Seq(Nodes)
  BY NodeFacts DEF Whole
<1>2. CASE tree[i].kind \notin Bodies
  BY <1>2 DEF Encloses, Holds
<1>3. CASE tree[i].kind \in Bodies
  <2>1. PICK c \in i + 1 .. Len(tree) : Matches(tree, i, c)
    BY <1>1, <1>3 DEF Whole
  <2>2. Close(i) = c
    BY <1>1, <2>1, CloseIs
  <2>3. c \in Nat /\ i \in 1 .. c - 1 /\ c \in 1 .. Len(tree)
    BY <1>1, <2>1
  <2>4. Holds(tree, i, j) <=> j <= c
    BY ONLY <1>1, <2>1, <2>3, HoldsUntil
  <2>5. j # c
    BY <2>1, <2>3, Closer
  <2>6. QED
    BY <1>1, <1>3, <2>2, <2>3, <2>4, <2>5 DEF Encloses
<1>4. QED
  BY <1>2, <1>3

\* The nearest bodies of a kind around a node that closes nothing.
LEMMA NearestIs ==
    ASSUME Whole(tree), NEW j \in 1 .. Len(tree), tree[j].kind \notin {"end", "else"}, NEW kinds
    PROVE  /\ Nearest(kinds, j) = {i \in 1 .. j - 1 : tree[i].kind \in kinds /\ Holds(tree, i, j)}
           /\ \A m \in Nearest(kinds, j) :
                 (\A k \in Nearest(kinds, j) : k <= m) => Innermost(kinds, j) = m
           /\ Nearest(kinds, j) # {} =>
                 /\ Innermost(kinds, j) \in Nearest(kinds, j)
                 /\ \A k \in Nearest(kinds, j) : k <= Innermost(kinds, j)
<1>1. Nearest(kinds, j) = {i \in 1 .. j - 1 : tree[i].kind \in kinds /\ Holds(tree, i, j)}
  BY EnclosesIs DEF Nearest
<1>2. PICK near : near = Nearest(kinds, j)
  OBVIOUS
<1>3. Len(tree) \in Nat /\ near \subseteq 1 .. j - 1 /\ j - 1 \in Nat
  BY <1>1, <1>2, NodeFacts DEF Whole
<1>4. Innermost(kinds, j) = CHOOSE i \in near : \A k \in near : k <= i
  BY <1>2 DEF Innermost
<1>5. ASSUME NEW m \in near, \A k \in near : k <= m PROVE Innermost(kinds, j) = m
  <2>1. \A i \in near : (\A k \in near : k <= i) => i = m
    BY <1>3, <1>5
  <2>2. QED
    BY ONLY <1>4, <1>5, <2>1
<1>6. ASSUME near # {} PROVE \E m \in near : \A k \in near : k <= m
  BY ONLY <1>3, <1>6, Greatest
<1>7. QED
  BY <1>1, <1>2, <1>5, <1>6

\* FunctionOf is the innermost function around a node.
LEMMA FunctionOfIs ==
    ASSUME Whole(tree), NEW j \in 1 .. Len(tree), tree[j].kind \notin {"end", "else", "function"}
    PROVE  \A f : Owner(tree, f, j) <=> FunctionOf(j) = f
<1>1. PICK near : near = Nearest({"function"}, j)
  OBVIOUS
<1>2. near = {i \in 1 .. j - 1 : tree[i].kind = "function" /\ Holds(tree, i, j)}
  BY <1>1, NearestIs
<1>3. PICK f \in 1 .. j - 1 : Holds(tree, f, j) /\ tree[f].kind = "function"
  BY DEF Whole, Past
<1>4. near # {}
  BY <1>2, <1>3
<1>5. FunctionOf(j) \in near /\ \A k \in near : k <= FunctionOf(j)
  BY <1>1, <1>4, NearestIs DEF FunctionOf
<1>6. \A m \in near : (\A k \in near : k <= m) => FunctionOf(j) = m
  BY <1>1, NearestIs DEF FunctionOf
<1>7. \A g : Owner(tree, g, j) <=> g \in near /\ \A k \in near : k <= g
  <2>1. \A g : Holds(tree, g, j) => g \in 1 .. j - 1
    BY DEF Holds
  <2>2. QED
    BY <1>2, <2>1 DEF Owner
<1>8. QED
  BY <1>5, <1>6, <1>7

\* BlockOf is the innermost body around a node.
LEMMA BlockOfIs ==
    ASSUME Whole(tree), NEW j \in 1 .. Len(tree), tree[j].kind \notin {"end", "else", "function"}
    PROVE  \A b \in 1 .. j - 1 : Within(tree, b, j) <=> BlockOf(j) = b
<1>1. PICK near : near = Nearest(Bodies, j)
  OBVIOUS
<1>2. near = {i \in 1 .. j - 1 : tree[i].kind \in Bodies /\ Holds(tree, i, j)}
  BY <1>1, NearestIs
<1>3. PICK f \in 1 .. j - 1 : Holds(tree, f, j) /\ tree[f].kind = "function"
  BY DEF Whole, Past
<1>4. near # {}
  BY <1>2, <1>3 DEF Bodies
<1>5. BlockOf(j) \in near /\ \A k \in near : k <= BlockOf(j)
  BY <1>1, <1>4, NearestIs DEF BlockOf
<1>6. \A m \in near : (\A k \in near : k <= m) => BlockOf(j) = m
  BY <1>1, NearestIs DEF BlockOf
<1>7. \A b \in 1 .. j - 1 : Within(tree, b, j) <=> b \in near /\ \A k \in near : k <= b
  <2>1. \A a \in 1 .. j - 1 : Holds(tree, a, j) <=> a \in near
    BY <1>2 DEF Holds
  <2>2. \A a \in near : a \in 1 .. j - 1
    BY <1>2
  <2>3. QED
    BY ONLY <2>1, <2>2 DEF Within
<1>8. QED
  BY <1>5, <1>6, <1>7

\* LoopsOf are the loops between a node and its function.
LEMMA LoopsOfIs ==
    ASSUME Whole(tree), NEW j \in 1 .. Len(tree), tree[j].kind \notin {"end", "else", "function"}
    PROVE  /\ LoopsOf(j) = {} <=> Outside(tree, j)
           /\ LoopsOf(j) # {} =>
                 LET l == Innermost({"loop"}, j) IN
                 /\ l \in 1 .. j - 1 /\ Holds(tree, l, j) /\ tree[l].kind = "loop"
                 /\ FunctionOf(j) < l
<1>1. PICK f : f = FunctionOf(j)
  OBVIOUS
<1>2. PICK near : near = Nearest({"loop"}, j)
  OBVIOUS
<1>3. near = {i \in 1 .. j - 1 : tree[i].kind = "loop" /\ Holds(tree, i, j)}
  BY <1>2, NearestIs
<1>4. LoopsOf(j) = {i \in near : i > f}
  BY <1>1, <1>2 DEF LoopsOf
<1>5. /\ Holds(tree, f, j) /\ tree[f].kind = "function" /\ f \in 1 .. j - 1 /\ f \in Nat
      /\ \A g \in 1 .. j - 1 : Holds(tree, g, j) /\ tree[g].kind = "function" => g <= f
      /\ j \in Nat
  <2>1. Owner(tree, f, j)
    BY <1>1, FunctionOfIs
  <2>2. Len(tree) \in Nat /\ j \in Nat
    BY NodeFacts DEF Whole
  <2>3. QED
    BY <2>1, <2>2 DEF Owner, Holds
<1>6. ASSUME LoopsOf(j) = {} PROVE Outside(tree, j)
  <2>1. ASSUME NEW l \in 1 .. j - 1, Holds(tree, l, j), tree[l].kind = "loop"
        PROVE  \E g \in l + 1 .. j - 1 : Holds(tree, g, j) /\ tree[g].kind = "function"
    <3>1. l \in near /\ ~(l > f) /\ l # f
      BY <1>3, <1>4, <1>5, <1>6, <2>1
    <3>2. f \in l + 1 .. j - 1
      BY <1>5, <3>1
    <3>3. QED
      BY <1>5, <3>2
  <2>2. QED
    BY <2>1 DEF Outside
<1>7. ASSUME LoopsOf(j) # {}
      PROVE  LET l == Innermost({"loop"}, j) IN
             /\ l \in 1 .. j - 1 /\ Holds(tree, l, j) /\ tree[l].kind = "loop"
             /\ f < l
  <2>1. PICK i \in near : i > f
    BY <1>4, <1>7
  <2>2. PICK l : l = Innermost({"loop"}, j)
    OBVIOUS
  <2>3. l \in near /\ i <= l
    BY <1>2, <2>1, <2>2, NearestIs
  <2>4. l \in 1 .. j - 1 /\ i \in 1 .. j - 1
    BY <1>3, <2>3
  <2>5. f < l
    BY <1>5, <2>1, <2>3, <2>4
  <2>6. QED
    BY <1>3, <2>2, <2>3, <2>5
<1>8. ASSUME LoopsOf(j) # {} PROVE ~Outside(tree, j)
  <2>1. PICK l : /\ l \in 1 .. j - 1 /\ Holds(tree, l, j) /\ tree[l].kind = "loop"
                 /\ f < l
    BY <1>7, <1>8
  <2>2. ASSUME NEW g \in l + 1 .. j - 1, Holds(tree, g, j), tree[g].kind = "function"
        PROVE  FALSE
    <3>1. g \in 1 .. j - 1
      BY <1>5, <2>1, <2>2
    <3>2. g <= f
      BY <1>5, <2>2, <3>1
    <3>3. QED
      BY <1>5, <2>1, <2>2, <3>2
  <2>3. QED
    BY <2>1, <2>2 DEF Outside
<1>9. QED
  BY <1>1, <1>6, <1>7, <1>8

\* EntryPoint is the function that MainExemption exempts.
LEMMA EntryPointIs ==
    ASSUME Whole(tree), NEW f \in 1 .. Len(tree), tree[f].kind = "function"
    PROVE  EntryPoint(f) <=> Exempt(tree, f)
<1>1. Len(tree) \in Nat /\ f \in Nat
  BY NodeFacts DEF Whole
<1>2. ASSUME NEW g \in Functions, Encloses(g, f), Alone(tree, f) PROVE FALSE
  <2>1. g \in 1 .. Len(tree) /\ g < f
    BY <1>2 DEF Functions, Encloses, Whole
  <2>2. g \in 1 .. f - 1
    BY <1>1, <2>1
  <2>3. Holds(tree, g, f)
    BY <1>2, <2>2, EnclosesIs
  <2>4. QED
    BY <1>2, <2>2, <2>3 DEF Alone
<1>3. ASSUME NEW a \in 1 .. f - 1, Holds(tree, a, f), \A g \in Functions : ~Encloses(g, f)
      PROVE  FALSE
  <2>1. a \in 1 .. Len(tree) /\ tree[a].kind \in Bodies /\ a \in Nat /\ a < f
    BY <1>1, <1>3 DEF Holds
  <2>2. \E g \in 1 .. f - 1 : tree[g].kind = "function" /\ Holds(tree, g, f)
    <3>1. CASE tree[a].kind = "function"
      BY <1>3, <3>1
    <3>2. CASE tree[a].kind # "function"
      <4>1. PICK g \in 1 .. a - 1 : Holds(tree, g, a) /\ tree[g].kind = "function"
        BY <2>1, <3>2 DEF Whole, Past
      <4>2. PICK c \in a + 1 .. Len(tree) : Matches(tree, a, c)
        BY <2>1 DEF Whole
      <4>3. c \in Nat /\ c \in 1 .. Len(tree) /\ a \in 1 .. c - 1
        BY <1>1, <2>1, <4>2
      <4>4. f \in a + 1 .. c + 1
        <5>1. f <= c
          BY ONLY <1>1, <1>3, <2>1, <4>2, <4>3, HoldsUntil
        <5>2. QED
          BY <1>1, <2>1, <4>3, <5>1
      <4>5. Holds(tree, g, f)
        BY <4>1, <4>2, <4>3, <4>4, SameFunctions
      <4>6. g \in 1 .. f - 1
        BY <1>1, <2>1
      <4>7. QED
        BY <4>1, <4>5, <4>6
    <3>3. QED
      BY <3>1, <3>2
  <2>3. PICK g \in 1 .. f - 1 : tree[g].kind = "function" /\ Holds(tree, g, f)
    BY <2>2
  <2>4. g \in Functions
    BY <1>1, <2>3 DEF Functions, Whole
  <2>5. Encloses(g, f)
    BY <2>3, EnclosesIs
  <2>6. QED
    BY <1>3, <2>4, <2>5
<1>4. QED
  BY <1>2, <1>3 DEF EntryPoint, Exempt, Alone

-----------------------------------------------------------------------------
(* The executions of a function *)

Flows(t, R) == R \subseteq 1 .. Len(t) /\ \A i \in 1 .. Len(t) : i \in R <=> Follows(t, R, i)

\* A body that an execution gets to before it gets to what is in it.
Entered(t, b, i) == Holds(t, b, i) /\ t[b].kind \in {"if", "loop", "block"}

\* Node p precedes i in an execution of function f, and is not outside a body around i.
Precedes(t, R, f, p, i) ==
    /\ p \in R /\ p \in 1 .. i - 1 /\ Owner(t, f, p)
    /\ \A b \in 1 .. i - 1 : Entered(t, b, i) => b = p \/ Entered(t, b, p)

\* The steps from a body, and from its end.
LEMMA StepsBehind ==
    ASSUME Whole(tree), NEW c \in 1 .. Len(tree), NEW b \in 1 .. c - 1, Matches(tree, b, c)
    PROVE  /\ tree[b].kind \in {"function", "if", "loop", "else"} => c + 1 \in Steps(b)
           /\ tree[b].kind \in {"if", "else", "block"} /\ tree[c].kind = "end" =>
                 Steps(c) = {c + 1}
           /\ tree[b].kind = "loop" => Steps(c) = {b}
           /\ tree[b].kind = "function" => Steps(c) = {}
<1>1. /\ Len(tree) \in Nat /\ b \in Nat /\ c \in Nat /\ b \in 1 .. Len(tree)
      /\ c \in b + 1 .. Len(tree) /\ tree \in Seq(Nodes)
  BY NodeFacts DEF Whole
<1>2. Close(b) = c
  BY <1>1, CloseIs
<1>3. /\ tree[c].kind \in {"end", "else"} /\ tree[b].kind \in Bodies
      /\ tree[c].kind = "else" => tree[b].kind = "if"
  BY Closer
<1>4. ASSUME NEW j \in 1 .. c - 1, tree[j].kind \in Bodies, Close(j) = c PROVE j = b
  <2>1. j \in 1 .. Len(tree)
    BY <1>1
  <2>2. PICK e \in j + 1 .. Len(tree) : Matches(tree, j, e)
    BY <1>4, <2>1 DEF Whole
  <2>3. e = c
    BY <1>1, <1>4, <2>1, <2>2, CloseIs
  <2>4. QED
    BY <2>2, <2>3, MatchUnique
<1>5. (CHOOSE j \in 1 .. c - 1 : tree[j].kind \in Bodies /\ Close(j) = c) = b
  BY ONLY <1>2, <1>3, <1>4, b \in 1 .. c - 1
<1>6. tree[b].kind \in {"function", "if", "loop", "else"} => c + 1 \in Steps(b)
  <2>1. CASE tree[b].kind = "function"
    BY <1>2, <2>1 DEF Steps, Transfers
  <2>2. CASE tree[b].kind \in {"if", "loop"}
    BY <1>2, <2>2 DEF Steps, Transfers
  <2>3. CASE tree[b].kind = "else"
    BY <1>2, <2>3 DEF Steps, Transfers
  <2>4. QED
    BY <2>1, <2>2, <2>3
<1>7. tree[c].kind = "end" =>
          Steps(c) = CASE tree[b].kind = "function" -> {}
                       [] tree[b].kind = "loop" -> {b}
                       [] OTHER -> {c + 1}
  BY <1>5 DEF Steps, Transfers
<1>8. QED
  BY <1>3, <1>6, <1>7

\* Every node that control gets to but the first of a function has a predecessor before it.
LEMMA Preceded ==
    ASSUME Whole(tree), NEW R, Flows(tree, R), NEW i \in R, NEW f, Owner(tree, f, i), i # f + 1
    PROVE  \E p \in 1 .. i - 1 : Precedes(tree, R, f, p, i) /\ i \in Steps(p)
<1>1. /\ Len(tree) \in Nat /\ i \in 1 .. Len(tree) /\ i \in Nat /\ Follows(tree, R, i)
      /\ \A q \in 1 .. Len(tree) : tree[q].kind \in Bodies \cup Statements \cup {"end"}
  BY NodeFacts DEF Whole, Flows
<1>2. PICK p : p = i - 1
  OBVIOUS
<1>3. /\ p \in Nat \ {0} /\ i = p + 1 /\ p \in 1 .. i - 1 /\ p \in 1 .. Len(tree)
      /\ 1 .. p = 1 .. i - 1
  BY <1>1, <1>2 DEF Follows
<1>4. tree[p].kind # "function"
  <2>1. SUFFICES ASSUME tree[p].kind = "function" PROVE FALSE
    OBVIOUS
  <2>2. f = p
    BY <1>3, <2>1, OwnerFirst
  <2>3. QED
    BY <1>3, <2>2
\* Control goes on from the node before.
<1>5. ASSUME p \in R, i \in Steps(p), Owner(tree, f, p) PROVE Precedes(tree, R, f, p, i)
  <2>1. ASSUME NEW b \in 1 .. i - 1, Entered(tree, b, i), b # p PROVE Entered(tree, b, p)
    <3>1. Holds(tree, b, p + 1) /\ b \in 1 .. p
      BY <1>3, <2>1 DEF Entered
    <3>2. Holds(tree, b, p)
      BY <1>3, <2>1, <3>1, HoldsNext
    <3>3. QED
      BY <2>1, <3>2 DEF Entered
  <2>2. QED
    BY <1>3, <1>5, <2>1 DEF Precedes
\* Control goes on behind a body.
<1>6. ASSUME NEW b \in 1 .. p - 1, Matches(tree, b, p), b \in R, i \in Steps(b)
      PROVE  b \in 1 .. i - 1 /\ Precedes(tree, R, f, b, i)
  <2>1. b \in 1 .. i - 1 /\ b \in Nat
    BY <1>3, <1>6
  <2>2. Owner(tree, f, b)
    BY <1>3, <1>6, OwnerPast
  <2>3. ASSUME NEW a \in 1 .. i - 1, Entered(tree, a, i) PROVE Entered(tree, a, b)
    <3>1. Holds(tree, a, p + 1) /\ a \in 1 .. p /\ tree[a].kind \in {"if", "loop", "block"}
      BY <1>3, <2>3 DEF Entered
    <3>2. a # p
      <4>1. tree[p].kind \in {"end", "else"}
        BY <1>3, <1>6, Closer
      <4>2. QED
        BY <3>1, <4>1
    <3>3. Holds(tree, a, p) /\ ~Shuts(tree, p, a)
      BY <1>3, <3>1, <3>2, HoldsNext
    <3>4. a \in 1 .. p - 1 /\ a <= b /\ a # b
      BY <1>3, <1>6, <3>1, <3>2, <3>3 DEF Matches, Within
    <3>5. a \in 1 .. b - 1 /\ b <= p
      BY <1>3, <2>1, <3>4
    <3>6. Holds(tree, a, b)
      BY ONLY <1>3, <2>1, <3>3, <3>5, HoldsEarlier
    <3>7. QED
      BY <3>1, <3>6 DEF Entered
  <2>4. QED
    BY <1>6, <2>1, <2>2, <2>3 DEF Precedes
<1>7. CASE tree[p].kind \in {"simple", "block", "if", "loop"} /\ p \in R
  <2>1. Owner(tree, f, p)
    BY <1>3, <1>7, OwnerNext
  <2>2. i \in Steps(p)
    <3>1. CASE tree[p].kind \in {"simple", "block"}
      BY <1>3, <3>1 DEF Steps, Transfers
    <3>2. CASE tree[p].kind \in {"if", "loop"}
      BY <1>3, <3>2 DEF Steps, Transfers
    <3>3. QED
      BY <1>7, <3>1, <3>2
  <2>3. QED
    BY <1>3, <1>5, <1>7, <2>1, <2>2
<1>8. CASE tree[p].kind \in Transfers /\ p \in R /\ Outside(tree, p)
  <2>1. tree[p].kind \notin {"function", "end", "else"}
    BY <1>8 DEF Transfers
  <2>2. Owner(tree, f, p)
    BY <1>3, <2>1, OwnerNext
  <2>3. LoopsOf(p) = {}
    BY <1>3, <1>8, <2>1, LoopsOfIs
  <2>4. i \in Steps(p)
    BY <1>3, <1>8, <2>3 DEF Steps, Transfers
  <2>5. QED
    BY <1>3, <1>5, <1>8, <2>2, <2>4
<1>9. CASE tree[p].kind = "else" /\ \E q \in 1 .. p - 1 : Matches(tree, q, p) /\ q \in R
  <2>1. PICK q \in 1 .. p - 1 : Matches(tree, q, p) /\ q \in R
    BY <1>9
  <2>2. tree[q].kind = "if"
    BY <1>3, <1>9, <2>1, Closer
  <2>3. i \in Steps(q)
    BY <1>3, <2>1, <2>2, StepsBehind
  <2>4. QED
    BY <1>6, <2>1, <2>3
<1>10. CASE tree[p].kind = "end" /\ \E b \in 1 .. p - 1 : Matches(tree, b, p) /\
              \/ tree[b].kind \in {"function", "if", "loop"} /\ b \in R
              \/ tree[b].kind = "block" /\ p \in R
              \/ tree[b].kind = "else" /\ (b \in R \/ p \in R)
  <2>1. PICK b \in 1 .. p - 1 : Matches(tree, b, p) /\
              \/ tree[b].kind \in {"function", "if", "loop"} /\ b \in R
              \/ tree[b].kind = "block" /\ p \in R
              \/ tree[b].kind = "else" /\ (b \in R \/ p \in R)
    BY <1>10
  <2>2. CASE tree[b].kind \in {"function", "if", "loop", "else"} /\ b \in R
    <3>1. i \in Steps(b)
      BY <1>3, <2>1, <2>2, StepsBehind
    <3>2. QED
      BY <1>6, <2>1, <2>2, <3>1
  <2>3. CASE tree[b].kind \in {"block", "else"} /\ p \in R
    <3>1. i \in Steps(p)
      <4>1. Steps(p) = {p + 1}
        BY <1>3, <1>10, <2>1, <2>3, StepsBehind
      <4>2. QED
        BY <1>3, <4>1
    <3>2. Owner(tree, f, b)
      BY <1>3, <2>1, OwnerPast
    <3>3. Within(tree, b, p) /\ p \in 1 .. Len(tree) + 1
      BY <1>1, <1>3, <2>1 DEF Matches
    <3>4. Owner(tree, f, p)
      BY <2>3, <3>2, <3>3, OwnerWithin
    <3>5. QED
      BY <1>3, <1>5, <2>3, <3>1, <3>4
  <2>4. QED
    BY <2>1, <2>2, <2>3
<1>11. QED
  BY <1>1, <1>2, <1>4, <1>7, <1>8, <1>9, <1>10 DEF Follows

\* An execution that gets into an if, a loop or a block has got to the statement.
LEMMA GotTo ==
    ASSUME Whole(tree), NEW R, Flows(tree, R), NEW i \in R, NEW f, Owner(tree, f, i),
           NEW b \in f + 1 .. i - 1, Entered(tree, b, i)
    PROVE  b \in R
<1>1. /\ Len(tree) \in Nat /\ R \subseteq 1 .. Len(tree) /\ R \subseteq Nat
      /\ f \in Nat /\ b \in Nat /\ b > f
  BY NodeFacts DEF Whole, Flows, Owner, Holds
<1> DEFINE T == {n \in Nat : \A j \in R : j <= n /\ Owner(tree, f, j) /\ b < j
                                  /\ Entered(tree, b, j) => b \in R}
<1>2. 0 \in T
  BY <1>1
<1>3. ASSUME NEW n \in Nat, n \in T PROVE n + 1 \in T
  <2>1. SUFFICES ASSUME NEW j \in R, j <= n + 1, Owner(tree, f, j), b < j, Entered(tree, b, j)
                 PROVE  b \in R
    OBVIOUS
  <2>2. j \in Nat /\ j # f + 1 /\ b \in 1 .. j - 1
    BY <1>1, <2>1
  <2>3. PICK p \in 1 .. j - 1 : Precedes(tree, R, f, p, j)
    BY <2>1, <2>2, Preceded
  <2>4. p \in R /\ p <= n /\ Owner(tree, f, p) /\ (b = p \/ Entered(tree, b, p))
    BY <2>1, <2>2, <2>3 DEF Precedes
  <2>5. CASE b = p
    BY <2>4, <2>5
  <2>6. CASE Entered(tree, b, p)
    <3>1. b < p
      BY <1>1, <2>2, <2>3, <2>6 DEF Entered, Holds
    <3>2. QED
      BY <1>3, <2>4, <2>6, <3>1
  <2>7. QED
    BY <2>4, <2>5, <2>6
<1>4. \A n \in Nat : n \in T => n + 1 \in T
  BY <1>3
<1> HIDE DEF T
<1>5. i \in T /\ i \in Nat
  BY <1>1, <1>2, <1>4, NatInd
<1>6. b < i /\ i <= i
  BY <1>1, <1>5
<1>7. QED
  BY <1>5, <1>6 DEF T

\* From where an execution of function f gets to, it only goes to where it gets to.
LEMMA GoesOn ==
    ASSUME Whole(tree), NEW R, Flows(tree, R), NEW i \in R, NEW f, Owner(tree, f, i),
           NEW j \in Steps(i)
    PROVE  j \in R /\ Owner(tree, f, j)
<1>1. /\ Len(tree) \in Nat /\ R \subseteq 1 .. Len(tree) /\ i \in 1 .. Len(tree) /\ i \in Nat \ {0}
      /\ Holds(tree, f, i) /\ tree[f].kind = "function" /\ f \in 1 .. i - 1 /\ f \in Nat
      /\ f \in 1 .. Len(tree)
      /\ \A q \in 1 .. Len(tree) : tree[q].kind \in Bodies \cup Statements \cup {"end"}
  BY NodeFacts DEF Whole, Flows, Owner, Holds
\* Control goes to a node of the function if it follows.
<1>2. ASSUME NEW k \in Nat, k <= Len(tree) + 1, Owner(tree, f, k), Follows(tree, R, k)
      PROVE  k \in R
  <2>1. k \in 1 .. Len(tree)
    BY <1>2, OwnedInside DEF Owner
  <2>2. QED
    BY <1>2, <2>1 DEF Flows
\* A body of the function that control gets to ends, and control goes on behind it.
<1>3. ASSUME NEW b \in R, Owner(tree, f, b), tree[b].kind \in {"function", "if", "loop", "else"}
      PROVE  Close(b) + 1 \in R /\ Owner(tree, f, Close(b) + 1)
  <2>1. b \in 1 .. Len(tree) /\ tree[b].kind \in Bodies /\ b \in Nat
    BY <1>1, <1>3 DEF Bodies
  <2>2. PICK c \in b + 1 .. Len(tree) : Matches(tree, b, c)
    BY <2>1 DEF Whole
  <2>3. c \in Nat /\ c \in 1 .. Len(tree) /\ b \in 1 .. c - 1
    BY <1>1, <2>1, <2>2
  <2>4. Close(b) = c
    BY <2>1, <2>2, CloseIs DEF Whole
  <2>5. Owner(tree, f, c + 1)
    BY <1>3, <2>2, <2>3, OwnerPast
  <2>6. /\ tree[c].kind \in {"end", "else"}
        /\ tree[c].kind = "else" => tree[b].kind = "if"
    BY <2>2, <2>3, Closer
  <2>7. Follows(tree, R, c + 1)
    <3>1. (c + 1) - 1 = c /\ c + 1 > 1
      BY <2>3
    <3>2. CASE tree[c].kind = "end"
      BY <1>3, <2>2, <2>3, <3>1, <3>2 DEF Follows
    <3>3. CASE tree[c].kind = "else"
      BY <1>3, <2>2, <2>3, <3>1, <3>3 DEF Follows
    <3>4. QED
      BY <2>6, <3>2, <3>3
  <2>8. c + 1 \in Nat /\ c + 1 <= Len(tree) + 1
    BY <1>1, <2>3
  <2>9. QED
    BY <1>2, <2>4, <2>5, <2>7, <2>8
\* Control goes on to the next node.
<1>4. ASSUME tree[i].kind \in {"simple", "block", "if", "loop"} \cup Transfers,
             tree[i].kind \in Transfers => Outside(tree, i)
      PROVE  i + 1 \in R /\ Owner(tree, f, i + 1)
  <2>1. Owner(tree, f, i + 1)
    BY <1>1, <1>4, OwnerNext DEF Transfers
  <2>2. (i + 1) - 1 = i /\ i + 1 > 1 /\ i + 1 \in Nat /\ i + 1 <= Len(tree) + 1
    BY <1>1
  <2>3. Follows(tree, R, i + 1)
    BY <1>4, <2>2 DEF Follows
  <2>4. QED
    BY <1>2, <2>1, <2>2, <2>3
<1>5. CASE tree[i].kind \in {"function", "else"}
  <2>1. j = Close(i) + 1
    <3>1. CASE tree[i].kind = "function"
      BY <3>1 DEF Steps, Transfers
    <3>2. CASE tree[i].kind = "else"
      BY <3>2 DEF Steps, Transfers
    <3>3. QED
      BY <1>5, <3>1, <3>2
  <2>2. QED
    BY <1>3, <1>5, <2>1
<1>6. CASE tree[i].kind \in {"simple", "block"}
  <2>1. j = i + 1
    BY <1>6 DEF Steps, Transfers
  <2>2. QED
    BY <1>4, <1>6, <2>1 DEF Transfers
<1>7. CASE tree[i].kind \in {"if", "loop"}
  <2>1. j \in {i + 1, Close(i) + 1}
    BY <1>7 DEF Steps, Transfers
  <2>2. j = i + 1 \/ j = Close(i) + 1
    BY <2>1
  <2>3. QED
    BY <1>3, <1>4, <1>7, <2>2 DEF Transfers
<1>8. CASE tree[i].kind = "return"
  BY <1>8 DEF Steps, Transfers
<1>9. CASE tree[i].kind \in Transfers
  <2>1. tree[i].kind \notin {"function", "end", "else"}
    BY <1>9 DEF Transfers
  <2>2. CASE LoopsOf(i) = {}
    <3>1. j = i + 1
      BY <1>9, <2>2 DEF Steps, Transfers
    <3>2. Outside(tree, i)
      BY <1>1, <2>1, <2>2, LoopsOfIs
    <3>3. QED
      BY <1>4, <1>9, <3>1, <3>2
  <2>3. CASE LoopsOf(i) # {}
    <3>1. PICK l : l = Innermost({"loop"}, i)
      OBVIOUS
    <3>2. /\ l \in 1 .. i - 1 /\ Holds(tree, l, i) /\ tree[l].kind = "loop"
          /\ FunctionOf(i) < l
      BY <1>1, <2>1, <2>3, <3>1, LoopsOfIs
    <3>3. FunctionOf(i) = f
      BY <1>1, <2>1, FunctionOfIs
    <3>4. l \in f + 1 .. i - 1 /\ l \in Nat /\ f < l
      BY <1>1, <3>2, <3>3
    <3>5. l \in R
      BY <3>2, <3>4, GotTo DEF Entered
    <3>6. Owner(tree, f, l)
      <4>1. l \in 1 .. Len(tree) /\ f \in 1 .. l - 1
        BY <1>1, <3>4
      <4>2. PICK c \in l + 1 .. Len(tree) : Matches(tree, l, c)
        BY <3>2, <4>1 DEF Whole, Bodies
      <4>3. c \in Nat /\ c \in 1 .. Len(tree) /\ l \in 1 .. c - 1 /\ l < i
        BY <1>1, <3>4, <4>2
      <4>4. i \in l + 1 .. c + 1
        <5>1. i <= c
          BY ONLY <1>1, <3>2, <4>2, <4>3, HoldsUntil
        <5>2. QED
          BY <1>1, <3>4, <4>3, <5>1
      <4>5. \A g \in 1 .. l - 1 : tree[g].kind = "function" =>
                (Holds(tree, g, i) <=> Holds(tree, g, l))
        BY <4>2, <4>3, <4>4, SameFunctions
      <4>6. \A g \in 1 .. l - 1 : g \in 1 .. i - 1
        BY <1>1, <3>4
      <4>7. QED
        BY <1>1, <4>1, <4>5, <4>6 DEF Owner
    <3>7. CASE tree[i].kind = "continue"
      <4>1. j = l
        BY <2>3, <3>1, <3>7 DEF Steps, Transfers
      <4>2. QED
        BY <3>5, <3>6, <4>1
    <3>8. CASE tree[i].kind = "break"
      <4>1. j = Close(l) + 1
        BY <2>3, <3>1, <3>8 DEF Steps, Transfers
      <4>2. QED
        BY <1>3, <3>2, <3>5, <3>6, <4>1
    <3>9. QED
      BY <1>9, <3>7, <3>8 DEF Transfers
  <2>4. QED
    BY <2>2, <2>3
<1>10. CASE tree[i].kind = "end"
  <2>1. PICK b \in 1 .. i - 1 : Matches(tree, b, i)
    BY <1>1, <1>10 DEF Whole, Past
  <2>2. tree[b].kind \in Bodies /\ Within(tree, b, i) /\ Holds(tree, b, i)
    BY <1>1, <2>1, Closer DEF Matches, Within
  <2>3. i \in 1 .. Len(tree) + 1 /\ b \in Nat
    BY <1>1
  <2>4. tree[b].kind # "function"
    BY <1>1, <2>1, StepsBehind
  <2>5. Owner(tree, f, b)
    BY <2>2, <2>3, <2>4, OwnerWithin
  <2>6. b \in f + 1 .. i - 1
    BY <1>1, <2>3, <2>5 DEF Owner, Holds
  <2>7. tree[b].kind \in {"if", "loop", "block"} => b \in R
    BY <2>2, <2>6, GotTo DEF Entered
  <2>8. CASE tree[b].kind = "loop"
    <3>1. j = b
      BY <1>1, <2>1, <2>8, StepsBehind
    <3>2. QED
      BY <2>5, <2>7, <2>8, <3>1
  <2>9. CASE tree[b].kind \in {"if", "else", "block"}
    <3>1. j = i + 1
      <4>1. Steps(i) = {i + 1}
        BY <1>1, <1>10, <2>1, <2>9, StepsBehind
      <4>2. QED
        BY <4>1
    <3>2. Owner(tree, f, i + 1)
      BY <1>1, <2>1, <2>5, OwnerPast
    <3>3. (i + 1) - 1 = i /\ i + 1 > 1 /\ i + 1 \in Nat /\ i + 1 <= Len(tree) + 1
      BY <1>1
    <3>4. Follows(tree, R, i + 1)
      <4>1. \/ tree[b].kind \in {"function", "if", "loop"} /\ b \in R
            \/ tree[b].kind = "block" /\ i \in R
            \/ tree[b].kind = "else" /\ (b \in R \/ i \in R)
        BY <2>7, <2>9
      <4>2. QED
        BY <1>10, <2>1, <3>3, <4>1 DEF Follows
    <3>5. QED
      BY <1>2, <3>1, <3>2, <3>3, <3>4
  <2>10. QED
    BY <2>2, <2>4, <2>8, <2>9 DEF Bodies
<1>11. QED
  BY <1>1, <1>5, <1>6, <1>7, <1>8, <1>9, <1>10 DEF Bodies, Statements

-----------------------------------------------------------------------------
(* Reached *)

\* What is reached after one more step; and a function that Reached defines recursively, from
\* node s and for n rounds.
Onward(before) ==
    LET steps == [i \in DOMAIN tree |-> Steps(i)] IN
    before \cup UNION {steps[i] : i \in before}

Rounds(n, s, g) == g = [k \in 0 .. n |-> IF k = 0 THEN {s} ELSE Onward(g[k - 1])]

\* The recursive function is defined for every number of rounds.
LEMMA RoundsExist == ASSUME NEW s PROVE \A n \in Nat : \E g : Rounds(n, s, g)
<1> DEFINE T == {n \in Nat : \E g : Rounds(n, s, g)}
<1>1. 0 \in T
  <2>1. [k \in 0 .. 0 |-> {s}] =
            [k \in 0 .. 0 |-> IF k = 0 THEN {s} ELSE Onward([m \in 0 .. 0 |-> {s}][k - 1])]
    OBVIOUS
  <2>2. Rounds(0, s, [k \in 0 .. 0 |-> {s}])
    BY <2>1 DEF Rounds
  <2> QED
    BY <2>2
<1>2. ASSUME NEW n \in T PROVE n + 1 \in T
  <2>1. PICK g : Rounds(n, s, g)
    OBVIOUS
  <2> DEFINE h == [k \in 0 .. n + 1 |-> IF k = n + 1 THEN Onward(g[n]) ELSE g[k]]
  <2>2. ASSUME NEW k \in 0 .. n + 1
        PROVE  h[k] = IF k = 0 THEN {s} ELSE Onward(h[k - 1])
    <3>1. CASE k = n + 1
      <4>1. k # 0 /\ k - 1 = n /\ n \in 0 .. n + 1 /\ n # n + 1
        BY <3>1
      <4>2. h[k] = Onward(g[n]) /\ h[n] = g[n]
        BY <3>1, <4>1
      <4>3. QED
        BY ONLY <4>1, <4>2
    <3>2. CASE k # n + 1
      <4>1. k \in 0 .. n /\ h[k] = g[k]
        BY <3>2
      <4>2. g[k] = IF k = 0 THEN {s} ELSE Onward(g[k - 1])
        BY ONLY <2>1, <4>1 DEF Rounds
      <4>3. k # 0 => k - 1 \in 0 .. n + 1 /\ k - 1 # n + 1
        BY <4>1
      <4>4. k # 0 => h[k - 1] = g[k - 1]
        BY <4>3
      <4>5. QED
        BY ONLY <4>1, <4>2, <4>4
    <3>3. QED
      BY <3>1, <3>2
  <2>3. h = [k \in 0 .. n + 1 |-> IF k = 0 THEN {s} ELSE Onward(h[k - 1])]
    BY <2>2
  <2>4. Rounds(n + 1, s, h)
    BY <2>3 DEF Rounds
  <2> QED
    BY <2>4
<1>3. \A n \in Nat : n \in T => n + 1 \in T
  BY <1>2
<1> HIDE DEF T
<1>4. Nat \subseteq T
  BY <1>1, <1>3, NatInd
<1> QED
  BY <1>4 DEF T

\* Reached is what it gives after as many rounds as the tree has nodes.
LEMMA ReachedUnfolds ==
    ASSUME tree \in Seq(Nodes), NEW f
    PROVE  \E g : /\ Reached(f) = g[Len(tree)] /\ g[0] = {f + 1}
                  /\ \A k \in 1 .. Len(tree) : g[k] = Onward(g[k - 1])
<1>1. Len(tree) \in Nat
  OBVIOUS
<1>2. \E g : Rounds(Len(tree), f + 1, g)
  BY <1>1, RoundsExist
<1>3. PICK g : g = CHOOSE h : Rounds(Len(tree), f + 1, h)
  OBVIOUS
<1>4. Rounds(Len(tree), f + 1, g)
  BY <1>2, <1>3
<1>5. Reached(f) = g[Len(tree)]
  BY <1>3 DEF Rounds, Onward, Reached
<1>6. g[0] = {f + 1}
  <2>1. 0 \in 0 .. Len(tree)
    BY <1>1
  <2>2. QED
    BY ONLY <1>4, <2>1 DEF Rounds
<1>7. ASSUME NEW k \in 1 .. Len(tree) PROVE g[k] = Onward(g[k - 1])
  <2>1. k \in 0 .. Len(tree) /\ k # 0
    BY <1>1
  <2>2. QED
    BY ONLY <1>4, <2>1 DEF Rounds
<1>8. QED
  BY <1>5, <1>6, <1>7

\* What the executions of function f get to is what control gets to in f.
LEMMA ReachedIs ==
    ASSUME Whole(tree), NEW R, Flows(tree, R),
           NEW f \in 1 .. Len(tree), tree[f].kind = "function"
    PROVE  Reached(f) = {i \in R : Owner(tree, f, i)}
<1>1. /\ Len(tree) \in Nat /\ R \subseteq 1 .. Len(tree) /\ f \in Nat \ {0}
      /\ tree \in Seq(Nodes) /\ DOMAIN tree = 1 .. Len(tree)
  BY NodeFacts DEF Whole, Flows
<1>2. PICK own : own = {i \in R : Owner(tree, f, i)}
  OBVIOUS
<1>3. PICK g : /\ Reached(f) = g[Len(tree)] /\ g[0] = {f + 1}
               /\ \A k \in 1 .. Len(tree) : g[k] = Onward(g[k - 1])
  BY <1>1, ReachedUnfolds
<1>4. f + 1 \in own
  <2>1. Owner(tree, f, f + 1)
    BY <1>1, OwnerFirst
  <2>2. (f + 1) - 1 = f /\ f + 1 > 1 /\ f + 1 \in Nat /\ f + 1 <= Len(tree) + 1
    BY <1>1
  <2>3. f + 1 \in 1 .. Len(tree)
    BY <2>1, <2>2, OwnedInside DEF Owner
  <2>4. Follows(tree, R, f + 1)
    BY <2>2 DEF Follows
  <2>5. QED
    BY <1>2, <2>1, <2>3, <2>4 DEF Flows
<1>5. ASSUME NEW before, before \subseteq own
      PROVE  /\ Onward(before) \subseteq own /\ before \subseteq Onward(before)
             /\ \A i \in before : Steps(i) \subseteq Onward(before)
  <2>1. \A i \in before : i \in DOMAIN tree
    BY <1>1, <1>2, <1>5
  <2>2. Onward(before) = before \cup UNION {Steps(i) : i \in before}
    BY <2>1 DEF Onward
  <2>3. \A i \in before : Steps(i) \subseteq own
    BY <1>2, <1>5, GoesOn
  <2>4. QED
    BY ONLY <1>5, <2>2, <2>3
<1> DEFINE T == {n \in Nat : n <= Len(tree) =>
                     g[n] \subseteq own /\ \A i \in own : i <= n \/ i = f + 1 => i \in g[n]}
<1>6. 0 \in T
  BY <1>1, <1>2, <1>3, <1>4
<1>7. ASSUME NEW n \in Nat, n \in T PROVE n + 1 \in T
  <2>1. SUFFICES ASSUME n + 1 <= Len(tree)
                 PROVE  /\ g[n + 1] \subseteq own
                        /\ \A i \in own : i <= n + 1 \/ i = f + 1 => i \in g[n + 1]
    OBVIOUS
  <2>2. /\ g[n] \subseteq own
        /\ \A i \in own : i <= n \/ i = f + 1 => i \in g[n]
    BY <1>1, <1>7, <2>1
  <2>3. g[n + 1] = Onward(g[n])
    <3>1. n + 1 \in 1 .. Len(tree) /\ (n + 1) - 1 = n
      BY <1>1, <2>1
    <3>2. QED
      BY <1>3, <3>1
  <2>4. /\ g[n + 1] \subseteq own /\ g[n] \subseteq g[n + 1]
        /\ \A i \in g[n] : Steps(i) \subseteq g[n + 1]
    BY ONLY <1>5, <2>2, <2>3
  <2>5. ASSUME NEW i \in own, i <= n + 1 \/ i = f + 1 PROVE i \in g[n + 1]
    <3>1. CASE i = f + 1
      BY <2>2, <2>4, <3>1
    <3>2. CASE i # f + 1
      <4>1. PICK p \in 1 .. i - 1 : Precedes(tree, R, f, p, i) /\ i \in Steps(p)
        BY <1>2, <3>2, Preceded
      <4>2. p \in own
        BY <1>2, <4>1 DEF Precedes
      <4>3. p <= n
        <5>1. i \in 1 .. Len(tree)
          BY <1>1, <1>2
        <5>2. QED
          BY <1>1, <2>5, <3>2, <4>1, <5>1
      <4>4. QED
        BY <2>2, <2>4, <4>1, <4>2, <4>3
    <3>3. QED
      BY <3>1, <3>2
  <2>6. QED
    BY <2>4, <2>5
<1>8. \A n \in Nat : n \in T => n + 1 \in T
  BY <1>7
<1> HIDE DEF T
<1>9. Len(tree) \in T
  BY <1>1, <1>6, <1>8, NatInd
<1>10. \A i \in own : i <= Len(tree)
  BY <1>1, <1>2
<1>11. g[Len(tree)] \subseteq own /\ own \subseteq g[Len(tree)]
  BY <1>1, <1>9, <1>10 DEF T
<1>12. QED
  BY <1>2, <1>3, <1>11

-----------------------------------------------------------------------------
(* The properties *)

\* The invariant when no call is in progress.
LEMMA CompleteKnown ==
    ASSUME FlowInv, Complete
    PROVE  \E R : /\ Whole(tree) /\ Flows(tree, R)
                  /\ TransferErrors(tree, errors) /\ EndErrors(tree, R, errors)
                  /\ warnings \subseteq 1 .. Len(tree)
                  /\ \A i \in 1 .. Len(tree) : i \in warnings <=> FirstDead(tree, R, i)
<1>1. PICK H, R : Known(tree, visits, errors, warnings, H, R)
  BY DEF FlowInv
<1>2. /\ Shape(tree, visits, H) /\ Flow(tree, visits, H, R)
      /\ TransferErrors(tree, errors) /\ EndErrors(tree, R, errors)
      /\ Warned(tree, visits, H, R, warnings)
  BY <1>1 DEF Known
<1>3. tree \in Seq(Nodes) /\ \A k : k \notin 1 .. Len(visits)
  BY DEF FlowInv, TypeOK, Complete
<1>4. Whole(tree)
  BY ONLY <1>2, <1>3 DEF Whole, Shape
<1>5. Flows(tree, R)
  BY ONLY <1>2 DEF Flows, Flow
<1>6. /\ warnings \subseteq 1 .. Len(tree)
      /\ \A i \in 1 .. Len(tree) : i \in warnings <=> FirstDead(tree, R, i)
  BY ONLY <1>2 DEF Warned
<1>7. QED
  BY <1>2, <1>4, <1>5, <1>6

(* break and continue are rejected exactly outside the loops of their own   *)
(* function, though check_block() only counts loops and starts anew for     *)
(* each function.                                                           *)
THEOREM TransfersAreReported == Spec => []TransfersReported
<1>1. ASSUME FlowInv PROVE TransfersReported
  <2>1. SUFFICES ASSUME Complete, NEW i \in DOMAIN tree
                 PROVE  <<i, "outside loop">> \in errors <=>
                            tree[i].kind \in Transfers /\ LoopsOf(i) = {}
    BY DEF TransfersReported
  <2>2. Whole(tree) /\ TransferErrors(tree, errors)
    BY <1>1, <2>1, CompleteKnown
  <2>3. i \in 1 .. Len(tree)
    BY <2>2 DEF Whole
  <2>4. <<i, "outside loop">> \in errors <=> tree[i].kind \in Transfers /\ Outside(tree, i)
    BY <2>2, <2>3 DEF TransferErrors
  <2>5. tree[i].kind \in Transfers => tree[i].kind \notin {"end", "else", "function"}
    BY DEF Transfers
  <2>6. QED
    BY <2>2, <2>3, <2>4, <2>5, LoopsOfIs
<1>2. QED
  BY <1>1, FlowInvHolds, PTL

(* A missing return is an error exactly if an execution of the function may *)
(* reach its end: the one flag a call keeps is worth the paths through the  *)
(* tree, back edges and jumps included.                                     *)
THEOREM EndsAreReported == Spec => []EndsReported
<1>1. ASSUME FlowInv PROVE EndsReported
  <2>1. SUFFICES ASSUME Complete, NEW f \in Functions
                 PROVE  <<f, "no return">> \in errors <=>
                            /\ tree[f].type # "void"
                            /\ ~EntryPoint(f)
                            /\ Close(f) \in Reached(f)
    BY DEF EndsReported
  <2>2. PICK R : Whole(tree) /\ Flows(tree, R) /\ EndErrors(tree, R, errors)
    BY <1>1, <2>1, CompleteKnown
  <2>3. /\ f \in 1 .. Len(tree) /\ tree[f].kind = "function" /\ Len(tree) \in Nat
        /\ tree \in Seq(Nodes) /\ f \in Nat
    BY <2>2, NodeFacts DEF Whole, Functions
  <2>4. <<f, "no return">> \in errors <=>
            /\ tree[f].type # "void"
            /\ \E c \in 1 .. Len(tree) : Matches(tree, f, c) /\ c \in R
            /\ ~Exempt(tree, f)
    BY <2>2, <2>3 DEF EndErrors, Exempt, Alone
  <2>5. EntryPoint(f) <=> Exempt(tree, f)
    BY <2>2, <2>3, EntryPointIs
  <2>6. Reached(f) = {i \in R : Owner(tree, f, i)}
    BY <2>2, <2>3, ReachedIs
  <2>7. PICK c \in f + 1 .. Len(tree) : Matches(tree, f, c)
    BY <2>2, <2>3 DEF Whole, Bodies
  <2>8. c \in 1 .. Len(tree) /\ c \in 1 .. Len(tree) + 1 /\ f \in 1 .. c - 1 /\ c \in Nat
    BY <2>3, <2>7
  <2>9. Close(f) = c
    BY <2>3, <2>7, CloseIs
  <2>10. Owner(tree, f, c)
    <3>1. Within(tree, f, c)
      BY <2>7 DEF Matches
    <3>2. QED
      BY <2>2, <2>3, <2>8, <3>1, OwnerWithin
  <2>11. ASSUME NEW e \in 1 .. Len(tree), Matches(tree, f, e) PROVE e = c
    <3>1. e \in f + 1 .. Len(tree)
      <4>1. f \in 1 .. e - 1
        BY <2>11 DEF Matches, Within, Holds
      <4>2. QED
        BY <2>3, <4>1
    <3>2. QED
      BY <2>3, <2>9, <2>11, <3>1, CloseIs
  <2>12. (\E e \in 1 .. Len(tree) : Matches(tree, f, e) /\ e \in R) <=> c \in R
    BY <2>7, <2>8, <2>11
  <2>13. QED
    BY <2>4, <2>5, <2>6, <2>9, <2>10, <2>12
<1>2. QED
  BY <1>1, FlowInvHolds, PTL

\* The statements of function f are its nodes of that kind.
LEMMA StatementsAre ==
    ASSUME Whole(tree), NEW f \in 1 .. Len(tree), tree[f].kind = "function"
    PROVE  StatementsOf(f) =
               {i \in 1 .. Len(tree) : tree[i].kind \in Statements /\ Owner(tree, f, i)}
<1>1. Len(tree) \in Nat /\ f \in Nat /\ tree \in Seq(Nodes)
  BY NodeFacts DEF Whole
<1>2. PICK c \in f + 1 .. Len(tree) : Matches(tree, f, c)
  BY <1>1 DEF Whole, Bodies
<1>3. c \in Nat /\ c \in 1 .. Len(tree) /\ f \in 1 .. c - 1 /\ Close(f) = c
  BY <1>1, <1>2, CloseIs
<1>4. ASSUME NEW i \in 1 .. Len(tree), tree[i].kind \in Statements
      PROVE  Owner(tree, f, i) <=> FunctionOf(i) = f
  BY <1>4, FunctionOfIs DEF Statements, Transfers
<1>5. ASSUME NEW i \in 1 .. Len(tree), Owner(tree, f, i) PROVE i \in f + 1 .. c
  <2>1. Holds(tree, f, i) /\ f < i /\ i \in Nat
    BY <1>1, <1>5 DEF Owner, Holds
  <2>2. i <= c
    BY ONLY <1>1, <1>2, <1>3, <2>1, HoldsUntil
  <2>3. QED
    BY <1>1, <1>3, <2>1, <2>2
<1>6. f + 1 .. c \subseteq 1 .. Len(tree)
  BY <1>1, <1>3
<1>7. QED
  BY <1>3, <1>4, <1>5, <1>6 DEF StatementsOf

\* The nodes of a block are in the same function, the first one included.
LEMMA BlockOwner ==
    ASSUME Whole(tree), NEW i \in 1 .. Len(tree), NEW b \in 1 .. i - 1, Within(tree, b, i),
           NEW f, Owner(tree, f, i)
    PROVE  /\ \A j \in 1 .. Len(tree) : b < j /\ Within(tree, b, j) => Owner(tree, f, j)
           /\ Owner(tree, f, b + 1)
<1>1. /\ Len(tree) \in Nat /\ b \in Nat \ {0} /\ i \in Nat /\ b \in 1 .. Len(tree)
      /\ tree[b].kind \in Bodies /\ i \in 1 .. Len(tree) + 1 /\ b + 1 \in Nat
      /\ (b + 1) - 1 = b /\ b < i
  BY NodeFacts DEF Whole, Within, Holds
<1>2. ASSUME NEW j \in 1 .. Len(tree), b < j, Within(tree, b, j) PROVE Owner(tree, f, j)
  <2>1. b \in 1 .. j - 1 /\ j \in 1 .. Len(tree) + 1
    BY <1>1, <1>2
  <2>2. QED
    BY <1>1, <1>2, <2>1, OwnerWithin
<1>3. Within(tree, b, b + 1)
  <2>1. Holds(tree, b, b + 1)
    <3>1. b \in 1 .. b
      BY <1>1
    <3>2. QED
      BY <1>1, <3>1, HoldsNext
  <2>2. \A a \in 1 .. (b + 1) - 1 : a <= b
    BY <1>1
  <2>3. QED
    BY <2>1, <2>2 DEF Within
<1>4. b + 1 \in 1 .. Len(tree) /\ b < b + 1
  BY <1>1
<1>5. QED
  BY <1>2, <1>3, <1>4

(* Of the statements that no execution reaches the first of each block that *)
(* is entered is reported, and nothing else: the flags that a call hands    *)
(* down and keeps are enough for that.                                      *)
THEOREM DeadCodeIsReportedOnce == Spec => []DeadCodeReportedOnce
<1>1. ASSUME FlowInv PROVE DeadCodeReportedOnce
  <2>1. SUFFICES ASSUME Complete, NEW f \in Functions,
                        NEW reached, reached = Reached(f),
                        NEW dead, dead = StatementsOf(f) \ reached
                 PROVE  warnings \cap StatementsOf(f) =
                            {i \in dead : /\ BlockOf(i) + 1 \in reached
                                          /\ \A j \in dead : BlockOf(j) = BlockOf(i) => i <= j}
    BY DEF DeadCodeReportedOnce
  <2>2. PICK R : /\ Whole(tree) /\ Flows(tree, R) /\ warnings \subseteq 1 .. Len(tree)
                 /\ \A i \in 1 .. Len(tree) : i \in warnings <=> FirstDead(tree, R, i)
    BY <1>1, <2>1, CompleteKnown
  <2>3. /\ f \in 1 .. Len(tree) /\ tree[f].kind = "function" /\ Len(tree) \in Nat
        /\ f \in Nat
    BY <2>2, NodeFacts DEF Whole, Functions
  <2>4. reached = {i \in R : Owner(tree, f, i)}
    BY <2>1, <2>2, <2>3, ReachedIs
  <2>5. StatementsOf(f) =
            {i \in 1 .. Len(tree) : tree[i].kind \in Statements /\ Owner(tree, f, i)}
    BY <2>2, <2>3, StatementsAre
  <2>6. \A i : i \in dead <=> /\ i \in 1 .. Len(tree) /\ tree[i].kind \in Statements
                              /\ Owner(tree, f, i) /\ i \notin R
    BY <2>1, <2>4, <2>5
  <2>7. \A i \in StatementsOf(f) : i \in 1 .. Len(tree) /\ tree[i].kind \in Statements
    BY <2>5
  <2>8. ASSUME NEW i \in StatementsOf(f)
        PROVE  i \in warnings <=>
                   /\ i \in dead /\ BlockOf(i) + 1 \in reached
                   /\ \A j \in dead : BlockOf(j) = BlockOf(i) => i <= j
    <3>1. /\ i \in 1 .. Len(tree) /\ tree[i].kind \in Statements /\ Owner(tree, f, i)
          /\ i \in Nat
      BY <2>3, <2>5, <2>8
    <3>2. PICK b : b = BlockOf(i)
      OBVIOUS
    <3>3. \A j \in 1 .. Len(tree) : tree[j].kind \in Statements =>
              \A a \in 1 .. j - 1 : Within(tree, a, j) <=> BlockOf(j) = a
      BY <2>2, BlockOfIs DEF Statements, Transfers
    <3>4. b \in 1 .. i - 1 /\ b \in Nat /\ Within(tree, b, i)
      <4>1. tree[i].kind \notin {"end", "else", "function"}
        BY <3>1 DEF Statements, Transfers
      <4>2. f \in 1 .. i - 1 /\ Holds(tree, f, i)
        BY <3>1 DEF Owner, Holds
      <4>3. f \in Nearest(Bodies, i)
        BY <2>2, <2>3, <3>1, <4>1, <4>2, NearestIs DEF Bodies
      <4>4. b \in Nearest(Bodies, i)
        BY <2>2, <3>1, <3>2, <4>1, <4>3, NearestIs DEF BlockOf
      <4>5. b \in 1 .. i - 1
        BY <4>4 DEF Nearest
      <4>6. QED
        BY <3>1, <3>2, <3>3, <4>5
    <3>5. /\ Owner(tree, f, b + 1)
          /\ \A j \in 1 .. Len(tree) : b < j /\ Within(tree, b, j) => Owner(tree, f, j)
      BY <2>2, <3>1, <3>4, BlockOwner
    <3>6. i \in dead <=> DeadIn(tree, R, b, i)
      BY <2>6, <3>1, <3>4 DEF DeadIn
    <3>7. b + 1 \in reached <=> b + 1 \in R
      BY <2>4, <3>5
    <3>8. (\A j \in dead : BlockOf(j) = b => i <= j)
              <=> \A j \in b + 1 .. i - 1 : ~DeadIn(tree, R, b, j)
      <4>1. ASSUME NEW j \in b + 1 .. i - 1, DeadIn(tree, R, b, j)
            PROVE  j \in dead /\ BlockOf(j) = b /\ ~(i <= j)
        <5>1. j \in 1 .. Len(tree) /\ b \in 1 .. j - 1 /\ b < j /\ ~(i <= j)
          BY <2>3, <3>1, <3>4, <4>1
        <5>2. tree[j].kind \in Statements /\ Within(tree, b, j) /\ j \notin R
          BY <4>1 DEF DeadIn
        <5>3. QED
          BY <2>6, <3>3, <3>5, <5>1, <5>2
      <4>2. ASSUME NEW j \in dead, BlockOf(j) = b, ~(i <= j)
            PROVE  j \in b + 1 .. i - 1 /\ DeadIn(tree, R, b, j)
        <5>1. /\ j \in 1 .. Len(tree) /\ tree[j].kind \in Statements /\ Owner(tree, f, j)
              /\ j \notin R /\ j \in Nat
          BY <2>3, <2>6, <4>2
        <5>2. b < j
          <6>1. tree[j].kind \notin {"end", "else", "function"}
            BY <5>1 DEF Statements, Transfers
          <6>2. f \in 1 .. j - 1 /\ Holds(tree, f, j)
            BY <5>1 DEF Owner, Holds
          <6>3. f \in Nearest(Bodies, j)
            BY <2>2, <2>3, <5>1, <6>1, <6>2, NearestIs DEF Bodies
          <6>4. b \in Nearest(Bodies, j)
            BY <2>2, <4>2, <5>1, <6>1, <6>3, NearestIs DEF BlockOf
          <6>5. b \in 1 .. j - 1
            BY <6>4 DEF Nearest
          <6>6. QED
            BY <5>1, <6>5
        <5>3. b \in 1 .. j - 1 /\ j \in b + 1 .. i - 1
          BY <3>1, <3>4, <4>2, <5>1, <5>2
        <5>4. Within(tree, b, j)
          BY <3>3, <4>2, <5>1, <5>3
        <5>5. QED
          BY <5>1, <5>3, <5>4 DEF DeadIn
      <4>3. QED
        BY <4>1, <4>2
    <3>9. FirstDead(tree, R, i) <=>
              /\ DeadIn(tree, R, b, i) /\ b + 1 \in R
              /\ \A j \in b + 1 .. i - 1 : ~DeadIn(tree, R, b, j)
      <4>1. ASSUME NEW a \in 1 .. i - 1, DeadIn(tree, R, a, i) PROVE a = b
        BY <3>1, <3>2, <3>3, <4>1 DEF DeadIn
      <4>2. QED
        BY <3>4, <4>1 DEF FirstDead
    <3>10. i \in warnings <=> FirstDead(tree, R, i)
      BY <2>2, <3>1
    <3>11. QED
      BY ONLY <3>2, <3>6, <3>7, <3>8, <3>9, <3>10
  <2>9. dead \subseteq StatementsOf(f)
    BY <2>1
  <2>10. QED
    BY ONLY <2>8, <2>9
<1>2. QED
  BY <1>1, FlowInvHolds, PTL
================================================================================
