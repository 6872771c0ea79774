------------------------- MODULE SpawnDescriptorsProofs -------------------------
(***************************************************************************)
(* Theorems about SpawnDescriptors, for any number of calling threads and  *)
(* any size of the descriptor table.                                       *)
(*                                                                         *)
(* The inductive invariant says of each call which files its FileDescriptor*)
(* objects hold at each point of compile(), and that these objects and the *)
(* entries of the table agree.  A step of one call, or of other code,      *)
(* changes only entries of its own and free ones, so it leaves what the    *)
(* invariant says of the other calls alone (Undisturbed).                  *)
(***************************************************************************)
EXTENDS SpawnDescriptors, TLAPS, WellFoundedInduction

Owners == Callers \cup {Host, Nobody}
Entries == [owner : Owners, file : Files \cup {"none", "standard", "other"}, cloexec : BOOLEAN]
Captures == {"out", "err", "in"}

\* Stages of a call, with the files they are about.
Points ==
    ({"open"} \X Files) \cup ({"close"} \X (Files \ Captures)) \cup
    ({"move", "replace", "release"} \X Captures) \cup
    ({"idle", "spawn", "unwind"} \X {"none"})

TableTypes ==
    /\ fds \in [Descriptors -> Entries]
    /\ held \in [Callers -> [Files -> 0 .. MaxFds]]
    /\ replacement \in [Callers -> 0 .. MaxFds]
    /\ \A n \in Descriptors : fds[n].owner = Nobody => fds[n] = Closed

TypeOK ==
    /\ TableTypes
    /\ pc \in [Callers -> Points]
    /\ child \in [Callers -> [Descriptors -> Entries]]

\* What is held when a file is about to be opened, and at each point.
Earlier(file) ==
    {g \in Captures : (file = "err" /\ g = "out") \/ (file = "in" /\ g \in {"out", "err"})}
Holds(stage, file) ==
    {g \in Files :
        \/ stage \in {"open", "close", "move", "replace"} /\ g \in Earlier(file)
        \/ stage \in {"close", "move", "replace"} /\ g = file
        \/ stage = "spawn" /\ g \in Captures
        \/ stage = "release" /\ file = "in" /\ g \in Captures
        \/ stage = "release" /\ file = "out" /\ g \in {"out", "err"}
        \/ stage = "release" /\ file = "err" /\ g = "err"}

\* The objects of a call and the table agree.
HeldIsOpen(c) ==
    \A f \in Files : held[c][f] # None => fds[held[c][f]] = Open(c, f, TRUE)

ReplacementIsOpen(c) ==
    replacement[c] # None =>
        /\ fds[replacement[c]].owner = c
        /\ \A f \in Files : held[c][f] # replacement[c]

OpenIsHeld(c) ==
    \A n \in Descriptors : fds[n].owner = c =>
        replacement[c] = n \/ \E f \in Files : held[c][f] = n

HoldsByStage(c) ==
    At(c, "unwind") \/ \A f \in Files : held[c][f] # None <=> f \in Holds(pc[c][1], File(c))

\* The descriptors of the streams have been moved away from 0, 1 and 2, except
\* that of the file that is being moved.
AwayFromStandard(c) ==
    \A f \in Captures :
        \/ held[c][f] > 2
        \/ At(c, "unwind")
        \/ (At(c, "move") \/ At(c, "replace")) /\ File(c) = f

ReplacementByStage(c) ==
    /\ replacement[c] # None => At(c, "replace") \/ At(c, "unwind")
    /\ At(c, "replace") =>
          /\ replacement[c] # None /\ replacement[c] > 2
          /\ fds[replacement[c]] = Open(c, File(c), TRUE)

ChildOK(c) ==
    child[c] # NoTable =>
        \A n \in Descriptors :
            child[c][n] = CASE n = 0 -> Open(c, "in", FALSE)
                            [] n = 1 -> Open(c, "out", FALSE)
                            [] n = 2 -> Open(c, "err", FALSE)
                            [] n > 2 -> Closed

TableOK(c) == HeldIsOpen(c) /\ ReplacementIsOpen(c) /\ OpenIsHeld(c)
StageOK(c) == HoldsByStage(c) /\ AwayFromStandard(c) /\ ReplacementByStage(c)
CallOK(c) == TableOK(c) /\ StageOK(c) /\ ChildOK(c)

Inv == TypeOK /\ \A c \in Callers : CallOK(c)

\* A step that changes only entries of one owner and free ones.
Frame(o) ==
    \A n \in Descriptors :
        \/ fds'[n] = fds[n]
        \/ fds[n].owner \in {o, Nobody} /\ fds'[n].owner \in {o, Nobody}

--------------------------------------------------------------------------------
(* Lowest free descriptors *)

\* A set of numbers has a least one.
LEMMA LeastExists ==
    ASSUME NEW S, S \subseteq Nat, S # {}
    PROVE  \E n \in S : \A m \in S : n <= m
<1> DEFINE R == {ss \in Nat \X Nat : ss[1] < ss[2]}
<1>1. IsWellFoundedOn(R, Nat)
  BY NatLessThanWellFounded DEF OpToRel
<1> HIDE DEF R
<1>2. \E n \in S : \A m \in S : <<m, n>> \notin R
  BY <1>1, WFMin
<1>3. ASSUME NEW n \in S, NEW m \in S, <<m, n>> \notin R PROVE n <= m
  BY <1>3 DEF R
<1>4. QED BY <1>2, <1>3

\* The kernel hands out a descriptor that is free and not below the minimum.
LEMMA LowestIsFree ==
    ASSUME NEW least \in Nat, FreeFrom(least) # {}
    PROVE  /\ Lowest(FreeFrom(least)) \in Descriptors
           /\ Lowest(FreeFrom(least)) >= least
           /\ fds[Lowest(FreeFrom(least))] = Closed
<1>1. FreeFrom(least) \subseteq Nat
  BY DescriptorAssumption DEF FreeFrom, Descriptors
<1>2. \E n \in FreeFrom(least) : \A m \in FreeFrom(least) : n <= m
  BY <1>1, LeastExists
<1>3. Lowest(FreeFrom(least)) \in FreeFrom(least)
  BY <1>2 DEF Lowest
<1>4. QED BY <1>3 DEF FreeFrom

--------------------------------------------------------------------------------
(* The ways in which a call changes the table *)

\* Entries, as records.
LEMMA EntryFacts ==
    /\ Closed \in Entries /\ Closed.owner = Nobody
    /\ \A o \in Owners, f \in Files, b \in BOOLEAN :
          /\ Open(o, f, b) \in Entries
          /\ Open(o, f, b).owner = o /\ Open(o, f, b).file = f
BY DEF Closed, Open, Entries, Owners

\* A file is opened and held, under any free number.
LEMMA OpenHolds ==
    ASSUME TableTypes, NEW c \in Callers, TableOK(c), NEW f \in Files, held[c][f] = None,
           NEW n \in Descriptors, fds[n] = Closed,
           fds' = [fds EXCEPT ![n] = Open(c, f, TRUE)],
           held' = [held EXCEPT ![c][f] = n],
           replacement' = replacement
    PROVE  TableTypes' /\ TableOK(c)' /\ Frame(c)
<1>1. c # Nobody /\ Nobody \in Owners /\ c \in Owners /\ None \notin Descriptors
  BY DescriptorAssumption DEF Owners, None, Descriptors
<1>2. n \in 0 .. MaxFds /\ n # None
  BY DescriptorAssumption DEF Descriptors, None
<1>3. /\ Open(c, f, TRUE) \in Entries /\ Open(c, f, TRUE).owner = c
      /\ fds[n].owner = Nobody
  BY <1>1, EntryFacts
<1>4. fds' \in [Descriptors -> Entries]
  BY <1>3 DEF TableTypes
<1>5. /\ held' \in [Callers -> [Files -> 0 .. MaxFds]]
      /\ held'[c] = [held[c] EXCEPT ![f] = n]
      /\ held'[c][f] = n /\ \A g \in Files \ {f} : held'[c][g] = held[c][g]
  BY <1>2 DEF TableTypes
<1>6. fds'[n] = Open(c, f, TRUE) /\ \A m \in Descriptors \ {n} : fds'[m] = fds[m]
  BY DEF TableTypes
<1>7. TableTypes'
  BY <1>1, <1>3, <1>4, <1>5, <1>6 DEF TableTypes
<1>8. HeldIsOpen(c)'
  <2> SUFFICES ASSUME NEW g \in Files, held'[c][g] # None
               PROVE  fds'[held'[c][g]] = Open(c, g, TRUE)
    BY DEF HeldIsOpen
  <2>1. CASE g = f
    BY <1>5, <1>6, <2>1
  <2>2. CASE g # f
    <3>1. held[c][g] # None /\ held'[c][g] = held[c][g] /\ held[c][g] \in 0 .. MaxFds
      BY <1>5, <2>2 DEF TableTypes
    <3>2. held[c][g] \in Descriptors
      BY <3>1, DescriptorAssumption DEF None, Descriptors
    <3>3. fds[held[c][g]] = Open(c, g, TRUE)
      BY <3>1 DEF TableOK, HeldIsOpen
    <3>4. held[c][g] # n
      <4>1. fds[held[c][g]].owner = c
        BY <3>3 DEF Open
      <4>2. QED BY <1>1, <1>3, <4>1
    <3>5. QED BY <1>6, <3>1, <3>2, <3>3, <3>4
  <2>3. QED BY <2>1, <2>2
<1>9. ReplacementIsOpen(c)'
  <2> SUFFICES ASSUME replacement[c] # None
               PROVE  /\ fds'[replacement[c]].owner = c
                      /\ \A g \in Files : held'[c][g] # replacement[c]
    BY DEF ReplacementIsOpen
  <2>1. /\ fds[replacement[c]].owner = c
        /\ \A g \in Files : held[c][g] # replacement[c]
    BY DEF TableOK, ReplacementIsOpen
  <2>2. replacement[c] \in Descriptors
    BY DescriptorAssumption DEF TableTypes, None, Descriptors
  <2>3. QED BY <1>1, <1>3, <1>5, <1>6, <2>1, <2>2
<1>10. OpenIsHeld(c)'
  <2> SUFFICES ASSUME NEW m \in Descriptors, fds'[m].owner = c
               PROVE  replacement[c] = m \/ \E g \in Files : held'[c][g] = m
    BY DEF OpenIsHeld
  <2>1. CASE m # n
    <3>1. replacement[c] = m \/ \E g \in Files : held[c][g] = m
      BY <1>6, <2>1 DEF TableOK, OpenIsHeld
    <3>2. QED BY <1>1, <1>5, <3>1
  <2>2. QED BY <1>5, <2>1
<1>11. Frame(c)
  BY <1>3, <1>6 DEF Frame
<1>12. QED BY <1>7, <1>8, <1>9, <1>10, <1>11 DEF TableOK

\* A duplicate is made that a call holds as its replacement.
LEMMA DuplicateHolds ==
    ASSUME TableTypes, NEW c \in Callers, TableOK(c), NEW f \in Files, replacement[c] = None,
           NEW n \in Descriptors, fds[n] = Closed,
           fds' = [fds EXCEPT ![n] = Open(c, f, TRUE)],
           replacement' = [replacement EXCEPT ![c] = n],
           held' = held
    PROVE  TableTypes' /\ TableOK(c)' /\ Frame(c)
<1>1. c # Nobody /\ c \in Owners /\ n \in 0 .. MaxFds /\ n # None
  BY DescriptorAssumption DEF Owners, None, Descriptors
<1>2. /\ Open(c, f, TRUE) \in Entries /\ Open(c, f, TRUE).owner = c
      /\ fds[n].owner = Nobody
  BY <1>1, EntryFacts
<1>3. /\ fds' \in [Descriptors -> Entries] /\ replacement' \in [Callers -> 0 .. MaxFds]
      /\ replacement'[c] = n
      /\ fds'[n] = Open(c, f, TRUE) /\ \A m \in Descriptors \ {n} : fds'[m] = fds[m]
  BY <1>1, <1>2 DEF TableTypes
<1>4. TableTypes'
  BY <1>1, <1>2, <1>3 DEF TableTypes
<1>5. \A g \in Files : held[c][g] # None =>
          held[c][g] # n /\ held[c][g] \in Descriptors
  <2> SUFFICES ASSUME NEW g \in Files, held[c][g] # None
               PROVE  held[c][g] # n /\ held[c][g] \in Descriptors
    OBVIOUS
  <2>1. held[c][g] \in Descriptors
    BY DescriptorAssumption DEF TableTypes, None, Descriptors
  <2>2. fds[held[c][g]] = Open(c, g, TRUE)
    BY DEF TableOK, HeldIsOpen
  <2>3. fds[held[c][g]].owner = c
    BY <2>2 DEF Open
  <2>4. QED BY <1>1, <1>2, <2>1, <2>3
<1>6. HeldIsOpen(c)'
  BY <1>3, <1>5 DEF TableOK, HeldIsOpen
<1>7. ReplacementIsOpen(c)'
  BY <1>1, <1>2, <1>3, <1>5 DEF ReplacementIsOpen
<1>8. OpenIsHeld(c)'
  <2> SUFFICES ASSUME NEW m \in Descriptors, fds'[m].owner = c, m # n
               PROVE  \E g \in Files : held[c][g] = m
    BY <1>3 DEF OpenIsHeld
  <2>1. replacement[c] = m \/ \E g \in Files : held[c][g] = m
    BY <1>3 DEF TableOK, OpenIsHeld
  <2>2. QED BY <2>1, DescriptorAssumption DEF None, Descriptors
<1>9. Frame(c)
  BY <1>2, <1>3 DEF Frame
<1>10. QED BY <1>4, <1>6, <1>7, <1>8, <1>9 DEF TableOK

\* A descriptor that is held is closed.
LEMMA CloseHeld ==
    ASSUME TableTypes, NEW c \in Callers, TableOK(c), NEW f \in Files, held[c][f] # None,
           fds' = [fds EXCEPT ![held[c][f]] = Closed],
           held' = [held EXCEPT ![c][f] = None],
           replacement' = replacement
    PROVE  TableTypes' /\ TableOK(c)' /\ Frame(c)
<1> DEFINE n == held[c][f]
<1>1. c # Nobody /\ c \in Owners /\ n \in Descriptors /\ None \in 0 .. MaxFds
  BY DescriptorAssumption DEF Owners, None, Descriptors, TableTypes
<1>2. fds[n] = Open(c, f, TRUE)
  BY DEF TableOK, HeldIsOpen
<1>3. fds[n].owner = c /\ fds[n].file = f
  BY <1>2 DEF Open
<1>4. replacement[c] # None => replacement[c] # n /\ replacement[c] \in Descriptors
  BY DescriptorAssumption DEF TableTypes, TableOK, ReplacementIsOpen, None, Descriptors
<1>5. \A g \in Files \ {f} : held[c][g] # None => held[c][g] # n /\ held[c][g] \in Descriptors
  <2> SUFFICES ASSUME NEW g \in Files \ {f}, held[c][g] # None
               PROVE  held[c][g] # n /\ held[c][g] \in Descriptors
    OBVIOUS
  <2>1. held[c][g] \in Descriptors
    BY DescriptorAssumption DEF TableTypes, None, Descriptors
  <2>2. fds[held[c][g]] = Open(c, g, TRUE)
    BY DEF TableOK, HeldIsOpen
  <2>3. fds[held[c][g]].file = g
    BY <2>2 DEF Open
  <2>4. QED BY <1>3, <2>1, <2>3
<1>6. /\ fds' \in [Descriptors -> Entries] /\ fds'[n] = Closed
      /\ \A m \in Descriptors \ {n} : fds'[m] = fds[m]
  BY <1>1, EntryFacts DEF TableTypes
<1>7. /\ held' \in [Callers -> [Files -> 0 .. MaxFds]]
      /\ held'[c][f] = None /\ \A g \in Files \ {f} : held'[c][g] = held[c][g]
  BY <1>1 DEF TableTypes
<1>8. TableTypes'
  BY <1>6, <1>7 DEF TableTypes
<1> HIDE DEF n
<1>9. HeldIsOpen(c)'
  BY <1>5, <1>6, <1>7 DEF TableOK, HeldIsOpen
<1>10. ReplacementIsOpen(c)'
  BY <1>4, <1>6, <1>7 DEF TableOK, ReplacementIsOpen
<1>11. OpenIsHeld(c)'
  <2> SUFFICES ASSUME NEW m \in Descriptors, fds'[m].owner = c
               PROVE  replacement[c] = m \/ \E g \in Files : held'[c][g] = m
    BY DEF OpenIsHeld
  <2>1. m # n
    BY <1>1, <1>6, EntryFacts
  <2>2. replacement[c] = m \/ \E g \in Files : held[c][g] = m
    BY <1>6, <2>1 DEF TableOK, OpenIsHeld
  <2>3. QED BY <1>7, <2>1, <2>2 DEF n
<1>12. Frame(c)
  BY <1>3, <1>6, EntryFacts DEF Frame
<1>13. QED BY <1>8, <1>9, <1>10, <1>11, <1>12 DEF TableOK

\* The original of a duplicate is closed, and the duplicate held in its place.
LEMMA ReplaceHeld ==
    ASSUME TableTypes, NEW c \in Callers, TableOK(c), NEW f \in Files, held[c][f] # None,
           replacement[c] # None, fds[replacement[c]] = Open(c, f, TRUE),
           fds' = [fds EXCEPT ![held[c][f]] = Closed],
           held' = [held EXCEPT ![c][f] = replacement[c]],
           replacement' = [replacement EXCEPT ![c] = None]
    PROVE  TableTypes' /\ TableOK(c)' /\ Frame(c)
<1> DEFINE n == held[c][f]
<1> DEFINE r == replacement[c]
<1>1. c # Nobody /\ c \in Owners /\ n \in Descriptors /\ r \in Descriptors
  BY DescriptorAssumption DEF Owners, None, Descriptors, TableTypes
<1>2. /\ fds[n] = Open(c, f, TRUE) /\ n # r
      /\ \A g \in Files : held[c][g] # r
  BY DEF TableOK, HeldIsOpen, ReplacementIsOpen
<1>3. fds[n].owner = c /\ fds[n].file = f
  BY <1>2 DEF Open
<1>4. \A g \in Files \ {f} : held[c][g] # None => held[c][g] # n /\ held[c][g] \in Descriptors
  <2> SUFFICES ASSUME NEW g \in Files \ {f}, held[c][g] # None
               PROVE  held[c][g] # n /\ held[c][g] \in Descriptors
    OBVIOUS
  <2>1. held[c][g] \in Descriptors
    BY DescriptorAssumption DEF TableTypes, None, Descriptors
  <2>2. fds[held[c][g]] = Open(c, g, TRUE)
    BY DEF TableOK, HeldIsOpen
  <2>3. fds[held[c][g]].file = g
    BY <2>2 DEF Open
  <2>4. QED BY <1>3, <2>1, <2>3
<1>5. /\ fds' \in [Descriptors -> Entries] /\ fds'[n] = Closed
      /\ \A m \in Descriptors \ {n} : fds'[m] = fds[m]
  BY <1>1, EntryFacts DEF TableTypes
<1>6. /\ held' \in [Callers -> [Files -> 0 .. MaxFds]]
      /\ held'[c][f] = r /\ \A g \in Files \ {f} : held'[c][g] = held[c][g]
      /\ replacement' \in [Callers -> 0 .. MaxFds] /\ replacement'[c] = None
  BY DescriptorAssumption DEF TableTypes, None
<1>7. TableTypes'
  BY <1>5, <1>6 DEF TableTypes
<1>8. fds'[r] = Open(c, f, TRUE)
  BY <1>1, <1>2, <1>5
<1> HIDE DEF n, r
<1>9. HeldIsOpen(c)'
  BY <1>4, <1>5, <1>6, <1>8 DEF TableOK, HeldIsOpen
<1>10. ReplacementIsOpen(c)'
  BY <1>6 DEF ReplacementIsOpen
<1>11. OpenIsHeld(c)'
  <2> SUFFICES ASSUME NEW m \in Descriptors, fds'[m].owner = c
               PROVE  \E g \in Files : held'[c][g] = m
    BY DEF OpenIsHeld
  <2>1. m # n
    BY <1>1, <1>5, EntryFacts
  <2>2. r = m \/ \E g \in Files : held[c][g] = m
    BY <1>5, <2>1 DEF TableOK, OpenIsHeld, r
  <2>3. QED BY <1>6, <2>1, <2>2 DEF n
<1>12. Frame(c)
  BY <1>3, <1>5, EntryFacts DEF Frame
<1>13. QED BY <1>7, <1>9, <1>10, <1>11, <1>12 DEF TableOK

\* A replacement that was not used is closed.
LEMMA CloseReplacement ==
    ASSUME TableTypes, NEW c \in Callers, TableOK(c), replacement[c] # None,
           fds' = [fds EXCEPT ![replacement[c]] = Closed],
           replacement' = [replacement EXCEPT ![c] = None],
           held' = held
    PROVE  TableTypes' /\ TableOK(c)' /\ Frame(c)
<1> DEFINE r == replacement[c]
<1>1. c # Nobody /\ r \in Descriptors
  BY DescriptorAssumption DEF None, Descriptors, TableTypes
<1>2. fds[r].owner = c /\ \A g \in Files : held[c][g] # r
  BY DEF TableOK, ReplacementIsOpen
<1>3. /\ fds' \in [Descriptors -> Entries] /\ fds'[r] = Closed
      /\ \A m \in Descriptors \ {r} : fds'[m] = fds[m]
  BY <1>1, EntryFacts DEF TableTypes
<1>4. replacement' \in [Callers -> 0 .. MaxFds] /\ replacement'[c] = None
  BY DescriptorAssumption DEF TableTypes, None
<1>5. TableTypes'
  BY <1>3, <1>4 DEF TableTypes
<1>6. \A g \in Files : held[c][g] # None => held[c][g] \in Descriptors
  BY DescriptorAssumption DEF TableTypes, None, Descriptors
<1> HIDE DEF r
<1>7. HeldIsOpen(c)'
  BY <1>2, <1>3, <1>6 DEF TableOK, HeldIsOpen
<1>8. ReplacementIsOpen(c)'
  BY <1>4 DEF ReplacementIsOpen
<1>9. OpenIsHeld(c)'
  <2> SUFFICES ASSUME NEW m \in Descriptors, fds'[m].owner = c
               PROVE  \E g \in Files : held'[c][g] = m
    BY DEF OpenIsHeld
  <2>1. m # r
    BY <1>1, <1>3, EntryFacts
  <2>2. QED BY <1>3, <2>1 DEF TableOK, OpenIsHeld, r
<1>10. Frame(c)
  BY <1>2, <1>3, EntryFacts DEF Frame
<1>11. QED BY <1>5, <1>7, <1>8, <1>9, <1>10 DEF TableOK

--------------------------------------------------------------------------------
(* What one step does to the other calls *)

\* What the invariant says of a call is left alone by a step of another call,
\* or of other code.
LEMMA Undisturbed ==
    ASSUME TypeOK, NEW c \in Callers, CallOK(c), NEW o, o # c, Frame(o),
           held'[c] = held[c], replacement'[c] = replacement[c],
           pc'[c] = pc[c], child'[c] = child[c]
    PROVE  CallOK(c)'
<1>1. c # Nobody /\ c \in Owners
  BY DescriptorAssumption DEF Owners
<1>2. \A n \in Descriptors : fds[n].owner = c \/ fds'[n].owner = c => fds'[n] = fds[n]
  BY <1>1 DEF Frame
<1>3. \A f \in Files : held[c][f] # None =>
          held[c][f] \in Descriptors /\ fds[held[c][f]] = Open(c, f, TRUE)
                                    /\ fds[held[c][f]].owner = c
  <2> SUFFICES ASSUME NEW f \in Files, held[c][f] # None
               PROVE  /\ held[c][f] \in Descriptors
                      /\ fds[held[c][f]] = Open(c, f, TRUE)
                      /\ fds[held[c][f]].owner = c
    OBVIOUS
  <2>1. held[c][f] \in Descriptors
    BY DescriptorAssumption DEF TypeOK, TableTypes, None, Descriptors
  <2>2. fds[held[c][f]] = Open(c, f, TRUE)
    BY DEF CallOK, TableOK, HeldIsOpen
  <2>3. QED BY <1>1, <2>1, <2>2, EntryFacts
<1>4. replacement[c] # None => replacement[c] \in Descriptors
  BY DescriptorAssumption DEF TypeOK, TableTypes, None, Descriptors
<1>5. HeldIsOpen(c)'
  BY <1>2, <1>3 DEF HeldIsOpen
<1>6. ReplacementIsOpen(c)'
  BY <1>2, <1>4 DEF CallOK, TableOK, ReplacementIsOpen
<1>7. OpenIsHeld(c)'
  BY <1>2 DEF CallOK, TableOK, OpenIsHeld
<1>8. At(c, "replace") => replacement[c] # None /\ fds[replacement[c]].owner = c
  BY DEF CallOK, TableOK, StageOK, ReplacementByStage, ReplacementIsOpen
<1>9. ReplacementByStage(c)'
  BY <1>2, <1>4, <1>8 DEF CallOK, StageOK, ReplacementByStage, At, File
<1>10. HoldsByStage(c)' /\ AwayFromStandard(c)' /\ ChildOK(c)'
  BY DEF CallOK, StageOK, HoldsByStage, AwayFromStandard, ChildOK, At, File
<1>11. QED BY <1>5, <1>6, <1>7, <1>9, <1>10 DEF CallOK, TableOK, StageOK

--------------------------------------------------------------------------------
(* The steps of a call *)

\* Where a call may be, by stage.
LEMMA PointFacts ==
    ASSUME TypeOK, NEW c \in Callers
    PROVE  /\ At(c, "open") => File(c) \in Files
           /\ At(c, "close") => File(c) \in Files \ Captures
           /\ At(c, "move") \/ At(c, "replace") \/ At(c, "release") => File(c) \in Captures
BY DEF TypeOK, Points, At, File, Captures, Files

LEMMA GotoFacts ==
    ASSUME TypeOK, NEW c \in Callers, NEW stage, NEW file,
           <<stage, file>> \in Points, Goto(c, stage, file)
    PROVE  /\ pc' \in [Callers -> Points]
           /\ pc'[c][1] = stage /\ pc'[c][2] = file
BY DEF TypeOK, Goto

\* After a file comes the next, or the compiler.
LEMMA ProceedFacts ==
    ASSUME TypeOK, NEW c \in Callers, Proceed(c), File(c) \in Files \ {"readErr"}
    PROVE  /\ pc' \in [Callers -> Points]
           /\ pc'[c][1] \in {"open", "spawn"}
           /\ \A f \in Files : f \in Holds(pc'[c][1], pc'[c][2]) <=>
                  File(c) \in Captures /\ f \in Holds("move", File(c))
<1>1. CASE File(c) = "in"
  <2>1. pc' \in [Callers -> Points] /\ pc'[c][1] = "spawn" /\ pc'[c][2] = "none"
    <3>1. <<"spawn", "none">> \in Points
      BY DEF Points
    <3>2. Goto(c, "spawn", "none")
      BY <1>1 DEF Proceed
    <3>3. QED BY <3>1, <3>2, GotoFacts
  <2>2. QED BY <1>1, <2>1 DEF Holds, Earlier, Captures, Files
<1>2. CASE File(c) # "in"
  <2>1. Following[File(c)] \in {"out", "err", "in", "readErr"}
    BY <1>2 DEF Following, Files
  <2>2. /\ pc' \in [Callers -> Points]
        /\ pc'[c][1] = "open" /\ pc'[c][2] = Following[File(c)]
    <3>1. <<"open", Following[File(c)]>> \in Points
      BY <2>1 DEF Points, Files
    <3>2. Goto(c, "open", Following[File(c)])
      BY <1>2 DEF Proceed
    <3>3. QED BY <3>1, <3>2, GotoFacts
  <2>3. QED BY <1>2, <2>2 DEF Holds, Earlier, Captures, Files, Following
<1>3. QED BY <1>1, <1>2

\* At an error, whatever is held is given back.
LEMMA FailsStep ==
    ASSUME TypeOK, NEW c \in Callers, CallOK(c), Fails(c)
    PROVE  TypeOK' /\ CallOK(c)' /\ Frame(c)
<1>1. pc' \in [Callers -> Points] /\ pc'[c][1] = "unwind"
  <2>1. <<"unwind", "none">> \in Points
    BY DEF Points
  <2>2. QED BY <2>1, GotoFacts DEF Fails
<1>2. TypeOK'
  BY <1>1 DEF TypeOK, TableTypes, Fails
<1>3. TableOK(c)'
  BY DEF Fails, CallOK, TableOK, HeldIsOpen, ReplacementIsOpen, OpenIsHeld
<1>4. StageOK(c)'
  BY <1>1 DEF StageOK, HoldsByStage, AwayFromStandard, ReplacementByStage, At
<1>5. ChildOK(c)' /\ Frame(c)
  BY DEF Fails, CallOK, ChildOK, Frame
<1>6. QED BY <1>2, <1>3, <1>4, <1>5 DEF CallOK

LEMMA BeginStep ==
    ASSUME TypeOK, NEW c \in Callers, CallOK(c), Begin(c)
    PROVE  TypeOK' /\ CallOK(c)' /\ Frame(c)
<1>1. pc' \in [Callers -> Points] /\ pc'[c][1] = "open" /\ pc'[c][2] = "source"
  <2>1. <<"open", "source">> \in Points
    BY DEF Points, Files
  <2>2. QED BY <2>1, GotoFacts DEF Begin
<1>2. child' \in [Callers -> [Descriptors -> Entries]] /\ child'[c] = NoTable
  BY EntryFacts DEF TypeOK, Begin, NoTable
<1>3. TypeOK'
  BY <1>1, <1>2 DEF TypeOK, TableTypes, Begin
<1>4. TableOK(c)'
  BY DEF Begin, CallOK, TableOK, HeldIsOpen, ReplacementIsOpen, OpenIsHeld
<1>5. HoldsByStage(c)' /\ AwayFromStandard(c)' /\ ReplacementByStage(c)'
  BY <1>1 DEF Begin, CallOK, StageOK, HoldsByStage, AwayFromStandard, ReplacementByStage, At,
              File, Holds, Earlier, Captures, Files
<1>6. ChildOK(c)' /\ Frame(c)
  BY <1>2 DEF Begin, ChildOK, Frame, NoTable
<1>7. QED BY <1>3, <1>4, <1>5, <1>6 DEF CallOK, StageOK

LEMMA OpenFileStep ==
    ASSUME TypeOK, NEW c \in Callers, CallOK(c), OpenFile(c)
    PROVE  TypeOK' /\ CallOK(c)' /\ Frame(c)
<1> DEFINE f == File(c)
<1> DEFINE n == Lowest(FreeFrom(0))
<1> SUFFICES ASSUME /\ FreeFrom(0) # {}
                    /\ fds' = [fds EXCEPT ![n] = Open(c, f, TRUE)]
                    /\ held' = [held EXCEPT ![c][f] = n]
                    /\ Goto(c, IF f \in Captures THEN "move" ELSE "close", f)
                    /\ UNCHANGED <<replacement, child>>
             PROVE  TypeOK' /\ CallOK(c)' /\ Frame(c)
  BY FailsStep DEF OpenFile, Captures
<1>1. At(c, "open") /\ f \in Files
  BY PointFacts DEF OpenFile
<1>2. n \in Descriptors /\ fds[n] = Closed
  BY LowestIsFree
<1> HIDE DEF n
<1>3. /\ pc' \in [Callers -> Points] /\ pc'[c][2] = f
      /\ pc'[c][1] = IF f \in Captures THEN "move" ELSE "close"
  <2>1. <<IF f \in Captures THEN "move" ELSE "close", f>> \in Points
    BY <1>1 DEF Points
  <2>2. QED BY <2>1, GotoFacts
<1>4. \A g \in Files : held[c][g] # None <=> g \in Holds("open", f)
  BY <1>1 DEF CallOK, StageOK, HoldsByStage, At
<1>5. held[c][f] = None
  BY <1>1, <1>4 DEF Holds, Earlier
<1>6. TableTypes' /\ TableOK(c)' /\ Frame(c)
  <2>1. TableTypes /\ TableOK(c) /\ replacement' = replacement
    BY DEF TypeOK, CallOK
  <2> HIDE DEF f
  <2>2. QED BY <1>1, <1>2, <1>5, <2>1, OpenHolds
<1>7. TypeOK'
  BY <1>3, <1>6 DEF TypeOK
<1>8. /\ held'[c][f] # None
      /\ \A g \in Files \ {f} : held'[c][g] = held[c][g]
  BY <1>1, <1>2, DescriptorAssumption DEF TypeOK, TableTypes, Descriptors, None
<1>9. HoldsByStage(c)'
  BY <1>3, <1>4, <1>8 DEF HoldsByStage, At, File, Holds
<1>10. AwayFromStandard(c)'
  BY <1>1, <1>3, <1>8 DEF CallOK, StageOK, AwayFromStandard, At, File, Captures, Files
<1>11. ReplacementByStage(c)'
  BY <1>1, <1>3 DEF CallOK, StageOK, ReplacementByStage, At
<1>12. ChildOK(c)'
  BY DEF CallOK, ChildOK
<1>13. QED BY <1>6, <1>7, <1>9, <1>10, <1>11, <1>12 DEF CallOK, StageOK

LEMMA CloseFileStep ==
    ASSUME TypeOK, NEW c \in Callers, CallOK(c), CloseFile(c)
    PROVE  TypeOK' /\ CallOK(c)' /\ Frame(c)
<1> DEFINE f == File(c)
<1>1. At(c, "close") /\ f \in Files \ Captures
  BY PointFacts DEF CloseFile
<1>2. \A g \in Files : held[c][g] # None <=> g \in Holds("close", f)
  BY <1>1 DEF CallOK, StageOK, HoldsByStage, At
<1>3. held[c][f] # None /\ \A g \in Files \ {f} : held[c][g] = None
  BY <1>1, <1>2 DEF Holds, Earlier, Captures
<1>4. TableTypes' /\ TableOK(c)' /\ Frame(c)
  <2>1. TableTypes /\ TableOK(c) /\ replacement' = replacement
    BY DEF TypeOK, CallOK, CloseFile
  <2>2. /\ fds' = [fds EXCEPT ![held[c][f]] = Closed]
        /\ held' = [held EXCEPT ![c][f] = None]
    BY DEF CloseFile
  <2> HIDE DEF f
  <2>3. QED BY <1>1, <1>3, <2>1, <2>2, CloseHeld
<1>5. \A g \in Files : held'[c][g] = None
  BY <1>1, <1>3 DEF CloseFile, TypeOK, TableTypes
<1>6. replacement'[c] = None /\ child' = child
  BY <1>1 DEF CloseFile, CallOK, StageOK, ReplacementByStage, At
<1>7. CASE f # "readErr" /\ Proceed(c)
  <2>1. /\ pc' \in [Callers -> Points] /\ pc'[c][1] \in {"open", "spawn"}
        /\ \A g \in Files : ~(g \in Holds(pc'[c][1], pc'[c][2]))
    BY <1>1, <1>7, ProceedFacts
  <2>2. HoldsByStage(c)' /\ AwayFromStandard(c)' /\ ReplacementByStage(c)'
    BY <1>5, <1>6, <2>1, DescriptorAssumption
       DEF HoldsByStage, AwayFromStandard, ReplacementByStage, At, File, Captures, Files, None
  <2>3. QED BY <1>4, <1>6, <2>1, <2>2 DEF TypeOK, CallOK, StageOK, ChildOK
<1>8. CASE Goto(c, "unwind", "none")
  <2>1. pc' \in [Callers -> Points] /\ pc'[c][1] = "unwind"
    <3>1. <<"unwind", "none">> \in Points
      BY DEF Points
    <3>2. QED BY <1>8, <3>1, GotoFacts
  <2>2. StageOK(c)'
    BY <2>1 DEF StageOK, HoldsByStage, AwayFromStandard, ReplacementByStage, At
  <2>3. QED BY <1>4, <1>6, <2>1, <2>2 DEF TypeOK, CallOK, ChildOK
<1>9. QED BY <1>7, <1>8 DEF CloseFile

LEMMA DuplicateStep ==
    ASSUME TypeOK, NEW c \in Callers, CallOK(c), Duplicate(c)
    PROVE  TypeOK' /\ CallOK(c)' /\ Frame(c)
<1> DEFINE f == File(c)
<1>1. At(c, "move") /\ f \in Captures
  BY PointFacts DEF Duplicate
<1>2. \A g \in Files : held[c][g] # None <=> g \in Holds("move", f)
  BY <1>1 DEF CallOK, StageOK, HoldsByStage, At
<1>3. replacement[c] = None
  BY <1>1 DEF CallOK, StageOK, ReplacementByStage, At
<1>4. CASE held[c][f] > 2 /\ Proceed(c) /\ UNCHANGED <<fds, held, replacement, child>>
  <2>1. /\ pc' \in [Callers -> Points] /\ pc'[c][1] \in {"open", "spawn"}
        /\ \A g \in Files : g \in Holds(pc'[c][1], pc'[c][2]) <=> g \in Holds("move", f)
    BY <1>1, <1>4, ProceedFacts DEF Captures, Files
  <2>2. HoldsByStage(c)'
    BY <1>2, <1>4, <2>1 DEF HoldsByStage, File
  <2>3. AwayFromStandard(c)'
    BY <1>1, <1>4 DEF CallOK, StageOK, AwayFromStandard, At
  <2>4. ReplacementByStage(c)'
    BY <1>3, <1>4, <2>1 DEF ReplacementByStage, At
  <2>5. TableOK(c)' /\ ChildOK(c)' /\ Frame(c)
    BY <1>4 DEF CallOK, TableOK, HeldIsOpen, ReplacementIsOpen, OpenIsHeld, ChildOK, Frame
  <2>6. TypeOK'
    BY <1>4, <2>1 DEF TypeOK, TableTypes
  <2>7. QED BY <2>2, <2>3, <2>4, <2>5, <2>6 DEF CallOK, StageOK
<1> DEFINE n == Lowest(FreeFrom(3))
<1>5. CASE /\ FreeFrom(3) # {}
           /\ fds' = [fds EXCEPT ![n] = Open(c, f, TRUE)]
           /\ replacement' = [replacement EXCEPT ![c] = n]
           /\ Goto(c, "replace", f)
           /\ UNCHANGED <<held, child>>
  <2>1. n \in Descriptors /\ n >= 3 /\ fds[n] = Closed
    BY <1>5, LowestIsFree
  <2>2. n # None /\ n > 2
    BY <2>1, DescriptorAssumption DEF None, Descriptors
  <2>3. pc' \in [Callers -> Points] /\ pc'[c][1] = "replace" /\ pc'[c][2] = f
    <3>1. <<"replace", f>> \in Points
      BY <1>1 DEF Points
    <3>2. QED BY <1>5, <3>1, GotoFacts
  <2> HIDE DEF n
  <2>4. TableTypes' /\ TableOK(c)' /\ Frame(c)
    <3>1. TableTypes /\ TableOK(c) /\ held' = held /\ f \in Files
      BY <1>1, <1>5 DEF TypeOK, CallOK, Captures, Files
    <3> HIDE DEF f
    <3>2. QED BY <1>3, <1>5, <2>1, <3>1, DuplicateHolds
  <2>5. /\ replacement'[c] = n /\ fds'[n] = Open(c, f, TRUE)
    BY <1>5, <2>1 DEF TypeOK, TableTypes
  <2>6. HoldsByStage(c)'
    BY <1>2, <1>5, <2>3 DEF HoldsByStage, At, File, Holds
  <2>7. AwayFromStandard(c)'
    BY <1>1, <1>5, <2>3 DEF CallOK, StageOK, AwayFromStandard, At, File
  <2>8. ReplacementByStage(c)'
    BY <2>2, <2>3, <2>5 DEF ReplacementByStage, At, File
  <2>9. ChildOK(c)' /\ TypeOK'
    BY <1>5, <2>3, <2>4 DEF CallOK, ChildOK, TypeOK
  <2>10. QED BY <2>4, <2>6, <2>7, <2>8, <2>9 DEF CallOK, StageOK
<1>6. CASE Fails(c)
  BY <1>6, FailsStep
<1>7. QED BY <1>4, <1>5, <1>6 DEF Duplicate

LEMMA ReplaceStep ==
    ASSUME TypeOK, NEW c \in Callers, CallOK(c), Replace(c)
    PROVE  TypeOK' /\ CallOK(c)' /\ Frame(c)
<1> DEFINE f == File(c)
<1>1. At(c, "replace") /\ f \in Captures /\ f \in Files
  BY PointFacts DEF Replace, Captures, Files
<1>2. \A g \in Files : held[c][g] # None <=> g \in Holds("replace", f)
  BY <1>1 DEF CallOK, StageOK, HoldsByStage, At
<1>3. held[c][f] # None
  BY <1>1, <1>2 DEF Holds
<1>4. /\ replacement[c] # None /\ replacement[c] > 2
      /\ fds[replacement[c]] = Open(c, f, TRUE)
  BY <1>1 DEF CallOK, StageOK, ReplacementByStage
<1>5. TableTypes /\ TableOK(c) /\ fds' = [fds EXCEPT ![held[c][f]] = Closed] /\ child' = child
  BY DEF TypeOK, CallOK, Replace
<1>6. CASE /\ held' = [held EXCEPT ![c][f] = replacement[c]]
           /\ replacement' = [replacement EXCEPT ![c] = None]
           /\ Proceed(c)
  <2>1. TableTypes' /\ TableOK(c)' /\ Frame(c)
    <3> HIDE DEF f
    <3>1. QED BY <1>1, <1>3, <1>4, <1>5, <1>6, ReplaceHeld
  <2>2. /\ pc' \in [Callers -> Points] /\ pc'[c][1] \in {"open", "spawn"}
        /\ \A g \in Files : g \in Holds(pc'[c][1], pc'[c][2]) <=> g \in Holds("move", f)
    BY <1>1, <1>6, ProceedFacts DEF Captures, Files
  <2>3. /\ held'[c][f] = replacement[c] /\ \A g \in Files \ {f} : held'[c][g] = held[c][g]
        /\ replacement'[c] = None
    BY <1>1, <1>6 DEF TypeOK, TableTypes
  <2>4. HoldsByStage(c)'
    BY <1>1, <1>2, <1>4, <2>2, <2>3 DEF HoldsByStage, File, Holds
  <2>5. AwayFromStandard(c)'
    BY <1>1, <1>4, <2>3 DEF CallOK, StageOK, AwayFromStandard, At, Captures, Files
  <2>6. ReplacementByStage(c)'
    BY <2>2, <2>3 DEF ReplacementByStage, At
  <2>7. ChildOK(c)' /\ TypeOK'
    BY <1>5, <2>1, <2>2 DEF CallOK, ChildOK, TypeOK
  <2>8. QED BY <2>1, <2>4, <2>5, <2>6, <2>7 DEF CallOK, StageOK
<1>7. CASE /\ held' = [held EXCEPT ![c][f] = None]
           /\ Goto(c, "unwind", "none")
           /\ UNCHANGED replacement
  <2>1. TableTypes' /\ TableOK(c)' /\ Frame(c)
    <3> HIDE DEF f
    <3>1. QED BY <1>1, <1>3, <1>5, <1>7, CloseHeld
  <2>2. pc' \in [Callers -> Points] /\ pc'[c][1] = "unwind"
    <3>1. <<"unwind", "none">> \in Points
      BY DEF Points
    <3>2. QED BY <1>7, <3>1, GotoFacts
  <2>3. StageOK(c)'
    BY <2>2 DEF StageOK, HoldsByStage, AwayFromStandard, ReplacementByStage, At
  <2>4. QED BY <1>5, <2>1, <2>2, <2>3 DEF TypeOK, CallOK, ChildOK
<1>8. QED BY <1>6, <1>7 DEF Replace

LEMMA ReleaseStep ==
    ASSUME TypeOK, NEW c \in Callers, CallOK(c), Release(c)
    PROVE  TypeOK' /\ CallOK(c)' /\ Frame(c)
<1> DEFINE f == File(c)
<1>1. At(c, "release") /\ f \in Captures /\ f \in Files
  BY PointFacts DEF Release, Captures, Files
<1>2. \A g \in Files : held[c][g] # None <=> g \in Holds("release", f)
  BY <1>1 DEF CallOK, StageOK, HoldsByStage, At
<1>3. held[c][f] # None
  BY <1>1, <1>2 DEF Holds, Captures
<1>4. /\ fds' = [fds EXCEPT ![held[c][f]] = Closed]
      /\ held' = [held EXCEPT ![c][f] = None]
      /\ replacement' = replacement /\ child' = child
  BY DEF Release
<1>5. TableTypes' /\ TableOK(c)' /\ Frame(c)
  <2>1. TableTypes /\ TableOK(c)
    BY DEF TypeOK, CallOK
  <2> HIDE DEF f
  <2>2. QED BY <1>1, <1>3, <1>4, <2>1, CloseHeld
<1>6. held'[c][f] = None /\ \A g \in Files \ {f} : held'[c][g] = held[c][g]
  BY <1>1, <1>4 DEF TypeOK, TableTypes
<1>7. /\ pc' \in [Callers -> Points]
      /\ pc'[c][1] \in {"open", "release"}
      /\ \A g \in Files : g \in Holds(pc'[c][1], pc'[c][2]) <=> g \in Holds("release", f) \ {f}
  <2>1. CASE f = "in"
    <3>1. <<"release", "out">> \in Points /\ Goto(c, "release", "out")
      BY <2>1 DEF Points, Captures, Release
    <3>2. QED BY <2>1, <3>1, GotoFacts DEF Holds, Captures, Files, Earlier
  <2>2. CASE f = "out"
    <3>1. <<"release", "err">> \in Points /\ Goto(c, "release", "err")
      BY <2>2 DEF Points, Captures, Release
    <3>2. QED BY <2>2, <3>1, GotoFacts DEF Holds, Captures, Files, Earlier
  <2>3. CASE f = "err"
    <3>1. <<"open", "readOut">> \in Points /\ Goto(c, "open", "readOut")
      BY <2>3 DEF Points, Files, Release
    <3>2. QED BY <2>3, <3>1, GotoFacts DEF Holds, Captures, Files, Earlier
  <2>4. QED BY <1>1, <2>1, <2>2, <2>3 DEF Captures
<1>8. HoldsByStage(c)'
  BY <1>2, <1>6, <1>7 DEF HoldsByStage, File
<1>9. AwayFromStandard(c)'
  BY <1>1, <1>6, DescriptorAssumption
     DEF CallOK, StageOK, AwayFromStandard, At, Captures, Files, None
<1>10. ReplacementByStage(c)'
  BY <1>1, <1>4, <1>7 DEF CallOK, StageOK, ReplacementByStage, At
<1>11. ChildOK(c)' /\ TypeOK'
  BY <1>4, <1>5, <1>7 DEF CallOK, ChildOK, TypeOK
<1>12. QED BY <1>5, <1>8, <1>9, <1>10, <1>11 DEF CallOK, StageOK

LEMMA UnwindStep ==
    ASSUME TypeOK, NEW c \in Callers, CallOK(c), Unwind(c)
    PROVE  TypeOK' /\ CallOK(c)' /\ Frame(c)
<1>1. At(c, "unwind") /\ child' = child /\ TableTypes /\ TableOK(c)
  BY DEF Unwind, TypeOK, CallOK
<1>2. ASSUME NEW f \in Files, held[c][f] # None,
             fds' = [fds EXCEPT ![held[c][f]] = Closed],
             held' = [held EXCEPT ![c][f] = None],
             UNCHANGED <<pc, replacement>>
      PROVE  TypeOK' /\ CallOK(c)' /\ Frame(c)
  <2>1. TableTypes' /\ TableOK(c)' /\ Frame(c)
    BY <1>1, <1>2, CloseHeld
  <2>2. StageOK(c)'
    BY <1>1, <1>2 DEF StageOK, HoldsByStage, AwayFromStandard, ReplacementByStage, At
  <2>3. QED BY <1>1, <1>2, <2>1, <2>2 DEF TypeOK, CallOK, ChildOK
<1>3. CASE /\ replacement[c] # None
           /\ fds' = [fds EXCEPT ![replacement[c]] = Closed]
           /\ replacement' = [replacement EXCEPT ![c] = None]
           /\ UNCHANGED <<pc, held>>
  <2>1. TableTypes' /\ TableOK(c)' /\ Frame(c)
    BY <1>1, <1>3, CloseReplacement
  <2>2. StageOK(c)'
    BY <1>1, <1>3 DEF StageOK, HoldsByStage, AwayFromStandard, ReplacementByStage, At
  <2>3. QED BY <1>1, <1>3, <2>1, <2>2 DEF TypeOK, CallOK, ChildOK
<1>4. CASE /\ held[c] = Nothing /\ replacement[c] = None
           /\ Goto(c, "idle", "none")
           /\ UNCHANGED <<fds, held, replacement>>
  <2>1. pc' \in [Callers -> Points] /\ pc'[c][1] = "idle" /\ pc'[c][2] = "none"
    <3>1. <<"idle", "none">> \in Points
      BY DEF Points
    <3>2. QED BY <1>4, <3>1, GotoFacts
  <2>2. HoldsByStage(c)' /\ AwayFromStandard(c)'
    BY <1>4, <2>1, DescriptorAssumption
       DEF HoldsByStage, AwayFromStandard, At, File, Holds, Nothing, Captures, Files, None
  <2>3. ReplacementByStage(c)'
    BY <1>4, <2>1 DEF ReplacementByStage, At
  <2>4. TableOK(c)' /\ Frame(c)
    BY <1>1, <1>4 DEF TableOK, HeldIsOpen, ReplacementIsOpen, OpenIsHeld, Frame
  <2>5. TypeOK' /\ ChildOK(c)'
    BY <1>1, <1>4, <2>1 DEF TypeOK, TableTypes, CallOK, ChildOK
  <2>6. QED BY <2>2, <2>3, <2>4, <2>5 DEF CallOK, StageOK
<1>5. QED BY <1>2, <1>3, <1>4 DEF Unwind

\* No table is that of a failed file action.
LEMMA TableIsNotFailed ==
    ASSUME NEW table \in [Descriptors -> Entries]
    PROVE  table # Failed
<1> SUFFICES ASSUME table = Failed PROVE FALSE
  OBVIOUS
<1>1. DOMAIN table = Descriptors
  OBVIOUS
<1>2. DOMAIN table = {}
  BY DEF Failed
<1>3. 0 \in Descriptors
  BY DescriptorAssumption DEF Descriptors
<1>4. QED BY <1>1, <1>2, <1>3

LEMMA SpawnStep ==
    ASSUME TypeOK, NEW c \in Callers, CallOK(c), Spawn(c)
    PROVE  TypeOK' /\ CallOK(c)' /\ Frame(c)
<1>1. CASE Fails(c)
  BY <1>1, FailsStep
<1>2. CASE /\ ChildTable(c) # Failed
           /\ child' = [child EXCEPT ![c] = ChildTable(c)]
           /\ Goto(c, "release", "in")
           /\ UNCHANGED <<fds, held, replacement>>
  <2>1. At(c, "spawn")
    BY DEF Spawn
  <2>2. pc' \in [Callers -> Points] /\ pc'[c][1] = "release" /\ pc'[c][2] = "in"
    <3>1. <<"release", "in">> \in Points
      BY DEF Points, Captures
    <3>2. QED BY <1>2, <3>1, GotoFacts
  <2>3. \A f \in Files : held[c][f] # None <=> f \in Captures
    BY <2>1 DEF CallOK, StageOK, HoldsByStage, At, Holds
  <2>4. \A f \in Captures : /\ f \in Files /\ held[c][f] \in Descriptors /\ held[c][f] > 2
                           /\ fds[held[c][f]] = Open(c, f, TRUE)
    <3> SUFFICES ASSUME NEW f \in Captures
                 PROVE  /\ f \in Files /\ held[c][f] \in Descriptors /\ held[c][f] > 2
                        /\ fds[held[c][f]] = Open(c, f, TRUE)
      OBVIOUS
    <3>1. f \in Files
      BY DEF Captures, Files
    <3>2. held[c][f] \in Descriptors
      BY <2>3, <3>1, DescriptorAssumption DEF TypeOK, TableTypes, None, Descriptors
    <3>3. held[c][f] > 2
      BY <2>1 DEF CallOK, StageOK, AwayFromStandard, At
    <3>4. fds[held[c][f]] = Open(c, f, TRUE)
      BY <2>3, <3>1 DEF CallOK, TableOK, HeldIsOpen
    <3>5. QED BY <3>1, <3>2, <3>3, <3>4
  <2>5. \A f \in Captures, g \in Captures : f # g => held[c][f] # held[c][g]
    <3>1. ASSUME NEW f \in Captures PROVE fds[held[c][f]].file = f
      <4>1. fds[held[c][f]] = Open(c, f, TRUE)
        BY <2>4
      <4>2. QED BY <4>1 DEF Open
    <3>2. QED BY <3>1
  <2> DEFINE i == held[c]["in"]
  <2> DEFINE o == held[c]["out"]
  <2> DEFINE e == held[c]["err"]
  <2>6. i \in Descriptors /\ i > 2 /\ fds[i] = Open(c, "in", TRUE)
    BY <2>4 DEF Captures
  <2>7. o \in Descriptors /\ o > 2 /\ fds[o] = Open(c, "out", TRUE)
    BY <2>4 DEF Captures
  <2>8. e \in Descriptors /\ e > 2 /\ fds[e] = Open(c, "err", TRUE)
    BY <2>4 DEF Captures
  <2>9. i # o /\ i # e /\ o # e
    BY <2>5 DEF Captures
  <2>10. 0 \in Descriptors /\ 1 \in Descriptors /\ 2 \in Descriptors
    BY DescriptorAssumption DEF Descriptors
  <2>11. PICK s0 \in Descriptors : s0 = 0
    BY <2>10
  <2>12. PICK s1 \in Descriptors : s1 = 1
    BY <2>10
  <2>13. PICK s2 \in Descriptors : s2 = 2
    BY <2>10
  <2>14. s0 # s1 /\ s0 # s2 /\ s1 # s2
    BY <2>11, <2>12, <2>13
  <2>15. i # s0 /\ i # s1 /\ i # s2
    BY <2>6, <2>11, <2>12, <2>13
  <2>16. o # s0 /\ o # s1 /\ o # s2
    BY <2>7, <2>11, <2>12, <2>13
  <2>17. e # s0 /\ e # s1 /\ e # s2
    BY <2>8, <2>11, <2>12, <2>13
  <2> DEFINE t1 == Duplicated(fds, i, s0)
  <2> DEFINE t2 == Duplicated(t1, o, s1)
  <2> DEFINE t3 == Duplicated(t2, e, s2)
  <2>18. ChildTable(c) = [n \in Descriptors |-> IF n >= 3 \/ t3[n].cloexec THEN Closed ELSE t3[n]]
    BY <1>2, <2>11, <2>12, <2>13 DEF ChildTable
  <2>19. /\ t3 \in [Descriptors -> Entries]
         /\ t3[s0] = Open(c, "in", FALSE) /\ t3[s1] = Open(c, "out", FALSE)
         /\ t3[s2] = Open(c, "err", FALSE)
    <3> HIDE DEF i, o, e
    <3>1. fds \in [Descriptors -> Entries]
      BY DEF TypeOK, TableTypes
    <3>2. t1 = Duplicated(fds, i, s0) /\ t2 = Duplicated(t1, o, s1) /\ t3 = Duplicated(t2, e, s2)
      OBVIOUS
    <3> HIDE DEF t1, t2, t3
    <3>3. \A f \in Files, b \in BOOLEAN : Open(c, f, b) \in Entries
      BY EntryFacts DEF Owners
    <3>4. t1 = [n \in Descriptors |-> IF n = i THEN Closed
                                     ELSE IF n = s0 THEN Open(c, "in", FALSE)
                                     ELSE fds[n]]
      <4>1. i # s0 /\ i \in Descriptors
        BY <2>6, <2>15
      <4>2. t1 = Duplicated(fds, i, s0)
        BY <3>2
      <4>3. fds # Failed
        BY <3>1, TableIsNotFailed
      <4>4. fds[i] # Closed /\ fds[i].owner = c /\ fds[i].file = "in"
        BY <2>6, DescriptorAssumption DEF Open, Closed
      <4>5. QED BY <4>1, <4>2, <4>3, <4>4, <3>1 DEF Duplicated
    <3>5. /\ t1 \in [Descriptors -> Entries] /\ t1[s0] = Open(c, "in", FALSE)
          /\ t1[o] = Open(c, "out", TRUE) /\ t1[e] = Open(c, "err", TRUE)
      <4>1. t1 \in [Descriptors -> Entries]
        BY <3>1, <3>3, <3>4, EntryFacts DEF Files
      <4>2. QED BY <2>7, <2>8, <2>9, <2>15, <2>16, <2>17, <3>4, <4>1
    <3>6. t2 = [n \in Descriptors |-> IF n = o THEN Closed
                                     ELSE IF n = s1 THEN Open(c, "out", FALSE)
                                     ELSE t1[n]]
      <4>1. o # s1 /\ o \in Descriptors
        BY <2>7, <2>16
      <4>2. t2 = Duplicated(t1, o, s1)
        BY <3>2
      <4>3. t1 # Failed
        BY <3>5, TableIsNotFailed
      <4>4. t1[o] # Closed /\ t1[o].owner = c /\ t1[o].file = "out"
        BY <3>5, DescriptorAssumption DEF Open, Closed
      <4>5. QED BY <4>1, <4>2, <4>3, <4>4, <3>5 DEF Duplicated
    <3>7. /\ t2 \in [Descriptors -> Entries] /\ t2[s0] = Open(c, "in", FALSE)
          /\ t2[s1] = Open(c, "out", FALSE) /\ t2[e] = Open(c, "err", TRUE)
      <4>1. t2 \in [Descriptors -> Entries]
        BY <3>3, <3>5, <3>6, EntryFacts DEF Files
      <4>2. QED BY <2>8, <2>9, <2>14, <2>16, <2>17, <3>5, <3>6, <4>1
    <3>8. t3 = [n \in Descriptors |-> IF n = e THEN Closed
                                     ELSE IF n = s2 THEN Open(c, "err", FALSE)
                                     ELSE t2[n]]
      <4>1. e # s2 /\ e \in Descriptors
        BY <2>8, <2>17
      <4>2. t3 = Duplicated(t2, e, s2)
        BY <3>2
      <4>3. t2 # Failed
        BY <3>7, TableIsNotFailed
      <4>4. t2[e] # Closed /\ t2[e].owner = c /\ t2[e].file = "err"
        BY <3>7, DescriptorAssumption DEF Open, Closed
      <4>5. QED BY <4>1, <4>2, <4>3, <4>4, <3>7 DEF Duplicated
    <3>9. QED
      <4>1. t3 \in [Descriptors -> Entries]
        BY <3>3, <3>7, <3>8, EntryFacts DEF Files
      <4>2. QED BY <2>14, <2>17, <3>7, <3>8, <4>1
  <2> HIDE DEF i, o, e, t1, t2, t3
  <2>20. /\ ChildTable(c) \in [Descriptors -> Entries]
         /\ ChildTable(c)[0] = Open(c, "in", FALSE) /\ ChildTable(c)[1] = Open(c, "out", FALSE)
         /\ ChildTable(c)[2] = Open(c, "err", FALSE)
         /\ \A n \in Descriptors : n > 2 => ChildTable(c)[n] = Closed
    <3>1. /\ ~Open(c, "in", FALSE).cloexec /\ ~Open(c, "out", FALSE).cloexec
          /\ ~Open(c, "err", FALSE).cloexec
      BY DEF Open
    <3>2. ChildTable(c)[s0] = Open(c, "in", FALSE)
      <4>1. ~(s0 >= 3)
        BY <2>11
      <4>2. t3[s0] = Open(c, "in", FALSE) /\ ~t3[s0].cloexec
        BY <2>19, <3>1
      <4>3. QED BY <2>18, <4>1, <4>2
    <3>3. ChildTable(c)[s1] = Open(c, "out", FALSE)
      <4>1. ~(s1 >= 3)
        BY <2>12
      <4>2. t3[s1] = Open(c, "out", FALSE) /\ ~t3[s1].cloexec
        BY <2>19, <3>1
      <4>3. QED BY <2>18, <4>1, <4>2
    <3>4. ChildTable(c)[s2] = Open(c, "err", FALSE)
      <4>1. ~(s2 >= 3)
        BY <2>13
      <4>2. t3[s2] = Open(c, "err", FALSE) /\ ~t3[s2].cloexec
        BY <2>19, <3>1
      <4>3. QED BY <2>18, <4>1, <4>2
    <3>5. \A n \in Descriptors : n > 2 => ChildTable(c)[n] = Closed
      BY <2>18 DEF Descriptors
    <3>6. ChildTable(c) \in [Descriptors -> Entries]
      BY <2>18, <2>19, EntryFacts
    <3>7. QED BY <2>11, <2>12, <2>13, <3>2, <3>3, <3>4, <3>5, <3>6
  <2>21. child' \in [Callers -> [Descriptors -> Entries]] /\ child'[c] = ChildTable(c)
    BY <1>2, <2>20 DEF TypeOK
  <2>22. ChildOK(c)'
    <3>1. \A n \in Descriptors : n = 0 \/ n = 1 \/ n = 2 \/ n > 2
      BY DEF Descriptors
    <3>2. QED BY <2>20, <2>21, <3>1 DEF ChildOK, Descriptors
  <2>23. TypeOK' /\ TableOK(c)' /\ Frame(c)
    BY <1>2, <2>2, <2>21
       DEF TypeOK, TableTypes, CallOK, TableOK, HeldIsOpen, ReplacementIsOpen, OpenIsHeld, Frame
  <2>24. HoldsByStage(c)'
    BY <1>2, <2>2, <2>3 DEF HoldsByStage, File, Holds
  <2>25. AwayFromStandard(c)'
    BY <1>2, <2>4 DEF AwayFromStandard
  <2>26. ReplacementByStage(c)'
    BY <1>2, <2>1, <2>2 DEF CallOK, StageOK, ReplacementByStage, At
  <2>27. QED BY <2>22, <2>23, <2>24, <2>25, <2>26 DEF CallOK, StageOK
<1>3. QED BY <1>1, <1>2 DEF Spawn

LEMMA CallKeeps ==
    ASSUME TypeOK, NEW c \in Callers, CallOK(c), Call(c)
    PROVE  TypeOK' /\ CallOK(c)' /\ Frame(c)
BY BeginStep, OpenFileStep, CloseFileStep, DuplicateStep, ReplaceStep, SpawnStep, ReleaseStep,
   UnwindStep DEF Call

\* A call assigns only what belongs to it.
LEMMA CallTouches ==
    ASSUME TypeOK, NEW c \in Callers, Call(c), NEW d \in Callers, d # c
    PROVE  pc'[d] = pc[d] /\ held'[d] = held[d] /\ replacement'[d] = replacement[d]
           /\ child'[d] = child[d]
<1>1. pc'[d] = pc[d]
  <2>1. ASSUME NEW stage, NEW file, Goto(c, stage, file) PROVE pc'[d] = pc[d]
    BY <2>1 DEF TypeOK, Goto
  <2>2. Proceed(c) => pc'[d] = pc[d]
    BY <2>1 DEF Proceed
  <2>3. Begin(c) \/ OpenFile(c) \/ CloseFile(c) \/ Duplicate(c) => pc'[d] = pc[d]
    BY <2>1, <2>2 DEF Begin, OpenFile, CloseFile, Duplicate, Fails
  <2>4. Replace(c) \/ Spawn(c) \/ Release(c) \/ Unwind(c) => pc'[d] = pc[d]
    <3>1. Release(c) => pc'[d] = pc[d]
      <4>1. CASE File(c) \in Captures
        BY <2>1, <4>1 DEF Release, Captures
      <4>2. QED BY <4>1, PointFacts DEF Release
    <3>2. QED BY <2>1, <2>2, <3>1 DEF Replace, Spawn, Unwind, Fails
  <2>5. QED BY <2>3, <2>4 DEF Call
<1>2. held'[d] = held[d]
  BY DEF TypeOK, TableTypes, Call, Begin, OpenFile, CloseFile, Duplicate, Replace, Spawn, Release,
         Unwind, Fails
<1>3. replacement'[d] = replacement[d]
  BY DEF TypeOK, TableTypes, Call, Begin, OpenFile, CloseFile, Duplicate, Replace, Spawn, Release,
         Unwind, Fails
<1>4. child'[d] = child[d]
  BY DEF TypeOK, Call, Begin, OpenFile, CloseFile, Duplicate, Replace, Spawn, Release, Unwind,
         Fails
<1>5. QED BY <1>1, <1>2, <1>3, <1>4

\* Other code of the host opens a free descriptor, or closes its own.
LEMMA HostKeeps ==
    ASSUME TypeOK, HostStep
    PROVE  TypeOK' /\ Frame(Host)
<1>1. Host \in Owners /\ Host # Nobody
  BY DescriptorAssumption DEF Owners
<1>2. ASSUME NEW n \in Descriptors, NEW entry \in Entries,
             fds[n].owner \in {Host, Nobody}, entry.owner \in {Host, Nobody},
             entry.owner = Nobody => entry = Closed,
             fds' = [fds EXCEPT ![n] = entry]
      PROVE  TypeOK' /\ Frame(Host)
  <2>1. /\ fds' \in [Descriptors -> Entries] /\ fds'[n] = entry
        /\ \A m \in Descriptors \ {n} : fds'[m] = fds[m]
    BY <1>2 DEF TypeOK, TableTypes
  <2>2. TypeOK'
    BY <1>2, <2>1 DEF TypeOK, TableTypes, HostStep, callVars
  <2>3. Frame(Host)
    BY <1>2, <2>1 DEF Frame
  <2>4. QED BY <2>2, <2>3
<1>3. CASE /\ FreeFrom(0) # {}
           /\ \E cloexec \in BOOLEAN :
                 fds' = [fds EXCEPT ![Lowest(FreeFrom(0))] = Open(Host, "other", cloexec)]
  <2>1. PICK cloexec \in BOOLEAN :
            fds' = [fds EXCEPT ![Lowest(FreeFrom(0))] = Open(Host, "other", cloexec)]
    BY <1>3
  <2>2. Lowest(FreeFrom(0)) \in Descriptors /\ fds[Lowest(FreeFrom(0))] = Closed
    BY <1>3, LowestIsFree
  <2>3. Open(Host, "other", cloexec) \in Entries /\ Open(Host, "other", cloexec).owner = Host
    BY <1>1 DEF Open, Entries
  <2>4. QED BY <1>1, <1>2, <2>1, <2>2, <2>3, EntryFacts
<1>4. CASE \E n \in Descriptors :
              fds[n].owner = Host /\ fds' = [fds EXCEPT ![n] = Closed]
  BY <1>2, <1>4, EntryFacts
<1>5. QED BY <1>3, <1>4 DEF HostStep

--------------------------------------------------------------------------------
(* The theorems *)

LEMMA InitInv == Init => Inv
<1> SUFFICES ASSUME Init PROVE Inv
  OBVIOUS
<1>1. PICK closed \in SUBSET (0 .. 2) :
          fds = [n \in Descriptors |->
                    IF n <= 2 /\ n \notin closed THEN Open(Host, "standard", FALSE) ELSE Closed]
  BY DEF Init
<1>2. /\ Host \in Owners /\ Host # Nobody /\ None \in 0 .. MaxFds
      /\ Open(Host, "standard", FALSE) \in Entries /\ Open(Host, "standard", FALSE).owner = Host
  BY DescriptorAssumption DEF Owners, Open, Entries, None
<1>3. fds \in [Descriptors -> Entries]
  BY <1>1, <1>2, EntryFacts
<1>4. \A n \in Descriptors : fds[n].owner \in {Host, Nobody}
                            /\ (fds[n].owner = Nobody => fds[n] = Closed)
  BY <1>1, <1>2, EntryFacts
<1>5. /\ held \in [Callers -> [Files -> 0 .. MaxFds]] /\ replacement \in [Callers -> 0 .. MaxFds]
      /\ child \in [Callers -> [Descriptors -> Entries]]
  BY <1>2, EntryFacts DEF Init, Nothing, NoTable
<1>6. pc \in [Callers -> Points]
  BY DEF Init, Points
<1>7. TypeOK
  BY <1>3, <1>4, <1>5, <1>6 DEF TypeOK, TableTypes
<1>8. ASSUME NEW c \in Callers PROVE CallOK(c)
  <2>1. /\ held[c] = Nothing /\ replacement[c] = None /\ child[c] = NoTable
        /\ At(c, "idle") /\ ~At(c, "replace")
    BY DEF Init, At
  <2>2. c # Nobody /\ c # Host
    BY DescriptorAssumption
  <2>3. TableOK(c)
    BY <1>4, <2>1, <2>2 DEF TableOK, HeldIsOpen, ReplacementIsOpen, OpenIsHeld, Nothing
  <2>4. HoldsByStage(c) /\ AwayFromStandard(c) /\ ReplacementByStage(c)
    BY <2>1, DescriptorAssumption
       DEF HoldsByStage, AwayFromStandard, ReplacementByStage, Nothing, None, At, Holds, Captures,
           Files
  <2>5. QED BY <2>1, <2>3, <2>4 DEF CallOK, StageOK, ChildOK
<1>9. QED BY <1>7, <1>8 DEF Inv

LEMMA StepInv == Inv /\ [Next]_vars => Inv'
<1> SUFFICES ASSUME Inv, [Next]_vars PROVE Inv'
  OBVIOUS
<1>1. ASSUME NEW c \in Callers, Call(c) PROVE Inv'
  <2>1. TypeOK' /\ CallOK(c)' /\ Frame(c)
    BY <1>1, CallKeeps DEF Inv
  <2>2. ASSUME NEW d \in Callers, d # c PROVE CallOK(d)'
    BY <1>1, <2>1, <2>2, CallTouches, Undisturbed DEF Inv
  <2>3. QED BY <2>1, <2>2 DEF Inv
<1>2. CASE HostStep
  <2>1. TypeOK' /\ Frame(Host)
    BY <1>2, HostKeeps DEF Inv
  <2>2. ASSUME NEW d \in Callers PROVE CallOK(d)'
    BY <1>2, <2>1, Undisturbed, DescriptorAssumption DEF Inv, HostStep, callVars
  <2>3. QED BY <2>1, <2>2 DEF Inv
<1>3. CASE UNCHANGED vars
  <2>1. TypeOK' /\ Frame(Host)
    BY <1>3 DEF Inv, TypeOK, TableTypes, Frame, vars, callVars
  <2>2. ASSUME NEW d \in Callers PROVE CallOK(d)'
    BY <1>3, <2>1, Undisturbed, DescriptorAssumption DEF Inv, vars, callVars
  <2>3. QED BY <2>1, <2>2 DEF Inv
<1>4. QED BY <1>1, <1>2, <1>3 DEF Next, CallStep

THEOREM InvHolds == Spec => []Inv
BY InitInv, StepInv, PTL DEF Spec

\* The FileDescriptor objects of a call hold exactly the descriptors that the
\* call has opened, so that none leaks on any path out of compile().
THEOREM NothingLeaks == Spec => []HeldExactly
<1>1. Inv => HeldExactly
  <2> SUFFICES ASSUME Inv, NEW c \in Callers, NEW n \in Descriptors
               PROVE  fds[n].owner = c <=>
                          replacement[c] = n \/ \E f \in Files : held[c][f] = n
    BY DEF HeldExactly
  <2>1. fds[n].owner = c => replacement[c] = n \/ \E f \in Files : held[c][f] = n
    BY DEF Inv, CallOK, TableOK, OpenIsHeld
  <2>2. n # None
    BY DescriptorAssumption DEF None, Descriptors
  <2>3. replacement[c] = n => fds[n].owner = c
    BY <2>2 DEF Inv, CallOK, TableOK, ReplacementIsOpen
  <2>4. \A f \in Files : held[c][f] = n => fds[n].owner = c
    <3> SUFFICES ASSUME NEW f \in Files, held[c][f] = n PROVE fds[n].owner = c
      OBVIOUS
    <3>1. fds[n] = Open(c, f, TRUE)
      BY <2>2 DEF Inv, CallOK, TableOK, HeldIsOpen
    <3>2. QED BY <3>1 DEF Open
  <2>5. QED BY <2>1, <2>3, <2>4
<1>2. QED BY <1>1, InvHolds, PTL

\* A compiler starts with its own three streams and nothing else, whatever the
\* host and other calls have open.
THEOREM OwnStreams == Spec => []ChildSeesOwnStreams
<1>1. Inv => ChildSeesOwnStreams
  BY DEF Inv, CallOK, ChildOK, ChildSeesOwnStreams
<1>2. QED BY <1>1, InvHolds, PTL

\* No step of a call changes a descriptor of other code or of another call.
THEOREM OthersUntouched == Spec => OthersKeepDescriptors
<1> DEFINE Moves(c) == pc'[c] # pc[c] \/ held'[c] # held[c] \/ replacement'[c] # replacement[c]
<1> DEFINE Keeps(c) == Moves(c) =>
               \A n \in Descriptors : fds[n].owner \notin {c, Nobody} => fds'[n] = fds[n]
<1>1. ASSUME Inv, [Next]_vars PROVE [\A c \in Callers : Keeps(c)]_vars
  <2> SUFFICES ASSUME Next, NEW c \in Callers, Moves(c) PROVE Keeps(c)
    BY <1>1
  <2>1. PICK d \in Callers : Call(d)
    BY DEF Next, CallStep, HostStep, callVars
  <2>2. d = c
    BY <1>1, <2>1, CallTouches DEF Inv
  <2>3. Frame(c)
    BY <1>1, <2>1, <2>2, CallKeeps DEF Inv
  <2>4. QED BY <2>3 DEF Frame
<1>2. QED BY <1>1, InvHolds, PTL DEF Spec, OthersKeepDescriptors
================================================================================
