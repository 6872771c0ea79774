---------------------------- MODULE SpawnDescriptors ----------------------------
(***************************************************************************)
(* The file descriptors of GppCompiler::compile(), system call by system   *)
(* call: the host's descriptor table is shared by the threads that compile *)
(* and by other code, any standard descriptor may be closed, and the child *)
(* starts with a copy of the table to which the file actions are applied.  *)
(* GppCompiler has the rest of compile(), with these calls as its steps    *)
(* Prepare, Spawn and Collect.                                             *)
(***************************************************************************)
EXTENDS Naturals

CONSTANTS
    Callers,  \* threads that call compile()
    Host,     \* all other code of the host process
    Nobody,
    MaxFds    \* RLIMIT_NOFILE

ASSUME DescriptorAssumption ==
    /\ Host \notin Callers
    /\ Nobody \notin Callers \cup {Host}
    /\ MaxFds \in Nat /\ MaxFds > 3

VARIABLES
    fds,          \* descriptor -> open file, Closed if it is free
    pc,           \* caller -> <<what it does next, for which file>>
    held,         \* caller -> file -> the descriptor of its FileDescriptor
    replacement,  \* caller -> the duplicate that is to replace a descriptor
    child         \* caller -> the table its compiler was started with

callVars == <<pc, held, replacement, child>>
vars == <<fds, callVars>>

Descriptors == 0 .. MaxFds - 1
Files == {"source", "out", "err", "in", "readOut", "readErr"}
None == MaxFds
Closed == [owner |-> Nobody, file |-> "none", cloexec |-> FALSE]
Open(owner, file, cloexec) == [owner |-> owner, file |-> file, cloexec |-> cloexec]
NoTable == [n \in Descriptors |-> Closed]
Nothing == [file \in Files |-> None]

\* The kernel hands out the lowest free descriptor.
FreeFrom(least) == {n \in Descriptors : n >= least /\ fds[n] = Closed}
Lowest(set) == CHOOSE n \in set : \A m \in set : n <= m

\* Some standard descriptors may be closed in the host.
Init ==
    /\ \E closed \in SUBSET (0 .. 2) :
          fds = [n \in Descriptors |->
                    IF n <= 2 /\ n \notin closed THEN Open(Host, "standard", FALSE) ELSE Closed]
    /\ pc = [c \in Callers |-> <<"idle", "none">>]
    /\ held = [c \in Callers |-> Nothing]
    /\ replacement = [c \in Callers |-> None]
    /\ child = [c \in Callers |-> NoTable]

At(c, stage) == pc[c][1] = stage
File(c) == pc[c][2]
Goto(c, stage, file) == pc' = [pc EXCEPT ![c] = <<stage, file>>]

\* An error: FileDescriptor destructors close what the call still holds.
Fails(c) ==
    /\ Goto(c, "unwind", "none")
    /\ UNCHANGED <<fds, held, replacement, child>>

Begin(c) ==
    /\ At(c, "idle")
    /\ Goto(c, "open", "source")
    /\ child' = [child EXCEPT ![c] = NoTable]
    /\ UNCHANGED <<fds, held, replacement>>

\* open() of program.cpp, of a capture file, of /dev/null, or of a capture file
\* to read it, always with O_CLOEXEC.
OpenFile(c) ==
    /\ At(c, "open")
    /\ \/ /\ FreeFrom(0) # {}
          /\ fds' = [fds EXCEPT ![Lowest(FreeFrom(0))] = Open(c, File(c), TRUE)]
          /\ held' = [held EXCEPT ![c][File(c)] = Lowest(FreeFrom(0))]
          /\ Goto(c, IF File(c) \in {"out", "err", "in"} THEN "move" ELSE "close", File(c))
          /\ UNCHANGED <<replacement, child>>
       \/ Fails(c)

\* What is opened after a file.
Following == [source |-> "out", out |-> "err", err |-> "in", readOut |-> "readErr"]
Proceed(c) ==
    IF File(c) = "in" THEN Goto(c, "spawn", "none") ELSE Goto(c, "open", Following[File(c)])

\* The end of write_all() and read_all(), after an error or without one.
CloseFile(c) ==
    /\ At(c, "close")
    /\ fds' = [fds EXCEPT ![held[c][File(c)]] = Closed]
    /\ held' = [held EXCEPT ![c][File(c)] = None]
    /\ (File(c) # "readErr" /\ Proceed(c)) \/ Goto(c, "unwind", "none")
    /\ UNCHANGED <<replacement, child>>

\* Mutant: the number the file was opened with is used as it is.
KeepDescriptor(c) ==
    /\ At(c, "move")
    /\ Proceed(c)
    /\ UNCHANGED <<fds, held, replacement, child>>

\* fchmod() of a capture file, which may fail, and
\* move_away_from_standard_descriptors(): F_DUPFD_CLOEXEC ...
Duplicate(c) ==
    /\ At(c, "move")
    /\ \/ /\ held[c][File(c)] > 2
          /\ Proceed(c)
          /\ UNCHANGED <<fds, held, replacement, child>>
       \/ /\ held[c][File(c)] <= 2
          /\ FreeFrom(3) # {}
          /\ fds' = [fds EXCEPT ![Lowest(FreeFrom(3))] = Open(c, File(c), TRUE)]
          /\ replacement' = [replacement EXCEPT ![c] = Lowest(FreeFrom(3))]
          /\ Goto(c, "replace", File(c))
          /\ UNCHANGED <<held, child>>
       \/ (held[c][File(c)] <= 2 \/ File(c) # "in") /\ Fails(c)

\* Mutant: the descriptor is closed and still held, so it is closed once more.
ReplaceKeeping(c) ==
    /\ At(c, "replace")
    /\ fds' = [fds EXCEPT ![held[c][File(c)]] = Closed]
    /\ Goto(c, "unwind", "none")
    /\ UNCHANGED <<held, replacement, child>>

\* ... and close of the original, which is gone even if close() reports an error.
Replace(c) ==
    /\ At(c, "replace")
    /\ fds' = [fds EXCEPT ![held[c][File(c)]] = Closed]
    /\ \/ /\ held' = [held EXCEPT ![c][File(c)] = replacement[c]]
          /\ replacement' = [replacement EXCEPT ![c] = None]
          /\ Proceed(c)
       \/ /\ held' = [held EXCEPT ![c][File(c)] = None]
          /\ Goto(c, "unwind", "none")
          /\ UNCHANGED replacement
    /\ UNCHANGED child

\* The table of a child in which a file action has failed.
Failed == <<>>

\* add_duplication_actions(): dup2(), and close() of the original.
Duplicated(table, from, to) ==
    IF table = Failed \/ table[from] = Closed THEN Failed
    ELSE LET copied == [table EXCEPT ![to] = Open(table[from].owner, table[from].file, FALSE)] IN
         IF from = to THEN copied ELSE [copied EXCEPT ![from] = Closed]

\* The table of the compiler: a copy, the file actions, closefrom() as the last
\* of them, and what exec() closes.
ChildTable(c) ==
    LET in == Duplicated(fds, held[c]["in"], 0)
        out == Duplicated(in, held[c]["out"], 1)
        err == Duplicated(out, held[c]["err"], 2)
    IN  IF err = Failed THEN Failed
        ELSE [n \in Descriptors |-> IF n >= 3 \/ err[n].cloexec THEN Closed ELSE err[n]]

Spawn(c) ==
    /\ At(c, "spawn")
    /\ \/ /\ ChildTable(c) # Failed
          /\ child' = [child EXCEPT ![c] = ChildTable(c)]
          /\ Goto(c, "release", "in")
          /\ UNCHANGED <<fds, held, replacement>>
       \/ Fails(c)

\* "Only the child retains its duplicated standard descriptors from here."
Release(c) ==
    /\ At(c, "release")
    /\ fds' = [fds EXCEPT ![held[c][File(c)]] = Closed]
    /\ held' = [held EXCEPT ![c][File(c)] = None]
    /\ CASE File(c) = "in" -> Goto(c, "release", "out")
         [] File(c) = "out" -> Goto(c, "release", "err")
         [] File(c) = "err" -> Goto(c, "open", "readOut")
    /\ UNCHANGED <<replacement, child>>

\* Mutant: the duplicate is forgotten if the original cannot be replaced.
UnwindHeld(c) ==
    /\ At(c, "unwind")
    /\ \E file \in Files :
          \/ /\ held[c][file] # None
             /\ fds' = [fds EXCEPT ![held[c][file]] = Closed]
             /\ held' = [held EXCEPT ![c][file] = None]
             /\ UNCHANGED pc
          \/ held[c] = Nothing /\ Goto(c, "idle", "none") /\ UNCHANGED <<fds, held>>
    /\ replacement' = [replacement EXCEPT ![c] = None]
    /\ UNCHANGED child

\* Leaving compile(): one close() after the other, then the call has returned.
Unwind(c) ==
    /\ At(c, "unwind")
    /\ \/ \E file \in Files :
             /\ held[c][file] # None
             /\ fds' = [fds EXCEPT ![held[c][file]] = Closed]
             /\ held' = [held EXCEPT ![c][file] = None]
             /\ UNCHANGED <<pc, replacement>>
       \/ /\ replacement[c] # None
          /\ fds' = [fds EXCEPT ![replacement[c]] = Closed]
          /\ replacement' = [replacement EXCEPT ![c] = None]
          /\ UNCHANGED <<pc, held>>
       \/ /\ held[c] = Nothing /\ replacement[c] = None
          /\ Goto(c, "idle", "none")
          /\ UNCHANGED <<fds, held, replacement>>
    /\ UNCHANGED child

Call(c) ==
    \/ Begin(c) \/ OpenFile(c) \/ CloseFile(c) \/ Duplicate(c) \/ Replace(c)
    \/ Spawn(c) \/ Release(c) \/ Unwind(c)

\* Other code opens a file, inheritable or not, or closes one of its own.
HostStep ==
    /\ \/ /\ FreeFrom(0) # {}
          /\ \E cloexec \in BOOLEAN :
                fds' = [fds EXCEPT ![Lowest(FreeFrom(0))] = Open(Host, "other", cloexec)]
       \/ \E n \in Descriptors :
             fds[n].owner = Host /\ fds' = [fds EXCEPT ![n] = Closed]
    /\ UNCHANGED callVars

CallStep == \E c \in Callers : Call(c)
Next == CallStep \/ HostStep

Spec == Init /\ [][Next]_vars

--------------------------------------------------------------------------------
(* Properties *)

\* The compiler starts with /dev/null and the two capture files of its own call
\* as its standard streams and with no other descriptor, whichever standard
\* descriptors the host has closed and whatever other threads have open.
ChildSeesOwnStreams ==
    \A c \in Callers : child[c] # NoTable =>
        \A n \in Descriptors :
            child[c][n] = CASE n = 0 -> Open(c, "in", FALSE)
                            [] n = 1 -> Open(c, "out", FALSE)
                            [] n = 2 -> Open(c, "err", FALSE)
                            [] n > 2 -> Closed

\* compile() never closes a descriptor of other code or of another call, not
\* even one that was given the number of a descriptor it has closed before.
OthersKeepDescriptors ==
    [][\A c \in Callers :
           pc'[c] # pc[c] \/ held'[c] # held[c] \/ replacement'[c] # replacement[c] =>
           \A n \in Descriptors : fds[n].owner \notin {c, Nobody} => fds'[n] = fds[n]]_vars

\* Every descriptor that a call has opened is held by one of its FileDescriptor
\* objects, and those hold nothing else: nothing leaks when the call returns.
HeldExactly ==
    \A c \in Callers, n \in Descriptors :
        fds[n].owner = c <=>
            replacement[c] = n \/ \E file \in Files : held[c][file] = n
================================================================================
