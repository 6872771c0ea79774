------------------------- MODULE CommandLineProofs -------------------------
(* Proofs about the driver and the command: for every set of addresses,     *)
(* every number of compilations and every list of arguments.                *)
EXTENDS CommandLine, TLAPS, WellFoundedInduction

Table == UNION {[D -> Nat] : D \in SUBSET Addresses}

Session ==
    [source : Nat, tokens : Nat, parsed : BOOLEAN, nodes : SUBSET Addresses,
     declarations : Table, resolutions : Table, types : Table,
     errors : Nat, reports : SUBSET [of : Nat, severity : Severities]]

\* Entries are for nodes of the program and of compilation r.
Own(t, s, r) == DOMAIN t \subseteq s.nodes /\ \A a \in DOMAIN t : t[a] = r

\* What the driver keeps true of the session at every step.
SessionOK(s, r) ==
    /\ s \in Session
    /\ s.source \in 0..r
    /\ s.tokens \in 0..r
    /\ Own(s.declarations, s, r) /\ Own(s.resolutions, s, r) /\ Own(s.types, s, r)
    /\ ~s.parsed => s.nodes = {}
    /\ \A d \in s.reports : d.of = s.source
    /\ HasErrors(s) <=> \E d \in s.reports : d.severity = "error"
    /\ DOMAIN s.resolutions # {} => DOMAIN s.declarations = s.nodes
    /\ DOMAIN s.types # {} => DOMAIN s.resolutions = s.nodes

SessionInv == round \in 0..MaxRounds /\ SessionOK(session, round)

\* What the passes before this one have left, at every phase of a call.
PhaseInv ==
    /\ phase \in Passes \cup {"idle"}
    /\ phase # "idle" => ~HasErrors(session) /\ outcome = "none" /\ round >= 1
    /\ phase = "load" => session.reports = {}
    /\ phase \in Passes \ {"load"} => session.source = round
    /\ phase \in Passes \ {"load", "lex"} => session.tokens = round
    /\ phase \in {"collect", "entry", "resolve", "type", "flow"} => session.parsed
    /\ phase \in {"load", "lex", "parse"} => session.nodes = {}
    /\ phase = "collect" => DOMAIN session.resolutions = {} /\ DOMAIN session.types = {}
    /\ phase \in {"entry", "resolve", "type", "flow"} =>
           DOMAIN session.declarations = session.nodes
    /\ phase \in {"entry", "resolve"} => DOMAIN session.types = {}
    /\ phase \in {"type", "flow"} => DOMAIN session.resolutions = session.nodes

\* What an outcome says about the session.
OutcomeInv ==
    /\ outcome \in Outcomes
    /\ outcome = "failed" => HasErrors(session)
    /\ outcome = "succeeded" =>
           /\ ~HasErrors(session)
           /\ session.source = round /\ session.tokens = round /\ session.parsed
           /\ DOMAIN session.declarations = session.nodes
           /\ DOMAIN session.resolutions = session.nodes

DriverInv == SessionInv /\ PhaseInv /\ OutcomeInv

----------------------------------------------------------------------------
(* emplace keeps what is there and adds the rest.                           *)
LEMMA EmplacedTable ==
    ASSUME NEW t \in Table, NEW keys \in SUBSET Addresses, round \in Nat
    PROVE  /\ Emplaced(t, keys) \in Table
           /\ DOMAIN Emplaced(t, keys) = DOMAIN t \cup keys
           /\ \A a \in DOMAIN t \cup keys :
                  Emplaced(t, keys)[a] = IF a \in DOMAIN t THEN t[a] ELSE round
<1>1. PICK D \in SUBSET Addresses : t \in [D -> Nat]
  BY DEF Table
<1>2. Emplaced(t, keys) =
          [a \in D \cup keys |-> IF a \in D THEN t[a] ELSE round]
  BY <1>1 DEF Emplaced
<1>3. Emplaced(t, keys) \in [D \cup keys -> Nat]
  BY <1>1, <1>2
<1>4. D \cup keys \in SUBSET Addresses
  OBVIOUS
<1> QED
  BY <1>1, <1>2, <1>3, <1>4 DEF Table

(* insert_or_assign replaces what is there and adds the rest.               *)
LEMMA AssignedTable ==
    ASSUME NEW t \in Table, NEW keys \in SUBSET Addresses, round \in Nat
    PROVE  /\ Assigned(t, keys) \in Table
           /\ DOMAIN Assigned(t, keys) = DOMAIN t \cup keys
           /\ \A a \in DOMAIN t \cup keys :
                  Assigned(t, keys)[a] = IF a \in keys THEN round ELSE t[a]
<1>1. PICK D \in SUBSET Addresses : t \in [D -> Nat]
  BY DEF Table
<1>2. Assigned(t, keys) =
          [a \in D \cup keys |-> IF a \in keys THEN round ELSE t[a]]
  BY <1>1 DEF Assigned
<1>3. Assigned(t, keys) \in [D \cup keys -> Nat]
  BY <1>1, <1>2
<1>4. D \cup keys \in SUBSET Addresses
  OBVIOUS
<1> QED
  BY <1>1, <1>2, <1>3, <1>4 DEF Table

(* A report touches the diagnostics only.                                   *)
LEMMA ReportedSession ==
    ASSUME NEW s \in Session, NEW severities \in SUBSET Severities
    PROVE  LET n == Reported(s, severities)
           IN  /\ n \in Session
               /\ n.source = s.source /\ n.tokens = s.tokens
               /\ n.parsed = s.parsed /\ n.nodes = s.nodes
               /\ n.declarations = s.declarations
               /\ n.resolutions = s.resolutions /\ n.types = s.types
               /\ n.errors = IF "error" \in severities THEN s.errors + 1 ELSE s.errors
               /\ n.reports =
                      s.reports \cup {[of |-> s.source, severity |-> v] : v \in severities}
<1> DEFINE new == {[of |-> s.source, severity |-> v] : v \in severities}
           count == IF "error" \in severities THEN s.errors + 1 ELSE s.errors
<1>1. Reported(s, severities) =
          [s EXCEPT !.errors = count, !.reports = s.reports \cup new]
  BY DEF Reported, Session
<1>2. s.source \in Nat /\ s.errors \in Nat
      /\ s.reports \in SUBSET [of : Nat, severity : Severities]
  BY DEF Session
<1>3. count \in Nat
  BY <1>2
<1>4. new \in SUBSET [of : Nat, severity : Severities]
  BY <1>2
<1> HIDE DEF new, count
<1>5. LET n == Reported(s, severities)
      IN  /\ n \in Session
          /\ n.source = s.source /\ n.tokens = s.tokens
          /\ n.parsed = s.parsed /\ n.nodes = s.nodes
          /\ n.declarations = s.declarations
          /\ n.resolutions = s.resolutions /\ n.types = s.types
          /\ n.errors = count
          /\ n.reports = s.reports \cup new
  BY <1>1, <1>2, <1>3, <1>4 DEF Session
<1> QED
  BY <1>5 DEF new, count

(* The error count and the list agree after a report if they did before.    *)
LEMMA ReportedCounts ==
    ASSUME NEW s \in Session, NEW severities \in SUBSET Severities,
           HasErrors(s) <=> \E r \in s.reports : r.severity = "error",
           \A r \in s.reports : r.of = s.source
    PROVE  LET n == Reported(s, severities)
           IN  /\ HasErrors(n) <=> (HasErrors(s) \/ "error" \in severities)
               /\ HasErrors(n) <=> \E r \in n.reports : r.severity = "error"
               /\ \A r \in n.reports : r.of = n.source
               /\ n.errors = s.errors <=> "error" \notin severities
<1> DEFINE n == Reported(s, severities)
           new == {[of |-> s.source, severity |-> v] : v \in severities}
<1>1. /\ n.errors = IF "error" \in severities THEN s.errors + 1 ELSE s.errors
      /\ n.reports = s.reports \cup new
      /\ n.source = s.source
  BY ReportedSession
<1>2. s.errors \in Nat
  BY DEF Session
<1>3. HasErrors(n) <=> (HasErrors(s) \/ "error" \in severities)
  BY <1>1, <1>2 DEF HasErrors
<1>4. n.errors = s.errors <=> "error" \notin severities
  BY <1>1, <1>2
<1>5. (\E r \in new : r.severity = "error") <=> "error" \in severities
  <2>1. ASSUME "error" \in severities PROVE \E r \in new : r.severity = "error"
    <3>1. [of |-> s.source, severity |-> "error"] \in new
      BY <2>1
    <3> QED
      BY <3>1
  <2>2. ASSUME NEW r \in new, r.severity = "error" PROVE "error" \in severities
    BY <2>2
  <2> QED
    BY <2>1, <2>2
<1>6. \A r \in new : r.of = s.source
  OBVIOUS
<1> HIDE DEF new, n
<1>7. HasErrors(n) <=> \E r \in n.reports : r.severity = "error"
  BY <1>1, <1>3, <1>5
<1>8. \A r \in n.reports : r.of = n.source
  BY <1>1, <1>6
<1> QED
  BY <1>3, <1>4, <1>7, <1>8 DEF n

(* A report keeps the session in order.                                     *)
LEMMA ReportedOK ==
    ASSUME NEW s, NEW r, SessionOK(s, r), NEW severities \in SUBSET Severities
    PROVE  SessionOK(Reported(s, severities), r)
<1> DEFINE n == Reported(s, severities)
<1>1. /\ s \in Session
      /\ HasErrors(s) <=> \E d \in s.reports : d.severity = "error"
      /\ \A d \in s.reports : d.of = s.source
  BY DEF SessionOK
<1>2. /\ n \in Session
      /\ n.source = s.source /\ n.tokens = s.tokens
      /\ n.parsed = s.parsed /\ n.nodes = s.nodes
      /\ n.declarations = s.declarations
      /\ n.resolutions = s.resolutions /\ n.types = s.types
  BY <1>1, ReportedSession
<1>3. /\ HasErrors(n) <=> \E d \in n.reports : d.severity = "error"
      /\ \A d \in n.reports : d.of = n.source
  BY <1>1, ReportedCounts
<1> HIDE DEF n
<1> QED
  BY <1>2, <1>3 DEF SessionOK, Own, n

(* A session that was just reset or made is in order.                       *)
LEMMA EmptyOK ==
    ASSUME NEW r \in Nat
    PROVE  SessionOK(EmptySession, r) /\ DOMAIN EmptyTable = {} /\ EmptyTable \in Table
<1>1. EmptyTable \in [{} -> Nat] /\ {} \in SUBSET Addresses
  BY DEF EmptyTable
<1>2. DOMAIN EmptyTable = {} /\ EmptyTable \in Table
  BY <1>1 DEF Table
<1> HIDE DEF EmptyTable
<1>3. EmptySession \in Session
  BY <1>2 DEF EmptySession, Session
<1> QED
  BY <1>2, <1>3 DEF EmptySession, SessionOK, Own, HasErrors

(* So is one whose reset was interrupted: no table survives it, and its     *)
(* diagnostics are still about the source it still holds.                   *)
LEMMA InterruptedOK ==
    ASSUME NEW s, NEW r \in Nat, SessionOK(s, r)
    PROVE  SessionOK(ResetInterrupted(s), r + 1)
<1> DEFINE n == ResetInterrupted(s)
<1>1. s \in Session /\ s.source \in 0..r
  BY DEF SessionOK
<1>2. DOMAIN EmptyTable = {} /\ EmptyTable \in Table
  BY EmptyOK
<1> HIDE DEF EmptyTable
<1>3. /\ n \in Session
      /\ n.source = s.source /\ n.tokens = 0 /\ n.parsed = FALSE /\ n.nodes = {}
      /\ n.declarations = EmptyTable /\ n.resolutions = EmptyTable
      /\ n.types = EmptyTable /\ n.errors = s.errors /\ n.reports = s.reports
  BY <1>1, <1>2 DEF ResetInterrupted, EmptySession, Session
<1>4. n.source \in 0..(r + 1) /\ n.tokens \in 0..(r + 1)
  BY <1>1, <1>3
<1>5. HasErrors(n) <=> HasErrors(s)
  BY <1>3 DEF HasErrors
<1> HIDE DEF n
<1> QED
  BY <1>2, <1>3, <1>4, <1>5 DEF SessionOK, Own, n

(* What a pass records belongs to the program and to this compilation.      *)
LEMMA RecordedOK ==
    ASSUME DriverInv, phase # "idle", NEW known \in SUBSET session.nodes
    PROVE  LET n == Recorded(phase, known)
           IN  /\ SessionOK(n, round)
               /\ n.source = session.source /\ n.tokens = session.tokens
               /\ n.parsed = session.parsed /\ n.nodes = session.nodes
               /\ n.errors = session.errors
               /\ phase # "collect" => n.declarations = session.declarations
               /\ phase # "resolve" => n.resolutions = session.resolutions
               /\ phase # "type" => n.types = session.types
               /\ phase = "collect" /\ known = session.nodes =>
                      DOMAIN n.declarations = session.nodes
               /\ phase = "resolve" /\ known = session.nodes =>
                      DOMAIN n.resolutions = session.nodes
<1> DEFINE n == Recorded(phase, known)
<1> HIDE DEF n
<1>1. /\ round \in Nat /\ session \in Session /\ known \in SUBSET Addresses
      /\ session.declarations \in Table /\ session.resolutions \in Table
      /\ session.types \in Table
  BY RoundsAssumption DEF DriverInv, SessionInv, SessionOK, Session
<1>2. SessionOK(session, round)
  BY DEF DriverInv, SessionInv
<1>3. CASE phase = "collect"
  <2> DEFINE table == Emplaced(session.declarations, known)
  <2>1. /\ table \in Table
        /\ DOMAIN table = DOMAIN session.declarations \cup known
        /\ \A a \in DOMAIN table : table[a] = round
    <3> HIDE DEF table
    <3>1. /\ table \in Table
          /\ DOMAIN table = DOMAIN session.declarations \cup known
          /\ \A a \in DOMAIN session.declarations \cup known :
                 table[a] = IF a \in DOMAIN session.declarations THEN session.declarations[a] ELSE round
      BY <1>1, EmplacedTable DEF table
    <3>2. \A a \in DOMAIN session.declarations : session.declarations[a] = round
      BY <1>2 DEF SessionOK, Own
    <3> QED
      BY <3>1, <3>2
  <2>2. DOMAIN session.resolutions = {} /\ DOMAIN session.types = {}
    BY <1>3 DEF DriverInv, PhaseInv
  <2> HIDE DEF table
  <2>3. Recorded(phase, known) = [session EXCEPT !.declarations = table]
    BY <1>1, <1>3 DEF Recorded, table, Session
  <2>4. /\ n \in Session /\ n.declarations = table
        /\ n.source = session.source /\ n.tokens = session.tokens
        /\ n.parsed = session.parsed /\ n.nodes = session.nodes
        /\ n.resolutions = session.resolutions /\ n.types = session.types
        /\ n.errors = session.errors /\ n.reports = session.reports
    BY <1>1, <2>1, <2>3 DEF n, Session
  <2>5. HasErrors(n) <=> HasErrors(session)
    BY <2>4 DEF HasErrors
  <2>6. SessionOK(n, round)
    BY <1>2, <2>1, <2>2, <2>4, <2>5 DEF SessionOK, Own
  <2>7. known = session.nodes => DOMAIN table = session.nodes
    BY <1>2, <2>1 DEF SessionOK, Own
  <2> QED
    BY <1>3, <2>4, <2>6, <2>7 DEF n
<1>4. CASE phase = "resolve"
  <2> DEFINE table == Emplaced(session.resolutions, known)
  <2>1. /\ table \in Table
        /\ DOMAIN table = DOMAIN session.resolutions \cup known
        /\ \A a \in DOMAIN table : table[a] = round
    <3> HIDE DEF table
    <3>1. /\ table \in Table
          /\ DOMAIN table = DOMAIN session.resolutions \cup known
          /\ \A a \in DOMAIN session.resolutions \cup known :
                 table[a] = IF a \in DOMAIN session.resolutions THEN session.resolutions[a] ELSE round
      BY <1>1, EmplacedTable DEF table
    <3>2. \A a \in DOMAIN session.resolutions : session.resolutions[a] = round
      BY <1>2 DEF SessionOK, Own
    <3> QED
      BY <3>1, <3>2
  <2>2. DOMAIN session.declarations = session.nodes /\ DOMAIN session.types = {}
    BY <1>4 DEF DriverInv, PhaseInv
  <2> HIDE DEF table
  <2>3. Recorded(phase, known) = [session EXCEPT !.resolutions = table]
    BY <1>1, <1>4 DEF Recorded, table, Session
  <2>4. /\ n \in Session /\ n.resolutions = table
        /\ n.source = session.source /\ n.tokens = session.tokens
        /\ n.parsed = session.parsed /\ n.nodes = session.nodes
        /\ n.declarations = session.declarations /\ n.types = session.types
        /\ n.errors = session.errors /\ n.reports = session.reports
    BY <1>1, <2>1, <2>3 DEF n, Session
  <2>5. HasErrors(n) <=> HasErrors(session)
    BY <2>4 DEF HasErrors
  <2>6. SessionOK(n, round)
    BY <1>2, <2>1, <2>2, <2>4, <2>5 DEF SessionOK, Own
  <2>7. known = session.nodes => DOMAIN table = session.nodes
    BY <1>2, <2>1 DEF SessionOK, Own
  <2> QED
    BY <1>4, <2>4, <2>6, <2>7 DEF n
<1>5. CASE phase = "type"
  <2> DEFINE table == Assigned(session.types, known)
  <2>1. /\ table \in Table
        /\ DOMAIN table = DOMAIN session.types \cup known
        /\ \A a \in DOMAIN table : table[a] = round
    <3> HIDE DEF table
    <3>1. /\ table \in Table
          /\ DOMAIN table = DOMAIN session.types \cup known
          /\ \A a \in DOMAIN session.types \cup known :
                 table[a] = IF a \in known THEN round ELSE session.types[a]
      BY <1>1, AssignedTable DEF table
    <3>2. \A a \in DOMAIN session.types : session.types[a] = round
      BY <1>2 DEF SessionOK, Own
    <3> QED
      BY <3>1, <3>2
  <2>2. /\ DOMAIN session.declarations = session.nodes
        /\ DOMAIN session.resolutions = session.nodes
    BY <1>5 DEF DriverInv, PhaseInv
  <2> HIDE DEF table
  <2>3. Recorded(phase, known) = [session EXCEPT !.types = table]
    BY <1>1, <1>5 DEF Recorded, table, Session
  <2>4. /\ n \in Session /\ n.types = table
        /\ n.source = session.source /\ n.tokens = session.tokens
        /\ n.parsed = session.parsed /\ n.nodes = session.nodes
        /\ n.declarations = session.declarations /\ n.resolutions = session.resolutions
        /\ n.errors = session.errors /\ n.reports = session.reports
    BY <1>1, <2>1, <2>3 DEF n, Session
  <2>5. HasErrors(n) <=> HasErrors(session)
    BY <2>4 DEF HasErrors
  <2>6. SessionOK(n, round)
    BY <1>2, <2>1, <2>2, <2>4, <2>5 DEF SessionOK, Own
  <2>7. known = session.nodes => DOMAIN table = session.nodes
    BY <1>2, <2>1 DEF SessionOK, Own
  <2> QED
    BY <1>5, <2>4, <2>6, <2>7 DEF n
<1>6. CASE phase \notin {"collect", "resolve", "type"}
  <2>1. Recorded(phase, known) = session
    BY <1>6 DEF Recorded
  <2> QED
    BY <1>2, <1>6, <2>1
<1> QED
  BY <1>3, <1>4, <1>5, <1>6

(* A step that records and then reports: the session is in order, and the   *)
(* pass has succeeded iff it has reported no error, so that there is none.  *)
LEMMA PassOK ==
    ASSUME DriverInv, phase # "idle", NEW known \in SUBSET session.nodes,
           NEW severities \in SUBSET Severities,
           session' = Reported(Recorded(phase, known), severities), round' = round
    PROVE  LET n == Recorded(phase, known)
           IN  /\ SessionInv'
               /\ session'.source = session.source /\ session'.tokens = session.tokens
               /\ session'.parsed = session.parsed /\ session'.nodes = session.nodes
               /\ session'.declarations = n.declarations
               /\ session'.resolutions = n.resolutions
               /\ session'.types = n.types
               /\ HasErrors(session') <=> "error" \in severities
               /\ Succeeds <=> ~HasErrors(session')
<1> DEFINE n == Recorded(phase, known)
<1>1. SessionOK(n, round) /\ n.errors = session.errors
      /\ n.source = session.source /\ n.tokens = session.tokens
      /\ n.parsed = session.parsed /\ n.nodes = session.nodes
  BY RecordedOK
<1>2. ~HasErrors(session)
  BY DEF DriverInv, PhaseInv
<1>3. ~HasErrors(n) /\ n.errors = 0
  BY <1>1, <1>2 DEF HasErrors
<1> HIDE DEF n
<1>4. SessionOK(session', round)
  BY <1>1, ReportedOK DEF n
<1>5. n \in Session
      /\ (HasErrors(n) <=> \E r \in n.reports : r.severity = "error")
      /\ \A r \in n.reports : r.of = n.source
  BY <1>1 DEF SessionOK
<1>6. session' = Reported(n, severities)
  BY DEF n
<1>7. /\ session'.source = n.source /\ session'.tokens = n.tokens
      /\ session'.parsed = n.parsed /\ session'.nodes = n.nodes
      /\ session'.declarations = n.declarations
      /\ session'.resolutions = n.resolutions /\ session'.types = n.types
  BY <1>5, <1>6, ReportedSession
<1>8. /\ HasErrors(session') <=> (HasErrors(n) \/ "error" \in severities)
      /\ session'.errors = n.errors <=> "error" \notin severities
  BY <1>5, <1>6, ReportedCounts
<1>9. Succeeds <=> ~HasErrors(session')
  BY <1>1, <1>3, <1>8 DEF Succeeds
<1>10. SessionInv'
  BY <1>4 DEF DriverInv, SessionInv
<1> QED
  BY <1>1, <1>3, <1>7, <1>8, <1>9, <1>10 DEF n

----------------------------------------------------------------------------
(* compile may start on any session that is in order.                       *)
LEMMA BeginStep ==
    ASSUME DriverInv, NEW s, SessionOK(s, round), Begin(s)
    PROVE  DriverInv'
<1>1. round \in Nat /\ round' = round + 1 /\ round' \in 0..MaxRounds
  BY RoundsAssumption DEF DriverInv, SessionInv, Begin
<1>2. CASE session' = Reset(s) /\ phase' = "load" /\ outcome' = "none"
  <2>1. SessionOK(session', round')
    BY <1>1, <1>2, EmptyOK DEF Reset
  <2>2. session'.reports = {} /\ session'.nodes = {} /\ ~HasErrors(session')
    BY <1>2 DEF Reset, EmptySession, HasErrors
  <2> QED
    BY <1>1, <1>2, <2>1, <2>2
       DEF DriverInv, SessionInv, PhaseInv, OutcomeInv, Passes, Outcomes
<1>3. CASE session' = ResetInterrupted(s) /\ Return("thrown")
  <2>1. SessionOK(session', round')
    BY <1>1, <1>3, InterruptedOK
  <2> QED
    BY <1>1, <1>3, <2>1
       DEF DriverInv, SessionInv, PhaseInv, OutcomeInv, Passes, Outcomes, Return
<1> QED
  BY <1>2, <1>3 DEF Begin

(* load_file loads the source of this compilation or says why it cannot.    *)
LEMMA LoadStep == DriverInv /\ Load => DriverInv'
<1> SUFFICES ASSUME DriverInv, Load PROVE DriverInv'
  OBVIOUS
<1>1. phase = "load" /\ round' = round /\ round \in Nat
  BY RoundsAssumption DEF Load, DriverInv, SessionInv
<1>2. CASE session' = [session EXCEPT !.source = round] /\ Continue(TRUE, "lex")
  <2>1. session \in Session /\ SessionOK(session, round) /\ ~HasErrors(session)
        /\ session.reports = {} /\ session.nodes = {} /\ outcome = "none" /\ round >= 1
    BY <1>1 DEF DriverInv, SessionInv, SessionOK, PhaseInv
  <2>2. /\ session' \in Session /\ session'.source = round
        /\ session'.tokens = session.tokens
        /\ session'.parsed = session.parsed /\ session'.nodes = session.nodes
        /\ session'.declarations = session.declarations
        /\ session'.resolutions = session.resolutions /\ session'.types = session.types
        /\ session'.errors = session.errors /\ session'.reports = session.reports
    BY <1>1, <1>2, <2>1 DEF Session
  <2>3. HasErrors(session') <=> HasErrors(session)
    BY <2>2 DEF HasErrors
  <2>4. SessionOK(session', round')
    BY <1>1, <2>1, <2>2, <2>3 DEF SessionOK, Own
  <2> QED
    BY <1>1, <1>2, <2>1, <2>2, <2>3, <2>4
       DEF DriverInv, SessionInv, PhaseInv, OutcomeInv, Passes, Outcomes, Continue
<1>3. CASE session' = Reported(session, {"error"}) /\ Continue(FALSE, "lex")
  <2>1. session' = Reported(Recorded(phase, {}), {"error"})
    BY <1>1, <1>3 DEF Recorded
  <2>2. SessionInv' /\ HasErrors(session')
    BY <1>1, <2>1, PassOK DEF Severities
  <2> QED
    BY <1>3, <2>2 DEF DriverInv, PhaseInv, OutcomeInv, Passes, Outcomes, Continue, Return
<1> QED
  BY <1>2, <1>3 DEF Load

(* The lexer leaves tokens, and ends the call if it has reported.           *)
LEMMA LexStep == DriverInv /\ Lex => DriverInv'
<1> SUFFICES ASSUME DriverInv, Lex PROVE DriverInv'
  OBVIOUS
<1> DEFINE n == [session EXCEPT !.tokens = round]
<1>1. phase = "lex" /\ round' = round /\ round \in Nat
  BY RoundsAssumption DEF Lex, DriverInv, SessionInv
<1>2. PICK severities \in SUBSET {"error"} : session' = Reported(n, severities)
  BY DEF Lex
<1>3. SessionOK(session, round) /\ ~HasErrors(session) /\ session.source = round
      /\ session.nodes = {} /\ outcome = "none" /\ round >= 1
  BY <1>1 DEF DriverInv, SessionInv, PhaseInv, Passes
<1>4. /\ n \in Session /\ n.tokens = round /\ n.source = session.source
      /\ n.parsed = session.parsed /\ n.nodes = session.nodes
      /\ n.declarations = session.declarations
      /\ n.resolutions = session.resolutions /\ n.types = session.types
      /\ n.errors = session.errors /\ n.reports = session.reports
  BY <1>1, <1>3 DEF SessionOK, Session
<1> HIDE DEF n
<1>5. SessionOK(n, round)
  BY <1>1, <1>3, <1>4 DEF SessionOK, Own, HasErrors
<1>6. SessionOK(session', round')
  BY <1>1, <1>2, <1>5, ReportedOK DEF Severities
<1>7. session'.source = round /\ session'.tokens = round /\ session'.nodes = {}
  BY <1>2, <1>3, <1>4, ReportedSession DEF Severities
<1>8. Continue(~HasErrors(session'), "parse")
  BY DEF Lex
<1> QED
  BY <1>1, <1>3, <1>6, <1>7, <1>8
     DEF DriverInv, SessionInv, PhaseInv, OutcomeInv, Passes, Outcomes, Continue, Return

(* The parser leaves a program, and ends the call if it has reported.       *)
LEMMA ParseStep == DriverInv /\ Parse => DriverInv'
<1> SUFFICES ASSUME DriverInv, Parse PROVE DriverInv'
  OBVIOUS
<1>1. phase = "parse" /\ round' = round /\ round \in Nat
  BY RoundsAssumption DEF Parse, DriverInv, SessionInv
<1>2. PICK nodes \in SUBSET Addresses, severities \in SUBSET {"error"} :
          session' = Reported([session EXCEPT !.parsed = TRUE, !.nodes = nodes],
                              severities)
  BY DEF Parse
<1> DEFINE n == [session EXCEPT !.parsed = TRUE, !.nodes = nodes]
<1>3. /\ SessionOK(session, round) /\ ~HasErrors(session)
      /\ session.source = round /\ session.tokens = round
      /\ session.nodes = {} /\ outcome = "none" /\ round >= 1
  BY <1>1 DEF DriverInv, SessionInv, PhaseInv, Passes
<1>4. /\ n \in Session /\ n.tokens = session.tokens /\ n.source = session.source
      /\ n.parsed = TRUE /\ n.nodes = nodes
      /\ n.declarations = session.declarations
      /\ n.resolutions = session.resolutions /\ n.types = session.types
      /\ n.errors = session.errors /\ n.reports = session.reports
  BY <1>1, <1>2, <1>3 DEF SessionOK, Session
<1>5. session' = Reported(n, severities)
  BY <1>2
<1> HIDE DEF n
<1>6. /\ DOMAIN session.declarations = {} /\ DOMAIN session.resolutions = {}
      /\ DOMAIN session.types = {}
  BY <1>3 DEF SessionOK, Own
<1>7. SessionOK(n, round)
  BY <1>1, <1>3, <1>4, <1>6 DEF SessionOK, Own, HasErrors
<1>8. SessionOK(session', round')
  BY <1>1, <1>5, <1>7, ReportedOK DEF Severities
<1>9. /\ session'.source = round /\ session'.tokens = round /\ session'.parsed
      /\ DOMAIN session'.resolutions = {} /\ DOMAIN session'.types = {}
  BY <1>3, <1>4, <1>5, <1>6, ReportedSession DEF Severities
<1>10. Continue(~HasErrors(session'), "collect")
  BY DEF Parse
<1> QED
  BY <1>1, <1>3, <1>8, <1>9, <1>10
     DEF DriverInv, SessionInv, PhaseInv, OutcomeInv, Passes, Outcomes, Continue, Return

(* A collector that reports nothing has recorded every declaration.         *)
LEMMA CollectStep == DriverInv /\ Collect => DriverInv'
<1> SUFFICES ASSUME DriverInv, Collect PROVE DriverInv'
  OBVIOUS
<1>1. phase = "collect" /\ round' = round /\ Continue(Succeeds, "entry")
  BY DEF Collect
<1>2. PICK known \in SUBSET session.nodes, severities \in SUBSET {"error"} :
          /\ known # session.nodes => "error" \in severities
          /\ session' = Reported(Recorded(phase, known), severities)
  BY <1>1 DEF Collect
<1>3. /\ SessionInv'
      /\ session'.source = session.source /\ session'.tokens = session.tokens
      /\ session'.parsed = session.parsed /\ session'.nodes = session.nodes
      /\ HasErrors(session') <=> "error" \in severities
      /\ Succeeds <=> ~HasErrors(session')
      /\ session'.declarations = Recorded(phase, known).declarations
      /\ session'.resolutions = Recorded(phase, known).resolutions
      /\ session'.types = Recorded(phase, known).types
  BY <1>1, <1>2, PassOK DEF Severities
<1>4. /\ ~HasErrors(session') => DOMAIN session'.declarations = session'.nodes
      /\ session'.types = session.types
  BY <1>1, <1>2, <1>3, RecordedOK
<1> QED
  BY <1>1, <1>3, <1>4
     DEF DriverInv, PhaseInv, OutcomeInv, Passes, Outcomes, Continue, Return

(* A resolver that reports nothing has resolved every use.                  *)
LEMMA ResolveStep == DriverInv /\ Resolve => DriverInv'
<1> SUFFICES ASSUME DriverInv, Resolve PROVE DriverInv'
  OBVIOUS
<1>1. phase = "resolve" /\ round' = round /\ Continue(Succeeds, "type")
  BY DEF Resolve
<1>2. PICK known \in SUBSET session.nodes, severities \in SUBSET {"error"} :
          /\ known # session.nodes => "error" \in severities
          /\ session' = Reported(Recorded(phase, known), severities)
  BY <1>1 DEF Resolve
<1>3. /\ SessionInv'
      /\ session'.source = session.source /\ session'.tokens = session.tokens
      /\ session'.parsed = session.parsed /\ session'.nodes = session.nodes
      /\ HasErrors(session') <=> "error" \in severities
      /\ Succeeds <=> ~HasErrors(session')
      /\ session'.declarations = Recorded(phase, known).declarations
      /\ session'.resolutions = Recorded(phase, known).resolutions
      /\ session'.types = Recorded(phase, known).types
  BY <1>1, <1>2, PassOK DEF Severities
<1>4. /\ ~HasErrors(session') => DOMAIN session'.resolutions = session'.nodes
      /\ session'.declarations = session.declarations
  BY <1>1, <1>2, <1>3, RecordedOK
<1> QED
  BY <1>1, <1>3, <1>4
     DEF DriverInv, PhaseInv, OutcomeInv, Passes, Outcomes, Continue, Return

(* The entry point validator reads only.                                    *)
LEMMA ValidateStep == DriverInv /\ ValidateMain => DriverInv'
<1> SUFFICES ASSUME DriverInv, ValidateMain PROVE DriverInv'
  OBVIOUS
<1>1. phase = "entry" /\ round' = round /\ Continue(Succeeds, "resolve")
  BY DEF ValidateMain
<1>2. PICK severities \in SUBSET {"error"} :
          session' = Reported(Recorded(phase, {}), severities)
  BY <1>1 DEF ValidateMain, Recorded
<1>3. /\ SessionInv'
      /\ session'.source = session.source /\ session'.tokens = session.tokens
      /\ session'.parsed = session.parsed /\ session'.nodes = session.nodes
      /\ Succeeds <=> ~HasErrors(session')
      /\ session'.declarations = Recorded(phase, {}).declarations
      /\ session'.types = Recorded(phase, {}).types
  BY <1>1, <1>2, PassOK DEF Severities
<1>4. session'.declarations = session.declarations /\ session'.types = session.types
  BY <1>1, <1>3, RecordedOK
<1> QED
  BY <1>1, <1>3, <1>4
     DEF DriverInv, PhaseInv, OutcomeInv, Passes, Outcomes, Continue, Return

(* The type checker comes last to a table.                                  *)
LEMMA TypeCheckStep == DriverInv /\ TypeCheck => DriverInv'
<1> SUFFICES ASSUME DriverInv, TypeCheck PROVE DriverInv'
  OBVIOUS
<1>1. phase = "type" /\ round' = round /\ Continue(Succeeds, "flow")
  BY DEF TypeCheck
<1>2. PICK known \in SUBSET session.nodes, severities \in SUBSET {"error"} :
          session' = Reported(Recorded(phase, known), severities)
  BY <1>1 DEF TypeCheck
<1>3. /\ SessionInv'
      /\ session'.source = session.source /\ session'.tokens = session.tokens
      /\ session'.parsed = session.parsed /\ session'.nodes = session.nodes
      /\ HasErrors(session') <=> "error" \in severities
      /\ Succeeds <=> ~HasErrors(session')
      /\ session'.declarations = Recorded(phase, known).declarations
      /\ session'.resolutions = Recorded(phase, known).resolutions
      /\ session'.types = Recorded(phase, known).types
  BY <1>1, <1>2, PassOK DEF Severities
<1>4. /\ session'.declarations = session.declarations
      /\ session'.resolutions = session.resolutions
  BY <1>1, <1>3, RecordedOK
<1> QED
  BY <1>1, <1>3, <1>4
     DEF DriverInv, PhaseInv, OutcomeInv, Passes, Outcomes, Continue, Return

(* The last pass: its verdict is compile's.                                 *)
LEMMA CheckFlowStep == DriverInv /\ CheckFlow => DriverInv'
<1> SUFFICES ASSUME DriverInv, CheckFlow PROVE DriverInv'
  OBVIOUS
<1>1. phase = "flow" /\ round' = round
      /\ Return(IF Succeeds THEN "succeeded" ELSE "failed")
  BY DEF CheckFlow
<1>2. PICK severities \in SUBSET Severities :
          session' = Reported(Recorded(phase, {}), severities)
  BY <1>1 DEF CheckFlow, Recorded
<1>3. /\ SessionInv'
      /\ session'.source = session.source /\ session'.tokens = session.tokens
      /\ session'.parsed = session.parsed /\ session'.nodes = session.nodes
      /\ Succeeds <=> ~HasErrors(session')
      /\ session'.declarations = Recorded(phase, {}).declarations
      /\ session'.resolutions = Recorded(phase, {}).resolutions
  BY <1>1, <1>2, PassOK
<1>4. /\ session'.declarations = session.declarations
      /\ session'.resolutions = session.resolutions
  BY <1>1, <1>3, RecordedOK
<1> QED
  BY <1>1, <1>3, <1>4
     DEF DriverInv, PhaseInv, OutcomeInv, Passes, Outcomes, Return

(* An exception leaves a session that is in order, if incomplete.           *)
LEMMA ThrowStep == DriverInv /\ Throw => DriverInv'
<1> SUFFICES ASSUME DriverInv, Throw PROVE DriverInv'
  OBVIOUS
<1>1. phase # "idle" /\ round' = round /\ Return("thrown")
  BY DEF Throw, Passes
<1>2. PICK known \in SUBSET session.nodes, severities \in SUBSET {"error"} :
          session' = Reported(Recorded(phase, known), severities)
  BY DEF Throw
<1>3. SessionInv'
  BY <1>1, <1>2, PassOK DEF Severities
<1> QED
  BY <1>1, <1>3 DEF DriverInv, PhaseInv, OutcomeInv, Passes, Outcomes, Return

(* So every step of a call keeps the driver's invariant.                    *)
LEMMA WorkingStep == DriverInv /\ Working => DriverInv'
BY LoadStep, LexStep, ParseStep, CollectStep, ValidateStep, ResolveStep,
   TypeCheckStep, CheckFlowStep, ThrowStep DEF Working

(* And so does every step of run() that leaves the session alone.           *)
LEMMA IdleStep == DriverInv /\ UNCHANGED compilation => DriverInv'
BY DEF DriverInv, SessionInv, SessionOK, Own, HasErrors, PhaseInv, OutcomeInv,
       compilation

(* Lowering or generation after a success: an error it reports turns the    *)
(* verdict.                                                                 *)
LEMMA LaterStep ==
    ASSUME DriverInv, phase = "idle", outcome = "succeeded",
           UNCHANGED <<phase, round>>, NEW severities \in SUBSET {"error"},
           session' = Reported(session, severities),
           outcome' = IF HasErrors(session') THEN "failed" ELSE outcome
    PROVE  DriverInv'
<1>1. SessionOK(session, round) /\ session \in Session
  BY DEF DriverInv, SessionInv, SessionOK
<1>2. SessionOK(session', round') /\ round' \in 0..MaxRounds
  BY <1>1, ReportedOK DEF Severities, DriverInv, SessionInv
<1>3. /\ session'.source = session.source /\ session'.tokens = session.tokens
      /\ session'.parsed = session.parsed /\ session'.nodes = session.nodes
      /\ session'.declarations = session.declarations
      /\ session'.resolutions = session.resolutions
  BY <1>1, ReportedSession DEF Severities
<1> QED
  BY <1>2, <1>3 DEF DriverInv, SessionInv, PhaseInv, OutcomeInv, Passes, Outcomes

----------------------------------------------------------------------------
\* What run() knows at each of its steps.
RunInv ==
    /\ stage \in {"compile", "lower", "generate", "render", "write"} =>
           options.action = "compile"
    /\ stage \in {"lower", "generate", "render", "write"} => phase = "idle"
    /\ stage \in {"lower", "generate", "write"} => outcome = "succeeded"
    /\ stage = "render" => outcome \in {"succeeded", "failed"}
    /\ stage \in {"render", "write"} /\ outcome = "succeeded" /\ options.mode = "cpp" =>
           generated
    /\ stage \notin {"write", "exited"} => shown = {}
    /\ stage = "write" => shown = {r.severity : r \in session.reports}
    /\ stage # "exited" => out = "nothing" /\ exit = "running"
    /\ OutputOnlyOnSuccess

Inv == DriverInv /\ RunInv

(* A process starts with an empty session and nothing said.                 *)
LEMMA InitInv == Init => Inv
<1> SUFFICES ASSUME Init PROVE Inv
  OBVIOUS
<1>1. SessionOK(session, round) /\ round \in 0..MaxRounds
  BY EmptyOK, RoundsAssumption DEF Init, CompilationInit
<1>2. DriverInv
  BY <1>1 DEF Init, CompilationInit, DriverInv, SessionInv, PhaseInv, OutcomeInv,
              Passes, Outcomes
<1>3. RunInv
  BY DEF Init, CompilationInit, RunInv, OutputOnlyOnSuccess
<1> QED
  BY <1>2, <1>3 DEF Inv

(* Every step of the command or of a host keeps the invariant.              *)
LEMMA StepInv == Inv /\ [Next]_vars => Inv'
<1> SUFFICES ASSUME Inv, [Next]_vars PROVE Inv'
  OBVIOUS
<1> USE DEF Inv
<1>1. CASE ParseArguments
  <2>1. DriverInv'
    BY <1>1, IdleStep DEF ParseArguments
  <2>2. RunInv'
    BY <1>1 DEF ParseArguments, RunInv, OutputOnlyOnSuccess
  <2> QED
    BY <2>1, <2>2
<1>2. CASE Usage
  <2>1. DriverInv'
    BY <1>2, IdleStep DEF Usage
  <2>2. RunInv'
    BY <1>2 DEF Usage, ExitWith, RunInv, OutputOnlyOnSuccess
  <2> QED
    BY <2>1, <2>2
<1>3. CASE HelpOrVersion
  <2>1. DriverInv'
    BY <1>3, IdleStep DEF HelpOrVersion
  <2>2. RunInv'
    BY <1>3 DEF HelpOrVersion, ExitWith, RunInv, OutputOnlyOnSuccess
  <2> QED
    BY <2>1, <2>2
<1>4. CASE Compile
  <2>1. SessionOK(EmptySession, round)
    BY EmptyOK DEF DriverInv, SessionInv
  <2>2. DriverInv'
    BY <1>4, <2>1, BeginStep DEF Compile
  <2>3. RunInv'
    BY <1>4 DEF Compile, RunInv, OutputOnlyOnSuccess
  <2> QED
    BY <2>2, <2>3
<1>5. CASE CompileStep
  <2>1. DriverInv'
    BY <1>5, WorkingStep DEF CompileStep
  <2>2. RunInv'
    BY <1>5 DEF CompileStep, commandLine, RunInv, OutputOnlyOnSuccess
  <2> QED
    BY <2>1, <2>2
<1>6. CASE CompileReturns
  <2>1. DriverInv'
    BY <1>6, IdleStep DEF CompileReturns
  <2>2. phase = "idle"
    BY <1>6 DEF CompileReturns, DriverInv, PhaseInv
  <2>3. RunInv'
    BY <1>6, <2>2 DEF CompileReturns, compilation, RunInv, OutputOnlyOnSuccess
  <2> QED
    BY <2>1, <2>3
<1>7. CASE Abort
  <2>1. DriverInv'
    BY <1>7, IdleStep DEF Abort
  <2>2. RunInv'
    BY <1>7 DEF Abort, ExitWith, RunInv, OutputOnlyOnSuccess
  <2> QED
    BY <2>1, <2>2
<1>8. CASE Lower
  <2>1. PICK severities \in SUBSET {"error"} : session' = Reported(session, severities)
    BY <1>8 DEF Lower
  <2>2. DriverInv'
    BY <1>8, <2>1, LaterStep DEF Lower, RunInv
  <2>3. RunInv'
    BY <1>8 DEF Lower, RunInv, OutputOnlyOnSuccess
  <2> QED
    BY <2>2, <2>3
<1>9. CASE Generate
  <2>1. PICK severities \in SUBSET {"error"} : session' = Reported(session, severities)
    BY <1>9 DEF Generate
  <2>2. DriverInv'
    BY <1>9, <2>1, LaterStep DEF Generate, RunInv
  <2>3. RunInv'
    BY <1>9 DEF Generate, RunInv, OutputOnlyOnSuccess
  <2> QED
    BY <2>2, <2>3
<1>10. CASE Render
  <2>1. DriverInv'
    BY <1>10, IdleStep DEF Render
  <2>2. ASSUME outcome = "failed" PROVE "error" \in {r.severity : r \in session.reports}
    BY <2>2 DEF DriverInv, OutcomeInv, SessionInv, SessionOK
  <2>3. RunInv'
    BY <1>10, <2>2 DEF Render, ExitWith, compilation, RunInv, OutputOnlyOnSuccess
  <2> QED
    BY <2>1, <2>3
<1>11. CASE Write
  <2>1. DriverInv'
    BY <1>11, IdleStep DEF Write
  <2>2. /\ session.parsed
        /\ ~HasErrors(session)
    BY <1>11 DEF Write, RunInv, DriverInv, OutcomeInv
  <2>3. {r.severity : r \in session.reports} \subseteq {"warning"}
    BY <2>2 DEF DriverInv, SessionInv, SessionOK, Session, Severities
  <2>4. RunInv'
    BY <1>11, <2>2, <2>3 DEF Write, ExitWith, compilation, RunInv, OutputOnlyOnSuccess
  <2> QED
    BY <2>1, <2>4
<1>12. CASE HostCompiles
  <2>1. DriverInv'
    BY <1>12, BeginStep DEF HostCompiles, DriverInv, SessionInv
  <2>2. RunInv'
    BY <1>12 DEF HostCompiles, commandLine, RunInv, OutputOnlyOnSuccess
  <2> QED
    BY <2>1, <2>2
<1>13. CASE UNCHANGED vars
  <2>1. DriverInv'
    BY <1>13, IdleStep DEF vars
  <2>2. RunInv'
    BY <1>13 DEF vars, compilation, commandLine, RunInv, OutputOnlyOnSuccess
  <2> QED
    BY <2>1, <2>2
<1> QED
  BY <1>1, <1>2, <1>3, <1>4, <1>5, <1>6, <1>7, <1>8, <1>9, <1>10, <1>11, <1>12,
     <1>13 DEF Next

(* Hence it always holds.                                                   *)
LEMMA InvHolds == Spec => []Inv
<1> QED
  BY InitInv, StepInv, PTL DEF Spec

(* For every set of addresses, any number of compilations with one session, *)
(* errors and exceptions anywhere: the side tables answer for the nodes of  *)
(* the current program only, and diagnostics point into the loaded source.  *)
THEOREM ResultsAreFresh == Spec => []FreshResults
<1>1. Inv => FreshResults
  BY DEF Inv, DriverInv, SessionInv, SessionOK, Own, FreshResults, OfThisRound
<1> QED
  BY <1>1, InvHolds, PTL

(* compile returns true iff the program has no error and is fully declared  *)
(* and resolved; it never fails without a reported error.                   *)
THEOREM VerdictIsTrue == Spec => []VerdictTellsTruth
<1>1. Inv => VerdictTellsTruth
  BY DEF Inv, DriverInv, SessionInv, SessionOK, Own, OutcomeInv, VerdictTellsTruth
<1> QED
  BY <1>1, InvHolds, PTL

(* For every list of arguments and every outcome of the phases: output and  *)
(* exit code of success come together, and only without an error.           *)
THEOREM OutputIsOnlyOnSuccess == Spec => []OutputOnlyOnSuccess
<1>1. Inv => OutputOnlyOnSuccess
  BY DEF Inv, RunInv
<1> QED
  BY <1>1, InvHolds, PTL

----------------------------------------------------------------------------
(* What holds of 0, and of n + 1 whenever it holds of n, holds of every     *)
(* number.                                                                  *)
LEMMA NatInd ==
    ASSUME NEW T, 0 \in T, \A n \in Nat : n \in T => n + 1 \in T
    PROVE  Nat \subseteq T
<1> SUFFICES ASSUME Nat \ T # {} PROVE FALSE
  OBVIOUS
<1> DEFINE R == {ss \in Nat \X Nat : ss[1] < ss[2]}
<1>1. IsWellFoundedOn(R, Nat)
  BY NatLessThanWellFounded DEF OpToRel
<1> HIDE DEF R
<1>2. PICK n \in Nat \ T : \A m \in Nat \ T : <<m, n>> \notin R
  <2>1. Nat \ T \subseteq Nat
    OBVIOUS
  <2>2. QED
    BY <1>1, <2>1, WFMin
<1>3. n # 0 /\ n - 1 \in Nat
  BY <1>2
<1>4. <<n - 1, n>> \in R
  BY <1>3 DEF R
<1>5. n - 1 \in T
  BY <1>2, <1>3, <1>4
<1>6. QED
  BY <1>2, <1>3, <1>5


\* A function that Understood defines recursively, on the first n arguments.
Unfolds(list, n, g) ==
    g = [i \in 0..n |-> IF i = 0 THEN NoOptions ELSE ParseArgument(g[i - 1], list[i])]

(* The loop gives a value after every number of arguments.                  *)
LEMMA UnderstoodExists == ASSUME NEW list PROVE \A n \in Nat : \E g : Unfolds(list, n, g)
<1> DEFINE T == {n \in Nat : \E g : Unfolds(list, n, g)}
<1>1. 0 \in T
  <2>1. Unfolds(list, 0, [i \in 0..0 |-> NoOptions])
    BY DEF Unfolds
  <2> QED
    BY <2>1
<1>2. ASSUME NEW n \in T PROVE n + 1 \in T
  <2>1. PICK g : Unfolds(list, n, g)
    OBVIOUS
  <2> DEFINE h == [i \in 0..(n + 1) |-> IF i = n + 1 THEN ParseArgument(g[n], list[i]) ELSE g[i]]
  <2>2. ASSUME NEW i \in 0..(n + 1)
        PROVE  h[i] = IF i = 0 THEN NoOptions ELSE ParseArgument(h[i - 1], list[i])
    BY <2>1 DEF Unfolds
  <2>3. h = [i \in 0..(n + 1) |-> IF i = 0 THEN NoOptions ELSE ParseArgument(h[i - 1], list[i])]
    BY <2>2
  <2>4. Unfolds(list, n + 1, h)
    BY <2>3 DEF Unfolds
  <2> QED
    BY <2>4
<1>3. T \subseteq Nat
  OBVIOUS
<1> HIDE DEF T
<1>4. Nat \subseteq T
  BY <1>1, <1>2, <1>3, NatInd
<1> QED
  BY <1>4 DEF T

(* The loop starts without options and takes one argument after the other.  *)
LEMMA UnderstoodUnfolds ==
    ASSUME NEW list \in Seq(Arguments)
    PROVE  /\ Understood(list)[0] = NoOptions
           /\ \A i \in 1..Len(list) :
                  Understood(list)[i] = ParseArgument(Understood(list)[i - 1], list[i])
<1>1. Len(list) \in Nat
  OBVIOUS
<1>2. \E g : Unfolds(list, Len(list), g)
  BY <1>1, UnderstoodExists
<1>3. Unfolds(list, Len(list), Understood(list))
  BY <1>2 DEF Unfolds, Understood
<1> QED
  BY <1>1, <1>3 DEF Unfolds

----------------------------------------------------------------------------
Wrongs == {"unknown option", "conflict", "two files"}

OffendsAt(list, i) == \E r \in Wrongs : Offends(list, i, r)

\* The first n arguments are accepted, and o is what they ask for.
AcceptedUpTo(list, n, o) ==
    /\ o.action = "compile" /\ o.error = "none"
    /\ \A i \in 1..n : ~OffendsAt(list, i)
    /\ o.mode \in {"none", "ast", "cpp"}
    /\ o.mode = "ast" <=> \E i \in 1..n : list[i] = "--dump-ast"
    /\ o.mode = "cpp" <=> \E i \in 1..n : list[i] = "--emit-cpp"
    /\ o.input = NoInput \/ \E i \in 1..n : list[i] \in Files /\ list[i] = o.input
    /\ \A i \in 1..n : list[i] \in Files => o.input = list[i]

\* One of the first n arguments is wrong, and o reports the first of them.
RefusedUpTo(list, n, o) ==
    /\ o.action = "refuse" /\ o.error \in Wrongs
    /\ \E i \in 1..n : Offends(list, i, o.error) /\ \A j \in 1..(i - 1) : ~OffendsAt(list, j)

ParseResults ==
    [action : {"compile", "refuse"}, mode : {"none", "ast", "cpp"},
     input : Files \cup {NoInput}, error : {"none"} \cup Wrongs]

(* What each kind of wrong argument is.                                     *)
LEMMA OffendsFacts ==
    ASSUME NEW list, NEW i, NEW r
    PROVE  /\ r = "unknown option" =>
                  (Offends(list, i, r) <=> list[i] \notin {"--dump-ast", "--emit-cpp"} \cup Files)
           /\ r = "conflict" =>
                  (Offends(list, i, r)
                       <=> \E j \in 1..(i - 1) :
                               \/ list[i] = "--dump-ast" /\ list[j] = "--emit-cpp"
                               \/ list[i] = "--emit-cpp" /\ list[j] = "--dump-ast")
           /\ r = "two files" =>
                  (Offends(list, i, r)
                       <=> list[i] \in Files /\ \E j \in 1..(i - 1) : list[j] \in Files)
<1>1. DOMAIN OutputMode = {"--dump-ast", "--emit-cpp"}
  BY DEF OutputMode
<1>2. CASE r = "unknown option"
  BY <1>1, <1>2 DEF Offends
<1>3. CASE r = "conflict"
  <2>1. Offends(list, i, r)
            <=> \E j \in 1..(i - 1) : {list[i], list[j]} = {"--dump-ast", "--emit-cpp"}
    BY <1>3 DEF Offends
  <2>2. \A a, b : {a, b} = {"--dump-ast", "--emit-cpp"}
            <=> \/ a = "--dump-ast" /\ b = "--emit-cpp"
                \/ a = "--emit-cpp" /\ b = "--dump-ast"
    OBVIOUS
  <2> QED
    BY <1>3, <2>1, <2>2
<1>4. CASE r = "two files"
  BY <1>4 DEF Offends
<1> QED
  BY <1>2, <1>3, <1>4

(* An argument does not offend when it is one the loop knows, no other mode *)
(* comes before a mode, and no file before a file.                          *)
LEMMA Unoffending ==
    ASSUME NEW list, NEW i,
           list[i] \in {"--dump-ast", "--emit-cpp"} \cup Files,
           \A j \in 1..(i - 1) :
               /\ list[i] = "--dump-ast" => list[j] # "--emit-cpp"
               /\ list[i] = "--emit-cpp" => list[j] # "--dump-ast"
               /\ list[i] \in Files => list[j] \notin Files
    PROVE  ~OffendsAt(list, i)
<1> SUFFICES ASSUME NEW r \in Wrongs, Offends(list, i, r) PROVE FALSE
  BY DEF OffendsAt
<1> QED
  BY OffendsFacts DEF Wrongs

\* What one argument makes of options that are accepted or refused.
Taken(o, a, p) ==
    /\ o.action = "refuse" => p = o
    /\ o.action # "refuse" /\ a = "--dump-ast" =>
           IF o.mode = "cpp"
           THEN p.action = "refuse" /\ p.error = "conflict"
           ELSE /\ p.action = o.action /\ p.error = o.error
                /\ p.input = o.input /\ p.mode = "ast"
    /\ o.action # "refuse" /\ a = "--emit-cpp" =>
           IF o.mode = "ast"
           THEN p.action = "refuse" /\ p.error = "conflict"
           ELSE /\ p.action = o.action /\ p.error = o.error
                /\ p.input = o.input /\ p.mode = "cpp"
    /\ o.action # "refuse" /\ a \in Files =>
           IF o.input # NoInput
           THEN p.action = "refuse" /\ p.error = "two files"
           ELSE /\ p.action = o.action /\ p.error = o.error
                /\ p.input = a /\ p.mode = o.mode
    /\ o.action # "refuse" /\ a \notin {"--dump-ast", "--emit-cpp"} \cup Files =>
           p.action = "refuse" /\ p.error = "unknown option"

(* That is what the body of the loop does.                                  *)
LEMMA ArgumentFacts ==
    ASSUME NEW o \in ParseResults, NEW a \in Arguments, NEW p, p = ParseArgument(o, a)
    PROVE  p \in ParseResults /\ Taken(o, a, p)
<1>1. /\ DOMAIN OutputMode = {"--dump-ast", "--emit-cpp"}
      /\ OutputMode["--dump-ast"] = "ast" /\ OutputMode["--emit-cpp"] = "cpp"
  BY DEF OutputMode
<1>2. "--dump-ast" \notin Files /\ "--emit-cpp" \notin Files
  BY ArgumentsAssumption DEF Dashed
<1>3. \A r \in Wrongs : /\ Refused(r) \in ParseResults
                        /\ Refused(r).action = "refuse" /\ Refused(r).error = r
  BY DEF Refused, NoOptions, ParseResults
<1>4. CASE o.action = "refuse"
  BY <1>4 DEF ParseArgument, Taken
<1>5. CASE o.action # "refuse" /\ a = "--dump-ast"
  <2>1. ParseArgument(o, a) =
            IF o.mode \in {"none", "ast"} THEN [o EXCEPT !.mode = "ast"] ELSE Refused("conflict")
    BY <1>1, <1>2, <1>5 DEF ParseArgument
  <2>2. o.mode \in {"none", "ast", "cpp"}
    BY DEF ParseResults
  <2> QED
    BY <1>2, <1>3, <1>5, <2>1, <2>2 DEF ParseResults, Wrongs, Taken
<1>6. CASE o.action # "refuse" /\ a = "--emit-cpp"
  <2>1. ParseArgument(o, a) =
            IF o.mode \in {"none", "cpp"} THEN [o EXCEPT !.mode = "cpp"] ELSE Refused("conflict")
    BY <1>1, <1>2, <1>6 DEF ParseArgument
  <2>2. o.mode \in {"none", "ast", "cpp"}
    BY DEF ParseResults
  <2> QED
    BY <1>2, <1>3, <1>6, <2>1, <2>2 DEF ParseResults, Wrongs, Taken
<1>7. CASE o.action # "refuse" /\ a \in Files
  <2>1. ParseArgument(o, a) =
            IF o.input = NoInput THEN [o EXCEPT !.input = a] ELSE Refused("two files")
    BY <1>1, <1>2, <1>7 DEF ParseArgument
  <2> QED
    BY <1>2, <1>3, <1>7, <2>1 DEF ParseResults, Wrongs, Taken
<1>8. CASE o.action # "refuse" /\ a \notin {"--dump-ast", "--emit-cpp"} \cup Files
  <2>1. ParseArgument(o, a) = Refused("unknown option")
    BY <1>1, <1>8 DEF ParseArgument
  <2> QED
    BY <1>3, <1>8, <2>1 DEF Wrongs, Taken
<1> QED
  BY <1>4, <1>5, <1>6, <1>7, <1>8

(* One more argument: the loop keeps what it knows.                         *)
LEMMA OneMore ==
    ASSUME NEW list \in Seq(Arguments), NEW n \in Nat, n + 1 <= Len(list),
           NEW o \in ParseResults, NEW p, p = ParseArgument(o, list[n + 1]),
           AcceptedUpTo(list, n, o) \/ RefusedUpTo(list, n, o)
    PROVE  AcceptedUpTo(list, n + 1, p) \/ RefusedUpTo(list, n + 1, p)
<1> DEFINE a == list[n + 1]
<1>0. a \in Arguments
  OBVIOUS
<1>1. Taken(o, a, p)
  BY <1>0, ArgumentFacts
<1>2. CASE RefusedUpTo(list, n, o)
  <2>1. p = o
    BY <1>1, <1>2 DEF RefusedUpTo, Taken
  <2>2. RefusedUpTo(list, n + 1, o)
    BY <1>2 DEF RefusedUpTo
  <2> QED
    BY <2>1, <2>2
<1>3. ASSUME AcceptedUpTo(list, n, o), Offends(list, n + 1, p.error),
             p.action = "refuse", p.error \in Wrongs
      PROVE  RefusedUpTo(list, n + 1, p)
  <2>1. \A j \in 1..((n + 1) - 1) : ~OffendsAt(list, j)
    BY <1>3 DEF AcceptedUpTo
  <2>2. n + 1 \in 1..(n + 1)
    OBVIOUS
  <2> QED
    BY <1>3, <2>1, <2>2 DEF RefusedUpTo
<1>4. /\ AcceptedUpTo(list, n, o) => o.action # "refuse"
      /\ "unknown option" \in Wrongs /\ "conflict" \in Wrongs /\ "two files" \in Wrongs
  BY DEF AcceptedUpTo, Wrongs
<1>5. "--dump-ast" \notin Files /\ "--emit-cpp" \notin Files /\ NoInput \notin Files
  BY ArgumentsAssumption DEF Dashed
<1>6. ASSUME ~OffendsAt(list, n + 1), AcceptedUpTo(list, n, o)
      PROVE  \A i \in 1..(n + 1) : ~OffendsAt(list, i)
  BY <1>6 DEF AcceptedUpTo
<1>7. /\ \A i \in 1..(n + 1) : i \in 1..n \/ i = n + 1
      /\ \A i \in 1..n : i \in 1..(n + 1)
      /\ (n + 1) - 1 = n
  OBVIOUS
<1> HIDE DEF a
<1>8. a = list[n + 1]
  BY DEF a
<1>9. CASE AcceptedUpTo(list, n, o) /\ a = "--dump-ast"
  <2>1. CASE o.mode = "cpp"
    <3>1. \E j \in 1..n : list[j] = "--emit-cpp"
      BY <1>9, <2>1 DEF AcceptedUpTo
    <3>2. p.action = "refuse" /\ p.error = "conflict"
      BY <1>1, <1>4, <1>9, <2>1 DEF Taken
    <3>3. Offends(list, n + 1, p.error)
      BY <1>7, <1>8, <1>9, <3>1, <3>2, OffendsFacts
    <3> QED
      BY <1>3, <1>4, <1>9, <3>2, <3>3
  <2>2. CASE o.mode # "cpp"
    <3>1. /\ p.action = o.action /\ p.error = o.error
          /\ p.input = o.input /\ p.mode = "ast"
      BY <1>1, <1>4, <1>9, <2>2 DEF Taken
    <3>2. \A j \in 1..n : list[j] # "--emit-cpp"
      BY <1>9, <2>2 DEF AcceptedUpTo
    <3>3. ~OffendsAt(list, n + 1)
      BY <1>5, <1>7, <1>8, <1>9, <3>2, Unoffending
    <3>4. \A i \in 1..(n + 1) : ~OffendsAt(list, i)
      BY <1>6, <1>9, <3>3
    <3>5. \A i \in 1..(n + 1) : list[i] # "--emit-cpp"
      BY <1>7, <1>8, <1>9, <3>2
    <3>6. list[n + 1] = "--dump-ast" /\ n + 1 \in 1..(n + 1)
      BY <1>8, <1>9
    <3>7. AcceptedUpTo(list, n + 1, p)
      BY <1>5, <1>7, <1>8, <1>9, <3>1, <3>4, <3>5, <3>6 DEF AcceptedUpTo
    <3> QED
      BY <3>7
  <2> QED
    BY <2>1, <2>2
<1>10. CASE AcceptedUpTo(list, n, o) /\ a = "--emit-cpp"
  <2>1. CASE o.mode = "ast"
    <3>1. \E j \in 1..n : list[j] = "--dump-ast"
      BY <1>10, <2>1 DEF AcceptedUpTo
    <3>2. p.action = "refuse" /\ p.error = "conflict"
      BY <1>1, <1>4, <1>10, <2>1 DEF Taken
    <3>3. Offends(list, n + 1, p.error)
      BY <1>7, <1>8, <1>10, <3>1, <3>2, OffendsFacts
    <3> QED
      BY <1>3, <1>4, <1>10, <3>2, <3>3
  <2>2. CASE o.mode # "ast"
    <3>1. /\ p.action = o.action /\ p.error = o.error
          /\ p.input = o.input /\ p.mode = "cpp"
      BY <1>1, <1>4, <1>10, <2>2 DEF Taken
    <3>2. \A j \in 1..n : list[j] # "--dump-ast"
      BY <1>10, <2>2 DEF AcceptedUpTo
    <3>3. ~OffendsAt(list, n + 1)
      BY <1>5, <1>7, <1>8, <1>10, <3>2, Unoffending
    <3>4. \A i \in 1..(n + 1) : ~OffendsAt(list, i)
      BY <1>6, <1>10, <3>3
    <3>5. \A i \in 1..(n + 1) : list[i] # "--dump-ast"
      BY <1>7, <1>8, <1>10, <3>2
    <3>6. list[n + 1] = "--emit-cpp" /\ n + 1 \in 1..(n + 1)
      BY <1>8, <1>10
    <3>7. AcceptedUpTo(list, n + 1, p)
      BY <1>5, <1>7, <1>8, <1>10, <3>1, <3>4, <3>5, <3>6 DEF AcceptedUpTo
    <3> QED
      BY <3>7
  <2> QED
    BY <2>1, <2>2
<1>11. CASE AcceptedUpTo(list, n, o) /\ a \in Files
  <2>1. CASE o.input # NoInput
    <3>1. \E j \in 1..n : list[j] \in Files
      BY <1>11, <2>1 DEF AcceptedUpTo
    <3>2. p.action = "refuse" /\ p.error = "two files"
      BY <1>1, <1>4, <1>11, <2>1 DEF Taken
    <3>3. Offends(list, n + 1, p.error)
      BY <1>7, <1>8, <1>11, <3>1, <3>2, OffendsFacts
    <3> QED
      BY <1>3, <1>4, <1>11, <3>2, <3>3
  <2>2. CASE o.input = NoInput
    <3>1. /\ p.action = o.action /\ p.error = o.error
          /\ p.input = a /\ p.mode = o.mode
      BY <1>1, <1>4, <1>11, <2>2 DEF Taken
    <3>2. \A j \in 1..n : list[j] \notin Files
      BY <1>5, <1>11, <2>2 DEF AcceptedUpTo
    <3>3. ~OffendsAt(list, n + 1)
      BY <1>5, <1>7, <1>8, <1>11, <3>2, Unoffending
    <3>4. \A i \in 1..(n + 1) : ~OffendsAt(list, i)
      BY <1>6, <1>11, <3>3
    <3>5. list[n + 1] \in Files /\ n + 1 \in 1..(n + 1)
      BY <1>8, <1>11
    <3>6. AcceptedUpTo(list, n + 1, p)
      BY <1>5, <1>7, <1>8, <1>11, <3>1, <3>2, <3>4, <3>5 DEF AcceptedUpTo
    <3> QED
      BY <3>6
  <2> QED
    BY <2>1, <2>2
<1>12. CASE AcceptedUpTo(list, n, o) /\ a \notin {"--dump-ast", "--emit-cpp"} \cup Files
  <2>1. p.action = "refuse" /\ p.error = "unknown option"
    BY <1>1, <1>4, <1>12 DEF Taken
  <2>2. Offends(list, n + 1, p.error)
    BY <1>8, <1>12, <2>1, OffendsFacts
  <2> QED
    BY <1>3, <1>4, <1>12, <2>1, <2>2
<1> QED
  BY <1>2, <1>9, <1>10, <1>11, <1>12

(* So after the whole list it knows what the list asks for, or its first    *)
(* wrong argument.                                                          *)
LEMMA LoopUnderstands ==
    ASSUME NEW list \in Seq(Arguments)
    PROVE  LET o == Understood(list)[Len(list)]
           IN  /\ o \in ParseResults
               /\ AcceptedUpTo(list, Len(list), o) \/ RefusedUpTo(list, Len(list), o)
<1> DEFINE u == Understood(list)
           Good(n) == /\ u[n] \in ParseResults
                      /\ AcceptedUpTo(list, n, u[n]) \/ RefusedUpTo(list, n, u[n])
           T == {n \in Nat : n <= Len(list) => Good(n)}
<1>1. Len(list) \in Nat
  OBVIOUS
<1>2. 0 \in T
  <2>1. u[0] = NoOptions
    BY UnderstoodUnfolds
  <2>2. NoOptions \in ParseResults
    BY DEF NoOptions, ParseResults
  <2>3. AcceptedUpTo(list, 0, NoOptions)
    BY DEF AcceptedUpTo, NoOptions
  <2> QED
    BY <2>1, <2>2, <2>3
<1>3. ASSUME NEW n \in Nat, n \in T, n + 1 <= Len(list) PROVE Good(n + 1)
  <2>1. Good(n)
    BY <1>1, <1>3
  <2>2. n + 1 \in 1..Len(list) /\ (n + 1) - 1 = n
    BY <1>1, <1>3
  <2>3. u[n + 1] = ParseArgument(u[n], list[n + 1])
    BY <2>2, UnderstoodUnfolds
  <2>4. list[n + 1] \in Arguments
    BY <2>2
  <2> HIDE DEF u
  <2>5. u[n + 1] \in ParseResults
    BY <2>1, <2>3, <2>4, ArgumentFacts
  <2>6. AcceptedUpTo(list, n + 1, u[n + 1]) \/ RefusedUpTo(list, n + 1, u[n + 1])
    BY <1>3, <2>1, <2>3, OneMore
  <2> QED
    BY <2>5, <2>6
<1>4. \A n \in Nat : n \in T => n + 1 \in T
  BY <1>3
<1> HIDE DEF T
<1>5. Nat \subseteq T
  BY <1>2, <1>4, NatInd
<1> QED
  BY <1>1, <1>5 DEF T

----------------------------------------------------------------------------
Offending(list) == {i \in 1..Len(list) : OffendsAt(list, i)}

\* What ArgumentsUnderstood says of a list and the options made of it.
MeansWell(list, o) ==
    /\ o.action = "help" <=> list = <<"--help">>
    /\ o.action = "version" <=> list = <<"--version">>
    /\ o.action = "compile" =>
           /\ Offending(list) = {}
           /\ {o.input} = ToSet(list) \cap Files
           /\ "--dump-ast" \in ToSet(list) <=> o.mode = "ast"
           /\ "--emit-cpp" \in ToSet(list) <=> o.mode = "cpp"
    /\ o.action = "refuse" <=>
           /\ list # <<"--help">> /\ list # <<"--version">>
           /\ Offending(list) # {} \/ ToSet(list) \cap Files = {}
    /\ o.action = "refuse" =>
           IF Offending(list) = {} THEN o.error = NoInput
           ELSE Offends(list, Min(Offending(list)), o.error)

(* A list that the whole loop accepts.                                      *)
LEMMA AcceptedMeans ==
    ASSUME NEW list \in Seq(Arguments), list # <<"--help">>, list # <<"--version">>,
           NEW o \in ParseResults, AcceptedUpTo(list, Len(list), o)
    PROVE  /\ o.input = NoInput => MeansWell(list, Refused(NoInput))
           /\ o.input # NoInput => MeansWell(list, o)
<1>1. Offending(list) = {}
  BY DEF Offending, AcceptedUpTo
<1>2. /\ ToSet(list) = {list[i] : i \in 1..Len(list)}
      /\ NoInput \notin Files
  BY ArgumentsAssumption DEF ToSet
<1>3. CASE o.input = NoInput
  <2>1. \A i \in 1..Len(list) : list[i] \notin Files
    BY <1>2, <1>3 DEF AcceptedUpTo
  <2>2. ToSet(list) \cap Files = {}
    BY <1>2, <2>1
  <2>3. Refused(NoInput).action = "refuse" /\ Refused(NoInput).error = NoInput
    BY DEF Refused, NoOptions
  <2> QED
    BY <1>1, <1>3, <2>2, <2>3 DEF MeansWell
<1>4. CASE o.input # NoInput
  <2>1. {o.input} = ToSet(list) \cap Files
    <3>1. o.input \in ToSet(list) \cap Files
      BY <1>2, <1>4 DEF AcceptedUpTo
    <3>2. \A f \in ToSet(list) \cap Files : f = o.input
      BY <1>2 DEF AcceptedUpTo
    <3> QED
      BY <3>1, <3>2
  <2>2. o.action = "compile"
    BY DEF AcceptedUpTo
  <2>3. /\ "--dump-ast" \in ToSet(list) <=> o.mode = "ast"
        /\ "--emit-cpp" \in ToSet(list) <=> o.mode = "cpp"
    BY <1>2 DEF AcceptedUpTo
  <2> QED
    BY <1>1, <1>4, <2>1, <2>2, <2>3 DEF MeansWell
<1> QED
  BY <1>3, <1>4

(* A list that the loop refuses.                                            *)
LEMMA RefusedMeans ==
    ASSUME NEW list \in Seq(Arguments), list # <<"--help">>, list # <<"--version">>,
           NEW o \in ParseResults, RefusedUpTo(list, Len(list), o)
    PROVE  MeansWell(list, o)
<1>1. PICK k \in 1..Len(list) : /\ Offends(list, k, o.error)
                                /\ \A j \in 1..(k - 1) : ~OffendsAt(list, j)
  BY DEF RefusedUpTo
<1>2. o.action = "refuse" /\ o.error \in Wrongs
  BY DEF RefusedUpTo
<1>3. k \in Offending(list)
  BY <1>1, <1>2 DEF Offending, OffendsAt
<1>4. \A j \in Offending(list) : j \in Int /\ k <= j
  <2> SUFFICES ASSUME NEW j \in Offending(list), ~(k <= j) PROVE FALSE
    BY DEF Offending
  <2>1. j \in 1..(k - 1) /\ OffendsAt(list, j)
    BY <1>1 DEF Offending
  <2> QED
    BY <1>1, <2>1
<1>5. Min(Offending(list)) = k
  <2>1. \A x \in Offending(list) : (\A y \in Offending(list) : x <= y) => x = k
    <3> SUFFICES ASSUME NEW x \in Offending(list), x <= k PROVE x = k
      BY <1>3
    <3> QED
      BY <1>4, <1>1
  <2> QED
    BY <1>3, <1>4, <2>1 DEF Min
<1> QED
  BY <1>1, <1>2, <1>3, <1>5 DEF MeansWell

(* parse_args as a whole.                                                   *)
LEMMA ParseArgsMeans == ASSUME NEW list \in Seq(Arguments) PROVE MeansWell(list, ParseArgs(list))
<1> DEFINE o == Understood(list)[Len(list)]
<1>1. /\ o \in ParseResults
      /\ AcceptedUpTo(list, Len(list), o) \/ RefusedUpTo(list, Len(list), o)
  BY LoopUnderstands
<1>2. <<"--help">> # <<"--version">>
  <2>1. <<"--help">>[1] # <<"--version">>[1]
    OBVIOUS
  <2> QED
    BY <2>1
<1>3. CASE list = <<"--help">>
  <2>1. ParseArgs(list) = [NoOptions EXCEPT !.action = "help"]
    BY <1>3 DEF ParseArgs
  <2>2. ParseArgs(list).action = "help"
    BY <2>1 DEF NoOptions
  <2> QED
    BY <1>2, <1>3, <2>2 DEF MeansWell
<1>4. CASE list = <<"--version">>
  <2>1. ParseArgs(list) = [NoOptions EXCEPT !.action = "version"]
    BY <1>2, <1>4 DEF ParseArgs
  <2>2. ParseArgs(list).action = "version"
    BY <2>1 DEF NoOptions
  <2> QED
    BY <1>2, <1>4, <2>2 DEF MeansWell
<1>5. CASE list # <<"--help">> /\ list # <<"--version">>
  <2>1. ParseArgs(list) = IF o.action # "refuse" /\ o.input = NoInput
                          THEN Refused(NoInput) ELSE o
    BY <1>5 DEF ParseArgs
  <2> HIDE DEF o
  <2>2. CASE AcceptedUpTo(list, Len(list), o)
    <3>1. o.action # "refuse"
      BY <2>2 DEF AcceptedUpTo
    <3> QED
      BY <1>1, <1>5, <2>1, <2>2, <3>1, AcceptedMeans
  <2>3. CASE RefusedUpTo(list, Len(list), o)
    <3>1. ParseArgs(list) = o
      BY <2>1, <2>3 DEF RefusedUpTo
    <3> QED
      BY <1>1, <1>5, <2>3, <3>1, RefusedMeans
  <2> QED
    BY <1>1, <2>2, <2>3
<1> QED
  BY <1>3, <1>4, <1>5

(* Between ParseArguments and the step that acts on its result, the options *)
(* are those of the arguments.                                              *)
ArgsInv == stage = "parsed" => args \in Seq(Arguments) /\ options = ParseArgs(args)

(* For every list of arguments of every length: the verdict of parse_args   *)
(* is that of its first wrong argument, or what the whole list asks for.    *)
THEOREM ArgumentsAreUnderstood == Spec => []ArgumentsUnderstood
<1>1. Init => ArgsInv
  BY DEF Init, ArgsInv
<1>2. ArgsInv /\ [Next]_vars => ArgsInv'
  <2> SUFFICES ASSUME ArgsInv, [Next]_vars, stage' = "parsed"
               PROVE  args' \in Seq(Arguments) /\ options' = ParseArgs(args')
    BY DEF ArgsInv
  <2>1. CASE ParseArguments
    <3>1. PICK n \in 0..MaxArguments : args' \in [1..n -> Arguments]
      BY <2>1 DEF ParseArguments, BoundedSeq, SeqOf
    <3>2. n \in Nat
      BY ArgumentsAssumption
    <3> QED
      BY <2>1, <3>1, <3>2 DEF ParseArguments
  <2>2. CASE stage = "parsed" /\ UNCHANGED <<args, options>>
    BY <2>2 DEF ArgsInv
  <2>3. ~ParseArguments => stage = "parsed" /\ UNCHANGED <<args, options>>
    BY DEF Next, vars, commandLine, Usage, HelpOrVersion, ExitWith, Compile, CompileStep,
           CompileReturns, Abort, Lower, Generate, Render, Write, HostCompiles
  <2> QED
    BY <2>1, <2>2, <2>3
<1>3. ArgsInv => ArgumentsUnderstood
  <2> SUFFICES ASSUME stage = "parsed", MeansWell(args, options), args \in Seq(Arguments)
               PROVE  ArgumentsUnderstood
    BY ParseArgsMeans DEF ArgsInv, ArgumentsUnderstood
  <2>1. Offending(args) = {i \in DOMAIN args :
                              \E r \in {"unknown option", "conflict", "two files"} :
                                  Offends(args, i, r)}
    <3>1. DOMAIN args = 1..Len(args)
      OBVIOUS
    <3> QED
      BY <3>1, Zenon DEF Offending, OffendsAt, Wrongs
  <2>2. \A m \in DOMAIN OutputMode :
            \/ m = "--dump-ast" /\ OutputMode[m] = "ast"
            \/ m = "--emit-cpp" /\ OutputMode[m] = "cpp"
    BY DEF OutputMode
  <2>3. options.action = "compile" =>
            \A m \in DOMAIN OutputMode : m \in ToSet(args) <=> options.mode = OutputMode[m]
    BY <2>2 DEF MeansWell
  <2>4. args \in {<<"--help">>, <<"--version">>}
            <=> args = <<"--help">> \/ args = <<"--version">>
    OBVIOUS
  <2>5. ArgumentsUnderstood <=>
            /\ options.action = "help" <=> args = <<"--help">>
            /\ options.action = "version" <=> args = <<"--version">>
            /\ options.action = "compile" =>
                   /\ Offending(args) = {}
                   /\ {options.input} = ToSet(args) \cap Files
                   /\ \A m \in DOMAIN OutputMode :
                          m \in ToSet(args) <=> options.mode = OutputMode[m]
            /\ options.action = "refuse" <=>
                   /\ ~(args \in {<<"--help">>, <<"--version">>})
                   /\ Offending(args) # {} \/ ToSet(args) \cap Files = {}
            /\ options.action = "refuse" =>
                   IF Offending(args) = {} THEN options.error = NoInput
                   ELSE Offends(args, Min(Offending(args)), options.error)
    BY <2>1, Zenon DEF ArgumentsUnderstood
  <2> QED
    BY <2>3, <2>4, <2>5 DEF MeansWell
<1> QED
  BY <1>1, <1>2, <1>3, PTL DEF Spec
============================================================================
