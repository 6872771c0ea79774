---------------------------- MODULE Compilation ----------------------------
(* Compiler::compile (driver/compiler.cpp) over a CompilationSession that   *)
(* is used for one compilation after the other.                             *)
(*                                                                          *)
(* What a pass does to one node is the business of the modules of the       *)
(* passes. Here a pass records an entry for some nodes of the program and   *)
(* reports or does not report; this module is about what the passes leave   *)
(* in the session, when the driver stops, and what a later compilation      *)
(* finds. The side tables are keyed by the addresses of nodes, and the      *)
(* nodes of a new program may live where those of the old one were: entries *)
(* carry the number of the compilation that recorded them.                  *)
EXTENDS Naturals, FiniteSets

CONSTANTS
    Addresses,   \* where nodes of a program can live
    MaxRounds    \* bound: compilations with one session

ASSUME RoundsAssumption == MaxRounds \in Nat \ {0}

VARIABLES
    session,     \* what the CompilationSession holds
    phase,       \* the pass that is running, or "idle"
    round,       \* the number of calls of compile so far
    outcome      \* what the last call did: it returned, or it threw

compilation == <<session, phase, round, outcome>>

Passes == {"load", "lex", "parse", "collect", "entry", "resolve", "type", "flow"}
Outcomes == {"none", "succeeded", "failed", "thrown"}
Severities == {"error", "warning"}

EmptyTable == [a \in {} |-> 0]

\* A session as its constructor leaves it. The symbol table and the types are
\* not shown: entries of the tables below stand for the ids they hold.
EmptySession ==
    [source       |-> 0,           \* the compilation that loaded the source, 0: none
     tokens       |-> 0,           \* the compilation that made the tokens, 0: none
     parsed       |-> FALSE,       \* program_.has_value()
     nodes        |-> {},          \* the addresses of the program's nodes
     declarations |-> EmptyTable,
     resolutions  |-> EmptyTable,
     types        |-> EmptyTable,
     errors       |-> 0,           \* error_count_
     reports      |-> {}]          \* diagnostics_

CompilationInit ==
    /\ session = EmptySession
    /\ phase = "idle"
    /\ round = 0
    /\ outcome = "none"

----------------------------------------------------------------------------
\* unordered_map::emplace: an entry that is there stays.
Emplaced(table, keys) ==
    [a \in DOMAIN table \cup keys |-> IF a \in DOMAIN table THEN table[a] ELSE round]

\* unordered_map::insert_or_assign: an entry that is there is replaced.
Assigned(table, keys) ==
    [a \in DOMAIN table \cup keys |-> IF a \in keys THEN round ELSE table[a]]

\* The session after pass p has recorded entries for these nodes.
Recorded(p, known) ==
    CASE p = "collect" -> [session EXCEPT !.declarations = Emplaced(@, known)]
      [] p = "resolve" -> [session EXCEPT !.resolutions = Emplaced(@, known)]
      [] p = "type"    -> [session EXCEPT !.types = Assigned(@, known)]
      [] OTHER         -> session

\* DiagnosticEngine::report for one diagnostic of each of these severities;
\* its span is in the source that is loaded.
Reported(s, severities) ==
    [s EXCEPT !.errors = IF "error" \in severities THEN @ + 1 ELSE @,
              !.reports = @ \cup {[of |-> s.source, severity |-> v] : v \in severities}]

HasErrors(s) == s.errors # 0

\* Mutant: reset forgets one of its tables.
ResetKeepsDeclarations(s) == [EmptySession EXCEPT !.declarations = s.declarations]

\* CompilationSession::reset.
Reset(s) == EmptySession

\* What reset leaves if the new symbol table cannot be allocated.
ResetInterrupted(s) ==
    [EmptySession EXCEPT !.source = s.source, !.errors = s.errors, !.reports = s.reports]

Return(verdict) == phase' = "idle" /\ outcome' = verdict

\* compile goes on to the next pass, or returns.
Continue(ok, next) ==
    IF ok THEN phase' = next /\ UNCHANGED outcome ELSE Return("failed")

----------------------------------------------------------------------------
\* compile is called, and its first statement resets the session s.
Begin(s) ==
    /\ phase = "idle"
    /\ round < MaxRounds
    /\ round' = round + 1
    /\ \/ session' = Reset(s) /\ phase' = "load" /\ outcome' = "none"
       \/ session' = ResetInterrupted(s) /\ Return("thrown")

Load ==
    /\ phase = "load"
    /\ \/ session' = [session EXCEPT !.source = round] /\ Continue(TRUE, "lex")
       \/ session' = Reported(session, {"error"}) /\ Continue(FALSE, "lex")
    /\ UNCHANGED round

Lex ==
    /\ phase = "lex"
    /\ \E severities \in SUBSET {"error"} :
           session' = Reported([session EXCEPT !.tokens = round], severities)
    /\ Continue(~HasErrors(session'), "parse")
    /\ UNCHANGED round

\* Mutant: the driver does not look at the errors of the parser.
ParseGoesOn ==
    /\ phase = "parse"
    /\ \E nodes \in SUBSET Addresses, severities \in SUBSET {"error"} :
           session' = Reported([session EXCEPT !.parsed = TRUE, !.nodes = nodes],
                               severities)
    /\ Continue(TRUE, "collect")
    /\ UNCHANGED round

\* The parser recovers from errors, so there is a program in every case.
Parse ==
    /\ phase = "parse"
    /\ \E nodes \in SUBSET Addresses, severities \in SUBSET {"error"} :
           session' = Reported([session EXCEPT !.parsed = TRUE, !.nodes = nodes],
                               severities)
    /\ Continue(~HasErrors(session'), "collect")
    /\ UNCHANGED round

\* A pass succeeds if it has reported no error of its own.
Succeeds == session'.errors = session.errors

\* Collector and resolver leave a node without an entry only with an error.
Collect ==
    /\ phase = "collect"
    /\ \E known \in SUBSET session.nodes, severities \in SUBSET {"error"} :
           /\ known # session.nodes => "error" \in severities
           /\ session' = Reported(Recorded("collect", known), severities)
    /\ Continue(Succeeds, "entry")
    /\ UNCHANGED round

ValidateMain ==
    /\ phase = "entry"
    /\ \E severities \in SUBSET {"error"} : session' = Reported(session, severities)
    /\ Continue(Succeeds, "resolve")
    /\ UNCHANGED round

Resolve ==
    /\ phase = "resolve"
    /\ \E known \in SUBSET session.nodes, severities \in SUBSET {"error"} :
           /\ known # session.nodes => "error" \in severities
           /\ session' = Reported(Recorded("resolve", known), severities)
    /\ Continue(Succeeds, "type")
    /\ UNCHANGED round

\* An expression without a value has no type, and that need not be an error.
TypeCheck ==
    /\ phase = "type"
    /\ \E typed \in SUBSET session.nodes, severities \in SUBSET {"error"} :
           session' = Reported(Recorded("type", typed), severities)
    /\ Continue(Succeeds, "flow")
    /\ UNCHANGED round

\* The only pass with warnings.
CheckFlow ==
    /\ phase = "flow"
    /\ \E severities \in SUBSET Severities : session' = Reported(session, severities)
    /\ Return(IF Succeeds THEN "succeeded" ELSE "failed")
    /\ UNCHANGED round

\* An allocation fails in any pass, after some of its work: compile does not
\* return, and the session is as the exception found it.
Throw ==
    /\ phase \in Passes
    /\ \E known \in SUBSET session.nodes, severities \in SUBSET {"error"} :
           session' = Reported(Recorded(phase, known), severities)
    /\ Return("thrown")
    /\ UNCHANGED round

\* A call of compile at work.
Working ==
    \/ Load \/ Lex \/ Parse \/ Collect \/ ValidateMain \/ Resolve \/ TypeCheck
    \/ CheckFlow \/ Throw

----------------------------------------------------------------------------
\* Entries for nodes of the program are those of its own compilation.
OfThisRound(t) == \A a \in DOMAIN t \cap session.nodes : t[a] = round

(* At every moment of every compilation with the same session, whatever the *)
(* earlier ones left or threw away half done: what the tables say about a   *)
(* node of the program was recorded for that node, not for one that lived   *)
(* at its address before, and every diagnostic points into the source that  *)
(* is loaded (compilation_session.hpp, reset).                              *)
FreshResults ==
    /\ OfThisRound(session.declarations)
    /\ OfThisRound(session.resolutions)
    /\ OfThisRound(session.types)
    /\ \A r \in session.reports : r.of = session.source

(* compile's verdict can be relied on. True: no error was reported, and     *)
(* every node has its declaration and its resolution. False: an error says  *)
(* why, and no pass after the failing one has touched the session           *)
(* (driver/compiler.cpp).                                                   *)
VerdictTellsTruth ==
    /\ outcome = "succeeded" =>
           /\ ~HasErrors(session)
           /\ session.source = round /\ session.tokens = round /\ session.parsed
           /\ DOMAIN session.declarations = session.nodes
           /\ DOMAIN session.resolutions = session.nodes
    /\ outcome = "failed" =>
           /\ \E r \in session.reports : r.severity = "error"
           /\ ~session.parsed => DOMAIN session.declarations = {}
           /\ DOMAIN session.resolutions # {} =>
                  DOMAIN session.declarations = session.nodes
           /\ DOMAIN session.types # {} =>
                  DOMAIN session.resolutions = session.nodes
============================================================================
