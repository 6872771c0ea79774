---------------------------- MODULE CommandLine ----------------------------
(* The program `pseudo` (app/cli.cpp): it reads its arguments, compiles one *)
(* file with a session of its own, lowers and generates if it is asked to,  *)
(* shows the diagnostics, writes the result and exits. A behaviour is one   *)
(* run of that program, or a host that uses Compiler::compile with one      *)
(* session again and again (as the tests and other users of the library do).*)
EXTENDS Compilation, Sequences, SequencesExt

CONSTANTS
    Files,         \* arguments that do not start with '-'
    MaxArguments   \* bound: arguments of a run

VARIABLES
    stage,         \* where run() is, or "host"
    args,          \* the arguments, until they are parsed and acted on
    options,       \* ParseResult
    generated,     \* generated_cpp.has_value()
    shown,         \* what went to the error stream: "usage", "errors"
    out,           \* what was handed to the output stream
    exit           \* the exit code by its name in cli.cpp, "abort" after an exception

commandLine == <<stage, args, options, generated, shown, out, exit>>
vars == <<compilation, commandLine>>

Dashed == {"--help", "--version", "--dump-ast", "--emit-cpp", "--other"}

Arguments == Dashed \cup Files

OutputMode == [option \in {"--dump-ast", "--emit-cpp"} |->
                  IF option = "--dump-ast" THEN "ast" ELSE "cpp"]

NoInput == "no input file"     \* std::nullopt

ASSUME ArgumentsAssumption ==
    /\ MaxArguments \in Nat
    /\ Files \cap Dashed = {}
    /\ NoInput \notin Files

NoOptions == [action |-> "compile", mode |-> "none", input |-> NoInput, error |-> "none"]

Refused(reason) == [NoOptions EXCEPT !.action = "refuse", !.error = reason]

----------------------------------------------------------------------------
\* Mutant: --emit-cpp is not tested against an earlier --dump-ast.
LastModeWins(o, a) ==
    CASE o.action = "refuse" -> o
      [] o.action # "refuse" /\ a \in DOMAIN OutputMode ->
             IF a = "--emit-cpp" \/ o.mode \in {"none", OutputMode[a]}
             THEN [o EXCEPT !.mode = OutputMode[a]] ELSE Refused("conflict")
      [] o.action # "refuse" /\ a \in Files ->
             IF o.input = NoInput THEN [o EXCEPT !.input = a] ELSE Refused("two files")
      [] OTHER -> Refused("unknown option")

\* The body of the loop of parse_args; an error ends the loop.
ParseArgument(o, a) ==
    CASE o.action = "refuse" -> o
      [] o.action # "refuse" /\ a \in DOMAIN OutputMode ->
             IF o.mode \in {"none", OutputMode[a]}
             THEN [o EXCEPT !.mode = OutputMode[a]] ELSE Refused("conflict")
      [] o.action # "refuse" /\ a \in Files ->
             IF o.input = NoInput THEN [o EXCEPT !.input = a] ELSE Refused("two files")
      [] OTHER -> Refused("unknown option")

\* That loop: what is understood of the first i arguments.
Understood(as) ==
    LET understood[i \in 0..Len(as)] ==
            IF i = 0 THEN NoOptions ELSE ParseArgument(understood[i - 1], as[i])
    IN  understood

ParseArgs(as) ==
    IF as = <<"--help">> THEN [NoOptions EXCEPT !.action = "help"]
    ELSE IF as = <<"--version">> THEN [NoOptions EXCEPT !.action = "version"]
    ELSE LET o == Understood(as)[Len(as)]
         IN  IF o.action # "refuse" /\ o.input = NoInput THEN Refused(NoInput) ELSE o

Init ==
    /\ CompilationInit
    /\ stage \in {"host", "start"}
    /\ args = <<>>
    /\ options = NoOptions
    /\ generated = FALSE
    /\ shown = {}
    /\ out = "nothing"
    /\ exit = "running"

\* run(): parse_args over whatever the user typed.
ParseArguments ==
    /\ stage = "start"
    /\ args' \in BoundedSeq(Arguments, MaxArguments)
    /\ options' = ParseArgs(args')
    /\ stage' = "parsed"
    /\ UNCHANGED <<compilation, generated, shown, out, exit>>

ExitWith(code) == stage' = "exited" /\ exit' = code

Usage ==
    /\ stage = "parsed" /\ options.action = "refuse"
    /\ shown' = {"usage"} /\ args' = <<>>
    /\ ExitWith("usage error")
    /\ UNCHANGED <<compilation, options, generated, out>>

HelpOrVersion ==
    /\ stage = "parsed" /\ options.action \in {"help", "version"}
    /\ out' = options.action /\ args' = <<>>
    /\ ExitWith("success")
    /\ UNCHANGED <<compilation, options, generated, shown>>

Compile ==
    /\ stage = "parsed" /\ options.action = "compile"
    /\ Begin(EmptySession)
    /\ args' = <<>>
    /\ stage' = "compile"
    /\ UNCHANGED <<options, generated, shown, out, exit>>

\* The call of compile, in the command or in a host.
CompileStep ==
    /\ stage \in {"compile", "host"}
    /\ Working
    /\ UNCHANGED commandLine

\* An exception of compile or of a later step leaves main. What the step has
\* shown or written by then is left out.
Abort ==
    /\ \/ stage = "compile" /\ outcome = "thrown"
       \/ stage \in {"lower", "generate", "render", "write"}
    /\ ExitWith("abort")
    /\ UNCHANGED <<compilation, args, options, generated, shown, out>>

CompileReturns ==
    /\ stage = "compile" /\ outcome \in {"succeeded", "failed"}
    /\ stage' = IF outcome = "succeeded" /\ options.mode = "cpp" THEN "lower" ELSE "render"
    /\ UNCHANGED <<compilation, args, options, generated, shown, out, exit>>

\* Mutant: a lowering that fails leaves the verdict of compile.
LowerKeepsVerdict ==
    /\ stage = "lower"
    /\ \E severities \in SUBSET {"error"} : session' = Reported(session, severities)
    /\ stage' = IF HasErrors(session') THEN "render" ELSE "generate"
    /\ UNCHANGED <<phase, round, outcome, args, options, generated, shown, out, exit>>

\* lower_program: no result if there was an error before or it reports one.
Lower ==
    /\ stage = "lower"
    /\ \E severities \in IF HasErrors(session) THEN {{}} ELSE SUBSET {"error"} :
           session' = Reported(session, severities)
    /\ IF HasErrors(session')
       THEN stage' = "render" /\ outcome' = "failed"
       ELSE stage' = "generate" /\ UNCHANGED outcome
    /\ UNCHANGED <<phase, round, args, options, generated, shown, out, exit>>

\* generate_cpp likewise; run() then has its verdict.
Generate ==
    /\ stage = "generate"
    /\ \E severities \in IF HasErrors(session) THEN {{}} ELSE SUBSET {"error"} :
           session' = Reported(session, severities)
    /\ generated' = ~HasErrors(session')
    /\ outcome' = IF generated' THEN outcome ELSE "failed"
    /\ stage' = "render"
    /\ UNCHANGED <<phase, round, args, options, shown, out, exit>>

\* render_diagnostics, whatever the verdict; a failed run ends here.
Render ==
    /\ stage = "render"
    /\ shown' = {r.severity : r \in session.reports}
    /\ IF outcome = "succeeded"
       THEN stage' = "write" /\ UNCHANGED exit ELSE ExitWith("compilation error")
    /\ UNCHANGED <<compilation, args, options, generated, out>>

Write ==
    /\ stage = "write"
    /\ out' = options.mode
    /\ ExitWith("success")
    /\ UNCHANGED <<compilation, args, options, generated, shown>>

\* The library used by another program than the command.
HostCompiles ==
    /\ stage = "host"
    /\ Begin(session)
    /\ UNCHANGED commandLine

Next ==
    \/ ParseArguments \/ Usage \/ HelpOrVersion \/ Compile \/ CompileStep
    \/ CompileReturns \/ Abort \/ Lower \/ Generate \/ Render
    \/ Write \/ HostCompiles

Spec == Init /\ [][Next]_vars

----------------------------------------------------------------------------
\* Position i of the arguments as holds something that cannot follow the
\* arguments before it; reason says what is wrong with it.
Offends(as, i, reason) ==
    CASE reason = "unknown option" -> as[i] \notin DOMAIN OutputMode \cup Files
      [] reason = "conflict" ->
             \E j \in 1..(i - 1) : {as[i], as[j]} = {"--dump-ast", "--emit-cpp"}
      [] reason = "two files" -> as[i] \in Files /\ \E j \in 1..(i - 1) : as[j] \in Files
      [] OTHER -> FALSE

(* parse_args has one meaning for every list of arguments: --help and       *)
(* --version count only alone; otherwise the first argument that is wrong   *)
(* is the one reported, a list without one needs exactly one file, and what *)
(* is accepted is what was asked for.                                       *)
ArgumentsUnderstood ==
    stage = "parsed" =>
        LET Offending == {i \in DOMAIN args :
                             \E r \in {"unknown option", "conflict", "two files"} :
                                 Offends(args, i, r)}
            Alone == args \in {<<"--help">>, <<"--version">>}
        IN  /\ options.action = "help" <=> args = <<"--help">>
            /\ options.action = "version" <=> args = <<"--version">>
            /\ options.action = "compile" =>
                   /\ Offending = {}
                   /\ {options.input} = ToSet(args) \cap Files
                   /\ \A m \in DOMAIN OutputMode :
                          m \in ToSet(args) <=> options.mode = OutputMode[m]
            /\ options.action = "refuse" <=>
                   ~Alone /\ (Offending # {} \/ ToSet(args) \cap Files = {})
            /\ options.action = "refuse" =>
                   IF Offending = {} THEN options.error = NoInput
                   ELSE Offends(args, Min(Offending), options.error)

(* The exit code, the output and the error stream agree. Success: no error   *)
(* was shown, and the output is what was asked for, C++ only if it was      *)
(* generated. Otherwise something was said about it, and nothing was     *)
(* written to the output, however late the error came (app/cli.cpp, run).   *)
OutputOnlyOnSuccess ==
    /\ exit = "success" =>
           /\ shown \subseteq {"warning"}
           /\ out = IF options.action = "compile" THEN options.mode ELSE options.action
           /\ out = "cpp" => generated
           /\ out = "ast" => session.parsed
    /\ exit \in {"compilation error", "usage error"} =>
           /\ out = "nothing"
           /\ shown \cap {"error", "usage"} # {}
============================================================================
