# A verification project for the TPPL compiler

The repository is a compiler for TPPL, The Pseudo Programming Language: it reads
one `.tpp` file, checks it and generates C++20; a library, `GppCompiler`, lets a
C++ compiler build generated text. These modules model its parts in TLA+; TLC
checks them on small instances, and TLAPS proves the most important properties
for all instances.

All paths are relative to the repository; line numbers are in `PROJECT.json`
("map").

## 1. Inventory

| Component | State | Operations | What makes it correct | Hard because |
|---|---|---|---|---|
| `toolchain/gpp_compiler` `GppCompiler::compile` | workspace directory, child process, process group, deadline, result | create workspace, write and open files, spawn, poll, terminate, collect | every signal, status and directory belongs to this call; nothing is left running or on disk; every call returns | threads of one host, children that fork, exit or hang at any time, process ids that are used again, failures between any two steps |
| `toolchain/gpp_compiler` `CompiledProgram` | workspace path or none | construct, move, assign, destroy | one owner per directory, from creation to removal | long sequences of moves; destructor on every error path |
| `toolchain/gpp_compiler` descriptor handling | the process's descriptor table | open, move away from 0..2, spawn file actions, close | the child sees exactly /dev/null and the two capture files; the parent leaks nothing and closes nothing of others | table shared by threads, standard descriptors may be closed |
| `driver/compiler`, `driver/compilation_session` | source, tokens, AST, side tables, diagnostics, output | `reset`, one phase after the other, `compile_*` | output iff no error; nothing of an earlier compilation is visible in a later one | session objects are used again; side tables are keyed by addresses of AST nodes |
| `app/cli` | parsed options, exit code | `parse_args`, `run` | exit code and output file agree with the compilation's success | failures after success (writing the output) |
| `diagnostics`, `source` | list of diagnostics with an error count; text with line starts | report, note, render; position and line lookup | count agrees with the list; positions are inside the source | boundaries: empty file, missing last newline, CRLF |
| `lexer` | index into the text, tokens | one scanner per token class | tokens cover the text in order; every malformed token is reported | malformed literals and escapes at the end of input |
| `parser` (program and expressions) | index into the tokens, AST | recursive descent, recovery | terminates, reports every malformed program, accepts the grammar of `docs/grammar.ebnf` | error recovery: skipping too much, too little or nothing |
| `semantic/symbol_table` | scopes, symbols | create scope, insert, lookup | a name has one symbol per scope; ids are stable | duplicate handling, shadowing |
| `semantic/declaration_collector` | the two above, `DeclarationInfo` | one visit per AST node | each declaration has a symbol in the scope the language gives it | forward references, nested functions, loops |
| `semantic/name_resolver` | scope stack, set of active local variables, `ResolutionInfo` | one visit per AST node | each use is bound to the declaration lexical scoping gives it, or reported | order of activation; a variable hidden until its initializer is done; capture |
| `semantic/type_context`, `type_checker` | interned types, type of every expression | intern, check | one id per type; what is accepted can be lowered | error types, inference of literals and empty vectors |
| `semantic/control_flow_checker`, `entry_point_validator` | loop depth, flow summary | one visit per statement | a function accepted never runs off its end; dead code is reported once | interplay of return, break, continue |
| `lowering` | lowered IR, temporaries | one visit per AST node | evaluation order, loop bounds and names survive | the last value of an inclusive range, side effects in sub-expressions |
| `codegen` | text | one visit per IR node | names do not clash, internal checks agree with the checker | order of C++ evaluation |
| `runtime` | input stream | checked index, substring, read | every error is reported and no integer overflows | limits of `int` |
| `ast/printer` | none | print | - | - |

Interactions: `CompilationSession` owns what the phases share. `Compiler::compile`
resets it and runs lexer, parser, collector, entry point validator, resolver,
type checker and control flow checker in this order; each runs only if the
earlier ones reported no error. They communicate through the AST, whose node
addresses key the side tables, through the symbol table and through the
diagnostics engine's error count. `app/cli` makes one session, calls `compile`,
then the lowerer and the generator if C++ was asked for, shows the diagnostics
and writes the result. `GppCompiler` is a library of its own that neither of
them calls: it takes generated text and returns a result with a
`CompiledProgram`. It is the only part with concurrency, processes, time and
failures of the environment, and is modelled first.

## 2. Modules

| Module | Models | Composes |
|---|---|---|
| `ArtifactLease` | abstract: a workspace is leased to one holder, handed on, and removed once | - |
| `CompiledProgram` | the move-only owner of a workspace | - |
| `GppCompiler` | `GppCompiler::compile()` by several threads, with the operating system's processes, groups, zombies and reused ids | `CompiledProgram`; implements `ArtifactLease` |
| `SpawnDescriptors` | the descriptors of the same function, system call by system call | - |
| `SourcePositions` | lines and positions of a text, and the columns that are marked under it | - |
| `Lexer` | the scanner, one action per token, escape or error; what the marker must show | `SourcePositions` |
| `Lexing` | the lexical grammar | `Lexer` |
| `ExpressionParser`, `ProgramParser` | recursive descent and recovery over the kinds of tokens | - ; `ExpressionParser` |
| `Parsing` | programs that are written, edited and parsed; the grammar over syntax trees | `ProgramParser` |
| `SymbolTable` | scopes, symbols, lookup in a scope | - |
| `DeclarationCollector` | the first semantic pass over any syntax tree | `SymbolTable` |
| `NameResolver` | the pass that binds uses | `DeclarationCollector` |
| `NameAnalysis` | the two passes with the entry point validator between them, and lexical scoping as a definition over the tree | `NameResolver` |
| `ControlFlow` | the control flow checker over any syntax tree, and reachability as a definition over the tree | - |
| `TypeContext`, `AstTypes` | interning of vector types; looking written types up in it | - ; `TypeContext` |
| `TypeChecker` | the type checker over programs that arrive statement by statement, and what it records | `TypeContext`, `AstTypes` |
| `Typing` | the typing rules as relations over written types | `TypeChecker` |
| `Lowerer` | the lowerer, from the tables the type checker has filled to lowered code | `TypeChecker` |
| `CppGenerator` | the generator: validation of lowered code, and the C++ expressions it writes | `Lowerer` |
| `Generation` | what is supported, and the order of evaluation, of the language and of C++ | `CppGenerator`, `Typing` |
| `RangeMeaning` | abstract: a for-range statement over integers without limits | - |
| `RangeLoop` | the loop lowered and generated for it, at a fixed width | implements `RangeMeaning` |
| `ReadInt` | `read_int()` of the runtime library at a fixed width | - |
| `Compilation` | `Compiler::compile` on a session used again and again | - |
| `CommandLine` | `pseudo`: arguments, compile, lower, generate, render, write, exit code; or a host that compiles repeatedly | `Compilation` |

`MC*` modules give constants their values and state the symmetry; `*Proofs`
modules hold the theorems. Definitions named "Mutant" in a comment are faulty
variants of the definition after them, of the kind a change of the code could
introduce; they are not part of a specification. Each property a run checks has
one that it refutes.

### How the modules correspond to the code

`PROJECT.json` ("map") gives the source lines of every definition. In short:

- **`GppCompiler`.** `pc[c]` is the place in the call of `compile()`;
  `CreateWorkspace`, `Prepare`, `Spawn`, `Poll`, `CheckClock`, `Terminate`, `KillGroup`,
  `Reap`, `CollectSuccess` and the ways to fail are its steps, one per system call that
  another process can observe. `proc` is the process table: a process runs, is a zombie with its
  exit code, or is free; its group and the job it was started for stay with it.
  The actions of the environment are exits, forks of a compiler's descendants,
  the host reaping a child (`HostReaps`), and unrelated processes taking a free
  number. A number is free only when no process has it and no group uses it.
  The preparing calls are one step here, since `SpawnDescriptors` has them.
  SIGTERM is not a step of its own: a process that obeys exits, one that ignores
  it does not, and both may happen anyway. A retry after EINTR is a stuttering step.
- **`CompiledProgram`.** `object` maps every program object to the path it owns,
  to none, or says that it is destroyed; one action per special member.
- **`SpawnDescriptors`.** `fds` is the table of the process, `held` the
  `FileDescriptor` objects of each call. Every call may fail. Destructors may run
  in any order, which includes theirs. `ChildTable` is the parent's table after the
  three `dup2` file actions (`Duplicated`) and the closing of what is close-on-exec.
- **`NameAnalysis`.** The tree is made while the collector visits it: each visit
  picks the next node, so that all trees up to the bound are covered and no tree
  is made that no visit reads. The resolver then visits the tree that is there.
  A name is declared, used, or hidden; which spelling it has does not matter, so
  one ordinary name, `main` and one builtin are enough. An expression is the
  sequence of names it uses, in the order of the code's visit.
- **`ControlFlow`.** `visits` holds the calls of `check_block()` in progress; the tree
  arrives node by node, as above. Only `falls_through` of `FlowSummary` is kept; nothing reads the rest.
- **`SourcePositions`, `Lexer`.** A character is a class: what the scanner tells
  apart. `offset` is the index into the text, `literal` what is remembered of a literal
  that is open: its start, whether it has an error, how many bytes it denotes. One
  action per token or error, one per element of a literal.
- **`ExpressionParser`, `ProgramParser`.** A parser is an operator from the index of
  the current token to whether it succeeded, the index it stopped at, the tree and the
  errors. Kinds of tokens that every parser treats alike are one kind. The initial
  programs are written from trees; edits insert, delete and replace tokens.
- **`TypeContext`, `AstTypes`.** The vector of types, searched from its
  start; other code may intern types between two lookups.
- **`TypeChecker`.** A program is its sequence of statements, with an end for each
  body; one action per kind of statement, which checks it and all it holds. A node is
  known by its place, the path to it, which stands for the address that keys the side
  tables. `types` is the type context, `info`, `targets`, `members` and `inferred` are
  what `TypeInfo` keeps. Which names the program declares, outside its loops, is a
  constant; the name analysis has a module of its own.
- **`Lowerer`, `CppGenerator`.** They run when the program is there and change nothing
  of it, so they are functions, of the tables and of the lowered code, folded over the
  statements. Results are what is made or the reports that end the attempt. A body that
  is not entered is passed over up to its end. Of generated text there is kept, of each
  statement, the terms it evaluates: an application on arguments, on arguments that
  a lambda has stored one by one before, a shortcut, a constant. An id of an
  `OrderedValue` is only a name and is left out.
- **`RangeLoop`.** The program counter walks through the generated loop. The body
  is any code: it may assign the loop variable, and the variables the bounds were
  computed from. A signed overflow yields any value, and `NoOverflow` says that
  there is none.
- **`ReadInt`.** One step per character, the unsigned accumulator modulo the
  width, and beside it, as history, the number without limits.
- **`Compilation`, `CommandLine`.** One action per pass. A pass may leave nodes
  without an entry, report, or throw halfway; which node fails is the business of
  the other modules. Addresses of nodes are reused by the next program. `emplace`
  keeps an old entry and `insert_or_assign` replaces it, so that what a `reset`
  forgets is visible. A reset that cannot allocate the new symbol table
  leaves the old diagnostics with the old source.

## 3. Runs

| Run | Instance | Shows |
|---|---|---|
| `gpp_shared` | 2 threads, 2 workspaces, 3 process ids | `SignalsReachOwnGroupOnly`, `StatusIsOwn`, `CompilerKeepsWorkspace`: a signal, a status, a directory never belong to another call. `TerminationIsComplete`: once a timed out call is over, no member of the compiler's group is left unsignalled, although it may fork between SIGTERM and SIGKILL. `HostInvariant` is the inductive invariant of the proofs |
| `gpp_live` | 1 thread, 2 further program objects, 2 workspaces, 2 ids, the host reaps | `EveryCallReturns`, though compilers may never exit and may ignore SIGTERM. `LostGroupIsLeftAlone`: a call that finds that its compiler was reaped elsewhere (ECHILD) signals nobody. `LeaseHonoured`: calls, moves and destructions in any order implement `ArtifactLease`. No directory is leaked, removed twice, or removed under a new owner |
| `gpp_reaped` | 1 thread, 2 ids, the host reaps | a violation: see section 6 |
| `name_scoping` | all trees of up to 5 nodes | the passes implement lexical scoping (`ResolutionIsLexical`), accept exactly well-scoped programs (`AcceptsWellScoped`), errors say what is wrong (`ReportsExplain`), every redeclaration is reported with the first one (`DuplicatesReported`) |
| `control_flow` | all trees of up to 7 nodes | `EndsReported`: a missing return is reported exactly if an execution may reach the end. `TransfersReported`: break and continue exactly without a loop of their function. `DeadCodeReportedOnce` |
| `range_loop` | integers -4..3 | `VisitsTheRange`: the loop implements `RangeMeaning`; `NoOverflow`; `LoopEnds` |
| `lexing` | all texts of up to 4 characters of 16 classes, up to 5 of the classes of literals or of operators | `LexesTheGrammar`: the tokens are the longest lexemes, and what is reported is no lexeme. `MarkerShowsSpan`: a span is shown in the line it begins in, at its characters |
| `parsing` | written programs with every construct in every construct; 6 rich programs, and 4 bodies with nested blocks, with 2 edits at any place; each kind of block with 1; 70 then blocks without their brace; 3 tokens typed into an empty program or body | `AcceptsTheGrammar`: accepted are exactly the programs of the grammar, with the tree they were written from. `RecoversToValidSuffix`: recovery resumes where something can begin and keeps what was complete. `StaysInBlock`: whatever is wrong in its body, a function ends at its own brace, not before and not behind it; a stray else closes nothing. `ThenBlockEndsBeforeElse`: a then block whose brace is missing before its else gives the tree of the program with the brace, and one error |
| `typing` | all programs of up to 7 statements and ends over 19 statements; one of some 5000 further statements after at most one of these | `AcceptsWellTyped`, `RecordsDerivable`, `ErrorsAreRooted`: the checker accepts exactly what the typing rules derive, records derivable types only, and reports no error that only follows from another. `IdsCanonical`, `TypeIdsStable`: one id for one type, for good. `PassesAgree`: the lowerer and the generator, with rules of their own, reject of the accepted programs just those with a construct that is not supported. `EvaluatesInOrder`: in each order that C++ allows, the generated code carries out the operations of each statement once and from left to right |
| `spawn_descriptors` | 2 threads and other code, 6 descriptors | `ChildSeesOwnStreams`, `HeldExactly` (no leak, no double close), `OthersKeepDescriptors` |
| `read_int` | 8-bit integers, tokens of up to 4 characters | `NeverWraps`: the unsigned accumulator is exact. `AgreesWithToken`: the outcome against the number the token denotes |
| `command_line` | up to 4 arguments, or 3 compilations with one session, 2 addresses | `FreshResults`: side tables answer for nodes of the current program only. `VerdictTellsTruth`: true without errors and complete tables, false with an error. `ArgumentsUnderstood`: the loop over the arguments against a definition without a loop. `OutputOnlyOnSuccess`: exit code, output and error stream agree |

Why the bounds are enough to be useful:

- `gpp_shared`: two calls with one compiler each leave one id for a descendant or
  for an unrelated process; one call can have a leader and two members of its
  group, or lose its number to an unrelated process. Two workspaces are one for
  each call. A third thread adds only another competitor for the same numbers;
  the proofs are for any number.
- `gpp_live`: one path can be handed through all objects while a later call makes
  the second; the moves concern two objects at a time.
- `name_scoping`: five nodes hold a function, a declaration, a block or a loop
  with a redeclaration, and a use after it, or two nested functions and a use of what
  is around both.
- `control_flow`: seven nodes hold a function, two nested constructs, and a
  transfer with a statement after it on two branches.
- `lexing`: four characters hold an operator with a neighbour, a comment with its
  newline, or a literal with an escape; the fifth is there for what follows an
  escape, `..=` and CR LF.
- `parsing`: each construct stands in each other one and before a next one. Two edits
  make a missing or doubled token, a changed one, or a brace moved. The nested bodies
  are for an else in a block inside a then block, where that block must not end.
- `typing`: `MaxInt` is 7, so that 8 is the magnitude of the least integer and 9 is too
  great. Seven statements and ends hold a function with a loop in it, a loop in that
  and a use of its variable, and a return after both. The further statements apply every
  operator, call and index to operands of every type, and, for the order, to
  operands that are calls, twice nested. They come last, since what is after them sees
  of them only the types they add. The lowerer and the generator are
  run on every accepted program of the run.
- `range_loop`: three bits have both limits, adjacent bounds and empty ranges.
- `spawn_descriptors`: three standard descriptors, of which any are closed, and
  three more, so that a call also runs out of them.
- `read_int`: 127 and -128 have three digits; four characters are a sign and one
  of their neighbours, or one digit too many.
- `command_line`: three compilations are one that leaves something, one that may
  be interrupted and one that could find it; two addresses let a program overlap
  the old one in part.

The configurations of `control_flow`, `command_line`, `lexing`, `parsing` and `typing`
do not check for deadlock: a pass ends with its input, and the process with its exit
code. The others do.

### Fairness

- `GppCompiler!FairSpec`: threads in `compile()` are scheduled, time passes, and a
  process that was sent SIGKILL exits. Nothing is assumed of a compiler that was
  not killed, nor of the host or other processes. The code relies on just this:
  its loop polls with a deadline and a sleep, and waits without a deadline only
  after SIGKILL.
- `RangeLoop!FairSpec`: the generated program runs, and each execution of the body
  ends or leaves the loop. Nothing is assumed of how often.
- No other run has a liveness property.

## 4. Proofs

All theorems are about every value of the constants: invariants (`Spec => []P`),
action properties (`Spec => [][A]_v`) and refinements (`LoopImplementsMeaning`,
`LeaseImplemented`, `PassesUseTable`). Liveness, and what is defined with `RECURSIVE` operators, are beyond
the prover and stay with TLC. Recursive functions are not: where a proof is by induction
over data, the induction is the library's least element of a well-founded relation
(`WFMin`), applied to the set of the numbers at which the claim fails.

- **`GppCompilerProofs`**: `TypeCorrect`, `OwnershipHolds`, `OnlyOwnGroupSignalled`,
  `WorkspaceOutlivesCompiler`, `OwnStatusReported`, `TerminationCompletes`,
  `LostGroupIsNotSignalled`, `LeaseImplemented`. The second to the fifth assume
  `~HostReaps`: no code but `compile()` reaps its children. That a status is one's
  own is not inductive: it needs that nobody else waits for the child, hence that
  ids of unreaped children are not given out again, hence that a zombie keeps its
  number. `HostInvariant` says this: each workspace has one owner, each group one
  job, each unreaped child one call that will wait for it. Every action is shown to
  keep each part (lemmas `...KeepsOwners`, `JobsKept`, `...KeepsChildren`,
  `StatusStaysOwn`), and `InvInductive` puts them together. The last three hold even if the host
  reaps. `CallInv`, the invariant of the first and the last, says that after the second signal every process that
  is left of the job has been sent one, because a member of a group only makes members of
  that group; and which path each call holds (`Holding`). With it each step is shown
  to be one of `ArtifactLease` or a stuttering step. For `LostGroupIsNotSignalled` it is
  enough that a call which terminates found its compiler there before (`GivenUp`).
- **`SpawnDescriptorsProofs`**: `InvHolds`, `NothingLeaks`, `OwnStreams`, `OthersUntouched`, for
  any number of threads and descriptors. `Inv` says of each call which files its
  `FileDescriptor` objects hold at each point and that they and the entries of the table
  agree. A step changes only free entries and its owner's, hence nothing the invariant
  says of another call (`Undisturbed`). What the child sees follows from the three
  descriptors being above 2 when the file actions run (`AwayFromStandard`).
- **`SemanticProofs`**: of the symbol table `TableCorrect`, `IdsAreStable`: with the
  types, which include that parents are older than their children, `SymbolsBoundOnce` is
  inductive, and every step only appends or binds what was unbound. Of the type context
  `ContextSound`, `IdsKeepMeaning`: a vector is appended only if no type before it has its
  element, and its element is older: both are needed for equal types to have equal ids.
  Of the name analysis `DuplicatesAreReported`, `ResolutionFollowsScopes`,
  `ReportsAreExplained`, `AcceptsExactlyWellScoped`, for trees of any size, and
  `PassesUseTable`: the passes implement `TableSpec`. The scoping rules find regions by
  counting ends and bodies, the passes with a stack; the first lemmas show that counting
  gives regions that nest and how they change at a node (`RegionsStay`, `RegionsEnd`,
  `LevelInner`). `NameInv` has two parts. `CollectorInv` says that each body has a scope of
  its own, inside that of its region (`Scoped`), that the visits in progress are those
  of the regions around (`OpenFits`), and that the first declaration of a name in a region
  is bound there and the others are reported with it (`Bound`); `ResolverInv` says which
  frames are stacked (`InsideFits`), that the active symbols are those of the variables
  passed, and that every use passed has its meaning or its report (`Resolved`). That
  active symbols are never reset, although `Visible` looks at nothing else, is harmless
  because a walk from a node sees only regions around it (`VisibleIs`); that the walk
  then finds the innermost meaning and notices the function it leaves is an induction
  over regions (`WalkIs`, `ResolveFinds`). TLC has confirmed `NameInv` on the trees of
  `name_scoping` before it was proved.
- **`ControlFlowProofs`**: `FlowInvHolds`, `TransfersAreReported`, `EndsAreReported`,
  `DeadCodeIsReportedOnce`, for trees of any size and shape. The invariant `FlowInv` says
  that the stack of calls is the stack of bodies open at the visit (`Shape`); that the
  flags each call keeps and would return are the ones the nodes R, which control gets to,
  give of the part behind the visit (`Flow`); that `loop_depth_` counts the open loops
  (`LoopsCounted`); and which nodes behind the visit have been reported on
  (`TransferErrors`, `EndErrors`, `Warned`). There is a lemma per part and per way in which
  a step changes the stack (`Stays`, `Push`, `Else`, `Pop`). R is found in tree
  order, without the edges back to a loop's head; that it is the same as `Reached`, the
  least set closed under all edges, is shown at the end for each function (`ReachedIs`):
  each node of R but the first has a predecessor in R before it (`Preceded`), and no
  edge leads from R to a node outside (`GoesOn`).
- **`LexerProofs`**: `LexesItsGrammar`, `LexedInOrder`, `LexedSpansAreSlices`, for texts of
  any length over any reserved words. `LexesItsGrammar` says that the scanner, which looks
  at one character after the other, implements a grammar that asks of whole slices
  whether they are lexemes. Its invariant `GrammarInv` says that the tokens so far followed
  by those the grammar finds behind them are those of the whole text (`Follows`), or that
  the text has been reported where it leaves the grammar (`Left`); and that the elements
  counted in an open literal are those between the quote and `offset` (`LiteralRead`). For
  the last, a slice must be cut into elements in one way only: no escape begins with the
  second half of another (`NoDoubleBackslash`), and behind a place where the scanner cannot
  go on no slice is a literal (`LiteralStuck`). It assumes that reserved words are words
  (`ReservedWordsAssumption`, lexer.cpp:21-39). For the order of the spans the
  invariant `LexInv` says that what has been scanned ends where the next token begins,
  and that a literal that is open begins after it and has been reported on only from
  there on. `SpansAreShown` says that a token or error is shown in its own line, under its
  own characters. It needs that lines are found right (lemmas `Starts...` and `Ends...`: a
  line begins after the last newline before a place and ends at the next one), and that
  nothing begins at a newline and goes beyond it (`ShownInv`).
- **`RangeLoopProofs`**: `LoopCorrect`, `NeverOverflows`, `LoopImplementsMeaning`. The
  cursor is the begin bound plus the number of visits, except after the last visit
  of an inclusive range that ends at the greatest integer, where it stays and only
  the flag ends the loop. With `CursorFollows` every step of the loop is a step of
  `RangeMeaning` or a stuttering step.
- **`ReadIntProofs`**: `ReadsExactly`, `AccumulatorExact`, `OutcomeCorrect`, for integers of any width
  and tokens of any length. `ExceedsExactly` shows that the test before a digit,
  which divides so as not to overflow, is the test that the next number is too big;
  so the accumulator equals the number without limits. That number is the value of the
  digits read so far, by induction over the token, which gives the outcome.
- **`CommandLineProofs`**: `ResultsAreFresh`, `VerdictIsTrue`, `OutputIsOnlyOnSuccess`,
  `ArgumentsAreUnderstood`.
  `FreshResults` alone says nothing about what the next pass finds, so the invariant
  `DriverInv` says for each phase what the earlier ones have left; a report keeps the
  error count equal to what the list says (`ReportedCounts`), and `RunInv` says what
  `run()` knows at each stage. The last is by induction over the arguments: what is
  understood of the first n is what the definition without a loop says of them. It uses
  that a file's name does not begin with a dash (others are options) and is not `nullopt`.

Assumptions about constants (`ASSUME`) are named in the module that declares them
and evaluated by the runs: sets of ids, paths and names are disjoint from the values
that stand for "none", bounds are numbers, reserved words are words, `MaxInt >= 9`.

`TypeCorrect`, `TableCorrect`, `IdsAreStable`, `NamesInvariant`, `LoopCorrect`, `InvHolds`, `FlowInvHolds`,
`LexedSpansAreSlices`, `LexedInOrder` and `ReadsExactly` are proved and need no run of their own: of the
last two, `LexesTheGrammar` and `AgreesWithToken` say more in the runs.

Only model-checked: `EveryCallReturns` and `LoopEnds` (liveness); `AcceptsTheGrammar`,
`RecoversToValidSuffix`, `StaysInBlock`, `ThenBlockEndsBeforeElse`, `AcceptsWellTyped`, `RecordsDerivable`,
`ErrorsAreRooted`, `PassesAgree`, `EvaluatesInOrder`: the parsers, the type checker, the
lowerer and the generator descend into trees with `RECURSIVE` operators, and so do the
grammar and the typing rules they are compared with.

## 5. Not modelled

- `ExpressionParser::parse`, which only tests call, and the parsers' tests for an end
  of file token; the spans of nodes, but for the token that ends an item. `SourceManager::load_file`, and more than one
  source.
- In the lowerer and the generator: that there is one main and has the right
  signature, which the entry point validator has checked before; the decoded values of literals; how names and literals
  are spelled, prototypes, headers and indentation. That the snapshot of a for-each loop
  is a copy, and that main's result is converted to `int`, is C++'s meaning of the text.
- Branches of the passes for malformed trees (missing bodies, null expressions),
  which the parser does not build.
- `GppCompiler`: descendants that leave the group with `setsid`, the branch for a
  child that neither exited nor was signalled, a workspace name that is chosen again
  while processes of its last use still run. `remove_all` fails only while a process
  of the job is alive; an unreadable capture file decides the outcome by itself.
- Failing allocations, outside `Compilation` and `CommandLine`.
- The texts of messages, of dumped trees and of generated code. Whether the output
  stream has accepted what was written: the code does not look, and the models stop
  at what is handed to the stream.
- The runtime functions besides `read_int`: each is one call of the C++ library after
  a test of its argument.
- `ast/printer`: a pure traversal that writes text.

## 6. A disagreement between code and comment

`gpp_compiler.cpp:558-560` says that the zombie of the group leader keeps its number
throughout the grace period, so that the final kill cannot reach an unrelated
process. That holds if nobody else reaps children (proved: `OnlyOwnGroupSignalled`).
In a host that ignores SIGCHLD, which `wait_for_process` provides for (598-600) and a
test sets up (`gpp_compiler_tests.cpp:604`), there is no zombie. Run `gpp_reaped`
finds the leader's number given to an unrelated process between the two signals.
What the code does achieve in such a host is `LostGroupIsLeftAlone`: once `waitpid` has
said that there is no such child, no signal follows.

## 7. What comes next

In this order:

1. What the type checker keeps of its type context, for which `TypeChecker` has to be
   written without `RECURSIVE` operators.
2. The other runtime functions with `ReadInt`: checked indexes, substrings, sizes.
