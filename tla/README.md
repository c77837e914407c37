# A verification of Saphire in TLA+

Saphire writes a system-call filter for every script of a PHP web application
and loads that filter when the script runs. This directory holds TLA+ models of
the programs that do it, TLC runs that check them on small instances, and
proofs, checked by the TLA+ proof system, that some of the properties hold on
all instances.

Contents: [the system](#the-system), [the modules](#the-modules),
[the runs](#the-runs), [fairness and deadlock](#fairness-and-deadlock),
[the proofs](#the-proofs), [what the code does otherwise](#where-code-and-documentation-differ),
[abstractions](#abstractions-and-what-is-not-modelled), [the plan](#the-plan).

## The system

Three stages, run one after the other, connected by files.

    stage 1                         stage 2                           stage 3
    PHP binary --analyze_           unistd_64.h --register-syscalls--+
      interpreter--> mapping --+                                     |
                               +--> mapping ------register-functions-+--> sqlite
    PHP test suite             |    application --scan-project-------+      |
      --TE + TR--> traces      |                                       build-filters
      --process-traces---------+                                            |
                                                                       profile --> MINIT --> FPM workers

### Components

| component | state | operations | interacts through |
|---|---|---|---|
| `analyze_interpreter.py` (stage 1) | call graphs, `cached`, the frames of `dfs` | analyse one PHP function; follow an edge, use the cache, return | reads objdump/readelf/ldd output, prints a mapping |
| TE, a fork of xdebug (stage 1): calls | per request: a stack of frames, a trace, a profile, collected errors, monitored calls, garbage collection statistics; the engine's error callback; a page of memory shared with the tracer | hooks around every user and internal call, the exit handler, request start and end | the engine's hooks; shared memory with TR |
| TE: code coverage | tables of lines, branches and paths per function; per level a path and a last branch | analyse a compiled function; mark an opcode; start, stop, report | opcode handlers, the same hooks |
| TE: remote debugger | a connection, a status, breakpoints in four tables, flags of the step in progress | commands of an IDE, breaks of the script, queries for variables | a socket; the same hooks |
| TR, a modified strace (stage 1) | not in the repository (a submodule) | print each call and the stack it was made from | one file per process |
| `process-traces` (stage 1) | `functions`, `children`, per-file parser state | one step per line of a trace | reads TR's files, prints a mapping |
| mapping tools (stage 1) | none | numbers to names, union of two mappings | files |
| `register-syscalls`, `register-functions` (stage 2) | the tables `syscall`, `function`, `syscall_requirement` | insert or replace a row, commit | SQLite, one transaction each |
| `scan-project` (stage 2) | package-level maps of the visitor, maps of classes, the tables of files, calls, includes and class edges | walk twice over every file; record a file; resolve the classes | SQLite, two transactions |
| `db.go`'s recursive queries, `build-filters` (stage 2) | the recursive table and its queue | join one row; print the profile | reads SQLite, writes the profile |
| `include-tree`, `check-traces` (stage 2) | none | print a graph, compare traces and profile, for a reader | read SQLite |
| `profile_application.sh`, `run_stage2.sh`, `run_stage3.sh` | the files they pass on | run the programs, copy the profile, restart FPM | files, signals |
| the PHP extension `seccomp.c` (stage 3) | the profile table of the master; per process a flag and a hook | MINIT; the hook around the first internal functions; the load | engine hook, libseccomp, FPM's fork |

### What is hard here, and what correctness means

* **The extension** decides once per *process* what is to hold per *script*. A
  flag set on one path and a hook taken out on another stand between an internal
  function and the kernel; FPM forks, reuses, recycles and kills the processes
  around it; the profile is replaced under a running server. Correct means: a
  filter is the one of the file that was looked up, no function runs before the
  decision, a decision is never undone, a profile that covers a script never
  kills it.
* **The database** joins its tables by row id, and `INSERT OR REPLACE` gives an
  old name a new id. Two programs may be run in any order, again, and be killed.
  Correct means: the tables read as one set of calls per function, replaced a
  run at a time.
* **The queries** recurse over cyclic graphs and stop by removing duplicates and
  by a cut in the join. Correct means: exactly the reachable files, and an end.
* **The scan** collects names in package-level maps in the order of a directory
  walk and resolves them in the order of Go's maps, in two transactions. Correct
  means: no row of one file from another, no class edge invented, none lost that
  the recorded key can find, all or nothing after a crash.
* **Include patterns** come from two walks with state that outlives a file, and
  a recursion through constants. Correct means: what the file includes when PHP
  runs it is matched.
* **The tracing extension** follows a program that its own functions redirect:
  traces, profiles, coverage and the debugger are started and stopped from inside
  the calls they follow, `exit` and fatal errors drop any number of calls without
  their hooks, and tables are kept per level and reused by the next call. Correct
  means: what a trace, a profile or a report says is what ran; the page names the
  call in progress; a debugger stops where it was told to, answers every command,
  and shows the values of the frame it was asked for.
* **The interpreter analysis** caches results computed while part of a cyclic
  graph was cut off. Correct means: nothing invented; complete where there is no
  recursion; a cached result never changes; an end.
* **The traces** arrive in lexical order of their names, a child perhaps before
  its parent, cut off anywhere. Correct means: every attribution has its
  evidence, and nothing with a stack is lost.
* **The scripts** go on after a step that failed. Correct means: no policy ever
  mixes two versions of the application or two mappings, and a clean run repairs
  what others left.

`PROJECT.json` lists every hazard at its line, with the properties that watch it.

## The modules

| module | code | role |
|---|---|---|
| `WebApp` | how `src/` uses the application and the interpreter | constants: files, includes, internal functions, what each needs |
| `Confinement` | – | abstract: a process is open, then under one allowlist of the policy, then gone |
| `SeccompExt` | `stage3/extension/seccomp.c`, `vm_scripts/run_stage3.sh` | the extension in an FPM pool; implements `Confinement` |
| `FunctionMap` | – | abstract: one set of system calls per function, replaced a run at a time |
| `SyscallDb` | `stage2/db/db.go`, `register-syscalls`, `register-functions` | the three tables and two programs; implements `FunctionMap` |
| `IncludeClosure` | the recursive queries of `db.go`, `build-filters` | queue evaluation of `WITH RECURSIVE`, and the printed profile |
| `ScanProject` | `scan-project/main.go`, `resolver.go`, the class cases of `dumper.go` | rows, class maps, both transactions |
| `IncludePattern` | `const_walker.go`, `include_string.go`, the string cases of `dumper.go` | from an include's argument to its pattern |
| `InterpreterAnalysis` | `analyze_interpreter.py`, `dfs` and `main` | the cached search |
| `ProcessTraces` | `process-traces/main.go` | the parser of the traces |
| `Stage1` | `vm_scripts/run_stage1.sh`, `readablesyscalls.py`, `mergemappings.py` | composition of the two, to the merged mapping |
| `FunctionTrace` | `TE_xdebug/xdebug_tracing.c`, `xdebug_trace_*.c` | operators: starting, stopping, writing a trace |
| `Profiler` | `TE_xdebug/xdebug_profiler.c` | operators: costs of calls and the summary |
| `Diagnostics` | `TE_xdebug/xdebug_stack.c`, `xdebug_monitor.c`, `xdebug_gc_stats.c` | operators: errors, monitored calls, collections |
| `Hooks` | `TE_xdebug/xdebug.c`, `xdebug_stack.c` | the hooks that feed the three, the error callback, the shared page |
| `BranchInfo` | `TE_xdebug/xdebug_branch_info.c`, the analysis in `xdebug_code_coverage.c` | operators: dead code, branches and paths of an op array |
| `CodeCoverage` | `TE_xdebug/xdebug_code_coverage.c` and its callers | coverage while a script runs |
| `Breakpoints` | the breakpoint commands of `xdebug_handler_dbgp.c` | operators: set, find, update, hit |
| `Variables` | `TE_xdebug/xdebug_var.c`, the property commands | operators: full names, pages, symbols |
| `Debugger` | `TE_xdebug/xdebug_handler_dbgp.c` and its callers | a debugged request and its IDE |
| `ProfileApplication` | `profile_application.sh`, `run_stage2.sh`, `run_stage3.sh` | composition of stages 2 and 3 |
| `*_proofs` | | theorems about the modules they extend |
| `MC*` and `*.cfg` | | finite instances for TLC |

`ProfileApplication` takes each program at the level its own module shows it to
have: it instantiates `FunctionMap` for the two registrations (`SyscallDb`
implements it), it takes a scan as nothing, the rows without class edges, or
everything (`AllOrNothing` of `ScanProject`), and the query as the reachable
files (`ClosureExact` and `ProfileExact` of `IncludeClosure`). Its `loaded` is
what `SeccompExt` calls `filters`. `Stage1` runs the actions of `ProcessTraces` and
`InterpreterAnalysis` themselves, one program after the other.

### State and actions against the code

**SeccompExt.** `filters` is the uthash table MINIT fills (`Tables` keeps either
of two lines with the same name, as the order of a hash chain decides);
`seccomp_loaded` is the static flag; `hooked` says whether
`zend_execute_internal` is still the extension's; `kernel` the filter the kernel
holds; `rc` the return code of `load_seccomp_profile`, which its caller drops.
`first` records which file the load looked up. `DecidesFilter` with
`LoadSkipped`, `LoadProfile` or `LoadFails` are the paths of the first internal
call, `RetireHook` is the `else` branch, `DirectCall` what follows. An internal
function then makes its system calls one `SystemCall` at a time, and may die in
any of them. `StartMaster`, `StopAll`, `Fork`, `Accept`, `Include`, `EndRequest`
and the kills are the world around the extension.

**SyscallDb.** `db` is what is committed, `tx` what the open transaction sees. A
line of an input is one action. `CreateSyscall` and `CreateFunction` are `INSERT
OR REPLACE` on a table with `AUTOINCREMENT`, `IdOf` a scalar subquery that may
yield NULL, `Join` the join the profile is computed with. `Crash` is a panic or
a kill at any point.

**IncludeClosure.** `Recurse` takes any row out of the queue (SQLite promises no
order), joins it and adds what is new. `query` chooses between the two queries,
which differ in where they start and in what the join excludes. `PrintProfile`
is `build-filters`.

**ScanProject.** One action per file (`SkipFile`, `ProcessFile`, `Panic`), one
per commit, one per key of the resolver's map; `Kill` anywhere. `Fqns` keeps the
code's line 55, which overwrites. Every order of the walk is an initial state.

**IncludePattern.** One action per statement of a file, in each of the two walks.
A trie of nodes is a chain here. `Overflow` is the recursion of constants
defined by each other.

**InterpreterAnalysis.** The recursion of `dfs` as a stack of frames; `cached`,
`done` and the path as in the code. `Analyse` is one turn of the loop in `main`.

**ProcessTraces.** `scn`, `scc`, `scp`, `inCallstack`, `callstack` are the
parser's locals, `functions` and `children` its maps. One action per kind of line.

**Stage1.** `step` is the part of the script that runs. `ProcessTraces` and
`AnalyzeInterpreter` are steps of the two programs; `PrintDynamic`, `PrintStatic`
and `MergeMappings` write their files, and the `...Fails` actions leave a file cut off
anywhere (`CutOff`), after which the script goes on. What the programs print goes
through a buffer into a file, so a kill or a full disk ends it at any byte: inside the
name of a function, which then has no colon and no calls (`Torn`), or inside a call.
`NameBegun` gives the names that the first letters of a name are, `NumberBegun` the
numbers that the first digits of one are, which `readablesyscalls.py` gives the name of
another call (`Pieces`). Which lines and which words of the last line are in the file
is free, since both are printed in the order of a set or a map. `Readable` is
`readablesyscalls.py`; `ReadMapping` and `Merged` are `mergemappings.py`, where a
function's last line counts and functions that run programs are left out.

**Hooks.** `xg` is the record of the extension's globals `XG`, with the frames in
`stack`; the modules `FunctionTrace`, `Profiler` and `Diagnostics` are operators on
it, one per C function. `CallUser`, `CallInternal` and `CallCaller` are what
`xdebug_execute_ex` and `xdebug_execute_internal` do before the call,
`ReturnUser`, `ReturnCaller` (and the rest of `CallInternal`) what they do after
it. An internal function that calls back (`Callers`) has other calls between the
two. `Exit` and `RaiseError` end in a bailout: the engine drops its calls, `base`
says how many frames of the extension's stack are of dropped calls, and no hook
runs for them. `StartRequest` is `RINIT`, `EndRequest` the shutdown with
`post_deactivate`. An internal call prints its line into a buffer and then into the shared
page (`UpdateSharedCallstack`). `WriteLine` remembers in `overrun` that a line was longer
than the buffer; the process dies of that (`LineOverruns`) or goes on.

**CodeCoverage.** `Code` holds op arrays, `info` the analysis of each, `stack` the
calls, `xg` the tables. `Step` runs an opcode with its handler, `Call`, `Include`,
`Internal`, `InternalThrows`, `Return` and `Unwind` the hooks; `StartCodeCoverage`,
`StopCodeCoverage` and `SetFilter` are what an internal call may be. Every call adds a frame,
and with the branch option the line of the call is then counted (`CountCall`, the end of
`xdebug_add_stack_frame`) unless the filter slot of the callee is set, the caller's deciding nothing. An internal
function has no such slot: the code reads the memory behind its structure, which may hold
anything (`InternalSlots`). A slot of
`xg.paths` or `xg.last` is a value, unset, freed, or was never written (`Junk`).
The engine enters a `finally` block by `FAST_CALL`, which notes where `FAST_RET` goes on
(`back`), or because of an exception, which goes on after it (`Rethrow`); `Catch` goes to
whichever block comes first.

**Debugger.** `x` holds the extension's globals, the IDE's commands with their
answers, and `todo`, which is what the C functions in progress have still to do:
reading commands in `xdebug_dbgp_cmdloop` (`loop`), the checks and the statement
hook after a break, the end of a session. `Command` reads one command at a loop,
`HangUp` and `EndOfFile` are the IDE's death, `Resume` goes on with `todo`;
`Statement`, `Call`, `Return`, `Throw` and `RaiseError` are steps of the script
that may stop it, allowed when `todo` is empty.

**ProfileApplication.** `pc` is the next step of the script. Each step succeeds or
fails; a file that was being written is cut at any byte (`Cut`), or keeps its old
content if the failure came first. A policy on disk is `rows`, the numbers that are
whole, and `torn`, at most one pair of a script and the system call its last number
now stands for: `cp` may leave `231` as `23`, which MINIT reads as another call, or
end behind a blank, which it reads as 0. `Begun` gives the calls that the beginnings
of a number stand for; a name of a file cut off has no numbers behind it and is
skipped. `KillScript` ends the script between steps. `mapping`, `scanned` and `clean`
are history variables.

## The runs

Sizes are distinct states. All bounds are constants of the `MC` modules.

| run | checks | bounds | states |
|---|---|---|---|
| `seccomp_ext` | `ConfinedByDecidingFile`, `UnconfinedCallExplained`, `DecisionIsFinal`, `ImplementsConfinement`, `OwnFilterOfServerScripts` | one worker slot, three requests per process, four files, two profiles, all four settings | 22 300 |
| `reused_worker` | `OwnFilter` (violated) | one slot, two requests per process, every file mentions `$_SERVER` | 235 to the violation |
| `essentials` | `ExitAllowed` (violated) | one slot, one request | 23 to the violation |
| `include_closure` | `ClosureExact`, `ProfileExact`, `QueryEnds` | all 512 include graphs on three files, three sets of class edges, both queries | 202 007 |
| `syscall_db` | `ImplementsFunctionMap` | two functions, three names, row ids up to `MaxId` = 5 | 138 931 |
| `scan_project` | `RowsOfOwnFile`, `UsesResolved`, `EdgesJustified`, `AllOrNothing` | 672 projects of three files, every order | 48 000 |
| `include_pattern` | `IncludesCovered`, `IncludesExact` | about 21 750 projects of two files with up to three statements | 290 455 |
| `profile_application` | `NeverWider`, `CleanRunExact` | two versions of an application, two mappings, any number of runs | 1 245 306 |
| `stage1` | `MappingJustified`, `MappingComplete`, `ForkedCallsCounted`, `CompleteOffCycles`, `Stage1Ends` | nine pairs of traces, each cut after any line, both orders; all 64 call graphs on three nodes, two bindings to a library, three sets of PHP functions, with one trace; one number and one name that begin like others; every program ending anywhere | 560 170 |
| `hooks` | `TraceNested`, `TracesClosed`, `CrashOnlyAfterRestart`, `ProfileAdds`, `HandlerRestored`, `PageNamesCall` | seven applications, `MaxCalls` = 5, `MaxRequests` = 2 | 716 531 |
| `code_coverage` | `UnusedReported`, `ReportAgrees`, `EdgesTaken`, `LeafPathsExact` | three op arrays, `MaxCalls` = 5, `MaxLevel` = 3, `MaxSessions` = 2, `Chunk` = 1 | 463 517 |
| `debugger` | `AnsweredOnce`, `IdFindsOwn`, `TemporaryOnce`, `ConnectionsClosed`, `StepsLand`, `NoStopAfterDetach`, `ShownOfFrame`, `PagesPartition` | seven scripts and IDEs, each with its own `MaxStatements`, `MaxCalls` and `MaxCommands` | 3 207 651 |

The type invariants (`TypeOK`) are part of the proofs where a module has one; no
run spends a property on them.

What they show, and why the bounds are enough:

* **seccomp_ext.** Whatever a process decides at its first internal call is what
  it keeps, through three requests for different scripts, a replaced profile, a
  restart, a failed load or a disabled extension. Slots of the pool share only
  the master's table, so one slot with three requests (the first decides, the
  second takes the hook out or meets it taken out, the third runs without it)
  meets every order; a second slot adds nothing these properties relate. Four
  files give a script with a library, one without, the library asked for
  directly, and a file outside the application. `OldProfile` has a line without
  numbers, a name that occurs twice and one that is wrong.
* `OwnFilterOfServerScripts` is the configuration in which filters are per script:
  a process that serves one request, of a script for which `$_SERVER` has been
  built, has that script's filter. **reused_worker** shows what becomes of it with a
  second request.
* **include_closure.** Three files have every shape of cycle the cut in the join
  can meet: self loops, two files that include each other, a cycle behind an
  entry, and edges of both tables mixed.
* **syscall_db.** Five ids per table let a function be replaced, a system call
  be registered again, and a third run follow, so that an orphaned row and a
  fresh id both exist. `MaxId` bounds `RegisterSyscall` and `RegisterFunction`
  in their guards; it is not in the code. A program that has met the bound can
  still die.
* **scan_project.** Two definitions of a class and of its namespaced namesake, in
  each distribution over two files, and a third file that names them in each of
  the seven forms; three files are what it takes for a definition to be
  overwritten after it was used.
* **include_pattern.** A constant defined from a literal, an unknown call, a
  variable or another constant, in the same or another file, walked before or
  after; a variable assigned, appended to, or assigned in the other file.
* **stage1.** Three nodes of one binary hold every cycle through which a partial
  result can enter the cache; the fourth is in a library, so edges that leave
  the binary count. One fork between two processes; a grandchild would go through
  the same lines as a child. The product of all traces with all graphs would
  only repeat both, since the programs share no state: each input has either all
  cuts of the traces or all graphs. `writev` is cut to `write`, and its number to
  that of `open`: both a name and a number that stand for another call, of a function
  the traces have too, so that all three programs can stop inside the same words.
* **hooks.** Each application has the functions and settings of one part (traces,
  automatic traces, profile, errors and SOAP, monitored functions, garbage
  collection, the shared page), since parts do not read each other's state. Five calls
  give two nested calls with something started, stopped or raised between them, and
  the next call on the same level; the second request meets what the first has left.
  `Wide` has one internal function, whose line overruns its buffer, and one user function,
  whose line is never written.
* **code_coverage.** `main` includes files and starts and stops coverage around `f`,
  which loops around calls of `g`, which has a `switch`, a throw, chained catches, a
  `finally` block and dead code on a line of `main`. Five calls are the two inclusions or
  calls of `f` around three of `g`, so that a level passes from one function to another
  and back while both are covered. The `switch` comes after a statement: one that itself begins a branch
  is never marked, since `xdebug_switch_handler` steps over it while coverage is on, and
  the paths through it cannot be hit. `Chunk` is 32 in the code; with 1, the arrays that grow by it grow at
  every level. `MaxOuts` and `MaxPaths` are the code's.
* **debugger.** A script that is stepped through, one whose IDE leaves, one with line
  breakpoints, one with breakpoints at functions, one that waits for an error
  (`jit`), one whose variables are looked at from three frames, and one with nested
  values, pages and objects. Three or four commands set, meet and change a
  breakpoint, or start a step, ask, and let it go on.
* **profile_application.** The number of runs is not bounded: the state space is
  finite by itself. One version of the application calls `open` in its first
  script, the other finds `exec` in the file of a class, so a mixture of the two
  would be wider than both.

Each property of a passing run has a mutant in `PROJECT.json`: a definition as a
plausible mistake would have it, under which TLC finds that property violated.

## Fairness and deadlock

* `IncludeClosure`: weak fairness of `Recurse` and of `PrintProfile`. SQLite runs
  a query to its end within the call and the program prints what it returned;
  nothing else runs in that process.
* `Stage1`: weak fairness of `Progress`, the steps of the program that runs. The
  programs are sequential, run one after the other, and wait for nothing.
* Nowhere else: FPM owes nobody a request, a script may be killed, an IDE may
  never send another command, and no liveness is claimed of them.

`CHECK_DEADLOCK FALSE` stands where a program or a request ends or a bound is met:
`IncludeClosure`, `ScanProject`, `IncludePattern`, `Stage1`, `Hooks`,
`CodeCoverage`, `Debugger`. In the server, the database and the scripts there is
always a next step, and TLC checks that.

## The proofs

`tlapm` checks the eight `_proofs` modules. Each theorem holds for all values of
the constants that satisfy the module's assumption, and TLC evaluates the assumption in
the module's run. `WebAppAssumption`, `SeccompAssumption`, `ClosureAssumption`,
`ScanAssumption`, `ProfileAssumption`, `SyscallDbAssumption`, `Stage1Assumption` and
`AppsAssumption` (of `Debugger`: the types of breakpoints and what can be updated, that
what `strtol` reads is a number, that the children of a value are in an order) say
what sets the constants are and nothing about behaviour, with two exceptions that the
inputs have by their making: a file that calls something has an include edge to itself
(`recordResult` writes it, which `RowsOfOwnFile` states), and in a trace the line that
ends a stack comes after one that began it. `HooksAssumption` says that `{main}` is not
the name of a function an application calls, that a user function is no
`SoapClient` or `SoapServer` call, and that a trace format is one of the three.
`CoverageAssumption` says how PHP's compiler lays out an op array (`WellCompiled`): opcodes
are counted from 0, the last is a return, jumps have their targets and stay in the array, a
`switch` leads only where the comparisons behind it lead as well, and these come right behind
its opcode, where no other branch leads (`SwitchAlone`). `MaxOuts` is more than the two places
that a `switch` keeps for its default and for the next opcode.

**SeccompExt_proofs.** `IInv == TypeOK /\ ProcessInv`. `ProcessInv` puts each live
process into one of three classes: `Undecided` (flag clear, hook in place, no
filter, no file looked up), `Confined` (flag set, filter equal to what the table
gives the file looked up), `LeftOpen` (flag set, no filter, and one of the three
reasons holds). The properties alone are not inductive: `UnconfinedCallExplained`
says nothing of a process between two calls, and the steps of the hook need to
know that an undecided process still has it.
`TypeCorrect`, `FilterOfDecidingFile`, `UnconfinedOnlyForAReason` are
consequences; `DecisionStands` and `SoundProfileSpares` are action properties
from the same invariant (the latter with the fact that what a request has loaded
and what it is about to call stays within the reach of the file it started
with); `FirstRequestOwnFilter` is `OwnFilterOfServerScripts`, with `FirstRequestInv` beside
`IInv`: the class of a process says by which file it was confined, and in its first
request, for a script that mentions `$_SERVER`, that file is the script. `Refinement` shows that each step
is one of `Confinement` or leaves its variables alone.

**Database_proofs**, of `IncludeClosure`. `QueryInv == QueryTypeOK /\ RowsSound /\
StartKept /\ RowsJoined /\ ProfileBuilt`. `RowsSound`: each row joins a file to one it reaches.
`RowsJoined`: what a row outside the queue leads to is among the rows, except
where the cut applies. With an empty queue the files of a row are then closed
under the edges, so they contain the reach, which is the least closed set;
`RowsSound` gives the other inclusion. `ClosureCorrect` and `ProfileCorrect` hold
for every graph and every order of evaluation; that the query ends is left to
TLC.

**ScanProject_proofs.** `IInv == TypeOK /\ RowsOfOwnFile /\ FqnExact /\ Progress /\
AllOrNothing`. `FqnExact` says what the overwriting map holds after any prefix of
the walk: all definers of a global class, for a namespaced one no file but a
definer and at least one of them. `Progress` relates phase, the keys
still pending, and the edges already written. `OwnRows`, `ScanAtomic`,
`EdgesSound`, `NoLostClass`, `TypeCorrect`.

**ProfileApplication_proofs.** `IInv == TypeOK /\ DbProgress /\ CleanProgress /\
AllJustified`. `DbProgress`: at each step the tables are below those of one version
and one mapping, which is where the `rm -rf` at the start of the script is needed.
`CleanProgress`: as long as nothing failed they are equal to them.
`AllJustified`: each line of a policy is within its row of one version, and its torn
call, of which there is at most one, comes of a number of the row it is in. The lemmas
show that `FunctionMap!After` is monotone, that the row of a file grows with the
tables, and that cutting a file, a torn one too, or dropping a line adds no more than
one such call; that is where `Begun` must be transitive. The theorem needs no more
about the numbers than that.
`TypeCorrect`, `PolicyNeverWider`, `CleanRunCorrect`.

**Database_proofs**, of `SyscallDb`. `IInv == Types /\ Consistent /\ NamesCommitted /\ SyscallsLost /\
LinesApplied`. `Consistent`: names and ids are unique in each table, and no id, nor
any requirement, is above the sequence it was drawn from, so a new row finds no
requirement that waits for it. `SyscallsLost`: while `register-syscalls` runs, the
open transaction has the committed requirements but those of the names already
registered again. `LinesApplied`: while `register-functions` runs, a function
has in the open transaction what `FunctionMap!After` gives it after `pos`
lines. The lemmas `SyscallLost` and `FunctionReplaced` say what an `INSERT OR
REPLACE` does to the join, `AfterLine` what a line does to `After`. `Refinement`: a
commit is a step of `FunctionMap`, everything else leaves its variables alone. It
holds for every `MaxId`, which bounds nothing in the code.

**Stage1_proofs.** `MappingInv == TraceInv /\ AnalysisInv /\ StaticSound /\
DynamicSound /\ MappingSound`. `TraceInv` says where in the trace the parser's
locals come from: the call it holds is a line after which no other call has come
outside a stack (`ScnOpen`), a stack that began is being read (`StackOpen`),
an entry of `children` has a fork with a stack (`ChildrenForked`), one of
`functions` has its evidence. `AnalysisInv`: the frames of `dfs` are a path of the call
graph and hold only calls below their nodes (`StackSound`), and so does what is
cached and printed (`CacheSound`, `ResultsSound`). `StaticSound`, `DynamicSound` and
`MappingSound` carry this through the files, cut off at any byte or not, and the merge:
`Sound(lines, torn)` says that every call has its evidence but for the pairs in `torn`,
which the beginning of such a call stands for. `CutSound` adds one pair to `torn`,
`MergedSound` unites those of the two files, so the mapping has at most three
(`JustifiedOfSound`), for all `NumberBegun` and `NameBegun`. `BegunAssumption` takes for
granted that what is cut off may be cut again and that no beginning of a word is one of
the marks. Partial results of
`dfs` on cycles are incomplete and never unsound, which is why the theorem needs no
condition on the graph. `Stage1Assumption` takes from the tracer that the line that
ends a stack comes after one that began it.
`MappingAlwaysJustified` is the result.

That nothing is missing needs the converse, `CompletenessInv`: `ReadInv` says that a
call which waits for the end of its stack is what the parser holds
(`PendingRead`), and that what has been shown is counted (`ShownCounted`, `ForksNoted`,
`ForkedCallsCounted` itself); `CompleteInv` that the frames of `dfs` lack nothing of a
node that meets no cycle but what is still to do or is being computed in the frame above
(`PathFull`), because an edge is followed once only for nodes that are on the stack or
cached (`DoneInv`). A node on the stack above one that meets no cycle cannot
lead back, so the edge found followed is never one of its own. `DynamicComplete` and
`StaticComplete` carry both through the files and the merge. `MappingAlwaysComplete`,
`ForkedCallsAlwaysCounted`, `CacheComplete`.

**Hooks_proofs.** `HooksInv` is about the globals `xg` and the frames of dropped
calls, `base`. `CallsOK`: levels and numbers of the calls rise along the stack. `NestOK`: the
calls that are open in the trace that is on are those of the stack that are not
filtered and began after it, in the same order (`Tracks`), so a line that closes one
closes the last (`TraceNested` alone does not say which calls are open).
`TracesOK`: every trace but the one that is on, or that was replaced, has its footer.
`ErrorsOK`: the outermost SOAP call in progress keeps the callback that was chosen.
`PageOK`: the page holds the line of the innermost internal call, or of the caller nearest
to it whose line fits, unless that call has had another end inside it, or it holds what a
bailout dropped. `FitInv`: until a line overruns its buffer each internal call in progress
has a line that fits, so the page names that call itself, which is what `PageNamesCall` says. `ProfilesOK`: the lines of the profile
and what is still carried by the calls in progress add up to the time that has passed
in them (`Balanced`), and no call in progress has a line, so that an end written by
`exit` for calls whose own ends follow counts none twice. The invariant is proved for each C
function's operator first (what it may change, what it keeps), then for each hook,
then for each action. `TracesNest`, `NoTraceLeftOpen`, `OnlyRestartCrashes`,
`ErrorHandlerRestored`, `PageNamesInnermost`, `ProfilesAdd`, for every application,
depth of calls and number of requests.

**CodeCoverage_proofs.** `CoverageInv` relates the tables to the calls in progress. A slot
of `last_branch_nr` that can be read (`Holds`) holds the branch that the call of its
level entered last (`Agrees`, `Exact`), which is what an out that is marked is taken
from; it fails after a resumed session or a read of memory never written, and there
`EdgesTaken` claims nothing. The exception that the invariant must name is a call that has just passed a
`switch`: its handler is skipped, so the slot is one branch behind until the comparison
after it, and `SwitchAlone` is why no out can be marked meanwhile (`SwitchLeads`).
`Analysed`: a function whose tracker equals `dead_code_last_start_id` has its lines in
`executable`, or the filter skips it; a clean-up raises the id above every
tracker. As long as no function has branches no slot holds one (`NoneHeld`), which
is what lets a session start over the calls of an earlier one. `LinesReported` and
`MarksStandForSteps` follow.

`HitsInv` is where the calls are and what has been hit. `PcsOK`: a call is at an opcode that the
analysis reaches, as long as every `finally` block is reached; `FAST_RET` goes back only behind
the `FAST_CALL` that was noted, which is reached if the block is. This needs that `Reached` is closed under `Onward`
(`ReachedCloses`), and since it is computed in as many waves as there are opcodes, that is
shown by counting: a wave that still added something would hold more opcodes than the op array.
`Tab` (`HitStarts`, `LinesOK`): what is hit is a start of a branch, a dead line has dead code of some function on
it, a line that counts has been run by some function (the line of a call too, whoever's slot decides: `CountHits`), and all that the analysis of a function
reaches is alive. `HitMarks` and `SlotsHit`: the ends of an out that was hit and the branches
of a path that was hit have been hit, because the slots of a call's level hold only branches of its own
function that were. `PartsOfReportAgree` is the result.

`LeafInv`: a call of a leaf is the last one, is covered from its start to its end or
not at all, and the slots of its level hold its own trail (`LeafSlot`): what it has followed since its
start or its last catch, each edge once, with the visited edges of its call number and of no
later one (`VisitsCounted`). So when a path is marked it is this trail, and every trail is looked up
(`LeafMarks`). `LeafPathsHit` is the result. All three hold for every set of op arrays, depth,
`Chunk` and number of calls and sessions.

**Debugger_proofs.** Eight invariants, the first six each on those before it, for every script, every
IDE, and every order of statements, calls, exceptions, commands and lost connections.
`BInv` is about breakpoints: the ids in use are below the counter and none is used again, a
name that was never set for two ids leads to the record of its own id (`NamesKept`), no two
lines have one owner and there are as many lines as ids for lines (`LinesKept`, which is
where a set has to be counted), and what was hit as temporary is disabled (`Once`).
`CInv`: a session is enabled at most by what comes first in `todo`, after the loop it began
with, and never after a detach. `MInv`: `lasttransid` is a command that was sent, and a
detach in `todo` is one of this session. `SInv`: an open connection has been ended by the
IDE, is about to be closed, or is that of a request that is not over; at the end of a
request nothing but ends of sessions is left in `todo`. `LInv`: what is left to do comes
in the order in which one C function calls another (`Follows`), and the end of a session
that waits has something to free. `DInv`: where the IDE may write, all
commands of the session are answered, otherwise the last alone may be open, and none has two answers but
those `AnsweredOnce` excludes. `LInv` and `DInv` are needed together: that the command open
at a break is answered once depends on which C functions still run and will answer it
again. `EInv`, for `StepsLand`: the numbers of the calls rise along the stack, the frame a
step began in is at the level the step has noted or has returned (`StartedAt`), of the
flags of a step over or out one is set, and no session is enabled that has been freed, so
that the list a statement looks in is there. Since the numbers rise, a frame at the noted
level that is not the one the step began in is a later call, which is what
`finish_func_nr` tells apart. `PInv`, for `PagesPartition`: each page the IDE has seen is what
its number and the options in force say, of a value whose children cannot change; the rest is
division (`PagesApart`, `PageOfChild`). For each operator there is first what it may
change (`Only`) and what it keeps, then for each hook, then for each action. `StopsOnce`,
`IdsLeadToTheirs`, `LeftAlone`, `Connections`, `Answering`, `StepsAlwaysLand`,
`PagesAlwaysPartition`.

Four properties were corrected by the attempt to prove them. `IdFindsOwn` excluded only
ids that share a place now; a name set under two ids whose second was removed is gone for
the first as well, so the exclusion has to remember (`shared`), and a line breakpoint can
outlive its id. TLC had not met it because no IDE of the run removed a breakpoint; one does
now. `NoStopAfterDetach` compared the number of loops, which a step that ends one and begins
another would have kept; it compares the loops themselves (`Waits`). `PagesPartition` took the
pages of one name for pages of one value: a name the IDE was not shown in the context of the
superglobals is looked up in the frame of the query before it, and leads to another value
after one of another frame; so `seen` has the value as well. `ReportAgrees` said that no line that
has run is dead: a line shared by two functions may be dead in the one that was analysed last, and the
analysis follows `FAST_CALL` but not exceptions, so a `finally` block that only they enter counts
as dead when it runs. The property names both, and the op arrays of the run now have them.

**Only model-checked.** `IncludesCovered` and `IncludesExact` of `IncludePattern`, whose
reference semantics `Value` is recursive over statements; of `Debugger`, `ShownOfFrame`, which needs an induction over the steps of a
name; and all liveness (`QueryEnds`, `Stage1Ends`). The prover takes neither liveness
under fairness nor `ENABLED`, and the library's induction theorems cannot be
instantiated in it. Where an induction over numbers or sequences was needed it goes over
the least counterexample (`LeastNumber` in `Hooks_proofs` and `CodeCoverage_proofs`); for recursion over
programs and values that way was not taken.

## Where code and documentation differ

Two runs end in a violation, each of a sentence of the repository.

1. `reused_worker`: the readme promises filters "for individual scripts". The flag
   is static and never cleared, so the second request of a worker is served
   under the first one's filter. `OwnFilterOfServerScripts` in `seccomp_ext` shows
   the configuration in which the sentence is true.
2. `essentials`: after the comment "Add the essentials" the rule for `exit` is
   added with the filter's default action, `SCMP_ACT_KILL`, and so allows nothing.

Met on the way, and part of the models rather than findings of a run:

* `SCRIPT_FILENAME` is read from `$_SERVER`, which PHP builds only once some loaded
  file mentions it. Without it the file that is executing is looked up, which may
  be a library.
* The settings in the extension's README have no `seccomp.profile_path`; MINIT then
  fails (`StartMaster`), and with it the start of FPM.
* `seccomp.enable` is read as a string and compared with NULL in MINIT, so a
  disabled extension opens the profile all the same.
* `DfsPaths` rebuilds inner nodes without their constant: an unresolved constant
  inside a path becomes an empty string instead of `.*`. `IncludesCovered` excludes
  that case (`KnownInside`); without the conjunct TLC finds the include that is
  missed.
* The second walk of a file ignores `.=`. Both properties of `IncludePattern`
  exclude files that append before the include.
* `dfs` is called with the list of all origins of a function and expands the last.
* `new Foo` counts a use and records none; `extends A\B` records `A`.
* A class that is defined in two namespaces keeps the last file only.
* `run_stage1.sh` builds `process-traces` in `~/stage1/process-traces`, which the
  repository has under `interpreter-tracing`; with the repository's layout the
  merge gets no traces.
* The analysis discards `execve` (59) everywhere; a trace brings it back into the
  mapping for functions the merge does not leave out.
* A trace that is stopped and whose automatic restart fails counts as on with no
  file behind it; the next call uses it (`CrashOnlyAfterRestart` names this case).
* The shared page is cleared when an internal call ends, also for the internal
  call around it that goes on (`PageNamesCall` stops there).
* `update_shared_callstack` prints a line into a buffer of `SHM_CALLSTACK_SIZE` bytes before
  it compares the length with that size (`xdebug_profiler.c:426`, `:431`, `:434`): a line that
  the comparison rejects has overrun the buffer. `PageNamesCall` claims nothing from there on.
* `post_deactivate` does not run the hooks of calls that a bailout dropped, so an
  `exit` in a SOAP call leaves the engine's error callback in place until the request ends.
* The key of a visited branch holds the number of the latest call, not of the one
  that runs, so after an inner call the branches of its caller count as not yet
  visited; `LeafPathsExact` is therefore about functions that call none.
* `xdebug_switch_handler` steps over a `switch` without marking it, so a branch that
  begins with one is never hit, nor are the paths through it.
* The analysis of branches follows `FAST_CALL` into a `finally` block and no exception, so a
  block after a `try` that always throws is reported as dead code though it runs
  (`ReportAgrees` names the case).
* Two breakpoints in one place share a key, moving a line breakpoint leaves the
  key of its id behind, and removing one of two ids of a name takes the name from the
  other: `IdFindsOwn` excludes these.
* A `detach` at a function breakpoint is followed by the statement's own check,
  which may stop the script once more (`NoStopAfterDetach` excludes it).

## Abstractions, and what is not modelled

* `SeccompExt`: php.ini is fixed when a master starts; internal functions called
  from internal functions reach the hook only as the same paths in the same
  order and are left out; FPM's recycling, the SAPI and libseccomp are external.
  A row of the profile is a set of numbers; its 333 slots are not counted.
* `SyscallDb`: the header gives a name one number, so names stand for numbers.
* `IncludeClosure`: SQL's row order is a free choice; the query by names is the same
  query with names.
* `ScanProject`: the tables `class_definition` and `class_instance`, which nothing
  reads, and the counters are left out; a pattern is the set of files it matches,
  after the rewriting of slashes and `..`, and with the fallback loop, which never
  runs past the whole pattern. The names NamespaceResolver gives to nodes are the
  input.
* `IncludePattern`: paths are sequences of segments; only `dirname` and `realpath`
  branch a trie, once per path, so a trie is a chain, and their results other
  than `dirname(__FILE__)` are unknown values; an encapsed string is a
  concatenation. The properties claim something only where a constant has one
  definition (`DefinedOnce`), a variable is appended to after it was assigned
  (`AppendsToKnown`), no append comes before the include (`AppendsFollowed`), and
  no constant of unknown value is inside the path (`KnownInside`).
* `InterpreterAnalysis`: the call graph is a constant; how objdump's output becomes
  one is not modelled. `CompleteOffCycles` claims completeness for nodes that
  reach no cycle and no function of several origins: elsewhere results are
  incomplete, depending on the order.
* `ProcessTraces`: a line is its kind with the words the parser takes from it; each
  process id occurs once.
* `Stage1`: what a program had in memory is reset when it ends, and so is a file that
  has been merged. A method's name cut behind its first colon is read as a line of its
  class without calls; that counts as a name cut off, no function being named like a
  class. Building PHP, TE and TR, running the test suite, and `enum.c` are outside.
* `Hooks`: a file that is opened at level 0 is opened or not, once for all formats of
  the start. An exception is a return without a value. Assignments, generators,
  `ZEND_PASS` and headers are not traced, the aggregate profile is left out, a
  collection happens only in `gc_collect_cycles`. The clock ticks where a profile
  looks at it, when a call is entered or left. The fork flag's protocol is not here:
  its other side is TR's. Of a line that overruns its buffer there are two outcomes: the
  process dies there (`LineOverruns`), or it goes on as the code reads, past the line to the caller's
  (`PageFrame`), with nothing harmed that another part reads. What else an overrun may do to the
  stack is not modelled: after one, `overrun` takes away what is said of the page, and the other
  properties hold of these two outcomes only.
* `BranchInfo`, `CodeCoverage`: all functions report under one file name; `{main}` is
  not in the function table; of an included file only its frame is kept, which counts the line of the
  include: its body has no opcodes of interest.
  `exit` is left out. Where memory is read that was never written or was freed, any
  of the outcomes that can be told apart follows, and `Sound` guards the properties
  that do not claim anything of such a run (a second session resumes tables of the first).
* `Breakpoints`, `Debugger`: one file. A condition holds or not by a free choice, calls
  no functions and raises no errors. Commands that do not parse change
  nothing and are left out, as are `eval`, `source`, `stack_get` and `feature_get`,
  notifications, and the commands of the profiler; `status` stands for the queries that
  are allowed after the script. Throwing and raising count as statements. An uncaught
  exception's own fatal error is left out. Where a table is used after it was freed,
  the outcome is a crash or nothing found. An IDE that hangs up is an end of file at the
  next read.
* `Variables`: values are nodes of a graph and do not change but by `property_set`. A key
  is the parts the parser sees in it. Constants (context 2), `max_data`, `property_set`
  without a type (which evaluates code), magic getters, the storage of SPL objects and the
  container node `::` are left out; superglobals are asked for in context 1.
* `ProfileApplication`: names of files hold no blank. `build-filters` does not look at
  what its prints return, so a disk that is full is taken to stay full until it ends.
* Not modelled: TR (a submodule that is not in the repository, so half of the fork
  flag's protocol in TE has no source either), `include-tree`, `check-traces`, the
  output of TE (text, HTML and XML of values and stacks) and the containers it is built
  in, the building of PHP and of the extensions, vendored code.

## The plan

Built so far, in this order: the extension and its abstract sandbox; the
queries; the database and its abstract map, with the proof that one implements the
other; the scan; the interpreter analysis and the traces, composed to stage 1, with
the proof that its mapping is justified; include patterns; the composition of
stages 2 and 3; the tracing extension in three parts, the hooks, the coverage and the
debugger.

Next, the most important first:

1. *`NamespaceResolver`*, the input `ScanProject` still takes for granted: names and
   aliases per file, checked against PHP's rules.
2. *The stages end to end*: `Stage1`'s `mapping` as the `Mappings` of
   `ProfileApplication`, and its `loaded` as the `filters` of `SeccompExt`: a policy of
   one version while requests run.
3. *Proofs*: for `IncludePattern`, that a chain denotes the value of its expression, with the
   constants resolved by depth; for `ShownOfFrame`, the least step of a name at which the parser and
   the walk part.
4. *`check-traces` and `include-tree`*, as operators over `ProcessTraces` and
   `IncludeClosure`.
5. *TE's fork protocol*, with the tracer as a free choice of what it may write, if
   the submodule's source is available; headers and assignments in traces; the
   debugger's remaining queries.

## Running it

    tlc -config SeccompExt.cfg MCSeccompExt.tla
    tlapm SeccompExt_proofs.tla

and likewise for the other configurations and `_proofs` modules. No run takes
longer than about two minutes.
