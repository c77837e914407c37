---------------------------- MODULE CodeCoverage ----------------------------
(***************************************************************************)
(* Line, branch and path coverage while a PHP request runs: the opcode     *)
(* handlers and the hooks of function calls record what is executed in     *)
(* tables that BranchInfo fills in advance (xdebug_code_coverage.c,        *)
(* xdebug_branch_info.c and the parts of xdebug.c that call them).         *)
(*                                                                         *)
(* All functions report under one file name.  A "call" opcode calls a user *)
(* function, includes one ("include"), or calls an internal function, of   *)
(* which "start", "stop" and "filter" are those of coverage.               *)
(***************************************************************************)
EXTENDS BranchInfo, FiniteSets, Functions

CONSTANTS
    Fn, Main,       \* user functions; the script itself
    Code,           \* Code[f]: the op array of f
    Calls,          \* Calls[f][p]: what the opcode p of f may call or include
    Methods,        \* the functions that are methods of the one class
    Listed,         \* functions in the files the path filter names
    Chunk,          \* slots that paths_stack and branches grow by, 32
    MaxCalls,       \* bound on function_count
    MaxLevel,       \* bound on the depth of calls
    MaxSessions,    \* bound on xdebug_start_code_coverage
    Options         \* the options xdebug_start_code_coverage is called with

\* The compiler puts the comparisons of a switch behind its opcode, where only
\* the branch of the switch leads.
SwitchAlone(code) ==
    \A p \in Reached(code) \cup Starts(code) : Kind(code, p) = "switch" =>
        /\ p + 1 \in Starts(code)
        /\ \A b \in Starts(code) : p + 1 \in ToSet(Branches(code)[b].outs) =>
              b <= p /\ \A c \in Starts(code) : c <= b \/ c > p

\* What the compiler sees to in the opcode p: its jumps stay in the op array, a
\* jump has its targets, and a switch only leads where the comparisons behind
\* it lead as well.
WellFormed(code, p) ==
    LET o == code[p]
    IN  /\ o.to \in Seq(Positions(code))
        /\ o.op \in {"jmp", "jmpz", "catch", "fast_call"} => 1 \in DOMAIN o.to
        /\ o.op = "jmpznz" => {1, 2} \subseteq DOMAIN o.to
        /\ o.op = "switch" => o.to # <<>>
        /\ o.op = "switch" /\ p \in Reached(code) => ToSet(o.to) \subseteq Reached(code)

\* Op arrays are counted from 0, never up to Exit, and end with a return.
WellCompiled(code) ==
    /\ Size(code) \in Nat \ {0} /\ Positions(code) = 0..Size(code) - 1
    /\ Exit \notin Positions(code) /\ Kind(code, Size(code) - 1) = "return"
    /\ \A p \in Positions(code) : WellFormed(code, p)
    /\ SwitchAlone(code)

ASSUME CoverageAssumption ==
    /\ Main \in Fn /\ Chunk \in Nat \ {0} /\ MaxOuts \in Nat /\ MaxOuts > 2
    /\ \A f \in Fn : WellCompiled(Code[f])

VARIABLES
    info,           \* info[f]: what Analysis says of f, computed once
    stack,          \* the calls in progress
    exception,      \* an exception is being thrown
    functionCount,  \* function_count
    compiled,       \* op arrays the engine knows
    filterType,     \* filter_type_code_coverage: "none", "white" or "black"
    filtered,       \* op arrays whose reserved filter slot is set
    on, opts,       \* do_code_coverage; the options of the last start
    sessions,       \* starts of coverage so far
    resumed,        \* history: started again over the tables of an earlier start
    xg              \* the tables, see Tables

vars == <<info, stack, exception, functionCount, compiled, filterType, filtered, on, opts,
          sessions, resumed, xg>>

level == Len(stack)
Top   == stack[level]

\* The opcode at hand may call, or include, what.
AtCall(what) ==
    /\ stack # <<>> /\ ~exception /\ Kind(Code[Top.fn], Top.pc) = "call"
    /\ what \in Calls[Top.fn][Top.pc]

Unset == -1
Junk  == -2         \* memory realloc did not fill

NullPath == [state |-> "null", elements |-> <<>>]
NewPath  == [state |-> "live", elements |-> <<>>]

\* code_coverage: executable[l] is 0, 1 or 2 (dead); the rest are the sets of
\* what has a count or a hit, and functions are those with branch_info.
EmptyHash == [executable |-> <<>>, counted |-> {}, functions |-> {},
              hit |-> {}, outs_hit |-> {}, paths_hit |-> {}]

\* hash; dead_code_last_start_id, each function's tracker slot and the flag
\* ZEND_XDEBUG_VISITED of the class;
\* paths_stack and last_branch_nr by level; visited_branches; and as history
\* whether a slot was used that was freed or never written, the edges taken,
\* and what calls that were covered as a whole have followed.
Tables == [hash |-> EmptyHash, startId |-> 1, tracker |-> [f \in Fn |-> 0],
           classVisited |-> FALSE,
           paths |-> <<>>, last |-> <<>>, visited |-> {},
           wild |-> FALSE, taken |-> {}, followed |-> {}, whole |-> {}]

-----------------------------------------------------------------------------
(* Filling the tables in advance *)

\* prefill_from_opcode
Executable(op) == op \notin {"nop", "recv", "fast_call"}

\* The lines of prefill_from_oparray: a line is dead (2) unless one of its
\* opcodes is alive, in whatever order they come (xdebug_count_line).
PrefillLines(executable, fs, dead) ==
    LET ops == UNION {{<<h, p>> : p \in {q \in Positions(Code[h]) :
                                            Executable(Kind(Code[h], q))}} : h \in fs}
        lineOf(fp) == Code[fp[1]][fp[2]].line
        alive == {lineOf(fp) : fp \in {o \in ops : dead => o[2] \in info[o[1]].reached}}
        known == DOMAIN executable
    IN  [l \in known \cup {lineOf(fp) : fp \in ops} |->
            IF l \in alive \/ (l \in known /\ executable[l] = 1) THEN 1
            ELSE IF \E fp \in ops : lineOf(fp) = l THEN 2 ELSE executable[l]]

\* prefill_from_oparray
PrefillFrom(g, due, skipped) ==
    [g EXCEPT !.tracker = [f \in Fn |-> IF f \in due THEN g.startId ELSE g.tracker[f]],
              !.hash.executable = PrefillLines(@, due \ skipped, opts.dead),
              !.hash.functions = IF opts.dead /\ opts.branch THEN @ \cup (due \ skipped)
                                 ELSE @]

\* xdebug_prefill_code_coverage: f, the functions and the methods that the
\* engine knows and whose tracker is out of date; a class is visited once.
Prefill(g, known, f, skipped) ==
    LET table == known \ ({Main} \cup (IF g.classVisited THEN Methods ELSE {}))
    IN  [PrefillFrom(g, {h \in table \cup {f} : g.tracker[h] < g.startId}, skipped)
            EXCEPT !.classVisited = @ \/ known \cap Methods # {}]

-----------------------------------------------------------------------------
(* Paths, by level *)

\* xdebug_path_info_make_sure_level_exists
MakeSureLevelExists(g, l) ==
    IF l <= Len(g.paths) THEN g
    ELSE [g EXCEPT !.paths = [i \in 1..l + Chunk - 1 |->
                                IF i <= Len(g.paths) THEN g.paths[i] ELSE NullPath],
                   !.last = [i \in 1..Len(@) |-> IF i > Len(g.paths) THEN Unset ELSE @[i]]]

\* Mutant of StartOfFunction: the last branch of the level is not reset.
StartKeepsLast(g, f, l) ==
    LET h == MakeSureLevelExists(Prefill(g, compiled, f, filtered), l)
    IN  [h EXCEPT !.paths[l] = NewPath,
                  !.last = [i \in 1..(IF l > Len(@) THEN l + Chunk - 1 ELSE Len(@)) |->
                                IF i <= Len(h.last) THEN h.last[i]
                                ELSE IF i = l THEN Unset ELSE Junk]]

\* xdebug_code_coverage_start_of_function
StartOfFunction(g, f, l) ==
    LET h == MakeSureLevelExists(Prefill(g, compiled, f, filtered), l)
    IN  [h EXCEPT !.paths[l] = NewPath,
                  !.last = [i \in 1..(IF l > Len(@) THEN l + Chunk - 1 ELSE Len(@)) |->
                                IF i = l THEN Unset
                                ELSE IF i <= Len(h.last) THEN h.last[i] ELSE Junk]]

\* xdebug_branch_info_mark_end_of_function_reached: a path is known by its key.
PathHit(g, f, elements) ==
    IF f \in g.hash.functions /\ elements \in ToSet(info[f].paths)
    THEN [g EXCEPT !.hash.paths_hit = @ \cup {<<f, elements>>}] ELSE g

\* xdebug_code_coverage_end_of_function: the path is looked up and freed; its
\* slot keeps the pointer.
EndOfFunction(g, f, l) ==
    LET h == MakeSureLevelExists(g, l)
        path == h.paths[l]
    IN  IF path.state = "null" THEN h
        ELSE [PathHit(h, f, path.elements) EXCEPT !.paths[l].state = "freed",
                                                  !.wild = @ \/ path.state = "freed"]

\* The values a read of last_branch_nr[level] may give before p is marked; of
\* what was never written, one value for each effect it can have.
LastBranches(g, f, l, p) ==
    IF l \in 1..Len(g.last) /\ g.last[l] # Junk THEN {g.last[l]}
    ELSE {Unset} \cup {b \in info[f].starts : p \in ToSet(info[f].branches[b].outs)}

\* xdebug_path_add
PathAdd(paths, l, p) == [paths EXCEPT ![l].elements = Append(@, p)]

\* The part of xdebug_branch_info_mark_reached for a start of a branch, when
\* prev has been read as the last branch.
MarkStart(g, f, l, p, prev) ==
    LET key  == <<p, prev, functionCount>>
        path == IF l <= Len(g.paths) THEN g.paths[l] ELSE [NullPath EXCEPT !.state = "freed"]
        adds == key \notin g.visited /\ path.state # "null"
        junk == l > Len(g.last) \/ l > Len(g.paths)
    IN  [g EXCEPT
            !.hash.hit = @ \cup {<<f, p>>},
            !.hash.outs_hit =
                IF prev \in Positions(Code[f]) /\ p \in ToSet(info[f].branches[prev].outs)
                THEN @ \cup {<<f, prev, p>>} ELSE @,
            !.visited = @ \cup {key},
            !.paths = IF adds /\ l <= Len(@) THEN PathAdd(@, l, p) ELSE @,
            !.last = IF l <= Len(@) THEN [@ EXCEPT ![l] = p] ELSE @,
            !.wild = @ \/ junk \/ g.last[l] = Junk \/ (adds /\ path.state = "freed")
                        \/ prev \notin {Unset} \cup Positions(Code[f])]

\* Mutant of MarkReached: any opcode ends the branch before it.
MarkEveryOpcode(g, f, l, p) ==
    IF f \notin g.hash.functions THEN {g}
    ELSE {MarkStart(g, f, l, p, prev) : prev \in LastBranches(g, f, l, p)}

\* xdebug_branch_info_mark_reached; an entry point other than the first
\* opcode begins a path of its own.
MarkReached(g, f, l, p) ==
    IF f \notin g.hash.functions THEN {g}
    ELSE LET h == IF p # 0 /\ p \in info[f].entries
                  THEN StartOfFunction(EndOfFunction(g, f, l), f, l) ELSE g
         IN  IF p \notin info[f].starts THEN {h}
             ELSE {MarkStart(h, f, l, p, prev) : prev \in LastBranches(h, f, l, p)}

-----------------------------------------------------------------------------
(* Opcodes *)

\* The opcodes MINIT gives the handler that counts their line; the others
\* only mark branches, and exit does neither.
CountsLine(op) == op \in {"stmt", "jmp", "jmpz", "return", "return_by_ref", "catch",
                          "fetch_class", "fast_ret"}

\* xdebug_count_line, of a line that runs
CountLine(executable, line) ==
    [l \in DOMAIN executable \cup {line} |->
        IF l \in DOMAIN executable THEN executable[l] ELSE 0]

Counted(g, line) == [g EXCEPT !.hash.counted = @ \cup {line},
                              !.hash.executable = CountLine(@, line)]

\* The handlers xdebug_common_override_handler and
\* xdebug_check_branch_entry_handler; a switch is skipped while coverage is on.
Handled(g, f, l, p) ==
    LET op == Kind(Code[f], p)
    IN  IF ~on \/ f \in filtered \/ op \in {"switch", "exit"} THEN {g}
        ELSE {IF CountsLine(op) THEN Counted(h, Code[f][p].line) ELSE h :
                h \in MarkReached(g, f, l, p)}

\* The finally blocks, each known by its first opcode: FAST_CALL enters one and
\* notes where FAST_RET is to go on; an exception enters it with another note.
Finallys(code) ==
    {code[p].to[1] : p \in {q \in Positions(code) : Kind(code, q) = "fast_call"}}

Rethrow == -1

Noting(back, block, note) ==
    [b \in DOMAIN back \cup {block} |-> IF b = block THEN note ELSE back[b]]

Backs(frame) ==
    {frame.back[b] : b \in DOMAIN frame.back \cap {Code[frame.fn][frame.pc].to[1]}}

\* Where the engine goes after an opcode that does not leave the function.
Next_(frame) ==
    LET p == frame.pc
        o == Code[frame.fn][p]
    IN  CASE o.op = "jmp"    -> {o.to[1]}
          [] o.op = "jmpz"   -> {p + 1, o.to[1]}
          [] o.op = "jmpznz" -> {o.to[1], o.to[2]}
          [] o.op = "switch" -> IF on THEN {p + 1} ELSE ToSet(o.to)
          [] o.op = "catch"  -> {p + 1} \cup (IF o.last THEN {} ELSE {o.to[1]})
          [] o.op = "fast_call" -> {o.to[1]}
          [] o.op = "fast_ret" -> Backs(frame) \ {Rethrow}
          [] o.op \in {"return", "return_by_ref", "throw", "exit", "call"} -> {}
          [] OTHER -> {p + 1}

\* What a FAST_CALL notes.
BackAfter(frame) ==
    IF Kind(Code[frame.fn], frame.pc) # "fast_call" THEN frame.back
    ELSE Noting(frame.back, Code[frame.fn][frame.pc].to[1], frame.pc + 1)

\* History: the branches a call has entered, an edge once, since its start or
\* its last catch.
Restarts(frame, p) == p # 0 /\ p \in info[frame.fn].entries

Entered(frame, p) ==
    IF p \notin info[frame.fn].starts THEN frame
    ELSE LET from == IF Restarts(frame, p) THEN Unset ELSE frame.prev
             seen == <<from, p>> \in frame.seen
             trail == IF Restarts(frame, p) THEN <<>> ELSE frame.trail
         IN  [frame EXCEPT !.prev = p, !.seen = @ \cup {<<from, p>>},
                           !.trail = IF seen THEN trail ELSE Append(trail, p)]

\* History: frame has come to the end of its trail.
Followed(g, frame) ==
    LET done == {<<frame.fn, frame.trail>>}
    IN  [g EXCEPT !.followed = @ \cup done,
                  !.whole = IF frame.whole /\ frame.fn \in g.hash.functions
                            THEN @ \cup done ELSE @]

WithTaken(g, frame, p) ==
    IF Restarts(frame, p) THEN Followed(g, frame)
    ELSE IF p \in info[frame.fn].starts /\ frame.prev # Unset
    THEN [g EXCEPT !.taken = @ \cup {<<frame.fn, frame.prev, p>>}] ELSE g

\* The call frame goes on at q, and has noted back.
GoesTo(frame, q, back) == [frame EXCEPT !.pc = q, !.back = back]

SetTop(frame) == stack' = [stack EXCEPT ![level] = frame]

\* An opcode that stays in the function.
Step ==
    /\ stack # <<>> /\ ~exception
    /\ \E q \in Next_(Top) :
          SetTop(GoesTo(Entered(Top, Top.pc), q, BackAfter(Top)))
    /\ \E g \in Handled(xg, Top.fn, level, Top.pc) : xg' = WithTaken(g, Top, Top.pc)
    /\ UNCHANGED <<info, exception, functionCount, compiled, filterType, filtered, on, opts,
                   sessions, resumed>>

\* The line counted for a call, when its frame is added and the slot of the
\* callee, not of the caller, is not set.
CountCall(g, slot) ==
    IF on /\ opts.branch /\ ~slot THEN Counted(g, Code[Top.fn][Top.pc].line) ELSE g

\* The tables once the opcode at hand calls a function with one of the slots.
Called(slots) ==
    {CountCall(WithTaken(g, Top, Top.pc), slot) :
        g \in Handled(xg, Top.fn, level, Top.pc), slot \in slots}

\* An internal function has no op array: the slot is read from the memory behind
\* it, which may hold anything.
InternalSlots == BOOLEAN

\* THROW, a call of a function that does not exist yet, a catch nothing matched,
\* or the end of a finally block that an exception entered.
Throw ==
    /\ stack # <<>> /\ ~exception
    /\ LET op == Kind(Code[Top.fn], Top.pc)
       IN  \/ op = "throw"
           \/ op = "call" /\ ~(Calls[Top.fn][Top.pc] \cap Fn \subseteq compiled)
           \/ op = "catch" /\ Code[Top.fn][Top.pc].last
           \/ op = "fast_ret" /\ Rethrow \in Backs(Top)
    /\ SetTop(Entered(Top, Top.pc))
    /\ \E g \in Handled(xg, Top.fn, level, Top.pc) : xg' = WithTaken(g, Top, Top.pc)
    /\ exception' = TRUE
    /\ UNCHANGED <<info, functionCount, compiled, filterType, filtered, on, opts, sessions, resumed>>

\* An internal function that throws.
InternalThrows ==
    /\ AtCall("internal")
    /\ functionCount < MaxCalls
    /\ functionCount' = functionCount + 1
    /\ SetTop(Entered(Top, Top.pc))
    /\ xg' \in Called(InternalSlots)
    /\ exception' = TRUE
    /\ UNCHANGED <<info, compiled, filterType, filtered, on, opts, sessions, resumed>>

\* The engine goes to the first catch or finally block behind the opcode that
\* threw.
Handlers(code) == Catches(code) \cup Finallys(code)

Catch ==
    /\ stack # <<>> /\ exception
    /\ \E q \in Handlers(Code[Top.fn]) :
          /\ q > Top.pc
          /\ \A c \in Handlers(Code[Top.fn]) : c > Top.pc => q <= c
          /\ SetTop(GoesTo(Top, q, IF q \in Finallys(Code[Top.fn])
                                   THEN Noting(Top.back, q, Rethrow) ELSE Top.back))
    /\ exception' = FALSE
    /\ UNCHANGED <<info, functionCount, compiled, filterType, filtered, on, opts, sessions, resumed, xg>>

-----------------------------------------------------------------------------
(* Calls *)

\* Whether xdebug_execute_ex covers a call: code_coverage_init.  The frame's
\* filtered_code_coverage is never set, so a filtered function has a path too.
Covers == on /\ opts.unused

\* xdebug_execute_ex, up to the execution of the body.
EnterFunction(f, g) ==
    LET l == level + 1
    IN  /\ functionCount < MaxCalls /\ l <= MaxLevel
        /\ functionCount' = functionCount + 1
        /\ stack' = Append(IF stack = <<>> THEN <<>>
                           ELSE [stack EXCEPT ![level] = [Entered(Top, Top.pc) EXCEPT !.pc = @ + 1]],
                           [fn |-> f, pc |-> 0, back |-> <<>>, init |-> Covers, prev |-> Unset,
                            known |-> (compiled \cup {f}) \ (filtered \cup {Main}),
                            seen |-> {}, trail |-> <<>>, whole |-> Covers])
        /\ xg' = IF Covers THEN StartOfFunction(g, f, l) ELSE g
        /\ UNCHANGED <<info, exception, compiled, filterType, filtered, on, opts, sessions, resumed>>

Call ==
    \E f \in compiled :
        AtCall(f) /\ \E g \in Called({f \in filtered}) : EnterFunction(f, g)

\* The script's own frame is added before coverage can be on.
RunScript ==
    /\ stack = <<>> /\ functionCount = -1 /\ Main \in compiled
    /\ EnterFunction(Main, xg)

\* The rest of xdebug_execute_ex, when the body has returned or thrown.
LeaveFunction(g, frame) ==
    LET fn == frame.fn
        ended == IF Covers /\ frame.init THEN EndOfFunction(g, fn, level) ELSE g
    IN  /\ xg' = Followed(ended, frame)
        /\ stack' = Front(stack)
        /\ UNCHANGED <<info, functionCount, compiled, filterType, filtered, on, opts, sessions, resumed>>

Return ==
    /\ stack # <<>> /\ ~exception
    /\ Kind(Code[Top.fn], Top.pc) \in {"return", "return_by_ref"}
    /\ \E g \in Handled(xg, Top.fn, level, Top.pc) :
          LeaveFunction(WithTaken(g, Top, Top.pc), Entered(Top, Top.pc))
    /\ UNCHANGED exception

Unwind ==
    /\ stack # <<>> /\ exception
    /\ \A c \in Handlers(Code[Top.fn]) : c <= Top.pc
    /\ LeaveFunction(xg, Top)
    /\ UNCHANGED exception

\* xdebug_filter_run_code_coverage
FilteredNow(f) == \/ filterType = "white" /\ f \notin Listed
                  \/ filterType = "black" /\ f \in Listed

\* xdebug_compile_file and xdebug_init_oparray: the engine compiles the script,
\* or a file that declares f.  The filter slot is set once, by the filter of
\* that moment.
Compile(f) ==
    /\ f \notin compiled
    /\ compiled' = compiled \cup {f}
    /\ filtered' = IF FilteredNow(f) THEN filtered \cup {f} ELSE filtered
    /\ UNCHANGED <<info, exception, functionCount, filterType, on, opts, sessions, resumed>>

CompileScript ==
    /\ stack = <<>> /\ Compile(Main)
    /\ xg' = IF on /\ opts.unused THEN Prefill(xg, compiled', Main, filtered') ELSE xg
    /\ UNCHANGED stack

\* Of the included file's own body only the frame is kept, which counts the
\* include.
Include ==
    /\ AtCall("include") /\ \E f \in Fn : Compile(f) /\
          \E g \in Handled(xg, Top.fn, level, Top.pc) :
             xg' = LET h == WithTaken(g, Top, Top.pc)
                   IN  CountCall(IF on /\ opts.unused THEN Prefill(h, compiled', f, filtered')
                                 ELSE h, f \in filtered')
    /\ SetTop([Entered(Top, Top.pc) EXCEPT !.pc = @ + 1])

-----------------------------------------------------------------------------
(* Internal functions, called from a "call" opcode *)

CallInternal(name, body(_)) ==
    /\ AtCall(name)
    /\ functionCount < MaxCalls
    /\ functionCount' = functionCount + 1
    /\ \E g \in Called(InternalSlots) : body(g)
    /\ UNCHANGED <<info, exception, compiled>>

Resume == SetTop([Entered(Top, Top.pc) EXCEPT !.pc = @ + 1])

Internal ==
    CallInternal("internal", LAMBDA g : xg' = g /\ Resume
                            /\ UNCHANGED <<filterType, filtered, on, opts, sessions, resumed>>)

\* History: no call in progress is covered as a whole from here on.
NotWhole == [i \in 1..level |->
                [(IF i < level THEN stack[i] ELSE [Entered(Top, Top.pc) EXCEPT !.pc = @ + 1])
                    EXCEPT !.whole = FALSE]]

\* PHP_FUNCTION(xdebug_start_code_coverage)
StartCodeCoverage ==
    /\ sessions < MaxSessions
    /\ sessions' = sessions + 1
    /\ opts' \in Options
    /\ resumed' = (resumed \/ xg.hash # EmptyHash)
    /\ on' = TRUE
    /\ CallInternal("start", LAMBDA g : xg' = g /\ stack' = NotWhole /\ UNCHANGED <<filterType, filtered>>)

\* Mutant of Cleaned: the tables go, but the functions count as analysed.
CleanedSameId(g) == [g EXCEPT !.hash = EmptyHash, !.paths = <<>>, !.followed = {}, !.whole = {},
                              !.taken = {}]

\* The clean-up of PHP_FUNCTION(xdebug_stop_code_coverage).
Cleaned(g) == [CleanedSameId(g) EXCEPT !.startId = @ + 1]

StopCodeCoverage ==
    /\ on
    /\ on' = FALSE
    /\ \E cleanup \in BOOLEAN :
          CallInternal("stop", LAMBDA g : /\ xg' = IF cleanup THEN Cleaned(g) ELSE g
                                  /\ stack' = NotWhole)
    /\ UNCHANGED <<filterType, filtered, opts, sessions, resumed>>

\* PHP_FUNCTION(xdebug_set_filter), of the group for code coverage.
SetFilter ==
    /\ filterType' \in {"none", "white", "black"}
    /\ CallInternal("filter", LAMBDA g : xg' = g /\ Resume
                               /\ UNCHANGED <<filtered, on, opts, sessions, resumed>>)

-----------------------------------------------------------------------------
(* PHP_FUNCTION(xdebug_get_code_coverage) *)

\* add_line: 1, or for a line that has not run -1, and -2 if it is dead code.
LineReport(l) ==
    IF xg.hash.executable[l] # 0 /\ l \notin xg.hash.counted
    THEN -xg.hash.executable[l] ELSE 1

\* add_branches: a jump to opcode 0 is left out.
BranchReport(f) ==
    LET out(p) == ToSet(info[f].branches[p].outs) \ {0}
    IN  [p \in info[f].starts |->
            [op_end |-> info[f].branches[p].end_op, hit |-> <<f, p>> \in xg.hash.hit,
             out |-> out(p), out_hit |-> {q \in out(p) : <<f, p, q>> \in xg.hash.outs_hit}]]

\* add_paths
PathReport(f) ==
    [path \in ToSet(info[f].paths) |-> <<f, path>> \in xg.hash.paths_hit]

\* add_cc_function, add_file
FunctionReport(f) == [branches |-> BranchReport(f), paths |-> PathReport(f)]

Report == [lines |-> [l \in DOMAIN xg.hash.executable |-> LineReport(l)],
           functions |-> [f \in xg.hash.functions |-> FunctionReport(f)]]

Init ==
    /\ info = [f \in Fn |-> Analysis(Code[f])]
    /\ stack = <<>> /\ exception = FALSE
    /\ functionCount = -1
    /\ compiled = {} /\ filterType = "none" /\ filtered = {}
    /\ on = FALSE /\ opts = [unused |-> FALSE, dead |-> FALSE, branch |-> FALSE]
    /\ sessions = 0 /\ resumed = FALSE
    /\ xg = Tables

Next ==
    \/ CompileScript \/ Include \/ RunScript \/ Step \/ Throw \/ InternalThrows \/ Catch
    \/ Call \/ Return \/ Unwind
    \/ Internal \/ StartCodeCoverage \/ StopCodeCoverage \/ SetFilter

Spec == Init /\ [][Next]_vars

-----------------------------------------------------------------------------
TypeOK ==
    /\ level <= MaxLevel /\ functionCount \in -1..MaxCalls
    /\ filtered \subseteq compiled /\ compiled \subseteq Fn
    /\ \A f \in Fn : xg.tracker[f] \in 0..xg.startId
    /\ xg.hash.functions \subseteq Fn
    /\ \A fp \in xg.hash.hit : fp[2] \in info[fp[1]].starts
    /\ \A i \in DOMAIN xg.last : xg.last[i] >= Junk

\* The tables were neither read before they were written nor carried over from
\* an earlier session.
Sound == ~xg.wild /\ ~resumed

\* With XDEBUG_CC_UNUSED, once a call has been covered the report has every
\* line of every function that is known then, whether it runs or not: no
\* order of starts, stops, compilations and calls hides a function.  Methods
\* are left out: their class is visited once, and after a clean-up only the
\* methods that run come back.
UnusedReported ==
    \A l \in 1..level : stack[l].whole =>
        \A f \in stack[l].known \ Methods : \A p \in Positions(Code[f]) :
            Executable(Kind(Code[f], p)) =>
                Code[f][p].line \in DOMAIN xg.hash.executable

\* The functions that have line l in a report.
OnLine(l) ==
    {f \in Fn : \E p \in Positions(Code[f]) :
                   Executable(Kind(Code[f], p)) /\ Code[f][p].line = l}

\* The parts of a report agree, although lines, branches and paths are counted
\* at different moments.  A line that has run is dead only if another function
\* has opcodes on it too, or if a finally block of its function can be entered
\* by exceptions alone, which the analysis does not see.  No branch that was
\* hit begins on a dead line; an out that was hit joins two branches that
\* were, and a path that was hit has only such branches.
ReportAgrees ==
    /\ \A l \in xg.hash.counted : xg.hash.executable[l] = 2 =>
          \/ \E f, h \in OnLine(l) : f # h
          \/ \E f \in OnLine(l) : ~(Finallys(Code[f]) \subseteq info[f].reached)
    /\ Sound => \A f \in DOMAIN Report.functions :
        LET branches == Report.functions[f].branches
            paths    == Report.functions[f].paths
        IN  /\ \A p \in DOMAIN branches :
                  /\ branches[p].hit /\ Executable(Kind(Code[f], p)) =>
                        Report.lines[Code[f][p].line] # -2
                  /\ branches[p].out_hit # {} => branches[p].hit
                  /\ \A q \in branches[p].out_hit : branches[q].hit
            /\ \A path \in DOMAIN paths : paths[path] =>
                  \A i \in 1..Len(path) : branches[path[i]].hit

\* An outs_hit mark joins two branches that one call has run one after the
\* other, although last_branch_nr is kept by level and the levels are reused
\* by every function.
EdgesTaken == Sound => xg.hash.outs_hit \subseteq xg.taken

\* Functions that call no user function: the key of visited_branches tells
\* their calls apart.  A branch that begins with a switch is never marked.
Leaf(f) ==
    /\ ~\E p \in Positions(Code[f]) : Kind(Code[f], p) = "call"
    /\ ~\E p \in info[f].starts : Kind(Code[f], p) = "switch"

\* For a leaf, the paths marked as hit are exactly those its calls followed,
\* of the calls that were covered from their start to their end.
LeafPathsExact ==
    \A f \in {g \in Fn : Leaf(g)} : Sound =>
        /\ \A path \in ToSet(info[f].paths) :
              <<f, path>> \in xg.whole => <<f, path>> \in xg.hash.paths_hit
        /\ \A path \in ToSet(info[f].paths) :
              <<f, path>> \in xg.hash.paths_hit => <<f, path>> \in xg.followed

\* While a call that is covered as a whole runs, the slot of its level holds
\* its own path: no inner call and no restart leaves another's, or a freed one.
SlotOfRunningCall ==
    \A l \in 1..level :
        stack[l].whole => l <= Len(xg.paths) /\ xg.paths[l].state = "live"
=============================================================================
