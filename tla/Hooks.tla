-------------------------------- MODULE Hooks --------------------------------
(***************************************************************************)
(* The hooks through which the extension follows a request: xdebug_execute *)
(* _ex and xdebug_execute_internal around every call, the exit handler, and *)
(* what starts and ends a request (xdebug.c, with the frames of             *)
(* xdebug_stack.c).  They feed the traces, the profile, the notes of        *)
(* Diagnostics, and the shared page that names the internal function in     *)
(* progress to the tracer of system calls.                                  *)
(*                                                                          *)
(* The engine runs any script its application allows: user functions call   *)
(* functions, internal functions that take a callback call user functions,  *)
(* and exit or a fatal error drops all calls at once (a bailout) and leaves *)
(* the extension's stack as it is until the request ends.                   *)
(***************************************************************************)
EXTENDS FunctionTrace, Profiler, Diagnostics, FiniteSets

CONSTANTS
    Apps,           \* the applications and their settings, see MCHooks
    Listed,         \* functions in the files the filter for traces names
    Callers,        \* the internal functions that call user functions
    Wide,           \* functions whose line is too long for its buffer
    MaxCalls,       \* bound on function_count
    MaxRequests     \* bound on the requests of a worker

VARIABLES
    phase,          \* "idle", "script", "shutdown" or "dead"
    request,        \* requests so far
    soapHeader,     \* the request carries the header SOAPACTION
    base,           \* length of the stack at the last bailout
    overrun,        \* history: a line has been written past its buffer
    xg              \* the globals of the extension

vars == <<phase, request, soapHeader, base, overrun, xg>>

NoPage == "none"

\* What PHP_RINIT_FUNCTION sets, or finds as post_deactivate left it.
Fresh(g) ==
    [g EXCEPT !.stack = <<>>, !.level = 0, !.function_count = -1, !.clock = 0,
              !.do_trace = FALSE, !.trace_context = None, !.filter_tracing = "none",
              !.profile_file = None, !.profiler_enabled = FALSE,
              !.do_collect_errors = FALSE, !.collected_errors = <<>>,
              !.do_monitor_functions = FALSE, !.functions_to_monitor = {},
              !.monitored_found = <<>>, !.gc_stats_enabled = FALSE, !.gc_stats_file = 0,
              !.traces = <<>>, !.profiles = <<>>, !.gc_reports = <<>>,
              !.enabled = FALSE]

\* The globals of a worker that serves app, as php_xdebug_init_globals leaves them.
\* The last four are history: the error callback that was last chosen, whether
\* the request has called xdebug_enable, whether that choice came inside a
\* SOAP call or such a call was dropped after it, and what the page may name of the calls
\* bailouts have dropped since it was last cleared.
Globals(app) ==
    [ini |-> app, stack |-> <<>>, level |-> 0, function_count |-> -1, clock |-> 0,
     do_trace |-> FALSE, trace_context |-> None, trace_handler |-> "textual",
     filter_tracing |-> "none", traces |-> <<>>,
     profile_file |-> None, profiler_enabled |-> FALSE, profiles |-> <<>>,
     error_cb |-> "engine", do_collect_errors |-> FALSE, collected_errors |-> <<>>,
     do_monitor_functions |-> FALSE, functions_to_monitor |-> {}, monitored_found |-> <<>>,
     gc_stats_enabled |-> FALSE, gc_stats_file |-> 0, gc_reports |-> <<>>,
     page |-> NoPage, crashed |-> FALSE,
     chosen |-> "engine", enabled |-> FALSE, lost |-> FALSE, dropped |-> {}]

Running == Len(xg.stack) > base
Top     == Last(xg.stack)

-----------------------------------------------------------------------------
(* Frames *)

\* xdebug_filter_run_tracing, with the filter of the moment the call begins.
Filtered(g, fn) == \/ g.filter_tracing = "white" /\ fn \notin Listed
                   \/ g.filter_tracing = "black" /\ fn \in Listed

\* Time passes with every call, for who measures it.
Tick(g) == IF g.ini.profiler_enable THEN [g EXCEPT !.clock = @ + 1] ELSE g

\* xdebug_add_stack_frame; the frame keeps what the hook saves in its own
\* variables: do_return, the error callback of a SOAP call, and whether a
\* collection that it runs will be reported.  nested is history: an internal
\* call inside this one has ended.
AddStackFrame(g, fn, internal, do_return) ==
    LET nr == g.function_count + 1
    IN  [Monitor(Tick(g), fn) EXCEPT
            !.level = @ + 1, !.function_count = nr,
            !.stack = Append(@,
                [fn |-> fn, internal |-> internal, nr |-> nr, level |-> g.level + 1,
                 filtered |-> Filtered(g, fn), do_return |-> do_return,
                 profile |-> NoProfile, error_cb |-> g.error_cb,
                 report |-> g.gc_stats_enabled, nested |-> FALSE])]

RemoveStackFrame(g) == [g EXCEPT !.stack = Front(@), !.level = @ - 1]

BeginProfile(g) == IF g.profiler_enabled THEN FunctionBegin(g, Len(g.stack)) ELSE g

EndProfile(g) == IF g.profiler_enabled THEN FunctionEnd(g, Len(g.stack)) ELSE g

\* Mutant of EndTrace: the exit is given the number of the latest call.
EndTraceLatest(g, returns) ==
    LET fse == [Last(g.stack) EXCEPT !.nr = g.function_count]
        h   == TraceLine(g, "exit", fse)
    IN  IF g.ini.collect_return /\ fse.do_return /\ returns
        THEN TraceLine(h, "return", fse) ELSE h

\* The lines for the end of a call: the value it returns is written only if
\* the call began under a trace, which need not be the one it ends under.
EndTrace(g, returns) ==
    LET fse == Last(g.stack)
        h   == TraceLine(g, "exit", fse)
    IN  IF g.ini.collect_return /\ fse.do_return /\ returns
        THEN TraceLine(h, "return", fse) ELSE h

-----------------------------------------------------------------------------
(* xdebug_execute_ex: a call of a user function *)

\* What the first call of a stack starts, if its file can be opened: a profile
\* unless there is one, a trace in any case, the statistics of collections.
LevelZero(g, opened) ==
    LET p == IF g.ini.profiler_enable /\ ~g.profiler_enabled THEN ProfilerInit(g, opened) ELSE g
        t == IF p.ini.auto_trace THEN StartTrace(p, p.ini.trace_options, opened) ELSE p
    IN  IF t.ini.gc_stats_enable /\ ~t.gc_stats_enabled THEN GcStatsInit(t, opened) ELSE t

EnterUser(g, fn, opened) ==
    LET do_return == g.do_trace /\ g.trace_context # None
        h == AddStackFrame(IF g.level = 0 THEN LevelZero(g, opened) ELSE g, fn, FALSE, do_return)
    IN  BeginProfile(TraceLine(h, "entry", Last(h.stack)))

LeaveUser(g, returns) == RemoveStackFrame(EndTrace(EndProfile(Tick(g)), returns))

-----------------------------------------------------------------------------
(* xdebug_execute_internal: a call of an internal function *)

\* check_soap_call
CheckSoapCall(fn) == fn \in {"SoapServer::handle", "SoapClient::call"}

\* The frame whose line update_shared_callstack writes for the frame i: the
\* innermost one that fits, or none (0).  It puts each line into tmp before it
\* compares lengths, so a line that does not fit has overrun tmp by then: this is
\* one outcome of that, the loop going on as it reads; the other is LineOverruns.
PageFrame(g, i) ==
    LET fits == {j \in 1..i : g.stack[j].fn \notin Wide}
    IN  IF fits = {} THEN 0 ELSE CHOOSE j \in fits : \A k \in fits : k <= j

UpdateSharedCallstack(g) ==
    LET i == PageFrame(g, Len(g.stack))
    IN  IF i = 0 THEN g ELSE [g EXCEPT !.page = g.stack[i].fn]

\* An internal call has begun, up to the write of the shared page.
BeginInternal(g, fn) ==
    LET h == AddStackFrame(g, fn, TRUE, g.do_trace /\ g.trace_context # None)
        e == TraceLine(h, "entry", Last(h.stack))
        s == IF CheckSoapCall(fn) THEN [e EXCEPT !.error_cb = "engine"] ELSE e
    IN  BeginProfile(s)

EnterInternal(g, fn) == UpdateSharedCallstack(BeginInternal(g, fn))

\* The line of an internal call is the first that is written for it.
WriteLine(fn) == overrun' = (overrun \/ fn \in Wide)

\* Mutant of SoapRestored: the callback of the engine stays.
SoapKept(g) == g

\* The error callback after a SOAP call is the one from before it.
SoapRestored(g) ==
    IF CheckSoapCall(Last(g.stack).fn) THEN [g EXCEPT !.error_cb = Last(g.stack).error_cb]
    ELSE g

\* Mutant of PageCleared: the caller's line is written back, as if it ran.
PageCallers(g) == UpdateSharedCallstack(g)

\* memset of the shared page, at the end of every internal call.
PageCleared(g) ==
    [g EXCEPT !.page = NoPage, !.dropped = {},
              !.stack = [i \in DOMAIN @ |-> [@[i] EXCEPT !.nested = TRUE]]]

LeaveInternal(g, returns) ==
    PageCleared(RemoveStackFrame(EndTrace(SoapRestored(EndProfile(Tick(g))), returns)))

InSoapCall(g) == \E i \in base + 1..Len(g.stack) : CheckSoapCall(g.stack[i].fn)

Choose(g, cb) ==
    [SetErrorCb(g, cb) EXCEPT !.enabled = @ \/ cb = "xdebug", !.lost = InSoapCall(g)]

\* What the internal function fn may do to the globals.
Outcomes(g, fn) ==
    CASE fn = "xdebug_start_trace" ->
            {StartTraceFunction(g, o, opened) : o \in {{}, {"html"}, {"computerized"}},
                                                opened \in BOOLEAN}
      [] fn = "xdebug_stop_trace" -> {StopTraceFunction(g)}
      [] fn = "xdebug_get_tracefile_name" -> {GetTracefileName(g)}
      [] fn = "xdebug_set_filter" ->
            {[g EXCEPT !.filter_tracing = t] : t \in {"none", "white", "black"}}
      [] fn = "pcntl_exec" -> {IF g.profiler_enabled THEN ProfilerDeinit(g) ELSE g}
      [] fn = "xdebug_enable" -> {Choose(g, "xdebug")}
      [] fn = "xdebug_disable" -> {Choose(g, "engine")}
      [] fn = "xdebug_error_collection" -> {CollectErrors(g, on) : on \in BOOLEAN}
      [] fn = "xdebug_get_collected_errors" -> {GetCollectedErrors(g, c) : c \in BOOLEAN}
      [] fn = "xdebug_start_function_monitor" ->
            {StartFunctionMonitor(g, names) : names \in {{}, g.ini.users}}
      [] fn = "xdebug_stop_function_monitor" -> {StopFunctionMonitor(g)}
      [] fn = "xdebug_get_monitored_functions" ->
            {GetMonitoredFunctions(g, c) : c \in BOOLEAN}
      [] fn = "xdebug_start_gcstats" -> {StartGcStats(g, opened) : opened \in BOOLEAN}
      [] fn = "xdebug_stop_gcstats" -> {StopGcStats(g)}
      [] OTHER -> {g}

-----------------------------------------------------------------------------
(* A request *)

\* What the engine ensures of the names of functions, and the ini settings of
\* the format of traces.
ASSUME HooksAssumption ==
    /\ Main # "trigger_error" /\ ~CheckSoapCall(Main)
    /\ \A app \in Apps : /\ app.trace_format \in DOMAIN TraceHandlers
                         /\ Main \notin app.users \cup app.internals
                         /\ \A fn \in app.users : ~CheckSoapCall(fn)

\* PHP_RINIT_FUNCTION: a SOAP header is a reason not to set the callback.
RInit(g, soap) ==
    IF g.ini.default_enable /\ ~soap
    THEN [SetErrorCb(Fresh(g), "xdebug") EXCEPT !.lost = FALSE] ELSE Fresh(g)

StartRequest ==
    /\ phase = "idle" /\ request < MaxRequests
    /\ phase' = "script" /\ request' = request + 1 /\ base' = 0 /\ UNCHANGED overrun
    /\ soapHeader' \in (IF xg.ini.soap THEN BOOLEAN ELSE {FALSE})
    /\ xg' = RInit(xg, soapHeader')

\* Who may call next: nothing runs yet, or the top frame does, and it is not
\* unwound for a nesting that is too deep.
MayCall(internal) ==
    /\ xg.function_count < MaxCalls
    /\ Running /\ Top.level <= xg.ini.max_nesting_level
    /\ Top.internal => Top.fn \in Callers /\ ~internal

CallUser ==
    /\ \/ MayCall(FALSE)
       \/ phase = "shutdown" /\ ~Running /\ xg.function_count < MaxCalls
    /\ \E fn \in xg.ini.users, opened \in BOOLEAN : xg' = EnterUser(xg, fn, opened)
    /\ UNCHANGED <<phase, request, soapHeader, base, overrun>>

RunScript ==
    /\ phase = "script" /\ xg.function_count < 0
    /\ \E opened \in BOOLEAN : xg' = EnterUser(xg, Main, opened)
    /\ UNCHANGED <<phase, request, soapHeader, base, overrun>>

ReturnUser ==
    /\ Running /\ ~Top.internal
    /\ \E returns \in BOOLEAN : xg' = LeaveUser(xg, returns)
    /\ phase' = IF Top.fn = Main THEN "shutdown" ELSE phase
    /\ UNCHANGED <<request, soapHeader, base, overrun>>

\* An internal function that calls no user function.
CallInternal ==
    /\ MayCall(TRUE)
    /\ \E fn \in xg.ini.internals \ Callers, returns \in BOOLEAN :
          /\ WriteLine(fn)
          /\ \E g \in Outcomes(EnterInternal(xg, fn), fn) :
                xg' = IF g.crashed THEN g ELSE LeaveInternal(g, returns)
    /\ phase' = IF xg'.crashed THEN "dead" ELSE phase
    /\ UNCHANGED <<request, soapHeader, base>>

\* One that does, as gc_collect_cycles through destructors.
CallCaller ==
    /\ MayCall(TRUE)
    /\ \E fn \in xg.ini.internals \cap Callers : WriteLine(fn) /\ xg' = EnterInternal(xg, fn)
    /\ UNCHANGED <<phase, request, soapHeader, base>>

\* xdebug_gc_collect_cycles, after the collection of the engine.
Collected(g) == IF Top.fn = "gc_collect_cycles" /\ Top.report THEN PrintRun(g) ELSE g

ReturnCaller ==
    /\ Running /\ Top.internal
    /\ \E returns \in BOOLEAN :
          xg' = LET g == Collected(xg) IN IF g.crashed THEN g ELSE LeaveInternal(g, returns)
    /\ phase' = IF xg'.crashed THEN "dead" ELSE phase
    /\ UNCHANGED <<request, soapHeader, base, overrun>>

\* All calls in progress are dropped; no hook runs.
Drop(g) ==
    LET inner == {i \in base + 1..Len(g.stack) : g.stack[i].internal /\ PageFrame(g, i) # 0}
    IN  /\ xg' = [g EXCEPT !.lost = @ \/ InSoapCall(g),
                           !.dropped = @ \cup {g.stack[PageFrame(g, i)].fn : i \in inner}]
        /\ base' = Len(g.stack)
        /\ UNCHANGED <<request, soapHeader>>

\* The engine drops them and goes on to what is registered for the end.
Bailout(g) == Drop(g) /\ phase' = "shutdown"

\* xdebug_exit_handler
ExitHandler(g) == IF g.profiler_enabled THEN ProfilerDeinit(g) ELSE g

Exit == Running /\ ~Top.internal /\ Bailout(ExitHandler(Tick(xg))) /\ UNCHANGED overrun

\* An error in an internal function that is called, or in what runs.
RaiseError ==
    /\ MayCall(TRUE) /\ WriteLine("trigger_error")
    /\ \E type \in xg.ini.errors :
          LET g == ErrorCb(EnterInternal(xg, "trigger_error"), type)
          IN  IF Bails(g, type) THEN Bailout(g)
              ELSE /\ xg' = LeaveInternal(g, TRUE)
                   /\ UNCHANGED <<phase, request, soapHeader, base>>

\* The internal functions that the application calls.
Internals(app) == app.internals \cup IF app.errors = {} THEN {} ELSE {"trigger_error"}

\* The process dies where sprintf writes a line past the end of tmp.
LineOverruns ==
    /\ MayCall(TRUE)
    /\ \E fn \in Internals(xg.ini) \cap Wide :
          WriteLine(fn) /\ Drop(BeginInternal(xg, fn))
    /\ phase' = "dead"

\* Mutant of PostDeactivate: a trace that is on is forgotten.
PostDeactivateTraceOn(g) ==
    LET c == IF g.gc_stats_enabled THEN StopGcStats(g) ELSE g
    IN  [c EXCEPT !.stack = <<>>, !.level = 0, !.do_trace = FALSE,
                  !.profile_file = 0, !.profiler_enabled = FALSE]

\* ZEND_MODULE_POST_ZEND_DEACTIVATE: what is on is stopped, and the stack goes.
PostDeactivate(g) ==
    LET t == IF g.do_trace /\ g.trace_context # None THEN StopTrace(g) ELSE g
        c == IF t.gc_stats_enabled THEN StopGcStats(t) ELSE t
    IN  [c EXCEPT !.stack = <<>>, !.level = 0, !.do_trace = FALSE,
                  !.profile_file = 0, !.profiler_enabled = FALSE]

EndRequest ==
    /\ phase = "shutdown" /\ ~Running
    /\ xg' = PostDeactivate(xg)
    /\ phase' = "idle" /\ base' = 0
    /\ UNCHANGED <<request, soapHeader, overrun>>

Init ==
    /\ phase = "idle" /\ request = 0 /\ soapHeader = FALSE /\ base = 0
    /\ overrun = FALSE
    /\ \E app \in Apps : xg = Globals(app)

Next ==
    \/ StartRequest \/ RunScript \/ CallUser \/ ReturnUser
    \/ CallInternal \/ CallCaller \/ ReturnCaller
    \/ Exit \/ RaiseError \/ LineOverruns \/ EndRequest

Spec == Init /\ [][Next]_vars

-----------------------------------------------------------------------------
TypeOK ==
    /\ phase \in {"idle", "script", "shutdown", "dead"}
    /\ request \in 0..MaxRequests /\ soapHeader \in BOOLEAN /\ overrun \in BOOLEAN
    /\ base \in 0..Len(xg.stack)
    /\ xg.function_count \in -1..MaxCalls /\ xg.level = Len(xg.stack)
    /\ xg.error_cb \in {"xdebug", "engine"}
    /\ xg.trace_context \in 0..Len(xg.traces)
    /\ xg.profile_file \in 0..Len(xg.profiles)
    /\ xg.gc_stats_file \in 0..Len(xg.gc_reports)

\* The entries and exits of a computerized trace nest, whatever is filtered and
\* wherever traces start and stop; an exit without an entry is of a call that
\* was in progress when the trace began.
TraceNested ==
    \A i \in DOMAIN xg.traces :
        xg.traces[i].format = "computerized" => Nested(xg.traces[i])

\* When a request is over each of its traces has its footer, and a trace whose
\* place another one took while it was on lost it to an automatic start.
TracesClosed ==
    \A i \in DOMAIN xg.traces :
        /\ phase = "idle" => xg.traces[i].footer \/ xg.traces[i].replaced
        /\ xg.traces[i].replaced => xg.ini.auto_trace

\* Stops, restarts and files that cannot be opened leave no missing file or
\* context to be used, except one: a trace whose automatic restart has failed
\* counts as on.
CrashOnlyAfterRestart ==
    xg.crashed => xg.ini.auto_trace /\ xg.do_trace /\ xg.trace_context = None

\* A profile adds up: when it has its summary, the own costs of the calls in it
\* sum to the cost of the script, and no call has ended twice, whether the
\* script returned, called exit inside other calls, or went on after pcntl_exec.
ProfileAdds ==
    \A i \in DOMAIN xg.profiles :
        LET profile == xg.profiles[i]
        IN  profile.summary # Unset =>
                /\ Spent(profile.lines) = profile.summary
                /\ \A k, l \in DOMAIN profile.lines :
                      profile.lines[k].nr = profile.lines[l].nr => k = l

\* Outside SOAP calls the error callback is the one that the start of the
\* request, xdebug_enable or xdebug_disable chose last, also when SOAP calls
\* were nested and user code ran in them; except when the choice was made in
\* a SOAP call, or a bailout left one.
HandlerRestored == ~InSoapCall(xg) /\ ~xg.lost => xg.error_cb = xg.chosen

\* As long as no line has overrun its buffer, the shared page names an internal
\* call in progress, or one that a bailout dropped; and it does name the innermost
\* internal call until an internal call inside it has ended.  Nothing is said of
\* the page after an overrun, which may have put anything there.
PageNamesCall ==
    LET internals == {i \in base + 1..Len(xg.stack) : xg.stack[i].internal}
        named(i)  == xg.page = xg.stack[i].fn
    IN  ~overrun =>
            /\ xg.page \in {NoPage} \cup xg.dropped \/ \E i \in internals : named(i)
            /\ \A i \in internals :
                  (\A j \in internals : j <= i) =>
                  \/ named(i)
                  \/ xg.stack[i].nested /\ xg.page = NoPage
=============================================================================
