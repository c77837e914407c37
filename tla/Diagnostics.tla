----------------------------- MODULE Diagnostics -----------------------------
(***************************************************************************)
(* What the extension notes beside traces and profiles: errors             *)
(* (xdebug_stack.c), calls of monitored functions (xdebug_monitor.c) and   *)
(* garbage collections (xdebug_gc_stats.c).  g is the record of the        *)
(* extension's globals that Hooks declares; no file is 0.                  *)
(***************************************************************************)
EXTENDS Integers, Sequences

\* The types of errors that end the request: E_ERROR and its like, and
\* E_RECOVERABLE_ERROR, which counts as one but is collected like a warning.
Fatal == {"error", "recoverable"}

\* xdebug_error_cb, without the debugger: while errors are collected they are
\* kept, except those of type "error" that are shown at once.
XdebugErrorCb(g, type) ==
    IF g.do_collect_errors /\ ~(g.ini.display_errors /\ type = "error")
    THEN [g EXCEPT !.collected_errors = Append(@, type)] ELSE g

\* The error callback that is set.
ErrorCb(g, type) == IF g.error_cb = "xdebug" THEN XdebugErrorCb(g, type) ELSE g

\* Whether the error ends the request: xdebug.halt_level is xdebug's own.
Bails(g, type) == type \in Fatal \/ (g.error_cb = "xdebug" /\ type \in g.ini.halt_level)

\* PHP_FUNCTION(xdebug_enable) and PHP_FUNCTION(xdebug_disable)
SetErrorCb(g, cb) == [g EXCEPT !.error_cb = cb, !.chosen = cb]

\* xdebug_start_error_collection, xdebug_stop_error_collection: to start or to
\* stop twice is a notice.
CollectErrors(g, on) ==
    [(IF g.do_collect_errors = on THEN ErrorCb(g, "notice") ELSE g)
        EXCEPT !.do_collect_errors = on]

\* xdebug_get_collected_errors
GetCollectedErrors(g, clear) == IF clear THEN [g EXCEPT !.collected_errors = <<>>] ELSE g

\* xdebug_start_function_monitor, xdebug_stop_function_monitor: a new list
\* takes the place of the old one, and what was found stays.
StartFunctionMonitor(g, names) ==
    [(IF g.do_monitor_functions THEN ErrorCb(g, "notice") ELSE g)
        EXCEPT !.do_monitor_functions = TRUE, !.functions_to_monitor = names]

StopFunctionMonitor(g) ==
    [(IF g.do_monitor_functions THEN g ELSE ErrorCb(g, "notice"))
        EXCEPT !.do_monitor_functions = FALSE]

\* xdebug_get_monitored_functions
GetMonitoredFunctions(g, clear) == IF clear THEN [g EXCEPT !.monitored_found = <<>>] ELSE g

\* The part of xdebug_add_stack_frame that records a monitored call.
Monitor(g, name) ==
    IF g.do_monitor_functions /\ name \in g.functions_to_monitor
    THEN [g EXCEPT !.monitored_found = Append(@, name)] ELSE g

\* xdebug_gc_stats_init, when the file could be opened or not.
GcStatsInit(g, opened) ==
    IF opened THEN [g EXCEPT !.gc_reports = Append(@, 0), !.gc_stats_file = Len(g.gc_reports) + 1,
                             !.gc_stats_enabled = TRUE]
    ELSE [g EXCEPT !.gc_stats_file = 0, !.gc_stats_enabled = FALSE]

\* PHP_FUNCTION(xdebug_start_gcstats)
StartGcStats(g, opened) == IF g.gc_stats_enabled THEN g ELSE GcStatsInit(g, opened)

\* xdebug_gc_stats_stop and PHP_FUNCTION(xdebug_stop_gcstats)
StopGcStats(g) == [g EXCEPT !.gc_stats_enabled = FALSE, !.gc_stats_file = 0]

\* Mutant of PrintRun: the file is taken to be there.
PrintRunUnchecked(g) ==
    IF g.gc_stats_file = 0 THEN [g EXCEPT !.crashed = TRUE]
    ELSE [g EXCEPT !.gc_reports[g.gc_stats_file] = @ + 1]

\* xdebug_gc_stats_print_run, after a collection that began while the
\* statistics were on: destructors may have stopped them meanwhile.
PrintRun(g) ==
    IF g.gc_stats_file = 0 THEN g ELSE [g EXCEPT !.gc_reports[g.gc_stats_file] = @ + 1]
=============================================================================
