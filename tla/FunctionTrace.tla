---------------------------- MODULE FunctionTrace ----------------------------
(***************************************************************************)
(* Function traces (xdebug_tracing.c and the three xdebug_trace_*.c): what *)
(* each format writes for a call, and how traces are started and stopped.  *)
(* g is the record of the extension's globals, XG, that Hooks declares; a  *)
(* trace is the file a context writes, and no context is 0.                *)
(***************************************************************************)
EXTENDS Integers, Sequences, SequencesExt

None == 0

\* The lines of each format, of those Hooks asks for: the handlers in
\* xdebug_trace_handler_textual, _computerized and _html that are not NULL.
Textual       == {"entry", "return"}
Computerized  == {"entry", "exit", "return"}
Html          == {"entry"}
TraceHandlers == [textual |-> Textual, computerized |-> Computerized, html |-> Html]

\* xdebug_select_trace_handler: an option of the call goes before the ini
\* setting, and HTML before the computerized format.
SelectTraceHandler(ini, options) ==
    IF "html" \in options THEN "html"
    ELSE IF "computerized" \in options THEN "computerized" ELSE ini

\* A file that has just been opened: the calls in progress that it has no
\* entry of are known as history, and whether another trace took its place.
NewTrace(g, format) ==
    [format |-> format, lines |-> <<>>, footer |-> FALSE, replaced |-> FALSE,
     running |-> {g.stack[i].nr : i \in DOMAIN g.stack}]

\* xdebug_start_trace of the C code.  It does not ask whether a trace is on:
\* the context it replaces is neither closed nor freed.
StartTrace(g, options, opened) ==
    LET format == SelectTraceHandler(g.ini.trace_format, options)
        old == IF g.trace_context = None THEN g.traces
               ELSE [g.traces EXCEPT ![g.trace_context].replaced = TRUE]
    IN  IF opened
        THEN [g EXCEPT !.trace_handler = format, !.do_trace = TRUE,
                       !.traces = Append(old, NewTrace(g, format)),
                       !.trace_context = Len(old) + 1]
        ELSE [g EXCEPT !.trace_handler = format, !.traces = old, !.trace_context = None]

\* xdebug_stop_trace of the C code.
StopTrace(g) ==
    [g EXCEPT !.do_trace = FALSE, !.trace_context = None,
              !.traces = IF g.trace_context = None THEN @
                         ELSE [@ EXCEPT ![g.trace_context].footer = TRUE]]

\* PHP_FUNCTION(xdebug_start_trace): refused while a trace is on.
StartTraceFunction(g, options, opened) ==
    IF g.do_trace THEN g
    ELSE LET h == StartTrace(g, options, opened)
         IN  [h EXCEPT !.do_trace = opened]

\* PHP_FUNCTION(xdebug_stop_trace): it asks the context for its file name.
StopTraceFunction(g) ==
    IF ~g.do_trace THEN g
    ELSE IF g.trace_context = None THEN [g EXCEPT !.crashed = TRUE]
    ELSE StopTrace(g)

\* PHP_FUNCTION(xdebug_get_tracefile_name)
GetTracefileName(g) ==
    IF g.do_trace /\ g.trace_context = None THEN [g EXCEPT !.crashed = TRUE] ELSE g

\* A line of the call in the frame fse, where the hooks write one: not for a
\* frame that is filtered, nor in a format that has no such line.
TraceLine(g, kind, fse) ==
    IF fse.filtered \/ ~g.do_trace \/ g.trace_context = None
         \/ kind \notin TraceHandlers[g.trace_handler]
    THEN g
    ELSE [g EXCEPT !.traces[g.trace_context].lines =
                      Append(@, [kind |-> kind, nr |-> fse.nr, level |-> fse.level])]

-----------------------------------------------------------------------------
(* What a reader makes of a file *)

\* The entries among the first n lines of a trace whose calls have no exit there.
OpenCalls(trace, n) ==
    {i \in 1..n : /\ trace.lines[i].kind = "entry"
                  /\ \A k \in i..n : trace.lines[k].kind = "exit"
                                         => trace.lines[k].nr # trace.lines[i].nr}

\* A trace nests: every entry is deeper than the calls that are open, and every
\* exit is of the innermost of them; an exit with nothing open must be of a call
\* that was running when the trace began.
Nested(trace) ==
    \A n \in 1..Len(trace.lines) :
        LET line == trace.lines[n]
            open == OpenCalls(trace, n - 1)
        IN  /\ line.kind = "entry" => \A i \in open : trace.lines[i].level < line.level
            /\ line.kind = "exit" =>
                  \/ open = {} /\ line.nr \in trace.running
                  \/ \E i \in open : /\ trace.lines[i].nr = line.nr
                                     /\ \A j \in open : j <= i
=============================================================================
