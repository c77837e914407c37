------------------------------- MODULE Debugger -------------------------------
(***************************************************************************)
(* A debugging session (xdebug_handler_dbgp.c, with its callers in         *)
(* xdebug.c and xdebug_stack.c).  The script connects to an IDE at its     *)
(* first call or, in the mode "jit", when something goes wrong.  From then *)
(* on a hook of the extension may stop the script: it reports the break and *)
(* reads commands until one of them lets the script go on.                 *)
(*                                                                          *)
(* todo is what the C functions in progress have still to do, innermost    *)
(* first; the script goes on when it is empty.  A loop of commands on it    *)
(* waits for the IDE.                                                       *)
(***************************************************************************)
EXTENDS Breakpoints, Variables, FiniteSets, TLC

CONSTANTS
    Apps,           \* the scripts and what their IDE may send, see MCDebugger; with
                    \* MaxStatements, MaxCalls and MaxCommands, the bounds on the
                    \* statements that run, throw or raise an error, on the calls and
                    \* on the commands of the IDE
    Methods,        \* which functions are methods
    Internals,      \* which functions are internal
    Callers         \* the internal functions that call user functions

\* The types of breakpoints there are, and what may be updated of one; the
\* options, numbers that strtol reads, as are pages; and that the children of a
\* value are in an order.
ASSUME AppsAssumption ==
    \A app \in Apps :
        /\ \A o \in app.options : o.type \in {"line", "call", "return", "exception"}
        /\ \A u \in app.updates :
              u.field \in {"disabled", "lineno", "hit_value", "hit_condition"}
        /\ \A f \in app.features : f.feature \in {"max_children", "max_depth"} /\ f.value \in Int
        /\ (\A q \in app.queries : q.page \in Int) /\ app.pages \subseteq Int
        /\ \A class \in DOMAIN app.statics :
              app.statics[class] \in Seq(Range(app.statics[class]))
        /\ \A id \in DOMAIN app.heap :
              LET value == app.heap[id]
              IN  /\ value.kind \in {"array", "object"} /\ value.items \in Seq(Range(value.items))
                  /\ value.kind = "object" => value.class \in DOMAIN app.statics

VARIABLES
    phase,          \* "idle", "script", "shutdown" or "over"
    base,           \* length of the stack at the last bailout
    x               \* the globals of the extension, and todo

vars == <<phase, base, x>>

Main == "{main}"

Loop(bail) == [do |-> "loop", bail |-> bail]

\* What the script was last told to do, until it stops: the frames in progress at
\* the time, and the innermost of them.  It is history.
NoStep == [kind |-> "none", frames |-> {}, at |-> 0]

\* The start of a request.  From commands on it is history: the commands of the
\* IDE, with their session and the number of answers; the sessions so far, the
\* connections that are open, and whether the IDE is still there; whether it
\* has detached, and whether it did so before the script ran.
Globals(app) ==
    [ini |-> app, stack |-> <<>>, function_count |-> 0, statements |-> 0, todo |-> <<>>,
     remote_enabled |-> FALSE, status |-> "none", lasttransid |-> 0, freed |-> FALSE,
     do_break |-> FALSE, do_step |-> FALSE, do_next |-> FALSE, do_finish |-> FALSE,
     next_level |-> 0, finish_level |-> 0, finish_func_nr |-> 0,
     breakpoint_count |-> 0, crashed |-> FALSE,
     commands |-> <<>>, sessions |-> 0, sockets |-> {}, connected |-> FALSE,
     detached |-> FALSE, early |-> FALSE, step |-> NoStep,
     options |-> Options, active |-> Inactive, answer |-> NoAnswer, seen |-> {},
     breakpoint_list |-> <<>>, line_breakpoints |-> <<>>, function_breakpoints |-> <<>>,
     exception_breakpoints |-> <<>>, shared |-> {}]

Running == Len(x.stack) > base
Top     == Last(x.stack)
Going   == x.todo = <<>> /\ ~x.crashed
AtLoop  == x.todo # <<>> /\ Head(x.todo).do = "loop" /\ ~x.crashed

Begin(g, items) == [g EXCEPT !.todo = items \o @]
Done(g)         == [g EXCEPT !.todo = Tail(@)]

-----------------------------------------------------------------------------
(* Messages *)

\* A response with the transaction id t, if there is one, to an IDE that is
\* still there.
Respond(g, t) ==
    IF t # 0 /\ g.connected THEN [g EXCEPT !.commands[t].answers = @ + 1] ELSE g

\* xdebug_dbgp_init, up to the loop that it ends with.
DbgpInit(g) ==
    Begin([NoBreakpoints(g) EXCEPT
              !.status = "starting", !.lasttransid = 0, !.remote_enabled = FALSE,
              !.freed = FALSE, !.sessions = @ + 1, !.sockets = @ \cup {g.sessions + 1},
              !.connected = TRUE, !.detached = FALSE, !.early = FALSE, !.step = NoStep,
              !.options = Options, !.answer = NoAnswer, !.seen = {}],
          <<Loop(TRUE), [do |-> "enabled"]>>)

\* What xdebug_create_socket gives for an address that has no connection in time.
SocketError == [socket |-> -1, refused |-> -1, access |-> -3, timeout |-> -2, hangup |-> -1]

\* And for all addresses of the host: a socket for the first that has one, or the
\* error of the last; the sockets of the others are closed.
CreateSocket(outcomes) ==
    IF "connected" \in Range(outcomes) THEN 0 ELSE SocketError[Last(outcomes)]

\* xdebug_init_debugger
InitDebugger(g) ==
    {IF CreateSocket(outcomes) >= 0 THEN DbgpInit(g) ELSE g :
        outcomes \in [1..g.ini.addresses -> DOMAIN SocketError \cup {"connected"}]}

\* xdebug_do_jit
DoJit(g) == IF ~g.remote_enabled /\ g.ini.mode = "jit" THEN InitDebugger(g) ELSE {g}

\* xdebug_dbgp_breakpoint
Break(g) ==
    Begin([Respond(g, g.lasttransid) EXCEPT !.status = "break", !.lasttransid = 0,
                                            !.step = NoStep, !.answer = NoAnswer, !.seen = {}],
          <<Loop(TRUE)>>)

\* xdebug_dbgp_deinit, up to its loop.
Deinit(g) ==
    IF g.remote_enabled
    THEN Begin([Respond(g, g.lasttransid) EXCEPT !.status = "stopping"],
               <<Loop(FALSE), [do |-> "deinit"]>>)
    ELSE g

\* The rest of it: the tables are freed once.
Deinitialized(g) == [g EXCEPT !.freed = @ \/ g.remote_enabled, !.remote_enabled = FALSE]

-----------------------------------------------------------------------------
(* Commands *)

Continuing  == {"run", "step_into", "step_over", "step_out"}
Ending      == {"stop", "detach"}
Unknown     == {"interrupt"}
Asking      == {"property_get", "property_value", "property_set", "context_get"}
PostMortem  == {"breakpoint_list", "status", "stop"}

\* The loop of commands ends, and so does the script if it is to stop.
LeaveLoop(g) ==
    IF Head(g.todo).bail /\ g.status = "stopped" THEN [g EXCEPT !.todo = <<[do |-> "bail"]>>]
    ELSE Done(g)

Stepping(g, name) ==
    [g EXCEPT !.step = [kind |-> name, frames |-> {g.stack[i].nr : i \in DOMAIN g.stack},
                        at |-> IF g.stack = <<>> THEN 0 ELSE Last(g.stack).nr]]

\* Mutant of StepOut: any call at the level ends it, also the one to leave.
StepOutAnyCall(g) ==
    [g EXCEPT !.do_next = FALSE, !.do_step = FALSE, !.do_finish = TRUE,
              !.finish_level = Len(g.stack), !.finish_func_nr = 0]

StepOut(g) ==
    [g EXCEPT !.do_next = FALSE, !.do_step = FALSE, !.do_finish = TRUE,
              !.finish_level = IF g.stack = <<>> THEN -1 ELSE Len(g.stack),
              !.finish_func_nr = IF g.stack = <<>> THEN -1 ELSE Last(g.stack).nr]

\* DBGP_FUNC(run), (step_into), (step_over) and (step_out); run leaves the
\* flags of an earlier step.
Continue(g, name) ==
    CASE name = "run" -> g
      [] name = "step_into" ->
            [g EXCEPT !.do_next = FALSE, !.do_step = TRUE, !.do_finish = FALSE]
      [] name = "step_over" ->
            [g EXCEPT !.do_next = TRUE, !.do_step = FALSE, !.do_finish = FALSE,
                      !.next_level = Len(g.stack)]
      [] name = "step_out" -> StepOut(g)

\* What the IDE asks for: what its user names, and all that the last answer has
\* shown, a page of it.
Queries(g) ==
    g.ini.queries \cup
    {[name |-> n.fullname, depth |-> g.answer.depth, context |-> g.answer.context, page |-> p] :
        n \in g.answer.nodes, p \in g.ini.pages}

\* What DBGP_FUNC of the command does to the breakpoints, and to what is asked
\* about the variables.
Handled(g, name) ==
    CASE name = "breakpoint_set" -> {BreakpointSet(g, o) : o \in g.ini.options}
      [] name = "breakpoint_remove" ->
            {BreakpointRemove(g, id) : id \in DOMAIN g.breakpoint_list}
      [] name = "breakpoint_update" ->
            {BreakpointUpdate(g, id, u) : id \in DOMAIN g.breakpoint_list, u \in g.ini.updates}
      [] name = "breakpoint_get" -> {BreakpointGet(g, id) : id \in DOMAIN g.breakpoint_list}
      [] name = "breakpoint_list" -> {BreakpointList(g)}
      [] name = "feature_set" -> {FeatureSet(g, f) : f \in g.ini.features}
      [] name = "property_get" -> UNION {PropertyGet(g, q, base) : q \in Queries(g)}
      [] name = "property_value" -> UNION {PropertyValue(g, q, base) : q \in Queries(g)}
      [] name = "property_set" -> UNION {PropertySet(g, q, base) : q \in Queries(g)}
      [] name = "context_get" -> UNION {ContextGet(g, q, base) : q \in g.ini.queries}
      [] OTHER -> {g}

\* Mutant of Answered: the loop answers whatever was asked.
AnsweredAlways(name) == TRUE

\* Whether the loop answers a command that was handled, or leaves that to the
\* next break.
Answered(name) == name \notin Continuing

\* A round of xdebug_dbgp_cmdloop with xdebug_dbgp_parse_option, for the command
\* with the transaction id t.
ParseOption(g, name, t) ==
    LET k == [g EXCEPT !.lasttransid = t,
                       !.status = IF name \in Continuing \cup Ending THEN "running" ELSE @,
                       !.answer = IF name \in Asking THEN @ ELSE NoAnswer,
                       !.seen = IF name = "property_get" THEN @ ELSE {}]
        answer(h) == IF Answered(name) THEN Respond(h, t) ELSE h
    IN  CASE name \in Unknown -> {LeaveLoop(Respond(g, t))}
          [] name \notin Unknown /\ k.status = "stopping" /\ name \notin PostMortem ->
                {LeaveLoop(Respond(k, t))}
          [] name \in Continuing ->
                {LeaveLoop(answer(Stepping(Continue(k, name), name)))}
          [] name = "stop" -> {LeaveLoop(answer([k EXCEPT !.status = "stopped"]))}
          [] name = "detach" ->
                {Deinit(Begin([k EXCEPT !.status = "detached"], <<[do |-> "detached", id |-> t]>>))}
          [] OTHER -> {answer(h) : h \in Handled(k, name)}

\* After the end of the session, the rest of detach, and of the loop it was read
\* in: early, if that is the first one.
Detached(g, t) ==
    LET h == Respond([g EXCEPT !.remote_enabled = FALSE, !.detached = TRUE], t)
    IN  LeaveLoop([h EXCEPT !.early = Len(h.todo) > 1 /\ h.todo[2].do = "enabled"])

-----------------------------------------------------------------------------
(* Breakpoints *)

\* handle_breakpoints, for the frame on top.
HandleBreakpoints(g, type) ==
    LET fn   == Last(g.stack).fn
        brk  == g.function_breakpoints[fn]
        h    == [g EXCEPT !.function_breakpoints[fn] = Stopping(Hit(@))]
        here == fn \notin Methods /\ (fn \in Internals \/ type = "return")
    IN  IF ~g.remote_enabled \/ fn \notin DOMAIN g.function_breakpoints THEN g
        ELSE IF brk.disabled \/ brk.type # type THEN g
        ELSE IF ~Breaks(Hit(brk)) THEN h
        ELSE IF here THEN Break(h) ELSE [h EXCEPT !.do_break = TRUE]

\* An exception breakpoint of one of the names, in the order of the search;
\* whether it is disabled is not asked.
ExceptionHit(g, names) ==
    LET found == SelectSeq(names, LAMBDA n : n \in DOMAIN g.exception_breakpoints)
        h     == [g EXCEPT !.exception_breakpoints[found[1]] = Stopping(Hit(@))]
    IN  IF ~g.remote_enabled \/ found = <<>> THEN g
        ELSE IF Breaks(h.exception_breakpoints[found[1]]) THEN Break(h) ELSE h

\* The list of line breakpoints in the statement.
LineBreak(g, line, holds) ==
    LET r == LineHits(g.line_breakpoints, line, holds)
        h == [g EXCEPT !.line_breakpoints = r.brks]
    IN  IF r.broke # 0 THEN Break(h) ELSE h

\* xdebug_statement_call from "Get latest stack level" on; a break before it may
\* have freed the list of the breakpoints.
Checks(g, line) ==
    LET level   == Len(g.stack)
        func_nr == Last(g.stack).nr
        finish  == g.do_finish /\ \/ level < g.finish_level
                                  \/ level = g.finish_level /\ func_nr > g.finish_func_nr
        next    == g.do_next /\ g.next_level >= level
    IN  (IF g.freed THEN {[g EXCEPT !.crashed = TRUE]} ELSE {}) \cup
        (IF finish THEN {Break([g EXCEPT !.do_finish = FALSE])}
         ELSE IF next THEN {Break([g EXCEPT !.do_next = FALSE])}
         ELSE IF g.do_step THEN {Break([g EXCEPT !.do_step = FALSE])}
         ELSE IF g.freed THEN {g}
         ELSE {LineBreak(g, line, holds) :
                   holds \in SUBSET Conditional(g.line_breakpoints, line)})

\* Mutant of StatementHooks: the hook looks at its flags and lists all the same.
StatementHooksAlways(g) == TRUE

\* The condition of the hook.
StatementHooks(g) == g.remote_enabled

\* xdebug_statement_call
StatementCall(g, line) ==
    IF ~StatementHooks(g) THEN {g}
    ELSE IF g.do_break
    THEN {Break(Begin([g EXCEPT !.do_break = FALSE], <<[do |-> "checks", line |-> line]>>))}
    ELSE Checks(g, line)

-----------------------------------------------------------------------------
(* Calls *)

EnterFunction(g, fn) ==
    HandleBreakpoints(
        [g EXCEPT !.function_count = @ + 1,
                  !.stack = Append(@,
                      [fn |-> fn, nr |-> g.function_count + 1, internal |-> fn \in Internals,
                       declared |-> g.remote_enabled,
                       execute_data |-> IF fn \in Internals \/ Len(g.stack) = base THEN 0
                                        ELSE Last(g.stack).nr])], "call")

LeaveFunction(g) == [g EXCEPT !.stack = Front(@)]

\* xdebug_execute_ex up to the function itself: the first call of a stack
\* connects, unless there is a connection.
ExecuteEx(g, fn) ==
    IF g.stack = <<>> /\ g.ini.mode = "req" /\ ~g.remote_enabled
    THEN InitDebugger(Begin(g, <<[do |-> "enter", fn |-> fn]>>))
    ELSE {EnterFunction(g, fn)}

\* What an internal function does before it returns; then comes what both hooks
\* do after a call.
Body(fn) == IF fn = "xdebug_break" THEN <<[do |-> "do_break"]>> ELSE <<>>
Returns  == <<[do |-> "return"], [do |-> "leave"]>>

RunScript ==
    /\ phase = "idle" /\ phase' = "script"
    /\ x' \in ExecuteEx(x, Main)
    /\ UNCHANGED base

\* A function is called by a user function, by an internal one that does so, or
\* at the shutdown of the script.
Call ==
    /\ Going /\ x.function_count < x.ini.MaxCalls
    /\ \E fn \in x.ini.functions :
          /\ \/ Running /\ (Top.fn \in Internals => Top.fn \in Callers /\ fn \notin Internals)
             \/ phase = "shutdown" /\ ~Running /\ fn \notin Internals
          /\ x' \in IF fn \in Internals THEN {EnterFunction(x, fn)} ELSE ExecuteEx(x, fn)
    /\ UNCHANGED <<phase, base>>

Return ==
    /\ Going /\ Running
    /\ x' \in (IF Top.fn = "xdebug_break"
               THEN DoJit(Begin(x, Body(Top.fn) \o Returns)) ELSE {Begin(x, Returns)})
    /\ phase' = IF Top.fn = Main THEN "shutdown" ELSE phase
    /\ UNCHANGED base

Counted(g) == [g EXCEPT !.statements = @ + 1]

Statement ==
    /\ Going /\ Running /\ Top.fn \notin Internals /\ x.statements < x.ini.MaxStatements
    /\ \E line \in x.ini.lines :
          x' \in StatementCall(Counted(x), line)
    /\ UNCHANGED <<phase, base>>

\* xdebug_throw_exception_hook; what is done after that is to look for a catch,
\* by way of returns.
Throw ==
    /\ Going /\ Running /\ x.statements < x.ini.MaxStatements
    /\ \E class \in x.ini.classes :
          x' \in DoJit(Begin(Counted(x), <<[do |-> "exception", names |-> <<"*", class>>]>>))
    /\ UNCHANGED <<phase, base>>

\* xdebug_error_cb; an error of the type "Fatal error" ends in a bailout.
RaiseError ==
    /\ Going /\ Running /\ x.statements < x.ini.MaxStatements
    /\ \E type \in x.ini.errors :
          x' \in DoJit(Begin(Counted(x), <<[do |-> "exception", names |-> <<type, "*">>]>> \o
                                (IF type = "Fatal error" THEN <<[do |-> "bail"]>> ELSE <<>>)))
    /\ UNCHANGED <<phase, base>>

\* Mutant of PostDeactivate: the connection is left to the IDE.
PostDeactivateOpen(g) == Deinit(g)

\* ZEND_MODULE_POST_ZEND_DEACTIVATE
PostDeactivate(g) == IF g.remote_enabled THEN Deinit(Begin(g, <<[do |-> "close"]>>)) ELSE g

EndRequest ==
    /\ Going /\ ~Running /\ phase = "shutdown"
    /\ phase' = "over" /\ x' = PostDeactivate(x)
    /\ UNCHANGED base

-----------------------------------------------------------------------------
(* The IDE, and what its commands let go on *)

Command ==
    /\ AtLoop /\ x.connected /\ Len(x.commands) < x.ini.MaxCommands
    /\ \E name \in x.ini.commands :
          x' \in ParseOption([x EXCEPT !.commands = Append(@,
                                 [name |-> name, session |-> x.sessions, answers |-> 0])],
                             name, Len(x.commands) + 1)
    /\ UNCHANGED <<phase, base>>

\* The IDE closes its end.
HangUp ==
    /\ AtLoop /\ x.connected
    /\ x' = [x EXCEPT !.connected = FALSE]
    /\ UNCHANGED <<phase, base>>

\* Nothing to read: the loop ends, whatever the status.
EndOfFile ==
    /\ AtLoop /\ ~x.connected
    /\ x' = Done(x)
    /\ UNCHANGED <<phase, base>>

Resumed(g, item) ==
    CASE item.do = "enabled"   -> {[g EXCEPT !.remote_enabled = TRUE]}
      [] item.do = "enter"     -> {EnterFunction(g, item.fn)}
      [] item.do = "checks"    -> Checks(g, item.line)
      [] item.do = "do_break"  -> {[g EXCEPT !.do_break = TRUE]}
      [] item.do = "return"    -> {HandleBreakpoints(g, "return")}
      [] item.do = "leave"     -> {LeaveFunction(g)}
      [] item.do = "exception" -> {ExceptionHit(g, item.names)}
      [] item.do = "deinit"    -> {Deinitialized(g)}
      [] item.do = "detached"  -> {Detached(g, item.id)}
      [] item.do = "close"     -> {[g EXCEPT !.sockets = @ \ {g.sessions}, !.connected = FALSE]}

Resume ==
    /\ x.todo # <<>> /\ Head(x.todo).do \notin {"loop", "bail"} /\ ~x.crashed
    /\ x' \in Resumed(Done(x), Head(x.todo))
    /\ UNCHANGED <<phase, base>>

\* The engine drops all calls in progress; the stack of the extension stays.
Bailout ==
    /\ x.todo # <<>> /\ Head(x.todo).do = "bail" /\ ~x.crashed
    /\ x' = [x EXCEPT !.todo = <<>>, !.step = NoStep]
    /\ phase' = "shutdown" /\ base' = Len(x.stack)

Init ==
    /\ phase = "idle" /\ base = 0
    /\ \E app \in Apps : x = Globals(app)

Next ==
    \/ RunScript \/ Call \/ Return \/ Statement \/ Throw \/ RaiseError \/ EndRequest
    \/ Command \/ HangUp \/ EndOfFile \/ Resume \/ Bailout

Spec == Init /\ [][Next]_vars

-----------------------------------------------------------------------------
TypeOK ==
    /\ phase \in {"idle", "script", "shutdown", "over"}
    /\ base \in 0..Len(x.stack)
    /\ x.status \in {"none", "starting", "running", "break", "stopping", "stopped", "detached"}
    /\ x.lasttransid \in 0..Len(x.commands)
    /\ x.sockets \subseteq 1..x.sessions

\* A step ends where the IDE expects it.  After step_over and step_out, until
\* the script stops or calls are dropped, a statement of a frame that was
\* in progress at the time, outside the one to step out of, stops the script;
\* and no statement ends the step inside the calls to step over, or before the
\* function to step out of has returned.
StepsLand ==
    [][LET step   == x.step
           nr     == Top.nr
           within == \E i \in DOMAIN x.stack : x.stack[i].nr = step.at
           ends   == (x.do_next /\ ~x'.do_next) \/ (x.do_finish /\ ~x'.do_finish)
       IN  x'.statements # x.statements /\ x.remote_enabled /\ step.at # 0 =>
              CASE step.kind = "step_over" ->
                      /\ nr \in step.frames => x'.todo # <<>>
                      /\ ends => nr = step.at \/ ~within
                [] step.kind = "step_out" ->
                      /\ nr \in step.frames \ {step.at} => x'.todo # <<>>
                      /\ ends => ~within
                [] OTHER -> TRUE]_vars

\* When the IDE may send a command (and what it is read into has not been
\* freed), all it has sent before in the session are answered, and none twice but
\* stop and detach, which the end of the session answers again, and what an
\* unknown command came after.
AnsweredOnce ==
    AtLoop /\ x.connected /\ ~x.freed =>
        \A t \in DOMAIN x.commands :
            LET c == x.commands[t]
            IN  c.session = x.sessions =>
                    /\ c.answers >= 1
                    /\ c.answers > 1 => 
                          \/ c.name \in Ending
                          \/ \E u \in DOMAIN x.commands : u > t /\ x.commands[u].name \in Unknown

\* An id leads to the breakpoint it was given for: that of a name, unless the name
\* was set again while an id had it; that of a line, as long as no two ids have the
\* same place, no breakpoint has been moved to another line, and none has outlived
\* its id.
IdFindsOwn ==
    LET list    == x.breakpoint_list
        brks    == x.line_breakpoints
        inOrder == /\ IsInjective(list)
                   /\ \A i \in DOMAIN brks : /\ brks[i].owner \in DOMAIN list
                                             /\ list[brks[i].owner].key = brks[i].lineno
    IN  \A id \in DOMAIN list :
            LET place == Lookup(x, list[id])
            IN  (IF list[id].table = "line_breakpoints" THEN inOrder ELSE list[id] \notin x.shared)
                => place # NoPlace /\ At(x, place).owner = id

\* A temporary breakpoint for a line or a function stops the script once, until
\* the IDE enables it again.
TemporaryOnce ==
    /\ \A i \in DOMAIN x.line_breakpoints :
          x.line_breakpoints[i].temporary => x.line_breakpoints[i].stops <= 1
    /\ \A fn \in DOMAIN x.function_breakpoints :
          x.function_breakpoints[fn].temporary => x.function_breakpoints[fn].stops <= 1

\* What is shown for a frame is of that frame, and the full name shown with a
\* value leads the IDE back to it.  The return breakpoint of a user function is
\* left out of the first: its caller's variables are shown.  Left out of the
\* second are the names that the format does not escape, and static properties
\* that are not of the function that executes.
ShownOfFrame ==
    LET a == x.answer
        again == [x EXCEPT !.active = Look(x, a.depth, a.context)]
    IN  AtLoop /\ x.connected => \A n \in a.nodes :
            /\ a.own => n.val.of \in {0, a.nr}
            /\ n.fullname # Garbage
                 /\ (\A i \in DOMAIN n.fullname : Len(n.fullname[i].key) = 1)
                 /\ (n.fullname[1].sep = "::" => a.depth = 0 /\ a.own)
               => \A h \in Looked(again, n.fullname, base) :
                     ~h.crashed => Symbol(h, n.fullname) = n.val

\* The pages of a value that are asked for one after another show no child twice,
\* and all of them once every page has been asked for.  (A name that the IDE was
\* not shown for a context may lead to one value now and to another later.)
PagesPartition ==
    \A s \in x.seen :
        LET same  == {t \in x.seen : <<t.name, t.depth, t.context, t.val>>
                                        = <<s.name, s.depth, s.context, s.val>>}
            pages == {t.page : t \in same}
            count == x.options.max_children
        IN  /\ \A t \in same : t.page # s.page => t.at \cap s.at = {}
            /\ x.options.max_depth > 0 /\ count > 0 /\ 0..((s.of - 1) \div count) \subseteq pages
                 => UNION {t.at : t \in same} = 1..s.of

\* The loops of commands in progress, by how much is left to do after each.
Waits(todo) == {Len(todo) - i : i \in {j \in DOMAIN todo : todo[j].do = "loop"}}

\* An IDE that has detached is not asked again in that session, except if it
\* detached before the script ran, or at a function breakpoint, where the hook
\* goes on with the statement.
NoStopAfterDetach ==
    [][x.detached /\ ~x.early /\ x'.sessions = x.sessions
          /\ (x.todo = <<>> \/ Head(x.todo).do # "checks")
       => Waits(x'.todo) \subseteq Waits(x.todo)]_vars

\* When the request is over, the connections that are left open are those in
\* which the IDE sent detach or stop.
ConnectionsClosed ==
    phase = "over" /\ Going =>
        x.sockets \subseteq {x.commands[t].session :
                                t \in {u \in DOMAIN x.commands : x.commands[u].name \in Ending}}
=============================================================================
