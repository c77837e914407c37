----------------------------- MODULE Breakpoints -----------------------------
(***************************************************************************)
(* The breakpoints of a debugging session (xdebug_handler_dbgp.c and       *)
(* xdebug_stack.c).  An IDE names a breakpoint by the id it was given when *)
(* it set it; the extension keeps, for each id, a type and a key, and      *)
(* finds the breakpoint itself by the key: in a list for lines, in a hash  *)
(* for functions and one for exceptions.  g is the record of the           *)
(* extension's globals that Debugger declares.                             *)
(***************************************************************************)
EXTENDS Integers, Sequences, SequencesExt, Functions

NoPlace == <<"none", 0>>

\* The tables of a new session; shared, the places that were set for an id while
\* another had them, is history.
NoBreakpoints(g) ==
    [g EXCEPT !.breakpoint_list = <<>>, !.line_breakpoints = <<>>,
              !.function_breakpoints = <<>>, !.exception_breakpoints = <<>>,
              !.shared = {}]

\* xdebug_hash_add
HashAdd(hash, key, value) ==
    [k \in DOMAIN hash \cup {key} |-> IF k = key THEN value ELSE hash[k]]

\* The record of DBGP_FUNC(breakpoint_set) for the options o.  owner, the id it
\* is made for, and stops, how often it has stopped the script since it was
\* enabled, are history.
BrkInfo(o, id) ==
    [owner |-> id, type |-> o.type, lineno |-> o.at, disabled |-> FALSE,
     temporary |-> o.temporary, hit_count |-> 0, hit_value |-> o.hit_value,
     hit_condition |-> o.hit_condition, condition |-> o.condition, stops |-> 0]

\* Where breakpoints of a type are kept; calls and returns share a hash.
Table(type) == CASE type = "line" -> "line_breakpoints"
                 [] type = "exception" -> "exception_breakpoints"
                 [] type \in {"call", "return"} -> "function_breakpoints"

\* DBGP_FUNC(breakpoint_set) with breakpoint_admin_add: a line goes to the end
\* of the list; a name takes the place of an earlier one of that name.
BreakpointSet(g, o) ==
    LET id    == g.breakpoint_count + 1
        admin == [table |-> Table(o.type), key |-> o.at]
        brk   == BrkInfo(o, id)
        h     == [g EXCEPT !.breakpoint_count = id,
                           !.breakpoint_list = HashAdd(@, id, admin),
                           !.shared = @ \cup (Range(g.breakpoint_list) \cap {admin})]
    IN  IF o.type = "line" THEN [h EXCEPT !.line_breakpoints = Append(@, brk)]
        ELSE [h EXCEPT ![Table(o.type)] = HashAdd(@, o.at, brk)]

\* Mutant of Lookup: the loop over the lines does not stop where it finds one.
LookupLast(g, admin) ==
    IF admin.table = "line_breakpoints"
    THEN IF g.line_breakpoints = <<>> THEN NoPlace
         ELSE <<admin.table, Len(g.line_breakpoints)>>
    ELSE IF admin.key \in DOMAIN g[admin.table] THEN <<admin.table, admin.key>>
    ELSE NoPlace

\* breakpoint_brk_info_fetch: where the breakpoint of an id is kept.  The loop
\* over the lines leaves its last element behind when none has the line.
Lookup(g, admin) ==
    IF admin.table = "line_breakpoints"
    THEN LET same == {i \in DOMAIN g.line_breakpoints : g.line_breakpoints[i].lineno = admin.key}
         IN  IF same # {} THEN <<"line_breakpoints", CHOOSE i \in same : \A j \in same : i <= j>>
             ELSE IF g.line_breakpoints = <<>> THEN NoPlace
             ELSE <<"line_breakpoints", Len(g.line_breakpoints)>>
    ELSE IF admin.key \in DOMAIN g[admin.table] THEN <<admin.table, admin.key>>
    ELSE NoPlace

At(g, place) == g[place[1]][place[2]]

\* g with the breakpoint at a place replaced.
Put(g, place, brk) == [g EXCEPT ![place[1]][place[2]] = brk]

\* breakpoint_remove: of the lines, the first that has the line of the key.
Without(g, admin) ==
    IF admin.table = "line_breakpoints"
    THEN LET same == {i \in DOMAIN g.line_breakpoints : g.line_breakpoints[i].lineno = admin.key}
         IN  IF same = {} THEN g
             ELSE [g EXCEPT !.line_breakpoints =
                      RemoveAt(@, CHOOSE i \in same : \A j \in same : i <= j)]
    ELSE [g EXCEPT ![admin.table] = Restrict(@, DOMAIN @ \ {admin.key})]

\* DBGP_FUNC(breakpoint_remove), by way of breakpoint_do_action, which shows
\* what it removes: no breakpoint where the id leads is a null pointer.
BreakpointRemove(g, id) ==
    LET admin == g.breakpoint_list[id]
    IN  IF Lookup(g, admin) = NoPlace THEN [g EXCEPT !.crashed = TRUE]
        ELSE [Without(g, admin) EXCEPT !.breakpoint_list = Restrict(@, DOMAIN @ \ {id})]

\* DBGP_FUNC(breakpoint_update): whether it is disabled, the line, the hit value
\* or the hit condition.
BreakpointUpdate(g, id, u) ==
    LET place == Lookup(g, g.breakpoint_list[id])
    IN  IF place = NoPlace THEN [g EXCEPT !.crashed = TRUE]
        ELSE Put(g, place, [At(g, place) EXCEPT ![u.field] = u.value,
                                !.stops = IF u.field = "disabled" THEN 0 ELSE @])

\* DBGP_FUNC(breakpoint_get) shows one, DBGP_FUNC(breakpoint_list) all.
BreakpointGet(g, id) ==
    [g EXCEPT !.crashed = @ \/ Lookup(g, g.breakpoint_list[id]) = NoPlace]

BreakpointList(g) ==
    [g EXCEPT !.crashed = @ \/ \E id \in DOMAIN g.breakpoint_list :
                                   Lookup(g, g.breakpoint_list[id]) = NoPlace]

-----------------------------------------------------------------------------
(* Hits *)

\* Mutant of Hit: a temporary breakpoint stays.
HitKeepsTemporary(brk) == [brk EXCEPT !.hit_count = @ + 1]

\* xdebug_handle_hit_value, what it does to the breakpoint.
Hit(brk) == [brk EXCEPT !.disabled = @ \/ brk.temporary, !.hit_count = @ + 1]

\* And what it says, of the breakpoint it has counted.
Breaks(brk) ==
    \/ brk.hit_value = 0
    \/ brk.hit_condition = ">=" /\ brk.hit_count >= brk.hit_value
    \/ brk.hit_condition = "==" /\ brk.hit_count = brk.hit_value
    \/ brk.hit_condition = "%" /\ brk.hit_count % brk.hit_value = 0
    \/ brk.hit_condition = "none"

Stopping(brk) == IF Breaks(brk) THEN [brk EXCEPT !.stops = @ + 1] ELSE brk

\* The list of line breakpoints in a statement on a line, when the conditions
\* of those in holds are true: each that is reached counts, up to the first
\* that breaks, which is at the place broke (0 is none).
LineHits(brks, line, holds) ==
    LET reached == {i \in DOMAIN brks : /\ ~brks[i].disabled /\ brks[i].lineno = line
                                        /\ brks[i].condition => i \in holds}
        breaks  == {i \in reached : Breaks(Hit(brks[i]))}
        broke   == IF breaks = {} THEN 0 ELSE CHOOSE i \in breaks : \A j \in breaks : i <= j
    IN  [brks  |-> [i \in DOMAIN brks |->
                       IF i \in reached /\ (broke = 0 \/ i <= broke) THEN Stopping(Hit(brks[i]))
                       ELSE brks[i]],
         broke |-> broke]

\* The conditions that a statement on a line may come to evaluate.
Conditional(brks, line) ==
    {i \in DOMAIN brks : brks[i].condition /\ ~brks[i].disabled /\ brks[i].lineno = line}
=============================================================================
