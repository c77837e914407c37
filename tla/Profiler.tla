------------------------------ MODULE Profiler ------------------------------
(***************************************************************************)
(* The profiler (xdebug_profiler.c): each call leaves, when it ends, a     *)
(* line with its own cost, and the script a summary.  g is the record of   *)
(* the extension's globals that Hooks declares; time is g.clock.           *)
(***************************************************************************)
EXTENDS Integers, Sequences, SequencesExt

CONSTANT Main       \* the script itself, "{main}"

\* profile of a new frame: call_list is empty, the sum of time_taken in it 0.
NoProfile == [time |-> 0, mark |-> 0, taken |-> 0]

Unset == -1

\* xdebug_profiler_init, when the file could be opened or not: the file of an
\* earlier profile of the request is not closed.
ProfilerInit(g, opened) ==
    IF opened
    THEN [g EXCEPT !.profile_file = Len(g.profiles) + 1, !.profiler_enabled = TRUE,
                   !.profiles = Append(@, [lines |-> <<>>, summary |-> Unset])]
    ELSE [g EXCEPT !.profile_file = 0]

\* xdebug_profiler_function_begin, of the call in frame i; the file and the name
\* that its line will have are those of the function (add_function_details).
FunctionBegin(g, i) ==
    [g EXCEPT !.stack[i].profile = [@ EXCEPT !.time = 0, !.mark = g.clock]]

\* Mutant of FunctionEnd: the end of {main} leaves the profiler on.
FunctionEndStaysOn(g, i) ==
    LET fse   == g.stack[i]
        time  == fse.profile.time + g.clock - fse.profile.mark
        own   == time - fse.profile.taken
        main  == fse.fn = Main
        ended == [g EXCEPT
                    !.stack[i].profile = [@ EXCEPT !.time = own, !.mark = 0],
                    !.profiles[g.profile_file].lines =
                        Append(@, [nr |-> fse.nr, own |-> own]),
                    !.profiles[g.profile_file].summary = IF main THEN time ELSE @]
    IN  IF i = 1 THEN ended ELSE [ended EXCEPT !.stack[i - 1].profile.taken = @ + time]

\* xdebug_profiler_function_end, of the call in frame i: the time since its
\* mark goes to the list of its caller, and less what the calls in its own list
\* took it is its own cost.  The end of {main} is the end of the profile.
FunctionEnd(g, i) ==
    LET fse   == g.stack[i]
        time  == fse.profile.time + g.clock - fse.profile.mark
        own   == time - fse.profile.taken
        main  == fse.fn = Main
        ended == [g EXCEPT
                    !.stack[i].profile = [@ EXCEPT !.time = own, !.mark = 0],
                    !.profiler_enabled = @ /\ ~main,
                    !.profiles[g.profile_file].lines =
                        Append(@, [nr |-> fse.nr, own |-> own]),
                    !.profiles[g.profile_file].summary = IF main THEN time ELSE @]
    IN  IF i = 1 THEN ended ELSE [ended EXCEPT !.stack[i - 1].profile.taken = @ + time]

\* xdebug_profiler_deinit: every call of the stack ends, the innermost first.
ProfilerDeinit(g) ==
    LET n == Len(g.stack)
        ended[i \in 0..n] == IF i = 0 THEN g ELSE FunctionEnd(ended[i - 1], n + 1 - i)
    IN  ended[n]

\* The sum of the own costs in the lines of a profile.
Spent(lines) ==
    LET sum[i \in 0..Len(lines)] == IF i = 0 THEN 0 ELSE sum[i - 1] + lines[i].own
    IN  sum[Len(lines)]
=============================================================================
