---------------------------- MODULE Hooks_proofs ----------------------------
(***************************************************************************)
(* Proofs about the hooks of a request, for every application, every       *)
(* filter and every order of calls, returns, errors and exits.             *)
(***************************************************************************)
EXTENDS Hooks, SequenceTheorems, WellFoundedInduction, TLAPS

Fields == {"ini", "stack", "level", "function_count", "clock", "do_trace", "trace_context",
           "trace_handler", "filter_tracing", "traces", "profile_file", "profiler_enabled",
           "profiles", "error_cb", "do_collect_errors", "collected_errors",
           "do_monitor_functions", "functions_to_monitor", "monitored_found",
           "gc_stats_enabled", "gc_stats_file", "gc_reports", "page", "crashed",
           "chosen", "enabled", "lost", "dropped"}

\* The functions that a call may be of.
Names == {Main, "trigger_error"} \cup UNION {app.users \cup app.internals : app \in Apps}

\* What the profiler keeps of a call in progress.
Cost == [time : Int, mark : Int, taken : Int]

Frame == [fn : Names, internal : BOOLEAN, nr : Int, level : Int, filtered : BOOLEAN,
          do_return : BOOLEAN, profile : Cost,
          error_cb : {"xdebug", "engine"}, report : BOOLEAN, nested : BOOLEAN]

\* Every call is one level deeper than the one that made it, and was counted later.
Ordered(stack, count) ==
    /\ \A i \in 1..Len(stack) : /\ stack[i].level = i
                                /\ stack[i].nr \in 0..count
    /\ \A i, j \in 1..Len(stack) : i < j => stack[i].nr < stack[j].nr

CallsOK(g) ==
    /\ DOMAIN g = Fields /\ g.ini \in Apps
    /\ g.stack \in Seq(Frame) /\ g.level = Len(g.stack)
    /\ g.function_count \in Int /\ g.function_count >= -1 /\ g.clock \in Int
    /\ Ordered(g.stack, g.function_count)
    /\ g.do_trace \in BOOLEAN /\ g.profiler_enabled \in BOOLEAN
    /\ g.gc_stats_enabled \in BOOLEAN /\ g.crashed \in BOOLEAN
    /\ g.error_cb \in {"xdebug", "engine"}

\* The same calls, whatever they took and whatever ended inside them.
Alike(e, f) ==
    /\ e.fn = f.fn /\ e.internal = f.internal /\ e.nr = f.nr /\ e.level = f.level
    /\ e.filtered = f.filtered /\ e.error_cb = f.error_cb

SameCalls(s, t) ==
    /\ s \in Seq(Frame) /\ t \in Seq(Frame) /\ Len(s) = Len(t)
    /\ \A i \in 1..Len(s) : Alike(s[i], t[i])

\* h has one call more than g, of fn.
Pushed(g, h, fn, internal) ==
    LET n == Len(g.stack) + 1
        e == h.stack[n]
    IN  /\ h.stack \in Seq(Frame) /\ Len(h.stack) = n /\ h.level = n
        /\ h.function_count = g.function_count + 1
        /\ \A i \in 1..Len(g.stack) : Alike(h.stack[i], g.stack[i])
        /\ e.fn = fn /\ e.internal = internal /\ e.nr = g.function_count + 1 /\ e.level = n
        /\ e.error_cb = g.error_cb

\* h has one call less than g.
Popped(g, h) ==
    /\ h.stack \in Seq(Frame) /\ Len(h.stack) = Len(g.stack) - 1 /\ h.level = Len(h.stack)
    /\ h.function_count = g.function_count
    /\ \A i \in 1..Len(h.stack) : Alike(h.stack[i], g.stack[i])

\* From g to h no global changes but those in S.
Only(g, h, S) == DOMAIN g = Fields /\ DOMAIN h = Fields /\ \A f \in Fields \ S : h[f] = g[f]

-----------------------------------------------------------------------------
(* What each operator may change *)

LEMMA OnlyTrans ==
    ASSUME NEW g, NEW h, NEW k, NEW S, NEW T, Only(g, h, S), Only(h, k, T)
    PROVE  Only(g, k, S \cup T)
BY DEF Only

LEMMA OnlyMore ==
    ASSUME NEW g, NEW h, NEW S, NEW T, Only(g, h, S), S \subseteq T
    PROVE  Only(g, h, T)
BY DEF Only

LEMMA OnlyNone ==
    ASSUME NEW g, DOMAIN g = Fields, NEW S
    PROVE  Only(g, g, S)
BY DEF Only

LEMMA TickOnly ==
    ASSUME NEW g, DOMAIN g = Fields
    PROVE  Only(g, Tick(g), {"clock"})
BY DEF Only, Tick, Fields

LEMMA AddStackFrameOnly ==
    ASSUME NEW g, DOMAIN g = Fields, NEW fn, NEW internal, NEW do_return
    PROVE  Only(g, AddStackFrame(g, fn, internal, do_return),
                {"clock", "monitored_found", "level", "function_count", "stack"})
BY DEF Only, AddStackFrame, Monitor, Tick, Fields

LEMMA RemoveStackFrameOnly ==
    ASSUME NEW g, DOMAIN g = Fields
    PROVE  Only(g, RemoveStackFrame(g), {"stack", "level"})
BY DEF Only, RemoveStackFrame, Fields

LEMMA BeginProfileOnly ==
    ASSUME NEW g, DOMAIN g = Fields
    PROVE  Only(g, BeginProfile(g), {"stack"})
BY SMTT(40) DEF Only, BeginProfile, FunctionBegin, Fields

LEMMA FunctionEndOnly ==
    ASSUME NEW g, DOMAIN g = Fields, NEW i
    PROVE  Only(g, FunctionEnd(g, i), {"stack", "profiler_enabled", "profiles"})
BY ZenonT(60) DEF Only, FunctionEnd, Fields

LEMMA EndProfileOnly ==
    ASSUME NEW g, DOMAIN g = Fields
    PROVE  Only(g, EndProfile(g), {"stack", "profiler_enabled", "profiles"})
BY FunctionEndOnly, OnlyNone DEF EndProfile

LEMMA TraceLineOnly ==
    ASSUME NEW g, DOMAIN g = Fields, NEW kind, NEW fse
    PROVE  Only(g, TraceLine(g, kind, fse), {"traces"})
BY DEF Only, TraceLine, Fields

LEMMA EndTraceOnly ==
    ASSUME NEW g, DOMAIN g = Fields, NEW returns
    PROVE  Only(g, EndTrace(g, returns), {"traces"})
<1> DEFINE h == TraceLine(g, "exit", Last(g.stack))
<1>1. Only(g, h, {"traces"})
  BY TraceLineOnly
<1>2. Only(h, TraceLine(h, "return", Last(g.stack)), {"traces"})
  BY <1>1, TraceLineOnly DEF Only
<1>3. Only(g, TraceLine(h, "return", Last(g.stack)), {"traces"})
  BY <1>1, <1>2 DEF Only
<1> QED
  BY <1>1, <1>3 DEF EndTrace

LEMMA StartTraceOnly ==
    ASSUME NEW g, DOMAIN g = Fields, NEW options, NEW opened
    PROVE  Only(g, StartTrace(g, options, opened),
                {"trace_handler", "do_trace", "traces", "trace_context"})
BY DEF Only, StartTrace, Fields

LEMMA StopTraceOnly ==
    ASSUME NEW g, DOMAIN g = Fields
    PROVE  Only(g, StopTrace(g), {"do_trace", "traces", "trace_context"})
BY DEF Only, StopTrace, Fields

LEMMA ProfilerInitOnly ==
    ASSUME NEW g, DOMAIN g = Fields, NEW opened
    PROVE  Only(g, ProfilerInit(g, opened), {"profile_file", "profiler_enabled", "profiles"})
BY DEF Only, ProfilerInit, Fields

LEMMA GcStatsInitOnly ==
    ASSUME NEW g, DOMAIN g = Fields, NEW opened
    PROVE  Only(g, GcStatsInit(g, opened), {"gc_reports", "gc_stats_file", "gc_stats_enabled"})
BY DEF Only, GcStatsInit, Fields

LEMMA StopGcStatsOnly ==
    ASSUME NEW g, DOMAIN g = Fields
    PROVE  Only(g, StopGcStats(g), {"gc_stats_file", "gc_stats_enabled"})
BY DEF Only, StopGcStats, Fields

LEMMA SoapRestoredOnly ==
    ASSUME NEW g, DOMAIN g = Fields
    PROVE  Only(g, SoapRestored(g), {"error_cb"})
BY DEF Only, SoapRestored, Fields

LEMMA UpdateSharedCallstackOnly ==
    ASSUME NEW g, DOMAIN g = Fields
    PROVE  Only(g, UpdateSharedCallstack(g), {"page"})
BY DEF Only, UpdateSharedCallstack, Fields

LEMMA PageClearedOnly ==
    ASSUME NEW g, DOMAIN g = Fields
    PROVE  Only(g, PageCleared(g), {"page", "dropped", "stack"})
BY DEF Only, PageCleared, Fields

LEMMA ErrorCbOnly ==
    ASSUME NEW g, DOMAIN g = Fields, NEW type
    PROVE  Only(g, ErrorCb(g, type), {"collected_errors"})
BY DEF Only, ErrorCb, XdebugErrorCb, Fields

LEMMA FreshOnly ==
    ASSUME NEW g, DOMAIN g = Fields
    PROVE  /\ DOMAIN Fresh(g) = Fields
           /\ Only(g, Fresh(g), Fields \ {"ini", "trace_handler", "error_cb", "page", "crashed",
                                          "chosen", "lost", "dropped"})
BY ZenonT(60) DEF Only, Fresh, Fields

LEMMA GlobalsFields ==
    ASSUME NEW app
    PROVE  DOMAIN Globals(app) = Fields
BY SMTT(60) DEF Globals, Fields

-----------------------------------------------------------------------------
(* The stack *)

LEMMA SameOrdered ==
    ASSUME NEW s, NEW t, NEW count, SameCalls(s, t), Ordered(s, count)
    PROVE  Ordered(t, count)
BY DEF SameCalls, Alike, Ordered

LEMMA SameRefl ==
    ASSUME NEW s \in Seq(Frame)
    PROVE  SameCalls(s, s)
BY DEF SameCalls, Alike

LEMMA SameTrans ==
    ASSUME NEW s, NEW t, NEW u, SameCalls(s, t), SameCalls(t, u)
    PROVE  SameCalls(s, u)
BY DEF SameCalls, Alike

LEMMA NewFrame ==
    ASSUME NEW g, CallsOK(g), NEW fn \in Names, NEW internal \in BOOLEAN,
           NEW do_return \in BOOLEAN
    PROVE  LET h == AddStackFrame(g, fn, internal, do_return)
           IN  /\ Pushed(g, h, fn, internal)
               /\ \A i \in 1..Len(g.stack) : h.stack[i] = g.stack[i]
               /\ h.stack[Len(h.stack)].profile = NoProfile
               /\ h.stack[Len(h.stack)].nested = FALSE
               /\ Last(h.stack) = h.stack[Len(h.stack)]
               /\ h.clock \in Int
<1> DEFINE h == AddStackFrame(g, fn, internal, do_return)
           n == Len(g.stack)
           e == [fn |-> fn, internal |-> internal, nr |-> g.function_count + 1,
                 level |-> g.level + 1, filtered |-> Filtered(g, fn), do_return |-> do_return,
                 profile |-> NoProfile, error_cb |-> g.error_cb,
                 report |-> g.gc_stats_enabled, nested |-> FALSE]
<1>1. e \in Frame
  BY DEF CallsOK, Frame, Cost, NoProfile, Filtered
<1>2. h.stack = Append(g.stack, e) /\ h.level = g.level + 1
      /\ h.function_count = g.function_count + 1
  BY DEF CallsOK, AddStackFrame, Monitor, Tick, Fields
<1>3. h.clock \in Int
  BY DEF CallsOK, AddStackFrame, Monitor, Tick, Fields
<1> HIDE DEF h
<1>4. g.stack \in Seq(Frame) /\ n \in Nat /\ g.level = n
  BY DEF CallsOK
<1>5. /\ h.stack \in Seq(Frame) /\ Len(h.stack) = n + 1
      /\ \A i \in 1..n : h.stack[i] = g.stack[i]
      /\ h.stack[n + 1] = e
  <2> HIDE DEF e
  <2> QED
    BY <1>1, <1>2, <1>4
<1>6. Pushed(g, h, fn, internal)
  BY <1>2, <1>4, <1>5 DEF Pushed, Alike
<1> QED
  BY <1>3, <1>5, <1>6 DEF h, Last

LEMMA PushedOK ==
    ASSUME NEW g, NEW h, CallsOK(g), NEW fn \in Names, NEW internal \in BOOLEAN,
           Pushed(g, h, fn, internal), DOMAIN h = Fields, h.ini = g.ini, h.clock \in Int,
           h.do_trace \in BOOLEAN, h.profiler_enabled \in BOOLEAN,
           h.gc_stats_enabled \in BOOLEAN, h.crashed = g.crashed,
           h.error_cb \in {"xdebug", "engine"}
    PROVE  CallsOK(h)
<1> DEFINE n == Len(g.stack)
           s == g.stack
           t == h.stack
<1>2. /\ n \in Nat /\ Len(t) = n + 1 /\ g.function_count \in Int /\ g.function_count >= -1
      /\ h.function_count = g.function_count + 1
      /\ \A i \in 1..n : t[i].level = s[i].level /\ t[i].nr = s[i].nr
      /\ t[n + 1].level = n + 1 /\ t[n + 1].nr = g.function_count + 1
  BY SMTT(40) DEF CallsOK, Pushed, Alike
<1>3. /\ \A i \in 1..n : s[i].level = i /\ s[i].nr \in 0..g.function_count
      /\ \A i, j \in 1..n : i < j => s[i].nr < s[j].nr
  BY DEF CallsOK, Ordered
<1> HIDE DEF s, t, n
<1>4. \A i \in 1..n + 1 : t[i].level = i /\ t[i].nr \in 0..g.function_count + 1
  <2> SUFFICES ASSUME NEW i \in 1..n + 1
               PROVE  t[i].level = i /\ t[i].nr \in 0..g.function_count + 1
    OBVIOUS
  <2>1. CASE i = n + 1
    BY <1>2, <2>1
  <2>2. CASE i \in 1..n
    BY <1>2, <1>3, <2>2, SMTT(40)
  <2> QED
    BY <1>2, <2>1, <2>2
<1>5. \A i, j \in 1..n + 1 : i < j => t[i].nr < t[j].nr
  <2> SUFFICES ASSUME NEW i \in 1..n + 1, NEW j \in 1..n + 1, i < j
               PROVE  t[i].nr < t[j].nr
    OBVIOUS
  <2>1. i \in 1..n
    BY <1>2
  <2>2. CASE j = n + 1
    BY <1>2, <1>3, <2>1, <2>2, SMTT(40)
  <2>3. CASE j \in 1..n
    BY <1>2, <1>3, <2>1, <2>3
  <2> QED
    BY <1>2, <2>2, <2>3
<1>1. Ordered(h.stack, h.function_count)
  BY <1>2, <1>4, <1>5 DEF Ordered, t
<1> QED
  BY <1>1 DEF CallsOK, Pushed

LEMMA PoppedOK ==
    ASSUME NEW g, NEW h, CallsOK(g), Popped(g, h), DOMAIN h = Fields, h.ini = g.ini,
           h.clock \in Int, h.do_trace \in BOOLEAN, h.profiler_enabled \in BOOLEAN,
           h.gc_stats_enabled \in BOOLEAN, h.crashed = g.crashed,
           h.error_cb \in {"xdebug", "engine"}
    PROVE  CallsOK(h)
<1> DEFINE n == Len(g.stack)
           m == Len(h.stack)
           s == g.stack
           t == h.stack
<1>2. /\ n \in Nat /\ m \in Nat /\ m = n - 1 /\ h.function_count = g.function_count
      /\ \A i \in 1..m : t[i].level = s[i].level /\ t[i].nr = s[i].nr
  BY DEF CallsOK, Popped, Alike
<1>3. /\ \A i \in 1..n : s[i].level = i /\ s[i].nr \in 0..g.function_count
      /\ \A i, j \in 1..n : i < j => s[i].nr < s[j].nr
  BY DEF CallsOK, Ordered
<1> HIDE DEF s, t, n, m
<1>4. \A i \in 1..m : i \in 1..n
  BY <1>2
<1>1. Ordered(h.stack, h.function_count)
  BY <1>2, <1>3, <1>4 DEF Ordered, t, m
<1> QED
  BY <1>1 DEF CallsOK, Popped

LEMMA SameOK ==
    ASSUME NEW g, NEW h, CallsOK(g), SameCalls(g.stack, h.stack), DOMAIN h = Fields,
           h.ini = g.ini, h.level = g.level, h.function_count = g.function_count,
           h.clock \in Int, h.do_trace \in BOOLEAN, h.profiler_enabled \in BOOLEAN,
           h.gc_stats_enabled \in BOOLEAN, h.crashed \in BOOLEAN,
           h.error_cb \in {"xdebug", "engine"}
    PROVE  CallsOK(h)
<1>1. Ordered(h.stack, h.function_count)
  BY SameOrdered DEF CallsOK
<1> QED
  BY <1>1 DEF CallsOK, SameCalls

LEMMA CostEnd ==
    ASSUME NEW v \in Cost, NEW time \in Int
    PROVE  LET w == [v EXCEPT !.time = time, !.mark = 0]
           IN  w \in Cost /\ w = [time |-> time, mark |-> 0, taken |-> v.taken]
<1> DEFINE u == [v EXCEPT !.time = time]
           w == [u EXCEPT !.mark = 0]
           x == [time |-> time, mark |-> 0, taken |-> v.taken]
<1>1. u \in Cost /\ u.time = time /\ u.mark = v.mark /\ u.taken = v.taken
  BY DEF Cost
<1> HIDE DEF u
<1>2. w \in Cost /\ w.time = time /\ w.mark = 0 /\ w.taken = v.taken
  BY <1>1 DEF Cost
<1>3. x \in Cost /\ x.time = time /\ x.mark = 0 /\ x.taken = v.taken
  BY DEF Cost
<1> HIDE DEF w, x
<1>4. w = x
  BY <1>2, <1>3 DEF Cost
<1> QED
  BY <1>2, <1>4 DEF u, w, x

\* A stack in which one frame has a new profile.
LEMMA ProfileUpdate ==
    ASSUME NEW s \in Seq(Frame), NEW i \in 1..Len(s),
           NEW p \in Cost
    PROVE  LET t == [s EXCEPT ![i].profile = p]
           IN  /\ SameCalls(s, t)
               /\ \A j \in 1..Len(s) : t[j].nested = s[j].nested
               /\ \A j \in 1..Len(s) : t[j].profile = IF j = i THEN p ELSE s[j].profile
<1> DEFINE t == [s EXCEPT ![i].profile = p]
<1>1. s[i] \in Frame
  OBVIOUS
<1>2. [s[i] EXCEPT !.profile = p] \in Frame
  BY <1>1 DEF Frame
<1>3. t = [s EXCEPT ![i] = [s[i] EXCEPT !.profile = p]]
  OBVIOUS
<1>4. t \in Seq(Frame) /\ Len(t) = Len(s)
  BY <1>2, <1>3, ExceptSeq
<1>5. \A j \in 1..Len(s) : t[j] = IF j = i THEN [s[i] EXCEPT !.profile = p] ELSE s[j]
  BY <1>3
<1>6. /\ Alike(s[i], [s[i] EXCEPT !.profile = p])
      /\ [s[i] EXCEPT !.profile = p].nested = s[i].nested
      /\ [s[i] EXCEPT !.profile = p].profile = p
  BY <1>1 DEF Alike, Frame
<1>7. \A j \in 1..Len(s) : Alike(s[j], t[j])
  BY <1>5, <1>6 DEF Alike
<1> QED
  BY <1>4, <1>5, <1>6, <1>7 DEF SameCalls

\* What the end of a call in the profile does to the frames: its own, and the caller's.
LEMMA FunctionEndFrames ==
    ASSUME NEW g, CallsOK(g), NEW i \in 1..Len(g.stack)
    PROVE  LET h == FunctionEnd(g, i)
               time == g.stack[i].profile.time + g.clock - g.stack[i].profile.mark
           IN  /\ SameCalls(g.stack, h.stack)
               /\ \A j \in 1..Len(g.stack) : h.stack[j].nested = g.stack[j].nested
               /\ \A j \in 1..Len(g.stack) : j \notin {i, i - 1} =>
                     h.stack[j].profile = g.stack[j].profile
               /\ h.stack[i].profile = [time |-> time - g.stack[i].profile.taken, mark |-> 0,
                                        taken |-> g.stack[i].profile.taken]
               /\ i > 1 => h.stack[i - 1].profile =
                     [g.stack[i - 1].profile EXCEPT !.taken = @ + time]
               /\ h.profiler_enabled = (g.profiler_enabled /\ g.stack[i].fn # Main)
               /\ CallsOK(h)
<1> DEFINE h == FunctionEnd(g, i)
           s == g.stack
           time == s[i].profile.time + g.clock - s[i].profile.mark
           p == [s[i].profile EXCEPT !.time = time - s[i].profile.taken, !.mark = 0]
           t == [s EXCEPT ![i].profile = p]
           q == [t[i - 1].profile EXCEPT !.taken = @ + time]
           u == IF i = 1 THEN t ELSE [t EXCEPT ![i - 1].profile = q]
<1>1. s \in Seq(Frame) /\ g.clock \in Int /\ DOMAIN g = Fields
  BY DEF CallsOK
<1>2. s[i].profile \in Cost
  <2>1. s[i] \in Frame
    BY <1>1
  <2> QED
    BY <2>1 DEF Frame
<1>3. time \in Int /\ p \in Cost
      /\ p = [time |-> time - s[i].profile.taken, mark |-> 0, taken |-> s[i].profile.taken]
  <2>1. time \in Int
    BY <1>1, <1>2, SMTT(40) DEF Cost
  <2> HIDE DEF time
  <2> DEFINE v == s[i].profile
  <2>3. v \in Cost
    BY <1>2
  <2> HIDE DEF v
  <2>4. /\ [v EXCEPT !.time = time - v.taken, !.mark = 0] \in Cost
        /\ [v EXCEPT !.time = time - v.taken, !.mark = 0]
              = [time |-> time - v.taken, mark |-> 0, taken |-> v.taken]
    <3>1. time - v.taken \in Int
      BY <2>1, <2>3 DEF Cost
    <3> QED
      BY <2>3, <3>1, CostEnd
  <2> QED
    BY <2>1, <2>4 DEF v
<1>4. h.stack = u /\ h.profiler_enabled = (g.profiler_enabled /\ s[i].fn # Main)
  BY <1>1 DEF FunctionEnd, Fields
<1> HIDE DEF p, t, time, s
<1>5. /\ SameCalls(s, t)
      /\ \A j \in 1..Len(s) : t[j].nested = s[j].nested
      /\ \A j \in 1..Len(s) : t[j].profile = IF j = i THEN p ELSE s[j].profile
  <2>1. s \in Seq(Frame) /\ i \in 1..Len(s)
    BY <1>1 DEF s
  <2> QED
    BY <2>1, <1>3, ProfileUpdate, SMTT(40) DEF t
<1>6. t \in Seq(Frame) /\ Len(t) = Len(s) /\ i \in 1..Len(s) /\ Len(s) \in Nat
  BY <1>1, <1>5 DEF SameCalls, s
<1>7. /\ SameCalls(s, u)
      /\ \A j \in 1..Len(s) : u[j].nested = s[j].nested
      /\ \A j \in 1..Len(s) : j \notin {i, i - 1} => u[j].profile = s[j].profile
      /\ u[i].profile = p
      /\ i > 1 => u[i - 1].profile = [s[i - 1].profile EXCEPT !.taken = @ + time]
  <2>1. CASE i = 1
    BY <1>5, <1>6, <2>1
  <2>2. CASE i # 1
    <3>1. i - 1 \in 1..Len(t)
      BY <1>6, <2>2
    <3>2. t[i - 1].profile = s[i - 1].profile
      BY <3>1, <1>5, <1>6
    <3>3. t[i - 1].profile \in Cost
      <4>1. t[i - 1] \in Frame
        BY <3>1, <1>6
      <4> QED
        BY <4>1 DEF Frame
    <3>4. q \in Cost /\ q = [s[i - 1].profile EXCEPT !.taken = @ + time]
      <4> DEFINE v == t[i - 1].profile
      <4>1. v \in Cost
        BY <3>3
      <4> HIDE DEF v
      <4>2. [v EXCEPT !.taken = @ + time] \in Cost
        BY <4>1, <1>3, SMTT(40) DEF Cost
      <4> QED
        BY <4>2, <3>2 DEF v
    <3>5. u = [t EXCEPT ![i - 1].profile = q]
      BY <2>2
    <3> HIDE DEF q, u
    <3>6. /\ SameCalls(t, u)
          /\ \A j \in 1..Len(t) : u[j].nested = t[j].nested
          /\ \A j \in 1..Len(t) : u[j].profile = IF j = i - 1 THEN q ELSE t[j].profile
      <4> DEFINE k == i - 1
      <4>1. k \in 1..Len(t) /\ u = [t EXCEPT ![k].profile = q]
        BY <3>1, <3>5
      <4> HIDE DEF k
      <4>2. LET w == [t EXCEPT ![k].profile = q]
            IN  /\ SameCalls(t, w)
                /\ \A j \in 1..Len(t) : w[j].nested = t[j].nested
                /\ \A j \in 1..Len(t) : w[j].profile = IF j = k THEN q ELSE t[j].profile
          <5>1. t \in Seq(Frame) /\ k \in 1..Len(t) /\ q \in Cost
            BY <4>1, <3>4, <1>6
          <5> QED
            BY <5>1, ProfileUpdate
      <4> QED
        BY <4>1, <4>2 DEF k
    <3>7. SameCalls(s, u)
      BY <3>6, <1>5, SameTrans
    <3> QED
      BY <3>1, <3>4, <3>6, <3>7, <1>5, <1>6, SMTT(40)
  <2> QED
    BY <2>1, <2>2
<1> HIDE DEF u
<1>10. CallsOK(h)
  <2>1. Only(g, h, {"stack", "profiler_enabled", "profiles"})
    BY <1>1, FunctionEndOnly
  <2>2. h.profiler_enabled \in BOOLEAN
    BY <1>4 DEF CallsOK
  <2>3. /\ DOMAIN h = Fields /\ h.ini = g.ini /\ h.level = g.level
        /\ h.function_count = g.function_count /\ h.clock = g.clock /\ h.do_trace = g.do_trace
        /\ h.gc_stats_enabled = g.gc_stats_enabled /\ h.crashed = g.crashed
        /\ h.error_cb = g.error_cb
    BY <2>1 DEF Only, Fields
  <2>4. /\ h.clock \in Int /\ h.do_trace \in BOOLEAN /\ h.gc_stats_enabled \in BOOLEAN
        /\ h.crashed \in BOOLEAN /\ h.error_cb \in {"xdebug", "engine"}
    BY <2>3 DEF CallsOK
  <2>5. SameCalls(g.stack, h.stack)
    BY <1>4, <1>7 DEF s
  <2> QED
    BY <2>2, <2>3, <2>4, <2>5, SameOK
<1> QED
  BY <1>3, <1>4, <1>7, <1>10 DEF s, time

-----------------------------------------------------------------------------
(* The steps of a hook, one after the other *)

\* The frames of g and h are those of the same calls.
Still(g, h) ==
    /\ CallsOK(h) /\ SameCalls(g.stack, h.stack)
    /\ \A i \in 1..Len(g.stack) : h.stack[i].nested = g.stack[i].nested

LEMMA StillOnly ==
    ASSUME NEW g, CallsOK(g), NEW h,
           Only(g, h, Fields \ {"ini", "stack", "level", "function_count"}),
           h.clock \in Int, h.do_trace \in BOOLEAN, h.profiler_enabled \in BOOLEAN,
           h.gc_stats_enabled \in BOOLEAN, h.crashed \in BOOLEAN,
           h.error_cb \in {"xdebug", "engine"}
    PROVE  Still(g, h) /\ h.stack = g.stack
<1>1. /\ h.ini = g.ini /\ h.stack = g.stack /\ h.level = g.level
      /\ h.function_count = g.function_count /\ DOMAIN h = Fields
  BY DEF Only, Fields
<1>2. g.stack \in Seq(Frame)
  BY DEF CallsOK
<1>3. SameCalls(g.stack, h.stack)
  BY <1>1, <1>2, SameRefl
<1> QED
  BY <1>1, <1>3, SameOK DEF Still

LEMMA TickStill ==
    ASSUME NEW g, CallsOK(g)
    PROVE  Still(g, Tick(g)) /\ Tick(g).stack = g.stack /\ Only(g, Tick(g), {"clock"})
<1>1. Only(g, Tick(g), {"clock"})
  BY TickOnly DEF CallsOK
<1>2. Tick(g).clock \in Int
  BY DEF CallsOK, Tick, Fields
<1>3. Only(g, Tick(g), Fields \ {"ini", "stack", "level", "function_count"})
  BY <1>1, OnlyMore DEF Fields
<1>4. /\ Tick(g).do_trace = g.do_trace /\ Tick(g).profiler_enabled = g.profiler_enabled
      /\ Tick(g).gc_stats_enabled = g.gc_stats_enabled /\ Tick(g).crashed = g.crashed
      /\ Tick(g).error_cb = g.error_cb
  BY <1>1 DEF Only, Fields
<1> QED
  BY <1>1, <1>2, <1>3, <1>4, StillOnly DEF CallsOK

LEMMA TraceLineStill ==
    ASSUME NEW g, CallsOK(g), NEW kind, NEW fse
    PROVE  LET h == TraceLine(g, kind, fse)
           IN  Still(g, h) /\ h.stack = g.stack /\ Only(g, h, {"traces"})
<1> DEFINE h == TraceLine(g, kind, fse)
<1>1. Only(g, h, {"traces"})
  BY TraceLineOnly DEF CallsOK
<1> HIDE DEF h
<1>2. Only(g, h, Fields \ {"ini", "stack", "level", "function_count"})
  BY <1>1, OnlyMore DEF Fields
<1>3. /\ h.do_trace = g.do_trace /\ h.profiler_enabled = g.profiler_enabled
      /\ h.gc_stats_enabled = g.gc_stats_enabled /\ h.crashed = g.crashed
      /\ h.error_cb = g.error_cb /\ h.clock = g.clock
  BY <1>1 DEF Only, Fields
<1> QED
  BY <1>1, <1>2, <1>3, StillOnly DEF CallsOK, h

LEMMA EndTraceStill ==
    ASSUME NEW g, CallsOK(g), NEW returns
    PROVE  LET h == EndTrace(g, returns)
           IN  Still(g, h) /\ h.stack = g.stack /\ Only(g, h, {"traces"})
<1> DEFINE h == EndTrace(g, returns)
<1>1. Only(g, h, {"traces"})
  BY EndTraceOnly DEF CallsOK
<1> HIDE DEF h
<1>2. Only(g, h, Fields \ {"ini", "stack", "level", "function_count"})
  BY <1>1, OnlyMore DEF Fields
<1>3. /\ h.do_trace = g.do_trace /\ h.profiler_enabled = g.profiler_enabled
      /\ h.gc_stats_enabled = g.gc_stats_enabled /\ h.crashed = g.crashed
      /\ h.error_cb = g.error_cb /\ h.clock = g.clock
  BY <1>1 DEF Only, Fields
<1> QED
  BY <1>1, <1>2, <1>3, StillOnly DEF CallsOK, h

LEMMA BeginProfileStill ==
    ASSUME NEW g, CallsOK(g), g.stack # <<>>
    PROVE  Still(g, BeginProfile(g)) /\ Only(g, BeginProfile(g), {"stack"})
<1> DEFINE h == BeginProfile(g)
           n == Len(g.stack)
           p == [g.stack[n].profile EXCEPT !.time = 0, !.mark = g.clock]
<1>1. Only(g, h, {"stack"}) /\ DOMAIN g = Fields
  BY BeginProfileOnly DEF CallsOK
<1>2. g.stack \in Seq(Frame) /\ n \in 1..Len(g.stack) /\ g.clock \in Int
  BY DEF CallsOK
<1>3. p \in Cost
  <2> DEFINE v == g.stack[n].profile
             w == [v EXCEPT !.time = 0]
  <2>1. g.stack[n] \in Frame
    BY <1>2
  <2>2. v \in Cost
    BY <2>1 DEF Frame
  <2> HIDE DEF v
  <2>3. w \in Cost
    BY <2>2 DEF Cost
  <2> HIDE DEF w
  <2>4. [w EXCEPT !.mark = g.clock] \in Cost
    BY <1>2, <2>3 DEF Cost
  <2> QED
    BY <2>4 DEF v, w
<1>4. h.stack = IF g.profiler_enabled THEN [g.stack EXCEPT ![n].profile = p] ELSE g.stack
  BY <1>1 DEF BeginProfile, FunctionBegin, Fields
<1> HIDE DEF h, p
<1>5. /\ SameCalls(g.stack, h.stack)
      /\ \A i \in 1..Len(g.stack) : h.stack[i].nested = g.stack[i].nested
  <2>1. CASE ~g.profiler_enabled
    BY <1>2, <1>4, <2>1, SameRefl
  <2>2. CASE g.profiler_enabled
    BY <1>2, <1>3, <1>4, <2>2, ProfileUpdate, SMTT(40)
  <2> QED
    BY <2>1, <2>2
<1>6. CallsOK(h)
  BY <1>1, <1>5, SameOK DEF Only, Fields, CallsOK
<1> QED
  BY <1>1, <1>5, <1>6 DEF Still, h

LEMMA EndProfileStill ==
    ASSUME NEW g, CallsOK(g), g.stack # <<>>
    PROVE  /\ Still(g, EndProfile(g))
           /\ Only(g, EndProfile(g), {"stack", "profiler_enabled", "profiles"})
<1> DEFINE n == Len(g.stack)
<1>1. DOMAIN g = Fields /\ g.stack \in Seq(Frame) /\ n \in 1..Len(g.stack)
  BY DEF CallsOK
<1>2. Only(g, EndProfile(g), {"stack", "profiler_enabled", "profiles"})
  BY <1>1, EndProfileOnly
<1>3. CASE ~g.profiler_enabled
  <2>1. SameCalls(g.stack, g.stack)
    BY <1>1, SameRefl
  <2> QED
    BY <2>1, <1>2, <1>3 DEF EndProfile, Still
<1>4. CASE g.profiler_enabled
  <2>1. Still(g, FunctionEnd(g, n))
    BY <1>1, FunctionEndFrames, ZenonT(60) DEF Still
  <2> QED
    BY <2>1, <1>2, <1>4 DEF EndProfile
<1> QED
  BY <1>3, <1>4

LEMMA RemoveFrame ==
    ASSUME NEW g, CallsOK(g), g.stack # <<>>
    PROVE  LET h == RemoveStackFrame(g)
           IN  /\ Popped(g, h) /\ CallsOK(h) /\ Only(g, h, {"stack", "level"})
               /\ \A i \in 1..Len(h.stack) : h.stack[i] = g.stack[i]
<1> DEFINE h == RemoveStackFrame(g)
           n == Len(g.stack)
<1>1. Only(g, h, {"stack", "level"}) /\ DOMAIN g = Fields
  BY RemoveStackFrameOnly DEF CallsOK
<1>2. g.stack \in Seq(Frame) /\ n \in Nat /\ n >= 1 /\ g.level = n
  BY DEF CallsOK
<1>3. h.stack = SubSeq(g.stack, 1, n - 1) /\ h.level = n - 1
  BY <1>1, <1>2 DEF RemoveStackFrame, Fields, Front
<1> HIDE DEF h
<1>4. /\ h.stack \in Seq(Frame) /\ Len(h.stack) = n - 1
      /\ \A i \in 1..n - 1 : h.stack[i] = g.stack[i]
  <2>1. \A i \in 1..n - 1 : g.stack[i] \in Frame
    BY <1>2
  <2> QED
    BY <1>2, <1>3, <2>1
<1>5. h.function_count = g.function_count
  BY <1>1 DEF Only, Fields
<1>6. Popped(g, h)
  BY <1>2, <1>3, <1>4, <1>5 DEF Popped, Alike
<1>7. CallsOK(h)
  BY <1>1, <1>6, PoppedOK DEF Only, Fields, CallsOK
<1> QED
  BY <1>1, <1>2, <1>4, <1>6, <1>7 DEF h

LEMMA StartTraceStill ==
    ASSUME NEW g, CallsOK(g), NEW options, NEW opened
    PROVE  LET h == StartTrace(g, options, opened)
           IN  Still(g, h) /\ h.stack = g.stack /\ Only(g, h, {"trace_handler", "do_trace", "traces", "trace_context"})
<1> DEFINE h == StartTrace(g, options, opened)
<1>1. Only(g, h, {"trace_handler", "do_trace", "traces", "trace_context"})
  BY StartTraceOnly DEF CallsOK
<1>2. h.do_trace \in BOOLEAN
  BY DEF CallsOK, StartTrace, Fields
<1> HIDE DEF h
<1>3. Only(g, h, Fields \ {"ini", "stack", "level", "function_count"})
  BY <1>1, OnlyMore DEF Fields
<1>4. /\ h.clock = g.clock /\ h.profiler_enabled = g.profiler_enabled
      /\ h.gc_stats_enabled = g.gc_stats_enabled /\ h.crashed = g.crashed /\ h.error_cb = g.error_cb
  BY <1>1 DEF Only, Fields
<1> QED
  BY <1>1, <1>2, <1>3, <1>4, StillOnly DEF CallsOK, h

LEMMA StopTraceStill ==
    ASSUME NEW g, CallsOK(g)
    PROVE  LET h == StopTrace(g)
           IN  Still(g, h) /\ h.stack = g.stack /\ Only(g, h, {"do_trace", "traces", "trace_context"})
<1> DEFINE h == StopTrace(g)
<1>1. Only(g, h, {"do_trace", "traces", "trace_context"})
  BY StopTraceOnly DEF CallsOK
<1>2. h.do_trace \in BOOLEAN
  BY DEF CallsOK, StopTrace, Fields
<1> HIDE DEF h
<1>3. Only(g, h, Fields \ {"ini", "stack", "level", "function_count"})
  BY <1>1, OnlyMore DEF Fields
<1>4. /\ h.clock = g.clock /\ h.profiler_enabled = g.profiler_enabled
      /\ h.gc_stats_enabled = g.gc_stats_enabled /\ h.crashed = g.crashed /\ h.error_cb = g.error_cb
  BY <1>1 DEF Only, Fields
<1> QED
  BY <1>1, <1>2, <1>3, <1>4, StillOnly DEF CallsOK, h

LEMMA ProfilerInitStill ==
    ASSUME NEW g, CallsOK(g), NEW opened
    PROVE  LET h == ProfilerInit(g, opened)
           IN  Still(g, h) /\ h.stack = g.stack /\ Only(g, h, {"profile_file", "profiler_enabled", "profiles"})
<1> DEFINE h == ProfilerInit(g, opened)
<1>1. Only(g, h, {"profile_file", "profiler_enabled", "profiles"})
  BY ProfilerInitOnly DEF CallsOK
<1>2. h.profiler_enabled \in BOOLEAN
  BY DEF CallsOK, ProfilerInit, Fields
<1> HIDE DEF h
<1>3. Only(g, h, Fields \ {"ini", "stack", "level", "function_count"})
  BY <1>1, OnlyMore DEF Fields
<1>4. /\ h.clock = g.clock /\ h.do_trace = g.do_trace
      /\ h.gc_stats_enabled = g.gc_stats_enabled /\ h.crashed = g.crashed /\ h.error_cb = g.error_cb
  BY <1>1 DEF Only, Fields
<1> QED
  BY <1>1, <1>2, <1>3, <1>4, StillOnly DEF CallsOK, h

LEMMA GcStatsInitStill ==
    ASSUME NEW g, CallsOK(g), NEW opened
    PROVE  LET h == GcStatsInit(g, opened)
           IN  Still(g, h) /\ h.stack = g.stack /\ Only(g, h, {"gc_reports", "gc_stats_file", "gc_stats_enabled"})
<1> DEFINE h == GcStatsInit(g, opened)
<1>1. Only(g, h, {"gc_reports", "gc_stats_file", "gc_stats_enabled"})
  BY GcStatsInitOnly DEF CallsOK
<1>2. h.gc_stats_enabled \in BOOLEAN
  BY DEF CallsOK, GcStatsInit, Fields
<1> HIDE DEF h
<1>3. Only(g, h, Fields \ {"ini", "stack", "level", "function_count"})
  BY <1>1, OnlyMore DEF Fields
<1>4. /\ h.clock = g.clock /\ h.do_trace = g.do_trace
      /\ h.profiler_enabled = g.profiler_enabled /\ h.crashed = g.crashed /\ h.error_cb = g.error_cb
  BY <1>1 DEF Only, Fields
<1> QED
  BY <1>1, <1>2, <1>3, <1>4, StillOnly DEF CallsOK, h

LEMMA StopGcStatsStill ==
    ASSUME NEW g, CallsOK(g)
    PROVE  LET h == StopGcStats(g)
           IN  Still(g, h) /\ h.stack = g.stack /\ Only(g, h, {"gc_stats_file", "gc_stats_enabled"})
<1> DEFINE h == StopGcStats(g)
<1>1. Only(g, h, {"gc_stats_file", "gc_stats_enabled"})
  BY StopGcStatsOnly DEF CallsOK
<1>2. h.gc_stats_enabled \in BOOLEAN
  BY DEF CallsOK, StopGcStats, Fields
<1> HIDE DEF h
<1>3. Only(g, h, Fields \ {"ini", "stack", "level", "function_count"})
  BY <1>1, OnlyMore DEF Fields
<1>4. /\ h.clock = g.clock /\ h.do_trace = g.do_trace
      /\ h.profiler_enabled = g.profiler_enabled /\ h.crashed = g.crashed /\ h.error_cb = g.error_cb
  BY <1>1 DEF Only, Fields
<1> QED
  BY <1>1, <1>2, <1>3, <1>4, StillOnly DEF CallsOK, h

LEMMA UpdateSharedCallstackStill ==
    ASSUME NEW g, CallsOK(g)
    PROVE  LET h == UpdateSharedCallstack(g)
           IN  Still(g, h) /\ h.stack = g.stack /\ Only(g, h, {"page"})
<1> DEFINE h == UpdateSharedCallstack(g)
<1>1. Only(g, h, {"page"})
  BY UpdateSharedCallstackOnly DEF CallsOK
<1> HIDE DEF h
<1>3. Only(g, h, Fields \ {"ini", "stack", "level", "function_count"})
  BY <1>1, OnlyMore DEF Fields
<1>4. /\ h.clock = g.clock /\ h.do_trace = g.do_trace
      /\ h.profiler_enabled = g.profiler_enabled /\ h.gc_stats_enabled = g.gc_stats_enabled /\ h.crashed = g.crashed /\ h.error_cb = g.error_cb
  BY <1>1 DEF Only, Fields
<1> QED
  BY <1>1, <1>3, <1>4, StillOnly DEF CallsOK, h

LEMMA ErrorCbStill ==
    ASSUME NEW g, CallsOK(g), NEW type
    PROVE  LET h == ErrorCb(g, type)
           IN  Still(g, h) /\ h.stack = g.stack /\ Only(g, h, {"collected_errors"})
<1> DEFINE h == ErrorCb(g, type)
<1>1. Only(g, h, {"collected_errors"})
  BY ErrorCbOnly DEF CallsOK
<1> HIDE DEF h
<1>3. Only(g, h, Fields \ {"ini", "stack", "level", "function_count"})
  BY <1>1, OnlyMore DEF Fields
<1>4. /\ h.clock = g.clock /\ h.do_trace = g.do_trace
      /\ h.profiler_enabled = g.profiler_enabled /\ h.gc_stats_enabled = g.gc_stats_enabled /\ h.crashed = g.crashed /\ h.error_cb = g.error_cb
  BY <1>1 DEF Only, Fields
<1> QED
  BY <1>1, <1>3, <1>4, StillOnly DEF CallsOK, h

LEMMA SoapRestoredStill ==
    ASSUME NEW g, CallsOK(g), g.stack # <<>>
    PROVE  LET h == SoapRestored(g)
           IN  Still(g, h) /\ h.stack = g.stack /\ Only(g, h, {"error_cb"})
<1> DEFINE h == SoapRestored(g)
           n == Len(g.stack)
<1>1. Only(g, h, {"error_cb"})
  BY SoapRestoredOnly DEF CallsOK
<1>2. g.stack[n].error_cb \in {"xdebug", "engine"}
  <2>1. g.stack[n] \in Frame
    BY DEF CallsOK
  <2> QED
    BY <2>1 DEF Frame
<1>3. h.error_cb \in {"xdebug", "engine"}
  BY <1>2 DEF CallsOK, SoapRestored, Last, Fields
<1> HIDE DEF h
<1>4. Only(g, h, Fields \ {"ini", "stack", "level", "function_count"})
  BY <1>1, OnlyMore DEF Fields
<1>5. /\ h.do_trace = g.do_trace /\ h.profiler_enabled = g.profiler_enabled
      /\ h.gc_stats_enabled = g.gc_stats_enabled /\ h.crashed = g.crashed /\ h.clock = g.clock
  BY <1>1 DEF Only, Fields
<1> QED
  BY <1>1, <1>3, <1>4, <1>5, StillOnly DEF CallsOK, h

LEMMA StillTrans ==
    ASSUME NEW g, NEW h, NEW k, Still(g, h), Still(h, k)
    PROVE  Still(g, k)
<1>1. SameCalls(g.stack, k.stack)
  BY SameTrans DEF Still
<1>2. Len(g.stack) = Len(h.stack)
  BY DEF Still, SameCalls
<1> QED
  BY <1>1, <1>2 DEF Still

LEMMA StillRefl ==
    ASSUME NEW g, CallsOK(g)
    PROVE  Still(g, g)
BY SameRefl DEF Still, CallsOK

\* What the first call of a stack starts leaves the calls and the error callback.
LEMMA LevelZeroStill ==
    ASSUME NEW g, CallsOK(g), NEW opened
    PROVE  LET h == LevelZero(g, opened)
           IN  /\ Still(g, h) /\ h.stack = g.stack
               /\ Only(g, h, {"profile_file", "profiler_enabled", "profiles",
                              "trace_handler", "do_trace", "traces", "trace_context",
                              "gc_reports", "gc_stats_file", "gc_stats_enabled"})
<1> DEFINE p == IF g.ini.profiler_enable /\ ~g.profiler_enabled
                THEN ProfilerInit(g, opened) ELSE g
           t == IF p.ini.auto_trace THEN StartTrace(p, p.ini.trace_options, opened) ELSE p
           h == IF t.ini.gc_stats_enable /\ ~t.gc_stats_enabled
                THEN GcStatsInit(t, opened) ELSE t
           P == {"profile_file", "profiler_enabled", "profiles"}
           T == {"trace_handler", "do_trace", "traces", "trace_context"}
           G == {"gc_reports", "gc_stats_file", "gc_stats_enabled"}
<1>1. Still(g, p) /\ p.stack = g.stack /\ Only(g, p, P)
  <2>1. Still(g, g) /\ Only(g, g, P)
    BY StillRefl, OnlyNone DEF CallsOK
  <2> QED
    BY <2>1, ProfilerInitStill
<1> HIDE DEF p
<1>2. CallsOK(p)
  BY <1>1 DEF Still
<1>3. Still(p, t) /\ t.stack = p.stack /\ Only(p, t, T)
  <2>1. Still(p, p) /\ Only(p, p, T)
    BY <1>2, StillRefl, OnlyNone DEF CallsOK
  <2> QED
    BY <2>1, <1>2, StartTraceStill
<1> HIDE DEF t
<1>4. CallsOK(t)
  BY <1>3 DEF Still
<1>5. Still(t, h) /\ h.stack = t.stack /\ Only(t, h, G)
  <2>1. Still(t, t) /\ Only(t, t, G)
    BY <1>4, StillRefl, OnlyNone DEF CallsOK
  <2> QED
    BY <2>1, <1>4, GcStatsInitStill
<1> HIDE DEF h
<1>6. Still(g, h) /\ h.stack = g.stack
  BY <1>1, <1>3, <1>5, StillTrans
<1>7. Only(g, h, (P \cup T) \cup G)
  BY <1>1, <1>3, <1>5, OnlyTrans
<1>8. Only(g, h, {"profile_file", "profiler_enabled", "profiles",
                  "trace_handler", "do_trace", "traces", "trace_context",
                  "gc_reports", "gc_stats_file", "gc_stats_enabled"})
  BY <1>7, OnlyMore
<1>9. h = LevelZero(g, opened)
  BY DEF LevelZero, p, t, h
<1> QED
  BY <1>6, <1>8, <1>9

LEMMA PageClearedCalls ==
    ASSUME NEW g, CallsOK(g)
    PROVE  LET h == PageCleared(g)
           IN  /\ CallsOK(h) /\ SameCalls(g.stack, h.stack)
               /\ Only(g, h, {"page", "dropped", "stack"})
               /\ h.page = NoPage /\ h.dropped = {}
               /\ \A i \in 1..Len(g.stack) : /\ h.stack[i].nested = TRUE
                                             /\ h.stack[i].profile = g.stack[i].profile
<1> DEFINE h == PageCleared(g)
           s == g.stack
<1>1. Only(g, h, {"page", "dropped", "stack"}) /\ DOMAIN g = Fields
  BY PageClearedOnly DEF CallsOK
<1>2. s \in Seq(Frame)
  BY DEF CallsOK
<1>3. /\ h.stack = [i \in DOMAIN s |-> [s[i] EXCEPT !.nested = TRUE]]
      /\ h.page = NoPage /\ h.dropped = {}
  BY <1>1 DEF PageCleared, Fields
<1> HIDE DEF h, s
<1>4. \A i \in 1..Len(s) : /\ [s[i] EXCEPT !.nested = TRUE] \in Frame
                           /\ [s[i] EXCEPT !.nested = TRUE].nested = TRUE
                           /\ [s[i] EXCEPT !.nested = TRUE].profile = s[i].profile
                           /\ Alike(s[i], [s[i] EXCEPT !.nested = TRUE])
  <2> TAKE i \in 1..Len(s)
  <2> DEFINE f == s[i]
  <2>1. f \in Frame
    BY <1>2
  <2> HIDE DEF f
  <2>2. /\ [f EXCEPT !.nested = TRUE] \in Frame
        /\ [f EXCEPT !.nested = TRUE].nested = TRUE
        /\ [f EXCEPT !.nested = TRUE].profile = f.profile
        /\ Alike(f, [f EXCEPT !.nested = TRUE])
    BY <2>1 DEF Frame, Alike
  <2> QED
    BY <2>2 DEF f
<1>5. /\ h.stack \in Seq(Frame) /\ Len(h.stack) = Len(s)
      /\ \A i \in 1..Len(s) : h.stack[i] = [s[i] EXCEPT !.nested = TRUE]
  <2>1. DOMAIN s = 1..Len(s) /\ Len(s) \in Nat
    BY <1>2
  <2>2. h.stack \in [1..Len(s) -> Frame]
    BY <1>3, <1>4, <2>1
  <2> QED
    BY <1>3, <2>1, <2>2
<1>6. SameCalls(s, h.stack)
  BY <1>2, <1>4, <1>5 DEF SameCalls
<1>7. CallsOK(h)
  BY <1>1, <1>6, SameOK DEF Only, Fields, CallsOK, s
<1> QED
  BY <1>1, <1>3, <1>4, <1>5, <1>6, <1>7 DEF h, s

-----------------------------------------------------------------------------
(* Traces *)

Line  == [kind : {"entry", "exit", "return"}, nr : Int, level : Int]
Trace == [format : DOMAIN TraceHandlers, lines : Seq(Line), footer : BOOLEAN,
          replaced : BOOLEAN, running : SUBSET Int]

\* A trace without a footer is the one in progress or has lost its place to an
\* automatic start, and a trace is on without a file only after such a start.
TracesOK(g) ==
    /\ g.traces \in Seq(Trace) /\ g.trace_context \in 0..Len(g.traces)
    /\ g.trace_handler \in DOMAIN TraceHandlers
    /\ g.trace_context # None =>
          g.do_trace /\ g.trace_handler = g.traces[g.trace_context].format
    /\ g.do_trace /\ g.trace_context = None => g.ini.auto_trace
    /\ \A i \in 1..Len(g.traces) :
          /\ g.traces[i].footer \/ g.traces[i].replaced \/ i = g.trace_context
          /\ g.traces[i].replaced => g.ini.auto_trace

\* The calls that are open in a trace are those in progress that are not
\* filtered and began after the trace, in the order of the stack.
Tracks(lines, running, open, stack, count) ==
    /\ \A i \in 1..Len(lines) : lines[i].nr <= count
    /\ \A nr \in running : nr <= count
    /\ \A i, j \in 1..Len(stack) : i < j /\ stack[j].nr \in running => stack[i].nr \in running
    /\ \A i \in open : \E j \in 1..Len(stack) :
          /\ stack[j].nr = lines[i].nr /\ stack[j].level = lines[i].level
          /\ ~stack[j].filtered /\ stack[j].nr \notin running
    /\ \A j \in 1..Len(stack) : ~stack[j].filtered /\ stack[j].nr \notin running =>
          \E i \in open : lines[i].nr = stack[j].nr
    /\ \A i, j \in open : i < j => lines[i].level < lines[j].level

Follows(t, stack, count) ==
    Tracks(t.lines, t.running, OpenCalls(t, Len(t.lines)), stack, count)

NestOK(g) ==
    /\ \A i \in 1..Len(g.traces) :
          g.traces[i].format = "computerized" => Nested(g.traces[i])
    /\ g.trace_context # None /\ g.traces[g.trace_context].format = "computerized" =>
          Follows(g.traces[g.trace_context], g.stack, g.function_count)

LEMMA OpenPrefix ==
    ASSUME NEW t, NEW u, NEW line \in Line, t.lines \in Seq(Line),
           u.lines = Append(t.lines, line), NEW n \in 0..Len(t.lines)
    PROVE  OpenCalls(u, n) = OpenCalls(t, n)
<1>1. \A k \in 1..n : u.lines[k] = t.lines[k]
  OBVIOUS
<1>2. \A i \in 1..n : i..n \subseteq 1..n
  OBVIOUS
<1> QED
  BY <1>1, <1>2 DEF OpenCalls

\* What one more line does to the calls that are open.
LEMMA OpenStep ==
    ASSUME NEW t, NEW u, NEW line \in Line, t.lines \in Seq(Line),
           u.lines = Append(t.lines, line)
    PROVE  LET n == Len(t.lines)
           IN  /\ line.kind = "entry" => OpenCalls(u, n + 1) = OpenCalls(t, n) \cup {n + 1}
               /\ line.kind = "exit" =>
                     \A i : i \in OpenCalls(u, n + 1) <=>
                             i \in OpenCalls(t, n) /\ t.lines[i].nr # line.nr
               /\ line.kind \notin {"entry", "exit"} => OpenCalls(u, n + 1) = OpenCalls(t, n)
<1> DEFINE n == Len(t.lines)
<1>1. n \in Nat /\ u.lines[n + 1] = line /\ \A k \in 1..n : u.lines[k] = t.lines[k]
  OBVIOUS
<1>2. \A i \in 1..n : /\ i..n + 1 = (i..n) \cup {n + 1}
                      /\ i..n \subseteq 1..n
  BY <1>1
<1>3. 1..n + 1 = (1..n) \cup {n + 1} /\ (n + 1)..n + 1 = {n + 1} /\ n + 1 \notin 1..n
  BY <1>1
<1> HIDE DEF n
<1>4. \A i \in 1..n :
         i \in OpenCalls(u, n + 1) <=>
            i \in OpenCalls(t, n) /\ (line.kind = "exit" => t.lines[i].nr # line.nr)
  BY <1>1, <1>2, <1>3 DEF OpenCalls
<1>5. n + 1 \in OpenCalls(u, n + 1) <=> line.kind = "entry"
  BY <1>1, <1>3 DEF OpenCalls
<1>6. OpenCalls(t, n) \subseteq 1..n /\ OpenCalls(u, n + 1) \subseteq 1..n + 1
  BY DEF OpenCalls
<1>7. CASE line.kind = "entry"
  <2>1. OpenCalls(u, n + 1) = OpenCalls(t, n) \cup {n + 1}
    BY <1>3, <1>4, <1>5, <1>6, <1>7
  <2> QED
    BY <2>1, <1>7 DEF n
<1>8. CASE line.kind = "exit"
  <2>1. \A i : i \in OpenCalls(u, n + 1) <=>
                 i \in OpenCalls(t, n) /\ t.lines[i].nr # line.nr
    BY <1>3, <1>4, <1>5, <1>6, <1>8
  <2> QED
    BY <2>1, <1>8 DEF n
<1>9. CASE line.kind \notin {"entry", "exit"}
  <2>1. OpenCalls(u, n + 1) = OpenCalls(t, n)
    BY <1>3, <1>4, <1>5, <1>6, <1>9
  <2> QED
    BY <2>1, <1>9 DEF n
<1> QED
  BY <1>7, <1>8, <1>9

\* A trace nests with one more line if that line does.
LEMMA NestedStep ==
    ASSUME NEW t, NEW u, NEW line \in Line, t.lines \in Seq(Line),
           u.lines = Append(t.lines, line), u.running = t.running, Nested(t),
           line.kind = "entry" =>
              \A i \in OpenCalls(t, Len(t.lines)) : t.lines[i].level < line.level,
           line.kind = "exit" =>
              \/ OpenCalls(t, Len(t.lines)) = {} /\ line.nr \in t.running
              \/ \E i \in OpenCalls(t, Len(t.lines)) :
                    /\ t.lines[i].nr = line.nr
                    /\ \A j \in OpenCalls(t, Len(t.lines)) : j <= i
    PROVE  Nested(u)
<1> DEFINE n == Len(t.lines)
<1>1. n \in Nat /\ Len(u.lines) = n + 1 /\ u.lines[n + 1] = line
      /\ \A k \in 1..n : u.lines[k] = t.lines[k]
  OBVIOUS
<1>2. \A m \in 0..n : OpenCalls(u, m) = OpenCalls(t, m) /\ OpenCalls(t, m) \subseteq 1..m
  BY OpenPrefix, SMTT(40) DEF OpenCalls
<1> SUFFICES ASSUME NEW m \in 1..n + 1
             PROVE  LET open == OpenCalls(u, m - 1)
                    IN  /\ u.lines[m].kind = "entry" =>
                              \A i \in open : u.lines[i].level < u.lines[m].level
                        /\ u.lines[m].kind = "exit" =>
                              \/ open = {} /\ u.lines[m].nr \in u.running
                              \/ \E i \in open : /\ u.lines[i].nr = u.lines[m].nr
                                                 /\ \A j \in open : j <= i
  BY <1>1 DEF Nested
<1>3. m - 1 \in 0..n /\ 1..m - 1 \subseteq 1..n
  BY <1>1
<1>4. CASE m = n + 1
  <2>1. m - 1 = n
    BY <1>1, <1>4
  <2> QED
    BY <2>1, <1>1, <1>2, <1>3, <1>4
<1>5. CASE m \in 1..n
  BY <1>1, <1>2, <1>3, <1>5 DEF Nested
<1>6. m = n + 1 \/ m \in 1..n
  BY <1>1
<1> QED
  BY <1>4, <1>5, <1>6

LEMMA SameLines ==
    ASSUME NEW t, NEW u, u.lines = t.lines, u.running = t.running
    PROVE  /\ \A n \in Int : OpenCalls(u, n) = OpenCalls(t, n)
           /\ Nested(u) <=> Nested(t)
<1>1. \A n \in Int : OpenCalls(u, n) = OpenCalls(t, n)
  BY DEF OpenCalls
<1>2. Nested(u) <=> Nested(t)
  BY DEF Nested, OpenCalls
<1> QED
  BY <1>1, <1>2

LEMMA LineOK ==
    ASSUME NEW e, e.nr \in Int, e.level \in Int
    PROVE  \A kind \in {"entry", "exit", "return"} :
              LET line == [kind |-> kind, nr |-> e.nr, level |-> e.level]
              IN  line \in Line /\ line.kind = kind /\ line.nr = e.nr /\ line.level = e.level
BY DEF Line

\* What is known of a trace that another call pushed on the stack follows.
LEMMA FollowsPush ==
    ASSUME NEW g, NEW h, CallsOK(g), NEW fn, NEW internal, Pushed(g, h, fn, internal),
           NEW t, NEW u, t.lines \in Seq(Line), t.running \in SUBSET Int, Nested(t),
           Follows(t, g.stack, g.function_count), u.running = t.running,
           LET e == h.stack[Len(h.stack)]
           IN  \/ e.filtered = TRUE /\ u.lines = t.lines
               \/ /\ e.filtered = FALSE
                  /\ u.lines = Append(t.lines, [kind |-> "entry", nr |-> e.nr, level |-> e.level])
    PROVE  Nested(u) /\ Follows(u, h.stack, h.function_count)
<1> DEFINE n == Len(g.stack)
           c == g.function_count
           s == g.stack
           e == h.stack[n + 1]
           line == [kind |-> "entry", nr |-> e.nr, level |-> e.level]
           l == Len(t.lines)
           open == OpenCalls(t, l)
<1>1. /\ n \in Nat /\ Len(h.stack) = n + 1 /\ c \in Int /\ h.function_count = c + 1
      /\ e.nr = c + 1 /\ e.level = n + 1 /\ l \in Nat
      /\ \A i \in 1..n : /\ h.stack[i].nr = s[i].nr /\ h.stack[i].level = s[i].level
                         /\ h.stack[i].filtered = s[i].filtered
  BY SMTT(40) DEF CallsOK, Pushed, Alike
<1>2. \A i \in 1..n : s[i].level = i /\ s[i].nr \in 0..c
  BY DEF CallsOK, Ordered
<1>3. open \subseteq 1..l
  BY DEF OpenCalls
<1>13. h.stack[n + 1] = e /\ h.stack[Len(h.stack)] = e
  BY <1>1
<1>4. line \in Line /\ line.nr = c + 1 /\ line.level = n + 1 /\ line.kind = "entry"
  <2>1. e.nr \in Int /\ e.level \in Int
    BY <1>1
  <2> HIDE DEF e
  <2> QED
    <3>1. line \in Line /\ line.nr = e.nr /\ line.level = e.level /\ line.kind = "entry"
      BY <2>1, LineOK
    <3> QED
      BY <3>1, <1>1
<1>5. /\ \A i \in 1..l : t.lines[i].nr <= c /\ t.lines[i].nr \in Int
      /\ \A nr \in t.running : nr <= c /\ nr \in Int
      /\ \A i, j \in 1..n : i < j /\ s[j].nr \in t.running => s[i].nr \in t.running
      /\ \A i \in open : \E j \in 1..n :
            /\ s[j].nr = t.lines[i].nr /\ s[j].level = t.lines[i].level
            /\ ~s[j].filtered /\ s[j].nr \notin t.running
      /\ \A j \in 1..n : ~s[j].filtered /\ s[j].nr \notin t.running =>
            \E i \in open : t.lines[i].nr = s[j].nr
      /\ \A i, j \in open : i < j => t.lines[i].level < t.lines[j].level
  <2>1. \A i \in 1..l : t.lines[i] \in Line
    OBVIOUS
  <2>2. \A i \in 1..l : t.lines[i].nr \in Int
    BY <2>1 DEF Line
  <2> QED
    BY <2>2 DEF Follows, Tracks
<1> HIDE DEF n, c, s, l, e, line, open
<1>6. \A i \in open : t.lines[i].level < n + 1
  <2> TAKE i \in open
  <2>1. PICK j \in 1..n : s[j].level = t.lines[i].level
    BY <1>5
  <2> QED
    BY <2>1, <1>1, <1>2
<1>7. c + 1 \notin t.running
  BY <1>1, <1>5
<1>8. \A i, j \in 1..n + 1 : i < j /\ h.stack[j].nr \in t.running => h.stack[i].nr \in t.running
  <2> TAKE i, j \in 1..n + 1
  <2> HAVE i < j /\ h.stack[j].nr \in t.running
  <2>1. j \in 1..n
    BY <1>1, <1>7, <1>13
  <2>2. i \in 1..n
    BY <2>1, <1>1
  <2> QED
    BY <2>1, <2>2, <1>1, <1>5
<1>9. \A nr \in t.running : nr <= c + 1
  BY <1>1, <1>5
<1>10. CASE e.filtered = TRUE /\ u.lines = t.lines
  <2>1. OpenCalls(u, Len(u.lines)) = open /\ Nested(u)
    BY <1>10, SameLines DEF open, l
  <2>2. \A i \in 1..l : t.lines[i].nr <= c + 1
    BY <1>1, <1>5
  <2>3. \A i \in open : \E j \in 1..n + 1 :
            /\ h.stack[j].nr = t.lines[i].nr /\ h.stack[j].level = t.lines[i].level
            /\ ~h.stack[j].filtered /\ h.stack[j].nr \notin t.running
    <3> TAKE i \in open
    <3>1. PICK j \in 1..n : /\ s[j].nr = t.lines[i].nr /\ s[j].level = t.lines[i].level
                            /\ ~s[j].filtered /\ s[j].nr \notin t.running
      BY <1>5
    <3>2. j \in 1..n + 1
      BY <1>1
    <3> QED
      BY <3>1, <3>2, <1>1
  <2>4. \A j \in 1..n + 1 : ~h.stack[j].filtered /\ h.stack[j].nr \notin t.running =>
            \E i \in open : t.lines[i].nr = h.stack[j].nr
    <3> TAKE j \in 1..n + 1
    <3>1. j = n + 1 \/ j \in 1..n
      BY <1>1
    <3>2. CASE j = n + 1
      BY <1>10, <1>13, <3>2
    <3>3. CASE j \in 1..n
      BY <1>1, <1>5, <3>3, SMTT(40)
    <3> QED
      BY <3>1, <3>2, <3>3
  <2>5. Follows(u, h.stack, c + 1)
    <3>1. /\ Len(u.lines) = l /\ Len(h.stack) = n + 1 /\ u.running = t.running
          /\ u.lines = t.lines
      BY <1>1, <1>10 DEF l
    <3>2. \A i, j \in open : i < j => t.lines[i].level < t.lines[j].level
      BY <1>5
    <3> QED
      <4>1. Tracks(t.lines, t.running, open, h.stack, c + 1)
        BY <2>2, <2>3, <2>4, <3>1, <3>2, <1>8, <1>9 DEF Tracks
      <4> QED
        BY <2>1, <3>1, <4>1 DEF Follows
  <2> QED
    BY <2>1, <2>5, <1>1
<1>11. CASE e.filtered = FALSE /\ u.lines = Append(t.lines, line)
  <2>1. OpenCalls(u, l + 1) = open \cup {l + 1}
    BY <1>4, <1>11, OpenStep DEF open, l
  <2>2. Nested(u)
    BY <1>1, <1>4, <1>6, <1>11, NestedStep DEF open, l
  <2>3. /\ Len(u.lines) = l + 1 /\ u.lines[l + 1] = line
        /\ \A i \in 1..l : u.lines[i] = t.lines[i]
    BY <1>4, <1>11 DEF l
  <2>4. \A i \in 1..l + 1 : u.lines[i].nr <= c + 1
    <3> TAKE i \in 1..l + 1
    <3>1. i = l + 1 \/ i \in 1..l
      BY <1>1
    <3> QED
      BY <3>1, <2>3, <1>1, <1>4, <1>5, SMTT(40)
  <2>5. \A i \in open \cup {l + 1} : \E j \in 1..n + 1 :
            /\ h.stack[j].nr = u.lines[i].nr /\ h.stack[j].level = u.lines[i].level
            /\ ~h.stack[j].filtered /\ h.stack[j].nr \notin t.running
    <3> TAKE i \in open \cup {l + 1}
    <3>1. CASE i = l + 1
      <4>1. h.stack[n + 1] = e /\ n + 1 \in 1..n + 1
        BY <1>1, <1>13
      <4> QED
        BY <3>1, <4>1, <2>3, <1>1, <1>4, <1>7, <1>11
    <3>2. CASE i \in open
      <4>1. PICK j \in 1..n : /\ s[j].nr = t.lines[i].nr /\ s[j].level = t.lines[i].level
                              /\ ~s[j].filtered /\ s[j].nr \notin t.running
        BY <3>2, <1>5
      <4>2. j \in 1..n + 1 /\ u.lines[i] = t.lines[i]
        BY <1>1, <1>3, <2>3, <3>2
      <4> QED
        BY <4>1, <4>2, <1>1
    <3> QED
      BY <3>1, <3>2
  <2>6. \A j \in 1..n + 1 : ~h.stack[j].filtered /\ h.stack[j].nr \notin t.running =>
            \E i \in open \cup {l + 1} : u.lines[i].nr = h.stack[j].nr
    <3> TAKE j \in 1..n + 1
    <3>1. j = n + 1 \/ j \in 1..n
      BY <1>1
    <3>2. CASE j = n + 1
      BY <3>2, <2>3, <1>1, <1>4, <1>13
    <3>3. CASE j \in 1..n
      <4> HAVE ~h.stack[j].filtered /\ h.stack[j].nr \notin t.running
      <4>1. PICK i \in open : t.lines[i].nr = s[j].nr
        BY <1>1, <1>5, <3>3
      <4>2. i \in 1..l
        BY <1>3
      <4> QED
        BY <4>1, <4>2, <2>3, <1>1, <3>3
    <3> QED
      BY <3>1, <3>2, <3>3
  <2>7. \A i, j \in open \cup {l + 1} : i < j => u.lines[i].level < u.lines[j].level
    <3> TAKE i, j \in open \cup {l + 1}
    <3> HAVE i < j
    <3>1. i \in open /\ i \in 1..l
      BY <1>1, <1>3
    <3>2. CASE j = l + 1
      BY <3>1, <3>2, <2>3, <1>4, <1>6
    <3>3. CASE j \in open
      BY <3>1, <3>3, <2>3, <1>3, <1>5
    <3> QED
      BY <3>2, <3>3
  <2> QED
    <3>1. Follows(u, h.stack, c + 1)
      <4>1. /\ Len(u.lines) = l + 1 /\ Len(h.stack) = n + 1 /\ u.running = t.running
            /\ OpenCalls(u, Len(u.lines)) = open \cup {l + 1}
        BY <1>1, <2>1, <2>3
      <4> QED
        <5>1. Tracks(u.lines, t.running, open \cup {l + 1}, h.stack, c + 1)
          BY <4>1, <2>4, <2>5, <2>6, <2>7, <1>8, <1>9 DEF Tracks
        <5> QED
          BY <4>1, <5>1 DEF Follows
    <3> QED
      BY <2>2, <3>1, <1>1
<1> QED
  BY <1>10, <1>11, <1>13 DEF line

\* The same when the innermost call leaves the stack.
LEMMA FollowsPop ==
    ASSUME NEW g, NEW h, CallsOK(g), g.stack # <<>>, Popped(g, h),
           NEW t, NEW u, t.lines \in Seq(Line), t.running \in SUBSET Int, Nested(t),
           Follows(t, g.stack, g.function_count), u.running = t.running,
           LET e == g.stack[Len(g.stack)]
           IN  \/ e.filtered = TRUE /\ u.lines = t.lines
               \/ /\ e.filtered = FALSE
                  /\ u.lines = Append(t.lines, [kind |-> "exit", nr |-> e.nr, level |-> e.level])
    PROVE  Nested(u) /\ Follows(u, h.stack, h.function_count)
<1> DEFINE n == Len(g.stack)
           c == g.function_count
           s == g.stack
           e == g.stack[n]
           line == [kind |-> "exit", nr |-> e.nr, level |-> e.level]
           l == Len(t.lines)
           open == OpenCalls(t, l)
<1>1. /\ n \in Nat /\ n >= 1 /\ Len(h.stack) = n - 1 /\ c \in Int /\ h.function_count = c
      /\ l \in Nat /\ s[n] = e
      /\ \A i \in 1..n - 1 : /\ h.stack[i].nr = s[i].nr /\ h.stack[i].level = s[i].level
                             /\ h.stack[i].filtered = s[i].filtered
  BY DEF CallsOK, Popped, Alike
<1>2. /\ \A i \in 1..n : s[i].level = i /\ s[i].nr \in 0..c
      /\ \A i, j \in 1..n : i < j => s[i].nr < s[j].nr
  BY DEF CallsOK, Ordered
<1>3. open \subseteq 1..l
  BY DEF OpenCalls
<1>4. /\ \A i \in 1..l : t.lines[i].nr <= c /\ t.lines[i].nr \in Int
      /\ \A nr \in t.running : nr <= c /\ nr \in Int
      /\ \A i, j \in 1..n : i < j /\ s[j].nr \in t.running => s[i].nr \in t.running
      /\ \A i \in open : \E j \in 1..n :
            /\ s[j].nr = t.lines[i].nr /\ s[j].level = t.lines[i].level
            /\ ~s[j].filtered /\ s[j].nr \notin t.running
      /\ \A j \in 1..n : ~s[j].filtered /\ s[j].nr \notin t.running =>
            \E i \in open : t.lines[i].nr = s[j].nr
      /\ \A i, j \in open : i < j => t.lines[i].level < t.lines[j].level
  <2>1. \A i \in 1..l : t.lines[i] \in Line
    OBVIOUS
  <2>2. \A i \in 1..l : t.lines[i].nr \in Int
    BY <2>1 DEF Line
  <2> QED
    BY <2>2 DEF Follows, Tracks
<1> HIDE DEF n, c, s, l, e, line, open
<1>5. \A j \in 1..n : j # n => j \in 1..n - 1
  BY <1>1
<1>6. \A j \in 1..n - 1 : j \in 1..n /\ h.stack[j].nr # e.nr
  BY <1>1, <1>2
<1>7. \A i, j \in 1..n - 1 : i < j /\ h.stack[j].nr \in t.running => h.stack[i].nr \in t.running
  BY <1>1, <1>4, <1>6
<1>8. CASE e.filtered = TRUE /\ u.lines = t.lines
  <2>1. OpenCalls(u, Len(u.lines)) = open /\ Nested(u)
    BY <1>8, SameLines DEF open, l
  <2>2. \A i \in open : \E j \in 1..n - 1 :
            /\ h.stack[j].nr = t.lines[i].nr /\ h.stack[j].level = t.lines[i].level
            /\ ~h.stack[j].filtered /\ h.stack[j].nr \notin t.running
    <3> TAKE i \in open
    <3>1. PICK j \in 1..n : /\ s[j].nr = t.lines[i].nr /\ s[j].level = t.lines[i].level
                            /\ ~s[j].filtered /\ s[j].nr \notin t.running
      BY <1>4
    <3>2. j \in 1..n - 1
      BY <3>1, <1>1, <1>5, <1>8
    <3> QED
      BY <3>1, <3>2, <1>1
  <2>3. \A j \in 1..n - 1 : ~h.stack[j].filtered /\ h.stack[j].nr \notin t.running =>
            \E i \in open : t.lines[i].nr = h.stack[j].nr
    BY <1>1, <1>4, <1>6
  <2>4. /\ Len(u.lines) = l /\ Len(h.stack) = n - 1 /\ u.running = t.running
        /\ u.lines = t.lines /\ h.function_count = c
    BY <1>1, <1>8 DEF l
  <2>5. /\ \A i \in 1..l : t.lines[i].nr <= c
        /\ \A nr \in t.running : nr <= c
        /\ \A i, j \in open : i < j => t.lines[i].level < t.lines[j].level
    BY <1>4
  <2>6. Tracks(t.lines, t.running, open, h.stack, c)
    BY <2>2, <2>3, <2>4, <2>5, <1>7 DEF Tracks
  <2> QED
    BY <2>1, <2>4, <2>6 DEF Follows
<1>9. CASE e.filtered = FALSE /\ u.lines = Append(t.lines, line)
  <2> DEFINE left == {i \in open : t.lines[i].nr # e.nr}
  <2>1. line \in Line /\ line.nr = e.nr /\ line.kind = "exit"
    <3>1. e.nr \in Int /\ e.level \in Int
      <4>1. n \in 1..n
        BY <1>1
      <4> QED
        BY <4>1, <1>1, <1>2
    <3> QED
      BY <3>1, LineOK DEF line
  <2>2. OpenCalls(u, l + 1) = left
    <3>1. \A i : i \in OpenCalls(u, l + 1) <=> i \in open /\ t.lines[i].nr # line.nr
      BY <2>1, <1>9, OpenStep DEF open, l
    <3> QED
      BY <3>1, <2>1
  <2>3. ASSUME e.nr \in t.running PROVE Nested(u)
    <3>1. open = {}
      <4> SUFFICES ASSUME NEW i \in open
                   PROVE  FALSE
        OBVIOUS
      <4>1. PICK j \in 1..n : s[j].nr \notin t.running
        BY <1>4
      <4>2. j = n \/ j < n
        BY <1>1
      <4>3. n \in 1..n
        BY <1>1
      <4> QED
        BY <4>1, <4>2, <4>3, <1>1, <1>4, <2>3
    <3> QED
      <4>1. open = {} /\ line.nr \in t.running /\ line.kind # "entry"
        BY <3>1, <2>1, <2>3
      <4>2. Nested(u)
        BY <4>1, <2>1, <1>9, NestedStep DEF open, l
      <4> QED
        BY <4>2
  <2>4. ASSUME e.nr \notin t.running PROVE Nested(u)
    <3>1. PICK i \in open : t.lines[i].nr = e.nr
      <4>1. n \in 1..n
        BY <1>1
      <4> QED
        BY <4>1, <1>1, <1>4, <1>9, <2>4, SMTT(40)
    <3>2. t.lines[i].level = n
      <4>1. PICK j \in 1..n : s[j].nr = t.lines[i].nr /\ s[j].level = t.lines[i].level
        BY <1>4
      <4>2. j = n
        BY <4>1, <3>1, <1>1, <1>2, SMTT(40)
      <4> QED
        BY <4>1, <4>2, <1>2
    <3>3. \A k \in open : k <= i
      <4> TAKE k \in open
      <4>1. PICK j \in 1..n : s[j].level = t.lines[k].level
        BY <1>4
      <4>2. t.lines[k].level <= n
        BY <4>1, <1>1, <1>2
      <4>3. i < k => t.lines[i].level < t.lines[k].level
        BY <1>4
      <4>4. t.lines[k].level \in Int
        BY <4>1, <1>2
      <4>5. ~(i < k)
        BY <4>2, <4>3, <4>4, <3>2, <1>1
      <4> QED
        BY <4>5, <1>3, <1>1
    <3> QED
      <4>1. /\ line.kind # "entry"
            /\ \E m \in open : t.lines[m].nr = line.nr /\ \A k \in open : k <= m
        BY <3>1, <3>3, <2>1
      <4>2. Nested(u)
        BY <4>1, <2>1, <1>9, NestedStep DEF open, l
      <4> QED
        BY <4>2
  <2>5. /\ Len(u.lines) = l + 1 /\ u.lines[l + 1] = line
        /\ \A i \in 1..l : u.lines[i] = t.lines[i]
    BY <2>1, <1>9 DEF l
  <2>6. \A i \in 1..l + 1 : u.lines[i].nr <= c
    <3> TAKE i \in 1..l + 1
    <3>1. i = l + 1 \/ i \in 1..l
      BY <1>1
    <3>2. n \in 1..n
      BY <1>1
    <3>3. e.nr <= c
      BY <3>2, <1>1, <1>2
    <3> QED
      BY <3>1, <3>3, <2>1, <2>5, <1>4
  <2>7. \A i \in left : \E j \in 1..n - 1 :
            /\ h.stack[j].nr = u.lines[i].nr /\ h.stack[j].level = u.lines[i].level
            /\ ~h.stack[j].filtered /\ h.stack[j].nr \notin t.running
    <3> TAKE i \in left
    <3>1. PICK j \in 1..n : /\ s[j].nr = t.lines[i].nr /\ s[j].level = t.lines[i].level
                            /\ ~s[j].filtered /\ s[j].nr \notin t.running
      BY <1>4
    <3>2. j \in 1..n - 1
      BY <3>1, <1>1, <1>5
    <3>3. u.lines[i] = t.lines[i]
      BY <2>5, <1>3
    <3> QED
      BY <3>1, <3>2, <3>3, <1>1
  <2>8. \A j \in 1..n - 1 : ~h.stack[j].filtered /\ h.stack[j].nr \notin t.running =>
            \E i \in left : u.lines[i].nr = h.stack[j].nr
    <3> TAKE j \in 1..n - 1
    <3> HAVE ~h.stack[j].filtered /\ h.stack[j].nr \notin t.running
    <3>1. PICK i \in open : t.lines[i].nr = h.stack[j].nr
      BY <1>1, <1>4, <1>6, SMTT(40)
    <3>2. i \in left /\ u.lines[i] = t.lines[i]
      BY <3>1, <2>5, <1>3, <1>6
    <3> QED
      BY <3>1, <3>2
  <2>9. \A i, j \in left : i < j => u.lines[i].level < u.lines[j].level
    BY <2>5, <1>3, <1>4
  <2> HIDE DEF left
  <2>10. /\ Len(h.stack) = n - 1 /\ u.running = t.running /\ h.function_count = c
         /\ OpenCalls(u, Len(u.lines)) = left
    BY <2>2, <2>5, <1>1
  <2>11. \A nr \in t.running : nr <= c
    BY <1>4
  <2>12. Tracks(u.lines, t.running, left, h.stack, c)
    BY <2>5, <2>6, <2>7, <2>8, <2>9, <2>10, <2>11, <1>7 DEF Tracks
  <2> QED
    BY <2>3, <2>4, <2>10, <2>12 DEF Follows
<1> QED
  BY <1>8, <1>9 DEF e, n, line

LEMMA TracksMore ==
    ASSUME NEW lines, NEW more, NEW running, NEW open, NEW stack, NEW count,
           Tracks(lines, running, open, stack, count),
           \A i \in open : more[i] = lines[i],
           \A i \in 1..Len(more) : more[i].nr <= count
    PROVE  Tracks(more, running, open, stack, count)
<1>1. \A i \in open : more[i].nr = lines[i].nr /\ more[i].level = lines[i].level
  OBVIOUS
<1>2. \A i \in open : \E j \in 1..Len(stack) :
         /\ stack[j].nr = more[i].nr /\ stack[j].level = more[i].level
         /\ ~stack[j].filtered /\ stack[j].nr \notin running
  <2> TAKE i \in open
  <2>1. PICK j \in 1..Len(stack) :
           /\ stack[j].nr = lines[i].nr /\ stack[j].level = lines[i].level
           /\ ~stack[j].filtered /\ stack[j].nr \notin running
    BY DEF Tracks
  <2> QED
    BY <1>1, <2>1
<1>3. \A j \in 1..Len(stack) : ~stack[j].filtered /\ stack[j].nr \notin running =>
         \E i \in open : more[i].nr = stack[j].nr
  <2> TAKE j \in 1..Len(stack)
  <2> HAVE ~stack[j].filtered /\ stack[j].nr \notin running
  <2>1. PICK i \in open : lines[i].nr = stack[j].nr
    BY DEF Tracks
  <2> QED
    BY <1>1, <2>1
<1>4. \A i, j \in open : i < j => more[i].level < more[j].level
  BY <1>1 DEF Tracks
<1> QED
  BY <1>2, <1>3, <1>4 DEF Tracks

\* A line with the value that a call returns.
LEMMA FollowsReturn ==
    ASSUME NEW t, NEW u, NEW stack, NEW count \in Int, t.lines \in Seq(Line), Nested(t),
           Follows(t, stack, count), u.running = t.running,
           NEW line \in Line, line.kind = "return", line.nr <= count,
           u.lines = Append(t.lines, line)
    PROVE  Nested(u) /\ Follows(u, stack, count)
<1> DEFINE l == Len(t.lines)
           open == OpenCalls(t, l)
<1>1. OpenCalls(u, l + 1) = open
  BY OpenStep
<1>2. Nested(u)
  BY NestedStep
<1>3. /\ l \in Nat /\ Len(u.lines) = l + 1 /\ u.lines[l + 1] = line
      /\ \A i \in 1..l : u.lines[i] = t.lines[i]
  OBVIOUS
<1>4. open \subseteq 1..l
  BY DEF OpenCalls
<1>5. Tracks(t.lines, t.running, open, stack, count)
  BY DEF Follows
<1>6. \A i \in 1..l : t.lines[i].nr <= count
  BY <1>5 DEF Tracks
<1> HIDE DEF l, open
<1>7. \A i \in 1..l + 1 : u.lines[i].nr <= count
  <2> TAKE i \in 1..l + 1
  <2>1. i = l + 1 \/ i \in 1..l
    BY <1>3
  <2> QED
    BY <2>1, <1>3, <1>6
<1>8. Tracks(u.lines, t.running, open, stack, count)
  <2>1. \A i \in open : u.lines[i] = t.lines[i]
    BY <1>3, <1>4
  <2>2. \A i \in 1..Len(u.lines) : u.lines[i].nr <= count
    BY <1>3, <1>7
  <2> QED
    BY <2>1, <2>2, <1>5, TracksMore
<1> QED
  BY <1>1, <1>2, <1>3, <1>8 DEF Follows

LEMMA FollowsSame ==
    ASSUME NEW t, NEW u, NEW s, NEW r, NEW count, u.lines = t.lines, u.running = t.running,
           SameCalls(s, r), Follows(t, s, count)
    PROVE  Follows(u, r, count)
<1>1. OpenCalls(u, Len(u.lines)) = OpenCalls(t, Len(t.lines))
  BY DEF OpenCalls
<1>2. Tracks(t.lines, t.running, OpenCalls(t, Len(t.lines)), s, count)
  BY DEF Follows
<1>3. /\ Len(s) = Len(r)
      /\ \A i \in 1..Len(s) : s[i].nr = r[i].nr /\ s[i].level = r[i].level
                              /\ s[i].filtered = r[i].filtered
  BY DEF SameCalls, Alike
<1>4. Tracks(t.lines, t.running, OpenCalls(t, Len(t.lines)), r, count)
  BY <1>2, <1>3, SMTT(40) DEF Tracks
<1> QED
  BY <1>1, <1>4 DEF Follows

\* What is known of the traces depends on nothing but the traces and the calls.
LEMMA TracesSame ==
    ASSUME NEW g, NEW h, TracesOK(g), NestOK(g), SameCalls(g.stack, h.stack),
           h.ini = g.ini, h.do_trace = g.do_trace, h.trace_context = g.trace_context,
           h.trace_handler = g.trace_handler, h.traces = g.traces,
           h.function_count = g.function_count
    PROVE  TracesOK(h) /\ NestOK(h)
<1>1. TracesOK(h)
  BY DEF TracesOK
<1>2. NestOK(h)
  BY FollowsSame DEF NestOK
<1> QED
  BY <1>1, <1>2

LEMMA TracesOnly ==
    ASSUME NEW g, NEW h, TracesOK(g), NestOK(g), SameCalls(g.stack, h.stack),
           Only(g, h, Fields \ {"ini", "function_count", "do_trace", "trace_context",
                                "trace_handler", "traces"})
    PROVE  TracesOK(h) /\ NestOK(h)
<1>1. /\ h.ini = g.ini /\ h.do_trace = g.do_trace /\ h.trace_context = g.trace_context
      /\ h.trace_handler = g.trace_handler /\ h.traces = g.traces
      /\ h.function_count = g.function_count
  BY DEF Only, Fields
<1> QED
  BY <1>1, TracesSame

\* From the traces s to r at most the one of the context c has a line more.
Written(s, r, c, on, line) ==
    /\ r \in Seq(Trace) /\ Len(r) = Len(s)
    /\ \A i \in 1..Len(s) :
          /\ i # c => r[i] = s[i]
          /\ r[i].format = s[i].format /\ r[i].footer = s[i].footer
          /\ r[i].replaced = s[i].replaced /\ r[i].running = s[i].running
    /\ c # None /\ on => r[c].lines = Append(s[c].lines, line)
    /\ c # None /\ ~on => r[c].lines = s[c].lines

\* Whether TraceLine writes, if there is a context.
Writes(g, kind, fse) ==
    ~fse.filtered /\ g.do_trace /\ kind \in TraceHandlers[g.trace_handler]

LEMMA WrittenOK ==
    ASSUME NEW g, NEW h, TracesOK(g), NEW on, NEW line,
           Written(g.traces, h.traces, g.trace_context, on, line),
           h.ini = g.ini, h.do_trace = g.do_trace, h.trace_context = g.trace_context,
           h.trace_handler = g.trace_handler
    PROVE  TracesOK(h)
BY SMTT(40) DEF TracesOK, Written, None

\* What a line changes of the traces.
LEMMA TraceLineTraces ==
    ASSUME NEW g, DOMAIN g = Fields, TracesOK(g), NEW kind \in {"entry", "exit", "return"},
           NEW fse, fse.nr \in Int, fse.level \in Int
    PROVE  Written(g.traces, TraceLine(g, kind, fse).traces, g.trace_context,
                   Writes(g, kind, fse),
                   [kind |-> kind, nr |-> fse.nr, level |-> fse.level])
<1> DEFINE h == TraceLine(g, kind, fse)
           c == g.trace_context
           line == [kind |-> kind, nr |-> fse.nr, level |-> fse.level]
           on == Writes(g, kind, fse)
           s == g.traces
           u == [s[c] EXCEPT !.lines = Append(@, line)]
<1>1. s \in Seq(Trace) /\ c \in 0..Len(s) /\ Len(s) \in Nat
  BY DEF TracesOK
<1>2. h.traces = IF ~on \/ c = None THEN s ELSE [s EXCEPT ![c] = u]
  BY DEF TraceLine, Writes, Fields
<1> SUFFICES Written(s, h.traces, c, on, line)
  OBVIOUS
<1> HIDE DEF on, h, s, c, line
<1>3. CASE ~on \/ c = None
  BY <1>1, <1>2, <1>3 DEF Written
<1>4. CASE on /\ c # None
  <2>1. c \in 1..Len(s)
    BY <1>1, <1>4 DEF None
  <2>2. s[c] \in Trace
    BY <1>1, <2>1
  <2>3. line \in Line
    BY LineOK DEF line
  <2> DEFINE t == s[c]
  <2>4. t \in Trace
    BY <2>2
  <2> HIDE DEF t
  <2>5. LET w == [t EXCEPT !.lines = Append(@, line)]
        IN  /\ w \in Trace /\ w.lines = Append(t.lines, line)
            /\ w.format = t.format /\ w.footer = t.footer /\ w.replaced = t.replaced
            /\ w.running = t.running
    <3>1. t.lines \in Seq(Line)
      BY <2>4 DEF Trace
    <3>2. Append(t.lines, line) \in Seq(Line)
      BY <3>1, <2>3
    <3> QED
      BY <2>4, <3>2 DEF Trace
  <2>6. /\ u \in Trace /\ u.lines = Append(s[c].lines, line)
        /\ u.format = s[c].format /\ u.footer = s[c].footer /\ u.replaced = s[c].replaced
        /\ u.running = s[c].running
    BY <2>5 DEF t
  <2> HIDE DEF u
  <2>7. h.traces = [s EXCEPT ![c] = u]
    BY <1>2, <1>4
  <2>8. /\ h.traces \in Seq(Trace) /\ Len(h.traces) = Len(s)
        /\ \A i \in 1..Len(s) : h.traces[i] = IF i = c THEN u ELSE s[i]
    BY <1>1, <2>1, <2>6, <2>7, ExceptSeq
  <2> QED
    BY <2>1, <2>6, <2>8, <1>4 DEF Written
<1> QED
  BY <1>3, <1>4

\* The first part of a hook: the frame, and the line of the entry.
Entered(g, fn, internal, do_return) ==
    LET h == AddStackFrame(g, fn, internal, do_return)
    IN  TraceLine(h, "entry", Last(h.stack))

\* The last part of a hook: the lines of the end, and the frame goes.
Ended(g, returns) == RemoveStackFrame(EndTrace(g, returns))

LEMMA EnteredTraces ==
    ASSUME NEW g, CallsOK(g), TracesOK(g), NestOK(g), NEW fn \in Names,
           NEW internal \in BOOLEAN, NEW do_return \in BOOLEAN
    PROVE  LET e == Entered(g, fn, internal, do_return)
           IN  TracesOK(e) /\ NestOK(e)
<1> DEFINE h == AddStackFrame(g, fn, internal, do_return)
           n == Len(h.stack)
           f == h.stack[n]
           e == TraceLine(h, "entry", f)
           c == g.trace_context
<1>1. /\ Pushed(g, h, fn, internal) /\ Last(h.stack) = f
  BY NewFrame, ZenonT(60)
<1>2. Only(g, h, {"clock", "monitored_found", "level", "function_count", "stack"})
  BY AddStackFrameOnly DEF CallsOK
<1>3. /\ h.ini = g.ini /\ h.do_trace = g.do_trace /\ h.trace_context = c
      /\ h.trace_handler = g.trace_handler /\ h.traces = g.traces /\ DOMAIN h = Fields
  BY <1>2 DEF Only, Fields
<1>4. f.nr \in Int /\ f.level \in Int /\ f.filtered \in BOOLEAN
  <2>1. f \in Frame
    BY <1>1 DEF Pushed, CallsOK
  <2> QED
    BY <2>1 DEF Frame
<1>5. TracesOK(h)
  BY <1>3 DEF TracesOK
<1> HIDE DEF h
<1>6. Only(h, e, {"traces"})
  BY <1>3, TraceLineOnly
<1>7. /\ e.ini = g.ini /\ e.do_trace = g.do_trace /\ e.trace_context = c
      /\ e.trace_handler = g.trace_handler /\ e.stack = h.stack
      /\ e.function_count = h.function_count
  BY <1>3, <1>6 DEF Only, Fields
<1> DEFINE line == [kind |-> "entry", nr |-> f.nr, level |-> f.level]
<1> DEFINE on == ~f.filtered /\ g.do_trace /\ "entry" \in TraceHandlers[g.trace_handler]
<1>8. Written(g.traces, e.traces, c, on, line)
  <2>1. Written(h.traces, e.traces, h.trace_context, Writes(h, "entry", f), line)
    BY <1>3, <1>4, <1>5, TraceLineTraces
  <2>2. Writes(h, "entry", f) = on
    BY <1>3 DEF Writes
  <2> QED
    BY <2>1, <2>2, <1>3
<1> HIDE DEF e, line
<1>9. TracesOK(e)
  BY <1>7, <1>8, WrittenOK
<1>10. c # None /\ g.traces[c].format = "computerized" =>
          /\ Nested(e.traces[c])
          /\ Follows(e.traces[c], e.stack, e.function_count)
  <2> HAVE c # None /\ g.traces[c].format = "computerized"
  <2>1. /\ c \in 1..Len(g.traces) /\ g.do_trace = TRUE
        /\ "entry" \in TraceHandlers[g.trace_handler] /\ g.traces[c] \in Trace
    <3>1. c \in 1..Len(g.traces) /\ g.do_trace = TRUE /\ g.trace_handler = "computerized"
      BY DEF TracesOK, None, CallsOK
    <3> QED
      BY <3>1 DEF TracesOK, TraceHandlers, Computerized
  <2> DEFINE t == g.traces[c]
             u == e.traces[c]
  <2>2. /\ t.lines \in Seq(Line) /\ t.running \in SUBSET Int /\ u.running = t.running
    BY <2>1, <1>8, SMTT(40) DEF Trace, Written
  <2>3. Nested(t) /\ Follows(t, g.stack, g.function_count)
    BY <2>1 DEF NestOK
  <2>4. \/ f.filtered = TRUE /\ u.lines = t.lines
        \/ f.filtered = FALSE /\ u.lines = Append(t.lines, line)
    BY <2>1, <1>4, <1>8 DEF Written
  <2> HIDE DEF t, u
  <2>5. Nested(u) /\ Follows(u, h.stack, h.function_count)
    BY <2>2, <2>3, <2>4, <1>1, FollowsPush DEF line
  <2> QED
    BY <2>5, <1>7 DEF u
<1>11. NestOK(e)
  <2>1. \A i \in 1..Len(e.traces) : e.traces[i].format = "computerized" => Nested(e.traces[i])
    <3> TAKE i \in 1..Len(e.traces)
    <3>1. CASE i = c
      BY <3>1, <1>8, <1>10 DEF None, TracesOK, Written
    <3>2. CASE i # c
      BY <3>2, <1>8 DEF NestOK, Written
    <3> QED
      BY <3>1, <3>2
  <2>2. c # None => e.traces[c].format = g.traces[c].format
    BY <1>8 DEF TracesOK, None, Written
  <2> QED
    BY <2>1, <2>2, <1>7, <1>10 DEF NestOK
<1> QED
  BY <1>1, <1>9, <1>11 DEF Entered, e, h

LEMMA EndTraceTraces ==
    ASSUME NEW g, CallsOK(g), g.stack # <<>>, TracesOK(g), NestOK(g), NEW returns
    PROVE  LET e == Ended(g, returns)
           IN  TracesOK(e) /\ NestOK(e)
<1> DEFINE n == Len(g.stack)
           f == g.stack[n]
           c == g.trace_context
           x == TraceLine(g, "exit", f)
           y == TraceLine(x, "return", f)
           w == EndTrace(g, returns)
           e == Ended(g, returns)
           exit == [kind |-> "exit", nr |-> f.nr, level |-> f.level]
           return == [kind |-> "return", nr |-> f.nr, level |-> f.level]
<1>1. f.nr \in Int /\ f.level \in Int /\ f.filtered \in BOOLEAN /\ DOMAIN g = Fields
  <2>1. f \in Frame
    BY DEF CallsOK
  <2> QED
    BY <2>1 DEF Frame, CallsOK
<1>2. w = x \/ w = y
  BY DEF EndTrace, Last
<1>3. Only(g, x, {"traces"})
  BY <1>1, TraceLineOnly
<1>4. /\ x.ini = g.ini /\ x.do_trace = g.do_trace /\ x.trace_context = c
      /\ x.trace_handler = g.trace_handler /\ DOMAIN x = Fields
  BY <1>3 DEF Only, Fields
<1> HIDE DEF f
<1> DEFINE out == ~f.filtered /\ g.do_trace /\ "exit" \in TraceHandlers[g.trace_handler]
           ret == ~f.filtered /\ g.do_trace /\ "return" \in TraceHandlers[g.trace_handler]
<1>5. Written(g.traces, x.traces, c, out, exit)
  BY <1>1, TraceLineTraces DEF Writes
<1> HIDE DEF x
<1>6. TracesOK(x)
  BY <1>4, <1>5, WrittenOK
<1>7. Written(x.traces, y.traces, c, ret, return)
  <2>1. Written(x.traces, y.traces, x.trace_context, Writes(x, "return", f), return)
    BY <1>1, <1>4, <1>6, TraceLineTraces, SMTT(40)
  <2>2. Writes(x, "return", f) = ret
    BY <1>4, SMTT(40) DEF Writes
  <2> QED
    BY <2>1, <2>2, <1>4
<1> HIDE DEF y
<1>8. /\ w.traces \in Seq(Trace) /\ Len(w.traces) = Len(g.traces)
      /\ \A i \in 1..Len(g.traces) :
            /\ i # c => w.traces[i] = g.traces[i]
            /\ w.traces[i].format = g.traces[i].format
            /\ w.traces[i].footer = g.traces[i].footer
            /\ w.traces[i].replaced = g.traces[i].replaced
            /\ w.traces[i].running = g.traces[i].running
  BY <1>2, <1>5, <1>7, SMTT(30) DEF Written
<1>9. Still(g, w) /\ w.stack = g.stack /\ Only(g, w, {"traces"})
  BY EndTraceStill
<1> HIDE DEF w
<1>10. /\ e = RemoveStackFrame(w) /\ Popped(w, e) /\ Only(w, e, {"stack", "level"})
  <2>1. CallsOK(w) /\ w.stack # <<>>
    BY <1>9 DEF Still
  <2> QED
    BY <2>1, RemoveFrame DEF Ended, w
<1> HIDE DEF e
<1>11. /\ e.ini = g.ini /\ e.do_trace = g.do_trace /\ e.trace_context = c
       /\ e.trace_handler = g.trace_handler /\ e.traces = w.traces
       /\ w.function_count = g.function_count
  BY <1>9, <1>10 DEF Only, Fields
<1>12. Popped(g, e)
  BY <1>9, <1>10, <1>11 DEF Popped
<1>13. TracesOK(e)
  BY <1>8, <1>11 DEF TracesOK, None
<1>14. c # None /\ g.traces[c].format = "computerized" =>
          /\ Nested(w.traces[c])
          /\ Follows(w.traces[c], e.stack, e.function_count)
  <2> HAVE c # None /\ g.traces[c].format = "computerized"
  <2>1. /\ c \in 1..Len(g.traces) /\ g.do_trace = TRUE
        /\ TraceHandlers[g.trace_handler] = {"entry", "exit", "return"} /\ g.traces[c] \in Trace
    <3>1. c \in 1..Len(g.traces) /\ g.do_trace = TRUE /\ g.trace_handler = "computerized"
      BY SMTT(40) DEF TracesOK, None, CallsOK
    <3> QED
      BY <3>1 DEF TracesOK, TraceHandlers, Computerized
  <2> DEFINE t == g.traces[c]
             u == x.traces[c]
             v == y.traces[c]
  <2>2. /\ t.lines \in Seq(Line) /\ t.running \in SUBSET Int /\ u.running = t.running
        /\ u.lines \in Seq(Line) /\ v.running = u.running
    <3>1. x.traces[c] \in Trace
      BY <2>1, <1>5 DEF Written
    <3> QED
      BY <3>1, <2>1, <1>5, <1>7 DEF Trace, Written
  <2>3. Nested(t) /\ Follows(t, g.stack, g.function_count)
    BY <2>1, SMTT(40) DEF NestOK
  <2>4. \/ f.filtered = TRUE /\ u.lines = t.lines /\ v.lines = u.lines
        \/ f.filtered = FALSE /\ u.lines = Append(t.lines, exit)
                              /\ v.lines = Append(u.lines, return)
    BY <2>1, <1>1, <1>5, <1>7 DEF Written
  <2> HIDE DEF t, u, v, exit, return
  <2>5. Nested(u) /\ Follows(u, e.stack, e.function_count)
    BY <2>2, <2>3, <2>4, <1>12, FollowsPop DEF f, n, exit
  <2>6. Nested(v) /\ Follows(v, e.stack, e.function_count)
    <3>1. CASE f.filtered = TRUE
      <4>1. v.lines = u.lines /\ v.running = u.running
        BY <2>2, <2>4, <3>1
      <4>2. Nested(v)
        BY <4>1, <2>5, SameLines
      <4>3. SameCalls(e.stack, e.stack)
        BY <1>12, SameRefl DEF Popped
      <4> QED
        BY <4>1, <4>2, <4>3, <2>5, FollowsSame
    <3>2. CASE f.filtered = FALSE
      <4>1. return \in Line /\ return.kind = "return" /\ return.nr = f.nr
        BY <1>1, LineOK DEF return
      <4>2. f.nr <= e.function_count /\ e.function_count \in Int
        BY <1>12 DEF CallsOK, Ordered, Popped, f
      <4>3. v.lines = Append(u.lines, return)
        BY <2>4, <3>2
      <4> QED
        BY <4>1, <4>2, <4>3, <2>2, <2>5, FollowsReturn
    <3> QED
      BY <3>1, <3>2, <1>1
  <2> QED
    BY <2>5, <2>6, <1>2 DEF u, v
<1>15. NestOK(e)
  <2>1. \A i \in 1..Len(w.traces) : w.traces[i].format = "computerized" => Nested(w.traces[i])
    <3> TAKE i \in 1..Len(w.traces)
    <3>1. CASE i = c
      BY <3>1, <1>8, <1>14 DEF None, TracesOK
    <3>2. CASE i # c
      BY <3>2, <1>8 DEF NestOK
    <3> QED
      BY <3>1, <3>2
  <2>2. c # None => w.traces[c].format = g.traces[c].format
    BY <1>8 DEF TracesOK, None
  <2> QED
    BY <2>1, <2>2, <1>11, <1>14 DEF NestOK
<1> QED
  BY <1>13, <1>15 DEF e

\* The traces when the one in progress is marked, as replaced or with its footer.
Marked(s, c, field, r) ==
    r = IF c = None THEN s ELSE
        IF field = "footer" THEN [s EXCEPT ![c].footer = TRUE]
        ELSE [s EXCEPT ![c].replaced = TRUE]

LEMMA MarkedTraces ==
    ASSUME NEW g, TracesOK(g), NEW field \in {"replaced", "footer"}, NEW r,
           Marked(g.traces, g.trace_context, field, r)
    PROVE  LET c == g.trace_context
               s == g.traces
           IN  /\ r \in Seq(Trace) /\ Len(r) = Len(s)
               /\ \A i \in 1..Len(s) :
                     /\ r[i].format = s[i].format /\ r[i].lines = s[i].lines
                     /\ r[i].running = s[i].running
                     /\ r[i].footer <=> s[i].footer \/ (field = "footer" /\ i = c)
                     /\ r[i].replaced <=> s[i].replaced \/ (field = "replaced" /\ i = c)
<1> DEFINE c == g.trace_context
           s == g.traces
<1>1. s \in Seq(Trace) /\ c \in 0..Len(s) /\ Len(s) \in Nat
  BY DEF TracesOK
<1>2. \A i \in 1..Len(s) : s[i].footer \in BOOLEAN /\ s[i].replaced \in BOOLEAN
  <2> TAKE i \in 1..Len(s)
  <2>1. s[i] \in Trace
    BY <1>1
  <2> QED
    BY <2>1 DEF Trace
<1>3. CASE c = None
  BY <1>1, <1>2, <1>3 DEF None, Marked
<1>4. CASE c # None
  <2> DEFINE t == s[c]
             u == IF field = "footer" THEN [t EXCEPT !.footer = TRUE]
                  ELSE [t EXCEPT !.replaced = TRUE]
             v == [s EXCEPT ![c] = u]
  <2>1. c \in 1..Len(s)
    BY <1>1, <1>4 DEF None
  <2>2. t \in Trace
    BY <1>1, <2>1
  <2> HIDE DEF t
  <2>3. /\ u \in Trace /\ u.format = t.format /\ u.lines = t.lines /\ u.running = t.running
        /\ u.footer <=> t.footer \/ field = "footer"
        /\ u.replaced <=> t.replaced \/ field = "replaced"
    BY <2>2 DEF Trace
  <2>4. v = IF field = "footer" THEN [s EXCEPT ![c].footer = TRUE]
            ELSE [s EXCEPT ![c].replaced = TRUE]
    BY DEF t
  <2> HIDE DEF u
  <2>7. r = v
    BY <2>4, <1>4 DEF Marked
  <2>5. /\ v \in Seq(Trace) /\ Len(v) = Len(s)
        /\ \A i \in 1..Len(s) : v[i] = IF i = c THEN u ELSE s[i]
    BY <1>1, <2>1, <2>3, ExceptSeq
  <2> HIDE DEF v, s, c
  <2>6. /\ r \in Seq(Trace) /\ Len(r) = Len(s)
        /\ \A i \in 1..Len(s) :
              /\ r[i].format = s[i].format /\ r[i].lines = s[i].lines
              /\ r[i].running = s[i].running
              /\ r[i].footer <=> s[i].footer \/ (field = "footer" /\ i = c)
              /\ r[i].replaced <=> s[i].replaced \/ (field = "replaced" /\ i = c)
    BY <1>2, <2>1, <2>3, <2>5, <2>7 DEF t
  <2> QED
    BY <2>6 DEF s, c
<1> QED
  BY <1>3, <1>4

\* A trace that has just begun follows the calls: all are running.
LEMMA NewTraceFollows ==
    ASSUME NEW g, CallsOK(g), NEW format \in DOMAIN TraceHandlers
    PROVE  LET t == NewTrace(g, format)
           IN  /\ t \in Trace /\ t.format = format /\ ~t.footer /\ ~t.replaced
               /\ Nested(t) /\ Follows(t, g.stack, g.function_count)
<1> DEFINE t == NewTrace(g, format)
           s == g.stack
<1>1. s \in Seq(Frame) /\ DOMAIN s = 1..Len(s)
      /\ \A i \in 1..Len(s) : s[i].nr \in 0..g.function_count
  BY DEF CallsOK, Ordered
<1>2. /\ t.format = format /\ t.lines = <<>> /\ t.footer = FALSE /\ t.replaced = FALSE
      /\ t.running = {s[i].nr : i \in 1..Len(s)}
  BY <1>1 DEF NewTrace
<1>3. t \in Trace
  <2>1. <<>> \in Seq(Line)
    OBVIOUS
  <2>2. {s[i].nr : i \in 1..Len(s)} \in SUBSET Int
    BY <1>1
  <2> QED
    BY <1>1, <2>1, <2>2 DEF Trace, NewTrace
<1> HIDE DEF t, s
<1>4. Len(t.lines) = 0 /\ OpenCalls(t, 0) = {}
  BY <1>2 DEF OpenCalls
<1>5. Nested(t)
  BY <1>4 DEF Nested
<1>6. Tracks(t.lines, t.running, {}, s, g.function_count)
  <2>1. \A nr \in t.running : nr <= g.function_count
    BY <1>1, <1>2
  <2>2. \A j \in 1..Len(s) : s[j].nr \in t.running
    BY <1>2
  <2> QED
    BY <1>4, <2>1, <2>2 DEF Tracks
<1> QED
  BY <1>2, <1>3, <1>4, <1>5, <1>6 DEF Follows, t, s

LEMMA StartTraceTraces ==
    ASSUME NEW g, CallsOK(g), TracesOK(g), NestOK(g), NEW options, NEW opened \in BOOLEAN,
           g.ini.auto_trace \/ ~g.do_trace
    PROVE  LET h == StartTrace(g, options, opened)
           IN  TracesOK(h) /\ NestOK(h)
<1> DEFINE h == StartTrace(g, options, opened)
           format == SelectTraceHandler(g.ini.trace_format, options)
           c == g.trace_context
           s == g.traces
           old == IF c = None THEN s ELSE [s EXCEPT ![c].replaced = TRUE]
           new == NewTrace(g, format)
           n == Len(s)
<1>1. format \in DOMAIN TraceHandlers
  BY HooksAssumption DEF CallsOK, SelectTraceHandler, TraceHandlers
<1> HIDE DEF format
<1>2. /\ new \in Trace /\ new.format = format /\ Nested(new)
      /\ Follows(new, g.stack, g.function_count) /\ ~new.replaced
  BY <1>1, NewTraceFollows
<1>3. /\ old \in Seq(Trace) /\ Len(old) = n
      /\ \A i \in 1..n :
            /\ old[i].format = s[i].format /\ old[i].lines = s[i].lines
            /\ old[i].running = s[i].running /\ (old[i].footer <=> s[i].footer)
            /\ old[i].replaced <=> s[i].replaced \/ i = c
  <2>1. Marked(g.traces, g.trace_context, "replaced", old) /\ "replaced" \in {"replaced", "footer"}
    BY DEF Marked
  <2> HIDE DEF old
  <2>2. /\ old \in Seq(Trace) /\ Len(old) = Len(g.traces)
        /\ \A i \in 1..Len(g.traces) :
              /\ old[i].format = g.traces[i].format /\ old[i].lines = g.traces[i].lines
              /\ old[i].running = g.traces[i].running
              /\ old[i].footer <=> g.traces[i].footer
              /\ old[i].replaced <=> g.traces[i].replaced \/ i = g.trace_context
    BY <2>1, MarkedTraces
  <2> QED
    BY <2>2
<1>4. /\ n \in Nat /\ c \in 0..n /\ (c # None => g.do_trace)
      /\ \A i \in 1..n : /\ s[i].footer \/ s[i].replaced \/ i = c
                         /\ s[i].replaced => g.ini.auto_trace
  BY DEF TracesOK
<1>5. /\ h.stack = g.stack /\ h.function_count = g.function_count /\ h.ini = g.ini
      /\ h.trace_handler = format
      /\ opened => /\ h.do_trace = TRUE /\ h.traces = Append(old, new)
                   /\ h.trace_context = n + 1
      /\ ~opened => /\ h.do_trace = g.do_trace /\ h.traces = old
                    /\ h.trace_context = None
  BY <1>3 DEF StartTrace, CallsOK, Fields, format
<1> SUFFICES TracesOK(h) /\ NestOK(h)
  OBVIOUS
<1> HIDE DEF h, new, old
<1>6. \A i \in 1..n : old[i].format = "computerized" => Nested(old[i])
  <2> TAKE i \in 1..n
  <2>1. s[i].format = "computerized" => Nested(s[i])
    BY DEF NestOK
  <2> QED
    BY <2>1, <1>3, SameLines
<1> HIDE DEF c, s, n
<1>7. \A i \in 1..n : /\ old[i].footer \/ old[i].replaced
                      /\ old[i].replaced => g.ini.auto_trace
  <2> TAKE i \in 1..n
  <2>1. i = c => g.ini.auto_trace
    BY <1>4 DEF None, c
  <2> QED
    BY <2>1, <1>3, <1>4
<1>8. CASE opened
  <2>1. /\ h.traces \in Seq(Trace) /\ Len(h.traces) = n + 1
        /\ \A i \in 1..n : h.traces[i] = old[i]
        /\ h.traces[n + 1] = new
    <3>1. /\ h.traces = Append(old, new) /\ old \in Seq(Trace) /\ Len(old) = n
          /\ new \in Trace
      BY <1>2, <1>3, <1>5, <1>8
    <3> QED
      BY <3>1
  <2>2. \A i \in 1..n + 1 : i = n + 1 \/ i \in 1..n
    BY <1>4
  <2>3. TracesOK(h)
    BY <2>1, <2>2, <1>1, <1>2, <1>4, <1>5, <1>7, <1>8, SMTT(40) DEF TracesOK, None
  <2>4. NestOK(h)
    BY <2>1, <2>2, <1>2, <1>5, <1>6, <1>8 DEF NestOK
  <2> QED
    BY <2>3, <2>4
<1>9. CASE ~opened
  <2>1. TracesOK(h)
    BY <1>1, <1>3, <1>4, <1>5, <1>7, <1>9 DEF TracesOK, None
  <2>2. NestOK(h)
    BY <1>3, <1>5, <1>6, <1>9 DEF NestOK
  <2> QED
    BY <2>1, <2>2
<1> QED
  BY <1>8, <1>9

LEMMA StopTraceTraces ==
    ASSUME NEW g, CallsOK(g), TracesOK(g), NestOK(g)
    PROVE  LET h == StopTrace(g)
           IN  TracesOK(h) /\ NestOK(h) /\ h.trace_context = None /\ ~h.do_trace
<1> DEFINE h == StopTrace(g)
           c == g.trace_context
           s == g.traces
           r == IF c = None THEN s ELSE [s EXCEPT ![c].footer = TRUE]
           n == Len(s)
<1>1. /\ r \in Seq(Trace) /\ Len(r) = n
      /\ \A i \in 1..n :
            /\ r[i].format = s[i].format /\ r[i].lines = s[i].lines
            /\ r[i].running = s[i].running /\ (r[i].replaced <=> s[i].replaced)
            /\ r[i].footer <=> s[i].footer \/ i = c
  <2>1. Marked(g.traces, g.trace_context, "footer", r) /\ "footer" \in {"replaced", "footer"}
    BY DEF Marked
  <2> HIDE DEF r
  <2>2. /\ r \in Seq(Trace) /\ Len(r) = Len(g.traces)
        /\ \A i \in 1..Len(g.traces) :
              /\ r[i].format = g.traces[i].format /\ r[i].lines = g.traces[i].lines
              /\ r[i].running = g.traces[i].running
              /\ r[i].replaced <=> g.traces[i].replaced
              /\ r[i].footer <=> g.traces[i].footer \/ i = g.trace_context
    BY <2>1, MarkedTraces
  <2> QED
    BY <2>2
<1>2. /\ n \in Nat /\ \A i \in 1..n : /\ s[i].footer \/ s[i].replaced \/ i = c
                                      /\ s[i].replaced => g.ini.auto_trace
  BY DEF TracesOK
<1>3. /\ h.ini = g.ini /\ h.trace_handler = g.trace_handler /\ h.do_trace = FALSE
      /\ h.traces = r /\ h.trace_context = None
  BY DEF StopTrace, CallsOK, Fields
<1> HIDE DEF h, r
<1>4. \A i \in 1..n : r[i].format = "computerized" => Nested(r[i])
  <2> TAKE i \in 1..n
  <2>1. s[i].format = "computerized" => Nested(s[i])
    BY DEF NestOK
  <2> QED
    BY <2>1, <1>1, SameLines
<1>5. g.trace_handler \in DOMAIN TraceHandlers
  BY DEF TracesOK
<1> HIDE DEF c, s, n
<1>6. TracesOK(h)
  <2>1. \A i \in 1..n : /\ r[i].footer \/ r[i].replaced
                        /\ r[i].replaced => g.ini.auto_trace
    BY <1>1, <1>2
  <2> QED
    BY <2>1, <1>1, <1>2, <1>3, <1>5 DEF TracesOK, None
<1>7. NestOK(h)
  BY <1>1, <1>3, <1>4 DEF NestOK
<1> QED
  BY <1>3, <1>6, <1>7 DEF h

-----------------------------------------------------------------------------
(* The error callback *)

\* Outside SOAP calls it is the one that was chosen, and so is the one that the
\* outermost of the SOAP calls in progress will set again.
ErrorsOK(g, b) ==
    \/ g.lost
    \/ /\ (\A i \in b + 1..Len(g.stack) : ~CheckSoapCall(g.stack[i].fn)) => g.error_cb = g.chosen
       /\ \A i \in b + 1..Len(g.stack) :
             /\ CheckSoapCall(g.stack[i].fn)
             /\ \A j \in b + 1..i - 1 : ~CheckSoapCall(g.stack[j].fn)
             => g.stack[i].error_cb = g.chosen

LEMMA ErrorsPush ==
    ASSUME NEW g, NEW h, NEW b \in Nat, NEW fn, NEW internal, CallsOK(g), b <= Len(g.stack),
           ErrorsOK(g, b), Pushed(g, h, fn, internal), h.chosen = g.chosen, h.lost = g.lost,
           CheckSoapCall(fn) \/ h.error_cb = g.error_cb
    PROVE  ErrorsOK(h, b)
<1> DEFINE n == Len(g.stack)
           s == g.stack
           t == h.stack
<1>1. /\ n \in Nat /\ b <= n /\ Len(t) = n + 1
      /\ \A i \in 1..n : t[i].fn = s[i].fn /\ t[i].error_cb = s[i].error_cb
      /\ t[n + 1].fn = fn /\ t[n + 1].error_cb = g.error_cb
  BY DEF CallsOK, Pushed, Alike
<1> HIDE DEF n, s, t
<1>2. CASE g.lost
  BY <1>2 DEF ErrorsOK
<1>3. CASE ~g.lost
  <2>1. /\ (\A i \in b + 1..n : ~CheckSoapCall(s[i].fn)) => g.error_cb = g.chosen
        /\ \A i \in b + 1..n :
              /\ CheckSoapCall(s[i].fn)
              /\ \A j \in b + 1..i - 1 : ~CheckSoapCall(s[j].fn)
              => s[i].error_cb = g.chosen
    BY <1>3 DEF ErrorsOK, n, s
  <2>2. /\ \A i \in b + 1..n : i \in 1..n /\ i \in b + 1..n + 1
        /\ \A i \in b + 1..n + 1 : i = n + 1 \/ i \in b + 1..n
        /\ n + 1 \in b + 1..n + 1
    BY <1>1
  <2>3. ASSUME \A i \in b + 1..n + 1 : ~CheckSoapCall(t[i].fn)
        PROVE  h.error_cb = h.chosen
    <3>1. \A i \in b + 1..n : ~CheckSoapCall(s[i].fn)
      BY <2>2, <2>3, <1>1
    <3>2. ~CheckSoapCall(fn)
      BY <2>2, <2>3, <1>1
    <3> QED
      BY <3>1, <3>2, <2>1
  <2>4. ASSUME NEW i \in b + 1..n + 1, CheckSoapCall(t[i].fn),
               \A j \in b + 1..i - 1 : ~CheckSoapCall(t[j].fn)
        PROVE  t[i].error_cb = h.chosen
    <3>1. \A j \in b + 1..i - 1 : j \in b + 1..n /\ j \in 1..n
      BY <1>1
    <3>2. \A j \in b + 1..i - 1 : ~CheckSoapCall(s[j].fn)
      BY <3>1, <2>4, <1>1
    <3>3. CASE i = n + 1
      <4>1. \A j \in b + 1..n : j \in b + 1..i - 1
        BY <3>3, <1>1
      <4> QED
        BY <4>1, <3>2, <3>3, <2>1, <1>1
    <3>4. CASE i \in b + 1..n
      BY <3>2, <3>4, <2>1, <2>2, <2>4, <1>1
    <3> QED
      BY <3>3, <3>4, <2>2
  <2> QED
    BY <2>3, <2>4, <1>1 DEF ErrorsOK, t
<1> QED
  BY <1>2, <1>3

LEMMA ErrorsPop ==
    ASSUME NEW g, NEW h, NEW b \in Nat, CallsOK(g), b < Len(g.stack), ErrorsOK(g, b),
           Popped(g, h), h.chosen = g.chosen, h.lost = g.lost,
           h.error_cb = IF CheckSoapCall(g.stack[Len(g.stack)].fn)
                        THEN g.stack[Len(g.stack)].error_cb ELSE g.error_cb
    PROVE  ErrorsOK(h, b)
<1> DEFINE n == Len(g.stack)
           s == g.stack
           t == h.stack
<1>1. /\ n \in Nat /\ b < n /\ Len(t) = n - 1
      /\ \A i \in 1..n - 1 : t[i].fn = s[i].fn /\ t[i].error_cb = s[i].error_cb
      /\ h.error_cb = IF CheckSoapCall(s[n].fn) THEN s[n].error_cb ELSE g.error_cb
  BY DEF CallsOK, Popped, Alike
<1> HIDE DEF n, s, t
<1>2. CASE g.lost
  BY <1>2 DEF ErrorsOK
<1>3. CASE ~g.lost
  <2>1. /\ (\A i \in b + 1..n : ~CheckSoapCall(s[i].fn)) => g.error_cb = g.chosen
        /\ \A i \in b + 1..n :
              /\ CheckSoapCall(s[i].fn)
              /\ \A j \in b + 1..i - 1 : ~CheckSoapCall(s[j].fn)
              => s[i].error_cb = g.chosen
    BY <1>3 DEF ErrorsOK, n, s
  <2>2. /\ \A i \in b + 1..n - 1 : i \in 1..n - 1 /\ i \in b + 1..n
        /\ \A i \in b + 1..n : i = n \/ i \in b + 1..n - 1
        /\ n \in b + 1..n
    BY <1>1
  <2>3. ASSUME \A i \in b + 1..n - 1 : ~CheckSoapCall(t[i].fn)
        PROVE  h.error_cb = h.chosen
    <3>1. \A i \in b + 1..n - 1 : ~CheckSoapCall(s[i].fn)
      BY <2>2, <2>3, <1>1
    <3>2. CASE CheckSoapCall(s[n].fn)
      BY <3>1, <3>2, <2>1, <2>2, <1>1
    <3>3. CASE ~CheckSoapCall(s[n].fn)
      BY <3>1, <3>3, <2>1, <2>2, <1>1
    <3> QED
      BY <3>2, <3>3
  <2>4. ASSUME NEW i \in b + 1..n - 1, CheckSoapCall(t[i].fn),
               \A j \in b + 1..i - 1 : ~CheckSoapCall(t[j].fn)
        PROVE  t[i].error_cb = h.chosen
    <3>1. \A j \in b + 1..i - 1 : j \in 1..n - 1
      BY <1>1
    <3>2. \A j \in b + 1..i - 1 : ~CheckSoapCall(s[j].fn)
      BY <3>1, <2>4, <1>1
    <3> QED
      BY <3>2, <2>1, <2>2, <2>4, <1>1
  <2> QED
    BY <2>3, <2>4, <1>1 DEF ErrorsOK, t
<1> QED
  BY <1>2, <1>3

LEMMA ErrorsSame ==
    ASSUME NEW g, NEW h, NEW b, ErrorsOK(g, b), SameCalls(g.stack, h.stack), NEW c, b = c,
           h.error_cb = g.error_cb, h.chosen = g.chosen, h.lost = g.lost, b \in Nat
    PROVE  ErrorsOK(h, c)
<1> DEFINE n == Len(g.stack)
           s == g.stack
           t == h.stack
<1>1. /\ n \in Nat /\ Len(t) = n
      /\ \A i \in 1..n : t[i].fn = s[i].fn /\ t[i].error_cb = s[i].error_cb
  BY DEF SameCalls, Alike
<1> HIDE DEF n, s, t
<1>2. /\ \A i \in b + 1..n : i \in 1..n
      /\ \A i \in b + 1..n : \A j \in b + 1..i - 1 : j \in 1..n
  BY <1>1
<1>3. CASE g.lost
  BY <1>3 DEF ErrorsOK
<1>4. CASE ~g.lost
  <2>1. /\ (\A i \in b + 1..n : ~CheckSoapCall(s[i].fn)) => g.error_cb = g.chosen
        /\ \A i \in b + 1..n :
              /\ CheckSoapCall(s[i].fn)
              /\ \A j \in b + 1..i - 1 : ~CheckSoapCall(s[j].fn)
              => s[i].error_cb = g.chosen
    BY <1>4 DEF ErrorsOK, n, s
  <2>2. /\ (\A i \in b + 1..n : ~CheckSoapCall(t[i].fn)) => g.error_cb = g.chosen
        /\ \A i \in b + 1..n :
              /\ CheckSoapCall(t[i].fn)
              /\ \A j \in b + 1..i - 1 : ~CheckSoapCall(t[j].fn)
              => t[i].error_cb = g.chosen
    BY <2>1, <1>1, <1>2
  <2> QED
    BY <2>2, <1>1 DEF ErrorsOK, t
<1> QED
  BY <1>3, <1>4

\* A choice is either in force or made in a SOAP call.
LEMMA ErrorsChosen ==
    ASSUME NEW h, NEW b \in Nat, h.error_cb = h.chosen,
           h.lost \/ (\A i \in b + 1..Len(h.stack) : ~CheckSoapCall(h.stack[i].fn))
    PROVE  ErrorsOK(h, b)
BY DEF ErrorsOK

\* A bailout that leaves a SOAP call is noted.
LEMMA ErrorsBailout ==
    ASSUME NEW g, NEW h, NEW b \in Nat, CallsOK(g), ErrorsOK(g, b), h.stack = g.stack,
           h.error_cb = g.error_cb, h.chosen = g.chosen,
           h.lost <=> g.lost \/ (\E i \in b + 1..Len(g.stack) : CheckSoapCall(g.stack[i].fn))
    PROVE  ErrorsOK(h, Len(h.stack))
<1>1. Len(h.stack) + 1..Len(h.stack) = {}
  BY DEF CallsOK
<1> QED
  BY <1>1 DEF ErrorsOK

-----------------------------------------------------------------------------
(* The shared page *)

\* The frames whose line fits, of i and the calls it was made from, and the
\* largest of a set of indices.
Fits(g, i) == {j \in 1..i : g.stack[j].fn \notin Wide}

Largest(S) == IF S = {} THEN 0 ELSE CHOOSE j \in S : \A k \in S : k <= j

Named(g, i) == PageFrame(g, i) # 0 /\ g.page = g.stack[PageFrame(g, i)].fn

Internal(g, b, i) == i \in b + 1..Len(g.stack) /\ g.stack[i].internal

PageOK(g, b) ==
    /\ g.page \in {NoPage} \cup g.dropped \/ \E i : Internal(g, b, i) /\ Named(g, i)
    /\ \A i : Internal(g, b, i) /\ (\A j : Internal(g, b, j) => j <= i) =>
          \/ Named(g, i) \/ PageFrame(g, i) = 0
          \/ g.stack[i].nested /\ g.page = NoPage

\* The first part of it, which holds also while the page is not yet written.
PageNamed(g, b) ==
    g.page \in {NoPage} \cup g.dropped \/ \E i : Internal(g, b, i) /\ Named(g, i)

LEMMA LessThan ==
    \A x, y \in Nat : x < y <=> <<x, y>> \in OpToRel(<, Nat)
BY DEF OpToRel

\* Every set of numbers that is not empty has a least one.
LEMMA LeastNumber ==
    ASSUME NEW T, T \subseteq Nat, T # {}
    PROVE  \E x \in T : \A y \in T : x <= y
<1>1. PICK x \in T : \A y \in T : ~(<<y, x>> \in OpToRel(<, Nat))
  BY NatLessThanWellFounded, WFMin
<1>2. \A y \in T : ~(y < x)
  BY <1>1, LessThan
<1> QED
  BY <1>2

LEMMA LargestNumber ==
    ASSUME NEW n \in Nat, NEW S, S \subseteq 1..n, S # {}
    PROVE  Largest(S) \in S /\ \A k \in S : k <= Largest(S)
<1> DEFINE T == {m \in Nat : \A k \in S : k <= m}
<1>1. n \in T
  OBVIOUS
<1>2. PICK m \in T : \A y \in T : m <= y
  <2> HIDE DEF T
  <2>1. T \subseteq Nat
    BY DEF T
  <2> QED
    BY <1>1, <2>1, LeastNumber
<1>3. m \in Nat /\ \A k \in S : k <= m
  OBVIOUS
<1>4. m \in S
  <2> SUFFICES ASSUME m \notin S
               PROVE  FALSE
    OBVIOUS
  <2>1. PICK k : k \in S /\ k \in 1..n
    OBVIOUS
  <2>2. m >= 1 /\ m - 1 \in Nat
    BY <2>1, <1>3
  <2>3. \A j \in S : j <= m - 1
    BY <1>3, <2>2
  <2>4. m - 1 \in T
    BY <2>2, <2>3
  <2> QED
    BY <2>2, <2>4, <1>2
<1>5. \E j \in S : \A k \in S : k <= j
  BY <1>3, <1>4
<1> QED
  BY <1>5 DEF Largest

LEMMA PageFrameIs ==
    ASSUME NEW g, NEW i \in Nat
    PROVE  /\ PageFrame(g, i) = Largest(Fits(g, i))
           /\ PageFrame(g, i) # 0 => PageFrame(g, i) \in 1..i
<1>1. PageFrame(g, i) = Largest(Fits(g, i))
  BY DEF PageFrame, Largest, Fits
<1>2. Fits(g, i) \subseteq 1..i
  BY DEF Fits
<1>3. CASE Fits(g, i) = {}
  BY <1>1, <1>3 DEF Largest
<1>4. CASE Fits(g, i) # {}
  BY <1>1, <1>2, <1>4, LargestNumber
<1> QED
  BY <1>1, <1>3, <1>4

\* The frame that is named depends on the calls up to it only.
LEMMA PageFrameSame ==
    ASSUME NEW g, NEW h, NEW i \in Nat,
           \A j \in 1..i : h.stack[j].fn = g.stack[j].fn
    PROVE  /\ PageFrame(h, i) = PageFrame(g, i)
           /\ h.page = g.page => (Named(h, i) <=> Named(g, i))
<1>1. Fits(h, i) = Fits(g, i)
  BY DEF Fits
<1>2. PageFrame(h, i) = PageFrame(g, i)
  BY <1>1, PageFrameIs
<1>3. PageFrame(g, i) # 0 => h.stack[PageFrame(g, i)].fn = g.stack[PageFrame(g, i)].fn
  BY PageFrameIs
<1> QED
  BY <1>2, <1>3 DEF Named

LEMMA PageSame ==
    ASSUME NEW g, NEW h, NEW b \in Nat, NEW c \in Nat, PageOK(g, b),
           \A i : Internal(h, c, i) <=> Internal(g, b, i),
           \A i : Internal(g, b, i) =>
              /\ i \in Nat /\ h.stack[i].nested = g.stack[i].nested
              /\ \A j \in 1..i : h.stack[j].fn = g.stack[j].fn,
           h.page = g.page, h.dropped = g.dropped
    PROVE  PageOK(h, c)
<1>1. \A i : Internal(g, b, i) =>
         /\ PageFrame(h, i) = PageFrame(g, i)
         /\ Named(h, i) <=> Named(g, i)
  BY PageFrameSame
<1>2. h.page \in {NoPage} \cup h.dropped \/ \E i : Internal(h, c, i) /\ Named(h, i)
  BY <1>1 DEF PageOK
<1>3. ASSUME NEW i, Internal(h, c, i), \A j : Internal(h, c, j) => j <= i
      PROVE  \/ Named(h, i) \/ PageFrame(h, i) = 0
             \/ h.stack[i].nested /\ h.page = NoPage
  <2>1. Internal(g, b, i) /\ \A j : Internal(g, b, j) => j <= i
    BY <1>3
  <2> QED
    BY <1>1, <2>1 DEF PageOK
<1> QED
  BY <1>2, <1>3 DEF PageOK

\* A call of a user function leaves the page.
LEMMA PagePush ==
    ASSUME NEW g, NEW h, NEW b \in Nat, NEW fn, CallsOK(g), PageOK(g, b),
           Pushed(g, h, fn, FALSE), h.page = g.page, h.dropped = g.dropped,
           \A i \in 1..Len(g.stack) : h.stack[i].nested = g.stack[i].nested
    PROVE  PageOK(h, b)
<1>1. /\ Len(g.stack) \in Nat /\ Len(h.stack) = Len(g.stack) + 1
      /\ \A i \in 1..Len(g.stack) : /\ h.stack[i].fn = g.stack[i].fn
                                    /\ h.stack[i].internal = g.stack[i].internal
      /\ ~h.stack[Len(g.stack) + 1].internal
  BY DEF CallsOK, Pushed, Alike
<1>2. \A i \in b + 1..Len(g.stack) + 1 : i = Len(g.stack) + 1 \/ i \in b + 1..Len(g.stack)
  BY <1>1
<1>3. \A i \in b + 1..Len(g.stack) : i \in 1..Len(g.stack) /\ i \in b + 1..Len(g.stack) + 1
  BY <1>1
<1>4. \A i : Internal(h, b, i) <=> Internal(g, b, i)
  BY <1>1, <1>2, <1>3 DEF Internal
<1>5. \A i : Internal(g, b, i) =>
         /\ i \in Nat /\ h.stack[i].nested = g.stack[i].nested
         /\ \A j \in 1..i : h.stack[j].fn = g.stack[j].fn
  BY <1>1, <1>3 DEF Internal
<1> QED
  BY <1>4, <1>5, PageSame

\* The return of a user function does, too.
LEMMA PagePop ==
    ASSUME NEW g, NEW h, NEW b \in Nat, CallsOK(g), PageOK(g, b), g.stack # <<>>,
           ~g.stack[Len(g.stack)].internal,
           Popped(g, h), h.page = g.page, h.dropped = g.dropped,
           \A i \in 1..Len(h.stack) : h.stack[i].nested = g.stack[i].nested
    PROVE  PageOK(h, b)
<1> DEFINE n == Len(g.stack)
<1>1. /\ n \in Nat /\ n >= 1 /\ Len(h.stack) = n - 1
      /\ \A i \in 1..n - 1 : /\ h.stack[i].fn = g.stack[i].fn
                             /\ h.stack[i].internal = g.stack[i].internal
                             /\ h.stack[i].nested = g.stack[i].nested
      /\ ~g.stack[n].internal
  BY DEF CallsOK, Popped, Alike
<1> HIDE DEF n
<1>2. \A i \in b + 1..n : i = n \/ i \in b + 1..n - 1
  BY <1>1
<1>3. \A i \in b + 1..n - 1 : i \in 1..n - 1 /\ i \in b + 1..n
  BY <1>1
<1>4. \A i : Internal(h, b, i) <=> Internal(g, b, i)
  BY <1>1, <1>2, <1>3 DEF Internal, n
<1>5. \A i : Internal(g, b, i) => i \in 1..n - 1
  BY <1>1, <1>2, <1>3 DEF Internal, n
<1>6. \A i \in 1..n - 1 : /\ i \in Nat /\ h.stack[i].nested = g.stack[i].nested
                          /\ \A j \in 1..i : h.stack[j].fn = g.stack[j].fn
  BY <1>1, SMTT(40)
<1> QED
  BY <1>4, <1>5, <1>6, PageSame

\* A call that begins takes nothing from what the page may name.
LEMMA PageNamedPush ==
    ASSUME NEW g, NEW h, NEW b \in Nat, NEW fn, NEW internal, CallsOK(g), PageOK(g, b),
           b <= Len(g.stack), Pushed(g, h, fn, internal), h.page = g.page,
           h.dropped = g.dropped
    PROVE  PageNamed(h, b)
<1> DEFINE n == Len(g.stack)
           m == n + 1
<1>1. /\ n \in Nat /\ m \in Nat /\ Len(h.stack) = m
      /\ \A i \in 1..n : /\ h.stack[i].fn = g.stack[i].fn
                         /\ h.stack[i].internal = g.stack[i].internal
  BY SMTT(40) DEF CallsOK, Pushed, Alike
<1> HIDE DEF n, m
<1>2. \A i : Internal(g, b, i) => i \in 1..n /\ i \in b + 1..m /\ i \in Nat
  BY <1>1 DEF Internal, m, n
<1>3. \A i : Internal(g, b, i) => Internal(h, b, i)
  BY <1>2, <1>1 DEF Internal
<1>4. \A i : Internal(g, b, i) => (Named(h, i) <=> Named(g, i))
  <2> TAKE i
  <2> HAVE Internal(g, b, i)
  <2>1. \A j \in 1..i : h.stack[j].fn = g.stack[j].fn
    BY <1>2, <1>1
  <2> QED
    BY <2>1, <1>2, PageFrameSame
<1> QED
  BY <1>3, <1>4 DEF PageOK, PageNamed

\* A call of an internal function is named, unless no line fits.
LEMMA PagePushInternal ==
    ASSUME NEW g, NEW h, NEW b \in Nat, NEW fn, CallsOK(g), PageOK(g, b), b <= Len(g.stack),
           Pushed(g, h, fn, TRUE), h.dropped = g.dropped,
           LET i == PageFrame(h, Len(h.stack))
           IN  h.page = IF i = 0 THEN g.page ELSE h.stack[i].fn
    PROVE  PageOK(h, b)
<1> DEFINE n == Len(g.stack)
           m == n + 1
<1>1. /\ n \in Nat /\ m \in Nat /\ Len(h.stack) = m /\ b <= n
      /\ \A i \in 1..n : /\ h.stack[i].fn = g.stack[i].fn
                         /\ h.stack[i].internal = g.stack[i].internal
      /\ h.stack[m].internal
      /\ h.page = IF PageFrame(h, m) = 0 THEN g.page ELSE h.stack[PageFrame(h, m)].fn
  BY SMTT(40) DEF CallsOK, Pushed, Alike
<1> HIDE DEF n, m
<1>2. m \in b + 1..m /\ \A i \in b + 1..m : i <= m
  BY <1>1 DEF m
<1>3. Internal(h, b, m) /\ \A i : Internal(h, b, i) => i <= m
  BY <1>1, <1>2 DEF Internal
<1>4. Named(h, m) \/ PageFrame(h, m) = 0
  BY <1>1 DEF Named
<1>5. h.page \in {NoPage} \cup h.dropped \/ \E i : Internal(h, b, i) /\ Named(h, i)
  <2>1. CASE Named(h, m)
    BY <2>1, <1>3
  <2>2. CASE PageFrame(h, m) = 0
    <3>1. h.page = g.page
      BY <1>1, <2>2
    <3>2. PageNamed(h, b)
      BY <3>1, PageNamedPush DEF n
    <3> QED
      BY <3>2 DEF PageNamed
  <2> QED
    BY <2>1, <2>2, <1>4
<1>6. \A i : Internal(h, b, i) /\ (\A j : Internal(h, b, j) => j <= i) => i = m
  <2> TAKE i
  <2> HAVE Internal(h, b, i) /\ (\A j : Internal(h, b, j) => j <= i)
  <2>1. m <= i /\ i <= m /\ i \in b + 1..m
    BY <1>1, <1>3 DEF Internal
  <2> QED
    BY <2>1, <1>1
<1> QED
  BY <1>4, <1>5, <1>6 DEF PageOK

\* When the page has been cleared it names nothing.
LEMMA PageWhenCleared ==
    ASSUME NEW h, NEW b \in Nat, h.page = NoPage,
           \A i \in 1..Len(h.stack) : h.stack[i].nested = TRUE
    PROVE  PageOK(h, b)
BY DEF PageOK, Internal

\* What a bailout drops stays accounted for.
LEMMA PageBailout ==
    ASSUME NEW g, NEW h, NEW b \in Nat, CallsOK(g), PageNamed(g, b), h.stack = g.stack,
           h.page = g.page,
           h.dropped = g.dropped \cup
              {g.stack[PageFrame(g, i)].fn :
                  i \in {j \in b + 1..Len(g.stack) :
                            g.stack[j].internal /\ PageFrame(g, j) # 0}}
    PROVE  PageOK(h, Len(h.stack))
<1>1. \A i : ~Internal(h, Len(h.stack), i)
  BY DEF CallsOK, Internal
<1>2. h.page \in {NoPage} \cup h.dropped
  BY DEF PageNamed, Internal, Named
<1> QED
  BY <1>1, <1>2 DEF PageOK

(***************************************************************************)
(* What a hook preserves.  The parts of the state that the properties need *)
(* are put together, with the length of the stack at the last bailout.     *)
(***************************************************************************)
StateOK(g, b) ==
    /\ CallsOK(g) /\ TracesOK(g) /\ NestOK(g)
    /\ b \in Nat /\ b <= Len(g.stack)
    /\ ErrorsOK(g, b) /\ PageOK(g, b)

\* The same before the page names the call that begins.
BegunOK(g, b) ==
    /\ CallsOK(g) /\ TracesOK(g) /\ NestOK(g)
    /\ b \in Nat /\ b <= Len(g.stack)
    /\ ErrorsOK(g, b) /\ PageNamed(g, b)

\* The globals that what is known of the error callback and the page is about.
NotifyFields == {"error_cb", "chosen", "lost", "page", "dropped"}

\* The globals that what is known of the traces is about.
TraceFields == {"ini", "function_count", "do_trace", "trace_context", "trace_handler", "traces"}

LEMMA OnlyFields ==
    ASSUME NEW g, NEW h, NEW S, Only(g, h, S)
    PROVE  \A f \in Fields \ S : h[f] = g[f]
BY DEF Only

LEMMA NotifyStill ==
    ASSUME NEW g, NEW h, NEW b, StateOK(g, b), Still(g, h), Only(g, h, Fields \ NotifyFields)
    PROVE  ErrorsOK(h, b) /\ PageOK(h, b) /\ b <= Len(h.stack)
<1>1. /\ h.error_cb = g.error_cb /\ h.chosen = g.chosen /\ h.lost = g.lost
      /\ h.page = g.page /\ h.dropped = g.dropped
  BY DEF Only, Fields, NotifyFields
<1>2. SameCalls(g.stack, h.stack) /\ \A i \in 1..Len(g.stack) : h.stack[i].nested = g.stack[i].nested
  BY DEF Still
<1>3. Len(g.stack) = Len(h.stack) /\ Len(g.stack) \in Nat
      /\ \A i \in 1..Len(g.stack) : /\ h.stack[i].fn = g.stack[i].fn
                                    /\ h.stack[i].internal = g.stack[i].internal
  BY <1>2 DEF SameCalls, Alike
<1>4. ErrorsOK(h, b)
  BY <1>1, <1>2, ErrorsSame DEF StateOK
<1>5. b \in Nat
  BY DEF StateOK
<1>6. \A i : Internal(h, b, i) <=> Internal(g, b, i)
  BY <1>3, <1>5 DEF Internal
<1>7. \A i : Internal(g, b, i) =>
              /\ i \in Nat /\ h.stack[i].nested = g.stack[i].nested
              /\ \A j \in 1..i : h.stack[j].fn = g.stack[j].fn
  <2> TAKE i
  <2> HAVE Internal(g, b, i)
  <2>1. i \in 1..Len(g.stack) /\ i \in Nat
    BY <1>5, <1>3 DEF Internal
  <2>2. \A j \in 1..i : j \in 1..Len(g.stack)
    BY <2>1, <1>3
  <2> QED
    BY <2>1, <2>2, <1>2, <1>3
<1>8. PageOK(g, b)
  BY DEF StateOK
<1>9. PageOK(h, b)
  BY <1>1, <1>5, <1>6, <1>7, <1>8, PageSame
<1> QED
  BY <1>3, <1>4, <1>9 DEF StateOK

LEMMA StateStill ==
    ASSUME NEW g, NEW h, NEW b, StateOK(g, b), Still(g, h),
           Only(g, h, Fields \ (NotifyFields \cup TraceFields))
    PROVE  StateOK(h, b)
<1>1. Only(g, h, Fields \ NotifyFields) /\ Only(g, h, Fields \ TraceFields)
  BY OnlyMore
<1>2. TracesOK(h) /\ NestOK(h)
  BY <1>1, TracesOnly DEF StateOK, Still, TraceFields
<1>3. ErrorsOK(h, b) /\ PageOK(h, b) /\ b <= Len(h.stack)
  BY <1>1, NotifyStill
<1> QED
  BY <1>2, <1>3 DEF StateOK, Still

LEMMA PushedStill ==
    ASSUME NEW g, NEW e, NEW h, NEW fn, NEW internal, CallsOK(g), Pushed(g, e, fn, internal),
           Still(e, h), Only(e, h, Fields \ {"level", "function_count"})
    PROVE  Pushed(g, h, fn, internal)
<1>1. h.level = e.level /\ h.function_count = e.function_count
  BY DEF Only, Fields
<1>2. /\ h.stack \in Seq(Frame) /\ Len(h.stack) = Len(e.stack)
      /\ \A i \in 1..Len(e.stack) : Alike(e.stack[i], h.stack[i])
  BY DEF Still, SameCalls
<1>3. Len(g.stack) \in Nat
  BY DEF CallsOK
<1>4. Len(e.stack) = Len(g.stack) + 1 /\ \A i \in 1..Len(g.stack) : Alike(e.stack[i], g.stack[i])
  BY DEF Pushed
<1>5. \A i \in 1..Len(g.stack) : Alike(h.stack[i], g.stack[i])
  BY <1>2, <1>3, <1>4 DEF Alike
<1>6. Alike(e.stack[Len(g.stack) + 1], h.stack[Len(g.stack) + 1])
  BY <1>2, <1>3, <1>4
<1> QED
  BY <1>1, <1>2, <1>4, <1>5, <1>6 DEF Pushed, Alike

LEMMA PoppedStill ==
    ASSUME NEW g, NEW e, NEW h, CallsOK(g), g.stack # <<>>, Still(g, e), Popped(e, h),
           Only(g, e, Fields \ {"level", "function_count"})
    PROVE  Popped(g, h)
<1>1. e.function_count = g.function_count
  BY DEF Only, Fields
<1>2. Len(g.stack) = Len(e.stack) /\ Len(e.stack) \in Nat
      /\ \A i \in 1..Len(g.stack) : Alike(g.stack[i], e.stack[i])
  BY DEF Still, SameCalls, CallsOK
<1>3. \A i \in 1..Len(h.stack) : i \in 1..Len(g.stack)
  BY <1>2 DEF Popped
<1>4. \A i \in 1..Len(h.stack) : Alike(h.stack[i], g.stack[i])
  BY <1>2, <1>3 DEF Popped, Alike
<1> QED
  BY <1>1, <1>2, <1>4 DEF Popped

\* The first part of a hook.
LEMMA EnteredCalls ==
    ASSUME NEW g, CallsOK(g), NEW fn \in Names,
           NEW internal \in BOOLEAN, NEW do_return \in BOOLEAN
    PROVE  LET e == Entered(g, fn, internal, do_return)
           IN  /\ CallsOK(e) /\ Pushed(g, e, fn, internal)
               /\ Only(g, e, {"clock", "monitored_found", "level", "function_count", "stack",
                              "traces"})
               /\ \A i \in 1..Len(g.stack) : e.stack[i] = g.stack[i]
               /\ e.stack[Len(e.stack)].profile = NoProfile
               /\ e.stack[Len(e.stack)].nested = FALSE
<1> DEFINE h == AddStackFrame(g, fn, internal, do_return)
<1> DEFINE e == Entered(g, fn, internal, do_return)
<1> SUFFICES /\ CallsOK(e) /\ Pushed(g, e, fn, internal)
             /\ Only(g, e, {"clock", "monitored_found", "level", "function_count", "stack",
                            "traces"})
             /\ \A i \in 1..Len(g.stack) : e.stack[i] = g.stack[i]
             /\ e.stack[Len(e.stack)].profile = NoProfile
             /\ e.stack[Len(e.stack)].nested = FALSE
  OBVIOUS
<1>1. /\ Pushed(g, h, fn, internal)
      /\ \A i \in 1..Len(g.stack) : h.stack[i] = g.stack[i]
      /\ h.stack[Len(h.stack)].profile = NoProfile
      /\ h.stack[Len(h.stack)].nested = FALSE
      /\ h.clock \in Int
  BY NewFrame, ZenonT(60)
<1>2. DOMAIN g = Fields
  BY DEF CallsOK
<1>3. Only(g, h, {"clock", "monitored_found", "level", "function_count", "stack"})
  BY <1>2, AddStackFrameOnly
<1>4. e = TraceLine(h, "entry", Last(h.stack))
  BY DEF Entered
<1> HIDE DEF h, e
<1>5. /\ DOMAIN h = Fields /\ h.ini = g.ini /\ h.do_trace = g.do_trace
      /\ h.profiler_enabled = g.profiler_enabled /\ h.gc_stats_enabled = g.gc_stats_enabled
      /\ h.crashed = g.crashed /\ h.error_cb = g.error_cb
  BY <1>3 DEF Only, Fields
<1>6. CallsOK(h)
  <2>1. /\ h.do_trace \in BOOLEAN /\ h.profiler_enabled \in BOOLEAN
        /\ h.gc_stats_enabled \in BOOLEAN /\ h.error_cb \in {"xdebug", "engine"}
    BY <1>5 DEF CallsOK
  <2> QED
    BY <2>1, <1>1, <1>5, PushedOK
<1>7. Still(h, e) /\ e.stack = h.stack /\ Only(h, e, {"traces"})
  BY <1>4, <1>6, TraceLineStill
<1>8. CallsOK(e)
  BY <1>7 DEF Still
<1>9. Pushed(g, e, fn, internal)
  <2>1. Only(h, e, Fields \ {"level", "function_count"})
    BY <1>7, OnlyMore DEF Fields
  <2> QED
    BY <2>1, <1>1, <1>7, PushedStill
<1>10. Only(g, e, {"clock", "monitored_found", "level", "function_count", "stack", "traces"})
  <2>1. Only(g, e, {"clock", "monitored_found", "level", "function_count", "stack"} \cup {"traces"})
    BY <1>3, <1>7, OnlyTrans
  <2> QED
    BY <2>1, OnlyMore
<1> QED
  BY <1>1, <1>7, <1>8, <1>9, <1>10

\* The last part of a hook.
LEMMA EndedCalls ==
    ASSUME NEW g, CallsOK(g), g.stack # <<>>, NEW returns
    PROVE  LET e == Ended(g, returns)
           IN  /\ CallsOK(e) /\ Popped(g, e) /\ Only(g, e, {"stack", "level", "traces"})
               /\ \A i \in 1..Len(e.stack) : e.stack[i] = g.stack[i]
<1> DEFINE t == EndTrace(g, returns)
<1> DEFINE e == Ended(g, returns)
<1> SUFFICES /\ CallsOK(e) /\ Popped(g, e) /\ Only(g, e, {"stack", "level", "traces"})
             /\ \A i \in 1..Len(e.stack) : e.stack[i] = g.stack[i]
  OBVIOUS
<1>1. Still(g, t) /\ t.stack = g.stack /\ Only(g, t, {"traces"})
  BY EndTraceStill
<1>2. e = RemoveStackFrame(t)
  BY DEF Ended
<1> HIDE DEF t, e
<1>3. CallsOK(t) /\ t.stack # <<>>
  BY <1>1 DEF Still
<1>4. /\ Popped(t, e) /\ CallsOK(e) /\ Only(t, e, {"stack", "level"})
      /\ \A i \in 1..Len(e.stack) : e.stack[i] = t.stack[i]
  BY <1>2, <1>3, RemoveFrame
<1>5. Popped(g, e)
  <2>1. Only(g, t, Fields \ {"level", "function_count"})
    BY <1>1, OnlyMore DEF Fields
  <2> QED
    BY <2>1, <1>1, <1>4, PoppedStill
<1>6. Only(g, e, {"traces"} \cup {"stack", "level"})
  BY <1>1, <1>4, OnlyTrans
<1>7. Only(g, e, {"stack", "level", "traces"})
  BY <1>6, OnlyMore
<1> QED
  BY <1>1, <1>4, <1>5, <1>7

(* The hooks *)

\* What the first call of a stack starts keeps what is known.
LEMMA LevelZeroOK ==
    ASSUME NEW g, NEW b, StateOK(g, b), NEW opened \in BOOLEAN
    PROVE  StateOK(LevelZero(g, opened), b)
<1> DEFINE p == IF g.ini.profiler_enable /\ ~g.profiler_enabled THEN ProfilerInit(g, opened) ELSE g
<1> DEFINE t == IF p.ini.auto_trace THEN StartTrace(p, p.ini.trace_options, opened) ELSE p
<1> DEFINE h == LevelZero(g, opened)
<1> SUFFICES StateOK(h, b)
  OBVIOUS
<1>1. CallsOK(g) /\ DOMAIN g = Fields
  BY DEF StateOK, CallsOK
<1>2. StateOK(p, b)
  <2>1. CASE g.ini.profiler_enable /\ ~g.profiler_enabled
    <3>1. /\ Still(g, ProfilerInit(g, opened))
          /\ Only(g, ProfilerInit(g, opened), {"profile_file", "profiler_enabled", "profiles"})
      BY <1>1, ProfilerInitStill
    <3>2. Only(g, ProfilerInit(g, opened), Fields \ (NotifyFields \cup TraceFields))
      BY <3>1, OnlyMore DEF Fields, NotifyFields, TraceFields
    <3> QED
      BY <2>1, <3>1, <3>2, StateStill
  <2> QED
    BY <2>1
<1>3. h = IF t.ini.gc_stats_enable /\ ~t.gc_stats_enabled THEN GcStatsInit(t, opened) ELSE t
  BY DEF LevelZero
<1> HIDE DEF p, h
<1>4. StateOK(t, b)
  <2>1. CASE p.ini.auto_trace
    <3>1. CallsOK(p) /\ TracesOK(p) /\ NestOK(p)
      BY <1>2 DEF StateOK
    <3> DEFINE s == StartTrace(p, p.ini.trace_options, opened)
    <3>2. Still(p, s) /\ Only(p, s, {"trace_handler", "do_trace", "traces", "trace_context"})
      BY <3>1, StartTraceStill
    <3>3. TracesOK(s) /\ NestOK(s)
      BY <2>1, <3>1, StartTraceTraces
    <3>4. t = s
      BY <2>1
    <3> HIDE DEF s, t
    <3>5. Only(p, s, Fields \ NotifyFields)
      BY <3>2, OnlyMore DEF Fields, NotifyFields
    <3>6. ErrorsOK(s, b) /\ PageOK(s, b) /\ b <= Len(s.stack)
      BY <1>2, <3>2, <3>5, NotifyStill
    <3> QED
      BY <1>2, <3>2, <3>3, <3>4, <3>6 DEF StateOK, Still
  <2> QED
    BY <2>1, <1>2
<1> HIDE DEF t
<1>5. CASE t.ini.gc_stats_enable /\ ~t.gc_stats_enabled
  <2>1. CallsOK(t)
    BY <1>4 DEF StateOK
  <2>2. /\ Still(t, GcStatsInit(t, opened))
        /\ Only(t, GcStatsInit(t, opened), {"gc_reports", "gc_stats_file", "gc_stats_enabled"})
    BY <2>1, GcStatsInitStill
  <2>3. Only(t, GcStatsInit(t, opened), Fields \ (NotifyFields \cup TraceFields))
    BY <2>2, OnlyMore DEF Fields, NotifyFields, TraceFields
  <2>4. StateOK(GcStatsInit(t, opened), b)
    BY <1>4, <2>2, <2>3, StateStill
  <2> QED
    BY <1>3, <1>5, <2>4
<1> QED
  BY <1>3, <1>4, <1>5

\* A call of a user function.
LEMMA EnterUserOK ==
    ASSUME NEW g, NEW b, StateOK(g, b), NEW fn \in Names, NEW opened \in BOOLEAN
    PROVE  LET h == EnterUser(g, fn, opened)
           IN  /\ StateOK(h, b) /\ h.crashed = g.crashed
               /\ h.ini = g.ini /\ Pushed(g, h, fn, FALSE)
<1> DEFINE z == IF g.level = 0 THEN LevelZero(g, opened) ELSE g
<1> DEFINE r == g.do_trace /\ g.trace_context # None
<1> DEFINE e == Entered(z, fn, FALSE, r)
<1> DEFINE h == EnterUser(g, fn, opened)
<1> SUFFICES /\ StateOK(h, b) /\ h.crashed = g.crashed
             /\ h.ini = g.ini /\ Pushed(g, h, fn, FALSE)
  OBVIOUS
<1>1. StateOK(z, b)
  BY LevelZeroOK
<1>2. CallsOK(g) /\ CallsOK(z) /\ TracesOK(z) /\ NestOK(z) /\ b \in Nat /\ b <= Len(z.stack)
      /\ ErrorsOK(z, b) /\ PageOK(z, b)
  BY <1>1 DEF StateOK
<1>3. z.stack = g.stack /\ z.crashed = g.crashed /\ z.function_count = g.function_count
      /\ z.ini = g.ini /\ z.error_cb = g.error_cb
  <2>1. CASE g.level = 0
    <3>1. LevelZero(g, opened).stack = g.stack
      BY <1>2, LevelZeroStill
    <3>2. Only(g, LevelZero(g, opened),
               {"profile_file", "profiler_enabled", "profiles",
                "trace_handler", "do_trace", "traces", "trace_context",
                "gc_reports", "gc_stats_file", "gc_stats_enabled"})
      BY <1>2, LevelZeroStill
    <3>3. /\ LevelZero(g, opened).crashed = g.crashed
          /\ LevelZero(g, opened).function_count = g.function_count
          /\ LevelZero(g, opened).ini = g.ini
          /\ LevelZero(g, opened).error_cb = g.error_cb
      BY <3>2 DEF Only, Fields
    <3> QED
      BY <2>1, <3>1, <3>3
  <2> QED
    BY <2>1
<1>4. h = BeginProfile(e)
  BY DEF EnterUser, Entered
<1>5. r \in BOOLEAN
  BY DEF CallsOK
<1> HIDE DEF z, h, r
<1>6. /\ CallsOK(e) /\ Pushed(z, e, fn, FALSE)
      /\ Only(z, e, {"clock", "monitored_found", "level", "function_count", "stack", "traces"})
      /\ \A i \in 1..Len(z.stack) : e.stack[i] = z.stack[i]
  BY <1>2, <1>5, EnteredCalls
<1>7. TracesOK(e) /\ NestOK(e)
  BY <1>2, <1>5, EnteredTraces
<1> HIDE DEF e
<1>8. e.stack # <<>>
  BY <1>2, <1>6 DEF Pushed, CallsOK
<1>9. Still(e, h) /\ Only(e, h, {"stack"})
  BY <1>4, <1>6, <1>8, BeginProfileStill
<1>10. TracesOK(h) /\ NestOK(h)
  <2>1. Only(e, h, Fields \ TraceFields)
    BY <1>9, OnlyMore DEF Fields, TraceFields
  <2> QED
    BY <2>1, <1>7, <1>9, TracesOnly DEF Still, TraceFields
<1>11. Pushed(z, h, fn, FALSE)
  <2>1. Only(e, h, Fields \ {"level", "function_count"})
    BY <1>9, OnlyMore DEF Fields
  <2> QED
    BY <2>1, <1>2, <1>6, <1>9, PushedStill
<1>12. /\ h.error_cb = z.error_cb /\ h.chosen = z.chosen /\ h.lost = z.lost
       /\ h.page = z.page /\ h.dropped = z.dropped /\ h.crashed = z.crashed
       /\ h.ini = z.ini
  BY <1>6, <1>9 DEF Only, Fields
<1>13. \A i \in 1..Len(z.stack) : h.stack[i].nested = z.stack[i].nested
  <2>1. Len(z.stack) \in Nat /\ Len(e.stack) = Len(z.stack) + 1
    BY <1>2, <1>6 DEF Pushed, CallsOK
  <2> QED
    BY <2>1, <1>6, <1>9 DEF Still
<1>14. ErrorsOK(h, b)
  BY <1>2, <1>11, <1>12, ErrorsPush
<1>15. PageOK(h, b)
  BY <1>2, <1>11, <1>12, <1>13, PagePush
<1>16. Len(h.stack) = Len(z.stack) + 1 /\ Len(z.stack) \in Nat
  BY <1>2, <1>11 DEF Pushed, CallsOK
<1>17. CallsOK(h)
  BY <1>9 DEF Still
<1>18. b <= Len(h.stack)
  BY <1>2, <1>16
<1>19. Pushed(g, h, fn, FALSE)
  BY <1>3, <1>11 DEF Pushed
<1> QED
  BY <1>2, <1>3, <1>10, <1>12, <1>14, <1>15, <1>17, <1>18, <1>19 DEF StateOK

\* A call of an internal function, from its caller or from nothing.
LEMMA BeginInternalOK ==
    ASSUME NEW g, NEW b, StateOK(g, b), NEW fn \in Names
    PROVE  LET h == BeginInternal(g, fn)
           IN  /\ BegunOK(h, b) /\ h.crashed = g.crashed /\ h.page = g.page
               /\ h.ini = g.ini /\ h.dropped = g.dropped /\ Pushed(g, h, fn, TRUE)
<1> DEFINE r == g.do_trace /\ g.trace_context # None
<1> DEFINE e == Entered(g, fn, TRUE, r)
<1> DEFINE s == IF CheckSoapCall(fn) THEN [e EXCEPT !.error_cb = "engine"] ELSE e
<1> DEFINE h == BeginInternal(g, fn)
<1> SUFFICES /\ BegunOK(h, b) /\ h.crashed = g.crashed /\ h.page = g.page
             /\ h.ini = g.ini /\ h.dropped = g.dropped /\ Pushed(g, h, fn, TRUE)
  OBVIOUS
<1>1. CallsOK(g) /\ TracesOK(g) /\ NestOK(g) /\ b \in Nat /\ b <= Len(g.stack)
      /\ ErrorsOK(g, b) /\ PageOK(g, b)
  BY DEF StateOK
<1>2. r \in BOOLEAN
  BY <1>1 DEF CallsOK
<1>3. h = BeginProfile(s)
  BY DEF BeginInternal, Entered
<1> HIDE DEF r, h
<1>4. /\ CallsOK(e) /\ Pushed(g, e, fn, TRUE)
      /\ Only(g, e, {"clock", "monitored_found", "level", "function_count", "stack", "traces"})
  BY <1>1, <1>2, EnteredCalls
<1>5. TracesOK(e) /\ NestOK(e)
  BY <1>1, <1>2, EnteredTraces
<1> HIDE DEF e
<1>6. Still(e, s) /\ Only(e, s, {"error_cb"}) /\ (CheckSoapCall(fn) \/ s.error_cb = e.error_cb)
      /\ s.stack = e.stack
  <2>1. CASE CheckSoapCall(fn)
    <3>1. Only(e, s, {"error_cb"}) /\ s.error_cb = "engine"
      BY <2>1, <1>4 DEF Only, Fields, CallsOK
    <3> HIDE DEF s
    <3>2. Only(e, s, Fields \ {"ini", "stack", "level", "function_count"})
      BY <3>1, OnlyMore DEF Fields
    <3>3. /\ s.clock = e.clock /\ s.do_trace = e.do_trace /\ s.crashed = e.crashed
          /\ s.profiler_enabled = e.profiler_enabled /\ s.gc_stats_enabled = e.gc_stats_enabled
      BY <3>1 DEF Only, Fields
    <3>4. s.clock \in Int /\ s.do_trace \in BOOLEAN /\ s.profiler_enabled \in BOOLEAN
          /\ s.gc_stats_enabled \in BOOLEAN /\ s.crashed \in BOOLEAN
      BY <3>3, <1>4 DEF CallsOK
    <3>5. Still(e, s) /\ s.stack = e.stack
      BY <1>4, <3>1, <3>2, <3>4, StillOnly
    <3> QED
      BY <2>1, <3>1, <3>5
  <2>2. CASE ~CheckSoapCall(fn)
    <3>1. s = e
      BY <2>2
    <3>2. Only(e, e, {"error_cb"}) /\ Still(e, e)
      BY <1>4, OnlyNone, StillRefl DEF CallsOK
    <3> QED
      BY <3>1, <3>2
  <2> QED
    BY <2>1, <2>2
<1> HIDE DEF s
<1>7. s.stack # <<>> /\ CallsOK(s)
  BY <1>1, <1>4, <1>6 DEF Pushed, CallsOK, Still
<1>8. Still(s, h) /\ Only(s, h, {"stack"})
  BY <1>3, <1>7, BeginProfileStill
<1>9. Still(e, h)
  BY <1>6, <1>8, StillTrans
<1>11. Only(e, h, {"error_cb", "stack"})
  <2>1. Only(e, h, {"error_cb"} \cup {"stack"})
    BY <1>6, <1>8, OnlyTrans
  <2> QED
    BY <2>1, OnlyMore
<1>12. TracesOK(h) /\ NestOK(h)
  <2>1. Only(e, h, Fields \ TraceFields)
    BY <1>11, OnlyMore DEF Fields, TraceFields
  <2> QED
    BY <2>1, <1>5, <1>9, TracesOnly DEF Still, TraceFields
<1>13. Pushed(g, h, fn, TRUE)
  <2>1. Only(e, h, Fields \ {"level", "function_count"})
    BY <1>11, OnlyMore DEF Fields
  <2> QED
    BY <2>1, <1>1, <1>4, <1>9, PushedStill
<1>14. /\ h.chosen = g.chosen /\ h.lost = g.lost /\ h.dropped = g.dropped
       /\ h.crashed = g.crashed /\ h.page = g.page /\ h.ini = g.ini
  <2>1. /\ e.chosen = g.chosen /\ e.lost = g.lost /\ e.dropped = g.dropped
        /\ e.crashed = g.crashed /\ e.page = g.page /\ e.ini = g.ini
    BY <1>4 DEF Only, Fields
  <2>2. /\ h.chosen = e.chosen /\ h.lost = e.lost /\ h.dropped = e.dropped
        /\ h.crashed = e.crashed /\ h.page = e.page /\ h.ini = e.ini
    BY <1>11 DEF Only, Fields
  <2> QED
    BY <2>1, <2>2
<1>15. CheckSoapCall(fn) \/ h.error_cb = g.error_cb
  <2>1. e.error_cb = g.error_cb
    BY <1>4 DEF Only, Fields
  <2>2. h.error_cb = s.error_cb
    BY <1>8 DEF Only, Fields
  <2> QED
    BY <2>1, <2>2, <1>6
<1>16. ErrorsOK(h, b)
  BY <1>1, <1>13, <1>14, <1>15, ErrorsPush
<1>17. PageNamed(h, b)
  BY <1>1, <1>13, <1>14, PageNamedPush
<1>18. CallsOK(h)
  BY <1>9 DEF Still
<1>19. b <= Len(h.stack)
  BY <1>1, <1>13 DEF Pushed, CallsOK
<1> QED
  BY <1>1, <1>12, <1>13, <1>14, <1>16, <1>17, <1>18, <1>19 DEF BegunOK

\* Its line is written into the page.
LEMMA EnterInternalOK ==
    ASSUME NEW g, NEW b, StateOK(g, b), NEW fn \in Names
    PROVE  LET h == EnterInternal(g, fn)
           IN  /\ StateOK(h, b) /\ h.crashed = g.crashed
               /\ h.ini = g.ini /\ Pushed(g, h, fn, TRUE)
<1> DEFINE p == BeginInternal(g, fn)
<1> DEFINE h == EnterInternal(g, fn)
<1> SUFFICES StateOK(h, b) /\ h.crashed = g.crashed /\ h.ini = g.ini /\ Pushed(g, h, fn, TRUE)
  OBVIOUS
<1>1. CallsOK(g) /\ PageOK(g, b) /\ b \in Nat /\ b <= Len(g.stack)
  BY DEF StateOK
<1>2. h = UpdateSharedCallstack(p)
  BY DEF EnterInternal
<1>3. /\ CallsOK(p) /\ TracesOK(p) /\ NestOK(p) /\ ErrorsOK(p, b) /\ b <= Len(p.stack)
      /\ p.crashed = g.crashed /\ p.page = g.page
      /\ p.ini = g.ini /\ p.dropped = g.dropped /\ Pushed(g, p, fn, TRUE)
  BY BeginInternalOK DEF BegunOK
<1> HIDE DEF p, h
<1>4. Still(p, h) /\ h.stack = p.stack /\ Only(p, h, {"page"})
  BY <1>2, <1>3, UpdateSharedCallstackStill
<1>5. TracesOK(h) /\ NestOK(h)
  <2>1. Only(p, h, Fields \ TraceFields)
    BY <1>4, OnlyMore DEF Fields, TraceFields
  <2> QED
    BY <2>1, <1>3, <1>4, TracesOnly DEF Still, TraceFields
<1>6. /\ h.chosen = p.chosen /\ h.lost = p.lost /\ h.dropped = p.dropped
      /\ h.crashed = p.crashed /\ h.ini = p.ini /\ h.error_cb = p.error_cb
      /\ h.level = p.level /\ h.function_count = p.function_count
  BY <1>4 DEF Only, Fields
<1>7. Pushed(g, h, fn, TRUE)
  BY <1>3, <1>4, <1>6 DEF Pushed
<1>8. ErrorsOK(h, b)
  BY <1>3, <1>4, <1>6 DEF ErrorsOK
<1>9. LET i == PageFrame(h, Len(h.stack))
      IN  h.page = IF i = 0 THEN g.page ELSE h.stack[i].fn
  <2>1. DOMAIN p = Fields
    BY <1>3 DEF CallsOK
  <2>2. PageFrame(h, Len(h.stack)) = PageFrame(p, Len(p.stack))
    BY <1>4 DEF PageFrame
  <2>3. h.page = IF PageFrame(p, Len(p.stack)) = 0 THEN p.page
                 ELSE p.stack[PageFrame(p, Len(p.stack))].fn
    BY <1>2, <2>1 DEF UpdateSharedCallstack, Fields
  <2> QED
    BY <2>2, <2>3, <1>3, <1>4
<1>10. PageOK(h, b)
  BY <1>1, <1>3, <1>6, <1>7, <1>9, PagePushInternal
<1>11. CallsOK(h) /\ b <= Len(h.stack)
  BY <1>3, <1>4 DEF Still
<1> QED
  BY <1>1, <1>3, <1>5, <1>6, <1>7, <1>8, <1>10, <1>11 DEF StateOK

\* A call ends: its profile, and then its lines.
LEMMA EndProfileOK ==
    ASSUME NEW g, NEW b, StateOK(g, b), g.stack # <<>>
    PROVE  LET h == EndProfile(Tick(g))
           IN  /\ StateOK(h, b) /\ Still(g, h)
               /\ Only(g, h, {"clock", "stack", "profiler_enabled", "profiles"})
<1> DEFINE t == Tick(g)
<1> DEFINE h == EndProfile(t)
<1> SUFFICES /\ StateOK(h, b) /\ Still(g, h)
             /\ Only(g, h, {"clock", "stack", "profiler_enabled", "profiles"})
  OBVIOUS
<1>1. CallsOK(g)
  BY DEF StateOK
<1>2. Still(g, t) /\ t.stack = g.stack /\ Only(g, t, {"clock"})
  BY <1>1, TickStill
<1> HIDE DEF t
<1>3. CallsOK(t) /\ t.stack # <<>>
  BY <1>2 DEF Still
<1>4. Still(t, h) /\ Only(t, h, {"stack", "profiler_enabled", "profiles"})
  BY <1>3, EndProfileStill
<1> HIDE DEF h
<1>5. Still(g, h)
  BY <1>2, <1>4, StillTrans
<1>6. Only(g, h, {"clock"} \cup {"stack", "profiler_enabled", "profiles"})
  BY <1>2, <1>4, OnlyTrans
<1>7. /\ Only(g, h, {"clock", "stack", "profiler_enabled", "profiles"})
      /\ Only(g, h, Fields \ (NotifyFields \cup TraceFields))
  BY <1>6, OnlyMore DEF Fields, NotifyFields, TraceFields
<1>8. StateOK(h, b)
  BY <1>5, <1>7, StateStill
<1> QED
  BY <1>5, <1>7, <1>8

\* The return of a user function.
LEMMA LeaveUserOK ==
    ASSUME NEW g, NEW b, StateOK(g, b), b < Len(g.stack), ~g.stack[Len(g.stack)].internal,
           ~CheckSoapCall(g.stack[Len(g.stack)].fn), NEW returns
    PROVE  LET h == LeaveUser(g, returns)
           IN  StateOK(h, b) /\ Popped(g, h) /\ h.crashed = g.crashed /\ h.ini = g.ini
<1> DEFINE m == EndProfile(Tick(g))
<1> DEFINE h == LeaveUser(g, returns)
<1> SUFFICES StateOK(h, b) /\ Popped(g, h) /\ h.crashed = g.crashed /\ h.ini = g.ini
  OBVIOUS
<1>1. CallsOK(g) /\ b \in Nat /\ Len(g.stack) \in Nat /\ g.stack # <<>>
  BY DEF StateOK, CallsOK
<1>2. /\ StateOK(m, b) /\ Still(g, m)
      /\ Only(g, m, {"clock", "stack", "profiler_enabled", "profiles"})
  BY <1>1, EndProfileOK
<1>3. h = Ended(m, returns)
  BY DEF LeaveUser, Ended
<1> HIDE DEF m, h
<1>4. CallsOK(m) /\ TracesOK(m) /\ NestOK(m) /\ ErrorsOK(m, b) /\ PageOK(m, b)
  BY <1>2 DEF StateOK
<1>5. Len(m.stack) = Len(g.stack) /\ Alike(g.stack[Len(g.stack)], m.stack[Len(m.stack)])
  BY <1>1, <1>2 DEF Still, SameCalls
<1>6. m.stack # <<>>
  BY <1>1, <1>5
<1>7. /\ CallsOK(h) /\ Popped(m, h) /\ Only(m, h, {"stack", "level", "traces"})
      /\ \A i \in 1..Len(h.stack) : h.stack[i] = m.stack[i]
  BY <1>3, <1>4, <1>6, EndedCalls
<1>8. TracesOK(h) /\ NestOK(h)
  BY <1>3, <1>4, <1>6, EndTraceTraces
<1>9. /\ h.error_cb = m.error_cb /\ h.chosen = m.chosen /\ h.lost = m.lost
      /\ h.page = m.page /\ h.dropped = m.dropped /\ h.crashed = m.crashed /\ h.ini = m.ini
  BY <1>7 DEF Only, Fields
<1>10. /\ ~CheckSoapCall(m.stack[Len(m.stack)].fn) /\ ~m.stack[Len(m.stack)].internal
       /\ b < Len(m.stack)
  BY <1>5 DEF Alike
<1>11. ErrorsOK(h, b)
  BY <1>1, <1>4, <1>7, <1>9, <1>10, ErrorsPop
<1>12. PageOK(h, b)
  BY <1>1, <1>4, <1>6, <1>7, <1>9, <1>10, PagePop
<1>13. Popped(g, h)
  <2>1. Only(g, m, Fields \ {"level", "function_count"})
    BY <1>2, OnlyMore DEF Fields
  <2> QED
    BY <2>1, <1>1, <1>2, <1>7, PoppedStill
<1>14. h.crashed = g.crashed /\ h.ini = g.ini
  BY <1>2, <1>9 DEF Only, Fields
<1>15. b <= Len(h.stack)
  BY <1>1, <1>13 DEF Popped
<1> QED
  BY <1>1, <1>7, <1>8, <1>11, <1>12, <1>13, <1>14, <1>15 DEF StateOK

\* The return of an internal function.
LEMMA LeaveInternalOK ==
    ASSUME NEW g, NEW b, StateOK(g, b), b < Len(g.stack), NEW returns
    PROVE  LET h == LeaveInternal(g, returns)
           IN  StateOK(h, b) /\ Popped(g, h) /\ h.crashed = g.crashed /\ h.ini = g.ini
<1> DEFINE m == EndProfile(Tick(g))
<1> DEFINE s == SoapRestored(m)
<1> DEFINE e == Ended(s, returns)
<1> DEFINE h == LeaveInternal(g, returns)
<1> SUFFICES StateOK(h, b) /\ Popped(g, h) /\ h.crashed = g.crashed /\ h.ini = g.ini
  OBVIOUS
<1>1. CallsOK(g) /\ b \in Nat /\ Len(g.stack) \in Nat /\ g.stack # <<>>
  BY DEF StateOK, CallsOK
<1>2. /\ StateOK(m, b) /\ Still(g, m)
      /\ Only(g, m, {"clock", "stack", "profiler_enabled", "profiles"})
  BY <1>1, EndProfileOK
<1>3. h = PageCleared(e)
  BY DEF LeaveInternal, Ended
<1> HIDE DEF m, h
<1>4. CallsOK(m) /\ TracesOK(m) /\ NestOK(m) /\ ErrorsOK(m, b)
  BY <1>2 DEF StateOK
<1>5. Len(m.stack) = Len(g.stack) /\ m.stack # <<>>
  BY <1>1, <1>2 DEF Still, SameCalls
<1>6. Still(m, s) /\ s.stack = m.stack /\ Only(m, s, {"error_cb"})
  BY <1>4, <1>5, SoapRestoredStill
<1>7. s.error_cb = IF CheckSoapCall(m.stack[Len(m.stack)].fn)
                   THEN m.stack[Len(m.stack)].error_cb ELSE m.error_cb
  <2>1. Last(m.stack) = m.stack[Len(m.stack)] /\ DOMAIN m = Fields
    BY <1>4 DEF Last, CallsOK
  <2> QED
    BY <2>1 DEF SoapRestored, Fields
<1> HIDE DEF s
<1>8. TracesOK(s) /\ NestOK(s) /\ CallsOK(s)
  <2>1. Only(m, s, Fields \ TraceFields)
    BY <1>6, OnlyMore DEF Fields, TraceFields
  <2> QED
    BY <2>1, <1>4, <1>6, TracesOnly DEF Still, TraceFields
<1>9. CallsOK(e) /\ Popped(s, e) /\ Only(s, e, {"stack", "level", "traces"})
  BY <1>5, <1>6, <1>8, EndedCalls
<1>10. TracesOK(e) /\ NestOK(e)
  BY <1>5, <1>6, <1>8, EndTraceTraces
<1> HIDE DEF e
<1>11. /\ CallsOK(h) /\ SameCalls(e.stack, h.stack)
       /\ Only(e, h, {"page", "dropped", "stack"})
       /\ h.page = NoPage
       /\ \A i \in 1..Len(e.stack) : h.stack[i].nested = TRUE
  BY <1>3, <1>9, PageClearedCalls
<1>12. TracesOK(h) /\ NestOK(h)
  <2>1. Only(e, h, Fields \ TraceFields)
    BY <1>11, OnlyMore DEF Fields, TraceFields
  <2> QED
    BY <2>1, <1>10, <1>11, TracesOnly DEF TraceFields
<1>13. Popped(m, e)
  <2>1. Only(m, s, Fields \ {"level", "function_count"})
    BY <1>6, OnlyMore DEF Fields
  <2> QED
    BY <2>1, <1>4, <1>5, <1>6, <1>9, PoppedStill
<1>14. /\ e.chosen = m.chosen /\ e.lost = m.lost /\ e.crashed = m.crashed
       /\ e.error_cb = s.error_cb /\ e.ini = m.ini
  BY <1>6, <1>9 DEF Only, Fields
<1>15. ErrorsOK(e, b)
  BY <1>1, <1>4, <1>5, <1>7, <1>13, <1>14, ErrorsPop
<1>16. h.error_cb = e.error_cb /\ h.chosen = e.chosen /\ h.lost = e.lost /\ h.crashed = e.crashed
       /\ h.ini = e.ini
       /\ h.function_count = e.function_count /\ h.level = e.level
  BY <1>11 DEF Only, Fields
<1>17. ErrorsOK(h, b)
  BY <1>1, <1>11, <1>15, <1>16, ErrorsSame
<1>18. Len(h.stack) = Len(e.stack)
  BY <1>11 DEF SameCalls
<1>19. PageOK(h, b)
  <2>1. \A i \in 1..Len(h.stack) : h.stack[i].nested = TRUE
    BY <1>11, <1>18
  <2> QED
    BY <2>1, <1>1, <1>11, PageWhenCleared
<1>20. Popped(g, e)
  <2>1. Only(g, m, Fields \ {"level", "function_count"})
    BY <1>2, OnlyMore DEF Fields
  <2> QED
    BY <2>1, <1>1, <1>2, <1>13, PoppedStill
<1>21. Popped(g, h)
  <2>1. /\ h.stack \in Seq(Frame)
        /\ \A i \in 1..Len(h.stack) : Alike(e.stack[i], h.stack[i])
    BY <1>11 DEF SameCalls
  <2>2. \A i \in 1..Len(h.stack) : Alike(e.stack[i], g.stack[i])
    BY <1>18, <1>20 DEF Popped
  <2>3. \A i \in 1..Len(h.stack) : Alike(h.stack[i], g.stack[i])
    BY <2>1, <2>2 DEF Alike
  <2> QED
    BY <2>1, <2>3, <1>16, <1>18, <1>20 DEF Popped
<1>22. h.crashed = g.crashed /\ h.ini = g.ini
  BY <1>2, <1>14, <1>16 DEF Only, Fields
<1>23. b <= Len(h.stack)
  BY <1>1, <1>21 DEF Popped
<1> QED
  BY <1>1, <1>11, <1>12, <1>17, <1>19, <1>21, <1>22, <1>23 DEF StateOK

(***************************************************************************)
(* xdebug_profiler_deinit, which ends the calls of the stack one by one    *)
(***************************************************************************)
\* f[i] is what remains when i calls have ended.
Ends(g, f, k) ==
    f = [i \in 0..k |-> IF i = 0 THEN g ELSE FunctionEnd(f[i - 1], Len(g.stack) + 1 - i)]

LEMMA EndsExist ==
    ASSUME NEW g, NEW k \in Nat
    PROVE  \E f : Ends(g, f, k)
<1> DEFINE T == {m \in Nat : ~\E f : Ends(g, f, m)}
<1> SUFFICES ASSUME k \in T
             PROVE  FALSE
  OBVIOUS
<1>1. PICK m \in T : \A y \in T : m <= y
  <2> HIDE DEF T
  <2>1. T \subseteq Nat
    BY DEF T
  <2> QED
    BY <2>1, LeastNumber
<1>2. m \in Nat /\ ~\E f : Ends(g, f, m)
  OBVIOUS
<1>3. m # 0
  <2> DEFINE f == [i \in 0..0 |-> g]
  <2>1. Ends(g, f, 0)
    BY DEF Ends
  <2> QED
    BY <2>1, <1>2
<1>4. m - 1 \in Nat /\ m - 1 \notin T
  BY <1>1, <1>2, <1>3
<1>5. PICK f : Ends(g, f, m - 1)
  BY <1>4
<1> DEFINE e == [i \in 0..m |-> IF i = m THEN FunctionEnd(f[m - 1], Len(g.stack) + 1 - m) ELSE f[i]]
<1>6. e[m] = FunctionEnd(e[m - 1], Len(g.stack) + 1 - m)
  BY <1>4, <1>2
<1>7. \A i \in 0..m - 1 :
         e[i] = IF i = 0 THEN g ELSE FunctionEnd(e[i - 1], Len(g.stack) + 1 - i)
  <2> TAKE i \in 0..m - 1
  <2>1. e[i] = f[i] /\ (i # 0 => e[i - 1] = f[i - 1])
    BY <1>2
  <2>2. f[i] = IF i = 0 THEN g ELSE FunctionEnd(f[i - 1], Len(g.stack) + 1 - i)
    BY <1>5 DEF Ends
  <2> QED
    BY <2>1, <2>2
<1>8. \A i \in 0..m : i = m \/ i \in 0..m - 1
  BY <1>2
<1>9. DOMAIN e = 0..m /\ e = [i \in 0..m |-> e[i]]
  OBVIOUS
<1> HIDE DEF e
<1>10. \A i \in 0..m :
         e[i] = IF i = 0 THEN g ELSE FunctionEnd(e[i - 1], Len(g.stack) + 1 - i)
  BY <1>3, <1>6, <1>7, <1>8
<1>11. Ends(g, e, m)
  BY <1>9, <1>10 DEF Ends
<1> QED
  BY <1>2, <1>11

LEMMA ProfilerDeinitIs ==
    ASSUME NEW g, Len(g.stack) \in Nat
    PROVE  \E f : /\ f[0] = g /\ ProfilerDeinit(g) = f[Len(g.stack)]
                  /\ \A i \in 1..Len(g.stack) :
                        f[i] = FunctionEnd(f[i - 1], Len(g.stack) + 1 - i)
<1> DEFINE f == CHOOSE f : Ends(g, f, Len(g.stack))
<1>1. Ends(g, f, Len(g.stack))
  BY EndsExist
<1>2. ProfilerDeinit(g) = f[Len(g.stack)]
  BY DEF ProfilerDeinit, Ends
<1> HIDE DEF f
<1>3. \A i \in 0..Len(g.stack) :
         f[i] = IF i = 0 THEN g ELSE FunctionEnd(f[i - 1], Len(g.stack) + 1 - i)
  BY <1>1 DEF Ends
<1>4. f[0] = g
  BY <1>3
<1>5. \A i \in 1..Len(g.stack) : f[i] = FunctionEnd(f[i - 1], Len(g.stack) + 1 - i)
  BY <1>3
<1> QED
  BY <1>2, <1>4, <1>5

\* A property of numbers that passes from each to the next holds of all up to n.
LEMMA UpTo ==
    ASSUME NEW n \in Nat, NEW S, 0 \in S, \A i \in 1..n : i - 1 \in S => i \in S
    PROVE  \A i \in 0..n : i \in S
<1> DEFINE T == {i \in 0..n : i \notin S}
<1> SUFFICES ASSUME T # {}
             PROVE  FALSE
  OBVIOUS
<1>1. PICK m \in T : \A y \in T : m <= y
  <2> HIDE DEF T
  <2>1. T \subseteq Nat
    BY DEF T
  <2> QED
    BY <2>1, LeastNumber
<1>2. m \in 1..n /\ m - 1 \in 0..n /\ m \notin S
  OBVIOUS
<1>3. m - 1 \notin T
  BY <1>1, <1>2
<1> QED
  BY <1>2, <1>3

LEMMA FunctionEndStill ==
    ASSUME NEW g, CallsOK(g), NEW i \in 1..Len(g.stack)
    PROVE  Still(g, FunctionEnd(g, i))
<1> DEFINE h == FunctionEnd(g, i)
<1>1. /\ SameCalls(g.stack, h.stack) /\ CallsOK(h)
      /\ \A j \in 1..Len(g.stack) : h.stack[j].nested = g.stack[j].nested
  BY FunctionEndFrames, ZenonT(60)
<1> QED
  BY <1>1 DEF Still

LEMMA ProfilerDeinitStill ==
    ASSUME NEW g, CallsOK(g)
    PROVE  LET h == ProfilerDeinit(g)
           IN  Still(g, h) /\ Only(g, h, {"stack", "profiler_enabled", "profiles"})
<1> DEFINE n == Len(g.stack)
<1>1. n \in Nat /\ DOMAIN g = Fields
  BY DEF CallsOK
<1>2. PICK f : /\ f[0] = g /\ ProfilerDeinit(g) = f[n]
               /\ \A i \in 1..n : f[i] = FunctionEnd(f[i - 1], n + 1 - i)
  BY <1>1, ProfilerDeinitIs
<1> DEFINE P(i) == Still(g, f[i]) /\ Only(g, f[i], {"stack", "profiler_enabled", "profiles"})
<1> DEFINE S == {i \in 0..n : P(i)}
<1>3. 0 \in S
  BY <1>1, <1>2, StillRefl, OnlyNone
<1>4. ASSUME NEW i \in 1..n, i - 1 \in S
      PROVE  i \in S
  <2> DEFINE p == f[i - 1]
  <2> DEFINE h == FunctionEnd(p, n + 1 - i)
  <2>1. Still(g, p) /\ Only(g, p, {"stack", "profiler_enabled", "profiles"})
    BY <1>4
  <2>2. f[i] = h
    BY <1>2
  <2>3. CallsOK(p) /\ n + 1 - i \in 1..Len(p.stack) /\ DOMAIN p = Fields
    BY <1>1, <2>1 DEF Still, SameCalls, CallsOK
  <2> HIDE DEF p, h
  <2>4. Still(p, h)
    BY <2>3, FunctionEndStill DEF h
  <2>5. Only(p, h, {"stack", "profiler_enabled", "profiles"})
    BY <2>3, FunctionEndOnly DEF h
  <2>6. Still(g, h)
    BY <2>1, <2>4, StillTrans
  <2>7. Only(g, h, {"stack", "profiler_enabled", "profiles"})
    <3>1. Only(g, h, {"stack", "profiler_enabled", "profiles"} \cup {"stack", "profiler_enabled", "profiles"})
      BY <2>1, <2>5, OnlyTrans
    <3> QED
      BY <3>1, OnlyMore
  <2>8. i \in 0..n
    BY <1>1
  <2> QED
    BY <2>2, <2>6, <2>7, <2>8
<1>5. \A i \in 0..n : i \in S
  <2> HIDE DEF S, n
  <2> QED
    BY <1>1, <1>3, <1>4, UpTo
<1>6. P(n)
  BY <1>1, <1>5
<1> QED
  BY <1>2, <1>6

(***************************************************************************)
(* What an internal function does to the globals                           *)
(***************************************************************************)
\* The globals that neither the calls, the traces, the callback nor the page
\* depend on.
Aside == {"filter_tracing", "crashed", "do_collect_errors", "collected_errors",
          "do_monitor_functions", "functions_to_monitor", "monitored_found",
          "gc_stats_enabled", "gc_stats_file", "gc_reports"}

\* h is g after what an internal function did: the calls are the same, and a
\* crash is that of a trace that counts as on without a file.
Did(g, h, b) ==
    /\ StateOK(h, b) /\ SameCalls(g.stack, h.stack) /\ h.ini = g.ini
    /\ h.function_count = g.function_count
    /\ h.crashed => g.crashed \/ (h.do_trace /\ h.trace_context = None)

LEMMA AsideOK ==
    ASSUME NEW g, NEW h, NEW b, StateOK(g, b), Only(g, h, Aside),
           h.gc_stats_enabled \in BOOLEAN, h.crashed \in BOOLEAN
    PROVE  /\ StateOK(h, b) /\ Still(g, h) /\ h.stack = g.stack /\ h.ini = g.ini
           /\ h.function_count = g.function_count
           /\ h.do_trace = g.do_trace /\ h.trace_context = g.trace_context
<1>1. /\ h.clock = g.clock /\ h.do_trace = g.do_trace /\ h.ini = g.ini
      /\ h.profiler_enabled = g.profiler_enabled /\ h.error_cb = g.error_cb
      /\ h.trace_context = g.trace_context /\ h.function_count = g.function_count
  BY DEF Only, Fields, Aside
<1>2. CallsOK(g)
  BY DEF StateOK
<1>3. /\ Only(g, h, Fields \ {"ini", "stack", "level", "function_count"})
      /\ Only(g, h, Fields \ (NotifyFields \cup TraceFields))
  BY OnlyMore DEF Fields, Aside, NotifyFields, TraceFields
<1>4. /\ h.clock \in Int /\ h.do_trace \in BOOLEAN /\ h.profiler_enabled \in BOOLEAN
      /\ h.error_cb \in {"xdebug", "engine"}
  BY <1>1, <1>2 DEF CallsOK
<1>5. Still(g, h) /\ h.stack = g.stack
  BY <1>2, <1>3, <1>4, StillOnly
<1>6. StateOK(h, b)
  BY <1>3, <1>5, StateStill
<1> QED
  BY <1>1, <1>5, <1>6

LEMMA AsideDid ==
    ASSUME NEW g, NEW h, NEW b, StateOK(g, b), Only(g, h, Aside),
           h.gc_stats_enabled \in BOOLEAN, h.crashed \in BOOLEAN,
           h.crashed => g.crashed \/ (g.do_trace /\ g.trace_context = None)
    PROVE  Did(g, h, b)
<1>1. /\ StateOK(h, b) /\ Still(g, h) /\ h.stack = g.stack /\ h.ini = g.ini
      /\ h.function_count = g.function_count
      /\ h.do_trace = g.do_trace /\ h.trace_context = g.trace_context
  BY AsideOK
<1> QED
  BY <1>1 DEF Did, Still

LEMMA DidNothing ==
    ASSUME NEW g, NEW b, StateOK(g, b)
    PROVE  Did(g, g, b)
BY SameRefl DEF Did, StateOK, CallsOK

\* PHP_FUNCTION(xdebug_start_trace)
LEMMA StartTraceFunctionDid ==
    ASSUME NEW g, NEW b, StateOK(g, b), NEW options, NEW opened \in BOOLEAN
    PROVE  Did(g, StartTraceFunction(g, options, opened), b)
<1> DEFINE s == StartTrace(g, options, opened)
<1> DEFINE h == StartTraceFunction(g, options, opened)
<1> SUFFICES Did(g, h, b)
  OBVIOUS
<1>1. CASE g.do_trace
  BY <1>1, DidNothing DEF StartTraceFunction
<1>2. CASE ~g.do_trace
  <2>1. CallsOK(g) /\ TracesOK(g) /\ NestOK(g) /\ DOMAIN g = Fields
    BY DEF StateOK, CallsOK
  <2>2. /\ Still(g, s) /\ s.stack = g.stack
        /\ Only(g, s, {"trace_handler", "do_trace", "traces", "trace_context"})
    BY <2>1, StartTraceStill
  <2>3. TracesOK(s) /\ NestOK(s)
    BY <1>2, <2>1, StartTraceTraces
  <2>4. s.do_trace = opened
    BY <1>2, <2>1 DEF StartTrace, Fields, CallsOK
  <2>5. h = [s EXCEPT !.do_trace = opened]
    BY <1>2 DEF StartTraceFunction
  <2>6. s = [f \in DOMAIN s |-> s[f]]
    BY DEF StartTrace
  <2> HIDE DEF s, h
  <2>7. h = s
    BY <2>4, <2>5, <2>6
  <2>8. Only(g, s, Fields \ NotifyFields)
    BY <2>2, OnlyMore DEF Fields, NotifyFields
  <2>9. ErrorsOK(s, b) /\ PageOK(s, b) /\ b <= Len(s.stack)
    BY <2>2, <2>8, NotifyStill
  <2>10. s.ini = g.ini /\ s.function_count = g.function_count /\ s.crashed = g.crashed
    BY <2>2 DEF Only, Fields
  <2>11. StateOK(s, b) /\ SameCalls(g.stack, s.stack)
    BY <2>2, <2>3, <2>9 DEF StateOK, Still
  <2> QED
    BY <2>7, <2>10, <2>11 DEF Did
<1> QED
  BY <1>1, <1>2

LEMMA StopTraceOK ==
    ASSUME NEW g, NEW b, StateOK(g, b)
    PROVE  LET h == StopTrace(g)
           IN  /\ StateOK(h, b) /\ Still(g, h) /\ h.stack = g.stack
               /\ h.ini = g.ini /\ h.function_count = g.function_count
               /\ h.crashed = g.crashed /\ h.trace_context = None
<1> DEFINE h == StopTrace(g)
<1> SUFFICES /\ StateOK(h, b) /\ Still(g, h) /\ h.stack = g.stack
             /\ h.ini = g.ini /\ h.function_count = g.function_count
             /\ h.crashed = g.crashed /\ h.trace_context = None
  OBVIOUS
<1>1. CallsOK(g) /\ TracesOK(g) /\ NestOK(g)
  BY DEF StateOK
<1>2. Still(g, h) /\ h.stack = g.stack /\ Only(g, h, {"do_trace", "traces", "trace_context"})
  BY <1>1, StopTraceStill
<1>3. TracesOK(h) /\ NestOK(h) /\ h.trace_context = None
  BY <1>1, StopTraceTraces
<1> HIDE DEF h
<1>4. Only(g, h, Fields \ NotifyFields)
  BY <1>2, OnlyMore DEF Fields, NotifyFields
<1>5. ErrorsOK(h, b) /\ PageOK(h, b) /\ b <= Len(h.stack)
  BY <1>2, <1>4, NotifyStill
<1>6. h.ini = g.ini /\ h.function_count = g.function_count /\ h.crashed = g.crashed
  BY <1>2 DEF Only, Fields
<1> QED
  BY <1>2, <1>3, <1>5, <1>6 DEF StateOK, Still

\* PHP_FUNCTION(xdebug_stop_trace)
LEMMA StopTraceFunctionDid ==
    ASSUME NEW g, NEW b, StateOK(g, b)
    PROVE  Did(g, StopTraceFunction(g), b)
<1> DEFINE h == StopTraceFunction(g)
<1> SUFFICES Did(g, h, b)
  OBVIOUS
<1>1. CASE ~g.do_trace
  BY <1>1, DidNothing DEF StopTraceFunction
<1>2. CASE g.do_trace /\ g.trace_context = None
  <2>1. DOMAIN g = Fields /\ g.gc_stats_enabled \in BOOLEAN
    BY DEF StateOK, CallsOK
  <2>2. h = [g EXCEPT !.crashed = TRUE]
    BY <1>2 DEF StopTraceFunction
  <2>3. Only(g, h, Aside) /\ h.crashed = TRUE /\ h.gc_stats_enabled = g.gc_stats_enabled
    BY <2>1, <2>2 DEF Only, Fields, Aside
  <2> HIDE DEF h
  <2> QED
    BY <1>2, <2>1, <2>3, AsideDid
<1>3. CASE g.do_trace /\ g.trace_context # None
  <2>1. h = StopTrace(g)
    BY <1>3 DEF StopTraceFunction
  <2> HIDE DEF h
  <2>2. /\ StateOK(h, b) /\ Still(g, h) /\ h.ini = g.ini /\ h.function_count = g.function_count
        /\ h.crashed = g.crashed
    BY <2>1, StopTraceOK
  <2> QED
    BY <2>2 DEF Did, Still
<1> QED
  BY <1>1, <1>2, <1>3

\* PHP_FUNCTION(xdebug_get_tracefile_name)
LEMMA GetTracefileNameDid ==
    ASSUME NEW g, NEW b, StateOK(g, b)
    PROVE  Did(g, GetTracefileName(g), b)
<1> DEFINE h == GetTracefileName(g)
<1> SUFFICES Did(g, h, b)
  OBVIOUS
<1>1. CASE g.do_trace /\ g.trace_context = None
  <2>1. DOMAIN g = Fields /\ g.gc_stats_enabled \in BOOLEAN
    BY DEF StateOK, CallsOK
  <2>2. h = [g EXCEPT !.crashed = TRUE]
    BY <1>1 DEF GetTracefileName
  <2>3. Only(g, h, Aside) /\ h.crashed = TRUE /\ h.gc_stats_enabled = g.gc_stats_enabled
    BY <2>1, <2>2 DEF Only, Fields, Aside
  <2> HIDE DEF h
  <2> QED
    BY <1>1, <2>1, <2>3, AsideDid
<1>2. CASE ~(g.do_trace /\ g.trace_context = None)
  BY <1>2, DidNothing DEF GetTracefileName
<1> QED
  BY <1>1, <1>2

\* PHP_FUNCTION(xdebug_enable) and PHP_FUNCTION(xdebug_disable)
LEMMA ChooseDid ==
    ASSUME NEW g, NEW cb \in {"xdebug", "engine"}, StateOK(g, base)
    PROVE  Did(g, Choose(g, cb), base)
<1> DEFINE h == Choose(g, cb)
<1> SUFFICES Did(g, h, base)
  OBVIOUS
<1>1. CallsOK(g) /\ DOMAIN g = Fields /\ TracesOK(g) /\ NestOK(g) /\ PageOK(g, base)
      /\ base \in Nat /\ base <= Len(g.stack)
  BY DEF StateOK, CallsOK
<1>2. /\ Only(g, h, {"error_cb", "chosen", "enabled", "lost"})
      /\ h.error_cb = cb /\ h.chosen = cb /\ h.lost = InSoapCall(g)
  BY <1>1 DEF Choose, SetErrorCb, Only, Fields
<1> HIDE DEF h
<1>3. /\ Only(g, h, Fields \ {"ini", "stack", "level", "function_count"})
      /\ Only(g, h, Fields \ TraceFields)
  BY <1>2, OnlyMore DEF Fields, TraceFields
<1>4. /\ h.clock = g.clock /\ h.do_trace = g.do_trace /\ h.ini = g.ini
      /\ h.profiler_enabled = g.profiler_enabled /\ h.gc_stats_enabled = g.gc_stats_enabled
      /\ h.crashed = g.crashed /\ h.page = g.page /\ h.dropped = g.dropped
      /\ h.function_count = g.function_count
  BY <1>2 DEF Only, Fields
<1>5. /\ h.clock \in Int /\ h.do_trace \in BOOLEAN /\ h.profiler_enabled \in BOOLEAN
      /\ h.gc_stats_enabled \in BOOLEAN /\ h.crashed \in BOOLEAN
      /\ h.error_cb \in {"xdebug", "engine"}
  BY <1>1, <1>2, <1>4 DEF CallsOK
<1>6. Still(g, h) /\ h.stack = g.stack
  BY <1>1, <1>3, <1>5, StillOnly
<1>7. TracesOK(h) /\ NestOK(h)
  BY <1>1, <1>3, <1>6, TracesOnly DEF Still, TraceFields
<1>8. h.lost \/ \A i \in base + 1..Len(h.stack) : ~CheckSoapCall(h.stack[i].fn)
  BY <1>2, <1>6 DEF InSoapCall
<1>9. ErrorsOK(h, base)
  BY <1>1, <1>2, <1>8, ErrorsChosen
<1>10. PageOK(h, base)
  <2>1. \A i : PageFrame(h, i) = PageFrame(g, i)
    BY <1>6 DEF PageFrame
  <2>2. \A i : Named(h, i) <=> Named(g, i)
    BY <2>1, <1>4, <1>6 DEF Named
  <2>3. \A i : Internal(h, base, i) <=> Internal(g, base, i)
    BY <1>6 DEF Internal
  <2> QED
    BY <1>1, <1>4, <1>6, <2>1, <2>2, <2>3 DEF PageOK
<1>11. StateOK(h, base)
  BY <1>1, <1>6, <1>7, <1>9, <1>10 DEF StateOK, Still
<1> QED
  BY <1>4, <1>6, <1>11 DEF Did, Still

\* pcntl_exec
LEMMA ProfilerDeinitDid ==
    ASSUME NEW g, NEW b, StateOK(g, b)
    PROVE  /\ Did(g, ProfilerDeinit(g), b) /\ Still(g, ProfilerDeinit(g))
           /\ ProfilerDeinit(g).crashed = g.crashed
<1> DEFINE h == ProfilerDeinit(g)
<1> SUFFICES Did(g, h, b) /\ Still(g, h) /\ h.crashed = g.crashed
  OBVIOUS
<1>1. CallsOK(g)
  BY DEF StateOK
<1>2. Still(g, h) /\ Only(g, h, {"stack", "profiler_enabled", "profiles"})
  BY <1>1, ProfilerDeinitStill
<1> HIDE DEF h
<1>3. Only(g, h, Fields \ (NotifyFields \cup TraceFields))
  BY <1>2, OnlyMore DEF Fields, NotifyFields, TraceFields
<1>4. StateOK(h, b)
  BY <1>2, <1>3, StateStill
<1>5. h.ini = g.ini /\ h.function_count = g.function_count /\ h.crashed = g.crashed
  BY <1>2 DEF Only, Fields
<1> QED
  BY <1>2, <1>4, <1>5 DEF Did, Still

LEMMA NoticeOnly ==
    ASSUME NEW g, DOMAIN g = Fields, NEW c, NEW e, e = IF c THEN ErrorCb(g, "notice") ELSE g
    PROVE  /\ Only(g, e, {"collected_errors"}) /\ DOMAIN e = Fields
           /\ e.crashed = g.crashed /\ e.gc_stats_enabled = g.gc_stats_enabled
<1>1. Only(g, e, {"collected_errors"})
  BY ErrorCbOnly, OnlyNone
<1> QED
  BY <1>1 DEF Only, Fields

\* The functions that note something beside traces and profiles.
LEMMA NotesOnly ==
    ASSUME NEW g, CallsOK(g), NEW h,
           \/ \E on \in BOOLEAN : h = CollectErrors(g, on)
           \/ \E c \in BOOLEAN : h = GetCollectedErrors(g, c)
           \/ \E names : h = StartFunctionMonitor(g, names)
           \/ h = StopFunctionMonitor(g)
           \/ \E c \in BOOLEAN : h = GetMonitoredFunctions(g, c)
           \/ \E opened \in BOOLEAN : h = StartGcStats(g, opened)
           \/ h = StopGcStats(g)
           \/ \E t : h = [g EXCEPT !.filter_tracing = t]
    PROVE  Only(g, h, Aside) /\ h.crashed = g.crashed /\ h.gc_stats_enabled \in BOOLEAN
<1>1. DOMAIN g = Fields /\ g.gc_stats_enabled \in BOOLEAN /\ g.crashed \in BOOLEAN
  BY DEF CallsOK
<1>2. ASSUME NEW on \in BOOLEAN, h = CollectErrors(g, on)
      PROVE  Only(g, h, Aside) /\ h.crashed = g.crashed /\ h.gc_stats_enabled \in BOOLEAN
  <2> DEFINE e == IF g.do_collect_errors = on THEN ErrorCb(g, "notice") ELSE g
  <2>1. h = [e EXCEPT !.do_collect_errors = on]
    BY <1>2 DEF CollectErrors
  <2>2. /\ Only(g, e, {"collected_errors"}) /\ DOMAIN e = Fields
        /\ e.crashed = g.crashed /\ e.gc_stats_enabled = g.gc_stats_enabled
    BY <1>1, NoticeOnly
  <2> HIDE DEF e
  <2> QED
    BY <1>1, <2>1, <2>2 DEF Only, Fields, Aside
<1>3. ASSUME NEW c \in BOOLEAN, h = GetCollectedErrors(g, c)
      PROVE  Only(g, h, Aside) /\ h.crashed = g.crashed /\ h.gc_stats_enabled \in BOOLEAN
  BY <1>1, <1>3 DEF GetCollectedErrors, Only, Fields, Aside
<1>4. ASSUME NEW names, h = StartFunctionMonitor(g, names)
      PROVE  Only(g, h, Aside) /\ h.crashed = g.crashed /\ h.gc_stats_enabled \in BOOLEAN
  <2> DEFINE e == IF g.do_monitor_functions THEN ErrorCb(g, "notice") ELSE g
  <2> DEFINE d == [e EXCEPT !.do_monitor_functions = TRUE]
  <2>1. h = [d EXCEPT !.functions_to_monitor = names]
    BY <1>4 DEF StartFunctionMonitor
  <2>2. /\ Only(g, e, {"collected_errors"}) /\ DOMAIN e = Fields
        /\ e.crashed = g.crashed /\ e.gc_stats_enabled = g.gc_stats_enabled
    BY <1>1, NoticeOnly
  <2> HIDE DEF e
  <2>3. Only(g, d, Aside) /\ d.crashed = g.crashed /\ d.gc_stats_enabled \in BOOLEAN
    BY <1>1, <2>2 DEF Only, Fields, Aside
  <2> HIDE DEF d
  <2> QED
    BY <2>1, <2>3 DEF Only, Fields, Aside
<1>5. ASSUME h = StopFunctionMonitor(g)
      PROVE  Only(g, h, Aside) /\ h.crashed = g.crashed /\ h.gc_stats_enabled \in BOOLEAN
  <2> DEFINE e == IF ~g.do_monitor_functions THEN ErrorCb(g, "notice") ELSE g
  <2>1. h = [e EXCEPT !.do_monitor_functions = FALSE]
    BY <1>5 DEF StopFunctionMonitor
  <2>2. /\ Only(g, e, {"collected_errors"}) /\ DOMAIN e = Fields
        /\ e.crashed = g.crashed /\ e.gc_stats_enabled = g.gc_stats_enabled
    BY <1>1, NoticeOnly
  <2> HIDE DEF e
  <2> QED
    BY <1>1, <2>1, <2>2 DEF Only, Fields, Aside
<1>6. ASSUME NEW c \in BOOLEAN, h = GetMonitoredFunctions(g, c)
      PROVE  Only(g, h, Aside) /\ h.crashed = g.crashed /\ h.gc_stats_enabled \in BOOLEAN
  BY <1>1, <1>6 DEF GetMonitoredFunctions, Only, Fields, Aside
<1>7. ASSUME NEW opened \in BOOLEAN, h = StartGcStats(g, opened)
      PROVE  Only(g, h, Aside) /\ h.crashed = g.crashed /\ h.gc_stats_enabled \in BOOLEAN
  <2>1. CASE g.gc_stats_enabled
    BY <1>1, <1>7, <2>1, OnlyNone DEF StartGcStats
  <2>2. CASE ~g.gc_stats_enabled
    <3>1. CallsOK(g) /\ h = GcStatsInit(g, opened)
      BY <1>7, <2>2 DEF StartGcStats
    <3>2. Still(g, h) /\ Only(g, h, {"gc_reports", "gc_stats_file", "gc_stats_enabled"})
      BY <3>1, GcStatsInitStill
    <3>3. Only(g, h, Aside)
      BY <3>2, OnlyMore DEF Aside
    <3> QED
      BY <3>2, <3>3 DEF Only, Fields, Still, CallsOK
  <2> QED
    BY <2>1, <2>2
<1>8. ASSUME h = StopGcStats(g)
      PROVE  Only(g, h, Aside) /\ h.crashed = g.crashed /\ h.gc_stats_enabled \in BOOLEAN
  <2>1. Still(g, h) /\ Only(g, h, {"gc_stats_file", "gc_stats_enabled"})
    BY <1>8, StopGcStatsStill
  <2>2. Only(g, h, Aside)
    BY <2>1, OnlyMore DEF Aside
  <2> QED
    BY <2>1, <2>2 DEF Only, Fields, Still, CallsOK
<1>9. ASSUME NEW t, h = [g EXCEPT !.filter_tracing = t]
      PROVE  Only(g, h, Aside) /\ h.crashed = g.crashed /\ h.gc_stats_enabled \in BOOLEAN
  BY <1>1, <1>9 DEF Only, Fields, Aside
<1> QED
  BY <1>2, <1>3, <1>4, <1>5, <1>6, <1>7, <1>8, <1>9

LEMMA NotesDid ==
    ASSUME NEW g, NEW b, StateOK(g, b), NEW h,
           \/ \E on \in BOOLEAN : h = CollectErrors(g, on)
           \/ \E c \in BOOLEAN : h = GetCollectedErrors(g, c)
           \/ \E names : h = StartFunctionMonitor(g, names)
           \/ h = StopFunctionMonitor(g)
           \/ \E c \in BOOLEAN : h = GetMonitoredFunctions(g, c)
           \/ \E opened \in BOOLEAN : h = StartGcStats(g, opened)
           \/ h = StopGcStats(g)
           \/ \E t : h = [g EXCEPT !.filter_tracing = t]
    PROVE  Did(g, h, b)
<1>1. CallsOK(g)
  BY DEF StateOK
<1>2. Only(g, h, Aside) /\ h.crashed = g.crashed /\ h.gc_stats_enabled \in BOOLEAN
  BY <1>1, NotesOnly
<1>3. h.crashed \in BOOLEAN
  BY <1>1, <1>2 DEF CallsOK
<1> QED
  BY <1>2, <1>3, AsideDid

\* What any internal function does keeps what is known.
LEMMA OutcomesDid ==
    ASSUME NEW g, StateOK(g, base), NEW fn, NEW h \in Outcomes(g, fn)
    PROVE  Did(g, h, base)
<1>1. CASE fn = "xdebug_start_trace"
  BY <1>1, StartTraceFunctionDid DEF Outcomes
<1>2. CASE fn = "xdebug_stop_trace"
  BY <1>2, StopTraceFunctionDid DEF Outcomes
<1>3. CASE fn = "xdebug_get_tracefile_name"
  BY <1>3, GetTracefileNameDid DEF Outcomes
<1>4. CASE fn = "xdebug_set_filter"
  <2>1. \E t : h = [g EXCEPT !.filter_tracing = t]
    BY <1>4 DEF Outcomes
  <2> QED
    BY <2>1, NotesDid
<1>5. CASE fn = "pcntl_exec"
  <2>1. h = ProfilerDeinit(g) \/ h = g
    BY <1>5 DEF Outcomes
  <2> QED
    BY <2>1, ProfilerDeinitDid, DidNothing
<1>6. CASE fn \in {"xdebug_enable", "xdebug_disable"}
  <2>1. h = Choose(g, "xdebug") \/ h = Choose(g, "engine")
    BY <1>6 DEF Outcomes
  <2> QED
    BY <2>1, ChooseDid
<1>7. CASE fn \in {"xdebug_error_collection", "xdebug_get_collected_errors",
                   "xdebug_start_function_monitor", "xdebug_stop_function_monitor",
                   "xdebug_get_monitored_functions", "xdebug_start_gcstats",
                   "xdebug_stop_gcstats"}
  <2>1. \/ \E on \in BOOLEAN : h = CollectErrors(g, on)
        \/ \E c \in BOOLEAN : h = GetCollectedErrors(g, c)
        \/ \E names : h = StartFunctionMonitor(g, names)
        \/ h = StopFunctionMonitor(g)
        \/ \E c \in BOOLEAN : h = GetMonitoredFunctions(g, c)
        \/ \E opened \in BOOLEAN : h = StartGcStats(g, opened)
        \/ h = StopGcStats(g)
    BY <1>7 DEF Outcomes
  <2> QED
    BY <2>1, NotesDid
<1>8. CASE fn \notin {"xdebug_start_trace", "xdebug_stop_trace", "xdebug_get_tracefile_name",
                      "xdebug_set_filter", "pcntl_exec", "xdebug_enable", "xdebug_disable",
                      "xdebug_error_collection", "xdebug_get_collected_errors",
                      "xdebug_start_function_monitor", "xdebug_stop_function_monitor",
                      "xdebug_get_monitored_functions", "xdebug_start_gcstats",
                      "xdebug_stop_gcstats"}
  <2>1. h = g
    BY <1>8 DEF Outcomes
  <2> QED
    BY <2>1, DidNothing
<1> QED
  BY <1>1, <1>2, <1>3, <1>4, <1>5, <1>6, <1>7, <1>8

\* xdebug_error_cb, and xdebug_gc_stats_print_run.
LEMMA ErrorCbOK ==
    ASSUME NEW g, NEW b, StateOK(g, b), NEW type
    PROVE  LET h == ErrorCb(g, type)
           IN  /\ StateOK(h, b) /\ h.stack = g.stack /\ h.ini = g.ini /\ h.crashed = g.crashed
               /\ h.function_count = g.function_count
<1> DEFINE h == ErrorCb(g, type)
<1> SUFFICES /\ StateOK(h, b) /\ h.stack = g.stack /\ h.ini = g.ini /\ h.crashed = g.crashed
             /\ h.function_count = g.function_count
  OBVIOUS
<1>1. CallsOK(g) /\ DOMAIN g = Fields
  BY DEF StateOK, CallsOK
<1>2. Only(g, h, {"collected_errors"})
  BY <1>1, ErrorCbOnly
<1> HIDE DEF h
<1>3. Only(g, h, Aside)
  BY <1>2, OnlyMore DEF Aside
<1>4. h.gc_stats_enabled = g.gc_stats_enabled /\ h.crashed = g.crashed
  BY <1>2 DEF Only, Fields
<1>5. h.gc_stats_enabled \in BOOLEAN /\ h.crashed \in BOOLEAN
  BY <1>1, <1>4 DEF CallsOK
<1> QED
  BY <1>3, <1>4, <1>5, AsideOK

LEMMA CollectedOK ==
    ASSUME NEW g, NEW b, StateOK(g, b)
    PROVE  LET h == Collected(g)
           IN  /\ StateOK(h, b) /\ h.stack = g.stack /\ h.ini = g.ini /\ h.crashed = g.crashed
               /\ h.function_count = g.function_count
               /\ h.do_trace = g.do_trace /\ h.trace_context = g.trace_context
<1> DEFINE h == Collected(g)
<1> SUFFICES /\ StateOK(h, b) /\ h.stack = g.stack /\ h.ini = g.ini /\ h.crashed = g.crashed
             /\ h.function_count = g.function_count
             /\ h.do_trace = g.do_trace /\ h.trace_context = g.trace_context
  OBVIOUS
<1>1. CallsOK(g) /\ DOMAIN g = Fields
  BY DEF StateOK, CallsOK
<1>2. Only(g, h, {"gc_reports"})
  <2>1. CASE h = g
    BY <1>1, <2>1, OnlyNone
  <2>2. CASE h = [g EXCEPT !.gc_reports[g.gc_stats_file] = @ + 1]
    <3> HIDE DEF h
    <3> QED
      BY <1>1, <2>2 DEF Only, Fields
  <2> QED
    BY <2>1, <2>2 DEF Collected, PrintRun
<1> HIDE DEF h
<1>3. Only(g, h, Aside)
  BY <1>2, OnlyMore DEF Aside
<1>4. h.gc_stats_enabled = g.gc_stats_enabled /\ h.crashed = g.crashed
  BY <1>2 DEF Only, Fields
<1>5. h.gc_stats_enabled \in BOOLEAN /\ h.crashed \in BOOLEAN
  BY <1>1, <1>4 DEF CallsOK
<1> QED
  BY <1>3, <1>4, <1>5, AsideOK

(***************************************************************************)
(* The start and the end of a request                                      *)
(***************************************************************************)
LEMMA EmptyOK ==
    ASSUME NEW h, DOMAIN h = Fields, h.ini \in Apps, h.stack = <<>>, h.level = 0,
           h.function_count \in Int, h.function_count >= -1, h.clock \in Int,
           h.do_trace = FALSE, h.profiler_enabled = FALSE, h.gc_stats_enabled = FALSE,
           h.crashed \in BOOLEAN, h.error_cb \in {"xdebug", "engine"},
           h.traces \in Seq(Trace), h.trace_context = None,
           h.trace_handler \in DOMAIN TraceHandlers,
           \A i \in 1..Len(h.traces) :
              /\ h.traces[i].footer \/ h.traces[i].replaced
              /\ h.traces[i].replaced => h.ini.auto_trace
              /\ h.traces[i].format = "computerized" => Nested(h.traces[i]),
           h.lost \/ h.error_cb = h.chosen, h.page \in {NoPage} \cup h.dropped
    PROVE  StateOK(h, 0)
<1>1. CallsOK(h)
  <2>1. h.stack \in Seq(Frame) /\ Len(h.stack) = 0
    BY EmptySeq
  <2>2. Ordered(h.stack, h.function_count)
    BY <2>1 DEF Ordered
  <2> QED
    BY <2>1, <2>2 DEF CallsOK
<1>2. Len(h.traces) \in Nat
  OBVIOUS
<1>3. TracesOK(h) /\ NestOK(h)
  BY <1>2 DEF TracesOK, NestOK, None
<1>4. Len(h.stack) = 0
  OBVIOUS
<1>5. ErrorsOK(h, 0)
  BY <1>4 DEF ErrorsOK
<1>6. PageOK(h, 0)
  BY <1>4 DEF PageOK, Internal
<1> QED
  BY <1>1, <1>3, <1>4, <1>5, <1>6 DEF StateOK

\* PHP_RINIT_FUNCTION
LEMMA RInitOK ==
    ASSUME NEW g, NEW soap \in BOOLEAN, StateOK(g, 0), g.stack = <<>>
    PROVE  LET h == RInit(g, soap)
           IN  StateOK(h, 0) /\ h.stack = <<>> /\ h.ini = g.ini /\ h.crashed = g.crashed
<1> DEFINE f == Fresh(g)
<1> DEFINE s == SetErrorCb(f, "xdebug")
<1> DEFINE h == RInit(g, soap)
<1> SUFFICES StateOK(h, 0) /\ h.stack = <<>> /\ h.ini = g.ini /\ h.crashed = g.crashed
  OBVIOUS
<1>1. CallsOK(g) /\ TracesOK(g) /\ DOMAIN g = Fields
  BY DEF StateOK, CallsOK
<1>2. g.lost \/ g.error_cb = g.chosen
  BY DEF StateOK, ErrorsOK
<1>3. g.page \in {NoPage} \cup g.dropped
  BY DEF StateOK, PageOK, Internal
<1>4. /\ DOMAIN f = Fields
      /\ f.ini = g.ini /\ f.trace_handler = g.trace_handler /\ f.error_cb = g.error_cb
      /\ f.page = g.page /\ f.crashed = g.crashed /\ f.chosen = g.chosen
      /\ f.lost = g.lost /\ f.dropped = g.dropped
  BY <1>1, FreshOnly DEF Only, Fields
<1>5. /\ f.stack = <<>> /\ f.level = 0 /\ f.function_count = -1 /\ f.clock = 0
      /\ f.do_trace = FALSE /\ f.trace_context = None /\ f.profiler_enabled = FALSE
      /\ f.gc_stats_enabled = FALSE /\ f.traces = <<>>
  BY <1>1 DEF Fresh, Fields
<1>6. h = IF g.ini.default_enable /\ ~soap THEN [s EXCEPT !.lost = FALSE] ELSE f
  BY DEF RInit
<1> HIDE DEF f
<1>7. /\ Only(f, h, {"error_cb", "chosen", "lost"}) /\ h.error_cb \in {"xdebug", "engine"}
      /\ h.lost \/ h.error_cb = h.chosen
  <2>1. CASE g.ini.default_enable /\ ~soap
    <3>1. Only(f, s, {"error_cb", "chosen", "lost"}) /\ s.error_cb = "xdebug" /\ s.chosen = "xdebug"
      BY <1>4 DEF SetErrorCb, Only, Fields
    <3> HIDE DEF s
    <3> QED
      BY <2>1, <1>6, <3>1 DEF Only, Fields
  <2>2. CASE ~(g.ini.default_enable /\ ~soap)
    <3>1. h = f
      BY <2>2, <1>6
    <3>2. Only(f, f, {"error_cb", "chosen", "lost"})
      BY <1>4, OnlyNone
    <3>3. f.error_cb \in {"xdebug", "engine"}
      BY <1>1, <1>4 DEF CallsOK
    <3> QED
      BY <3>1, <3>2, <3>3, <1>2, <1>4
  <2> QED
    BY <2>1, <2>2
<1> HIDE DEF h
<1>8. /\ DOMAIN h = Fields
      /\ h.ini = f.ini /\ h.trace_handler = f.trace_handler /\ h.page = f.page
      /\ h.crashed = f.crashed /\ h.dropped = f.dropped
      /\ h.stack = f.stack /\ h.level = f.level /\ h.function_count = f.function_count
      /\ h.clock = f.clock /\ h.do_trace = f.do_trace /\ h.trace_context = f.trace_context
      /\ h.profiler_enabled = f.profiler_enabled /\ h.traces = f.traces
      /\ h.gc_stats_enabled = f.gc_stats_enabled
  BY <1>7 DEF Only, Fields
<1>9. /\ h.ini \in Apps /\ h.stack = <<>> /\ h.level = 0 /\ h.function_count = -1 /\ h.clock = 0
      /\ h.do_trace = FALSE /\ h.profiler_enabled = FALSE /\ h.gc_stats_enabled = FALSE
      /\ h.crashed \in BOOLEAN /\ h.traces = <<>> /\ h.trace_context = None
      /\ h.trace_handler \in DOMAIN TraceHandlers /\ h.page \in {NoPage} \cup h.dropped
      /\ h.ini = g.ini /\ h.crashed = g.crashed
  BY <1>1, <1>3, <1>4, <1>5, <1>8 DEF CallsOK, TracesOK
<1>10. StateOK(h, 0)
  <2>1. h.traces \in Seq(Trace) /\ Len(h.traces) = 0
    BY <1>9
  <2>2. h.function_count \in Int /\ h.function_count >= -1 /\ h.clock \in Int
    BY <1>9
  <2>3. \A i \in 1..Len(h.traces) :
           /\ h.traces[i].footer \/ h.traces[i].replaced
           /\ h.traces[i].replaced => h.ini.auto_trace
           /\ h.traces[i].format = "computerized" => Nested(h.traces[i])
    BY <2>1
  <2> QED
    BY <2>1, <2>2, <2>3, <1>7, <1>8, <1>9, EmptyOK
<1> QED
  BY <1>9, <1>10

\* ZEND_MODULE_POST_ZEND_DEACTIVATE, when no call that counts is in progress.
LEMMA PostDeactivateOK ==
    ASSUME NEW g, StateOK(g, Len(g.stack))
    PROVE  LET h == PostDeactivate(g)
           IN  /\ StateOK(h, 0) /\ h.stack = <<>> /\ h.ini = g.ini /\ h.crashed = g.crashed
               /\ h.trace_context = None
<1> DEFINE t == IF g.do_trace /\ g.trace_context # None THEN StopTrace(g) ELSE g
<1> DEFINE c == IF t.gc_stats_enabled THEN StopGcStats(t) ELSE t
<1> DEFINE h == PostDeactivate(g)
<1> SUFFICES /\ StateOK(h, 0) /\ h.stack = <<>> /\ h.ini = g.ini /\ h.crashed = g.crashed
             /\ h.trace_context = None
  OBVIOUS
<1>1. CallsOK(g) /\ TracesOK(g) /\ NestOK(g) /\ DOMAIN g = Fields
      /\ ErrorsOK(g, Len(g.stack)) /\ PageOK(g, Len(g.stack)) /\ Len(g.stack) \in Nat
  BY DEF StateOK, CallsOK
<1>2. g.lost \/ g.error_cb = g.chosen
  BY <1>1 DEF ErrorsOK
<1>3. g.page \in {NoPage} \cup g.dropped
  BY <1>1 DEF PageOK, Internal
<1>4. h = [c EXCEPT !.stack = <<>>, !.level = 0, !.do_trace = FALSE,
                    !.profile_file = 0, !.profiler_enabled = FALSE]
  BY DEF PostDeactivate
<1>5. /\ Only(g, t, {"do_trace", "traces", "trace_context"})
      /\ TracesOK(t) /\ NestOK(t) /\ t.trace_context = None
  <2>1. CASE g.do_trace /\ g.trace_context # None
    <3>1. t = StopTrace(g)
      BY <2>1
    <3> HIDE DEF t
    <3> QED
      BY <3>1, <1>1, StopTraceStill, StopTraceTraces
  <2>2. CASE ~(g.do_trace /\ g.trace_context # None)
    <3>1. t = g
      BY <2>2
    <3>2. g.trace_context = None
      BY <2>2, <1>1 DEF TracesOK
    <3> HIDE DEF t
    <3> QED
      BY <3>1, <3>2, <1>1, OnlyNone
  <2> QED
    BY <2>1, <2>2
<1> HIDE DEF t
<1>6. Only(t, c, {"gc_stats_file", "gc_stats_enabled"}) /\ c.gc_stats_enabled = FALSE
  <2>1. DOMAIN t = Fields /\ t.gc_stats_enabled \in BOOLEAN
    BY <1>1, <1>5 DEF Only, Fields, CallsOK
  <2>2. CASE t.gc_stats_enabled
    <3>1. c = StopGcStats(t)
      BY <2>2
    <3>2. StopGcStats(t).gc_stats_enabled = FALSE
      BY <2>1 DEF StopGcStats, Fields
    <3> QED
      BY <3>1, <3>2, <2>1, StopGcStatsOnly
  <2>3. CASE ~t.gc_stats_enabled
    BY <2>1, <2>3, OnlyNone
  <2> QED
    BY <2>2, <2>3
<1> HIDE DEF c, h
<1>7. DOMAIN c = Fields /\ DOMAIN t = Fields
  BY <1>5, <1>6 DEF Only
<1>8. /\ h.stack = <<>> /\ h.level = 0 /\ h.do_trace = FALSE /\ h.profiler_enabled = FALSE
      /\ Only(c, h, {"stack", "level", "do_trace", "profile_file", "profiler_enabled"})
  BY <1>4, <1>7 DEF Only, Fields
<1>9. /\ DOMAIN h = Fields
      /\ h.ini = g.ini /\ h.function_count = g.function_count /\ h.clock = g.clock
      /\ h.crashed = g.crashed /\ h.error_cb = g.error_cb /\ h.chosen = g.chosen
      /\ h.lost = g.lost /\ h.page = g.page /\ h.dropped = g.dropped
      /\ h.trace_handler = g.trace_handler
  <2>1. /\ t.ini = g.ini /\ t.function_count = g.function_count /\ t.clock = g.clock
        /\ t.crashed = g.crashed /\ t.error_cb = g.error_cb /\ t.chosen = g.chosen
        /\ t.lost = g.lost /\ t.page = g.page /\ t.dropped = g.dropped
        /\ t.trace_handler = g.trace_handler
    BY <1>5 DEF Only, Fields
  <2>2. /\ c.ini = t.ini /\ c.function_count = t.function_count /\ c.clock = t.clock
        /\ c.crashed = t.crashed /\ c.error_cb = t.error_cb /\ c.chosen = t.chosen
        /\ c.lost = t.lost /\ c.page = t.page /\ c.dropped = t.dropped
        /\ c.trace_handler = t.trace_handler
    BY <1>6 DEF Only, Fields
  <2>3. /\ DOMAIN h = Fields
        /\ h.ini = c.ini /\ h.function_count = c.function_count /\ h.clock = c.clock
        /\ h.crashed = c.crashed /\ h.error_cb = c.error_cb /\ h.chosen = c.chosen
        /\ h.lost = c.lost /\ h.page = c.page /\ h.dropped = c.dropped
        /\ h.trace_handler = c.trace_handler
    BY <1>8 DEF Only, Fields
  <2> QED
    BY <2>1, <2>2, <2>3
<1>10. h.traces = t.traces /\ h.trace_context = t.trace_context /\ h.gc_stats_enabled = FALSE
       /\ t.ini = g.ini
  <2>1. h.traces = c.traces /\ h.trace_context = c.trace_context
        /\ h.gc_stats_enabled = c.gc_stats_enabled
    BY <1>8 DEF Only, Fields
  <2>2. c.traces = t.traces /\ c.trace_context = t.trace_context
    BY <1>6 DEF Only, Fields
  <2>3. t.ini = g.ini
    BY <1>5 DEF Only, Fields
  <2> QED
    BY <2>1, <2>2, <2>3, <1>6
<1>11. \A i \in 1..Len(t.traces) :
          /\ t.traces[i].footer \/ t.traces[i].replaced
          /\ t.traces[i].replaced => t.ini.auto_trace
          /\ t.traces[i].format = "computerized" => Nested(t.traces[i])
  <2>1. \A i \in 1..Len(t.traces) : i # t.trace_context
    BY <1>5 DEF None
  <2> QED
    BY <2>1, <1>5 DEF TracesOK, NestOK
<1>12. /\ h.ini \in Apps /\ h.function_count \in Int /\ h.function_count >= -1
       /\ h.clock \in Int /\ h.crashed \in BOOLEAN /\ h.error_cb \in {"xdebug", "engine"}
       /\ h.trace_handler \in DOMAIN TraceHandlers
  BY <1>1, <1>9 DEF CallsOK, TracesOK
<1>13. h.traces \in Seq(Trace) /\ h.trace_context = None
  BY <1>5, <1>10 DEF TracesOK
<1>14. \A i \in 1..Len(h.traces) :
          /\ h.traces[i].footer \/ h.traces[i].replaced
          /\ h.traces[i].replaced => h.ini.auto_trace
          /\ h.traces[i].format = "computerized" => Nested(h.traces[i])
  BY <1>9, <1>10, <1>11
<1>15. (h.lost \/ h.error_cb = h.chosen) /\ h.page \in {NoPage} \cup h.dropped
  BY <1>2, <1>3, <1>9
<1>16. StateOK(h, 0)
  BY <1>8, <1>9, <1>10, <1>12, <1>13, <1>14, <1>15, EmptyOK
<1> QED
  BY <1>8, <1>9, <1>13, <1>16

\* The globals of a worker that has just started.
LEMMA GlobalsOK ==
    ASSUME NEW app \in Apps
    PROVE  LET g == Globals(app)
           IN  /\ StateOK(g, 0) /\ g.stack = <<>> /\ g.trace_context = None
               /\ g.crashed = FALSE
<1> DEFINE g == Globals(app)
<1> SUFFICES StateOK(g, 0) /\ g.stack = <<>> /\ g.trace_context = None /\ g.crashed = FALSE
  OBVIOUS
<1>1. /\ g.ini = app /\ g.stack = <<>> /\ g.level = 0 /\ g.function_count = -1 /\ g.clock = 0
      /\ g.do_trace = FALSE /\ g.profiler_enabled = FALSE /\ g.gc_stats_enabled = FALSE
      /\ g.crashed = FALSE /\ g.error_cb = "engine" /\ g.traces = <<>>
      /\ g.trace_context = None /\ g.trace_handler = "textual" /\ g.chosen = "engine"
      /\ g.page = NoPage
  BY DEF Globals
<1>2. DOMAIN g = Fields
  BY GlobalsFields
<1> HIDE DEF g
<1>3. g.traces \in Seq(Trace) /\ Len(g.traces) = 0 /\ "textual" \in DOMAIN TraceHandlers
  BY <1>1 DEF TraceHandlers
<1>4. g.function_count \in Int /\ g.function_count >= -1 /\ g.clock \in Int
  BY <1>1
<1>5. \A i \in 1..Len(g.traces) :
         /\ g.traces[i].footer \/ g.traces[i].replaced
         /\ g.traces[i].replaced => g.ini.auto_trace
         /\ g.traces[i].format = "computerized" => Nested(g.traces[i])
  BY <1>3
<1>6. StateOK(g, 0)
  BY <1>1, <1>2, <1>3, <1>4, <1>5, EmptyOK
<1> QED
  BY <1>1, <1>6

(***************************************************************************)
(* The invariant, and the steps                                            *)
(***************************************************************************)
\* The functions that user calls and internal calls may be of, and the script
\* itself is the outermost call.
KindsOK(g) ==
    \A i \in 1..Len(g.stack) :
        /\ IF g.stack[i].internal THEN g.stack[i].fn \in g.ini.internals \cup {"trigger_error"}
           ELSE g.stack[i].fn \in g.ini.users \cup {Main}
        /\ g.stack[i].fn = Main => i = 1

HooksInv ==
    /\ StateOK(xg, base) /\ KindsOK(xg)
    /\ phase = "idle" => xg.stack = <<>> /\ base = 0 /\ xg.trace_context = None
    /\ xg.crashed => /\ phase = "dead" /\ Running /\ Top.internal /\ Top.fn \notin Callers
                     /\ xg.do_trace /\ xg.trace_context = None

LEMMA FnNames ==
    ASSUME NEW g, CallsOK(g)
    PROVE  /\ g.ini.users \subseteq Names /\ g.ini.internals \subseteq Names
           /\ Main \in Names /\ "trigger_error" \in Names
BY DEF CallsOK, Names

LEMMA KindsSame ==
    ASSUME NEW g, NEW h, KindsOK(g), SameCalls(g.stack, h.stack), h.ini = g.ini
    PROVE  KindsOK(h)
BY SMTT(40) DEF KindsOK, SameCalls, Alike

LEMMA KindsPush ==
    ASSUME NEW g, NEW h, NEW fn, NEW internal, CallsOK(g), KindsOK(g),
           Pushed(g, h, fn, internal), h.ini = g.ini,
           IF internal THEN fn \in g.ini.internals \cup {"trigger_error"}
           ELSE fn \in g.ini.users \cup {Main},
           fn = Main => g.stack = <<>>
    PROVE  KindsOK(h)
<1> DEFINE n == Len(g.stack)
<1>1. n \in Nat /\ Len(h.stack) = n + 1
  BY DEF CallsOK, Pushed
<1>2. \A i \in 1..n : Alike(h.stack[i], g.stack[i])
  BY DEF Pushed
<1>3. h.stack[n + 1].fn = fn /\ h.stack[n + 1].internal = internal
  BY DEF Pushed
<1>4. fn = Main => n = 0
  OBVIOUS
<1> HIDE DEF n
<1>5. \A i \in 1..n + 1 : i \in 1..n \/ i = n + 1
  BY <1>1
<1>6. \A i \in 1..n :
        /\ IF h.stack[i].internal THEN h.stack[i].fn \in h.ini.internals \cup {"trigger_error"}
           ELSE h.stack[i].fn \in h.ini.users \cup {Main}
        /\ h.stack[i].fn = Main => i = 1
  BY <1>2 DEF KindsOK, Alike, n
<1>7. /\ IF h.stack[n + 1].internal
         THEN h.stack[n + 1].fn \in h.ini.internals \cup {"trigger_error"}
         ELSE h.stack[n + 1].fn \in h.ini.users \cup {Main}
      /\ h.stack[n + 1].fn = Main => n + 1 = 1
  BY <1>3, <1>4
<1> QED
  BY <1>1, <1>5, <1>6, <1>7 DEF KindsOK

LEMMA KindsPop ==
    ASSUME NEW g, NEW h, CallsOK(g), KindsOK(g), Popped(g, h), h.ini = g.ini
    PROVE  KindsOK(h)
<1>1. Len(g.stack) \in Nat /\ \A i \in 1..Len(h.stack) : i \in 1..Len(g.stack)
  BY DEF CallsOK, Popped
<1>2. \A i \in 1..Len(h.stack) : Alike(h.stack[i], g.stack[i])
  BY DEF Popped
<1> QED
  BY <1>1, <1>2, SMTT(40) DEF KindsOK, Alike

\* The innermost call.
LEMMA TopIs ==
    ASSUME HooksInv, Running
    PROVE  /\ base \in Nat /\ base < Len(xg.stack) /\ Len(xg.stack) \in 1..Len(xg.stack)
           /\ Top = xg.stack[Len(xg.stack)] /\ xg.stack # <<>>
           /\ ~Top.internal => ~CheckSoapCall(Top.fn)
<1>1. CallsOK(xg) /\ base \in Nat /\ base < Len(xg.stack) /\ Len(xg.stack) \in Nat
  BY DEF HooksInv, StateOK, CallsOK, Running
<1>2. Top = xg.stack[Len(xg.stack)] /\ xg.stack # <<>> /\ Len(xg.stack) \in 1..Len(xg.stack)
  BY <1>1 DEF Top, Last
<1>3. ~Top.internal => Top.fn \in xg.ini.users \cup {Main}
  BY <1>2 DEF HooksInv, KindsOK
<1>4. ~CheckSoapCall(Main) /\ \A fn \in xg.ini.users : ~CheckSoapCall(fn)
  BY <1>1, HooksAssumption DEF CallsOK
<1> QED
  BY <1>1, <1>2, <1>3, <1>4

\* While nothing has crashed any step that crashes nothing keeps the last two parts.
LEMMA InvOf ==
    ASSUME StateOK(xg', base'), KindsOK(xg'), ~xg'.crashed, phase' # "idle"
    PROVE  HooksInv'
BY DEF HooksInv, StateOK, KindsOK, Running, Top

\* Nothing runs on in a request that has crashed.
LEMMA MayCallNotCrashed ==
    ASSUME HooksInv, NEW internal \in BOOLEAN, MayCall(internal)
    PROVE  ~xg.crashed
BY DEF HooksInv, MayCall

LEMMA InitInv ==
    ASSUME Init
    PROVE  HooksInv
<1>1. PICK app \in Apps : xg = Globals(app)
  BY DEF Init
<1>2. StateOK(xg, 0) /\ xg.stack = <<>> /\ xg.trace_context = None /\ xg.crashed = FALSE
  BY <1>1, GlobalsOK
<1>3. KindsOK(xg)
  BY <1>2 DEF KindsOK
<1> QED
  BY <1>2, <1>3 DEF HooksInv, Init

LEMMA StartRequestInv ==
    ASSUME HooksInv, StartRequest
    PROVE  HooksInv'
<1>1. /\ StateOK(xg, 0) /\ xg.stack = <<>> /\ ~xg.crashed
      /\ soapHeader' \in BOOLEAN /\ xg' = RInit(xg, soapHeader') /\ base' = 0
      /\ phase' = "script"
  BY DEF HooksInv, StartRequest
<1>2. LET h == RInit(xg, soapHeader')
      IN  StateOK(h, 0) /\ h.stack = <<>> /\ h.ini = xg.ini /\ h.crashed = xg.crashed
  BY <1>1, RInitOK
<1>3. StateOK(xg', base') /\ xg'.stack = <<>> /\ ~xg'.crashed
  BY <1>1, <1>2
<1>4. KindsOK(xg')
  BY <1>3 DEF KindsOK
<1> QED
  BY <1>1, <1>3, <1>4, InvOf

\* A call of a user function, of the script or of what it has defined.
LEMMA EnterInv ==
    ASSUME HooksInv, ~xg.crashed, phase # "idle", UNCHANGED <<phase, base>>,
           NEW fn \in xg.ini.users \cup {Main}, fn = Main => xg.stack = <<>>,
           NEW opened \in BOOLEAN, xg' = EnterUser(xg, fn, opened)
    PROVE  HooksInv'
<1> DEFINE h == EnterUser(xg, fn, opened)
<1>1. StateOK(xg, base) /\ KindsOK(xg) /\ CallsOK(xg)
  BY DEF HooksInv, StateOK
<1>2. fn \in Names
  BY <1>1, FnNames
<1>3. /\ StateOK(h, base) /\ h.crashed = xg.crashed /\ Pushed(xg, h, fn, FALSE)
      /\ h.ini = xg.ini
  BY <1>1, <1>2, EnterUserOK
<1> HIDE DEF h
<1>4. KindsOK(h)
  BY <1>1, <1>3, KindsPush
<1>5. StateOK(xg', base') /\ KindsOK(xg') /\ ~xg'.crashed
  BY <1>3, <1>4 DEF h
<1> QED
  BY <1>5, InvOf

\* Before the first call of a request the stack is empty.
LEMMA NoCallsYet ==
    ASSUME NEW g, CallsOK(g), g.function_count < 0
    PROVE  g.stack = <<>>
<1> SUFFICES ASSUME g.stack # <<>>
             PROVE  FALSE
  OBVIOUS
<1>1. 1 \in 1..Len(g.stack)
  BY DEF CallsOK
<1>2. g.stack[1].nr \in 0..g.function_count
  BY <1>1 DEF CallsOK, Ordered
<1> QED
  BY <1>2 DEF CallsOK

LEMMA RunScriptInv ==
    ASSUME HooksInv, RunScript
    PROVE  HooksInv'
<1>1. PICK opened \in BOOLEAN : xg' = EnterUser(xg, Main, opened)
  BY DEF RunScript
<1>2. CallsOK(xg) /\ xg.function_count < 0
  BY DEF HooksInv, StateOK, RunScript
<1>3. xg.stack = <<>>
  BY <1>2, NoCallsYet
<1>4. ~xg.crashed /\ phase # "idle" /\ UNCHANGED <<phase, base>>
  BY DEF HooksInv, RunScript
<1>5. Main \in xg.ini.users \cup {Main}
  OBVIOUS
<1> QED
  BY <1>1, <1>3, <1>4, <1>5, EnterInv

LEMMA CallUserInv ==
    ASSUME HooksInv, CallUser
    PROVE  HooksInv'
<1>1. PICK fn \in xg.ini.users, opened \in BOOLEAN : xg' = EnterUser(xg, fn, opened)
  BY DEF CallUser
<1>2. MayCall(FALSE) \/ phase = "shutdown"
  BY DEF CallUser
<1>3. ~xg.crashed
  BY <1>2, MayCallNotCrashed DEF HooksInv
<1>4. phase # "idle"
  BY <1>2 DEF HooksInv, MayCall, Running
<1>5. xg.ini \in Apps
  BY DEF HooksInv, StateOK, CallsOK
<1>6. fn # Main
  BY <1>5, HooksAssumption
<1>7. UNCHANGED <<phase, base>>
  BY DEF CallUser
<1> QED
  BY <1>1, <1>3, <1>4, <1>6, <1>7, EnterInv

\* While a call is in progress the request is not over.
LEMMA RunningPhase ==
    ASSUME HooksInv, Running
    PROVE  phase # "idle"
BY DEF HooksInv, Running

LEMMA ReturnUserInv ==
    ASSUME HooksInv, ReturnUser
    PROVE  HooksInv'
<1>1. PICK returns \in BOOLEAN : xg' = LeaveUser(xg, returns)
  BY DEF ReturnUser
<1>2. Running /\ ~Top.internal /\ base' = base
      /\ (phase' = "shutdown" \/ phase' = phase)
  BY DEF ReturnUser
<1>3. phase # "idle" /\ ~xg.crashed
  BY <1>2, RunningPhase DEF HooksInv
<1>4. StateOK(xg, base) /\ KindsOK(xg) /\ CallsOK(xg)
  BY DEF HooksInv, StateOK
<1>5. /\ base < Len(xg.stack) /\ ~xg.stack[Len(xg.stack)].internal
      /\ ~CheckSoapCall(xg.stack[Len(xg.stack)].fn)
  BY <1>2, TopIs
<1> DEFINE h == LeaveUser(xg, returns)
<1>6. StateOK(h, base) /\ Popped(xg, h) /\ h.crashed = xg.crashed /\ h.ini = xg.ini
  BY <1>4, <1>5, LeaveUserOK
<1> HIDE DEF h
<1>7. KindsOK(h)
  BY <1>4, <1>6, KindsPop
<1>8. StateOK(xg', base') /\ KindsOK(xg') /\ ~xg'.crashed
  BY <1>1, <1>2, <1>3, <1>6, <1>7 DEF h
<1> QED
  BY <1>2, <1>3, <1>8, InvOf

\* An internal call begins.
LEMMA EnterInternalInv ==
    ASSUME HooksInv, MayCall(TRUE), NEW fn \in xg.ini.internals \cup {"trigger_error"}
    PROVE  LET e == EnterInternal(xg, fn)
           IN  /\ StateOK(e, base) /\ KindsOK(e) /\ ~e.crashed
               /\ base < Len(e.stack) /\ Len(e.stack) \in Nat /\ e.ini = xg.ini
               /\ e.stack[Len(e.stack)].fn = fn /\ e.stack[Len(e.stack)].internal = TRUE
<1> DEFINE e == EnterInternal(xg, fn)
<1> SUFFICES /\ StateOK(e, base) /\ KindsOK(e) /\ ~e.crashed
             /\ base < Len(e.stack) /\ Len(e.stack) \in Nat /\ e.ini = xg.ini
             /\ e.stack[Len(e.stack)].fn = fn /\ e.stack[Len(e.stack)].internal = TRUE
  OBVIOUS
<1>1. StateOK(xg, base) /\ KindsOK(xg) /\ CallsOK(xg) /\ base \in Nat /\ base <= Len(xg.stack)
  BY DEF HooksInv, StateOK
<1>2. ~xg.crashed
  BY MayCallNotCrashed
<1>3. fn \in Names
  BY <1>1, FnNames
<1>4. fn # Main
  BY <1>1, HooksAssumption DEF CallsOK
<1>5. /\ StateOK(e, base) /\ e.crashed = xg.crashed /\ e.ini = xg.ini
      /\ Pushed(xg, e, fn, TRUE)
  BY <1>1, <1>3, EnterInternalOK
<1> HIDE DEF e
<1>6. KindsOK(e)
  BY <1>1, <1>4, <1>5, KindsPush
<1>7. /\ base < Len(e.stack) /\ Len(e.stack) \in Nat
      /\ e.stack[Len(e.stack)].fn = fn /\ e.stack[Len(e.stack)].internal = TRUE
  BY <1>1, <1>5 DEF Pushed, CallsOK
<1> QED
  BY <1>2, <1>5, <1>6, <1>7

\* It ends.
LEMMA LeaveInternalInv ==
    ASSUME NEW g, StateOK(g, base), KindsOK(g), ~g.crashed, base < Len(g.stack),
           NEW returns, xg' = LeaveInternal(g, returns), base' = base, phase' # "idle"
    PROVE  HooksInv'
<1> DEFINE h == LeaveInternal(g, returns)
<1>1. StateOK(h, base) /\ Popped(g, h) /\ h.crashed = g.crashed /\ h.ini = g.ini
  BY LeaveInternalOK
<1> HIDE DEF h
<1>2. KindsOK(h)
  BY <1>1, KindsPop DEF StateOK
<1>3. StateOK(xg', base') /\ KindsOK(xg') /\ ~xg'.crashed
  BY <1>1, <1>2 DEF h
<1> QED
  BY <1>3, InvOf

LEMMA CallInternalInv ==
    ASSUME HooksInv, CallInternal
    PROVE  HooksInv'
<1>1. PICK fn \in xg.ini.internals \ Callers, returns \in BOOLEAN :
         \E g \in Outcomes(EnterInternal(xg, fn), fn) :
            xg' = IF g.crashed THEN g ELSE LeaveInternal(g, returns)
  BY DEF CallInternal
<1>2. PICK g \in Outcomes(EnterInternal(xg, fn), fn) :
         xg' = IF g.crashed THEN g ELSE LeaveInternal(g, returns)
  BY <1>1
<1>3. MayCall(TRUE) /\ phase' = (IF xg'.crashed THEN "dead" ELSE phase) /\ base' = base
  BY DEF CallInternal
<1>4. phase # "idle"
  BY <1>3, RunningPhase DEF MayCall
<1> DEFINE e == EnterInternal(xg, fn)
<1>5. /\ StateOK(e, base) /\ KindsOK(e) /\ ~e.crashed
      /\ base < Len(e.stack) /\ Len(e.stack) \in Nat
      /\ e.stack[Len(e.stack)].fn = fn /\ e.stack[Len(e.stack)].internal = TRUE
  BY <1>3, EnterInternalInv
<1>6. Did(e, g, base)
  BY <1>5, OutcomesDid
<1> HIDE DEF e
<1>7. /\ StateOK(g, base) /\ SameCalls(e.stack, g.stack) /\ g.ini = e.ini
      /\ g.crashed => g.do_trace /\ g.trace_context = None
  BY <1>5, <1>6 DEF Did
<1>8. KindsOK(g)
  BY <1>5, <1>7, KindsSame
<1>9. /\ Len(g.stack) = Len(e.stack)
      /\ g.stack[Len(g.stack)].fn = fn /\ g.stack[Len(g.stack)].internal = TRUE
  <2>1. Len(e.stack) \in 1..Len(e.stack)
    BY <1>5 DEF StateOK
  <2> QED
    BY <2>1, <1>5, <1>7 DEF SameCalls, Alike
<1>10. CASE g.crashed
  <2>1. xg' = g /\ phase' = "dead"
    BY <1>2, <1>3, <1>10
  <2>2. Last(xg'.stack) = g.stack[Len(g.stack)]
    BY <2>1 DEF Last
  <2>3. Len(xg'.stack) > base' /\ Last(xg'.stack).internal /\ Last(xg'.stack).fn \notin Callers
    BY <1>3, <1>5, <1>9, <2>1, <2>2
  <2> QED
    BY <1>3, <1>7, <1>8, <2>1, <2>3 DEF HooksInv, StateOK, KindsOK, Running, Top
<1>11. CASE ~g.crashed
  <2>1. xg' = LeaveInternal(g, returns)
    BY <1>2, <1>11
  <2>2. phase' # "idle"
    BY <1>3, <1>4
  <2> QED
    BY <1>3, <1>5, <1>7, <1>8, <1>9, <1>11, <2>1, <2>2, LeaveInternalInv
<1> QED
  BY <1>10, <1>11

LEMMA CallCallerInv ==
    ASSUME HooksInv, CallCaller
    PROVE  HooksInv'
<1>1. PICK fn \in xg.ini.internals \cap Callers : xg' = EnterInternal(xg, fn)
  BY DEF CallCaller
<1>2. MayCall(TRUE) /\ UNCHANGED <<phase, base>>
  BY DEF CallCaller
<1>3. phase # "idle"
  BY <1>2, RunningPhase DEF MayCall
<1> DEFINE e == EnterInternal(xg, fn)
<1>4. StateOK(e, base) /\ KindsOK(e) /\ ~e.crashed
  BY <1>2, EnterInternalInv
<1>5. StateOK(xg', base') /\ KindsOK(xg') /\ ~xg'.crashed
  BY <1>1, <1>2, <1>4
<1> QED
  BY <1>2, <1>3, <1>5, InvOf

LEMMA ReturnCallerInv ==
    ASSUME HooksInv, ReturnCaller
    PROVE  HooksInv'
<1> DEFINE g == Collected(xg)
<1>1. PICK returns \in BOOLEAN : xg' = IF g.crashed THEN g ELSE LeaveInternal(g, returns)
  BY DEF ReturnCaller
<1>2. Running /\ phase' = (IF xg'.crashed THEN "dead" ELSE phase) /\ base' = base
  BY DEF ReturnCaller
<1>3. phase # "idle"
  BY <1>2, RunningPhase
<1>4. StateOK(xg, base) /\ KindsOK(xg)
  BY DEF HooksInv
<1>5. /\ StateOK(g, base) /\ g.stack = xg.stack /\ g.ini = xg.ini /\ g.crashed = xg.crashed
      /\ g.do_trace = xg.do_trace /\ g.trace_context = xg.trace_context
  BY <1>4, CollectedOK
<1> HIDE DEF g
<1>6. KindsOK(g)
  BY <1>4, <1>5 DEF KindsOK
<1>7. base < Len(g.stack)
  BY <1>2, <1>5, TopIs
<1>8. CASE g.crashed
  <2>1. xg' = g /\ phase' = "dead"
    BY <1>1, <1>2, <1>8
  <2>2. /\ Running /\ Top.internal /\ Top.fn \notin Callers
        /\ xg.do_trace /\ xg.trace_context = None
    BY <1>5, <1>8 DEF HooksInv
  <2>3. Len(xg'.stack) > base' /\ Last(xg'.stack).internal /\ Last(xg'.stack).fn \notin Callers
    BY <1>2, <1>5, <2>1, <2>2 DEF Running, Top
  <2> QED
    BY <1>2, <1>5, <1>6, <2>1, <2>2, <2>3 DEF HooksInv, StateOK, KindsOK, Running, Top
<1>9. CASE ~g.crashed
  <2>1. xg' = LeaveInternal(g, returns)
    BY <1>1, <1>9
  <2>2. phase' # "idle"
    BY <1>2, <1>3
  <2> QED
    BY <1>2, <1>5, <1>6, <1>7, <1>9, <2>1, <2>2, LeaveInternalInv
<1> QED
  BY <1>8, <1>9

\* What drops the calls leaves the stack as it is.
LEMMA DropInv ==
    ASSUME NEW g, BegunOK(g, base), KindsOK(g), ~g.crashed, Drop(g), phase' # "idle"
    PROVE  HooksInv'
<1> DEFINE inner == {i \in base + 1..Len(g.stack) : g.stack[i].internal /\ PageFrame(g, i) # 0}
<1> DEFINE h == xg'
<1>1. CallsOK(g) /\ DOMAIN g = Fields /\ TracesOK(g) /\ NestOK(g) /\ base \in Nat
      /\ ErrorsOK(g, base) /\ PageNamed(g, base) /\ Len(g.stack) \in Nat
  BY DEF BegunOK, CallsOK
<1>2. /\ h = [g EXCEPT !.lost = @ \/ InSoapCall(g),
                       !.dropped = @ \cup {g.stack[PageFrame(g, i)].fn : i \in inner}]
      /\ base' = Len(g.stack)
  BY DEF Drop
<1>3. /\ Only(g, h, {"lost", "dropped"})
      /\ h.lost <=> g.lost \/ InSoapCall(g)
      /\ h.dropped = g.dropped \cup {g.stack[PageFrame(g, i)].fn : i \in inner}
  <2> DEFINE lost == g.lost \/ InSoapCall(g)
  <2> DEFINE dropped == g.dropped \cup {g.stack[PageFrame(g, i)].fn : i \in inner}
  <2>1. h = [g EXCEPT !.lost = lost, !.dropped = dropped]
    BY <1>2
  <2>2. Only(g, h, {"lost", "dropped"}) /\ h.dropped = dropped
    <3> HIDE DEF lost, dropped, h
    <3> QED
      BY <1>1, <2>1 DEF Only, Fields
  <2>3. h.lost = lost
    <3> HIDE DEF lost, dropped, h
    <3> QED
      BY <1>1, <2>1 DEF Fields
  <2> QED
    BY <2>2, <2>3
<1> HIDE DEF h
<1>4. /\ Only(g, h, Fields \ {"ini", "stack", "level", "function_count"})
      /\ Only(g, h, Fields \ TraceFields)
  BY <1>3, OnlyMore DEF Fields, TraceFields
<1>5. /\ h.clock = g.clock /\ h.do_trace = g.do_trace /\ h.ini = g.ini
      /\ h.profiler_enabled = g.profiler_enabled /\ h.gc_stats_enabled = g.gc_stats_enabled
      /\ h.crashed = g.crashed /\ h.page = g.page
      /\ h.error_cb = g.error_cb /\ h.chosen = g.chosen
  BY <1>3 DEF Only, Fields
<1>6. /\ h.clock \in Int /\ h.do_trace \in BOOLEAN /\ h.profiler_enabled \in BOOLEAN
      /\ h.gc_stats_enabled \in BOOLEAN /\ h.crashed \in BOOLEAN
      /\ h.error_cb \in {"xdebug", "engine"}
  BY <1>1, <1>5 DEF CallsOK
<1>7. Still(g, h) /\ h.stack = g.stack
  BY <1>1, <1>4, <1>6, StillOnly
<1>8. TracesOK(h) /\ NestOK(h)
  BY <1>1, <1>4, <1>7, TracesOnly DEF Still, TraceFields
<1>9. h.lost <=> g.lost \/ (\E i \in base + 1..Len(g.stack) : CheckSoapCall(g.stack[i].fn))
  BY <1>3 DEF InSoapCall
<1>10. ErrorsOK(h, Len(h.stack))
  BY <1>1, <1>5, <1>7, <1>9, ErrorsBailout
<1>11. PageOK(h, Len(h.stack))
  BY <1>1, <1>3, <1>5, <1>7, PageBailout
<1>12. KindsOK(h)
  BY <1>5, <1>7 DEF KindsOK
<1>13. StateOK(h, base')
  BY <1>1, <1>2, <1>7, <1>8, <1>10, <1>11 DEF StateOK, Still
<1>14. StateOK(xg', base') /\ KindsOK(xg') /\ ~xg'.crashed
  BY <1>5, <1>12, <1>13 DEF h
<1> QED
  BY <1>2, <1>14, InvOf

\* exit and the errors that end a request drop the calls in progress.
LEMMA BailoutInv ==
    ASSUME NEW g, StateOK(g, base), KindsOK(g), ~g.crashed, Bailout(g)
    PROVE  HooksInv'
<1>1. BegunOK(g, base)
  BY DEF StateOK, BegunOK, PageOK, PageNamed
<1>2. Drop(g) /\ phase' # "idle"
  BY DEF Bailout
<1> QED
  BY <1>1, <1>2, DropInv

\* So does the end of the process in an internal call that begins.
LEMMA LineOverrunsInv ==
    ASSUME HooksInv, LineOverruns
    PROVE  HooksInv'
<1>1. MayCall(TRUE) /\ phase' # "idle"
  BY DEF LineOverruns
<1>2. PICK fn \in Internals(xg.ini) : Drop(BeginInternal(xg, fn))
  BY DEF LineOverruns
<1>3. StateOK(xg, base) /\ KindsOK(xg) /\ CallsOK(xg) /\ ~xg.crashed
  BY <1>1, MayCallNotCrashed DEF HooksInv, StateOK
<1>4. fn \in xg.ini.internals \cup {"trigger_error"}
  BY DEF Internals
<1>5. fn \in Names /\ fn # Main
  BY <1>3, <1>4, FnNames, HooksAssumption DEF CallsOK
<1> DEFINE g == BeginInternal(xg, fn)
<1>6. BegunOK(g, base) /\ g.crashed = xg.crashed /\ g.ini = xg.ini /\ Pushed(xg, g, fn, TRUE)
  BY <1>3, <1>5, BeginInternalOK
<1>7. Drop(g)
  BY <1>2
<1> HIDE DEF g
<1>8. KindsOK(g)
  BY <1>3, <1>4, <1>5, <1>6, KindsPush
<1> QED
  BY <1>1, <1>3, <1>6, <1>7, <1>8, DropInv

LEMMA ExitInv ==
    ASSUME HooksInv, Exit
    PROVE  HooksInv'
<1> DEFINE t == Tick(xg)
<1> DEFINE g == ExitHandler(t)
<1>1. Running /\ ~Top.internal /\ Bailout(g)
  BY DEF Exit
<1>2. StateOK(xg, base) /\ KindsOK(xg) /\ CallsOK(xg) /\ ~xg.crashed
  BY <1>1 DEF HooksInv, StateOK
<1>3. Still(xg, t) /\ Only(xg, t, {"clock"})
  BY <1>2, TickStill
<1> HIDE DEF t
<1>4. Only(xg, t, Fields \ (NotifyFields \cup TraceFields))
  BY <1>3, OnlyMore DEF Fields, NotifyFields, TraceFields
<1>5. StateOK(t, base)
  BY <1>2, <1>3, <1>4, StateStill
<1>6. t.ini = xg.ini /\ t.crashed = xg.crashed
  BY <1>3 DEF Only, Fields
<1>7. KindsOK(t)
  BY <1>2, <1>3, <1>6, KindsSame DEF Still
<1>8. StateOK(g, base) /\ KindsOK(g) /\ ~g.crashed
  <2>1. CASE t.profiler_enabled
    <3>1. g = ProfilerDeinit(t)
      BY <2>1 DEF ExitHandler
    <3>2. Did(t, g, base) /\ g.crashed = t.crashed
      BY <3>1, <1>5, ProfilerDeinitDid
    <3> HIDE DEF g
    <3> QED
      BY <3>2, <1>2, <1>6, <1>7, KindsSame DEF Did
  <2>2. CASE ~t.profiler_enabled
    <3>1. g = t
      BY <2>2 DEF ExitHandler
    <3> QED
      BY <3>1, <1>2, <1>5, <1>6, <1>7
  <2> QED
    BY <2>1, <2>2
<1> QED
  BY <1>1, <1>8, BailoutInv

LEMMA RaiseErrorInv ==
    ASSUME HooksInv, RaiseError
    PROVE  HooksInv'
<1> DEFINE e == EnterInternal(xg, "trigger_error")
<1>1. PICK type \in xg.ini.errors :
         LET g == ErrorCb(e, type)
         IN  IF Bails(g, type) THEN Bailout(g)
             ELSE /\ xg' = LeaveInternal(g, TRUE)
                  /\ UNCHANGED <<phase, request, soapHeader, base>>
  BY DEF RaiseError
<1>2. MayCall(TRUE)
  BY DEF RaiseError
<1>3. /\ StateOK(e, base) /\ KindsOK(e) /\ ~e.crashed
      /\ base < Len(e.stack) /\ Len(e.stack) \in Nat
  BY <1>2, EnterInternalInv
<1> HIDE DEF e
<1> DEFINE g == ErrorCb(e, type)
<1>4. StateOK(g, base) /\ g.stack = e.stack /\ g.ini = e.ini /\ g.crashed = e.crashed
  BY <1>3, ErrorCbOK
<1>5. \/ Bailout(g)
      \/ xg' = LeaveInternal(g, TRUE) /\ UNCHANGED <<phase, base>>
  BY <1>1
<1> HIDE DEF g
<1>6. KindsOK(g)
  BY <1>3, <1>4 DEF KindsOK
<1>7. CASE Bailout(g)
  BY <1>3, <1>4, <1>6, <1>7, BailoutInv
<1>8. CASE xg' = LeaveInternal(g, TRUE) /\ UNCHANGED <<phase, base>>
  <2>1. phase' # "idle"
    BY <1>2, <1>8, RunningPhase DEF MayCall
  <2> QED
    BY <1>3, <1>4, <1>6, <1>8, <2>1, LeaveInternalInv
<1> QED
  BY <1>5, <1>7, <1>8

LEMMA EndRequestInv ==
    ASSUME HooksInv, EndRequest
    PROVE  HooksInv'
<1>1. /\ phase = "shutdown" /\ ~Running /\ xg' = PostDeactivate(xg)
      /\ phase' = "idle" /\ base' = 0
  BY DEF EndRequest
<1>2. StateOK(xg, base) /\ ~xg.crashed
  BY <1>1 DEF HooksInv
<1>3. base = Len(xg.stack)
  BY <1>1, <1>2 DEF Running, StateOK, CallsOK
<1> DEFINE h == PostDeactivate(xg)
<1>4. /\ StateOK(h, 0) /\ h.stack = <<>> /\ h.ini = xg.ini /\ h.crashed = xg.crashed
      /\ h.trace_context = None
  BY <1>2, <1>3, PostDeactivateOK
<1> HIDE DEF h
<1>5. KindsOK(h)
  BY <1>4 DEF KindsOK
<1> QED
  BY <1>1, <1>2, <1>4, <1>5 DEF h, HooksInv, StateOK, KindsOK, Running, Top

LEMMA StutterInv ==
    ASSUME HooksInv, UNCHANGED vars
    PROVE  HooksInv'
BY DEF HooksInv, StateOK, CallsOK, TracesOK, NestOK, ErrorsOK, PageOK, KindsOK, Running, Top, vars

LEMMA NextInv ==
    ASSUME HooksInv, [Next]_vars
    PROVE  HooksInv'
<1>1. CASE StartRequest
  BY <1>1, StartRequestInv
<1>2. CASE RunScript
  BY <1>2, RunScriptInv
<1>3. CASE CallUser
  BY <1>3, CallUserInv
<1>4. CASE ReturnUser
  BY <1>4, ReturnUserInv
<1>5. CASE CallInternal
  BY <1>5, CallInternalInv
<1>6. CASE CallCaller
  BY <1>6, CallCallerInv
<1>7. CASE ReturnCaller
  BY <1>7, ReturnCallerInv
<1>8. CASE Exit
  BY <1>8, ExitInv
<1>9. CASE RaiseError
  BY <1>9, RaiseErrorInv
<1>10. CASE EndRequest
  BY <1>10, EndRequestInv
<1>11. CASE LineOverruns
  BY <1>11, LineOverrunsInv
<1>12. CASE UNCHANGED vars
  BY <1>12, StutterInv
<1> QED
  BY <1>1, <1>2, <1>3, <1>4, <1>5, <1>6, <1>7, <1>8, <1>9, <1>10, <1>11, <1>12 DEF Next

\* The invariant of the hooks: the stack, the traces and the calls they follow,
\* the error callback and the page, between any two steps of a worker.
THEOREM HooksInvariant == Spec => []HooksInv
<1>1. Init => HooksInv
  BY InitInv
<1>2. HooksInv /\ [Next]_vars => HooksInv'
  BY NextInv
<1> QED
  BY <1>1, <1>2, PTL DEF Spec

\* The calls that a computerized trace tells of nest, in every request of every
\* application: execute_ex and execute_internal write entries and exits around
\* the calls they make, whatever xdebug_start_trace, xdebug_stop_trace,
\* xdebug_set_filter, exit and errors do in between.
THEOREM TracesNest == Spec => []TraceNested
<1>1. HooksInv => TraceNested
  BY DEF HooksInv, StateOK, NestOK, TracesOK, TraceNested
<1> QED
  BY <1>1, HooksInvariant, PTL

\* No request leaves a trace without its footer, but one that an automatic start
\* has replaced (xdebug_start_trace, ZEND_MODULE_POST_ZEND_DEACTIVATE).
THEOREM NoTraceLeftOpen == Spec => []TracesClosed
<1>1. HooksInv => TracesClosed
  BY DEF HooksInv, StateOK, TracesOK, TracesClosed, None
<1> QED
  BY <1>1, HooksInvariant, PTL

\* xdebug_stop_trace and xdebug_get_tracefile_name use a context that is not
\* there only after the automatic restart of a trace has failed.
THEOREM OnlyRestartCrashes == Spec => []CrashOnlyAfterRestart
<1>1. HooksInv => CrashOnlyAfterRestart
  BY DEF HooksInv, StateOK, TracesOK, CrashOnlyAfterRestart
<1> QED
  BY <1>1, HooksInvariant, PTL

\* However SOAP calls nest, and whatever their handlers call, the error callback
\* that the request has chosen is back when the outermost returns.
THEOREM ErrorHandlerRestored == Spec => []HandlerRestored
<1>1. HooksInv => HandlerRestored
  BY DEF HooksInv, StateOK, ErrorsOK, HandlerRestored, InSoapCall
<1> QED
  BY <1>1, HooksInvariant, PTL

-----------------------------------------------------------------------------
(* The lines of internal calls *)

\* Each internal call in progress has a line that fits.
OwnFit(g) ==
    \A i \in 1..Len(g.stack) : g.stack[i].internal => g.stack[i].fn \notin Wide

\* That is so until a line overruns its buffer.
FitInv == overrun \/ OwnFit(xg)

LEMMA FitSame ==
    ASSUME NEW g, NEW h, OwnFit(g), SameCalls(g.stack, h.stack)
    PROVE  OwnFit(h)
BY SMTT(40) DEF OwnFit, SameCalls, Alike

LEMMA FitPop ==
    ASSUME NEW g, NEW h, CallsOK(g), OwnFit(g), Popped(g, h)
    PROVE  OwnFit(h)
<1>1. Len(g.stack) \in Nat /\ \A i \in 1..Len(h.stack) : i \in 1..Len(g.stack)
  BY DEF CallsOK, Popped
<1>2. \A i \in 1..Len(h.stack) : Alike(h.stack[i], g.stack[i])
  BY DEF Popped
<1> QED
  BY <1>1, <1>2, SMTT(40) DEF OwnFit, Alike

LEMMA FitPush ==
    ASSUME NEW g, NEW h, NEW fn, NEW internal, CallsOK(g), OwnFit(g),
           Pushed(g, h, fn, internal), internal => fn \notin Wide
    PROVE  OwnFit(h)
<1> DEFINE n == Len(g.stack)
<1>1. n \in Nat /\ Len(h.stack) = n + 1
  BY DEF CallsOK, Pushed
<1>2. \A i \in 1..n : Alike(h.stack[i], g.stack[i])
  BY DEF Pushed
<1>3. h.stack[n + 1].fn = fn /\ h.stack[n + 1].internal = internal
  BY DEF Pushed
<1>4. \A i \in 1..n : h.stack[i].internal => h.stack[i].fn \notin Wide
  BY <1>2 DEF OwnFit, Alike
<1> HIDE DEF n
<1>5. \A i \in 1..n + 1 : i \in 1..n \/ i = n + 1
  BY <1>1
<1> QED
  BY <1>1, <1>3, <1>4, <1>5 DEF OwnFit

\* An internal call whose line fits begins.
LEMMA EnterFit ==
    ASSUME HooksInv, OwnFit(xg), MayCall(TRUE),
           NEW fn \in xg.ini.internals \cup {"trigger_error"}, fn \notin Wide
    PROVE  LET e == EnterInternal(xg, fn)
           IN  OwnFit(e) /\ StateOK(e, base) /\ e.stack # <<>>
<1> DEFINE e == EnterInternal(xg, fn)
<1>1. StateOK(xg, base) /\ CallsOK(xg) /\ fn \in Names
  BY FnNames DEF HooksInv, StateOK
<1>2. Pushed(xg, e, fn, TRUE) /\ StateOK(e, base)
  BY <1>1, EnterInternalOK
<1> HIDE DEF e
<1>3. OwnFit(e)
  BY <1>1, <1>2, FitPush
<1>4. e.stack # <<>>
  BY <1>1, <1>2 DEF Pushed, CallsOK
<1> QED
  BY <1>2, <1>3, <1>4 DEF e

\* Steps in which a call of a user function begins or ends.
LEMMA UserFit ==
    ASSUME HooksInv, OwnFit(xg), RunScript \/ CallUser \/ ReturnUser
    PROVE  OwnFit(xg')
<1>1. StateOK(xg, base) /\ CallsOK(xg)
  BY DEF HooksInv, StateOK
<1>2. CASE RunScript \/ CallUser
  <2>1. PICK fn \in xg.ini.users \cup {Main}, opened \in BOOLEAN :
           xg' = EnterUser(xg, fn, opened)
    BY <1>2 DEF RunScript, CallUser
  <2>2. fn \in Names
    BY <1>1, FnNames
  <2> DEFINE h == EnterUser(xg, fn, opened)
  <2>3. Pushed(xg, h, fn, FALSE)
    BY <1>1, <2>2, EnterUserOK
  <2>4. xg' = h
    BY <2>1
  <2> HIDE DEF h
  <2>5. OwnFit(h)
    BY <1>1, <2>3, FitPush
  <2> QED
    BY <2>4, <2>5
<1>3. CASE ReturnUser
  <2>1. PICK returns \in BOOLEAN : xg' = LeaveUser(xg, returns)
    BY <1>3 DEF ReturnUser
  <2>2. Running /\ ~Top.internal
    BY <1>3 DEF ReturnUser
  <2>3. /\ base < Len(xg.stack) /\ ~xg.stack[Len(xg.stack)].internal
        /\ ~CheckSoapCall(xg.stack[Len(xg.stack)].fn)
    BY <2>2, TopIs
  <2> DEFINE h == LeaveUser(xg, returns)
  <2>4. Popped(xg, h)
    BY <1>1, <2>3, LeaveUserOK
  <2>5. xg' = h
    BY <2>1
  <2> HIDE DEF h
  <2>6. OwnFit(h)
    BY <1>1, <2>4, FitPop
  <2> QED
    BY <2>5, <2>6
<1> QED
  BY <1>2, <1>3

LEMMA LeaveFit ==
    ASSUME NEW g, StateOK(g, base), OwnFit(g), base < Len(g.stack), NEW returns
    PROVE  OwnFit(LeaveInternal(g, returns))
<1> DEFINE h == LeaveInternal(g, returns)
<1>1. Popped(g, h) /\ CallsOK(g)
  BY LeaveInternalOK DEF StateOK
<1> HIDE DEF h
<1>2. OwnFit(h)
  BY <1>1, FitPop
<1> QED
  BY <1>2 DEF h

LEMMA CallInternalFit ==
    ASSUME HooksInv, OwnFit(xg), CallInternal, ~overrun'
    PROVE  OwnFit(xg')
<1>1. PICK fn \in xg.ini.internals \ Callers, returns \in BOOLEAN :
         /\ WriteLine(fn)
         /\ \E g \in Outcomes(EnterInternal(xg, fn), fn) :
               xg' = IF g.crashed THEN g ELSE LeaveInternal(g, returns)
  BY DEF CallInternal
<1>2. PICK g \in Outcomes(EnterInternal(xg, fn), fn) :
         xg' = IF g.crashed THEN g ELSE LeaveInternal(g, returns)
  BY <1>1
<1>3. MayCall(TRUE) /\ fn \notin Wide
  BY <1>1 DEF CallInternal, WriteLine
<1> DEFINE e == EnterInternal(xg, fn)
<1>4. OwnFit(e) /\ StateOK(e, base)
  BY <1>3, EnterFit
<1>5. base < Len(e.stack)
  BY <1>3, EnterInternalInv
<1>6. Did(e, g, base)
  BY <1>4, OutcomesDid
<1> HIDE DEF e
<1>7. StateOK(g, base) /\ SameCalls(e.stack, g.stack)
  BY <1>6 DEF Did
<1>8. OwnFit(g) /\ base < Len(g.stack)
  BY <1>4, <1>5, <1>7, FitSame DEF SameCalls
<1>9. OwnFit(LeaveInternal(g, returns))
  BY <1>7, <1>8, LeaveFit
<1> QED
  BY <1>2, <1>8, <1>9

LEMMA ReturnCallerFit ==
    ASSUME HooksInv, OwnFit(xg), ReturnCaller
    PROVE  OwnFit(xg')
<1> DEFINE g == Collected(xg)
<1>1. PICK returns \in BOOLEAN : xg' = IF g.crashed THEN g ELSE LeaveInternal(g, returns)
  BY DEF ReturnCaller
<1>2. StateOK(xg, base) /\ base < Len(xg.stack)
  BY TopIs DEF HooksInv, ReturnCaller
<1>3. StateOK(g, base) /\ g.stack = xg.stack
  BY <1>2, CollectedOK
<1> HIDE DEF g
<1>4. OwnFit(g) /\ base < Len(g.stack)
  BY <1>2, <1>3 DEF OwnFit
<1>5. OwnFit(LeaveInternal(g, returns))
  BY <1>3, <1>4, LeaveFit
<1> QED
  BY <1>1, <1>4, <1>5

LEMMA DropFit ==
    ASSUME NEW g, CallsOK(g), OwnFit(g), Drop(g)
    PROVE  OwnFit(xg')
<1> DEFINE inner == {i \in base + 1..Len(g.stack) : g.stack[i].internal /\ PageFrame(g, i) # 0}
           lost == g.lost \/ InSoapCall(g)
           dropped == g.dropped \cup {g.stack[PageFrame(g, i)].fn : i \in inner}
<1>1. xg' = [g EXCEPT !.lost = lost, !.dropped = dropped]
  BY DEF Drop
<1>2. DOMAIN g = Fields
  BY DEF CallsOK
<1> HIDE DEF lost, dropped
<1>3. xg'.stack = g.stack
  BY <1>1, <1>2 DEF Fields
<1> QED
  BY <1>3 DEF OwnFit

LEMMA RaiseErrorFit ==
    ASSUME HooksInv, OwnFit(xg), RaiseError, ~overrun'
    PROVE  OwnFit(xg')
<1> DEFINE e == EnterInternal(xg, "trigger_error")
<1>1. PICK type \in xg.ini.errors :
         LET g == ErrorCb(e, type)
         IN  IF Bails(g, type) THEN Bailout(g)
             ELSE /\ xg' = LeaveInternal(g, TRUE)
                  /\ UNCHANGED <<phase, request, soapHeader, base>>
  BY DEF RaiseError
<1>2. MayCall(TRUE) /\ "trigger_error" \notin Wide
  BY DEF RaiseError, WriteLine
<1>3. OwnFit(e) /\ StateOK(e, base) /\ base < Len(e.stack)
  BY <1>2, EnterFit, EnterInternalInv
<1> HIDE DEF e
<1> DEFINE g == ErrorCb(e, type)
<1>4. StateOK(g, base) /\ g.stack = e.stack
  BY <1>3, ErrorCbOK
<1>5. Bailout(g) \/ xg' = LeaveInternal(g, TRUE)
  BY <1>1
<1> HIDE DEF g
<1>6. OwnFit(g) /\ base < Len(g.stack) /\ CallsOK(g)
  BY <1>3, <1>4 DEF OwnFit, StateOK
<1> QED
  BY <1>4, <1>5, <1>6, DropFit, LeaveFit DEF Bailout

LEMMA ExitFit ==
    ASSUME HooksInv, OwnFit(xg), Exit
    PROVE  OwnFit(xg')
<1> DEFINE t == Tick(xg)
           g == ExitHandler(t)
<1>1. Bailout(g)
  BY DEF Exit
<1>2. CallsOK(xg)
  BY DEF HooksInv, StateOK
<1>3. Still(xg, t)
  BY <1>2, TickStill
<1> HIDE DEF t
<1>4. CallsOK(t) /\ OwnFit(t)
  BY <1>3, FitSame DEF Still
<1>5. CallsOK(g) /\ OwnFit(g)
  <2>1. CASE t.profiler_enabled
    <3>1. g = ProfilerDeinit(t)
      BY <2>1 DEF ExitHandler
    <3> HIDE DEF g
    <3>2. Still(t, g)
      BY <3>1, <1>4, ProfilerDeinitStill
    <3> QED
      BY <3>2, <1>4, FitSame DEF Still
  <2>2. CASE ~t.profiler_enabled
    <3>1. g = t
      BY <2>2 DEF ExitHandler
    <3> HIDE DEF g
    <3> QED
      BY <3>1, <1>4
  <2> QED
    BY <2>1, <2>2
<1> QED
  BY <1>1, <1>5, DropFit DEF Bailout

\* Between two requests there are no calls.
LEMMA NoStackFit ==
    ASSUME HooksInv, StartRequest \/ EndRequest
    PROVE  OwnFit(xg')
<1>1. CASE StartRequest
  <2>1. /\ StateOK(xg, 0) /\ xg.stack = <<>>
        /\ soapHeader' \in BOOLEAN /\ xg' = RInit(xg, soapHeader')
    BY <1>1 DEF HooksInv, StartRequest
  <2> DEFINE h == RInit(xg, soapHeader')
  <2>2. h.stack = <<>>
    BY <2>1, RInitOK
  <2>3. xg' = h
    BY <2>1
  <2> HIDE DEF h
  <2> QED
    BY <2>2, <2>3 DEF OwnFit
<1>2. CASE EndRequest
  <2>1. StateOK(xg, base) /\ base = Len(xg.stack) /\ xg' = PostDeactivate(xg)
    BY <1>2 DEF EndRequest, HooksInv, Running, StateOK, CallsOK
  <2> DEFINE h == PostDeactivate(xg)
  <2>2. h.stack = <<>>
    BY <2>1, PostDeactivateOK
  <2>3. xg' = h
    BY <2>1
  <2> HIDE DEF h
  <2> QED
    BY <2>2, <2>3 DEF OwnFit
<1> QED
  BY <1>1, <1>2

LEMMA NextFit ==
    ASSUME HooksInv, FitInv, [Next]_vars
    PROVE  FitInv'
<1> SUFFICES ASSUME ~overrun'
             PROVE  OwnFit(xg')
  BY DEF FitInv, OwnFit
<1>1. ~overrun
  BY DEF Next, vars, StartRequest, RunScript, CallUser, ReturnUser, CallInternal, CallCaller,
         ReturnCaller, Exit, RaiseError, LineOverruns, EndRequest, WriteLine
<1>2. OwnFit(xg)
  BY <1>1 DEF FitInv
<1>3. CASE StartRequest \/ EndRequest
  BY <1>3, NoStackFit
<1>4. CASE RunScript \/ CallUser \/ ReturnUser
  BY <1>2, <1>4, UserFit
<1>5. CASE CallInternal
  BY <1>2, <1>5, CallInternalFit
<1>6. CASE CallCaller
  <2>1. PICK fn \in xg.ini.internals \cap Callers : WriteLine(fn) /\ xg' = EnterInternal(xg, fn)
    BY <1>6 DEF CallCaller
  <2>2. MayCall(TRUE) /\ fn \notin Wide
    BY <1>6, <2>1 DEF CallCaller, WriteLine
  <2> QED
    BY <1>2, <2>1, <2>2, EnterFit
<1>7. CASE ReturnCaller
  BY <1>2, <1>7, ReturnCallerFit
<1>8. CASE Exit
  BY <1>2, <1>8, ExitFit
<1>9. CASE RaiseError
  BY <1>2, <1>9, RaiseErrorFit
<1>10. CASE LineOverruns
  BY <1>10 DEF LineOverruns, WriteLine
<1>11. CASE UNCHANGED vars
  BY <1>2, <1>11 DEF vars, OwnFit
<1> QED
  BY <1>3, <1>4, <1>5, <1>6, <1>7, <1>8, <1>9, <1>10, <1>11 DEF Next

\* What is named for an internal call whose line fits is the call itself.
LEMMA NamedItself ==
    ASSUME NEW g, OwnFit(g), NEW b \in Nat, NEW i, Internal(g, b, i), Len(g.stack) \in Nat
    PROVE  PageFrame(g, i) = i /\ i # 0
<1>1. i \in 1..Len(g.stack) /\ i \in Nat /\ i # 0 /\ i \in 1..i
  BY DEF Internal
<1>2. i \in Fits(g, i) /\ Fits(g, i) \subseteq 1..i
  BY <1>1 DEF Fits, OwnFit, Internal
<1>3. PageFrame(g, i) = CHOOSE j \in Fits(g, i) : \A k \in Fits(g, i) : k <= j
  BY <1>2, Zenon DEF PageFrame, Fits
<1>4. \A k \in Fits(g, i) : k <= i
  BY <1>2
<1>5. \A j \in Fits(g, i) : (\A k \in Fits(g, i) : k <= j) => j = i
  BY <1>1, <1>2
<1>6. (CHOOSE j \in Fits(g, i) : \A k \in Fits(g, i) : k <= j) = i
  BY <1>2, <1>4, <1>5
<1> QED
  BY <1>1, <1>3, <1>6

\* Until a line overruns its buffer the tracer of system calls never reads from
\* the shared page a function that is not in progress, unless a bailout dropped it,
\* and finds the innermost one (update_shared_callstack, xdebug_execute_internal).
THEOREM PageNamesInnermost == Spec => []PageNamesCall
<1>1. HooksInv /\ FitInv => PageNamesCall
  <2> SUFFICES ASSUME HooksInv, FitInv, ~overrun
               PROVE  PageNamesCall
    BY DEF PageNamesCall
  <2> DEFINE internals == {i \in base + 1..Len(xg.stack) : xg.stack[i].internal}
  <2>1. \A i : Internal(xg, base, i) <=> i \in internals
    BY DEF Internal
  <2>2. PageOK(xg, base) /\ OwnFit(xg) /\ base \in Nat /\ Len(xg.stack) \in Nat
    BY DEF HooksInv, StateOK, CallsOK, FitInv
  <2>3. \A i \in internals : PageFrame(xg, i) = i /\ i # 0
    BY <2>1, <2>2, NamedItself
  <2> HIDE DEF internals
  <2>4. /\ \/ xg.page \in {NoPage} \cup xg.dropped
           \/ \E i \in internals : xg.page = xg.stack[i].fn
        /\ \A i \in internals :
              (\A j \in internals : j <= i) =>
                  \/ xg.page = xg.stack[i].fn
                  \/ xg.stack[i].nested /\ xg.page = NoPage
    BY <2>1, <2>2, <2>3 DEF PageOK, Named
  <2> QED
    BY <2>4 DEF PageNamesCall, internals
<1>2. Init => FitInv
  <2> SUFFICES ASSUME Init
               PROVE  FitInv
    OBVIOUS
  <2>1. PICK app \in Apps : xg = Globals(app)
    BY DEF Init
  <2>2. xg.stack = <<>>
    BY <2>1, GlobalsOK
  <2> QED
    BY <2>2 DEF FitInv, OwnFit
<1>3. HooksInv /\ FitInv /\ [Next]_vars => FitInv'
  BY NextFit
<1> QED
  BY <1>1, <1>2, <1>3, HooksInvariant, PTL DEF Spec

-----------------------------------------------------------------------------
(***************************************************************************)
(* The profile.  While the script runs under a profile, the own costs of   *)
(* the calls that have ended sum to what the calls in progress have been   *)
(* told that the calls in their lists took.                                *)
(***************************************************************************)
CostLine == [nr : Int, own : Int]

Profile == [lines : Seq(CostLine), summary : Int]

\* s[i] is the sum of the first i costs in lines.
Sums(s, lines, k) == s = [i \in 0..k |-> IF i = 0 THEN 0 ELSE s[i - 1] + lines[i].own]

LEMMA SumsExist ==
    ASSUME NEW lines, NEW k \in Nat
    PROVE  \E s : Sums(s, lines, k)
<1> DEFINE T == {m \in Nat : ~\E s : Sums(s, lines, m)}
<1> SUFFICES ASSUME k \in T
             PROVE  FALSE
  OBVIOUS
<1>1. PICK m \in T : \A y \in T : m <= y
  <2> HIDE DEF T
  <2>1. T \subseteq Nat
    BY DEF T
  <2> QED
    BY <2>1, LeastNumber
<1>2. m \in Nat /\ ~\E s : Sums(s, lines, m)
  OBVIOUS
<1>3. m # 0
  <2> DEFINE f == [i \in 0..0 |-> 0]
  <2>1. Sums(f, lines, 0)
    BY DEF Sums
  <2> QED
    BY <2>1, <1>2
<1>4. m - 1 \in Nat /\ m - 1 \notin T
  BY <1>1, <1>2, <1>3
<1>5. PICK f : Sums(f, lines, m - 1)
  BY <1>4
<1> DEFINE e == [i \in 0..m |-> IF i = m THEN f[m - 1] + lines[m].own ELSE f[i]]
<1>6. e[m] = e[m - 1] + lines[m].own
  BY <1>4, <1>2
<1>7. \A i \in 0..m - 1 : e[i] = IF i = 0 THEN 0 ELSE e[i - 1] + lines[i].own
  <2> TAKE i \in 0..m - 1
  <2>1. e[i] = f[i] /\ (i # 0 => e[i - 1] = f[i - 1])
    BY <1>2
  <2>2. f[i] = IF i = 0 THEN 0 ELSE f[i - 1] + lines[i].own
    BY <1>5 DEF Sums
  <2> QED
    BY <2>1, <2>2
<1>8. \A i \in 0..m : i = m \/ i \in 0..m - 1
  BY <1>2
<1>9. DOMAIN e = 0..m /\ e = [i \in 0..m |-> e[i]]
  OBVIOUS
<1> HIDE DEF e
<1>10. \A i \in 0..m : e[i] = IF i = 0 THEN 0 ELSE e[i - 1] + lines[i].own
  BY <1>3, <1>6, <1>7, <1>8
<1>11. Sums(e, lines, m)
  BY <1>9, <1>10 DEF Sums
<1> QED
  BY <1>2, <1>11

LEMMA SpentIs ==
    ASSUME NEW lines \in Seq(CostLine)
    PROVE  \E s : /\ s[0] = 0 /\ Spent(lines) = s[Len(lines)]
                  /\ \A i \in 1..Len(lines) : s[i] = s[i - 1] + lines[i].own
                  /\ \A i \in 0..Len(lines) : s[i] \in Int
<1> DEFINE s == CHOOSE s : Sums(s, lines, Len(lines))
<1>1. Len(lines) \in Nat
  OBVIOUS
<1>2. Sums(s, lines, Len(lines))
  BY <1>1, SumsExist
<1>3. Spent(lines) = s[Len(lines)]
  BY DEF Spent, Sums
<1> HIDE DEF s
<1>4. \A i \in 0..Len(lines) : s[i] = IF i = 0 THEN 0 ELSE s[i - 1] + lines[i].own
  BY <1>2 DEF Sums
<1>5. s[0] = 0 /\ \A i \in 1..Len(lines) : s[i] = s[i - 1] + lines[i].own
  BY <1>1, <1>4
<1>6. \A i \in 0..Len(lines) : s[i] \in Int
  <2> DEFINE S == {i \in 0..Len(lines) : s[i] \in Int}
  <2>1. 0 \in S
    BY <1>1, <1>5
  <2>2. \A i \in 1..Len(lines) : i - 1 \in S => i \in S
    <3> TAKE i \in 1..Len(lines)
    <3> HAVE i - 1 \in S
    <3>1. lines[i] \in CostLine
      OBVIOUS
    <3>2. lines[i].own \in Int /\ s[i - 1] \in Int /\ i \in 0..Len(lines)
      BY <3>1, <1>1, SMTT(40) DEF CostLine
    <3> QED
      BY <3>2, <1>5
  <2>3. \A i \in 0..Len(lines) : i \in S
    <3> HIDE DEF S
    <3> QED
      BY <2>1, <2>2, <1>1, UpTo
  <2> QED
    BY <2>3
<1> QED
  BY <1>3, <1>5, <1>6

\* One more line adds its cost.
LEMMA SpentAppend ==
    ASSUME NEW lines \in Seq(CostLine), NEW line \in CostLine
    PROVE  /\ Spent(Append(lines, line)) = Spent(lines) + line.own
           /\ Spent(lines) \in Int
<1> DEFINE n == Len(lines)
<1> DEFINE more == Append(lines, line)
<1>1. /\ n \in Nat /\ more \in Seq(CostLine) /\ Len(more) = n + 1
      /\ \A i \in 1..n : more[i] = lines[i]
      /\ more[n + 1] = line
  OBVIOUS
<1>2. PICK t : /\ t[0] = 0 /\ Spent(lines) = t[n]
               /\ \A i \in 1..n : t[i] = t[i - 1] + lines[i].own
               /\ \A i \in 0..n : t[i] \in Int
  BY SpentIs
<1> HIDE DEF more
<1>3. PICK s : /\ s[0] = 0 /\ Spent(more) = s[n + 1]
               /\ \A i \in 1..n + 1 : s[i] = s[i - 1] + more[i].own
  BY <1>1, SpentIs
<1>4. \A i \in 0..n : i \in {j \in 0..n : s[j] = t[j]}
  <2> DEFINE S == {j \in 0..n : s[j] = t[j]}
  <2>1. 0 \in S
    BY <1>1, <1>2, <1>3
  <2>2. \A i \in 1..n : i - 1 \in S => i \in S
    <3> TAKE i \in 1..n
    <3> HAVE i - 1 \in S
    <3>1. i \in 1..n + 1 /\ i \in 0..n /\ more[i].own = lines[i].own
      BY <1>1
    <3>2. s[i] = s[i - 1] + lines[i].own
      BY <3>1, <1>3
    <3> QED
      BY <3>1, <3>2, <1>2
  <2> HIDE DEF S
  <2> QED
    BY <2>1, <2>2, <1>1, UpTo DEF S
<1>5. s[n] = t[n] /\ t[n] \in Int
  BY <1>1, <1>2, <1>4
<1>6. s[n + 1] = s[n] + line.own
  <2>1. n + 1 \in 1..n + 1 /\ n + 1 - 1 = n
    BY <1>1
  <2> QED
    BY <2>1, <1>1, <1>3
<1> QED
  BY <1>2, <1>3, <1>5, <1>6 DEF more

LEMMA SpentNothing == Spent(<<>>) = 0
<1>1. <<>> \in Seq(CostLine) /\ Len(<<>>) = 0
  OBVIOUS
<1>2. PICK s : s[0] = 0 /\ Spent(<<>>) = s[0]
  BY <1>1, SpentIs
<1> QED
  BY <1>2

\* A profile that has its summary adds up.
Adds(profile) ==
    profile.summary # Unset =>
        /\ Spent(profile.lines) = profile.summary
        /\ \A k, l \in 1..Len(profile.lines) :
              profile.lines[k].nr = profile.lines[l].nr => k = l

\* The lines account for what the calls have ended took, with the first m calls
\* of the stack still in progress; no call of these has a line, and none has two.
Balanced(lines, stack, count, m) ==
    /\ \E s \in [Nat -> Int] :
          /\ s[0] = 0 /\ Spent(lines) = s[m]
          /\ \A j \in 1..m : s[j] = s[j - 1] + stack[j].profile.taken
    /\ \A k, l \in 1..Len(lines) : lines[k].nr = lines[l].nr => k = l
    /\ \A k \in 1..Len(lines) : /\ lines[k].nr <= count
                                /\ \A j \in 1..m : lines[k].nr # stack[j].nr

MainFirst(g) == g.stack # <<>> /\ g.stack[1].fn = Main

\* What is known of the profiles when the first m calls of the stack have not ended.
ProfilesAt(g, m) ==
    /\ g.profiles \in Seq(Profile)
    /\ \A i \in 1..Len(g.profiles) : Adds(g.profiles[i])
    /\ g.profiler_enabled =>
          /\ g.profile_file \in 1..Len(g.profiles)
          /\ g.profiles[g.profile_file].summary = Unset
          /\ MainFirst(g) =>
                m >= 1 /\ Balanced(g.profiles[g.profile_file].lines, g.stack, g.function_count, m)

ProfilesOK(g) ==
    /\ ProfilesAt(g, Len(g.stack))
    /\ g.function_count < 0 => ~g.profiler_enabled

LEMMA BalancedSame ==
    ASSUME NEW lines, NEW s, NEW t, NEW count, NEW m, Balanced(lines, s, count, m),
           \A j \in 1..m : t[j].nr = s[j].nr /\ t[j].profile.taken = s[j].profile.taken
    PROVE  Balanced(lines, t, count, m)
BY DEF Balanced

LEMMA Sum3 ==
    ASSUME NEW x \in Int, NEW y \in Int, NEW z \in Int
    PROVE  (x + y) + z - y = x + z /\ (x + y) + z = x + (y + z)
OBVIOUS

\* What a line does to the profile: of the innermost call that has not ended.
LEMMA BalancedEnd ==
    ASSUME NEW lines \in Seq(CostLine), NEW s, NEW t, NEW count \in Int, NEW m \in Nat, m >= 2,
           Balanced(lines, s, count, m), NEW time \in Int,
           \A i \in 1..m : s[i].profile.taken \in Int /\ s[i].nr <= count /\ s[i].nr \in Int,
           \A i, j \in 1..m : i < j => s[i].nr < s[j].nr,
           \A j \in 1..m : t[j].nr = s[j].nr,
           \A j \in 1..m - 2 : t[j].profile.taken = s[j].profile.taken,
           t[m - 1].profile.taken = s[m - 1].profile.taken + time,
           NEW line \in CostLine, line.nr = s[m].nr, line.own = time - s[m].profile.taken
    PROVE  Balanced(Append(lines, line), t, count, m - 1)
<1> DEFINE more == Append(lines, line)
           n == Len(lines)
<1>1. PICK a \in [Nat -> Int] :
          /\ a[0] = 0 /\ Spent(lines) = a[m]
          /\ \A j \in 1..m : a[j] = a[j - 1] + s[j].profile.taken
  BY DEF Balanced
<1>2. Spent(more) = a[m] + time - s[m].profile.taken
  <2>1. Spent(more) = Spent(lines) + line.own
    BY SpentAppend
  <2>2. m \in 1..m
    OBVIOUS
  <2> QED
    BY <2>1, <2>2, <1>1
<1> DEFINE b == [a EXCEPT ![m - 1] = a[m - 1] + time]
<1>3. b \in [Nat -> Int] /\ b[0] = 0 /\ Spent(more) = b[m - 1]
  <2>1. a[m] = a[m - 1] + s[m].profile.taken /\ a[m] \in Int /\ a[m - 1] \in Int
        /\ s[m].profile.taken \in Int
    BY <1>1
  <2>2. b[m - 1] = a[m - 1] + time
    OBVIOUS
  <2>3. b[0] = 0
    BY <1>1
  <2>4. b \in [Nat -> Int]
    BY <2>1, SMTT(40)
  <2>5. (a[m - 1] + s[m].profile.taken) + time - s[m].profile.taken = a[m - 1] + time
    BY <2>1, Sum3, SMTT(40)
  <2> HIDE DEF b, more
  <2> QED
    BY <1>2, <2>1, <2>2, <2>3, <2>4, <2>5, Zenon
<1>4. \A j \in 1..m - 1 : b[j] = b[j - 1] + t[j].profile.taken
  <2> TAKE j \in 1..m - 1
  <2>1. CASE j = m - 1
    <3>1. a[m - 1] = a[m - 2] + s[m - 1].profile.taken /\ a[m - 2] \in Int
          /\ s[m - 1].profile.taken \in Int
      BY <1>1, SMTT(40)
    <3>2. b[m - 1] = a[m - 1] + time /\ b[m - 2] = a[m - 2]
      OBVIOUS
    <3>3. j - 1 = m - 2
      BY <2>1
    <3> HIDE DEF b
    <3>4. (a[m - 2] + s[m - 1].profile.taken) + time = a[m - 2] + (s[m - 1].profile.taken + time)
      BY <3>1, Sum3, SMTT(40)
    <3>5. b[m - 1] = b[m - 2] + t[m - 1].profile.taken
      BY <3>1, <3>2, <3>4, Zenon
    <3> QED
      BY <2>1, <3>3, <3>5
  <2>2. CASE j # m - 1
    <3>1. j \in 1..m - 2 /\ j \in 1..m
      BY <2>2, SMTT(40)
    <3>2. b[j] = a[j] /\ b[j - 1] = a[j - 1]
      BY <2>2
    <3> QED
      BY <3>1, <3>2, <1>1
  <2> QED
    BY <2>1, <2>2
<1>5. /\ n \in Nat /\ Len(more) = n + 1 /\ more[n + 1] = line
      /\ \A k \in 1..n : more[k] = lines[k]
  BY SMTT(40)
<1>6. /\ \A k, l \in 1..n : lines[k].nr = lines[l].nr => k = l
      /\ \A k \in 1..n : lines[k].nr <= count /\ \A j \in 1..m : lines[k].nr # s[j].nr
  BY DEF Balanced
<1> HIDE DEF b, more, n
<1>7. \A k \in 1..n + 1 : k \in 1..n \/ k = n + 1
  BY <1>5
<1>8. m \in 1..m /\ \A j \in 1..m - 1 : j \in 1..m /\ j < m
  OBVIOUS
<1>9. \A k, l \in 1..n + 1 : more[k].nr = more[l].nr => k = l
  <2>1. \A k \in 1..n : more[k].nr # more[n + 1].nr
    <3> TAKE k \in 1..n
    <3>1. more[k] = lines[k] /\ more[n + 1] = line /\ lines[k].nr # s[m].nr
      BY <1>5, <1>6, <1>8
    <3> QED
      BY <3>1
  <2> QED
    BY <1>5, <1>6, <1>7, <2>1
<1>10. \A k \in 1..n + 1 : /\ more[k].nr <= count
                           /\ \A j \in 1..m - 1 : more[k].nr # t[j].nr
  <2>1. line.nr <= count /\ \A j \in 1..m - 1 : line.nr # t[j].nr
    <3>1. \A j \in 1..m - 1 : s[j].nr < s[m].nr /\ s[j].nr \in Int /\ s[m].nr \in Int /\ t[j].nr = s[j].nr
      BY <1>8
    <3> QED
      BY <3>1, <1>8, SMTT(40)
  <2>2. \A k \in 1..n : more[k].nr <= count /\ \A j \in 1..m - 1 : more[k].nr # t[j].nr
    <3> TAKE k \in 1..n
    <3>1. more[k] = lines[k] /\ lines[k].nr <= count /\ \A j \in 1..m : lines[k].nr # s[j].nr
      BY <1>5, <1>6
    <3>2. \A j \in 1..m - 1 : lines[k].nr # t[j].nr
      BY <3>1, <1>8
    <3> QED
      BY <3>1, <3>2
  <2> QED
    BY <1>5, <1>7, <2>1, <2>2
<1>11. Len(more) = n + 1
  BY <1>5
<1>12. Balanced(more, t, count, m - 1)
  BY <1>3, <1>4, <1>9, <1>10, <1>11 DEF Balanced
<1> QED
  BY <1>12 DEF more

\* The end of the script: its summary is the sum.
LEMMA BalancedMain ==
    ASSUME NEW lines \in Seq(CostLine), NEW s, NEW count, Balanced(lines, s, count, 1),
           NEW time \in Int, s[1].profile.taken \in Int,
           NEW line \in CostLine, line.nr = s[1].nr, line.own = time - s[1].profile.taken
    PROVE  /\ Spent(Append(lines, line)) = time
           /\ \A k, l \in 1..Len(Append(lines, line)) :
                 Append(lines, line)[k].nr = Append(lines, line)[l].nr => k = l
<1> DEFINE more == Append(lines, line)
           n == Len(lines)
<1>1. PICK a \in [Nat -> Int] :
          /\ a[0] = 0 /\ Spent(lines) = a[1]
          /\ \A j \in 1..1 : a[j] = a[j - 1] + s[j].profile.taken
  BY DEF Balanced
<1>2. Spent(lines) = s[1].profile.taken
  <2>1. a[1] = a[1 - 1] + s[1].profile.taken
    BY <1>1
  <2> QED
    BY <1>1, <2>1
<1>3. Spent(more) = Spent(lines) + line.own
  BY SpentAppend
<1>4. Spent(more) = time
  BY <1>2, <1>3
<1>5. /\ n \in Nat /\ Len(more) = n + 1 /\ more[n + 1] = line
      /\ \A k \in 1..n : more[k] = lines[k]
  OBVIOUS
<1>6. /\ \A k, l \in 1..n : lines[k].nr = lines[l].nr => k = l
      /\ \A k \in 1..n : lines[k].nr # s[1].nr
  BY DEF Balanced
<1> HIDE DEF more, n
<1>7. \A k \in 1..n + 1 : k \in 1..n \/ k = n + 1
  BY <1>5
<1>8. \A k \in 1..n : more[k].nr # more[n + 1].nr
  <2> TAKE k \in 1..n
  <2>1. more[k] = lines[k] /\ more[n + 1] = line
    BY <1>5
  <2>2. lines[k].nr # s[1].nr
    BY <1>6
  <2> QED
    BY <2>1, <2>2
<1>9. \A k, l \in 1..Len(more) : more[k].nr = more[l].nr => k = l
  BY <1>5, <1>6, <1>7, <1>8
<1> QED
  BY <1>4, <1>9 DEF more

\* A new call took nothing yet.
LEMMA BalancedPush ==
    ASSUME NEW lines \in Seq(CostLine), NEW s, NEW t, NEW count \in Int, NEW n \in Nat,
           Balanced(lines, s, count, n),
           \A j \in 1..n : t[j].nr = s[j].nr /\ t[j].profile.taken = s[j].profile.taken,
           t[n + 1].nr = count + 1, t[n + 1].profile.taken = 0
    PROVE  Balanced(lines, t, count + 1, n + 1)
<1>1. PICK a \in [Nat -> Int] :
          /\ a[0] = 0 /\ Spent(lines) = a[n]
          /\ \A j \in 1..n : a[j] = a[j - 1] + s[j].profile.taken
  BY DEF Balanced
<1> DEFINE b == [a EXCEPT ![n + 1] = a[n]]
<1>2. b \in [Nat -> Int] /\ b[0] = 0 /\ b[n + 1] = a[n] /\ b[n] = a[n] /\ a[n] \in Int
  BY <1>1
<1>3. \A j \in 1..n + 1 : b[j] = b[j - 1] + t[j].profile.taken
  <2> TAKE j \in 1..n + 1
  <2>1. CASE j = n + 1
    BY <2>1, <1>2
  <2>2. CASE j # n + 1
    <3>1. j \in 1..n /\ b[j] = a[j] /\ b[j - 1] = a[j - 1]
      BY <2>2
    <3> QED
      BY <3>1, <1>1
  <2> QED
    BY <2>1, <2>2
<1>4. \A k \in 1..Len(lines) : lines[k] \in CostLine
  OBVIOUS
<1>5. \A k \in 1..Len(lines) : /\ lines[k].nr <= count /\ lines[k].nr \in Int
                               /\ \A j \in 1..n : lines[k].nr # s[j].nr
  BY <1>4 DEF Balanced, CostLine
<1>6. \A j \in 1..n + 1 : j \in 1..n \/ j = n + 1
  OBVIOUS
<1> HIDE DEF b
<1>7. \A k \in 1..Len(lines) : /\ lines[k].nr <= count + 1
                               /\ \A j \in 1..n + 1 : lines[k].nr # t[j].nr
  <2> TAKE k \in 1..Len(lines)
  <2>1. /\ lines[k].nr <= count /\ lines[k].nr \in Int
        /\ \A j \in 1..n : lines[k].nr # s[j].nr
    BY <1>5
  <2>2. \A j \in 1..n : lines[k].nr # t[j].nr
    BY <2>1
  <2>3. lines[k].nr # t[n + 1].nr
    BY <2>1
  <2>4. \A j \in 1..n + 1 : lines[k].nr # t[j].nr
    BY <1>6, <2>2, <2>3
  <2>5. lines[k].nr <= count + 1
    BY <2>1, SMTT(40)
  <2> QED
    BY <2>4, <2>5
<1>8. \A k, l \in 1..Len(lines) : lines[k].nr = lines[l].nr => k = l
  BY DEF Balanced
<1>9. Spent(lines) = b[n + 1]
  BY <1>1, <1>2
<1> QED
  BY <1>2, <1>3, <1>7, <1>8, <1>9 DEF Balanced

\* With no line and one call, that took nothing.
LEMMA BalancedFirst ==
    ASSUME NEW t, NEW count, t[1].profile.taken = 0
    PROVE  Balanced(<<>>, t, count, 1)
<1> DEFINE b == [i \in Nat |-> 0]
<1>1. b \in [Nat -> Int] /\ b[0] = 0 /\ b[1] = 0 /\ \A j \in 1..1 : b[j] = b[j - 1] + t[j].profile.taken
  OBVIOUS
<1>2. Spent(<<>>) = 0 /\ Len(<<>>) = 0
  BY SpentNothing
<1> HIDE DEF b
<1>3. Spent(<<>>) = b[1]
  BY <1>1, <1>2
<1> QED
  BY <1>1, <1>2, <1>3 DEF Balanced

(* What the hooks do to the profiles *)

LEMMA CostOf ==
    ASSUME NEW g, CallsOK(g), NEW i \in 1..Len(g.stack)
    PROVE  /\ g.stack[i].profile.time \in Int /\ g.stack[i].profile.mark \in Int
           /\ g.stack[i].profile.taken \in Int /\ g.stack[i].nr \in Int
           /\ g.clock \in Int /\ g.stack[i].nr <= g.function_count
<1>1. g.stack[i] \in Frame
  BY DEF CallsOK
<1>2. g.stack[i].profile \in Cost /\ g.stack[i].nr \in Int
  BY <1>1 DEF Frame
<1>3. g.stack[i].nr <= g.function_count
  BY DEF CallsOK, Ordered
<1> QED
  BY <1>2, <1>3 DEF Cost, CallsOK

\* What the end of the call in frame i writes, whatever the line and the time are.
LineWritten(g, i, c, own, main, line, time) ==
    [g EXCEPT !.stack[i].profile = [@ EXCEPT !.time = own, !.mark = 0],
              !.profiler_enabled = @ /\ ~main,
              !.profiles[c].lines = Append(@, line),
              !.profiles[c].summary = IF main THEN time ELSE @]

ProfileWritten(profiles, c, main, line, time) ==
    [profiles EXCEPT ![c] = [lines |-> Append(@.lines, line),
                             summary |-> IF main THEN time ELSE @.summary]]

LEMMA LineWrittenProfiles ==
    ASSUME NEW g, "profiles" \in DOMAIN g, NEW i, NEW own, NEW main, NEW line, NEW time,
           NEW c, g.profiles \in Seq(Profile), c \in 1..Len(g.profiles)
    PROVE  LET e == LineWritten(g, i, c, own, main, line, time)
           IN  /\ "profiles" \in DOMAIN e
               /\ e.profiles = ProfileWritten(g.profiles, c, main, line, time)
<1> DEFINE e == LineWritten(g, i, c, own, main, line, time)
           p == g.profiles
           P == [p EXCEPT ![c].lines = Append(@, line), ![c].summary = IF main THEN time ELSE @]
<1>1. e.profiles = P /\ "profiles" \in DOMAIN e
  BY Zenon DEF LineWritten
<1>2. p[c] \in Profile /\ c \in DOMAIN p
  OBVIOUS
<1>3. DOMAIN p[c] = {"lines", "summary"}
  BY <1>2 DEF Profile
<1> HIDE DEF e, p
<1>4. DOMAIN P = DOMAIN p
  BY <1>2, ZenonT(30)
<1>5. \A k \in DOMAIN p : k # c => P[k] = p[k]
  BY <1>2
<1>6. P[c].lines = Append(p[c].lines, line)
  BY <1>2, <1>3
<1>7. P[c].summary = IF main THEN time ELSE p[c].summary
  BY <1>2, <1>3
<1>8. P[c] = [lines |-> P[c].lines, summary |-> P[c].summary]
  BY <1>2, <1>3
<1>9. P = [k \in DOMAIN P |-> P[k]]
  OBVIOUS
<1> HIDE DEF P
<1>10. P[c] = [lines |-> Append(p[c].lines, line),
               summary |-> IF main THEN time ELSE p[c].summary]
  BY <1>6, <1>7, <1>8
<1> DEFINE r == [lines |-> Append(p[c].lines, line),
                 summary |-> IF main THEN time ELSE p[c].summary]
<1>11. P = [p EXCEPT ![c] = r]
  <2> HIDE DEF r
  <2>1. P[c] = r
    BY <1>10 DEF r
  <2> QED
    BY <1>2, <1>4, <1>5, <1>9, <2>1
<1>12. ProfileWritten(p, c, main, line, time) = [p EXCEPT ![c] = r]
  BY Zenon DEF ProfileWritten
<1> HIDE DEF r
<1> QED
  BY <1>1, <1>11, <1>12 DEF e, p

\* The end of a call writes a line, and that of the script the summary.
LEMMA FunctionEndProfiles ==
    ASSUME NEW g, CallsOK(g), NEW i \in 1..Len(g.stack), g.profiles \in Seq(Profile),
           g.profile_file \in 1..Len(g.profiles)
    PROVE  LET h == FunctionEnd(g, i)
               c == g.profile_file
               time == g.stack[i].profile.time + g.clock - g.stack[i].profile.mark
               line == [nr |-> g.stack[i].nr, own |-> time - g.stack[i].profile.taken]
           IN  /\ h.profiles \in Seq(Profile) /\ Len(h.profiles) = Len(g.profiles)
               /\ h.profile_file = c /\ line \in CostLine
               /\ \A k \in 1..Len(g.profiles) : k # c => h.profiles[k] = g.profiles[k]
               /\ h.profiles[c].lines = Append(g.profiles[c].lines, line)
               /\ h.profiles[c].summary = IF g.stack[i].fn = Main THEN time
                                          ELSE g.profiles[c].summary
<1> DEFINE h == FunctionEnd(g, i)
           c == g.profile_file
           time == g.stack[i].profile.time + g.clock - g.stack[i].profile.mark
           line == [nr |-> g.stack[i].nr, own |-> time - g.stack[i].profile.taken]
           q == g.profiles[c]
           main == g.stack[i].fn = Main
           v == IF main THEN time ELSE q.summary
<1> SUFFICES /\ h.profiles \in Seq(Profile) /\ Len(h.profiles) = Len(g.profiles)
             /\ h.profile_file = c /\ line \in CostLine
             /\ \A k \in 1..Len(g.profiles) : k # c => h.profiles[k] = g.profiles[k]
             /\ h.profiles[c].lines = Append(q.lines, line)
             /\ h.profiles[c].summary = v
  OBVIOUS
<1>1. DOMAIN g = Fields
  BY DEF CallsOK
<1>2. time \in Int /\ line \in CostLine
  <2>1. time \in Int /\ time - g.stack[i].profile.taken \in Int /\ g.stack[i].nr \in Int
    BY CostOf, SMTT(60)
  <2> HIDE DEF time
  <2> QED
    BY <2>1 DEF CostLine
<1>3. q \in Profile
  OBVIOUS
<1>4. v \in Int
  BY <1>2, <1>3 DEF Profile
<1> DEFINE r == [lines |-> Append(q.lines, line), summary |-> v]
<1>5. h.profiles = [g.profiles EXCEPT ![c] = r]
  <2> DEFINE own == time - g.stack[i].profile.taken
             e == LineWritten(g, i, c, own, main, line, time)
             u == [e EXCEPT !.stack[i - 1].profile.taken = @ + time]
  <2>1. h = IF i = 1 THEN e ELSE u
    BY DEF FunctionEnd, LineWritten
  <2>2. "profiles" \in DOMAIN e /\ e.profiles = [g.profiles EXCEPT ![c] = r]
    <3>1. "profiles" \in DOMAIN g
      BY <1>1 DEF Fields
    <3>2. ProfileWritten(g.profiles, c, main, line, time) = [g.profiles EXCEPT ![c] = r]
      <4> HIDE DEF time, line, main
      <4> QED
        BY Zenon DEF ProfileWritten
    <3> HIDE DEF own, time, line, main, r
    <3>3. /\ "profiles" \in DOMAIN e
          /\ e.profiles = ProfileWritten(g.profiles, c, main, line, time)
      BY <3>1, LineWrittenProfiles
    <3> QED
      BY <3>2, <3>3
  <2> HIDE DEF e, h, time
  <2>3. u.profiles = e.profiles
    BY <2>2, ZenonT(60)
  <2> HIDE DEF u, v, line, q, r
  <2> QED
    BY <2>1, <2>2, <2>3
<1>6. h.profile_file = c
  BY <1>1 DEF FunctionEnd, Fields
<1> HIDE DEF h, time, line, v
<1>7. r \in Profile /\ r.lines = Append(q.lines, line) /\ r.summary = v
  <2>1. Append(q.lines, line) \in Seq(CostLine)
    BY <1>2, <1>3, SMTT(40) DEF Profile
  <2> QED
    BY <1>4, <2>1 DEF Profile
<1> HIDE DEF r, q
<1>8. /\ h.profiles \in Seq(Profile) /\ Len(h.profiles) = Len(g.profiles)
      /\ h.profiles[c] = r
      /\ \A k \in 1..Len(g.profiles) : k # c => h.profiles[k] = g.profiles[k]
  BY <1>5, <1>7, ExceptSeq
<1> QED
  BY <1>2, <1>6, <1>7, <1>8, SMTT(40)

\* The end of the innermost call that has not ended.
LEMMA FunctionEndAt ==
    ASSUME NEW g, CallsOK(g), KindsOK(g), NEW m \in 1..Len(g.stack), g.profiler_enabled,
           ProfilesAt(g, m)
    PROVE  LET h == FunctionEnd(g, m)
           IN  ProfilesAt(h, m - 1) /\ (m > 1 => h.profiler_enabled)
<1> DEFINE h == FunctionEnd(g, m)
           c == g.profile_file
           time == g.stack[m].profile.time + g.clock - g.stack[m].profile.mark
           line == [nr |-> g.stack[m].nr, own |-> time - g.stack[m].profile.taken]
           lines == g.profiles[c].lines
<1> SUFFICES ProfilesAt(h, m - 1) /\ (m > 1 => h.profiler_enabled)
  OBVIOUS
<1>1. /\ g.profiles \in Seq(Profile) /\ c \in 1..Len(g.profiles)
      /\ \A i \in 1..Len(g.profiles) : Adds(g.profiles[i])
      /\ g.profiles[c].summary = Unset
      /\ MainFirst(g) => Balanced(lines, g.stack, g.function_count, m)
  BY SMTT(40) DEF ProfilesAt
<1>2. /\ h.profiles \in Seq(Profile) /\ Len(h.profiles) = Len(g.profiles)
      /\ h.profile_file = c /\ line \in CostLine
      /\ \A k \in 1..Len(g.profiles) : k # c => h.profiles[k] = g.profiles[k]
      /\ h.profiles[c].lines = Append(lines, line)
      /\ h.profiles[c].summary = IF g.stack[m].fn = Main THEN time ELSE g.profiles[c].summary
  BY <1>1, FunctionEndProfiles
<1>3. /\ SameCalls(g.stack, h.stack)
      /\ \A j \in 1..Len(g.stack) : j \notin {m, m - 1} =>
            h.stack[j].profile = g.stack[j].profile
      /\ m > 1 => h.stack[m - 1].profile = [g.stack[m - 1].profile EXCEPT !.taken = @ + time]
      /\ h.profiler_enabled = (g.profiler_enabled /\ g.stack[m].fn # Main)
  BY FunctionEndFrames, ZenonT(150)
<1>4. h.function_count = g.function_count
  <2>1. DOMAIN g = Fields
    BY DEF CallsOK
  <2> QED
    BY <2>1, FunctionEndOnly DEF Only, Fields
<1>5. /\ time \in Int /\ Len(g.stack) \in Nat /\ g.function_count \in Int
      /\ \A j \in 1..Len(g.stack) : /\ g.stack[j].profile.taken \in Int
                                    /\ g.stack[j].nr \in Int
                                    /\ g.stack[j].nr <= g.function_count
      /\ \A i, j \in 1..Len(g.stack) : i < j => g.stack[i].nr < g.stack[j].nr
  <2>1. Len(g.stack) \in Nat /\ g.function_count \in Int
    BY DEF CallsOK
  <2>2. \A j \in 1..Len(g.stack) : /\ g.stack[j].profile.taken \in Int
                                   /\ g.stack[j].nr \in Int
                                   /\ g.stack[j].nr <= g.function_count
    BY CostOf
  <2>3. time \in Int
    <3>1. /\ g.stack[m].profile.time \in Int /\ g.stack[m].profile.mark \in Int
          /\ g.clock \in Int
      BY CostOf
    <3> QED
      BY <3>1
  <2>4. \A i, j \in 1..Len(g.stack) : i < j => g.stack[i].nr < g.stack[j].nr
    BY DEF CallsOK, Ordered
  <2> QED
    BY <2>1, <2>2, <2>3, <2>4
<1>6. lines \in Seq(CostLine)
  <2>1. g.profiles[c] \in Profile
    BY <1>1
  <2> QED
    BY <2>1 DEF Profile
<1>7. line.nr = g.stack[m].nr /\ line.own = time - g.stack[m].profile.taken
  OBVIOUS
<1>8. m > 1 => g.stack[m].fn # Main
  BY DEF KindsOK
<1>9. MainFirst(h) <=> MainFirst(g)
  <2>1. Len(h.stack) = Len(g.stack) /\ h.stack[1].fn = g.stack[1].fn
    BY <1>3, <1>5 DEF SameCalls, Alike
  <2>2. h.stack # <<>> /\ g.stack # <<>>
    BY <1>3, <1>5, <2>1
  <2> QED
    BY <2>1, <2>2 DEF MainFirst
<1>10. m > 1 => h.stack[m - 1].profile.taken = g.stack[m - 1].profile.taken + time
  <2> SUFFICES ASSUME m > 1
               PROVE  h.stack[m - 1].profile.taken = g.stack[m - 1].profile.taken + time
    OBVIOUS
  <2>1. g.stack[m - 1] \in Frame
    BY <1>5 DEF CallsOK
  <2>2. g.stack[m - 1].profile \in Cost
    BY <2>1 DEF Frame
  <2> HIDE DEF time, h
  <2> QED
    BY <1>3, <2>2 DEF Cost
<1>11. \A j \in 1..m : j \in 1..Len(g.stack) /\ h.stack[j].nr = g.stack[j].nr
  BY <1>3, <1>5 DEF SameCalls, Alike
<1> HIDE DEF h, time, line, lines
<1>12. CASE m > 1
  <2>1. h.profiles[c].summary = Unset
    BY <1>1, <1>2, <1>8, <1>12
  <2>2. \A k \in 1..Len(h.profiles) : Adds(h.profiles[k])
    <3>1. Adds(h.profiles[c])
      BY <2>1 DEF Adds
    <3> QED
      BY <3>1, <1>1, <1>2
  <2>3. MainFirst(h) => Balanced(h.profiles[c].lines, h.stack, h.function_count, m - 1)
    <3> SUFFICES ASSUME MainFirst(h)
                 PROVE  Balanced(Append(lines, line), h.stack, h.function_count, m - 1)
      BY <1>2
    <3>1. Balanced(lines, g.stack, g.function_count, m)
      BY <1>1, <1>9
    <3>2. /\ \A j \in 1..m : g.stack[j].profile.taken \in Int /\ g.stack[j].nr \in Int
                             /\ g.stack[j].nr <= g.function_count
          /\ \A i, j \in 1..m : i < j => g.stack[i].nr < g.stack[j].nr
      BY <1>5, <1>11
    <3>3. \A j \in 1..m - 2 : h.stack[j].profile.taken = g.stack[j].profile.taken
      <4>1. \A j \in 1..m - 2 : j \in 1..Len(g.stack) /\ j \notin {m, m - 1}
        BY <1>5
      <4> QED
        BY <4>1, <1>3
    <3>4. m \in Nat /\ m >= 2
      BY <1>12
    <3>5. Balanced(Append(lines, line), h.stack, g.function_count, m - 1)
      BY <3>1, <3>2, <3>3, <3>4, <1>2, <1>5, <1>6, <1>7, <1>10, <1>11, <1>12, BalancedEnd
    <3> QED
      BY <3>5, <1>4
  <2>4. h.profiler_enabled
    BY <1>3, <1>8, <1>12
  <2>5. m - 1 >= 1
    BY <1>12
  <2> QED
    BY <1>1, <1>2, <2>1, <2>2, <2>3, <2>4, <2>5 DEF ProfilesAt
<1>13. CASE m = 1 /\ g.stack[1].fn = Main
  <2>1. ~h.profiler_enabled
    BY <1>3, <1>13
  <2>2. MainFirst(g)
    BY <1>13, <1>5 DEF MainFirst
  <2>3. Balanced(lines, g.stack, g.function_count, 1)
    BY <1>1, <1>13, <2>2
  <2>4. g.stack[1].profile.taken \in Int /\ line.nr = g.stack[1].nr
        /\ line.own = time - g.stack[1].profile.taken
    BY <1>5, <1>7, <1>13
  <2>5. /\ Spent(Append(lines, line)) = time
        /\ \A k, l \in 1..Len(Append(lines, line)) :
              Append(lines, line)[k].nr = Append(lines, line)[l].nr => k = l
    BY <1>2, <1>5, <1>6, <2>3, <2>4, BalancedMain
  <2>6. Adds(h.profiles[c])
    BY <1>2, <1>13, <2>5 DEF Adds
  <2>7. \A k \in 1..Len(h.profiles) : Adds(h.profiles[k])
    BY <1>1, <1>2, <2>6
  <2> QED
    BY <1>2, <1>13, <2>1, <2>7 DEF ProfilesAt
<1>14. CASE m = 1 /\ g.stack[1].fn # Main
  <2>1. h.profiles[c].summary = Unset
    BY <1>1, <1>2, <1>14
  <2>2. \A k \in 1..Len(h.profiles) : Adds(h.profiles[k])
    <3>1. Adds(h.profiles[c])
      BY <2>1 DEF Adds
    <3> QED
      BY <3>1, <1>1, <1>2
  <2>3. ~MainFirst(h)
    BY <1>9, <1>14 DEF MainFirst
  <2> QED
    BY <1>1, <1>2, <1>14, <2>1, <2>2, <2>3 DEF ProfilesAt
<1>15. m > 1 \/ m = 1
  BY <1>5
<1> QED
  BY <1>12, <1>13, <1>14, <1>15

\* The globals that what is known of the profiles is about, beside the stack.
ProfileFields == {"profiles", "profile_file", "profiler_enabled", "function_count"}

LEMMA AtSame ==
    ASSUME NEW g, NEW h, NEW m, ProfilesAt(g, m), Only(g, h, Fields \ ProfileFields),
           MainFirst(h) => MainFirst(g),
           \A j \in 1..m : /\ h.stack[j].nr = g.stack[j].nr
                           /\ h.stack[j].profile.taken = g.stack[j].profile.taken
    PROVE  ProfilesAt(h, m)
<1>1. /\ h.profiles = g.profiles /\ h.profile_file = g.profile_file
      /\ h.profiler_enabled = g.profiler_enabled /\ h.function_count = g.function_count
  BY DEF Only, ProfileFields, Fields
<1> QED
  BY <1>1, BalancedSame DEF ProfilesAt

LEMMA ProfilesSame ==
    ASSUME NEW g, NEW h, ProfilesOK(g), Only(g, h, Fields \ (ProfileFields \cup {"stack"}))
    PROVE  ProfilesOK(h)
<1>1. /\ h.stack = g.stack
      /\ h.profiles = g.profiles /\ h.profile_file = g.profile_file
      /\ h.profiler_enabled = g.profiler_enabled /\ h.function_count = g.function_count
  BY DEF Only, ProfileFields, Fields
<1> QED
  BY <1>1 DEF ProfilesAt, ProfilesOK, MainFirst

\* The begin of a call sets its mark only.
LEMMA BeginProfileTaken ==
    ASSUME NEW g, CallsOK(g), g.stack # <<>>
    PROVE  \A j \in 1..Len(g.stack) :
              BeginProfile(g).stack[j].profile.taken = g.stack[j].profile.taken
<1> DEFINE h == BeginProfile(g)
           n == Len(g.stack)
           v == g.stack[n].profile
           p == [v EXCEPT !.time = 0, !.mark = g.clock]
<1>1. g.stack \in Seq(Frame) /\ n \in 1..Len(g.stack) /\ g.clock \in Int /\ DOMAIN g = Fields
  BY DEF CallsOK
<1>2. p \in Cost /\ p.taken = v.taken
  <2> DEFINE w == [v EXCEPT !.time = 0]
  <2>1. v \in Cost
    <3>1. g.stack[n] \in Frame
      BY <1>1
    <3> QED
      BY <3>1 DEF Frame
  <2>2. w \in Cost /\ w.taken = v.taken
    BY <2>1 DEF Cost
  <2>3. p = [w EXCEPT !.mark = g.clock]
    OBVIOUS
  <2> HIDE DEF w, p, v
  <2> QED
    BY <1>1, <2>2, <2>3 DEF Cost
<1>3. CASE ~g.profiler_enabled
  BY <1>3 DEF BeginProfile
<1>4. CASE g.profiler_enabled
  <2>1. h.stack = [g.stack EXCEPT ![n].profile = p]
    BY <1>1, <1>4 DEF BeginProfile, FunctionBegin, Fields
  <2> HIDE DEF p, h, n
  <2>2. \A j \in 1..Len(g.stack) :
           h.stack[j].profile = IF j = n THEN p ELSE g.stack[j].profile
    BY <1>1, <1>2, <2>1, ProfileUpdate
  <2> QED
    BY <1>2, <2>2 DEF h, v
<1> QED
  BY <1>3, <1>4

\* A call begins: of the script, only when no line has been written.
LEMMA EnterProfiles ==
    ASSUME NEW g, CallsOK(g), ProfilesAt(g, Len(g.stack)), NEW fn \in Names,
           NEW internal \in BOOLEAN, NEW do_return \in BOOLEAN,
           NEW s, CallsOK(s), s.stack = Entered(g, fn, internal, do_return).stack,
           Only(Entered(g, fn, internal, do_return), s, {"error_cb"}),
           fn = Main => /\ g.stack = <<>>
                        /\ g.profiler_enabled => g.profiles[g.profile_file].lines = <<>>
    PROVE  ProfilesOK(BeginProfile(s))
<1> DEFINE e == Entered(g, fn, internal, do_return)
           h == BeginProfile(s)
           n == Len(g.stack)
           lines == g.profiles[g.profile_file].lines
<1>1. /\ Pushed(g, e, fn, internal)
      /\ Only(g, e, {"clock", "monitored_found", "level", "function_count", "stack", "traces"})
      /\ \A i \in 1..n : e.stack[i] = g.stack[i]
      /\ e.stack[Len(e.stack)].profile = NoProfile
  BY EnteredCalls, ZenonT(100)
<1>2. n \in Nat /\ g.function_count \in Int /\ g.function_count >= -1
  BY DEF CallsOK
<1> HIDE DEF e
<1>3. Len(s.stack) = n + 1 /\ s.stack # <<>>
  BY <1>1, <1>2 DEF Pushed, e
<1>4. /\ Still(s, h) /\ Only(s, h, {"stack"})
      /\ \A j \in 1..n + 1 : h.stack[j].profile.taken = s.stack[j].profile.taken
  BY <1>3, BeginProfileStill, BeginProfileTaken, SMTT(40)
<1> HIDE DEF h
<1>5. /\ h.profiles = g.profiles /\ h.profile_file = g.profile_file
      /\ h.profiler_enabled = g.profiler_enabled /\ h.function_count = g.function_count + 1
  <2>1. /\ e.profiles = g.profiles /\ e.profile_file = g.profile_file
        /\ e.profiler_enabled = g.profiler_enabled /\ e.function_count = g.function_count + 1
    BY <1>1 DEF Only, Fields, Pushed
  <2>2. /\ s.profiles = e.profiles /\ s.profile_file = e.profile_file
        /\ s.profiler_enabled = e.profiler_enabled /\ s.function_count = e.function_count
    BY DEF Only, Fields, e
  <2>3. /\ h.profiles = s.profiles /\ h.profile_file = s.profile_file
        /\ h.profiler_enabled = s.profiler_enabled /\ h.function_count = s.function_count
    BY <1>4 DEF Only, Fields
  <2> QED
    BY <2>1, <2>2, <2>3
<1>6. Len(h.stack) = n + 1 /\ \A j \in 1..n + 1 : Alike(s.stack[j], h.stack[j])
  BY <1>3, <1>4 DEF Still, SameCalls
<1>7. /\ h.stack[n + 1].nr = g.function_count + 1 /\ h.stack[n + 1].fn = fn
      /\ h.stack[n + 1].profile.taken = 0
  <2>1. n + 1 \in 1..n + 1
    BY <1>2
  <2>2. s.stack[n + 1].nr = g.function_count + 1 /\ s.stack[n + 1].fn = fn
        /\ s.stack[n + 1].profile = NoProfile
    BY <1>1, <1>3 DEF Pushed, e
  <2>3. s.stack[n + 1].profile.taken = 0
    BY <2>2 DEF NoProfile
  <2> QED
    BY <2>1, <2>2, <2>3, <1>4, <1>6 DEF Alike
<1>8. \A j \in 1..n : /\ h.stack[j].nr = g.stack[j].nr /\ h.stack[j].fn = g.stack[j].fn
                      /\ h.stack[j].profile.taken = g.stack[j].profile.taken
  <2>1. \A j \in 1..n : j \in 1..n + 1 /\ s.stack[j] = g.stack[j]
    BY <1>1, <1>2 DEF e
  <2> QED
    BY <2>1, <1>4, <1>6 DEF Alike
<1>9. ASSUME g.profiler_enabled, MainFirst(h)
      PROVE  Balanced(lines, h.stack, g.function_count + 1, n + 1)
  <2>1. CASE n = 0
    <3>1. fn = Main
      BY <2>1, <1>7, <1>9 DEF MainFirst
    <3>2. lines = <<>>
      BY <3>1, <1>9
    <3> HIDE DEF n, lines
    <3> QED
      BY <3>2, <2>1, <1>7, BalancedFirst
  <2>2. CASE n # 0
    <3>1. g.stack # <<>> /\ g.stack[1].fn = Main
      BY <2>2, <1>2, <1>8, <1>9 DEF MainFirst
    <3>2. Balanced(lines, g.stack, g.function_count, n) /\ g.profile_file \in 1..Len(g.profiles)
          /\ g.profiles \in Seq(Profile)
      BY <3>1, <1>9 DEF ProfilesAt, MainFirst
    <3>3. lines \in Seq(CostLine)
      <4>1. g.profiles[g.profile_file] \in Profile
        BY <3>2
      <4> QED
        BY <4>1 DEF Profile
    <3> HIDE DEF n, lines
    <3> QED
      BY <3>2, <3>3, <1>2, <1>7, <1>8, BalancedPush, ZenonT(120)
  <2> QED
    BY <2>1, <2>2
<1>10. ProfilesAt(h, Len(h.stack))
  <2>1. /\ g.profiles \in Seq(Profile)
        /\ \A i \in 1..Len(g.profiles) : Adds(g.profiles[i])
        /\ g.profiler_enabled => /\ g.profile_file \in 1..Len(g.profiles)
                                 /\ g.profiles[g.profile_file].summary = Unset
    BY DEF ProfilesAt
  <2>2. n + 1 >= 1
    BY <1>2
  <2> HIDE DEF n
  <2> QED
    BY <2>1, <2>2, <1>5, <1>6, <1>9 DEF ProfilesAt
<1>11. ~(h.function_count < 0)
  BY <1>2, <1>5
<1> QED
  BY <1>10, <1>11 DEF ProfilesOK, h

\* The first call of a stack may start a profile, which has no line.
LEMMA ProfilerInitProfiles ==
    ASSUME NEW g, DOMAIN g = Fields, g.stack = <<>>, ProfilesAt(g, 0), NEW opened \in BOOLEAN,
           ~g.profiler_enabled
    PROVE  LET h == ProfilerInit(g, opened)
           IN  /\ ProfilesAt(h, 0)
               /\ h.profiler_enabled => h.profiles[h.profile_file].lines = <<>>
<1> DEFINE h == ProfilerInit(g, opened)
           q == [lines |-> <<>>, summary |-> Unset]
           n == Len(g.profiles)
<1> SUFFICES /\ ProfilesAt(h, 0)
             /\ h.profiler_enabled => h.profiles[h.profile_file].lines = <<>>
  OBVIOUS
<1>1. g.profiles \in Seq(Profile) /\ \A i \in 1..n : Adds(g.profiles[i])
  BY DEF ProfilesAt
<1>2. q \in Profile /\ Adds(q) /\ q.lines = <<>> /\ q.summary = Unset
  BY DEF Profile, Adds, Unset
<1>3. CASE opened
  <2>1. /\ h.profiles = Append(g.profiles, q) /\ h.profile_file = n + 1 /\ h.stack = g.stack
    BY <1>3 DEF ProfilerInit, Fields
  <2> HIDE DEF h, q
  <2>2. /\ h.profiles \in Seq(Profile) /\ Len(h.profiles) = n + 1 /\ n \in Nat
        /\ h.profiles[n + 1] = q /\ \A i \in 1..n : h.profiles[i] = g.profiles[i]
    BY <1>1, <1>2, <2>1
  <2>3. \A i \in 1..n + 1 : i \in 1..n \/ i = n + 1
    BY <2>2
  <2>4. \A i \in 1..Len(h.profiles) : Adds(h.profiles[i])
    BY <1>1, <1>2, <2>2, <2>3
  <2>5. ~MainFirst(h) /\ h.profile_file \in 1..Len(h.profiles)
    BY <2>1, <2>2 DEF MainFirst
  <2> QED
    BY <1>2, <2>1, <2>2, <2>4, <2>5 DEF ProfilesAt
<1>4. CASE ~opened
  <2>1. /\ h.profiles = g.profiles /\ h.profiler_enabled = g.profiler_enabled
    BY <1>4 DEF ProfilerInit, Fields
  <2> HIDE DEF h
  <2> QED
    BY <1>1, <2>1 DEF ProfilesAt
<1> QED
  BY <1>3, <1>4

LEMMA LevelZeroProfiles ==
    ASSUME NEW g, CallsOK(g), g.stack = <<>>, ProfilesAt(g, 0), NEW opened \in BOOLEAN
    PROVE  LET h == LevelZero(g, opened)
           IN  /\ ProfilesAt(h, 0)
               /\ ~g.profiler_enabled /\ h.profiler_enabled =>
                     h.profiles[h.profile_file].lines = <<>>
<1> DEFINE p == IF g.ini.profiler_enable /\ ~g.profiler_enabled
                THEN ProfilerInit(g, opened) ELSE g
           t == IF p.ini.auto_trace THEN StartTrace(p, p.ini.trace_options, opened) ELSE p
           h == LevelZero(g, opened)
           T == {"trace_handler", "do_trace", "traces", "trace_context"}
           G == {"gc_reports", "gc_stats_file", "gc_stats_enabled"}
<1> SUFFICES /\ ProfilesAt(h, 0)
             /\ ~g.profiler_enabled /\ h.profiler_enabled =>
                   h.profiles[h.profile_file].lines = <<>>
  OBVIOUS
<1>1. DOMAIN g = Fields
  BY DEF CallsOK
<1>2. /\ ProfilesAt(p, 0)
      /\ ~g.profiler_enabled /\ p.profiler_enabled => p.profiles[p.profile_file].lines = <<>>
  BY <1>1, ProfilerInitProfiles
<1>3. Only(g, p, {"profile_file", "profiler_enabled", "profiles"})
  BY <1>1, ProfilerInitOnly, OnlyNone
<1>4. h = IF t.ini.gc_stats_enable /\ ~t.gc_stats_enabled THEN GcStatsInit(t, opened) ELSE t
  BY DEF LevelZero
<1> HIDE DEF p, h
<1>5. DOMAIN p = Fields
  BY <1>3 DEF Only
<1>6. Only(p, t, T)
  BY <1>5, StartTraceOnly, OnlyNone
<1> HIDE DEF t
<1>7. DOMAIN t = Fields
  BY <1>6 DEF Only
<1>8. Only(t, h, G)
  BY <1>4, <1>7, GcStatsInitOnly, OnlyNone
<1>9. /\ h.profiles = p.profiles /\ h.profile_file = p.profile_file
      /\ h.profiler_enabled = p.profiler_enabled /\ h.stack = g.stack
  <2>1. /\ t.profiles = p.profiles /\ t.profile_file = p.profile_file
        /\ t.profiler_enabled = p.profiler_enabled /\ t.stack = p.stack
    BY <1>6 DEF Only, Fields
  <2>2. /\ h.profiles = t.profiles /\ h.profile_file = t.profile_file
        /\ h.profiler_enabled = t.profiler_enabled /\ h.stack = t.stack
    BY <1>8 DEF Only, Fields
  <2>3. p.stack = g.stack
    BY <1>3 DEF Only, Fields
  <2> QED
    BY <2>1, <2>2, <2>3
<1>10. ProfilesAt(h, 0)
  BY <1>2, <1>9 DEF ProfilesAt, MainFirst
<1> QED
  BY <1>2, <1>9, <1>10

\* A user function begins; the script only as the first call of the request.
LEMMA EnterUserProfiles ==
    ASSUME NEW g, CallsOK(g), ProfilesOK(g), NEW fn \in Names, NEW opened \in BOOLEAN,
           fn = Main => g.function_count < 0 /\ g.stack = <<>>
    PROVE  ProfilesOK(EnterUser(g, fn, opened))
<1> DEFINE z == IF g.level = 0 THEN LevelZero(g, opened) ELSE g
           r == g.do_trace /\ g.trace_context # None
           e == Entered(z, fn, FALSE, r)
<1>1. EnterUser(g, fn, opened) = BeginProfile(e)
  BY DEF EnterUser, Entered
<1>2. r \in BOOLEAN
  BY DEF CallsOK
<1>3. /\ CallsOK(z) /\ ProfilesAt(z, Len(z.stack)) /\ z.stack = g.stack
      /\ fn = Main /\ z.profiler_enabled => z.profiles[z.profile_file].lines = <<>>
  <2>1. CASE g.level = 0
    <3>1. g.stack = <<>> /\ Len(g.stack) = 0
      <4>1. g.stack \in Seq(Frame) /\ Len(g.stack) = 0
        BY <2>1 DEF CallsOK
      <4> QED
        BY <4>1
    <3>2. ProfilesAt(g, 0)
      BY <3>1 DEF ProfilesOK
    <3> DEFINE l == LevelZero(g, opened)
    <3>3. /\ ProfilesAt(l, 0)
          /\ ~g.profiler_enabled /\ l.profiler_enabled => l.profiles[l.profile_file].lines = <<>>
      BY <3>1, <3>2, LevelZeroProfiles
    <3>4. CallsOK(l) /\ l.stack = g.stack
      BY LevelZeroStill DEF Still
    <3>5. fn = Main => ~g.profiler_enabled
      BY DEF ProfilesOK
    <3>6. z = l
      BY <2>1
    <3> HIDE DEF l, z
    <3> QED
      BY <3>1, <3>3, <3>4, <3>5, <3>6
  <2>2. CASE g.level # 0
    <3>1. z = g
      BY <2>2
    <3>2. fn = Main => ~g.profiler_enabled
      BY DEF ProfilesOK
    <3> HIDE DEF z
    <3> QED
      BY <3>1, <3>2 DEF ProfilesOK
  <2> QED
    BY <2>1, <2>2
<1> HIDE DEF z, r
<1>4. CallsOK(e)
  BY <1>2, <1>3, EnteredCalls
<1>5. Only(e, e, {"error_cb"})
  BY <1>4, OnlyNone DEF CallsOK
<1>6. ProfilesOK(BeginProfile(e))
  BY <1>2, <1>3, <1>4, <1>5, EnterProfiles
<1> QED
  BY <1>1, <1>6

\* An internal function begins.
LEMMA BeginInternalProfiles ==
    ASSUME NEW g, CallsOK(g), ProfilesOK(g), NEW fn \in Names, fn # Main
    PROVE  ProfilesOK(BeginInternal(g, fn)) /\ DOMAIN BeginInternal(g, fn) = Fields
<1> DEFINE r == g.do_trace /\ g.trace_context # None
           e == Entered(g, fn, TRUE, r)
           s == IF CheckSoapCall(fn) THEN [e EXCEPT !.error_cb = "engine"] ELSE e
           p == BeginInternal(g, fn)
<1>1. p = BeginProfile(s)
  BY DEF BeginInternal, Entered
<1>2. r \in BOOLEAN
  BY DEF CallsOK
<1> HIDE DEF r, p
<1>3. CallsOK(e)
  BY <1>2, EnteredCalls
<1>4. Only(e, s, {"error_cb"}) /\ s.error_cb \in {"xdebug", "engine"}
  <2>1. DOMAIN e = Fields /\ e.error_cb \in {"xdebug", "engine"}
    BY <1>3 DEF CallsOK
  <2> HIDE DEF e
  <2>2. CASE CheckSoapCall(fn)
    <3>1. s = [e EXCEPT !.error_cb = "engine"]
      BY <2>2
    <3> HIDE DEF s
    <3> QED
      BY <2>1, <3>1 DEF Only, Fields
  <2>3. CASE ~CheckSoapCall(fn)
    <3>1. s = e
      BY <2>3
    <3> HIDE DEF s
    <3> QED
      BY <2>1, <3>1, OnlyNone
  <2> QED
    BY <2>2, <2>3
<1> HIDE DEF s
<1>5. CallsOK(s) /\ s.stack = e.stack
  <2> HIDE DEF e
  <2>1. Only(e, s, Fields \ {"ini", "stack", "level", "function_count"})
    BY <1>4, OnlyMore DEF Fields
  <2>2. /\ s.clock = e.clock /\ s.do_trace = e.do_trace
        /\ s.profiler_enabled = e.profiler_enabled /\ s.gc_stats_enabled = e.gc_stats_enabled
        /\ s.crashed = e.crashed
    BY <1>4 DEF Only, Fields
  <2>3. /\ s.clock \in Int /\ s.do_trace \in BOOLEAN
        /\ s.profiler_enabled \in BOOLEAN /\ s.gc_stats_enabled \in BOOLEAN
        /\ s.crashed \in BOOLEAN
    BY <2>2, <1>3 DEF CallsOK
  <2> QED
    BY <1>3, <1>4, <2>1, <2>3, StillOnly DEF Still
<1>6. ProfilesAt(g, Len(g.stack))
  BY DEF ProfilesOK
<1>7. ProfilesOK(p)
  BY <1>1, <1>2, <1>4, <1>5, <1>6, EnterProfiles
<1>8. DOMAIN p = Fields
  <2>1. DOMAIN s = Fields
    BY <1>5 DEF CallsOK
  <2> QED
    BY <1>1, <2>1, BeginProfileOnly DEF Only
<1> QED
  BY <1>7, <1>8 DEF p

LEMMA EnterInternalProfiles ==
    ASSUME NEW g, CallsOK(g), ProfilesOK(g), NEW fn \in Names, fn # Main
    PROVE  ProfilesOK(EnterInternal(g, fn))
<1> DEFINE p == BeginInternal(g, fn)
           h == EnterInternal(g, fn)
<1>1. h = UpdateSharedCallstack(p)
  BY DEF EnterInternal
<1>2. ProfilesOK(p) /\ DOMAIN p = Fields
  BY BeginInternalProfiles
<1> HIDE DEF p
<1>3. Only(p, h, {"page"})
  BY <1>1, <1>2, UpdateSharedCallstackOnly
<1>4. Only(p, h, Fields \ (ProfileFields \cup {"stack"}))
  BY <1>3, OnlyMore DEF Fields, ProfileFields
<1> QED
  BY <1>2, <1>4, ProfilesSame

\* The line of the call that returns is written before its frame goes.
LEMMA EndProfileProfiles ==
    ASSUME NEW g, CallsOK(g), KindsOK(g), ProfilesOK(g), g.stack # <<>>
    PROVE  ProfilesAt(EndProfile(Tick(g)), Len(g.stack) - 1)
<1> DEFINE t == Tick(g)
           n == Len(g.stack)
<1>1. g.stack \in Seq(Frame) /\ n \in 1..n
  BY DEF CallsOK
<1>2. Still(g, t) /\ t.stack = g.stack /\ Only(g, t, {"clock"})
  BY TickStill
<1> HIDE DEF t
<1>3. CallsOK(t) /\ KindsOK(t)
  <2>1. SameCalls(g.stack, t.stack) /\ t.ini = g.ini /\ CallsOK(t)
    BY <1>2 DEF Still, Only, Fields
  <2> QED
    BY <2>1, KindsSame
<1>4. ProfilesAt(t, n)
  <2>1. Only(g, t, Fields \ (ProfileFields \cup {"stack"}))
    BY <1>2, OnlyMore DEF Fields, ProfileFields
  <2>2. ProfilesOK(t)
    BY <2>1, ProfilesSame
  <2> QED
    BY <2>2, <1>2 DEF ProfilesOK
<1> DEFINE h == EndProfile(t)
<1>5. CASE t.profiler_enabled
  <2>1. h = FunctionEnd(t, n)
    BY <1>2, <1>5 DEF EndProfile
  <2> HIDE DEF h, n
  <2>2. n \in 1..Len(t.stack)
    BY <1>1, <1>2 DEF n
  <2>3. ProfilesAt(h, n - 1)
    BY <2>1, <2>2, <1>3, <1>4, <1>5, FunctionEndAt
  <2> QED
    BY <2>3 DEF h, n, t
<1>6. CASE ~t.profiler_enabled
  <2>1. h = t
    BY <1>6 DEF EndProfile
  <2> HIDE DEF h, n
  <2>2. ProfilesAt(h, n - 1)
    BY <2>1, <1>4, <1>6 DEF ProfilesAt
  <2> QED
    BY <2>2 DEF h, n, t
<1> QED
  BY <1>5, <1>6

LEMMA EndedOK ==
    ASSUME NEW g, CallsOK(g), g.stack # <<>>, ProfilesAt(g, Len(g.stack) - 1), NEW returns
    PROVE  ProfilesOK(Ended(g, returns))
<1> DEFINE h == Ended(g, returns)
           n == Len(g.stack)
<1>1. g.stack \in Seq(Frame) /\ n \in 1..n /\ n - 1 \in Nat
  BY DEF CallsOK
<1>2. /\ CallsOK(h) /\ Popped(g, h) /\ Only(g, h, {"stack", "level", "traces"})
      /\ \A i \in 1..Len(h.stack) : h.stack[i] = g.stack[i]
  BY EndedCalls
<1> HIDE DEF h
<1>3. Len(h.stack) = n - 1 /\ \A i \in 1..n - 1 : h.stack[i] = g.stack[i]
  BY <1>2 DEF Popped
<1>4. MainFirst(h) => MainFirst(g)
  <2> SUFFICES ASSUME MainFirst(h)
               PROVE  MainFirst(g)
    OBVIOUS
  <2>1. h.stack # <<>> /\ h.stack \in Seq(Frame) /\ h.stack[1].fn = Main
    BY <1>2 DEF MainFirst, CallsOK
  <2>2. Len(h.stack) # 0
    BY <2>1
  <2>3. 1 \in 1..n - 1
    <3> HIDE DEF n
    <3> QED
      BY <2>2, <1>1, <1>3
  <2> QED
    BY <2>1, <2>3, <1>3 DEF MainFirst
<1>5. Only(g, h, Fields \ ProfileFields)
  BY <1>2, OnlyMore DEF Fields, ProfileFields
<1>6. ProfilesAt(h, n - 1)
  <2> HIDE DEF n
  <2> QED
    BY <1>3, <1>4, <1>5, AtSame DEF n
<1>7. h.function_count >= 0 /\ h.function_count \in Int
  <2>1. g.stack[n].nr \in 0..g.function_count /\ g.function_count \in Int
    BY <1>1 DEF CallsOK, Ordered
  <2>2. h.function_count = g.function_count
    BY <1>2 DEF Only, Fields
  <2> QED
    BY <2>1, <2>2
<1> QED
  BY <1>3, <1>6, <1>7 DEF ProfilesOK, h

LEMMA LeaveUserProfiles ==
    ASSUME NEW g, CallsOK(g), KindsOK(g), ProfilesOK(g), g.stack # <<>>, NEW returns
    PROVE  ProfilesOK(LeaveUser(g, returns))
<1> DEFINE t == Tick(g)
           m == EndProfile(t)
<1>1. LeaveUser(g, returns) = Ended(m, returns)
  BY DEF LeaveUser, Ended
<1>2. ProfilesAt(m, Len(g.stack) - 1)
  BY EndProfileProfiles
<1>3. CallsOK(t) /\ t.stack = g.stack
  BY TickStill DEF Still
<1> HIDE DEF t
<1>4. CallsOK(m) /\ Len(m.stack) = Len(g.stack)
  BY <1>3, EndProfileStill DEF Still, SameCalls
<1>5. m.stack # <<>>
  BY <1>4 DEF CallsOK
<1> HIDE DEF m
<1>6. ProfilesOK(Ended(m, returns))
  BY <1>2, <1>4, <1>5, EndedOK
<1> QED
  BY <1>1, <1>6

LEMMA LeaveInternalProfiles ==
    ASSUME NEW g, CallsOK(g), KindsOK(g), ProfilesOK(g), g.stack # <<>>, NEW returns
    PROVE  ProfilesOK(LeaveInternal(g, returns))
<1> DEFINE t == Tick(g)
           m == EndProfile(t)
           s == SoapRestored(m)
           e == Ended(s, returns)
           h == LeaveInternal(g, returns)
<1>1. h = PageCleared(e)
  BY DEF LeaveInternal, Ended
<1>2. ProfilesAt(m, Len(g.stack) - 1)
  BY EndProfileProfiles
<1>3. CallsOK(t) /\ t.stack = g.stack
  BY TickStill DEF Still
<1> HIDE DEF t, h
<1>4. CallsOK(m) /\ Len(m.stack) = Len(g.stack)
  BY <1>3, EndProfileStill DEF Still, SameCalls
<1>5. m.stack # <<>>
  BY <1>4 DEF CallsOK
<1> HIDE DEF m
<1>6. CallsOK(s) /\ s.stack = m.stack /\ Only(m, s, {"error_cb"})
  BY <1>4, <1>5, SoapRestoredStill DEF Still
<1> HIDE DEF s
<1>7. ProfilesAt(s, Len(s.stack) - 1)
  <2>1. Only(m, s, Fields \ ProfileFields)
    BY <1>6, OnlyMore DEF Fields, ProfileFields
  <2>2. ProfilesAt(m, Len(s.stack) - 1)
    BY <1>2, <1>4, <1>6
  <2>3. MainFirst(s) => MainFirst(m)
    BY <1>6 DEF MainFirst
  <2> QED
    BY <2>1, <2>2, <2>3, <1>6, AtSame
<1>8. ProfilesOK(e)
  BY <1>5, <1>6, <1>7, EndedOK
<1>9. CallsOK(e)
  BY <1>5, <1>6, EndedCalls
<1> HIDE DEF e
<1>10. /\ CallsOK(h) /\ SameCalls(e.stack, h.stack) /\ Only(e, h, {"page", "dropped", "stack"})
       /\ \A i \in 1..Len(e.stack) : h.stack[i].profile = e.stack[i].profile
  BY <1>1, <1>9, PageClearedCalls
<1>11. ProfilesAt(h, Len(h.stack))
  <2>1. Only(e, h, Fields \ ProfileFields)
    BY <1>10, OnlyMore DEF Fields, ProfileFields
  <2>2. Len(h.stack) = Len(e.stack) /\ h.stack \in Seq(Frame) /\ e.stack \in Seq(Frame)
        /\ \A i \in 1..Len(e.stack) : Alike(e.stack[i], h.stack[i])
    BY <1>10 DEF SameCalls
  <2>3. MainFirst(h) => MainFirst(e)
    <3>1. h.stack # <<>> => e.stack # <<>> /\ 1 \in 1..Len(e.stack)
      BY <2>2
    <3> QED
      BY <3>1, <2>2 DEF MainFirst, Alike
  <2>4. \A j \in 1..Len(e.stack) : /\ h.stack[j].nr = e.stack[j].nr
                                   /\ h.stack[j].profile.taken = e.stack[j].profile.taken
    BY <2>2, <1>10 DEF Alike
  <2>5. ProfilesAt(e, Len(e.stack))
    BY <1>8 DEF ProfilesOK
  <2> QED
    BY <2>1, <2>2, <2>3, <2>4, <2>5, AtSame
<1>12. h.function_count = e.function_count /\ h.profiler_enabled = e.profiler_enabled
  BY <1>10 DEF Only, Fields
<1> QED
  BY <1>8, <1>11, <1>12 DEF ProfilesOK, h

\* xdebug_profiler_deinit ends the calls of the stack from the innermost on.
LEMMA ProfilerDeinitProfiles ==
    ASSUME NEW g, CallsOK(g), KindsOK(g), ProfilesOK(g), g.profiler_enabled
    PROVE  ProfilesOK(ProfilerDeinit(g))
<1> DEFINE n == Len(g.stack)
<1>1. n \in Nat /\ DOMAIN g = Fields
  BY DEF CallsOK
<1>2. PICK f : /\ f[0] = g /\ ProfilerDeinit(g) = f[n]
               /\ \A i \in 1..n : f[i] = FunctionEnd(f[i - 1], n + 1 - i)
  BY <1>1, ProfilerDeinitIs
<1> DEFINE P(i) == /\ Still(g, f[i]) /\ f[i].ini = g.ini
                   /\ f[i].function_count = g.function_count
                   /\ ProfilesAt(f[i], n - i) /\ (i < n => f[i].profiler_enabled)
<1> DEFINE S == {i \in 0..n : P(i)}
<1>3. 0 \in S
  <2>1. Still(g, g)
    BY StillRefl
  <2>2. ProfilesAt(g, n - 0)
    <3>1. ProfilesAt(g, n)
      BY DEF ProfilesOK
    <3>2. n - 0 = n
      BY <1>1
    <3> HIDE DEF n
    <3> QED
      BY <3>1, <3>2
  <2> HIDE DEF n
  <2> QED
    BY <2>1, <2>2, <1>1, <1>2
<1>4. ASSUME NEW i \in 1..n, i - 1 \in S
      PROVE  i \in S
  <2> DEFINE p == f[i - 1]
  <2> DEFINE m == n + 1 - i
  <2> DEFINE h == FunctionEnd(p, m)
  <2>1. /\ Still(g, p) /\ p.ini = g.ini /\ p.function_count = g.function_count
        /\ ProfilesAt(p, n - (i - 1)) /\ (i - 1 < n => p.profiler_enabled)
    BY <1>4
  <2>2. f[i] = h
    BY <1>2
  <2>3. m \in 1..n /\ n - (i - 1) = m /\ m - 1 = n - i /\ i - 1 < n /\ (i < n => m > 1)
    BY <1>1
  <2> HIDE DEF p, h, m, n, P
  <2>4. CallsOK(p) /\ Len(p.stack) = n /\ SameCalls(g.stack, p.stack) /\ DOMAIN p = Fields
    BY <2>1 DEF Still, SameCalls, CallsOK, n
  <2>5. KindsOK(p)
    BY <2>1, <2>4, KindsSame
  <2>6. ProfilesAt(p, m) /\ p.profiler_enabled
    BY <2>1, <2>3
  <2>7. ProfilesAt(h, m - 1) /\ (m > 1 => h.profiler_enabled)
    BY <2>3, <2>4, <2>5, <2>6, FunctionEndAt DEF h
  <2>8. Still(p, h)
    BY <2>3, <2>4, FunctionEndStill DEF h
  <2>9. Still(g, h)
    BY <2>1, <2>8, StillTrans
  <2>10. h.ini = p.ini /\ h.function_count = p.function_count
    <3>1. Only(p, h, {"stack", "profiler_enabled", "profiles"})
      BY <2>4, FunctionEndOnly DEF h
    <3> QED
      BY <3>1 DEF Only, Fields
  <2>11. P(i)
    BY <2>1, <2>2, <2>3, <2>7, <2>9, <2>10 DEF P
  <2>12. i \in 0..n
    BY <1>1
  <2> QED
    BY <2>11, <2>12
<1>5. \A i \in 0..n : i \in S
  <2> HIDE DEF S, n
  <2> QED
    BY <1>1, <1>3, <1>4, UpTo
<1>6. P(n)
  BY <1>1, <1>5
<1> DEFINE h == f[n]
<1>7. Still(g, h) /\ h.function_count = g.function_count /\ ProfilesAt(h, 0)
  <2>1. n - n = 0
    BY <1>1
  <2> HIDE DEF n
  <2> QED
    BY <2>1, <1>6
<1> HIDE DEF h
<1>8. ~(h.profiler_enabled /\ MainFirst(h))
  BY <1>7 DEF ProfilesAt
<1>9. ProfilesAt(h, Len(h.stack))
  BY <1>7, <1>8 DEF ProfilesAt
<1>10. ~(h.function_count < 0)
  BY <1>7 DEF ProfilesOK
<1> QED
  BY <1>2, <1>9, <1>10 DEF ProfilesOK, h

\* What any other internal function does leaves the profile and the stack alone.
Unprofiled == Fields \ (ProfileFields \cup {"stack"})

LEMMA StartTraceFunctionOnly ==
    ASSUME NEW g, CallsOK(g), NEW options, NEW opened \in BOOLEAN
    PROVE  Only(g, StartTraceFunction(g, options, opened), Unprofiled)
<1> DEFINE s == StartTrace(g, options, opened)
           h == StartTraceFunction(g, options, opened)
<1> SUFFICES Only(g, h, Unprofiled)
  OBVIOUS
<1>1. DOMAIN g = Fields
  BY DEF CallsOK
<1>2. CASE g.do_trace
  <2>1. h = g
    BY <1>2 DEF StartTraceFunction
  <2> HIDE DEF h
  <2> QED
    BY <2>1, <1>1, OnlyNone
<1>3. CASE ~g.do_trace
  <2>1. h = [s EXCEPT !.do_trace = opened]
    BY <1>3 DEF StartTraceFunction
  <2>2. Only(g, s, {"trace_handler", "do_trace", "traces", "trace_context"})
    BY <1>1, StartTraceOnly
  <2> HIDE DEF s, h
  <2>3. Only(g, s, Unprofiled)
    BY <2>2, OnlyMore DEF Fields, ProfileFields, Unprofiled
  <2>4. Only(g, h, Unprofiled)
    BY <1>1, <2>1, <2>3 DEF Only, Fields, ProfileFields, Unprofiled
  <2> QED
    BY <2>4
<1> QED
  BY <1>2, <1>3

LEMMA TraceStopOnly ==
    ASSUME NEW g, CallsOK(g), NEW h, h = StopTraceFunction(g) \/ h = GetTracefileName(g)
    PROVE  Only(g, h, Unprofiled)
<1>1. DOMAIN g = Fields
  BY DEF CallsOK
<1>2. h = g \/ h = [g EXCEPT !.crashed = TRUE] \/ h = StopTrace(g)
  BY DEF StopTraceFunction, GetTracefileName
<1>3. CASE h = g
  BY <1>1, <1>3, OnlyNone
<1>4. CASE h = [g EXCEPT !.crashed = TRUE]
  BY <1>1, <1>4 DEF Only, Fields, ProfileFields, Unprofiled
<1>5. CASE h = StopTrace(g)
  <2>1. Only(g, h, {"do_trace", "traces", "trace_context"})
    BY <1>1, <1>5, StopTraceOnly
  <2> QED
    BY <2>1, OnlyMore DEF Fields, ProfileFields, Unprofiled
<1> QED
  BY <1>2, <1>3, <1>4, <1>5

LEMMA ChooseOnly ==
    ASSUME NEW g, CallsOK(g), NEW cb
    PROVE  Only(g, Choose(g, cb), Unprofiled)
<1> DEFINE s == SetErrorCb(g, cb)
           h == Choose(g, cb)
<1> SUFFICES Only(g, h, Unprofiled)
  OBVIOUS
<1>1. DOMAIN g = Fields
  BY DEF CallsOK
<1>2. Only(g, h, {"error_cb", "chosen", "enabled", "lost"})
  BY <1>1 DEF Choose, SetErrorCb, Only, Fields
<1> HIDE DEF h
<1> QED
  BY <1>2, OnlyMore DEF Fields, ProfileFields, Unprofiled

LEMMA UnprofiledOK ==
    ASSUME NEW g, NEW h, ProfilesOK(g), Only(g, h, Unprofiled)
    PROVE  ProfilesOK(h)
BY ProfilesSame DEF Unprofiled

LEMMA OutcomesProfiles ==
    ASSUME NEW g, CallsOK(g), KindsOK(g), ProfilesOK(g), NEW fn, NEW h \in Outcomes(g, fn)
    PROVE  ProfilesOK(h)
<1>1. CASE fn = "xdebug_start_trace"
  <2>1. PICK o \in {{}, {"html"}, {"computerized"}}, opened \in BOOLEAN :
           h = StartTraceFunction(g, o, opened)
    BY <1>1 DEF Outcomes
  <2> QED
    BY <2>1, StartTraceFunctionOnly, UnprofiledOK
<1>2. CASE fn \in {"xdebug_stop_trace", "xdebug_get_tracefile_name"}
  <2>1. h = StopTraceFunction(g) \/ h = GetTracefileName(g)
    BY <1>2 DEF Outcomes
  <2> QED
    BY <2>1, TraceStopOnly, UnprofiledOK
<1>3. CASE fn = "pcntl_exec"
  <2>1. h = IF g.profiler_enabled THEN ProfilerDeinit(g) ELSE g
    BY <1>3 DEF Outcomes
  <2> QED
    BY <2>1, ProfilerDeinitProfiles
<1>4. CASE fn \in {"xdebug_enable", "xdebug_disable"}
  <2>1. h = Choose(g, "xdebug") \/ h = Choose(g, "engine")
    BY <1>4 DEF Outcomes
  <2> QED
    BY <2>1, ChooseOnly, UnprofiledOK
<1>5. CASE fn \in {"xdebug_set_filter",
                   "xdebug_error_collection", "xdebug_get_collected_errors",
                   "xdebug_start_function_monitor", "xdebug_stop_function_monitor",
                   "xdebug_get_monitored_functions", "xdebug_start_gcstats",
                   "xdebug_stop_gcstats"}
  <2>1. \/ \E on \in BOOLEAN : h = CollectErrors(g, on)
        \/ \E c \in BOOLEAN : h = GetCollectedErrors(g, c)
        \/ \E names : h = StartFunctionMonitor(g, names)
        \/ h = StopFunctionMonitor(g)
        \/ \E c \in BOOLEAN : h = GetMonitoredFunctions(g, c)
        \/ \E opened \in BOOLEAN : h = StartGcStats(g, opened)
        \/ h = StopGcStats(g)
        \/ \E t : h = [g EXCEPT !.filter_tracing = t]
    BY <1>5 DEF Outcomes
  <2>2. Only(g, h, Aside)
    BY <2>1, NotesOnly
  <2>3. Only(g, h, Unprofiled)
    BY <2>2, OnlyMore DEF Aside, Fields, ProfileFields, Unprofiled
  <2> QED
    BY <2>3, UnprofiledOK
<1>6. CASE fn \notin {"xdebug_start_trace", "xdebug_stop_trace", "xdebug_get_tracefile_name",
                      "xdebug_set_filter", "pcntl_exec", "xdebug_enable", "xdebug_disable",
                      "xdebug_error_collection", "xdebug_get_collected_errors",
                      "xdebug_start_function_monitor", "xdebug_stop_function_monitor",
                      "xdebug_get_monitored_functions", "xdebug_start_gcstats",
                      "xdebug_stop_gcstats"}
  <2>1. h = g
    BY <1>6 DEF Outcomes
  <2> QED
    BY <2>1
<1> QED
  BY <1>1, <1>2, <1>3, <1>4, <1>5, <1>6

\* So do an error, a collection, the time, and a bailout.
LEMMA ErrorCbProfiles ==
    ASSUME NEW g, CallsOK(g), ProfilesOK(g), NEW type
    PROVE  ProfilesOK(ErrorCb(g, type))
<1> DEFINE h == ErrorCb(g, type)
<1>1. Only(g, h, {"collected_errors"})
  BY ErrorCbOnly DEF CallsOK
<1> HIDE DEF h
<1>2. Only(g, h, Unprofiled)
  BY <1>1, OnlyMore DEF Fields, ProfileFields, Unprofiled
<1> QED
  BY <1>2, UnprofiledOK DEF h

LEMMA CollectedProfiles ==
    ASSUME NEW g, CallsOK(g), ProfilesOK(g)
    PROVE  ProfilesOK(Collected(g))
<1> DEFINE h == Collected(g)
<1>1. DOMAIN g = Fields
  BY DEF CallsOK
<1>2. h = g \/ h = [g EXCEPT !.gc_reports[g.gc_stats_file] = @ + 1]
  BY DEF Collected, PrintRun
<1> HIDE DEF h
<1>3. Only(g, h, Unprofiled)
  <2>1. CASE h = g
    BY <1>1, <2>1, OnlyNone
  <2>2. CASE h = [g EXCEPT !.gc_reports[g.gc_stats_file] = @ + 1]
    BY <1>1, <2>2 DEF Only, Fields, ProfileFields, Unprofiled
  <2> QED
    BY <1>2, <2>1, <2>2
<1> QED
  BY <1>3, UnprofiledOK DEF h

LEMMA TickProfiles ==
    ASSUME NEW g, CallsOK(g), ProfilesOK(g)
    PROVE  ProfilesOK(Tick(g))
<1> DEFINE h == Tick(g)
<1>1. Only(g, h, {"clock"})
  BY TickOnly DEF CallsOK
<1> HIDE DEF h
<1>2. Only(g, h, Unprofiled)
  BY <1>1, OnlyMore DEF Fields, ProfileFields, Unprofiled
<1> QED
  BY <1>2, UnprofiledOK DEF h

LEMMA DropProfiles ==
    ASSUME NEW g, CallsOK(g), ProfilesOK(g), Drop(g)
    PROVE  ProfilesOK(xg')
<1> DEFINE inner == {i \in base + 1..Len(g.stack) : g.stack[i].internal /\ PageFrame(g, i) # 0}
           lost == g.lost \/ InSoapCall(g)
           dropped == g.dropped \cup {g.stack[PageFrame(g, i)].fn : i \in inner}
<1>1. xg' = [g EXCEPT !.lost = lost, !.dropped = dropped]
  BY DEF Drop
<1>2. DOMAIN g = Fields
  BY DEF CallsOK
<1> HIDE DEF lost, dropped
<1>3. Only(g, xg', Unprofiled)
  BY <1>1, <1>2 DEF Only, Fields, ProfileFields, Unprofiled
<1> QED
  BY <1>3, UnprofiledOK

\* The start of a request forgets the profiles, its end keeps what they say.
LEMMA NoProfileOn ==
    ASSUME NEW h, h.profiles \in Seq(Profile), ~h.profiler_enabled,
           \A i \in 1..Len(h.profiles) : Adds(h.profiles[i])
    PROVE  ProfilesOK(h)
BY DEF ProfilesOK, ProfilesAt

LEMMA RInitProfiles ==
    ASSUME NEW g, CallsOK(g), NEW soap \in BOOLEAN
    PROVE  ProfilesOK(RInit(g, soap))
<1> DEFINE f == Fresh(g)
           s == SetErrorCb(f, "xdebug")
           h == RInit(g, soap)
<1>1. DOMAIN g = Fields
  BY DEF CallsOK
<1>2. DOMAIN f = Fields /\ f.profiles = <<>> /\ f.profiler_enabled = FALSE
  BY <1>1 DEF Fresh, Fields
<1>3. h = [s EXCEPT !.lost = FALSE] \/ h = f
  BY DEF RInit
<1> HIDE DEF f, h
<1>4. DOMAIN s = Fields /\ s.profiles = <<>> /\ s.profiler_enabled = FALSE
  BY <1>2 DEF SetErrorCb, Fields
<1> HIDE DEF s
<1>5. h.profiles = <<>> /\ h.profiler_enabled = FALSE
  BY <1>2, <1>3, <1>4 DEF Fields
<1>6. h.profiles \in Seq(Profile) /\ Len(h.profiles) = 0
  BY <1>5
<1>7. \A i \in 1..Len(h.profiles) : Adds(h.profiles[i])
  BY <1>6
<1>8. ProfilesOK(h)
  BY <1>5, <1>6, <1>7, NoProfileOn
<1> QED
  BY <1>8 DEF h

LEMMA PostDeactivateProfiles ==
    ASSUME NEW g, CallsOK(g), ProfilesOK(g)
    PROVE  ProfilesOK(PostDeactivate(g))
<1> DEFINE t == IF g.do_trace /\ g.trace_context # None THEN StopTrace(g) ELSE g
           c == IF t.gc_stats_enabled THEN StopGcStats(t) ELSE t
           h == PostDeactivate(g)
<1>1. DOMAIN g = Fields
  BY DEF CallsOK
<1>2. h = [c EXCEPT !.stack = <<>>, !.level = 0, !.do_trace = FALSE,
                    !.profile_file = 0, !.profiler_enabled = FALSE]
  BY DEF PostDeactivate
<1> HIDE DEF h
<1>3. Only(g, t, {"do_trace", "traces", "trace_context"})
  <2>1. t = StopTrace(g) \/ t = g
    OBVIOUS
  <2> HIDE DEF t
  <2> QED
    BY <2>1, <1>1, StopTraceOnly, OnlyNone
<1>4. DOMAIN t = Fields /\ t.profiles = g.profiles
  BY <1>3 DEF Only, Fields
<1> HIDE DEF t
<1>5. Only(t, c, {"gc_stats_file", "gc_stats_enabled"})
  <2>1. c = StopGcStats(t) \/ c = t
    OBVIOUS
  <2> HIDE DEF c
  <2> QED
    BY <2>1, <1>4, StopGcStatsOnly, OnlyNone
<1>6. DOMAIN c = Fields /\ c.profiles = g.profiles
  BY <1>4, <1>5 DEF Only, Fields
<1> HIDE DEF c
<1>7. h.profiles = g.profiles /\ h.profiler_enabled = FALSE
  BY <1>2, <1>6 DEF Fields
<1> QED
  BY <1>7, NoProfileOn DEF h, ProfilesOK, ProfilesAt

LEMMA GlobalsProfiles ==
    ASSUME NEW app
    PROVE  ProfilesOK(Globals(app))
<1> DEFINE g == Globals(app)
<1>1. g.profiles = <<>> /\ g.profiler_enabled = FALSE
  BY DEF Globals
<1> HIDE DEF g
<1>2. g.profiles \in Seq(Profile) /\ Len(g.profiles) = 0
  BY <1>1
<1>3. \A i \in 1..Len(g.profiles) : Adds(g.profiles[i])
  BY <1>2
<1>4. ProfilesOK(g)
  BY <1>1, <1>2, <1>3, NoProfileOn
<1> QED
  BY <1>4 DEF g

\* The steps, each in a state where the invariant of the hooks holds.
LEMMA StackOf ==
    ASSUME HooksInv
    PROVE  /\ CallsOK(xg) /\ KindsOK(xg)
           /\ Running => xg.stack # <<>>
BY DEF HooksInv, StateOK, CallsOK, Running

LEMMA EnterInternalStep ==
    ASSUME HooksInv, ProfilesOK(xg), MayCall(TRUE),
           NEW fn \in xg.ini.internals \cup {"trigger_error"}
    PROVE  LET e == EnterInternal(xg, fn)
           IN  CallsOK(e) /\ KindsOK(e) /\ ProfilesOK(e) /\ e.stack # <<>>
<1> DEFINE e == EnterInternal(xg, fn)
<1> SUFFICES CallsOK(e) /\ KindsOK(e) /\ ProfilesOK(e) /\ e.stack # <<>>
  OBVIOUS
<1>1. CallsOK(xg)
  BY StackOf
<1>2. fn \in Names
  BY <1>1, FnNames
<1>3. fn # Main
  BY <1>1, HooksAssumption DEF CallsOK
<1>4. ProfilesOK(e)
  BY <1>1, <1>2, <1>3, EnterInternalProfiles
<1>5. /\ StateOK(e, base) /\ KindsOK(e) /\ base < Len(e.stack)
  BY EnterInternalInv
<1> HIDE DEF e
<1>6. CallsOK(e) /\ e.stack # <<>>
  BY <1>5 DEF StateOK
<1> QED
  BY <1>4, <1>5, <1>6

LEMMA RunScriptProfiles ==
    ASSUME HooksInv, ProfilesOK(xg), RunScript
    PROVE  ProfilesOK(xg')
<1>1. PICK opened \in BOOLEAN : xg' = EnterUser(xg, Main, opened)
  BY DEF RunScript
<1>2. CallsOK(xg) /\ xg.function_count < 0
  BY StackOf DEF RunScript
<1>3. xg.stack = <<>>
  BY <1>2, NoCallsYet
<1>4. Main \in Names
  BY DEF Names
<1> QED
  BY <1>1, <1>2, <1>3, <1>4, EnterUserProfiles

LEMMA CallUserProfiles ==
    ASSUME HooksInv, ProfilesOK(xg), CallUser
    PROVE  ProfilesOK(xg')
<1>1. PICK fn \in xg.ini.users, opened \in BOOLEAN : xg' = EnterUser(xg, fn, opened)
  BY DEF CallUser
<1>2. CallsOK(xg)
  BY StackOf
<1>3. fn # Main
  BY <1>2, HooksAssumption DEF CallsOK
<1>4. fn \in Names
  BY <1>2, FnNames
<1> QED
  BY <1>1, <1>2, <1>3, <1>4, EnterUserProfiles

LEMMA ReturnUserProfiles ==
    ASSUME HooksInv, ProfilesOK(xg), ReturnUser
    PROVE  ProfilesOK(xg')
<1>1. PICK returns \in BOOLEAN : xg' = LeaveUser(xg, returns)
  BY DEF ReturnUser
<1>2. CallsOK(xg) /\ KindsOK(xg) /\ xg.stack # <<>>
  BY StackOf DEF ReturnUser
<1> QED
  BY <1>1, <1>2, LeaveUserProfiles

LEMMA CallInternalProfiles ==
    ASSUME HooksInv, ProfilesOK(xg), CallInternal
    PROVE  ProfilesOK(xg')
<1>1. PICK fn \in xg.ini.internals \ Callers, returns \in BOOLEAN :
         \E g \in Outcomes(EnterInternal(xg, fn), fn) :
            xg' = IF g.crashed THEN g ELSE LeaveInternal(g, returns)
  BY DEF CallInternal
<1>2. PICK g \in Outcomes(EnterInternal(xg, fn), fn) :
         xg' = IF g.crashed THEN g ELSE LeaveInternal(g, returns)
  BY <1>1
<1>3. MayCall(TRUE)
  BY DEF CallInternal
<1> DEFINE e == EnterInternal(xg, fn)
<1>4. CallsOK(e) /\ KindsOK(e) /\ ProfilesOK(e) /\ e.stack # <<>>
  BY <1>3, EnterInternalStep
<1>5. StateOK(e, base)
  BY <1>3, EnterInternalInv
<1>6. Did(e, g, base)
  BY <1>5, OutcomesDid
<1>7. ProfilesOK(g)
  BY <1>4, OutcomesProfiles
<1> HIDE DEF e
<1>8. CallsOK(g) /\ SameCalls(e.stack, g.stack) /\ g.ini = e.ini
  BY <1>6 DEF Did, StateOK
<1>9. KindsOK(g)
  BY <1>4, <1>8, KindsSame
<1>10. g.stack # <<>>
  BY <1>4, <1>8 DEF SameCalls, CallsOK
<1>11. ProfilesOK(LeaveInternal(g, returns))
  BY <1>7, <1>8, <1>9, <1>10, LeaveInternalProfiles
<1> QED
  BY <1>2, <1>7, <1>11

LEMMA CallCallerProfiles ==
    ASSUME HooksInv, ProfilesOK(xg), CallCaller
    PROVE  ProfilesOK(xg')
<1>1. PICK fn \in xg.ini.internals \cap Callers : xg' = EnterInternal(xg, fn)
  BY DEF CallCaller
<1>2. MayCall(TRUE)
  BY DEF CallCaller
<1> QED
  BY <1>1, <1>2, EnterInternalStep

LEMMA ReturnCallerProfiles ==
    ASSUME HooksInv, ProfilesOK(xg), ReturnCaller
    PROVE  ProfilesOK(xg')
<1> DEFINE g == Collected(xg)
<1>1. PICK returns \in BOOLEAN : xg' = IF g.crashed THEN g ELSE LeaveInternal(g, returns)
  BY DEF ReturnCaller
<1>2. CallsOK(xg) /\ KindsOK(xg) /\ xg.stack # <<>> /\ StateOK(xg, base)
  BY StackOf DEF ReturnCaller, HooksInv
<1>3. ProfilesOK(g)
  BY <1>2, CollectedProfiles
<1>4. StateOK(g, base) /\ g.stack = xg.stack /\ g.ini = xg.ini
  BY <1>2, CollectedOK
<1> HIDE DEF g
<1>5. CallsOK(g) /\ KindsOK(g) /\ g.stack # <<>>
  BY <1>2, <1>4 DEF StateOK, KindsOK
<1>6. ProfilesOK(LeaveInternal(g, returns))
  BY <1>3, <1>5, LeaveInternalProfiles
<1> QED
  BY <1>1, <1>3, <1>6

LEMMA ExitProfiles ==
    ASSUME HooksInv, ProfilesOK(xg), Exit
    PROVE  ProfilesOK(xg')
<1> DEFINE t == Tick(xg)
           g == ExitHandler(t)
<1>1. Running /\ Bailout(g)
  BY DEF Exit
<1>2. CallsOK(xg) /\ KindsOK(xg)
  BY StackOf
<1>3. ProfilesOK(t) /\ CallsOK(t) /\ t.stack = xg.stack /\ Only(xg, t, {"clock"})
  BY <1>2, TickProfiles, TickStill DEF Still
<1> HIDE DEF t
<1>4. KindsOK(t)
  BY <1>2, <1>3 DEF KindsOK, Only, Fields
<1>5. ProfilesOK(g) /\ CallsOK(g)
  <2>1. CASE t.profiler_enabled
    <3>1. g = ProfilerDeinit(t)
      BY <2>1 DEF ExitHandler
    <3> HIDE DEF g
    <3> QED
      BY <3>1, <2>1, <1>3, <1>4, ProfilerDeinitProfiles, ProfilerDeinitStill DEF Still
  <2>2. CASE ~t.profiler_enabled
    <3>1. g = t
      BY <2>2 DEF ExitHandler
    <3> HIDE DEF g
    <3> QED
      BY <3>1, <1>3
  <2> QED
    BY <2>1, <2>2
<1> QED
  BY <1>1, <1>5, DropProfiles DEF Bailout

LEMMA RaiseErrorProfiles ==
    ASSUME HooksInv, ProfilesOK(xg), RaiseError
    PROVE  ProfilesOK(xg')
<1> DEFINE e == EnterInternal(xg, "trigger_error")
<1>1. PICK type \in xg.ini.errors :
         LET g == ErrorCb(e, type)
         IN  IF Bails(g, type) THEN Bailout(g)
             ELSE /\ xg' = LeaveInternal(g, TRUE)
                  /\ UNCHANGED <<phase, request, soapHeader, base>>
  BY DEF RaiseError
<1>2. MayCall(TRUE)
  BY DEF RaiseError
<1>3. CallsOK(e) /\ KindsOK(e) /\ ProfilesOK(e) /\ e.stack # <<>>
  BY <1>2, EnterInternalStep
<1>4. StateOK(e, base)
  BY <1>2, EnterInternalInv
<1> HIDE DEF e
<1> DEFINE g == ErrorCb(e, type)
<1>5. StateOK(g, base) /\ g.stack = e.stack /\ g.ini = e.ini
  BY <1>4, ErrorCbOK
<1>6. ProfilesOK(g)
  BY <1>3, ErrorCbProfiles
<1>7. Bailout(g) \/ xg' = LeaveInternal(g, TRUE)
  BY <1>1
<1> HIDE DEF g
<1>8. CallsOK(g) /\ KindsOK(g) /\ g.stack # <<>>
  BY <1>3, <1>5 DEF KindsOK, StateOK
<1> QED
  BY <1>6, <1>7, <1>8, DropProfiles, LeaveInternalProfiles DEF Bailout

LEMMA LineOverrunsProfiles ==
    ASSUME HooksInv, ProfilesOK(xg), LineOverruns
    PROVE  ProfilesOK(xg')
<1>1. PICK fn \in Internals(xg.ini) : Drop(BeginInternal(xg, fn))
  BY DEF LineOverruns
<1>2. StateOK(xg, base) /\ CallsOK(xg)
  BY DEF HooksInv, StateOK
<1>3. fn \in Names /\ fn # Main
  BY <1>2, FnNames, HooksAssumption DEF CallsOK, Internals
<1> DEFINE g == BeginInternal(xg, fn)
<1>4. CallsOK(g)
  BY <1>2, <1>3, BeginInternalOK DEF BegunOK
<1>5. ProfilesOK(g)
  BY <1>2, <1>3, BeginInternalProfiles
<1>6. Drop(g)
  BY <1>1
<1> HIDE DEF g
<1> QED
  BY <1>4, <1>5, <1>6, DropProfiles

LEMMA NextProfiles ==
    ASSUME HooksInv, ProfilesOK(xg), [Next]_vars
    PROVE  ProfilesOK(xg')
<1>1. CASE StartRequest
  <2>1. xg' = RInit(xg, soapHeader') /\ soapHeader' \in BOOLEAN
    BY <1>1 DEF StartRequest
  <2> QED
    BY <2>1, StackOf, RInitProfiles
<1>2. CASE RunScript
  BY <1>2, RunScriptProfiles
<1>3. CASE CallUser
  BY <1>3, CallUserProfiles
<1>4. CASE ReturnUser
  BY <1>4, ReturnUserProfiles
<1>5. CASE CallInternal
  BY <1>5, CallInternalProfiles
<1>6. CASE CallCaller
  BY <1>6, CallCallerProfiles
<1>7. CASE ReturnCaller
  BY <1>7, ReturnCallerProfiles
<1>8. CASE Exit
  BY <1>8, ExitProfiles
<1>9. CASE RaiseError
  BY <1>9, RaiseErrorProfiles
<1>10. CASE EndRequest
  <2>1. xg' = PostDeactivate(xg)
    BY <1>10 DEF EndRequest
  <2> QED
    BY <2>1, StackOf, PostDeactivateProfiles
<1>11. CASE LineOverruns
  BY <1>11, LineOverrunsProfiles
<1>12. CASE UNCHANGED vars
  <2>1. xg' = xg
    BY <1>12 DEF vars
  <2> QED
    BY <2>1
<1> QED
  BY <1>1, <1>2, <1>3, <1>4, <1>5, <1>6, <1>7, <1>8, <1>9, <1>10, <1>11, <1>12 DEF Next

\* A profile that has its summary adds up: the own costs of its calls sum to
\* the cost of the script and no call has ended twice, however the script ended
\* (xdebug_profiler_function_user_end, xdebug_profiler_deinit).
THEOREM ProfilesAdd == Spec => []ProfileAdds
<1>1. Init => ProfilesOK(xg)
  BY GlobalsProfiles DEF Init
<1>2. HooksInv /\ ProfilesOK(xg) /\ [Next]_vars => ProfilesOK(xg')
  BY NextProfiles
<1>3. ProfilesOK(xg) => ProfileAdds
  <2> SUFFICES ASSUME ProfilesOK(xg)
               PROVE  ProfileAdds
    OBVIOUS
  <2>1. /\ xg.profiles \in Seq(Profile)
        /\ \A i \in 1..Len(xg.profiles) : Adds(xg.profiles[i])
    BY DEF ProfilesOK, ProfilesAt
  <2>2. DOMAIN xg.profiles = 1..Len(xg.profiles)
    BY <2>1
  <2> SUFFICES ASSUME NEW i \in DOMAIN xg.profiles, xg.profiles[i].summary # Unset
               PROVE  /\ Spent(xg.profiles[i].lines) = xg.profiles[i].summary
                      /\ \A k, l \in DOMAIN xg.profiles[i].lines :
                            xg.profiles[i].lines[k].nr = xg.profiles[i].lines[l].nr => k = l
    BY DEF ProfileAdds
  <2>3. xg.profiles[i] \in Profile /\ Adds(xg.profiles[i])
    BY <2>1, <2>2
  <2>4. xg.profiles[i].lines \in Seq(CostLine)
    BY <2>3 DEF Profile
  <2>5. DOMAIN xg.profiles[i].lines = 1..Len(xg.profiles[i].lines)
    BY <2>4
  <2> QED
    BY <2>3, <2>5 DEF Adds
<1>4. ProfilesOK(xg)' <=> ProfilesOK(xg')
  BY DEF ProfilesOK, ProfilesAt, MainFirst
<1> QED
  BY <1>1, <1>2, <1>3, <1>4, HooksInvariant, PTL DEF Spec
=============================================================================
