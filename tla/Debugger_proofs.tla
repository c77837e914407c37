--------------------------- MODULE Debugger_proofs ---------------------------
(***************************************************************************)
(* Proofs about a debugging session, for every script, every IDE and every *)
(* order of statements, calls, errors, commands and lost connections.      *)
(***************************************************************************)
EXTENDS Debugger, FiniteSetTheorems, SequenceTheorems, WellFoundedInduction, TLAPS

Fields == {"ini", "stack", "function_count", "statements", "todo", "remote_enabled", "status",
           "lasttransid", "freed", "do_break", "do_step", "do_next", "do_finish", "next_level",
           "finish_level", "finish_func_nr", "breakpoint_count", "crashed", "commands",
           "sessions", "sockets", "connected", "detached", "early", "step", "options", "active",
           "answer", "seen", "breakpoint_list", "line_breakpoints", "function_breakpoints",
           "exception_breakpoints", "shared"}

\* h differs from g in these fields only.
Only(g, h, fields) ==
    DOMAIN g = Fields /\ DOMAIN h = Fields /\ \A f \in Fields \ fields : h[f] = g[f]

LEMMA OnlyNone == ASSUME NEW g, DOMAIN g = Fields, NEW fields PROVE Only(g, g, fields)
BY DEF Only

LEMMA OnlyMore ==
    ASSUME NEW g, NEW h, NEW S, NEW T, Only(g, h, S), S \subseteq T
    PROVE  Only(g, h, T)
BY DEF Only

LEMMA OnlyThen ==
    ASSUME NEW g, NEW h, NEW k, NEW S, Only(g, h, S), Only(h, k, S)
    PROVE  Only(g, k, S)
BY DEF Only

-----------------------------------------------------------------------------
(* Which globals an operation may change *)

LEMMA GlobalsFields == ASSUME NEW app PROVE DOMAIN Globals(app) = Fields
BY SMTT(60) DEF Globals, Fields

LEMMA BeginOnly ==
    ASSUME NEW g, DOMAIN g = Fields, NEW items
    PROVE  Only(g, Begin(g, items), {"todo"}) /\ Begin(g, items).todo = items \o g.todo
BY DEF Only, Begin, Fields

LEMMA DoneOnly ==
    ASSUME NEW g, DOMAIN g = Fields
    PROVE  Only(g, Done(g), {"todo"}) /\ Done(g).todo = Tail(g.todo)
BY DEF Only, Done, Fields

LEMMA RespondOnly ==
    ASSUME NEW g, DOMAIN g = Fields, NEW t
    PROVE  Only(g, Respond(g, t), {"commands"})
BY DEF Only, Respond, Fields

LEMMA LeaveLoopOnly ==
    ASSUME NEW g, DOMAIN g = Fields
    PROVE  Only(g, LeaveLoop(g), {"todo"})
BY DEF Only, LeaveLoop, Done, Fields

\* What a session starts with, apart from the breakpoints.
Connecting == {"status", "lasttransid", "remote_enabled", "freed", "sessions", "sockets",
               "connected", "detached", "early", "step", "options", "answer", "seen", "todo"}
Placed     == {"breakpoint_list", "line_breakpoints", "function_breakpoints",
               "exception_breakpoints", "shared"}

LEMMA NoBreakpointsOnly ==
    ASSUME NEW g, DOMAIN g = Fields
    PROVE  /\ Only(g, NoBreakpoints(g), Placed)
           /\ LET h == NoBreakpoints(g)
              IN  /\ h.breakpoint_list = <<>> /\ h.line_breakpoints = <<>>
                  /\ h.function_breakpoints = <<>> /\ h.exception_breakpoints = <<>>
                  /\ h.shared = {}
BY DEF Only, NoBreakpoints, Placed, Fields

LEMMA DbgpInitOnly ==
    ASSUME NEW g, DOMAIN g = Fields
    PROVE  /\ Only(NoBreakpoints(g), DbgpInit(g), Connecting)
           /\ LET h == DbgpInit(g)
              IN  /\ h.status = "starting" /\ h.lasttransid = 0 /\ h.remote_enabled = FALSE
                  /\ h.freed = FALSE /\ h.sessions = g.sessions + 1
                  /\ h.sockets = g.sockets \cup {g.sessions + 1} /\ h.connected = TRUE
                  /\ h.detached = FALSE /\ h.early = FALSE /\ h.step = NoStep
                  /\ h.options = Options /\ h.answer = NoAnswer /\ h.seen = {}
                  /\ h.todo = <<Loop(TRUE), [do |-> "enabled"]>> \o g.todo
<1> DEFINE n == NoBreakpoints(g)
<1>1. /\ DOMAIN n = Fields /\ n.sessions = g.sessions /\ n.sockets = g.sockets
      /\ n.todo = g.todo
  BY NoBreakpointsOnly DEF Only, Placed, Fields
<1> HIDE DEF n
<1> DEFINE m == [n EXCEPT
              !.status = "starting", !.lasttransid = 0, !.remote_enabled = FALSE,
              !.freed = FALSE, !.sessions = @ + 1, !.sockets = @ \cup {g.sessions + 1},
              !.connected = TRUE, !.detached = FALSE, !.early = FALSE, !.step = NoStep,
              !.options = Options, !.answer = NoAnswer, !.seen = {}]
<1>2. /\ Only(n, m, Connecting \ {"todo"}) /\ m.todo = g.todo
      /\ m.status = "starting" /\ m.lasttransid = 0 /\ m.remote_enabled = FALSE
      /\ m.freed = FALSE /\ m.sessions = g.sessions + 1
      /\ m.sockets = g.sockets \cup {g.sessions + 1} /\ m.connected = TRUE
      /\ m.detached = FALSE /\ m.early = FALSE /\ m.step = NoStep
      /\ m.options = Options /\ m.answer = NoAnswer /\ m.seen = {}
  BY <1>1, ZenonT(60) DEF Only, Connecting, Fields
<1>3. DbgpInit(g) = Begin(m, <<Loop(TRUE), [do |-> "enabled"]>>)
  BY DEF DbgpInit, n
<1> HIDE DEF m
<1>4. /\ Only(m, DbgpInit(g), {"todo"})
      /\ DbgpInit(g).todo = <<Loop(TRUE), [do |-> "enabled"]>> \o m.todo
  <2>1. DOMAIN m = Fields
    BY <1>2 DEF Only
  <2> QED
    BY <2>1, <1>3, BeginOnly
<1>5. Only(n, DbgpInit(g), Connecting)
  BY <1>2, <1>4 DEF Only, Connecting
<1>6. LET h == DbgpInit(g)
      IN  /\ h.status = m.status /\ h.lasttransid = m.lasttransid
          /\ h.remote_enabled = m.remote_enabled /\ h.freed = m.freed
          /\ h.sessions = m.sessions /\ h.sockets = m.sockets /\ h.connected = m.connected
          /\ h.detached = m.detached /\ h.early = m.early /\ h.step = m.step
          /\ h.options = m.options /\ h.answer = m.answer /\ h.seen = m.seen
  BY <1>4 DEF Only, Fields
<1>7. DbgpInit(g).todo = <<Loop(TRUE), [do |-> "enabled"]>> \o g.todo
  BY <1>2, <1>4
<1> QED
  BY <1>2, <1>5, <1>6, <1>7, Zenon DEF n

LEMMA InitDebuggerIs ==
    ASSUME NEW g, NEW h \in InitDebugger(g)
    PROVE  h = g \/ h = DbgpInit(g)
BY DEF InitDebugger

LEMMA DoJitIs ==
    ASSUME NEW g, NEW h \in DoJit(g)
    PROVE  h = g \/ (h = DbgpInit(g) /\ ~g.remote_enabled)
<1>1. CASE ~g.remote_enabled /\ g.ini.mode = "jit"
  <2>1. h \in InitDebugger(g)
    BY <1>1 DEF DoJit
  <2> QED
    BY <1>1, <2>1, InitDebuggerIs
<1>2. CASE ~(~g.remote_enabled /\ g.ini.mode = "jit")
  <2>1. DoJit(g) = {g}
    BY <1>2, Zenon DEF DoJit
  <2> QED
    BY <2>1
<1> QED
  BY <1>1, <1>2

Breaking == {"commands", "status", "lasttransid", "step", "answer", "seen", "todo"}

LEMMA BreakOnly ==
    ASSUME NEW g, DOMAIN g = Fields
    PROVE  /\ Only(g, Break(g), Breaking)
           /\ LET h == Break(g)
              IN  /\ h.commands = Respond(g, g.lasttransid).commands /\ h.status = "break"
                  /\ h.lasttransid = 0 /\ h.step = NoStep /\ h.answer = NoAnswer /\ h.seen = {}
                  /\ h.todo = <<Loop(TRUE)>> \o g.todo
<1> DEFINE r == Respond(g, g.lasttransid)
<1>1. Only(g, r, {"commands"}) /\ r.todo = g.todo
  BY RespondOnly DEF Only, Fields
<1> HIDE DEF r
<1> DEFINE m == [r EXCEPT !.status = "break", !.lasttransid = 0, !.step = NoStep,
                          !.answer = NoAnswer, !.seen = {}]
<1>2. /\ Only(r, m, Breaking \ {"todo", "commands"}) /\ m.todo = g.todo
      /\ m.commands = r.commands /\ m.status = "break" /\ m.lasttransid = 0
      /\ m.step = NoStep /\ m.answer = NoAnswer /\ m.seen = {}
  BY <1>1 DEF Only, Breaking, Fields
<1>3. Break(g) = Begin(m, <<Loop(TRUE)>>)
  BY DEF Break, r
<1> HIDE DEF m
<1>4. Only(m, Break(g), {"todo"}) /\ Break(g).todo = <<Loop(TRUE)>> \o m.todo
  <2>1. DOMAIN m = Fields
    BY <1>2 DEF Only
  <2> QED
    BY <2>1, <1>3, BeginOnly
<1>5. Only(g, Break(g), Breaking)
  BY <1>1, <1>2, <1>4 DEF Only, Breaking
<1> QED
  BY <1>2, <1>4, <1>5 DEF Only, Breaking, Fields, r

LEMMA DeinitOnly ==
    ASSUME NEW g, DOMAIN g = Fields
    PROVE  /\ Only(g, Deinit(g), {"commands", "status", "todo"})
           /\ ~g.remote_enabled => Deinit(g) = g
           /\ g.remote_enabled =>
                /\ Deinit(g).commands = Respond(g, g.lasttransid).commands
                /\ Deinit(g).status = "stopping"
                /\ Deinit(g).todo = <<Loop(FALSE), [do |-> "deinit"]>> \o g.todo
<1>1. CASE ~g.remote_enabled
  BY <1>1, OnlyNone DEF Deinit
<1>2. CASE g.remote_enabled
  <2> DEFINE r == Respond(g, g.lasttransid)
             m == [r EXCEPT !.status = "stopping"]
  <2>1. Only(g, r, {"commands"}) /\ r.todo = g.todo
    BY RespondOnly DEF Only, Fields
  <2> HIDE DEF r
  <2>2. /\ Only(g, m, {"commands", "status"}) /\ m.todo = g.todo
        /\ m.commands = r.commands /\ m.status = "stopping"
    BY <2>1 DEF Only, Fields
  <2>3. Deinit(g) = Begin(m, <<Loop(FALSE), [do |-> "deinit"]>>)
    BY <1>2 DEF Deinit, r
  <2> HIDE DEF m
  <2>4. /\ Only(m, Deinit(g), {"todo"})
        /\ Deinit(g).todo = <<Loop(FALSE), [do |-> "deinit"]>> \o m.todo
    <3>1. DOMAIN m = Fields
      BY <2>2 DEF Only
    <3> QED
      BY <3>1, <2>3, BeginOnly
  <2> QED
    BY <1>2, <2>2, <2>4 DEF Only, Fields, r
<1> QED
  BY <1>1, <1>2

LEMMA DeinitializedOnly ==
    ASSUME NEW g, DOMAIN g = Fields
    PROVE  /\ Only(g, Deinitialized(g), {"freed", "remote_enabled"})
           /\ Deinitialized(g).freed = (g.freed \/ g.remote_enabled)
           /\ Deinitialized(g).remote_enabled = FALSE
BY DEF Only, Deinitialized, Fields

-----------------------------------------------------------------------------
(* Sequences *)

LEMMA LessThan ==
    \A i, j \in Nat : i < j <=> <<i, j>> \in OpToRel(<, Nat)
BY DEF OpToRel

\* Every set of numbers that is not empty has a least one.
LEMMA LeastNumber ==
    ASSUME NEW T, T \subseteq Nat, T # {}
    PROVE  \E i \in T : \A j \in T : i <= j
<1>1. PICK i \in T : \A j \in T : ~(<<j, i>> \in OpToRel(<, Nat))
  BY NatLessThanWellFounded, WFMin
<1>2. \A j \in T : ~(j < i)
  BY <1>1, LessThan
<1> QED
  BY <1>2

IsSeq(s) == s \in Seq(Range(s))

LEMMA SeqIsSeq == ASSUME NEW S, NEW s \in Seq(S) PROVE IsSeq(s)
<1>1. /\ Len(s) \in Nat /\ DOMAIN s = 1..Len(s) /\ s = [i \in 1..Len(s) |-> s[i]]
  OBVIOUS
<1>2. \A i \in 1..Len(s) : s[i] \in Range(s)
  BY <1>1 DEF Range
<1>3. [i \in 1..Len(s) |-> s[i]] \in Seq(Range(s))
  BY <1>1, <1>2
<1> QED
  BY <1>1, <1>3 DEF IsSeq

LEMMA SeqDomain ==
    ASSUME NEW s, IsSeq(s)
    PROVE  /\ Len(s) \in Nat /\ DOMAIN s = 1..Len(s)
           /\ \A i \in 1..Len(s) : s[i] \in Range(s)
<1>1. s \in Seq(Range(s))
  BY DEF IsSeq
<1>2. Len(s) \in Nat /\ DOMAIN s = 1..Len(s)
  BY <1>1, LenProperties
<1>3. ASSUME NEW i \in 1..Len(s)
      PROVE  s[i] \in Range(s)
  BY <1>1, ElementOfSeq
<1> QED
  BY <1>2, <1>3

LEMMA AppendIsSeq ==
    ASSUME NEW s, NEW e, IsSeq(s)
    PROVE  /\ IsSeq(Append(s, e)) /\ Len(Append(s, e)) = Len(s) + 1
           /\ \A i \in 1..Len(s) : Append(s, e)[i] = s[i]
           /\ Append(s, e)[Len(s) + 1] = e
<1> DEFINE S == Range(s) \cup {e}
<1>1. s \in Seq(Range(s)) /\ Range(s) \subseteq S /\ e \in S
  BY DEF IsSeq
<1> HIDE DEF S
<1>2. s \in Seq(S)
  BY <1>1
<1>3. /\ Append(s, e) \in Seq(S) /\ Len(Append(s, e)) = Len(s) + 1
      /\ \A i \in 1..Len(s) : Append(s, e)[i] = s[i]
      /\ Append(s, e)[Len(s) + 1] = e
  BY <1>1, <1>2, AppendProperties
<1>4. IsSeq(Append(s, e))
  BY <1>3, SeqIsSeq
<1> QED
  BY <1>3, <1>4

LEMMA RemoveAtIsSeq ==
    ASSUME NEW s, IsSeq(s), NEW i \in 1..Len(s)
    PROVE  /\ IsSeq(RemoveAt(s, i)) /\ Len(RemoveAt(s, i)) = Len(s) - 1
           /\ \A j \in 1..(Len(s) - 1) :
                 RemoveAt(s, i)[j] = s[IF j < i THEN j ELSE j + 1]
<1> DEFINE S == Range(s)
           a == SubSeq(s, 1, i - 1)
           b == SubSeq(s, i + 1, Len(s))
<1>1. s \in Seq(S) /\ Len(s) \in Nat /\ i \in Int /\ i >= 1 /\ i <= Len(s)
  BY SeqDomain DEF IsSeq
<1> HIDE DEF S
<1>2. \A j \in 1..Len(s) : s[j] \in S
  BY <1>1
<1>3. /\ a \in Seq(S) /\ Len(a) = i - 1 /\ \A j \in 1..(i - 1) : a[j] = s[j]
  <2>1. \A j \in 1..(i - 1) : s[j] \in S
    BY <1>1, <1>2
  <2>2. 1 \in Int /\ i - 1 \in Int
    BY <1>1
  <2>3. /\ a \in Seq(S) /\ Len(a) = (IF 1 <= i - 1 THEN i - 1 - 1 + 1 ELSE 0)
        /\ \A j \in 1..(i - 1 - 1 + 1) : a[j] = s[1 + j - 1]
    BY <2>1, <2>2, SubSeqProperties
  <2> QED
    BY <1>1, <2>3
<1>4. /\ b \in Seq(S) /\ Len(b) = Len(s) - i /\ \A j \in 1..(Len(s) - i) : b[j] = s[i + j]
  <2>1. \A j \in (i + 1)..Len(s) : s[j] \in S
    BY <1>1, <1>2
  <2>2. i + 1 \in Int /\ Len(s) \in Int
    BY <1>1
  <2>3. /\ b \in Seq(S) /\ Len(b) = (IF i + 1 <= Len(s) THEN Len(s) - (i + 1) + 1 ELSE 0)
        /\ \A j \in 1..(Len(s) - (i + 1) + 1) : b[j] = s[i + 1 + j - 1]
    BY <2>1, <2>2, SubSeqProperties
  <2>4. Len(b) = Len(s) - i
    BY <1>1, <2>3
  <2>5. ASSUME NEW j \in 1..(Len(s) - i) PROVE b[j] = s[i + j]
    <3>1. j \in 1..(Len(s) - (i + 1) + 1) /\ i + 1 + j - 1 = i + j
      BY <1>1
    <3> QED
      BY <2>3, <3>1
  <2> QED
    BY <2>3, <2>4, <2>5
<1>5. RemoveAt(s, i) = a \o b
  BY DEF RemoveAt
<1> HIDE DEF a, b
<1>6. /\ a \o b \in Seq(S) /\ Len(a \o b) = Len(s) - 1
      /\ \A j \in 1..(Len(s) - 1) :
            (a \o b)[j] = IF j <= i - 1 THEN a[j] ELSE b[j - (i - 1)]
  <2>1. /\ a \o b \in Seq(S) /\ Len(a \o b) = Len(a) + Len(b)
        /\ \A j \in 1..(Len(a) + Len(b)) :
              (a \o b)[j] = IF j <= Len(a) THEN a[j] ELSE b[j - Len(a)]
    BY <1>3, <1>4, ConcatProperties
  <2>2. Len(a) + Len(b) = Len(s) - 1 /\ Len(a) = i - 1
    BY <1>1, <1>3, <1>4
  <2> QED
    BY <2>1, <2>2
<1>7. ASSUME NEW j \in 1..(Len(s) - 1)
      PROVE  (a \o b)[j] = s[IF j < i THEN j ELSE j + 1]
  <2>1. CASE j < i
    BY <1>1, <1>3, <1>6, <2>1
  <2>2. CASE ~(j < i)
    <3>1. j - (i - 1) \in 1..(Len(s) - i) /\ i + (j - (i - 1)) = j + 1
      BY <1>1, <2>2
    <3>2. (a \o b)[j] = b[j - (i - 1)]
      BY <1>1, <1>6, <2>2
    <3> QED
      BY <1>4, <2>2, <3>1, <3>2
  <2> QED
    BY <2>1, <2>2
<1> QED
  BY <1>5, <1>6, <1>7, SeqIsSeq

-----------------------------------------------------------------------------
(* Breakpoints *)

\* The fields of a breakpoint.
Recorded == {"owner", "type", "lineno", "disabled", "temporary", "hit_count", "hit_value",
             "hit_condition", "condition", "stops"}

Tables == {"line_breakpoints", "function_breakpoints", "exception_breakpoints"}

\* A breakpoint that was made for one of the first ids.
Owned(b, count) == DOMAIN b = Recorded /\ b.owner \in 1..count

\* One that is temporary is disabled when it has stopped the script.
Once(b) == b.temporary => b.stops \in {0, 1} /\ (~b.disabled => b.stops = 0)

LineIds(list) == {id \in DOMAIN list : list[id].table = "line_breakpoints"}

\* The ids in use, and what is kept for each.
Listed(list, count) ==
    /\ count \in Nat
    /\ \A id \in DOMAIN list : /\ id \in 1..count
                               /\ list[id] = [table |-> list[id].table, key |-> list[id].key]
                               /\ list[id].table \in Tables

\* The line breakpoints, at least as many as there are ids for lines.
LinesKept(lines, list, count) ==
    /\ IsSeq(lines)
    /\ \A i \in 1..Len(lines) :
          /\ Owned(lines[i], count) /\ Once(lines[i])
          /\ lines[i].owner \in DOMAIN list => lines[i].owner \in LineIds(list)
    /\ \A i, j \in 1..Len(lines) : lines[i].owner = lines[j].owner => i = j
    /\ IsFiniteSet(LineIds(list)) /\ Cardinality(LineIds(list)) <= Len(lines)

\* The breakpoints of a hash, which an id leads to unless its place was shared.
NamesKept(hash, table, list, count, shared) ==
    /\ \A k \in DOMAIN hash : Owned(hash[k], count)
    /\ table = "function_breakpoints" => \A k \in DOMAIN hash : Once(hash[k])
    /\ \A id \in DOMAIN list :
          list[id].table = table /\ list[id] \notin shared =>
              list[id].key \in DOMAIN hash /\ hash[list[id].key].owner = id

PlacesKept(list, shared) ==
    \A a, b \in DOMAIN list : a # b /\ list[a] = list[b] => list[a] \in shared

BreakpointsOK(g) ==
    /\ Listed(g.breakpoint_list, g.breakpoint_count)
    /\ LinesKept(g.line_breakpoints, g.breakpoint_list, g.breakpoint_count)
    /\ NamesKept(g.function_breakpoints, "function_breakpoints", g.breakpoint_list,
                 g.breakpoint_count, g.shared)
    /\ NamesKept(g.exception_breakpoints, "exception_breakpoints", g.breakpoint_list,
                 g.breakpoint_count, g.shared)
    /\ PlacesKept(g.breakpoint_list, g.shared)

LEMMA BreakpointsTemporary ==
    ASSUME BreakpointsOK(x)
    PROVE  TemporaryOnce
<1>1. \A i \in DOMAIN x.line_breakpoints :
          x.line_breakpoints[i].temporary => x.line_breakpoints[i].stops <= 1
  <2>1. DOMAIN x.line_breakpoints = 1..Len(x.line_breakpoints)
    BY SeqDomain DEF BreakpointsOK, LinesKept
  <2> QED
    BY <2>1 DEF BreakpointsOK, LinesKept, Once
<1>2. \A k \in DOMAIN x.function_breakpoints :
          x.function_breakpoints[k].temporary => x.function_breakpoints[k].stops <= 1
  BY DEF BreakpointsOK, NamesKept, Once
<1> QED
  BY <1>1, <1>2 DEF TemporaryOnce

\* Of the line breakpoints, one is of the id.
LEMMA LineOfId ==
    ASSUME NEW lines, NEW list, NEW count, LinesKept(lines, list, count),
           \A i \in 1..Len(lines) : lines[i].owner \in DOMAIN list,
           NEW id \in LineIds(list)
    PROVE  \E i \in 1..Len(lines) : lines[i].owner = id
<1> SUFFICES ASSUME \A i \in 1..Len(lines) : lines[i].owner # id
             PROVE  FALSE
  OBVIOUS
<1> DEFINE Places == 1..Len(lines)
           Others == LineIds(list) \ {id}
           owner  == [i \in Places |-> lines[i].owner]
<1>1. Len(lines) \in Nat
  BY SeqDomain DEF LinesKept
<1>2. IsFiniteSet(LineIds(list)) /\ Cardinality(LineIds(list)) <= Len(lines)
  BY DEF LinesKept
<1>3. IsFiniteSet(Others) /\ Cardinality(Others) = Cardinality(LineIds(list)) - 1
  BY <1>2, FS_RemoveElement
<1>4. IsFiniteSet(Places) /\ Cardinality(Places) = Len(lines)
  <2>1. 1 \in Int /\ Len(lines) \in Int
    BY <1>1
  <2>2. /\ IsFiniteSet(Places)
        /\ Cardinality(Places) = IF 1 > Len(lines) THEN 0 ELSE Len(lines) - 1 + 1
    BY <2>1, FS_Interval
  <2> QED
    BY <1>1, <2>2
<1>5. Cardinality(LineIds(list)) \in Nat
  BY <1>2, FS_CardinalityType
<1>6. owner \in [Places -> Others]
  BY DEF LinesKept
<1>7. \A i, j \in Places : owner[i] = owner[j] => i = j
  BY DEF LinesKept
<1> HIDE DEF Places, Others, owner
<1>8. Cardinality(Others) < Cardinality(Places)
  BY <1>1, <1>2, <1>3, <1>4, <1>5
<1>9. \E i, j \in Places : i # j /\ owner[i] = owner[j]
  BY <1>3, <1>4, <1>6, <1>8, FS_PigeonHole
<1> QED
  BY <1>7, <1>9

LEMMA BreakpointsFound ==
    ASSUME BreakpointsOK(x)
    PROVE  IdFindsOwn
<1> DEFINE list  == x.breakpoint_list
           lines == x.line_breakpoints
           inOrder == /\ IsInjective(list)
                      /\ \A i \in DOMAIN lines : /\ lines[i].owner \in DOMAIN list
                                                 /\ list[lines[i].owner].key = lines[i].lineno
           found(id) == Lookup(x, list[id]) # NoPlace /\ At(x, Lookup(x, list[id])).owner = id
<1>1. ASSUME NEW id \in DOMAIN list, list[id].table # "line_breakpoints",
             list[id] \notin x.shared
      PROVE  found(id)
  <2>1. list[id].table \in {"function_breakpoints", "exception_breakpoints"}
    BY <1>1 DEF BreakpointsOK, Listed, Tables
  <2>2. /\ list[id].key \in DOMAIN x[list[id].table]
        /\ x[list[id].table][list[id].key].owner = id
    BY <1>1, <2>1 DEF BreakpointsOK, NamesKept
  <2>3. Lookup(x, list[id]) = <<list[id].table, list[id].key>>
    BY <1>1, <2>2 DEF Lookup
  <2>4. <<list[id].table, list[id].key>> # NoPlace
    BY <2>1 DEF NoPlace
  <2> QED
    BY <2>2, <2>3, <2>4 DEF At
<1>2. ASSUME NEW id \in DOMAIN list, list[id].table = "line_breakpoints", inOrder
      PROVE  found(id)
  <2> DEFINE same == {i \in DOMAIN lines : lines[i].lineno = list[id].key}
             first == CHOOSE i \in same : \A j \in same : i <= j
  <2>1. DOMAIN lines = 1..Len(lines) /\ Len(lines) \in Nat
    BY SeqDomain DEF BreakpointsOK, LinesKept
  <2>2. \E i \in 1..Len(lines) : lines[i].owner = id
    <3>1. LinesKept(lines, list, x.breakpoint_count)
      BY DEF BreakpointsOK
    <3>2. id \in LineIds(list)
      BY <1>2 DEF LineIds
    <3>3. \A i \in 1..Len(lines) : lines[i].owner \in DOMAIN list
      BY <1>2, <2>1
    <3> QED
      BY <3>1, <3>2, <3>3, LineOfId
  <2>3. same # {} /\ same \subseteq Nat
    BY <1>2, <2>1, <2>2
  <2>4. first \in same
    <3>1. \E i \in same : \A j \in same : i <= j
      BY <2>3, LeastNumber
    <3> HIDE DEF same
    <3> QED
      BY <3>1
  <2>5. \A i \in same : lines[i].owner = id
    <3> SUFFICES ASSUME NEW i \in same PROVE lines[i].owner = id
      OBVIOUS
    <3>1. /\ lines[i].owner \in DOMAIN list
          /\ list[lines[i].owner].key = list[id].key
      BY <1>2
    <3>2. list[lines[i].owner].table = "line_breakpoints"
      BY <2>1, <3>1 DEF BreakpointsOK, LinesKept, LineIds
    <3>3. list[lines[i].owner] = list[id]
      BY <1>2, <3>1, <3>2 DEF BreakpointsOK, Listed
    <3> QED
      BY <1>2, <3>1, <3>3 DEF IsInjective
  <2>6. Lookup(x, list[id]) = <<"line_breakpoints", first>>
    BY <1>2, <2>3, Zenon DEF Lookup
  <2> HIDE DEF first
  <2>7. <<"line_breakpoints", first>> # NoPlace
    BY DEF NoPlace
  <2> QED
    BY <2>4, <2>5, <2>6, <2>7 DEF At
<1> QED
  BY <1>1, <1>2, Zenon DEF IdFindsOwn

\* The globals that BreakpointsOK is about.
Kept == Placed \cup {"breakpoint_count"}

LEMMA BreakpointsSame ==
    ASSUME NEW g, NEW h, NEW S, Only(g, h, S), S \cap Kept = {}, BreakpointsOK(g)
    PROVE  BreakpointsOK(h)
<1>1. \A f \in Kept : h[f] = g[f]
  BY DEF Only, Kept, Placed, Fields
<1>2. /\ h.breakpoint_list = g.breakpoint_list /\ h.breakpoint_count = g.breakpoint_count
      /\ h.line_breakpoints = g.line_breakpoints /\ h.shared = g.shared
      /\ h.function_breakpoints = g.function_breakpoints
      /\ h.exception_breakpoints = g.exception_breakpoints
  BY <1>1 DEF Kept, Placed
<1> QED
  BY <1>2 DEF BreakpointsOK

LEMMA EmptyIs == IsSeq(<<>>) /\ Len(<<>>) = 0 /\ DOMAIN <<>> = {}
<1>1. <<>> \in Seq({}) /\ Len(<<>>) = 0 /\ DOMAIN <<>> = {}
  OBVIOUS
<1> QED
  BY <1>1, SeqIsSeq

LEMMA BreakpointsNone ==
    ASSUME NEW g, DOMAIN g = Fields, g.breakpoint_count \in Nat
    PROVE  BreakpointsOK(NoBreakpoints(g))
<1> DEFINE h == NoBreakpoints(g)
<1>1. /\ h.breakpoint_list = <<>> /\ h.line_breakpoints = <<>>
      /\ h.function_breakpoints = <<>> /\ h.exception_breakpoints = <<>>
      /\ h.shared = {} /\ h.breakpoint_count \in Nat
  BY NoBreakpointsOnly DEF Only, Placed, Fields
<1> HIDE DEF h
<1>2. LineIds(<<>>) = {}
  BY EmptyIs DEF LineIds
<1>3. IsFiniteSet(LineIds(<<>>)) /\ Cardinality(LineIds(<<>>)) = 0
  BY <1>2, FS_EmptySet
<1>4. LinesKept(<<>>, <<>>, h.breakpoint_count)
  BY <1>3, EmptyIs DEF LinesKept
<1>5. Listed(<<>>, h.breakpoint_count) /\ PlacesKept(<<>>, {})
  BY <1>1, EmptyIs DEF Listed, PlacesKept
<1>6. \A table : NamesKept(<<>>, table, <<>>, h.breakpoint_count, {})
  BY EmptyIs DEF NamesKept
<1>7. BreakpointsOK(h)
  BY <1>1, <1>4, <1>5, <1>6 DEF BreakpointsOK
<1> QED
  BY <1>7 DEF h

-----------------------------------------------------------------------------
(* Setting a breakpoint *)

\* more is hash with a value for the key.
HasMore(hash, key, value, more) ==
    /\ DOMAIN more = DOMAIN hash \cup {key} /\ more[key] = value
    /\ \A k \in DOMAIN hash : k # key => more[k] = hash[k]

LEMMA HashAddIs ==
    ASSUME NEW hash, NEW key, NEW value
    PROVE  HasMore(hash, key, value, HashAdd(hash, key, value))
BY DEF HashAdd, HasMore

\* The next id of the list, and the place it leads to.
Adds(list, count, id, admin) ==
    /\ Listed(list, count) /\ id = count + 1
    /\ admin = [table |-> admin.table, key |-> admin.key] /\ admin.table \in Tables

LEMMA AddedList ==
    ASSUME NEW list, NEW count, NEW admin, NEW next, Adds(list, count, next, admin)
    PROVE  /\ HasMore(list, next, admin, HashAdd(list, next, admin))
           /\ Listed(HashAdd(list, next, admin), next)
           /\ next \notin DOMAIN list
<1> DEFINE more == HashAdd(list, next, admin)
<1>1. /\ count \in Nat /\ next = count + 1 /\ \A id \in DOMAIN list : id # next /\ id \in 1..count
  BY DEF Adds, Listed
<1>2. /\ DOMAIN more = DOMAIN list \cup {next} /\ more[next] = admin
      /\ \A id \in DOMAIN list : id # next => more[id] = list[id]
  <2>1. HasMore(list, next, admin, more)
    BY HashAddIs
  <2> QED
    BY <2>1 DEF HasMore
<1> HIDE DEF more
<1>3. \A id \in DOMAIN list : more[id] = list[id] /\ id # next
  BY <1>1, <1>2
<1>4. Listed(more, next)
  <2>1. ASSUME NEW id \in DOMAIN list
        PROVE  /\ id \in 1..next /\ more[id].table \in Tables
               /\ more[id] = [table |-> more[id].table, key |-> more[id].key]
    <3>1. more[id] = list[id] /\ id \in 1..next
      BY <1>1, <1>3
    <3> QED
      BY <3>1 DEF Adds, Listed
  <2>2. /\ next \in 1..next /\ next \in Nat /\ more[next].table \in Tables
        /\ more[next] = [table |-> more[next].table, key |-> more[next].key]
    BY <1>1, <1>2 DEF Adds
  <2> QED
    BY <1>2, <2>1, <2>2 DEF Listed
<1> QED
  BY <1>1, <1>2, <1>3, <1>4 DEF more, HasMore

LEMMA AddedElsewhere ==
    ASSUME NEW lines, NEW list, NEW count, NEW admin, NEW next, Adds(list, count, next, admin),
           LinesKept(lines, list, count), admin.table # "line_breakpoints"
    PROVE  LinesKept(lines, HashAdd(list, next, admin), next)
<1> DEFINE more == HashAdd(list, next, admin)
<1>1. /\ DOMAIN more = DOMAIN list \cup {next} /\ more[next] = admin
      /\ \A id \in DOMAIN list : more[id] = list[id] /\ id # next
  <2>1. HasMore(list, next, admin, more) /\ next \notin DOMAIN list
    BY AddedList
  <2> QED
    BY <2>1 DEF HasMore
<1> HIDE DEF more
<1>2. LineIds(more) = LineIds(list)
  BY <1>1 DEF LineIds
<1>3. count \in Nat /\ next = count + 1
  BY DEF Adds, Listed
<1>4. ASSUME NEW i \in 1..Len(lines)
      PROVE  /\ Owned(lines[i], next) /\ Once(lines[i])
             /\ lines[i].owner \in DOMAIN more => lines[i].owner \in LineIds(more)
  <2>1. Owned(lines[i], count) /\ Once(lines[i])
    BY DEF LinesKept
  <2>2. Owned(lines[i], next) /\ lines[i].owner # next
    BY <1>3, <2>1 DEF Owned
  <2> QED
    BY <1>1, <1>2, <2>1, <2>2 DEF LinesKept
<1> QED
  BY <1>2, <1>4 DEF LinesKept, more

LEMMA AddedLine ==
    ASSUME NEW lines, NEW list, NEW count, NEW admin, NEW next, Adds(list, count, next, admin),
           LinesKept(lines, list, count), admin.table = "line_breakpoints",
           NEW brk, Owned(brk, next), Once(brk), brk.owner = next
    PROVE  LinesKept(Append(lines, brk), HashAdd(list, next, admin), next)
<1> DEFINE more == HashAdd(list, next, admin)
           all  == Append(lines, brk)
<1>1. /\ DOMAIN more = DOMAIN list \cup {next} /\ more[next] = admin
      /\ \A id \in DOMAIN list : more[id] = list[id] /\ id # next
  <2>1. HasMore(list, next, admin, more) /\ next \notin DOMAIN list
    BY AddedList
  <2> QED
    BY <2>1 DEF HasMore
<1>2. IsSeq(lines) /\ Len(lines) \in Nat
  BY SeqDomain DEF LinesKept
<1>3. /\ IsSeq(all) /\ Len(all) = Len(lines) + 1
      /\ \A i \in 1..Len(lines) : all[i] = lines[i]
      /\ all[Len(lines) + 1] = brk
  BY <1>2, AppendIsSeq
<1> HIDE DEF more, all
<1>4. LineIds(more) = LineIds(list) \cup {next} /\ next \notin LineIds(list)
  BY <1>1 DEF LineIds
<1>5. count \in Nat /\ next = count + 1
  BY DEF Adds, Listed
<1>6. IsFiniteSet(LineIds(more)) /\ Cardinality(LineIds(more)) <= Len(all)
  <2>1. IsFiniteSet(LineIds(list)) /\ Cardinality(LineIds(list)) <= Len(lines)
    BY DEF LinesKept
  <2>2. /\ IsFiniteSet(LineIds(more))
        /\ Cardinality(LineIds(more)) = Cardinality(LineIds(list)) + 1
    BY <1>4, <2>1, FS_AddElement
  <2>3. Cardinality(LineIds(list)) \in Nat
    BY <2>1, FS_CardinalityType
  <2> QED
    BY <1>2, <1>3, <2>1, <2>2, <2>3
<1>7. ASSUME NEW i \in 1..Len(lines)
      PROVE  /\ Owned(all[i], next) /\ Once(all[i]) /\ all[i].owner \in 1..count
             /\ all[i].owner \in DOMAIN more => all[i].owner \in LineIds(more)
             /\ all[i] = lines[i]
  <2>1. Owned(lines[i], count) /\ Once(lines[i]) /\ all[i] = lines[i]
    BY <1>3 DEF LinesKept
  <2>2. Owned(lines[i], next) /\ lines[i].owner # next /\ lines[i].owner \in 1..count
    BY <1>5, <2>1 DEF Owned
  <2> QED
    BY <1>1, <1>4, <2>1, <2>2 DEF LinesKept
<1>8. \A i \in 1..Len(all) : i \in 1..Len(lines) \/ i = Len(lines) + 1
  BY <1>2, <1>3
<1>9. ASSUME NEW i \in 1..Len(all)
      PROVE  /\ Owned(all[i], next) /\ Once(all[i])
             /\ all[i].owner \in DOMAIN more => all[i].owner \in LineIds(more)
  <2>1. CASE i \in 1..Len(lines)
    BY <1>7, <2>1
  <2>2. CASE i = Len(lines) + 1
    BY <1>3, <1>4, <2>2
  <2> QED
    BY <1>8, <2>1, <2>2
<1>10. ASSUME NEW i \in 1..Len(all), NEW j \in 1..Len(all), all[i].owner = all[j].owner
       PROVE  i = j
  <2>1. CASE i \in 1..Len(lines) /\ j \in 1..Len(lines)
    <3>1. lines[i].owner = lines[j].owner
      BY <1>7, <1>10, <2>1
    <3> QED
      BY <2>1, <3>1 DEF LinesKept
  <2>2. ASSUME NEW k \in 1..Len(lines) PROVE all[k].owner # next
    BY <1>5, <1>7
  <2>3. all[Len(lines) + 1].owner = next
    BY <1>3
  <2> QED
    BY <1>8, <1>10, <2>1, <2>2, <2>3
<1>11. LinesKept(all, more, next)
  BY <1>3, <1>6, <1>9, <1>10 DEF LinesKept
<1> QED
  BY <1>11 DEF more, all

\* The places that are shared after an id has been given one.
LEMMA AddedPlace ==
    ASSUME NEW list, NEW count, NEW admin, NEW next, Adds(list, count, next, admin), NEW shared,
           PlacesKept(list, shared)
    PROVE  PlacesKept(HashAdd(list, next, admin), shared \cup (Range(list) \cap {admin}))
<1> DEFINE more == HashAdd(list, next, admin)
           all  == shared \cup (Range(list) \cap {admin})
<1>1. /\ DOMAIN more = DOMAIN list \cup {next} /\ more[next] = admin
      /\ \A id \in DOMAIN list : more[id] = list[id] /\ id # next
  <2>1. HasMore(list, next, admin, more) /\ next \notin DOMAIN list
    BY AddedList
  <2> QED
    BY <2>1 DEF HasMore
<1>2. \A id \in DOMAIN list : list[id] = admin => admin \in all
  BY DEF Range
<1> HIDE DEF more
<1>3. ASSUME NEW a \in DOMAIN more, NEW b \in DOMAIN more, a # b, more[a] = more[b]
      PROVE  more[a] \in all
  <2>1. CASE a \in DOMAIN list /\ b \in DOMAIN list
    BY <1>1, <1>3, <2>1 DEF PlacesKept
  <2>2. CASE a = next /\ b \in DOMAIN list
    BY <1>1, <1>2, <1>3, <2>2
  <2>3. CASE b = next /\ a \in DOMAIN list
    BY <1>1, <1>2, <1>3, <2>3
  <2> QED
    BY <1>1, <1>3, <2>1, <2>2, <2>3
<1>4. PlacesKept(more, all)
  BY <1>3 DEF PlacesKept
<1> QED
  BY <1>4 DEF more

\* The hash that the place is in: its breakpoint is the new one.
LEMMA AddedName ==
    ASSUME NEW hash, NEW table, NEW list, NEW count, NEW admin, NEW next,
           Adds(list, count, next, admin), NEW shared,
           NamesKept(hash, table, list, count, shared), admin.table = table,
           NEW brk, Owned(brk, next), Once(brk), brk.owner = next
    PROVE  NamesKept(HashAdd(hash, admin.key, brk), table, HashAdd(list, next, admin), next,
                     shared \cup (Range(list) \cap {admin}))
<1> DEFINE more  == HashAdd(list, next, admin)
           named == HashAdd(hash, admin.key, brk)
           all   == shared \cup (Range(list) \cap {admin})
<1>1. /\ DOMAIN more = DOMAIN list \cup {next} /\ more[next] = admin
      /\ \A id \in DOMAIN list : more[id] = list[id] /\ id # next
  <2>1. HasMore(list, next, admin, more) /\ next \notin DOMAIN list
    BY AddedList
  <2> QED
    BY <2>1 DEF HasMore
<1>2. /\ DOMAIN named = DOMAIN hash \cup {admin.key} /\ named[admin.key] = brk
      /\ \A k \in DOMAIN hash : k # admin.key => named[k] = hash[k]
  <2>1. HasMore(hash, admin.key, brk, named)
    BY HashAddIs
  <2> QED
    BY <2>1 DEF HasMore
<1>3. \A id \in DOMAIN list : list[id] = admin => admin \in all
  BY DEF Range
<1>4. shared \subseteq all
  OBVIOUS
<1> HIDE DEF more, named, all
<1>5. count \in Nat /\ next = count + 1
  BY DEF Adds, Listed
<1>6. \A k \in DOMAIN named : Owned(named[k], next)
  <2>1. \A k \in DOMAIN hash : Owned(hash[k], next)
    BY <1>5 DEF NamesKept, Owned
  <2> QED
    BY <1>2, <2>1
<1>7. table = "function_breakpoints" => \A k \in DOMAIN named : Once(named[k])
  BY <1>2 DEF NamesKept
<1>8. ASSUME NEW id \in DOMAIN more, more[id].table = table, more[id] \notin all
      PROVE  more[id].key \in DOMAIN named /\ named[more[id].key].owner = id
  <2>1. CASE id = next
    BY <1>1, <1>2, <2>1
  <2>2. CASE id \in DOMAIN list
    <3>1. more[id] = list[id] /\ list[id].table = table /\ list[id] \notin shared
      BY <1>1, <1>4, <1>8, <2>2
    <3>2. list[id] # admin
      BY <1>1, <1>3, <1>8, <2>2
    <3>3. list[id].key # admin.key
      <4>1. list[id] = [table |-> list[id].table, key |-> list[id].key]
        BY <2>2 DEF Adds, Listed
      <4>2. admin = [table |-> admin.table, key |-> admin.key]
        BY DEF Adds
      <4> QED
        BY <3>1, <3>2, <4>1, <4>2
    <3>4. list[id].key \in DOMAIN hash /\ hash[list[id].key].owner = id
      BY <2>2, <3>1 DEF NamesKept
    <3> QED
      BY <1>2, <3>1, <3>3, <3>4
  <2> QED
    BY <1>1, <2>1, <2>2
<1>9. NamesKept(named, table, more, next, all)
  BY <1>6, <1>7, <1>8 DEF NamesKept
<1> QED
  BY <1>9 DEF more, named, all

\* Another hash.
LEMMA AddedNameElsewhere ==
    ASSUME NEW hash, NEW table, NEW list, NEW count, NEW admin, NEW next,
           Adds(list, count, next, admin), NEW shared,
           NamesKept(hash, table, list, count, shared), admin.table # table
    PROVE  NamesKept(hash, table, HashAdd(list, next, admin), next,
                     shared \cup (Range(list) \cap {admin}))
<1> DEFINE more == HashAdd(list, next, admin)
           all  == shared \cup (Range(list) \cap {admin})
<1>1. /\ DOMAIN more = DOMAIN list \cup {next} /\ more[next] = admin
      /\ \A id \in DOMAIN list : more[id] = list[id] /\ id # next
  <2>1. HasMore(list, next, admin, more) /\ next \notin DOMAIN list
    BY AddedList
  <2> QED
    BY <2>1 DEF HasMore
<1>2. shared \subseteq all
  OBVIOUS
<1> HIDE DEF more, all
<1>3. count \in Nat /\ next = count + 1
  BY DEF Adds, Listed
<1>4. \A k \in DOMAIN hash : Owned(hash[k], next)
  BY <1>3 DEF NamesKept, Owned
<1>5. NamesKept(hash, table, more, next, all)
  BY <1>1, <1>2, <1>4 DEF NamesKept
<1> QED
  BY <1>5 DEF more, all

Types == {"line", "call", "return", "exception"}

LEMMA TableIs ==
    /\ Table("line") = "line_breakpoints" /\ Table("exception") = "exception_breakpoints"
    /\ Table("call") = "function_breakpoints" /\ Table("return") = "function_breakpoints"
BY DEF Table

LEMMA BrkInfoIs ==
    ASSUME NEW o, NEW id, NEW count, id \in 1..count
    PROVE  /\ Owned(BrkInfo(o, id), count) /\ Once(BrkInfo(o, id))
           /\ BrkInfo(o, id).owner = id
BY DEF BrkInfo, Owned, Once, Recorded

\* What breakpoint_set leaves in the globals.
SetFields(g, h, o, id, admin, brk) ==
    /\ h.breakpoint_count = id /\ h.breakpoint_list = HashAdd(g.breakpoint_list, id, admin)
    /\ h.shared = g.shared \cup (Range(g.breakpoint_list) \cap {admin})
    /\ h.line_breakpoints = IF o.type = "line" THEN Append(g.line_breakpoints, brk)
                            ELSE g.line_breakpoints
    /\ h.function_breakpoints = IF o.type \in {"call", "return"}
                                THEN HashAdd(g.function_breakpoints, o.at, brk)
                                ELSE g.function_breakpoints
    /\ h.exception_breakpoints = IF o.type = "exception"
                                 THEN HashAdd(g.exception_breakpoints, o.at, brk)
                                 ELSE g.exception_breakpoints

LEMMA BreakpointSetIs ==
    ASSUME NEW g, DOMAIN g = Fields, NEW o, o.type \in Types,
           NEW id, id = g.breakpoint_count + 1,
           NEW admin, admin = [table |-> Table(o.type), key |-> o.at]
    PROVE  /\ Only(g, BreakpointSet(g, o), Kept)
           /\ SetFields(g, BreakpointSet(g, o), o, id, admin, BrkInfo(o, id))
<1> DEFINE brk  == BrkInfo(o, id)
           list == HashAdd(g.breakpoint_list, id, admin)
           both == g.shared \cup (Range(g.breakpoint_list) \cap {admin})
           h    == [g EXCEPT !.breakpoint_count = id, !.breakpoint_list = list, !.shared = both]
<1>1. BreakpointSet(g, o) =
        IF o.type = "line" THEN [h EXCEPT !.line_breakpoints = Append(@, brk)]
        ELSE [h EXCEPT ![Table(o.type)] = HashAdd(@, o.at, brk)]
  BY Zenon DEF BreakpointSet
<1> HIDE DEF brk, list, both
<1>2. /\ Only(g, h, {"breakpoint_count", "breakpoint_list", "shared"})
      /\ h.breakpoint_count = id /\ h.breakpoint_list = list /\ h.shared = both
      /\ h.line_breakpoints = g.line_breakpoints
      /\ h.function_breakpoints = g.function_breakpoints
      /\ h.exception_breakpoints = g.exception_breakpoints
  BY DEF Only, Fields
<1> HIDE DEF h
<1> DEFINE lines == Append(g.line_breakpoints, brk)
           fns   == HashAdd(g.function_breakpoints, o.at, brk)
           exns  == HashAdd(g.exception_breakpoints, o.at, brk)
<1>3. CASE o.type = "line"
  <2>1. BreakpointSet(g, o) = [h EXCEPT !.line_breakpoints = lines]
    BY <1>1, <1>2, <1>3
  <2> HIDE DEF lines
  <2> QED
    BY <1>2, <1>3, <2>1 DEF Only, SetFields, Kept, Placed, Fields, brk, list, both, lines
<1>4. CASE o.type \in {"call", "return"}
  <2>1. BreakpointSet(g, o) = [h EXCEPT !.function_breakpoints = fns]
    BY <1>1, <1>2, <1>4, TableIs
  <2> HIDE DEF fns
  <2> QED
    BY <1>2, <1>4, <2>1 DEF Only, SetFields, Kept, Placed, Fields, brk, list, both, fns
<1>5. CASE o.type = "exception"
  <2>1. BreakpointSet(g, o) = [h EXCEPT !.exception_breakpoints = exns]
    BY <1>1, <1>2, <1>5, TableIs
  <2> HIDE DEF exns
  <2> QED
    BY <1>2, <1>5, <2>1 DEF Only, SetFields, Kept, Placed, Fields, brk, list, both, exns
<1> QED
  BY <1>3, <1>4, <1>5 DEF Types

LEMMA BreakpointsSet ==
    ASSUME NEW g, DOMAIN g = Fields, BreakpointsOK(g), NEW o, o.type \in Types
    PROVE  BreakpointsOK(BreakpointSet(g, o))
<1> DEFINE h     == BreakpointSet(g, o)
           id    == g.breakpoint_count + 1
           admin == [table |-> Table(o.type), key |-> o.at]
           brk   == BrkInfo(o, id)
<1>1. SetFields(g, h, o, id, admin, brk)
  BY BreakpointSetIs
<1>2. Adds(g.breakpoint_list, g.breakpoint_count, id, admin)
  BY TableIs DEF Adds, BreakpointsOK, Types, Tables
<1>3. Owned(brk, id) /\ Once(brk) /\ brk.owner = id
  <2>1. id \in 1..id
    BY DEF BreakpointsOK, Listed
  <2> QED
    BY <2>1, BrkInfoIs
<1>4. admin.table = Table(o.type) /\ admin.key = o.at
  OBVIOUS
<1> HIDE DEF h, id, admin, brk
<1>5. Listed(h.breakpoint_list, h.breakpoint_count)
  BY <1>1, <1>2, AddedList DEF SetFields
<1>6. PlacesKept(h.breakpoint_list, h.shared)
  BY <1>1, <1>2, AddedPlace DEF SetFields, BreakpointsOK
<1>7. LinesKept(h.line_breakpoints, h.breakpoint_list, h.breakpoint_count)
  <2>1. LinesKept(g.line_breakpoints, g.breakpoint_list, g.breakpoint_count)
    BY DEF BreakpointsOK
  <2>2. CASE o.type = "line"
    BY <1>1, <1>2, <1>3, <1>4, <2>1, <2>2, AddedLine, TableIs DEF SetFields
  <2>3. CASE o.type # "line"
    <3>1. admin.table # "line_breakpoints"
      BY <1>4, <2>3, TableIs DEF Types
    <3> QED
      BY <1>1, <1>2, <2>1, <2>3, <3>1, AddedElsewhere DEF SetFields
  <2> QED
    BY <2>2, <2>3
<1>8. NamesKept(h.function_breakpoints, "function_breakpoints", h.breakpoint_list,
                h.breakpoint_count, h.shared)
  <2>1. NamesKept(g.function_breakpoints, "function_breakpoints", g.breakpoint_list,
                  g.breakpoint_count, g.shared)
    BY DEF BreakpointsOK
  <2>2. CASE o.type \in {"call", "return"}
    <3>1. admin.table = "function_breakpoints"
      BY <1>4, <2>2, TableIs
    <3> QED
      BY <1>1, <1>2, <1>3, <1>4, <2>1, <2>2, <3>1, AddedName DEF SetFields
  <2>3. CASE o.type \notin {"call", "return"}
    <3>1. admin.table # "function_breakpoints"
      BY <1>4, <2>3, TableIs DEF Types
    <3> QED
      BY <1>1, <1>2, <2>1, <2>3, <3>1, AddedNameElsewhere DEF SetFields
  <2> QED
    BY <2>2, <2>3
<1>9. NamesKept(h.exception_breakpoints, "exception_breakpoints", h.breakpoint_list,
                h.breakpoint_count, h.shared)
  <2>1. NamesKept(g.exception_breakpoints, "exception_breakpoints", g.breakpoint_list,
                  g.breakpoint_count, g.shared)
    BY DEF BreakpointsOK
  <2>2. CASE o.type = "exception"
    <3>1. admin.table = "exception_breakpoints"
      BY <1>4, <2>2, TableIs
    <3> QED
      BY <1>1, <1>2, <1>3, <1>4, <2>1, <2>2, <3>1, AddedName DEF SetFields
  <2>3. CASE o.type # "exception"
    <3>1. admin.table # "exception_breakpoints"
      BY <1>4, <2>3, TableIs DEF Types
    <3> QED
      BY <1>1, <1>2, <2>1, <2>3, <3>1, AddedNameElsewhere DEF SetFields
  <2> QED
    BY <2>2, <2>3
<1>10. BreakpointsOK(h)
  BY <1>5, <1>6, <1>7, <1>8, <1>9 DEF BreakpointsOK
<1> QED
  BY <1>10 DEF h

-----------------------------------------------------------------------------
(* Removing a breakpoint *)

\* less is hash without the key.
HasLess(hash, key, less) ==
    DOMAIN less = DOMAIN hash \ {key} /\ \A k \in DOMAIN less : less[k] = hash[k]

LEMMA RestrictIs ==
    ASSUME NEW hash, NEW key
    PROVE  HasLess(hash, key, Restrict(hash, DOMAIN hash \ {key}))
BY DEF HasLess, Restrict

LEMMA RemovedList ==
    ASSUME NEW list, NEW count, NEW id, NEW less, HasLess(list, id, less), NEW shared,
           Listed(list, count), PlacesKept(list, shared)
    PROVE  Listed(less, count) /\ PlacesKept(less, shared)
BY DEF HasLess, Listed, PlacesKept

LEMMA RemovedNameElsewhere ==
    ASSUME NEW list, NEW count, NEW id, NEW less, HasLess(list, id, less), NEW shared,
           NEW hash, NEW table, NamesKept(hash, table, list, count, shared)
    PROVE  NamesKept(hash, table, less, count, shared)
BY DEF HasLess, NamesKept

LEMMA RemovedName ==
    ASSUME NEW list, NEW count, NEW id \in DOMAIN list, NEW less, HasLess(list, id, less),
           NEW shared, NEW hash, NEW table, NamesKept(hash, table, list, count, shared),
           Listed(list, count), PlacesKept(list, shared), list[id].table = table,
           NEW fewer, HasLess(hash, list[id].key, fewer)
    PROVE  NamesKept(fewer, table, less, count, shared)
<1>1. ASSUME NEW b \in DOMAIN less, less[b].table = table, less[b] \notin shared
      PROVE  less[b].key \in DOMAIN fewer /\ fewer[less[b].key].owner = b
  <2>1. b \in DOMAIN list /\ b # id /\ less[b] = list[b]
    BY DEF HasLess
  <2>2. list[b] # list[id]
    BY <1>1, <2>1 DEF PlacesKept
  <2>3. list[b].key # list[id].key
    <3>1. /\ list[b] = [table |-> list[b].table, key |-> list[b].key]
          /\ list[id] = [table |-> list[id].table, key |-> list[id].key]
      BY <2>1 DEF Listed
    <3> QED
      BY <1>1, <2>1, <2>2, <3>1
  <2>4. list[b].key \in DOMAIN hash /\ hash[list[b].key].owner = b
    BY <1>1, <2>1 DEF NamesKept
  <2> QED
    BY <2>1, <2>3, <2>4 DEF HasLess
<1>2. \A k \in DOMAIN fewer : k \in DOMAIN hash /\ fewer[k] = hash[k]
  BY DEF HasLess
<1> QED
  BY <1>1, <1>2 DEF NamesKept

\* The ids for lines after an id has gone.
LEMMA RemovedLineIds ==
    ASSUME NEW list, NEW id \in DOMAIN list, NEW less, HasLess(list, id, less),
           IsFiniteSet(LineIds(list))
    PROVE  /\ LineIds(less) = LineIds(list) \ {id} /\ IsFiniteSet(LineIds(less))
           /\ Cardinality(LineIds(list)) \in Nat
           /\ Cardinality(LineIds(less)) = IF id \in LineIds(list)
                                           THEN Cardinality(LineIds(list)) - 1
                                           ELSE Cardinality(LineIds(list))
<1>1. LineIds(less) = LineIds(list) \ {id}
  BY DEF LineIds, HasLess
<1> QED
  BY <1>1, FS_RemoveElement, FS_CardinalityType

LEMMA RemovedLineElsewhere ==
    ASSUME NEW list, NEW count, NEW id \in DOMAIN list, NEW less, HasLess(list, id, less),
           NEW lines, LinesKept(lines, list, count)
    PROVE  LinesKept(lines, less, count)
<1>1. IsFiniteSet(LineIds(list)) /\ Cardinality(LineIds(list)) <= Len(lines)
  BY DEF LinesKept
<1>2. /\ LineIds(less) = LineIds(list) \ {id} /\ IsFiniteSet(LineIds(less))
      /\ Cardinality(LineIds(list)) \in Nat
      /\ Cardinality(LineIds(less)) = IF id \in LineIds(list)
                                      THEN Cardinality(LineIds(list)) - 1
                                      ELSE Cardinality(LineIds(list))
  BY <1>1, RemovedLineIds
<1>3. Len(lines) \in Nat
  BY SeqDomain DEF LinesKept
<1>4. Cardinality(LineIds(less)) <= Len(lines)
  BY <1>1, <1>2, <1>3
<1>5. DOMAIN less = DOMAIN list \ {id}
  BY DEF HasLess
<1> QED
  BY <1>2, <1>4, <1>5 DEF LinesKept

LEMMA RemovedLine ==
    ASSUME NEW list, NEW count, NEW id \in DOMAIN list, NEW less, HasLess(list, id, less),
           NEW lines, LinesKept(lines, list, count), id \in LineIds(list),
           NEW at \in 1..Len(lines)
    PROVE  LinesKept(RemoveAt(lines, at), less, count)
<1> DEFINE all == RemoveAt(lines, at)
           from(j) == IF j < at THEN j ELSE j + 1
<1>1. IsFiniteSet(LineIds(list)) /\ Cardinality(LineIds(list)) <= Len(lines) /\ IsSeq(lines)
  BY DEF LinesKept
<1>2. /\ LineIds(less) = LineIds(list) \ {id} /\ IsFiniteSet(LineIds(less))
      /\ Cardinality(LineIds(list)) \in Nat
      /\ Cardinality(LineIds(less)) = IF id \in LineIds(list)
                                      THEN Cardinality(LineIds(list)) - 1
                                      ELSE Cardinality(LineIds(list))
  BY <1>1, RemovedLineIds
<1>3. Len(lines) \in Nat
  BY <1>1, SeqDomain
<1>4. /\ IsSeq(all) /\ Len(all) = Len(lines) - 1
      /\ \A j \in 1..(Len(lines) - 1) : all[j] = lines[from(j)]
  BY <1>1, RemoveAtIsSeq
<1> HIDE DEF all
<1>5. Cardinality(LineIds(less)) <= Len(all)
  BY <1>1, <1>2, <1>3, <1>4
<1>6. \A j \in 1..Len(all) : from(j) \in 1..Len(lines) /\ all[j] = lines[from(j)]
  BY <1>3, <1>4
<1>7. \A i, j \in 1..Len(all) : from(i) = from(j) => i = j
  BY <1>3, <1>4
<1>8. DOMAIN less = DOMAIN list \ {id}
  BY DEF HasLess
<1> HIDE DEF from
<1>9. ASSUME NEW j \in 1..Len(all)
      PROVE  /\ Owned(all[j], count) /\ Once(all[j])
             /\ all[j].owner \in DOMAIN less => all[j].owner \in LineIds(less)
  BY <1>2, <1>6, <1>8 DEF LinesKept
<1>10. ASSUME NEW i \in 1..Len(all), NEW j \in 1..Len(all), all[i].owner = all[j].owner
       PROVE  i = j
  <2>1. lines[from(i)].owner = lines[from(j)].owner
    BY <1>6, <1>10
  <2>2. from(i) = from(j)
    BY <1>6, <2>1 DEF LinesKept
  <2> QED
    BY <1>7, <2>2
<1>11. LinesKept(all, less, count)
  BY <1>2, <1>4, <1>5, <1>9, <1>10 DEF LinesKept
<1> QED
  BY <1>11 DEF all

\* What breakpoint_remove leaves in the globals.
LEMMA WithoutIs ==
    ASSUME NEW g, DOMAIN g = Fields, NEW admin, admin.table \in Tables
    PROVE  /\ Only(g, Without(g, admin), Tables)
           /\ admin.table # "line_breakpoints" =>
                Without(g, admin) = [g EXCEPT ![admin.table] = Restrict(@, DOMAIN @ \ {admin.key})]
           /\ admin.table = "line_breakpoints" /\ IsSeq(g.line_breakpoints) =>
                \/ Without(g, admin) = g
                \/ \E at \in 1..Len(g.line_breakpoints) :
                      Without(g, admin) = [g EXCEPT !.line_breakpoints = RemoveAt(@, at)]
<1> DEFINE lines == g.line_breakpoints
           same  == {i \in DOMAIN lines : lines[i].lineno = admin.key}
           at    == CHOOSE i \in same : \A j \in same : i <= j
<1>1. CASE admin.table # "line_breakpoints"
  <2>1. Without(g, admin) = [g EXCEPT ![admin.table] = Restrict(@, DOMAIN @ \ {admin.key})]
    BY <1>1, Zenon DEF Without
  <2> DEFINE fewer == Restrict(g[admin.table], DOMAIN g[admin.table] \ {admin.key})
  <2>2. Without(g, admin) = [g EXCEPT ![admin.table] = fewer]
    BY <2>1
  <2> HIDE DEF fewer
  <2>3. Only(g, Without(g, admin), Tables)
    BY <2>2 DEF Only
  <2> QED
    BY <1>1, <2>1, <2>3
<1>2. CASE admin.table = "line_breakpoints"
  <2>1. Without(g, admin) = IF same = {} THEN g ELSE [g EXCEPT !.line_breakpoints = RemoveAt(@, at)]
    BY <1>2, Zenon DEF Without
  <2>2. Only(g, Without(g, admin), Tables)
    <3> DEFINE fewer == RemoveAt(g.line_breakpoints, at)
    <3> HIDE DEF same, at
    <3>1. Without(g, admin) = IF same = {} THEN g ELSE [g EXCEPT !.line_breakpoints = fewer]
      BY <2>1
    <3> HIDE DEF fewer
    <3> QED
      BY <3>1 DEF Only, Tables
  <2>3. ASSUME same # {}, IsSeq(lines)
        PROVE  at \in 1..Len(lines)
    <3>1. same \subseteq 1..Len(lines) /\ Len(lines) \in Nat
      <4>1. DOMAIN lines = 1..Len(lines) /\ Len(lines) \in Nat
        BY <2>3, SeqDomain
      <4> QED
        BY <4>1
    <3> HIDE DEF same
    <3>2. same \subseteq Nat
      BY <3>1
    <3>3. \E i \in same : \A j \in same : i <= j
      BY <2>3, <3>2, LeastNumber
    <3> QED
      BY <3>1, <3>3
  <2> HIDE DEF same, at
  <2> QED
    BY <1>2, <2>1, <2>2, <2>3
<1> QED
  BY <1>1, <1>2

LEMMA BreakpointsRemoved ==
    ASSUME NEW g, DOMAIN g = Fields, BreakpointsOK(g), NEW id \in DOMAIN g.breakpoint_list
    PROVE  BreakpointsOK(BreakpointRemove(g, id)) /\ Only(g, BreakpointRemove(g, id), Kept \cup {"crashed"})
<1> DEFINE list  == g.breakpoint_list
           admin == list[id]
           w     == Without(g, admin)
           less  == Restrict(list, DOMAIN list \ {id})
           h     == [w EXCEPT !.breakpoint_list = less]
           c     == [g EXCEPT !.crashed = TRUE]
<1>1. admin.table \in Tables
  BY DEF BreakpointsOK, Listed
<1>2. HasLess(list, id, less)
  BY RestrictIs
<1>3. Only(g, w, Tables) /\ w.breakpoint_list = list
  <2>1. Only(g, w, Tables)
    BY <1>1, WithoutIs
  <2> QED
    BY <2>1 DEF Only, Fields, Tables
<1>4. BreakpointRemove(g, id) = IF Lookup(g, admin) = NoPlace THEN c ELSE h
  BY <1>3, Zenon DEF BreakpointRemove
<1>5. BreakpointsOK(c) /\ Only(g, c, {"crashed"})
  <2>1. Only(g, c, {"crashed"})
    BY DEF Only
  <2> QED
    BY <2>1, BreakpointsSame DEF Kept, Placed
<1>6. /\ LinesKept(g.line_breakpoints, list, g.breakpoint_count)
      /\ NamesKept(g.function_breakpoints, "function_breakpoints", list, g.breakpoint_count, g.shared)
      /\ NamesKept(g.exception_breakpoints, "exception_breakpoints", list, g.breakpoint_count, g.shared)
      /\ Listed(list, g.breakpoint_count) /\ PlacesKept(list, g.shared)
      /\ IsSeq(g.line_breakpoints)
  BY DEF BreakpointsOK, LinesKept
<1>7. \/ w = g /\ admin.table = "line_breakpoints"
      \/ /\ admin.table = "line_breakpoints"
         /\ \E at \in 1..Len(g.line_breakpoints) :
               w = [g EXCEPT !.line_breakpoints = RemoveAt(@, at)]
      \/ admin.table # "line_breakpoints"
            /\ w = [g EXCEPT ![admin.table] = Restrict(@, DOMAIN @ \ {admin.key})]
  BY <1>1, <1>6, WithoutIs
<1> HIDE DEF w, less
<1>8. /\ Only(g, h, Kept) /\ h.breakpoint_list = less
      /\ h.line_breakpoints = w.line_breakpoints
      /\ h.function_breakpoints = w.function_breakpoints
      /\ h.exception_breakpoints = w.exception_breakpoints
      /\ h.shared = g.shared /\ h.breakpoint_count = g.breakpoint_count
  BY <1>3 DEF Only, Kept, Placed, Tables, Fields
<1>9. Listed(less, g.breakpoint_count) /\ PlacesKept(less, g.shared)
  BY <1>2, <1>6, RemovedList
<1>10. LinesKept(w.line_breakpoints, less, g.breakpoint_count)
  <2>1. LinesKept(g.line_breakpoints, less, g.breakpoint_count)
    BY <1>2, <1>6, RemovedLineElsewhere
  <2>2. ASSUME admin.table = "line_breakpoints", NEW at \in 1..Len(g.line_breakpoints),
               w = [g EXCEPT !.line_breakpoints = RemoveAt(@, at)]
        PROVE  LinesKept(w.line_breakpoints, less, g.breakpoint_count)
    <3>1. id \in LineIds(list)
      BY <2>2 DEF LineIds
    <3>2. w.line_breakpoints = RemoveAt(g.line_breakpoints, at)
      BY <2>2 DEF Fields
    <3> QED
      BY <1>2, <1>6, <3>1, <3>2, RemovedLine
  <2>3. ASSUME admin.table # "line_breakpoints",
               w = [g EXCEPT ![admin.table] = Restrict(@, DOMAIN @ \ {admin.key})]
        PROVE  w.line_breakpoints = g.line_breakpoints
    BY <2>3 DEF Fields
  <2> QED
    BY <1>7, <2>1, <2>2, <2>3
<1>11. ASSUME NEW table \in {"function_breakpoints", "exception_breakpoints"}
       PROVE  NamesKept(w[table], table, less, g.breakpoint_count, g.shared)
  <2>1. NamesKept(g[table], table, list, g.breakpoint_count, g.shared)
    BY <1>6
  <2>2. CASE w[table] = g[table]
    BY <1>2, <2>1, <2>2, RemovedNameElsewhere
  <2>3. CASE admin.table = table /\ w[table] = Restrict(g[table], DOMAIN g[table] \ {admin.key})
    <3>1. HasLess(g[table], admin.key, w[table])
      BY <2>3, RestrictIs
    <3> QED
      BY <1>2, <1>6, <2>1, <2>3, <3>1, RemovedName
  <2>4. \/ w[table] = g[table]
        \/ admin.table = table /\ w[table] = Restrict(g[table], DOMAIN g[table] \ {admin.key})
    <3>1. ASSUME NEW at, w = [g EXCEPT !.line_breakpoints = RemoveAt(@, at)]
          PROVE  w[table] = g[table]
      BY <3>1 DEF Fields
    <3>2. ASSUME w = [g EXCEPT ![admin.table] = Restrict(@, DOMAIN @ \ {admin.key})]
          PROVE  \/ w[table] = g[table]
                 \/ admin.table = table /\ w[table] = Restrict(g[table], DOMAIN g[table] \ {admin.key})
      BY <3>2 DEF Fields
    <3> QED
      BY <1>7, <3>1, <3>2
  <2> QED
    BY <2>2, <2>3, <2>4
<1>12. BreakpointsOK(h)
  <2>1. /\ NamesKept(w.function_breakpoints, "function_breakpoints", less, g.breakpoint_count, g.shared)
        /\ NamesKept(w.exception_breakpoints, "exception_breakpoints", less, g.breakpoint_count, g.shared)
    BY <1>11
  <2> HIDE DEF h
  <2> QED
    BY <1>8, <1>9, <1>10, <2>1 DEF BreakpointsOK
<1> HIDE DEF h, c
<1> QED
  BY <1>4, <1>5, <1>8, <1>12, OnlyMore

-----------------------------------------------------------------------------
(* Changing a breakpoint *)

\* c is what becomes of a breakpoint b.
Replaces(b, c) == DOMAIN c = Recorded /\ c.owner = b.owner

LinesReplaced(lines, others) ==
    /\ IsSeq(others) /\ Len(others) = Len(lines)
    /\ \A i \in 1..Len(lines) : Replaces(lines[i], others[i]) /\ Once(others[i])

HashReplaced(hash, other, table) ==
    /\ DOMAIN other = DOMAIN hash
    /\ \A k \in DOMAIN hash : Replaces(hash[k], other[k])
    /\ table = "function_breakpoints" => \A k \in DOMAIN hash : Once(other[k])

LEMMA BreakpointsReplaced ==
    ASSUME NEW g, NEW h, Only(g, h, Tables), BreakpointsOK(g),
           LinesReplaced(g.line_breakpoints, h.line_breakpoints),
           HashReplaced(g.function_breakpoints, h.function_breakpoints, "function_breakpoints"),
           HashReplaced(g.exception_breakpoints, h.exception_breakpoints, "exception_breakpoints")
    PROVE  BreakpointsOK(h)
<1>1. /\ h.breakpoint_list = g.breakpoint_list /\ h.breakpoint_count = g.breakpoint_count
      /\ h.shared = g.shared
  BY DEF Only, Fields, Tables
<1>2. LinesKept(h.line_breakpoints, g.breakpoint_list, g.breakpoint_count)
  <2>1. LinesKept(g.line_breakpoints, g.breakpoint_list, g.breakpoint_count)
    BY DEF BreakpointsOK
  <2>2. \A i \in 1..Len(g.line_breakpoints) :
           Owned(h.line_breakpoints[i], g.breakpoint_count) /\ Once(h.line_breakpoints[i])
    BY <2>1 DEF LinesKept, LinesReplaced, Replaces, Owned
  <2>3. \A i \in 1..Len(g.line_breakpoints) :
           h.line_breakpoints[i].owner = g.line_breakpoints[i].owner
    BY DEF LinesReplaced, Replaces
  <2> QED
    BY <2>1, <2>2, <2>3 DEF LinesKept, LinesReplaced
<1>3. ASSUME NEW table, NEW hash, NEW other, HashReplaced(hash, other, table),
             NamesKept(hash, table, g.breakpoint_list, g.breakpoint_count, g.shared)
      PROVE  NamesKept(other, table, g.breakpoint_list, g.breakpoint_count, g.shared)
  BY <1>3 DEF NamesKept, HashReplaced, Replaces, Owned
<1> QED
  BY <1>1, <1>2, <1>3 DEF BreakpointsOK

LEMMA ExceptIsSeq ==
    ASSUME NEW s, IsSeq(s), NEW i \in 1..Len(s), NEW e
    PROVE  IsSeq([s EXCEPT ![i] = e]) /\ Len([s EXCEPT ![i] = e]) = Len(s)
<1> DEFINE S == Range(s) \cup {e}
<1>1. s \in Seq(Range(s)) /\ Range(s) \subseteq S /\ e \in S
  BY DEF IsSeq
<1> HIDE DEF S
<1>2. s \in Seq(S)
  BY <1>1
<1>3. [s EXCEPT ![i] = e] \in Seq(S) /\ Len([s EXCEPT ![i] = e]) = Len(s)
  BY <1>1, <1>2, ExceptSeq
<1> QED
  BY <1>3, SeqIsSeq

\* One breakpoint of a table changes.
LEMMA BreakpointReplaced ==
    ASSUME NEW g, DOMAIN g = Fields, BreakpointsOK(g), NEW table \in Tables,
           NEW k \in DOMAIN g[table], NEW brk, Replaces(g[table][k], brk),
           table # "exception_breakpoints" => Once(brk)
    PROVE  /\ Only(g, [g EXCEPT ![table][k] = brk], Tables)
           /\ BreakpointsOK([g EXCEPT ![table][k] = brk])
<1> DEFINE other == [g[table] EXCEPT ![k] = brk]
           h     == [g EXCEPT ![table] = other]
<1>1. h = [g EXCEPT ![table][k] = brk]
  OBVIOUS
<1>2. DOMAIN other = DOMAIN g[table] /\ \A j \in DOMAIN g[table] : other[j] = IF j = k THEN brk ELSE g[table][j]
  OBVIOUS
<1>3. table = "line_breakpoints" => IsSeq(other) /\ Len(other) = Len(g[table])
  <2>1. table = "line_breakpoints" => IsSeq(g[table]) /\ k \in 1..Len(g[table])
    BY SeqDomain DEF BreakpointsOK, LinesKept
  <2> QED
    BY <2>1, ExceptIsSeq
<1> HIDE DEF other
<1>4. Only(g, h, Tables)
  BY DEF Only
<1>5. /\ \A t \in Tables : t # table => h[t] = g[t]
      /\ h[table] = other
  BY DEF Tables, Fields
<1> HIDE DEF h
<1>6. LinesReplaced(g.line_breakpoints, h.line_breakpoints)
  <2>1. /\ IsSeq(g.line_breakpoints)
        /\ \A i \in 1..Len(g.line_breakpoints) :
              Owned(g.line_breakpoints[i], g.breakpoint_count) /\ Once(g.line_breakpoints[i])
    BY DEF BreakpointsOK, LinesKept
  <2>2. DOMAIN g.line_breakpoints = 1..Len(g.line_breakpoints)
    BY <2>1, SeqDomain
  <2>3. \A i \in 1..Len(g.line_breakpoints) : Replaces(g.line_breakpoints[i], g.line_breakpoints[i])
    BY <2>1 DEF Replaces, Owned
  <2>4. CASE table = "line_breakpoints"
    <3>1. h.line_breakpoints = other
      BY <1>5, <2>4
    <3> QED
      BY <1>2, <1>3, <2>1, <2>2, <2>3, <2>4, <3>1 DEF LinesReplaced
  <2>5. CASE table # "line_breakpoints"
    <3>1. h.line_breakpoints = g.line_breakpoints
      BY <1>5, <2>5 DEF Tables
    <3> QED
      BY <2>1, <2>3, <3>1 DEF LinesReplaced
  <2> QED
    BY <2>4, <2>5
<1>7. ASSUME NEW t \in {"function_breakpoints", "exception_breakpoints"}
      PROVE  HashReplaced(g[t], h[t], t)
  <2>1. NamesKept(g[t], t, g.breakpoint_list, g.breakpoint_count, g.shared)
    BY DEF BreakpointsOK
  <2>2. \A j \in DOMAIN g[t] : Replaces(g[t][j], g[t][j])
    BY <2>1 DEF NamesKept, Owned, Replaces
  <2>3. t = "function_breakpoints" => \A j \in DOMAIN g[t] : Once(g[t][j])
    BY <2>1 DEF NamesKept
  <2>4. CASE t = table
    BY <1>2, <1>5, <2>2, <2>3, <2>4 DEF HashReplaced
  <2>5. CASE t # table
    <3>1. h[t] = g[t]
      BY <1>5, <2>5 DEF Tables
    <3> QED
      BY <2>2, <2>3, <3>1 DEF HashReplaced
  <2> QED
    BY <2>4, <2>5
<1>8. BreakpointsOK(h)
  BY <1>4, <1>6, <1>7, BreakpointsReplaced
<1> QED
  BY <1>1, <1>4, <1>8

\* Where an id leads.
LEMMA LookupIs ==
    ASSUME NEW g, NEW admin, admin.table \in Tables, IsSeq(g.line_breakpoints),
           Lookup(g, admin) # NoPlace
    PROVE  \E k \in DOMAIN g[admin.table] : Lookup(g, admin) = <<admin.table, k>>
<1> DEFINE lines == g.line_breakpoints
           same  == {i \in DOMAIN lines : lines[i].lineno = admin.key}
           first == CHOOSE i \in same : \A j \in same : i <= j
<1>1. CASE admin.table = "line_breakpoints"
  <2>1. Lookup(g, admin) = IF same # {} THEN <<"line_breakpoints", first>>
                           ELSE IF lines = <<>> THEN NoPlace
                           ELSE <<"line_breakpoints", Len(lines)>>
    BY <1>1, Zenon DEF Lookup
  <2>2. DOMAIN lines = 1..Len(lines) /\ Len(lines) \in Nat /\ (Len(lines) = 0 => lines = <<>>)
    <3>1. lines \in Seq(Range(lines))
      BY DEF IsSeq
    <3>2. Len(lines) = 0 => lines = <<>>
      BY <3>1, EmptySeq
    <3> QED
      BY <3>2, SeqDomain
  <2>3. ASSUME same # {} PROVE first \in DOMAIN lines
    <3>1. same \subseteq DOMAIN lines /\ same \subseteq Nat
      BY <2>2
    <3> HIDE DEF same
    <3>2. \E i \in same : \A j \in same : i <= j
      BY <2>3, <3>1, LeastNumber
    <3> QED
      BY <3>1, <3>2
  <2>4. lines # <<>> => Len(lines) \in DOMAIN lines
    BY <2>2
  <2> HIDE DEF same, first, lines
  <2> QED
    BY <1>1, <2>1, <2>3, <2>4 DEF lines
<1>2. CASE admin.table # "line_breakpoints"
  <2>1. Lookup(g, admin) = IF admin.key \in DOMAIN g[admin.table] THEN <<admin.table, admin.key>>
                           ELSE NoPlace
    BY <1>2, Zenon DEF Lookup
  <2> QED
    BY <2>1
<1> QED
  BY <1>1, <1>2

Updated == {"disabled", "lineno", "hit_value", "hit_condition"}

LEMMA BreakpointsUpdated ==
    ASSUME NEW g, DOMAIN g = Fields, BreakpointsOK(g), NEW id \in DOMAIN g.breakpoint_list,
           NEW u, u.field \in Updated
    PROVE  /\ BreakpointsOK(BreakpointUpdate(g, id, u))
           /\ Only(g, BreakpointUpdate(g, id, u), Kept \cup {"crashed"})
<1> DEFINE admin == g.breakpoint_list[id]
           place == Lookup(g, admin)
           c     == [g EXCEPT !.crashed = TRUE]
           brk   == [At(g, place) EXCEPT ![u.field] = u.value,
                                        !.stops = IF u.field = "disabled" THEN 0 ELSE @]
<1>1. CASE place = NoPlace
  <2>1. BreakpointUpdate(g, id, u) = c
    BY <1>1, Zenon DEF BreakpointUpdate
  <2>2. Only(g, c, {"crashed"})
    BY DEF Only
  <2>3. BreakpointsOK(c)
    BY <2>2, BreakpointsSame DEF Kept, Placed
  <2> QED
    BY <2>1, <2>2, <2>3, OnlyMore
<1>2. CASE place # NoPlace
  <2>1. BreakpointUpdate(g, id, u) = Put(g, place, brk)
    BY <1>2, Zenon DEF BreakpointUpdate
  <2>2. admin.table \in Tables /\ IsSeq(g.line_breakpoints)
    BY DEF BreakpointsOK, Listed, LinesKept
  <2>3. PICK k \in DOMAIN g[admin.table] : place = <<admin.table, k>>
    BY <1>2, <2>2, LookupIs
  <2> DEFINE old == g[admin.table][k]
  <2>4. At(g, place) = old
    BY <2>3 DEF At
  <2>5. Owned(old, g.breakpoint_count) /\ (admin.table # "exception_breakpoints" => Once(old))
    <3>1. CASE admin.table = "line_breakpoints"
      <4>1. k \in 1..Len(g.line_breakpoints)
        BY <2>2, <2>3, <3>1, SeqDomain
      <4> QED
        BY <3>1, <4>1 DEF BreakpointsOK, LinesKept
    <3>2. CASE admin.table \in {"function_breakpoints", "exception_breakpoints"}
      BY <2>3, <3>2 DEF BreakpointsOK, NamesKept
    <3> QED
      BY <2>2, <3>1, <3>2 DEF Tables
  <2> HIDE DEF old, admin, place
  <2>6. brk = [old EXCEPT ![u.field] = u.value,
                          !.stops = IF u.field = "disabled" THEN 0 ELSE @]
    BY <2>4
  <2> HIDE DEF brk
  <2>7. Replaces(old, brk)
    BY <2>5, <2>6 DEF Replaces, Owned, Recorded, Updated
  <2>8. Once(old) => Once(brk)
    BY <2>5, <2>6 DEF Owned, Once, Recorded, Updated
  <2>9. Put(g, place, brk) = [g EXCEPT ![admin.table][k] = brk]
    BY <2>3 DEF Put
  <2>10. /\ Only(g, [g EXCEPT ![admin.table][k] = brk], Tables)
         /\ BreakpointsOK([g EXCEPT ![admin.table][k] = brk])
    BY <2>2, <2>3, <2>5, <2>7, <2>8, BreakpointReplaced DEF old
  <2>11. Tables \subseteq Kept \cup {"crashed"}
    BY DEF Tables, Kept, Placed
  <2> QED
    BY <2>1, <2>9, <2>10, <2>11, OnlyMore
<1> QED
  BY <1>1, <1>2

-----------------------------------------------------------------------------
(* Breakpoints that are hit *)

LEMMA HitReplaces ==
    ASSUME NEW b, DOMAIN b = Recorded
    PROVE  /\ Replaces(b, Stopping(Hit(b)))
           /\ Once(b) /\ ~b.disabled => Once(Stopping(Hit(b)))
<1> DEFINE c == Hit(b)
           d == [c EXCEPT !.stops = @ + 1]
<1>1. /\ DOMAIN c = Recorded /\ c.owner = b.owner /\ c.temporary = b.temporary
      /\ c.stops = b.stops /\ c.disabled = (b.disabled \/ b.temporary)
  BY DEF Hit, Recorded
<1>2. Stopping(Hit(b)) = IF Breaks(c) THEN d ELSE c
  BY DEF Stopping
<1> HIDE DEF c
<1>3. /\ DOMAIN d = Recorded /\ d.owner = b.owner /\ d.temporary = b.temporary
      /\ d.stops = b.stops + 1 /\ d.disabled = c.disabled
  BY <1>1 DEF Recorded
<1> HIDE DEF d
<1>4. Once(b) /\ ~b.disabled => Once(c) /\ Once(d)
  <2>1. b.temporary => c.disabled
    BY <1>1
  <2>2. b.temporary => d.disabled
    BY <1>3, <2>1
  <2>3. ASSUME Once(b), ~b.disabled, b.temporary
        PROVE  c.stops \in {0, 1} /\ d.stops \in {0, 1}
    BY <1>1, <1>3, <2>3 DEF Once
  <2> QED
    BY <1>1, <1>3, <2>1, <2>2, <2>3 DEF Once
<1> QED
  BY <1>1, <1>2, <1>3, <1>4 DEF Replaces

\* h is g with some breakpoints that have counted a hit.
Counts(g, h) == Only(g, h, Tables) /\ (BreakpointsOK(g) => BreakpointsOK(h))

LEMMA CountsSame == ASSUME NEW g, DOMAIN g = Fields PROVE Counts(g, g)
BY OnlyNone DEF Counts

LEMMA HandleBreakpointsIs ==
    ASSUME NEW g, DOMAIN g = Fields, NEW type
    PROVE  LET h == HandleBreakpoints(g, type)
           IN  \/ h = g
               \/ /\ g.remote_enabled
                  /\ \E k : /\ Counts(g, k)
                            /\ h \in {k, Break(k), [k EXCEPT !.do_break = TRUE]}
<1> DEFINE fn  == Last(g.stack).fn
           brk == g.function_breakpoints[fn]
           hit == Stopping(Hit(brk))
           k   == [g EXCEPT !.function_breakpoints[fn] = hit]
           h   == HandleBreakpoints(g, type)
<1>1. \/ h = g
      \/ /\ g.remote_enabled /\ fn \in DOMAIN g.function_breakpoints /\ ~brk.disabled
         /\ h \in {k, Break(k), [k EXCEPT !.do_break = TRUE]}
  BY Zenon DEF HandleBreakpoints
<1>2. ASSUME fn \in DOMAIN g.function_breakpoints, ~brk.disabled
      PROVE  Counts(g, k)
  <2>1. Only(g, k, Tables)
    <3> HIDE DEF hit
    <3> QED
      BY DEF Only, Tables
  <2>2. ASSUME BreakpointsOK(g) PROVE BreakpointsOK(k)
    <3>1. Owned(brk, g.breakpoint_count) /\ Once(brk)
      BY <1>2, <2>2 DEF BreakpointsOK, NamesKept
    <3>2. Replaces(brk, hit) /\ Once(hit)
      BY <1>2, <3>1, HitReplaces DEF Owned
    <3>3. g.function_breakpoints = g["function_breakpoints"] /\ "function_breakpoints" \in Tables
      BY DEF Tables
    <3> HIDE DEF hit, fn
    <3> QED
      BY <1>2, <2>2, <3>2, <3>3, BreakpointReplaced
  <2> QED
    BY <2>1, <2>2 DEF Counts
<1> HIDE DEF h, k, brk, fn
<1>3. h = g \/ (g.remote_enabled /\ \E m : Counts(g, m) /\ h \in {m, Break(m), [m EXCEPT !.do_break = TRUE]})
  BY <1>1, <1>2
<1> QED
  BY <1>3 DEF h

LEMMA ExceptionHitIs ==
    ASSUME NEW g, DOMAIN g = Fields, NEW names
    PROVE  LET h == ExceptionHit(g, names)
           IN  h = g \/ (g.remote_enabled /\ \E k : Counts(g, k) /\ h \in {k, Break(k)})
<1> DEFINE found == SelectSeq(names, LAMBDA n : n \in DOMAIN g.exception_breakpoints)
           key   == found[1]
           hash  == g.exception_breakpoints
           hit   == Stopping(Hit(hash[key]))
           other == [hash EXCEPT ![key] = hit]
           k     == [g EXCEPT !.exception_breakpoints = other]
           h     == ExceptionHit(g, names)
<1>1. h = g \/ (g.remote_enabled /\ h \in {k, Break(k)})
  BY Zenon DEF ExceptionHit
<1>2. Counts(g, k)
  <2>1. Only(g, k, Tables)
    <3> HIDE DEF other
    <3> QED
      BY DEF Only, Tables
  <2>2. ASSUME BreakpointsOK(g) PROVE BreakpointsOK(k)
    <3>1. \A j \in DOMAIN hash : Owned(hash[j], g.breakpoint_count)
      BY <2>2 DEF BreakpointsOK, NamesKept
    <3>2. \A j \in DOMAIN hash : Replaces(hash[j], hash[j]) /\ Replaces(hash[j], Stopping(Hit(hash[j])))
      BY <3>1, HitReplaces DEF Owned, Replaces
    <3> HIDE DEF found
    <3>3. DOMAIN other = DOMAIN hash /\ \A j \in DOMAIN hash : other[j] \in {hash[j], Stopping(Hit(hash[j]))}
      <4> HIDE DEF key
      <4> QED
        OBVIOUS
    <3> HIDE DEF other
    <3>4. HashReplaced(hash, other, "exception_breakpoints")
      BY <3>2, <3>3 DEF HashReplaced
    <3>5. /\ k.exception_breakpoints = other /\ k.line_breakpoints = g.line_breakpoints
          /\ k.function_breakpoints = g.function_breakpoints
      BY DEF Fields
    <3>6. LinesReplaced(g.line_breakpoints, k.line_breakpoints)
      BY <2>2, <3>5 DEF BreakpointsOK, LinesKept, LinesReplaced, Replaces, Owned
    <3>7. HashReplaced(g.function_breakpoints, k.function_breakpoints, "function_breakpoints")
      BY <2>2, <3>5 DEF BreakpointsOK, NamesKept, HashReplaced, Replaces, Owned
    <3> HIDE DEF k
    <3> QED
      BY <2>1, <2>2, <3>4, <3>5, <3>6, <3>7, BreakpointsReplaced
  <2> QED
    BY <2>1, <2>2 DEF Counts
<1> HIDE DEF h, k
<1>3. h = g \/ (g.remote_enabled /\ \E m : Counts(g, m) /\ h \in {m, Break(m)})
  BY <1>1, <1>2
<1> QED
  BY <1>3 DEF h

LEMMA LineBreakIs ==
    ASSUME NEW g, DOMAIN g = Fields, NEW line, NEW holds
    PROVE  \E k : Counts(g, k) /\ LineBreak(g, line, holds) \in {k, Break(k)}
<1> DEFINE lines  == g.line_breakpoints
           r      == LineHits(lines, line, holds)
           others == r.brks
           k      == [g EXCEPT !.line_breakpoints = others]
<1>1. LineBreak(g, line, holds) \in {k, Break(k)}
  BY ZenonT(60) DEF LineBreak
<1>2. /\ DOMAIN others = DOMAIN lines
      /\ others = [i \in DOMAIN lines |-> others[i]]
      /\ \A i \in DOMAIN lines :
            \/ others[i] = lines[i]
            \/ ~lines[i].disabled /\ others[i] = Stopping(Hit(lines[i]))
  BY DEF LineHits
<1> HIDE DEF r, others
<1>3. Counts(g, k)
  <2>1. Only(g, k, Tables)
    BY DEF Only, Tables
  <2>2. ASSUME BreakpointsOK(g) PROVE BreakpointsOK(k)
    <3>1. /\ IsSeq(lines) /\ DOMAIN lines = 1..Len(lines) /\ Len(lines) \in Nat
          /\ \A i \in 1..Len(lines) : Owned(lines[i], g.breakpoint_count) /\ Once(lines[i])
      <4>1. IsSeq(lines)
        BY <2>2 DEF BreakpointsOK, LinesKept
      <4> QED
        BY <2>2, <4>1, SeqDomain DEF BreakpointsOK, LinesKept
    <3>2. \A i \in 1..Len(lines) : Replaces(lines[i], others[i]) /\ Once(others[i])
      <4> SUFFICES ASSUME NEW i \in 1..Len(lines)
                   PROVE  Replaces(lines[i], others[i]) /\ Once(others[i])
        OBVIOUS
      <4>1. Owned(lines[i], g.breakpoint_count) /\ Once(lines[i])
        BY <3>1
      <4>2. Replaces(lines[i], lines[i])
        BY <4>1 DEF Owned, Replaces
      <4>3. ~lines[i].disabled =>
              Replaces(lines[i], Stopping(Hit(lines[i]))) /\ Once(Stopping(Hit(lines[i])))
        BY <4>1, HitReplaces DEF Owned
      <4> QED
        BY <1>2, <3>1, <4>1, <4>2, <4>3
    <3>3. IsSeq(others) /\ Len(others) = Len(lines)
      <4> DEFINE S == Range(others)
      <4>1. \A i \in 1..Len(lines) : others[i] \in S
        BY <1>2, <3>1 DEF Range
      <4> HIDE DEF S
      <4>2. others = [i \in 1..Len(lines) |-> others[i]]
        BY <1>2, <3>1
      <4>3. [i \in 1..Len(lines) |-> others[i]] \in Seq(S)
        BY <3>1, <4>1
      <4>4. others \in Seq(S)
        BY <4>2, <4>3
      <4>5. Len(others) \in Nat /\ DOMAIN others = 1..Len(others)
        BY <4>4
      <4>6. Len(others) = Len(lines)
        BY <1>2, <3>1, <4>5
      <4> QED
        BY <4>4, <4>6, SeqIsSeq
    <3>4. /\ k.line_breakpoints = others
          /\ k.function_breakpoints = g.function_breakpoints
          /\ k.exception_breakpoints = g.exception_breakpoints
      BY DEF Fields
    <3>5. HashReplaced(g.function_breakpoints, k.function_breakpoints, "function_breakpoints")
      BY <2>2, <3>4 DEF BreakpointsOK, NamesKept, HashReplaced, Replaces, Owned
    <3>6. HashReplaced(g.exception_breakpoints, k.exception_breakpoints, "exception_breakpoints")
      BY <2>2, <3>4 DEF BreakpointsOK, NamesKept, HashReplaced, Replaces, Owned
    <3>7. LinesReplaced(lines, others)
      BY <3>2, <3>3 DEF LinesReplaced
    <3> HIDE DEF k
    <3> QED
      BY <2>1, <2>2, <3>4, <3>5, <3>6, <3>7, BreakpointsReplaced
  <2> QED
    BY <2>1, <2>2 DEF Counts
<1> HIDE DEF k
<1> QED
  BY <1>1, <1>3

-----------------------------------------------------------------------------
(* Commands about variables and breakpoints *)

Viewed == {"options", "active", "answer", "seen", "crashed"}

\* What an answer to the IDE changes, but for the pages shown: of the options the page.
Views(g, h) ==
    /\ Only(g, h, {"options", "active", "answer", "crashed"})
    /\ h.options = g.options \/ \E p : h.options = [g.options EXCEPT !.page = p]

LEMMA ViewsThen ==
    ASSUME NEW g, NEW h, NEW k, Views(g, h), Views(h, k)
    PROVE  Views(g, k)
<1>1. Only(g, k, {"options", "active", "answer", "crashed"})
  BY OnlyThen DEF Views
<1>2. k.options = g.options \/ \E p : k.options = [g.options EXCEPT !.page = p]
  BY DEF Views
<1> QED
  BY <1>1, <1>2 DEF Views

LEMMA ViewsOnly ==
    ASSUME NEW g, NEW h, Only(g, h, {"active", "answer", "crashed"})
    PROVE  Views(g, h)
<1>1. h.options = g.options
  BY DEF Only, Fields
<1> QED
  BY <1>1 DEF Views, Only

LEMMA FeatureSetOnly ==
    ASSUME NEW g, DOMAIN g = Fields, NEW f
    PROVE  Only(g, FeatureSet(g, f), Viewed)
<1> DEFINE o == FeatureSet(g, f).options
<1>1. FeatureSet(g, f) = [g EXCEPT !.options = o]
  BY DEF FeatureSet, Fields
<1> HIDE DEF o
<1> QED
  BY <1>1 DEF Only, Viewed

LEMMA LookedOnly ==
    ASSUME NEW g, DOMAIN g = Fields, NEW name, NEW b, NEW h \in Looked(g, name, b)
    PROVE  Only(g, h, {"active", "crashed"})
<1> DEFINE c == [g EXCEPT !.crashed = TRUE]
           d == IF Gone(g, g.active.data, b) THEN 0 ELSE g.active.data
           t == IF Gone(g, g.active.this, b) THEN 0 ELSE g.active.this
           a == [[g.active EXCEPT !.data = d] EXCEPT !.this = t]
<1>1. h = g \/ h = c \/ \E e : h = [g EXCEPT !.active = e]
  <2>1. Looked(g, name, b) \subseteq
          {g, c, [g EXCEPT !.active.data = IF Gone(g, @, b) THEN 0 ELSE @,
                           !.active.this = IF Gone(g, @, b) THEN 0 ELSE @]}
    BY Zenon DEF Looked
  <2>2. \E e : [g EXCEPT !.active.data = IF Gone(g, @, b) THEN 0 ELSE @,
                         !.active.this = IF Gone(g, @, b) THEN 0 ELSE @] = [g EXCEPT !.active = e]
    <3> DEFINE k == [g EXCEPT !.active.data = IF Gone(g, @, b) THEN 0 ELSE @,
                              !.active.this = IF Gone(g, @, b) THEN 0 ELSE @]
    <3>1. k = [g EXCEPT !.active = k.active]
      BY DEF Fields
    <3> QED
      BY <3>1
  <2> QED
    BY <2>1, <2>2
<1> QED
  BY <1>1 DEF Only

LEMMA PreparedOnly ==
    ASSUME NEW g, DOMAIN g = Fields, NEW q, NEW h \in Prepared(g, q)
    PROVE  /\ Only(g, h, {"options", "active", "answer", "crashed"})
           /\ h.options = [g.options EXCEPT !.page = q.page]
<1> DEFINE a == Look(g, q.depth, q.context)
           k == [g EXCEPT !.active = a, !.options.page = q.page, !.answer = NoAnswer]
<1>1. h = k \/ h = [k EXCEPT !.crashed = TRUE]
  BY Zenon DEF Prepared
<1> HIDE DEF a
<1>2. /\ Only(g, k, {"options", "active", "answer", "crashed"})
      /\ k.options = [g.options EXCEPT !.page = q.page]
  BY DEF Only, Fields
<1> HIDE DEF k
<1> QED
  BY <1>1, <1>2 DEF Only, Fields

LEMMA AnswerToOnly ==
    ASSUME NEW h, DOMAIN h = Fields, NEW q, NEW nodes
    PROVE  Only(h, AnswerTo(h, q, nodes), {"answer"})
<1> DEFINE a == [context |-> q.context, depth |-> q.depth, nodes |-> nodes,
                 nr  |-> IF q.context = 1 THEN 1 ELSE h.stack[Len(h.stack) - q.depth].nr,
                 own |-> ~(q.context = 0 /\ q.depth = 0 /\ Returning(h))]
<1>1. AnswerTo(h, q, nodes) = [h EXCEPT !.answer = a]
  BY DEF AnswerTo
<1> HIDE DEF a
<1> QED
  BY <1>1 DEF Only

LEMMA UnansweredOnly ==
    ASSUME NEW g, DOMAIN g = Fields
    PROVE  /\ Views(g, [g EXCEPT !.answer = NoAnswer])
           /\ Views(g, [g EXCEPT !.options.page = 0, !.answer = NoAnswer])
<1>1. Only(g, [g EXCEPT !.answer = NoAnswer], {"active", "answer", "crashed"})
  BY DEF Only
<1> DEFINE k == [g EXCEPT !.options.page = 0, !.answer = NoAnswer]
<1>2. /\ Only(g, k, {"options", "active", "answer", "crashed"})
      /\ k.options = [g.options EXCEPT !.page = 0]
  BY DEF Only, Fields
<1> HIDE DEF k
<1>3. Views(g, k)
  BY <1>2 DEF Views
<1> QED
  BY <1>1, <1>3, ViewsOnly DEF k

LEMMA CrashedViews ==
    ASSUME NEW g, NEW h, Views(g, h), NEW c
    PROVE  Views(g, [h EXCEPT !.crashed = c])
<1> DEFINE k == [h EXCEPT !.crashed = c]
<1>1. Only(g, k, {"options", "active", "answer", "crashed"}) /\ k.options = h.options
  BY DEF Views, Only, Fields
<1> HIDE DEF k
<1>2. Views(g, k)
  BY <1>1 DEF Views
<1> QED
  BY <1>2 DEF k

LEMMA AnswerViews ==
    ASSUME NEW g, NEW h, Views(g, h), NEW q, NEW nodes
    PROVE  Views(g, AnswerTo(h, q, nodes))
<1>1. Only(h, AnswerTo(h, q, nodes), {"answer"})
  BY AnswerToOnly DEF Views, Only
<1>2. Only(h, AnswerTo(h, q, nodes), {"active", "answer", "crashed"})
  BY <1>1, OnlyMore
<1> QED
  BY <1>2, ViewsOnly, ViewsThen

\* The states that a query is answered in.
Ready(g, q, b) == UNION {Looked(k, q.name, b) : k \in Prepared(g, q)}

LEMMA ReadyOnly ==
    ASSUME NEW g, DOMAIN g = Fields, NEW q, NEW b, NEW h \in Ready(g, q, b)
    PROVE  /\ Views(g, h) /\ DOMAIN h = Fields
           /\ h.options = [g.options EXCEPT !.page = q.page]
<1>1. PICK k \in Prepared(g, q) : h \in Looked(k, q.name, b)
  BY DEF Ready
<1>2. /\ Only(g, k, {"options", "active", "answer", "crashed"}) /\ DOMAIN k = Fields
      /\ k.options = [g.options EXCEPT !.page = q.page]
  BY PreparedOnly DEF Only
<1>3. Only(k, h, {"active", "crashed"})
  BY <1>1, <1>2, LookedOnly
<1>4. DOMAIN h = Fields /\ h.options = k.options
  BY <1>3 DEF Only, Fields
<1>5. Only(g, h, {"options", "active", "answer", "crashed"})
  BY <1>2, <1>3 DEF Only
<1> QED
  BY <1>2, <1>4, <1>5 DEF Views

\* The page that a query has shown.
PageShown(h, q) ==
    LET v == Symbol(h, q.name)
    IN  [name |-> q.name, depth |-> q.depth, context |-> q.context, page |-> q.page,
         val |-> v, of |-> Len(Children(h, v)),
         at |-> {n.at : n \in {m \in ValueNode(h, v, q.name) : m.level = 0}}]

LEMMA PropertyGetIs ==
    ASSUME NEW g, DOMAIN g = Fields, NEW q, NEW b, NEW h \in PropertyGet(g, q, b)
    PROVE  \/ Views(g, h)
           \/ \E k \in Ready(g, q, b) : \E m :
                 Views(g, m) /\ h = [m EXCEPT !.seen = g.seen \cup {PageShown(k, q)}]
<1>1. \/ h = [g EXCEPT !.answer = NoAnswer]
      \/ \E k \in Ready(g, q, b) :
            \/ h = k
            \/ h = [k EXCEPT !.crashed = TRUE]
            \/ \E nodes : h = [AnswerTo(k, q, nodes) EXCEPT !.seen =
                                  AnswerTo(k, q, nodes).seen \cup {PageShown(k, q)}]
  <2>1. CASE ~HasFrame(g, q)
    BY <2>1, Zenon DEF PropertyGet
  <2>2. CASE HasFrame(g, q)
    <3> DEFINE nodes(k) == ValueNode(k, Symbol(k, q.name), q.name)
               all(k)   == AnswerTo(k, q, nodes(k)).seen \cup {PageShown(k, q)}
               result(k) == IF k.crashed \/ Symbol(k, q.name) = Undef THEN k
                            ELSE IF Symbol(k, q.name) = Crash THEN [k EXCEPT !.crashed = TRUE]
                            ELSE [AnswerTo(k, q, nodes(k)) EXCEPT !.seen = all(k)]
    <3>1. PropertyGet(g, q, b) = {result(k) : k \in Ready(g, q, b)}
      BY <2>2, Zenon DEF Ready, PropertyGet, PageShown
    <3> HIDE DEF nodes
    <3>2. PICK k \in Ready(g, q, b) : h = result(k)
      BY <3>1
    <3> QED
      BY <3>2
  <2> QED
    BY <2>1, <2>2
<1>2. ASSUME NEW k \in Ready(g, q, b), NEW nodes
      PROVE  /\ Views(g, k) /\ Views(g, [k EXCEPT !.crashed = TRUE])
             /\ Views(g, AnswerTo(k, q, nodes)) /\ AnswerTo(k, q, nodes).seen = g.seen
  <2>1. Views(g, k)
    BY ReadyOnly
  <2>2. Views(g, AnswerTo(k, q, nodes))
    BY <2>1, AnswerViews
  <2>3. AnswerTo(k, q, nodes).seen = g.seen
    BY <2>2 DEF Views, Only, Fields
  <2> QED
    BY <2>1, <2>2, <2>3, CrashedViews
<1> QED
  BY <1>1, <1>2, UnansweredOnly

LEMMA PropertyGetOnly ==
    ASSUME NEW g, DOMAIN g = Fields, NEW q, NEW b, NEW h \in PropertyGet(g, q, b)
    PROVE  Only(g, h, Viewed)
<1>1. ASSUME NEW m, Views(g, m), NEW s
      PROVE  Only(g, m, Viewed) /\ Only(g, [m EXCEPT !.seen = s], Viewed)
  BY <1>1 DEF Views, Only, Viewed
<1>2. Views(g, h) \/ \E m, s : Views(g, m) /\ h = [m EXCEPT !.seen = s]
  BY PropertyGetIs
<1> QED
  BY <1>1, <1>2

LEMMA PropertyValueOnly ==
    ASSUME NEW g, DOMAIN g = Fields, NEW q, NEW b, NEW h \in PropertyValue(g, q, b)
    PROVE  Views(g, h)
<1>1. \/ h = [g EXCEPT !.answer = NoAnswer]
      \/ \E k \in Ready(g, q, b) : \/ h = k
                          \/ h = [k EXCEPT !.crashed = TRUE]
                          \/ \E nodes : h = AnswerTo(k, q, nodes)
  <2>1. CASE ~HasFrame(g, q)
    BY <2>1, Zenon DEF PropertyValue
  <2>2. CASE HasFrame(g, q)
    <3> DEFINE result(k) == IF k.crashed \/ Symbol(k, q.name) = Undef THEN k
                            ELSE IF Symbol(k, q.name) = Crash THEN [k EXCEPT !.crashed = TRUE]
                            ELSE AnswerTo(k, q, Below(k, Symbol(k, q.name), q.name, 1))
    <3>1. PropertyValue(g, q, b) = {result(k) : k \in Ready(g, q, b)}
      BY <2>2, Zenon DEF Ready, PropertyValue
    <3>2. PICK k \in Ready(g, q, b) : h = result(k)
      BY <3>1
    <3> QED
      BY <3>2
  <2> QED
    BY <2>1, <2>2
<1>2. ASSUME NEW k \in Ready(g, q, b), NEW nodes
      PROVE  /\ Views(g, k) /\ Views(g, [k EXCEPT !.crashed = TRUE])
             /\ Views(g, AnswerTo(k, q, nodes))
  BY ReadyOnly, AnswerViews, CrashedViews
<1> QED
  BY <1>1, <1>2, UnansweredOnly

LEMMA PropertySetOnly ==
    ASSUME NEW g, DOMAIN g = Fields, NEW q, NEW b, NEW h \in PropertySet(g, q, b)
    PROVE  Views(g, h)
<1>1. \/ h = [g EXCEPT !.answer = NoAnswer]
      \/ \E k \in Ready(g, q, b) : \E c : h = [k EXCEPT !.crashed = c]
  <2>1. CASE ~HasFrame(g, q)
    BY <2>1, Zenon DEF PropertySet
  <2>2. CASE HasFrame(g, q)
    <3> DEFINE dies(k)   == k.crashed \/ Symbol(k, q.name) = Crash
               result(k) == [k EXCEPT !.crashed = dies(k)]
    <3>1. PropertySet(g, q, b) = {result(k) : k \in Ready(g, q, b)}
      BY <2>2, Zenon DEF Ready, PropertySet
    <3> HIDE DEF dies
    <3>2. PICK k \in Ready(g, q, b) : h = result(k)
      BY <3>1
    <3> QED
      BY <3>2
  <2> QED
    BY <2>1, <2>2
<1>2. ASSUME NEW k \in Ready(g, q, b), NEW c PROVE Views(g, [k EXCEPT !.crashed = c])
  BY ReadyOnly, CrashedViews
<1> QED
  BY <1>1, <1>2, UnansweredOnly

LEMMA ContextGetOnly ==
    ASSUME NEW g, DOMAIN g = Fields, NEW q, NEW b, NEW h \in ContextGet(g, q, b)
    PROVE  Views(g, h)
<1> DEFINE act  == IF q.context = 1 THEN [g.active EXCEPT !.globals = TRUE, !.data = 0]
                   ELSE [Look(g, q.depth, 0) EXCEPT !.fse = g.active.fse]
           none == [g EXCEPT !.options.page = 0, !.answer = NoAnswer]
           cold == [g EXCEPT !.options.page = 0, !.answer = NoAnswer, !.active = act]
           name == Variable(IF q.context = 1 THEN "GLOBALS" ELSE "this")
<1>1. CASE ~HasFrame(g, q)
  <2>1. h = none
    BY <1>1, Zenon DEF ContextGet
  <2> QED
    BY <2>1, UnansweredOnly
<1>2. CASE HasFrame(g, q)
  <2> DEFINE full(k) == AnswerTo(k, q, ContextNodes(k, q))
             left(k) == [full(k).active EXCEPT !.data = 0, !.globals = FALSE,
                                               !.this = IF q.context = 1 THEN @ ELSE 0]
             result(k) == IF k.crashed THEN k
                          ELSE [full(k) EXCEPT !.active =
                                   [@ EXCEPT !.data = 0, !.globals = FALSE,
                                             !.this = IF q.context = 1 THEN @ ELSE 0]]
  <2>1. ContextGet(g, q, b) = {result(k) : k \in Looked(cold, name, b)}
    BY <1>2, Zenon DEF ContextGet
  <2>2. PICK k \in Looked(cold, name, b) : h = result(k)
    BY <2>1
  <2>3. Views(g, cold) /\ DOMAIN cold = Fields
    <3> HIDE DEF act
    <3>1. /\ Only(g, cold, {"options", "active", "answer", "crashed"})
          /\ cold.options = [g.options EXCEPT !.page = 0]
      BY DEF Only, Fields
    <3> HIDE DEF cold
    <3> QED
      BY <3>1 DEF Views, Only
  <2> HIDE DEF cold, name
  <2>4. Views(cold, k) /\ DOMAIN k = Fields
    <3>1. Only(cold, k, {"active", "crashed"})
      BY <2>3, LookedOnly
    <3> QED
      BY <3>1, OnlyMore, ViewsOnly DEF Only
  <2>5. Only(k, full(k), {"answer"})
    BY <2>4, AnswerToOnly
  <2> HIDE DEF full
  <2>6. ASSUME NEW m, NEW e, Only(k, m, {"answer"})
        PROVE  Only(k, [m EXCEPT !.active = e], {"active", "answer", "crashed"})
    BY <2>6 DEF Only
  <2>7. Views(g, k)
    BY <2>3, <2>4, ViewsThen
  <2>8. CASE k.crashed
    BY <2>2, <2>7, <2>8
  <2>9. CASE ~k.crashed
    <3>1. Only(k, result(k), {"active", "answer", "crashed"})
      BY <2>5, <2>6, <2>9
    <3> QED
      BY <2>2, <2>7, <3>1, ViewsOnly, ViewsThen
  <2> QED
    BY <2>8, <2>9
<1> QED
  BY <1>1, <1>2

\* What DBGP_FUNC of a command changes.
Changes(g, h) ==
    Only(g, h, Kept \cup Viewed) /\ (BreakpointsOK(g) => BreakpointsOK(h))

LEMMA ViewedChanges ==
    ASSUME NEW g, NEW h, Only(g, h, Viewed)
    PROVE  Changes(g, h)
<1>1. Only(g, h, Kept \cup Viewed)
  BY OnlyMore
<1>2. BreakpointsOK(g) => BreakpointsOK(h)
  BY BreakpointsSame DEF Viewed, Kept, Placed
<1> QED
  BY <1>1, <1>2 DEF Changes

LEMMA CrashedChanges ==
    ASSUME NEW g, DOMAIN g = Fields, NEW c
    PROVE  Changes(g, [g EXCEPT !.crashed = c])
<1>1. Only(g, [g EXCEPT !.crashed = c], Viewed)
  BY DEF Only, Viewed
<1> QED
  BY <1>1, ViewedChanges

LEMMA HandledChanges ==
    ASSUME NEW g, DOMAIN g = Fields, g.ini \in Apps, BreakpointsOK(g),
           NEW name, NEW h \in Handled(g, name)
    PROVE  Changes(g, h)
<1>1. ASSUME NEW o \in g.ini.options PROVE Changes(g, BreakpointSet(g, o))
  <2>1. o.type \in Types
    BY AppsAssumption DEF Types
  <2>2. Only(g, BreakpointSet(g, o), Kept)
    BY <2>1, BreakpointSetIs
  <2>3. Only(g, BreakpointSet(g, o), Kept \cup Viewed)
    BY <2>2, OnlyMore
  <2> QED
    BY <2>1, <2>3, BreakpointsSet DEF Changes
<1>2. Kept \cup {"crashed"} \subseteq Kept \cup Viewed
  BY DEF Viewed
<1>3. ASSUME NEW id \in DOMAIN g.breakpoint_list PROVE Changes(g, BreakpointRemove(g, id))
  BY <1>2, BreakpointsRemoved, OnlyMore DEF Changes
<1>4. ASSUME NEW id \in DOMAIN g.breakpoint_list, NEW u \in g.ini.updates
      PROVE  Changes(g, BreakpointUpdate(g, id, u))
  <2>1. u.field \in Updated
    BY AppsAssumption DEF Updated
  <2>2. /\ BreakpointsOK(BreakpointUpdate(g, id, u))
        /\ Only(g, BreakpointUpdate(g, id, u), Kept \cup {"crashed"})
    BY <2>1, BreakpointsUpdated
  <2> QED
    BY <1>2, <2>2, OnlyMore DEF Changes
<1>5. ASSUME NEW id PROVE Changes(g, BreakpointGet(g, id))
  BY CrashedChanges DEF BreakpointGet
<1>6. Changes(g, BreakpointList(g))
  BY CrashedChanges DEF BreakpointList
<1>7. ASSUME NEW f PROVE Changes(g, FeatureSet(g, f))
  BY FeatureSetOnly, ViewedChanges
<1>8. ASSUME NEW q, NEW k \in PropertyGet(g, q, base) \cup PropertyValue(g, q, base) \cup
                              PropertySet(g, q, base) \cup ContextGet(g, q, base)
      PROVE  Changes(g, k)
  <2>1. Views(g, k) => Only(g, k, Viewed)
    BY DEF Views, Only, Viewed
  <2> QED
    BY <2>1, PropertyGetOnly, PropertyValueOnly, PropertySetOnly, ContextGetOnly, ViewedChanges
<1>9. Changes(g, g)
  BY OnlyNone DEF Changes
<1>10. CASE name = "breakpoint_set"
  BY <1>1, <1>10 DEF Handled
<1>11. CASE name = "breakpoint_remove"
  BY <1>3, <1>11 DEF Handled
<1>12. CASE name = "breakpoint_update"
  BY <1>4, <1>12 DEF Handled
<1>13. CASE name = "breakpoint_get"
  BY <1>5, <1>13 DEF Handled
<1>14. CASE name = "breakpoint_list"
  BY <1>6, <1>14 DEF Handled
<1>15. CASE name = "feature_set"
  BY <1>7, <1>15 DEF Handled
<1>16. CASE name = "property_get"
  BY <1>8, <1>16 DEF Handled
<1>17. CASE name = "property_value"
  BY <1>8, <1>17 DEF Handled
<1>18. CASE name = "property_set"
  BY <1>8, <1>18 DEF Handled
<1>19. CASE name = "context_get"
  BY <1>8, <1>19 DEF Handled
<1>20. CASE name \notin {"breakpoint_set", "breakpoint_remove", "breakpoint_update",
                        "breakpoint_get", "breakpoint_list", "feature_set", "property_get",
                        "property_value", "property_set", "context_get"}
  BY <1>9, <1>20 DEF Handled
<1> QED
  BY <1>10, <1>11, <1>12, <1>13, <1>14, <1>15, <1>16, <1>17, <1>18, <1>19, <1>20

-----------------------------------------------------------------------------
(* The hooks of the extension *)

\* The globals that are of the script and of what the IDE looks at, as opposed to
\* those of the session.
Script == Kept \cup Viewed \cup
          {"stack", "function_count", "statements", "do_break", "do_step", "do_next", "do_finish",
           "next_level", "finish_level", "finish_func_nr", "step"}

\* From g to h the session stays what it is, and todo is left to do.
Goes(g, h, todo) ==
    /\ Only(g, h, Script \cup {"todo"}) /\ h.todo = todo
    /\ BreakpointsOK(g) => BreakpointsOK(h)

\* A hook that may stop the script, if there is a session.
Hooked(g, h, todo) == \E k : Goes(g, k, todo) /\ (h = k \/ (g.remote_enabled /\ h = Break(k)))

LEMMA GoesThen ==
    ASSUME NEW g, NEW h, NEW k, NEW s, NEW t, Goes(g, h, s), Goes(h, k, t)
    PROVE  Goes(g, k, t)
BY OnlyThen DEF Goes

LEMMA GoesBegin ==
    ASSUME NEW g, DOMAIN g = Fields, NEW items
    PROVE  Goes(g, Begin(g, items), items \o g.todo)
<1>1. Only(g, Begin(g, items), {"todo"}) /\ Begin(g, items).todo = items \o g.todo
  BY BeginOnly
<1>2. BreakpointsOK(g) => BreakpointsOK(Begin(g, items))
  BY <1>1, BreakpointsSame DEF Kept, Placed
<1> QED
  BY <1>1, <1>2, OnlyMore DEF Goes

LEMMA GoesDone ==
    ASSUME NEW g, DOMAIN g = Fields
    PROVE  Goes(g, Done(g), Tail(g.todo))
<1>1. Only(g, Done(g), {"todo"}) /\ Done(g).todo = Tail(g.todo)
  BY DoneOnly
<1>2. BreakpointsOK(g) => BreakpointsOK(Done(g))
  BY <1>1, BreakpointsSame DEF Kept, Placed
<1> QED
  BY <1>1, <1>2, OnlyMore DEF Goes

LEMMA GoesWorks ==
    ASSUME NEW g, NEW h, Only(g, h, Script \ Kept)
    PROVE  Goes(g, h, g.todo)
<1>1. h.todo = g.todo
  BY DEF Only, Script, Viewed, Kept, Placed, Fields
<1>2. BreakpointsOK(g) => BreakpointsOK(h)
  BY BreakpointsSame
<1>3. Only(g, h, Script \cup {"todo"})
  BY OnlyMore
<1> QED
  BY <1>1, <1>2, <1>3 DEF Goes

LEMMA GoesCounts ==
    ASSUME NEW g, NEW h, Counts(g, h)
    PROVE  Goes(g, h, g.todo)
<1>1. Tables \subseteq Script \cup {"todo"}
  BY DEF Tables, Script, Kept, Placed
<1>2. h.todo = g.todo
  BY DEF Counts, Only, Tables, Fields
<1> QED
  BY <1>1, <1>2, OnlyMore DEF Counts, Goes

LEMMA GoesFields ==
    ASSUME NEW g, NEW h, NEW todo, Goes(g, h, todo)
    PROVE  /\ DOMAIN g = Fields /\ DOMAIN h = Fields /\ h.todo = todo
           /\ h.ini = g.ini /\ h.remote_enabled = g.remote_enabled /\ h.status = g.status
           /\ h.lasttransid = g.lasttransid /\ h.freed = g.freed /\ h.commands = g.commands
           /\ h.sessions = g.sessions /\ h.sockets = g.sockets /\ h.connected = g.connected
           /\ h.detached = g.detached /\ h.early = g.early
BY DEF Goes, Only, Script, Kept, Placed, Viewed, Fields

LEMMA HookedThen ==
    ASSUME NEW g, NEW h, NEW k, NEW s, NEW t, Goes(g, h, s), Hooked(h, k, t)
    PROVE  Hooked(g, k, t)
BY GoesThen, GoesFields DEF Hooked

LEMMA BreakpointsHooked ==
    ASSUME NEW g, DOMAIN g = Fields, NEW type
    PROVE  Hooked(g, HandleBreakpoints(g, type), g.todo)
<1> DEFINE h == HandleBreakpoints(g, type)
<1>1. Goes(g, g, g.todo)
  BY CountsSame, GoesCounts
<1>2. ASSUME NEW k, Counts(g, k)
      PROVE  Goes(g, k, g.todo) /\ Goes(g, [k EXCEPT !.do_break = TRUE], g.todo)
  <2>1. Goes(g, k, g.todo) /\ DOMAIN k = Fields
    BY <1>2, GoesCounts, GoesFields
  <2>2. Only(k, [k EXCEPT !.do_break = TRUE], Script \ Kept)
    BY <2>1 DEF Only, Script, Kept, Placed
  <2>3. Goes(k, [k EXCEPT !.do_break = TRUE], g.todo)
    BY <2>1, <2>2, GoesWorks, GoesFields
  <2> QED
    BY <2>1, <2>3, GoesThen
<1>3. \/ h = g
      \/ /\ g.remote_enabled
         /\ \E k : Counts(g, k) /\ h \in {k, Break(k), [k EXCEPT !.do_break = TRUE]}
  BY HandleBreakpointsIs
<1> HIDE DEF h
<1>4. Hooked(g, h, g.todo)
  BY <1>1, <1>2, <1>3 DEF Hooked
<1> QED
  BY <1>4 DEF h

LEMMA ExceptionHooked ==
    ASSUME NEW g, DOMAIN g = Fields, NEW names
    PROVE  Hooked(g, ExceptionHit(g, names), g.todo)
<1> DEFINE h == ExceptionHit(g, names)
<1>1. Goes(g, g, g.todo)
  BY CountsSame, GoesCounts
<1>2. h = g \/ (g.remote_enabled /\ \E k : Counts(g, k) /\ h \in {k, Break(k)})
  BY ExceptionHitIs
<1> HIDE DEF h
<1>3. Hooked(g, h, g.todo)
  BY <1>1, <1>2, GoesCounts DEF Hooked
<1> QED
  BY <1>3 DEF h

LEMMA EnterHooked ==
    ASSUME NEW g, DOMAIN g = Fields, NEW fn
    PROVE  Hooked(g, EnterFunction(g, fn), g.todo)
<1> DEFINE st == Append(g.stack,
                    [fn |-> fn, nr |-> g.function_count + 1, internal |-> fn \in Internals,
                     declared |-> g.remote_enabled,
                     execute_data |-> IF fn \in Internals \/ Len(g.stack) = base THEN 0
                                      ELSE Last(g.stack).nr])
           k == [g EXCEPT !.function_count = @ + 1, !.stack = st]
<1>1. EnterFunction(g, fn) = HandleBreakpoints(k, "call")
  BY DEF EnterFunction
<1> HIDE DEF st
<1>2. Only(g, k, Script \ Kept)
  BY DEF Only, Script, Kept, Placed
<1>3. Goes(g, k, g.todo)
  BY <1>2, GoesWorks
<1> HIDE DEF k
<1>4. Hooked(k, HandleBreakpoints(k, "call"), g.todo)
  BY <1>3, BreakpointsHooked, GoesFields
<1> QED
  BY <1>1, <1>3, <1>4, HookedThen

\* The rest of the statement hook does not ask whether there is a session.
LEMMA ChecksGoes ==
    ASSUME NEW g, DOMAIN g = Fields, NEW line, NEW h \in Checks(g, line)
    PROVE  \E k : Goes(g, k, g.todo) /\ h \in {k, Break(k)}
<1> DEFINE level   == Len(g.stack)
           func_nr == Last(g.stack).nr
           finish  == g.do_finish /\ \/ level < g.finish_level
                                     \/ level = g.finish_level /\ func_nr > g.finish_func_nr
           next    == g.do_next /\ g.next_level >= level
           crash   == [g EXCEPT !.crashed = TRUE]
           k1      == [g EXCEPT !.do_finish = FALSE]
           k2      == [g EXCEPT !.do_next = FALSE]
           k3      == [g EXCEPT !.do_step = FALSE]
<1>1. \/ h \in {g, crash, Break(k1), Break(k2), Break(k3)}
      \/ \E holds : h = LineBreak(g, line, holds)
  <2>1. h \in (IF g.freed THEN {crash} ELSE {}) \cup
              (IF finish THEN {Break(k1)} ELSE IF next THEN {Break(k2)}
               ELSE IF g.do_step THEN {Break(k3)} ELSE IF g.freed THEN {g}
               ELSE {LineBreak(g, line, holds) :
                        holds \in SUBSET Conditional(g.line_breakpoints, line)})
    BY Zenon DEF Checks
  <2> HIDE DEF finish, next, crash, k1, k2, k3
  <2> QED
    BY <2>1
<1>2. /\ Only(g, crash, Script \ Kept) /\ Only(g, k1, Script \ Kept)
      /\ Only(g, k2, Script \ Kept) /\ Only(g, k3, Script \ Kept)
  BY DEF Only, Script, Kept, Placed, Viewed
<1> HIDE DEF crash, k1, k2, k3
<1>3. ASSUME NEW holds, h = LineBreak(g, line, holds)
      PROVE  \E k : Goes(g, k, g.todo) /\ h \in {k, Break(k)}
  BY <1>3, LineBreakIs, GoesCounts
<1>4. Goes(g, g, g.todo)
  BY CountsSame, GoesCounts
<1>5. /\ Goes(g, crash, g.todo) /\ Goes(g, k1, g.todo) /\ Goes(g, k2, g.todo)
      /\ Goes(g, k3, g.todo)
  BY <1>2, GoesWorks
<1> QED
  BY <1>1, <1>3, <1>4, <1>5

\* What the script has still to do when it goes on: no loop of commands, and
\* nothing after a bailout.
Plain(items) ==
    /\ IsSeq(items)
    /\ \A i \in 1..Len(items) :
          /\ items[i].do \in {"enter", "checks", "do_break", "return", "leave", "exception",
                              "bail"}
          /\ items[i].do = "bail" => i = Len(items)

\* What the script does when it goes on: it may connect, and it may stop.
Advances(g, h) ==
    \E items, k :
        /\ Plain(items) /\ Goes(g, k, items)
        /\ \/ h = k
           \/ g.remote_enabled /\ h = Break(k)
           \/ ~g.remote_enabled /\ h = DbgpInit(k)

LEMMA PlainItems ==
    /\ Plain(<<>>)
    /\ \A fn : Plain(<<[do |-> "enter", fn |-> fn]>>)
    /\ \A line : Plain(<<[do |-> "checks", line |-> line]>>)
    /\ \A names : Plain(<<[do |-> "exception", names |-> names]>>)
    /\ Plain(Returns) /\ Plain(Body("xdebug_break") \o Returns)
<1>1. Plain(<<>>)
  BY EmptyIs DEF Plain
<1>2. ASSUME NEW item, item.do \in {"enter", "checks", "exception"}
      PROVE  Plain(<<item>>)
  <2>1. <<item>> \in Seq({item}) /\ Len(<<item>>) = 1 /\ <<item>>[1] = item
    OBVIOUS
  <2>2. IsSeq(<<item>>)
    BY <2>1, SeqIsSeq
  <2> QED
    BY <1>2, <2>1, <2>2 DEF Plain
<1>4. Plain(Returns)
  <2> DEFINE a == [do |-> "return"]
             b == [do |-> "leave"]
  <2>1. a.do = "return" /\ b.do = "leave" /\ Returns = <<a, b>>
    BY DEF Returns
  <2> HIDE DEF a, b
  <2>2. /\ <<a, b>> \in Seq({a, b}) /\ Len(<<a, b>>) = 2 /\ <<a, b>>[1] = a /\ <<a, b>>[2] = b
    OBVIOUS
  <2>3. IsSeq(<<a, b>>)
    BY <2>2, SeqIsSeq
  <2> QED
    BY <2>1, <2>2, <2>3 DEF Plain
<1>5. Plain(Body("xdebug_break") \o Returns)
  <2> DEFINE a == [do |-> "return"]
             b == [do |-> "leave"]
             c == [do |-> "do_break"]
  <2>1. /\ a.do = "return" /\ b.do = "leave" /\ c.do = "do_break"
        /\ Body("xdebug_break") \o Returns = <<c>> \o <<a, b>>
    BY DEF Returns, Body
  <2> HIDE DEF a, b, c
  <2> DEFINE s == <<c>> \o <<a, b>>
  <2>2. /\ <<c>> \in Seq({a, b, c}) /\ <<a, b>> \in Seq({a, b, c})
        /\ Len(<<c>>) = 1 /\ Len(<<a, b>>) = 2
        /\ <<c>>[1] = c /\ <<a, b>>[1] = a /\ <<a, b>>[2] = b
    OBVIOUS
  <2>3. /\ s \in Seq({a, b, c}) /\ Len(s) = Len(<<c>>) + Len(<<a, b>>)
        /\ \A i \in 1..(Len(<<c>>) + Len(<<a, b>>)) :
              s[i] = IF i <= Len(<<c>>) THEN <<c>>[i] ELSE <<a, b>>[i - Len(<<c>>)]
    BY <2>2, ConcatProperties
  <2>4. Len(s) = 3 /\ s[1] = c /\ s[2] = a /\ s[3] = b
    BY <2>2, <2>3
  <2>5. IsSeq(s)
    BY <2>3, SeqIsSeq
  <2> HIDE DEF s
  <2>6. \A i \in 1..Len(s) : s[i] \in {a, b, c}
    BY <2>4
  <2>7. Plain(s)
    BY <2>1, <2>5, <2>6 DEF Plain
  <2> QED
    BY <2>1, <2>7 DEF s
<1> QED
  BY <1>1, <1>2, <1>4, <1>5

LEMMA PlainConcat == ASSUME NEW items, Plain(items) PROVE items \o <<>> = items
<1>1. items \in Seq(Range(items))
  BY DEF Plain, IsSeq
<1> QED
  BY <1>1, ConcatEmptySeq

\* The script has something to do after it has looked for a connection.
LEMMA JitAdvances ==
    ASSUME NEW g, DOMAIN g = Fields, g.todo = <<>>, NEW k, Only(g, k, {"statements"}),
           NEW items, Plain(items), NEW h \in DoJit(Begin(k, items))
    PROVE  Advances(g, h)
<1> DEFINE m == Begin(k, items)
<1>1. Goes(g, k, g.todo)
  BY OnlyMore, GoesWorks DEF Script, Kept, Placed, Viewed
<1>2. Goes(k, m, items)
  <2>1. DOMAIN k = Fields /\ k.todo = <<>>
    BY <1>1, GoesFields
  <2>2. Goes(k, m, items \o k.todo)
    BY <2>1, GoesBegin
  <2> QED
    BY <2>1, <2>2, PlainConcat
<1>3. Goes(g, m, items)
  BY <1>1, <1>2, GoesThen
<1> HIDE DEF m
<1>4. m.remote_enabled = g.remote_enabled
  BY <1>3, GoesFields
<1>5. h = m \/ (h = DbgpInit(m) /\ ~m.remote_enabled)
  BY DoJitIs DEF m
<1> QED
  BY <1>3, <1>4, <1>5 DEF Advances

LEMMA HookedAdvances ==
    ASSUME NEW g, NEW h, NEW items, Plain(items), Hooked(g, h, items)
    PROVE  Advances(g, h)
BY DEF Hooked, Advances

LEMMA ExecuteExAdvances ==
    ASSUME NEW g, DOMAIN g = Fields, g.todo = <<>>, NEW fn, NEW h \in ExecuteEx(g, fn)
    PROVE  Advances(g, h)
<1> DEFINE items == <<[do |-> "enter", fn |-> fn]>>
           k     == Begin(g, items)
<1>1. Plain(items) /\ Plain(<<>>)
  BY PlainItems
<1> HIDE DEF items
<1>2. Goes(g, k, items)
  BY <1>1, GoesBegin, PlainConcat
<1> HIDE DEF k
<1>3. \/ ~g.remote_enabled /\ h \in InitDebugger(k)
      \/ h = EnterFunction(g, fn)
  BY Zenon DEF ExecuteEx, k, items
<1>4. CASE ~g.remote_enabled /\ h \in InitDebugger(k)
  <2>1. h = k \/ h = DbgpInit(k)
    BY <1>4, InitDebuggerIs
  <2> QED
    BY <1>1, <1>2, <1>4, <2>1 DEF Advances
<1>5. CASE h = EnterFunction(g, fn)
  BY <1>1, <1>5, EnterHooked, HookedAdvances
<1> QED
  BY <1>3, <1>4, <1>5

LEMMA StatementAdvances ==
    ASSUME NEW g, DOMAIN g = Fields, g.todo = <<>>, NEW line,
           NEW h \in StatementCall(Counted(g), line)
    PROVE  Advances(g, h)
<1> DEFINE c     == Counted(g)
           items == <<[do |-> "checks", line |-> line]>>
           off   == [c EXCEPT !.do_break = FALSE]
           k     == Begin(off, items)
<1>1. Plain(items) /\ Plain(<<>>)
  BY PlainItems
<1>2. Goes(g, c, <<>>) /\ DOMAIN c = Fields /\ c.remote_enabled = g.remote_enabled
  <2>1. Only(g, c, Script \ Kept)
    BY DEF Counted, Only, Script, Kept, Placed, Viewed
  <2> HIDE DEF c
  <2>2. Goes(g, c, g.todo)
    BY <2>1, GoesWorks
  <2> QED
    BY <2>2, GoesFields
<1> HIDE DEF items, c
<1>3. \/ h = c
      \/ c.remote_enabled /\ h = Break(k)
      \/ c.remote_enabled /\ h \in Checks(c, line)
  BY Zenon DEF StatementCall, StatementHooks, items, c
<1>4. Goes(c, off, <<>>) /\ DOMAIN off = Fields /\ off.todo = <<>>
  <2>1. Only(c, off, Script \ Kept)
    BY <1>2 DEF Only, Script, Kept, Placed, Viewed
  <2>2. c.todo = <<>>
    BY <1>2, GoesFields
  <2>3. Goes(c, off, c.todo)
    BY <2>1, GoesWorks
  <2> QED
    BY <2>2, <2>3, GoesFields
<1> HIDE DEF off
<1>5. Goes(off, k, items)
  BY <1>1, <1>4, GoesBegin, PlainConcat
<1>6. Goes(g, k, items)
  BY <1>2, <1>4, <1>5, GoesThen
<1>7. ASSUME c.remote_enabled, h \in Checks(c, line) PROVE Advances(g, h)
  <2>1. PICK m : Goes(c, m, c.todo) /\ h \in {m, Break(m)}
    BY <1>2, <1>7, ChecksGoes
  <2>2. Goes(g, m, <<>>)
    BY <1>2, <2>1, GoesThen, GoesFields
  <2> QED
    BY <1>1, <1>2, <1>7, <2>1, <2>2 DEF Advances
<1> HIDE DEF k
<1> QED
  BY <1>1, <1>2, <1>3, <1>6, <1>7 DEF Advances

\* A step of the script while nothing waits.
Advance == RunScript \/ Call \/ Return \/ Statement \/ Throw \/ RaiseError

LEMMA AdvanceAdvances ==
    ASSUME DOMAIN x = Fields, phase = "idle" => x.todo = <<>>, Advance
    PROVE  Advances(x, x')
<1>1. x.todo = <<>>
  BY DEF Advance, RunScript, Call, Return, Statement, Throw, RaiseError, Going
<1>2. Only(x, x, {"statements"}) /\ Only(x, Counted(x), {"statements"})
  BY OnlyNone DEF Only, Counted
<1>3. CASE RunScript
  BY <1>1, <1>3, ExecuteExAdvances DEF RunScript
<1>4. CASE Call
  <2>1. PICK fn : x' \in (IF fn \in Internals THEN {EnterFunction(x, fn)} ELSE ExecuteEx(x, fn))
    BY <1>4 DEF Call
  <2>2. x' = EnterFunction(x, fn) \/ x' \in ExecuteEx(x, fn)
    BY <2>1
  <2>3. Hooked(x, EnterFunction(x, fn), <<>>) /\ Plain(<<>>)
    BY <1>1, EnterHooked, PlainItems
  <2> QED
    BY <1>1, <2>2, <2>3, ExecuteExAdvances, HookedAdvances
<1>5. CASE Return
  <2>1. \/ x' \in DoJit(Begin(x, Body("xdebug_break") \o Returns))
        \/ x' = Begin(x, Returns)
    BY <1>5 DEF Return
  <2>2. CASE x' \in DoJit(Begin(x, Body("xdebug_break") \o Returns))
    BY <1>1, <1>2, <2>2, JitAdvances, PlainItems
  <2>3. CASE x' = Begin(x, Returns)
    <3>1. Plain(Returns)
      BY PlainItems
    <3>2. Goes(x, Begin(x, Returns), Returns \o x.todo)
      BY GoesBegin
    <3>3. Goes(x, Begin(x, Returns), Returns)
      BY <1>1, <3>1, <3>2, PlainConcat
    <3> QED
      BY <2>3, <3>1, <3>3 DEF Advances
  <2> QED
    BY <2>1, <2>2, <2>3
<1>6. CASE Statement
  BY <1>1, <1>6, StatementAdvances DEF Statement
<1>7. CASE Throw
  <2>1. PICK class : x' \in DoJit(Begin(Counted(x), <<[do |-> "exception", names |-> <<"*", class>>]>>))
    BY <1>7 DEF Throw
  <2>2. Plain(<<[do |-> "exception", names |-> <<"*", class>>]>>)
    BY PlainItems
  <2> QED
    BY <1>1, <1>2, <2>1, <2>2, JitAdvances
<1>8. CASE RaiseError
  <2>1. PICK type : x' \in DoJit(Begin(Counted(x), <<[do |-> "exception", names |-> <<type, "*">>]>> \o
                                (IF type = "Fatal error" THEN <<[do |-> "bail"]>> ELSE <<>>)))
    BY <1>8 DEF RaiseError
  <2> DEFINE a == [do |-> "exception", names |-> <<type, "*">>]
             b == [do |-> "bail"]
             s == <<a>> \o (IF type = "Fatal error" THEN <<b>> ELSE <<>>)
  <2>2. Plain(s)
    <3>1. a.do = "exception" /\ b.do = "bail" /\ Plain(<<a>>)
      BY PlainItems
    <3>2. s = <<a>> \o <<b>> \/ s = <<a>>
      <4>1. <<a>> \o <<>> = <<a>>
        BY <3>1, PlainConcat
      <4> QED
        BY <4>1
    <3> HIDE DEF a, b
    <3>3. /\ <<a>> \o <<b>> \in Seq({a, b}) /\ Len(<<a>> \o <<b>>) = 2
          /\ (<<a>> \o <<b>>)[1] = a /\ (<<a>> \o <<b>>)[2] = b
      <4>1. /\ <<a>> \in Seq({a, b}) /\ <<b>> \in Seq({a, b}) /\ Len(<<a>>) = 1
            /\ Len(<<b>>) = 1 /\ <<a>>[1] = a /\ <<b>>[1] = b
        OBVIOUS
      <4>2. /\ <<a>> \o <<b>> \in Seq({a, b}) /\ Len(<<a>> \o <<b>>) = Len(<<a>>) + Len(<<b>>)
            /\ \A i \in 1..(Len(<<a>>) + Len(<<b>>)) :
                  (<<a>> \o <<b>>)[i] = IF i <= Len(<<a>>) THEN <<a>>[i] ELSE <<b>>[i - Len(<<a>>)]
        BY <4>1, ConcatProperties
      <4> QED
        BY <4>1, <4>2
    <3>4. IsSeq(<<a>> \o <<b>>)
      BY <3>3, SeqIsSeq
    <3>5. Plain(<<a>> \o <<b>>)
      <4> DEFINE t == <<a>> \o <<b>>
      <4>1. IsSeq(t) /\ Len(t) = 2 /\ t[1] = a /\ t[2] = b
        BY <3>3, <3>4
      <4> HIDE DEF t
      <4>2. Plain(t)
        BY <3>1, <4>1 DEF Plain
      <4> QED
        BY <4>2 DEF t
    <3> QED
      BY <3>1, <3>2, <3>5
  <2> HIDE DEF s
  <2> QED
    BY <1>1, <1>2, <2>1, <2>2, JitAdvances DEF s
<1> QED
  BY <1>3, <1>4, <1>5, <1>6, <1>7, <1>8 DEF Advance

-----------------------------------------------------------------------------
(* The loop of commands *)

\* What a command changes apart from todo and the answers.
Asked == Kept \cup Viewed \cup {"do_step", "do_next", "do_finish", "next_level", "finish_level",
                                "finish_func_nr", "step", "status", "lasttransid"}

\* What becomes of a command with the transaction id t; m is what it has set
\* before it is answered, or not.
Parsed(g, name, t, m, h) ==
    \/ name \in Unknown /\ m = g /\ h = LeaveLoop(Respond(m, t))
    \/ /\ name \notin Unknown /\ m.lasttransid = t
       /\ \/ /\ name \notin Continuing \cup Ending /\ g.status = "stopping"
             /\ m.status = "stopping" /\ h = LeaveLoop(Respond(m, t))
          \/ name \in Continuing /\ m.status = "running" /\ h = LeaveLoop(m)
          \/ name = "stop" /\ m.status = "stopped" /\ h = LeaveLoop(Respond(m, t))
          \/ /\ name = "detach" /\ m.status = "detached"
             /\ h = Deinit(Begin(m, <<[do |-> "detached", id |-> t]>>))
          \/ /\ name \notin Continuing \cup Ending /\ m.status = g.status
             /\ h = Respond(m, t)

LEMMA SteppingOnly ==
    ASSUME NEW g, DOMAIN g = Fields, NEW name \in Continuing
    PROVE  Only(g, Stepping(Continue(g, name), name),
                {"do_step", "do_next", "do_finish", "next_level", "finish_level",
                 "finish_func_nr", "step"})
<1> DEFINE c == Continue(g, name)
           l == IF g.stack = <<>> THEN -1 ELSE Len(g.stack)
           n == IF g.stack = <<>> THEN -1 ELSE Last(g.stack).nr
           T == {"do_step", "do_next", "do_finish", "next_level", "finish_level",
                 "finish_func_nr"}
<1>1. \/ c = g
      \/ c = [g EXCEPT !.do_next = FALSE, !.do_step = TRUE, !.do_finish = FALSE]
      \/ c = [g EXCEPT !.do_next = TRUE, !.do_step = FALSE, !.do_finish = FALSE,
                       !.next_level = Len(g.stack)]
      \/ c = [g EXCEPT !.do_next = FALSE, !.do_step = FALSE, !.do_finish = TRUE,
                       !.finish_level = l, !.finish_func_nr = n]
  BY DEF Continue, StepOut, Continuing
<1> HIDE DEF c, l, n
<1>2. Only(g, c, T)
  BY <1>1 DEF Only
<1> DEFINE s == [kind |-> name, frames |-> {c.stack[i].nr : i \in DOMAIN c.stack},
                 at |-> IF c.stack = <<>> THEN 0 ELSE Last(c.stack).nr]
<1>3. Stepping(c, name) = [c EXCEPT !.step = s]
  BY DEF Stepping
<1> HIDE DEF s
<1>4. Only(g, [c EXCEPT !.step = s], T \cup {"step"})
  BY <1>2 DEF Only
<1> QED
  BY <1>3, <1>4 DEF c

\* The command with the transaction id t, as it is before the loop answers it.
LEMMA CommandParsed ==
    ASSUME NEW g, DOMAIN g = Fields, g.ini \in Apps, BreakpointsOK(g), NEW name, NEW t,
           NEW h \in ParseOption(g, name, t)
    PROVE  \E m : /\ Only(g, m, Asked) /\ BreakpointsOK(m)
                  /\ Parsed(g, name, t, m, h)
<1> DEFINE status == IF name \in Continuing \cup Ending THEN "running" ELSE g.status
           answer == IF name \in Asking THEN g.answer ELSE NoAnswer
           seen   == IF name = "property_get" THEN g.seen ELSE {}
           k      == [g EXCEPT !.lasttransid = t, !.status = status, !.answer = answer,
                               !.seen = seen]
           stop   == [k EXCEPT !.status = "stopped"]
           leave  == [k EXCEPT !.status = "detached"]
           step   == Stepping(Continue(k, name), name)
           Told(m) == IF Answered(name) THEN Respond(m, t) ELSE m
<1>1. \/ name \in Unknown /\ h = LeaveLoop(Respond(g, t))
      \/ /\ name \notin Unknown /\ k.status = "stopping" /\ name \notin PostMortem
         /\ h = LeaveLoop(Respond(k, t))
      \/ name \in Continuing /\ h = LeaveLoop(Told(step))
      \/ name = "stop" /\ h = LeaveLoop(Told(stop))
      \/ name = "detach" /\ h = Deinit(Begin(leave, <<[do |-> "detached", id |-> t]>>))
      \/ name \notin Unknown \cup Continuing \cup Ending /\ \E m \in Handled(k, name) : h = Told(m)
  <2> DEFINE A1 == name \in Unknown
             A2 == name \notin Unknown /\ k.status = "stopping" /\ name \notin PostMortem
             A3 == name \in Continuing
             A4 == name = "stop"
             A5 == name = "detach"
  <2>1. ParseOption(g, name, t) =
          CASE A1 -> {LeaveLoop(Respond(g, t))}
            [] A2 -> {LeaveLoop(Respond(k, t))}
            [] A3 -> {LeaveLoop(Told(step))}
            [] A4 -> {LeaveLoop(Told(stop))}
            [] A5 -> {Deinit(Begin(leave, <<[do |-> "detached", id |-> t]>>))}
            [] OTHER -> {Told(m) : m \in Handled(k, name)}
    BY Zenon DEF ParseOption
  <2>2. ~(A1 \/ A2 \/ A3 \/ A4 \/ A5) => name \notin Unknown \cup Continuing \cup Ending
    BY DEF Ending
  <2> HIDE DEF k, stop, leave, step, Told, A1, A2, A3, A4, A5
  <2>3. \/ A1 /\ h = LeaveLoop(Respond(g, t))
        \/ A2 /\ h = LeaveLoop(Respond(k, t))
        \/ A3 /\ h = LeaveLoop(Told(step))
        \/ A4 /\ h = LeaveLoop(Told(stop))
        \/ A5 /\ h = Deinit(Begin(leave, <<[do |-> "detached", id |-> t]>>))
        \/ ~(A1 \/ A2 \/ A3 \/ A4 \/ A5) /\ \E m \in Handled(k, name) : h = Told(m)
    BY <2>1
  <2> QED
    BY <2>2, <2>3 DEF A1, A2, A3, A4, A5
<1>2. /\ Only(g, k, {"lasttransid", "status", "answer", "seen"}) /\ k.status = status
      /\ k.lasttransid = t /\ k.ini = g.ini
  <2> HIDE DEF answer, seen, status
  <2> QED
    BY DEF Only, Fields
<1>3. Answered(name) <=> name \notin Continuing
  BY DEF Answered
<1>4. /\ Only(k, stop, {"status"}) /\ stop.status = "stopped"
      /\ Only(k, leave, {"status"}) /\ leave.status = "detached"
      /\ stop.lasttransid = t /\ leave.lasttransid = t
  <2> HIDE DEF k
  <2> QED
    BY <1>2 DEF Only, Fields
<1>5. ASSUME name \in Continuing
      PROVE  /\ Only(k, step, {"do_step", "do_next", "do_finish", "next_level", "finish_level",
                               "finish_func_nr", "step"})
             /\ step.status = "running" /\ step.lasttransid = t
  <2> HIDE DEF k
  <2>1. Only(k, step, {"do_step", "do_next", "do_finish", "next_level", "finish_level",
                       "finish_func_nr", "step"})
    <3>1. DOMAIN k = Fields
      BY <1>2 DEF Only
    <3> QED
      BY <1>5, <3>1, SteppingOnly
  <2>2. step.status = k.status /\ step.lasttransid = k.lasttransid
    BY <2>1 DEF Only, Fields
  <2> QED
    BY <1>2, <1>5, <2>1, <2>2
<1> HIDE DEF k, stop, leave, step
<1>6. BreakpointsOK(k)
  BY <1>2, BreakpointsSame DEF Kept, Placed
<1>7. ASSUME NEW m, NEW S, Only(k, m, S), S \cap Kept = {}, S \subseteq Asked
      PROVE  Only(g, m, Asked) /\ BreakpointsOK(m)
  <2>1. BreakpointsOK(m)
    BY <1>6, <1>7, BreakpointsSame
  <2>2. Only(k, m, Asked) /\ Only(g, k, Asked)
    BY <1>2, <1>7, OnlyMore DEF Asked, Viewed
  <2> QED
    BY <2>1, <2>2, OnlyThen
<1>8. Only(g, k, Asked)
  BY <1>2, OnlyMore DEF Asked, Viewed
<1>9. CASE name \in Unknown /\ h = LeaveLoop(Respond(g, t))
  BY <1>9, OnlyNone DEF Parsed
<1>10. CASE /\ name \notin Unknown /\ k.status = "stopping" /\ name \notin PostMortem
            /\ h = LeaveLoop(Respond(k, t))
  <2>1. name \notin Continuing \cup Ending /\ g.status = "stopping"
    BY <1>2, <1>10
  <2>2. Parsed(g, name, t, k, h)
    BY <1>2, <1>10, <2>1 DEF Parsed
  <2> QED
    BY <1>6, <1>8, <2>2
<1>11. CASE name \in Continuing /\ h = LeaveLoop(Told(step))
  <2>1. Parsed(g, name, t, step, h)
    BY <1>3, <1>5, <1>11 DEF Parsed, Continuing, Unknown
  <2>2. Only(g, step, Asked) /\ BreakpointsOK(step)
    BY <1>5, <1>7, <1>11 DEF Asked, Kept, Placed
  <2> QED
    BY <2>1, <2>2
<1>12. CASE name = "stop" /\ h = LeaveLoop(Told(stop))
  <2>1. Parsed(g, name, t, stop, h)
    BY <1>3, <1>4, <1>12 DEF Parsed, Continuing, Unknown
  <2>2. Only(g, stop, Asked) /\ BreakpointsOK(stop)
    BY <1>4, <1>7 DEF Asked, Kept, Placed
  <2> QED
    BY <2>1, <2>2
<1>13. CASE name = "detach" /\ h = Deinit(Begin(leave, <<[do |-> "detached", id |-> t]>>))
  <2>1. Parsed(g, name, t, leave, h)
    BY <1>4, <1>13 DEF Parsed, Unknown
  <2>2. Only(g, leave, Asked) /\ BreakpointsOK(leave)
    BY <1>4, <1>7 DEF Asked, Kept, Placed
  <2> QED
    BY <2>1, <2>2
<1>14. CASE name \notin Unknown \cup Continuing \cup Ending
              /\ \E m \in Handled(k, name) : h = Told(m)
  <2>1. PICK m \in Handled(k, name) : h = Told(m)
    BY <1>14
  <2>2. Changes(k, m)
    <3>1. DOMAIN k = Fields /\ k.ini \in Apps
      BY <1>2 DEF Only
    <3> QED
      BY <1>6, <3>1, HandledChanges
  <2>3. m.status = g.status /\ m.lasttransid = t
    <3>1. m.status = k.status /\ m.lasttransid = k.lasttransid
      BY <2>2 DEF Changes, Only, Kept, Placed, Viewed, Fields
    <3> QED
      BY <1>2, <1>14, <3>1
  <2>4. Only(g, m, Asked) /\ BreakpointsOK(m)
    <3>1. Only(k, m, Asked)
      BY <2>2, OnlyMore DEF Changes, Asked
    <3> QED
      BY <1>6, <1>8, <2>2, <3>1, OnlyThen DEF Changes
  <2>5. Parsed(g, name, t, m, h)
    BY <1>3, <1>14, <2>1, <2>3 DEF Parsed
  <2> QED
    BY <2>4, <2>5
<1> HIDE DEF Told
<1> QED
  BY <1>1, <1>9, <1>10, <1>11, <1>12, <1>13, <1>14

-----------------------------------------------------------------------------
(* What an id leads to, and how often a breakpoint stops the script *)

LEMMA BreakpointsGoes ==
    ASSUME NEW g, NEW h, NEW todo, Goes(g, h, todo), BreakpointsOK(g), g.ini \in Apps
    PROVE  DOMAIN h = Fields /\ BreakpointsOK(h) /\ h.ini \in Apps
BY GoesFields DEF Goes

LEMMA BreakpointsKept ==
    ASSUME NEW g, NEW h, NEW S, Only(g, h, S), S \cap Kept = {}, "ini" \notin S,
           BreakpointsOK(g), g.ini \in Apps
    PROVE  DOMAIN h = Fields /\ BreakpointsOK(h) /\ h.ini \in Apps
<1>1. DOMAIN h = Fields /\ h.ini = g.ini
  BY DEF Only, Fields
<1> QED
  BY <1>1, BreakpointsSame

LEMMA BreakpointsBroken ==
    ASSUME NEW g, DOMAIN g = Fields, BreakpointsOK(g), g.ini \in Apps
    PROVE  DOMAIN Break(g) = Fields /\ BreakpointsOK(Break(g)) /\ Break(g).ini \in Apps
BY BreakOnly, BreakpointsKept DEF Breaking, Kept, Placed

LEMMA BreakpointsConnected ==
    ASSUME NEW g, DOMAIN g = Fields, BreakpointsOK(g), g.ini \in Apps
    PROVE  DOMAIN DbgpInit(g) = Fields /\ BreakpointsOK(DbgpInit(g)) /\ DbgpInit(g).ini \in Apps
<1>1. BreakpointsOK(NoBreakpoints(g))
  BY BreakpointsNone DEF BreakpointsOK, Listed
<1>2. Only(NoBreakpoints(g), DbgpInit(g), Connecting)
  BY DbgpInitOnly
<1>3. NoBreakpoints(g).ini \in Apps
  BY NoBreakpointsOnly DEF Only, Placed, Fields
<1> QED
  BY <1>1, <1>2, <1>3, BreakpointsKept DEF Connecting, Kept, Placed

\* What the hooks go on with, other than the connection.
Inner == {"enter", "checks", "do_break", "return", "leave", "exception"}

Kinds == Inner \cup {"loop", "bail", "enabled", "deinit", "detached", "close"}

\* The item i: a bailout is the last, and detach ends the loop it was read in.
ItemOK(todo, i) ==
    /\ todo[i].do \in Kinds
    /\ todo[i].do = "bail" => i = Len(todo)
    /\ todo[i].do = "detached" => i < Len(todo) /\ todo[i + 1].do = "loop"

\* What is left to do.
TodoOK(todo) == IsSeq(todo) /\ \A i \in 1..Len(todo) : ItemOK(todo, i)

\* Every id in use leads to its breakpoint as long as no other was set for the
\* place, and a temporary breakpoint has stopped the script at most once.
BInv ==
    /\ DOMAIN x = Fields /\ x.ini \in Apps /\ BreakpointsOK(x) /\ TodoOK(x.todo)
    /\ phase = "idle" => x.todo = <<>> /\ ~Running

LEMMA BreakpointsAdvanced ==
    ASSUME NEW g, BreakpointsOK(g), g.ini \in Apps, NEW h, Advances(g, h)
    PROVE  DOMAIN h = Fields /\ BreakpointsOK(h) /\ h.ini \in Apps
<1>1. PICK items, k : /\ Goes(g, k, items)
                      /\ h = k \/ h = Break(k) \/ h = DbgpInit(k)
  BY DEF Advances
<1>2. DOMAIN k = Fields /\ BreakpointsOK(k) /\ k.ini \in Apps
  BY <1>1, BreakpointsGoes
<1> QED
  BY <1>1, <1>2, BreakpointsBroken, BreakpointsConnected

LEMMA BreakpointsHookedOK ==
    ASSUME NEW g, BreakpointsOK(g), g.ini \in Apps, NEW h, NEW todo, Hooked(g, h, todo)
    PROVE  DOMAIN h = Fields /\ BreakpointsOK(h) /\ h.ini \in Apps
<1>1. PICK k : Goes(g, k, todo) /\ (h = k \/ h = Break(k))
  BY DEF Hooked
<1>2. DOMAIN k = Fields /\ BreakpointsOK(k) /\ k.ini \in Apps
  BY <1>1, BreakpointsGoes
<1> QED
  BY <1>1, <1>2, BreakpointsBroken

LEMMA BreakpointsLeft ==
    ASSUME NEW g, DOMAIN g = Fields, BreakpointsOK(g), g.ini \in Apps, NEW t
    PROVE  /\ DOMAIN LeaveLoop(g) = Fields /\ BreakpointsOK(LeaveLoop(g))
           /\ LeaveLoop(g).ini \in Apps
           /\ DOMAIN Respond(g, t) = Fields /\ BreakpointsOK(Respond(g, t))
           /\ Respond(g, t).ini \in Apps
<1>1. Only(g, LeaveLoop(g), {"todo"}) /\ Only(g, Respond(g, t), {"commands"})
  BY LeaveLoopOnly, RespondOnly
<1> QED
  BY <1>1, BreakpointsKept DEF Kept, Placed

LEMMA BreakpointsCommanded ==
    ASSUME BInv, Command
    PROVE  DOMAIN x' = Fields /\ BreakpointsOK(x') /\ x'.ini \in Apps
<1>1. PICK name : x' \in ParseOption([x EXCEPT !.commands = Append(@,
                            [name |-> name, session |-> x.sessions, answers |-> 0])],
                            name, Len(x.commands) + 1)
  BY DEF Command
<1> DEFINE c == Append(x.commands, [name |-> name, session |-> x.sessions, answers |-> 0])
           g == [x EXCEPT !.commands = c]
           t == Len(x.commands) + 1
<1> HIDE DEF c
<1>2. Only(x, g, {"commands"})
  BY DEF BInv, Only
<1>3. DOMAIN g = Fields /\ BreakpointsOK(g) /\ g.ini \in Apps
  BY <1>2, BreakpointsKept DEF BInv, Kept, Placed
<1>4. x' \in ParseOption(g, name, t)
  BY <1>1 DEF c
<1> HIDE DEF g, t
<1>5. PICK m : Only(g, m, Asked) /\ BreakpointsOK(m) /\ Parsed(g, name, t, m, x')
  BY <1>3, <1>4, CommandParsed
<1>6. DOMAIN m = Fields /\ m.ini \in Apps
  BY <1>3, <1>5 DEF Only, Asked, Kept, Placed, Viewed, Fields
<1>7. \/ x' = LeaveLoop(Respond(m, t)) \/ x' = LeaveLoop(m) \/ x' = Respond(m, t)
      \/ x' = Deinit(Begin(m, <<[do |-> "detached", id |-> t]>>))
  BY <1>5 DEF Parsed
<1> DEFINE b == Begin(m, <<[do |-> "detached", id |-> t]>>)
<1>8. DOMAIN b = Fields /\ BreakpointsOK(b) /\ b.ini \in Apps
  BY <1>5, <1>6, GoesBegin, BreakpointsGoes
<1> HIDE DEF b
<1>9. DOMAIN Deinit(b) = Fields /\ BreakpointsOK(Deinit(b)) /\ Deinit(b).ini \in Apps
  BY <1>8, DeinitOnly, BreakpointsKept, SMTT(40) DEF Kept, Placed
<1> QED
  BY <1>5, <1>6, <1>7, <1>9, BreakpointsLeft DEF b

LEMMA ResumedGoes ==
    ASSUME NEW g, DOMAIN g = Fields, NEW item, item.do \in Inner, NEW h \in Resumed(g, item)
    PROVE  \E k : /\ Goes(g, k, g.todo)
                  /\ \/ h = k
                     \/ (g.remote_enabled \/ item.do = "checks") /\ h = Break(k)
<1>1. CASE item.do = "enter"
  BY <1>1, EnterHooked DEF Resumed, Hooked
<1>2. CASE item.do = "checks"
  <2>1. h \in Checks(g, item.line)
    BY <1>2 DEF Resumed
  <2> QED
    BY <1>2, <2>1, ChecksGoes
<1>3. CASE item.do = "do_break"
  <2>1. h = [g EXCEPT !.do_break = TRUE]
    BY <1>3 DEF Resumed
  <2>2. Only(g, h, Script \ Kept)
    BY <2>1 DEF Only, Script, Kept, Placed
  <2> QED
    BY <2>2, GoesWorks
<1>4. CASE item.do = "return"
  BY <1>4, BreakpointsHooked DEF Resumed, Hooked
<1>5. CASE item.do = "leave"
  <2>1. h = [g EXCEPT !.stack = Front(@)]
    BY <1>5 DEF Resumed, LeaveFunction
  <2>2. Only(g, h, Script \ Kept)
    BY <2>1 DEF Only, Script, Kept, Placed
  <2> QED
    BY <2>2, GoesWorks
<1>6. CASE item.do = "exception"
  BY <1>6, ExceptionHooked DEF Resumed, Hooked
<1> QED
  BY <1>1, <1>2, <1>3, <1>4, <1>5, <1>6 DEF Inner

\* The rest of detach, up to where the loop it was read in ends.
DetachedUpTo(g, t, k) ==
    /\ Only(g, k, {"remote_enabled", "detached", "commands", "early"})
    /\ k.remote_enabled = FALSE /\ k.detached = TRUE /\ k.todo = g.todo
    /\ k.early = (Len(g.todo) > 1 /\ g.todo[2].do = "enabled")
    /\ \E off : Only(g, off, {"remote_enabled", "detached"}) /\ k.commands = Respond(off, t).commands

LEMMA DetachedIs ==
    ASSUME NEW g, DOMAIN g = Fields, NEW t
    PROVE  \E k : DetachedUpTo(g, t, k) /\ Detached(g, t) = LeaveLoop(k)
<1> DEFINE off == [g EXCEPT !.remote_enabled = FALSE, !.detached = TRUE]
           r   == Respond(off, t)
           e   == Len(r.todo) > 1 /\ r.todo[2].do = "enabled"
           k   == [r EXCEPT !.early = e]
<1>1. Detached(g, t) = LeaveLoop(k)
  BY DEF Detached
<1>2. /\ Only(g, off, {"remote_enabled", "detached"}) /\ off.remote_enabled = FALSE
      /\ off.detached = TRUE /\ off.todo = g.todo
  BY DEF Only, Fields
<1> HIDE DEF off
<1>3. Only(off, r, {"commands"})
  BY <1>2, RespondOnly DEF Only
<1>4. /\ r.remote_enabled = FALSE /\ r.detached = TRUE /\ r.todo = g.todo
      /\ Only(g, r, {"remote_enabled", "detached", "commands"})
  BY <1>2, <1>3 DEF Only, Fields
<1> HIDE DEF r
<1>5. e = (Len(g.todo) > 1 /\ g.todo[2].do = "enabled")
  BY <1>4
<1> HIDE DEF e
<1>6. /\ Only(r, k, {"early"}) /\ k.early = e /\ k.commands = r.commands
      /\ k.remote_enabled = FALSE /\ k.detached = TRUE /\ k.todo = g.todo
  BY <1>4 DEF Only, Fields
<1> HIDE DEF k
<1>7. Only(g, k, {"remote_enabled", "detached", "commands", "early"})
  BY <1>4, <1>6 DEF Only
<1> QED
  BY <1>1, <1>2, <1>5, <1>6, <1>7 DEF DetachedUpTo, r

LEMMA BreakpointsResumed ==
    ASSUME NEW g, DOMAIN g = Fields, BreakpointsOK(g), g.ini \in Apps, NEW item,
           NEW h \in Resumed(g, item),
           item.do \in Inner \cup {"enabled", "deinit", "detached", "close"}
    PROVE  DOMAIN h = Fields /\ BreakpointsOK(h) /\ h.ini \in Apps
<1>1. CASE item.do \in Inner
  <2>1. PICK k : Goes(g, k, g.todo) /\ (h = k \/ h = Break(k))
    BY <1>1, ResumedGoes
  <2> QED
    BY <2>1, BreakpointsGoes, BreakpointsBroken
<1>2. CASE item.do = "enabled"
  <2>1. h = [g EXCEPT !.remote_enabled = TRUE]
    BY <1>2 DEF Resumed
  <2>2. Only(g, h, {"remote_enabled"})
    BY <2>1 DEF Only
  <2> QED
    BY <2>2, BreakpointsKept DEF Kept, Placed
<1>3. CASE item.do = "deinit"
  <2>1. h = Deinitialized(g)
    BY <1>3 DEF Resumed
  <2> QED
    BY <2>1, DeinitializedOnly, BreakpointsKept DEF Kept, Placed
<1>4. CASE item.do = "detached"
  <2>1. h = Detached(g, item.id)
    BY <1>4 DEF Resumed
  <2>2. PICK k : DetachedUpTo(g, item.id, k) /\ h = LeaveLoop(k)
    BY <2>1, DetachedIs
  <2>3. DOMAIN k = Fields /\ BreakpointsOK(k) /\ k.ini \in Apps
    BY <2>2, BreakpointsKept DEF Kept, Placed, DetachedUpTo
  <2> QED
    BY <2>2, <2>3, BreakpointsLeft
<1>5. CASE item.do = "close"
  <2> DEFINE s == g.sockets \ {g.sessions}
  <2>1. h = [g EXCEPT !.sockets = s, !.connected = FALSE]
    BY <1>5 DEF Resumed
  <2> HIDE DEF s
  <2>2. Only(g, h, {"sockets", "connected"})
    BY <2>1 DEF Only
  <2> QED
    BY <2>2, BreakpointsKept DEF Kept, Placed
<1> QED
  BY <1>1, <1>2, <1>3, <1>4, <1>5

-----------------------------------------------------------------------------
(* What is left to do *)

LEMMA ConcatIsSeq ==
    ASSUME NEW s, NEW t, IsSeq(s), IsSeq(t)
    PROVE  /\ IsSeq(s \o t) /\ Len(s \o t) = Len(s) + Len(t)
           /\ \A i \in 1..Len(s) : (s \o t)[i] = s[i]
           /\ \A i \in 1..Len(t) : (s \o t)[Len(s) + i] = t[i]
<1> DEFINE S == Range(s) \cup Range(t)
<1>1. s \in Seq(Range(s)) /\ t \in Seq(Range(t)) /\ Range(s) \subseteq S /\ Range(t) \subseteq S
  BY DEF IsSeq
<1> HIDE DEF S
<1>2. s \in Seq(S) /\ t \in Seq(S)
  BY <1>1
<1>3. /\ s \o t \in Seq(S) /\ Len(s \o t) = Len(s) + Len(t)
      /\ \A i \in 1..(Len(s) + Len(t)) :
            (s \o t)[i] = IF i <= Len(s) THEN s[i] ELSE t[i - Len(s)]
  BY <1>2, ConcatProperties
<1>4. Len(s) \in Nat /\ Len(t) \in Nat
  BY <1>2
<1>5. IsSeq(s \o t)
  BY <1>3, SeqIsSeq
<1>6. \A i \in 1..Len(s) : (s \o t)[i] = s[i]
  BY <1>3, <1>4
<1>7. ASSUME NEW i \in 1..Len(t) PROVE (s \o t)[Len(s) + i] = t[i]
  <2>1. Len(s) + i \in 1..(Len(s) + Len(t)) /\ ~(Len(s) + i <= Len(s)) /\ Len(s) + i - Len(s) = i
    BY <1>4
  <2> QED
    BY <1>3, <2>1
<1> QED
  BY <1>3, <1>5, <1>6, <1>7

LEMMA TailIsSeq ==
    ASSUME NEW s, IsSeq(s), s # <<>>
    PROVE  /\ IsSeq(Tail(s)) /\ Len(s) >= 1 /\ Len(Tail(s)) = Len(s) - 1 /\ Head(s) = s[1]
           /\ \A i \in 1..(Len(s) - 1) : Tail(s)[i] = s[i + 1]
<1> DEFINE S == Range(s)
<1>1. s \in Seq(S)
  BY DEF IsSeq
<1> HIDE DEF S
<1>2. /\ Tail(s) \in Seq(S) /\ Len(s) \in Nat /\ Len(s) >= 1 /\ Len(Tail(s)) = Len(s) - 1
      /\ Head(s) = s[1]
  BY <1>1
<1>3. ASSUME NEW i \in 1..(Len(s) - 1) PROVE Tail(s)[i] = s[i + 1]
  BY <1>1, <1>2
<1> QED
  BY <1>2, <1>3, SeqIsSeq

LEMMA PairIsSeq ==
    ASSUME NEW a, NEW b
    PROVE  /\ IsSeq(<<a>>) /\ Len(<<a>>) = 1 /\ <<a>>[1] = a
           /\ IsSeq(<<a, b>>) /\ Len(<<a, b>>) = 2 /\ <<a, b>>[1] = a /\ <<a, b>>[2] = b
<1>1. <<a>> \in Seq({a, b}) /\ Len(<<a>>) = 1 /\ <<a>>[1] = a
  OBVIOUS
<1>2. <<a, b>> \in Seq({a, b}) /\ Len(<<a, b>>) = 2 /\ <<a, b>>[1] = a /\ <<a, b>>[2] = b
  OBVIOUS
<1> QED
  BY <1>1, <1>2, SeqIsSeq

LEMMA TodoAfter ==
    ASSUME NEW s, IsSeq(s), \A i \in 1..Len(s) : s[i].do \in Kinds \ {"bail", "detached"},
           NEW todo, TodoOK(todo)
    PROVE  TodoOK(s \o todo)
<1> DEFINE all == s \o todo
<1>1. /\ IsSeq(all) /\ Len(all) = Len(s) + Len(todo)
      /\ \A i \in 1..Len(s) : all[i] = s[i]
      /\ \A i \in 1..Len(todo) : all[Len(s) + i] = todo[i]
  BY ConcatIsSeq DEF TodoOK
<1>2. Len(s) \in Nat /\ Len(todo) \in Nat
  BY SeqDomain DEF TodoOK
<1> HIDE DEF all
<1>3. ASSUME NEW i \in 1..Len(all)
      PROVE  ItemOK(all, i)
  <2>1. CASE i <= Len(s)
    <3>1. i \in 1..Len(s)
      BY <1>2, <2>1
    <3>2. all[i].do \in Kinds \ {"bail", "detached"}
      BY <1>1, <3>1
    <3> QED
      BY <3>2 DEF ItemOK
  <2>2. CASE ~(i <= Len(s))
    <3> DEFINE j == i - Len(s)
    <3>1. j \in 1..Len(todo) /\ i = Len(s) + j
      BY <1>1, <1>2, <2>2
    <3> HIDE DEF j
    <3>2. all[i] = todo[j]
      BY <1>1, <3>1
    <3>3. ItemOK(todo, j)
      BY <3>1 DEF TodoOK
    <3>4. ASSUME j < Len(todo) PROVE i < Len(all) /\ all[i + 1] = todo[j + 1]
      <4>1. j + 1 \in 1..Len(todo) /\ Len(s) + (j + 1) = i + 1 /\ i < Len(all)
        BY <1>1, <1>2, <3>1, <3>4
      <4> QED
        BY <1>1, <4>1
    <3>5. j = Len(todo) => i = Len(all)
      BY <1>1, <3>1
    <3> QED
      BY <3>2, <3>3, <3>4, <3>5 DEF ItemOK
  <2> QED
    BY <2>1, <2>2
<1>4. TodoOK(all)
  BY <1>1, <1>3 DEF TodoOK
<1> QED
  BY <1>4 DEF all

LEMMA TodoRest ==
    ASSUME NEW todo, TodoOK(todo), todo # <<>>
    PROVE  TodoOK(Tail(todo))
<1> DEFINE rest == Tail(todo)
<1>1. /\ IsSeq(rest) /\ Len(todo) >= 1 /\ Len(rest) = Len(todo) - 1
      /\ \A i \in 1..(Len(todo) - 1) : rest[i] = todo[i + 1]
  BY TailIsSeq DEF TodoOK
<1>2. Len(todo) \in Nat
  BY SeqDomain DEF TodoOK
<1> HIDE DEF rest
<1>3. ASSUME NEW i \in 1..Len(rest)
      PROVE  ItemOK(rest, i)
  <2>1. i \in 1..(Len(todo) - 1) /\ i + 1 \in 1..Len(todo)
    BY <1>1, <1>2
  <2>2. rest[i] = todo[i + 1] /\ ItemOK(todo, i + 1)
    BY <1>1, <2>1 DEF TodoOK
  <2>3. ASSUME i + 1 < Len(todo) PROVE i < Len(rest) /\ rest[i + 1] = todo[(i + 1) + 1]
    <3>1. i + 1 \in 1..(Len(todo) - 1) /\ i < Len(rest)
      BY <1>1, <1>2, <2>1, <2>3
    <3> QED
      BY <1>1, <3>1
  <2>4. i + 1 = Len(todo) => i = Len(rest)
    BY <1>1, <1>2, <2>1
  <2> QED
    BY <2>2, <2>3, <2>4 DEF ItemOK
<1> QED
  BY <1>1, <1>3 DEF TodoOK, rest

LEMMA TodoPlain == ASSUME NEW items, Plain(items) PROVE TodoOK(items)
BY DEF Plain, TodoOK, ItemOK, Kinds, Inner

LEMMA TodoBail == TodoOK(<<[do |-> "bail"]>>) /\ TodoOK(<<>>)
<1> DEFINE b == [do |-> "bail"]
<1>1. b.do = "bail"
  OBVIOUS
<1> HIDE DEF b
<1> DEFINE p == <<b>>
<1>2. IsSeq(p) /\ Len(p) = 1 /\ p[1] = b
  BY PairIsSeq
<1> HIDE DEF p
<1>4. TodoOK(p)
  BY <1>1, <1>2 DEF TodoOK, ItemOK, Kinds
<1>3. TodoOK(<<>>)
  BY EmptyIs DEF TodoOK
<1> QED
  BY <1>3, <1>4 DEF b, p

\* What the operations put in front of it.
LEMMA TodoOne ==
    ASSUME NEW todo, TodoOK(todo), NEW a, a.do \in Kinds \ {"bail", "detached"}
    PROVE  TodoOK(<<a>> \o todo)
<1> DEFINE p == <<a>>
<1>1. IsSeq(p) /\ Len(p) = 1 /\ p[1] = a
  BY PairIsSeq
<1> HIDE DEF p
<1>2. \A i \in 1..Len(p) : p[i].do \in Kinds \ {"bail", "detached"}
  BY <1>1
<1> QED
  BY <1>1, <1>2, TodoAfter DEF p

LEMMA TodoTwo ==
    ASSUME NEW todo, TodoOK(todo), NEW a, a.do \in Kinds \ {"bail", "detached"},
           NEW b, b.do \in Kinds \ {"bail", "detached"}
    PROVE  TodoOK(<<a, b>> \o todo)
<1> DEFINE p == <<a, b>>
<1>1. IsSeq(p) /\ Len(p) = 2 /\ p[1] = a /\ p[2] = b
  BY PairIsSeq
<1> HIDE DEF p
<1>2. \A i \in 1..Len(p) : p[i].do \in Kinds \ {"bail", "detached"}
  BY <1>1
<1> QED
  BY <1>1, <1>2, TodoAfter DEF p

LEMMA TodoDetached ==
    ASSUME NEW todo, TodoOK(todo), todo # <<>>, Head(todo).do = "loop", NEW a, a.do = "detached"
    PROVE  TodoOK(<<a>> \o todo)
<1> DEFINE p   == <<a>>
           all == p \o todo
<1>1. IsSeq(p) /\ Len(p) = 1 /\ p[1] = a
  BY PairIsSeq
<1>0. IsSeq(todo)
  BY DEF TodoOK
<1>2. Len(todo) \in Nat /\ Len(todo) >= 1 /\ todo[1].do = "loop"
  BY <1>0, TailIsSeq, SeqDomain
<1> HIDE DEF p
<1>3. /\ IsSeq(all) /\ Len(all) = Len(p) + Len(todo)
      /\ \A i \in 1..Len(p) : all[i] = p[i]
      /\ \A i \in 1..Len(todo) : all[Len(p) + i] = todo[i]
  <2>1. IsSeq(p) /\ IsSeq(todo)
    BY <1>0, <1>1
  <2> QED
    BY ONLY <2>1, ConcatIsSeq
<1> HIDE DEF all
<1>4. Len(all) = 1 + Len(todo) /\ all[1] = a /\ \A i \in 1..Len(todo) : all[1 + i] = todo[i]
  BY <1>1, <1>3
<1>5. ASSUME NEW i \in 1..Len(all) PROVE ItemOK(all, i)
  <2>1. CASE i = 1
    <3>1. 1 \in 1..Len(todo) /\ 1 < Len(all)
      BY <1>2, <1>4
    <3>2. all[1 + 1].do = "loop"
      BY <1>2, <1>4, <3>1
    <3> QED
      BY <1>4, <2>1, <3>1, <3>2 DEF ItemOK, Kinds
  <2>2. CASE i # 1
    <3> DEFINE j == i - 1
    <3>1. j \in 1..Len(todo) /\ i = 1 + j
      BY <1>2, <1>4, <2>2
    <3> HIDE DEF j
    <3>2. all[i] = todo[j] /\ ItemOK(todo, j)
      BY <1>4, <3>1 DEF TodoOK
    <3>3. ASSUME j < Len(todo) PROVE i < Len(all) /\ all[i + 1] = todo[j + 1]
      <4>1. j + 1 \in 1..Len(todo) /\ 1 + (j + 1) = i + 1 /\ i < Len(all)
        BY <1>2, <1>4, <3>1, <3>3
      <4> QED
        BY <1>4, <4>1
    <3>4. j = Len(todo) => i = Len(all)
      BY <1>4, <3>1
    <3> QED
      BY <3>2, <3>3, <3>4 DEF ItemOK
  <2> QED
    BY <2>1, <2>2
<1> QED
  BY <1>3, <1>5 DEF TodoOK, all, p

LEMMA TodoStarts ==
    ASSUME NEW todo, TodoOK(todo)
    PROVE  /\ TodoOK(<<Loop(TRUE)>> \o todo)
           /\ TodoOK(<<Loop(TRUE), [do |-> "enabled"]>> \o todo)
           /\ TodoOK(<<Loop(FALSE), [do |-> "deinit"]>> \o todo)
           /\ TodoOK(<<[do |-> "close"]>> \o todo)
           /\ todo # <<>> /\ Head(todo).do = "loop" =>
                \A t : TodoOK(<<[do |-> "detached", id |-> t]>> \o todo)
<1> DEFINE e == [do |-> "enabled"]
           d == [do |-> "deinit"]
           c == [do |-> "close"]
<1>1. /\ Loop(TRUE).do = "loop" /\ Loop(FALSE).do = "loop"
      /\ e.do = "enabled" /\ d.do = "deinit" /\ c.do = "close"
  BY DEF Loop
<1> HIDE DEF e, d, c
<1>2. /\ TodoOK(<<Loop(TRUE)>> \o todo) /\ TodoOK(<<c>> \o todo)
      /\ TodoOK(<<Loop(TRUE), e>> \o todo) /\ TodoOK(<<Loop(FALSE), d>> \o todo)
  BY <1>1, TodoOne, TodoTwo DEF Kinds
<1>3. ASSUME NEW t, todo # <<>>, Head(todo).do = "loop"
      PROVE  TodoOK(<<[do |-> "detached", id |-> t]>> \o todo)
  <2> DEFINE a == [do |-> "detached", id |-> t]
  <2>1. a.do = "detached"
    OBVIOUS
  <2> HIDE DEF a
  <2>2. TodoOK(<<a>> \o todo)
    BY <1>3, <2>1, TodoDetached
  <2> QED
    BY <2>2 DEF a
<1> QED
  BY <1>2, <1>3 DEF e, d, c

LEMMA LeaveLoopIs ==
    ASSUME NEW g, DOMAIN g = Fields
    PROVE  \/ Head(g.todo).bail /\ g.status = "stopped" /\ LeaveLoop(g).todo = <<[do |-> "bail"]>>
           \/ ~(Head(g.todo).bail /\ g.status = "stopped") /\ LeaveLoop(g).todo = Tail(g.todo)
<1>1. CASE Head(g.todo).bail /\ g.status = "stopped"
  <2>1. LeaveLoop(g) = [g EXCEPT !.todo = <<[do |-> "bail"]>>]
    BY <1>1, Zenon DEF LeaveLoop
  <2> QED
    BY <1>1, <2>1 DEF Fields
<1>2. CASE ~(Head(g.todo).bail /\ g.status = "stopped")
  <2>1. LeaveLoop(g) = Done(g)
    BY <1>2, Zenon DEF LeaveLoop
  <2> QED
    BY <1>2, <2>1, DoneOnly
<1> QED
  BY <1>1, <1>2

\* What the operations do to what is left to do.
LEMMA TodoOperations ==
    ASSUME NEW g, DOMAIN g = Fields, TodoOK(g.todo), NEW t
    PROVE  /\ TodoOK(Break(g).todo) /\ TodoOK(DbgpInit(g).todo) /\ TodoOK(Deinit(g).todo)
           /\ g.todo # <<>> => TodoOK(LeaveLoop(g).todo)
           /\ g.todo # <<>> /\ Head(g.todo).do = "loop" =>
                 TodoOK(Begin(g, <<[do |-> "detached", id |-> t]>>).todo)
           /\ TodoOK(Begin(g, <<[do |-> "close"]>>).todo)
<1>1. TodoOK(Break(g).todo)
  BY BreakOnly, TodoStarts
<1>2. TodoOK(DbgpInit(g).todo)
  BY DbgpInitOnly, TodoStarts
<1>3. TodoOK(Deinit(g).todo)
  BY DeinitOnly, TodoStarts
<1>4. g.todo # <<>> => TodoOK(LeaveLoop(g).todo)
  BY LeaveLoopIs, TodoRest, TodoBail
<1>5. g.todo # <<>> /\ Head(g.todo).do = "loop" =>
         TodoOK(Begin(g, <<[do |-> "detached", id |-> t]>>).todo)
  BY BeginOnly, TodoStarts
<1>6. TodoOK(Begin(g, <<[do |-> "close"]>>).todo)
  BY BeginOnly, TodoStarts
<1> QED
  BY <1>1, <1>2, <1>3, <1>4, <1>5, <1>6

LEMMA TodoAdvanced ==
    ASSUME NEW g, NEW h, Advances(g, h)
    PROVE  TodoOK(h.todo)
<1>1. PICK items, k : /\ Plain(items) /\ Goes(g, k, items)
                      /\ h = k \/ h = Break(k) \/ h = DbgpInit(k)
  BY DEF Advances
<1>2. DOMAIN k = Fields /\ TodoOK(k.todo)
  BY <1>1, GoesFields, TodoPlain
<1> QED
  BY <1>1, <1>2, TodoOperations

LEMMA TodoParsed ==
    ASSUME NEW g, NEW m, Only(g, m, Asked), TodoOK(g.todo), g.todo # <<>>,
           Head(g.todo).do = "loop", NEW name, NEW t, NEW h, Parsed(g, name, t, m, h)
    PROVE  TodoOK(h.todo)
<1>1. DOMAIN m = Fields /\ m.todo = g.todo
  BY DEF Only, Asked, Kept, Placed, Viewed, Fields
<1> DEFINE r == Respond(m, t)
           b == Begin(m, <<[do |-> "detached", id |-> t]>>)
<1>2. DOMAIN r = Fields /\ r.todo = m.todo
  BY <1>1, RespondOnly DEF Only, Fields
<1>3. DOMAIN b = Fields /\ TodoOK(b.todo)
  BY <1>1, BeginOnly, TodoOperations DEF Only
<1>4. h = LeaveLoop(r) \/ h = LeaveLoop(m) \/ h = Deinit(b) \/ h = r
  BY DEF Parsed
<1> HIDE DEF r, b
<1> QED
  BY <1>1, <1>2, <1>3, <1>4, TodoOperations

LEMMA TodoResumed ==
    ASSUME NEW g, DOMAIN g = Fields, TodoOK(g.todo), NEW item, NEW h \in Resumed(g, item),
           item.do \in Kinds \ {"loop", "bail"}, item.do = "detached" => g.todo # <<>>
    PROVE  TodoOK(h.todo)
<1>1. CASE item.do \in Inner
  <2>1. PICK k : Goes(g, k, g.todo) /\ (h = k \/ h = Break(k))
    BY <1>1, ResumedGoes
  <2>2. DOMAIN k = Fields /\ k.todo = g.todo
    BY <2>1, GoesFields
  <2>3. TodoOK(k.todo) /\ TodoOK(Break(k).todo)
    BY <2>2, TodoOperations
  <2> QED
    BY <2>1, <2>3
<1>2. CASE item.do \in {"enabled", "deinit", "close"}
  <2>1. \/ h = [g EXCEPT !.remote_enabled = TRUE]
        \/ h = Deinitialized(g)
        \/ h = [g EXCEPT !.sockets = @ \ {g.sessions}, !.connected = FALSE]
    BY <1>2 DEF Resumed
  <2>2. h.todo = g.todo
    BY <2>1, DeinitializedOnly, ZenonT(60) DEF Only, Fields
  <2> QED
    BY <2>2
<1>3. CASE item.do = "detached"
  <2>1. h = Detached(g, item.id)
    BY <1>3 DEF Resumed
  <2>2. PICK k : DetachedUpTo(g, item.id, k) /\ h = LeaveLoop(k)
    BY <2>1, DetachedIs
  <2>3. DOMAIN k = Fields /\ k.todo = g.todo
    BY <2>2 DEF DetachedUpTo, Only
  <2> QED
    BY <1>3, <2>2, <2>3, TodoOperations
<1> QED
  BY <1>1, <1>2, <1>3 DEF Kinds

-----------------------------------------------------------------------------
(* The invariant of the breakpoints *)

LEMMA BInvInit == ASSUME Init PROVE BInv
<1>1. PICK app \in Apps : x = Globals(app)
  BY DEF Init
<1>2. DOMAIN x = Fields
  BY <1>1, GlobalsFields
<1>3. /\ x.ini = app /\ x.todo = <<>> /\ x.stack = <<>> /\ x.breakpoint_count = 0
      /\ x.breakpoint_list = <<>> /\ x.line_breakpoints = <<>>
      /\ x.function_breakpoints = <<>> /\ x.exception_breakpoints = <<>> /\ x.shared = {}
  BY <1>1 DEF Globals
<1>4. BreakpointsOK(x)
  <2> DEFINE n == NoBreakpoints(x)
  <2>1. BreakpointsOK(n)
    BY <1>2, <1>3, BreakpointsNone
  <2>2. /\ Only(x, n, Placed) /\ n.breakpoint_list = <<>> /\ n.line_breakpoints = <<>>
        /\ n.function_breakpoints = <<>> /\ n.exception_breakpoints = <<>> /\ n.shared = {}
    BY <1>2, NoBreakpointsOnly
  <2> HIDE DEF n
  <2>3. Only(n, x, {})
    BY <1>3, <2>2 DEF Only, Placed
  <2> QED
    BY <2>1, <2>3, BreakpointsSame
<1>5. TodoOK(x.todo) /\ ~Running
  BY <1>3, TodoBail, EmptyIs DEF Running, Init
<1> QED
  BY <1>1, <1>2, <1>3, <1>4, <1>5 DEF BInv

LEMMA TodoHead ==
    ASSUME NEW todo, TodoOK(todo), todo # <<>>
    PROVE  /\ Head(todo).do \in Kinds
           /\ Head(todo).do = "bail" => Tail(todo) = <<>>
           /\ Head(todo).do = "detached" => Tail(todo) # <<>> /\ Head(Tail(todo)).do = "loop"
<1>1. /\ IsSeq(Tail(todo)) /\ Len(todo) >= 1 /\ Len(Tail(todo)) = Len(todo) - 1
      /\ Head(todo) = todo[1] /\ Len(todo) \in Nat
      /\ \A i \in 1..(Len(todo) - 1) : Tail(todo)[i] = todo[i + 1]
  BY TailIsSeq, SeqDomain DEF TodoOK
<1>2. ItemOK(todo, 1)
  BY <1>1 DEF TodoOK
<1>3. CASE Head(todo).do = "bail"
  <2>1. Len(Tail(todo)) = 0
    BY <1>1, <1>2, <1>3 DEF ItemOK
  <2>2. Tail(todo) \in Seq(Range(Tail(todo)))
    BY <1>1 DEF IsSeq
  <2> DEFINE r == Tail(todo)
             S == Range(r)
  <2> HIDE DEF r, S
  <2>3. r \in Seq(S) /\ Len(r) = 0 => r = <<>>
    OBVIOUS
  <2> QED
    BY <1>1, <1>2, <1>3, <2>1, <2>2, <2>3 DEF ItemOK, r, S
<1>4. CASE Head(todo).do = "detached"
  <2>1. 1 < Len(todo) /\ todo[1 + 1].do = "loop"
    BY <1>1, <1>2, <1>4 DEF ItemOK
  <2>2. Len(Tail(todo)) # 0 /\ Tail(todo)[1] = todo[1 + 1]
    BY <1>1, <2>1
  <2>3. Tail(todo) # <<>>
    BY <2>2, EmptyIs
  <2>4. Head(Tail(todo)) = Tail(todo)[1]
    BY <1>1, <2>3, TailIsSeq
  <2> QED
    BY <1>1, <1>2, <1>4, <2>1, <2>2, <2>3, <2>4 DEF ItemOK
<1> QED
  BY <1>1, <1>2, <1>3, <1>4 DEF ItemOK

LEMMA TodoCommanded ==
    ASSUME BInv, Command
    PROVE  TodoOK(x'.todo)
<1>1. PICK name : x' \in ParseOption([x EXCEPT !.commands = Append(@,
                            [name |-> name, session |-> x.sessions, answers |-> 0])],
                            name, Len(x.commands) + 1)
  BY DEF Command
<1> DEFINE c == Append(x.commands, [name |-> name, session |-> x.sessions, answers |-> 0])
           g == [x EXCEPT !.commands = c]
           t == Len(x.commands) + 1
<1> HIDE DEF c
<1>2. Only(x, g, {"commands"}) /\ g.todo = x.todo
  BY DEF BInv, Only, Fields
<1>3. DOMAIN g = Fields /\ BreakpointsOK(g) /\ g.ini \in Apps
  BY <1>2, BreakpointsKept DEF BInv, Kept, Placed
<1>4. x' \in ParseOption(g, name, t)
  BY <1>1 DEF c
<1> HIDE DEF g, t
<1>5. PICK m : Only(g, m, Asked) /\ Parsed(g, name, t, m, x')
  BY <1>3, <1>4, CommandParsed
<1>6. TodoOK(g.todo) /\ g.todo # <<>> /\ Head(g.todo).do = "loop"
  BY <1>2 DEF BInv, Command, AtLoop
<1> QED
  BY <1>5, <1>6, TodoParsed

LEMMA BreakpointsStep ==
    ASSUME BInv, Next
    PROVE  DOMAIN x' = Fields /\ x'.ini \in Apps /\ BreakpointsOK(x') /\ TodoOK(x'.todo)
<1>1. /\ DOMAIN x = Fields /\ x.ini \in Apps /\ BreakpointsOK(x) /\ TodoOK(x.todo)
      /\ phase = "idle" => x.todo = <<>>
  BY DEF BInv
<1>2. CASE Advance
  BY <1>1, <1>2, AdvanceAdvances, BreakpointsAdvanced, TodoAdvanced
<1>3. CASE EndRequest
  <2> DEFINE c == Begin(x, <<[do |-> "close"]>>)
  <2>1. x' = x \/ x' = Deinit(c)
    BY <1>3 DEF EndRequest, PostDeactivate
  <2>2. DOMAIN c = Fields /\ BreakpointsOK(c) /\ c.ini \in Apps /\ TodoOK(c.todo)
    <3>1. Goes(x, c, <<[do |-> "close"]>> \o x.todo)
      BY <1>1, GoesBegin
    <3>2. TodoOK(c.todo)
      BY <1>1, TodoOperations
    <3> HIDE DEF c
    <3> QED
      BY <1>1, <3>1, <3>2, BreakpointsGoes
  <2> HIDE DEF c
  <2>3. DOMAIN Deinit(c) = Fields /\ BreakpointsOK(Deinit(c)) /\ Deinit(c).ini \in Apps
    BY <2>2, DeinitOnly, BreakpointsKept, SMTT(40) DEF Kept, Placed
  <2> QED
    BY <1>1, <2>1, <2>2, <2>3, TodoOperations
<1>4. CASE Command
  <2>1. DOMAIN x' = Fields /\ x'.ini \in Apps /\ BreakpointsOK(x')
    BY <1>4, BreakpointsCommanded
  <2>2. TodoOK(x'.todo)
    BY <1>1, <1>4, TodoCommanded
  <2> QED
    BY <2>1, <2>2
<1>5. CASE HangUp
  <2>1. Only(x, x', {"connected"})
    BY <1>1, <1>5 DEF HangUp, Only
  <2>2. x'.todo = x.todo
    BY <2>1 DEF Only, Fields
  <2> QED
    BY <1>1, <2>1, <2>2, BreakpointsKept DEF Kept, Placed
<1>6. CASE EndOfFile
  <2>1. x' = Done(x) /\ x.todo # <<>>
    BY <1>6 DEF EndOfFile, AtLoop
  <2>2. Goes(x, x', Tail(x.todo))
    BY <1>1, <2>1, GoesDone
  <2>3. TodoOK(x'.todo)
    BY <1>1, <2>1, <2>2, TodoRest DEF Goes
  <2> QED
    BY <1>1, <2>2, <2>3, BreakpointsGoes
<1>7. CASE Resume
  <2> DEFINE item == Head(x.todo)
             d    == Done(x)
  <2>1. item.do \notin {"loop", "bail"} /\ x.todo # <<>> /\ x' \in Resumed(d, item)
    BY <1>7 DEF Resume
  <2>2. Goes(x, d, Tail(x.todo))
    BY <1>1, GoesDone
  <2>3. DOMAIN d = Fields /\ BreakpointsOK(d) /\ d.ini \in Apps /\ d.todo = Tail(x.todo)
    BY <1>1, <2>2, BreakpointsGoes DEF Goes
  <2>4. TodoOK(d.todo)
    BY <1>1, <2>1, <2>3, TodoRest
  <2>5. item.do \in Kinds /\ (item.do = "detached" => Tail(x.todo) # <<>>)
    BY <1>1, <2>1, TodoHead
  <2> HIDE DEF item, d
  <2>6. DOMAIN x' = Fields /\ x'.ini \in Apps /\ BreakpointsOK(x')
    BY <2>1, <2>3, <2>5, BreakpointsResumed DEF Kinds
  <2> QED
    BY <2>1, <2>3, <2>4, <2>5, <2>6, TodoResumed
<1>8. CASE Bailout
  <2>1. x' = [x EXCEPT !.todo = <<>>, !.step = NoStep]
    BY <1>8 DEF Bailout
  <2>2. Only(x, x', {"todo", "step"}) /\ x'.todo = <<>>
    BY <1>1, <2>1 DEF Only, Fields
  <2> QED
    BY <1>1, <2>2, BreakpointsKept, TodoBail DEF Kept, Placed
<1> QED
  BY <1>2, <1>3, <1>4, <1>5, <1>6, <1>7, <1>8 DEF Next, Advance

LEMMA BInvNext == ASSUME BInv, [Next]_vars PROVE BInv'
<1>1. CASE Next
  <2>1. phase' # "idle"
    BY <1>1 DEF BInv, Next, RunScript, Call, Return, Statement, Throw, RaiseError, EndRequest,
       Command, HangUp, EndOfFile, Resume, Bailout, AtLoop
  <2> QED
    BY <1>1, <2>1, BreakpointsStep DEF BInv
<1>2. CASE UNCHANGED vars
  <2>1. x' = x /\ phase' = phase /\ base' = base
    BY <1>2 DEF vars
  <2>2. Running' = Running
    BY <2>1 DEF Running
  <2>3. BreakpointsOK(x') = BreakpointsOK(x)
    BY <2>1
  <2> QED
    BY <2>1, <2>2, <2>3 DEF BInv
<1> QED
  BY <1>1, <1>2

\* In every state of every session the breakpoints are kept as BInv says.
THEOREM BreakpointsInvariance == Spec => []BInv
<1>1. Init => BInv
  BY BInvInit
<1>2. BInv /\ [Next]_vars => BInv'
  BY BInvNext
<1> QED
  BY <1>1, <1>2, PTL DEF Spec

\* A temporary breakpoint for a line or a function never stops the script twice
\* while it is not enabled again (xdebug_handle_hit_value and the hooks that call
\* it), whatever the IDE sets, updates or removes.
THEOREM StopsOnce == Spec => []TemporaryOnce
<1>1. BInv => TemporaryOnce
  BY BreakpointsTemporary DEF BInv
<1> QED
  BY <1>1, BreakpointsInvariance, PTL

\* breakpoint_brk_info_fetch leads from an id to the breakpoint that was set with
\* it: for a name that was never set under two ids, and for a line while ids and
\* lines match.
THEOREM IdsLeadToTheirs == Spec => []IdFindsOwn
<1>1. BInv => IdFindsOwn
  BY BreakpointsFound DEF BInv
<1> QED
  BY <1>1, BreakpointsInvariance, PTL

-----------------------------------------------------------------------------
(* The head and the rest of what is left to do *)

\* all begins with the item a, and goes on with rest.
Pushed(all, a, rest) ==
    /\ IsSeq(all) /\ IsSeq(rest) /\ all # <<>> /\ Head(all) = a /\ Tail(all) = rest
    /\ Range(all) = {a} \cup Range(rest)

LEMMA HeadAndTail ==
    ASSUME NEW all, IsSeq(all), all # <<>>
    PROVE  Pushed(all, Head(all), Tail(all))
<1>1. /\ IsSeq(Tail(all)) /\ Len(all) >= 1 /\ Len(Tail(all)) = Len(all) - 1
      /\ Head(all) = all[1]
      /\ \A i \in 1..(Len(all) - 1) : Tail(all)[i] = all[i + 1]
  BY TailIsSeq
<1> DEFINE rest == Tail(all)
<1>2. /\ DOMAIN all = 1..Len(all) /\ Len(all) \in Nat
      /\ DOMAIN rest = 1..(Len(all) - 1) /\ IsSeq(rest)
  BY <1>1, SeqDomain
<1>3. \A i \in 1..(Len(all) - 1) : rest[i] = all[i + 1]
  BY <1>1
<1> HIDE DEF rest
<1>4. ASSUME NEW i \in DOMAIN all PROVE all[i] \in {all[1]} \cup Range(rest)
  <2>1. CASE i = 1
    BY <2>1
  <2>2. CASE i # 1
    <3>1. i - 1 \in DOMAIN rest /\ rest[i - 1] = all[i]
      BY <1>2, <1>3, <2>2
    <3> QED
      BY <3>1 DEF Range
  <2> QED
    BY <2>1, <2>2
<1>5. ASSUME NEW i \in DOMAIN rest PROVE rest[i] \in Range(all)
  <2>1. i + 1 \in DOMAIN all /\ rest[i] = all[i + 1]
    BY <1>2, <1>3
  <2> QED
    BY <2>1 DEF Range
<1>6. all[1] \in Range(all)
  <2>1. 1 \in DOMAIN all
    BY <1>1, <1>2
  <2> QED
    BY <2>1 DEF Range
<1>7. Range(all) = {all[1]} \cup Range(rest)
  <2>1. Range(all) \subseteq {all[1]} \cup Range(rest)
    BY <1>4 DEF Range
  <2>2. Range(rest) \subseteq Range(all)
    BY <1>5 DEF Range
  <2> QED
    BY <1>6, <2>1, <2>2
<1> QED
  BY <1>1, <1>2, <1>7 DEF Pushed, rest

LEMMA PushIs ==
    ASSUME NEW rest, IsSeq(rest), NEW a
    PROVE  Pushed(<<a>> \o rest, a, rest)
<1> DEFINE p   == <<a>>
           all == p \o rest
<1>1. IsSeq(p) /\ Len(p) = 1 /\ p[1] = a
  BY PairIsSeq
<1> HIDE DEF p
<1>2. /\ IsSeq(all) /\ Len(all) = Len(p) + Len(rest)
      /\ \A i \in 1..Len(p) : all[i] = p[i]
      /\ \A i \in 1..Len(rest) : all[Len(p) + i] = rest[i]
  <2>1. IsSeq(rest) /\ IsSeq(p)
    BY <1>1
  <2> QED
    BY ONLY <2>1, ConcatIsSeq
<1>3. Len(rest) \in Nat
  BY SeqDomain
<1> HIDE DEF all
<1>4. Len(all) = 1 + Len(rest) /\ all[1] = a /\ \A i \in 1..Len(rest) : all[1 + i] = rest[i]
  BY <1>1, <1>2
<1>5. all # <<>>
  BY <1>3, <1>4, EmptyIs
<1>6. Pushed(all, Head(all), Tail(all))
  BY <1>2, <1>5, HeadAndTail
<1>7. Head(all) = all[1] /\ Len(Tail(all)) = Len(all) - 1
      /\ \A i \in 1..(Len(all) - 1) : Tail(all)[i] = all[i + 1]
  BY <1>2, <1>5, TailIsSeq
<1>8. Tail(all) = rest
  <2> DEFINE t == Tail(all)
             S == Range(t) \cup Range(rest)
  <2>1. t \in Seq(Range(t)) /\ rest \in Seq(Range(rest))
    BY <1>6 DEF Pushed, IsSeq
  <2>2. Len(t) = Len(rest)
    BY <1>3, <1>4, <1>7
  <2>3. \A i \in 1..Len(rest) : t[i] = rest[i]
    BY <1>3, <1>4, <1>7
  <2>4. Range(t) \subseteq S /\ Range(rest) \subseteq S
    OBVIOUS
  <2> HIDE DEF t, S
  <2>5. t \in Seq(S) /\ rest \in Seq(S)
    BY <2>1, <2>4
  <2>6. t = rest
    BY <2>2, <2>3, <2>5, SeqEqual
  <2> QED
    BY <2>6 DEF t
<1> QED
  BY <1>4, <1>6, <1>7, <1>8 DEF all, p

LEMMA PushTwo ==
    ASSUME NEW rest, IsSeq(rest), NEW a, NEW b
    PROVE  /\ Pushed(<<a, b>> \o rest, a, <<b>> \o rest)
           /\ Pushed(<<b>> \o rest, b, rest)
<1>1. Pushed(<<b>> \o rest, b, rest) /\ IsSeq(<<b>> \o rest)
  BY PushIs DEF Pushed
<1>2. Pushed(<<a>> \o (<<b>> \o rest), a, <<b>> \o rest)
  BY <1>1, PushIs
<1>3. <<a, b>> \o rest = <<a>> \o (<<b>> \o rest)
  <2> DEFINE S == {a, b} \cup Range(rest)
  <2>1. rest \in Seq(Range(rest)) /\ Range(rest) \subseteq S
    BY DEF IsSeq
  <2>2. a \in S /\ b \in S
    OBVIOUS
  <2> HIDE DEF S
  <2>3. rest \in Seq(S) /\ <<a>> \in Seq(S) /\ <<b>> \in Seq(S)
    BY <2>1, <2>2
  <2>4. (<<a>> \o <<b>>) \o rest = <<a>> \o (<<b>> \o rest)
    BY <2>3, ConcatAssociative
  <2>5. <<a>> \o <<b>> = <<a, b>>
    <3> DEFINE c == <<a>> \o <<b>>
               d == <<a, b>>
    <3>1. /\ <<a>> \in Seq({a, b}) /\ <<b>> \in Seq({a, b}) /\ Len(<<a>>) = 1
          /\ Len(<<b>>) = 1 /\ <<a>>[1] = a /\ <<b>>[1] = b
      OBVIOUS
    <3>2. /\ c \in Seq({a, b}) /\ Len(c) = Len(<<a>>) + Len(<<b>>)
          /\ \A i \in 1..(Len(<<a>>) + Len(<<b>>)) :
                c[i] = IF i <= Len(<<a>>) THEN <<a>>[i] ELSE <<b>>[i - Len(<<a>>)]
      BY <3>1, ConcatProperties
    <3>3. Len(c) = 2 /\ c[1] = a /\ c[2] = b
      BY <3>1, <3>2
    <3>4. d \in Seq({a, b}) /\ Len(d) = 2 /\ d[1] = a /\ d[2] = b
      OBVIOUS
    <3> HIDE DEF c, d
    <3>5. \A i \in 1..Len(c) : c[i] = d[i]
      BY <3>3, <3>4
    <3>6. c = d
      BY <3>2, <3>3, <3>4, <3>5, SeqEqual
    <3> QED
      BY <3>6 DEF c, d
  <2> QED
    BY <2>4, <2>5
<1> QED
  BY <1>1, <1>2, <1>3

-----------------------------------------------------------------------------
(* The steps, for what is said of the session *)

\* The answers, with one more to t if the IDE is there.
Answer(commands, t, connected) ==
    IF t # 0 /\ connected THEN [commands EXCEPT ![t].answers = @ + 1] ELSE commands

LEMMA RespondIs ==
    ASSUME NEW g, DOMAIN g = Fields, NEW t
    PROVE  Respond(g, t).commands = Answer(g.commands, t, g.connected)
<1>1. CASE t # 0 /\ g.connected
  <2> DEFINE c == [g.commands EXCEPT ![t].answers = @ + 1]
  <2>1. Respond(g, t) = [g EXCEPT !.commands = c]
    BY <1>1, Zenon DEF Respond
  <2>2. Answer(g.commands, t, g.connected) = c
    BY <1>1 DEF Answer
  <2> HIDE DEF c
  <2> QED
    BY <2>1, <2>2 DEF Fields
<1>2. CASE ~(t # 0 /\ g.connected)
  <2>1. Respond(g, t) = g
    BY <1>2, Zenon DEF Respond
  <2> QED
    BY <1>2, <2>1 DEF Answer
<1> QED
  BY <1>1, <1>2

\* The IDE's command with the transaction id t.
Read(g, name, t) ==
    /\ Only(x, g, {"commands"}) /\ t = Len(x.commands) + 1
    /\ g.commands = Append(x.commands, [name |-> name, session |-> x.sessions, answers |-> 0])

\* What a command is read into, what it has set before it is answered, and what
\* becomes of it.
CommandIs == \E name, t, g, m : /\ Read(g, name, t) /\ Only(g, m, Asked)
                                /\ Parsed(g, name, t, m, x')

LEMMA CommandRead == ASSUME BInv, Command PROVE CommandIs
<1>1. PICK name : x' \in ParseOption([x EXCEPT !.commands = Append(@,
                            [name |-> name, session |-> x.sessions, answers |-> 0])],
                            name, Len(x.commands) + 1)
  BY DEF Command
<1> DEFINE c == Append(x.commands, [name |-> name, session |-> x.sessions, answers |-> 0])
           g == [x EXCEPT !.commands = c]
           t == Len(x.commands) + 1
<1> HIDE DEF c
<1>2. Only(x, g, {"commands"}) /\ g.commands = c
  BY DEF BInv, Only, Fields
<1>3. DOMAIN g = Fields /\ BreakpointsOK(g) /\ g.ini \in Apps
  BY <1>2, BreakpointsKept DEF BInv, Kept, Placed
<1>4. x' \in ParseOption(g, name, t)
  BY <1>1 DEF c
<1> HIDE DEF g
<1>5. Read(g, name, t)
  BY <1>2 DEF Read, c
<1> HIDE DEF t
<1>6. PICK m : Only(g, m, Asked) /\ Parsed(g, name, t, m, x')
  BY <1>3, <1>4, CommandParsed
<1> QED
  BY <1>5, <1>6 DEF CommandIs

\* What a hook, or what ends or begins a session, goes on with.
ResumeIs ==
    LET item == Head(x.todo)
        rest == Tail(x.todo)
    IN  \/ /\ item.do \in Inner
           /\ \E k : /\ Goes(x, k, rest)
                     /\ \/ x' = k
                        \/ (x.remote_enabled \/ item.do = "checks") /\ x' = Break(k)
        \/ /\ item.do = "enabled" /\ Only(x, x', {"todo", "remote_enabled"})
           /\ x'.todo = rest /\ x'.remote_enabled = TRUE
        \/ /\ item.do = "deinit" /\ Only(x, x', {"todo", "remote_enabled", "freed"})
           /\ x'.todo = rest /\ x'.remote_enabled = FALSE
           /\ x'.freed = (x.freed \/ x.remote_enabled)
        \/ /\ item.do = "close" /\ Only(x, x', {"todo", "sockets", "connected"})
           /\ x'.todo = rest /\ x'.connected = FALSE /\ x'.sockets = x.sockets \ {x.sessions}
        \/ /\ item.do = "detached"
           /\ \E k : /\ Only(x, k, {"todo", "remote_enabled", "detached", "commands", "early"})
                     /\ k.todo = rest /\ k.remote_enabled = FALSE /\ k.detached = TRUE
                     /\ k.early = (Len(rest) > 1 /\ rest[2].do = "enabled")
                     /\ k.commands = Answer(x.commands, item.id, x.connected)
                     /\ x' = LeaveLoop(k)

LEMMA ResumedIs == ASSUME BInv, Resume PROVE ResumeIs
<1> DEFINE item == Head(x.todo)
           rest == Tail(x.todo)
           d    == Done(x)
<1>1. /\ DOMAIN x = Fields /\ x.todo # <<>> /\ item.do \notin {"loop", "bail"}
      /\ item.do \in Kinds /\ x' \in Resumed(d, item)
  BY TodoHead DEF BInv, Resume
<1>2. Goes(x, d, rest) /\ Only(x, d, {"todo"}) /\ d.todo = rest
  BY <1>1, GoesDone, DoneOnly
<1>3. /\ DOMAIN d = Fields /\ d.remote_enabled = x.remote_enabled /\ d.freed = x.freed
      /\ d.sockets = x.sockets /\ d.sessions = x.sessions /\ d.commands = x.commands
      /\ d.connected = x.connected
  BY <1>2, GoesFields
<1> HIDE DEF d, item
<1>4. CASE item.do \in Inner
  <2>1. PICK k : /\ Goes(d, k, d.todo)
                 /\ \/ x' = k
                    \/ (d.remote_enabled \/ item.do = "checks") /\ x' = Break(k)
    BY <1>1, <1>3, <1>4, ResumedGoes
  <2>2. Goes(x, k, rest)
    BY <1>2, <2>1, GoesThen
  <2> QED
    BY <1>3, <1>4, <2>1, <2>2 DEF ResumeIs, item
<1>5. CASE item.do = "enabled"
  <2>1. x' = [d EXCEPT !.remote_enabled = TRUE]
    BY <1>1, <1>5 DEF Resumed
  <2>2. Only(d, x', {"remote_enabled"}) /\ x'.remote_enabled = TRUE /\ x'.todo = rest
    BY <1>2, <1>3, <2>1 DEF Only, Fields
  <2>3. Only(x, x', {"todo", "remote_enabled"})
    BY <1>2, <2>2 DEF Only
  <2> QED
    BY <1>5, <2>2, <2>3 DEF ResumeIs, item
<1>6. CASE item.do = "deinit"
  <2>1. x' = Deinitialized(d)
    BY <1>1, <1>6 DEF Resumed
  <2>2. /\ Only(d, x', {"freed", "remote_enabled"}) /\ x'.remote_enabled = FALSE
        /\ x'.freed = (d.freed \/ d.remote_enabled)
    BY <1>3, <2>1, DeinitializedOnly
  <2>3. Only(x, x', {"todo", "remote_enabled", "freed"}) /\ x'.todo = rest
    BY <1>2, <2>2 DEF Only, Fields
  <2> QED
    BY <1>3, <1>6, <2>2, <2>3 DEF ResumeIs, item
<1>7. CASE item.do = "close"
  <2> DEFINE s == d.sockets \ {d.sessions}
  <2>1. x' = [d EXCEPT !.sockets = s, !.connected = FALSE]
    BY <1>1, <1>7 DEF Resumed
  <2>2. s = x.sockets \ {x.sessions}
    BY <1>3
  <2> HIDE DEF s
  <2>3. /\ Only(d, x', {"sockets", "connected"}) /\ x'.connected = FALSE
        /\ x'.sockets = s /\ x'.todo = rest
    BY <1>2, <1>3, <2>1 DEF Only, Fields
  <2>4. Only(x, x', {"todo", "sockets", "connected"})
    BY <1>2, <2>3 DEF Only
  <2> QED
    BY <1>7, <2>2, <2>3, <2>4 DEF ResumeIs, item
<1>8. CASE item.do = "detached"
  <2>1. x' = Detached(d, item.id)
    BY <1>1, <1>8 DEF Resumed
  <2>2. PICK k : DetachedUpTo(d, item.id, k) /\ x' = LeaveLoop(k)
    BY <1>3, <2>1, DetachedIs
  <2>3. PICK off : Only(d, off, {"remote_enabled", "detached"})
                   /\ k.commands = Respond(off, item.id).commands
    BY <2>2 DEF DetachedUpTo
  <2>4. DOMAIN off = Fields /\ off.commands = x.commands /\ off.connected = x.connected
    BY <1>3, <2>3 DEF Only, Fields
  <2>5. k.commands = Answer(x.commands, item.id, x.connected)
    BY <2>3, <2>4, RespondIs
  <2>6. Only(x, k, {"todo", "remote_enabled", "detached", "commands", "early"})
    BY <1>2, <2>2 DEF Only, DetachedUpTo
  <2> QED
    BY <1>2, <1>8, <2>2, <2>5, <2>6 DEF ResumeIs, DetachedUpTo, item
<1> QED
  BY <1>1, <1>4, <1>5, <1>6, <1>7, <1>8 DEF Kinds

-----------------------------------------------------------------------------
(* After a detach *)

Pending(todo, kind) == \E item \in Range(todo) : item.do = kind

HeadIs(todo, kind) == todo # <<>> /\ Head(todo).do = kind

\* A session is about to be enabled: at once, after the loop that it began with,
\* or after a detach in that loop.
Enabling(todo)  == HeadIs(todo, "enabled") /\ ~Pending(Tail(todo), "enabled")
Opening(todo)   == HeadIs(todo, "loop") /\ Enabling(Tail(todo))
Declining(todo) == HeadIs(todo, "detached") /\ Opening(Tail(todo))
Starting(todo)  == Enabling(todo) \/ Opening(todo) \/ Declining(todo)

\* No session is enabled, nor about to be, when the IDE has detached from it
\* otherwise than before the script ran.
CInv ==
    /\ x.sessions \in Nat
    /\ Pending(x.todo, "enabled") => ~x.remote_enabled /\ Starting(x.todo)
    /\ x.detached /\ ~x.early => ~x.remote_enabled /\ ~Pending(x.todo, "enabled")

LEMMA PendingPushed ==
    ASSUME NEW all, NEW a, NEW rest, Pushed(all, a, rest), NEW kind
    PROVE  /\ Pending(all, kind) <=> a.do = kind \/ Pending(rest, kind)
           /\ HeadIs(all, kind) <=> a.do = kind
BY DEF Pushed, Pending, HeadIs

LEMMA PendingNone ==
    ASSUME NEW kind
    PROVE  /\ ~Pending(<<>>, kind) /\ ~HeadIs(<<>>, kind)
           /\ kind # "bail" => ~Pending(<<[do |-> "bail"]>>, kind)
           /\ <<[do |-> "bail"]>> # <<>> /\ Head(<<[do |-> "bail"]>>).do = "bail"
           /\ Tail(<<[do |-> "bail"]>>) = <<>>
<1> DEFINE b == [do |-> "bail"]
           p == <<b>>
<1>1. b.do = "bail"
  OBVIOUS
<1> HIDE DEF b
<1>2. p \o <<>> = p
  <2>1. p \in Seq({b})
    OBVIOUS
  <2> QED
    BY <2>1, ConcatEmptySeq
<1>3. ~Pending(<<>>, kind) /\ Range(<<>>) = {}
  BY EmptyIs DEF Pending, Range
<1>4. Pushed(p, b, <<>>)
  <2>1. Pushed(p \o <<>>, b, <<>>)
    BY EmptyIs, PushIs
  <2> QED
    BY <1>2, <2>1
<1> HIDE DEF p
<1>5. kind # "bail" => ~Pending(p, kind)
  BY <1>1, <1>3, <1>4, PendingPushed
<1>6. p # <<>> /\ Head(p) = b /\ Tail(p) = <<>>
  BY <1>4 DEF Pushed
<1> QED
  BY <1>1, <1>3, <1>5, <1>6 DEF HeadIs, b, p

LEMMA PendingPlain ==
    ASSUME NEW items, Plain(items), NEW kind, Pending(items, kind)
    PROVE  kind \in Inner \cup {"bail"}
<1>1. PICK item \in Range(items) : item.do = kind
  BY DEF Pending
<1>2. PICK i \in DOMAIN items : item = items[i]
  BY <1>1 DEF Range
<1>3. i \in 1..Len(items)
  BY <1>2, SeqDomain DEF Plain
<1> QED
  BY <1>1, <1>2, <1>3 DEF Plain, Inner

LEMMA PlainIsSeq == ASSUME NEW items, Plain(items) PROVE IsSeq(items)
BY DEF Plain

\* What the operations put in front of it, see TodoStarts.
LEMMA PendingStarts ==
    ASSUME NEW todo, IsSeq(todo), NEW kind
    PROVE  /\ Pending(<<Loop(TRUE)>> \o todo, kind) <=> kind = "loop" \/ Pending(todo, kind)
           /\ Pending(<<Loop(TRUE), [do |-> "enabled"]>> \o todo, kind)
                <=> kind = "loop" \/ kind = "enabled" \/ Pending(todo, kind)
           /\ Pending(<<Loop(FALSE), [do |-> "deinit"]>> \o todo, kind)
                <=> kind = "loop" \/ kind = "deinit" \/ Pending(todo, kind)
           /\ Pending(<<[do |-> "close"]>> \o todo, kind) <=> kind = "close" \/ Pending(todo, kind)
<1> DEFINE e == [do |-> "enabled"]
           d == [do |-> "deinit"]
           c == [do |-> "close"]
<1>1. /\ Loop(TRUE).do = "loop" /\ Loop(FALSE).do = "loop" /\ e.do = "enabled"
      /\ d.do = "deinit" /\ c.do = "close"
  BY DEF Loop
<1> HIDE DEF e, d, c
<1>2. ASSUME NEW a, NEW k, NEW rest, IsSeq(rest)
      PROVE  Pending(<<a>> \o rest, k) <=> a.do = k \/ Pending(rest, k)
  BY <1>2, PushIs, PendingPushed
<1>3. ASSUME NEW a, NEW b
      PROVE  Pending(<<a, b>> \o todo, kind) <=> a.do = kind \/ b.do = kind \/ Pending(todo, kind)
  <2>1. /\ Pushed(<<a, b>> \o todo, a, <<b>> \o todo)
        /\ Pushed(<<b>> \o todo, b, todo)
    BY PushTwo
  <2>2. Pending(<<a, b>> \o todo, kind) <=> a.do = kind \/ Pending(<<b>> \o todo, kind)
    BY <2>1, PendingPushed
  <2>3. Pending(<<b>> \o todo, kind) <=> b.do = kind \/ Pending(todo, kind)
    BY <2>1, PendingPushed
  <2> QED
    BY <2>2, <2>3
<1>4. Pending(<<Loop(TRUE)>> \o todo, kind) <=> kind = "loop" \/ Pending(todo, kind)
  BY <1>1, <1>2
<1>5. Pending(<<Loop(TRUE), e>> \o todo, kind)
         <=> kind = "loop" \/ kind = "enabled" \/ Pending(todo, kind)
  BY <1>1, <1>3
<1>6. Pending(<<Loop(FALSE), d>> \o todo, kind)
         <=> kind = "loop" \/ kind = "deinit" \/ Pending(todo, kind)
  BY <1>1, <1>3
<1>7. Pending(<<c>> \o todo, kind) <=> kind = "close" \/ Pending(todo, kind)
  BY <1>1, <1>2
<1> QED
  BY <1>4, <1>5, <1>6, <1>7 DEF e, d, c

LEMMA SecondIs ==
    ASSUME NEW all, IsSeq(all), all # <<>>, Tail(all) # <<>>
    PROVE  Len(all) > 1 /\ all[2] = Head(Tail(all))
<1>1. /\ IsSeq(Tail(all)) /\ Len(all) >= 1 /\ Len(Tail(all)) = Len(all) - 1
      /\ \A i \in 1..(Len(all) - 1) : Tail(all)[i] = all[i + 1]
  BY TailIsSeq
<1>2. Len(Tail(all)) >= 1 /\ Head(Tail(all)) = Tail(all)[1] /\ Len(all) \in Nat
  BY <1>1, TailIsSeq, SeqDomain
<1> QED
  BY <1>1, <1>2

LEMMA CInvInit == ASSUME Init PROVE CInv
<1>1. PICK app \in Apps : x = Globals(app)
  BY DEF Init
<1>2. x.sessions = 0 /\ x.todo = <<>> /\ x.detached = FALSE
  BY <1>1 DEF Globals
<1> QED
  BY <1>2, PendingNone DEF CInv

\* What Break, Deinit and the end of a loop leave of the session as it is.
LEMMA BreakKeeps ==
    ASSUME NEW g, DOMAIN g = Fields
    PROVE  LET h == Break(g)
           IN  /\ h.remote_enabled = g.remote_enabled /\ h.freed = g.freed
               /\ h.sessions = g.sessions /\ h.sockets = g.sockets /\ h.connected = g.connected
               /\ h.detached = g.detached /\ h.early = g.early /\ h.stack = g.stack
<1> DEFINE h == Break(g)
<1>1. Only(g, h, Breaking)
  BY BreakOnly
<1> HIDE DEF h
<1> QED
  BY <1>1 DEF Only, Breaking, Fields, h

LEMMA DeinitKeeps ==
    ASSUME NEW g, DOMAIN g = Fields
    PROVE  LET h == Deinit(g)
           IN  /\ h.remote_enabled = g.remote_enabled /\ h.freed = g.freed
               /\ h.sessions = g.sessions /\ h.sockets = g.sockets /\ h.connected = g.connected
               /\ h.detached = g.detached /\ h.early = g.early /\ h.stack = g.stack
               /\ h.lasttransid = g.lasttransid
<1> DEFINE h == Deinit(g)
<1>1. Only(g, h, {"commands", "status", "todo"})
  BY DeinitOnly
<1> HIDE DEF h
<1> QED
  BY <1>1 DEF Only, Fields, h

LEMMA DbgpInitKeeps ==
    ASSUME NEW g, DOMAIN g = Fields
    PROVE  DbgpInit(g).commands = g.commands /\ DbgpInit(g).stack = g.stack
<1> DEFINE n == NoBreakpoints(g)
           h == DbgpInit(g)
<1>1. Only(g, n, Placed)
  BY NoBreakpointsOnly
<1>2. Only(n, h, Connecting)
  BY DbgpInitOnly
<1> HIDE DEF n, h
<1>3. n.commands = g.commands /\ n.stack = g.stack
  BY <1>1 DEF Only, Placed, Fields
<1>4. h.commands = n.commands /\ h.stack = n.stack
  BY <1>2 DEF Only, Connecting, Fields
<1> QED
  BY <1>3, <1>4 DEF h

LEMMA LeaveKeeps ==
    ASSUME NEW g, DOMAIN g = Fields
    PROVE  LET h == LeaveLoop(g)
           IN  /\ h.remote_enabled = g.remote_enabled /\ h.freed = g.freed
               /\ h.sessions = g.sessions /\ h.sockets = g.sockets /\ h.connected = g.connected
               /\ h.detached = g.detached /\ h.early = g.early /\ h.stack = g.stack
               /\ h.status = g.status /\ h.lasttransid = g.lasttransid
               /\ h.commands = g.commands
<1> DEFINE h == LeaveLoop(g)
<1>1. Only(g, h, {"todo"})
  BY LeaveLoopOnly
<1> HIDE DEF h
<1> QED
  BY <1>1 DEF Only, Fields, h

LEMMA BeginKeeps ==
    ASSUME NEW g, DOMAIN g = Fields, NEW items
    PROVE  LET h == Begin(g, items)
           IN  /\ DOMAIN h = Fields
               /\ h.remote_enabled = g.remote_enabled /\ h.freed = g.freed
               /\ h.sessions = g.sessions /\ h.sockets = g.sockets /\ h.connected = g.connected
               /\ h.detached = g.detached /\ h.early = g.early /\ h.stack = g.stack
               /\ h.status = g.status /\ h.lasttransid = g.lasttransid
               /\ h.commands = g.commands /\ h.todo = items \o g.todo
<1> DEFINE h == Begin(g, items)
<1>1. Only(g, h, {"todo"}) /\ h.todo = items \o g.todo
  BY BeginOnly
<1> HIDE DEF h
<1> QED
  BY <1>1 DEF Only, Fields, h

\* And what a command does, before it is answered.
LEMMA ReadKeeps ==
    ASSUME NEW g, NEW name, NEW t, Read(g, name, t), NEW m, Only(g, m, Asked)
    PROVE  /\ DOMAIN m = Fields /\ DOMAIN g = Fields
           /\ m.remote_enabled = x.remote_enabled /\ m.freed = x.freed
           /\ m.sessions = x.sessions /\ m.sockets = x.sockets /\ m.connected = x.connected
           /\ m.detached = x.detached /\ m.early = x.early /\ m.stack = x.stack
           /\ m.todo = x.todo /\ m.commands = g.commands /\ g.status = x.status
           /\ g.lasttransid = x.lasttransid
BY SMTT(40) DEF Read, Only, Asked, Kept, Placed, Viewed, Fields

\* A step of the script, with what it has still to do.
LEMMA AdvanceIs ==
    ASSUME BInv, Advance
    PROVE  /\ x.todo = <<>> /\ DOMAIN x = Fields
           /\ \E items, k : /\ Plain(items) /\ Goes(x, k, items) /\ IsSeq(items)
                            /\ \/ x' = k
                               \/ x.remote_enabled /\ x' = Break(k)
                               \/ ~x.remote_enabled /\ x' = DbgpInit(k)
<1>1. Advances(x, x')
  BY AdvanceAdvances DEF BInv
<1>2. x.todo = <<>>
  BY DEF BInv, Advance, RunScript, Call, Return, Statement, Throw, RaiseError, Going
<1> QED
  BY <1>1, <1>2, PlainIsSeq DEF Advances, BInv

LEMMA EndRequestIs ==
    ASSUME BInv, EndRequest
    PROVE  LET c == Begin(x, <<[do |-> "close"]>>)
           IN  /\ x.todo = <<>> /\ DOMAIN x = Fields /\ ~Running /\ UNCHANGED base
               /\ \/ ~x.remote_enabled /\ x' = x
                  \/ x.remote_enabled /\ x' = Deinit(c) /\ c.remote_enabled
<1> DEFINE c == Begin(x, <<[do |-> "close"]>>)
<1>1. c.remote_enabled = x.remote_enabled
  BY BeginKeeps DEF BInv
<1>2. x' = IF x.remote_enabled THEN Deinit(c) ELSE x
  BY DEF EndRequest, PostDeactivate
<1> HIDE DEF c
<1> QED
  BY <1>1, <1>2 DEF EndRequest, Going, BInv, c

\* The ways in which a loop of commands goes on or ends.
LEMMA ParsedIs ==
    ASSUME NEW g, NEW name, NEW t, NEW m, DOMAIN m = Fields, NEW h, Parsed(g, name, t, m, h)
    PROVE  \/ \E r : /\ h = LeaveLoop(r) /\ DOMAIN r = Fields
                     /\ r = m \/ r = Respond(m, t)
           \/ h = Respond(m, t)
           \/ h = Deinit(Begin(m, <<[do |-> "detached", id |-> t]>>))
<1> DEFINE r == Respond(m, t)
<1>1. DOMAIN r = Fields
  BY RespondOnly DEF Only
<1>2. \/ h = LeaveLoop(r) \/ h = LeaveLoop(m) \/ h = r
      \/ h = Deinit(Begin(m, <<[do |-> "detached", id |-> t]>>))
  BY DEF Parsed
<1> HIDE DEF r
<1> QED
  BY <1>1, <1>2 DEF r

LEMMA RespondKeeps ==
    ASSUME NEW g, DOMAIN g = Fields, NEW t
    PROVE  LET h == Respond(g, t)
           IN  /\ DOMAIN h = Fields
               /\ h.remote_enabled = g.remote_enabled /\ h.freed = g.freed
               /\ h.sessions = g.sessions /\ h.sockets = g.sockets /\ h.connected = g.connected
               /\ h.detached = g.detached /\ h.early = g.early /\ h.stack = g.stack
               /\ h.status = g.status /\ h.lasttransid = g.lasttransid /\ h.todo = g.todo
<1> DEFINE h == Respond(g, t)
<1>1. Only(g, h, {"commands"})
  BY RespondOnly
<1> HIDE DEF h
<1> QED
  BY <1>1 DEF Only, Fields, h

LEMMA LoopLeft ==
    ASSUME NEW g, DOMAIN g = Fields, IsSeq(g.todo), HeadIs(g.todo, "loop"),
           Pending(LeaveLoop(g).todo, "enabled")
    PROVE  LeaveLoop(g).todo = Tail(g.todo) /\ Pending(g.todo, "enabled")
<1>1. LeaveLoop(g).todo = Tail(g.todo)
  BY LeaveLoopIs, PendingNone
<1>2. Pushed(g.todo, Head(g.todo), Tail(g.todo))
  BY HeadAndTail DEF HeadIs
<1> QED
  BY <1>1, <1>2, PendingPushed

LEMMA CInvAdvance ==
    ASSUME BInv, CInv, Advance
    PROVE  CInv'
<1>1. PICK items, k : /\ Plain(items) /\ Goes(x, k, items) /\ IsSeq(items)
                      /\ \/ x' = k
                         \/ x.remote_enabled /\ x' = Break(k)
                         \/ ~x.remote_enabled /\ x' = DbgpInit(k)
  BY AdvanceIs
<1>2. /\ DOMAIN k = Fields /\ k.todo = items /\ k.remote_enabled = x.remote_enabled
      /\ k.sessions = x.sessions /\ k.detached = x.detached /\ k.early = x.early
  BY <1>1, GoesFields
<1>3. ~Pending(items, "enabled")
  BY <1>1, PendingPlain DEF Inner
<1>4. CASE x' = k
  BY <1>2, <1>3, <1>4 DEF CInv
<1>5. CASE x.remote_enabled /\ x' = Break(k)
  <2>1. x'.todo = <<Loop(TRUE)>> \o items /\ x'.remote_enabled = x.remote_enabled
        /\ x'.sessions = x.sessions /\ x'.detached = x.detached /\ x'.early = x.early
    BY <1>2, <1>5, BreakOnly, BreakKeeps
  <2>2. ~Pending(x'.todo, "enabled")
    <3>1. ~Pending(<<Loop(TRUE)>> \o items, "enabled")
      BY <1>1, <1>3, PendingStarts
    <3> QED
      BY <2>1, <3>1
  <2> QED
    BY <1>5, <2>1, <2>2 DEF CInv
<1>6. CASE ~x.remote_enabled /\ x' = DbgpInit(k)
  <2> DEFINE e == [do |-> "enabled"]
  <2>1. /\ x'.todo = <<Loop(TRUE), e>> \o items /\ x'.remote_enabled = FALSE
        /\ x'.sessions = x.sessions + 1 /\ x'.detached = FALSE
    BY <1>2, <1>6, DbgpInitOnly, ZenonT(60)
  <2>2. e.do = "enabled" /\ Loop(TRUE).do = "loop"
    BY DEF Loop
  <2> HIDE DEF e
  <2>3. Pushed(x'.todo, Loop(TRUE), <<e>> \o items) /\ Pushed(<<e>> \o items, e, items)
    BY <1>1, <2>1, PushTwo
  <2>4. Tail(x'.todo) = <<e>> \o items /\ Tail(<<e>> \o items) = items
    BY <2>3 DEF Pushed
  <2>5. HeadIs(x'.todo, "loop") /\ HeadIs(<<e>> \o items, "enabled")
    BY <2>2, <2>3, PendingPushed
  <2>6. Opening(x'.todo)
    BY <1>3, <2>4, <2>5 DEF Opening, Enabling
  <2> QED
    BY <2>1, <2>6 DEF CInv, Starting
<1> QED
  BY <1>1, <1>4, <1>5, <1>6

LEMMA CInvEndRequest ==
    ASSUME BInv, CInv, EndRequest
    PROVE  CInv'
<1> DEFINE c == Begin(x, <<[do |-> "close"]>>)
<1>1. /\ x.todo = <<>> /\ DOMAIN x = Fields
      /\ \/ ~x.remote_enabled /\ x' = x
         \/ x.remote_enabled /\ x' = Deinit(c) /\ c.remote_enabled
  BY EndRequestIs
<1>2. CASE x' = x
  BY <1>2 DEF CInv
<1>3. CASE x.remote_enabled /\ x' = Deinit(c) /\ c.remote_enabled
  <2>1. /\ DOMAIN c = Fields /\ c.remote_enabled = x.remote_enabled
        /\ c.sessions = x.sessions /\ c.detached = x.detached /\ c.early = x.early
        /\ c.todo = <<[do |-> "close"]>> \o x.todo
    BY <1>1, BeginKeeps
  <2>2. IsSeq(x.todo) /\ ~Pending(x.todo, "enabled")
    BY <1>1, PendingNone, EmptyIs
  <2>3. ~Pending(c.todo, "enabled") /\ IsSeq(c.todo)
    <3>1. IsSeq(<<[do |-> "close"]>> \o x.todo)
      BY <2>2, PushIs DEF Pushed
    <3> QED
      BY <2>1, <2>2, <3>1, PendingStarts
  <2> HIDE DEF c
  <2>4. /\ x'.todo = <<Loop(FALSE), [do |-> "deinit"]>> \o c.todo
        /\ x'.remote_enabled = x.remote_enabled
        /\ x'.sessions = x.sessions /\ x'.detached = x.detached /\ x'.early = x.early
    BY <1>3, <2>1, DeinitOnly, DeinitKeeps
  <2>5. ~Pending(x'.todo, "enabled")
    <3>1. ~Pending(<<Loop(FALSE), [do |-> "deinit"]>> \o c.todo, "enabled")
      BY <2>3, PendingStarts
    <3> QED
      BY <2>4, <3>1
  <2> QED
    BY <1>3, <2>4, <2>5 DEF CInv
<1> QED
  BY <1>1, <1>2, <1>3

LEMMA CInvCommand ==
    ASSUME BInv, CInv, Command
    PROVE  CInv'
<1>1. PICK name, t, g, m : Read(g, name, t) /\ Only(g, m, Asked) /\ Parsed(g, name, t, m, x')
  BY CommandRead DEF CommandIs
<1>2. /\ DOMAIN m = Fields /\ m.remote_enabled = x.remote_enabled
      /\ m.sessions = x.sessions /\ m.detached = x.detached /\ m.early = x.early
      /\ m.todo = x.todo
  BY <1>1, ReadKeeps
<1>3. HeadIs(x.todo, "loop") /\ IsSeq(x.todo)
  BY DEF BInv, Command, AtLoop, HeadIs, TodoOK
<1>4. Pending(x.todo, "enabled") => ~x.remote_enabled /\ Opening(x.todo)
  BY <1>3 DEF CInv, Starting, Enabling, Declining, HeadIs
<1>5. ASSUME NEW r, DOMAIN r = Fields, r = m \/ r = Respond(m, t), x' = LeaveLoop(r)
      PROVE  CInv'
  <2>1. /\ r.remote_enabled = x.remote_enabled /\ r.todo = x.todo
        /\ r.sessions = x.sessions /\ r.detached = x.detached /\ r.early = x.early
    BY <1>2, <1>5, RespondKeeps
  <2>2. /\ x'.remote_enabled = x.remote_enabled
        /\ x'.sessions = x.sessions /\ x'.detached = x.detached /\ x'.early = x.early
    BY <1>5, <2>1, LeaveKeeps
  <2>3. Pending(x'.todo, "enabled") => x'.todo = Tail(x.todo) /\ Pending(x.todo, "enabled")
    BY <1>3, <1>5, <2>1, LoopLeft
  <2>4. Pending(x'.todo, "enabled") => Enabling(x'.todo)
    BY <1>4, <2>3 DEF Opening
  <2> QED
    BY <1>4, <2>2, <2>3, <2>4 DEF CInv, Starting
<1>6. CASE x' = Respond(m, t)
  <2>1. /\ x'.remote_enabled = x.remote_enabled /\ x'.todo = x.todo
        /\ x'.sessions = x.sessions /\ x'.detached = x.detached /\ x'.early = x.early
    BY <1>2, <1>6, RespondKeeps
  <2> QED
    BY <2>1 DEF CInv
<1>7. CASE x' = Deinit(Begin(m, <<[do |-> "detached", id |-> t]>>))
  <2> DEFINE a == [do |-> "detached", id |-> t]
             b == Begin(m, <<a>>)
  <2>2. a.do = "detached"
    OBVIOUS
  <2> HIDE DEF a
  <2>1. /\ DOMAIN b = Fields /\ b.remote_enabled = x.remote_enabled
        /\ b.sessions = x.sessions /\ b.detached = x.detached /\ b.early = x.early
        /\ b.todo = <<a>> \o x.todo
    <3> DEFINE s == <<a>>
    <3> HIDE DEF s
    <3>1. /\ DOMAIN Begin(m, s) = Fields /\ Begin(m, s).remote_enabled = m.remote_enabled
          /\ Begin(m, s).sessions = m.sessions /\ Begin(m, s).detached = m.detached
          /\ Begin(m, s).early = m.early /\ Begin(m, s).todo = s \o m.todo
      BY <1>2, BeginKeeps, ZenonT(60)
    <3>2. b = Begin(m, s)
      BY DEF s
    <3> HIDE DEF b
    <3> QED
      BY <1>2, <3>1, <3>2 DEF s
  <2>3. Pushed(b.todo, a, x.todo)
    BY <1>3, <2>1, PushIs
  <2> HIDE DEF b
  <2>4. x' = Deinit(b)
    BY <1>7 DEF a, b
  <2>5. /\ x'.remote_enabled = x.remote_enabled
        /\ x'.sessions = x.sessions /\ x'.detached = x.detached /\ x'.early = x.early
    BY <2>1, <2>4, DeinitKeeps
  <2>6. (Pending(b.todo, "enabled") <=> Pending(x.todo, "enabled")) /\ IsSeq(b.todo)
    BY <2>2, <2>3, PendingPushed DEF Pushed
  <2>7. CASE x.remote_enabled
    <3>1. x'.todo = <<Loop(FALSE), [do |-> "deinit"]>> \o b.todo
      BY <2>1, <2>4, <2>7, DeinitOnly
    <3>2. ~Pending(x'.todo, "enabled")
      <4>1. ~Pending(<<Loop(FALSE), [do |-> "deinit"]>> \o b.todo, "enabled")
        BY <1>4, <2>6, <2>7, PendingStarts
      <4> QED
        BY <3>1, <4>1
    <3> QED
      BY <2>5, <2>7, <3>2 DEF CInv
  <2>8. CASE ~x.remote_enabled
    <3>1. x'.todo = b.todo
      BY <2>1, <2>4, <2>8, DeinitOnly
    <3>2. HeadIs(x'.todo, "detached") /\ Tail(x'.todo) = x.todo
      BY <2>2, <2>3, <3>1, PendingPushed DEF Pushed
    <3>3. Pending(x'.todo, "enabled") => Starting(x'.todo)
      BY <1>4, <2>6, <3>1, <3>2 DEF Starting, Declining
    <3> QED
      BY <2>5, <2>6, <2>8, <3>1, <3>3 DEF CInv
  <2> QED
    BY <2>7, <2>8
<1> QED
  BY <1>1, <1>2, <1>5, <1>6, <1>7, ParsedIs

LEMMA CInvResume ==
    ASSUME BInv, CInv, Resume
    PROVE  CInv'
<1> DEFINE item == Head(x.todo)
           rest == Tail(x.todo)
<1>1. ResumeIs /\ x.todo # <<>> /\ IsSeq(x.todo) /\ DOMAIN x = Fields
  BY ResumedIs DEF BInv, Resume, TodoOK
<1>2. Pushed(x.todo, item, rest)
  BY <1>1, HeadAndTail
<1>3. /\ Pending(x.todo, "enabled") <=> item.do = "enabled" \/ Pending(rest, "enabled")
      /\ \A kind : HeadIs(x.todo, kind) <=> item.do = kind
  BY <1>2, PendingPushed
<1>4. item.do \notin {"enabled", "loop", "detached"} => ~Pending(x.todo, "enabled")
  BY <1>3 DEF CInv, Starting, Enabling, Opening, Declining
<1>5. IsSeq(rest)
  BY <1>2 DEF Pushed
<1>6. CASE item.do \in Inner
  <2>1. PICK k : /\ Goes(x, k, rest)
                 /\ x' = k \/ ((x.remote_enabled \/ item.do = "checks") /\ x' = Break(k))
    BY <1>1, <1>6 DEF ResumeIs, Inner
  <2>2. /\ DOMAIN k = Fields /\ k.todo = rest /\ k.remote_enabled = x.remote_enabled
        /\ k.sessions = x.sessions /\ k.detached = x.detached /\ k.early = x.early
    BY <2>1, GoesFields
  <2>3. ~Pending(rest, "enabled")
    BY <1>3, <1>4, <1>6 DEF Inner
  <2>4. CASE x' = k
    BY <2>2, <2>3, <2>4 DEF CInv
  <2>5. CASE x' = Break(k)
    <3>1. x'.todo = <<Loop(TRUE)>> \o rest /\ x'.remote_enabled = x.remote_enabled
          /\ x'.sessions = x.sessions /\ x'.detached = x.detached /\ x'.early = x.early
      BY <2>2, <2>5, BreakOnly, BreakKeeps
    <3>2. ~Pending(<<Loop(TRUE)>> \o rest, "enabled")
      BY <1>5, <2>3, PendingStarts
    <3> QED
      BY <3>1, <3>2 DEF CInv
  <2> QED
    BY <2>1, <2>4, <2>5
<1>7. CASE item.do = "enabled"
  <2>1. /\ Only(x, x', {"todo", "remote_enabled"}) /\ x'.todo = rest
        /\ x'.remote_enabled = TRUE
    BY <1>1, <1>7 DEF ResumeIs, Inner
  <2>2. x'.sessions = x.sessions /\ x'.detached = x.detached /\ x'.early = x.early
    BY <2>1 DEF Only, Fields
  <2>3. Pending(x.todo, "enabled") /\ ~Pending(rest, "enabled")
    BY <1>3, <1>7 DEF CInv, Starting, Enabling, Opening, Declining
  <2> QED
    BY <2>1, <2>2, <2>3 DEF CInv
<1>8. CASE item.do \in {"deinit", "close"}
  <2>1. /\ Only(x, x', {"todo", "remote_enabled", "freed", "sockets", "connected"})
        /\ x'.todo = rest /\ x'.remote_enabled \in {x.remote_enabled, FALSE}
    BY <1>1, <1>8 DEF ResumeIs, Inner, Only, Fields
  <2>2. x'.sessions = x.sessions /\ x'.detached = x.detached /\ x'.early = x.early
    BY <2>1 DEF Only, Fields
  <2>3. ~Pending(rest, "enabled")
    BY <1>3, <1>4, <1>8
  <2> QED
    BY <2>1, <2>2, <2>3 DEF CInv
<1>9. CASE item.do = "detached"
  <2>1. PICK k : /\ Only(x, k, {"todo", "remote_enabled", "detached", "commands", "early"})
                 /\ k.todo = rest /\ k.remote_enabled = FALSE
                 /\ k.early = (Len(rest) > 1 /\ rest[2].do = "enabled")
                 /\ x' = LeaveLoop(k)
    BY <1>1, <1>9 DEF ResumeIs, Inner
  <2>2. DOMAIN k = Fields /\ k.sessions = x.sessions
    BY <2>1 DEF Only, Fields
  <2>3. /\ x'.remote_enabled = FALSE /\ x'.sessions = x.sessions /\ x'.early = k.early
    BY <2>1, <2>2, LeaveKeeps
  <2>4. HeadIs(rest, "loop")
    BY <1>1, <1>9, TodoHead DEF BInv, HeadIs
  <2>5. Pending(x'.todo, "enabled") => x'.todo = Tail(rest) /\ Pending(rest, "enabled")
    BY <1>5, <2>1, <2>2, <2>4, LoopLeft
  <2>6. Pending(rest, "enabled") => Opening(rest)
    <3>1. Pending(rest, "enabled") => Starting(x.todo)
      BY <1>3 DEF CInv
    <3>2. ~HeadIs(x.todo, "enabled") /\ ~HeadIs(x.todo, "loop")
      BY <1>3, <1>9
    <3> QED
      BY <3>1, <3>2 DEF Starting, Enabling, Opening, Declining
  <2>7. Opening(rest) => k.early
    <3>1. Opening(rest) => rest # <<>> /\ Tail(rest) # <<>> /\ Head(Tail(rest)).do = "enabled"
      BY DEF Opening, Enabling, HeadIs
    <3> QED
      BY <1>5, <2>1, <3>1, SecondIs
  <2>8. Pending(x'.todo, "enabled") => Enabling(x'.todo)
    BY <2>5, <2>6 DEF Opening
  <2> QED
    BY <2>2, <2>3, <2>5, <2>6, <2>7, <2>8 DEF CInv, Starting
<1> QED
  BY <1>1, <1>6, <1>7, <1>8, <1>9 DEF ResumeIs

LEMMA CInvNext == ASSUME BInv, CInv, [Next]_vars PROVE CInv'
<1>1. IsSeq(x.todo) /\ DOMAIN x = Fields
  BY DEF BInv, TodoOK
<1>2. CASE HangUp
  <2>1. Only(x, x', {"connected"})
    BY <1>1, <1>2 DEF HangUp, Only
  <2>2. /\ x'.todo = x.todo /\ x'.remote_enabled = x.remote_enabled
        /\ x'.sessions = x.sessions /\ x'.detached = x.detached /\ x'.early = x.early
    BY <2>1 DEF Only, Fields
  <2> QED
    BY <2>2 DEF CInv
<1>3. CASE EndOfFile
  <2>1. /\ x' = Done(x) /\ HeadIs(x.todo, "loop")
    BY <1>3 DEF EndOfFile, AtLoop, HeadIs
  <2>2. Goes(x, x', Tail(x.todo))
    BY <1>1, <2>1, GoesDone
  <2>3. /\ x'.todo = Tail(x.todo) /\ x'.remote_enabled = x.remote_enabled
        /\ x'.sessions = x.sessions /\ x'.detached = x.detached /\ x'.early = x.early
    BY <2>2, GoesFields
  <2>4. Pushed(x.todo, Head(x.todo), Tail(x.todo))
    BY <1>1, <2>1, HeadAndTail DEF HeadIs
  <2>5. Pending(x'.todo, "enabled") => Pending(x.todo, "enabled")
    BY <2>3, <2>4, PendingPushed
  <2>6. Pending(x.todo, "enabled") => Opening(x.todo)
    BY <2>1 DEF CInv, Starting, Enabling, Declining, HeadIs
  <2> QED
    BY <2>3, <2>5, <2>6 DEF CInv, Starting, Opening
<1>4. CASE Bailout
  <2>1. x' = [x EXCEPT !.todo = <<>>, !.step = NoStep]
    BY <1>4 DEF Bailout
  <2>2. /\ x'.todo = <<>> /\ x'.remote_enabled = x.remote_enabled
        /\ x'.sessions = x.sessions /\ x'.detached = x.detached /\ x'.early = x.early
    BY <1>1, <2>1 DEF Fields
  <2> QED
    BY <2>2, PendingNone DEF CInv
<1>5. CASE UNCHANGED vars
  BY <1>5 DEF CInv, vars
<1> QED
  BY <1>2, <1>3, <1>4, <1>5, CInvAdvance, CInvEndRequest, CInvCommand, CInvResume
  DEF Next, Advance

LEMMA WaitsNone == ASSUME NEW todo, ~Pending(todo, "loop") PROVE Waits(todo) = {}
BY DEF Waits, Pending, Range

LEMMA WaitsRest ==
    ASSUME NEW all, IsSeq(all), all # <<>>
    PROVE  /\ Waits(Tail(all)) \subseteq Waits(all)
           /\ Head(all).do # "loop" => Waits(all) \subseteq Waits(Tail(all))
<1> DEFINE rest == Tail(all)
<1>1. /\ IsSeq(rest) /\ Len(all) >= 1 /\ Len(rest) = Len(all) - 1 /\ Head(all) = all[1]
      /\ \A i \in 1..(Len(all) - 1) : rest[i] = all[i + 1]
  BY TailIsSeq
<1>2. DOMAIN all = 1..Len(all) /\ Len(all) \in Nat /\ DOMAIN rest = 1..(Len(all) - 1)
  BY <1>1, SeqDomain
<1> HIDE DEF rest
<1>3. ASSUME NEW n \in Waits(rest) PROVE n \in Waits(all)
  <2>1. PICK i \in DOMAIN rest : rest[i].do = "loop" /\ n = Len(rest) - i
    BY <1>3 DEF Waits
  <2>2. i + 1 \in DOMAIN all /\ all[i + 1] = rest[i] /\ n = Len(all) - (i + 1)
    BY <1>1, <1>2, <2>1
  <2> QED
    BY <2>1, <2>2 DEF Waits
<1>4. ASSUME Head(all).do # "loop", NEW n \in Waits(all) PROVE n \in Waits(rest)
  <2>1. PICK i \in DOMAIN all : all[i].do = "loop" /\ n = Len(all) - i
    BY <1>4 DEF Waits
  <2>2. i # 1
    BY <1>1, <1>4, <2>1
  <2>3. i - 1 \in DOMAIN rest /\ rest[i - 1] = all[i] /\ n = Len(rest) - (i - 1)
    BY <1>1, <1>2, <2>1, <2>2
  <2> QED
    BY <2>1, <2>3 DEF Waits
<1> QED
  BY <1>3, <1>4 DEF rest

LEMMA WaitsLeft ==
    ASSUME NEW g, DOMAIN g = Fields, IsSeq(g.todo), g.todo # <<>>
    PROVE  Waits(LeaveLoop(g).todo) \subseteq Waits(g.todo)
<1>1. Waits(<<[do |-> "bail"]>>) = {}
  BY PendingNone, WaitsNone
<1>2. Waits(Tail(g.todo)) \subseteq Waits(g.todo)
  BY WaitsRest
<1> QED
  BY <1>1, <1>2, LeaveLoopIs

LEMMA NoStop ==
    ASSUME BInv, CInv, Next, x.detached, ~x.early, x'.sessions = x.sessions,
           x.todo = <<>> \/ Head(x.todo).do # "checks"
    PROVE  Waits(x'.todo) \subseteq Waits(x.todo)
<1>1. IsSeq(x.todo) /\ DOMAIN x = Fields
  BY DEF BInv, TodoOK
<1>2. ~x.remote_enabled /\ x.sessions \in Nat
  BY DEF CInv
<1>3. CASE Advance
  <2>1. PICK items, k : /\ Plain(items) /\ Goes(x, k, items)
                        /\ x' = k \/ x' = DbgpInit(k)
    BY <1>2, <1>3, AdvanceIs
  <2>2. DOMAIN k = Fields /\ k.todo = items /\ k.sessions = x.sessions
    BY <2>1, GoesFields
  <2>3. x' # DbgpInit(k)
    <3>1. DbgpInit(k).sessions = x.sessions + 1
      BY <2>2, DbgpInitOnly, ZenonT(60)
    <3> QED
      BY <1>2, <3>1
  <2>4. ~Pending(items, "loop")
    BY <2>1, PendingPlain DEF Inner
  <2> QED
    BY <2>1, <2>2, <2>3, <2>4, WaitsNone
<1>4. CASE EndRequest
  BY <1>2, <1>4, EndRequestIs
<1>5. CASE Command
  <2>1. PICK name, t, g, m : Read(g, name, t) /\ Only(g, m, Asked) /\ Parsed(g, name, t, m, x')
    BY <1>5, CommandRead DEF CommandIs
  <2>2. DOMAIN m = Fields /\ m.remote_enabled = x.remote_enabled /\ m.todo = x.todo
    BY <2>1, ReadKeeps
  <2>3. x.todo # <<>>
    BY <1>5 DEF Command, AtLoop
  <2>4. ASSUME NEW r, DOMAIN r = Fields, r = m \/ r = Respond(m, t), x' = LeaveLoop(r)
        PROVE  Waits(x'.todo) \subseteq Waits(x.todo)
    <3>1. r.todo = x.todo
      BY <2>2, <2>4, RespondKeeps
    <3> QED
      BY <1>1, <2>3, <2>4, <3>1, WaitsLeft
  <2>5. CASE x' = Respond(m, t)
    <3>1. x'.todo = x.todo
      BY <2>2, <2>5, RespondKeeps
    <3> QED
      BY <3>1
  <2>6. CASE x' = Deinit(Begin(m, <<[do |-> "detached", id |-> t]>>))
    <3> DEFINE a == [do |-> "detached", id |-> t]
               b == Begin(m, <<a>>)
    <3>1. a.do = "detached"
      OBVIOUS
    <3> HIDE DEF a
    <3>2. DOMAIN b = Fields /\ b.todo = <<a>> \o m.todo /\ b.remote_enabled = m.remote_enabled
      BY <2>2, BeginKeeps, ZenonT(60)
    <3> HIDE DEF b
    <3>3. Deinit(b) = b
      BY <1>2, <2>2, <3>2, DeinitOnly
    <3>4. x'.todo = <<a>> \o x.todo
      BY <2>2, <2>6, <3>2, <3>3 DEF a, b
    <3>5. Pushed(x'.todo, a, x.todo)
      BY <1>1, <3>4, PushIs
    <3> QED
      BY <3>1, <3>5, WaitsRest DEF Pushed
  <2> QED
    BY <2>1, <2>2, <2>4, <2>5, <2>6, ParsedIs
<1>6. CASE HangUp
  <2>1. x'.todo = x.todo
    BY <1>1, <1>6 DEF HangUp, Fields
  <2> QED
    BY <2>1
<1>7. CASE EndOfFile
  <2>1. x' = Done(x) /\ x.todo # <<>>
    BY <1>7 DEF EndOfFile, AtLoop
  <2>2. x'.todo = Tail(x.todo)
    BY <1>1, <2>1, DoneOnly
  <2> QED
    BY <1>1, <2>1, <2>2, WaitsRest
<1>8. CASE Resume
  <2> DEFINE rest == Tail(x.todo)
  <2>1. ResumeIs /\ x.todo # <<>> /\ IsSeq(rest)
    BY <1>1, <1>8, ResumedIs, HeadAndTail DEF Resume, Pushed
  <2>2. x'.todo = rest \/ \E k : DOMAIN k = Fields /\ k.todo = rest /\ x' = LeaveLoop(k)
                                 /\ rest # <<>>
    <3>1. Head(x.todo).do = "detached" => rest # <<>>
      BY <2>1, TodoHead DEF BInv
    <3>2. ASSUME NEW k, Goes(x, k, rest) PROVE k.todo = rest
      BY <3>2 DEF Goes
    <3>3. ASSUME NEW k,
                 Only(x, k, {"todo", "remote_enabled", "detached", "commands", "early"})
          PROVE  DOMAIN k = Fields
      BY <3>3 DEF Only
    <3> QED
      BY <1>2, <2>1, <3>1, <3>2, <3>3 DEF ResumeIs
  <2>3. Waits(rest) \subseteq Waits(x.todo)
    BY <1>1, <2>1, WaitsRest
  <2>4. ASSUME NEW k, DOMAIN k = Fields, k.todo = rest, x' = LeaveLoop(k), rest # <<>>
        PROVE  Waits(x'.todo) \subseteq Waits(rest)
    BY <2>1, <2>4, WaitsLeft
  <2> QED
    BY <2>2, <2>3, <2>4
<1>9. CASE Bailout
  <2>1. x' = [x EXCEPT !.todo = <<>>, !.step = NoStep]
    BY <1>9 DEF Bailout
  <2>2. x'.todo = <<>>
    BY <1>1, <2>1 DEF Fields
  <2> QED
    BY <2>2, PendingNone, WaitsNone
<1> QED
  BY <1>3, <1>4, <1>5, <1>6, <1>7, <1>8, <1>9 DEF Next, Advance

\* No session is enabled, nor about to be, after a detach (DBGP_FUNC(detach) and
\* what xdebug_dbgp_init's loop goes on with).
THEOREM Detachment == Spec => []CInv
<1>1. Init => CInv
  BY CInvInit
<1>2. BInv /\ CInv /\ [Next]_vars => CInv'
  BY CInvNext
<1> QED
  BY <1>1, <1>2, BreakpointsInvariance, PTL DEF Spec

\* Once the IDE has detached, no operation of the script begins a loop of commands
\* in that session, but where NoStopAfterDetach says it does.
THEOREM LeftAlone == Spec => NoStopAfterDetach
<1>1. ASSUME BInv, CInv, [Next]_vars
      PROVE  [x.detached /\ ~x.early /\ x'.sessions = x.sessions
                 /\ (x.todo = <<>> \/ Head(x.todo).do # "checks")
              => Waits(x'.todo) \subseteq Waits(x.todo)]_vars
  BY <1>1, NoStop
<1> QED
  BY <1>1, BreakpointsInvariance, Detachment, PTL DEF Spec, NoStopAfterDetach

-----------------------------------------------------------------------------
(* The commands of the IDE *)

CommandOK(c, sessions) ==
    /\ DOMAIN c = {"name", "session", "answers"}
    /\ c.answers \in Nat /\ c.session \in Nat /\ c.session <= sessions

CommandsOK(commands, sessions) ==
    IsSeq(commands) /\ \A t \in 1..Len(commands) : CommandOK(commands[t], sessions)

\* The commands d go on from the commands c; some may have more answers.
Extends(c, d) ==
    /\ Len(c) <= Len(d)
    /\ \A t \in 1..Len(c) : d[t].name = c[t].name /\ d[t].session = c[t].session

\* An item for a detach is for one of the session.
DetachOK(item, commands, sessions) ==
    item.do = "detached" =>
        /\ item.id \in 1..Len(commands)
        /\ commands[item.id].name = "detach" /\ commands[item.id].session = sessions

DetachesOK(todo, commands, sessions) ==
    \A item \in Range(todo) : DetachOK(item, commands, sessions)

MInv ==
    /\ x.sessions \in Nat /\ CommandsOK(x.commands, x.sessions)
    /\ x.lasttransid \in 0..Len(x.commands)
    /\ DetachesOK(x.todo, x.commands, x.sessions)

LEMMA ExtendsSame == ASSUME NEW c, NEW n, CommandsOK(c, n) PROVE Extends(c, c)
BY SeqDomain DEF Extends, CommandsOK

LEMMA CommandsMore ==
    ASSUME NEW c, NEW n \in Nat, CommandsOK(c, n)
    PROVE  CommandsOK(c, n + 1)
BY DEF CommandsOK, CommandOK

LEMMA CommandsLen ==
    ASSUME NEW c, NEW n, CommandsOK(c, n)
    PROVE  Len(c) \in Nat /\ DOMAIN c = 1..Len(c)
BY SeqDomain DEF CommandsOK

LEMMA AnswerIs ==
    ASSUME NEW c, NEW n, CommandsOK(c, n), NEW t \in 0..Len(c), NEW connected
    PROVE  LET d == Answer(c, t, connected)
           IN  /\ CommandsOK(d, n) /\ Len(d) = Len(c) /\ Extends(c, d)
               /\ \A u \in 1..Len(c) : u # t => d[u] = c[u]
               /\ t # 0 => d[t].answers = (IF connected THEN c[t].answers + 1 ELSE c[t].answers)
<1>1. Len(c) \in Nat /\ DOMAIN c = 1..Len(c) /\ Extends(c, c)
  BY CommandsLen, ExtendsSame
<1>2. CASE ~(t # 0 /\ connected)
  BY <1>1, <1>2 DEF Answer
<1>3. CASE t # 0 /\ connected
  <2> DEFINE v == [c[t] EXCEPT !.answers = @ + 1]
             d == [c EXCEPT ![t] = v]
  <2>1. t \in 1..Len(c) /\ CommandOK(c[t], n)
    BY <1>1, <1>3 DEF CommandsOK
  <2>2. Answer(c, t, connected) = d
    BY <1>3 DEF Answer
  <2>3. /\ CommandOK(v, n) /\ v.name = c[t].name /\ v.session = c[t].session
        /\ v.answers = c[t].answers + 1
    BY <2>1 DEF CommandOK
  <2> HIDE DEF v
  <2>4. IsSeq(d) /\ Len(d) = Len(c)
    BY <2>1, ExceptIsSeq DEF CommandsOK
  <2>5. d[t] = v /\ \A u \in 1..Len(c) : u # t => d[u] = c[u]
    BY <1>1, <2>1
  <2> HIDE DEF d
  <2>6. CommandsOK(d, n)
    BY <2>3, <2>4, <2>5 DEF CommandsOK
  <2>7. Extends(c, d)
    BY <1>1, <2>3, <2>4, <2>5 DEF Extends
  <2> QED
    BY <1>3, <2>2, <2>3, <2>4, <2>5, <2>6, <2>7
<1> QED
  BY <1>2, <1>3

LEMMA AppendedIs ==
    ASSUME NEW c, NEW n \in Nat, CommandsOK(c, n), NEW name
    PROVE  LET v == [name |-> name, session |-> n, answers |-> 0]
               d == Append(c, v)
           IN  /\ CommandsOK(d, n) /\ Len(d) = Len(c) + 1 /\ Extends(c, d)
               /\ d[Len(d)] = v /\ \A u \in 1..Len(c) : d[u] = c[u]
<1> DEFINE v == [name |-> name, session |-> n, answers |-> 0]
           d == Append(c, v)
<1>1. CommandOK(v, n)
  BY DEF CommandOK
<1> HIDE DEF v
<1>2. Len(c) \in Nat /\ IsSeq(c)
  BY CommandsLen DEF CommandsOK
<1>3. /\ IsSeq(d) /\ Len(d) = Len(c) + 1 /\ d[Len(c) + 1] = v
      /\ \A u \in 1..Len(c) : d[u] = c[u]
  BY <1>2, AppendIsSeq
<1> HIDE DEF d
<1>4. CommandsOK(d, n)
  BY <1>1, <1>2, <1>3 DEF CommandsOK
<1>5. Extends(c, d)
  BY <1>2, <1>3 DEF Extends
<1>6. d[Len(d)] = v
  BY <1>3
<1> QED
  BY <1>3, <1>4, <1>5, <1>6 DEF d, v

LEMMA ExtendsThen ==
    ASSUME NEW c, NEW d, NEW e, NEW n, CommandsOK(c, n), CommandsOK(d, n), CommandsOK(e, n),
           Extends(c, d), Extends(d, e)
    PROVE  Extends(c, e)
BY CommandsLen DEF Extends

LEMMA DetachesPushed ==
    ASSUME NEW all, NEW a, NEW rest, Pushed(all, a, rest), NEW c, NEW n
    PROVE  DetachesOK(all, c, n) <=> DetachOK(a, c, n) /\ DetachesOK(rest, c, n)
BY DEF Pushed, DetachesOK

LEMMA DetachesExtended ==
    ASSUME NEW c, NEW d, NEW n, CommandsOK(c, n), CommandsOK(d, n), Extends(c, d),
           NEW todo, DetachesOK(todo, c, n)
    PROVE  DetachesOK(todo, d, n)
<1>1. Len(c) \in Nat /\ Len(d) \in Nat
  BY CommandsLen
<1> QED
  BY <1>1 DEF DetachesOK, DetachOK, Extends

LEMMA DetachesNone ==
    ASSUME NEW todo, ~Pending(todo, "detached"), NEW c, NEW n
    PROVE  DetachesOK(todo, c, n)
BY DEF DetachesOK, DetachOK, Pending

LEMMA ReadIs ==
    ASSUME MInv, NEW g, NEW name, NEW t, Read(g, name, t)
    PROVE  /\ CommandsOK(g.commands, x.sessions) /\ Len(g.commands) = t
           /\ t \in Nat /\ t = Len(x.commands) + 1 /\ Len(x.commands) \in Nat
           /\ Extends(x.commands, g.commands)
           /\ g.commands[t] = [name |-> name, session |-> x.sessions, answers |-> 0]
           /\ \A u \in 1..Len(x.commands) : g.commands[u] = x.commands[u]
           /\ DetachesOK(x.todo, g.commands, x.sessions)
<1> DEFINE v == [name |-> name, session |-> x.sessions, answers |-> 0]
<1>1. t = Len(x.commands) + 1 /\ g.commands = Append(x.commands, v)
  BY DEF Read
<1>2. CommandsOK(x.commands, x.sessions) /\ x.sessions \in Nat
  BY DEF MInv
<1>3. Len(x.commands) \in Nat
  BY <1>2, CommandsLen
<1>4. /\ CommandsOK(g.commands, x.sessions) /\ Len(g.commands) = Len(x.commands) + 1
      /\ Extends(x.commands, g.commands) /\ g.commands[Len(g.commands)] = v
      /\ \A u \in 1..Len(x.commands) : g.commands[u] = x.commands[u]
  BY <1>1, <1>2, AppendedIs
<1>5. DetachesOK(x.todo, g.commands, x.sessions)
  BY <1>2, <1>4, DetachesExtended DEF MInv
<1> QED
  BY <1>1, <1>3, <1>4, <1>5

\* What a break, or the end of a session, answers.
LEMMA Answered1 ==
    ASSUME NEW g, DOMAIN g = Fields, NEW n, CommandsOK(g.commands, n),
           NEW t \in 0..Len(g.commands)
    PROVE  /\ CommandsOK(Respond(g, t).commands, n)
           /\ Len(Respond(g, t).commands) = Len(g.commands)
           /\ Extends(g.commands, Respond(g, t).commands)
<1>1. Respond(g, t).commands = Answer(g.commands, t, g.connected)
  BY RespondIs
<1> DEFINE d == Answer(g.commands, t, g.connected)
<1>2. CommandsOK(d, n) /\ Len(d) = Len(g.commands) /\ Extends(g.commands, d)
  BY AnswerIs
<1> QED
  BY <1>1, <1>2

\* h is a state of the session, whose commands go on from those of x.
MOK(h, n) ==
    /\ CommandsOK(h.commands, n) /\ Extends(x.commands, h.commands)
    /\ h.lasttransid \in 0..Len(h.commands)
    /\ DetachesOK(h.todo, h.commands, n)

LEMMA MBreak ==
    ASSUME NEW k, DOMAIN k = Fields, NEW n \in Nat, MOK(k, n), IsSeq(k.todo),
           CommandsOK(x.commands, n)
    PROVE  MOK(Break(k), n)
<1> DEFINE h == Break(k)
<1>1. /\ h.commands = Respond(k, k.lasttransid).commands /\ h.lasttransid = 0
      /\ h.todo = <<Loop(TRUE)>> \o k.todo
  BY BreakOnly
<1>2. /\ CommandsOK(h.commands, n) /\ Extends(k.commands, h.commands)
      /\ Len(h.commands) \in Nat
  BY <1>1, Answered1, CommandsLen DEF MOK
<1> HIDE DEF h
<1>3. Extends(x.commands, h.commands)
  BY <1>2, ExtendsThen DEF MOK
<1>4. DetachesOK(k.todo, h.commands, n)
  BY <1>2, DetachesExtended DEF MOK
<1>5. DetachesOK(h.todo, h.commands, n)
  <2>1. Pushed(h.todo, Loop(TRUE), k.todo) /\ Loop(TRUE).do = "loop"
    BY <1>1, PushIs DEF Loop
  <2>2. DetachOK(Loop(TRUE), h.commands, n)
    BY <2>1 DEF DetachOK
  <2> QED
    BY <1>4, <2>1, <2>2, DetachesPushed
<1>6. MOK(h, n)
  BY <1>1, <1>2, <1>3, <1>5 DEF MOK
<1> QED
  BY <1>6 DEF h

LEMMA MDeinit ==
    ASSUME NEW k, DOMAIN k = Fields, NEW n \in Nat, MOK(k, n), IsSeq(k.todo),
           CommandsOK(x.commands, n)
    PROVE  MOK(Deinit(k), n)
<1> DEFINE h == Deinit(k)
           d == [do |-> "deinit"]
<1>1. CASE ~k.remote_enabled
  BY <1>1, DeinitOnly
<1>2. CASE k.remote_enabled
  <2>1. /\ h.commands = Respond(k, k.lasttransid).commands
        /\ h.todo = <<Loop(FALSE), d>> \o k.todo
    BY <1>2, DeinitOnly
  <2>2. h.lasttransid = k.lasttransid
    BY DeinitKeeps
  <2>3. /\ CommandsOK(h.commands, n) /\ Extends(k.commands, h.commands)
        /\ Len(h.commands) = Len(k.commands)
    BY <2>1, Answered1 DEF MOK
  <2> HIDE DEF h
  <2>4. Extends(x.commands, h.commands)
    BY <2>3, ExtendsThen DEF MOK
  <2>5. DetachesOK(k.todo, h.commands, n)
    BY <2>3, DetachesExtended DEF MOK
  <2>6. DetachesOK(h.todo, h.commands, n)
    <3>1. d.do = "deinit" /\ Loop(FALSE).do = "loop"
      BY DEF Loop
    <3> HIDE DEF d
    <3>2. Pushed(h.todo, Loop(FALSE), <<d>> \o k.todo) /\ Pushed(<<d>> \o k.todo, d, k.todo)
      BY <2>1, PushTwo
    <3>3. DetachOK(d, h.commands, n) /\ DetachOK(Loop(FALSE), h.commands, n)
      BY <3>1 DEF DetachOK
    <3>4. DetachesOK(<<d>> \o k.todo, h.commands, n)
      BY <2>5, <3>2, <3>3, DetachesPushed
    <3> QED
      BY <3>2, <3>3, <3>4, DetachesPushed
  <2>7. MOK(h, n)
    BY <2>2, <2>3, <2>4, <2>6 DEF MOK
  <2> QED
    BY <2>7 DEF h
<1> QED
  BY <1>1, <1>2

LEMMA MLeave ==
    ASSUME NEW k, DOMAIN k = Fields, NEW n, MOK(k, n), IsSeq(k.todo), k.todo # <<>>
    PROVE  MOK(LeaveLoop(k), n)
<1> DEFINE h == LeaveLoop(k)
<1>1. h.commands = k.commands /\ h.lasttransid = k.lasttransid
  BY LeaveKeeps
<1>2. DetachesOK(h.todo, k.commands, n)
  <2>1. Pushed(k.todo, Head(k.todo), Tail(k.todo))
    BY HeadAndTail
  <2>2. DetachesOK(Tail(k.todo), k.commands, n)
    BY <2>1, DetachesPushed DEF MOK
  <2>3. ~Pending(<<[do |-> "bail"]>>, "detached")
    BY PendingNone
  <2>4. DetachesOK(<<[do |-> "bail"]>>, k.commands, n)
    BY <2>3, DetachesNone
  <2> QED
    BY <2>2, <2>4, LeaveLoopIs
<1> HIDE DEF h
<1>3. MOK(h, n)
  BY <1>1, <1>2 DEF MOK
<1> QED
  BY <1>3 DEF h

LEMMA MRespond ==
    ASSUME NEW k, DOMAIN k = Fields, NEW n, MOK(k, n), CommandsOK(x.commands, n),
           NEW t \in 0..Len(k.commands)
    PROVE  MOK(Respond(k, t), n)
<1> DEFINE h == Respond(k, t)
<1>1. /\ CommandsOK(h.commands, n) /\ Len(h.commands) = Len(k.commands)
      /\ Extends(k.commands, h.commands)
  BY Answered1 DEF MOK
<1>2. h.lasttransid = k.lasttransid /\ h.todo = k.todo
  BY RespondKeeps
<1> HIDE DEF h
<1>3. Extends(x.commands, h.commands)
  BY <1>1, ExtendsThen DEF MOK
<1>4. DetachesOK(k.todo, h.commands, n)
  BY <1>1, DetachesExtended DEF MOK
<1>5. MOK(h, n)
  BY <1>1, <1>2, <1>3, <1>4 DEF MOK
<1> QED
  BY <1>5 DEF h

LEMMA MInvIs ==
    ASSUME MInv
    PROVE  /\ MOK(x, x.sessions) /\ x.sessions \in Nat
           /\ CommandsOK(x.commands, x.sessions)
BY ExtendsSame DEF MInv, MOK

\* The session goes on, or the script begins another.
Continued ==
    /\ x'.sessions = x.sessions /\ MOK(x', x.sessions)

LEMMA MAdvance ==
    ASSUME BInv, MInv, Advance
    PROVE  \/ Continued
           \/ /\ x'.sessions = x.sessions + 1 /\ x'.commands = x.commands
              /\ x'.lasttransid = 0 /\ ~Pending(x'.todo, "detached")
<1>1. PICK items, k : /\ Plain(items) /\ Goes(x, k, items) /\ IsSeq(items)
                      /\ \/ x' = k
                         \/ x.remote_enabled /\ x' = Break(k)
                         \/ ~x.remote_enabled /\ x' = DbgpInit(k)
  BY AdvanceIs
<1>2. /\ DOMAIN k = Fields /\ k.todo = items /\ k.commands = x.commands
      /\ k.sessions = x.sessions /\ k.lasttransid = x.lasttransid
  BY <1>1, GoesFields
<1>3. ~Pending(items, "detached")
  BY <1>1, PendingPlain DEF Inner
<1>4. MOK(k, x.sessions)
  BY <1>2, <1>3, DetachesNone, MInvIs DEF MOK
<1>5. CASE x' = k
  BY <1>2, <1>4, <1>5 DEF Continued
<1>6. CASE x' = Break(k)
  <2>1. Break(k).sessions = k.sessions
    BY <1>2, BreakKeeps
  <2>2. MOK(Break(k), x.sessions)
    BY <1>1, <1>2, <1>4, MInvIs, MBreak
  <2> QED
    BY <1>2, <1>6, <2>1, <2>2 DEF Continued
<1>7. CASE x' = DbgpInit(k)
  <2>1. /\ x'.sessions = x.sessions + 1 /\ x'.lasttransid = 0
        /\ x'.todo = <<Loop(TRUE), [do |-> "enabled"]>> \o items
    BY <1>2, <1>7, DbgpInitOnly, ZenonT(60)
  <2>2. ~Pending(<<Loop(TRUE), [do |-> "enabled"]>> \o items, "detached")
    BY <1>1, <1>3, PendingStarts
  <2>3. x'.commands = x.commands
    BY <1>2, <1>7, DbgpInitKeeps
  <2> QED
    BY <2>1, <2>2, <2>3
<1> QED
  BY <1>1, <1>5, <1>6, <1>7

LEMMA MEndRequest == ASSUME BInv, MInv, EndRequest PROVE Continued
<1> DEFINE s == <<[do |-> "close"]>>
           c == Begin(x, s)
<1>1. /\ x.todo = <<>> /\ DOMAIN x = Fields
      /\ x' = x \/ x' = Deinit(c)
  BY EndRequestIs
<1>2. MOK(x, x.sessions) /\ x.sessions \in Nat /\ CommandsOK(x.commands, x.sessions)
  BY MInvIs
<1>3. CASE x' = x
  BY <1>2, <1>3 DEF Continued
<1>4. CASE x' = Deinit(c)
  <2>1. IsSeq(x.todo) /\ ~Pending(x.todo, "detached")
    BY <1>1, EmptyIs, PendingNone
  <2>2. ~Pending(s \o x.todo, "detached") /\ IsSeq(s \o x.todo)
    <3>1. IsSeq(s \o x.todo)
      BY <2>1, PushIs DEF Pushed
    <3> QED
      BY <2>1, <3>1, PendingStarts
  <2> HIDE DEF s
  <2>3. /\ DOMAIN c = Fields /\ c.sessions = x.sessions /\ c.commands = x.commands
        /\ c.lasttransid = x.lasttransid /\ c.todo = s \o x.todo
    BY <1>1, BeginKeeps
  <2> HIDE DEF c
  <2>4. DetachesOK(c.todo, c.commands, x.sessions)
    BY <2>2, <2>3, DetachesNone
  <2>5. MOK(c, x.sessions)
    BY <1>2, <2>3, <2>4 DEF MOK
  <2>6. MOK(Deinit(c), x.sessions) /\ Deinit(c).sessions = c.sessions
    BY <1>2, <2>2, <2>3, <2>5, MDeinit, DeinitKeeps
  <2> QED
    BY <1>4, <2>3, <2>6 DEF Continued
<1> QED
  BY <1>1, <1>3, <1>4

LEMMA MRead ==
    ASSUME MInv, NEW g, NEW name, NEW t, Read(g, name, t), NEW m, Only(g, m, Asked),
           m.lasttransid = t \/ m = g
    PROVE  MOK(m, x.sessions)
<1>1. /\ CommandsOK(g.commands, x.sessions) /\ Len(g.commands) = t
      /\ t \in Nat /\ t = Len(x.commands) + 1 /\ Extends(x.commands, g.commands)
      /\ DetachesOK(x.todo, g.commands, x.sessions)
  BY ReadIs
<1>2. m.todo = x.todo /\ m.commands = g.commands /\ g.lasttransid = x.lasttransid
  BY ReadKeeps
<1>3. m.lasttransid \in 0..Len(m.commands)
  BY <1>1, <1>2 DEF MInv
<1> QED
  BY <1>1, <1>2, <1>3 DEF MOK

LEMMA MCommand == ASSUME BInv, MInv, Command PROVE Continued
<1>1. PICK name, t, g, m : Read(g, name, t) /\ Only(g, m, Asked) /\ Parsed(g, name, t, m, x')
  BY CommandRead DEF CommandIs
<1>2. DOMAIN m = Fields /\ m.sessions = x.sessions /\ m.todo = x.todo /\ m.commands = g.commands
  BY <1>1, ReadKeeps
<1>3. m.lasttransid = t \/ m = g
  BY <1>1 DEF Parsed
<1>4. MOK(m, x.sessions)
  BY <1>1, <1>3, MRead
<1>5. x.todo # <<>> /\ IsSeq(x.todo)
  BY DEF Command, AtLoop, BInv, TodoOK
<1>6. t \in 0..Len(m.commands) /\ t \in 1..Len(m.commands)
  <2>1. Len(m.commands) = t /\ t \in Nat /\ t = Len(x.commands) + 1 /\ Len(x.commands) \in Nat
    BY <1>1, <1>2, ReadIs
  <2> QED
    BY <2>1
<1>7. x.sessions \in Nat /\ CommandsOK(x.commands, x.sessions)
  BY MInvIs
<1>8. ASSUME NEW r, DOMAIN r = Fields, r = m \/ r = Respond(m, t), x' = LeaveLoop(r)
      PROVE  Continued
  <2>1. r.todo = x.todo /\ r.sessions = x.sessions
    BY <1>2, <1>8, RespondKeeps
  <2>2. MOK(r, x.sessions)
    BY <1>2, <1>4, <1>6, <1>7, <1>8, MRespond
  <2>3. MOK(LeaveLoop(r), x.sessions) /\ LeaveLoop(r).sessions = r.sessions
    BY <1>5, <1>8, <2>1, <2>2, MLeave, LeaveKeeps
  <2> QED
    BY <1>8, <2>1, <2>3 DEF Continued
<1>9. CASE x' = Respond(m, t)
  <2>1. MOK(Respond(m, t), x.sessions) /\ Respond(m, t).sessions = m.sessions
    BY <1>2, <1>4, <1>6, <1>7, MRespond, RespondKeeps
  <2> QED
    BY <1>2, <1>9, <2>1 DEF Continued
<1>10. CASE name = "detach" /\ x' = Deinit(Begin(m, <<[do |-> "detached", id |-> t]>>))
  <2> DEFINE a == [do |-> "detached", id |-> t]
             s == <<a>>
             b == Begin(m, s)
  <2>1. DetachOK(a, m.commands, x.sessions)
    <3>1. m.commands[t] = [name |-> name, session |-> x.sessions, answers |-> 0]
      BY <1>1, <1>2, ReadIs
    <3> QED
      BY <1>6, <1>10, <3>1 DEF DetachOK
  <2> HIDE DEF a
  <2>2. Pushed(s \o x.todo, a, x.todo)
    BY <1>5, PushIs
  <2>3. DetachesOK(s \o x.todo, m.commands, x.sessions)
    BY <1>2, <1>4, <2>1, <2>2, DetachesPushed DEF MOK
  <2> HIDE DEF s
  <2>4. /\ DOMAIN b = Fields /\ b.sessions = m.sessions /\ b.commands = m.commands
        /\ b.lasttransid = m.lasttransid /\ b.todo = s \o m.todo
    BY <1>2, BeginKeeps, ZenonT(60)
  <2> HIDE DEF b
  <2>5. MOK(b, x.sessions)
    BY <1>2, <1>4, <2>3, <2>4 DEF MOK
  <2>6. MOK(Deinit(b), x.sessions) /\ Deinit(b).sessions = b.sessions
    BY <1>2, <1>7, <2>2, <2>4, <2>5, MDeinit, DeinitKeeps, ZenonT(60) DEF Pushed
  <2> QED
    BY <1>2, <1>10, <2>4, <2>6 DEF Continued, a, s, b
<1>11. \/ x' # Deinit(Begin(m, <<[do |-> "detached", id |-> t]>>)) \/ name = "detach"
       \/ \E r : DOMAIN r = Fields /\ (r = m \/ r = Respond(m, t)) /\ x' = LeaveLoop(r)
       \/ x' = Respond(m, t)
  <2>1. DOMAIN Respond(m, t) = Fields
    BY <1>2, RespondKeeps
  <2> QED
    BY <1>1, <1>2, <2>1 DEF Parsed
<1> QED
  BY <1>1, <1>2, <1>8, <1>9, <1>10, <1>11, ParsedIs

LEMMA MResume == ASSUME BInv, MInv, Resume PROVE Continued
<1> DEFINE item == Head(x.todo)
           rest == Tail(x.todo)
<1>1. ResumeIs /\ x.todo # <<>> /\ IsSeq(x.todo) /\ DOMAIN x = Fields
  BY ResumedIs DEF BInv, Resume, TodoOK
<1>2. Pushed(x.todo, item, rest)
  BY <1>1, HeadAndTail
<1>3. /\ DetachesOK(rest, x.commands, x.sessions) /\ IsSeq(rest)
      /\ DetachOK(item, x.commands, x.sessions)
  BY <1>2, DetachesPushed DEF MInv, Pushed
<1>4. MOK(x, x.sessions) /\ x.sessions \in Nat /\ CommandsOK(x.commands, x.sessions)
  BY MInvIs
<1>5. CASE item.do \in Inner
  <2>1. PICK k : Goes(x, k, rest) /\ (x' = k \/ x' = Break(k))
    BY <1>1, <1>5 DEF ResumeIs, Inner
  <2>2. /\ DOMAIN k = Fields /\ k.todo = rest /\ k.commands = x.commands
        /\ k.sessions = x.sessions /\ k.lasttransid = x.lasttransid
    BY <2>1, GoesFields
  <2>3. MOK(k, x.sessions)
    BY <1>3, <1>4, <2>2 DEF MOK
  <2>4. MOK(Break(k), x.sessions) /\ Break(k).sessions = k.sessions
    BY <1>3, <1>4, <2>2, <2>3, MBreak, BreakKeeps
  <2> QED
    BY <2>1, <2>2, <2>3, <2>4 DEF Continued
<1>6. CASE item.do \in {"enabled", "deinit", "close"}
  <2>1. /\ Only(x, x', {"todo", "remote_enabled", "freed", "sockets", "connected"})
        /\ x'.todo = rest
    BY <1>1, <1>6 DEF ResumeIs, Inner, Only, Fields
  <2>2. /\ x'.sessions = x.sessions /\ x'.commands = x.commands
        /\ x'.lasttransid = x.lasttransid
    BY <2>1 DEF Only, Fields
  <2> QED
    BY <1>3, <1>4, <2>1, <2>2 DEF Continued, MOK
<1>7. CASE item.do = "detached"
  <2>1. PICK k : /\ Only(x, k, {"todo", "remote_enabled", "detached", "commands", "early"})
                 /\ k.todo = rest /\ k.commands = Answer(x.commands, item.id, x.connected)
                 /\ x' = LeaveLoop(k)
    BY <1>1, <1>7 DEF ResumeIs, Inner
  <2>2. DOMAIN k = Fields /\ k.sessions = x.sessions /\ k.lasttransid = x.lasttransid
    BY <2>1 DEF Only, Fields
  <2>3. item.id \in 0..Len(x.commands)
    BY <1>3, <1>7 DEF DetachOK
  <2>4. /\ CommandsOK(k.commands, x.sessions) /\ Len(k.commands) = Len(x.commands)
        /\ Extends(x.commands, k.commands)
    BY <1>4, <2>1, <2>3, AnswerIs
  <2>5. DetachesOK(rest, k.commands, x.sessions)
    BY <1>3, <1>4, <2>4, DetachesExtended
  <2>6. MOK(k, x.sessions)
    BY <1>4, <2>1, <2>2, <2>4, <2>5 DEF MOK
  <2>7. rest # <<>>
    BY <1>1, <1>7, TodoHead DEF BInv
  <2>8. MOK(x', x.sessions) /\ x'.sessions = k.sessions
    BY <1>3, <2>1, <2>2, <2>6, <2>7, MLeave, LeaveKeeps
  <2> QED
    BY <2>2, <2>8 DEF Continued
<1> QED
  BY <1>1, <1>5, <1>6, <1>7 DEF ResumeIs

LEMMA MOther ==
    ASSUME BInv, MInv, HangUp \/ EndOfFile \/ Bailout
    PROVE  Continued
<1>1. IsSeq(x.todo) /\ DOMAIN x = Fields
  BY DEF BInv, TodoOK
<1>2. MOK(x, x.sessions)
  BY MInvIs
<1>3. CASE HangUp
  <2>1. /\ x'.todo = x.todo /\ x'.commands = x.commands
        /\ x'.sessions = x.sessions /\ x'.lasttransid = x.lasttransid
    BY <1>1, <1>3 DEF HangUp, Fields
  <2> QED
    BY <1>2, <2>1 DEF Continued, MOK
<1>4. CASE EndOfFile
  <2>1. x' = Done(x) /\ x.todo # <<>>
    BY <1>4 DEF EndOfFile, AtLoop
  <2>2. Goes(x, x', Tail(x.todo))
    BY <1>1, <2>1, GoesDone
  <2>3. /\ x'.todo = Tail(x.todo) /\ x'.commands = x.commands
        /\ x'.sessions = x.sessions /\ x'.lasttransid = x.lasttransid
    BY <2>2, GoesFields
  <2>4. Pushed(x.todo, Head(x.todo), Tail(x.todo))
    BY <1>1, <2>1, HeadAndTail
  <2>5. DetachesOK(Tail(x.todo), x.commands, x.sessions)
    BY <2>4, DetachesPushed DEF MInv
  <2> QED
    BY <1>2, <2>3, <2>5 DEF Continued, MOK
<1>5. CASE Bailout
  <2>1. x' = [x EXCEPT !.todo = <<>>, !.step = NoStep]
    BY <1>5 DEF Bailout
  <2>2. /\ x'.todo = <<>> /\ x'.commands = x.commands
        /\ x'.sessions = x.sessions /\ x'.lasttransid = x.lasttransid
    BY <1>1, <2>1 DEF Fields
  <2>3. DetachesOK(<<>>, x.commands, x.sessions)
    BY PendingNone, DetachesNone
  <2> QED
    BY <1>2, <2>2, <2>3 DEF Continued, MOK
<1> QED
  BY <1>3, <1>4, <1>5

LEMMA MInvNext == ASSUME BInv, MInv, [Next]_vars PROVE MInv'
<1>1. CASE Continued
  BY <1>1, MInvIs DEF Continued, MOK, MInv
<1>2. CASE /\ x'.sessions = x.sessions + 1 /\ x'.commands = x.commands
           /\ x'.lasttransid = 0 /\ ~Pending(x'.todo, "detached")
  <2>1. CommandsOK(x.commands, x.sessions + 1)
    BY CommandsMore DEF MInv
  <2>2. Len(x.commands) \in Nat
    BY CommandsLen DEF MInv
  <2>3. DetachesOK(x'.todo, x'.commands, x'.sessions)
    BY <1>2, DetachesNone
  <2> QED
    BY <1>2, <2>1, <2>2, <2>3 DEF MInv
<1>3. CASE UNCHANGED vars
  BY <1>3 DEF MInv, vars
<1> QED
  BY <1>1, <1>2, <1>3, MAdvance, MEndRequest, MCommand, MResume, MOther DEF Next, Advance

LEMMA MInvInit == ASSUME Init PROVE MInv
<1>1. PICK app \in Apps : x = Globals(app)
  BY DEF Init
<1>2. x.sessions = 0 /\ x.todo = <<>> /\ x.commands = <<>> /\ x.lasttransid = 0
  BY <1>1 DEF Globals
<1>3. CommandsOK(<<>>, 0) /\ 0 \in 0..Len(<<>>)
  BY EmptyIs DEF CommandsOK
<1>4. DetachesOK(<<>>, <<>>, 0)
  BY PendingNone, DetachesNone
<1> QED
  BY <1>2, <1>3, <1>4 DEF MInv

\* The commands and their answers are kept as MInv says.
THEOREM Messages == Spec => []MInv
<1>1. Init => MInv
  BY MInvInit
<1>2. BInv /\ MInv /\ [Next]_vars => MInv'
  BY MInvNext
<1> QED
  BY <1>1, <1>2, BreakpointsInvariance, PTL DEF Spec

-----------------------------------------------------------------------------
(* The connections *)

\* The IDE has ended the session s.
Ended(commands, s) ==
    \E t \in 1..Len(commands) : commands[t].name \in Ending /\ commands[t].session = s

\* What is left to do after a request.
Closing(todo) ==
    \A item \in Range(todo) :
        /\ item.do \in {"loop", "deinit", "close", "detached"}
        /\ item.do = "loop" => ~item.bail

\* A connection that is open is that of a session that has ended, or is about to
\* be closed, or is the one of a session in a request that is not over.
OpenFor(g, p) ==
    \A s \in g.sockets :
        \/ Ended(g.commands, s)
        \/ s = g.sessions /\ Pending(g.todo, "close")
        \/ s = g.sessions /\ p # "over" /\ (g.remote_enabled \/ Pending(g.todo, "enabled"))

EndedOrOpen(g) ==
    /\ g.status = "stopped" => Ended(g.commands, g.sessions)
    /\ Pending(g.todo, "deinit") =>
          \/ Ended(g.commands, g.sessions) \/ Pending(g.todo, "close")
          \/ g.sessions \notin g.sockets

SInv ==
    /\ OpenFor(x, phase) /\ EndedOrOpen(x)
    /\ phase = "over" => ~Running /\ Closing(x.todo)

LEMMA EndedExtended ==
    ASSUME NEW c, NEW d, NEW n, CommandsOK(c, n), CommandsOK(d, n), Extends(c, d), NEW s,
           Ended(c, s)
    PROVE  Ended(d, s)
<1>1. Len(c) \in Nat /\ Len(d) \in Nat
  BY CommandsLen
<1> QED
  BY <1>1 DEF Ended, Extends

LEMMA DetachEnded ==
    ASSUME NEW item, item.do = "detached", NEW c, NEW n, DetachOK(item, c, n)
    PROVE  Ended(c, n)
BY DEF DetachOK, Ended, Ending

LEMMA ClosingPushed ==
    ASSUME NEW all, NEW a, NEW rest, Pushed(all, a, rest)
    PROVE  /\ Closing(all) => Closing(rest) /\ a.do \in {"loop", "deinit", "close", "detached"}
           /\ Closing(all) /\ a.do = "loop" => ~a.bail
           /\ Closing(rest) /\ a.do \in {"deinit", "close", "detached"} => Closing(all)
           /\ Closing(rest) /\ a.do = "loop" /\ ~a.bail => Closing(all)
BY DEF Closing, Pushed

LEMMA SInvInit == ASSUME Init PROVE SInv
<1>1. PICK app \in Apps : x = Globals(app)
  BY DEF Init
<1>2. x.sockets = {} /\ x.todo = <<>> /\ x.status = "none"
  BY <1>1 DEF Globals
<1>3. phase = "idle"
  BY DEF Init
<1> QED
  BY <1>2, <1>3, PendingNone DEF SInv, OpenFor, EndedOrOpen

LEMMA AdvancePhase ==
    ASSUME SInv, Advance
    PROVE  phase # "over" /\ phase' # "over"
BY DEF SInv, Advance, RunScript, Call, Return, Statement, Throw, RaiseError

\* What was ended is ended.
LEMMA StillEnded ==
    ASSUME MInv, NEW h, MOK(h, x.sessions), NEW s, Ended(x.commands, s)
    PROVE  Ended(h.commands, s)
BY EndedExtended DEF MInv, MOK

LEMMA SAdvance ==
    ASSUME BInv, CInv, MInv, SInv, Advance
    PROVE  SInv'
<1>1. PICK items, k : /\ Plain(items) /\ Goes(x, k, items) /\ IsSeq(items)
                      /\ \/ x' = k
                         \/ x.remote_enabled /\ x' = Break(k)
                         \/ ~x.remote_enabled /\ x' = DbgpInit(k)
  BY AdvanceIs
<1>2. /\ DOMAIN k = Fields /\ k.todo = items /\ k.commands = x.commands
      /\ k.sessions = x.sessions /\ k.sockets = x.sockets /\ k.status = x.status
      /\ k.remote_enabled = x.remote_enabled /\ k.lasttransid = x.lasttransid
  BY <1>1, GoesFields
<1>3. ~Pending(items, "deinit")
  BY <1>1, PendingPlain DEF Inner
<1>4. phase # "over" /\ phase' # "over"
  BY AdvancePhase
<1>5. \A s \in x.sockets : Ended(x.commands, s) \/ (s = x.sessions /\ x.remote_enabled)
  <2>1. x.todo = <<>>
    BY AdvanceIs
  <2> QED
    BY <2>1, PendingNone DEF SInv, OpenFor
<1>6. CASE x' = k
  BY <1>2, <1>3, <1>4, <1>5, <1>6 DEF SInv, OpenFor, EndedOrOpen
<1>7. CASE x' = Break(k)
  <2>1. x'.todo = <<Loop(TRUE)>> \o items /\ x'.status = "break"
    BY <1>2, <1>7, BreakOnly
  <2>2. /\ x'.sessions = x.sessions /\ x'.sockets = x.sockets
        /\ x'.remote_enabled = x.remote_enabled
    BY <1>2, <1>7, BreakKeeps
  <2>3. ~Pending(<<Loop(TRUE)>> \o items, "deinit")
    BY <1>1, <1>3, PendingStarts
  <2>4. MOK(x', x.sessions)
    <3>1. ~Pending(items, "detached")
      BY <1>1, PendingPlain DEF Inner
    <3>2. MOK(k, x.sessions)
      BY <1>2, <3>1, DetachesNone, MInvIs DEF MOK
    <3> QED
      BY <1>1, <1>2, <1>7, <3>2, MBreak, MInvIs
  <2>5. \A s : Ended(x.commands, s) => Ended(x'.commands, s)
    BY <2>4, StillEnded
  <2> QED
    BY <1>4, <1>5, <2>1, <2>2, <2>3, <2>5 DEF SInv, OpenFor, EndedOrOpen
<1>8. CASE ~x.remote_enabled /\ x' = DbgpInit(k)
  <2>1. /\ x'.sessions = x.sessions + 1 /\ x'.sockets = x.sockets \cup {x.sessions + 1}
        /\ x'.todo = <<Loop(TRUE), [do |-> "enabled"]>> \o items /\ x'.status = "starting"
    BY <1>2, <1>8, DbgpInitOnly, ZenonT(60)
  <2>2. x'.commands = x.commands
    BY <1>2, <1>8, DbgpInitKeeps
  <2>3. /\ Pending(<<Loop(TRUE), [do |-> "enabled"]>> \o items, "enabled")
        /\ ~Pending(<<Loop(TRUE), [do |-> "enabled"]>> \o items, "deinit")
    BY <1>1, <1>3, PendingStarts
  <2> QED
    BY <1>4, <1>5, <1>8, <2>1, <2>2, <2>3 DEF SInv, OpenFor, EndedOrOpen
<1> QED
  BY <1>1, <1>6, <1>7, <1>8

LEMMA SEndRequest ==
    ASSUME BInv, CInv, MInv, SInv, EndRequest
    PROVE  SInv'
<1> DEFINE s == <<[do |-> "close"]>>
           c == Begin(x, s)
<1>1. /\ x.todo = <<>> /\ DOMAIN x = Fields /\ ~Running /\ base' = base
      /\ \/ ~x.remote_enabled /\ x' = x
         \/ x.remote_enabled /\ x' = Deinit(c) /\ c.remote_enabled
  BY EndRequestIs
<1>2. phase' = "over" /\ phase = "shutdown"
  BY DEF EndRequest
<1>3. \A n \in x.sockets : Ended(x.commands, n) \/ (n = x.sessions /\ x.remote_enabled)
  BY <1>1, PendingNone DEF SInv, OpenFor
<1>4. Closing(<<>>)
  BY EmptyIs DEF Closing, Range
<1>5. CASE ~x.remote_enabled /\ x' = x
  <2>1. Running' = Running
    BY <1>1, <1>5 DEF Running
  <2> QED
    BY <1>1, <1>2, <1>3, <1>4, <1>5, <2>1 DEF SInv, OpenFor, EndedOrOpen
<1>6. CASE x.remote_enabled /\ x' = Deinit(c)
  <2> DEFINE e == [do |-> "close"]
             d == [do |-> "deinit"]
  <2>1. e.do = "close" /\ d.do = "deinit" /\ Loop(FALSE).do = "loop" /\ ~Loop(FALSE).bail
    BY DEF Loop
  <2>2. s = <<e>>
    OBVIOUS
  <2> HIDE DEF s, e
  <2>3. /\ DOMAIN c = Fields /\ c.sessions = x.sessions /\ c.sockets = x.sockets
        /\ c.remote_enabled = x.remote_enabled /\ c.stack = x.stack /\ c.todo = s \o x.todo
    BY <1>1, BeginKeeps
  <2> HIDE DEF c
  <2>4. Pushed(c.todo, e, x.todo)
    BY <1>1, <2>2, <2>3, EmptyIs, PushIs
  <2>5. /\ x'.status = "stopping" /\ x'.todo = <<Loop(FALSE), d>> \o c.todo
    BY <1>6, <2>3, DeinitOnly
  <2> HIDE DEF d
  <2>6. Pushed(x'.todo, Loop(FALSE), <<d>> \o c.todo) /\ Pushed(<<d>> \o c.todo, d, c.todo)
    <3>1. IsSeq(c.todo)
      BY <2>4 DEF Pushed
    <3>2. /\ Pushed(<<Loop(FALSE), d>> \o c.todo, Loop(FALSE), <<d>> \o c.todo)
          /\ Pushed(<<d>> \o c.todo, d, c.todo)
      BY <3>1, PushTwo
    <3> QED
      BY <2>5, <3>2
  <2>7. Pending(x'.todo, "close")
    <3>1. Pending(c.todo, "close")
      BY <2>1, <2>4, PendingPushed
    <3>2. Pending(<<d>> \o c.todo, "close")
      BY <2>6, <3>1, PendingPushed
    <3> DEFINE all == x'.todo
               rest == <<d>> \o c.todo
               a == Loop(FALSE)
    <3>3. Pushed(all, a, rest) /\ Pending(rest, "close")
      BY <2>6, <3>2
    <3> HIDE DEF all, rest, a
    <3>4. Pending(all, "close")
      BY <3>3, PendingPushed
    <3> QED
      BY <3>4 DEF all
  <2>8. Closing(x'.todo)
    <3>1. Closing(c.todo)
      BY <1>1, <1>4, <2>1, <2>4, ClosingPushed
    <3>2. Closing(<<d>> \o c.todo)
      BY <2>1, <2>6, <3>1, ClosingPushed
    <3> QED
      BY <2>1, <2>6, <3>2, ClosingPushed
  <2>9. x'.sessions = x.sessions /\ x'.sockets = x.sockets /\ x'.stack = x.stack
    BY <1>6, <2>3, DeinitKeeps
  <2>10. ~Running'
    BY <1>1, <2>9 DEF Running
  <2>11. \A n : Ended(x.commands, n) => Ended(x'.commands, n)
    BY MEndRequest, StillEnded DEF Continued
  <2> QED
    BY <1>3, <2>5, <2>7, <2>8, <2>9, <2>10, <2>11 DEF SInv, OpenFor, EndedOrOpen
<1> QED
  BY <1>1, <1>5, <1>6

\* A command that ends the session is one of its commands from then on.
LEMMA ParsedExtends ==
    ASSUME NEW m, DOMAIN m = Fields, NEW n, CommandsOK(m.commands, n), NEW s,
           m.lasttransid \in 0..Len(m.commands), NEW t \in 0..Len(m.commands),
           Ended(m.commands, s)
    PROVE  /\ Ended(Respond(m, t).commands, s)
           /\ Ended(LeaveLoop(m).commands, s)
           /\ Ended(LeaveLoop(Respond(m, t)).commands, s)
           /\ \A a : Ended(Deinit(Begin(m, a)).commands, s)
<1>1. CommandsOK(Respond(m, t).commands, n) /\ Extends(m.commands, Respond(m, t).commands)
  BY Answered1
<1>2. Ended(Respond(m, t).commands, s)
  BY <1>1, EndedExtended
<1>3. /\ LeaveLoop(m).commands = m.commands /\ DOMAIN Respond(m, t) = Fields
      /\ LeaveLoop(Respond(m, t)).commands = Respond(m, t).commands
  <2>1. DOMAIN Respond(m, t) = Fields
    BY RespondKeeps
  <2> QED
    BY <2>1, LeaveKeeps
<1>4. ASSUME NEW a PROVE Ended(Deinit(Begin(m, a)).commands, s)
  <2> DEFINE b == Begin(m, a)
  <2>1. DOMAIN b = Fields /\ b.commands = m.commands /\ b.lasttransid = m.lasttransid
    BY BeginKeeps
  <2> HIDE DEF b
  <2>2. Deinit(b).commands = m.commands \/ Deinit(b).commands = Respond(b, b.lasttransid).commands
    BY <2>1, DeinitOnly
  <2>3. /\ CommandsOK(Respond(b, b.lasttransid).commands, n)
        /\ Extends(m.commands, Respond(b, b.lasttransid).commands)
    BY <2>1, Answered1
  <2>4. Ended(Respond(b, b.lasttransid).commands, s)
    BY <2>3, EndedExtended
  <2> QED
    BY <2>2, <2>4 DEF b
<1> QED
  BY <1>2, <1>3, <1>4

LEMMA CommandEnds ==
    ASSUME MInv, NEW g, NEW name, NEW t, Read(g, name, t), NEW m, Only(g, m, Asked),
           Parsed(g, name, t, m, x'), name \in Ending
    PROVE  Ended(x'.commands, x.sessions)
<1>1. /\ DOMAIN m = Fields /\ m.commands = g.commands
  BY ReadKeeps
<1>2. m.lasttransid = t
  BY DEF Parsed, Ending, Unknown
<1>3. MOK(m, x.sessions)
  BY <1>2, MRead
<1>4. /\ Len(m.commands) = t /\ t \in Nat /\ t = Len(x.commands) + 1 /\ Len(x.commands) \in Nat
      /\ m.commands[t] = [name |-> name, session |-> x.sessions, answers |-> 0]
  <2>1. /\ Len(g.commands) = t /\ t \in Nat /\ t = Len(x.commands) + 1 /\ Len(x.commands) \in Nat
    BY ReadIs
  <2>2. g.commands[t] = [name |-> name, session |-> x.sessions, answers |-> 0]
    BY ReadIs
  <2> QED
    BY <1>1, <2>1, <2>2
<1>5. t \in 1..Len(m.commands) /\ t \in 0..Len(m.commands)
  BY <1>4
<1>6. Ended(m.commands, x.sessions)
  BY <1>4, <1>5 DEF Ended
<1> DEFINE a == <<[do |-> "detached", id |-> t]>>
<1>7. \/ x' = LeaveLoop(m) \/ x' = LeaveLoop(Respond(m, t)) \/ x' = Respond(m, t)
      \/ x' = Deinit(Begin(m, a))
  BY DEF Parsed
<1> HIDE DEF a
<1> QED
  BY <1>1, <1>3, <1>5, <1>6, <1>7, ParsedExtends DEF MOK

\* A step in a session that has ended, or that leaves open what it found so.
LEMMA SKept ==
    ASSUME SInv, x'.sessions = x.sessions, x'.sockets \subseteq x.sockets, phase' = phase,
           \A s : Ended(x.commands, s) => Ended(x'.commands, s),
           x'.status = "stopped" => Ended(x'.commands, x.sessions),
           \/ Ended(x'.commands, x.sessions) \/ x.sessions \notin x'.sockets
           \/ /\ Pending(x.todo, "close") => \/ Pending(x'.todo, "close")
                                             \/ x.sessions \notin x'.sockets
              /\ phase # "over" /\ (x.remote_enabled \/ Pending(x.todo, "enabled")) =>
                    \/ x'.remote_enabled \/ Pending(x'.todo, "enabled")
                    \/ Pending(x'.todo, "close")
              /\ Pending(x'.todo, "deinit") => Pending(x.todo, "deinit")
    PROVE  OpenFor(x, phase)' /\ EndedOrOpen(x)'
BY DEF SInv, OpenFor, EndedOrOpen

LEMMA SCommand ==
    ASSUME BInv, CInv, MInv, SInv, Command
    PROVE  SInv'
<1>1. PICK name, t, g, m : Read(g, name, t) /\ Only(g, m, Asked) /\ Parsed(g, name, t, m, x')
  BY CommandRead DEF CommandIs
<1>2. /\ DOMAIN m = Fields /\ m.remote_enabled = x.remote_enabled /\ m.stack = x.stack
      /\ m.sessions = x.sessions /\ m.sockets = x.sockets /\ m.todo = x.todo
      /\ g.status = x.status
  BY <1>1, ReadKeeps
<1>3. HeadIs(x.todo, "loop") /\ IsSeq(x.todo)
  BY DEF BInv, Command, AtLoop, HeadIs, TodoOK
<1>4. phase' = phase /\ base' = base
  BY DEF Command
<1>5. x'.sessions = x.sessions /\ \A s : Ended(x.commands, s) => Ended(x'.commands, s)
  BY MCommand, StillEnded DEF Continued
<1>6. Pushed(x.todo, Head(x.todo), Tail(x.todo)) /\ Head(x.todo).do = "loop"
  BY <1>3, HeadAndTail DEF HeadIs
<1>7. name \in Ending => Ended(x'.commands, x.sessions)
  BY <1>1, CommandEnds
<1>8. ASSUME NEW r, DOMAIN r = Fields, r = m \/ r = Respond(m, t), x' = LeaveLoop(r)
      PROVE  SInv'
  <2>1. /\ r.remote_enabled = x.remote_enabled /\ r.todo = x.todo /\ r.stack = x.stack
        /\ r.sockets = x.sockets /\ r.status = m.status
    BY <1>2, <1>8, RespondKeeps
  <2>2. /\ x'.remote_enabled = x.remote_enabled /\ x'.status = m.status
        /\ x'.sockets = x.sockets /\ x'.stack = x.stack
    BY <1>8, <2>1, LeaveKeeps
  <2>3. m.status = "stopped" => Ended(x'.commands, x.sessions)
    <3>1. m.status = "stopped" => name = "stop" \/ x.status = "stopped"
      BY <1>1, <1>2 DEF Parsed
    <3> QED
      BY <1>5, <1>7, <3>1 DEF SInv, EndedOrOpen, Ending
  <2>4. \/ Head(x.todo).bail /\ m.status = "stopped"
        \/ x'.todo = Tail(x.todo)
    BY <1>8, <2>1, LeaveLoopIs
  <2>5. \A kind : kind # "loop" => (Pending(x.todo, kind) <=> Pending(Tail(x.todo), kind))
    BY <1>6, PendingPushed
  <2>6. OpenFor(x, phase)' /\ EndedOrOpen(x)'
    BY <1>4, <1>5, <2>2, <2>3, <2>4, <2>5, SKept
  <2>7. phase = "over" => ~Running' /\ Closing(x'.todo)
    <3>1. phase = "over" => ~Running' /\ Closing(x.todo)
      BY <1>4, <2>2 DEF SInv, Running
    <3>2. Closing(x.todo) => ~Head(x.todo).bail /\ Closing(Tail(x.todo))
      BY <1>6, ClosingPushed
    <3> QED
      BY <2>4, <3>1, <3>2
  <2> QED
    BY <1>4, <2>6, <2>7 DEF SInv
<1>9. CASE x' = Respond(m, t) /\ name \notin Ending
  <2>1. /\ x'.remote_enabled = x.remote_enabled /\ x'.todo = x.todo /\ x'.stack = x.stack
        /\ x'.sockets = x.sockets /\ x'.status = m.status
    BY <1>2, <1>9, RespondKeeps
  <2>2. m.status = "stopped" => Ended(x'.commands, x.sessions)
    <3>1. m.status = "stopped" => x.status = "stopped"
      BY <1>1, <1>2, <1>9 DEF Parsed, Ending
    <3> QED
      BY <1>5, <3>1 DEF SInv, EndedOrOpen
  <2>3. OpenFor(x, phase)' /\ EndedOrOpen(x)'
    BY <1>4, <1>5, <2>1, <2>2, SKept
  <2> QED
    BY <1>4, <2>1, <2>3 DEF SInv, Running
<1>10. CASE name \in Ending /\ x' = Respond(m, t)
  <2>1. /\ x'.todo = x.todo /\ x'.stack = x.stack /\ x'.sockets = x.sockets
    BY <1>2, <1>10, RespondKeeps
  <2>2. OpenFor(x, phase)' /\ EndedOrOpen(x)'
    BY <1>4, <1>5, <1>7, <1>10, <2>1, SKept
  <2> QED
    BY <1>4, <2>1, <2>2 DEF SInv, Running
<1>11. CASE name = "detach" /\ x' = Deinit(Begin(m, <<[do |-> "detached", id |-> t]>>))
  <2> DEFINE a == [do |-> "detached", id |-> t]
             s == <<a>>
             b == Begin(m, s)
  <2>1. a.do = "detached"
    OBVIOUS
  <2> HIDE DEF a
  <2>2. Pushed(s \o x.todo, a, x.todo)
    BY <1>3, PushIs
  <2> HIDE DEF s
  <2>3. /\ DOMAIN b = Fields /\ b.sessions = m.sessions /\ b.sockets = m.sockets
        /\ b.stack = m.stack /\ b.todo = s \o m.todo
    BY <1>2, BeginKeeps, ZenonT(60)
  <2> HIDE DEF b
  <2>4. x' = Deinit(b)
    BY <1>11 DEF a, s, b
  <2>5. x'.sockets = x.sockets /\ x'.stack = x.stack
    BY <1>2, <2>3, <2>4, DeinitKeeps
  <2>6. Ended(x'.commands, x.sessions)
    BY <1>7, <1>11 DEF Ending
  <2>7. OpenFor(x, phase)' /\ EndedOrOpen(x)'
    BY <1>4, <1>5, <2>5, <2>6, SKept
  <2>8. Closing(x.todo) => Closing(x'.todo)
    <3> DEFINE d == [do |-> "deinit"]
               l == Loop(FALSE)
    <3>1. d.do = "deinit" /\ l.do = "loop" /\ ~l.bail
      BY DEF Loop
    <3>2. x'.todo = b.todo \/ x'.todo = <<l, d>> \o b.todo
      BY <2>3, <2>4, DeinitOnly
    <3> HIDE DEF d, l
    <3>3. Pushed(b.todo, a, x.todo) /\ IsSeq(b.todo)
      BY <1>2, <2>2, <2>3 DEF Pushed
    <3>4. Pushed(<<l, d>> \o b.todo, l, <<d>> \o b.todo) /\ Pushed(<<d>> \o b.todo, d, b.todo)
      BY <3>3, PushTwo
    <3>5. Closing(x.todo) => Closing(b.todo)
      BY <2>1, <3>3, ClosingPushed
    <3>6. Closing(b.todo) => Closing(<<d>> \o b.todo)
      BY <3>1, <3>4, ClosingPushed
    <3>7. Closing(<<d>> \o b.todo) => Closing(<<l, d>> \o b.todo)
      BY <3>1, <3>4, ClosingPushed
    <3> QED
      BY <3>2, <3>5, <3>6, <3>7
  <2> QED
    BY <1>4, <2>5, <2>7, <2>8 DEF SInv, Running
<1>12. \/ name = "detach" /\ x' = Deinit(Begin(m, <<[do |-> "detached", id |-> t]>>))
       \/ \E r : DOMAIN r = Fields /\ (r = m \/ r = Respond(m, t)) /\ x' = LeaveLoop(r)
       \/ x' = Respond(m, t)
  <2>1. DOMAIN Respond(m, t) = Fields
    BY <1>2, RespondKeeps
  <2> QED
    BY <1>1, <1>2, <2>1 DEF Parsed
<1> QED
  BY <1>8, <1>9, <1>10, <1>11, <1>12

LEMMA SResume ==
    ASSUME BInv, CInv, MInv, SInv, Resume
    PROVE  SInv'
<1> DEFINE item == Head(x.todo)
           rest == Tail(x.todo)
<1>1. ResumeIs /\ x.todo # <<>> /\ IsSeq(x.todo) /\ DOMAIN x = Fields
  BY ResumedIs DEF BInv, Resume, TodoOK
<1>2. Pushed(x.todo, item, rest)
  BY <1>1, HeadAndTail
<1>3. /\ \A kind : Pending(x.todo, kind) <=> item.do = kind \/ Pending(rest, kind)
      /\ IsSeq(rest)
  BY <1>2, PendingPushed DEF Pushed
<1>4. phase' = phase /\ base' = base
  BY DEF Resume
<1>5. x'.sessions = x.sessions /\ \A s : Ended(x.commands, s) => Ended(x'.commands, s)
  BY MResume, StillEnded DEF Continued
<1>6. phase = "over" => /\ ~Running /\ Closing(rest)
                        /\ item.do \in {"loop", "deinit", "close", "detached"}
  BY <1>2, ClosingPushed DEF SInv
<1>7. x.status = "stopped" => Ended(x'.commands, x.sessions)
  BY <1>5 DEF SInv, EndedOrOpen
<1>8. CASE item.do \in Inner
  <2>1. PICK k : Goes(x, k, rest) /\ (x' = k \/ x' = Break(k))
    BY <1>1, <1>8 DEF ResumeIs, Inner
  <2>2. /\ DOMAIN k = Fields /\ k.todo = rest /\ k.remote_enabled = x.remote_enabled
        /\ k.sockets = x.sockets /\ k.status = x.status
    BY <2>1, GoesFields
  <2>3. phase # "over"
    BY <1>6, <1>8 DEF Inner
  <2>4. \A kind \in {"close", "enabled", "deinit"} : Pending(x.todo, kind) <=> Pending(rest, kind)
    BY <1>3, <1>8 DEF Inner
  <2>5. CASE x' = k
    <3>1. OpenFor(x, phase)' /\ EndedOrOpen(x)'
      BY <1>4, <1>5, <1>7, <2>2, <2>4, <2>5, SKept
    <3> QED
      BY <1>4, <2>3, <3>1 DEF SInv
  <2>6. CASE x' = Break(k)
    <3>1. /\ x'.todo = <<Loop(TRUE)>> \o rest /\ x'.status = "break"
          /\ x'.remote_enabled = x.remote_enabled /\ x'.sockets = x.sockets
      BY <2>2, <2>6, BreakOnly, BreakKeeps
    <3>2. \A kind \in {"close", "enabled", "deinit"} : Pending(x'.todo, kind) <=> Pending(rest, kind)
      <4> DEFINE l == Loop(TRUE)
      <4>1. l.do = "loop"
        BY DEF Loop
      <4> HIDE DEF l
      <4>2. Pushed(<<l>> \o rest, l, rest)
        BY <1>3, PushIs
      <4>3. \A kind \in {"close", "enabled", "deinit"} :
               Pending(<<l>> \o rest, kind) <=> Pending(rest, kind)
        BY <4>1, <4>2, PendingPushed
      <4> QED
        BY <3>1, <4>3 DEF l
    <3>3. OpenFor(x, phase)' /\ EndedOrOpen(x)'
      BY <1>4, <1>5, <2>4, <3>1, <3>2, SKept, SMTT(40)
    <3> QED
      BY <1>4, <2>3, <3>3 DEF SInv
  <2> QED
    BY <2>1, <2>5, <2>6
<1>9. CASE item.do \in {"enabled", "deinit", "close"}
  <2>1. /\ Only(x, x', {"todo", "remote_enabled", "freed", "sockets", "connected"})
        /\ x'.todo = rest /\ x'.sockets \subseteq x.sockets
        /\ item.do # "deinit" => x'.remote_enabled \in {x.remote_enabled, TRUE}
        /\ item.do = "enabled" => x'.remote_enabled = TRUE
        /\ item.do = "close" => x.sessions \notin x'.sockets
    BY <1>1, <1>9 DEF ResumeIs, Inner, Only, Fields
  <2>2. x'.stack = x.stack /\ x'.status = x.status
    BY <2>1 DEF Only, Fields
  <2>3. OpenFor(x, phase)' /\ EndedOrOpen(x)'
    <3>1. CASE item.do = "deinit"
      <4>1. \/ Ended(x'.commands, x.sessions) \/ x.sessions \notin x'.sockets
            \/ Pending(x'.todo, "close")
        BY <1>3, <1>5, <2>1, <3>1 DEF SInv, EndedOrOpen
      <4> QED
        BY <1>3, <1>4, <1>5, <1>7, <2>1, <2>2, <4>1, SKept
    <3>2. CASE item.do = "close"
      BY <1>4, <1>5, <1>7, <2>1, <2>2, <3>2, SKept
    <3>3. CASE item.do = "enabled"
      BY <1>3, <1>4, <1>5, <1>7, <2>1, <2>2, <3>3, SKept
    <3> QED
      BY <1>9, <3>1, <3>2, <3>3
  <2>4. phase = "over" => ~Running' /\ Closing(x'.todo)
    BY <1>4, <1>6, <2>1, <2>2 DEF Running
  <2> QED
    BY <1>4, <2>3, <2>4 DEF SInv
<1>10. CASE item.do = "detached"
  <2>1. PICK k : /\ Only(x, k, {"todo", "remote_enabled", "detached", "commands", "early"})
                 /\ k.todo = rest /\ x' = LeaveLoop(k)
    BY <1>1, <1>10 DEF ResumeIs, Inner
  <2>2. DOMAIN k = Fields /\ k.sockets = x.sockets /\ k.stack = x.stack
    BY <2>1 DEF Only, Fields
  <2>3. x'.sockets = x.sockets /\ x'.stack = x.stack
    BY <2>1, <2>2, LeaveKeeps
  <2>4. Ended(x'.commands, x.sessions)
    <3>1. DetachOK(item, x.commands, x.sessions)
      BY <1>2, DetachesPushed DEF MInv
    <3> QED
      BY <1>5, <1>10, <3>1, DetachEnded
  <2>5. OpenFor(x, phase)' /\ EndedOrOpen(x)'
    BY <1>4, <1>5, <2>3, <2>4, SKept
  <2>6. phase = "over" => ~Running' /\ Closing(x'.todo)
    <3>1. rest # <<>> /\ Head(rest).do = "loop"
      BY <1>1, <1>10, TodoHead DEF BInv
    <3>2. Pushed(rest, Head(rest), Tail(rest))
      BY <1>3, <3>1, HeadAndTail
    <3>3. phase = "over" => ~Head(rest).bail /\ Closing(Tail(rest))
      BY <1>6, <3>1, <3>2, ClosingPushed
    <3>4. Head(rest).bail \/ x'.todo = Tail(rest)
      BY <2>1, <2>2, LeaveLoopIs
    <3>5. phase = "over" => ~Running'
      BY <1>4, <1>6, <2>3 DEF Running
    <3> QED
      BY <3>3, <3>4, <3>5
  <2> QED
    BY <1>4, <2>5, <2>6 DEF SInv
<1> QED
  BY <1>1, <1>8, <1>9, <1>10 DEF ResumeIs

LEMMA SOther ==
    ASSUME BInv, MInv, SInv, HangUp \/ EndOfFile \/ Bailout
    PROVE  SInv'
<1>1. IsSeq(x.todo) /\ DOMAIN x = Fields
  BY DEF BInv, TodoOK
<1>2. x'.sessions = x.sessions /\ \A s : Ended(x.commands, s) => Ended(x'.commands, s)
  BY MOther, StillEnded DEF Continued
<1>3. x.status = "stopped" => Ended(x'.commands, x.sessions)
  BY <1>2 DEF SInv, EndedOrOpen
<1>4. CASE HangUp
  <2>1. /\ x'.todo = x.todo /\ x'.sockets = x.sockets /\ x'.status = x.status
        /\ x'.remote_enabled = x.remote_enabled /\ x'.stack = x.stack
        /\ phase' = phase /\ base' = base
    BY <1>1, <1>4 DEF HangUp, Fields
  <2>2. OpenFor(x, phase)' /\ EndedOrOpen(x)'
    BY <1>2, <1>3, <2>1, SKept
  <2> QED
    BY <2>1, <2>2 DEF SInv, Running
<1>5. CASE EndOfFile
  <2>1. /\ x' = Done(x) /\ x.todo # <<>> /\ Head(x.todo).do = "loop"
        /\ phase' = phase /\ base' = base
    BY <1>5 DEF EndOfFile, AtLoop
  <2>2. Goes(x, x', Tail(x.todo))
    BY <1>1, <2>1, GoesDone
  <2>3. /\ x'.todo = Tail(x.todo) /\ x'.sockets = x.sockets /\ x'.status = x.status
        /\ x'.remote_enabled = x.remote_enabled
    BY <2>2, GoesFields
  <2>4. x'.stack = x.stack
    BY <1>1, <2>1, DoneOnly DEF Only, Fields
  <2>5. Pushed(x.todo, Head(x.todo), Tail(x.todo))
    BY <1>1, <2>1, HeadAndTail
  <2>6. \A kind : kind # "loop" => (Pending(x.todo, kind) <=> Pending(x'.todo, kind))
    BY <2>1, <2>3, <2>5, PendingPushed
  <2>7. Closing(x.todo) => Closing(x'.todo)
    BY <2>3, <2>5, ClosingPushed
  <2>8. OpenFor(x, phase)' /\ EndedOrOpen(x)'
    BY <1>2, <1>3, <2>1, <2>3, <2>6, SKept
  <2> QED
    BY <2>1, <2>4, <2>7, <2>8 DEF SInv, Running
<1>6. CASE Bailout
  <2>1. /\ x' = [x EXCEPT !.todo = <<>>, !.step = NoStep] /\ phase' = "shutdown"
        /\ x.todo # <<>> /\ Head(x.todo).do = "bail"
    BY <1>6 DEF Bailout
  <2>2. /\ x'.todo = <<>> /\ x'.sockets = x.sockets /\ x'.status = x.status
        /\ x'.remote_enabled = x.remote_enabled
    BY <1>1, <2>1 DEF Fields
  <2>3. Pushed(x.todo, Head(x.todo), Tail(x.todo))
    BY <1>1, <2>1, HeadAndTail
  <2>4. Tail(x.todo) = <<>>
    BY <1>1, <2>1, TodoHead DEF BInv
  <2>5. \A kind : kind # "bail" => ~Pending(x.todo, kind)
    BY <2>1, <2>3, <2>4, PendingPushed, PendingNone, ZenonT(60)
  <2>6. \A kind : ~Pending(x'.todo, kind)
    BY <2>2, PendingNone
  <2>7. phase # "over"
    <3>1. Closing(x.todo) => Head(x.todo).do \in {"loop", "deinit", "close", "detached"}
      BY <2>3, ClosingPushed
    <3> QED
      BY <2>1, <3>1 DEF SInv
  <2> QED
    BY <1>2, <1>3, <2>1, <2>2, <2>5, <2>6, <2>7 DEF SInv, OpenFor, EndedOrOpen
<1> QED
  BY <1>4, <1>5, <1>6

LEMMA SInvNext == ASSUME BInv, CInv, MInv, SInv, [Next]_vars PROVE SInv'
<1>1. CASE UNCHANGED vars
  <2>1. Running' = Running
    BY <1>1 DEF Running, vars
  <2> QED
    BY <1>1, <2>1 DEF SInv, OpenFor, EndedOrOpen, vars
<1> QED
  BY <1>1, SAdvance, SEndRequest, SCommand, SResume, SOther DEF Next, Advance

\* In a request that is over, the session that is left open has ended or is about
\* to be closed, and nothing else is left to do than that.
THEOREM SessionsInvariance == Spec => []SInv
<1>1. Init => SInv
  BY SInvInit
<1>2. BInv /\ CInv /\ MInv /\ SInv /\ [Next]_vars => SInv'
  BY SInvNext
<1> QED
  BY <1>1, <1>2, BreakpointsInvariance, Detachment, Messages, PTL DEF Spec

\* Once the request is over and its end has run, the connections that are left
\* open are those of sessions in which the IDE sent detach or stop.
THEOREM Connections == Spec => []ConnectionsClosed
<1>1. MInv /\ SInv => ConnectionsClosed
  <2>1. ASSUME MInv, SInv, phase = "over", Going, NEW s \in x.sockets
        PROVE  \E t \in DOMAIN x.commands :
                  x.commands[t].name \in Ending /\ x.commands[t].session = s
    <3>1. Ended(x.commands, s)
      BY <2>1, PendingNone DEF SInv, OpenFor, Going
    <3>2. DOMAIN x.commands = 1..Len(x.commands)
      BY <2>1, CommandsLen DEF MInv
    <3> QED
      BY <3>1, <3>2 DEF Ended
  <2> QED
    BY <2>1 DEF ConnectionsClosed
<1> QED
  BY <1>1, Messages, SessionsInvariance, PTL

-----------------------------------------------------------------------------
(* What is left to do, in order *)

\* What comes right after what, innermost first: a loop of commands begins with
\* nothing before it or with a detach that was read in it, the end of a session
\* comes after a loop, and a detach after the end of the session.
Follows(a, b) ==
    /\ b.do = "loop" => a.do = "detached"
    /\ b.do = "deinit" => a.do = "loop"
    /\ b.do = "detached" => a.do = "deinit"

Linked(todo) == \A i, j \in 1..Len(todo) : j = i + 1 => Follows(todo[i], todo[j])

\* A session that is to end has something to free, or has freed it; and a loop
\* that reads commands at the end of a session goes on with that end.
OrderOK(g) ==
    /\ Linked(g.todo)
    /\ Pending(g.todo, "deinit") => g.remote_enabled \/ g.freed
    /\ HeadIs(g.todo, "detached") => g.freed \/ ~Pending(g.todo, "deinit")
    /\ HeadIs(g.todo, "loop") /\ g.status = "stopping" => HeadIs(Tail(g.todo), "deinit")

LInv == OrderOK(x)

LEMMA LinkedPushed ==
    ASSUME NEW all, NEW a, NEW rest, Pushed(all, a, rest)
    PROVE  Linked(all) <=> Linked(rest) /\ (rest = <<>> \/ Follows(a, Head(rest)))
<1>1. /\ IsSeq(all) /\ IsSeq(rest) /\ Len(all) >= 1 /\ Len(rest) = Len(all) - 1 /\ all[1] = a
      /\ \A i \in 1..(Len(all) - 1) : rest[i] = all[i + 1]
  BY TailIsSeq DEF Pushed
<1>2. Len(all) \in Nat /\ Len(rest) \in Nat
  BY <1>1, SeqDomain
<1>3. rest # <<>> => Len(rest) >= 1 /\ Head(rest) = rest[1]
  BY <1>1, TailIsSeq
<1>4. rest # <<>> => Head(rest) = all[2] /\ Len(all) >= 2
  BY <1>1, <1>2, <1>3
<1>5. rest = <<>> => Len(all) = 1
  BY <1>1, <1>2, EmptyIs
<1>6. ASSUME Linked(all)
      PROVE  Linked(rest) /\ (rest = <<>> \/ Follows(a, Head(rest)))
  <2>1. ASSUME NEW i \in 1..Len(rest), NEW j \in 1..Len(rest), j = i + 1
        PROVE  Follows(rest[i], rest[j])
    <3>1. /\ i + 1 \in 1..Len(all) /\ j + 1 \in 1..Len(all) /\ j + 1 = (i + 1) + 1
          /\ rest[i] = all[i + 1] /\ rest[j] = all[j + 1]
      BY <1>1, <1>2, <2>1
    <3> QED
      BY <1>6, <3>1 DEF Linked
  <2>2. rest # <<>> => Follows(a, Head(rest))
    BY <1>1, <1>2, <1>4, <1>6 DEF Linked
  <2> QED
    BY <2>1, <2>2 DEF Linked
<1>7. ASSUME Linked(rest), rest = <<>> \/ Follows(a, Head(rest))
      PROVE  Linked(all)
  <2>1. ASSUME NEW i \in 1..Len(all), NEW j \in 1..Len(all), j = i + 1
        PROVE  Follows(all[i], all[j])
    <3>1. CASE i = 1
      <4>1. j = 2
        BY <2>1, <3>1
      <4>2. 2 \in 1..Len(all)
        BY <4>1
      <4> DEFINE n == Len(all)
      <4>3. n \in Nat /\ 2 \in 1..n
        BY <1>2, <4>2
      <4> HIDE DEF n
      <4>4. n # 1
        BY <4>3
      <4>5. Len(all) # 1
        BY <4>4 DEF n
      <4> QED
        BY <1>1, <1>4, <1>5, <1>7, <3>1, <4>1, <4>5
    <3>2. CASE i # 1
      <4> DEFINE k == i - 1
                 l == j - 1
      <4>1. /\ k \in 1..(Len(all) - 1) /\ l \in 1..(Len(all) - 1)
            /\ k + 1 = i /\ l + 1 = j /\ l = k + 1
        BY <1>2, <2>1, <3>2
      <4> HIDE DEF k, l
      <4>2. k \in 1..Len(rest) /\ l \in 1..Len(rest)
        BY <1>1, <4>1
      <4>3. rest[k] = all[k + 1] /\ rest[l] = all[l + 1]
        BY <1>1, <4>1
      <4>4. Follows(rest[k], rest[l])
        BY <1>7, <4>1, <4>2 DEF Linked
      <4> QED
        BY <4>1, <4>3, <4>4
    <3> QED
      BY <3>1, <3>2
  <2> QED
    BY <2>1 DEF Linked
<1> QED
  BY <1>6, <1>7

\* What comes after the first.
LEMMA LinkedRest ==
    ASSUME NEW all, NEW a, NEW rest, Pushed(all, a, rest), Linked(all)
    PROVE  /\ Linked(rest)
           /\ a.do # "detached" => ~HeadIs(rest, "loop")
           /\ a.do # "loop" => ~HeadIs(rest, "deinit")
           /\ a.do # "deinit" => ~HeadIs(rest, "detached")
BY LinkedPushed DEF Follows, HeadIs

LEMMA LinkedNone ==
    Linked(<<>>) /\ Linked(<<[do |-> "bail"]>>)
<1> DEFINE b == [do |-> "bail"]
           p == <<b>>
<1>1. Len(<<>>) = 0 /\ Len(p) = 1
  OBVIOUS
<1> HIDE DEF p
<1> QED
  BY <1>1 DEF Linked, p

LEMMA LinkedPlain ==
    ASSUME NEW items, Plain(items)
    PROVE  /\ Linked(items)
           /\ ~HeadIs(items, "loop") /\ ~HeadIs(items, "deinit") /\ ~HeadIs(items, "detached")
<1>1. items # <<>> => Len(items) >= 1 /\ Head(items) = items[1] /\ Len(items) \in Nat
  BY TailIsSeq, SeqDomain DEF Plain
<1> QED
  BY <1>1 DEF Plain, Linked, Follows, HeadIs

\* The first of what is left to do is done, and was no detach.
LEMMA OrderRest ==
    ASSUME NEW g, OrderOK(g), NEW a, NEW rest, Pushed(g.todo, a, rest), a.do # "detached",
           NEW h, h.todo = rest,
           Pending(rest, "deinit") => h.remote_enabled \/ h.freed,
           a.do = "deinit" => h.freed
    PROVE  OrderOK(h) /\ ~HeadIs(rest, "loop")
<1>1. /\ Linked(rest) /\ ~HeadIs(rest, "loop")
      /\ a.do # "deinit" => ~HeadIs(rest, "detached")
  BY LinkedRest DEF OrderOK
<1> QED
  BY <1>1 DEF OrderOK

\* A break.
LEMMA OrderBreak ==
    ASSUME NEW g, DOMAIN g = Fields, OrderOK(g), IsSeq(g.todo),
           ~HeadIs(g.todo, "loop"), ~HeadIs(g.todo, "deinit"), ~HeadIs(g.todo, "detached")
    PROVE  OrderOK(Break(g))
<1> DEFINE h == Break(g)
           l == Loop(TRUE)
           all == <<l>> \o g.todo
<1>1. /\ h.todo = all /\ h.status = "break"
      /\ h.remote_enabled = g.remote_enabled /\ h.freed = g.freed
  BY BreakOnly, BreakKeeps
<1>2. l.do = "loop"
  BY DEF Loop
<1> HIDE DEF h, l
<1>3. Pushed(all, l, g.todo)
  BY PushIs
<1> HIDE DEF all
<1>4. Linked(all)
  BY <1>3, LinkedPushed DEF OrderOK, Follows, HeadIs
<1>5. (Pending(all, "deinit") <=> Pending(g.todo, "deinit")) /\ ~HeadIs(all, "detached")
  BY <1>2, <1>3, PendingPushed
<1>6. OrderOK(h)
  BY <1>1, <1>4, <1>5 DEF OrderOK
<1> QED
  BY <1>6 DEF h

\* The end of a session.
LEMMA OrderDeinit ==
    ASSUME NEW g, DOMAIN g = Fields, g.remote_enabled, Linked(g.todo), IsSeq(g.todo),
           ~HeadIs(g.todo, "loop"), ~HeadIs(g.todo, "deinit")
    PROVE  OrderOK(Deinit(g)) /\ HeadIs(Deinit(g).todo, "loop")
<1> DEFINE h == Deinit(g)
           l == Loop(FALSE)
           d == [do |-> "deinit"]
           rest == <<d>> \o g.todo
           all == <<l, d>> \o g.todo
<1>1. h.todo = all /\ h.remote_enabled = g.remote_enabled
  BY DeinitOnly, DeinitKeeps
<1>2. l.do = "loop" /\ d.do = "deinit"
  BY DEF Loop
<1> HIDE DEF h, l, d
<1>3. Pushed(all, l, rest) /\ Pushed(rest, d, g.todo)
  BY PushTwo
<1> HIDE DEF all, rest
<1>4. Linked(rest)
  BY <1>2, <1>3, LinkedPushed DEF Follows, HeadIs
<1>5. rest # <<>> /\ Head(rest) = d
  BY <1>3 DEF Pushed
<1>6. Linked(all)
  BY <1>2, <1>3, <1>4, <1>5, LinkedPushed DEF Follows
<1>7. HeadIs(all, "loop") /\ ~HeadIs(all, "detached") /\ Tail(all) = rest /\ HeadIs(rest, "deinit")
  BY <1>2, <1>3, PendingPushed DEF Pushed
<1>8. OrderOK(h)
  BY <1>1, <1>6, <1>7 DEF OrderOK
<1> QED
  BY <1>1, <1>7, <1>8 DEF h

LEMMA LInvInit == ASSUME Init PROVE LInv
<1>1. PICK app \in Apps : x = Globals(app)
  BY DEF Init
<1>2. x.todo = <<>>
  BY <1>1 DEF Globals
<1> QED
  BY <1>2, PendingNone, LinkedNone DEF LInv, OrderOK

\* The script goes on.
LEMMA OrderPlain ==
    ASSUME NEW g, Plain(g.todo)
    PROVE  OrderOK(g)
<1>1. ~Pending(g.todo, "deinit")
  BY PendingPlain DEF Inner
<1> QED
  BY <1>1, LinkedPlain DEF OrderOK

LEMMA LAdvance ==
    ASSUME BInv, LInv, Advance
    PROVE  LInv'
<1>1. PICK items, k : /\ Plain(items) /\ Goes(x, k, items) /\ IsSeq(items)
                      /\ \/ x' = k
                         \/ x.remote_enabled /\ x' = Break(k)
                         \/ ~x.remote_enabled /\ x' = DbgpInit(k)
  BY AdvanceIs
<1>2. DOMAIN k = Fields /\ k.todo = items
  BY <1>1, GoesFields
<1>3. OrderOK(k) /\ ~HeadIs(items, "loop") /\ ~HeadIs(items, "deinit") /\ ~HeadIs(items, "detached")
  BY <1>1, <1>2, OrderPlain, LinkedPlain
<1>4. OrderOK(Break(k))
  BY <1>1, <1>2, <1>3, OrderBreak
<1>5. OrderOK(DbgpInit(k))
  <2> DEFINE h == DbgpInit(k)
             l == Loop(TRUE)
             e == [do |-> "enabled"]
             rest == <<e>> \o items
             all == <<l, e>> \o items
  <2>1. h.todo = all /\ h.status = "starting"
    BY <1>2, DbgpInitOnly
  <2>2. l.do = "loop" /\ e.do = "enabled"
    BY DEF Loop
  <2> HIDE DEF h, l, e
  <2>3. Pushed(all, l, rest) /\ Pushed(rest, e, items)
    BY <1>1, PushTwo
  <2> HIDE DEF all, rest
  <2>4. Linked(rest)
    BY <1>2, <1>3, <2>3, LinkedPushed DEF Follows, HeadIs, OrderOK
  <2>5. rest # <<>> /\ Head(rest) = e
    BY <2>3 DEF Pushed
  <2>6. Linked(all)
    BY <2>2, <2>3, <2>4, <2>5, LinkedPushed DEF Follows
  <2>7. ~Pending(items, "deinit")
    BY <1>1, PendingPlain DEF Inner
  <2>8. ~Pending(rest, "deinit")
    BY <2>2, <2>3, <2>7, PendingPushed
  <2>9. ~Pending(all, "deinit") /\ ~HeadIs(all, "detached")
    BY <2>2, <2>3, <2>8, PendingPushed
  <2>10. OrderOK(h)
    BY <2>1, <2>6, <2>9 DEF OrderOK
  <2> QED
    BY <2>10 DEF h
<1> QED
  BY <1>1, <1>3, <1>4, <1>5 DEF LInv

LEMMA LEndRequest ==
    ASSUME BInv, LInv, EndRequest
    PROVE  LInv' /\ (x' # x => HeadIs(x'.todo, "loop"))
<1> DEFINE e == [do |-> "close"]
           s == <<e>>
           c == Begin(x, s)
<1>1. /\ x.todo = <<>> /\ DOMAIN x = Fields
      /\ \/ ~x.remote_enabled /\ x' = x
         \/ x.remote_enabled /\ x' = Deinit(c) /\ c.remote_enabled
  BY EndRequestIs
<1>2. e.do = "close"
  OBVIOUS
<1> HIDE DEF e
<1>3. Pushed(s \o x.todo, e, x.todo)
  BY <1>1, EmptyIs, PushIs
<1> HIDE DEF s
<1>4. DOMAIN c = Fields /\ c.todo = s \o x.todo
  BY <1>1, BeginKeeps
<1> HIDE DEF c
<1>5. Linked(c.todo)
  BY <1>1, <1>3, <1>4, LinkedNone, LinkedPushed
<1>6. IsSeq(c.todo) /\ ~HeadIs(c.todo, "loop") /\ ~HeadIs(c.todo, "deinit")
  BY <1>2, <1>3, <1>4 DEF Pushed, HeadIs
<1>7. c.remote_enabled => OrderOK(Deinit(c)) /\ HeadIs(Deinit(c).todo, "loop")
  BY <1>4, <1>5, <1>6, OrderDeinit
<1> QED
  BY <1>1, <1>7 DEF LInv

\* A loop of commands is left.
LEMMA OrderLeave ==
    ASSUME NEW g, DOMAIN g = Fields, OrderOK(g), IsSeq(g.todo), HeadIs(g.todo, "loop")
    PROVE  OrderOK(LeaveLoop(g)) /\ ~HeadIs(LeaveLoop(g).todo, "loop")
<1> DEFINE h == LeaveLoop(g)
           rest == Tail(g.todo)
           a == Head(g.todo)
<1>1. h.remote_enabled = g.remote_enabled /\ h.freed = g.freed
  BY LeaveKeeps
<1>2. h.todo = <<[do |-> "bail"]>> \/ h.todo = rest
  BY LeaveLoopIs
<1>3. Pushed(g.todo, a, rest) /\ a.do = "loop"
  BY HeadAndTail DEF HeadIs
<1> HIDE DEF h, rest, a
<1>4. CASE h.todo = rest
  <2>1. Pending(rest, "deinit") => h.remote_enabled \/ h.freed
    BY <1>1, <1>3, PendingPushed DEF OrderOK
  <2>2. OrderOK(h) /\ ~HeadIs(rest, "loop")
    BY <1>3, <1>4, <2>1, OrderRest
  <2> QED
    BY <1>4, <2>2 DEF h
<1>5. CASE h.todo = <<[do |-> "bail"]>>
  <2>1. \A kind : kind # "bail" => ~Pending(h.todo, kind) /\ ~HeadIs(h.todo, kind)
    BY <1>5, PendingNone DEF HeadIs
  <2>2. OrderOK(h)
    BY <1>5, <2>1, LinkedNone DEF OrderOK
  <2> QED
    BY <2>1, <2>2 DEF h
<1> QED
  BY <1>2, <1>4, <1>5

\* What a command is read into goes on as the loop was to.
LEMMA OrderRead ==
    ASSUME LInv, NEW g, NEW name, NEW t, Read(g, name, t), NEW m, Only(g, m, Asked),
           Parsed(g, name, t, m, x')
    PROVE  /\ OrderOK(m) /\ OrderOK(Respond(m, t))
           /\ m.todo = x.todo /\ Respond(m, t).todo = x.todo
           /\ DOMAIN m = Fields /\ DOMAIN Respond(m, t) = Fields
<1>1. /\ DOMAIN m = Fields /\ m.todo = x.todo /\ g.status = x.status
      /\ m.remote_enabled = x.remote_enabled /\ m.freed = x.freed
  BY ReadKeeps
<1>2. m.status = "stopping" => x.status = "stopping"
  BY <1>1 DEF Parsed
<1>3. OrderOK(m)
  BY <1>1, <1>2 DEF LInv, OrderOK
<1> DEFINE r == Respond(m, t)
<1>4. /\ DOMAIN r = Fields /\ r.todo = m.todo /\ r.status = m.status
      /\ r.remote_enabled = m.remote_enabled /\ r.freed = m.freed
  BY <1>1, RespondKeeps
<1> HIDE DEF r
<1>5. OrderOK(r)
  BY <1>3, <1>4 DEF OrderOK
<1> QED
  BY <1>1, <1>3, <1>4, <1>5 DEF r

LEMMA LDetach ==
    ASSUME LInv, NEW m, DOMAIN m = Fields, OrderOK(m), IsSeq(m.todo), HeadIs(m.todo, "loop"),
           NEW t
    PROVE  OrderOK(Deinit(Begin(m, <<[do |-> "detached", id |-> t]>>)))
<1> DEFINE a == [do |-> "detached", id |-> t]
           s == <<a>>
           b == Begin(m, s)
<1>1. a.do = "detached"
  OBVIOUS
<1> HIDE DEF a
<1>2. Pushed(s \o m.todo, a, m.todo)
  BY PushIs
<1> HIDE DEF s
<1>3. /\ DOMAIN b = Fields /\ b.todo = s \o m.todo
      /\ b.remote_enabled = m.remote_enabled /\ b.freed = m.freed
  BY BeginKeeps
<1> HIDE DEF b
<1>4. Linked(b.todo)
  <2>1. Follows(a, Head(m.todo))
    BY <1>1 DEF Follows, HeadIs
  <2> QED
    BY <1>2, <1>3, <2>1, LinkedPushed DEF OrderOK
<1>5. IsSeq(b.todo) /\ ~HeadIs(b.todo, "loop") /\ ~HeadIs(b.todo, "deinit")
  BY <1>1, <1>2, <1>3 DEF Pushed, HeadIs
<1>6. CASE b.remote_enabled
  <2>1. OrderOK(Deinit(b))
    BY <1>3, <1>4, <1>5, <1>6, OrderDeinit
  <2> QED
    BY <2>1 DEF a, s, b
<1>7. CASE ~b.remote_enabled
  <2>1. Deinit(b) = b
    BY <1>3, <1>7, DeinitOnly
  <2>2. Pending(b.todo, "deinit") => b.freed
    <3>1. Pending(b.todo, "deinit") => Pending(m.todo, "deinit")
      BY <1>1, <1>2, <1>3, PendingPushed
    <3> QED
      BY <1>3, <1>7, <3>1 DEF OrderOK
  <2>3. OrderOK(b)
    BY <1>4, <1>5, <2>2 DEF OrderOK
  <2> QED
    BY <2>1, <2>3 DEF a, s, b
<1> QED
  BY <1>6, <1>7

LEMMA LCommand ==
    ASSUME BInv, LInv, Command
    PROVE  LInv'
<1>1. PICK name, t, g, m : Read(g, name, t) /\ Only(g, m, Asked) /\ Parsed(g, name, t, m, x')
  BY CommandRead DEF CommandIs
<1>2. /\ OrderOK(m) /\ OrderOK(Respond(m, t))
      /\ m.todo = x.todo /\ Respond(m, t).todo = x.todo
      /\ DOMAIN m = Fields /\ DOMAIN Respond(m, t) = Fields
  BY <1>1, OrderRead
<1>3. HeadIs(x.todo, "loop") /\ IsSeq(x.todo)
  BY DEF BInv, Command, AtLoop, HeadIs, TodoOK
<1>4. /\ OrderOK(LeaveLoop(m)) /\ OrderOK(LeaveLoop(Respond(m, t)))
      /\ OrderOK(Deinit(Begin(m, <<[do |-> "detached", id |-> t]>>)))
  BY <1>2, <1>3, OrderLeave, LDetach
<1>5. \/ x' = LeaveLoop(m) \/ x' = LeaveLoop(Respond(m, t)) \/ x' = Respond(m, t)
      \/ x' = Deinit(Begin(m, <<[do |-> "detached", id |-> t]>>))
  BY <1>1 DEF Parsed
<1> QED
  BY <1>2, <1>4, <1>5 DEF LInv

\* Where the session goes on with what is left to do, only a hook may wait for the
\* IDE, and after the end of the session all is freed.
LEMMA LResume ==
    ASSUME BInv, LInv, Resume
    PROVE  /\ LInv'
           /\ HeadIs(x'.todo, "loop") => Head(x.todo).do \in Inner
           /\ Head(x.todo).do = "deinit" => x'.freed
<1> DEFINE item == Head(x.todo)
           rest == Tail(x.todo)
<1>1. ResumeIs /\ x.todo # <<>> /\ IsSeq(x.todo) /\ DOMAIN x = Fields /\ item.do # "loop"
  BY ResumedIs DEF BInv, Resume, TodoOK
<1>2. Pushed(x.todo, item, rest) /\ IsSeq(rest)
  BY <1>1, HeadAndTail DEF Pushed
<1>3. \A kind : Pending(x.todo, kind) <=> item.do = kind \/ Pending(rest, kind)
  BY <1>2, PendingPushed
<1>4. Pending(x.todo, "deinit") => x.remote_enabled \/ x.freed
  BY DEF LInv, OrderOK
<1>5. CASE item.do \in Inner
  <2>1. PICK k : Goes(x, k, rest) /\ (x' = k \/ x' = Break(k))
    BY <1>1, <1>5 DEF ResumeIs, Inner
  <2>2. /\ DOMAIN k = Fields /\ k.todo = rest /\ k.remote_enabled = x.remote_enabled
        /\ k.freed = x.freed
    BY <2>1, GoesFields
  <2>3. item.do # "detached" /\ item.do # "loop" /\ item.do # "deinit"
    BY <1>5 DEF Inner
  <2>4. /\ ~HeadIs(rest, "loop") /\ ~HeadIs(rest, "deinit") /\ ~HeadIs(rest, "detached")
    BY <1>2, <2>3, LinkedRest DEF LInv, OrderOK
  <2>5. OrderOK(k)
    BY <1>2, <1>3, <1>4, <2>2, <2>3, OrderRest DEF LInv
  <2>6. OrderOK(Break(k))
    BY <1>2, <2>2, <2>4, <2>5, OrderBreak
  <2> QED
    BY <1>5, <2>1, <2>3, <2>5, <2>6 DEF LInv
<1>6. CASE item.do \in {"enabled", "deinit", "close"}
  <2>1. /\ Only(x, x', {"todo", "remote_enabled", "freed", "sockets", "connected"})
        /\ x'.todo = rest
        /\ item.do = "deinit" => x'.freed = (x.freed \/ x.remote_enabled)
        /\ item.do # "deinit" => /\ x'.freed = x.freed
                                 /\ x'.remote_enabled \in {x.remote_enabled, TRUE}
    BY <1>1, <1>6 DEF ResumeIs, Inner, Only, Fields
  <2>2. item.do = "deinit" => x'.freed
    BY <1>3, <1>4, <2>1
  <2>3. Pending(rest, "deinit") => x'.remote_enabled \/ x'.freed
    BY <1>3, <1>4, <2>1, <2>2
  <2>4. OrderOK(x') /\ ~HeadIs(rest, "loop")
    BY <1>2, <1>6, <2>1, <2>2, <2>3, OrderRest DEF LInv
  <2> QED
    BY <2>1, <2>2, <2>4 DEF LInv, OrderOK
<1>7. CASE item.do = "detached"
  <2>1. PICK k : /\ Only(x, k, {"todo", "remote_enabled", "detached", "commands", "early"})
                 /\ k.todo = rest /\ x' = LeaveLoop(k)
    BY <1>1, <1>7 DEF ResumeIs, Inner
  <2>2. DOMAIN k = Fields /\ k.freed = x.freed
    BY <2>1 DEF Only, Fields
  <2>3. x'.freed = k.freed
    BY <2>1, <2>2, LeaveKeeps
  <2>4. HeadIs(rest, "loop")
    BY <1>1, <1>7, TodoHead DEF BInv, HeadIs
  <2> DEFINE l == Head(rest)
             next == Tail(rest)
  <2>5. Pushed(rest, l, next) /\ l.do = "loop"
    BY <1>2, <2>4, HeadAndTail DEF HeadIs
  <2>6. Pending(next, "deinit") => x.freed
    <3>1. Pending(next, "deinit") => Pending(x.todo, "deinit")
      BY <1>3, <2>5, PendingPushed
    <3>2. HeadIs(x.todo, "detached")
      BY <1>1, <1>7 DEF HeadIs
    <3> QED
      BY <3>1, <3>2 DEF LInv, OrderOK
  <2>7. Linked(next) /\ ~HeadIs(next, "loop") /\ ~HeadIs(next, "detached")
    <3>1. Linked(rest)
      BY <1>2, LinkedRest DEF LInv, OrderOK
    <3> QED
      BY <2>5, <3>1, LinkedRest
  <2>8. x'.todo = <<[do |-> "bail"]>> \/ x'.todo = next
    BY <2>1, <2>2, LeaveLoopIs
  <2> HIDE DEF l, next
  <2>9. CASE x'.todo = next
    BY <1>7, <2>2, <2>3, <2>6, <2>7, <2>9 DEF LInv, OrderOK
  <2>10. CASE x'.todo = <<[do |-> "bail"]>>
    <3>1. \A kind : kind # "bail" => ~Pending(x'.todo, kind) /\ ~HeadIs(x'.todo, kind)
      BY <2>10, PendingNone DEF HeadIs
    <3> QED
      BY <1>7, <2>10, <3>1, LinkedNone DEF LInv, OrderOK
  <2> QED
    BY <2>8, <2>9, <2>10
<1> QED
  BY <1>1, <1>5, <1>6, <1>7 DEF ResumeIs

LEMMA LOther ==
    ASSUME BInv, LInv, HangUp \/ EndOfFile \/ Bailout
    PROVE  LInv'
<1>1. IsSeq(x.todo) /\ DOMAIN x = Fields
  BY DEF BInv, TodoOK
<1>2. CASE HangUp
  <2>1. /\ x'.todo = x.todo /\ x'.status = x.status
        /\ x'.remote_enabled = x.remote_enabled /\ x'.freed = x.freed
    BY <1>1, <1>2 DEF HangUp, Fields
  <2> QED
    BY <2>1 DEF LInv, OrderOK
<1>3. CASE EndOfFile
  <2>1. /\ x' = Done(x) /\ x.todo # <<>> /\ Head(x.todo).do = "loop"
    BY <1>3 DEF EndOfFile, AtLoop
  <2>2. Goes(x, x', Tail(x.todo))
    BY <1>1, <2>1, GoesDone
  <2>3. /\ x'.todo = Tail(x.todo) /\ x'.remote_enabled = x.remote_enabled
        /\ x'.freed = x.freed
    BY <2>2, GoesFields
  <2>4. Pushed(x.todo, Head(x.todo), Tail(x.todo))
    BY <1>1, <2>1, HeadAndTail
  <2>5. Pending(Tail(x.todo), "deinit") => x'.remote_enabled \/ x'.freed
    BY <2>3, <2>4, PendingPushed DEF LInv, OrderOK
  <2>6. OrderOK(x')
    BY <2>1, <2>3, <2>4, <2>5, OrderRest DEF LInv
  <2> QED
    BY <2>6 DEF LInv, OrderOK
<1>4. CASE Bailout
  <2>1. x'.todo = <<>>
    BY <1>1, <1>4 DEF Bailout, Fields
  <2> QED
    BY <2>1, PendingNone, LinkedNone DEF LInv, OrderOK
<1> QED
  BY <1>2, <1>3, <1>4

LEMMA LInvNext == ASSUME BInv, LInv, [Next]_vars PROVE LInv'
<1>1. CASE UNCHANGED vars
  BY <1>1 DEF LInv, OrderOK, vars
<1> QED
  BY <1>1, LAdvance, LEndRequest, LCommand, LResume, LOther DEF Next, Advance

\* The hooks, loops and ends of sessions in progress are in the order in which one
\* begins another.
THEOREM Ordering == Spec => []LInv
<1>1. Init => LInv
  BY LInvInit
<1>2. BInv /\ LInv /\ [Next]_vars => LInv'
  BY LInvNext
<1> QED
  BY <1>1, <1>2, BreakpointsInvariance, PTL DEF Spec

-----------------------------------------------------------------------------
(* The answers *)

\* What may be answered more than once.
Excused(commands, t) ==
    \/ commands[t].name \in Ending
    \/ \E u \in 1..Len(commands) : u > t /\ commands[u].name \in Unknown

\* All commands of the session n have their answers.
AllAnswered(commands, n) ==
    \A t \in 1..Len(commands) : commands[t].session = n =>
        /\ commands[t].answers # 0
        /\ commands[t].answers > 1 => Excused(commands, t)

\* All but the last, which a break or the end of the session will answer.
AllButLast(commands, n, last) ==
    \A t \in 1..Len(commands) : commands[t].session = n =>
        /\ commands[t].answers = 0 => t = last
        /\ commands[t].answers > 1 => Excused(commands, t)

LastOpen(commands, last) ==
    last # 0 => commands[last].answers = 0 \/ Excused(commands, last)

\* An IDE that may send a command has the answers to all it has sent; otherwise at
\* most the last is open, and will not be answered twice.
AnswersOK(g) ==
    /\ HeadIs(g.todo, "loop") => AllAnswered(g.commands, g.sessions)
    /\ AllButLast(g.commands, g.sessions, g.lasttransid)
    /\ \/ HeadIs(g.todo, "loop") \/ HeadIs(g.todo, "deinit")
       \/ LastOpen(g.commands, g.lasttransid)

DInv == x.connected /\ ~x.freed => AnswersOK(x)

LEMMA ExcusedExtended ==
    ASSUME NEW c, NEW d, NEW n, CommandsOK(c, n), CommandsOK(d, n), Extends(c, d),
           NEW t \in 1..Len(c), Excused(c, t)
    PROVE  Excused(d, t)
<1>1. Len(c) \in Nat /\ Len(d) \in Nat
  BY CommandsLen
<1> QED
  BY <1>1 DEF Excused, Extends

\* The last is answered.
LEMMA LastAnswered ==
    ASSUME NEW c, NEW n, CommandsOK(c, n), NEW last \in 0..Len(c), NEW s,
           AllButLast(c, s, last), LastOpen(c, last)
    PROVE  AllAnswered(Answer(c, last, TRUE), s)
<1> DEFINE d == Answer(c, last, TRUE)
<1>1. /\ CommandsOK(d, n) /\ Len(d) = Len(c) /\ Extends(c, d)
      /\ \A u \in 1..Len(c) : u # last => d[u] = c[u]
      /\ last # 0 => d[last].answers = c[last].answers + 1
  BY AnswerIs
<1>2. Len(c) \in Nat
  BY CommandsLen
<1> HIDE DEF d
<1>3. ASSUME NEW t \in 1..Len(c), d[t].session = s
      PROVE  d[t].answers # 0 /\ (d[t].answers > 1 => Excused(d, t))
  <2>1. c[t].session = s /\ c[t].answers \in Nat
    BY <1>1, <1>3 DEF Extends, CommandsOK, CommandOK
  <2>2. Excused(c, t) => Excused(d, t)
    BY <1>1, ExcusedExtended
  <2>3. CASE t = last
    <3>1. last # 0
      BY <1>2, <2>3
    <3>2. d[t].answers = c[t].answers + 1
      BY <1>1, <2>3, <3>1
    <3>3. c[t].answers = 0 \/ Excused(c, t)
      BY <2>3, <3>1 DEF LastOpen
    <3> QED
      BY <2>1, <2>2, <3>2, <3>3
  <2>4. CASE t # last
    BY <1>1, <2>1, <2>2, <2>4 DEF AllButLast
  <2> QED
    BY <2>3, <2>4
<1>4. AllAnswered(d, s)
  BY <1>1, <1>3 DEF AllAnswered
<1> QED
  BY <1>4 DEF d

LEMMA AllAreButLast ==
    ASSUME NEW c, NEW n, AllAnswered(c, n), NEW last
    PROVE  AllButLast(c, n, last)
BY DEF AllAnswered, AllButLast

\* A command that ends the session is answered, by the rest of detach.
LEMMA DetachAnswered ==
    ASSUME NEW c, NEW n, CommandsOK(c, n), NEW id \in 1..Len(c), c[id].name \in Ending,
           NEW connected \in BOOLEAN, NEW s, NEW last \in 0..Len(c),
           AllButLast(c, s, last), LastOpen(c, last)
    PROVE  /\ AllButLast(Answer(c, id, connected), s, last)
           /\ LastOpen(Answer(c, id, connected), last)
<1> DEFINE d == Answer(c, id, connected)
<1>1. Len(c) \in Nat
  BY CommandsLen
<1>2. id \in 0..Len(c)
  BY <1>1
<1>3. /\ CommandsOK(d, n) /\ Len(d) = Len(c) /\ Extends(c, d)
      /\ \A u \in 1..Len(c) : u # id => d[u] = c[u]
      /\ d[id].answers \in {c[id].answers, c[id].answers + 1}
  BY <1>1, <1>2, AnswerIs
<1> HIDE DEF d
<1>4. c[id].answers \in Nat
  BY DEF CommandsOK, CommandOK
<1>5. \A t \in 1..Len(c) : Excused(c, t) => Excused(d, t)
  BY <1>3, ExcusedExtended
<1>6. Excused(d, id)
  BY <1>3 DEF Excused, Extends
<1>7. ASSUME NEW t \in 1..Len(c), d[t].session = s
      PROVE  (d[t].answers = 0 => t = last) /\ (d[t].answers > 1 => Excused(d, t))
  <2>1. c[t].session = s
    BY <1>3, <1>7 DEF Extends
  <2>2. CASE t = id
    BY <1>3, <1>4, <1>6, <2>1, <2>2 DEF AllButLast
  <2>3. CASE t # id
    BY <1>3, <1>5, <2>1, <2>3 DEF AllButLast
  <2> QED
    BY <2>2, <2>3
<1>8. LastOpen(d, last)
  <2>1. CASE last = id
    BY <1>6, <2>1 DEF LastOpen
  <2>2. CASE last # id /\ last # 0
    <3>1. last \in 1..Len(c)
      BY <1>1, <2>2
    <3> QED
      BY <1>3, <1>5, <2>2, <3>1 DEF LastOpen
  <2> QED
    BY <2>1, <2>2 DEF LastOpen
<1>9. AllButLast(d, s, last)
  BY <1>3, <1>7 DEF AllButLast
<1> QED
  BY <1>8, <1>9 DEF d

LEMMA AnswerThere ==
    ASSUME NEW c, NEW t, NEW connected, connected
    PROVE  Answer(c, t, connected) = Answer(c, t, TRUE)
BY DEF Answer

\* A break, and the end of a session, answer the last command.
LEMMA AnswersStop ==
    ASSUME NEW g, DOMAIN g = Fields, NEW n, CommandsOK(g.commands, n), g.connected,
           g.lasttransid \in 0..Len(g.commands), AnswersOK(g),
           ~HeadIs(g.todo, "loop"), ~HeadIs(g.todo, "deinit")
    PROVE  AllAnswered(Respond(g, g.lasttransid).commands, g.sessions)
<1> DEFINE last == g.lasttransid
           c == g.commands
<1>1. Respond(g, last).commands = Answer(c, last, TRUE)
  BY RespondIs, AnswerThere
<1>2. AllButLast(c, g.sessions, last) /\ LastOpen(c, last) /\ last \in 0..Len(c)
  BY DEF AnswersOK
<1> HIDE DEF last, c
<1>3. CommandsOK(c, n)
  BY DEF c
<1>4. AllAnswered(Answer(c, last, TRUE), g.sessions)
  BY <1>2, <1>3, LastAnswered
<1> QED
  BY <1>1, <1>4 DEF last

LEMMA AnswersBreak ==
    ASSUME NEW g, DOMAIN g = Fields, NEW n, CommandsOK(g.commands, n), g.connected,
           g.lasttransid \in 0..Len(g.commands), AnswersOK(g),
           ~HeadIs(g.todo, "loop"), ~HeadIs(g.todo, "deinit")
    PROVE  AnswersOK(Break(g))
<1> DEFINE h == Break(g)
<1>1. /\ h.commands = Respond(g, g.lasttransid).commands /\ h.lasttransid = 0
      /\ h.sessions = g.sessions
  BY BreakOnly, BreakKeeps
<1>2. AllAnswered(h.commands, h.sessions)
  BY <1>1, AnswersStop
<1> HIDE DEF h
<1>3. AnswersOK(h)
  BY <1>1, <1>2, AllAreButLast DEF AnswersOK, LastOpen
<1> QED
  BY <1>3 DEF h

LEMMA AnswersDeinit ==
    ASSUME NEW g, DOMAIN g = Fields, NEW n, CommandsOK(g.commands, n), g.connected,
           g.lasttransid \in 0..Len(g.commands), AnswersOK(g), IsSeq(g.todo),
           ~HeadIs(g.todo, "loop"), ~HeadIs(g.todo, "deinit")
    PROVE  AnswersOK(Deinit(g))
<1>1. CASE ~g.remote_enabled
  BY <1>1, DeinitOnly
<1>2. CASE g.remote_enabled
  <2> DEFINE h == Deinit(g)
             l == Loop(FALSE)
             d == [do |-> "deinit"]
             rest == <<d>> \o g.todo
             all == <<l, d>> \o g.todo
  <2>1. /\ h.commands = Respond(g, g.lasttransid).commands /\ h.todo = all
        /\ h.sessions = g.sessions
    BY <1>2, DeinitOnly, DeinitKeeps
  <2>2. AllAnswered(h.commands, h.sessions)
    BY <2>1, AnswersStop
  <2>3. l.do = "loop"
    BY DEF Loop
  <2> HIDE DEF h, l, d
  <2>4. Pushed(all, l, rest)
    BY PushTwo
  <2> HIDE DEF all, rest
  <2>5. HeadIs(h.todo, "loop")
    BY <2>1, <2>3, <2>4, PendingPushed
  <2>6. AnswersOK(h)
    BY <2>2, <2>5, AllAreButLast DEF AnswersOK
  <2> QED
    BY <2>6 DEF h
<1> QED
  BY <1>1, <1>2

LEMMA DInvInit == ASSUME Init PROVE DInv
<1>1. PICK app \in Apps : x = Globals(app)
  BY DEF Init
<1>2. x.connected = FALSE
  BY <1>1 DEF Globals
<1> QED
  BY <1>2 DEF DInv

LEMMA DAdvance ==
    ASSUME BInv, MInv, LInv, DInv, Advance
    PROVE  DInv'
<1>1. PICK items, k : /\ Plain(items) /\ Goes(x, k, items) /\ IsSeq(items)
                      /\ \/ x' = k
                         \/ x.remote_enabled /\ x' = Break(k)
                         \/ ~x.remote_enabled /\ x' = DbgpInit(k)
  BY AdvanceIs
<1>2. /\ DOMAIN k = Fields /\ k.todo = items /\ k.commands = x.commands
      /\ k.sessions = x.sessions /\ k.connected = x.connected /\ k.freed = x.freed
      /\ k.lasttransid = x.lasttransid
  BY <1>1, GoesFields
<1>3. ~HeadIs(items, "loop") /\ ~HeadIs(items, "deinit")
  BY <1>1, LinkedPlain
<1>4. x.connected /\ ~x.freed => AnswersOK(k)
  <2>1. ~HeadIs(x.todo, "loop") /\ ~HeadIs(x.todo, "deinit")
    BY AdvanceIs DEF HeadIs
  <2> QED
    BY <1>2, <1>3, <2>1 DEF DInv, AnswersOK
<1>5. CASE x' = k
  BY <1>2, <1>4, <1>5 DEF DInv
<1>6. CASE x' = Break(k)
  <2>1. x'.connected = x.connected /\ x'.freed = x.freed
    BY <1>2, <1>6, BreakKeeps
  <2>2. k.connected /\ AnswersOK(k) => AnswersOK(Break(k))
    BY <1>2, <1>3, AnswersBreak DEF MInv
  <2> QED
    BY <1>2, <1>4, <1>6, <2>1, <2>2 DEF DInv
<1>7. CASE x' = DbgpInit(k)
  <2>1. x'.sessions = x.sessions + 1 /\ x'.lasttransid = 0 /\ x'.commands = x.commands
    BY <1>2, <1>7, DbgpInitOnly, DbgpInitKeeps, ZenonT(60)
  <2>2. \A t \in 1..Len(x.commands) : x.commands[t].session # x.sessions + 1
    BY DEF MInv, CommandsOK, CommandOK
  <2>3. AllAnswered(x'.commands, x'.sessions)
    BY <2>1, <2>2 DEF AllAnswered
  <2> QED
    BY <2>1, <2>3, AllAreButLast DEF DInv, AnswersOK, LastOpen
<1> QED
  BY <1>1, <1>5, <1>6, <1>7

LEMMA DEndRequest ==
    ASSUME BInv, MInv, LInv, DInv, EndRequest
    PROVE  DInv'
<1> DEFINE e == [do |-> "close"]
           s == <<e>>
           c == Begin(x, s)
<1>1. /\ x.todo = <<>> /\ DOMAIN x = Fields
      /\ \/ ~x.remote_enabled /\ x' = x
         \/ x.remote_enabled /\ x' = Deinit(c) /\ c.remote_enabled
  BY EndRequestIs
<1>2. e.do = "close"
  OBVIOUS
<1> HIDE DEF e
<1>3. Pushed(s \o x.todo, e, x.todo)
  BY <1>1, EmptyIs, PushIs
<1> HIDE DEF s
<1>4. /\ DOMAIN c = Fields /\ c.todo = s \o x.todo /\ c.commands = x.commands
      /\ c.sessions = x.sessions /\ c.lasttransid = x.lasttransid
      /\ c.connected = x.connected /\ c.freed = x.freed
  BY <1>1, BeginKeeps
<1> HIDE DEF c
<1>5. IsSeq(c.todo) /\ ~HeadIs(c.todo, "loop") /\ ~HeadIs(c.todo, "deinit")
  BY <1>2, <1>3, <1>4 DEF Pushed, HeadIs
<1>6. x.connected /\ ~x.freed => AnswersOK(c)
  BY <1>1, <1>4, <1>5 DEF DInv, AnswersOK, HeadIs
<1>7. AnswersOK(c) /\ c.connected => AnswersOK(Deinit(c))
  BY <1>4, <1>5, AnswersDeinit DEF MInv
<1>8. Deinit(c).connected = x.connected /\ Deinit(c).freed = x.freed
  BY <1>4, DeinitKeeps
<1> QED
  BY <1>1, <1>4, <1>6, <1>7, <1>8 DEF DInv

\* The commands, with the one that was read.
LEMMA DRead ==
    ASSUME MInv, DInv, HeadIs(x.todo, "loop"), x.connected, ~x.freed,
           NEW g, NEW name, NEW t, Read(g, name, t)
    PROVE  /\ AllButLast(g.commands, x.sessions, t) /\ LastOpen(g.commands, t)
           /\ name \in Ending => Excused(g.commands, t)
           /\ name \in Unknown => LastOpen(g.commands, x.lasttransid)
<1>1. /\ Len(g.commands) = t /\ t \in Nat /\ t = Len(x.commands) + 1 /\ Len(x.commands) \in Nat
      /\ Extends(x.commands, g.commands) /\ CommandsOK(g.commands, x.sessions)
  BY ReadIs, ZenonT(60)
<1>2. /\ g.commands[t] = [name |-> name, session |-> x.sessions, answers |-> 0]
      /\ \A u \in 1..Len(x.commands) : g.commands[u] = x.commands[u]
  BY ReadIs
<1>3. AllAnswered(x.commands, x.sessions)
  BY DEF DInv, AnswersOK
<1>4. \A u \in 1..Len(x.commands) : Excused(x.commands, u) => Excused(g.commands, u)
  BY <1>1, ExcusedExtended DEF MInv
<1>5. ASSUME NEW u \in 1..Len(g.commands), g.commands[u].session = x.sessions
      PROVE  /\ g.commands[u].answers = 0 => u = t
             /\ g.commands[u].answers > 1 => Excused(g.commands, u)
  <2>1. CASE u = t
    BY <1>2, <2>1
  <2>2. CASE u # t
    <3>1. u \in 1..Len(x.commands)
      BY <1>1, <2>2
    <3> QED
      BY <1>2, <1>3, <1>4, <1>5, <2>2, <3>1 DEF AllAnswered
  <2> QED
    BY <2>1, <2>2
<1>6. g.commands[t].answers = 0 /\ g.commands[t].name = name
  BY <1>2
<1>7. ASSUME name \in Unknown, x.lasttransid # 0
      PROVE  Excused(g.commands, x.lasttransid)
  <2>1. x.lasttransid \in 0..Len(x.commands)
    BY DEF MInv
  <2>2. t > x.lasttransid /\ t \in 1..Len(g.commands)
    BY <1>1, <2>1
  <2> QED
    BY <1>6, <1>7, <2>2 DEF Excused
<1> QED
  BY <1>5, <1>6, <1>7 DEF AllButLast, LastOpen, Excused

LEMMA DCommand ==
    ASSUME BInv, MInv, LInv, DInv, Command
    PROVE  DInv'
<1>1. PICK name, t, g, m : Read(g, name, t) /\ Only(g, m, Asked) /\ Parsed(g, name, t, m, x')
  BY CommandRead DEF CommandIs
<1>2. /\ DOMAIN m = Fields /\ m.sessions = x.sessions /\ m.todo = x.todo
      /\ m.commands = g.commands /\ m.connected = x.connected /\ m.freed = x.freed
      /\ g.status = x.status /\ g.lasttransid = x.lasttransid
  BY <1>1, ReadKeeps
<1>3. HeadIs(x.todo, "loop") /\ IsSeq(x.todo) /\ x.connected
  BY DEF BInv, Command, AtLoop, HeadIs, TodoOK
<1> DEFINE r == Respond(m, t)
<1>4. /\ DOMAIN r = Fields /\ r.sessions = x.sessions /\ r.todo = x.todo
      /\ r.lasttransid = m.lasttransid /\ r.status = m.status
      /\ r.connected = x.connected /\ r.freed = x.freed
  BY <1>2, RespondKeeps
<1>5. OrderOK(m) /\ OrderOK(r)
  BY <1>1, OrderRead
<1>6. SUFFICES ASSUME ~x.freed PROVE DInv'
  <2>1. ASSUME x.freed PROVE x'.freed
    <3> DEFINE s == <<[do |-> "detached", id |-> t]>>
               b == Begin(m, s)
    <3>1. \/ x' = LeaveLoop(m) \/ x' = LeaveLoop(r) \/ x' = r \/ x' = Deinit(b)
      BY <1>1 DEF Parsed
    <3> HIDE DEF r, s
    <3>2. DOMAIN b = Fields /\ b.freed = m.freed
      BY <1>2, BeginKeeps
    <3> HIDE DEF b
    <3>3. /\ LeaveLoop(m).freed = m.freed /\ LeaveLoop(r).freed = r.freed
          /\ Deinit(b).freed = b.freed
      BY <1>2, <1>4, <3>2, LeaveKeeps, DeinitKeeps
    <3> QED
      BY <1>2, <1>4, <2>1, <3>1, <3>2, <3>3
  <2> QED
    BY <2>1 DEF DInv
<1>7. /\ AllButLast(m.commands, x.sessions, t) /\ LastOpen(m.commands, t)
      /\ name \in Ending => Excused(m.commands, t)
      /\ name \in Unknown => LastOpen(m.commands, x.lasttransid)
  BY <1>1, <1>2, <1>3, <1>6, DRead
<1>8. /\ Len(m.commands) = t /\ t \in 1..Len(m.commands) /\ t \in 0..Len(m.commands)
      /\ CommandsOK(m.commands, x.sessions)
  <2>1. /\ Len(g.commands) = t /\ t \in Nat /\ t = Len(x.commands) + 1 /\ Len(x.commands) \in Nat
        /\ CommandsOK(g.commands, x.sessions)
    BY <1>1, ReadIs
  <2> QED
    BY <1>2, <2>1
<1>9. AllAnswered(r.commands, x.sessions)
  <2>1. r.commands = Answer(m.commands, t, m.connected)
    BY <1>2, RespondIs
  <2>2. Answer(m.commands, t, m.connected) = Answer(m.commands, t, TRUE)
    BY <1>2, <1>3, AnswerThere
  <2>3. AllAnswered(Answer(m.commands, t, TRUE), x.sessions)
    BY <1>7, <1>8, LastAnswered
  <2> QED
    BY <2>1, <2>2, <2>3
<1>10. /\ CommandsOK(r.commands, x.sessions) /\ Len(r.commands) = Len(m.commands)
       /\ Extends(m.commands, r.commands)
  BY <1>2, <1>8, Answered1
<1> HIDE DEF r
<1>11. ASSUME LastOpen(r.commands, r.lasttransid) \/ HeadIs(Tail(x.todo), "deinit"),
              x' = LeaveLoop(r), r.status # "stopped" \/ LastOpen(r.commands, r.lasttransid)
       PROVE  DInv'
  <2>1. /\ x'.commands = r.commands /\ x'.sessions = x.sessions
        /\ x'.lasttransid = r.lasttransid
    BY <1>4, <1>11, LeaveKeeps
  <2>2. ~HeadIs(x'.todo, "loop")
    BY <1>3, <1>4, <1>5, <1>11, OrderLeave
  <2>3. r.status # "stopped" => x'.todo = Tail(x.todo)
    BY <1>4, <1>11, LeaveLoopIs
  <2>4. LastOpen(x'.commands, x'.lasttransid) \/ HeadIs(x'.todo, "deinit")
    BY <1>11, <2>1, <2>3
  <2>5. AnswersOK(x')
    BY <1>9, <2>1, <2>2, <2>4, AllAreButLast DEF AnswersOK
  <2> QED
    BY <2>5 DEF DInv, AnswersOK
<1>12. CASE name \in Unknown /\ m = g /\ x' = LeaveLoop(r)
  <2>1. LastOpen(m.commands, x.lasttransid) /\ r.lasttransid = x.lasttransid
    BY <1>2, <1>4, <1>7, <1>12
  <2>2. LastOpen(r.commands, r.lasttransid)
    <3>1. x.lasttransid \in 0..Len(x.commands) /\ Len(x.commands) \in Nat
      BY CommandsLen DEF MInv
    <3>2. r.lasttransid # 0 => t > r.lasttransid /\ r.commands[t].name = m.commands[t].name
      <4>1. t = Len(x.commands) + 1
        BY <1>1 DEF Read
      <4> QED
        BY <1>8, <1>10, <2>1, <3>1, <4>1, SMTT(40) DEF Extends
    <3>3. m.commands[t].name \in Unknown
      <4>1. g.commands[t] = [name |-> name, session |-> x.sessions, answers |-> 0]
        BY <1>1, ReadIs
      <4> QED
        BY <1>2, <1>12, <4>1
    <3>4. t \in 1..Len(r.commands)
      BY <1>8, <1>10
    <3> QED
      BY <3>2, <3>3, <3>4 DEF LastOpen, Excused
  <2> QED
    BY <1>11, <1>12, <2>2
<1>13. CASE m.lasttransid = t /\ name = "stop" /\ x' = LeaveLoop(r)
  <2>1. Excused(r.commands, t)
    BY <1>7, <1>8, <1>10, <1>13, ExcusedExtended DEF Ending
  <2>2. LastOpen(r.commands, r.lasttransid)
    BY <1>4, <1>13, <2>1 DEF LastOpen
  <2> QED
    BY <1>11, <1>13, <2>2
<1>14. CASE x.status = "stopping" /\ m.status = "stopping" /\ x' = LeaveLoop(r)
  <2>1. HeadIs(Tail(x.todo), "deinit")
    BY <1>3, <1>14 DEF LInv, OrderOK
  <2> QED
    BY <1>4, <1>11, <1>14, <2>1
<1>15. CASE m.lasttransid = t /\ x' = LeaveLoop(m)
  <2>1. /\ x'.commands = m.commands /\ x'.sessions = x.sessions /\ x'.lasttransid = t
    BY <1>2, <1>15, LeaveKeeps
  <2>2. ~HeadIs(x'.todo, "loop")
    BY <1>2, <1>3, <1>5, <1>15, OrderLeave
  <2> QED
    BY <1>7, <2>1, <2>2 DEF DInv, AnswersOK
<1>16. CASE x' = r
  BY <1>3, <1>4, <1>9, <1>16, AllAreButLast DEF DInv, AnswersOK
<1>17. CASE /\ m.lasttransid = t
            /\ x' = Deinit(Begin(m, <<[do |-> "detached", id |-> t]>>))
  <2> DEFINE a == [do |-> "detached", id |-> t]
             s == <<a>>
             b == Begin(m, s)
  <2>1. a.do = "detached"
    OBVIOUS
  <2> HIDE DEF a
  <2>2. Pushed(s \o x.todo, a, x.todo)
    BY <1>3, PushIs
  <2> HIDE DEF s
  <2>3. /\ DOMAIN b = Fields /\ b.todo = s \o x.todo /\ b.commands = m.commands
        /\ b.sessions = x.sessions /\ b.lasttransid = t
        /\ b.connected = x.connected /\ b.freed = x.freed
    <3>1. /\ DOMAIN b = Fields /\ b.todo = s \o m.todo /\ b.commands = m.commands
          /\ b.sessions = m.sessions /\ b.lasttransid = m.lasttransid
          /\ b.connected = m.connected /\ b.freed = m.freed
      BY <1>2, BeginKeeps, ZenonT(60)
    <3> HIDE DEF b
    <3> QED
      BY <1>2, <1>17, <3>1
  <2> HIDE DEF b
  <2>4. IsSeq(b.todo) /\ ~HeadIs(b.todo, "loop") /\ ~HeadIs(b.todo, "deinit")
    BY <2>1, <2>2, <2>3 DEF Pushed, HeadIs
  <2>5. AnswersOK(b)
    BY <1>7, <2>3, <2>4 DEF AnswersOK
  <2>6. AnswersOK(Deinit(b))
    BY <1>3, <1>8, <2>3, <2>4, <2>5, AnswersDeinit
  <2> QED
    BY <1>17, <2>6 DEF DInv, AnswersOK, a, s, b
<1> QED
  BY <1>1, <1>2, <1>12, <1>13, <1>14, <1>15, <1>16, <1>17 DEF Parsed, r

LEMMA DResume ==
    ASSUME BInv, MInv, LInv, DInv, Resume
    PROVE  DInv'
<1> DEFINE item == Head(x.todo)
           rest == Tail(x.todo)
<1>1. ResumeIs /\ x.todo # <<>> /\ IsSeq(x.todo) /\ DOMAIN x = Fields /\ item.do # "loop"
  BY ResumedIs DEF BInv, Resume, TodoOK
<1>2. Pushed(x.todo, item, rest) /\ IsSeq(rest)
  BY <1>1, HeadAndTail DEF Pushed
<1>3. \A kind : HeadIs(x.todo, kind) <=> item.do = kind
  BY <1>2, PendingPushed
<1>4. /\ HeadIs(x'.todo, "loop") => item.do \in Inner
      /\ item.do = "deinit" => x'.freed
  BY LResume
<1>5. x.connected /\ ~x.freed /\ item.do # "deinit" =>
         /\ AllButLast(x.commands, x.sessions, x.lasttransid)
         /\ LastOpen(x.commands, x.lasttransid)
  BY <1>1, <1>3 DEF DInv, AnswersOK
<1>6. CASE item.do \in Inner
  <2>1. PICK k : Goes(x, k, rest) /\ (x' = k \/ x' = Break(k))
    BY <1>1, <1>6 DEF ResumeIs, Inner
  <2>2. /\ DOMAIN k = Fields /\ k.todo = rest /\ k.commands = x.commands
        /\ k.sessions = x.sessions /\ k.connected = x.connected /\ k.freed = x.freed
        /\ k.lasttransid = x.lasttransid
    BY <2>1, GoesFields
  <2>3. item.do # "detached" /\ item.do # "loop" /\ item.do # "deinit"
    BY <1>6 DEF Inner
  <2>4. ~HeadIs(rest, "loop") /\ ~HeadIs(rest, "deinit")
    BY <1>2, <2>3, LinkedRest DEF LInv, OrderOK
  <2>5. x.connected /\ ~x.freed => AnswersOK(k)
    BY <1>5, <2>2, <2>3, <2>4 DEF AnswersOK
  <2>6. CASE x' = k
    BY <2>2, <2>5, <2>6 DEF DInv
  <2>7. CASE x' = Break(k)
    <3>1. x'.connected = x.connected /\ x'.freed = x.freed
      BY <2>2, <2>7, BreakKeeps
    <3>2. k.connected /\ AnswersOK(k) => AnswersOK(Break(k))
      BY <2>2, <2>4, AnswersBreak DEF MInv
    <3> QED
      BY <2>2, <2>5, <2>7, <3>1, <3>2 DEF DInv
  <2> QED
    BY <2>1, <2>6, <2>7
<1>7. CASE item.do = "enabled"
  <2>1. Only(x, x', {"todo", "remote_enabled"}) /\ x'.todo = rest
    BY <1>1, <1>7 DEF ResumeIs, Inner
  <2>2. /\ x'.commands = x.commands /\ x'.sessions = x.sessions
        /\ x'.lasttransid = x.lasttransid /\ x'.connected = x.connected
        /\ x'.freed = x.freed
    BY <2>1 DEF Only, Fields
  <2>3. ~HeadIs(x'.todo, "loop")
    BY <1>4, <1>7 DEF Inner
  <2> QED
    BY <1>5, <1>7, <2>2, <2>3 DEF DInv, AnswersOK
<1>8. CASE item.do = "deinit"
  BY <1>4, <1>8 DEF DInv
<1>9. CASE item.do = "close"
  <2>1. x'.connected = FALSE
    BY <1>1, <1>9 DEF ResumeIs, Inner
  <2> QED
    BY <2>1 DEF DInv
<1>10. CASE item.do = "detached"
  <2>1. PICK k : /\ Only(x, k, {"todo", "remote_enabled", "detached", "commands", "early"})
                 /\ k.commands = Answer(x.commands, item.id, x.connected)
                 /\ x' = LeaveLoop(k)
    BY <1>1, <1>10 DEF ResumeIs, Inner
  <2>2. /\ DOMAIN k = Fields /\ k.sessions = x.sessions /\ k.lasttransid = x.lasttransid
        /\ k.connected = x.connected /\ k.freed = x.freed
    BY <2>1 DEF Only, Fields
  <2>3. /\ x'.commands = k.commands /\ x'.sessions = x.sessions
        /\ x'.lasttransid = x.lasttransid /\ x'.connected = x.connected
        /\ x'.freed = x.freed
    BY <2>1, <2>2, LeaveKeeps
  <2>4. ~HeadIs(x'.todo, "loop")
    BY <1>4, <1>10 DEF Inner
  <2>5. /\ item.id \in 1..Len(x.commands) /\ x.commands[item.id].name \in Ending
        /\ CommandsOK(x.commands, x.sessions) /\ x.lasttransid \in 0..Len(x.commands)
    <3>1. DetachOK(item, x.commands, x.sessions)
      BY <1>2, DetachesPushed DEF MInv
    <3> QED
      BY <1>10, <3>1 DEF DetachOK, MInv, Ending
  <2>6. x.connected /\ ~x.freed =>
           /\ AllButLast(Answer(x.commands, item.id, TRUE), x.sessions, x.lasttransid)
           /\ LastOpen(Answer(x.commands, item.id, TRUE), x.lasttransid)
    BY <1>5, <1>10, <2>5, DetachAnswered
  <2>7. x.connected => k.commands = Answer(x.commands, item.id, TRUE)
    BY <2>1, AnswerThere
  <2> QED
    BY <2>3, <2>4, <2>6, <2>7 DEF DInv, AnswersOK
<1> QED
  BY <1>1, <1>6, <1>7, <1>8, <1>9, <1>10 DEF ResumeIs

LEMMA DOther ==
    ASSUME BInv, DInv, HangUp \/ EndOfFile \/ Bailout
    PROVE  DInv'
<1>1. IsSeq(x.todo) /\ DOMAIN x = Fields
  BY DEF BInv, TodoOK
<1>2. CASE HangUp
  <2>1. x'.connected = FALSE
    BY <1>1, <1>2 DEF HangUp, Fields
  <2> QED
    BY <2>1 DEF DInv
<1>3. CASE EndOfFile
  <2>1. x' = Done(x) /\ ~x.connected
    BY <1>3 DEF EndOfFile
  <2>2. Goes(x, x', Tail(x.todo))
    BY <1>1, <2>1, GoesDone
  <2>3. x'.connected = x.connected
    BY <2>2, GoesFields
  <2> QED
    BY <2>1, <2>3 DEF DInv
<1>4. CASE Bailout
  <2>1. /\ x' = [x EXCEPT !.todo = <<>>, !.step = NoStep]
        /\ x.todo # <<>> /\ Head(x.todo).do = "bail"
    BY <1>4 DEF Bailout
  <2>2. /\ x'.todo = <<>> /\ x'.commands = x.commands /\ x'.connected = x.connected
        /\ x'.freed = x.freed /\ x'.sessions = x.sessions /\ x'.lasttransid = x.lasttransid
    BY <1>1, <2>1 DEF Fields
  <2> QED
    BY <2>1, <2>2 DEF DInv, AnswersOK, HeadIs
<1> QED
  BY <1>2, <1>3, <1>4

LEMMA DInvNext == ASSUME BInv, MInv, LInv, DInv, [Next]_vars PROVE DInv'
<1>1. CASE UNCHANGED vars
  BY <1>1 DEF DInv, AnswersOK, vars
<1> QED
  BY <1>1, DAdvance, DEndRequest, DCommand, DResume, DOther DEF Next, Advance

\* Only the last command of a session can be open, and it will not be answered
\* twice.
THEOREM AnswersInvariance == Spec => []DInv
<1>1. Init => DInv
  BY DInvInit
<1>2. BInv /\ MInv /\ LInv /\ DInv /\ [Next]_vars => DInv'
  BY DInvNext
<1> QED
  BY <1>1, <1>2, BreakpointsInvariance, Messages, Ordering, PTL DEF Spec

\* When the IDE may send a command, all it has sent before in the session are
\* answered, and none twice that is not excused.
THEOREM Answering == Spec => []AnsweredOnce
<1>1. MInv /\ DInv => AnsweredOnce
  <2>1. ASSUME MInv, DInv, AtLoop, x.connected, ~x.freed, NEW t \in DOMAIN x.commands,
               x.commands[t].session = x.sessions
        PROVE  /\ x.commands[t].answers >= 1
               /\ x.commands[t].answers > 1 =>
                     \/ x.commands[t].name \in Ending
                     \/ \E u \in DOMAIN x.commands : u > t /\ x.commands[u].name \in Unknown
    <3>1. DOMAIN x.commands = 1..Len(x.commands)
      BY <2>1, CommandsLen DEF MInv
    <3>2. AllAnswered(x.commands, x.sessions)
      BY <2>1 DEF DInv, AnswersOK, AtLoop, HeadIs
    <3>3. x.commands[t].answers \in Nat
      BY <2>1, <3>1 DEF MInv, CommandsOK, CommandOK
    <3> QED
      BY <2>1, <3>1, <3>2, <3>3 DEF AllAnswered, Excused
  <2> QED
    BY <2>1 DEF AnsweredOnce
<1> QED
  BY <1>1, Messages, AnswersInvariance, PTL

-----------------------------------------------------------------------------
(* What a step does to the calls in progress, and to how the script steps *)

\* How the script is to step.
Walk == {"do_next", "do_finish", "next_level", "finish_level", "finish_func_nr", "step"}

Resting == Walk \cup {"ini", "stack", "function_count", "statements", "options", "seen"}

\* From g to h the calls in progress stay what they are; the script is still to step
\* as it was, or the step has been dropped; and so are the pages that were shown, at
\* the latest with the options they were shown under.
Rests(g, h) ==
    /\ DOMAIN g = Fields /\ DOMAIN h = Fields /\ h.ini = g.ini
    /\ h.stack = g.stack /\ h.function_count = g.function_count /\ h.statements = g.statements
    /\ h.step = NoStep \/ \A f \in Walk : h[f] = g[f]
    /\ h.seen = g.seen \/ h.seen = {}
    /\ h.options = g.options \/ (h.options = Options /\ h.seen = {})

LEMMA RestsThen ==
    ASSUME NEW g, NEW h, NEW k, Rests(g, h), Rests(h, k)
    PROVE  Rests(g, k)
<1>1. k.step = NoStep \/ \A f \in Walk : k[f] = g[f]
  <2>1. "step" \in Walk
    BY DEF Walk
  <2> QED
    BY <2>1 DEF Rests
<1>2. /\ k.seen = g.seen \/ k.seen = {}
      /\ k.options = g.options \/ (k.options = Options /\ k.seen = {})
  BY DEF Rests
<1> QED
  BY <1>1, <1>2 DEF Rests

LEMMA RestsOnly ==
    ASSUME NEW g, NEW h, NEW S, Only(g, h, S), S \cap Resting = {}
    PROVE  Rests(g, h)
<1>1. \A f \in Resting : h[f] = g[f]
  BY DEF Only, Resting, Walk, Fields
<1> QED
  BY <1>1 DEF Rests, Resting, Only

\* A stop drops the step, whatever else was set before it.
LEMMA RestsBreak ==
    ASSUME NEW g, NEW k, NEW S, Only(g, k, S),
           S \cap {"ini", "stack", "function_count", "statements", "options", "seen"} = {}
    PROVE  Rests(g, Break(k))
<1> DEFINE h == Break(k)
<1>1. DOMAIN k = Fields /\ DOMAIN g = Fields
  BY DEF Only
<1>2. Only(k, h, Breaking) /\ h.step = NoStep /\ h.seen = {}
  BY <1>1, BreakOnly
<1> HIDE DEF h
<1>3. /\ k.ini = g.ini /\ k.stack = g.stack /\ k.function_count = g.function_count
      /\ k.options = g.options /\ k.statements = g.statements
  BY DEF Only, Fields
<1>4. /\ DOMAIN h = Fields /\ h.ini = k.ini /\ h.stack = k.stack
      /\ h.function_count = k.function_count /\ h.options = k.options
      /\ h.statements = k.statements
  BY <1>2 DEF Only, Breaking, Fields
<1>5. Rests(g, h)
  BY <1>1, <1>2, <1>3, <1>4 DEF Rests
<1> QED
  BY <1>5 DEF h

LEMMA RestsDbgpInit ==
    ASSUME NEW g, DOMAIN g = Fields
    PROVE  Rests(g, DbgpInit(g))
<1> DEFINE n == NoBreakpoints(g)
           h == DbgpInit(g)
<1>1. Only(g, n, Placed)
  BY NoBreakpointsOnly
<1>2. Only(n, h, Connecting) /\ h.step = NoStep /\ h.options = Options /\ h.seen = {}
  BY DbgpInitOnly
<1> HIDE DEF n, h
<1>3. /\ n.ini = g.ini /\ n.stack = g.stack /\ n.function_count = g.function_count
      /\ n.statements = g.statements
  BY <1>1 DEF Only, Placed, Fields
<1>4. /\ DOMAIN h = Fields /\ h.ini = n.ini /\ h.stack = n.stack
      /\ h.function_count = n.function_count /\ h.statements = n.statements
  BY <1>2 DEF Only, Connecting, Fields
<1>5. Rests(g, h)
  BY <1>2, <1>3, <1>4 DEF Rests
<1> QED
  BY <1>5 DEF h

LEMMA RestsOperations ==
    ASSUME NEW g, DOMAIN g = Fields
    PROVE  /\ Rests(g, g) /\ Rests(g, Break(g)) /\ Rests(g, Deinit(g))
           /\ Rests(g, LeaveLoop(g)) /\ Rests(g, Done(g)) /\ Rests(g, Deinitialized(g))
           /\ \A items : Rests(g, Begin(g, items))
           /\ \A t : Rests(g, Respond(g, t))
<1>1. Rests(g, g) /\ Rests(g, Break(g))
  <2>1. Only(g, g, {})
    BY OnlyNone
  <2> QED
    BY <2>1, RestsOnly, RestsBreak
<1>2. Rests(g, Deinit(g))
  BY DeinitOnly, RestsOnly DEF Resting, Walk
<1>4. Rests(g, LeaveLoop(g)) /\ Rests(g, Done(g))
  BY LeaveLoopOnly, DoneOnly, RestsOnly DEF Resting, Walk
<1>5. Rests(g, Deinitialized(g))
  BY DeinitializedOnly, RestsOnly DEF Resting, Walk
<1>6. ASSUME NEW items PROVE Rests(g, Begin(g, items))
  BY BeginOnly, RestsOnly DEF Resting, Walk
<1>7. ASSUME NEW t PROVE Rests(g, Respond(g, t))
  BY RespondOnly, RestsOnly DEF Resting, Walk
<1> QED
  BY <1>1, <1>2, <1>4, <1>5, <1>6, <1>7

LEMMA RestsConnection ==
    ASSUME NEW g, DOMAIN g = Fields, NEW h, h \in InitDebugger(g) \/ h \in DoJit(g)
    PROVE  Rests(g, h)
<1>1. h = g \/ h = DbgpInit(g)
  BY InitDebuggerIs, DoJitIs
<1> QED
  BY <1>1, RestsOperations, RestsDbgpInit

LEMMA RestsCounts ==
    ASSUME NEW g, NEW k, Counts(g, k)
    PROVE  /\ Rests(g, k) /\ Rests(g, Break(k)) /\ DOMAIN k = Fields
<1>1. Only(g, k, Tables)
  BY DEF Counts
<1> QED
  BY <1>1, RestsOnly, RestsBreak DEF Tables, Resting, Walk, Only

LEMMA RestsBreakpoints ==
    ASSUME NEW g, DOMAIN g = Fields
    PROVE  /\ \A type : Rests(g, HandleBreakpoints(g, type))
           /\ \A names : Rests(g, ExceptionHit(g, names))
<1>1. ASSUME NEW type PROVE Rests(g, HandleBreakpoints(g, type))
  <2> DEFINE h == HandleBreakpoints(g, type)
  <2>1. h = g \/ \E k : Counts(g, k) /\ h \in {k, Break(k), [k EXCEPT !.do_break = TRUE]}
    BY HandleBreakpointsIs
  <2> HIDE DEF h
  <2>2. ASSUME NEW k, Counts(g, k) PROVE Rests(g, [k EXCEPT !.do_break = TRUE])
    <3>1. Rests(g, k) /\ DOMAIN k = Fields
      BY <2>2, RestsCounts
    <3>2. Only(k, [k EXCEPT !.do_break = TRUE], {"do_break"})
      BY <3>1 DEF Only
    <3>3. Rests(k, [k EXCEPT !.do_break = TRUE])
      BY <3>2, RestsOnly DEF Resting, Walk
    <3> QED
      BY <3>1, <3>3, RestsThen
  <2>3. Rests(g, h)
    BY <2>1, <2>2, RestsCounts, RestsOperations
  <2> QED
    BY <2>3 DEF h
<1>2. ASSUME NEW names PROVE Rests(g, ExceptionHit(g, names))
  <2> DEFINE h == ExceptionHit(g, names)
  <2>1. h = g \/ \E k : Counts(g, k) /\ h \in {k, Break(k)}
    BY ExceptionHitIs
  <2> HIDE DEF h
  <2>2. Rests(g, h)
    BY <2>1, RestsCounts, RestsOperations
  <2> QED
    BY <2>2 DEF h
<1> QED
  BY <1>1, <1>2

\* The rest of the statement hook, as the cases it is made of.
LEMMA ChecksIs ==
    ASSUME NEW g, DOMAIN g = Fields, NEW line, NEW h \in Checks(g, line)
    PROVE  LET level   == Len(g.stack)
               func_nr == Last(g.stack).nr
               finish  == g.do_finish /\ \/ level < g.finish_level
                                         \/ level = g.finish_level /\ func_nr > g.finish_func_nr
               next    == g.do_next /\ g.next_level >= level
               stop    == \E k, S : /\ Only(g, k, S) /\ h = Break(k)
                                    /\ S \subseteq {"do_finish", "do_next", "do_step"} \cup Tables
               goes    == \E S : Only(g, h, S) /\ S \subseteq Tables
           IN  \/ g.freed /\ Only(g, h, {"crashed"})
               \/ finish /\ stop
               \/ ~finish /\ next /\ stop
               \/ /\ ~finish /\ ~next
                  /\ \/ goes
                     \/ \E k, S : /\ Only(g, k, S) /\ h = Break(k)
                                  /\ S \subseteq {"do_step"} \cup Tables
<1> DEFINE level   == Len(g.stack)
           func_nr == Last(g.stack).nr
           finish  == g.do_finish /\ \/ level < g.finish_level
                                     \/ level = g.finish_level /\ func_nr > g.finish_func_nr
           next    == g.do_next /\ g.next_level >= level
           crash   == [g EXCEPT !.crashed = TRUE]
           k1      == [g EXCEPT !.do_finish = FALSE]
           k2      == [g EXCEPT !.do_next = FALSE]
           k3      == [g EXCEPT !.do_step = FALSE]
           stop    == \E k, S : /\ Only(g, k, S) /\ h = Break(k)
                                /\ S \subseteq {"do_finish", "do_next", "do_step"} \cup Tables
           goes    == \E S : Only(g, h, S) /\ S \subseteq Tables
           steps   == \E k, S : Only(g, k, S) /\ h = Break(k) /\ S \subseteq {"do_step"} \cup Tables
<1>1. h \in (IF g.freed THEN {crash} ELSE {}) \cup
            (IF finish THEN {Break(k1)} ELSE IF next THEN {Break(k2)}
             ELSE IF g.do_step THEN {Break(k3)} ELSE IF g.freed THEN {g}
             ELSE {LineBreak(g, line, holds) :
                      holds \in SUBSET Conditional(g.line_breakpoints, line)})
  BY Zenon DEF Checks
<1>2. /\ Only(g, crash, {"crashed"}) /\ Only(g, k1, {"do_finish"})
      /\ Only(g, k2, {"do_next"}) /\ Only(g, k3, {"do_step"}) /\ Only(g, g, {})
  BY DEF Only
<1> HIDE DEF finish, next, crash, k1, k2, k3
<1>3. \/ g.freed /\ h = crash
      \/ finish /\ h = Break(k1)
      \/ ~finish /\ next /\ h = Break(k2)
      \/ /\ ~finish /\ ~next
         /\ h = Break(k3) \/ h = g \/ \E holds : h = LineBreak(g, line, holds)
  BY <1>1
<1>4. ASSUME NEW holds, h = LineBreak(g, line, holds) PROVE goes \/ steps
  <2>1. PICK k : Counts(g, k) /\ h \in {k, Break(k)}
    BY <1>4, LineBreakIs
  <2>2. Only(g, k, Tables)
    BY <2>1 DEF Counts
  <2>3. CASE h = k
    <3>1. Only(g, h, Tables) /\ Tables \subseteq Tables
      BY <2>2, <2>3
    <3> QED
      BY <3>1
  <2>4. CASE h = Break(k)
    <3>1. Tables \subseteq {"do_step"} \cup Tables
      OBVIOUS
    <3> QED
      BY <2>2, <2>4, <3>1
  <2> QED
    BY <2>1, <2>3, <2>4
<1>5. h = Break(k1) \/ h = Break(k2) => stop
  <2>1. /\ {"do_finish"} \subseteq {"do_finish", "do_next", "do_step"} \cup Tables
        /\ {"do_next"} \subseteq {"do_finish", "do_next", "do_step"} \cup Tables
    OBVIOUS
  <2> QED
    BY <1>2, <2>1
<1>6. h = Break(k3) => steps
  <2>1. {"do_step"} \subseteq {"do_step"} \cup Tables
    OBVIOUS
  <2> QED
    BY <1>2, <2>1
<1>7. h = g => goes
  <2>1. {} \subseteq Tables
    OBVIOUS
  <2> QED
    BY <1>2, <2>1
<1> HIDE DEF stop, goes, steps
<1>8. \/ g.freed /\ Only(g, h, {"crashed"})
      \/ finish /\ stop
      \/ ~finish /\ next /\ stop
      \/ ~finish /\ ~next /\ (goes \/ steps)
  BY <1>2, <1>3, <1>4, <1>5, <1>6, <1>7
<1> QED
  BY <1>8 DEF finish, next, stop, goes, steps

LEMMA RestsChecks ==
    ASSUME NEW g, DOMAIN g = Fields, NEW line, NEW h \in Checks(g, line)
    PROVE  Rests(g, h)
<1>1. \/ Only(g, h, {"crashed"})
      \/ \E S : Only(g, h, S) /\ S \subseteq Tables
      \/ \E k, S : /\ Only(g, k, S) /\ h = Break(k)
                   /\ S \subseteq {"do_finish", "do_next", "do_step"} \cup Tables
  <2>1. {"do_step"} \cup Tables \subseteq {"do_finish", "do_next", "do_step"} \cup Tables
    OBVIOUS
  <2> QED
    BY <2>1, ChecksIs, Zenon
<1>2. CASE Only(g, h, {"crashed"})
  BY <1>2, RestsOnly DEF Resting, Walk
<1>3. ASSUME NEW S, Only(g, h, S), S \subseteq Tables PROVE Rests(g, h)
  BY <1>3, RestsOnly DEF Resting, Walk, Tables
<1>4. ASSUME NEW k, NEW S, Only(g, k, S), h = Break(k),
             S \subseteq {"do_finish", "do_next", "do_step"} \cup Tables
      PROVE  Rests(g, h)
  BY <1>4, RestsBreak DEF Tables
<1> QED
  BY <1>1, <1>2, <1>3, <1>4

\* The statement hook: it stops before it checks, or checks, or is not there.
LEMMA StatementIs ==
    ASSUME NEW g, DOMAIN g = Fields, NEW line, NEW h \in StatementCall(g, line)
    PROVE  \/ ~g.remote_enabled /\ h = g
           \/ /\ g.remote_enabled
              /\ \E k : /\ Only(g, k, {"do_break", "todo"}) /\ h = Break(k)
                        /\ k.todo = <<[do |-> "checks", line |-> line]>> \o g.todo
           \/ g.remote_enabled /\ h \in Checks(g, line)
<1> DEFINE off   == [g EXCEPT !.do_break = FALSE]
           items == <<[do |-> "checks", line |-> line]>>
           k     == Begin(off, items)
<1>1. \/ ~g.remote_enabled /\ h = g
      \/ g.remote_enabled /\ h = Break(k)
      \/ g.remote_enabled /\ h \in Checks(g, line)
  BY Zenon DEF StatementCall, StatementHooks
<1>2. Only(g, off, {"do_break"}) /\ off.todo = g.todo
  BY DEF Only, Fields
<1> HIDE DEF off, items
<1>3. Only(off, k, {"todo"}) /\ k.todo = items \o g.todo
  BY <1>2, BeginOnly DEF Only
<1> HIDE DEF k
<1>4. Only(g, k, {"do_break", "todo"})
  BY <1>2, <1>3 DEF Only
<1> QED
  BY <1>1, <1>3, <1>4 DEF items

LEMMA RestsStatement ==
    ASSUME NEW g, DOMAIN g = Fields, NEW line, NEW h \in StatementCall(g, line)
    PROVE  Rests(g, h)
<1>1. \/ h = g
      \/ \E k : Only(g, k, {"do_break", "todo"}) /\ h = Break(k)
      \/ h \in Checks(g, line)
  BY StatementIs
<1>2. ASSUME NEW k, Only(g, k, {"do_break", "todo"}), h = Break(k) PROVE Rests(g, h)
  BY <1>2, RestsBreak
<1> QED
  BY <1>1, <1>2, RestsChecks, RestsOperations

\* A call: the new frame is on top, with the next number.
Entered(g, h) ==
    \E k, frame : /\ Only(g, k, {"stack", "function_count", "todo"})
                  /\ k.function_count = g.function_count + 1
                  /\ k.stack = Append(g.stack, frame) /\ frame.nr = k.function_count
                  /\ Rests(k, h)

\* A return: the frame on top is gone.
Left(g, h) == Only(g, h, {"stack", "todo"}) /\ h.stack = Front(g.stack)

LEMMA EnterIs ==
    ASSUME NEW g, DOMAIN g = Fields, NEW fn
    PROVE  Entered(g, EnterFunction(g, fn))
<1> DEFINE frame == [fn |-> fn, nr |-> g.function_count + 1, internal |-> fn \in Internals,
                     declared |-> g.remote_enabled,
                     execute_data |-> IF fn \in Internals \/ Len(g.stack) = base THEN 0
                                      ELSE Last(g.stack).nr]
           count == g.function_count + 1
           st == Append(g.stack, frame)
           k  == [g EXCEPT !.function_count = count, !.stack = st]
<1>1. EnterFunction(g, fn) = HandleBreakpoints(k, "call") /\ frame.nr = count
  BY DEF EnterFunction
<1> HIDE DEF frame
<1>2. st = Append(g.stack, frame)
  OBVIOUS
<1> HIDE DEF st, count
<1>3. Only(g, k, {"stack", "function_count"}) /\ k.function_count = count /\ k.stack = st
  BY DEF Only, Fields
<1> HIDE DEF k
<1>4. Rests(k, HandleBreakpoints(k, "call"))
  BY <1>3, RestsBreakpoints DEF Only
<1>5. k.function_count = g.function_count + 1
  BY <1>3 DEF count
<1>6. Only(g, k, {"stack", "function_count", "todo"})
  BY <1>3, OnlyMore
<1> QED
  BY <1>1, <1>2, <1>3, <1>4, <1>5, <1>6 DEF Entered

LEMMA EnteredThen ==
    ASSUME NEW g, NEW h, NEW k, Only(g, h, {"todo"}), Entered(h, k)
    PROVE  Entered(g, k)
<1>1. PICK m, frame : /\ Only(h, m, {"stack", "function_count", "todo"})
                      /\ m.function_count = h.function_count + 1
                      /\ m.stack = Append(h.stack, frame) /\ frame.nr = m.function_count
                      /\ Rests(m, k)
  BY DEF Entered
<1>2. h.stack = g.stack /\ h.function_count = g.function_count
  BY DEF Only, Fields
<1>3. Only(g, m, {"stack", "function_count", "todo"})
  BY <1>1 DEF Only
<1> QED
  BY <1>1, <1>2, <1>3 DEF Entered

LEMMA CountedOnly ==
    ASSUME NEW g, DOMAIN g = Fields
    PROVE  Only(g, Counted(g), {"statements"})
BY DEF Only, Counted

LEMMA ExecuteExMoves ==
    ASSUME NEW g, DOMAIN g = Fields, NEW fn, NEW h \in ExecuteEx(g, fn)
    PROVE  Rests(g, h) \/ Entered(g, h)
<1> DEFINE k == Begin(g, <<[do |-> "enter", fn |-> fn]>>)
<1>1. h \in InitDebugger(k) \/ h = EnterFunction(g, fn)
  BY Zenon DEF ExecuteEx
<1>2. Rests(g, k)
  BY RestsOperations
<1> HIDE DEF k
<1>3. DOMAIN k = Fields
  BY <1>2 DEF Rests
<1>4. h \in InitDebugger(k) => Rests(g, h)
  BY <1>2, <1>3, RestsConnection, RestsThen
<1> QED
  BY <1>1, <1>4, EnterIs

\* The script has something to do after it has looked for a connection.
LEMMA JitRests ==
    ASSUME NEW g, NEW k, Rests(g, k), NEW items, NEW h \in DoJit(Begin(k, items))
    PROVE  Rests(g, h)
<1> DEFINE m == Begin(k, items)
<1>1. Rests(k, m)
  BY RestsOperations DEF Rests
<1>2. h \in DoJit(m)
  OBVIOUS
<1> HIDE DEF m
<1>3. Rests(m, h)
  BY <1>1, <1>2, RestsConnection DEF Rests
<1> QED
  BY <1>1, <1>3, RestsThen

LEMMA CallMoves ==
    ASSUME DOMAIN x = Fields, RunScript \/ Call \/ Return
    PROVE  Rests(x, x') \/ Entered(x, x')
<1>1. CASE RunScript
  BY <1>1, ExecuteExMoves DEF RunScript
<1>2. CASE Call
  <2>1. PICK fn : x' \in (IF fn \in Internals THEN {EnterFunction(x, fn)} ELSE ExecuteEx(x, fn))
    BY <1>2 DEF Call
  <2>2. x' = EnterFunction(x, fn) \/ x' \in ExecuteEx(x, fn)
    BY <2>1
  <2> QED
    BY <2>2, EnterIs, ExecuteExMoves
<1>3. CASE Return
  <2>1. \/ x' \in DoJit(Begin(x, Body(Top.fn) \o Returns))
        \/ x' = Begin(x, Returns)
    BY <1>3 DEF Return
  <2>2. Rests(x, x) /\ Rests(x, Begin(x, Returns))
    BY RestsOperations
  <2> QED
    BY <2>1, <2>2, JitRests
<1> QED
  BY <1>1, <1>2, <1>3

LEMMA StatementMoves ==
    ASSUME DOMAIN x = Fields, Statement \/ Throw \/ RaiseError
    PROVE  Rests(Counted(x), x')
<1>1. DOMAIN Counted(x) = Fields /\ Rests(Counted(x), Counted(x))
  BY CountedOnly, RestsOperations DEF Only
<1>2. CASE Statement
  BY <1>1, <1>2, RestsStatement DEF Statement
<1>3. CASE Throw
  <2>1. \E items : x' \in DoJit(Begin(Counted(x), items))
    BY <1>3 DEF Throw
  <2> QED
    BY <1>1, <2>1, JitRests
<1>4. CASE RaiseError
  <2>1. \E items : x' \in DoJit(Begin(Counted(x), items))
    BY <1>4 DEF RaiseError
  <2> QED
    BY <1>1, <2>1, JitRests
<1> QED
  BY <1>2, <1>3, <1>4

LEMMA DetachedRests ==
    ASSUME NEW g, DOMAIN g = Fields, NEW t
    PROVE  Rests(g, Detached(g, t))
<1>1. PICK k : DetachedUpTo(g, t, k) /\ Detached(g, t) = LeaveLoop(k)
  BY DetachedIs
<1>2. Rests(g, k)
  BY <1>1, RestsOnly DEF DetachedUpTo, Resting, Walk
<1>3. Rests(k, LeaveLoop(k))
  BY <1>2, RestsOperations DEF Rests
<1> QED
  BY <1>1, <1>2, <1>3, RestsThen

LEMMA ResumeMoves ==
    ASSUME BInv, Resume
    PROVE  Rests(x, x') \/ Entered(x, x') \/ Left(x, x')
<1> DEFINE item == Head(x.todo)
           d    == Done(x)
<1>1. /\ DOMAIN x = Fields /\ item.do \in Kinds \ {"loop", "bail"} /\ x' \in Resumed(d, item)
  BY TodoHead DEF BInv, Resume
<1>2. Only(x, d, {"todo"}) /\ Rests(x, d) /\ DOMAIN d = Fields
  BY <1>1, DoneOnly, RestsOperations DEF Only
<1> HIDE DEF d, item
<1>3. CASE item.do = "enter"
  <2>1. x' = EnterFunction(d, item.fn)
    BY <1>1, <1>3 DEF Resumed
  <2> QED
    BY <1>2, <2>1, EnterIs, EnteredThen
<1>4. CASE item.do = "leave"
  <2>1. x' = [d EXCEPT !.stack = Front(@)]
    BY <1>1, <1>4 DEF Resumed, LeaveFunction
  <2>2. Only(d, x', {"stack"}) /\ x'.stack = Front(d.stack)
    BY <1>2, <2>1 DEF Only, Fields
  <2>3. d.stack = x.stack
    BY <1>2 DEF Only, Fields
  <2>4. Only(x, x', {"stack", "todo"})
    BY <1>2, <2>2 DEF Only
  <2> QED
    BY <2>2, <2>3, <2>4 DEF Left
<1>5. CASE item.do \notin {"enter", "leave"}
  <2>1. \/ x' = Deinitialized(d)
        \/ x' \in Checks(d, item.line)
        \/ \E type : x' = HandleBreakpoints(d, type)
        \/ \E names : x' = ExceptionHit(d, names)
        \/ \E t : x' = Detached(d, t)
        \/ x' = [d EXCEPT !.remote_enabled = TRUE]
        \/ x' = [d EXCEPT !.do_break = TRUE]
        \/ x' = [d EXCEPT !.sockets = @ \ {d.sessions}, !.connected = FALSE]
    <3>1. item.do \in {"enabled", "checks", "do_break", "return", "exception", "deinit",
                       "detached", "close"}
      BY <1>1, <1>5 DEF Kinds, Inner
    <3> QED
      BY <1>1, <3>1 DEF Resumed
  <2>2. (\/ x' = [d EXCEPT !.remote_enabled = TRUE]
         \/ x' = [d EXCEPT !.do_break = TRUE]
         \/ x' = [d EXCEPT !.sockets = @ \ {d.sessions}, !.connected = FALSE])
        => Only(d, x', {"remote_enabled", "do_break", "sockets", "connected"})
    BY <1>2 DEF Only
  <2>3. Only(d, x', {"remote_enabled", "do_break", "sockets", "connected"}) => Rests(d, x')
    BY RestsOnly DEF Resting, Walk
  <2>4. Rests(d, x')
    BY <1>2, <2>1, <2>2, <2>3, RestsOperations, RestsChecks, RestsBreakpoints, DetachedRests
  <2> QED
    BY <1>2, <2>4, RestsThen
<1> QED
  BY <1>3, <1>4, <1>5

LEMMA OtherMoves ==
    ASSUME DOMAIN x = Fields, EndRequest \/ HangUp \/ EndOfFile \/ Bailout \/ UNCHANGED vars
    PROVE  Rests(x, x')
<1>1. Rests(x, x)
  BY RestsOperations
<1>2. CASE EndRequest
  <2>1. x' = x \/ \E items : x' = Deinit(Begin(x, items))
    BY <1>2 DEF EndRequest, PostDeactivate
  <2>2. ASSUME NEW items PROVE Rests(x, Deinit(Begin(x, items)))
    <3>1. Rests(x, Begin(x, items))
      BY RestsOperations
    <3>2. Rests(Begin(x, items), Deinit(Begin(x, items)))
      BY <3>1, RestsOperations DEF Rests
    <3> QED
      BY <3>1, <3>2, RestsThen
  <2> QED
    BY <1>1, <2>1, <2>2
<1>3. CASE HangUp
  <2>1. Only(x, x', {"connected"})
    BY <1>3 DEF HangUp, Only
  <2> QED
    BY <2>1, RestsOnly DEF Resting, Walk
<1>4. CASE EndOfFile
  BY <1>4, RestsOperations DEF EndOfFile
<1>5. CASE Bailout
  <2>1. x' = [x EXCEPT !.todo = <<>>, !.step = NoStep]
    BY <1>5 DEF Bailout
  <2>2. /\ DOMAIN x' = Fields /\ x'.ini = x.ini /\ x'.stack = x.stack
        /\ x'.statements = x.statements
        /\ x'.function_count = x.function_count /\ x'.step = NoStep
        /\ x'.seen = x.seen /\ x'.options = x.options
    BY <2>1 DEF Fields
  <2> QED
    BY <2>2 DEF Rests
<1>6. CASE UNCHANGED vars
  BY <1>1, <1>6 DEF vars
<1> QED
  BY <1>2, <1>3, <1>4, <1>5, <1>6

\* What a command is handled in: the pages that were shown are forgotten, unless
\* the command asks for another.
Noted(g, name, k) ==
    /\ Only(g, k, {"commands", "lasttransid", "status", "answer", "seen"})
    /\ k.seen = IF name = "property_get" THEN g.seen ELSE {}

\* What a command does before it is answered: nothing here, or to step on, or what its
\* function does.
Acts(g, name, m) ==
    \/ Rests(g, m)
    \/ \E k : /\ Noted(g, name, k)
              /\ \/ name \in Continuing /\ m = Stepping(Continue(k, name), name)
                 \/ m \in Handled(k, name)

LEMMA ParseActs ==
    ASSUME NEW g, DOMAIN g = Fields, NEW name, NEW t, NEW h \in ParseOption(g, name, t),
           DOMAIN x = Fields, Only(x, g, {"commands"})
    PROVE  \E m : Acts(x, name, m) /\ (DOMAIN m = Fields => Rests(m, h))
<1> DEFINE status == IF name \in Continuing \cup Ending THEN "running" ELSE g.status
           answer == IF name \in Asking THEN g.answer ELSE NoAnswer
           seen   == IF name = "property_get" THEN g.seen ELSE {}
           k      == [g EXCEPT !.lasttransid = t, !.status = status, !.answer = answer,
                               !.seen = seen]
           stop   == [k EXCEPT !.status = "stopped"]
           leave  == [k EXCEPT !.status = "detached"]
           step   == Stepping(Continue(k, name), name)
           items  == <<[do |-> "detached", id |-> t]>>
           Told(m) == IF Answered(name) THEN Respond(m, t) ELSE m
<1>1. \/ h = LeaveLoop(Respond(g, t))
      \/ h = LeaveLoop(Respond(k, t))
      \/ name \in Continuing /\ h = LeaveLoop(Told(step))
      \/ h = LeaveLoop(Told(stop))
      \/ h = Deinit(Begin(leave, items))
      \/ \E m \in Handled(k, name) : h = Told(m)
  <2> DEFINE A1 == name \in Unknown
             A2 == name \notin Unknown /\ k.status = "stopping" /\ name \notin PostMortem
             A3 == name \in Continuing
             A4 == name = "stop"
             A5 == name = "detach"
  <2>1. ParseOption(g, name, t) =
          CASE A1 -> {LeaveLoop(Respond(g, t))}
            [] A2 -> {LeaveLoop(Respond(k, t))}
            [] A3 -> {LeaveLoop(Told(step))}
            [] A4 -> {LeaveLoop(Told(stop))}
            [] A5 -> {Deinit(Begin(leave, items))}
            [] OTHER -> {Told(m) : m \in Handled(k, name)}
    BY Zenon DEF ParseOption
  <2> HIDE DEF k, stop, leave, step, Told, A1, A2, A3, A4, A5, items
  <2>3. \/ h = LeaveLoop(Respond(g, t))
        \/ h = LeaveLoop(Respond(k, t))
        \/ A3 /\ h = LeaveLoop(Told(step))
        \/ h = LeaveLoop(Told(stop))
        \/ h = Deinit(Begin(leave, items))
        \/ \E m \in Handled(k, name) : h = Told(m)
    BY <2>1
  <2> QED
    BY <2>3 DEF A3
<1>2. Only(g, k, {"lasttransid", "status", "answer", "seen"}) /\ k.seen = seen
  <2> HIDE DEF answer, seen, status
  <2> QED
    BY DEF Only, Fields
<1> HIDE DEF k
<1>3. Noted(x, name, k)
  <2>1. g.seen = x.seen
    BY DEF Only, Fields
  <2>2. Only(x, k, {"commands", "lasttransid", "status", "answer", "seen"})
    BY <1>2 DEF Only
  <2> QED
    BY <1>2, <2>1, <2>2 DEF Noted
<1>4. Rests(x, g) /\ DOMAIN k = Fields
  BY <1>2, RestsOnly DEF Resting, Walk, Only
<1>5. Rests(x, k)
  <2>1. /\ k.ini = x.ini /\ k.stack = x.stack /\ k.function_count = x.function_count
        /\ k.statements = x.statements /\ k.options = x.options /\ \A f \in Walk : k[f] = x[f]
    BY <1>3 DEF Noted, Only, Fields, Walk
  <2> QED
    BY <1>3, <1>4, <2>1 DEF Rests, Noted
<1>6. Only(k, stop, {"status"}) /\ Only(k, leave, {"status"})
  BY <1>4 DEF Only
<1> HIDE DEF stop, leave, step
<1>7. Rests(x, stop) /\ Rests(x, leave)
  <2>1. Rests(k, stop) /\ Rests(k, leave)
    BY <1>6, RestsOnly DEF Resting, Walk
  <2> QED
    BY <1>5, <2>1, RestsThen
<1>8. ASSUME NEW m, DOMAIN m = Fields
      PROVE  /\ Rests(m, Told(m)) /\ Rests(m, LeaveLoop(Told(m)))
             /\ Rests(m, LeaveLoop(Respond(m, t))) /\ Rests(m, Deinit(Begin(m, items)))
  <2>1. Rests(m, m) /\ Rests(m, Respond(m, t)) /\ Rests(m, Begin(m, items))
    BY <1>8, RestsOperations
  <2>2. ASSUME NEW r, Rests(m, r) PROVE Rests(m, LeaveLoop(r)) /\ Rests(m, Deinit(r))
    <3>1. Rests(r, LeaveLoop(r)) /\ Rests(r, Deinit(r))
      BY <2>2, RestsOperations DEF Rests
    <3> QED
      BY <2>2, <3>1, RestsThen
  <2> HIDE DEF items
  <2> QED
    BY <2>1, <2>2
<1>9. ASSUME NEW m, Rests(x, m) PROVE Acts(x, name, m) /\ DOMAIN m = Fields
  BY <1>9 DEF Acts, Rests
<1>10. ASSUME NEW m \in Handled(k, name) PROVE Acts(x, name, m)
  BY <1>3 DEF Acts
<1>11. name \in Continuing => Acts(x, name, step)
  BY <1>3 DEF Acts, step
<1> HIDE DEF Told, items
<1> QED
  BY <1>1, <1>4, <1>5, <1>7, <1>8, <1>9, <1>10, <1>11

LEMMA CommandActs ==
    ASSUME BInv, Command
    PROVE  \E name \in x.ini.commands : \E m :
              Acts(x, name, m) /\ (DOMAIN m = Fields => Rests(m, x'))
<1>1. PICK name \in x.ini.commands :
              x' \in ParseOption([x EXCEPT !.commands = Append(@,
                            [name |-> name, session |-> x.sessions, answers |-> 0])],
                            name, Len(x.commands) + 1)
  BY DEF Command
<1> DEFINE c == Append(x.commands, [name |-> name, session |-> x.sessions, answers |-> 0])
           g == [x EXCEPT !.commands = c]
           t == Len(x.commands) + 1
<1> HIDE DEF c
<1>2. Only(x, g, {"commands"})
  BY DEF BInv, Only
<1>3. x' \in ParseOption(g, name, t)
  BY <1>1 DEF c
<1> HIDE DEF g, t
<1>4. DOMAIN g = Fields /\ DOMAIN x = Fields
  BY <1>2 DEF Only
<1> QED
  BY <1>2, <1>3, <1>4, ParseActs

-----------------------------------------------------------------------------
(* Where a step ends *)

\* The calls in progress, in the order of their numbers.
Rising(stack, count) ==
    /\ IsSeq(stack)
    /\ \A i \in 1..Len(stack) : stack[i].nr \in 1..count
    /\ \A i, j \in 1..Len(stack) : i < j => stack[i].nr < stack[j].nr

\* The step began in the frame at a level: that frame and those before it are where
\* they were, as far as they are still in progress.
StartedAt(g, level) ==
    /\ level \in Nat /\ g.step.at \in 1..g.function_count
    /\ \A n \in g.step.frames : n \in Nat /\ n <= g.step.at
    /\ \A i \in 1..Len(g.stack) : /\ g.stack[i].nr = g.step.at => i = level
                                  /\ g.stack[i].nr < g.step.at => i < level

\* Of two ways to step the flags of one are set, with the level that it began at.
StepOK(g) ==
    g.step.at # 0 =>
        /\ g.step.kind = "step_over" => g.do_next /\ ~g.do_finish /\ StartedAt(g, g.next_level)
        /\ g.step.kind = "step_out" =>
              /\ g.do_finish /\ ~g.do_next /\ g.finish_func_nr = g.step.at
              /\ StartedAt(g, g.finish_level)

\* No session is enabled, nor about to be, once the tables have been freed.
FreedOK(g) == g.freed => ~g.remote_enabled /\ ~Pending(g.todo, "enabled")

WalkOK(g) == g.function_count \in Nat /\ Rising(g.stack, g.function_count) /\ StepOK(g)

LEMMA NoStepIs == NoStep.at = 0
BY DEF NoStep

LEMMA StartedSame ==
    ASSUME NEW g, NEW h, NEW level, StartedAt(g, level), h.step = g.step,
           IsSeq(g.stack), IsSeq(h.stack),
           g.function_count \in Nat, h.function_count \in Nat,
           h.function_count >= g.function_count,
           \A i \in 1..Len(h.stack) : \/ i \in 1..Len(g.stack) /\ h.stack[i] = g.stack[i]
                                      \/ h.stack[i].nr \in Nat /\ h.stack[i].nr > g.function_count
    PROVE  StartedAt(h, level)
<1>1. g.step.at \in 1..h.function_count
  BY DEF StartedAt
<1>2. ASSUME NEW i \in 1..Len(h.stack),
             h.stack[i].nr \in Nat, h.stack[i].nr > g.function_count,
             h.stack[i].nr = g.step.at \/ h.stack[i].nr < g.step.at
      PROVE  FALSE
  <2> DEFINE nr == h.stack[i].nr
             at == g.step.at
             count == g.function_count
  <2>1. at <= count /\ at \in Int /\ count \in Int
    BY DEF StartedAt
  <2>2. nr \in Int /\ nr > count /\ (nr = at \/ nr < at)
    BY <1>2
  <2> HIDE DEF nr, at, count
  <2> QED
    BY <2>1, <2>2
<1>3. ASSUME NEW i \in 1..Len(h.stack)
      PROVE  /\ h.stack[i].nr = g.step.at => i = level
             /\ h.stack[i].nr < g.step.at => i < level
  BY <1>2 DEF StartedAt
<1> QED
  BY <1>1, <1>3 DEF StartedAt

LEMMA StepOKSame ==
    ASSUME NEW g, NEW h, StepOK(g), \A f \in Walk : h[f] = g[f],
           \A level : StartedAt(g, level) => StartedAt(h, level)
    PROVE  StepOK(h)
<1>1. /\ h.step = g.step /\ h.do_next = g.do_next /\ h.do_finish = g.do_finish
      /\ h.next_level = g.next_level /\ h.finish_level = g.finish_level
      /\ h.finish_func_nr = g.finish_func_nr
  BY DEF Walk
<1> QED
  BY <1>1 DEF StepOK

LEMMA WalkRests ==
    ASSUME NEW g, NEW h, WalkOK(g), Rests(g, h)
    PROVE  WalkOK(h)
<1>1. h.stack = g.stack /\ h.function_count = g.function_count
  BY DEF Rests
<1>2. CASE h.step = NoStep
  BY <1>1, <1>2, NoStepIs DEF WalkOK, StepOK
<1>3. CASE \A f \in Walk : h[f] = g[f]
  <2>1. h.step = g.step
    BY <1>3 DEF Walk
  <2>2. \A level : StartedAt(g, level) => StartedAt(h, level)
    BY <1>1, <2>1 DEF StartedAt
  <2>3. StepOK(h)
    BY <1>3, <2>2, StepOKSame DEF WalkOK
  <2> QED
    BY <1>1, <2>3 DEF WalkOK
<1> QED
  BY <1>2, <1>3 DEF Rests

LEMMA WalkEntered ==
    ASSUME NEW g, NEW h, WalkOK(g), Entered(g, h)
    PROVE  WalkOK(h)
<1>1. PICK k, frame : /\ Only(g, k, {"stack", "function_count", "todo"})
                      /\ k.function_count = g.function_count + 1
                      /\ k.stack = Append(g.stack, frame) /\ frame.nr = k.function_count
                      /\ Rests(k, h)
  BY DEF Entered
<1> DEFINE n == Len(g.stack)
<1>2. /\ g.function_count \in Nat /\ IsSeq(g.stack) /\ n \in Nat
      /\ \A i \in 1..n : g.stack[i].nr \in 1..g.function_count
      /\ \A i, j \in 1..n : i < j => g.stack[i].nr < g.stack[j].nr
  BY SeqDomain DEF WalkOK, Rising
<1>3. /\ IsSeq(k.stack) /\ Len(k.stack) = n + 1
      /\ \A i \in 1..n : k.stack[i] = g.stack[i]
      /\ k.stack[n + 1].nr = g.function_count + 1
  BY <1>1, <1>2, AppendIsSeq
<1> HIDE DEF n
<1>4. \A i \in 1..Len(k.stack) : i \in 1..n \/ i = n + 1
  BY <1>2, <1>3
<1>5. \A i \in 1..Len(k.stack) : k.stack[i].nr \in 1..k.function_count
  BY <1>1, <1>2, <1>3, <1>4, SMTT(40)
<1>6. ASSUME NEW i \in 1..Len(k.stack), NEW j \in 1..Len(k.stack), i < j
      PROVE  k.stack[i].nr < k.stack[j].nr
  <2>1. i \in 1..n
    BY <1>2, <1>3, <1>4, <1>6
  <2>2. CASE j \in 1..n
    BY <1>2, <1>3, <1>6, <2>1, <2>2
  <2>3. CASE j = n + 1
    <3>1. g.stack[i].nr \in 1..g.function_count /\ k.stack[i] = g.stack[i]
      BY <1>2, <1>3, <2>1
    <3> QED
      BY <1>2, <1>3, <2>3, <3>1
  <2> QED
    BY <1>4, <2>2, <2>3
<1>7. Rising(k.stack, k.function_count)
  BY <1>3, <1>5, <1>6 DEF Rising
<1>8. \A f \in Walk : k[f] = g[f]
  BY <1>1 DEF Only, Walk, Fields
<1>9. ASSUME NEW level, StartedAt(g, level) PROVE StartedAt(k, level)
  <2>1. k.step = g.step
    BY <1>8 DEF Walk
  <2>2. k.function_count \in Nat /\ k.function_count >= g.function_count
    BY <1>1, <1>2
  <2>3. \A i \in 1..Len(k.stack) : \/ i \in 1..Len(g.stack) /\ k.stack[i] = g.stack[i]
                                   \/ k.stack[i].nr \in Nat /\ k.stack[i].nr > g.function_count
    <3>1. k.stack[n + 1].nr \in Nat /\ k.stack[n + 1].nr > g.function_count
      BY <1>2, <1>3
    <3> QED
      BY <1>3, <1>4, <3>1 DEF n
  <2> QED
    BY <1>2, <1>3, <1>9, <2>1, <2>2, <2>3, StartedSame
<1>10. StepOK(k)
  BY <1>8, <1>9, StepOKSame DEF WalkOK
<1>11. WalkOK(k)
  BY <1>1, <1>2, <1>7, <1>10 DEF WalkOK
<1> QED
  BY <1>1, <1>11, WalkRests

LEMMA FrontIs ==
    ASSUME NEW s, IsSeq(s)
    PROVE  /\ IsSeq(Front(s)) /\ Len(Front(s)) <= Len(s)
           /\ \A i \in 1..Len(Front(s)) : i \in 1..Len(s) /\ Front(s)[i] = s[i]
<1>1. s \in Seq(Range(s)) /\ Len(s) \in Nat
  BY SeqDomain DEF IsSeq
<1>2. Front(s) = SubSeq(s, 1, Len(s) - 1)
  BY DEF Front
<1>3. CASE Len(s) = 0
  <2>1. Front(s) = << >>
    BY <1>1, <1>2, <1>3
  <2> QED
    BY <1>1, <1>3, <2>1, EmptyIs
<1>4. CASE Len(s) # 0
  <2> DEFINE n == Len(s) - 1
  <2>1. n \in Nat /\ n <= Len(s)
    BY <1>1, <1>4
  <2> HIDE DEF n
  <2>2. \A i \in 1..n : s[i] \in Range(s)
    BY <1>1, <2>1, SeqDomain
  <2>3. /\ SubSeq(s, 1, n) \in Seq(Range(s)) /\ Len(SubSeq(s, 1, n)) = n
        /\ \A i \in 1..n : SubSeq(s, 1, n)[i] = s[i]
    BY <2>1, <2>2, SubSeqProperties
  <2> QED
    <3>1. Front(s) = SubSeq(s, 1, n)
      BY <1>2 DEF n
    <3>2. IsSeq(SubSeq(s, 1, n))
      BY <2>3, SeqIsSeq
    <3> QED
      BY <1>1, <2>1, <2>3, <3>1, <3>2
<1> QED
  BY <1>3, <1>4

LEMMA WalkLeft ==
    ASSUME NEW g, NEW h, WalkOK(g), Left(g, h)
    PROVE  WalkOK(h)
<1>1. /\ IsSeq(h.stack) /\ IsSeq(g.stack) /\ Len(h.stack) <= Len(g.stack)
      /\ Len(h.stack) \in Nat /\ Len(g.stack) \in Nat
      /\ \A i \in 1..Len(h.stack) : i \in 1..Len(g.stack) /\ h.stack[i] = g.stack[i]
  BY FrontIs, SeqDomain DEF Left, WalkOK, Rising
<1>2. h.function_count = g.function_count /\ \A f \in Walk : h[f] = g[f]
  BY DEF Left, Only, Walk, Fields
<1>3. g.function_count \in Nat
  BY DEF WalkOK
<1>4. Rising(h.stack, h.function_count)
  BY <1>1, <1>2 DEF WalkOK, Rising
<1>5. h.step = g.step
  BY <1>2 DEF Walk
<1>6. ASSUME NEW level, StartedAt(g, level) PROVE StartedAt(h, level)
  BY <1>1, <1>2, <1>3, <1>5, <1>6, StartedSame
<1> QED
  BY <1>2, <1>3, <1>4, <1>6, StepOKSame DEF WalkOK

LEMMA WalkSame ==
    ASSUME NEW g, NEW h, WalkOK(g), NEW S, Only(g, h, S),
           S \cap (Walk \cup {"stack", "function_count"}) = {}
    PROVE  WalkOK(h)
<1>1. h.stack = g.stack /\ h.function_count = g.function_count /\ \A f \in Walk : h[f] = g[f]
  BY DEF Only, Walk, Fields
<1>2. h.step = g.step
  BY <1>1 DEF Walk
<1>3. \A level : StartedAt(g, level) => StartedAt(h, level)
  BY <1>1, <1>2 DEF StartedAt
<1> QED
  BY <1>1, <1>3, StepOKSame DEF WalkOK

LEMMA WalkStepping ==
    ASSUME NEW g, DOMAIN g = Fields, WalkOK(g), NEW name \in Continuing
    PROVE  WalkOK(Stepping(Continue(g, name), name))
<1> DEFINE c == Continue(g, name)
           l == IF g.stack = <<>> THEN -1 ELSE Len(g.stack)
           n == IF g.stack = <<>> THEN -1 ELSE Last(g.stack).nr
           s == [kind |-> name, frames |-> {c.stack[i].nr : i \in DOMAIN c.stack},
                 at |-> IF c.stack = <<>> THEN 0 ELSE Last(c.stack).nr]
           m == [c EXCEPT !.step = s]
<1>1. \/ name \in {"run", "step_into"}
         /\ \/ c = g
            \/ c = [g EXCEPT !.do_next = FALSE, !.do_step = TRUE, !.do_finish = FALSE]
      \/ name = "step_over"
         /\ c = [g EXCEPT !.do_next = TRUE, !.do_step = FALSE, !.do_finish = FALSE,
                          !.next_level = Len(g.stack)]
      \/ name = "step_out"
         /\ c = [g EXCEPT !.do_next = FALSE, !.do_step = FALSE, !.do_finish = TRUE,
                          !.finish_level = l, !.finish_func_nr = n]
  BY DEF Continue, StepOut, Continuing
<1>2. Stepping(c, name) = m
  BY DEF Stepping
<1> HIDE DEF l, n, c
<1>3. /\ DOMAIN c = Fields /\ c.stack = g.stack /\ c.function_count = g.function_count
      /\ name = "step_over" => c.do_next /\ ~c.do_finish /\ c.next_level = Len(g.stack)
      /\ name = "step_out" => /\ c.do_finish /\ ~c.do_next /\ c.finish_level = l
                              /\ c.finish_func_nr = n
  <2>1. CASE /\ name \in {"run", "step_into"}
             /\ \/ c = g
                \/ c = [g EXCEPT !.do_next = FALSE, !.do_step = TRUE, !.do_finish = FALSE]
    BY <2>1 DEF Fields
  <2>2. CASE /\ name = "step_over"
             /\ c = [g EXCEPT !.do_next = TRUE, !.do_step = FALSE, !.do_finish = FALSE,
                              !.next_level = Len(g.stack)]
    BY <2>2 DEF Fields
  <2>3. CASE /\ name = "step_out"
             /\ c = [g EXCEPT !.do_next = FALSE, !.do_step = FALSE, !.do_finish = TRUE,
                              !.finish_level = l, !.finish_func_nr = n]
    BY <2>3 DEF Fields
  <2> QED
    BY <1>1, <2>1, <2>2, <2>3
<1>4. /\ s.kind = name /\ s.frames = {g.stack[i].nr : i \in DOMAIN g.stack}
      /\ s.at = IF g.stack = <<>> THEN 0 ELSE Last(g.stack).nr
  BY <1>3
<1> HIDE DEF s
<1>5. /\ m.step = s /\ m.stack = g.stack /\ m.function_count = g.function_count
      /\ m.do_next = c.do_next /\ m.do_finish = c.do_finish /\ m.next_level = c.next_level
      /\ m.finish_level = c.finish_level /\ m.finish_func_nr = c.finish_func_nr
  BY <1>3 DEF Fields
<1> HIDE DEF m
<1> DEFINE d == Len(g.stack)
<1>6. /\ IsSeq(g.stack) /\ d \in Nat /\ DOMAIN g.stack = 1..d
      /\ g.function_count \in Nat /\ Rising(g.stack, g.function_count)
  BY SeqDomain DEF WalkOK, Rising
<1>7. ASSUME s.at # 0
      PROVE  StartedAt(m, d) /\ l = d /\ n = s.at
  <2>1. g.stack # <<>> /\ d >= 1 /\ Last(g.stack) = g.stack[d]
    <3>1. g.stack # <<>>
      BY <1>4, <1>7
    <3>2. d # 0
      BY <1>6, <3>1, EmptySeq DEF IsSeq
    <3> QED
      BY <1>6, <3>1, <3>2 DEF Last
  <2>2. s.at = g.stack[d].nr /\ l = d /\ n = s.at
    BY <1>4, <2>1 DEF l, n
  <2> HIDE DEF d
  <2>3. /\ \A i \in 1..d : g.stack[i].nr \in 1..g.function_count
        /\ \A i, j \in 1..d : i < j => g.stack[i].nr < g.stack[j].nr
    BY <1>6 DEF Rising, d
  <2>4. ASSUME NEW i \in 1..d
        PROVE  /\ g.stack[i].nr \in Nat /\ g.stack[i].nr <= s.at
               /\ g.stack[i].nr = s.at => i = d
               /\ g.stack[i].nr < s.at => i < d
    <3>1. g.stack[i].nr \in 1..g.function_count /\ g.stack[d].nr \in 1..g.function_count
      BY <1>6, <2>1, <2>3
    <3>2. CASE i = d
      BY <1>6, <2>2, <3>1, <3>2
    <3>3. CASE i # d
      <4>1. i < d /\ d \in 1..d
        BY <1>6, <2>1, <3>3
      <4>2. g.stack[i].nr < g.stack[d].nr
        BY <2>3, <4>1
      <4> QED
        BY <1>6, <2>2, <3>1, <4>1, <4>2
    <3> QED
      BY <3>2, <3>3
  <2>5. \A e \in s.frames : e \in Nat /\ e <= s.at
    BY <1>4, <1>6, <2>4
  <2>6. s.at \in 1..g.function_count
    BY <1>6, <2>1, <2>2, <2>3
  <2>7. StartedAt(m, d)
    BY <1>5, <1>6, <2>4, <2>5, <2>6 DEF StartedAt, d
  <2> QED
    BY <2>2, <2>7
<1>8. StepOK(m)
  <2> SUFFICES ASSUME s.at # 0 PROVE StepOK(m)
    BY <1>5 DEF StepOK
  <2>1. name = "step_over" => m.do_next /\ ~m.do_finish /\ StartedAt(m, m.next_level)
    BY <1>3, <1>5, <1>7
  <2>2. name = "step_out" =>
          m.do_finish /\ ~m.do_next /\ m.finish_func_nr = s.at /\ StartedAt(m, m.finish_level)
    BY <1>3, <1>5, <1>7
  <2> QED
    BY <1>4, <1>5, <2>1, <2>2 DEF StepOK
<1>9. WalkOK(m)
  BY <1>5, <1>6, <1>8 DEF WalkOK
<1> QED
  BY <1>2, <1>9 DEF c, m

LEMMA WalkCommand ==
    ASSUME BInv, WalkOK(x), Command
    PROVE  WalkOK(x')
<1>1. PICK name, m : Acts(x, name, m) /\ (DOMAIN m = Fields => Rests(m, x'))
  BY CommandActs
<1>2. WalkOK(m) /\ DOMAIN m = Fields
  <2>1. CASE Rests(x, m)
    BY <2>1, WalkRests DEF Rests
  <2>2. ASSUME NEW k, Noted(x, name, k),
               \/ name \in Continuing /\ m = Stepping(Continue(k, name), name)
               \/ m \in Handled(k, name)
        PROVE  WalkOK(m) /\ DOMAIN m = Fields
    <3>1. /\ Only(x, k, {"commands", "lasttransid", "status", "answer", "seen"})
          /\ DOMAIN k = Fields /\ k.ini = x.ini
      BY <2>2 DEF Noted, Only, Fields
    <3>2. WalkOK(k)
      BY <3>1, WalkSame DEF Walk
    <3>3. CASE name \in Continuing /\ m = Stepping(Continue(k, name), name)
      <4>1. DOMAIN m = Fields
        BY <3>1, <3>3, SteppingOnly DEF Only
      <4> QED
        BY <3>1, <3>2, <3>3, <4>1, WalkStepping
    <3>4. CASE m \in Handled(k, name)
      <4>1. BreakpointsOK(k) /\ k.ini \in Apps
        BY <3>1, BreakpointsKept DEF BInv, Kept, Placed
      <4>2. Changes(k, m)
        BY <3>1, <3>4, <4>1, HandledChanges
      <4>3. Only(k, m, Kept \cup Viewed)
        BY <4>2 DEF Changes
      <4> QED
        BY <3>2, <4>3, WalkSame DEF Kept, Placed, Viewed, Walk, Only
    <3> QED
      BY <2>2, <3>3, <3>4
  <2> QED
    BY <1>1, <2>1, <2>2 DEF Acts
<1> QED
  BY <1>1, <1>2, WalkRests

\* The bounds of the calls that the engine has dropped.
LEMMA BaseNext ==
    ASSUME WalkOK(x), base \in Nat, [Next]_vars
    PROVE  base' \in Nat
<1>1. CASE Bailout
  BY <1>1, SeqDomain DEF Bailout, WalkOK, Rising
<1>2. CASE ~Bailout
  <2>1. UNCHANGED base
    BY <1>2 DEF Next, vars, RunScript, Call, Return, Statement, Throw, RaiseError, EndRequest,
                Command, HangUp, EndOfFile, Resume
  <2> QED
    BY <2>1
<1> QED
  BY <1>1, <1>2

LEMMA WalkNext ==
    ASSUME BInv, WalkOK(x), [Next]_vars
    PROVE  WalkOK(x')
<1>1. DOMAIN x = Fields
  BY DEF BInv
<1>2. CASE RunScript \/ Call \/ Return
  BY <1>1, <1>2, CallMoves, WalkRests, WalkEntered
<1>6. CASE Statement \/ Throw \/ RaiseError
  <2>1. WalkOK(Counted(x))
    BY <1>1, CountedOnly, WalkSame DEF Walk
  <2> QED
    BY <1>1, <1>6, <2>1, StatementMoves, WalkRests
<1>3. CASE Command
  BY <1>3, WalkCommand
<1>4. CASE Resume
  BY <1>4, ResumeMoves, WalkRests, WalkEntered, WalkLeft
<1>5. CASE EndRequest \/ HangUp \/ EndOfFile \/ Bailout \/ UNCHANGED vars
  BY <1>1, <1>5, OtherMoves, WalkRests
<1> QED
  BY <1>2, <1>3, <1>4, <1>5, <1>6 DEF Next

LEMMA FreedAdvance == ASSUME BInv, FreedOK(x), Advance PROVE FreedOK(x')
<1>1. PICK items, k : /\ Plain(items) /\ Goes(x, k, items) /\ IsSeq(items)
                      /\ \/ x' = k
                         \/ x.remote_enabled /\ x' = Break(k)
                         \/ ~x.remote_enabled /\ x' = DbgpInit(k)
  BY AdvanceIs
<1>2. /\ DOMAIN k = Fields /\ k.todo = items /\ k.remote_enabled = x.remote_enabled
      /\ k.freed = x.freed
  BY <1>1, GoesFields
<1>3. ~Pending(items, "enabled")
  BY <1>1, PendingPlain DEF Inner
<1>4. x.remote_enabled /\ x' = Break(k) => ~x'.freed
  BY <1>2, BreakKeeps DEF FreedOK
<1>5. x' = DbgpInit(k) => ~x'.freed
  BY <1>2, DbgpInitOnly
<1> QED
  BY <1>1, <1>2, <1>3, <1>4, <1>5 DEF FreedOK

LEMMA FreedEndRequest == ASSUME BInv, FreedOK(x), EndRequest PROVE FreedOK(x')
<1> DEFINE c == Begin(x, <<[do |-> "close"]>>)
<1>1. /\ DOMAIN x = Fields
      /\ x' = x \/ (x.remote_enabled /\ x' = Deinit(c))
  BY EndRequestIs
<1>2. DOMAIN c = Fields /\ c.freed = x.freed
  BY <1>1, BeginKeeps
<1> HIDE DEF c
<1>3. x.remote_enabled /\ x' = Deinit(c) => ~x'.freed
  BY <1>2, DeinitKeeps DEF FreedOK
<1> QED
  BY <1>1, <1>3 DEF FreedOK

LEMMA FreedCommand == ASSUME BInv, FreedOK(x), Command PROVE FreedOK(x')
<1>1. PICK name, t, g, m : Read(g, name, t) /\ Only(g, m, Asked) /\ Parsed(g, name, t, m, x')
  BY CommandRead DEF CommandIs
<1>2. /\ DOMAIN m = Fields /\ m.remote_enabled = x.remote_enabled /\ m.freed = x.freed
      /\ m.todo = x.todo
  BY <1>1, ReadKeeps
<1>3. HeadIs(x.todo, "loop") /\ IsSeq(x.todo)
  BY DEF BInv, Command, AtLoop, HeadIs, TodoOK
<1>4. ASSUME NEW r, DOMAIN r = Fields, r = m \/ r = Respond(m, t), x' = LeaveLoop(r)
      PROVE  FreedOK(x')
  <2>1. r.remote_enabled = x.remote_enabled /\ r.todo = x.todo /\ r.freed = x.freed
    BY <1>2, <1>4, RespondKeeps
  <2>2. x'.remote_enabled = x.remote_enabled /\ x'.freed = x.freed
    BY <1>4, <2>1, LeaveKeeps
  <2>3. Pending(x'.todo, "enabled") => Pending(x.todo, "enabled")
    BY <1>3, <1>4, <2>1, LoopLeft
  <2> QED
    BY <2>2, <2>3 DEF FreedOK
<1>5. CASE x' = Respond(m, t)
  BY <1>2, <1>5, RespondKeeps DEF FreedOK
<1>6. CASE x' = Deinit(Begin(m, <<[do |-> "detached", id |-> t]>>))
  <2> DEFINE a == [do |-> "detached", id |-> t]
             s == <<a>>
             b == Begin(m, s)
  <2>1. a.do = "detached"
    OBVIOUS
  <2> HIDE DEF a
  <2>2. Pushed(s \o x.todo, a, x.todo)
    BY <1>3, PushIs
  <2> HIDE DEF s
  <2>3. /\ DOMAIN b = Fields /\ b.remote_enabled = x.remote_enabled /\ b.freed = x.freed
        /\ b.todo = s \o x.todo
    BY <1>2, BeginKeeps, ZenonT(60)
  <2>4. x' = Deinit(b)
    BY <1>6 DEF a, b, s
  <2> HIDE DEF b
  <2>5. x'.remote_enabled = x.remote_enabled /\ x'.freed = x.freed
    BY <2>3, <2>4, DeinitKeeps
  <2>6. ~x.remote_enabled => x'.todo = b.todo
    BY <2>3, <2>4, DeinitOnly
  <2>7. Pending(b.todo, "enabled") <=> Pending(x.todo, "enabled")
    BY <2>1, <2>2, <2>3, PendingPushed
  <2> QED
    BY <2>5, <2>6, <2>7 DEF FreedOK
<1> QED
  BY <1>1, <1>2, <1>4, <1>5, <1>6, ParsedIs

LEMMA FreedResume == ASSUME BInv, CInv, FreedOK(x), Resume PROVE FreedOK(x')
<1> DEFINE item == Head(x.todo)
           rest == Tail(x.todo)
<1>1. ResumeIs /\ x.todo # <<>> /\ IsSeq(x.todo) /\ DOMAIN x = Fields
  BY ResumedIs DEF BInv, Resume, TodoOK
<1>2. Pushed(x.todo, item, rest)
  BY <1>1, HeadAndTail
<1>3. /\ Pending(x.todo, "enabled") <=> item.do = "enabled" \/ Pending(rest, "enabled")
      /\ \A kind : HeadIs(x.todo, kind) <=> item.do = kind
  BY <1>2, PendingPushed
<1>4. IsSeq(rest)
  BY <1>2 DEF Pushed
<1>5. CASE item.do \in Inner
  <2>1. PICK k : Goes(x, k, rest) /\ (x' = k \/ x' = Break(k))
    BY <1>1, <1>5 DEF ResumeIs, Inner
  <2>2. /\ DOMAIN k = Fields /\ k.todo = rest /\ k.remote_enabled = x.remote_enabled
        /\ k.freed = x.freed
    BY <2>1, GoesFields
  <2>3. CASE x' = k
    BY <1>3, <2>2, <2>3 DEF FreedOK
  <2>4. CASE x' = Break(k)
    <3>1. /\ x'.todo = <<Loop(TRUE)>> \o rest /\ x'.remote_enabled = x.remote_enabled
          /\ x'.freed = x.freed
      BY <2>2, <2>4, BreakOnly, BreakKeeps
    <3>2. Pending(<<Loop(TRUE)>> \o rest, "enabled") <=> Pending(rest, "enabled")
      BY <1>4, PendingStarts
    <3> QED
      BY <1>3, <3>1, <3>2 DEF FreedOK
  <2> QED
    BY <2>1, <2>3, <2>4
<1>6. CASE item.do = "enabled"
  <2>1. Only(x, x', {"todo", "remote_enabled"})
    BY <1>1, <1>6 DEF ResumeIs, Inner
  <2>2. x'.freed = x.freed /\ ~x.freed
    BY <1>3, <1>6, <2>1 DEF Only, Fields, FreedOK
  <2> QED
    BY <2>2 DEF FreedOK
<1>7. CASE item.do = "deinit"
  <2>1. x'.todo = rest /\ x'.remote_enabled = FALSE
    BY <1>1, <1>7 DEF ResumeIs, Inner
  <2>2. ~Pending(x.todo, "enabled")
    BY <1>3, <1>7 DEF CInv, Starting, Enabling, Opening, Declining
  <2> QED
    BY <1>3, <2>1, <2>2 DEF FreedOK
<1>8. CASE item.do = "close"
  <2>1. Only(x, x', {"todo", "sockets", "connected"}) /\ x'.todo = rest
    BY <1>1, <1>8 DEF ResumeIs, Inner
  <2>2. x'.freed = x.freed /\ x'.remote_enabled = x.remote_enabled
    BY <2>1 DEF Only, Fields
  <2> QED
    BY <1>3, <2>1, <2>2 DEF FreedOK
<1>9. CASE item.do = "detached"
  <2>1. PICK k : /\ Only(x, k, {"todo", "remote_enabled", "detached", "commands", "early"})
                 /\ k.todo = rest /\ k.remote_enabled = FALSE /\ x' = LeaveLoop(k)
    BY <1>1, <1>9 DEF ResumeIs, Inner
  <2>2. DOMAIN k = Fields /\ k.freed = x.freed
    BY <2>1 DEF Only, Fields
  <2>3. x'.remote_enabled = FALSE /\ x'.freed = x.freed
    BY <2>1, <2>2, LeaveKeeps
  <2>4. HeadIs(rest, "loop")
    BY <1>1, <1>9, TodoHead DEF BInv, HeadIs
  <2>5. Pending(x'.todo, "enabled") => Pending(rest, "enabled")
    BY <1>4, <2>1, <2>2, <2>4, LoopLeft
  <2> QED
    BY <1>3, <2>3, <2>5 DEF FreedOK
<1> QED
  BY <1>1, <1>5, <1>6, <1>7, <1>8, <1>9 DEF ResumeIs

LEMMA FreedNext == ASSUME BInv, CInv, FreedOK(x), [Next]_vars PROVE FreedOK(x')
<1>1. IsSeq(x.todo) /\ DOMAIN x = Fields
  BY DEF BInv, TodoOK
<1>2. CASE HangUp
  <2>1. Only(x, x', {"connected"})
    BY <1>1, <1>2 DEF HangUp, Only
  <2>2. x'.todo = x.todo /\ x'.remote_enabled = x.remote_enabled /\ x'.freed = x.freed
    BY <2>1 DEF Only, Fields
  <2> QED
    BY <2>2 DEF FreedOK
<1>3. CASE EndOfFile
  <2>1. x' = Done(x) /\ x.todo # <<>>
    BY <1>3 DEF EndOfFile, AtLoop
  <2>2. Goes(x, x', Tail(x.todo))
    BY <1>1, <2>1, GoesDone
  <2>3. /\ x'.todo = Tail(x.todo) /\ x'.remote_enabled = x.remote_enabled
        /\ x'.freed = x.freed
    BY <2>2, GoesFields
  <2>4. Pushed(x.todo, Head(x.todo), Tail(x.todo))
    BY <1>1, <2>1, HeadAndTail
  <2>5. Pending(x'.todo, "enabled") => Pending(x.todo, "enabled")
    BY <2>3, <2>4, PendingPushed
  <2> QED
    BY <2>3, <2>5 DEF FreedOK
<1>4. CASE Bailout
  <2>1. x' = [x EXCEPT !.todo = <<>>, !.step = NoStep]
    BY <1>4 DEF Bailout
  <2>2. x'.todo = <<>> /\ x'.remote_enabled = x.remote_enabled /\ x'.freed = x.freed
    BY <1>1, <2>1 DEF Fields
  <2> QED
    BY <2>2, PendingNone DEF FreedOK
<1>5. CASE UNCHANGED vars
  BY <1>5 DEF FreedOK, vars
<1> QED
  BY <1>2, <1>3, <1>4, <1>5, FreedAdvance, FreedEndRequest, FreedCommand, FreedResume
  DEF Next, Advance

\* The statements do not count but in a statement, a throw or an error.
LEMMA StatementsSame ==
    ASSUME BInv, [Next]_vars, ~(Statement \/ Throw \/ RaiseError)
    PROVE  x'.statements = x.statements
<1>1. DOMAIN x = Fields
  BY DEF BInv
<1>2. ASSUME NEW g, NEW h, Rests(g, h) \/ Entered(g, h) \/ Left(g, h)
      PROVE  h.statements = g.statements
  BY <1>2 DEF Entered, Left, Rests, Only, Fields
<1>3. CASE Command
  <2>1. PICK name, m : Acts(x, name, m) /\ (DOMAIN m = Fields => Rests(m, x'))
    BY <1>3, CommandActs
  <2>2. ASSUME NEW k, Noted(x, name, k),
               \/ name \in Continuing /\ m = Stepping(Continue(k, name), name)
               \/ m \in Handled(k, name)
        PROVE  m.statements = x.statements /\ DOMAIN m = Fields
    <3>1. /\ Only(x, k, {"commands", "lasttransid", "status", "answer", "seen"})
          /\ DOMAIN k = Fields /\ k.ini = x.ini /\ k.statements = x.statements
      BY <2>2 DEF Noted, Only, Fields
    <3>2. CASE name \in Continuing /\ m = Stepping(Continue(k, name), name)
      BY <3>1, <3>2, SteppingOnly DEF Only, Fields
    <3>3. CASE m \in Handled(k, name)
      <4>1. BreakpointsOK(k) /\ k.ini \in Apps
        BY <3>1, BreakpointsKept DEF BInv, Kept, Placed
      <4>2. Changes(k, m)
        BY <3>1, <3>3, <4>1, HandledChanges
      <4> QED
        BY <3>1, <4>2 DEF Changes, Only, Kept, Placed, Viewed, Fields
    <3> QED
      BY <2>2, <3>2, <3>3
  <2>3. m.statements = x.statements /\ DOMAIN m = Fields
    BY <1>2, <2>1, <2>2 DEF Acts, Rests
  <2> QED
    BY <1>2, <2>1, <2>3
<1>4. CASE RunScript \/ Call \/ Return
  BY <1>1, <1>2, <1>4, CallMoves
<1>5. CASE Resume
  BY <1>2, <1>5, ResumeMoves
<1>6. CASE EndRequest \/ HangUp \/ EndOfFile \/ Bailout \/ UNCHANGED vars
  BY <1>1, <1>2, <1>6, OtherMoves
<1> QED
  BY <1>3, <1>4, <1>5, <1>6 DEF Next

\* The frame on top, seen from where the step began.
LEMMA StartedTop ==
    ASSUME NEW g, WalkOK(g), Len(g.stack) >= 1, NEW level, StartedAt(g, level)
    PROVE  LET n  == Len(g.stack)
               nr == Last(g.stack).nr
               at == g.step.at
           IN  /\ n \in Nat /\ level \in Nat /\ nr \in Nat /\ at \in Nat
               /\ nr \in g.step.frames => n <= level
               /\ nr \in g.step.frames \ {at} => n < level
               /\ (\E i \in DOMAIN g.stack : g.stack[i].nr = at)
                    => level <= n /\ (level = n => nr = at)
<1> DEFINE n  == Len(g.stack)
           nr == Last(g.stack).nr
           at == g.step.at
<1>1. /\ n \in Nat /\ n >= 1 /\ DOMAIN g.stack = 1..n /\ n \in 1..n
      /\ g.function_count \in Nat
  BY SeqDomain DEF WalkOK, Rising
<1>2. nr = g.stack[n].nr
  BY DEF Last
<1>3. nr \in 1..g.function_count /\ at \in 1..g.function_count /\ level \in Nat
  BY <1>1, <1>2 DEF WalkOK, Rising, StartedAt
<1>4. /\ \A e \in g.step.frames : e \in Nat /\ e <= at
      /\ \A i \in 1..n : /\ g.stack[i].nr = at => i = level
                         /\ g.stack[i].nr < at => i < level
  BY DEF StartedAt
<1>5. (nr = at => n = level) /\ (nr < at => n < level)
  BY <1>1, <1>2, <1>4
<1>6. ASSUME NEW i \in DOMAIN g.stack, g.stack[i].nr = at
      PROVE  level <= n /\ (level = n => nr = at)
  <2>1. i = level /\ i \in 1..n
    BY <1>1, <1>4, <1>6
  <2> HIDE DEF n, nr, at
  <2> QED
    BY <1>1, <1>2, <1>6, <2>1
<1> HIDE DEF n, nr, at
<1>7. /\ nr \in g.step.frames => n <= level
      /\ nr \in g.step.frames \ {at} => n < level
  BY <1>1, <1>3, <1>4, <1>5
<1>8. nr \in Nat /\ at \in Nat
  BY <1>1, <1>3
<1> QED
  BY <1>1, <1>3, <1>6, <1>7, <1>8 DEF n, nr, at

LEMMA BrokenTodo ==
    ASSUME NEW k, DOMAIN k = Fields, IsSeq(k.todo)
    PROVE  Break(k).todo # <<>>
<1>1. Break(k).todo = <<Loop(TRUE)>> \o k.todo
  BY BreakOnly
<1> QED
  BY <1>1, PushIs DEF Pushed

\* A throw or an error has something to do, and leaves the step as it is.
LEMMA ThrowLeaves ==
    ASSUME BInv, x.remote_enabled, Throw \/ RaiseError
    PROVE  x'.todo # <<>> /\ x'.do_next = x.do_next /\ x'.do_finish = x.do_finish
<1>1. DOMAIN x = Fields /\ x.todo = <<>>
  BY DEF BInv, Throw, RaiseError, Going
<1>2. PICK items : x' \in DoJit(Begin(Counted(x), items)) /\ items \o <<>> # <<>>
  <2>1. ASSUME NEW a, NEW s, IsSeq(s) PROVE (<<a>> \o s) \o <<>> # <<>>
    <3>1. Pushed(<<a>> \o s, a, s)
      BY <2>1, PushIs
    <3>2. <<a>> \o s \in Seq(Range(<<a>> \o s)) /\ <<a>> \o s # <<>>
      BY <3>1 DEF Pushed, IsSeq
    <3>3. (<<a>> \o s) \o <<>> = <<a>> \o s
      BY <3>2, ConcatEmptySeq
    <3> QED
      BY <3>2, <3>3
  <2>2. ASSUME NEW a PROVE <<a>> \o <<>> # <<>> /\ IsSeq(<<a>>)
    <3>1. IsSeq(<<a>>)
      <4>1. <<a>> \in Seq({a})
        OBVIOUS
      <4> QED
        BY <4>1, SeqIsSeq
    <3> QED
      BY <3>1, EmptyIs, PushIs DEF Pushed
  <2>3. CASE Throw
    <3>1. \E a : x' \in DoJit(Begin(Counted(x), <<a>>))
      BY <2>3 DEF Throw
    <3> QED
      BY <2>2, <3>1
  <2>4. CASE RaiseError
    <3>1. \E a, s : x' \in DoJit(Begin(Counted(x), <<a>> \o s)) /\ IsSeq(s)
      <4>1. PICK type : x' \in DoJit(Begin(Counted(x),
                   <<[do |-> "exception", names |-> <<type, "*">>]>> \o
                      (IF type = "Fatal error" THEN <<[do |-> "bail"]>> ELSE <<>>)))
        BY <2>4 DEF RaiseError
      <4>2. IsSeq(IF type = "Fatal error" THEN <<[do |-> "bail"]>> ELSE <<>>)
        BY <2>2, EmptyIs
      <4> QED
        BY <4>1, <4>2
    <3> QED
      BY <2>1, <3>1
  <2> QED
    BY <2>3, <2>4
<1> DEFINE c == Counted(x)
           m == Begin(c, items)
<1>3. Only(x, c, {"statements"}) /\ DOMAIN c = Fields
  BY <1>1, CountedOnly DEF Only
<1> HIDE DEF c
<1>4. Only(c, m, {"todo"}) /\ m.todo = items \o c.todo
  BY <1>3, BeginOnly
<1> HIDE DEF m
<1>5. /\ m.remote_enabled /\ m.do_next = x.do_next /\ m.do_finish = x.do_finish
      /\ c.todo = <<>>
  BY <1>1, <1>3, <1>4 DEF Only, Fields
<1>6. x' = m
  BY <1>2, <1>5, DoJitIs DEF m, c
<1> QED
  BY <1>2, <1>4, <1>5, <1>6

\* What a step over and a step out promise of a step of the script; ends says that the
\* hook has ended a step.
Lands(g, h) ==
    LET nr     == Last(g.stack).nr
        within == \E i \in DOMAIN g.stack : g.stack[i].nr = g.step.at
        ends   == (g.do_next /\ ~h.do_next) \/ (g.do_finish /\ ~h.do_finish)
    IN  CASE g.step.kind = "step_over" ->
                /\ nr \in g.step.frames => h.todo # <<>>
                /\ ends => nr = g.step.at \/ ~within
          [] g.step.kind = "step_out" ->
                /\ nr \in g.step.frames \ {g.step.at} => h.todo # <<>>
                /\ ends => ~within
          [] OTHER -> TRUE

LEMMA LandsStopped ==
    ASSUME NEW g, NEW h, h.todo # <<>>, h.do_next = g.do_next, h.do_finish = g.do_finish
    PROVE  Lands(g, h)
BY DEF Lands

LEMMA LandsChecks ==
    ASSUME NEW g, DOMAIN g = Fields, WalkOK(g), Len(g.stack) >= 1, g.step.at # 0,
           ~g.freed, IsSeq(g.todo), NEW line, NEW h \in Checks(g, line)
    PROVE  Lands(g, h)
<1> DEFINE level   == Len(g.stack)
           func_nr == Last(g.stack).nr
           finish  == g.do_finish /\ \/ level < g.finish_level
                                     \/ level = g.finish_level /\ func_nr > g.finish_func_nr
           next    == g.do_next /\ g.next_level >= level
           within  == \E i \in DOMAIN g.stack : g.stack[i].nr = g.step.at
           kind    == g.step.kind
<1>1. ASSUME NEW k, NEW S, Only(g, k, S),
             S \subseteq {"do_finish", "do_next", "do_step"} \cup Tables
      PROVE  DOMAIN k = Fields /\ Break(k).todo # <<>>
  <2>1. DOMAIN k = Fields /\ k.todo = g.todo
    BY <1>1 DEF Only, Tables, Fields
  <2> QED
    BY <2>1, BrokenTodo
<1>2. ASSUME NEW k, NEW S, Only(g, k, S), S \subseteq {"do_step"} \cup Tables
      PROVE  Break(k).do_next = g.do_next /\ Break(k).do_finish = g.do_finish
  <2>1. DOMAIN k = Fields /\ k.do_next = g.do_next /\ k.do_finish = g.do_finish
    BY <1>2 DEF Only, Tables, Fields
  <2>2. Only(k, Break(k), Breaking)
    BY <2>1, BreakOnly
  <2> QED
    BY <2>1, <2>2 DEF Only, Breaking, Fields
<1>3. ASSUME NEW S, Only(g, h, S), S \subseteq Tables
      PROVE  h.do_next = g.do_next /\ h.do_finish = g.do_finish
  BY <1>3 DEF Only, Tables, Fields
<1>4. \/ finish /\ h.todo # <<>>
      \/ ~finish /\ next /\ h.todo # <<>>
      \/ /\ ~finish /\ ~next
         /\ h.do_next = g.do_next /\ h.do_finish = g.do_finish
  <2>1. \/ finish /\ \E k, S : /\ Only(g, k, S) /\ h = Break(k)
                               /\ S \subseteq {"do_finish", "do_next", "do_step"} \cup Tables
        \/ ~finish /\ next
             /\ \E k, S : /\ Only(g, k, S) /\ h = Break(k)
                          /\ S \subseteq {"do_finish", "do_next", "do_step"} \cup Tables
        \/ /\ ~finish /\ ~next
           /\ \/ \E S : Only(g, h, S) /\ S \subseteq Tables
              \/ \E k, S : /\ Only(g, k, S) /\ h = Break(k) /\ S \subseteq {"do_step"} \cup Tables
    BY ChecksIs, Zenon
  <2> HIDE DEF finish, next
  <2> QED
    BY <2>1, <1>1, <1>2, <1>3
<1>5. ASSUME kind = "step_over"
      PROVE  /\ g.do_next /\ ~g.do_finish
             /\ func_nr \in g.step.frames => next
             /\ next => func_nr = g.step.at \/ ~within
  <2>1. g.do_next /\ ~g.do_finish /\ StartedAt(g, g.next_level)
    BY <1>5 DEF WalkOK, StepOK
  <2>2. /\ level \in Nat /\ g.next_level \in Nat
        /\ func_nr \in g.step.frames => level <= g.next_level
        /\ within => g.next_level <= level /\ (g.next_level = level => func_nr = g.step.at)
    BY <2>1, StartedTop
  <2> HIDE DEF within, func_nr, level
  <2> QED
    BY <2>1, <2>2
<1>6. ASSUME kind = "step_out"
      PROVE  /\ g.do_finish /\ ~g.do_next
             /\ func_nr \in g.step.frames \ {g.step.at} => finish
             /\ finish => ~within
  <2>1. g.do_finish /\ ~g.do_next /\ g.finish_func_nr = g.step.at /\ StartedAt(g, g.finish_level)
    BY <1>6 DEF WalkOK, StepOK
  <2>2. /\ level \in Nat /\ g.finish_level \in Nat /\ func_nr \in Nat /\ g.step.at \in Nat
        /\ func_nr \in g.step.frames \ {g.step.at} => level < g.finish_level
        /\ within => /\ g.finish_level <= level
                     /\ g.finish_level = level => func_nr = g.step.at
    BY <2>1, StartedTop
  <2> HIDE DEF within, func_nr, level
  <2> QED
    BY <2>1, <2>2
<1>7. ASSUME kind = "step_over"
      PROVE  /\ func_nr \in g.step.frames => h.todo # <<>>
             /\ (g.do_next /\ ~h.do_next) \/ (g.do_finish /\ ~h.do_finish)
                  => func_nr = g.step.at \/ ~within
  <2> HIDE DEF kind, within, func_nr, next
  <2>1. ~finish
    BY <1>5, <1>7
  <2> HIDE DEF finish
  <2> QED
    BY <1>4, <1>5, <1>7, <2>1
<1>8. ASSUME kind = "step_out"
      PROVE  /\ func_nr \in g.step.frames \ {g.step.at} => h.todo # <<>>
             /\ (g.do_next /\ ~h.do_next) \/ (g.do_finish /\ ~h.do_finish) => ~within
  <2> HIDE DEF kind, within, func_nr, finish
  <2>1. ~next
    BY <1>6, <1>8
  <2> HIDE DEF next
  <2> QED
    BY <1>4, <1>6, <1>8, <2>1
<1> HIDE DEF within, func_nr, kind, finish, next
<1> QED
  BY <1>7, <1>8, Zenon DEF Lands, within, func_nr, kind

LEMMA Landing ==
    ASSUME BInv, WalkOK(x), FreedOK(x), base \in Nat, Next,
           x'.statements # x.statements, x.remote_enabled, x.step.at # 0
    PROVE  Lands(x, x')
<1>1. Statement \/ Throw \/ RaiseError
  BY StatementsSame
<1>2. CASE Throw \/ RaiseError
  BY <1>2, ThrowLeaves, LandsStopped
<1>3. CASE Statement
  <2> DEFINE c == Counted(x)
  <2>1. PICK line : x' \in StatementCall(c, line)
    BY <1>3 DEF Statement
  <2>2. Only(x, c, {"statements"})
    BY CountedOnly DEF BInv
  <2> HIDE DEF c
  <2>3. /\ DOMAIN c = Fields /\ c.stack = x.stack /\ c.step = x.step /\ c.todo = x.todo
        /\ c.remote_enabled = x.remote_enabled /\ c.freed = x.freed
        /\ c.do_next = x.do_next /\ c.do_finish = x.do_finish
    BY <2>2 DEF Only, Fields
  <2>4. WalkOK(c)
    BY <2>2, WalkSame DEF Walk
  <2>5. Len(x.stack) >= 1 /\ IsSeq(x.todo) /\ ~x.freed
    <3>1. Len(x.stack) \in Nat
      BY SeqDomain DEF WalkOK, Rising
    <3> QED
      BY <1>3, <3>1 DEF Statement, Running, BInv, TodoOK, FreedOK
  <2>6. ASSUME NEW h, Lands(c, h) PROVE Lands(x, h)
    BY <2>3, <2>6, Zenon DEF Lands
  <2>7. ASSUME NEW k, Only(c, k, {"do_break", "todo"}), x' = Break(k),
               k.todo = <<[do |-> "checks", line |-> line]>> \o c.todo
        PROVE  Lands(c, x')
    <3>1. /\ DOMAIN k = Fields /\ k.do_next = c.do_next /\ k.do_finish = c.do_finish
      BY <2>7 DEF Only, Fields
    <3>2. IsSeq(k.todo)
      BY <2>3, <2>5, <2>7, PushIs DEF Pushed
    <3>3. x'.todo # <<>>
      BY <2>7, <3>1, <3>2, BrokenTodo
    <3>4. Only(k, x', Breaking)
      BY <2>7, <3>1, BreakOnly
    <3>5. x'.do_next = c.do_next /\ x'.do_finish = c.do_finish
      BY <3>1, <3>4 DEF Only, Breaking, Fields
    <3> QED
      BY <3>3, <3>5, LandsStopped
  <2>8. x' \in Checks(c, line) => Lands(c, x')
    BY <2>3, <2>4, <2>5, LandsChecks
  <2> QED
    BY <2>1, <2>3, <2>6, <2>7, <2>8, StatementIs
<1> QED
  BY <1>1, <1>2, <1>3

\* The calls in progress are numbered in their order, a step over or out has its flags
\* and the level it began at, and a freed session is not enabled (xdebug_execute_ex,
\* DBGP_FUNC(step_over), DBGP_FUNC(step_out) and xdebug_dbgp_deinit).
EInv == base \in Nat /\ WalkOK(x) /\ FreedOK(x)

LEMMA EInvInit == ASSUME Init PROVE EInv
<1>1. PICK app \in Apps : x = Globals(app)
  BY DEF Init
<1>2. /\ x.stack = <<>> /\ x.function_count = 0 /\ x.step = NoStep /\ x.todo = <<>>
      /\ x.freed = FALSE
  BY <1>1 DEF Globals
<1>3. WalkOK(x)
  BY <1>2, EmptyIs, NoStepIs DEF WalkOK, Rising, StepOK
<1> QED
  BY <1>2, <1>3 DEF EInv, FreedOK, Init

\* Where a step may end (xdebug_execute_ex, xdebug_statement_call and the commands that
\* step) is known from the calls in progress, in every state of a session.
THEOREM StepsInvariance == Spec => []EInv
<1>1. Init => EInv
  BY EInvInit
<1>2. BInv /\ CInv /\ EInv /\ [Next]_vars => EInv'
  <2>1. ASSUME BInv, CInv, EInv, [Next]_vars PROVE EInv'
    BY <2>1, BaseNext, WalkNext, FreedNext DEF EInv, WalkOK, FreedOK, Rising, StepOK, StartedAt
  <2> QED
    BY <2>1
<1> QED
  BY <1>1, <1>2, BreakpointsInvariance, Detachment, PTL DEF Spec

\* After a step over or a step out the script stops where the IDE expects it, see
\* StepsLand (xdebug_statement_call).
THEOREM StepsAlwaysLand == Spec => StepsLand
<1>1. ASSUME BInv, EInv, [Next]_vars
      PROVE  [LET step   == x.step
                  nr     == Top.nr
                  within == \E i \in DOMAIN x.stack : x.stack[i].nr = step.at
                  ends   == (x.do_next /\ ~x'.do_next) \/ (x.do_finish /\ ~x'.do_finish)
              IN  x'.statements # x.statements /\ x.remote_enabled /\ step.at # 0 =>
                     CASE step.kind = "step_over" ->
                             /\ nr \in step.frames => x'.todo # <<>>
                             /\ ends => nr = step.at \/ ~within
                       [] step.kind = "step_out" ->
                             /\ nr \in step.frames \ {step.at} => x'.todo # <<>>
                             /\ ends => ~within
                       [] OTHER -> TRUE]_vars
  <2>1. Next /\ x'.statements # x.statements /\ x.remote_enabled /\ x.step.at # 0 => Lands(x, x')
    BY <1>1, Landing DEF EInv
  <2> QED
    BY <1>1, <2>1, Zenon DEF Lands, Top
<1> QED
  BY <1>1, BreakpointsInvariance, StepsInvariance, PTL DEF Spec, StepsLand

-----------------------------------------------------------------------------
(* The pages of a value *)

\* The children of n on the page p, with m to a page.
PageAt(m, p, n) == {i \in 1..n : m * p <= i - 1 /\ i - 1 < m * p + m}

LEMMA Quotient ==
    ASSUME NEW m \in Int, m > 0, NEW j \in Nat
    PROVE  /\ j \div m \in Int /\ 0 <= j \div m
           /\ m * (j \div m) <= j /\ j < m * (j \div m) + m
  OBVIOUS

LEMMA Monotone ==
    ASSUME NEW m \in Int, m > 0, NEW a \in Int, NEW b \in Int, a < b
    PROVE  m * a + m <= m * b
<1>1. b - a - 1 \in Nat
  OBVIOUS
<1>2. m * (b - a - 1) >= 0
  BY <1>1
<1> QED
  BY <1>2

\* No child is on two pages.
LEMMA PagesApart ==
    ASSUME NEW m \in Int, NEW p \in Int, NEW q \in Int, p # q, NEW n \in Nat
    PROVE  PageAt(m, p, n) \cap PageAt(m, q, n) = {}
<1>1. ASSUME NEW i, i \in PageAt(m, p, n), i \in PageAt(m, q, n) PROVE FALSE
  <2>1. i \in Int /\ m * p \in Int /\ m * q \in Int
    BY <1>1 DEF PageAt
  <2>2. /\ m * p <= i - 1 /\ i - 1 < m * p + m
        /\ m * q <= i - 1 /\ i - 1 < m * q + m
    BY <1>1 DEF PageAt
  <2>3. m > 0
    BY <2>1, <2>2
  <2>4. CASE p < q
    <3>1. m * p + m <= m * q
      BY <2>3, <2>4, Monotone
    <3> QED
      BY <2>1, <2>2, <3>1
  <2>5. CASE q < p
    <3>1. m * q + m <= m * p
      BY <2>3, <2>5, Monotone
    <3> QED
      BY <2>1, <2>2, <3>1
  <2> QED
    BY <2>4, <2>5
<1> QED
  BY <1>1

\* Every child is on one of the pages up to that of the last.
LEMMA PageOfChild ==
    ASSUME NEW m \in Int, m > 0, NEW n \in Nat, NEW i \in 1..n
    PROVE  \E p \in 0..((n - 1) \div m) : p \in Int /\ i \in PageAt(m, p, n)
<1> DEFINE p == (i - 1) \div m
           l == (n - 1) \div m
<1>1. i - 1 \in Nat /\ n - 1 \in Nat /\ i - 1 <= n - 1
  OBVIOUS
<1>2. /\ p \in Int /\ 0 <= p /\ m * p <= i - 1 /\ i - 1 < m * p + m
      /\ l \in Int /\ 0 <= l /\ m * l <= n - 1 /\ n - 1 < m * l + m
  BY <1>1, Quotient
<1>3. p <= l
  <2>1. SUFFICES ASSUME l < p PROVE FALSE
    BY <1>2
  <2>2. m * l + m <= m * p
    BY <1>2, <2>1, Monotone
  <2>3. m * l \in Int /\ m * p \in Int
    BY <1>2
  <2> HIDE DEF p, l
  <2> QED
    BY <1>1, <1>2, <2>2, <2>3
<1>4. i \in PageAt(m, p, n)
  BY <1>2 DEF PageAt
<1> HIDE DEF p
<1>5. p \in 0..l
  BY <1>2, <1>3
<1> QED
  BY <1>2, <1>4, <1>5

LEMMA ChildrenSame ==
    ASSUME NEW g, NEW h, h.ini = g.ini, NEW v
    PROVE  Children(h, v) = Children(g, v)
BY DEF Children, ItemsOf, Kind, ClassOf

LEMMA ChildrenCount ==
    ASSUME NEW g, g.ini \in Apps, NEW v
    PROVE  Len(Children(g, v)) \in Nat
<1> DEFINE items   == ItemsOf(g, v)
           statics == g.ini.statics[ClassOf(g, v)]
           As(s, sep) == [i \in DOMAIN s |-> [item |-> s[i], sep |-> sep]]
<1>1. ASSUME NEW s, IsSeq(s), NEW sep
      PROVE  IsSeq(As(s, sep))
  <2>1. DOMAIN s = 1..Len(s) /\ Len(s) \in Nat
    BY <1>1, SeqDomain
  <2> DEFINE t == As(s, sep)
  <2>2. t \in Seq({[item |-> s[i], sep |-> sep] : i \in 1..Len(s)})
    BY <2>1
  <2> HIDE DEF t
  <2>3. IsSeq(t)
    BY <2>2, SeqIsSeq
  <2> QED
    BY <2>3 DEF t
<1>2. IsSeq(items)
  <2>1. CASE Kind(g, v) = "scalar"
    BY <2>1, EmptyIs DEF ItemsOf
  <2>2. CASE Kind(g, v) # "scalar"
    <3>1. v.id \in DOMAIN g.ini.heap
      BY <2>2 DEF Kind
    <3>2. g.ini.heap[v.id].items \in Seq(Range(g.ini.heap[v.id].items))
      BY <3>1, AppsAssumption
    <3> QED
      BY <2>2, <3>2 DEF ItemsOf, IsSeq
  <2> QED
    BY <2>1, <2>2
<1>3. CASE Kind(g, v) = "object"
  <2>1. v.id \in DOMAIN g.ini.heap /\ g.ini.heap[v.id].kind = "object"
    BY <1>3 DEF Kind
  <2>2. ClassOf(g, v) = g.ini.heap[v.id].class /\ g.ini.heap[v.id].class \in DOMAIN g.ini.statics
    BY <1>3, <2>1, AppsAssumption DEF ClassOf
  <2>3. IsSeq(statics)
    BY <2>2, AppsAssumption DEF IsSeq
  <2>4. IsSeq(As(statics, "::")) /\ IsSeq(As(items, "->"))
    BY <1>1, <1>2, <2>3
  <2>5. Children(g, v) = As(statics, "::") \o As(items, "->")
    BY <1>3 DEF Children
  <2> HIDE DEF As, statics, items
  <2>6. IsSeq(Children(g, v))
    BY <2>4, <2>5, ConcatIsSeq
  <2> QED
    BY <2>6, SeqDomain
<1>4. CASE Kind(g, v) # "object"
  <2>1. Children(g, v) = As(items, "[")
    BY <1>4 DEF Children
  <2>2. IsSeq(As(items, "["))
    BY <1>1, <1>2
  <2> QED
    BY <2>1, <2>2, SeqDomain
<1> QED
  BY <1>3, <1>4

\* The first level of a value that is written out shows a page of its children, if
\* there is a level at all.
LEMMA FirstLevel ==
    ASSUME NEW h, NEW v, NEW name, h.options.max_depth \in Int
    PROVE  {n.at : n \in {m \in ValueNode(h, v, name) : m.level = 0}} =
              IF h.options.max_depth > 0 THEN Shown(h.options, 0, Len(Children(h, v))) ELSE {}
<1> DEFINE top == {Entry(v, name, {})}
           entered[l \in Nat] ==
               UNION {{ChildEntry(h, e, l - 1, i) : i \in ShownChildren(h, e, l - 1)} :
                         e \in IF l <= 0 + 1 THEN top ELSE entered[l - 1]}
           nodes(l) == UNION {{ChildNode(h, e, l, i) : i \in ShownChildren(h, e, l)} :
                                 e \in IF l = 0 THEN top ELSE entered[l]}
           levels == 0..(h.options.max_depth - 1)
           shown  == Shown(h.options, 0, Len(Children(h, v)))
           own == [fullname |-> name, level |-> -1, at |-> 0, val |-> v]
<1>1. Below(h, v, name, 0) = UNION {nodes(l) : l \in levels}
  BY Zenon DEF Below
<1> HIDE DEF entered
<1>2. ASSUME NEW l, NEW n \in nodes(l) PROVE n.level = l
  BY <1>2 DEF ChildNode
<1>3. nodes(0) = {ChildNode(h, Entry(v, name, {}), 0, i) : i \in shown}
  <2>1. ShownChildren(h, Entry(v, name, {}), 0) = shown
    BY DEF ShownChildren, Entry
  <2> QED
    BY <2>1
<1>4. \A i : ChildNode(h, Entry(v, name, {}), 0, i).at = i
  BY DEF ChildNode
<1> HIDE DEF nodes, shown
<1>5. {n.at : n \in nodes(0)} = shown
  BY <1>3, <1>4
<1>6. own.level # 0
  OBVIOUS
<1>7. ValueNode(h, v, name) = {own} \cup UNION {nodes(l) : l \in levels}
  BY <1>1 DEF ValueNode
<1> HIDE DEF own
<1>8. {m \in ValueNode(h, v, name) : m.level = 0} = IF 0 \in levels THEN nodes(0) ELSE {}
  <2> HIDE DEF levels
  <2> QED
    BY <1>2, <1>6, <1>7
<1>9. 0 \in levels <=> h.options.max_depth > 0
  OBVIOUS
<1> HIDE DEF levels
<1> QED
  BY <1>5, <1>8, <1>9 DEF shown

\* A page of a value, as it is in the state g.
PageOK(g, s) ==
    /\ s.page \in Int /\ s.of = Len(Children(g, s.val))
    /\ s.at = IF g.options.max_depth > 0
              THEN PageAt(g.options.max_children, s.page, s.of) ELSE {}

PagesOK(g) ==
    /\ DOMAIN g.options = {"max_children", "max_depth", "page"}
    /\ g.options.max_children \in Int /\ g.options.max_depth \in Int
    /\ \A s \in g.seen : PageOK(g, s)

\* The pages that the IDE has seen show what is on them by their number and by the
\* options (DBGP_FUNC(property_get) and xdebug_var_export_xml_node).
PInv == PagesOK(x)

LEMMA OptionsAre ==
    /\ DOMAIN Options = {"max_children", "max_depth", "page"}
    /\ Options.max_children \in Int /\ Options.max_depth \in Int
BY DEF Options

LEMMA PagesSame ==
    ASSUME NEW g, NEW h, PagesOK(g), h.ini = g.ini, h.seen = g.seen \/ h.seen = {},
           \/ h.options = g.options
           \/ \E p : h.options = [g.options EXCEPT !.page = p]
           \/ h.options = Options /\ h.seen = {}
    PROVE  PagesOK(h)
<1>1. CASE h.options = Options /\ h.seen = {}
  BY <1>1, OptionsAre DEF PagesOK
<1>2. CASE h.options = g.options \/ \E p : h.options = [g.options EXCEPT !.page = p]
  <2>1. /\ DOMAIN h.options = DOMAIN g.options
        /\ h.options.max_children = g.options.max_children
        /\ h.options.max_depth = g.options.max_depth
    BY <1>2 DEF PagesOK
  <2>2. ASSUME NEW s \in h.seen PROVE PageOK(h, s)
    <3>1. PageOK(g, s)
      BY DEF PagesOK
    <3> QED
      BY <2>1, <3>1, ChildrenSame DEF PageOK
  <2> QED
    BY <2>1, <2>2 DEF PagesOK
<1> QED
  BY <1>1, <1>2

LEMMA PagesOnly ==
    ASSUME NEW g, NEW h, NEW S, Only(g, h, S), PagesOK(g),
           S \cap {"ini", "options", "seen"} = {}
    PROVE  PagesOK(h)
<1>1. h.ini = g.ini /\ h.options = g.options /\ h.seen = g.seen
  BY DEF Only, Fields
<1> QED
  BY <1>1, PagesSame

LEMMA PagesRests ==
    ASSUME NEW g, NEW h, Rests(g, h), PagesOK(g)
    PROVE  PagesOK(h)
BY PagesSame DEF Rests

LEMMA PagesViews ==
    ASSUME NEW g, NEW h, Views(g, h), PagesOK(g)
    PROVE  PagesOK(h)
<1>1. h.ini = g.ini /\ h.seen = g.seen
  BY DEF Views, Only, Fields
<1> QED
  BY <1>1, PagesSame DEF Views

LEMMA PagesEntered ==
    ASSUME NEW g, NEW h, Entered(g, h), PagesOK(g)
    PROVE  PagesOK(h)
<1>1. PICK k : Only(g, k, {"stack", "function_count", "todo"}) /\ Rests(k, h)
  BY DEF Entered
<1>2. PagesOK(k)
  BY <1>1, PagesOnly
<1> QED
  BY <1>1, <1>2, PagesRests

\* A change of the options, when no pages are noted.
LEMMA PagesFeature ==
    ASSUME NEW g, DOMAIN g = Fields, g.ini \in Apps, PagesOK(g), g.seen = {},
           NEW f \in g.ini.features
    PROVE  PagesOK(FeatureSet(g, f))
<1> DEFINE h == FeatureSet(g, f)
           o == [g.options EXCEPT ![f.feature] = f.value]
           p == IF f.feature = "max_depth" THEN [o EXCEPT !.page = 0] ELSE o
<1>1. f.feature \in {"max_children", "max_depth"} /\ f.value \in Int
  BY AppsAssumption
<1>2. h = [g EXCEPT !.options = p]
  BY DEF FeatureSet
<1>3. /\ DOMAIN p = DOMAIN g.options
      /\ p.max_children \in {g.options.max_children, f.value}
      /\ p.max_depth \in {g.options.max_depth, f.value}
  BY <1>1 DEF PagesOK
<1> HIDE DEF p
<1>4. h.options = p /\ h.seen = {}
  BY <1>2 DEF Fields
<1> HIDE DEF h
<1>5. PagesOK(h)
  BY <1>1, <1>3, <1>4 DEF PagesOK
<1> QED
  BY <1>5 DEF h

LEMMA PagesShown ==
    ASSUME NEW g, DOMAIN g = Fields, g.ini \in Apps, PagesOK(g),
           NEW q, q.page \in Int, NEW b, NEW h \in PropertyGet(g, q, b)
    PROVE  PagesOK(h)
<1>1. CASE Views(g, h)
  BY <1>1, PagesViews
<1>2. ASSUME NEW k \in Ready(g, q, b), NEW m, Views(g, m),
             h = [m EXCEPT !.seen = g.seen \cup {PageShown(k, q)}]
      PROVE  PagesOK(h)
  <2> DEFINE s == PageShown(k, q)
             v == Symbol(k, q.name)
             all == g.seen \cup {s}
  <2>1. PagesOK(m) /\ DOMAIN m = Fields /\ m.seen = g.seen /\ m.ini = g.ini
    BY <1>2, PagesViews DEF Views, Only, Fields
  <2>2. /\ k.ini = g.ini /\ k.options.page = q.page
        /\ k.options.max_children = g.options.max_children
        /\ k.options.max_depth = g.options.max_depth
    <3>1. Views(g, k) /\ k.options = [g.options EXCEPT !.page = q.page]
      BY ReadyOnly
    <3>2. k.ini = g.ini
      BY <3>1 DEF Views, Only, Fields
    <3> QED
      BY <3>1, <3>2 DEF PagesOK
  <2>3. /\ m.options.max_children = g.options.max_children
        /\ m.options.max_depth = g.options.max_depth
    BY <1>2 DEF Views, PagesOK
  <2>4. /\ s.page = q.page /\ s.val = v /\ s.of = Len(Children(k, v))
        /\ s.at = {n.at : n \in {e \in ValueNode(k, v, q.name) : e.level = 0}}
    BY DEF PageShown
  <2> HIDE DEF s, v
  <2>5. s.of = Len(Children(m, s.val))
    <3>1. Children(k, v) = Children(m, v)
      BY <2>1, <2>2, ChildrenSame
    <3> QED
      BY <2>4, <3>1
  <2>6. s.at = IF k.options.max_depth > 0 THEN Shown(k.options, 0, s.of) ELSE {}
    <3>1. k.options.max_depth \in Int
      BY <2>2 DEF PagesOK
    <3> QED
      BY <2>4, <3>1, FirstLevel
  <2>7. Shown(k.options, 0, s.of) = PageAt(m.options.max_children, s.page, s.of)
    BY <2>2, <2>3, <2>4, Zenon DEF Shown, PageAt
  <2>8. PageOK(m, s)
    BY <2>2, <2>3, <2>4, <2>5, <2>6, <2>7 DEF PageOK
  <2> HIDE DEF all
  <2>9. h.ini = m.ini /\ h.options = m.options /\ h.seen = all
    BY <1>2, <2>1 DEF all, s, Fields
  <2>10. ASSUME NEW t \in all PROVE PageOK(h, t)
    <3>1. PageOK(m, t)
      BY <2>1, <2>8, <2>10 DEF all, PagesOK
    <3>2. Children(h, t.val) = Children(m, t.val)
      BY <2>9, ChildrenSame
    <3> QED
      BY <2>9, <3>1, <3>2 DEF PageOK
  <2> QED
    BY <2>1, <2>9, <2>10 DEF PagesOK
<1> QED
  BY <1>1, <1>2, PropertyGetIs

LEMMA PagesHandled ==
    ASSUME NEW g, DOMAIN g = Fields, g.ini \in Apps, BreakpointsOK(g), PagesOK(g),
           NEW name, name # "property_get" => g.seen = {}, NEW h \in Handled(g, name)
    PROVE  PagesOK(h)
<1>1. ASSUME Only(g, h, Kept \cup {"crashed"}) PROVE PagesOK(h)
  BY <1>1, PagesOnly DEF Kept, Placed
<1>2. CASE name = "breakpoint_set"
  <2>1. PICK o \in g.ini.options : h = BreakpointSet(g, o)
    BY <1>2 DEF Handled
  <2>2. o.type \in Types
    BY AppsAssumption DEF Types
  <2>3. Only(g, h, Kept)
    BY <2>1, <2>2, BreakpointSetIs
  <2> QED
    BY <1>1, <2>3, OnlyMore
<1>3. CASE name = "breakpoint_remove"
  BY <1>1, <1>3, BreakpointsRemoved DEF Handled
<1>4. CASE name = "breakpoint_update"
  <2>1. PICK id \in DOMAIN g.breakpoint_list, u \in g.ini.updates : h = BreakpointUpdate(g, id, u)
    BY <1>4 DEF Handled
  <2>2. u.field \in Updated
    BY AppsAssumption DEF Updated
  <2> QED
    BY <1>1, <2>1, <2>2, BreakpointsUpdated
<1>5. ASSUME NEW c, h = [g EXCEPT !.crashed = c] PROVE PagesOK(h)
  <2>1. Only(g, h, {"crashed"})
    BY <1>5 DEF Only
  <2> QED
    BY <2>1, PagesOnly
<1>6. CASE name = "breakpoint_get"
  BY <1>5, <1>6 DEF Handled, BreakpointGet
<1>7. CASE name = "breakpoint_list"
  BY <1>5, <1>7 DEF Handled, BreakpointList
<1>8. CASE name = "feature_set"
  BY <1>8, PagesFeature DEF Handled
<1>9. CASE name = "property_get"
  <2>1. PICK q \in Queries(g) : h \in PropertyGet(g, q, base)
    BY <1>9 DEF Handled
  <2>2. q.page \in Int
    <3>1. CASE q \in g.ini.queries
      BY <3>1, AppsAssumption
    <3>2. CASE q \notin g.ini.queries
      <4>1. q.page \in g.ini.pages
        BY <3>2 DEF Queries
      <4>2. g.ini.pages \subseteq Int
        BY AppsAssumption
      <4> QED
        BY <4>1, <4>2
    <3> QED
      BY <3>1, <3>2
  <2> QED
    BY <2>1, <2>2, PagesShown
<1>10. CASE name = "property_value"
  BY <1>10, PropertyValueOnly, PagesViews DEF Handled
<1>11. CASE name = "property_set"
  BY <1>11, PropertySetOnly, PagesViews DEF Handled
<1>12. CASE name = "context_get"
  BY <1>12, ContextGetOnly, PagesViews DEF Handled
<1>13. CASE name \notin {"breakpoint_set", "breakpoint_remove", "breakpoint_update",
                        "breakpoint_get", "breakpoint_list", "feature_set", "property_get",
                        "property_value", "property_set", "context_get"}
  BY <1>13 DEF Handled
<1> QED
  BY <1>2, <1>3, <1>4, <1>6, <1>7, <1>8, <1>9, <1>10, <1>11, <1>12, <1>13

LEMMA PagesCommand ==
    ASSUME BInv, PInv, Command
    PROVE  PInv'
<1>1. PICK name, m : Acts(x, name, m) /\ (DOMAIN m = Fields => Rests(m, x'))
  BY CommandActs, SMTT(40)
<1>2. PagesOK(m) /\ DOMAIN m = Fields
  <2>1. CASE Rests(x, m)
    BY <2>1, PagesRests DEF Rests, PInv
  <2>2. ASSUME NEW k, Noted(x, name, k),
               \/ name \in Continuing /\ m = Stepping(Continue(k, name), name)
               \/ m \in Handled(k, name)
        PROVE  PagesOK(m) /\ DOMAIN m = Fields
    <3>1. /\ Only(x, k, {"commands", "lasttransid", "status", "answer", "seen"})
          /\ DOMAIN k = Fields /\ k.ini = x.ini /\ k.options = x.options
          /\ k.seen = IF name = "property_get" THEN x.seen ELSE {}
      BY <2>2 DEF Noted, Only, Fields
    <3>2. PagesOK(k)
      BY <3>1, PagesSame DEF PInv
    <3>3. CASE name \in Continuing /\ m = Stepping(Continue(k, name), name)
      <4>1. Only(k, m, {"do_step", "do_next", "do_finish", "next_level", "finish_level",
                        "finish_func_nr", "step"})
        BY <3>1, <3>3, SteppingOnly
      <4> QED
        BY <3>2, <4>1, PagesOnly, ZenonT(60) DEF Only
    <3>4. CASE m \in Handled(k, name)
      <4>1. BreakpointsOK(k) /\ k.ini \in Apps
        BY <3>1, BreakpointsKept DEF BInv, Kept, Placed
      <4>2. DOMAIN m = Fields
        BY <3>1, <3>4, <4>1, HandledChanges DEF Changes, Only
      <4>3. PagesOK(m)
        BY <3>1, <3>2, <3>4, <4>1, PagesHandled
      <4> QED
        BY <4>2, <4>3
    <3> QED
      BY <2>2, <3>3, <3>4
  <2> QED
    BY <1>1, <2>1, <2>2 DEF Acts
<1> QED
  BY <1>1, <1>2, PagesRests DEF PInv

LEMMA PInvInit == ASSUME Init PROVE PInv
<1>1. PICK app \in Apps : x = Globals(app)
  BY DEF Init
<1>2. x.options = Options /\ x.seen = {}
  BY <1>1 DEF Globals
<1> QED
  BY <1>2, OptionsAre DEF PInv, PagesOK

LEMMA PInvNext == ASSUME BInv, PInv, [Next]_vars PROVE PInv'
<1>1. DOMAIN x = Fields
  BY DEF BInv
<1>2. CASE RunScript \/ Call \/ Return
  BY <1>1, <1>2, CallMoves, PagesRests, PagesEntered DEF PInv
<1>3. CASE Statement \/ Throw \/ RaiseError
  <2>1. PagesOK(Counted(x))
    BY <1>1, CountedOnly, PagesOnly DEF PInv
  <2> QED
    BY <1>1, <1>3, <2>1, StatementMoves, PagesRests DEF PInv
<1>4. CASE Command
  BY <1>4, PagesCommand
<1>5. CASE Resume
  <2>1. Left(x, x') => PagesOK(x')
    BY PagesOnly DEF Left, PInv
  <2> QED
    BY <1>5, <2>1, ResumeMoves, PagesRests, PagesEntered DEF PInv
<1>6. CASE EndRequest \/ HangUp \/ EndOfFile \/ Bailout \/ UNCHANGED vars
  BY <1>1, <1>6, OtherMoves, PagesRests DEF PInv
<1> QED
  BY <1>2, <1>3, <1>4, <1>5, <1>6 DEF Next

\* Every page noted in a session is what the options say (DBGP_FUNC(property_get),
\* DBGP_FUNC(feature_set)), in every state of a session.
THEOREM PagesInvariance == Spec => []PInv
<1>1. Init => PInv
  BY PInvInit
<1>2. BInv /\ PInv /\ [Next]_vars => PInv'
  BY PInvNext
<1> QED
  BY <1>1, <1>2, BreakpointsInvariance, PTL DEF Spec

\* The pages of a value show each child once, see PagesPartition
\* (xdebug_var_export_xml_node).
THEOREM PagesAlwaysPartition == Spec => []PagesPartition
<1>1. ASSUME BInv, PInv PROVE PagesPartition
  <2>1. SUFFICES ASSUME NEW s \in x.seen
                 PROVE  LET same  == {t \in x.seen : <<t.name, t.depth, t.context, t.val>>
                                                         = <<s.name, s.depth, s.context, s.val>>}
                            pages == {t.page : t \in same}
                            count == x.options.max_children
                        IN  /\ \A t \in same : t.page # s.page => t.at \cap s.at = {}
                            /\ x.options.max_depth > 0 /\ count > 0
                                  /\ 0..((s.of - 1) \div count) \subseteq pages
                                 => UNION {t.at : t \in same} = 1..s.of
    BY DEF PagesPartition
  <2> DEFINE same  == {t \in x.seen : <<t.name, t.depth, t.context, t.val>>
                                          = <<s.name, s.depth, s.context, s.val>>}
             pages == {t.page : t \in same}
             count == x.options.max_children
             n     == s.of
  <2>2. count \in Int /\ n \in Nat
    BY <1>1, ChildrenCount DEF PInv, PagesOK, PageOK, BInv
  <2>3. ASSUME NEW t \in same
        PROVE  /\ t.page \in Int
               /\ t.at = IF x.options.max_depth > 0 THEN PageAt(count, t.page, n) ELSE {}
    <3>1. t \in x.seen /\ t.val = s.val
      OBVIOUS
    <3> QED
      BY <1>1, <3>1 DEF PInv, PagesOK, PageOK
  <2>4. s \in same
    OBVIOUS
  <2> HIDE DEF same, count, n
  <2>5. ASSUME NEW t \in same, t.page # s.page PROVE t.at \cap s.at = {}
    BY <2>2, <2>3, <2>4, <2>5, PagesApart
  <2>6. ASSUME x.options.max_depth > 0, count > 0, 0..((n - 1) \div count) \subseteq pages
        PROVE  UNION {t.at : t \in same} = 1..n
    <3>1. ASSUME NEW t \in same PROVE t.at \subseteq 1..n
      BY <2>3, <2>6 DEF PageAt
    <3>2. ASSUME NEW i \in 1..n PROVE \E t \in same : i \in t.at
      <4>1. PICK p \in 0..((n - 1) \div count) : p \in Int /\ i \in PageAt(count, p, n)
        BY <2>2, <2>6, PageOfChild
      <4>2. PICK t \in same : t.page = p
        BY <2>6
      <4> QED
        BY <2>3, <2>6, <4>1, <4>2
    <3> QED
      BY <3>1, <3>2
  <2> QED
    BY <2>5, <2>6 DEF same, count, n
<1> QED
  BY <1>1, BreakpointsInvariance, PagesInvariance, PTL
=============================================================================
