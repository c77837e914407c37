---------------------------- MODULE Stage1_proofs ----------------------------
(***************************************************************************)
(* Proof that what stage 1 puts out has its evidence, for every trace,     *)
(* every call graph, every order of evaluation and every failure.          *)
(***************************************************************************)
EXTENDS Stage1, SequenceTheorems, FiniteSetTheorems, TLAPS

-----------------------------------------------------------------------------
(* The traces *)

\* After n lines of p the call in line i is the last one outside a stack, and no
\* stack has ended since.
OpenCall(p, i, n) ==
    /\ i \in DOMAIN trace[p] /\ i <= n
    /\ T!Kind(p, i) = "call"
    /\ \A k \in i + 1..n : T!Kind(p, k) # "end"
    /\ \A k \in i + 1..n : T!Kind(p, k) = "call" =>
                              \E s \in i + 1..k - 1 : T!Kind(p, s) = "start"

\* After n lines of p, in a stack that began after line i, nothing has been put on
\* the call stack.
OpenStack(p, i, n) ==
    \E j \in DOMAIN trace[p] :
        /\ i < j /\ j <= n
        /\ T!Kind(p, j) = "start"
        /\ \A k \in j + 1..n : T!Kind(p, k) = "number"

\* What the parser knows of the call scn.
ScnOpen ==
    (file < Len(fileList) /\ scn # None) =>
        \E i \in DOMAIN trace[T!pid] :
            /\ OpenCall(T!pid, i, line)
            /\ trace[T!pid][i].name = scn
            /\ scn = Clone => trace[T!pid][i].result = scc
            /\ inCallstack => \E s \in i + 1..line : T!Kind(T!pid, s) = "start"
            /\ (inCallstack /\ callstack = <<>>) => OpenStack(T!pid, i, line)
            /\ (inCallstack /\ callstack # <<>> /\ callstack[1] # None) =>
                   T!Stacked(T!pid, i, callstack[1])

\* A stack that has begun and not ended is read as one.
StackOpen ==
    file < Len(fileList) =>
        \A j \in 1..line :
            (/\ T!Kind(T!pid, j) = "start"
             /\ \A k \in j + 1..line : T!Kind(T!pid, k) # "end") => inCallstack

Forked(p, fn) == \E q \in Pid : \E j \in DOMAIN trace[q] : T!Clones(q, j, p) /\ T!Stacked(q, j, fn)

ChildrenForked == \A p \in DOMAIN children : children[p] = None \/ Forked(p, children[p])

TraceTypes ==
    /\ trace \in Traces
    /\ fileList \in [1..Cardinality(Pid) -> Pid]
    /\ file \in Nat /\ line \in Nat
    /\ callstack \in Seq(Fn \cup {None})
    /\ inCallstack \in BOOLEAN

TraceInv == TraceTypes /\ ScnOpen /\ StackOpen /\ ChildrenForked /\ T!Evidence

LEMMA TraceOf ==
    ASSUME Stage1Assumption, TraceTypes
    PROVE  /\ \A p \in Pid : trace[p] \in Seq(T!Line)
           /\ Cardinality(Pid) \in Nat
           /\ Len(fileList) = Cardinality(Pid)
           /\ file < Len(fileList) => T!pid \in Pid
<1>1. \A p \in Pid : trace[p] \in Seq(T!Line)
      BY DEF Stage1Assumption, TraceTypes, T!TracesAssumption
<1>2. Cardinality(Pid) \in Nat
      BY FS_CardinalityType DEF Stage1Assumption, T!TracesAssumption, T!IsFiniteSet, IsFiniteSet
<1>3. Len(fileList) = Cardinality(Pid)
      BY <1>2 DEF TraceTypes
<1>4. ASSUME file < Len(fileList) PROVE T!pid \in Pid
      BY <1>2, <1>3, <1>4 DEF TraceTypes, T!pid
<1> QED BY <1>1, <1>2, <1>3, <1>4

\* A stack that is open gets fn on its top in the next line.
LEMMA TopPushed ==
    ASSUME NEW p \in Pid, trace[p] \in Seq(T!Line), NEW i \in Nat, NEW n \in Nat,
           OpenStack(p, i, n), OpenCall(p, i, n), T!Kind(p, n + 1) = "frame"
    PROVE  T!Stacked(p, i, trace[p][n + 1].fn)
<1>1. PICK j \in DOMAIN trace[p] : /\ i < j /\ j <= n
                                  /\ T!Kind(p, j) = "start"
                                  /\ \A k \in j + 1..n : T!Kind(p, k) = "number"
      BY DEF OpenStack
<1>2. n + 1 \in DOMAIN trace[p]
      BY DEF T!Kind
<1>3. j \in Nat /\ n + 1 \in Nat
      BY <1>1
<1>4. \A k \in j + 1..(n + 1) - 1 : T!Kind(p, k) = "number"
      BY <1>1, <1>3
<1>5. \A k \in i + 1..n + 1 : T!Kind(p, k) # "end"
      BY DEF OpenCall
<1>6. \A k \in i + 1..n + 1 : T!Kind(p, k) = "call" =>
                                 \E s \in i + 1..k - 1 : T!Kind(p, s) = "start"
      BY DEF OpenCall
<1> QED BY <1>1, <1>2, <1>3, <1>4, <1>5, <1>6 DEF T!Stacked

LEMMA CallExtended ==
    ASSUME NEW p, NEW i \in Nat, NEW n \in Nat, OpenCall(p, i, n),
           T!Kind(p, n + 1) # "end",
           T!Kind(p, n + 1) = "call" => \E s \in i + 1..n : T!Kind(p, s) = "start"
    PROVE  OpenCall(p, i, n + 1)
<1>1. ASSUME NEW k \in i + 1..n + 1
      PROVE  /\ T!Kind(p, k) # "end"
             /\ T!Kind(p, k) = "call" => \E s \in i + 1..k - 1 : T!Kind(p, s) = "start"
  <2>1. CASE k \in i + 1..n
        BY <2>1 DEF OpenCall
  <2>2. CASE k = n + 1
    <3>1. (n + 1) - 1 = n
          OBVIOUS
    <3> QED BY <2>2, <3>1
  <2> QED BY <2>1, <2>2
<1> QED BY <1>1 DEF OpenCall

\* What is said of the files stays, as they do.
LEMMA TraceKept ==
    ASSUME trace' = trace
    PROVE  /\ \A p, i, n : OpenCall(p, i, n)' <=> OpenCall(p, i, n)
           /\ \A p, i, n : OpenStack(p, i, n)' <=> OpenStack(p, i, n)
           /\ \A p, i, fn : T!Stacked(p, i, fn)' <=> T!Stacked(p, i, fn)
           /\ \A p, fn : Forked(p, fn)' <=> Forked(p, fn)
           /\ \A fn, sc : T!Traced(fn, sc)' <=> T!Traced(fn, sc)
           /\ \A p, i : T!Kind(p, i)' = T!Kind(p, i)
BY DEF OpenCall, OpenStack, Forked, T!Stacked, T!Traced, T!Clones, T!Kind

LEMMA StackStartsSound ==
    ASSUME Stage1Assumption, TraceInv, T!StackStarts
    PROVE  TraceInv'
<1>1. /\ trace' = trace /\ fileList' = fileList /\ file' = file /\ line' = line + 1
      /\ T!pid' = T!pid /\ T!pid \in Pid /\ file < Len(fileList)
      /\ T!Kind(T!pid, line + 1) = "start" /\ line + 1 \in DOMAIN trace[T!pid]
      /\ inCallstack' = TRUE /\ callstack' = <<>>
      /\ scn' = scn /\ scc' = scc /\ functions' = functions /\ children' = children
      BY TraceOf, SMTT(40) DEF TraceInv, TraceTypes, T!StackStarts, T!Read, T!Reading, T!nextLine,
                     T!Kind, T!pid
<1>2. TraceTypes'
      BY <1>1 DEF TraceInv, TraceTypes
<1>3. ScnOpen'
  <2> SUFFICES ASSUME scn # None
               PROVE  \E i \in DOMAIN trace[T!pid] :
                         /\ OpenCall(T!pid, i, line + 1)
                         /\ trace[T!pid][i].name = scn
                         /\ scn = Clone => trace[T!pid][i].result = scc
                         /\ \E s \in i + 1..line + 1 : T!Kind(T!pid, s) = "start"
                         /\ OpenStack(T!pid, i, line + 1)
        BY <1>1, TraceKept DEF ScnOpen
  <2>1. PICK i \in DOMAIN trace[T!pid] :
               /\ OpenCall(T!pid, i, line)
               /\ trace[T!pid][i].name = scn
               /\ scn = Clone => trace[T!pid][i].result = scc
        BY <1>1 DEF TraceInv, ScnOpen
  <2>2. i \in Nat /\ line \in Nat /\ i <= line
        BY <1>1, <2>1, TraceOf, SMTT(40) DEF TraceInv, TraceTypes, OpenCall
  <2>3. OpenCall(T!pid, i, line + 1)
        BY <1>1, <2>1, <2>2, CallExtended
  <2>4. line + 1 \in i + 1..line + 1 /\ \A k \in line + 2..line + 1 : FALSE
        BY <2>2
  <2>5. OpenStack(T!pid, i, line + 1)
    <3>1. (line + 1) + 1 = line + 2
          BY <2>2
    <3> QED BY <1>1, <2>2, <2>4, <3>1 DEF OpenStack
  <2> QED BY <1>1, <2>1, <2>3, <2>4, <2>5
<1>4. ChildrenForked' /\ T!Evidence'
      BY <1>1, TraceKept DEF TraceInv, ChildrenForked, T!Evidence
<1>5. StackOpen'
      BY <1>1 DEF StackOpen
<1> QED BY <1>2, <1>3, <1>4, <1>5 DEF TraceInv

\* A line that is neither the beginning nor the end of a stack keeps StackOpen.
LEMMA StackStaysOpen ==
    ASSUME TraceTypes, StackOpen, trace' = trace, file' = file, fileList' = fileList,
           line' = line + 1, inCallstack' = inCallstack,
           file < Len(fileList) => T!Kind(T!pid, line + 1) # "start"
    PROVE  StackOpen'
<1>1. T!pid' = T!pid /\ \A j : T!Kind(T!pid, j)' = T!Kind(T!pid, j)
      BY TraceKept DEF T!pid
<1>2. ASSUME file < Len(fileList),
             NEW j \in 1..line + 1, T!Kind(T!pid, j) = "start",
             \A k \in j + 1..line + 1 : T!Kind(T!pid, k) # "end"
      PROVE  inCallstack
  <2>1. line \in Nat /\ j # line + 1
        BY <1>2 DEF TraceTypes
  <2>2. j \in 1..line /\ \A k \in j + 1..line : k \in j + 1..line + 1
        BY <2>1
  <2> QED BY <1>2, <2>2 DEF StackOpen
<1> QED BY <1>1, <1>2 DEF StackOpen

LEMMA StackEndsSound ==
    ASSUME Stage1Assumption, TraceInv, T!StackEnds
    PROVE  TraceInv'
<1>1. /\ trace' = trace /\ fileList' = fileList /\ file' = file /\ line' = line + 1
      /\ T!pid' = T!pid /\ T!pid \in Pid /\ file < Len(fileList)
      /\ T!Kind(T!pid, line + 1) = "end" /\ line + 1 \in DOMAIN trace[T!pid]
      /\ trace[T!pid][line + 1].kind = "end"
      /\ inCallstack' = FALSE /\ callstack' = callstack /\ scn' = None
      BY TraceOf, SMTT(60) DEF TraceInv, TraceTypes, T!StackEnds, T!Read, T!Reading, T!nextLine,
                     T!Kind, T!pid
<1>2. TraceTypes' /\ ScnOpen'
  <2>3. line + 1 \in Nat
        BY DEF TraceInv, TraceTypes
  <2>1. TraceTypes'
        BY <1>1, <2>3, Zenon DEF TraceInv, TraceTypes
  <2>2. ScnOpen'
        BY <1>1 DEF ScnOpen
  <2> QED BY <2>1, <2>2
<1>3. inCallstack
  <2>1. PICK j \in 1..(line + 1) - 1 :
               /\ trace[T!pid][j].kind = "start"
               /\ \A n \in j..(line + 1) - 1 : trace[T!pid][n].kind # "end"
        BY <1>1 DEF TraceInv, TraceTypes, Stage1Assumption, T!TracesAssumption
  <2>2. line \in Nat /\ trace[T!pid] \in Seq(T!Line)
        BY <1>1, TraceOf DEF TraceInv, TraceTypes
  <2>5. (line + 1) - 1 = line /\ DOMAIN trace[T!pid] = 1..Len(trace[T!pid])
        BY <2>2
  <2>3. j \in 1..line /\ \A n \in j..line : n \in DOMAIN trace[T!pid]
        BY <1>1, <2>1, <2>2, <2>5
  <2>4. T!Kind(T!pid, j) = "start" /\ \A n \in j + 1..line : T!Kind(T!pid, n) # "end"
        BY <2>1, <2>2, <2>3, <2>5 DEF T!Kind
  <2> QED BY <1>1, <2>3, <2>4 DEF TraceInv, StackOpen
<1>4. StackOpen'
  <2> SUFFICES ASSUME NEW j \in 1..line + 1, T!Kind(T!pid, j) = "start",
                      \A k \in j + 1..line + 1 : T!Kind(T!pid, k) # "end"
               PROVE  FALSE
      BY <1>1, TraceKept DEF StackOpen
  <2> QED BY <1>1 DEF TraceInv, TraceTypes
<1>5. CASE callstack # <<>> /\ scn # None
  <2> DEFINE fn == callstack[1]
  <2>1. PICK i \in DOMAIN trace[T!pid] :
               /\ OpenCall(T!pid, i, line)
               /\ trace[T!pid][i].name = scn
               /\ scn = Clone => trace[T!pid][i].result = scc
               /\ fn # None => T!Stacked(T!pid, i, fn)
        BY <1>1, <1>3, <1>5 DEF TraceInv, ScnOpen
  <2>2. T!Kind(T!pid, i) = "call"
        BY <2>1 DEF OpenCall
  <2>3. fn # None => T!Traced(fn, scn)
        BY <1>1, <2>1, <2>2 DEF T!Traced
  <2>4. (fn # None /\ scn = Clone) => Forked(scc, fn)
        BY <1>1, <2>1, <2>2 DEF Forked, T!Clones
  <2>5. /\ functions' = T!Attribute(fn, scn)
        /\ children' = IF scn = Clone THEN T!With(children, scc, fn) ELSE children
        BY <1>5 DEF T!StackEnds
  <2>6. T!Evidence'
        BY <1>1, <2>3, <2>5, TraceKept DEF TraceInv, T!Evidence, T!Attribute, T!With
  <2>7. ChildrenForked'
        BY <1>1, <2>4, <2>5, TraceKept DEF TraceInv, ChildrenForked, T!With
  <2> QED BY <1>2, <1>4, <2>6, <2>7 DEF TraceInv
<1>6. CASE ~(callstack # <<>> /\ scn # None)
  <2>1. functions' = functions /\ children' = children
        BY <1>6 DEF T!StackEnds
  <2> QED BY <1>1, <1>2, <1>4, <2>1, TraceKept DEF TraceInv, ChildrenForked, T!Evidence
<1> QED BY <1>5, <1>6

LEMMA StackExtended ==
    ASSUME NEW p, NEW i \in Nat, NEW n \in Nat, OpenStack(p, i, n),
           T!Kind(p, n + 1) = "number", \A j \in DOMAIN trace[p] : j \in Nat
    PROVE  OpenStack(p, i, n + 1)
<1>1. PICK j \in DOMAIN trace[p] : /\ i < j /\ j <= n
                                  /\ T!Kind(p, j) = "start"
                                  /\ \A k \in j + 1..n : T!Kind(p, k) = "number"
      BY DEF OpenStack
<1>2. j \in Nat
      BY <1>1
<1>3. \A k \in j + 1..n + 1 : k \in j + 1..n \/ k = n + 1
      BY <1>2
<1>4. j <= n + 1 /\ \A k \in j + 1..n + 1 : T!Kind(p, k) = "number"
      BY <1>1, <1>2, <1>3
<1> QED BY <1>1, <1>4 DEF OpenStack

LEMMA FirstOfAppended ==
    ASSUME NEW S, NEW seq \in Seq(S), NEW x \in S
    PROVE  /\ Append(seq, x) \in Seq(S) /\ Append(seq, x) # <<>>
           /\ seq = <<>> => Append(seq, x)[1] = x
           /\ seq # <<>> => Append(seq, x)[1] = seq[1]
OBVIOUS

LEMMA StackLineSound ==
    ASSUME Stage1Assumption, TraceInv, T!StackLine
    PROVE  TraceInv'
<1> DEFINE p == T!pid
<1>0. PICK kind \in {"frame", "call", "number"} : T!Read(kind)
      BY DEF T!StackLine
<1>1. /\ trace' = trace /\ fileList' = fileList /\ file' = file /\ line' = line + 1
      /\ inCallstack /\ inCallstack' = inCallstack
      /\ scn' = scn /\ scc' = scc /\ functions' = functions /\ children' = children
      /\ file < Len(fileList) /\ line < Len(trace[p])
      /\ T!nextLine.kind = kind
      BY <1>0 DEF T!StackLine, T!Read, T!Reading
<1>2. /\ T!pid' = p /\ p \in Pid /\ trace[p] \in Seq(T!Line)
      /\ line \in Nat /\ callstack \in Seq(Fn \cup {None})
      BY <1>1, TraceOf DEF TraceInv, TraceTypes, T!pid
<1>3. /\ line + 1 \in DOMAIN trace[p] /\ line + 1 \in Nat
      /\ T!nextLine = trace[p][line + 1]
      BY <1>1, <1>2 DEF T!nextLine
<1>4. T!Kind(p, line + 1) = kind /\ T!nextLine \in T!Line
      BY <1>1, <1>2, <1>3 DEF T!Kind
<1>5. /\ kind = "frame" => callstack' = Append(callstack, T!nextLine.fn) /\ T!nextLine.fn \in Fn
      /\ kind = "call" => callstack' = Append(callstack, None)
      /\ kind = "number" => callstack' = callstack
  <2>1. callstack' = CASE T!nextLine.kind = "frame" -> Append(callstack, T!nextLine.fn)
                       [] T!nextLine.kind = "call" -> Append(callstack, None)
                       [] T!nextLine.kind = "number" -> callstack
        BY DEF T!StackLine
  <2>2. kind = "frame" => T!nextLine.fn \in Fn
        BY <1>1, <1>4 DEF T!Line
  <2> QED BY <1>1, <2>1, <2>2
<1>6. /\ callstack' \in Seq(Fn \cup {None})
      /\ callstack # <<>> => callstack' # <<>> /\ callstack'[1] = callstack[1]
      /\ (callstack = <<>> /\ callstack' # <<>>) =>
             \/ kind = "frame" /\ callstack'[1] = T!nextLine.fn
             \/ callstack'[1] = None
      /\ callstack' = <<>> => kind = "number" /\ callstack = <<>>
  <2> DEFINE S == Fn \cup {None}
  <2>0. callstack \in Seq(S) /\ \A x \in S : Append(callstack, x) \in Seq(S)
        BY <1>2, FirstOfAppended
  <2>4. \A x \in S :
        /\ Append(callstack, x) # <<>>
        /\ callstack = <<>> => Append(callstack, x)[1] = x
        /\ callstack # <<>> => Append(callstack, x)[1] = callstack[1]
    <3> HIDE DEF S
    <3> QED BY <2>0, FirstOfAppended
  <2>5. ASSUME NEW x \in S, callstack' = Append(callstack, x)
        PROVE  /\ callstack' \in Seq(S) /\ callstack' # <<>>
               /\ callstack = <<>> => callstack'[1] = x
               /\ callstack # <<>> => callstack'[1] = callstack[1]
    <3>1. /\ Append(callstack, x) \in Seq(S) /\ Append(callstack, x) # <<>>
          /\ callstack = <<>> => Append(callstack, x)[1] = x
          /\ callstack # <<>> => Append(callstack, x)[1] = callstack[1]
          BY <2>0, <2>4, <2>5
    <3> QED BY <2>5, <3>1, Zenon
  <2>1. CASE kind = "frame"
    <3>1. T!nextLine.fn \in S /\ callstack' = Append(callstack, T!nextLine.fn)
          BY <1>5, <2>1
    <3>2. /\ callstack' \in Seq(S) /\ callstack' # <<>>
          /\ callstack = <<>> => callstack'[1] = T!nextLine.fn
          /\ callstack # <<>> => callstack'[1] = callstack[1]
          BY <2>5, <3>1, Zenon
    <3> QED BY <2>1, <3>2, Zenon
  <2>2. CASE kind = "call"
    <3>1. None \in S /\ callstack' = Append(callstack, None)
          BY <1>5, <2>2
    <3>2. /\ callstack' \in Seq(S) /\ callstack' # <<>>
          /\ callstack = <<>> => callstack'[1] = None
          /\ callstack # <<>> => callstack'[1] = callstack[1]
          BY <2>5, <3>1, Zenon
    <3> QED BY <2>2, <3>2, Zenon
  <2>3. CASE kind = "number"
        BY <1>2, <1>5, <2>3
  <2> QED BY <2>1, <2>2, <2>3
<1>7. TraceTypes'
      BY <1>1, <1>3, <1>6, Zenon DEF TraceInv, TraceTypes
<1>8. StackOpen' /\ ChildrenForked' /\ T!Evidence'
  <2>1. StackOpen'
        BY <1>1, <1>4, StackStaysOpen DEF TraceInv
  <2>2. ChildrenForked' /\ T!Evidence'
        BY <1>1, TraceKept DEF TraceInv, ChildrenForked, T!Evidence
  <2> QED BY <2>1, <2>2
<1>9. ScnOpen'
  <2> SUFFICES ASSUME scn # None
               PROVE  \E i \in DOMAIN trace[p] :
                         /\ OpenCall(p, i, line + 1)
                         /\ trace[p][i].name = scn
                         /\ scn = Clone => trace[p][i].result = scc
                         /\ \E s \in i + 1..line + 1 : T!Kind(p, s) = "start"
                         /\ callstack' = <<>> => OpenStack(p, i, line + 1)
                         /\ (callstack' # <<>> /\ callstack'[1] # None) =>
                                T!Stacked(p, i, callstack'[1])
        BY <1>1, <1>2, TraceKept DEF ScnOpen
  <2>1. PICK i \in DOMAIN trace[p] :
               /\ OpenCall(p, i, line)
               /\ trace[p][i].name = scn
               /\ scn = Clone => trace[p][i].result = scc
               /\ \E s \in i + 1..line : T!Kind(p, s) = "start"
               /\ callstack = <<>> => OpenStack(p, i, line)
               /\ (callstack # <<>> /\ callstack[1] # None) => T!Stacked(p, i, callstack[1])
        BY <1>1 DEF TraceInv, ScnOpen
  <2>2. i \in Nat /\ \A j \in DOMAIN trace[p] : j \in Nat
        BY <1>2, <2>1
  <2>3. OpenCall(p, i, line + 1)
        BY <1>2, <1>4, <2>1, <2>2, CallExtended
  <2>4. \E s \in i + 1..line + 1 : T!Kind(p, s) = "start"
        BY <1>2, <2>1, <2>2
  <2>5. callstack' = <<>> => OpenStack(p, i, line + 1)
        BY <1>2, <1>4, <1>6, <2>1, <2>2, StackExtended
  <2>6. ASSUME callstack' # <<>>, callstack'[1] # None
        PROVE  T!Stacked(p, i, callstack'[1])
    <3>1. CASE callstack # <<>>
          BY <1>6, <2>1, <2>6, <3>1
    <3>2. CASE callstack = <<>>
      <4>1. kind = "frame" /\ callstack'[1] = trace[p][line + 1].fn
            BY <1>3, <1>6, <2>6, <3>2
      <4> QED BY <1>2, <1>4, <2>1, <2>2, <3>2, <4>1, TopPushed
    <3> QED BY <3>1, <3>2
  <2> QED BY <2>1, <2>3, <2>4, <2>5, <2>6
<1> QED BY <1>7, <1>8, <1>9 DEF TraceInv

LEMMA CallLineSound ==
    ASSUME Stage1Assumption, TraceInv, T!CallLine
    PROVE  TraceInv'
<1> DEFINE p == T!pid
           name == trace[p][line + 1].name
<1>1. /\ trace' = trace /\ fileList' = fileList /\ file' = file /\ line' = line + 1
      /\ ~inCallstack /\ inCallstack' = inCallstack
      /\ callstack' = callstack /\ children' = children
      /\ file < Len(fileList) /\ line < Len(trace[p])
      /\ trace[p][line + 1].kind = "call"
      /\ scn' = name
      /\ scc' = IF name = Clone THEN trace[p][line + 1].result ELSE scc
      /\ \/ functions' = functions
         \/ p \in DOMAIN children /\ functions' = T!Attribute(children[p], name)
      BY DEF T!CallLine, T!Read, T!Reading, T!nextLine
<1>2. /\ T!pid' = p /\ p \in Pid /\ trace[p] \in Seq(T!Line) /\ line \in Nat
      BY <1>1, TraceOf DEF TraceInv, TraceTypes, T!pid
<1>3. line + 1 \in DOMAIN trace[p] /\ line + 1 \in Nat
      BY <1>1, <1>2
<1>4. T!Kind(p, line + 1) = "call"
      BY <1>1, <1>2, <1>3 DEF T!Kind
<1>5. TraceTypes'
      BY <1>1, <1>3, Zenon DEF TraceInv, TraceTypes
<1>6. StackOpen'
      BY <1>1, <1>4, StackStaysOpen DEF TraceInv
<1>7. ScnOpen'
  <2>1. OpenCall(p, line + 1, line + 1)
    <3>1. \A k \in (line + 1) + 1..line + 1 : FALSE
          BY <1>3
    <3> QED BY <1>3, <1>4, <3>1 DEF OpenCall
  <2>2. ~inCallstack'
        BY <1>1
  <2> QED BY <1>1, <1>2, <1>3, <2>1, <2>2, TraceKept DEF ScnOpen
<1>8. ChildrenForked'
      BY <1>1, TraceKept DEF TraceInv, ChildrenForked
<1>9. T!Evidence'
  <2>1. CASE functions' = functions
        BY <1>1, <2>1, TraceKept DEF TraceInv, T!Evidence
  <2>2. CASE p \in DOMAIN children /\ functions' = T!Attribute(children[p], name)
    <3>1. children[p] # None => T!Traced(children[p], name)
          BY <1>2, <1>3, <1>4, <2>2 DEF TraceInv, ChildrenForked, Forked, T!Traced
    <3> QED BY <1>1, <2>2, <3>1, TraceKept DEF TraceInv, T!Evidence, T!Attribute, T!With
  <2> QED BY <1>1, <2>1, <2>2
<1> QED BY <1>5, <1>6, <1>7, <1>8, <1>9 DEF TraceInv

LEMMA NumberLineSound ==
    ASSUME Stage1Assumption, TraceInv, T!NumberLine
    PROVE  TraceInv'
<1> DEFINE p == T!pid
<1>1. /\ trace' = trace /\ fileList' = fileList /\ file' = file /\ line' = line + 1
      /\ ~inCallstack /\ inCallstack' = inCallstack /\ callstack' = callstack
      /\ scn' = scn /\ scc' = scc /\ functions' = functions /\ children' = children
      /\ file < Len(fileList) /\ line < Len(trace[p])
      /\ trace[p][line + 1].kind = "number"
      BY DEF T!NumberLine, T!Read, T!Reading, T!nextLine
<1>2. /\ T!pid' = p /\ p \in Pid /\ trace[p] \in Seq(T!Line) /\ line \in Nat
      BY <1>1, TraceOf DEF TraceInv, TraceTypes, T!pid
<1>3. line + 1 \in DOMAIN trace[p] /\ line + 1 \in Nat
      BY <1>1, <1>2
<1>4. T!Kind(p, line + 1) = "number"
      BY <1>1, <1>2, <1>3 DEF T!Kind
<1>5. TraceTypes'
      BY <1>1, <1>3, Zenon DEF TraceInv, TraceTypes
<1>6. StackOpen'
      BY <1>1, <1>4, StackStaysOpen DEF TraceInv
<1>7. ScnOpen'
  <2> SUFFICES ASSUME scn # None
               PROVE  \E i \in DOMAIN trace[p] :
                         /\ OpenCall(p, i, line + 1)
                         /\ trace[p][i].name = scn
                         /\ scn = Clone => trace[p][i].result = scc
        BY <1>1, <1>2, TraceKept DEF ScnOpen
  <2>1. PICK i \in DOMAIN trace[p] :
               /\ OpenCall(p, i, line)
               /\ trace[p][i].name = scn
               /\ scn = Clone => trace[p][i].result = scc
        BY <1>1 DEF TraceInv, ScnOpen
  <2>2. i \in Nat
        BY <1>2, <2>1
  <2> QED BY <1>2, <1>4, <2>1, <2>2, CallExtended
<1>8. ChildrenForked' /\ T!Evidence'
      BY <1>1, TraceKept DEF TraceInv, ChildrenForked, T!Evidence
<1> QED BY <1>5, <1>6, <1>7, <1>8 DEF TraceInv

LEMMA NextFileSound ==
    ASSUME Stage1Assumption, TraceInv, T!NextFile
    PROVE  TraceInv'
<1>1. /\ trace' = trace /\ fileList' = fileList /\ file' = file + 1 /\ line' = 0
      /\ inCallstack' = FALSE /\ callstack' = <<>> /\ scn' = None
      /\ functions' = functions /\ children' = children
      BY DEF T!NextFile
<1>2. file + 1 \in Nat /\ 0 \in Nat /\ <<>> \in Seq(Fn \cup {None})
      BY DEF TraceInv, TraceTypes
<1>3. TraceTypes'
      BY <1>1, <1>2, Zenon DEF TraceInv, TraceTypes
<1>4. ScnOpen' /\ StackOpen'
  <2>1. ScnOpen'
        BY <1>1, Zenon DEF ScnOpen
  <2>2. \A j \in 1..0 : FALSE
        OBVIOUS
  <2>3. StackOpen'
        BY <1>1, <2>2, Zenon DEF StackOpen
  <2> QED BY <2>1, <2>3
<1>5. ChildrenForked' /\ T!Evidence'
      BY <1>1, TraceKept DEF TraceInv, ChildrenForked, T!Evidence
<1> QED BY <1>3, <1>4, <1>5 DEF TraceInv

LEMMA TraceStep ==
    ASSUME Stage1Assumption, TraceInv, T!Next
    PROVE  TraceInv'
BY StackStartsSound, StackEndsSound, StackLineSound, CallLineSound, NumberLineSound,
   NextFileSound DEF T!Next

LEMMA TraceUnchanged ==
    ASSUME TraceInv, UNCHANGED traceVars
    PROVE  TraceInv'
<1>1. /\ trace' = trace /\ fileList' = fileList /\ file' = file /\ line' = line
      /\ inCallstack' = inCallstack /\ callstack' = callstack /\ scn' = scn /\ scc' = scc
      /\ functions' = functions /\ children' = children /\ T!pid' = T!pid
      BY DEF traceVars, T!pid
<1>2. TraceTypes' /\ ScnOpen' /\ StackOpen'
      BY <1>1, TraceKept, Zenon DEF TraceInv, TraceTypes, ScnOpen, StackOpen
<1>3. ChildrenForked' /\ T!Evidence'
      BY <1>1, TraceKept DEF TraceInv, ChildrenForked, T!Evidence
<1> QED BY <1>2, <1>3 DEF TraceInv

-----------------------------------------------------------------------------
(* What the traces show is read *)

\* After n lines of p, the call in line i waits for the end of its stack, in which fn is
\* on top.
Pending(p, i, n, fn) ==
    /\ i \in 1..n
    /\ T!Kind(p, i) = "call" /\ T!Outside(p, i) /\ T!TopOf(p, i) = fn
    /\ \A k \in i + 1..n : T!Kind(p, k) # "end"
    /\ \A k \in i + 2..n : T!Kind(p, k) # "start"

\* What the parser knows of it.
CallRead(i, fn) ==
    /\ scn = trace[T!pid][i].name
    /\ scn = Clone => scc = trace[T!pid][i].result
    /\ line >= i + 1 => inCallstack
    /\ line = i + 1 => callstack = <<>>
    /\ line >= i + 2 => callstack # <<>> /\ callstack[1] = fn

PendingRead ==
    file < Len(fileList) =>
        \A i \in Nat : \A fn \in Fn : Pending(T!pid, i, line, fn) => CallRead(i, fn)

\* The converse of StackOpen.
StackBegun ==
    (file < Len(fileList) /\ inCallstack) =>
        \E j \in 1..line : /\ T!Kind(T!pid, j) = "start"
                           /\ \A k \in j + 1..line : T!Kind(T!pid, k) # "end"

\* A call right after a call or a number is not right after a stack.
ScpRead ==
    (file < Len(fileList) /\ ~inCallstack /\ T!Kind(T!pid, line) \in {"call", "number"}) => ~scp

ShownCounted ==
    \A p \in Pid : \A i, e \in Nat : \A fn \in Fn :
        T!Shown(p, i, e, fn) /\ T!Seen(p, e) =>
            fn \in DOMAIN functions /\ trace[p][i].name \in functions[fn]

ForksNoted ==
    \A q, p \in Pid : \A j, e \in Nat : \A fn \in Fn :
        T!Forks(q, j, e, p, fn) /\ T!Seen(q, e) =>
            p \in DOMAIN children /\ children[p] = fn /\ fn \in DOMAIN functions

OneFileEach == \A k, m \in 1..Len(fileList) : fileList[k] = fileList[m] => k = m

ReadInv ==
    /\ PendingRead /\ StackBegun /\ ScpRead
    /\ ShownCounted /\ ForksNoted /\ OneFileEach /\ T!ForkedCallsCounted

LEMMA ShownKept ==
    ASSUME trace' = trace
    PROVE  /\ \A p, i : T!Outside(p, i)' <=> T!Outside(p, i)
           /\ \A p, i, n, fn : Pending(p, i, n, fn)' <=> Pending(p, i, n, fn)
           /\ \A p, i, e, fn : T!Shown(p, i, e, fn)' <=> T!Shown(p, i, e, fn)
           /\ \A q, j, e, p, fn : T!Forks(q, j, e, p, fn)' <=> T!Forks(q, j, e, p, fn)
<1>1. /\ \A p, i : T!Kind(p, i)' = T!Kind(p, i)
      /\ \A p, i : T!TopOf(p, i)' = T!TopOf(p, i)
      /\ \A q, j, p : T!Clones(q, j, p)' <=> T!Clones(q, j, p)
      BY DEF T!Kind, T!TopOf, T!Clones
<1>2. \A p, i : T!Outside(p, i)' <=> T!Outside(p, i)
      BY <1>1 DEF T!Outside
<1>3. \A p, i, n, fn : Pending(p, i, n, fn)' <=> Pending(p, i, n, fn)
      BY <1>1, <1>2 DEF Pending
<1>4. \A p, i, e, fn : T!Shown(p, i, e, fn)' <=> T!Shown(p, i, e, fn)
      BY <1>1, <1>2 DEF T!Shown
<1>5. \A q, j, e, p, fn : T!Forks(q, j, e, p, fn)' <=> T!Forks(q, j, e, p, fn)
      BY <1>1, <1>4 DEF T!Forks
<1> QED BY <1>2, <1>3, <1>4, <1>5

\* A line is read.
LEMMA LineRead ==
    ASSUME Stage1Assumption, TraceTypes, NEW kind, T!Read(kind)
    PROVE  /\ trace' = trace /\ fileList' = fileList /\ file' = file /\ line' = line + 1
           /\ T!pid' = T!pid /\ T!pid \in Pid /\ trace[T!pid] \in Seq(T!Line)
           /\ file \in Nat /\ line \in Nat /\ line + 1 \in Nat /\ file < Len(fileList)
           /\ line + 1 \in DOMAIN trace[T!pid] /\ T!Kind(T!pid, line + 1) = kind
           /\ T!nextLine = trace[T!pid][line + 1]
           /\ Len(fileList) \in Nat /\ file + 1 \in 1..Len(fileList)
           /\ fileList[file + 1] = T!pid
<1>1. /\ trace' = trace /\ fileList' = fileList /\ file' = file /\ line' = line + 1
      /\ file < Len(fileList) /\ line < Len(trace[T!pid])
      /\ trace[T!pid][line + 1].kind = kind
      BY DEF T!Read, T!Reading, T!nextLine
<1>2. /\ T!pid' = T!pid /\ T!pid \in Pid /\ trace[T!pid] \in Seq(T!Line)
      /\ line \in Nat /\ file \in Nat /\ Len(fileList) \in Nat
      BY <1>1, TraceOf DEF TraceTypes, T!pid
<1>3. line + 1 \in DOMAIN trace[T!pid] /\ line + 1 \in 1..Len(trace[T!pid])
      BY <1>1, <1>2
<1>4. T!Kind(T!pid, line + 1) = kind
      BY <1>1, <1>3 DEF T!Kind
<1>5. file + 1 \in 1..Len(fileList) /\ fileList[file + 1] = T!pid
      BY <1>1, <1>2 DEF T!pid
<1> QED BY <1>1, <1>2, <1>3, <1>4, <1>5 DEF T!nextLine

\* A call that waits after one more line is that line, or it waited before.
LEMMA PendingBefore ==
    ASSUME Stage1Assumption, NEW p, NEW i \in Nat, NEW n \in Nat, NEW fn \in Fn,
           Pending(p, i, n + 1, fn), i # n + 1
    PROVE  /\ Pending(p, i, n, fn) /\ T!Kind(p, n + 1) # "end"
           /\ n + 1 = i + 1 => T!Kind(p, n + 1) = "start"
           /\ n + 1 = i + 2 => T!Kind(p, n + 1) = "frame" /\ trace[p][n + 1].fn = fn
           /\ n + 1 # i + 1 => n >= i + 1 /\ T!Kind(p, n + 1) # "start"
<1>1. i \in 1..n /\ n + 1 \in i + 1..n + 1
      BY DEF Pending
<1>2. (\A k \in i + 1..n : k \in i + 1..n + 1) /\ (\A k \in i + 2..n : k \in i + 2..n + 1)
      BY <1>1
<1>3. Pending(p, i, n, fn) /\ T!Kind(p, n + 1) # "end"
      BY <1>1, <1>2 DEF Pending
<1>4. T!Kind(p, i + 1) = "start" /\ T!Kind(p, i + 2) = "frame" /\ trace[p][i + 2].fn = fn
      BY DEF Pending, T!TopOf, Stage1Assumption
<1>5. ASSUME n + 1 # i + 1
      PROVE  n >= i + 1 /\ T!Kind(p, n + 1) # "start"
  <2>1. n + 1 \in i + 2..n + 1
        BY <1>1, <1>5
  <2> QED BY <1>1, <2>1 DEF Pending
<1> QED BY <1>3, <1>4, <1>5

\* When the stack that shows a call ends, the call waits for it.
LEMMA ShownPending ==
    ASSUME Stage1Assumption, trace \in Traces, NEW p \in Pid, NEW i \in Nat, NEW e \in Nat,
           NEW fn \in Fn, T!Shown(p, i, e, fn)
    PROVE  /\ e - 1 \in Nat /\ e - 1 >= i + 2 /\ Pending(p, i, e - 1, fn)
           /\ i \in DOMAIN trace[p] /\ e \in DOMAIN trace[p]
           /\ trace[p][i].name \in Syscall
<1>1. /\ T!Kind(p, i) = "call" /\ T!Outside(p, i) /\ T!TopOf(p, i) = fn
      /\ i < e /\ T!Kind(p, e) = "end"
      /\ \A k \in i + 2..e : T!Kind(p, k) # "start"
      BY DEF T!Shown
<1>2. T!Kind(p, i + 1) = "start" /\ T!Kind(p, i + 2) = "frame"
      BY <1>1 DEF T!TopOf, Stage1Assumption
<1>3. e # i + 1 /\ e # i + 2
      BY <1>1, <1>2
<1>4. /\ trace[p] \in Seq(T!Line)
      /\ \A k \in DOMAIN trace[p] : trace[p][k].kind = "end" =>
            \E j \in 1..k - 1 : /\ trace[p][j].kind = "start"
                               /\ \A n \in j..k - 1 : trace[p][n].kind # "end"
      BY DEF Stage1Assumption, T!TracesAssumption
<1>5. DOMAIN trace[p] = 1..Len(trace[p]) /\ Len(trace[p]) \in Nat
      BY <1>4
<1>6. i \in DOMAIN trace[p] /\ e \in DOMAIN trace[p]
      BY <1>1, <1>5 DEF T!Kind
<1>7. PICK j \in 1..e - 1 : /\ trace[p][j].kind = "start"
                            /\ \A n \in j..e - 1 : trace[p][n].kind # "end"
  <2>1. trace[p][e].kind = "end"
        BY <1>1, <1>5, <1>6 DEF T!Kind
  <2> QED BY <1>4, <1>6, <2>1
<1>8. T!Kind(p, j) = "start" /\ j \in Nat
  <2>1. j \in 1..Len(trace[p])
        BY <1>5, <1>6
  <2> QED BY <1>7, <2>1 DEF T!Kind
<1>9. j \notin i + 2..e
      BY <1>1, <1>8
<1>10. \A k \in i + 1..e - 1 : T!Kind(p, k) # "end"
  <2> SUFFICES ASSUME NEW k \in i + 1..e - 1
               PROVE  T!Kind(p, k) # "end"
      OBVIOUS
  <2>1. j <= i + 1 /\ k \in j..e - 1 /\ k \in 1..Len(trace[p])
        BY <1>5, <1>6, <1>7, <1>8, <1>9
  <2>2. trace[p][k].kind # "end"
        BY <1>7, <2>1
  <2> QED BY <2>1, <2>2 DEF T!Kind
<1>11. Pending(p, i, e - 1, fn)
  <2>1. i \in 1..e - 1 /\ \A k \in i + 2..e - 1 : k \in i + 2..e
        BY <1>1, <1>5, <1>6
  <2> QED BY <1>1, <1>10, <2>1 DEF Pending
<1>12. trace[p][i].name \in Syscall
  <2>1. trace[p][i] \in T!Line /\ trace[p][i].kind = "call"
        BY <1>1, <1>4, <1>5, <1>6 DEF T!Kind
  <2> QED BY <2>1 DEF T!Line
<1>13. e - 1 \in Nat /\ e - 1 >= i + 2
      BY <1>1, <1>3
<1> QED BY <1>6, <1>11, <1>12, <1>13


\* The locals of processFile after a line.
LEMMA StackStartsRead ==
    ASSUME Stage1Assumption, TraceInv, ReadInv, T!StackStarts
    PROVE  PendingRead' /\ StackBegun' /\ ScpRead'
<1>1. /\ T!Read("start") /\ inCallstack' = TRUE /\ callstack' = <<>>
      /\ scn' = scn /\ scc' = scc
      BY DEF T!StackStarts
<1>2. /\ trace' = trace /\ file' = file /\ line' = line + 1 /\ T!pid' = T!pid
      /\ line \in Nat /\ file < Len(fileList) /\ fileList' = fileList
      /\ T!Kind(T!pid, line + 1) = "start"
      BY <1>1, LineRead DEF TraceInv
<1>3. PendingRead'
  <2> SUFFICES ASSUME NEW i \in Nat, NEW fn \in Fn, Pending(T!pid, i, line + 1, fn)
               PROVE  CallRead(i, fn)'
      BY <1>2, ShownKept DEF PendingRead
  <2>1. i # line + 1
        BY <1>2 DEF Pending
  <2>2. line + 1 = i + 1 /\ Pending(T!pid, i, line, fn)
        BY <1>2, <2>1, PendingBefore
  <2>3. CallRead(i, fn)
        BY <1>2, <2>2 DEF ReadInv, PendingRead
  <2>4. ~(line' >= i + 2)
        BY <1>2, <2>2
  <2> QED BY <1>1, <1>2, <2>3, <2>4 DEF CallRead
<1>4. StackBegun'
  <2>1. line + 1 \in 1..line + 1 /\ \A k \in (line + 1) + 1..line + 1 : FALSE
        BY <1>2
  <2> QED BY <1>2, <2>1, TraceKept DEF StackBegun
<1> QED BY <1>1, <1>3, <1>4 DEF ScpRead

LEMMA StackEndsRead ==
    ASSUME Stage1Assumption, TraceInv, ReadInv, T!StackEnds
    PROVE  PendingRead' /\ StackBegun' /\ ScpRead'
<1>1. T!Read("end") /\ inCallstack' = FALSE
      BY DEF T!StackEnds
<1>2. /\ trace' = trace /\ file' = file /\ line' = line + 1 /\ T!pid' = T!pid
      /\ line \in Nat /\ T!Kind(T!pid, line + 1) = "end"
      BY <1>1, LineRead DEF TraceInv
<1>3. PendingRead'
  <2> SUFFICES ASSUME NEW i \in Nat, NEW fn \in Fn, Pending(T!pid, i, line + 1, fn)
               PROVE  FALSE
      BY <1>2, ShownKept DEF PendingRead
  <2>1. i # line + 1
        BY <1>2 DEF Pending
  <2> QED BY <1>2, <2>1, PendingBefore
<1> QED BY <1>1, <1>2, <1>3, TraceKept DEF StackBegun, ScpRead

LEMMA BegunKept ==
    ASSUME trace' = trace, fileList' = fileList, file' = file, line' = line + 1, T!pid' = T!pid,
           line \in Nat, inCallstack' = inCallstack, StackBegun,
           T!Kind(T!pid, line + 1) # "end"
    PROVE  StackBegun'
<1> SUFFICES ASSUME file < Len(fileList), inCallstack
             PROVE  \E j \in 1..line + 1 :
                       /\ T!Kind(T!pid, j) = "start"
                       /\ \A k \in j + 1..line + 1 : T!Kind(T!pid, k) # "end"
    BY TraceKept DEF StackBegun
<1>1. PICK j \in 1..line : /\ T!Kind(T!pid, j) = "start"
                           /\ \A k \in j + 1..line : T!Kind(T!pid, k) # "end"
      BY DEF StackBegun
<1>2. \A k \in j + 1..line + 1 : k \in j + 1..line \/ k = line + 1
      OBVIOUS
<1> QED BY <1>1, <1>2

LEMMA StackLineRead ==
    ASSUME Stage1Assumption, TraceInv, ReadInv, T!StackLine
    PROVE  PendingRead' /\ StackBegun' /\ ScpRead'
<1>1. PICK kind \in {"frame", "call", "number"} : T!Read(kind)
      BY DEF T!StackLine
<1>2. /\ inCallstack /\ inCallstack' = inCallstack /\ scn' = scn /\ scc' = scc
      /\ callstack' = CASE T!nextLine.kind = "frame" -> Append(callstack, T!nextLine.fn)
                        [] T!nextLine.kind = "call" -> Append(callstack, None)
                        [] T!nextLine.kind = "number" -> callstack
      BY DEF T!StackLine
<1>3. /\ trace' = trace /\ file' = file /\ line' = line + 1 /\ T!pid' = T!pid
      /\ line \in Nat /\ file < Len(fileList) /\ fileList' = fileList
      /\ T!Kind(T!pid, line + 1) = kind /\ T!nextLine = trace[T!pid][line + 1]
      /\ line + 1 \in DOMAIN trace[T!pid] /\ trace[T!pid] \in Seq(T!Line)
      BY <1>1, LineRead DEF TraceInv
<1>4. T!nextLine.kind = kind
      BY <1>3 DEF T!Kind
<1>5. StackBegun'
      BY <1>1, <1>2, <1>3, BegunKept DEF ReadInv
<1>6. PendingRead'
  <2> SUFFICES ASSUME NEW i \in Nat, NEW fn \in Fn, Pending(T!pid, i, line + 1, fn)
               PROVE  CallRead(i, fn)'
      BY <1>3, ShownKept DEF PendingRead
  <2>1. CASE i = line + 1
    \* A line in a stack is no call outside one.
    <3>1. T!Outside(T!pid, line + 1)
          BY <2>1 DEF Pending
    <3>2. PICK j \in 1..line : /\ T!Kind(T!pid, j) = "start"
                               /\ \A k \in j + 1..line : T!Kind(T!pid, k) # "end"
          BY <1>2, <1>3 DEF ReadInv, StackBegun
    <3>3. (line + 1) - 1 = line
          BY <1>3
    <3> QED BY <3>1, <3>2, <3>3 DEF T!Outside
  <2>2. CASE i # line + 1
    <3>1. /\ Pending(T!pid, i, line, fn) /\ line + 1 # i + 1 /\ line >= i + 1
          /\ line + 1 = i + 2 => kind = "frame" /\ trace[T!pid][line + 1].fn = fn
      <4>1. /\ Pending(T!pid, i, line, fn)
            /\ line + 1 = i + 1 => T!Kind(T!pid, line + 1) = "start"
            /\ line + 1 = i + 2 => /\ T!Kind(T!pid, line + 1) = "frame"
                                  /\ trace[T!pid][line + 1].fn = fn
            /\ line + 1 # i + 1 => line >= i + 1
            BY <1>3, <2>2, PendingBefore
      <4>2. kind # "start"
            BY <1>1
      <4> QED BY <1>3, <4>1, <4>2
    <3>2. CallRead(i, fn)
          BY <1>3, <3>1 DEF ReadInv, PendingRead
    <3>3. callstack \in Seq(Fn \cup {None})
          BY DEF TraceInv, TraceTypes
    <3>4. callstack' # <<>> /\ callstack'[1] = fn
      <4>1. CASE line = i + 1
        <5>1. callstack = <<>> /\ kind = "frame" /\ T!nextLine.fn = fn
              BY <1>3, <3>1, <3>2, <4>1 DEF CallRead
        <5>2. callstack' = Append(<<>>, fn)
              BY <1>2, <1>4, <5>1
        <5> QED BY <5>2
      <4>2. CASE line # i + 1
        <5>1. callstack # <<>> /\ callstack[1] = fn
              BY <1>3, <3>1, <3>2, <4>2 DEF CallRead
        <5>2. callstack' = callstack \/ \E x : callstack' = Append(callstack, x)
              BY <1>2, <1>4
        <5>3. \A x : Append(callstack, x) # <<>> /\ Append(callstack, x)[1] = callstack[1]
              BY <3>3, <5>1
        <5> QED BY <5>1, <5>2, <5>3
      <4> QED BY <4>1, <4>2
    <3>5. line' # i + 1
          BY <1>3, <3>1
    <3> QED BY <1>2, <1>3, <3>2, <3>4, <3>5 DEF CallRead
  <2> QED BY <2>1, <2>2
<1> QED BY <1>2, <1>5, <1>6 DEF ScpRead

LEMMA CallLineRead ==
    ASSUME Stage1Assumption, TraceInv, ReadInv, T!CallLine
    PROVE  PendingRead' /\ StackBegun' /\ ScpRead'
<1>1. /\ T!Read("call") /\ ~inCallstack /\ inCallstack' = inCallstack
      /\ scn' = T!nextLine.name
      /\ scc' = IF T!nextLine.name = Clone THEN T!nextLine.result ELSE scc
      /\ scp' = FALSE
      BY DEF T!CallLine
<1>2. /\ trace' = trace /\ file' = file /\ line' = line + 1 /\ T!pid' = T!pid
      /\ line \in Nat /\ file < Len(fileList) /\ fileList' = fileList
      /\ T!Kind(T!pid, line + 1) = "call" /\ T!nextLine = trace[T!pid][line + 1]
      BY <1>1, LineRead DEF TraceInv
<1>3. PendingRead'
  <2> SUFFICES ASSUME NEW i \in Nat, NEW fn \in Fn, Pending(T!pid, i, line + 1, fn)
               PROVE  CallRead(i, fn)'
      BY <1>2, ShownKept DEF PendingRead
  <2>1. CASE i = line + 1
    <3>1. ~(line' >= i + 1) /\ line' # i + 1 /\ ~(line' >= i + 2)
          BY <1>2, <2>1
    <3> QED BY <1>1, <1>2, <2>1, <3>1 DEF CallRead
  <2>2. CASE i # line + 1
    <3>1. Pending(T!pid, i, line, fn) /\ line >= i + 1
          BY <1>2, <2>2, PendingBefore
    <3> QED BY <1>1, <1>2, <3>1 DEF ReadInv, PendingRead, CallRead
  <2> QED BY <2>1, <2>2
<1>4. StackBegun' /\ ScpRead'
      BY <1>1 DEF StackBegun, ScpRead
<1> QED BY <1>3, <1>4

LEMMA NumberLineRead ==
    ASSUME Stage1Assumption, TraceInv, ReadInv, T!NumberLine
    PROVE  PendingRead' /\ StackBegun' /\ ScpRead'
<1>1. T!Read("number") /\ ~inCallstack /\ inCallstack' = inCallstack /\ scp' = FALSE
      BY DEF T!NumberLine
<1>2. /\ trace' = trace /\ file' = file /\ line' = line + 1 /\ T!pid' = T!pid
      /\ line \in Nat /\ file < Len(fileList) /\ fileList' = fileList
      /\ T!Kind(T!pid, line + 1) = "number"
      BY <1>1, LineRead DEF TraceInv
<1>3. PendingRead'
  <2> SUFFICES ASSUME NEW i \in Nat, NEW fn \in Fn, Pending(T!pid, i, line + 1, fn)
               PROVE  FALSE
      BY <1>2, ShownKept DEF PendingRead
  <2>1. i # line + 1
        BY <1>2 DEF Pending
  <2>2. Pending(T!pid, i, line, fn) /\ line >= i + 1
        BY <1>2, <2>1, PendingBefore
  <2> QED BY <1>1, <1>2, <2>2 DEF ReadInv, PendingRead, CallRead
<1>4. StackBegun' /\ ScpRead'
      BY <1>1 DEF StackBegun, ScpRead
<1> QED BY <1>3, <1>4

LEMMA NextFileRead ==
    ASSUME T!NextFile
    PROVE  PendingRead' /\ StackBegun' /\ ScpRead'
<1>1. line' = 0 /\ inCallstack' = FALSE
      BY DEF T!NextFile
<1>2. \A p, i, fn : ~Pending(p, i, line, fn)'
  <2>1. 1..0 = {}
        OBVIOUS
  <2> QED BY <1>1, <2>1 DEF Pending
<1>3. T!Kind(T!pid, line)' = "none"
      BY <1>1 DEF T!Kind
<1>4. PendingRead'
      BY <1>2 DEF PendingRead
<1> QED BY <1>1, <1>3, <1>4 DEF StackBegun, ScpRead


\* What a step reads.
LEMMA LineOrFile ==
    ASSUME T!Next
    PROVE  \/ T!NextFile
           \/ T!Read("end") /\ T!StackEnds
           \/ \E kind \in {"start", "frame", "call", "number"} :
                 /\ T!Read(kind) /\ children' = children
                 /\ (kind = "call" /\ ~inCallstack) => T!CallLine
<1>1. CASE T!StackStarts
      BY <1>1, Zenon DEF T!StackStarts
<1>2. CASE T!StackEnds
      BY <1>2 DEF T!StackEnds
<1>3. CASE T!StackLine
      BY <1>3 DEF T!StackLine
<1>4. CASE T!CallLine
  <2>1. T!Read("call") /\ children' = children
        BY <1>4 DEF T!CallLine
  <2> QED BY <1>4, <2>1
<1>5. CASE T!NumberLine
      BY <1>5 DEF T!NumberLine
<1> QED BY <1>1, <1>2, <1>3, <1>4, <1>5 DEF T!Next

LEMMA FunctionsGrow ==
    ASSUME T!Next
    PROVE  \A fn \in DOMAIN functions :
              fn \in DOMAIN functions' /\ functions[fn] \subseteq functions'[fn]
<1>1. functions' = functions \/ \E f, sc : functions' = T!Attribute(f, sc)
      BY DEF T!Next, T!StackStarts, T!StackEnds, T!StackLine, T!CallLine, T!NumberLine, T!NextFile
<1>2. ASSUME NEW f, NEW sc, functions' = T!Attribute(f, sc), NEW fn \in DOMAIN functions
      PROVE  fn \in DOMAIN functions' /\ functions[fn] \subseteq functions'[fn]
      BY <1>2 DEF T!Attribute, T!With
<1> QED BY <1>1, <1>2

\* What has been read after a step had been before, but for one line.
LEMMA SeenLine ==
    ASSUME Stage1Assumption, TraceTypes, NEW kind, T!Read(kind), NEW p, NEW e \in Nat,
           T!Seen(p, e)'
    PROVE  T!Seen(p, e) \/ (p = T!pid /\ e = line + 1)
<1>1. /\ fileList' = fileList /\ file' = file /\ line' = line + 1
      /\ file \in Nat /\ line \in Nat /\ fileList[file + 1] = T!pid
      BY LineRead
<1>2. PICK k \in 1..Len(fileList) :
          fileList[k] = p /\ (k <= file \/ (k = file + 1 /\ e <= line + 1))
      BY <1>1 DEF T!Seen
<1>3. CASE k <= file \/ e <= line
      BY <1>2, <1>3 DEF T!Seen
<1>4. CASE k = file + 1 /\ e = line + 1
      BY <1>1, <1>2, <1>4
<1> QED BY <1>1, <1>2, <1>3, <1>4

LEMMA SeenFile ==
    ASSUME Stage1Assumption, TraceTypes, T!NextFile, NEW p \in Pid, NEW e \in DOMAIN trace[p],
           T!Seen(p, e)'
    PROVE  trace' = trace /\ T!Seen(p, e)
<1>1. /\ fileList' = fileList /\ file' = file + 1 /\ line' = 0 /\ trace' = trace
      /\ file < Len(fileList) /\ line = Len(trace[T!pid])
      BY DEF T!NextFile
<1>2. file \in Nat /\ e \in 1..Len(trace[p]) /\ Len(trace[p]) \in Nat
  <2>1. trace[p] \in Seq(T!Line)
        BY TraceOf
  <2> QED BY <2>1 DEF TraceTypes
<1>3. PICK k \in 1..Len(fileList) :
          fileList[k] = p /\ (k <= file + 1 \/ (k = file + 2 /\ e <= 0))
      BY <1>1, <1>2 DEF T!Seen
<1>4. k <= file \/ (k = file + 1 /\ p = T!pid)
      BY <1>2, <1>3 DEF T!pid
<1>5. k <= file \/ (k = file + 1 /\ e <= line)
      BY <1>1, <1>2, <1>4
<1> QED BY <1>1, <1>3, <1>5 DEF T!Seen

\* The end of a stack that shows a call is read.
LEMMA ShownRead ==
    ASSUME Stage1Assumption, TraceInv, ReadInv, T!Next, NEW p \in Pid, NEW i \in Nat,
           NEW e \in Nat, NEW fn \in Fn, T!Shown(p, i, e, fn), T!Seen(p, e)', ~T!Seen(p, e)
    PROVE  /\ T!StackEnds /\ p = T!pid /\ e = line + 1 /\ CallRead(i, fn)
           /\ callstack # <<>> /\ callstack[1] = fn /\ scn = trace[p][i].name /\ scn # None
<1>1. TraceTypes /\ trace \in Traces
      BY DEF TraceInv, TraceTypes
<1>2. /\ e - 1 \in Nat /\ e - 1 >= i + 2 /\ Pending(p, i, e - 1, fn)
      /\ e \in DOMAIN trace[p] /\ trace[p][i].name \in Syscall
      BY <1>1, ShownPending
<1>3. ~T!NextFile
      BY <1>1, <1>2, SeenFile
<1>4. PICK kind : T!Read(kind) /\ (kind = "end" => T!StackEnds)
      BY <1>3, LineOrFile
<1>5. p = T!pid /\ e = line + 1 /\ line \in Nat /\ T!Kind(T!pid, line + 1) = kind
      BY <1>1, <1>4, SeenLine, LineRead
<1>6. T!StackEnds
      BY <1>4, <1>5 DEF T!Shown
<1>7. Pending(T!pid, i, line, fn) /\ line >= i + 2 /\ file < Len(fileList)
      BY <1>1, <1>2, <1>4, <1>5, LineRead
<1>8. CallRead(i, fn)
      BY <1>7 DEF ReadInv, PendingRead
<1>9. None \notin Syscall
      BY DEF Stage1Assumption, T!TracesAssumption
<1> QED BY <1>2, <1>5, <1>6, <1>7, <1>8, <1>9 DEF CallRead

LEMMA ShownCountedStep ==
    ASSUME Stage1Assumption, TraceInv, ReadInv, T!Next
    PROVE  ShownCounted'
<1>1. trace' = trace
      BY DEF T!Next, T!StackStarts, T!StackEnds, T!StackLine, T!CallLine, T!NumberLine,
             T!NextFile, T!Read
<1> SUFFICES ASSUME NEW p \in Pid, NEW i \in Nat, NEW e \in Nat, NEW fn \in Fn,
                    T!Shown(p, i, e, fn), T!Seen(p, e)'
             PROVE  fn \in DOMAIN functions' /\ trace[p][i].name \in functions'[fn]
    BY <1>1, ShownKept DEF ShownCounted
<1>2. CASE T!Seen(p, e)
  <2>1. fn \in DOMAIN functions /\ trace[p][i].name \in functions[fn]
        BY <1>2 DEF ReadInv, ShownCounted
  <2> QED BY <2>1, FunctionsGrow
<1>3. CASE ~T!Seen(p, e)
  <2>1. /\ T!StackEnds /\ callstack # <<>> /\ callstack[1] = fn
        /\ scn = trace[p][i].name /\ scn # None
        BY <1>3, ShownRead
  <2>2. functions' = T!Attribute(fn, trace[p][i].name)
        BY <2>1 DEF T!StackEnds
  <2> QED BY <2>2 DEF T!Attribute, T!With
<1> QED BY <1>2, <1>3

LEMMA ForksNotedStep ==
    ASSUME Stage1Assumption, TraceInv, ReadInv, T!Next
    PROVE  ForksNoted'
<1>1. trace' = trace
      BY DEF T!Next, T!StackStarts, T!StackEnds, T!StackLine, T!CallLine, T!NumberLine,
             T!NextFile, T!Read
<1> SUFFICES ASSUME NEW q \in Pid, NEW p \in Pid, NEW j \in Nat, NEW e \in Nat, NEW fn \in Fn,
                    T!Forks(q, j, e, p, fn), T!Seen(q, e)'
             PROVE  p \in DOMAIN children' /\ children'[p] = fn /\ fn \in DOMAIN functions'
    BY <1>1, ShownKept DEF ForksNoted
<1>2. /\ T!Shown(q, j, e, fn)
      /\ trace[q][j].name = Clone /\ trace[q][j].result = p
      /\ \A r \in Pid : \A h \in DOMAIN trace[r] : T!Clones(r, h, p) => r = q /\ h = j
      BY DEF T!Forks, T!Clones
<1>3. CASE T!Seen(q, e)
  <2>1. p \in DOMAIN children /\ children[p] = fn /\ fn \in DOMAIN functions'
    <3>1. p \in DOMAIN children /\ children[p] = fn /\ fn \in DOMAIN functions
          BY <1>3 DEF ReadInv, ForksNoted
    <3> QED BY <3>1, FunctionsGrow
  <2>2. CASE children' = children
        BY <2>1, <2>2
  <2>3. CASE children' # children
    <3>1. T!Read("end") /\ T!StackEnds
      <4>1. ~T!NextFile
            BY <2>3 DEF T!NextFile
      <4> QED BY <2>3, <4>1, LineOrFile
    <3>2. scn # None /\ scn = Clone /\ children' = T!With(children, scc, callstack[1])
          BY <2>3, <3>1 DEF T!StackEnds
    <3>3. /\ T!pid \in Pid /\ file < Len(fileList) /\ file + 1 \in 1..Len(fileList)
          /\ fileList[file + 1] = T!pid /\ file \in Nat /\ line \in Nat
          BY <3>1, LineRead DEF TraceInv
    <3>4. PICK i \in DOMAIN trace[T!pid] :
                 /\ OpenCall(T!pid, i, line)
                 /\ trace[T!pid][i].name = scn
                 /\ scn = Clone => trace[T!pid][i].result = scc
          BY <3>2, <3>3 DEF TraceInv, ScnOpen
    <3>5. scc # p
      <4> SUFFICES ASSUME scc = p
                   PROVE  FALSE
          OBVIOUS
      <4>1. T!Clones(T!pid, i, p)
            BY <3>2, <3>4 DEF T!Clones, OpenCall
      <4>2. T!pid = q /\ i = j
            BY <1>2, <3>3, <3>4, <4>1
      <4>3. PICK k \in 1..Len(fileList) :
                   fileList[k] = q /\ (k <= file \/ (k = file + 1 /\ e <= line))
            BY <1>3 DEF T!Seen
      <4>4. k = file + 1
            BY <3>3, <4>2, <4>3 DEF ReadInv, OneFileEach
      <4>5. e <= line /\ j < e /\ T!Kind(q, e) = "end"
            BY <1>2, <3>3, <4>3, <4>4 DEF T!Shown
      <4>6. e \in j + 1..line
            BY <3>3, <4>5
      <4> QED BY <3>4, <4>2, <4>5, <4>6 DEF OpenCall
    <3> QED BY <2>1, <3>2, <3>5 DEF T!With
  <2> QED BY <2>2, <2>3
<1>4. CASE ~T!Seen(q, e)
  <2>1. /\ T!StackEnds /\ callstack # <<>> /\ callstack[1] = fn /\ q = T!pid
        /\ scn = trace[q][j].name /\ scn # None /\ CallRead(j, fn)
        BY <1>2, <1>4, ShownRead
  <2>2. scn = Clone /\ scc = p
        BY <1>2, <2>1 DEF CallRead
  <2>3. functions' = T!Attribute(fn, scn) /\ children' = T!With(children, p, fn)
        BY <2>1, <2>2 DEF T!StackEnds
  <2> QED BY <2>3 DEF T!Attribute, T!With
<1> QED BY <1>3, <1>4


\* A call of a forked process that is counted for the function that forked it.
ForkedCall(k, m, j, e, fn, i) ==
    /\ k < m /\ T!Forks(fileList[k], j, e, fileList[m], fn)
    /\ T!Kind(fileList[m], i) = "call" /\ T!Outside(fileList[m], i)
    /\ T!Kind(fileList[m], i - 1) \in {"call", "number"}
    /\ T!Seen(fileList[m], i)

\* What ForkedCallsCounted says of one call of a forked process.
ForkedCallCounted(k, m, j, e, fn, i) ==
    ForkedCall(k, m, j, e, fn, i) =>
        fn \in DOMAIN functions /\ trace[fileList[m]][i].name \in functions[fn]

LEMMA ForkedCallsCountedIs ==
    T!ForkedCallsCounted <=>
        \A k, m \in 1..Len(fileList) : \A j, e \in 1..Len(trace[fileList[k]]) :
            \A fn \in Fn : \A i \in 2..Len(trace[fileList[m]]) :
                ForkedCallCounted(k, m, j, e, fn, i)
<1>1. ASSUME T!ForkedCallsCounted,
             NEW k \in 1..Len(fileList), NEW m \in 1..Len(fileList),
             NEW j \in 1..Len(trace[fileList[k]]), NEW e \in 1..Len(trace[fileList[k]]),
             NEW fn \in Fn, NEW i \in 2..Len(trace[fileList[m]])
      PROVE  ForkedCallCounted(k, m, j, e, fn, i)
  <2>1. SUFFICES ASSUME ForkedCall(k, m, j, e, fn, i)
                 PROVE  fn \in DOMAIN functions /\ trace[fileList[m]][i].name \in functions[fn]
        BY Zenon DEF ForkedCallCounted
  <2> QED BY <1>1, <2>1, Zenon DEF T!ForkedCallsCounted, ForkedCall
<1>2. ASSUME \A k, m \in 1..Len(fileList) : \A j, e \in 1..Len(trace[fileList[k]]) :
                \A fn \in Fn : \A i \in 2..Len(trace[fileList[m]]) :
                    ForkedCallCounted(k, m, j, e, fn, i)
      PROVE  T!ForkedCallsCounted
  <2>1. SUFFICES ASSUME NEW k \in 1..Len(fileList), NEW m \in 1..Len(fileList), k < m,
                        NEW j \in 1..Len(trace[fileList[k]]),
                        NEW e \in 1..Len(trace[fileList[k]]),
                        NEW fn \in Fn, NEW i \in 2..Len(trace[fileList[m]]),
                        T!Forks(fileList[k], j, e, fileList[m], fn),
                        T!Kind(fileList[m], i) = "call", T!Outside(fileList[m], i),
                        T!Kind(fileList[m], i - 1) \in {"call", "number"},
                        T!Seen(fileList[m], i)
                 PROVE  fn \in DOMAIN functions /\ trace[fileList[m]][i].name \in functions[fn]
        BY ZenonT(90) DEF T!ForkedCallsCounted
  <2>2. ForkedCall(k, m, j, e, fn, i)
        BY <2>1, Zenon DEF ForkedCall
  <2>3. ForkedCallCounted(k, m, j, e, fn, i)
        BY <1>2, Zenon
  <2> QED BY <2>2, <2>3, Zenon DEF ForkedCallCounted
<1> QED BY <1>1, <1>2, Zenon

LEMMA ForkedCallsCountedStep ==
    ASSUME Stage1Assumption, TraceInv, ReadInv, T!Next
    PROVE  T!ForkedCallsCounted'
<1>1. trace' = trace /\ fileList' = fileList
      BY DEF T!Next, T!StackStarts, T!StackEnds, T!StackLine, T!CallLine, T!NumberLine,
             T!NextFile, T!Read
<1>0. \A k \in 1..Len(fileList) : fileList[k] \in Pid
  <2>1. Len(fileList) = Cardinality(Pid) /\ Cardinality(Pid) \in Nat
        BY TraceOf DEF TraceInv
  <2> QED BY <2>1 DEF TraceInv, TraceTypes
<1>2. ASSUME NEW k \in 1..Len(fileList), NEW m \in 1..Len(fileList), k < m,
             NEW q \in Pid, NEW p \in Pid, q = fileList[k], p = fileList[m],
             NEW j \in 1..Len(trace[q]), NEW e \in 1..Len(trace[q]),
             NEW fn \in Fn, NEW i \in 2..Len(trace[p]), T!Forks(q, j, e, p, fn),
             T!Kind(p, i) = "call", T!Outside(p, i), T!Kind(p, i - 1) \in {"call", "number"},
             T!Seen(p, i)'
      PROVE  fn \in DOMAIN functions' /\ trace[p][i].name \in functions'[fn]
  <2>1. /\ TraceTypes /\ trace[q] \in Seq(T!Line) /\ trace[p] \in Seq(T!Line)
        /\ Len(fileList) \in Nat /\ file \in Nat
        BY TraceOf DEF TraceInv, TraceTypes
  <2>2. i \in Nat /\ j \in Nat /\ e \in Nat /\ i \in DOMAIN trace[p] /\ i > 1
        BY <2>1
  <2>3. CASE T!Seen(p, i)
    <3>1. ForkedCall(k, m, j, e, fn, i)
          BY <1>2, <2>3 DEF ForkedCall
    <3>2. ForkedCallCounted(k, m, j, e, fn, i)
      <4>1. T!ForkedCallsCounted
            BY DEF ReadInv
      <4>2. j \in 1..Len(trace[fileList[k]]) /\ e \in 1..Len(trace[fileList[k]])
            /\ i \in 2..Len(trace[fileList[m]])
            BY <1>2
      <4> QED BY <1>2, <4>1, <4>2, ForkedCallsCountedIs, Zenon
    <3>3. fn \in DOMAIN functions /\ trace[p][i].name \in functions[fn]
          BY <1>2, <3>1, <3>2 DEF ForkedCallCounted
    <3> QED BY <3>3, FunctionsGrow
  <2>4. CASE ~T!Seen(p, i)
    <3>1. ~T!NextFile
          BY <1>2, <2>1, <2>2, <2>4, SeenFile
    <3>2. PICK kind : T!Read(kind) /\ ((kind = "call" /\ ~inCallstack) => T!CallLine)
      <4>1. T!Read("end") \/ \E kind : T!Read(kind) /\ ((kind = "call" /\ ~inCallstack) => T!CallLine)
            BY <3>1, LineOrFile
      <4>2. "end" # "call"
            OBVIOUS
      <4> QED BY <4>1, <4>2
    <3>3. /\ p = T!pid /\ i = line + 1 /\ line \in Nat /\ T!Kind(T!pid, line + 1) = kind
          /\ T!nextLine = trace[T!pid][line + 1] /\ file < Len(fileList)
          /\ file + 1 \in 1..Len(fileList) /\ fileList[file + 1] = T!pid
      <4>1. p = T!pid /\ i = line + 1
            BY <1>2, <2>1, <2>2, <2>4, <3>2, SeenLine
      <4> QED BY <2>1, <3>2, <4>1, LineRead
    <3>4. ~inCallstack
      <4> SUFFICES ASSUME inCallstack
                   PROVE  FALSE
          OBVIOUS
      <4>1. PICK s \in 1..line : /\ T!Kind(T!pid, s) = "start"
                                 /\ \A n \in s + 1..line : T!Kind(T!pid, n) # "end"
            BY <3>3 DEF ReadInv, StackBegun
      <4>2. (line + 1) - 1 = line
            BY <3>3
      <4> QED BY <1>2, <3>3, <4>1, <4>2 DEF T!Outside
    <3>5. T!CallLine
          BY <1>2, <3>2, <3>3, <3>4
    <3>6. ~scp
      <4>1. i - 1 = line
            BY <3>3
      <4> QED BY <1>2, <3>3, <3>4, <4>1 DEF ReadInv, ScpRead
    <3>7. m = file + 1 /\ k <= file
      <4>1. m = file + 1
            BY <1>2, <3>3 DEF ReadInv, OneFileEach
      <4> QED BY <1>2, <2>1, <4>1
    <3>8. T!Seen(q, e)
          BY <1>2, <3>7 DEF T!Seen
    <3>9. p \in DOMAIN children /\ children[p] = fn
          BY <1>2, <2>1, <2>2, <3>8 DEF ReadInv, ForksNoted
    <3>10. functions' = T!Attribute(fn, trace[p][i].name)
          BY <3>3, <3>5, <3>6, <3>9 DEF T!CallLine
    <3> QED BY <3>10 DEF T!Attribute, T!With
  <2> QED BY <2>3, <2>4
<1> SUFFICES ASSUME NEW k \in 1..Len(fileList'), NEW m \in 1..Len(fileList'), k < m,
                    NEW j \in 1..Len(trace'[fileList'[k]]),
                    NEW e \in 1..Len(trace'[fileList'[k]]),
                    NEW fn \in Fn, NEW i \in 2..Len(trace'[fileList'[m]]),
                    T!Forks(fileList[k], j, e, fileList[m], fn)',
                    T!Kind(fileList[m], i)' = "call", T!Outside(fileList[m], i)',
                    T!Kind(fileList[m], i - 1)' \in {"call", "number"},
                    T!Seen(fileList[m], i)'
             PROVE  fn \in DOMAIN functions' /\ trace'[fileList'[m]][i].name \in functions'[fn]
    BY ZenonT(60) DEF T!ForkedCallsCounted
<1>3. /\ k \in 1..Len(fileList) /\ m \in 1..Len(fileList)
      /\ j \in 1..Len(trace[fileList[k]]) /\ e \in 1..Len(trace[fileList[k]])
      /\ i \in 2..Len(trace[fileList[m]])
      BY <1>1
<1>4. /\ T!Forks(fileList[k], j, e, fileList[m], fn)
      /\ T!Kind(fileList[m], i) = "call" /\ T!Outside(fileList[m], i)
      /\ T!Kind(fileList[m], i - 1) \in {"call", "number"}
      BY <1>1, ShownKept, TraceKept
<1>5. \A p \in Pid : p = fileList[m] => T!Seen(p, i)'
      BY <1>1
<1>6. fn \in DOMAIN functions' /\ trace[fileList[m]][i].name \in functions'[fn]
      BY <1>0, <1>2, <1>3, <1>4, <1>5
<1> QED BY <1>1, <1>6

LEMMA ReadStep ==
    ASSUME Stage1Assumption, TraceInv, ReadInv, T!Next
    PROVE  ReadInv'
<1>1. PendingRead' /\ StackBegun' /\ ScpRead'
      BY StackStartsRead, StackEndsRead, StackLineRead, CallLineRead, NumberLineRead,
         NextFileRead DEF T!Next
<1>2. ShownCounted' /\ ForksNoted' /\ T!ForkedCallsCounted'
      BY ShownCountedStep, ForksNotedStep, ForkedCallsCountedStep
<1>3. OneFileEach'
  <2>1. fileList' = fileList
        BY DEF T!Next, T!StackStarts, T!StackEnds, T!StackLine, T!CallLine, T!NumberLine,
               T!NextFile, T!Read
  <2> QED BY <2>1 DEF ReadInv, OneFileEach
<1> QED BY <1>1, <1>2, <1>3 DEF ReadInv

\* Nothing has been read.
LEMMA NothingRead ==
    TraceTypes /\ OneFileEach /\ file = 0 /\ line = 0 /\ inCallstack = FALSE => ReadInv
<1> SUFFICES ASSUME TraceTypes, OneFileEach, file = 0, line = 0, inCallstack = FALSE
             PROVE  ReadInv
    OBVIOUS
<1>1. \A p : \A e \in Nat \ {0} : ~T!Seen(p, e)
      BY DEF T!Seen
<1>2. \A p, i, e, fn : T!Shown(p, i, e, fn) => T!Kind(p, e) = "end"
      BY DEF T!Shown
<1>3. \A p : T!Kind(p, 0) = "none"
      BY DEF T!Kind
<1>4. ShownCounted
      BY <1>1, <1>2, <1>3 DEF ShownCounted
<1>5. ForksNoted
      BY <1>1, <1>2, <1>3 DEF ForksNoted, T!Forks
<1>6. T!ForkedCallsCounted
      BY <1>1 DEF T!ForkedCallsCounted
<1>7. PendingRead
  <2>1. \A i : i \notin 1..0
        OBVIOUS
  <2> QED BY <2>1 DEF PendingRead, Pending
<1>8. StackBegun /\ ScpRead
      BY <1>3 DEF StackBegun, ScpRead
<1> QED BY <1>4, <1>5, <1>6, <1>7, <1>8 DEF ReadInv

LEMMA NothingReadNext ==
    (TraceTypes /\ OneFileEach /\ file = 0 /\ line = 0 /\ inCallstack = FALSE => ReadInv)'
BY NothingRead, PTL

LEMMA ReadUnchanged ==
    ASSUME ReadInv, UNCHANGED traceVars
    PROVE  ReadInv'
<1>1. /\ trace' = trace /\ fileList' = fileList /\ file' = file /\ line' = line
      /\ inCallstack' = inCallstack /\ callstack' = callstack
      /\ scn' = scn /\ scc' = scc /\ scp' = scp
      /\ functions' = functions /\ children' = children /\ T!pid' = T!pid
      BY DEF traceVars, T!pid
<1>2. \A p, e : T!Seen(p, e)' <=> T!Seen(p, e)
      BY <1>1 DEF T!Seen
<1>3. PendingRead'
      BY <1>1, ShownKept DEF ReadInv, PendingRead, CallRead
<1>4. StackBegun' /\ ScpRead' /\ OneFileEach'
      BY <1>1, TraceKept DEF ReadInv, StackBegun, ScpRead, OneFileEach
<1>5. ShownCounted' /\ ForksNoted'
      BY <1>1, <1>2, ShownKept DEF ReadInv, ShownCounted, ForksNoted
<1>6. T!ForkedCallsCounted'
      BY <1>1, <1>2, ShownKept, TraceKept, SMTT(60) DEF ReadInv, T!ForkedCallsCounted
<1> QED BY <1>3, <1>4, <1>5, <1>6 DEF ReadInv


-----------------------------------------------------------------------------
(* The interpreter *)

BelowNode(n) == A!Direct(A!Reached(A!AllEdges, n))

Frames == [node : Node, todo : SUBSET Node, syscalls : SUBSET Number]

\* What an active call of dfs has found is below its node, and what it has to do
\* are edges of the call graphs.
FrameSound(frame) ==
    /\ frame.syscalls \subseteq BelowNode(frame.node)
    /\ \A m \in frame.todo : <<frame.node, m>> \in A!AllEdges

\* s can be the stack: each frame is for a successor of the one before.
PathSound(s) ==
    /\ s \in Seq(Frames)
    /\ \A i \in DOMAIN s : FrameSound(s[i])
    /\ \A i \in DOMAIN s : i > 1 => <<s[i - 1].node, s[i].node>> \in A!AllEdges
    /\ s # <<>> => function \in graph.sources /\ s[1].node \in function

StackSound == PathSound(stack)

CacheSound == \A n \in DOMAIN cached : cached[n] \subseteq BelowNode(n)

ResultsSound ==
    \A fn \in DOMAIN results :
        fn \in graph.sources /\ \E n \in fn : results[fn] \subseteq BelowNode(n)

AnalysisInv == graph \in A!CallGraph /\ StackSound /\ CacheSound /\ ResultsSound

LEMMA BelowClosed ==
    ASSUME graph \in A!CallGraph
    PROVE  /\ \A n \in Node : graph.direct[n] \ {Exec} \subseteq BelowNode(n)
           /\ \A n, m \in Node : <<n, m>> \in A!AllEdges => BelowNode(m) \subseteq BelowNode(n)
           /\ \A n \in Node : BelowNode(n) \subseteq Number
<1>1. \A n \in Node : n \in A!Reached(A!AllEdges, n)
      BY DEF A!Reached
<1>2. ASSUME NEW n \in Node, NEW m \in Node, <<n, m>> \in A!AllEdges
      PROVE  A!Reached(A!AllEdges, m) \subseteq A!Reached(A!AllEdges, n)
      BY <1>2 DEF A!Reached
<1>3. \A n : A!Reached(A!AllEdges, n) \subseteq Node
      BY DEF A!Reached
<1>4. graph.direct \in [Node -> SUBSET Number]
      BY DEF A!CallGraph
<1>5. \A n \in Node : graph.direct[n] \ {Exec} \subseteq BelowNode(n)
      BY <1>1 DEF BelowNode, A!Direct
<1>6. \A n, m \in Node : <<n, m>> \in A!AllEdges => BelowNode(m) \subseteq BelowNode(n)
      BY <1>2 DEF BelowNode, A!Direct
<1>7. \A n \in Node : BelowNode(n) \subseteq Number
      BY <1>3, <1>4 DEF BelowNode, A!Direct
<1> QED BY <1>5, <1>6, <1>7

LEMMA GraphKept ==
    ASSUME graph' = graph
    PROVE  /\ \A n : BelowNode(n)' = BelowNode(n)
           /\ function' = function => \A s : PathSound(s)' <=> PathSound(s)
           /\ \A frame : FrameSound(frame)' <=> FrameSound(frame)
           /\ A!AllEdges' = A!AllEdges
BY DEF BelowNode, FrameSound, PathSound, A!AllEdges, A!Direct, A!Reached

LEMMA NewFrameSound ==
    ASSUME AnalysisInv, NEW n \in Node, NEW path
    PROVE  A!Frame(n, path) \in Frames /\ FrameSound(A!Frame(n, path))
<1>1. A!Targets(n, path) \subseteq Node /\ \A m \in A!Targets(n, path) : <<n, m>> \in A!AllEdges
      BY DEF A!Targets, A!Succ, A!AllEdges
<1> QED BY <1>1 DEF A!Frame, Frames, FrameSound

\* The last frame is replaced by one for the same node.
LEMMA ReplaceTop ==
    ASSUME NEW s, PathSound(s), s # <<>>, NEW t \in Seq(Frames), DOMAIN t = DOMAIN s,
           \A i \in DOMAIN s : i # Len(s) => t[i] = s[i],
           t[Len(s)].node = s[Len(s)].node, FrameSound(t[Len(s)])
    PROVE  PathSound(t) /\ Len(t) = Len(s)
<1>1. s \in Seq(Frames) /\ Len(s) \in Nat \ {0} /\ DOMAIN s = 1..Len(s) /\ Len(t) = Len(s)
      BY DEF PathSound
<1>2. \A i \in DOMAIN s : t[i].node = s[i].node
      OBVIOUS
<1>3. \A i \in DOMAIN t : FrameSound(t[i])
      BY DEF PathSound
<1>4. \A i \in DOMAIN s : i > 1 => i - 1 \in DOMAIN s
      BY <1>1
<1>5. \A i \in DOMAIN t : i > 1 => <<t[i - 1].node, t[i].node>> \in A!AllEdges
      BY <1>2, <1>4 DEF PathSound
<1>6. function \in graph.sources /\ t[1].node \in function
      BY <1>1, <1>2 DEF PathSound
<1> QED BY <1>1, <1>3, <1>5, <1>6 DEF PathSound

LEMMA PushSound ==
    ASSUME NEW s, PathSound(s), s # <<>>, NEW frame \in Frames, FrameSound(frame),
           <<s[Len(s)].node, frame.node>> \in A!AllEdges
    PROVE  PathSound(Append(s, frame))
<1> DEFINE t   == Append(s, frame)
           len == Len(s)
<1>1. s \in Seq(Frames) /\ len \in Nat \ {0} /\ DOMAIN s = 1..len
      BY DEF PathSound
<1>2. /\ t \in Seq(Frames) /\ Len(t) = len + 1 /\ t[len + 1] = frame
      /\ \A i \in 1..len : t[i] = s[i]
      BY <1>1, AppendProperties
<1>3. DOMAIN t = 1..len + 1 /\ \A i \in 1..len + 1 : i \in 1..len \/ i = len + 1
      BY <1>1, <1>2
<1> HIDE DEF t
<1>4. \A i \in DOMAIN t : FrameSound(t[i])
      BY <1>1, <1>2, <1>3 DEF PathSound
<1>5. ASSUME NEW i \in DOMAIN t, i > 1
      PROVE  <<t[i - 1].node, t[i].node>> \in A!AllEdges
  <2>1. i - 1 \in 1..len
        BY <1>1, <1>3, <1>5
  <2>2. CASE i \in 1..len
        BY <1>1, <1>2, <1>5, <2>1, <2>2 DEF PathSound
  <2>3. CASE i = len + 1
        BY <1>1, <1>2, <2>1, <2>3
  <2> QED BY <1>3, <2>2, <2>3
<1>6. function \in graph.sources /\ t[1].node \in function
      BY <1>1, <1>2 DEF PathSound
<1>7. PathSound(t)
      BY <1>2, <1>4, <1>5, <1>6 DEF PathSound
<1> QED BY <1>7 DEF t

LEMMA PopSound ==
    ASSUME NEW s, PathSound(s), Len(s) > 1
    PROVE  /\ PathSound(SubSeq(s, 1, Len(s) - 1))
           /\ Len(SubSeq(s, 1, Len(s) - 1)) = Len(s) - 1
           /\ SubSeq(s, 1, Len(s) - 1)[Len(s) - 1] = s[Len(s) - 1]
<1> DEFINE t   == SubSeq(s, 1, Len(s) - 1)
           len == Len(s)
<1>1. s \in Seq(Frames) /\ len \in Nat /\ len - 1 \in Nat \ {0} /\ DOMAIN s = 1..len
      BY DEF PathSound
<1>2. /\ t \in Seq(Frames) /\ Len(t) = len - 1 /\ DOMAIN t = 1..len - 1
      /\ \A i \in 1..len - 1 : t[i] = s[i]
      BY <1>1
<1>3. \A i \in 1..len - 1 : i \in DOMAIN s /\ (i > 1 => i - 1 \in 1..len - 1)
      BY <1>1
<1> HIDE DEF t
<1>4. \A i \in DOMAIN t : FrameSound(t[i])
      BY <1>2, <1>3 DEF PathSound
<1>5. \A i \in DOMAIN t : i > 1 => <<t[i - 1].node, t[i].node>> \in A!AllEdges
      BY <1>2, <1>3, SMTT(40) DEF PathSound
<1>6. function \in graph.sources /\ t[1].node \in function
      BY <1>1, <1>2 DEF PathSound
<1>7. PathSound(t) /\ Len(t) = len - 1 /\ t[len - 1] = s[len - 1]
      BY <1>1, <1>2, <1>4, <1>5, <1>6 DEF PathSound
<1> QED BY <1>7 DEF t

LEMMA AnalyseSound ==
    ASSUME AnalysisInv, A!Analyse
    PROVE  AnalysisInv'
<1>1. graph' = graph /\ cached' = cached
      BY DEF A!Analyse
<1>2. PICK fn \in graph.sources : \E n \in fn :
          IF n \in DOMAIN cached
          THEN /\ results' = A!With(results, fn, cached[n])
               /\ UNCHANGED <<done, others, stack, function>>
          ELSE /\ function' = fn
               /\ others' = fn \ {n}
               /\ stack' = <<A!Frame(n, fn)>>
               /\ UNCHANGED <<done, results>>
      BY DEF A!Analyse
<1>3. PICK n \in fn :
          IF n \in DOMAIN cached
          THEN /\ results' = A!With(results, fn, cached[n])
               /\ UNCHANGED <<done, others, stack, function>>
          ELSE /\ function' = fn
               /\ others' = fn \ {n}
               /\ stack' = <<A!Frame(n, fn)>>
               /\ UNCHANGED <<done, results>>
      BY <1>2
<1>5. n \in Node
      BY <1>2, <1>3 DEF AnalysisInv, A!CallGraph
<1>6. graph' \in A!CallGraph /\ CacheSound'
      BY <1>1, GraphKept DEF AnalysisInv, CacheSound
<1>7. CASE n \in DOMAIN cached
  <2>1. results' = A!With(results, fn, cached[n]) /\ stack' = stack /\ function' = function
        BY <1>3, <1>7
  <2>2. StackSound'
        BY <1>1, <2>1, GraphKept DEF AnalysisInv, StackSound, PathSound
  <2>3. cached[n] \subseteq BelowNode(n)
        BY <1>7 DEF AnalysisInv, CacheSound
  <2>4. ResultsSound'
        BY <1>2, <1>3, <1>1, <2>1, <2>3, GraphKept DEF AnalysisInv, ResultsSound, A!With
  <2> QED BY <1>6, <2>2, <2>4 DEF AnalysisInv
<1>8. CASE n \notin DOMAIN cached
  <2>1. function' = fn /\ stack' = <<A!Frame(n, fn)>> /\ results' = results
        BY <1>3, <1>8
  <2>2. A!Frame(n, fn) \in Frames /\ FrameSound(A!Frame(n, fn)) /\ A!Frame(n, fn).node = n
        BY <1>5, NewFrameSound DEF A!Frame
  <2>3. /\ stack' \in Seq(Frames) /\ DOMAIN stack' = {1} /\ stack'[1] = A!Frame(n, fn)
        BY <2>1, <2>2
  <2>4. StackSound'
        BY <1>2, <1>3, <1>1, <2>1, <2>2, <2>3, GraphKept DEF StackSound, PathSound
  <2>5. ResultsSound'
        BY <1>1, <2>1, GraphKept DEF AnalysisInv, ResultsSound
  <2> QED BY <1>6, <2>4, <2>5 DEF AnalysisInv
<1> QED BY <1>7, <1>8

LEMMA OthersKept ==
    ASSUME AnalysisInv, graph' = graph, results' = results, cached' = cached, StackSound'
    PROVE  AnalysisInv'
BY GraphKept DEF AnalysisInv, CacheSound, ResultsSound

\* The frame on top, and what it knows.
LEMMA TopFrame ==
    ASSUME AnalysisInv, stack # <<>>
    PROVE  /\ stack \in Seq(Frames) /\ Len(stack) \in Nat \ {0}
           /\ Len(stack) \in DOMAIN stack /\ DOMAIN stack = 1..Len(stack)
           /\ A!Top \in Frames /\ FrameSound(A!Top) /\ A!Top = stack[Len(stack)]
<1>1. stack \in Seq(Frames) /\ Len(stack) \in Nat \ {0} /\ DOMAIN stack = 1..Len(stack)
      BY DEF AnalysisInv, StackSound, PathSound
<1>2. Len(stack) \in DOMAIN stack
      BY <1>1
<1> QED BY <1>1, <1>2 DEF AnalysisInv, StackSound, PathSound, A!Top

LEMMA SeqOfSame ==
    ASSUME NEW s \in Seq(Frames), NEW t, t = [i \in DOMAIN s |-> t[i]],
           \A i \in DOMAIN s : t[i] \in Frames
    PROVE  t \in Seq(Frames)
<1>1. PICK n \in Nat : s \in [1..n -> Frames]
      BY SeqDef
<1>2. t \in [1..n -> Frames]
      BY <1>1
<1>3. [1..n -> Frames] \in {[1..k -> Frames] : k \in Nat}
      OBVIOUS
<1>4. t \in UNION {[1..k -> Frames] : k \in Nat}
      BY <1>2, <1>3, Zenon
<1> QED BY <1>4, SeqDef, Zenon

\* The stack after an edge to a node whose result is known.
LEMMA UsedStack ==
    ASSUME AnalysisInv, stack # <<>>, NEW m, NEW found \in SUBSET Number,
           stack' = [stack EXCEPT ![Len(stack)].syscalls = @ \cup found,
                                  ![Len(stack)].todo = @ \ {m}]
    PROVE  /\ stack' \in Seq(Frames) /\ DOMAIN stack' = DOMAIN stack
           /\ \A j \in DOMAIN stack : j # Len(stack) => stack'[j] = stack[j]
           /\ stack'[Len(stack)].node = A!Top.node
           /\ stack'[Len(stack)].todo = A!Top.todo \ {m}
           /\ stack'[Len(stack)].syscalls = A!Top.syscalls \cup found
<1> DEFINE i == Len(stack)
           t == stack'
<1>1. stack \in Seq(Frames) /\ i \in DOMAIN stack /\ A!Top = stack[i] /\ stack[i] \in Frames
      BY TopFrame
<1>2. /\ DOMAIN t = DOMAIN stack /\ t = [j \in DOMAIN stack |-> t[j]]
      /\ \A j \in DOMAIN stack : j # i => t[j] = stack[j]
      OBVIOUS
<1>3. t[i] = [[stack[i] EXCEPT !.syscalls = @ \cup found] EXCEPT !.todo = @ \ {m}]
      BY <1>1
<1>4. /\ t[i].node = stack[i].node /\ t[i].todo = stack[i].todo \ {m}
      /\ t[i].syscalls = stack[i].syscalls \cup found /\ t[i] \in Frames
      BY <1>1, <1>3 DEF Frames
<1>5. \A j \in DOMAIN stack : t[j] \in Frames
      BY <1>1, <1>2, <1>4
<1> HIDE DEF t
<1>6. t \in Seq(Frames)
      BY <1>1, <1>2, <1>5, SeqOfSame
<1> QED BY <1>1, <1>2, <1>4, <1>6 DEF t

LEMMA UseCachedSound ==
    ASSUME AnalysisInv, A!UseCached
    PROVE  AnalysisInv'
<1>1. PICK m \in A!Top.todo \cap DOMAIN cached :
          /\ stack' = [stack EXCEPT ![Len(stack)].syscalls = @ \cup cached[m],
                                    ![Len(stack)].todo = @ \ {m}]
          /\ A!Follow(m)
      BY DEF A!UseCached
<1>2. /\ stack # <<>> /\ graph' = graph /\ cached' = cached
      /\ function' = function /\ results' = results
      BY <1>1 DEF A!UseCached, A!Follow
<1> DEFINE top == A!Top
<1>3. /\ stack \in Seq(Frames) /\ Len(stack) \in DOMAIN stack
      /\ top \in Frames /\ FrameSound(top) /\ top = stack[Len(stack)]
      BY <1>2, TopFrame
<1>4. m \in Node /\ top.node \in Node /\ <<top.node, m>> \in A!AllEdges
      BY <1>1, <1>3 DEF Frames, FrameSound
<1>5. cached[m] \subseteq BelowNode(top.node) /\ cached[m] \subseteq Number
      BY <1>1, <1>4, BelowClosed DEF AnalysisInv, CacheSound
<1>6. /\ stack' \in Seq(Frames) /\ DOMAIN stack' = DOMAIN stack
      /\ \A j \in DOMAIN stack : j # Len(stack) => stack'[j] = stack[j]
      /\ stack'[Len(stack)].node = top.node
      /\ stack'[Len(stack)].todo = top.todo \ {m}
      /\ stack'[Len(stack)].syscalls = top.syscalls \cup cached[m]
      BY <1>1, <1>2, <1>5, UsedStack
<1>7. FrameSound(stack'[Len(stack)])
      BY <1>3, <1>5, <1>6 DEF FrameSound
<1>8. PathSound(stack')
      BY <1>2, <1>3, <1>6, <1>7, ReplaceTop DEF AnalysisInv, StackSound
<1>9. StackSound'
      BY <1>2, <1>8, GraphKept DEF StackSound
<1> QED BY <1>2, <1>9, OthersKept

\* The stack after an edge to a node that is not cached: what is below the new frame,
\* and the frame.
LEMMA CalledStack ==
    ASSUME AnalysisInv, stack # <<>>, NEW m, NEW new \in Frames,
           stack' = Append([stack EXCEPT ![Len(stack)].todo = @ \ {m}], new)
    PROVE  \E low \in Seq(Frames) :
              /\ DOMAIN low = DOMAIN stack /\ Len(low) = Len(stack)
              /\ \A j \in DOMAIN stack : j # Len(stack) => low[j] = stack[j]
              /\ low[Len(stack)].node = A!Top.node
              /\ low[Len(stack)].todo = A!Top.todo \ {m}
              /\ low[Len(stack)].syscalls = A!Top.syscalls
              /\ stack' = Append(low, new)
<1> DEFINE i   == Len(stack)
           low == [stack EXCEPT ![i].todo = @ \ {m}]
<1>1. /\ stack \in Seq(Frames) /\ i \in DOMAIN stack /\ A!Top = stack[i] /\ stack[i] \in Frames
      /\ DOMAIN stack = 1..i /\ i \in Nat
      BY TopFrame
<1>2. /\ DOMAIN low = DOMAIN stack /\ low = [j \in DOMAIN stack |-> low[j]]
      /\ \A j \in DOMAIN stack : j # i => low[j] = stack[j]
      OBVIOUS
<1>3. low[i] = [stack[i] EXCEPT !.todo = @ \ {m}]
      BY <1>1
<1>4. /\ low[i].node = stack[i].node /\ low[i].todo = stack[i].todo \ {m}
      /\ low[i].syscalls = stack[i].syscalls /\ low[i] \in Frames
      BY <1>1, <1>3 DEF Frames
<1>5. stack' = Append(low, new)
      OBVIOUS
<1> HIDE DEF low
<1>6. \A j \in DOMAIN stack : low[j] \in Frames
      BY <1>1, <1>2, <1>4
<1>7. low \in Seq(Frames)
      BY <1>1, <1>2, <1>6, SeqOfSame
<1>8. Len(low) = i
      BY <1>1, <1>2, <1>7
<1> QED BY <1>1, <1>2, <1>4, <1>5, <1>7, <1>8

LEMMA CallSound ==
    ASSUME AnalysisInv, A!Call
    PROVE  AnalysisInv'
<1>1. PICK m \in A!Top.todo \ DOMAIN cached :
          /\ stack' = Append([stack EXCEPT ![Len(stack)].todo = @ \ {m}],
                             A!Frame(m, A!Path \cup {m}))
          /\ A!Follow(m)
      BY DEF A!Call
<1>2. /\ stack # <<>> /\ graph' = graph /\ cached' = cached
      /\ function' = function /\ results' = results
      BY <1>1 DEF A!Call, A!Follow
<1> DEFINE top == A!Top
           new == A!Frame(m, A!Path \cup {m})
<1>3. /\ stack \in Seq(Frames) /\ Len(stack) \in DOMAIN stack /\ Len(stack) \in Nat \ {0}
      /\ top \in Frames /\ FrameSound(top) /\ top = stack[Len(stack)]
      BY <1>2, TopFrame
<1>4. m \in Node /\ <<top.node, m>> \in A!AllEdges
      BY <1>1, <1>3 DEF Frames, FrameSound
<1>5. new \in Frames /\ FrameSound(new) /\ new.node = m
      BY <1>4, NewFrameSound DEF A!Frame
<1>6. PICK low \in Seq(Frames) :
          /\ DOMAIN low = DOMAIN stack /\ Len(low) = Len(stack)
          /\ \A j \in DOMAIN stack : j # Len(stack) => low[j] = stack[j]
          /\ low[Len(stack)].node = top.node
          /\ low[Len(stack)].todo = top.todo \ {m}
          /\ low[Len(stack)].syscalls = top.syscalls
          /\ stack' = Append(low, new)
      BY <1>1, <1>2, <1>5, CalledStack
<1> HIDE DEF new
<1>7. FrameSound(low[Len(stack)])
      BY <1>3, <1>6 DEF FrameSound
<1>8. PathSound(low) /\ Len(low) = Len(stack)
      BY <1>2, <1>3, <1>6, <1>7, ReplaceTop DEF AnalysisInv, StackSound
<1>9. low # <<>>
      BY <1>3, <1>8
<1>10. PathSound(Append(low, new))
      BY <1>4, <1>5, <1>6, <1>8, <1>9, PushSound
<1>11. StackSound'
      BY <1>2, <1>6, <1>10, GraphKept DEF StackSound
<1> QED BY <1>2, <1>11, OthersKept

\* The stack after the return of a call that another has made.
LEMMA ReturnedStack ==
    ASSUME AnalysisInv, Len(stack) > 1, NEW found \in SUBSET Number,
           stack' = [SubSeq(stack, 1, Len(stack) - 1)
                        EXCEPT ![Len(stack) - 1].syscalls = @ \cup found]
    PROVE  LET low == SubSeq(stack, 1, Len(stack) - 1)
               i   == Len(stack) - 1
           IN  /\ i \in Nat \ {0} /\ PathSound(low) /\ low \in Seq(Frames) /\ low # <<>>
               /\ Len(low) = i /\ DOMAIN low = 1..i /\ low[i] = stack[i]
               /\ low[i].node \in Node /\ FrameSound(low[i])
               /\ \A j \in 1..i : low[j] = stack[j]
               /\ stack' \in Seq(Frames) /\ DOMAIN stack' = 1..i
               /\ \A j \in 1..i : j # i => stack'[j] = low[j]
               /\ stack'[i].node = low[i].node /\ stack'[i].todo = low[i].todo
               /\ stack'[i].syscalls = low[i].syscalls \cup found
<1> DEFINE low == SubSeq(stack, 1, Len(stack) - 1)
           i   == Len(stack) - 1
           t   == [low EXCEPT ![i].syscalls = @ \cup found]
<1>0. stack' = t
      OBVIOUS
<1>1. /\ stack \in Seq(Frames) /\ Len(stack) \in Nat \ {0} /\ i \in Nat \ {0}
      BY TopFrame DEF AnalysisInv, StackSound, PathSound
<1>2. PathSound(low) /\ Len(low) = i /\ low[i] = stack[i]
      BY <1>1, PopSound DEF AnalysisInv, StackSound
<1>3. \A j \in 1..i : low[j] = stack[j]
      BY <1>1
<1> HIDE DEF low
<1>4. low \in Seq(Frames) /\ DOMAIN low = 1..i /\ i \in DOMAIN low /\ low # <<>>
      BY <1>1, <1>2 DEF PathSound
<1>5. low[i] \in Frames
      BY <1>4
<1>6. FrameSound(low[i]) /\ low[i].node \in Node
      BY <1>2, <1>4, <1>5 DEF PathSound, Frames
<1>7. /\ DOMAIN t = DOMAIN low /\ t = [j \in DOMAIN low |-> t[j]]
      /\ \A j \in DOMAIN low : j # i => t[j] = low[j]
      OBVIOUS
<1>8. t[i] = [low[i] EXCEPT !.syscalls = @ \cup found]
      BY <1>4
<1>9. /\ t[i].node = low[i].node /\ t[i].todo = low[i].todo
      /\ t[i].syscalls = low[i].syscalls \cup found /\ t[i] \in Frames
      BY <1>5, <1>8 DEF Frames
<1> HIDE DEF t
<1>10. \A j \in DOMAIN low : t[j] \in Frames
      BY <1>4, <1>7, <1>9
<1>11. t \in Seq(Frames)
      BY <1>4, <1>7, <1>10, SeqOfSame
<1>12. /\ i \in Nat \ {0} /\ PathSound(low) /\ low \in Seq(Frames) /\ low # <<>>
       /\ Len(low) = i /\ DOMAIN low = 1..i /\ low[i] = stack[i]
       /\ low[i].node \in Node /\ FrameSound(low[i])
       /\ \A j \in 1..i : low[j] = stack[j]
       /\ t \in Seq(Frames) /\ DOMAIN t = 1..i
       /\ \A j \in 1..i : j # i => t[j] = low[j]
       /\ t[i].node = low[i].node /\ t[i].todo = low[i].todo
       /\ t[i].syscalls = low[i].syscalls \cup found
      BY <1>1, <1>2, <1>3, <1>4, <1>6, <1>7, <1>9, <1>11, Zenon
<1> QED BY <1>0, <1>12 DEF low

LEMMA ReturnSound ==
    ASSUME AnalysisInv, A!Return
    PROVE  AnalysisInv'
<1> DEFINE top   == A!Top
           found == A!Found(top)
           len   == Len(stack)
<1>1. /\ stack # <<>> /\ graph' = graph /\ cached' = A!With(cached, top.node, found)
      /\ \/ /\ len = 1
            /\ results' = A!With(results, function, found)
            /\ stack' = <<>>
         \/ /\ len # 1
            /\ stack' = [SubSeq(stack, 1, len - 1) EXCEPT ![len - 1].syscalls = @ \cup found]
            /\ function' = function /\ results' = results
      BY DEF A!Return
<1>2. /\ stack \in Seq(Frames) /\ len \in Nat \ {0} /\ len \in DOMAIN stack
      /\ DOMAIN stack = 1..len
      /\ top \in Frames /\ FrameSound(top) /\ top = stack[len] /\ top.node \in Node
      BY <1>1, TopFrame DEF Frames
<1>3. found \subseteq BelowNode(top.node) /\ found \in SUBSET Number
  <2>1. found \subseteq BelowNode(top.node)
        BY <1>2, BelowClosed DEF AnalysisInv, FrameSound, A!Found
  <2> QED BY <1>2, <2>1, BelowClosed DEF AnalysisInv
<1> HIDE DEF found
<1>4. CacheSound'
      BY <1>1, <1>3, GraphKept DEF AnalysisInv, CacheSound, A!With
<1>5. CASE len = 1
  <2>1. top.node \in function /\ function \in graph.sources
        BY <1>1, <1>2, <1>5 DEF AnalysisInv, StackSound, PathSound
  <2>2. ResultsSound'
        BY <1>1, <1>3, <1>5, <2>1, GraphKept DEF AnalysisInv, ResultsSound, A!With
  <2>3. StackSound'
        BY <1>1, <1>5 DEF StackSound, PathSound
  <2> QED BY <1>1, <1>4, <2>2, <2>3 DEF AnalysisInv
<1>6. CASE len # 1
  <2> DEFINE low == SubSeq(stack, 1, len - 1)
             i   == len - 1
             t   == stack'
  <2>0. /\ stack' = [SubSeq(stack, 1, len - 1) EXCEPT ![len - 1].syscalls = @ \cup found]
        /\ function' = function /\ results' = results /\ len > 1
    <3>1. len > 1
          BY <1>2, <1>6
    <3> QED BY <1>1, <1>6, <3>1, Zenon
  <2>1. /\ i \in Nat \ {0} /\ PathSound(low) /\ low \in Seq(Frames) /\ low # <<>>
        /\ Len(low) = i /\ DOMAIN low = 1..i /\ low[i] = stack[i]
        /\ low[i].node \in Node /\ FrameSound(low[i])
        /\ t \in Seq(Frames) /\ DOMAIN t = 1..i
        /\ \A j \in 1..i : j # i => t[j] = low[j]
        /\ t[i].node = low[i].node /\ t[i].todo = low[i].todo
        /\ t[i].syscalls = low[i].syscalls \cup found
        BY <1>3, <2>0, ReturnedStack
  <2> HIDE DEF low, t
  <2>2. found \subseteq BelowNode(low[i].node)
    <3>1. <<stack[i].node, top.node>> \in A!AllEdges
          BY <1>2, <2>0, <2>1 DEF AnalysisInv, StackSound, PathSound
    <3> QED BY <1>2, <1>3, <2>1, <3>1, BelowClosed DEF AnalysisInv
  <2>3. FrameSound(t[i])
        BY <2>1, <2>2 DEF FrameSound
  <2>4. PathSound(t)
        BY <2>1, <2>3, ReplaceTop
  <2>5. StackSound'
        BY <1>1, <2>0, <2>4, GraphKept DEF StackSound, t
  <2>6. ResultsSound'
        BY <1>1, <2>0, GraphKept DEF AnalysisInv, ResultsSound
  <2> QED BY <1>1, <1>4, <2>5, <2>6 DEF AnalysisInv
<1> QED BY <1>5, <1>6

LEMMA AnalysisStep ==
    ASSUME AnalysisInv, A!Next
    PROVE  AnalysisInv'
BY AnalyseSound, UseCachedSound, CallSound, ReturnSound DEF A!Next

LEMMA AnalysisUnchanged ==
    ASSUME AnalysisInv, UNCHANGED analysisVars
    PROVE  AnalysisInv'
<1>1. /\ graph' = graph /\ cached' = cached /\ stack' = stack
      /\ function' = function /\ results' = results
      BY DEF analysisVars
<1>2. StackSound'
      BY <1>1, GraphKept DEF AnalysisInv, StackSound
<1> QED BY <1>1, <1>2, OthersKept

-----------------------------------------------------------------------------
(* What dfs finds where it meets no cycle *)

\* All that is below n along the edges that dfs follows where it meets no cycle.
AllBelow(n) == A!Direct(A!Reached(A!Edges, n))

LEMMA ReachedSteps ==
    ASSUME NEW E \in SUBSET (Node \X Node), NEW n \in Node
    PROVE  /\ n \in A!Reached(E, n) /\ A!Reached(E, n) \subseteq Node
           /\ \A m \in A!Succ(E, n) : A!Reached(E, m) \subseteq A!Reached(E, n)
           /\ \A x \in A!Reached(E, n) : A!Reached(E, x) \subseteq A!Reached(E, n)
           /\ \A x \in A!Reached(E, n) : x = n \/ \E m \in A!Succ(E, n) : x \in A!Reached(E, m)
<1>1. n \in A!Reached(E, n) /\ A!Reached(E, n) \subseteq Node
      BY DEF A!Reached
<1>2. ASSUME NEW x \in A!Reached(E, n)
      PROVE  A!Reached(E, x) \subseteq A!Reached(E, n)
      BY DEF A!Reached
<1>3. ASSUME NEW m \in A!Succ(E, n)
      PROVE  m \in A!Reached(E, n)
  <2>1. <<n, m>> \in E /\ m \in Node
        BY DEF A!Succ
  <2> SUFFICES ASSUME NEW S \in SUBSET Node, n \in S, \A e \in E : e[1] \in S => e[2] \in S
               PROVE  m \in S
      BY <2>1 DEF A!Reached
  <2> QED BY <2>1
<1>4. ASSUME NEW x \in A!Reached(E, n)
      PROVE  x = n \/ \E m \in A!Succ(E, n) : x \in A!Reached(E, m)
  <2> DEFINE S == {n} \cup {y \in Node : \E m \in A!Succ(E, n) : y \in A!Reached(E, m)}
  <2>1. S \in SUBSET Node /\ n \in S
        OBVIOUS
  <2>2. ASSUME NEW e \in E, e[1] \in S
        PROVE  e[2] \in S
    <3>1. e[1] \in Node /\ e[2] \in Node /\ <<e[1], e[2]>> \in E
          OBVIOUS
    <3>2. CASE e[1] = n
      <4>1. e[2] \in A!Succ(E, n)
            BY <3>1, <3>2 DEF A!Succ
      <4>2. e[2] \in A!Reached(E, e[2])
            BY <3>1 DEF A!Reached
      <4> QED BY <3>1, <4>1, <4>2
    <3>3. CASE e[1] # n
      <4>1. PICK m \in A!Succ(E, n) : e[1] \in A!Reached(E, m)
            BY <2>2, <3>3
      <4>2. e[2] \in A!Reached(E, m)
            BY <3>1, <4>1 DEF A!Reached
      <4> QED BY <3>1, <4>1, <4>2
    <3> QED BY <3>2, <3>3
  <2>3. x \in S
    <3> HIDE DEF S
    <3> QED BY <2>1, <2>2 DEF A!Reached
  <2> QED BY <2>3
<1> QED BY <1>1, <1>2, <1>3, <1>4

LEMMA EdgeTypes ==
    ASSUME graph \in A!CallGraph
    PROVE  /\ A!AllEdges \in SUBSET (Node \X Node) /\ A!Edges \in SUBSET (Node \X Node)
           /\ A!Edges \subseteq A!AllEdges
           /\ graph.direct \in [Node -> SUBSET Number] /\ graph.sources \subseteq SUBSET Node
BY DEF A!CallGraph, A!AllEdges, A!Edges

\* From a node that meets no cycle its successors meet none, and do not lead back.
LEMMA PlainSucc ==
    ASSUME graph \in A!CallGraph, NEW n \in Node, A!Plain(n), NEW k \in A!Succ(A!AllEdges, n)
    PROVE  A!Plain(k) /\ k \in Node /\ k # n /\ n \notin A!Reached(A!AllEdges, k)
<1>1. A!AllEdges \in SUBSET (Node \X Node) /\ k \in Node
      BY EdgeTypes DEF A!Succ
<1>2. /\ n \in A!Reached(A!AllEdges, n)
      /\ A!Reached(A!AllEdges, k) \subseteq A!Reached(A!AllEdges, n)
      BY <1>1, ReachedSteps
<1>3. n \notin A!Reached(A!AllEdges, k)
  <2>1. ~A!OnCycle(n)
        BY <1>2 DEF A!Plain
  <2> QED BY <2>1 DEF A!OnCycle
<1>4. k # n
      BY <1>2, <1>3
<1>5. A!Plain(k)
  <2>1. \A m \in A!Reached(A!AllEdges, k) : ~A!OnCycle(m)
        BY <1>2 DEF A!Plain
  <2>2. (A!Reached(A!AllEdges, k) \ {k}) \cap A!Aliased = {}
        BY <1>2, <1>3 DEF A!Plain
  <2> QED BY <2>1, <2>2 DEF A!Plain
<1> QED BY <1>1, <1>3, <1>4, <1>5

\* Its edges are all followed: none leads to where the search has come from.
LEMMA PlainTargets ==
    ASSUME graph \in A!CallGraph, NEW n \in Node, A!Plain(n), NEW path,
           \A x \in path : x \in A!Aliased \/ n \in A!Reached(A!AllEdges, x),
           \A m : <<n, m>> \notin done
    PROVE  A!Targets(n, path) = A!Succ(A!Edges, n)
<1>1. ASSUME NEW m \in A!Succ(A!AllEdges, n)
      PROVE  m \notin path
  <2>1. m # n /\ n \notin A!Reached(A!AllEdges, m) /\ m \in Node
        BY PlainSucc
  <2>2. m \in A!Reached(A!AllEdges, n)
    <3>1. A!AllEdges \in SUBSET (Node \X Node)
          BY EdgeTypes
    <3>2. m \in A!Reached(A!AllEdges, m)
          BY <2>1, <3>1, ReachedSteps
    <3>3. A!Reached(A!AllEdges, m) \subseteq A!Reached(A!AllEdges, n)
          BY <3>1, ReachedSteps
    <3> QED BY <3>2, <3>3
  <2>3. m \notin A!Aliased
        BY <2>1, <2>2 DEF A!Plain
  <2> QED BY <2>1, <2>3
<1> DEFINE fresh(edges) == {m \in A!Succ(edges, n) : m \notin path /\ <<n, m>> \notin done}
<1>2. A!Succ(graph.local, n) \subseteq A!Succ(A!AllEdges, n)
      /\ A!Succ(graph.bound, n) \subseteq A!Succ(A!AllEdges, n)
      BY DEF A!Succ, A!AllEdges
<1>3. /\ fresh(graph.local) = A!Succ(graph.local, n)
      /\ fresh(graph.bound) = A!Succ(graph.bound, n)
      BY <1>1, <1>2
<1>4. A!Targets(n, path) = IF fresh(graph.local) # {} THEN fresh(graph.local)
                           ELSE fresh(graph.bound)
      BY DEF A!Targets
<1>5. A!Targets(n, path) = IF A!Succ(graph.local, n) # {} THEN A!Succ(graph.local, n)
                           ELSE A!Succ(graph.bound, n)
  <2> HIDE DEF fresh
  <2> QED BY <1>3, <1>4
<1>6. A!Succ(A!Edges, n) = IF A!Succ(graph.local, n) # {} THEN A!Succ(graph.local, n)
                           ELSE A!Succ(graph.bound, n)
  <2>1. CASE A!Succ(graph.local, n) # {}
    <3>1. \A m : <<n, m>> \in A!Edges <=> <<n, m>> \in graph.local
          BY <2>1 DEF A!Edges
    <3> QED BY <2>1, <3>1 DEF A!Succ
  <2>2. CASE A!Succ(graph.local, n) = {}
    <3>1. \A m : <<n, m>> \in A!Edges <=> <<n, m>> \in graph.local \/ <<n, m>> \in graph.bound
          BY <2>2 DEF A!Edges
    <3>2. \A m \in Node : <<n, m>> \notin graph.local
          BY <2>2 DEF A!Succ
    <3> QED BY <2>2, <3>1, <3>2 DEF A!Succ
  <2> QED BY <2>1, <2>2
<1> QED BY <1>5, <1>6

\* A frame that has the calls of all successors has all that are below it.
LEMMA FoundFull ==
    ASSUME graph \in A!CallGraph, NEW frame, frame.node \in Node,
           frame.syscalls \subseteq AllBelow(frame.node),
           \A k \in A!Succ(A!Edges, frame.node) : AllBelow(k) \subseteq frame.syscalls
    PROVE  A!Found(frame) = AllBelow(frame.node)
<1> DEFINE n == frame.node
<1>1. A!Edges \in SUBSET (Node \X Node)
      BY EdgeTypes
<1>2. /\ n \in A!Reached(A!Edges, n)
      /\ \A x \in A!Reached(A!Edges, n) :
            x = n \/ \E m \in A!Succ(A!Edges, n) : x \in A!Reached(A!Edges, m)
      BY <1>1, ReachedSteps
<1>3. A!Found(frame) \subseteq AllBelow(n)
      BY <1>2 DEF A!Found, AllBelow, A!Direct
<1>4. ASSUME NEW sc \in AllBelow(n)
      PROVE  sc \in A!Found(frame)
  <2>1. PICK x \in A!Reached(A!Edges, n) : sc \in graph.direct[x] /\ sc # Exec
        BY <1>4 DEF AllBelow, A!Direct
  <2>2. CASE x = n
        BY <2>1, <2>2 DEF A!Found
  <2>3. CASE x # n
    <3>1. PICK m \in A!Succ(A!Edges, n) : x \in A!Reached(A!Edges, m)
          BY <1>2, <2>3
    <3>2. sc \in AllBelow(m)
          BY <2>1, <3>1 DEF AllBelow, A!Direct
    <3>3. sc \in frame.syscalls
          BY <3>1, <3>2
    <3> QED BY <2>1, <3>3 DEF A!Found
  <2> QED BY <2>2, <2>3
<1> QED BY <1>3, <1>4

LEMMA AllBelowSucc ==
    ASSUME graph \in A!CallGraph, NEW n \in Node, NEW k \in A!Succ(A!Edges, n)
    PROVE  AllBelow(k) \subseteq AllBelow(n)
<1>1. A!Edges \in SUBSET (Node \X Node)
      BY EdgeTypes
<1>2. A!Reached(A!Edges, k) \subseteq A!Reached(A!Edges, n)
      BY <1>1, ReachedSteps
<1> QED BY <1>2 DEF AllBelow, A!Direct

\* s can be the stack of the search: the calls found for a node that meets no cycle
\* are below it, and those of the successors that have been followed have been found,
\* but for the one whose frame is the next.
PathFull(s) ==
    /\ \A i, j \in 1..Len(s) : i <= j => s[j].node \in A!Reached(A!AllEdges, s[i].node)
    /\ \A i \in 1..Len(s) : A!Plain(s[i].node) =>
         /\ s[i].todo \subseteq A!Succ(A!Edges, s[i].node)
         /\ s[i].syscalls \subseteq AllBelow(s[i].node)
         /\ \A k \in A!Succ(A!Edges, s[i].node) \ s[i].todo :
               AllBelow(k) \subseteq s[i].syscalls \/ (i < Len(s) /\ k = s[i + 1].node)
         /\ i < Len(s) => s[i + 1].node \in A!Succ(A!Edges, s[i].node)

\* Edges are followed from nodes whose frame is on the stack or has returned.
DoneInv ==
    \A n, m : <<n, m>> \in done => n \in DOMAIN cached \/ \E i \in 1..Len(stack) : stack[i].node = n

ResultsFull ==
    \A entry \in DOMAIN results : \A n \in entry :
        A!Plain(n) /\ entry = {n} => results[entry] = AllBelow(n)

CompleteInv ==
    /\ PathFull(stack) /\ DoneInv /\ A!CompleteOffCycles /\ ResultsFull
    /\ stack # <<>> => others \subseteq A!Aliased

LEMMA FullKept ==
    ASSUME graph' = graph
    PROVE  /\ \A n : AllBelow(n)' = AllBelow(n)
           /\ \A n : A!Plain(n)' <=> A!Plain(n)
           /\ A!Aliased' = A!Aliased
           /\ \A s : PathFull(s)' <=> PathFull(s)
<1>1. /\ A!AllEdges' = A!AllEdges /\ A!Edges' = A!Edges /\ A!Aliased' = A!Aliased
      /\ \A nodes : A!Direct(nodes)' = A!Direct(nodes)
      BY DEF A!AllEdges, A!Edges, A!Succ, A!Aliased, A!Cardinality, A!Direct
<1>2. /\ \A n : A!Reached(A!Edges, n)' = A!Reached(A!Edges, n)
      /\ \A n : A!Reached(A!AllEdges, n)' = A!Reached(A!AllEdges, n)
      /\ \A n : A!Succ(A!Edges, n)' = A!Succ(A!Edges, n)
      /\ \A n : A!Succ(A!AllEdges, n)' = A!Succ(A!AllEdges, n)
      BY <1>1 DEF A!Reached, A!Succ
<1>3. \A n : AllBelow(n)' = AllBelow(n)
      BY <1>1, <1>2 DEF AllBelow, A!Direct
<1>4. \A n : A!OnCycle(n)' <=> A!OnCycle(n)
      BY <1>2 DEF A!OnCycle
<1>5. \A n : A!Plain(n)' <=> A!Plain(n)
      BY <1>1, <1>2, <1>4 DEF A!Plain
<1>6. \A s : PathFull(s)' <=> PathFull(s)
      BY <1>2, <1>3, <1>5 DEF PathFull
<1> QED BY <1>1, <1>3, <1>5, <1>6

\* Names that share an entry with another.
LEMMA AliasedOthers ==
    ASSUME Stage1Assumption, graph \in A!CallGraph, NEW entry \in graph.sources,
           NEW n \in entry, NEW m \in entry, m # n
    PROVE  m \in A!Aliased
<1>1. IsFiniteSet(entry)
  <2>1. IsFiniteSet(Node)
        BY DEF Stage1Assumption, A!AnalysisAssumption, A!IsFiniteSet, IsFiniteSet
  <2>2. entry \in SUBSET Node
        BY EdgeTypes
  <2> QED BY <2>1, <2>2, FS_Subset
<1>2. Cardinality({n}) = 1 /\ IsFiniteSet({n})
      BY FS_Singleton
<1>3. {n} \in SUBSET entry /\ {n} # entry
      OBVIOUS
<1>4. Cardinality({n}) <= Cardinality(entry) /\ Cardinality(entry) # Cardinality({n})
      BY <1>1, <1>3, FS_Subset
<1>5. Cardinality(entry) > 1
      BY <1>1, <1>2, <1>4, FS_CardinalityType
<1>6. A!Cardinality(entry) = Cardinality(entry)
      BY DEF A!Cardinality, Cardinality
<1> QED BY <1>5, <1>6 DEF A!Aliased

\* The frame of a call of dfs, when it has just been made for a node that meets no
\* cycle: everything is still to be done.
LEMMA NewFrameFull ==
    ASSUME AnalysisInv, CompleteInv, NEW n \in Node \ DOMAIN cached, NEW path, A!Plain(n),
           \A x \in path : x \in A!Aliased \/ n \in A!Reached(A!AllEdges, x),
           \A i \in 1..Len(stack) : stack[i].node # n
    PROVE  /\ A!Frame(n, path).node = n /\ A!Frame(n, path).syscalls = {}
           /\ A!Frame(n, path).todo = A!Succ(A!Edges, n)
<1>1. \A m : <<n, m>> \notin done
      BY DEF CompleteInv, DoneInv
<1>2. A!Targets(n, path) = A!Succ(A!Edges, n)
      BY <1>1, PlainTargets DEF AnalysisInv
<1> QED BY <1>2 DEF A!Frame

LEMMA AnalyseFull ==
    ASSUME Stage1Assumption, AnalysisInv, CompleteInv, A!Analyse
    PROVE  CompleteInv'
<1>1. graph' = graph /\ cached' = cached /\ function = {}
      BY DEF A!Analyse
<1>2. PICK fn \in graph.sources : \E n \in fn :
          IF n \in DOMAIN cached
          THEN /\ results' = A!With(results, fn, cached[n])
               /\ UNCHANGED <<done, others, stack, function>>
          ELSE /\ function' = fn
               /\ others' = fn \ {n}
               /\ stack' = <<A!Frame(n, fn)>>
               /\ UNCHANGED <<done, results>>
      BY DEF A!Analyse
<1>3. PICK n \in fn :
          IF n \in DOMAIN cached
          THEN /\ results' = A!With(results, fn, cached[n])
               /\ UNCHANGED <<done, others, stack, function>>
          ELSE /\ function' = fn
               /\ others' = fn \ {n}
               /\ stack' = <<A!Frame(n, fn)>>
               /\ UNCHANGED <<done, results>>
      BY <1>2
<1>4. n \in Node /\ graph \in A!CallGraph
      BY <1>2, <1>3 DEF AnalysisInv, A!CallGraph
<1>5. stack = <<>>
      BY <1>1 DEF AnalysisInv, StackSound, PathSound, A!CallGraph
<1>6. A!CompleteOffCycles'
      BY <1>1, FullKept DEF CompleteInv, A!CompleteOffCycles, AllBelow
<1>7. CASE n \in DOMAIN cached
  <2>1. /\ results' = A!With(results, fn, cached[n])
        /\ stack' = stack /\ done' = done /\ others' = others
        BY <1>3, <1>7
  <2>2. PathFull(stack)' /\ DoneInv' /\ (stack' # <<>> => others' \subseteq A!Aliased')
        BY <1>1, <2>1, FullKept DEF CompleteInv, DoneInv
  <2>3. A!Plain(n) => cached[n] = AllBelow(n)
        BY <1>7 DEF CompleteInv, A!CompleteOffCycles, AllBelow
  <2>4. ASSUME NEW entry \in DOMAIN results', NEW k \in entry, A!Plain(k), entry = {k}
        PROVE  results'[entry] = AllBelow(k)
    <3>1. CASE entry = fn
          BY <1>3, <2>1, <2>3, <2>4, <3>1 DEF A!With
    <3>2. CASE entry # fn
          BY <2>1, <2>4, <3>2 DEF A!With, CompleteInv, ResultsFull
    <3> QED BY <3>1, <3>2
  <2>5. ResultsFull'
        BY <1>1, <2>4, FullKept DEF ResultsFull
  <2> QED BY <1>6, <2>2, <2>5 DEF CompleteInv
<1>8. CASE n \notin DOMAIN cached
  <2> DEFINE frame == A!Frame(n, fn)
             t     == stack'
  <2>1. others' = fn \ {n} /\ t = <<frame>> /\ done' = done /\ results' = results
        BY <1>3, <1>8
  <2>2. \A x \in fn : x # n => x \in A!Aliased
        BY <1>2, <1>3, <1>4, AliasedOthers
  <2>3. n \in A!Reached(A!AllEdges, n) /\ frame.node = n
        BY <1>4 DEF A!Reached, A!Frame
  <2>4. A!Plain(n) => frame.syscalls = {} /\ frame.todo = A!Succ(A!Edges, n)
        BY <1>4, <1>5, <1>8, <2>2, <2>3, NewFrameFull
  <2>5. Len(t) = 1 /\ t[1] = frame
        BY <2>1
  <2> HIDE DEF frame, t
  <2>6. \A i \in 1..Len(t) : i = 1 /\ i = Len(t)
        BY <2>5
  <2>7. PathFull(t)
        BY <2>3, <2>4, <2>5, <2>6 DEF PathFull
  <2>8. PathFull(stack)'
        BY <1>1, <2>7, FullKept DEF t
  <2>9. DoneInv'
        BY <1>1, <1>5, <2>1 DEF CompleteInv, DoneInv
  <2>10. others' \subseteq A!Aliased'
        BY <1>1, <2>1, <2>2, FullKept
  <2>11. ResultsFull'
        BY <1>1, <2>1, FullKept DEF CompleteInv, ResultsFull
  <2> QED BY <1>6, <2>8, <2>9, <2>10, <2>11 DEF CompleteInv
<1> QED BY <1>7, <1>8


\* A frame that is on top: nothing that was followed is still missing.
FrameFull(frame) ==
    A!Plain(frame.node) =>
        /\ frame.todo \subseteq A!Succ(A!Edges, frame.node)
        /\ frame.syscalls \subseteq AllBelow(frame.node)
        /\ \A k \in A!Succ(A!Edges, frame.node) \ frame.todo : AllBelow(k) \subseteq frame.syscalls

LEMMA EdgesPlain ==
    ASSUME graph \in A!CallGraph, NEW n \in Node, A!Plain(n), NEW k \in A!Succ(A!Edges, n)
    PROVE  k \in Node /\ A!Plain(k) /\ AllBelow(k) \subseteq AllBelow(n)
<1>1. k \in A!Succ(A!AllEdges, n)
      BY EdgeTypes DEF A!Succ
<1> QED BY <1>1, PlainSucc, AllBelowSucc

LEMMA TopFull ==
    ASSUME NEW s, Len(s) \in Nat \ {0}, PathFull(s)
    PROVE  FrameFull(s[Len(s)])
<1>1. Len(s) \in 1..Len(s) /\ ~(Len(s) < Len(s))
      OBVIOUS
<1> QED BY <1>1 DEF PathFull, FrameFull

LEMMA ReplaceFull ==
    ASSUME NEW s, Len(s) \in Nat \ {0}, PathFull(s), NEW t, Len(t) = Len(s),
           \A i \in 1..Len(s) : i # Len(s) => t[i] = s[i],
           t[Len(s)].node = s[Len(s)].node, FrameFull(t[Len(s)])
    PROVE  PathFull(t)
<1> DEFINE len == Len(s)
<1>1. \A i \in 1..len : t[i].node = s[i].node
      OBVIOUS
<1>2. \A i, j \in 1..len : i <= j => t[j].node \in A!Reached(A!AllEdges, t[i].node)
      BY <1>1 DEF PathFull
<1>3. ASSUME NEW i \in 1..len, A!Plain(t[i].node)
      PROVE  /\ t[i].todo \subseteq A!Succ(A!Edges, t[i].node)
             /\ t[i].syscalls \subseteq AllBelow(t[i].node)
             /\ \A k \in A!Succ(A!Edges, t[i].node) \ t[i].todo :
                   AllBelow(k) \subseteq t[i].syscalls \/ (i < len /\ k = t[i + 1].node)
             /\ i < len => t[i + 1].node \in A!Succ(A!Edges, t[i].node)
  <2>1. CASE i = len
        BY <1>3, <2>1 DEF FrameFull
  <2>2. CASE i # len
    <3>1. t[i] = s[i] /\ i + 1 \in 1..len
          BY <2>2
    <3>2. t[i + 1].node = s[i + 1].node
          BY <1>1, <3>1
    <3> QED BY <1>3, <3>1, <3>2 DEF PathFull
  <2> QED BY <2>1, <2>2
<1> QED BY <1>2, <1>3 DEF PathFull

LEMMA PushFull ==
    ASSUME graph \in A!CallGraph, NEW s, Len(s) \in Nat \ {0}, PathFull(s),
           \A i \in 1..Len(s) : s[i].node \in Node,
           NEW m \in s[Len(s)].todo, m \in Node, <<s[Len(s)].node, m>> \in A!AllEdges,
           NEW t, Len(t) = Len(s) + 1,
           \A i \in 1..Len(s) : i # Len(s) => t[i] = s[i],
           t[Len(s)].node = s[Len(s)].node, t[Len(s)].todo = s[Len(s)].todo \ {m},
           t[Len(s)].syscalls = s[Len(s)].syscalls,
           t[Len(s) + 1].node = m, FrameFull(t[Len(s) + 1])
    PROVE  PathFull(t)
<1> DEFINE len == Len(s)
<1>1. \A i \in 1..len : t[i].node = s[i].node
      OBVIOUS
<1>2. ASSUME NEW i \in 1..len + 1, NEW j \in 1..len + 1, i <= j
      PROVE  t[j].node \in A!Reached(A!AllEdges, t[i].node)
  <2>0. A!AllEdges \in SUBSET (Node \X Node)
        BY EdgeTypes
  <2>1. CASE j \in 1..len
    <3>1. i \in 1..len
          BY <1>2, <2>1
    <3> QED BY <1>1, <1>2, <2>1, <3>1 DEF PathFull
  <2>2. CASE i = len + 1
    <3>1. t[i].node = m /\ t[j].node = m
          BY <1>2, <2>2
    <3> QED BY <2>0, <3>1, ReachedSteps
  <2>3. CASE i \in 1..len /\ j = len + 1
    <3>1. len \in 1..len /\ i <= len
          BY <2>3
    <3>2. s[len].node \in A!Reached(A!AllEdges, s[i].node)
          BY <2>3, <3>1 DEF PathFull
    <3>3. s[i].node \in Node /\ s[len].node \in Node
          BY <2>3, <3>1
    <3>4. m \in A!Succ(A!AllEdges, s[len].node)
          BY DEF A!Succ
    <3>5. m \in A!Reached(A!AllEdges, s[len].node)
      <4>1. m \in A!Reached(A!AllEdges, m)
            BY <2>0, ReachedSteps
      <4> QED BY <2>0, <3>3, <3>4, <4>1, ReachedSteps
    <3>6. A!Reached(A!AllEdges, s[len].node) \subseteq A!Reached(A!AllEdges, s[i].node)
      <4>1. \A n \in Node : \A x \in A!Reached(A!AllEdges, n) :
               A!Reached(A!AllEdges, x) \subseteq A!Reached(A!AllEdges, n)
            BY <2>0, ReachedSteps
      <4> QED BY <3>2, <3>3, <4>1
    <3> QED BY <1>1, <2>3, <3>5, <3>6
  <2> QED BY <1>2, <2>1, <2>2, <2>3
<1>3. ASSUME NEW i \in 1..len + 1, A!Plain(t[i].node)
      PROVE  /\ t[i].todo \subseteq A!Succ(A!Edges, t[i].node)
             /\ t[i].syscalls \subseteq AllBelow(t[i].node)
             /\ \A k \in A!Succ(A!Edges, t[i].node) \ t[i].todo :
                   AllBelow(k) \subseteq t[i].syscalls \/ (i < len + 1 /\ k = t[i + 1].node)
             /\ i < len + 1 => t[i + 1].node \in A!Succ(A!Edges, t[i].node)
  <2>1. CASE i = len + 1
        BY <1>3, <2>1 DEF FrameFull
  <2>2. CASE i = len
    <3>1. FrameFull(s[len]) /\ A!Plain(s[len].node)
          BY <1>3, <2>2, TopFull
    <3> QED BY <1>1, <2>2, <3>1 DEF FrameFull
  <2>3. CASE i \notin {len, len + 1}
    <3>1. i \in 1..len /\ i # len /\ t[i] = s[i] /\ i + 1 \in 1..len /\ i < len
          BY <2>3
    <3>2. t[i + 1].node = s[i + 1].node
          BY <1>1, <3>1
    <3> QED BY <1>3, <3>1, <3>2 DEF PathFull
  <2> QED BY <2>1, <2>2, <2>3
<1> QED BY <1>2, <1>3 DEF PathFull

LEMMA PopFull ==
    ASSUME graph \in A!CallGraph, NEW s, Len(s) \in Nat, Len(s) > 1, PathFull(s),
           \A i \in 1..Len(s) : s[i].node \in Node,
           NEW found, A!Plain(s[Len(s)].node) => found = AllBelow(s[Len(s)].node),
           NEW t, Len(t) = Len(s) - 1,
           \A i \in 1..Len(s) - 1 : i # Len(s) - 1 => t[i] = s[i],
           t[Len(s) - 1].node = s[Len(s) - 1].node, t[Len(s) - 1].todo = s[Len(s) - 1].todo,
           t[Len(s) - 1].syscalls = s[Len(s) - 1].syscalls \cup found
    PROVE  PathFull(t)
<1> DEFINE len == Len(s) - 1
<1>0. len \in Nat \ {0} /\ Len(s) = len + 1 /\ len \in 1..Len(s) /\ len + 1 \in 1..Len(s)
      OBVIOUS
<1>1. \A i \in 1..len : t[i].node = s[i].node /\ i \in 1..Len(s)
      OBVIOUS
<1>2. \A i, j \in 1..len : i <= j => t[j].node \in A!Reached(A!AllEdges, t[i].node)
      BY <1>1 DEF PathFull
<1>3. ASSUME NEW i \in 1..len, A!Plain(t[i].node)
      PROVE  /\ t[i].todo \subseteq A!Succ(A!Edges, t[i].node)
             /\ t[i].syscalls \subseteq AllBelow(t[i].node)
             /\ \A k \in A!Succ(A!Edges, t[i].node) \ t[i].todo :
                   AllBelow(k) \subseteq t[i].syscalls \/ (i < len /\ k = t[i + 1].node)
             /\ i < len => t[i + 1].node \in A!Succ(A!Edges, t[i].node)
  <2>1. CASE i = len
    <3>1. /\ s[len].todo \subseteq A!Succ(A!Edges, s[len].node)
          /\ s[len].syscalls \subseteq AllBelow(s[len].node)
          /\ \A k \in A!Succ(A!Edges, s[len].node) \ s[len].todo :
                AllBelow(k) \subseteq s[len].syscalls \/ k = s[len + 1].node
          /\ s[len + 1].node \in A!Succ(A!Edges, s[len].node)
          BY <1>0, <1>3, <2>1 DEF PathFull
    <3>2. /\ A!Plain(s[len + 1].node)
          /\ AllBelow(s[len + 1].node) \subseteq AllBelow(s[len].node)
          BY <1>0, <1>3, <2>1, <3>1, EdgesPlain
    <3>3. found = AllBelow(s[len + 1].node)
          BY <1>0, <3>2
    <3>4. t[len].syscalls = s[len].syscalls \cup found
          OBVIOUS
    <3> QED BY <1>1, <2>1, <3>1, <3>2, <3>3, <3>4, SMTT(30)
  <2>2. CASE i # len
    <3>1. t[i] = s[i] /\ i + 1 \in 1..len /\ i < len /\ i < Len(s) /\ i \in 1..Len(s)
          BY <1>0, <2>2
    <3>2. t[i + 1].node = s[i + 1].node
          BY <1>1, <3>1
    <3> QED BY <1>3, <3>1, <3>2 DEF PathFull
  <2> QED BY <2>1, <2>2
<1> QED BY <1>2, <1>3 DEF PathFull


\* The nodes of the stack, and the frame on top.
LEMMA StackNodes ==
    ASSUME AnalysisInv, stack # <<>>
    PROVE  /\ Len(stack) \in Nat \ {0} /\ \A i \in 1..Len(stack) : stack[i].node \in Node
           /\ A!Top = stack[Len(stack)] /\ A!Top.node \in Node
           /\ \A m \in A!Top.todo : m \in Node /\ <<A!Top.node, m>> \in A!AllEdges
<1>1. /\ stack \in Seq(Frames) /\ Len(stack) \in Nat \ {0} /\ DOMAIN stack = 1..Len(stack)
      /\ A!Top \in Frames /\ FrameSound(A!Top) /\ A!Top = stack[Len(stack)]
      BY TopFrame
<1>2. \A i \in 1..Len(stack) : stack[i] \in Frames
      BY <1>1
<1>3. \A i \in 1..Len(stack) : stack[i].node \in Node
      BY <1>2 DEF Frames
<1> QED BY <1>1, <1>3 DEF Frames, FrameSound

LEMMA UseCachedFull ==
    ASSUME Stage1Assumption, AnalysisInv, CompleteInv, A!UseCached
    PROVE  CompleteInv'
<1>1. PICK m \in A!Top.todo \cap DOMAIN cached :
          /\ stack' = [stack EXCEPT ![Len(stack)].syscalls = @ \cup cached[m],
                                    ![Len(stack)].todo = @ \ {m}]
          /\ A!Follow(m)
      BY DEF A!UseCached
<1>2. /\ stack # <<>> /\ graph' = graph /\ cached' = cached /\ others' = others
      /\ results' = results /\ done' = done \cup {<<A!Top.node, m>>}
      BY <1>1 DEF A!UseCached, A!Follow
<1> DEFINE top == A!Top
           len == Len(stack)
           t   == stack'
<1>3. /\ stack \in Seq(Frames) /\ len \in Nat \ {0} /\ len \in DOMAIN stack
      /\ DOMAIN stack = 1..len /\ FrameSound(top) /\ top = stack[len]
      BY <1>2, TopFrame
<1>4. /\ \A m1 \in top.todo : m1 \in Node /\ <<top.node, m1>> \in A!AllEdges
      /\ top.node \in Node /\ graph \in A!CallGraph /\ m \in Node
      BY <1>1, <1>2, StackNodes DEF AnalysisInv
<1>5. cached[m] \in SUBSET Number
      BY <1>1, <1>4, BelowClosed DEF AnalysisInv, CacheSound
<1>6. /\ t \in Seq(Frames) /\ DOMAIN t = DOMAIN stack
      /\ \A j \in DOMAIN stack : j # len => t[j] = stack[j]
      /\ t[len].node = top.node /\ t[len].todo = top.todo \ {m}
      /\ t[len].syscalls = top.syscalls \cup cached[m]
      BY <1>1, <1>2, <1>5, UsedStack
<1> HIDE DEF t
<1>7. Len(t) = len
      BY <1>3, <1>6
<1>8. FrameFull(t[len])
  <2> SUFFICES ASSUME A!Plain(top.node)
               PROVE  /\ t[len].todo \subseteq A!Succ(A!Edges, top.node)
                      /\ t[len].syscalls \subseteq AllBelow(top.node)
                      /\ \A k \in A!Succ(A!Edges, top.node) \ t[len].todo :
                            AllBelow(k) \subseteq t[len].syscalls
      BY <1>6 DEF FrameFull
  <2>1. FrameFull(top)
        BY <1>3, TopFull DEF CompleteInv
  <2>2. m \in A!Succ(A!Edges, top.node)
        BY <1>1, <2>1 DEF FrameFull
  <2>3. A!Plain(m) /\ AllBelow(m) \subseteq AllBelow(top.node)
        BY <1>4, <2>2, EdgesPlain
  <2>4. cached[m] = AllBelow(m)
        BY <1>1, <2>3 DEF CompleteInv, A!CompleteOffCycles, AllBelow
  <2> QED BY <1>6, <2>1, <2>3, <2>4 DEF FrameFull
<1>9. PathFull(t)
  <2>1. PathFull(stack) /\ t[len].node = stack[len].node
        BY <1>3, <1>6 DEF CompleteInv
  <2> QED BY <1>3, <1>6, <1>7, <1>8, <2>1, ReplaceFull
<1>10. PathFull(stack)'
      BY <1>2, <1>9, FullKept DEF t
<1>11. DoneInv'
  <2> SUFFICES ASSUME NEW n, NEW k, <<n, k>> \in done'
               PROVE  n \in DOMAIN cached \/ \E i \in 1..Len(t) : t[i].node = n
      BY <1>2 DEF DoneInv, t
  <2>1. \A i \in 1..len : t[i].node = stack[i].node
        BY <1>3, <1>6
  <2>2. CASE <<n, k>> \in done
        BY <1>7, <2>1, <2>2 DEF CompleteInv, DoneInv
  <2>3. CASE n = top.node
        BY <1>3, <1>6, <1>7, <2>3
  <2> QED BY <1>2, <2>2, <2>3
<1>12. A!CompleteOffCycles' /\ ResultsFull'
      BY <1>2, FullKept DEF CompleteInv, A!CompleteOffCycles, AllBelow, ResultsFull
<1> QED BY <1>2, <1>10, <1>11, <1>12, FullKept DEF CompleteInv

LEMMA CallFull ==
    ASSUME Stage1Assumption, AnalysisInv, CompleteInv, A!Call
    PROVE  CompleteInv'
<1>1. PICK m \in A!Top.todo \ DOMAIN cached :
          /\ stack' = Append([stack EXCEPT ![Len(stack)].todo = @ \ {m}],
                             A!Frame(m, A!Path \cup {m}))
          /\ A!Follow(m)
      BY DEF A!Call
<1>2. /\ stack # <<>> /\ graph' = graph /\ cached' = cached /\ others' = others
      /\ results' = results /\ done' = done \cup {<<A!Top.node, m>>}
      BY <1>1 DEF A!Call, A!Follow
<1> DEFINE top == A!Top
           len == Len(stack)
           new == A!Frame(m, A!Path \cup {m})
           t   == stack'
<1>3. /\ stack \in Seq(Frames) /\ len \in Nat \ {0} /\ len \in DOMAIN stack
      /\ DOMAIN stack = 1..len /\ top = stack[len]
      BY <1>2, TopFrame
<1>4. /\ m \in Node /\ <<top.node, m>> \in A!AllEdges
      /\ \A i \in 1..len : stack[i].node \in Node
      /\ graph \in A!CallGraph
      BY <1>1, <1>2, StackNodes DEF AnalysisInv
<1>5. new \in Frames /\ new.node = m
      BY <1>4, NewFrameSound DEF A!Frame
<1>6. PICK low \in Seq(Frames) :
          /\ DOMAIN low = DOMAIN stack /\ Len(low) = Len(stack)
          /\ \A j \in DOMAIN stack : j # len => low[j] = stack[j]
          /\ low[len].node = stack[len].node /\ low[len].todo = stack[len].todo \ {m}
          /\ low[len].syscalls = stack[len].syscalls
          /\ t = Append(low, new)
      BY <1>1, <1>2, <1>3, <1>5, CalledStack, ZenonT(100)
<1>7. Len(low) = len
      BY <1>6
<1>8. /\ Len(t) = len + 1 /\ t[len + 1] = new
      /\ \A j \in 1..len : t[j] = low[j]
  <2> HIDE DEF new
  <2> QED BY <1>5, <1>6, <1>7, AppendProperties
<1> HIDE DEF t
<1>9. FrameFull(new)
  <2> SUFFICES ASSUME A!Plain(m)
               PROVE  new.todo = A!Succ(A!Edges, m) /\ new.syscalls = {}
      BY <1>5 DEF FrameFull
  <2>2. \A i \in 1..len : m \in A!Reached(A!AllEdges, stack[i].node)
    <3> SUFFICES ASSUME NEW i \in 1..len
                 PROVE  m \in A!Reached(A!AllEdges, stack[i].node)
        OBVIOUS
    <3>1. top.node \in A!Reached(A!AllEdges, stack[i].node)
      <4>1. len \in 1..len /\ i <= len
            BY <1>3
      <4> QED BY <1>3, <4>1 DEF CompleteInv, PathFull
    <3> QED BY <1>4, <3>1 DEF A!Reached
  <2>3. m \in A!Reached(A!AllEdges, m)
        BY <1>4 DEF A!Reached
  <2>4. ASSUME NEW i \in 1..len, stack[i].node = m
        PROVE  FALSE
    <3>1. CASE i = len
      <4>1. m \in A!Succ(A!AllEdges, m)
            BY <1>3, <1>4, <2>4, <3>1 DEF A!Succ
      <4> QED BY <1>4, <4>1, PlainSucc
    <3>2. CASE i # len
      <4>1. i + 1 \in 1..len /\ i < len
        <5>1. len \in Nat /\ i \in 1..len /\ i # len
              BY <1>3, <3>2
        <5> QED BY <5>1
      <4>4. stack[i + 1].node \in A!Succ(A!Edges, m)
            BY <2>4, <4>1 DEF CompleteInv, PathFull
      <4>2. stack[i + 1].node \in A!Succ(A!AllEdges, m)
            BY <1>4, <4>4, EdgeTypes DEF A!Succ
      <4>3. m \notin A!Reached(A!AllEdges, stack[i + 1].node)
            BY <1>4, <4>2, PlainSucc
      <4> QED BY <2>2, <4>1, <4>3
    <3> QED BY <3>1, <3>2
  <2>5. \A x \in A!Path \cup {m} : x \in A!Aliased \/ m \in A!Reached(A!AllEdges, x)
    <3>1. others \subseteq A!Aliased
          BY <1>2 DEF CompleteInv
    <3> QED BY <1>3, <2>2, <2>3, <3>1 DEF A!Path
  <2>6. m \in Node \ DOMAIN cached
        BY <1>1, <1>4, SMTT(40)
  <2> QED BY <2>4, <2>5, <2>6, NewFrameFull
<1> HIDE DEF new
<1>10. PathFull(t)
  <2>1. PathFull(stack) /\ m \in stack[len].todo /\ <<stack[len].node, m>> \in A!AllEdges
        BY <1>1, <1>3, <1>4 DEF CompleteInv
  <2>2. /\ \A i \in 1..len : i # len => t[i] = stack[i]
        /\ t[len].node = stack[len].node /\ t[len].todo = stack[len].todo \ {m}
        /\ t[len].syscalls = stack[len].syscalls
        BY <1>3, <1>6, <1>8
  <2>3. t[len + 1].node = m /\ FrameFull(t[len + 1])
        BY <1>5, <1>8, <1>9
  <2> QED BY <1>3, <1>4, <1>8, <2>1, <2>2, <2>3, PushFull, ZenonT(60)
<1>11. PathFull(stack)'
      BY <1>2, <1>10, FullKept DEF t
<1>12. DoneInv'
  <2> SUFFICES ASSUME NEW n, NEW k, <<n, k>> \in done'
               PROVE  n \in DOMAIN cached \/ \E i \in 1..Len(t) : t[i].node = n
      BY <1>2 DEF DoneInv, t
  <2>1. \A i \in 1..len : t[i].node = stack[i].node /\ i \in 1..Len(t)
        BY <1>3, <1>6, <1>8, SMTT(40)
  <2>2. CASE <<n, k>> \in done
        BY <2>1, <2>2 DEF CompleteInv, DoneInv
  <2>3. CASE n = top.node
        BY <1>3, <2>1, <2>3
  <2> QED BY <1>2, <2>2, <2>3
<1>13. A!CompleteOffCycles' /\ ResultsFull'
      BY <1>2, FullKept DEF CompleteInv, A!CompleteOffCycles, AllBelow, ResultsFull
<1> QED BY <1>2, <1>11, <1>12, <1>13, FullKept DEF CompleteInv


LEMMA ReturnFull ==
    ASSUME Stage1Assumption, AnalysisInv, CompleteInv, A!Return
    PROVE  CompleteInv'
<1> DEFINE top   == A!Top
           found == A!Found(top)
           len   == Len(stack)
<1>1. /\ stack # <<>> /\ top.todo = {} /\ graph' = graph
      /\ cached' = A!With(cached, top.node, found)
      /\ \/ /\ len = 1
            /\ results' = A!With(results, function, found)
            /\ done' = {} /\ stack' = <<>>
         \/ /\ len # 1
            /\ stack' = [SubSeq(stack, 1, len - 1) EXCEPT ![len - 1].syscalls = @ \cup found]
            /\ done' = done /\ others' = others /\ results' = results
      BY DEF A!Return
<1>2. /\ len \in Nat \ {0} /\ top = stack[len] /\ top.node \in Node
      /\ \A i \in 1..len : stack[i].node \in Node
      /\ graph \in A!CallGraph /\ FrameSound(top)
      BY <1>1, StackNodes, TopFrame DEF AnalysisInv
<1>3. A!Plain(top.node) => found = AllBelow(top.node)
  <2> SUFFICES ASSUME A!Plain(top.node)
               PROVE  /\ top.syscalls \subseteq AllBelow(top.node)
                      /\ \A k \in A!Succ(A!Edges, top.node) : AllBelow(k) \subseteq top.syscalls
      BY <1>2, FoundFull
  <2>1. FrameFull(top)
        BY <1>2, TopFull DEF CompleteInv
  <2> QED BY <1>1, <2>1 DEF FrameFull
<1>4. found \in SUBSET Number
  <2>1. found \subseteq BelowNode(top.node)
        BY <1>2, BelowClosed DEF FrameSound, A!Found
  <2> QED BY <1>2, <2>1, BelowClosed
<1> HIDE DEF found
<1>5. A!CompleteOffCycles'
  <2> SUFFICES ASSUME NEW n \in DOMAIN cached', A!Plain(n)
               PROVE  cached'[n] = AllBelow(n)
      BY <1>1, FullKept DEF A!CompleteOffCycles, AllBelow
  <2>1. CASE n = top.node
        BY <1>1, <1>3, <2>1 DEF A!With
  <2>2. CASE n # top.node
        BY <1>1, <2>2 DEF A!With, CompleteInv, A!CompleteOffCycles, AllBelow
  <2> QED BY <2>1, <2>2
<1>6. DOMAIN cached' = DOMAIN cached \cup {top.node}
      BY <1>1 DEF A!With
<1>7. CASE len = 1
  <2>1. results' = A!With(results, function, found) /\ done' = {} /\ stack' = <<>>
        BY <1>1, <1>7
  <2>2. top.node \in function
        BY <1>1, <1>2, <1>7 DEF AnalysisInv, StackSound, PathSound
  <2>3. ASSUME NEW entry \in DOMAIN results', NEW k \in entry, A!Plain(k), entry = {k}
        PROVE  results'[entry] = AllBelow(k)
    <3>1. CASE entry = function
      <4>1. k = top.node
            BY <2>2, <2>3, <3>1
      <4> QED BY <1>3, <2>1, <2>3, <3>1, <4>1 DEF A!With
    <3>2. CASE entry # function
          BY <2>1, <2>3, <3>2 DEF A!With, CompleteInv, ResultsFull
    <3> QED BY <3>1, <3>2
  <2>4. ResultsFull'
        BY <1>1, <2>3, FullKept DEF ResultsFull
  <2>5. PathFull(stack)'
    <3>1. Len(stack') = 0 /\ 1..0 = {}
          BY <2>1
    <3> QED BY <3>1 DEF PathFull
  <2>6. DoneInv'
        BY <2>1 DEF DoneInv
  <2> QED BY <1>5, <2>1, <2>4, <2>5, <2>6 DEF CompleteInv
<1>8. CASE len # 1
  <2> DEFINE low == SubSeq(stack, 1, len - 1)
             t   == stack'
  <2>1. /\ stack' = [SubSeq(stack, 1, len - 1) EXCEPT ![len - 1].syscalls = @ \cup found]
        /\ done' = done /\ others' = others /\ results' = results
        BY <1>1, <1>8, Zenon
  <2>2. len > 1
    <3>1. len \in Nat /\ len # 0
          BY <1>2
    <3> HIDE DEF len
    <3> QED BY <1>8, <3>1
  <2>3. /\ low[len - 1] = stack[len - 1]
        /\ \A j \in 1..len - 1 : low[j] = stack[j]
        /\ t \in Seq(Frames) /\ DOMAIN t = 1..len - 1
        /\ \A j \in 1..len - 1 : j # len - 1 => t[j] = low[j]
        /\ t[len - 1].node = low[len - 1].node /\ t[len - 1].todo = low[len - 1].todo
        /\ t[len - 1].syscalls = low[len - 1].syscalls \cup found
        BY <1>4, <2>1, <2>2, ReturnedStack
  <2> HIDE DEF low, t
  <2>4. Len(t) = len - 1
        BY <1>2, <2>2, <2>3
  <2>5. PathFull(t)
    <3>1. PathFull(stack) /\ (A!Plain(stack[len].node) => found = AllBelow(stack[len].node))
          BY <1>2, <1>3 DEF CompleteInv
    <3>2. /\ \A i \in 1..len - 1 : i # len - 1 => t[i] = stack[i]
          /\ t[len - 1].node = stack[len - 1].node /\ t[len - 1].todo = stack[len - 1].todo
          /\ t[len - 1].syscalls = stack[len - 1].syscalls \cup found
          BY <2>3
    <3> QED BY <1>2, <2>2, <2>4, <3>1, <3>2, PopFull
  <2>6. PathFull(stack)'
        BY <1>1, <2>5, FullKept DEF t
  <2>7. DoneInv'
    <3> SUFFICES ASSUME NEW n, NEW k, <<n, k>> \in done
                 PROVE  n \in DOMAIN cached' \/ \E i \in 1..Len(t) : t[i].node = n
        BY <2>1 DEF DoneInv, t
    <3>1. CASE n \in DOMAIN cached
          BY <1>6, <3>1
    <3>2. CASE \E i \in 1..len : stack[i].node = n
      <4>1. PICK i \in 1..len : stack[i].node = n
            BY <3>2
      <4>2. CASE i = len
            BY <1>2, <1>6, <4>1, <4>2
      <4>3. CASE i # len
        <5>1. i \in 1..len - 1
              BY <1>2, <4>3
        <5>2. t[i].node = stack[i].node
              BY <2>3, <5>1
        <5> QED BY <2>4, <4>1, <5>1, <5>2
      <4> QED BY <4>2, <4>3
    <3> QED BY <3>1, <3>2 DEF CompleteInv, DoneInv
  <2>8. ResultsFull'
        BY <1>1, <2>1, FullKept DEF CompleteInv, ResultsFull
  <2> QED BY <1>1, <1>5, <2>1, <2>6, <2>7, <2>8, FullKept DEF CompleteInv
<1> QED BY <1>7, <1>8

LEMMA AnalysisStepFull ==
    ASSUME Stage1Assumption, AnalysisInv, CompleteInv, A!Next
    PROVE  CompleteInv'
BY AnalyseFull, UseCachedFull, CallFull, ReturnFull DEF A!Next

LEMMA AnalysisUnchangedFull ==
    ASSUME CompleteInv, UNCHANGED analysisVars
    PROVE  CompleteInv'
<1>1. /\ graph' = graph /\ cached' = cached /\ stack' = stack /\ done' = done
      /\ others' = others /\ results' = results
      BY DEF analysisVars
<1>2. PathFull(stack)' /\ (stack' # <<>> => others' \subseteq A!Aliased')
      BY <1>1, FullKept DEF CompleteInv
<1>3. DoneInv' /\ A!CompleteOffCycles' /\ ResultsFull'
      BY <1>1, FullKept DEF CompleteInv, DoneInv, A!CompleteOffCycles, AllBelow, ResultsFull
<1> QED BY <1>2, <1>3 DEF CompleteInv

LEMMA NothingFull ==
    cached = Empty /\ done = {} /\ stack = <<>> /\ results = Empty => CompleteInv
<1> SUFFICES ASSUME cached = Empty, done = {}, stack = <<>>, results = Empty
             PROVE  CompleteInv
    OBVIOUS
<1>1. Len(stack) = 0 /\ 1..0 = {}
      OBVIOUS
<1>2. PathFull(stack)
      BY <1>1 DEF PathFull
<1> QED BY <1>2 DEF CompleteInv, DoneInv, A!CompleteOffCycles, ResultsFull, Empty

LEMMA NothingFullNext ==
    (cached = Empty /\ done = {} /\ stack = <<>> /\ results = Empty => CompleteInv)'
BY NothingFull, PTL

-----------------------------------------------------------------------------
(* The files that are merged, and the mapping *)

\* Every word of a line has evidence or is the beginning of a word that has, and the
\* words without evidence of their own are those of torn.
Sound(lines, torn) ==
    /\ \A fn \in DOMAIN lines \ {None, Torn} : \A sc \in lines[fn] :
          /\ sc \in Syscall
          /\ sc \in Evident(fn) \/ (sc \in TornEvident(fn) /\ <<fn, sc>> \in torn)
    /\ Torn \in DOMAIN lines => lines[Torn] = {}

OfEntry(fn) == \E entry \in graph.sources : fn \in NamesOf[entry]

StaticSound ==
    /\ \A fn \in DOMAIN static \ {Torn} : OfEntry(fn)
    /\ \E x : Sound(static, IF failed THEN {x} ELSE {})

DynamicSound == \E x : Sound(dynamic, IF failed THEN {x} ELSE {})

MappingSound ==
    /\ \A fn \in DOMAIN mapping \ {Torn} :
          fn \notin Programs /\ OfEntry(fn) /\ mapping[fn] \cap Marks = {}
    /\ \E x, y, z : Sound(mapping, IF failed THEN {x, y, z} ELSE {})

MappingInv ==
    /\ TraceInv /\ AnalysisInv
    /\ failed \in BOOLEAN
    /\ StaticSound /\ DynamicSound /\ MappingSound

LEMMA EvidentKept ==
    ASSUME graph' = graph, trace' = trace
    PROVE  /\ \A fn : Evident(fn)' = Evident(fn) /\ TornEvident(fn)' = TornEvident(fn)
           /\ \A fn : OfEntry(fn)' <=> OfEntry(fn)
<1>1. \A fn : NumbersBelow(fn)' = NumbersBelow(fn)
      BY DEF NumbersBelow, A!AllEdges, A!Direct, A!Reached
<1>2. \A fn : {sc \in Syscall : T!Traced(fn, sc)}' = {sc \in Syscall : T!Traced(fn, sc)}
      BY TraceKept
<1>3. \A fn : Evident(fn)' = Evident(fn)
      BY <1>1, <1>2 DEF Evident
<1>4. \A fn : TornEvident(fn)' = TornEvident(fn)
      BY <1>1, <1>3 DEF TornEvident, Begun, BegunNames
<1>5. \A fn : OfEntry(fn)' <=> OfEntry(fn)
      BY DEF OfEntry
<1> QED BY <1>3, <1>4, <1>5

\* What was output before stays as it is, and so does its evidence.
\* Lines with the evidence there is now are sound in the next state too.
LEMMA NextSound ==
    ASSUME graph' = graph, trace' = trace
    PROVE  /\ \A x : Sound(static', IF failed' THEN {x} ELSE {}) =>
                       (\E v : Sound(static, IF failed THEN {v} ELSE {}))'
           /\ \A x : Sound(dynamic', IF failed' THEN {x} ELSE {}) =>
                       (\E v : Sound(dynamic, IF failed THEN {v} ELSE {}))'
           /\ \A x, y, z : Sound(mapping', IF failed' THEN {x, y, z} ELSE {}) =>
                       (\E v, w, u : Sound(mapping, IF failed THEN {v, w, u} ELSE {}))'
<1>1. ASSUME NEW x, Sound(static', IF failed' THEN {x} ELSE {})
      PROVE  Sound(static, IF failed THEN {x} ELSE {})'
      BY <1>1, EvidentKept DEF Sound
<1>2. ASSUME NEW x, Sound(dynamic', IF failed' THEN {x} ELSE {})
      PROVE  Sound(dynamic, IF failed THEN {x} ELSE {})'
      BY <1>2, EvidentKept DEF Sound
<1>3. ASSUME NEW x, NEW y, NEW z, Sound(mapping', IF failed' THEN {x, y, z} ELSE {})
      PROVE  Sound(mapping, IF failed THEN {x, y, z} ELSE {})'
      BY <1>3, EvidentKept DEF Sound
<1> QED BY <1>1, <1>2, <1>3

LEMMA FilesKept ==
    ASSUME graph' = graph, trace' = trace, failed' = failed
    PROVE  /\ (StaticSound /\ static' = static) => StaticSound'
           /\ (DynamicSound /\ dynamic' = dynamic) => DynamicSound'
           /\ (MappingSound /\ mapping' = mapping) => MappingSound'
<1>1. ASSUME StaticSound, static' = static
      PROVE  StaticSound'
  <2>1. PICK x : Sound(static', IF failed' THEN {x} ELSE {})
        BY <1>1, Zenon DEF StaticSound
  <2>2. \A fn \in DOMAIN static' \ {Torn} : OfEntry(fn)'
        BY <1>1, EvidentKept DEF StaticSound
  <2> QED BY <2>1, <2>2, NextSound DEF StaticSound
<1>2. ASSUME DynamicSound, dynamic' = dynamic
      PROVE  DynamicSound'
  <2>1. PICK x : Sound(dynamic', IF failed' THEN {x} ELSE {})
        BY <1>2, Zenon DEF DynamicSound
  <2> QED BY <2>1, NextSound DEF DynamicSound
<1>3. ASSUME MappingSound, mapping' = mapping
      PROVE  MappingSound'
  <2>1. PICK x, y, z : Sound(mapping', IF failed' THEN {x, y, z} ELSE {})
        BY <1>3, Zenon DEF MappingSound
  <2>2. \A fn \in DOMAIN mapping' \ {Torn} :
            fn \notin Programs /\ OfEntry(fn)' /\ mapping'[fn] \cap Marks = {}
        BY <1>3, EvidentKept DEF MappingSound
  <2> QED BY <2>1, <2>2, NextSound DEF MappingSound
<1> QED BY <1>1, <1>2, <1>3

LEMMA SoundWeaker ==
    ASSUME NEW lines, NEW X, NEW Y, Sound(lines, X), X \subseteq Y
    PROVE  Sound(lines, Y)
BY DEF Sound

\* The same when the next program fails.
LEMMA FilesKeptFailing ==
    ASSUME graph' = graph, trace' = trace, failed' \in {failed, TRUE}, failed \in BOOLEAN
    PROVE  /\ (StaticSound /\ static' = static) => StaticSound'
           /\ (DynamicSound /\ dynamic' = dynamic) => DynamicSound'
           /\ (MappingSound /\ mapping' = mapping) => MappingSound'
<1>1. CASE failed' = failed
      BY <1>1, FilesKept
<1>2. CASE failed' = TRUE
  <2>1. \A x, y, z : /\ (IF failed THEN {x} ELSE {}) \subseteq {x}
                     /\ (IF failed THEN {x, y, z} ELSE {}) \subseteq {x, y, z}
        OBVIOUS
  <2>2. StaticSound => \E x : Sound(static, {x})
        BY <2>1, SoundWeaker DEF StaticSound
  <2>3. DynamicSound => \E x : Sound(dynamic, {x})
        BY <2>1, SoundWeaker DEF DynamicSound
  <2>4. MappingSound => \E x, y, z : Sound(mapping, {x, y, z})
        BY <2>1, SoundWeaker DEF MappingSound
  <2>5. ASSUME StaticSound, static' = static
        PROVE  StaticSound'
    <3>1. PICK x : Sound(static', {x})
          BY <2>2, <2>5, Zenon
    <3>2. Sound(static', IF failed' THEN {x} ELSE {})
          BY <1>2, <3>1, Zenon
    <3>3. \A fn \in DOMAIN static' \ {Torn} : OfEntry(fn)'
          BY <2>5, EvidentKept DEF StaticSound
    <3> QED BY <3>2, <3>3, NextSound DEF StaticSound
  <2>6. ASSUME DynamicSound, dynamic' = dynamic
        PROVE  DynamicSound'
    <3>1. PICK x : Sound(dynamic', {x})
          BY <2>3, <2>6, Zenon
    <3>2. Sound(dynamic', IF failed' THEN {x} ELSE {})
          BY <1>2, <3>1, Zenon
    <3> QED BY <3>2, NextSound DEF DynamicSound
  <2>7. ASSUME MappingSound, mapping' = mapping
        PROVE  MappingSound'
    <3>1. PICK x, y, z : Sound(mapping', {x, y, z})
          BY <2>4, <2>7, Zenon
    <3>2. Sound(mapping', IF failed' THEN {x, y, z} ELSE {})
          BY <1>2, <3>1, Zenon
    <3>3. \A fn \in DOMAIN mapping' \ {Torn} :
              fn \notin Programs /\ OfEntry(fn)' /\ mapping'[fn] \cap Marks = {}
          BY <2>7, EvidentKept DEF MappingSound
    <3> QED BY <3>2, <3>3, NextSound DEF MappingSound
  <2> QED BY <2>5, <2>6, <2>7
<1> QED BY <1>1, <1>2

-----------------------------------------------------------------------------
(* Files that are cut off *)

\* What the traces show is a call, and under the name of a function.
LEMMA TracedWords ==
    ASSUME Stage1Assumption, TraceTypes, NEW fn, NEW sc, T!Traced(fn, sc)
    PROVE  sc \in Syscall /\ fn # Torn
<1>1. \A p \in Pid : trace[p] \in Seq(T!Line)
      BY TraceOf
<1>2. ASSUME NEW p \in Pid, NEW i \in DOMAIN trace[p]
      PROVE  /\ trace[p][i] \in T!Line
             /\ trace[p][i].kind = "call" => trace[p][i].name \in Syscall
             /\ trace[p][i].kind = "frame" => trace[p][i].fn \in Fn
  <2>1. trace[p][i] \in T!Line
        BY <1>1
  <2> QED BY <2>1 DEF T!Line
<1>3. ASSUME NEW p \in Pid, NEW i, T!Stacked(p, i, fn)
      PROVE  fn # Torn
  <2>1. PICK m \in DOMAIN trace[p] : T!Kind(p, m) = "frame" /\ trace[p][m].fn = fn
        BY <1>3 DEF T!Stacked
  <2>2. trace[p][m].kind = "frame"
        BY <1>1, <2>1 DEF T!Kind
  <2> QED BY <1>2, <2>1, <2>2 DEF Stage1Assumption
<1>4. PICK p \in Pid : \E i \in DOMAIN trace[p] :
             /\ T!Kind(p, i) = "call" /\ trace[p][i].name = sc
             /\ \/ T!Stacked(p, i, fn)
                \/ \E q \in Pid : \E j \in DOMAIN trace[q] : T!Stacked(q, j, fn)
      BY DEF T!Traced
<1>5. PICK i \in DOMAIN trace[p] : T!Kind(p, i) = "call" /\ trace[p][i].name = sc
      BY <1>4
<1>6. trace[p][i].kind = "call"
      BY <1>1, <1>5 DEF T!Kind
<1> QED BY <1>2, <1>3, <1>4, <1>5, <1>6

LEMMA EvidentWords ==
    ASSUME Stage1Assumption, TraceTypes, graph \in A!CallGraph, NEW fn
    PROVE  Evident(fn) \subseteq Syscall /\ NumbersBelow(fn) \subseteq Number
<1>1. NumbersBelow(fn) \subseteq Number
  <2>1. \A entry \in graph.sources : entry \subseteq Node
        BY DEF A!CallGraph
  <2>2. \A n \in Node : BelowNode(n) \subseteq Number
        BY BelowClosed
  <2> QED BY <2>1, <2>2 DEF NumbersBelow, BelowNode
<1>2. NameOf \in [Number -> Syscall]
      BY DEF Stage1Assumption
<1> QED BY <1>1, <1>2 DEF Evident

\* The beginning of a word with evidence, or of such a beginning, is one.
LEMMA BegunEvident ==
    ASSUME Stage1Assumption, TraceTypes, graph \in A!CallGraph, NEW fn,
           NEW words, words \subseteq Evident(fn) \cup TornEvident(fn)
    PROVE  Begun(words) \subseteq TornEvident(fn) /\ Begun(words) \subseteq Syscall \ Marks
<1> DEFINE names == BegunNames(NumbersBelow(fn))
<1>1. Evident(fn) \subseteq Syscall /\ names \subseteq Syscall
  <2>1. NumbersBelow(fn) \subseteq Number /\ Evident(fn) \subseteq Syscall
        BY EvidentWords
  <2>2. NameOf \in [Number -> Syscall]
        BY DEF Stage1Assumption
  <2> QED BY <2>1, <2>2, BegunAssumption DEF BegunNames
<1>2. TornEvident(fn) = Begun(Evident(fn)) \cup names \cup Begun(names)
      BY DEF TornEvident
<1> HIDE DEF names
<1>3. ASSUME NEW t \in Begun(words)
      PROVE  t \in TornEvident(fn) /\ t \in Syscall \ Marks
  <2>1. PICK w \in words : t \in NameBegun[w]
        BY DEF Begun
  <2>2. ASSUME NEW v \in Syscall, w \in NameBegun[v]
        PROVE  t \in NameBegun[v] /\ t \in Syscall \ Marks
        BY <2>1, <2>2, BegunAssumption
  <2>3. CASE w \in Evident(fn) \cup names
    <3>1. w \in Syscall
          BY <1>1, <2>3
    <3>2. t \in Syscall \ Marks
          BY <2>1, <3>1, BegunAssumption
    <3> QED BY <1>2, <2>1, <2>3, <3>2 DEF Begun
  <2>4. CASE w \in Begun(Evident(fn)) \cup Begun(names)
    <3>1. PICK v \in Evident(fn) \cup names : w \in NameBegun[v]
          BY <2>4 DEF Begun
    <3>2. t \in NameBegun[v] /\ t \in Syscall \ Marks
          BY <1>1, <2>2, <3>1
    <3> QED BY <1>2, <3>1, <3>2 DEF Begun
  <2> QED BY <1>2, <2>3, <2>4
<1> QED BY <1>3

\* A file cut off has lines of the whole one, at most one of them with one word that
\* is cut off, or a line without words.
LEMMA CutShape ==
    ASSUME NEW lines, NEW pieces, NEW q \in CutOff(lines, pieces)
    PROVE  \E last, w : \A fn \in DOMAIN q :
              \/ fn = Torn /\ q[fn] = {}
              \/ /\ fn \in DOMAIN lines
                 /\ \A sc \in q[fn] : \/ sc \in lines[fn]
                                      \/ fn = last /\ sc = w /\ sc \in pieces[fn]
<1> DEFINE Cut(last, S, words, end) ==
               [fn \in S \cup {last} |-> IF fn = last THEN words \cup end ELSE lines[fn]]
           Cuts(last) == {Cut(last, S, words, end) :
                             S \in SUBSET DOMAIN lines, words \in SUBSET lines[last],
                             end \in {{}} \cup {{w} : w \in pieces[last]}}
           Named(S) == [fn \in S \cup {Torn} |-> IF fn \in S THEN lines[fn] ELSE {}]
<1>1. \/ q \in {Restrict(lines, S) : S \in SUBSET DOMAIN lines}
      \/ q \in {Named(S) : S \in SUBSET DOMAIN lines}
      \/ q \in UNION {Cuts(last) : last \in DOMAIN lines}
  <2>1. CutOff(lines, pieces) =
            {Restrict(lines, S) : S \in SUBSET DOMAIN lines}
                \cup {Named(S) : S \in SUBSET DOMAIN lines}
                \cup (UNION {Cuts(last) : last \in DOMAIN lines})
        BY SMT DEF CutOff
  <2> HIDE DEF Cuts, Named
  <2> QED BY <2>1, Zenon
<1>2. CASE q \in {Restrict(lines, S) : S \in SUBSET DOMAIN lines}
  <2>1. PICK S \in SUBSET DOMAIN lines : q = Restrict(lines, S)
        BY <1>2, Zenon
  <2> QED BY <2>1 DEF Restrict
<1>3. CASE q \in {Named(S) : S \in SUBSET DOMAIN lines}
  <2>1. PICK S \in SUBSET DOMAIN lines : q = Named(S)
        BY <1>3, Zenon
  <2> QED BY <2>1
<1>4. CASE q \in UNION {Cuts(last) : last \in DOMAIN lines}
  <2>1. PICK last \in DOMAIN lines : q \in Cuts(last)
    <3> HIDE DEF Cuts
    <3>1. PICK cuts \in {Cuts(last) : last \in DOMAIN lines} : q \in cuts
          BY <1>4, Zenon
    <3>2. PICK last \in DOMAIN lines : cuts = Cuts(last)
          BY <3>1, Zenon
    <3> QED BY <3>1, <3>2
  <2>2. PICK S \in SUBSET DOMAIN lines, words \in SUBSET lines[last],
             end \in {{}} \cup {{w} : w \in pieces[last]} : q = Cut(last, S, words, end)
    <3> HIDE DEF Cut
    <3> QED BY <2>1
  <2>3. PICK w : end \subseteq {w} /\ (end # {} => w \in pieces[last])
        BY <2>2
  <2>4. /\ DOMAIN q = S \cup {last}
        /\ q[last] = words \cup end
        /\ \A fn \in S : fn # last => q[fn] = lines[fn]
        BY <2>2
  <2>5. \A fn \in DOMAIN q :
            /\ fn \in DOMAIN lines
            /\ \A sc \in q[fn] : sc \in lines[fn] \/ (fn = last /\ sc = w /\ sc \in pieces[fn])
        BY <2>3, <2>4
  <2> QED BY <2>5
<1> HIDE DEF Cuts, Named
<1> QED BY <1>1, <1>2, <1>3, <1>4, Zenon

\* It adds at most one call without evidence.
LEMMA CutSound ==
    ASSUME Stage1Assumption, NEW lines, NEW torn, Sound(lines, torn), NEW pieces,
           \A fn \in DOMAIN lines \ {None, Torn} :
               pieces[fn] \subseteq TornEvident(fn) /\ pieces[fn] \subseteq Syscall,
           Torn \in DOMAIN lines => pieces[Torn] = {},
           NEW q \in CutOff(lines, pieces)
    PROVE  /\ \A fn \in DOMAIN q : fn = Torn \/ fn \in DOMAIN lines
           /\ \E x : Sound(q, torn \cup {x})
<1>1. PICK last, w : \A fn \in DOMAIN q :
              \/ fn = Torn /\ q[fn] = {}
              \/ /\ fn \in DOMAIN lines
                 /\ \A sc \in q[fn] : \/ sc \in lines[fn]
                                      \/ fn = last /\ sc = w /\ sc \in pieces[fn]
      BY CutShape
<1>2. ASSUME NEW fn \in DOMAIN q \ {None, Torn}, NEW sc \in q[fn]
      PROVE  /\ sc \in Syscall
             /\ \/ sc \in Evident(fn)
                \/ sc \in TornEvident(fn) /\ <<fn, sc>> \in torn \cup {<<last, w>>}
  <2>1. CASE sc \in lines[fn]
        BY <1>1, <1>2, <2>1 DEF Sound
  <2>2. CASE fn = last /\ sc = w /\ sc \in pieces[fn]
        BY <1>1, <1>2, <2>2
  <2> QED BY <1>1, <1>2, <2>1, <2>2
<1>3. Torn \in DOMAIN q => q[Torn] = {}
      BY <1>1 DEF Sound
<1>4. Sound(q, torn \cup {<<last, w>>})
      BY <1>2, <1>3 DEF Sound
<1> QED BY <1>1, <1>4

\* The beginnings of the words of sound lines.
LEMMA BegunPieces ==
    ASSUME Stage1Assumption, TraceTypes, graph \in A!CallGraph, NEW lines, NEW torn,
           Sound(lines, torn)
    PROVE  /\ \A fn \in DOMAIN lines \ {None, Torn} :
                 /\ Begun(lines[fn]) \subseteq TornEvident(fn)
                 /\ Begun(lines[fn]) \subseteq Syscall \ Marks
           /\ Torn \in DOMAIN lines => Begun(lines[Torn]) = {}
<1>1. ASSUME NEW fn \in DOMAIN lines \ {None, Torn}
      PROVE  lines[fn] \subseteq Evident(fn) \cup TornEvident(fn)
      BY DEF Sound
<1>2. Begun({}) = {}
      BY DEF Begun
<1> QED BY <1>1, <1>2, BegunEvident DEF Sound

-----------------------------------------------------------------------------

LEMMA ReadableSound ==
    ASSUME Stage1Assumption, TraceTypes, AnalysisInv
    PROVE  /\ \A fn \in DOMAIN Readable : OfEntry(fn) /\ fn \in Fn
           /\ \A fn \in DOMAIN Readable : Readable[fn] \subseteq Evident(fn)
           /\ \A fn \in DOMAIN Readable : NumbersOf(fn) \subseteq NumbersBelow(fn)
           /\ Sound(Readable, {})
<1>1. \A fn \in DOMAIN Readable : OfEntry(fn)
      BY DEF Readable, AnalysisInv, ResultsSound, OfEntry
<1>2. \A fn \in DOMAIN Readable : fn \in Fn
  <2>1. graph.sources \subseteq (SUBSET Node) \ {{}}
        BY DEF AnalysisInv, A!CallGraph
  <2> QED BY <1>1, <2>1 DEF OfEntry, Stage1Assumption
<1>3. ASSUME NEW fn \in DOMAIN Readable, NEW nr \in NumbersOf(fn)
      PROVE  nr \in NumbersBelow(fn)
  <2>1. PICK entry \in DOMAIN results : fn \in NamesOf[entry] /\ nr \in results[entry]
        BY DEF NumbersOf
  <2>2. PICK n \in entry : results[entry] \subseteq BelowNode(n)
        BY <2>1 DEF AnalysisInv, ResultsSound
  <2>3. entry \in graph.sources
        BY <2>1 DEF AnalysisInv, ResultsSound
  <2> QED BY <2>1, <2>2, <2>3 DEF NumbersBelow, BelowNode
<1>4. ASSUME NEW fn \in DOMAIN Readable, NEW sc \in Readable[fn]
      PROVE  sc \in Evident(fn)
  <2>1. PICK entry \in DOMAIN results :
               fn \in NamesOf[entry] /\ \E nr \in results[entry] : NameOf[nr] = sc
        BY <1>4 DEF Readable
  <2>2. PICK nr \in results[entry] : NameOf[nr] = sc
        BY <2>1
  <2>3. nr \in NumbersOf(fn)
        BY <2>1, <2>2 DEF NumbersOf
  <2> QED BY <1>3, <2>2, <2>3 DEF Evident
<1>5. Torn \notin Fn /\ None \notin Fn
      BY DEF Stage1Assumption
<1>6. \A fn \in DOMAIN Readable : Readable[fn] \subseteq Syscall
      BY <1>4, EvidentWords DEF AnalysisInv
<1>7. Sound(Readable, {})
      BY <1>2, <1>4, <1>5, <1>6 DEF Sound
<1> QED BY <1>1, <1>2, <1>3, <1>4, <1>7

LEMMA PiecesSound ==
    ASSUME Stage1Assumption, TraceTypes, AnalysisInv, NEW fn \in DOMAIN Readable
    PROVE  Pieces(fn) \subseteq TornEvident(fn) /\ Pieces(fn) \subseteq Syscall
<1> DEFINE below == BegunNames(NumbersBelow(fn))
<1>1. Readable[fn] \subseteq Evident(fn) /\ NumbersOf(fn) \subseteq NumbersBelow(fn)
      BY ReadableSound
<1>2. graph \in A!CallGraph
      BY DEF AnalysisInv
<1>3. Begun(Readable[fn]) \subseteq TornEvident(fn) /\ Begun(Readable[fn]) \subseteq Syscall
      BY <1>1, <1>2, BegunEvident
<1>4. BegunNames(NumbersOf(fn)) \subseteq below
      BY <1>1 DEF BegunNames
<1>5. below \subseteq TornEvident(fn)
      BY DEF TornEvident
<1>6. below \subseteq Syscall
  <2>1. NumbersBelow(fn) \subseteq Number
        BY <1>2, EvidentWords
  <2>2. NameOf \in [Number -> Syscall]
        BY DEF Stage1Assumption
  <2> QED BY <2>1, <2>2, BegunAssumption DEF BegunNames
<1> HIDE DEF below
<1>7. /\ Begun(BegunNames(NumbersOf(fn))) \subseteq TornEvident(fn)
      /\ Begun(BegunNames(NumbersOf(fn))) \subseteq Syscall
  <2>1. BegunNames(NumbersOf(fn)) \subseteq Evident(fn) \cup TornEvident(fn)
        BY <1>4, <1>5
  <2> QED BY <1>2, <2>1, BegunEvident
<1> QED BY <1>3, <1>4, <1>5, <1>6, <1>7 DEF Pieces

LEMMA MergedSound ==
    ASSUME Stage1Assumption, MappingInv
    PROVE  /\ \A fn \in DOMAIN Merged \ {Torn} :
                 fn \notin Programs /\ OfEntry(fn) /\ Merged[fn] \cap Marks = {}
           /\ \E x, y : Sound(Merged, IF failed THEN {x, y} ELSE {})
<1>1. \A fn \in DOMAIN Merged : fn \in DOMAIN static /\ fn \notin Programs
      BY DEF Merged, ReadMapping
<1>2. \A fn \in DOMAIN Merged \ {Torn} : OfEntry(fn)
      BY <1>1 DEF MappingInv, StaticSound
<1>3. \A fn \in DOMAIN Merged : \A sc \in Merged[fn] :
          sc \notin Marks /\ (sc \in static[fn] \/ (fn \in DOMAIN dynamic /\ sc \in dynamic[fn]))
      BY <1>1 DEF Merged, ReadMapping
<1>4. PICK x : Sound(static, IF failed THEN {x} ELSE {})
      BY DEF MappingInv, StaticSound
<1>5. PICK y : Sound(dynamic, IF failed THEN {y} ELSE {})
      BY DEF MappingInv, DynamicSound
<1>6. Sound(Merged, IF failed THEN {x, y} ELSE {})
  <2>1. ASSUME NEW fn \in DOMAIN Merged \ {None, Torn}, NEW sc \in Merged[fn]
        PROVE  /\ sc \in Syscall
               /\ \/ sc \in Evident(fn)
                  \/ sc \in TornEvident(fn) /\ <<fn, sc>> \in IF failed THEN {x, y} ELSE {}
    <3>1. CASE sc \in static[fn]
          BY <1>1, <1>4, <2>1, <3>1 DEF Sound
    <3>2. CASE fn \in DOMAIN dynamic /\ sc \in dynamic[fn]
          BY <1>5, <2>1, <3>2 DEF Sound
    <3> QED BY <1>3, <2>1, <3>1, <3>2
  <2>2. Torn \in DOMAIN Merged => Merged[Torn] = {}
    <3>1. Torn \in DOMAIN static => static[Torn] = {}
          BY <1>4 DEF Sound
    <3>2. Torn \in DOMAIN dynamic => dynamic[Torn] = {}
          BY <1>5 DEF Sound
    <3> QED BY <1>1, <1>3, <3>1, <3>2
  <2> QED BY <2>1, <2>2 DEF Sound
<1> QED BY <1>1, <1>2, <1>3, <1>6

\* The property follows: three calls without evidence are at most three.
LEMMA JustifiedOfSound ==
    ASSUME Stage1Assumption, graph \in A!CallGraph, MappingSound
    PROVE  MappingJustified
<1>1. PICK x, y, z : Sound(mapping, IF failed THEN {x, y, z} ELSE {})
      BY DEF MappingSound
<1>2. \A fn \in DOMAIN mapping \ {Torn} : fn # None
  <2>1. graph.sources \subseteq (SUBSET Node) \ {{}}
        BY DEF A!CallGraph
  <2> QED BY <2>1 DEF MappingSound, OfEntry, Stage1Assumption
<1>3. \A fn \in DOMAIN mapping \ {Torn} :
          mapping[fn] \subseteq (Evident(fn) \cup TornEvident(fn)) \ Marks
      BY <1>1, <1>2 DEF Sound, MappingSound
<1>4. Torn \in DOMAIN mapping => mapping[Torn] = {}
      BY <1>1 DEF Sound
<1>5. Unfounded \subseteq IF failed THEN {x, y, z} ELSE {}
  <2>1. ASSUME NEW u \in Unfounded
        PROVE  u \in IF failed THEN {x, y, z} ELSE {}
    <3>1. PICK fn \in DOMAIN mapping : u \in {fn} \X (mapping[fn] \ Evident(fn))
          BY Zenon DEF Unfounded
    <3>2. PICK sc \in mapping[fn] \ Evident(fn) : u = <<fn, sc>>
          BY <3>1
    <3> QED BY <1>1, <1>2, <1>4, <3>2 DEF Sound
  <2> QED BY <2>1
<1>6. Cardinality(Unfounded) <= IF failed THEN 3 ELSE 0
  <2>1. IsFiniteSet({}) /\ Cardinality({}) = 0
        BY FS_EmptySet
  <2>2. IsFiniteSet({z}) /\ Cardinality({z}) = 1
        BY FS_Singleton
  <2>3. IsFiniteSet({y, z}) /\ Cardinality({y, z}) \in {1, 2}
    <3>1. {z} \cup {y} = {y, z}
          OBVIOUS
    <3> QED BY <2>2, <3>1, FS_AddElement
  <2>4. IsFiniteSet({x, y, z}) /\ Cardinality({x, y, z}) \in {1, 2, 3}
    <3>1. {y, z} \cup {x} = {x, y, z}
          OBVIOUS
    <3> QED BY <2>3, <3>1, FS_AddElement
  <2>5. CASE failed
    <3>1. Unfounded \subseteq {x, y, z}
          BY <1>5, <2>5
    <3>2. Cardinality(Unfounded) \in Nat /\ Cardinality(Unfounded) <= Cardinality({x, y, z})
          BY <2>4, <3>1, FS_Subset, FS_CardinalityType
    <3> QED BY <2>4, <2>5, <3>2
  <2>6. CASE ~failed
    <3>1. Unfounded = {}
          BY <1>5, <2>6
    <3> QED BY <2>1, <2>6, <3>1
  <2> QED BY <2>5, <2>6
<1> QED BY <1>3, <1>4, <1>6 DEF MappingJustified, MappingSound, OfEntry

LEMMA InitSound ==
    ASSUME Stage1Assumption, Init
    PROVE  MappingInv
<1>1. /\ trace \in Traces /\ fileList \in [1..Cardinality(Pid) -> Pid]
      /\ file = 0 /\ line = 0 /\ inCallstack = FALSE /\ callstack = <<>> /\ scn = None
      /\ functions = T!Empty /\ children = T!Empty
  <2>1. T!Init
        BY DEF Init
  <2>2. fileList \in [1..Cardinality(Pid) -> Pid]
    <3>1. T!Cardinality(Pid) = Cardinality(Pid)
          BY DEF T!Cardinality, Cardinality
    <3> QED BY <2>1, <3>1 DEF T!Init
  <2> QED BY <2>1, <2>2, Zenon DEF T!Init
<1>2. /\ graph \in Graphs /\ cached = A!Empty /\ stack = <<>> /\ results = A!Empty
      /\ static = Empty /\ dynamic = Empty /\ mapping = Empty
      BY DEF Init, A!Init
<1>3. TraceTypes /\ ScnOpen
  <2>1. 0 \in Nat /\ <<>> \in Seq(Fn \cup {None})
        OBVIOUS
  <2> QED BY <1>1, <2>1, Zenon DEF TraceTypes, ScnOpen
<1>4. StackOpen /\ ChildrenForked /\ T!Evidence
  <2>1. \A j \in 1..0 : FALSE
        OBVIOUS
  <2> QED BY <1>1, <2>1, Zenon DEF StackOpen, ChildrenForked, T!Evidence, T!Empty
<1>5. AnalysisInv
      BY <1>2 DEF Stage1Assumption, A!AnalysisAssumption, AnalysisInv, StackSound, PathSound,
                  CacheSound, ResultsSound, A!Empty
<1>6. StaticSound /\ DynamicSound /\ MappingSound
      BY <1>2 DEF StaticSound, DynamicSound, MappingSound, Sound, Empty
<1>7. failed \in BOOLEAN
      BY DEF Init
<1> QED BY <1>3, <1>4, <1>5, <1>6, <1>7 DEF MappingInv, TraceInv

LEMMA ProcessTracesSound ==
    ASSUME Stage1Assumption, MappingInv, ProcessTraces
    PROVE  MappingInv'
<1>1. /\ T!Next /\ UNCHANGED analysisVars
      /\ static' = static /\ dynamic' = dynamic /\ mapping' = mapping /\ failed' = failed
      BY DEF ProcessTraces, outputs
<1>2. graph' = graph /\ trace' = trace
      BY <1>1 DEF analysisVars, T!Next, T!StackStarts, T!StackEnds, T!StackLine, T!CallLine,
                  T!NumberLine, T!NextFile, T!Read
<1>3. TraceInv' /\ AnalysisInv'
      BY <1>1, TraceStep, AnalysisUnchanged DEF MappingInv
<1> QED BY <1>1, <1>2, <1>3, FilesKept DEF MappingInv

LEMMA TracesEndSound ==
    ASSUME Stage1Assumption, MappingInv, TracesEnd, failed' \in {failed, TRUE}
    PROVE  /\ TraceInv' /\ AnalysisInv' /\ StaticSound' /\ MappingSound'
           /\ graph' = graph /\ trace' = trace /\ failed' \in BOOLEAN
<1>1. /\ trace' = trace /\ fileList' = fileList /\ UNCHANGED analysisVars
      /\ static' = static /\ mapping' = mapping
      /\ file' = 0 /\ line' = 0 /\ inCallstack' = FALSE /\ callstack' = <<>> /\ scn' = None
      /\ functions' = Empty /\ children' = Empty
      BY DEF TracesEnd
<1>2. graph' = graph /\ AnalysisInv'
      BY <1>1, AnalysisUnchanged DEF MappingInv, analysisVars
<1>3. StaticSound' /\ MappingSound'
      BY <1>1, <1>2, FilesKeptFailing DEF MappingInv
<1>4. TraceTypes'
  <2>1. 0 \in Nat /\ <<>> \in Seq(Fn \cup {None})
        OBVIOUS
  <2> QED BY <1>1, <2>1, Zenon DEF MappingInv, TraceInv, TraceTypes
<1>5. ScnOpen'
      BY <1>1, Zenon DEF ScnOpen
<1>6. StackOpen'
  <2>1. \A j \in 1..0 : FALSE
        OBVIOUS
  <2> QED BY <1>1, <2>1, Zenon DEF StackOpen
<1>7. ChildrenForked' /\ T!Evidence'
      BY <1>1 DEF ChildrenForked, T!Evidence, Empty
<1>8. failed' \in BOOLEAN
      BY DEF MappingInv
<1> QED BY <1>1, <1>2, <1>3, <1>4, <1>5, <1>6, <1>7, <1>8 DEF TraceInv

LEMMA DynamicPrinted ==
    ASSUME Stage1Assumption, MappingInv, PrintDynamic \/ DynamicFails
    PROVE  MappingInv'
<1>1. TracesEnd /\ failed' \in {failed, TRUE}
      BY DEF PrintDynamic, DynamicFails
<1>2. /\ TraceInv' /\ AnalysisInv' /\ StaticSound' /\ MappingSound'
      /\ graph' = graph /\ trace' = trace /\ failed' \in BOOLEAN
      BY <1>1, TracesEndSound
<1>3. Sound(functions, {})
  <2>1. ASSUME NEW fn \in DOMAIN functions \ {None}, NEW sc \in functions[fn]
        PROVE  sc \in Evident(fn) /\ sc \in Syscall
    <3>1. T!Traced(fn, sc)
          BY DEF MappingInv, TraceInv, T!Evidence
    <3>2. sc \in Syscall
          BY <3>1, TracedWords DEF MappingInv, TraceInv
    <3> QED BY <3>1, <3>2 DEF Evident
  <2>2. ASSUME Torn \in DOMAIN functions, NEW sc \in functions[Torn]
        PROVE  FALSE
    <3>1. Torn # None
          BY DEF Stage1Assumption
    <3>2. T!Traced(Torn, sc)
          BY <2>2, <3>1 DEF MappingInv, TraceInv, T!Evidence
    <3> QED BY <3>2, TracedWords DEF MappingInv, TraceInv
  <2> QED BY <2>1, <2>2 DEF Sound
<1>4. DynamicSound'
  <2>1. CASE dynamic' = functions
    <3>1. Sound(dynamic', IF failed' THEN {0} ELSE {})
          BY <1>3, <2>1, SoundWeaker
    <3> QED BY <1>2, <3>1, NextSound DEF DynamicSound
  <2>2. CASE dynamic' = Empty
        BY <2>2 DEF DynamicSound, Sound, Empty
  <2>3. CASE failed' = TRUE /\ dynamic' \in CutOff(functions,
                                   [fn \in DOMAIN functions |-> Begun(functions[fn])])
    <3> DEFINE pieces == [fn \in DOMAIN functions |-> Begun(functions[fn])]
    <3>1. \A fn \in DOMAIN functions \ {None, Torn} :
              pieces[fn] \subseteq TornEvident(fn) /\ pieces[fn] \subseteq Syscall
          BY <1>3, BegunPieces DEF MappingInv, TraceInv, AnalysisInv
    <3>2. Torn \in DOMAIN functions => pieces[Torn] = {}
          BY <1>3, BegunPieces DEF MappingInv, TraceInv, AnalysisInv
    <3>3. dynamic' \in CutOff(functions, pieces)
          BY <2>3
    <3> HIDE DEF pieces
    <3>4. \E x : Sound(dynamic', {} \cup {x})
          BY <1>3, <3>1, <3>2, <3>3, CutSound
    <3>5. PICK x : Sound(dynamic', {} \cup {x})
          BY <3>4
    <3>6. Sound(dynamic', IF failed' THEN {x} ELSE {})
          BY <2>3, <3>5, SoundWeaker
    <3> QED BY <1>2, <3>6, NextSound DEF DynamicSound
  <2> QED BY <2>1, <2>2, <2>3 DEF PrintDynamic, DynamicFails
<1> QED BY <1>2, <1>4 DEF MappingInv

LEMMA AnalyzeInterpreterSound ==
    ASSUME Stage1Assumption, MappingInv, AnalyzeInterpreter
    PROVE  MappingInv'
<1>1. /\ A!Next /\ UNCHANGED traceVars
      /\ static' = static /\ dynamic' = dynamic /\ mapping' = mapping /\ failed' = failed
      BY DEF AnalyzeInterpreter, outputs
<1>2. graph' = graph /\ trace' = trace
      BY <1>1 DEF traceVars, A!Next, A!Analyse, A!UseCached, A!Call, A!Follow, A!Return
<1>3. TraceInv' /\ AnalysisInv'
      BY <1>1, TraceUnchanged, AnalysisStep DEF MappingInv
<1> QED BY <1>1, <1>2, <1>3, FilesKept DEF MappingInv

LEMMA StaticPrinted ==
    ASSUME Stage1Assumption, MappingInv, PrintStatic \/ StaticFails
    PROVE  MappingInv'
<1>1. /\ UNCHANGED traceVars /\ graph' = graph
      /\ dynamic' = dynamic /\ mapping' = mapping
      /\ cached' = Empty /\ results' = Empty /\ stack' = <<>>
      /\ failed' \in {failed, TRUE}
      BY DEF PrintStatic, StaticFails, AnalysisEnds
<1>2. trace' = trace /\ TraceInv'
      BY <1>1, TraceUnchanged DEF MappingInv, traceVars
<1>3. StackSound'
      BY <1>1 DEF StackSound, PathSound
<1>4. CacheSound' /\ ResultsSound'
      BY <1>1 DEF CacheSound, ResultsSound, Empty
<1>5. TraceTypes /\ AnalysisInv
      BY DEF MappingInv, TraceInv
<1>6. Sound(Readable, {}) /\ \A fn \in DOMAIN Readable : OfEntry(fn) /\ fn \in Fn
      BY <1>5, ReadableSound
<1>7. StaticSound'
  <2>1. CASE static' = Readable
    <3>1. Sound(static', IF failed' THEN {0} ELSE {})
          BY <1>6, <2>1, SoundWeaker
    <3>2. \A fn \in DOMAIN static' \ {Torn} : OfEntry(fn)'
          BY <1>1, <1>2, <1>6, <2>1, EvidentKept
    <3> QED BY <1>1, <1>2, <3>1, <3>2, NextSound DEF StaticSound
  <2>2. CASE failed' = TRUE /\ static' \in CutOff(Readable,
                                   [fn \in DOMAIN Readable |-> Pieces(fn)])
    <3> DEFINE pieces == [fn \in DOMAIN Readable |-> Pieces(fn)]
    <3>1. \A fn \in DOMAIN Readable \ {None, Torn} :
              pieces[fn] \subseteq TornEvident(fn) /\ pieces[fn] \subseteq Syscall
          BY <1>5, PiecesSound
    <3>2. Torn \notin DOMAIN Readable
          BY <1>6 DEF Stage1Assumption
    <3>3. static' \in CutOff(Readable, pieces)
          BY <2>2
    <3> HIDE DEF pieces
    <3>4. /\ \A fn \in DOMAIN static' : fn = Torn \/ fn \in DOMAIN Readable
          /\ \E x : Sound(static', {} \cup {x})
      <4> DEFINE lines == Readable
      <4>1. /\ Sound(lines, {}) /\ Torn \notin DOMAIN lines
            /\ \A fn \in DOMAIN lines \ {None, Torn} :
                  pieces[fn] \subseteq TornEvident(fn) /\ pieces[fn] \subseteq Syscall
            BY <1>6, <3>1, <3>2
      <4>2. static' \in CutOff(lines, pieces)
            BY <3>3
      <4> HIDE DEF lines
      <4>3. /\ \A fn \in DOMAIN static' : fn = Torn \/ fn \in DOMAIN lines
            /\ \E x : Sound(static', {} \cup {x})
            BY <4>1, <4>2, CutSound
      <4> QED BY <4>3 DEF lines
    <3>5. PICK x : Sound(static', {} \cup {x})
          BY <3>4
    <3>6. Sound(static', IF failed' THEN {x} ELSE {})
          BY <2>2, <3>5, SoundWeaker
    <3>7. \A fn \in DOMAIN static' \ {Torn} : OfEntry(fn)'
          BY <1>1, <1>2, <1>6, <3>4, EvidentKept
    <3> QED BY <1>1, <1>2, <3>6, <3>7, NextSound DEF StaticSound
  <2> QED BY <2>1, <2>2 DEF PrintStatic, StaticFails
<1>8. DynamicSound' /\ MappingSound'
      BY <1>1, <1>2, FilesKeptFailing DEF MappingInv
<1> QED BY <1>1, <1>2, <1>3, <1>4, <1>5, <1>7, <1>8 DEF MappingInv, AnalysisInv

LEMMA MappingPrinted ==
    ASSUME Stage1Assumption, MappingInv, MergeMappings \/ MergeFails
    PROVE  MappingInv'
<1>1. /\ UNCHANGED traceVars /\ UNCHANGED analysisVars
      /\ static' = Empty /\ dynamic' = Empty /\ failed' \in {failed, TRUE}
      BY DEF MergeMappings, MergeFails
<1>2. trace' = trace /\ graph' = graph /\ TraceInv' /\ AnalysisInv'
      BY <1>1, TraceUnchanged, AnalysisUnchanged DEF MappingInv, traceVars, analysisVars
<1>3. StaticSound' /\ DynamicSound'
      BY <1>1 DEF StaticSound, DynamicSound, Sound, Empty
<1>4. PICK x, y : Sound(Merged, IF failed THEN {x, y} ELSE {})
      BY MergedSound
<1>5. \A fn \in DOMAIN Merged \ {Torn} :
          fn \notin Programs /\ OfEntry(fn) /\ Merged[fn] \cap Marks = {}
      BY MergedSound
<1>6. MappingSound'
  <2>1. CASE MergeMappings
    <3>1. mapping' = Merged /\ failed' = failed
          BY <2>1 DEF MergeMappings
    <3>2. Sound(mapping', IF failed' THEN {x, y, y} ELSE {})
          BY <1>4, <3>1, SoundWeaker
    <3>3. \A fn \in DOMAIN mapping' \ {Torn} :
              fn \notin Programs /\ OfEntry(fn)' /\ mapping'[fn] \cap Marks = {}
          BY <1>2, <1>5, <3>1, EvidentKept
    <3> QED BY <1>2, <3>2, <3>3, NextSound DEF MappingSound
  <2>2. CASE MergeFails
    <3> DEFINE pieces == [fn \in DOMAIN Merged |-> Begun(Merged[fn])]
    <3>1. failed' = TRUE /\ mapping' \in CutOff(Merged, pieces)
          BY <2>2 DEF MergeFails
    <3>2. Sound(Merged, {x, y})
          BY <1>4, SoundWeaker
    <3>3. /\ \A fn \in DOMAIN Merged \ {None, Torn} :
                 /\ pieces[fn] \subseteq TornEvident(fn)
                 /\ pieces[fn] \subseteq Syscall \ Marks
          /\ Torn \in DOMAIN Merged => pieces[Torn] = {}
          BY <3>2, BegunPieces DEF MappingInv, TraceInv, AnalysisInv
    <3> HIDE DEF pieces
    <3>4. /\ \A fn \in DOMAIN mapping' : fn = Torn \/ fn \in DOMAIN Merged
          /\ \E z : Sound(mapping', {x, y} \cup {z})
          BY <3>1, <3>2, <3>3, CutSound
    <3>5. PICK z : Sound(mapping', {x, y} \cup {z})
          BY <3>4
    <3>6. {x, y} \cup {z} = {x, y, z}
          OBVIOUS
    <3>7. \A fn \in DOMAIN mapping' \ {Torn} : fn # None /\ fn \in DOMAIN Merged
      <4>1. graph.sources \subseteq (SUBSET Node) \ {{}}
            BY DEF MappingInv, AnalysisInv, A!CallGraph
      <4>2. \A fn : OfEntry(fn) => fn # None
            BY <4>1 DEF OfEntry, Stage1Assumption
      <4> QED BY <1>5, <3>4, <4>2
    <3>8. \A fn \in DOMAIN mapping' \ {Torn} : mapping'[fn] \cap Marks = {}
      <4>1. PICK last, w : \A fn \in DOMAIN mapping' :
              \/ fn = Torn /\ mapping'[fn] = {}
              \/ /\ fn \in DOMAIN Merged
                 /\ \A sc \in mapping'[fn] : \/ sc \in Merged[fn]
                                             \/ fn = last /\ sc = w /\ sc \in pieces[fn]
            BY <3>1, CutShape
      <4> QED BY <1>5, <3>3, <3>7, <4>1
    <3>9. Sound(mapping', IF failed' THEN {x, y, z} ELSE {})
          BY <3>1, <3>5, <3>6, SoundWeaker
    <3>10. \A fn \in DOMAIN mapping' \ {Torn} :
               fn \notin Programs /\ OfEntry(fn)' /\ mapping'[fn] \cap Marks = {}
           BY <1>2, <1>5, <3>7, <3>8, EvidentKept
    <3> QED BY <1>2, <3>9, <3>10, NextSound DEF MappingSound
  <2> QED BY <2>1, <2>2
<1>7. failed' \in BOOLEAN
      BY <1>1 DEF MappingInv
<1> QED BY <1>2, <1>3, <1>6, <1>7 DEF MappingInv

LEMMA StepSound ==
    ASSUME Stage1Assumption, MappingInv, [Next]_vars
    PROVE  MappingInv'
<1>1. CASE ProcessTraces
      BY <1>1, ProcessTracesSound
<1>2. CASE PrintDynamic \/ DynamicFails
      BY <1>2, DynamicPrinted
<1>3. CASE AnalyzeInterpreter
      BY <1>3, AnalyzeInterpreterSound
<1>4. CASE PrintStatic \/ StaticFails
      BY <1>4, StaticPrinted
<1>5. CASE MergeMappings \/ MergeFails
      BY <1>5, MappingPrinted
<1>6. CASE UNCHANGED vars
  <2>1. /\ UNCHANGED traceVars /\ UNCHANGED analysisVars
        /\ static' = static /\ dynamic' = dynamic /\ mapping' = mapping /\ failed' = failed
        BY <1>6 DEF vars, outputs
  <2>2. trace' = trace /\ graph' = graph /\ TraceInv' /\ AnalysisInv'
        BY <2>1, TraceUnchanged, AnalysisUnchanged DEF MappingInv, traceVars, analysisVars
  <2> QED BY <2>1, <2>2, FilesKept DEF MappingInv
<1> QED BY <1>1, <1>2, <1>3, <1>4, <1>5, <1>6 DEF Next, Progress

\* Whatever the test suite traced, whatever the call graphs of the interpreter, in
\* whatever order functions are analysed and wherever a program fails, the mapping
\* of stage 1 allows a function no system call that neither the interpreter has
\* below it nor a trace shows under it, but for at most three that a word which a
\* program did not print to its end stands for (run_stage1.sh, lines 61-88).
THEOREM MappingAlwaysJustified == Spec => []MappingJustified
<1>1. Init => MappingInv
      BY InitSound, Stage1Assumption
<1>2. MappingInv /\ [Next]_vars => MappingInv'
      BY StepSound, Stage1Assumption
<1>3. MappingInv => MappingJustified
      BY JustifiedOfSound, Stage1Assumption DEF MappingInv, AnalysisInv
<1> QED BY <1>1, <1>2, <1>3, PTL DEF Spec

-----------------------------------------------------------------------------
(* Nothing is lost *)

\* The file of the traces, if the program that printed it did not fail, has what
\* they show, until it has been merged.
DynamicComplete ==
    (step \in {"interpreter", "merge"} /\ ~failed) =>
        \A p \in Pid : \A i, e \in Nat : \A fn \in Fn :
            T!Shown(p, i, e, fn) => fn \in DOMAIN dynamic /\ trace[p][i].name \in dynamic[fn]

\* The file of the interpreter has a line for each of its functions, and in it what dfs
\* finds where it meets no cycle.
StaticComplete ==
    (step = "merge" /\ ~failed) =>
        \A entry \in graph.sources : \A fn \in NamesOf[entry] :
            /\ fn \in DOMAIN static
            /\ \A n \in entry : A!Plain(n) /\ entry = {n} =>
                  {NameOf[nr] : nr \in AllBelow(n)} \subseteq static[fn]

CompletenessInv ==
    /\ MappingInv /\ ReadInv /\ CompleteInv
    /\ DynamicComplete /\ StaticComplete /\ MappingComplete

\* Every process has a file.
LEMMA EveryFile ==
    ASSUME Stage1Assumption, TraceTypes, OneFileEach
    PROVE  \A p \in Pid : \E k \in 1..Len(fileList) : fileList[k] = p
<1> DEFINE n == Cardinality(Pid)
<1>1. n \in Nat /\ Len(fileList) = n /\ IsFiniteSet(Pid) /\ fileList \in [1..n -> Pid]
      BY TraceOf DEF TraceTypes, Stage1Assumption, T!TracesAssumption, T!IsFiniteSet, IsFiniteSet
<1> HIDE DEF n
<1>2. fileList \in Injection(1..n, Pid)
      BY <1>1 DEF OneFileEach, Injection, IsInjective
<1>3. Cardinality(1..n) = n
  <2>1. 1 \in Int /\ n \in Int
        BY <1>1
  <2>2. Cardinality(1..n) = IF 1 > n THEN 0 ELSE n - 1 + 1
        BY <2>1, FS_Interval
  <2> QED BY <1>1, <2>2
<1>4. fileList \in Surjection(1..n, Pid)
  <2>1. Cardinality(1..n) = Cardinality(Pid)
        BY <1>3 DEF n
  <2> QED BY <1>1, <1>2, <2>1, FS_Injection
<1> QED BY <1>1, <1>4 DEF Surjection

LEMMA DynamicIsComplete ==
    ASSUME Stage1Assumption, MappingInv, ReadInv, TracesRead
    PROVE  \A p \in Pid : \A i, e \in Nat : \A fn \in Fn :
              T!Shown(p, i, e, fn) =>
                  fn \in DOMAIN functions /\ trace[p][i].name \in functions[fn]
<1>1. ASSUME NEW p \in Pid, NEW e \in Nat
      PROVE  T!Seen(p, e)
  <2>1. PICK k \in 1..Len(fileList) : fileList[k] = p
        BY EveryFile DEF MappingInv, TraceInv, ReadInv
  <2>2. k <= file
        BY <2>1 DEF TracesRead
  <2> QED BY <2>1, <2>2 DEF T!Seen
<1> QED BY <1>1 DEF ReadInv, ShownCounted

LEMMA StaticIsComplete ==
    ASSUME ResultsFull, DOMAIN results = graph.sources
    PROVE  \A entry \in graph.sources : \A fn \in NamesOf[entry] :
              /\ fn \in DOMAIN Readable
              /\ \A n \in entry : A!Plain(n) /\ entry = {n} =>
                    {NameOf[nr] : nr \in AllBelow(n)} \subseteq Readable[fn]
<1> TAKE entry \in graph.sources
<1> TAKE fn \in NamesOf[entry]
<1>1. fn \in DOMAIN Readable
      BY DEF Readable
<1>2. Readable[fn] = UNION {{NameOf[nr] : nr \in results[en]} :
                               en \in {x \in DOMAIN results : fn \in NamesOf[x]}}
      BY <1>1 DEF Readable
<1>3. {NameOf[nr] : nr \in results[entry]} \subseteq Readable[fn]
      BY <1>2
<1>4. ASSUME NEW n \in entry, A!Plain(n), entry = {n}
      PROVE  {NameOf[nr] : nr \in AllBelow(n)} \subseteq Readable[fn]
  <2>1. results[entry] = AllBelow(n)
        BY <1>4 DEF ResultsFull
  <2> QED BY <1>3, <2>1
<1> QED BY <1>1, <1>4

\* The merge keeps what either file has, but for programs and marks.
LEMMA MergedIsComplete ==
    ASSUME NEW fn \in DOMAIN static \ Programs
    PROVE  /\ fn \in DOMAIN Merged /\ static[fn] \ Marks \subseteq Merged[fn]
           /\ fn \in DOMAIN dynamic => dynamic[fn] \ Marks \subseteq Merged[fn]
<1> DEFINE map1 == ReadMapping(static)
           map2 == ReadMapping(dynamic)
<1>1. /\ fn \in DOMAIN map1 /\ map1[fn] = static[fn] \ Marks
      /\ fn \in DOMAIN dynamic => fn \in DOMAIN map2 /\ map2[fn] = dynamic[fn] \ Marks
      BY DEF ReadMapping
<1>2. Merged = [f \in DOMAIN map1 |->
                   map1[f] \cup (IF f \in DOMAIN map2 THEN map2[f] ELSE {})]
      BY DEF Merged
<1> HIDE DEF map1, map2
<1> QED BY <1>1, <1>2

LEMMA FilesCompleteKept ==
    ASSUME graph' = graph, trace' = trace, step' = step, failed' = failed,
           static' = static, dynamic' = dynamic, mapping' = mapping,
           DynamicComplete, StaticComplete, MappingComplete
    PROVE  DynamicComplete' /\ StaticComplete' /\ MappingComplete'
<1>1. DynamicComplete'
      BY ShownKept DEF DynamicComplete
<1>2. StaticComplete'
      BY FullKept DEF StaticComplete
<1>3. MappingComplete'
      BY ShownKept, FullKept DEF MappingComplete, AllBelow
<1> QED BY <1>1, <1>2, <1>3

LEMMA MappingPrintedComplete ==
    ASSUME Stage1Assumption, CompletenessInv, MergeMappings
    PROVE  MappingComplete'
<1>1. /\ UNCHANGED traceVars /\ UNCHANGED analysisVars /\ mapping' = Merged
      /\ failed' = failed /\ step = "merge"
      BY DEF MergeMappings
<1>2. trace' = trace /\ graph' = graph
      BY <1>1 DEF traceVars, analysisVars
<1> SUFFICES ASSUME ~failed, NEW entry \in graph.sources, NEW fn \in NamesOf[entry] \ Programs
             PROVE  /\ fn \in DOMAIN Merged
                    /\ \A p \in Pid : \A i, e \in 1..Len(trace[p]) :
                          T!Shown(p, i, e, fn) /\ trace[p][i].name \notin Marks
                              => trace[p][i].name \in Merged[fn]
                    /\ \A n \in entry :
                          (A!Plain(n) /\ entry = {n}) =>
                              {NameOf[nr] : nr \in AllBelow(n)} \ Marks \subseteq Merged[fn]
    BY <1>1, <1>2, ShownKept, FullKept DEF MappingComplete, AllBelow
<1>3. /\ fn \in DOMAIN static
      /\ \A n \in entry : A!Plain(n) /\ entry = {n} =>
            {NameOf[nr] : nr \in AllBelow(n)} \subseteq static[fn]
      BY <1>1 DEF CompletenessInv, StaticComplete
<1>4. /\ fn \in DOMAIN Merged /\ static[fn] \ Marks \subseteq Merged[fn]
      /\ fn \in DOMAIN dynamic => dynamic[fn] \ Marks \subseteq Merged[fn]
      BY <1>3, MergedIsComplete
<1>5. fn \in Fn
  <2>1. entry \in (SUBSET Node) \ {{}}
        BY DEF CompletenessInv, MappingInv, AnalysisInv, A!CallGraph
  <2> QED BY <2>1 DEF Stage1Assumption
<1>6. ASSUME NEW p \in Pid, NEW i \in 1..Len(trace[p]), NEW e \in 1..Len(trace[p]),
             T!Shown(p, i, e, fn), trace[p][i].name \notin Marks
      PROVE  trace[p][i].name \in Merged[fn]
  <2>1. fn \in DOMAIN dynamic /\ trace[p][i].name \in dynamic[fn]
        BY <1>1, <1>5, <1>6 DEF CompletenessInv, DynamicComplete
  <2> QED BY <1>4, <1>6, <2>1
<1>7. ASSUME NEW n \in entry, A!Plain(n), entry = {n}
      PROVE  {NameOf[nr] : nr \in AllBelow(n)} \ Marks \subseteq Merged[fn]
  <2>1. {NameOf[nr] : nr \in AllBelow(n)} \subseteq static[fn]
        BY <1>3, <1>7
  <2> QED BY <1>4, <2>1
<1> QED BY <1>4, <1>6, <1>7

LEMMA InitComplete ==
    ASSUME Stage1Assumption, Init
    PROVE  CompletenessInv
<1>1. MappingInv
      BY InitSound
<1>2. CompleteInv
  <2>1. cached = Empty /\ done = {} /\ stack = <<>> /\ results = Empty
        BY DEF Init, A!Init, A!Empty, Empty
  <2> QED BY <2>1, NothingFull
<1>3. ReadInv
  <2>1. /\ \A i, j \in DOMAIN fileList : fileList[i] = fileList[j] => i = j
        /\ file = 0 /\ line = 0 /\ inCallstack = FALSE
        BY DEF Init, T!Init
  <2>2. TraceTypes
        BY <1>1 DEF MappingInv, TraceInv
  <2>3. OneFileEach
    <3>1. DOMAIN fileList = 1..Len(fileList)
          BY <2>2, TraceOf DEF TraceTypes
    <3> QED BY <2>1, <3>1 DEF OneFileEach
  <2> QED BY <2>1, <2>2, <2>3, NothingRead
<1>4. DynamicComplete /\ StaticComplete /\ MappingComplete
      BY DEF Init, DynamicComplete, StaticComplete, MappingComplete
<1> QED BY <1>1, <1>2, <1>3, <1>4 DEF CompletenessInv

LEMMA StepComplete ==
    ASSUME Stage1Assumption, CompletenessInv, [Next]_vars
    PROVE  CompletenessInv'
<1>1. MappingInv' /\ MappingInv /\ TraceInv /\ AnalysisInv
      BY StepSound DEF CompletenessInv, MappingInv
<1>2. CASE ProcessTraces
  <2>1. /\ T!Next /\ UNCHANGED analysisVars /\ step' = step /\ failed' = failed
        /\ static' = static /\ dynamic' = dynamic /\ mapping' = mapping
        BY <1>2 DEF ProcessTraces, outputs
  <2>2. graph' = graph /\ trace' = trace
        BY <2>1 DEF analysisVars, T!Next, T!StackStarts, T!StackEnds, T!StackLine, T!CallLine,
                    T!NumberLine, T!NextFile, T!Read
  <2>3. ReadInv' /\ CompleteInv'
        BY <1>1, <2>1, ReadStep, AnalysisUnchangedFull DEF CompletenessInv
  <2> QED BY <1>1, <2>1, <2>2, <2>3, FilesCompleteKept DEF CompletenessInv
<1>3. CASE PrintDynamic \/ DynamicFails
  <2>1. /\ step = "traces" /\ step' = "interpreter" /\ trace' = trace /\ fileList' = fileList
        /\ file' = 0 /\ line' = 0 /\ inCallstack' = FALSE /\ UNCHANGED analysisVars
        BY <1>3 DEF PrintDynamic, DynamicFails, TracesEnd
  <2>2. ReadInv'
    <3>1. TraceTypes' /\ OneFileEach'
          BY <1>1, <2>1 DEF MappingInv, TraceInv, CompletenessInv, ReadInv, OneFileEach
    <3> QED BY <2>1, <3>1, NothingReadNext
  <2>3. CompleteInv'
        BY <2>1, AnalysisUnchangedFull DEF CompletenessInv
  <2>4. DynamicComplete'
    <3>1. CASE PrintDynamic
      <4>1. dynamic' = functions /\ TracesRead
            BY <3>1 DEF PrintDynamic
      <4>2. ReadInv
            BY DEF CompletenessInv
      <4> QED BY <1>1, <2>1, <4>1, <4>2, DynamicIsComplete, ShownKept DEF DynamicComplete
    <3>2. CASE DynamicFails
          BY <3>2 DEF DynamicFails, DynamicComplete
    <3> QED BY <1>3, <3>1, <3>2
  <2>5. StaticComplete' /\ MappingComplete'
        BY <2>1 DEF StaticComplete, MappingComplete
  <2> QED BY <1>1, <2>2, <2>3, <2>4, <2>5 DEF CompletenessInv
<1>4. CASE AnalyzeInterpreter
  <2>1. /\ A!Next /\ UNCHANGED traceVars /\ step' = step /\ failed' = failed
        /\ static' = static /\ dynamic' = dynamic /\ mapping' = mapping
        BY <1>4 DEF AnalyzeInterpreter, outputs
  <2>2. graph' = graph /\ trace' = trace
        BY <2>1 DEF traceVars, A!Next, A!Analyse, A!UseCached, A!Call, A!Follow, A!Return
  <2>3. ReadInv' /\ CompleteInv'
        BY <1>1, <2>1, ReadUnchanged, AnalysisStepFull DEF CompletenessInv
  <2> QED BY <1>1, <2>1, <2>2, <2>3, FilesCompleteKept DEF CompletenessInv
<1>5. CASE PrintStatic \/ StaticFails
  <2>1. AnalysisEnds
        BY <1>5 DEF PrintStatic, StaticFails
  <2>2. /\ step = "interpreter" /\ step' = "merge" /\ UNCHANGED traceVars
        /\ graph' = graph /\ dynamic' = dynamic
        /\ cached' = Empty /\ results' = Empty /\ done' = {} /\ stack' = <<>>
        BY <2>1 DEF AnalysisEnds
  <2>3. ReadInv' /\ trace' = trace
        BY <2>2, ReadUnchanged DEF CompletenessInv, traceVars
  <2>4. CompleteInv'
        BY <2>2, NothingFullNext
  <2>5. DynamicComplete' /\ StaticComplete'
    <3>1. CASE PrintStatic
      <4>1. DOMAIN results = graph.sources /\ static' = Readable /\ failed' = failed
            BY <3>1 DEF PrintStatic
      <4>2. DynamicComplete'
            BY <2>2, <2>3, <4>1, ShownKept DEF CompletenessInv, DynamicComplete
      <4>3. ResultsFull
            BY DEF CompletenessInv, CompleteInv
      <4>4. StaticComplete'
            BY <2>2, <4>1, <4>3, StaticIsComplete, FullKept DEF StaticComplete
      <4> QED BY <4>2, <4>4
    <3>2. CASE StaticFails
          BY <3>2 DEF StaticFails, DynamicComplete, StaticComplete
    <3> QED BY <1>5, <3>1, <3>2
  <2>6. MappingComplete'
        BY <2>2 DEF MappingComplete
  <2> QED BY <1>1, <2>3, <2>4, <2>5, <2>6 DEF CompletenessInv
<1>6. CASE MergeMappings \/ MergeFails
  <2>1. /\ UNCHANGED traceVars /\ UNCHANGED analysisVars
        /\ step = "merge" /\ step' = "done"
        BY <1>6 DEF MergeMappings, MergeFails
  <2>2. ReadInv' /\ CompleteInv' /\ trace' = trace /\ graph' = graph
        BY <2>1, ReadUnchanged, AnalysisUnchangedFull DEF CompletenessInv, traceVars, analysisVars
  <2>3. DynamicComplete' /\ StaticComplete'
        BY <2>1 DEF DynamicComplete, StaticComplete
  <2>4. MappingComplete'
    <3>1. CASE MergeMappings
          BY <3>1, MappingPrintedComplete
    <3>2. CASE MergeFails
          BY <3>2 DEF MergeFails, MappingComplete
    <3> QED BY <1>6, <3>1, <3>2
  <2> QED BY <1>1, <2>2, <2>3, <2>4 DEF CompletenessInv
<1>7. CASE UNCHANGED vars
  <2>1. /\ UNCHANGED traceVars /\ UNCHANGED analysisVars /\ step' = step /\ failed' = failed
        /\ static' = static /\ dynamic' = dynamic /\ mapping' = mapping
        BY <1>7 DEF vars, outputs
  <2>2. trace' = trace /\ graph' = graph /\ ReadInv' /\ CompleteInv'
        BY <2>1, ReadUnchanged, AnalysisUnchangedFull DEF CompletenessInv, traceVars, analysisVars
  <2> QED BY <1>1, <2>1, <2>2, FilesCompleteKept DEF CompletenessInv
<1> QED BY <1>2, <1>3, <1>4, <1>5, <1>6, <1>7 DEF Next, Progress

\* Whatever is traced and analysed, in whatever order and with whatever failures, what
\* stage 1 has read and found so far lacks nothing of the lines and edges behind it
\* (process-traces/main.go, lines 31-103; analyze_interpreter.py, lines 270-366).
THEOREM CompletenessInvariant == Spec => []CompletenessInv
<1>1. Init => CompletenessInv
      BY InitComplete, Stage1Assumption
<1>2. CompletenessInv /\ [Next]_vars => CompletenessInv'
      BY StepComplete, Stage1Assumption
<1> QED BY <1>1, <1>2, PTL DEF Spec

\* Where no program fails, nothing that the traces show with a whole stack, and nothing
\* that dfs finds where it meets no cycle, is missing from the mapping of a function of
\* the interpreter that runs no programs (run_stage1.sh, lines 61-88).
THEOREM MappingAlwaysComplete == Spec => []MappingComplete
<1>1. CompletenessInv => MappingComplete
      BY DEF CompletenessInv
<1> QED BY <1>1, CompletenessInvariant, PTL

\* A process that was forked once, and whose file comes after its parent's, has its
\* calls counted for the function that forked it (process-traces/main.go, lines 55-69).
THEOREM ForkedCallsAlwaysCounted == Spec => []ForkedCallsCounted
<1>1. CompletenessInv => ForkedCallsCounted
      BY DEF CompletenessInv, ReadInv, ForkedCallsCounted
<1> QED BY <1>1, CompletenessInvariant, PTL

\* In whatever order the functions are analysed and sets iterated, the cache of dfs
\* holds for a node from which no cycle can be met all the system calls below it
\* (analyze_interpreter.py, lines 270-327).
THEOREM CacheComplete == Spec => []CompleteOffCycles
<1>1. CompletenessInv => CompleteOffCycles
      BY DEF CompletenessInv, CompleteInv, CompleteOffCycles
<1> QED BY <1>1, CompletenessInvariant, PTL
=============================================================================
