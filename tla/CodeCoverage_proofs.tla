------------------------ MODULE CodeCoverage_proofs ------------------------
(***************************************************************************)
(* Proofs about coverage: that a call which is covered leaves no line of a *)
(* known function out of the report, that a mark on the way out of a       *)
(* branch stands for a step the request has made, that the lines, branches *)
(* and paths of a report agree, and that the paths of a function which     *)
(* calls no other are those its calls have followed.                       *)
(*                                                                         *)
(* Three invariants build on each other: CoverageInv, that the tables agree*)
(* with the calls in progress; HitsInv, where the calls are and what has   *)
(* been hit; LeafInv, what the calls of leaves have followed.              *)
(***************************************************************************)
EXTENDS CodeCoverage, FiniteSetTheorems, SequenceTheorems, WellFoundedInduction, TLAPS

\* A sequence, whatever it holds.
IsSeq(s) == s \in Seq({s[i] : i \in DOMAIN s})

\* The tables have their parts, whatever these hold.
IsTables(g) ==
    /\ IsSeq(g.paths) /\ IsSeq(g.last)
    /\ g = [hash |-> g.hash, startId |-> g.startId, tracker |-> g.tracker,
            classVisited |-> g.classVisited, paths |-> g.paths, last |-> g.last,
            visited |-> g.visited, wild |-> g.wild, taken |-> g.taken,
            followed |-> g.followed, whole |-> g.whole]
    /\ g.hash = [executable |-> g.hash.executable, counted |-> g.hash.counted,
                 functions |-> g.hash.functions, hit |-> g.hash.hit,
                 outs_hit |-> g.hash.outs_hit, paths_hit |-> g.hash.paths_hit]

IsFrame(frame) ==
    frame = [fn |-> frame.fn, pc |-> frame.pc, back |-> frame.back, init |-> frame.init,
             prev |-> frame.prev, known |-> frame.known, seen |-> frame.seen, trail |-> frame.trail,
             whole |-> frame.whole]

\* The lines a report of f must have.
Lines(f) == {Code[f][p].line : p \in {q \in Positions(Code[f]) : Executable(Kind(Code[f], q))}}

\* A function that counts as analysed has its lines in the table, unless the
\* filter left it out.
Analysed(g, skipped) ==
    /\ g.startId \in Nat /\ g.tracker \in [Fn -> Nat]
    /\ \A f \in Fn : /\ g.tracker[f] <= g.startId
                     /\ g.tracker[f] = g.startId /\ f \notin skipped =>
                           Lines(f) \subseteq DOMAIN g.hash.executable

\* The slots of level l can be read and hold a branch.
Holds(g, l) ==
    /\ l \in 1..Len(g.paths) /\ l \in 1..Len(g.last)
    /\ g.last[l] # Unset /\ g.last[l] # Junk

\* As long as no function has branches, no slot holds one.
NoneHeld(g) == g.hash.functions = {} => \A l \in Nat : ~Holds(g, l)

\* The call has just run a switch, whose branch is not marked.
PassedSwitch(frame) ==
    /\ frame.prev \in Starts(Code[frame.fn]) /\ Kind(Code[frame.fn], frame.prev) = "switch"
    /\ frame.pc = frame.prev + 1

\* The branch that the slot of its level holds is the last that the call has
\* entered.
Agrees(g, frame, l, skipped) ==
    Holds(g, l) =>
        /\ frame.fn \in g.hash.functions \ skipped
        /\ g.last[l] \in Starts(Code[frame.fn])
        /\ g.last[l] = frame.prev \/ PassedSwitch(frame)

Exact(g, frame, l) == Holds(g, l) => g.last[l] = frame.prev

\* No call but the one at hand can have passed a switch.
InStep(s, g, skipped, exact) ==
    \A l \in 1..Len(s) : /\ Agrees(g, s[l], l, skipped)
                         /\ l # Len(s) \/ exact => Exact(g, s[l], l)

FramesOK(s) ==
    /\ IsSeq(s)
    /\ \A l \in 1..Len(s) : IsFrame(s[l]) /\ s[l].fn \in compiled /\ s[l].known \subseteq Fn

\* UnusedReported, of the calls s and the tables g
Reported(s, g) ==
    \A l \in 1..Len(s) : s[l].whole =>
        \A f \in s[l].known \ Methods : Lines(f) \subseteq DOMAIN g.hash.executable

TablesOK(g) ==
    /\ IsTables(g) /\ Analysed(g, filtered) /\ NoneHeld(g)
    /\ on /\ ~resumed /\ g.hash.functions # {} => opts.unused
    /\ ~resumed /\ ~g.wild => g.hash.outs_hit \subseteq g.taken

\* The calls s and the tables g are in order.
InOrder(s, g, exact) ==
    /\ FramesOK(s) /\ TablesOK(g) /\ Reported(s, g)
    /\ on /\ ~resumed /\ ~g.wild => InStep(s, g, filtered, exact)

CoverageInv ==
    /\ info = [f \in Fn |-> Analysis(Code[f])]
    /\ compiled \subseteq Fn /\ filtered \subseteq compiled
    /\ InOrder(stack, xg, exception)

-----------------------------------------------------------------------------
(* Sequences *)

LEMMA SeqMade ==
    ASSUME NEW n \in Nat, NEW s, s = [i \in 1..n |-> s[i]]
    PROVE  IsSeq(s) /\ Len(s) = n /\ DOMAIN s = 1..n
<1>1. DOMAIN s = 1..n
      OBVIOUS
<1>2. s \in [1..n -> {s[i] : i \in DOMAIN s}]
      BY <1>1
<1>3. s \in Seq({s[i] : i \in DOMAIN s})
      BY <1>2, SMTT(40)
<1>4. Len(s) = n
      BY <1>2, <1>3
<1> QED BY <1>1, <1>3, <1>4 DEF IsSeq

LEMMA SeqOfAny ==
    ASSUME NEW S, NEW s \in Seq(S)
    PROVE  Len(s) \in Nat /\ DOMAIN s = 1..Len(s) /\ s = [i \in 1..Len(s) |-> s[i]]
OBVIOUS

LEMMA SeqShape ==
    ASSUME NEW s, IsSeq(s)
    PROVE  Len(s) \in Nat /\ DOMAIN s = 1..Len(s) /\ s = [i \in 1..Len(s) |-> s[i]]
<1> DEFINE S == {s[i] : i \in DOMAIN s}
<1>1. s \in Seq(S)
      BY DEF IsSeq
<1> HIDE DEF S
<1> QED BY <1>1, SeqOfAny

LEMMA SeqOver ==
    ASSUME NEW s, IsSeq(s), NEW S, \A i \in 1..Len(s) : s[i] \in S
    PROVE  s \in Seq(S)
<1>1. Len(s) \in Nat /\ DOMAIN s = 1..Len(s) /\ s = [i \in 1..Len(s) |-> s[i]]
      BY SeqShape
<1>2. s \in [1..Len(s) -> S]
      BY <1>1
<1> QED BY <1>1, <1>2

LEMMA SeqExcept ==
    ASSUME NEW s, IsSeq(s), NEW l \in 1..Len(s), NEW x, NEW t, t = [s EXCEPT ![l] = x]
    PROVE  /\ IsSeq(t) /\ Len(t) = Len(s) /\ t[l] = x
           /\ \A i \in 1..Len(s) : i # l => t[i] = s[i]
<1>1. Len(s) \in Nat /\ DOMAIN s = 1..Len(s) /\ s = [i \in 1..Len(s) |-> s[i]]
      BY SeqShape
<1>2. DOMAIN t = 1..Len(s) /\ t = [i \in 1..Len(s) |-> t[i]]
      BY <1>1
<1>3. IsSeq(t) /\ Len(t) = Len(s)
      BY <1>1, <1>2, SeqMade
<1> QED BY <1>1, <1>3

\* t is s with x behind it.
Extends(s, x, t) ==
    /\ IsSeq(t) /\ Len(t) = Len(s) + 1 /\ t[Len(s) + 1] = x
    /\ \A i \in 1..Len(s) : t[i] = s[i]

LEMMA SeqAppend ==
    ASSUME NEW s, IsSeq(s), NEW x
    PROVE  Extends(s, x, Append(s, x))
<1>0. PICK t : t = Append(s, x)
      OBVIOUS
<1> DEFINE S == {s[i] : i \in 1..Len(s)} \cup {x}
<1>1. /\ Len(s) \in Nat /\ DOMAIN s = 1..Len(s) /\ s = [i \in 1..Len(s) |-> s[i]]
      /\ x \in S /\ \A i \in 1..Len(s) : s[i] \in S
      BY SeqShape
<1> HIDE DEF S
<1>2. s \in Seq(S)
      BY <1>1, SeqOver
<1>3. t \in Seq(S) /\ Len(t) = Len(s) + 1 /\ t[Len(s) + 1] = x
      /\ \A i \in 1..Len(s) : t[i] = s[i]
      BY <1>0, <1>1, <1>2
<1>4. Len(t) \in Nat /\ DOMAIN t = 1..Len(t) /\ t = [i \in 1..Len(t) |-> t[i]]
      BY <1>3, SeqOfAny
<1>5. IsSeq(t)
      BY <1>4, SeqMade
<1> QED BY <1>0, <1>3, <1>5 DEF Extends

LEMMA SeqFront ==
    ASSUME NEW s, IsSeq(s), s # <<>>, NEW t, t = Front(s)
    PROVE  /\ IsSeq(t) /\ Len(t) = Len(s) - 1 /\ Len(t) \in Nat
           /\ \A i \in 1..Len(t) : t[i] = s[i]
<1> DEFINE S == {s[i] : i \in 1..Len(s)}
<1>1. /\ Len(s) \in Nat /\ DOMAIN s = 1..Len(s) /\ s = [i \in 1..Len(s) |-> s[i]]
      /\ \A i \in 1..Len(s) : s[i] \in S
      BY SeqShape
<1> HIDE DEF S
<1>2. s \in Seq(S)
      BY <1>1, SeqOver
<1>3. Len(s) # 0
      BY <1>2
<1>4. Len(s) - 1 \in Nat
      BY <1>1, <1>3
<1>5. t = [i \in 1..Len(s) - 1 |-> s[i]]
      BY <1>1, <1>4 DEF Front
<1>6. t = [i \in 1..Len(s) - 1 |-> t[i]]
      BY <1>5
<1>7. IsSeq(t) /\ Len(t) = Len(s) - 1
      BY <1>4, <1>6, SeqMade
<1> QED BY <1>1, <1>4, <1>5, <1>7

-----------------------------------------------------------------------------
(* Numbers *)

LEMMA LessThan ==
    \A i, j \in Nat : i < j <=> <<i, j>> \in OpToRel(<, Nat)
BY DEF OpToRel

\* Every set of numbers that is not empty has a least one.
LEMMA LeastNumber ==
    ASSUME NEW T, T \subseteq Nat, T # {}
    PROVE  \E i \in T : \A j \in T : i <= j
<1>1. PICK i \in T : \A j \in T : ~(<<j, i>> \in OpToRel(<, Nat))
  BY NatLessThanWellFounded, WFMin
<1>2. \A j \in T : ~(j < i)
  BY <1>1, LessThan
<1> QED
  BY <1>2

\* Induction up to n, over a set.
LEMMA UpTo ==
    ASSUME NEW n \in Nat, NEW S, 0 \in S, \A i \in 1..n : i - 1 \in S => i \in S
    PROVE  0..n \subseteq S
<1> DEFINE T == (0..n) \ S
<1>1. SUFFICES ASSUME T # {} PROVE FALSE
      OBVIOUS
<1>2. T \subseteq Nat
      OBVIOUS
<1>3. PICK i \in T : \A j \in T : i <= j
  <2> HIDE DEF T
  <2> QED BY <1>1, <1>2, LeastNumber
<1>4. i \in 1..n /\ i - 1 \in S
  <2>1. i # 0 /\ i \in 0..n
        BY DEF T
  <2>2. i - 1 \notin T
        BY <1>3, <2>1
  <2> QED BY <2>1, <2>2
<1> QED BY <1>4

\* g takes m steps of F from a, the i-th with F[i].
Steps(g, m, a, F) == g[0] = a /\ \A i \in 1..m : g[i] = F[i][g[i - 1]]

LEMMA StepsExist ==
    ASSUME NEW n \in Nat, NEW T, NEW a \in T, NEW F \in [1..n -> [T -> T]]
    PROVE  \E g \in [0..n -> T] : Steps(g, n, a, F)
<1> DEFINE S == {m \in 0..n : \E g \in [0..m -> T] : Steps(g, m, a, F)}
<1>1. 0 \in S
  <2> DEFINE g == [i \in 0..0 |-> a]
  <2>1. g \in [0..0 -> T] /\ Steps(g, 0, a, F)
        BY DEF Steps
  <2> HIDE DEF g
  <2> QED BY <2>1
<1>2. ASSUME NEW m \in 1..n, m - 1 \in S
      PROVE  m \in S
  <2>1. PICK g \in [0..m - 1 -> T] : Steps(g, m - 1, a, F)
        BY <1>2
  <2> DEFINE h == [i \in 0..m |-> IF i < m THEN g[i] ELSE F[m][g[m - 1]]]
  <2>2. m - 1 \in 0..m - 1 /\ g[m - 1] \in T /\ F[m] \in [T -> T]
        OBVIOUS
  <2>3. F[m][g[m - 1]] \in T
        BY <2>2
  <2>4. h \in [0..m -> T]
        BY <2>1, <2>3
  <2>5. h[0] = a /\ h[m] = F[m][h[m - 1]]
        BY <2>1 DEF Steps
  <2>6. \A i \in 1..m - 1 : h[i] = F[i][h[i - 1]]
        BY <2>1 DEF Steps
  <2> HIDE DEF h
  <2>7. Steps(h, m, a, F)
        BY <2>5, <2>6 DEF Steps
  <2> QED BY <2>4, <2>7
<1> HIDE DEF S
<1>3. 0..n \subseteq S
      BY <1>1, <1>2, UpTo
<1>4. n \in S
      BY <1>3
<1> QED BY <1>4 DEF S

-----------------------------------------------------------------------------
(* The analysis of a function *)

\* One step of the analysis from the opcodes S.
Further(code, S) == S \cup UNION {Onward(code, p) : p \in S}

Wave(code, g) ==
    g = [i \in 0..Size(code) |-> IF i = 0 THEN {0} \cup Catches(code)
                                 ELSE LET before == g[i - 1]
                                      IN  before \cup UNION {Onward(code, p) : p \in before}]

LEMMA ReachedIs == ASSUME NEW code PROVE Reached(code) = (CHOOSE g : Wave(code, g))[Size(code)]
BY DEF Reached, Wave

\* What a switch leads to.
LEMMA SwitchJumps ==
    ASSUME NEW P, NEW t \in Seq(P), t # <<>>, NEW n \in Nat, NEW q
    PROVE  LET j == FirstOf(Front(t), n) \o <<Last(t), q>>
           IN  j \in Seq(P \cup {q}) /\ j # <<>> /\ q \in ToSet(j)
<1>1. Len(t) \in Nat /\ Len(t) # 0 /\ Front(t) \in Seq(P) /\ Last(t) \in P
      BY DEF Front, Last
<1>2. PICK u : u = FirstOf(Front(t), n)
      OBVIOUS
<1>3. u \in Seq(P)
      BY <1>1, <1>2 DEF FirstOf
<1>4. PICK v : v = <<Last(t), q>>
      OBVIOUS
<1>5. v \in Seq(P \cup {q}) /\ Len(v) = 2 /\ v[2] = q
      BY <1>1, <1>4
<1>6. u \in Seq(P \cup {q})
      BY <1>3
<1>7. PICK j : j = u \o v
      OBVIOUS
<1>11. Len(u) \in Nat
       BY <1>6
<1> DEFINE S == P \cup {q}
<1>14. u \in Seq(S) /\ v \in Seq(S)
       BY <1>5, <1>6
<1> HIDE DEF S
<1>12. /\ j \in Seq(S) /\ Len(j) = Len(u) + Len(v)
       /\ \A i \in 1..Len(u) + Len(v) : j[i] = IF i <= Len(u) THEN u[i] ELSE v[i - Len(u)]
       BY <1>7, <1>14, ConcatProperties
<1>15. Len(u) + 2 \in 1..Len(u) + Len(v) /\ ~(Len(u) + 2 <= Len(u)) /\ Len(u) + 2 - Len(u) = 2
       BY <1>5, <1>11
<1>13. j[Len(u) + 2] = v[2]
       BY <1>12, <1>15
<1> USE DEF S
<1>8. j \in Seq(P \cup {q}) /\ Len(j) = Len(u) + 2 /\ j[Len(u) + 2] = q
      BY <1>5, <1>12, <1>13
<1>9. Len(u) \in Nat /\ DOMAIN j = 1..Len(u) + 2
      BY <1>5, <1>11, <1>12
<1>10. q \in ToSet(j) /\ j # <<>>
       BY <1>8, <1>9 DEF ToSet
<1> QED BY <1>2, <1>4, <1>7, <1>8, <1>10

\* Behind an opcode that is no return there is another.
LEMMA NextPosition ==
    ASSUME NEW code, WellCompiled(code), NEW p \in Positions(code), Kind(code, p) # "return"
    PROVE  p \in Nat /\ p + 1 \in Positions(code) /\ p + 1 # Exit
<1>1. /\ Size(code) \in Nat \ {0} /\ Positions(code) = 0..Size(code) - 1
      /\ Exit \notin Positions(code) /\ Kind(code, Size(code) - 1) = "return"
      BY DEF WellCompiled
<1>2. p # Size(code) - 1
      BY <1>1
<1>3. p \in Nat /\ p + 1 \in Positions(code)
      BY <1>1, <1>2
<1> QED BY <1>1, <1>3

LEMMA ShortSeqs ==
    ASSUME NEW S, NEW x \in S, NEW y \in S
    PROVE  <<x>> \in Seq(S) /\ <<x, y>> \in Seq(S)
OBVIOUS

\* The jumps of an opcode that is not a switch.
LEMMA PlainJumps ==
    ASSUME NEW code, NEW p \in Positions(code), WellFormed(code, p), Kind(code, p) # "switch"
    PROVE  Jumps(code, p) \in Seq(Positions(code) \cup {p + 1, Exit})
<1> DEFINE P == Positions(code)
           o == code[p]
<1>1. o.to \in Seq(P)
      BY DEF WellFormed
<1>2. o.op \in {"jmp", "jmpz", "catch", "fast_call"} => o.to[1] \in P
      BY <1>1 DEF WellFormed
<1>3. o.op # "switch"
      BY DEF Kind
<1> HIDE DEF P
<1>4. o.op \in {"jmp", "jmpz", "fast_call"} => Jumps(code, p) \in Seq(P \cup {p + 1, Exit})
  <2>1. /\ o.op = "jmp" => Jumps(code, p) = <<o.to[1]>>
        /\ o.op = "jmpz" => Jumps(code, p) = <<p + 1, o.to[1]>>
        /\ o.op = "fast_call" => Jumps(code, p) = <<o.to[1], p + 1>>
        BY DEF Jumps
  <2> QED BY <1>2, <2>1, ShortSeqs
<1>5. o.op = "catch" => Jumps(code, p) \in Seq(P \cup {p + 1, Exit})
  <2>1. o.op = "catch" => Jumps(code, p) \in {<<p + 1, Exit>>, <<p + 1>>, <<p + 1, o.to[1]>>}
        BY DEF Jumps
  <2> QED BY <1>2, <2>1, ShortSeqs
<1>6. o.op = "jmpznz" => Jumps(code, p) \in Seq(P \cup {p + 1, Exit})
      BY <1>1 DEF Jumps
<1>7. o.op \in {"return", "throw", "exit", "fast_ret"}
          => Jumps(code, p) \in Seq(P \cup {p + 1, Exit})
      BY DEF Jumps
<1>8. o.op \notin {"jmp", "jmpz", "fast_call", "catch", "jmpznz", "return", "throw", "exit",
                   "fast_ret"} => Jumps(code, p) \in Seq(P \cup {p + 1, Exit})
      BY <1>3 DEF Jumps
<1> QED BY <1>4, <1>5, <1>6, <1>7, <1>8 DEF P

LEMMA JumpsStay ==
    ASSUME CoverageAssumption, NEW code, WellCompiled(code), NEW p \in Positions(code)
    PROVE  ToSet(Jumps(code, p)) \ {Exit} \subseteq Positions(code)
<1> DEFINE P == Positions(code)
<1>1. WellFormed(code, p)
      BY DEF WellCompiled
<1>2. Jumps(code, p) \in Seq(P \cup {p + 1, Exit})
  <2>1. CASE Kind(code, p) = "switch"
    <3>1. code[p].to \in Seq(P) /\ code[p].to # <<>> /\ MaxOuts - 2 \in Nat
          BY <1>1, <2>1 DEF WellFormed, Kind, CoverageAssumption
    <3>2. Jumps(code, p) = FirstOf(Front(code[p].to), MaxOuts - 2) \o <<Last(code[p].to), p + 1>>
          BY <2>1 DEF Jumps, Kind
    <3> HIDE DEF P
    <3>4. FirstOf(Front(code[p].to), MaxOuts - 2) \o <<Last(code[p].to), p + 1>>
              \in Seq(P \cup {p + 1})
          BY <3>1, SwitchJumps
    <3>3. Jumps(code, p) \in Seq(P \cup {p + 1})
          BY <3>2, <3>4
    <3> QED BY <3>3
  <2>2. CASE Kind(code, p) # "switch"
        BY <1>1, <2>2, PlainJumps
  <2> QED BY <2>1, <2>2
<1>3. ASSUME NEW q \in ToSet(Jumps(code, p)), q # Exit
      PROVE  q \in P
  <2>1. q \in P \/ q = p + 1
        BY <1>2, <1>3 DEF ToSet
  <2>2. CASE Kind(code, p) = "return"
    <3>1. Jumps(code, p) = <<Exit>>
          BY <2>2 DEF Jumps, Kind
    <3> QED BY <1>3, <3>1 DEF ToSet
  <2>3. CASE Kind(code, p) # "return"
        BY <2>1, <2>3, NextPosition
  <2> QED BY <2>2, <2>3
<1> QED BY <1>3

LEMMA OnwardStays ==
    ASSUME CoverageAssumption, NEW code, WellCompiled(code), NEW p \in Positions(code)
    PROVE  Onward(code, p) \subseteq Positions(code)
BY JumpsStay DEF Onward

\* The wave of Reached exists, and stays among the opcodes.
LEMMA WaveRuns ==
    ASSUME CoverageAssumption, NEW code, WellCompiled(code)
    PROVE  \E g \in [0..Size(code) -> SUBSET Positions(code)] :
               /\ Reached(code) = g[Size(code)] /\ g[0] = {0} \cup Catches(code)
               /\ \A i \in 1..Size(code) : g[i] = Further(code, g[i - 1])
<1> DEFINE N == Size(code)
           T == SUBSET Positions(code)
           a == {0} \cup Catches(code)
           F == [i \in 1..N |-> [S \in T |-> Further(code, S)]]
<1>1. N \in Nat \ {0} /\ Positions(code) = 0..N - 1
      BY DEF WellCompiled
<1>2. a \in T
      BY <1>1 DEF Catches
<1>3. ASSUME NEW S \in T
      PROVE  Further(code, S) \in T
      BY <1>3, OnwardStays DEF Further
<1> HIDE DEF N, T, a
<1>4. F \in [1..N -> [T -> T]]
      BY <1>3
<1>13. \E g \in [0..N -> T] : Steps(g, N, a, F)
  <2> HIDE DEF F
  <2>1. N \in Nat
        BY <1>1
  <2> QED BY <2>1, <1>2, <1>4, StepsExist
<1>5. PICK g \in [0..N -> T] : g[0] = a /\ \A i \in 1..N : g[i] = F[i][g[i - 1]]
  <2> HIDE DEF F
  <2> QED BY <1>13 DEF Steps
<1>6. ASSUME NEW i \in 1..N
      PROVE  g[i] = Further(code, g[i - 1])
  <2>1. i - 1 \in 0..N
        BY <1>1
  <2>2. g[i - 1] \in T
        BY <2>1
  <2> QED BY <1>5, <2>2
<1>7. Wave(code, g)
  <2>1. g = [i \in 0..N |-> IF i = 0 THEN a ELSE Further(code, g[i - 1])]
    <3>1. ASSUME NEW i \in 0..N
          PROVE  g[i] = IF i = 0 THEN a ELSE Further(code, g[i - 1])
      <4>1. i = 0 \/ i \in 1..N
            BY <1>1
      <4> QED BY <1>5, <1>6, <4>1
    <3> QED BY <3>1
  <2> QED BY <2>1 DEF Wave, Further, N, a
<1>8. PICK h : Wave(code, h) /\ Reached(code) = h[N]
      BY <1>7, ReachedIs DEF N
<1>9. h = [i \in 0..N |-> IF i = 0 THEN a ELSE Further(code, h[i - 1])]
      BY <1>8 DEF Wave, Further, N, a
<1>10. h[0] = a /\ \A i \in 1..N : h[i] = Further(code, h[i - 1])
  <2>1. 0 \in 0..N /\ \A i \in 1..N : i \in 0..N /\ i # 0
        BY <1>1
  <2> QED BY <1>9, <2>1
<1>11. \A i \in 0..N : h[i] \in T
  <2> DEFINE S == {i \in 0..N : h[i] \in T}
  <2>1. 0 \in S
        BY <1>1, <1>2, <1>10
  <2>2. ASSUME NEW i \in 1..N, i - 1 \in S
        PROVE  i \in S
    <3>1. h[i - 1] \in T /\ i \in 0..N
          BY <2>2
    <3> QED BY <1>3, <1>10, <3>1
  <2> HIDE DEF S
  <2>3. 0..N \subseteq S
        BY <1>1, <2>1, <2>2, UpTo
  <2> QED BY <2>3 DEF S
<1>12. h \in [0..N -> T]
       BY <1>9, <1>11
<1> QED BY <1>8, <1>10, <1>12 DEF N, T, a

\* The analysis stops where nothing is added: a wave that has not stopped by
\* the last of Size(code) steps would hold more opcodes than there are.
LEMMA ReachedCloses ==
    ASSUME CoverageAssumption, NEW code, WellCompiled(code)
    PROVE  /\ {0} \cup Catches(code) \subseteq Reached(code)
           /\ Reached(code) \subseteq Positions(code)
           /\ \A p \in Reached(code) : Onward(code, p) \subseteq Reached(code)
<1> DEFINE N == Size(code)
           P == Positions(code)
<1>1. PICK g \in [0..N -> SUBSET P] :
               /\ Reached(code) = g[N] /\ g[0] = {0} \cup Catches(code)
               /\ \A i \in 1..N : g[i] = Further(code, g[i - 1])
      BY WaveRuns
<1>2. N \in Nat \ {0} /\ P = 0..N - 1
      BY DEF WellCompiled
<1> HIDE DEF N, P
<1>3. IsFiniteSet(P) /\ Cardinality(P) = N
      BY <1>2, FS_Interval
<1>4. \A i \in 0..N : g[i] \subseteq P
      BY <1>1
<1>5. \A i \in 0..N : IsFiniteSet(g[i]) /\ Cardinality(g[i]) \in Nat /\ Cardinality(g[i]) <= N
      BY <1>3, <1>4, FS_Subset, FS_CardinalityType
<1>6. ASSUME NEW i \in 1..N
      PROVE  i - 1 \in 0..N /\ i \in 0..N /\ g[i - 1] \subseteq g[i]
      BY <1>1, <1>2 DEF Further
<1> DEFINE Stopped(i) == Further(code, g[i]) = g[i]
           S == {i \in 0..N : g[0] \subseteq g[i] /\ (Stopped(i) \/ Cardinality(g[i]) > i)}
<1>7. 0 \in S
  <2>1. 0 \in 0..N /\ 0 \in g[0]
        BY <1>1, <1>2
  <2>2. Cardinality(g[0]) # 0
        BY <1>5, <2>1, FS_EmptySet
  <2> QED BY <1>5, <2>1, <2>2
<1>8. ASSUME NEW i \in 1..N, i - 1 \in S
      PROVE  i \in S
  <2>1. /\ i - 1 \in 0..N /\ i \in 0..N /\ g[i - 1] \subseteq g[i]
        /\ g[i] = Further(code, g[i - 1])
        BY <1>1, <1>6
  <2>2. CASE g[i] = g[i - 1]
        BY <1>8, <2>1, <2>2
  <2>3. CASE g[i] # g[i - 1]
    <3>1. ~Stopped(i - 1)
          BY <2>1, <2>3
    <3>2. Cardinality(g[i - 1]) > i - 1
          BY <1>8, <3>1
    <3>3. Cardinality(g[i - 1]) # Cardinality(g[i])
          BY <1>5, <2>1, <2>3, FS_Subset
    <3>4. Cardinality(g[i - 1]) <= Cardinality(g[i])
          BY <1>5, <2>1, FS_Subset
    <3>5. Cardinality(g[i]) > i
      <4>1. Cardinality(g[i - 1]) \in Nat /\ Cardinality(g[i]) \in Nat /\ i \in Nat
            BY <1>2, <1>5, <2>1
      <4> QED BY <3>2, <3>3, <3>4, <4>1
    <3> QED BY <1>8, <2>1, <3>5
  <2> QED BY <2>2, <2>3
<1> HIDE DEF S
<1>9. N \in S
  <2>1. 0..N \subseteq S
        BY <1>2, <1>7, <1>8, UpTo
  <2> QED BY <1>2, <2>1
<1>10. N \in 0..N /\ g[0] \subseteq g[N] /\ Stopped(N)
  <2>1. N \in 0..N /\ ~(Cardinality(g[N]) > N)
        BY <1>2, <1>5
  <2> QED BY <1>9, <2>1 DEF S
<1>11. \A p \in g[N] : Onward(code, p) \subseteq g[N]
       BY <1>10 DEF Further
<1> QED BY <1>1, <1>4, <1>10, <1>11 DEF P

\* A branch starts at an opcode that is reached.
LEMMA StartsReached ==
    ASSUME CoverageAssumption, NEW code, WellCompiled(code)
    PROVE  Starts(code) \subseteq Reached(code) /\ Reached(code) \subseteq Positions(code)
<1>1. /\ {0} \cup Catches(code) \subseteq Reached(code)
      /\ Reached(code) \subseteq Positions(code)
      /\ \A p \in Reached(code) : Onward(code, p) \subseteq Reached(code)
      BY ReachedCloses
<1>2. ASSUME NEW p \in Reached(code)
      PROVE  ToSet(Jumps(code, p)) \ {Exit} \subseteq Reached(code)
  <2>1. CASE Jumps(code, p) # <<>>
        BY <1>1, <2>1 DEF Onward
  <2>2. CASE Jumps(code, p) = <<>>
        BY <2>2 DEF ToSet
  <2> QED BY <2>1, <2>2
<1> QED BY <1>1, <1>2 DEF Starts

\* The entry points that are left of S when the one at p has been looked at.
Leave(code, p, S) ==
    IF p \in S /\ Kind(code, p) = "catch" THEN S \ Chained(code, code[p].to[1]) ELSE S

Leaving(code, g) ==
    g = [i \in 0..Size(code) |->
            IF i = 0 THEN {0} \cup Catches(code)
            ELSE LET S == g[i - 1]
                 IN  IF i - 1 \in S /\ Kind(code, i - 1) = "catch"
                     THEN S \ Chained(code, code[i - 1].to[1]) ELSE S]

LEMMA EntriesAre ==
    ASSUME NEW code
    PROVE  EntryPoints(code) = (CHOOSE g : Leaving(code, g))[Size(code)]
BY DEF EntryPoints, Leaving

LEMMA EntriesStart ==
    ASSUME NEW code, WellCompiled(code)
    PROVE  EntryPoints(code) \subseteq {0} \cup Catches(code)
<1> DEFINE N == Size(code)
           a == {0} \cup Catches(code)
           T == SUBSET a
           F == [i \in 1..N |-> [S \in T |-> Leave(code, i - 1, S)]]
<1>1. N \in Nat
      BY DEF WellCompiled
<1>2. a \in T /\ \A S \in T : \A p : Leave(code, p, S) \in T
      BY DEF Leave
<1> HIDE DEF N, T, a
<1>3. F \in [1..N -> [T -> T]]
      BY <1>2
<1>4. \E g \in [0..N -> T] : Steps(g, N, a, F)
  <2> HIDE DEF F
  <2> QED BY <1>1, <1>2, <1>3, StepsExist
<1>5. PICK g \in [0..N -> T] : g[0] = a /\ \A i \in 1..N : g[i] = F[i][g[i - 1]]
  <2> HIDE DEF F
  <2> QED BY <1>4 DEF Steps
<1>6. ASSUME NEW i \in 1..N
      PROVE  g[i] = Leave(code, i - 1, g[i - 1])
  <2>1. i - 1 \in 0..N
        BY <1>1
  <2>2. g[i - 1] \in T
        BY <2>1
  <2> QED BY <1>5, <2>2
<1>7. Leaving(code, g)
  <2>1. g = [i \in 0..N |-> IF i = 0 THEN a ELSE Leave(code, i - 1, g[i - 1])]
    <3>1. ASSUME NEW i \in 0..N
          PROVE  g[i] = IF i = 0 THEN a ELSE Leave(code, i - 1, g[i - 1])
      <4>1. i = 0 \/ i \in 1..N
            BY <1>1
      <4> QED BY <1>5, <1>6, <4>1
    <3> QED BY <3>1
  <2> QED BY <2>1 DEF Leaving, Leave, N, a
<1>8. PICK h : Leaving(code, h) /\ EntryPoints(code) = h[N]
      BY <1>7, EntriesAre DEF N
<1>9. h = [i \in 0..N |-> IF i = 0 THEN a ELSE Leave(code, i - 1, h[i - 1])]
      BY <1>8 DEF Leaving, Leave, N, a
<1>10. h[0] = a /\ \A i \in 1..N : h[i] = Leave(code, i - 1, h[i - 1])
  <2>1. 0 \in 0..N /\ \A i \in 1..N : i \in 0..N /\ i # 0
        BY <1>1
  <2> QED BY <1>9, <2>1
<1> DEFINE S == {i \in 0..N : h[i] \in T}
<1>11. 0 \in S
       BY <1>1, <1>2, <1>10
<1>12. ASSUME NEW i \in 1..N, i - 1 \in S
       PROVE  i \in S
  <2>1. h[i - 1] \in T /\ i \in 0..N
        BY <1>12
  <2> QED BY <1>2, <1>10, <2>1
<1> HIDE DEF S
<1>13. 0..N \subseteq S
       BY <1>1, <1>11, <1>12, UpTo
<1>14. h[N] \in T
       BY <1>1, <1>13 DEF S
<1> QED BY <1>8, <1>14 DEF T, a

-----------------------------------------------------------------------------
(* Where a call goes on *)

\* A call that is at an opcode of S goes on in S, by jumps, falls and
\* exceptions.
Confines(code, S) ==
    /\ S \subseteq Positions(code) /\ 0 \in S /\ Handlers(code) \subseteq S
    /\ \A p \in S : /\ Onward(code, p) \subseteq S
                    /\ Kind(code, p) = "switch" => ToSet(code[p].to) \subseteq S

LEMMA PositionsConfine ==
    ASSUME CoverageAssumption, NEW code, WellCompiled(code)
    PROVE  Confines(code, Positions(code))
<1>1. Size(code) \in Nat \ {0} /\ Positions(code) = 0..Size(code) - 1
      /\ \A p \in Positions(code) : WellFormed(code, p)
      BY DEF WellCompiled
<1>2. \A p \in Positions(code) : code[p].to \in Seq(Positions(code))
      BY <1>1 DEF WellFormed
<1>3. \A p \in Positions(code) : ToSet(code[p].to) \subseteq Positions(code)
      BY <1>2 DEF ToSet
<1>4. ASSUME NEW p \in Positions(code), Kind(code, p) = "fast_call"
      PROVE  code[p].to[1] \in Positions(code)
      BY <1>1, <1>2, <1>4 DEF WellFormed, Kind
<1>5. Handlers(code) \subseteq Positions(code)
      BY <1>4 DEF Handlers, Catches, Finallys
<1>6. 0 \in Positions(code)
      BY <1>1
<1> QED BY <1>3, <1>5, <1>6, OnwardStays DEF Confines

\* If every finally block is reached, a call stays among what is.
LEMMA ReachedConfines ==
    ASSUME CoverageAssumption, NEW code, WellCompiled(code),
           Finallys(code) \subseteq Reached(code)
    PROVE  Confines(code, Reached(code))
<1>1. /\ {0} \cup Catches(code) \subseteq Reached(code)
      /\ Reached(code) \subseteq Positions(code)
      /\ \A p \in Reached(code) : Onward(code, p) \subseteq Reached(code)
      BY ReachedCloses
<1>2. \A p \in Reached(code) : Kind(code, p) = "switch" => ToSet(code[p].to) \subseteq Reached(code)
      BY <1>1 DEF WellCompiled, WellFormed, Kind
<1> QED BY <1>1, <1>2 DEF Confines, Handlers

LEMMA ShortSets ==
    ASSUME NEW x, NEW y
    PROVE  /\ ToSet(<<x>>) = {x} /\ <<x>> # <<>>
           /\ ToSet(<<x, y>>) = {x, y} /\ <<x, y>> # <<>>
<1>1. PICK s : s = <<x>>
      OBVIOUS
<1>2. PICK t : t = <<x, y>>
      OBVIOUS
<1>3. s \in Seq({x, y}) /\ Len(s) = 1 /\ s[1] = x /\ t \in Seq({x, y}) /\ Len(t) = 2
      /\ t[1] = x /\ t[2] = y
      BY <1>1, <1>2
<1>4. DOMAIN s = {1} /\ DOMAIN t = {1, 2}
      BY <1>3
<1>5. ToSet(s) = {x} /\ ToSet(t) = {x, y} /\ s # <<>> /\ t # <<>>
      BY <1>3, <1>4 DEF ToSet
<1> QED BY <1>1, <1>2, <1>5

LEMMA OnwardIs ==
    ASSUME NEW code, NEW p, NEW j, j = Jumps(code, p), j # <<>>, NEW q \in ToSet(j), q # Exit
    PROVE  q \in Onward(code, p)
BY DEF Onward

\* Where the engine goes from an opcode, the analysis goes as well.
LEMMA OnwardLeads ==
    ASSUME CoverageAssumption, NEW code, WellCompiled(code), NEW p \in Positions(code)
    PROVE  /\ Kind(code, p) \in {"jmp", "jmpz", "jmpznz", "fast_call"} => code[p].to[1] \in Onward(code, p)
           /\ Kind(code, p) = "jmpznz" => code[p].to[2] \in Onward(code, p)
           /\ Kind(code, p) = "catch" /\ ~code[p].last => code[p].to[1] \in Onward(code, p)
           /\ Kind(code, p) \notin {"jmp", "jmpznz", "return", "return_by_ref", "throw", "exit",
                                    "fast_ret"} => p + 1 \in Onward(code, p)
<1> DEFINE P == Positions(code)
           o == code[p]
           J == Jumps(code, p)
<1>1. WellFormed(code, p) /\ Exit \notin P
      BY DEF WellCompiled
<1>2. /\ o.to \in Seq(P)
      /\ o.op \in {"jmp", "jmpz", "catch", "fast_call"} => o.to[1] \in P
      /\ o.op = "jmpznz" => o.to[1] \in P /\ o.to[2] \in P /\ 1 \in DOMAIN o.to /\ 2 \in DOMAIN o.to
      BY <1>1 DEF WellFormed
<1>3. o.op # "return" => p + 1 \in P /\ p + 1 # Exit
      BY NextPosition DEF Kind
<1> HIDE DEF P
<1>4. ASSUME o.op = "jmp"
      PROVE  o.to[1] \in Onward(code, p)
  <2>1. J = <<o.to[1]>>
        BY <1>4 DEF Jumps
  <2> QED BY <1>1, <1>2, <1>4, <2>1, ShortSets, OnwardIs
<1>5. ASSUME o.op = "jmpz"
      PROVE  o.to[1] \in Onward(code, p) /\ p + 1 \in Onward(code, p)
  <2>1. J = <<p + 1, o.to[1]>>
        BY <1>5 DEF Jumps
  <2>3. \A x, y : ToSet(<<x, y>>) = {x, y} /\ <<x, y>> # <<>>
        BY ShortSets
  <2>2. ToSet(J) = {p + 1, o.to[1]} /\ J # <<>>
        BY <2>1, <2>3
  <2> QED BY <1>1, <1>2, <1>3, <1>5, <2>2, OnwardIs
<1>6. ASSUME o.op = "fast_call"
      PROVE  o.to[1] \in Onward(code, p) /\ p + 1 \in Onward(code, p)
  <2>1. J = <<o.to[1], p + 1>>
        BY <1>6 DEF Jumps
  <2>3. \A x, y : ToSet(<<x, y>>) = {x, y} /\ <<x, y>> # <<>>
        BY ShortSets
  <2>2. ToSet(J) = {p + 1, o.to[1]} /\ J # <<>>
        BY <2>1, <2>3
  <2> QED BY <1>1, <1>2, <1>3, <1>6, <2>2, OnwardIs
<1>7. ASSUME o.op = "jmpznz"
      PROVE  o.to[1] \in Onward(code, p) /\ o.to[2] \in Onward(code, p)
  <2>1. J = o.to
        BY <1>7 DEF Jumps
  <2>2. o.to[1] \in ToSet(J) /\ o.to[2] \in ToSet(J) /\ J # <<>>
        BY <1>2, <1>7, <2>1 DEF ToSet
  <2> QED BY <1>1, <1>2, <1>7, <2>2, OnwardIs
<1>8. ASSUME o.op = "catch"
      PROVE  p + 1 \in Onward(code, p) /\ (~o.last => o.to[1] \in Onward(code, p))
  <2>1. CASE o.last
    <3>1. J = <<p + 1, Exit>>
          BY <1>8, <2>1 DEF Jumps
    <3>2. ToSet(J) = {p + 1, Exit} /\ J # <<>>
          BY <3>1, ShortSets
    <3> QED BY <1>3, <1>8, <2>1, <3>2, OnwardIs
  <2>2. CASE ~o.last /\ o.to[1] = p + 1
    <3>1. J = <<p + 1>>
          BY <1>8, <2>2 DEF Jumps
    <3>3. \A x : ToSet(<<x>>) = {x} /\ <<x>> # <<>>
          BY ShortSets
    <3>2. ToSet(J) = {p + 1} /\ J # <<>>
          BY <3>1, <3>3
    <3> QED BY <1>3, <1>8, <2>2, <3>2, OnwardIs
  <2>3. CASE ~o.last /\ o.to[1] # p + 1
    <3>1. J = <<p + 1, o.to[1]>>
          BY <1>8, <2>3 DEF Jumps
    <3>2. ToSet(J) = {p + 1, o.to[1]} /\ J # <<>>
          BY <3>1, ShortSets
    <3> QED BY <1>1, <1>2, <1>3, <1>8, <3>2, OnwardIs
  <2> QED BY <2>1, <2>2, <2>3
<1>9. ASSUME o.op = "switch"
      PROVE  p + 1 \in Onward(code, p)
  <2>1. J = FirstOf(Front(o.to), MaxOuts - 2) \o <<Last(o.to), p + 1>>
        BY <1>9 DEF Jumps
  <2>2. o.to # <<>> /\ MaxOuts - 2 \in Nat
        BY <1>1, <1>9 DEF WellFormed, CoverageAssumption
  <2>3. p + 1 \in ToSet(FirstOf(Front(o.to), MaxOuts - 2) \o <<Last(o.to), p + 1>>)
        /\ FirstOf(Front(o.to), MaxOuts - 2) \o <<Last(o.to), p + 1>> # <<>>
        BY <1>2, <2>2, SwitchJumps
  <2>4. p + 1 \in ToSet(J) /\ J # <<>>
        BY <2>1, <2>3
  <2> QED BY <1>3, <1>9, <2>4, OnwardIs
<1>10. ASSUME o.op \notin {"jmp", "jmpz", "jmpznz", "catch", "fast_call", "switch", "return", "throw",
                           "exit", "fast_ret", "return_by_ref"}
       PROVE  p + 1 \in Onward(code, p)
  <2>1. J = <<>>
        BY <1>10 DEF Jumps
  <2>2. Kind(code, p) # "return_by_ref"
        BY <1>10 DEF Kind
  <2> QED BY <1>3, <1>10, <2>1, <2>2 DEF Onward, P
<1> QED BY <1>4, <1>5, <1>6, <1>7, <1>8, <1>9, <1>10 DEF Kind

\* The call frame is at an opcode of S, and so is what it has noted.
Within(frame, S) ==
    frame.pc \in S /\ \A b \in DOMAIN frame.back : frame.back[b] \in S \cup {Rethrow}

LEMMA NextWithin ==
    ASSUME CoverageAssumption, NEW frame, WellCompiled(Code[frame.fn]), NEW S,
           Confines(Code[frame.fn], S), Within(frame, S)
    PROVE  /\ Next_(frame) \subseteq S
           /\ \A b \in DOMAIN BackAfter(frame) : BackAfter(frame)[b] \in S \cup {Rethrow}
<1> DEFINE code == Code[frame.fn]
           p == frame.pc
           o == code[p]
<1>1. /\ p \in S /\ p \in Positions(code) /\ Onward(code, p) \subseteq S
      /\ o.op = "switch" => ToSet(o.to) \subseteq S
      BY DEF Confines, Within, Kind
<1>2. /\ o.op \in {"jmp", "jmpz", "jmpznz", "fast_call"} => o.to[1] \in S
      /\ o.op = "jmpznz" => o.to[2] \in S
      /\ o.op = "catch" /\ ~o.last => o.to[1] \in S
      /\ o.op \notin {"jmp", "jmpznz", "return", "return_by_ref", "throw", "exit", "fast_ret"}
             => p + 1 \in S
      BY <1>1, OnwardLeads DEF Kind
<1>3. Backs(frame) \ {Rethrow} \subseteq S
      BY DEF Within, Backs
<1>4. ASSUME NEW q \in Next_(frame)
      PROVE  q \in S
      BY <1>1, <1>2, <1>3 DEF Next_
<1>5. ASSUME NEW b \in DOMAIN BackAfter(frame)
      PROVE  BackAfter(frame)[b] \in S \cup {Rethrow}
  <2>1. CASE o.op # "fast_call"
        BY <2>1 DEF BackAfter, Within, Kind
  <2>2. CASE o.op = "fast_call"
    <3>1. BackAfter(frame) = Noting(frame.back, o.to[1], p + 1) /\ p + 1 \in S
          BY <1>2, <2>2 DEF BackAfter, Kind
    <3> QED BY <3>1 DEF Noting, Within
  <2> QED BY <2>1, <2>2
<1> QED BY <1>4, <1>5

-----------------------------------------------------------------------------
(* Filling the tables in advance *)

\* h has come from g: nothing but the clean-up takes lines or functions out.
Grown(g, h) ==
    /\ IsTables(h) /\ h.startId = g.startId /\ (g.wild => h.wild)
    /\ DOMAIN g.hash.executable \subseteq DOMAIN h.hash.executable
    /\ g.hash.functions \subseteq h.hash.functions

SameMarks(g, h) == h.hash.outs_hit = g.hash.outs_hit /\ h.taken = g.taken

LEMMA PrefillLinesDomain ==
    ASSUME NEW executable, NEW fs, NEW dead
    PROVE  DOMAIN PrefillLines(executable, fs, dead) =
               DOMAIN executable \cup UNION {Lines(f) : f \in fs}
<1> DEFINE ops == UNION {{<<h, p>> : p \in {q \in Positions(Code[h]) :
                                              Executable(Kind(Code[h], q))}} : h \in fs}
           lines == {Code[fp[1]][fp[2]].line : fp \in ops}
<1>1. DOMAIN PrefillLines(executable, fs, dead) = DOMAIN executable \cup lines
      BY DEF PrefillLines
<1>2. ASSUME NEW fp \in ops
      PROVE  Code[fp[1]][fp[2]].line \in UNION {Lines(f) : f \in fs}
  <2>1. PICK h \in fs : fp \in {<<h, p>> : p \in {q \in Positions(Code[h]) :
                                              Executable(Kind(Code[h], q))}}
        OBVIOUS
  <2>2. PICK p \in {q \in Positions(Code[h]) : Executable(Kind(Code[h], q))} : fp = <<h, p>>
        BY <2>1
  <2>3. Code[fp[1]][fp[2]].line \in Lines(h)
        BY <2>2 DEF Lines
  <2> QED BY <2>3
<1>3. ASSUME NEW f \in fs, NEW x \in Lines(f)
      PROVE  x \in lines
  <2>1. PICK p \in {q \in Positions(Code[f]) : Executable(Kind(Code[f], q))} :
               x = Code[f][p].line
        BY DEF Lines
  <2>2. <<f, p>> \in ops
        OBVIOUS
  <2> DEFINE fp == <<f, p>>
  <2>3. fp \in ops /\ x = Code[fp[1]][fp[2]].line
        BY <2>1, <2>2
  <2> HIDE DEF ops, fp
  <2> QED BY <2>3
<1> HIDE DEF ops
<1>4. lines = UNION {Lines(f) : f \in fs}
      BY <1>2, <1>3
<1> QED BY <1>1, <1>4

\* h is g when the functions due have been analysed.
Prefilled(g, h, due, skipped) ==
    /\ Grown(g, h) /\ SameMarks(g, h) /\ Analysed(h, skipped)
    /\ h.wild = g.wild /\ h.paths = g.paths /\ h.last = g.last
    /\ \A f \in due : h.tracker[f] = h.startId
    /\ \A f \in Fn : g.tracker[f] = g.startId => h.tracker[f] = h.startId

LEMMA PrefillFromFills ==
    ASSUME NEW g, IsTables(g), NEW due \in SUBSET Fn, NEW skipped, Analysed(g, skipped)
    PROVE  Prefilled(g, PrefillFrom(g, due, skipped), due, skipped)
<1>0. PICK h : h = PrefillFrom(g, due, skipped)
      OBVIOUS
<1> DEFINE e == PrefillLines(g.hash.executable, due \ skipped, opts.dead)
           t == [f \in Fn |-> IF f \in due THEN g.startId ELSE g.tracker[f]]
<1>1. /\ IsTables(h) /\ h.startId = g.startId /\ h.wild = g.wild /\ h.paths = g.paths
      /\ h.last = g.last /\ SameMarks(g, h)
      /\ h.tracker = t /\ h.hash.executable = e
      /\ h.hash.functions = IF opts.dead /\ opts.branch
                            THEN g.hash.functions \cup (due \ skipped) ELSE g.hash.functions
      BY <1>0 DEF IsTables, PrefillFrom, SameMarks
<1>2. DOMAIN e = DOMAIN g.hash.executable \cup UNION {Lines(f) : f \in due \ skipped}
      BY PrefillLinesDomain
<1> HIDE DEF e
<1>3. Grown(g, h)
      BY <1>1, <1>2 DEF Grown
<1>4. h.tracker \in [Fn -> Nat] /\ \A f \in Fn : h.tracker[f] <= h.startId
      BY <1>1 DEF Analysed
<1>5. ASSUME NEW f \in Fn, h.tracker[f] = h.startId, f \notin skipped
      PROVE  Lines(f) \subseteq DOMAIN h.hash.executable
  <2>1. CASE f \in due
        BY <1>1, <1>2, <1>5, <2>1
  <2>2. CASE f \notin due
    <3>1. g.tracker[f] = g.startId
          BY <1>1, <1>5, <2>2
    <3> QED BY <1>1, <1>2, <1>5, <3>1 DEF Analysed
  <2> QED BY <2>1, <2>2
<1>6. Analysed(h, skipped)
      BY <1>1, <1>4, <1>5 DEF Analysed
<1> QED BY <1>0, <1>1, <1>3, <1>6 DEF Prefilled

LEMMA PrefillFills ==
    ASSUME NEW g, IsTables(g), NEW known \in SUBSET Fn, NEW f \in Fn, NEW skipped,
           Analysed(g, skipped)
    PROVE  Prefilled(g, Prefill(g, known, f, skipped),
                     (known \ ({Main} \cup Methods)) \cup {f}, skipped)
<1>8. PICK h : h = Prefill(g, known, f, skipped)
      OBVIOUS
<1> DEFINE table == known \ ({Main} \cup (IF g.classVisited THEN Methods ELSE {}))
           due == {e \in table \cup {f} : g.tracker[e] < g.startId}
<1>1. due \in SUBSET Fn
      OBVIOUS
<1>0. PICK k : k = PrefillFrom(g, due, skipped)
      OBVIOUS
<1>2. h = [k EXCEPT !.classVisited = k.classVisited \/ known \cap Methods # {}]
      BY <1>0, <1>8 DEF Prefill
<1>3. \A e \in (known \ ({Main} \cup Methods)) \cup {f} :
          e \in Fn /\ (e \in due \/ ~(g.tracker[e] < g.startId))
      OBVIOUS
<1> HIDE DEF due, table
<1>4. /\ Grown(g, k) /\ SameMarks(g, k) /\ Analysed(k, skipped)
      /\ k.wild = g.wild /\ k.paths = g.paths /\ k.last = g.last
      /\ \A e \in due : k.tracker[e] = k.startId
      /\ \A e \in Fn : g.tracker[e] = g.startId => k.tracker[e] = k.startId
      BY <1>0, <1>1, PrefillFromFills, ZenonT(100) DEF Prefilled
<1>5. /\ IsTables(h) /\ h.startId = k.startId /\ h.wild = k.wild /\ h.paths = k.paths
      /\ h.last = k.last /\ h.tracker = k.tracker /\ h.hash = k.hash /\ h.taken = k.taken
      BY <1>2, <1>4 DEF Grown, IsTables
<1>6. Grown(g, h) /\ SameMarks(g, h) /\ Analysed(h, skipped)
      BY <1>4, <1>5 DEF Grown, SameMarks, Analysed
<1>7. ASSUME NEW e \in (known \ ({Main} \cup Methods)) \cup {f}
      PROVE  h.tracker[e] = h.startId
  <2>1. CASE e \in due
        BY <1>4, <1>5, <2>1
  <2>2. CASE e \notin due
    <3>1. e \in Fn /\ ~(g.tracker[e] < g.startId)
          BY <1>3, <2>2
    <3>2. g.tracker[e] = g.startId
          BY <3>1 DEF Analysed
    <3> QED BY <1>4, <1>5, <3>1, <3>2
  <2> QED BY <2>1, <2>2
<1> QED BY <1>4, <1>5, <1>6, <1>7, <1>8 DEF Prefilled

-----------------------------------------------------------------------------
(* The slots of the levels *)

\* Outside the levels L, a slot holds in h what it held in g, or nothing.
KeepsSlots(g, h, L) ==
    \A l \in Nat \ L : Holds(h, l) => Holds(g, l) /\ h.last[l] = g.last[l]

LEMMA MakeSureMakes ==
    ASSUME CoverageAssumption, NEW g, IsTables(g), NEW l \in Nat \ {0},
           NEW h, h = MakeSureLevelExists(g, l)
    PROVE  /\ IsTables(h) /\ h.hash = g.hash /\ h.startId = g.startId /\ h.tracker = g.tracker
           /\ h.wild = g.wild /\ h.taken = g.taken
           /\ l \in 1..Len(h.paths) /\ KeepsSlots(g, h, {})
<1>1. /\ Len(g.paths) \in Nat /\ DOMAIN g.paths = 1..Len(g.paths)
      /\ Len(g.last) \in Nat /\ DOMAIN g.last = 1..Len(g.last)
      BY SeqShape DEF IsTables
<1>2. CASE l <= Len(g.paths)
      BY <1>1, <1>2 DEF MakeSureLevelExists, KeepsSlots
<1>3. CASE ~(l <= Len(g.paths))
  <2> DEFINE n == l + Chunk - 1
             paths == [i \in 1..n |-> IF i <= Len(g.paths) THEN g.paths[i] ELSE NullPath]
             last == [i \in 1..Len(g.last) |-> IF i > Len(g.paths) THEN Unset ELSE g.last[i]]
  <2>1. n \in Nat /\ l <= n
        BY DEF CoverageAssumption
  <2>2. h = [g EXCEPT !.paths = paths, !.last = last]
        BY <1>3 DEF MakeSureLevelExists
  <2>3. paths = [i \in 1..n |-> paths[i]] /\ last = [i \in 1..Len(g.last) |-> last[i]]
        OBVIOUS
  <2>4. /\ \A i \in 1..n : i <= Len(g.paths) => paths[i] = g.paths[i]
        /\ \A i \in 1..Len(g.last) : last[i] = IF i > Len(g.paths) THEN Unset ELSE g.last[i]
        OBVIOUS
  <2> HIDE DEF n, paths, last
  <2>5. IsSeq(paths) /\ Len(paths) = n /\ IsSeq(last) /\ Len(last) = Len(g.last)
        BY <1>1, <2>1, <2>3, SeqMade
  <2>6. /\ h.hash = g.hash /\ h.startId = g.startId /\ h.tracker = g.tracker
        /\ h.wild = g.wild /\ h.taken = g.taken /\ h.paths = paths /\ h.last = last
        BY <2>2 DEF IsTables
  <2>7. IsTables(h)
        BY <2>2, <2>5 DEF IsTables
  <2>8. ASSUME NEW i \in Nat, Holds(h, i)
        PROVE  Holds(g, i) /\ h.last[i] = g.last[i]
        BY <1>1, <2>4, <2>5, <2>6, <2>8 DEF Holds
  <2> QED BY <2>1, <2>5, <2>6, <2>7, <2>8 DEF KeepsSlots
<1> QED BY <1>2, <1>3

\* h is g but for its paths, its last branches and what has been hit.
Marked(g, h) ==
    /\ Grown(g, h) /\ h.tracker = g.tracker /\ h.taken = g.taken
    /\ h.hash.executable = g.hash.executable /\ h.hash.functions = g.hash.functions

LEMMA MarkedAnalysed ==
    ASSUME NEW g, NEW h, NEW skipped, Marked(g, h), Analysed(g, skipped)
    PROVE  Analysed(h, skipped)
BY DEF Marked, Grown, Analysed

LEMMA StartStarts ==
    ASSUME CoverageAssumption, compiled \subseteq Fn, NEW g, IsTables(g), NEW f \in Fn,
           NEW l \in Nat \ {0}, Analysed(g, filtered), NEW r, r = StartOfFunction(g, f, l)
    PROVE  /\ Grown(g, r) /\ SameMarks(g, r) /\ Analysed(r, filtered) /\ r.wild = g.wild
           /\ KeepsSlots(g, r, {}) /\ ~Holds(r, l)
           /\ \A e \in (compiled \ ({Main} \cup Methods)) \cup {f} : r.tracker[e] = r.startId
<1>1. PICK k : k = Prefill(g, compiled, f, filtered)
      OBVIOUS
<1>2. PICK h : h = MakeSureLevelExists(k, l)
      OBVIOUS
<1> DEFINE n == IF l > Len(h.last) THEN l + Chunk - 1 ELSE Len(h.last)
           last == [i \in 1..n |-> IF i = l THEN Unset
                                   ELSE IF i <= Len(h.last) THEN h.last[i] ELSE Junk]
           paths == [h.paths EXCEPT ![l] = NewPath]
<1>3. r = [h EXCEPT !.paths = paths, !.last = last]
      BY <1>1, <1>2 DEF StartOfFunction
<1>4. /\ Grown(g, k) /\ SameMarks(g, k) /\ Analysed(k, filtered)
      /\ k.wild = g.wild /\ k.paths = g.paths /\ k.last = g.last
      /\ \A e \in (compiled \ ({Main} \cup Methods)) \cup {f} : k.tracker[e] = k.startId
  <2>1. Prefilled(g, k, (compiled \ ({Main} \cup Methods)) \cup {f}, filtered)
        BY <1>1, PrefillFills
  <2> QED BY <2>1 DEF Prefilled
<1>5. /\ IsTables(h) /\ h.hash = k.hash /\ h.startId = k.startId /\ h.tracker = k.tracker
      /\ h.wild = k.wild /\ h.taken = k.taken
      /\ l \in 1..Len(h.paths) /\ KeepsSlots(k, h, {})
      BY <1>2, <1>4, MakeSureMakes, SMTT(40) DEF Grown
<1>6. /\ IsSeq(h.paths) /\ IsSeq(h.last) /\ Len(h.paths) \in Nat /\ Len(h.last) \in Nat
      BY <1>5, SeqShape DEF IsTables
<1>7. n \in Nat /\ Len(h.last) <= n
      BY <1>6 DEF CoverageAssumption
<1>8. last = [i \in 1..n |-> last[i]]
      OBVIOUS
<1>9. \A i \in 1..n : last[i] = IF i = l THEN Unset
                                ELSE IF i <= Len(h.last) THEN h.last[i] ELSE Junk
      OBVIOUS
<1>10. IsSeq(paths) /\ Len(paths) = Len(h.paths)
       BY <1>5, <1>6, SeqExcept
<1> HIDE DEF n, last, paths
<1>11. IsSeq(last) /\ Len(last) = n
       BY <1>7, <1>8, SeqMade
<1>12. /\ IsTables(r) /\ r.hash = h.hash /\ r.startId = h.startId /\ r.tracker = h.tracker
       /\ r.wild = h.wild /\ r.taken = h.taken /\ r.paths = paths /\ r.last = last
       BY <1>3, <1>5, <1>10, <1>11 DEF IsTables
<1>13. ASSUME NEW i \in Nat, Holds(r, i)
       PROVE  i # l /\ Holds(h, i) /\ r.last[i] = h.last[i]
       BY <1>6, <1>7, <1>9, <1>10, <1>11, <1>12, <1>13 DEF Holds
<1>14. KeepsSlots(g, r, {}) /\ ~Holds(r, l)
  <2>1. \A i \in Nat : Holds(h, i) => Holds(g, i) /\ h.last[i] = g.last[i]
        BY <1>4, <1>5 DEF KeepsSlots, Holds
  <2> QED BY <1>13, <2>1 DEF KeepsSlots
<1>15. Grown(g, r) /\ SameMarks(g, r) /\ Analysed(r, filtered) /\ r.wild = g.wild
       BY <1>4, <1>5, <1>12 DEF Grown, SameMarks, Analysed
<1> QED BY <1>4, <1>5, <1>12, <1>14, <1>15

LEMMA EndEnds ==
    ASSUME CoverageAssumption, NEW g, IsTables(g), NEW f, NEW l \in Nat \ {0},
           NEW r, r = EndOfFunction(g, f, l)
    PROVE  Marked(g, r) /\ SameMarks(g, r) /\ KeepsSlots(g, r, {})
<1>1. PICK h : h = MakeSureLevelExists(g, l)
      OBVIOUS
<1>2. /\ IsTables(h) /\ h.hash = g.hash /\ h.startId = g.startId /\ h.tracker = g.tracker
      /\ h.wild = g.wild /\ h.taken = g.taken
      /\ l \in 1..Len(h.paths) /\ KeepsSlots(g, h, {})
      BY <1>1, MakeSureMakes
<1>3. CASE r = h
      BY <1>2, <1>3 DEF Marked, Grown, SameMarks
<1>4. CASE r # h
  <2> DEFINE path == h.paths[l]
  <2>1. PICK k : k = PathHit(h, f, path.elements)
        OBVIOUS
  <2>2. r = [k EXCEPT !.paths[l].state = "freed", !.wild = @ \/ path.state = "freed"]
        BY <1>1, <1>4, <2>1 DEF EndOfFunction
  <2>3. /\ IsTables(k) /\ k.startId = h.startId /\ k.tracker = h.tracker /\ k.wild = h.wild
        /\ k.taken = h.taken /\ k.paths = h.paths /\ k.last = h.last
        /\ k.hash.executable = h.hash.executable /\ k.hash.functions = h.hash.functions
        /\ k.hash.outs_hit = h.hash.outs_hit
        BY <1>2, <2>1 DEF PathHit, IsTables
  <2> DEFINE slot == [k.paths[l] EXCEPT !.state = "freed"]
             paths == [k.paths EXCEPT ![l] = slot]
  <2>4. IsSeq(paths) /\ Len(paths) = Len(k.paths)
    <3>1. IsSeq(k.paths) /\ l \in 1..Len(k.paths)
          BY <1>2, <2>3 DEF IsTables
    <3> HIDE DEF slot
    <3> QED BY <3>1, SeqExcept
  <2>5. r = [k EXCEPT !.paths = paths, !.wild = k.wild \/ path.state = "freed"]
        BY <2>2, <2>3 DEF IsTables
  <2> HIDE DEF paths
  <2>6. /\ IsTables(r) /\ r.hash = k.hash /\ r.startId = k.startId /\ r.tracker = k.tracker
        /\ r.taken = k.taken /\ r.paths = paths /\ r.last = k.last /\ (k.wild => r.wild)
        BY <2>3, <2>4, <2>5, ZenonT(60) DEF IsTables
  <2>7. KeepsSlots(g, r, {})
        BY <1>2, <2>3, <2>4, <2>6 DEF KeepsSlots, Holds
  <2> QED BY <1>2, <2>3, <2>6, <2>7 DEF Marked, Grown, SameMarks
<1> QED BY <1>3, <1>4

\* g and h agree on lines and functions.
SameFills(g, h) ==
    /\ h.hash.executable = g.hash.executable /\ h.hash.counted = g.hash.counted
    /\ h.hash.functions = g.hash.functions

\* The marking at level l, of p behind prev, adds to the path in the slot.
AddsTo(g, l, p, prev) ==
    <<p, prev, functionCount>> \notin g.visited /\ g.paths[l].state # "null"

\* h is g when the start p of a branch of f has been marked at level l, behind
\* prev.
MarkedAs(g, h, f, l, p, prev) ==
    /\ IsTables(h) /\ h.startId = g.startId /\ h.tracker = g.tracker /\ h.taken = g.taken
    /\ SameFills(g, h) /\ h.followed = g.followed /\ h.whole = g.whole
    /\ h.hash.hit = g.hash.hit \cup {<<f, p>>} /\ h.hash.paths_hit = g.hash.paths_hit
    /\ h.hash.outs_hit =
          IF prev \in Positions(Code[f]) /\ p \in ToSet(info[f].branches[prev].outs)
          THEN g.hash.outs_hit \cup {<<f, prev, p>>} ELSE g.hash.outs_hit
    /\ h.visited = g.visited \cup {<<p, prev, functionCount>>}
    /\ Len(h.paths) = Len(g.paths) /\ Len(h.last) = Len(g.last)
    /\ \A i \in 1..Len(g.paths) : i # l => h.paths[i] = g.paths[i]
    /\ \A i \in 1..Len(g.last) : i # l => h.last[i] = g.last[i]
    /\ l \in 1..Len(g.last) => h.last[l] = p
    /\ l \in 1..Len(g.paths) =>
          h.paths[l] = IF AddsTo(g, l, p, prev)
                       THEN [g.paths[l] EXCEPT !.elements = Append(g.paths[l].elements, p)]
                       ELSE g.paths[l]
    /\ ~h.wild => /\ ~g.wild /\ l \in 1..Len(g.paths) /\ l \in 1..Len(g.last)
                  /\ g.last[l] # Junk /\ prev \in {Unset} \cup Positions(Code[f])
                  /\ AddsTo(g, l, p, prev) => g.paths[l].state # "freed"

LEMMA MarkStartIs ==
    ASSUME NEW g, IsTables(g), NEW f, NEW l \in Nat \ {0}, NEW p, NEW prev,
           NEW r, r = MarkStart(g, f, l, p, prev)
    PROVE  MarkedAs(g, r, f, l, p, prev)
<1> DEFINE key  == <<p, prev, functionCount>>
           path == IF l <= Len(g.paths) THEN g.paths[l] ELSE [NullPath EXCEPT !.state = "freed"]
           adds == key \notin g.visited /\ path.state # "null"
           junk == l > Len(g.last) \/ l > Len(g.paths)
           slot == [g.paths[l] EXCEPT !.elements = Append(g.paths[l].elements, p)]
           paths == IF adds /\ l <= Len(g.paths) THEN [g.paths EXCEPT ![l] = slot] ELSE g.paths
           last == IF l <= Len(g.last) THEN [g.last EXCEPT ![l] = p] ELSE g.last
           outs == IF prev \in Positions(Code[f]) /\ p \in ToSet(info[f].branches[prev].outs)
                   THEN g.hash.outs_hit \cup {<<f, prev, p>>} ELSE g.hash.outs_hit
           wild == g.wild \/ junk \/ g.last[l] = Junk \/ (adds /\ path.state = "freed")
                        \/ prev \notin {Unset} \cup Positions(Code[f])
<1>1. /\ IsSeq(g.paths) /\ IsSeq(g.last) /\ Len(g.paths) \in Nat /\ Len(g.last) \in Nat
      /\ DOMAIN g.paths = 1..Len(g.paths) /\ DOMAIN g.last = 1..Len(g.last)
      BY SeqShape DEF IsTables
<1>2. r = [g EXCEPT
             !.hash = [g.hash EXCEPT !.hit = g.hash.hit \cup {<<f, p>>}, !.outs_hit = outs],
             !.visited = g.visited \cup {key},
             !.paths = IF adds /\ l <= Len(g.paths)
                       THEN PathAdd(g.paths, l, p) ELSE g.paths,
             !.last = last, !.wild = wild]
  <2>1. r = [g EXCEPT
                !.hash.hit = @ \cup {<<f, p>>},
                !.hash.outs_hit =
                    IF prev \in Positions(Code[f]) /\ p \in ToSet(info[f].branches[prev].outs)
                    THEN @ \cup {<<f, prev, p>>} ELSE @,
                !.visited = @ \cup {key},
                !.paths = IF adds /\ l <= Len(@) THEN PathAdd(@, l, p) ELSE @,
                !.last = IF l <= Len(@) THEN [@ EXCEPT ![l] = p] ELSE @,
                !.wild = @ \/ junk \/ g.last[l] = Junk \/ (adds /\ path.state = "freed")
                            \/ prev \notin {Unset} \cup Positions(Code[f])]
        BY DEF MarkStart
  <2> DEFINE c == prev \in Positions(Code[f]) /\ p \in ToSet(info[f].branches[prev].outs)
             w == junk \/ g.last[l] = Junk \/ (adds /\ path.state = "freed")
                            \/ prev \notin {Unset} \cup Positions(Code[f])
  <2>2. /\ outs = (IF c THEN g.hash.outs_hit \cup {<<f, prev, p>>} ELSE g.hash.outs_hit)
        /\ wild = (g.wild \/ w)
        OBVIOUS
  <2>3. r = [g EXCEPT
                !.hash.hit = @ \cup {<<f, p>>},
                !.hash.outs_hit = IF c THEN @ \cup {<<f, prev, p>>} ELSE @,
                !.visited = @ \cup {key},
                !.paths = IF adds /\ l <= Len(@) THEN PathAdd(@, l, p) ELSE @,
                !.last = IF l <= Len(@) THEN [@ EXCEPT ![l] = p] ELSE @,
                !.wild = @ \/ w]
        BY <2>1
  <2> HIDE DEF c, w, outs, wild, key, adds
  <2>4. r.hash = [g.hash EXCEPT !.hit = g.hash.hit \cup {<<f, p>>}, !.outs_hit = outs]
        BY <2>2, <2>3 DEF IsTables
  <2>5. r.visited = g.visited \cup {key} /\ r.last = last
        BY <2>2, <2>3 DEF IsTables
  <2>6. r.paths = IF adds /\ l <= Len(g.paths)
                  THEN PathAdd(g.paths, l, p) ELSE g.paths
        BY <2>2, <2>3 DEF IsTables
  <2>7. r.wild = wild
        BY <2>2, <2>3 DEF IsTables
  <2> QED BY <2>3, <2>4, <2>5, <2>6, <2>7, ZenonT(60) DEF IsTables
<1>3. (IF adds /\ l <= Len(g.paths)
       THEN PathAdd(g.paths, l, p) ELSE g.paths) = paths
      BY <1>1 DEF PathAdd
<1>4. /\ IsSeq(paths) /\ Len(paths) = Len(g.paths)
      /\ l \in 1..Len(g.paths) => paths[l] = IF adds THEN slot ELSE g.paths[l]
      /\ \A i \in 1..Len(g.paths) : i # l => paths[i] = g.paths[i]
  <2> HIDE DEF slot, adds
  <2>1. CASE adds /\ l <= Len(g.paths)
    <3>1. l \in 1..Len(g.paths)
          BY <1>1, <2>1
    <3> QED BY <1>1, <2>1, <3>1, SeqExcept
  <2>2. CASE ~(adds /\ l <= Len(g.paths))
        BY <1>1, <2>2
  <2> QED BY <2>1, <2>2
<1>5. /\ IsSeq(last) /\ Len(last) = Len(g.last)
      /\ l \in 1..Len(g.last) => last[l] = p
      /\ \A i \in 1..Len(g.last) : i # l => last[i] = g.last[i]
  <2>1. CASE l <= Len(g.last)
    <3>1. l \in 1..Len(g.last)
          BY <1>1, <2>1
    <3> QED BY <1>1, <2>1, <3>1, SeqExcept, SMTT(60)
  <2>2. CASE ~(l <= Len(g.last))
        BY <1>1, <2>2
  <2> QED BY <2>1, <2>2
<1>9. l \in 1..Len(g.paths) => adds = AddsTo(g, l, p, prev)
      BY <1>1 DEF AddsTo
<1>6. ~wild => /\ ~g.wild /\ l \in 1..Len(g.paths) /\ l \in 1..Len(g.last) /\ g.last[l] # Junk
               /\ prev \in {Unset} \cup Positions(Code[f])
               /\ ~(adds /\ g.paths[l].state = "freed")
      BY <1>1
<1>7. r = [g EXCEPT
             !.hash = [g.hash EXCEPT !.hit = g.hash.hit \cup {<<f, p>>}, !.outs_hit = outs],
             !.visited = g.visited \cup {key}, !.paths = paths, !.last = last, !.wild = wild]
      BY <1>2, <1>3
<1> HIDE DEF key, adds, paths, last, wild, outs, slot
<1>8. /\ IsTables(r) /\ r.hash.outs_hit = outs /\ r.paths = paths /\ r.last = last
      /\ r.wild = wild /\ r.startId = g.startId /\ r.tracker = g.tracker /\ r.taken = g.taken
      /\ r.visited = g.visited \cup {key} /\ r.followed = g.followed /\ r.whole = g.whole
      /\ SameFills(g, r) /\ r.hash.hit = g.hash.hit \cup {<<f, p>>}
      /\ r.hash.paths_hit = g.hash.paths_hit
  <2>1. /\ r.paths = paths /\ r.last = last
        /\ r.wild = wild /\ r.startId = g.startId /\ r.tracker = g.tracker /\ r.taken = g.taken
        /\ r.visited = g.visited \cup {key} /\ r.followed = g.followed /\ r.whole = g.whole
        BY <1>7 DEF IsTables
  <2>2. r.hash = [g.hash EXCEPT !.hit = g.hash.hit \cup {<<f, p>>}, !.outs_hit = outs]
        BY <1>7 DEF IsTables
  <2>3. /\ r.hash.outs_hit = outs /\ SameFills(g, r) /\ r.hash.hit = g.hash.hit \cup {<<f, p>>}
        /\ r.hash.paths_hit = g.hash.paths_hit
        BY <2>2 DEF IsTables, SameFills
  <2>4. IsTables(r)
        BY <1>4, <1>5, <1>7, ZenonT(60) DEF IsTables
  <2> QED BY <2>1, <2>3, <2>4
<1>10. l \in 1..Len(g.paths) =>
          r.paths[l] = IF AddsTo(g, l, p, prev)
                       THEN [g.paths[l] EXCEPT !.elements = Append(g.paths[l].elements, p)]
                       ELSE g.paths[l]
       BY <1>4, <1>8, <1>9 DEF slot
<1>11. ~r.wild => /\ ~g.wild /\ l \in 1..Len(g.paths) /\ l \in 1..Len(g.last)
                  /\ g.last[l] # Junk /\ prev \in {Unset} \cup Positions(Code[f])
                  /\ AddsTo(g, l, p, prev) => g.paths[l].state # "freed"
       BY <1>6, <1>8, <1>9
<1> QED BY <1>4, <1>5, <1>8, <1>10, <1>11 DEF MarkedAs, outs, key

\* h is g when the start p of a branch has been marked at level l, behind prev.
StartMarked(g, h, f, l, p, prev) ==
    /\ Marked(g, h) /\ KeepsSlots(g, h, {l})
    /\ Holds(h, l) => h.last[l] = p
    /\ ~h.wild => l \in 1..Len(g.paths) /\ l \in 1..Len(g.last) /\ g.last[l] # Junk
    /\ \/ h.hash.outs_hit = g.hash.outs_hit
       \/ /\ prev \in Positions(Code[f]) /\ p \in ToSet(info[f].branches[prev].outs)
          /\ h.hash.outs_hit = g.hash.outs_hit \cup {<<f, prev, p>>}

LEMMA MarkStartMarks ==
    ASSUME NEW g, IsTables(g), NEW f, NEW l \in Nat \ {0}, NEW p, NEW prev
    PROVE  StartMarked(g, MarkStart(g, f, l, p, prev), f, l, p, prev)
<1>1. PICK h : h = MarkStart(g, f, l, p, prev)
      OBVIOUS
<1>2. MarkedAs(g, h, f, l, p, prev)
      BY <1>1, MarkStartIs
<1>3. Marked(g, h)
      BY <1>2 DEF MarkedAs, SameFills, Marked, Grown
<1>4. KeepsSlots(g, h, {l}) /\ (Holds(h, l) => h.last[l] = p)
      BY <1>2 DEF MarkedAs, KeepsSlots, Holds
<1>5. ~h.wild => l \in 1..Len(g.paths) /\ l \in 1..Len(g.last) /\ g.last[l] # Junk
      BY <1>2 DEF MarkedAs
<1>6. \/ h.hash.outs_hit = g.hash.outs_hit
      \/ /\ prev \in Positions(Code[f]) /\ p \in ToSet(info[f].branches[prev].outs)
         /\ h.hash.outs_hit = g.hash.outs_hit \cup {<<f, prev, p>>}
      BY <1>2 DEF MarkedAs
<1> QED BY <1>1, <1>3, <1>4, <1>5, <1>6 DEF StartMarked

LEMMA InfoIs ==
    ASSUME info = [f \in Fn |-> Analysis(Code[f])], NEW f \in Fn
    PROVE  info[f].starts = Starts(Code[f]) /\ info[f].branches = Branches(Code[f])
BY DEF Analysis

LEMMA PositionsNat ==
    ASSUME CoverageAssumption, NEW f \in Fn
    PROVE  Positions(Code[f]) \subseteq Nat /\ Starts(Code[f]) \subseteq Nat
<1>1. /\ Size(Code[f]) \in Nat \ {0} /\ Positions(Code[f]) = 0..Size(Code[f]) - 1
      BY DEF CoverageAssumption, WellCompiled
<1>2. Starts(Code[f]) \subseteq Positions(Code[f])
      BY StartsReached DEF CoverageAssumption
<1> QED BY <1>1, <1>2

\* Behind a switch a branch begins.
LEMMA SwitchBegins ==
    ASSUME CoverageAssumption, NEW frame, frame.fn \in Fn, PassedSwitch(frame)
    PROVE  frame.pc \in Starts(Code[frame.fn])
BY DEF CoverageAssumption, WellCompiled, SwitchAlone, PassedSwitch

\* Only the branch that a switch begins leads behind it.
LEMMA SwitchLeads ==
    ASSUME CoverageAssumption, NEW frame, frame.fn \in Fn, PassedSwitch(frame),
           NEW b \in Starts(Code[frame.fn]),
           frame.pc \in ToSet(Branches(Code[frame.fn])[b].outs)
    PROVE  b = frame.prev
<1> DEFINE S == Starts(Code[frame.fn])
<1>1. frame.prev \in S /\ S \subseteq Nat
      BY PositionsNat DEF PassedSwitch
<1>2. b <= frame.prev /\ \A c \in S : c <= b \/ c > frame.prev
      BY <1>1 DEF CoverageAssumption, WellCompiled, SwitchAlone, PassedSwitch
<1>3. frame.prev <= b \/ frame.prev > frame.prev
      BY <1>1, <1>2
<1>4. b \in Nat /\ frame.prev \in Nat
      BY <1>1
<1> HIDE DEF S
<1> QED BY <1>2, <1>3, <1>4

\* h is g when the opcode p of frame, a call of f, has been reached at level l.
ReachedMarked(g, h, frame, f, l, p) ==
    /\ Grown(g, h) /\ Analysed(h, filtered) /\ KeepsSlots(g, h, {l})
    /\ h.taken = g.taken
    /\ h # g => f \in g.hash.functions
    /\ Agrees(g, frame, l, filtered) /\ Holds(h, l) =>
          /\ f \in h.hash.functions \ filtered /\ h.last[l] \in Starts(Code[f])
          /\ h.last[l] = Entered(frame, p).prev
    /\ Agrees(g, frame, l, filtered) /\ ~h.wild =>
          \/ h.hash.outs_hit = g.hash.outs_hit
          \/ /\ ~Restarts(frame, p) /\ p \in info[f].starts /\ frame.prev # Unset
             /\ h.hash.outs_hit = g.hash.outs_hit \cup {<<f, frame.prev, p>>}

LEMMA MarkReachedMarks ==
    ASSUME CoverageAssumption, info = [f \in Fn |-> Analysis(Code[f])], compiled \subseteq Fn,
           NEW g, IsTables(g), Analysed(g, filtered), NEW l \in Nat \ {0},
           NEW frame, IsFrame(frame), NEW f \in Fn, f = frame.fn, NEW p, p = frame.pc,
           f \notin filtered, NEW h \in MarkReached(g, f, l, p)
    PROVE  ReachedMarked(g, h, frame, f, l, p)
<1>1. info[f].starts = Starts(Code[f]) /\ info[f].branches = Branches(Code[f])
      BY InfoIs
<1>2. Entered(frame, p).prev = IF p \in info[f].starts THEN p ELSE frame.prev
      BY DEF Entered, IsFrame
<1>3. CASE f \notin g.hash.functions
  <2>1. h = g
        BY <1>3 DEF MarkReached
  <2>2. Agrees(g, frame, l, filtered) => ~Holds(g, l)
        BY <1>3 DEF Agrees
  <2> QED BY <2>1, <2>2 DEF Grown, KeepsSlots, ReachedMarked
<1>4. CASE f \in g.hash.functions
  <2>1. PICK m : m = IF p # 0 /\ p \in info[f].entries
                     THEN StartOfFunction(EndOfFunction(g, f, l), f, l) ELSE g
        OBVIOUS
  <2>2. /\ Grown(g, m) /\ SameMarks(g, m) /\ Analysed(m, filtered) /\ KeepsSlots(g, m, {})
        /\ Restarts(frame, p) => ~Holds(m, l)
    <3>1. CASE Restarts(frame, p)
      <4>1. PICK e : e = EndOfFunction(g, f, l)
            OBVIOUS
      <4>2. Marked(g, e) /\ SameMarks(g, e) /\ KeepsSlots(g, e, {})
            BY <4>1, EndEnds
      <4>3. IsTables(e) /\ Analysed(e, filtered)
            BY <4>2, MarkedAnalysed DEF Marked, Grown
      <4>4. m = StartOfFunction(e, f, l)
            BY <2>1, <3>1, <4>1 DEF Restarts
      <4>5. /\ Grown(e, m) /\ SameMarks(e, m) /\ Analysed(m, filtered)
            /\ KeepsSlots(e, m, {}) /\ ~Holds(m, l)
            BY <4>3, <4>4, StartStarts
      <4> QED BY <4>2, <4>5 DEF Marked, Grown, SameMarks, KeepsSlots
    <3>2. CASE ~Restarts(frame, p)
      <4>1. m = g
            BY <2>1, <3>2 DEF Restarts
      <4> QED BY <3>2, <4>1 DEF Grown, SameMarks, KeepsSlots
    <3> QED BY <3>1, <3>2
  <2>3. CASE p \notin info[f].starts
    <3>1. h = m
          BY <1>4, <2>1, <2>3 DEF MarkReached
    <3>2. ~PassedSwitch(frame)
          BY <1>1, <2>3, SwitchBegins
    <3>3. Agrees(g, frame, l, filtered) /\ Holds(h, l) =>
              /\ f \in h.hash.functions \ filtered
              /\ h.last[l] \in Starts(Code[f]) /\ h.last[l] = frame.prev
          BY <2>2, <3>1, <3>2 DEF Agrees, KeepsSlots, Grown
    <3> QED BY <1>2, <1>4, <2>2, <2>3, <3>1, <3>3 DEF ReachedMarked, Grown, SameMarks, KeepsSlots
  <2>4. CASE p \in info[f].starts
    <3>1. PICK prev \in LastBranches(m, f, l, p) : h = MarkStart(m, f, l, p, prev)
          BY <1>4, <2>1, <2>4 DEF MarkReached
    <3>2. StartMarked(m, h, f, l, p, prev)
          BY <2>2, <3>1, MarkStartMarks DEF Grown
    <3>3. Analysed(h, filtered) /\ Grown(g, h) /\ h.taken = g.taken
          BY <2>2, <3>2, MarkedAnalysed DEF StartMarked, Marked, Grown, SameMarks
    <3>4. KeepsSlots(g, h, {l})
          BY <2>2, <3>2 DEF StartMarked, KeepsSlots
    <3>5. ASSUME Agrees(g, frame, l, filtered), ~h.wild, h.hash.outs_hit # m.hash.outs_hit
          PROVE  prev = frame.prev /\ prev # Unset /\ ~Restarts(frame, p)
      <4>1. prev = m.last[l]
            BY <3>1, <3>2, <3>5 DEF StartMarked, LastBranches
      <4>2. prev # Unset
        <5>1. prev \in Positions(Code[f])
              BY <3>2, <3>5 DEF StartMarked
        <5>2. prev \in Nat
              BY <5>1, PositionsNat
        <5> QED BY <5>2 DEF Unset
      <4>3. Holds(m, l)
            BY <3>2, <3>5, <4>1, <4>2 DEF StartMarked, Holds
      <4>4. ~Restarts(frame, p) /\ Holds(g, l) /\ g.last[l] = prev
            BY <2>2, <4>1, <4>3 DEF KeepsSlots
      <4>5. prev \in Starts(Code[f]) /\ (prev = frame.prev \/ PassedSwitch(frame))
            BY <3>5, <4>4 DEF Agrees
      <4>6. PassedSwitch(frame) => prev = frame.prev
            BY <1>1, <3>2, <3>5, <4>5, SwitchLeads DEF StartMarked
      <4> QED BY <4>2, <4>4, <4>5, <4>6
    <3>6. Holds(h, l) => /\ f \in h.hash.functions \ filtered
                         /\ h.last[l] \in Starts(Code[f]) /\ h.last[l] = p
          BY <1>1, <1>4, <2>4, <3>2, <3>3 DEF StartMarked, Grown
    <3>7. Agrees(g, frame, l, filtered) /\ ~h.wild =>
                \/ h.hash.outs_hit = g.hash.outs_hit
                \/ /\ ~Restarts(frame, p) /\ p \in info[f].starts /\ frame.prev # Unset
                   /\ h.hash.outs_hit = g.hash.outs_hit \cup {<<f, frame.prev, p>>}
          BY <2>2, <2>4, <3>2, <3>5 DEF StartMarked, SameMarks
    <3> QED BY <1>2, <1>4, <2>4, <3>3, <3>4, <3>6, <3>7 DEF ReachedMarked
  <2> QED BY <2>3, <2>4
<1> QED BY <1>3, <1>4

-----------------------------------------------------------------------------
(* An opcode is handled *)

\* h is g but for lines and history.
Noted(g, h) ==
    /\ IsTables(h) /\ h.startId = g.startId /\ h.tracker = g.tracker /\ h.wild = g.wild
    /\ h.paths = g.paths /\ h.last = g.last /\ h.hash.functions = g.hash.functions
    /\ h.hash.outs_hit = g.hash.outs_hit /\ g.taken \subseteq h.taken
    /\ DOMAIN g.hash.executable \subseteq DOMAIN h.hash.executable

LEMMA NotedKeeps ==
    ASSUME NEW g, NEW h, Noted(g, h), NEW skipped, Analysed(g, skipped)
    PROVE  /\ Grown(g, h) /\ Analysed(h, skipped) /\ KeepsSlots(g, h, {})
           /\ \A l : Holds(h, l) <=> Holds(g, l)
           /\ \A frame, l : Agrees(g, frame, l, skipped) => Agrees(h, frame, l, skipped)
           /\ \A frame, l : Exact(g, frame, l) => Exact(h, frame, l)
BY DEF Noted, Grown, Analysed, KeepsSlots, Holds, Agrees, Exact

LEMMA NotedGrows ==
    ASSUME NEW g, NEW m, Grown(g, m), SameMarks(g, m), NEW skipped, Analysed(m, skipped),
           NEW h, Noted(m, h), h.taken = m.taken
    PROVE  Grown(g, h) /\ SameMarks(g, h) /\ Analysed(h, skipped)
BY DEF Noted, Grown, SameMarks, Analysed

LEMMA CountedNoted ==
    ASSUME NEW g, IsTables(g), NEW line,
           NEW h, h = Counted(g, line)
    PROVE  Noted(g, h) /\ h.taken = g.taken
<1> DEFINE executable == CountLine(g.hash.executable, line)
<1>1. DOMAIN g.hash.executable \subseteq DOMAIN executable
      BY DEF CountLine
<1> HIDE DEF executable
<1>2. h = [g EXCEPT !.hash = [g.hash EXCEPT !.counted = g.hash.counted \cup {line},
                                            !.executable = executable]]
      BY DEF IsTables, executable, Counted
<1>3. h.hash = [g.hash EXCEPT !.counted = g.hash.counted \cup {line},
                              !.executable = executable]
      BY <1>2 DEF IsTables
<1>4. /\ h.startId = g.startId /\ h.tracker = g.tracker /\ h.wild = g.wild
      /\ h.paths = g.paths /\ h.last = g.last /\ h.taken = g.taken
      BY <1>2 DEF IsTables
<1>5. IsTables(h) /\ h.hash.executable = executable
      /\ h.hash.functions = g.hash.functions /\ h.hash.outs_hit = g.hash.outs_hit
      BY <1>2, <1>3 DEF IsTables
<1> QED BY <1>1, <1>4, <1>5 DEF Noted

LEMMA CallNoted ==
    ASSUME NEW g, IsTables(g), NEW slot, NEW h, h = CountCall(g, slot)
    PROVE  Noted(g, h) /\ h.taken = g.taken
<1>1. CASE h = g
      BY <1>1 DEF Noted
<1>2. CASE h # g
      BY <1>2, CountedNoted DEF CountCall
<1> QED BY <1>1, <1>2

LEMMA FollowedNoted ==
    ASSUME NEW g, IsTables(g), NEW frame
    PROVE  Noted(g, Followed(g, frame))
<1>1. PICK h : h = Followed(g, frame)
      OBVIOUS
<1> DEFINE done == {<<frame.fn, frame.trail>>}
           whole == IF frame.whole /\ frame.fn \in g.hash.functions
                    THEN g.whole \cup done ELSE g.whole
<1>2. h = [g EXCEPT !.followed = g.followed \cup done, !.whole = whole]
      BY <1>1 DEF Followed, IsTables
<1> HIDE DEF done, whole
<1>3. Noted(g, h)
      BY <1>2 DEF IsTables, Noted
<1> QED BY <1>1, <1>3

LEMMA WithTakenNoted ==
    ASSUME NEW g, IsTables(g), NEW frame, NEW p
    PROVE  /\ Noted(g, WithTaken(g, frame, p))
           /\ ~Restarts(frame, p) /\ p \in info[frame.fn].starts /\ frame.prev # Unset
              => <<frame.fn, frame.prev, p>> \in WithTaken(g, frame, p).taken
<1>1. PICK h : h = WithTaken(g, frame, p)
      OBVIOUS
<1>2. CASE Restarts(frame, p)
      BY <1>1, <1>2, FollowedNoted DEF WithTaken
<1>3. CASE ~Restarts(frame, p) /\ p \in info[frame.fn].starts /\ frame.prev # Unset
  <2>1. h = [g EXCEPT !.taken = @ \cup {<<frame.fn, frame.prev, p>>}]
        BY <1>1, <1>3 DEF WithTaken
  <2>2. Noted(g, h) /\ <<frame.fn, frame.prev, p>> \in h.taken
        BY <2>1 DEF IsTables, Noted
  <2> QED BY <1>1, <2>2
<1>4. CASE ~Restarts(frame, p) /\ ~(p \in info[frame.fn].starts /\ frame.prev # Unset)
  <2>1. h = g
        BY <1>1, <1>4 DEF WithTaken
  <2>2. Noted(g, h)
        BY <2>1 DEF Noted
  <2> QED BY <1>1, <1>4, <2>2
<1> QED BY <1>2, <1>3, <1>4

LEMMA EnteredFrame ==
    ASSUME NEW frame, IsFrame(frame), NEW p
    PROVE  LET e == Entered(frame, p)
           IN  /\ IsFrame(e) /\ e.fn = frame.fn /\ e.pc = frame.pc /\ e.known = frame.known
               /\ e.whole = frame.whole
               /\ e.prev = IF p \in info[frame.fn].starts THEN p ELSE frame.prev
BY DEF IsFrame, Entered

\* frame and h are the call at hand and the tables when its opcode has been
\* handled.
OpcodeDone(frame, h) ==
    /\ IsFrame(frame) /\ frame.fn = Top.fn /\ frame.pc = Top.pc
    /\ frame.known = Top.known /\ frame.whole = Top.whole
    /\ frame.prev = IF Top.pc \in Starts(Code[Top.fn]) THEN Top.pc ELSE Top.prev
    /\ Grown(xg, h) /\ Analysed(h, filtered) /\ NoneHeld(h)
    /\ xg.hash.functions = {} => h.hash.functions = {}
    /\ ~resumed /\ ~h.wild => h.hash.outs_hit \subseteq h.taken
    /\ on /\ ~resumed /\ ~h.wild =>
          /\ \A l \in 1..level : l # level => /\ Agrees(h, stack[l], l, filtered)
                                              /\ Exact(h, stack[l], l)
          /\ Holds(h, level) =>
                /\ Top.fn \in h.hash.functions \ filtered
                /\ h.last[level] \in Starts(Code[Top.fn])
                /\ \/ h.last[level] = frame.prev
                   \/ /\ frame.prev = Top.pc /\ Top.pc \in Starts(Code[Top.fn])
                      /\ Kind(Code[Top.fn], Top.pc) = "switch"

LEMMA TopIs ==
    ASSUME CoverageInv, stack # <<>>
    PROVE  /\ level \in Nat \ {0} /\ level \in 1..level /\ Top = stack[level]
           /\ IsFrame(Top) /\ Top.fn \in compiled /\ Top.fn \in Fn /\ Top.known \subseteq Fn
<1>1. level \in Nat /\ DOMAIN stack = 1..level /\ stack = [i \in 1..level |-> stack[i]]
      BY SeqShape DEF CoverageInv, InOrder, FramesOK, level
<1>2. level # 0
      BY <1>1
<1>3. level \in Nat \ {0} /\ level \in 1..level
      BY <1>1, <1>2
<1> QED BY <1>3 DEF CoverageInv, InOrder, FramesOK, Top, level

\* Every opcode is handled without a mark that is not of the call at hand.
LEMMA OpcodeHandled ==
    ASSUME CoverageAssumption, CoverageInv, stack # <<>>,
           Kind(Code[Top.fn], Top.pc) # "exit",
           NEW g \in Handled(xg, Top.fn, level, Top.pc)
    PROVE  OpcodeDone(Entered(Top, Top.pc), WithTaken(g, Top, Top.pc))
<1> DEFINE f == Top.fn
           p == Top.pc
           frame == Entered(Top, Top.pc)
           k == WithTaken(g, Top, Top.pc)
<1>1. /\ level \in Nat \ {0} /\ level \in 1..level /\ Top = stack[level]
      /\ IsFrame(Top) /\ f \in compiled /\ f \in Fn
      BY TopIs
<1>2. /\ compiled \subseteq Fn /\ IsTables(xg) /\ Analysed(xg, filtered) /\ NoneHeld(xg)
      /\ info = [h \in Fn |-> Analysis(Code[h])]
      BY DEF CoverageInv, InOrder, TablesOK
<1>3. info[f].starts = Starts(Code[f])
      BY <1>1, <1>2, InfoIs
<1>4. /\ IsFrame(frame) /\ frame.fn = f /\ frame.pc = p /\ frame.known = Top.known
      /\ frame.whole = Top.whole /\ frame.prev = IF p \in Starts(Code[f]) THEN p ELSE Top.prev
      BY <1>1, <1>3, EnteredFrame
<1>5. on /\ ~resumed /\ ~xg.wild =>
          \A l \in 1..level : Agrees(xg, stack[l], l, filtered)
      BY DEF CoverageInv, InOrder, InStep, level
<1>14. on /\ ~resumed /\ ~xg.wild =>
          \A l \in 1..level : l # level => Exact(xg, stack[l], l)
      BY DEF CoverageInv, InOrder, InStep, level
<1>6. ~resumed /\ ~xg.wild => xg.hash.outs_hit \subseteq xg.taken
      BY DEF CoverageInv, InOrder, TablesOK
<1> DEFINE Marks(h) ==
        /\ Grown(xg, h) /\ Analysed(h, filtered) /\ NoneHeld(h)
        /\ xg.hash.functions = {} => h.hash.functions = {}
        /\ xg.taken \subseteq h.taken
        /\ ~resumed /\ ~h.wild =>
              \/ h.hash.outs_hit = xg.hash.outs_hit
              \/ /\ ~Restarts(Top, p) /\ p \in info[f].starts /\ Top.prev # Unset
                 /\ h.hash.outs_hit = xg.hash.outs_hit \cup {<<f, Top.prev, p>>}
        /\ on /\ ~resumed /\ ~h.wild =>
              /\ \A l \in 1..level : l # level => /\ Agrees(h, stack[l], l, filtered)
                                              /\ Exact(h, stack[l], l)
              /\ Holds(h, level) =>
                    /\ f \in h.hash.functions \ filtered
                    /\ h.last[level] \in Starts(Code[f])
                    /\ \/ h.last[level] = frame.prev
                       \/ /\ frame.prev = p /\ p \in Starts(Code[f])
                          /\ Kind(Code[f], p) = "switch"
<1>7. ASSUME NEW h, Marks(h), NEW j, Noted(h, j)
      PROVE  Marks(j)
  <2>1. /\ Grown(h, j) /\ Analysed(j, filtered)
        /\ \A l : Holds(j, l) <=> Holds(h, l)
        /\ \A fr, l : Agrees(h, fr, l, filtered) => Agrees(j, fr, l, filtered)
        /\ \A fr, l : Exact(h, fr, l) => Exact(j, fr, l)
        BY <1>7, NotedKeeps
  <2>2. /\ j.wild = h.wild /\ j.last = h.last /\ j.hash.functions = h.hash.functions
        /\ j.hash.outs_hit = h.hash.outs_hit /\ h.taken \subseteq j.taken
        BY <1>7 DEF Noted
  <2>3. NoneHeld(j) /\ Grown(xg, j)
        BY <1>7, <2>1, <2>2 DEF NoneHeld, Grown
  <2> QED BY <1>7, <2>1, <2>2, <2>3
<1>8. ASSUME ~on \/ f \in filtered \/ Kind(Code[f], p) = "switch"
      PROVE  Marks(g)
  <2>1. g = xg
        BY <1>8 DEF Handled
  <2>2. ASSUME on, ~resumed, ~xg.wild, Holds(xg, level)
        PROVE  /\ f \in xg.hash.functions \ filtered
               /\ xg.last[level] \in Starts(Code[f])
               /\ \/ xg.last[level] = frame.prev
                  \/ /\ frame.prev = p /\ p \in Starts(Code[f])
                     /\ Kind(Code[f], p) = "switch"
    <3>1. /\ f \in xg.hash.functions \ filtered /\ xg.last[level] \in Starts(Code[f])
          /\ xg.last[level] = Top.prev \/ PassedSwitch(Top)
          BY <1>1, <1>5, <2>2 DEF Agrees
    <3>2. Kind(Code[f], p) = "switch"
          BY <1>8, <2>2, <3>1
    <3>3. PassedSwitch(Top) => p \in Starts(Code[f])
          BY <1>1, SwitchBegins
    <3> QED BY <1>4, <3>1, <3>2, <3>3
  <2>3. Grown(xg, xg)
        BY <1>2 DEF Grown
  <2> HIDE DEF frame, f, p
  <2>4. Marks(xg)
        BY <1>2, <1>5, <1>14, <2>2, <2>3
  <2> QED BY <2>1, <2>4, SMTT(40)
<1>9. ASSUME on, f \notin filtered, Kind(Code[f], p) # "switch"
      PROVE  Marks(g)
  <2>1. PICK m \in MarkReached(xg, f, level, p) :
               g = m \/ g = Counted(m, Code[f][p].line)
        BY <1>9 DEF Handled
  <2>2. /\ Grown(xg, m) /\ Analysed(m, filtered) /\ KeepsSlots(xg, m, {level})
        /\ m.taken = xg.taken
        /\ m # xg => f \in xg.hash.functions
        /\ Agrees(xg, Top, level, filtered) /\ Holds(m, level) =>
              /\ f \in m.hash.functions \ filtered /\ m.last[level] \in Starts(Code[f])
              /\ m.last[level] = frame.prev
        /\ Agrees(xg, Top, level, filtered) /\ ~m.wild =>
              \/ m.hash.outs_hit = xg.hash.outs_hit
              \/ /\ ~Restarts(Top, p) /\ p \in info[f].starts /\ Top.prev # Unset
                 /\ m.hash.outs_hit = xg.hash.outs_hit \cup {<<f, Top.prev, p>>}
    <3>1. ReachedMarked(xg, m, Top, f, level, p)
          BY <1>1, <1>2, <1>9, MarkReachedMarks
    <3> QED BY <3>1 DEF ReachedMarked
  <2>3. NoneHeld(m) /\ (xg.hash.functions = {} => m.hash.functions = {})
        BY <1>2, <2>2 DEF NoneHeld, Grown
  <2>4. ASSUME on, ~resumed, ~m.wild, NEW l \in 1..level, l # level
        PROVE  Agrees(m, stack[l], l, filtered) /\ Exact(m, stack[l], l)
    <3>1. Agrees(xg, stack[l], l, filtered) /\ Exact(xg, stack[l], l)
          BY <1>5, <1>14, <2>2, <2>4 DEF Grown
    <3>2. Holds(m, l) => Holds(xg, l) /\ m.last[l] = xg.last[l]
          BY <2>2, <2>4 DEF KeepsSlots
    <3> QED BY <2>2, <3>1, <3>2 DEF Agrees, Exact, Grown
  <2>5. ~resumed /\ ~m.wild => Agrees(xg, Top, level, filtered)
        BY <1>1, <1>5, <1>9, <2>2 DEF Grown
  <2> HIDE DEF frame, f, p
  <2>6. Marks(m)
        BY <2>2, <2>3, <2>4, <2>5
  <2> HIDE DEF Marks
  <2>7. Noted(m, g)
    <3>1. IsTables(m)
          BY <2>2 DEF Grown
    <3>2. Noted(m, m)
          BY <3>1 DEF Noted
    <3> QED BY <2>1, <3>1, <3>2, CountedNoted
  <2> QED BY <1>7, <2>6, <2>7, SMTT(40)
<1>10. Marks(g)
       BY <1>8, <1>9
<1>11. Noted(g, k) /\ (~Restarts(Top, p) /\ p \in info[f].starts /\ Top.prev # Unset
                       => <<f, Top.prev, p>> \in k.taken)
  <2>1. IsTables(g)
        BY <1>10 DEF Grown
  <2> QED BY <2>1, WithTakenNoted
<1> HIDE DEF k
<1>12. Marks(k)
       BY <1>7, <1>10, <1>11
<1>13. ~resumed /\ ~k.wild => k.hash.outs_hit \subseteq k.taken
  <2>1. ~k.wild => ~xg.wild
        BY <1>12 DEF Grown
  <2> QED BY <1>6, <1>11, <1>12, <2>1
<1> HIDE DEF frame
<1>15. OpcodeDone(frame, k)
       BY <1>4, <1>12, <1>13 DEF OpcodeDone
<1> QED BY <1>15 DEF frame, k

\* The calls s are those in progress when the call at hand has become frame,
\* wherever it goes on.
Rests(s, frame) ==
    /\ IsSeq(s) /\ Len(s) = level
    /\ \A l \in 1..level :
          LET c == IF l = level THEN frame ELSE stack[l]
          IN  /\ IsFrame(s[l]) /\ s[l].fn = c.fn /\ s[l].known = c.known
              /\ s[l].prev = c.prev /\ (s[l].whole => c.whole)

LEMMA OpcodeSettles ==
    ASSUME CoverageAssumption, CoverageInv, stack # <<>>, NEW frame, NEW h, OpcodeDone(frame, h),
           NEW s, Rests(s, frame), NEW exact \in BOOLEAN,
           Kind(Code[Top.fn], Top.pc) = "switch" => ~exact /\ (on => s[level].pc = Top.pc + 1)
    PROVE  InOrder(s, h, exact)
<1>1. /\ level \in Nat \ {0} /\ level \in 1..level /\ Top = stack[level]
      /\ IsFrame(Top) /\ Top.fn \in compiled /\ Top.fn \in Fn /\ Top.known \subseteq Fn
      BY TopIs
<1>2. \A l \in 1..level : s[l].fn = stack[l].fn /\ s[l].known = stack[l].known
                          /\ IsFrame(s[l]) /\ (s[l].whole => stack[l].whole)
      BY <1>1 DEF Rests, OpcodeDone
<1>3. /\ FramesOK(stack) /\ TablesOK(xg) /\ Reported(stack, xg) /\ Len(s) = level
      /\ IsSeq(s) /\ Len(stack) = level
      BY DEF CoverageInv, InOrder, Rests, level
<1>4. FramesOK(s)
      BY <1>2, <1>3 DEF FramesOK
<1>5. Reported(s, h)
      BY <1>2, <1>3 DEF Reported, OpcodeDone, Grown
<1>6. TablesOK(h)
      BY <1>3 DEF TablesOK, OpcodeDone, Grown
<1>7. ASSUME on, ~resumed, ~h.wild, NEW l \in 1..level
      PROVE  Agrees(h, s[l], l, filtered) /\ (l # level \/ exact => Exact(h, s[l], l))
  <2>1. CASE l # level
    <3>1. Agrees(h, stack[l], l, filtered) /\ Exact(h, stack[l], l)
          BY <1>7, <2>1 DEF OpcodeDone
    <3>2. s[l].fn = stack[l].fn /\ s[l].prev = stack[l].prev
          BY <2>1 DEF Rests
    <3> QED BY <3>1, <3>2 DEF Agrees, Exact
  <2>2. CASE l = level
    <3>1. s[l].fn = Top.fn /\ s[l].prev = frame.prev
          BY <1>1, <1>2, <2>2 DEF Rests
    <3>2. Holds(h, l) =>
              /\ Top.fn \in h.hash.functions \ filtered
              /\ h.last[l] \in Starts(Code[Top.fn])
              /\ \/ h.last[l] = frame.prev
                 \/ /\ frame.prev = Top.pc /\ Top.pc \in Starts(Code[Top.fn])
                    /\ Kind(Code[Top.fn], Top.pc) = "switch"
          BY <1>7, <2>2 DEF OpcodeDone
    <3>3. Holds(h, l) => s[l].prev = h.last[l] \/ PassedSwitch(s[l])
          BY <1>7, <2>2, <3>1, <3>2 DEF PassedSwitch
    <3>4. exact /\ Holds(h, l) => s[l].prev = h.last[l]
          BY <2>2, <3>1, <3>2
    <3> QED BY <2>2, <3>1, <3>2, <3>3, <3>4 DEF Agrees, Exact
  <2> QED BY <2>1, <2>2
<1>8. on /\ ~resumed /\ ~h.wild => InStep(s, h, filtered, exact)
      BY <1>3, <1>7 DEF InStep
<1> QED BY <1>4, <1>5, <1>6, <1>8 DEF InOrder

LEMMA Goes ==
    ASSUME NEW frame, IsFrame(frame), NEW q, NEW back
    PROVE  \A t : t = GoesTo(frame, q, back) =>
        t = [fn |-> frame.fn, pc |-> q, back |-> back, init |-> frame.init,
             prev |-> frame.prev, known |-> frame.known, seen |-> frame.seen,
             trail |-> frame.trail, whole |-> frame.whole]
<1> SUFFICES ASSUME NEW t, t = GoesTo(frame, q, back)
             PROVE  t = [fn |-> frame.fn, pc |-> q, back |-> back, init |-> frame.init,
                         prev |-> frame.prev, known |-> frame.known, seen |-> frame.seen,
                         trail |-> frame.trail, whole |-> frame.whole]
    OBVIOUS
<1>1. t = [frame EXCEPT !.pc = q, !.back = back]
      BY DEF GoesTo
<1> QED BY <1>1 DEF IsFrame

\* s with x at l.
With(s, l, x) == [s EXCEPT ![l] = x]

LEMMA SeqWith ==
    ASSUME NEW s, IsSeq(s), NEW l \in 1..Len(s), NEW x
    PROVE  LET t == With(s, l, x)
           IN  /\ IsSeq(t) /\ Len(t) = Len(s) /\ t[l] = x
               /\ \A i \in 1..Len(s) : i # l => t[i] = s[i]
<1>1. PICK t : t = With(s, l, x)
      OBVIOUS
<1>2. Len(s) \in Nat /\ DOMAIN s = 1..Len(s) /\ s = [i \in 1..Len(s) |-> s[i]]
      BY SeqShape
<1>3. /\ DOMAIN t = 1..Len(s) /\ t = [i \in 1..Len(s) |-> t[i]] /\ t[l] = x
      /\ \A i \in 1..Len(s) : i # l => t[i] = s[i]
      BY <1>1, <1>2 DEF With
<1>4. IsSeq(t) /\ Len(t) = Len(s)
      BY <1>2, <1>3, SeqMade
<1> QED BY <1>1, <1>3, <1>4

\* The call at hand becomes top.
LEMMA TopBecomes ==
    ASSUME CoverageInv, stack # <<>>, NEW top
    PROVE  LET s == With(stack, level, top)
           IN  /\ IsSeq(s) /\ Len(s) = level /\ s[level] = top
               /\ \A l \in 1..level : l # level => s[l] = stack[l]
<1>1. level \in 1..level /\ IsSeq(stack) /\ Len(stack) = level
      BY TopIs DEF CoverageInv, InOrder, FramesOK, level
<1>2. level \in 1..Len(stack)
      BY <1>1
<1> QED BY <1>1, <1>2, SeqWith

\* The call at hand goes on in its function.
LEMMA TopRests ==
    ASSUME CoverageInv, stack # <<>>, NEW frame, NEW top, IsFrame(top), top.fn = frame.fn,
           top.known = frame.known, top.prev = frame.prev, top.whole = frame.whole,
           IsFrame(frame)
    PROVE  \A s : s = With(stack, level, top) => Rests(s, frame) /\ s[level] = top
<1> SUFFICES ASSUME NEW s, s = With(stack, level, top)
             PROVE  Rests(s, frame) /\ s[level] = top
    OBVIOUS
<1>1. level \in Nat \ {0} /\ level \in 1..level /\ \A l \in 1..level : IsFrame(stack[l])
      BY TopIs DEF CoverageInv, InOrder, FramesOK, level
<1>2. /\ IsSeq(s) /\ Len(s) = level /\ s[level] = top
      /\ \A l \in 1..level : l # level => s[l] = stack[l]
      BY TopBecomes
<1>3. ASSUME NEW l \in 1..level
      PROVE  LET c == IF l = level THEN frame ELSE stack[l]
             IN  /\ IsFrame(s[l]) /\ s[l].fn = c.fn /\ s[l].known = c.known
                 /\ s[l].prev = c.prev /\ (s[l].whole => c.whole)
      BY <1>1, <1>2
<1> QED BY <1>2, <1>3 DEF Rests

LEMMA TopGoes ==
    ASSUME CoverageInv, stack # <<>>, NEW frame, IsFrame(frame), NEW q, NEW back
    PROVE  \A s : s = With(stack, level, GoesTo(frame, q, back)) =>
               Rests(s, frame) /\ s[level].pc = q
<1>1. PICK top : top = GoesTo(frame, q, back)
      OBVIOUS
<1>2. top = [fn |-> frame.fn, pc |-> q, back |-> back, init |-> frame.init,
             prev |-> frame.prev, known |-> frame.known, seen |-> frame.seen,
             trail |-> frame.trail, whole |-> frame.whole]
      BY <1>1, Goes
<1>3. /\ IsFrame(top) /\ top.fn = frame.fn /\ top.known = frame.known /\ top.prev = frame.prev
      /\ top.whole = frame.whole /\ top.pc = q
      BY <1>2 DEF IsFrame
<1>4. \A s : s = With(stack, level, top) => Rests(s, frame) /\ s[level] = top
      BY <1>3, TopRests
<1> QED BY <1>1, <1>3, <1>4

LEMMA TopRestsAt ==
    ASSUME CoverageInv, stack # <<>>, NEW frame, IsFrame(frame), NEW q
    PROVE  \A s : s = With(stack, level, [frame EXCEPT !.pc = q]) =>
               Rests(s, frame) /\ s[level].pc = q
<1>1. PICK top : top = [frame EXCEPT !.pc = q]
      OBVIOUS
<1>3. /\ IsFrame(top) /\ top.fn = frame.fn /\ top.known = frame.known /\ top.prev = frame.prev
      /\ top.whole = frame.whole /\ top.pc = q
      BY <1>1 DEF IsFrame
<1>4. \A s : s = With(stack, level, top) => Rests(s, frame) /\ s[level] = top
      BY <1>3, TopRests
<1> QED BY <1>1, <1>3, <1>4

LEMMA InvKept ==
    ASSUME CoverageInv, UNCHANGED <<info, compiled, filtered, on, opts, resumed>>,
           InOrder(stack', xg', exception')
    PROVE  CoverageInv'
BY DEF CoverageInv, InOrder, FramesOK, TablesOK

LEMMA InOrderFor ==
    ASSUME NEW s, NEW g, NEW exact
    PROVE  /\ InOrder(s, g, TRUE) => InOrder(s, g, exact)
           /\ InOrder(s, g, FALSE) /\ ~exact => InOrder(s, g, exact)
BY DEF InOrder, InStep

-----------------------------------------------------------------------------
(* The actions *)

LEMMA StepKeeps ==
    ASSUME CoverageAssumption, CoverageInv, Step
    PROVE  CoverageInv'
<1>1. PICK q \in Next_(Top) :
             stack' = [stack EXCEPT ![level] = GoesTo(Entered(Top, Top.pc), q, BackAfter(Top))]
      BY DEF Step, SetTop
<1>2. PICK g \in Handled(xg, Top.fn, level, Top.pc) : xg' = WithTaken(g, Top, Top.pc)
      BY DEF Step
<1>3. /\ stack # <<>> /\ ~exception /\ exception' = exception
      /\ UNCHANGED <<info, compiled, filtered, on, opts, resumed>>
      BY DEF Step
<1>4. Kind(Code[Top.fn], Top.pc) # "exit"
      BY <1>1 DEF Next_, Kind
<1>5. Kind(Code[Top.fn], Top.pc) = "switch" /\ on => q = Top.pc + 1
      BY <1>1 DEF Next_, Kind
<1> DEFINE frame == Entered(Top, Top.pc)
<1>6. OpcodeDone(frame, xg')
      BY <1>2, <1>3, <1>4, OpcodeHandled
<1> HIDE DEF frame
<1>7. IsFrame(frame)
      BY <1>6 DEF OpcodeDone
<1>11. stack' = With(stack, level, GoesTo(frame, q, BackAfter(Top)))
      BY <1>1 DEF frame, With
<1>8. Rests(stack', frame) /\ stack'[level].pc = q
      BY <1>3, <1>7, <1>11, TopGoes
<1>9. InOrder(stack', xg', FALSE)
      BY <1>3, <1>5, <1>6, <1>8, OpcodeSettles
<1>10. InOrder(stack', xg', exception')
       BY <1>3, <1>9, InOrderFor
<1> QED BY <1>3, <1>10, InvKept

\* An exception leaves the call at hand at its opcode.
LEMMA ThrownKeeps ==
    ASSUME CoverageAssumption, CoverageInv, stack # <<>>,
           stack' = [stack EXCEPT ![level] = Entered(Top, Top.pc)],
           UNCHANGED <<info, compiled, filtered, on, opts, resumed>>,
           Kind(Code[Top.fn], Top.pc) # "switch", OpcodeDone(Entered(Top, Top.pc), xg')
    PROVE  CoverageInv'
<1> DEFINE frame == Entered(Top, Top.pc)
<1>2. /\ stack # <<>> /\ stack' = [stack EXCEPT ![level] = frame]
      /\ UNCHANGED <<info, compiled, filtered, on, opts, resumed>>
      OBVIOUS
<1>3. Kind(Code[Top.fn], Top.pc) # "switch"
      OBVIOUS
<1>4. OpcodeDone(frame, xg')
      OBVIOUS
<1>5. stack' = With(stack, level, [frame EXCEPT !.pc = Top.pc])
  <2>1. IsFrame(frame) /\ frame.pc = Top.pc
        BY <1>4 DEF OpcodeDone
  <2> HIDE DEF frame
  <2>2. frame = [frame EXCEPT !.pc = Top.pc]
        BY <2>1 DEF IsFrame
  <2>3. stack' = With(stack, level, frame)
        BY <1>2 DEF With
  <2> QED BY <2>2, <2>3
<1> HIDE DEF frame
<1>6. Rests(stack', frame)
      BY <1>2, <1>4, <1>5, TopRestsAt DEF OpcodeDone
<1>7. InOrder(stack', xg', TRUE)
      BY <1>2, <1>3, <1>4, <1>6, OpcodeSettles
<1>8. InOrder(stack', xg', exception')
      BY <1>7, InOrderFor
<1> QED BY <1>2, <1>8, InvKept

LEMMA ThrowKeeps ==
    ASSUME CoverageAssumption, CoverageInv, Throw
    PROVE  CoverageInv'
<1>1. PICK g \in Handled(xg, Top.fn, level, Top.pc) : xg' = WithTaken(g, Top, Top.pc)
      BY DEF Throw
<1>2. /\ stack # <<>> /\ stack' = [stack EXCEPT ![level] = Entered(Top, Top.pc)]
      /\ UNCHANGED <<info, compiled, filtered, on, opts, resumed>>
      BY DEF Throw, SetTop
<1>3. Kind(Code[Top.fn], Top.pc) \notin {"exit", "switch"}
      BY DEF Throw
<1>4. OpcodeDone(Entered(Top, Top.pc), xg')
      BY <1>1, <1>2, <1>3, OpcodeHandled
<1> QED BY <1>2, <1>3, <1>4, ThrownKeeps

\* The line of the call does not touch the marks.
LEMMA CallDone ==
    ASSUME NEW frame, NEW k, OpcodeDone(frame, k), NEW slot, NEW h, h = CountCall(k, slot)
    PROVE  OpcodeDone(frame, h)
<1>1. IsTables(k)
      BY DEF OpcodeDone, Grown
<1>2. Noted(k, h) /\ h.taken = k.taken
      BY <1>1, CallNoted
<1>3. /\ Grown(k, h) /\ Analysed(h, filtered)
      /\ \A l : Holds(h, l) <=> Holds(k, l)
      /\ \A fr, l : Agrees(k, fr, l, filtered) => Agrees(h, fr, l, filtered)
      /\ \A fr, l : Exact(k, fr, l) => Exact(h, fr, l)
      BY <1>2, NotedKeeps DEF OpcodeDone
<1>4. /\ h.wild = k.wild /\ h.last = k.last /\ h.hash.functions = k.hash.functions
      /\ h.hash.outs_hit = k.hash.outs_hit
      BY <1>2 DEF Noted
<1>5. Grown(xg, h) /\ NoneHeld(h)
      BY <1>3, <1>4 DEF OpcodeDone, Grown, NoneHeld
<1> QED BY <1>2, <1>3, <1>4, <1>5 DEF OpcodeDone

\* A call opcode is handled, and the call at hand goes on behind it.
LEMMA CallHandled ==
    ASSUME CoverageAssumption, CoverageInv, stack # <<>>, Kind(Code[Top.fn], Top.pc) = "call",
           NEW k, NEW slots, k \in Called(slots) \/ \E g \in Handled(xg, Top.fn, level, Top.pc) :
                                                  k = WithTaken(g, Top, Top.pc)
    PROVE  /\ OpcodeDone(Entered(Top, Top.pc), k)
           /\ \A s : s = [stack EXCEPT ![level] = [Entered(Top, Top.pc) EXCEPT !.pc = @ + 1]]
                  => InOrder(s, k, TRUE)
<1> DEFINE frame == Entered(Top, Top.pc)
<1>1. OpcodeDone(frame, k)
  <2>1. CASE k \in Called(slots)
    <3>1. PICK g \in Handled(xg, Top.fn, level, Top.pc), slot \in slots :
                 k = CountCall(WithTaken(g, Top, Top.pc), slot)
          BY <2>1 DEF Called
    <3>2. OpcodeDone(frame, WithTaken(g, Top, Top.pc))
          BY OpcodeHandled
    <3> QED BY <3>1, <3>2, CallDone
  <2>2. CASE k \notin Called(slots)
        BY <2>2, OpcodeHandled
  <2> QED BY <2>1, <2>2
<1>2. ASSUME NEW s, s = [stack EXCEPT ![level] = [frame EXCEPT !.pc = @ + 1]]
      PROVE  InOrder(s, k, TRUE)
  <2> HIDE DEF frame
  <2>1. IsFrame(frame)
        BY <1>1 DEF OpcodeDone
  <2>4. [frame EXCEPT !.pc = @ + 1] = [frame EXCEPT !.pc = frame.pc + 1]
        BY <2>1 DEF IsFrame
  <2>2. s = With(stack, level, [frame EXCEPT !.pc = frame.pc + 1])
        BY <1>2, <2>4 DEF With
  <2>3. Rests(s, frame)
        BY <2>1, <2>2, TopRestsAt
  <2> QED BY <1>1, <2>3, OpcodeSettles
<1> QED BY <1>1, <1>2

LEMMA InternalThrowKeeps ==
    ASSUME CoverageAssumption, CoverageInv, InternalThrows
    PROVE  CoverageInv'
<1>1. /\ stack # <<>> /\ Kind(Code[Top.fn], Top.pc) = "call"
      /\ stack' = [stack EXCEPT ![level] = Entered(Top, Top.pc)]
      /\ xg' \in Called(InternalSlots)
      /\ UNCHANGED <<info, compiled, filtered, on, opts, resumed>>
      BY DEF InternalThrows, SetTop, AtCall
<1>2. OpcodeDone(Entered(Top, Top.pc), xg')
      BY <1>1, CallHandled
<1> QED BY <1>1, <1>2, ThrownKeeps

LEMMA CatchKeeps ==
    ASSUME CoverageAssumption, CoverageInv, Catch
    PROVE  CoverageInv'
<1>1. PICK q : \E back : stack' = With(stack, level, GoesTo(Top, q, back))
      BY DEF Catch, SetTop, With
<1>12. PICK back : stack' = With(stack, level, GoesTo(Top, q, back))
      BY <1>1
<1>2. /\ stack # <<>> /\ exception /\ xg' = xg
      /\ UNCHANGED <<info, compiled, filtered, on, opts, resumed>>
      BY DEF Catch
<1>3. IsFrame(Top) /\ level \in 1..level /\ Top = stack[level]
      BY <1>2, TopIs
<1>4. Rests(stack', Top)
      BY <1>12, <1>2, <1>3, TopGoes
<1>5. \A l \in 1..level : /\ IsFrame(stack'[l]) /\ stack'[l].fn = stack[l].fn
                          /\ stack'[l].known = stack[l].known /\ stack'[l].prev = stack[l].prev
                          /\ (stack'[l].whole => stack[l].whole)
      BY <1>3, <1>4 DEF Rests
<1>6. IsSeq(stack') /\ Len(stack') = level /\ Len(stack) = level
      BY <1>4 DEF Rests, level
<1>7. InOrder(stack, xg, TRUE)
      BY <1>2 DEF CoverageInv, InOrder, InStep
<1>8. on /\ ~resumed /\ ~xg.wild => InStep(stack', xg, filtered, TRUE)
      BY <1>5, <1>6, <1>7 DEF InOrder, InStep, Agrees, Exact
<1>9. FramesOK(stack') /\ Reported(stack', xg) /\ TablesOK(xg)
      BY <1>5, <1>6, <1>7 DEF InOrder, FramesOK, Reported
<1>10. InOrder(stack', xg', TRUE)
       BY <1>2, <1>8, <1>9 DEF InOrder
<1>11. InOrder(stack', xg', exception')
       BY <1>10, InOrderFor
<1> QED BY <1>2, <1>11, InvKept

\* n is a call of f that begins.
NewCall(n, f) ==
    /\ IsFrame(n) /\ n.fn = f /\ n.prev = Unset /\ n.whole = Covers
    /\ n.known = (compiled \cup {f}) \ (filtered \cup {Main})

\* A call that begins finds nothing in its slots.
LEMMA EnterOrder ==
    ASSUME CoverageAssumption, compiled \subseteq Fn, NEW t, NEW g, InOrder(t, g, TRUE),
           NEW f \in compiled, NEW n, NewCall(n, f)
    PROVE  \A s, h : /\ s = Append(t, n)
                     /\ h = IF Covers THEN StartOfFunction(g, f, Len(t) + 1) ELSE g
                     => InOrder(s, h, TRUE)
<1>1. SUFFICES ASSUME NEW s, s = Append(t, n), NEW h,
                      h = IF Covers THEN StartOfFunction(g, f, Len(t) + 1) ELSE g
               PROVE  InOrder(s, h, TRUE)
      OBVIOUS
<1> DEFINE m == Len(t) + 1
<1>2. FramesOK(t) /\ TablesOK(g) /\ Reported(t, g)
      /\ (on /\ ~resumed /\ ~g.wild => InStep(t, g, filtered, TRUE))
      BY DEF InOrder
<1>3. /\ IsSeq(s) /\ Len(s) = m /\ s[m] = n /\ Len(t) \in Nat
      /\ \A l \in 1..Len(t) : s[l] = t[l]
  <2>1. IsSeq(t)
        BY <1>2 DEF FramesOK
  <2>2. Len(t) \in Nat
        BY <2>1, SeqShape
  <2>3. s = Append(t, n)
        BY <1>1
  <2>4. /\ IsSeq(s) /\ Len(s) = Len(t) + 1 /\ s[Len(t) + 1] = n
        /\ \A i \in 1..Len(t) : s[i] = t[i]
        BY <2>1, <2>3, SeqAppend DEF Extends
  <2> QED BY <2>2, <2>4
<1>4. m \in Nat \ {0} /\ f \in Fn /\ n.known \subseteq Fn
      /\ \A l \in 1..m : l = m \/ l \in 1..Len(t)
      BY <1>3 DEF NewCall
<1> HIDE DEF m
<1>5. FramesOK(s)
      BY <1>2, <1>3, <1>4 DEF FramesOK, NewCall
<1>6. /\ Grown(g, h) /\ SameMarks(g, h) /\ Analysed(h, filtered) /\ h.wild = g.wild
      /\ KeepsSlots(g, h, {})
      /\ Covers => /\ ~Holds(h, m)
                   /\ \A e \in (compiled \ ({Main} \cup Methods)) \cup {f} :
                         h.tracker[e] = h.startId
      /\ ~Covers => h = g
  <2>1. CASE Covers
    <3>1. h = StartOfFunction(g, f, m)
          BY <1>1, <2>1 DEF m
    <3>2. IsTables(g) /\ Analysed(g, filtered) /\ f \in Fn /\ m \in Nat \ {0}
          BY <1>2, <1>4 DEF TablesOK
    <3>3. /\ Grown(g, h) /\ SameMarks(g, h) /\ Analysed(h, filtered) /\ h.wild = g.wild
          /\ KeepsSlots(g, h, {}) /\ ~Holds(h, m)
          /\ \A e \in (compiled \ ({Main} \cup Methods)) \cup {f} : h.tracker[e] = h.startId
          BY <3>1, <3>2, StartStarts
    <3> QED BY <2>1, <3>3
  <2>2. CASE ~Covers
        BY <1>1, <1>2, <2>2 DEF TablesOK, Grown, SameMarks, KeepsSlots
  <2> QED BY <2>1, <2>2
<1>7. NoneHeld(h)
      BY <1>2, <1>6 DEF TablesOK, NoneHeld, KeepsSlots, Grown
<1>8. ~Covers /\ on /\ ~resumed => ~Holds(h, m)
      BY <1>2, <1>4, <1>6 DEF TablesOK, NoneHeld, Covers
<1>9. TablesOK(h)
  <2>1. on /\ ~resumed /\ h.hash.functions # {} => opts.unused
        BY <1>2, <1>6 DEF TablesOK, Covers
  <2> QED BY <1>2, <1>6, <1>7, <2>1 DEF TablesOK, Grown, SameMarks
<1>10. Reported(s, h)
  <2>1. ASSUME NEW l \in 1..m, s[l].whole, NEW e \in s[l].known \ Methods
        PROVE  Lines(e) \subseteq DOMAIN h.hash.executable
    <3>1. CASE l \in 1..Len(t)
      <4>1. Lines(e) \subseteq DOMAIN g.hash.executable
            BY <1>2, <1>3, <2>1, <3>1 DEF Reported
      <4> QED BY <1>6, <4>1 DEF Grown
    <3>2. CASE l = m
      <4>1. Covers /\ e \in compiled \ ({Main} \cup Methods) /\ e \notin filtered /\ e \in Fn
            BY <1>3, <2>1, <3>2 DEF NewCall
      <4> QED BY <1>6, <4>1 DEF Analysed
    <3> QED BY <1>4, <3>1, <3>2
  <2> QED BY <1>3, <2>1 DEF Reported
<1>11. ASSUME on, ~resumed, ~h.wild, NEW l \in 1..m
       PROVE  Agrees(h, s[l], l, filtered) /\ Exact(h, s[l], l)
  <2>1. CASE l \in 1..Len(t)
    <3>1. Agrees(g, t[l], l, filtered) /\ Exact(g, t[l], l)
          BY <1>2, <1>6, <1>11, <2>1 DEF InStep
    <3>2. Holds(h, l) => Holds(g, l) /\ h.last[l] = g.last[l]
          BY <1>6 DEF KeepsSlots
    <3> QED BY <1>3, <1>6, <2>1, <3>1, <3>2 DEF Agrees, Exact, Grown
  <2>2. CASE l = m
        BY <1>6, <1>8, <1>11, <2>2 DEF Agrees, Exact
  <2> QED BY <1>4, <2>1, <2>2
<1>12. on /\ ~resumed /\ ~h.wild => InStep(s, h, filtered, TRUE)
       BY <1>3, <1>11 DEF InStep
<1> QED BY <1>5, <1>9, <1>10, <1>12 DEF InOrder

LEMMA CallKeeps ==
    ASSUME CoverageAssumption, CoverageInv, Call
    PROVE  CoverageInv'
<1>1. PICK f \in compiled :
         AtCall(f) /\ \E g \in Called({f \in filtered}) : EnterFunction(f, g)
      BY DEF Call
<1>2. PICK k \in Called({f \in filtered}) : EnterFunction(f, k)
      BY <1>1
<1>3. stack # <<>> /\ Kind(Code[Top.fn], Top.pc) = "call"
      BY <1>1 DEF AtCall
<1> DEFINE frame == Entered(Top, Top.pc)
           n == [fn |-> f, pc |-> 0, back |-> <<>>, init |-> Covers, prev |-> Unset,
                 known |-> (compiled \cup {f}) \ (filtered \cup {Main}),
                 seen |-> {}, trail |-> <<>>, whole |-> Covers]
<1>4. PICK t : t = [stack EXCEPT ![level] = [frame EXCEPT !.pc = @ + 1]]
      OBVIOUS
<1>5. OpcodeDone(frame, k)
      BY <1>2, <1>3, CallHandled
<1>6. /\ stack' = Append(t, n)
      /\ xg' = IF Covers THEN StartOfFunction(k, f, level + 1) ELSE k
      /\ UNCHANGED <<info, exception, compiled, filtered, on, opts, resumed>>
      BY <1>2, <1>3, <1>4 DEF EnterFunction
<1>7. IsFrame(frame)
      BY <1>5 DEF OpcodeDone
<1>8. NewCall(n, f)
      BY DEF IsFrame, NewCall
<1> HIDE DEF frame, n
<1>14. [frame EXCEPT !.pc = @ + 1] = [frame EXCEPT !.pc = frame.pc + 1]
      BY <1>7 DEF IsFrame
<1>9. t = With(stack, level, [frame EXCEPT !.pc = frame.pc + 1])
      BY <1>4, <1>14 DEF With
<1>10. Rests(t, frame)
       BY <1>3, <1>7, <1>9, TopRestsAt
<1>11. InOrder(t, k, TRUE)
       BY <1>3, <1>5, <1>10, OpcodeSettles
<1>12. Len(t) = level /\ compiled \subseteq Fn
       BY <1>10 DEF Rests, CoverageInv
<1>13. InOrder(stack', xg', TRUE)
       BY <1>6, <1>8, <1>11, <1>12, EnterOrder
<1>15. InOrder(stack', xg', exception')
       BY <1>13, InOrderFor
<1> QED BY <1>6, <1>15, InvKept

LEMMA RunScriptKeeps ==
    ASSUME CoverageAssumption, CoverageInv, RunScript
    PROVE  CoverageInv'
<1> DEFINE n == [fn |-> Main, pc |-> 0, back |-> <<>>, init |-> Covers, prev |-> Unset,
                 known |-> (compiled \cup {Main}) \ (filtered \cup {Main}),
                 seen |-> {}, trail |-> <<>>, whole |-> Covers]
<1>1. PICK t : t = <<>>
      OBVIOUS
<1>2. /\ stack = <<>> /\ Main \in compiled /\ stack' = Append(t, n)
      /\ xg' = IF Covers THEN StartOfFunction(xg, Main, level + 1) ELSE xg
      /\ UNCHANGED <<info, exception, compiled, filtered, on, opts, resumed>>
      BY <1>1 DEF RunScript, EnterFunction
<1>3. NewCall(n, Main)
      BY DEF IsFrame, NewCall
<1> HIDE DEF n
<1>4. Len(t) = 0 /\ Len(t) = level /\ t = stack
      BY <1>1, <1>2 DEF level
<1>5. InOrder(t, xg, TRUE)
      BY <1>4 DEF CoverageInv, InOrder, InStep
<1>6. InOrder(stack', xg', TRUE)
  <2>1. xg' = IF Covers THEN StartOfFunction(xg, Main, Len(t) + 1) ELSE xg
        BY <1>2, <1>4
  <2>2. compiled \subseteq Fn
        BY DEF CoverageInv
  <2> QED BY <1>2, <1>3, <1>5, <2>1, <2>2, EnterOrder
<1>7. InOrder(stack', xg', exception')
      BY <1>6, InOrderFor
<1> QED BY <1>2, <1>7, InvKept

\* The tables g are in order for the calls below the call at hand.
BelowOK(g) ==
    /\ TablesOK(g) /\ Reported(stack, g)
    /\ on /\ ~resumed /\ ~g.wild =>
          \A l \in 1..level : l # level => Agrees(g, stack[l], l, filtered) /\ Exact(g, stack[l], l)

\* The end of a call only takes what its own slots hold.
LEMMA LeaveKeeps ==
    ASSUME CoverageAssumption, CoverageInv, stack # <<>>, NEW g, BelowOK(g), NEW frame,
           LeaveFunction(g, frame), UNCHANGED exception
    PROVE  CoverageInv'
<1>1. PICK e : e = IF Covers /\ frame.init THEN EndOfFunction(g, frame.fn, level) ELSE g
      OBVIOUS
<1>2. /\ xg' = Followed(e, frame) /\ stack' = Front(stack)
      /\ UNCHANGED <<info, compiled, filtered, on, opts, resumed>>
      BY <1>1 DEF LeaveFunction
<1>3. level \in Nat \ {0}
      BY TopIs
<1>4. /\ FramesOK(stack) /\ TablesOK(g) /\ Reported(stack, g) /\ IsTables(g)
      BY DEF CoverageInv, InOrder, BelowOK, TablesOK
<1>5. /\ Grown(g, e) /\ SameMarks(g, e) /\ KeepsSlots(g, e, {})
      /\ e.tracker = g.tracker /\ e.hash.functions = g.hash.functions
  <2>1. CASE e = g
        BY <1>4, <2>1 DEF Grown, SameMarks, KeepsSlots
  <2>2. CASE e = EndOfFunction(g, frame.fn, level)
    <3>1. Marked(g, e) /\ SameMarks(g, e) /\ KeepsSlots(g, e, {})
          BY <1>3, <1>4, <2>2, EndEnds
    <3> QED BY <3>1 DEF Marked
  <2> QED BY <1>1, <2>1, <2>2
<1>6. PICK h : h = xg'
      OBVIOUS
<1>7. Noted(e, h)
  <2>1. IsTables(e)
        BY <1>5 DEF Grown
  <2> QED BY <1>2, <1>6, <2>1, FollowedNoted
<1>8. /\ IsTables(h) /\ h.startId = g.startId /\ h.tracker = g.tracker /\ (g.wild => h.wild)
      /\ DOMAIN g.hash.executable \subseteq DOMAIN h.hash.executable
      /\ h.hash.functions = g.hash.functions /\ h.hash.outs_hit = g.hash.outs_hit
      /\ g.taken \subseteq h.taken /\ KeepsSlots(g, h, {})
      BY <1>5, <1>7 DEF Noted, Grown, SameMarks, KeepsSlots, Holds
<1>9. TablesOK(h)
  <2>1. Analysed(h, filtered)
        BY <1>4, <1>8 DEF TablesOK, Analysed
  <2>2. NoneHeld(h)
        BY <1>4, <1>8 DEF TablesOK, NoneHeld, KeepsSlots
  <2> QED BY <1>4, <1>8, <2>1, <2>2 DEF TablesOK
<1>10. PICK s : s = stack'
       OBVIOUS
<1>11. /\ IsSeq(s) /\ Len(s) = level - 1 /\ Len(s) \in Nat
       /\ \A i \in 1..Len(s) : s[i] = stack[i] /\ i \in 1..level /\ i # level
  <2>1. IsSeq(stack) /\ s = Front(stack) /\ Len(stack) = level
        BY <1>2, <1>4, <1>10 DEF FramesOK, level
  <2>2. /\ IsSeq(s) /\ Len(s) = Len(stack) - 1 /\ Len(s) \in Nat
        /\ \A i \in 1..Len(s) : s[i] = stack[i]
        BY <2>1, SeqFront
  <2> QED BY <1>3, <2>1, <2>2
<1>12. FramesOK(s) /\ Reported(s, h)
       BY <1>4, <1>8, <1>11 DEF FramesOK, Reported, level
<1>13. on /\ ~resumed /\ ~h.wild => InStep(s, h, filtered, TRUE)
       BY <1>8, <1>11 DEF BelowOK, InStep, Agrees, Exact, KeepsSlots
<1>14. InOrder(stack', xg', TRUE)
       BY <1>6, <1>9, <1>10, <1>12, <1>13 DEF InOrder
<1>15. InOrder(stack', xg', exception')
       BY <1>14, InOrderFor
<1> QED BY <1>2, <1>15, InvKept

LEMMA ReturnKeeps ==
    ASSUME CoverageAssumption, CoverageInv, Return
    PROVE  CoverageInv'
<1>1. PICK g \in Handled(xg, Top.fn, level, Top.pc) :
             LeaveFunction(WithTaken(g, Top, Top.pc), Entered(Top, Top.pc))
      BY DEF Return
<1>2. stack # <<>> /\ Kind(Code[Top.fn], Top.pc) # "exit" /\ UNCHANGED exception
      BY DEF Return
<1> DEFINE frame == Entered(Top, Top.pc)
           k == WithTaken(g, Top, Top.pc)
<1>3. OpcodeDone(frame, k)
      BY <1>2, OpcodeHandled
<1> HIDE DEF frame, k
<1>4. TablesOK(xg) /\ Reported(stack, xg)
      BY DEF CoverageInv, InOrder
<1>5. BelowOK(k)
      BY <1>3, <1>4 DEF BelowOK, OpcodeDone, TablesOK, Reported, Grown
<1> QED BY <1>1, <1>2, <1>5, LeaveKeeps DEF frame, k

LEMMA UnwindKeeps ==
    ASSUME CoverageAssumption, CoverageInv, Unwind
    PROVE  CoverageInv'
<1>1. stack # <<>> /\ LeaveFunction(xg, Top) /\ UNCHANGED exception
      BY DEF Unwind
<1>2. BelowOK(xg)
      BY DEF CoverageInv, InOrder, InStep, BelowOK, level
<1> QED BY <1>1, <1>2, LeaveKeeps

\* A file that is compiled brings a function no call is of.
LEMMA CompileKeeps ==
    ASSUME CoverageAssumption, CoverageInv, NEW f \in Fn, Compile(f), NEW g,
           InOrder(stack', g, TRUE), UNCHANGED exception, NEW slot,
           xg' = CountCall(IF on /\ opts.unused THEN Prefill(g, compiled', f, filtered')
                           ELSE g, slot)
    PROVE  CoverageInv'
<1>1. /\ f \notin compiled /\ compiled' = compiled \cup {f}
      /\ filtered \subseteq filtered' /\ filtered' \subseteq filtered \cup {f}
      /\ UNCHANGED <<info, on, opts, resumed>>
      BY DEF Compile
<1>2. /\ compiled \subseteq Fn /\ filtered \subseteq compiled
      /\ info = [x \in Fn |-> Analysis(Code[x])]
      BY DEF CoverageInv
<1>3. PICK s : s = stack'
      OBVIOUS
<1>4. PICK h : h = xg'
      OBVIOUS
<1>5. PICK skipped : skipped = filtered'
      OBVIOUS
<1>6. /\ FramesOK(s) /\ TablesOK(g) /\ Reported(s, g)
      /\ (on /\ ~resumed /\ ~g.wild => InStep(s, g, filtered, TRUE))
      BY <1>3 DEF InOrder
<1>7. IsTables(g) /\ Analysed(g, skipped)
      BY <1>1, <1>5, <1>6 DEF TablesOK, Analysed
<1>16. PICK m : m = IF on /\ opts.unused THEN Prefill(g, compiled', f, filtered') ELSE g
       OBVIOUS
<1>17. /\ Grown(g, m) /\ SameMarks(g, m) /\ Analysed(m, skipped)
       /\ m.wild = g.wild /\ m.paths = g.paths /\ m.last = g.last
       /\ m # g => opts.unused
  <2>1. CASE on /\ opts.unused
    <3>1. PICK known : known = compiled'
          OBVIOUS
    <3>2. known \in SUBSET Fn /\ m = Prefill(g, known, f, skipped)
          BY <1>1, <1>2, <1>16, <1>5, <2>1, <3>1
    <3>3. /\ Grown(g, m) /\ SameMarks(g, m) /\ Analysed(m, skipped)
          /\ m.wild = g.wild /\ m.paths = g.paths /\ m.last = g.last
      <4>1. Prefilled(g, m, (known \ ({Main} \cup Methods)) \cup {f}, skipped)
            BY <1>7, <3>2, PrefillFills
      <4> QED BY <4>1 DEF Prefilled
    <3> QED BY <2>1, <3>3
  <2>2. CASE ~(on /\ opts.unused)
    <3>1. m = g
          BY <1>16, <2>2
    <3> QED BY <1>7, <3>1 DEF Grown, SameMarks
  <2> QED BY <2>1, <2>2
<1>18. Noted(m, h) /\ h.taken = m.taken
  <2>1. IsTables(m)
        BY <1>17 DEF Grown
  <2>2. h = CountCall(m, slot)
        BY <1>4, <1>16
  <2> QED BY <2>1, <2>2, CallNoted
<1>8. /\ Grown(g, h) /\ SameMarks(g, h) /\ Analysed(h, skipped)
      /\ h.wild = g.wild /\ h.paths = g.paths /\ h.last = g.last
      /\ h.hash.functions # g.hash.functions => opts.unused
  <2>1. Grown(g, h) /\ SameMarks(g, h) /\ Analysed(h, skipped)
        BY <1>17, <1>18, NotedGrows
  <2>2. h.wild = m.wild /\ h.paths = m.paths /\ h.last = m.last
        /\ h.hash.functions = m.hash.functions
        BY <1>18 DEF Noted
  <2> QED BY <1>17, <2>1, <2>2
<1>9. NoneHeld(h)
      BY <1>6, <1>8 DEF TablesOK, NoneHeld, Holds, Grown
<1>10. /\ IsTables(h) /\ (on /\ ~resumed /\ h.hash.functions # {} => opts.unused)
       /\ (~resumed /\ ~h.wild => h.hash.outs_hit \subseteq h.taken)
       BY <1>6, <1>8 DEF TablesOK, Grown, SameMarks
<1>11. Reported(s, h)
       BY <1>6, <1>8 DEF Reported, Grown
<1>12. ASSUME on, ~resumed, ~h.wild, NEW l \in 1..Len(s)
       PROVE  Agrees(h, s[l], l, skipped) /\ Exact(h, s[l], l)
  <2>1. Agrees(g, s[l], l, filtered) /\ Exact(g, s[l], l)
        BY <1>6, <1>8, <1>12 DEF InStep
  <2>2. s[l].fn \in compiled
        BY <1>6, <1>12 DEF FramesOK
  <2>3. s[l].fn \notin filtered => s[l].fn \notin skipped
        BY <1>1, <1>5, <2>2
  <2> QED BY <1>8, <2>1, <2>3 DEF Agrees, Exact, Holds, Grown
<1>13. on /\ ~resumed /\ ~h.wild => InStep(s, h, skipped, exception')
       BY <1>12 DEF InStep
<1>14. IsSeq(s) /\ \A l \in 1..Len(s) : IsFrame(s[l]) /\ s[l].fn \in compiled'
                                        /\ s[l].known \subseteq Fn
       BY <1>1, <1>6 DEF FramesOK
<1>15. compiled' \subseteq Fn /\ filtered' \subseteq compiled'
       BY <1>1, <1>2
<1> QED BY <1>1, <1>2, <1>3, <1>4, <1>5, <1>8, <1>9, <1>10, <1>11, <1>13, <1>14, <1>15
        DEF CoverageInv, InOrder, FramesOK, TablesOK

LEMMA CompileScriptKeeps ==
    ASSUME CoverageAssumption, CoverageInv, CompileScript
    PROVE  CoverageInv'
<1>1. /\ stack = <<>> /\ Compile(Main) /\ UNCHANGED <<stack, exception>>
      /\ xg' = IF on /\ opts.unused THEN Prefill(xg, compiled', Main, filtered') ELSE xg
      BY DEF CompileScript, Compile
<1>2. Len(stack) = 0
      BY <1>1
<1>3. InOrder(stack, xg, TRUE)
      BY <1>2 DEF CoverageInv, InOrder, InStep
<1>4. Main \in Fn /\ InOrder(stack', xg, TRUE)
      BY <1>1, <1>3 DEF CoverageAssumption
<1>5. xg' = CountCall(IF on /\ opts.unused THEN Prefill(xg, compiled', Main, filtered') ELSE xg,
                      TRUE)
      BY <1>1 DEF CountCall
<1> QED BY <1>1, <1>4, <1>5, CompileKeeps

LEMMA IncludeKeeps ==
    ASSUME CoverageAssumption, CoverageInv, Include
    PROVE  CoverageInv'
<1>1. PICK f \in Fn : Compile(f) /\
         \E g \in Handled(xg, Top.fn, level, Top.pc) :
            xg' = LET h == WithTaken(g, Top, Top.pc)
                  IN  CountCall(IF on /\ opts.unused THEN Prefill(h, compiled', f, filtered')
                                ELSE h, f \in filtered')
      BY DEF Include
<1>2. PICK g \in Handled(xg, Top.fn, level, Top.pc) :
            xg' = LET h == WithTaken(g, Top, Top.pc)
                  IN  CountCall(IF on /\ opts.unused THEN Prefill(h, compiled', f, filtered')
                                ELSE h, f \in filtered')
      BY <1>1
<1>3. /\ stack # <<>> /\ Kind(Code[Top.fn], Top.pc) = "call" /\ UNCHANGED exception
      /\ stack' = [stack EXCEPT ![level] = [Entered(Top, Top.pc) EXCEPT !.pc = @ + 1]]
      BY <1>1 DEF Include, AtCall, SetTop, Compile
<1>4. PICK k : k = WithTaken(g, Top, Top.pc)
      OBVIOUS
<1>5. InOrder(stack', k, TRUE)
      BY <1>3, <1>4, CallHandled
<1>6. xg' = CountCall(IF on /\ opts.unused THEN Prefill(k, compiled', f, filtered') ELSE k,
                      f \in filtered')
      BY <1>2, <1>4
<1> QED BY <1>1, <1>3, <1>5, <1>6, CompileKeeps

LEMMA InternalKeeps ==
    ASSUME CoverageAssumption, CoverageInv, Internal \/ SetFilter
    PROVE  CoverageInv'
<1>1. /\ stack # <<>> /\ Kind(Code[Top.fn], Top.pc) = "call"
      /\ stack' = [stack EXCEPT ![level] = [Entered(Top, Top.pc) EXCEPT !.pc = @ + 1]]
      /\ UNCHANGED <<info, exception, compiled, filtered, on, opts, resumed>>
      BY DEF Internal, SetFilter, CallInternal, AtCall, Resume, SetTop
<1>2. xg' \in Called(InternalSlots)
      BY DEF Internal, SetFilter, CallInternal
<1>3. InOrder(stack', xg', TRUE)
      BY <1>1, <1>2, CallHandled
<1>4. InOrder(stack', xg', exception')
      BY <1>3, InOrderFor
<1> QED BY <1>1, <1>4, InvKept

LEMMA NotWholeRests ==
    ASSUME CoverageInv, stack # <<>>, NEW frame, IsFrame(frame), frame = Entered(Top, Top.pc)
    PROVE  \A s : s = NotWhole => Rests(s, frame) /\ \A l \in 1..level : ~s[l].whole
<1>1. SUFFICES ASSUME NEW s, s = NotWhole
               PROVE  Rests(s, frame) /\ \A l \in 1..level : ~s[l].whole
      OBVIOUS
<1>2. level \in Nat /\ \A l \in 1..level : IsFrame(stack[l])
      BY TopIs DEF CoverageInv, InOrder, FramesOK, level
<1> DEFINE c(l) == IF l < level THEN stack[l] ELSE [frame EXCEPT !.pc = frame.pc + 1]
<1>3. s = [l \in 1..level |-> [c(l) EXCEPT !.whole = FALSE]]
      BY <1>1 DEF NotWhole, IsFrame
<1>4. IsSeq(s) /\ Len(s) = level
  <2>1. s = [l \in 1..level |-> s[l]]
        BY <1>3
  <2> QED BY <1>2, <2>1, SeqMade
<1>5. ASSUME NEW l \in 1..level
      PROVE  /\ LET d == IF l = level THEN frame ELSE stack[l]
                IN  /\ IsFrame(s[l]) /\ s[l].fn = d.fn /\ s[l].known = d.known
                    /\ s[l].prev = d.prev /\ (s[l].whole => d.whole)
             /\ ~s[l].whole
  <2> DEFINE d == IF l = level THEN frame ELSE stack[l]
  <2>1. IsFrame(d)
        BY <1>2
  <2>2. l < level \/ l = level
        BY <1>2
  <2>3. /\ IsFrame(c(l)) /\ c(l).fn = d.fn /\ c(l).known = d.known /\ c(l).prev = d.prev
    <3>1. CASE l < level
      <4>1. c(l) = stack[l] /\ d = stack[l]
            BY <1>2, <3>1
      <4> QED BY <2>1, <4>1
    <3>2. CASE l = level
      <4>1. c(l) = [frame EXCEPT !.pc = frame.pc + 1] /\ d = frame
            BY <1>2, <3>2
      <4> HIDE DEF c, d
      <4> QED BY <4>1 DEF IsFrame
    <3> QED BY <2>2, <3>1, <3>2
  <2> HIDE DEF c, d
  <2>4. s[l] = [c(l) EXCEPT !.whole = FALSE]
        BY <1>3
  <2>5. IsFrame(s[l]) /\ s[l].fn = d.fn /\ s[l].known = d.known /\ s[l].prev = d.prev
        /\ ~s[l].whole
        BY <2>3, <2>4 DEF IsFrame
  <2> QED BY <2>5 DEF d
<1> QED BY <1>4, <1>5 DEF Rests

LEMMA StartKeeps ==
    ASSUME CoverageAssumption, CoverageInv, StartCodeCoverage
    PROVE  CoverageInv'
<1>1. /\ stack # <<>> /\ Kind(Code[Top.fn], Top.pc) = "call" /\ stack' = NotWhole
      /\ resumed' = (resumed \/ xg.hash # EmptyHash)
      /\ UNCHANGED <<info, exception, compiled, filtered>>
      BY DEF StartCodeCoverage, CallInternal, AtCall
<1>2. xg' \in Called(InternalSlots)
      BY DEF StartCodeCoverage, CallInternal
<1> DEFINE frame == Entered(Top, Top.pc)
<1>3. OpcodeDone(frame, xg')
      BY <1>1, <1>2, CallHandled
<1>4. frame = Entered(Top, Top.pc) /\ IsFrame(frame)
      BY <1>3 DEF OpcodeDone
<1> HIDE DEF frame
<1>5. Rests(stack', frame)
      BY <1>1, <1>4, NotWholeRests
<1>6. InOrder(stack', xg', TRUE)
      BY <1>1, <1>3, <1>5, OpcodeSettles
<1>7. ~resumed' => ~resumed /\ xg.hash.functions = {}
  <2>1. ~resumed' => ~resumed /\ xg.hash = EmptyHash
        BY <1>1
  <2>2. EmptyHash.functions = {}
        BY DEF EmptyHash
  <2> QED BY <2>1, <2>2
<1>9. PICK s : s = stack'
      OBVIOUS
<1>10. PICK h : h = xg'
       OBVIOUS
<1>11. ~resumed' => h.hash.functions = {}
       BY <1>3, <1>7, <1>10 DEF OpcodeDone
<1>12. FramesOK(s) /\ Reported(s, h) /\ TablesOK(h)
       BY <1>6, <1>9, <1>10 DEF InOrder
<1>13. ~resumed' => InStep(s, h, filtered, exception')
  <2>1. IsSeq(s)
        BY <1>12 DEF FramesOK
  <2>2. Len(s) \in Nat
        BY <2>1, SeqShape
  <2>3. ~resumed' => \A l \in 1..Len(s) : ~Holds(h, l)
        BY <1>11, <1>12, <2>2 DEF TablesOK, NoneHeld
  <2> QED BY <2>3 DEF InStep, Agrees, Exact
<1>14. /\ IsTables(h) /\ Analysed(h, filtered) /\ NoneHeld(h)
       /\ ~resumed' /\ ~h.wild => h.hash.outs_hit \subseteq h.taken
       BY <1>7, <1>12 DEF TablesOK
<1> QED BY <1>1, <1>9, <1>10, <1>11, <1>12, <1>13, <1>14
        DEF CoverageInv, InOrder, FramesOK, TablesOK

LEMMA CleanedTables ==
    ASSUME NEW g, IsTables(g), Analysed(g, filtered)
    PROVE  /\ IsTables(Cleaned(g)) /\ Analysed(Cleaned(g), filtered) /\ NoneHeld(Cleaned(g))
           /\ Cleaned(g).hash.functions = {} /\ Cleaned(g).hash.outs_hit = {}
<1>1. PICK h : h = Cleaned(g)
      OBVIOUS
<1>2. h = [g EXCEPT !.hash = EmptyHash, !.paths = <<>>, !.followed = {}, !.whole = {},
                    !.taken = {}, !.startId = g.startId + 1]
      BY <1>1 DEF Cleaned, CleanedSameId, IsTables
<1>3. /\ h.hash = EmptyHash /\ h.paths = <<>> /\ h.startId = g.startId + 1
      /\ h.tracker = g.tracker /\ h.last = g.last
      BY <1>2 DEF IsTables
<1>4. IsSeq(h.paths) /\ Len(h.paths) = 0
      BY <1>3 DEF IsSeq
<1>5. IsTables(h)
      BY <1>2, <1>3, <1>4 DEF IsTables, EmptyHash
<1>6. Analysed(h, filtered)
  <2>1. /\ g.startId \in Nat /\ g.tracker \in [Fn -> Nat]
        /\ \A f \in Fn : g.tracker[f] <= g.startId
        BY DEF Analysed
  <2>2. \A f \in Fn : h.tracker[f] <= h.startId /\ h.tracker[f] # h.startId
        BY <1>3, <2>1
  <2> QED BY <1>3, <2>1, <2>2 DEF Analysed
<1>7. NoneHeld(h) /\ h.hash.functions = {} /\ h.hash.outs_hit = {}
      BY <1>3, <1>4 DEF NoneHeld, Holds, EmptyHash
<1> QED BY <1>1, <1>5, <1>6, <1>7

LEMMA StopKeeps ==
    ASSUME CoverageAssumption, CoverageInv, StopCodeCoverage
    PROVE  CoverageInv'
<1>1. /\ stack # <<>> /\ Kind(Code[Top.fn], Top.pc) = "call" /\ stack' = NotWhole
      /\ on' = FALSE /\ UNCHANGED <<info, exception, compiled, filtered, opts, resumed>>
      BY DEF StopCodeCoverage, CallInternal, AtCall
<1>3. PICK k \in Called(InternalSlots) : xg' = k \/ xg' = Cleaned(k)
      BY DEF StopCodeCoverage, CallInternal
<1> DEFINE frame == Entered(Top, Top.pc)
<1>4. OpcodeDone(frame, k)
      BY <1>1, <1>3, CallHandled
<1>5. frame = Entered(Top, Top.pc) /\ IsFrame(frame)
      BY <1>4 DEF OpcodeDone
<1> HIDE DEF frame
<1>6. PICK s : s = stack'
      OBVIOUS
<1>7. PICK h : h = xg'
      OBVIOUS
<1>8. Rests(s, frame) /\ \A l \in 1..level : ~s[l].whole
      BY <1>1, <1>5, <1>6, NotWholeRests
<1>9. FramesOK(s) /\ TablesOK(k)
  <2>1. InOrder(s, k, TRUE)
        BY <1>1, <1>4, <1>8, OpcodeSettles
  <2> QED BY <2>1 DEF InOrder
<1>10. Reported(s, h)
       BY <1>8 DEF Reported, Rests
<1>11. IsTables(k) /\ Analysed(k, filtered)
       BY <1>9 DEF TablesOK
<1>12. /\ IsTables(h) /\ Analysed(h, filtered) /\ NoneHeld(h)
       /\ ~resumed /\ ~h.wild => h.hash.outs_hit \subseteq h.taken
  <2>1. CASE h = k
        BY <1>9, <2>1 DEF TablesOK
  <2>2. CASE h = Cleaned(k)
        BY <1>11, <2>2, CleanedTables
  <2> QED BY <1>3, <1>7, <2>1, <2>2
<1> QED BY <1>1, <1>6, <1>7, <1>9, <1>10, <1>12 DEF CoverageInv, InOrder, FramesOK, TablesOK

-----------------------------------------------------------------------------

LEMMA CoverageInit ==
    ASSUME CoverageAssumption, Init
    PROVE  CoverageInv
<1>1. /\ info = [f \in Fn |-> Analysis(Code[f])] /\ compiled = {} /\ filtered = {}
      /\ stack = <<>> /\ on = FALSE /\ xg = Tables
      BY DEF Init
<1>2. IsSeq(<<>>) /\ Len(<<>>) = 0
      BY DEF IsSeq
<1>3. PICK g : g = xg
      OBVIOUS
<1>4. /\ g.hash = EmptyHash /\ g.startId = 1 /\ g.tracker = [f \in Fn |-> 0]
      /\ g.paths = <<>> /\ g.last = <<>>
      BY <1>1, <1>3 DEF Tables
<1>5. IsTables(g)
      BY <1>1, <1>2, <1>3 DEF Tables, EmptyHash, IsTables
<1>6. Analysed(g, filtered) /\ NoneHeld(g)
      BY <1>2, <1>4 DEF Analysed, NoneHeld, Holds
<1>7. TablesOK(g)
      BY <1>1, <1>4, <1>5, <1>6 DEF TablesOK, EmptyHash
<1>8. FramesOK(stack) /\ Reported(stack, g)
      BY <1>1, <1>2 DEF FramesOK, Reported
<1> QED BY <1>1, <1>3, <1>7, <1>8 DEF CoverageInv, InOrder

\* In every state of every request, the tables agree with the calls in
\* progress: a slot of last_branch_nr that can be read holds the branch its
\* own call has entered last, and a function whose tracker is up to date has
\* its lines in the report unless the filter skips it.
THEOREM CoverageInvariant == Spec => []CoverageInv
<1>1. Init => CoverageInv
      BY CoverageAssumption, CoverageInit
<1>2. CoverageInv /\ [Next]_vars => CoverageInv'
  <2> SUFFICES ASSUME CoverageInv, [Next]_vars PROVE CoverageInv'
      OBVIOUS
  <2>1. CASE UNCHANGED vars
    <3>1. UNCHANGED <<info, stack, exception, compiled, filtered, on, opts, resumed, xg>>
          BY <2>1 DEF vars
    <3> QED BY <3>1 DEF CoverageInv, InOrder, FramesOK, TablesOK
  <2>2. CASE CompileScript
        BY <2>2, CoverageAssumption, CompileScriptKeeps
  <2>3. CASE Include
        BY <2>3, CoverageAssumption, IncludeKeeps
  <2>4. CASE RunScript
        BY <2>4, CoverageAssumption, RunScriptKeeps
  <2>5. CASE Step
        BY <2>5, CoverageAssumption, StepKeeps
  <2>6. CASE Throw
        BY <2>6, CoverageAssumption, ThrowKeeps
  <2>7. CASE Catch
        BY <2>7, CoverageAssumption, CatchKeeps
  <2>8. CASE Call
        BY <2>8, CoverageAssumption, CallKeeps
  <2>9. CASE Return
        BY <2>9, CoverageAssumption, ReturnKeeps
  <2>10. CASE Unwind
         BY <2>10, CoverageAssumption, UnwindKeeps
  <2>11. CASE Internal \/ SetFilter
         BY <2>11, CoverageAssumption, InternalKeeps
  <2>12. CASE StartCodeCoverage
         BY <2>12, CoverageAssumption, StartKeeps
  <2>13. CASE StopCodeCoverage
         BY <2>13, CoverageAssumption, StopKeeps
  <2>14. CASE InternalThrows
         BY <2>14, CoverageAssumption, InternalThrowKeeps
  <2> QED BY <2>1, <2>2, <2>3, <2>4, <2>5, <2>6, <2>7, <2>8, <2>9, <2>10, <2>11, <2>12, <2>13,
             <2>14 DEF Next
<1> QED BY <1>1, <1>2, PTL DEF Spec

\* With XDEBUG_CC_UNUSED, the report has every line of the functions that were
\* known when a covered call began, whatever has been started, stopped,
\* filtered or compiled since.
THEOREM LinesReported == Spec => []UnusedReported
<1>1. CoverageInv => UnusedReported
      BY DEF CoverageInv, InOrder, Reported, UnusedReported, Lines, level
<1> QED BY <1>1, CoverageInvariant, PTL

\* No mark on the way out of a branch stands for a step that no call has made,
\* though the slots of a level are handed from function to function.
THEOREM MarksStandForSteps == Spec => []EdgesTaken
<1>1. CoverageInv => EdgesTaken
      BY DEF CoverageInv, InOrder, TablesOK, EdgesTaken, Sound
<1> QED BY <1>1, CoverageInvariant, PTL

-----------------------------------------------------------------------------
(* Lines that are dead, and what has been hit *)

\* The opcode p of f has line l in a report.
HasLine(f, p, l) == Executable(Kind(Code[f], p)) /\ Code[f][p].line = l

\* All that h has on line l is dead.
DeadOn(h, l) ==
    /\ \E p \in Positions(Code[h]) : HasLine(h, p, l)
    /\ \A p \in Positions(Code[h]) : HasLine(h, p, l) => p \notin info[h].reached

\* A call of f can have run the opcode p of line l, as far as the analysis sees
\* finally blocks.
RunOn(f, p, l) ==
    HasLine(f, p, l) /\ (Finallys(Code[f]) \subseteq info[f].reached => p \in info[f].reached)

\* A dead line is one that some function has dead code on; what counts has
\* run; and the lines that the analysis of a function reaches are alive.
LinesOK(g, known) ==
    /\ \A l \in DOMAIN g.hash.executable : g.hash.executable[l] = 2 => \E h \in Fn : DeadOn(h, l)
    /\ \A l \in g.hash.counted :
          /\ l \in DOMAIN g.hash.executable
          /\ \E f \in Fn : \E p \in Positions(Code[f]) : RunOn(f, p, l)
    /\ \A f \in g.hash.functions : \A p \in info[f].reached :
          Executable(Kind(Code[f], p)) =>
             LET l == Code[f][p].line
             IN  l \in DOMAIN g.hash.executable /\ g.hash.executable[l] = 1
    /\ g.hash.functions \subseteq known

LEMMA PrefillLinesAre ==
    ASSUME NEW executable, NEW fs, NEW dead, NEW l
    PROVE  LET alive == \E f \in fs : \E p \in Positions(Code[f]) :
                           HasLine(f, p, l) /\ (dead => p \in info[f].reached)
               some  == \E f \in fs : \E p \in Positions(Code[f]) : HasLine(f, p, l)
               e == PrefillLines(executable, fs, dead)
           IN  /\ l \in DOMAIN e <=> l \in DOMAIN executable \/ some
               /\ l \in DOMAIN e =>
                     e[l] = IF alive \/ (l \in DOMAIN executable /\ executable[l] = 1) THEN 1
                            ELSE IF some THEN 2 ELSE executable[l]
<1> DEFINE ops == UNION {{<<h, p>> : p \in {q \in Positions(Code[h]) :
                                              Executable(Kind(Code[h], q))}} : h \in fs}
           lineOf(fp) == Code[fp[1]][fp[2]].line
           live == {lineOf(fp) : fp \in {o \in ops : dead => o[2] \in info[o[1]].reached}}
           lines == {lineOf(fp) : fp \in ops}
           known == DOMAIN executable
           e == PrefillLines(executable, fs, dead)
           alive == \E f \in fs : \E p \in Positions(Code[f]) :
                           HasLine(f, p, l) /\ (dead => p \in info[f].reached)
           some  == \E f \in fs : \E p \in Positions(Code[f]) : HasLine(f, p, l)
<1>1. \A fp : fp \in ops <=> \E f \in fs : \E p \in Positions(Code[f]) :
                                Executable(Kind(Code[f], p)) /\ fp = <<f, p>>
      OBVIOUS
<1>2. e = [x \in known \cup lines |->
               IF x \in live \/ (x \in known /\ executable[x] = 1) THEN 1
               ELSE IF \E fp \in ops : lineOf(fp) = x THEN 2 ELSE executable[x]]
      BY DEF PrefillLines
<1> HIDE DEF ops
<1>3. l \in live <=> alive
  <2>1. ASSUME l \in live
        PROVE  alive
    <3>1. PICK fp \in ops : (dead => fp[2] \in info[fp[1]].reached) /\ lineOf(fp) = l
          BY <2>1
    <3>2. PICK f \in fs : \E p \in Positions(Code[f]) :
                             Executable(Kind(Code[f], p)) /\ fp = <<f, p>>
          BY <1>1
    <3>3. PICK p \in Positions(Code[f]) : Executable(Kind(Code[f], p)) /\ fp = <<f, p>>
          BY <3>2
    <3>4. HasLine(f, p, l) /\ (dead => p \in info[f].reached)
          BY <3>1, <3>3 DEF HasLine
    <3> QED BY <3>4
  <2>2. ASSUME alive
        PROVE  l \in live
    <3>1. PICK f \in fs : \E p \in Positions(Code[f]) :
                           HasLine(f, p, l) /\ (dead => p \in info[f].reached)
          BY <2>2
    <3>2. PICK p \in Positions(Code[f]) : HasLine(f, p, l) /\ (dead => p \in info[f].reached)
          BY <3>1
    <3> DEFINE fp == <<f, p>>
    <3>3. fp \in ops /\ fp[1] = f /\ fp[2] = p
          BY <1>1, <3>2 DEF HasLine
    <3> HIDE DEF fp
    <3>4. lineOf(fp) = l /\ (dead => fp[2] \in info[fp[1]].reached)
          BY <3>2, <3>3 DEF HasLine
    <3> QED BY <3>3, <3>4
  <2> QED BY <2>1, <2>2
<1>4. (\E fp \in ops : lineOf(fp) = l) <=> some
  <2>1. ASSUME NEW fp \in ops, lineOf(fp) = l
        PROVE  some
    <3>2. PICK f \in fs : \E p \in Positions(Code[f]) :
                             Executable(Kind(Code[f], p)) /\ fp = <<f, p>>
          BY <1>1
    <3>3. PICK p \in Positions(Code[f]) : Executable(Kind(Code[f], p)) /\ fp = <<f, p>>
          BY <3>2
    <3>4. HasLine(f, p, l)
          BY <2>1, <3>3 DEF HasLine
    <3> QED BY <3>4
  <2>2. ASSUME some
        PROVE  \E fp \in ops : lineOf(fp) = l
    <3>1. PICK f \in fs : \E p \in Positions(Code[f]) : HasLine(f, p, l)
          BY <2>2
    <3>2. PICK p \in Positions(Code[f]) : HasLine(f, p, l)
          BY <3>1
    <3> DEFINE fp == <<f, p>>
    <3>3. fp \in ops /\ fp[1] = f /\ fp[2] = p
          BY <1>1, <3>2 DEF HasLine
    <3> HIDE DEF fp
    <3>4. lineOf(fp) = l
          BY <3>2, <3>3 DEF HasLine
    <3> QED BY <3>3, <3>4
  <2> QED BY <2>1, <2>2
<1>5. l \in lines <=> some
      BY <1>4
<1> HIDE DEF live, lines, some, alive
<1>6. /\ l \in DOMAIN e <=> l \in known \/ some
      /\ l \in DOMAIN e =>
            e[l] = IF alive \/ (l \in known /\ executable[l] = 1) THEN 1
                   ELSE IF some THEN 2 ELSE executable[l]
      BY <1>2, <1>3, <1>4, <1>5
<1> QED BY <1>6 DEF some, alive

InfoOK == info = [f \in Fn |-> Analysis(Code[f])]

LEMMA InfoSays ==
    ASSUME CoverageAssumption, InfoOK, NEW f \in Fn
    PROVE  /\ WellCompiled(Code[f]) /\ Positions(Code[f]) \subseteq Nat
           /\ info[f].reached = Reached(Code[f]) /\ info[f].reached \subseteq Positions(Code[f])
           /\ info[f].starts = Starts(Code[f]) /\ info[f].starts \subseteq info[f].reached
           /\ info[f].entries \subseteq {0} \cup Catches(Code[f])
           /\ {0} \cup Catches(Code[f]) \subseteq info[f].starts
<1>1. WellCompiled(Code[f])
      BY DEF CoverageAssumption
<1>2. /\ info[f].reached = Reached(Code[f]) /\ info[f].starts = Starts(Code[f])
      /\ info[f].entries = EntryPoints(Code[f])
      BY DEF Analysis, InfoOK
<1>3. {0} \cup Catches(Code[f]) \subseteq Starts(Code[f])
      BY DEF Starts
<1> QED BY <1>1, <1>2, <1>3, StartsReached, EntriesStart, PositionsNat

\* g and h agree on what has been hit, and on history.
SameHits(g, h) ==
    /\ h.hash.hit = g.hash.hit /\ h.hash.outs_hit = g.hash.outs_hit
    /\ h.hash.paths_hit = g.hash.paths_hit /\ h.visited = g.visited
    /\ h.followed = g.followed /\ h.whole = g.whole

\* h is g when functions have been analysed, of those in known.
Filled(g, h, known) ==
    /\ IsTables(h) /\ LinesOK(h, known) /\ SameHits(g, h) /\ h.wild = g.wild
    /\ h.paths = g.paths /\ h.last = g.last /\ g.hash.functions \subseteq h.hash.functions

LEMMA PrefillFromLines ==
    ASSUME CoverageAssumption, InfoOK, NEW g, IsTables(g),
           NEW known, LinesOK(g, known), NEW due \in SUBSET Fn, NEW skipped, due \ skipped \subseteq known,
           NEW h, h = PrefillFrom(g, due, skipped)
    PROVE  Filled(g, h, known)
<1> DEFINE fs == due \ skipped
           e == PrefillLines(g.hash.executable, fs, opts.dead)
           t == [f \in Fn |-> IF f \in due THEN g.startId ELSE g.tracker[f]]
           functions == IF opts.dead /\ opts.branch THEN g.hash.functions \cup fs
                        ELSE g.hash.functions
<1>1. h = [g EXCEPT !.tracker = t, !.hash = [g.hash EXCEPT !.executable = e, !.functions = functions]]
      BY DEF PrefillFrom, IsTables
<1> HIDE DEF e, t, functions
<1>2. /\ IsTables(h) /\ SameHits(g, h) /\ h.wild = g.wild /\ h.paths = g.paths /\ h.last = g.last
      /\ h.hash.counted = g.hash.counted /\ h.hash.executable = e /\ h.hash.functions = functions
      BY <1>1, ZenonT(60) DEF IsTables, SameHits
<1>3. /\ g.hash.functions \subseteq functions /\ functions \subseteq g.hash.functions \cup fs
      /\ functions # g.hash.functions => opts.dead
      BY DEF functions
<1> DEFINE Alive(l) == \E f \in fs : \E p \in Positions(Code[f]) :
                           HasLine(f, p, l) /\ (opts.dead => p \in info[f].reached)
           Some(l) == \E f \in fs : \E p \in Positions(Code[f]) : HasLine(f, p, l)
           x == g.hash.executable
<1>4. ASSUME NEW l
      PROVE  /\ l \in DOMAIN e <=> l \in DOMAIN x \/ Some(l)
             /\ l \in DOMAIN e => e[l] = IF Alive(l) \/ (l \in DOMAIN x /\ x[l] = 1) THEN 1
                                         ELSE IF Some(l) THEN 2 ELSE x[l]
      BY PrefillLinesAre DEF e
<1>5. ASSUME NEW l \in DOMAIN e, e[l] = 2
      PROVE  \E f \in Fn : DeadOn(f, l)
  <2>1. ~Alive(l)
        BY <1>4, <1>5
  <2>2. CASE Some(l)
    <3>1. PICK f \in fs : \E p \in Positions(Code[f]) : HasLine(f, p, l)
          BY <2>2
    <3>2. \A p \in Positions(Code[f]) : HasLine(f, p, l) => p \notin info[f].reached
          BY <2>1
    <3> QED BY <3>1, <3>2 DEF DeadOn
  <2>3. CASE ~Some(l)
    <3> HIDE DEF Alive, Some
    <3>1. l \in DOMAIN x /\ x[l] = 2
          BY <1>4, <1>5, <2>1, <2>3
    <3> QED BY <3>1 DEF LinesOK
  <2> QED BY <2>2, <2>3
<1>6. ASSUME NEW f \in functions, NEW p \in info[f].reached, Executable(Kind(Code[f], p)),
             NEW l, l = Code[f][p].line
      PROVE  l \in DOMAIN e /\ e[l] = 1
  <2>1. CASE f \in g.hash.functions
    <3>1. l \in DOMAIN x /\ x[l] = 1
          BY <1>6, <2>1 DEF LinesOK
    <3> HIDE DEF Alive, Some
    <3> QED BY <1>4, <3>1
  <2>2. CASE f \notin g.hash.functions
    <3>1. f \in fs /\ opts.dead /\ f \in Fn
          BY <1>3, <2>2
    <3>2. p \in Positions(Code[f])
          BY <3>1, InfoSays
    <3>3. HasLine(f, p, l)
          BY <1>6 DEF HasLine
    <3>4. Alive(l) /\ Some(l)
          BY <3>1, <3>2, <3>3
    <3> HIDE DEF Alive, Some
    <3> QED BY <1>4, <3>4
  <2> QED BY <2>1, <2>2
<1>7. \A l \in DOMAIN x : l \in DOMAIN e
      BY <1>4
<1> HIDE DEF Alive, Some
<1>8. LinesOK(h, known)
      BY <1>2, <1>3, <1>5, <1>6, <1>7 DEF LinesOK
<1> QED BY <1>2, <1>3, <1>8 DEF Filled

LEMMA PrefillLinesOK ==
    ASSUME CoverageAssumption, InfoOK, NEW g, IsTables(g),
           NEW known \in SUBSET Fn, NEW f \in known, NEW skipped, NEW K, LinesOK(g, K),
           K \subseteq known \ skipped, NEW h, h = Prefill(g, known, f, skipped)
    PROVE  Filled(g, h, known \ skipped)
<1> DEFINE table == known \ ({Main} \cup (IF g.classVisited THEN Methods ELSE {}))
           due == {e \in table \cup {f} : g.tracker[e] < g.startId}
<1>1. due \subseteq known
      OBVIOUS
<1>2. PICK k : k = PrefillFrom(g, due, skipped)
      OBVIOUS
<1>3. h = [k EXCEPT !.classVisited = k.classVisited \/ known \cap Methods # {}]
      BY <1>2 DEF Prefill
<1> HIDE DEF due
<1>7. PICK L : L = known \ skipped
      OBVIOUS
<1>4. LinesOK(g, L)
      BY <1>7 DEF LinesOK
<1>5. Filled(g, k, L)
  <2>1. due \in SUBSET Fn /\ due \ skipped \subseteq L
        BY <1>1, <1>7
  <2> QED BY <2>1, <1>2, <1>4, PrefillFromLines
<1>6. /\ IsTables(h) /\ h.hash = k.hash /\ h.wild = k.wild /\ h.paths = k.paths /\ h.last = k.last
      /\ h.visited = k.visited /\ h.followed = k.followed /\ h.whole = k.whole
      BY <1>3, <1>5 DEF IsTables, Filled
<1> QED BY <1>5, <1>6, <1>7 DEF LinesOK, SameHits, Filled

\* A slot of paths_stack has its parts.
IsSlot(path) ==
    path = [state |-> path.state, elements |-> path.elements] /\ IsSeq(path.elements)

\* As long as no function has branches, no slot has elements.
PathsOK(g) ==
    \A l \in 1..Len(g.paths) :
        IsSlot(g.paths[l]) /\ (g.hash.functions = {} => g.paths[l].elements = <<>>)

\* Outside the levels L, a slot is in h what it was in g, or has no elements.
KeepsPaths(g, h, L) ==
    \A i \in (1..Len(h.paths)) \ L :
        \/ i \in 1..Len(g.paths) /\ h.paths[i] = g.paths[i]
        \/ h.paths[i].elements = <<>>

LEMMA NoElements ==
    ASSUME NEW s, s = <<>>
    PROVE  IsSeq(s) /\ Len(s) = 0
<1>1. <<>> \in Seq({}) /\ Len(<<>>) = 0
      BY EmptySeq
<1>2. s \in Seq({}) /\ Len(s) = 0
      BY <1>1
<1>3. DOMAIN s = {}
      BY <1>2
<1>4. {s[i] : i \in DOMAIN s} = {}
      BY <1>3
<1> QED BY <1>2, <1>4 DEF IsSeq

LEMMA NewSlots ==
    /\ IsSlot(NullPath) /\ NullPath.elements = <<>> /\ NullPath.state = "null"
    /\ IsSlot(NewPath) /\ NewPath.elements = <<>> /\ NewPath.state = "live"
<1>1. /\ NullPath.elements = <<>> /\ NullPath.state = "null"
      /\ NewPath.elements = <<>> /\ NewPath.state = "live"
      BY DEF NullPath, NewPath
<1>2. /\ NullPath = [state |-> NullPath.state, elements |-> NullPath.elements]
      /\ NewPath = [state |-> NewPath.state, elements |-> NewPath.elements]
      BY <1>1 DEF NullPath, NewPath
<1>3. IsSeq(NullPath.elements) /\ IsSeq(NewPath.elements)
      BY <1>1, NoElements
<1> QED BY <1>1, <1>2, <1>3 DEF IsSlot

LEMMA MakeSurePaths ==
    ASSUME CoverageAssumption, NEW g, IsTables(g), PathsOK(g), NEW l \in Nat \ {0},
           NEW h, h = MakeSureLevelExists(g, l)
    PROVE  /\ PathsOK(h) /\ KeepsPaths(g, h, {}) /\ SameHits(g, h)
           /\ l \in 1..Len(g.paths) => h = g
           /\ l \notin 1..Len(g.paths) => h.paths[l].state = "null"
<1>1. /\ Len(g.paths) \in Nat /\ DOMAIN g.paths = 1..Len(g.paths)
      /\ Len(g.last) \in Nat /\ DOMAIN g.last = 1..Len(g.last)
      BY SeqShape DEF IsTables
<1>2. CASE l <= Len(g.paths)
  <2>1. h = g
        BY <1>2 DEF MakeSureLevelExists
  <2> QED BY <1>1, <1>2, <2>1 DEF KeepsPaths, SameHits
<1>3. CASE ~(l <= Len(g.paths))
  <2> DEFINE n == l + Chunk - 1
             paths == [i \in 1..n |-> IF i <= Len(g.paths) THEN g.paths[i] ELSE NullPath]
             last == [i \in 1..Len(g.last) |-> IF i > Len(g.paths) THEN Unset ELSE g.last[i]]
  <2>1. n \in Nat /\ l <= n
        BY DEF CoverageAssumption
  <2>2. h = [g EXCEPT !.paths = paths, !.last = last]
        BY <1>3 DEF MakeSureLevelExists
  <2>3. paths = [i \in 1..n |-> paths[i]]
        OBVIOUS
  <2>4. \A i \in 1..n : paths[i] = IF i <= Len(g.paths) THEN g.paths[i] ELSE NullPath
        OBVIOUS
  <2> HIDE DEF n, paths, last
  <2>5. IsSeq(paths) /\ Len(paths) = n
        BY <1>1, <2>1, <2>3, SeqMade
  <2>6. h.paths = paths /\ h.hash = g.hash /\ SameHits(g, h)
        BY <2>2 DEF IsTables, SameHits
  <2>7. ASSUME NEW i \in 1..n
        PROVE  /\ IsSlot(paths[i])
               /\ (i \in 1..Len(g.paths) /\ paths[i] = g.paths[i]) \/ paths[i].elements = <<>>
               /\ g.hash.functions = {} => paths[i].elements = <<>>
    <3>1. CASE i <= Len(g.paths)
      <4>1. i \in 1..Len(g.paths) /\ paths[i] = g.paths[i]
            BY <1>1, <2>1, <2>4, <3>1
      <4> QED BY <4>1 DEF PathsOK
    <3>2. CASE ~(i <= Len(g.paths))
      <4>1. paths[i] = NullPath
            BY <2>4, <3>2
      <4> QED BY <4>1, NewSlots
    <3> QED BY <3>1, <3>2
  <2>8. l \in 1..n /\ paths[l].state = "null"
    <3>1. l \in 1..n
          BY <2>1
    <3> QED BY <1>3, <2>4, <3>1, NewSlots
  <2> QED BY <1>1, <1>3, <2>5, <2>6, <2>7, <2>8 DEF PathsOK, KeepsPaths
<1> QED BY <1>2, <1>3


\* h is g when a call at level l has begun: its slots are empty.
Started(g, h, l) ==
    /\ LinesOK(h, compiled \ filtered) /\ SameHits(g, h) /\ PathsOK(h)
    /\ KeepsPaths(g, h, {l}) /\ l \in 1..Len(h.paths) /\ h.paths[l] = NewPath
    /\ l \in 1..Len(h.last) /\ h.last[l] = Unset

LEMMA StartHits ==
    ASSUME CoverageAssumption, InfoOK, compiled \subseteq Fn, NEW g, IsTables(g), PathsOK(g),
           LinesOK(g, compiled \ filtered), NEW f \in compiled, NEW l \in Nat \ {0},
           NEW r, r = StartOfFunction(g, f, l)
    PROVE  Started(g, r, l)
<1>1. PICK k : k = Prefill(g, compiled, f, filtered)
      OBVIOUS
<1>2. PICK h : h = MakeSureLevelExists(k, l)
      OBVIOUS
<1> DEFINE n == IF l > Len(h.last) THEN l + Chunk - 1 ELSE Len(h.last)
           last == [i \in 1..n |-> IF i = l THEN Unset
                                   ELSE IF i <= Len(h.last) THEN h.last[i] ELSE Junk]
           paths == [h.paths EXCEPT ![l] = NewPath]
<1>3. r = [h EXCEPT !.paths = paths, !.last = last]
      BY <1>1, <1>2 DEF StartOfFunction
<1>4. PICK K : K = compiled \ filtered
      OBVIOUS
<1>5. Filled(g, k, K)
  <2>1. compiled \in SUBSET Fn /\ K \subseteq compiled \ filtered /\ LinesOK(g, K)
        BY <1>4
  <2>2. Filled(g, k, compiled \ filtered)
        BY <1>1, <2>1, PrefillLinesOK
  <2> QED BY <1>4, <2>2
<1>6. /\ IsTables(k) /\ LinesOK(k, K) /\ SameHits(g, k)
      /\ k.paths = g.paths /\ k.last = g.last /\ g.hash.functions \subseteq k.hash.functions
      BY <1>5 DEF Filled
<1>7. PathsOK(k)
      BY <1>6 DEF PathsOK
<1>8. /\ IsTables(h) /\ h.hash = k.hash /\ l \in 1..Len(h.paths)
      BY <1>2, <1>6, MakeSureMakes
<1>9. PathsOK(h) /\ KeepsPaths(k, h, {}) /\ SameHits(k, h)
      BY <1>2, <1>6, <1>7, MakeSurePaths
<1>16. l \in 1..Len(last) /\ last[l] = Unset
  <2>1. n \in Nat /\ l \in 1..n
    <3>1. Len(h.last) \in Nat /\ Chunk \in Nat \ {0}
          BY <1>8, SeqShape DEF IsTables, CoverageAssumption
    <3> QED BY <3>1
  <2> HIDE DEF n
  <2>2. last = [i \in 1..n |-> last[i]]
        OBVIOUS
  <2>3. Len(last) = n
    <3> HIDE DEF last
    <3> QED BY <2>1, <2>2, SeqMade
  <2> QED BY <2>1, <2>3
<1> HIDE DEF n, last
<1>17. r.last = last
       BY <1>3, <1>8 DEF IsTables
<1>10. IsSeq(h.paths)
       BY <1>8 DEF IsTables
<1>11. /\ Len(paths) = Len(h.paths) /\ paths[l] = NewPath
       /\ \A i \in 1..Len(h.paths) : i # l => paths[i] = h.paths[i]
       BY <1>8, <1>10, SeqExcept
<1> HIDE DEF paths
<1>12. r.paths = paths /\ r.hash = h.hash /\ SameHits(h, r)
       BY <1>3, <1>8 DEF IsTables, SameHits
<1>13. LinesOK(r, K) /\ SameHits(g, r)
       BY <1>6, <1>8, <1>9, <1>12 DEF LinesOK, SameHits
<1>14. PathsOK(r)
       BY <1>9, <1>11, <1>12, NewSlots DEF PathsOK
<1>15. KeepsPaths(g, r, {l})
       BY <1>6, <1>9, <1>11, <1>12 DEF KeepsPaths
<1> QED BY <1>4, <1>8, <1>11, <1>12, <1>13, <1>14, <1>15, <1>16, <1>17 DEF Started

\* The path in the slot of level l is one of f.
EndsPath(g, f, l) ==
    /\ l \in 1..Len(g.paths) /\ g.paths[l].state # "null"
    /\ f \in g.hash.functions /\ g.paths[l].elements \in ToSet(info[f].paths)

\* h is g when the path at level l, of a call of f, has ended.
Ended(g, h, f, l) ==
    /\ SameFills(g, h) /\ h.hash.hit = g.hash.hit /\ h.hash.outs_hit = g.hash.outs_hit
    /\ h.visited = g.visited /\ h.followed = g.followed /\ h.whole = g.whole
    /\ PathsOK(h) /\ KeepsPaths(g, h, {l}) /\ l \in 1..Len(h.paths)
    /\ \/ l \in 1..Len(g.paths) /\ h.paths[l].elements = g.paths[l].elements
       \/ h.paths[l].elements = <<>>
    /\ h.hash.paths_hit = IF EndsPath(g, f, l)
                          THEN g.hash.paths_hit \cup {<<f, g.paths[l].elements>>}
                          ELSE g.hash.paths_hit
    /\ ~h.wild => ~g.wild /\ ~(l \in 1..Len(g.paths) /\ g.paths[l].state = "freed")

LEMMA EndHits ==
    ASSUME CoverageAssumption, NEW g, IsTables(g), PathsOK(g), NEW f, NEW l \in Nat \ {0},
           NEW r, r = EndOfFunction(g, f, l)
    PROVE  Ended(g, r, f, l)
<1>1. PICK h : h = MakeSureLevelExists(g, l)
      OBVIOUS
<1>2. /\ IsTables(h) /\ h.hash = g.hash /\ h.wild = g.wild /\ l \in 1..Len(h.paths)
      BY <1>1, MakeSureMakes
<1>3. /\ PathsOK(h) /\ KeepsPaths(g, h, {}) /\ SameHits(g, h)
      /\ l \in 1..Len(g.paths) => h = g
      /\ l \notin 1..Len(g.paths) => h.paths[l].state = "null"
      BY <1>1, MakeSurePaths
<1> DEFINE path == h.paths[l]
<1>4. /\ \/ l \in 1..Len(g.paths) /\ path = g.paths[l]
         \/ path.elements = <<>>
      /\ IsSlot(path) /\ (h.hash.functions = {} => path.elements = <<>>)
      BY <1>2, <1>3 DEF KeepsPaths, PathsOK
<1>5. CASE path.state = "null"
  <2>1. r = h
        BY <1>1, <1>5 DEF EndOfFunction
  <2>2. ~EndsPath(g, f, l)
        BY <1>3, <1>5 DEF EndsPath
  <2>3. ~(l \in 1..Len(g.paths) /\ g.paths[l].state = "freed")
        BY <1>3, <1>5
  <2>4. KeepsPaths(g, h, {l})
        BY <1>3 DEF KeepsPaths
  <2> QED BY <1>2, <1>3, <1>4, <2>1, <2>2, <2>3, <2>4 DEF Ended, SameFills, SameHits
<1>6. CASE path.state # "null"
  <2>1. l \in 1..Len(g.paths) /\ h = g /\ path = g.paths[l]
        BY <1>3, <1>6
  <2>2. PICK k : k = PathHit(h, f, path.elements)
        OBVIOUS
  <2> DEFINE hits == IF EndsPath(g, f, l)
                     THEN g.hash.paths_hit \cup {<<f, g.paths[l].elements>>}
                     ELSE g.hash.paths_hit
  <2>4. /\ k.wild = h.wild
        /\ k.paths = h.paths /\ SameFills(h, k)
        /\ k.hash.hit = h.hash.hit /\ k.hash.outs_hit = h.hash.outs_hit
        /\ k.visited = h.visited /\ k.followed = h.followed /\ k.whole = h.whole
        BY <1>2, <2>2 DEF PathHit, IsTables, SameFills
  <2>5. k.hash.paths_hit = hits
        BY <1>2, <1>6, <2>1, <2>2 DEF PathHit, IsTables, EndsPath
  <2> HIDE DEF hits
  <2>3. r = [k EXCEPT !.paths[l].state = "freed", !.wild = @ \/ path.state = "freed"]
        BY <1>1, <1>6, <2>2 DEF EndOfFunction
  <2> DEFINE slot == [k.paths[l] EXCEPT !.state = "freed"]
             paths == [k.paths EXCEPT ![l] = slot]
  <2>6. IsTables(k)
        BY <1>2, <2>2 DEF PathHit, IsTables
  <2>7. slot.elements = path.elements /\ IsSlot(slot)
        BY <1>4, <2>4 DEF IsSlot
  <2>8. r = [k EXCEPT !.paths = paths, !.wild = k.wild \/ path.state = "freed"]
        BY <2>3, <2>6 DEF IsTables
  <2> HIDE DEF slot
  <2>9. /\ Len(paths) = Len(h.paths) /\ paths[l] = slot
        /\ \A i \in 1..Len(h.paths) : i # l => paths[i] = h.paths[i]
    <3>1. IsSeq(k.paths) /\ l \in 1..Len(k.paths)
          BY <1>2, <2>4 DEF IsTables
    <3> QED BY <2>4, <3>1, SeqExcept
  <2> HIDE DEF paths
  <2>10. /\ r.hash = k.hash /\ r.paths = paths /\ r.wild = (k.wild \/ path.state = "freed")
         /\ r.visited = k.visited /\ r.followed = k.followed /\ r.whole = k.whole
         BY <2>6, <2>8 DEF IsTables
  <2>11. PathsOK(r)
    <3>1. r.hash.functions = h.hash.functions /\ r.paths = paths
          BY <2>4, <2>10 DEF SameFills
    <3> QED BY <1>3, <1>4, <2>7, <2>9, <3>1 DEF PathsOK
  <2>12. KeepsPaths(g, r, {l})
         BY <2>1, <2>9, <2>10 DEF KeepsPaths
  <2>13. r.paths[l].elements = g.paths[l].elements /\ l \in 1..Len(r.paths)
         BY <1>2, <2>1, <2>7, <2>9, <2>10
  <2>14. SameFills(g, r)
         BY <2>1, <2>4, <2>10 DEF SameFills
  <2> HIDE DEF path
  <2>15. /\ r.hash.hit = g.hash.hit /\ r.hash.outs_hit = g.hash.outs_hit
         /\ r.visited = g.visited /\ r.followed = g.followed /\ r.whole = g.whole
         /\ r.hash.paths_hit = hits
         BY <2>1, <2>4, <2>5, <2>10
  <2>16. ~r.wild => ~g.wild /\ ~(g.paths[l].state = "freed")
         BY <2>1, <2>4, <2>10
  <2> QED BY <2>1, <2>11, <2>12, <2>13, <2>14, <2>15, <2>16 DEF Ended, hits
<1> QED BY <1>5, <1>6

LEMMA MarkStartHits ==
    ASSUME NEW g, IsTables(g), PathsOK(g), NEW f \in g.hash.functions, NEW l \in Nat \ {0},
           NEW p, NEW prev, NEW r, MarkedAs(g, r, f, l, p, prev)
    PROVE  PathsOK(r) /\ KeepsPaths(g, r, {l})
<1>1. /\ Len(r.paths) = Len(g.paths) /\ r.hash.functions = g.hash.functions
      /\ \A i \in 1..Len(g.paths) : i # l => r.paths[i] = g.paths[i]
      BY DEF MarkedAs, SameFills
<1>2. ASSUME l \in 1..Len(g.paths)
      PROVE  IsSlot(r.paths[l])
  <2>1. IsSlot(g.paths[l])
        BY <1>2 DEF PathsOK
  <2>2. IsSeq(Append(g.paths[l].elements, p))
        BY <2>1, SeqAppend DEF IsSlot, Extends
  <2>3. \/ r.paths[l] = g.paths[l]
        \/ r.paths[l] = [g.paths[l] EXCEPT !.elements = Append(g.paths[l].elements, p)]
        BY <1>2 DEF MarkedAs
  <2> QED BY <2>1, <2>2, <2>3 DEF IsSlot
<1>3. PathsOK(r)
      BY <1>1, <1>2 DEF PathsOK
<1>4. KeepsPaths(g, r, {l})
      BY <1>1 DEF KeepsPaths
<1> QED BY <1>3, <1>4

-----------------------------------------------------------------------------
(* What the steps of a call hit *)

\* Only starts of branches are hit.
HitStarts(g) == \A x \in g.hash.hit : x[2] \in info[x[1]].starts

\* An out that was hit joins two branches that were, and a path that was hit
\* has only such branches.
HitMarks(g) ==
    /\ \A o \in g.hash.outs_hit : {<<o[1], o[2]>>, <<o[1], o[3]>>} \subseteq g.hash.hit
    /\ \A x \in g.hash.paths_hit : \A i \in 1..Len(x[2]) : <<x[1], x[2][i]>> \in g.hash.hit

\* The slots of level l have only branches of f that were hit.
HitSlot(g, f, l) ==
    /\ Holds(g, l) => <<f, g.last[l]>> \in g.hash.hit
    /\ l \in 1..Len(g.paths) =>
          \A i \in 1..Len(g.paths[l].elements) : <<f, g.paths[l].elements[i]>> \in g.hash.hit

\* h has come from g by what a call of f at level l has done.
HitStep(g, h, f, l) ==
    /\ PathsOK(h) /\ (HitStarts(g) => HitStarts(h)) /\ g.hash.hit \subseteq h.hash.hit
    /\ KeepsSlots(g, h, {l}) /\ KeepsPaths(g, h, {l}) /\ (g.wild => h.wild)
    /\ HitMarks(g) /\ HitSlot(g, f, l) /\ ~h.wild => HitMarks(h) /\ HitSlot(h, f, l)

LEMMA HitStepTwice ==
    ASSUME NEW g, NEW h, NEW k, NEW f, NEW l, HitStep(g, h, f, l), HitStep(h, k, f, l)
    PROVE  HitStep(g, k, f, l)
<1>1. KeepsSlots(g, k, {l})
      BY DEF HitStep, KeepsSlots
<1>2. KeepsPaths(g, k, {l})
      BY DEF HitStep, KeepsPaths
<1> QED BY <1>1, <1>2 DEF HitStep

\* g and h agree on the slots, and on what has been hit.
SameSlots(g, h) ==
    /\ h.paths = g.paths /\ h.last = g.last /\ h.wild = g.wild
    /\ h.hash.hit = g.hash.hit /\ h.hash.outs_hit = g.hash.outs_hit
    /\ h.hash.paths_hit = g.hash.paths_hit /\ g.hash.functions \subseteq h.hash.functions

LEMMA SameSlotsStep ==
    ASSUME NEW g, NEW h, PathsOK(g), SameSlots(g, h), NEW f, NEW l
    PROVE  HitStep(g, h, f, l)
<1>1. PathsOK(h)
      BY DEF SameSlots, PathsOK
<1>2. KeepsSlots(g, h, {l}) /\ KeepsPaths(g, h, {l})
      BY DEF SameSlots, KeepsSlots, KeepsPaths, Holds
<1>3. HitMarks(g) /\ HitSlot(g, f, l) => HitMarks(h) /\ HitSlot(h, f, l)
      BY DEF SameSlots, HitMarks, HitSlot, Holds
<1> QED BY <1>1, <1>2, <1>3 DEF HitStep, SameSlots, HitStarts

LEMMA StartStep ==
    ASSUME NEW g, NEW r, NEW f, NEW l, SameHits(g, r), PathsOK(r), KeepsPaths(g, r, {l}),
           r.paths[l] = NewPath, KeepsSlots(g, r, {}), ~Holds(r, l), r.wild = g.wild
    PROVE  HitStep(g, r, f, l)
<1>1. KeepsSlots(g, r, {l})
      BY DEF KeepsSlots
<1>2. r.paths[l].elements = <<>>
      BY NewSlots
<1>3. Len(r.paths[l].elements) = 0
      BY <1>2, NoElements
<1>4. HitSlot(r, f, l)
      BY <1>3 DEF HitSlot
<1>5. HitMarks(g) => HitMarks(r)
      BY DEF SameHits, HitMarks
<1> QED BY <1>1, <1>4, <1>5 DEF HitStep, SameHits, HitStarts

LEMMA EndStep ==
    ASSUME NEW g, NEW r, NEW f, NEW l, Ended(g, r, f, l), KeepsSlots(g, r, {})
    PROVE  HitStep(g, r, f, l)
<1>1. KeepsSlots(g, r, {l}) /\ (l \in Nat => (Holds(r, l) => Holds(g, l) /\ r.last[l] = g.last[l]))
      BY DEF KeepsSlots
<1>2. ASSUME HitMarks(g), HitSlot(g, f, l)
      PROVE  HitMarks(r)
  <2>1. ASSUME NEW x \in r.hash.paths_hit, NEW i \in 1..Len(x[2])
        PROVE  <<x[1], x[2][i]>> \in r.hash.hit
    <3>1. CASE x \in g.hash.paths_hit
          BY <1>2, <2>1, <3>1 DEF HitMarks, Ended
    <3>2. CASE x \notin g.hash.paths_hit
      <4>1. EndsPath(g, f, l) /\ x = <<f, g.paths[l].elements>>
            BY <2>1, <3>2 DEF Ended
      <4>2. x[1] = f /\ x[2] = g.paths[l].elements /\ l \in 1..Len(g.paths)
            BY <4>1 DEF EndsPath
      <4> QED BY <1>2, <2>1, <4>2 DEF HitSlot, Ended
    <3> QED BY <3>1, <3>2
  <2>2. \A o \in r.hash.outs_hit : {<<o[1], o[2]>>, <<o[1], o[3]>>} \subseteq r.hash.hit
        BY <1>2 DEF HitMarks, Ended
  <2> QED BY <2>1, <2>2 DEF HitMarks
<1>3. ASSUME HitSlot(g, f, l)
      PROVE  HitSlot(r, f, l)
  <2>1. Holds(r, l) => <<f, r.last[l]>> \in r.hash.hit
    <3>1. Holds(r, l) => l \in Nat
          BY DEF Holds
    <3> QED BY <1>1, <1>3, <3>1 DEF HitSlot, Ended
  <2>2. CASE r.paths[l].elements = <<>>
    <3>1. Len(r.paths[l].elements) = 0
          BY <2>2, NoElements
    <3> QED BY <2>1, <3>1 DEF HitSlot
  <2>3. CASE l \in 1..Len(g.paths) /\ r.paths[l].elements = g.paths[l].elements
        BY <1>3, <2>1, <2>3 DEF HitSlot, Ended
  <2> QED BY <2>2, <2>3 DEF Ended
<1> QED BY <1>1, <1>2, <1>3 DEF HitStep, Ended, HitStarts

LEMMA MarkStep ==
    ASSUME CoverageAssumption, NEW g, IsTables(g), PathsOK(g), NEW f \in Fn, f \in g.hash.functions,
           NEW l \in Nat \ {0}, NEW p \in info[f].starts, NEW prev \in LastBranches(g, f, l, p),
           NEW r, MarkedAs(g, r, f, l, p, prev)
    PROVE  HitStep(g, r, f, l)
<1>1. PathsOK(r) /\ KeepsPaths(g, r, {l})
      BY MarkStartHits
<1>2. KeepsSlots(g, r, {l})
      BY DEF KeepsSlots, Holds, MarkedAs
<1>3. HitStarts(g) => HitStarts(r)
      BY DEF HitStarts, MarkedAs
<1>4. ASSUME HitMarks(g), HitSlot(g, f, l), ~r.wild
      PROVE  HitMarks(r)
  <2>1. /\ l \in 1..Len(g.paths) /\ l \in 1..Len(g.last) /\ g.last[l] # Junk
        BY <1>4 DEF MarkedAs
  <2>2. prev = g.last[l]
        BY <2>1 DEF LastBranches
  <2>3. prev \in Positions(Code[f]) => Holds(g, l)
    <3>1. prev \in Positions(Code[f]) => prev \in Nat
          BY PositionsNat
    <3> QED BY <2>1, <2>2, <3>1 DEF Holds, Unset
  <2>4. ASSUME NEW o \in r.hash.outs_hit
        PROVE  {<<o[1], o[2]>>, <<o[1], o[3]>>} \subseteq r.hash.hit
    <3>1. CASE o \in g.hash.outs_hit
          BY <1>4, <2>4, <3>1 DEF HitMarks, MarkedAs
    <3>2. CASE o \notin g.hash.outs_hit
      <4>1. o = <<f, prev, p>> /\ prev \in Positions(Code[f])
            BY <2>4, <3>2 DEF MarkedAs
      <4>2. <<f, prev>> \in g.hash.hit
            BY <1>4, <2>2, <2>3, <4>1 DEF HitSlot
      <4> QED BY <4>1, <4>2 DEF MarkedAs
    <3> QED BY <3>1, <3>2
  <2>5. \A x \in r.hash.paths_hit : \A i \in 1..Len(x[2]) : <<x[1], x[2][i]>> \in r.hash.hit
        BY <1>4 DEF HitMarks, MarkedAs
  <2> QED BY <2>4, <2>5 DEF HitMarks
<1>5. ASSUME HitSlot(g, f, l), ~r.wild
      PROVE  HitSlot(r, f, l)
  <2>1. l \in 1..Len(g.paths) /\ l \in 1..Len(g.last) /\ r.last[l] = p
        BY <1>5 DEF MarkedAs
  <2>2. <<f, p>> \in r.hash.hit /\ g.hash.hit \subseteq r.hash.hit
        BY DEF MarkedAs
  <2> DEFINE e == g.paths[l].elements
  <2>3. IsSlot(g.paths[l]) /\ \A i \in 1..Len(e) : <<f, e[i]>> \in r.hash.hit
        BY <1>5, <2>1, <2>2 DEF HitSlot, PathsOK
  <2>4. CASE r.paths[l] = g.paths[l]
        BY <2>1, <2>2, <2>3, <2>4 DEF HitSlot
  <2>5. CASE r.paths[l] = [g.paths[l] EXCEPT !.elements = Append(e, p)]
    <3>1. r.paths[l].elements = Append(e, p) /\ IsSeq(e)
          BY <2>3, <2>5 DEF IsSlot
    <3> HIDE DEF e
    <3>2. PICK t : t = Append(e, p)
          OBVIOUS
    <3>3. Len(t) = Len(e) + 1 /\ t[Len(e) + 1] = p /\ \A i \in 1..Len(e) : t[i] = e[i]
          BY <3>1, <3>2, SeqAppend DEF Extends
    <3>4. Len(e) \in Nat
          BY <3>1, SeqShape
    <3>5. \A i \in 1..Len(t) : <<f, t[i]>> \in r.hash.hit
      <4>1. \A i \in 1..Len(t) : i \in 1..Len(e) \/ i = Len(e) + 1
            BY <3>3, <3>4
      <4> QED BY <2>2, <2>3, <3>3, <4>1
    <3> QED BY <2>1, <2>2, <3>1, <3>2, <3>5 DEF HitSlot
  <2> QED BY <2>1, <2>4, <2>5 DEF MarkedAs
<1> QED BY <1>1, <1>2, <1>3, <1>4, <1>5 DEF HitStep, MarkedAs

\* The tables have their lines, of functions in K, and only starts are hit.
Tab(g, K) == IsTables(g) /\ PathsOK(g) /\ HitStarts(g) /\ LinesOK(g, K)

LEMMA MarkReachedHits ==
    ASSUME CoverageAssumption, InfoOK, compiled \subseteq Fn, NEW g, Tab(g, compiled \ filtered),
           Analysed(g, filtered), NEW f \in compiled, NEW l \in Nat \ {0}, NEW p,
           NEW h \in MarkReached(g, f, l, p)
    PROVE  HitStep(g, h, f, l) /\ Tab(h, compiled \ filtered)
<1>1. IsTables(g) /\ PathsOK(g) /\ HitStarts(g) /\ LinesOK(g, compiled \ filtered) /\ f \in Fn
      BY DEF Tab
<1>2. HitStep(g, g, f, l)
  <2>1. SameSlots(g, g)
        BY DEF SameSlots
  <2> QED BY <1>1, <2>1, SameSlotsStep
<1>3. CASE f \notin g.hash.functions
  <2>1. h = g
        BY <1>3 DEF MarkReached
  <2> QED BY <1>2, <2>1
<1>4. CASE f \in g.hash.functions
  <2>1. PICK m : m = IF p # 0 /\ p \in info[f].entries
                     THEN StartOfFunction(EndOfFunction(g, f, l), f, l) ELSE g
        OBVIOUS
  <2>2. /\ HitStep(g, m, f, l) /\ IsTables(m) /\ LinesOK(m, compiled \ filtered)
        /\ g.hash.functions \subseteq m.hash.functions
    <3>1. CASE p # 0 /\ p \in info[f].entries
      <4>1. PICK e : e = EndOfFunction(g, f, l)
            OBVIOUS
      <4>2. Marked(g, e) /\ KeepsSlots(g, e, {})
            BY <1>1, <4>1, EndEnds
      <4>3. IsTables(e) /\ Analysed(e, filtered) /\ g.hash.functions \subseteq e.hash.functions
            BY <4>2, MarkedAnalysed DEF Marked, Grown
      <4>4. Ended(g, e, f, l)
            BY <1>1, <4>1, EndHits
      <4>5. HitStep(g, e, f, l)
            BY <4>2, <4>4, EndStep
      <4>6. LinesOK(e, compiled \ filtered) /\ PathsOK(e)
            BY <1>1, <4>4 DEF Ended, SameFills, LinesOK
      <4>7. m = StartOfFunction(e, f, l)
            BY <2>1, <3>1, <4>1
      <4>8. Grown(e, m) /\ KeepsSlots(e, m, {}) /\ ~Holds(m, l) /\ m.wild = e.wild
            BY <1>1, <4>3, <4>7, StartStarts
      <4>9. /\ LinesOK(m, compiled \ filtered) /\ SameHits(e, m) /\ PathsOK(m)
            /\ KeepsPaths(e, m, {l}) /\ m.paths[l] = NewPath
        <5>1. Started(e, m, l)
            BY <4>3, <4>6, <4>7, StartHits
        <5> QED BY <5>1 DEF Started
      <4>10. HitStep(e, m, f, l)
             BY <4>8, <4>9, StartStep
      <4>11. HitStep(g, m, f, l)
             BY <4>5, <4>10, HitStepTwice
      <4> QED BY <4>3, <4>8, <4>9, <4>11 DEF Grown
    <3>2. CASE ~(p # 0 /\ p \in info[f].entries)
          BY <1>1, <1>2, <2>1, <3>2
    <3> QED BY <3>1, <3>2
  <2>3. CASE p \notin info[f].starts
    <3>1. h = m
          BY <1>4, <2>1, <2>3 DEF MarkReached
    <3> QED BY <1>1, <2>2, <3>1 DEF HitStep, Tab
  <2>4. CASE p \in info[f].starts
    <3>1. PICK prev \in LastBranches(m, f, l, p) : h = MarkStart(m, f, l, p, prev)
          BY <1>4, <2>1, <2>4 DEF MarkReached
    <3>2. MarkedAs(m, h, f, l, p, prev)
          BY <2>2, <3>1, MarkStartIs
    <3>3. PathsOK(m) /\ f \in m.hash.functions
          BY <1>4, <2>2 DEF HitStep
    <3>4. HitStep(m, h, f, l)
          BY <1>1, <2>2, <2>4, <3>2, <3>3, MarkStep
    <3>5. HitStep(g, h, f, l)
          BY <2>2, <3>4, HitStepTwice
    <3>6. IsTables(h) /\ LinesOK(h, compiled \ filtered)
          BY <2>2, <3>2 DEF MarkedAs, SameFills, LinesOK
    <3> QED BY <1>1, <3>5, <3>6 DEF HitStep, Tab
  <2> QED BY <2>3, <2>4
<1> QED BY <1>3, <1>4

\* The call frame is at an opcode of its function, and unless the function has
\* a finally block that only exceptions enter, at one that the analysis reaches.
PcOK(frame) ==
    /\ Within(frame, Positions(Code[frame.fn]))
    /\ Finallys(Code[frame.fn]) \subseteq info[frame.fn].reached =>
          Within(frame, info[frame.fn].reached)

LEMMA CountedLines ==
    ASSUME NEW g, NEW K, Tab(g, K), NEW f \in Fn, NEW p \in Positions(Code[f]),
           RunOn(f, p, Code[f][p].line), NEW h, h = Counted(g, Code[f][p].line)
    PROVE  SameSlots(g, h) /\ LinesOK(h, K) /\ IsTables(h)
<1> DEFINE line == Code[f][p].line
           x == g.hash.executable
           e == CountLine(x, line)
           c == g.hash.counted \cup {line}
<1>1. /\ DOMAIN e = DOMAIN x \cup {line}
      /\ \A l \in DOMAIN e : e[l] = IF l \in DOMAIN x THEN x[l] ELSE 0
      BY DEF CountLine
<1>2. IsTables(g) /\ LinesOK(g, K)
      BY DEF Tab
<1> HIDE DEF e, c
<1>3. h = [g EXCEPT !.hash = [g.hash EXCEPT !.counted = c, !.executable = e]]
      BY <1>2 DEF IsTables, e, c, Counted
<1>4. h.hash = [g.hash EXCEPT !.counted = c, !.executable = e]
      /\ h.paths = g.paths /\ h.last = g.last /\ h.wild = g.wild
      BY <1>2, <1>3 DEF IsTables
<1>5. /\ SameSlots(g, h) /\ h.hash.counted = c /\ h.hash.executable = e
      /\ h.hash.functions = g.hash.functions
      BY <1>2, <1>4 DEF IsTables, SameSlots
<1>6. IsTables(h)
  <2>1. g.hash = [executable |-> g.hash.executable, counted |-> g.hash.counted,
                  functions |-> g.hash.functions, hit |-> g.hash.hit,
                  outs_hit |-> g.hash.outs_hit, paths_hit |-> g.hash.paths_hit]
        BY <1>2 DEF IsTables
  <2>2. h.hash = [executable |-> h.hash.executable, counted |-> h.hash.counted,
                  functions |-> h.hash.functions, hit |-> h.hash.hit,
                  outs_hit |-> h.hash.outs_hit, paths_hit |-> h.hash.paths_hit]
        BY <1>4, <2>1
  <2> QED BY <1>2, <1>3, <2>2 DEF IsTables
<1>7. \A l \in DOMAIN e : e[l] = 2 => \E k \in Fn : DeadOn(k, l)
      BY <1>1, <1>2 DEF LinesOK
<1>8. ASSUME NEW l \in c
      PROVE  l \in DOMAIN e /\ \E k \in Fn : \E q \in Positions(Code[k]) : RunOn(k, q, l)
  <2>1. CASE l = line
        BY <1>1, <2>1
  <2>2. CASE l # line
        BY <1>1, <1>2, <1>8, <2>2 DEF LinesOK, c
  <2> QED BY <2>1, <2>2
<1>9. ASSUME NEW k \in g.hash.functions, NEW q \in info[k].reached, Executable(Kind(Code[k], q)),
             NEW l, l = Code[k][q].line
      PROVE  l \in DOMAIN e /\ e[l] = 1
  <2>1. l \in DOMAIN x /\ x[l] = 1
        BY <1>2, <1>9 DEF LinesOK
  <2> QED BY <1>1, <2>1
<1>10. g.hash.functions \subseteq K
       BY <1>2 DEF LinesOK
<1>11. LinesOK(h, K)
       BY <1>5, <1>7, <1>8, <1>9, <1>10 DEF LinesOK
<1> QED BY <1>5, <1>6, <1>11

LEMMA FollowedSame ==
    ASSUME NEW g, IsTables(g), NEW frame, NEW h, h = Followed(g, frame)
    PROVE  /\ IsTables(h) /\ SameSlots(g, h) /\ SameFills(g, h) /\ h.visited = g.visited
           /\ h.followed = g.followed \cup {<<frame.fn, frame.trail>>}
           /\ h.whole = IF frame.whole /\ frame.fn \in g.hash.functions
                        THEN g.whole \cup {<<frame.fn, frame.trail>>} ELSE g.whole
<1> DEFINE done == {<<frame.fn, frame.trail>>}
           whole == IF frame.whole /\ frame.fn \in g.hash.functions
                    THEN g.whole \cup done ELSE g.whole
<1>1. h = [g EXCEPT !.followed = g.followed \cup done, !.whole = whole]
      BY DEF Followed, IsTables
<1> HIDE DEF done, whole
<1>2. IsTables(h) /\ h.followed = g.followed \cup done /\ h.whole = whole
      /\ h.visited = g.visited /\ h.hash = g.hash
      /\ h.paths = g.paths /\ h.last = g.last /\ h.wild = g.wild
      BY <1>1 DEF IsTables
<1> QED BY <1>2 DEF done, whole, SameSlots, SameFills

LEMMA WithTakenSame ==
    ASSUME NEW g, IsTables(g), NEW frame, NEW p, NEW h, h = WithTaken(g, frame, p)
    PROVE  /\ IsTables(h) /\ SameSlots(g, h) /\ SameFills(g, h) /\ h.visited = g.visited
           /\ ~Restarts(frame, p) => h.followed = g.followed /\ h.whole = g.whole
<1>1. CASE Restarts(frame, p)
      BY <1>1, FollowedSame DEF WithTaken
<1>2. CASE ~Restarts(frame, p) /\ p \in info[frame.fn].starts /\ frame.prev # Unset
  <2> DEFINE taken == g.taken \cup {<<frame.fn, frame.prev, p>>}
  <2>1. h = [g EXCEPT !.taken = taken]
        BY <1>2 DEF WithTaken, IsTables
  <2> HIDE DEF taken
  <2> QED BY <2>1 DEF IsTables, SameSlots, SameFills
<1>3. CASE ~Restarts(frame, p) /\ ~(p \in info[frame.fn].starts /\ frame.prev # Unset)
  <2>1. h = g
        BY <1>3 DEF WithTaken
  <2> QED BY <2>1 DEF SameSlots, SameFills
<1> QED BY <1>1, <1>2, <1>3

LEMMA SameTab ==
    ASSUME NEW g, NEW h, NEW K, Tab(g, K), IsTables(h), SameSlots(g, h), SameFills(g, h),
           NEW f, NEW l
    PROVE  Tab(h, K) /\ HitStep(g, h, f, l)
<1>1. HitStep(g, h, f, l)
      BY SameSlotsStep DEF Tab
<1> QED BY <1>1 DEF Tab, HitStep, SameFills, LinesOK

LEMMA HandledHits ==
    ASSUME CoverageAssumption, CoverageInv, stack # <<>>, Tab(xg, compiled \ filtered), PcOK(Top),
           NEW g \in Handled(xg, Top.fn, level, Top.pc), NEW k, k = WithTaken(g, Top, Top.pc)
    PROVE  HitStep(xg, k, Top.fn, level) /\ Tab(k, compiled \ filtered)
<1> DEFINE f == Top.fn
           p == Top.pc
<1>1. /\ level \in Nat \ {0} /\ f \in compiled /\ f \in Fn /\ compiled \subseteq Fn
      /\ InfoOK /\ Analysed(xg, filtered) /\ p \in Positions(Code[f])
      BY TopIs DEF CoverageInv, InOrder, TablesOK, InfoOK, PcOK, Within
<1>2. PICK K : K = compiled \ filtered
      OBVIOUS
<1>3. HitStep(xg, g, f, level) /\ Tab(g, K)
  <2>1. CASE g = xg
    <3>1. IsTables(xg) /\ SameSlots(xg, xg) /\ SameFills(xg, xg)
          BY DEF SameSlots, SameFills, Tab
    <3> QED BY <1>2, <2>1, <3>1, SameTab
  <2>2. CASE g # xg
    <3>1. PICK m \in MarkReached(xg, f, level, p) :
             \/ g = m
             \/ CountsLine(Kind(Code[f], p)) /\ g = Counted(m, Code[f][p].line)
          BY <2>2 DEF Handled
    <3>2. HitStep(xg, m, f, level) /\ Tab(m, K)
          BY <1>1, <1>2, MarkReachedHits
    <3>3. CASE g = m
          BY <3>2, <3>3
    <3>4. CASE g # m
      <4>1. Executable(Kind(Code[f], p))
            BY <3>1, <3>4 DEF CountsLine, Executable
      <4>2. RunOn(f, p, Code[f][p].line)
            BY <4>1 DEF RunOn, HasLine, PcOK, Within
      <4>3. SameSlots(m, g) /\ LinesOK(g, K) /\ IsTables(g)
            BY <1>1, <3>1, <3>2, <3>4, <4>2, CountedLines
      <4>4. HitStep(m, g, f, level)
            BY <3>2, <4>3, SameSlotsStep DEF HitStep
      <4> QED BY <3>2, <4>3, <4>4, HitStepTwice DEF Tab, HitStep
    <3> QED BY <3>3, <3>4
  <2> QED BY <2>1, <2>2
<1>4. IsTables(k) /\ SameSlots(g, k) /\ SameFills(g, k)
      BY <1>3, WithTakenSame DEF Tab
<1>5. Tab(k, K) /\ HitStep(g, k, f, level)
      BY <1>3, <1>4, SameTab
<1> QED BY <1>2, <1>3, <1>5, HitStepTwice

\* The line of a call is one that runs.
LEMMA CountHits ==
    ASSUME CoverageAssumption, CoverageInv, stack # <<>>, PcOK(Top),
           Kind(Code[Top.fn], Top.pc) = "call",
           NEW g, NEW K, Tab(g, K), NEW slot, NEW h, h = CountCall(g, slot)
    PROVE  Tab(h, K) /\ SameSlots(g, h)
<1> DEFINE f == Top.fn
           p == Top.pc
<1>1. CASE h = g
      BY <1>1 DEF SameSlots
<1>2. CASE h # g
  <2>1. h = Counted(g, Code[f][p].line)
        BY <1>2 DEF CountCall
  <2>2. f \in Fn /\ p \in Positions(Code[f])
        BY TopIs DEF PcOK, Within
  <2>3. Executable(Kind(Code[f], p))
        BY DEF Executable
  <2>4. RunOn(f, p, Code[f][p].line)
        BY <2>3 DEF RunOn, HasLine, PcOK, Within
  <2>5. SameSlots(g, h) /\ LinesOK(h, K) /\ IsTables(h)
        BY <2>1, <2>2, <2>4, CountedLines
  <2>6. HitStep(g, h, f, level)
        BY <2>5, SameSlotsStep DEF Tab
  <2> QED BY <2>5, <2>6 DEF HitStep, Tab
<1> QED BY <1>1, <1>2

LEMMA OtherSlot ==
    ASSUME NEW g, NEW h, NEW f, NEW l, HitStep(g, h, f, l), NEW e, NEW m \in Nat, m # l,
           HitSlot(g, e, m)
    PROVE  HitSlot(h, e, m)
<1>1. Holds(h, m) => <<e, h.last[m]>> \in h.hash.hit
      BY DEF HitStep, KeepsSlots, HitSlot
<1>2. ASSUME m \in 1..Len(h.paths), NEW i \in 1..Len(h.paths[m].elements)
      PROVE  <<e, h.paths[m].elements[i]>> \in h.hash.hit
  <2>1. CASE m \in 1..Len(g.paths) /\ h.paths[m] = g.paths[m]
        BY <1>2, <2>1 DEF HitStep, HitSlot
  <2>2. CASE h.paths[m].elements = <<>>
    <3>1. Len(h.paths[m].elements) = 0
          BY <2>2, NoElements
    <3> QED BY <1>2, <3>1
  <2> QED BY <1>2, <2>1, <2>2 DEF HitStep, KeepsPaths
<1> QED BY <1>1, <1>2 DEF HitSlot

-----------------------------------------------------------------------------
(* Where the calls in progress are *)

LEMMA CodeConfines ==
    ASSUME CoverageAssumption, InfoOK, NEW f \in Fn
    PROVE  /\ WellCompiled(Code[f]) /\ Confines(Code[f], Positions(Code[f]))
           /\ Finallys(Code[f]) \subseteq info[f].reached => Confines(Code[f], info[f].reached)
BY InfoSays, PositionsConfine, ReachedConfines

LEMMA PcSame ==
    ASSUME NEW frame, PcOK(frame), NEW t, t.fn = frame.fn, t.pc = frame.pc, t.back = frame.back
    PROVE  PcOK(t)
BY DEF PcOK, Within

\* A call that has gone on from where it was.
LEMMA PcGoes ==
    ASSUME CoverageAssumption, InfoOK, NEW frame, frame.fn \in Fn, PcOK(frame),
           NEW q \in Next_(frame), NEW t, t.fn = frame.fn, t.pc = q, t.back = BackAfter(frame)
    PROVE  PcOK(t)
<1>1. ASSUME NEW S, Confines(Code[frame.fn], S), Within(frame, S)
      PROVE  Within(t, S)
  <2>1. /\ Next_(frame) \subseteq S
        /\ \A b \in DOMAIN BackAfter(frame) : BackAfter(frame)[b] \in S \cup {Rethrow}
        BY <1>1, CodeConfines, NextWithin
  <2> QED BY <2>1 DEF Within
<1>2. PICK f \in Fn : f = frame.fn
      OBVIOUS
<1> QED BY <1>1, <1>2, CodeConfines DEF PcOK

\* A call goes on behind an opcode that has called a function.
LEMMA PcReturns ==
    ASSUME CoverageAssumption, InfoOK, NEW frame, frame.fn \in Fn, PcOK(frame),
           Kind(Code[frame.fn], frame.pc) = "call",
           NEW t, t.fn = frame.fn, t.pc = frame.pc + 1, t.back = frame.back
    PROVE  PcOK(t)
<1>1. ASSUME NEW S, Confines(Code[frame.fn], S), Within(frame, S)
      PROVE  Within(t, S)
  <2>1. /\ frame.pc \in S /\ frame.pc \in Positions(Code[frame.fn])
        /\ Onward(Code[frame.fn], frame.pc) \subseteq S
        BY <1>1 DEF Confines, Within
  <2>2. frame.pc + 1 \in Onward(Code[frame.fn], frame.pc)
        BY <2>1, CodeConfines, OnwardLeads
  <2> QED BY <1>1, <2>1, <2>2 DEF Within
<1>2. PICK f \in Fn : f = frame.fn
      OBVIOUS
<1> QED BY <1>1, <1>2, CodeConfines DEF PcOK

\* An exception takes a call to a handler.
LEMMA PcCatches ==
    ASSUME CoverageAssumption, InfoOK, NEW frame, frame.fn \in Fn, PcOK(frame),
           NEW q \in Handlers(Code[frame.fn]), NEW t, t.fn = frame.fn, t.pc = q,
           t.back = IF q \in Finallys(Code[frame.fn])
                    THEN Noting(frame.back, q, Rethrow) ELSE frame.back
    PROVE  PcOK(t)
<1>1. ASSUME NEW S, Confines(Code[frame.fn], S), Within(frame, S)
      PROVE  Within(t, S)
  <2>1. t.pc \in S
        BY <1>1 DEF Confines
  <2>2. ASSUME NEW b \in DOMAIN t.back
        PROVE  t.back[b] \in S \cup {Rethrow}
    <3>1. CASE t.back = Noting(frame.back, q, Rethrow)
          BY <1>1, <2>2, <3>1 DEF Noting, Within
    <3>2. CASE t.back = frame.back
          BY <1>1, <2>2, <3>2 DEF Within
    <3> QED BY <3>1, <3>2
  <2> QED BY <2>1, <2>2 DEF Within
<1>2. PICK f \in Fn : f = frame.fn
      OBVIOUS
<1> QED BY <1>1, <1>2, CodeConfines DEF PcOK

\* A call begins at its first opcode.
LEMMA PcBegins ==
    ASSUME CoverageAssumption, InfoOK, NEW t, t.fn \in Fn, t.pc = 0, t.back = <<>>
    PROVE  PcOK(t)
<1>1. DOMAIN t.back = {}
      OBVIOUS
<1>2. ASSUME NEW S, Confines(Code[t.fn], S)
      PROVE  Within(t, S)
      BY <1>1, <1>2 DEF Confines, Within
<1>3. PICK f \in Fn : f = t.fn
      OBVIOUS
<1> QED BY <1>2, <1>3, CodeConfines DEF PcOK

PcsOK(s) == \A l \in 1..Len(s) : PcOK(s[l])

SlotsHit(s, g) == \A l \in 1..Len(s) : HitSlot(g, s[l].fn, l)

\* Every call is at an opcode that can run, and what the tables have of hits
\* and of lines comes from such opcodes.
HitsAt(s, g) ==
    /\ Tab(g, compiled \ filtered) /\ PcsOK(s)
    /\ ~resumed /\ ~g.wild => HitMarks(g)
    /\ on /\ ~resumed /\ ~g.wild => SlotsHit(s, g)

HitsInv == HitsAt(stack, xg)

\* g are the tables when the opcode at hand has been handled.
HitsAfter(g) ==
    /\ Tab(g, compiled \ filtered) /\ (~resumed /\ ~g.wild => HitMarks(g))
    /\ on /\ ~resumed /\ ~g.wild => SlotsHit(stack, g)

LEMMA OpcodeHits ==
    ASSUME CoverageAssumption, CoverageInv, HitsInv, stack # <<>>,
           NEW g \in Handled(xg, Top.fn, level, Top.pc), NEW k, k = WithTaken(g, Top, Top.pc)
    PROVE  HitsAfter(k)
<1>1. /\ level \in Nat \ {0} /\ level \in 1..level /\ Top = stack[level] /\ Len(stack) = level
      BY TopIs DEF level
<1>2. PcOK(Top) /\ Tab(xg, compiled \ filtered)
      BY <1>1 DEF HitsInv, HitsAt, PcsOK
<1>3. HitStep(xg, k, Top.fn, level) /\ Tab(k, compiled \ filtered)
      BY <1>2, HandledHits
<1>4. ~k.wild => ~xg.wild
      BY <1>3 DEF HitStep
<1>5. ASSUME ~resumed, ~k.wild, on
      PROVE  HitMarks(k) /\ SlotsHit(stack, k)
  <2>1. HitMarks(xg) /\ SlotsHit(stack, xg)
        BY <1>4, <1>5 DEF HitsInv, HitsAt
  <2>2. HitSlot(xg, Top.fn, level)
        BY <1>1, <2>1 DEF SlotsHit
  <2>3. HitMarks(k) /\ HitSlot(k, Top.fn, level)
        BY <1>3, <1>5, <2>1, <2>2 DEF HitStep
  <2>4. ASSUME NEW l \in 1..level
        PROVE  HitSlot(k, stack[l].fn, l)
    <3>1. HitSlot(xg, stack[l].fn, l)
          BY <1>1, <2>1 DEF SlotsHit
    <3>2. CASE l = level
          BY <1>1, <2>3, <3>2
    <3>3. CASE l # level
          BY <1>3, <3>1, <3>3, OtherSlot
    <3> QED BY <3>2, <3>3
  <2> QED BY <1>1, <2>3, <2>4 DEF SlotsHit
<1>6. ASSUME ~resumed, ~k.wild, ~on
      PROVE  HitMarks(k)
  <2>1. g = xg
        BY <1>6 DEF Handled
  <2>2. SameSlots(xg, k)
        BY <1>2, <2>1, WithTakenSame DEF Tab
  <2> QED BY <1>4, <1>6, <2>2 DEF HitsInv, HitsAt, SameSlots, HitMarks
<1> QED BY <1>3, <1>5, <1>6 DEF HitsAfter

LEMMA CalledHits ==
    ASSUME CoverageAssumption, CoverageInv, HitsInv, stack # <<>>,
           Kind(Code[Top.fn], Top.pc) = "call", NEW slots, NEW k \in Called(slots)
    PROVE  HitsAfter(k)
<1>1. PICK g \in Handled(xg, Top.fn, level, Top.pc), slot \in slots :
             k = CountCall(WithTaken(g, Top, Top.pc), slot)
      BY DEF Called
<1>2. PICK j : j = WithTaken(g, Top, Top.pc)
      OBVIOUS
<1>3. HitsAfter(j) /\ k = CountCall(j, slot)
      BY <1>1, <1>2, OpcodeHits
<1>4. level \in 1..level /\ Top = stack[level] /\ Len(stack) = level
      BY TopIs DEF level
<1>5. PcOK(Top)
      BY <1>4 DEF HitsInv, HitsAt, PcsOK
<1>6. Tab(k, compiled \ filtered) /\ SameSlots(j, k)
      BY <1>3, <1>5, CountHits DEF HitsAfter
<1>7. /\ k.wild = j.wild
      /\ HitMarks(j) => HitMarks(k)
      /\ SlotsHit(stack, j) => SlotsHit(stack, k)
      BY <1>6 DEF SameSlots, HitMarks, SlotsHit, HitSlot, Holds
<1> QED BY <1>3, <1>6, <1>7 DEF HitsAfter

\* The calls s are those in progress when the call at hand has become top.
LEMMA HitsGoOn ==
    ASSUME CoverageInv, HitsInv, stack # <<>>, NEW top, top.fn = Top.fn, PcOK(top)
    PROVE  \A s : s = With(stack, level, top) =>
               /\ Len(s) = level /\ PcsOK(s) /\ \A g : SlotsHit(stack, g) => SlotsHit(s, g)
<1> SUFFICES ASSUME NEW s, s = With(stack, level, top)
             PROVE  /\ Len(s) = level /\ PcsOK(s)
                    /\ \A g : SlotsHit(stack, g) => SlotsHit(s, g)
    OBVIOUS
<1>1. /\ level \in 1..level /\ Top = stack[level] /\ Len(stack) = level
      BY TopIs DEF level
<1>2. /\ Len(s) = level /\ s[level] = top
      /\ \A l \in 1..level : l # level => s[l] = stack[l]
      BY TopBecomes
<1>3. PcsOK(s)
      BY <1>1, <1>2 DEF PcsOK, HitsInv, HitsAt
<1>4. \A l \in 1..level : s[l].fn = stack[l].fn
      BY <1>1, <1>2
<1> QED BY <1>1, <1>2, <1>3, <1>4 DEF SlotsHit

LEMMA HitsSettle ==
    ASSUME NEW s, NEW g, HitsAfter(g), PcsOK(s), SlotsHit(stack, g) => SlotsHit(s, g)
    PROVE  HitsAt(s, g)
BY DEF HitsAfter, HitsAt

LEMMA HitsKept ==
    ASSUME HitsAt(stack', xg'), UNCHANGED <<info, compiled, filtered, on, resumed>>
    PROVE  HitsInv'
<1>1. Tab(xg, compiled \ filtered)'
  <2>1. /\ IsTables(xg') /\ PathsOK(xg') /\ HitStarts(xg') /\ LinesOK(xg', compiled \ filtered)
        BY DEF HitsAt, Tab
  <2> QED BY <2>1 DEF Tab, HitStarts, LinesOK, DeadOn, RunOn
<1>2. PcsOK(stack)'
      BY DEF HitsAt, PcsOK, PcOK
<1>3. ~resumed' /\ ~xg'.wild => HitMarks(xg')
      BY DEF HitsAt
<1>4. on' /\ ~resumed' /\ ~xg'.wild => SlotsHit(stack', xg')
      BY DEF HitsAt
<1> QED BY <1>1, <1>2, <1>3, <1>4 DEF HitsInv, HitsAt

LEMMA EnteredBack ==
    ASSUME NEW frame, IsFrame(frame), NEW p
    PROVE  Entered(frame, p).fn = frame.fn /\ Entered(frame, p).pc = frame.pc
           /\ Entered(frame, p).back = frame.back
BY DEF IsFrame, Entered

\* The call at hand goes on at q, with what it has noted.
LEMMA HitsGo ==
    ASSUME CoverageAssumption, CoverageInv, HitsInv, stack # <<>>, NEW g, HitsAfter(g),
           NEW top, top.fn = Top.fn, PcOK(top), stack' = With(stack, level, top), xg' = g,
           UNCHANGED <<info, compiled, filtered, on, resumed>>
    PROVE  HitsInv'
<1>1. PcsOK(stack') /\ (SlotsHit(stack, g) => SlotsHit(stack', g))
      BY HitsGoOn
<1>2. HitsAt(stack', xg')
      BY <1>1, HitsSettle
<1> QED BY <1>2, HitsKept

LEMMA TopFacts ==
    ASSUME CoverageAssumption, CoverageInv, HitsInv, stack # <<>>
    PROVE  /\ IsFrame(Top) /\ Top.fn \in Fn /\ Top.fn \in compiled /\ PcOK(Top) /\ InfoOK
           /\ Entered(Top, Top.pc).fn = Top.fn /\ Entered(Top, Top.pc).pc = Top.pc
           /\ Entered(Top, Top.pc).back = Top.back /\ IsFrame(Entered(Top, Top.pc))
<1>1. /\ IsFrame(Top) /\ level \in 1..level /\ Top = stack[level] /\ Len(stack) = level
      BY TopIs DEF level
<1>2. PcOK(Top)
      BY <1>1 DEF HitsInv, HitsAt, PcsOK
<1> QED BY <1>1, <1>2, TopIs, EnteredBack, EnteredFrame DEF CoverageInv, InfoOK

LEMMA StepHits ==
    ASSUME CoverageAssumption, CoverageInv, HitsInv, Step
    PROVE  HitsInv'
<1>1. PICK q \in Next_(Top) :
             stack' = With(stack, level, GoesTo(Entered(Top, Top.pc), q, BackAfter(Top)))
      BY DEF Step, SetTop, With
<1>2. PICK g \in Handled(xg, Top.fn, level, Top.pc) : xg' = WithTaken(g, Top, Top.pc)
      BY DEF Step
<1>3. stack # <<>> /\ UNCHANGED <<info, compiled, filtered, on, resumed>>
      BY DEF Step
<1>4. HitsAfter(xg')
      BY <1>2, <1>3, OpcodeHits
<1>5. PICK frame : frame = Entered(Top, Top.pc)
      OBVIOUS
<1>6. PICK top : top = GoesTo(frame, q, BackAfter(Top))
      OBVIOUS
<1>7. /\ IsFrame(frame) /\ frame.fn = Top.fn /\ Top.fn \in Fn /\ PcOK(Top) /\ InfoOK
      BY <1>3, <1>5, TopFacts
<1>8. top.fn = Top.fn /\ top.pc = q /\ top.back = BackAfter(Top)
      BY <1>6, <1>7, Goes
<1>9. PcOK(top)
      BY <1>7, <1>8, PcGoes
<1>10. stack' = With(stack, level, top)
       BY <1>1, <1>5, <1>6
<1> QED BY <1>3, <1>4, <1>8, <1>9, <1>10, HitsGo

LEMMA ThrowHits ==
    ASSUME CoverageAssumption, CoverageInv, HitsInv, Throw
    PROVE  HitsInv'
<1>1. PICK g \in Handled(xg, Top.fn, level, Top.pc) : xg' = WithTaken(g, Top, Top.pc)
      BY DEF Throw
<1>2. /\ stack # <<>> /\ stack' = With(stack, level, Entered(Top, Top.pc))
      /\ UNCHANGED <<info, compiled, filtered, on, resumed>>
      BY DEF Throw, SetTop, With
<1>3. HitsAfter(xg')
      BY <1>1, <1>2, OpcodeHits
<1>4. PICK frame : frame = Entered(Top, Top.pc)
      OBVIOUS
<1>5. frame.fn = Top.fn /\ PcOK(frame)
      BY <1>2, <1>4, TopFacts, PcSame
<1>6. stack' = With(stack, level, frame)
      BY <1>2, <1>4
<1> QED BY <1>2, <1>3, <1>5, <1>6, HitsGo

LEMMA InternalThrowHits ==
    ASSUME CoverageAssumption, CoverageInv, HitsInv, InternalThrows
    PROVE  HitsInv'
<1>1. /\ stack # <<>> /\ Kind(Code[Top.fn], Top.pc) = "call"
      /\ stack' = With(stack, level, Entered(Top, Top.pc)) /\ xg' \in Called(InternalSlots)
      /\ UNCHANGED <<info, compiled, filtered, on, resumed>>
      BY DEF InternalThrows, AtCall, SetTop, With
<1>2. HitsAfter(xg')
      BY <1>1, CalledHits
<1>3. PICK frame : frame = Entered(Top, Top.pc)
      OBVIOUS
<1>4. frame.fn = Top.fn /\ PcOK(frame)
      BY <1>1, <1>3, TopFacts, PcSame
<1>5. stack' = With(stack, level, frame)
      BY <1>1, <1>3
<1> QED BY <1>1, <1>2, <1>4, <1>5, HitsGo

LEMMA CatchHits ==
    ASSUME CoverageAssumption, CoverageInv, HitsInv, Catch
    PROVE  HitsInv'
<1> DEFINE Back(q) == IF q \in Finallys(Code[Top.fn])
                      THEN Noting(Top.back, q, Rethrow) ELSE Top.back
<1>1. PICK q \in Handlers(Code[Top.fn]) : stack' = With(stack, level, GoesTo(Top, q, Back(q)))
      BY DEF Catch, SetTop, With
<1>2. stack # <<>> /\ xg' = xg /\ UNCHANGED <<info, compiled, filtered, on, resumed>>
      BY DEF Catch
<1>3. HitsAfter(xg')
      BY <1>2 DEF HitsInv, HitsAt, HitsAfter
<1>4. IsFrame(Top) /\ Top.fn \in Fn /\ PcOK(Top) /\ InfoOK
      BY <1>2, TopFacts
<1>5. PICK back : back = Back(q)
      OBVIOUS
<1>6. PICK top : top = GoesTo(Top, q, back)
      OBVIOUS
<1>7. top.fn = Top.fn /\ top.pc = q /\ top.back = back
      BY <1>4, <1>6, Goes
<1>8. PcOK(top)
      BY <1>4, <1>5, <1>7, PcCatches
<1>9. stack' = With(stack, level, top)
      BY <1>1, <1>5, <1>6
<1> QED BY <1>2, <1>3, <1>7, <1>8, <1>9, HitsGo

\* A call opcode has been handled, and the call at hand goes on behind it.
LEMMA CallGoesOn ==
    ASSUME CoverageAssumption, CoverageInv, HitsInv, stack # <<>>,
           Kind(Code[Top.fn], Top.pc) = "call",
           NEW k, NEW slots, k \in Called(slots) \/ \E g \in Handled(xg, Top.fn, level, Top.pc) :
                                                  k = WithTaken(g, Top, Top.pc)
    PROVE  /\ HitsAfter(k)
           /\ \A s : s = [stack EXCEPT ![level] = [Entered(Top, Top.pc) EXCEPT !.pc = @ + 1]] =>
                 IsSeq(s) /\ Len(s) = level /\ HitsAt(s, k)
<1>1. HitsAfter(k)
      BY CalledHits, OpcodeHits
<1>2. PICK frame : frame = Entered(Top, Top.pc)
      OBVIOUS
<1>3. PICK top : top = [frame EXCEPT !.pc = @ + 1]
      OBVIOUS
<1>4. /\ frame.fn = Top.fn /\ frame.pc = Top.pc /\ frame.back = Top.back
      /\ IsFrame(frame) /\ Top.fn \in Fn /\ PcOK(Top) /\ InfoOK
      BY <1>2, TopFacts
<1>5. top.fn = Top.fn /\ top.pc = Top.pc + 1 /\ top.back = Top.back
      BY <1>3, <1>4 DEF IsFrame
<1>6. PcOK(top)
      BY <1>4, <1>5, PcReturns
<1>7. ASSUME NEW s, s = [stack EXCEPT ![level] = [Entered(Top, Top.pc) EXCEPT !.pc = @ + 1]]
      PROVE  IsSeq(s) /\ Len(s) = level /\ HitsAt(s, k)
  <2>1. s = With(stack, level, top)
        BY <1>2, <1>3, <1>7 DEF With
  <2>2. PcsOK(s) /\ (SlotsHit(stack, k) => SlotsHit(s, k))
        BY <1>5, <1>6, <2>1, HitsGoOn
  <2>3. IsSeq(s) /\ Len(s) = level
        BY <2>1, TopBecomes
  <2> QED BY <1>1, <2>2, <2>3, HitsSettle
<1> QED BY <1>1, <1>7

LEMMA InternalHits ==
    ASSUME CoverageAssumption, CoverageInv, HitsInv, Internal \/ SetFilter
    PROVE  HitsInv'
<1>1. /\ stack # <<>> /\ Kind(Code[Top.fn], Top.pc) = "call"
      /\ stack' = [stack EXCEPT ![level] = [Entered(Top, Top.pc) EXCEPT !.pc = @ + 1]]
      /\ UNCHANGED <<info, compiled, filtered, on, resumed>>
      BY DEF Internal, SetFilter, CallInternal, AtCall, Resume, SetTop
<1>2. xg' \in Called(InternalSlots)
      BY DEF Internal, SetFilter, CallInternal
<1>3. HitsAt(stack', xg')
      BY <1>1, <1>2, CallGoesOn
<1> QED BY <1>1, <1>3, HitsKept

\* The calls s are those in progress, but for how much coverage has seen.
LEMMA NotWholeHits ==
    ASSUME CoverageAssumption, CoverageInv, HitsInv, stack # <<>>,
           Kind(Code[Top.fn], Top.pc) = "call"
    PROVE  \A s : s = NotWhole =>
               /\ Len(s) = level /\ PcsOK(s) /\ \A l \in 1..level : s[l].fn = stack[l].fn
<1>1. SUFFICES ASSUME NEW s, s = NotWhole
               PROVE  /\ Len(s) = level /\ PcsOK(s)
                      /\ \A l \in 1..level : s[l].fn = stack[l].fn
      OBVIOUS
<1>2. PICK frame : frame = Entered(Top, Top.pc)
      OBVIOUS
<1>3. /\ frame.fn = Top.fn /\ frame.pc = Top.pc /\ frame.back = Top.back
      /\ IsFrame(frame) /\ Top.fn \in Fn /\ PcOK(Top) /\ InfoOK
      BY <1>2, TopFacts
<1>4. /\ level \in Nat \ {0} /\ level \in 1..level /\ Top = stack[level] /\ Len(stack) = level
      /\ \A l \in 1..level : IsFrame(stack[l])
      BY TopIs DEF CoverageInv, InOrder, FramesOK, level
<1>5. Rests(s, frame)
      BY <1>1, <1>2, <1>3, NotWholeRests
<1>6. Len(s) = level /\ \A l \in 1..level : s[l].fn = stack[l].fn
      BY <1>3, <1>4, <1>5 DEF Rests
<1> DEFINE c(l) == IF l < level THEN stack[l] ELSE [frame EXCEPT !.pc = @ + 1]
<1>7. s = [l \in 1..level |-> [c(l) EXCEPT !.whole = FALSE]]
      BY <1>1, <1>2 DEF NotWhole
<1>8. ASSUME NEW l \in 1..level
      PROVE  PcOK(s[l])
  <2>1. s[l] = [c(l) EXCEPT !.whole = FALSE]
        BY <1>7
  <2>2. CASE l < level
    <3>1. s[l] = [stack[l] EXCEPT !.whole = FALSE] /\ IsFrame(stack[l]) /\ PcOK(stack[l])
          BY <1>4, <2>1, <2>2 DEF HitsInv, HitsAt, PcsOK
    <3>2. s[l].fn = stack[l].fn /\ s[l].pc = stack[l].pc /\ s[l].back = stack[l].back
          BY <3>1 DEF IsFrame
    <3> QED BY <3>1, <3>2, PcSame
  <2>3. CASE ~(l < level)
    <3>1. PICK top : top = [frame EXCEPT !.pc = @ + 1]
          OBVIOUS
    <3>2. s[l] = [top EXCEPT !.whole = FALSE]
          BY <2>1, <2>3, <3>1
    <3>3. s[l].fn = Top.fn /\ s[l].pc = Top.pc + 1 /\ s[l].back = Top.back
          BY <1>3, <3>1, <3>2 DEF IsFrame
    <3> QED BY <1>3, <3>3, PcReturns
  <2> QED BY <2>2, <2>3
<1>9. PcsOK(s)
      BY <1>6, <1>8 DEF PcsOK
<1> QED BY <1>6, <1>9

\* As long as no function has branches, no slot has any.
LEMMA EmptySlots ==
    ASSUME NEW g, PathsOK(g), NoneHeld(g), g.hash.functions = {}, NEW f, NEW l \in Nat
    PROVE  HitSlot(g, f, l)
<1>1. ~Holds(g, l)
      BY DEF NoneHeld
<1>2. ASSUME l \in 1..Len(g.paths)
      PROVE  Len(g.paths[l].elements) = 0
  <2>1. g.paths[l].elements = <<>>
        BY <1>2 DEF PathsOK
  <2> QED BY <2>1, NoElements
<1> QED BY <1>1, <1>2 DEF HitSlot

LEMMA StartHitsKept ==
    ASSUME CoverageAssumption, CoverageInv, HitsInv, StartCodeCoverage
    PROVE  HitsInv'
<1>1. /\ stack # <<>> /\ Kind(Code[Top.fn], Top.pc) = "call" /\ stack' = NotWhole
      /\ resumed' = (resumed \/ xg.hash # EmptyHash) /\ UNCHANGED <<info, compiled, filtered>>
      BY DEF StartCodeCoverage, CallInternal, AtCall
<1>2. xg' \in Called(InternalSlots)
      BY DEF StartCodeCoverage, CallInternal
<1>3. PICK h : h = xg'
      OBVIOUS
<1>4. PICK s : s = stack'
      OBVIOUS
<1>5. HitsAfter(h)
      BY <1>1, <1>2, <1>3, CalledHits
<1>6. Len(s) = level /\ PcsOK(s) /\ level \in Nat
      BY <1>1, <1>4, NotWholeHits, TopIs
<1>7. NoneHeld(h) /\ (xg.hash.functions = {} => h.hash.functions = {})
      BY <1>1, <1>2, <1>3, CallHandled DEF OpcodeDone
<1>8. EmptyHash.functions = {}
      BY DEF EmptyHash
<1>9. ASSUME ~resumed'
      PROVE  ~resumed /\ SlotsHit(s, h)
  <2>1. ~resumed /\ h.hash.functions = {}
        BY <1>1, <1>7, <1>8, <1>9
  <2>2. \A l \in 1..Len(s) : HitSlot(h, s[l].fn, l)
        BY <1>5, <1>6, <1>7, <2>1, EmptySlots DEF HitsAfter, Tab
  <2> QED BY <2>1, <2>2 DEF SlotsHit
<1>10. Tab(xg, compiled \ filtered)'
  <2>1. /\ IsTables(h) /\ PathsOK(h) /\ HitStarts(h) /\ LinesOK(h, compiled \ filtered)
        BY <1>5 DEF HitsAfter, Tab
  <2>2. /\ IsTables(xg') /\ PathsOK(xg') /\ HitStarts(xg') /\ LinesOK(xg', compiled \ filtered)
        BY <1>3, <2>1
  <2> QED BY <1>1, <2>2 DEF Tab, HitStarts, LinesOK, DeadOn, RunOn
<1>11. PcsOK(stack)'
       BY <1>1, <1>4, <1>6 DEF PcsOK, PcOK
<1>12. ~resumed' /\ ~xg'.wild => HitMarks(xg')
       BY <1>3, <1>5, <1>9 DEF HitsAfter
<1> QED BY <1>3, <1>4, <1>9, <1>10, <1>11, <1>12 DEF HitsInv, HitsAt

LEMMA CleanedHits ==
    ASSUME NEW g, IsTables(g), NEW K, NEW h, h = Cleaned(g)
    PROVE  Tab(h, K) /\ HitMarks(h)
<1>1. h = [g EXCEPT !.hash = EmptyHash, !.paths = <<>>, !.followed = {}, !.whole = {},
                    !.taken = {}, !.startId = g.startId + 1]
      BY DEF Cleaned, CleanedSameId, IsTables
<1>2. h.hash = EmptyHash /\ h.paths = <<>> /\ h.last = g.last
      BY <1>1 DEF IsTables
<1>3. IsSeq(h.paths) /\ Len(h.paths) = 0
      BY <1>2, NoElements
<1>4. IsTables(h)
      BY <1>1, <1>2, <1>3 DEF IsTables, EmptyHash
<1>5. /\ DOMAIN h.hash.executable = {} /\ h.hash.counted = {} /\ h.hash.functions = {}
      /\ h.hash.hit = {} /\ h.hash.outs_hit = {} /\ h.hash.paths_hit = {}
      BY <1>2 DEF EmptyHash
<1> QED BY <1>3, <1>4, <1>5 DEF Tab, PathsOK, HitStarts, LinesOK, HitMarks

LEMMA StopHits ==
    ASSUME CoverageAssumption, CoverageInv, HitsInv, StopCodeCoverage
    PROVE  HitsInv'
<1>1. /\ stack # <<>> /\ Kind(Code[Top.fn], Top.pc) = "call" /\ stack' = NotWhole
      /\ on' = FALSE /\ UNCHANGED <<info, compiled, filtered, resumed>>
      BY DEF StopCodeCoverage, CallInternal, AtCall
<1>3. PICK k \in Called(InternalSlots) : xg' = k \/ xg' = Cleaned(k)
      BY DEF StopCodeCoverage, CallInternal
<1>4. HitsAfter(k)
      BY <1>1, <1>3, CalledHits
<1>5. PICK h : h = xg'
      OBVIOUS
<1>6. Tab(h, compiled \ filtered) /\ (~resumed /\ ~h.wild => HitMarks(h))
  <2>1. CASE h = k
        BY <1>4, <2>1 DEF HitsAfter
  <2>2. CASE h = Cleaned(k)
    <3>1. IsTables(k)
          BY <1>4 DEF HitsAfter, Tab
    <3> QED BY <2>2, <3>1, CleanedHits
  <2> QED BY <1>3, <1>5, <2>1, <2>2
<1>7. PICK s : s = stack'
      OBVIOUS
<1>8. PcsOK(s)
      BY <1>1, <1>7, NotWholeHits
<1>9. Tab(xg, compiled \ filtered)'
  <2>1. /\ IsTables(h) /\ PathsOK(h) /\ HitStarts(h) /\ LinesOK(h, compiled \ filtered)
        BY <1>6 DEF Tab
  <2>2. /\ IsTables(xg') /\ PathsOK(xg') /\ HitStarts(xg') /\ LinesOK(xg', compiled \ filtered)
        BY <1>5, <2>1
  <2> QED BY <1>1, <2>2 DEF Tab, HitStarts, LinesOK, DeadOn, RunOn
<1>10. PcsOK(stack)'
       BY <1>1, <1>7, <1>8 DEF PcsOK, PcOK
<1> QED BY <1>1, <1>5, <1>6, <1>9, <1>10 DEF HitsInv, HitsAt

\* A call begins, with slots that hold nothing.
LEMMA EnterHits ==
    ASSUME CoverageAssumption, InfoOK, compiled \subseteq Fn, NEW t, IsSeq(t), NEW g, HitsAt(t, g),
           Analysed(g, filtered), NoneHeld(g),
           on /\ ~resumed /\ g.hash.functions # {} => opts.unused,
           NEW f \in compiled, NEW n, n.fn = f, n.pc = 0, n.back = <<>>
    PROVE  \A s, h : /\ s = Append(t, n)
                     /\ h = IF Covers THEN StartOfFunction(g, f, Len(t) + 1) ELSE g
                     => HitsAt(s, h)
<1>1. SUFFICES ASSUME NEW s, s = Append(t, n), NEW h,
                      h = IF Covers THEN StartOfFunction(g, f, Len(t) + 1) ELSE g
               PROVE  HitsAt(s, h)
      OBVIOUS
<1> DEFINE m == Len(t) + 1
<1>2. /\ IsSeq(s) /\ Len(s) = m /\ s[m] = n /\ Len(t) \in Nat
      /\ \A l \in 1..Len(t) : s[l] = t[l]
      BY <1>1, SeqAppend, SeqShape DEF Extends
<1>3. m \in Nat \ {0} /\ f \in Fn /\ \A l \in 1..m : l \in Nat /\ (l = m \/ (l \in 1..Len(t) /\ l # m))
      BY <1>2
<1> HIDE DEF m
<1>4. Tab(g, compiled \ filtered) /\ PcsOK(t) /\ (~resumed /\ ~g.wild => HitMarks(g))
      /\ (on /\ ~resumed /\ ~g.wild => SlotsHit(t, g))
      BY DEF HitsAt
<1>5. PcsOK(s)
  <2>1. PcOK(n)
        BY <1>3, PcBegins
  <2> QED BY <1>2, <1>3, <1>4, <2>1 DEF PcsOK
<1>6. CASE Covers
  <2>1. h = StartOfFunction(g, f, m)
        BY <1>1, <1>6 DEF m
  <2>2. IsTables(g) /\ PathsOK(g) /\ HitStarts(g) /\ LinesOK(g, compiled \ filtered)
        BY <1>4 DEF Tab
  <2>3. Grown(g, h) /\ KeepsSlots(g, h, {}) /\ ~Holds(h, m) /\ h.wild = g.wild
        BY <1>3, <2>1, <2>2, StartStarts
  <2>4. /\ LinesOK(h, compiled \ filtered) /\ SameHits(g, h) /\ PathsOK(h)
        /\ KeepsPaths(g, h, {m}) /\ m \in 1..Len(h.paths) /\ h.paths[m] = NewPath
        /\ m \in 1..Len(h.last) /\ h.last[m] = Unset
    <3>1. Started(g, h, m)
        BY <1>3, <2>1, <2>2, StartHits
    <3> QED BY <3>1 DEF Started
  <2>5. HitStep(g, h, f, m)
        BY <2>3, <2>4, StartStep
  <2>6. Tab(h, compiled \ filtered)
        BY <2>2, <2>3, <2>4, <2>5 DEF Tab, HitStep, Grown
  <2>7. HitMarks(g) => HitMarks(h)
        BY <2>4 DEF SameHits, HitMarks
  <2>8. HitSlot(h, f, m)
    <3>1. h.paths[m].elements = <<>>
          BY <2>4, NewSlots
    <3>2. Len(h.paths[m].elements) = 0
          BY <3>1, NoElements
    <3> QED BY <2>3, <3>2 DEF HitSlot
  <2>9. ASSUME on, ~resumed, ~h.wild, NEW l \in 1..m
        PROVE  HitSlot(h, s[l].fn, l)
    <3>1. CASE l \in 1..Len(t) /\ l # m
      <4>1. HitSlot(g, t[l].fn, l)
            BY <1>4, <2>3, <2>9, <3>1 DEF SlotsHit
      <4>2. l \in Nat
            BY <1>3
      <4> QED BY <1>2, <2>5, <3>1, <4>1, <4>2, OtherSlot
    <3>2. CASE l = m
          BY <1>2, <2>8, <3>2
    <3> QED BY <1>3, <3>1, <3>2
  <2> QED BY <1>2, <1>4, <1>5, <2>3, <2>6, <2>7, <2>9 DEF HitsAt, SlotsHit
<1>7. CASE ~Covers
  <2>1. h = g
        BY <1>1, <1>7
  <2>2. ASSUME on, ~resumed, ~g.wild, NEW l \in 1..m
        PROVE  HitSlot(g, s[l].fn, l)
    <3>1. g.hash.functions = {}
          BY <1>7, <2>2 DEF Covers
    <3>2. l \in Nat
          BY <1>3
    <3> QED BY <1>4, <3>1, <3>2, EmptySlots DEF Tab
  <2> QED BY <1>2, <1>4, <1>5, <2>1, <2>2 DEF HitsAt, SlotsHit
<1> QED BY <1>6, <1>7

LEMMA CallHits ==
    ASSUME CoverageAssumption, CoverageInv, HitsInv, Call
    PROVE  HitsInv'
<1>1. PICK f \in compiled :
         AtCall(f) /\ \E g \in Called({f \in filtered}) : EnterFunction(f, g)
      BY DEF Call
<1>2. PICK k \in Called({f \in filtered}) : EnterFunction(f, k)
      BY <1>1
<1>3. stack # <<>> /\ Kind(Code[Top.fn], Top.pc) = "call"
      BY <1>1 DEF AtCall
<1>5. PICK t : t = [stack EXCEPT ![level] = [Entered(Top, Top.pc) EXCEPT !.pc = @ + 1]]
      OBVIOUS
<1>6. PICK n : n = [fn |-> f, pc |-> 0, back |-> <<>>, init |-> Covers, prev |-> Unset,
                    known |-> (compiled \cup {f}) \ (filtered \cup {Main}),
                    seen |-> {}, trail |-> <<>>, whole |-> Covers]
      OBVIOUS
<1>7. /\ stack' = Append(t, n)
      /\ xg' = IF Covers THEN StartOfFunction(k, f, level + 1) ELSE k
      /\ UNCHANGED <<info, compiled, filtered, on, resumed>>
      BY <1>2, <1>3, <1>5, <1>6 DEF EnterFunction
<1>8. IsSeq(t) /\ Len(t) = level /\ HitsAt(t, k)
      BY <1>2, <1>3, <1>5, CallGoesOn
<1>9. /\ Grown(xg, k) /\ Analysed(k, filtered) /\ NoneHeld(k)
      /\ xg.hash.functions = {} => k.hash.functions = {}
      BY <1>2, <1>3, CallHandled DEF OpcodeDone
<1>10. /\ compiled \subseteq Fn /\ InfoOK
       /\ on /\ ~resumed /\ k.hash.functions # {} => opts.unused
       BY <1>9 DEF CoverageInv, InOrder, TablesOK, InfoOK
<1>11. n.fn = f /\ n.pc = 0 /\ n.back = <<>>
       BY <1>6
<1>12. HitsAt(stack', xg')
       BY <1>7, <1>8, <1>9, <1>10, <1>11, EnterHits
<1> QED BY <1>7, <1>12, HitsKept

LEMMA RunScriptHits ==
    ASSUME CoverageAssumption, CoverageInv, HitsInv, RunScript
    PROVE  HitsInv'
<1>1. PICK n : n = [fn |-> Main, pc |-> 0, back |-> <<>>, init |-> Covers, prev |-> Unset,
                    known |-> (compiled \cup {Main}) \ (filtered \cup {Main}),
                    seen |-> {}, trail |-> <<>>, whole |-> Covers]
      OBVIOUS
<1>2. PICK t : t = <<>>
      OBVIOUS
<1>3. /\ t = stack /\ Main \in compiled /\ stack' = Append(t, n)
      /\ xg' = IF Covers THEN StartOfFunction(xg, Main, level + 1) ELSE xg
      /\ UNCHANGED <<info, compiled, filtered, on, resumed>>
      BY <1>1, <1>2 DEF RunScript, EnterFunction
<1>4. Len(t) = level /\ IsSeq(t) /\ HitsAt(t, xg)
      BY <1>3 DEF level, HitsInv, CoverageInv, InOrder, FramesOK
<1>5. /\ compiled \subseteq Fn /\ InfoOK /\ Analysed(xg, filtered) /\ NoneHeld(xg)
      /\ on /\ ~resumed /\ xg.hash.functions # {} => opts.unused
      BY DEF CoverageInv, InOrder, TablesOK, InfoOK
<1>6. n.fn = Main /\ n.pc = 0 /\ n.back = <<>>
      BY <1>1
<1>7. HitsAt(stack', xg')
      BY <1>3, <1>4, <1>5, <1>6, EnterHits
<1> QED BY <1>3, <1>7, HitsKept

\* A call ends: its path is looked up, and the calls below it go on.
LEMMA LeaveHits ==
    ASSUME CoverageAssumption, CoverageInv, HitsInv, stack # <<>>, NEW g, HitsAfter(g),
           NEW frame, frame.fn = Top.fn, LeaveFunction(g, frame)
    PROVE  HitsInv'
<1>1. PICK e : e = IF Covers /\ frame.init THEN EndOfFunction(g, Top.fn, level) ELSE g
      OBVIOUS
<1>2. PICK h : h = Followed(e, frame)
      OBVIOUS
<1>3. PICK s : s = Front(stack)
      OBVIOUS
<1>4. xg' = h /\ stack' = s /\ UNCHANGED <<info, compiled, filtered, on, resumed>>
      BY <1>1, <1>2, <1>3 DEF LeaveFunction
<1>5. /\ level \in Nat \ {0} /\ level \in 1..level /\ Top = stack[level] /\ Len(stack) = level
      /\ IsSeq(stack)
      BY TopIs DEF CoverageInv, InOrder, FramesOK, level
<1>6. Len(s) = level - 1 /\ \A l \in 1..Len(s) : s[l] = stack[l]
      BY <1>3, <1>5, SeqFront
<1>7. \A l \in 1..Len(s) : l \in 1..level /\ l # level /\ l \in Nat
      BY <1>5, <1>6
<1>8. PcsOK(s)
      BY <1>5, <1>6, <1>7 DEF PcsOK, HitsInv, HitsAt
<1>9. Tab(g, compiled \ filtered)
      BY DEF HitsAfter
<1>10. /\ HitStep(g, e, Top.fn, level) /\ Tab(e, compiled \ filtered)
       /\ ~Covers => e = g
  <2>1. CASE Covers /\ frame.init
    <3>1. e = EndOfFunction(g, Top.fn, level)
          BY <1>1, <2>1
    <3>2. IsTables(g) /\ PathsOK(g) /\ HitStarts(g) /\ LinesOK(g, compiled \ filtered)
          BY <1>9 DEF Tab
    <3>3. Ended(g, e, Top.fn, level)
          BY <1>5, <3>1, <3>2, EndHits
    <3>4. KeepsSlots(g, e, {}) /\ IsTables(e)
          BY <1>5, <3>1, <3>2, EndEnds DEF Marked, Grown
    <3>5. HitStep(g, e, Top.fn, level)
          BY <3>3, <3>4, EndStep
    <3>6. LinesOK(e, compiled \ filtered)
          BY <3>2, <3>3 DEF Ended, SameFills, LinesOK
    <3> QED BY <2>1, <3>2, <3>4, <3>5, <3>6 DEF Tab, HitStep
  <2>2. CASE ~(Covers /\ frame.init)
    <3>1. e = g
          BY <1>1, <2>2
    <3>2. SameSlots(g, g)
          BY DEF SameSlots
    <3> QED BY <1>9, <3>1, <3>2, SameSlotsStep DEF Tab
  <2> QED BY <2>1, <2>2
<1>11. IsTables(h) /\ SameSlots(e, h) /\ SameFills(e, h)
       BY <1>2, <1>10, FollowedSame DEF Tab
<1>12. HitStep(g, h, Top.fn, level) /\ Tab(h, compiled \ filtered)
  <2>1. HitStep(e, h, Top.fn, level) /\ Tab(h, compiled \ filtered)
        BY <1>10, <1>11, SameTab
  <2> QED BY <1>10, <2>1, HitStepTwice
<1>13. ~h.wild => ~g.wild
       BY <1>12 DEF HitStep
<1>14. ASSUME ~resumed, ~h.wild
       PROVE  HitMarks(h) /\ (on => SlotsHit(s, h))
  <2>1. CASE on
    <3>1. HitMarks(g) /\ SlotsHit(stack, g)
          BY <1>13, <1>14, <2>1 DEF HitsAfter
    <3>2. HitSlot(g, Top.fn, level)
          BY <1>5, <3>1 DEF SlotsHit
    <3>3. HitMarks(h)
          BY <1>12, <1>14, <3>1, <3>2 DEF HitStep
    <3>4. ASSUME NEW l \in 1..Len(s)
          PROVE  HitSlot(h, s[l].fn, l)
      <4>1. HitSlot(g, s[l].fn, l)
            BY <1>5, <1>6, <1>7, <3>1 DEF SlotsHit
      <4>2. l \in Nat /\ l # level
            BY <1>7
      <4> QED BY <1>12, <4>1, <4>2, OtherSlot
    <3> QED BY <3>3, <3>4 DEF SlotsHit
  <2>2. CASE ~on
    <3>1. e = g /\ HitMarks(g)
          BY <1>10, <1>13, <1>14, <2>2 DEF HitsAfter, Covers
    <3> QED BY <1>11, <2>2, <3>1 DEF SameSlots, HitMarks
  <2> QED BY <2>1, <2>2
<1>15. HitsAt(s, h)
       BY <1>8, <1>12, <1>14 DEF HitsAt
<1> QED BY <1>4, <1>15, HitsKept

LEMMA ReturnHits ==
    ASSUME CoverageAssumption, CoverageInv, HitsInv, Return
    PROVE  HitsInv'
<1>1. PICK g \in Handled(xg, Top.fn, level, Top.pc) :
             LeaveFunction(WithTaken(g, Top, Top.pc), Entered(Top, Top.pc))
      BY DEF Return
<1>2. stack # <<>>
      BY DEF Return
<1>3. PICK k : k = WithTaken(g, Top, Top.pc)
      OBVIOUS
<1>4. PICK frame : frame = Entered(Top, Top.pc)
      OBVIOUS
<1>5. HitsAfter(k)
      BY <1>2, <1>3, OpcodeHits
<1>6. frame.fn = Top.fn
      BY <1>2, <1>4, TopFacts
<1>7. LeaveFunction(k, frame)
      BY <1>1, <1>3, <1>4
<1> QED BY <1>2, <1>5, <1>6, <1>7, LeaveHits

LEMMA UnwindHits ==
    ASSUME CoverageAssumption, CoverageInv, HitsInv, Unwind
    PROVE  HitsInv'
<1>1. stack # <<>> /\ LeaveFunction(xg, Top)
      BY DEF Unwind
<1>2. HitsAfter(xg)
      BY DEF HitsInv, HitsAt, HitsAfter
<1> QED BY <1>1, <1>2, LeaveHits

\* The engine gets to know f.
LEMMA CompileHits ==
    ASSUME CoverageAssumption, CoverageInv, NEW f \in Fn, Compile(f),
           NEW g, HitsAt(stack', g), NEW slot,
           slot \/ (stack # <<>> /\ Kind(Code[Top.fn], Top.pc) = "call" /\ PcOK(Top)),
           xg' = CountCall(IF on /\ opts.unused THEN Prefill(g, compiled', f, filtered') ELSE g,
                           slot)
    PROVE  HitsInv'
<1>1. /\ f \notin compiled /\ compiled' = compiled \cup {f} /\ compiled \subseteq Fn
      /\ filtered' = IF FilteredNow(f) THEN filtered \cup {f} ELSE filtered
      /\ UNCHANGED <<info, on, resumed>> /\ filtered \subseteq compiled /\ InfoOK
      BY DEF Compile, CoverageInv, InfoOK
<1>2. PICK known : known = compiled'
      OBVIOUS
<1>3. PICK skipped : skipped = filtered'
      OBVIOUS
<1>4. PICK K : K = compiled \ filtered
      OBVIOUS
<1>5. known \in SUBSET Fn /\ f \in known /\ K \subseteq known \ skipped
      BY <1>1, <1>2, <1>3, <1>4
<1>6. PICK h : h = xg'
      OBVIOUS
<1>16. PICK m : m = IF on /\ opts.unused THEN Prefill(g, compiled', f, filtered') ELSE g
       OBVIOUS
<1>7. PICK s : s = stack'
      OBVIOUS
<1>8. /\ Tab(g, K) /\ PcsOK(s) /\ (~resumed /\ ~g.wild => HitMarks(g))
      /\ (on /\ ~resumed /\ ~g.wild => SlotsHit(s, g))
      BY <1>4, <1>7 DEF HitsAt
<1>9. IsTables(g) /\ PathsOK(g) /\ HitStarts(g) /\ LinesOK(g, K)
      BY <1>8 DEF Tab
<1>17. IsTables(m) /\ SameSlots(g, m) /\ LinesOK(m, known \ skipped)
  <2>1. CASE on /\ opts.unused
    <3>1. m = Prefill(g, known, f, skipped)
          BY <1>2, <1>3, <1>16, <2>1
    <3>2. Filled(g, m, known \ skipped)
          BY <1>1, <1>5, <1>9, <3>1, PrefillLinesOK
    <3> QED BY <3>2 DEF Filled, SameHits, SameSlots
  <2>2. CASE ~(on /\ opts.unused)
    <3>1. m = g
          BY <1>16, <2>2
    <3>2. LinesOK(g, known \ skipped)
          BY <1>5, <1>9 DEF LinesOK
    <3> QED BY <1>9, <3>1, <3>2 DEF SameSlots
  <2> QED BY <2>1, <2>2
<1>18. PathsOK(m) /\ HitStarts(m)
       BY <1>9, <1>17 DEF SameSlots, PathsOK, HitStarts
<1>10. IsTables(h) /\ SameSlots(g, h) /\ LinesOK(h, known \ skipped)
  <2>1. h = CountCall(m, slot)
        BY <1>6, <1>16
  <2>2. Tab(m, known \ skipped)
        BY <1>17, <1>18 DEF Tab
  <2>3. CASE slot
    <3>1. h = m
          BY <2>1, <2>3 DEF CountCall
    <3> QED BY <1>17, <3>1
  <2>4. CASE ~slot
    <3>1. Tab(h, known \ skipped) /\ SameSlots(m, h)
          BY <2>1, <2>2, <2>4, CountHits
    <3> QED BY <1>17, <3>1 DEF Tab, SameSlots
  <2> QED BY <2>3, <2>4
<1>11. /\ PathsOK(h) /\ HitStarts(h) /\ h.wild = g.wild
       /\ HitMarks(g) => HitMarks(h)
       /\ SlotsHit(s, g) => SlotsHit(s, h)
       BY <1>9, <1>10 DEF SameSlots, PathsOK, HitStarts, HitMarks, SlotsHit, HitSlot, Holds
<1>12. Tab(xg, compiled \ filtered)'
  <2>1. /\ IsTables(xg') /\ PathsOK(xg') /\ HitStarts(xg') /\ LinesOK(xg', compiled' \ filtered')
        BY <1>2, <1>3, <1>6, <1>10, <1>11
  <2> QED BY <1>1, <2>1 DEF Tab, HitStarts, LinesOK, DeadOn, RunOn
<1>13. PcsOK(stack)'
       BY <1>1, <1>7, <1>8 DEF PcsOK, PcOK
<1>14. ~resumed' /\ ~xg'.wild => HitMarks(xg')
       BY <1>1, <1>6, <1>8, <1>11
<1>15. on' /\ ~resumed' /\ ~xg'.wild => SlotsHit(stack', xg')
       BY <1>1, <1>6, <1>7, <1>8, <1>11
<1> QED BY <1>12, <1>13, <1>14, <1>15 DEF HitsInv, HitsAt

LEMMA CompileScriptHits ==
    ASSUME CoverageAssumption, CoverageInv, HitsInv, CompileScript
    PROVE  HitsInv'
<1>1. /\ Compile(Main) /\ UNCHANGED stack
      /\ xg' = IF on /\ opts.unused THEN Prefill(xg, compiled', Main, filtered') ELSE xg
      BY DEF CompileScript
<1>2. Main \in Fn /\ HitsAt(stack', xg)
      BY <1>1 DEF CoverageAssumption, HitsInv
<1>5. xg' = CountCall(IF on /\ opts.unused THEN Prefill(xg, compiled', Main, filtered') ELSE xg,
                      TRUE)
      BY <1>1 DEF CountCall
<1> QED BY <1>1, <1>2, <1>5, CompileHits

LEMMA IncludeHits ==
    ASSUME CoverageAssumption, CoverageInv, HitsInv, Include
    PROVE  HitsInv'
<1>1. PICK f \in Fn : Compile(f) /\
         \E g \in Handled(xg, Top.fn, level, Top.pc) :
            xg' = LET h == WithTaken(g, Top, Top.pc)
                  IN  CountCall(IF on /\ opts.unused THEN Prefill(h, compiled', f, filtered')
                                ELSE h, f \in filtered')
      BY DEF Include
<1>2. PICK g \in Handled(xg, Top.fn, level, Top.pc) :
            xg' = LET h == WithTaken(g, Top, Top.pc)
                  IN  CountCall(IF on /\ opts.unused THEN Prefill(h, compiled', f, filtered')
                                ELSE h, f \in filtered')
      BY <1>1
<1>3. /\ stack # <<>> /\ Kind(Code[Top.fn], Top.pc) = "call"
      /\ stack' = [stack EXCEPT ![level] = [Entered(Top, Top.pc) EXCEPT !.pc = @ + 1]]
      BY <1>1 DEF Include, AtCall, SetTop
<1>4. PICK k : k = WithTaken(g, Top, Top.pc)
      OBVIOUS
<1>5. HitsAt(stack', k) /\ PcOK(Top)
      BY <1>3, <1>4, CallGoesOn, TopFacts
<1>6. xg' = CountCall(IF on /\ opts.unused THEN Prefill(k, compiled', f, filtered') ELSE k,
                      f \in filtered')
      BY <1>2, <1>4
<1> QED BY <1>1, <1>3, <1>5, <1>6, CompileHits

LEMMA HitsInit ==
    ASSUME Init
    PROVE  HitsInv
<1>1. PICK g : g = xg
      OBVIOUS
<1>2. g = Tables /\ stack = <<>>
      BY <1>1 DEF Init
<1>3. /\ g.hash = EmptyHash /\ g.paths = <<>> /\ g.last = <<>>
      BY <1>2 DEF Tables
<1>4. IsSeq(<<>>) /\ Len(<<>>) = 0
      BY NoElements
<1>5. IsTables(g)
      BY <1>2, <1>4 DEF Tables, EmptyHash, IsTables
<1>6. /\ DOMAIN g.hash.executable = {} /\ g.hash.counted = {} /\ g.hash.functions = {}
      /\ g.hash.hit = {} /\ g.hash.outs_hit = {} /\ g.hash.paths_hit = {}
      BY <1>3 DEF EmptyHash
<1>7. Tab(g, compiled \ filtered) /\ HitMarks(g)
      BY <1>3, <1>4, <1>5, <1>6 DEF Tab, PathsOK, HitStarts, LinesOK, HitMarks
<1>8. PcsOK(stack) /\ SlotsHit(stack, g)
      BY <1>2, <1>4 DEF PcsOK, SlotsHit
<1> QED BY <1>1, <1>7, <1>8 DEF HitsInv, HitsAt

\* In every state of every request, each call is at an opcode of its function
\* that the analysis reaches, but for finally blocks that exceptions alone
\* enter, and whatever the tables have of hits and of lines comes from there.
THEOREM HitsInvariant == Spec => []HitsInv
<1>1. Init => HitsInv
      BY HitsInit
<1>2. CoverageInv /\ HitsInv /\ [Next]_vars => HitsInv'
  <2> SUFFICES ASSUME CoverageInv, HitsInv, [Next]_vars PROVE HitsInv'
      OBVIOUS
  <2>1. CASE UNCHANGED vars
    <3>1. UNCHANGED <<info, stack, compiled, filtered, on, resumed, xg>>
          BY <2>1 DEF vars
    <3>2. HitsAt(stack', xg')
          BY <3>1 DEF HitsInv
    <3> QED BY <3>1, <3>2, HitsKept
  <2>2. CASE CompileScript
        BY <2>2, CoverageAssumption, CompileScriptHits
  <2>3. CASE Include
        BY <2>3, CoverageAssumption, IncludeHits
  <2>4. CASE RunScript
        BY <2>4, CoverageAssumption, RunScriptHits
  <2>5. CASE Step
        BY <2>5, CoverageAssumption, StepHits
  <2>6. CASE Throw
        BY <2>6, CoverageAssumption, ThrowHits
  <2>14. CASE InternalThrows
         BY <2>14, CoverageAssumption, InternalThrowHits
  <2>7. CASE Catch
        BY <2>7, CoverageAssumption, CatchHits
  <2>8. CASE Call
        BY <2>8, CoverageAssumption, CallHits
  <2>9. CASE Return
        BY <2>9, CoverageAssumption, ReturnHits
  <2>10. CASE Unwind
         BY <2>10, CoverageAssumption, UnwindHits
  <2>11. CASE Internal \/ SetFilter
         BY <2>11, CoverageAssumption, InternalHits
  <2>12. CASE StartCodeCoverage
         BY <2>12, CoverageAssumption, StartHitsKept
  <2>13. CASE StopCodeCoverage
         BY <2>13, CoverageAssumption, StopHits
  <2> QED BY <2>1, <2>2, <2>3, <2>4, <2>5, <2>6, <2>7, <2>8, <2>9, <2>10, <2>11, <2>12, <2>13,
             <2>14
          DEF Next
<1> QED BY <1>1, <1>2, CoverageInvariant, PTL DEF Spec

LEMMA DeadLinesExplained ==
    ASSUME HitsInv, NEW l \in xg.hash.counted, xg.hash.executable[l] = 2
    PROVE  \/ \E f, h \in OnLine(l) : f # h
           \/ \E f \in OnLine(l) : ~(Finallys(Code[f]) \subseteq info[f].reached)
<1>1. LinesOK(xg, compiled \ filtered)
      BY DEF HitsInv, HitsAt, Tab
<1>2. PICK f \in Fn : \E p \in Positions(Code[f]) : RunOn(f, p, l)
      BY <1>1 DEF LinesOK
<1>3. PICK p \in Positions(Code[f]) : RunOn(f, p, l)
      BY <1>2
<1>4. PICK h \in Fn : DeadOn(h, l)
      BY <1>1 DEF LinesOK
<1>5. f \in OnLine(l) /\ h \in OnLine(l)
      BY <1>3, <1>4 DEF OnLine, RunOn, DeadOn, HasLine
<1>6. f = h => ~(Finallys(Code[f]) \subseteq info[f].reached)
      BY <1>3, <1>4 DEF RunOn, DeadOn
<1> QED BY <1>5, <1>6

LEMMA PartsAgree ==
    ASSUME CoverageAssumption, CoverageInv, HitsInv, Sound, NEW f \in xg.hash.functions
    PROVE  LET branches == BranchReport(f)
               paths    == PathReport(f)
           IN  /\ \A p \in DOMAIN branches :
                     /\ branches[p].hit /\ Executable(Kind(Code[f], p)) =>
                           Report.lines[Code[f][p].line] # -2
                     /\ branches[p].out_hit # {} => branches[p].hit
                     /\ \A q \in branches[p].out_hit : branches[q].hit
               /\ \A path \in DOMAIN paths : paths[path] =>
                     \A i \in 1..Len(path) : branches[path[i]].hit
<1>1. /\ LinesOK(xg, compiled \ filtered) /\ HitStarts(xg) /\ HitMarks(xg)
      BY DEF HitsInv, HitsAt, Tab, Sound
<1>2. f \in Fn /\ InfoOK
      BY <1>1 DEF LinesOK, CoverageInv, InfoOK
<1>3. info[f].starts \subseteq info[f].reached
      BY <1>2, InfoSays
<1> DEFINE b == BranchReport(f)
           t == PathReport(f)
<1>4. /\ DOMAIN b = info[f].starts
      /\ \A p \in info[f].starts :
            /\ b[p].hit = (<<f, p>> \in xg.hash.hit)
            /\ \A q \in b[p].out_hit : <<f, p, q>> \in xg.hash.outs_hit
      BY DEF BranchReport
<1>5. \A path \in DOMAIN t : t[path] => <<f, path>> \in xg.hash.paths_hit
      BY DEF PathReport
<1> HIDE DEF b, t
<1>6. \A p : <<f, p>> \in xg.hash.hit => p \in info[f].starts
      BY <1>1 DEF HitStarts
<1>7. \A p : <<f, p>> \in xg.hash.hit => p \in DOMAIN b /\ b[p].hit
      BY <1>4, <1>6
<1>8. ASSUME NEW p \in DOMAIN b, Executable(Kind(Code[f], p))
      PROVE  Report.lines[Code[f][p].line] # -2
  <2>1. PICK l : l = Code[f][p].line
        OBVIOUS
  <2>2. l \in DOMAIN xg.hash.executable /\ xg.hash.executable[l] = 1
        BY <1>1, <1>3, <1>4, <1>8, <2>1 DEF LinesOK
  <2>3. Report.lines[l] = LineReport(l)
        BY <2>2 DEF Report
  <2>4. LineReport(l) \in {-1, 1}
        BY <2>2 DEF LineReport
  <2>5. Report.lines[l] # -2
        BY <2>3, <2>4
  <2> QED BY <2>1, <2>5
<1>9. ASSUME NEW p \in DOMAIN b, NEW q \in b[p].out_hit
      PROVE  b[p].hit /\ b[q].hit
  <2>1. <<f, p, q>> \in xg.hash.outs_hit
        BY <1>4
  <2>2. <<f, p>> \in xg.hash.hit /\ <<f, q>> \in xg.hash.hit
        BY <1>1, <2>1 DEF HitMarks
  <2> QED BY <1>7, <2>2
<1>10. ASSUME NEW path \in DOMAIN t, t[path], NEW i \in 1..Len(path)
       PROVE  b[path[i]].hit
  <2>1. <<f, path>> \in xg.hash.paths_hit
        BY <1>5, <1>10
  <2>2. <<f, path[i]>> \in xg.hash.hit
        BY <1>1, <1>10, <2>1 DEF HitMarks
  <2> QED BY <1>7, <2>2
<1>11. \A p \in DOMAIN b : b[p].out_hit # {} => b[p].hit
       BY <1>9
<1> QED BY <1>8, <1>9, <1>10, <1>11 DEF b, t

\* Lines, branches and paths of a report agree, though they are counted at
\* different moments: a line that has run is dead only where another function
\* or a finally block that exceptions alone enter explains it, and outs and
\* paths that were hit have only branches that were.
THEOREM PartsOfReportAgree == Spec => []ReportAgrees
<1>1. CoverageInv /\ HitsInv => ReportAgrees
  <2> SUFFICES ASSUME CoverageInv, HitsInv PROVE ReportAgrees
      OBVIOUS
  <2>1. \A l \in xg.hash.counted : xg.hash.executable[l] = 2 =>
           \/ \E f, h \in OnLine(l) : f # h
           \/ \E f \in OnLine(l) : ~(Finallys(Code[f]) \subseteq info[f].reached)
        BY DeadLinesExplained
  <2>2. DOMAIN Report.functions = xg.hash.functions
        BY DEF Report
  <2>3. \A f \in xg.hash.functions : /\ Report.functions[f].branches = BranchReport(f)
                                     /\ Report.functions[f].paths = PathReport(f)
        BY DEF Report, FunctionReport
  <2>4. ASSUME Sound, NEW f \in DOMAIN Report.functions
        PROVE  LET branches == Report.functions[f].branches
                   paths    == Report.functions[f].paths
               IN  /\ \A p \in DOMAIN branches :
                         /\ branches[p].hit /\ Executable(Kind(Code[f], p)) =>
                               Report.lines[Code[f][p].line] # -2
                         /\ branches[p].out_hit # {} => branches[p].hit
                         /\ \A q \in branches[p].out_hit : branches[q].hit
                   /\ \A path \in DOMAIN paths : paths[path] =>
                         \A i \in 1..Len(path) : branches[path[i]].hit
    <3>1. f \in xg.hash.functions
          BY <2>2, <2>4
    <3>2. Report.functions[f].branches = BranchReport(f) /\ Report.functions[f].paths = PathReport(f)
          BY <2>3, <3>1
    <3> QED BY <2>4, <3>1, <3>2, CoverageAssumption, PartsAgree
  <2> QED BY <2>1, <2>4 DEF ReportAgrees
<1> QED BY <1>1, CoverageInvariant, HitsInvariant, PTL


-----------------------------------------------------------------------------
(* What the calls of leaves have followed *)

\* The slots of level l have the path of the call frame, and the edges that
\* function call n has marked are those the frame has seen.
LeafSlot(g, frame, l, n) ==
    /\ l \in 1..Len(g.paths) /\ g.paths[l].state = "live" /\ g.paths[l].elements = frame.trail
    /\ l \in 1..Len(g.last) /\ g.last[l] = frame.prev
    /\ frame.prev \in {Unset} \cup info[frame.fn].starts
    /\ \A p, q \in {Unset} \cup Positions(Code[frame.fn]) :
          <<p, q, n>> \in g.visited <=> <<q, p>> \in frame.seen

LEMMA EnteredIs ==
    ASSUME NEW frame, IsFrame(frame), NEW p, NEW e, e = Entered(frame, p)
    PROVE  /\ p \notin info[frame.fn].starts => e = frame
           /\ p \in info[frame.fn].starts =>
                 LET from  == IF Restarts(frame, p) THEN Unset ELSE frame.prev
                     trail == IF Restarts(frame, p) THEN <<>> ELSE frame.trail
                 IN  /\ e.prev = p /\ e.seen = frame.seen \cup {<<from, p>>}
                     /\ e.trail = IF <<from, p>> \in frame.seen THEN trail ELSE Append(trail, p)
<1>1. CASE p \notin info[frame.fn].starts
      BY <1>1 DEF Entered
<1>2. CASE p \in info[frame.fn].starts
  <2>1. PICK from : from = IF Restarts(frame, p) THEN Unset ELSE frame.prev
        OBVIOUS
  <2>2. PICK trail : trail = IF Restarts(frame, p) THEN <<>> ELSE frame.trail
        OBVIOUS
  <2>3. e = [frame EXCEPT !.prev = p, !.seen = @ \cup {<<from, p>>},
                          !.trail = IF <<from, p>> \in frame.seen THEN trail ELSE Append(trail, p)]
        BY <1>2, <2>1, <2>2 DEF Entered
  <2>4. PICK after : after = IF <<from, p>> \in frame.seen THEN trail ELSE Append(trail, p)
        OBVIOUS
  <2>5. e = [frame EXCEPT !.prev = p, !.seen = frame.seen \cup {<<from, p>>}, !.trail = after]
        BY <2>3, <2>4
  <2>6. /\ e.prev = p /\ e.seen = frame.seen \cup {<<from, p>>} /\ e.trail = after
        BY <2>5 DEF IsFrame
  <2> QED BY <1>2, <2>1, <2>2, <2>4, <2>6
<1> QED BY <1>1, <1>2

LEMMA EnteredSame ==
    ASSUME NEW frame, IsFrame(frame), NEW p, NEW e, e = Entered(frame, p)
    PROVE  e.fn = frame.fn /\ e.init = frame.init /\ e.whole = frame.whole
<1>1. \/ e = frame
      \/ \E prev, seen, trail : e = [frame EXCEPT !.prev = prev, !.seen = seen, !.trail = trail]
  <2>1. CASE p \notin info[frame.fn].starts
        BY <2>1 DEF Entered
  <2>2. CASE p \in info[frame.fn].starts
    <3>1. PICK from : from = IF Restarts(frame, p) THEN Unset ELSE frame.prev
          OBVIOUS
    <3>2. PICK trail : trail = IF Restarts(frame, p) THEN <<>> ELSE frame.trail
          OBVIOUS
    <3>3. e = [frame EXCEPT !.prev = p, !.seen = @ \cup {<<from, p>>},
                            !.trail = IF <<from, p>> \in frame.seen THEN trail ELSE Append(trail, p)]
          BY <2>2, <3>1, <3>2 DEF Entered
    <3>4. PICK after : after = IF <<from, p>> \in frame.seen THEN trail ELSE Append(trail, p)
          OBVIOUS
    <3>5. PICK seen : seen = frame.seen \cup {<<from, p>>}
          OBVIOUS
    <3>6. e = [frame EXCEPT !.prev = p, !.seen = seen, !.trail = after]
          BY <3>3, <3>4, <3>5
    <3> QED BY <3>6
  <2> QED BY <2>1, <2>2
<1>2. CASE e = frame
      BY <1>2
<1>3. CASE e # frame
  <2>1. PICK prev, seen, trail : e = [frame EXCEPT !.prev = prev, !.seen = seen, !.trail = trail]
        BY <1>1, <1>3
  <2> QED BY <2>1 DEF IsFrame
<1> QED BY <1>2, <1>3

\* A mark adds to the slot what the call has entered.
LEMMA MarkLeaf ==
    ASSUME CoverageAssumption, InfoOK, NEW m, PathsOK(m), NEW l, NEW c, c.fn \in Fn,
           LeafSlot(m, c, l, functionCount), NEW p \in info[c.fn].starts,
           NEW h, MarkedAs(m, h, c.fn, l, p, c.prev),
           NEW e, e.fn = c.fn, e.prev = p, e.seen = c.seen \cup {<<c.prev, p>>},
           e.trail = IF <<c.prev, p>> \in c.seen THEN c.trail ELSE Append(c.trail, p)
    PROVE  LeafSlot(h, e, l, functionCount)
<1>1. /\ l \in 1..Len(m.paths) /\ m.paths[l].state = "live" /\ m.paths[l].elements = c.trail
      /\ l \in 1..Len(m.last) /\ m.last[l] = c.prev /\ c.prev \in {Unset} \cup info[c.fn].starts
      /\ \A r, q \in {Unset} \cup Positions(Code[c.fn]) :
            <<r, q, functionCount>> \in m.visited <=> <<q, r>> \in c.seen
      BY DEF LeafSlot
<1>2. info[c.fn].starts \subseteq Positions(Code[c.fn])
      BY InfoSays
<1>3. <<p, c.prev, functionCount>> \in m.visited <=> <<c.prev, p>> \in c.seen
      BY <1>1, <1>2
<1>4. /\ h.visited = m.visited \cup {<<p, c.prev, functionCount>>}
      /\ Len(h.paths) = Len(m.paths) /\ Len(h.last) = Len(m.last)
      /\ l \in 1..Len(m.last) => h.last[l] = p
      /\ l \in 1..Len(m.paths) =>
            h.paths[l] = IF AddsTo(m, l, p, c.prev)
                         THEN [m.paths[l] EXCEPT !.elements = Append(m.paths[l].elements, p)]
                         ELSE m.paths[l]
      BY DEF MarkedAs
<1>5. AddsTo(m, l, p, c.prev) <=> <<c.prev, p>> \notin c.seen
      BY <1>1, <1>3 DEF AddsTo
<1>6. IsSlot(m.paths[l])
      BY <1>1 DEF PathsOK
<1>7. h.paths[l].state = "live" /\ h.paths[l].elements = e.trail
      BY <1>1, <1>4, <1>5, <1>6 DEF IsSlot
<1>8. ASSUME NEW r \in {Unset} \cup Positions(Code[c.fn]), NEW q \in {Unset} \cup Positions(Code[c.fn])
      PROVE  <<r, q, functionCount>> \in h.visited <=> <<q, r>> \in e.seen
  <2>1. <<r, q, functionCount>> \in m.visited <=> <<q, r>> \in c.seen
        BY <1>1
  <2> QED BY <1>4, <2>1
<1> QED BY <1>1, <1>4, <1>7, <1>8 DEF LeafSlot

\* h has come from g by what a call of f has done.
LeafStep(g, h, f) ==
    /\ \A k \in h.visited : k \in g.visited \/ k[3] = functionCount
    /\ g.hash.paths_hit \subseteq h.hash.paths_hit /\ g.followed \subseteq h.followed
    /\ \A x \in h.hash.paths_hit : x \in g.hash.paths_hit \/ x[1] = f
    /\ \A x \in h.whole : x \in g.whole \/ x[1] = f
    /\ (g.wild => h.wild) /\ (f \in h.hash.functions => f \in g.hash.functions)

\* What the opcode p of a call does to its slots, and to the paths hit.
LeafDone(g, h, frame, l, p) ==
    LET path == <<frame.fn, frame.trail>>
    IN  /\ LeafSlot(h, Entered(frame, p), l, functionCount)
        /\ Restarts(frame, p) /\ frame.trail \in ToSet(info[frame.fn].paths) =>
              path \in h.hash.paths_hit
        /\ \A x \in h.hash.paths_hit : x \in g.hash.paths_hit \/ (Restarts(frame, p) /\ x = path)

LEMMA MarkReachedLeaf ==
    ASSUME CoverageAssumption, InfoOK, compiled \subseteq Fn, NEW g, Tab(g, compiled \ filtered),
           Analysed(g, filtered), NEW frame, IsFrame(frame), frame.fn \in compiled,
           NEW l \in Nat \ {0}, NEW p, NEW h \in MarkReached(g, frame.fn, l, p)
    PROVE  /\ LeafStep(g, h, frame.fn) /\ h.followed = g.followed /\ h.whole = g.whole
           /\ frame.fn \notin g.hash.functions => h = g
           /\ LeafSlot(g, frame, l, functionCount) /\ frame.fn \in g.hash.functions /\ ~h.wild =>
                 LeafDone(g, h, frame, l, p)
<1> DEFINE f == frame.fn
           n == functionCount
<1>1. IsTables(g) /\ PathsOK(g) /\ LinesOK(g, compiled \ filtered) /\ f \in Fn
      BY DEF Tab
<1>2. CASE f \notin g.hash.functions
  <2>1. h = g
        BY <1>2 DEF MarkReached
  <2> QED BY <1>2, <2>1 DEF LeafStep
<1>3. CASE f \in g.hash.functions
  <2>1. PICK m : m = IF p # 0 /\ p \in info[f].entries
                     THEN StartOfFunction(EndOfFunction(g, f, l), f, l) ELSE g
        OBVIOUS
  <2>2. PICK from : from = IF Restarts(frame, p) THEN Unset ELSE frame.prev
        OBVIOUS
  <2>3. PICK trail : trail = IF Restarts(frame, p) THEN <<>> ELSE frame.trail
        OBVIOUS
  <2>4. PICK c : c = [fn |-> f, prev |-> from, seen |-> frame.seen, trail |-> trail]
        OBVIOUS
  <2>5. c.fn = f /\ c.prev = from /\ c.seen = frame.seen /\ c.trail = trail
        BY <2>4
  <2>6. /\ IsTables(m) /\ PathsOK(m) /\ m.visited = g.visited /\ m.followed = g.followed
        /\ m.whole = g.whole /\ (g.wild => m.wild)
        /\ g.hash.paths_hit \subseteq m.hash.paths_hit
        /\ \A x \in m.hash.paths_hit : x \in g.hash.paths_hit \/ x[1] = f
        /\ LeafSlot(g, frame, l, n) /\ ~m.wild =>
              /\ LeafSlot(m, c, l, n)
              /\ Restarts(frame, p) /\ frame.trail \in ToSet(info[f].paths) =>
                    <<f, frame.trail>> \in m.hash.paths_hit
              /\ \A x \in m.hash.paths_hit :
                    x \in g.hash.paths_hit \/ (Restarts(frame, p) /\ x = <<f, frame.trail>>)
    <3>1. CASE p # 0 /\ p \in info[f].entries
      <4>1. PICK e : e = EndOfFunction(g, f, l)
            OBVIOUS
      <4>2. Marked(g, e)
            BY <1>1, <4>1, EndEnds
      <4>3. IsTables(e) /\ Analysed(e, filtered)
            BY <4>2, MarkedAnalysed DEF Marked, Grown
      <4>4. Ended(g, e, f, l)
            BY <1>1, <4>1, EndHits
      <4>5. LinesOK(e, compiled \ filtered) /\ PathsOK(e)
            BY <1>1, <4>4 DEF Ended, SameFills, LinesOK
      <4>6. m = StartOfFunction(e, f, l)
            BY <2>1, <3>1, <4>1
      <4>7. IsTables(m) /\ m.wild = e.wild
            BY <1>1, <4>3, <4>6, StartStarts DEF Grown
      <4>8. /\ SameHits(e, m) /\ PathsOK(m) /\ l \in 1..Len(m.paths) /\ m.paths[l] = NewPath
            /\ l \in 1..Len(m.last) /\ m.last[l] = Unset
        <5>1. Started(e, m, l)
            BY <4>3, <4>5, <4>6, StartHits
        <5> QED BY <5>1 DEF Started
      <4>9. Restarts(frame, p)
            BY <3>1 DEF Restarts
      <4>10. /\ m.visited = g.visited /\ m.followed = g.followed /\ m.whole = g.whole
             /\ m.hash.paths_hit = IF EndsPath(g, f, l)
                                   THEN g.hash.paths_hit \cup {<<f, g.paths[l].elements>>}
                                   ELSE g.hash.paths_hit
             /\ g.wild => m.wild
             BY <4>4, <4>7, <4>8 DEF SameHits, Ended
      <4>11. \A x : x = <<f, g.paths[l].elements>> => x[1] = f
             OBVIOUS
      <4>12. ASSUME LeafSlot(g, frame, l, n)
             PROVE  /\ LeafSlot(m, c, l, n)
                    /\ frame.trail \in ToSet(info[f].paths) =>
                          <<f, frame.trail>> \in m.hash.paths_hit
                    /\ \A x \in m.hash.paths_hit : x \in g.hash.paths_hit \/ x = <<f, frame.trail>>
        <5>1. /\ l \in 1..Len(g.paths) /\ g.paths[l].state = "live"
              /\ g.paths[l].elements = frame.trail
              /\ \A r, q \in {Unset} \cup Positions(Code[f]) :
                    <<r, q, n>> \in g.visited <=> <<q, r>> \in frame.seen
              BY <4>12 DEF LeafSlot
        <5>2. EndsPath(g, f, l) <=> frame.trail \in ToSet(info[f].paths)
              BY <1>3, <5>1 DEF EndsPath
        <5>3. c.prev = Unset /\ c.trail = <<>> /\ c.fn = f /\ c.seen = frame.seen
              BY <2>2, <2>3, <2>5, <4>9
        <5>4. m.paths[l].state = "live" /\ m.paths[l].elements = <<>>
              BY <4>8, NewSlots
        <5>5. LeafSlot(m, c, l, n)
              BY <4>8, <4>10, <5>1, <5>3, <5>4 DEF LeafSlot
        <5> QED BY <4>10, <5>1, <5>2, <5>5
      <4> QED BY <4>7, <4>8, <4>9, <4>10, <4>11, <4>12
    <3>2. CASE ~(p # 0 /\ p \in info[f].entries)
      <4>1. m = g /\ ~Restarts(frame, p)
            BY <2>1, <3>2 DEF Restarts
      <4>2. LeafSlot(g, frame, l, n) => LeafSlot(g, c, l, n)
            BY <2>2, <2>3, <2>5, <4>1 DEF LeafSlot
      <4> QED BY <1>1, <4>1, <4>2
    <3> QED BY <3>1, <3>2
  <2>7. PICK e : e = Entered(frame, p)
        OBVIOUS
  <2>8. CASE p \notin info[f].starts
    <3>1. h = m
          BY <1>3, <2>1, <2>8 DEF MarkReached
    <3>2. e = frame /\ ~Restarts(frame, p)
      <4>1. info[f].entries \subseteq info[f].starts
            BY <1>1, InfoSays
      <4> QED BY <2>7, <2>8, <4>1, EnteredIs DEF Restarts
    <3>3. LeafSlot(m, c, l, n) => LeafSlot(m, e, l, n)
          BY <2>2, <2>3, <2>5, <3>2 DEF LeafSlot
    <3> QED BY <1>3, <2>6, <2>7, <3>1, <3>3 DEF LeafStep, LeafDone
  <2>9. CASE p \in info[f].starts
    <3>1. PICK prev \in LastBranches(m, f, l, p) : h = MarkStart(m, f, l, p, prev)
          BY <1>3, <2>1, <2>9 DEF MarkReached
    <3>2. MarkedAs(m, h, f, l, p, prev)
          BY <2>6, <3>1, MarkStartIs
    <3>3. /\ h.visited = m.visited \cup {<<p, prev, n>>} /\ h.hash.paths_hit = m.hash.paths_hit
          /\ h.followed = m.followed /\ h.whole = m.whole /\ (m.wild => h.wild)
          BY <3>2 DEF MarkedAs
    <3>4. \A k : k = <<p, prev, n>> => k[3] = n
          OBVIOUS
    <3>5. LeafStep(g, h, f)
          BY <1>3, <2>6, <3>3, <3>4 DEF LeafStep
    <3>6. ASSUME LeafSlot(m, c, l, n)
          PROVE  LeafSlot(h, e, l, n)
      <4>1. prev = from
        <5>1. Unset # Junk /\ \A b \in info[f].starts : b # Junk
          <6>1. info[f].starts \subseteq Nat
                BY <1>1, InfoSays
          <6> QED BY <6>1 DEF Unset, Junk
        <5> QED BY <2>5, <3>1, <3>6, <5>1 DEF LeafSlot, LastBranches
      <4>2. /\ e.fn = f /\ e.prev = p /\ e.seen = frame.seen \cup {<<from, p>>}
            /\ e.trail = IF <<from, p>> \in frame.seen THEN trail ELSE Append(trail, p)
            BY <2>2, <2>3, <2>7, <2>9, EnteredIs, EnteredSame
      <4>3. MarkedAs(m, h, c.fn, l, p, c.prev) /\ p \in info[c.fn].starts /\ c.fn \in Fn
            BY <1>1, <2>5, <2>9, <3>2, <4>1
      <4>4. /\ e.fn = c.fn /\ e.prev = p /\ e.seen = c.seen \cup {<<c.prev, p>>}
            /\ e.trail = IF <<c.prev, p>> \in c.seen THEN c.trail ELSE Append(c.trail, p)
            BY <2>5, <4>2
      <4> QED BY <2>6, <3>6, <4>3, <4>4, MarkLeaf
    <3> QED BY <1>3, <2>6, <2>7, <3>3, <3>5, <3>6 DEF LeafDone
  <2> QED BY <2>8, <2>9
<1> QED BY <1>2, <1>3

\* For a leaf, the paths marked as hit are those its calls followed.
LeafMarks(g) ==
    \A f \in {h \in Fn : Leaf(h)} :
        /\ \A path \in ToSet(info[f].paths) :
              <<f, path>> \in g.whole => <<f, path>> \in g.hash.paths_hit
        /\ \A path \in ToSet(info[f].paths) :
              <<f, path>> \in g.hash.paths_hit => <<f, path>> \in g.followed

\* No call to come has marked a branch.
VisitsCounted(g, n) == n \in Int /\ \A k \in g.visited : k[3] \in Int /\ k[3] <= n

\* The call of a leaf is covered from its start to its end or not at all.
LeafCall(g, frame, l, n) ==
    /\ frame.init = Covers /\ frame.whole = Covers
    /\ Covers /\ ~resumed /\ ~g.wild /\ frame.fn \in g.hash.functions => LeafSlot(g, frame, l, n)

\* Only the last call can be one of a leaf.
LeafAt(s, g, n) ==
    /\ VisitsCounted(g, n) /\ (~resumed /\ ~g.wild => LeafMarks(g))
    /\ \A l \in 1..Len(s) : Leaf(s[l].fn) => l = Len(s) /\ LeafCall(g, s[l], l, n)

LeafInv == LeafAt(stack, xg, functionCount)

\* g and h agree on the slots and on the paths.
SamePaths(g, h) ==
    /\ h.paths = g.paths /\ h.last = g.last /\ h.wild = g.wild /\ h.visited = g.visited
    /\ h.hash.paths_hit = g.hash.paths_hit /\ h.hash.functions = g.hash.functions

LEMMA SameSlot ==
    ASSUME NEW g, NEW h, SamePaths(g, h), NEW frame, NEW l, NEW n, LeafSlot(g, frame, l, n)
    PROVE  LeafSlot(h, frame, l, n)
BY DEF SamePaths, LeafSlot

LEMMA CountedPaths ==
    ASSUME NEW m, IsTables(m), NEW line,
           NEW g, g = Counted(m, line)
    PROVE  SamePaths(m, g) /\ g.followed = m.followed /\ g.whole = m.whole
<1>1. PICK lines : lines = CountLine(m.hash.executable, line)
      OBVIOUS
<1>2. PICK counted : counted = m.hash.counted \cup {line}
      OBVIOUS
<1>3. g = [m EXCEPT !.hash = [m.hash EXCEPT !.counted = counted, !.executable = lines]]
      BY <1>1, <1>2 DEF IsTables, Counted
<1>4. g.hash = [m.hash EXCEPT !.counted = counted, !.executable = lines]
      BY <1>3 DEF IsTables
<1>5. g.hash.paths_hit = m.hash.paths_hit /\ g.hash.functions = m.hash.functions
      BY <1>4 DEF IsTables
<1> QED BY <1>3, <1>5 DEF IsTables, SamePaths

LEMMA CountPaths ==
    ASSUME NEW m, IsTables(m), NEW slot, NEW g, g = CountCall(m, slot)
    PROVE  SamePaths(m, g) /\ g.followed = m.followed /\ g.whole = m.whole
<1>1. CASE g = m
      BY <1>1 DEF SamePaths
<1>2. CASE g # m
      BY <1>2, CountedPaths DEF CountCall
<1> QED BY <1>1, <1>2

\* h has what g has followed, and the trail of frame.
FollowedBy(g, h, frame) ==
    /\ h.followed = g.followed \cup {<<frame.fn, frame.trail>>}
    /\ h.whole = IF frame.whole /\ frame.fn \in g.hash.functions
                 THEN g.whole \cup {<<frame.fn, frame.trail>>} ELSE g.whole

LEMMA FollowedHistory ==
    ASSUME NEW g, IsTables(g), NEW frame, NEW h, h = Followed(g, frame)
    PROVE  FollowedBy(g, h, frame)
BY FollowedSame DEF FollowedBy

\* What handling the opcode at hand does.
LEMMA HandledLeaf ==
    ASSUME CoverageAssumption, CoverageInv, HitsInv, stack # <<>>,
           Kind(Code[Top.fn], Top.pc) # "exit",
           NEW g \in Handled(xg, Top.fn, level, Top.pc)
    PROVE  /\ IsTables(g) /\ LeafStep(xg, g, Top.fn)
           /\ g.followed = xg.followed /\ g.whole = xg.whole
           /\ ~on \/ Top.fn \notin xg.hash.functions => g.hash.paths_hit = xg.hash.paths_hit
           /\ /\ Leaf(Top.fn) /\ LeafSlot(xg, Top, level, functionCount) /\ on
              /\ Top.fn \in xg.hash.functions /\ ~g.wild
              => LeafDone(xg, g, Top, level, Top.pc)
<1> DEFINE f == Top.fn
           p == Top.pc
<1>1. /\ level \in Nat \ {0} /\ f \in compiled /\ f \in Fn /\ compiled \subseteq Fn
      /\ InfoOK /\ Analysed(xg, filtered) /\ p \in Positions(Code[f]) /\ IsFrame(Top)
      BY TopIs, TopFacts DEF CoverageInv, InOrder, TablesOK, PcOK, Within
<1>2. Tab(xg, compiled \ filtered) /\ IsTables(xg) /\ xg.hash.functions \subseteq compiled \ filtered
      BY DEF HitsInv, HitsAt, Tab, LinesOK
<1>3. CASE ~on \/ f \in filtered \/ Kind(Code[f], p) \in {"switch", "exit"}
  <2>1. g = xg
        BY <1>3 DEF Handled
  <2>2. ASSUME Leaf(f), LeafSlot(xg, Top, level, functionCount), on, f \in xg.hash.functions
        PROVE  LeafDone(xg, xg, Top, level, p)
    <3>1. Kind(Code[f], p) = "switch"
          BY <1>2, <1>3, <2>2
    <3>2. p \notin info[f].starts
          BY <2>2, <3>1 DEF Leaf
    <3>3. Entered(Top, p) = Top
          BY <1>1, <3>2, EnteredIs
    <3>4. ~Restarts(Top, p)
          BY <1>1, <3>2, InfoSays DEF Restarts
    <3> QED BY <2>2, <3>3, <3>4 DEF LeafDone
  <2> QED BY <1>2, <2>1, <2>2 DEF LeafStep
<1>4. CASE ~(~on \/ f \in filtered \/ Kind(Code[f], p) \in {"switch", "exit"})
  <2>1. PICK m \in MarkReached(xg, f, level, p) :
             g = m \/ g = Counted(m, Code[f][p].line)
        BY <1>4 DEF Handled
  <2>2. Tab(m, compiled \ filtered)
        BY <1>1, <1>2, <2>1, MarkReachedHits
  <2>3. IsTables(m)
        BY <2>2 DEF Tab
  <2>4. /\ LeafStep(xg, m, f) /\ m.followed = xg.followed /\ m.whole = xg.whole
        /\ f \notin xg.hash.functions => m = xg
        /\ LeafSlot(xg, Top, level, functionCount) /\ f \in xg.hash.functions /\ ~m.wild =>
              LeafDone(xg, m, Top, level, p)
        BY <1>1, <1>2, <2>1, MarkReachedLeaf
  <2>5. SamePaths(m, g) /\ g.followed = m.followed /\ g.whole = m.whole
    <3>1. CASE g = m
          BY <3>1 DEF SamePaths
    <3>2. CASE g # m
          BY <2>1, <2>3, <3>2, CountedPaths, ZenonT(60)
    <3> QED BY <3>1, <3>2
  <2>6. IsTables(g)
    <3>1. CASE g = m
          BY <2>3, <3>1
    <3>2. CASE g # m
      <4>1. Noted(m, g)
            BY <2>1, <2>3, <3>2, CountedNoted
      <4> QED BY <4>1 DEF Noted
    <3> QED BY <3>1, <3>2
  <2>7. LeafDone(xg, m, Top, level, p) => LeafDone(xg, g, Top, level, p)
        BY <2>5, SameSlot DEF LeafDone, SamePaths
  <2>8. LeafStep(xg, g, f)
        BY <2>4, <2>5 DEF LeafStep, SamePaths
  <2> QED BY <1>4, <2>4, <2>5, <2>6, <2>7, <2>8 DEF SamePaths
<1> QED BY <1>3, <1>4

\* g are the tables when the opcode at hand has been handled, and frame is the
\* call at hand then.
LeafAfter(g, frame) ==
    /\ VisitsCounted(g, functionCount) /\ (~resumed /\ ~g.wild => LeafMarks(g))
    /\ Leaf(frame.fn) => LeafCall(g, frame, level, functionCount)

LEMMA OpcodeLeaf ==
    ASSUME CoverageAssumption, CoverageInv, HitsInv, LeafInv, stack # <<>>,
           Kind(Code[Top.fn], Top.pc) # "exit",
           NEW g \in Handled(xg, Top.fn, level, Top.pc), NEW k, k = WithTaken(g, Top, Top.pc)
    PROVE  LeafAfter(k, Entered(Top, Top.pc))
<1> DEFINE f == Top.fn
           p == Top.pc
           n == functionCount
           path == <<f, Top.trail>>
<1>1. /\ level \in 1..level /\ f \in Fn /\ IsFrame(Top) /\ Top = stack[level] /\ Len(stack) = level
      BY TopIs, TopFacts DEF level
<1>2. PICK e : e = Entered(Top, p)
      OBVIOUS
<1>3. e.fn = f /\ e.init = Top.init /\ e.whole = Top.whole
      BY <1>1, <1>2, EnteredSame
<1>4. /\ IsTables(g) /\ LeafStep(xg, g, f) /\ g.followed = xg.followed /\ g.whole = xg.whole
      /\ ~on \/ f \notin xg.hash.functions => g.hash.paths_hit = xg.hash.paths_hit
      /\ /\ Leaf(f) /\ LeafSlot(xg, Top, level, n) /\ on /\ f \in xg.hash.functions /\ ~g.wild
         => LeafDone(xg, g, Top, level, p)
      BY HandledLeaf
<1>5. SamePaths(g, k)
      BY <1>4, WithTakenSame DEF SameSlots, SameFills, SamePaths
<1>6. /\ k.followed = IF Restarts(Top, p) THEN g.followed \cup {path} ELSE g.followed
      /\ k.whole = IF Restarts(Top, p) /\ Top.whole /\ f \in g.hash.functions
                   THEN g.whole \cup {path} ELSE g.whole
  <2>1. CASE Restarts(Top, p)
    <3>1. k = Followed(g, Top)
          BY <2>1 DEF WithTaken
    <3>2. FollowedBy(g, k, Top)
          BY <1>4, <3>1, FollowedHistory
    <3> QED BY <2>1, <3>2 DEF FollowedBy
  <2>2. CASE ~Restarts(Top, p)
        BY <1>4, <2>2, WithTakenSame
  <2> QED BY <2>1, <2>2
<1>7. VisitsCounted(k, n)
      BY <1>4, <1>5 DEF LeafInv, LeafAt, VisitsCounted, LeafStep, SamePaths
<1>8. Leaf(f) => LeafCall(xg, Top, level, n)
      BY <1>1 DEF LeafInv, LeafAt
<1>9. ASSUME ~resumed, ~k.wild
      PROVE  ~xg.wild /\ ~g.wild /\ LeafMarks(xg)
      BY <1>4, <1>5, <1>9 DEF LeafInv, LeafAt, LeafStep, SamePaths
<1>10. ASSUME ~resumed, ~k.wild, Leaf(f), Covers, f \in xg.hash.functions
       PROVE  LeafDone(xg, g, Top, level, p)
  <2>1. on
        BY <1>10 DEF Covers
  <2>2. LeafSlot(xg, Top, level, n)
        BY <1>8, <1>9, <1>10 DEF LeafCall
  <2> QED BY <1>4, <1>9, <1>10, <2>1, <2>2
<1>11. ASSUME ~resumed, ~k.wild, Leaf(f), ~(Covers /\ f \in xg.hash.functions)
       PROVE  g.hash.paths_hit = xg.hash.paths_hit /\ k.whole = xg.whole
  <2>1. ~on \/ f \notin xg.hash.functions
        BY <1>11 DEF CoverageInv, InOrder, TablesOK, Covers
  <2>2. ~Top.whole \/ f \notin g.hash.functions
        BY <1>4, <1>8, <1>11 DEF LeafCall, LeafStep
  <2> QED BY <1>4, <1>6, <2>1, <2>2
<1>12. ASSUME ~resumed, ~k.wild, NEW h \in Fn, Leaf(h), NEW t \in ToSet(info[h].paths)
       PROVE  /\ <<h, t>> \in k.whole => <<h, t>> \in k.hash.paths_hit
              /\ <<h, t>> \in k.hash.paths_hit => <<h, t>> \in k.followed
  <2>1. /\ <<h, t>> \in xg.whole => <<h, t>> \in xg.hash.paths_hit
        /\ <<h, t>> \in xg.hash.paths_hit => <<h, t>> \in xg.followed
        BY <1>9, <1>12 DEF LeafMarks
  <2>2. /\ k.hash.paths_hit = g.hash.paths_hit /\ xg.followed \subseteq k.followed
        /\ xg.hash.paths_hit \subseteq g.hash.paths_hit
        BY <1>4, <1>5, <1>6 DEF SamePaths, LeafStep
  <2>3. CASE h # f
    <3>1. <<h, t>> # path /\ <<h, t>>[1] = h
          BY <2>3
    <3>2. <<h, t>> \in k.whole => <<h, t>> \in xg.whole
          BY <1>4, <1>6, <3>1
    <3>3. <<h, t>> \in g.hash.paths_hit => <<h, t>> \in xg.hash.paths_hit
          BY <1>4, <2>3, <3>1 DEF LeafStep
    <3> QED BY <2>1, <2>2, <3>2, <3>3
  <2>4. CASE h = f
    <3>1. CASE Covers /\ f \in xg.hash.functions
      <4>1. LeafDone(xg, g, Top, level, p)
            BY <1>10, <1>12, <2>4, <3>1
      <4>2. <<h, t>> \in k.whole => <<h, t>> \in xg.whole \/ (Restarts(Top, p) /\ t = Top.trail)
            BY <1>4, <1>6, <2>4
      <4>3. <<h, t>> \in k.whole => <<h, t>> \in k.hash.paths_hit
            BY <1>12, <2>1, <2>2, <2>4, <4>1, <4>2 DEF LeafDone
      <4>4. <<h, t>> \in k.hash.paths_hit => <<h, t>> \in k.followed
            BY <1>6, <2>1, <2>2, <4>1 DEF LeafDone
      <4> QED BY <4>3, <4>4
    <3>2. CASE ~(Covers /\ f \in xg.hash.functions)
      <4>1. g.hash.paths_hit = xg.hash.paths_hit /\ k.whole = xg.whole
            BY <1>11, <1>12, <2>4, <3>2
      <4> QED BY <2>1, <2>2, <4>1
    <3> QED BY <3>1, <3>2
  <2> QED BY <2>3, <2>4
<1>13. ASSUME Leaf(f)
       PROVE  LeafCall(k, e, level, n)
  <2>1. e.init = Covers /\ e.whole = Covers
        BY <1>3, <1>8, <1>13 DEF LeafCall
  <2>2. ASSUME Covers, ~resumed, ~k.wild, f \in k.hash.functions
        PROVE  LeafSlot(k, e, level, n)
    <3>1. f \in xg.hash.functions
          BY <1>4, <1>5, <2>2 DEF LeafStep, SamePaths
    <3>2. LeafSlot(g, e, level, n)
          BY <1>2, <1>10, <1>13, <2>2, <3>1 DEF LeafDone
    <3> QED BY <1>5, <3>2, SameSlot
  <2> QED BY <1>3, <2>1, <2>2 DEF LeafCall
<1>14. ~resumed /\ ~k.wild => LeafMarks(k)
       BY <1>12 DEF LeafMarks
<1> QED BY <1>2, <1>3, <1>7, <1>13, <1>14 DEF LeafAfter

\* Nor does the line of a call touch the paths.
LEMMA CallMarks ==
    ASSUME CoverageAssumption, CoverageInv, HitsInv, LeafInv, stack # <<>>,
           Kind(Code[Top.fn], Top.pc) = "call", NEW slots, NEW k \in Called(slots)
    PROVE  VisitsCounted(k, functionCount) /\ (~resumed /\ ~k.wild => LeafMarks(k))
<1>1. PICK g \in Handled(xg, Top.fn, level, Top.pc), slot \in slots :
             k = CountCall(WithTaken(g, Top, Top.pc), slot)
      BY DEF Called
<1>2. PICK j : j = WithTaken(g, Top, Top.pc)
      OBVIOUS
<1>3. VisitsCounted(j, functionCount) /\ (~resumed /\ ~j.wild => LeafMarks(j))
      BY <1>2, OpcodeLeaf DEF LeafAfter
<1>4. IsTables(j)
      BY <1>2, OpcodeHits DEF HitsAfter, Tab
<1>5. SamePaths(j, k) /\ k.followed = j.followed /\ k.whole = j.whole
      BY <1>1, <1>2, <1>4, CountPaths
<1> QED BY <1>3, <1>5 DEF SamePaths, VisitsCounted, LeafMarks

LEMMA PrefillSame ==
    ASSUME NEW g, IsTables(g), NEW known, NEW f, NEW skipped,
           NEW h, h = Prefill(g, known, f, skipped)
    PROVE  SameHits(g, h) /\ h.wild = g.wild /\ IsTables(h)
<1>1. PICK due : h = [PrefillFrom(g, due, skipped)
                        EXCEPT !.classVisited = @ \/ known \cap Methods # {}]
      BY DEF Prefill
<1>2. PICK k : k = PrefillFrom(g, due, skipped)
      OBVIOUS
<1> DEFINE lines == PrefillLines(g.hash.executable, due \ skipped, opts.dead)
           tracker == [e \in Fn |-> IF e \in due THEN g.startId ELSE g.tracker[e]]
           functions == IF opts.dead /\ opts.branch THEN g.hash.functions \cup (due \ skipped)
                        ELSE g.hash.functions
<1>5. k = [g EXCEPT !.tracker = tracker,
                    !.hash = [g.hash EXCEPT !.executable = lines, !.functions = functions]]
      BY <1>2 DEF PrefillFrom, IsTables
<1> HIDE DEF lines, tracker, functions
<1>6. /\ k.visited = g.visited /\ k.followed = g.followed /\ k.whole = g.whole /\ k.wild = g.wild
      /\ k.hash = [g.hash EXCEPT !.executable = lines, !.functions = functions]
      /\ k = [hash |-> k.hash, startId |-> k.startId, tracker |-> k.tracker,
              classVisited |-> k.classVisited, paths |-> k.paths, last |-> k.last,
              visited |-> k.visited, wild |-> k.wild, taken |-> k.taken,
              followed |-> k.followed, whole |-> k.whole]
      BY <1>5 DEF IsTables
<1>7. PICK visited : h = [k EXCEPT !.classVisited = visited]
      BY <1>1, <1>2
<1>8. /\ h.visited = k.visited /\ h.followed = k.followed /\ h.whole = k.whole /\ h.wild = k.wild
      /\ h.hash = k.hash
      BY <1>6, <1>7
<1>9. /\ k.hash.hit = g.hash.hit /\ k.hash.outs_hit = g.hash.outs_hit
      /\ k.hash.paths_hit = g.hash.paths_hit
      BY <1>6 DEF IsTables
<1>10. k.paths = g.paths /\ k.last = g.last
       BY <1>5 DEF IsTables
<1>11. h.paths = k.paths /\ h.last = k.last
       BY <1>6, <1>7
<1>12. h.hash = [executable |-> h.hash.executable, counted |-> h.hash.counted,
                 functions |-> h.hash.functions, hit |-> h.hash.hit,
                 outs_hit |-> h.hash.outs_hit, paths_hit |-> h.hash.paths_hit]
       BY <1>6, <1>8 DEF IsTables
<1>13. IsTables(h)
       BY <1>6, <1>7, <1>10, <1>11, <1>12 DEF IsTables
<1> QED BY <1>13, <1>6, <1>8, <1>9 DEF SameHits

LEMMA LeafMarksSame ==
    ASSUME NEW g, NEW h, SameHits(g, h), NEW n
    PROVE  /\ LeafMarks(g) => LeafMarks(h)
           /\ VisitsCounted(g, n) => VisitsCounted(h, n)
BY DEF SameHits, LeafMarks, VisitsCounted

LEMMA LeafKept ==
    ASSUME LeafAt(stack', xg', functionCount'), UNCHANGED <<info, on, opts, resumed>>
    PROVE  LeafInv'
BY DEF LeafInv, LeafAt, LeafMarks, LeafCall, LeafSlot, Leaf, Covers

\* The call at hand goes on in its function.
LEMMA LeafGoes ==
    ASSUME CoverageInv, LeafInv, stack # <<>>, NEW g, NEW frame, LeafAfter(g, frame),
           NEW top, top.fn = frame.fn, top.init = frame.init, top.whole = frame.whole,
           top.prev = frame.prev, top.seen = frame.seen, top.trail = frame.trail
    PROVE  \A s : s = With(stack, level, top) => LeafAt(s, g, functionCount)
<1>1. SUFFICES ASSUME NEW s, s = With(stack, level, top) PROVE LeafAt(s, g, functionCount)
      OBVIOUS
<1>2. /\ Len(s) = level /\ s[level] = top
      /\ \A l \in 1..level : l # level => s[l] = stack[l]
      BY <1>1, TopBecomes
<1>3. Leaf(top.fn) => LeafCall(g, top, level, functionCount)
      BY DEF LeafAfter, LeafCall, LeafSlot
<1>4. ASSUME NEW l \in 1..Len(s), Leaf(s[l].fn)
      PROVE  l = Len(s) /\ LeafCall(g, s[l], l, functionCount)
  <2>1. CASE l = level
        BY <1>2, <1>3, <1>4, <2>1
  <2>2. CASE l # level
    <3>1. l \in 1..Len(stack) /\ Leaf(stack[l].fn) /\ l # Len(stack)
          BY <1>2, <1>4, <2>2 DEF level
    <3> QED BY <3>1 DEF LeafInv, LeafAt
  <2> QED BY <2>1, <2>2
<1> QED BY <1>4 DEF LeafAt, LeafAfter

\* No leaf is at an opcode that calls.
LEMMA NoLeaf ==
    ASSUME CoverageAssumption, CoverageInv, HitsInv, LeafInv, stack # <<>>,
           Kind(Code[Top.fn], Top.pc) = "call"
    PROVE  \A l \in 1..level : ~Leaf(stack[l].fn)
<1>1. Top = stack[level] /\ Len(stack) = level /\ Top.pc \in Positions(Code[Top.fn])
      BY TopIs, TopFacts DEF level, PcOK, Within
<1>2. ~Leaf(Top.fn)
      BY <1>1 DEF Leaf
<1> QED BY <1>1, <1>2 DEF LeafInv, LeafAt

\* What a call opcode leaves: no leaf is running.
LEMMA LeafBelow ==
    ASSUME \A l \in 1..Len(stack') : ~Leaf(stack'[l].fn), VisitsCounted(xg', functionCount'),
           ~resumed' /\ ~xg'.wild => LeafMarks(xg'), info' = info
    PROVE  LeafInv'
BY DEF LeafInv, LeafAt, LeafMarks, Leaf, VisitsCounted

LEMMA StepLeaf ==
    ASSUME CoverageAssumption, CoverageInv, HitsInv, LeafInv, Step
    PROVE  LeafInv'
<1>1. PICK q \in Next_(Top) :
             stack' = With(stack, level, GoesTo(Entered(Top, Top.pc), q, BackAfter(Top)))
      BY DEF Step, SetTop, With
<1>2. PICK g \in Handled(xg, Top.fn, level, Top.pc) : xg' = WithTaken(g, Top, Top.pc)
      BY DEF Step
<1>3. stack # <<>> /\ UNCHANGED <<info, on, opts, resumed, functionCount>>
      BY DEF Step
<1>4. Kind(Code[Top.fn], Top.pc) # "exit"
      BY <1>1 DEF Next_, Kind
<1>5. PICK frame : frame = Entered(Top, Top.pc)
      OBVIOUS
<1>6. LeafAfter(xg', frame)
      BY <1>2, <1>3, <1>4, <1>5, OpcodeLeaf
<1>7. PICK top : top = GoesTo(frame, q, BackAfter(Top))
      OBVIOUS
<1>8. IsFrame(frame)
      BY <1>3, <1>5, TopFacts
<1>9. /\ top.fn = frame.fn /\ top.init = frame.init /\ top.whole = frame.whole
      /\ top.prev = frame.prev /\ top.seen = frame.seen /\ top.trail = frame.trail
      BY <1>7, <1>8, Goes
<1>10. stack' = With(stack, level, top)
       BY <1>1, <1>5, <1>7
<1>11. LeafAt(stack', xg', functionCount')
       BY <1>3, <1>6, <1>9, <1>10, LeafGoes
<1> QED BY <1>3, <1>11, LeafKept

LEMMA ThrowLeaf ==
    ASSUME CoverageAssumption, CoverageInv, HitsInv, LeafInv, Throw
    PROVE  LeafInv'
<1>1. PICK g \in Handled(xg, Top.fn, level, Top.pc) : xg' = WithTaken(g, Top, Top.pc)
      BY DEF Throw
<1>2. /\ stack # <<>> /\ stack' = With(stack, level, Entered(Top, Top.pc))
      /\ UNCHANGED <<info, on, opts, resumed, functionCount>>
      /\ Kind(Code[Top.fn], Top.pc) # "exit"
      BY DEF Throw, SetTop, With
<1>3. PICK frame : frame = Entered(Top, Top.pc)
      OBVIOUS
<1>4. LeafAfter(xg', frame)
      BY <1>1, <1>2, <1>3, OpcodeLeaf
<1>5. stack' = With(stack, level, frame)
      BY <1>2, <1>3
<1>6. LeafAt(stack', xg', functionCount')
      BY <1>2, <1>4, <1>5, LeafGoes
<1> QED BY <1>2, <1>6, LeafKept

LEMMA CatchLeaf ==
    ASSUME CoverageAssumption, CoverageInv, HitsInv, LeafInv, Catch
    PROVE  LeafInv'
<1> DEFINE Back(q) == IF q \in Finallys(Code[Top.fn])
                      THEN Noting(Top.back, q, Rethrow) ELSE Top.back
<1>1. PICK q \in Handlers(Code[Top.fn]) : stack' = With(stack, level, GoesTo(Top, q, Back(q)))
      BY DEF Catch, SetTop, With
<1>2. stack # <<>> /\ xg' = xg /\ UNCHANGED <<info, on, opts, resumed, functionCount>>
      BY DEF Catch
<1>3. LeafAfter(xg', Top)
  <2>1. level \in 1..level /\ Top = stack[level] /\ Len(stack) = level
        BY <1>2, TopIs DEF level
  <2> QED BY <1>2, <2>1 DEF LeafInv, LeafAt, LeafAfter
<1>4. PICK back : back = Back(q)
      OBVIOUS
<1>5. PICK top : top = GoesTo(Top, q, back)
      OBVIOUS
<1>6. IsFrame(Top)
      BY <1>2, TopFacts
<1>7. /\ top.fn = Top.fn /\ top.init = Top.init /\ top.whole = Top.whole
      /\ top.prev = Top.prev /\ top.seen = Top.seen /\ top.trail = Top.trail
      BY <1>5, <1>6, Goes
<1>8. stack' = With(stack, level, top)
      BY <1>1, <1>4, <1>5
<1>9. LeafAt(stack', xg', functionCount')
      BY <1>2, <1>3, <1>7, <1>8, LeafGoes
<1> QED BY <1>2, <1>9, LeafKept

\* n is a call of f that has entered no branch.
Begins(n, f) ==
    /\ n.fn = f /\ n.init = Covers /\ n.whole = Covers /\ n.prev = Unset /\ n.seen = {}
    /\ n.trail = <<>>

\* A call begins, with an empty path and no edge marked.
LEMMA EnterLeaf ==
    ASSUME CoverageAssumption, InfoOK, compiled \subseteq Fn, NEW t, IsSeq(t),
           \A l \in 1..Len(t) : ~Leaf(t[l].fn), NEW g, Tab(g, compiled \ filtered),
           Analysed(g, filtered), VisitsCounted(g, functionCount),
           ~resumed /\ ~g.wild => LeafMarks(g), NEW f \in compiled,
           NEW n, Begins(n, f)
    PROVE  \A s, h : /\ s = Append(t, n)
                     /\ h = IF Covers THEN StartOfFunction(g, f, Len(t) + 1) ELSE g
                     => LeafAt(s, h, functionCount + 1)
<1>1. SUFFICES ASSUME NEW s, s = Append(t, n), NEW h,
                      h = IF Covers THEN StartOfFunction(g, f, Len(t) + 1) ELSE g
               PROVE  LeafAt(s, h, functionCount + 1)
      OBVIOUS
<1> DEFINE m == Len(t) + 1
<1>2. /\ IsSeq(s) /\ Len(s) = m /\ s[m] = n /\ Len(t) \in Nat
      /\ \A l \in 1..Len(t) : s[l] = t[l]
      BY <1>1, SeqAppend, SeqShape DEF Extends
<1>3. m \in Nat \ {0} /\ f \in Fn /\ \A l \in 1..m : l = m \/ l \in 1..Len(t)
      BY <1>2
<1> HIDE DEF m
<1>4. IsTables(g) /\ PathsOK(g) /\ LinesOK(g, compiled \ filtered)
      BY DEF Tab
<1>5. VisitsCounted(g, functionCount + 1) /\ \A p, q : <<p, q, functionCount + 1>> \notin g.visited
  <2>1. functionCount \in Int /\ \A k \in g.visited : k[3] \in Int /\ k[3] <= functionCount
        BY DEF VisitsCounted
  <2>2. \A k \in g.visited : k[3] \in Int /\ k[3] <= functionCount + 1 /\ k[3] # functionCount + 1
        BY <2>1
  <2>3. \A p, q : <<p, q, functionCount + 1>>[3] = functionCount + 1
        OBVIOUS
  <2> QED BY <2>1, <2>2, <2>3 DEF VisitsCounted
<1>6. /\ SameHits(g, h) /\ h.wild = g.wild
      /\ Covers => /\ m \in 1..Len(h.paths) /\ h.paths[m] = NewPath
                   /\ m \in 1..Len(h.last) /\ h.last[m] = Unset
  <2>1. CASE Covers
    <3>1. h = StartOfFunction(g, f, m)
          BY <1>1, <2>1 DEF m
    <3>2. h.wild = g.wild
          BY <1>3, <1>4, <3>1, StartStarts
    <3>3. /\ LinesOK(h, compiled \ filtered) /\ SameHits(g, h) /\ PathsOK(h)
          /\ KeepsPaths(g, h, {m}) /\ m \in 1..Len(h.paths) /\ h.paths[m] = NewPath
          /\ m \in 1..Len(h.last) /\ h.last[m] = Unset
      <4>1. Started(g, h, m)
          BY <1>3, <1>4, <3>1, StartHits
      <4> QED BY <4>1 DEF Started
    <3> QED BY <3>2, <3>3
  <2>2. CASE ~Covers
        BY <1>1, <2>2 DEF SameHits
  <2> QED BY <2>1, <2>2
<1>7. VisitsCounted(h, functionCount + 1) /\ (~resumed /\ ~h.wild => LeafMarks(h))
      BY <1>5, <1>6, LeafMarksSame
<1>8. LeafCall(h, n, m, functionCount + 1)
  <2>1. ASSUME Covers
        PROVE  LeafSlot(h, n, m, functionCount + 1)
    <3>1. h.paths[m].state = "live" /\ h.paths[m].elements = n.trail
          BY <1>6, <2>1, NewSlots DEF Begins
    <3>2. h.visited = g.visited
          BY <1>6 DEF SameHits
    <3> QED BY <1>5, <1>6, <2>1, <3>1, <3>2 DEF LeafSlot, Begins
  <2> QED BY <2>1 DEF LeafCall, Begins
<1>9. ASSUME NEW l \in 1..Len(s), Leaf(s[l].fn)
      PROVE  l = Len(s) /\ LeafCall(h, s[l], l, functionCount + 1)
  <2>1. l = m
        BY <1>2, <1>3, <1>9
  <2> QED BY <1>2, <1>8, <2>1
<1> QED BY <1>7, <1>9 DEF LeafAt

\* The calls are of the functions they were, when the call at hand goes on.
LEMMA GoesOnFn ==
    ASSUME CoverageAssumption, CoverageInv, HitsInv, stack # <<>>
    PROVE  \A s : s = [stack EXCEPT ![level] = [Entered(Top, Top.pc) EXCEPT !.pc = @ + 1]] =>
               Len(s) = level /\ \A l \in 1..level : s[l].fn = stack[l].fn
<1>1. SUFFICES ASSUME NEW s,
                      s = [stack EXCEPT ![level] = [Entered(Top, Top.pc) EXCEPT !.pc = @ + 1]]
               PROVE  Len(s) = level /\ \A l \in 1..level : s[l].fn = stack[l].fn
      OBVIOUS
<1>2. PICK frame : frame = Entered(Top, Top.pc)
      OBVIOUS
<1>3. PICK top : top = [frame EXCEPT !.pc = @ + 1]
      OBVIOUS
<1>4. IsFrame(frame) /\ frame.fn = Top.fn /\ Top = stack[level]
      BY <1>2, TopFacts, TopIs
<1>5. top.fn = Top.fn
      BY <1>3, <1>4 DEF IsFrame
<1>6. s = With(stack, level, top)
      BY <1>1, <1>2, <1>3 DEF With
<1>7. Len(s) = level /\ s[level] = top /\ \A l \in 1..level : l # level => s[l] = stack[l]
      BY <1>6, TopBecomes
<1> QED BY <1>4, <1>5, <1>7

LEMMA CallLeaf ==
    ASSUME CoverageAssumption, CoverageInv, HitsInv, LeafInv, Call
    PROVE  LeafInv'
<1>1. PICK f \in compiled :
         AtCall(f) /\ \E g \in Called({f \in filtered}) : EnterFunction(f, g)
      BY DEF Call
<1>2. PICK k \in Called({f \in filtered}) : EnterFunction(f, k)
      BY <1>1
<1>3. stack # <<>> /\ Kind(Code[Top.fn], Top.pc) = "call"
      BY <1>1 DEF AtCall
<1>5. PICK t : t = [stack EXCEPT ![level] = [Entered(Top, Top.pc) EXCEPT !.pc = @ + 1]]
      OBVIOUS
<1>6. PICK n : n = [fn |-> f, pc |-> 0, back |-> <<>>, init |-> Covers, prev |-> Unset,
                    known |-> (compiled \cup {f}) \ (filtered \cup {Main}),
                    seen |-> {}, trail |-> <<>>, whole |-> Covers]
      OBVIOUS
<1>7. /\ stack' = Append(t, n)
      /\ xg' = IF Covers THEN StartOfFunction(k, f, level + 1) ELSE k
      /\ UNCHANGED <<info, on, opts, resumed>> /\ functionCount' = functionCount + 1
      BY <1>2, <1>3, <1>5, <1>6 DEF EnterFunction
<1>8. IsSeq(t) /\ Len(t) = level /\ HitsAt(t, k)
      BY <1>2, <1>3, <1>5, CallGoesOn
<1>9. Analysed(k, filtered)
      BY <1>2, <1>3, CallHandled DEF OpcodeDone
<1>10. compiled \subseteq Fn /\ InfoOK /\ Tab(k, compiled \ filtered)
       BY <1>8 DEF CoverageInv, InfoOK, HitsAt
<1>11. Begins(n, f)
       BY <1>6 DEF Begins
<1>12. VisitsCounted(k, functionCount) /\ (~resumed /\ ~k.wild => LeafMarks(k))
       BY <1>2, <1>3, CallMarks
<1>13. \A l \in 1..Len(t) : ~Leaf(t[l].fn)
       BY <1>3, <1>5, <1>8, GoesOnFn, NoLeaf
<1>14. LeafAt(stack', xg', functionCount')
       BY <1>7, <1>8, <1>9, <1>10, <1>11, <1>12, <1>13, EnterLeaf
<1> QED BY <1>7, <1>14, LeafKept

LEMMA RunScriptLeaf ==
    ASSUME CoverageAssumption, CoverageInv, HitsInv, LeafInv, RunScript
    PROVE  LeafInv'
<1>1. PICK n : n = [fn |-> Main, pc |-> 0, back |-> <<>>, init |-> Covers, prev |-> Unset,
                    known |-> (compiled \cup {Main}) \ (filtered \cup {Main}),
                    seen |-> {}, trail |-> <<>>, whole |-> Covers]
      OBVIOUS
<1>2. PICK t : t = <<>>
      OBVIOUS
<1>3. /\ t = stack /\ Main \in compiled /\ stack' = Append(t, n)
      /\ xg' = IF Covers THEN StartOfFunction(xg, Main, level + 1) ELSE xg
      /\ UNCHANGED <<info, on, opts, resumed>> /\ functionCount' = functionCount + 1
      BY <1>1, <1>2 DEF RunScript, EnterFunction
<1>4. Len(t) = level /\ IsSeq(t) /\ \A l \in 1..Len(t) : ~Leaf(t[l].fn)
  <2>1. Len(t) = 0
        BY <1>2, NoElements
  <2> QED BY <1>3, <2>1 DEF level, CoverageInv, InOrder, FramesOK
<1>5. /\ compiled \subseteq Fn /\ InfoOK /\ Analysed(xg, filtered) /\ Tab(xg, compiled \ filtered)
      BY DEF CoverageInv, InOrder, TablesOK, InfoOK, HitsInv, HitsAt
<1>6. VisitsCounted(xg, functionCount) /\ (~resumed /\ ~xg.wild => LeafMarks(xg))
      BY DEF LeafInv, LeafAt
<1>7. Begins(n, Main)
      BY <1>1 DEF Begins
<1>8. LeafAt(stack', xg', functionCount')
      BY <1>3, <1>4, <1>5, <1>6, <1>7, EnterLeaf
<1> QED BY <1>3, <1>8, LeafKept

\* A call ends: the path that is looked up is the one it has followed.
LEMMA LeaveLeaf ==
    ASSUME CoverageAssumption, CoverageInv, HitsInv, LeafInv, stack # <<>>, NEW g,
           Tab(g, compiled \ filtered), NEW frame, frame.fn = Top.fn, LeafAfter(g, frame),
           LeaveFunction(g, frame)
    PROVE  LeafInv'
<1> DEFINE f == frame.fn
           n == functionCount
           path == <<f, frame.trail>>
<1>1. PICK e : e = IF Covers /\ frame.init THEN EndOfFunction(g, f, level) ELSE g
      OBVIOUS
<1>2. PICK h : h = Followed(e, frame)
      OBVIOUS
<1>3. PICK s : s = Front(stack)
      OBVIOUS
<1>4. xg' = h /\ stack' = s /\ UNCHANGED <<info, on, opts, resumed, functionCount>>
      BY <1>1, <1>2, <1>3 DEF LeaveFunction
<1>5. level \in Nat \ {0} /\ Len(stack) = level /\ IsSeq(stack)
      BY TopIs DEF CoverageInv, InOrder, FramesOK, level
<1>6. Len(s) = level - 1 /\ \A l \in 1..Len(s) : s[l] = stack[l]
      BY <1>3, <1>5, SeqFront
<1>7. ASSUME NEW l \in 1..Len(s)
      PROVE  ~Leaf(s[l].fn)
  <2>1. l \in 1..Len(stack) /\ l # Len(stack) /\ s[l] = stack[l]
        BY <1>5, <1>6
  <2> QED BY <2>1 DEF LeafInv, LeafAt
<1>8. /\ IsTables(e) /\ e.visited = g.visited /\ e.followed = g.followed /\ e.whole = g.whole
      /\ e.hash.functions = g.hash.functions /\ (g.wild => e.wild)
      /\ e.hash.paths_hit = IF Covers /\ frame.init /\ EndsPath(g, f, level)
                            THEN g.hash.paths_hit \cup {<<f, g.paths[level].elements>>}
                            ELSE g.hash.paths_hit
  <2>1. IsTables(g) /\ PathsOK(g)
        BY DEF Tab
  <2>2. CASE Covers /\ frame.init
    <3>1. e = EndOfFunction(g, f, level)
          BY <1>1, <2>2
    <3>2. Ended(g, e, f, level)
          BY <1>5, <2>1, <3>1, EndHits
    <3>3. IsTables(e) /\ (g.wild => e.wild)
          BY <1>5, <2>1, <3>1, EndEnds DEF Marked, Grown
    <3> QED BY <2>2, <3>2, <3>3 DEF Ended, SameFills
  <2>3. CASE ~(Covers /\ frame.init)
        BY <1>1, <2>1, <2>3
  <2> QED BY <2>2, <2>3
<1>9. /\ h.visited = e.visited /\ h.wild = e.wild /\ h.hash.paths_hit = e.hash.paths_hit
      BY <1>2, <1>8, FollowedSame DEF SameSlots
<1>10. /\ h.followed = e.followed \cup {path}
       /\ h.whole = IF frame.whole /\ f \in e.hash.functions THEN e.whole \cup {path} ELSE e.whole
  <2>1. FollowedBy(e, h, frame)
        BY <1>2, <1>8, FollowedHistory
  <2> QED BY <2>1 DEF FollowedBy
<1>11. VisitsCounted(h, n)
       BY <1>8, <1>9 DEF LeafAfter, VisitsCounted
<1>12. ASSUME ~resumed, ~h.wild, NEW x \in Fn, Leaf(x), NEW t \in ToSet(info[x].paths)
       PROVE  /\ <<x, t>> \in h.whole => <<x, t>> \in h.hash.paths_hit
              /\ <<x, t>> \in h.hash.paths_hit => <<x, t>> \in h.followed
  <2>1. ~g.wild
        BY <1>8, <1>9, <1>12
  <2>2. /\ <<x, t>> \in g.whole => <<x, t>> \in g.hash.paths_hit
        /\ <<x, t>> \in g.hash.paths_hit => <<x, t>> \in g.followed
        BY <1>12, <2>1 DEF LeafAfter, LeafMarks
  <2>3. CASE x # f
    <3>1. <<x, t>> # path /\ <<x, t>> # <<f, g.paths[level].elements>>
          BY <2>3
    <3> QED BY <1>8, <1>9, <1>10, <2>2, <3>1
  <2>4. CASE x = f
    <3>1. LeafCall(g, frame, level, n)
          BY <1>12, <2>4 DEF LeafAfter
    <3>2. CASE Covers /\ f \in g.hash.functions
      <4>1. LeafSlot(g, frame, level, n) /\ frame.init
            BY <1>12, <2>1, <3>1, <3>2 DEF LeafCall
      <4>2. /\ g.paths[level].elements = frame.trail
            /\ EndsPath(g, f, level) <=> frame.trail \in ToSet(info[f].paths)
            BY <3>2, <4>1 DEF LeafSlot, EndsPath
      <4>3. t = frame.trail => <<x, t>> \in e.hash.paths_hit
            BY <1>8, <1>12, <2>4, <3>2, <4>1, <4>2
      <4>4. /\ g.hash.paths_hit \subseteq e.hash.paths_hit
            /\ e.hash.paths_hit \subseteq g.hash.paths_hit \cup {path}
            BY <1>8, <4>2
      <4>5. <<x, t>> \in h.whole => <<x, t>> \in g.whole \/ t = frame.trail
            BY <1>8, <1>10
      <4> QED BY <1>8, <1>9, <1>10, <2>2, <4>3, <4>4, <4>5
    <3>3. CASE ~(Covers /\ f \in g.hash.functions)
      <4>1. e.hash.paths_hit = g.hash.paths_hit
            BY <1>8, <3>3 DEF EndsPath
      <4>2. h.whole = g.whole
            BY <1>8, <1>10, <3>1, <3>3 DEF LeafCall
      <4> QED BY <1>8, <1>9, <1>10, <2>2, <4>1, <4>2
    <3> QED BY <3>2, <3>3
  <2> QED BY <2>3, <2>4
<1>13. ~resumed /\ ~h.wild => LeafMarks(h)
       BY <1>12 DEF LeafMarks
<1>14. LeafAt(s, h, n)
       BY <1>7, <1>11, <1>13 DEF LeafAt
<1> QED BY <1>4, <1>14, LeafKept

LEMMA ReturnLeaf ==
    ASSUME CoverageAssumption, CoverageInv, HitsInv, LeafInv, Return
    PROVE  LeafInv'
<1>1. PICK g \in Handled(xg, Top.fn, level, Top.pc) :
             LeaveFunction(WithTaken(g, Top, Top.pc), Entered(Top, Top.pc))
      BY DEF Return
<1>2. stack # <<>> /\ Kind(Code[Top.fn], Top.pc) # "exit"
      BY DEF Return
<1>3. PICK k : k = WithTaken(g, Top, Top.pc)
      OBVIOUS
<1>4. PICK frame : frame = Entered(Top, Top.pc)
      OBVIOUS
<1>5. LeafAfter(k, frame)
      BY <1>2, <1>3, <1>4, OpcodeLeaf
<1>6. Tab(k, compiled \ filtered)
      BY <1>2, <1>3, OpcodeHits DEF HitsAfter
<1>7. frame.fn = Top.fn
      BY <1>2, <1>4, TopFacts
<1>8. LeaveFunction(k, frame)
      BY <1>1, <1>3, <1>4
<1> QED BY <1>2, <1>5, <1>6, <1>7, <1>8, LeaveLeaf

LEMMA UnwindLeaf ==
    ASSUME CoverageAssumption, CoverageInv, HitsInv, LeafInv, Unwind
    PROVE  LeafInv'
<1>1. stack # <<>> /\ LeaveFunction(xg, Top)
      BY DEF Unwind
<1>2. LeafAfter(xg, Top)
  <2>1. level \in 1..level /\ Top = stack[level] /\ Len(stack) = level
        BY <1>1, TopIs DEF level
  <2> QED BY <2>1 DEF LeafInv, LeafAt, LeafAfter
<1>3. Tab(xg, compiled \ filtered)
      BY DEF HitsInv, HitsAt
<1> QED BY <1>1, <1>2, <1>3, LeaveLeaf

LEMMA CompileScriptLeaf ==
    ASSUME CoverageAssumption, CoverageInv, HitsInv, LeafInv, CompileScript
    PROVE  LeafInv'
<1>1. /\ stack' = stack /\ stack = <<>> /\ UNCHANGED <<info, on, opts, resumed, functionCount>>
      /\ xg' = IF on /\ opts.unused THEN Prefill(xg, compiled', Main, filtered') ELSE xg
      BY DEF CompileScript, Compile
<1>2. PICK h : h = xg'
      OBVIOUS
<1>3. IsTables(xg)
      BY DEF HitsInv, HitsAt, Tab
<1>4. SameHits(xg, h) /\ h.wild = xg.wild
  <2>1. CASE on /\ opts.unused
        BY <1>1, <1>2, <1>3, <2>1, PrefillSame
  <2>2. CASE ~(on /\ opts.unused)
        BY <1>1, <1>2, <2>2 DEF SameHits
  <2> QED BY <2>1, <2>2
<1>5. VisitsCounted(h, functionCount) /\ (~resumed /\ ~h.wild => LeafMarks(h))
      BY <1>4, LeafMarksSame DEF LeafInv, LeafAt
<1>6. Len(stack) = 0
      BY <1>1, NoElements
<1>7. LeafAt(stack, h, functionCount)
      BY <1>5, <1>6 DEF LeafAt
<1> QED BY <1>1, <1>2, <1>7, LeafKept

LEMMA IncludeLeaf ==
    ASSUME CoverageAssumption, CoverageInv, HitsInv, LeafInv, Include
    PROVE  LeafInv'
<1>1. PICK f \in Fn : Compile(f) /\
         \E g \in Handled(xg, Top.fn, level, Top.pc) :
            xg' = LET h == WithTaken(g, Top, Top.pc)
                  IN  CountCall(IF on /\ opts.unused THEN Prefill(h, compiled', f, filtered')
                                ELSE h, f \in filtered')
      BY DEF Include
<1>2. PICK g \in Handled(xg, Top.fn, level, Top.pc) :
            xg' = LET h == WithTaken(g, Top, Top.pc)
                  IN  CountCall(IF on /\ opts.unused THEN Prefill(h, compiled', f, filtered')
                                ELSE h, f \in filtered')
      BY <1>1
<1>3. /\ stack # <<>> /\ Kind(Code[Top.fn], Top.pc) = "call"
      /\ stack' = [stack EXCEPT ![level] = [Entered(Top, Top.pc) EXCEPT !.pc = @ + 1]]
      /\ UNCHANGED <<info, resumed, functionCount>>
      BY <1>1 DEF Include, AtCall, SetTop, Compile
<1>4. PICK k : k = WithTaken(g, Top, Top.pc)
      OBVIOUS
<1>5. IsTables(k)
      BY <1>3, <1>4, OpcodeHits DEF HitsAfter, Tab
<1>6. VisitsCounted(k, functionCount) /\ (~resumed /\ ~k.wild => LeafMarks(k))
      BY <1>3, <1>4, OpcodeLeaf DEF LeafAfter
<1>7. PICK h : h = xg'
      OBVIOUS
<1>11. PICK m : m = IF on /\ opts.unused THEN Prefill(k, compiled', f, filtered') ELSE k
       OBVIOUS
<1>8. SameHits(k, m) /\ m.wild = k.wild /\ IsTables(m)
  <2>1. CASE on /\ opts.unused
    <3>1. m = Prefill(k, compiled', f, filtered')
          BY <1>11, <2>1
    <3> QED BY <1>5, <3>1, PrefillSame
  <2>2. CASE ~(on /\ opts.unused)
    <3>1. m = k
          BY <1>11, <2>2
    <3> QED BY <1>5, <3>1 DEF SameHits
  <2> QED BY <2>1, <2>2
<1>12. h = CountCall(m, f \in filtered')
       BY <1>2, <1>4, <1>7, <1>11
<1>13. SamePaths(m, h) /\ h.followed = m.followed /\ h.whole = m.whole
       BY <1>8, <1>12, CountPaths
<1>14. VisitsCounted(m, functionCount) /\ (~resumed /\ ~m.wild => LeafMarks(m))
       BY <1>6, <1>8, LeafMarksSame
<1>9. VisitsCounted(h, functionCount) /\ (~resumed /\ ~h.wild => LeafMarks(h))
      BY <1>13, <1>14 DEF SamePaths, VisitsCounted, LeafMarks
<1>10. \A l \in 1..Len(stack') : ~Leaf(stack'[l].fn)
       BY <1>3, GoesOnFn, NoLeaf
<1> QED BY <1>3, <1>7, <1>9, <1>10, LeafBelow

\* After the calls that a call opcode makes inside the interpreter, one more
\* call has been counted.
LEMMA CountedOn ==
    ASSUME NEW g, VisitsCounted(g, functionCount)
    PROVE  VisitsCounted(g, functionCount + 1)
<1>1. functionCount \in Int /\ \A k \in g.visited : k[3] \in Int /\ k[3] <= functionCount
      BY DEF VisitsCounted
<1>2. \A k \in g.visited : k[3] \in Int /\ k[3] <= functionCount + 1
      BY <1>1
<1> QED BY <1>1, <1>2 DEF VisitsCounted

LEMMA InternalLeaf ==
    ASSUME CoverageAssumption, CoverageInv, HitsInv, LeafInv, Internal \/ SetFilter
    PROVE  LeafInv'
<1>1. /\ stack # <<>> /\ Kind(Code[Top.fn], Top.pc) = "call"
      /\ stack' = [stack EXCEPT ![level] = [Entered(Top, Top.pc) EXCEPT !.pc = @ + 1]]
      /\ UNCHANGED <<info, resumed>> /\ functionCount' = functionCount + 1
      BY DEF Internal, SetFilter, CallInternal, AtCall, Resume, SetTop
<1>2. xg' \in Called(InternalSlots)
      BY DEF Internal, SetFilter, CallInternal
<1>3. PICK k : k = xg'
      OBVIOUS
<1>4. VisitsCounted(k, functionCount) /\ (~resumed /\ ~k.wild => LeafMarks(k))
      BY <1>1, <1>2, <1>3, CallMarks
<1>5. VisitsCounted(k, functionCount + 1)
      BY <1>4, CountedOn
<1>6. \A l \in 1..Len(stack') : ~Leaf(stack'[l].fn)
      BY <1>1, GoesOnFn, NoLeaf
<1> QED BY <1>1, <1>3, <1>4, <1>5, <1>6, LeafBelow

LEMMA InternalThrowLeaf ==
    ASSUME CoverageAssumption, CoverageInv, HitsInv, LeafInv, InternalThrows
    PROVE  LeafInv'
<1>1. /\ stack # <<>> /\ Kind(Code[Top.fn], Top.pc) = "call"
      /\ stack' = With(stack, level, Entered(Top, Top.pc)) /\ xg' \in Called(InternalSlots)
      /\ UNCHANGED <<info, resumed>> /\ functionCount' = functionCount + 1
      BY DEF InternalThrows, AtCall, SetTop, With
<1>2. PICK k : k = xg'
      OBVIOUS
<1>3. VisitsCounted(k, functionCount) /\ (~resumed /\ ~k.wild => LeafMarks(k))
      BY <1>1, <1>2, CallMarks
<1>4. VisitsCounted(k, functionCount + 1)
      BY <1>3, CountedOn
<1>5. PICK frame : frame = Entered(Top, Top.pc)
      OBVIOUS
<1>6. frame.fn = Top.fn /\ Top = stack[level] /\ stack' = With(stack, level, frame)
      BY <1>1, <1>5, TopFacts, TopIs
<1>7. \A l \in 1..Len(stack') : ~Leaf(stack'[l].fn)
  <2>1. /\ Len(stack') = level /\ stack'[level] = frame
        /\ \A l \in 1..level : l # level => stack'[l] = stack[l]
        BY <1>1, <1>6, TopBecomes
  <2> QED BY <1>1, <1>6, <2>1, NoLeaf
<1> QED BY <1>1, <1>2, <1>3, <1>4, <1>7, LeafBelow

LEMMA NotWholeLeaf ==
    ASSUME CoverageAssumption, CoverageInv, HitsInv, LeafInv, stack # <<>>,
           Kind(Code[Top.fn], Top.pc) = "call"
    PROVE  \A s : s = NotWhole => \A l \in 1..Len(s) : ~Leaf(s[l].fn)
<1>1. SUFFICES ASSUME NEW s, s = NotWhole
               PROVE  \A l \in 1..Len(s) : ~Leaf(s[l].fn)
      OBVIOUS
<1>2. Len(s) = level /\ \A l \in 1..level : s[l].fn = stack[l].fn
      BY <1>1, NotWholeHits
<1> QED BY <1>2, NoLeaf

LEMMA StartLeaf ==
    ASSUME CoverageAssumption, CoverageInv, HitsInv, LeafInv, StartCodeCoverage
    PROVE  LeafInv'
<1>1. /\ stack # <<>> /\ Kind(Code[Top.fn], Top.pc) = "call" /\ stack' = NotWhole
      /\ info' = info /\ functionCount' = functionCount + 1 /\ (~resumed' => ~resumed)
      BY DEF StartCodeCoverage, CallInternal, AtCall
<1>2. xg' \in Called(InternalSlots)
      BY DEF StartCodeCoverage, CallInternal
<1>3. PICK k : k = xg'
      OBVIOUS
<1>4. VisitsCounted(k, functionCount) /\ (~resumed /\ ~k.wild => LeafMarks(k))
      BY <1>1, <1>2, <1>3, CallMarks
<1>5. VisitsCounted(k, functionCount + 1)
      BY <1>4, CountedOn
<1>6. \A l \in 1..Len(stack') : ~Leaf(stack'[l].fn)
      BY <1>1, NotWholeLeaf
<1> QED BY <1>1, <1>3, <1>4, <1>5, <1>6, LeafBelow

LEMMA CleanedLeaf ==
    ASSUME NEW g, IsTables(g), NEW h, h = Cleaned(g)
    PROVE  LeafMarks(h) /\ h.visited = g.visited
<1>1. h = [g EXCEPT !.hash = EmptyHash, !.paths = <<>>, !.followed = {}, !.whole = {},
                    !.taken = {}, !.startId = g.startId + 1]
      BY DEF Cleaned, CleanedSameId, IsTables
<1>2. h.hash = EmptyHash /\ h.whole = {} /\ h.visited = g.visited
      BY <1>1 DEF IsTables
<1>3. h.hash.paths_hit = {}
      BY <1>2 DEF EmptyHash
<1> QED BY <1>2, <1>3 DEF LeafMarks

LEMMA StopLeaf ==
    ASSUME CoverageAssumption, CoverageInv, HitsInv, LeafInv, StopCodeCoverage
    PROVE  LeafInv'
<1>1. /\ stack # <<>> /\ Kind(Code[Top.fn], Top.pc) = "call" /\ stack' = NotWhole
      /\ UNCHANGED <<info, resumed>> /\ functionCount' = functionCount + 1
      BY DEF StopCodeCoverage, CallInternal, AtCall
<1>3. PICK k \in Called(InternalSlots) : xg' = k \/ xg' = Cleaned(k)
      BY DEF StopCodeCoverage, CallInternal
<1>4. VisitsCounted(k, functionCount) /\ (~resumed /\ ~k.wild => LeafMarks(k))
      BY <1>1, <1>3, CallMarks
<1>5. PICK h : h = xg'
      OBVIOUS
<1>6. VisitsCounted(h, functionCount) /\ (~resumed /\ ~h.wild => LeafMarks(h))
  <2>1. CASE h = k
        BY <1>4, <2>1
  <2>2. CASE h = Cleaned(k)
    <3>1. IsTables(k)
          BY <1>1, <1>3, CalledHits DEF HitsAfter, Tab
    <3>2. LeafMarks(h) /\ h.visited = k.visited
          BY <2>2, <3>1, CleanedLeaf
    <3> QED BY <1>4, <3>2 DEF VisitsCounted
  <2> QED BY <1>3, <1>5, <2>1, <2>2
<1>7. VisitsCounted(h, functionCount + 1)
      BY <1>6, CountedOn
<1>8. \A l \in 1..Len(stack') : ~Leaf(stack'[l].fn)
      BY <1>1, NotWholeLeaf
<1> QED BY <1>1, <1>5, <1>6, <1>7, <1>8, LeafBelow

LEMMA LeafInit ==
    ASSUME Init
    PROVE  LeafInv
<1>1. PICK g : g = xg
      OBVIOUS
<1>2. g = Tables /\ stack = <<>> /\ functionCount = -1
      BY <1>1 DEF Init
<1>3. g.hash = EmptyHash /\ g.visited = {} /\ g.whole = {}
      BY <1>2 DEF Tables
<1>4. g.hash.paths_hit = {}
      BY <1>3 DEF EmptyHash
<1>5. Len(stack) = 0
      BY <1>2, NoElements
<1>6. LeafMarks(g) /\ VisitsCounted(g, functionCount)
      BY <1>2, <1>3, <1>4 DEF LeafMarks, VisitsCounted
<1> QED BY <1>1, <1>5, <1>6 DEF LeafInv, LeafAt

\* In every state of every request, only the last call can be one of a leaf,
\* and if it is covered the slots of its level hold what it has followed: no
\* call that had the level before has left a branch, an element or an edge
\* that would count as its own.
THEOREM LeafInvariant == Spec => []LeafInv
<1>1. Init => LeafInv
      BY LeafInit
<1>2. CoverageInv /\ HitsInv /\ LeafInv /\ [Next]_vars => LeafInv'
  <2> SUFFICES ASSUME CoverageInv, HitsInv, LeafInv, [Next]_vars PROVE LeafInv'
      OBVIOUS
  <2>1. CASE UNCHANGED vars
    <3>1. UNCHANGED <<info, stack, on, opts, resumed, functionCount, xg>>
          BY <2>1 DEF vars
    <3>2. LeafAt(stack', xg', functionCount')
          BY <3>1 DEF LeafInv
    <3> QED BY <3>1, <3>2, LeafKept
  <2>2. CASE CompileScript
        BY <2>2, CoverageAssumption, CompileScriptLeaf
  <2>3. CASE Include
        BY <2>3, CoverageAssumption, IncludeLeaf
  <2>4. CASE RunScript
        BY <2>4, CoverageAssumption, RunScriptLeaf
  <2>5. CASE Step
        BY <2>5, CoverageAssumption, StepLeaf
  <2>6. CASE Throw
        BY <2>6, CoverageAssumption, ThrowLeaf
  <2>14. CASE InternalThrows
         BY <2>14, CoverageAssumption, InternalThrowLeaf
  <2>7. CASE Catch
        BY <2>7, CoverageAssumption, CatchLeaf
  <2>8. CASE Call
        BY <2>8, CoverageAssumption, CallLeaf
  <2>9. CASE Return
        BY <2>9, CoverageAssumption, ReturnLeaf
  <2>10. CASE Unwind
         BY <2>10, CoverageAssumption, UnwindLeaf
  <2>11. CASE Internal \/ SetFilter
         BY <2>11, CoverageAssumption, InternalLeaf
  <2>12. CASE StartCodeCoverage
         BY <2>12, CoverageAssumption, StartLeaf
  <2>13. CASE StopCodeCoverage
         BY <2>13, CoverageAssumption, StopLeaf
  <2> QED BY <2>1, <2>2, <2>3, <2>4, <2>5, <2>6, <2>7, <2>8, <2>9, <2>10, <2>11, <2>12, <2>13,
             <2>14
          DEF Next
<1> QED BY <1>1, <1>2, CoverageInvariant, HitsInvariant, PTL DEF Spec

\* For a function that calls no user function, the paths marked as hit are
\* those its covered calls have followed, in every request: however the levels
\* are handed from call to call, and wherever an exception is caught.
THEOREM LeafPathsHit == Spec => []LeafPathsExact
<1>1. LeafInv => LeafPathsExact
      BY DEF LeafInv, LeafAt, LeafMarks, LeafPathsExact, Sound
<1> QED BY <1>1, LeafInvariant, PTL

=============================================================================
