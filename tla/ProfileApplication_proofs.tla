---------------------- MODULE ProfileApplication_proofs ----------------------
(***************************************************************************)
(* Proofs about the deployment, for every set of applications and mappings *)
(* and every order of runs, failures and kills.                            *)
(***************************************************************************)
EXTENDS ProfileApplication, TLAPS

Empty(d) == /\ d.calls = [f \in File |-> {}]
            /\ d.edges = {}
            /\ d.classes = {}

NeedsOf(m) == [fn \in Function |-> Map!After(m, Len(m), fn, {}, Name)]

\* How far the tables are at each step: empty up to the scan, and never more
\* than the run's version and mapping give.
DbProgress ==
    /\ pc = "syscalls" => db = EmptyDb
    /\ pc = "functions" => Empty(db) /\ db.needs = [fn \in Function |-> {}]
    /\ pc \in {"scan", "build"} =>
          \A fn \in Function : db.needs[fn] \subseteq NeedsOf(mapping)[fn]
    /\ pc = "scan" => Empty(db)
    /\ pc = "build" => /\ \A f \in File : db.calls[f] \subseteq Calls[scanned][f]
                       /\ db.edges \subseteq Includes[scanned]
                       /\ db.classes \subseteq Classes[scanned]

\* The same when nothing failed so far.
CleanProgress ==
    clean =>
        /\ pc = "functions" => db.names = Name
        /\ pc = "scan" => db.names = Name /\ db.needs = NeedsOf(mapping)
        /\ pc = "build" => db = Ideal(scanned, mapping)
        /\ pc = "copy" => filter = Profile(Ideal(scanned, mapping))
        /\ pc \in {"idle", "kill", "start"} => output = Profile(Ideal(scanned, mapping))

\* A file holds no more than one version of the application needs under one
\* mapping, and at most one call that is read of a number cut off.
FileWithin(p, a, m) ==
    /\ \A f \in DOMAIN p.rows : p.rows[f] \subseteq Needed[a][m][f]
    /\ \A f \in File, t \in Name : <<f, t>> \in p.torn => t \in Tears(Needed[a][m][f])
    /\ \A k, l \in p.torn : k = l

Justified(p) == p # Absent => \E a \in App, m \in Mappings : FileWithin(p, a, m)
JustifiedInForce(p) ==
    p # Absent => \E a \in App, m \in Mappings : \E torn \in Torn(a, m) : Within(p, a, m, torn)

AllJustified ==
    Justified(filter) /\ Justified(output) /\ Justified(deployed) /\ JustifiedInForce(loaded)

IInv == TypeOK /\ DbProgress /\ CleanProgress /\ AllJustified

Tables == [names : {{}, Name}, needs : [Function -> SUBSET Name],
           calls : [File -> SUBSET Function],
           edges : SUBSET (File \X File), classes : SUBSET (File \X File)]

-----------------------------------------------------------------------------
\* A line of a mapping contributes registered names only.
LEMMA AfterInNames ==
    ASSUME NEW m \in Mappings, NEW fn, NEW old \in SUBSET Name, NEW names \in SUBSET Name
    PROVE  Map!After(m, Len(m), fn, old, names) \subseteq Name
BY DEF Map!After, Map!Expand

\* With fewer registered names a function needs less.
LEMMA AfterMonotone ==
    ASSUME NEW m \in Mappings, NEW fn, NEW names \in SUBSET Name
    PROVE  Map!After(m, Len(m), fn, {}, names) \subseteq Map!After(m, Len(m), fn, {}, Name)
BY DEF Map!After, Map!Expand

\* More edges reach more files.
LEMMA ReachMonotone ==
    ASSUME NEW E1, NEW E2, E1 \subseteq E2, NEW f
    PROVE  Reach(E1, f) \subseteq Reach(E2, f)
BY DEF Reach

\* Tables that hold no more give no wider row.
LEMMA RowMonotone ==
    ASSUME NEW d1, NEW d2, NEW f,
           \A fn \in Function : d1.needs[fn] \subseteq d2.needs[fn],
           \A g \in File : d1.calls[g] \subseteq d2.calls[g],
           \A g \in File : d2.calls[g] \subseteq Function,
           d1.edges \subseteq d2.edges, d1.classes \subseteq d2.classes
    PROVE  Row(d1, f) \subseteq Row(d2, f)
<1> DEFINE R1 == Reach(d1.edges \cup d1.classes, f)
           R2 == Reach(d2.edges \cup d2.classes, f)
<1>1. R1 \subseteq R2
  BY ReachMonotone
<1>2. R1 \subseteq File
  BY DEF Reach
<1> HIDE DEF R1, R2
<1>3. UNION {d1.calls[g] : g \in R1} \subseteq UNION {d2.calls[g] : g \in R2}
  BY <1>1, <1>2
<1>4. UNION {d1.calls[g] : g \in R1} \subseteq Function
  BY <1>2
<1>5. UNION {d1.needs[fn] : fn \in UNION {d1.calls[g] : g \in R1}}
        \subseteq UNION {d2.needs[fn] : fn \in UNION {d2.calls[g] : g \in R2}}
  BY <1>3, <1>4
<1> QED
  BY <1>5 DEF Row, R1, R2

\* A row of well-typed tables is a set of system calls.
LEMMA RowInName ==
    ASSUME NEW d \in Tables, NEW f
    PROVE  Row(d, f) \subseteq Name
<1>1. Reach(d.edges \cup d.classes, f) \subseteq File
  BY DEF Reach
<1>2. \A g \in File : d.calls[g] \subseteq Function
  BY DEF Tables
<1>3. \A fn \in Function : d.needs[fn] \subseteq Name
  BY DEF Tables
<1> QED
  BY <1>1, <1>2, <1>3 DEF Row

LEMMA ProfileOK ==
    ASSUME NEW d \in Tables
    PROVE  PolicyOK(Profile(d))
<1> DEFINE S == {g \in File : Row(d, g) # {}}
           rows == [f \in S |-> Row(d, f)]
<1>1. rows \in [S -> SUBSET Name]
  BY RowInName
<1>2. Profile(d) = Policy(rows, {}) /\ S \in SUBSET File /\ {} \in SUBSET (S \X Name)
  BY DEF Profile
<1> HIDE DEF S, rows
<1> QED
  BY <1>1, <1>2 DEF PolicyOK

LEMMA PolicyPresent ==
    ASSUME NEW S \in SUBSET File, NEW rows \in [S -> SUBSET Name], NEW torn \in SUBSET (S \X Name)
    PROVE  Policy(rows, torn) # Absent
<1>1. torn \in SUBSET (File \X Name)
  OBVIOUS
<1> QED
  BY <1>1, ProfileAssumption DEF Policy

\* The parts of a policy on disk.
LEMMA PolicyParts ==
    ASSUME NEW p, PolicyOK(p), p # Absent
    PROVE  /\ DOMAIN p.rows \subseteq File
           /\ p.rows \in [DOMAIN p.rows -> SUBSET Name]
           /\ p.torn \in SUBSET ((DOMAIN p.rows) \X Name)
<1>1. PICK D \in SUBSET File : \E rows \in [D -> SUBSET Name], torn \in SUBSET (D \X Name) :
          p = Policy(rows, torn)
  BY DEF PolicyOK
<1>2. PICK rows \in [D -> SUBSET Name], torn \in SUBSET (D \X Name) : p = Policy(rows, torn)
  BY <1>1
<1>3. p.rows = rows /\ p.torn = torn
  BY <1>2 DEF Policy
<1>4. DOMAIN rows = D
  OBVIOUS
<1> QED
  BY <1>3, <1>4, Zenon

LEMMA ProfilePresent ==
    ASSUME NEW d \in Tables
    PROVE  Profile(d) # Absent
<1> DEFINE S == {g \in File : Row(d, g) # {}}
           rows == [f \in S |-> Row(d, f)]
<1>1. rows \in [S -> SUBSET Name]
  BY RowInName
<1>2. Profile(d) = Policy(rows, {}) /\ S \in SUBSET File /\ {} \in SUBSET (S \X Name)
  BY DEF Profile
<1> HIDE DEF S, rows
<1> QED
  BY <1>1, <1>2, PolicyPresent

LEMMA IdealOK ==
    ASSUME NEW a \in App, NEW m \in Mappings
    PROVE  Ideal(a, m) \in Tables
<1>1. \A fn \in Function : Map!After(m, Len(m), fn, {}, Name) \subseteq Name
  BY AfterInNames
<1> QED
  BY <1>1, ProfileAssumption DEF Ideal, Tables

LEMMA NeededInName ==
    ASSUME NEW a \in App, NEW m \in Mappings, NEW f \in File
    PROVE  Needed[a][m][f] = Row(Ideal(a, m), f) /\ Needed[a][m][f] \subseteq Name
<1>1. Needed[a][m][f] = Row(Ideal(a, m), f)
  BY DEF Needed
<1>2. Row(Ideal(a, m), f) \subseteq Name
  BY IdealOK, RowInName
<1> QED
  BY <1>1, <1>2

\* What is read of the numbers of more calls is no less, and cutting once more
\* gives nothing new.
LEMMA TearsMonotone ==
    ASSUME NEW X, NEW Y, X \subseteq Y
    PROVE  Tears(X) \subseteq Tears(Y)
BY DEF Tears

LEMMA TearsAgain ==
    ASSUME NEW X \in SUBSET Name
    PROVE  Tears(X) \subseteq Name /\ Tears(Tears(X)) \subseteq Tears(X)
<1>1. ASSUME NEW u \in Tears(Tears(X)) PROVE u \in Tears(X)
  <2>1. PICK t \in Tears(X) : u \in Begun[t]
    BY DEF Tears
  <2>2. PICK n \in X : t \in Begun[n]
    BY <2>1 DEF Tears
  <2>3. u \in Begun[n]
    BY <2>1, <2>2, BegunAssumption
  <2> QED
    BY <2>2, <2>3 DEF Tears
<1>2. Tears(X) \subseteq Name
  BY BegunAssumption DEF Tears
<1> QED
  BY <1>1, <1>2

\* A line that is cut keeps some of its words, and at most one torn call.
LEMMA CutLineParts ==
    ASSUME NEW p, NEW f, NEW end \in CutLine(p, f)
    PROVE  /\ end[1] \subseteq p.rows[f]
           /\ \/ end[2] = {}
              \/ \E t \in Tears(p.rows[f]) \cup TornAt(p, f) \cup Tears(TornAt(p, f)) :
                    end[2] = {<<f, t>>}
<1>1. CASE \E words \in SUBSET p.rows[f] : end = <<words, {}>>
  BY <1>1
<1>2. CASE \E words \in SUBSET p.rows[f] : \E t \in Tears(p.rows[f] \ words) :
              end = <<words, {<<f, t>>}>>
  <2>1. PICK words \in SUBSET p.rows[f] : \E t \in Tears(p.rows[f] \ words) :
              end = <<words, {<<f, t>>}>>
    BY <1>2
  <2>2. Tears(p.rows[f] \ words) \subseteq Tears(p.rows[f])
    BY TearsMonotone
  <2> QED
    BY <2>1, <2>2
<1>3. CASE \E t \in TornAt(p, f) \cup Tears(TornAt(p, f)) : end = <<p.rows[f], {<<f, t>>}>>
  BY <1>3
<1>4. \/ end \in {<<words, {}>> : words \in SUBSET p.rows[f]}
      \/ end \in UNION {{<<words, {<<f, t>>}>> : t \in Tears(p.rows[f] \ words)} :
                              words \in SUBSET p.rows[f]}
      \/ end \in {<<p.rows[f], {<<f, t>>}>> : t \in TornAt(p, f) \cup Tears(TornAt(p, f))}
  BY Zenon DEF CutLine
<1>5. CASE end \in {<<words, {}>> : words \in SUBSET p.rows[f]}
  BY <1>1, <1>5, Zenon
<1>6. CASE end \in UNION {{<<words, {<<f, t>>}>> : t \in Tears(p.rows[f] \ words)} :
                              words \in SUBSET p.rows[f]}
  <2>1. PICK X \in {{<<words, {<<f, t>>}>> : t \in Tears(p.rows[f] \ words)} :
                              words \in SUBSET p.rows[f]} : end \in X
    BY <1>6, Zenon
  <2>2. PICK words \in SUBSET p.rows[f] :
            X = {<<words, {<<f, t>>}>> : t \in Tears(p.rows[f] \ words)}
    BY <2>1, Zenon
  <2> QED
    BY <1>2, <2>1, <2>2, Zenon
<1>7. CASE end \in {<<p.rows[f], {<<f, t>>}>> : t \in TornAt(p, f) \cup Tears(TornAt(p, f))}
  BY <1>3, <1>7, Zenon
<1> QED
  BY <1>4, <1>5, <1>6, <1>7

\* What a file cut off holds.
LEMMA CutShape ==
    ASSUME NEW p, NEW q \in Cut(p)
    PROVE  \/ q = Policy([f \in {} |-> {}], {})
           \/ \E S \in SUBSET DOMAIN p.rows : \E last \in S : \E end \in CutLine(p, last) :
                 q = Policy([f \in S |-> IF f = last THEN end[1] ELSE p.rows[f]], end[2])
<1>1. CASE q = Policy([f \in {} |-> {}], {})
  BY <1>1, Zenon
<1>2. CASE \E S \in SUBSET DOMAIN p.rows : \E last \in LastOf(p, S) :
              \E end \in CutLine(p, last) :
                 q = Policy([f \in S |-> IF f = last THEN end[1] ELSE p.rows[f]], end[2])
  BY <1>2, Zenon DEF LastOf
<1> DEFINE Ends(S, last) ==
             {Policy([f \in S |-> IF f = last THEN end[1] ELSE p.rows[f]], end[2]) :
                  end \in CutLine(p, last)}
           Lasts(S) == UNION {Ends(S, last) : last \in LastOf(p, S)}
<1>3. CASE q \in UNION {Lasts(S) : S \in SUBSET DOMAIN p.rows}
  <2>1. PICK S \in SUBSET DOMAIN p.rows : q \in Lasts(S)
    BY <1>3, Zenon
  <2>2. PICK last \in LastOf(p, S) : q \in Ends(S, last)
    BY <2>1, Zenon
  <2> QED
    BY <1>2, <2>2, Zenon
<1>4. q = Policy([f \in {} |-> {}], {}) \/ q \in UNION {Lasts(S) : S \in SUBSET DOMAIN p.rows}
  BY Zenon DEF Cut
<1> QED
  BY <1>1, <1>3, <1>4, Zenon

\* A file cut off is a policy: each line a part of what it was, and one torn
\* call, which the line had or which is read of one of its numbers.
LEMMA CutNarrows ==
    ASSUME NEW p, PolicyOK(p), p # Absent, NEW q \in Cut(p)
    PROVE  /\ PolicyOK(q) /\ q # Absent
           /\ DOMAIN q.rows \subseteq DOMAIN p.rows
           /\ \A f \in DOMAIN q.rows : q.rows[f] \subseteq p.rows[f]
           /\ \/ q.torn = {}
              \/ \E f \in DOMAIN p.rows :
                    \E t \in Tears(p.rows[f]) \cup TornAt(p, f) \cup Tears(TornAt(p, f)) :
                        q.torn = {<<f, t>>}
<1> DEFINE D == DOMAIN p.rows
<1>1. D \subseteq File /\ p.rows \in [D -> SUBSET Name]
  BY PolicyParts
<1>2. p.torn \in SUBSET (D \X Name)
  BY PolicyParts
<1>3. CASE q = Policy([f \in {} |-> {}], {})
  <2>1. [f \in {} |-> {}] \in [{} -> SUBSET Name] /\ {} \in SUBSET ({} \X Name)
    OBVIOUS
  <2>2. q.rows = [f \in {} |-> {}] /\ q.torn = {}
    BY <1>3 DEF Policy
  <2>3. PolicyOK(q)
    BY <1>3, <2>1 DEF PolicyOK
  <2>4. q # Absent
    BY <1>3, <2>1, PolicyPresent
  <2> QED
    BY <2>2, <2>3, <2>4
<1>4. CASE \E S \in SUBSET DOMAIN p.rows : \E last \in S : \E end \in CutLine(p, last) :
              q = Policy([f \in S |-> IF f = last THEN end[1] ELSE p.rows[f]], end[2])
  <2>0. PICK S \in SUBSET D : \E last \in S : \E end \in CutLine(p, last) :
            q = Policy([f \in S |-> IF f = last THEN end[1] ELSE p.rows[f]], end[2])
    BY <1>4
  <2>a. PICK last \in S : \E end \in CutLine(p, last) :
            q = Policy([f \in S |-> IF f = last THEN end[1] ELSE p.rows[f]], end[2])
    BY <2>0
  <2>1. PICK end \in CutLine(p, last) :
            q = Policy([f \in S |-> IF f = last THEN end[1] ELSE p.rows[f]], end[2])
    BY <2>a
  <2> DEFINE rows == [f \in S |-> IF f = last THEN end[1] ELSE p.rows[f]]
  <2>2. q.rows = rows /\ q.torn = end[2] /\ q = Policy(rows, end[2])
    BY <2>1 DEF Policy
  <2>3. /\ end[1] \subseteq p.rows[last]
        /\ \/ end[2] = {}
           \/ \E t \in Tears(p.rows[last]) \cup TornAt(p, last) \cup Tears(TornAt(p, last)) :
                 end[2] = {<<last, t>>}
    BY CutLineParts
  <2>4. rows \in [S -> SUBSET Name] /\ \A f \in S : rows[f] \subseteq p.rows[f]
    BY <1>1, <1>2, <2>3
  <2>5. end[2] \in SUBSET (S \X Name)
    <3>1. p.rows[last] \in SUBSET Name /\ TornAt(p, last) \in SUBSET Name
      BY <1>1, <1>2 DEF TornAt
    <3>2. Tears(p.rows[last]) \subseteq Name /\ Tears(TornAt(p, last)) \subseteq Name
      BY <3>1, TearsAgain
    <3> QED
      BY <2>3, <3>1, <3>2
  <2>6. DOMAIN rows = S
    OBVIOUS
  <2> HIDE DEF rows
  <2>b. S \in SUBSET File
    BY <1>1
  <2>7. PolicyOK(q)
    BY <2>b, <2>2, <2>4, <2>5, Zenon DEF PolicyOK
  <2>8. q # Absent
    <3>1. rows \in [S -> SUBSET Name]
      BY <2>4
    <3> QED
      BY <2>b, <2>2, <3>1, <2>5, PolicyPresent, Zenon
  <2> QED
    BY <1>2, <2>2, <2>3, <2>4, <2>6, <2>7, <2>8
<1> QED
  BY <1>3, <1>4, CutShape

LEMMA CutOK ==
    ASSUME NEW p, PolicyOK(p), p # Absent, NEW q \in Cut(p)
    PROVE  PolicyOK(q)
BY CutNarrows

LEMMA CutJustified ==
    ASSUME NEW p, PolicyOK(p), p # Absent, Justified(p), NEW q \in Cut(p)
    PROVE  Justified(q)
<1>1. PICK a \in App, m \in Mappings : FileWithin(p, a, m)
  BY DEF Justified
<1> DEFINE D == DOMAIN p.rows
<1>2. D \subseteq File /\ p.rows \in [D -> SUBSET Name]
  BY PolicyParts
<1>3. p.torn \in SUBSET (D \X Name)
  BY PolicyParts
<1>4. \A f \in DOMAIN q.rows : q.rows[f] \subseteq Needed[a][m][f]
  BY <1>1, CutNarrows DEF FileWithin
<1>5. ASSUME NEW f \in D, NEW t \in Tears(p.rows[f]) \cup TornAt(p, f) \cup Tears(TornAt(p, f))
      PROVE  t \in Tears(Needed[a][m][f])
  <2>1. p.rows[f] \subseteq Needed[a][m][f] /\ Needed[a][m][f] \in SUBSET Name
    <3>1. p.rows[f] \subseteq Needed[a][m][f]
      BY <1>1 DEF FileWithin
    <3>2. f \in File
      BY <1>2
    <3> QED
      BY <3>1, <3>2, NeededInName
  <2>2. TornAt(p, f) \subseteq Tears(Needed[a][m][f])
    <3>1. ASSUME NEW u \in TornAt(p, f) PROVE u \in Tears(Needed[a][m][f])
      <4>1. PICK l \in p.torn : l[1] = f /\ u = l[2]
        BY DEF TornAt
      <4>2. l = <<f, u>> /\ f \in File /\ u \in Name
        BY <1>2, <1>3, <4>1
      <4> QED
        BY <1>1, <4>1, <4>2 DEF FileWithin
    <3> QED
      BY <3>1
  <2>3. Tears(p.rows[f]) \subseteq Tears(Needed[a][m][f])
    BY <2>1, TearsMonotone
  <2>4. Tears(TornAt(p, f)) \subseteq Tears(Tears(Needed[a][m][f]))
    BY <2>2, TearsMonotone
  <2>5. Tears(Tears(Needed[a][m][f])) \subseteq Tears(Needed[a][m][f])
    BY <2>1, TearsAgain
  <2> QED
    BY <2>2, <2>3, <2>4, <2>5
<1>6. FileWithin(q, a, m)
  <2>1. CASE q.torn = {}
    BY <1>4, <2>1 DEF FileWithin
  <2>2. CASE \E f \in D :
                \E t \in Tears(p.rows[f]) \cup TornAt(p, f) \cup Tears(TornAt(p, f)) :
                    q.torn = {<<f, t>>}
    <3>0. PICK f \in D :
              \E t \in Tears(p.rows[f]) \cup TornAt(p, f) \cup Tears(TornAt(p, f)) :
                  q.torn = {<<f, t>>}
      BY <2>2
    <3>1. PICK t \in Tears(Needed[a][m][f]) : q.torn = {<<f, t>>}
      BY <1>5, <3>0
    <3>2. \A g \in File, u \in Name : <<g, u>> \in q.torn => u \in Tears(Needed[a][m][g])
      BY <3>1
    <3>3. \A k, l \in q.torn : k = l
      BY <3>1
    <3> QED
      BY <1>4, <3>2, <3>3 DEF FileWithin
  <2> QED
    BY <1>3, <2>1, <2>2, CutNarrows
<1> QED
  BY <1>6 DEF Justified

\* What MINIT reads of a file that is justified is justified, by the torn call
\* of the file if it has one.
LEMMA LinesNarrow ==
    ASSUME NEW p, p # Absent, PolicyOK(p), Justified(p)
    PROVE  /\ \E S \in SUBSET File : Lines(p) \in [S -> SUBSET Name]
           /\ LoadedOK(Lines(p)) /\ JustifiedInForce(Lines(p))
<1> DEFINE D == DOMAIN p.rows
<1>1. D \subseteq File /\ p.rows \in [D -> SUBSET Name]
  BY PolicyParts
<1>2. p.torn \in SUBSET (D \X Name)
  BY PolicyParts
<1>3. \A f \in D : TornAt(p, f) = {t \in Name : <<f, t>> \in p.torn}
  BY <1>1, <1>2 DEF TornAt
<1>4. \A f \in D : Allowed(p, f) \subseteq Name
  BY <1>1, <1>2, <1>3 DEF Allowed
<1>5. Lines(p) \in [{g \in D : Allowed(p, g) # {}} -> SUBSET Name]
  BY <1>2, <1>4 DEF Lines
<1>6. PICK a \in App, m \in Mappings : FileWithin(p, a, m)
  BY DEF Justified
<1>7. p.torn \in Torn(a, m)
  <2>1. CASE p.torn = {}
    BY <2>1 DEF Torn
  <2>2. CASE p.torn # {}
    <3>1. PICK l \in p.torn : TRUE
      BY <2>2
    <3>2. p.torn = {l}
      BY <1>6, <3>1 DEF FileWithin
    <3>3. PICK f \in File, t \in Name : l = <<f, t>>
      BY <1>1, <1>2, <3>1
    <3>4. t \in Tears(Needed[a][m][f])
      BY <1>6, <3>1, <3>3 DEF FileWithin
    <3> QED
      BY <3>2, <3>3, <3>4 DEF Torn
  <2> QED
    BY <2>1, <2>2
<1>8. Within(Lines(p), a, m, p.torn)
  <2>1. ASSUME NEW f \in D, NEW n \in Allowed(p, f)
        PROVE  n \in Needed[a][m][f] \/ <<f, n>> \in p.torn
    BY <1>2, <1>3, <1>6 DEF Allowed, FileWithin
  <2>2. \A f \in DOMAIN Lines(p) : f \in D /\ Lines(p)[f] = Allowed(p, f)
    BY <1>2 DEF Lines
  <2> QED
    BY <2>1, <2>2 DEF Within
<1>a. {g \in D : Allowed(p, g) # {}} \in SUBSET File
  BY <1>1
<1>b. \E S \in SUBSET File : Lines(p) \in [S -> SUBSET Name]
  BY <1>5, <1>a, Zenon
<1>9. LoadedOK(Lines(p))
  BY <1>b, Zenon DEF LoadedOK
<1>10. JustifiedInForce(Lines(p))
  BY <1>7, <1>8 DEF JustifiedInForce
<1> QED
  BY <1>b, <1>9, <1>10

\* What cp leaves is a policy with the same justification.
LEMMA CopyOK ==
    ASSUME NEW src, NEW dest, NEW ok \in BOOLEAN,
           PolicyOK(src), PolicyOK(dest), Justified(src), Justified(dest),
           NEW q \in Copied(src, dest, ok)
    PROVE  PolicyOK(q) /\ Justified(q)
BY CutOK, CutJustified DEF Copied

-----------------------------------------------------------------------------
\* A scan of a, however far it got, adds nothing but what a holds.
LEMMA ScanOK ==
    ASSUME NEW d \in Tables, Empty(d), NEW a \in App,
           NEW t \in {d, Rows(d, a), RowsAndClasses(d, a)}
    PROVE  /\ t \in Tables
           /\ \A f \in File : t.calls[f] \subseteq Calls[a][f]
           /\ t.edges \subseteq Includes[a]
           /\ t.classes \subseteq Classes[a]
           /\ t.needs = d.needs
<1>1. /\ Calls[a] \in [File -> SUBSET Function]
      /\ Includes[a] \subseteq File \X File
      /\ Classes[a] \subseteq File \X File
  BY ProfileAssumption
<1>2. /\ Rows(d, a) \in Tables
      /\ \A f \in File : Rows(d, a).calls[f] = Calls[a][f]
      /\ Rows(d, a).edges = Includes[a]
      /\ Rows(d, a).classes = {}
      /\ Rows(d, a).needs = d.needs
  BY <1>1 DEF Rows, Empty, Tables
<1>3. /\ RowsAndClasses(d, a) \in Tables
      /\ RowsAndClasses(d, a).calls = Rows(d, a).calls
      /\ RowsAndClasses(d, a).edges = Includes[a]
      /\ RowsAndClasses(d, a).classes = Classes[a]
      /\ RowsAndClasses(d, a).needs = d.needs
  BY <1>1, <1>2 DEF RowsAndClasses, Tables
<1>4. CASE t = d
  BY <1>4 DEF Empty
<1> QED
  BY <1>2, <1>3, <1>4

LEMMA EmptyDbOK == EmptyDb \in Tables /\ Empty(EmptyDb)
BY DEF EmptyDb, Tables, Empty

LEMMA InitOk == Init => IInv
<1> SUFFICES ASSUME Init PROVE IInv
  OBVIOUS
<1>1. TypeOK
  BY EmptyDbOK DEF Init, TypeOK, PolicyOK, LoadedOK, Tables
<1>2. DbProgress /\ CleanProgress /\ AllJustified
  BY DEF Init, DbProgress, CleanProgress, AllJustified, Justified, JustifiedInForce
<1> QED
  BY <1>1, <1>2 DEF IInv

\* The profile printed from the tables at "build" is justified, and exact in
\* a clean run.
LEMMA BuildOK ==
    ASSUME IInv, pc = "build"
    PROVE  /\ PolicyOK(Profile(db)) /\ Profile(db) # Absent /\ Justified(Profile(db))
           /\ clean => Profile(db) = Profile(Ideal(scanned, mapping))
<1> DEFINE ideal == Ideal(scanned, mapping)
<1>1. db \in Tables /\ scanned \in App /\ mapping \in Mappings
  BY DEF IInv, TypeOK, Tables
<1>2. ideal \in Tables
  BY <1>1, IdealOK
<1>3. ASSUME NEW f \in File PROVE Row(db, f) \subseteq Row(ideal, f)
  <2>1. \A fn \in Function : db.needs[fn] \subseteq ideal.needs[fn]
    BY DEF IInv, DbProgress, Ideal, NeedsOf
  <2>2. \A g \in File : db.calls[g] \subseteq ideal.calls[g]
    BY DEF IInv, DbProgress, Ideal
  <2>3. db.edges \subseteq ideal.edges /\ db.classes \subseteq ideal.classes
    BY DEF IInv, DbProgress, Ideal
  <2>4. \A g \in File : ideal.calls[g] \subseteq Function
    BY <1>2 DEF Tables
  <2> HIDE DEF ideal
  <2> QED
    BY <2>1, <2>2, <2>3, <2>4, RowMonotone
<1>4. FileWithin(Profile(db), scanned, mapping)
  <2>1. /\ Profile(db).torn = {}
        /\ Profile(db).rows = [f \in {g \in File : Row(db, g) # {}} |-> Row(db, f)]
    BY DEF Profile, Policy
  <2>2. \A f \in DOMAIN Profile(db).rows : Profile(db).rows[f] \subseteq Needed[scanned][mapping][f]
    BY <1>1, <1>3, <2>1, NeededInName
  <2> QED
    BY <2>1, <2>2 DEF FileWithin
<1>5. Profile(db) # Absent
  BY <1>1, ProfilePresent
<1>6. clean => db = ideal
  BY DEF IInv, CleanProgress
<1> QED
  BY <1>1, <1>4, <1>5, <1>6, ProfileOK DEF Justified

LEMMA Invariance == IInv /\ [Next]_vars => IInv'
<1> SUFFICES ASSUME IInv, [Next]_vars PROVE IInv'
  OBVIOUS
<1> USE DEF IInv
<1>1. CASE StartStage2
  <2>1. TypeOK'
    BY <1>1 DEF StartStage2, TypeOK, PolicyOK, LoadedOK
  <2>2. DbProgress' /\ CleanProgress'
    BY <1>1 DEF StartStage2, DbProgress, CleanProgress
  <2>3. AllJustified'
    BY <1>1 DEF StartStage2, AllJustified, Justified, JustifiedInForce
  <2> QED
    BY <2>1, <2>2, <2>3
<1>2. CASE Remove
  <2>1. TypeOK'
    BY <1>2, EmptyDbOK DEF Remove, Step, TypeOK, PolicyOK, LoadedOK, Tables
  <2>2. DbProgress' /\ CleanProgress'
    BY <1>2 DEF Remove, Step, DbProgress, CleanProgress
  <2>3. AllJustified'
    BY <1>2 DEF Remove, Step, AllJustified, Justified, JustifiedInForce
  <2> QED
    BY <2>1, <2>2, <2>3
<1>3. CASE RegisterSyscalls
  <2>1. PICK ok \in BOOLEAN : /\ Step("syscalls", "functions", ok)
                              /\ db' = IF ok THEN [db EXCEPT !.names = Name] ELSE db
    BY <1>3 DEF RegisterSyscalls
  <2>2. UNCHANGED <<mapping, scanned, filter, output, deployed, loaded>>
    BY <1>3, <2>1 DEF RegisterSyscalls, Step
  <2>3. TypeOK'
    BY <2>1, <2>2 DEF Step, TypeOK, PolicyOK, LoadedOK
  <2>4. DbProgress' /\ CleanProgress'
    BY <2>1, <2>2, EmptyDbOK DEF Step, TypeOK, DbProgress, CleanProgress, Empty, EmptyDb
  <2>5. AllJustified'
    BY <2>2 DEF AllJustified, Justified, JustifiedInForce
  <2> QED
    BY <2>3, <2>4, <2>5
<1>4. CASE RegisterFunctions
  <2>1. PICK ok \in BOOLEAN :
            /\ Step("functions", "scan", ok)
            /\ db' = IF ~ok THEN db
                     ELSE [db EXCEPT !.needs = [fn \in Function |->
                              Map!After(mapping, Len(mapping), fn, db.needs[fn], db.names)]]
    BY <1>4 DEF RegisterFunctions
  <2>2. UNCHANGED <<mapping, scanned, filter, output, deployed, loaded>>
    BY <1>4, <2>1 DEF RegisterFunctions, Step
  <2>3. \A fn \in Function : db.needs[fn] = {}
    BY <2>1 DEF Step, DbProgress
  <2>4. mapping \in Mappings /\ db.names \in {{}, Name}
    BY DEF TypeOK
  <2>5. \A fn \in Function :
            /\ Map!After(mapping, Len(mapping), fn, {}, db.names) \subseteq NeedsOf(mapping)[fn]
            /\ NeedsOf(mapping)[fn] \subseteq Name
    BY <2>4, AfterMonotone, AfterInNames DEF NeedsOf
  <2>6. \A fn \in Function : db'.needs[fn] \subseteq NeedsOf(mapping)[fn]
    BY <2>1, <2>3, <2>5 DEF TypeOK
  <2>7. TypeOK'
    <3>1. \A fn \in Function :
              Map!After(mapping, Len(mapping), fn, db.needs[fn], db.names) \subseteq Name
      BY <2>3, <2>5
    <3> QED
      BY <2>1, <2>2, <3>1 DEF Step, TypeOK, PolicyOK, LoadedOK
  <2>8. DbProgress'
    BY <2>1, <2>2, <2>6 DEF Step, TypeOK, DbProgress, Empty, NeedsOf
  <2>9. CleanProgress'
    <3>1. ok /\ db.names = Name => db'.names = Name /\ db'.needs = NeedsOf(mapping)
      BY <2>1, <2>3 DEF TypeOK, NeedsOf
    <3> QED
      BY <2>1, <2>2, <3>1 DEF Step, CleanProgress, NeedsOf
  <2>10. AllJustified'
    BY <2>2 DEF AllJustified, Justified, JustifiedInForce
  <2> QED
    BY <2>7, <2>8, <2>9, <2>10
<1>5. CASE ScanProject
  <2>1. UNCHANGED <<mapping, filter, output, deployed, loaded>> /\ pc = "scan" /\ pc' = "build"
        /\ scanned' \in App
    BY <1>5 DEF ScanProject, Step
  <2>2. db' \in {db, Rows(db, scanned'), RowsAndClasses(db, scanned')}
    BY <1>5 DEF ScanProject
  <2>3. Empty(db) /\ db \in Tables
    BY <2>1 DEF DbProgress, TypeOK, Tables
  <2>4. /\ db' \in Tables
        /\ \A f \in File : db'.calls[f] \subseteq Calls[scanned'][f]
        /\ db'.edges \subseteq Includes[scanned']
        /\ db'.classes \subseteq Classes[scanned']
        /\ db'.needs = db.needs
    BY <2>1, <2>2, <2>3, ScanOK
  <2>5. TypeOK'
    <3>1. clean' \in BOOLEAN /\ mapping' \in Mappings
      BY <1>5, <2>1 DEF ScanProject, Step, TypeOK
    <3>2. PolicyOK(filter') /\ PolicyOK(output') /\ PolicyOK(deployed') /\ LoadedOK(loaded')
      BY <2>1 DEF TypeOK
    <3> QED
      BY <2>1, <2>4, <3>1, <3>2 DEF TypeOK, Tables
  <2>6. DbProgress'
    BY <2>1, <2>4 DEF DbProgress, NeedsOf
  <2>7. CleanProgress'
    <3>1. ASSUME clean' PROVE db' = Ideal(scanned', mapping)
      <4>1. db' = RowsAndClasses(db, scanned') /\ clean
        BY <1>5, <3>1 DEF ScanProject, Step
      <4>2. db.names = Name /\ db.needs = NeedsOf(mapping)
        BY <2>1, <4>1 DEF CleanProgress
      <4>3. /\ db' = [names |-> db'.names, needs |-> db'.needs, calls |-> db'.calls,
                       edges |-> db'.edges, classes |-> db'.classes]
        BY <2>4 DEF Tables
      <4>4. /\ db'.names = Name /\ db'.needs = NeedsOf(mapping)
            /\ db'.edges = Includes[scanned'] /\ db'.classes = Classes[scanned']
        BY <2>3, <4>1, <4>2 DEF Rows, RowsAndClasses, Empty, Tables
      <4>5. db'.calls = Calls[scanned']
        <5>1. \A f \in File : db'.calls[f] = Calls[scanned'][f]
          BY <2>3, <4>1 DEF Rows, RowsAndClasses, Empty, Tables
        <5>2. db'.calls \in [File -> SUBSET Function] /\ Calls[scanned'] \in [File -> SUBSET Function]
          BY <2>1, <2>4, ProfileAssumption DEF Tables
        <5> QED
          BY <5>1, <5>2
      <4> QED
        BY <4>3, <4>4, <4>5 DEF Ideal, NeedsOf
    <3> QED
      BY <2>1, <3>1 DEF CleanProgress, Ideal
  <2>8. AllJustified'
    BY <2>1 DEF AllJustified, Justified, JustifiedInForce
  <2> QED
    BY <2>5, <2>6, <2>7, <2>8
<1>6. CASE BuildFilters
  <2>1. /\ UNCHANGED <<mapping, scanned, db, output, deployed, loaded>>
        /\ pc = "build" /\ pc' = "copy"
        /\ clean' => clean /\ filter' = Profile(db)
        /\ filter' \in {Profile(db)} \cup Cut(Profile(db))
    BY <1>6 DEF BuildFilters, Step
  <2>2. PolicyOK(filter') /\ Justified(filter')
    BY <2>1, BuildOK, CutOK, CutJustified
  <2>3. TypeOK'
    <3>1. clean' \in BOOLEAN
      BY <1>6 DEF BuildFilters, Step, TypeOK
    <3>2. PolicyOK(output') /\ PolicyOK(deployed') /\ LoadedOK(loaded')
      BY <2>1 DEF TypeOK
    <3> QED
      BY <2>1, <2>2, <3>1, <3>2 DEF TypeOK
  <2>4. DbProgress'
    BY <2>1 DEF DbProgress
  <2>5. CleanProgress'
    <3>1. clean' => filter' = Profile(Ideal(scanned, mapping))
      BY <2>1, BuildOK
    <3> QED
      BY <2>1, <3>1 DEF CleanProgress
  <2>6. AllJustified'
    BY <2>1, <2>2 DEF AllJustified, Justified, JustifiedInForce
  <2> QED
    BY <2>3, <2>4, <2>5, <2>6
<1>7. CASE CopyOutput
  <2>1. PICK ok \in BOOLEAN : Step("copy", "idle", ok) /\ output' \in Copied(filter, output, ok)
    BY <1>7 DEF CopyOutput
  <2>2. UNCHANGED <<mapping, scanned, db, filter, deployed, loaded>>
    BY <1>7, <2>1 DEF CopyOutput, Step
  <2>3. PolicyOK(output') /\ Justified(output')
    BY <2>1, CopyOK DEF TypeOK, AllJustified
  <2>4. TypeOK'
    BY <2>1, <2>2, <2>3 DEF Step, TypeOK, PolicyOK, LoadedOK
  <2>5. DbProgress'
    BY <2>1 DEF Step, DbProgress
  <2>6. CleanProgress'
    <3>1. clean' => clean /\ ok /\ filter = Profile(Ideal(scanned, mapping))
      BY <2>1 DEF Step, CleanProgress
    <3>2. clean' => filter # Absent
      <4>1. scanned \in App /\ mapping \in Mappings
        BY DEF TypeOK
      <4>2. Profile(Ideal(scanned, mapping)) # Absent
        BY <4>1, IdealOK, ProfilePresent
      <4> QED
        BY <3>1, <4>2
    <3>3. clean' => output' = filter
      BY <2>1, <3>1, <3>2 DEF Copied
    <3> QED
      BY <2>1, <2>2, <3>1, <3>3 DEF Step, CleanProgress
  <2>7. AllJustified'
    BY <2>2, <2>3 DEF AllJustified, Justified, JustifiedInForce
  <2> QED
    BY <2>4, <2>5, <2>6, <2>7
<1>8. CASE StartStage3
  <2>1. PICK ok \in BOOLEAN : deployed' \in Copied(output, deployed, ok)
    BY <1>8 DEF StartStage3
  <2>2. /\ UNCHANGED <<mapping, scanned, clean, db, filter, output, loaded>>
        /\ pc = "idle" /\ pc' = "kill"
    BY <1>8 DEF StartStage3, history
  <2>3. PolicyOK(deployed') /\ Justified(deployed')
    BY <2>1, CopyOK DEF TypeOK, AllJustified
  <2>4. TypeOK'
    BY <2>2, <2>3 DEF TypeOK, PolicyOK, LoadedOK
  <2>5. DbProgress' /\ CleanProgress'
    BY <2>2 DEF DbProgress, CleanProgress
  <2>6. AllJustified'
    BY <2>2, <2>3 DEF AllJustified, Justified, JustifiedInForce
  <2> QED
    BY <2>4, <2>5, <2>6
<1>9. CASE KillMaster
  <2>1. /\ UNCHANGED <<mapping, scanned, clean, db, filter, output, deployed>>
        /\ pc = "kill" /\ pc' = "start" /\ loaded' = Absent
    BY <1>9 DEF KillMaster, history
  <2>2. TypeOK'
    BY <2>1 DEF TypeOK, PolicyOK, LoadedOK
  <2>3. DbProgress' /\ CleanProgress'
    BY <2>1 DEF DbProgress, CleanProgress
  <2>4. AllJustified'
    BY <2>1 DEF AllJustified, Justified, JustifiedInForce
  <2> QED
    BY <2>2, <2>3, <2>4
<1>10. CASE StartMaster
  <2>1. /\ UNCHANGED <<mapping, scanned, clean, db, filter, output, deployed>>
        /\ pc = "start" /\ pc' = "idle"
        /\ loaded' = IF deployed = Absent THEN Absent ELSE Lines(deployed)
    BY <1>10 DEF StartMaster, history
  <2>2. LoadedOK(loaded') /\ JustifiedInForce(loaded')
    BY <2>1, LinesNarrow DEF TypeOK, PolicyOK, LoadedOK, AllJustified, Justified, JustifiedInForce
  <2>3. TypeOK'
    BY <2>1, <2>2 DEF TypeOK, PolicyOK, LoadedOK
  <2>4. DbProgress' /\ CleanProgress'
    BY <2>1 DEF DbProgress, CleanProgress
  <2>5. AllJustified'
    BY <2>1, <2>2 DEF AllJustified, Justified, JustifiedInForce
  <2> QED
    BY <2>3, <2>4, <2>5
<1>11. CASE KillScript
  <2>1. /\ UNCHANGED <<mapping, scanned, db, filter, output, deployed, loaded>>
        /\ pc' = "idle" /\ clean' = (clean /\ pc \in {"kill", "start"})
    BY <1>11 DEF KillScript, history
  <2>2. TypeOK'
    BY <2>1 DEF TypeOK, PolicyOK, LoadedOK
  <2>3. DbProgress' /\ CleanProgress'
    BY <2>1 DEF DbProgress, CleanProgress
  <2>4. AllJustified'
    BY <2>1 DEF AllJustified, Justified, JustifiedInForce
  <2> QED
    BY <2>2, <2>3, <2>4
<1>12. CASE UNCHANGED vars
  <2>1. UNCHANGED <<mapping, scanned, clean, pc, db, filter, output, deployed, loaded>>
    BY <1>12 DEF vars
  <2> QED
    BY <2>1 DEF TypeOK, PolicyOK, LoadedOK, DbProgress, CleanProgress, AllJustified, Justified, JustifiedInForce
<1> QED
  BY <1>1, <1>2, <1>3, <1>4, <1>5, <1>6, <1>7, <1>8, <1>9, <1>10, <1>11, <1>12 DEF Next

\* The variables keep their types: every step leaves policies and tables of
\* the sizes the programs can read (all scripts).
THEOREM TypeCorrect == Spec => []TypeOK
<1>1. Init => IInv
  BY InitOk
<1>2. IInv /\ [Next]_vars => IInv'
  BY Invariance
<1>3. IInv => TypeOK
  BY DEF IInv
<1> QED
  BY <1>1, <1>2, <1>3, PTL DEF Spec

\* No policy is ever wider than one version of the application needs under
\* one mapping, for every failure and kill of the scripts, wherever a file is
\* cut off, but for one call read of a number cut off
\* (profile_application.sh lines 9-22, run_stage2.sh, run_stage3.sh).
THEOREM PolicyNeverWider == Spec => []NeverWider
<1>1. Init => IInv
  BY InitOk
<1>2. IInv /\ [Next]_vars => IInv'
  BY Invariance
<1>3. IInv => NeverWider
  <2>1. ASSUME IInv, NEW p \in Policies
        PROVE  \E a \in App, m \in Mappings : \E torn \in Torn(a, m) : Within(p, a, m, torn)
    <3>1. CASE p = loaded /\ loaded # Absent
      BY <2>1, <3>1 DEF IInv, AllJustified, JustifiedInForce
    <3>2. CASE \E q \in {filter, output, deployed} \ {Absent} : p = Lines(q)
      <4>1. PICK q \in {filter, output, deployed} \ {Absent} : p = Lines(q)
        BY <3>2
      <4>2. PolicyOK(q) /\ Justified(q)
        BY <2>1, <4>1 DEF IInv, AllJustified, TypeOK
      <4>3. JustifiedInForce(Lines(q))
        BY <4>1, <4>2, LinesNarrow
      <4>4. p # Absent
        <5>1. \E S \in SUBSET File : Lines(q) \in [S -> SUBSET Name]
          BY <4>1, <4>2, LinesNarrow
        <5> QED
          BY <4>1, <5>1, ProfileAssumption
      <4> QED
        BY <4>1, <4>3, <4>4 DEF JustifiedInForce
    <3> QED
      BY <3>1, <3>2 DEF Policies
  <2> QED
    BY <2>1 DEF NeverWider
<1> QED
  BY <1>1, <1>2, <1>3, PTL DEF Spec

\* A run without a failed step yields exactly the profile of what it scanned,
\* whatever happened before it.
THEOREM CleanRunCorrect == Spec => []CleanRunExact
<1>1. Init => IInv
  BY InitOk
<1>2. IInv /\ [Next]_vars => IInv'
  BY Invariance
<1>3. IInv => CleanRunExact
  BY DEF IInv, CleanProgress, CleanRunExact
<1> QED
  BY <1>1, <1>2, <1>3, PTL DEF Spec
=============================================================================
