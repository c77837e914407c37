------------------------ MODULE ScanProject_proofs ------------------------
(***************************************************************************)
(* Proofs about the scan, for every project, every order of the walk and   *)
(* every order in which Go visits its maps.                                *)
(***************************************************************************)
EXTENDS ScanProject, FiniteSetTheorems, TLAPS

\* What fqnClassDefinitions holds: an entry for k once k is defined, every
\* definition so far if k is global, and one of its own if not.
FqnExact ==
    \A k \in Class :
        /\ Definers(k) = {} => fqnClassDefinitions[k] = {}
        /\ Definers(k) # {} => fqnClassDefinitions[k] # {}
        /\ k.ns = Global => /\ Definers(k) \subseteq fqnClassDefinitions[k]
                            /\ fqnClassDefinitions[k] \subseteq ShortDefiners(k.short)
        /\ k.ns # Global => fqnClassDefinitions[k] \subseteq Definers(k)

EdgesOf(keys) == UNION {classInstances[k] \X Resolutions(k) : k \in keys}

\* How far the two transactions are.
Progress ==
    /\ phase = "scanning" => db = EmptyTables /\ tx.rci = {} /\ pending = {}
    /\ phase \in {"resolving", "done"} =>
          /\ pos = Len(order)
          /\ tx.rci = EdgesOf(Class \ pending)
    /\ phase = "resolving" => db = [tx EXCEPT !.rci = {}]
    /\ phase = "done" => db = tx /\ pending = {}
    /\ tx.rci \subseteq EdgesOf(Class)

IInv == TypeOK /\ RowsOfOwnFile /\ FqnExact /\ Progress /\ AllOrNothing

-----------------------------------------------------------------------------
LEMMA PlainClass == ASSUME NEW id \in Identifier PROVE Plain(id) \in Class
BY DEF Plain, Class

\* The keys of a file are names of classes.
LEMMA KeysAreClasses ==
    ASSUME TypeOK, NEW f \in File
    PROVE  InstanceKeys(f) \subseteq Class
<1>1. \A use \in project.uses[f] : use \in [form : Forms, class : Class]
  BY DEF TypeOK, Project
<1>2. ASSUME NEW use \in [form : Forms, class : Class]
      PROVE  InstanceKey(use) \in Class
  <2>1. use.class \in Class /\ use.class.short \in Identifier
    BY <1>2 DEF Class
  <2>2. use.class.ns # Global => use.class.ns \in Identifier
    BY <2>1 DEF Class
  <2> QED
    BY <2>1, <2>2, PlainClass DEF InstanceKey
<1> QED
  BY <1>1, <1>2 DEF InstanceKeys

LEMMA ResolvedFiles ==
    ASSUME TypeOK, NEW f \in File
    PROVE  Resolved(f) \subseteq File
<1>1. project.includes[f] \subseteq [kind : {"plain", "letterless", "invalid"},
                                     matches : SUBSET File]
  BY DEF TypeOK, Project
<1> QED
  BY <1>1 DEF Resolved

\* A step that leaves the project, the walk and the position alone leaves
\* what they determine alone.
LEMMA Frame ==
    ASSUME UNCHANGED <<project, order, pos>>
    PROVE  /\ Done' = Done
           /\ \A f : InstanceKeys(f)' = InstanceKeys(f) /\ Resolved(f)' = Resolved(f)
           /\ \A k : Definers(k)' = Definers(k)
           /\ \A id : ShortDefiners(id)' = ShortDefiners(id)
BY DEF Done, InstanceKeys, Resolved, Definers, ShortDefiners

\* The files that are done, after one more.
LEMMA DoneGrows ==
    ASSUME TypeOK, pos < Len(order), pos' = pos + 1, UNCHANGED <<project, order>>
    PROVE  /\ order[pos + 1] \in File
           /\ Done' = Done \cup ({order[pos + 1]} \cap project.parses)
           /\ pos' \in 0..Len(order')
<1>1. pos + 1 \in 1..Len(order) /\ order[pos + 1] \in File /\ pos \in Nat
  BY DEF TypeOK
<1>2. 1..(pos + 1) = (1..pos) \cup {pos + 1}
  BY <1>1
<1> QED
  BY <1>1, <1>2 DEF Done, TypeOK

THEOREM InitOk == Init => IInv
<1> SUFFICES ASSUME Init PROVE IInv
  OBVIOUS
<1> USE ScanAssumption
<1>1. TypeOK
  <2>1. project \in Project
    BY DEF Init
  <2>2. order \in Seq(File) /\ Len(order) = Cardinality(File)
    <3>1. Cardinality(File) \in Nat
      BY FS_CardinalityType
    <3> QED
      BY <3>1 DEF Init
  <2> QED
    BY <2>1, <2>2 DEF Init, TypeOK, Tables, EmptyTables
<1>2. Done = {}
  BY DEF Init, Done
<1>3. RowsOfOwnFile
  BY <1>2 DEF Init, RowsOfOwnFile, EmptyTables, ShortDefiners
<1>4. FqnExact
  BY <1>2 DEF Init, FqnExact, Definers
<1>5. Progress /\ AllOrNothing
  BY DEF Init, Progress, AllOrNothing, EmptyTables
<1> QED
  BY <1>1, <1>3, <1>4, <1>5 DEF IInv
-----------------------------------------------------------------------------
\* What the maps hold after ProcessFile.
LEMMA MapsGrow ==
    ASSUME NEW f \in File, NEW v, v.defs = project.defs[f],
           TypeOK, Done' = Done \cup {f}, UNCHANGED project,
           RowsOfOwnFile, FqnExact,
           classDefinitions' = Shorts(v, f), fqnClassDefinitions' = Fqns(v, f)
    PROVE  /\ \A id \in Identifier : classDefinitions'[id] = ShortDefiners(id)'
           /\ FqnExact'
           /\ classDefinitions' \in [Identifier -> SUBSET File]
           /\ fqnClassDefinitions' \in [Class -> SUBSET File]
<1> USE ScanAssumption
<1>1. \A k : Definers(k)' = IF k \in project.defs[f] THEN Definers(k) \cup {f}
                                                    ELSE Definers(k)
  BY DEF Definers
<1>2. \A id : ShortDefiners(id)' =
            IF \E k \in project.defs[f] : k.short = id
            THEN ShortDefiners(id) \cup {f} ELSE ShortDefiners(id)
  BY DEF ShortDefiners
<1>3. \A id \in Identifier : classDefinitions'[id] = ShortDefiners(id)'
  BY <1>2 DEF Shorts, RowsOfOwnFile
<1>4. classDefinitions' \in [Identifier -> SUBSET File]
  BY DEF Shorts, TypeOK
<1>5. \A k \in Class : k.short \in Identifier
  BY DEF Class
<1>6. \A k \in Class : Shorts(v, f)[k.short] = ShortDefiners(k.short)'
  BY <1>3, <1>5
<1>7. \A k : Definers(k) \subseteq ShortDefiners(k.short)
  BY DEF Definers, ShortDefiners
<1>8. FqnExact'
  <2> SUFFICES ASSUME NEW k \in Class
               PROVE  /\ Definers(k)' = {} => fqnClassDefinitions'[k] = {}
                      /\ Definers(k)' # {} => fqnClassDefinitions'[k] # {}
                      /\ k.ns = Global => /\ Definers(k)' \subseteq fqnClassDefinitions'[k]
                                          /\ fqnClassDefinitions'[k] \subseteq ShortDefiners(k.short)'
                      /\ k.ns # Global => fqnClassDefinitions'[k] \subseteq Definers(k)'
    BY DEF FqnExact
  <2>1. CASE k \notin project.defs[f]
    <3>1. fqnClassDefinitions'[k] = fqnClassDefinitions[k] /\ Definers(k)' = Definers(k)
      BY <2>1, <1>1 DEF Fqns
    <3>2. ShortDefiners(k.short) \subseteq ShortDefiners(k.short)'
      BY <1>2
    <3> QED
      BY <3>1, <3>2 DEF FqnExact
  <2>2. CASE k \in project.defs[f] /\ k.ns = Global
    <3>1. fqnClassDefinitions'[k] = ShortDefiners(k.short)'
      BY <2>2, <1>6 DEF Fqns
    <3>2. Definers(k)' = Definers(k) \cup {f}
      BY <2>2, <1>1
    <3>3. ShortDefiners(k.short)' = ShortDefiners(k.short) \cup {f}
      BY <2>2, <1>2
    <3> QED
      BY <2>2, <3>1, <3>2, <3>3, <1>7
  <2>3. CASE k \in project.defs[f] /\ k.ns # Global
    <3>1. fqnClassDefinitions'[k] = {f} /\ Definers(k)' = Definers(k) \cup {f}
      BY <2>3, <1>1 DEF Fqns
    <3> QED
      BY <2>3, <3>1
  <2> QED
    BY <2>1, <2>2, <2>3
<1>9. fqnClassDefinitions' \in [Class -> SUBSET File]
  <2>1. ASSUME NEW k \in Class PROVE Fqns(v, f)[k] \in SUBSET File
    BY <1>4, <1>5 DEF Fqns, TypeOK
  <2>2. Fqns(v, f) = [k \in Class |-> Fqns(v, f)[k]]
    BY DEF Fqns
  <2> QED
    BY <2>1, <2>2
<1> QED
  BY <1>3, <1>4, <1>8, <1>9

LEMMA SkipFileOk == ASSUME IInv, SkipFile PROVE IInv'
<1> USE ScanAssumption DEF IInv, SkipFile
<1>1. Done' = Done /\ TypeOK'
  BY DoneGrows DEF TypeOK
<1>2. \A f : InstanceKeys(f)' = InstanceKeys(f) /\ Resolved(f)' = Resolved(f)
  BY DEF InstanceKeys, Resolved
<1>3. \A k : Definers(k)' = Definers(k)
  BY <1>1 DEF Definers
<1>4. \A id : ShortDefiners(id)' = ShortDefiners(id)
  BY <1>1 DEF ShortDefiners
<1>5. RowsOfOwnFile'
  BY <1>1, <1>2, <1>4 DEF RowsOfOwnFile
<1>6. FqnExact'
  BY <1>3, <1>4 DEF FqnExact
<1>7. \A keys : EdgesOf(keys)' = EdgesOf(keys)
  BY DEF EdgesOf, Resolutions
<1>8. Progress' /\ AllOrNothing'
  BY <1>7 DEF Progress, AllOrNothing
<1> QED
  BY <1>1, <1>5, <1>6, <1>8

LEMMA ProcessFileOk == ASSUME IInv, ProcessFile PROVE IInv'
<1> USE ScanAssumption DEF IInv
<1> DEFINE f == order[pos + 1]
           v == Visited(f)
<1>1. /\ f \in File /\ f \in project.parses
      /\ Done' = Done \cup {f}
      /\ pos' \in 0..Len(order')
  BY DoneGrows DEF ProcessFile
<1>2. /\ v.defs = project.defs[f] /\ v.calls = {Printf} \cup project.calls[f]
      /\ v.instances = InstanceKeys(f)
  BY DEF Visited
<1>3. /\ tx' = Rows(tx, f, v) /\ classDefinitions' = Shorts(v, f)
      /\ fqnClassDefinitions' = Fqns(v, f)
      /\ classInstances' =
            [k \in Class |-> IF k \in v.instances THEN classInstances[k] \cup {f}
                                                  ELSE classInstances[k]]
      /\ UNCHANGED <<project, order, phase, pending, db>>
      /\ phase = "scanning"
  BY DEF ProcessFile
<1> HIDE DEF v
<1>4. /\ \A id \in Identifier : classDefinitions'[id] = ShortDefiners(id)'
      /\ FqnExact'
      /\ classDefinitions' \in [Identifier -> SUBSET File]
      /\ fqnClassDefinitions' \in [Class -> SUBSET File]
  BY <1>1, <1>2, <1>3, MapsGrow
<1>5. \A g : InstanceKeys(g)' = InstanceKeys(g) /\ Resolved(g)' = Resolved(g)
  BY <1>3 DEF InstanceKeys, Resolved
<1>6. /\ tx'.file = tx.file \cup {f}
      /\ tx'.call = tx.call \cup ({f} \X ({Printf} \cup project.calls[f]))
      /\ tx'.include = tx.include \cup ({f} \X ({f} \cup Resolved(f)))
      /\ tx'.rci = tx.rci
      /\ tx' = [file |-> tx'.file, call |-> tx'.call, include |-> tx'.include, rci |-> tx.rci]
  BY <1>2, <1>3 DEF Rows, TypeOK, Tables
<1>7. classInstances' \in [Class -> SUBSET File]
  BY <1>1, <1>3 DEF TypeOK
<1>8. tx' \in Tables
  <2>1. Printf \in Function /\ project.calls[f] \subseteq Function
    BY <1>1 DEF TypeOK, Project
  <2>2. Resolved(f) \subseteq File
    BY <1>1, ResolvedFiles
  <2> QED
    BY <2>1, <2>2, <1>1, <1>6 DEF TypeOK, Tables
<1>9. TypeOK'
  BY <1>1, <1>3, <1>4, <1>7, <1>8 DEF TypeOK
<1>10. RowsOfOwnFile'
  <2>1. tx'.file = Done'
    BY <1>1, <1>6 DEF RowsOfOwnFile
  <2>2. tx'.call = UNION {{g} \X ({Printf} \cup project.calls[g]) : g \in Done'}
    BY <1>1, <1>6 DEF RowsOfOwnFile
  <2>3. tx'.include = UNION {{g} \X ({g} \cup Resolved(g)) : g \in Done'}
    BY <1>1, <1>6 DEF RowsOfOwnFile
  <2>4. ASSUME NEW k \in Class
        PROVE  classInstances'[k] = {g \in Done' : k \in InstanceKeys(g)}
    BY <1>1, <1>2, <1>3 DEF RowsOfOwnFile
  <2> QED
    BY <1>3, <1>4, <1>5, <2>1, <2>2, <2>3, <2>4 DEF RowsOfOwnFile
<1>11. Progress'
  BY <1>3, <1>6 DEF Progress
<1>12. AllOrNothing'
  BY <1>3 DEF Progress, AllOrNothing
<1> QED
  BY <1>4, <1>9, <1>10, <1>11, <1>12
LEMMA CommitScanOk == ASSUME IInv, CommitScan PROVE IInv'
<1> USE ScanAssumption DEF IInv, CommitScan
<1>1. TypeOK'
  BY DEF TypeOK
<1>2. RowsOfOwnFile' /\ FqnExact'
  BY Frame DEF RowsOfOwnFile, FqnExact
<1>3. EdgesOf(Class)' = EdgesOf(Class)
  BY DEF EdgesOf, Resolutions
<1>4. Progress'
  <2>1. tx.rci = {} /\ tx \in Tables
    BY DEF Progress, TypeOK
  <2>2. tx = [tx EXCEPT !.rci = {}]
    BY <2>1 DEF Tables
  <2>3. EdgesOf(Class \ pending') = {}
    BY DEF EdgesOf
  <2>4. EdgesOf(Class \ pending)' = EdgesOf(Class \ pending')
    BY DEF EdgesOf, Resolutions
  <2> QED
    BY <1>3, <2>1, <2>2, <2>3, <2>4 DEF Progress
<1>5. AllOrNothing'
  <2>1. Done' = Done
    BY Frame
  <2> QED
    BY <2>1 DEF AllOrNothing, Progress, RowsOfOwnFile
<1> QED
  BY <1>1, <1>2, <1>4, <1>5

LEMMA ResolutionFiles ==
    ASSUME TypeOK, NEW k \in Class PROVE Resolutions(k) \subseteq File
BY DEF TypeOK, Resolutions, Class

LEMMA ResolveInstanceOk == ASSUME IInv, ResolveInstance PROVE IInv'
<1> USE ScanAssumption DEF IInv
<1>1. PICK k \in pending :
         /\ tx' = [tx EXCEPT !.rci = @ \cup (classInstances[k] \X Resolutions(k))]
         /\ pending' = pending \ {k}
  BY DEF ResolveInstance
<1>2. /\ phase = "resolving" /\ k \in Class
      /\ UNCHANGED <<project, order, pos, phase, classDefinitions,
                     fqnClassDefinitions, classInstances, db>>
  BY <1>1 DEF ResolveInstance, TypeOK
<1>3. /\ tx'.file = tx.file /\ tx'.call = tx.call /\ tx'.include = tx.include
      /\ tx'.rci = tx.rci \cup (classInstances[k] \X Resolutions(k))
      /\ tx' \in Tables
      /\ [tx' EXCEPT !.rci = {}] = [tx EXCEPT !.rci = {}]
  <2>1. classInstances[k] \subseteq File /\ Resolutions(k) \subseteq File
    BY <1>2, ResolutionFiles DEF TypeOK
  <2> QED
    BY <1>1, <2>1 DEF TypeOK, Tables
<1>4. TypeOK'
  BY <1>1, <1>2, <1>3 DEF TypeOK
<1>5. RowsOfOwnFile' /\ FqnExact'
  BY <1>2, <1>3, Frame DEF RowsOfOwnFile, FqnExact
<1>7. EdgesOf(Class \ pending') =
         EdgesOf(Class \ pending) \cup (classInstances[k] \X Resolutions(k))
  <2>1. Class \ pending' = (Class \ pending) \cup {k}
    BY <1>1, <1>2
  <2> QED
    BY <2>1 DEF EdgesOf
<1>8. EdgesOf(Class \ pending)' = EdgesOf(Class \ pending') /\ EdgesOf(Class)' = EdgesOf(Class)
  BY <1>2 DEF EdgesOf, Resolutions
<1>9. EdgesOf(Class \ pending') \subseteq EdgesOf(Class)
  BY DEF EdgesOf
<1>10. Progress'
  BY <1>2, <1>3, <1>7, <1>8, <1>9 DEF Progress
<1>11. AllOrNothing'
  <2>1. Done' = Done
    BY <1>2, Frame
  <2>2. \A c : Resolutions(c)' = Resolutions(c)
    BY <1>2 DEF Resolutions
  <2> QED
    BY <1>2, <1>3, <2>1, <2>2 DEF AllOrNothing
<1> QED
  BY <1>4, <1>5, <1>10, <1>11

LEMMA CommitResolveOk == ASSUME IInv, CommitResolve PROVE IInv'
<1> USE ScanAssumption DEF IInv, CommitResolve
<1>1. TypeOK'
  BY DEF TypeOK
<1>2. RowsOfOwnFile' /\ FqnExact'
  BY Frame DEF RowsOfOwnFile, FqnExact
<1>3. EdgesOf(Class)' = EdgesOf(Class) /\ EdgesOf(Class \ pending)' = EdgesOf(Class \ pending)
  BY DEF EdgesOf, Resolutions
<1>4. Progress'
  BY <1>3 DEF Progress
<1>5. tx.rci = EdgesOf(Class)
  <2>1. Class \ pending = Class
    OBVIOUS
  <2> QED
    BY <2>1 DEF Progress
<1>6. AllOrNothing'
  <2>1. Done' = Done
    BY Frame
  <2>2. \A c : Resolutions(c)' = Resolutions(c)
    BY DEF Resolutions
  <2> QED
    BY <1>5, <2>1, <2>2 DEF AllOrNothing, Progress, RowsOfOwnFile, EdgesOf
<1> QED
  BY <1>1, <1>2, <1>4, <1>6

LEMMA DieOk == ASSUME IInv, Panic \/ Kill PROVE IInv'
<1> USE ScanAssumption DEF IInv, Panic, Kill, Die
<1>1. TypeOK'
  BY DEF TypeOK
<1>2. RowsOfOwnFile' /\ FqnExact'
  BY Frame DEF RowsOfOwnFile, FqnExact
<1>3. EdgesOf(Class)' = EdgesOf(Class)
  BY DEF EdgesOf, Resolutions
<1>4. Progress'
  BY <1>3 DEF Progress
<1>5. AllOrNothing'
  <2>1. Done' = Done
    BY Frame
  <2>2. \A c : Resolutions(c)' = Resolutions(c)
    BY DEF Resolutions
  <2> QED
    BY <2>1, <2>2 DEF AllOrNothing
<1> QED
  BY <1>1, <1>2, <1>4, <1>5

LEMMA StutterOk == ASSUME IInv, UNCHANGED vars PROVE IInv'
<1> USE ScanAssumption DEF IInv, vars
<1>1. TypeOK'
  BY DEF TypeOK
<1>2. RowsOfOwnFile' /\ FqnExact'
  BY Frame DEF RowsOfOwnFile, FqnExact
<1>3. EdgesOf(Class)' = EdgesOf(Class) /\ EdgesOf(Class \ pending)' = EdgesOf(Class \ pending)
  BY DEF EdgesOf, Resolutions
<1>4. Progress'
  BY <1>3 DEF Progress
<1>5. AllOrNothing'
  <2>1. Done' = Done
    BY Frame
  <2>2. \A c : Resolutions(c)' = Resolutions(c)
    BY DEF Resolutions
  <2> QED
    BY <2>1, <2>2 DEF AllOrNothing
<1> QED
  BY <1>1, <1>2, <1>4, <1>5

\* The strengthened invariant holds of every scan.
THEOREM Invariance == Spec => []IInv
<1>1. ASSUME IInv, [Next]_vars PROVE IInv'
  <2>1. CASE SkipFile
    BY <1>1, <2>1, SkipFileOk
  <2>2. CASE ProcessFile
    BY <1>1, <2>2, ProcessFileOk
  <2>3. CASE CommitScan
    BY <1>1, <2>3, CommitScanOk
  <2>4. CASE ResolveInstance
    BY <1>1, <2>4, ResolveInstanceOk
  <2>5. CASE CommitResolve
    BY <1>1, <2>5, CommitResolveOk
  <2>6. CASE Panic \/ Kill
    BY <1>1, <2>6, DieOk
  <2>7. CASE UNCHANGED vars
    BY <1>1, <2>7, StutterOk
  <2> QED
    BY <1>1, <2>1, <2>2, <2>3, <2>4, <2>5, <2>6, <2>7 DEF Next
<1> QED
  BY InitOk, <1>1, PTL DEF Spec

\* The tables and maps keep their types (main.go, resolver.go, db.go).
THEOREM TypeCorrect == Spec => []TypeOK
<1>1. IInv => TypeOK
  BY DEF IInv
<1> QED
  BY <1>1, Invariance, PTL

\* What is recorded about a file comes from that file (main.go 232-269).
THEOREM OwnRows == Spec => []RowsOfOwnFile
<1>1. IInv => RowsOfOwnFile
  BY DEF IInv
<1> QED
  BY <1>1, Invariance, PTL

\* A scan that dies leaves nothing, everything but the class edges, or
\* everything (main.go 298-307).
THEOREM ScanAtomic == Spec => []AllOrNothing
<1>1. IInv => AllOrNothing
  BY DEF IInv
<1> QED
  BY <1>1, Invariance, PTL
-----------------------------------------------------------------------------
LEMMA PlainOfGlobal ==
    ASSUME NEW k \in Class, k.ns = Global PROVE Plain(k.short) = k
BY DEF Plain, Class

\* What an instance resolves to defines a class of that short name, and of
\* that full name if one was written.
LEMMA ResolutionsJustified ==
    ASSUME IInv, NEW k \in Class, NEW d \in Resolutions(k)
    PROVE  \E c \in project.defs[d] : c.short = k.short /\ (k.ns # Global => c = k)
<1> USE DEF IInv
<1>1. CASE fqnClassDefinitions[k] # {} /\ k.ns = Global
  <2>1. d \in ShortDefiners(k.short)
    BY <1>1 DEF Resolutions, FqnExact
  <2> QED
    BY <1>1, <2>1 DEF ShortDefiners
<1>2. CASE fqnClassDefinitions[k] # {} /\ k.ns # Global
  <2>1. d \in Definers(k)
    BY <1>2 DEF Resolutions, FqnExact
  <2> QED
    BY <2>1 DEF Definers
<1>3. CASE fqnClassDefinitions[k] = {}
  <2>1. k.ns = Global /\ d \in classDefinitions[k.short]
    BY <1>3 DEF Resolutions
  <2>2. d \in ShortDefiners(k.short)
    BY <2>1 DEF RowsOfOwnFile, Class
  <2> QED
    BY <2>1, <2>2 DEF ShortDefiners
<1> QED
  BY <1>1, <1>2, <1>3

\* Every edge of the class table is justified (resolver.go 30-47).
THEOREM EdgesSound == Spec => []EdgesJustified
<1>1. ASSUME IInv PROVE EdgesJustified
  <2> SUFFICES ASSUME NEW e \in tx.rci
               PROVE  \E k \in InstanceKeys(e[1]) : \E c \in project.defs[e[2]] :
                        c.short = k.short /\ (k.ns # Global => c = k)
    BY DEF EdgesJustified
  <2>1. PICK k \in Class : e \in classInstances[k] \X Resolutions(k)
    BY <1>1 DEF IInv, Progress, EdgesOf
  <2>2. k \in InstanceKeys(e[1])
    BY <1>1, <2>1 DEF IInv, RowsOfOwnFile
  <2> QED
    BY <1>1, <2>1, <2>2, ResolutionsJustified
<1> QED
  BY <1>1, Invariance, PTL

\* Every class use in a recorded form leads to its definition (main.go 55).
THEOREM NoLostClass == Spec => []UsesResolved
<1>1. ASSUME IInv PROVE UsesResolved
  <2> SUFFICES ASSUME phase = "done", NEW f \in Done, NEW use \in project.uses[f],
                      use.form \notin {"new", "extends_qualified"},
                      Definers(use.class) # {}, ~Shadowed(use.class)
               PROVE  LET k == use.class
                          edges == {d \in File : <<f, d>> \in db.rci}
                      IN  IF k.ns = Global THEN Definers(k) \subseteq edges
                                           ELSE Definers(k) \cap edges # {}
    BY DEF UsesResolved
  <2> DEFINE k == use.class
             key == InstanceKey(use)
             edges == {d \in File : <<f, d>> \in db.rci}
  <2> USE <1>1 DEF IInv
  <2>1. f \in File /\ use \in [form : Forms, class : Class]
    BY DEF TypeOK, Project, Done
  <2>2. k \in Class /\ k.short \in Identifier
    BY <2>1 DEF Class
  <2>3. key \in InstanceKeys(f) /\ key \in Class
    BY <2>1, KeysAreClasses DEF InstanceKeys
  <2>4. key = IF use.form = "new_fq" THEN k ELSE Plain(k.short)
    BY DEF InstanceKey
  <2>5. f \in classInstances[key]
    BY <2>3 DEF RowsOfOwnFile
  <2>6. Resolutions(key) \subseteq edges
    <3>1. Class \ pending = Class /\ db = tx /\ tx.rci = EdgesOf(Class \ pending)
      BY DEF Progress
    <3>2. \A d \in Resolutions(key) : <<f, d>> \in db.rci /\ d \in File
      BY <2>3, <2>5, <3>1, ResolutionFiles DEF EdgesOf
    <3> QED
      BY <3>2
  <2>7. CASE k.ns = Global
    <3>1. key = k
      BY <2>2, <2>4, <2>7, PlainOfGlobal
    <3>2. Resolutions(k) = fqnClassDefinitions[k] /\ Definers(k) \subseteq fqnClassDefinitions[k]
      BY <2>2, <2>7 DEF Resolutions, FqnExact
    <3> QED
      BY <2>6, <2>7, <3>1, <3>2
  <2>8. CASE k.ns # Global /\ use.form = "new_fq"
    <3>1. fqnClassDefinitions[k] # {} /\ fqnClassDefinitions[k] \subseteq Definers(k)
      BY <2>2, <2>8 DEF FqnExact
    <3>2. Resolutions(k) = fqnClassDefinitions[k]
      BY <3>1 DEF Resolutions
    <3> QED
      BY <2>4, <2>6, <2>8, <3>1, <3>2
  <2>9. CASE k.ns # Global /\ use.form # "new_fq"
    <3>1. Definers(Plain(k.short)) = {}
      BY <2>9 DEF Shadowed
    <3>2. fqnClassDefinitions[Plain(k.short)] = {}
      BY <2>2, <3>1, PlainClass DEF FqnExact
    <3>3. Resolutions(key) = classDefinitions[k.short]
      BY <2>4, <2>9, <3>2 DEF Resolutions, Plain
    <3>4. Definers(k) \subseteq Resolutions(key)
      BY <2>2, <3>3 DEF RowsOfOwnFile, Definers, ShortDefiners
    <3> QED
      BY <2>6, <2>9, <3>4
  <2> QED
    BY <2>7, <2>8, <2>9
<1> QED
  BY <1>1, Invariance, PTL
=============================================================================
