---------------------------- MODULE ScanProject ----------------------------
(***************************************************************************)
(* src/stage2/scan-project: one pass over the PHP files of a project that  *)
(* records calls and includes in a transaction and collects class names in *)
(* package-level maps, then ResolveClassInstances, which turns the maps    *)
(* into edges between files in a transaction of its own.                   *)
(* The tables class_definition and class_instance, which nothing reads,    *)
(* and the counters are left out.  An include pattern stands for the files *)
(* its regular expression matches: the loop that retries with suffixes of  *)
(* it ends after the whole pattern (main.go line 178) and matches nothing. *)
(***************************************************************************)
EXTENDS Naturals, Sequences, FiniteSets

CONSTANTS
    File,           \* files with one of the scanned extensions
    Identifier,     \* names of classes and of namespaces
    Global,         \* the empty namespace
    Function,       \* names of functions
    Printf,         \* the one main adds to every file
    Projects        \* the projects to scan

Class == [ns : Identifier \cup {Global}, short : Identifier]
Plain(id) == [ns |-> Global, short |-> id]

\* How a file names a class: new A, new \N\A, use N\A, extends A, extends
\* N\A, extends \N\A, A::f().  The class is the one PHP resolves the name to.
Forms == {"new", "new_fq", "use", "extends", "extends_qualified",
          "extends_fq", "static"}

Project ==
    [parses : SUBSET File,
     defs : [File -> SUBSET Class],
     uses : [File -> SUBSET [form : Forms, class : Class]],
     calls : [File -> SUBSET Function],
     includes : [File -> SUBSET [kind : {"plain", "letterless", "invalid"},
                                 matches : SUBSET File]]]

ASSUME ScanAssumption ==
    /\ IsFiniteSet(File)
    /\ Global \notin Identifier
    /\ Printf \in Function
    /\ Projects \subseteq Project

VARIABLES
    project,                \* what is scanned
    order,                  \* fileList, as filepath.Walk fills it
    pos,                    \* files of it that are done
    phase,                  \* "scanning", "resolving", "done" or "dead"
    visit,                  \* the visitor package's maps
    classDefinitions,       \* short name -> files
    fqnClassDefinitions,    \* qualified name -> files
    classInstances,         \* name -> files that use it
    pending,                \* keys ResolveClassInstances has still to visit
    tx, db                  \* the open transaction's tables, the committed ones

vars == <<project, order, pos, phase, visit, classDefinitions,
          fqnClassDefinitions, classInstances, pending, tx, db>>

Tables == [file : SUBSET File, call : SUBSET (File \X Function),
           include : SUBSET (File \X File), rci : SUBSET (File \X File)]

EmptyTables == [file |-> {}, call |-> {}, include |-> {}, rci |-> {}]

Init ==
    /\ project \in Projects
    /\ order \in {o \in [1..Cardinality(File) -> File] :
                     \A i, j \in DOMAIN o : o[i] = o[j] => i = j}
    /\ pos = 0
    /\ phase = "scanning"
    /\ visit = [defs |-> {}, calls |-> {}, includes |-> {}, instances |-> {}]
    /\ classDefinitions = [id \in Identifier |-> {}]
    /\ fqnClassDefinitions = [k \in Class |-> {}]
    /\ classInstances = [k \in Class |-> {}]
    /\ pending = {}
    /\ tx = EmptyTables
    /\ db = EmptyTables

-----------------------------------------------------------------------------
\* The key a use leaves in ClassInstances (or, for a static call, in
\* classInstances).  new A leaves none: only its count goes up.
InstanceKey(use) ==
    CASE use.form = "new_fq" -> use.class
      [] use.form = "extends_qualified" /\ use.class.ns # Global -> Plain(use.class.ns)
      [] OTHER -> Plain(use.class.short)

InstanceKeys(f) ==
    {InstanceKey(use) : use \in {u \in project.uses[f] : u.form # "new"}}

\* Mutant of Visited: ClassDefinitions is not made anew for each file.
VisitedKeepingDefinitions(f) ==
    [defs |-> visit.defs \cup project.defs[f],
     calls |-> {Printf} \cup project.calls[f],
     includes |-> project.includes[f],
     instances |-> InstanceKeys(f)]

\* processFile makes the maps anew and walks the tree.
Visited(f) ==
    [defs |-> project.defs[f],
     calls |-> {Printf} \cup project.calls[f],
     includes |-> project.includes[f],
     instances |-> InstanceKeys(f)]

\* A pattern without a letter is given up.
Resolved(f) ==
    UNION {p.matches : p \in {q \in project.includes[f] : q.kind = "plain"}}

\* recordResult's rows.
Rows(t, f, v) ==
    [t EXCEPT !.file = @ \cup {f},
              !.call = @ \cup ({f} \X v.calls),
              !.include = @ \cup ({f} \X ({f} \cup Resolved(f)))]

\* recordResult's maps: fqnClassDefinitions[k] becomes
\* append(classDefinitions[k], f), and classDefinitions has short names only.
Shorts(v, f) ==
    [id \in Identifier |->
        IF \E k \in v.defs : k.short = id
        THEN classDefinitions[id] \cup {f} ELSE classDefinitions[id]]

\* Mutant of Fqns: definitions of a global class do not accumulate either.
FqnsLast(v, f) ==
    [k \in Class |-> IF k \in v.defs THEN {f} ELSE fqnClassDefinitions[k]]

Fqns(v, f) ==
    [k \in Class |->
        CASE k \notin v.defs -> fqnClassDefinitions[k]
          [] k \in v.defs /\ k.ns = Global -> Shorts(v, f)[k.short]
          [] OTHER -> {f}]

\* regexp.MustCompile panics on a pattern it cannot compile.
Panics(f) == \E p \in project.includes[f] : p.kind = "invalid"

\* processFile for a file that does not parse: an early return, no rows.
SkipFile ==
    /\ phase = "scanning"
    /\ pos < Len(order)
    /\ order[pos + 1] \notin project.parses
    /\ pos' = pos + 1
    /\ UNCHANGED <<project, order, phase, visit, classDefinitions,
                   fqnClassDefinitions, classInstances, pending, tx, db>>

ProcessFile ==
    /\ phase = "scanning"
    /\ pos < Len(order)
    /\ LET f == order[pos + 1]
           v == Visited(f)
       IN  /\ f \in project.parses
           /\ ~Panics(f)
           /\ visit' = v
           /\ tx' = Rows(tx, f, v)
           /\ classDefinitions' = Shorts(v, f)
           /\ fqnClassDefinitions' = Fqns(v, f)
           /\ classInstances' =
                 [k \in Class |-> IF k \in v.instances THEN classInstances[k] \cup {f}
                                                       ELSE classInstances[k]]
    /\ pos' = pos + 1
    /\ UNCHANGED <<project, order, phase, pending, db>>

\* Commit, then ResolveClassInstances begins.
CommitScan ==
    /\ phase = "scanning"
    /\ pos = Len(order)
    /\ db' = tx
    /\ phase' = "resolving"
    /\ pending' = {k \in Class : classInstances[k] # {}}
    /\ UNCHANGED <<project, order, pos, visit, classDefinitions,
                   fqnClassDefinitions, classInstances, tx>>

\* Mutant of Resolutions: short names first.
ResolutionsShortFirst(k) ==
    IF classDefinitions[k.short] # {} THEN classDefinitions[k.short]
                                      ELSE fqnClassDefinitions[k]

Resolutions(k) ==
    IF fqnClassDefinitions[k] # {} THEN fqnClassDefinitions[k]
    ELSE IF k.ns = Global THEN classDefinitions[k.short]
    ELSE {}

\* One key of the map, in any order.
ResolveInstance ==
    /\ phase = "resolving"
    /\ \E k \in pending :
          /\ tx' = [tx EXCEPT !.rci = @ \cup (classInstances[k] \X Resolutions(k))]
          /\ pending' = pending \ {k}
    /\ UNCHANGED <<project, order, pos, phase, visit, classDefinitions,
                   fqnClassDefinitions, classInstances, db>>

\* Mutant of CommitResolve: the commit does not wait for the last keys.
CommitResolveEarly ==
    /\ phase = "resolving"
    /\ db' = tx
    /\ phase' = "done"
    /\ UNCHANGED <<project, order, pos, visit, classDefinitions,
                   fqnClassDefinitions, classInstances, pending, tx>>

CommitResolve ==
    /\ phase = "resolving"
    /\ pending = {}
    /\ db' = tx
    /\ phase' = "done"
    /\ UNCHANGED <<project, order, pos, visit, classDefinitions,
                   fqnClassDefinitions, classInstances, pending, tx>>

Die ==
    /\ phase' = "dead"
    /\ UNCHANGED <<project, order, pos, visit, classDefinitions,
                   fqnClassDefinitions, classInstances, pending, tx, db>>

\* A panic in recordResult, or a kill: SQLite rolls the transaction back.
Panic ==
    /\ phase = "scanning"
    /\ pos < Len(order)
    /\ order[pos + 1] \in project.parses
    /\ Panics(order[pos + 1])
    /\ Die

Kill == phase \in {"scanning", "resolving"} /\ Die

Next ==
    \/ SkipFile \/ ProcessFile \/ CommitScan
    \/ ResolveInstance \/ CommitResolve
    \/ Panic \/ Kill

Spec == Init /\ [][Next]_vars
-----------------------------------------------------------------------------
Done == {order[i] : i \in 1..pos} \cap project.parses
Definers(k) == {f \in Done : k \in project.defs[f]}
ShortDefiners(id) == {f \in Done : \E k \in project.defs[f] : k.short = id}

TypeOK ==
    /\ project \in Project
    /\ order \in Seq(File)
    /\ Len(order) = Cardinality(File)
    /\ pos \in 0..Len(order)
    /\ phase \in {"scanning", "resolving", "done", "dead"}
    /\ classDefinitions \in [Identifier -> SUBSET File]
    /\ fqnClassDefinitions \in [Class -> SUBSET File]
    /\ classInstances \in [Class -> SUBSET File]
    /\ pending \subseteq Class
    /\ tx \in Tables
    /\ db \in Tables

\* What is recorded about a file comes from that file: the visitor's package
\* level maps never carry one file's names into the next, not even past a
\* file that does not parse and returns early (main.go lines 232-269).
RowsOfOwnFile ==
    /\ tx.file = Done
    /\ tx.call = UNION {{f} \X ({Printf} \cup project.calls[f]) : f \in Done}
    /\ tx.include = UNION {{f} \X ({f} \cup Resolved(f)) : f \in Done}
    /\ \A id \in Identifier : classDefinitions[id] = ShortDefiners(id)
    /\ \A k \in Class : classInstances[k] = {f \in Done : k \in InstanceKeys(f)}

\* A global class that has the short name of k takes k's place in the map.
Shadowed(k) == k.ns # Global /\ Definers(Plain(k.short)) # {}

\* Whatever the order of the walk and of the maps, a class named in one of
\* the forms that are recorded leads to a file that defines it, and to every
\* such file if it is global, although fqnClassDefinitions forgets all but
\* the last definition of a namespaced class (main.go line 55, resolver.go
\* lines 30-47).  Classes shadowed by a global one are excepted.
UsesResolved ==
    phase = "done" => \A f \in Done : \A use \in project.uses[f] :
        LET k == use.class
            edges == {d \in File : <<f, d>> \in db.rci}
        IN  /\ use.form \notin {"new", "extends_qualified"}
            /\ Definers(k) # {}
            /\ ~Shadowed(k)
            => IF k.ns = Global THEN Definers(k) \subseteq edges
                                ELSE Definers(k) \cap edges # {}

\* An edge leads from a file to one that defines a class with the short name
\* the first one used, and with its full name where that was written.
EdgesJustified ==
    \A e \in tx.rci : \E k \in InstanceKeys(e[1]) : \E c \in project.defs[e[2]] :
        c.short = k.short /\ (k.ns # Global => c = k)

\* What a killed or panicking scan leaves in the database is nothing, the
\* rows of every file that parses without a class edge, or everything; a
\* profile is never built from a part of the files (main.go lines 298-307).
AllOrNothing ==
    \/ db = EmptyTables
    \/ /\ pos = Len(order)
       /\ db.file = Done /\ db.call = tx.call /\ db.include = tx.include
       /\ \/ db.rci = {} /\ phase # "done"
          \/ db.rci = UNION {classInstances[k] \X Resolutions(k) : k \in Class}
=============================================================================
