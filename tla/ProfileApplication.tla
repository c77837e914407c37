-------------------------- MODULE ProfileApplication --------------------------
(***************************************************************************)
(* From stage 1's mapping and an application to the policy PHP runs under: *)
(* profile_application.sh and the parts of run_stage2.sh and run_stage3.sh *)
(* around it.  The scripts do not stop at a step that fails (no set -e),   *)
(* and may themselves be killed at any point and run again.                *)
(*                                                                         *)
(* Each program is taken at the level its own module shows it to have: the *)
(* mapping as in FunctionMap, the scan all or nothing but for the class    *)
(* edges (ScanProject), the query exact (IncludeClosure).                  *)
(***************************************************************************)
EXTENDS Naturals, Sequences

CONSTANTS
    File,           \* paths of scripts, the same in every version
    Function,       \* names of PHP functions
    Name,           \* the system calls of data/unistd_64.h
    Star,           \* the word "*"
    Mappings,       \* outputs of stage 1: sequences of lines
    App,            \* versions of the application in /var/www/html
    Calls,          \* Calls[a][f]: the functions called in f
    Includes,       \* Includes[a]: the include edges of a, self edges among them
    Classes,        \* Classes[a]: its edges to files of classes
    Begun,          \* Begun[n]: what is read of the number of n when it is cut off
    Absent          \* a file that does not exist, or no FPM master

\* Some digits of a number are the number of another call, and none are read
\* as 0; what is cut off may be cut again.
ASSUME BegunAssumption ==
    /\ Begun \in [Name -> SUBSET Name]
    /\ \A n \in Name : \A t \in Begun[n] : Begun[t] \subseteq Begun[n]

ASSUME ProfileAssumption ==
    /\ Mappings \subseteq Seq([fn : Function, words : SUBSET (Name \cup {Star})])
    /\ Star \notin Name
    /\ Calls \in [App -> [File -> SUBSET Function]]
    /\ Includes \in [App -> SUBSET (File \X File)]
    /\ Classes \in [App -> SUBSET (File \X File)]
    /\ \A a \in App : \A f \in File : Calls[a][f] # {} => <<f, f>> \in Includes[a]
    /\ \A S \in SUBSET File : \A p \in [S -> SUBSET Name] :
          p # Absent /\ \A torn \in SUBSET (File \X Name) : [rows |-> p, torn |-> torn] # Absent

VARIABLES
    mapping,        \* the argument of the last run of stage 2
    scanned,        \* the version in /var/www/html when that run scanned it
    clean,          \* no step of that run failed
    pc,             \* the step to run next, or "idle"
    db,             \* the tables of $2.sqlite
    filter,         \* $2: a policy, or Absent
    output,         \* OUTPATH of stage 2
    deployed,       \* /var/www/filter
    loaded          \* what the FPM master read from it

vars == <<mapping, scanned, clean, pc, db, filter, output, deployed, loaded>>
history == <<mapping, scanned>>

-----------------------------------------------------------------------------
EmptyDb == [names |-> {}, needs |-> [fn \in Function |-> {}],
            calls |-> [f \in File |-> {}], edges |-> {}, classes |-> {}]

Map == INSTANCE FunctionMap WITH
    known <- db.names, needs <- db.needs,
    FunctionFiles <- Mappings, Headers <- {Name}

\* The files reached from f: the least set that holds f and is closed under E.
Reach(E, f) ==
    {g \in File : \A S \in SUBSET File :
        f \in S /\ (\A e \in E : e[1] \in S => e[2] \in S) => g \in S}

\* The row of f: what the functions called in the files it reaches need.
Row(d, f) ==
    UNION {d.needs[fn] : fn \in UNION {d.calls[g] : g \in Reach(d.edges \cup d.classes, f)}}

\* A policy on disk: the numbers of each line that are whole, and the call that
\* the last word stands for if it is not.
Policy(rows, torn) == [rows |-> rows, torn |-> torn]

\* What build-filters prints: a line for each file with a row.
Profile(d) == Policy([f \in {g \in File : Row(d, g) # {}} |-> Row(d, f)], {})

Tears(words) == UNION {Begun[n] : n \in words}
TornAt(p, f) == {l[2] : l \in {t \in p.torn : t[1] = f}}

\* The line of f in p cut off anywhere: its whole words, and the torn one.
CutLine(p, f) ==
    {<<words, {}>> : words \in SUBSET p.rows[f]}
        \cup (UNION {{<<words, {<<f, t>>}>> : t \in Tears(p.rows[f] \ words)} :
                         words \in SUBSET p.rows[f]})
        \cup {<<p.rows[f], {<<f, t>>}>> : t \in TornAt(p, f) \cup Tears(TornAt(p, f))}

\* Of the lines S, the one that may be the last: a torn line stays there.
LastOf(p, S) == {f \in S : \A l \in p.torn : l[1] \in S => l[1] = f}

\* A file cut off while it is written, at any byte: some of its lines, in any
\* order, of which the last is cut.  A line without a number is not read.
Cut(p) ==
    {Policy([f \in {} |-> {}], {})} \cup
    UNION {UNION {{Policy([f \in S |-> IF f = last THEN end[1] ELSE p.rows[f]], end[2]) :
                       end \in CutLine(p, last)} : last \in LastOf(p, S)} :
              S \in SUBSET DOMAIN p.rows}

\* What MINIT reads: it skips a line without numbers.
Allowed(p, f) == p.rows[f] \cup TornAt(p, f)
Lines(p) == [f \in {g \in DOMAIN p.rows : Allowed(p, g) # {}} |-> Allowed(p, f)]

-----------------------------------------------------------------------------
Init ==
    /\ mapping \in Mappings
    /\ scanned \in App
    /\ clean = FALSE
    /\ pc = "idle"
    /\ db = EmptyDb
    /\ filter = Absent
    /\ output = Absent
    /\ deployed = Absent
    /\ loaded = Absent

StartStage2 ==
    /\ pc = "idle"
    /\ mapping' \in Mappings
    /\ pc' = "remove"
    /\ clean' = TRUE
    /\ UNCHANGED <<scanned, db, filter, output, deployed, loaded>>

\* The step at "from" has run, well or not, and "to" is next.
Step(from, to, ok) ==
    /\ pc = from
    /\ pc' = to
    /\ clean' = (clean /\ ok)
    /\ UNCHANGED mapping

\* Mutant of Remove: the database of the last run stays.
RemoveFilterOnly ==
    /\ Step("remove", "syscalls", TRUE)
    /\ filter' = Absent
    /\ UNCHANGED <<scanned, db, output, deployed, loaded>>

\* rm -rf of what an earlier run left.
Remove ==
    /\ Step("remove", "syscalls", TRUE)
    /\ filter' = Absent
    /\ db' = EmptyDb
    /\ UNCHANGED <<scanned, output, deployed, loaded>>

RegisterSyscalls ==
    /\ \E ok \in BOOLEAN :
          /\ Step("syscalls", "functions", ok)
          /\ db' = IF ok THEN [db EXCEPT !.names = Name] ELSE db
    /\ UNCHANGED <<scanned, filter, output, deployed, loaded>>

RegisterFunctions ==
    /\ \E ok \in BOOLEAN :
          /\ Step("functions", "scan", ok)
          /\ db' = IF ~ok THEN db
                   ELSE [db EXCEPT !.needs = [fn \in Function |->
                            Map!After(mapping, Len(mapping), fn, db.needs[fn], db.names)]]
    /\ UNCHANGED <<scanned, filter, output, deployed, loaded>>

\* The tables after a scan of a that got as far as its first commit, or its
\* second.
Rows(d, a) == [d EXCEPT !.calls = [f \in File |-> @[f] \cup Calls[a][f]],
                        !.edges = @ \cup Includes[a]]

\* Mutant of RowsAndClasses: the resolver ran before there were rows.
RowsWithoutClasses(d, a) == Rows(d, a)

RowsAndClasses(d, a) == [Rows(d, a) EXCEPT !.classes = @ \cup Classes[a]]

\* The application may have been replaced since the last run.
ScanProject ==
    /\ scanned' \in App
    /\ \/ Step("scan", "build", TRUE) /\ db' = RowsAndClasses(db, scanned')
       \/ Step("scan", "build", FALSE) /\ db' \in {db, Rows(db, scanned')}
    /\ UNCHANGED <<filter, output, deployed, loaded>>

\* The shell creates or empties $2 before build-filters starts.
BuildFilters ==
    /\ \/ Step("build", "copy", TRUE) /\ filter' = Profile(db)
       \/ Step("build", "copy", FALSE) /\ filter' \in Cut(Profile(db))
    /\ UNCHANGED <<scanned, db, output, deployed, loaded>>

\* cp src dest: a missing source leaves dest alone.
Copied(src, dest, ok) ==
    IF src = Absent THEN {dest}
    ELSE IF ok THEN {src} ELSE {dest} \cup Cut(src)

CopyOutput ==
    /\ \E ok \in BOOLEAN :
          /\ Step("copy", "idle", ok)
          /\ output' \in Copied(filter, output, ok)
    /\ UNCHANGED <<scanned, db, filter, deployed, loaded>>

\* Stage 3 copies the profile ...
StartStage3 ==
    /\ pc = "idle"
    /\ pc' = "kill"
    /\ \E ok \in BOOLEAN : deployed' \in Copied(output, deployed, ok)
    /\ UNCHANGED <<history, clean, db, filter, output, loaded>>

\* ... ends the old master ...
KillMaster ==
    /\ pc = "kill"
    /\ pc' = "start"
    /\ loaded' = Absent
    /\ UNCHANGED <<history, clean, db, filter, output, deployed>>

\* ... and starts one, which fails without a profile.
StartMaster ==
    /\ pc = "start"
    /\ pc' = "idle"
    /\ loaded' = IF deployed = Absent THEN Absent ELSE Lines(deployed)
    /\ UNCHANGED <<history, clean, db, filter, output, deployed>>

\* The script is killed between two steps, or before the next has an effect.
KillScript ==
    /\ pc # "idle"
    /\ pc' = "idle"
    /\ clean' = (clean /\ pc \in {"kill", "start"})
    /\ UNCHANGED <<history, db, filter, output, deployed, loaded>>

Next ==
    \/ StartStage2 \/ Remove \/ RegisterSyscalls \/ RegisterFunctions
    \/ ScanProject \/ BuildFilters \/ CopyOutput
    \/ StartStage3 \/ KillMaster \/ StartMaster
    \/ KillScript

Spec == Init /\ [][Next]_vars

-----------------------------------------------------------------------------
\* The tables after a run in which nothing failed, and the profile they give.
Ideal(a, m) ==
    [names |-> Name,
     needs |-> [fn \in Function |-> Map!After(m, Len(m), fn, {}, Name)],
     calls |-> Calls[a], edges |-> Includes[a], classes |-> Classes[a]]

\* The calls that f needs in version a under m.
Needed == [a \in App |-> [m \in Mappings |-> [f \in File |-> Row(Ideal(a, m), f)]]]

\* Every call of p is one its script needs, or in torn.
Within(p, a, m, torn) ==
    \A f \in DOMAIN p : \A n \in p[f] : n \in Needed[a][m][f] \/ <<f, n>> \in torn

\* What one number that is cut off can add.
Torn(a, m) == {{}} \cup UNION {{{<<f, t>>} : t \in Tears(Needed[a][m][f])} : f \in File}

LoadedOK(p) == p = Absent \/ \E S \in SUBSET File : p \in [S -> SUBSET Name]
PolicyOK(p) ==
    \/ p = Absent
    \/ \E S \in SUBSET File : \E rows \in [S -> SUBSET Name], torn \in SUBSET (S \X Name) :
          p = Policy(rows, torn)

TypeOK ==
    /\ scanned \in App /\ mapping \in Mappings
    /\ clean \in BOOLEAN
    /\ pc \in {"idle", "remove", "syscalls", "functions", "scan", "build", "copy",
               "kill", "start"}
    /\ db \in [names : {{}, Name}, needs : [Function -> SUBSET Name],
               calls : [File -> SUBSET Function],
               edges : SUBSET (File \X File), classes : SUBSET (File \X File)]
    /\ PolicyOK(filter) /\ PolicyOK(output) /\ PolicyOK(deployed) /\ LoadedOK(loaded)

\* The policies on disk, as MINIT would read them, and the one in force.
Policies == {Lines(p) : p \in {filter, output, deployed} \ {Absent}} \cup ({loaded} \ {Absent})

\* No policy, built, copied or in force, allows a script more than one version
\* of the application needs under one mapping, whichever steps failed or were
\* killed and however the runs followed each other; but for one call of one
\* script, if a program that wrote the file stopped inside a number, and then
\* it is a call that the beginning of a number the script needs stands for.
NeverWider ==
    \A p \in Policies : \E a \in App, m \in Mappings : \E torn \in Torn(a, m) :
        Within(p, a, m, torn)

\* A run in which no step failed leaves exactly the profile of the version it
\* scanned, whatever earlier runs left behind.
CleanRunExact ==
    pc = "idle" /\ clean => output = Profile(Ideal(scanned, mapping))
=============================================================================
