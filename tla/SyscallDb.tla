----------------------------- MODULE SyscallDb -----------------------------
(***************************************************************************)
(* The tables syscall, function and syscall_requirement of                 *)
(* src/stage2/db/db.go, and the two programs that fill them from the       *)
(* kernel header and from stage 1's mapping, each in one transaction.      *)
(* Rows are joined by row id, and INSERT OR REPLACE gives a row that       *)
(* exists already a new id.                                                *)
(***************************************************************************)
EXTENDS Naturals, Sequences, FiniteSets

CONSTANTS Function, Name, Star, FunctionFiles, Headers,
    NoTx,           \* no transaction is open
    MaxId           \* bound on row ids, for model checking

ASSUME SyscallDbAssumption ==
    /\ \A file \in FunctionFiles :
          /\ file \in Seq([fn : Function, words : SUBSET (Name \cup {Star})])
          /\ \A i \in 1..Len(file) :      \* as mergemappings writes it
                Star \in file[i].words => file[i].words = {Star}
    /\ \A header \in Headers : header \subseteq Name
    /\ Star \notin Name
    /\ MaxId \in Nat

VARIABLES
    db,             \* the committed tables
    tx,             \* the tables as the open transaction sees them
    program,        \* "none", "register-syscalls" or "register-functions"
    input,          \* the file the program reads
    pos,            \* lines of it that are done
    names           \* what GetSyscallNames returned before Begin

vars == <<db, tx, program, input, pos, names>>

Null == 0           \* what a scalar subquery without a row yields

Tables ==
    [syscall : SUBSET [id : 1..MaxId, name : Name],
     function : SUBSET [id : 1..MaxId, name : Function],
     requirement : SUBSET ((0..MaxId) \X (0..MaxId)),
     syscall_seq : 0..MaxId, function_seq : 0..MaxId]

EmptyTables ==
    [syscall |-> {}, function |-> {}, requirement |-> {},
     syscall_seq |-> 0, function_seq |-> 0]

SyscallNames(t) == {row.name : row \in t.syscall}

\* SELECT id FROM ... WHERE name = ?, of a table in which names are unique.
IdOf(table, name) ==
    IF \E row \in table : row.name = name
    THEN (CHOOSE row \in table : row.name = name).id
    ELSE Null

\* INSERT OR REPLACE on a UNIQUE name: the old row goes, and AUTOINCREMENT
\* never hands its id out again.
CreateSyscall(t, name) ==
    [t EXCEPT !.syscall = {row \in @ : row.name # name}
                            \cup {[id |-> t.syscall_seq + 1, name |-> name]},
              !.syscall_seq = @ + 1]

\* Mutant of CreateFunction: without AUTOINCREMENT the id is the largest in
\* use plus one.
CreateFunctionReusingIds(t, name) ==
    LET others == {row \in t.function : row.name # name}
        id == CHOOSE n \in 1..(MaxId + 1) :
                 /\ \A row \in others : row.id < n
                 /\ n = 1 \/ \E row \in others : row.id = n - 1
    IN  [t EXCEPT !.function = others \cup {[id |-> id, name |-> name]},
                  !.function_seq = id]

CreateFunction(t, name) ==
    [t EXCEPT !.function = {row \in @ : row.name # name}
                             \cup {[id |-> t.function_seq + 1, name |-> name]},
              !.function_seq = @ + 1]

\* One row per name; a name that is not registered becomes NULL.
CreateSyscallRequirements(t, fn, scs) ==
    [t EXCEPT !.requirement =
        @ \cup {<<IdOf(t.function, fn), IdOf(t.syscall, sc)>> : sc \in scs}]

\* syscall JOIN syscall_requirement JOIN function, for the function fn.
Join(t, fn) ==
    {row.name : row \in {s \in t.syscall :
        \E f \in t.function : f.name = fn /\ <<f.id, s.id>> \in t.requirement}}

TypeOK ==
    /\ db \in Tables
    /\ tx \in Tables \cup {NoTx}
    /\ program \in {"none", "register-syscalls", "register-functions"}
    /\ (program = "none") = (tx = NoTx)
    /\ program = "register-functions" =>
          input \in FunctionFiles /\ pos \in 0..Len(input)
    /\ program = "register-syscalls" => input \in SUBSET Name
    /\ names \subseteq Name

Init ==
    /\ db = EmptyTables
    /\ tx = NoTx
    /\ program = "none"
    /\ input = <<>>
    /\ pos = 0
    /\ names = {}

-----------------------------------------------------------------------------
\* register-syscalls opens the database and begins.
BeginSyscalls ==
    /\ program = "none"
    /\ program' = "register-syscalls"
    /\ input' \in Headers
    /\ tx' = db
    /\ UNCHANGED <<db, pos, names>>

\* A line "#define __NR_name number" of the header.
RegisterSyscall ==
    /\ program = "register-syscalls"
    /\ \E name \in input :
          /\ tx.syscall_seq < MaxId
          /\ tx' = CreateSyscall(tx, name)
          /\ input' = input \ {name}
    /\ UNCHANGED <<db, program, pos, names>>

\* register-functions reads the names before it begins.
BeginFunctions ==
    /\ program = "none"
    /\ program' = "register-functions"
    /\ input' \in FunctionFiles
    /\ pos' = 0
    /\ names' = SyscallNames(db)
    /\ tx' = db
    /\ UNCHANGED db

\* A line "function: word word ...": one with no word after the name is
\* skipped, and "*" stands for every name read at the start.
RegisterFunction ==
    /\ program = "register-functions"
    /\ pos < Len(input)
    /\ tx.function_seq < MaxId
    /\ pos' = pos + 1
    /\ LET line == input[pos + 1]
           scs  == IF Star \in line.words THEN names ELSE line.words
       IN  tx' = IF line.words = {} THEN tx
                 ELSE CreateSyscallRequirements(CreateFunction(tx, line.fn), line.fn, scs)
    /\ UNCHANGED <<db, program, input, names>>

Finished ==
    \/ program = "register-syscalls" /\ input = {}
    \/ program = "register-functions" /\ pos = Len(input)

EndProgram ==
    /\ program' = "none"
    /\ tx' = NoTx
    /\ input' = <<>>
    /\ pos' = 0
    /\ names' = {}

Commit ==
    /\ Finished
    /\ db' = tx
    /\ EndProgram

\* A panic or a kill before the commit: SQLite rolls back.
Crash ==
    /\ program # "none"
    /\ UNCHANGED db
    /\ EndProgram

Next ==
    \/ BeginSyscalls \/ RegisterSyscall
    \/ BeginFunctions \/ RegisterFunction
    \/ Commit \/ Crash

Spec == Init /\ [][Next]_vars

-----------------------------------------------------------------------------
\* Names stay unique and ids stay below the sequence, whatever is replaced:
\* what IdOf and the join by id rest on (db.go lines 44-49, 84-99).
IdsFresh(t) ==
    /\ \A r1, r2 \in t.syscall : (r1.id = r2.id) = (r1.name = r2.name)
    /\ \A r1, r2 \in t.function : (r1.id = r2.id) = (r1.name = r2.name)
    /\ \A row \in t.syscall : row.id <= t.syscall_seq
    /\ \A row \in t.function : row.id <= t.function_seq
    /\ \A r \in t.requirement : r[1] <= t.function_seq /\ r[2] <= t.syscall_seq

RowsConsistent == IdsFresh(db) /\ (tx # NoTx => IdsFresh(tx))

Mapping == INSTANCE FunctionMap WITH
    known <- SyscallNames(db),
    needs <- [fn \in Function |-> Join(db, fn)]

\* The committed tables always read as FunctionMap: a run of a program takes
\* effect at once or not at all, the last line of a function wins, and rows
\* orphaned by a new id never come back.
ImplementsFunctionMap == Mapping!Spec

\* Inside register-functions the open transaction reads as the lines done
\* so far applied to the committed mapping.
LinesApplied ==
    program = "register-functions" =>
        \A fn \in Function :
            Join(tx, fn) = Mapping!After(input, pos, fn, Join(db, fn), names)
=============================================================================
