--------------------------- MODULE Database_proofs ---------------------------
(***************************************************************************)
(* Proofs about the database of stage 2.  First: the three tables, joined  *)
(* by row id and filled by INSERT OR REPLACE, read as FunctionMap, for     *)
(* every mapping, every header and every order, repetition and death of    *)
(* the two programs.                                                       *)
(*                                                                         *)
(* Then: the recursive queries compute reachability, on every include      *)
(* graph.  A row is sound from the moment it is added; a row that has left *)
(* the queue has had its successors added.  When the queue is empty the    *)
(* two together make the rows of a file a closed set inside its closure.   *)
(***************************************************************************)
EXTENDS SyscallDb, IncludeClosure, TLAPS

-----------------------------------------------------------------------------
(* The tables *)

LEMMA SyscallCreated ==
    ASSUME NEW t \in Tables, NEW name \in Name, t.syscall_seq < MaxId, MaxId \in Nat
    PROVE  LET u == CreateSyscall(t, name)
               new == [id |-> t.syscall_seq + 1, name |-> name]
           IN  /\ u \in Tables
               /\ u.syscall = {row \in t.syscall : row.name # name} \cup {new}
               /\ u.syscall_seq = t.syscall_seq + 1
               /\ u.function = t.function /\ u.function_seq = t.function_seq
               /\ u.requirement = t.requirement
<1> DEFINE u == CreateSyscall(t, name)
           new == [id |-> t.syscall_seq + 1, name |-> name]
<1>1. t.syscall_seq + 1 \in 1..MaxId /\ t.syscall_seq + 1 \in 0..MaxId
      BY DEF Tables
<1>2. new \in [id : 1..MaxId, name : Name]
      BY <1>1
<1>3. /\ u.syscall = {row \in t.syscall : row.name # name} \cup {new}
      /\ u.syscall_seq = t.syscall_seq + 1
      /\ u.function = t.function /\ u.function_seq = t.function_seq
      /\ u.requirement = t.requirement
      BY DEF CreateSyscall, Tables
<1>4. u \in Tables
      BY <1>1, <1>2 DEF CreateSyscall, Tables
<1> QED BY <1>3, <1>4

LEMMA FunctionCreated ==
    ASSUME NEW t \in Tables, NEW fn \in Function, t.function_seq < MaxId, MaxId \in Nat
    PROVE  LET u == CreateFunction(t, fn)
               new == [id |-> t.function_seq + 1, name |-> fn]
           IN  /\ u \in Tables
               /\ u.function = {row \in t.function : row.name # fn} \cup {new}
               /\ u.function_seq = t.function_seq + 1
               /\ u.syscall = t.syscall /\ u.syscall_seq = t.syscall_seq
               /\ u.requirement = t.requirement
<1> DEFINE u == CreateFunction(t, fn)
           new == [id |-> t.function_seq + 1, name |-> fn]
<1>1. t.function_seq + 1 \in 1..MaxId /\ t.function_seq + 1 \in 0..MaxId
      BY DEF Tables
<1>2. new \in [id : 1..MaxId, name : Function]
      BY <1>1
<1>3. /\ u.function = {row \in t.function : row.name # fn} \cup {new}
      /\ u.function_seq = t.function_seq + 1
      /\ u.syscall = t.syscall /\ u.syscall_seq = t.syscall_seq
      /\ u.requirement = t.requirement
      BY DEF CreateFunction, Tables
<1>4. u \in Tables
      BY <1>1, <1>2 DEF CreateFunction, Tables
<1> QED BY <1>3, <1>4

\* In a table with unique names, IdOf finds the row of the name, or NULL.
LEMMA IdFound ==
    ASSUME NEW table, \A r1, r2 \in table : (r1.id = r2.id) = (r1.name = r2.name),
           NEW row \in table
    PROVE  IdOf(table, row.name) = row.id
BY DEF IdOf

LEMMA IdInRange ==
    ASSUME NEW table, NEW S, table \in SUBSET [id : 1..MaxId, name : S], MaxId \in Nat,
           NEW name
    PROVE  /\ IdOf(table, name) \in 0..MaxId
           /\ IdOf(table, name) # 0 => \E row \in table : row.name = name /\ row.id = IdOf(table, name)
<1>1. CASE \E row \in table : row.name = name
  <2> DEFINE row == CHOOSE row \in table : row.name = name
  <2>1. row \in table /\ row.name = name
        BY <1>1
  <2>2. IdOf(table, name) = row.id
        BY <1>1 DEF IdOf
  <2> HIDE DEF row
  <2>3. row.id \in 1..MaxId
        BY <2>1
  <2> QED BY <2>1, <2>2, <2>3
<1>2. CASE ~\E row \in table : row.name = name
      BY <1>2 DEF IdOf, Null
<1> QED BY <1>1, <1>2

LEMMA RequirementsCreated ==
    ASSUME NEW t \in Tables, NEW fn, NEW scs, MaxId \in Nat
    PROVE  LET u == CreateSyscallRequirements(t, fn, scs)
           IN  /\ u \in Tables
               /\ u.requirement = t.requirement
                     \cup {<<IdOf(t.function, fn), IdOf(t.syscall, sc)>> : sc \in scs}
               /\ u.syscall = t.syscall /\ u.syscall_seq = t.syscall_seq
               /\ u.function = t.function /\ u.function_seq = t.function_seq
<1> DEFINE u == CreateSyscallRequirements(t, fn, scs)
           new == {<<IdOf(t.function, fn), IdOf(t.syscall, sc)>> : sc \in scs}
<1>1. IdOf(t.function, fn) \in 0..MaxId
      BY IdInRange DEF Tables
<1>2. \A sc \in scs : IdOf(t.syscall, sc) \in 0..MaxId
      BY IdInRange DEF Tables
<1>3. new \subseteq (0..MaxId) \X (0..MaxId)
      BY <1>1, <1>2
<1>4. /\ u.requirement = t.requirement \cup new
      /\ u.syscall = t.syscall /\ u.syscall_seq = t.syscall_seq
      /\ u.function = t.function /\ u.function_seq = t.function_seq
      BY DEF CreateSyscallRequirements, Tables
<1>5. u \in Tables
      BY <1>3 DEF CreateSyscallRequirements, Tables
<1> QED BY <1>4, <1>5

-----------------------------------------------------------------------------
(* What a line does to the mapping *)

\* A system call that is registered again is lost to every function.
LEMMA SyscallLost ==
    ASSUME NEW t \in Tables, IdsFresh(t), NEW name \in Name, t.syscall_seq < MaxId,
           MaxId \in Nat
    PROVE  LET u == CreateSyscall(t, name)
           IN  /\ u \in Tables /\ IdsFresh(u)
               /\ SyscallNames(u) = SyscallNames(t) \cup {name}
               /\ \A fn : Join(u, fn) = Join(t, fn) \ {name}
<1> DEFINE u   == CreateSyscall(t, name)
           new == [id |-> t.syscall_seq + 1, name |-> name]
           old == {row \in t.syscall : row.name # name}
<1>1. /\ u \in Tables /\ u.syscall = old \cup {new}
      /\ u.syscall_seq = t.syscall_seq + 1
      /\ u.function = t.function /\ u.function_seq = t.function_seq
      /\ u.requirement = t.requirement
      BY SyscallCreated
<1> HIDE DEF u
<1>2. /\ t.syscall_seq \in Nat /\ t.function_seq \in Nat
      /\ t.syscall \in SUBSET [id : 1..MaxId, name : Name]
      /\ t.function \in SUBSET [id : 1..MaxId, name : Function]
      /\ t.requirement \in SUBSET ((0..MaxId) \X (0..MaxId))
      BY DEF Tables
<1>3. new.id = t.syscall_seq + 1 /\ new.name = name
      OBVIOUS
<1> HIDE DEF new
<1>4. \A row \in t.syscall : row.id \in Nat /\ row.id <= t.syscall_seq /\ row.id # new.id
      BY <1>2, <1>3 DEF IdsFresh
<1>5. \A r \in t.requirement : r[1] \in Nat /\ r[2] \in Nat /\ r[2] <= t.syscall_seq /\ r[2] # new.id
      BY <1>2, <1>3 DEF IdsFresh
<1>6. IdsFresh(u)
  <2>1. \A r1, r2 \in u.syscall : (r1.id = r2.id) = (r1.name = r2.name)
        BY <1>1, <1>3, <1>4 DEF IdsFresh
  <2>2. \A row \in u.syscall : row.id <= u.syscall_seq
        BY <1>1, <1>2, <1>3, <1>4
  <2>3. \A r \in u.requirement : r[1] <= u.function_seq /\ r[2] <= u.syscall_seq
        BY <1>1, <1>2, <1>5 DEF IdsFresh
  <2> QED BY <1>1, <2>1, <2>2, <2>3 DEF IdsFresh
<1>7. SyscallNames(u) = SyscallNames(t) \cup {name}
      BY <1>1, <1>3 DEF SyscallNames
<1>8. ASSUME NEW fn PROVE Join(u, fn) = Join(t, fn) \ {name}
  <2>1. \A f : \A s \in u.syscall :
            <<f.id, s.id>> \in u.requirement <=> s \in old /\ <<f.id, s.id>> \in t.requirement
        BY <1>1, <1>3, <1>5
  <2>2. ASSUME NEW x \in Join(u, fn)
        PROVE  x \in Join(t, fn) \ {name}
    <3>1. PICK s \in u.syscall :
              s.name = x /\ \E f \in u.function : f.name = fn /\ <<f.id, s.id>> \in u.requirement
          BY <2>2 DEF Join
    <3>2. PICK f \in u.function : f.name = fn /\ <<f.id, s.id>> \in u.requirement
          BY <3>1
    <3>3. s \in t.syscall /\ s.name # name /\ f \in t.function /\ <<f.id, s.id>> \in t.requirement
          BY <1>1, <2>1, <3>2
    <3> QED BY <3>1, <3>2, <3>3 DEF Join
  <2>3. ASSUME NEW x \in Join(t, fn) \ {name}
        PROVE  x \in Join(u, fn)
    <3>1. PICK s \in t.syscall :
              s.name = x /\ \E f \in t.function : f.name = fn /\ <<f.id, s.id>> \in t.requirement
          BY <2>3 DEF Join
    <3>2. s \in u.syscall /\ s \in old
          BY <1>1, <2>3, <3>1
    <3> QED BY <1>1, <3>1, <3>2 DEF Join
  <2> QED BY <2>2, <2>3
<1> QED BY <1>1, <1>6, <1>7, <1>8 DEF u

\* A line with words replaces what the join gives its function by the words that
\* are registered, and leaves other functions alone.
LEMMA FunctionReplaced ==
    ASSUME NEW t \in Tables, IdsFresh(t), NEW fn \in Function, NEW scs \in SUBSET Name,
           t.function_seq < MaxId, MaxId \in Nat
    PROVE  LET u == CreateSyscallRequirements(CreateFunction(t, fn), fn, scs)
           IN  /\ u \in Tables /\ IdsFresh(u)
               /\ SyscallNames(u) = SyscallNames(t)
               /\ Join(u, fn) = scs \cap SyscallNames(t)
               /\ \A other \in Function \ {fn} : Join(u, other) = Join(t, other)
<1> DEFINE c   == CreateFunction(t, fn)
           u   == CreateSyscallRequirements(c, fn, scs)
           new == [id |-> t.function_seq + 1, name |-> fn]
           old == {row \in t.function : row.name # fn}
           add == {<<new.id, IdOf(t.syscall, sc)>> : sc \in scs}
<1>1. /\ c \in Tables /\ c.function = old \cup {new}
      /\ c.function_seq = t.function_seq + 1
      /\ c.syscall = t.syscall /\ c.syscall_seq = t.syscall_seq
      /\ c.requirement = t.requirement
      BY FunctionCreated
<1> HIDE DEF c
<1>2. /\ u \in Tables
      /\ u.requirement = t.requirement
             \cup {<<IdOf(c.function, fn), IdOf(t.syscall, sc)>> : sc \in scs}
      /\ u.syscall = t.syscall /\ u.syscall_seq = t.syscall_seq
      /\ u.function = old \cup {new} /\ u.function_seq = t.function_seq + 1
  <2>1. /\ u \in Tables
        /\ u.requirement = c.requirement
               \cup {<<IdOf(c.function, fn), IdOf(c.syscall, sc)>> : sc \in scs}
        /\ u.syscall = c.syscall /\ u.syscall_seq = c.syscall_seq
        /\ u.function = c.function /\ u.function_seq = c.function_seq
        BY <1>1, RequirementsCreated, ZenonT(100)
  <2> HIDE DEF u
  <2> QED BY <1>1, <2>1
<1> HIDE DEF u
<1>3. /\ t.syscall_seq \in Nat /\ t.function_seq \in Nat
      /\ t.syscall \in SUBSET [id : 1..MaxId, name : Name]
      /\ t.function \in SUBSET [id : 1..MaxId, name : Function]
      /\ t.requirement \in SUBSET ((0..MaxId) \X (0..MaxId))
      BY DEF Tables
<1>4. new.id = t.function_seq + 1 /\ new.name = fn
      OBVIOUS
<1> HIDE DEF new
<1>5. \A row \in t.function : row.id \in Nat /\ row.id <= t.function_seq /\ row.id # new.id
      BY <1>3, <1>4 DEF IdsFresh
<1>6. \A r \in t.requirement : r[1] \in Nat /\ r[1] <= t.function_seq /\ r[1] # new.id
      BY <1>3, <1>4 DEF IdsFresh
<1>7. \A r1, r2 \in u.function : (r1.id = r2.id) = (r1.name = r2.name)
      BY <1>2, <1>4, <1>5 DEF IdsFresh
<1>8. IdOf(c.function, fn) = new.id /\ u.requirement = t.requirement \cup add
  <2>0. new \in u.function /\ new.name = fn
        BY <1>2, <1>4
  <2>1. IdOf(u.function, new.name) = new.id
        BY <1>7, <2>0 DEF IdOf
  <2>2. c.function = u.function
        BY <1>1, <1>2
  <2>3. IdOf(c.function, fn) = new.id
        BY <1>4, <2>1, <2>2
  <2> QED BY <1>2, <2>3
<1>9. \A sc \in scs : /\ IdOf(t.syscall, sc) \in Nat
                     /\ IdOf(t.syscall, sc) <= t.syscall_seq
                     /\ \A s \in t.syscall : IdOf(t.syscall, sc) = s.id <=> s.name = sc
  <2> TAKE sc \in scs
  <2>1. /\ IdOf(t.syscall, sc) \in 0..MaxId
        /\ IdOf(t.syscall, sc) # 0 =>
               \E row \in t.syscall : row.name = sc /\ row.id = IdOf(t.syscall, sc)
        BY <1>3, IdInRange
  <2>2. \A s \in t.syscall : s.id \in Nat \ {0} /\ s.id <= t.syscall_seq
        BY <1>3 DEF IdsFresh
  <2>3. \A s \in t.syscall : s.name = sc => IdOf(t.syscall, sc) = s.id
        BY IdFound DEF IdsFresh
  <2>4. \A s \in t.syscall : IdOf(t.syscall, sc) = s.id => s.name = sc
        BY <2>1, <2>2 DEF IdsFresh
  <2> QED BY <1>3, <2>1, <2>2, <2>3, <2>4
<1>10. IdsFresh(u)
  <2>1. \A row \in u.function : row.id <= u.function_seq
        BY <1>2, <1>3, <1>4, <1>5
  <2>2. \A r \in add : r[1] <= u.function_seq /\ r[2] <= u.syscall_seq
        BY <1>2, <1>3, <1>4, <1>9
  <2>3. \A r \in t.requirement : r[1] <= u.function_seq /\ r[2] <= u.syscall_seq
        BY <1>2, <1>3, <1>6 DEF IdsFresh
  <2> QED BY <1>2, <1>7, <1>8, <2>1, <2>2, <2>3 DEF IdsFresh
<1>11. SyscallNames(u) = SyscallNames(t)
      BY <1>2 DEF SyscallNames
<1>12. Join(u, fn) = scs \cap SyscallNames(t)
  <2>1. \A f \in u.function : f.name = fn <=> f = new
        BY <1>2, <1>4
  <2>2. \A s \in t.syscall : <<new.id, s.id>> \in u.requirement <=> s.name \in scs
        BY <1>6, <1>8, <1>9
  <2>3. new \in u.function
        BY <1>2
  <2>4. Join(u, fn) = {s.name : s \in {s \in t.syscall : s.name \in scs}}
        BY <1>2, <2>1, <2>2, <2>3 DEF Join
  <2> QED BY <2>4 DEF SyscallNames
<1>13. ASSUME NEW other \in Function \ {fn}
       PROVE  Join(u, other) = Join(t, other)
  <2>1. \A f : (f \in u.function /\ f.name = other) <=> (f \in t.function /\ f.name = other)
        BY <1>2, <1>4
  <2>2. \A f \in t.function : \A s : <<f.id, s>> \in u.requirement <=> <<f.id, s>> \in t.requirement
        BY <1>5, <1>8
  <2> QED BY <1>2, <2>1, <2>2 DEF Join
<1> QED BY <1>2, <1>10, <1>11, <1>12, <1>13 DEF u, c

-----------------------------------------------------------------------------
(* The lines of a mapping *)

LEMMA AfterNoLine ==
    ASSUME NEW file, NEW fn, NEW old, NEW known
    PROVE  Mapping!After(file, 0, fn, old, known) = old
<1>1. Mapping!LinesFor(file, fn, 0) = {}
      BY DEF Mapping!LinesFor
<1> QED BY <1>1 DEF Mapping!After

LEMMA AfterLine ==
    ASSUME NEW file, NEW n \in Nat, NEW fn, NEW old, NEW known
    PROVE  Mapping!After(file, n + 1, fn, old, known) =
               IF file[n + 1].fn = fn /\ Mapping!Counts(file[n + 1])
               THEN Mapping!Expand(file[n + 1].words, known)
               ELSE Mapping!After(file, n, fn, old, known)
<1> DEFINE before == Mapping!LinesFor(file, fn, n)
           after  == Mapping!LinesFor(file, fn, n + 1)
<1>1. \A i : i \in 1..n + 1 <=> i \in 1..n \/ i = n + 1
      OBVIOUS
<1>2. CASE file[n + 1].fn = fn /\ Mapping!Counts(file[n + 1])
  <2>1. n + 1 \in after /\ \A j \in after : j <= n + 1
        BY <1>2 DEF Mapping!LinesFor
  <2>2. \A i \in after : (\A j \in after : j <= i) => i = n + 1
        BY <2>1 DEF Mapping!LinesFor
  <2> HIDE DEF after
  <2> DEFINE last == CHOOSE i \in after : \A j \in after : j <= i
  <2>3. last = n + 1 /\ after # {}
        BY <2>1, <2>2
  <2>4. Mapping!After(file, n + 1, fn, old, known) = Mapping!Expand(file[last].words, known)
        BY <2>3 DEF Mapping!After, after
  <2> QED BY <1>2, <2>3, <2>4
<1>3. CASE ~(file[n + 1].fn = fn /\ Mapping!Counts(file[n + 1]))
  <2>1. after = before
        BY <1>1, <1>3 DEF Mapping!LinesFor
  <2> DEFINE Last(lines) == CHOOSE i \in lines : \A j \in lines : j <= i
             Of(lines)   == IF lines = {} THEN old
                            ELSE Mapping!Expand(file[Last(lines)].words, known)
  <2>2. /\ Mapping!After(file, n + 1, fn, old, known) = Of(after)
        /\ Mapping!After(file, n, fn, old, known) = Of(before)
        BY Zenon DEF Mapping!After
  <2> HIDE DEF before, after, Of
  <2>3. Mapping!After(file, n + 1, fn, old, known) = Mapping!After(file, n, fn, old, known)
        BY <2>1, <2>2
  <2> QED BY <1>3, <2>3, Zenon
<1> QED BY <1>2, <1>3

-----------------------------------------------------------------------------
(* The invariant *)

Types ==
    /\ db \in Tables
    /\ program \in {"none", "register-syscalls", "register-functions"}
    /\ program # "none" => tx \in Tables
    /\ program = "register-functions" => input \in FunctionFiles /\ pos \in 0..Len(input)

Consistent == IdsFresh(db) /\ (program # "none" => IdsFresh(tx))

\* register-functions works with the names that are committed.
NamesCommitted ==
    program = "register-functions" =>
        names = SyscallNames(db) /\ SyscallNames(tx) = SyscallNames(db)

\* What register-syscalls has registered is known, and lost to every function.
SyscallsLost ==
    program = "register-syscalls" =>
        \E header \in Headers :
            /\ input \subseteq header
            /\ SyscallNames(tx) = SyscallNames(db) \cup (header \ input)
            /\ \A fn \in Function : Join(tx, fn) = Join(db, fn) \ (header \ input)

IInv == Types /\ Consistent /\ NamesCommitted /\ SyscallsLost /\ LinesApplied

LEMMA InitInv == Init => IInv
<1> SUFFICES ASSUME Init PROVE IInv
    OBVIOUS
<1>1. /\ db = EmptyTables /\ program = "none"
      BY DEF Init
<1>2. EmptyTables \in Tables
      BY SyscallDbAssumption DEF EmptyTables, Tables
<1>3. IdsFresh(EmptyTables)
      BY DEF IdsFresh, EmptyTables
<1> QED BY <1>1, <1>2, <1>3 DEF IInv, Types, Consistent, NamesCommitted, SyscallsLost, LinesApplied

LEMMA ProgramEnds ==
    ASSUME IInv, EndProgram, db' = db \/ (program # "none" /\ db' = tx)
    PROVE  IInv'
<1>1. program' = "none" /\ db' \in Tables /\ IdsFresh(db')
      BY DEF IInv, Types, Consistent, EndProgram
<1>2. IdsFresh(db)'
      BY <1>1 DEF IdsFresh
<1> QED BY <1>1, <1>2 DEF IInv, Types, Consistent, NamesCommitted, SyscallsLost, LinesApplied

LEMMA BeginSyscallsInv ==
    ASSUME IInv, BeginSyscalls
    PROVE  IInv'
<1>1. /\ program' = "register-syscalls" /\ input' \in Headers /\ tx' = db /\ db' = db
      BY DEF BeginSyscalls
<1>2. Types'
      BY <1>1 DEF IInv, Types
<1>3. Consistent'
      BY <1>1 DEF IInv, Consistent, IdsFresh
<1>4. SyscallsLost'
  <2>1. SyscallNames(tx)' = SyscallNames(db)' /\ \A fn : Join(tx, fn)' = Join(db, fn)'
        BY <1>1 DEF SyscallNames, Join
  <2> QED BY <1>1, <2>1 DEF SyscallsLost
<1> QED BY <1>1, <1>2, <1>3, <1>4 DEF IInv, NamesCommitted, LinesApplied

LEMMA BeginFunctionsInv ==
    ASSUME IInv, BeginFunctions
    PROVE  IInv'
<1>1. /\ program' = "register-functions" /\ input' \in FunctionFiles /\ pos' = 0
      /\ names' = SyscallNames(db) /\ tx' = db /\ db' = db
      BY DEF BeginFunctions
<1>2. 0 \in 0..Len(input')
      BY <1>1, SyscallDbAssumption
<1>3. Types'
      BY <1>1, <1>2 DEF IInv, Types
<1>4. Consistent'
      BY <1>1 DEF IInv, Consistent, IdsFresh
<1>5. /\ SyscallNames(tx)' = SyscallNames(db)' /\ SyscallNames(db)' = SyscallNames(db)
      /\ \A fn : Join(tx, fn)' = Join(db, fn)'
      BY <1>1 DEF SyscallNames, Join
<1>6. NamesCommitted'
      BY <1>1, <1>5 DEF NamesCommitted
<1>7. LinesApplied'
      BY <1>1, <1>5, AfterNoLine DEF LinesApplied
<1> QED BY <1>1, <1>3, <1>4, <1>6, <1>7 DEF IInv, SyscallsLost

LEMMA RegisterSyscallInv ==
    ASSUME IInv, RegisterSyscall
    PROVE  IInv'
<1>1. PICK name \in input : /\ tx.syscall_seq < MaxId
                           /\ tx' = CreateSyscall(tx, name)
                           /\ input' = input \ {name}
      BY DEF RegisterSyscall
<1>2. program = "register-syscalls" /\ program' = program /\ db' = db
      BY DEF RegisterSyscall
<1>3. PICK header \in Headers :
          /\ input \subseteq header
          /\ SyscallNames(tx) = SyscallNames(db) \cup (header \ input)
          /\ \A fn \in Function : Join(tx, fn) = Join(db, fn) \ (header \ input)
      BY <1>2 DEF IInv, SyscallsLost
<1>4. name \in Name /\ tx \in Tables /\ IdsFresh(tx) /\ MaxId \in Nat
      BY <1>1, <1>2, <1>3, SyscallDbAssumption DEF IInv, Types, Consistent
<1>5. /\ tx' \in Tables /\ IdsFresh(tx')
      /\ SyscallNames(tx') = SyscallNames(tx) \cup {name}
      /\ \A fn : Join(tx', fn) = Join(tx, fn) \ {name}
      BY <1>1, <1>4, SyscallLost
<1>6. /\ IdsFresh(tx)' /\ (IdsFresh(db)' <=> IdsFresh(db))
      /\ SyscallNames(tx)' = SyscallNames(tx') /\ SyscallNames(db)' = SyscallNames(db)
      /\ \A fn : Join(tx, fn)' = Join(tx', fn) /\ Join(db, fn)' = Join(db, fn)
      BY <1>2, <1>5 DEF IdsFresh, SyscallNames, Join
<1>7. Types' /\ Consistent'
      BY <1>2, <1>5, <1>6 DEF IInv, Types, Consistent
<1>8. SyscallsLost'
  <2>1. header \ input' = (header \ input) \cup {name} /\ input' \subseteq header
        BY <1>1, <1>3
  <2> QED BY <1>2, <1>3, <1>5, <1>6, <2>1 DEF SyscallsLost
<1> QED BY <1>2, <1>7, <1>8 DEF IInv, NamesCommitted, LinesApplied

LEMMA RegisterFunctionInv ==
    ASSUME IInv, RegisterFunction
    PROVE  IInv'
<1> DEFINE line == input[pos + 1]
           scs  == IF Star \in line.words THEN names ELSE line.words
<1>1. /\ program = "register-functions" /\ program' = program /\ db' = db
      /\ pos < Len(input) /\ pos' = pos + 1 /\ tx.function_seq < MaxId
      /\ input' = input /\ names' = names
      /\ tx' = IF line.words = {} THEN tx
               ELSE CreateSyscallRequirements(CreateFunction(tx, line.fn), line.fn, scs)
      BY DEF RegisterFunction
<1>2. /\ input \in FunctionFiles /\ pos \in 0..Len(input) /\ Len(input) \in Nat
      /\ tx \in Tables /\ db \in Tables /\ IdsFresh(tx) /\ IdsFresh(db) /\ MaxId \in Nat
      BY <1>1, SyscallDbAssumption DEF IInv, Types, Consistent
<1>3. pos + 1 \in 0..Len(input) /\ pos + 1 \in 1..Len(input) /\ pos \in Nat
      BY <1>1, <1>2
<1>4. line.fn \in Function /\ line.words \subseteq Name \cup {Star}
  <2> DEFINE Lines == [fn : Function, words : SUBSET (Name \cup {Star})]
  <2>1. input \in Seq(Lines)
        BY <1>2, SyscallDbAssumption
  <2>2. line \in Lines
    <3> HIDE DEF Lines
    <3> QED BY <1>3, <2>1
  <2> QED BY <2>2
<1>5. names = SyscallNames(db) /\ SyscallNames(tx) = SyscallNames(db) /\ names \subseteq Name
      BY <1>1, <1>2 DEF IInv, NamesCommitted, SyscallNames, Tables
<1>6. scs \in SUBSET Name
      BY <1>4, <1>5
<1>7. \A fn \in Function : Join(tx, fn) = Mapping!After(input, pos, fn, Join(db, fn), names)
      BY <1>1 DEF IInv, LinesApplied
<1> HIDE DEF line
<1>8. /\ tx' \in Tables /\ IdsFresh(tx') /\ SyscallNames(tx') = SyscallNames(tx)
      /\ \A fn \in Function :
            Join(tx', fn) = IF line.fn = fn /\ line.words # {}
                            THEN Mapping!Expand(line.words, names) ELSE Join(tx, fn)
  <2>1. CASE line.words = {}
        BY <1>1, <1>2, <2>1
  <2>2. CASE line.words # {}
    <3>1. /\ tx' \in Tables /\ IdsFresh(tx') /\ SyscallNames(tx') = SyscallNames(tx)
          /\ Join(tx', line.fn) = scs \cap SyscallNames(tx)
          /\ \A other \in Function \ {line.fn} : Join(tx', other) = Join(tx, other)
          BY <1>1, <1>2, <1>4, <1>6, <2>2, FunctionReplaced
    <3>2. scs \cap SyscallNames(tx) = Mapping!Expand(line.words, names)
          BY <1>5 DEF Mapping!Expand
    <3> QED BY <2>2, <3>1, <3>2
  <2> QED BY <2>1, <2>2
<1>9. /\ IdsFresh(tx)' /\ IdsFresh(db)'
      /\ SyscallNames(tx)' = SyscallNames(tx') /\ SyscallNames(db)' = SyscallNames(db)
      /\ \A fn : Join(tx, fn)' = Join(tx', fn) /\ Join(db, fn)' = Join(db, fn)
      BY <1>1, <1>2, <1>8 DEF IdsFresh, SyscallNames, Join
<1>10. Types' /\ Consistent' /\ NamesCommitted'
      BY <1>1, <1>2, <1>3, <1>5, <1>8, <1>9 DEF IInv, Types, Consistent, NamesCommitted
<1>11. LinesApplied'
  <2> SUFFICES ASSUME NEW fn \in Function
               PROVE  Join(tx', fn) = Mapping!After(input, pos + 1, fn, Join(db, fn), names)
      BY <1>1, <1>9 DEF LinesApplied
  <2>1. Mapping!After(input, pos + 1, fn, Join(db, fn), names) =
            IF line.fn = fn /\ line.words # {} THEN Mapping!Expand(line.words, names)
            ELSE Mapping!After(input, pos, fn, Join(db, fn), names)
    <3>1. Mapping!After(input, pos + 1, fn, Join(db, fn), names) =
              IF input[pos + 1].fn = fn /\ Mapping!Counts(input[pos + 1])
              THEN Mapping!Expand(input[pos + 1].words, names)
              ELSE Mapping!After(input, pos, fn, Join(db, fn), names)
          BY <1>3, AfterLine, ZenonT(60)
    <3>2. Mapping!Counts(line) <=> line.words # {}
          BY DEF Mapping!Counts
    <3> QED BY <3>1, <3>2, Zenon DEF line
  <2> QED BY <1>7, <1>8, <2>1
<1> QED BY <1>1, <1>10, <1>11 DEF IInv, SyscallsLost

LEMMA NextInv ==
    ASSUME IInv, [Next]_vars
    PROVE  IInv'
<1>1. CASE BeginSyscalls
      BY <1>1, BeginSyscallsInv
<1>2. CASE RegisterSyscall
      BY <1>2, RegisterSyscallInv
<1>3. CASE BeginFunctions
      BY <1>3, BeginFunctionsInv
<1>4. CASE RegisterFunction
      BY <1>4, RegisterFunctionInv
<1>5. CASE Commit
      BY <1>5, ProgramEnds DEF Commit, Finished
<1>6. CASE Crash
      BY <1>6, ProgramEnds DEF Crash
<1>7. CASE UNCHANGED vars
  <2>1. /\ db' = db /\ tx' = tx /\ program' = program /\ input' = input
        /\ pos' = pos /\ names' = names
        BY <1>7 DEF vars
  <2>2. /\ SyscallNames(tx)' = SyscallNames(tx) /\ SyscallNames(db)' = SyscallNames(db)
        /\ \A fn : Join(tx, fn)' = Join(tx, fn) /\ Join(db, fn)' = Join(db, fn)
        /\ IdsFresh(db)' = IdsFresh(db) /\ IdsFresh(tx)' = IdsFresh(tx)
        BY <2>1 DEF IdsFresh, SyscallNames, Join
  <2> QED BY <2>1, <2>2 DEF IInv, Types, Consistent, NamesCommitted, SyscallsLost, LinesApplied
<1> QED BY <1>1, <1>2, <1>3, <1>4, <1>5, <1>6, <1>7 DEF Next

-----------------------------------------------------------------------------
(* The refinement *)

LEMMA InitRefines == Init => Mapping!Init
BY DEF Init, Mapping!Init, EmptyTables, SyscallNames, Join

LEMMA CommitRefines ==
    ASSUME IInv, Commit
    PROVE  Mapping!Next
<1>1. db' = tx /\ Finished
      BY DEF Commit
<1>2. /\ SyscallNames(db)' = SyscallNames(tx)
      /\ [fn \in Function |-> Join(db, fn)]' = [fn \in Function |-> Join(tx, fn)]
      BY <1>1 DEF SyscallNames, Join
<1>3. CASE program = "register-functions" /\ pos = Len(input)
  <2>1. input \in FunctionFiles /\ SyscallNames(tx) = SyscallNames(db) /\ names = SyscallNames(db)
        BY <1>3 DEF IInv, Types, NamesCommitted
  <2>2. \A fn \in Function : Join(tx, fn) =
            Mapping!After(input, Len(input), fn, Join(db, fn), SyscallNames(db))
        BY <1>3, <2>1 DEF IInv, LinesApplied
  <2>3. Mapping!RegisterFunctions
        BY <1>2, <2>1, <2>2 DEF Mapping!RegisterFunctions
  <2> QED BY <2>3 DEF Mapping!Next
<1>4. CASE program = "register-syscalls" /\ input = {}
  <2>1. PICK header \in Headers :
            /\ SyscallNames(tx) = SyscallNames(db) \cup header
            /\ \A fn \in Function : Join(tx, fn) = Join(db, fn) \ header
        BY <1>4 DEF IInv, SyscallsLost
  <2>2. Mapping!RegisterSyscalls
        BY <1>2, <2>1 DEF Mapping!RegisterSyscalls
  <2> QED BY <2>2 DEF Mapping!Next
<1> QED BY <1>1, <1>3, <1>4 DEF Finished

LEMMA OthersStutter ==
    ASSUME db' = db
    PROVE  UNCHANGED <<SyscallNames(db), [fn \in Function |-> Join(db, fn)]>>
BY DEF SyscallNames, Join

\* Every committed state of the tables, and every commit, is one of FunctionMap:
\* rows that lost their id never come back, a dead program leaves nothing behind,
\* and the last line of a function decides (db.go, lines 44-99, and both mains).
THEOREM Refinement == Spec => ImplementsFunctionMap
<1>1. Init => IInv
      BY InitInv
<1>2. IInv /\ [Next]_vars => IInv'
      BY NextInv
<1>3. Init => Mapping!Init
      BY InitRefines
<1>4. IInv /\ [Next]_vars =>
          [Mapping!Next]_<<SyscallNames(db), [fn \in Function |-> Join(db, fn)]>>
  <2> SUFFICES ASSUME IInv, [Next]_vars
               PROVE  [Mapping!Next]_<<SyscallNames(db), [fn \in Function |-> Join(db, fn)]>>
      OBVIOUS
  <2>1. CASE Commit
        BY <2>1, CommitRefines
  <2>2. CASE ~Commit
    <3>1. db' = db
          BY <2>2 DEF Next, BeginSyscalls, RegisterSyscall, BeginFunctions, RegisterFunction,
                      Crash, vars
    <3> QED BY <3>1, OthersStutter
  <2> QED BY <2>1, <2>2
<1> QED BY <1>1, <1>2, <1>3, <1>4, PTL DEF Spec, ImplementsFunctionMap, Mapping!Spec

-----------------------------------------------------------------------------
(* The recursive queries *)

\* Every row names a file its first file reaches.
RowsSound == \A r \in seen : r[2] \in Reach(r[1])

\* The initial rows are never lost.
StartKept == query = "all" => Edge \subseteq seen

\* A row the query has joined has its successors among the rows, but for
\* those the guard of the join leaves out.
RowsJoined ==
    \A r \in seen \ queue : \A e \in Edge :
        e[1] = r[2] => \/ <<r[1], e[2]>> \in seen
                       \/ query = "all" /\ e[1] = r[1]
                       \/ query = "one" /\ e[2] = r[2]

ProfileBuilt ==
    \A x \in DOMAIN profile : query = "all" /\ queue = {} /\ profile[x] = RowOf(x)

QueryInv == QueryTypeOK /\ RowsSound /\ StartKept /\ RowsJoined /\ ProfileBuilt

-----------------------------------------------------------------------------
\* Reach holds its origin, is closed, and is inside every closed set that
\* holds the origin.
LEMMA ReachOrigin == ASSUME NEW f \in File PROVE f \in Reach(f)
BY DEF Reach

LEMMA ReachStep ==
    ASSUME NEW f \in File, NEW e \in Edge, QueryTypeOK, e[1] \in Reach(f)
    PROVE  e[2] \in Reach(f)
<1>1. e[2] \in File
    BY DEF Edge, QueryTypeOK
<1> QED BY <1>1 DEF Reach, Closed

LEMMA ReachLeast ==
    ASSUME NEW f \in File, NEW S \in SUBSET File, f \in S, Closed(S)
    PROVE  Reach(f) \subseteq S
BY DEF Reach

LEMMA JoinedType ==
    ASSUME QueryTypeOK, NEW r \in seen
    PROVE  Joined(r) \subseteq File \X File
BY DEF Joined, Edge, QueryTypeOK

-----------------------------------------------------------------------------
LEMMA QueryInvInit == QueryInit => QueryInv
<1> SUFFICES ASSUME QueryInit PROVE QueryInv
    OBVIOUS
<1>1. QueryTypeOK
    BY ClosureAssumption DEF QueryInit, Start, Edge, QueryTypeOK
<1>2. RowsSound
  <2>1. CASE query = "all" /\ seen = Edge
    <3> SUFFICES ASSUME NEW r \in seen PROVE r[2] \in Reach(r[1])
        BY DEF RowsSound
    <3>1. r \in Edge /\ r[1] \in File
        BY <2>1, <1>1 DEF QueryTypeOK
    <3> QED BY <3>1, <1>1, ReachOrigin, ReachStep
  <2>2. CASE \E f \in File : seen = {<<f, f>>}
    BY <2>2, ReachOrigin DEF RowsSound
  <2> QED BY <2>1, <2>2 DEF QueryInit, Start
<1>3. StartKept /\ RowsJoined /\ ProfileBuilt
    BY DEF QueryInit, Start, StartKept, RowsJoined, ProfileBuilt
<1> QED BY <1>1, <1>2, <1>3 DEF QueryInv

LEMMA QueryInvRecurse == QueryInv /\ Recurse => QueryInv'
<1> SUFFICES ASSUME QueryInv, Recurse PROVE QueryInv'
    OBVIOUS
<1> USE DEF QueryInv
<1>1. PICK r \in queue :
        /\ seen' = seen \cup Joined(r)
        /\ queue' = (queue \ {r}) \cup (Joined(r) \ seen)
        /\ UNCHANGED <<include, rci, query, profile>>
    BY DEF Recurse
<1>2. r \in seen /\ r[1] \in File
    BY DEF QueryTypeOK
<1>3. Edge' = Edge /\ \A f : Reach(f)' = Reach(f)
    BY <1>1 DEF Edge, Reach, Closed
<1>4. QueryTypeOK'
    BY <1>1, <1>2, JoinedType DEF QueryTypeOK
<1>5. RowsSound'
  <2> SUFFICES ASSUME NEW q \in Joined(r) PROVE q[2] \in Reach(q[1])
      BY <1>1, <1>3 DEF RowsSound
  <2>1. PICK e \in Edge : e[1] = r[2] /\ q = <<r[1], e[2]>>
      BY DEF Joined
  <2> QED BY <2>1, <1>2, ReachStep DEF RowsSound
<1>6. StartKept'
    BY <1>1, <1>3 DEF StartKept
<1>7. RowsJoined'
  <2> SUFFICES ASSUME NEW q \in seen' \ queue', NEW e \in Edge, e[1] = q[2]
               PROVE  \/ <<q[1], e[2]>> \in seen'
                      \/ query = "all" /\ e[1] = q[1]
                      \/ query = "one" /\ e[2] = q[2]
      BY <1>1, <1>3 DEF RowsJoined
  <2>1. CASE q = r
      BY <2>1, <1>1 DEF Joined, QueryTypeOK
  <2>2. CASE q # r
    <3>1. q \in seen \ queue
      BY <2>2, <1>1
    <3> QED BY <3>1, <1>1 DEF RowsJoined
  <2> QED BY <2>1, <2>2
<1>8. ProfileBuilt'
    BY <1>1 DEF ProfileBuilt
<1> QED BY <1>4, <1>5, <1>6, <1>7, <1>8

LEMMA QueryInvPrint == QueryInv /\ PrintProfile => QueryInv'
<1> SUFFICES ASSUME QueryInv, PrintProfile PROVE QueryInv'
    OBVIOUS
<1>1. \A x \in File : RowOf(x) \subseteq Syscall
  <2>1. \A f \in File : SyscallsOf(f) \subseteq Syscall
      BY ClosureAssumption DEF SyscallsOf
  <2>2. \A x \in File : FilesOfRow(x) \subseteq File
      BY DEF FilesOfRow
  <2> QED BY <2>1, <2>2 DEF RowOf
<1>2. QueryTypeOK'
    BY <1>1 DEF QueryInv, PrintProfile, QueryTypeOK
<1>3. \A x : RowOf(x)' = RowOf(x)
    BY DEF PrintProfile, RowOf, FilesOfRow
<1>4. ProfileBuilt'
    BY <1>3 DEF PrintProfile, ProfileBuilt
<1>5. RowsSound'
    BY DEF QueryInv, PrintProfile, RowsSound, Reach, Closed, Edge
<1>6. StartKept' /\ RowsJoined'
    BY DEF QueryInv, PrintProfile, StartKept, RowsJoined, Edge
<1> QED BY <1>2, <1>4, <1>5, <1>6 DEF QueryInv

\* The inductive invariant holds in every reachable state.
THEOREM QueryInvariance == QuerySpec => []QueryInv
<1>1. QueryInv /\ UNCHANGED queryVars => QueryInv'
  <2> SUFFICES ASSUME QueryInv, UNCHANGED queryVars PROVE QueryInv'
      OBVIOUS
  <2>1. QueryTypeOK' /\ StartKept' /\ RowsJoined'
      BY DEF queryVars, QueryInv, QueryTypeOK, StartKept, RowsJoined, Edge
  <2>2. RowsSound'
      BY DEF queryVars, QueryInv, RowsSound, Reach, Closed, Edge
  <2>3. ProfileBuilt'
      BY DEF queryVars, QueryInv, ProfileBuilt, RowOf, FilesOfRow
  <2> QED BY <2>1, <2>2, <2>3 DEF QueryInv
<1>2. QueryInv /\ [QueryNext]_queryVars => QueryInv'
    BY <1>1, QueryInvRecurse, QueryInvPrint DEF QueryNext
<1> QED BY <1>2, QueryInvInit, PTL DEF QuerySpec

-----------------------------------------------------------------------------
\* With an empty queue the rows of x are a closed set that holds x.
LEMMA RowsClosed ==
    ASSUME QueryInv, queue = {}, NEW x \in File,
           query = "all" \/ <<x, x>> \in seen
    PROVE  Closed(FilesOfRow(x))
<1> SUFFICES ASSUME NEW e \in Edge, e[1] \in FilesOfRow(x)
             PROVE  e[2] \in FilesOfRow(x)
    BY DEF Closed
<1> USE DEF QueryInv
<1>1. e = <<e[1], e[2]>> /\ e[2] \in File
    BY DEF Edge, QueryTypeOK
<1>2. CASE query = "all" /\ e[1] = x
    BY <1>1, <1>2 DEF StartKept, FilesOfRow
<1>3. CASE query = "all" /\ e[1] # x
  <2>1. <<x, e[1]>> \in seen \ queue
    BY <1>3 DEF FilesOfRow
  <2> QED BY <1>1, <1>3, <2>1 DEF RowsJoined, FilesOfRow
<1>4. CASE query = "one"
  <2>1. <<x, e[1]>> \in seen \ queue
    BY <1>4 DEF FilesOfRow
  <2> QED BY <1>1, <1>4, <2>1 DEF RowsJoined, FilesOfRow
<1> QED BY <1>2, <1>3, <1>4 DEF QueryTypeOK

LEMMA RowsAreReach ==
    ASSUME QueryInv, queue = {}, NEW x \in File,
           query = "all" \/ <<x, x>> \in seen
    PROVE  FilesOfRow(x) = Reach(x)
<1>1. Reach(x) \subseteq FilesOfRow(x)
  <2>1. Closed(FilesOfRow(x))
    BY RowsClosed
  <2>2. x \in FilesOfRow(x) /\ FilesOfRow(x) \subseteq File
    BY DEF FilesOfRow
  <2> QED BY <2>1, <2>2, ReachLeast
<1>2. FilesOfRow(x) \subseteq Reach(x)
    BY ReachOrigin DEF FilesOfRow, QueryInv, RowsSound
<1> QED BY <1>1, <1>2

\* The rows of a finished query name exactly the files reached.
THEOREM ClosureCorrect == QuerySpec => []ClosureExact
<1>1. QueryInv => ClosureExact
    BY RowsAreReach DEF ClosureExact
<1> QED BY <1>1, QueryInvariance, PTL

\* A printed line holds exactly the system calls of the files reached.
THEOREM ProfileCorrect == QuerySpec => []ProfileExact
<1>1. QueryInv => ProfileExact
  <2> SUFFICES ASSUME QueryInv, NEW x \in DOMAIN profile
               PROVE  profile[x] = UNION {SyscallsOf(f) : f \in Reach(x)}
      BY DEF ProfileExact
  <2>1. x \in File /\ query = "all" /\ queue = {} /\ profile[x] = RowOf(x)
      BY DEF QueryInv, ProfileBuilt, QueryTypeOK
  <2> QED BY <2>1, RowsAreReach DEF RowOf
<1> QED BY <1>1, QueryInvariance, PTL
=============================================================================
