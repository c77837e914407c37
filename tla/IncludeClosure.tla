--------------------------- MODULE IncludeClosure ---------------------------
(***************************************************************************)
(* The recursive queries of src/stage2/db/db.go that turn what a scan      *)
(* recorded into one profile row per file, and build-filters, which prints *)
(* the rows.  SQLite evaluates WITH RECURSIVE by a queue: it takes one row *)
(* out, joins it with the edges and appends the rows it has not seen.      *)
(***************************************************************************)
EXTENDS Naturals

CONSTANTS
    File,           \* paths in the file table
    PhpFunction,    \* names in function_call
    Syscall,        \* numbers in syscall
    Graphs,         \* the pairs <<include, resolved_class_instance>> to start from
    FunctionCall,   \* FunctionCall[f]: names recorded for f
    Requirement     \* Requirement[fn]: the numbers joined to the name fn

ASSUME ClosureAssumption ==
    /\ \A g \in Graphs : g[1] \subseteq File \X File /\ g[2] \subseteq File \X File
    /\ FunctionCall \in [File -> SUBSET PhpFunction]
    /\ Requirement \in [PhpFunction -> SUBSET Syscall]

VARIABLES
    include,        \* rows (file, resolved_include)
    rci,            \* rows (file, resolved_class_file)
    query,          \* "all": GetSyscallIdsForFile, "one": GetSyscallsForFile
    seen,           \* rows <<x, y>> of the recursive table includes
    queue,          \* those the query has still to join
    profile         \* what build-filters printed: file -> numbers

queryVars == <<include, rci, query, seen, queue, profile>>

\* The UNION of the two tables, written out twice in the query.
Edge == include \cup rci

\* Mutant of Start: the edges of resolved_class_instance are left out.
StartIncludesOnly ==
    \/ query = "all" /\ seen = include
    \/ query = "one" /\ \E f \in File : seen = {<<f, f>>}

\* The initial select: every edge, or the file the caller names.
Start ==
    \/ query = "all" /\ seen = Edge
    \/ query = "one" /\ \E f \in File : seen = {<<f, f>>}

QueryInit ==
    /\ \E g \in Graphs : include = g[1] /\ rci = g[2]
    /\ query \in {"all", "one"}
    /\ Start
    /\ queue = seen
    /\ profile = [f \in {} |-> {}]

\* The recursive select, for one row.
Joined(r) ==
    {<<r[1], e[2]>> : e \in
        {e \in Edge : e[1] = r[2] /\ (IF query = "all" THEN e[1] # r[1]
                                                       ELSE e[2] # r[2])}}

\* Mutant of Recurse: UNION ALL keeps rows that were seen before.
RecurseUnionAll ==
    \E r \in queue :
        /\ seen' = seen \cup Joined(r)
        /\ queue' = (queue \ {r}) \cup Joined(r)
        /\ UNCHANGED <<include, rci, query, profile>>

Recurse ==
    \E r \in queue :
        /\ seen' = seen \cup Joined(r)
        /\ queue' = (queue \ {r}) \cup (Joined(r) \ seen)
        /\ UNCHANGED <<include, rci, query, profile>>

\* INNER JOIN includes I ON L.File = I.x OR L.File = I.y, projected on I.x
\* and grouped by it.
FilesOfRow(x) == {x} \cup {y \in File : <<x, y>> \in seen}

SyscallsOf(f) == UNION {Requirement[fn] : fn \in FunctionCall[f]}

\* Mutant of RowOf: the join is on I.y alone.
RowOfIncluded(x) == UNION {SyscallsOf(f) : f \in {y \in File : <<x, y>> \in seen}}

RowOf(x) == UNION {SyscallsOf(f) : f \in FilesOfRow(x)}

\* build-filters prints a line for each file the query returned.
PrintProfile ==
    /\ query = "all"
    /\ queue = {}
    /\ LET listed == {x \in File : RowOf(x) # {} /\ \E y \in File : <<x, y>> \in seen}
       IN  profile' = [x \in listed |-> RowOf(x)]
    /\ UNCHANGED <<include, rci, query, seen, queue>>

QueryNext == Recurse \/ PrintProfile

\* The engine runs a query to its end and the program prints the result.
QuerySpec ==
    QueryInit /\ [][QueryNext]_queryVars /\ WF_queryVars(Recurse) /\ WF_queryVars(PrintProfile)

-----------------------------------------------------------------------------
\* The files reached from f: the least set that holds f and is closed under
\* the recorded edges.
Closed(S) == \A e \in Edge : e[1] \in S => e[2] \in S
Reach(f) == {g \in File : \A S \in SUBSET File : f \in S /\ Closed(S) => g \in S}

QueryTypeOK ==
    /\ include \subseteq File \X File
    /\ rci \subseteq File \X File
    /\ query \in {"all", "one"}
    /\ seen \subseteq File \X File
    /\ queue \subseteq seen
    /\ DOMAIN profile \subseteq File
    /\ \A x \in DOMAIN profile : profile[x] \subseteq Syscall

\* When the queue is empty, a file's rows name exactly the files it reaches
\* through includes and class files, in any order and on any cycle (db.go
\* lines 156-229).
ClosureExact ==
    queue = {} => \A x \in File :
        (query = "all" \/ <<x, x>> \in seen) => FilesOfRow(x) = Reach(x)

\* A line of the profile holds the system calls of everything its file
\* reaches, and nothing else.
ProfileExact ==
    \A x \in DOMAIN profile :
        profile[x] = UNION {SyscallsOf(f) : f \in Reach(x)}

\* The query ends, on cyclic include graphs too.
QueryEnds == <>(queue = {})

=============================================================================
