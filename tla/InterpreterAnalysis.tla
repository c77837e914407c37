------------------------ MODULE InterpreterAnalysis ------------------------
(***************************************************************************)
(* The search of src/stage1/interpreter-static-analysis/                   *)
(* analyze_interpreter.py: for every function of the PHP API, the system   *)
(* calls that a walk over the call graphs of PHP and its libraries meets.  *)
(* dfs is recursive and keeps its results in the global dictionary cached; *)
(* here its frames are a stack.                                            *)
(***************************************************************************)
EXTENDS Naturals, Sequences, FiniteSets

CONSTANTS
    Node,           \* pairs (address, binary)
    Syscall,        \* system call numbers
    Exec,           \* 59, which is discarded everywhere
    Graphs          \* the call graphs to analyse

\* local: edges within a binary; bound: from a symbol to its definition in
\* the library the dynamic linker bound it to; direct: syscall instructions;
\* sources: the entries of php_sources, each with the origins main gives it.
CallGraph == [local : SUBSET (Node \X Node), bound : SUBSET (Node \X Node),
              direct : [Node -> SUBSET Syscall],
              sources : SUBSET ((SUBSET Node) \ {{}})]

\* What the constants are.
AnalysisAssumption ==
    /\ Graphs \subseteq CallGraph
    /\ IsFiniteSet(Node)

VARIABLES
    graph,      \* ctxs
    cached,     \* node -> system calls, for the calls of dfs that returned
    done,       \* edges followed in this run of dfs
    others,     \* the origins before the last one in the first path
    stack,      \* calls of dfs that are active
    function,   \* the entry of php_sources being analysed, or {}
    results     \* entry -> system calls printed for it

vars == <<graph, cached, done, others, stack, function, results>>

Empty == [x \in {} |-> {}]
With(f, x, y) == [z \in DOMAIN f \cup {x} |-> IF z = x THEN y ELSE f[z]]
Top == stack[Len(stack)]
Path == others \cup {stack[i].node : i \in DOMAIN stack}

Succ(edges, n) == {m \in Node : <<n, m>> \in edges}

\* Mutant of Targets: nodes met before are skipped instead of looked up.
TargetsSkipCached(n, path) ==
    {m \in Succ(graph.local, n) : m \notin path \cup DOMAIN cached}

\* The edges of n that dfs follows: those within the binary that close no
\* cycle with the path, or if there are none those to other binaries.
Targets(n, path) ==
    LET fresh(edges) == {m \in Succ(edges, n) : m \notin path /\ <<n, m>> \notin done}
    IN  IF fresh(graph.local) # {} THEN fresh(graph.local) ELSE fresh(graph.bound)

Init ==
    /\ graph \in Graphs
    /\ cached = Empty
    /\ done = {}
    /\ others = {}
    /\ stack = <<>>
    /\ function = {}
    /\ results = Empty

Frame(n, path) == [node |-> n, todo |-> Targets(n, path), syscalls |-> {}]

\* main calls dfs(list(origins), ctxs, set()): the last origin in the set's
\* order is the one that is expanded.
Analyse ==
    /\ function = {}
    /\ \E fn \in graph.sources \ DOMAIN results : \E n \in fn :
          IF n \in DOMAIN cached
          THEN /\ results' = With(results, fn, cached[n])
               /\ UNCHANGED <<done, others, stack, function>>
          ELSE /\ function' = fn
               /\ others' = fn \ {n}
               /\ stack' = <<Frame(n, fn)>>
               /\ UNCHANGED <<done, results>>
    /\ UNCHANGED <<graph, cached>>

Follow(m) ==
    /\ done' = done \cup {<<Top.node, m>>}
    /\ UNCHANGED <<graph, cached, others, function, results>>

\* Mutant of UseCached: the edge is not taken off the list.
UseCachedKeepsEdge ==
    /\ stack # <<>>
    /\ \E m \in Top.todo \cap DOMAIN cached :
          /\ stack' = [stack EXCEPT ![Len(stack)].syscalls = @ \cup cached[m]]
          /\ Follow(m)

\* A call of dfs that finds its node in cached returns at once.
UseCached ==
    /\ stack # <<>>
    /\ \E m \in Top.todo \cap DOMAIN cached :
          /\ stack' = [stack EXCEPT ![Len(stack)].syscalls = @ \cup cached[m],
                                    ![Len(stack)].todo = @ \ {m}]
          /\ Follow(m)

Call ==
    /\ stack # <<>>
    /\ \E m \in Top.todo \ DOMAIN cached :
          /\ stack' = Append([stack EXCEPT ![Len(stack)].todo = @ \ {m}],
                             Frame(m, Path \cup {m}))
          /\ Follow(m)

\* Mutant of Found: one set is shared along the path.
FoundOnPath(frame) ==
    (UNION {stack[i].syscalls \cup graph.direct[stack[i].node] : i \in DOMAIN stack}) \ {Exec}

Found(frame) == (frame.syscalls \cup graph.direct[frame.node]) \ {Exec}

\* The end of dfs: what was found is cached under the node and handed up.
Return ==
    /\ stack # <<>>
    /\ Top.todo = {}
    /\ cached' = With(cached, Top.node, Found(Top))
    /\ IF Len(stack) = 1
       THEN /\ results' = With(results, function, Found(Top))
            /\ function' = {}
            /\ done' = {}
            /\ others' = {}
            /\ stack' = <<>>
       ELSE /\ stack' = [SubSeq(stack, 1, Len(stack) - 1) EXCEPT
                            ![Len(stack) - 1].syscalls = @ \cup Found(Top)]
            /\ UNCHANGED <<function, done, others, results>>
    /\ UNCHANGED graph

Next == Analyse \/ UseCached \/ Call \/ Return

Spec == Init /\ [][Next]_vars
-----------------------------------------------------------------------------
\* Reached(E, n): the least set that holds n and is closed under E.
Reached(E, n) ==
    {m \in Node : \A S \in SUBSET Node :
        n \in S /\ (\A e \in E : e[1] \in S => e[2] \in S) => m \in S}

AllEdges == graph.local \cup graph.bound

\* The edges of a node that is not on a cycle: those to other binaries count
\* only for nodes without any in their own.
Edges == graph.local \cup {e \in graph.bound : Succ(graph.local, e[1]) = {}}

Direct(nodes) == (UNION {graph.direct[n] : n \in nodes}) \ {Exec}

\* A cycle, or a name that shares its table entry with another, can be met
\* on the way from n.
OnCycle(m) == \E k \in Succ(AllEdges, m) : m \in Reached(AllEdges, k)
Aliased == UNION {fn \in graph.sources : Cardinality(fn) > 1}
Plain(n) ==
    /\ \A m \in Reached(AllEdges, n) : ~OnCycle(m)
    /\ (Reached(AllEdges, n) \ {n}) \cap Aliased = {}

TypeOK ==
    /\ graph \in CallGraph
    /\ DOMAIN cached \subseteq Node
    /\ \A n \in DOMAIN cached : cached[n] \subseteq Syscall \ {Exec}
    /\ done \subseteq AllEdges
    /\ others \subseteq Node
    /\ stack \in Seq([node : Node, todo : SUBSET Node, syscalls : SUBSET Syscall])
    /\ function \in graph.sources \cup {{}}
    /\ (function = {}) = (stack = <<>>)
    /\ DOMAIN results \subseteq graph.sources

\* dfs never attributes to a function a system call that is not below it in
\* the call graph, whatever it finds cached (lines 270-327).
NothingInvented ==
    /\ \A n \in DOMAIN cached : cached[n] \subseteq Direct(Reached(AllEdges, n))
    /\ \A fn \in DOMAIN results :
          \E n \in fn : results[fn] \subseteq Direct(Reached(AllEdges, n))

\* The cache loses nothing where there is no recursion: in whatever order
\* functions are analysed and sets iterated, a node from which no cycle can
\* be met has all the system calls below it.  (Lines 273-282: inside a cycle
\* a result is cached that was computed with the path cut out, and it stays
\* incomplete.)
CompleteOffCycles ==
    \A n \in DOMAIN cached : Plain(n) => cached[n] = Direct(Reached(Edges, n))

\* What was printed for one function is what every later one builds on: a
\* cached result never changes (lines 273-275, 326).
CacheStable ==
    [][\A n \in DOMAIN cached : n \in DOMAIN cached' /\ cached'[n] = cached[n]]_vars
=============================================================================
