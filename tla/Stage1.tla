-------------------------------- MODULE Stage1 --------------------------------
(***************************************************************************)
(* Stage 1 as src/vm_scripts/run_stage1.sh puts it together: the traces of *)
(* the test suite are read, the interpreter is analysed, the numbers of    *)
(* the analysis become names (readablesyscalls.py), and the two mappings   *)
(* from PHP functions to system calls are merged (util/mergemappings.py).  *)
(* The script has no set -e: after a program that failed it goes on with   *)
(* what that one has printed.                                               *)
(***************************************************************************)
EXTENDS Naturals, Sequences, FiniteSets, Functions

CONSTANTS
    Pid, Fn, Syscall, Clone, None, Traces,  \* of ProcessTraces
    Node, Number, Exec, Graphs,             \* of InterpreterAnalysis
    Inputs,         \* the traces and the call graph of an interpreter
    NamesOf,        \* the PHP functions of an entry of php_sources
    NameOf,         \* the system call of a number, in unistd_64.h
    Marks,          \* +++ and ---, the first words of lines that are no calls
    NumberBegun,    \* NumberBegun[nr]: the numbers that the first digits of nr are
    NameBegun,      \* NameBegun[w]: the words that the first letters of w are
    Torn,           \* a name of a function that was cut off: it has no colon
    Programs        \* functions that run programs, which the merge leaves out

VARIABLES
    trace, fileList, file, line, inCallstack, callstack, scn, scc, scp,
    functions, children,
    graph, cached, done, others, stack, function, results,
    step,               \* the part of the script that runs
    static, dynamic,    \* the files that are merged, until they are
    mapping,            \* the output
    failed              \* whether a program failed or its output was cut off; history

T == INSTANCE ProcessTraces
A == INSTANCE InterpreterAnalysis WITH Syscall <- Number

Empty == [x \in {} |-> {}]

ASSUME Stage1Assumption ==
    /\ T!TracesAssumption
    /\ A!AnalysisAssumption
    /\ Inputs \subseteq Traces \X Graphs
    /\ NameOf \in [Number -> Syscall]
    /\ NamesOf \in [(SUBSET Node) \ {{}} -> SUBSET Fn]
    /\ Marks \subseteq Syscall /\ Programs \subseteq Fn /\ None \notin Fn
    /\ Torn \notin Fn \cup {None}

\* What is cut off may be cut again, and the beginning of a word is no mark.
ASSUME BegunAssumption ==
    /\ NumberBegun \in [Number -> SUBSET Number]
    /\ NameBegun \in [Syscall -> SUBSET (Syscall \ Marks)]
    /\ \A w \in Syscall : \A t \in NameBegun[w] : NameBegun[t] \subseteq NameBegun[w]

traceVars    == <<trace, fileList, file, line, inCallstack, callstack, scn, scc, scp,
                  functions, children>>
analysisVars == <<graph, cached, done, others, stack, function, results>>
outputs      == <<static, dynamic, mapping>>
vars         == <<traceVars, analysisVars, step, outputs, failed>>

Init ==
    /\ T!Init
    /\ A!Init
    /\ <<trace, graph>> \in Inputs
    /\ step = "traces"
    /\ static = Empty
    /\ dynamic = Empty
    /\ mapping = Empty
    /\ failed = FALSE

-----------------------------------------------------------------------------
(* The end of a program that is killed, or whose disk is full, can come at any *)
(* byte of what it prints.                                                     *)

\* The words that the first letters of one of the words are.
Begun(words) == UNION {NameBegun[w] : w \in words}

\* The lines of a file cut off between two lines, inside the name of a function,
\* or behind a name, where a word of pieces[fn] may end the line of fn.
CutOff(lines, pieces) ==
    {Restrict(lines, S) : S \in SUBSET DOMAIN lines}
        \cup {[fn \in S \cup {Torn} |-> IF fn \in S THEN lines[fn] ELSE {}] :
                   S \in SUBSET DOMAIN lines}
        \cup (UNION {{[fn \in S \cup {last} |-> IF fn = last THEN words \cup end ELSE lines[fn]] :
                          S \in SUBSET DOMAIN lines, words \in SUBSET lines[last],
                          end \in {{}} \cup {{w} : w \in pieces[last]}} :
                     last \in DOMAIN lines})

-----------------------------------------------------------------------------
(* The traces *)

TracesRead == file = Len(fileList)

\* A line of a trace.
ProcessTraces ==
    /\ step = "traces"
    /\ T!Next
    /\ UNCHANGED <<analysisVars, step, outputs, failed>>

\* The end of process-traces, which has printed what dynamic' holds; its memory
\* goes with it.
TracesEnd ==
    /\ step = "traces"
    /\ step' = "interpreter"
    /\ file' = 0 /\ line' = 0
    /\ inCallstack' = FALSE /\ callstack' = <<>>
    /\ scn' = None /\ scc' = None /\ scp' = TRUE
    /\ functions' = Empty /\ children' = Empty
    /\ UNCHANGED <<trace, fileList, analysisVars, static, mapping>>

\* main prints the functions when all files have been read.
PrintDynamic ==
    /\ TracesEnd
    /\ TracesRead
    /\ dynamic' = functions
    /\ UNCHANGED failed

\* process-traces ends early: before it has printed anything, or on the way.
DynamicFails ==
    /\ TracesEnd
    /\ \/ dynamic' = Empty
       \/ TracesRead /\ dynamic' \in CutOff(functions,
                                  [fn \in DOMAIN functions |-> Begun(functions[fn])])
    /\ failed' = TRUE

-----------------------------------------------------------------------------
(* The interpreter *)

AnalyzeInterpreter ==
    /\ step = "interpreter"
    /\ A!Next
    /\ UNCHANGED <<traceVars, step, outputs, failed>>

\* What has been printed: each function of an entry with the calls of the entry,
\* by name.
Readable ==
    [fn \in UNION {NamesOf[entry] : entry \in DOMAIN results} |->
        UNION {{NameOf[nr] : nr \in results[entry]} :
                  entry \in {e \in DOMAIN results : fn \in NamesOf[e]}}]

\* The numbers of a line of fn, and what their beginnings are made into:
\* readablesyscalls.py gives a number that was cut off the name of another call,
\* and may be cut off itself.
NumbersOf(fn) == UNION {results[entry] : entry \in {e \in DOMAIN results : fn \in NamesOf[e]}}
BegunNames(numbers) == {NameOf[t] : t \in UNION {NumberBegun[nr] : nr \in numbers}}
Pieces(fn) == Begun(Readable[fn]) \cup BegunNames(NumbersOf(fn))
                  \cup Begun(BegunNames(NumbersOf(fn)))

\* The end of analyze_interpreter.py and readablesyscalls.py.
AnalysisEnds ==
    /\ step = "interpreter"
    /\ step' = "merge"
    /\ cached' = Empty /\ results' = Empty
    /\ done' = {} /\ others' = {} /\ function' = {} /\ stack' = <<>>
    /\ UNCHANGED <<graph, traceVars, dynamic, mapping>>

PrintStatic ==
    /\ AnalysisEnds
    /\ DOMAIN results = graph.sources
    /\ static' = Readable
    /\ UNCHANGED failed

\* Either ends early, the first with some of the entries it has analysed.
StaticFails ==
    /\ AnalysisEnds
    /\ static' \in CutOff(Readable, [fn \in DOMAIN Readable |-> Pieces(fn)])
    /\ failed' = TRUE

-----------------------------------------------------------------------------
(* The merge *)

\* readmapping
ReadMapping(lines) == [fn \in DOMAIN lines \ Programs |-> lines[fn] \ Marks]

\* Functions that only the traces know are left out.
Merged ==
    LET map1 == ReadMapping(static)
        map2 == ReadMapping(dynamic)
    IN  [fn \in DOMAIN map1 |->
            map1[fn] \cup (IF fn \in DOMAIN map2 THEN map2[fn] ELSE {})]

MergeMappings ==
    /\ step = "merge"
    /\ mapping' = Merged
    /\ step' = "done"
    /\ static' = Empty /\ dynamic' = Empty
    /\ UNCHANGED <<traceVars, analysisVars, failed>>

\* mergemappings.py ends early.
MergeFails ==
    /\ step = "merge"
    /\ mapping' \in CutOff(Merged, [fn \in DOMAIN Merged |-> Begun(Merged[fn])])
    /\ step' = "done"
    /\ failed' = TRUE
    /\ static' = Empty /\ dynamic' = Empty
    /\ UNCHANGED <<traceVars, analysisVars>>

Progress ==
    \/ ProcessTraces \/ PrintDynamic
    \/ AnalyzeInterpreter \/ PrintStatic
    \/ MergeMappings

Next == Progress \/ DynamicFails \/ StaticFails \/ MergeFails

\* The programs run one after the other and wait for nothing.
Spec == Init /\ [][Next]_vars /\ WF_vars(Progress)
-----------------------------------------------------------------------------
TypeOK ==
    /\ step \in {"traces", "interpreter", "merge", "done"}
    /\ DOMAIN static \subseteq Fn \cup {Torn}
    /\ DOMAIN dynamic \subseteq Fn \cup {None, Torn}
    /\ DOMAIN mapping \subseteq Fn \cup {Torn}
    /\ failed \in BOOLEAN

\* The numbers below an implementation of fn in the call graphs.
NumbersBelow(fn) ==
    UNION {A!Direct(A!Reached(A!AllEdges, n)) :
              n \in UNION {entry \in graph.sources : fn \in NamesOf[entry]}}

\* The calls there is evidence for: a trace shows them, or they are below fn.
Evident(fn) == {sc \in Syscall : T!Traced(fn, sc)} \cup {NameOf[nr] : nr \in NumbersBelow(fn)}

\* What the beginnings of their names and numbers stand for.
TornEvident(fn) ==
    Begun(Evident(fn)) \cup BegunNames(NumbersBelow(fn)) \cup Begun(BegunNames(NumbersBelow(fn)))

Unfounded == UNION {{fn} \X (mapping[fn] \ Evident(fn)) : fn \in DOMAIN mapping}

\* Whatever fails on the way, the mapping allows a function a system call only if
\* that call is below the function in the interpreter or a trace shows it there,
\* and it has no line for a function that runs programs or for one that the
\* interpreter does not have. A program that stops inside a word adds at most one
\* call to that, which the beginning of such a call's name or number stands for,
\* and there are three such programs; a name that is cut off has no calls.
MappingJustified ==
    /\ \A fn \in DOMAIN mapping \ {Torn} :
          /\ fn \notin Programs
          /\ \E entry \in graph.sources : fn \in NamesOf[entry]
          /\ mapping[fn] \subseteq (Evident(fn) \cup TornEvident(fn)) \ Marks
    /\ Torn \in DOMAIN mapping => mapping[Torn] = {}
    /\ Cardinality(Unfounded) <= IF failed THEN 3 ELSE 0

\* If nothing failed, the mapping has a line for every function of the interpreter
\* that runs no programs, with every call that a trace shows with a whole stack of
\* that function and, where dfs meets no cycle, every call below it: what either program
\* finds gets through to the output.
MappingComplete ==
    (step = "done" /\ ~failed) =>
        \A entry \in graph.sources : \A fn \in NamesOf[entry] \ Programs :
            /\ fn \in DOMAIN mapping
            /\ \A p \in Pid : \A i, e \in 1..Len(trace[p]) :
                  T!Shown(p, i, e, fn) /\ trace[p][i].name \notin Marks
                      => trace[p][i].name \in mapping[fn]
            /\ \A n \in entry :
                  (A!Plain(n) /\ entry = {n}) =>
                      {NameOf[nr] : nr \in A!Direct(A!Reached(A!Edges, n))} \ Marks
                          \subseteq mapping[fn]

\* A process that was forked once, and whose file comes after its parent's, has each
\* of its calls counted for the function that forked it, but for the first one and
\* those right after a stack (process-traces/main.go, lines 55-69).
ForkedCallsCounted == T!ForkedCallsCounted

\* In whatever order functions are analysed and sets iterated, a node from which
\* no cycle can be met has all the system calls below it in the cache of dfs.
CompleteOffCycles == A!CompleteOffCycles

\* The script comes to its end, on recursive call graphs too.
Stage1Ends == <>(step = "done")
=============================================================================
