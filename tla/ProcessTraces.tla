--------------------------- MODULE ProcessTraces ---------------------------
(***************************************************************************)
(* src/stage1/interpreter-tracing/process-traces: reads the tracer's       *)
(* files, one per process, line by line, and attributes every system call  *)
(* to the PHP function on top of the call stack printed after it; calls    *)
(* that a forked process makes without a stack go to the function that     *)
(* forked it.                                                              *)
(***************************************************************************)
EXTENDS Naturals, Sequences, FiniteSets

CONSTANTS
    Pid,            \* processes that were traced
    Fn,             \* names of PHP functions
    Syscall,        \* first words of lines outside a stack
    Clone,          \* the one that forks
    None,           \* no name, no process
    Traces          \* the contents of the directory: Pid -> lines

\* A line: a stack's begin, its end, a frame of it, a number, or a call; a
\* call of clone ends with the new process.
Line ==
    [kind : {"start", "end", "number"}]
      \cup [kind : {"frame"}, fn : Fn]
      \cup [kind : {"call"}, name : Syscall, result : Pid \cup {None}]

\* What the constants are.  The tracer prints the end of a stack only after its
\* beginning.
TracesAssumption ==
    /\ IsFiniteSet(Pid)
    /\ \A files \in Traces : DOMAIN files = Pid
    /\ \A files \in Traces : \A p \in Pid :
          /\ files[p] \in Seq(Line)
          /\ \A k \in DOMAIN files[p] : files[p][k].kind = "end" =>
                \E j \in 1..k - 1 : /\ files[p][j].kind = "start"
                                   /\ \A n \in j..k - 1 : files[p][n].kind # "end"
    /\ Clone \in Syscall
    /\ None \notin Syscall \cup Pid

VARIABLES
    trace,          \* the files
    fileList,       \* their order: filepath.Walk sorts names, not numbers
    file,           \* files that are done
    line,           \* lines of the next file that are done
    inCallstack, callstack, scn, scc, scp,
    functions,      \* function -> system calls
    children        \* process -> function that forked it

locals == <<inCallstack, callstack, scn, scc, scp>>
vars == <<trace, fileList, file, line, locals, functions, children>>

Empty == [x \in {} |-> {}]
With(f, x, y) == [z \in DOMAIN f \cup {x} |-> IF z = x THEN y ELSE f[z]]

Init ==
    /\ trace \in Traces
    /\ fileList \in {o \in [1..Cardinality(Pid) -> Pid] :
                        \A i, j \in DOMAIN o : o[i] = o[j] => i = j}
    /\ file = 0
    /\ line = 0
    /\ inCallstack = FALSE
    /\ callstack = <<>>
    /\ scn = None
    /\ scc = None
    /\ scp = TRUE
    /\ functions = Empty
    /\ children = Empty

pid == fileList[file + 1]
Reading == file < Len(fileList) /\ line < Len(trace[pid])
nextLine == trace[pid][line + 1]

\* The next line has this kind; it is consumed.
Read(kind) ==
    /\ Reading
    /\ nextLine.kind = kind
    /\ line' = line + 1
    /\ UNCHANGED <<trace, fileList, file>>

StackStarts ==
    /\ Read("start")
    /\ inCallstack' = TRUE
    /\ callstack' = <<>>
    /\ UNCHANGED <<scn, scc, scp, functions, children>>

\* functions[fn][sc] = true, with the entry made first.
Attribute(fn, sc) ==
    With(functions, fn, {sc} \cup (IF fn \in DOMAIN functions THEN functions[fn] ELSE {}))

StackEnds ==
    /\ Read("end")
    /\ inCallstack' = FALSE
    /\ IF callstack # <<>> /\ scn # None
       THEN /\ functions' = Attribute(callstack[1], scn)
            /\ children' = IF scn = Clone THEN With(children, scc, callstack[1]) ELSE children
       ELSE UNCHANGED <<functions, children>>
    /\ scn' = None
    /\ scp' = TRUE
    /\ UNCHANGED <<callstack, scc>>

\* Any other line in a stack is a frame; a call's third word is no name.
StackLine ==
    /\ inCallstack
    /\ \E kind \in {"frame", "call", "number"} : Read(kind)
    /\ callstack' =
          CASE nextLine.kind = "frame" -> Append(callstack, nextLine.fn)
            [] nextLine.kind = "call" -> Append(callstack, None)
            [] nextLine.kind = "number" -> callstack
    /\ UNCHANGED <<inCallstack, scn, scc, scp, functions, children>>

\* Mutant of CallLine: only a call that follows a stack.
CallLineAfterStack ==
    /\ ~inCallstack
    /\ Read("call")
    /\ scn' = nextLine.name
    /\ scc' = IF nextLine.name = Clone THEN nextLine.result ELSE scc
    /\ functions' = IF pid \in DOMAIN children /\ (scp \/ nextLine.name = Clone)
                    THEN Attribute(children[pid], nextLine.name)
                    ELSE functions
    /\ scp' = FALSE
    /\ UNCHANGED <<inCallstack, callstack, children>>

\* A call outside a stack: a forked process's goes to the function that
\* forked it if the line before was no stack's end, or if it forks in turn.
CallLine ==
    /\ ~inCallstack
    /\ Read("call")
    /\ scn' = nextLine.name
    /\ scc' = IF nextLine.name = Clone THEN nextLine.result ELSE scc
    /\ functions' = IF pid \in DOMAIN children /\ (~scp \/ nextLine.name = Clone)
                    THEN Attribute(children[pid], nextLine.name)
                    ELSE functions
    /\ scp' = FALSE
    /\ UNCHANGED <<inCallstack, callstack, children>>

NumberLine ==
    /\ ~inCallstack
    /\ Read("number")
    /\ scp' = FALSE
    /\ UNCHANGED <<inCallstack, callstack, scn, scc, functions, children>>

\* Mutant of NextFile: the locals of processFile are not made anew.
NextFileKeepsLocals ==
    /\ file < Len(fileList)
    /\ line = Len(trace[pid])
    /\ file' = file + 1
    /\ line' = 0
    /\ UNCHANGED <<locals, trace, fileList, functions, children>>

\* The end of a file; processFile starts over with fresh locals.
NextFile ==
    /\ file < Len(fileList)
    /\ line = Len(trace[pid])
    /\ file' = file + 1
    /\ line' = 0
    /\ inCallstack' = FALSE
    /\ callstack' = <<>>
    /\ scn' = None
    /\ scc' = None
    /\ scp' = TRUE
    /\ UNCHANGED <<trace, fileList, functions, children>>

Next ==
    \/ StackStarts \/ StackEnds \/ StackLine
    \/ CallLine \/ NumberLine \/ NextFile

Spec == Init /\ [][Next]_vars
-----------------------------------------------------------------------------
Kind(p, i) == IF i \in 1..Len(trace[p]) THEN trace[p][i].kind ELSE "none"

\* The function on top of the stack printed after line i of p, or None.
TopOf(p, i) ==
    IF Kind(p, i + 1) = "start" /\ Kind(p, i + 2) = "frame"
    THEN trace[p][i + 2].fn ELSE None

Clones(q, j, p) ==
    Kind(q, j) = "call" /\ trace[q][j].name = Clone /\ trace[q][j].result = p

\* Line i of p is not in a stack.
Outside(p, i) ==
    \A s \in 1..i - 1 : Kind(p, s) = "start" => \E e \in s + 1..i - 1 : Kind(p, e) = "end"

\* Line i of p is a call that is made while fn runs: right after it comes a stack,
\* whole by line e, with fn on top.
Shown(p, i, e, fn) ==
    /\ Kind(p, i) = "call" /\ Outside(p, i) /\ TopOf(p, i) = fn
    /\ i < e /\ Kind(p, e) = "end" /\ \A k \in i + 2..e : Kind(p, k) # "start"

\* p was forked once, by fn in line j of q.
Forks(q, j, e, p, fn) ==
    /\ Clones(q, j, p) /\ Shown(q, j, e, fn)
    /\ \A r \in Pid : \A h \in DOMAIN trace[r] : Clones(r, h, p) => r = q /\ h = j

\* A stack that begins after line i of p, and before one ends, has fn on top, and
\* between the two no call is made outside a stack.
Stacked(p, i, fn) ==
    \E j, m \in DOMAIN trace[p] :
        /\ i < j /\ j < m
        /\ Kind(p, j) = "start"
        /\ \A k \in j + 1..m - 1 : Kind(p, k) = "number"
        /\ Kind(p, m) = "frame" /\ trace[p][m].fn = fn
        /\ \A k \in i + 1..m : Kind(p, k) # "end"
        /\ \A k \in i + 1..m : Kind(p, k) = "call" => \E s \in i + 1..k - 1 : Kind(p, s) = "start"

\* The files show the call sc under the function fn, or in a process that fn forked.
Traced(fn, sc) ==
    \E p \in Pid : \E i \in DOMAIN trace[p] :
        /\ Kind(p, i) = "call" /\ trace[p][i].name = sc
        /\ \/ Stacked(p, i, fn)
           \/ \E q \in Pid : \E j \in DOMAIN trace[q] : Clones(q, j, p) /\ Stacked(q, j, fn)

\* Line i of p has been read.
Seen(p, i) ==
    \E k \in 1..Len(fileList) :
        /\ fileList[k] = p
        /\ k <= file \/ (k = file + 1 /\ i <= line)

TypeOK ==
    /\ trace \in Traces
    /\ file \in 0..Len(fileList)
    /\ line \in Nat
    /\ inCallstack \in BOOLEAN /\ scp \in BOOLEAN
    /\ callstack \in Seq(Fn \cup {None})
    /\ scn \in Syscall \cup {None}
    /\ scc \in Pid \cup {None}
    /\ DOMAIN functions \subseteq Fn \cup {None}
    /\ \A fn \in DOMAIN functions : functions[fn] \subseteq Syscall
    /\ DOMAIN children \subseteq Pid \cup {None}

\* A function is given a system call only if the files show it there (lines 30-73).
Evidence == \A fn \in DOMAIN functions \ {None} : \A sc \in functions[fn] : Traced(fn, sc)

\* A process that was forked once, and whose file comes after its parent's, has
\* each of its calls counted for the function that forked it, but for the first
\* one and those right after a stack (lines 55-69).  When its file comes first, as
\* trace.10 does before trace.9, its calls without a stack are lost.
ForkedCallsCounted ==
    \A k, m \in 1..Len(fileList) : k < m =>
        LET q == fileList[k]
            p == fileList[m]
        IN  \A j, e \in 1..Len(trace[q]) : \A fn \in Fn : \A i \in 2..Len(trace[p]) :
              (/\ Forks(q, j, e, p, fn)
               /\ Kind(p, i) = "call" /\ Outside(p, i) /\ Kind(p, i - 1) \in {"call", "number"}
               /\ Seen(p, i))
              => fn \in DOMAIN functions /\ trace[p][i].name \in functions[fn]

\* The function noted for a forked process always has an entry: the write
\* to functions[pf][scn] never meets a missing map (lines 39-45, 60-66).
ChildFunctionKnown == \A p \in DOMAIN children : children[p] \in DOMAIN functions
=============================================================================
