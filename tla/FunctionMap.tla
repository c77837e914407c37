---------------------------- MODULE FunctionMap ----------------------------
(***************************************************************************)
(* What the stage-2 database promises about stage 1's mapping, whatever    *)
(* its tables and row ids do: it holds one set of system calls per         *)
(* function.  A run of register-functions replaces, all at once, the sets  *)
(* of the functions its file names; a run of register-syscalls makes names *)
(* known, and takes the names it registers again away from every function  *)
(* until register-functions runs again.                                    *)
(***************************************************************************)
EXTENDS Naturals, Sequences

CONSTANTS
    Function,       \* names of PHP functions
    Name,           \* names of system calls
    Star,           \* the word "*"
    FunctionFiles,  \* files for register-functions: sequences of lines
    Headers         \* files for register-syscalls: sets of names

VARIABLES
    known,          \* the registered system calls
    needs           \* needs[fn]: the system calls attributed to fn

\* A line counts if it has a word after the function's name.
Counts(line) == line.words # {}

\* The lines of file that count for fn, among the first n.
LinesFor(file, fn, n) ==
    {i \in 1..n : file[i].fn = fn /\ Counts(file[i])}

Expand(words, names) == IF Star \in words THEN names ELSE words \cap names

\* What fn needs after the first n lines of file: its last line decides.
After(file, n, fn, old, names) ==
    IF LinesFor(file, fn, n) = {} THEN old
    ELSE LET last == CHOOSE i \in LinesFor(file, fn, n) :
                        \A j \in LinesFor(file, fn, n) : j <= i
         IN  Expand(file[last].words, names)

Init == /\ known = {}
        /\ needs = [fn \in Function |-> {}]

RegisterFunctions ==
    /\ \E file \in FunctionFiles :
          needs' = [fn \in Function |->
                       After(file, Len(file), fn, needs[fn], known)]
    /\ UNCHANGED known

RegisterSyscalls ==
    \E header \in Headers :
        /\ known' = known \cup header
        /\ needs' = [fn \in Function |-> needs[fn] \ header]

Next == RegisterFunctions \/ RegisterSyscalls

Spec == Init /\ [][Next]_<<known, needs>>
=============================================================================
