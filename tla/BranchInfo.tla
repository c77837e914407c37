----------------------------- MODULE BranchInfo -----------------------------
(***************************************************************************)
(* Dead code and branch analysis of one compiled function: the jumps of    *)
(* its opcodes, the opcodes an entry point reaches, the branches they form *)
(* and the paths through the branches (xdebug_code_coverage.c lines        *)
(* 532-747, xdebug_branch_info.c lines 54-342).                            *)
(*                                                                         *)
(* An op array is a function from 0..n-1 to opcodes [op, line, to, last]:  *)
(* the kind, the line, the jump targets by position, and whether a catch   *)
(* is the last of its try.                                                 *)
(***************************************************************************)
EXTENDS Integers, Sequences, SequencesExt, FiniteSets

CONSTANTS
    MaxOuts,        \* XDEBUG_BRANCH_MAX_OUTS
    MaxPaths        \* paths a function may collect, 4095 in the source

Exit == 2147483645

Size(code) == Cardinality(DOMAIN code)

Positions(code) == DOMAIN code

Kind(code, p) == code[p].op

FirstOf(s, n) == SubSeq(s, 1, IF Len(s) < n THEN Len(s) ELSE n)

\* Mutant of Jumps: the second target of a two-way jump is forgotten.
JumpsFirstOnly(code, p) ==
    LET o == code[p]
    IN  CASE o.op \in {"jmp", "jmpz", "jmpznz", "fast_call"} -> <<o.to[1]>>
          [] o.op = "switch" -> FirstOf(Front(o.to), MaxOuts - 2) \o <<Last(o.to), p + 1>>
          [] o.op \in {"return", "throw", "exit", "fast_ret"} -> <<Exit>>
          [] OTHER -> <<>>

\* xdebug_find_jumps.  "jmpz" stands for every opcode that falls through or
\* jumps, the foreach opcodes included.
Jumps(code, p) ==
    LET o == code[p]
    IN  CASE o.op = "jmp"       -> <<o.to[1]>>
          [] o.op = "jmpz"      -> <<p + 1, o.to[1]>>
          [] o.op = "jmpznz"    -> o.to
          [] o.op = "catch"     -> IF o.last THEN <<p + 1, Exit>>
                                   ELSE IF o.to[1] = p + 1 THEN <<p + 1>>
                                   ELSE <<p + 1, o.to[1]>>
          [] o.op = "fast_call" -> <<o.to[1], p + 1>>
          [] o.op = "switch"    -> \* the cases, the default, the next opcode
                FirstOf(Front(o.to), MaxOuts - 2) \o <<Last(o.to), p + 1>>
          [] o.op \in {"return", "throw", "exit", "fast_ret"} -> <<Exit>>
          [] OTHER -> <<>>

\* Where analysis goes on after p; RETURN_BY_REF is no jump and ends it.
Onward(code, p) ==
    IF Jumps(code, p) # <<>> THEN ToSet(Jumps(code, p)) \ {Exit}
    ELSE IF Kind(code, p) = "return_by_ref" THEN {}
    ELSE {p + 1} \cap Positions(code)

Catches(code) == {p \in Positions(code) : Kind(code, p) = "catch"}

\* xdebug_analyse_oparray: everything reached from 0 and from the catches.
Reached(code) ==
    LET within[i \in 0..Size(code)] ==
            IF i = 0 THEN {0} \cup Catches(code)
            ELSE LET before == within[i - 1]
                 IN  before \cup UNION {Onward(code, p) : p \in before}
    IN  within[Size(code)]

Starts(code) ==
    {0} \cup Catches(code) \cup
        UNION {ToSet(Jumps(code, p)) \ {Exit} : p \in Reached(code)}

Ends(code) ==
    {Size(code) - 1} \cup
        {p \in Reached(code) : Jumps(code, p) # <<>> \/ Kind(code, p) = "return_by_ref"}

\* xdebug_branch_info_update, for every jump of the opcode.
OutsOf(code, p) ==
    IF p \in Reached(code) THEN FirstOf(Jumps(code, p), MaxOuts) ELSE <<>>

\* only_leave_first_catch: the catches chained from position p on.
Chained(code, p) ==
    LET skip(q) == IF Kind(code, q) = "fetch_class" THEN q + 1 ELSE q
        from[q \in Positions(code)] ==
            IF Kind(code, skip(q)) # "catch" THEN {}
            ELSE {skip(q)} \cup
                 (IF code[skip(q)].last THEN {} ELSE from[code[skip(q)].to[1]])
    IN  from[p]

\* The entry points that xdebug_branch_post_process leaves.
EntryPoints(code) ==
    LET left[i \in 0..Size(code)] ==
            IF i = 0 THEN {0} \cup Catches(code)
            ELSE LET S == left[i - 1]
                 IN  IF i - 1 \in S /\ Kind(code, i - 1) = "catch"
                     THEN S \ Chained(code, code[i - 1].to[1]) ELSE S
    IN  left[Size(code)]

\* The branches of xdebug_branch_post_process: a branch ends before the next
\* start or at an end, and takes over the jumps of that end.
Branches(code) ==
    LET Set(acc, outs, end) ==
            [acc EXCEPT !.br[acc.last] = [outs |-> outs, end_op |-> end]]
        AtStart(acc, p) ==
            IF p \notin Starts(code) THEN acc
            ELSE [(IF acc.open THEN Set(acc, <<p>>, p - 1) ELSE acc)
                    EXCEPT !.last = p, !.open = TRUE]
        AtEnd(acc, p) ==
            IF p \notin Ends(code) THEN acc
            ELSE [Set(acc, acc.br[p].outs, p) EXCEPT !.open = FALSE]
    IN  FoldLeft(LAMBDA acc, p : AtEnd(AtStart(acc, p), p),
                 [br |-> [p \in Positions(code) |-> [outs |-> OutsOf(code, p), end_op |-> p]],
                  last |-> 0, open |-> FALSE],
                 [i \in 1..Size(code) |-> i - 1]).br

\* xdebug_path_exists
Follows(path, a, b) ==
    \E i \in 1..Len(path) - 1 : path[i] = a /\ path[i + 1] = b

\* xdebug_branch_find_path: depth first, no edge twice on a path.
PathsFrom(br, entry, found) ==
    LET ways(path) == SelectSeq(br[Last(path)].outs,
                        LAMBDA o : o \notin {0, Exit} /\ ~Follows(path, Last(path), o))
        walk[path \in Seq(Nat), acc \in Seq(Seq(Nat))] ==
            IF Len(acc) > MaxPaths THEN acc
            ELSE IF ways(path) = <<>> THEN Append(acc, path)
            ELSE FoldLeft(LAMBDA a, o : walk[Append(path, o), a], acc, ways(path))
    IN  walk[<<entry>>, found]

\* xdebug_branch_find_paths
Paths(code) ==
    FoldLeft(LAMBDA acc, p : IF p \in EntryPoints(code)
                             THEN PathsFrom(Branches(code), p, acc) ELSE acc,
             <<>>, [i \in 1..Size(code) |-> i - 1])

\* What prefill_from_oparray keeps of a function.
Analysis(code) ==
    [reached |-> Reached(code), starts |-> Starts(code),
     entries |-> EntryPoints(code), branches |-> Branches(code), paths |-> Paths(code)]
=============================================================================
