------------------------------- MODULE MCStage1 -------------------------------
(* A process and one it forks, in either order, each file cut off anywhere,   *)
(* with one interpreter; and every local graph on three nodes of an           *)
(* interpreter, with two pairs of traces.                                     *)
EXTENDS Stage1, SequencesExt, TLC

CONSTANTS parent, child, popen, fgets, main, read, exec, clone, writev, write, open, exited,
          zif_fgets, zif_popen, helper, libc_open

MCPid == {parent, child}
MCFn == {popen, fgets, main}
MCSyscall == {read, exec, clone, writev, write, open, exited}

Call(sc) == <<[kind |-> "call", name |-> sc, result |-> None]>>
Fork == <<[kind |-> "call", name |-> clone, result |-> child]>>
Number3 == <<[kind |-> "number"]>>
Stack(fns) == <<[kind |-> "start"]>>
              \o [i \in DOMAIN fns |-> [kind |-> "frame", fn |-> fns[i]]]
              \o <<[kind |-> "end"]>>

Reader == Call(read) \o Stack(<<>>) \o Fork \o Stack(<<fgets>>) \o Call(read)
Parents == {Fork \o Stack(<<popen, main>>) \o Call(read) \o Stack(<<fgets>>),
            Reader,
            Call(exec) \o Number3 \o Front(Stack(<<main>>)) \o Stack(<<fgets>>)}
Children == {Call(exec) \o Call(exited),
             Call(read) \o Stack(<<fgets, main>>) \o Call(exec) \o Call(exec),
             Call(exec) \o Number3 \o Call(clone) \o Stack(<<main>>)}
Cuts(trc) == {SubSeq(trc, 1, n) : n \in 0..Len(trc)}
Both(ps, cs) == {(parent :> p @@ child :> c) : p \in ps, c \in cs}

MCTraces == Both(UNION {Cuts(t) : t \in Parents}, UNION {Cuts(t) : t \in Children})

MCNode == {zif_fgets, zif_popen, helper, libc_open}
MCNumber == {0, 2, 20, 59}
MCNameOf == 0 :> read @@ 2 :> open @@ 20 :> writev @@ 59 :> exec

\* The number of writev begins like that of open, and its name like that of write.
MCNumberBegun == [nr \in MCNumber |-> IF nr = 20 THEN {2} ELSE {}]
MCNameBegun == [w \in MCSyscall |-> IF w = writev THEN {write} ELSE {}]
MCNamesOf == [entry \in (SUBSET MCNode) \ {{}} |->
                 (IF zif_fgets \in entry THEN {fgets} ELSE {}) \cup
                 (IF zif_popen \in entry THEN {popen} ELSE {})]
Binary == {zif_fgets, zif_popen, helper}
Graph(l, b, s) ==
    [local |-> l, bound |-> b, sources |-> s,
     direct |-> (zif_fgets :> {20} @@ zif_popen :> {59, 0} @@ helper :> {} @@ libc_open :> {2})]
Entries == {{{zif_fgets}, {zif_popen}, {helper}}, {{zif_fgets, helper}, {zif_popen}}}
MCGraphs ==
    {Graph(l, b, s) :
        l \in SUBSET {e \in Binary \X Binary : e[1] # e[2]},
        b \in {{<<helper, libc_open>>}, {<<zif_popen, libc_open>>, <<libc_open, helper>>}},
        s \in Entries \cup {{{zif_fgets}, {zif_popen}}}}

MCInputs ==
    (MCTraces \X {Graph({<<zif_popen, helper>>}, {<<helper, libc_open>>}, s) :
                         s \in {{{zif_fgets}, {zif_popen}}}})
    \cup (Both({Reader}, {<<>>}) \X MCGraphs)
=============================================================================
