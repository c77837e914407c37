--------------------------- MODULE MCCodeCoverage ---------------------------
(* A script that starts and stops coverage around calls of f, a loop around *)
(* a call of g, and of g: a switch, chained catches, a finally block and     *)
(* dead code on the last line of the script.                                *)
EXTENDS CodeCoverage
CONSTANTS main, f, g

Op(kind, line) == [op |-> kind, line |-> line, to |-> <<>>, last |-> FALSE]
Jump(kind, line, to) == [Op(kind, line) EXCEPT !.to = to]
LastCatch(line) == [Op("catch", line) EXCEPT !.to = <<0>>, !.last = TRUE]

OpArray(ops) == [p \in 0..Len(ops) - 1 |-> ops[p + 1]]

MCFn == {main, f, g}

MainCode == [i \in 1..4 |-> Op("call", i)] \o <<Jump("jmp", 4, <<6>>), LastCatch(5)>>
            \o [i \in 1..3 |-> Op("call", 5 + i)] \o <<Op("return", 27)>>
LoopCode == <<Jump("jmpz", 11, <<3>>), Op("call", 12), Jump("jmp", 13, <<0>>),
              Op("return", 14)>>
TryCode  == <<Op("stmt", 21), Jump("switch", 21, <<4, 5>>), Jump("jmpznz", 21, <<4, 5>>),
              Op("nop", 21), Op("throw", 22), Op("stmt", 23), Jump("jmp", 23, <<10>>),
              Jump("catch", 24, <<9>>), Jump("jmp", 24, <<10>>), LastCatch(25),
              Jump("fast_call", 25, <<12>>), Jump("jmp", 25, <<14>>),
              Op("stmt", 26), Jump("fast_ret", 26, <<12>>),
              Op("return", 26), Op("return", 27)>>

MCCode == (main :> OpArray(MainCode)) @@ (f :> OpArray(LoopCode)) @@ (g :> OpArray(TryCode))

MainCalls == <<{"include"}, {"start", "filter"}, {"include", "start"}, {f, g}, {}, {},
               {f, "stop", "internal"}, {"start", g}, {g}, {}>>

MCCalls == (main :> OpArray(MainCalls))
        @@ (f :> OpArray(<<{}, {g, "start", "internal"}, {}, {}>>))
        @@ (g :> OpArray([i \in 1..16 |-> {}]))

MCOptions == {[unused |-> TRUE, dead |-> TRUE, branch |-> TRUE],
              [unused |-> TRUE, dead |-> FALSE, branch |-> TRUE],
              [unused |-> FALSE, dead |-> TRUE, branch |-> TRUE]}
=============================================================================
