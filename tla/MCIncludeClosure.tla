-------------------------- MODULE MCIncludeClosure --------------------------
(* Every include graph on three files, with a few class edges. *)
EXTENDS IncludeClosure

CONSTANTS a, b, c, read, write, open

MCFile == {a, b, c}
MCPhpFunction == {read, write, open}
MCSyscall == {0, 1, 2}
MCGraphs == (SUBSET (File \X File)) \X {{}, {<<b, c>>}, {<<c, a>>, <<c, c>>}}
MCFunctionCall == [f \in File |-> CASE f = a -> {read} [] f = b -> {write} [] f = c -> {read, open}]
MCRequirement == [fn \in PhpFunction |-> CASE fn = read -> {0} [] fn = write -> {1} [] fn = open -> {2}]
=============================================================================
