-------------------------- MODULE MCIncludePattern --------------------------
(* Two files of up to three statements, in both orders of the walk.        *)
EXTENDS IncludePattern
CONSTANTS s1, s2, d1, d2, A, B, v

MCSegment == {s1, s2, d1, d2}
MCDir == <<d1, d2>>

L(s) == [t |-> "lit", v |-> s]
C(c) == [t |-> "const", v |-> c]
V == [t |-> "var", v |-> v]
Call == [t |-> "call", v |-> Wild]
Here == [t |-> "dir", v |-> Wild]

Exprs == {<<L(s1)>>, <<L(s1), Call>>, <<C(B)>>, <<V, L(s2)>>, <<Here, L(s1)>>}
Paths == {<<C(A), L(s2)>>, <<L(s2), C(A)>>, <<V>>, <<Here, V, L(s1)>>,
          <<L(s1), C(A), V>>, <<Call, Call, C(B), L(s1)>>}

Statements(s, xs, es) == [s : {s}, x : xs, e : es]
Defines == Statements("define", {A}, Exprs)
             \cup Statements("define", {B}, {<<L(s2)>>, <<Call>>, <<C(A)>>})
Assignments == Statements("assign", {v}, Exprs)
Appends == Statements("append", {v}, {<<L(s1)>>, <<C(A)>>})
Writes == Assignments \cup Appends
Inclusions == Statements("include", {A}, Paths)

Definers == {<<a, b>> : a \in Writes \cup Defines, b \in Defines}
Includers == {<<a, b>> : a \in Writes \cup Defines, b \in Inclusions}

\* A variable assigned, appended to, and then used.
Appenders == {<<a, b, c>> : a \in Assignments, b \in Appends, c \in Defines \cup Inclusions}

MCProjects == {<<f, g>> : f \in Definers, g \in Includers}
                \cup {<<g, f>> : f \in Definers, g \in Includers}
                \cup {<<f, <<i>>>> : f \in Appenders, i \in Inclusions}
=============================================================================
