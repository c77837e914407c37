--------------------------- MODULE IncludePattern ---------------------------
(***************************************************************************)
(* How scan-project turns the argument of an include into a pattern over   *)
(* paths: a first walk of every file collects the constants (const_walker  *)
(* .go), a second one rebuilds the string expressions (dumper.go), both    *)
(* with the StringTrie of include_string.go.                               *)
(*                                                                         *)
(* Only dirname and realpath branch a trie, once per path of a trie they   *)
(* are given, so every trie is a chain: a sequence of nodes, of which each *)
(* is a string, an unknown value, or a constant still to be resolved.  A   *)
(* string is a sequence of segments; dirname(__FILE__) is __DIR__.         *)
(***************************************************************************)
EXTENDS Naturals, Sequences, SequencesExt

CONSTANTS
    Segment,        \* pieces of paths
    Constant,       \* names given to define
    Variable,       \* names of PHP variables
    Wild,            \* ".*"
    Projects,       \* sequences of files; a file is a sequence of statements
    Dir             \* Dir[f]: the directory of the f-th file

VARIABLES
    project,        \* fileList, with what its files say
    phase,          \* "constants", "includes", "done" or "overflow"
    file, at,       \* the file walked, and statements of it that are done
    constants,      \* Constants: name -> chain
    assigns,        \* Assigns: variable -> chain
    includes        \* Includes of all files, each with the chain it came from

vars == <<project, phase, file, at, constants, assigns, includes>>

-----------------------------------------------------------------------------
(* Chains *)

Lit(content) == [kind |-> "lit", content |-> content]
Dynamic      == [kind |-> "dynamic", content |-> <<>>]
Const(name)  == [kind |-> "constant", content |-> name]

IsKind(node, kind) == node.kind = kind

\* Nodes of the given kind the chain starts with.
Leading(chain, kind) ==
    CHOOSE n \in 0..Len(chain) :
        /\ \A i \in 1..n : IsKind(chain[i], kind)
        /\ n = Len(chain) \/ ~IsKind(chain[n + 1], kind)

\* Merge the strings, then the unknowns, at the head of the chain.
MergeStrings(chain) ==
    LET n == Leading(chain, "lit")
        text == FlattenSeq([i \in 1..n |-> chain[i].content])
    IN  IF n < 2 THEN chain ELSE <<Lit(text)>> \o SubSeq(chain, n + 1, Len(chain))

MergeUnknowns(chain) ==
    LET n == Leading(chain, "dynamic")
    IN  IF n < 2 THEN chain ELSE SubSeq(chain, n, Len(chain))

DropEmptyHead(chain) ==
    IF Len(chain) > 1 /\ chain[1] = Lit(<<>>) /\ chain[2] = Dynamic
    THEN Tail(chain) ELSE chain

\* The three loops of Consolidate; its recursion works on copies.
Consolidate(chain) == MergeUnknowns(MergeStrings(DropEmptyHead(chain)))

AddLeaf(chain, leaf) == chain \o leaf

\* The node or nodes of one operand.
Operand(atom, as) ==
    CASE atom.t = "lit"   -> <<Lit(<<atom.v>>)>>
      [] atom.t = "dir"   -> <<Lit(<<Dir[file]>>)>>
      [] atom.t = "const" -> <<Const(atom.v)>>
      [] atom.t = "var" /\ atom.v \in DOMAIN as    -> as[atom.v]
      [] atom.t = "var" /\ atom.v \notin DOMAIN as -> <<Dynamic>>
      [] atom.t = "call"  -> <<Dynamic>>

\* A concatenation, from left to right.
processStringExpr(e, as) ==
    FoldLeft(LAMBDA acc, atom :
                 Consolidate(AddLeaf(acc, Consolidate(Operand(atom, as)))),
             Operand(Head(e), as), Tail(e))

IsSimpleString(chain) ==
    LET c == Consolidate(chain) IN Len(c) = 1 /\ IsKind(c[1], "lit")
SimpleString(chain) == Consolidate(chain)[1].content

Names(chain) == {chain[i].content : i \in {j \in DOMAIN chain : IsKind(chain[j], "constant")}}

\* Replace the constants whose value is known to be a string.
Substitute(chain, value) ==
    [i \in DOMAIN chain |->
        IF IsKind(chain[i], "constant") /\ chain[i].content \in DOMAIN value
        THEN Lit(value[chain[i].content]) ELSE chain[i]]

\* Strings[n]: the constants a recursion of depth n resolves.
Strings ==
    LET s[n \in 0..Len(SetToSeq(DOMAIN constants))] ==
            IF n = 0 THEN [c \in {} |-> <<>>]
            ELSE LET chain(c) == Substitute(constants[c], s[n - 1])
                     simple   == {c \in DOMAIN constants : IsSimpleString(chain(c))}
                 IN  [c \in simple |-> SimpleString(chain(c))]
    IN  s[Len(SetToSeq(DOMAIN constants))]

\* Mutant of ResolveConstants: a constant is looked up once, not recursively.
ResolveConstantsOnce(chain) ==
    LET simple == {c \in DOMAIN constants : IsSimpleString(constants[c])}
    IN  Substitute(chain, [c \in simple |-> SimpleString(constants[c])])

ResolveConstants(chain) == Substitute(chain, Strings)

\* The constants on which that recursion ends: those defined without a cycle.
Grounded ==
    LET g[n \in 0..Len(SetToSeq(DOMAIN constants))] ==
            IF n = 0 THEN {}
            ELSE {c \in DOMAIN constants :
                     Names(constants[c]) \cap DOMAIN constants \subseteq g[n - 1]}
    IN  g[Len(SetToSeq(DOMAIN constants))]

Endless(chain) == ~(Names(chain) \cap DOMAIN constants \subseteq Grounded)

\* DfsPaths of a chain: inner nodes are rebuilt without their Constant.
DfsPath(chain) ==
    [i \in DOMAIN chain |->
        IF i < Len(chain) /\ IsKind(chain[i], "constant") THEN Lit(<<>>) ELSE chain[i]]

\* What resolveInclude writes: ".*string.*" or ".*(string.*string).*".
Pattern(chain) ==
    LET path == DfsPath(Consolidate(ResolveConstants(chain)))
        text == [i \in DOMAIN path |->
                    IF IsKind(path[i], "lit") THEN path[i].content ELSE <<Wild>>]
    IN  <<Wild>> \o FlattenSeq(text) \o <<Wild>>

-----------------------------------------------------------------------------
Init ==
    /\ project \in Projects
    /\ phase = "constants"
    /\ file = 1
    /\ at = 0
    /\ constants = [c \in {} |-> <<>>]
    /\ assigns = [v \in {} |-> <<>>]
    /\ includes = {}

Walking(p) == phase = p /\ at < Len(project[file])
Statement  == project[file][at + 1]

\* map[key] = value.
Put(map, key, value) ==
    [k \in DOMAIN map \cup {key} |-> IF k = key THEN value ELSE map[k]]

Assign(v, chain) == assigns' = Put(assigns, v, chain)

\* define: the first definition met, in any file, is the one that counts.
Define ==
    /\ Walking("constants") /\ Statement.s = "define"
    /\ constants' =
          IF Statement.x \in DOMAIN constants THEN constants
          ELSE Put(constants, Statement.x,
                   Consolidate(AddLeaf(<<Lit(<<>>)>>, processStringExpr(Statement.e, assigns))))
    /\ at' = at + 1
    /\ UNCHANGED <<project, phase, file, assigns, includes>>

\* $x = e, which both walks record.
AssignVariable ==
    /\ phase \in {"constants", "includes"} /\ Walking(phase) /\ Statement.s = "assign"
    /\ Assign(Statement.x,
              IF phase = "constants" THEN Consolidate(processStringExpr(Statement.e, assigns))
              ELSE processStringExpr(Statement.e, assigns))
    /\ at' = at + 1
    /\ UNCHANGED <<project, phase, file, constants, includes>>

\* $x .= e, which only the first walk records.
AppendVariable ==
    /\ Walking("constants") /\ Statement.s = "append"
    /\ LET old == IF Statement.x \in DOMAIN assigns THEN assigns[Statement.x]
                  ELSE <<Lit(<<>>)>>
       IN  Assign(Statement.x, AddLeaf(old, processStringExpr(Statement.e, assigns)))
    /\ at' = at + 1
    /\ UNCHANGED <<project, phase, file, constants, includes>>

\* include e, in the second walk.
Include ==
    /\ Walking("includes") /\ Statement.s = "include"
    /\ LET chain == processStringExpr(Statement.e, assigns)
       IN  /\ ~Endless(chain)
           /\ includes' = includes \cup
                 {[file |-> file, at |-> at + 1, chain |-> chain, pattern |-> Pattern(chain)]}
    /\ at' = at + 1
    /\ UNCHANGED <<project, phase, file, constants, assigns>>

\* Constants defined by each other: the recursion exhausts the stack.
Overflow ==
    /\ Walking("includes") /\ Statement.s = "include"
    /\ Endless(processStringExpr(Statement.e, assigns))
    /\ phase' = "overflow"
    /\ UNCHANGED <<project, file, at, constants, assigns, includes>>

\* Statements the walk has no case for.
PassOver ==
    /\ \/ Walking("constants") /\ Statement.s = "include"
       \/ Walking("includes") /\ Statement.s \in {"define", "append"}
    /\ at' = at + 1
    /\ UNCHANGED <<project, phase, file, constants, assigns, includes>>

\* Mutant of NextFile: the variables of a file stay for the next one.
NextFileKeepsAssigns ==
    /\ phase \in {"constants", "includes"} /\ at = Len(project[file])
    /\ at' = 0
    /\ IF file < Len(project) THEN file' = file + 1 /\ UNCHANGED phase
       ELSE /\ file' = 1
            /\ phase' = IF phase = "constants" THEN "includes" ELSE "done"
    /\ UNCHANGED <<project, constants, assigns, includes>>

\* The next file of the walk, or the first one of the next walk.
NextFile ==
    /\ phase \in {"constants", "includes"} /\ at = Len(project[file])
    /\ at' = 0
    /\ assigns' = [v \in {} |-> <<>>]
    /\ IF file < Len(project) THEN file' = file + 1 /\ UNCHANGED phase
       ELSE /\ file' = 1
            /\ phase' = IF phase = "constants" THEN "includes" ELSE "done"
    /\ UNCHANGED <<project, constants, includes>>

Next ==
    \/ Define \/ AssignVariable \/ AppendVariable
    \/ Include \/ Overflow \/ PassOver \/ NextFile

Spec == Init /\ [][Next]_vars

-----------------------------------------------------------------------------
(* What the file includes when PHP runs it from the top.                   *)

Defs(c) == {d \in UNION {{f} \X DOMAIN project[f] : f \in DOMAIN project} :
               project[d[1]][d[2]].s = "define" /\ project[d[1]][d[2]].x = c}

\* The last statement before the i-th of file f that gives v a value, or 0.
LastWrite(f, i, v) ==
    LET writes == {j \in 1..(i - 1) : project[f][j].s \in {"assign", "append"}
                                       /\ project[f][j].x = v}
    IN  IF writes = {} THEN 0 ELSE CHOOSE j \in writes : \A k \in writes : k <= j

\* The value of e at the i-th statement of file f, with Wild for what depends
\* on the request or on who includes f.
RECURSIVE Value(_, _, _)
Value(f, i, e) ==
    FlattenSeq([n \in DOMAIN e |->
        CASE e[n].t = "lit"  -> <<e[n].v>>
          [] e[n].t = "dir"  -> <<Dir[f]>>
          [] e[n].t = "call" -> <<Wild>>
          [] e[n].t = "const" ->
                IF Defs(e[n].v) = {} THEN <<Wild>>
                ELSE LET d == CHOOSE d \in Defs(e[n].v) : TRUE
                     IN  Value(d[1], d[2], project[d[1]][d[2]].e)
          [] e[n].t = "var" ->
                LET j == LastWrite(f, i, e[n].v)
                IN  IF j = 0 THEN <<Wild>>
                    ELSE IF project[f][j].s = "assign" THEN Value(f, j, project[f][j].e)
                    ELSE Value(f, j, <<e[n]>> \o project[f][j].e)])

\* Every string of the second pattern is matched by the first.
Covers(pattern, value) ==
    LET m[i \in 1..(Len(pattern) + 1), j \in 1..(Len(value) + 1)] ==
            IF i > Len(pattern) THEN j > Len(value)
            ELSE IF pattern[i] = Wild THEN \E k \in j..(Len(value) + 1) : m[i + 1, k]
            ELSE j <= Len(value) /\ value[j] = pattern[i] /\ m[i + 1, j + 1]
    IN  m[1, 1]

\* Where the walks follow PHP: a constant has one definition, a variable is
\* appended to only after a value was assigned to it and not before an include
\* of its file, and a constant without a known value is not inside a path.
DefinedOnce == \A c \in Constant : \A d1, d2 \in Defs(c) : d1 = d2

AppendsFollowed(f, i) ==
    \A j \in 1..(i - 1) : project[f][j].s # "append"

AppendsToKnown ==
    \A f \in DOMAIN project : \A i \in DOMAIN project[f] :
        project[f][i].s = "append" =>
            LastWrite(f, i, project[f][i].x) # 0

KnownInside(chain) ==
    LET path == Consolidate(ResolveConstants(chain))
    IN  \A i \in 2..(Len(path) - 1) : ~IsKind(path[i], "constant")

Followed(inc) ==
    /\ DefinedOnce
    /\ AppendsToKnown
    /\ AppendsFollowed(inc.file, inc.at)
    /\ KnownInside(inc.chain)

ValueOf(inc) == Value(inc.file, inc.at, project[inc.file][inc.at].e)

-----------------------------------------------------------------------------
NodeOK(node) ==
    \/ node.kind = "lit" /\ node.content \in Seq(Segment)
    \/ node = Dynamic
    \/ node.kind = "constant" /\ node.content \in Constant

ChainOK(chain) == chain # <<>> /\ \A i \in DOMAIN chain : NodeOK(chain[i])

TypeOK ==
    /\ phase \in {"constants", "includes", "done", "overflow"}
    /\ file \in DOMAIN project
    /\ at \in 0..Len(project[file])
    /\ DOMAIN constants \subseteq Constant
    /\ \A c \in DOMAIN constants : ChainOK(constants[c])
    /\ DOMAIN assigns \subseteq Variable
    /\ \A v \in DOMAIN assigns : ChainOK(assigns[v])
    /\ \A inc \in includes : ChainOK(inc.chain) /\ inc.pattern \in Seq(Segment \cup {Wild})

\* Whatever the includes of a file evaluate to when it runs, its patterns
\* match it, through constants defined in any file and variables of its own
\* (include_string.go, const_walker.go, dumper.go lines 149-270).
IncludesCovered ==
    \A inc \in includes : Followed(inc) => Covers(inc.pattern, <<Wild>> \o ValueOf(inc))

\* A path that does not depend on the request gets a pattern without ".*"
\* inside it, so that the file includes no more than it names.
IncludesExact ==
    \A inc \in includes :
        LET value == ValueOf(inc)
        IN  Followed(inc) /\ value \in Seq(Segment) => inc.pattern = <<Wild>> \o value \o <<Wild>>
=============================================================================
