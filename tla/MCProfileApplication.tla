------------------------ MODULE MCProfileApplication ------------------------
(* Two scripts and two versions of the application: one calls open in its  *)
(* first script, the other finds exec in the file of a class it uses.      *)
EXTENDS ProfileApplication, TLC
CONSTANTS index, lib, open, exec, read, write, close, a1, a2

MCCalls == (a1 :> (index :> {open} @@ lib :> {}))
             @@ (a2 :> (index :> {} @@ lib :> {exec}))
MCIncludes == (a1 :> {<<index, index>>, <<lib, lib>>})
                @@ (a2 :> {<<index, index>>, <<lib, lib>>})
MCClasses == (a1 :> {}) @@ (a2 :> {<<index, lib>>})

Line(fn, words) == [fn |-> fn, words |-> words]
MCMappings == {<<Line(open, {write}), Line(exec, {close})>>, <<Line(open, {close})>>}

\* The numbers have one digit: what is cut off is no digit, which reads as 0.
MCBegun == [n \in Name |-> {read}]
=============================================================================
