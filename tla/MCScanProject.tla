--------------------------- MODULE MCScanProject ---------------------------
(* Three files; a global class A and its namesake N\A in every distribution  *)
(* over two of them; a third file that names them in each way.               *)
EXTENDS ScanProject, TLC

CONSTANTS lib1, lib2, index, A, N

MCFile == {lib1, lib2, index}
MCIdentifier == {A, N}
MCFunction == {"printf", "fopen"}

NA == [ns |-> N, short |-> A]
Plainly(files) == [kind |-> "plain", matches |-> files]
Includes == {{Plainly({lib1}), Plainly({lib1, lib2})},
             {[kind |-> "letterless", matches |-> MCFile], Plainly({lib2})},
             {[kind |-> "invalid", matches |-> {}], Plainly({lib2})}}
Use(form, class) == [form |-> form, class |-> class]
Uses == {{Use("new", Plain(A))}, {Use("new_fq", NA)}, {Use("new_fq", Plain(A))},
         {Use("use", NA)}, {Use("extends_qualified", NA)},
         {Use("extends", Plain(A)), Use("extends_fq", NA)},
         {Use("static", NA), Use("new", NA)}}

MCProjects ==
    {[parses |-> parses,
      defs |-> (lib1 :> d1 @@ lib2 :> (d2 \cup {Plain(N)}) @@ index :> {}),
      uses |-> (lib1 :> {[form |-> "use", class |-> Plain(N)]} @@ lib2 :> {} @@ index :> u),
      calls |-> (lib1 :> {"fopen"} @@ lib2 :> {} @@ index :> {}),
      includes |-> (lib1 :> {} @@ lib2 :> {} @@ index :> i)] :
        parses \in {MCFile, MCFile \ {lib2}},
        d1 \in SUBSET {Plain(A), NA}, d2 \in SUBSET {Plain(A), NA},
        u \in Uses, i \in Includes}
=============================================================================
