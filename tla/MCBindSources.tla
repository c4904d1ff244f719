---------------------------- MODULE MCBindSources -----------------------------
(***************************************************************************)
(* Two Sidecars and Main, or two Sidecars; sources that are the same, one  *)
(* below the other, or next to each other; trees in which some of the      *)
(* names exist as something.                                               *)
(***************************************************************************)
EXTENDS BindSources

A == <<"a">>
AB == <<"a", "b">>
AC == <<"a", "c">>
SomePaths == {A, AB, AC}

Sidecar(source, gated) == [source |-> source, gated |-> gated]
MainService == Sidecar(Main, FALSE)

SomePlans ==
    {<<Sidecar(AB, g), Sidecar(s, h), MainService>> : s \in {AB, AC, A}, g, h \in BOOLEAN}
    \cup {<<Sidecar(AB, FALSE), Sidecar(AB, FALSE)>>}

SomeTrees == {[p \in SomePaths |-> IF p = A THEN a ELSE IF p = AB THEN b ELSE "absent"] :
                 a \in Kinds \ {"absent"}, b \in {"absent"}}
             \cup {[p \in SomePaths |-> "absent"]}
             \cup {[p \in SomePaths |-> IF p = A THEN "dir" ELSE IF p = AB THEN b ELSE "absent"] :
                      b \in Kinds}
=============================================================================
