------------------------------ MODULE MCGitCat ------------------------------
(* Two objects, one of them empty. *)
EXTENDS GitCat

Objs2 == {1, 2}
Sizes == <<0, 1>>
=============================================================================
