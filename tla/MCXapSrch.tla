----------------------------- MODULE MCXapSrch -----------------------------
(* An index of source code with three shards, one of mail with two shards or   *)
(* one; the first leaves no room for the others.                            *)
EXTENDS XapSrch, TLC

CONSTANTS code, mail, k1, k2, k3

KeyIndex == (k1 :> code) @@ (k2 :> mail) @@ (k3 :> mail)
Swaps == (code :> 0) @@ (mail :> 1)
ShardCounts == (k1 :> 3) @@ (k2 :> 2) @@ (k3 :> 1)
=============================================================================
