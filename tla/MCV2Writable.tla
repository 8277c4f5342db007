---------------------------- MODULE MCV2Writable ----------------------------
(* Messages, Message-IDs and fetched history for V2Writable. *)
EXTENDS V2Writable, TLC

CONSTANTS m1, m2, m3, i1, i2, i3

SameMid == (m1 :> i1) @@ (m2 :> i1)
OwnMid  == (m1 :> i1) @@ (m2 :> i2) @@ (m3 :> i3)

Fresh == << >>

Add(m, k) == [op |-> "m", b |-> [m |-> m, k |-> k]]
Del(m, k) == [op |-> "d", b |-> [m |-> m, k |-> k]]

\* m2 is removed and comes back.
Readded == <<Add(m1, 0), Add(m2, 0), Del(m2, 0), Add(m3, 0), Add(m2, 0)>>
=============================================================================
