------------------------------ MODULE MCKhashl ------------------------------
(***************************************************************************)
(* Instance of Khashl with every hash function of W bits: __kh_h2b takes   *)
(* the upper bits of the scrambled hash.  Keys are interchangeable, so the *)
(* hashes are in order.                                                    *)
(***************************************************************************)
EXTENDS Khashl

CONSTANTS NKeys, W

MCKeys  == 1 .. NKeys
MCSizes == {2 ^ b : b \in 2 .. W}
MCHashes ==
    {[k \in MCKeys |-> [m \in MCSizes |-> x[k] \div (2 ^ W \div m)]] :
        x \in {y \in [MCKeys -> 0 .. 2 ^ W - 1] : \A a, b \in MCKeys : a < b => y[a] <= y[b]}}
=============================================================================
