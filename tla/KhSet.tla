------------------------------- MODULE KhSet -------------------------------
(***************************************************************************)
(* What the hash tables of khashl.h promise: a set of keys with one call   *)
(* at a time, answered by the key at the returned iterator.                *)
(***************************************************************************)
EXTENDS FiniteSets

CONSTANTS Keys, NoKey

VARIABLES
    set,   \* the keys of the table
    size,  \* kh_size
    req,   \* the call under way
    ret    \* answer to the last call: key at the iterator, and absent

vars == <<set, size, req, ret>>

NoRet == <<NoKey, FALSE>>
NoReq == [op |-> "none", key |-> NoKey]
Reqs  == {NoReq} \union [op : {"get", "put", "del"}, key : Keys]
                 \union [op : {"clear", "resize"}, key : {NoKey}]

Init == set = {} /\ size = 0 /\ req = NoReq /\ ret = NoRet

Call == req = NoReq /\ req' \in Reqs \ {NoReq} /\ ret' = NoRet /\ UNCHANGED <<set, size>>

\* A call takes effect at once and returns.
Contents(r, s) == CASE r.op = "put"   -> s \union {r.key}
                    [] r.op = "del"   -> s \ {r.key}
                    [] r.op = "clear" -> {}
                    [] OTHER          -> s

Answer(r, s) == CASE r.op = "put" -> <<r.key, r.key \notin s>>
                  [] r.op = "get" -> <<IF r.key \in s THEN r.key ELSE NoKey, FALSE>>
                  [] OTHER        -> NoRet

Return ==
    /\ req # NoReq /\ req' = NoReq
    /\ set' = Contents(req, set) /\ size' = Cardinality(set')
    /\ ret' = Answer(req, set)

Next == Call \/ Return

Safety == Init /\ [][Next]_vars

Spec == Safety /\ WF_vars(Return)
=============================================================================
