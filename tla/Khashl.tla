------------------------------- MODULE Khashl -------------------------------
(***************************************************************************)
(* The open-addressing hash table of khashl.h: linear probing, deletion by *)
(* shifting entries back, and a resize in place that kicks out entries of  *)
(* the old table.  xap_helper.h keeps its search handles in one and maps   *)
(* root commits with another.  Every iteration of a loop is a step.        *)
(***************************************************************************)
EXTENDS Integers, FiniteSets

CONSTANTS
    Keys,    \* keys, told apart by __hash_eq
    NoKey,   \* an unwritten bucket, or no key at all
    Sizes,   \* bound: bucket counts of a table, powers of two from 4 up
    Hashes   \* the functions __kh_h2b can be: home bucket of a key per size

ASSUME KeyAssumption == IsFiniteSet(Keys) /\ NoKey \notin Keys
ASSUME SizeAssumption == Sizes \subseteq Nat /\ \A n \in Sizes : n >= 4
ASSUME HashAssumption ==
    \A h \in Hashes : h \in [Keys -> [Sizes -> Nat]] /\ \A k \in Keys, n \in Sizes : h[k][n] < n

VARIABLES
    hash,    \* the hash function
    n,       \* kh_capacity: 1 << bits, 0 before the first resize
    used,    \* used: the occupied buckets
    keys,    \* keys; what is left in a free bucket is never read: NoKey
    count,   \* count
    req,     \* the call under way
    pc,      \* its loop
    i, j,    \* i (of del: the hole) and j of that loop; i is last at first
    hand,    \* key of resize: an entry between two buckets
    new_n, new_used,   \* new_n_buckets, new_used
    ret      \* history: what the last call returned

table == <<n, used, keys, count>>
move  == <<hand, new_n, new_used>>
vars  == <<hash, table, req, pc, i, j, move, ret>>

NoRet == <<NoKey, FALSE>>
NoReq == [op |-> "none", key |-> NoKey]
Reqs  == {NoReq} \union [op : {"get", "put", "del"}, key : Keys]
                 \union [op : {"clear", "resize"}, key : {NoKey}]

TypeOK ==
    /\ hash \in Hashes
    /\ n \in Sizes \union {0} /\ new_n \in Sizes \union {0}
    /\ used \in SUBSET (0 .. n - 1) /\ new_used \in SUBSET (0 .. new_n - 1)
    /\ \E m \in Sizes \union {0} : m >= n /\ m >= new_n /\ keys \in [0 .. m - 1 -> Keys \union {NoKey}]
    /\ count \in Nat /\ i \in Nat /\ j \in Nat
    /\ req \in Reqs /\ hand \in Keys \union {NoKey}
    /\ pc \in {"idle", "start", "probe", "shift", "sweep", "kick"}
    /\ ret \in (Keys \union {NoKey}) \X BOOLEAN

Init ==
    /\ hash \in Hashes
    /\ n = 0 /\ used = {} /\ keys = [x \in 0 .. -1 |-> NoKey] /\ count = 0
    /\ req = NoReq /\ pc = "idle" /\ i = 0 /\ j = 0
    /\ hand = NoKey /\ new_n = 0 /\ new_used = {}
    /\ ret = NoRet

-----------------------------------------------------------------------------
h2b(k, m) == hash[k][m]

\* (x + 1) & (m - 1)
Succ(x, m) == IF x + 1 = m THEN 0 ELSE x + 1

\* The entries a table may hold: (m >> 1) + (m >> 2).
Load(m) == (m \div 2) + (m \div 4)

Return(r) == pc' = "idle" /\ req' = NoReq /\ ret' = r /\ i' = 0 /\ j' = 0

Probe == pc' = "probe" /\ i' = h2b(req.key, n) /\ UNCHANGED <<req, j, ret>>

\* A caller of del has the iterator of a key; resize is asked for any size.
Call(r) ==
    /\ pc = "idle" /\ pc' = "start" /\ req' = r /\ ret' = NoRet
    /\ r.op = "del" => \E x \in used : keys[x] = r.key
    /\ UNCHANGED <<hash, table, i, j, move>>

getp_core ==
    /\ pc = "start" /\ req.op = "get"
    /\ IF n = 0 THEN Return(NoRet) ELSE Probe
    /\ UNCHANGED <<hash, table, move>>

putp_core ==
    /\ pc = "start" /\ req.op = "put" /\ count < Load(n)
    /\ Probe
    /\ UNCHANGED <<hash, table, move>>

\* The smallest size not below m.
RoundUp(m, s) == s >= m /\ \A t \in Sizes : t >= m => s <= t

\* resize(m): nothing happens when the entries do not fit; otherwise the
\* buckets are reallocated and the sweep over the old ones begins.
Resize(m) ==
    \E s \in Sizes :
        /\ RoundUp(m, s) /\ count <= Load(s)
        /\ keys' = IF n < s THEN [x \in 0 .. s - 1 |-> IF x < n THEN keys[x] ELSE NoKey] ELSE keys
        /\ pc' = "sweep" /\ j' = 0 /\ new_n' = s /\ new_used' = {}
        /\ UNCHANGED <<hash, n, used, count, req, i, hand, ret>>

PutResize == pc = "start" /\ req.op = "put" /\ count >= Load(n) /\ Resize(n + 1)

ResizeCall == pc = "start" /\ req.op = "resize" /\ \E m \in Sizes : Resize(m)

ResizeNoop ==
    /\ pc = "start" /\ req.op = "resize"
    /\ \E m \in Sizes : count > Load(m)
    /\ Return(NoRet)
    /\ UNCHANGED <<hash, table, move>>

clear ==
    /\ pc = "start" /\ req.op = "clear"
    /\ used' = {} /\ count' = 0 /\ keys' = [x \in DOMAIN keys |-> NoKey]
    /\ Return(NoRet)
    /\ UNCHANGED <<hash, n, move>>

-----------------------------------------------------------------------------
\* The probe loop of getp_core and putp_core.
Other == i \in used /\ keys[i] # req.key

ProbeNext ==
    /\ pc = "probe" /\ Other /\ Succ(i, n) # h2b(req.key, n)
    /\ i' = Succ(i, n)
    /\ UNCHANGED <<hash, table, req, pc, j, move, ret>>

\* The loop is over: at the key, at a free bucket, or all around.
GetEnd ==
    /\ pc = "probe" /\ req.op = "get"
    /\ Other => Succ(i, n) = h2b(req.key, n)
    /\ Return(<<IF i \in used /\ ~Other THEN keys[i] ELSE NoKey, FALSE>>)
    /\ UNCHANGED <<hash, table, move>>

PutEnd ==
    /\ pc = "probe" /\ req.op = "put"
    /\ Other => Succ(i, n) = h2b(req.key, n)
    /\ LET b == IF Other THEN Succ(i, n) ELSE i IN
       IF b \in used
       THEN Return(<<keys[b], FALSE>>) /\ UNCHANGED table
       ELSE /\ keys' = [keys EXCEPT ![b] = req.key]
            /\ used' = used \union {b} /\ count' = count + 1
            /\ Return(<<req.key, TRUE>>)
            /\ UNCHANGED n
    /\ UNCHANGED <<hash, move>>

-----------------------------------------------------------------------------
\* del: the hole i moves on to the next entry j that may fill it.
del ==
    /\ pc = "start" /\ req.op = "del"
    /\ \E x \in used : keys[x] = req.key /\ i' = x /\ j' = x
    /\ pc' = "shift"
    /\ UNCHANGED <<hash, table, req, move, ret>>

Last == Succ(j, n) = i \/ Succ(j, n) \notin used

Bug_MayFill(a, b, h) == b > a /\ (h <= a \/ h > b)

\* Entry b, at home in h, may move to the hole a.
MayFill(a, b, h) == \/ b > a /\ (h <= a \/ h > b)
                    \/ b < a /\ h <= a /\ h > b

Shift ==
    /\ pc = "shift" /\ ~Last
    /\ j' = Succ(j, n)
    /\ IF MayFill(i, j', h2b(keys[j'], n))
       THEN keys' = [keys EXCEPT ![i] = keys[j']] /\ i' = j'
       ELSE UNCHANGED <<keys, i>>
    /\ UNCHANGED <<hash, n, used, count, req, pc, move, ret>>

DelEnd ==
    /\ pc = "shift" /\ Last
    /\ used' = used \ {i} /\ count' = count - 1 /\ keys' = [keys EXCEPT ![i] = NoKey]
    /\ Return(NoRet)
    /\ UNCHANGED <<hash, n, move>>

-----------------------------------------------------------------------------
\* resize: entry j of the old table is taken out of it ...
Sweep ==
    /\ pc = "sweep" /\ j < n
    /\ IF j \in used
       THEN /\ hand' = keys[j] /\ used' = used \ {j} /\ pc' = "kick"
            /\ keys' = [keys EXCEPT ![j] = NoKey]
            /\ i' = h2b(keys[j], new_n) /\ UNCHANGED j
       ELSE j' = j + 1 /\ UNCHANGED <<hand, used, keys, pc, i>>
    /\ UNCHANGED <<hash, n, count, req, new_n, new_used, ret>>

KickNext ==
    /\ pc = "kick" /\ i \in new_used
    /\ i' = Succ(i, new_n)
    /\ UNCHANGED <<hash, table, req, pc, j, move, ret>>

\* The entry found in the bucket is overwritten.
Bug_Place ==
    /\ pc = "kick" /\ i \notin new_used
    /\ new_used' = new_used \union {i}
    /\ keys' = [keys EXCEPT ![i] = hand]
    /\ hand' = NoKey /\ pc' = "sweep" /\ i' = 0 /\ j' = j + 1
    /\ UNCHANGED <<hash, n, used, count, req, new_n, ret>>

\* ... and put into the new one; an entry of the old table found there is
\* next.
Place ==
    /\ pc = "kick" /\ i \notin new_used
    /\ new_used' = new_used \union {i}
    /\ keys' = [keys EXCEPT ![i] = hand]
    /\ IF i < n /\ i \in used
       THEN /\ hand' = keys[i] /\ used' = used \ {i} /\ i' = h2b(keys[i], new_n)
            /\ UNCHANGED <<pc, j>>
       ELSE /\ hand' = NoKey /\ pc' = "sweep" /\ i' = 0 /\ j' = j + 1
            /\ UNCHANGED used
    /\ UNCHANGED <<hash, n, count, req, new_n, ret>>

\* The new table replaces the old one; buckets past its end are given back.
SweepEnd ==
    /\ pc = "sweep" /\ j = n
    /\ n' = new_n /\ used' = new_used /\ new_n' = 0 /\ new_used' = {}
    /\ keys' = [x \in 0 .. new_n - 1 |-> keys[x]]
    /\ IF req.op = "put"
       THEN pc' = "probe" /\ i' = h2b(req.key, new_n) /\ j' = 0 /\ UNCHANGED <<req, ret>>
       ELSE Return(NoRet)
    /\ UNCHANGED <<hash, count, hand>>

Running ==
    \/ getp_core \/ putp_core \/ PutResize \/ ResizeCall \/ ResizeNoop \/ clear
    \/ ProbeNext \/ GetEnd \/ PutEnd \/ del \/ Shift \/ DelEnd
    \/ Sweep \/ KickNext \/ Place \/ SweepEnd

Next == Running \/ \E r \in Reqs \ {NoReq} : Call(r)

\* The loops run without interruption.
Spec == Init /\ [][Next]_vars /\ WF_vars(Running)

-----------------------------------------------------------------------------
\* The buckets from a to b, past the end of the table if need be.
Span(a, b, m) == IF a <= b THEN a .. b ELSE (a .. m - 1) \union (0 .. b)

\* Every entry is found from its home bucket: no bucket on the way is free,
\* whatever was deleted, shifted, kicked out or moved to another size before.
ProbeChain == pc \in {"idle", "probe"} => \A b \in used : Span(h2b(keys[b], n), b, n) \subseteq used

\* The keys of the table: those of the old and the new buckets, the one in
\* hand, and the one that del is about to drop; the hole holds a stale copy.
Contents ==
    {keys[x] : x \in (IF pc = "shift" THEN used \ {i} ELSE used) \union new_used}
        \union ({hand} \ {NoKey})
        \union (IF pc = "shift" THEN {req.key} ELSE {})

KS == INSTANCE KhSet WITH set <- Contents, size <- count

\* The table implements a set, across every resize and deletion: no key is lost
\* or doubled, absent and the returned iterator are right, kh_size counts the
\* keys and every call returns.
IsSet == KS!Spec
=============================================================================
