---------------------------- MODULE KhashlProofs ----------------------------
(***************************************************************************)
(* Proofs about Khashl, for every set of keys, every set of sizes and      *)
(* every hash function: entries stay reachable by probing (ProbeChain) and *)
(* every step of the table is a step of the set it implements (KhSet) or   *)
(* changes nothing of it.                                                  *)
(***************************************************************************)
EXTENDS Khashl, FiniteSetTheorems, TLAPS

-----------------------------------------------------------------------------
(* The inductive invariant. *)
Resizing == pc \in {"sweep", "kick"}

\* What the buckets of the table are; the hole of del is not one of them.
Hole == IF pc = "shift" THEN {i} ELSE {}
Live == (used \ Hole) \union new_used

\* Types, with as many buckets as the larger of the two tables has.
Allocated == 0 .. (IF new_n > n THEN new_n ELSE n) - 1

Shape ==
    /\ hash \in Hashes
    /\ n \in Sizes \union {0} /\ new_n \in Sizes \union {0}
    /\ used \subseteq 0 .. n - 1 /\ new_used \subseteq 0 .. new_n - 1
    /\ keys \in [Allocated -> Keys \union {NoKey}]
    /\ count \in Nat /\ i \in Nat /\ j \in Nat
    /\ req \in Reqs /\ hand \in Keys \union {NoKey}
    /\ pc \in {"idle", "start", "probe", "shift", "sweep", "kick"}
    /\ ret \in (Keys \union {NoKey}) \X BOOLEAN

\* Which call and which loop go together, and where the loop is.
Phase ==
    /\ pc = "idle" <=> req = NoReq
    /\ pc = "probe" => req.op \in {"get", "put"} /\ i \in 0 .. n - 1
    /\ pc = "shift" => req.op = "del" /\ i \in used /\ j \in used
    /\ Resizing <=> new_n # 0
    /\ Resizing => req.op \in {"put", "resize"}
    /\ pc = "kick" <=> hand # NoKey
    /\ pc = "kick" => i \in 0 .. new_n - 1 /\ j \in 0 .. n - 1
    /\ pc = "sweep" => j \in 0 .. n

\* No key is in two places.
Distinct ==
    /\ used \intersect new_used = {}
    /\ \A b \in used \union new_used : keys[b] \in Keys
    /\ \A a, b \in Live : keys[a] = keys[b] => a = b
    /\ \A b \in Live : keys[b] # hand
    /\ pc = "shift" => \A b \in used \ {i} : keys[b] # req.key
    /\ pc = "start" /\ req.op = "del" => \E x \in used : keys[x] = req.key

Counted ==
    /\ count = Cardinality(used) + Cardinality(new_used) + (IF hand = NoKey THEN 0 ELSE 1)
    /\ Resizing => count < new_n
    /\ pc = "probe" /\ req.op = "put" => count < n

\* What the sweep has passed is no longer in the old table.
Swept ==
    /\ pc = "sweep" => used \subseteq j .. n - 1
    /\ pc = "kick"  => used \subseteq j + 1 .. n - 1

Chains ==
    /\ ~Resizing => \A b \in used \ Hole : Span(h2b(keys[b], n), b, n) \subseteq used
    /\ \A b \in new_used : Span(h2b(keys[b], new_n), b, new_n) \subseteq new_used

\* What the loops have seen.
Searched ==
    pc = "probe" =>
        \A x \in Span(h2b(req.key, n), i, n) \ {i} : x \in used /\ keys[x] # req.key

Kicked == pc = "kick" => Span(h2b(hand, new_n), i, new_n) \ {i} \subseteq new_used

\* Between the hole and j no entry would be cut off by the hole.
Shifted ==
    pc = "shift" =>
        /\ Span(i, j, n) \subseteq used
        /\ \A b \in used \ {i} : i \in Span(h2b(keys[b], n), b, n) => b \notin Span(i, j, n)

KInv ==
    /\ Shape /\ Phase /\ Distinct /\ Counted /\ Swept
    /\ Chains /\ Searched /\ Kicked /\ Shifted

-----------------------------------------------------------------------------
(* Buckets in a circle. *)

\* The buckets from a to b are buckets of the table, both ends included.
LEMMA SpanEnds ==
  ASSUME NEW m \in Nat, NEW a \in 0 .. m - 1, NEW b \in 0 .. m - 1
  PROVE  /\ Span(a, b, m) \subseteq 0 .. m - 1
         /\ a \in Span(a, b, m) /\ b \in Span(a, b, m)
         /\ Span(a, a, m) = {a}
  BY DEF Span

\* The bucket after a bucket is one of the table.
LEMMA SuccBucket ==
  ASSUME NEW m \in Nat, NEW a \in 0 .. m - 1
  PROVE  Succ(a, m) \in 0 .. m - 1
  BY DEF Succ

\* One bucket further, as long as that is not the first one again.
LEMMA SpanGrows ==
  ASSUME NEW m \in Nat, NEW a \in 0 .. m - 1, NEW b \in 0 .. m - 1, Succ(b, m) # a
  PROVE  /\ Span(a, Succ(b, m), m) = Span(a, b, m) \union {Succ(b, m)}
         /\ Succ(b, m) \notin Span(a, b, m)
<1>1. CASE b + 1 = m
  BY <1>1 DEF Span, Succ
<1>2. CASE b + 1 # m
  BY <1>2 DEF Span, Succ
<1> QED  BY <1>1, <1>2

\* Back at the first one: these are all the buckets.
LEMMA SpanAll ==
  ASSUME NEW m \in Nat, NEW a \in 0 .. m - 1, NEW b \in 0 .. m - 1, Succ(b, m) = a
  PROVE  Span(a, b, m) = 0 .. m - 1
<1>1. \A x \in 0 .. m - 1 : x \in Span(a, b, m)
  <2>1. CASE b + 1 = m
    BY <2>1 DEF Span, Succ
  <2>2. CASE b + 1 # m
    BY <2>2 DEF Span, Succ
  <2> QED  BY <2>1, <2>2
<1> QED  BY <1>1, SpanEnds

\* A bucket on the way splits the way.
LEMMA SpanSplit ==
  ASSUME NEW m \in Nat, NEW a \in 0 .. m - 1, NEW b \in 0 .. m - 1, NEW x \in Span(a, b, m)
  PROVE  Span(a, x, m) \subseteq Span(a, b, m) /\ Span(x, b, m) \subseteq Span(a, b, m)
  BY DEF Span

\* Whoever is not between a and b comes after the bucket that follows b.
LEMMA SpanBeyond ==
  ASSUME NEW m \in Nat, NEW a \in 0 .. m - 1, NEW b \in 0 .. m - 1,
         NEW x \in (0 .. m - 1) \ Span(a, b, m)
  PROVE  Succ(b, m) \in Span(a, x, m)
  BY DEF Span, Succ

\* Of two buckets one is on the way to the other.
LEMMA SpanTotal ==
  ASSUME NEW m \in Nat, NEW a \in 0 .. m - 1, NEW x \in 0 .. m - 1, NEW y \in 0 .. m - 1
  PROVE  x \in Span(a, y, m) \/ y \in Span(a, x, m)
  BY DEF Span

\* The test of del says that the hole a is on the way from the home h to b.
LEMMA MayFillMeans ==
  ASSUME NEW m \in Nat, NEW a \in 0 .. m - 1, NEW b \in 0 .. m - 1, NEW h \in 0 .. m - 1, a # b
  PROVE  MayFill(a, b, h) <=> a \in Span(h, b, m)
  BY DEF Span, MayFill

\* A table is never filled to the last bucket.
LEMMA LoadBelow ==
  ASSUME NEW m \in Nat, m >= 4
  PROVE  Load(m) \in Nat /\ Load(m) < m
  BY DEF Load

-----------------------------------------------------------------------------
(* What the types say. *)

\* The home bucket of a key is a bucket.
LEMMA HomeBucket ==
  ASSUME hash \in Hashes, NEW k \in Keys, NEW m \in Sizes
  PROVE  h2b(k, m) \in 0 .. m - 1 /\ m \in Nat /\ m >= 4
<1>1. hash \in [Keys -> [Sizes -> Nat]] /\ hash[k][m] < m
  BY HashAssumption
<1>2. hash[k] \in [Sizes -> Nat]
  BY <1>1
<1>3. hash[k][m] \in Nat
  BY <1>2
<1> QED  BY <1>1, <1>3, SizeAssumption DEF h2b

\* Both tables have finitely many entries.
LEMMA FinitelyMany ==
  ASSUME Shape
  PROVE  /\ IsFiniteSet(used) /\ Cardinality(used) \in Nat
         /\ IsFiniteSet(new_used) /\ Cardinality(new_used) \in Nat
<1>1. n \in Nat /\ new_n \in Nat
  BY SizeAssumption DEF Shape
<1>2. IsFiniteSet(0 .. n - 1) /\ IsFiniteSet(0 .. new_n - 1)
  BY <1>1, FS_Interval
<1>3. IsFiniteSet(used) /\ IsFiniteSet(new_used)
  BY <1>2, FS_Subset DEF Shape
<1> QED  BY <1>3, FS_CardinalityType

\* The calls and their keys.
LEMMA ReqKeys ==
  ASSUME Shape
  PROVE  /\ req.op \in {"get", "put", "del"} => req.key \in Keys
         /\ req = NoReq <=> req.op = "none"
         /\ NoReq \in Reqs
         /\ NoRet \in (Keys \union {NoKey}) \X BOOLEAN
<1>0. NoReq \in Reqs /\ NoRet \in (Keys \union {NoKey}) \X BOOLEAN
  BY DEF Reqs, NoRet
<1>1. CASE req = NoReq
  BY <1>0, <1>1 DEF NoReq
<1>2. CASE req \in [op : {"get", "put", "del"}, key : Keys]
  BY <1>0, <1>2 DEF NoReq
<1>3. CASE req \in [op : {"clear", "resize"}, key : {NoKey}]
  BY <1>0, <1>3 DEF NoReq
<1> QED  BY <1>1, <1>2, <1>3 DEF Shape, Reqs

\* Outside resize there is one table and nothing in hand.
LEMMA OneTable ==
  ASSUME Shape, Phase, ~Resizing
  PROVE  new_n = 0 /\ new_used = {} /\ hand = NoKey
<1>1. new_n = 0
  BY DEF Phase
<1>2. hand = NoKey
  BY DEF Phase, Resizing
<1>3. new_used = {}
  BY <1>1 DEF Shape
<1> QED  BY <1>1, <1>2, <1>3

\* A loop over the table has a table: its size and the home of the key.
LEMMA ProbeHome ==
  ASSUME KInv, pc = "probe"
  PROVE  /\ n \in Sizes /\ n \in Nat /\ i \in 0 .. n - 1 /\ req.key \in Keys
         /\ h2b(req.key, n) \in 0 .. n - 1
<1>1. i \in 0 .. n - 1 /\ req.key \in Keys
  BY ReqKeys DEF KInv, Phase
<1>2. n \in Sizes
  BY <1>1 DEF KInv, Shape
<1> QED  BY <1>1, <1>2, HomeBucket DEF KInv, Shape

\* The loop of put always stops at the key or at a free bucket: the table is
\* not full.
LEMMA PutStops ==
  ASSUME KInv, pc = "probe", req.op = "put", Other => Succ(i, n) = h2b(req.key, n)
  PROVE  ~Other
<1> SUFFICES ASSUME Other PROVE FALSE
  OBVIOUS
<1>1. Span(h2b(req.key, n), i, n) = 0 .. n - 1
  BY ProbeHome, SpanAll
<1>2. 0 .. n - 1 \subseteq used
  BY <1>1 DEF KInv, Searched, Other
<1>3. used = 0 .. n - 1
  BY <1>2 DEF KInv, Shape
<1>4. Cardinality(used) = n
  BY <1>3, FS_Interval, ProbeHome
<1>5. count < n /\ Cardinality(used) <= count
  BY FinitelyMany DEF KInv, Counted
<1> QED  BY <1>4, <1>5, ProbeHome DEF KInv, Shape

\* A probe that ends elsewhere than at the key has shown its absence.
LEMMA Absent ==
  ASSUME KInv, pc = "probe", Other => Succ(i, n) = h2b(req.key, n),
         ~(i \in used /\ keys[i] = req.key)
  PROVE  \A x \in used : keys[x] # req.key
<1> SUFFICES ASSUME NEW x \in used, keys[x] = req.key PROVE FALSE
  OBVIOUS
<1> DEFINE h == h2b(req.key, n)
<1>1. x \in 0 .. n - 1 /\ h \in 0 .. n - 1 /\ i \in 0 .. n - 1 /\ n \in Nat
  BY ProbeHome DEF KInv, Shape
<1>2. x \notin Span(h, i, n) \ {i} /\ x # i
  BY DEF KInv, Searched
<1>3. i \in Span(h, x, n)
  BY <1>1, <1>2, SpanTotal
<1>4. Span(h, x, n) \subseteq used
  BY DEF KInv, Chains, Resizing, Hole
<1>5. Other
  BY <1>3, <1>4 DEF Other
<1>6. x \in Span(h, i, n)
  BY <1>1, <1>5, SpanAll
<1> QED  BY <1>2, <1>6

\* The buckets del works on.
LEMMA ShiftBuckets ==
  ASSUME KInv, pc = "shift"
  PROVE  /\ n \in Sizes /\ n \in Nat /\ i \in 0 .. n - 1 /\ j \in 0 .. n - 1
         /\ i \in used /\ j \in used /\ Succ(j, n) \in 0 .. n - 1
         /\ new_n = 0 /\ new_used = {} /\ hand = NoKey
         /\ keys \in [0 .. n - 1 -> Keys \union {NoKey}]
         /\ \A b \in used : b \in 0 .. n - 1 /\ keys[b] \in Keys /\ h2b(keys[b], n) \in 0 .. n - 1
<1>1. i \in 0 .. n - 1 /\ j \in 0 .. n - 1 /\ i \in used /\ j \in used
  BY DEF KInv, Phase, Shape
<1>2. n \in Sizes /\ n \in Nat
  BY <1>1, SizeAssumption DEF KInv, Shape
<1>3. new_n = 0 /\ new_used = {} /\ hand = NoKey
  BY OneTable DEF KInv, Resizing
<1>4. keys \in [0 .. n - 1 -> Keys \union {NoKey}]
  BY <1>2, <1>3 DEF KInv, Shape, Allocated
<1>5. \A b \in used : b \in 0 .. n - 1 /\ keys[b] \in Keys
  BY DEF KInv, Shape, Distinct
<1>6. \A b \in used : h2b(keys[b], n) \in 0 .. n - 1
  BY <1>2, <1>5, HomeBucket DEF KInv, Shape
<1> QED  BY <1>1, <1>2, <1>3, <1>4, <1>5, <1>6, SuccBucket

\* The buckets resize works on.
LEMMA ResizeBuckets ==
  ASSUME KInv, Resizing
  PROVE  /\ n \in Nat /\ new_n \in Sizes /\ new_n \in Nat /\ j \in Nat
         /\ \A k \in Keys : h2b(k, new_n) \in 0 .. new_n - 1
         /\ \A b \in 0 .. n - 1 : b \in Allocated
         /\ \A b \in 0 .. new_n - 1 : b \in Allocated
         /\ keys \in [Allocated -> Keys \union {NoKey}]
<1>1. n \in Nat /\ new_n \in Sizes /\ new_n \in Nat /\ j \in Nat
  BY SizeAssumption DEF KInv, Phase, Shape
<1>2. \A k \in Keys : h2b(k, new_n) \in 0 .. new_n - 1
  BY <1>1, HomeBucket DEF KInv, Shape
<1> QED  BY <1>1, <1>2 DEF KInv, Shape, Allocated

\* resize begins: the old table is whole, the new one empty and large enough.
LEMMA Inv_Resize ==
  ASSUME KInv, pc = "start", req.op \in {"put", "resize"}, NEW m \in Nat, Resize(m)
  PROVE  KInv'
<1>1. PICK s \in Sizes :
        /\ count <= Load(s)
        /\ keys' = IF n < s THEN [x \in 0 .. s - 1 |-> IF x < n THEN keys[x] ELSE NoKey] ELSE keys
        /\ pc' = "sweep" /\ j' = 0 /\ new_n' = s /\ new_used' = {}
        /\ UNCHANGED <<hash, n, used, count, req, i, hand, ret>>
  BY DEF Resize
<1>2. /\ s \in Nat /\ s >= 4 /\ n \in Nat /\ count < s
      /\ new_n = 0 /\ new_used = {} /\ hand = NoKey
      /\ keys \in [0 .. n - 1 -> Keys \union {NoKey}]
  <2>1. s \in Nat /\ s >= 4 /\ n \in Nat
    BY SizeAssumption DEF KInv, Shape
  <2>2. new_n = 0 /\ new_used = {} /\ hand = NoKey
    BY OneTable DEF KInv, Resizing
  <2> QED  BY <1>1, <2>1, <2>2, LoadBelow DEF KInv, Shape, Allocated
<1>3. keys' \in [Allocated' -> Keys \union {NoKey}] /\ \A b \in used : keys'[b] = keys[b]
  <2>1. Allocated' = 0 .. (IF s > n THEN s ELSE n) - 1
    BY <1>1 DEF Allocated
  <2>2. CASE n < s
    BY <1>1, <1>2, <2>1, <2>2 DEF KInv, Shape
  <2>3. CASE ~(n < s)
    BY <1>1, <1>2, <2>1, <2>3
  <2> QED  BY <2>2, <2>3
<1>4. Shape'
  BY <1>1, <1>2, <1>3 DEF KInv, Shape
<1>5. Phase'
  BY <1>1, <1>2, ReqKeys DEF KInv, Phase, Resizing
<1>6. Distinct'
  <2>1. Live' = used /\ used' = used /\ new_used' = {} /\ hand' = NoKey
    BY <1>1, <1>2 DEF Live, Hole
  <2>2. \A a, b \in used : keys[a] \in Keys /\ (keys[a] = keys[b] => a = b)
    BY <1>2 DEF KInv, Distinct, Live, Hole
  <2> QED  BY <1>1, <1>3, <2>1, <2>2, KeyAssumption DEF Distinct
<1>7. Counted'
  BY <1>1, <1>2 DEF KInv, Counted, Resizing
<1>8. Swept'
  BY <1>1, <1>2 DEF KInv, Shape, Swept
<1>9. Chains' /\ Searched' /\ Kicked' /\ Shifted'
  BY <1>1 DEF Chains, Resizing, Searched, Kicked, Shifted
<1> QED  BY <1>4, <1>5, <1>6, <1>7, <1>8, <1>9 DEF KInv

-----------------------------------------------------------------------------
\* A call begins.
LEMMA Inv_Call ==
  ASSUME KInv, NEW r \in Reqs \ {NoReq}, Call(r)
  PROVE  KInv'
<1>1. Shape'
  BY ReqKeys DEF KInv, Shape, Phase, Resizing, Call, table, move, Allocated
<1>2. Phase'
  BY DEF KInv, Call, table, move, Phase, Resizing
<1>3. Distinct'
  BY DEF KInv, Call, table, move, Distinct, Live, Hole
<1>4. Counted'
  BY DEF KInv, Call, table, move, Counted, Resizing
<1>5. Swept'
  BY DEF KInv, Call, table, move, Swept
<1>6. Chains'
  BY DEF KInv, Call, table, move, Chains, Resizing, Hole, h2b
<1>7. Searched'
  BY DEF KInv, Call, table, move, Searched, h2b
<1>8. Kicked'
  BY DEF KInv, Call, table, move, Kicked, h2b
<1>9. Shifted'
  BY DEF KInv, Call, table, move, Shifted, h2b
<1> QED  BY <1>1, <1>2, <1>3, <1>4, <1>5, <1>6, <1>7, <1>8, <1>9 DEF KInv

\* get begins.
LEMMA Inv_getp_core ==
  ASSUME KInv, getp_core
  PROVE  KInv'
<1>0. n # 0 => n \in Nat /\ h2b(req.key, n) \in 0 .. n - 1
  BY ReqKeys, HomeBucket DEF KInv, Shape, getp_core
<1>1. Shape'
  BY <1>0, ReqKeys DEF KInv, getp_core, Return, Probe, table, move, Shape, Allocated
<1>2. Phase'
  BY <1>0, ReqKeys DEF KInv, Shape, Phase, Resizing, getp_core, Return, Probe, table, move
<1>3. Distinct'
  BY DEF KInv, getp_core, Return, Probe, table, move, Distinct, Live, Hole
<1>4. Counted'
  BY DEF KInv, getp_core, Return, Probe, table, move, Counted, Resizing
<1>5. Swept'
  BY DEF KInv, getp_core, Return, Probe, table, move, Swept
<1>6. Chains'
  BY DEF KInv, getp_core, Return, Probe, table, move, Chains, Resizing, Hole, h2b
<1>7. Searched'
  <2> SUFFICES ASSUME pc' = "probe" PROVE Searched'
    BY DEF Searched
  <2>1. n # 0 /\ i' = h2b(req.key, n) /\ UNCHANGED <<hash, n, used, keys, req>>
    BY <1>0 DEF getp_core, Probe, Return, table
  <2>2. Span(h2b(req.key, n), i', n) \ {i'} = {}
    BY <1>0, <2>1, SpanEnds
  <2> QED  BY <2>1, <2>2 DEF Searched, h2b
<1>8. Kicked'
  BY DEF KInv, getp_core, Return, Probe, table, move, Kicked, h2b
<1>9. Shifted'
  BY DEF KInv, getp_core, Return, Probe, table, move, Shifted, h2b
<1> QED  BY <1>1, <1>2, <1>3, <1>4, <1>5, <1>6, <1>7, <1>8, <1>9 DEF KInv

\* put begins, in a table with room.
LEMMA Inv_putp_core ==
  ASSUME KInv, putp_core
  PROVE  KInv'
<1>0. n \in Sizes /\ n \in Nat /\ h2b(req.key, n) \in 0 .. n - 1 /\ n # 0 /\ count < n
  <2>1. n # 0
    BY DEF KInv, Shape, putp_core, Load
  <2>2. n \in Sizes /\ n \in Nat /\ n >= 4
    BY <2>1, SizeAssumption DEF KInv, Shape
  <2>3. count < n
    BY <2>2, LoadBelow DEF KInv, Shape, putp_core
  <2> QED  BY <2>1, <2>2, <2>3, ReqKeys, HomeBucket DEF KInv, Shape, putp_core
<1>1. Shape'
  BY <1>0, ReqKeys DEF KInv, putp_core, Probe, table, move, Shape, Allocated
<1>2. Phase'
  BY <1>0, ReqKeys DEF KInv, Shape, Phase, Resizing, putp_core, Probe, table, move
<1>3. Distinct'
  BY DEF KInv, putp_core, Probe, table, move, Distinct, Live, Hole
<1>4. Counted'
  BY <1>0 DEF KInv, Resizing, putp_core, Probe, table, move, Counted
<1>5. Swept'
  BY DEF KInv, putp_core, Probe, table, move, Swept
<1>6. Chains'
  BY DEF KInv, putp_core, Probe, table, move, Chains, Resizing, Hole, h2b
<1>7. Searched'
  <2> SUFFICES ASSUME pc' = "probe" PROVE Searched'
    BY DEF Searched
  <2>1. n # 0 /\ i' = h2b(req.key, n) /\ UNCHANGED <<hash, n, used, keys, req>>
    BY <1>0 DEF putp_core, Probe, Return, table
  <2>2. Span(h2b(req.key, n), i', n) \ {i'} = {}
    BY <1>0, <2>1, SpanEnds
  <2> QED  BY <2>1, <2>2 DEF Searched, h2b
<1>8. Kicked'
  BY DEF KInv, putp_core, Probe, table, move, Kicked, h2b
<1>9. Shifted'
  BY DEF KInv, putp_core, Probe, table, move, Shifted, h2b
<1> QED  BY <1>1, <1>2, <1>3, <1>4, <1>5, <1>6, <1>7, <1>8, <1>9 DEF KInv

\* resize of a table that is too full.
LEMMA Inv_ResizeNoop ==
  ASSUME KInv, ResizeNoop
  PROVE  KInv'
<1>1. Shape'
  BY ReqKeys DEF KInv, Shape, Phase, Resizing, ResizeNoop, Return, table, move, Allocated
<1>2. Phase'
  BY DEF KInv, ResizeNoop, Return, table, move, Phase, Resizing
<1>3. Distinct'
  BY DEF KInv, ResizeNoop, Return, table, move, Distinct, Live, Hole
<1>4. Counted'
  BY DEF KInv, ResizeNoop, Return, table, move, Counted, Resizing
<1>5. Swept'
  BY DEF KInv, ResizeNoop, Return, table, move, Swept
<1>6. Chains'
  BY DEF KInv, ResizeNoop, Return, table, move, Chains, Resizing, Hole, h2b
<1>7. Searched'
  BY DEF KInv, ResizeNoop, Return, table, move, Searched, h2b
<1>8. Kicked'
  BY DEF KInv, ResizeNoop, Return, table, move, Kicked, h2b
<1>9. Shifted'
  BY DEF KInv, ResizeNoop, Return, table, move, Shifted, h2b
<1> QED  BY <1>1, <1>2, <1>3, <1>4, <1>5, <1>6, <1>7, <1>8, <1>9 DEF KInv

\* One bucket further: it is used, by another key.
LEMMA Inv_ProbeNext ==
  ASSUME KInv, ProbeNext
  PROVE  KInv'
<1>0. /\ n \in Nat /\ i \in 0 .. n - 1 /\ h2b(req.key, n) \in 0 .. n - 1
      /\ Succ(i, n) \in 0 .. n - 1
  BY ProbeHome, SuccBucket DEF ProbeNext
<1>1. Shape'
  BY <1>0 DEF KInv, ProbeNext, table, move, Shape, Allocated
<1>2. Phase'
  BY <1>0 DEF KInv, Phase, Resizing, ProbeNext, table, move
<1>3. Distinct'
  BY DEF KInv, ProbeNext, Other, table, move, Distinct, Live, Hole
<1>4. Counted'
  BY DEF KInv, ProbeNext, Other, table, move, Counted, Resizing
<1>5. Swept'
  BY DEF KInv, ProbeNext, Other, table, move, Swept
<1>6. Chains'
  BY DEF KInv, ProbeNext, Other, table, move, Chains, Resizing, Hole, h2b
<1>7. Searched'
  <2>1. Span(h2b(req.key, n), Succ(i, n), n) = Span(h2b(req.key, n), i, n) \union {Succ(i, n)}
    BY <1>0, SpanGrows DEF ProbeNext
  <2>2. \A x \in Span(h2b(req.key, n), Succ(i, n), n) \ {Succ(i, n)} : x \in used /\ keys[x] # req.key
    BY <2>1 DEF KInv, Searched, ProbeNext, Other
  <2> QED  BY <2>2 DEF Searched, ProbeNext, table, h2b
<1>8. Kicked'
  BY DEF KInv, ProbeNext, Other, table, move, Kicked, h2b
<1>9. Shifted'
  BY DEF KInv, ProbeNext, Other, table, move, Shifted, h2b
<1> QED  BY <1>1, <1>2, <1>3, <1>4, <1>5, <1>6, <1>7, <1>8, <1>9 DEF KInv

\* get ends.
LEMMA Inv_GetEnd ==
  ASSUME KInv, GetEnd
  PROVE  KInv'
<1>1. Shape'
  BY ReqKeys DEF KInv, Shape, Phase, Resizing, GetEnd, Other, Return, table, move, Allocated
<1>2. Phase'
  BY DEF KInv, GetEnd, Other, Return, table, move, Phase, Resizing
<1>3. Distinct'
  BY DEF KInv, GetEnd, Other, Return, table, move, Distinct, Live, Hole
<1>4. Counted'
  BY DEF KInv, GetEnd, Other, Return, table, move, Counted, Resizing
<1>5. Swept'
  BY DEF KInv, GetEnd, Other, Return, table, move, Swept
<1>6. Chains'
  BY DEF KInv, GetEnd, Other, Return, table, move, Chains, Resizing, Hole, h2b
<1>7. Searched'
  BY DEF KInv, GetEnd, Other, Return, table, move, Searched, h2b
<1>8. Kicked'
  BY DEF KInv, GetEnd, Other, Return, table, move, Kicked, h2b
<1>9. Shifted'
  BY DEF KInv, GetEnd, Other, Return, table, move, Shifted, h2b
<1> QED  BY <1>1, <1>2, <1>3, <1>4, <1>5, <1>6, <1>7, <1>8, <1>9 DEF KInv

\* put ends: at the key, or with a new entry that closes the chain it was probed along.
LEMMA Inv_PutEnd ==
  ASSUME KInv, PutEnd
  PROVE  KInv'
<1>0. /\ n \in Sizes /\ n \in Nat /\ i \in 0 .. n - 1 /\ req.key \in Keys
      /\ new_n = 0 /\ new_used = {} /\ hand = NoKey /\ pc = "probe" /\ req.op = "put"
      /\ keys \in [0 .. n - 1 -> Keys \union {NoKey}]
  BY ProbeHome, OneTable DEF KInv, Resizing, PutEnd, Shape, Allocated
<1>a. ~Other
  BY PutStops DEF PutEnd
<1>b. CASE i \in used
  <2>1. UNCHANGED <<hash, table, move>> /\ Return(<<keys[i], FALSE>>) /\ keys[i] \in Keys
    BY <1>a, <1>b DEF PutEnd, KInv, Distinct
  <2>2. Shape'
    BY <2>1, ReqKeys DEF KInv, Return, table, move, Shape, Allocated
  <2>3. Phase'
    BY <1>0, <2>1, ReqKeys DEF KInv, Shape, Phase, Resizing, Return, table, move
  <2>4. Distinct'
    BY <1>0, <2>1, ReqKeys DEF KInv, Shape, Distinct, Live, Hole, Return, table, move
  <2>5. Counted' /\ Swept' /\ Searched' /\ Kicked' /\ Shifted'
    BY <1>0, <2>1 DEF KInv, Counted, Resizing, Swept, Searched, Kicked, Shifted, Return, table, move
  <2>6. Chains'
    BY <1>0, <2>1 DEF KInv, Chains, Resizing, Hole, Return, table, move, h2b
  <2> QED  BY <2>2, <2>3, <2>4, <2>5, <2>6 DEF KInv
<1>c. CASE i \notin used
  <2>1. /\ keys' = [keys EXCEPT ![i] = req.key] /\ used' = used \union {i} /\ count' = count + 1
        /\ Return(<<req.key, TRUE>>) /\ UNCHANGED <<hash, n, move>>
    BY <1>a, <1>c DEF PutEnd
  <2>2. Shape'
    <3>1. keys' \in [0 .. n - 1 -> Keys \union {NoKey}]
      BY <1>0, <2>1
    <3>2. <<req.key, TRUE>> \in (Keys \union {NoKey}) \X BOOLEAN
      BY <1>0
    <3>3. Allocated' = 0 .. n - 1
      BY <1>0, <2>1 DEF Allocated, move
    <3>4. used' \subseteq 0 .. n - 1 /\ count' \in Nat
      BY <1>0, <2>1 DEF KInv, Shape
    <3> QED  BY <1>0, <2>1, <3>1, <3>2, <3>3, <3>4, ReqKeys DEF KInv, Return, move, Shape
  <2>3. Phase'
    BY <1>0, <2>1, ReqKeys DEF KInv, Shape, Phase, Resizing, Return, move
  <2>4. Distinct'
    <3>1. \A x \in used : keys[x] # req.key
      BY <1>0, <1>c, Absent DEF PutEnd
    <3>2. /\ keys'[i] = req.key
          /\ \A x \in used : keys'[x] = keys[x] /\ keys[x] \in Keys /\ x # i
          /\ \A x, y \in used : keys[x] = keys[y] => x = y
      BY <1>0, <1>c, <2>1 DEF KInv, Shape, Distinct, Live, Hole
    <3>3. pc' = "idle" /\ hand' = NoKey /\ new_used' = {}
      BY <1>0, <2>1 DEF Return, move
    <3> QED  BY <1>0, <2>1, <3>1, <3>2, <3>3, KeyAssumption DEF Distinct, Live, Hole
  <2>5. Counted'
    <3>1. Cardinality(used') = Cardinality(used) + 1
      BY <1>c, <2>1, FinitelyMany, FS_AddElement DEF KInv
    <3>2. Cardinality(used) \in Nat
      BY FinitelyMany DEF KInv
    <3>3. pc' = "idle" /\ hand' = NoKey /\ new_used' = {} /\ count' = count + 1
      BY <1>0, <2>1 DEF Return, move
    <3>4. count = Cardinality(used) /\ Cardinality({}) = 0
      BY <1>0, <3>2, FS_EmptySet DEF KInv, Counted
    <3> QED  BY <3>1, <3>2, <3>3, <3>4 DEF Counted, Resizing
  <2>6. Chains'
    <3>1. \A b \in used : Span(h2b(keys[b], n), b, n) \subseteq used /\ keys'[b] = keys[b]
      BY <1>0, <1>c, <2>1 DEF KInv, Shape, Chains, Resizing, Hole
    <3>2. Span(h2b(req.key, n), i, n) \subseteq used' /\ keys'[i] = req.key
      BY <1>0, <2>1 DEF KInv, Searched
    <3> QED  BY <1>0, <2>1, <3>1, <3>2 DEF Chains, Hole, Return, move, h2b
  <2>7. Swept' /\ Searched' /\ Kicked' /\ Shifted'
    BY <2>1 DEF Swept, Searched, Kicked, Shifted, Return
  <2> QED  BY <2>2, <2>3, <2>4, <2>5, <2>6, <2>7 DEF KInv
<1> QED  BY <1>b, <1>c

\* clear.
LEMMA Inv_clear ==
  ASSUME KInv, clear
  PROVE  KInv'
<1>0. new_n = 0 /\ new_used = {} /\ hand = NoKey
  BY OneTable DEF KInv, Resizing, clear
<1>1. Shape'
  BY ReqKeys DEF KInv, Shape, Phase, Resizing, clear, Return, move, Allocated
<1>2. Phase'
  BY DEF KInv, clear, Return, move, Phase, Resizing
<1>3. Distinct'
  BY <1>0 DEF clear, Return, move, Distinct, Live, Hole
<1>4. Counted'
  BY <1>0, FS_EmptySet DEF clear, Return, move, Counted, Resizing
<1>5. Swept'
  BY DEF KInv, clear, Return, move, Swept
<1>6. Chains'
  BY DEF KInv, Shape, Phase, Resizing, clear, Return, move, Chains, Hole, h2b
<1>7. Searched'
  BY DEF KInv, clear, Return, move, Searched, h2b
<1>8. Kicked'
  BY DEF KInv, clear, Return, move, Kicked, h2b
<1>9. Shifted'
  BY DEF KInv, clear, Return, move, Shifted, h2b
<1> QED  BY <1>1, <1>2, <1>3, <1>4, <1>5, <1>6, <1>7, <1>8, <1>9 DEF KInv

\* del begins with the bucket of its key as the hole.
LEMMA Inv_del ==
  ASSUME KInv, del
  PROVE  KInv'
<1>1. Shape'
  BY DEF KInv, del, table, move, Shape, Allocated
<1>2. Phase'
  BY DEF KInv, del, table, move, Phase, Resizing
<1>3. Distinct'
  BY DEF KInv, del, table, move, Distinct, Live, Hole
<1>4. Counted'
  BY DEF KInv, del, table, move, Counted, Resizing
<1>5. Swept'
  BY DEF KInv, del, table, move, Swept
<1>6. Chains'
  BY DEF KInv, del, table, move, Chains, Resizing, Hole, h2b
<1>7. Searched'
  BY DEF KInv, del, table, move, Searched, h2b
<1>8. Kicked'
  BY DEF KInv, del, table, move, Kicked, h2b
<1>9. Shifted'
  <2>1. PICK x \in used : i' = x /\ j' = x
    BY DEF del
  <2>2. n \in Nat /\ x \in 0 .. n - 1
    BY SizeAssumption DEF KInv, Shape
  <2>3. Span(x, x, n) = {x}
    BY <2>2, SpanEnds
  <2> QED  BY <2>1, <2>3 DEF Shifted, del, table
<1> QED  BY <1>1, <1>2, <1>3, <1>4, <1>5, <1>6, <1>7, <1>8, <1>9 DEF KInv

\* An entry whose way from home crosses the hole fills it; any other stays reachable.
LEMMA Inv_Shift ==
  ASSUME KInv, Shift
  PROVE  KInv'
<1> DEFINE q == Succ(j, n)
           Fill == MayFill(i, q, h2b(keys[q], n))
<1>0. /\ pc = "shift" /\ q \in used /\ q # i /\ j' = q
      /\ IF Fill THEN keys' = [keys EXCEPT ![i] = keys[q]] /\ i' = q ELSE UNCHANGED <<keys, i>>
      /\ UNCHANGED <<hash, n, used, count, req, pc, move, ret>>
  BY DEF Shift, Last
<1>a. /\ n \in Sizes /\ n \in Nat /\ i \in 0 .. n - 1 /\ j \in 0 .. n - 1 /\ q \in 0 .. n - 1
      /\ i \in used /\ new_n = 0 /\ new_used = {} /\ hand = NoKey
      /\ keys \in [0 .. n - 1 -> Keys \union {NoKey}]
      /\ \A b \in used : b \in 0 .. n - 1 /\ keys[b] \in Keys /\ h2b(keys[b], n) \in 0 .. n - 1
  BY <1>0, ShiftBuckets
<1>b. Fill <=> i \in Span(h2b(keys[q], n), q, n)
  BY <1>0, <1>a, MayFillMeans
<1> HIDE DEF q, Fill
<1>c. /\ i' \in used /\ i' \in 0 .. n - 1
      /\ keys' \in [0 .. n - 1 -> Keys \union {NoKey}]
      /\ Fill => i' = q /\ keys'[i] = keys[q] /\ \A b \in used \ {i} : keys'[b] = keys[b]
      /\ ~Fill => i' = i /\ keys' = keys
  BY <1>0, <1>a
<1>1. Shape'
  BY <1>0, <1>a, <1>c DEF KInv, Shape, Allocated, move
<1>2. Phase'
  BY <1>0, <1>a, <1>c DEF KInv, Phase, Resizing, move
<1>3. Distinct'
  <2>1. \A a, b \in used \ {i} : keys[a] = keys[b] => a = b
    BY <1>0 DEF KInv, Distinct, Live, Hole
  <2>2. \A b \in used \ {i} : keys[b] # req.key
    BY <1>0 DEF KInv, Distinct
  <2>3. /\ \A b \in used : keys'[b] \in Keys
        /\ \A a, b \in used \ {i'} : keys'[a] = keys'[b] => a = b
        /\ \A b \in used \ {i'} : keys'[b] # req.key
    <3>1. CASE Fill
      BY <1>0, <1>a, <1>c, <2>1, <2>2, <3>1
    <3>2. CASE ~Fill
      BY <1>0, <1>a, <1>c, <2>1, <2>2, <3>2
    <3> QED  BY <3>1, <3>2
  <2> QED  BY <1>0, <1>a, <2>3, KeyAssumption DEF Distinct, Live, Hole, move
<1>4. Counted'
  BY <1>0 DEF KInv, Counted, Resizing, move
<1>5. Swept'
  BY <1>0 DEF Swept
<1>6. Chains'
  <2>1. \A b \in used \ {i} : Span(h2b(keys[b], n), b, n) \subseteq used
    BY <1>0 DEF KInv, Chains, Resizing, Hole
  <2>2. Fill => Span(h2b(keys[q], n), i, n) \subseteq used
    BY <1>0, <1>a, <1>b, <2>1, SpanSplit
  <2>3. \A b \in used \ {i'} : Span(h2b(keys'[b], n), b, n) \subseteq used
    BY <1>0, <1>c, <2>1, <2>2
  <2> QED  BY <1>0, <1>a, <2>3 DEF Chains, Hole, move, h2b
<1>7. Searched'
  BY <1>0 DEF Searched
<1>8. Kicked'
  BY <1>0 DEF Kicked
<1>9. Shifted'
  <2>1. CASE Fill
    <3>1. Span(q, q, n) = {q}
      BY <1>a, SpanEnds
    <3> QED  BY <1>0, <1>c, <2>1, <3>1 DEF Shifted
  <2>2. CASE ~Fill
    <3>1. Span(i, q, n) = Span(i, j, n) \union {q}
      BY <1>0, <1>a, SpanGrows DEF q
    <3>2. i \notin Span(h2b(keys[q], n), q, n)
      BY <1>b, <2>2
    <3>3. /\ Span(i, j, n) \subseteq used
          /\ \A b \in used \ {i} : i \in Span(h2b(keys[b], n), b, n) => b \notin Span(i, j, n)
      BY <1>0 DEF KInv, Shifted
    <3>4. /\ Span(i, q, n) \subseteq used
          /\ \A b \in used \ {i} : i \in Span(h2b(keys[b], n), b, n) => b \notin Span(i, q, n)
      BY <1>0, <3>1, <3>2, <3>3
    <3> QED  BY <1>0, <1>c, <2>2, <3>4 DEF Shifted, h2b
  <2> QED  BY <2>1, <2>2
<1> QED  BY <1>1, <1>2, <1>3, <1>4, <1>5, <1>6, <1>7, <1>8, <1>9 DEF KInv

\* The hole is freed when no entry is on the far side of it.
LEMMA Inv_DelEnd ==
  ASSUME KInv, DelEnd
  PROVE  KInv'
<1>0. /\ n \in Sizes /\ n \in Nat /\ i \in 0 .. n - 1 /\ j \in 0 .. n - 1
      /\ i \in used /\ Succ(j, n) \in 0 .. n - 1
      /\ new_n = 0 /\ new_used = {} /\ hand = NoKey /\ pc = "shift"
      /\ keys \in [0 .. n - 1 -> Keys \union {NoKey}]
      /\ \A b \in used : b \in 0 .. n - 1 /\ keys[b] \in Keys /\ h2b(keys[b], n) \in 0 .. n - 1
  BY ShiftBuckets DEF DelEnd
<1>a. count = Cardinality(used) /\ Cardinality(used) \in Nat /\ Cardinality(used \ {i}) \in Nat
      /\ Cardinality(used \ {i}) = Cardinality(used) - 1
  <2>1. IsFiniteSet(used) /\ Cardinality(used) \in Nat
    BY FinitelyMany DEF KInv
  <2>2. count = Cardinality(used)
    BY <1>0, <2>1, FS_EmptySet DEF KInv, Counted
  <2>3. IsFiniteSet(used \ {i}) /\ Cardinality(used \ {i}) = Cardinality(used) - 1
    BY <1>0, <2>1, FS_RemoveElement
  <2> QED  BY <2>1, <2>2, <2>3, FS_CardinalityType
<1>1. Shape'
  <2>1. keys' \in [0 .. n - 1 -> Keys \union {NoKey}]
    BY <1>0 DEF DelEnd
  <2>2. count' \in Nat
    BY <1>a DEF DelEnd
  <2> QED  BY <1>0, <2>1, <2>2, ReqKeys DEF KInv, DelEnd, Return, move, Shape, Allocated
<1>2. Phase'
  BY DEF KInv, DelEnd, Last, Return, move, Phase, Resizing
<1>3. Distinct'
  BY DEF KInv, Shape, Phase, Resizing, DelEnd, Last, Return, move, Distinct, Live, Hole
<1>4. Counted'
  <2>1. pc' = "idle" /\ hand' = NoKey /\ new_used' = {} /\ used' = used \ {i} /\ count' = count - 1
    BY <1>0 DEF DelEnd, Return, move
  <2> QED  BY <1>a, <2>1, FS_EmptySet DEF Counted, Resizing
<1>5. Swept'
  BY DEF KInv, DelEnd, Last, Return, move, Swept
<1>6. Chains'
  <2>1. \A b \in used \ {i} : Span(h2b(keys[b], n), b, n) \subseteq used
    BY <1>0 DEF KInv, Chains, Resizing, Hole
  <2>2. ASSUME NEW b \in used \ {i}, i \in Span(h2b(keys[b], n), b, n)
        PROVE  FALSE
    <3>1. b \notin Span(i, j, n)
      BY <1>0, <2>2 DEF KInv, Shifted
    <3>2. Succ(j, n) # i
      BY <1>0, <3>1, SpanAll
    <3>3. Succ(j, n) \in Span(i, b, n)
      BY <1>0, <3>1, SpanBeyond
    <3>4. Span(i, b, n) \subseteq used
      BY <1>0, <2>1, <2>2, SpanSplit
    <3> QED  BY <3>2, <3>3, <3>4 DEF DelEnd, Last
  <2>3. \A b \in used \ {i} : Span(h2b(keys[b], n), b, n) \subseteq used \ {i} /\ keys'[b] = keys[b]
    BY <1>0, <2>1, <2>2 DEF DelEnd
  <2> QED  BY <1>0, <2>3 DEF Chains, Hole, DelEnd, Return, move, h2b
<1>7. Searched'
  BY DEF KInv, DelEnd, Last, Return, move, Searched, h2b
<1>8. Kicked'
  BY DEF KInv, DelEnd, Last, Return, move, Kicked, h2b
<1>9. Shifted'
  BY DEF KInv, DelEnd, Last, Return, move, Shifted, h2b
<1> QED  BY <1>1, <1>2, <1>3, <1>4, <1>5, <1>6, <1>7, <1>8, <1>9 DEF KInv

\* An entry is taken out of the old table.
LEMMA Inv_Sweep ==
  ASSUME KInv, Sweep
  PROVE  KInv'
<1>0. /\ n \in Nat /\ new_n \in Sizes /\ new_n \in Nat /\ j \in 0 .. n - 1
      /\ \A k \in Keys : h2b(k, new_n) \in 0 .. new_n - 1
      /\ keys \in [Allocated -> Keys \union {NoKey}] /\ j \in Allocated
      /\ pc = "sweep" /\ hand = NoKey
      /\ UNCHANGED <<hash, n, count, req, new_n, new_used, ret>>
      /\ used \subseteq j .. n - 1
  BY ResizeBuckets DEF Sweep, Resizing, KInv, Phase, Swept
<1>a. CASE j \notin used
  <2>1. j' = j + 1 /\ UNCHANGED <<hand, used, keys, pc, i>>
    BY <1>a DEF Sweep
  <2>2. Shape' /\ Phase' /\ Distinct' /\ Counted'
    BY <1>0, <2>1 DEF KInv, Shape, Allocated, Phase, Resizing, Distinct, Live, Hole, Counted
  <2>3. Swept' /\ Chains' /\ Searched' /\ Kicked' /\ Shifted'
    BY <1>0, <1>a, <2>1 DEF KInv, Swept, Chains, Resizing, Searched, Kicked, Shifted, h2b
  <2> QED  BY <2>2, <2>3 DEF KInv
<1>b. CASE j \in used
  <2>1. /\ hand' = keys[j] /\ used' = used \ {j} /\ pc' = "kick" /\ j' = j
        /\ keys' = [keys EXCEPT ![j] = NoKey] /\ i' = h2b(keys[j], new_n)
    BY <1>b DEF Sweep
  <2>2. keys[j] \in Keys /\ keys[j] # NoKey /\ i' \in 0 .. new_n - 1
    BY <1>0, <1>b, <2>1, KeyAssumption DEF KInv, Distinct
  <2>3. /\ keys' \in [Allocated -> Keys \union {NoKey}]
        /\ \A b \in used \union new_used : b \in Allocated
        /\ \A b \in Allocated \ {j} : keys'[b] = keys[b]
        /\ j \notin new_used
    BY <1>0, <1>b, <2>1, ResizeBuckets DEF KInv, Shape, Resizing, Distinct
  <2>4. Shape'
    BY <1>0, <2>1, <2>2, <2>3 DEF KInv, Shape, Allocated
  <2>5. Phase'
    BY <1>0, <2>1, <2>2, ReqKeys DEF KInv, Phase, Resizing
  <2>6. Distinct'
    <3>1. \A a, b \in used \union new_used : keys[a] \in Keys /\ (keys[a] = keys[b] => a = b)
      BY <1>0 DEF KInv, Distinct, Live, Hole
    <3>2. \A b \in used' \union new_used' : b # j /\ keys'[b] = keys[b] /\ b \in used \union new_used
      BY <1>0, <1>b, <2>1, <2>3
    <3>3. Live' = used' \union new_used' /\ used' \intersect new_used' = {}
      BY <1>0, <2>1 DEF Live, Hole, KInv, Distinct
    <3> QED  BY <1>b, <2>1, <3>1, <3>2, <3>3 DEF Distinct
  <2>7. Counted'
    <3>1. IsFiniteSet(used) /\ Cardinality(used) \in Nat /\ Cardinality(new_used) \in Nat
      BY FinitelyMany DEF KInv
    <3>2. Cardinality(used') = Cardinality(used) - 1
      BY <1>b, <2>1, <3>1, FS_RemoveElement
    <3> QED  BY <1>0, <2>1, <2>2, <3>1, <3>2 DEF KInv, Counted, Resizing
  <2>8. Swept'
    BY <1>0, <2>1 DEF Swept
  <2>9. Chains'
    BY <1>0, <2>1, <2>3 DEF KInv, Chains, Resizing, h2b
  <2>10. Kicked'
    <3>1. Span(i', i', new_n) = {i'}
      BY <1>0, <2>2, SpanEnds
    <3> QED  BY <1>0, <2>1, <3>1 DEF Kicked, h2b
  <2>11. Searched' /\ Shifted'
    BY <2>1 DEF Searched, Shifted
  <2> QED  BY <2>4, <2>5, <2>6, <2>7, <2>8, <2>9, <2>10, <2>11 DEF KInv
<1> QED  BY <1>a, <1>b

\* One bucket of the new table further.
LEMMA Inv_KickNext ==
  ASSUME KInv, KickNext
  PROVE  KInv'
<1>0. /\ pc = "kick" /\ i \in new_used /\ i' = Succ(i, new_n)
      /\ new_n \in Nat /\ i \in 0 .. new_n - 1 /\ Succ(i, new_n) \in 0 .. new_n - 1
      /\ hand \in Keys /\ h2b(hand, new_n) \in 0 .. new_n - 1
  <2>1. pc = "kick" /\ i \in new_used /\ i' = Succ(i, new_n)
    BY DEF KickNext
  <2>2. i \in 0 .. new_n - 1 /\ hand \in Keys
    BY <2>1 DEF KInv, Phase, Shape
  <2>3. new_n \in Nat /\ h2b(hand, new_n) \in 0 .. new_n - 1
    BY <2>1, <2>2, ResizeBuckets DEF Resizing
  <2> QED  BY <2>1, <2>2, <2>3, SuccBucket
<1>1. Shape'
  BY <1>0 DEF KInv, Shape, Allocated, KickNext, table, move
<1>2. Phase'
  BY <1>0 DEF KInv, Phase, Resizing, KickNext, table, move
<1>3. Distinct'
  BY DEF KInv, KickNext, table, move, Distinct, Live, Hole
<1>4. Counted'
  BY DEF KInv, KickNext, table, move, Counted, Resizing
<1>5. Swept'
  BY DEF KInv, KickNext, table, move, Swept
<1>6. Chains'
  BY DEF KInv, KickNext, table, move, Chains, Resizing, Hole, h2b
<1>7. Searched'
  BY DEF KInv, KickNext, table, move, Searched, h2b
<1>8. Kicked'
  <2>1. Span(h2b(hand, new_n), Succ(i, new_n), new_n) \ {Succ(i, new_n)} \subseteq new_used
    <3>1. CASE Succ(i, new_n) = h2b(hand, new_n)
      BY <1>0, <3>1, SpanEnds
    <3>2. CASE Succ(i, new_n) # h2b(hand, new_n)
      BY <1>0, <3>2, SpanGrows DEF KInv, Kicked
    <3> QED  BY <3>1, <3>2
  <2> QED  BY <1>0, <2>1 DEF Kicked, KickNext, move, h2b
<1>9. Shifted'
  BY DEF KInv, KickNext, table, move, Shifted, h2b
<1> QED  BY <1>1, <1>2, <1>3, <1>4, <1>5, <1>6, <1>7, <1>8, <1>9 DEF KInv

\* The entry in hand is put into the new table; one of the old table may be next.
LEMMA Inv_Place ==
  ASSUME KInv, Place
  PROVE  KInv'
<1>0. /\ n \in Nat /\ new_n \in Sizes /\ new_n \in Nat
      /\ i \in 0 .. new_n - 1 /\ j \in 0 .. n - 1 /\ hand \in Keys /\ hand # NoKey
      /\ \A k \in Keys : h2b(k, new_n) \in 0 .. new_n - 1
      /\ keys \in [Allocated -> Keys \union {NoKey}] /\ i \in Allocated
      /\ pc = "kick" /\ used \subseteq j + 1 .. n - 1 /\ i \notin new_used
      /\ \A b \in used \union new_used : b \in Allocated
  BY ResizeBuckets DEF Place, Resizing, KInv, Phase, Shape, Swept
<1>a. /\ new_used' = new_used \union {i} /\ keys' = [keys EXCEPT ![i] = hand]
      /\ UNCHANGED <<hash, n, count, req, new_n, ret>>
  BY DEF Place
<1>b. /\ keys' \in [Allocated -> Keys \union {NoKey}] /\ keys'[i] = hand
      /\ \A b \in Allocated \ {i} : keys'[b] = keys[b]
      /\ new_used' \subseteq 0 .. new_n - 1
  BY <1>0, <1>a DEF KInv, Shape
<1>c. /\ \A a, b \in used \union new_used : keys[a] \in Keys /\ (keys[a] = keys[b] => a = b)
      /\ \A b \in used \union new_used : keys[b] # hand
      /\ used \intersect new_used = {}
  BY <1>0 DEF KInv, Distinct, Live, Hole
<1>d. /\ IsFiniteSet(used) /\ Cardinality(used) \in Nat /\ Cardinality(new_used) \in Nat
      /\ Cardinality(new_used') = Cardinality(new_used) + 1
      /\ count = Cardinality(used) + Cardinality(new_used) + 1 /\ count < new_n
  BY <1>0, <1>a, FinitelyMany, FS_AddElement DEF KInv, Counted, Resizing
<1>e. \A b \in new_used' : Span(h2b(keys'[b], new_n), b, new_n) \subseteq new_used'
  <2>1. \A b \in new_used : Span(h2b(keys[b], new_n), b, new_n) \subseteq new_used
    BY DEF KInv, Chains
  <2>2. Span(h2b(hand, new_n), i, new_n) \ {i} \subseteq new_used
    BY <1>0 DEF KInv, Kicked
  <2> QED  BY <1>0, <1>a, <1>b, <2>1, <2>2
<1>f. CASE i \in used
  <2>1. hand' = keys[i] /\ used' = used \ {i} /\ i' = h2b(keys[i], new_n) /\ pc' = pc /\ j' = j
    <3>1. i < n
      BY <1>0, <1>f
    <3> QED  BY <1>f, <3>1 DEF Place
  <2>2. keys[i] \in Keys /\ keys[i] # NoKey /\ i' \in 0 .. new_n - 1
    BY <1>0, <1>c, <1>f, <2>1, KeyAssumption
  <2>3. Shape'
    BY <1>0, <1>a, <1>b, <2>1, <2>2 DEF KInv, Shape, Allocated
  <2>4. Phase'
    BY <1>0, <1>a, <2>1, <2>2 DEF KInv, Phase, Resizing
  <2>5. Distinct'
    <3>1. Live' = (used \ {i}) \union new_used \union {i} /\ used' \intersect new_used' = {}
      BY <1>0, <1>a, <1>c, <2>1 DEF Live, Hole
    <3>2. \A b \in (used \ {i}) \union new_used : keys'[b] = keys[b] /\ b # i
      BY <1>0, <1>b
    <3> QED  BY <1>0, <1>a, <1>b, <1>c, <1>f, <2>1, <3>1, <3>2 DEF Distinct
  <2>6. Counted'
    <3>1. Cardinality(used') = Cardinality(used) - 1
      BY <1>d, <1>f, <2>1, FS_RemoveElement
    <3> QED  BY <1>0, <1>a, <1>d, <2>1, <2>2, <3>1 DEF Counted, Resizing
  <2>7. Swept' /\ Searched' /\ Shifted'
    BY <1>0, <1>a, <2>1 DEF Swept, Searched, Shifted
  <2>8. Chains'
    BY <1>0, <1>a, <1>e, <2>1 DEF Chains, Resizing, h2b
  <2>9. Kicked'
    <3>1. Span(i', i', new_n) = {i'}
      BY <1>0, <2>2, SpanEnds
    <3> QED  BY <1>a, <2>1, <3>1 DEF Kicked, h2b
  <2> QED  BY <2>3, <2>4, <2>5, <2>6, <2>7, <2>8, <2>9 DEF KInv
<1>g. CASE i \notin used
  <2>1. hand' = NoKey /\ pc' = "sweep" /\ i' = 0 /\ j' = j + 1 /\ used' = used
    BY <1>g DEF Place
  <2>2. Shape'
    BY <1>0, <1>a, <1>b, <2>1 DEF KInv, Shape, Allocated
  <2>3. Phase'
    BY <1>0, <1>a, <2>1, ReqKeys DEF KInv, Phase, Resizing
  <2>4. Distinct'
    <3>1. Live' = used \union new_used \union {i} /\ used' \intersect new_used' = {}
      BY <1>0, <1>a, <1>c, <1>g, <2>1 DEF Live, Hole
    <3>2. \A b \in used \union new_used : keys'[b] = keys[b] /\ b # i
      BY <1>0, <1>b, <1>g
    <3> QED  BY <1>0, <1>a, <1>b, <1>c, <2>1, <3>1, <3>2, KeyAssumption DEF Distinct
  <2>5. Counted'
    BY <1>0, <1>a, <1>d, <2>1 DEF Counted, Resizing
  <2>6. Swept' /\ Searched' /\ Shifted' /\ Kicked'
    BY <1>0, <1>a, <2>1 DEF Swept, Searched, Shifted, Kicked
  <2>7. Chains'
    BY <1>0, <1>a, <1>e, <2>1 DEF Chains, Resizing, h2b
  <2> QED  BY <2>2, <2>3, <2>4, <2>5, <2>6, <2>7 DEF KInv
<1> QED  BY <1>f, <1>g

\* The old table is empty, the new one takes its place.
LEMMA Inv_SweepEnd ==
  ASSUME KInv, SweepEnd
  PROVE  KInv'
<1>0. /\ pc = "sweep" /\ j = n /\ n' = new_n /\ used' = new_used /\ new_n' = 0 /\ new_used' = {}
      /\ keys' = [x \in 0 .. new_n - 1 |-> keys[x]] /\ UNCHANGED <<hash, count, hand>>
      /\ hand = NoKey /\ used = {}
      /\ n \in Nat /\ new_n \in Sizes /\ new_n \in Nat
      /\ keys \in [Allocated -> Keys \union {NoKey}]
      /\ \A k \in Keys : h2b(k, new_n) \in 0 .. new_n - 1
      /\ \A b \in 0 .. new_n - 1 : b \in Allocated
  <2>1. pc = "sweep" /\ j = n /\ hand = NoKey /\ n \in Nat
    BY ResizeBuckets DEF SweepEnd, Resizing, KInv, Phase
  <2>2. used = {}
    BY <2>1 DEF KInv, Swept
  <2> QED  BY <2>1, <2>2, ResizeBuckets DEF SweepEnd, Resizing
<1>a. /\ keys' \in [0 .. new_n - 1 -> Keys \union {NoKey}]
      /\ new_used \subseteq 0 .. new_n - 1
      /\ \A b \in new_used : keys'[b] = keys[b]
  BY <1>0 DEF KInv, Shape
<1>b. \/ /\ req.op = "put" /\ pc' = "probe" /\ i' = h2b(req.key, new_n) /\ j' = 0
         /\ UNCHANGED <<req, ret>> /\ i' \in 0 .. new_n - 1
      \/ /\ req.op # "put" /\ pc' = "idle" /\ req' = NoReq /\ ret' = NoRet /\ i' = 0 /\ j' = 0
  BY <1>0, ReqKeys DEF SweepEnd, Return, KInv
<1>1. Shape'
  <2>1. Allocated' = 0 .. new_n - 1
    BY <1>0 DEF Allocated
  <2> QED  BY <1>0, <1>a, <1>b, <2>1, ReqKeys DEF KInv, Shape
<1>2. Phase'
  BY <1>0, <1>b, ReqKeys DEF KInv, Phase, Resizing
<1>3. Distinct'
  <2>1. pc' \notin {"shift", "start"}
    BY <1>b
  <2>2. Live' = new_used /\ used' \union new_used' = new_used
    BY <1>0, <2>1 DEF Live, Hole
  <2>3. \A a, b \in new_used : keys[a] \in Keys /\ (keys[a] = keys[b] => a = b)
    BY <1>0 DEF KInv, Distinct, Live, Hole
  <2> QED  BY <1>0, <1>a, <2>1, <2>2, <2>3, KeyAssumption DEF Distinct
<1>4. Counted'
  <2>1. count = Cardinality(new_used) /\ count < new_n /\ Cardinality(new_used) \in Nat
    BY <1>0, FinitelyMany, FS_EmptySet DEF KInv, Counted, Resizing
  <2> QED  BY <1>0, <1>b, <2>1, FS_EmptySet DEF Counted, Resizing
<1>5. Swept'
  BY <1>b DEF Swept
<1>6. Chains'
  <2>1. \A b \in new_used : Span(h2b(keys[b], new_n), b, new_n) \subseteq new_used
    BY DEF KInv, Chains
  <2> QED  BY <1>0, <1>a, <2>1 DEF Chains, h2b
<1>7. Searched'
  <2>1. pc' = "probe" => Span(i', i', new_n) = {i'} /\ i' = h2b(req.key, new_n) /\ req' = req
    BY <1>0, <1>b, SpanEnds
  <2> QED  BY <1>0, <2>1 DEF Searched, h2b
<1>8. Kicked'
  BY <1>b DEF Kicked
<1>9. Shifted'
  BY <1>b DEF Shifted
<1> QED  BY <1>1, <1>2, <1>3, <1>4, <1>5, <1>6, <1>7, <1>8, <1>9 DEF KInv

-----------------------------------------------------------------------------
\* A free table satisfies the invariant.
LEMMA InitKInv == Init => KInv
<1> SUFFICES ASSUME Init PROVE KInv
  OBVIOUS
<1>1. Shape
  <2>1. Allocated = 0 .. -1 /\ keys \in [0 .. -1 -> Keys \union {NoKey}]
    BY DEF Init, Allocated
  <2>2. req \in Reqs /\ ret \in (Keys \union {NoKey}) \X BOOLEAN
    BY DEF Init, Reqs, NoRet
  <2>3. n = 0 /\ new_n = 0 /\ used = {} /\ new_used = {} /\ count \in Nat /\ i \in Nat /\ j \in Nat
    BY DEF Init
  <2> QED  BY <2>1, <2>2, <2>3 DEF Init, Shape
<1>2. Phase
  BY DEF Init, Phase, Resizing
<1>3. Distinct /\ Counted
  BY FS_EmptySet DEF Init, Distinct, Live, Hole, Counted, Resizing
<1>4. Swept /\ Chains /\ Searched /\ Kicked /\ Shifted
  BY DEF Init, Swept, Chains, Searched, Kicked, Shifted
<1> QED  BY <1>1, <1>2, <1>3, <1>4 DEF KInv

\* Every step of every loop keeps it.
LEMMA NextKInv == KInv /\ [Next]_vars => KInv'
<1> SUFFICES ASSUME KInv, [Next]_vars PROVE KInv'
  OBVIOUS
<1>1. CASE UNCHANGED vars
  <2>1. Shape' /\ Phase' /\ Distinct'
    BY <1>1 DEF KInv, vars, table, move, Shape, Allocated, Phase, Resizing, Distinct, Live, Hole
  <2>2. Counted' /\ Swept' /\ Searched'
    BY <1>1 DEF KInv, vars, table, move, Counted, Resizing, Swept, Searched, h2b
  <2>3. Chains' /\ Kicked' /\ Shifted'
    BY <1>1 DEF KInv, vars, table, move, Chains, Resizing, Hole, Kicked, Shifted, h2b
  <2> QED  BY <2>1, <2>2, <2>3 DEF KInv
<1>2. ASSUME NEW r \in Reqs \ {NoReq}, Call(r) PROVE KInv'
  BY <1>2, Inv_Call
<1>3. CASE getp_core \/ putp_core \/ ResizeNoop \/ clear
  BY <1>3, Inv_getp_core, Inv_putp_core, Inv_ResizeNoop, Inv_clear
<1>4. CASE PutResize
  <2>1. n + 1 \in Nat
    BY SizeAssumption DEF KInv, Shape
  <2> QED  BY <1>4, <2>1, Inv_Resize DEF PutResize
<1>5. CASE ResizeCall
  BY <1>5, SizeAssumption, Inv_Resize DEF ResizeCall
<1>6. CASE ProbeNext \/ GetEnd \/ PutEnd
  BY <1>6, Inv_ProbeNext, Inv_GetEnd, Inv_PutEnd
<1>7. CASE del \/ Shift \/ DelEnd
  BY <1>7, Inv_del, Inv_Shift, Inv_DelEnd
<1>8. CASE Sweep \/ KickNext \/ Place \/ SweepEnd
  BY <1>8, Inv_Sweep, Inv_KickNext, Inv_Place, Inv_SweepEnd
<1> QED  BY <1>1, <1>2, <1>3, <1>4, <1>5, <1>6, <1>7, <1>8 DEF Next, Running

\* The invariant of the table, whatever calls are made.
THEOREM TableInvariant == Spec => []KInv
<1> QED  BY InitKInv, NextKInv, PTL DEF Spec

\* The variables stay within their types: in particular no bucket past the end
\* of the allocation is ever marked used, before, during and after a resize.
THEOREM TypeCorrect == Spec => []TypeOK
<1>1. KInv => TypeOK
  <2> SUFFICES ASSUME KInv PROVE TypeOK
    OBVIOUS
  <2>1. \E m \in Sizes \union {0} :
          m >= n /\ m >= new_n /\ keys \in [0 .. m - 1 -> Keys \union {NoKey}]
    <3>1. n \in Nat /\ new_n \in Nat
      BY SizeAssumption DEF KInv, Shape
    <3>2. CASE new_n > n
      BY <3>1, <3>2 DEF KInv, Shape, Allocated
    <3>3. CASE ~(new_n > n)
      BY <3>1, <3>3 DEF KInv, Shape, Allocated
    <3> QED  BY <3>2, <3>3
  <2> QED  BY <2>1 DEF KInv, Shape, TypeOK
<1> QED  BY <1>1, TableInvariant, PTL

\* Every entry is found from its home bucket, whatever was put, deleted, shifted
\* back, kicked out or moved to a table of another size before (khashl.h).
THEOREM ProbeChainHolds == Spec => []ProbeChain
<1>1. KInv => ProbeChain
  BY DEF KInv, Chains, Resizing, Hole, ProbeChain
<1> QED  BY <1>1, TableInvariant, PTL

-----------------------------------------------------------------------------
(* The set the table implements. *)

\* As many keys as buckets, when no key is in two of them.
LEMMA CountKeys ==
  ASSUME NEW S, IsFiniteSet(S), NEW f, \A a, b \in S : f[a] = f[b] => a = b
  PROVE  Cardinality({f[x] : x \in S}) = Cardinality(S)
<1> DEFINE T == {f[x] : x \in S}
           g == [x \in S |-> f[x]]
<1>1. g \in Bijection(S, T)
  BY DEF Bijection, Injection, Surjection, IsInjective
<1>2. ExistsBijection(S, T)
  BY <1>1 DEF ExistsBijection
<1> QED  BY <1>2, FS_Bijection

\* Outside resize and del the keys are those of the used buckets.
LEMMA Resting ==
  ASSUME KInv, ~Resizing, pc # "shift"
  PROVE  /\ Contents = {keys[x] : x \in used}
         /\ new_used = {} /\ hand = NoKey
  BY OneTable DEF Contents, KInv

\* Cardinality is the same in both modules.
LEMMA SameCardinality == \A S : KS!Cardinality(S) = Cardinality(S)
  BY DEF KS!Cardinality, Cardinality

\* Between calls kh_size is the number of keys.
IdleSize == pc = "idle" => count = Cardinality(Contents) /\ Contents = {keys[x] : x \in used}

\* The invariant says so.
LEMMA IdleCount == KInv => IdleSize
<1> SUFFICES ASSUME KInv, pc = "idle"
             PROVE  count = Cardinality(Contents) /\ Contents = {keys[x] : x \in used}
  BY DEF IdleSize
<1>1. Contents = {keys[x] : x \in used} /\ new_used = {} /\ hand = NoKey
  BY Resting DEF Resizing
<1>2. IsFiniteSet(used) /\ Cardinality(used) \in Nat
  BY FinitelyMany DEF KInv
<1>3. count = Cardinality(used)
  BY <1>1, <1>2, FS_EmptySet DEF KInv, Counted
<1>4. \A a, b \in used : keys[a] = keys[b] => a = b
  BY <1>1 DEF KInv, Distinct, Live, Hole
<1>5. Cardinality({keys[x] : x \in used}) = Cardinality(used)
  BY <1>2, <1>4, CountKeys
<1> QED  BY <1>1, <1>3, <1>5

\* A call returns: what is left to show of it.
LEMMA Returns ==
  ASSUME KInv, KInv', pc # "idle", pc' = "idle", req' = NoReq,
         {keys'[x] : x \in used'} = KS!Contents(req, Contents), ret' = KS!Answer(req, Contents)
  PROVE  KS!Return
<1>0. IdleSize'
  BY IdleCount, PTL
<1>1. count' = Cardinality(Contents') /\ Contents' = {keys'[x] : x \in used'}
  BY <1>0 DEF IdleSize
<1>2. req # NoReq
  BY DEF KInv, Phase
<1> QED  BY <1>1, <1>2, SameCardinality DEF KS!Return, KS!NoReq, NoReq

\* A step that is none of the set.
Hidden == UNCHANGED <<Contents, count, req, ret>>

\* The steps that leave buckets and keys alone.
LEMMA HiddenLoops ==
  ASSUME KInv
  PROVE  putp_core \/ ProbeNext \/ KickNext \/ UNCHANGED vars => Hidden
<1>1. putp_core => Hidden
  BY DEF putp_core, Probe, table, move, Hidden, Contents
<1>2. ProbeNext => Hidden
  BY DEF ProbeNext, table, move, Hidden, Contents
<1>3. KickNext => Hidden
  BY DEF KickNext, table, move, Hidden, Contents
<1>4. UNCHANGED vars => Hidden
  BY DEF vars, table, move, Hidden, Contents
<1> QED  BY <1>1, <1>2, <1>3, <1>4

\* resize begins.
LEMMA HiddenResize ==
  ASSUME KInv, pc = "start", NEW m, Resize(m)
  PROVE  Hidden
<1>1. Contents = {keys[x] : x \in used} /\ new_used = {} /\ hand = NoKey
  BY Resting DEF Resizing
<1>2. pc' = "sweep" /\ new_used' = {} /\ UNCHANGED <<used, count, req, hand, ret>>
  BY DEF Resize
<1>3. \A x \in used : keys'[x] = keys[x]
  <2>1. PICK s \in Sizes :
          keys' = IF n < s THEN [x \in 0 .. s - 1 |-> IF x < n THEN keys[x] ELSE NoKey] ELSE keys
    BY DEF Resize
  <2>2. s \in Nat /\ n \in Nat /\ used \subseteq 0 .. n - 1
    BY SizeAssumption DEF KInv, Shape
  <2> QED  BY <2>1, <2>2
<1>4. Contents' = {keys'[x] : x \in used}
  BY <1>1, <1>2 DEF Contents
<1> QED  BY <1>1, <1>2, <1>3, <1>4 DEF Hidden

\* del finds its key, and moves entries into the hole.
LEMMA HiddenDel ==
  ASSUME KInv, del
  PROVE  Hidden
<1>1. Contents = {keys[x] : x \in used} /\ new_used = {} /\ hand = NoKey
  BY Resting DEF Resizing, del
<1>2. PICK x \in used : keys[x] = req.key /\ i' = x
  BY DEF del
<1>3. pc' = "shift" /\ UNCHANGED <<used, keys, count, req, hand, new_used, ret>>
  BY DEF del, table, move
<1>4. Contents' = {keys[y] : y \in used \ {x}} \union {req.key}
  BY <1>1, <1>2, <1>3 DEF Contents
<1>5. Contents' = Contents
  BY <1>1, <1>2, <1>4
<1> QED  BY <1>3, <1>5 DEF Hidden

\* An entry moves into the hole: its old bucket is the next one.
LEMMA HiddenShift ==
  ASSUME KInv, Shift
  PROVE  Hidden
<1> DEFINE q == Succ(j, n)
<1>0. /\ pc = "shift" /\ pc' = "shift" /\ q \in used /\ q # i /\ i \in used
      /\ UNCHANGED <<used, count, req, hand, new_used, ret>>
      /\ new_used = {} /\ hand = NoKey
      /\ keys \in [0 .. n - 1 -> Keys \union {NoKey}] /\ i \in 0 .. n - 1
      /\ \/ keys' = [keys EXCEPT ![i] = keys[q]] /\ i' = q
         \/ UNCHANGED <<keys, i>>
  BY ShiftBuckets DEF Shift, Last, move
<1> HIDE DEF q
<1>1. Contents = {keys[x] : x \in used \ {i}} \union {req.key}
  BY <1>0 DEF Contents
<1>2. Contents' = {keys'[x] : x \in used \ {i'}} \union {req.key}
  BY <1>0 DEF Contents
<1>3. CASE keys' = [keys EXCEPT ![i] = keys[q]] /\ i' = q
  <2>1. keys'[i] = keys[q] /\ \A x \in used \ {i} : keys'[x] = keys[x]
    BY <1>0, <1>3, ShiftBuckets
  <2>2. {keys'[x] : x \in used \ {q}} = {keys[x] : x \in used \ {i}}
    BY <1>0, <2>1
  <2> QED  BY <1>0, <1>1, <1>2, <1>3, <2>2 DEF Hidden
<1>4. CASE UNCHANGED <<keys, i>>
  BY <1>0, <1>1, <1>2, <1>4 DEF Hidden
<1> QED  BY <1>0, <1>3, <1>4

\* An entry leaves the old table.
LEMMA HiddenSweep ==
  ASSUME KInv, Sweep
  PROVE  Hidden
<1>0. /\ pc = "sweep" /\ hand = NoKey /\ UNCHANGED <<count, req, new_used, ret>>
      /\ keys \in [Allocated -> Keys \union {NoKey}]
      /\ \A b \in used \union new_used : b \in Allocated /\ keys[b] \in Keys
      /\ used \intersect new_used = {}
  <2>1. pc = "sweep" /\ UNCHANGED <<count, req, new_used, ret>>
    BY DEF Sweep
  <2>2. \A b \in used \union new_used : b \in Allocated /\ keys[b] \in Keys
    BY <2>1, ResizeBuckets DEF Resizing, KInv, Shape, Distinct
  <2> QED  BY <2>1, <2>2, ResizeBuckets DEF Resizing, KInv, Phase, Distinct
<1>1. Contents = {keys[x] : x \in used \union new_used}
  BY <1>0 DEF Contents
<1>2. CASE j \notin used
  BY <1>0, <1>2 DEF Sweep, Hidden, Contents
<1>3. CASE j \in used
  <2>1. /\ hand' = keys[j] /\ used' = used \ {j} /\ pc' = "kick"
        /\ keys' = [keys EXCEPT ![j] = NoKey]
    BY <1>3 DEF Sweep
  <2>2. keys[j] # NoKey /\ \A x \in (used \ {j}) \union new_used : keys'[x] = keys[x] /\ x # j
    BY <1>0, <1>3, <2>1, KeyAssumption
  <2>3. Contents' = {keys'[x] : x \in (used \ {j}) \union new_used} \union {keys[j]}
    BY <1>0, <2>1, <2>2 DEF Contents
  <2>4. Contents' = Contents
    BY <1>1, <1>3, <2>2, <2>3
  <2> QED  BY <1>0, <2>4 DEF Hidden
<1> QED  BY <1>2, <1>3

\* It enters the new one, where another entry of the old one may be.
LEMMA HiddenPlace ==
  ASSUME KInv, Place
  PROVE  Hidden
<1>0. /\ pc = "kick" /\ hand # NoKey /\ UNCHANGED <<count, req, ret>>
      /\ i \notin new_used /\ i \in Allocated
      /\ new_used' = new_used \union {i} /\ keys' = [keys EXCEPT ![i] = hand]
      /\ keys \in [Allocated -> Keys \union {NoKey}]
      /\ \A b \in used \union new_used : b \in Allocated /\ keys[b] \in Keys
  <2>1. /\ pc = "kick" /\ UNCHANGED <<count, req, ret>> /\ i \notin new_used
        /\ new_used' = new_used \union {i} /\ keys' = [keys EXCEPT ![i] = hand]
    BY DEF Place
  <2>2. \A b \in used \union new_used : b \in Allocated /\ keys[b] \in Keys
    BY <2>1, ResizeBuckets DEF Resizing, KInv, Shape, Distinct
  <2> QED  BY <2>1, <2>2, ResizeBuckets DEF Resizing, KInv, Phase
<1>1. Contents = {keys[x] : x \in used \union new_used} \union {hand}
  BY <1>0 DEF Contents
<1>2. keys'[i] = hand /\ \A x \in (used \union new_used) \ {i} : keys'[x] = keys[x]
  BY <1>0
<1>3. CASE i \in used
  <2>0. i < n
    BY <1>3, SizeAssumption DEF KInv, Shape
  <2>1. hand' = keys[i] /\ used' = used \ {i} /\ pc' = "kick"
    BY <1>0, <1>3, <2>0 DEF Place
  <2>2. Contents' = {keys'[x] : x \in (used \ {i}) \union (new_used \union {i})} \union {keys[i]}
    BY <1>0, <1>3, <2>1, KeyAssumption DEF Contents
  <2>3. Contents' = Contents
    BY <1>0, <1>1, <1>2, <1>3, <2>2
  <2> QED  BY <1>0, <2>3 DEF Hidden
<1>4. CASE i \notin used
  <2>1. hand' = NoKey /\ used' = used /\ pc' = "sweep"
    BY <1>4 DEF Place
  <2>2. Contents' = {keys'[x] : x \in used \union (new_used \union {i})}
    BY <1>0, <2>1 DEF Contents
  <2>3. Contents' = Contents
    BY <1>0, <1>1, <1>2, <1>4, <2>2
  <2> QED  BY <1>0, <2>3 DEF Hidden
<1> QED  BY <1>3, <1>4

\* What a call does to the set and answers, call by call.
LEMMA Effects ==
  ASSUME NEW s
  PROVE  /\ req.op = "put" => /\ KS!Contents(req, s) = s \union {req.key}
                              /\ KS!Answer(req, s) = <<req.key, req.key \notin s>>
         /\ req.op = "get" => /\ KS!Contents(req, s) = s
                              /\ KS!Answer(req, s) = <<IF req.key \in s THEN req.key ELSE NoKey, FALSE>>
         /\ req.op = "del" => KS!Contents(req, s) = s \ {req.key} /\ KS!Answer(req, s) = NoRet
         /\ req.op = "clear" => KS!Contents(req, s) = {} /\ KS!Answer(req, s) = NoRet
         /\ req.op = "resize" => KS!Contents(req, s) = s /\ KS!Answer(req, s) = NoRet
  BY DEF KS!Contents, KS!Answer, KS!NoRet, NoRet

\* A call begins.
LEMMA CallCalls ==
  ASSUME KInv, NEW r \in Reqs \ {NoReq}, Call(r)
  PROVE  KS!Call
<1>1. pc = "idle" /\ pc' = "start" /\ req' = r /\ ret' = NoRet /\ UNCHANGED <<table, move>>
  BY DEF Call
<1>2. UNCHANGED <<Contents, count>>
  BY <1>1 DEF Contents, table, move
<1>3. req = NoReq
  BY <1>1 DEF KInv, Phase
<1> QED  BY <1>1, <1>2, <1>3 DEF KS!Call, KS!NoReq, KS!Reqs, KS!NoRet, NoReq, Reqs, NoRet

\* get on a table that was never allocated, or a probe begins.
LEMMA GetBegins ==
  ASSUME KInv, KInv', getp_core
  PROVE  KS!Return \/ Hidden
<1>1. CASE n = 0
  <2>1. pc = "start" /\ req.op = "get" /\ pc' = "idle" /\ req' = NoReq /\ ret' = NoRet /\ used' = used
    BY <1>1 DEF getp_core, Return, table
  <2>2. used = {} /\ Contents = {}
    BY <1>1, <2>1, Resting DEF KInv, Shape, Resizing
  <2>3. {keys'[x] : x \in used'} = KS!Contents(req, Contents) /\ ret' = KS!Answer(req, Contents)
    BY <2>1, <2>2, Effects DEF NoRet
  <2> QED  BY <2>1, <2>3, Returns
<1>2. CASE n # 0
  BY <1>2 DEF getp_core, Probe, table, move, Hidden, Contents
<1> QED  BY <1>1, <1>2

\* resize of a table that is too full does nothing.
LEMMA NoopReturns ==
  ASSUME KInv, KInv', ResizeNoop
  PROVE  KS!Return
<1>1. /\ pc = "start" /\ req.op = "resize" /\ pc' = "idle" /\ req' = NoReq /\ ret' = NoRet
      /\ UNCHANGED <<used, keys>>
  BY DEF ResizeNoop, Return, table
<1>2. {keys'[x] : x \in used'} = KS!Contents(req, Contents) /\ ret' = KS!Answer(req, Contents)
  BY <1>1, Resting, Effects DEF Resizing
<1> QED  BY <1>1, <1>2, Returns

\* clear.
LEMMA ClearReturns ==
  ASSUME KInv, KInv', clear
  PROVE  KS!Return
<1>1. pc = "start" /\ req.op = "clear" /\ pc' = "idle" /\ req' = NoReq /\ ret' = NoRet /\ used' = {}
  BY DEF clear, Return
<1>2. {keys'[x] : x \in used'} = KS!Contents(req, Contents) /\ ret' = KS!Answer(req, Contents)
  BY <1>1, Effects
<1> QED  BY <1>1, <1>2, Returns

\* get has found the key if and only if the table has it.
LEMMA GetReturns ==
  ASSUME KInv, KInv', GetEnd
  PROVE  KS!Return
<1> DEFINE found == i \in used /\ keys[i] = req.key
<1>1. /\ pc = "probe" /\ req.op = "get" /\ pc' = "idle" /\ req' = NoReq
      /\ ret' = <<IF i \in used /\ ~Other THEN keys[i] ELSE NoKey, FALSE>>
      /\ UNCHANGED <<used, keys>> /\ (Other => Succ(i, n) = h2b(req.key, n))
  BY DEF GetEnd, Return, table
<1>2. Contents = {keys[x] : x \in used}
  BY <1>1, Resting DEF Resizing
<1>3. found <=> req.key \in Contents
  BY <1>1, <1>2, Absent
<1>4. ret' = <<IF found THEN req.key ELSE NoKey, FALSE>>
  BY <1>1 DEF Other
<1>5. {keys'[x] : x \in used'} = Contents
  BY <1>1, <1>2
<1>6. ret' = <<IF req.key \in Contents THEN req.key ELSE NoKey, FALSE>>
  BY <1>3, <1>4
<1>7. {keys'[x] : x \in used'} = KS!Contents(req, Contents) /\ ret' = KS!Answer(req, Contents)
  BY <1>1, <1>5, <1>6, Effects, Zenon
<1> QED  BY <1>1, <1>7, Returns

\* put returns the bucket of the key, and says whether it is new.
LEMMA PutReturns ==
  ASSUME KInv, KInv', PutEnd
  PROVE  KS!Return
<1>1. /\ pc = "probe" /\ req.op = "put" /\ pc' = "idle" /\ req' = NoReq
      /\ (Other => Succ(i, n) = h2b(req.key, n))
  BY DEF PutEnd, Return
<1>2. ~Other
  BY <1>1, PutStops
<1>3. Contents = {keys[x] : x \in used}
  BY <1>1, Resting DEF Resizing
<1>4. CASE i \in used
  <2>1. keys[i] = req.key
    BY <1>2, <1>4 DEF Other
  <2>2. ret' = <<req.key, FALSE>> /\ UNCHANGED <<used, keys>>
    BY <1>2, <1>4, <2>1 DEF PutEnd, Return, table
  <2>3. req.key \in Contents
    BY <1>3, <1>4, <2>1
  <2>4. {keys'[x] : x \in used'} = Contents \union {req.key}
    BY <1>3, <2>2, <2>3
  <2>5. ret' = <<req.key, req.key \notin Contents>>
    BY <2>2, <2>3
  <2>6. {keys'[x] : x \in used'} = KS!Contents(req, Contents) /\ ret' = KS!Answer(req, Contents)
    BY <1>1, <2>4, <2>5, Effects, Zenon
  <2> QED  BY <1>1, <2>6, Returns
<1>5. CASE i \notin used
  <2>1. ret' = <<req.key, TRUE>> /\ used' = used \union {i} /\ keys' = [keys EXCEPT ![i] = req.key]
    BY <1>2, <1>5 DEF PutEnd, Return
  <2>2. keys \in [0 .. n - 1 -> Keys \union {NoKey}] /\ i \in 0 .. n - 1 /\ used \subseteq 0 .. n - 1
    BY <1>1, ProbeHome, OneTable DEF KInv, Shape, Allocated, Resizing
  <2>3. keys'[i] = req.key /\ \A x \in used : keys'[x] = keys[x]
    BY <1>5, <2>1, <2>2
  <2>4. req.key \notin Contents
    BY <1>1, <1>3, <1>5, Absent
  <2>5. {keys'[x] : x \in used'} = Contents \union {req.key}
    BY <1>3, <2>1, <2>3
  <2>6. {keys'[x] : x \in used'} = KS!Contents(req, Contents) /\ ret' = KS!Answer(req, Contents)
    BY <1>1, <2>1, <2>4, <2>5, Effects
  <2> QED  BY <1>1, <2>6, Returns
<1> QED  BY <1>4, <1>5

\* del drops its key and no other.
LEMMA DelReturns ==
  ASSUME KInv, KInv', DelEnd
  PROVE  KS!Return
<1>1. /\ pc = "shift" /\ req.op = "del" /\ pc' = "idle" /\ req' = NoReq /\ ret' = NoRet
      /\ used' = used \ {i} /\ keys' = [keys EXCEPT ![i] = NoKey]
  BY DEF DelEnd, Return, KInv, Phase
<1>2. /\ new_used = {} /\ hand = NoKey /\ used \subseteq 0 .. n - 1
      /\ keys \in [0 .. n - 1 -> Keys \union {NoKey}]
  BY <1>1, ShiftBuckets
<1>3. Contents = {keys[x] : x \in used \ {i}} \union {req.key}
  BY <1>1, <1>2 DEF Contents
<1>4. \A x \in used \ {i} : keys'[x] = keys[x] /\ keys[x] # req.key
  BY <1>1, <1>2 DEF KInv, Distinct
<1>5. {keys'[x] : x \in used'} = Contents \ {req.key}
  BY <1>1, <1>3, <1>4
<1>6. {keys'[x] : x \in used'} = KS!Contents(req, Contents) /\ ret' = KS!Answer(req, Contents)
  BY <1>1, <1>5, Effects
<1> QED  BY <1>1, <1>6, Returns

\* resize returns, or put goes on with the new table.
LEMMA ResizeReturns ==
  ASSUME KInv, KInv', SweepEnd
  PROVE  KS!Return \/ Hidden
<1>1. /\ pc = "sweep" /\ j = n /\ used' = new_used /\ new_used' = {} /\ UNCHANGED <<count, hand>>
      /\ keys' = [x \in 0 .. new_n - 1 |-> keys[x]]
  BY DEF SweepEnd
<1>2. hand = NoKey /\ used = {} /\ new_used \subseteq 0 .. new_n - 1
  BY <1>1, ResizeBuckets DEF KInv, Phase, Resizing, Swept, Shape
<1>3. Contents = {keys[x] : x \in new_used}
  BY <1>1, <1>2 DEF Contents
<1>4. {keys'[x] : x \in used'} = Contents
  BY <1>1, <1>2, <1>3
<1>5. CASE req.op = "put"
  <2>1. pc' = "probe" /\ UNCHANGED <<req, ret>>
    BY <1>5 DEF SweepEnd
  <2>2. Contents' = {keys'[x] : x \in used'}
    BY <1>1, <1>2, <2>1 DEF Contents
  <2> QED  BY <1>1, <1>4, <2>1, <2>2 DEF Hidden
<1>6. CASE req.op # "put"
  <2>1. req.op = "resize" /\ pc' = "idle" /\ req' = NoReq /\ ret' = NoRet
    BY <1>1, <1>6 DEF SweepEnd, Return, KInv, Phase, Resizing
  <2>2. {keys'[x] : x \in used'} = KS!Contents(req, Contents) /\ ret' = KS!Answer(req, Contents)
    BY <1>4, <2>1, Effects
  <2> QED  BY <1>1, <2>1, <2>2, Returns
<1> QED  BY <1>5, <1>6

\* Every step is one of the set or hidden from it.
LEMMA StepRefines ==
  ASSUME KInv, KInv', [Next]_vars
  PROVE  [KS!Next]_(KS!vars)
<1>1. Hidden => UNCHANGED KS!vars
  BY DEF Hidden, KS!vars
<1>2. CASE UNCHANGED vars \/ putp_core \/ ProbeNext \/ KickNext
  BY <1>1, <1>2, HiddenLoops
<1>3. ASSUME NEW r \in Reqs \ {NoReq}, Call(r) PROVE KS!Next
  BY <1>3, CallCalls DEF KS!Next
<1>4. CASE PutResize \/ ResizeCall
  BY <1>1, <1>4, HiddenResize DEF PutResize, ResizeCall
<1>5. CASE del \/ Shift \/ Sweep \/ Place
  BY <1>1, <1>5, HiddenDel, HiddenShift, HiddenSweep, HiddenPlace
<1>6. CASE getp_core \/ SweepEnd
  BY <1>1, <1>6, GetBegins, ResizeReturns DEF KS!Next
<1>7. CASE ResizeNoop \/ clear \/ GetEnd \/ PutEnd \/ DelEnd
  BY <1>7, NoopReturns, ClearReturns, GetReturns, PutReturns, DelReturns DEF KS!Next
<1> QED  BY <1>2, <1>3, <1>4, <1>5, <1>6, <1>7 DEF Next, Running

\* The table implements a set of keys across every resize and deletion (the
\* safety part of IsSet): no key is lost or doubled, absent and the returned
\* iterator are right and kh_size counts the keys, whatever the hash function.
THEOREM TableIsSet == Spec => KS!Safety
<1>1. Init => KS!Init
  BY DEF Init, Contents, KS!Init, KS!NoReq, KS!NoRet, NoReq, NoRet
<1>2. KInv /\ KInv' /\ [Next]_vars => [KS!Next]_(KS!vars)
  BY StepRefines
<1> QED  BY <1>1, <1>2, TableInvariant, PTL DEF Spec, KS!Safety
=============================================================================
