--------------------------- MODULE XapSrchProofs ---------------------------
(***************************************************************************)
(* Proofs about XapSrch for every set of indices, number of shards, limit  *)
(* on descriptors and number of commits and replacements.                  *)
(***************************************************************************)
EXTENDS XapSrch, FiniteSetTheorems, SequenceTheorems, TLAPS

Working == pc \in {"lock", "shard", "query"}

\* The part of TypeOK the argument needs.
SType ==
    /\ cache \in SUBSET Keys /\ db \in [Keys -> Seq(Nat)] /\ opened \in Seq(Nat) /\ sh \in BOOLEAN
    /\ swaps \in [Indices -> Nat] /\ ex \in [Indices -> BOOLEAN] /\ seen \in Nat
    /\ DOMAIN gen = Indices /\ \A x \in Indices : gen[x] \in [Places -> Nat \union {-1}]
    /\ layout \in [Indices -> Seq(Nat)]
    /\ pc # "idle" => cur \in Keys

\* A replacement has a number of shards when it starts.  While open.lock is free
\* the newest shards are all in place, beside old ones they have no counterpart
\* for; while it is held, old and new ones are.
DiskInv ==
    /\ \A x \in Indices : Len(layout[x]) = IF ex[x] THEN swaps[x] + 2 ELSE swaps[x] + 1
    /\ \A x \in Indices : \A i \in Places :
          IF ex[x] THEN gen[x][i] \in {-1, swaps[x], swaps[x] + 1}
          ELSE /\ gen[x][i] \in {-1, swaps[x] - 1, swaps[x]}
               /\ i <= Shards(x, swaps[x]) => gen[x][i] = swaps[x]
    /\ sh => pc = "shard" /\ ~ex[IndexOf[cur]]

\* A shard has everything the client may rely on.
Recent(i, g) == g >= seen \/ (g = seen - 1 /\ i > Shards(IndexOf[cur], seen))

\* A shard is the newest, or has no newer counterpart.
Newer(i, g) ==
    LET x == IndexOf[cur] IN g = swaps[x] \/ (g = swaps[x] - 1 /\ i > Shards(x, swaps[x]))

\* What has been opened so far.
OpenInv ==
    pc = "shard" =>
       /\ Len(opened) <= NShards[cur]
       /\ \A i \in 1 .. Len(opened) : /\ opened[i] < Len(layout[IndexOf[cur]])
                                      /\ Recent(i, opened[i]) /\ (sh => Newer(i, opened[i]))

\* A handle has all its shards, of generations there have been.
HandleInv ==
    \A k \in Keys : /\ Len(db[k]) \in {0, NShards[k]}
                    /\ \A i \in 1 .. Len(db[k]) : db[k][i] < Len(layout[IndexOf[k]])

\* A handle about to be queried, or reopened between two attempts, has all that
\* was there when the request came.
Querying == pc = "query" \/ (Working /\ mode = "again")
QueryInv ==
    /\ pc # "idle" => seen <= swaps[IndexOf[cur]]
    /\ Querying => ~lacks /\ db[cur] # NoDb /\ \A i \in 1 .. Len(db[cur]) : Recent(i, db[cur][i])

SInv == SType /\ DiskInv /\ OpenInv /\ HandleInv /\ QueryInv /\ HandleIsLive /\ OneGeneration

-----------------------------------------------------------------------------
\* The constants: a shard that a key names has a place.
LEMMA KeyFacts ==
    ASSUME NEW k \in Keys
    PROVE  /\ IndexOf[k] \in Indices /\ NShards[k] \in Nat /\ NShards[k] > 0
           /\ \A i \in 1 .. NShards[k] : i \in Places
           /\ << >> \in Seq(Nat)
<1>1. IndexOf[k] \in Indices /\ NShards[k] \in Nat /\ NShards[k] > 0
  BY KeyAssumption
<1>2. \A i \in 1 .. NShards[k] : i \in Places
  BY DEF Places
<1> QED BY <1>1, <1>2

\* Freeing entries leaves the databases of the others alone.
LEMMA RenewKeeps ==
    ASSUME NEW keep \in SUBSET Keys, db \in [Keys -> Seq(Nat)], srch_cache_renew(keep)
    PROVE  /\ cache' = keep /\ db' \in [Keys -> Seq(Nat)] /\ loose' = loose \cap keep
           /\ \A j \in Keys : db'[j] = IF j \in keep THEN db[j] ELSE << >>
<1>1. << >> \in Seq(Nat)
  OBVIOUS
<1>2. /\ cache' = keep /\ db' = [j \in Keys |-> IF j \in keep THEN db[j] ELSE << >>]
      /\ loose' = loose \cap keep
  BY DEF srch_cache_renew, NoDb
<1>3. \A j \in Keys : (IF j \in keep THEN db[j] ELSE << >>) \in Seq(Nat)
  BY <1>1
<1> QED BY <1>2, <1>3

\* What a freed entry leaves behind breaks no invariant on handles.
LEMMA Freed ==
    ASSUME SInv, layout' = layout, loose' \subseteq loose, db' \in [Keys -> Seq(Nat)],
           \A j \in Keys : (db'[j] = db[j] /\ (j \in loose => j \in loose')) \/ db'[j] = << >>
    PROVE  HandleInv' /\ OneGeneration'
<1>1. HandleInv'
  BY DEF SInv, HandleInv
<1>2. OneGeneration'
  BY DEF SInv, OneGeneration, Shards
<1> QED BY <1>1, <1>2

\* A new request takes or makes an entry; freeing the others spares it.
LEMMA DispatchStep ==
    ASSUME SInv, NEW k \in Keys, dispatch(k)
    PROVE  SInv'
<1>0. /\ SType /\ DiskInv
      /\ pc = "idle" /\ pc' = "lock" /\ mode' # "again" /\ cur' = k /\ opened' = << >>
      /\ seen' = swaps[IndexOf[k]] /\ sh' = sh
      /\ gen' = gen /\ layout' = layout /\ swaps' = swaps /\ ex' = ex
  BY DEF SInv, dispatch, Receives, diskVars
<1>1. /\ cache' \in SUBSET Keys /\ k \in cache' /\ loose' \subseteq loose
      /\ db' \in [Keys -> Seq(Nat)]
      /\ \A j \in Keys : (db'[j] = db[j] /\ (j \in loose => j \in loose')) \/ db'[j] = << >>
  <2>1. CASE k \in cache
    BY <1>0, <2>1 DEF dispatch, srchVars, SType
  <2>2. CASE k \notin cache
    <3>1. srch_init(k)
      BY <2>2 DEF dispatch
    <3>2. CASE shard_nfd + nfd(k) > my_fd_max
      <4>1. srch_cache_renew({k}) /\ {k} \in SUBSET Keys
        BY <3>1, <3>2 DEF srch_init, Count
      <4> QED BY <1>0, <4>1, RenewKeeps DEF SType
    <3>3. CASE ~(shard_nfd + nfd(k) > my_fd_max)
      BY <1>0, <3>1, <3>3 DEF srch_init, Count, SType
    <3> QED BY <3>2, <3>3
  <2> QED BY <2>1, <2>2
<1>2. SType'
  BY <1>0, <1>1, KeyFacts DEF SType
<1>3. DiskInv' /\ OpenInv' /\ HandleIsLive'
  BY <1>0, <1>1 DEF DiskInv, OpenInv, HandleIsLive, Shards
<1>4. QueryInv'
  BY <1>0, <1>1, KeyFacts DEF QueryInv, Querying, Working, SType
<1>5. HandleInv' /\ OneGeneration'
  BY <1>0, <1>1, Freed
<1> QED BY <1>2, <1>3, <1>4, <1>5 DEF SInv

\* A shard that is in place, opened under open.lock or not.
LEMMA ShardFacts ==
    ASSUME SInv, pc # "idle", NEW i \in 1 .. NShards[cur], gen[IndexOf[cur]][i] # -1
    PROVE  LET g == gen[IndexOf[cur]][i]
           IN  /\ g \in Nat /\ g < Len(layout[IndexOf[cur]])
               /\ Recent(i, g) /\ (sh => Newer(i, g))
<1> DEFINE x == IndexOf[cur]
           g == gen[x][i]
<1>1. SType /\ DiskInv /\ cur \in Keys /\ x \in Indices /\ i \in Places /\ i \in Nat
  BY KeyFacts DEF SInv, SType
<1>2. g \in Nat /\ swaps[x] \in Nat /\ seen \in Nat /\ seen <= swaps[x] /\ ex[x] \in BOOLEAN
  BY <1>1 DEF SInv, SType, QueryInv
<1>3. Len(layout[x]) = IF ex[x] THEN swaps[x] + 2 ELSE swaps[x] + 1
  BY <1>1 DEF DiskInv
<1>4. CASE ex[x]
  <2>1. g \in {swaps[x], swaps[x] + 1} /\ ~sh
    BY <1>1, <1>2, <1>4 DEF DiskInv
  <2> QED BY <1>2, <1>3, <1>4, <2>1 DEF Recent
<1>5. CASE ~ex[x]
  <2>1. g \in {swaps[x] - 1, swaps[x]} /\ (i <= Shards(x, swaps[x]) => g = swaps[x])
    BY <1>1, <1>2, <1>5 DEF DiskInv
  <2>2. Shards(x, swaps[x]) \in Nat
    <3>1. layout[x] \in Seq(Nat) /\ swaps[x] + 1 \in 1 .. Len(layout[x])
      BY <1>1, <1>2, <1>3, <1>5 DEF SType
    <3> QED BY <3>1 DEF Shards
  <2>3. g = swaps[x] \/ (g = swaps[x] - 1 /\ i > Shards(x, swaps[x]))
    BY <1>1, <1>2, <2>1, <2>2
  <2> QED BY <1>2, <1>3, <1>5, <2>3 DEF Recent, Newer
<1> QED BY <1>2, <1>4, <1>5

\* Taking open.lock and opening one shard after the other.
LEMMA OpenStep == SInv /\ (lock_shared_maybe \/ OpenShard \/ AllOpen) => SInv'
<1>1. ASSUME SInv, lock_shared_maybe PROVE SInv'
  <2>0. /\ SType /\ DiskInv /\ HandleInv /\ QueryInv /\ HandleIsLive /\ OneGeneration
        /\ pc = "lock" /\ pc' = "shard" /\ opened' = << >> /\ sh = FALSE /\ sh' \in BOOLEAN
        /\ (sh' => ~ex[IndexOf[cur]])
        /\ cache' = cache /\ db' = db /\ loose' = loose /\ cur' = cur /\ seen' = seen /\ mode' = mode
        /\ lacks' = lacks /\ gen' = gen /\ layout' = layout /\ swaps' = swaps /\ ex' = ex
    <3>1. /\ SType /\ DiskInv /\ HandleInv /\ QueryInv /\ HandleIsLive /\ OneGeneration
          /\ pc = "lock" /\ pc' = "shard" /\ opened' = << >>
          /\ cache' = cache /\ db' = db /\ loose' = loose /\ cur' = cur /\ seen' = seen /\ mode' = mode
          /\ lacks' = lacks /\ gen' = gen /\ layout' = layout /\ swaps' = swaps /\ ex' = ex
      BY <1>1 DEF SInv, lock_shared_maybe, Opening, OpeningRest, srchVars, diskVars
    <3>2. sh = FALSE
      BY <3>1 DEF DiskInv, SType
    <3>3. sh' = sh \/ (sh' = TRUE /\ ~ex[IndexOf[cur]])
      BY <1>1 DEF lock_shared_maybe
    <3> QED BY <3>1, <3>2, <3>3
  <2>1. SType' /\ DiskInv'
    BY <2>0 DEF SType, DiskInv, Shards
  <2>2. HandleInv' /\ QueryInv' /\ HandleIsLive' /\ OneGeneration'
    BY <2>0 DEF HandleInv, QueryInv, Querying, Recent, HandleIsLive, OneGeneration, Working, Shards
  <2>3. OpenInv'
    BY <2>0, KeyFacts DEF OpenInv, SType
  <2> QED BY <2>1, <2>2, <2>3 DEF SInv
<1>2. ASSUME SInv, OpenShard PROVE SInv'
  <2> DEFINE n == Len(opened) + 1
             g == gen[IndexOf[cur]][n]
  <2>0. /\ SType /\ DiskInv /\ OpenInv /\ HandleInv /\ QueryInv /\ HandleIsLive /\ OneGeneration
        /\ pc = "shard" /\ Len(opened) < NShards[cur] /\ opened' = Append(opened, g) /\ g # -1
        /\ cache' = cache /\ db' = db /\ loose' = loose /\ cur' = cur /\ seen' = seen /\ sh' = sh /\ pc' = pc
        /\ mode' = mode /\ lacks' = lacks
        /\ gen' = gen /\ layout' = layout /\ swaps' = swaps /\ ex' = ex
    BY <1>2 DEF SInv, OpenShard, srchVars, diskVars
  <2>1. cur \in Keys /\ n \in 1 .. NShards[cur] /\ opened \in Seq(Nat) /\ NShards[cur] \in Nat
    BY <2>0, KeyFacts DEF SType
  <2>2. /\ g \in Nat /\ g < Len(layout[IndexOf[cur]])
        /\ Recent(n, g) /\ (sh => Newer(n, g))
    BY <1>2, <2>0, <2>1, ShardFacts
  <2>3. SType'
    BY <2>0, <2>1, <2>2 DEF SType
  <2>4. DiskInv' /\ HandleInv' /\ QueryInv' /\ HandleIsLive' /\ OneGeneration'
    BY <2>0 DEF DiskInv, HandleInv, QueryInv, Querying, Recent, HandleIsLive, OneGeneration, Working, Shards
  <2>5. OpenInv'
    <3> HIDE DEF g
    <3>1. Len(opened') = n /\ \A i \in 1 .. n : opened'[i] = IF i = n THEN g ELSE opened[i]
      BY <2>0, <2>1, <2>2
    <3>2. \A i \in 1 .. n : i = n \/ i \in 1 .. Len(opened)
      BY <2>1
    <3>3. \A i \in 1 .. n : /\ opened'[i] < Len(layout[IndexOf[cur]])
                            /\ Recent(i, opened'[i]) /\ (sh => Newer(i, opened'[i]))
      BY <2>0, <2>2, <3>1, <3>2 DEF OpenInv
    <3>4. n <= NShards[cur]
      BY <2>1
    <3>5. \A i, v : (Recent(i, v))' = Recent(i, v') /\ (Newer(i, v))' = Newer(i, v')
      BY <2>0 DEF Recent, Newer, Shards
    <3> QED BY <2>0, <3>1, <3>3, <3>4 DEF OpenInv, Recent, Newer, Shards
  <2> QED BY <2>3, <2>4, <2>5 DEF SInv
<1>3. ASSUME SInv, AllOpen PROVE SInv'
  <2>0. /\ SType /\ DiskInv /\ OpenInv /\ HandleInv /\ QueryInv /\ HandleIsLive /\ OneGeneration
        /\ pc = "shard" /\ Len(opened) = NShards[cur] /\ db' = [db EXCEPT ![cur] = opened]
        /\ lacks' = FALSE /\ pc' = "query" /\ opened' = << >> /\ sh' = FALSE
        /\ loose' = IF sh THEN loose \ {cur} ELSE loose \union {cur}
        /\ cache' = cache /\ cur' = cur /\ seen' = seen
        /\ gen' = gen /\ layout' = layout /\ swaps' = swaps /\ ex' = ex
    BY <1>3 DEF SInv, AllOpen, diskVars
  <2>1. cur \in Keys /\ db'[cur] = opened /\ opened # << >> /\ cur \in cache /\ opened \in Seq(Nat)
    BY <2>0, KeyFacts DEF SType, HandleIsLive
  <2>2. \A k \in Keys : k # cur => db'[k] = db[k]
    BY <2>0 DEF SType
  <2>3. SType'
    <3>1. db' \in [Keys -> Seq(Nat)] /\ opened' \in Seq(Nat)
      BY <2>0, <2>1 DEF SType
    <3> QED BY <2>0, <2>1, <3>1 DEF SType
  <2>4. DiskInv' /\ OpenInv' /\ HandleIsLive'
    BY <2>0, <2>1 DEF DiskInv, OpenInv, HandleIsLive, Shards, NoDb
  <2>5. HandleInv'
    BY <2>0, <2>1, <2>2 DEF HandleInv, OpenInv
  <2>6. QueryInv'
    BY <2>0, <2>1 DEF QueryInv, OpenInv, Recent, NoDb, Shards
  <2>7. OneGeneration'
    <3> SUFFICES ASSUME NEW k \in Keys, k \notin loose', NEW i \in 1 .. Len(db'[k]), NEW j \in 1 .. Len(db'[k]),
                        db'[k][i] > db'[k][j]
                 PROVE  j > Shards(IndexOf[k], db'[k][i])
      BY <2>0 DEF OneGeneration, Shards
    <3>1. CASE k # cur
      BY <2>0, <2>2, <3>1 DEF OneGeneration
    <3>2. CASE k = cur
      <4>1. sh /\ Newer(i, opened[i]) /\ Newer(j, opened[j]) /\ swaps[IndexOf[cur]] \in Nat
        BY <2>0, <2>1, <3>2, KeyFacts DEF OpenInv, SType
      <4> QED BY <2>1, <3>2, <4>1 DEF Newer
    <3> QED BY <3>1, <3>2
  <2> QED BY <2>3, <2>4, <2>5, <2>6, <2>7 DEF SInv
<1> QED BY <1>1, <1>2, <1>3

\* A reopen that fails half way leaves the rest of the shards as they were.
LEMMA TornIs ==
    ASSUME SInv, pc = "shard", mode = "again"
    PROVE  /\ Torn \in Seq(Nat) /\ Len(Torn) = Len(db[cur]) /\ Torn # NoDb
           /\ (opened = << >> => Torn = db[cur])
           /\ \A i \in 1 .. Len(Torn) : /\ Torn[i] < Len(layout[IndexOf[cur]])
                                        /\ Recent(i, Torn[i])
<1> DEFINE d == db[cur]
           n == Len(opened)
           t == SubSeq(d, n + 1, Len(d))
<1>1. /\ cur \in Keys /\ d \in Seq(Nat) /\ opened \in Seq(Nat) /\ Len(d) = NShards[cur] /\ n <= Len(d)
      /\ Len(d) \in Nat /\ n \in Nat /\ d # NoDb
  BY KeyFacts DEF SInv, SType, OpenInv, HandleInv, QueryInv, Querying, Working, NoDb
<1>2. /\ \A i \in 1 .. Len(d) : d[i] < Len(layout[IndexOf[cur]]) /\ Recent(i, d[i])
      /\ \A i \in 1 .. n : opened[i] < Len(layout[IndexOf[cur]]) /\ Recent(i, opened[i])
  BY <1>1 DEF SInv, OpenInv, HandleInv, QueryInv, Querying, Working
<1> HIDE DEF d
<1>3. t \in Seq(Nat) /\ Len(t) = Len(d) - n /\ \A i \in 1 .. Len(d) - n : t[i] = d[n + i]
  <2>1. \A i \in n + 1 .. Len(d) : d[i] \in Nat
    BY <1>1 DEF n
  <2>2. /\ t \in Seq(Nat) /\ Len(t) = IF n + 1 <= Len(d) THEN Len(d) - (n + 1) + 1 ELSE 0
        /\ \A i \in 1 .. Len(d) - (n + 1) + 1 : t[i] = d[(n + 1) + i - 1]
    <3>1. n + 1 \in Int /\ Len(d) \in Int
      BY <1>1
    <3> HIDE DEF n
    <3> QED BY <2>1, <3>1, SubSeqProperties
  <2> HIDE DEF t, n
  <2>3. \A i \in 1 .. Len(d) - n : i \in Int /\ i \in 1 .. Len(d) - (n + 1) + 1 /\ (n + 1) + i - 1 = n + i
    BY <1>1
  <2>4. Len(t) = Len(d) - n
    BY <1>1, <2>2
  <2> QED BY <2>2, <2>3, <2>4
<1>4. Torn = opened \o t
  BY DEF Torn, d
<1> HIDE DEF t, n
<1>5. /\ Torn \in Seq(Nat) /\ Len(Torn) = Len(d)
      /\ \A i \in 1 .. Len(d) : Torn[i] = IF i <= n THEN opened[i] ELSE t[i - n]
  <2>1. /\ Torn \in Seq(Nat) /\ Len(Torn) = n + Len(t)
        /\ \A i \in 1 .. n + Len(t) : Torn[i] = IF i <= n THEN opened[i] ELSE t[i - n]
    BY <1>1, <1>3, <1>4, ConcatProperties DEF n
  <2>2. n + Len(t) = Len(d)
    BY <1>1, <1>3
  <2> QED BY <2>1, <2>2
<1>6. \A i \in 1 .. Len(d) : Torn[i] = IF i <= n THEN opened[i] ELSE d[i]
  <2> SUFFICES ASSUME NEW i \in 1 .. Len(d) PROVE Torn[i] = IF i <= n THEN opened[i] ELSE d[i]
    OBVIOUS
  <2>1. CASE i <= n
    BY <1>5, <2>1
  <2>2. CASE ~(i <= n)
    <3>1. i - n \in 1 .. Len(d) - n /\ n + (i - n) = i
      BY <1>1, <2>2
    <3>2. Torn[i] = t[i - n]
      BY <1>5, <2>2
    <3>3. t[i - n] = d[n + (i - n)]
      BY <1>3, <3>1
    <3> QED BY <2>2, <3>1, <3>2, <3>3
  <2> QED BY <2>1, <2>2
<1>7. \A i \in 1 .. Len(d) : Torn[i] < Len(layout[IndexOf[cur]]) /\ Recent(i, Torn[i])
  BY <1>1, <1>2, <1>6 DEF n
<1>8. Torn # NoDb
  BY <1>1, <1>5 DEF NoDb
<1>9. ASSUME opened = << >> PROVE Torn = d
  <2>1. n = 0
    BY <1>9 DEF n
  <2>2. SubSeq(d, 0 + 1, Len(d)) = d
    BY <1>1, SubSeqFull
  <2>3. t = d
    BY <2>1, <2>2 DEF t
  <2> QED BY <1>1, <1>4, <1>9, <2>3, ConcatEmptySeq
<1> QED BY <1>1, <1>5, <1>7, <1>8, <1>9 DEF d

\* The next query string, or the end of the request.
LEMMA ThrowStep ==
    ASSUME NEW knowing, NEW fails, Throw(knowing, fails)
    PROVE  /\ opened' = << >> /\ sh' = FALSE
           /\ \/ pc' = "query" /\ UNCHANGED <<mode, cur, seen, lacks>>
              \/ pc' = "idle" /\ seen' = 0 /\ mode' = "none"
BY DEF Throw, EndRequest

\* A failure to open: the entry in use survives the retry with an empty cache.
LEMMA OpenFailsStep == SInv /\ OpenFails => SInv'
<1> SUFFICES ASSUME SInv, OpenFails PROVE SInv'
  OBVIOUS
<1>0. /\ SType /\ DiskInv /\ HandleInv /\ QueryInv /\ HandleIsLive /\ OneGeneration
      /\ pc = "shard" /\ cur \in Keys /\ cur \in cache
      /\ gen' = gen /\ layout' = layout /\ swaps' = swaps /\ ex' = ex
  BY DEF SInv, OpenFails, diskVars, SType, HandleIsLive
<1>1. CASE mode = "open1"
  <2>1. /\ srch_cache_renew({cur}) /\ {cur} \in SUBSET Keys /\ pc' = "lock" /\ mode' = "open2"
        /\ cur' = cur /\ seen' = seen /\ lacks' = lacks /\ opened' = << >> /\ sh' = FALSE
    BY <1>0, <1>1 DEF OpenFails
  <2>2. /\ cache' = {cur} /\ db' \in [Keys -> Seq(Nat)] /\ loose' \subseteq loose
        /\ \A j \in Keys : (db'[j] = db[j] /\ (j \in loose => j \in loose')) \/ db'[j] = << >>
    BY <1>0, <2>1, RenewKeeps DEF SType
  <2>3. SType'
    BY <1>0, <2>1, <2>2, KeyFacts DEF SType
  <2>4. DiskInv' /\ OpenInv' /\ QueryInv' /\ HandleIsLive'
    BY <1>0, <2>1, <2>2 DEF DiskInv, OpenInv, QueryInv, Querying, HandleIsLive, Working, Shards
  <2>5. HandleInv' /\ OneGeneration'
    BY <1>0, <2>2, Freed
  <2> QED BY <2>3, <2>4, <2>5 DEF SInv
<1>2. CASE mode = "again"
  <2>1. /\ \E knowing, fails : Throw(knowing, fails)
        /\ db' = [db EXCEPT ![cur] = Torn] /\ cache' = cache
        /\ loose' = IF opened = << >> THEN loose ELSE loose \union {cur}
    BY <1>2 DEF OpenFails
  <2>2. /\ opened' = << >> /\ sh' = FALSE
        /\ \/ pc' = "query" /\ cur' = cur /\ seen' = seen /\ lacks' = lacks
           \/ pc' = "idle" /\ seen' = 0 /\ mode' = "none"
    BY <2>1, ThrowStep
  <2> DEFINE t == Torn
  <2>3. /\ t \in Seq(Nat) /\ Len(t) = Len(db[cur]) /\ t # NoDb /\ (opened = << >> => t = db[cur])
        /\ \A i \in 1 .. Len(t) : t[i] < Len(layout[IndexOf[cur]]) /\ Recent(i, t[i])
    BY <1>0, <1>2, TornIs
  <2> HIDE DEF t
  <2>4. /\ db' \in [Keys -> Seq(Nat)] /\ db'[cur] = t /\ \A k \in Keys : k # cur => db'[k] = db[k]
    BY <1>0, <2>1, <2>3 DEF SType, t
  <2>5. SType'
    <3>1. opened' \in Seq(Nat) /\ sh' \in BOOLEAN
      BY <1>0, <2>2, KeyFacts DEF SType
    <3>2. seen' \in Nat /\ (pc' # "idle" => cur' \in Keys)
      BY <1>0, <2>2, KeyFacts DEF SType
    <3> QED BY <3>2, <1>0, <2>1, <2>4, <3>1 DEF SType
  <2>6. DiskInv' /\ OpenInv' /\ HandleIsLive'
    BY <1>0, <2>1, <2>2, <2>3, <2>4 DEF DiskInv, OpenInv, HandleIsLive, Shards
  <2>7. HandleInv'
    BY <1>0, <2>3, <2>4 DEF HandleInv
  <2>8. QueryInv'
    BY <1>0, <1>2, <2>2, <2>3, <2>4 DEF QueryInv, Querying, Working, Recent, Shards
  <2>9. OneGeneration'
    BY <1>0, <2>1, <2>3, <2>4 DEF OneGeneration, Shards
  <2> QED BY <2>5, <2>6, <2>7, <2>8, <2>9 DEF SInv
<1>3. CASE mode \notin {"open1", "again"}
  <2>1. /\ pc' = "dead" /\ opened' = << >> /\ sh' = FALSE /\ mode' = mode
        /\ cache' = cache /\ db' = db /\ loose' = loose /\ cur' = cur /\ seen' = seen
    BY <1>3 DEF OpenFails, srchVars
  <2>2. SType'
    BY <1>0, <2>1, KeyFacts DEF SType
  <2>3. DiskInv' /\ OpenInv' /\ HandleInv'
    BY <1>0, <2>1 DEF DiskInv, OpenInv, HandleInv, Shards
  <2>4. QueryInv' /\ HandleIsLive' /\ OneGeneration'
    BY <1>0, <2>1 DEF QueryInv, Querying, HandleIsLive, OneGeneration, Working, Shards
  <2> QED BY <2>2, <2>3, <2>4 DEF SInv
<1> QED BY <1>1, <1>2, <1>3

\* What cmd_mset does with an open handle.
QueryStep == Narrow \/ Answer \/ enquire_mset \/ qry_xpand_col \/ xpand_col_iter \/ apply_roots_filter

\* It leaves the handle as it is.
LEMMA QueryFacts ==
    ASSUME QueryStep
    PROVE  /\ pc = "query" /\ cache' = cache /\ db' = db /\ loose' = loose /\ shard_nfd' = shard_nfd
           /\ gen' = gen /\ layout' = layout /\ swaps' = swaps /\ ex' = ex
           /\ \/ pc' \in {"query", "lock"} /\ UNCHANGED <<cur, seen, lacks>>
              \/ pc' = "idle" /\ seen' = 0
           /\ opened' \in {opened, << >>} /\ sh' \in {sh, FALSE}
<1>1. CASE Narrow \/ xpand_col_iter \/ apply_roots_filter
  BY <1>1 DEF Narrow, xpand_col_iter, apply_roots_filter, Skip, DocNotFound, At, Again, Rest, srchVars, diskVars
<1>2. CASE Answer
  BY <1>2 DEF Answer, EndRequest, At, srchVars, diskVars
<1>3. CASE qry_xpand_col
  BY <1>3, ThrowStep DEF qry_xpand_col, At, srchVars, diskVars
<1>4. CASE enquire_mset
  BY <1>4, ThrowStep DEF enquire_mset, Modified, At, Again, Rest, srchVars, diskVars
<1> QED BY <1>1, <1>2, <1>3, <1>4 DEF QueryStep

\* The end of a request, a retry and a new worker.
LEMMA EndStep == SInv /\ (QueryStep \/ Restart) => SInv'
<1>1. ASSUME SInv, QueryStep PROVE SInv'
  <2>1. SType /\ DiskInv /\ HandleInv /\ QueryInv /\ HandleIsLive /\ OneGeneration /\ << >> \in Seq(Nat)
    BY <1>1 DEF SInv
  <2>2. SType'
    <3>1. opened' \in Seq(Nat) /\ sh' \in BOOLEAN
      BY <1>1, <2>1, QueryFacts DEF SType
    <3>2. seen' \in Nat /\ (pc' # "idle" => cur' \in Keys)
      BY <1>1, <2>1, QueryFacts DEF SType
    <3> QED BY <3>2, <1>1, <2>1, <3>1, QueryFacts DEF SType
  <2>3. DiskInv' /\ HandleInv' /\ OpenInv'
    <3>1. sh = FALSE
      BY <1>1, <2>1, QueryFacts DEF DiskInv, SType
    <3> QED BY <1>1, <2>1, <3>1, QueryFacts DEF DiskInv, HandleInv, OpenInv, Shards
  <2>4. QueryInv' /\ HandleIsLive' /\ OneGeneration'
    BY <1>1, <2>1, QueryFacts DEF QueryInv, Querying, HandleIsLive, OneGeneration, Working, Recent, Shards
  <2> QED BY <2>2, <2>3, <2>4 DEF SInv
<1>2. ASSUME SInv, Restart PROVE SInv'
  <2>1. /\ SType /\ DiskInv /\ pc' = "idle" /\ opened' = << >> /\ seen' = 0 /\ sh' = FALSE
        /\ gen' = gen /\ layout' = layout /\ swaps' = swaps /\ ex' = ex
    BY <1>2 DEF SInv, Restart, EndRequest, diskVars
  <2>2. cache' = {} /\ db' \in [Keys -> Seq(Nat)] /\ loose' \subseteq loose /\ \A j \in Keys : db'[j] = << >>
    <3>1. db \in [Keys -> Seq(Nat)] /\ srch_cache_renew({}) /\ {} \in SUBSET Keys
      BY <1>2 DEF SInv, SType, Restart
    <3> QED BY <3>1, RenewKeeps
  <2>3. SType'
    BY <2>1, <2>2, EmptySeq DEF SType
  <2>4. DiskInv' /\ OpenInv' /\ QueryInv' /\ HandleIsLive'
    BY <2>1, <2>2 DEF DiskInv, OpenInv, QueryInv, Querying, HandleIsLive, Working, Shards
  <2>5. HandleInv' /\ OneGeneration'
    BY <1>2, <2>1, <2>2, Freed
  <2> QED BY <2>3, <2>4, <2>5 DEF SInv
<1> QED BY <1>1, <1>2

\* What Xapcmd does to an index leaves handles and the request as they are; the
\* generations there have been keep their numbers of shards, and nothing changes
\* for the index a worker has locked.
LEMMA DiskKeeps ==
    ASSUME SInv, UNCHANGED <<cache, db, loose, reqVars>>,
           DOMAIN layout' = Indices, swaps' \in [Indices -> Nat],
           \A x \in Indices : /\ Len(layout[x]) <= Len(layout'[x]) /\ Len(layout'[x]) \in Nat
                             /\ \A g \in 1 .. Len(layout[x]) : layout'[x][g] = layout[x][g]
                             /\ swaps[x] <= swaps'[x]
           , sh => layout'[IndexOf[cur]] = layout[IndexOf[cur]] /\ swaps'[IndexOf[cur]] = swaps[IndexOf[cur]]
    PROVE  OpenInv' /\ HandleInv' /\ QueryInv' /\ HandleIsLive' /\ OneGeneration'
<1>0. /\ SType /\ DiskInv /\ OpenInv /\ HandleInv /\ QueryInv /\ HandleIsLive /\ OneGeneration
      /\ cache' = cache /\ db' = db /\ loose' = loose /\ pc' = pc /\ mode' = mode /\ cur' = cur
      /\ opened' = opened /\ sh' = sh /\ seen' = seen /\ lacks' = lacks
  BY DEF SInv, reqVars
<1>1. \A x \in Indices : /\ Len(layout[x]) \in Nat /\ swaps[x] \in Nat /\ swaps[x] < Len(layout[x])
                        /\ \A g \in Nat : g < Len(layout[x]) => layout'[x][g + 1] = layout[x][g + 1]
  <2> SUFFICES ASSUME NEW x \in Indices
               PROVE  /\ Len(layout[x]) \in Nat /\ swaps[x] \in Nat /\ swaps[x] < Len(layout[x])
                      /\ \A g \in Nat : g < Len(layout[x]) => layout'[x][g + 1] = layout[x][g + 1]
    OBVIOUS
  <2>1. layout[x] \in Seq(Nat) /\ Len(layout[x]) \in Nat /\ swaps[x] \in Nat
    BY <1>0 DEF SType
  <2>2. swaps[x] < Len(layout[x])
    BY <1>0, <2>1 DEF DiskInv
  <2>3. ASSUME NEW g \in Nat, g < Len(layout[x]) PROVE g + 1 \in 1 .. Len(layout[x])
    BY <2>1, <2>3
  <2> QED BY <2>1, <2>2, <2>3
<1>2. HandleInv'
  <2> SUFFICES ASSUME NEW k \in Keys
               PROVE  /\ Len(db[k]) \in {0, NShards[k]}
                      /\ \A i \in 1 .. Len(db[k]) : db[k][i] < Len(layout'[IndexOf[k]])
    BY <1>0 DEF HandleInv
  <2>1. IndexOf[k] \in Indices
    BY KeyFacts
  <2>2. \A i \in 1 .. Len(db[k]) : db[k][i] \in Nat /\ db[k][i] < Len(layout[IndexOf[k]])
    BY <1>0 DEF HandleInv, SType
  <2> QED BY <1>0, <1>1, <2>1, <2>2 DEF HandleInv
<1>3. ASSUME pc # "idle", NEW i \in Nat, NEW g \in Nat, Recent(i, g) PROVE Recent(i, g)'
  <2>1. IndexOf[cur] \in Indices /\ seen <= swaps[IndexOf[cur]] /\ seen \in Nat
    BY <1>0, <1>3, KeyFacts DEF SType, QueryInv
  <2>2. layout'[IndexOf[cur]][seen + 1] = layout[IndexOf[cur]][seen + 1]
    <3>1. seen < Len(layout[IndexOf[cur]])
      BY <1>1, <2>1
    <3> QED BY <1>1, <2>1, <3>1
  <2> QED BY <1>0, <1>3, <2>2 DEF Recent, Shards
<1>4. OpenInv'
  <2> SUFFICES ASSUME pc = "shard", NEW i \in 1 .. Len(opened)
               PROVE  /\ opened[i] < Len(layout'[IndexOf[cur]])
                      /\ Recent(i, opened[i])' /\ (sh => Newer(i, opened[i])')
    BY <1>0 DEF OpenInv, Recent, Newer
  <2>1. /\ IndexOf[cur] \in Indices /\ opened[i] \in Nat /\ i \in Nat
        /\ opened[i] < Len(layout[IndexOf[cur]]) /\ Recent(i, opened[i]) /\ (sh => Newer(i, opened[i]))
    BY <1>0, KeyFacts DEF SType, OpenInv
  <2>2. opened[i] < Len(layout'[IndexOf[cur]])
    BY <1>1, <2>1
  <2>3. Recent(i, opened[i])'
    BY <1>0, <1>3, <2>1
  <2>4. sh => Newer(i, opened[i])'
    BY <1>0, <2>1 DEF Newer, Shards
  <2> QED BY <2>2, <2>3, <2>4
<1>5. QueryInv'
  <2>1. pc # "idle" => seen <= swaps'[IndexOf[cur]]
    <3>1. pc # "idle" => IndexOf[cur] \in Indices /\ seen <= swaps[IndexOf[cur]] /\ seen \in Nat
      BY <1>0, KeyFacts DEF SType, QueryInv
    <3> QED BY <1>1, <3>1
  <2>2. ASSUME Querying, NEW i \in 1 .. Len(db[cur]) PROVE Recent(i, db[cur][i])'
    <3>1. pc # "idle" /\ db[cur][i] \in Nat /\ i \in Nat /\ Recent(i, db[cur][i])
      BY <1>0, <2>2 DEF QueryInv, Querying, Working, SType
    <3> QED BY <1>0, <1>3, <3>1
  <2> QED BY <1>0, <2>1, <2>2 DEF QueryInv, Querying, Working, Recent
<1>6. OneGeneration'
  <2> SUFFICES ASSUME NEW k \in Keys \ loose, NEW i \in 1 .. Len(db[k]), NEW j \in 1 .. Len(db[k]),
                      db[k][i] > db[k][j]
               PROVE  j > layout'[IndexOf[k]][db[k][i] + 1]
    BY <1>0 DEF OneGeneration, Shards
  <2>1. IndexOf[k] \in Indices /\ db[k][i] \in Nat /\ db[k][i] < Len(layout[IndexOf[k]])
    BY <1>0, KeyFacts DEF HandleInv, SType
  <2>2. j > layout[IndexOf[k]][db[k][i] + 1]
    BY <1>0 DEF OneGeneration, Shards
  <2> QED BY <1>1, <2>1, <2>2
<1> QED BY <1>0, <1>2, <1>4, <1>5, <1>6 DEF HandleIsLive

\* Indexer and Xapcmd: nothing they do reaches a handle, and no shard moves
\* while a worker holds open.lock.
LEMMA DiskStep ==
    ASSUME SInv, NEW x \in Indices, XapcmdLock(x) \/ Swap(x)
    PROVE  SInv'
<1>0. /\ SType /\ DiskInv
      /\ UNCHANGED <<cache, db, loose, reqVars>>
  BY DEF SInv, XapcmdLock, Swap, MoveAway, MoveIn, Move, XapcmdUnlock, RemoveCulled, srchVars
<1>a. pc' = pc /\ cur' = cur /\ opened' = opened /\ seen' = seen /\ sh' = sh /\ cache' = cache /\ db' = db
  BY <1>0 DEF reqVars
<1>b. layout \in [Indices -> Seq(Nat)] /\ swaps \in [Indices -> Nat] /\ ex \in [Indices -> BOOLEAN]
  BY <1>0 DEF SType
<1>c. sh => IndexOf[cur] \in Indices /\ ~ex[IndexOf[cur]]
  BY <1>0, KeyFacts DEF DiskInv, SType
<1>1. CASE XapcmdLock(x)
  <2>1. PICK n \in Layouts(x) : layout' = [layout EXCEPT ![x] = Append(layout[x], n)]
    BY <1>1 DEF XapcmdLock
  <2>2. /\ gen' = gen /\ swaps' = swaps /\ ex' = [ex EXCEPT ![x] = TRUE] /\ ~(sh /\ IndexOf[cur] = x)
        /\ ~ex[x] /\ Culled(x) = {}
    BY <1>1 DEF XapcmdLock
  <2>3. n \in Nat
    BY KeyAssumption DEF Layouts
  <2>4. /\ layout' \in [Indices -> Seq(Nat)] /\ Len(layout'[x]) = Len(layout[x]) + 1
        /\ \A y \in Indices : y # x => layout'[y] = layout[y]
        /\ \A g \in 1 .. Len(layout[x]) : layout'[x][g] = layout[x][g]
    <3>1. layout[x] \in Seq(Nat)
      BY <1>b
    <3>2. /\ Append(layout[x], n) \in Seq(Nat) /\ Len(Append(layout[x], n)) = Len(layout[x]) + 1
          /\ \A g \in 1 .. Len(layout[x]) : Append(layout[x], n)[g] = layout[x][g]
      BY <2>3, <3>1
    <3> QED BY <1>b, <2>1, <3>2
  <2>5. SType'
    BY <1>0, <1>a, <2>2, <2>4 DEF SType
  <2>6. \A y \in Indices : Len(layout[y]) \in Nat /\ Len(layout'[y]) \in Nat
    BY <1>b, <2>4
  <2>7. OpenInv' /\ HandleInv' /\ QueryInv' /\ HandleIsLive' /\ OneGeneration'
    <3>1. \A y \in Indices : /\ Len(layout[y]) <= Len(layout'[y]) /\ Len(layout'[y]) \in Nat
                             /\ \A g \in 1 .. Len(layout[y]) : layout'[y][g] = layout[y][g]
                             /\ swaps[y] <= swaps'[y]
      <4>1. \A y \in Indices : swaps[y] \in Nat /\ swaps'[y] = swaps[y]
        BY <1>b, <2>2
      <4>2. \A y \in Indices : y # x => Len(layout'[y]) = Len(layout[y])
        BY <2>4
      <4>3. \A y \in Indices : Len(layout[y]) <= Len(layout'[y])
        BY <2>4, <2>6, <4>2
      <4>4. \A y \in Indices : \A g \in 1 .. Len(layout[y]) : layout'[y][g] = layout[y][g]
        BY <2>4
      <4> QED BY <2>6, <4>1, <4>3, <4>4
    <3>2. sh => layout'[IndexOf[cur]] = layout[IndexOf[cur]] /\ swaps'[IndexOf[cur]] = swaps[IndexOf[cur]]
      BY <1>c, <2>2, <2>4
    <3> QED BY <1>0, <1>b, <2>2, <2>4, <3>1, <3>2, DiskKeeps
  <2>8. DiskInv'
    <3>1. \A i \in Places : gen[x][i] \in {-1, swaps[x]}
      <4> SUFFICES ASSUME NEW i \in Places, gen[x][i] # -1 PROVE gen[x][i] = swaps[x]
        OBVIOUS
      <4>1. i \notin Culled(x) /\ i \in Nat
        BY <2>2, KeyAssumption DEF Places
      <4>2. ~(i > Newest(x)) /\ Newest(x) = Shards(x, swaps[x]) /\ Newest(x) \in Nat
        <5>1. Len(layout[x]) = swaps[x] + 1 /\ swaps[x] + 1 \in 1 .. Len(layout[x]) /\ layout[x] \in Seq(Nat)
          BY <1>0, <1>b, <2>2 DEF DiskInv
        <5> QED BY <4>1, <5>1 DEF Culled, Newest, Shards
      <4>3. i <= Shards(x, swaps[x])
        BY <4>1, <4>2
      <4> QED BY <1>0, <2>2, <4>3 DEF DiskInv
    <3>2. \A y \in Indices : y # x => (ex'[y] <=> ex[y])
      BY <1>b, <2>2
    <3>3. ex'[x] /\ Len(layout'[x]) = swaps[x] + 2
      BY <1>0, <1>b, <2>2, <2>4 DEF DiskInv
    <3>4. \A y \in Indices : Len(layout'[y]) = IF ex'[y] THEN swaps'[y] + 2 ELSE swaps'[y] + 1
      BY <1>0, <2>2, <2>4, <3>2, <3>3 DEF DiskInv
    <3>5. \A y \in Indices : \A i \in Places :
             IF ex'[y] THEN gen'[y][i] \in {-1, swaps'[y], swaps'[y] + 1}
             ELSE /\ gen'[y][i] \in {-1, swaps'[y] - 1, swaps'[y]}
                  /\ i <= layout'[y][swaps'[y] + 1] => gen'[y][i] = swaps'[y]
      <4> SUFFICES ASSUME NEW y \in Indices, NEW i \in Places
                   PROVE  IF ex'[y] THEN gen'[y][i] \in {-1, swaps'[y], swaps'[y] + 1}
                          ELSE /\ gen'[y][i] \in {-1, swaps'[y] - 1, swaps'[y]}
                               /\ i <= layout'[y][swaps'[y] + 1] => gen'[y][i] = swaps'[y]
        OBVIOUS
      <4>1. CASE y = x
        BY <2>2, <3>1, <3>3, <4>1
      <4>2. CASE y # x
        BY <1>0, <2>2, <2>4, <3>2, <4>2 DEF DiskInv, Shards
      <4> QED BY <4>1, <4>2
    <3>6. sh => pc = "shard" /\ ~ex'[IndexOf[cur]]
      BY <1>0, <1>c, <2>2, <3>2 DEF DiskInv
    <3> QED BY <1>a, <3>4, <3>5, <3>6 DEF DiskInv, Shards
  <2> QED BY <2>5, <2>7, <2>8 DEF SInv
<1>2. CASE MoveAway(x) \/ MoveIn(x) \/ RemoveCulled(x)
  <2>1. layout' = layout /\ swaps' = swaps /\ ex' = ex
    BY <1>2 DEF MoveAway, MoveIn, RemoveCulled, Move
  <2>2. \E i : \E g \in {-1, swaps[x] + 1} :
           /\ gen' = [gen EXCEPT ![x] = [gen[x] EXCEPT ![i] = g]]
           /\ ~ex[x] => g = -1 /\ i \in Culled(x)
    <3>1. CASE MoveAway(x) \/ MoveIn(x)
      <4> DEFINE i == Max(Left(x))
      <4>1. \E g \in {-1, swaps[x] + 1} : gen' = [gen EXCEPT ![x] = [gen[x] EXCEPT ![i] = g]]
        BY <3>1 DEF MoveAway, MoveIn, Move
      <4>2. ex[x]
        BY <3>1 DEF MoveAway, MoveIn
      <4> HIDE DEF i
      <4> QED BY <4>1, <4>2
    <3>2. CASE RemoveCulled(x)
      BY <3>2 DEF RemoveCulled
    <3> QED BY <1>2, <3>1, <3>2
  <2>3. PICK i : \E g \in {-1, swaps[x] + 1} :
           /\ gen' = [gen EXCEPT ![x] = [gen[x] EXCEPT ![i] = g]]
           /\ ~ex[x] => g = -1 /\ i \in Culled(x)
    BY <2>2
  <2>4. PICK g \in {-1, swaps[x] + 1} :
           /\ gen' = [gen EXCEPT ![x] = [gen[x] EXCEPT ![i] = g]]
           /\ ~ex[x] => g = -1 /\ i \in Culled(x)
    BY <2>3
  <2>5. /\ DOMAIN gen' = Indices /\ \A y \in Indices : gen'[y] \in [Places -> Nat \union {-1}]
        /\ \A y \in Indices : \A j \in Places : gen'[y][j] = IF y = x /\ j = i THEN g ELSE gen[y][j]
    <3> DEFINE f == [gen[x] EXCEPT ![i] = g]
    <3>1. gen[x] \in [Places -> Nat \union {-1}] /\ g \in Nat \union {-1} /\ DOMAIN gen = Indices
      BY <1>0, <1>b DEF SType
    <3>2. f \in [Places -> Nat \union {-1}] /\ \A j \in Places : f[j] = IF j = i THEN g ELSE gen[x][j]
      BY <3>1
    <3>3. gen' = [gen EXCEPT ![x] = f]
      BY <2>4
    <3> HIDE DEF f
    <3> QED BY <1>0, <3>1, <3>2, <3>3 DEF SType
  <2>6. SType'
    BY <1>0, <1>a, <2>1, <2>5 DEF SType
  <2>7. DiskInv'
    <3>1. ~ex[x] => ~(i <= Shards(x, swaps[x])) /\ g = -1
      <4> SUFFICES ASSUME ~ex[x] PROVE ~(i <= Shards(x, swaps[x])) /\ g = -1
        OBVIOUS
      <4>1. i \in Places /\ i > Newest(x) /\ i \in Nat /\ g = -1
        BY <2>4, KeyAssumption DEF Culled, Places
      <4>2. Newest(x) = Shards(x, swaps[x]) /\ Newest(x) \in Nat
        <5>1. Len(layout[x]) = swaps[x] + 1 /\ swaps[x] + 1 \in 1 .. Len(layout[x]) /\ layout[x] \in Seq(Nat)
          BY <1>0, <1>b DEF DiskInv
        <5> QED BY <5>1 DEF Newest, Shards
      <4> QED BY <4>1, <4>2
    <3>2. \A y \in Indices : \A j \in Places :
             IF ex[y] THEN gen'[y][j] \in {-1, swaps[y], swaps[y] + 1}
             ELSE /\ gen'[y][j] \in {-1, swaps[y] - 1, swaps[y]}
                  /\ j <= Shards(y, swaps[y]) => gen'[y][j] = swaps[y]
      <4> SUFFICES ASSUME NEW y \in Indices, NEW j \in Places
                   PROVE  IF ex[y] THEN gen'[y][j] \in {-1, swaps[y], swaps[y] + 1}
                          ELSE /\ gen'[y][j] \in {-1, swaps[y] - 1, swaps[y]}
                               /\ j <= Shards(y, swaps[y]) => gen'[y][j] = swaps[y]
        OBVIOUS
      <4>1. CASE y = x /\ j = i
        BY <2>5, <3>1, <4>1
      <4>2. CASE ~(y = x /\ j = i)
        BY <1>0, <2>5, <4>2 DEF DiskInv
      <4> QED BY <4>1, <4>2
    <3> QED BY <1>0, <1>a, <2>1, <3>2 DEF DiskInv, Shards
  <2>8. OpenInv' /\ HandleInv' /\ QueryInv' /\ HandleIsLive' /\ OneGeneration'
    <3>1. \A y \in Indices : swaps[y] \in Nat /\ Len(layout[y]) \in Nat
      BY <1>b
    <3> QED BY <1>0, <1>b, <2>1, <3>1, DiskKeeps
  <2> QED BY <2>6, <2>7, <2>8 DEF SInv
<1>3. CASE XapcmdUnlock(x)
  <2>1. /\ ex[x] /\ Left(x) = {} /\ gen' = gen /\ layout' = layout
        /\ ex' = [ex EXCEPT ![x] = FALSE] /\ swaps' = [swaps EXCEPT ![x] = swaps[x] + 1]
    BY <1>3 DEF XapcmdUnlock
  <2>2. /\ swaps' \in [Indices -> Nat] /\ swaps'[x] = swaps[x] + 1 /\ ~ex'[x]
        /\ \A y \in Indices : y # x => swaps'[y] = swaps[y] /\ (ex'[y] <=> ex[y])
    BY <1>b, <2>1
  <2>3. \A i \in Places : i <= Newest(x) => gen[x][i] = swaps[x] + 1
    BY <2>1, KeyAssumption DEF Left, Places
  <2>4. SType'
    BY <1>0, <1>a, <2>1, <2>2 DEF SType
  <2>5. OpenInv' /\ HandleInv' /\ QueryInv' /\ HandleIsLive' /\ OneGeneration'
    <3>1. \A y \in Indices : swaps[y] \in Nat /\ Len(layout[y]) \in Nat /\ swaps[y] <= swaps'[y]
      BY <1>b, <2>2
    <3>2. sh => swaps'[IndexOf[cur]] = swaps[IndexOf[cur]]
      BY <1>c, <2>1, <2>2
    <3> QED BY <1>0, <1>b, <2>1, <2>2, <3>1, <3>2, DiskKeeps
  <2>6. DiskInv'
    <3>1. Len(layout[x]) = swaps[x] + 2 /\ Newest(x) = layout[x][swaps'[x] + 1] /\ swaps[x] \in Nat
      BY <1>0, <1>b, <2>1, <2>2 DEF DiskInv, Newest
    <3>2. \A i \in Places : gen[x][i] \in {-1, swaps'[x] - 1, swaps'[x]}
      <4>1. \A i \in Places : gen[x][i] \in {-1, swaps[x], swaps[x] + 1}
        BY <1>0, <2>1 DEF DiskInv
      <4>2. swaps'[x] - 1 = swaps[x]
        BY <2>2, <3>1
      <4> QED BY <2>2, <4>1, <4>2
    <3>3. \A y \in Indices : Len(layout[y]) = IF ex'[y] THEN swaps'[y] + 2 ELSE swaps'[y] + 1
      BY <1>0, <2>2, <3>1 DEF DiskInv
    <3>4. \A y \in Indices : \A i \in Places :
             IF ex'[y] THEN gen[y][i] \in {-1, swaps'[y], swaps'[y] + 1}
             ELSE /\ gen[y][i] \in {-1, swaps'[y] - 1, swaps'[y]}
                  /\ i <= layout[y][swaps'[y] + 1] => gen[y][i] = swaps'[y]
      BY <1>0, <2>2, <2>3, <3>1, <3>2 DEF DiskInv, Shards
    <3>5. sh => pc = "shard" /\ ~ex'[IndexOf[cur]]
      BY <1>0, <1>c, <2>1, <2>2 DEF DiskInv
    <3> QED BY <1>a, <2>1, <3>3, <3>4, <3>5 DEF DiskInv, Shards
  <2> QED BY <2>4, <2>5, <2>6 DEF SInv
<1> QED BY <1>1, <1>2, <1>3 DEF Swap

-----------------------------------------------------------------------------
\* Nothing that the invariant is about.
LEMMA Frame ==
    ASSUME SInv, UNCHANGED <<cache, db, loose, pc, mode, cur, opened, sh, seen, lacks, diskVars>>
    PROVE  SInv'
<1>1. /\ pc' = pc /\ mode' = mode /\ cur' = cur /\ opened' = opened /\ seen' = seen /\ lacks' = lacks
      /\ sh' = sh /\ cache' = cache /\ db' = db /\ loose' = loose
      /\ gen' = gen /\ layout' = layout /\ swaps' = swaps /\ ex' = ex
  BY DEF diskVars
<1>2. SType' /\ DiskInv'
  BY <1>1 DEF SInv, SType, DiskInv, Shards
<1>3. OpenInv' /\ HandleInv' /\ QueryInv'
  BY <1>1 DEF SInv, OpenInv, HandleInv, QueryInv, Querying, Recent, Newer, Working, Shards
<1>4. HandleIsLive' /\ OneGeneration'
  BY <1>1 DEF SInv, HandleIsLive, OneGeneration, Shards
<1> QED BY <1>2, <1>3, <1>4 DEF SInv

\* SInv is inductive.
LEMMA NextSInv == SInv /\ [Next]_vars => SInv'
<1> SUFFICES ASSUME SInv, [Next]_vars PROVE SInv'
  OBVIOUS
<1>1. CASE Worker
  BY <1>1, OpenStep, OpenFailsStep, EndStep DEF Worker, QueryStep
<1>2. ASSUME NEW k \in Keys, dispatch(k) PROVE SInv'
  BY <1>2, DispatchStep
<1>3. ASSUME NEW x \in Indices, Commit(x) PROVE SInv'
  BY <1>3, Frame DEF Commit
<1>4. ASSUME NEW x \in Indices, XapcmdLock(x) \/ Swap(x) PROVE SInv'
  BY <1>4, DiskStep
<1>5. CASE UNCHANGED vars
  BY <1>5, Frame DEF vars, srchVars, reqVars
<1> QED BY <1>1, <1>2, <1>3, <1>4, <1>5 DEF Next

\* A worker that has just started.
LEMMA InitSInv == Init => SInv
<1> SUFFICES ASSUME Init PROVE SInv
  OBVIOUS
<1>1. << >> \in Seq(Nat)
  OBVIOUS
<1>2. PICK n \in [Indices -> {NShards[k] : k \in Keys}] :
         /\ layout = [x \in Indices |-> <<n[x]>>]
         /\ gen = [x \in Indices |-> [i \in Places |-> IF i <= n[x] THEN 0 ELSE -1]]
  BY DEF Init
<1>3. \A x \in Indices : n[x] \in Nat
  BY <1>2, KeyAssumption
<1>4. SType
  <2>1. /\ cache \in SUBSET Keys /\ opened \in Seq(Nat) /\ swaps \in [Indices -> Nat] /\ seen \in Nat
        /\ sh \in BOOLEAN /\ ex \in [Indices -> BOOLEAN] /\ pc = "idle"
    BY <1>1 DEF Init
  <2>2. db \in [Keys -> Seq(Nat)]
    BY <1>1 DEF Init, NoDb
  <2>3. layout \in [Indices -> Seq(Nat)]
    BY <1>2, <1>3
  <2>4. DOMAIN gen = Indices /\ \A x \in Indices : gen[x] \in [Places -> Nat \union {-1}]
    BY <1>2
  <2> QED BY <2>1, <2>2, <2>3, <2>4 DEF SType
<1>5. DiskInv
  <2>1. \A x \in Indices : ~ex[x] /\ swaps[x] = 0 /\ Len(layout[x]) = 1 /\ Shards(x, 0) = n[x]
    BY <1>2, <1>3 DEF Init, Shards
  <2>2. \A x \in Indices : \A i \in Places : gen[x][i] = IF i <= n[x] THEN 0 ELSE -1
    BY <1>2
  <2>3. ~sh
    BY DEF Init
  <2>4. \A x \in Indices : \A i \in Places : gen[x][i] \in {-1, 0} /\ (i <= Shards(x, 0) => gen[x][i] = 0)
    BY <2>1, <2>2
  <2>5. \A x \in Indices : Len(layout[x]) = IF ex[x] THEN swaps[x] + 2 ELSE swaps[x] + 1
    <3> SUFFICES ASSUME NEW x \in Indices PROVE Len(layout[x]) = IF ex[x] THEN swaps[x] + 2 ELSE swaps[x] + 1
      OBVIOUS
    <3>0. ~ex[x] /\ Len(layout[x]) = 1 /\ swaps[x] = 0
      BY <2>1, Zenon
    <3>1. ~ex[x] /\ Len(layout[x]) = swaps[x] + 1
      BY <3>0
    <3> QED BY <3>1
  <2>6. \A x \in Indices : \A i \in Places :
           /\ gen[x][i] \in {-1, swaps[x] - 1, swaps[x]}
           /\ i <= Shards(x, swaps[x]) => gen[x][i] = swaps[x]
    BY <2>1, <2>4
  <2> QED BY <2>1, <2>3, <2>5, <2>6 DEF DiskInv
<1>6. OpenInv /\ QueryInv /\ HandleIsLive
  BY DEF Init, OpenInv, QueryInv, Querying, HandleIsLive, Working
<1>7. HandleInv /\ OneGeneration
  BY DEF Init, HandleInv, OneGeneration, NoDb
<1> QED BY <1>4, <1>5, <1>6, <1>7 DEF SInv

\* The inductive invariant holds in every reachable state.
THEOREM SrchInvariant == Spec => []SInv
BY InitSInv, NextSInv, PTL DEF Spec

\* The handle a request works with is never freed under it, for every limit on
\* descriptors and any number of indices.
THEOREM HandleIsLiveHolds == Spec => []HandleIsLive
BY SrchInvariant, PTL DEF SInv

\* A handle that was opened under open.lock mixes no generations of an index,
\* shards without a newer counterpart aside, however often and with however many
\* shards Xapcmd replaces them, whichever requests went without the lock before,
\* and whatever fails in between.
THEOREM OneGenerationHolds == Spec => []OneGeneration
BY SrchInvariant, PTL DEF SInv

\* What is searched has everything that was committed or replaced before its
\* request, with open.lock or without it.
THEOREM FreshAnswerHolds == Spec => []FreshAnswer
<1>1. SInv => FreshAnswer
  BY DEF SInv, QueryInv, Querying, Recent, FreshAnswer
<1> QED BY <1>1, SrchInvariant, PTL

-----------------------------------------------------------------------------
\* A worker opens shards without open.lock only if the request may have none, or
\* after a failure.
FailInv ==
    /\ nfail \in Nat /\ (mode = "open2" => pc # "idle")
    /\ pc = "shard" /\ ~sh /\ nfail = 0 => cur \in Bare

\* Replacing shards never ends a worker or makes it empty its cache, unless the
\* request goes without open.lock or names more shards than the index has had
\* since: only failures of the system do.
THEOREM SwapIsInvisibleHolds == Spec => []SwapIsInvisible
<1> DEFINE Inv == FailInv /\ SwapIsInvisible
<1>1. Init => Inv
  BY DEF Init, FailInv, SwapIsInvisible
<1>2. SInv /\ Inv /\ [Next]_vars => Inv'
  <2> SUFFICES ASSUME SInv, Inv, [Next]_vars PROVE Inv'
    OBVIOUS
  <2>0. nfail \in Nat /\ sh \in BOOLEAN /\ (sh => pc = "shard")
    BY DEF FailInv, SInv, SType, DiskInv
  <2>1. CASE OpenFails
    <3> DEFINE x == IndexOf[cur]
               i == Len(opened) + 1
    <3>1. /\ cur \in Keys /\ x \in Indices /\ i \in 1 .. NShards[cur] /\ i \in Places
          /\ pc = "shard" /\ UNCHANGED diskVars
      BY <2>1, KeyFacts DEF OpenFails, SInv, SType
    <3>2. PICK fails \in nfail .. MaxFail :
             /\ fails = nfail + 1 \/ (fails = nfail /\ gen[x][i] = -1)
             /\ \/ mode = "open1" /\ nfail' = fails /\ pc' = "lock" /\ UNCHANGED <<cur, seen>>
                \/ mode = "again" /\ \E knowing : Throw(knowing, fails)
                \/ mode \in {"open2", "reopen"} /\ nfail' = fails /\ pc' = "dead" /\ UNCHANGED <<cur, seen, mode>>
      BY <2>1 DEF OpenFails, srchVars
    <3>3. CASE mode = "again"
      <4>1. \/ pc' = "query" /\ nfail' = fails /\ mode' = mode
            \/ pc' = "idle" /\ nfail' = 0 /\ mode' = "none"
        BY <3>2, <3>3 DEF Throw, EndRequest
      <4> QED BY <2>0, <3>2, <3>3, <4>1 DEF FailInv, SwapIsInvisible
    <3>4. CASE mode # "again"
      <4>1. nfail' = fails /\ pc' \in {"lock", "dead"} /\ cur' = cur /\ seen' = seen
        BY <3>2, <3>4
      <4>2. fails \in Nat /\ (fails = 0 => nfail = 0 /\ gen[x][i] = -1)
        BY <2>0, <3>2
      <4>3. ASSUME nfail = 0, gen[x][i] = -1, cur \notin Bare
            PROVE  \E g \in seen .. swaps[x] : Shards(x, g) < NShards[cur]
        <5>1. sh /\ ~ex[x]
          BY <2>0, <3>1, <4>3 DEF FailInv, SInv, DiskInv
        <5>2. swaps[x] \in Nat /\ seen \in Nat /\ seen <= swaps[x] /\ NShards[cur] \in Nat
          BY <3>1, KeyFacts DEF SInv, SType, QueryInv
        <5>3. ~(i <= Shards(x, swaps[x]))
          BY <3>1, <4>3, <5>1, <5>2 DEF SInv, DiskInv
        <5>4. Shards(x, swaps[x]) \in Nat
          <6>1. layout[x] \in Seq(Nat) /\ swaps[x] + 1 \in 1 .. Len(layout[x])
            BY <3>1, <5>1, <5>2 DEF SInv, SType, DiskInv
          <6> QED BY <6>1 DEF Shards
        <5>5. Shards(x, swaps[x]) < NShards[cur]
          BY <3>1, <5>2, <5>3, <5>4
        <5> QED BY <5>2, <5>5
      <4> QED BY <3>1, <4>1, <4>2, <4>3 DEF FailInv, SwapIsInvisible, diskVars, Shards
    <3> QED BY <3>3, <3>4
  <2>2. CASE lock_shared_maybe
    <3>1. /\ pc = "lock" /\ pc' = "shard" /\ mode' = mode /\ cur' = cur /\ seen' = seen /\ UNCHANGED diskVars
          /\ \/ sh' = TRUE /\ nfail' = nfail
             \/ cur \in Bare /\ nfail' = nfail
             \/ nfail' = nfail + 1
      BY <2>2 DEF lock_shared_maybe, Opening, OpeningRest, diskVars
    <3> QED BY <2>0, <3>1 DEF FailInv, SwapIsInvisible, diskVars, Shards
  <2>3. CASE OpenShard \/ AllOpen
    <3>1. /\ pc = "shard" /\ pc' \in {"shard", "query"} /\ (pc' = "shard" => sh' = sh) /\ mode' = mode /\ cur' = cur
          /\ seen' = seen /\ nfail' = nfail /\ UNCHANGED diskVars
      BY <2>3 DEF OpenShard, AllOpen, diskVars
    <3> QED BY <2>0, <3>1 DEF FailInv, SwapIsInvisible, diskVars, Shards
  <2>4. CASE QueryStep
    <3>1. \/ pc' \in {"query", "lock"} /\ mode' \in {mode, "again"} /\ nfail' = nfail
          \/ pc' = "idle" /\ mode' = "none" /\ nfail' = 0
      BY <2>4 DEF QueryStep, Narrow, Answer, enquire_mset, Modified, qry_xpand_col, xpand_col_iter,
          apply_roots_filter, Skip, DocNotFound, Throw, EndRequest, Again, At, Rest
    <3>2. /\ pc = "query" /\ (pc' # "idle" => cur' = cur /\ seen' = seen)
          /\ layout' = layout /\ swaps' = swaps
      BY <2>4, QueryFacts
    <3> QED BY <2>0, <3>1, <3>2 DEF FailInv, SwapIsInvisible, Shards
  <2>5. CASE Restart
    BY <2>5 DEF Restart, EndRequest, FailInv, SwapIsInvisible
  <2>6. ASSUME NEW k \in Keys, dispatch(k) PROVE Inv'
    BY <2>0, <2>6 DEF dispatch, Receives, FailInv, SwapIsInvisible
  <2>7. ASSUME UNCHANGED <<pc, mode, cur, sh, seen, nfail>>,
               swaps' \in [Indices -> Nat] /\ \A y \in Indices : swaps[y] <= swaps'[y],
               \A y \in Indices : \A g \in 1 .. Len(layout[y]) : layout'[y][g] = layout[y][g]
        PROVE  Inv'
    <3>1. FailInv'
      BY <2>7 DEF FailInv
    <3>2. ASSUME nfail = 0, pc = "dead" \/ mode = "open2", cur \notin Bare
          PROVE  \E g \in seen .. swaps'[IndexOf[cur]] : layout'[IndexOf[cur]][g + 1] < NShards[cur]
      <4> DEFINE x == IndexOf[cur]
      <4>1. x \in Indices
        BY <3>2, KeyFacts DEF FailInv, SInv, SType
      <4>2. /\ swaps[x] \in Nat /\ swaps'[x] \in Nat /\ seen \in Nat
            /\ Len(layout[x]) \in Nat /\ swaps[x] < Len(layout[x])
        <5>1. swaps[x] \in Nat /\ seen \in Nat /\ layout[x] \in Seq(Nat)
          BY <4>1 DEF SInv, SType
        <5>2. swaps'[x] \in Nat
          BY <2>7, <4>1
        <5>3. swaps[x] < Len(layout[x])
          BY <4>1, <5>1 DEF SInv, DiskInv
        <5> QED BY <5>1, <5>2, <5>3
      <4>3. PICK g \in seen .. swaps[x] : layout[x][g + 1] < NShards[cur]
        BY <3>2 DEF SwapIsInvisible, Shards
      <4>4. g + 1 \in 1 .. Len(layout[x]) /\ g \in seen .. swaps'[x]
        BY <2>7, <4>1, <4>2
      <4> QED BY <2>7, <4>1, <4>3, <4>4
    <3>3. SwapIsInvisible'
      BY <2>7, <3>2 DEF SwapIsInvisible, Shards
    <3> QED BY <3>1, <3>3
  <2>8. ASSUME NEW x \in Indices, Commit(x) \/ XapcmdLock(x) \/ Swap(x) PROVE Inv'
    <3>1. UNCHANGED <<pc, mode, cur, sh, seen, nfail>>
      BY <2>8 DEF Commit, XapcmdLock, Swap, MoveAway, MoveIn, Move, XapcmdUnlock, RemoveCulled, reqVars
    <3>2. swaps \in [Indices -> Nat] /\ layout \in [Indices -> Seq(Nat)]
      BY DEF SInv, SType
    <3>3. swaps' \in [Indices -> Nat] /\ \A y \in Indices : swaps[y] <= swaps'[y]
      <4>1. swaps' = swaps \/ swaps' = [swaps EXCEPT ![x] = @ + 1]
        BY <2>8 DEF Commit, XapcmdLock, Swap, MoveAway, MoveIn, Move, XapcmdUnlock, RemoveCulled, diskVars
      <4>2. CASE swaps' = swaps
        BY <3>2, <4>2
      <4>3. CASE swaps' = [swaps EXCEPT ![x] = @ + 1]
        BY <3>2, <4>3
      <4> QED BY <4>1, <4>2, <4>3
    <3>4. \A y \in Indices : \A g \in 1 .. Len(layout[y]) : layout'[y][g] = layout[y][g]
      <4>1. layout' = layout \/ \E n \in Layouts(x) : layout' = [layout EXCEPT ![x] = Append(@, n)]
        BY <2>8 DEF Commit, XapcmdLock, Swap, MoveAway, MoveIn, Move, XapcmdUnlock, RemoveCulled, diskVars
      <4>2. CASE layout' = layout
        BY <4>2
      <4>3. ASSUME NEW n \in Layouts(x), layout' = [layout EXCEPT ![x] = Append(@, n)],
                   NEW y \in Indices, NEW g \in 1 .. Len(layout[y])
            PROVE  layout'[y][g] = layout[y][g]
        <5>1. n \in Nat /\ layout[x] \in Seq(Nat)
          BY <3>2, KeyAssumption DEF Layouts
        <5>2. layout'[y] = IF y = x THEN Append(layout[x], n) ELSE layout[y]
          BY <3>2, <4>3
        <5> QED BY <4>3, <5>1, <5>2
      <4> QED BY <4>1, <4>2, <4>3
    <3> QED BY <2>7, <3>1, <3>3, <3>4
  <2>9. CASE UNCHANGED vars
    <3>1. UNCHANGED <<pc, mode, cur, sh, seen, nfail, swaps, layout>>
      BY <2>9 DEF vars, reqVars, diskVars
    <3>2. swaps \in [Indices -> Nat]
      BY DEF SInv, SType
    <3> QED BY <2>7, <3>1, <3>2
  <2> QED BY <2>1, <2>2, <2>3, <2>4, <2>5, <2>6, <2>8, <2>9 DEF Next, Worker, QueryStep
<1> QED BY <1>1, <1>2, SrchInvariant, PTL DEF Spec

-----------------------------------------------------------------------------
\* At least n commits were counted, or as many as are counted at all.
Counted(n) == load >= n \/ load >= Enough

\* Every failed attempt to narrow the query met two commits since the handle was
\* last opened; and the handle has the repository if the index always had it.
LoadInv ==
    /\ tries \in Nat /\ load \in Nat /\ age \in 0 .. 2
    /\ todo \in {<<"mset">>, <<"roots", "mset">>, <<"threads", "doc", "mset">>, <<"doc", "mset">>}
    /\ pc \in {"shard", "query"} /\ Len(todo) > 1 => Counted(2 * tries + age)
    /\ pc = "lock" /\ Len(todo) > 1 => Counted(2 * tries)
    /\ pc = "query" /\ repo = "always" /\ Whole(cur, db[cur]) => knows = TRUE

\* What a query string starts with.
LEMMA PlanFacts ==
    ASSUME NEW k \in Keys, NEW p \in Plans(k)
    PROVE  p \in {<<"mset">>, <<"roots", "mset">>, <<"threads", "doc", "mset">>, <<"doc", "mset">>}
BY DEF Plans

\* What is left to do for it.
LEMMA TodoFacts ==
    ASSUME LoadInv
    PROVE  /\ Head(todo) = "mset" => Len(todo) = 1
           /\ Head(todo) # "mset" => Len(todo) > 1
           /\ Head(todo) \in {"roots", "doc"} => Tail(todo) = <<"mset">>
           /\ Head(todo) = "threads" => Tail(todo) = <<"doc", "mset">>
           /\ Head(todo) \in {"mset", "roots", "doc", "threads"}
<1>1. CASE todo = <<"mset">>
  BY <1>1
<1>2. CASE todo = <<"roots", "mset">>
  BY <1>2
<1>3. CASE todo = <<"threads", "doc", "mset">>
  BY <1>3
<1>4. CASE todo = <<"doc", "mset">>
  BY <1>4
<1> QED BY <1>1, <1>2, <1>3, <1>4 DEF LoadInv

\* The next query string counts the commits that the handle lacks.
LEMMA LoadThrow ==
    ASSUME LoadInv, pc \in {"shard", "query"}, cur \in Keys, NEW knowing, NEW fails, Throw(knowing, fails),
           Whole(cur, db'[cur]) /\ repo = "always" => knowing \subseteq {TRUE},
           layout' = layout
    PROVE  LoadInv' /\ wide' = {}
<1>1. CASE left > 0
  <2> DEFINE a == IF pc = "shard" THEN 2 ELSE age
  <2>1. /\ pc' = "query" /\ todo' \in Plans(cur) /\ tries' = 0 /\ wide' = {} /\ age' = a
        /\ load' = (IF Len(todo') > 1 THEN a ELSE 0) /\ knows' \in knowing /\ cur' = cur /\ repo' = repo
    BY <1>1 DEF Throw, StartQuery
  <2>2. a \in 0 .. 2
    BY DEF LoadInv
  <2> HIDE DEF a
  <2>3. Whole(cur, db[cur])' = Whole(cur, db'[cur])
    BY <2>1 DEF Whole, Shards
  <2>4. todo' \in {<<"mset">>, <<"roots", "mset">>, <<"threads", "doc", "mset">>, <<"doc", "mset">>}
    BY <2>1, PlanFacts
  <2>5. Len(todo') > 1 => load' = a /\ tries' = 0 /\ age' = a
    BY <2>1
  <2>6. load' \in Nat
    BY <2>1, <2>2
  <2>7. pc' = "query" /\ repo' = "always" /\ Whole(cur, db[cur])' => knows' = TRUE
    BY <2>1, <2>3
  <2> QED BY <2>1, <2>2, <2>4, <2>5, <2>6, <2>7 DEF LoadInv, Counted
<1>2. CASE ~(left > 0)
  BY <1>2 DEF Throw, EndRequest, LoadInv
<1> QED BY <1>1, <1>2

\* Taking the lock and opening shards.
LEMMA LoadOpen ==
    ASSUME SInv, LoadInv, lock_shared_maybe \/ OpenShard \/ AllOpen \/ OpenFails
    PROVE  LoadInv' /\ wide' \subseteq wide
<1> USE BoundAssumption DEF Enough
<1>0. cur \in Keys /\ pc \in {"lock", "shard"}
  BY DEF SInv, SType, lock_shared_maybe, Opening, OpenShard, AllOpen, OpenFails
<1>1. CASE lock_shared_maybe \/ OpenShard
  <2>1. /\ tries' = tries /\ wide' = wide /\ load' = load /\ todo' = todo /\ pc' = "shard"
        /\ (pc = "lock" /\ age' = 0) \/ (pc = "shard" /\ age' \in {0, age})
    BY <1>1 DEF lock_shared_maybe, Opening, OpeningRest, OpenShard, qryVars
  <2>2. CASE pc = "lock" /\ age' = 0
    BY <2>1, <2>2 DEF LoadInv, Counted
  <2>3. CASE pc = "shard" /\ age' \in {0, age}
    <3>1. CASE age' = age
      BY <2>1, <2>3, <3>1 DEF LoadInv, Counted
    <3>2. CASE age' = 0
      <4>1. age >= 0 /\ age \in Int /\ tries \in Int /\ load \in Int
        BY DEF LoadInv
      <4>2. load >= 2 * tries + age => load >= 2 * tries + 0
        BY <4>1
      <4>3. Len(todo) > 1 => load >= 2 * tries + 0 \/ load >= Enough
        BY <2>3, <4>2 DEF LoadInv, Counted
      <4> QED BY <2>1, <2>3, <3>2, <4>3 DEF LoadInv, Counted
    <3> QED BY <2>3, <3>1, <3>2
  <2> QED BY <2>1, <2>2, <2>3
<1>2. CASE AllOpen
  <2>1. /\ tries' = tries /\ wide' = wide /\ load' = load /\ todo' = todo /\ age' = age /\ cur' = cur
        /\ pc = "shard" /\ pc' = "query" /\ db' = [db EXCEPT ![cur] = opened] /\ knows' \in Knowing(opened)
        /\ repo' = repo /\ layout' = layout
    BY <1>2 DEF AllOpen, qryVars, diskVars
  <2>2. db'[cur] = opened
    BY <1>0, <2>1 DEF SInv, SType
  <2>3. repo = "always" /\ Whole(cur, opened) => knows' = TRUE
    BY <2>1 DEF Knowing
  <2>4. Whole(cur, db[cur])' = Whole(cur, opened)
    BY <2>1, <2>2 DEF Whole, Shards
  <2> QED BY <2>1, <2>3, <2>4 DEF LoadInv, Counted
<1>3. CASE OpenFails
  <2>1. pc = "shard" /\ UNCHANGED diskVars
    BY <1>3 DEF OpenFails
  <2>2. CASE mode = "open1"
    <3>1. tries' = tries /\ wide' = wide /\ load' = load /\ todo' = todo /\ age' = 0 /\ pc' = "lock"
      BY <1>3, <2>2 DEF OpenFails, qryVars
    <3> QED BY <2>1, <3>1 DEF LoadInv, Counted
  <2>3. CASE mode = "again"
    <3>1. PICK fails : Throw(Knowing(Torn), fails)
      BY <1>3, <2>3 DEF OpenFails
    <3>2. db' = [db EXCEPT ![cur] = Torn] /\ layout' = layout
      BY <1>3, <2>1, <2>3 DEF OpenFails, diskVars
    <3>3. db'[cur] = Torn
      BY <1>0, <3>2 DEF SInv, SType
    <3>4. Whole(cur, db'[cur]) /\ repo = "always" => Knowing(Torn) \subseteq {TRUE}
      BY <3>3 DEF Knowing
    <3> QED BY <1>0, <2>1, <3>1, <3>2, <3>4, LoadThrow
  <2>4. CASE mode \notin {"open1", "again"}
    <3>1. tries' = tries /\ wide' = wide /\ load' = load /\ todo' = todo /\ age' = 0 /\ pc' = "dead"
      BY <1>3, <2>4 DEF OpenFails, qryVars
    <3> QED BY <3>1 DEF LoadInv
  <2> QED BY <2>2, <2>3, <2>4
<1> QED BY <1>1, <1>2, <1>3

\* What cmd_mset does with an open handle.
LEMMA LoadQuery ==
    ASSUME SInv, LoadInv, QueryStep
    PROVE  LoadInv' /\ Excused(wide' \ wide)
<1> USE BoundAssumption DEF Enough
<1>0. /\ pc = "query" /\ cur \in Keys /\ db' = db /\ layout' = layout
      /\ (cur' = cur => Whole(cur, db[cur])' = Whole(cur, db[cur]))
      /\ tries \in Nat /\ load \in Nat /\ age \in 0 .. 2
  <2>1. pc = "query" /\ db' = db /\ layout' = layout
    BY QueryFacts
  <2>2. cur \in Keys /\ tries \in Nat /\ load \in Nat /\ age \in 0 .. 2
    BY <2>1 DEF SInv, SType, LoadInv
  <2>3. cur' = cur => Whole(cur, db[cur])' = Whole(cur, db[cur])
    BY <2>1 DEF Whole, Shards
  <2> QED BY <2>1, <2>2, <2>3
<1>1. CASE Narrow
  <2>1. /\ pc' = pc /\ cur' = cur /\ age' = age /\ repo' = repo /\ knows' = knows
        /\ todo' = Tail(todo) /\ tries' = 0 /\ load' = IF Head(todo) = "threads" THEN age ELSE 0
        /\ wide' \ wide \subseteq {"partial"} \/ (wide' \ wide \subseteq {"unfiltered"} /\ ~knows /\ Whole(cur, db[cur]))
        /\ Head(todo) # "mset"
    BY <1>0, <1>1 DEF Narrow, NextPart, At, Rest
  <2>2. todo' \in {<<"mset">>, <<"doc", "mset">>} /\ (Head(todo) # "threads" => todo' = <<"mset">> /\ Len(todo') = 1)
    <3>1. Len(<<"mset">>) = 1
      OBVIOUS
    <3> QED BY <2>1, <3>1, TodoFacts
  <2>5. pc' = "query" /\ load' \in Nat /\ (Len(todo') > 1 => load' = age' /\ tries' = 0) /\ tries' = 0
    BY <1>0, <2>1, <2>2
  <2>6. pc' = "query" /\ repo' = "always" /\ Whole(cur, db[cur])' => knows' = TRUE
    BY <1>0, <2>1 DEF LoadInv
  <2>3. LoadInv'
    BY <1>0, <2>1, <2>2, <2>5, <2>6 DEF LoadInv, Counted
  <2>4. "unfiltered" \in wide' \ wide => repo # "always"
    BY <1>0, <2>1 DEF LoadInv
  <2> QED BY <2>1, <2>3, <2>4 DEF Excused
<1>2. CASE Answer
  <2>1. CASE EndRequest
    BY <2>1 DEF EndRequest, LoadInv, Excused
  <2>2. CASE ~EndRequest
    <3>1. /\ todo' \in Plans(cur) /\ tries' = 0 /\ wide' = {} /\ age' = age /\ load' = (IF Len(todo') > 1 THEN age ELSE 0)
          /\ pc' = pc /\ cur' = cur /\ repo' = repo /\ knows' = knows
      BY <1>2, <2>2 DEF Answer, StartQuery
    <3>2. todo' \in {<<"mset">>, <<"roots", "mset">>, <<"threads", "doc", "mset">>, <<"doc", "mset">>}
      BY <1>0, <3>1, PlanFacts
    <3>3. load' \in Nat /\ (Len(todo') > 1 => load' = age')
      BY <1>0, <3>1
    <3>4. pc' = "query" /\ repo' = "always" /\ Whole(cur, db[cur])' => knows' = TRUE
      BY <1>0, <3>1 DEF LoadInv
    <3> QED BY <1>0, <3>1, <3>2, <3>3, <3>4 DEF LoadInv, Counted, Excused
  <2> QED BY <2>1, <2>2
<1>3. ASSUME NEW fails, Throw({knows}, fails) PROVE LoadInv' /\ Excused(wide' \ wide)
  <2>1. Whole(cur, db'[cur]) /\ repo = "always" => {knows} \subseteq {TRUE}
    BY <1>0 DEF LoadInv
  <2>2. LoadInv' /\ wide' = {}
    BY <1>0, <1>3, <2>1, LoadThrow
  <2> QED BY <2>2 DEF Excused
<1>4. CASE enquire_mset
  <2>1. CASE \E fails : Throw({knows}, fails)
    BY <1>3, <2>1
  <2>2. CASE ~ \E fails : Throw({knows}, fails)
    <3>1. /\ Head(todo) = "mset" /\ todo' = todo /\ tries' = tries + 1 /\ load' = load /\ age' = age /\ pc' = "lock"
          /\ wide' = wide
      BY <1>4, <2>2 DEF enquire_mset, Modified, At, Again, Rest
    <3>2. Len(todo) = 1
      BY <3>1, TodoFacts
    <3> QED BY <1>0, <3>1, <3>2 DEF LoadInv, Excused
  <2> QED BY <2>1, <2>2
<1>5. ASSUME NEW part, NEW n \in Nat, part = "roots" => n = Retries, part = "doc" => n = Retries + 1,
             part \in {"roots", "doc"}, Skip(part, n)
      PROVE  LoadInv' /\ Excused(wide' \ wide)
  <2>1. Head(todo) = part /\ age = 2 /\ age' = age /\ pc' = "lock"
    BY <1>0, <1>5 DEF Skip, At, Overtaken, Again, Rest
  <2>2. Len(todo) > 1 /\ Tail(todo) = <<"mset">> /\ Len(<<"mset">>) = 1
    BY <1>5, <2>1, TodoFacts
  <2>3. load >= 2 * tries + 2 \/ load >= Enough
    BY <1>0, <2>1, <2>2 DEF LoadInv, Counted
  <2>4. CASE tries + 1 < n
    <3>1. tries' = tries + 1 /\ todo' = todo /\ wide' = wide /\ load' = load
      BY <1>5, <2>4 DEF Skip
    <3> QED BY <1>0, <2>1, <2>3, <3>1 DEF LoadInv, Counted, Excused
  <2>5. CASE ~(tries + 1 < n)
    <3>1. tries' = 0 /\ todo' = <<"mset">> /\ wide' = wide \union {part} /\ load' = 0
      BY <1>5, <2>2, <2>5 DEF Skip, NextPart
    <3>2. load >= 2 * n
      BY <1>0, <1>5, <2>3, <2>5
    <3> QED BY <1>0, <1>5, <2>1, <3>1, <3>2 DEF LoadInv, Counted, Excused
  <2> QED BY <2>4, <2>5
<1>6. CASE DocNotFound
  <2>1. /\ Head(todo) = "doc" /\ tries > 0 /\ tries' = 0 /\ load' = 0 /\ todo' = Tail(todo) /\ pc' = pc /\ cur' = cur
        /\ age' = age /\ repo' = repo /\ knows' = knows /\ wide' = wide \union {"gone"}
    BY <1>6 DEF DocNotFound, At, NextPart, Rest
  <2>2. Len(todo) > 1 /\ Tail(todo) = <<"mset">> /\ Len(<<"mset">>) = 1
    BY <2>1, TodoFacts
  <2>3. load >= 2
    BY <1>0, <2>1, <2>2 DEF LoadInv, Counted
  <2> QED BY <1>0, <2>1, <2>2, <2>3 DEF LoadInv, Counted, Excused
<1>7. CASE xpand_col_iter \/ apply_roots_filter
  BY <1>5, <1>6, <1>7 DEF xpand_col_iter, apply_roots_filter
<1>8. CASE qry_xpand_col
  BY <1>3, <1>8 DEF qry_xpand_col
<1> QED BY <1>1, <1>2, <1>4, <1>7, <1>8 DEF QueryStep

\* A new request, a new worker, the indexer and Xapcmd.
LEMMA LoadRest ==
    ASSUME SInv, LoadInv,
           Restart \/ (\E k \in Keys : dispatch(k)) \/ \E x \in Indices : Commit(x) \/ XapcmdLock(x) \/ Swap(x)
    PROVE  LoadInv' /\ wide' \subseteq wide
<1> USE BoundAssumption DEF Enough
<1>1. CASE Restart
  BY <1>1 DEF Restart, EndRequest, LoadInv
<1>2. ASSUME NEW k \in Keys, dispatch(k) PROVE LoadInv' /\ wide' = {}
  <2>1. todo' \in Plans(k) /\ tries' = 0 /\ wide' = {} /\ load' = 0 /\ age' = 0 /\ pc' = "lock"
    BY <1>2 DEF dispatch, Receives, StartQuery
  <2> QED BY <2>1, PlanFacts DEF LoadInv, Counted
<1>3. ASSUME NEW x \in Indices, Commit(x) PROVE LoadInv' /\ wide' = wide
  <2>1. /\ pc' = pc /\ tries' = tries /\ wide' = wide /\ cur' = cur /\ todo' = todo /\ db' = db /\ layout' = layout
        /\ knows' = knows
        /\ age' = (IF Uses(x) /\ pc # "lock" THEN Up(age, 2) ELSE age)
        /\ load' = IF Uses(x) /\ Len(todo) > 1 THEN Up(load, Enough) ELSE load
    BY <1>3 DEF Commit, diskVars
  <2>2. repo' = "always" => repo = "always"
    BY <1>3 DEF Commit
  <2>3. Whole(cur, db[cur])' = Whole(cur, db[cur])
    BY <2>1 DEF Whole, Shards
  <2>4. age' \in 0 .. 2 /\ load' \in Nat /\ load <= load' /\ tries \in Nat
    BY <2>1 DEF LoadInv, Up
  <2>5. Len(todo) > 1 => load' >= load + (age' - age) \/ load' >= Enough
    BY <2>1, <2>4 DEF LoadInv, Up
  <2>6. pc \in {"shard", "query"} /\ Len(todo) > 1 => (Counted(2 * tries + age))'
    BY <2>1, <2>4, <2>5 DEF LoadInv, Counted
  <2>7. pc = "lock" /\ Len(todo) > 1 => (Counted(2 * tries))'
    BY <2>1, <2>4 DEF LoadInv, Counted
  <2> QED BY <2>1, <2>2, <2>3, <2>4, <2>6, <2>7 DEF LoadInv
<1>4. ASSUME NEW x \in Indices, XapcmdLock(x) \/ Swap(x) PROVE LoadInv' /\ wide' = wide
  <2>1. /\ pc' = pc /\ tries' = tries /\ wide' = wide /\ cur' = cur /\ todo' = todo /\ db' = db
        /\ knows' = knows /\ age' = age /\ load' = load /\ repo' = repo
    BY <1>4 DEF XapcmdLock, Swap, MoveAway, MoveIn, Move, XapcmdUnlock, RemoveCulled, srchVars, reqVars, qryVars
  <2>2. ASSUME pc = "query", Whole(cur, db[cur])' PROVE Whole(cur, db[cur])
    <3> DEFINE d == db[cur]
               y == IndexOf[cur]
    <3>1. cur \in Keys /\ y \in Indices /\ d \in Seq(Nat) /\ layout \in [Indices -> Seq(Nat)]
      BY <2>2, KeyFacts DEF SInv, SType
    <3>2. d # NoDb /\ 1 \in 1 .. Len(d) /\ d[1] \in Nat /\ d[1] < Len(layout[y])
      <4>1. d # NoDb
        BY <2>1, <2>2 DEF Whole
      <4>2. Len(d) \in Nat /\ Len(d) > 0
        BY <3>1, <4>1 DEF NoDb
      <4> QED BY <3>1, <4>1, <4>2 DEF SInv, HandleInv
    <3>3. layout'[y][d[1] + 1] = layout[y][d[1] + 1]
      <4>1. layout' = layout \/ \E n \in Layouts(x) : layout' = [layout EXCEPT ![x] = Append(@, n)]
        BY <1>4 DEF XapcmdLock, Swap, MoveAway, MoveIn, Move, XapcmdUnlock, RemoveCulled, diskVars
      <4>2. CASE layout' = layout
        BY <4>2
      <4>3. ASSUME NEW n \in Layouts(x), layout' = [layout EXCEPT ![x] = Append(@, n)]
            PROVE  layout'[y][d[1] + 1] = layout[y][d[1] + 1]
        <5>1. n \in Nat /\ layout[x] \in Seq(Nat)
          BY <3>1, KeyAssumption DEF Layouts
        <5>2. layout'[y] = IF y = x THEN Append(layout[x], n) ELSE layout[y]
          BY <3>1, <4>3
        <5> HIDE DEF y, d
        <5>4. Len(layout[y]) \in Nat /\ d[1] \in Nat /\ d[1] < Len(layout[y])
          BY <3>1, <3>2
        <5>3. d[1] + 1 \in 1 .. Len(layout[y])
          BY <5>4
        <5> QED BY <5>1, <5>2, <5>3
      <4> QED BY <4>1, <4>2, <4>3
    <3> QED BY <2>1, <2>2, <3>2, <3>3 DEF Whole, Shards
  <2> QED BY <2>1, <2>2 DEF LoadInv, Counted
<1> QED BY <1>1, <1>2, <1>3, <1>4

\* A code search only goes without its filter, or a search misses a thread, after
\* two commits per reopen, for every number of reopens, of query strings and of
\* indices, with a handle that Xapcmd left torn, too.
THEOREM WideOnlyUnderLoadHolds == Spec => WideOnlyUnderLoad
<1>1. Init => LoadInv
  BY DEF Init, LoadInv
<1>2. SInv /\ LoadInv /\ [Next]_vars => LoadInv' /\ [Excused(wide' \ wide)]_vars
  <2> SUFFICES ASSUME SInv, LoadInv, [Next]_vars PROVE LoadInv' /\ (Excused(wide' \ wide) \/ UNCHANGED vars)
    OBVIOUS
  <2>1. CASE Worker
    BY <2>1, LoadOpen, LoadQuery, LoadRest DEF Worker, QueryStep, Excused
  <2>2. CASE (\E k \in Keys : dispatch(k)) \/ \E x \in Indices : Commit(x) \/ XapcmdLock(x) \/ Swap(x)
    BY <2>2, LoadRest DEF Excused
  <2>3. CASE UNCHANGED vars
    <3>1. /\ pc' = pc /\ tries' = tries /\ cur' = cur /\ todo' = todo /\ db' = db /\ layout' = layout
          /\ knows' = knows /\ age' = age /\ load' = load /\ repo' = repo
      BY <2>3 DEF vars, srchVars, reqVars, qryVars, diskVars
    <3>2. Whole(cur, db[cur])' = Whole(cur, db[cur])
      BY <3>1 DEF Whole, Shards
    <3> QED BY <2>3, <3>1, <3>2 DEF LoadInv, Counted
  <2> QED BY <2>1, <2>2, <2>3 DEF Next
<1> QED BY <1>1, <1>2, SrchInvariant, PTL DEF Spec, WideOnlyUnderLoad

-----------------------------------------------------------------------------
(* Descriptors. *)

\* The descriptors that handles s need.
Need(s) == MapThenSumSet(nfd, s)

\* One pair for every descriptor that handles s need: counting them is their
\* sum, and needs no order.
Slots(s) == {p \in s \X Nat : p[2] \in 1 .. nfd(p[1])}

\* A handle needs a number of descriptors.
LEMMA NfdType == ASSUME NEW k \in Keys PROVE nfd(k) \in Nat
  BY KeyAssumption, CostAssumption DEF nfd

\* The descriptors of one handle.
LEMMA SlotsOne ==
  ASSUME NEW k \in Keys
  PROVE  IsFiniteSet(Slots({k})) /\ Cardinality(Slots({k})) = nfd(k)
<1> DEFINE f == [i \in 1 .. nfd(k) |-> <<k, i>>]
<1>1. nfd(k) \in Nat
  BY NfdType
<1>2. IsFiniteSet(1 .. nfd(k)) /\ Cardinality(1 .. nfd(k)) = nfd(k)
  BY <1>1, FS_Interval
<1>3. f \in Bijection(1 .. nfd(k), Slots({k}))
  <2>1. \A i \in 1 .. nfd(k) : <<k, i>> \in Slots({k})
    BY <1>1 DEF Slots
  <2>2. \A p \in Slots({k}) : p[2] \in 1 .. nfd(k) /\ p = <<k, p[2]>>
    BY DEF Slots
  <2> QED  BY <2>1, <2>2 DEF Bijection, Injection, Surjection, IsInjective
<1> QED  BY <1>2, <1>3, FS_Bijection DEF ExistsBijection

\* Finitely many handles need finitely many descriptors.
LEMMA SlotsFinite ==
  ASSUME NEW s \in SUBSET Keys
  PROVE  IsFiniteSet(Slots(s))
<1> DEFINE f == [k \in s |-> Slots({k})]
           T == {Slots({k}) : k \in s}
<1>1. IsFiniteSet(s)
  BY KeyAssumption, FS_Subset
<1>2. f \in Surjection(s, T)
  BY DEF Surjection
<1>3. IsFiniteSet(T)
  BY <1>1, <1>2, FS_Surjection
<1>4. IsFiniteSet(UNION T)
  BY <1>3, SlotsOne, FS_UNION
<1>5. Slots(s) = UNION T
  BY DEF Slots
<1> QED  BY <1>4, <1>5

\* A handle adds its descriptors to those of the others.
LEMMA SlotsAdd ==
  ASSUME NEW s \in SUBSET Keys, NEW k \in s
  PROVE  Cardinality(Slots(s)) = nfd(k) + Cardinality(Slots(s \ {k}))
<1>1. Slots(s) = Slots({k}) \union Slots(s \ {k}) /\ Slots({k}) \cap Slots(s \ {k}) = {}
  BY DEF Slots
<1>2. IsFiniteSet(Slots({k})) /\ Cardinality(Slots({k})) = nfd(k) /\ nfd(k) \in Nat
  BY SlotsOne, NfdType
<1>3. IsFiniteSet(Slots(s \ {k}))
  BY SlotsFinite
<1>4. Cardinality(Slots(s \ {k})) \in Nat
  BY <1>3, FS_CardinalityType
<1>5. Cardinality(Slots({k}) \union Slots(s \ {k})) =
        Cardinality(Slots({k})) + Cardinality(Slots(s \ {k})) - Cardinality(Slots({k}) \cap Slots(s \ {k}))
  <2> HIDE DEF Slots
  <2> QED  BY <1>2, <1>3, FS_Union
<1>6. Cardinality(Slots(s)) = nfd(k) + Cardinality(Slots(s \ {k})) - Cardinality({})
  BY <1>1, <1>2, <1>5, Zenon
<1> QED  BY <1>2, <1>4, <1>6, FS_EmptySet

\* The sum that is taken over the cache, in whatever order the fold chooses the
\* handles, is the number of pairs: a least set on which another function of the
\* fold's equation differed would not be empty, and so have a smaller one.
LEMMA SumIsSlots ==
  ASSUME NEW S \in SUBSET Keys
  PROVE  Need(S) = Cardinality(Slots(S))
<1> DEFINE pick(s) == CHOOSE x \in s : TRUE
           Sums(g) == g = [s \in SUBSET S |-> IF s = {} THEN 0 ELSE nfd(pick(s)) + g[s \ {pick(s)}]]
           h == [s \in SUBSET S |-> Cardinality(Slots(s))]
<1>1. Sums(h)
  <2> SUFFICES ASSUME NEW s \in SUBSET S
               PROVE  h[s] = IF s = {} THEN 0 ELSE nfd(pick(s)) + h[s \ {pick(s)}]
    OBVIOUS
  <2>1. CASE s = {}
    BY <2>1, FS_EmptySet DEF Slots
  <2>2. CASE s # {}
    BY <2>2, SlotsAdd
  <2> QED  BY <2>1, <2>2
<1>2. \A g : Sums(g) => g[S] = Cardinality(Slots(S))
  <2> SUFFICES ASSUME NEW g, Sums(g), g[S] # Cardinality(Slots(S)) PROVE FALSE
    OBVIOUS
  <2> DEFINE T == {s \in SUBSET S : g[s] # Cardinality(Slots(s))}
  <2>1. T \subseteq FiniteSubsetsOf(S) /\ T # {}
    BY KeyAssumption, FS_Subset DEF FiniteSubsetsOf
  <2>2. PICK s \in T : \A t \in T : ~(<<t, s>> \in StrictSubsetOrdering(S))
    BY <2>1, FS_StrictSubsetOrderingWellFounded, WFMin
  <2>0. Slots({}) = {} /\ g[{}] = 0
    BY DEF Slots
  <2>3. s # {}
    BY <2>0, <2>2, FS_EmptySet
  <2>4. s \ {pick(s)} \notin T
    <3>1. pick(s) \in s /\ s \ {pick(s)} \in SUBSET S /\ s \ {pick(s)} # s
      BY <2>3
    <3>2. <<s \ {pick(s)}, s>> \in StrictSubsetOrdering(S)
      BY <3>1 DEF StrictSubsetOrdering
    <3> QED  BY <2>2, <3>2
  <2>5. g[s] = nfd(pick(s)) + g[s \ {pick(s)}]
    BY <2>2, <2>3
  <2>6. g[s \ {pick(s)}] = Cardinality(Slots(s \ {pick(s)}))
    BY <2>2, <2>4
  <2>7. pick(s) \in s /\ s \in SUBSET Keys
    BY <2>2, <2>3
  <2>8. Cardinality(Slots(s)) = nfd(pick(s)) + Cardinality(Slots(s \ {pick(s)}))
    <3> HIDE DEF pick
    <3> QED  BY <2>7, SlotsAdd
  <2> QED  BY <2>2, <2>5, <2>6, <2>8
<1>3. Need(S) = (CHOOSE g : Sums(g))[S]
  BY DEF Need, MapThenSumSet, MapThenFoldSet
<1> QED  BY <1>1, <1>2, <1>3

\* What a new request, a retry with an otherwise empty cache and a new worker
\* need to know of the sums.
LEMMA SumFacts ==
    ASSUME NEW s \in SUBSET Keys
    PROVE  /\ Need(s) \in Nat /\ Need({}) = 0
           /\ \A k \in Keys : Need({k}) = nfd(k) /\ nfd(k) \in Nat
           /\ \A k \in s : nfd(k) <= Need(s)
           /\ \A k \in Keys \ s : Need(s \union {k}) = Need(s) + nfd(k)
<1>1. \A t \in SUBSET Keys : Need(t) = Cardinality(Slots(t)) /\ Cardinality(Slots(t)) \in Nat
  BY SumIsSlots, SlotsFinite, FS_CardinalityType
<1>2. Need({}) = 0
  <2>1. Slots({}) = {}
    BY DEF Slots
  <2> QED BY <1>1, <2>1, FS_EmptySet
<1>3. ASSUME NEW k \in Keys PROVE Need({k}) = nfd(k) /\ nfd(k) \in Nat
  BY <1>1, SlotsOne, NfdType
<1>4. ASSUME NEW k \in s PROVE nfd(k) <= Need(s)
  <2>1. Cardinality(Slots(s)) = nfd(k) + Cardinality(Slots(s \ {k}))
    BY SlotsAdd
  <2> QED BY <1>1, <2>1, NfdType
<1>5. ASSUME NEW k \in Keys \ s PROVE Need(s \union {k}) = Need(s) + nfd(k)
  <2>1. s \union {k} \in SUBSET Keys /\ k \in s \union {k} /\ (s \union {k}) \ {k} = s
    OBVIOUS
  <2>2. Cardinality(Slots(s \union {k})) = nfd(k) + Cardinality(Slots((s \union {k}) \ {k}))
    BY <2>1, SlotsAdd
  <2>3. Cardinality(Slots(s \union {k})) = nfd(k) + Cardinality(Slots(s)) /\ nfd(k) \in Nat
    BY <2>1, <2>2, NfdType
  <2>4. Need(s \union {k}) = Cardinality(Slots(s \union {k})) /\ Need(s) = Cardinality(Slots(s)) /\ Need(s) \in Nat
    BY <1>1, <2>1
  <2> QED BY <2>3, <2>4
<1> QED BY <1>1, <1>2, <1>3, <1>4, <1>5

\* The count is never below what is open, and above the limit only with a single
\* handle in the cache, or none.
FdInv ==
    /\ shard_nfd \in Nat /\ Need(cache) <= shard_nfd
    /\ shard_nfd <= my_fd_max \/ Cardinality(cache) <= 1

\* Descriptors are counted when a handle enters the cache.
LEMMA FdStep ==
    ASSUME SInv, FdInv, [Next]_vars
    PROVE  FdInv'
<1>0. cache \in SUBSET Keys
  BY DEF SInv, SType
<1>1. ASSUME UNCHANGED <<cache, shard_nfd>> PROVE FdInv'
  BY <1>1 DEF FdInv
<1>2. ASSUME NEW k \in Keys, cache' = {k}, shard_nfd' \in Nat, nfd(k) <= shard_nfd' PROVE FdInv'
  <2>1. Need({k}) = nfd(k)
    BY <1>0, SumFacts
  <2>2. Cardinality({k}) = 1
    BY FS_Singleton
  <2> QED BY <1>2, <2>1, <2>2 DEF FdInv
<1>3. ASSUME NEW k \in Keys, dispatch(k) PROVE FdInv'
  <2>1. CASE k \in cache
    BY <1>1, <1>3, <2>1 DEF dispatch
  <2>2. CASE k \notin cache /\ shard_nfd + nfd(k) > my_fd_max
    <3>1. cache' = {k} /\ shard_nfd' = nfd(k)
      BY <1>3, <2>2 DEF dispatch, srch_init, Count, srch_cache_renew
    <3> QED BY <1>2, <3>1, NfdType
  <2>3. CASE k \notin cache /\ ~(shard_nfd + nfd(k) > my_fd_max)
    <3>1. cache' = cache \union {k} /\ shard_nfd' = shard_nfd + nfd(k)
      BY <1>3, <2>3 DEF dispatch, srch_init, Count
    <3>2. Need(cache \union {k}) = Need(cache) + nfd(k)
      BY <1>0, <2>3, SumFacts
    <3>3. Need(cache) \in Nat /\ nfd(k) \in Nat
      BY <1>0, SumFacts, NfdType
    <3> QED BY <2>3, <3>1, <3>2, <3>3, CostAssumption DEF FdInv
  <2> QED BY <2>1, <2>2, <2>3
<1>4. CASE OpenFails
  <2>1. CASE mode = "open1"
    <3>1. cache' = {cur} /\ shard_nfd' = shard_nfd
      BY <1>4, <2>1 DEF OpenFails, srch_cache_renew
    <3>2. cur \in cache
      BY <1>4 DEF OpenFails, SInv, HandleIsLive
    <3>3. nfd(cur) <= Need(cache) /\ nfd(cur) \in Nat /\ Need(cache) \in Nat
      BY <1>0, <3>2, SumFacts
    <3> QED BY <1>0, <1>2, <3>1, <3>2, <3>3 DEF FdInv
  <2>2. CASE mode # "open1"
    BY <1>1, <1>4, <2>2 DEF OpenFails, srchVars
  <2> QED BY <2>1, <2>2
<1>5. CASE Restart
  <2>1. cache' = {} /\ shard_nfd' = 0
    BY <1>5 DEF Restart, srch_cache_renew
  <2>2. Need({}) = 0
    BY <1>0, SumFacts
  <2> QED BY <2>1, <2>2, FS_EmptySet DEF FdInv
<1>6. CASE lock_shared_maybe \/ OpenShard \/ AllOpen
  BY <1>1, <1>6 DEF lock_shared_maybe, Opening, OpeningRest, OpenShard, AllOpen, srchVars
<1>7. CASE QueryStep
  BY <1>1, <1>7, QueryFacts
<1>9. ASSUME NEW x \in Indices, Commit(x) \/ XapcmdLock(x) \/ Swap(x) PROVE FdInv'
  BY <1>1, <1>9 DEF Commit, XapcmdLock, Swap, MoveAway, MoveIn, Move, XapcmdUnlock, RemoveCulled, srchVars
<1>8. CASE UNCHANGED vars
  BY <1>1, <1>8 DEF vars, srchVars
<1> QED BY <1>3, <1>4, <1>5, <1>6, <1>7, <1>8, <1>9 DEF Next, Worker, QueryStep

\* The descriptors of all cached handles stay within the limit unless a single
\* index needs more on its own, and shard_nfd never counts less than is open:
\* for every set of indices, number of shards and limit, a negative one
\* (RLIMIT_NOFILE below 64) included.
THEOREM FdsWithinLimitHolds == Spec => []FdsWithinLimit
<1>1. Init => FdInv
  <2> SUFFICES ASSUME Init PROVE FdInv
    OBVIOUS
  <2>1. Need({}) = 0
    BY SumFacts
  <2> QED BY <2>1, FS_EmptySet DEF Init, FdInv
<1>2. SInv /\ FdInv /\ [Next]_vars => FdInv'
  BY FdStep
<1>3. SInv /\ FdInv => FdsWithinLimit
  <2> SUFFICES ASSUME SInv, FdInv PROVE FdsWithinLimit
    OBVIOUS
  <2>1. cache \in SUBSET Keys
    BY DEF SInv, SType
  <2>2. Need(cache) \in Nat
    BY <2>1, SumFacts
  <2> QED BY <2>2, CostAssumption DEF FdInv, FdsWithinLimit, Need
<1> QED BY <1>1, <1>2, <1>3, SrchInvariant, PTL DEF Spec
=============================================================================
