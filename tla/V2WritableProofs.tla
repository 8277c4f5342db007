-------------------------- MODULE V2WritableProofs --------------------------
(***************************************************************************)
(* Proofs about V2Writable, for every inbox, number of shards and epochs   *)
(* and every bound, wherever a process is killed and whenever              *)
(* git-fast-import fails.  The first half: readers never see a blob that   *)
(* git lacks (GitFirst) or a number msgmap may hand out again              *)
(* (OverNumbered).  The second: a number does not pass to a message of     *)
(* another Message-ID (NumbersNotReused), a message that done has returned *)
(* for is shown until somebody begins to remove it (KeptIsShown), the      *)
(* stores agree when nothing went wrong (DoneMeansIndexed), and a mirror   *)
(* shows what it fetched (MirrorIndexed) under the numbers of the inbox    *)
(* that is mirrored (MirrorOrder).                                         *)
(***************************************************************************)
EXTENDS V2Writable, FiniteSetTheorems, SequenceTheorems, TLAPS

-----------------------------------------------------------------------------
(* The inductive invariant. *)

\* Which step of checkpoint, done and importer may follow which.
StepOrder ==
    {<<"barrier", "mm">>, <<"gitdone", "mm">>, <<"mm", "over">>, <<"over", "xap">>,
     <<"xap", "wait">>, <<"xap", "lc">>, <<"wait", "lc">>, <<"lc", "release">>, <<"lc", "epoch">>,
     <<"epoch", "resume">>}
Ordered(st) == \A i \in 1 .. Len(st) - 1 : <<st[i], st[i + 1]>> \in StepOrder
Ends(st, step) == st # << >> /\ st[Len(st)] = step

\* The step to be taken next is one of these.
Next1(st, names) == st # << >> /\ Head(st) \in names
Unsynced == {"barrier", "gitdone", "mm"}

\* Steps come in order, and the call that waits for an epoch is the writer's.
Flow ==
    /\ owner \in {"none", "orphans"} => steps = << >>
    /\ Ordered(steps)
    /\ steps # << >> => steps[Len(steps)] \in {"lc", "release", "resume", "dead"}
    /\ cur # NoCall <=> Ends(steps, "resume")
    /\ cur # NoCall => /\ owner = "writer" /\ cur.op \in {"add", "remove"} /\ cur.m \in Msgs
                       /\ cur.op = "add" => cur.num \in 1 .. mm.seq
                       /\ epoch_max < MaxEpoch \/ Next1(steps, {"resume"})
    /\ im => epoch_max \in Epochs
    /\ Next1(steps, {"resume"}) => im

\* The commits of git and the numbers of msgmap are on disk once the steps up
\* to mm are done, and whenever the lock is free.
Durable ==
    /\ mmD.seq <= mm.seq
    /\ owner \in {"none", "orphans"} \/ (steps # << >> /\ Head(steps) \notin Unsynced) => mm.seq = mmD.seq
    /\ owner # "writer" \/ (steps # << >> /\ Head(steps) \notin {"barrier", "gitdone"}) => git = gitD
    /\ steps = << >> /\ ~im => git = gitD

BlobsIn(g) == {g[i].b : i \in 1 .. Len(g)}

\* What msgmap and git account for, in memory and on disk.
Known1(n, b) == n <= mm.seq /\ (nrotfail = 0 => b \in BlobsIn(git))
KnownD(n, b) == n <= mmD.seq /\ (nrotfail = 0 => b \in BlobsIn(gitD))

\* What shards still have in memory of a process that is gone, or that rolled
\* back, is never committed.
Abandoned == owner = "orphans" \/ Next1(steps, {"release", "dead"})

Documents ==
    /\ BlobsIn(gitD) \subseteq BlobsIn(git)
    /\ \A n \in Nums : ov[n] # NoBlob => Known1(n, ov[n])
    /\ \A n \in Nums : ovD[n] # NoBlob => KnownD(n, ovD[n])
    /\ \A n \in Nums : xapD[n] # NoBlob => KnownD(n, xapD[n])
    /\ ~Abandoned => \A n \in Nums : xap[n] # NoBlob => Known1(n, xap[n])
    /\ ~Abandoned => \A s \in Shards : \A k \in 1 .. Len(xq[s]) :
                        xq[s][k].b # NoBlob => \A n \in xq[s][k].ns : Known1(n, xq[s][k].b)

\* What a shard commits on request is on disk elsewhere.
Committed ==
    \A s \in Shards : \A k \in 1 .. Len(xq[s]) : xq[s][k].op = "commit" =>
        /\ \A n \in Nums : idx_shard(n) = s /\ xap[n] # NoBlob => KnownD(n, xap[n])
        /\ \A l \in 1 .. k - 1 : xq[s][l].b # NoBlob => \A n \in xq[s][l].ns : KnownD(n, xq[s][l].b)

\* Numbers of msgmap and of its old copy, and commits to index.
Sources ==
    /\ \A n \in Nums : mm.row[n] # NoMid => n <= mm.seq
    /\ \A n \in Nums : mmD.row[n] # NoMid => n <= mmD.seq
    /\ \A n \in Nums : mm_tmp[n] # NoMid => n <= mmD.seq
    /\ \A u \in todo : \A c \in u.left : c.b \in BlobsIn(gitD)

VInv == TypeOK /\ Flow /\ Durable /\ Documents /\ Committed /\ Sources

-----------------------------------------------------------------------------
(* Sequences of steps. *)

\* What is left after a step is in order and ends as before.
LEMMA TailOfSteps ==
  ASSUME NEW st \in Seq(StepNames), st # << >>, Ordered(st)
  PROVE  /\ Tail(st) \in Seq(StepNames) /\ Ordered(Tail(st))
         /\ Tail(st) # << >> => /\ Tail(st)[Len(Tail(st))] = st[Len(st)]
                                /\ <<Head(st), Head(Tail(st))>> \in StepOrder
  BY DEF Ordered

\* release, dead and resume are the last steps.
LEMMA LastSteps ==
  ASSUME NEW st \in Seq(StepNames), st # << >>, Ordered(st),
         Head(st) \in {"release", "dead", "resume"}
  PROVE  Len(st) = 1 /\ Tail(st) = << >>
<1>1. Len(st) \in Nat /\ Len(st) >= 1 /\ Head(st) = st[1]
  OBVIOUS
<1>2. ~(Len(st) > 1)
  <2> SUFFICES ASSUME Len(st) > 1 PROVE FALSE
    OBVIOUS
  <2>1. <<st[1], st[2]>> \in StepOrder
    BY <1>1 DEF Ordered
  <2> QED  BY <1>1, <2>1 DEF StepOrder
<1>3. Len(st) = 1
  BY <1>1, <1>2
<1>4. Tail(st) \in Seq(StepNames) /\ Len(Tail(st)) = 0
  BY <1>1, <1>3
<1> QED  BY <1>3, <1>4, EmptySeq

\* The plans of checkpoint and done.
LEMMA Plans ==
  ASSUME NEW st, NEW first,
         \/ st = Sync \o <<"lc", "release">> /\ first = "mm"
         \/ st = (<< >> \o Sync) \o <<"lc", "release">> /\ first = "mm"
         \/ st = (<<"gitdone">> \o Sync) \o <<"lc", "release">> /\ first = "gitdone"
         \/ st = (<<"barrier">> \o Sync) \o <<"wait", "lc">> /\ first = "barrier"
         \/ st = (<< >> \o Sync) \o <<"wait", "lc">> /\ first = "mm"
  PROVE  /\ st \in Seq(StepNames) /\ st # << >> /\ Head(st) = first /\ Ordered(st)
         /\ st[Len(st)] \in {"lc", "release"}
<1>0. << >> \o Sync = Sync
  BY DEF Sync
<1>1. CASE st = Sync \o <<"lc", "release">> /\ first = "mm"
  BY <1>1 DEF Sync, Ordered, StepOrder, StepNames
<1>2. CASE st = (<<"gitdone">> \o Sync) \o <<"lc", "release">> /\ first = "gitdone"
  BY <1>2 DEF Sync, Ordered, StepOrder, StepNames
<1>3. CASE st = (<<"barrier">> \o Sync) \o <<"wait", "lc">> /\ first = "barrier"
  BY <1>3 DEF Sync, Ordered, StepOrder, StepNames
<1>4. CASE st = Sync \o <<"wait", "lc">> /\ first = "mm"
  BY <1>4 DEF Sync, Ordered, StepOrder, StepNames
<1>5. \/ st = Sync \o <<"lc", "release">> /\ first = "mm"
      \/ st = (<<"gitdone">> \o Sync) \o <<"lc", "release">> /\ first = "gitdone"
      \/ st = (<<"barrier">> \o Sync) \o <<"wait", "lc">> /\ first = "barrier"
      \/ st = Sync \o <<"wait", "lc">> /\ first = "mm"
  BY <1>0
<1> QED  BY <1>1, <1>2, <1>3, <1>4, <1>5

\* The plan of importer.
LEMMA RotatePlan ==
  ASSUME NEW st, st = <<"gitdone", "mm", "over", "xap", "lc", "epoch", "resume">>
  PROVE  /\ st \in Seq(StepNames) /\ st # << >> /\ Head(st) = "gitdone" /\ Ordered(st)
         /\ st[Len(st)] = "resume"
  BY DEF Ordered, StepOrder, StepNames

-----------------------------------------------------------------------------
(* Commits, rows and requests. *)

\* A blob is a message's, and no message is NoMid.
LEMMA BlobFacts ==
  /\ NoBlob \notin Blobs
  /\ \A m \in Msgs, k \in 0 .. MaxGen : [m |-> m, k |-> k] \in Blobs
  /\ \A b \in Blobs : b.m \in Msgs /\ b.k \in 0 .. MaxGen
  /\ NoMid \notin Mids
  /\ \A m \in Msgs : Mid[m] \in Mids /\ \A k \in 1 .. MaxGen : <<m, k>> \in Mids
  BY MsgAssumption DEF Blobs, NoBlob, Mids, GenMids

\* mid_insert takes the next number.
LEMMA InsertFacts ==
  ASSUME NEW d \in Msgmaps, NEW mid \in Mids, d.seq < MaxNum
  PROVE  /\ mid_insert(d, mid) \in Msgmaps /\ d.seq + 1 \in Nums
         /\ mid_insert(d, mid).seq = d.seq + 1
         /\ mid_insert(d, mid).row = [d.row EXCEPT ![d.seq + 1] = mid]
<1> DEFINE new == [d.row EXCEPT ![d.seq + 1] = mid]
<1>1. d.row \in Rows /\ d.seq \in 0 .. MaxNum /\ d.lc \in [Epochs -> 0 .. MaxCommit]
  BY DEF Msgmaps
<1>2. d.seq + 1 \in 0 .. MaxNum /\ d.seq + 1 \in Nums
  BY <1>1, BoundAssumption DEF Nums
<1>3. new \in Rows
  BY <1>1, <1>2 DEF Rows
<1>4. DOMAIN d = {"row", "seq", "lc"}
  BY DEF Msgmaps
<1>5. mid_insert(d, mid).seq = d.seq + 1
  BY <1>4 DEF mid_insert
<1>6. mid_insert(d, mid).row = new
  BY <1>4 DEF mid_insert
<1>7. mid_insert(d, mid).lc = d.lc
  BY <1>4 DEF mid_insert
<1>8. mid_insert(d, mid) \in Msgmaps
  BY <1>1, <1>2, <1>3, <1>4 DEF Msgmaps, mid_insert
<1> QED  BY <1>2, <1>5, <1>6, <1>8

\* num_delete only takes numbers away.
LEMMA DeleteFacts ==
  ASSUME NEW rows \in Rows, NEW nums
  PROVE  /\ num_delete(rows, nums) \in Rows
         /\ \A n \in Nums : num_delete(rows, nums)[n] # NoMid => rows[n] # NoMid
  BY DEF num_delete, Rows

\* The blobs of a longer history.
LEMMA BlobsGrow ==
  ASSUME NEW g \in Seq(Commits), NEW h \in Seq(Commits)
  PROVE  /\ g \o h \in Seq(Commits)
         /\ BlobsIn(g) \subseteq BlobsIn(g \o h) /\ BlobsIn(h) \subseteq BlobsIn(g \o h)
<1>1. g \o h \in Seq(Commits) /\ Len(g \o h) = Len(g) + Len(h) /\ Len(g) \in Nat /\ Len(h) \in Nat
  OBVIOUS
<1>2. \A i \in 1 .. Len(g) : i \in 1 .. Len(g \o h) /\ (g \o h)[i] = g[i]
  BY <1>1
<1>3. \A i \in 1 .. Len(h) : i + Len(g) \in 1 .. Len(g \o h) /\ (g \o h)[i + Len(g)] = h[i]
  BY <1>1
<1> QED  BY <1>1, <1>2, <1>3 DEF BlobsIn

\* Commits2git adds the commits it is given.
LEMMA CommitFacts ==
  ASSUME TypeOK, NEW e \in Epochs, NEW op \in {"m", "d"}, NEW blobs \in Seq(Blobs),
         Commits2git(e, op, blobs)
  PROVE  /\ git' \in Seq(Commits) /\ ids' \in 0 .. MaxCommit
         /\ last_commit' \in [Epochs -> 0 .. MaxCommit]
         /\ BlobsIn(git) \subseteq BlobsIn(git')
         /\ \A i \in 1 .. Len(blobs) : blobs[i] \in BlobsIn(git')
<1> DEFINE h == [i \in 1 .. Len(blobs) |-> [id |-> ids + i, e |-> e, op |-> op, b |-> blobs[i]]]
<1>1. Len(blobs) \in Nat /\ ids \in Nat /\ ids + Len(blobs) <= MaxCommit /\ MaxCommit \in Nat
  BY BoundAssumption DEF TypeOK, Commits2git
<1>2. \A i \in 1 .. Len(blobs) : h[i] \in Commits /\ h[i].b = blobs[i]
  BY <1>1 DEF Commits
<1>3. h \in Seq(Commits) /\ Len(h) = Len(blobs)
  BY <1>1, <1>2
<1>4. git' = git \o h
  BY DEF Commits2git
<1>5. git' \in Seq(Commits) /\ BlobsIn(git) \subseteq BlobsIn(git') /\ BlobsIn(h) \subseteq BlobsIn(git')
  BY <1>3, <1>4, BlobsGrow DEF TypeOK
<1>6. \A i \in 1 .. Len(blobs) : blobs[i] \in BlobsIn(h)
  BY <1>2, <1>3 DEF BlobsIn
<1>7. ids' \in 0 .. MaxCommit /\ last_commit' \in [Epochs -> 0 .. MaxCommit]
  BY <1>1 DEF Commits2git, TypeOK
<1> QED  BY <1>5, <1>6, <1>7

\* A request is appended to the queues of the shards it concerns.
LEMMA RequestFacts ==
  ASSUME TypeOK, NEW r \in Requests, ipc_do(r)
  PROVE  /\ xq' \in [Shards -> Seq(Requests)]
         /\ \A s \in Shards : \A k \in 1 .. Len(xq'[s]) :
               \/ k \in 1 .. Len(xq[s]) /\ xq'[s][k] = xq[s][k]
               \/ k = Len(xq[s]) + 1 /\ xq'[s][k] = r
<1>1. \A s \in Shards : xq'[s] = xq[s] \/ xq'[s] = Append(xq[s], r)
  BY DEF ipc_do
<1>2. \A s \in Shards : xq[s] \in Seq(Requests)
  BY DEF TypeOK
<1>3. xq' \in [Shards -> Seq(Requests)]
  BY <1>2 DEF ipc_do
<1> QED
  <2> SUFFICES ASSUME NEW s \in Shards, NEW k \in 1 .. Len(xq'[s])
               PROVE  \/ k \in 1 .. Len(xq[s]) /\ xq'[s][k] = xq[s][k]
                      \/ k = Len(xq[s]) + 1 /\ xq'[s][k] = r
    BY <1>3
  <2>1. CASE xq'[s] = xq[s]
    BY <2>1
  <2>2. CASE xq'[s] = Append(xq[s], r)
    BY <1>2, <2>2
  <2> QED  BY <1>1, <2>1, <2>2

-----------------------------------------------------------------------------
(* What a step may leave alone. *)

\* What msgmap and git account for only grows.
Grows ==
    /\ mm.seq <= mm'.seq /\ mmD.seq <= mmD'.seq /\ mmD'.seq <= mm'.seq
    /\ nrotfail' = nrotfail /\ BlobsIn(git) \subseteq BlobsIn(git')
    /\ BlobsIn(gitD) \subseteq BlobsIn(gitD') /\ BlobsIn(gitD') \subseteq BlobsIn(git')

\* Then what was accounted for still is.
LEMMA KnownGrows ==
  ASSUME VInv, TypeOK', Grows, NEW n \in Nums, NEW b
  PROVE  /\ Known1(n, b) => Known1(n, b)'
         /\ KnownD(n, b) => KnownD(n, b)'
<1>1. n \in Int /\ mm.seq \in Int /\ mm'.seq \in Int /\ mmD.seq \in Int /\ mmD'.seq \in Int
  BY BoundAssumption DEF VInv, TypeOK, Msgmaps, Nums
<1> QED  BY <1>1 DEF Grows, Known1, KnownD

\* KnownD is more than Known1.
LEMMA OnDiskIsKnown ==
  ASSUME VInv, NEW n \in Nums, NEW b, KnownD(n, b)
  PROVE  Known1(n, b)
<1>1. n \in Int /\ mm.seq \in Int /\ mmD.seq \in Int /\ mmD.seq <= mm.seq
  BY BoundAssumption DEF VInv, Durable, TypeOK, Msgmaps, Nums
<1> QED  BY <1>1 DEF Known1, KnownD, VInv, Documents

\* Requests in a queue.
LEMMA QueueFacts ==
  ASSUME TypeOK, NEW s \in Shards, NEW k \in 1 .. Len(xq[s])
  PROVE  /\ xq[s] \in Seq(Requests) /\ xq[s][k] \in Requests
         /\ xq[s][k].ns \subseteq Nums /\ xq[s][k].b \in Blobs \union {NoBlob}
<1>1. xq[s] \in Seq(Requests)
  BY DEF TypeOK
<1>2. xq[s][k] \in Requests
  BY <1>1
<1> QED  BY <1>1, <1>2 DEF Requests

\* What over.sqlite3 and the queues get is accounted for.
Writes ==
    /\ UNCHANGED <<ovD, xap, xapD>>
    /\ \A n \in Nums : ov'[n] = ov[n] \/ ov'[n] = NoBlob \/ Known1(n, ov[n])'
    /\ \A s \in Shards : \A k \in 1 .. Len(xq'[s]) :
         \/ k \in 1 .. Len(xq[s]) /\ xq'[s][k] = xq[s][k]
         \/ /\ k = Len(xq[s]) + 1 /\ xq'[s][k].op # "commit"
            /\ xq'[s][k].b # NoBlob => \A n \in xq'[s][k].ns : Known1(n, xq[s][k].b)'

\* Such a step keeps Documents and Committed, unless it brings back what was
\* abandoned.
LEMMA WritesKept ==
  ASSUME VInv, TypeOK', Grows, Writes, Abandoned => Abandoned'
  PROVE  Documents' /\ Committed'
<1>1. \A n \in Nums : \A b : (Known1(n, b) => Known1(n, b)') /\ (KnownD(n, b) => KnownD(n, b)')
  BY KnownGrows
<1>2. Documents'
  <2>1. BlobsIn(gitD)' \subseteq BlobsIn(git)'
    BY DEF Grows
  <2>2. \A n \in Nums : ov'[n] # NoBlob => Known1(n, ov[n])'
    BY <1>1 DEF VInv, Documents, Writes
  <2>3. \A n \in Nums : ovD'[n] # NoBlob => KnownD(n, ovD[n])'
    BY <1>1 DEF VInv, Documents, Writes
  <2>4. \A n \in Nums : xapD'[n] # NoBlob => KnownD(n, xapD[n])'
    BY <1>1 DEF VInv, Documents, Writes
  <2>5. ~Abandoned' => \A n \in Nums : xap'[n] # NoBlob => Known1(n, xap[n])'
    BY <1>1 DEF VInv, Documents, Writes
  <2>6. ~Abandoned' => \A s \in Shards : \A k \in 1 .. Len(xq'[s]) :
            xq'[s][k].b # NoBlob => \A n \in xq'[s][k].ns : Known1(n, xq[s][k].b)'
    <3> SUFFICES ASSUME ~Abandoned, NEW s \in Shards, NEW k \in 1 .. Len(xq'[s]),
                        xq'[s][k].b # NoBlob, NEW n \in xq'[s][k].ns
                 PROVE  Known1(n, xq[s][k].b)'
      OBVIOUS
    <3>1. CASE k \in 1 .. Len(xq[s]) /\ xq'[s][k] = xq[s][k]
      <4>1. n \in Nums
        BY <3>1, QueueFacts DEF VInv
      <4>2. Known1(n, xq[s][k].b)
        BY <3>1 DEF VInv, Documents
      <4> QED  BY <1>1, <3>1, <4>1, <4>2
    <3> QED  BY <3>1 DEF Writes
  <2> QED  BY <2>1, <2>2, <2>3, <2>4, <2>5, <2>6 DEF Documents
<1>3. Committed'
  <2> SUFFICES ASSUME NEW s \in Shards, NEW k \in 1 .. Len(xq'[s]), xq'[s][k].op = "commit"
               PROVE  /\ \A n \in Nums : idx_shard(n) = s /\ xap'[n] # NoBlob => KnownD(n, xap[n])'
                      /\ \A l \in 1 .. k - 1 : xq'[s][l].b # NoBlob =>
                            \A n \in xq'[s][l].ns : KnownD(n, xq[s][l].b)'
    BY DEF Committed
  <2>4. xq[s] \in Seq(Requests) /\ xq'[s] \in Seq(Requests)
    BY DEF VInv, TypeOK
  <2>5. k \in 1 .. Len(xq[s]) /\ xq'[s][k] = xq[s][k]
    BY DEF Writes
  <2>1. k \in 1 .. Len(xq[s]) /\ xq'[s][k] = xq[s][k] /\ Len(xq[s]) \in Nat /\ Len(xq'[s]) \in Nat
    BY <2>4, <2>5
  <2>2. \A n \in Nums : idx_shard(n) = s /\ xap'[n] # NoBlob => KnownD(n, xap[n])'
    BY <1>1, <2>1 DEF VInv, Committed, Writes
  <2>3. ASSUME NEW l \in 1 .. k - 1, xq'[s][l].b # NoBlob, NEW n \in xq'[s][l].ns
        PROVE  KnownD(n, xq[s][l].b)'
    <3>1. l \in 1 .. Len(xq'[s]) /\ l \in 1 .. Len(xq[s]) /\ l # Len(xq[s]) + 1
      BY <2>1
    <3>2. xq'[s][l] = xq[s][l]
      BY <3>1 DEF Writes
    <3>3. n \in Nums
      BY <2>3, <3>1, <3>2, QueueFacts DEF VInv
    <3>4. KnownD(n, xq[s][l].b)
      BY <2>1, <2>3, <3>2 DEF VInv, Committed
    <3> QED  BY <1>1, <3>2, <3>3, <3>4
  <2> QED  BY <2>2, <2>3
<1> QED  BY <1>2, <1>3

\* The rest of the invariant when a step leaves what it is about alone.
LEMMA FlowKept ==
  ASSUME VInv, TypeOK', mm.seq <= mm'.seq, UNCHANGED <<owner, steps, cur, im, epoch_max>>
  PROVE  Flow'
<1>1. mm.seq \in Int /\ mm'.seq \in Int
  BY BoundAssumption DEF VInv, TypeOK, Msgmaps
<1>2. cur # NoCall /\ cur.op = "add" => cur.num \in 1 .. mm'.seq
  BY <1>1 DEF VInv, Flow
<1> QED  BY <1>2 DEF VInv, Flow, Ordered, Ends, Next1

-----------------------------------------------------------------------------
(* The steps of checkpoint and done. *)

\* A step that can be taken.
LEMMA AtFacts ==
  ASSUME VInv, NEW step, At(step)
  PROVE  /\ steps \in Seq(StepNames) /\ steps # << >> /\ Head(steps) = step
         /\ owner \in {"writer", "index"}
         /\ Tail(steps) \in Seq(StepNames) /\ Ordered(Tail(steps)) /\ Ordered(steps)
         /\ Tail(steps) # << >> => /\ Tail(steps)[Len(Tail(steps))] = steps[Len(steps)]
                                   /\ <<step, Head(Tail(steps))>> \in StepOrder
         /\ Tail(steps) = << >> => steps[Len(steps)] = step
<1>1. steps \in Seq(StepNames) /\ steps # << >> /\ Head(steps) = step /\ Ordered(steps)
      /\ owner \in {"writer", "index"}
  BY DEF VInv, TypeOK, Flow, At
<1>2. Len(Tail(steps)) = Len(steps) - 1 /\ Len(steps) \in Nat /\ Head(steps) = steps[1]
  BY <1>1
<1>3. ASSUME Tail(steps) = << >>
      PROVE  Len(steps) = 1
  <2>0. Len(<< >>) = 0
    OBVIOUS
  <2>1. Len(Tail(steps)) = 0
    BY <1>3, <2>0, Zenon
  <2> QED  BY <1>2, <2>1
<1>4. Tail(steps) = << >> => steps[Len(steps)] = step
  BY <1>1, <1>2, <1>3
<1> QED  BY <1>1, <1>4, TailOfSteps

\* Taking it keeps Flow, if it is not one of the last or the start of an epoch.
LEMMA AdvanceFlow ==
  ASSUME VInv, TypeOK', NEW step, At(step), step \notin {"resume", "release", "dead", "epoch"},
         Advance, mm.seq <= mm'.seq, UNCHANGED <<owner, cur, im, epoch_max>>
  PROVE  Flow' /\ ~Abandoned
<1> USE DEF Advance
<1>1. mm.seq \in Int /\ mm'.seq \in Int
  BY BoundAssumption DEF VInv, TypeOK, Msgmaps
<1>2. cur # NoCall /\ cur.op = "add" => cur.num \in 1 .. mm'.seq
  BY <1>1 DEF VInv, Flow
<1>3. ~Next1(steps, {"resume"}) /\ ~Next1(steps', {"resume"}) /\ ~Abandoned
  BY AtFacts DEF Next1, StepOrder, Abandoned
<1>4. /\ owner' \in {"writer", "index"} /\ Ordered(steps')
      /\ steps' # << >> => steps'[Len(steps')] = steps[Len(steps)]
  BY AtFacts
<1>5. steps # << >> /\ steps[Len(steps)] \in {"lc", "release", "resume", "dead"}
  BY AtFacts DEF VInv, Flow
<1>6. Ends(steps', "resume") <=> Ends(steps, "resume")
  <2>1. CASE steps' = << >>
    BY <2>1, AtFacts DEF Ends
  <2>2. CASE steps' # << >>
    BY <2>2, <1>4, <1>5 DEF Ends
  <2> QED  BY <2>1, <2>2
<1> QED  BY <1>2, <1>3, <1>4, <1>5, <1>6 DEF VInv, Flow

\* refs lead to the commits.
LEMMA GitCommitStep ==
  ASSUME VInv, GitCommit
  PROVE  VInv'
<1> PICK step \in {"barrier", "gitdone"} : At(step)
  BY DEF GitCommit
<1> USE DEF GitCommit, Advance, gitVars, mmVars, ovVars, xapVars, wrVars, ixVars, badVars
<1>1. TypeOK'
  BY AtFacts DEF VInv, TypeOK
<1>2. Grows /\ Writes
  BY BoundAssumption DEF Grows, Writes, VInv, Durable, Documents, TypeOK, Msgmaps
<1>3. Flow' /\ ~Abandoned
  BY <1>1, <1>2, AdvanceFlow DEF Grows
<1>4. Durable'
  <2>1. steps' # << >> => Head(steps') = "mm"
    BY AtFacts DEF StepOrder
  <2>2. steps' # << >>
    BY AtFacts DEF VInv, Flow
  <2> QED  BY <2>1, <2>2, AtFacts DEF Durable, VInv, Unsynced
<1>5. Documents' /\ Committed'
  BY <1>1, <1>2, <1>3, WritesKept
<1>6. Sources'
  BY <1>2 DEF VInv, Sources, Grows
<1> QED  BY <1>1, <1>3, <1>4, <1>5, <1>6 DEF VInv

\* msgmap.sqlite3 is committed.
LEMMA MmCommitStep ==
  ASSUME VInv, mm_commit
  PROVE  VInv'
<1> USE DEF mm_commit, Advance, gitVars, mmVars, ovVars, xapVars, wrVars, ixVars, badVars
<1>0. At("mm")
  OBVIOUS
<1>1. TypeOK'
  BY <1>0, AtFacts DEF VInv, TypeOK
<1>2. Grows /\ Writes
  BY BoundAssumption DEF Grows, Writes, VInv, Durable, Documents, TypeOK, Msgmaps
<1>3. Flow' /\ ~Abandoned
  BY <1>0, <1>1, <1>2, AdvanceFlow DEF Grows
<1>4. Durable'
  <2>0. steps # << >> /\ Head(steps) = "mm"
    BY <1>0, AtFacts
  <2>1. git = gitD
    BY <2>0 DEF Durable, VInv
  <2>2. mm.seq \in Int
    BY BoundAssumption DEF VInv, TypeOK, Msgmaps
  <2> QED  BY <2>1, <2>2, AtFacts DEF Durable, VInv
<1>5. Documents' /\ Committed'
  BY <1>1, <1>2, <1>3, WritesKept
<1>6. Sources'
  <2>1. \A n \in Nums : n \in Int
    BY DEF Nums
  <2>2. mm.seq \in Int /\ mmD.seq \in Int /\ mmD.seq <= mm.seq
    BY BoundAssumption DEF VInv, TypeOK, Msgmaps, Durable
  <2> QED  BY <2>1, <2>2 DEF VInv, Sources
<1> QED  BY <1>1, <1>3, <1>4, <1>5, <1>6 DEF VInv

\* At over and xap the commits and numbers are on disk.
LEMMA SyncedIsDurable ==
  ASSUME VInv, NEW step, At(step), step \notin Unsynced
  PROVE  /\ mm.seq = mmD.seq /\ git = gitD
         /\ \A n, b : Known1(n, b) => KnownD(n, b)
<1>1. mm.seq = mmD.seq /\ git = gitD
  BY AtFacts DEF VInv, Durable, Unsynced
<1> QED  BY <1>1 DEF Known1, KnownD

\* over.sqlite3 is committed: what it holds is on disk in git and msgmap.
LEMMA CommitLazyStep ==
  ASSUME VInv, commit_lazy
  PROVE  VInv'
<1> USE DEF commit_lazy, Advance, gitVars, mmVars, ovVars, xapVars, wrVars, ixVars, badVars
<1>0. At("over") /\ steps # << >> /\ Head(steps) = "over" /\ owner \in {"writer", "index"}
  BY AtFacts
<1>1. TypeOK'
  BY <1>0, AtFacts DEF VInv, TypeOK
<1>2. mm.seq \in Int /\ mmD.seq \in Int
  BY BoundAssumption DEF VInv, TypeOK, Msgmaps
<1>3. Flow' /\ ~Abandoned
  BY <1>0, <1>1, <1>2, AdvanceFlow
<1>4. Durable'
  BY <1>0 DEF Durable, VInv, Unsynced
<1>5. Documents'
  <2>1. \A n \in Nums : ovD'[n] # NoBlob => KnownD(n, ovD[n])'
    BY <1>0, SyncedIsDurable DEF VInv, Documents, KnownD, Unsynced
  <2> QED  BY <1>3, <2>1 DEF VInv, Documents, Known1, KnownD
<1>6. Committed' /\ Sources'
  BY DEF VInv, Committed, Sources, KnownD
<1> QED  BY <1>1, <1>3, <1>4, <1>5, <1>6 DEF VInv

\* Every shard is asked to commit what is on disk in git and msgmap.
LEMMA CommitTxnLazyStep ==
  ASSUME VInv, commit_txn_lazy
  PROVE  VInv'
<1> USE DEF commit_txn_lazy, Advance, gitVars, mmVars, ovVars, wrVars, ixVars, badVars
<1>0. At("xap") /\ steps # << >> /\ Head(steps) = "xap" /\ owner \in {"writer", "index"}
  BY AtFacts
<1>1. CommitTxn \in Requests /\ CommitTxn.b = NoBlob
  BY DEF CommitTxn, Requests
<1>2. /\ xq' \in [Shards -> Seq(Requests)]
      /\ \A s \in Shards : \A k \in 1 .. Len(xq'[s]) :
            \/ k \in 1 .. Len(xq[s]) /\ xq'[s][k] = xq[s][k]
            \/ k = Len(xq[s]) + 1 /\ xq'[s][k] = CommitTxn
  BY <1>1, RequestFacts DEF VInv
<1>3. TypeOK'
  BY <1>0, <1>2, AtFacts DEF VInv, TypeOK
<1>4. mm.seq \in Int /\ mmD.seq \in Int
  BY BoundAssumption DEF VInv, TypeOK, Msgmaps
<1>5. Flow' /\ ~Abandoned
  BY <1>0, <1>3, <1>4, AdvanceFlow
<1>6. Durable'
  BY <1>0 DEF Durable, VInv, Unsynced
<1>7. \A n, b : Known1(n, b) => KnownD(n, b)
  BY <1>0, SyncedIsDurable DEF Unsynced
<1>8. Documents'
  <2>1. \A s \in Shards : \A k \in 1 .. Len(xq'[s]) :
            xq'[s][k].b # NoBlob => \A n \in xq'[s][k].ns : Known1(n, xq'[s][k].b)
    BY <1>1, <1>2, <1>5 DEF VInv, Documents
  <2> QED  BY <1>5, <2>1 DEF VInv, Documents, Known1, KnownD
<1>9. Committed'
  <2>1. \A s \in Shards : \A k \in 1 .. Len(xq'[s]) :
            xq'[s][k].b # NoBlob => \A n \in xq'[s][k].ns : KnownD(n, xq'[s][k].b)
    BY <1>1, <1>2, <1>5, <1>7 DEF VInv, Documents
  <2>2. \A n \in Nums : xap[n] # NoBlob => KnownD(n, xap[n])
    BY <1>5, <1>7 DEF VInv, Documents
  <2>3. \A s \in Shards : \A k \in 1 .. Len(xq'[s]) : \A l \in 1 .. k - 1 : l \in 1 .. Len(xq'[s])
    BY <1>2
  <2> QED  BY <2>1, <2>2, <2>3 DEF Committed, KnownD
<1>10. Sources'
  BY DEF VInv, Sources
<1> QED  BY <1>3, <1>5, <1>6, <1>8, <1>9, <1>10 DEF VInv

\* Waiting for the shards changes nothing.
LEMMA WaitStep ==
  ASSUME VInv, ipc_wait_all
  PROVE  VInv'
<1> USE DEF ipc_wait_all, Advance, gitVars, mmVars, ovVars, xapVars, wrVars, ixVars, badVars
<1>0. At("wait") /\ steps # << >> /\ Head(steps) = "wait" /\ owner \in {"writer", "index"}
  BY AtFacts
<1>1. TypeOK'
  BY <1>0, AtFacts DEF VInv, TypeOK
<1>2. Grows /\ Writes
  BY BoundAssumption DEF Grows, Writes, VInv, Durable, Documents, TypeOK, Msgmaps
<1>3. Flow' /\ ~Abandoned
  BY <1>0, <1>1, <1>2, AdvanceFlow DEF Grows
<1>4. Durable'
  BY <1>0 DEF Durable, VInv, Unsynced
<1>5. Documents' /\ Committed'
  BY <1>1, <1>2, <1>3, WritesKept
<1>6. Sources'
  BY DEF VInv, Sources
<1> QED  BY <1>1, <1>3, <1>4, <1>5, <1>6 DEF VInv

\* set_last_commits touches neither rows nor the sequence.
LEMMA SetLastCommitsStep ==
  ASSUME VInv, set_last_commits
  PROVE  VInv'
<1> USE DEF set_last_commits, Advance, gitVars, ovVars, xapVars, wrVars, ixVars, badVars
<1>0. At("lc") /\ steps # << >> /\ Head(steps) = "lc" /\ owner \in {"writer", "index"}
  BY AtFacts
<1>1. mm' \in Msgmaps /\ mm'.row = mm.row /\ mm'.seq = mm.seq
  <2>1. CASE owner = "writer"
    BY <2>1 DEF VInv, TypeOK, Msgmaps
  <2>2. CASE owner # "writer"
    BY <2>2 DEF VInv, TypeOK
  <2> QED  BY <2>1, <2>2
<1>2. last_commit' \in [Epochs -> 0 .. MaxCommit]
  BY BoundAssumption DEF VInv, TypeOK
<1>3. TypeOK'
  BY <1>0, <1>1, <1>2, AtFacts DEF VInv, TypeOK
<1>4. mm.seq = mmD.seq /\ git = gitD /\ mm.seq \in Int
  <2>1. mm.seq \in Int
    BY BoundAssumption DEF VInv, TypeOK, Msgmaps
  <2> QED  BY <1>0, <2>1, SyncedIsDurable DEF Unsynced
<1>5. Grows /\ Writes
  BY <1>1, <1>4 DEF Grows, Writes
<1>6. Flow' /\ ~Abandoned
  BY <1>0, <1>3, <1>5, AdvanceFlow DEF Grows
<1>7. Durable'
  BY <1>1, <1>4 DEF Durable
<1>8. Documents' /\ Committed'
  BY <1>3, <1>5, <1>6, WritesKept
<1>9. Sources'
  BY <1>1, <1>4 DEF VInv, Sources
<1> QED  BY <1>3, <1>6, <1>7, <1>8, <1>9 DEF VInv

\* A new epoch begins.
LEMMA AddEpochStep ==
  ASSUME VInv, add_epoch
  PROVE  VInv'
<1> USE DEF add_epoch, Advance, gitVars, mmVars, ovVars, xapVars, wrVars, ixVars, badVars
<1>0. At("epoch") /\ steps # << >> /\ Head(steps) = "epoch" /\ owner \in {"writer", "index"}
  BY AtFacts
<1>1. steps[Len(steps)] = "resume" /\ steps' # << >> /\ Head(steps') = "resume"
      /\ steps'[Len(steps')] = "resume"
  <2>1. steps' # << >>
    BY <1>0, AtFacts DEF VInv, Flow
  <2>2. Head(steps') = "resume"
    BY <1>0, <2>1, AtFacts DEF StepOrder
  <2>4. steps' \in Seq(StepNames) /\ Ordered(steps')
    BY <1>0, AtFacts
  <2>5. Len(steps') = 1
    BY <2>1, <2>2, <2>4, LastSteps
  <2>3. Len(steps') = 1 /\ Head(steps') = steps'[1]
    <3>1. \A st \in Seq(StepNames) : st # << >> => Head(st) = st[1]
      OBVIOUS
    <3> QED  BY <2>1, <2>4, <2>5, <3>1
  <2> QED  BY <1>0, <2>1, <2>2, <2>3, AtFacts
<1>2. cur # NoCall /\ epoch_max < MaxEpoch
  BY <1>0, <1>1 DEF VInv, Flow, Ends, Next1
<1>3. epoch_max + 1 \in Epochs /\ epoch_max + 1 \in -1 .. MaxEpoch
  BY <1>2, ShapeAssumption DEF VInv, TypeOK, Epochs
<1>4. TypeOK'
  BY <1>0, <1>3, AtFacts DEF VInv, TypeOK
<1>5. Grows /\ Writes
  BY BoundAssumption DEF Grows, Writes, VInv, Durable, Documents, TypeOK, Msgmaps
<1>6. ~Abandoned
  BY <1>0 DEF Abandoned, Next1
<1>7. Flow'
  <2>1. Ordered(steps')
    BY <1>0, AtFacts
  <2> QED  BY <1>0, <1>1, <1>2, <1>3, <2>1 DEF VInv, Flow, Ends, Next1
<1>8. Durable'
  BY <1>0, <1>1 DEF Durable, VInv, Unsynced
<1>9. Documents' /\ Committed'
  BY <1>4, <1>5, <1>6, WritesKept
<1>10. Sources'
  BY DEF VInv, Sources
<1> QED  BY <1>4, <1>7, <1>8, <1>9, <1>10 DEF VInv

\* done gives the lock back: the shards start over from what is committed.
LEMMA ReleaseStep ==
  ASSUME VInv, release
  PROVE  VInv'
<1> USE DEF release, gitVars, mmVars, ovVars, badVars
<1>0. At("release") /\ steps # << >> /\ Head(steps) = "release" /\ owner \in {"writer", "index"}
  BY AtFacts
<1>1. TypeOK'
  BY DEF VInv, TypeOK
<1>2. Len(steps) = 1 /\ Head(steps) = steps[1]
  <2>1. steps \in Seq(StepNames) /\ Ordered(steps)
    BY <1>0, AtFacts
  <2>2. Len(steps) = 1
    BY <1>0, <2>1, LastSteps
  <2> QED  BY <1>0, <2>1, <2>2
<1>3. cur = NoCall
  BY <1>0, <1>2 DEF VInv, Flow, Ends
<1>4. Flow'
  BY <1>3 DEF VInv, Flow, Ordered, Ends, Next1
<1>5. mm.seq = mmD.seq /\ git = gitD /\ \A n, b : KnownD(n, b) => Known1(n, b)
  <2>1. mm.seq = mmD.seq /\ git = gitD
    BY <1>0, SyncedIsDurable DEF Unsynced
  <2> QED  BY <2>1 DEF Known1, KnownD
<1>6. Durable'
  BY <1>5 DEF VInv, Durable
<1>7. \A s \in Shards : Len(xq'[s]) = 0
  BY DEF Drained
<1>8. Documents'
  <2>1. \A n \in Nums : xap'[n] # NoBlob => Known1(n, xap'[n])
    BY <1>5 DEF VInv, Documents
  <2>2. \A s \in Shards : 1 .. Len(xq'[s]) = {}
    BY <1>7
  <2> QED  BY <2>1, <2>2 DEF VInv, Documents, Known1, KnownD
<1>9. Committed'
  <2>1. \A s \in Shards : 1 .. Len(xq'[s]) = {}
    BY <1>7
  <2> QED  BY <2>1 DEF Committed
<1>10. Sources'
  BY DEF VInv, Sources
<1> QED  BY <1>1, <1>4, <1>6, <1>8, <1>9, <1>10 DEF VInv

\* A plan of one step.
LEMMA SingleStep ==
  ASSUME NEW st, st = <<"release">> \/ st = <<"dead">>
  PROVE  /\ st \in Seq(StepNames) /\ Len(st) = 1 /\ st # << >>
         /\ Head(st) \in {"release", "dead"} /\ st[1] \in {"release", "dead"}
<1>1. CASE st = <<"release">>
  BY <1>1 DEF StepNames
<1>2. CASE st = <<"dead">>
  BY <1>2 DEF StepNames
<1> QED  BY <1>1, <1>2

\* git-fast-import fails in done: msgmap and over are rolled back to what is on
\* disk, and the shards, which are not, are closed without a commit.
LEMMA GitFailsInDoneStep ==
  ASSUME VInv, GitFailsInDone
  PROVE  VInv'
<1> USE DEF GitFailsInDone, xapVars, ixVars
<1>0. At("gitdone") /\ owner \in {"writer", "index"}
  BY AtFacts
<1>1. steps' \in Seq(StepNames) /\ Len(steps') = 1 /\ steps' # << >>
      /\ Head(steps') \in {"release", "dead"} /\ steps'[1] \in {"release", "dead"}
  <2>1. steps' = <<"release">> \/ steps' = <<"dead">>
    OBVIOUS
  <2> QED  BY <2>1, SingleStep
<1>2. TypeOK'
  <2>1. nfail' \in 0 .. MaxFail
    BY BoundAssumption DEF VInv, TypeOK
  <2> QED  BY <1>1, <2>1 DEF VInv, TypeOK
<1>3. Flow'
  BY <1>0, <1>1 DEF VInv, Flow, Ordered, Ends, Next1
<1>4. mm'.seq = mmD.seq /\ mmD.seq \in Int
  BY BoundAssumption DEF VInv, TypeOK, Msgmaps
<1>5. Durable'
  BY <1>0, <1>1, <1>4 DEF Durable
<1>6. Abandoned'
  BY <1>1 DEF Abandoned, Next1
<1>7. Documents'
  BY <1>6 DEF VInv, Documents, Known1, KnownD
<1>8. Committed'
  BY DEF VInv, Committed, KnownD
<1>9. Sources'
  BY DEF VInv, Sources
<1> QED  BY <1>2, <1>3, <1>5, <1>7, <1>8, <1>9 DEF VInv

\* git-fast-import fails when an epoch ends: what is in msgmap, over and the
\* shards stays, and nrotfail says so.
LEMMA GitFailsInImporterStep ==
  ASSUME VInv, GitFailsInImporter
  PROVE  VInv'
<1> USE DEF GitFailsInImporter, mmVars, ovVars, xapVars, ixVars
<1>0. At("gitdone") /\ owner \in {"writer", "index"} /\ steps # << >> /\ Head(steps) = "gitdone"
  BY AtFacts
<1>1. TypeOK' /\ nrotfail' # 0
  <2>1. nrotfail' \in 0 .. MaxFail /\ nrotfail' # 0
    BY BoundAssumption DEF VInv, TypeOK
  <2>2. cur' \in Calls
    BY BoundAssumption DEF NoCall, Calls
  <2> QED  BY <2>1, <2>2 DEF VInv, TypeOK
<1>2. Flow'
  BY <1>0 DEF VInv, Flow, Ordered, Ends, Next1
<1>3. mm.seq \in Int /\ mmD.seq \in Int
  BY BoundAssumption DEF VInv, TypeOK, Msgmaps
<1>4. Durable'
  BY <1>0, <1>3 DEF VInv, Durable
<1>5. ~Abandoned
  BY <1>0 DEF Abandoned, Next1
<1>6. Documents'
  BY <1>1, <1>5 DEF VInv, Documents, Known1, KnownD
<1>7. Committed'
  BY <1>1 DEF VInv, Committed, KnownD
<1>8. Sources'
  BY DEF VInv, Sources
<1> QED  BY <1>1, <1>2, <1>4, <1>6, <1>7, <1>8 DEF VInv

-----------------------------------------------------------------------------
(* Crashes, orphans and shards. *)

\* A process is killed: its transactions are rolled back, its shard workers
\* are orphans.
LEMMA CrashStep ==
  ASSUME VInv, Crash
  PROVE  VInv'
<1> USE DEF Crash, ixVars
<1>1. xq' = xq \/ xq' = [s \in Shards |-> << >>]
  OBVIOUS
<1>2. TypeOK'
  <2>1. ncrash' \in Nat
    BY DEF VInv, TypeOK
  <2>2. xq' \in [Shards -> Seq(Requests)]
    <3>1. CASE xq' = xq
      BY <3>1 DEF VInv, TypeOK
    <3>2. CASE xq' = [s \in Shards |-> << >>]
      <4>1. << >> \in Seq(Requests)
        OBVIOUS
      <4> QED  BY <3>2, <4>1, Zenon
    <3> QED  BY <1>1, <3>1, <3>2
  <2>3. im' \in BOOLEAN /\ epoch_max' \in -1 .. MaxEpoch /\ last_commit' \in [Epochs -> 0 .. MaxCommit]
        /\ cur' \in Calls /\ added' \in SUBSET Msgs
    <3>1. CASE owner = "writer"
      <4>1. NoCall \in Calls /\ 0 \in 0 .. MaxCommit /\ -1 \in -1 .. MaxEpoch
        BY BoundAssumption, ShapeAssumption DEF Calls, NoCall
      <4>2. [e \in Epochs |-> 0] \in [Epochs -> 0 .. MaxCommit]
        BY <4>1
      <4> QED  BY <3>1, <4>1, <4>2
    <3>2. CASE owner # "writer"
      BY <3>2 DEF VInv, TypeOK
    <3> QED  BY <3>1, <3>2
  <2>4. sync' \in {"none", "work", "dirty", "relock"} /\ todo' \in SUBSET Units
        /\ latest' \in 0 .. MaxCommit /\ mm_tmp' \in Rows
    <3>1. CASE owner = "writer"
      BY <3>1 DEF VInv, TypeOK
    <3>2. CASE owner # "writer"
      BY <3>2, BoundAssumption DEF NoRows, Rows
    <3> QED  BY <3>1, <3>2
  <2>5. steps' \in Seq(StepNames) /\ owner' \in {"none", "writer", "index", "orphans"}
    OBVIOUS
  <2> QED  BY <2>1, <2>2, <2>3, <2>4, <2>5 DEF VInv, TypeOK
<1>3. cur' = NoCall
  BY DEF VInv, Flow
<1>4. Flow'
  BY <1>3 DEF VInv, Flow, Ordered, Ends, Next1
<1>5. mmD.seq \in Int
  BY BoundAssumption DEF VInv, TypeOK, Msgmaps
<1>6. Durable'
  BY <1>5 DEF Durable
<1>7. Documents'
  <2>1. Abandoned'
    BY DEF Abandoned
  <2> QED  BY <2>1 DEF VInv, Documents, Known1, KnownD
<1>8. Committed'
  <2>1. CASE xq' = xq
    BY <2>1 DEF VInv, Committed, KnownD
  <2>2. CASE xq' = [s \in Shards |-> << >>]
    <3>1. \A s \in Shards : 1 .. Len(xq'[s]) = {}
      BY <2>2
    <3> QED  BY <3>1 DEF Committed
  <2> QED  BY <1>1, <2>1, <2>2
<1>9. Sources'
  <2>1. \A n \in Nums : NoRows[n] = NoMid
    BY DEF NoRows
  <2> QED  BY <2>1 DEF VInv, Sources
<1> QED  BY <1>2, <1>4, <1>6, <1>7, <1>8, <1>9 DEF VInv

\* The last orphan is gone.
LEMMA OrphansExitStep ==
  ASSUME VInv, OrphansExit
  PROVE  VInv'
<1> USE DEF OrphansExit, gitVars, mmVars, ovVars, wrVars, ixVars, badVars
<1>1. TypeOK'
  BY DEF VInv, TypeOK
<1>2. Flow'
  BY DEF VInv, Flow, Ordered, Ends, Next1
<1>3. Durable'
  BY DEF VInv, Durable
<1>4. \A s \in Shards : 1 .. Len(xq'[s]) = {}
  BY DEF Drained
<1>5. Documents'
  <2>1. \A n \in Nums : xap'[n] # NoBlob => Known1(n, xap'[n])
    BY OnDiskIsKnown DEF VInv, Documents
  <2> QED  BY <1>4, <2>1 DEF VInv, Documents, Known1, KnownD
<1>6. Committed'
  BY <1>4 DEF Committed
<1>7. Sources'
  BY DEF VInv, Sources
<1> QED  BY <1>1, <1>2, <1>3, <1>5, <1>6, <1>7 DEF VInv

\* A shard serves a request: what it commits is accounted for on disk.
LEMMA ShardStepStep ==
  ASSUME VInv, NEW s \in Shards, ShardStep(s)
  PROVE  VInv'
<1> USE DEF gitVars, mmVars, ovVars, wrVars, ixVars, badVars
<1> DEFINE r == Head(xq[s])
<1>u. UNCHANGED <<git, gitD, ids, epochs, mm, mmD, ov, ovD, owner, steps, im, epoch_max, last_commit,
                  cur, added, acked, sync, todo, latest, mm_tmp, ncrash, nfail, nrotfail>>
  BY DEF ShardStep
<1>0. /\ xap' = [n \in Nums |-> IF n \in r.ns /\ idx_shard(n) = s THEN r.b ELSE xap[n]]
      /\ xapD' = IF r.op = "commit"
                 THEN [n \in Nums |-> IF idx_shard(n) = s THEN xap[n] ELSE xapD[n]] ELSE xapD
      /\ xq' = [xq EXCEPT ![s] = Tail(@)]
  BY DEF ShardStep
<1>1. xq[s] \in Seq(Requests) /\ xq[s] # << >> /\ 1 \in 1 .. Len(xq[s]) /\ r = xq[s][1]
  BY DEF VInv, TypeOK, ShardStep
<1>2. r \in Requests /\ r.ns \subseteq Nums /\ r.b \in Blobs \union {NoBlob}
  BY <1>1, QueueFacts DEF VInv
<1> HIDE DEF r
<1>3. ASSUME NEW t \in Shards, NEW k \in 1 .. Len(xq'[t])
      PROVE  IF t = s THEN k + 1 \in 1 .. Len(xq[t]) /\ xq'[t][k] = xq[t][k + 1]
             ELSE k \in 1 .. Len(xq[t]) /\ xq'[t][k] = xq[t][k]
  <2>1. CASE t = s
    <3>1. xq'[s] = Tail(xq[s])
      BY <1>0 DEF VInv, TypeOK
    <3>2. Len(Tail(xq[s])) = Len(xq[s]) - 1 /\ Len(xq[s]) \in Nat
          /\ \A i \in 1 .. Len(xq[s]) - 1 : Tail(xq[s])[i] = xq[s][i + 1]
      BY <1>1
    <3> QED  BY <2>1, <1>3, <3>1, <3>2
  <2>2. CASE t # s
    BY <2>2, <1>0, <1>3 DEF VInv, TypeOK
  <2> QED  BY <2>1, <2>2
<1>4. TypeOK'
  <2>1. xap' \in Tables /\ xapD' \in Tables
    BY <1>0, <1>2 DEF VInv, TypeOK, Tables
  <2>2. Tail(xq[s]) \in Seq(Requests)
    BY <1>1
  <2>3. xq' \in [Shards -> Seq(Requests)]
    BY <1>0, <2>2 DEF VInv, TypeOK
  <2> QED  BY <1>u, <2>1, <2>3 DEF VInv, TypeOK
<1>5. Flow' /\ Durable' /\ Sources'
  BY <1>u DEF VInv, Flow, Durable, Sources, Ordered, Ends, Next1
<1>6. \A n, b : (Known1(n, b)' <=> Known1(n, b)) /\ (KnownD(n, b)' <=> KnownD(n, b))
  BY <1>u DEF Known1, KnownD
<1>7. Abandoned' <=> Abandoned
  BY <1>u DEF Abandoned, Next1
<1>8. Documents'
  <2>1. \A n \in Nums : xapD'[n] # NoBlob => KnownD(n, xapD'[n])
    <3>1. CASE r.op = "commit"
      <4>1. \A n \in Nums : idx_shard(n) = s /\ xap[n] # NoBlob => KnownD(n, xap[n])
        BY <3>1, <1>1 DEF VInv, Committed
      <4> QED  BY <1>0, <3>1, <4>1 DEF VInv, Documents
    <3>2. CASE r.op # "commit"
      BY <1>0, <3>2 DEF VInv, Documents
    <3> QED  BY <3>1, <3>2
  <2>2. ~Abandoned => \A n \in Nums : xap'[n] # NoBlob => Known1(n, xap'[n])
    <3>1. ~Abandoned => (r.b # NoBlob => \A n \in r.ns : Known1(n, r.b))
      BY <1>1 DEF VInv, Documents
    <3> QED  BY <1>0, <3>1 DEF VInv, Documents
  <2>3. ASSUME ~Abandoned, NEW t \in Shards, NEW k \in 1 .. Len(xq'[t]), xq'[t][k].b # NoBlob,
               NEW n \in xq'[t][k].ns
        PROVE  Known1(n, xq'[t][k].b)
    <3>1. CASE t = s
      BY <1>3, <2>3, <3>1 DEF VInv, Documents
    <3>2. CASE t # s
      BY <1>3, <2>3, <3>2 DEF VInv, Documents
    <3> QED  BY <3>1, <3>2
  <2>4. /\ BlobsIn(gitD) \subseteq BlobsIn(git)
        /\ \A n \in Nums : ov[n] # NoBlob => Known1(n, ov[n])
        /\ \A n \in Nums : ovD[n] # NoBlob => KnownD(n, ovD[n])
    BY DEF VInv, Documents
  <2> QED  BY <1>u, <1>6, <1>7, <2>1, <2>2, <2>3, <2>4 DEF Documents
<1>9. Committed'
  <2> SUFFICES ASSUME NEW t \in Shards, NEW k \in 1 .. Len(xq'[t]), xq'[t][k].op = "commit"
               PROVE  /\ \A n \in Nums : idx_shard(n) = t /\ xap'[n] # NoBlob => KnownD(n, xap'[n])
                      /\ \A l \in 1 .. k - 1 : xq'[t][l].b # NoBlob =>
                            \A n \in xq'[t][l].ns : KnownD(n, xq'[t][l].b)
    BY <1>6 DEF Committed
  <2>0. Len(xq'[t]) \in Nat /\ \A l \in 1 .. k - 1 : l \in 1 .. Len(xq'[t])
    BY <1>4 DEF TypeOK
  <2>1. CASE t = s
    <3>1. k + 1 \in 1 .. Len(xq[s]) /\ xq[s][k + 1].op = "commit"
      BY <1>3, <2>1
    <3>2. 1 \in 1 .. (k + 1) - 1 /\ \A l \in 1 .. k - 1 : l + 1 \in 1 .. (k + 1) - 1
      OBVIOUS
    <3>3. \A n \in Nums : idx_shard(n) = s /\ xap[n] # NoBlob => KnownD(n, xap[n])
      BY <3>1 DEF VInv, Committed
    <3>4. \A l \in 1 .. (k + 1) - 1 : xq[s][l].b # NoBlob =>
              \A n \in xq[s][l].ns : KnownD(n, xq[s][l].b)
      BY <3>1 DEF VInv, Committed
    <3>5. r.b # NoBlob => \A n \in r.ns : KnownD(n, r.b)
      BY <1>1, <3>2, <3>4
    <3>6. \A l \in 1 .. k - 1 : xq'[s][l] = xq[s][l + 1]
      BY <1>3, <2>0, <2>1
    <3> QED  BY <1>0, <2>1, <3>2, <3>3, <3>4, <3>5, <3>6
  <2>2. CASE t # s
    <3>1. k \in 1 .. Len(xq[t]) /\ xq[t][k].op = "commit"
      BY <1>3, <2>2
    <3>2. \A n \in Nums : idx_shard(n) = t => xap'[n] = xap[n]
      BY <1>0, <2>2
    <3>3. \A l \in 1 .. k - 1 : xq'[t][l] = xq[t][l]
      BY <1>3, <2>0, <2>2
    <3>4. \A n \in Nums : idx_shard(n) = t /\ xap[n] # NoBlob => KnownD(n, xap[n])
      BY <3>1 DEF VInv, Committed
    <3>5. \A l \in 1 .. k - 1 : xq[t][l].b # NoBlob =>
              \A n \in xq[t][l].ns : KnownD(n, xq[t][l].b)
      BY <3>1 DEF VInv, Committed
    <3> QED  BY <3>2, <3>3, <3>4, <3>5
  <2> QED  BY <2>1, <2>2
<1> QED  BY <1>4, <1>5, <1>8, <1>9 DEF VInv

-----------------------------------------------------------------------------
(* The calls of the writer that begin a checkpoint. *)

\* A call begins when nothing is left of the last one.
LEMMA IdleFacts ==
  ASSUME VInv, NEW p \in {"writer", "index"}, Idle(p) \/ owner = "none"
  PROVE  owner \in {p, "none"} /\ steps = << >> /\ cur = NoCall /\ ~Abandoned
<1>1. owner \in {p, "none"} /\ steps = << >>
  BY DEF VInv, Flow, Idle, May
<1> QED  BY <1>1 DEF VInv, Flow, Ends, Abandoned, Next1

\* A plan that begins with a commit of git or msgmap.
LEMMA PlanFlow ==
  ASSUME VInv, TypeOK', steps = << >>, owner' \in {"writer", "index"}, cur' = NoCall,
         steps' # << >>, Ordered(steps'), steps'[Len(steps')] \in {"lc", "release"},
         Head(steps') \in Unsynced, im' => epoch_max' \in Epochs
  PROVE  Flow'
  BY DEF Flow, Ends, Next1, Unsynced

\* barrier begins a checkpoint.
LEMMA BarrierStep ==
  ASSUME VInv, barrier
  PROVE  VInv'
<1> USE DEF barrier, gitVars, mmVars, ovVars, xapVars, wrVars, ixVars, badVars
<1>0. owner = "writer" /\ steps = << >> /\ cur = NoCall /\ ~Abandoned
  BY IdleFacts DEF Idle, May
<1>1. /\ steps' \in Seq(StepNames) /\ steps' # << >> /\ Ordered(steps')
      /\ steps'[Len(steps')] \in {"lc", "release"}
      /\ Head(steps') = IF im THEN "barrier" ELSE "mm"
  <2>1. CASE im
    <3>1. steps' = (<<"barrier">> \o Sync) \o <<"wait", "lc">>
      BY <2>1
    <3> QED  BY <2>1, <3>1, Plans
  <2>2. CASE ~im
    <3>1. steps' = (<< >> \o Sync) \o <<"wait", "lc">>
      BY <2>2
    <3> QED  BY <2>2, <3>1, Plans
  <2> QED  BY <2>1, <2>2
<1>2. TypeOK'
  BY <1>1 DEF VInv, TypeOK
<1>3. Grows /\ Writes
  BY BoundAssumption DEF Grows, Writes, VInv, Durable, Documents, TypeOK, Msgmaps
<1>4. Flow'
  BY <1>0, <1>1, <1>2, PlanFlow DEF Unsynced, VInv, Flow
<1>5. Durable'
  BY <1>0, <1>1 DEF VInv, Durable, Unsynced
<1>6. Documents' /\ Committed'
  BY <1>0, <1>2, <1>3, WritesKept
<1>7. Sources'
  BY DEF VInv, Sources
<1> QED  BY <1>2, <1>4, <1>5, <1>6, <1>7 DEF VInv

\* done begins with git-fast-import if it runs; if not, git has everything.
LEMMA DoneStep ==
  ASSUME VInv, done
  PROVE  VInv'
<1> USE DEF done, DoneIn, gitVars, mmVars, ovVars, xapVars, ixVars, badVars
<1>0. owner = "writer" /\ steps = << >> /\ cur = NoCall /\ ~Abandoned
  BY IdleFacts DEF Idle, May
<1>1. /\ steps' \in Seq(StepNames) /\ steps' # << >> /\ Ordered(steps')
      /\ steps'[Len(steps')] \in {"lc", "release"}
      /\ Head(steps') = IF im THEN "gitdone" ELSE "mm"
  <2>1. CASE im
    <3>1. steps' = (<<"gitdone">> \o Sync) \o <<"lc", "release">>
      BY <2>1 DEF GitDone
    <3> QED  BY <2>1, <3>1, Plans
  <2>2. CASE ~im
    <3>1. steps' = (<< >> \o Sync) \o <<"lc", "release">>
      BY <2>2 DEF GitDone
    <3> QED  BY <2>2, <3>1, Plans
  <2> QED  BY <2>1, <2>2
<1>2. TypeOK'
  BY <1>1 DEF VInv, TypeOK
<1>3. Grows /\ Writes
  BY BoundAssumption DEF Grows, Writes, VInv, Durable, Documents, TypeOK, Msgmaps
<1>4. Flow'
  BY <1>0, <1>1, <1>2, PlanFlow DEF Unsynced
<1>5. Durable'
  BY <1>0, <1>1 DEF VInv, Durable, Unsynced
<1>6. Documents' /\ Committed'
  BY <1>0, <1>2, <1>3, WritesKept
<1>7. Sources'
  BY DEF VInv, Sources
<1> QED  BY <1>2, <1>4, <1>5, <1>6, <1>7 DEF VInv

-----------------------------------------------------------------------------
(* Adding and removing. *)

\* The parts of the state that these calls leave alone.
OnDiskKept == UNCHANGED <<gitD, mmD, ovD, xap, xapD, nrotfail>>

\* A number below the sequence gets a document: index and index_oid.
Numbered(num) ==
    /\ mm' \in Msgmaps /\ mm.seq <= mm'.seq /\ num \in Nums /\ num <= mm'.seq

\* A document for a blob that git has.
LEMMA DocFacts ==
  ASSUME VInv, NEW num, NEW b \in Blobs, Numbered(num), OnDiskKept,
         ov' = [ov EXCEPT ![num] = b], ipc_do(add_xapian(num, b)),
         BlobsIn(git) \subseteq BlobsIn(git'), b \in BlobsIn(git')
  PROVE  /\ ov' \in Tables /\ xq' \in [Shards -> Seq(Requests)] /\ Grows /\ Writes
<1> USE DEF Numbered, OnDiskKept
<1>1. add_xapian(num, b) \in Requests /\ add_xapian(num, b).b = b /\ add_xapian(num, b).ns = {num}
      /\ add_xapian(num, b).op = "add"
  BY DEF add_xapian, Requests
<1>2. ov' \in Tables
  BY DEF VInv, TypeOK, Tables
<1>3. /\ xq' \in [Shards -> Seq(Requests)]
      /\ \A s \in Shards : \A k \in 1 .. Len(xq'[s]) :
            \/ k \in 1 .. Len(xq[s]) /\ xq'[s][k] = xq[s][k]
            \/ k = Len(xq[s]) + 1 /\ xq'[s][k] = add_xapian(num, b)
  BY <1>1, RequestFacts DEF VInv
<1>4. mm.seq \in Int /\ mm'.seq \in Int /\ mmD.seq \in Int /\ mmD.seq <= mm.seq
  BY BoundAssumption DEF VInv, TypeOK, Msgmaps, Durable
<1>5. Grows
  BY <1>4 DEF Grows, VInv, Documents
<1>6. Known1(num, b)'
  BY DEF Known1
<1>7. \A n \in Nums : ov'[n] = ov[n] \/ Known1(n, ov[n])'
  BY <1>6 DEF VInv, TypeOK, Tables, Known1
<1>8. Writes
  <2>1. ASSUME NEW s \in Shards, NEW k \in 1 .. Len(xq'[s])
        PROVE  \/ k \in 1 .. Len(xq[s]) /\ xq'[s][k] = xq[s][k]
               \/ /\ k = Len(xq[s]) + 1 /\ xq'[s][k].op # "commit"
                  /\ xq'[s][k].b # NoBlob => \A n \in xq'[s][k].ns : Known1(n, xq[s][k].b)'
    BY <1>1, <1>3, <1>6, <2>1
  <2> QED  BY <1>7, <2>1 DEF Writes
<1> QED  BY <1>2, <1>3, <1>5, <1>8

\* Import::add and do_idx.
LEMMA AddToFacts ==
  ASSUME VInv, NEW e \in Epochs, NEW m \in Msgs, NEW num, NEW k \in 0 .. MaxGen,
         AddTo(e, m, num, k), Numbered(num), OnDiskKept
  PROVE  /\ git' \in Seq(Commits) /\ ids' \in 0 .. MaxCommit
         /\ last_commit' \in [Epochs -> 0 .. MaxCommit]
         /\ ov' \in Tables /\ xq' \in [Shards -> Seq(Requests)] /\ added' \in SUBSET Msgs
         /\ Grows /\ Writes
<1> DEFINE b == [m |-> m, k |-> k]
<1>1. b \in Blobs
  BY BlobFacts
<1> HIDE DEF b
<1>2. Commits2git(e, "m", <<b>>) /\ ov' = [ov EXCEPT ![num] = b] /\ ipc_do(add_xapian(num, b))
      /\ added' = added \union {m}
  BY DEF AddTo, b
<1>3. <<b>> \in Seq(Blobs) /\ 1 \in 1 .. Len(<<b>>) /\ <<b>>[1] = b
  BY <1>1
<1>4. /\ git' \in Seq(Commits) /\ ids' \in 0 .. MaxCommit
      /\ last_commit' \in [Epochs -> 0 .. MaxCommit]
      /\ BlobsIn(git) \subseteq BlobsIn(git') /\ b \in BlobsIn(git')
  <2>1. TypeOK
    BY DEF VInv
  <2>2. \A i \in 1 .. Len(<<b>>) : <<b>>[i] \in BlobsIn(git')
    BY <1>2, <1>3, <2>1, CommitFacts
  <2> QED  BY <1>2, <1>3, <2>1, <2>2, CommitFacts
<1>5. added' \in SUBSET Msgs
  BY <1>2 DEF VInv, TypeOK
<1> QED  BY <1>1, <1>2, <1>4, <1>5, DocFacts

\* Removals from over and the shards need nothing of git or msgmap.
LEMMA GoneFacts ==
  ASSUME VInv, NEW gone \in SUBSET Nums, OnDiskKept, mm' \in Msgmaps, mm'.seq = mm.seq,
         ov' = [n \in Nums |-> IF n \in gone THEN NoBlob ELSE ov[n]], ipc_do(xdb_remove(gone)),
         BlobsIn(git) \subseteq BlobsIn(git')
  PROVE  /\ ov' \in Tables /\ xq' \in [Shards -> Seq(Requests)] /\ Grows /\ Writes
<1> USE DEF OnDiskKept
<1>1. xdb_remove(gone) \in Requests /\ xdb_remove(gone).b = NoBlob /\ xdb_remove(gone).op = "rm"
  BY DEF xdb_remove, Requests
<1>2. ov' \in Tables
  BY DEF VInv, TypeOK, Tables
<1>3. /\ xq' \in [Shards -> Seq(Requests)]
      /\ \A s \in Shards : \A k \in 1 .. Len(xq'[s]) :
            \/ k \in 1 .. Len(xq[s]) /\ xq'[s][k] = xq[s][k]
            \/ k = Len(xq[s]) + 1 /\ xq'[s][k] = xdb_remove(gone)
  BY <1>1, RequestFacts DEF VInv
<1>4. mm.seq \in Int /\ mmD.seq \in Int /\ mmD.seq <= mm.seq
  BY BoundAssumption DEF VInv, TypeOK, Msgmaps, Durable
<1>5. Grows
  BY <1>4 DEF Grows, VInv, Documents
<1>6. Writes
  <2>1. ASSUME NEW s \in Shards, NEW k \in 1 .. Len(xq'[s])
        PROVE  \/ k \in 1 .. Len(xq[s]) /\ xq'[s][k] = xq[s][k]
               \/ /\ k = Len(xq[s]) + 1 /\ xq'[s][k].op # "commit" /\ xq'[s][k].b = NoBlob
    BY <1>1, <1>3, <2>1
  <2>2. \A n \in Nums : ov'[n] = ov[n] \/ ov'[n] = NoBlob
    OBVIOUS
  <2> QED  BY <2>1, <2>2 DEF Writes
<1> QED  BY <1>2, <1>3, <1>5, <1>6

\* rewrite_internal.
LEMMA RemoveFacts ==
  ASSUME VInv, NEW e \in Epochs, NEW m \in Msgs, RemoveFrom(e, m), OnDiskKept
  PROVE  /\ git' \in Seq(Commits) /\ ids' \in 0 .. MaxCommit
         /\ last_commit' \in [Epochs -> 0 .. MaxCommit]
         /\ mm' \in Msgmaps /\ mm'.seq = mm.seq
         /\ \A n \in Nums : mm'.row[n] # NoMid => mm.row[n] # NoMid
         /\ ov' \in Tables /\ xq' \in [Shards -> Seq(Requests)]
         /\ added' \in SUBSET Msgs /\ acked' \in SUBSET Msgs
         /\ Grows /\ Writes
<1> DEFINE all == {n \in Nums : ov[n] \in {ov[g] : g \in Matches(m)}}
           rows == num_delete(mm.row, Matches(m))
<1>1. PICK q \in Orders(Matches(m)) : Commits2git(e, "d", [i \in DOMAIN q |-> ov[q[i]]])
  BY DEF RemoveFrom, Removes
<1>2. /\ mm' = [mm EXCEPT !.row = rows]
      /\ ov' = [n \in Nums |-> IF n \in all THEN NoBlob ELSE ov[n]]
      /\ ipc_do(xdb_remove(all))
      /\ added' = added \ {m} /\ acked' = acked \ {m}
  BY DEF RemoveFrom, Removes
<1>3. Matches(m) \subseteq Nums /\ \A n \in Matches(m) : ov[n] \in Blobs
  BY DEF Matches, VInv, TypeOK, Tables
<1>4. Cardinality(Matches(m)) \in Nat
  <2>1. IsFiniteSet(Nums)
    BY FS_Interval, BoundAssumption DEF Nums
  <2>2. IsFiniteSet(Matches(m))
    BY <1>3, <2>1, FS_Subset
  <2> QED  BY <2>2, FS_CardinalityType
<1>5. DOMAIN q = 1 .. Cardinality(Matches(m)) /\ \A i \in DOMAIN q : q[i] \in Matches(m)
  BY DEF Orders
<1>6. [i \in DOMAIN q |-> ov[q[i]]] \in Seq(Blobs)
  BY <1>3, <1>4, <1>5
<1>7. /\ git' \in Seq(Commits) /\ ids' \in 0 .. MaxCommit
      /\ last_commit' \in [Epochs -> 0 .. MaxCommit]
      /\ BlobsIn(git) \subseteq BlobsIn(git')
  <2>1. TypeOK
    BY DEF VInv
  <2> QED  BY <1>1, <1>6, <2>1, CommitFacts
<1>8. mm.row \in Rows
  BY DEF VInv, TypeOK, Msgmaps
<1>9. rows \in Rows /\ \A n \in Nums : rows[n] # NoMid => mm.row[n] # NoMid
  BY <1>8, DeleteFacts
<1> HIDE DEF rows
<1>10. mm' \in Msgmaps /\ mm'.seq = mm.seq /\ mm'.row = rows
  BY <1>2, <1>9 DEF VInv, TypeOK, Msgmaps
<1>11. all \in SUBSET Nums
  OBVIOUS
<1> HIDE DEF all
<1>12. ov' \in Tables /\ xq' \in [Shards -> Seq(Requests)] /\ Grows /\ Writes
  BY <1>2, <1>7, <1>10, <1>11, GoneFacts
<1>13. added' \in SUBSET Msgs /\ acked' \in SUBSET Msgs
  BY <1>2 DEF VInv, TypeOK
<1> QED  BY <1>7, <1>9, <1>10, <1>12, <1>13

\* Without a call that waits, an idle writer with {im} is in order.
LEMMA WriterFlow ==
  ASSUME VInv, TypeOK', owner' = "writer", steps' = << >>, cur' = NoCall,
         im' => epoch_max' \in Epochs
  PROVE  Flow'
  BY DEF Flow, Ordered, Ends, Next1

\* What importer leaves.
LEMMA ImporterFacts ==
  ASSUME VInv, NEW e \in Epochs, importer(e)
  PROVE  im' = TRUE /\ epoch_max' = e /\ epochs' \in Epochs /\ epoch_max' \in -1 .. MaxEpoch
  BY ShapeAssumption DEF VInv, TypeOK, importer, Epochs

\* importer, at the end of an epoch.
LEMMA RotateStep ==
  ASSUME VInv, NEW call \in Calls, Rotate(call), steps = << >>, cur = NoCall, ~Abandoned,
         call.op \in {"add", "remove"}, call.m \in Msgs, owner' = "writer",
         call.op = "add" => call.num \in 1 .. mm'.seq,
         mm' \in Msgmaps, mm.seq <= mm'.seq, \A n \in Nums : mm'.row[n] # NoMid => n <= mm'.seq,
         UNCHANGED <<gitVars, mmD, ovVars, xapVars, epoch_max, last_commit, added, acked, ixVars,
                     badVars>>
  PROVE  VInv'
<1> USE DEF Rotate, gitVars, ovVars, xapVars, ixVars, badVars
<1>1. /\ steps' \in Seq(StepNames) /\ steps' # << >> /\ Ordered(steps')
      /\ steps'[Len(steps')] = "resume" /\ Head(steps') = "gitdone"
  BY RotatePlan
<1>2. TypeOK'
  BY <1>1 DEF VInv, TypeOK
<1>3. mm.seq \in Int /\ mm'.seq \in Int /\ mmD.seq \in Int /\ mmD.seq <= mm.seq
  BY BoundAssumption DEF VInv, TypeOK, Msgmaps, Durable
<1>4. Grows /\ Writes
  BY <1>3 DEF Grows, Writes, VInv, Documents
<1>5. cur' # NoCall /\ cur' = call
  BY DEF NoCall
<1>6. Flow'
  BY <1>1, <1>5 DEF Flow, Ends, Next1
<1>7. Durable'
  BY <1>1, <1>3 DEF VInv, Durable, Unsynced
<1>8. Documents' /\ Committed'
  BY <1>2, <1>4, WritesKept
<1>9. Sources'
  BY DEF VInv, Sources
<1> QED  BY <1>2, <1>6, <1>7, <1>8, <1>9 DEF VInv

\* add: a duplicate, a message that goes to git, or one that waits for an epoch.
LEMMA AddStep ==
  ASSUME VInv, NEW m \in Msgs, add(m)
  PROVE  VInv'
<1> USE DEF ixVars, badVars, gitVars
<1>0. steps = << >> /\ cur = NoCall /\ ~Abandoned /\ owner' = "writer" /\ ~Abandoned
  BY IdleFacts DEF add, idx_init
<1>1. UNCHANGED <<gitD, mmD, ovD, xap, xapD, acked, ixVars, badVars>>
  BY DEF add
<1>2. mm.seq \in Int /\ mmD.seq \in Int /\ mmD.seq <= mm.seq /\ mm \in Msgmaps
  BY BoundAssumption DEF VInv, TypeOK, Msgmaps, Durable
<1>3. CASE /\ added' = added \union {m}
           /\ UNCHANGED <<gitVars, mm, ov, xq, im, epoch_max, last_commit, cur, steps>>
  <2>1. TypeOK'
    BY <1>0, <1>1, <1>3 DEF VInv, TypeOK
  <2>2. Grows /\ Writes
    BY <1>1, <1>2, <1>3 DEF Grows, Writes, VInv, Documents
  <2>3. Flow'
    BY <1>0, <1>3, <2>1, WriterFlow DEF VInv, Flow
  <2>4. Durable'
    BY <1>0, <1>1, <1>2, <1>3 DEF VInv, Durable
  <2>5. Documents' /\ Committed'
    BY <1>0, <2>1, <2>2, WritesKept
  <2>6. Sources'
    BY <1>1, <1>3 DEF VInv, Sources
  <2> QED  BY <2>1, <2>3, <2>4, <2>5, <2>6 DEF VInv
<1>4. ASSUME NEW k \in v2_num_for(m), mm.seq < MaxNum,
             mm' = mid_insert(mm, IF k = 0 THEN Mid[m] ELSE <<m, k>>),
             \/ /\ \E e \in Epochs : importer(e) /\ AddTo(e, m, mm.seq + 1, k)
                /\ UNCHANGED <<cur, steps>>
             \/ /\ Rotate([op |-> "add", m |-> m, num |-> mm.seq + 1, k |-> k])
                /\ UNCHANGED <<git, ids, epochs, ov, xq, epoch_max, last_commit, added>>
      PROVE  VInv'
  <2>1. k \in 0 .. MaxGen
    <3>1. v2_num_for(m) \subseteq {0} \union (1 .. MaxGen)
      BY DEF v2_num_for
    <3> QED  BY <3>1, BoundAssumption
  <2>2. (IF k = 0 THEN Mid[m] ELSE <<m, k>>) \in Mids
    <3>1. k # 0 => k \in 1 .. MaxGen
      BY <2>1, BoundAssumption
    <3> QED  BY <3>1, BlobFacts
  <2>3. /\ mm' \in Msgmaps /\ mm.seq + 1 \in Nums /\ mm'.seq = mm.seq + 1
        /\ mm'.row = [mm.row EXCEPT ![mm.seq + 1] = IF k = 0 THEN Mid[m] ELSE <<m, k>>]
    BY <1>2, <1>4, <2>2, InsertFacts
  <2>4. \A n \in Nums : mm'.row[n] # NoMid => n <= mm'.seq
    <3>1. \A n \in Nums : n \in Int
      BY DEF Nums
    <3>2. mm.row \in Rows
      BY <1>2 DEF Msgmaps
    <3>3. \A n \in Nums : mm.row[n] # NoMid => n <= mm.seq
      BY DEF VInv, Sources
    <3>4. \A n \in Nums : n # mm.seq + 1 => mm'.row[n] = mm.row[n]
      BY <2>3, <3>2 DEF Rows
    <3> QED  BY <1>2, <2>3, <3>1, <3>3, <3>4
  <2>5. mm.seq <= mm'.seq /\ mm.seq + 1 \in 0 .. MaxNum /\ mm.seq + 1 \in 1 .. mm'.seq
    BY <1>2, <1>4, <2>3, BoundAssumption DEF Nums
  <2>6. Numbered(mm.seq + 1) /\ OnDiskKept
    BY <1>1, <1>2, <2>3, <2>5 DEF Numbered, OnDiskKept
  <2>7. ASSUME NEW e \in Epochs, importer(e), AddTo(e, m, mm.seq + 1, k), UNCHANGED <<cur, steps>>
        PROVE  VInv'
    <3>1. im' = TRUE /\ epoch_max' = e /\ epochs' \in Epochs /\ epoch_max' \in -1 .. MaxEpoch
      BY <2>7, ImporterFacts
    <3>2. /\ git' \in Seq(Commits) /\ ids' \in 0 .. MaxCommit
          /\ last_commit' \in [Epochs -> 0 .. MaxCommit]
          /\ ov' \in Tables /\ xq' \in [Shards -> Seq(Requests)] /\ added' \in SUBSET Msgs
          /\ Grows /\ Writes
      BY <2>1, <2>6, <2>7, AddToFacts
    <3>3. TypeOK'
      BY <1>0, <1>1, <2>3, <2>7, <3>1, <3>2 DEF VInv, TypeOK
    <3>4. Flow'
      BY <1>0, <2>7, <3>1, <3>3, WriterFlow
    <3>5. Durable'
      BY <1>0, <1>1, <1>2, <2>3, <2>7, <3>1 DEF Durable
    <3>6. Documents' /\ Committed'
      BY <1>0, <3>2, <3>3, WritesKept
    <3>7. Sources'
      BY <1>1, <2>4 DEF VInv, Sources
    <3> QED  BY <3>3, <3>4, <3>5, <3>6, <3>7 DEF VInv
  <2>8. ASSUME Rotate([op |-> "add", m |-> m, num |-> mm.seq + 1, k |-> k]),
               UNCHANGED <<git, ids, epochs, ov, xq, epoch_max, last_commit, added>>
        PROVE  VInv'
    <3> DEFINE call == [op |-> "add", m |-> m, num |-> mm.seq + 1, k |-> k]
    <3>1. call \in Calls /\ call.op = "add" /\ call.m \in Msgs /\ call.num \in 1 .. mm'.seq
      BY <2>1, <2>5 DEF Calls
    <3> HIDE DEF call
    <3>2. UNCHANGED <<gitVars, mmD, ovVars, xapVars, epoch_max, last_commit, added, acked, ixVars,
                      badVars>>
      BY <1>1, <2>8 DEF ovVars, xapVars
    <3>3. Rotate(call)
      BY <2>8 DEF call
    <3> QED  BY <1>0, <2>3, <2>4, <2>5, <3>1, <3>2, <3>3, RotateStep
  <2> QED  BY <1>4, <2>7, <2>8
<1> QED  BY <1>3, <1>4 DEF add

\* remove: the articles go, or the call waits for an epoch.
LEMMA RemoveStep ==
  ASSUME VInv, NEW m \in Msgs, remove(m)
  PROVE  VInv'
<1> USE DEF ixVars, badVars, gitVars
<1>0. steps = << >> /\ cur = NoCall /\ ~Abandoned /\ owner' = "writer"
  BY IdleFacts DEF remove, idx_init
<1>1. UNCHANGED <<gitD, mmD, ovD, xap, xapD, ixVars, badVars>>
  BY DEF remove
<1>2. mm.seq \in Int /\ mmD.seq \in Int /\ mmD.seq <= mm.seq /\ mm \in Msgmaps
  BY BoundAssumption DEF VInv, TypeOK, Msgmaps, Durable
<1>3. ASSUME NEW e \in Epochs, importer(e), RemoveFrom(e, m), UNCHANGED <<cur, steps>>
      PROVE  VInv'
  <2>1. im' = TRUE /\ epoch_max' = e /\ epochs' \in Epochs /\ epoch_max' \in -1 .. MaxEpoch
    BY <1>3, ImporterFacts
  <2>2. OnDiskKept
    BY <1>1 DEF OnDiskKept
  <2>3. /\ git' \in Seq(Commits) /\ ids' \in 0 .. MaxCommit
        /\ last_commit' \in [Epochs -> 0 .. MaxCommit]
        /\ mm' \in Msgmaps /\ mm'.seq = mm.seq
        /\ \A n \in Nums : mm'.row[n] # NoMid => mm.row[n] # NoMid
        /\ ov' \in Tables /\ xq' \in [Shards -> Seq(Requests)]
        /\ added' \in SUBSET Msgs /\ acked' \in SUBSET Msgs
        /\ Grows /\ Writes
    BY <1>3, <2>2, RemoveFacts
  <2>4. TypeOK'
    BY <1>0, <1>1, <1>3, <2>1, <2>3 DEF VInv, TypeOK
  <2>5. Flow'
    BY <1>0, <1>3, <2>1, <2>4, WriterFlow
  <2>6. Durable'
    BY <1>0, <1>1, <1>2, <1>3, <2>1, <2>3 DEF Durable
  <2>7. Documents' /\ Committed'
    BY <1>0, <2>3, <2>4, WritesKept
  <2>8. Sources'
    BY <1>1, <2>3 DEF VInv, Sources
  <2> QED  BY <2>4, <2>5, <2>6, <2>7, <2>8 DEF VInv
<1>4. ASSUME Rotate([NoCall EXCEPT !.op = "remove", !.m = m]),
             UNCHANGED <<git, ids, epochs, mm, ov, xq, epoch_max, last_commit, added, acked>>
      PROVE  VInv'
  <2> DEFINE call == [NoCall EXCEPT !.op = "remove", !.m = m]
  <2>1. call \in Calls /\ call.op = "remove" /\ call.m \in Msgs
    <3>1. NoCall \in Calls
      BY BoundAssumption DEF Calls, NoCall
    <3> QED  BY <3>1 DEF Calls
  <2> HIDE DEF call
  <2>2. UNCHANGED <<gitVars, mmD, ovVars, xapVars, epoch_max, last_commit, added, acked, ixVars,
                    badVars>>
    BY <1>1, <1>4 DEF ovVars, xapVars
  <2>3. Rotate(call)
    BY <1>4 DEF call
  <2>4. mm' \in Msgmaps /\ mm.seq <= mm'.seq /\ \A n \in Nums : mm'.row[n] # NoMid => n <= mm'.seq
    BY <1>2, <1>4 DEF VInv, Sources
  <2> QED  BY <1>0, <2>1, <2>2, <2>3, <2>4, RotateStep
<1> QED  BY <1>3, <1>4 DEF remove

\* The call that waited goes on in the new epoch.
LEMMA ResumeStep ==
  ASSUME VInv, Resume
  PROVE  VInv'
<1> USE DEF ixVars, badVars
<1>0. At("resume") /\ steps # << >> /\ Head(steps) = "resume" /\ owner \in {"writer", "index"}
  BY AtFacts DEF Resume
<1>1. /\ cur' = NoCall /\ steps' = Tail(steps)
      /\ UNCHANGED <<gitD, epochs, mmD, ovD, xap, xapD, owner, im, epoch_max, ixVars, badVars>>
  BY DEF Resume, Advance
<1>2. Len(steps) = 1 /\ Tail(steps) = << >> /\ Head(steps) = steps[1]
  <2>1. steps \in Seq(StepNames) /\ Ordered(steps)
    BY <1>0, AtFacts
  <2>2. Len(steps) = 1 /\ Tail(steps) = << >>
    BY <1>0, <2>1, LastSteps
  <2> QED  BY <1>0, <2>1, <2>2
<1>3. cur # NoCall /\ im /\ epoch_max \in Epochs /\ ~Abandoned
  BY <1>0, <1>2 DEF VInv, Flow, Ends, Next1, Abandoned
<1>4. owner = "writer" /\ cur.op \in {"add", "remove"} /\ cur.m \in Msgs
      /\ (cur.op = "add" => cur.num \in 1 .. mm.seq)
  BY <1>3 DEF VInv, Flow
<1>5. mm.seq \in Int /\ mmD.seq \in Int /\ mmD.seq <= mm.seq /\ mm \in Msgmaps
  BY BoundAssumption DEF VInv, TypeOK, Msgmaps, Durable
<1>6. OnDiskKept
  BY <1>1 DEF OnDiskKept
<1>7. /\ git' \in Seq(Commits) /\ ids' \in 0 .. MaxCommit
      /\ last_commit' \in [Epochs -> 0 .. MaxCommit]
      /\ mm' \in Msgmaps /\ mm'.seq = mm.seq
      /\ \A n \in Nums : mm'.row[n] # NoMid => mm.row[n] # NoMid
      /\ ov' \in Tables /\ xq' \in [Shards -> Seq(Requests)]
      /\ added' \in SUBSET Msgs /\ acked' \in SUBSET Msgs
      /\ Grows /\ Writes
  <2>1. CASE cur.op = "add"
    <3>1. AddTo(epoch_max, cur.m, cur.num, cur.k) /\ UNCHANGED <<mm, acked>>
      BY <2>1 DEF Resume
    <3>2. cur.k \in 0 .. MaxGen /\ cur.num \in 0 .. MaxNum /\ acked \in SUBSET Msgs
      BY DEF VInv, TypeOK, Calls
    <3>3. Numbered(cur.num)
      BY <1>4, <1>5, <2>1, <3>1, <3>2, BoundAssumption DEF Numbered, Nums
    <3> QED  BY <1>3, <1>4, <1>5, <1>6, <3>1, <3>2, <3>3, AddToFacts
  <2>2. CASE cur.op = "remove"
    <3>1. RemoveFrom(epoch_max, cur.m)
      BY <2>2 DEF Resume
    <3> QED  BY <1>3, <1>4, <1>6, <3>1, RemoveFacts
  <2> QED  BY <1>4, <2>1, <2>2
<1>8. TypeOK'
  <2>1. NoCall \in Calls
    BY BoundAssumption DEF Calls, NoCall
  <2>2. steps' \in Seq(StepNames)
    BY <1>0, <1>1, AtFacts
  <2> QED  BY <1>1, <1>7, <2>1, <2>2 DEF VInv, TypeOK
<1>9. Flow'
  BY <1>1, <1>2, <1>3, <1>4, <1>8, WriterFlow
<1>10. Durable'
  BY <1>1, <1>2, <1>3, <1>4, <1>5, <1>7 DEF Durable
<1>11. Documents' /\ Committed'
  BY <1>3, <1>7, <1>8, WritesKept
<1>12. Sources'
  BY <1>1, <1>7 DEF VInv, Sources
<1> QED  BY <1>8, <1>9, <1>10, <1>11, <1>12 DEF VInv

-----------------------------------------------------------------------------
(* public-inbox-index. *)

\* A commit is fetched, whoever holds the lock.
LEMMA FetchStep ==
  ASSUME VInv, fetch
  PROVE  VInv'
<1> USE DEF mmVars, ovVars, xapVars, wrVars, ixVars, badVars
<1> DEFINE c == [id |-> ids + 1, e |-> 0, op |-> Upstream[ids + 1].op, b |-> Upstream[ids + 1].b]
<1>1. /\ git' = Append(git, c) /\ gitD' = git' /\ ids' = ids + 1 /\ ids < Len(Upstream)
      /\ UNCHANGED <<epochs, mmVars, ovVars, xapVars, owner, steps, wrVars, ixVars, badVars>>
  BY DEF fetch
<1>2. ids \in Nat /\ Len(Upstream) \in Nat /\ ids + 1 \in 1 .. Len(Upstream)
      /\ ids + 1 \in 1 .. MaxCommit
  <2>1. Len(Upstream) \in Nat
    BY MsgAssumption
  <2>2. ids \in 0 .. MaxCommit
    BY DEF VInv, TypeOK
  <2> QED  BY <1>1, <2>1, <2>2, BoundAssumption
<1>3. Upstream[ids + 1] \in [op : {"m", "d"}, b : Blobs]
  <2>1. Upstream \in Seq([op : {"m", "d"}, b : Blobs])
    BY MsgAssumption
  <2> QED  BY <1>2, <2>1, ElementOfSeq
<1>4. c \in Commits
  BY <1>2, <1>3, ShapeAssumption DEF Commits, Epochs
<1> HIDE DEF c
<1>5. git \in Seq(Commits) /\ <<c>> \in Seq(Commits) /\ Append(git, c) = git \o <<c>>
  BY <1>4 DEF VInv, TypeOK
<1>6. git' \in Seq(Commits) /\ BlobsIn(git) \subseteq BlobsIn(git')
  BY <1>1, <1>5, BlobsGrow
<1>7. TypeOK'
  <2>1. ids' \in 0 .. MaxCommit
    BY <1>1, <1>2
  <2> QED  BY <1>1, <1>6, <2>1 DEF VInv, TypeOK
<1>8. Grows /\ Writes
  <2>1. mm.seq \in Int /\ mmD.seq \in Int /\ mmD.seq <= mm.seq
    BY BoundAssumption DEF VInv, TypeOK, Msgmaps, Durable
  <2> QED  BY <1>1, <1>6, <2>1 DEF Grows, Writes, VInv, Documents
<1>9. Flow'
  BY <1>1, <1>7, <1>8, FlowKept DEF Grows
<1>10. Durable'
  BY <1>1 DEF VInv, Durable
<1>11. Documents' /\ Committed'
  BY <1>1, <1>7, <1>8, WritesKept DEF Abandoned, Next1
<1>12. Sources'
  BY <1>1, <1>8 DEF VInv, Sources, Grows
<1> QED  BY <1>7, <1>9, <1>10, <1>11, <1>12 DEF VInv

\* The units of index_sync hold commits that are on disk.
LEMMA UnitFacts ==
  ASSUME VInv, NEW e \in Epochs, NEW u \in UnitsOf(e)
  PROVE  u \in Units /\ \A c \in u.left : c.b \in BlobsIn(gitD)
<1> DEFINE cs == log_range(e, mm.lc[e])
<1>1. cs \subseteq Commits /\ \A c \in cs : c.b \in BlobsIn(gitD)
  BY DEF log_range, CommitsOf, BlobsIn, VInv, TypeOK
<1>2. PICK c \in Newest(cs) : u = [e |-> e, tip |-> c.id, left |-> cs]
  BY DEF UnitsOf
<1>3. c \in Commits
  BY <1>1, <1>2 DEF Newest
<1> HIDE DEF cs
<1>4. c.id \in 1 .. MaxCommit
  BY <1>3 DEF Commits
<1> QED  BY <1>1, <1>2, <1>4 DEF Units

\* update_last_commit touches neither rows nor the sequence.
LEMMA UpdateFacts ==
  ASSUME VInv, NEW u \in Units, NEW id \in 0 .. MaxCommit, update_last_commit(u, id)
  PROVE  mm' \in Msgmaps /\ mm'.seq = mm.seq /\ mm'.row = mm.row
<1>1. mm \in Msgmaps /\ u.e \in Epochs
  BY DEF VInv, TypeOK, Units
<1>2. CASE id = 0
  BY <1>1, <1>2 DEF update_last_commit
<1>3. CASE id # 0
  <2>1. mm' = [mm EXCEPT !.lc[u.e] = id]
    BY <1>3 DEF update_last_commit
  <2>2. mm.lc \in [Epochs -> 0 .. MaxCommit]
    BY <1>1 DEF Msgmaps
  <2>3. [mm.lc EXCEPT ![u.e] = id] \in [Epochs -> 0 .. MaxCommit]
    BY <2>2
  <2> QED  BY <1>1, <2>1, <2>3 DEF Msgmaps
<1> QED  BY <1>2, <1>3

\* Steps of index_sync that write no document.
Indexes ==
    /\ mm' \in Msgmaps /\ mm'.seq = mm.seq /\ mm'.row = mm.row
    /\ owner \in {"none", "index"} /\ owner' = "index" /\ steps = << >>
    /\ steps' = << >> \/ steps' = Sync \o <<"lc", "release">>
    /\ sync' \in {"none", "work", "dirty", "relock"} /\ latest' \in 0 .. MaxCommit
    /\ mm_tmp' = mm_tmp \/ (mm_tmp' = mm.row /\ owner = "none")
    /\ \A u \in todo' : u \in todo \/ \E e \in 0 .. epochs : u \in UnitsOf(e)
    /\ UNCHANGED <<gitVars, mmD, ovVars, xapVars, wrVars, badVars>>

\* They keep the invariant.
LEMMA IndexesStep ==
  ASSUME VInv, Indexes
  PROVE  VInv'
<1> USE DEF gitVars, ovVars, xapVars, wrVars, badVars
<1>0. /\ mm' \in Msgmaps /\ mm'.seq = mm.seq /\ mm'.row = mm.row
      /\ owner \in {"none", "index"} /\ owner' = "index" /\ steps = << >>
      /\ sync' \in {"none", "work", "dirty", "relock"} /\ latest' \in 0 .. MaxCommit
      /\ UNCHANGED <<gitVars, mmD, ovVars, xapVars, wrVars, badVars>>
  BY DEF Indexes
<1>1. /\ steps' \in Seq(StepNames) /\ Ordered(steps')
      /\ steps' # << >> => /\ steps'[Len(steps')] \in {"lc", "release"}
                           /\ Head(steps') = "mm"
  <2>1. CASE steps' = << >>
    BY <2>1 DEF Ordered
  <2>2. CASE steps' = Sync \o <<"lc", "release">>
    BY <2>2, Plans
  <2> QED  BY <2>1, <2>2 DEF Indexes
<1>2. \A u \in todo' : u \in Units /\ \A c \in u.left : c.b \in BlobsIn(gitD)
  <2> SUFFICES ASSUME NEW u \in todo'
               PROVE  u \in Units /\ \A c \in u.left : c.b \in BlobsIn(gitD)
    OBVIOUS
  <2>1. CASE u \in todo
    BY <2>1 DEF VInv, TypeOK, Sources
  <2>2. ASSUME NEW e \in 0 .. epochs, u \in UnitsOf(e)
        PROVE  u \in Units /\ \A c \in u.left : c.b \in BlobsIn(gitD)
    <3>1. e \in Epochs
      BY ShapeAssumption DEF VInv, TypeOK, Epochs
    <3> QED  BY <2>2, <3>1, UnitFacts
  <2> QED  BY <2>1, <2>2 DEF Indexes
<1>3. mm.seq \in Int /\ mmD.seq \in Int /\ mmD.seq <= mm.seq /\ mm.row \in Rows
  BY BoundAssumption DEF VInv, TypeOK, Msgmaps, Durable
<1>4. mm_tmp' \in Rows /\ \A n \in Nums : mm_tmp'[n] # NoMid => n <= mmD.seq
  <2>1. CASE mm_tmp' = mm_tmp
    BY <2>1 DEF VInv, TypeOK, Sources
  <2>2. CASE mm_tmp' = mm.row /\ owner = "none"
    <3>1. mm.seq = mmD.seq
      BY <2>2 DEF VInv, Durable
    <3> QED  BY <1>3, <2>2, <3>1 DEF VInv, Sources
  <2> QED  BY <2>1, <2>2 DEF Indexes
<1>5. TypeOK'
  BY <1>0, <1>1, <1>2, <1>4 DEF VInv, TypeOK
<1>6. Grows /\ Writes /\ ~Abandoned
  BY <1>0, <1>3 DEF Grows, Writes, Abandoned, Next1, VInv, Documents
<1>7. Flow'
  BY <1>0, <1>1 DEF VInv, Flow, Ends, Next1
<1>8. Durable'
  BY <1>0, <1>1, <1>3 DEF VInv, Durable, Unsynced
<1>9. Documents' /\ Committed'
  BY <1>5, <1>6, WritesKept
<1>10. Sources'
  BY <1>0, <1>2, <1>4 DEF VInv, Sources
<1> QED  BY <1>5, <1>7, <1>8, <1>9, <1>10 DEF VInv

\* index_sync up to process_todo.
LEMMA IndexSyncStep ==
  ASSUME VInv, index_sync
  PROVE  VInv'
<1>1. Indexes
  <2>1. mm \in Msgmaps /\ 0 \in 0 .. MaxCommit
    BY BoundAssumption DEF VInv, TypeOK
  <2>2. steps = << >>
    BY DEF index_sync, VInv, Flow
  <2>3. \A u \in todo' : \E e \in 0 .. epochs : u \in UnitsOf(e)
    BY DEF index_sync
  <2> QED  BY <2>1, <2>2, <2>3 DEF Indexes, index_sync, mmVars
<1> QED  BY <1>1, IndexesStep

\* The unit at work.
LEMMA WorkingFacts ==
  ASSUME VInv, NEW u \in todo, Working(u)
  PROVE  /\ owner = "index" /\ steps = << >> /\ ~Abandoned /\ u \in Units
         /\ u.tip \in 0 .. MaxCommit /\ \A c \in u.left : c \in Commits /\ c.b \in BlobsIn(gitD)
<1>1. owner = "index" /\ steps = << >>
  BY DEF Working, Idle, May
<1>2. u \in Units /\ \A c \in u.left : c.b \in BlobsIn(gitD)
  BY DEF VInv, TypeOK, Sources
<1>3. u.tip \in 1 .. MaxCommit /\ u.left \subseteq Commits
  BY <1>2 DEF Units
<1> QED  BY <1>1, <1>2, <1>3, BoundAssumption DEF Abandoned, Next1

\* A unit ends.
LEMMA EndUnitStep ==
  ASSUME VInv, EndUnit
  PROVE  VInv'
<1>1. PICK u \in todo : Working(u) /\ update_last_commit(u, u.tip) /\ todo' = todo \ {u}
  BY DEF EndUnit
<1>2. /\ owner = "index" /\ steps = << >> /\ u \in Units /\ u.tip \in 0 .. MaxCommit
  BY <1>1, WorkingFacts
<1>3. mm' \in Msgmaps /\ mm'.seq = mm.seq /\ mm'.row = mm.row
  BY <1>1, <1>2, UpdateFacts
<1>4. Indexes
  <2>1. 0 \in 0 .. MaxCommit /\ sync \in {"none", "work", "dirty", "relock"}
    BY BoundAssumption DEF VInv, TypeOK
  <2>2. /\ latest' = 0 /\ sync' = sync /\ mm_tmp' = mm_tmp /\ owner' = owner
        /\ steps' = << >> \/ steps' = Sync \o <<"lc", "release">>
        /\ UNCHANGED <<gitVars, mmD, ovVars, xapVars, wrVars, badVars>>
    BY DEF EndUnit
  <2>3. \A v \in todo' : v \in todo
    BY <1>1
  <2> QED  BY <1>2, <1>3, <2>1, <2>2, <2>3 DEF Indexes
<1> QED  BY <1>4, IndexesStep

\* A checkpoint in the middle of a unit.
LEMMA CheckpointStep ==
  ASSUME VInv, reindex_checkpoint
  PROVE  VInv'
<1>0. latest \in 0 .. MaxCommit /\ sync \in {"none", "work", "dirty", "relock"}
  BY DEF VInv, TypeOK
<1>1. PICK u \in todo : Working(u) /\ update_last_commit(u, latest)
  BY DEF reindex_checkpoint
<1>2. owner = "index" /\ steps = << >> /\ u \in Units
  BY <1>1, WorkingFacts
<1>3. mm' \in Msgmaps /\ mm'.seq = mm.seq /\ mm'.row = mm.row
  BY <1>0, <1>1, <1>2, UpdateFacts
<1>4. Indexes
  <2>1. /\ UNCHANGED <<latest, sync, mm_tmp, owner, todo>>
        /\ steps' = Sync \o <<"lc", "release">>
        /\ UNCHANGED <<gitVars, mmD, ovVars, xapVars, wrVars, badVars>>
    BY DEF reindex_checkpoint, ixVars
  <2> QED  BY <1>0, <1>2, <1>3, <2>1 DEF Indexes
<1> QED  BY <1>4, IndexesStep

\* A signal ends the loop.
LEMMA QuitStep ==
  ASSUME VInv, quit
  PROVE  VInv'
<1>0. latest \in 0 .. MaxCommit /\ sync \in {"none", "work", "dirty", "relock"} /\ 0 \in 0 .. MaxCommit
  BY BoundAssumption DEF VInv, TypeOK
<1>1. PICK u \in todo : QuitAt(u, latest)
  BY DEF quit
<1>2. owner = "index" /\ steps = << >> /\ u \in Units
  BY <1>1, WorkingFacts DEF QuitAt
<1>3. mm' \in Msgmaps /\ mm'.seq = mm.seq /\ mm'.row = mm.row
  BY <1>0, <1>1, <1>2, UpdateFacts DEF QuitAt
<1>4. Indexes
  <2>1. /\ latest' = 0 /\ UNCHANGED <<sync, mm_tmp, owner>> /\ todo' = {}
        /\ steps' = Sync \o <<"lc", "release">>
        /\ UNCHANGED <<gitVars, mmD, ovVars, xapVars, wrVars, badVars>>
    BY <1>1 DEF QuitAt
  <2> QED  BY <1>0, <1>2, <1>3, <2>1 DEF Indexes
<1> QED  BY <1>4, IndexesStep

\* index_sync takes the lock back.
LEMMA RelockStep ==
  ASSUME VInv, Relock
  PROVE  VInv'
<1>1. Indexes
  <2>1. mm \in Msgmaps /\ latest \in 0 .. MaxCommit
    BY DEF VInv, TypeOK
  <2>2. steps = << >>
    BY DEF Relock, VInv, Flow
  <2> QED  BY <2>1, <2>2 DEF Indexes, Relock, mmVars
<1> QED  BY <1>1, IndexesStep

\* The Message-IDs of a blob.
LEMMA MidsFacts ==
  ASSUME NEW b \in Blobs, NEW i \in 1 .. Len(MidsOf(b))
  PROVE  MidsOf(b)[i] \in Mids
<1>1. b.m \in Msgs /\ b.k \in 0 .. MaxGen
  BY BlobFacts
<1>2. CASE b.k = 0
  <2>1. MidsOf(b) = <<Mid[b.m]>>
    BY <1>2 DEF MidsOf
  <2>2. i = 1
    BY <2>1
  <2> QED  BY <1>1, <2>1, <2>2, BlobFacts
<1>3. CASE b.k # 0
  <2>1. MidsOf(b) = <<Mid[b.m], <<b.m, b.k>> >>
    BY <1>3 DEF MidsOf
  <2>2. i = 1 \/ i = 2
    BY <2>1
  <2>3. b.k \in 1 .. MaxGen
    BY <1>1, <1>3, BoundAssumption
  <2>4. MidsOf(b)[1] = Mid[b.m] /\ MidsOf(b)[2] = <<b.m, b.k>>
    BY <2>1
  <2> QED  BY <1>1, <2>2, <2>3, <2>4, BlobFacts
<1> QED  BY <1>2, <1>3

\* A number that index_oid gives again is one that msgmap has handed out.
LEMMA ReusedFacts ==
  ASSUME VInv, NEW b \in Blobs, NEW n \in Reused(b)
  PROVE  n \in Nums /\ n <= mm.seq
<1>0. mm.seq \in Int /\ mmD.seq \in Int /\ mmD.seq <= mm.seq /\ \A i \in Nums : i \in Int
  BY BoundAssumption DEF VInv, TypeOK, Msgmaps, Durable, Nums
<1>1. ASSUME NEW i \in Nums, ov[i] = b
      PROVE  i <= mm.seq
  BY <1>1, BlobFacts DEF VInv, Documents, Known1
<1>2. ASSUME NEW mid \in Mids, NEW i \in NumsOf(mm_tmp, mid)
      PROVE  i \in Nums /\ i <= mm.seq
  <2>1. i \in Nums /\ mm_tmp[i] # NoMid
    BY BlobFacts DEF NumsOf
  <2>2. i <= mmD.seq
    BY <2>1 DEF VInv, Sources
  <2> QED  BY <1>0, <2>1, <2>2
<1>3. Mid[b.m] \in Mids
  BY BlobFacts
<1>4. \A i \in 2 .. Len(MidsOf(b)) : MidsOf(b)[i] \in Mids
  <2>1. \A i \in 2 .. Len(MidsOf(b)) : i \in 1 .. Len(MidsOf(b))
    <3>1. Len(MidsOf(b)) \in Nat
      BY DEF MidsOf
    <3> QED  BY <3>1
  <2> QED  BY <2>1, MidsFacts
<1>5. CASE n \in Nums /\ ov[n] = b
  BY <1>1, <1>5
<1>6. CASE n \in NumsOf(mm_tmp, Mid[b.m])
  BY <1>2, <1>3, <1>6
<1>7. CASE \E i \in 2 .. Len(MidsOf(b)) : n \in NumsOf(mm_tmp, MidsOf(b)[i])
  BY <1>2, <1>4, <1>7
<1> QED  BY <1>5, <1>6, <1>7 DEF Reused

\* The next commit of a unit is taken, and its documents are accounted for.
Indexed(u, c) ==
    /\ Working(u) /\ PopCommit(u, c) /\ Grows /\ Writes
    /\ mm' \in Msgmaps /\ \A n \in Nums : mm'.row[n] # NoMid => n <= mm'.seq
    /\ ov' \in Tables /\ xq' \in [Shards -> Seq(Requests)]
    /\ latest' \in 0 .. MaxCommit /\ sync' \in {"none", "work", "dirty", "relock"}
    /\ mm_tmp' \in Rows /\ \A n \in Nums : mm_tmp'[n] # NoMid => mm_tmp[n] # NoMid
    /\ UNCHANGED <<gitVars, mmD, ovD, xap, xapD, owner, steps, wrVars, badVars>>

\* Taking a commit keeps the invariant.
LEMMA IndexedStep ==
  ASSUME VInv, NEW u \in todo, NEW c \in u.left, Indexed(u, c)
  PROVE  VInv'
<1> USE DEF gitVars, wrVars, badVars
<1>0. /\ Working(u) /\ PopCommit(u, c) /\ Grows /\ Writes
      /\ mm' \in Msgmaps /\ \A n \in Nums : mm'.row[n] # NoMid => n <= mm'.seq
      /\ ov' \in Tables /\ xq' \in [Shards -> Seq(Requests)]
      /\ latest' \in 0 .. MaxCommit /\ sync' \in {"none", "work", "dirty", "relock"}
      /\ mm_tmp' \in Rows /\ \A n \in Nums : mm_tmp'[n] # NoMid => mm_tmp[n] # NoMid
      /\ UNCHANGED <<gitVars, mmD, ovD, xap, xapD, owner, steps, wrVars, badVars>>
  BY DEF Indexed
<1>1. owner = "index" /\ steps = << >> /\ ~Abandoned /\ u \in Units
  BY <1>0, WorkingFacts
<1>2. \A v \in todo' : v \in Units /\ \A d \in v.left : d.b \in BlobsIn(gitD)
  <2>1. \A v \in todo : v \in Units /\ \A d \in v.left : d.b \in BlobsIn(gitD)
    BY DEF VInv, TypeOK, Sources
  <2> DEFINE w == [u EXCEPT !.left = @ \ {c}]
  <2>2. w \in Units /\ w.left = u.left \ {c}
    BY <1>1 DEF Units
  <2> HIDE DEF w
  <2>3. \A v \in todo' : v \in todo \/ v = w
    BY <1>0 DEF PopCommit, w
  <2>4. \A d \in w.left : d \in u.left
    BY <2>2
  <2> QED  BY <2>1, <2>2, <2>3, <2>4
<1>3. TypeOK'
  BY <1>0, <1>2 DEF VInv, TypeOK
<1>4. Flow'
  BY <1>0, <1>3, FlowKept DEF Grows
<1>5. Durable'
  BY <1>0, <1>1 DEF VInv, Durable, Grows
<1>6. Documents' /\ Committed'
  BY <1>0, <1>1, <1>3, WritesKept
<1>7. Sources'
  BY <1>0, <1>2 DEF VInv, Sources
<1> QED  BY <1>3, <1>4, <1>5, <1>6, <1>7 DEF VInv

\* index_oid: an old number, a new one, or a duplicate.
LEMMA IndexOidStep ==
  ASSUME VInv, index_oid
  PROVE  VInv'
<1>0. PICK u \in todo : \E d \in u.left : IndexOid(u, d)
  BY DEF index_oid
<1>1. PICK c \in u.left : IndexOid(u, c)
  BY <1>0
<1>2. /\ Working(u) /\ PopCommit(u, c)
      /\ UNCHANGED <<gitVars, mmD, ovD, xap, xapD, owner, steps, wrVars, badVars>>
  BY <1>1 DEF IndexOid
<1>3. c \in Commits /\ c.b \in BlobsIn(gitD)
  BY <1>2, WorkingFacts
<1>4. c.b \in Blobs /\ c.id \in 0 .. MaxCommit
  BY <1>3, BoundAssumption DEF Commits
<1>5. OnDiskKept /\ git' = git /\ BlobsIn(git) \subseteq BlobsIn(git') /\ c.b \in BlobsIn(git')
  BY <1>2, <1>3 DEF OnDiskKept, gitVars, badVars, VInv, Documents
<1>6. /\ mm \in Msgmaps /\ mm.seq \in Int /\ mm_tmp \in Rows /\ ov \in Tables
      /\ xq \in [Shards -> Seq(Requests)] /\ latest \in 0 .. MaxCommit
      /\ sync \in {"none", "work", "dirty", "relock"}
      /\ mmD.seq \in Int /\ mmD.seq <= mm.seq
  BY BoundAssumption DEF VInv, TypeOK, Msgmaps, Durable
<1>7. \A n \in Nums : mm.row[n] # NoMid => n <= mm.seq
  BY DEF VInv, Sources
<1>8. ASSUME NEW n \in Reused(c.b),
             ov' = [ov EXCEPT ![n] = c.b], ipc_do(add_xapian(n, c.b)), latest' = c.id,
             sync' = "dirty", mm_tmp' = num_delete(mm_tmp, {n}), UNCHANGED mm
      PROVE  Indexed(u, c)
  <2>1. n \in Nums /\ n <= mm.seq
    BY <1>4, ReusedFacts
  <2>2. Numbered(n)
    BY <1>6, <1>8, <2>1 DEF Numbered
  <2>3. ov' \in Tables /\ xq' \in [Shards -> Seq(Requests)] /\ Grows /\ Writes
    BY <1>4, <1>5, <1>8, <2>2, DocFacts
  <2>4. mm_tmp' \in Rows /\ \A i \in Nums : mm_tmp'[i] # NoMid => mm_tmp[i] # NoMid
    BY <1>6, <1>8, DeleteFacts
  <2> QED  BY <1>2, <1>4, <1>6, <1>7, <1>8, <2>3, <2>4 DEF Indexed
<1>9. ASSUME mm.seq < MaxNum, NEW mid \in FreshMids(c.b), mm' = mid_insert(mm, mid),
             ov' = [ov EXCEPT ![mm.seq + 1] = c.b], ipc_do(add_xapian(mm.seq + 1, c.b)),
             latest' = c.id, sync' = "dirty", UNCHANGED mm_tmp
      PROVE  Indexed(u, c)
  <2>1. mid \in Mids
    BY <1>4, MidsFacts DEF FreshMids
  <2>2. /\ mm' \in Msgmaps /\ mm.seq + 1 \in Nums /\ mm'.seq = mm.seq + 1
        /\ mm'.row = [mm.row EXCEPT ![mm.seq + 1] = mid]
    BY <1>6, <1>9, <2>1, InsertFacts
  <2>3. \A n \in Nums : mm'.row[n] # NoMid => n <= mm'.seq
    <3>1. \A n \in Nums : n \in Int
      BY DEF Nums
    <3>2. mm.row \in Rows
      BY <1>6 DEF Msgmaps
    <3>3. \A n \in Nums : n # mm.seq + 1 => mm'.row[n] = mm.row[n]
      BY <2>2, <3>2 DEF Rows
    <3> QED  BY <1>6, <1>7, <2>2, <3>1, <3>3
  <2>4. Numbered(mm.seq + 1)
    BY <1>6, <2>2 DEF Numbered
  <2>5. ov' \in Tables /\ xq' \in [Shards -> Seq(Requests)] /\ Grows /\ Writes
    BY <1>4, <1>5, <1>9, <2>4, DocFacts
  <2> QED  BY <1>2, <1>4, <1>6, <1>9, <2>2, <2>3, <2>5 DEF Indexed
<1>10. ASSUME UNCHANGED <<mm, ov, xq, latest, mm_tmp, sync>>
       PROVE  Indexed(u, c)
  <2>1. Grows /\ Writes
    BY <1>2, <1>5, <1>6, <1>10 DEF Grows, Writes, OnDiskKept, VInv, Documents
  <2> QED  BY <1>2, <1>6, <1>7, <1>10, <2>1 DEF Indexed
<1>11. Indexed(u, c)
  BY <1>1, <1>8, <1>9, <1>10 DEF IndexOid
<1> QED  BY <1>11, IndexedStep

\* unindex_oid: every article of the blob goes.
LEMMA UnindexOidStep ==
  ASSUME VInv, unindex_oid
  PROVE  VInv'
<1>0. PICK u \in todo : \E d \in u.left : UnindexOid(u, d)
  BY DEF unindex_oid
<1>1. PICK c \in u.left : UnindexOid(u, c)
  BY <1>0
<1> DEFINE gone == {n \in Nums : ov[n] = c.b}
           rows == num_delete(mm.row, gone)
<1>2. /\ Working(u) /\ PopCommit(u, c) /\ latest' = c.id
      /\ mm' = [mm EXCEPT !.row = rows]
      /\ ov' = [n \in Nums |-> IF n \in gone THEN NoBlob ELSE ov[n]]
      /\ ipc_do(xdb_remove(gone))
      /\ UNCHANGED <<gitVars, mmD, ovD, xap, xapD, owner, steps, wrVars, sync, mm_tmp, badVars>>
  BY <1>1 DEF UnindexOid
<1>3. c \in Commits
  BY <1>2, WorkingFacts
<1>4. c.id \in 0 .. MaxCommit
  BY <1>3, BoundAssumption DEF Commits
<1>5. OnDiskKept /\ BlobsIn(git) \subseteq BlobsIn(git')
  BY <1>2 DEF OnDiskKept, gitVars, badVars
<1>6. /\ mm \in Msgmaps /\ mm.row \in Rows /\ mm_tmp \in Rows
      /\ sync \in {"none", "work", "dirty", "relock"}
  BY DEF VInv, TypeOK, Msgmaps
<1>7. rows \in Rows /\ \A n \in Nums : rows[n] # NoMid => mm.row[n] # NoMid
  BY <1>6, DeleteFacts
<1>8. gone \in SUBSET Nums
  OBVIOUS
<1> HIDE DEF rows, gone
<1>9. mm' \in Msgmaps /\ mm'.seq = mm.seq /\ mm'.row = rows
  BY <1>2, <1>6, <1>7 DEF Msgmaps
<1>10. ov' \in Tables /\ xq' \in [Shards -> Seq(Requests)] /\ Grows /\ Writes
  BY <1>2, <1>5, <1>8, <1>9, GoneFacts
<1>11. \A n \in Nums : mm'.row[n] # NoMid => n <= mm'.seq
  BY <1>7, <1>9 DEF VInv, Sources
<1>12. Indexed(u, c)
  BY <1>2, <1>4, <1>6, <1>9, <1>10, <1>11 DEF Indexed
<1> QED  BY <1>12, IndexedStep

-----------------------------------------------------------------------------
(* The theorems. *)

\* An inbox that was just created.
LEMMA InitHolds == Init => VInv
<1> SUFFICES ASSUME Init PROVE VInv
  OBVIOUS
<1> USE DEF Init
<1>1. TypeOK
  <2>1. 0 \in 0 .. MaxCommit /\ 0 \in 0 .. MaxNum /\ 0 \in 0 .. MaxFail /\ 0 \in Epochs
        /\ -1 \in -1 .. MaxEpoch
    BY BoundAssumption, ShapeAssumption DEF Epochs
  <2>2. NoRows \in Rows /\ NoDocs \in Tables /\ [e \in Epochs |-> 0] \in [Epochs -> 0 .. MaxCommit]
    BY <2>1 DEF NoRows, NoDocs, Rows, Tables
  <2>3. mm \in Msgmaps
    BY <2>1, <2>2 DEF Msgmaps
  <2>4. NoCall \in Calls
    BY BoundAssumption DEF Calls, NoCall
  <2>5. << >> \in Seq(Requests) /\ << >> \in Seq(Commits) /\ << >> \in Seq(StepNames)
    OBVIOUS
  <2>6. xq \in [Shards -> Seq(Requests)]
    BY <2>5, Zenon
  <2> QED  BY <2>1, <2>2, <2>3, <2>4, <2>5, <2>6 DEF TypeOK
<1>2. Flow /\ Durable
  BY DEF Flow, Durable, Ordered, Ends, Next1
<1>3. \A s \in Shards : 1 .. Len(xq[s]) = {}
  OBVIOUS
<1>4. \A n \in Nums : NoDocs[n] = NoBlob /\ NoRows[n] = NoMid
  BY DEF NoDocs, NoRows
<1>5. Documents /\ Committed /\ Sources
  BY <1>3, <1>4 DEF Documents, Committed, Sources
<1> QED  BY <1>1, <1>2, <1>5 DEF VInv

\* Every step keeps the invariant.
LEMMA NextHolds == VInv /\ [Next]_vars => VInv'
<1> SUFFICES ASSUME VInv, [Next]_vars PROVE VInv'
  OBVIOUS
<1>1. CASE Writer
  BY <1>1, AddStep, RemoveStep, BarrierStep, DoneStep DEF Writer
<1>2. CASE Steps
  BY <1>2, GitCommitStep, GitFailsInDoneStep, GitFailsInImporterStep, MmCommitStep, CommitLazyStep,
     CommitTxnLazyStep, WaitStep, SetLastCommitsStep, AddEpochStep, ResumeStep, ReleaseStep DEF Steps
<1>3. CASE Indexer
  BY <1>3, IndexSyncStep, IndexOidStep, UnindexOidStep, EndUnitStep, CheckpointStep, QuitStep,
     RelockStep DEF Indexer
<1>4. CASE fetch \/ Crash \/ OrphansExit \/ \E s \in Shards : ShardStep(s)
  BY <1>4, FetchStep, CrashStep, OrphansExitStep, ShardStepStep
<1>5. CASE UNCHANGED vars
  <2>1. UNCHANGED <<git, gitD, ids, epochs, mm, mmD, ov, ovD, xap, xapD, xq, owner, steps, im,
                    epoch_max, last_commit, cur, added, acked, sync, todo, latest, mm_tmp,
                    ncrash, nfail, nrotfail>>
    BY <1>5 DEF vars, gitVars, mmVars, ovVars, xapVars, wrVars, ixVars, badVars
  <2>2. TypeOK'
    BY <2>1 DEF VInv, TypeOK
  <2>3. Flow' /\ Durable' /\ Sources'
    BY <2>1 DEF VInv, Flow, Durable, Sources, Ordered, Ends, Next1
  <2>4. Documents' /\ Committed'
    BY <2>1 DEF VInv, Documents, Committed, Known1, KnownD, Abandoned, Next1
  <2> QED  BY <2>2, <2>3, <2>4 DEF VInv
<1> QED  BY <1>1, <1>2, <1>3, <1>4, <1>5 DEF Next

\* The stores, the queues to the shards and what is left of a checkpoint stay
\* consistent in every behaviour.
THEOREM InboxInvariant == Spec => []VInv
  BY InitHolds, NextHolds, PTL DEF Spec

\* Every variable keeps to its type.
THEOREM TypeCorrect == Spec => []TypeOK
<1>1. VInv => TypeOK
  BY DEF VInv
<1> QED  BY <1>1, InboxInvariant, PTL

\* Unless a rotation failed, readers of over.sqlite3 and of the shards only
\* ever find blobs that git has: checkpoint and done commit git before msgmap,
\* and msgmap before over.sqlite3 and Xapian.
THEOREM GitFirstHolds == Spec => []GitFirst
<1>1. VInv => GitFirst
  BY DEF VInv, Documents, KnownD, BlobsIn, GitFirst, HasBlobs
<1> QED  BY <1>1, InboxInvariant, PTL

\* A number that readers of over.sqlite3 or of a shard have seen is one that
\* msgmap.sqlite3 on disk has handed out, so that no crash or rollback lets
\* mid_insert hand it out again.
THEOREM OverNumberedHolds == Spec => []OverNumbered
<1>1. VInv => OverNumbered
  BY DEF VInv, Documents, KnownD, OverNumbered
<1> QED  BY <1>1, InboxInvariant, PTL

-----------------------------------------------------------------------------
(* What is in the stores: numbers, kept messages, what done means, mirrors. *)
(* Each part below is inductive together with VInv and the parts before it. *)

\* mid is one of the Message-IDs of blob b.
Fits(mid, b) == mid = Mid[b.m] \/ (b.k # 0 /\ mid = <<b.m, b.k>>)

\* What msgmap, now, on disk or when index_sync began, says of a number, and
\* what over.sqlite3 shows for it, now or on disk.
IsRow(n, mid) == mid = mm.row[n] \/ mid = mmD.row[n] \/ mid = mm_tmp[n]
IsDoc(n, b) == b = ov[n] \/ b = ovD[n]

\* They agree.  A call that waits for an epoch has a row and no document yet.
Agreed ==
    /\ \A n \in Nums : \A r, q \in Mids : IsRow(n, r) /\ IsRow(n, q) => r = q
    /\ \A n \in Nums : \A r \in Mids : \A b \in Blobs : IsRow(n, r) /\ IsDoc(n, b) => Fits(r, b)
    /\ \A n \in Nums : \A b, c \in Blobs : IsDoc(n, b) /\ IsDoc(n, c) => Mid[b.m] = Mid[c.m]
    /\ cur.op = "add" =>
         /\ \A b \in Blobs : ~IsDoc(cur.num, b)
         /\ \A r \in Mids : IsRow(cur.num, r) => Fits(r, [m |-> cur.m, k |-> cur.k])

-----------------------------------------------------------------------------
(* Rows and documents. *)

\* Documents of one row share their Message-ID, and a generated Message-ID
\* belongs to one blob.
LEMMA FitFacts ==
  ASSUME NEW r \in Mids, NEW b \in Blobs, NEW c \in Blobs, Fits(r, b), Fits(r, c)
  PROVE  Mid[b.m] = Mid[c.m] /\ (r \in GenMids => b = c)
<1>1. /\ b = [m |-> b.m, k |-> b.k] /\ c = [m |-> c.m, k |-> c.k]
      /\ b.m \in Msgs /\ c.m \in Msgs /\ b.k \in 0 .. MaxGen /\ c.k \in 0 .. MaxGen
  BY DEF Blobs
<1>2. Mid[b.m] \notin GenMids /\ Mid[c.m] \notin GenMids
  BY <1>1, MsgAssumption
<1>3. b.k # 0 => <<b.m, b.k>> \in GenMids
  BY <1>1, BoundAssumption DEF GenMids
<1>4. c.k # 0 => <<c.m, c.k>> \in GenMids
  BY <1>1, BoundAssumption DEF GenMids
<1>5. CASE r = Mid[b.m]
  BY <1>2, <1>4, <1>5 DEF Fits
<1>6. CASE b.k # 0 /\ r = <<b.m, b.k>>
  <2>1. c.k # 0 /\ r = <<c.m, c.k>>
    BY <1>2, <1>3, <1>6 DEF Fits
  <2>2. b.m = c.m /\ b.k = c.k
    BY <1>6, <2>1
  <2> QED  BY <1>1, <2>2
<1> QED  BY <1>5, <1>6 DEF Fits

\* A step that only forgets rows and documents.
Forgets ==
    /\ \A n \in Nums : \A r \in Mids : IsRow(n, r)' => IsRow(n, r)
    /\ \A n \in Nums : \A b \in Blobs : IsDoc(n, b)' => IsDoc(n, b)
    /\ cur' = cur \/ cur'.op # "add"

\* It keeps what is left agreed.
LEMMA ForgetsKept ==
  ASSUME VInv, Agreed, Forgets
  PROVE  Agreed'
<1>1. cur.op = "add" => cur.num \in Nums
  BY BoundAssumption DEF VInv, TypeOK, Flow, Calls, NoCall, Msgmaps, Nums
<1>2. \A n \in Nums : \A r \in Mids : IsRow(n, r)' => IsRow(n, r)
  BY DEF Forgets
<1>3. \A n \in Nums : \A b \in Blobs : IsDoc(n, b)' => IsDoc(n, b)
  BY DEF Forgets
<1>4. cur' = cur \/ cur'.op # "add"
  BY DEF Forgets
<1>5. cur'.op = "add" => cur' = cur
  BY <1>4
<1> HIDE DEF IsRow, IsDoc
<1> QED  BY <1>1, <1>2, <1>3, <1>5 DEF Agreed

\* The number mid_insert takes next has neither a row nor a document.
LEMMA NextNumber ==
  ASSUME VInv, mm.seq < MaxNum
  PROVE  /\ mm.seq + 1 \in Nums
         /\ \A r \in Mids : ~IsRow(mm.seq + 1, r)
         /\ \A b \in Blobs : ~IsDoc(mm.seq + 1, b)
<1>1. mm.seq \in Nat /\ mmD.seq \in Int /\ mmD.seq <= mm.seq
  BY BoundAssumption DEF VInv, TypeOK, Msgmaps, Durable
<1>2. mm.seq + 1 \in Nums /\ ~(mm.seq + 1 <= mm.seq) /\ ~(mm.seq + 1 <= mmD.seq)
  BY <1>1, BoundAssumption DEF Nums
<1>3. mm.row[mm.seq + 1] = NoMid /\ mmD.row[mm.seq + 1] = NoMid /\ mm_tmp[mm.seq + 1] = NoMid
  BY <1>2 DEF VInv, Sources
<1>4. ov[mm.seq + 1] = NoBlob /\ ovD[mm.seq + 1] = NoBlob
  BY <1>2 DEF VInv, Documents, Known1, KnownD
<1> QED  BY <1>2, <1>3, <1>4, BlobFacts DEF IsRow, IsDoc

\* A document is written for a number whose rows it fits.
LEMMA DocAgreed ==
  ASSUME VInv, Agreed, NEW num \in Nums, NEW b \in Blobs,
         ov' = [ov EXCEPT ![num] = b], UNCHANGED ovD, cur'.op # "add",
         \A n \in Nums : \A r \in Mids : IsRow(n, r)' => IsRow(n, r) \/ n = num,
         \A r, q \in Mids : IsRow(num, r)' /\ IsRow(num, q)' => r = q,
         \A r \in Mids : IsRow(num, r)' => Fits(r, b),
         \A c \in Blobs : IsDoc(num, c) => /\ Mid[c.m] = Mid[b.m]
                                          /\ \A r \in Mids : IsRow(num, r)' => Fits(r, c)
  PROVE  Agreed'
<1>1. ov \in Tables
  BY DEF VInv, TypeOK
<1>2. \A n \in Nums : ov'[n] = IF n = num THEN b ELSE ov[n]
  BY <1>1 DEF Tables
<1>3. \A n \in Nums : \A c \in Blobs : IsDoc(n, c)' => IsDoc(n, c) \/ (n = num /\ c = b)
  BY <1>2 DEF IsDoc
<1>4. \A n \in Nums : \A r, q \in Mids : IsRow(n, r)' /\ IsRow(n, q)' => r = q
  BY DEF Agreed
<1>5. \A n \in Nums : \A r \in Mids : \A c \in Blobs : IsRow(n, r)' /\ IsDoc(n, c)' => Fits(r, c)
  BY <1>3 DEF Agreed
<1>6. \A n \in Nums : \A c, d \in Blobs : IsDoc(n, c)' /\ IsDoc(n, d)' => Mid[c.m] = Mid[d.m]
  <2> SUFFICES ASSUME NEW n \in Nums, NEW c \in Blobs, NEW d \in Blobs, IsDoc(n, c)', IsDoc(n, d)'
               PROVE  Mid[c.m] = Mid[d.m]
    OBVIOUS
  <2>1. CASE n = num
    BY <1>3, <2>1
  <2>2. CASE n # num
    BY <1>3, <2>2 DEF Agreed
  <2> QED  BY <2>1, <2>2
<1> QED  BY <1>4, <1>5, <1>6 DEF Agreed

\* msgmap gets a row for the next number, and over its document or none yet.
LEMMA InsertAgreed ==
  ASSUME VInv, Agreed, NEW num, num = mm.seq + 1, mm.seq < MaxNum,
         NEW mid \in Mids, mm' = mid_insert(mm, mid),
         NEW b \in Blobs, Fits(mid, b), UNCHANGED <<mmD, mm_tmp, ovD>>,
         \/ ov' = [ov EXCEPT ![num] = b] /\ cur'.op # "add"
         \/ ov' = ov /\ cur' = [op |-> "add", m |-> b.m, num |-> num, k |-> b.k]
  PROVE  Agreed'
<1>1. /\ num \in Nums /\ (\A r \in Mids : ~IsRow(num, r)) /\ (\A c \in Blobs : ~IsDoc(num, c))
  BY NextNumber
<1>2. mm.row \in Rows /\ mm'.row = [mm.row EXCEPT ![num] = mid]
  BY InsertFacts DEF VInv, TypeOK, Msgmaps
<1>3. \A n \in Nums : mm'.row[n] = IF n = num THEN mid ELSE mm.row[n]
  BY <1>1, <1>2 DEF Rows
<1>4. \A n \in Nums : \A r \in Mids : IsRow(n, r)' => IsRow(n, r) \/ (n = num /\ r = mid)
  BY <1>3 DEF IsRow
<1>5. \A r \in Mids : IsRow(num, r)' => r = mid
  BY <1>1, <1>4
<1>6. CASE ov' = [ov EXCEPT ![num] = b] /\ cur'.op # "add"
  <2>1. \A n \in Nums : \A r \in Mids : IsRow(n, r)' => IsRow(n, r) \/ n = num
    BY <1>4
  <2>2. \A r, q \in Mids : IsRow(num, r)' /\ IsRow(num, q)' => r = q
    BY <1>5
  <2>3. \A r \in Mids : IsRow(num, r)' => Fits(r, b)
    BY <1>5
  <2>4. \A c \in Blobs : IsDoc(num, c) => /\ Mid[c.m] = Mid[b.m]
                                          /\ \A r \in Mids : IsRow(num, r)' => Fits(r, c)
    BY <1>1
  <2> QED  BY <1>1, <1>6, <2>1, <2>2, <2>3, <2>4, DocAgreed
<1>7. CASE ov' = ov /\ cur' = [op |-> "add", m |-> b.m, num |-> num, k |-> b.k]
  <2>1. \A n \in Nums : \A c \in Blobs : IsDoc(n, c)' <=> IsDoc(n, c)
    BY <1>7 DEF IsDoc
  <2>2. b = [m |-> b.m, k |-> b.k]
    BY DEF Blobs
  <2>3. cur'.num = num /\ [m |-> cur'.m, k |-> cur'.k] = b
    BY <1>7, <2>2
  <2>4. \A c \in Blobs : ~IsDoc(num, c)'
    BY <1>1, <2>1
  <2>5. \A r \in Mids : IsRow(num, r)' => Fits(r, b)
    BY <1>5
  <2>6. \A n \in Nums : \A r, q \in Mids : IsRow(n, r)' /\ IsRow(n, q)' => r = q
    <3> SUFFICES ASSUME NEW n \in Nums, NEW r \in Mids, NEW q \in Mids, IsRow(n, r)', IsRow(n, q)'
                 PROVE  r = q
      OBVIOUS
    <3>1. CASE n = num  BY <1>5, <3>1
    <3>2. CASE n # num  BY <1>4, <3>2 DEF Agreed
    <3> QED  BY <3>1, <3>2
  <2>7. \A n \in Nums : \A r \in Mids : \A c \in Blobs : IsRow(n, r)' /\ IsDoc(n, c)' => Fits(r, c)
    BY <1>1, <1>4, <2>1 DEF Agreed
  <2>8. \A n \in Nums : \A c, d \in Blobs : IsDoc(n, c)' /\ IsDoc(n, d)' => Mid[c.m] = Mid[d.m]
    BY <2>1 DEF Agreed
  <2> QED  BY <2>3, <2>4, <2>5, <2>6, <2>7, <2>8 DEF Agreed
<1> QED  BY <1>6, <1>7

-----------------------------------------------------------------------------
(* Steps of the actions. *)

\* The generated Message-ID of v2_num_for belongs to the blob that is stored.
LEMMA NumForFacts ==
  ASSUME NEW m \in Msgs, NEW k \in v2_num_for(m)
  PROVE  /\ k \in 0 .. MaxGen /\ [m |-> m, k |-> k] \in Blobs
         /\ (IF k = 0 THEN Mid[m] ELSE <<m, k>>) \in Mids
         /\ Fits(IF k = 0 THEN Mid[m] ELSE <<m, k>>, [m |-> m, k |-> k])
<1>1. k \in 0 .. MaxGen
  <2>1. v2_num_for(m) \subseteq {0} \union (1 .. MaxGen)
    BY DEF v2_num_for
  <2> QED  BY <2>1, BoundAssumption
<1>2. k # 0 => k \in 1 .. MaxGen
  BY <1>1, BoundAssumption
<1>3. (IF k = 0 THEN Mid[m] ELSE <<m, k>>) \in Mids
  BY <1>2, BlobFacts
<1> QED  BY <1>1, <1>3, BlobFacts DEF Fits

\* The Message-IDs of a blob fit it.
LEMMA MidsFit ==
  ASSUME NEW b \in Blobs, NEW i \in 1 .. Len(MidsOf(b))
  PROVE  /\ MidsOf(b)[i] \in Mids /\ Fits(MidsOf(b)[i], b)
<1>1. b.m \in Msgs /\ b.k \in 0 .. MaxGen
  BY BlobFacts
<1>2. CASE b.k = 0
  <2>1. MidsOf(b) = <<Mid[b.m]>>
    BY <1>2 DEF MidsOf
  <2>2. i = 1
    BY <2>1
  <2> QED  BY <2>1, <2>2, MidsFacts DEF Fits
<1>3. CASE b.k # 0
  <2>1. MidsOf(b) = <<Mid[b.m], <<b.m, b.k>> >>
    BY <1>3 DEF MidsOf
  <2>2. i = 1 \/ i = 2
    BY <2>1
  <2>3. MidsOf(b)[1] = Mid[b.m] /\ MidsOf(b)[2] = <<b.m, b.k>>
    BY <2>1
  <2> QED  BY <1>3, <2>2, <2>3, MidsFacts DEF Fits
<1> QED  BY <1>2, <1>3

\* The number that index_oid gives again had the blob, or a row of its.
LEMMA ReusedFits ==
  ASSUME VInv, NEW b \in Blobs, NEW n \in Reused(b)
  PROVE  /\ n \in Nums
         /\ IsDoc(n, b) \/ \E r \in Mids : IsRow(n, r) /\ Fits(r, b)
<1>0. n \in Nums
  BY ReusedFacts
<1>1. CASE ov[n] = b
  BY <1>0, <1>1 DEF IsDoc
<1>2. CASE n \in NumsOf(mm_tmp, Mid[b.m])
  <2>1. mm_tmp[n] = Mid[b.m]
    BY <1>2 DEF NumsOf
  <2> QED  BY <1>0, <2>1, BlobFacts DEF IsRow, Fits
<1>3. CASE \E i \in 2 .. Len(MidsOf(b)) : n \in NumsOf(mm_tmp, MidsOf(b)[i])
  <2>1. PICK i \in 2 .. Len(MidsOf(b)) : n \in NumsOf(mm_tmp, MidsOf(b)[i])
    BY <1>3
  <2>2. i \in 1 .. Len(MidsOf(b))
    <3>1. Len(MidsOf(b)) \in Nat
      BY DEF MidsOf
    <3> QED  BY <3>1
  <2>3. mm_tmp[n] = MidsOf(b)[i]
    BY <2>1 DEF NumsOf
  <2> QED  BY <1>0, <2>2, <2>3, MidsFit DEF IsRow
<1> QED  BY <1>1, <1>2, <1>3 DEF Reused

\* So has the Message-ID that mid_insert takes for it.
LEMMA FreshFits ==
  ASSUME NEW b \in Blobs, NEW mid \in FreshMids(b)
  PROVE  mid \in Mids /\ Fits(mid, b)
  BY MidsFit DEF FreshMids

\* Rows are deleted.
LEMMA DeletedRows ==
  ASSUME NEW rows \in Rows, NEW nums, NEW n \in Nums, NEW r \in Mids, num_delete(rows, nums)[n] = r
  PROVE  rows[n] = r /\ n \notin nums
  BY BlobFacts DEF num_delete, Rows

\* rewrite_internal forgets rows and documents.
LEMMA RemoveForgets ==
  ASSUME VInv, NEW e \in Epochs, NEW m \in Msgs, RemoveFrom(e, m), UNCHANGED <<mmD, mm_tmp, ovD>>,
         cur' = cur \/ cur'.op # "add"
  PROVE  Forgets
<1> DEFINE all == {n \in Nums : ov[n] \in {ov[g] : g \in Matches(m)}}
<1>1. /\ mm' = [mm EXCEPT !.row = num_delete(mm.row, Matches(m))]
      /\ ov' = [n \in Nums |-> IF n \in all THEN NoBlob ELSE ov[n]]
  BY DEF RemoveFrom, Removes
<1> HIDE DEF all
<1>2. mm \in Msgmaps /\ mm.row \in Rows
  BY DEF VInv, TypeOK, Msgmaps
<1>3. mm'.row = num_delete(mm.row, Matches(m))
  BY <1>1, <1>2 DEF Msgmaps
<1>4. \A n \in Nums : \A r \in Mids : IsRow(n, r)' => IsRow(n, r)
  BY <1>2, <1>3, DeletedRows DEF IsRow
<1>5. \A n \in Nums : \A b \in Blobs : IsDoc(n, b)' => IsDoc(n, b)
  BY <1>1, BlobFacts DEF IsDoc
<1> QED  BY <1>4, <1>5 DEF Forgets

\* Calls of the writer.
LEMMA AddAgreed ==
  ASSUME VInv, Agreed, NEW m \in Msgs, add(m)
  PROVE  Agreed'
<1>1. UNCHANGED <<mmD, ovD, mm_tmp>>
  BY DEF add, ixVars
<1>2. cur = NoCall
  BY IdleFacts DEF add, idx_init
<1>3. CASE UNCHANGED <<mm, ov, cur>>
  BY <1>1, <1>3, ForgetsKept DEF Forgets, IsRow, IsDoc
<1>4. ASSUME NEW k \in v2_num_for(m), mm.seq < MaxNum,
             mm' = mid_insert(mm, IF k = 0 THEN Mid[m] ELSE <<m, k>>),
             \/ /\ \E e \in Epochs : importer(e) /\ AddTo(e, m, mm.seq + 1, k)
                /\ UNCHANGED <<cur, steps>>
             \/ /\ Rotate([op |-> "add", m |-> m, num |-> mm.seq + 1, k |-> k])
                /\ UNCHANGED <<git, ids, epochs, ov, xq, epoch_max, last_commit, added>>
      PROVE  Agreed'
  <2> DEFINE b == [m |-> m, k |-> k]
             mid == IF k = 0 THEN Mid[m] ELSE <<m, k>>
  <2>1. b \in Blobs /\ mid \in Mids /\ Fits(mid, b) /\ b.m = m /\ b.k = k
    BY NumForFacts
  <2>2. PICK num : num = mm.seq + 1
    OBVIOUS
  <2>3. \/ ov' = [ov EXCEPT ![num] = b] /\ cur'.op # "add"
        \/ ov' = ov /\ cur' = [op |-> "add", m |-> b.m, num |-> num, k |-> b.k]
    BY <1>2, <1>4, <2>1, <2>2 DEF AddTo, Rotate, NoCall
  <2>4. mm' = mid_insert(mm, mid)
    BY <1>4
  <2> HIDE DEF b, mid
  <2> QED  BY <1>1, <1>4, <2>1, <2>2, <2>3, <2>4, InsertAgreed
<1> QED  BY <1>3, <1>4 DEF add

\* remove forgets.
LEMMA RemoveAgreed ==
  ASSUME VInv, Agreed, NEW m \in Msgs, remove(m)
  PROVE  Agreed'
<1>1. UNCHANGED <<mmD, ovD, mm_tmp>>
  BY DEF remove, ixVars
<1>2. CASE \E e \in Epochs : importer(e) /\ RemoveFrom(e, m) /\ UNCHANGED <<cur, steps>>
  BY <1>1, <1>2, RemoveForgets, ForgetsKept
<1>3. CASE Rotate([NoCall EXCEPT !.op = "remove", !.m = m]) /\ UNCHANGED <<mm, ov>>
  <2>1. cur'.op # "add"
    BY <1>3 DEF Rotate, NoCall
  <2> QED  BY <1>1, <1>3, <2>1, ForgetsKept DEF Forgets, IsRow, IsDoc
<1> QED  BY <1>2, <1>3 DEF remove

\* The call that waited: the number is still without a document.
LEMMA ResumeAgreed ==
  ASSUME VInv, Agreed, Resume
  PROVE  Agreed'
<1>0. At("resume") /\ steps # << >> /\ Head(steps) = "resume"
  BY AtFacts DEF Resume
<1>1. UNCHANGED <<mmD, ovD, mm_tmp>> /\ cur' = NoCall
  BY DEF Resume, ixVars
<1>2. Len(steps) = 1 /\ Head(steps) = steps[1]
  <2>1. steps \in Seq(StepNames) /\ Ordered(steps)
    BY <1>0, AtFacts
  <2> QED  BY <1>0, <2>1, LastSteps
<1>3. cur # NoCall /\ epoch_max \in Epochs
  BY <1>0, <1>2 DEF VInv, Flow, Ends, Next1
<1>4. cur.op \in {"add", "remove"} /\ cur.m \in Msgs
      /\ (cur.op = "add" => cur.num \in 1 .. mm.seq)
  BY <1>3 DEF VInv, Flow
<1>5. CASE cur.op = "add"
  <2>1. PICK num \in Nums, b \in Blobs : num = cur.num /\ b = [m |-> cur.m, k |-> cur.k]
    <3>1. cur.num \in Nums /\ [m |-> cur.m, k |-> cur.k] \in Blobs
      BY <1>4, <1>5, BlobFacts, BoundAssumption DEF VInv, TypeOK, Calls, Nums, Msgmaps
    <3> QED  BY <3>1
  <2>2. ov' = [ov EXCEPT ![num] = b] /\ mm' = mm
    BY <1>5, <2>1 DEF Resume, AddTo
  <2>3. \A n \in Nums : \A r \in Mids : IsRow(n, r)' <=> IsRow(n, r)
    BY <1>1, <2>2 DEF IsRow
  <2>4. (\A c \in Blobs : ~IsDoc(num, c)) /\ \A r \in Mids : IsRow(num, r) => Fits(r, b)
    BY <1>5, <2>1 DEF Agreed
  <2>5. \A r, q \in Mids : IsRow(num, r)' /\ IsRow(num, q)' => r = q
    BY <2>3 DEF Agreed
  <2>6. cur'.op # "add"
    BY <1>1 DEF NoCall
  <2>7. \A r \in Mids : IsRow(num, r)' => Fits(r, b)
    BY <2>3, <2>4
  <2>8. \A n \in Nums : \A r \in Mids : IsRow(n, r)' => IsRow(n, r) \/ n = num
    BY <2>3
  <2>9. \A c \in Blobs : IsDoc(num, c) => /\ Mid[c.m] = Mid[b.m]
                                          /\ \A r \in Mids : IsRow(num, r)' => Fits(r, c)
    BY <2>4
  <2> QED  BY <1>1, <2>2, <2>5, <2>6, <2>7, <2>8, <2>9, DocAgreed
<1>6. CASE cur.op = "remove"
  <2>1. RemoveFrom(epoch_max, cur.m)
    BY <1>6 DEF Resume
  <2>2. cur'.op # "add"
    BY <1>1 DEF NoCall
  <2> QED  BY <1>1, <1>3, <1>4, <2>1, <2>2, RemoveForgets, ForgetsKept
<1> QED  BY <1>4, <1>5, <1>6

\* index_oid: an old number of the blob, a new one, or a duplicate.
LEMMA IndexOidAgreed ==
  ASSUME VInv, Agreed, index_oid
  PROVE  Agreed'
<1>0. PICK u \in todo : \E d \in u.left : IndexOid(u, d)
  BY DEF index_oid
<1>1. PICK d \in u.left : IndexOid(u, d)
  BY <1>0
<1>2. Working(u) /\ UNCHANGED <<mmD, ovD, cur>>
  BY <1>1 DEF IndexOid, wrVars
<1>3. d \in Commits /\ owner = "index"
  BY <1>2, WorkingFacts
<1>4. PICK b \in Blobs : b = d.b
  BY <1>3 DEF Commits
<1>5. cur'.op # "add"
  BY <1>2, <1>3 DEF VInv, Flow, NoCall
<1>6. mm_tmp \in Rows
  BY DEF VInv, TypeOK
<1>7. ASSUME NEW num \in Reused(b), ov' = [ov EXCEPT ![num] = b],
             mm_tmp' = num_delete(mm_tmp, {num}), UNCHANGED mm
      PROVE  Agreed'
  <2>1. /\ num \in Nums
        /\ IsDoc(num, b) \/ \E r \in Mids : IsRow(num, r) /\ Fits(r, b)
    BY ReusedFits
  <2>2. \A n \in Nums : \A r \in Mids : IsRow(n, r)' => IsRow(n, r)
    BY <1>2, <1>6, <1>7, DeletedRows DEF IsRow
  <2>3. \A r, q \in Mids : IsRow(num, r) /\ IsRow(num, q) => r = q
    BY <2>1 DEF Agreed
  <2>4. \A r \in Mids, c \in Blobs : IsRow(num, r) /\ IsDoc(num, c) => Fits(r, c)
    BY <2>1 DEF Agreed
  <2>5. \A r \in Mids : IsRow(num, r) => Fits(r, b)
    BY <2>1, <2>3, <2>4
  <2>6. \A c \in Blobs : IsDoc(num, c) => Mid[c.m] = Mid[b.m]
    <3>1. CASE IsDoc(num, b)
      BY <2>1, <3>1 DEF Agreed
    <3>2. CASE \E r \in Mids : IsRow(num, r) /\ Fits(r, b)
      BY <3>2, <2>4, FitFacts
    <3> QED  BY <2>1, <3>1, <3>2
  <2>7. \A n \in Nums : \A r \in Mids : IsRow(n, r)' => IsRow(n, r) \/ n = num
    BY <2>2
  <2>8. \A r, q \in Mids : IsRow(num, r)' /\ IsRow(num, q)' => r = q
    BY <2>1, <2>2, <2>3
  <2>9. \A r \in Mids : IsRow(num, r)' => Fits(r, b)
    BY <2>1, <2>2, <2>5
  <2>10. \A c \in Blobs : IsDoc(num, c) => /\ Mid[c.m] = Mid[b.m]
                                           /\ \A r \in Mids : IsRow(num, r)' => Fits(r, c)
    BY <2>1, <2>2, <2>4, <2>6
  <2> QED  BY <1>2, <1>5, <1>7, <2>1, <2>7, <2>8, <2>9, <2>10, DocAgreed
<1>8. ASSUME mm.seq < MaxNum, NEW mid \in FreshMids(b), mm' = mid_insert(mm, mid),
             ov' = [ov EXCEPT ![mm.seq + 1] = b], UNCHANGED mm_tmp
      PROVE  Agreed'
  <2>1. PICK num : num = mm.seq + 1
    OBVIOUS
  <2> QED  BY <1>2, <1>5, <1>8, <2>1, FreshFits, InsertAgreed
<1>9. CASE UNCHANGED <<mm, ov, mm_tmp>>
  BY <1>2, <1>9, ForgetsKept DEF Forgets, IsRow, IsDoc
<1> QED  BY <1>1, <1>4, <1>7, <1>8, <1>9 DEF IndexOid

\* unindex_oid forgets.
LEMMA UnindexOidAgreed ==
  ASSUME VInv, Agreed, unindex_oid
  PROVE  Agreed'
<1>0. PICK u \in todo : \E d \in u.left : UnindexOid(u, d)
  BY DEF unindex_oid
<1>1. PICK d \in u.left : UnindexOid(u, d)
  BY <1>0
<1> DEFINE gone == {n \in Nums : ov[n] = d.b}
<1>2. /\ mm' = [mm EXCEPT !.row = num_delete(mm.row, gone)]
      /\ ov' = [n \in Nums |-> IF n \in gone THEN NoBlob ELSE ov[n]]
      /\ UNCHANGED <<mmD, ovD, cur, mm_tmp>>
  BY <1>1 DEF UnindexOid, wrVars
<1> HIDE DEF gone
<1>3. mm \in Msgmaps /\ mm.row \in Rows
  BY DEF VInv, TypeOK, Msgmaps
<1>4. mm'.row = num_delete(mm.row, gone)
  BY <1>2, <1>3 DEF Msgmaps
<1>5. \A n \in Nums : \A r \in Mids : IsRow(n, r)' => IsRow(n, r)
  BY <1>2, <1>3, <1>4, DeletedRows DEF IsRow
<1>6. \A n \in Nums : \A b \in Blobs : IsDoc(n, b)' => IsDoc(n, b)
  BY <1>2, BlobFacts DEF IsDoc
<1>7. Forgets
  BY <1>2, <1>5, <1>6 DEF Forgets
<1> QED  BY <1>7, ForgetsKept

\* update_last_commit and set_last_commits leave the rows alone.
LEMMA UpdatedRows ==
  ASSUME VInv, EndUnit \/ reindex_checkpoint \/ quit \/ set_last_commits
  PROVE  /\ mm'.row = mm.row /\ mm'.seq = mm.seq
         /\ mmD' = mmD \/ mmD' = mm'
         /\ UNCHANGED <<ov, ovD, cur, mm_tmp>>
<1>0. mm \in Msgmaps /\ latest \in 0 .. MaxCommit
  BY DEF VInv, TypeOK
<1>1. CASE EndUnit
  BY <1>1, WorkingFacts, UpdateFacts DEF EndUnit, wrVars, ovVars
<1>2. CASE reindex_checkpoint
  BY <1>0, <1>2, WorkingFacts, UpdateFacts DEF reindex_checkpoint, wrVars, ovVars, ixVars
<1>3. CASE quit
  BY <1>0, <1>3, WorkingFacts, UpdateFacts DEF quit, QuitAt, wrVars, ovVars
<1>4. CASE set_last_commits
  BY <1>0, <1>4 DEF set_last_commits, ovVars, ixVars, Msgmaps
<1> QED  BY <1>1, <1>2, <1>3, <1>4

\* Every step keeps the stores agreed.
LEMMA AgreedKept ==
  ASSUME VInv, Agreed, [Next]_vars
  PROVE  Agreed'
<1> USE DEF gitVars, mmVars, ovVars, xapVars, wrVars, ixVars, badVars
<1>1. CASE /\ mm'.row = mm.row /\ mmD' \in {mmD, mm, mm'} /\ UNCHANGED <<ov, ovD, cur, mm_tmp>>
  <2>1. Forgets
    BY <1>1 DEF Forgets, IsRow, IsDoc
  <2> QED  BY <2>1, ForgetsKept
<1>2. CASE commit_lazy \/ index_sync \/ GitFailsInDone \/ GitFailsInImporter \/ Crash
  <2>1. \A n \in Nums : NoRows[n] \notin Mids
    BY BlobFacts DEF NoRows
  <2>2. cur' = cur \/ cur'.op # "add"
    BY <1>2 DEF commit_lazy, index_sync, GitFailsInDone, GitFailsInImporter, Crash, NoCall
  <2>3. \A n \in Nums : \A r \in Mids : IsRow(n, r)' => IsRow(n, r)
    BY <1>2, <2>1 DEF commit_lazy, index_sync, GitFailsInDone, GitFailsInImporter, Crash, IsRow
  <2>4. \A n \in Nums : \A b \in Blobs : IsDoc(n, b)' => IsDoc(n, b)
    BY <1>2 DEF commit_lazy, index_sync, GitFailsInDone, GitFailsInImporter, Crash, IsDoc
  <2> QED  BY <2>2, <2>3, <2>4, ForgetsKept DEF Forgets
<1>3. CASE \/ fetch \/ barrier \/ done \/ GitCommit \/ mm_commit \/ commit_txn_lazy \/ ipc_wait_all
           \/ add_epoch \/ release \/ Relock \/ OrphansExit \/ (\E s \in Shards : ShardStep(s))
           \/ UNCHANGED vars
  BY <1>1, <1>3 DEF fetch, barrier, done, DoneIn, GitCommit, mm_commit, commit_txn_lazy, ipc_wait_all,
     add_epoch, release, Relock, OrphansExit, ShardStep, vars
<1>4. CASE EndUnit \/ reindex_checkpoint \/ quit \/ set_last_commits
  BY <1>1, <1>4, UpdatedRows
<1>5. CASE Writer \/ Steps \/ Indexer
  BY <1>2, <1>3, <1>4, <1>5, AddAgreed, RemoveAgreed, ResumeAgreed, IndexOidAgreed, UnindexOidAgreed
     DEF Writer, Steps, Indexer
<1> QED  BY <1>2, <1>3, <1>5 DEF Next

\* An inbox that was just created has nothing to disagree about.
LEMMA AgreedInit ==
  ASSUME Init
  PROVE  Agreed
<1>1. \A n \in Nums : NoRows[n] \notin Mids /\ NoDocs[n] \notin Blobs
  BY BlobFacts DEF NoRows, NoDocs
<1>2. \A n \in Nums : (\A r \in Mids : ~IsRow(n, r)) /\ (\A b \in Blobs : ~IsDoc(n, b))
  BY <1>1 DEF Init, IsRow, IsDoc
<1> QED  BY <1>2 DEF Agreed, Init, NoCall

\* over.sqlite3 on disk only changes to what its writer sees.
LEMMA OverOnDisk ==
  ASSUME [Next]_vars
  PROVE  ovD' = ovD \/ ovD' = ov
<1> USE DEF ovVars
<1>1. CASE Writer
  BY <1>1 DEF Writer, add, remove, barrier, done, DoneIn
<1>2. CASE Steps
  BY <1>2 DEF Steps, GitCommit, GitFailsInDone, GitFailsInImporter, mm_commit, commit_lazy,
     commit_txn_lazy, ipc_wait_all, set_last_commits, add_epoch, Resume, release
<1>3. CASE Indexer
  BY <1>3 DEF Indexer, index_sync, index_oid, IndexOid, unindex_oid, UnindexOid, EndUnit,
     reindex_checkpoint, quit, QuitAt, Relock
<1> QED  BY <1>1, <1>2, <1>3 DEF Next, fetch, Crash, OrphansExit, ShardStep, vars

\* The rows of msgmap, its old copy and the documents of over agree, number by
\* number, in every behaviour.
THEOREM AgreedHolds == Spec => []Agreed
<1>1. Init => Agreed
  BY AgreedInit
<1>2. VInv /\ Agreed /\ [Next]_vars => Agreed'
  BY AgreedKept
<1> QED  BY <1>1, <1>2, InboxInvariant, PTL DEF Spec

\* A number readers have seen never passes to a message with another
\* Message-ID, whoever was killed in between: mid_insert does not hand out a
\* number twice, and index_oid reuses one only for a Message-ID it had.
THEOREM NumbersNotReusedHolds == Spec => NumbersNotReused
<1>1. VInv /\ Agreed /\ [Next]_vars =>
        [\A n \in Nums : ovD[n] # NoBlob /\ ovD'[n] # NoBlob => Mid[ovD'[n].m] = Mid[ovD[n].m]]_vars
  <2> SUFFICES ASSUME VInv, Agreed, [Next]_vars, NEW n \in Nums, ovD[n] # NoBlob, ovD'[n] # NoBlob
               PROVE  Mid[ovD'[n].m] = Mid[ovD[n].m]
    OBVIOUS
  <2>1. ovD' = ovD \/ ovD' = ov
    BY OverOnDisk
  <2>2. ovD[n] \in Blobs /\ (ov[n] \in Blobs \/ ov[n] = NoBlob)
    BY DEF VInv, TypeOK, Tables
  <2>3. ov[n] \in Blobs => Mid[ov[n].m] = Mid[ovD[n].m]
    BY <2>2 DEF Agreed, IsDoc
  <2> QED  BY <2>1, <2>2, <2>3
<1> QED  BY <1>1, InboxInvariant, AgreedHolds, PTL DEF Spec, NumbersNotReused

-----------------------------------------------------------------------------
(* What is on disk, and messages that are kept. *)

\* The step to be taken is one of these, or nobody has the inbox open.
Past(names) == owner \in {"none", "orphans"} \/ Next1(steps, names \union {"dead"})
AfterLc   == {"release", "epoch", "resume"}
AfterXap  == {"wait", "lc"} \union AfterLc
AfterOver == {"xap"} \union AfterXap
AfterMm   == {"over"} \union AfterOver

CommitsIn(g) == {g[i] : i \in 1 .. Len(g)}

\* What a checkpoint has put on disk so far.
OnDisk ==
    /\ Past(AfterOver) => ov = ovD
    /\ Past(AfterMm) => mm = mmD
    /\ CommitsIn(gitD) \subseteq CommitsIn(git)
    /\ \A u \in todo : u.left \subseteq CommitsIn(gitD)
    /\ owner = "none" => Drained /\ xap = xapD

HasMsg(t, m) == \E n \in Nums : t[n] # NoBlob /\ t[n].m = m
Removed(m) == \E c \in CommitsIn(gitD) : c.op = "d" /\ c.b.m = m

\* A message that was added and not removed has a document.
Kept ==
    /\ \A m \in acked : ~Removed(m) => HasMsg(ov, m) /\ HasMsg(ovD, m)
    /\ \A m \in added : HasMsg(ov, m)
    /\ added # {} => owner = "writer"

\* What a step leaves of the plan.
LEMMA AdvancePast ==
  ASSUME VInv, NEW step, At(step), Advance, owner' = owner
  PROVE  /\ Past(AfterLc)'   => step = "lc" \/ Past(AfterLc)
         /\ Past(AfterXap)'  => step = "xap" \/ Past(AfterXap)
         /\ Past(AfterOver)' => step = "over" \/ Past(AfterOver)
         /\ Past(AfterMm)'   => step = "mm" \/ Past(AfterMm)
<1>1. /\ steps # << >> /\ Head(steps) = step /\ owner \in {"writer", "index"}
      /\ steps' # << >> => <<step, Head(steps')>> \in StepOrder
  BY AtFacts DEF Advance
<1>2. ~(<<step, "dead">> \in StepOrder)
  BY DEF StepOrder
<1>3. Next1(steps', AfterLc \union {"dead"}) => step \in {"lc"} \union AfterLc
  BY <1>1, <1>2 DEF Next1, StepOrder, AfterLc
<1>4. Next1(steps', AfterXap \union {"dead"}) => step \in {"xap"} \union AfterXap
  BY <1>1, <1>2 DEF Next1, StepOrder, AfterLc, AfterXap
<1>5. Next1(steps', AfterOver \union {"dead"}) => step \in {"over"} \union AfterOver
  BY <1>1, <1>2 DEF Next1, StepOrder, AfterLc, AfterXap, AfterOver
<1>6. Next1(steps', AfterMm \union {"dead"}) => step \in {"mm"} \union AfterMm
  BY <1>1, <1>2 DEF Next1, StepOrder, AfterLc, AfterXap, AfterOver, AfterMm
<1> HIDE DEF AfterLc, AfterXap, AfterOver, AfterMm
<1> QED  BY <1>1, <1>3, <1>4, <1>5, <1>6 DEF Past, Next1

\* A call that has only begun, or has ended, has put nothing on disk.
LEMMA NotPast ==
  ASSUME owner' \in {"writer", "index"}, steps' = << >> \/ Head(steps') \in Unsynced
  PROVE  ~Past(AfterLc)' /\ ~Past(AfterXap)' /\ ~Past(AfterOver)' /\ ~Past(AfterMm)'
  BY DEF Past, Next1, Unsynced, AfterLc, AfterXap, AfterOver, AfterMm

\* The plans begin like this.
LEMMA PlanBegins ==
  /\ Sync \o <<"lc", "release">> # << >> /\ Head(Sync \o <<"lc", "release">>) = "mm"
  /\ ((IF im THEN <<"barrier">> ELSE << >>) \o Sync \o <<"wait", "lc">>) # << >>
  /\ Head((IF im THEN <<"barrier">> ELSE << >>) \o Sync \o <<"wait", "lc">>) \in Unsynced
  /\ (GitDone \o Sync \o <<"lc", "release">>) # << >>
  /\ Head(GitDone \o Sync \o <<"lc", "release">>) \in Unsynced
<1>1. CASE im
  <2>1. GitDone = <<"gitdone">> /\ (IF im THEN <<"barrier">> ELSE << >>) = <<"barrier">>
    BY <1>1 DEF GitDone
  <2> QED  BY <2>1, Plans DEF Unsynced
<1>2. CASE ~im
  <2>1. GitDone = << >> /\ (IF im THEN <<"barrier">> ELSE << >>) = << >>
    BY <1>2 DEF GitDone
  <2> QED  BY <2>1, Plans DEF Unsynced
<1> QED  BY <1>1, <1>2

\* A longer history.
LEMMA CommitsGrow ==
  ASSUME NEW g \in Seq(Commits), NEW h \in Seq(Commits)
  PROVE  CommitsIn(g \o h) = CommitsIn(g) \union CommitsIn(h)
<1>1. g \o h \in Seq(Commits) /\ Len(g \o h) = Len(g) + Len(h) /\ Len(g) \in Nat /\ Len(h) \in Nat
  OBVIOUS
<1>2. \A i \in 1 .. Len(g) : i \in 1 .. Len(g \o h) /\ (g \o h)[i] = g[i]
  BY <1>1
<1>3. \A i \in 1 .. Len(h) : i + Len(g) \in 1 .. Len(g \o h) /\ (g \o h)[i + Len(g)] = h[i]
  BY <1>1
<1>4. \A i \in 1 .. Len(g \o h) : i \in 1 .. Len(g) \/ (i - Len(g) \in 1 .. Len(h) /\ (g \o h)[i] = h[i - Len(g)])
  BY <1>1
<1>5. CommitsIn(g) \union CommitsIn(h) \subseteq CommitsIn(g \o h)
  BY <1>2, <1>3 DEF CommitsIn
<1>6. \A i \in 1 .. Len(g \o h) : (g \o h)[i] \in CommitsIn(g) \union CommitsIn(h)
  BY <1>2, <1>4 DEF CommitsIn
<1> QED  BY <1>5, <1>6 DEF CommitsIn

\* Commits2git appends.
LEMMA CommitsAppended ==
  ASSUME TypeOK, NEW e \in Epochs, NEW op \in {"m", "d"}, NEW blobs \in Seq(Blobs),
         Commits2git(e, op, blobs)
  PROVE  \E h \in Seq(Commits) :
            /\ git' = git \o h /\ Len(h) = Len(blobs)
            /\ \A i \in 1 .. Len(h) : h[i] = [id |-> ids + i, e |-> e, op |-> op, b |-> blobs[i]]
<1> DEFINE h == [i \in 1 .. Len(blobs) |-> [id |-> ids + i, e |-> e, op |-> op, b |-> blobs[i]]]
<1>1. Len(blobs) \in Nat /\ ids \in Nat /\ ids + Len(blobs) <= MaxCommit /\ MaxCommit \in Nat
  BY BoundAssumption DEF TypeOK, Commits2git
<1>2. \A i \in 1 .. Len(blobs) : h[i] \in Commits /\ h[i] = [id |-> ids + i, e |-> e, op |-> op, b |-> blobs[i]]
  BY <1>1 DEF Commits
<1>3. h \in Seq(Commits) /\ Len(h) = Len(blobs)
  BY <1>1, <1>2
<1>4. git' = git \o h
  BY DEF Commits2git
<1> HIDE DEF h
<1> QED  BY <1>2, <1>3, <1>4

\* What Commits2git does to history.
LEMMA CommitsEffect ==
  ASSUME TypeOK, NEW e \in Epochs, NEW op \in {"m", "d"}, NEW blobs \in Seq(Blobs),
         Commits2git(e, op, blobs)
  PROVE  /\ \A c : c \in CommitsIn(git') <=>
               \/ c \in CommitsIn(git)
               \/ \E i \in 1 .. Len(blobs) : c = [id |-> ids + i, e |-> e, op |-> op, b |-> blobs[i]]
         /\ ids' = ids + Len(blobs) /\ ids \in Nat /\ Len(blobs) \in Nat
         /\ \A f \in Epochs : last_commit'[f] = IF f = e /\ Len(blobs) # 0 THEN ids + Len(blobs)
                                                ELSE last_commit[f]
<1>1. PICK h \in Seq(Commits) :
        /\ git' = git \o h /\ Len(h) = Len(blobs)
        /\ \A i \in 1 .. Len(h) : h[i] = [id |-> ids + i, e |-> e, op |-> op, b |-> blobs[i]]
  BY CommitsAppended
<1>2. git \in Seq(Commits) /\ ids \in Nat /\ Len(blobs) \in Nat /\ last_commit \in [Epochs -> 0 .. MaxCommit]
  BY BoundAssumption DEF TypeOK
<1>3. CommitsIn(git') = CommitsIn(git) \union CommitsIn(h)
  BY <1>1, <1>2, CommitsGrow
<1>4. \A c : c \in CommitsIn(h) <=>
        \E i \in 1 .. Len(blobs) : c = [id |-> ids + i, e |-> e, op |-> op, b |-> blobs[i]]
  BY <1>1 DEF CommitsIn
<1>5. blobs = << >> <=> Len(blobs) = 0
  BY EmptySeq
<1>6. last_commit' = [last_commit EXCEPT ![e] = IF blobs = << >> THEN @ ELSE ids + Len(blobs)]
      /\ ids' = ids + Len(blobs)
  BY DEF Commits2git
<1> QED  BY <1>2, <1>3, <1>4, <1>5, <1>6

\* Import::add and do_idx: one commit, one document.
LEMMA AddToEffect ==
  ASSUME VInv, NEW e \in Epochs, NEW b \in Blobs, NEW num, AddTo(e, b.m, num, b.k)
  PROVE  /\ \A c : c \in CommitsIn(git') <=>
               c \in CommitsIn(git) \/ c = [id |-> ids + 1, e |-> e, op |-> "m", b |-> b]
         /\ ids' = ids + 1 /\ ids \in Nat
         /\ \A f \in Epochs : last_commit'[f] = IF f = e THEN ids + 1 ELSE last_commit[f]
         /\ ov' = [ov EXCEPT ![num] = b] /\ ipc_do(add_xapian(num, b)) /\ added' = added \union {b.m}
<1>1. b = [m |-> b.m, k |-> b.k]
  BY DEF Blobs
<1>2. Commits2git(e, "m", <<b>>) /\ ov' = [ov EXCEPT ![num] = b] /\ ipc_do(add_xapian(num, b))
      /\ added' = added \union {b.m}
  BY <1>1 DEF AddTo
<1>3. <<b>> \in Seq(Blobs) /\ Len(<<b>>) = 1 /\ <<b>>[1] = b
  OBVIOUS
<1>4. PICK blobs \in Seq(Blobs) : blobs = <<b>> /\ Len(blobs) = 1 /\ blobs[1] = b
  BY <1>3
<1>5. TypeOK
  BY DEF VInv
<1>6. /\ \A c : c \in CommitsIn(git') <=>
               \/ c \in CommitsIn(git)
               \/ \E i \in 1 .. Len(blobs) : c = [id |-> ids + i, e |-> e, op |-> "m", b |-> blobs[i]]
      /\ ids' = ids + Len(blobs) /\ ids \in Nat
      /\ \A f \in Epochs : last_commit'[f] = IF f = e /\ Len(blobs) # 0 THEN ids + Len(blobs)
                                             ELSE last_commit[f]
  BY <1>2, <1>4, <1>5, CommitsEffect
<1>7. \A i \in 1 .. Len(blobs) : i = 1
  BY <1>4
<1>8. 1 \in 1 .. Len(blobs)
  BY <1>4
<1>9. \A c : (\E i \in 1 .. Len(blobs) : c = [id |-> ids + i, e |-> e, op |-> "m", b |-> blobs[i]])
           <=> c = [id |-> ids + 1, e |-> e, op |-> "m", b |-> b]
  BY <1>4, <1>7, <1>8
<1> QED  BY <1>2, <1>4, <1>6, <1>9

\* rewrite_internal: the articles found lose their row and their document.
LEMMA RemoveEffect ==
  ASSUME VInv, NEW e \in Epochs, NEW m \in Msgs, RemoveFrom(e, m)
  PROVE  /\ \E blobs \in Seq(Blobs) :
               Commits2git(e, "d", blobs) /\ \A i \in 1 .. Len(blobs) : blobs[i].m = m
         /\ mm' \in Msgmaps /\ mm'.seq = mm.seq /\ mm'.lc = mm.lc
         /\ mm'.row = num_delete(mm.row, Matches(m))
         /\ Matches(m) \in SUBSET Nums
         /\ ov' = [n \in Nums |-> IF n \in Matches(m) THEN NoBlob ELSE ov[n]]
         /\ ipc_do(xdb_remove(Matches(m)))
         /\ added' = added \ {m} /\ acked' = acked \ {m}
<1> DEFINE all == {n \in Nums : ov[n] \in {ov[g] : g \in Matches(m)}}
<1>1. all = Matches(m)
  BY DEF Matches
<1>2. /\ mm' = [mm EXCEPT !.row = num_delete(mm.row, Matches(m))]
      /\ ov' = [n \in Nums |-> IF n \in Matches(m) THEN NoBlob ELSE ov[n]]
      /\ ipc_do(xdb_remove(Matches(m)))
      /\ added' = added \ {m} /\ acked' = acked \ {m}
  BY <1>1 DEF RemoveFrom, Removes
<1>3. PICK q \in Orders(Matches(m)) : Commits2git(e, "d", [i \in DOMAIN q |-> ov[q[i]]])
  BY DEF RemoveFrom, Removes
<1>4. Matches(m) \subseteq Nums /\ \A n \in Matches(m) : ov[n] \in Blobs /\ ov[n].m = m
  BY DEF Matches, VInv, TypeOK, Tables
<1>5. Cardinality(Matches(m)) \in Nat
  <2>1. IsFiniteSet(Nums)
    BY FS_Interval, BoundAssumption DEF Nums
  <2>2. IsFiniteSet(Matches(m))
    BY <1>4, <2>1, FS_Subset
  <2> QED  BY <2>2, FS_CardinalityType
<1>6. DOMAIN q = 1 .. Cardinality(Matches(m)) /\ \A i \in DOMAIN q : q[i] \in Matches(m)
  BY DEF Orders
<1>7. PICK blobs : blobs = [i \in DOMAIN q |-> ov[q[i]]]
  OBVIOUS
<1>8. blobs \in Seq(Blobs) /\ Len(blobs) = Cardinality(Matches(m))
  BY <1>4, <1>5, <1>6, <1>7
<1>9. \A i \in 1 .. Len(blobs) : blobs[i].m = m
  BY <1>4, <1>6, <1>7, <1>8
<1>10. mm \in Msgmaps /\ mm.row \in Rows
  BY DEF VInv, TypeOK, Msgmaps
<1>11. PICK rows \in Rows : rows = num_delete(mm.row, Matches(m))
  BY <1>10, DeleteFacts
<1>12. mm' \in Msgmaps /\ mm'.seq = mm.seq /\ mm'.lc = mm.lc /\ mm'.row = rows
  BY <1>2, <1>10, <1>11 DEF Msgmaps
<1> QED  BY <1>2, <1>3, <1>4, <1>7, <1>8, <1>9, <1>11, <1>12

\* The commits that these calls add are the only ones.
LEMMA RemoveGrows ==
  ASSUME VInv, NEW e \in Epochs, NEW m \in Msgs, RemoveFrom(e, m)
  PROVE  CommitsIn(git) \subseteq CommitsIn(git')
<1>1. PICK blobs \in Seq(Blobs) : Commits2git(e, "d", blobs)
  BY RemoveEffect
<1> QED  BY <1>1, CommitsEffect DEF VInv

\* What add does.
LEMMA AddCases ==
  ASSUME VInv, NEW m \in Msgs, add(m)
  PROVE  /\ owner \in {"writer", "none"} /\ owner' = "writer" /\ steps = << >> /\ cur = NoCall
         /\ Upstream = << >>
         /\ UNCHANGED <<gitD, mmD, ovD, xap, xapD, acked, sync, todo, latest, mm_tmp, ncrash, nfail,
                        nrotfail>>
         /\ \/ /\ Duplicate(m) /\ added' = added \union {m} /\ steps' = << >>
               /\ UNCHANGED <<git, ids, mm, ov, xq, last_commit, cur>>
            \/ \E num \in Nums, b \in Blobs, mid \in Mids :
                 /\ num = mm.seq + 1 /\ b.m = m /\ mm.seq < MaxNum /\ mm' = mid_insert(mm, mid)
                 /\ Fits(mid, b)
                 /\ \/ /\ \E e \in Epochs : AddTo(e, b.m, num, b.k)
                       /\ steps' = << >> /\ cur' = NoCall
                    \/ /\ cur' = [op |-> "add", m |-> b.m, num |-> num, k |-> b.k]
                       /\ steps' # << >> /\ Head(steps') = "gitdone"
                       /\ UNCHANGED <<git, ids, ov, xq, last_commit, added>>
<1>1. owner \in {"writer", "none"} /\ owner' = "writer" /\ steps = << >> /\ cur = NoCall
      /\ Upstream = << >>
  BY IdleFacts DEF add, idx_init
<1>2. UNCHANGED <<gitD, mmD, ovD, xap, xapD, acked, sync, todo, latest, mm_tmp, ncrash, nfail, nrotfail>>
  BY DEF add, ixVars, badVars
<1>3. \/ /\ Duplicate(m) /\ added' = added \union {m}
         /\ UNCHANGED <<git, ids, mm, ov, xq, last_commit, cur, steps>>
      \/ \E k \in v2_num_for(m) :
            /\ mm.seq < MaxNum
            /\ mm' = mid_insert(mm, IF k = 0 THEN Mid[m] ELSE <<m, k>>)
            /\ \/ /\ \E e \in Epochs : AddTo(e, m, mm.seq + 1, k)
                  /\ UNCHANGED <<cur, steps>>
               \/ /\ Rotate([op |-> "add", m |-> m, num |-> mm.seq + 1, k |-> k])
                  /\ UNCHANGED <<git, ids, ov, xq, last_commit, added>>
  BY DEF add, gitVars
<1>4. ASSUME NEW k \in v2_num_for(m), mm.seq < MaxNum,
             mm' = mid_insert(mm, IF k = 0 THEN Mid[m] ELSE <<m, k>>),
             \/ /\ \E e \in Epochs : AddTo(e, m, mm.seq + 1, k)
                /\ UNCHANGED <<cur, steps>>
             \/ /\ Rotate([op |-> "add", m |-> m, num |-> mm.seq + 1, k |-> k])
                /\ UNCHANGED <<git, ids, ov, xq, last_commit, added>>
      PROVE  \E num \in Nums, b \in Blobs, mid \in Mids :
                 /\ num = mm.seq + 1 /\ b.m = m /\ mm.seq < MaxNum /\ mm' = mid_insert(mm, mid)
                 /\ Fits(mid, b)
                 /\ \/ /\ \E e \in Epochs : AddTo(e, b.m, num, b.k)
                       /\ steps' = << >> /\ cur' = NoCall
                    \/ /\ cur' = [op |-> "add", m |-> b.m, num |-> num, k |-> b.k]
                       /\ steps' # << >> /\ Head(steps') = "gitdone"
                       /\ UNCHANGED <<git, ids, ov, xq, last_commit, added>>
  <2>1. PICK b \in Blobs : b = [m |-> m, k |-> k]
    BY NumForFacts
  <2>2. PICK mid \in Mids : mid = (IF k = 0 THEN Mid[m] ELSE <<m, k>>) /\ Fits(mid, b)
    BY <2>1, NumForFacts
  <2>3. b.m = m /\ b.k = k
    BY <2>1
  <2>4. PICK num \in Nums : num = mm.seq + 1
    BY <1>4, NextNumber
  <2>5. CASE (\E e \in Epochs : AddTo(e, m, mm.seq + 1, k)) /\ UNCHANGED <<cur, steps>>
    BY <1>1, <1>4, <2>2, <2>3, <2>4, <2>5
  <2>6. CASE /\ Rotate([op |-> "add", m |-> m, num |-> mm.seq + 1, k |-> k])
             /\ UNCHANGED <<git, ids, ov, xq, last_commit, added>>
    <3>1. steps' # << >> /\ Head(steps') = "gitdone"
      BY <2>6, RotatePlan DEF Rotate
    <3>2. cur' = [op |-> "add", m |-> b.m, num |-> num, k |-> b.k]
      BY <2>3, <2>4, <2>6 DEF Rotate
    <3> QED  BY <1>4, <2>2, <2>3, <2>4, <2>6, <3>1, <3>2
  <2> QED  BY <1>4, <2>5, <2>6
<1> QED  BY <1>1, <1>2, <1>3, <1>4

\* What remove does.
LEMMA RemoveCases ==
  ASSUME VInv, NEW m \in Msgs, remove(m)
  PROVE  /\ owner \in {"writer", "none"} /\ owner' = "writer" /\ steps = << >> /\ cur = NoCall
         /\ Upstream = << >>
         /\ UNCHANGED <<gitD, mmD, ovD, xap, xapD, sync, todo, latest, mm_tmp, ncrash, nfail, nrotfail>>
         /\ \/ (\E e \in Epochs : RemoveFrom(e, m)) /\ steps' = << >> /\ cur' = NoCall
            \/ /\ cur'.op = "remove" /\ steps' # << >> /\ Head(steps') = "gitdone"
               /\ UNCHANGED <<git, ids, mm, ov, xq, last_commit, added, acked>>
<1>1. owner \in {"writer", "none"} /\ owner' = "writer" /\ steps = << >> /\ cur = NoCall
      /\ Upstream = << >>
  BY IdleFacts DEF remove, idx_init
<1>2. UNCHANGED <<gitD, mmD, ovD, xap, xapD, sync, todo, latest, mm_tmp, ncrash, nfail, nrotfail>>
  BY DEF remove, ixVars, badVars
<1>3. CASE (\E e \in Epochs : importer(e) /\ RemoveFrom(e, m)) /\ UNCHANGED <<cur, steps>>
  BY <1>1, <1>2, <1>3
<1>4. CASE /\ Rotate([NoCall EXCEPT !.op = "remove", !.m = m])
           /\ UNCHANGED <<git, ids, mm, ov, xq, last_commit, added, acked>>
  <2>1. steps' # << >> /\ Head(steps') = "gitdone"
    BY <1>4, RotatePlan DEF Rotate
  <2>2. cur'.op = "remove"
    BY <1>4 DEF Rotate, NoCall
  <2> QED  BY <1>1, <1>2, <1>4, <2>1, <2>2
<1> QED  BY <1>3, <1>4 DEF remove

\* What the call that waited does.
LEMMA ResumeCases ==
  ASSUME VInv, Resume
  PROVE  /\ owner = "writer" /\ owner' = "writer" /\ steps' = << >> /\ cur # NoCall /\ cur' = NoCall
         /\ Next1(steps, {"resume"})
         /\ UNCHANGED <<gitD, mmD, ovD, xap, xapD, sync, todo, latest, mm_tmp, ncrash, nfail, nrotfail>>
         /\ \/ /\ cur.op = "add" /\ UNCHANGED <<mm, acked>>
               /\ \E num \in Nums, b \in Blobs :
                     /\ num = cur.num /\ num <= mm.seq /\ b = [m |-> cur.m, k |-> cur.k]
                     /\ \E e \in Epochs : AddTo(e, b.m, num, b.k)
            \/ /\ cur.op = "remove"
               /\ \E e \in Epochs, m \in Msgs : RemoveFrom(e, m)
<1>0. At("resume") /\ steps # << >> /\ Head(steps) = "resume"
  BY AtFacts DEF Resume
<1>1. UNCHANGED <<gitD, mmD, ovD, xap, xapD, sync, todo, latest, mm_tmp, ncrash, nfail, nrotfail>>
      /\ cur' = NoCall /\ steps' = Tail(steps) /\ owner' = owner
  BY DEF Resume, ixVars, badVars, Advance
<1>2. Len(steps) = 1 /\ Head(steps) = steps[1] /\ Tail(steps) = << >>
  <2>1. steps \in Seq(StepNames) /\ Ordered(steps)
    BY <1>0, AtFacts
  <2> QED  BY <1>0, <2>1, LastSteps
<1>3. cur # NoCall /\ epoch_max \in Epochs
  BY <1>0, <1>2 DEF VInv, Flow, Ends, Next1
<1>4. cur.op \in {"add", "remove"} /\ cur.m \in Msgs /\ owner = "writer"
      /\ (cur.op = "add" => cur.num \in 1 .. mm.seq)
  BY <1>3 DEF VInv, Flow
<1>5. CASE cur.op = "add"
  <2>1. PICK num \in Nums, b \in Blobs : num = cur.num /\ num <= mm.seq /\ b = [m |-> cur.m, k |-> cur.k]
    <3>1. cur.num \in Nums /\ [m |-> cur.m, k |-> cur.k] \in Blobs /\ cur.num <= mm.seq
      BY <1>4, <1>5, BlobFacts, BoundAssumption DEF VInv, TypeOK, Calls, Nums, Msgmaps
    <3> QED  BY <3>1
  <2>2. AddTo(epoch_max, b.m, num, b.k) /\ UNCHANGED <<mm, acked>>
    BY <1>5, <2>1 DEF Resume
  <2> QED  BY <1>0, <1>1, <1>2, <1>3, <1>4, <1>5, <2>1, <2>2 DEF Next1
<1>6. CASE cur.op = "remove"
  <2>1. RemoveFrom(epoch_max, cur.m)
    BY <1>6 DEF Resume
  <2> QED  BY <1>0, <1>1, <1>2, <1>3, <1>4, <1>6, <2>1 DEF Next1
<1> QED  BY <1>4, <1>5, <1>6

\* What index_oid does.
LEMMA IndexOidCases ==
  ASSUME VInv, index_oid
  PROVE  /\ owner = "index" /\ steps = << >> /\ cur = NoCall
         /\ UNCHANGED <<git, gitD, ids, epochs, mmD, ovD, xap, xapD, owner, steps, im, epoch_max,
                        last_commit, cur, added, acked, ncrash, nfail, nrotfail>>
         /\ \E u \in todo : \E c \in u.left : \E b \in Blobs :
              /\ Working(u) /\ PopCommit(u, c) /\ b = c.b /\ c.op = "m" /\ c \in Commits
              /\ c \in NextCommit(u)
              /\ \/ \E n \in Reused(b) :
                      /\ ov' = [ov EXCEPT ![n] = b] /\ ipc_do(add_xapian(n, b)) /\ latest' = c.id
                      /\ mm_tmp' = num_delete(mm_tmp, {n}) /\ mm' = mm
                 \/ \E n \in Nums, mid \in FreshMids(b) :
                      /\ Reused(b) = {} /\ mm.seq < MaxNum /\ n = mm.seq + 1
                      /\ mm' = mid_insert(mm, mid)
                      /\ ov' = [ov EXCEPT ![n] = b] /\ ipc_do(add_xapian(n, b)) /\ latest' = c.id
                      /\ mm_tmp' = mm_tmp
                 \/ /\ Reused(b) = {} /\ FreshMids(b) = {}
                    /\ UNCHANGED <<mm, ov, xq, latest, mm_tmp, sync>>
<1>0. PICK u \in todo : \E d \in u.left : IndexOid(u, d)
  BY DEF index_oid
<1>1. PICK c \in u.left : IndexOid(u, c)
  BY <1>0
<1>2. Working(u) /\ PopCommit(u, c) /\ c.op = "m" /\ c \in NextCommit(u)
      /\ UNCHANGED <<git, gitD, ids, epochs, mmD, ovD, xap, xapD, owner, steps, im, epoch_max,
                     last_commit, cur, added, acked, ncrash, nfail, nrotfail>>
  BY <1>1 DEF IndexOid, gitVars, wrVars, badVars
<1>3. c \in Commits /\ owner = "index" /\ steps = << >> /\ cur = NoCall
  BY <1>2, WorkingFacts DEF VInv, Flow
<1>4. PICK b \in Blobs : b = c.b
  BY <1>3 DEF Commits
<1>5. mm.seq < MaxNum => mm.seq + 1 \in Nums
  BY NextNumber
<1> DEFINE D1 == \E n \in Reused(b) :
                      /\ ov' = [ov EXCEPT ![n] = b] /\ ipc_do(add_xapian(n, b)) /\ latest' = c.id
                      /\ mm_tmp' = num_delete(mm_tmp, {n}) /\ mm' = mm
           D2 == \E n \in Nums, mid \in FreshMids(b) :
                      /\ Reused(b) = {} /\ mm.seq < MaxNum /\ n = mm.seq + 1
                      /\ mm' = mid_insert(mm, mid)
                      /\ ov' = [ov EXCEPT ![n] = b] /\ ipc_do(add_xapian(n, b)) /\ latest' = c.id
                      /\ mm_tmp' = mm_tmp
           D3 == /\ Reused(b) = {} /\ FreshMids(b) = {}
                 /\ UNCHANGED <<mm, ov, xq, latest, mm_tmp, sync>>
<1>6. D1 \/ D2 \/ D3
  BY <1>1, <1>4, <1>5 DEF IndexOid
<1> QED  BY <1>2, <1>3, <1>4, <1>6

\* What unindex_oid does with a commit of a unit.
Unindexes(u, c, gone) ==
    /\ Working(u) /\ PopCommit(u, c) /\ c \in u.left /\ c.op = "d" /\ c.b \in Blobs
    /\ c \in NextCommit(u) /\ gone = {n \in Nums : ov[n] = c.b}
    /\ mm' \in Msgmaps /\ mm'.seq = mm.seq /\ mm'.lc = mm.lc
    /\ mm'.row = num_delete(mm.row, gone)
    /\ ov' = [n \in Nums |-> IF n \in gone THEN NoBlob ELSE ov[n]]
    /\ ipc_do(xdb_remove(gone)) /\ latest' = c.id

\* It does so.
LEMMA UnindexOidCases ==
  ASSUME VInv, unindex_oid
  PROVE  /\ owner = "index" /\ steps = << >> /\ cur = NoCall
         /\ UNCHANGED <<git, gitD, ids, epochs, mmD, ovD, xap, xapD, owner, steps, im, epoch_max,
                        last_commit, cur, added, acked, mm_tmp, ncrash, nfail, nrotfail>>
         /\ \E u \in todo, c \in Commits, gone \in SUBSET Nums : Unindexes(u, c, gone)
<1>0. PICK u \in todo : \E d \in u.left : UnindexOid(u, d)
  BY DEF unindex_oid
<1>1. PICK c \in u.left : UnindexOid(u, c)
  BY <1>0
<1>2. /\ Working(u) /\ PopCommit(u, c) /\ latest' = c.id /\ c.op = "d" /\ c \in NextCommit(u)
      /\ UNCHANGED <<git, gitD, ids, epochs, mmD, ovD, xap, xapD, owner, steps, im, epoch_max,
                     last_commit, cur, added, acked, mm_tmp, ncrash, nfail, nrotfail>>
  BY <1>1 DEF UnindexOid, gitVars, wrVars, badVars
<1>3. c \in Commits /\ owner = "index" /\ steps = << >> /\ cur = NoCall
  BY <1>2, WorkingFacts DEF VInv, Flow
<1>4. c.b \in Blobs
  BY <1>3 DEF Commits
<1>5. PICK gone \in SUBSET Nums : gone = {n \in Nums : ov[n] = c.b}
  OBVIOUS
<1>6. /\ mm' = [mm EXCEPT !.row = num_delete(mm.row, gone)]
      /\ ov' = [n \in Nums |-> IF n \in gone THEN NoBlob ELSE ov[n]]
      /\ ipc_do(xdb_remove(gone))
  BY <1>1, <1>5 DEF UnindexOid
<1>7. mm \in Msgmaps /\ mm.row \in Rows
  BY DEF VInv, TypeOK, Msgmaps
<1>8. PICK rows \in Rows : rows = num_delete(mm.row, gone)
  BY <1>7, DeleteFacts
<1>9. mm' \in Msgmaps /\ mm'.seq = mm.seq /\ mm'.lc = mm.lc /\ mm'.row = num_delete(mm.row, gone)
  BY <1>6, <1>7, <1>8 DEF Msgmaps
<1>10. Unindexes(u, c, gone)
  BY <1>2, <1>4, <1>5, <1>6, <1>9 DEF Unindexes
<1> QED  BY <1>2, <1>3, <1>10

\* The units of index_sync are made of commits that refs lead to, and shrink.
LEMMA UnitsLeft ==
  ASSUME NEW e, NEW u \in UnitsOf(e)
  PROVE  u.left \subseteq CommitsIn(gitD)
<1>1. u.left = log_range(e, mm.lc[e])
  BY DEF UnitsOf
<1>2. log_range(e, mm.lc[e]) \subseteq CommitsOf(e)
  BY DEF log_range
<1>3. CommitsOf(e) \subseteq CommitsIn(gitD)
  BY DEF CommitsOf, CommitsIn
<1> QED  BY <1>1, <1>2, <1>3

\* The next commit of a unit is taken from what is left.
LEMMA PopLeft ==
  ASSUME VInv, NEW u \in todo, NEW c, PopCommit(u, c)
  PROVE  \A v \in todo' : \E w \in todo : v.left \subseteq w.left /\ v.e = w.e /\ v.tip = w.tip
<1>1. u \in Units
  BY DEF VInv, TypeOK
<1> DEFINE x == [u EXCEPT !.left = @ \ {c}]
<1>2. x.left = u.left \ {c} /\ x.e = u.e /\ x.tip = u.tip
  BY <1>1 DEF Units
<1>3. todo' = (todo \ {u}) \union {x}
  BY DEF PopCommit
<1> HIDE DEF x
<1> QED  BY <1>2, <1>3

\* What is left of every unit, and what refs lead to, after a step.
LEMMA HistoryStep ==
  ASSUME VInv, OnDisk, [Next]_vars
  PROVE  /\ CommitsIn(gitD) \subseteq CommitsIn(gitD') /\ CommitsIn(gitD') \subseteq CommitsIn(git')
         /\ \A u \in todo' : u.left \subseteq CommitsIn(gitD')
<1> USE DEF gitVars, mmVars, ovVars, xapVars, wrVars, ixVars, badVars
<1>0. /\ CommitsIn(gitD) \subseteq CommitsIn(git) /\ \A u \in todo : u.left \subseteq CommitsIn(gitD)
      /\ git \in Seq(Commits) /\ gitD \in Seq(Commits)
  BY DEF OnDisk, VInv, TypeOK
<1>1. CASE git' = git /\ gitD' = gitD /\ todo' \subseteq todo
  BY <1>0, <1>1
<1>2. CASE GitCommit
  <2>1. gitD' = git /\ git' = git /\ todo' = todo
    BY <1>2 DEF GitCommit
  <2> QED  BY <1>0, <2>1
<1>3. CASE GitFailsInDone \/ GitFailsInImporter \/ Crash
  BY <1>0, <1>3 DEF GitFailsInDone, GitFailsInImporter, Crash
<1>4. ASSUME NEW m \in Msgs, add(m) \/ remove(m)
      PROVE  /\ CommitsIn(git) \subseteq CommitsIn(git') /\ gitD' = gitD /\ todo' = todo
  <2>1. CASE add(m)
    <3>1. gitD' = gitD /\ todo' = todo
      BY <2>1, AddCases
    <3>2. CASE git' = git
      BY <3>1, <3>2
    <3>3. CASE \E b \in Blobs, num \in Nums, e \in Epochs : AddTo(e, b.m, num, b.k)
      BY <3>1, <3>3, AddToEffect
    <3> QED  BY <2>1, <3>2, <3>3, AddCases
  <2>2. CASE remove(m)
    <3>1. gitD' = gitD /\ todo' = todo
      BY <2>2, RemoveCases
    <3> QED  BY <2>2, <3>1, RemoveCases, RemoveGrows
  <2> QED  BY <1>4, <2>1, <2>2
<1>5. CASE Resume
  <2>1. gitD' = gitD /\ todo' = todo
    BY <1>5, ResumeCases
  <2>2. CommitsIn(git) \subseteq CommitsIn(git')
    <3>1. CASE \E b \in Blobs, num \in Nums, e \in Epochs : AddTo(e, b.m, num, b.k)
      BY <3>1, AddToEffect
    <3>2. CASE \E e \in Epochs, m \in Msgs : RemoveFrom(e, m)
      BY <3>2, RemoveGrows
    <3> QED  BY <1>5, <3>1, <3>2, ResumeCases
  <2> QED  BY <1>0, <2>1, <2>2
<1>6. CASE fetch
  <2>1. PICK c : git' = Append(git, c) /\ gitD' = git' /\ todo' = todo
    BY <1>6 DEF fetch
  <2>2. CommitsIn(git) \subseteq CommitsIn(git')
    BY <1>0, <2>1 DEF CommitsIn
  <2> QED  BY <1>0, <2>1, <2>2
<1>7. CASE index_sync
  BY <1>0, <1>7, UnitsLeft DEF index_sync
<1>8. CASE index_oid
  <2>1. PICK u \in todo, c \in Commits : PopCommit(u, c)
    BY <1>8, IndexOidCases
  <2>2. UNCHANGED <<git, gitD>>
    BY <1>8, IndexOidCases
  <2> QED  BY <1>0, <2>1, <2>2, PopLeft
<1>9. CASE unindex_oid
  <2>1. PICK u \in todo, c \in Commits : PopCommit(u, c)
    BY <1>9, UnindexOidCases DEF Unindexes
  <2>2. UNCHANGED <<git, gitD>>
    BY <1>9, UnindexOidCases
  <2> QED  BY <1>0, <2>1, <2>2, PopLeft
<1>10. CASE \/ barrier \/ done \/ mm_commit \/ commit_lazy \/ commit_txn_lazy \/ ipc_wait_all
            \/ set_last_commits \/ add_epoch \/ release
            \/ EndUnit \/ reindex_checkpoint \/ quit \/ Relock \/ OrphansExit
            \/ (\E s \in Shards : ShardStep(s)) \/ UNCHANGED vars
  BY <1>1, <1>10 DEF barrier, done, DoneIn, mm_commit, commit_lazy, commit_txn_lazy, ipc_wait_all,
     set_last_commits, add_epoch, release, EndUnit, reindex_checkpoint, quit, QuitAt, Relock,
     OrphansExit, ShardStep, vars
<1> QED
  <2>1. CASE Writer
    BY <1>0, <1>4, <1>10, <2>1 DEF Writer
  <2>2. CASE Steps
    BY <1>2, <1>3, <1>5, <1>10, <2>2 DEF Steps
  <2>3. CASE Indexer
    BY <1>7, <1>8, <1>9, <1>10, <2>3 DEF Indexer
  <2> QED  BY <1>3, <1>6, <1>10, <2>1, <2>2, <2>3 DEF Next

\* What a checkpoint has put on disk after a step.
LEMMA CheckpointedStep ==
  ASSUME VInv, OnDisk, [Next]_vars
  PROVE  (Past(AfterOver) => ov = ovD)' /\ (Past(AfterMm) => mm = mmD)'
<1> USE DEF gitVars, mmVars, ovVars, xapVars, wrVars, ixVars, badVars
<1>0. /\ Past(AfterOver) => ov = ovD
      /\ Past(AfterMm) => mm = mmD
  BY DEF OnDisk
<1>1. CASE ov' = ovD' /\ mm' = mmD'
  BY <1>1
<1>2. CASE owner' \in {"writer", "index"} /\ (steps' = << >> \/ Head(steps') \in Unsynced)
  <2>1. ~Past(AfterOver)' /\ ~Past(AfterMm)'
    BY <1>2, NotPast
  <2> QED  BY <2>1
<1>3. CASE UNCHANGED <<owner, steps, mm, mmD, ov, ovD>>
  BY <1>0, <1>3 DEF Past, Next1
<1>4. CASE Writer
  <2>1. CASE \E m \in Msgs : add(m) \/ remove(m)
    BY <1>2, <2>1, AddCases, RemoveCases DEF Unsynced
  <2>2. CASE barrier \/ done
    BY <1>2, <2>2, PlanBegins DEF barrier, done, DoneIn, Idle, May
  <2> QED  BY <1>4, <2>1, <2>2 DEF Writer
<1>5. CASE GitFailsInDone \/ Crash \/ set_last_commits
  <2>1. CASE GitFailsInDone \/ Crash
    BY <1>1, <2>1 DEF GitFailsInDone, Crash
  <2>2. CASE set_last_commits
    <3>1. At("lc") /\ steps # << >> /\ Head(steps) = "lc"
      BY <2>2, AtFacts DEF set_last_commits
    <3>2. Past(AfterOver)
      BY <3>1 DEF Past, Next1, AfterOver, AfterXap
    <3> QED  BY <1>0, <1>1, <2>2, <3>2 DEF set_last_commits
  <2> QED  BY <1>5, <2>1, <2>2
<1>6. ASSUME NEW step, At(step), Advance, owner' = owner, UNCHANGED <<mm, ov>>,
             step = "mm" \/ mmD' = mmD, step = "mm" => mmD' = mm,
             step = "over" \/ ovD' = ovD, step = "over" => ovD' = ov
      PROVE  (Past(AfterOver) => ov = ovD)' /\ (Past(AfterMm) => mm = mmD)'
  <2>1. Past(AfterOver)' => step = "over" \/ Past(AfterOver)
    BY <1>6, AdvancePast
  <2>2. Past(AfterMm)' => step = "mm" \/ Past(AfterMm)
    BY <1>6, AdvancePast
  <2> QED  BY <1>0, <1>6, <2>1, <2>2
<1>7. CASE GitCommit \/ mm_commit \/ commit_lazy \/ commit_txn_lazy \/ ipc_wait_all \/ add_epoch
  <2>1. CASE GitCommit
    BY <1>6, <2>1 DEF GitCommit
  <2>2. CASE mm_commit
    BY <1>6, <2>2 DEF mm_commit
  <2>3. CASE commit_lazy
    BY <1>6, <2>3 DEF commit_lazy
  <2>4. CASE commit_txn_lazy
    BY <1>6, <2>4 DEF commit_txn_lazy
  <2>5. CASE ipc_wait_all
    BY <1>6, <2>5 DEF ipc_wait_all
  <2>6. CASE add_epoch
    BY <1>6, <2>6 DEF add_epoch
  <2> QED  BY <1>7, <2>1, <2>2, <2>3, <2>4, <2>5, <2>6
<1>8. CASE Resume \/ GitFailsInImporter
  BY <1>2, <1>8, ResumeCases DEF GitFailsInImporter, At
<1>9. CASE release
  <2>1. steps # << >> /\ Head(steps) = "release"
    BY <1>9, AtFacts DEF release
  <2>2. Past(AfterOver) /\ Past(AfterMm)
    BY <2>1 DEF Past, Next1, AfterMm, AfterOver, AfterXap, AfterLc
  <2> QED  BY <1>0, <1>1, <1>9, <2>2 DEF release
<1>10. CASE Indexer
  <2>1. Sync \o <<"lc", "release">> # << >> /\ Head(Sync \o <<"lc", "release">>) \in Unsynced
    BY PlanBegins DEF Unsynced
  <2>2. CASE index_sync
    BY <1>2, <2>1, <2>2 DEF index_sync
  <2>3. CASE index_oid \/ unindex_oid
    BY <1>2, <2>3, IndexOidCases, UnindexOidCases
  <2>4. CASE EndUnit \/ reindex_checkpoint \/ quit
    BY <1>2, <2>1, <2>4 DEF EndUnit, reindex_checkpoint, quit, QuitAt, Working, Idle, May
  <2>5. CASE Relock
    BY <1>2, <2>5 DEF Relock, VInv, Flow
  <2> QED  BY <1>10, <2>2, <2>3, <2>4, <2>5 DEF Indexer
<1>11. CASE OrphansExit
  BY <1>0, <1>11 DEF OrphansExit, Past
<1>12. CASE fetch \/ (\E s \in Shards : ShardStep(s)) \/ UNCHANGED vars
  BY <1>3, <1>12 DEF fetch, ShardStep, vars
<1> QED  BY <1>4, <1>5, <1>7, <1>8, <1>9, <1>10, <1>11, <1>12 DEF Next, Steps

\* Everything is on disk when the lock is free.
LEMMA OnDiskStep ==
  ASSUME VInv, OnDisk, [Next]_vars
  PROVE  OnDisk'
<1> USE DEF gitVars, mmVars, ovVars, xapVars, wrVars, ixVars, badVars
<1>1. (Past(AfterOver) => ov = ovD)' /\ (Past(AfterMm) => mm = mmD)'
  BY CheckpointedStep
<1>2. CommitsIn(gitD)' \subseteq CommitsIn(git)' /\ \A u \in todo' : u.left \subseteq CommitsIn(gitD)'
  BY HistoryStep
<1>3. owner' = "none" => (Drained /\ xap = xapD)'
  <2>0. owner = "none" => Drained /\ xap = xapD
    BY DEF OnDisk
  <2>1. CASE release \/ OrphansExit
    BY <2>1 DEF release, OrphansExit, Drained
  <2>2. CASE Steps /\ ~release
    <3>1. owner \in {"writer", "index"}
      BY <2>2 DEF Steps, GitCommit, GitFailsInDone, GitFailsInImporter, mm_commit, commit_lazy,
         commit_txn_lazy, ipc_wait_all, set_last_commits, add_epoch, Resume, At
    <3>2. owner' = owner
      BY <2>2 DEF Steps, GitCommit, GitFailsInDone, GitFailsInImporter, mm_commit, commit_lazy,
         commit_txn_lazy, ipc_wait_all, set_last_commits, add_epoch, Resume
    <3> QED  BY <3>1, <3>2
  <2>3. CASE Writer \/ Indexer \/ Crash
    <3>1. CASE \E m \in Msgs : add(m) \/ remove(m)
      BY <3>1, AddCases, RemoveCases
    <3>2. CASE Crash \/ barrier \/ done
      BY <3>2 DEF Crash, barrier, done, DoneIn, Idle, May
    <3>3. CASE index_sync \/ Relock
      BY <3>3 DEF index_sync, Relock
    <3>4. CASE index_oid \/ unindex_oid
      BY <3>4, IndexOidCases, UnindexOidCases
    <3>5. CASE EndUnit \/ reindex_checkpoint \/ quit
      BY <3>5 DEF EndUnit, reindex_checkpoint, quit, QuitAt, Working, Idle, May
    <3> QED  BY <2>3, <3>1, <3>2, <3>3, <3>4, <3>5 DEF Writer, Indexer
  <2>4. CASE fetch \/ UNCHANGED vars
    BY <2>0, <2>4 DEF fetch, vars, Drained
  <2>5. CASE \E s \in Shards : ShardStep(s)
    BY <2>0, <2>5 DEF ShardStep, Drained
  <2> QED  BY <2>1, <2>2, <2>3, <2>4, <2>5 DEF Next
<1> QED  BY <1>1, <1>2, <1>3 DEF OnDisk

\* A number that is given again shows the message it showed, or none.
LEMMA ReusedKeeps ==
  ASSUME VInv, Agreed, NEW b \in Blobs, NEW n \in Reused(b)
  PROVE  n \in Nums /\ (ov[n] = NoBlob \/ ov[n] = b)
<1>0. n \in Nums /\ ov[n] \in Blobs \union {NoBlob}
  BY ReusedFacts DEF VInv, TypeOK, Tables
<1>1. CASE ov[n] = b \/ ov[n] = NoBlob
  BY <1>0, <1>1
<1>2. CASE \E i \in 2 .. Len(MidsOf(b)) : n \in NumsOf(mm_tmp, MidsOf(b)[i])
  <2>1. PICK i \in 2 .. Len(MidsOf(b)) : n \in NumsOf(mm_tmp, MidsOf(b)[i])
    BY <1>2
  <2>2. b.k # 0 /\ i = 2 /\ MidsOf(b)[2] = <<b.m, b.k>>
    BY <2>1 DEF MidsOf
  <2>3. b.m \in Msgs /\ b.k \in 1 .. MaxGen
    BY <2>2, BlobFacts, BoundAssumption
  <2>4. PICK r \in Mids : r = <<b.m, b.k>> /\ r \in GenMids
    BY <2>3, BlobFacts DEF GenMids
  <2>5. IsRow(n, r) /\ Fits(r, b)
    BY <2>1, <2>2, <2>4 DEF NumsOf, IsRow, Fits
  <2>6. ov[n] \in Blobs => IsDoc(n, ov[n])
    BY DEF IsDoc
  <2>7. ov[n] \in Blobs => Fits(r, ov[n])
    BY <1>0, <2>5, <2>6 DEF Agreed
  <2> QED  BY <1>0, <2>4, <2>5, <2>7, FitFacts
<1> QED  BY <1>1, <1>2 DEF Reused

\* A document replaces none, or one of the same message.
LEMMA DocKeeps ==
  ASSUME VInv, NEW n \in Nums, NEW b \in Blobs, ov[n] = NoBlob \/ ov[n].m = b.m,
         ov' = [ov EXCEPT ![n] = b]
  PROVE  \A m \in Msgs : HasMsg(ov, m)' <=> HasMsg(ov, m) \/ m = b.m
<1>1. ov \in Tables /\ b # NoBlob
  BY BlobFacts DEF VInv, TypeOK
<1>2. \A i \in Nums : ov'[i] = IF i = n THEN b ELSE ov[i]
  BY <1>1 DEF Tables
<1> QED  BY <1>1, <1>2 DEF HasMsg

\* Documents of one message go.
LEMMA GoneKeeps ==
  ASSUME VInv, NEW gone \in SUBSET Nums, NEW m, \A n \in gone : ov[n].m = m,
         ov' = [n \in Nums |-> IF n \in gone THEN NoBlob ELSE ov[n]]
  PROVE  \A o \in Msgs : o # m => (HasMsg(ov, o)' <=> HasMsg(ov, o))
  BY DEF HasMsg

\* Removals that were begun stay.
LEMMA RemovedGrows ==
  ASSUME VInv, OnDisk, [Next]_vars
  PROVE  \A m \in Msgs : Removed(m) => Removed(m)'
  BY HistoryStep DEF Removed

\* Kept follows from what a step does to documents and promises.
LEMMA KeptFrom ==
  ASSUME VInv, OnDisk, Kept, [Next]_vars,
         ovD' = ovD \/ ovD' = ov,
         acked' \subseteq acked, added' \subseteq added \/ owner' = "writer",
         added' = {} \/ owner' = owner \/ owner' = "writer",
         \A m \in acked' : HasMsg(ov, m) => HasMsg(ov, m)' \/ Removed(m)',
         \A m \in added' : HasMsg(ov, m)'
  PROVE  Kept'
<1>1. \A m \in acked' : m \in acked /\ m \in Msgs
  BY DEF VInv, TypeOK
<1>2. \A m \in acked' : ~Removed(m)' => ~Removed(m)
  BY <1>1, RemovedGrows
<1>3. \A m \in acked' : ~Removed(m)' => HasMsg(ov, m) /\ HasMsg(ovD, m)
  BY <1>1, <1>2 DEF Kept
<1>4. \A m \in acked' : ~Removed(m)' => HasMsg(ov, m)' /\ HasMsg(ovD, m)'
  BY <1>3
<1>5. added' # {} => owner' = "writer"
  BY DEF Kept
<1> QED  BY <1>4, <1>5 DEF Kept

\* Messages that are kept have their documents after a step.
LEMMA KeptStep ==
  ASSUME VInv, Agreed, OnDisk, Kept, [Next]_vars
  PROVE  Kept'
<1> USE DEF gitVars, mmVars, ovVars, xapVars, wrVars, ixVars, badVars
<1>0. /\ \A m \in acked : m \in Msgs
      /\ \A m \in added : m \in Msgs /\ HasMsg(ov, m)
      /\ \A m \in acked : ~Removed(m) => HasMsg(ov, m) /\ HasMsg(ovD, m)
      /\ added # {} => owner = "writer"
  BY DEF VInv, TypeOK, Kept
<1>1. CASE UNCHANGED <<ov, acked, added>> /\ (owner = owner' \/ owner \in {"none", "orphans"})
           /\ ovD' \in {ovD, ov}
  <2>1. \A m \in Msgs : HasMsg(ov, m)' <=> HasMsg(ov, m)
    BY <1>1 DEF HasMsg
  <2> QED  BY <1>0, <1>1, <2>1, KeptFrom
<1>2. CASE \/ fetch \/ barrier \/ done \/ GitCommit \/ mm_commit \/ commit_lazy \/ commit_txn_lazy
           \/ ipc_wait_all \/ set_last_commits \/ add_epoch \/ GitFailsInImporter \/ index_sync
           \/ Relock \/ EndUnit \/ reindex_checkpoint \/ quit \/ OrphansExit
           \/ (\E s \in Shards : ShardStep(s)) \/ UNCHANGED vars
  <2>1. CASE fetch \/ (\E s \in Shards : ShardStep(s)) \/ UNCHANGED vars \/ OrphansExit
    BY <1>1, <2>1 DEF fetch, OrphansExit, ShardStep, vars
  <2>2. CASE barrier \/ done \/ GitCommit \/ mm_commit \/ commit_lazy \/ commit_txn_lazy \/ ipc_wait_all
    BY <1>1, <2>2 DEF barrier, done, DoneIn, GitCommit, mm_commit, commit_lazy, commit_txn_lazy,
       ipc_wait_all
  <2>3. CASE set_last_commits \/ add_epoch \/ GitFailsInImporter \/ index_sync \/ Relock
    BY <1>1, <2>3 DEF set_last_commits, add_epoch, GitFailsInImporter, index_sync, Relock
  <2>4. CASE EndUnit \/ reindex_checkpoint \/ quit
    BY <1>1, <2>4 DEF EndUnit, reindex_checkpoint, quit, QuitAt
  <2> QED  BY <1>2, <2>1, <2>2, <2>3, <2>4
<1>3. CASE GitFailsInDone \/ Crash
  <2>1. ov' = ovD /\ ovD' = ovD /\ acked' = acked /\ gitD' = gitD
    BY <1>3 DEF GitFailsInDone, Crash
  <2>2. added' = {}
    BY <1>0, <1>3 DEF GitFailsInDone, Crash
  <2>3. \A m \in acked' : ~Removed(m)' => HasMsg(ov, m)' /\ HasMsg(ovD, m)'
    BY <1>0, <2>1 DEF Removed
  <2> QED  BY <2>2, <2>3 DEF Kept
<1>4. CASE release
  <2>1. ov' = ov /\ ovD' = ovD /\ gitD' = gitD
    BY <1>4 DEF release
  <2>2. ov = ovD
    <3>1. steps # << >> /\ Head(steps) = "release"
      BY <1>4, AtFacts DEF release
    <3>2. Past(AfterOver)
      BY <3>1 DEF Past, Next1, AfterOver, AfterXap, AfterLc
    <3> QED  BY <3>2 DEF OnDisk
  <2>3. added' = {} /\ acked' \subseteq acked \union added
    BY <1>0, <1>4 DEF release
  <2>4. \A m \in acked' : ~Removed(m)' => HasMsg(ov, m)' /\ HasMsg(ovD, m)'
    BY <1>0, <2>1, <2>2, <2>3 DEF Removed
  <2> QED  BY <2>3, <2>4 DEF Kept
<1>5. ASSUME NEW e \in Epochs, NEW m \in Msgs, RemoveFrom(e, m), ovD' = ovD, owner' = "writer"
      PROVE  Kept'
  <2>1. /\ added' = added \ {m} /\ acked' = acked \ {m} /\ Matches(m) \in SUBSET Nums
        /\ ov' = [n \in Nums |-> IF n \in Matches(m) THEN NoBlob ELSE ov[n]]
    BY <1>5, RemoveEffect
  <2>2. \A n \in Matches(m) : ov[n].m = m
    BY DEF Matches
  <2>3. \A o \in Msgs : o # m => (HasMsg(ov, o)' <=> HasMsg(ov, o))
    BY <2>1, <2>2, GoneKeeps
  <2> QED  BY <1>0, <1>5, <2>1, <2>3, KeptFrom
<1>6. ASSUME NEW e \in Epochs, NEW b \in Blobs, NEW num \in Nums, AddTo(e, b.m, num, b.k),
             ov[num] = NoBlob, ovD' = ovD, owner' = "writer", acked' = acked
      PROVE  Kept'
  <2>1. ov' = [ov EXCEPT ![num] = b] /\ added' = added \union {b.m}
    BY <1>6, AddToEffect
  <2>2. \A m \in Msgs : HasMsg(ov, m)' <=> HasMsg(ov, m) \/ m = b.m
    BY <1>6, <2>1, DocKeeps
  <2> QED  BY <1>0, <1>6, <2>1, <2>2, BlobFacts, KeptFrom
<1>7. ASSUME NEW m \in Msgs, add(m)
      PROVE  Kept'
  <2>1. ovD' = ovD /\ owner' = "writer" /\ acked' = acked
    BY <1>7, AddCases
  <2>2. CASE Duplicate(m) /\ added' = added \union {m} /\ ov' = ov
    <3>1. HasMsg(ov, m)
      BY <2>2 DEF Duplicate, Matches, HasMsg
    <3>2. \A o \in Msgs : HasMsg(ov, o)' <=> HasMsg(ov, o)
      BY <2>2 DEF HasMsg
    <3> QED  BY <1>0, <2>1, <2>2, <3>1, <3>2, KeptFrom
  <2>3. CASE ov' = ov /\ added' = added
    <3>1. \A o \in Msgs : HasMsg(ov, o)' <=> HasMsg(ov, o)
      BY <2>3 DEF HasMsg
    <3> QED  BY <1>0, <2>1, <2>3, <3>1, KeptFrom
  <2>4. CASE \E num \in Nums, b \in Blobs, e \in Epochs :
               num = mm.seq + 1 /\ mm.seq < MaxNum /\ AddTo(e, b.m, num, b.k)
    <3>1. PICK num \in Nums, b \in Blobs, e \in Epochs :
               num = mm.seq + 1 /\ mm.seq < MaxNum /\ AddTo(e, b.m, num, b.k)
      BY <2>4
    <3>2. ov[num] = NoBlob
      BY <3>1, NextNumber DEF IsDoc, VInv, TypeOK, Tables
    <3> QED  BY <1>6, <2>1, <3>1, <3>2
  <2> QED  BY <1>7, <2>2, <2>3, <2>4, AddCases
<1>8. ASSUME NEW m \in Msgs, remove(m)
      PROVE  Kept'
  <2>1. ovD' = ovD /\ owner' = "writer"
    BY <1>8, RemoveCases
  <2>2. CASE UNCHANGED <<ov, added, acked>>
    <3>1. \A o \in Msgs : HasMsg(ov, o)' <=> HasMsg(ov, o)
      BY <2>2 DEF HasMsg
    <3> QED  BY <1>0, <2>1, <2>2, <3>1, KeptFrom
  <2> QED  BY <1>5, <1>8, <2>1, <2>2, RemoveCases
<1>9. CASE Resume
  <2>1. ovD' = ovD /\ owner' = "writer"
    BY <1>9, ResumeCases
  <2>2. CASE /\ cur.op = "add" /\ acked' = acked
             /\ \E num \in Nums, b \in Blobs, e \in Epochs : num = cur.num /\ AddTo(e, b.m, num, b.k)
    <3>1. PICK num \in Nums, b \in Blobs, e \in Epochs : num = cur.num /\ AddTo(e, b.m, num, b.k)
      BY <2>2
    <3>2. ov[num] = NoBlob
      BY <2>2, <3>1 DEF Agreed, IsDoc, VInv, TypeOK, Tables
    <3> QED  BY <1>6, <2>1, <2>2, <3>1, <3>2
  <2> QED  BY <1>5, <1>9, <2>1, <2>2, ResumeCases
<1>10. CASE index_oid
  <2>1. UNCHANGED <<ovD, owner, acked, added>> /\ owner = "index"
    BY <1>10, IndexOidCases
  <2>2. CASE ov' = ov
    BY <1>1, <2>1, <2>2
  <2>3. CASE \E b \in Blobs, n \in Nums : ov' = [ov EXCEPT ![n] = b] /\ ov[n] \in {NoBlob, b}
    <3>1. PICK b \in Blobs, n \in Nums : ov' = [ov EXCEPT ![n] = b] /\ ov[n] \in {NoBlob, b}
      BY <2>3
    <3>2. \A m \in Msgs : HasMsg(ov, m)' <=> HasMsg(ov, m) \/ m = b.m
      BY <3>1, DocKeeps
    <3> QED  BY <1>0, <2>1, <3>2, KeptFrom
  <2>4. ASSUME NEW b \in Blobs, NEW n \in Reused(b), ov' = [ov EXCEPT ![n] = b]
        PROVE  Kept'
    BY <2>3, <2>4, ReusedKeeps
  <2>5. ASSUME NEW b \in Blobs, NEW n \in Nums, mm.seq < MaxNum, n = mm.seq + 1, ov' = [ov EXCEPT ![n] = b]
        PROVE  Kept'
    <3>1. ov[n] = NoBlob
      BY <2>5, NextNumber DEF IsDoc, VInv, TypeOK, Tables
    <3> QED  BY <2>3, <2>5, <3>1
  <2> QED  BY <1>10, <2>2, <2>4, <2>5, IndexOidCases
<1>11. CASE unindex_oid
  <2>1. UNCHANGED <<gitD, ovD, owner, acked, added>> /\ owner = "index"
    BY <1>11, UnindexOidCases
  <2>2. PICK u \in todo, c \in Commits, gone \in SUBSET Nums : Unindexes(u, c, gone)
    BY <1>11, UnindexOidCases
  <2>3. /\ c \in u.left /\ c.op = "d" /\ c.b.m \in Msgs /\ gone = {n \in Nums : ov[n] = c.b}
        /\ ov' = [n \in Nums |-> IF n \in gone THEN NoBlob ELSE ov[n]]
    BY <2>2, BlobFacts DEF Unindexes
  <2>4. \A o \in Msgs : o # c.b.m => (HasMsg(ov, o)' <=> HasMsg(ov, o))
    BY <2>3, GoneKeeps
  <2>5. Removed(c.b.m)'
    BY <2>1, <2>3 DEF OnDisk, Removed
  <2> QED  BY <1>0, <2>1, <2>4, <2>5, KeptFrom
<1> QED  BY <1>2, <1>3, <1>4, <1>7, <1>8, <1>9, <1>10, <1>11 DEF Next, Writer, Steps, Indexer

\* An inbox that was just created keeps nothing yet.
LEMMA KeptInit ==
  ASSUME Init
  PROVE  OnDisk /\ Kept
<1>1. OnDisk
  <2>1. CommitsIn(gitD) = {}
    BY DEF Init, CommitsIn
  <2>2. Drained
    BY DEF Init, Drained
  <2> QED  BY <2>1, <2>2 DEF Init, OnDisk
<1> QED  BY <1>1 DEF Init, Kept

\* What checkpoint and done have put on disk so far is what the process that
\* holds the lock sees, and messages that are kept have their documents.
THEOREM KeptHolds == Spec => [](OnDisk /\ Kept)
<1>1. Init => OnDisk /\ Kept
  BY KeptInit
<1>2. VInv /\ Agreed /\ OnDisk /\ Kept /\ [Next]_vars => OnDisk' /\ Kept'
  BY OnDiskStep, KeptStep
<1> QED  BY <1>1, <1>2, InboxInvariant, AgreedHolds, PTL DEF Spec

\* A message done has returned for, and that nobody ever began to remove, is in
\* over.sqlite3 on disk, whatever crashed, failed or was indexed before or after.
THEOREM KeptIsShownHolds == Spec => []KeptIsShown
<1>1. VInv /\ OnDisk /\ Kept => KeptIsShown
  <2> SUFFICES ASSUME VInv, Kept, NEW m \in acked, \A i \in 1 .. Len(gitD) : gitD[i].op = "m" \/ gitD[i].b.m # m
               PROVE  m \in Shown
    BY DEF KeptIsShown
  <2>1. ~Removed(m)
    BY DEF Removed, CommitsIn
  <2>2. HasMsg(ovD, m)
    BY <2>1 DEF Kept
  <2> QED  BY <2>2 DEF HasMsg, Shown
<1> QED  BY <1>1, InboxInvariant, KeptHolds, PTL

-----------------------------------------------------------------------------
(* Xapian follows over.sqlite3. *)

\* Once shard requests q are served, the document of number n is want.
Follows(q, n, doc, want) ==
    /\ (\A k \in 1 .. Len(q) : n \notin q[k].ns) => doc = want
    /\ \A k \in 1 .. Len(q) :
         n \in q[k].ns /\ (\A l \in k + 1 .. Len(q) : n \notin q[l].ns) => q[k].b = want

\* It is on disk, or a commit is asked for after the last change.
Flushes(q, n, doc, disk) ==
    \/ disk = doc /\ \A k \in 1 .. Len(q) : n \notin q[k].ns
    \/ \E k \in 1 .. Len(q) : q[k].op = "commit" /\ \A l \in k + 1 .. Len(q) : n \notin q[l].ns

\* Without a crash and without a failed done, every shard ends up with what
\* over.sqlite3 shows, and has it on disk when the lock is free.
Queued ==
    /\ \A s \in Shards : \A k \in 1 .. Len(xq[s]) : xq[s][k].op = "commit" => xq[s][k].ns = {}
    /\ ncrash = 0 /\ nfail = 0 =>
         \A n \in Nums :
            /\ Follows(xq[idx_shard(n)], n, xap[n], ov[n])
            /\ Past(AfterXap) => Flushes(xq[idx_shard(n)], n, xap[n], xapD[n])

\* A request is added to a queue.
LEMMA AppendFollows ==
  ASSUME NEW q \in Seq(Requests), NEW r \in Requests, NEW n, NEW doc, NEW want, Follows(q, n, doc, want)
  PROVE  Follows(Append(q, r), n, doc, IF n \in r.ns THEN r.b ELSE want)
<1>1. PICK p : p = Append(q, r)
  OBVIOUS
<1>2. Len(p) = Len(q) + 1 /\ Len(q) \in Nat /\ p[Len(q) + 1] = r /\ \A k \in 1 .. Len(q) : p[k] = q[k]
  BY <1>1
<1>3. CASE n \in r.ns
  <2>1. Len(q) + 1 \in 1 .. Len(p)
    BY <1>2
  <2>2. \A k \in 1 .. Len(p) : k = Len(q) + 1 \/ Len(q) + 1 \in k + 1 .. Len(p)
    BY <1>2
  <2>3. \A k \in 1 .. Len(p) :
            n \in p[k].ns /\ (\A l \in k + 1 .. Len(p) : n \notin p[l].ns) => p[k].b = r.b
    BY <1>2, <1>3, <2>2
  <2> QED  BY <1>1, <1>2, <1>3, <2>1, <2>3 DEF Follows
<1>4. CASE n \notin r.ns
  <2>1. \A k \in 1 .. Len(q) : k \in 1 .. Len(p)
    BY <1>2
  <2>2. (\A k \in 1 .. Len(p) : n \notin p[k].ns) => doc = want
    BY <1>2, <2>1 DEF Follows
  <2>3. ASSUME NEW k \in 1 .. Len(p), n \in p[k].ns, \A l \in k + 1 .. Len(p) : n \notin p[l].ns
        PROVE  p[k].b = want
    <3>1. k \in 1 .. Len(q) /\ p[k] = q[k]
      BY <1>2, <1>4, <2>3
    <3>2. \A l \in k + 1 .. Len(q) : l \in k + 1 .. Len(p) /\ q[l] = p[l]
      BY <1>2, <3>1
    <3> QED  BY <2>3, <3>1, <3>2 DEF Follows
  <2> QED  BY <1>1, <1>4, <2>2, <2>3 DEF Follows
<1> QED  BY <1>3, <1>4

\* A request is served.
LEMMA TailFollows ==
  ASSUME NEW q \in Seq(Requests), q # << >>, NEW n, NEW doc, NEW want, Follows(q, n, doc, want)
  PROVE  Follows(Tail(q), n, IF n \in Head(q).ns THEN Head(q).b ELSE doc, want)
<1>1. PICK p, new : p = Tail(q) /\ new = (IF n \in Head(q).ns THEN Head(q).b ELSE doc)
  OBVIOUS
<1>2. /\ Len(q) \in Nat /\ Len(q) >= 1 /\ Head(q) = q[1] /\ Len(p) = Len(q) - 1
      /\ \A k \in 1 .. Len(p) : p[k] = q[k + 1]
  BY <1>1
<1>3. ASSUME \A k \in 1 .. Len(p) : n \notin p[k].ns
      PROVE  new = want
  <2>1. \A k \in 2 .. Len(q) : n \notin q[k].ns
    <3> SUFFICES ASSUME NEW k \in 2 .. Len(q) PROVE n \notin q[k].ns
      OBVIOUS
    <3>1. k - 1 \in 1 .. Len(p) /\ k = (k - 1) + 1
      BY <1>2
    <3>2. p[k - 1] = q[k]
      BY <1>2, <3>1
    <3> QED  BY <1>3, <3>1, <3>2
  <2>2. CASE n \in q[1].ns
    <3>1. 1 \in 1 .. Len(q) /\ 1 + 1 = 2
      BY <1>2
    <3>2. q[1].b = want
      BY <2>1, <2>2, <3>1 DEF Follows
    <3> QED  BY <1>1, <1>2, <2>2, <3>2
  <2>3. CASE n \notin q[1].ns
    <3>1. \A k \in 1 .. Len(q) : k = 1 \/ k \in 2 .. Len(q)
      BY <1>2
    <3>2. doc = want
      BY <2>1, <2>3, <3>1 DEF Follows
    <3> QED  BY <1>1, <1>2, <2>3, <3>2
  <2> QED  BY <2>2, <2>3
<1>4. ASSUME NEW k \in 1 .. Len(p), n \in p[k].ns, \A l \in k + 1 .. Len(p) : n \notin p[l].ns
      PROVE  p[k].b = want
  <2>1. k + 1 \in 1 .. Len(q) /\ p[k] = q[k + 1]
    BY <1>2
  <2>2. \A l \in (k + 1) + 1 .. Len(q) : n \notin q[l].ns
    <3> SUFFICES ASSUME NEW l \in (k + 1) + 1 .. Len(q) PROVE n \notin q[l].ns
      OBVIOUS
    <3>1. l - 1 \in k + 1 .. Len(p) /\ l - 1 \in 1 .. Len(p) /\ (l - 1) + 1 = l
      BY <1>2
    <3>2. p[l - 1] = q[l]
      BY <1>2, <3>1
    <3> QED  BY <1>4, <3>1, <3>2
  <2> QED  BY <1>4, <2>1, <2>2 DEF Follows
<1> QED  BY <1>1, <1>3, <1>4 DEF Follows

\* A commit is asked for.
LEMMA AppendFlushes ==
  ASSUME NEW q \in Seq(Requests), NEW r \in Requests, r.op = "commit", NEW n, NEW doc, NEW disk
  PROVE  Flushes(Append(q, r), n, doc, disk)
<1>1. PICK p, k : p = Append(q, r) /\ k = Len(q) + 1
  OBVIOUS
<1>2. k \in 1 .. Len(p) /\ p[k] = r /\ k + 1 .. Len(p) = {}
  BY <1>1
<1> QED  BY <1>1, <1>2 DEF Flushes

\* A request is served, perhaps the commit.
LEMMA TailFlushes ==
  ASSUME NEW q \in Seq(Requests), q # << >>, NEW n, NEW doc, NEW disk, Flushes(q, n, doc, disk),
         Head(q).op = "commit" => Head(q).ns = {}
  PROVE  Flushes(Tail(q), n, IF n \in Head(q).ns THEN Head(q).b ELSE doc,
                 IF Head(q).op = "commit" THEN doc ELSE disk)
<1>1. PICK p : p = Tail(q)
  OBVIOUS
<1>2. /\ Len(q) \in Nat /\ Len(q) >= 1 /\ Head(q) = q[1] /\ Len(p) = Len(q) - 1
      /\ \A k \in 1 .. Len(p) : p[k] = q[k + 1]
  BY <1>1
<1>3. \A k \in 1 .. Len(p) : k + 1 \in 1 .. Len(q) /\ k + 1 \in 1 + 1 .. Len(q)
  BY <1>2
<1>4. CASE disk = doc /\ \A k \in 1 .. Len(q) : n \notin q[k].ns
  <2>0. 1 \in 1 .. Len(q)
    BY <1>2
  <2>1. n \notin q[1].ns /\ \A k \in 1 .. Len(p) : n \notin p[k].ns
    BY <1>2, <1>3, <1>4, <2>0
  <2> QED  BY <1>1, <1>2, <1>4, <2>1 DEF Flushes
<1>5. ASSUME NEW k \in 1 .. Len(q), q[k].op = "commit", \A l \in k + 1 .. Len(q) : n \notin q[l].ns
      PROVE  Flushes(Tail(q), n, IF n \in Head(q).ns THEN Head(q).b ELSE doc,
                     IF Head(q).op = "commit" THEN doc ELSE disk)
  <2>1. CASE k = 1
    <3>1. n \notin q[1].ns /\ \A l \in 1 .. Len(p) : n \notin p[l].ns
      BY <1>2, <1>3, <1>5, <2>1
    <3>2. Head(q).op = "commit" /\ ~(n \in Head(q).ns)
      BY <1>2, <1>5, <2>1, <3>1
    <3>3. Flushes(p, n, doc, doc)
      BY <3>1 DEF Flushes
    <3> QED  BY <1>1, <3>2, <3>3
  <2>2. CASE k # 1
    <3>1. k - 1 \in 1 .. Len(p) /\ (k - 1) + 1 = k
      BY <1>2, <2>2
    <3>2. p[k - 1] = q[k]
      BY <1>2, <3>1
    <3>3. \A l \in (k - 1) + 1 .. Len(p) : n \notin p[l].ns
      <4> SUFFICES ASSUME NEW l \in (k - 1) + 1 .. Len(p) PROVE n \notin p[l].ns
        OBVIOUS
      <4>1. l \in 1 .. Len(p) /\ l + 1 \in k + 1 .. Len(q)
        BY <1>2, <2>2
      <4> QED  BY <1>2, <1>5, <4>1
    <3> QED  BY <1>1, <1>5, <3>1, <3>2, <3>3 DEF Flushes
  <2> QED  BY <2>1, <2>2
<1> QED  BY <1>4, <1>5 DEF Flushes

\* Every number has its shard.
LEMMA ShardOf ==
  ASSUME NEW n \in Nums
  PROVE  idx_shard(n) \in Shards
<1>1. n \in Nat /\ NShards \in Nat /\ NShards > 0
  BY ShapeAssumption DEF Nums
<1>2. n % NShards \in 0 .. NShards - 1
  BY <1>1
<1> QED  BY <1>2 DEF idx_shard, Shards

\* What ipc_do does to the queue of a number.
LEMMA QueueOf ==
  ASSUME VInv, NEW r \in Requests, ipc_do(r), NEW n \in Nums
  PROVE  /\ idx_shard(n) \in Shards /\ xq[idx_shard(n)] \in Seq(Requests)
         /\ n \in r.ns \/ r.op = "commit" => xq'[idx_shard(n)] = Append(xq[idx_shard(n)], r)
         /\ xq'[idx_shard(n)] \in {xq[idx_shard(n)], Append(xq[idx_shard(n)], r)}
<1>1. idx_shard(n) \in Shards
  BY ShardOf
<1>2. xq[idx_shard(n)] \in Seq(Requests)
  BY <1>1 DEF VInv, TypeOK
<1>3. n \in r.ns \/ r.op = "commit" => Concerns(r, idx_shard(n))
  BY DEF Concerns
<1> QED  BY <1>1, <1>2, <1>3 DEF ipc_do

\* Requests that commit concern no number.
LEMMA CommitsAlone ==
  ASSUME VInv, Queued, NEW r \in Requests, ipc_do(r), r.op = "commit" => r.ns = {}
  PROVE  \A s \in Shards : \A k \in 1 .. Len(xq'[s]) : xq'[s][k].op = "commit" => xq'[s][k].ns = {}
<1>1. \A s \in Shards : \A k \in 1 .. Len(xq'[s]) :
            \/ k \in 1 .. Len(xq[s]) /\ xq'[s][k] = xq[s][k]
            \/ k = Len(xq[s]) + 1 /\ xq'[s][k] = r
  BY RequestFacts DEF VInv
<1> QED  BY <1>1 DEF Queued

\* over.sqlite3 and the shards get the same change.
LEMMA WriteQueued ==
  ASSUME VInv, Queued, NEW r \in Requests, r.op # "commit", ipc_do(r),
         \A n \in Nums : ov'[n] = IF n \in r.ns THEN r.b ELSE ov[n],
         UNCHANGED <<xap, xapD, ncrash, nfail>>, ~Past(AfterXap)'
  PROVE  Queued'
<1>1. \A s \in Shards : \A k \in 1 .. Len(xq'[s]) : xq'[s][k].op = "commit" => xq'[s][k].ns = {}
  BY CommitsAlone
<1>2. ASSUME ncrash = 0, nfail = 0, NEW n \in Nums
      PROVE  Follows(xq'[idx_shard(n)], n, xap'[n], ov'[n])
  <2>1. PICK q \in Seq(Requests) : q = xq[idx_shard(n)]
    BY QueueOf
  <2>2. Follows(q, n, xap[n], ov[n])
    BY <1>2, <2>1 DEF Queued
  <2>3. Follows(Append(q, r), n, xap[n], ov'[n])
    BY <2>2, AppendFollows
  <2>4. CASE n \in r.ns
    BY <2>1, <2>3, <2>4, QueueOf
  <2>5. CASE n \notin r.ns
    BY <2>1, <2>2, <2>3, <2>5, QueueOf
  <2> QED  BY <2>4, <2>5
<1> QED  BY <1>1, <1>2 DEF Queued

\* A step that touches neither documents nor queues.
LEMMA SameQueued ==
  ASSUME Queued, UNCHANGED <<ov, xap, xapD, xq, ncrash, nfail>>, Past(AfterXap)' => Past(AfterXap)
  PROVE  Queued'
  BY DEF Queued

\* The shards are asked to commit.
LEMMA CommitQueued ==
  ASSUME VInv, Queued, commit_txn_lazy
  PROVE  Queued'
<1>0. ipc_do(CommitTxn) /\ UNCHANGED <<ov, xap, xapD, ncrash, nfail>>
  BY DEF commit_txn_lazy, ovVars, badVars
<1>1. PICK r \in Requests : r = CommitTxn /\ r.op = "commit" /\ r.ns = {}
  <2>1. CommitTxn \in Requests /\ CommitTxn.op = "commit" /\ CommitTxn.ns = {}
    BY DEF CommitTxn, Requests
  <2> QED  BY <2>1
<1>2. \A s \in Shards : \A k \in 1 .. Len(xq'[s]) : xq'[s][k].op = "commit" => xq'[s][k].ns = {}
  BY <1>0, <1>1, CommitsAlone
<1>3. ASSUME ncrash = 0, nfail = 0, NEW n \in Nums
      PROVE  /\ Follows(xq'[idx_shard(n)], n, xap'[n], ov'[n])
             /\ Flushes(xq'[idx_shard(n)], n, xap'[n], xapD'[n])
  <2>1. PICK q \in Seq(Requests) : q = xq[idx_shard(n)] /\ xq'[idx_shard(n)] = Append(q, r)
    BY <1>0, <1>1, QueueOf
  <2>2. Follows(q, n, xap[n], ov[n])
    BY <1>3, <2>1 DEF Queued
  <2>3. Follows(Append(q, r), n, xap[n], ov[n])
    BY <1>1, <2>2, AppendFollows
  <2>4. Flushes(Append(q, r), n, xap[n], xapD[n])
    BY <1>1, AppendFlushes
  <2> QED  BY <1>0, <2>1, <2>3, <2>4
<1> QED  BY <1>0, <1>2, <1>3 DEF Queued

\* A shard serves a request.
LEMMA ShardQueued ==
  ASSUME VInv, Queued, NEW s \in Shards, ShardStep(s)
  PROVE  Queued'
<1>1. PICK q \in Seq(Requests) : q = xq[s] /\ q # << >>
  BY DEF ShardStep, VInv, TypeOK
<1>2. /\ xap' = [n \in Nums |-> IF n \in Head(q).ns /\ idx_shard(n) = s THEN Head(q).b ELSE xap[n]]
      /\ xapD' = IF Head(q).op = "commit"
                 THEN [n \in Nums |-> IF idx_shard(n) = s THEN xap[n] ELSE xapD[n]] ELSE xapD
      /\ xq' = [xq EXCEPT ![s] = Tail(q)]
      /\ UNCHANGED <<ov, owner, steps, ncrash, nfail>>
  BY <1>1 DEF ShardStep, ovVars, badVars
<1>3. xq \in [Shards -> Seq(Requests)]
  BY DEF VInv, TypeOK
<1>4. xq'[s] = Tail(q) /\ \A t \in Shards : t # s => xq'[t] = xq[t]
  BY <1>2, <1>3
<1>5. Past(AfterXap)' <=> Past(AfterXap)
  BY <1>2 DEF Past, Next1
<1>6. Head(q).op = "commit" => Head(q).ns = {}
  <2>1. 1 \in 1 .. Len(q) /\ Head(q) = q[1]
    BY <1>1
  <2> QED  BY <1>1, <2>1 DEF Queued
<1>7. \A t \in Shards : \A k \in 1 .. Len(xq'[t]) : xq'[t][k].op = "commit" => xq'[t][k].ns = {}
  <2>1. PICK p : p = Tail(q)
    OBVIOUS
  <2>2. \A k \in 1 .. Len(p) : k + 1 \in 1 .. Len(q) /\ p[k] = q[k + 1]
    BY <1>1, <2>1
  <2>3. \A k \in 1 .. Len(q) : q[k].op = "commit" => q[k].ns = {}
    BY <1>1 DEF Queued
  <2>4. \A k \in 1 .. Len(p) : p[k].op = "commit" => p[k].ns = {}
    BY <2>2, <2>3
  <2> QED  BY <1>4, <2>1, <2>4 DEF Queued
<1>8. ASSUME ncrash = 0, nfail = 0, NEW n \in Nums
      PROVE  /\ Follows(xq'[idx_shard(n)], n, xap'[n], ov'[n])
             /\ Past(AfterXap) => Flushes(xq'[idx_shard(n)], n, xap'[n], xapD'[n])
  <2>1. /\ Follows(xq[idx_shard(n)], n, xap[n], ov[n])
        /\ Past(AfterXap) => Flushes(xq[idx_shard(n)], n, xap[n], xapD[n])
    BY <1>8 DEF Queued
  <2>2. CASE idx_shard(n) = s
    <3>1. /\ xap'[n] = (IF n \in Head(q).ns THEN Head(q).b ELSE xap[n])
          /\ xapD'[n] = (IF Head(q).op = "commit" THEN xap[n] ELSE xapD[n])
      BY <1>2, <2>2
    <3>2. Follows(Tail(q), n, xap'[n], ov[n])
      BY <1>1, <2>1, <2>2, <3>1, TailFollows
    <3>3. Past(AfterXap) => Flushes(Tail(q), n, xap'[n], xapD'[n])
      BY <1>1, <1>6, <2>1, <2>2, <3>1, TailFlushes
    <3> QED  BY <1>2, <1>4, <2>2, <3>2, <3>3
  <2>3. CASE idx_shard(n) # s
    <3>1. xap'[n] = xap[n] /\ xapD'[n] = xapD[n] /\ xq'[idx_shard(n)] = xq[idx_shard(n)]
      BY <1>2, <1>4, <2>3, ShardOf
    <3> QED  BY <1>2, <2>1, <3>1
  <2> QED  BY <2>2, <2>3
<1> QED  BY <1>2, <1>5, <1>7, <1>8 DEF Queued

\* The shards have been waited for.
LEMMA DrainedFacts ==
  ASSUME VInv, Queued, Drained, Past(AfterXap), ncrash = 0, nfail = 0
  PROVE  \A n \in Nums : xap[n] = ov[n] /\ xapD[n] = xap[n]
<1> SUFFICES ASSUME NEW n \in Nums PROVE xap[n] = ov[n] /\ xapD[n] = xap[n]
  OBVIOUS
<1>1. 1 .. Len(xq[idx_shard(n)]) = {}
  BY ShardOf DEF Drained
<1>2. /\ Follows(xq[idx_shard(n)], n, xap[n], ov[n])
      /\ Flushes(xq[idx_shard(n)], n, xap[n], xapD[n])
  BY DEF Queued
<1> QED  BY <1>1, <1>2 DEF Follows, Flushes

\* A document is written.
LEMMA DocQueued ==
  ASSUME VInv, Queued, NEW n \in Nums, NEW b \in Blobs,
         ov' = [ov EXCEPT ![n] = b], ipc_do(add_xapian(n, b)),
         UNCHANGED <<xap, xapD, ncrash, nfail>>, ~Past(AfterXap)'
  PROVE  Queued'
<1>1. PICK r : r = add_xapian(n, b)
  OBVIOUS
<1>2. r \in Requests /\ r.op # "commit" /\ r.ns = {n} /\ r.b = b
  BY <1>1 DEF add_xapian, Requests
<1>3. ov \in [Nums -> Blobs \union {NoBlob}]
  BY DEF VInv, TypeOK, Tables
<1>4. \A i \in Nums : ov'[i] = IF i \in r.ns THEN r.b ELSE ov[i]
  BY <1>2, <1>3
<1>5. ipc_do(r)
  BY <1>1
<1> QED  BY <1>2, <1>4, <1>5, WriteQueued

\* Documents are removed.
LEMMA GoneQueued ==
  ASSUME VInv, Queued, NEW gone \in SUBSET Nums,
         ov' = [n \in Nums |-> IF n \in gone THEN NoBlob ELSE ov[n]], ipc_do(xdb_remove(gone)),
         UNCHANGED <<xap, xapD, ncrash, nfail>>, ~Past(AfterXap)'
  PROVE  Queued'
<1>1. PICK r : r = xdb_remove(gone)
  OBVIOUS
<1>2. r \in Requests /\ r.op # "commit" /\ r.ns = gone /\ r.b = NoBlob
  BY <1>1 DEF xdb_remove, Requests
<1>3. \A i \in Nums : ov'[i] = IF i \in r.ns THEN r.b ELSE ov[i]
  BY <1>2
<1>4. ipc_do(r)
  BY <1>1
<1> QED  BY <1>2, <1>3, <1>4, WriteQueued

\* The queues and the stores after every step.
LEMMA QueuedStep ==
  ASSUME VInv, Queued, [Next]_vars
  PROVE  Queued'
<1> USE DEF gitVars, mmVars, ovVars, xapVars, wrVars, ixVars, badVars
<1>0. ncrash \in Nat /\ nfail \in Nat
  BY BoundAssumption DEF VInv, TypeOK
<1>1. CASE /\ UNCHANGED <<ov, xap, xapD, xq, ncrash, nfail>>
           /\ owner' \in {"writer", "index"} /\ (steps' = << >> \/ Head(steps') \in Unsynced)
  <2>1. ~Past(AfterXap)'
    BY <1>1, NotPast
  <2> QED  BY <1>1, <2>1, SameQueued
<1>2. ASSUME NEW e \in Epochs, NEW b \in Blobs, NEW num \in Nums, AddTo(e, b.m, num, b.k),
             owner' = "writer", steps' = << >>, UNCHANGED <<xap, xapD, ncrash, nfail>>
      PROVE  Queued'
  <2>1. ~Past(AfterXap)'
    BY <1>2, NotPast
  <2>2. ov' = [ov EXCEPT ![num] = b] /\ ipc_do(add_xapian(num, b))
    BY <1>2, AddToEffect
  <2> QED  BY <1>2, <2>1, <2>2, DocQueued
<1>3. ASSUME NEW e \in Epochs, NEW m \in Msgs, RemoveFrom(e, m),
             owner' = "writer", steps' = << >>, UNCHANGED <<xap, xapD, ncrash, nfail>>
      PROVE  Queued'
  <2>1. ~Past(AfterXap)'
    BY <1>3, NotPast
  <2>2. /\ Matches(m) \in SUBSET Nums /\ ipc_do(xdb_remove(Matches(m)))
        /\ ov' = [n \in Nums |-> IF n \in Matches(m) THEN NoBlob ELSE ov[n]]
    BY <1>3, RemoveEffect
  <2> QED  BY <1>3, <2>1, <2>2, GoneQueued
<1>4. ASSUME NEW m \in Msgs, add(m)
      PROVE  Queued'
  <2>1. owner' = "writer" /\ UNCHANGED <<xap, xapD, ncrash, nfail>>
    BY <1>4, AddCases
  <2>2. CASE UNCHANGED <<ov, xq>> /\ (steps' = << >> \/ Head(steps') \in Unsynced)
    BY <1>1, <2>1, <2>2
  <2>3. CASE /\ \E num \in Nums, b \in Blobs, e \in Epochs : AddTo(e, b.m, num, b.k)
             /\ steps' = << >>
    BY <1>2, <2>1, <2>3
  <2> QED  BY <1>4, <2>2, <2>3, AddCases DEF Unsynced
<1>5. ASSUME NEW m \in Msgs, remove(m)
      PROVE  Queued'
  <2>1. owner' = "writer" /\ UNCHANGED <<xap, xapD, ncrash, nfail>>
    BY <1>5, RemoveCases
  <2>2. CASE UNCHANGED <<ov, xq>> /\ Head(steps') \in Unsynced
    BY <1>1, <2>1, <2>2
  <2> QED  BY <1>3, <1>5, <2>1, <2>2, RemoveCases DEF Unsynced
<1>6. CASE Resume
  <2>1. owner' = "writer" /\ steps' = << >> /\ UNCHANGED <<xap, xapD, ncrash, nfail>>
    BY <1>6, ResumeCases
  <2>2. CASE \E num \in Nums, b \in Blobs, e \in Epochs : AddTo(e, b.m, num, b.k)
    BY <1>2, <2>1, <2>2
  <2> QED  BY <1>3, <1>6, <2>1, <2>2, ResumeCases
<1>7. CASE index_oid
  <2>1. UNCHANGED <<xap, xapD, ncrash, nfail, owner, steps>> /\ owner = "index" /\ steps = << >>
    BY <1>7, IndexOidCases
  <2>2. ~Past(AfterXap)'
    BY <2>1, NotPast
  <2>3. CASE UNCHANGED <<ov, xq>>
    BY <1>1, <2>1, <2>3
  <2>4. ASSUME NEW b \in Blobs, NEW n \in Nums, ov' = [ov EXCEPT ![n] = b], ipc_do(add_xapian(n, b))
        PROVE  Queued'
    BY <2>1, <2>2, <2>4, DocQueued
  <2>5. ASSUME NEW b \in Blobs, NEW n \in Reused(b), ov' = [ov EXCEPT ![n] = b], ipc_do(add_xapian(n, b))
        PROVE  Queued'
    BY <2>4, <2>5, ReusedFacts
  <2> QED  BY <1>7, <2>3, <2>4, <2>5, IndexOidCases
<1>8. CASE unindex_oid
  <2>1. UNCHANGED <<xap, xapD, ncrash, nfail, owner, steps>> /\ owner = "index" /\ steps = << >>
    BY <1>8, UnindexOidCases
  <2>2. ~Past(AfterXap)'
    BY <2>1, NotPast
  <2>3. PICK u \in todo, c \in Commits, gone \in SUBSET Nums : Unindexes(u, c, gone)
    BY <1>8, UnindexOidCases
  <2>4. /\ ov' = [n \in Nums |-> IF n \in gone THEN NoBlob ELSE ov[n]] /\ ipc_do(xdb_remove(gone))
    BY <2>3 DEF Unindexes
  <2> QED  BY <2>1, <2>2, <2>4, GoneQueued
<1>9. CASE barrier \/ done \/ index_sync \/ Relock \/ EndUnit \/ reindex_checkpoint \/ quit
           \/ GitFailsInImporter
  <2>1. Sync \o <<"lc", "release">> # << >> /\ Head(Sync \o <<"lc", "release">>) \in Unsynced
    BY PlanBegins DEF Unsynced
  <2>2. CASE barrier \/ done
    BY <1>1, <2>2, PlanBegins DEF barrier, done, DoneIn, Idle, May
  <2>3. CASE index_sync \/ Relock
    BY <1>1, <2>1, <2>3 DEF index_sync, Relock, VInv, Flow
  <2>4. CASE EndUnit \/ reindex_checkpoint \/ quit
    BY <1>1, <2>1, <2>4 DEF EndUnit, reindex_checkpoint, quit, QuitAt, Working, Idle, May
  <2>5. CASE GitFailsInImporter
    BY <1>1, <2>5 DEF GitFailsInImporter, At
  <2> QED  BY <1>9, <2>2, <2>3, <2>4, <2>5
<1>10. ASSUME NEW step, At(step), Advance, owner' = owner, UNCHANGED <<ov, xap, xapD, xq, ncrash, nfail>>,
              step # "xap"
       PROVE  Queued'
  <2>1. Past(AfterXap)' => Past(AfterXap)
    BY <1>10, AdvancePast
  <2> QED  BY <1>10, <2>1, SameQueued
<1>11. CASE GitCommit \/ mm_commit \/ commit_lazy \/ ipc_wait_all \/ set_last_commits \/ add_epoch
  BY <1>10, <1>11 DEF GitCommit, mm_commit, commit_lazy, ipc_wait_all, set_last_commits, add_epoch
<1>12. CASE release \/ OrphansExit
  <2>1. Drained /\ Drained' /\ UNCHANGED <<ov, xapD, xq, ncrash, nfail>> /\ xap' = xapD
    BY <1>12 DEF release, OrphansExit, Drained
  <2>2. Past(AfterXap)
    <3>1. CASE release
      <4>1. steps # << >> /\ Head(steps) = "release"
        BY <3>1, AtFacts DEF release
      <4> QED  BY <4>1 DEF Past, Next1, AfterXap, AfterLc
    <3>2. CASE OrphansExit
      BY <3>2 DEF OrphansExit, Past
    <3> QED  BY <1>12, <3>1, <3>2
  <2>3. \A s \in Shards : 1 .. Len(xq'[s]) = {}
    BY <2>1 DEF Drained
  <2>4. ASSUME ncrash = 0, nfail = 0, NEW n \in Nums
        PROVE  /\ Follows(xq'[idx_shard(n)], n, xap'[n], ov'[n])
               /\ Flushes(xq'[idx_shard(n)], n, xap'[n], xapD'[n])
    <3>1. xap'[n] = ov'[n] /\ xapD'[n] = xap'[n]
      BY <2>1, <2>2, <2>4, DrainedFacts
    <3>2. 1 .. Len(xq'[idx_shard(n)]) = {}
      BY <2>3, ShardOf
    <3> QED  BY <3>1, <3>2 DEF Follows, Flushes
  <2> QED  BY <2>1, <2>3, <2>4 DEF Queued
<1>13. CASE GitFailsInDone
  <2>1. nfail' # 0 /\ UNCHANGED <<xap, xapD, xq>>
    BY <1>0, <1>13 DEF GitFailsInDone
  <2> QED  BY <2>1 DEF Queued
<1>14. CASE Crash
  <2>1. ncrash' # 0 /\ (xq' = xq \/ xq' = [s \in Shards |-> << >>])
    BY <1>0, <1>14 DEF Crash
  <2>2. \A s \in Shards : \A k \in 1 .. Len(xq'[s]) : xq'[s][k].op = "commit" => xq'[s][k].ns = {}
    BY <2>1 DEF Queued
  <2> QED  BY <2>1, <2>2 DEF Queued
<1>15. CASE fetch \/ UNCHANGED vars
  <2>1. UNCHANGED <<ov, xap, xapD, xq, ncrash, nfail, owner, steps>>
    BY <1>15 DEF fetch, vars
  <2> QED  BY <2>1, SameQueued DEF Past, Next1
<1> QED  BY <1>4, <1>5, <1>6, <1>7, <1>8, <1>9, <1>11, <1>12, <1>13, <1>14, <1>15, CommitQueued, ShardQueued
         DEF Next, Writer, Steps, Indexer

-----------------------------------------------------------------------------
(* The writer is told what is there. *)

\* Nothing went wrong, and the inbox is no mirror.
Calm == ncrash = 0 /\ nfail = 0 /\ nrotfail = 0 /\ Upstream = << >>

\* The last_commit of an epoch that the next set_last_commits leaves.
LC(e) == IF last_commit[e] # 0 THEN last_commit[e] ELSE mm.lc[e]

\* It is the newest commit of its epoch.
Current ==
    \A c \in CommitsIn(git) :
        /\ c.id <= LC(c.e) /\ c.id <= ids
        /\ \E d \in CommitsIn(git) : d.e = c.e /\ d.id = LC(c.e)

\* index_sync has nothing to do, msgmap and over have the same numbers, and the
\* messages in over are those the writer added.
Told ==
    Calm =>
        /\ todo = {} /\ Current
        /\ owner # "writer" \/ Past(AfterLc) => \A e \in Epochs : last_commit[e] = 0
        /\ \A n \in Nums : (cur.op = "add" /\ n = cur.num) \/ (ov[n] = NoBlob <=> mm.row[n] = NoMid)
        /\ cur.op = "add" => mm.row[cur.num] # NoMid
        /\ \A m \in Msgs : m \in acked \union added <=> HasMsg(ov, m)

\* What went wrong stays in the record.
LEMMA CalmBefore ==
  ASSUME VInv, [Next]_vars, Calm'
  PROVE  Calm
<1> USE DEF badVars
<1>1. ncrash \in Nat /\ nfail \in Nat /\ nrotfail \in Nat
  BY BoundAssumption DEF VInv, TypeOK
<1>2. CASE UNCHANGED <<ncrash, nfail, nrotfail>>
  BY <1>2 DEF Calm
<1>3. CASE Crash
  BY <1>1, <1>3 DEF Crash, Calm
<1>4. CASE GitFailsInDone
  BY <1>1, <1>4 DEF GitFailsInDone, Calm
<1>5. CASE GitFailsInImporter
  BY <1>1, <1>5 DEF GitFailsInImporter, Calm
<1>6. CASE \/ Writer \/ Indexer \/ fetch \/ OrphansExit \/ (\E s \in Shards : ShardStep(s)) \/ UNCHANGED vars
  BY <1>2, <1>6 DEF Writer, Indexer, add, remove, barrier, done, DoneIn, index_sync, index_oid, IndexOid,
     unindex_oid, UnindexOid, EndUnit, reindex_checkpoint, quit, QuitAt, Relock, fetch, OrphansExit,
     ShardStep, vars
<1>7. CASE \/ GitCommit \/ mm_commit \/ commit_lazy \/ commit_txn_lazy \/ ipc_wait_all
           \/ set_last_commits \/ add_epoch \/ Resume \/ release
  BY <1>2, <1>7 DEF GitCommit, mm_commit, commit_lazy, commit_txn_lazy, ipc_wait_all,
     set_last_commits, add_epoch, Resume, release
<1> QED  BY <1>3, <1>4, <1>5, <1>6, <1>7 DEF Next, Steps

\* Commits2git keeps last_commit current.
LEMMA CurrentKept ==
  ASSUME VInv, Current, NEW e \in Epochs, NEW op \in {"m", "d"}, NEW blobs \in Seq(Blobs),
         Commits2git(e, op, blobs), mm'.lc = mm.lc
  PROVE  Current'
<1>1. TypeOK
  BY DEF VInv
<1>2. /\ \A c : c \in CommitsIn(git') <=>
               \/ c \in CommitsIn(git)
               \/ \E i \in 1 .. Len(blobs) : c = [id |-> ids + i, e |-> e, op |-> op, b |-> blobs[i]]
      /\ ids' = ids + Len(blobs) /\ ids \in Nat /\ Len(blobs) \in Nat
      /\ \A f \in Epochs : last_commit'[f] = IF f = e /\ Len(blobs) # 0 THEN ids + Len(blobs)
                                             ELSE last_commit[f]
  BY <1>1, CommitsEffect
<1>3. \A c \in CommitsIn(git) : c.id \in Nat /\ c.e \in Epochs
  <2>1. git \in Seq(Commits)
    BY DEF VInv, TypeOK
  <2>2. \A c \in CommitsIn(git) : c \in Commits
    BY <2>1 DEF CommitsIn
  <2> QED  BY <2>2 DEF Commits
<1>4. CASE Len(blobs) = 0
  <2>1. \A c : c \in CommitsIn(git') <=> c \in CommitsIn(git)
    BY <1>2, <1>4
  <2>2. ids' = ids /\ \A f \in Epochs : LC(f)' = LC(f)
    BY <1>2, <1>4 DEF LC
  <2> QED  BY <1>3, <2>1, <2>2 DEF Current
<1>5. CASE Len(blobs) # 0
  <2>1. PICK j : j = ids + Len(blobs) /\ j \in Nat /\ j > ids
    BY <1>2, <1>5
  <2>2. LC(e)' = j /\ \A f \in Epochs : f # e => LC(f)' = LC(f)
    BY <1>2, <1>5, <2>1 DEF LC
  <2>3. PICK d : d \in CommitsIn(git') /\ d.e = e /\ d.id = j
    <3>1. Len(blobs) \in 1 .. Len(blobs)
      BY <1>2, <1>5
    <3>2. [id |-> ids + Len(blobs), e |-> e, op |-> op, b |-> blobs[Len(blobs)]] \in CommitsIn(git')
      BY <1>2, <3>1
    <3> QED  BY <2>1, <3>2
  <2>4. ASSUME NEW c \in CommitsIn(git)
        PROVE  c.id <= LC(c.e)' /\ c.id <= ids' /\ \E f \in CommitsIn(git') : f.e = c.e /\ f.id = LC(c.e)'
    <3>1. c.id <= LC(c.e) /\ c.id <= ids /\ \E f \in CommitsIn(git) : f.e = c.e /\ f.id = LC(c.e)
      BY DEF Current
    <3>2. CASE c.e = e
      BY <1>2, <1>3, <2>1, <2>2, <2>3, <3>1, <3>2
    <3>3. CASE c.e # e
      BY <1>2, <1>3, <2>1, <2>2, <3>1, <3>3
    <3> QED  BY <3>2, <3>3
  <2>5. ASSUME NEW i \in 1 .. Len(blobs), NEW c, c = [id |-> ids + i, e |-> e, op |-> op, b |-> blobs[i]]
        PROVE  c.id <= LC(c.e)' /\ c.id <= ids' /\ \E f \in CommitsIn(git') : f.e = c.e /\ f.id = LC(c.e)'
    <3>1. c.id = ids + i /\ c.e = e /\ ids + i <= j
      BY <1>2, <2>1, <2>5
    <3> QED  BY <1>2, <2>1, <2>2, <2>3, <3>1
  <2> QED  BY <1>2, <2>4, <2>5 DEF Current
<1> QED  BY <1>4, <1>5

\* mid_insert leaves last_commit alone.
LEMMA InsertKeeps ==
  ASSUME NEW d \in Msgmaps, NEW mid \in Mids, d.seq < MaxNum
  PROVE  /\ mid_insert(d, mid).lc = d.lc
         /\ \A n \in Nums : mid_insert(d, mid).row[n] = IF n = d.seq + 1 THEN mid ELSE d.row[n]
<1>1. DOMAIN d = {"row", "seq", "lc"} /\ d.row \in Rows
  BY DEF Msgmaps
<1>2. mid_insert(d, mid).lc = d.lc
  BY <1>1 DEF mid_insert
<1>3. mid_insert(d, mid).row = [d.row EXCEPT ![d.seq + 1] = mid]
  BY InsertFacts
<1> QED  BY <1>1, <1>2, <1>3 DEF Rows

\* With last_commit current, index_sync finds nothing to do.
LEMMA NothingToDo ==
  ASSUME VInv, Current, git = gitD, \A e \in Epochs : last_commit[e] = 0, NEW e
  PROVE  UnitsOf(e) = {}
<1>1. ASSUME NEW c \in CommitsOf(e)
      PROVE  Known(e, mm.lc[e]) /\ ~(c.id > mm.lc[e])
  <2>1. c \in CommitsIn(git) /\ c.e = e /\ c.e \in Epochs /\ c.id \in Nat /\ mm.lc[e] \in Nat
    <3>1. gitD \in Seq(Commits) /\ mm.lc \in [Epochs -> 0 .. MaxCommit]
      BY DEF VInv, TypeOK, Msgmaps
    <3>2. c \in CommitsIn(git) /\ c.e = e /\ c \in Commits
      BY <3>1 DEF CommitsOf, CommitsIn
    <3> QED  BY <3>1, <3>2, BoundAssumption DEF Commits
  <2>2. LC(e) = mm.lc[e]
    BY <2>1 DEF LC
  <2>3. c.id <= mm.lc[e] /\ \E d \in CommitsIn(git) : d.e = e /\ d.id = mm.lc[e]
    BY <2>1, <2>2 DEF Current
  <2>4. Known(e, mm.lc[e])
    BY <2>3 DEF Known, CommitsOf, CommitsIn
  <2> QED  BY <2>1, <2>3, <2>4
<1>2. log_range(e, mm.lc[e]) = {}
  BY <1>1 DEF log_range
<1> QED  BY <1>2 DEF UnitsOf, Newest

\* A step that changes nothing the writer is told.
LEMMA SameTold ==
  ASSUME VInv, Told, Calm, UNCHANGED <<git, ids, last_commit, ov, cur, mm>>, todo' = {},
         acked' \union added' = acked \union added,
         owner' # "writer" \/ Past(AfterLc)' => owner # "writer" \/ Past(AfterLc)
  PROVE  Told'
<1>1. /\ todo = {} /\ Current
      /\ owner # "writer" \/ Past(AfterLc) => \A e \in Epochs : last_commit[e] = 0
      /\ \A n \in Nums : (cur.op = "add" /\ n = cur.num) \/ (ov[n] = NoBlob <=> mm.row[n] = NoMid)
      /\ cur.op = "add" => mm.row[cur.num] # NoMid
      /\ \A m \in Msgs : m \in acked \union added <=> HasMsg(ov, m)
  BY DEF Told
<1>2. Current'
  BY <1>1 DEF Current, LC
<1>3. \A m \in Msgs : m \in acked' \union added' <=> HasMsg(ov, m)'
  BY <1>1
<1> QED  BY <1>1, <1>2, <1>3 DEF Told

\* A message gets its document and its row.
LEMMA AddTold ==
  ASSUME VInv, Told, Calm, NEW e \in Epochs, NEW b \in Blobs, NEW num \in Nums, AddTo(e, b.m, num, b.k),
         ov[num] = NoBlob, mm'.lc = mm.lc, mm'.row[num] # NoMid,
         \A n \in Nums : n # num => mm'.row[n] = mm.row[n] /\ ~(cur.op = "add" /\ n = cur.num),
         owner' = "writer", steps' = << >>, cur' = NoCall, UNCHANGED <<acked, todo>>
  PROVE  Told'
<1>1. /\ ov' = [ov EXCEPT ![num] = b] /\ added' = added \union {b.m}
  BY AddToEffect
<1>2. b = [m |-> b.m, k |-> b.k] /\ <<b>> \in Seq(Blobs)
  BY DEF Blobs
<1>3. Commits2git(e, "m", <<b>>)
  BY <1>2 DEF AddTo
<1>4. Current'
  BY <1>2, <1>3, CurrentKept DEF Told
<1>5. ~Past(AfterLc)' /\ cur'.op # "add"
  BY NotPast DEF NoCall
<1>6. \A m \in Msgs : HasMsg(ov, m)' <=> HasMsg(ov, m) \/ m = b.m
  BY <1>1, DocKeeps
<1>7. \A m \in Msgs : m \in acked' \union added' <=> HasMsg(ov, m)'
  BY <1>1, <1>6 DEF Told
<1>8. \A n \in Nums : ov'[n] = IF n = num THEN b ELSE ov[n]
  BY <1>1 DEF VInv, TypeOK, Tables
<1>9. \A n \in Nums : ov'[n] = NoBlob <=> mm'.row[n] = NoMid
  BY <1>8, BlobFacts DEF Told
<1> QED  BY <1>4, <1>5, <1>7, <1>9 DEF Told

\* All documents of a message go, with their rows.
LEMMA RemoveTold ==
  ASSUME VInv, Told, Calm, NEW e \in Epochs, NEW m \in Msgs, RemoveFrom(e, m), cur.op # "add",
         owner' = "writer", steps' = << >>, cur' = NoCall, UNCHANGED todo
  PROVE  Told'
<1>1. /\ mm'.lc = mm.lc /\ mm'.row = num_delete(mm.row, Matches(m)) /\ Matches(m) \in SUBSET Nums
      /\ ov' = [n \in Nums |-> IF n \in Matches(m) THEN NoBlob ELSE ov[n]]
      /\ added' = added \ {m} /\ acked' = acked \ {m}
  BY RemoveEffect
<1>2. Current'
  BY <1>1, RemoveEffect, CurrentKept DEF Told
<1>3. ~Past(AfterLc)' /\ cur'.op # "add"
  BY NotPast DEF NoCall
<1>4. \A n \in Nums : ov'[n] = NoBlob <=> mm'.row[n] = NoMid
  BY <1>1 DEF num_delete, Told
<1>5. \A n \in Matches(m) : ov[n].m = m
  BY DEF Matches
<1>6. \A o \in Msgs : o # m => (HasMsg(ov, o)' <=> HasMsg(ov, o))
  BY <1>1, <1>5, GoneKeeps
<1>7. ~HasMsg(ov, m)'
  <2>1. \A n \in Nums : ov[n] # NoBlob => InGit(ov[n])
    BY DEF VInv, Documents, Known1, BlobsIn, InGit, Calm
  <2>2. \A n \in Nums : ov[n] # NoBlob /\ ov[n].m = m => n \in Matches(m)
    BY <2>1 DEF Matches
  <2> QED  BY <1>1, <2>2 DEF HasMsg
<1>8. \A o \in Msgs : o \in acked' \union added' <=> HasMsg(ov, o)'
  BY <1>1, <1>6, <1>7 DEF Told
<1> QED  BY <1>2, <1>3, <1>4, <1>8 DEF Told

\* add tells the writer of one message more.
LEMMA AddCallTold ==
  ASSUME VInv, Told, Calm, NEW m \in Msgs, add(m)
  PROVE  Told'
<1>0. /\ owner' = "writer" /\ cur = NoCall /\ UNCHANGED <<acked, todo>> /\ cur.op # "add"
  BY AddCases DEF NoCall
<1>1. mm \in Msgmaps /\ ov \in Tables
  BY DEF VInv, TypeOK
<1>2. CASE /\ Duplicate(m) /\ added' = added \union {m} /\ steps' = << >>
           /\ UNCHANGED <<git, ids, mm, ov, xq, last_commit, cur>>
  <2>1. HasMsg(ov, m)
    BY <1>2 DEF Duplicate, Matches, HasMsg
  <2>2. m \in acked \union added
    BY <2>1 DEF Told
  <2>3. ~Past(AfterLc)'
    BY <1>0, <1>2, NotPast
  <2>4. acked' \union added' = acked \union added /\ todo' = {}
    BY <1>0, <1>2, <2>2 DEF Told
  <2> QED  BY <1>0, <1>2, <2>3, <2>4, SameTold
<1>3. ASSUME NEW num \in Nums, NEW b \in Blobs, NEW mid \in Mids, num = mm.seq + 1, mm.seq < MaxNum,
             mm' = mid_insert(mm, mid)
      PROVE  /\ ov[num] = NoBlob /\ mm'.lc = mm.lc /\ mm'.row[num] # NoMid
             /\ \A n \in Nums : n # num => mm'.row[n] = mm.row[n]
  <2>1. ov[num] = NoBlob
    BY <1>1, <1>3, NextNumber DEF IsDoc, Tables
  <2>2. /\ mm'.lc = mm.lc
        /\ \A n \in Nums : mm'.row[n] = IF n = num THEN mid ELSE mm.row[n]
    BY <1>1, <1>3, InsertKeeps
  <2> QED  BY <2>1, <2>2, BlobFacts
<1>4. ASSUME NEW num \in Nums, NEW b \in Blobs, NEW mid \in Mids, num = mm.seq + 1, mm.seq < MaxNum,
             mm' = mid_insert(mm, mid), NEW e \in Epochs, AddTo(e, b.m, num, b.k),
             steps' = << >>, cur' = NoCall
      PROVE  Told'
  <2>1. /\ ov[num] = NoBlob /\ mm'.lc = mm.lc /\ mm'.row[num] # NoMid
        /\ \A n \in Nums : n # num => mm'.row[n] = mm.row[n]
    BY <1>3, <1>4
  <2> QED  BY <1>0, <1>4, <2>1, AddTold
<1>5. ASSUME NEW num \in Nums, NEW b \in Blobs, NEW mid \in Mids, num = mm.seq + 1, mm.seq < MaxNum,
             mm' = mid_insert(mm, mid),
             cur' = [op |-> "add", m |-> b.m, num |-> num, k |-> b.k],
             steps' # << >> /\ Head(steps') = "gitdone",
             UNCHANGED <<git, ids, ov, xq, last_commit, added>>
      PROVE  Told'
  <2>1. /\ mm'.lc = mm.lc /\ mm'.row[num] # NoMid
        /\ \A n \in Nums : n # num => mm'.row[n] = mm.row[n]
    BY <1>3, <1>5
  <2>2. ~Past(AfterLc)'
    BY <1>0, <1>5, NotPast DEF Unsynced
  <2>3. cur'.op = "add" /\ cur'.num = num
    BY <1>5
  <2>4. Current'
    BY <1>5, <2>1 DEF Told, Current, LC
  <2>5. todo' = {} /\ \A n \in Nums : n = num \/ (ov'[n] = NoBlob <=> mm'.row[n] = NoMid)
    BY <1>0, <1>5, <2>1 DEF Told
  <2>6. \A o \in Msgs : o \in acked' \union added' <=> HasMsg(ov, o)'
    BY <1>0, <1>5 DEF Told
  <2>7. mm'.row[cur'.num] # NoMid
    BY <2>1, <2>3
  <2> QED  BY <1>0, <2>2, <2>3, <2>4, <2>5, <2>6, <2>7 DEF Told
<1> QED  BY <1>2, <1>4, <1>5, AddCases

\* What the writer is told stays true.
LEMMA ToldStep ==
  ASSUME VInv, Agreed, Told, [Next]_vars
  PROVE  Told'
<1> SUFFICES ASSUME Calm' PROVE Told'
  BY DEF Told
<1> USE DEF gitVars, mmVars, ovVars, xapVars, wrVars, ixVars, badVars
<1>0. Calm /\ todo = {} /\ Current /\ ncrash \in Nat /\ nfail \in Nat /\ nrotfail \in Nat
  BY CalmBefore, BoundAssumption DEF Told, VInv, TypeOK
<1>1. ASSUME NEW step, At(step), Advance, owner' = owner, step # "lc",
             UNCHANGED <<git, ids, last_commit, ov, cur, mm, todo, acked, added>>
      PROVE  Told'
  <2>1. Past(AfterLc)' => Past(AfterLc)
    BY <1>1, AdvancePast
  <2> QED  BY <1>0, <1>1, <2>1, SameTold
<1>2. CASE GitCommit \/ mm_commit \/ commit_lazy \/ commit_txn_lazy \/ ipc_wait_all \/ add_epoch
  <2>1. CASE GitCommit
    BY <1>1, <2>1 DEF GitCommit
  <2>2. CASE mm_commit \/ commit_lazy
    BY <1>1, <2>2 DEF mm_commit, commit_lazy
  <2>3. CASE commit_txn_lazy \/ ipc_wait_all \/ add_epoch
    BY <1>1, <2>3 DEF commit_txn_lazy, ipc_wait_all, add_epoch
  <2> QED  BY <1>2, <2>1, <2>2, <2>3
<1>3. CASE barrier \/ done
  <2>1. /\ owner' = "writer" /\ Head(steps') \in Unsynced
        /\ UNCHANGED <<git, ids, last_commit, ov, cur, mm, todo, acked, added>>
    BY <1>3, PlanBegins DEF barrier, done, DoneIn, Idle, May
  <2>2. ~Past(AfterLc)'
    BY <2>1, NotPast
  <2> QED  BY <1>0, <2>1, <2>2, SameTold
<1>4. CASE index_sync
  <2>1. owner = "none" /\ UNCHANGED <<git, ids, last_commit, ov, cur, mm, acked, added>>
        /\ todo' = UNION {UnitsOf(e) : e \in 0 .. epochs}
    BY <1>4 DEF index_sync
  <2>2. git = gitD /\ \A e \in Epochs : last_commit[e] = 0
    BY <1>0, <2>1 DEF VInv, Durable, Told
  <2>3. todo' = {}
    BY <1>0, <2>1, <2>2, NothingToDo
  <2> QED  BY <1>0, <2>1, <2>3, SameTold
<1>5. CASE Relock \/ OrphansExit
  <2>1. owner # "writer" /\ UNCHANGED <<git, ids, last_commit, ov, cur, mm, todo, acked, added>>
    BY <1>5 DEF Relock, OrphansExit
  <2> QED  BY <1>0, <2>1, SameTold
<1>6. CASE release
  <2>1. Past(AfterLc)
    <3>1. steps # << >> /\ Head(steps) = "release"
      BY <1>6, AtFacts DEF release
    <3> QED  BY <3>1 DEF Past, Next1, AfterLc
  <2>2. UNCHANGED <<git, ids, last_commit, ov, cur, mm, todo>>
        /\ acked' \union added' = acked \union added
    BY <1>6 DEF release
  <2> QED  BY <1>0, <2>1, <2>2, SameTold
<1>7. CASE set_last_commits
  <2>0. UNCHANGED <<git, ids, ov, cur, todo, acked, added, owner>> /\ mm'.row = mm.row
    BY <1>7, UpdatedRows DEF set_last_commits
  <2>1. owner \in {"writer", "index"} /\ steps' = Tail(steps)
    BY <1>7, AtFacts DEF set_last_commits, Advance
  <2>2. mm \in Msgmaps /\ last_commit \in [Epochs -> 0 .. MaxCommit]
    BY DEF VInv, TypeOK
  <2>3. \A e \in Epochs : LC(e)' = LC(e)
    <3>1. CASE owner = "writer"
      <4>1. mm'.lc = [e \in Epochs |-> IF last_commit[e] # 0 THEN last_commit[e] ELSE mm.lc[e]]
        BY <1>7, <2>2, <3>1 DEF set_last_commits, Msgmaps
      <4>2. \A e \in Epochs : last_commit'[e] = 0
        BY <1>7, <3>1 DEF set_last_commits
      <4> QED  BY <4>1, <4>2 DEF LC
    <3>2. CASE owner # "writer"
      BY <1>7, <3>2 DEF set_last_commits, LC
    <3> QED  BY <3>1, <3>2
  <2>4. \A e \in Epochs : last_commit'[e] = 0
    <3>1. CASE owner = "writer"
      BY <1>7, <3>1 DEF set_last_commits
    <3>2. CASE owner # "writer"
      BY <1>0, <1>7, <3>2 DEF set_last_commits, Told
    <3> QED  BY <3>1, <3>2
  <2>5. Current'
    <3>1. \A c \in CommitsIn(git) : c \in Commits
      BY DEF VInv, TypeOK, CommitsIn
    <3>2. \A c \in CommitsIn(git) : c.e \in Epochs
      BY <3>1 DEF Commits
    <3> QED  BY <1>0, <2>0, <2>3, <3>2 DEF Current
  <2>6. \A m \in Msgs : m \in acked' \union added' <=> HasMsg(ov, m)'
    BY <1>0, <2>0 DEF Told
  <2>7. \A n \in Nums : (cur'.op = "add" /\ n = cur'.num) \/ (ov'[n] = NoBlob <=> mm'.row[n] = NoMid)
    BY <1>0, <2>0 DEF Told
  <2>8. cur'.op = "add" => mm'.row[cur'.num] # NoMid
    BY <1>0, <2>0 DEF Told
  <2> QED  BY <1>0, <2>0, <2>4, <2>5, <2>6, <2>7, <2>8 DEF Told
<1>8. ASSUME NEW m \in Msgs, remove(m)
      PROVE  Told'
  <2>0. owner' = "writer" /\ cur = NoCall /\ UNCHANGED todo /\ cur.op # "add"
    BY <1>8, RemoveCases DEF NoCall
  <2>1. CASE (\E e \in Epochs : RemoveFrom(e, m)) /\ steps' = << >> /\ cur' = NoCall
    BY <1>0, <2>0, <2>1, RemoveTold
  <2>2. CASE /\ cur'.op = "remove" /\ steps' # << >> /\ Head(steps') = "gitdone"
             /\ UNCHANGED <<git, ids, mm, ov, xq, last_commit, added, acked>>
    <3>1. ~Past(AfterLc)'
      BY <2>0, <2>2, NotPast DEF Unsynced
    <3>2. Current'
      BY <1>0, <2>2 DEF Current, LC
    <3>3. \A n \in Nums : ov'[n] = NoBlob <=> mm'.row[n] = NoMid
      BY <1>0, <2>0, <2>2 DEF Told
    <3>4. \A o \in Msgs : o \in acked' \union added' <=> HasMsg(ov, o)'
      BY <1>0, <2>2 DEF Told
    <3> QED  BY <1>0, <2>0, <2>2, <3>1, <3>2, <3>3, <3>4 DEF Told
  <2> QED  BY <1>8, <2>1, <2>2, RemoveCases
<1>9. CASE Resume
  <2>0. owner' = "writer" /\ steps' = << >> /\ cur' = NoCall /\ todo' = todo
    BY <1>9, ResumeCases
  <2>1. CASE /\ cur.op = "add" /\ UNCHANGED <<mm, acked>>
             /\ \E num \in Nums, b \in Blobs, e \in Epochs : num = cur.num /\ AddTo(e, b.m, num, b.k)
    <3>1. PICK num \in Nums, b \in Blobs, e \in Epochs : num = cur.num /\ AddTo(e, b.m, num, b.k)
      BY <2>1
    <3>2. ov[num] = NoBlob
      BY <2>1, <3>1 DEF Agreed, IsDoc, VInv, TypeOK, Tables
    <3>3. mm'.row[num] # NoMid
      BY <1>0, <2>1, <3>1 DEF Told
    <3> QED  BY <1>0, <2>0, <2>1, <3>1, <3>2, <3>3, AddTold
  <2>2. CASE cur.op = "remove" /\ \E e \in Epochs, m \in Msgs : RemoveFrom(e, m)
    BY <1>0, <2>0, <2>2, RemoveTold
  <2> QED  BY <1>9, <2>1, <2>2, ResumeCases
<1>10. CASE fetch
  BY <1>0, <1>10, BoundAssumption DEF fetch, Calm, VInv, TypeOK
<1>11. CASE index_oid \/ unindex_oid \/ EndUnit \/ reindex_checkpoint \/ quit
  BY <1>0, <1>11 DEF index_oid, unindex_oid, EndUnit, reindex_checkpoint, quit
<1>12. CASE GitFailsInDone \/ GitFailsInImporter \/ Crash
  BY <1>0, <1>12 DEF GitFailsInDone, GitFailsInImporter, Crash, Calm
<1>13. CASE (\E s \in Shards : ShardStep(s)) \/ UNCHANGED vars
  <2>1. UNCHANGED <<git, ids, last_commit, ov, cur, mm, todo, acked, added, owner, steps>>
    BY <1>13 DEF ShardStep, vars
  <2> QED  BY <1>0, <2>1, SameTold DEF Past, Next1
<1> QED  BY <1>0, <1>2, <1>3, <1>4, <1>5, <1>6, <1>7, <1>8, <1>9, <1>10, <1>11, <1>12, <1>13, AddCallTold
         DEF Next, Writer, Steps, Indexer

\* Queues and tables are empty when an inbox was just created.
LEMMA ToldInit ==
  ASSUME Init
  PROVE  Queued /\ Told
<1> USE DEF Init
<1>1. \A s \in Shards : 1 .. Len(xq[s]) = {}
  OBVIOUS
<1>2. \A n \in Nums : idx_shard(n) \in Shards
  BY ShardOf
<1>3. Queued
  BY <1>1, <1>2 DEF Queued, Follows, Flushes, NoDocs
<1>4. CommitsIn(git) = {}
  BY DEF CommitsIn
<1>5. Current
  BY <1>4 DEF Current
<1>6. \A m \in Msgs : ~HasMsg(ov, m)
  BY DEF HasMsg, NoDocs
<1>7. cur.op # "add"
  BY DEF NoCall
<1>8. Told
  BY <1>5, <1>6, <1>7 DEF Told, NoDocs, NoRows
<1> QED  BY <1>3, <1>8

\* The shards get what over.sqlite3 shows, and while nothing goes wrong msgmap,
\* over and what the writer was told agree.
THEOREM ToldHolds == Spec => [](Queued /\ Told)
<1>1. Init => Queued /\ Told
  BY ToldInit
<1>2. VInv /\ Agreed /\ Queued /\ Told /\ [Next]_vars => Queued' /\ Told'
  BY QueuedStep, ToldStep
<1> QED  BY <1>1, <1>2, InboxInvariant, AgreedHolds, PTL DEF Spec

\* When the lock is free and nothing ever went wrong, the Xapian shards,
\* over.sqlite3 and msgmap.sqlite3 agree with each other and with what done told
\* the writer, and last_commit covers all of git.
THEOREM DoneMeansIndexedHolds == Spec => []DoneMeansIndexed
<1>1. VInv /\ OnDisk /\ Kept /\ Queued /\ Told => DoneMeansIndexed
  <2> SUFFICES ASSUME VInv, OnDisk, Kept, Queued, Told, owner = "none",
                      ncrash + nfail + nrotfail = 0, Upstream = << >>
               PROVE  /\ xapD = ovD /\ acked = Shown
                      /\ \A n \in Nums : ovD[n] = NoBlob <=> mmD.row[n] = NoMid
                      /\ Covered = 1 .. Len(gitD)
    BY DEF DoneMeansIndexed, Quiet
  <2>1. Calm
    BY BoundAssumption DEF Calm, VInv, TypeOK
  <2>2. ov = ovD /\ mm = mmD /\ Drained /\ Past(AfterXap) /\ git = gitD /\ cur = NoCall
    <3>1. steps = << >> /\ git = gitD
      BY DEF VInv, Flow, Durable
    <3>2. cur = NoCall
      BY DEF VInv, Flow
    <3> QED  BY <3>1, <3>2 DEF OnDisk, Past
  <2>3. xapD = ovD
    <3>1. \A n \in Nums : xapD[n] = ovD[n]
      BY <2>1, <2>2, DrainedFacts DEF Calm
    <3> QED  BY <3>1 DEF VInv, TypeOK, Tables
  <2>4. acked = Shown
    <3>1. acked \subseteq Msgs /\ \A m \in Msgs : m \in acked <=> HasMsg(ovD, m)
      <4>1. added = {}
        BY DEF Kept
      <4>2. \A m \in Msgs : m \in acked \union added <=> HasMsg(ov, m)
        BY <2>1 DEF Told
      <4>3. acked \subseteq Msgs
        BY DEF VInv, TypeOK
      <4> QED  BY <2>2, <4>1, <4>2, <4>3
    <3>2. \A n \in Nums : ovD[n] # NoBlob => ovD[n].m \in Msgs
      BY DEF VInv, TypeOK, Tables, Blobs
    <3> QED  BY <3>1, <3>2 DEF HasMsg, Shown
  <2>5. \A n \in Nums : ovD[n] = NoBlob <=> mmD.row[n] = NoMid
    BY <2>1, <2>2 DEF Told, NoCall
  <2>6. Covered = 1 .. Len(gitD)
    <3> SUFFICES ASSUME NEW i \in 1 .. Len(gitD) PROVE gitD[i].id <= mmD.lc[gitD[i].e]
      BY DEF Covered
    <3>1. gitD[i] \in CommitsIn(git) /\ gitD[i].e \in Epochs
      <4>1. gitD \in Seq(Commits)
        BY DEF VInv, TypeOK
      <4>2. gitD[i] \in Commits
        BY <4>1
      <4> QED  BY <2>2, <4>2 DEF CommitsIn, Commits
    <3>2. gitD[i].id <= LC(gitD[i].e) /\ last_commit[gitD[i].e] = 0
      BY <2>1, <3>1 DEF Told, Current
    <3> QED  BY <2>2, <3>2 DEF LC
  <2> QED  BY <2>3, <2>4, <2>5, <2>6
<1> QED  BY <1>1, InboxInvariant, KeptHolds, ToldHolds, PTL

-----------------------------------------------------------------------------
(* Mirrors. *)

\* The inbox is a mirror, and different blobs of the inbox it mirrors have
\* different Message-IDs.
PlainMirror ==
    /\ Upstream # << >>
    /\ \A i, j \in 1 .. Len(Upstream) :
         Mid[Upstream[i].b.m] = Mid[Upstream[j].b.m] => Upstream[i].b = Upstream[j].b

\* Nobody writes to a mirror: its commits are those that were fetched.
Fetched ==
    /\ owner # "writer" /\ epochs = 0 /\ ids = Len(git) /\ nfail = 0 /\ nrotfail = 0
    /\ ids <= Len(Upstream)
    /\ \A i \in 1 .. Len(git) : git[i] = [id |-> i, e |-> 0, op |-> Upstream[i].op, b |-> Upstream[i].b]

\* The unit of index_sync between commits a and t.
Between(a, t) == [e |-> 0, tip |-> t, left |-> {git[i] : i \in a + 1 .. t}]

\* index_sync has dealt with the first a commits.
Position(a) ==
    /\ todo = {} \/ \E t \in a .. Len(git) : todo = {Between(a, t)}
    /\ IF latest = 0 THEN mm.lc[0] = a ELSE latest = a
    /\ todo = {} \/ owner # "index" \/ steps # << >> => mm.lc[0] = a

\* Only a call of the writer waits for a new epoch.
LEMMA AddEpochFacts ==
  ASSUME VInv, add_epoch
  PROVE  cur # NoCall
<1>1. At("epoch") /\ steps # << >> /\ Head(steps) = "epoch"
  BY AtFacts DEF add_epoch
<1>2. steps' = Tail(steps) /\ steps' # << >>
  BY <1>1, AtFacts DEF VInv, Flow, add_epoch, Advance
<1>3. Head(steps') = "resume" /\ steps' \in Seq(StepNames) /\ Ordered(steps')
  BY <1>1, <1>2, AtFacts DEF StepOrder
<1>4. Len(steps') = 1 /\ Head(steps') = steps'[1]
  <2>1. \A st \in Seq(StepNames) : st # << >> => Head(st) = st[1]
    OBVIOUS
  <2> QED  BY <1>2, <1>3, <2>1, LastSteps
<1>5. steps[Len(steps)] = "resume"
  BY <1>1, <1>2, <1>3, <1>4, AtFacts
<1> QED  BY <1>1, <1>5 DEF VInv, Flow, Ends

\* Nobody writes to a mirror.
LEMMA MirrorNever ==
  ASSUME Upstream # << >>, VInv, Fetched
  PROVE  ~Writer /\ ~GitFailsInDone /\ ~GitFailsInImporter /\ ~Resume /\ ~add_epoch
<1>0. owner # "writer" /\ git = gitD /\ cur = NoCall
  BY DEF Fetched, VInv, Flow, Durable
<1>1. ~Writer
  BY <1>0 DEF Writer, add, remove, barrier, done, DoneIn, Idle, May
<1>2. ~Resume
  BY <1>0, ResumeCases
<1>3. ~add_epoch
  BY <1>0, AddEpochFacts
<1> QED  BY <1>0, <1>1, <1>2, <1>3 DEF GitFailsInDone, GitFailsInImporter

\* A mirror stays one.
LEMMA FetchedStep ==
  ASSUME Upstream # << >>, VInv, Fetched, [Next]_vars
  PROVE  Fetched'
<1> USE DEF gitVars, mmVars, ovVars, xapVars, wrVars, ixVars, badVars
<1>0. /\ owner # "writer" /\ git = gitD /\ cur = NoCall /\ git \in Seq(Commits)
      /\ epochs = 0 /\ ids = Len(git) /\ nfail = 0 /\ nrotfail = 0
  BY DEF Fetched, VInv, TypeOK, Flow, Durable
<1>1. CASE owner' # "writer" /\ UNCHANGED <<git, ids, epochs, nfail, nrotfail>>
  BY <1>1 DEF Fetched
<1>2. CASE fetch
  <2> DEFINE c == [id |-> ids + 1, e |-> 0, op |-> Upstream[ids + 1].op, b |-> Upstream[ids + 1].b]
  <2>1. /\ git' = Append(git, c) /\ ids' = ids + 1 /\ ids < Len(Upstream)
        /\ UNCHANGED <<owner, epochs, nfail, nrotfail>>
    BY <1>2 DEF fetch
  <2> HIDE DEF c
  <2>2. Len(git') = Len(git) + 1 /\ git'[Len(git) + 1] = c /\ \A i \in 1 .. Len(git) : git'[i] = git[i]
    BY <1>0, <2>1
  <2>3. Len(Upstream) \in Nat /\ Len(git) \in Nat
    BY <1>0, MsgAssumption
  <2>4. \A i \in 1 .. Len(git') : i \in 1 .. Len(git) \/ i = Len(git) + 1
    BY <2>2, <2>3
  <2>5. \A i \in 1 .. Len(git') : git'[i] = [id |-> i, e |-> 0, op |-> Upstream[i].op, b |-> Upstream[i].b]
    <3> SUFFICES ASSUME NEW i \in 1 .. Len(git')
                 PROVE  git'[i] = [id |-> i, e |-> 0, op |-> Upstream[i].op, b |-> Upstream[i].b]
      OBVIOUS
    <3>1. CASE i \in 1 .. Len(git)
      BY <2>2, <3>1 DEF Fetched
    <3>2. CASE i = Len(git) + 1
      BY <1>0, <2>2, <3>2 DEF c
    <3> QED  BY <2>4, <3>1, <3>2
  <2> QED  BY <1>0, <2>1, <2>2, <2>3, <2>5 DEF Fetched
<1>3. ~Writer /\ ~GitFailsInDone /\ ~GitFailsInImporter /\ ~Resume /\ ~add_epoch
  BY MirrorNever
<1>5. CASE \/ GitCommit \/ mm_commit \/ commit_lazy \/ commit_txn_lazy \/ ipc_wait_all
           \/ set_last_commits \/ release
  BY <1>0, <1>1, <1>5 DEF GitCommit, mm_commit, commit_lazy, commit_txn_lazy, ipc_wait_all,
     set_last_commits, release
<1>6. CASE Indexer
  BY <1>0, <1>1, <1>6, IndexOidCases, UnindexOidCases DEF Indexer, index_sync, EndUnit,
     reindex_checkpoint, quit, QuitAt, Relock
<1>7. CASE Crash \/ OrphansExit \/ (\E s \in Shards : ShardStep(s)) \/ UNCHANGED vars
  BY <1>0, <1>1, <1>7 DEF Crash, OrphansExit, ShardStep, vars
<1> QED  BY <1>2, <1>3, <1>5, <1>6, <1>7 DEF Next, Steps

\* Commits are numbered as they were fetched.
LEMMA FetchedFacts ==
  ASSUME VInv, Fetched
  PROVE  /\ git = gitD /\ git \in Seq(Commits) /\ Len(git) \in Nat /\ Len(git) <= Len(Upstream)
         /\ \A i \in 1 .. Len(git) : /\ git[i].id = i /\ git[i].e = 0 /\ git[i].op = Upstream[i].op
                                     /\ git[i].b = Upstream[i].b /\ git[i].b \in Blobs
<1>1. git = gitD /\ git \in Seq(Commits) /\ Len(git) <= Len(Upstream)
  BY DEF VInv, TypeOK, Fetched, Durable
<1>2. Len(git) \in Nat
  BY <1>1
<1>3. ASSUME NEW i \in 1 .. Len(git)
      PROVE  /\ git[i].id = i /\ git[i].e = 0 /\ git[i].op = Upstream[i].op
             /\ git[i].b = Upstream[i].b /\ git[i].b \in Blobs
  <2>1. git[i] = [id |-> i, e |-> 0, op |-> Upstream[i].op, b |-> Upstream[i].b]
    BY DEF Fetched
  <2>2. git[i] \in Commits
    BY <1>1
  <2>3. git[i].b \in Blobs
    BY <2>2 DEF Commits
  <2> QED  BY <2>1, <2>3
<1> QED  BY <1>1, <1>2, <1>3

\* index_sync finds the commits after last_commit.
LEMMA UnitsBetween ==
  ASSUME VInv, Fetched, NEW a \in 0 .. Len(git), mm.lc[0] = a
  PROVE  UnitsOf(0) = IF a = Len(git) THEN {} ELSE {Between(a, Len(git))}
<1>0. git = gitD /\ Len(git) \in Nat
  BY FetchedFacts
<1>1. \A i \in 1 .. Len(git) : git[i].id = i /\ git[i].e = 0
  BY FetchedFacts
<1>2. CommitsOf(0) = {git[i] : i \in 1 .. Len(git)}
  BY <1>0, <1>1 DEF CommitsOf
<1>3. a # 0 => Known(0, a)
  <2>1. a # 0 => a \in 1 .. Len(git)
    BY <1>0
  <2> QED  BY <1>1, <1>2, <2>1 DEF Known
<1>4. log_range(0, a) = {git[i] : i \in a + 1 .. Len(git)}
  <2>1. \A i \in 1 .. Len(git) : (Known(0, a) => i > a) <=> i \in a + 1 .. Len(git)
    BY <1>0, <1>3
  <2>2. \A i \in a + 1 .. Len(git) : i \in 1 .. Len(git)
    BY <1>0
  <2> QED  BY <1>1, <1>2, <2>1, <2>2 DEF log_range
<1> DEFINE cs == {git[i] : i \in a + 1 .. Len(git)}
<1>5. UnitsOf(0) = {[e |-> 0, tip |-> c.id, left |-> cs] : c \in Newest(cs)}
  BY <1>4 DEF UnitsOf
<1>6. CASE a = Len(git)
  <2>1. cs = {}
    BY <1>0, <1>6
  <2> QED  BY <1>5, <1>6, <2>1 DEF Newest
<1>7. CASE a # Len(git)
  <2>1. Len(git) \in a + 1 .. Len(git) /\ \A i \in a + 1 .. Len(git) : i \in 1 .. Len(git) /\ i <= Len(git)
    BY <1>0, <1>7
  <2>2. git[Len(git)] \in cs /\ git[Len(git)].id = Len(git) /\ \A c \in cs : c.id <= Len(git)
    BY <1>1, <2>1
  <2>3. \A c \in cs : c.id >= Len(git) => c = git[Len(git)]
    <3> SUFFICES ASSUME NEW i \in a + 1 .. Len(git), git[i].id >= Len(git) PROVE i = Len(git)
      OBVIOUS
    <3> QED  BY <1>0, <1>1, <2>1
  <2>4. Newest(cs) = {git[Len(git)]}
    <3> HIDE DEF cs
    <3>1. \A c \in Newest(cs) : c \in cs /\ c.id >= Len(git)
      BY <2>2 DEF Newest
    <3>2. git[Len(git)] \in Newest(cs)
      BY <2>2 DEF Newest, cs
    <3> QED  BY <2>3, <3>1, <3>2
  <2> QED  BY <1>5, <1>7, <2>2, <2>4 DEF Between
<1> QED  BY <1>6, <1>7

\* The next commit of the unit at work is the one after those dealt with.
LEMMA TakenStep ==
  ASSUME VInv, Fetched, NEW a \in 0 .. Len(git), Position(a),
         NEW u \in todo, NEW c \in NextCommit(u), PopCommit(u, c), latest' = c.id,
         owner = "index", steps = << >>, UNCHANGED <<git, owner, steps>>
  PROVE  a + 1 \in 1 .. Len(git) /\ c = git[a + 1] /\ Position(a + 1)'
<1>0. Len(git) \in Nat /\ \A i \in 1 .. Len(git) : git[i].id = i
  BY FetchedFacts
<1>1. PICK t \in a .. Len(git) : todo = {Between(a, t)} /\ u = Between(a, t)
  BY DEF Position
<1>2. u.left = {git[i] : i \in a + 1 .. t}
  BY <1>1 DEF Between
<1>3. PICK i \in a + 1 .. t : c = git[i] /\ \A j \in a + 1 .. t : c.id <= git[j].id
  BY <1>2 DEF NextCommit, Oldest
<1>4. a + 1 \in a + 1 .. t /\ i \in 1 .. Len(git) /\ a + 1 \in 1 .. Len(git)
  BY <1>0, <1>3
<1>5. i = a + 1
  BY <1>0, <1>3, <1>4
<1>6. u.left \ {c} = {git[j] : j \in a + 2 .. t}
  <2>1. \A j \in a + 1 .. t : j = a + 1 \/ j \in a + 2 .. t
    BY <1>0
  <2>2. \A j \in a + 2 .. t : j \in a + 1 .. t /\ j \in 1 .. Len(git) /\ j # a + 1
    BY <1>0
  <2>3. \A j \in a + 2 .. t : git[j] # c
    BY <1>0, <1>3, <1>4, <1>5, <2>2
  <2>4. c = git[a + 1]
    BY <1>3, <1>5
  <2>5. ASSUME NEW x \in u.left, x # c PROVE x \in {git[j] : j \in a + 2 .. t}
    BY <1>2, <2>1, <2>4, <2>5
  <2>6. ASSUME NEW j \in a + 2 .. t PROVE git[j] \in u.left /\ git[j] # c
    BY <1>2, <2>2, <2>3
  <2> QED  BY <2>5, <2>6
<1>7. [u EXCEPT !.left = u.left \ {c}] = Between(a + 1, t)'
  <2>1. a + 1 + 1 = a + 2
    BY <1>0
  <2>2. Between(a + 1, t)' = [e |-> 0, tip |-> t, left |-> {git[j] : j \in a + 2 .. t}]
    BY <2>1 DEF Between
  <2>3. \A x, y : [[e |-> 0, tip |-> t, left |-> x] EXCEPT !.left = y] = [e |-> 0, tip |-> t, left |-> y]
    OBVIOUS
  <2>4. [u EXCEPT !.left = u.left \ {c}] = [e |-> 0, tip |-> t, left |-> u.left \ {c}]
    BY <1>1, <2>3 DEF Between
  <2> QED  BY <1>6, <2>2, <2>4
<1>8. todo' = {Between(a + 1, t)'}
  BY <1>1, <1>7 DEF PopCommit
<1>9. t \in a + 1 .. Len(git') /\ latest' = a + 1 /\ todo' # {}
  BY <1>0, <1>3, <1>4, <1>5, <1>8
<1> QED  BY <1>3, <1>4, <1>5, <1>8, <1>9 DEF Position

\* A step other than taking a commit and being killed: index_sync stays where
\* it is, and says so in msgmap before it gives the lock away.
LEMMA SettledStep ==
  ASSUME Upstream # << >>, VInv, Fetched, NEW a \in 0 .. Len(git), Position(a), [Next]_vars,
         ~index_oid, ~unindex_oid, ~Crash
  PROVE  /\ a \in 0 .. Len(git') /\ Position(a)'
         /\ Len(git) <= Len(git') /\ \A i \in 1 .. Len(git) : git'[i] = git[i]
         /\ ov' = ov /\ mm'.row = mm.row /\ mm'.seq = mm.seq /\ ncrash' = ncrash
         /\ mm_tmp' \in {mm_tmp, mm.row} /\ ovD' \in {ovD, ov}
         /\ mmD' = mmD \/ (mmD' = mm /\ mm.lc[0] = a)
<1> USE DEF gitVars, mmVars, ovVars, xapVars, wrVars, ixVars, badVars
<1>0. /\ owner # "writer" /\ cur = NoCall /\ epochs = 0 /\ Len(git) \in Nat /\ git \in Seq(Commits)
      /\ mm \in Msgmaps /\ latest \in 0 .. MaxCommit
  BY FetchedFacts DEF Fetched, VInv, TypeOK, Flow
<1>1. CASE /\ UNCHANGED <<git, mm, ov, todo, latest, mm_tmp, ncrash>> /\ ovD' \in {ovD, ov}
           /\ mmD' = mmD \/ (mmD' = mm /\ steps # << >>)
           /\ owner # "index" \/ steps # << >> \/ (owner' = "index" /\ steps' = << >>)
  <2>1. Position(a)'
    BY <1>1 DEF Position, Between
  <2> QED  BY <1>0, <1>1, <2>1 DEF Position
<1>2. CASE \/ GitCommit \/ mm_commit \/ commit_lazy \/ commit_txn_lazy \/ ipc_wait_all
           \/ set_last_commits \/ release
  <2>1. steps # << >>
    BY <1>2 DEF GitCommit, mm_commit, commit_lazy, commit_txn_lazy, ipc_wait_all, set_last_commits,
       release, At
  <2>2. CASE set_last_commits
    BY <1>0, <1>1, <2>1, <2>2 DEF set_last_commits
  <2>3. CASE ~set_last_commits
    BY <1>1, <1>2, <2>1, <2>3 DEF GitCommit, mm_commit, commit_lazy, commit_txn_lazy, ipc_wait_all, release
  <2> QED  BY <2>2, <2>3
<1>3. CASE OrphansExit \/ Relock \/ (\E s \in Shards : ShardStep(s)) \/ UNCHANGED vars
  <2>1. CASE OrphansExit
    BY <1>1, <2>1 DEF OrphansExit
  <2>2. CASE Relock
    BY <1>1, <2>2 DEF Relock
  <2>3. CASE (\E s \in Shards : ShardStep(s)) \/ UNCHANGED vars
    BY <1>1, <2>3 DEF ShardStep, vars
  <2> QED  BY <1>3, <2>1, <2>2, <2>3
<1>4. CASE fetch
  <2>1. PICK c : git' = Append(git, c)
    BY <1>4 DEF fetch
  <2>2. UNCHANGED <<mm, mmD, ov, ovD, todo, latest, mm_tmp, ncrash, owner, steps>>
    BY <1>4 DEF fetch
  <2>3. Len(git') = Len(git) + 1 /\ \A i \in 1 .. Len(git) : git'[i] = git[i]
    BY <1>0, <2>1
  <2>4. ASSUME NEW t \in a .. Len(git)
        PROVE  Between(a, t)' = Between(a, t) /\ t \in a .. Len(git')
    <3>1. \A i \in a + 1 .. t : git'[i] = git[i]
      BY <1>0, <2>3
    <3>2. {git'[i] : i \in a + 1 .. t} = {git[i] : i \in a + 1 .. t}
      BY <3>1
    <3>3. t \in a .. Len(git')
      BY <1>0, <2>3
    <3> QED  BY <3>2, <3>3 DEF Between
  <2>5. Position(a)'
    BY <2>2, <2>4 DEF Position
  <2> QED  BY <1>0, <2>2, <2>3, <2>5
<1>5. CASE index_sync
  <2>1. owner = "none" /\ mm.lc[0] = a
    BY <1>5 DEF index_sync, Position
  <2>2. UNCHANGED <<git, mm, mmD, ov, ovD, ncrash>> /\ latest' = 0 /\ mm_tmp' = mm.row
    BY <1>5 DEF index_sync
  <2>3. todo' = UnitsOf(0)
    <3>1. 0 .. epochs = {0}
      BY <1>0
    <3> QED  BY <1>5, <3>1 DEF index_sync
  <2>4. todo' = {} \/ todo' = {Between(a, Len(git))}
    BY <2>1, <2>3, UnitsBetween
  <2>5. Between(a, Len(git))' = Between(a, Len(git)) /\ Len(git) \in a .. Len(git')
    BY <1>0, <2>2 DEF Between
  <2>6. Position(a)'
    BY <2>1, <2>2, <2>4, <2>5 DEF Position
  <2> QED  BY <1>0, <2>2, <2>6
<1>6. ASSUME NEW u \in todo, NEW id \in 0 .. MaxCommit, update_last_commit(u, id),
             IF id = 0 THEN mm.lc[0] = a ELSE id = a,
             UNCHANGED <<git, mmD, ov, ovD, mm_tmp, ncrash>>,
             todo' = {} \/ UNCHANGED todo, latest' \in {0, latest}
      PROVE  /\ a \in 0 .. Len(git') /\ Position(a)'
             /\ mm'.row = mm.row /\ mm'.seq = mm.seq
  <2>1. u.e = 0
    BY DEF Position, Between
  <2>2. mm'.row = mm.row /\ mm'.seq = mm.seq /\ mm'.lc[0] = a
    <3>1. mm.lc \in [Epochs -> 0 .. MaxCommit] /\ 0 \in Epochs
      BY <1>0, ShapeAssumption DEF Msgmaps, Epochs
    <3>2. CASE id = 0
      BY <1>6, <3>2 DEF update_last_commit
    <3>3. CASE id # 0
      BY <1>0, <1>6, <2>1, <3>1, <3>3 DEF update_last_commit, Msgmaps
    <3> QED  BY <3>2, <3>3
  <2>3. todo' = {} \/ \E t \in a .. Len(git) : todo' = {Between(a, t)}
    BY <1>6 DEF Position
  <2>4. \A t : Between(a, t)' = Between(a, t)
    BY <1>6 DEF Between
  <2>5. Position(a)'
    BY <1>6, <2>2, <2>3, <2>4 DEF Position
  <2> QED  BY <1>0, <1>6, <2>2, <2>5
<1>7. CASE EndUnit
  <2>1. PICK u \in todo : Working(u) /\ u.left = {} /\ update_last_commit(u, u.tip) /\ todo' = todo \ {u}
    BY <1>7 DEF EndUnit
  <2>2. PICK t \in a .. Len(git) : todo = {Between(a, t)} /\ u = Between(a, t)
    BY DEF Position
  <2>3. u.tip = a /\ u.tip \in 1 .. MaxCommit
    <3>1. u.tip = t /\ u.left = {git[i] : i \in a + 1 .. t}
      BY <2>2 DEF Between
    <3>2. a + 1 .. t = {}
      BY <2>1, <3>1
    <3>3. u.tip \in 1 .. MaxCommit
      BY DEF VInv, TypeOK, Units
    <3>4. ~(a + 1 <= t) /\ a <= t
      BY <1>0, <3>2
    <3> QED  BY <1>0, <3>1, <3>3, <3>4
  <2>4. todo' = {}
    BY <2>1, <2>2
  <2> QED  BY <1>0, <1>6, <1>7, <2>1, <2>3, <2>4 DEF EndUnit
<1>8. CASE reindex_checkpoint
  <2>1. PICK u \in todo : update_last_commit(u, latest)
    BY <1>8 DEF reindex_checkpoint
  <2> QED  BY <1>0, <1>6, <1>8, <2>1 DEF reindex_checkpoint, Position
<1>9. CASE quit
  <2>1. PICK u \in todo : update_last_commit(u, latest) /\ todo' = {} /\ latest' = 0
    BY <1>9 DEF quit, QuitAt
  <2> QED  BY <1>0, <1>6, <1>9, <2>1 DEF quit, QuitAt, Position
<1>10. ~Writer /\ ~GitFailsInDone /\ ~GitFailsInImporter /\ ~Resume /\ ~add_epoch
  BY MirrorNever
<1> QED  BY <1>2, <1>3, <1>4, <1>5, <1>7, <1>8, <1>9, <1>10 DEF Next, Steps, Indexer

-----------------------------------------------------------------------------
(* What a mirror shows. *)

\* The first a commits leave blob b in the inbox.
InInbox(a, b) ==
    \E i \in 1 .. a : /\ git[i].op = "m" /\ git[i].b = b
                      /\ \A k \in i + 1 .. a : git[k].b = b => git[k].op = "m"

\* A mirror whose index_sync was not killed shows what the commits it has dealt
\* with leave in the inbox; every row of msgmap has its document, and no
\* Message-ID was needed other than the first of a blob.
Mirrored ==
    ncrash = 0 =>
        /\ \E a \in 0 .. Len(git) :
             Position(a) /\ \A b \in Blobs : (\E n \in Nums : ov[n] = b) <=> InInbox(a, b)
        /\ \A n \in Nums : mm.row[n] # NoMid => ov[n] # NoBlob
        /\ \A n \in Nums : mm.row[n] \notin GenMids /\ mm_tmp[n] \notin GenMids

\* More commits do not change what the first ones leave.
LEMMA InInboxKept ==
  ASSUME NEW a \in Nat, \A i \in 1 .. a : git'[i] = git[i], NEW b
  PROVE  InInbox(a, b)' <=> InInbox(a, b)
<1>1. \A i \in 1 .. a : \A k \in i + 1 .. a : k \in 1 .. a
  OBVIOUS
<1> QED  BY <1>1 DEF InInbox

\* What one more commit leaves.
LEMMA InInboxNext ==
  ASSUME NEW a \in Nat, NEW b, git[a + 1].op \in {"m", "d"}
  PROVE  InInbox(a + 1, b) <=> IF git[a + 1].op = "m" THEN InInbox(a, b) \/ b = git[a + 1].b
                                                     ELSE InInbox(a, b) /\ b # git[a + 1].b
<1>1. \A i \in 1 .. a + 1 : i \in 1 .. a \/ i = a + 1
  OBVIOUS
<1>2. \A i \in 1 .. a : i \in 1 .. a + 1 /\ a + 1 \in i + 1 .. a + 1
  OBVIOUS
<1>3. \A i \in 1 .. a : \A k \in i + 1 .. a + 1 : k \in i + 1 .. a \/ k = a + 1
  OBVIOUS
<1>4. \A i \in 1 .. a : \A k \in i + 1 .. a : k \in i + 1 .. a + 1
  OBVIOUS
<1>5. a + 1 \in 1 .. a + 1 /\ (a + 1) + 1 .. a + 1 = {}
  OBVIOUS
<1>6. ASSUME InInbox(a, b), git[a + 1].b = b => git[a + 1].op = "m"
      PROVE  InInbox(a + 1, b)
  <2>1. PICK i \in 1 .. a : /\ git[i].op = "m" /\ git[i].b = b
                            /\ \A k \in i + 1 .. a : git[k].b = b => git[k].op = "m"
    BY <1>6 DEF InInbox
  <2> QED  BY <1>2, <1>3, <1>6, <2>1 DEF InInbox
<1>7. ASSUME b = git[a + 1].b, git[a + 1].op = "m"
      PROVE  InInbox(a + 1, b)
  BY <1>5, <1>7 DEF InInbox
<1>8. ASSUME InInbox(a + 1, b)
      PROVE  \/ b = git[a + 1].b /\ git[a + 1].op = "m"
             \/ InInbox(a, b) /\ (git[a + 1].b = b => git[a + 1].op = "m")
  <2>1. PICK i \in 1 .. a + 1 : /\ git[i].op = "m" /\ git[i].b = b
                                /\ \A k \in i + 1 .. a + 1 : git[k].b = b => git[k].op = "m"
    BY <1>8 DEF InInbox
  <2>2. CASE i = a + 1
    BY <2>1, <2>2
  <2>3. CASE i \in 1 .. a
    BY <1>2, <1>4, <2>1, <2>3 DEF InInbox
  <2> QED  BY <1>1, <2>2, <2>3
<1> QED  BY <1>6, <1>7, <1>8

\* Sets of numbers have a least one.
LEMMA LeastNumber ==
  ASSUME NEW S \in SUBSET Nums, S # {}
  PROVE  \E n \in S : \A o \in S : n <= o
<1>1. S \subseteq Nat
  BY BoundAssumption DEF Nums
<1>2. PICK n \in S : \A o \in S : ~(<<o, n>> \in OpToRel(<, Nat))
  BY <1>1, NatLessThanWellFounded, WFMin
<1>3. \A o \in S : ~(o < n)
  BY <1>1, <1>2 DEF OpToRel
<1> QED  BY <1>1, <1>3

\* A blob is given the number of its document, or one without a document, if
\* only first Message-IDs are in use; it is given one if it has a document.
LEMMA ReusedFree ==
  ASSUME VInv, NEW b \in Blobs, \A n \in Nums : mm_tmp[n] \notin GenMids
  PROVE  /\ \A n \in Reused(b) : ov[n] \in {b, NoBlob}
         /\ \A n \in Nums : ov[n] = b => Reused(b) # {}
<1>1. \A i \in 2 .. Len(MidsOf(b)) : NumsOf(mm_tmp, MidsOf(b)[i]) = {}
  <2> SUFFICES ASSUME NEW i \in 2 .. Len(MidsOf(b)) PROVE MidsOf(b)[i] \in GenMids
    BY DEF NumsOf
  <2>1. b.k # 0
    <3>1. b.k = 0 => MidsOf(b) = <<Mid[b.m]>>
      BY DEF MidsOf
    <3>2. Len(<<Mid[b.m]>>) = 1
      OBVIOUS
    <3>3. i \in 2 .. 1 => FALSE
      OBVIOUS
    <3> QED  BY <3>1, <3>2, <3>3
  <2>2. MidsOf(b) = <<Mid[b.m], <<b.m, b.k>> >>
    BY <2>1 DEF MidsOf
  <2>3. i = 2
    BY <2>2
  <2>4. b.m \in Msgs /\ b.k \in 1 .. MaxGen
    BY <2>1, BlobFacts, BoundAssumption
  <2> QED  BY <2>2, <2>3, <2>4 DEF GenMids
<1>2. \A n \in Reused(b) : ov[n] \in {b, NoBlob}
  BY <1>1 DEF Reused
<1>3. ASSUME NEW n \in Nums, ov[n] = b PROVE Reused(b) # {}
  <2>1. {i \in Nums : ov[i] = b} # {}
    BY <1>3
  <2>2. \E i \in {j \in Nums : ov[j] = b} : \A o \in {j \in Nums : ov[j] = b} : i <= o
    BY <2>1, LeastNumber
  <2> QED  BY <2>1, <2>2 DEF Reused
<1> QED  BY <1>2, <1>3

\* mid_insert takes the first Message-ID if it can.
LEMMA FirstMid ==
  ASSUME NEW b \in Blobs, Insertable(mm, Mid[b.m])
  PROVE  FreshMids(b) = {Mid[b.m]}
<1>1. 1 \in 1 .. Len(MidsOf(b)) /\ MidsOf(b)[1] = Mid[b.m]
  BY DEF MidsOf
<1> QED  BY <1>1 DEF FreshMids

\* What index_oid does with blob b of commit c, the next one of unit u.
Takes(u, c, b) ==
    /\ PopCommit(u, c) /\ b = c.b /\ c.op = "m" /\ c \in NextCommit(u)
    /\ \/ \E n \in Reused(b) :
            /\ ov' = [ov EXCEPT ![n] = b] /\ latest' = c.id
            /\ mm_tmp' = num_delete(mm_tmp, {n}) /\ mm' = mm
       \/ \E n \in Nums, mid \in FreshMids(b) :
            /\ Reused(b) = {} /\ mm.seq < MaxNum /\ n = mm.seq + 1
            /\ mm' = mid_insert(mm, mid)
            /\ ov' = [ov EXCEPT ![n] = b] /\ latest' = c.id /\ mm_tmp' = mm_tmp
       \/ Reused(b) = {} /\ FreshMids(b) = {}

\* index_oid does that.
LEMMA IndexOidTakes ==
  ASSUME VInv, index_oid
  PROVE  \E u \in todo, c \in Commits, b \in Blobs : Takes(u, c, b)
<1> DEFINE Does(u, c, b) ==
              /\ Working(u) /\ PopCommit(u, c) /\ b = c.b /\ c.op = "m" /\ c \in Commits
              /\ c \in NextCommit(u)
              /\ \/ \E n \in Reused(b) :
                      /\ ov' = [ov EXCEPT ![n] = b] /\ ipc_do(add_xapian(n, b)) /\ latest' = c.id
                      /\ mm_tmp' = num_delete(mm_tmp, {n}) /\ mm' = mm
                 \/ \E n \in Nums, mid \in FreshMids(b) :
                      /\ Reused(b) = {} /\ mm.seq < MaxNum /\ n = mm.seq + 1
                      /\ mm' = mid_insert(mm, mid)
                      /\ ov' = [ov EXCEPT ![n] = b] /\ ipc_do(add_xapian(n, b)) /\ latest' = c.id
                      /\ mm_tmp' = mm_tmp
                 \/ /\ Reused(b) = {} /\ FreshMids(b) = {}
                    /\ UNCHANGED <<mm, ov, xq, latest, mm_tmp, sync>>
<1>1. \E u \in todo : \E c \in u.left : \E b \in Blobs : Does(u, c, b)
  BY IndexOidCases, Zenon
<1>2. ASSUME NEW u \in todo, NEW c, NEW b \in Blobs, Does(u, c, b) PROVE c \in Commits /\ Takes(u, c, b)
  BY <1>2, Zenon DEF Takes
<1> HIDE DEF Does
<1> QED  BY <1>1, <1>2, Zenon

\* index_oid adds its blob to what a mirror shows.
LEMMA IndexOidMirrored ==
  ASSUME PlainMirror, VInv, Agreed, Fetched, Mirrored, ncrash = 0, index_oid
  PROVE  Mirrored'
<1>0. /\ mm \in Msgmaps /\ mm.row \in Rows /\ mm_tmp \in Rows /\ ov \in Tables /\ mm.seq \in Nat
      /\ \A n \in Nums : mm.row[n] # NoMid => ov[n] # NoBlob
      /\ \A n \in Nums : mm.row[n] \notin GenMids /\ mm_tmp[n] \notin GenMids
  BY BoundAssumption DEF VInv, TypeOK, Msgmaps, Mirrored
<1>1. PICK a \in 0 .. Len(git) :
         Position(a) /\ \A x \in Blobs : (\E n \in Nums : ov[n] = x) <=> InInbox(a, x)
  BY DEF Mirrored
<1>2. /\ Len(git) \in Nat /\ Len(git) <= Len(Upstream) /\ a \in Nat
      /\ \A i \in 1 .. Len(git) : git[i].b = Upstream[i].b /\ git[i].b \in Blobs
  BY FetchedFacts
<1>3. /\ owner = "index" /\ steps = << >> /\ UNCHANGED <<git, owner, steps, ncrash>>
  BY IndexOidCases
<1>4. PICK u \in todo, c \in Commits, b \in Blobs : Takes(u, c, b)
  BY IndexOidTakes
<1> USE DEF Takes
<1>5. /\ \A n \in Reused(b) : ov[n] \in {b, NoBlob}
      /\ \A n \in Nums : ov[n] = b => Reused(b) # {}
  BY <1>0, ReusedFree
<1>6. PICK i \in 1 .. Len(git) : b = git[i].b
  <2>1. PICK t \in a .. Len(git) : u = Between(a, t)
    BY <1>1 DEF Position
  <2>2. c \in {git[i] : i \in a + 1 .. t}
    BY <1>4, <2>1 DEF NextCommit, Oldest, Between
  <2> QED  BY <1>2, <1>4, <2>2
<1>7. Reused(b) = {} => Insertable(mm, Mid[b.m])
  <2> SUFFICES ASSUME NEW n \in Nums, mm.row[n] = Mid[b.m] PROVE ov[n] = b
    BY <1>5 DEF Insertable, NumsOf
  <2>1. Mid[b.m] \in Mids /\ Mid[b.m] # NoMid /\ Fits(Mid[b.m], b)
    BY BlobFacts DEF Fits
  <2>2. ov[n] \in Blobs
    BY <1>0, <2>1 DEF Tables
  <2>3. Fits(Mid[b.m], ov[n])
    BY <2>1, <2>2 DEF Agreed, IsRow, IsDoc
  <2>4. Mid[ov[n].m] = Mid[b.m]
    BY <2>1, <2>2, <2>3, FitFacts
  <2>5. PICK j \in 1 .. a : git[j].b = ov[n]
    BY <1>1, <2>2 DEF InInbox
  <2>6. i \in 1 .. Len(Upstream) /\ j \in 1 .. Len(Upstream) /\ j \in 1 .. Len(git)
    BY <1>2, MsgAssumption
  <2> QED  BY <1>2, <1>6, <2>4, <2>5, <2>6 DEF PlainMirror
<1>8. Reused(b) = {} => FreshMids(b) = {Mid[b.m]}
  BY <1>7, FirstMid
<1>9. PICK n \in Nums : ov' = [ov EXCEPT ![n] = b] /\ latest' = c.id /\ ov[n] \in {b, NoBlob}
  <2>1. CASE \E n \in Reused(b) : ov' = [ov EXCEPT ![n] = b] /\ latest' = c.id
    BY <1>5, <2>1, ReusedFacts
  <2>2. CASE \E n \in Nums : n = mm.seq + 1 /\ ov' = [ov EXCEPT ![n] = b] /\ latest' = c.id
    <3>1. PICK n \in Nums : n = mm.seq + 1 /\ ov' = [ov EXCEPT ![n] = b] /\ latest' = c.id
      BY <2>2
    <3>2. ov[n] = NoBlob
      BY <1>0, <3>1 DEF VInv, Documents, Known1
    <3> QED  BY <3>1, <3>2
  <2> QED  BY <1>4, <1>8, <2>1, <2>2
<1>10. a + 1 \in 1 .. Len(git) /\ c = git[a + 1] /\ Position(a + 1)'
  BY <1>1, <1>3, <1>4, <1>9, TakenStep
<1>11. \A x \in Blobs : (\E k \in Nums : ov'[k] = x) <=> ((\E k \in Nums : ov[k] = x) \/ x = b)
  <2>1. \A k \in Nums : ov'[k] = IF k = n THEN b ELSE ov[k]
    BY <1>0, <1>9 DEF Tables
  <2> QED  BY <1>9, <2>1, BlobFacts
<1>12. \A x \in Blobs : InInbox(a + 1, x)' <=> (InInbox(a, x) \/ x = b)
  <2>1. \A x \in Blobs : InInbox(a + 1, x)' <=> InInbox(a + 1, x)
    BY <1>3 DEF InInbox
  <2> QED  BY <1>2, <1>4, <1>10, <2>1, InInboxNext
<1>13. \A k \in Nums : ov[k] # NoBlob => ov'[k] # NoBlob
  BY <1>0, <1>9, BlobFacts DEF Tables
<1>14. /\ \A k \in Nums : mm'.row[k] # NoMid => ov'[k] # NoBlob
       /\ \A k \in Nums : mm'.row[k] \notin GenMids /\ mm_tmp'[k] \notin GenMids
  <2>1. CASE \E k \in Reused(b) : mm_tmp' = num_delete(mm_tmp, {k}) /\ mm' = mm
    <3>1. \A k \in Nums : mm_tmp'[k] \in {NoMid, mm_tmp[k]}
      BY <2>1 DEF num_delete
    <3>2. NoMid \notin GenMids
      BY MsgAssumption DEF Mids
    <3> QED  BY <1>0, <1>13, <2>1, <3>1, <3>2
  <2>2. CASE \E mid \in FreshMids(b) : /\ Reused(b) = {} /\ mm.seq < MaxNum /\ mm' = mid_insert(mm, mid)
                                       /\ ov' = [ov EXCEPT ![mm.seq + 1] = b] /\ mm_tmp' = mm_tmp
    <3>1. /\ Mid[b.m] \in Mids /\ mm.seq < MaxNum /\ mm' = mid_insert(mm, Mid[b.m])
          /\ ov' = [ov EXCEPT ![mm.seq + 1] = b] /\ mm_tmp' = mm_tmp
      BY <1>8, <2>2, BlobFacts
    <3>2. \A k \in Nums : mm'.row[k] = IF k = mm.seq + 1 THEN Mid[b.m] ELSE mm.row[k]
      BY <1>0, <3>1, InsertKeeps
    <3>3. Mid[b.m] \notin GenMids
      BY MsgAssumption, BlobFacts
    <3>4. mm.seq + 1 \in Nums => ov'[mm.seq + 1] # NoBlob
      BY <1>0, <3>1, BlobFacts DEF Tables
    <3> QED  BY <1>0, <1>13, <3>1, <3>2, <3>3, <3>4
  <2> QED  BY <1>4, <1>8, <2>1, <2>2
<1>15. a + 1 \in 0 .. Len(git')
  BY <1>2, <1>3, <1>10
<1> QED  BY <1>1, <1>10, <1>11, <1>12, <1>14, <1>15 DEF Mirrored

\* unindex_oid takes its blob away.
LEMMA UnindexOidMirrored ==
  ASSUME VInv, Fetched, Mirrored, ncrash = 0, unindex_oid
  PROVE  Mirrored'
<1>0. /\ mm.row \in Rows /\ ov \in Tables
      /\ \A n \in Nums : mm.row[n] # NoMid => ov[n] # NoBlob
      /\ \A n \in Nums : mm.row[n] \notin GenMids /\ mm_tmp[n] \notin GenMids
  BY DEF VInv, TypeOK, Msgmaps, Mirrored
<1>1. PICK a \in 0 .. Len(git) :
         Position(a) /\ \A x \in Blobs : (\E n \in Nums : ov[n] = x) <=> InInbox(a, x)
  BY DEF Mirrored
<1>2. Len(git) \in Nat /\ a \in Nat
  BY FetchedFacts
<1>3. /\ owner = "index" /\ steps = << >> /\ UNCHANGED <<git, owner, steps, ncrash, mm_tmp>>
  BY UnindexOidCases
<1>4. PICK u \in todo, c \in Commits, gone \in SUBSET Nums : Unindexes(u, c, gone)
  BY UnindexOidCases
<1>5. /\ PopCommit(u, c) /\ c \in NextCommit(u) /\ c.op = "d" /\ latest' = c.id /\ c.b \in Blobs
      /\ gone = {n \in Nums : ov[n] = c.b} /\ mm'.row = num_delete(mm.row, gone)
      /\ ov' = [n \in Nums |-> IF n \in gone THEN NoBlob ELSE ov[n]]
  BY <1>4 DEF Unindexes
<1>6. a + 1 \in 1 .. Len(git) /\ c = git[a + 1] /\ Position(a + 1)'
  BY <1>1, <1>3, <1>5, TakenStep
<1>7. \A x \in Blobs : (\E k \in Nums : ov'[k] = x) <=> ((\E k \in Nums : ov[k] = x) /\ x # c.b)
  BY <1>5, BlobFacts
<1>8. \A x \in Blobs : InInbox(a + 1, x)' <=> (InInbox(a, x) /\ x # c.b)
  <2>1. \A x \in Blobs : InInbox(a + 1, x)' <=> InInbox(a + 1, x)
    BY <1>3 DEF InInbox
  <2> QED  BY <1>2, <1>5, <1>6, <2>1, InInboxNext
<1>9. \A k \in Nums : mm'.row[k] = IF k \in gone THEN NoMid ELSE mm.row[k]
  BY <1>5 DEF num_delete
<1>10. NoMid \notin GenMids
  BY MsgAssumption DEF Mids
<1>11. a + 1 \in 0 .. Len(git')
  BY <1>2, <1>3, <1>6
<1>12. /\ \A k \in Nums : mm'.row[k] # NoMid => ov'[k] # NoBlob
       /\ \A k \in Nums : mm'.row[k] \notin GenMids /\ mm_tmp'[k] \notin GenMids
  BY <1>0, <1>3, <1>5, <1>9, <1>10
<1> QED  BY <1>1, <1>6, <1>7, <1>8, <1>11, <1>12 DEF Mirrored

\* Only being killed is counted.
LEMMA CrashOnly ==
  ASSUME [Next]_vars, ~Crash
  PROVE  ncrash' = ncrash
<1> USE DEF badVars
<1>1. CASE \/ Writer \/ Indexer \/ fetch \/ OrphansExit \/ (\E s \in Shards : ShardStep(s)) \/ UNCHANGED vars
  BY <1>1 DEF Writer, Indexer, add, remove, barrier, done, DoneIn, index_sync, index_oid, IndexOid,
     unindex_oid, UnindexOid, EndUnit, reindex_checkpoint, quit, QuitAt, Relock, fetch, OrphansExit,
     ShardStep, vars
<1>2. CASE Steps
  BY <1>2 DEF Steps, GitCommit, GitFailsInDone, GitFailsInImporter, mm_commit, commit_lazy,
     commit_txn_lazy, ipc_wait_all, set_last_commits, add_epoch, Resume, release
<1> QED  BY <1>1, <1>2 DEF Next

\* Other steps show the same.
LEMMA MirroredStep ==
  ASSUME PlainMirror, VInv, Agreed, Fetched, Mirrored, [Next]_vars
  PROVE  Mirrored'
<1>1. ncrash \in Nat
  BY DEF VInv, TypeOK
<1>2. CASE Crash
  <2>1. ncrash' # 0
    BY <1>1, <1>2 DEF Crash
  <2> QED  BY <2>1 DEF Mirrored
<1>3. CASE index_oid
  <2>1. ncrash' = ncrash
    BY <1>3, IndexOidCases
  <2> QED  BY <1>3, <2>1, IndexOidMirrored DEF Mirrored
<1>4. CASE unindex_oid
  <2>1. ncrash' = ncrash
    BY <1>4, UnindexOidCases
  <2> QED  BY <1>4, <2>1, UnindexOidMirrored DEF Mirrored
<1>5. CASE ~Crash /\ ~index_oid /\ ~unindex_oid /\ ncrash = 0
  <2>1. PICK a \in 0 .. Len(git) :
           Position(a) /\ \A x \in Blobs : (\E n \in Nums : ov[n] = x) <=> InInbox(a, x)
    BY <1>5 DEF Mirrored
  <2>2. /\ a \in 0 .. Len(git') /\ Position(a)' /\ \A i \in 1 .. Len(git) : git'[i] = git[i]
        /\ ov' = ov /\ mm'.row = mm.row /\ mm_tmp' \in {mm_tmp, mm.row}
    BY <1>5, <2>1, SettledStep DEF PlainMirror
  <2>3. a \in Nat /\ \A i \in 1 .. a : git'[i] = git[i]
    BY <2>2, FetchedFacts
  <2>4. \A x \in Blobs : InInbox(a, x)' <=> InInbox(a, x)
    BY <2>3, InInboxKept
  <2> QED  BY <1>5, <2>1, <2>2, <2>4 DEF Mirrored
<1>6. CASE ~Crash /\ ~index_oid /\ ~unindex_oid /\ ncrash # 0
  <2>1. ncrash' = ncrash
    BY <1>6, CrashOnly
  <2> QED  BY <1>6, <2>1 DEF Mirrored
<1> QED  BY <1>2, <1>3, <1>4, <1>5, <1>6

\* A mirror that was just created has nothing to show.
LEMMA MirroredInit ==
  ASSUME Upstream # << >>, Init
  PROVE  Fetched /\ Position(0) /\ Mirrored
<1> USE DEF Init
<1>1. Len(git) = 0 /\ 0 \in 0 .. Len(git) /\ 0 \in Epochs /\ Len(Upstream) \in Nat
  BY ShapeAssumption, MsgAssumption DEF Epochs
<1>2. Fetched
  BY <1>1 DEF Fetched
<1>3. Position(0)
  BY <1>1 DEF Position
<1>4. \A b \in Blobs : ~InInbox(0, b) /\ \A n \in Nums : ov[n] # b
  BY BlobFacts DEF InInbox, NoDocs
<1>5. NoMid \notin GenMids
  BY MsgAssumption DEF Mids
<1>6. \A n \in Nums : mm.row[n] = NoMid /\ mm_tmp[n] = NoMid
  BY DEF NoRows
<1>7. Mirrored
  BY <1>1, <1>3, <1>4, <1>5, <1>6 DEF Mirrored
<1> QED  BY <1>2, <1>3, <1>7

\* The commits of a mirror are those that were fetched.
THEOREM FetchedHolds ==
  ASSUME Upstream # << >>
  PROVE  Spec => []Fetched
<1>1. Init => Fetched
  BY MirroredInit
<1>2. VInv /\ Fetched /\ [Next]_vars => Fetched'
  BY FetchedStep
<1> QED  BY <1>1, <1>2, InboxInvariant, PTL DEF Spec

\* The blobs that the commits up to last_commit leave in the inbox.
LEMMA LiveFacts ==
  ASSUME VInv, Fetched, NEW a \in 0 .. Len(git), mmD.lc[0] = a
  PROVE  \A b : b \in Live <=> InInbox(a, b)
<1>1. git = gitD /\ Len(git) \in Nat /\ \A i \in 1 .. Len(git) : git[i].id = i /\ git[i].e = 0
  BY FetchedFacts
<1>2. Covered = 1 .. a
  <2>1. \A i \in 1 .. Len(gitD) : gitD[i].id <= mmD.lc[gitD[i].e] <=> i <= a
    BY <1>1
  <2>2. \A i : i \in 1 .. a <=> i \in 1 .. Len(git) /\ i <= a
    BY <1>1
  <2> QED  BY <1>1, <2>1, <2>2 DEF Covered
<1>3. \A i \in 1 .. a : \A k : k \in i + 1 .. a <=> k \in 1 .. a /\ k > i
  BY <1>1
<1>4. Live = {git[i].b : i \in {j \in 1 .. a :
                /\ git[j].op = "m"
                /\ \A k \in 1 .. a : k > j /\ git[k].b = git[j].b => git[k].op = "m"}}
  BY <1>1, <1>2 DEF Live
<1> QED  BY <1>3, <1>4 DEF InInbox

\* A mirror whose index_sync was never killed has in over.sqlite3 and in Xapian
\* what the commits up to last_commit leave in the inbox, however often it gave
\* the lock away, was told to quit or fetched meanwhile, if no two blobs of the
\* inbox share a Message-ID.
THEOREM MirrorIndexedHolds ==
  ASSUME PlainMirror
  PROVE  Spec => []MirrorIndexed
<1>0. Upstream # << >>
  BY DEF PlainMirror
<1>1. Init => Mirrored
  BY <1>0, MirroredInit
<1>2. VInv /\ Agreed /\ Fetched /\ Mirrored /\ [Next]_vars => Mirrored'
  BY MirroredStep
<1>3. VInv /\ OnDisk /\ Queued /\ Fetched /\ Mirrored => MirrorIndexed
  <2> SUFFICES ASSUME VInv, OnDisk, Queued, Fetched, Mirrored, owner = "none", ncrash = 0
               PROVE  /\ xapD = ovD
                      /\ {ovD[n] : n \in Nums} \ {NoBlob} = Live
    BY DEF MirrorIndexed, Quiet
  <2>1. ov = ovD /\ mm = mmD /\ Drained /\ Past(AfterXap) /\ nfail = 0 /\ ovD \in Tables
    BY DEF OnDisk, Past, Fetched, VInv, TypeOK
  <2>2. xapD = ovD
    <3>1. \A n \in Nums : xapD[n] = ovD[n]
      BY <2>1, DrainedFacts
    <3> QED  BY <3>1 DEF VInv, TypeOK, Tables
  <2>3. PICK a \in 0 .. Len(git) :
           Position(a) /\ \A x \in Blobs : (\E n \in Nums : ov[n] = x) <=> InInbox(a, x)
    BY DEF Mirrored
  <2>4. mmD.lc[0] = a
    BY <2>1, <2>3 DEF Position
  <2>5. \A b : b \in Live <=> InInbox(a, b)
    BY <2>4, LiveFacts
  <2>6. \A b : InInbox(a, b) => b \in Blobs
    <3>1. \A i \in 1 .. a : i \in 1 .. Len(git)
      BY FetchedFacts
    <3> QED  BY <3>1, FetchedFacts DEF InInbox
  <2>7. \A n \in Nums : ovD[n] \in Blobs \/ ovD[n] = NoBlob
    BY <2>1 DEF Tables
  <2>8. \A b : b \in {ovD[n] : n \in Nums} \ {NoBlob} <=> b \in Live
    BY <2>1, <2>3, <2>5, <2>6, <2>7, BlobFacts
  <2> QED  BY <2>2, <2>8
<1> QED  BY <1>0, <1>1, <1>2, <1>3, InboxInvariant, AgreedHolds, KeptHolds, ToldHolds, FetchedHolds, PTL
         DEF Spec

-----------------------------------------------------------------------------
(* The numbers of a mirror. *)

\* The inbox that is mirrored does not take a message twice: V2Writable::add
\* finds duplicates.
NoDuplicates ==
    \A i, j \in 1 .. Len(Upstream) :
        i < j /\ Upstream[i].op = "m" /\ Upstream[j].op = "m" /\ Upstream[i].b = Upstream[j].b =>
            \E k \in i .. j : Upstream[k].op = "d"

\* What was fetched so far are additions of different blobs.
AddsOnly == \A i \in 1 .. Len(git) : git[i].op = "m" /\ \A j \in 1 .. i - 1 : git[j].b # git[i].b

\* Then the n-th commit has number n, whatever was lost in a crash: msgmap goes
\* back to a number together with last_commit.
Counted ==
    AddsOnly =>
        /\ mmD.lc[0] = mmD.seq
        /\ \E a \in 0 .. Len(git) : a = mm.seq /\ Position(a)
        /\ \A n \in Nums : \A r \in Mids : IsRow(n, r) => n <= Len(git) /\ r = Mid[git[n].b.m]
        /\ \A n \in Nums : \A b \in Blobs : IsDoc(n, b) => n <= Len(git) /\ b = git[n].b

\* Commits are only added.
LEMMA AddsBefore ==
  ASSUME Len(git) \in Nat, Len(git') \in Nat, Len(git) <= Len(git'),
         \A i \in 1 .. Len(git) : git'[i] = git[i], AddsOnly'
  PROVE  AddsOnly
<1>1. \A i \in 1 .. Len(git) : i \in 1 .. Len(git') /\ \A j \in 1 .. i - 1 : j \in 1 .. Len(git)
  OBVIOUS
<1> QED  BY <1>1 DEF AddsOnly

\* The next commit gets the next number.
LEMMA IndexOidCounted ==
  ASSUME PlainMirror, VInv, Fetched, Counted, AddsOnly, index_oid
  PROVE  Counted'
<1>0. /\ mm \in Msgmaps /\ mm.seq \in Nat /\ ov \in Tables /\ Len(git) \in Nat
      /\ mmD.lc[0] = mmD.seq
      /\ \A n \in Nums : \A r \in Mids : IsRow(n, r) => n <= Len(git) /\ r = Mid[git[n].b.m]
      /\ \A n \in Nums : \A b \in Blobs : IsDoc(n, b) => n <= Len(git) /\ b = git[n].b
      /\ \A n \in Nums : n \in Nat /\ n >= 1
  BY BoundAssumption, FetchedFacts DEF Counted, VInv, TypeOK, Msgmaps, Nums
<1>1. /\ owner = "index" /\ steps = << >> /\ UNCHANGED <<git, owner, steps, mmD, ovD>>
  BY IndexOidCases
<1>a. PICK a \in 0 .. Len(git) : a = mm.seq /\ Position(a)
  BY DEF Counted
<1>2. PICK u \in todo, c \in Commits, b \in Blobs : Takes(u, c, b)
  BY IndexOidTakes
<1> USE DEF Takes
<1>3. a + 1 \in 1 .. Len(git) /\ c = git[a + 1] /\ b = git[a + 1].b
  <2>1. PICK t \in a .. Len(git) : u = Between(a, t)
    BY <1>0, <1>a DEF Position
  <2>2. u.left = {git[i] : i \in a + 1 .. t}
    BY <2>1 DEF Between
  <2>3. PICK i \in a + 1 .. t : c = git[i] /\ \A j \in a + 1 .. t : c.id <= git[j].id
    BY <1>2, <2>2 DEF NextCommit, Oldest
  <2>4. a + 1 \in a + 1 .. t /\ i \in 1 .. Len(git) /\ a + 1 \in 1 .. Len(git)
    BY <1>0, <1>a, <2>3
  <2>5. i = a + 1
    BY <1>0, <1>a, <2>3, <2>4, FetchedFacts
  <2> QED  BY <1>2, <2>3, <2>4, <2>5
<1>4. \A n \in Nums : n <= a => n \in 1 .. Len(git) /\ Mid[git[n].b.m] # Mid[b.m]
  <2> SUFFICES ASSUME NEW n \in Nums, n <= a
               PROVE  n \in 1 .. Len(git) /\ Mid[git[n].b.m] # Mid[b.m]
    OBVIOUS
  <2>1. n \in 1 .. Len(git) /\ n \in 1 .. a + 1 - 1
    BY <1>0, <1>a
  <2>2. git[n].b # git[a + 1].b
    BY <1>3, <2>1 DEF AddsOnly
  <2>3. n \in 1 .. Len(Upstream) /\ a + 1 \in 1 .. Len(Upstream)
    BY <1>0, <1>a, <1>3, <2>1, FetchedFacts, MsgAssumption
  <2>4. git[n].b = Upstream[n].b /\ git[a + 1].b = Upstream[a + 1].b
    BY <1>3, <2>1, FetchedFacts
  <2> QED  BY <1>3, <2>1, <2>2, <2>3, <2>4 DEF PlainMirror
<1>5. Reused(b) = {}
  <2> SUFFICES ASSUME NEW n \in Reused(b) PROVE FALSE
    OBVIOUS
  <2>1. n \in Nums /\ n <= a /\ (IsDoc(n, b) \/ \E r \in Mids : IsRow(n, r) /\ Fits(r, b))
    BY <1>a, ReusedFacts, ReusedFits
  <2>2. n \in 1 .. Len(git) /\ git[n].b \in Blobs /\ Mid[git[n].b.m] # Mid[b.m]
    BY <1>4, <2>1, FetchedFacts
  <2>3. ~IsDoc(n, b)
    BY <1>0, <1>a, <2>1, <2>2
  <2>4. PICK r \in Mids : IsRow(n, r) /\ Fits(r, b)
    BY <2>1, <2>3
  <2>5. r = Mid[git[n].b.m] /\ Fits(r, git[n].b)
    BY <1>0, <1>a, <2>1, <2>4 DEF Fits
  <2> QED  BY <2>2, <2>4, <2>5, FitFacts
<1>6. FreshMids(b) = {Mid[b.m]}
  <2> SUFFICES ASSUME NEW n \in Nums, mm.row[n] = Mid[b.m] PROVE FALSE
    BY FirstMid DEF Insertable, NumsOf
  <2>1. Mid[b.m] \in Mids /\ Mid[b.m] # NoMid
    BY BlobFacts
  <2>2. n <= a /\ Mid[b.m] = Mid[git[n].b.m]
    BY <1>0, <1>a, <2>1 DEF IsRow, VInv, Sources
  <2> QED  BY <1>4, <2>2
<1>7. /\ a < MaxNum /\ mm' = mid_insert(mm, Mid[b.m]) /\ Mid[b.m] \in Mids
      /\ ov' = [ov EXCEPT ![a + 1] = b] /\ latest' = c.id /\ mm_tmp' = mm_tmp
  BY <1>a, <1>2, <1>5, <1>6, BlobFacts
<1>8. mm'.seq = a + 1
  BY <1>0, <1>a, <1>7, InsertFacts
<1>9. Position(a + 1)'
  <2>1. a \in 0 .. Len(git) /\ Position(a) /\ PopCommit(u, c) /\ c \in NextCommit(u)
    BY <1>0, <1>a, <1>2
  <2> QED  BY <1>1, <1>7, <2>1, TakenStep
<1>10. ASSUME NEW n \in Nums, NEW r \in Mids, IsRow(n, r)'
       PROVE  n <= Len(git') /\ r = Mid[git'[n].b.m]
  <2>1. mm'.row[n] = IF n = a + 1 THEN Mid[b.m] ELSE mm.row[n]
    BY <1>0, <1>a, <1>7, InsertKeeps
  <2>2. IsRow(n, r) \/ (n = a + 1 /\ r = Mid[b.m])
    BY <1>1, <1>7, <1>10, <2>1 DEF IsRow
  <2> QED  BY <1>0, <1>a, <1>1, <1>3, <2>2
<1>11. ASSUME NEW n \in Nums, NEW x \in Blobs, IsDoc(n, x)'
       PROVE  n <= Len(git') /\ x = git'[n].b
  <2>1. ov'[n] = IF n = a + 1 THEN b ELSE ov[n]
    BY <1>0, <1>a, <1>7 DEF Tables
  <2>2. IsDoc(n, x) \/ (n = a + 1 /\ x = b)
    BY <1>1, <1>11, <2>1 DEF IsDoc
  <2> QED  BY <1>0, <1>a, <1>1, <1>3, <2>2
<1>12. a + 1 \in 0 .. Len(git') /\ mmD'.lc[0] = mmD'.seq
  BY <1>0, <1>1, <1>3
<1> QED  BY <1>8, <1>9, <1>10, <1>11, <1>12 DEF Counted

\* Rows and documents that were there before stay where they are.
LEMMA CountedFrom ==
  ASSUME Counted, AddsOnly, Len(git) \in Nat, Len(git') \in Nat, Len(git) <= Len(git'),
         \A i \in 1 .. Len(git) : git'[i] = git[i],
         \E a \in 0 .. Len(git') : a = mm'.seq /\ Position(a)', mmD'.lc[0] = mmD'.seq,
         \A n \in Nums : \A r \in Mids : IsRow(n, r)' => IsRow(n, r),
         \A n \in Nums : \A b \in Blobs : IsDoc(n, b)' => IsDoc(n, b)
  PROVE  Counted'
<1>1. \A n \in Nums : n <= Len(git) => n \in 1 .. Len(git) /\ n <= Len(git')
  BY BoundAssumption DEF Nums
<1> QED  BY <1>1 DEF Counted

\* Every step keeps the numbers.
LEMMA CountedStep ==
  ASSUME PlainMirror, VInv, Fetched, Fetched', VInv', Counted, [Next]_vars
  PROVE  Counted'
<1> SUFFICES ASSUME AddsOnly' PROVE Counted'
  BY DEF Counted
<1>0. /\ Upstream # << >> /\ Len(git) \in Nat /\ Len(git') \in Nat /\ mm.seq \in Nat /\ mmD.seq \in Nat
      /\ mm'.seq \in Nat /\ mmD.seq <= mm.seq /\ git = gitD /\ git' = gitD'
      /\ mm_tmp \in Rows /\ NoMid \notin Mids
  <2>1. git \in Seq(Commits) /\ git' \in Seq(Commits)
    BY DEF VInv, TypeOK
  <2> QED  BY <2>1, BoundAssumption, BlobFacts DEF PlainMirror, VInv, TypeOK, Msgmaps, Durable, Fetched
<1>1. CASE index_oid
  <2>1. git' = git
    BY <1>1, IndexOidCases
  <2> QED  BY <1>0, <1>1, <2>1, AddsBefore, IndexOidCounted
<1>2. CASE Crash
  <2>1. /\ git' = git /\ mm' = mmD /\ mmD' = mmD /\ ov' = ovD /\ ovD' = ovD
        /\ todo' = {} /\ latest' = 0 /\ mm_tmp' = NoRows
    BY <1>0, <1>2 DEF Crash, Fetched, ixVars
  <2>2. AddsOnly /\ mmD.lc[0] = mmD.seq /\ mmD.seq \in 0 .. Len(git')
    BY <1>0, <2>1, AddsBefore DEF Counted
  <2>3. PICK a \in 0 .. Len(git') : a = mm'.seq /\ a = mm'.lc[0]
    BY <2>1, <2>2
  <2>6. Position(a)'
    BY <2>1, <2>3 DEF Position
  <2>4. \A n \in Nums : \A r \in Mids : IsRow(n, r)' => IsRow(n, r)
    BY <1>0, <2>1 DEF IsRow, NoRows
  <2>5. \A n \in Nums : \A b \in Blobs : IsDoc(n, b)' => IsDoc(n, b)
    BY <2>1 DEF IsDoc
  <2> QED  BY <1>0, <2>1, <2>2, <2>3, <2>4, <2>5, <2>6, CountedFrom
<1>3. CASE ~index_oid /\ ~unindex_oid /\ ~Crash
  <2>1. UNCHANGED git \/ fetch
    BY <1>0, <1>3, MirrorNever DEF Next, Steps, Indexer, vars, gitVars, GitCommit, mm_commit, commit_lazy,
       commit_txn_lazy, ipc_wait_all, set_last_commits, release, index_sync, EndUnit, reindex_checkpoint,
       quit, QuitAt, Relock, OrphansExit, ShardStep
  <2>2. Len(git) <= Len(git') /\ \A i \in 1 .. Len(git) : git'[i] = git[i]
    <3>1. git \in Seq(Commits)
      BY DEF VInv, TypeOK
    <3> QED  BY <1>0, <2>1, <3>1 DEF fetch
  <2>3. AddsOnly
    BY <1>0, <2>2, AddsBefore
  <2>5. PICK a \in 0 .. Len(git) : a = mm.seq /\ Position(a)
    BY <2>3 DEF Counted
  <2>6. /\ Position(a)' /\ ov' = ov /\ mm'.row = mm.row /\ mm'.seq = mm.seq
        /\ mm_tmp' \in {mm_tmp, mm.row} /\ ovD' \in {ovD, ov}
        /\ mmD' = mmD \/ (mmD' = mm /\ mm.lc[0] = a)
    BY <1>0, <1>3, <2>5, SettledStep
  <2>7. a \in 0 .. Len(git') /\ a = mm'.seq
    BY <1>0, <2>2, <2>5, <2>6
  <2>8. mmD'.lc[0] = mmD'.seq
    BY <2>3, <2>5, <2>6 DEF Counted
  <2>9. \A n \in Nums : \A r \in Mids : IsRow(n, r)' => IsRow(n, r)
    BY <2>6 DEF IsRow
  <2>10. \A n \in Nums : \A b \in Blobs : IsDoc(n, b)' => IsDoc(n, b)
    BY <2>6 DEF IsDoc
  <2> QED  BY <1>0, <2>2, <2>3, <2>6, <2>7, <2>8, <2>9, <2>10, CountedFrom
<1>4. CASE unindex_oid
  <2>1. PICK u \in todo, c \in Commits, gone \in SUBSET Nums : Unindexes(u, c, gone)
    BY <1>4, UnindexOidCases
  <2>2. c \in NextCommit(u) /\ c.op = "d" /\ git' = git
    BY <1>4, <2>1, UnindexOidCases DEF Unindexes
  <2>3. AddsOnly
    BY <1>0, <2>2, AddsBefore
  <2>4. PICK a \in 0 .. Len(git), t \in 0 .. Len(git) : u = Between(a, t)
    <3>1. PICK a \in 0 .. Len(git) : Position(a)
      BY <2>3 DEF Counted
    <3>2. PICK t \in a .. Len(git) : u = Between(a, t)
      BY <3>1 DEF Position
    <3> QED  BY <1>0, <3>2
  <2>5. PICK i \in a + 1 .. t : c = git[i]
    BY <2>2, <2>4 DEF NextCommit, Oldest, Between
  <2>6. i \in 1 .. Len(git)
    BY <1>0, <2>5
  <2> QED  BY <2>2, <2>3, <2>5, <2>6 DEF AddsOnly
<1> QED  BY <1>1, <1>2, <1>3, <1>4

\* In a mirror of an inbox without removals and without shared Message-IDs every
\* message keeps the number it has there, wherever index_sync was killed, gave
\* the lock away or was told to quit.
THEOREM MirrorOrderHolds ==
  ASSUME PlainMirror, NoDuplicates
  PROVE  Spec => []MirrorOrder
<1>0. Upstream # << >>
  BY DEF PlainMirror
<1>1. Init => Counted
  <2> SUFFICES ASSUME Init PROVE Counted
    OBVIOUS
  <2>1. Position(0) /\ mm.seq = 0 /\ mmD.seq = 0 /\ mmD.lc[0] = 0 /\ 0 \in 0 .. Len(git)
    BY <1>0, MirroredInit, ShapeAssumption DEF Init, Epochs
  <2>2. \A n \in Nums : \A r \in Mids : ~IsRow(n, r)
    BY BlobFacts DEF Init, NoRows, IsRow
  <2>3. \A n \in Nums : \A b \in Blobs : ~IsDoc(n, b)
    BY BlobFacts DEF Init, NoDocs, IsDoc
  <2> QED  BY <2>1, <2>2, <2>3 DEF Counted
<1>2. VInv /\ Fetched /\ VInv' /\ Fetched' /\ Counted /\ [Next]_vars => Counted'
  BY CountedStep
<1>3. VInv /\ Fetched /\ Counted => MirrorOrder
  <2> SUFFICES ASSUME VInv, Fetched, Counted, \A i \in 1 .. Len(gitD) : gitD[i].op = "m",
                      NEW n \in Nums, ovD[n] # NoBlob
               PROVE  \E i \in 1 .. Len(gitD) :
                         /\ gitD[i].op = "m" /\ gitD[i].b = ovD[n]
                         /\ Cardinality({j \in 1 .. i : gitD[j].op = "m"}) = n
    BY DEF MirrorOrder, MirrorNumbers
  <2>1. /\ git = gitD /\ Len(git) \in Nat /\ Len(Upstream) \in Nat /\ Len(git) <= Len(Upstream)
        /\ \A i \in 1 .. Len(git) : git[i].op = Upstream[i].op /\ git[i].b = Upstream[i].b
    BY FetchedFacts, MsgAssumption
  <2>2. AddsOnly
    <3> SUFFICES ASSUME NEW i \in 1 .. Len(git), NEW j \in 1 .. i - 1, git[j].b = git[i].b
                 PROVE  FALSE
      BY <2>1 DEF AddsOnly
    <3>1. j \in 1 .. Len(git) /\ j < i /\ i \in 1 .. Len(Upstream) /\ j \in 1 .. Len(Upstream)
      BY <2>1
    <3>2. PICK k \in j .. i : Upstream[k].op = "d"
      BY <2>1, <3>1 DEF NoDuplicates
    <3>3. k \in 1 .. Len(git)
      BY <2>1, <3>1
    <3> QED  BY <2>1, <3>2, <3>3
  <2>3. ovD[n] \in Blobs
    BY DEF VInv, TypeOK, Tables
  <2>4. n \in 1 .. Len(git) /\ git[n].b = ovD[n]
    BY <2>1, <2>2, <2>3, BoundAssumption DEF Counted, IsDoc, Nums
  <2>5. {j \in 1 .. n : gitD[j].op = "m"} = 1 .. n
    BY <2>1, <2>4
  <2>6. Cardinality(1 .. n) = n
    BY <2>1, <2>4, FS_Interval
  <2> QED  BY <2>1, <2>4, <2>5, <2>6
<1> QED  BY <1>0, <1>1, <1>2, <1>3, InboxInvariant, FetchedHolds, PTL DEF Spec
=============================================================================
