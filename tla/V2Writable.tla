----------------------------- MODULE V2Writable -----------------------------
(***************************************************************************)
(* PublicInbox::V2Writable: a v2 inbox is written by one process at a time *)
(* (inbox.lock) into four stores, none of which shares a transaction with  *)
(* another: git epochs (through git-fast-import), msgmap.sqlite3, which    *)
(* hands out article numbers, over.sqlite3 and the Xapian shards.          *)
(*                                                                         *)
(* Two processes take turns: a writer (-mda, -watch: add, remove, barrier, *)
(* done) and public-inbox-index (index_sync), which gives the lock away in *)
(* the middle of its work.  Either may be killed between any two steps,    *)
(* and git-fast-import may fail.                                           *)
(*                                                                         *)
(* x is what the process that holds the lock (or a shard worker) sees, xD  *)
(* what other processes see and what a crash leaves of x.                  *)
(***************************************************************************)
EXTENDS Integers, Sequences, FiniteSets, FiniteSetsExt

CONSTANTS
    Msgs,       \* messages, told apart by content_hash
    Mid,        \* the Message-ID of each
    NoMid,      \* no row
    Upstream,   \* commits of the inbox this one mirrors; none if it has a writer
    NShards,    \* {shards}
    Parallel,   \* {parallel}: who runs the shards as processes of their own
    MaxEpoch,   \* bound: epochs
    MaxCommit,  \* bound: commits, lost ones included
    MaxNum,     \* bound: article numbers
    MaxGen,     \* bound: Message-IDs generated for a message
    MaxCrash,   \* bound: killed processes
    MaxFail     \* bound: failures of git-fast-import

\* A generated Message-ID is a hash of the message it is generated for.
GenMids == Msgs \X (1 .. MaxGen)
Mids    == {Mid[m] : m \in Msgs} \union GenMids

\* k = 0: stored as received; otherwise the k-th generated ID was appended.
Blobs  == [m : Msgs, k : 0 .. MaxGen]
NoBlob == [m |-> NoMid, k |-> 0]
MidsOf(b) == IF b.k = 0 THEN <<Mid[b.m]>> ELSE <<Mid[b.m], <<b.m, b.k>> >>

ASSUME MsgAssumption ==
    /\ IsFiniteSet(Msgs) /\ NoMid \notin Msgs /\ NoMid \notin Mids
    /\ Mid \in [Msgs -> {Mid[m] : m \in Msgs}] /\ {Mid[m] : m \in Msgs} \cap GenMids = {}
    /\ Upstream \in Seq([op : {"m", "d"}, b : Blobs])
ASSUME ShapeAssumption ==
    NShards \in Nat \ {0} /\ Parallel \subseteq {"writer", "index"} /\ MaxEpoch \in Nat
ASSUME BoundAssumption ==
    /\ MaxCommit \in Nat /\ Len(Upstream) <= MaxCommit /\ MaxNum \in Nat /\ MaxGen \in Nat
    /\ MaxCrash \in Nat /\ MaxFail \in Nat

Nums   == 1 .. MaxNum
Epochs == 0 .. MaxEpoch
Shards == 0 .. NShards - 1
Commits == [id : 1 .. MaxCommit, e : Epochs, op : {"m", "d"}, b : Blobs]

VARIABLES
    git,          \* commits, those still inside git-fast-import included
    gitD,         \* the commits refs lead to
    ids,          \* commits ever made
    epochs,       \* max_git_epoch
    mm, mmD,      \* msgmap.sqlite3: rows, sequence and last_commit_xap
    ov, ovD,      \* over.sqlite3
    xap, xapD,    \* Xapian documents
    xq,           \* requests on the way to each shard
    owner,        \* who holds inbox.lock
    steps,        \* what is left of checkpoint, done, importer
    im,           \* {im} is set
    epoch_max,    \* {epoch_max}
    last_commit,  \* {last_commit}
    cur,          \* the call that is waiting for the steps
    added,        \* messages the writer added since its last done
    acked,        \* history: messages done has returned for
    sync,         \* index_sync: not running, at work, at work and having indexed
                  \* something since the last checkpoint, or waiting for the lock
    todo,         \* {todo}: units (epochs) with the commits left in {stack} and its
                  \* {latest_cmt}
    latest,       \* {latest_cmt}
    mm_tmp,       \* {mm_tmp}: rows of msgmap when index_sync began
    ncrash, nfail, nrotfail  \* history: what went wrong so far

gitVars  == <<git, gitD, ids, epochs>>
mmVars   == <<mm, mmD>>
ovVars   == <<ov, ovD>>
xapVars  == <<xap, xapD, xq>>
wrVars   == <<im, epoch_max, last_commit, cur, added, acked>>
ixVars   == <<sync, todo, latest, mm_tmp>>
badVars  == <<ncrash, nfail, nrotfail>>
vars == <<gitVars, mmVars, ovVars, xapVars, owner, steps, wrVars, ixVars, badVars>>

NoCall  == [op |-> "none", m |-> NoMid, num |-> 0, k |-> 0]
Calls   == [op : {"none", "add", "remove"}, m : Msgs \union {NoMid}, num : 0 .. MaxNum, k : 0 .. MaxGen]
Rows    == [Nums -> Mids \union {NoMid}]
Msgmaps == [row : Rows, seq : 0 .. MaxNum, lc : [Epochs -> 0 .. MaxCommit]]
Tables  == [Nums -> Blobs \union {NoBlob}]
Requests == [op : {"add", "rm", "commit"}, ns : SUBSET Nums, b : Blobs \union {NoBlob}]
Units == [e : Epochs, tip : 1 .. MaxCommit, left : SUBSET Commits]
StepNames == {"barrier", "gitdone", "mm", "over", "xap", "wait", "lc", "epoch", "resume",
              "release", "dead"}

TypeOK ==
    /\ git \in Seq(Commits) /\ gitD \in Seq(Commits) /\ ids \in 0 .. MaxCommit
    /\ epochs \in Epochs
    /\ mm \in Msgmaps /\ mmD \in Msgmaps /\ ov \in Tables /\ ovD \in Tables
    /\ xap \in Tables /\ xapD \in Tables /\ xq \in [Shards -> Seq(Requests)]
    /\ owner \in {"none", "writer", "index", "orphans"} /\ steps \in Seq(StepNames)
    /\ im \in BOOLEAN /\ epoch_max \in -1 .. MaxEpoch
    /\ last_commit \in [Epochs -> 0 .. MaxCommit] /\ cur \in Calls
    /\ added \in SUBSET Msgs /\ acked \in SUBSET Msgs
    /\ sync \in {"none", "work", "dirty", "relock"} /\ todo \in SUBSET Units
    /\ latest \in 0 .. MaxCommit /\ mm_tmp \in Rows
    /\ ncrash \in Nat /\ nfail \in 0 .. MaxFail /\ nrotfail \in 0 .. MaxFail

NoRows == [n \in Nums |-> NoMid]
NoDocs == [n \in Nums |-> NoBlob]
Init ==
    /\ git = << >> /\ gitD = << >> /\ ids = 0
    /\ epochs = 0  \* init_inbox
    /\ mm = [row |-> NoRows, seq |-> 0, lc |-> [e \in Epochs |-> 0]] /\ mmD = mm
    /\ ov = NoDocs /\ ovD = NoDocs
    /\ xap = NoDocs /\ xapD = NoDocs /\ xq = [s \in Shards |-> << >>]
    /\ owner = "none" /\ steps = << >>
    /\ im = FALSE /\ epoch_max = -1 /\ last_commit = [e \in Epochs |-> 0] /\ cur = NoCall
    /\ added = {} /\ acked = {}
    /\ sync = "none" /\ todo = {} /\ latest = 0 /\ mm_tmp = NoRows
    /\ ncrash = 0 /\ nfail = 0 /\ nrotfail = 0

-----------------------------------------------------------------------------
(* Msgmap and the shards. *)
NumsOf(rows, mid) == {n \in Nums : rows[n] = mid}

\* Without AUTOINCREMENT: one more than the highest number in use.
Bug_MaxPlusOne(d, mid) ==
    LET n == Max({0} \union {i \in Nums : d.row[i] # NoMid}) + 1
    IN  [d EXCEPT !.seq = n, !.row[n] = mid]

\* mid_insert: UNIQUE (mid), AUTOINCREMENT.
mid_insert(d, mid) == [d EXCEPT !.seq = @ + 1, !.row[d.seq + 1] = mid]
Insertable(d, mid) == NumsOf(d.row, mid) = {}

num_delete(rows, nums) == [n \in Nums |-> IF n \in nums THEN NoMid ELSE rows[n]]

Drained == \A s \in Shards : xq[s] = << >>

\* ipc_do: queued for a worker, or run at once: without workers nothing else
\* happens until the queues are empty.
idx_shard(n) == n % NShards
Concerns(r, s) == r.op = "commit" \/ \E n \in r.ns : idx_shard(n) = s
ipc_do(r) == xq' = [s \in Shards |-> IF Concerns(r, s) THEN Append(xq[s], r) ELSE xq[s]]

\* Requests; the removals of a message are one, since nobody sees a shard
\* before it commits.
add_xapian(n, b) == [op |-> "add", ns |-> {n}, b |-> b]
xdb_remove(nums) == [op |-> "rm", ns |-> nums, b |-> NoBlob]
CommitTxn == [op |-> "commit", ns |-> {}, b |-> NoBlob]

\* A shard serves a request: add_xapian, xdb_remove or commit_txn_lazy.
ShardStep(s) ==
    /\ xq[s] # << >>
    /\ LET r == Head(xq[s])
       IN  /\ xap' = [n \in Nums |-> IF n \in r.ns /\ idx_shard(n) = s THEN r.b ELSE xap[n]]
           /\ xapD' = IF r.op = "commit"
                      THEN [n \in Nums |-> IF idx_shard(n) = s THEN xap[n] ELSE xapD[n]] ELSE xapD
    /\ xq' = [xq EXCEPT ![s] = Tail(@)]
    /\ UNCHANGED <<gitVars, mmVars, ovVars, owner, steps, wrVars, ixVars, badVars>>

\* A process may go on: it holds the lock (or gets it, idx_init), and the
\* previous call is over.
May(p) == owner = p /\ (p \in Parallel \/ Drained)
Idle(p) == May(p) /\ steps = << >>
idx_init(p) == (Idle(p) \/ owner = "none") /\ owner' = p

InGit(b) == \E i \in 1 .. Len(git) : git[i].b = b

-----------------------------------------------------------------------------
(* The writer. *)

\* content_exists: a row of over with the same content and Message-ID whose
\* blob can be read.
Matches(m) == {n \in Nums : ov[n] # NoBlob /\ ov[n].m = m /\ InGit(ov[n])}

\* The Message-ID alone makes a duplicate.
Bug_MidIsDuplicate(m) == ~Insertable(mm, Mid[m])

Duplicate(m) == ~Insertable(mm, Mid[m]) /\ Matches(m) # {}

\* v2_num_for: the generated IDs that are tried (0: the message's own one),
\* none for a duplicate.
v2_num_for(m) ==
    IF Insertable(mm, Mid[m]) THEN {0}
    ELSE IF Duplicate(m) THEN {}
    ELSE {k \in 1 .. MaxGen : /\ Insertable(mm, <<m, k>>)
                              /\ \A j \in 1 .. k - 1 : ~Insertable(mm, <<m, j>>)}

\* The commits are handed to git-fast-import; last_commit moves to the last.
Commits2git(e, op, blobs) ==
    /\ ids + Len(blobs) <= MaxCommit
    /\ git' = git \o [i \in 1 .. Len(blobs) |-> [id |-> ids + i, e |-> e, op |-> op, b |-> blobs[i]]]
    /\ ids' = ids + Len(blobs)
    /\ last_commit' = [last_commit EXCEPT ![e] = IF blobs = << >> THEN @ ELSE ids + Len(blobs)]

\* The rest of add, once there is an importer for epoch e: Import::add, do_idx.
AddTo(e, m, num, k) ==
    LET b == [m |-> m, k |-> k]
    IN  /\ Commits2git(e, "m", <<b>>)
        /\ ov' = [ov EXCEPT ![num] = b]
        /\ ipc_do(add_xapian(num, b))
        /\ added' = added \union {m}

\* keys %gone: in any order.
Orders(nums) ==
    {q \in [1 .. Cardinality(nums) -> nums] : \A a, b \in DOMAIN q : q[a] = q[b] => a = b}

\* The rest of remove (rewrite_internal): every matching article goes.
Removes(e, m, rows) ==
    LET all == {n \in Nums : ov[n] \in {ov[g] : g \in Matches(m)}}
    IN  /\ \E q \in Orders(Matches(m)) : Commits2git(e, "d", [i \in DOMAIN q |-> ov[q[i]]])
        /\ mm' = [mm EXCEPT !.row = rows]
        /\ ov' = [n \in Nums |-> IF n \in all THEN NoBlob ELSE ov[n]]
        /\ ipc_do(xdb_remove(all))
        /\ added' = added \ {m} /\ acked' = acked \ {m}

Bug_KeepNumber(e, m) == Removes(e, m, mm.row)

RemoveFrom(e, m) == Removes(e, m, num_delete(mm.row, Matches(m)))

\* importer: the epoch that is written to.  Without {im} it is the newest one
\* or, when that is too big, a new one.
importer(e) ==
    /\ IF im THEN e = epoch_max
       ELSE e \in {epochs, epochs + 1} \cap Epochs
    /\ im' = TRUE /\ epoch_max' = e
    /\ epochs' = IF e > epochs THEN e ELSE epochs

\* importer, with {im} having reached rotate_bytes: git-fast-import ends, a
\* checkpoint follows, then the next epoch begins and the call goes on.
Rotate(call) ==
    /\ im /\ epoch_max < MaxEpoch /\ ids < MaxCommit
    /\ im' = FALSE /\ cur' = call
    /\ steps' = <<"gitdone", "mm", "over", "xap", "lc", "epoch", "resume">>

add(m) ==
    /\ Upstream = << >> /\ idx_init("writer")
    /\ \/ /\ Duplicate(m)
          /\ added' = added \union {m}
          /\ UNCHANGED <<gitVars, mm, ov, xq, im, epoch_max, last_commit, cur, steps>>
       \/ \E k \in v2_num_for(m) :
            /\ mm.seq < MaxNum
            /\ mm' = mid_insert(mm, IF k = 0 THEN Mid[m] ELSE <<m, k>>)
            /\ \/ /\ \E e \in Epochs : importer(e) /\ AddTo(e, m, mm.seq + 1, k)
                  /\ UNCHANGED <<cur, steps>>
               \/ /\ Rotate([op |-> "add", m |-> m, num |-> mm.seq + 1, k |-> k])
                  /\ UNCHANGED <<git, ids, epochs, ov, xq, epoch_max, last_commit, added>>
    /\ UNCHANGED <<gitD, mmD, ovD, xap, xapD, acked, ixVars, badVars>>

remove(m) ==
    /\ Upstream = << >> /\ idx_init("writer")
    /\ \/ /\ \E e \in Epochs : importer(e) /\ RemoveFrom(e, m)
          /\ UNCHANGED <<cur, steps>>
       \/ /\ Rotate([NoCall EXCEPT !.op = "remove", !.m = m])
          /\ UNCHANGED <<git, ids, epochs, mm, ov, xq, epoch_max, last_commit, added, acked>>
    /\ UNCHANGED <<gitD, mmD, ovD, xap, xapD, ixVars, badVars>>

\* checkpoint, with the importer's barrier or done before it.
Bug_OverFirst == <<"over", "mm", "xap">>

Sync == <<"mm", "over", "xap">>

barrier ==
    /\ Idle("writer")
    /\ steps' = (IF im THEN <<"barrier">> ELSE << >>) \o Sync \o <<"wait", "lc">>
    /\ UNCHANGED <<gitVars, mmVars, ovVars, xapVars, owner, wrVars, ixVars, badVars>>

DoneIn(order) ==
    /\ Idle("writer")
    /\ steps' = order
    /\ im' = FALSE
    /\ UNCHANGED <<gitVars, mmVars, ovVars, xapVars, owner, epoch_max, last_commit, cur, added, acked,
                   ixVars, badVars>>

GitDone == IF im THEN <<"gitdone">> ELSE << >>

Bug_GitLast == DoneIn(Sync \o GitDone \o <<"lc", "release">>)

done == DoneIn(GitDone \o Sync \o <<"lc", "release">>)

-----------------------------------------------------------------------------
(* The steps of checkpoint and done, for whoever holds the lock. *)
At(step) == owner \in {"writer", "index"} /\ May(owner) /\ steps # << >> /\ Head(steps) = step
Advance == steps' = Tail(steps)

\* Import::barrier and Import::done: refs lead to all commits.
GitCommit ==
    /\ At("barrier") \/ At("gitdone")
    /\ gitD' = git
    /\ Advance
    /\ UNCHANGED <<git, ids, epochs, mmVars, ovVars, xapVars, owner, wrVars, ixVars, badVars>>

\* git-fast-import fails with commits it has not written.  In done msgmap and
\* over are rolled back and the shards closed; without workers idx_close finds
\* an open transaction and dies, with the lock held.
GitFailsInDone ==
    /\ At("gitdone") /\ cur = NoCall /\ git # gitD /\ nfail + nrotfail < MaxFail
    /\ git' = gitD /\ mm' = mmD /\ ov' = ovD
    /\ steps' = IF "writer" \in Parallel THEN <<"release">> ELSE <<"dead">>
    /\ added' = {} /\ nfail' = nfail + 1
    /\ UNCHANGED <<gitD, ids, epochs, mmD, ovD, xapVars, owner, im, epoch_max, last_commit, cur, acked,
                   ixVars, ncrash, nrotfail>>

\* When an epoch ends importer dies with {im} unset,
\* which ends add or remove and nothing else.
GitFailsInImporter ==
    /\ At("gitdone") /\ cur # NoCall /\ git # gitD /\ nfail + nrotfail < MaxFail
    /\ git' = gitD /\ steps' = << >> /\ cur' = NoCall /\ nrotfail' = nrotfail + 1
    /\ UNCHANGED <<gitD, ids, epochs, mmVars, ovVars, xapVars, owner, im, epoch_max, last_commit,
                   added, acked, ixVars, ncrash, nfail>>

mm_commit ==
    /\ At("mm") /\ mmD' = mm /\ Advance
    /\ UNCHANGED <<gitVars, mm, ovVars, xapVars, owner, wrVars, ixVars, badVars>>

commit_lazy ==
    /\ At("over") /\ ovD' = ov /\ Advance
    /\ UNCHANGED <<gitVars, mmVars, ov, xapVars, owner, wrVars, ixVars, badVars>>

commit_txn_lazy ==
    /\ At("xap") /\ ipc_do(CommitTxn) /\ Advance
    /\ UNCHANGED <<gitVars, mmVars, ovVars, xap, xapD, owner, wrVars, ixVars, badVars>>

ipc_wait_all ==
    /\ At("wait") /\ Drained /\ Advance
    /\ UNCHANGED <<gitVars, mmVars, ovVars, xapVars, owner, wrVars, ixVars, badVars>>

\* set_last_commits, in a transaction of its own.
set_last_commits ==
    /\ At("lc")
    /\ mm' = IF owner = "writer"
             THEN [mm EXCEPT !.lc = [e \in Epochs |-> IF last_commit[e] # 0 THEN last_commit[e] ELSE @[e]]]
             ELSE mm
    /\ mmD' = mm'
    /\ last_commit' = IF owner = "writer" THEN [e \in Epochs |-> 0] ELSE last_commit
    /\ Advance
    /\ UNCHANGED <<gitVars, ovVars, xapVars, owner, im, epoch_max, cur, added, acked, ixVars, badVars>>

add_epoch ==
    /\ At("epoch")
    /\ epoch_max' = epoch_max + 1 /\ epochs' = epoch_max' /\ im' = TRUE
    /\ Advance
    /\ UNCHANGED <<git, gitD, ids, mmVars, ovVars, xapVars, owner, last_commit, cur, added, acked, ixVars,
                   badVars>>

\* add or remove goes on in the new epoch.
Resume ==
    /\ At("resume")
    /\ IF cur.op = "add" THEN AddTo(epoch_max, cur.m, cur.num, cur.k) /\ UNCHANGED <<mm, acked>>
                         ELSE RemoveFrom(epoch_max, cur.m)
    /\ cur' = NoCall
    /\ Advance
    /\ UNCHANGED <<gitD, epochs, mmD, ovD, xap, xapD, owner, im, epoch_max, ixVars, badVars>>

\* The end of done: ipc_worker_stop waits for the workers, the lock goes.
release ==
    /\ At("release") /\ Drained
    /\ owner' = "none" /\ steps' = << >> /\ xap' = xapD
    /\ IF owner = "writer" THEN acked' = acked \union added /\ added' = {}
                           ELSE UNCHANGED <<acked, added>>
    /\ sync' = IF owner = "writer" THEN sync ELSE IF todo = {} THEN "none" ELSE "relock"
    /\ UNCHANGED <<gitVars, mmVars, ovVars, xapD, xq, im, epoch_max, last_commit, cur,
                   todo, latest, mm_tmp, badVars>>

-----------------------------------------------------------------------------
(* public-inbox-index, and what a mirror fetches without any lock. *)

\* External: git fetch gets the next commit of the inbox that is mirrored.
fetch ==
    /\ ids < Len(Upstream)
    /\ git' = Append(git, [id |-> ids + 1, e |-> 0, op |-> Upstream[ids + 1].op, b |-> Upstream[ids + 1].b])
    /\ gitD' = git' /\ ids' = ids + 1
    /\ UNCHANGED <<epochs, mmVars, ovVars, xapVars, owner, steps, wrVars, ixVars, badVars>>

\* log_range and log2stack: what follows last_commit, or all of an epoch whose
\* last_commit is unknown.
CommitsOf(e) == {gitD[i] : i \in {k \in 1 .. Len(gitD) : gitD[k].e = e}}
Known(e, id) == \E c \in CommitsOf(e) : c.id = id
log_range(e, id) == {c \in CommitsOf(e) : Known(e, id) => c.id > id}

\* Commits are told apart by id, which follows history.
Oldest(cs) == {c \in cs : \A d \in cs : c.id <= d.id}
Newest(cs) == {c \in cs : \A d \in cs : c.id >= d.id}

\* A unit for every epoch with new commits.
UnitsOf(e) ==
    LET cs == log_range(e, mm.lc[e])
    IN  {[e |-> e, tip |-> c.id, left |-> cs] : c \in Newest(cs)}

\* index_sync up to the loop of process_todo.
index_sync ==
    /\ sync = "none" /\ owner = "none"
    /\ owner' = "index" /\ sync' = "work"
    /\ todo' = UNION {UnitsOf(e) : e \in 0 .. epochs}
    /\ latest' = 0
    /\ mm_tmp' = mm.row
    /\ steps' = IF todo' = {} THEN Sync \o <<"lc", "release">> ELSE << >>
    /\ UNCHANGED <<gitVars, mmVars, ovVars, xapVars, wrVars, badVars>>

\* The number index_oid gives to blob b: that of a row with this blob, else
\* the old one of its first Message-ID unless another blob uses it, else the
\* old one of its generated ID; {} when it was never seen.
Reused(b) ==
    LET same  == {n \in Nums : ov[n] = b}
        first == {n \in NumsOf(mm_tmp, Mid[b.m]) : ov[n] = NoBlob}
        other == UNION {NumsOf(mm_tmp, MidsOf(b)[i]) : i \in 2 .. Len(MidsOf(b))}
    IN  IF same # {} THEN {n \in same : \A o \in same : n <= o}
        ELSE IF first # {} THEN first ELSE other

\* "never seen": the Message-IDs mid_insert is tried with, the first one and
\* then the others from the last one on.
FreshMids(b) ==
    LET ms == MidsOf(b)
        ok == {i \in 1 .. Len(ms) : Insertable(mm, ms[i])}
    IN  {ms[i] : i \in IF 1 \in ok THEN {1} ELSE {j \in ok : \A k \in ok : k <= j}}

\* The unit at work, lowest epoch first, and its next commit.
Working(u) ==
    /\ Idle("index") /\ sync \in {"work", "dirty"}
    /\ u \in todo /\ \A v \in todo : u.e <= v.e

Bug_NewestFirst(u) == Newest(u.left)

NextCommit(u) == Oldest(u.left)
PopCommit(u, c) == todo' = (todo \ {u}) \union {[u EXCEPT !.left = @ \ {c}]}

IndexOid(u, c) ==
    /\ Working(u) /\ c \in NextCommit(u) /\ c.op = "m"
    /\ LET DoIdx(n) == ov' = [ov EXCEPT ![n] = c.b] /\ ipc_do(add_xapian(n, c.b)) /\ latest' = c.id
                       /\ sync' = "dirty"
       IN  \/ \E n \in Reused(c.b) : DoIdx(n) /\ mm_tmp' = num_delete(mm_tmp, {n}) /\ UNCHANGED mm
           \/ /\ Reused(c.b) = {} /\ mm.seq < MaxNum
              /\ \E mid \in FreshMids(c.b) : mm' = mid_insert(mm, mid) /\ DoIdx(mm.seq + 1)
              /\ UNCHANGED mm_tmp
           \/ \* "is a duplicate"
              /\ Reused(c.b) = {} /\ FreshMids(c.b) = {}
              /\ UNCHANGED <<mm, ov, xq, latest, mm_tmp, sync>>
    /\ PopCommit(u, c)
    /\ UNCHANGED <<gitVars, mmD, ovD, xap, xapD, owner, steps, wrVars, badVars>>

index_oid == \E u \in todo : \E c \in u.left : IndexOid(u, c)

UnindexOid(u, c) ==
    /\ Working(u) /\ c \in NextCommit(u) /\ c.op = "d"
    /\ LET gone == {n \in Nums : ov[n] = c.b}
       IN  /\ mm' = [mm EXCEPT !.row = num_delete(@, gone)]
           /\ ov' = [n \in Nums |-> IF n \in gone THEN NoBlob ELSE ov[n]]
           /\ ipc_do(xdb_remove(gone))
    /\ latest' = c.id
    /\ PopCommit(u, c)
    /\ UNCHANGED <<gitVars, mmD, ovD, xap, xapD, owner, steps, wrVars, sync, mm_tmp, badVars>>

unindex_oid == \E u \in todo : \E c \in u.left : UnindexOid(u, c)

\* update_last_commit: in the transaction that is open, and back in history
\* when a writer was faster.
update_last_commit(u, id) == mm' = IF id = 0 THEN mm ELSE [mm EXCEPT !.lc[u.e] = id]

\* The end of index_todo; after the last unit index_sync calls done.
Bug_KeepUnit ==
    /\ \E u \in todo : Working(u) /\ u.left = {} /\ update_last_commit(u, u.tip)
    /\ UNCHANGED <<gitVars, mmD, ovVars, xapVars, owner, steps, wrVars, ixVars, badVars>>

EndUnit ==
    /\ \E u \in todo : Working(u) /\ u.left = {} /\ update_last_commit(u, u.tip) /\ todo' = todo \ {u}
    /\ latest' = 0
    /\ steps' = IF todo' = {} THEN Sync \o <<"lc", "release">> ELSE << >>
    /\ UNCHANGED <<gitVars, mmD, ovVars, xapVars, owner, wrVars, sync, mm_tmp, badVars>>

\* {need_checkpoint} after a message: commit everything and let others write.
reindex_checkpoint ==
    /\ sync = "dirty"
    /\ \E u \in todo : Working(u) /\ update_last_commit(u, latest)
    /\ steps' = Sync \o <<"lc", "release">>
    /\ UNCHANGED <<gitVars, mmD, ovVars, xapVars, owner, wrVars, ixVars, badVars>>

\* SIGINT, SIGTERM: {quit} ends the loop.
QuitAt(u, id) ==
    /\ Working(u) /\ u.left # {}
    /\ update_last_commit(u, id)
    /\ todo' = {} /\ latest' = 0
    /\ steps' = Sync \o <<"lc", "release">>
    /\ UNCHANGED <<gitVars, mmD, ovVars, xapVars, owner, wrVars, sync, mm_tmp, badVars>>

Bug_QuitAtTip == \E u \in todo : QuitAt(u, u.tip)

quit == \E u \in todo : QuitAt(u, latest)

Relock ==
    /\ sync = "relock" /\ owner = "none"
    /\ owner' = "index" /\ sync' = "work"
    /\ UNCHANGED <<gitVars, mmVars, ovVars, xapVars, steps, wrVars, todo, latest, mm_tmp, badVars>>

-----------------------------------------------------------------------------
\* The process that holds the lock is killed.  What is inside git-fast-import
\* is lost (--done), open transactions are rolled back.  Shard workers serve
\* what is in their pipes and hold the lock until then.
Crash ==
    /\ owner \in {"writer", "index"}
    /\ ncrash < MaxCrash \/ (steps # << >> /\ Head(steps) = "dead")
    /\ ncrash' = ncrash + 1
    /\ git' = gitD /\ mm' = mmD /\ ov' = ovD
    /\ owner' = "orphans" /\ steps' = << >>
    /\ xq' = IF owner \in Parallel THEN xq ELSE [s \in Shards |-> << >>]
    /\ IF owner = "writer"
       THEN /\ im' = FALSE /\ epoch_max' = -1 /\ last_commit' = [e \in Epochs |-> 0] /\ cur' = NoCall
            /\ added' = {}
            /\ UNCHANGED ixVars
       ELSE /\ sync' = "none" /\ todo' = {} /\ latest' = 0 /\ mm_tmp' = NoRows
            /\ UNCHANGED <<im, epoch_max, last_commit, cur, added>>
    /\ UNCHANGED <<gitD, ids, epochs, mmD, ovD, xap, xapD, acked, nfail, nrotfail>>

OrphansExit ==
    /\ owner = "orphans" /\ Drained
    /\ owner' = "none" /\ xap' = xapD
    /\ UNCHANGED <<gitVars, mmVars, ovVars, xapD, xq, steps, wrVars, ixVars, badVars>>

Writer == (\E m \in Msgs : add(m) \/ remove(m)) \/ barrier \/ done
Steps  == \/ GitCommit \/ GitFailsInDone \/ GitFailsInImporter \/ mm_commit \/ commit_lazy
          \/ commit_txn_lazy \/ ipc_wait_all \/ set_last_commits \/ add_epoch \/ Resume \/ release
Indexer == \/ index_sync \/ index_oid \/ unindex_oid \/ EndUnit \/ reindex_checkpoint \/ quit \/ Relock

Next == \/ fetch \/ Writer \/ Steps \/ Indexer \/ Crash \/ OrphansExit
        \/ \E s \in Shards : ShardStep(s)

\* Processes are scheduled and get the lock in their turn; a writer calls done
\* when it has no more mail (-watch: _done_for_now, -mda: at its end).
Fairness ==
    /\ WF_vars(Steps) /\ WF_vars(OrphansExit) /\ \A s \in Shards : WF_vars(ShardStep(s))
    /\ WF_vars(index_oid \/ unindex_oid \/ EndUnit) /\ SF_vars(Relock) /\ SF_vars(done)

Spec == Init /\ [][Next]_vars /\ Fairness

-----------------------------------------------------------------------------
\* "Order of data importance is: git > SQLite > Xapian": what readers find in
\* over.sqlite3 or in a shard is a blob that git has.
HasBlobs ==
    \A n \in Nums : \A t \in {ovD, xapD} :
        t[n] # NoBlob => \E i \in 1 .. Len(gitD) : gitD[i].b = t[n]

\* That is so whoever was killed and wherever, and if git-fast-import failed in
\* done; only a writer that goes on after a failed rotation breaks it.
GitFirst == nrotfail = 0 => HasBlobs

\* The numbers readers have seen are below the sequence msgmap.sqlite3 goes on
\* from after a crash or rollback, so mid_insert never hands one out again.
OverNumbered ==
    \A n \in Nums : ovD[n] # NoBlob \/ xapD[n] # NoBlob => n <= mmD.seq

\* A number readers have seen does not show another message from one commit to
\* the next, unless the two share a Message-ID.
NumbersNotReused ==
    [][\A n \in Nums : ovD[n] # NoBlob /\ ovD'[n] # NoBlob => Mid[ovD'[n].m] = Mid[ovD[n].m]]_vars

\* Nobody holds the lock and no index_sync is under way.
Quiet == owner = "none" /\ sync = "none"

Shown == {ovD[n].m : n \in {i \in Nums : ovD[i] # NoBlob}}

\* The commits last_commit says are indexed, and the blobs they leave in the
\* inbox.
Covered == {i \in 1 .. Len(gitD) : gitD[i].id <= mmD.lc[gitD[i].e]}
Live == {gitD[i].b : i \in {j \in Covered :
            /\ gitD[j].op = "m"
            /\ \A k \in Covered : k > j /\ gitD[k].b = gitD[j].b => gitD[k].op = "m"}}

\* A message can be found: in over.sqlite3, or in commits that an index_sync
\* is working on or will read.
Findable(m) ==
    \/ m \in Shown
    \/ \E i \in 1 .. Len(gitD) :
         /\ gitD[i].op = "m" /\ gitD[i].b.m = m
         /\ \/ gitD[i].id > mmD.lc[gitD[i].e]
            \/ \E u \in todo : gitD[i] \in u.left

\* A message done has returned for, and that nobody ever began to remove, is
\* in over.sqlite3 whatever crashed before or after.
KeptIsShown ==
    \A m \in acked : (\A i \in 1 .. Len(gitD) : gitD[i].op = "m" \/ gitD[i].b.m # m) => m \in Shown

\* A message done has returned for can be found, those that came back after a
\* removal included.
AckedIsShown == \A m \in acked : Findable(m)

\* Nothing is left over when nothing went wrong: the stores agree with each
\* other and with what the writer was told.
DoneMeansIndexed ==
    Quiet /\ ncrash + nfail + nrotfail = 0 /\ Upstream = << >> =>
        /\ xapD = ovD /\ acked = Shown
        /\ \A n \in Nums : ovD[n] = NoBlob <=> mmD.row[n] = NoMid
        /\ Covered = 1 .. Len(gitD)

\* The commits up to last_commit are in over.sqlite3 and in Xapian.
LastCommitIsIndexed ==
    Quiet => \A b \in Live : \A t \in {ovD, xapD} : \E n \in Nums : t[n] = b

\* A mirror whose index_sync was not killed has indexed what it says it has:
\* quitting half way and fetching beside it lose nothing.
MirrorIndexed ==
    Quiet /\ ncrash = 0 =>
        /\ xapD = ovD
        /\ {ovD[n] : n \in Nums} \ {NoBlob} = Live

\* A mirror gives a message the number it has in the inbox that is mirrored,
\* where every "m" commit took the next number, gaps included.
MirrorNumbers ==
    \A n \in Nums : ovD[n] # NoBlob =>
        \E i \in 1 .. Len(gitD) :
            /\ gitD[i].op = "m" /\ gitD[i].b = ovD[n]
            /\ Cardinality({j \in 1 .. i : gitD[j].op = "m"}) = n

\* Without removals, and with Message-IDs that are used once, it does: crashes
\* and checkpoints do not shift the numbers.
MirrorOrder == (\A i \in 1 .. Len(gitD) : gitD[i].op = "m") => MirrorNumbers

\* last_commit of an epoch is only replaced by a newer one.
LastCommitOnlyForward == [][\A e \in Epochs : mmD'.lc[e] >= mmD.lc[e]]_vars

\* done gives the lock back even if git-fast-import failed: a process never
\* finds itself holding the lock it is about to take (lock_acquire).
NotAlreadyLocked == steps # <<"dead">>

\* index_sync ends although it gives the lock away.
IndexEnds == sync # "none" ~> sync = "none"
=============================================================================
