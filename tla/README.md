# A TLA+ model of public-inbox

public-inbox archives mailing lists in git and serves them over HTTP, NNTP,
IMAP and POP3. This directory models the parts of it where several processes,
stores or callbacks have to agree, checks them with TLC and proves the most
important statements with TLAPS. Every definition is translated from the Perl
under `src/lib/PublicInbox/*.pm` or from the C++ of `xap_helper.h`, `xh_*.h`
and the headers they include; `PROJECT.json` ("map") names the lines.

## 1. The system

| Component | State | Operations | Talks to |
|---|---|---|---|
| **V2Writable** (with Import, Msgmap, OverIdx, SearchIdxShard, MultiGit, Lock) | git epochs, `msgmap.sqlite3`, `over.sqlite3`, Xapian shards, `inbox.lock`, `{im}`, `{last_commit}` | `add`, `remove`, `barrier`, `checkpoint`, `done`, `importer` (rotation), `index_sync`, `reindex_checkpoint` | git-fast-import over a pipe, one process per shard over pipes (`ipc_do`), other writers through the lock, readers through the stores |
| **xap_helper** (C++): processes | `worker_pids`, `nworker`, `nworker_hwm`, self-pipe, `sock_fd` | `prefork_loop`, `dynfork_loop`, `recv_loop`, signal handlers | requests over one SOCK_SEQPACKET socket shared by all workers |
| **xap_helper**: search handles and `mset` | `srch_cache`, `shard_nfd`, open databases, the query strings of a request | `dispatch`, `srch_init`, `srch_cache_renew`, `lock_shared_maybe`, `cmd_mset`, `qry_xpand_col`, `apply_roots_filter`, `enquire_mset` | indexers that commit, Xapcmd that replaces shards (`open.lock`) |
| **xap_helper**: `dump_roots`, `dump_ibx` | line buffer, `nr_out`, lock on the root2id file | `dump_roots_iter`, `dump_roots_flush`, `dump_ibx_iter`, `write_all` | other workers through one pipe to sort(1) |
| **xap_helper**: dates (`approxidate.h`, `xh_date.h`) | fields of a date while its words are read | `parse_date_basic`, `approxidate_str`, `to_column_fmt`, range and field processors | value slots filled by SearchIdx |
| **khashl.h** | buckets, `used` bits, `count` | `get`, `put`, `del`, `clear`, `resize` | `srch_cache`, the root2id table |
| **Git**, GitAsyncCat, Gcf2Client; **Lg2**, `lg2.h` | `{sock}`, `{inflight}`, `pi_io_rbuf`, `{alt_st}`; the child's iovec | `cat_async`, `async_barrier`, `write_all`, `cat_async_step`, `cat_async_retry`, `event_step`, `gcf_drain`, `cleanup`; `gcf2_loop`, `cat_oid` | one child over a socket, callbacks that ask again, the event loop |
| **Limiter**, PsgiLimiter | `{running}`, `{run_queue}` | `may_start`, `_do_start`, `_start_next` | contexts, whose destruction gives a slot back |
| **Qspawn** | `{rpipe}`, `{qfh}`, `{_err}`, `{passed}`, `qspawn.wcb` in the PSGI env | `psgi_yield`, `psgi_qx`, `yield_pass`, `yield_chunk`, `waitpid_err`, `finish`, `finalize`, `DESTROY` | Limiter, child processes, the event loop's reaper, HTTP clients |
| SearchIdx, IdxStack (v1) | as V2Writable, one git directory | `v1_process_stack`, `v1_checkpoint` | |
| OverIdx threading | thread ids, ghosts | `link_refs`, `merge_threads` | |
| IPC work queues | SOCK_SEQPACKET queues | `wq_io_do`, `wq_close` | lei, ExtSearchIdx, V2Writable |
| ExtSearchIdx, CodeSearchIdx | several inboxes or repositories in one index | `eidx_sync`, `cidx_run` | inboxes, xap_helper |
| DS, Daemon, HTTP, NNTP, IMAP, POP3 | connections, write buffers, timers, worker table | event handlers, signals | |
| LEI, LeiStore, LeiMailSync, LeiMirror, Watch | mail sync database, folders, job queues | commands and background workers | |

What is hard here:

* **No common transaction.** A v2 inbox consists of four stores that are
  committed one after the other; a process may die between any two commits.
  The order of the commits is the only protection.
* **Locks given away in the middle.** `index_sync` releases `inbox.lock` at a
  checkpoint and goes on later with the stack of commits and the copy of
  msgmap it made at its start.
* **Asynchronous signals.** xap_helper's parent and workers use a bounded
  self-pipe, racing SIGTERM and recvmsg, and an array of process ids that
  grows and shrinks.
* **Level-triggered events.** With `-l` the parent forks a child for a request
  that an earlier child has not received yet.
* **Destructors as control flow.** Limiter slots and Qspawn answers depend on
  when Perl destroys an object: EOF of a pipe and the reaping of the process
  come in either order, and a second command may share the env.
* **Answers without ids.** Requests to git are pipelined and answers are paired
  with callbacks by their order alone, while callbacks ask again, writes wait
  for reads, and a retry moves what is in flight to another child.
* **Algorithms at their edges.** khashl moves entries around the end of its
  table and resizes in place; the date parser guesses, from words in any
  order, what a number means.
* **Readers beside replacement.** A cached Xapian handle must be neither
  stale, nor a mixture of old and new shards, nor freed while in use.

`PROJECT.json` ("hazards") lists these at their lines with the properties that
would catch them going wrong.

## 2. Modules

| Module | Models | State and actions |
|---|---|---|
| `Limiter` | Limiter.pm | `running`, `runQueue`, and for each context whether it is new, queued, holds the `limiter.next` guard, or is gone. One action each for `may_start`, the destruction of a context (`_start_next` with its loop over disconnected clients) and a client hanging up. |
| `Qspawn` (extends `Limiter`) | Qspawn.pm on public-inbox-httpd | a record per object with the fields that steer control, plus its child; `wcb` is the set of envs whose callback was not called. A limiter step and what `start_cb` or `fail_cb` does to the object are one action, as in the code, where they run in one call. |
| `XapHelper` | `prefork_loop`, `recv_loop` and handlers | parent and workers at the granularity of system calls; handlers run between any two of them. |
| `XapDynfork` | `dynfork_loop` | parent, self-pipe, level-triggered poll, children that receive once. |
| `XapSrch` | `dispatch`, `srch_init`, `srch_cache_renew`, `cmd_mset` with thread expansion and roots filter, `enquire_mset`; Xapcmd `commit_changes` | the cache of one worker, with databases as generations of shards, beside commits and replacements. A query string is the list of what has to be read for it (`Plans`); each part has the code's own retries and its own way to give up. |
| `KhSet` | the promise of a hash table | a set, one call at a time, each with its answer. |
| `Khashl` | `khashl.h` | buckets and used bits of the old table and of the one `resize` builds; each iteration of a loop is a step. Implements `KhSet`. |
| `ApproxiDate` | `approxidate.h` | one action reads one word, in both passes: `parse_date_basic` (exact) and `approxidate_str` (guessing), whose result counts if the first fails. |
| `XhDate` (extends `ApproxiDate`) | `xh_date.h` | operators on the parsed time: the number of a slot, ranges and single dates as predicates on a message. |
| `GitCat` | Git.pm, GitAsyncCat.pm, Gcf2Client.pm; Lg2.pm, `lg2.h` | the client's Perl call stack (`frames`), the array of each child, both directions of the socket, and a child with partial writes. |
| `XapDump` | `cmd_dump_roots`, `cmd_dump_ibx` | several workers of one pipe: buffers, short writes, retries and one lock, or line-buffered stdio without a lock. |
| `V2Writable` | V2Writable.pm and the stores below it | every store twice: what the process sees (`x`) and what a crash leaves and readers see (`xD`). `steps` is what is left of `checkpoint`, `done` or `importer`, so that a crash can come between any two commits. A unit of `{todo}` is an epoch with its tip and the set of commits left in its stack; a shard request carries the set of numbers it is about. |
| `MCXapSrch`, `MCV2Writable`, `MCKhashl`, `MCDate`, `MCGitCat` | constants that a cfg cannot express | |
| `QspawnProofs` | theorems about `Limiter` and `Qspawn` | |
| `XapHelperProofs`, `XapDynforkProofs`, `XapSrchProofs`, `XapDumpProofs`, `KhashlProofs`, `GitCatProofs`, `V2WritableProofs` | theorems about the module of that name | |

`Qspawn` is the composition of two components: its next-state relation
conjoins its own updates with the Limiter's actions. `XapSrch` composes the
worker with Xapcmd and an indexer, `V2Writable` the writer with the indexer,
the shard processes and git-fast-import, `GitCat` the client with either kind
of child.

`Khashl` is shown to implement `KhSet` (`IsSet`): its set of keys is that of
the used buckets of both tables, with the entry `resize` has in hand, and with
the key `del` is about to drop instead of the stale copy in the hole. A call
takes effect at its last step.

### Abstractions

* A message is its content hash, with a Message-ID that several messages may
  share; a blob is a message with the number of its generated Message-ID.
  Commits are numbered in the order they were made, lost ones included, so an
  id is never used for two commits.
* Epoch rotation may happen at any `add` or `remove` (`rotate_bytes` is data).
* A shard request is served at once by a process without workers: nothing else
  happens until the queues are empty (`May`).
* Xapian serves a reader's revision until two commits later; more commits make
  no difference (`age`).
* A line of `dump_roots` is two halves: enough to see it torn. A line of
  `dump_ibx` is shorter than PIPE_BUF, and the kernel writes it whole.
* A hash function of khashl is its choice of home buckets; all of them are
  tried. Values and cached hashes travel with their key.
* A date is a sequence of words, records with a kind, instead of characters.
  Local time has a constant offset. The two-pass result of `ApproxiDate` was
  compared with a compiled `approxidate.h` on 147 000 sequences of words,
  without a difference.
* A number with date and time of day is a pair, ordered like the decimal number.
* An answer of a git child is its header, its data and a newline, each byte
  marked with its object; a request is written whole. The stat of the
  alternates file is a version number. Both are enough to see answers torn,
  swapped or doubled.
* Retries (nine or ten in the code) are a constant: two in `xap_srch`, any
  number in the proofs.
* Signals other than SIGTTIN, SIGTTOU, SIGUSR1, SIGCHLD, SIGTERM and the
  killing ones are left out; process ids are not used again in `XapHelper`.

## 3. Runs

All bounds are constants, named in the module that declares them.

| Run | States | Bounds | What it shows |
|---|---|---|---|
| `qspawn` | 24 k | 4 requests, one by `psgi_qx`, 1 slot, depth 1 | slots are counted (`SlotsCounted`), nobody waits beside a free slot (`WorkConserving`), who waits is served (`QueuedIsServed`); each client is answered exactly once and in the end (`OneAnswer`, `EveryClientAnswered`), "BUG: no qspawn.wcb" is unreachable (`HeaderHasWcb`), children never outnumber slots (`ChildrenBounded`). Four allow one running, two queued and one refused, or a chain of two with a queue behind it. |
| `xap_helper` | 503 k | 2 workers, 4 processes, 2 signals, 2 requests, one kill, pipe of 1 byte, failing forks | no worker escapes the parent (`NoStrayWorker`), requests are served once (`ServedOnce`) and received (`RequestsReceived`), only the end of the socket ends the service (`GivesUpAfterClose`), and it ends all processes (`EndsAfterClose`). Two signals dismiss a worker and ask for another while the first still runs; with the kill, no worker may be left. A parent whose last fork failed sleeps until the next signal (`Stranded`); the liveness properties allow for that and for nothing else. |
| `xap_dynfork` | 110 k | 3 children, 2 requests, 1 signal, 1 kill, pipe of 1 byte | the loop ends only after all requests were received (`EndsOnlyAfterAll`), each is received unless fork fails, and closing ends the loop. |
| `xap_srch` | 595 k | 3 indices (1, 2, 1 shards; one of code) over 3 descriptors, 2 retries, 2 query strings, 2 failures, 1 replacement | cache within its limit, handles live, unmixed and fresh, replacement invisible, every request ends, and a search only loses its roots filter or a thread if the index was committed to twice for every reopen (`WideOnlyUnderLoad`). Not all indices fit, so eviction happens with every mixture of cached entries. |
| `xap_dump` | 408 k | 2 workers, both running either command, with 2 documents of 2 lines, 2 modifications, one kill | lines arrive whole, success means completeness, everybody ends. |
| `v2_writer` | 2.7 M | 2 messages with one Message-ID, 2 epochs, 3 commits, 4 numbers, one crash, one failure of git-fast-import | see section 5. Three commits are add, remove, add again. |
| `v2_mirror` | 17.5 k | 5 fetched commits (add, add, remove, add, add again), 2 shards with processes, one crash | see section 5. |
| `khashl` | 920 k | 4 keys, every hash function into 4 and 8 buckets | every entry is reachable from its home bucket (`ProbeChain`) and the table is a set (`IsSet`), through sequences of calls of any length. Four keys pass the load limit of four buckets (3), so the table grows and shrinks with its buckets nearly full, and chains wrap around the end. |
| `date` | 758 k | up to 4 of 25 words, clocks on a 31st and on a leap day | an explicit date means the time it says in any order of its parts (`ExplicitDateParsed`), relative dates are not ahead (`RelativeIsPast`), ranges select exactly what lies between their ends (`RangeIsExact`). Four words: date, time, offset, weekday. |
| `git_cat` | 522 k | 3 requests for an empty object, one of a byte, or a barrier; callbacks within a callback once; a socket of 1 request and 2 bytes; one death, one change of alternates | a callback gets its own object, whole and once (`AnswerIsOwn`), and nobody waits for ever (`RequestsAnswered`), unless one of the steps of section 6 was taken. The sockets are smaller than any answer, so both sides block on each other's writes. |
| `date_field`, `git_retry` | | | violations: section 6. |

Each property of a passing run has a mutant in `PROJECT.json`: a plausible bug
(the `Bug_` operators) with which TLC finds the property violated.

## 4. Fairness

Only what the kernel or the event loop guarantees is assumed.

* `Khashl`: a loop is not interrupted.
* `ApproxiDate`: none; only safety is checked.
* `GitCat`: the client's thread, the event loop (readable sockets and dead
  children) and the child go on; requests, deaths, timers and changes of
  alternates come as they like.
* `Limiter`: a context that holds a slot is destroyed in the end. Nothing
  obliges clients to come or to disconnect.
* `Qspawn`: commands end, the event loop serves pipes and dead children, and
  objects nothing refers to are destroyed (Perl counts references).
* `XapHelper`, `XapDynfork`: parent and workers are scheduled and SIGCHLD is
  delivered; forks, kills, signals and clients are not fair.
* `XapSrch`: the worker is scheduled and Xapcmd does not stop half way.
* `XapDump`: workers are scheduled, and a waiter for flock(2) that gets its
  chance again and again takes the lock in the end (strong fairness): other
  workers have finitely many documents.
* `V2Writable`: steps of a call, shard processes and the indexer's loop go on;
  an indexer waiting for the lock gets it if it is free again and again, and a
  writer calls `done` in the end (-watch: `_done_for_now`, -mda: at its end).
  Crashes and failures are not fair.

## 5. The v2 inbox

`V2Writable.pm:596` states the design: "Order of data importance is: git >
SQLite > Xapian". The properties say what readers may rely on when any process
may be killed between any two commits:

* `GitFirst`: what is in `over.sqlite3` or a shard is a blob that git has. It
  holds through every crash and a failing `done`, not after a failed rotation
  (section 6).
* `OverNumbered`: readers never see a number that msgmap could hand out again
  after a crash, because msgmap is committed first.
* `KeptIsShown`: a message `done` has returned for, and nobody began to remove,
  is in the overview on disk, whatever crashed before or after.
* `DoneMeansIndexed`: when nothing went wrong, git, msgmap, overview, Xapian
  and what the writer was told agree whenever nobody is at work, and
  `last_commit` covers all of git, although an indexer worked with an old stack
  while the lock was away.
* `MirrorIndexed`, `MirrorOrder`, `NumbersNotReused`, `IndexEnds`: a mirror that
  fetches beside `index_sync`, quits or relocks at any commit has indexed what
  `last_commit` says, under the numbers of its source, gives no visible number
  to another Message-ID, and ends.

The proofs showed where these need their conditions, and TLC confirmed it.
A number may pass to another message with the same Message-ID: upstream adds
m1, removes it and adds m2 under one Message-ID, and m2 gets the number of m1
(`index_oid` looks numbers up by Message-ID; see `MirrorNumbers` in section 6).
`MirrorOrder` needs Message-IDs that are used once: with a shared one, a blob
that was indexed under a generated Message-ID before a crash is found under the
first one afterwards, and the numbers shift.

## 6. Where the code and its documentation disagree

Two disagreements are runs of their own:

* **`git_retry`** (`Git.pm:567`): `cat_async` takes `{inflight}`, then
  `write_all` waits and reads answers, one of which makes `cat_async_retry`
  replace the child and move all entries to a new array. The line is written to
  the new child, the entry pushed on the old array: callbacks get the objects
  of other requests and the last one is never called. `t/git.t:174` tests
  `cat_async_retry` and expects each callback to get its own object, without a
  full pipeline.
* **`date_field`** (`xh_date.h:130`): a date without `..` selects up to its
  number plus 86400. That is a day in `rt:` (seconds); `d:` counts in YYYYmmdd,
  where it is more than eight years, and `dt:` in YYYYmmddHHMMSS, where the
  range ends with 08:59:59 of the same day. `Search.pm:355` and `t/search.t:602`
  expand such a date to a day, for queries that pass through them.

Three more have a cfg of their own, with which TLC finds them:

* `V2LastCommit.cfg`, `LastCommitIsIndexed` (`V2Writable.pm:875`): during
  `index_sync`, `update_last_commit` writes into the msgmap transaction that
  `checkpoint` commits first. A crash before `over.sqlite3` is committed leaves
  commits that count as indexed and are not. The comment at 581 says that
  last_commit must not be committed before the shards are done.
* `XapHelperTable.cfg`, `TableDoesNotShrink` (`xap_helper.h:1130`): SIGTTIN
  after two SIGTTOU reallocates `worker_pids` to `nworker + 1` entries, fewer
  than `nworker_hwm`, up to which the parent goes on reading. Comment at 1146:
  "worker_pids array does not shrink".
* `XapHelperReopen.cfg`, `ReopenReachesWorkers` (`xap_helper.h:1032`): the loop
  that forwards SIGUSR1 starts at `nworker`, so no active worker is told to
  reopen its logs, against public-inbox-daemon(8).

The others are definitions that TLC violates when they are put into the named
cfg in place of its properties:

| Definition | cfg | Behaviour |
|---|---|---|
| `HasBlobs` | `V2Writable.cfg` | git-fast-import fails when an epoch ends (`V2Writable.pm:651`); `{im}` is unset already, the error ends that `add` only, and the next `done` commits rows whose blobs are lost. |
| `NotAlreadyLocked` | `V2Writable.cfg` | git-fast-import fails in `done` of a writer without shard processes: `idx_close` dies with "txn active" (`SearchIdxShard.pm:65`) before the lock is released (`V2Writable.pm:628`), and the next call trips over "already locked" (`Lock.pm:26`). |
| `AckedIsShown` | `V2Writable.cfg` | a removal is cut short after git has it; the redelivered message is dropped as a duplicate of the remaining row (`V2Writable.pm:159`), then unindexed by `index_sync`. |
| `LastCommitOnlyForward` | `V2Writable.cfg` | an `index_sync` that had given the lock away sets last_commit back to where it stopped (`V2Writable.pm:865`), against the comment at 857. The commits are only indexed again. |
| `MirrorNumbers` | `V2Mirror.cfg` with `Mid <- SameMid`, two messages, and add m1, remove m1, add m2 upstream | m1 is indexed before the `index_sync` that sees the rest: `{mm_tmp}` still has its row (`V2Writable.pm:1055`), m2 gets number 1 where the source has 2, against the comment at 998. |
| `DocumentedDepth` | `Qspawn.cfg` | the queue holds depth + 1 contexts (`Limiter.pm:94`); public-inbox-config(5) calls depth "the maximum queue depth". |

Behaviours that are part of the models and that their properties allow for, on
purpose and by name:

* `GitCat`, `astray`: a barrier asked again by `cat_async_retry` is sent as the
  string of its reference ("barrier", `Git.pm:209`); a request the retry holds
  while the new child fails is forgotten ("lost"); after the libgit2 child has
  died `gcf2_async` returns without calling the callback ("gone",
  `Gcf2Client.pm:43`); and "stale", the step of `git_retry`.
* `XapSrch`: a roots filter is dropped after nine reopens, or when the index
  does not know the repository (`xap_helper.h:388`), and a document of a
  thread after ten (`xh_thread_fp.h:43`); the search then covers more, or
  less, than was asked.
* `ApproxiDate`: dates ahead of the clock are only refused once a time of day
  is known (`approxidate.h:231`), an offset of -1 minute cannot be told from
  none, and what is left of a header's number is truncated to an int.

## 7. Proofs

TLC checks the instances above; the theorems hold for every value of the
constants, from the assumptions named in the modules (positive `{max}` and
`{depth}`, finite sets, at least one shard per index, natural numbers as
bounds). Every inductive invariant was checked with TLC before it was proved.

**QspawnProofs, the Limiter.** `SlotsCountedHolds`, `WorkConservingHolds`,
`QueueBoundHolds`. `SlotsCounted` is not inductive alone: a context taken out
of the queue could hold a slot already. The invariant is
`IInv == TypeOK /\ SlotsCounted /\ WorkConserving`; the hard step is
`StartNextStep`, where a prefix of the queue is dropped, one context takes the
slot over and the rest stays, so that the holders exchange one element
(`HeldCount`) and the queue remains a list without repetition
(`RestOfQueue`). `NextIInv` says so for every step.

**QspawnProofs, Qspawn.** `QspawnUnderLimiter`: each step of Qspawn is a step of the
Limiter or leaves it alone, so the above carries over. `ChildrenBoundedHolds`
adds to `IInv` that an unreaped child belongs to an object with a slot
(`ChildHoldsSlot`). A slot is only taken from the object that is destroyed
(`SlotsKept`), which cannot be one with an unreaped child; the children are
then a subset of the holders, whose number is at most `{max}`.

`OneAnswerHolds` and `HeaderHasWcbHolds` rest on `AInv`: an object that waits
for a slot is untouched, an env that has not come yet has no callback and no
answer (`NotYetCome`), a callback is called once and then gone (`CalledOnce`), a
waiting one has one owner and everyone else with its env has passed it on
(`OneOwner`), and whoever still reads a header owns its callback
(`ReaderHasWcb`). The lemma `HeldChange` says it once for all steps of an
object that holds a slot: EOF, errors, reaping, chaining, destruction.

**XapHelperProofs.** `NoStrayWorkerHolds`, `ServedOnceHolds`,
`GivesUpAfterCloseHolds`. `NoStrayWorker` speaks of the slots below
`nworker_hwm` and is not inductive: `do_sigttin` empties a slot without asking
who is in it. `Tracked` is the reason why that is safe: a running worker is
below `nworker`, or `do_sigttou` has dismissed it. `start_workers` numbers its
processes without a gap (`FewerBelow`), so that a new one is nobody else. The
assumption `NWorker <= MaxPid` says that there are process ids for the first
workers; without it no run could start.

**XapDumpProofs.** `LinesIntactHolds`, `DoneIsCompleteHolds`. A half line at the
end of the pipe is followed by the first thing in the buffer of the worker that
holds the lock (`OutInv`); buffers hold whole lines until their flush begins
(`BufInv`); a line of a document that was left without a warning is in the pipe
or in the buffer (`KeptLines`). `dump_ibx` takes no lock; a buffer of its is
written line by line, whole.

**KhashlProofs.** `ProbeChainHolds` and `TableIsSet`, for every set of keys,
of sizes and every hash function. `KInv` describes the table in the middle of
its loops too: no key in two places, the stale copy in the hole of `del` aside
(`Distinct`), `count` is what is there (`Counted`), `resize` has emptied what it
has passed (`Swept`), entries are reached from home in both tables (`Chains`),
the probe has seen only other keys (`Searched`), the bucket the kicked entry
would take is on its chain (`Kicked`), and no entry between the hole and `j`
would be cut off by the hole (`Shifted`). The arithmetic of the circle is in
lemmas about `Span`. `TableIsSet` is `Spec => KS!Safety`: initial states map to
initial states and each step to a step of `KhSet` or a stutter. It is `IsSet`
without the fairness of `KhSet`, which TLC checks with it.

**XapDynforkProofs.** `EndsOnlyAfterAllHolds`, with the type invariant and
`NoInputIsEnd`: a child with status EX_NOINPUT has seen an empty, closed
socket, which remains true until the parent reads the status.

**XapSrchProofs.** `HandleIsLiveHolds`, `OneGenerationHolds`,
`FreshAnswerHolds`, `SwapIsInvisibleHolds`, `WideOnlyUnderLoadHolds`. The invariant `SInv` says what
open.lock protects (`LockInv`: shards are out of place or of different
generations only while Xapcmd holds it, and then no worker opens shards), that
the shards opened so far are of the current generation (`OpenInv`), and that a
handle about to be queried has what was there when the request came
(`QueryInv`). `LoadInv` counts for the last: the commits since the request are
at least twice the reopens of the part under way plus the age of the handle,
for a handle can only be unreadable after two commits, and reopening makes it
new.

`FdsWithinLimitHolds` says that `shard_nfd` bounds what the cached handles have
open (`FdInv`): it is counted up when a handle enters the cache, eviction and
emptying count it down or start again, and it may exceed the limit only while
the cache has at most one handle. The sum over a set of handles is compared
with the number of pairs of a handle and one of its descriptors (`Slots`): a
cardinality, for which the library has theorems, where a fold has none. The proof
found the condition: `my_fd_max` is RLIMIT_NOFILE minus a reserve
(`xap_helper.h`), and if that is negative a single handle is above the limit
with nothing to evict.

**V2WritableProofs, readers.** `GitFirstHolds` and `OverNumberedHolds`, for every set of
messages and Message-IDs, any number of shards, epochs, commits, crashes and
failures, with and without shard processes. Neither is inductive: what readers
see depends on what is in the queues of the shards and on how far a checkpoint
has come. `VInv` has four parts besides the types.
`Flow`: the steps left of `checkpoint`, `done` and `importer` come in one of the
orders of the code, and a call that waits for an epoch is the writer's.
`Durable`: once the steps up to msgmap are done, and whenever the lock is free,
git and the sequence of msgmap are on disk. `Documents`: whatever over, the
shards and the queues hold is accounted for by msgmap and git, in memory
(`Known1`) or on disk (`KnownD`), unless the shards are abandoned by a crash or
a rollback and will never commit. `Committed`: what precedes a commit request in
the queue of a shard is accounted for on disk. `Sources`: rows of msgmap and of
`{mm_tmp}` are below the sequence, and commits to index are in git.
A step that writes keeps `Documents` and `Committed` if what it writes is
accounted for and nothing is forgotten (`WritesKept`); the steps that forget
(`Crash`, `GitFailsInDone`) make the shards abandoned, and `release` starts them
over from what is committed. `GitFailsInImporter` forgets the commits and nothing
else: from then on `GitFirst` promises nothing, which is the defect of section 6.

**V2WritableProofs, what is in the stores.** `VInv` says that stores do not run ahead of each other; the
theorems here say what is in them. Each part below is inductive together with
`VInv` and the parts before it.

* `Agreed`, for `NumbersNotReusedHolds`: what msgmap says of a number, in memory,
  on disk and in the copy `index_sync` made at its start, is one Message-ID, it
  is one of the document's, and the documents in memory and on disk share their
  first Message-ID. A row may be deleted in one place and not yet in another, so
  the three have to be compared with each other and not only with over. A call
  that waits for an epoch has its row and not yet its document.
* `OnDisk` and `Kept`, for `KeptIsShownHolds`: how far the plan has come decides
  which stores are the same in memory and on disk (`Past`); every message that
  was added in this transaction, or acknowledged and not removed in a commit of
  git, has a document in memory and, if acknowledged, on disk. A crash forgets
  what was added, not what was acknowledged; `index_sync` only unindexes what a
  commit of git removed.
* `Queued` and `Told`, for `DoneMeansIndexedHolds`: the last request about a number
  in the queue of its shard, or the shard if there is none, has what over shows
  (`Follows`), and nothing after the last commit request concerns a number once
  the plan is past it (`Flushes`); msgmap and over have the same numbers,
  `{last_commit}` is the newest commit of its epoch (`Current`), and the messages
  in over are those added or acknowledged.
* `Fetched`, `Mirrored`, for `MirrorIndexedHolds`: there is a position in the
  commits such that the stack of `index_sync` and `last_commit` are what a run
  would have left that dealt with that many (`Position`), and over has what they
  leave in the inbox (`InInbox`).
* `Counted`, for `MirrorOrderHolds`: without removals the sequence of msgmap is
  that position, on disk `last_commit` is the sequence, and number n is commit
  n, in every row and document. A crash takes both back together.

Two hypotheses appear in the statements. `PlainMirror` (the inbox is a mirror, and
different blobs have different Message-IDs) is needed for the reasons of section
5. `NoDuplicates` (upstream does not add a blob twice without removing it in
between) is what `V2Writable::add` of the source does. Both hold in `v2_mirror`.

**GitCatProofs.** `AnswerIsOwnHolds`, for every set of objects and sizes, any
capacity of the socket and limit of `{inflight}`, any number of requests, any
depth of callbacks in callbacks, any number of alternates and of children that
die. Answers carry no id, so the invariant has to account for every byte between
the child and the client. `IInv` (`SteadyHolds`) has two layers.

`Types` holds in every reachable state, the defects of section 6 included. Its
part `OnePlace` says that a request is in at most one place: held by one frame of the
Perl call stack (`cat_async` that waits in `write_all`, or `cat_async_retry`), at
one position of one array, or answered. A step moves at most one request and
keeps the frames below those it works on, so every action is an instance of one
lemma (`Fits`, `OrderlyStep`).

`Steady` holds as long as no step of section 6 was taken (`astray = {}`):

* `Paired`: the wire is what `pi_io_rbuf`, the socket and the iovec of `cat_oid`
  hold, in this order (`Wire`). It is a row of answers to the first k entries of
  the array of `{sock}` (`Framed`), and the requests on their way to the child are
  those of the other entries. So a read, a short write of `writev` and a callback
  are each a fact about sequences: bytes move along the wire and leave it alone
  (`CutFirst`, `CutSecond`), an answer is added at its end (`FramedMore`), or the
  first one is taken off (`FramedRest`). A child that dies cuts the last answer,
  and the wire is then framed up to that point.
* `Views`: `git cat-file` sees what there was when it was started, and requests
  that were asked again are visible to it. This is why the second "missing" may
  be believed (`MayMiss`); `gcf2_loop` looks again by itself.
* `Sockets`: who reads an answer waits for one, on the array of `{sock}`; an array
  of another child that still has entries is being moved by `cat_async_retry`,
  unless a child died. `StepEmpty`, a `croak` in `cat_async_step`, is therefore
  out of reach (`NeverEmpty`).
* `Owned`: the answers given so far are their requests' own.

The two layers need each other: that a callback is not called twice comes from
`OnePlace`, that it gets its own object from `Paired`. `Steady` was checked with
TLC on the constants of `git_cat`, with sockets of one and of two requests.

`QueueBoundHolds` (the queue holds at most depth + 1 contexts) is stated for
every limiter and has no run of its own.

Only model-checked: liveness and fairness, out of the prover's reach (also the
fair half of `IsSet`); what `ApproxiDate` and `XhDate` compute for a sequence of
words (`ExplicitDateParsed`, `RelativeIsPast`, `RangeIsExact`), which needs an
induction over data. `RetryKeepsPairs` is violated (section 6) and has no
theorem.

## 8. Not modelled, and the plan

In `V2Writable`: `purge` and `replace` (they rewrite history), `--reindex`,
`--rethread`, discontiguous history, xapian_only. In `XapHelper`: `-j0`. In
`GitCat`: the synchronous `cat_file`, the separate checker process of old
versions of git, and `lg2_cfg.h`, which only reads configuration. In `Khashl`:
ensembles, which nobody instantiates. In `ApproxiDate`: how words and digits
are cut out of the string. `PROJECT.json` ("components") names all other parts
with the reason.

Next, in this order:

1. The abstract specification of an archive (a set of messages and their
   numbers) and the refinement of `add`, `remove` and `done` to it.
2. POP3 and POP3D: the maildrop lock with its two layers, `uid_dele`, expiry;
   two sessions never share a maildrop, deletions only move forward.
3. IPC work queues: blocked senders, workers that die, `wq_close`.
4. OverIdx threading and SearchThread as operators against a reference.
5. ExtSearchIdx (`eidxq`), LeiMailSync, Daemon (upgrade by SIGUSR2).
