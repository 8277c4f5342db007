------------------------------ MODULE XapSrch ------------------------------
(***************************************************************************)
(* The search-handle cache of one xap_helper.h worker (dispatch,           *)
(* srch_init, srch_cache_renew, lock_shared_maybe) and cmd_mset, beside an *)
(* indexer that commits and an Xapcmd that replaces the shards of an index *)
(* one after another (public-inbox-compact, -xcpdb), and may leave it with *)
(* more or fewer of them (--reshard).                                      *)
(*                                                                         *)
(* A handle is identified by its -d arguments (ckey), one for each shard.  *)
(* An index that is resharded has one key for each number of shards: the   *)
(* client lists the directories, and its request may be late.              *)
(***************************************************************************)
EXTENDS Integers, Sequences, FiniteSets, FiniteSetsExt

CONSTANTS
    Indices,     \* the indices searched
    Code,        \* those of source code (-c)
    Keys,        \* ckey: the handles
    IndexOf,     \* the index of each
    NShards,     \* number of -d arguments of each
    Bare,        \* keys some of whose requests have no open.lock: no -l, or no such file
    NoKey,       \* no request yet
    SHARD_COST,  \* SHARD_COST
    my_fd_max,   \* my_fd_max: RLIMIT_NOFILE - 64
    Retries,     \* reopens in enquire_mset and apply_roots_filter (9)
    MaxQry,      \* bound: query strings of a request
    MaxSwap,     \* bound: replacements of each index
    MaxFail      \* bound: failures to open or to lock in a request (EMFILE, ENOMEM, ENOLCK, ...)

ASSUME KeyAssumption ==
    /\ IsFiniteSet(Keys) /\ NoKey \notin Keys /\ Code \subseteq Indices
    /\ IndexOf \in [Keys -> Indices] /\ NShards \in [Keys -> Nat \ {0}] /\ Bare \subseteq Keys
    /\ \A x \in Indices : \E k \in Keys : IndexOf[k] = x
ASSUME CostAssumption == SHARD_COST \in Nat \ {0} /\ my_fd_max \in Int
ASSUME BoundAssumption ==
    Retries \in Nat \ {0} /\ MaxQry \in Nat \ {0} /\ MaxSwap \in [Indices -> Nat] /\ MaxFail \in Nat

VARIABLES
    cache,      \* srch_cache: keys with an entry
    db,         \* db of each entry: the generations of its shards, if open
    stale,      \* history: entries that lack a commit to their index
    loose,      \* history: entries whose shards were not all opened under one open.lock
    shard_nfd,  \* shard_nfd
    pc,         \* where the worker is in dispatch
    mode,       \* why it is opening shards
    cur,        \* the key of the current request
    opened,     \* generations of the shards opened so far
    age,        \* commits to its index since the first of them was opened, at most 2
    sh,         \* the worker holds open.lock shared
    todo,       \* what is left to do for the current query string, see Plans
    left,       \* query strings left
    tries,      \* reopens done for the first of todo
    wide,       \* history: what the query was not narrowed by
    seen,       \* history: replacements done when the request was received
    lacks,      \* history: db lacks a commit made before the request
    repo,       \* history: whether the index has the repository of a code search
    knows,      \* the shards that are open have it
    gen,        \* generation of each shard, -1 while it is not in place
    layout,     \* number of shards of each generation of an index
    swaps,      \* completed replacements of each index
    ex,         \* open.lock of each index is held exclusively
    load,       \* history: commits that the first of todo met, if it narrows the query, at most Enough
    nfail       \* history: failures of the request

srchVars == <<cache, db, stale, loose, shard_nfd>>
qryVars  == <<todo, left, tries, wide, load>>
reqVars  == <<pc, mode, cur, opened, age, sh, qryVars, seen, lacks, repo, knows, nfail>>
diskVars == <<gen, layout, swaps, ex>>
vars == <<srchVars, reqVars, diskVars>>

\* What cmd_mset does with a query string: parse_query may expand thread: (one
\* get_mset, then the documents it found, of which one stands for all), a code
\* search may be limited to a repository, then there is the search itself.
Plans(k) == {<<"mset">>, IF IndexOf[k] \in Code THEN <<"roots", "mset">> ELSE <<"threads", "doc", "mset">>}

NoDb  == << >>
Dbs   == Seq(Nat)
Places == UNION {1 .. NShards[k] : k \in Keys}
Layouts(x) == {NShards[k] : k \in {j \in Keys : IndexOf[j] = x}}

\* The number of shards of generation g, and of the one that is in place or
\* being put in place.
Shards(x, g) == layout[x][g + 1]
Newest(x) == layout[x][Len(layout[x])]

TypeOK ==
    /\ cache \in SUBSET Keys /\ db \in [Keys -> Dbs] /\ stale \in SUBSET Keys
    /\ loose \in SUBSET Keys /\ shard_nfd \in Nat
    /\ pc \in {"idle", "lock", "shard", "query", "dead"}
    /\ mode \in {"none", "open1", "open2", "reopen", "again"}
    /\ cur \in Keys \union {NoKey} /\ (pc \in {"lock", "shard", "query"} => cur \in Keys)
    /\ opened \in Dbs /\ age \in 0 .. 2 /\ sh \in BOOLEAN /\ tries \in 0 .. Retries
    /\ \E k \in Keys : \E p \in Plans(k) : \E i \in 1 .. Len(p) : todo = SubSeq(p, i, Len(p))
    /\ left \in 0 .. MaxQry - 1 /\ wide \subseteq {"roots", "doc", "gone", "unfiltered", "partial"}
    /\ load \in 0 .. 2 * (Retries + 1)
    /\ seen \in Nat /\ lacks \in BOOLEAN /\ repo \in {"always", "added", "no"} /\ knows \in BOOLEAN
    /\ swaps \in [Indices -> Nat] /\ gen \in [Indices -> [Places -> Nat \union {-1}]]
    /\ layout \in [Indices -> Seq(Nat \ {0})]
    /\ ex \in [Indices -> BOOLEAN]
    /\ nfail \in 0 .. MaxFail

Init ==
    /\ cache = {} /\ db = [k \in Keys |-> NoDb] /\ stale = {} /\ loose = {} /\ shard_nfd = 0
    /\ pc = "idle" /\ mode = "none" /\ cur = NoKey /\ opened = << >> /\ age = 0 /\ sh = FALSE
    /\ todo = <<"mset">> /\ left = 0 /\ tries = 0 /\ wide = {} /\ load = 0
    /\ seen = 0 /\ lacks = FALSE /\ repo = "always" /\ knows = FALSE
    /\ swaps = [x \in Indices |-> 0]
    /\ \E n \in [Indices -> {NShards[k] : k \in Keys}] :
          /\ \A x \in Indices : n[x] \in Layouts(x)
          /\ layout = [x \in Indices |-> <<n[x]>>]
          /\ gen = [x \in Indices |-> [i \in Places |-> IF i <= n[x] THEN 0 ELSE -1]]
    /\ ex = [x \in Indices |-> FALSE]
    /\ nfail = 0

-----------------------------------------------------------------------------
nfd(k) == NShards[k] * SHARD_COST

\* srch_cache_renew(keep): all entries but one are freed.
srch_cache_renew(keep) ==
    /\ cache' = keep
    /\ db' = [k \in Keys |-> IF k \in keep THEN db[k] ELSE NoDb]
    /\ stale' = stale \cap keep /\ loose' = loose \cap keep

\* The accounting at the start of srch_init, for an entry that was just put
\* into the cache.
Count(k, keep) ==
    IF shard_nfd + nfd(k) > my_fd_max
    THEN srch_cache_renew(keep) /\ shard_nfd' = nfd(k)
    ELSE cache' = cache \union {k} /\ shard_nfd' = shard_nfd + nfd(k) /\ UNCHANGED <<db, stale, loose>>

Bug_FreeAll(k) == Count(k, {})

Bug_NeverEvict(k) ==
    cache' = cache \union {k} /\ shard_nfd' = shard_nfd + nfd(k) /\ UNCHANGED <<db, stale, loose>>

srch_init(k) == Count(k, {k})

\* Nothing of a request is left when it ends but the handle.
EndRequest ==
    /\ pc' = "idle" /\ mode' = "none" /\ cur' = NoKey /\ opened' = << >> /\ age' = 0 /\ sh' = FALSE
    /\ todo' = <<"mset">> /\ left' = 0 /\ tries' = 0 /\ wide' = {} /\ load' = 0
    /\ seen' = 0 /\ lacks' = FALSE /\ repo' = "always" /\ knows' = FALSE /\ nfail' = 0

\* l commits are younger than the handle.
StartQuery(k, l) ==
    todo' \in Plans(k) /\ tries' = 0 /\ wide' = {} /\ load' = IF Len(todo') > 1 THEN l ELSE 0

\* shard_dirs: the client has seen as many directories as the request names, now
\* or earlier.
Receives(k) ==
    /\ pc = "idle"
    /\ \E g \in DOMAIN layout[IndexOf[k]] : layout[IndexOf[k]][g] = NShards[k]
    /\ StartQuery(k, 0) /\ left' \in 0 .. MaxQry - 1
    /\ cur' = k /\ opened' = << >> /\ age' = 0
    /\ seen' = swaps[IndexOf[k]] /\ lacks' = (k \in stale)
    /\ repo' \in (IF IndexOf[k] \in Code THEN {"always", "no"} ELSE {"always"}) /\ knows' = FALSE

\* dispatch: a new entry is opened, a cached one is reopened.
Bug_NoReopen(k) ==
    /\ Receives(k)
    /\ IF k \in cache THEN pc' = "query" /\ mode' = "reopen" /\ UNCHANGED srchVars
                      ELSE pc' = "lock" /\ mode' = "open1" /\ srch_init(k)
    /\ UNCHANGED <<sh, diskVars, nfail>>

dispatch(k) ==
    /\ Receives(k)
    /\ pc' = "lock"
    /\ IF k \in cache THEN mode' = "reopen" /\ stale' = stale \ {k} /\ UNCHANGED <<cache, db, loose, shard_nfd>>
                      ELSE mode' = "open1" /\ srch_init(k)
    /\ UNCHANGED <<sh, diskVars, nfail>>

Opening == pc = "lock" /\ pc' = "shard" /\ opened' = << >> /\ age' = 0 /\ knows' = FALSE
OpeningRest == <<srchVars, mode, cur, qryVars, seen, lacks, repo, diskVars>>

\* lock_shared_maybe: flock(LOCK_SH) waits for Xapcmd.  Without open.lock, or if
\* it cannot be opened or locked, the shards are opened all the same; it must not
\* go on as if it had not had to wait.
Bug_NoWait ==
    /\ Opening
    /\ sh' = TRUE
    /\ UNCHANGED <<OpeningRest, nfail>>

lock_shared_maybe ==
    /\ Opening
    /\ \/ ~ex[IndexOf[cur]] /\ sh' = TRUE /\ UNCHANGED nfail
       \/ cur \in Bare /\ UNCHANGED <<sh, nfail>>
       \/ nfail < MaxFail /\ nfail' = nfail + 1 /\ UNCHANGED sh
    /\ UNCHANGED OpeningRest

\* Database(dirv[i]), add_database or reopen, shard by shard.
OpenShard ==
    /\ pc = "shard" /\ Len(opened) < NShards[cur]
    /\ gen[IndexOf[cur]][Len(opened) + 1] # -1
    /\ opened' = Append(opened, gen[IndexOf[cur]][Len(opened) + 1])
    /\ age' = IF opened = << >> THEN 0 ELSE age
    /\ UNCHANGED <<srchVars, pc, mode, cur, sh, qryVars, seen, lacks, repo, knows, diskVars, nfail>>

\* All shards of one generation of the index.
Whole(k, d) == d # NoDb /\ \A i \in 1 .. Len(d) : d[i] = d[1] /\ Shards(IndexOf[k], d[1]) = NShards[k]

\* Whether the shards just opened know the repository: one of them has it.
Knowing(d) == {repo # "no"} \union (IF Whole(cur, d) /\ (age = 0 \/ repo = "always") THEN {} ELSE BOOLEAN)

AllOpen ==
    /\ pc = "shard" /\ Len(opened) = NShards[cur]
    /\ db' = [db EXCEPT ![cur] = opened]
    /\ stale' = (IF age = 0 THEN stale \ {cur} ELSE stale \union {cur})
    /\ loose' = (IF sh THEN loose \ {cur} ELSE loose \union {cur}) /\ knows' \in Knowing(opened)
    /\ lacks' = FALSE
    /\ sh' = FALSE /\ pc' = "query" /\ opened' = << >>
    /\ UNCHANGED <<cache, shard_nfd, mode, cur, age, qryVars, seen, repo, diskVars, nfail>>

\* An exception reaches cmd_mset: the next query string is tried, if any.
Throw(knowing, fails) ==
    IF left > 0
    THEN LET a == IF pc = "shard" THEN 2 ELSE age
         IN  /\ pc' = "query" /\ left' = left - 1 /\ opened' = << >> /\ sh' = FALSE
             /\ StartQuery(cur, a) /\ age' = a /\ knows' \in knowing /\ nfail' = fails
             /\ UNCHANGED <<mode, cur, seen, lacks, repo>>
    ELSE EndRequest

\* reopen has reached some of the shards only.
Torn == opened \o SubSeq(db[cur], Len(opened) + 1, Len(db[cur]))

\* A shard cannot be opened: srch_init retries once with an otherwise empty
\* cache (shard_nfd still counts what was freed), then the process exits.  An
\* exception of reopen in dispatch is not caught and ends the process; a later
\* one ends the query, and the next query string finds what was reopened.
OpenFails ==
    /\ pc = "shard" /\ Len(opened) < NShards[cur]
    /\ \E fails \in nfail .. MaxFail :
          /\ fails = nfail + 1 \/ (fails = nfail /\ gen[IndexOf[cur]][Len(opened) + 1] = -1)
          /\ \/ /\ mode = "open1"
                /\ srch_cache_renew({cur})
                /\ mode' = "open2" /\ pc' = "lock" /\ opened' = << >> /\ age' = 0 /\ sh' = FALSE
                /\ nfail' = fails
                /\ UNCHANGED <<shard_nfd, cur, qryVars, seen, lacks, repo, knows>>
             \/ /\ mode = "again"
                /\ Throw(Knowing(Torn), fails)
                /\ db' = [db EXCEPT ![cur] = Torn]
                /\ loose' = (IF opened = << >> THEN loose ELSE loose \union {cur})
                /\ UNCHANGED <<cache, stale, shard_nfd>>
             \/ /\ mode \in {"open2", "reopen"}
                /\ pc' = "dead" /\ opened' = << >> /\ age' = 0 /\ sh' = FALSE
                /\ nfail' = fails
                /\ UNCHANGED <<srchVars, mode, cur, qryVars, seen, lacks, repo, knows>>
    /\ UNCHANGED diskVars

\* Xapian serves the last but one revision, too; a block that was overwritten
\* later throws DatabaseModifiedError when it is read.
Overtaken == age > 1
At(part) == pc = "query" /\ Head(todo) = part
NextPart(l) == todo' = Tail(todo) /\ tries' = 0 /\ load' = l
Rest  == <<srchVars, cur, opened, age, sh, seen, lacks, repo, knows, diskVars, nfail>>

\* A part that narrows the query is done.  apply_roots_filter adds no filter for
\* a repository that is not indexed, or has no roots.
Narrow ==
    /\ At("threads") \/ At("doc") \/ At("roots")
    /\ NextPart(IF At("threads") THEN age ELSE 0)
    /\ wide' = IF At("roots") /\ ~knows
               THEN wide \union {IF Whole(cur, db[cur]) THEN "unfiltered" ELSE "partial"} ELSE wide
    /\ UNCHANGED <<Rest, pc, mode, left>>

\* The search is over; if it found nothing the next query string is tried.
Answer ==
    /\ At("mset")
    /\ \/ EndRequest
       \/ left > 0 /\ left' = left - 1 /\ StartQuery(cur, age)
          /\ UNCHANGED <<pc, mode, cur, opened, age, sh, seen, lacks, repo, knows, nfail>>
    /\ UNCHANGED <<srchVars, diskVars>>

Again == pc' = "lock" /\ mode' = "again"

\* enquire_mset: after Retries reopens the exception is thrown.
Modified(retries) ==
    /\ At("mset") /\ Overtaken
    /\ \/ tries < retries /\ Again /\ tries' = tries + 1 /\ UNCHANGED <<Rest, todo, left, wide, load>>
       \/ tries >= retries /\ Throw({knows}, nfail) /\ UNCHANGED <<srchVars, diskVars>>

\* The counter of reopens is not advanced.
Bug_RetryForever ==
    /\ At("mset") /\ Overtaken
    /\ Again
    /\ UNCHANGED <<Rest, qryVars>>

enquire_mset == Modified(Retries)

\* thread: may not parse, and the get_mset of qry_xpand_col is not retried.
qry_xpand_col ==
    /\ At("threads")
    /\ Throw({knows}, nfail)
    /\ UNCHANGED <<srchVars, diskVars>>

\* The database is not reopened.
Bug_Skip(part, n) ==
    /\ At(part) /\ Overtaken
    /\ IF tries + 1 < n THEN tries' = tries + 1 /\ UNCHANGED <<todo, wide, load>>
                        ELSE NextPart(0) /\ wide' = wide \union {part}
    /\ UNCHANGED <<Rest, pc, mode, left>>

\* xpand_col_iter and apply_roots_filter reopen the database after each failure
\* and go on without the document, or without the filter, after the last.
Skip(part, n) ==
    /\ At(part) /\ Overtaken
    /\ Again
    /\ IF tries + 1 < n THEN tries' = tries + 1 /\ UNCHANGED <<todo, wide, load>>
                        ELSE NextPart(0) /\ wide' = wide \union {part}
    /\ UNCHANGED <<Rest, left>>

\* The document was found before a reopen, and deleted meanwhile.
DocNotFound ==
    /\ At("doc") /\ tries > 0
    /\ NextPart(0) /\ wide' = wide \union {"gone"}
    /\ UNCHANGED <<Rest, pc, mode, left>>

xpand_col_iter == Skip("doc", Retries + 1) \/ DocNotFound
apply_roots_filter == Skip("roots", Retries)

\* The parent starts a new worker, with an empty cache.
Restart ==
    /\ pc = "dead"
    /\ srch_cache_renew({}) /\ shard_nfd' = 0
    /\ EndRequest
    /\ UNCHANGED diskVars

-----------------------------------------------------------------------------
\* More commits than this are not counted.
Enough == 2 * (Retries + 1)

Uses(x) == pc \in {"lock", "shard", "query"} /\ IndexOf[cur] = x
Up(n, top) == IF n < top THEN n + 1 ELSE n

\* An indexer commits; a third commit makes no difference to the handle in use.
\* A code index may gain or lose the repository.
Commit(x) ==
    /\ ~ex[x]
    /\ stale' = stale \union {k \in Keys : IndexOf[k] = x /\ db[k] # NoDb /\ (k = cur => pc = "query")}
    /\ age' = IF Uses(x) /\ pc # "lock" THEN Up(age, 2) ELSE age
    /\ load' = IF Uses(x) /\ Len(todo) > 1 THEN Up(load, Enough) ELSE load
    /\ repo' \in {repo} \union (IF Uses(x) /\ x \in Code /\ (left > 0 \/ Len(todo) > 1)
                               THEN {"no", IF repo = "no" THEN "added" ELSE "no"} ELSE {})
    /\ UNCHANGED <<cache, db, loose, shard_nfd, pc, mode, cur, opened, sh, todo, left, tries, wide, seen,
                   lacks, knows, diskVars, nfail>>

\* Old shards that the last replacement has no counterpart for.
Culled(x) == {i \in Places : i > Newest(x) /\ gen[x][i] # -1}

\* Xapcmd commit_changes: under open.lock every shard is moved away and its
\* replacement moved into place, the highest shard first.  One Xapcmd at a time
\* works on an index.
XapcmdLock(x) ==
    /\ Len(layout[x]) <= MaxSwap[x] /\ ~ex[x] /\ ~(sh /\ IndexOf[cur] = x) /\ Culled(x) = {}
    /\ ex' = [ex EXCEPT ![x] = TRUE]
    /\ \E n \in Layouts(x) : layout' = [layout EXCEPT ![x] = Append(@, n)]
    /\ UNCHANGED <<srchVars, reqVars, gen, swaps>>

Left(x) == {i \in 1 .. Newest(x) : gen[x][i] # swaps[x] + 1}
Move(x, g) ==
    /\ gen' = [gen EXCEPT ![x][Max(Left(x))] = g]
    /\ UNCHANGED <<srchVars, reqVars, layout, swaps, ex>>

MoveAway(x) == ex[x] /\ Left(x) # {} /\ gen[x][Max(Left(x))] # -1 /\ Move(x, -1)
MoveIn(x) == ex[x] /\ Left(x) # {} /\ gen[x][Max(Left(x))] = -1 /\ Move(x, swaps[x] + 1)

XapcmdUnlock(x) ==
    /\ ex[x] /\ Left(x) = {}
    /\ ex' = [ex EXCEPT ![x] = FALSE] /\ swaps' = [swaps EXCEPT ![x] = @ + 1]
    /\ UNCHANGED <<srchVars, reqVars, gen, layout>>

\* remove_tree, after the lock is gone.
RemoveCulled(x) ==
    /\ ~ex[x]
    /\ \E i \in Culled(x) : gen' = [gen EXCEPT ![x][i] = -1]
    /\ UNCHANGED <<srchVars, reqVars, layout, swaps, ex>>

Worker == \/ lock_shared_maybe \/ OpenShard \/ AllOpen \/ OpenFails \/ Narrow \/ Answer
          \/ enquire_mset \/ qry_xpand_col \/ xpand_col_iter \/ apply_roots_filter \/ Restart
Swap(x) == MoveAway(x) \/ MoveIn(x) \/ XapcmdUnlock(x) \/ RemoveCulled(x)

Next == Worker \/ (\E k \in Keys : dispatch(k)) \/ \E x \in Indices : Commit(x) \/ XapcmdLock(x) \/ Swap(x)

\* The worker is scheduled; Xapcmd does not stop half way.
Fairness == WF_vars(Worker) /\ \A x \in Indices : WF_vars(Swap(x))

Spec == Init /\ [][Next]_vars /\ Fairness

-----------------------------------------------------------------------------
\* shard_nfd never forgets an open handle, retries and evictions included, and
\* the descriptors of all cached handles stay within the limit, unless a single
\* index needs more on its own.
FdsWithinLimit ==
    /\ MapThenSumSet(nfd, cache) <= shard_nfd
    /\ MapThenSumSet(nfd, cache) <= my_fd_max \/ Cardinality(cache) <= 1

\* The handle a request works with is not freed under it, and shards are open
\* when they are queried.
HandleIsLive ==
    /\ pc \in {"lock", "shard", "query"} => cur \in cache
    /\ pc = "query" => db[cur] # NoDb

\* A handle whose shards were all opened under one open.lock does not mix the
\* generations of an index, except with shards that the newer one has no
\* counterpart for: these stay in place for a moment after the lock is gone.
OneGeneration ==
    \A k \in Keys \ loose : \A i, j \in 1 .. Len(db[k]) :
       db[k][i] > db[k][j] => j > Shards(IndexOf[k], db[k][i])

\* Culled shards are never opened beside the shards that replace them: what
\* commit_changes moves the highest shard first for.
NoOldShards == \A k \in Keys \ loose : \A i, j \in 1 .. Len(db[k]) : db[k][i] = db[k][j]

\* What is about to be searched has everything committed or replaced before the
\* request was received, whatever the cache held; only a shard that was culled
\* by the last replacement, and not removed yet, may be older.
FreshAnswer ==
    pc = "query" =>
       /\ ~lacks
       /\ \A i \in 1 .. Len(db[cur]) :
             db[cur][i] >= seen \/ (db[cur][i] = seen - 1 /\ i > Shards(IndexOf[cur], seen))

\* A code search goes without a filter for its repository, or a search misses a
\* thread, only if the index was committed to at least twice for each reopen made
\* for that; a document that is gone takes one reopen.  With all shards open the
\* filter is missing only if the index lacked the repository at some time since
\* the request was received.
Excused(missed) ==
    /\ "roots" \in missed => load >= 2 * Retries
    /\ "doc" \in missed => load >= 2 * (Retries + 1)
    /\ "gone" \in missed => load >= 2
    /\ "unfiltered" \in missed => repo # "always"
WideOnlyUnderLoad == [][Excused(wide' \ wide)]_vars

\* Replacing shards ends no worker, and empties no cache, unless the request goes
\* without open.lock or names more shards than the index has had since.
SwapIsInvisible ==
    nfail = 0 /\ (pc = "dead" \/ mode = "open2") =>
       cur \in Bare \/ \E g \in seen .. swaps[IndexOf[cur]] : Shards(IndexOf[cur], g) < NShards[cur]

\* Every request ends, with commits and replacements going on beside it.
RequestEnds == pc # "idle" ~> pc = "idle"
=============================================================================
