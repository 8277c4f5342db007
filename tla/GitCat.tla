------------------------------- MODULE GitCat -------------------------------
(***************************************************************************)
(* The object pipeline of Git.pm in a daemon: requests written to a child  *)
(* process, answers read back in order and handed to callbacks, by a       *)
(* process that never waits for a write without reading.  The child is     *)
(* "git cat-file --batch-command", which knows the alternates it started   *)
(* with, or gcf2_loop (Lg2.pm) on libgit2 (lg2.h).                         *)
(*                                                                         *)
(* The client is one thread.  The variable frames is its Perl call stack:  *)
(*   put    cat_async or async_barrier, in write_all                       *)
(*   read   cat_async_step                                                 *)
(*   cb     a callback, which may call cat_async itself                    *)
(*   retry  cat_async_retry, asking a new child again                      *)
(* A frame keeps the {inflight} array, g, it was called with.  A request   *)
(* line is written whole: it is far smaller than the socket's buffer.      *)
(***************************************************************************)
EXTENDS Integers, Sequences, FiniteSets, SequencesExt

CONSTANTS
    Objs,          \* object names
    Size,          \* bytes of each object
    MAX_INFLIGHT,
    ReqCap,        \* requests that fit the socket
    RespCap,       \* bytes of answers that fit it
    MaxReq,        \* bound: requests
    MaxDepth,      \* bound: callbacks within callbacks
    MaxAlt,        \* bound: alternates added
    MaxCrash       \* bound: children that die

NoObj == 0         \* the empty name of a barrier
ASSUME ObjAssumption == Objs \subseteq Nat \ {NoObj} /\ Size \in [Objs -> Nat]
ASSUME CapAssumption == {MAX_INFLIGHT, ReqCap, RespCap} \subseteq Nat \ {0}
ASSUME BoundAssumption == {MaxReq, MaxDepth, MaxAlt, MaxCrash} \subseteq Nat

VARIABLES
    kind,      \* "git" or "gcf2"
    frames,    \* the call stack, innermost first
    sock,      \* {sock}: the child it belongs to, 0 if none
    inflight,  \* the {inflight} array of each child
    retried,   \* requests whose entry is a reference: "already been retried"
    rbuf,      \* pi_io_rbuf
    alt_st,    \* {alt_st}
    epwatch,   \* {epwatch}: the poller watches {sock}
    nextq,     \* event_step is requeued
    req, resp, \* the socket, both ways
    cpc,       \* the child: "read", "write" or "dead"
    view,      \* objects it can see
    vec, nvec, \* vec and nvec of cat_oid
    objs, alt, \* objects of the repository, version of its alternates file
    ncrash,
    ask,       \* history: object of each request, and whether it existed then
    done,      \* history: what each callback was called with
    astray     \* history: steps that break the pairing of requests and answers

client == <<frames, sock, inflight, retried, rbuf, alt_st>>
poll   == <<epwatch, nextq>>
child  == <<req, resp, cpc, view, vec, nvec>>
repo   == <<objs, alt>>
vars   == <<kind, client, poll, child, repo, ncrash, ask, done, astray>>

\* The bytes of an answer, in the three parts cat_oid writes; "missing" has one.
Byte(t, o) == <<t, o>>
Data(o)    == [i \in 1 .. Size[o] |-> Byte("data", o)]
Answer(o)  == << <<Byte("hdr", o)>>, Data(o), <<Byte("lf", o)>> >>
Missing(o) == << << >>, << >>, <<Byte("missing", o)>> >>
Garbage    == -1   \* "SCALAR(0x...)", a reference in a string

Init ==
    /\ kind \in {"git", "gcf2"}
    /\ frames = << >> /\ sock = 0 /\ inflight = << >> /\ retried = {} /\ rbuf = << >> /\ alt_st = 0
    /\ epwatch = FALSE /\ nextq = FALSE
    /\ req = << >> /\ resp = << >> /\ cpc = "dead" /\ view = {} /\ vec = Missing(NoObj) /\ nvec = 0
    /\ objs \in SUBSET Objs /\ alt = 0 /\ ncrash = 0
    /\ ask = << >> /\ done = [q \in 1 .. MaxReq |-> << >>] /\ astray = {}

-----------------------------------------------------------------------------
\* sent: write_all is past the loop that throttles
Frame(k, q, g, old) == [k |-> k, q |-> q, g |-> g, old |-> old, sent |-> FALSE]
Top      == Head(frames)
In(k)    == frames # << >> /\ Top.k = k
Swap(f)  == frames' = <<f>> \o Tail(frames)
Entry(q) == ask[q].o
Reply(q, r) == done' = [done EXCEPT ![q] = Append(@, r)]

\* The child's side when {sock} is new, and when it is gone.
Started(v) ==
    /\ req' = << >> /\ resp' = << >> /\ rbuf' = << >> /\ cpc' = "read" /\ view' = v
    /\ vec' = Missing(NoObj) /\ nvec' = 0
Closed ==
    /\ sock' = 0 /\ req' = << >> /\ resp' = << >> /\ rbuf' = << >> /\ cpc' = "dead" /\ view' = {}
    /\ vec' = Missing(NoObj) /\ nvec' = 0
    /\ epwatch' = FALSE

\* _sock_cmd and Gcf2Client::new: a child with an {inflight} of its own.  Gcf2Client has its
\* socket watched at once, Git.pm when watch_async is called.
Spawn == Started(objs) /\ sock' = Len(inflight) + 1 /\ inflight' = Append(inflight, << >>)
         /\ epwatch' = (kind = "gcf2")

\* cat_async, async_barrier (o is NoObj) and gcf2_async, up to write_all.  Gcf2Client is
\* made once: without its child gcf2_async returns, and the request is forgotten.
Call(o) ==
    LET q == Len(ask) + 1
        put(g) == frames' = <<Frame("put", q, g, 0)>> \o frames
    IN  /\ q <= MaxReq
        /\ frames = << >> \/ In("cb")
        /\ Cardinality({i \in DOMAIN frames : frames[i].k = "cb"}) <= MaxDepth
        /\ o = NoObj => kind = "git"
        /\ ask' = Append(ask, [o |-> o, had |-> o \in objs])
        /\ \/ sock # 0 /\ put(sock) /\ UNCHANGED <<sock, inflight, rbuf, alt_st, epwatch, child, done, astray>>
           \/ /\ sock = 0 /\ o # NoObj
              /\ kind = "git" \/ inflight = << >>
              /\ Spawn /\ put(Len(inflight) + 1)
              /\ alt_st' = alt
              /\ UNCHANGED <<done, astray>>
           \/ /\ sock = 0 /\ o = NoObj
              /\ Reply(q, <<"missing", NoObj, << >>>>)
              /\ UNCHANGED <<client, epwatch, child, astray>>
           \/ /\ sock = 0 /\ kind = "gcf2" /\ inflight # << >>
              /\ astray' = astray \union {"gone"}
              /\ UNCHANGED <<client, epwatch, child, done>>
        /\ UNCHANGED <<kind, retried, nextq, repo, ncrash>>

\* A frame of event_step is the last to leave: it must be requeued if more was read already.
Bug_EndOfStep == UNCHANGED nextq
EndOfStep == nextq' = (nextq \/ (frames' = << >> /\ Last(frames).k # "put" /\ sock' # 0 /\ rbuf' # << >>))

\* A croak unwinds to the eval around the nearest callback, which cat_async_step reports
\* with carp ($async_warn), or to event_step's.
Unwound == LET cbs == {i \in DOMAIN frames : frames[i].k = "cb"}
           IN  IF cbs = {} THEN Len(frames) ELSE Min(cbs)
Croak ==
    LET dying == {frames[i] : i \in 1 .. Unwound}
    IN  /\ frames' = SubSeq(frames, Unwound + 1, Len(frames))
        /\ done' = [q \in DOMAIN done |->
               IF \E f \in dying : f.k = "put" /\ f.q = q THEN Append(done[q], <<"died", NoObj, << >>>>) ELSE done[q]]
        /\ astray' = astray \union {"lost" : f \in {x \in dying : x.k = "retry" /\ x.q # 0}}
        /\ EndOfStep
        /\ UNCHANGED <<kind, inflight, retried, alt_st, repo, ncrash, ask>>

\* fail: close, then croak.  gcf_drain comes later, from the event loop.
fail == Closed /\ Croak

-----------------------------------------------------------------------------
\* write_all, of a new request or of one that cat_async_retry holds.
Writing   == In("put") \/ (In("retry") /\ Top.q # 0)
Throttled == ~Top.sent /\ Len(inflight[Top.g]) >= MAX_INFLIGHT
Broken    == sock = 0 \/ cpc = "dead"   \* no {sock}, or EPIPE

\* the array is not that of {sock}, which was replaced while the frame waited
Stale     == {"stale" : g \in {Top.g} \ {sock}}

ReadStep ==
    /\ Writing
    /\ Throttled \/ (~Broken /\ Len(req) = ReqCap)
    /\ frames' = <<Frame("read", 0, Top.g, 0), [Top EXCEPT !.sent = ~Throttled]>> \o Tail(frames)
    /\ astray' = astray \union Stale
    /\ UNCHANGED <<kind, sock, inflight, retried, rbuf, alt_st, poll, child, repo, ncrash, ask, done>>

\* Callers of cat_async go on to watch_async; async_barrier and cat_async_retry do not.
watch_async(f) == epwatch' = (epwatch \/ (f.k = "put" /\ Entry(f.q) # NoObj))

\* The line is written to {sock}, the entry pushed on the array of the caller.  A barrier
\* asked again is written as the reference it is.
Write ==
    LET f == Top
        barrier == f.k = "retry" /\ Entry(f.q) = NoObj
    IN  /\ Writing /\ ~Throttled /\ ~Broken /\ Len(req) < ReqCap
        /\ req' = Append(req, IF barrier THEN Garbage ELSE Entry(f.q))
        /\ inflight' = [inflight EXCEPT ![f.g] = Append(@, f.q)]
        /\ IF f.k = "put" THEN frames' = Tail(frames) /\ UNCHANGED retried
           ELSE /\ Swap([f EXCEPT !.q = 0, !.sent = FALSE])
                /\ retried' = retried \union {q \in {f.q} : inflight[f.g] = << >>}
        /\ watch_async(f)
        /\ astray' = astray \union Stale \union {"barrier" : x \in {barrier} \ {FALSE}}
        /\ UNCHANGED <<kind, sock, rbuf, alt_st, nextq, resp, cpc, view, vec, nvec, repo, ncrash, ask, done>>

WriteFails == Writing /\ ~Throttled /\ Broken /\ fail

-----------------------------------------------------------------------------
\* cat_async_step: the first entry of the array, and an answer from {sock}.
Reading   == In("read") /\ inflight[Top.g] # << >> /\ sock # 0
First     == Head(inflight[Top.g])
Found     == rbuf # << >> /\ rbuf[1][1] = "hdr" /\ Len(rbuf) >= Size[rbuf[1][2]] + 2
NotFound  == rbuf # << >> /\ rbuf[1][1] = "missing"
LFMissing == Found /\ rbuf[Size[rbuf[1][2]] + 2][1] # "lf"

\* sysread in my_gets and my_bufread
Fill ==
    /\ Reading /\ ~Found /\ ~NotFound /\ resp # << >>
    /\ rbuf' = rbuf \o resp /\ resp' = << >>
    /\ UNCHANGED <<kind, frames, sock, inflight, retried, alt_st, poll, req, cpc, view, vec, nvec, repo, ncrash, ask, done, astray>>

\* the entry is spliced before the callback runs
Callback(r, rest) ==
    /\ inflight' = [inflight EXCEPT ![Top.g] = Tail(@)]
    /\ rbuf' = rest
    /\ Reply(First, r)
    /\ Swap(Frame("cb", 0, 0, 0))
    /\ UNCHANGED <<sock, retried>>

StepFound ==
    LET o == rbuf[1][2]
    IN  /\ Reading /\ Found /\ ~LFMissing
        /\ Callback(<<"blob", o, SubSeq(rbuf, 2, Size[o] + 1)>>, SubSeq(rbuf, Size[o] + 3, Len(rbuf)))
        /\ UNCHANGED <<kind, alt_st, poll, child, repo, ncrash, ask, astray>>

\* a missing object is asked for again if the alternates changed; Gcf2Client never does
Bug_MayRetry == kind = "git" /\ First \in retried /\ Entry(First) # NoObj
MayRetry == kind = "git" /\ First \notin retried /\ Entry(First) # NoObj
StepMissing ==
    /\ Reading /\ NotFound
    /\ ~(MayRetry /\ alt # alt_st)
    /\ Callback(<<"missing", rbuf[1][2], << >>>>, Tail(rbuf))
    /\ UNCHANGED <<kind, alt_st, poll, child, repo, ncrash, ask, astray>>

\* fail in cat_async_step; without {sock} or entries it dies as well
StepFails ==
    /\ \/ Reading /\ (LFMissing \/ (rbuf # << >> /\ rbuf[1][1] \notin {"hdr", "missing"}))
       \/ Reading /\ ~Found /\ ~NotFound /\ resp = << >> /\ cpc = "dead"
       \/ In("read") /\ sock = 0
    /\ fail
StepEmpty == In("read") /\ sock # 0 /\ inflight[Top.g] = << >> /\ UNCHANGED <<sock, rbuf, epwatch, child>> /\ Croak

\* cat_async_retry: a new child, to which the entries of the old array are moved.  The
\* poller does not watch its socket.
cat_async_retry ==
    /\ Reading /\ NotFound /\ MayRetry /\ alt # alt_st
    /\ alt_st' = alt
    /\ Spawn
    /\ Swap(Frame("retry", 0, Len(inflight) + 1, Top.g))
    /\ UNCHANGED <<kind, retried, nextq, repo, ncrash, ask, done, astray>>

RetryNext ==
    /\ In("retry") /\ Top.q = 0
    /\ IF inflight[Top.old] # << >>
       THEN Swap([Top EXCEPT !.q = Head(inflight[Top.old])]) /\ inflight' = [inflight EXCEPT ![Top.old] = Tail(@)]
       ELSE Swap(Frame("read", 0, Top.g, 0)) /\ UNCHANGED inflight   \* take one step
    /\ UNCHANGED <<kind, sock, retried, rbuf, alt_st, poll, child, repo, ncrash, ask, done, astray>>

Return == In("cb") /\ frames' = Tail(frames)
    /\ UNCHANGED <<kind, sock, inflight, retried, rbuf, alt_st, epwatch, child, repo, ncrash, ask, done, astray>>
    /\ EndOfStep

-----------------------------------------------------------------------------
\* The event loop: event_step when the poller finds {sock} readable or when it is requeued,
\* reap_pids and the cleanup timer.
event_step ==
    /\ frames = << >>
    /\ nextq \/ (epwatch /\ (resp # << >> \/ cpc = "dead"))
    /\ nextq' = FALSE
    /\ frames' = IF sock # 0 /\ inflight[sock] # << >> THEN <<Frame("read", 0, sock, 0)>> ELSE << >>
    /\ UNCHANGED <<kind, sock, inflight, retried, rbuf, alt_st, epwatch, child, repo, ncrash, ask, done, astray>>

gcf_drain(g) ==
    /\ frames = << >> /\ inflight[g] # << >>
    /\ g # sock \/ cpc = "dead"
    /\ done' = [q \in DOMAIN done |->
           IF q \in Range(inflight[g]) THEN Append(done[q], <<"abort", Entry(q), << >>>>) ELSE done[q]]
    /\ inflight' = [inflight EXCEPT ![g] = << >>]
    /\ UNCHANGED <<kind, frames, sock, retried, rbuf, alt_st, poll, child, repo, ncrash, ask, astray>>

cleanup ==
    /\ frames = << >> /\ sock # 0 /\ inflight[sock] = << >> /\ kind = "git"
    /\ Closed
    /\ UNCHANGED <<kind, frames, inflight, retried, alt_st, nextq, repo, ncrash, ask, done, astray>>

-----------------------------------------------------------------------------
\* The child.  gcf2_loop opens a new object database and looks again before it says
\* "missing"; it may open one after any answer.
Look(o, v) == IF o \in v THEN vec' = Answer(o) /\ nvec' = 3 ELSE vec' = Missing(o) /\ nvec' = 1
gcf2_loop ==
    /\ cpc = "read" /\ req # << >>
    /\ req' = Tail(req)
    /\ IF Head(req) = Garbage THEN cpc' = "dead" /\ view' = {} /\ UNCHANGED <<vec, nvec>>
       ELSE /\ cpc' = "write"
            /\ view' = IF kind = "gcf2" /\ Head(req) \notin view THEN objs ELSE view
            /\ Look(Head(req), view')
    /\ UNCHANGED <<kind, client, poll, resp, repo, ncrash, ask, done, astray>>

\* writev wrote w bytes: parts written whole are counted, the next one is cut.
Part(n, i)    == IF i > 3 - n THEN vec[i] ELSE << >>
Upto(n, i)    == Len(Part(n, 1)) + (IF i > 1 THEN Len(Part(n, 2)) ELSE 0) + (IF i > 2 THEN Len(Part(n, 3)) ELSE 0)
Cut(n, k, w)  == [n |-> n - k, v |-> [i \in 1 .. 3 |->
                    IF i = 4 - n + k THEN SubSeq(vec[i], w - Upto(n, i) + Len(vec[i]) + 1, Len(vec[i])) ELSE vec[i]]]
Advance(n, w) == Cut(n, Cardinality({i \in 4 - n .. 3 : Upto(n, i) <= w}), w)

cat_oid ==
    LET bytes == Part(nvec, 1) \o Part(nvec, 2) \o Part(nvec, 3)
    IN  /\ cpc = "write"
        /\ \E w \in 1 .. Min({Len(bytes), RespCap - Len(resp)}) :
              LET a == Advance(nvec, w)
              IN  /\ resp' = resp \o SubSeq(bytes, 1, w)
                  /\ nvec' = a.n
                  /\ vec' = IF a.n = 0 THEN Missing(NoObj) ELSE a.v
                  /\ cpc' = IF a.n = 0 THEN "read" ELSE "write"
                  /\ view' \in {view, IF kind = "gcf2" /\ a.n = 0 THEN objs ELSE view}
        /\ UNCHANGED <<kind, client, poll, req, repo, ncrash, ask, done, astray>>

Crash == cpc # "dead" /\ ncrash < MaxCrash /\ ncrash' = ncrash + 1 /\ cpc' = "dead"
    /\ req' = << >> /\ view' = {} /\ vec' = Missing(NoObj) /\ nvec' = 0
    /\ UNCHANGED <<kind, client, poll, resp, repo, ask, done, astray>>

AddAlternate(s) == alt < MaxAlt /\ s # {} /\ objs' = objs \union s /\ alt' = alt + 1
    /\ UNCHANGED <<kind, client, poll, child, ncrash, ask, done, astray>>

-----------------------------------------------------------------------------
Step   == ReadStep \/ Write \/ WriteFails \/ Fill \/ StepFound \/ StepMissing \/ StepFails \/ StepEmpty
          \/ cat_async_retry \/ RetryNext \/ Return \/ event_step
Drain  == \E g \in DOMAIN inflight : gcf_drain(g)
Child  == gcf2_loop \/ cat_oid
Next   == (\E o \in Objs \union {NoObj} : Call(o)) \/ Step \/ Drain \/ cleanup \/ Child \/ Crash
          \/ (\E s \in SUBSET (Objs \ objs) : AddAlternate(s))

Spec == Init /\ [][Next]_vars /\ WF_vars(Step) /\ WF_vars(Drain) /\ WF_vars(Child)

-----------------------------------------------------------------------------
\* r is an answer to request q
Own(q, r) ==
    \/ ask[q].o \in Objs /\ r = <<"blob", ask[q].o, Data(ask[q].o)>>
    \/ r = <<"missing", ask[q].o, << >>>> /\ ~ask[q].had
    \/ r[1] \in {"abort", "died"} /\ ncrash > 0
AllOwn == \A q \in DOMAIN ask : Len(done[q]) <= 1 /\ \A r \in Range(done[q]) : Own(q, r)

(* Unless a known step breaks the pairing, a callback runs at most once, with its own object, whole, *)
(* or with "missing" if the object did not exist when it was asked for.                              *)
AnswerIsOwn == astray = {} => AllOwn

(* The same through cat_async_retry, when it runs below a cat_async that waits in write_all. *)
RetryKeepsPairs == astray \subseteq {"stale"} => AllOwn

(* Every request is answered, though neither direction of the socket holds more than ReqCap and *)
(* RespCap, and several answers may come with one read: time and again none is pending.  Except  *)
(* after cat_async_retry, whose requests nobody takes up before the next cat_async: the poller   *)
(* does not watch the new socket.                                                                *)
Pending   == {q \in DOMAIN ask : done[q] = << >>}
Unwatched == frames = << >> /\ sock # 0 /\ inflight[sock] # << >> /\ ~epwatch /\ ~nextq
RequestsAnswered == []<>(Pending = {} \/ astray # {} \/ Unwatched)

(* The same without the exception, which cat_async_retry breaks. *)
RetryAnswered == []<>(Pending = {} \/ astray # {})
=============================================================================
