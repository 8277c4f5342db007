----------------------------- MODULE XapHelper -----------------------------
(***************************************************************************)
(* xap_helper.h without -l: a parent process keeps {nworker} prefork       *)
(* workers which receive search requests from one SOCK_SEQPACKET socket.   *)
(*                                                                         *)
(* The parent turns signals into bytes of a self-pipe (sigp) and acts on   *)
(* them in prefork_loop: reap and restart workers, grow (SIGTTIN) and      *)
(* shrink (SIGTTOU) their number, reopen logs (SIGUSR1).  Workers are told *)
(* to go with SIGTERM, which they only accept while waiting for a request, *)
(* and leave with EX_NOINPUT when the other end of the socket is closed.   *)
(*                                                                         *)
(* A step of the parent is one system call's worth of its loop; signal     *)
(* handlers and workers interleave with it everywhere.                     *)
(***************************************************************************)
EXTENDS Integers, Sequences, FiniteSets

CONSTANTS
    NWorker,     \* -j: workers to start with
    WORKER_MAX,  \* most workers SIGTTIN may ask for (USHRT_MAX)
    PIPE_CAP,    \* bytes the self-pipe holds; at most sizeof(sbuf)
    ForkFails,   \* fork(2) may fail
    MaxPid,      \* bound: processes ever forked
    MaxReq,      \* bound: requests sent
    MaxSig,      \* bound: signals sent to the parent
    MaxKill      \* bound: workers killed by SIGALRM or a crash

ASSUME NWorkerAssumption == NWorker \in Nat \ {0}
ASSUME WorkerMaxAssumption == WORKER_MAX \in Nat /\ NWorker <= WORKER_MAX
ASSUME PipeAssumption == PIPE_CAP \in Nat \ {0}
ASSUME BoundAssumption ==
    MaxPid \in Nat /\ NWorker <= MaxPid /\ MaxReq \in Nat /\ MaxSig \in Nat /\ MaxKill \in Nat
ASSUME ForkFailsAssumption == ForkFails \in BOOLEAN

VARIABLES
    alive,       \* alive: the other end of the socket is thought to be open
    nworker,     \* nworker
    hwm,         \* nworker_hwm
    alloc,       \* history: entries in the allocation of worker_pids
    pids,        \* worker_pids[nr], 0 where no worker is known
    pc,          \* where the parent is in prefork_loop
    sbuf,        \* bytes read from the pipe and not acted on
    pipe,        \* bytes in the self-pipe
    chld,        \* SIGCHLD is pending for the parent
    gen,         \* history: how often the parent reopened the log files
    wpc,         \* where each worker is in recv_loop
    sock,        \* sock_fd of each worker
    sigs,        \* signals pending for each worker
    reopen,      \* worker_needs_reopen of each worker
    wlog,        \* history: the generation of log files a worker writes to
    termed,      \* history: workers the parent has sent SIGTERM to
    serving,     \* request each worker works on, 0 for none
    req,         \* what became of each request
    peer,        \* the other end of the socket is open
    npid, nsig, nkill, \* history: processes forked, signals sent, workers killed
    unborn       \* history: fork(2) has failed

parentVars == <<alive, nworker, hwm, alloc, pids, pc, sbuf, gen>>
workerVars == <<wpc, sock, sigs, reopen, wlog, termed, serving>>
counters   == <<npid, nsig, nkill, unborn>>
vars == <<parentVars, pipe, chld, workerVars, req, peer, counters>>

Slots    == 0 .. WORKER_MAX - 1
Pids     == 1 .. MaxPid
Requests == 1 .. MaxReq

Zombies  == {"exit0", "noinput", "killed"}
WaitPcs  == {"open", "loaded", "recv"}  \* SIGTERM and SIGUSR1 are unblocked
RunPcs   == {"top", "busy"} \union WaitPcs
WorkerPcs == {"none", "reaped"} \union Zombies \union RunPcs

TypeOK ==
    /\ alive \in BOOLEAN /\ chld \in BOOLEAN /\ peer \in BOOLEAN
    /\ nworker \in 1 .. WORKER_MAX /\ hwm \in nworker .. WORKER_MAX
    /\ alloc \in nworker .. WORKER_MAX
    /\ pids \in [Slots -> Pids \union {0}]
    /\ pc \in {"loop", "reap", "chars", "exited"}
    /\ sbuf \in Seq({".", "-", "+", "#"}) /\ pipe \in Seq({".", "-", "+", "#"})
    /\ Len(pipe) <= PIPE_CAP
    /\ gen \in Nat /\ wlog \in [Pids -> Nat]
    /\ wpc \in [Pids -> WorkerPcs]
    /\ sock \in [Pids -> {0, -1}]
    /\ sigs \in [Pids -> SUBSET {"TERM", "USR1"}]
    /\ reopen \in [Pids -> BOOLEAN]
    /\ termed \in SUBSET Pids
    /\ serving \in [Pids -> Requests \union {0}]
    /\ req \in [Requests -> {"unsent", "queued", "busy", "done", "aborted"}]
    /\ npid \in 0 .. MaxPid /\ nsig \in Nat /\ nkill \in Nat /\ unborn \in BOOLEAN

\* prefork_loop up to its loop, start_workers with every fork succeeding.
\* main (-j, signal masks, handlers, self-pipe) and prefork_loop up to its loop.
Init ==
    /\ alive = TRUE /\ nworker = NWorker /\ hwm = NWorker /\ alloc = NWorker
    /\ pids = [nr \in Slots |-> IF nr < NWorker THEN nr + 1 ELSE 0]
    /\ pc = "loop" /\ sbuf = << >> /\ pipe = << >> /\ chld = FALSE /\ gen = 0
    /\ wpc = [p \in Pids |-> IF p <= NWorker THEN "top" ELSE "none"]
    /\ sock = [p \in Pids |-> 0]
    /\ sigs = [p \in Pids |-> {}]
    /\ reopen = [p \in Pids |-> FALSE]
    /\ wlog = [p \in Pids |-> 0]
    /\ termed = {}
    /\ serving = [p \in Pids |-> 0]
    /\ req = [r \in Requests |-> "unsent"]
    /\ peer = TRUE
    /\ npid = NWorker /\ nsig = 0 /\ nkill = 0 /\ unborn = FALSE

-----------------------------------------------------------------------------
\* sigp: one byte per signal, dropped when the pipe is full (EAGAIN).
sigp(c) == pipe' = IF Len(pipe) < PIPE_CAP THEN Append(pipe, c) ELSE pipe

\* External: somebody sends SIGTTIN, SIGTTOU or SIGUSR1 to the parent.
Signal(c) ==
    /\ pc # "exited" /\ nsig < MaxSig
    /\ sigp(c)
    /\ nsig' = nsig + 1
    /\ UNCHANGED <<parentVars, chld, workerVars, req, peer, npid, nkill, unborn>>

\* SIGCHLD may stand for several dead workers.
SigChld ==
    /\ chld /\ pc # "exited"
    /\ chld' = FALSE
    /\ sigp(".")
    /\ UNCHANGED <<parentVars, workerVars, req, peer, counters>>

\* start_workers with the table t, n workers wanted and the processes w: every
\* empty slot below n gets a new process unless its fork fails.  A new process
\* starts with all signals blocked, at the top of recv_loop.
start_workers(t, n, w) ==
    LET empty == {nr \in Slots : nr < n /\ t[nr] = 0}
        room(F) == npid + Cardinality(F) <= MaxPid
    IN  \E F \in SUBSET empty :
          /\ room(F)
          /\ F = empty \/ ForkFails \/ ~room(empty)
          /\ LET pid(nr) == npid + 1 + Cardinality({m \in F : m < nr})
                 born == {pid(nr) : nr \in F}
             IN  /\ pids' = [nr \in Slots |-> IF nr \in F THEN pid(nr) ELSE t[nr]]
                 /\ wpc' = [p \in Pids |-> IF p \in born THEN "top" ELSE w[p]]
                 /\ wlog' = [p \in Pids |-> IF p \in born THEN gen ELSE wlog[p]]
          /\ npid' = npid + Cardinality(F)
          /\ unborn' = (unborn \/ (F # empty /\ room(empty)))

StartNone(t, w) == pids' = t /\ wpc' = w /\ UNCHANGED <<wlog, npid, unborn>>

\* prefork_loop: read(2) returns what the pipe holds.
ReadPipe ==
    /\ pc = "loop"
    /\ alive \/ \E nr \in 0 .. hwm - 1 : pids[nr] # 0   \* living_workers()
    /\ pipe # << >>
    /\ sbuf' = pipe /\ pipe' = << >> /\ pc' = "reap"
    /\ UNCHANGED <<alive, nworker, hwm, alloc, pids, gen, chld, workerVars,
                   req, peer, counters>>

ParentExit ==
    /\ pc = "loop"
    /\ ~alive /\ \A nr \in 0 .. hwm - 1 : pids[nr] = 0
    /\ pc' = "exited"
    /\ UNCHANGED <<alive, nworker, hwm, alloc, pids, sbuf, gen, pipe, chld,
                   workerVars, req, peer, counters>>

\* do_sigchld and reaped_prefork_worker for one dead process: its slot is
\* emptied; the service goes on (still) and empty slots are filled unless it
\* left with EX_NOINPUT.  A process that is in no slot is only warned about.
Reap(p, still, restart) ==
    LET slots == {nr \in Slots : nr < hwm /\ pids[nr] = p}
        t == [nr \in Slots |-> IF nr \in slots /\ \A m \in slots : nr <= m THEN 0 ELSE pids[nr]]
        w == [wpc EXCEPT ![p] = "reaped"]
    IN  /\ pc = "reap" /\ wpc[p] \in Zombies
        /\ alive' = IF slots = {} THEN alive ELSE still
        /\ IF slots # {} /\ still /\ restart THEN start_workers(t, nworker, w)
                                             ELSE StartNone(t, w)
        /\ UNCHANGED <<nworker, hwm, alloc, pc, sbuf, gen, pipe, chld, sock,
                       sigs, reopen, termed, serving, req, peer, nsig, nkill>>

Bug_NoRestart(p) == Reap(p, alive /\ wpc[p] # "noinput", FALSE)

Bug_KilledEnds(p) == Reap(p, alive /\ wpc[p] = "exit0", TRUE)

reaped_prefork_worker(p) == Reap(p, alive /\ wpc[p] # "noinput", TRUE)

\* waitpid has nothing more to report (pid 0 or ECHILD).
ReapedAll ==
    /\ pc = "reap" /\ \A p \in Pids : wpc[p] \notin Zombies
    /\ pc' = "chars"
    /\ UNCHANGED <<alive, nworker, hwm, alloc, pids, sbuf, gen, pipe, chld,
                   workerVars, req, peer, counters>>

\* Acting on one byte of sbuf.
Char(c) == pc = "chars" /\ sbuf # << >> /\ Head(sbuf) = c /\ sbuf' = Tail(sbuf)

CharChld ==
    /\ Char(".")
    /\ UNCHANGED <<alive, nworker, hwm, alloc, pids, pc, gen, pipe, chld,
                   workerVars, req, peer, counters>>

CharsDone ==
    /\ pc = "chars" /\ sbuf = << >>
    /\ pc' = "loop"
    /\ UNCHANGED <<alive, nworker, hwm, alloc, pids, sbuf, gen, pipe, chld,
                   workerVars, req, peer, counters>>

\* do_sigttin: the table is reallocated to nworker + 1 entries, whatever
\* nworker_hwm is, and slot nworker is emptied, whoever is in it.  What was
\* stored past the end of the new allocation is undefined.
do_sigttin ==
    /\ Char("+")
    /\ IF ~alive \/ nworker >= WORKER_MAX
       THEN UNCHANGED <<nworker, hwm, alloc, pids, wpc, wlog, npid, unborn>>
       ELSE /\ nworker' = nworker + 1 /\ alloc' = nworker + 1
            /\ hwm' = IF hwm < nworker' THEN nworker' ELSE hwm
            /\ \E junk \in [{nr \in Slots : nr > nworker /\ nr < hwm} -> Pids \union {0}] :
                 start_workers([nr \in Slots |->
                                   IF nr = nworker THEN 0
                                   ELSE IF nr \in DOMAIN junk THEN junk[nr] ELSE pids[nr]],
                               nworker', wpc)
    /\ UNCHANGED <<alive, pc, gen, pipe, chld, sock, sigs, reopen, termed,
                   serving, req, peer, nsig, nkill>>

\* kill(pid, SIGxxx) for the workers in the slots ss.
Kill(ss, sig) ==
    sigs' = [p \in Pids |-> IF \E nr \in ss : pids[nr] = p THEN sigs[p] \union {sig} ELSE sigs[p]]

\* The workers in the slots ss are told to go; one is kept.
Ttou(ss) ==
    /\ Char("-")
    /\ IF ~alive \/ nworker <= 1
       THEN UNCHANGED <<nworker, sigs, termed>>
       ELSE /\ nworker' = nworker - 1
            /\ Kill(ss, "TERM")
            /\ termed' = termed \union ({pids[nr] : nr \in ss} \ {0})
    /\ UNCHANGED <<alive, hwm, alloc, pids, pc, gen, pipe, chld, wpc, sock, reopen,
                   wlog, serving, req, peer, counters>>

Bug_TermTooFew == Ttou(nworker .. (hwm - 1))

do_sigttou == Ttou((nworker - 1) .. (hwm - 1))

\* parent_reopen_logs: the parent reopens its own files and sends SIGUSR1 to
\* the workers in slots nworker .. nworker_hwm - 1.
parent_reopen_logs ==
    /\ Char("#")
    /\ gen' = gen + 1
    /\ Kill(nworker .. (hwm - 1), "USR1")
    /\ UNCHANGED <<alive, nworker, hwm, alloc, pids, pc, pipe, chld, wpc, sock,
                   reopen, wlog, termed, serving, req, peer, counters>>

Parent == \/ ReadPipe \/ ParentExit \/ ReapedAll \/ CharChld \/ CharsDone
          \/ do_sigttin \/ do_sigttou \/ parent_reopen_logs
          \/ \E p \in Pids : reaped_prefork_worker(p)

-----------------------------------------------------------------------------
unchangedByWorker == <<parentVars, pipe, wlog, termed, peer, counters>>

\* recv_loop, recv_req up to sigprocmask: signals that became pending while
\* the worker was busy or being born are handled before sigprocmask returns.
HandleSigs(p) ==
    /\ sock' = IF "TERM" \in sigs[p] THEN [sock EXCEPT ![p] = -1] ELSE sock
    /\ reopen' = IF "USR1" \in sigs[p] THEN [reopen EXCEPT ![p] = TRUE] ELSE reopen
    /\ sigs' = [sigs EXCEPT ![p] = {}]

Top(p) ==
    /\ wpc[p] = "top" /\ sock[p] = 0
    /\ HandleSigs(p)
    /\ wpc' = [wpc EXCEPT ![p] = "open"]
    /\ UNCHANGED <<unchangedByWorker, chld, serving, req>>

\* The death of a worker raises SIGCHLD.
Exits(p, how) == wpc' = [wpc EXCEPT ![p] = how] /\ chld' = TRUE

\* while (sock_fd == 0): exit(0) in start_worker.
LoopEnds(p) ==
    /\ wpc[p] = "top" /\ sock[p] # 0
    /\ Exits(p, "exit0")
    /\ UNCHANGED <<unchangedByWorker, sock, sigs, reopen, serving, req>>

\* sigw interrupts the worker: in recvmsg it makes it fail with EINTR, after
\* sock_fd was loaded but before the system call it is not noticed.
Bug_TermKills(p) ==
    /\ wpc[p] \in RunPcs /\ sigs[p] # {}
    /\ HandleSigs(p)
    /\ Exits(p, "exit0")
    /\ UNCHANGED <<unchangedByWorker, serving, req>>

sigw(p) ==
    /\ wpc[p] \in WaitPcs /\ sigs[p] # {}
    /\ HandleSigs(p)
    /\ wpc' = IF wpc[p] = "recv" THEN [wpc EXCEPT ![p] = "open"] ELSE wpc
    /\ UNCHANGED <<unchangedByWorker, chld, serving, req>>

\* recvmsg(sock_fd): EBADF after SIGTERM, exit(0).
LoadFd(p) ==
    /\ wpc[p] = "open"
    /\ IF sock[p] = 0 THEN wpc' = [wpc EXCEPT ![p] = "loaded"] /\ UNCHANGED chld
                      ELSE Exits(p, "exit0")
    /\ UNCHANGED <<unchangedByWorker, sock, sigs, reopen, serving, req>>

EnterRecv(p) ==
    /\ wpc[p] = "loaded"
    /\ wpc' = [wpc EXCEPT ![p] = "recv"]
    /\ UNCHANGED <<unchangedByWorker, chld, sock, sigs, reopen, serving, req>>

\* A request arrives; all signals but SIGALRM are blocked from here on.
Queued == {r \in Requests : req[r] = "queued"}

RecvReq(p) ==
    /\ wpc[p] = "recv"
    /\ \E r \in Queued :
         /\ \A o \in Queued : r <= o
         /\ req' = [req EXCEPT ![r] = "busy"]
         /\ serving' = [serving EXCEPT ![p] = r]
    /\ wpc' = [wpc EXCEPT ![p] = "busy"]
    /\ UNCHANGED <<unchangedByWorker, chld, sock, sigs, reopen>>

\* recvmsg returns 0: the grandparent went away.
NoInput(p) ==
    /\ wpc[p] = "recv" /\ ~peer /\ Queued = {}
    /\ Exits(p, "noinput")
    /\ UNCHANGED <<unchangedByWorker, sock, sigs, reopen, serving, req>>

\* recv_once returns after dispatch: the client sees the response end; log
\* files are reopened if SIGUSR1 came before the request was received.
recv_once(p) ==
    /\ wpc[p] = "busy"
    /\ req' = [req EXCEPT ![serving[p]] = "done"]
    /\ serving' = [serving EXCEPT ![p] = 0]
    /\ wlog' = [wlog EXCEPT ![p] = IF reopen[p] THEN gen ELSE @]
    /\ reopen' = [reopen EXCEPT ![p] = FALSE]
    /\ wpc' = [wpc EXCEPT ![p] = "top"]
    /\ UNCHANGED <<parentVars, pipe, termed, peer, counters, chld, sock, sigs>>

\* The alarm of -K, or abort(): the client of the request sees EOF.
Killed(p) ==
    /\ wpc[p] = "busy" /\ nkill < MaxKill
    /\ req' = [req EXCEPT ![serving[p]] = "aborted"]
    /\ serving' = [serving EXCEPT ![p] = 0]
    /\ Exits(p, "killed")
    /\ nkill' = nkill + 1
    /\ UNCHANGED <<parentVars, pipe, wlog, termed, peer, npid, nsig, unborn, sock, sigs, reopen>>

Worker(p) == \/ Top(p) \/ LoopEnds(p) \/ sigw(p) \/ LoadFd(p) \/ EnterRecv(p)
             \/ RecvReq(p) \/ NoInput(p) \/ recv_once(p)

-----------------------------------------------------------------------------
\* External: XapClient::mkreq, and the end of the process that owns it.
mkreq(r) ==
    /\ peer /\ req[r] = "unsent" /\ \A o \in 1 .. r - 1 : req[o] # "unsent"
    /\ req' = [req EXCEPT ![r] = "queued"]
    /\ UNCHANGED <<parentVars, pipe, chld, workerVars, peer, counters>>

ClosePeer ==
    /\ peer
    /\ peer' = FALSE
    /\ UNCHANGED <<parentVars, pipe, chld, workerVars, req, counters>>

\* Nothing is left to run: the parent and all workers are gone, or wait.
Quiet ==
    /\ \/ pc = "exited"
       \/ pc = "loop" /\ pipe = << >> /\ ~chld
    /\ \A p \in Pids : wpc[p] \in {"none", "reaped", "recv"} \union Zombies
    /\ UNCHANGED vars

Next == \/ Parent \/ SigChld \/ ClosePeer \/ Quiet
        \/ \E c \in {"-", "+", "#"} : Signal(c)
        \/ \E p \in Pids : Worker(p) \/ Killed(p)
        \/ \E r \in Requests : mkreq(r)

\* The kernel schedules the parent and every worker and delivers SIGCHLD;
\* clients, signals and crashes come as they like.
Fairness ==
    /\ WF_vars(Parent) /\ WF_vars(SigChld)
    /\ \A p \in Pids : WF_vars(Worker(p))

Spec == Init /\ [][Next]_vars /\ Fairness

-----------------------------------------------------------------------------
Running == {p \in Pids : wpc[p] \in RunPcs}
Known   == {pids[nr] : nr \in 0 .. hwm - 1} \ {0}

\* A worker the parent lost track of (do_sigttin empties a slot without asking
\* who is in it) has been told to go: every running worker is in worker_pids
\* or was sent SIGTERM, so the service never runs workers nobody can stop.
NoStrayWorker == pc # "exited" => \A p \in Running : p \in Known \/ p \in termed

\* A request is worked on by at most one worker, and only the death of that
\* very worker aborts it: SIGTERM and SIGUSR1 never cut a response short.
ServedOnce ==
    /\ \A p \in Pids : serving[p] # 0 <=> wpc[p] = "busy"
    /\ \A p, q \in Pids : serving[p] # 0 /\ serving[p] = serving[q] => p = q
    /\ \A r \in Requests : req[r] = "busy" <=> \E p \in Pids : serving[p] = r
    /\ Cardinality({r \in Requests : req[r] = "aborted"}) = nkill

\* The parent only gives up once the socket is closed: not because of dead,
\* killed or dismissed workers.
GivesUpAfterClose == ~alive \/ pc = "exited" => ~peer

\* fork(2) failed for the last worker: no SIGCHLD will wake the parent again.
Stranded == unborn /\ pc = "loop" /\ alive /\ pipe = << >> /\ Known = {}

\* A sent request is received, the deaths of workers, the dismissal of idle
\* ones and signals dropped by a full pipe notwithstanding: time and again
\* none is queued, or there is nobody left to take it.
RequestsReceived == []<>(Stranded \/ \A r \in Requests : req[r] # "queued")

\* When the client goes away the parent and every worker end.
EndsAfterClose == ~peer ~> (Stranded \/ pc = "exited") /\ Running = {}

\* "worker_pids array does not shrink" (comment in do_sigttou): all entries up
\* to nworker_hwm, which the parent goes on reading, stay allocated.
TableDoesNotShrink == alloc >= hwm

\* SIGUSR1 "Reopens log files" (public-inbox-daemon(8)): every worker with old
\* log files was told or has noted that it must reopen them.
ReopenReachesWorkers ==
    \A p \in Known \intersect Running :
        wlog[p] # gen => "USR1" \in sigs[p] \/ reopen[p]
=============================================================================
