----------------------------- MODULE XapDynfork -----------------------------
(***************************************************************************)
(* xap_helper.h with -l, for lei: the parent polls the request socket and  *)
(* its self-pipe, and forks one process per wake-up.  The socket stays     *)
(* readable until some child has received the request, so the parent may   *)
(* fork more children than there are requests; the late ones get EAGAIN.   *)
(***************************************************************************)
EXTENDS Integers, Sequences, FiniteSets

CONSTANTS
    Pids,       \* bound: children at one time; an id is used again once reaped
    MaxReq,     \* bound: requests sent
    PIPE_CAP,   \* bytes the self-pipe holds
    MaxSig,     \* bound: SIGUSR1, SIGTTIN or SIGTTOU sent to the parent
    MaxKill     \* bound: children killed by SIGALRM, SIGTERM or a crash

ASSUME BoundAssumption ==
    /\ IsFiniteSet(Pids)
    /\ MaxReq \in Nat /\ PIPE_CAP \in Nat \ {0} /\ MaxSig \in Nat /\ MaxKill \in Nat

VARIABLES
    alive,    \* alive
    pc,       \* where the parent is in dynfork_loop
    revents,  \* sources poll(2) reported and the parent has not served
    pipe,     \* number of bytes in the self-pipe
    chld,     \* SIGCHLD is pending for the parent
    child,    \* what each process does
    req,      \* the request it works on, 0 for none
    sent,     \* requests sent so far; they are received in order
    rcvd,     \* requests received so far
    fate,     \* what became of each received request
    peer,     \* the other end of the socket is open
    nsig, nkill

vars == <<alive, pc, revents, pipe, chld, child, req, sent, rcvd, fate, peer, nsig, nkill>>

Requests == 1 .. MaxReq
Zombies  == {"exit0", "noinput", "killed"}
Ended    == {"exited", "died"}

TypeOK ==
    /\ alive \in BOOLEAN /\ chld \in BOOLEAN /\ peer \in BOOLEAN
    /\ pc \in {"poll", "events", "reap", "exited", "died"}
    /\ revents \in SUBSET {"sock", "pipe"}
    /\ pipe \in 0 .. PIPE_CAP
    /\ child \in [Pids -> {"none", "recv", "busy"} \union Zombies]
    /\ req \in [Pids -> Requests \union {0}]
    /\ sent \in 0 .. MaxReq /\ rcvd \in 0 .. sent
    /\ fate \in [Requests -> {"none", "busy", "done", "aborted"}]
    /\ nsig \in Nat /\ nkill \in Nat

Init ==
    /\ alive = TRUE /\ pc = "poll" /\ revents = {} /\ pipe = 0 /\ chld = FALSE
    /\ child = [p \in Pids |-> "none"] /\ req = [p \in Pids |-> 0]
    /\ sent = 0 /\ rcvd = 0 /\ fate = [r \in Requests |-> "none"]
    /\ peer = TRUE /\ nsig = 0 /\ nkill = 0

-----------------------------------------------------------------------------
\* sigp: one byte per signal, dropped when the pipe is full.
sigp == pipe' = IF pipe < PIPE_CAP THEN pipe + 1 ELSE pipe

Signal ==
    /\ pc \notin Ended /\ nsig < MaxSig
    /\ sigp /\ nsig' = nsig + 1
    /\ UNCHANGED <<alive, pc, revents, chld, child, req, sent, rcvd, fate, peer, nkill>>

SigChld ==
    /\ chld /\ pc \notin Ended
    /\ sigp /\ chld' = FALSE
    /\ UNCHANGED <<alive, pc, revents, child, req, sent, rcvd, fate, peer, nsig, nkill>>

\* poll(2) is level-triggered: a request somebody is about to receive, or the
\* end of the socket, is reported again.
Ready == {s \in {"sock", "pipe"} : \/ s = "sock" /\ (rcvd < sent \/ ~peer)
                                   \/ s = "pipe" /\ pipe > 0}

Poll ==
    /\ pc = "poll" /\ alive /\ Ready # {}
    /\ revents' = Ready /\ pc' = "events"
    /\ UNCHANGED <<alive, pipe, chld, child, req, sent, rcvd, fate, peer, nsig, nkill>>

LoopEnds ==
    /\ pc = "poll" /\ ~alive
    /\ pc' = "exited"
    /\ UNCHANGED <<alive, revents, pipe, chld, child, req, sent, rcvd, fate, peer, nsig, nkill>>

Free == {p \in Pids : child[p] = "none"}

\* dynfork_dispatch comes first; the child will try to receive a request.  At
\* the bound on children the wake-up is left for the next poll(2).
dynfork_dispatch ==
    /\ pc = "events" /\ "sock" \in revents
    /\ IF Free = {} THEN UNCHANGED child
                    ELSE \E p \in Free : child' = [child EXCEPT ![p] = "recv"]
    /\ revents' = revents \ {"sock"}
    /\ UNCHANGED <<alive, pc, pipe, chld, req, sent, rcvd, fate, peer, nsig, nkill>>

\* err(EXIT_FAILURE, "fork"): the parent ends at once.
ForkFails ==
    /\ pc = "events" /\ "sock" \in revents
    /\ pc' = "died"
    /\ UNCHANGED <<alive, revents, pipe, chld, child, req, sent, rcvd, fate, peer, nsig, nkill>>

\* dynfork_check_sigs empties the pipe, then do_sigchld; SIGTTIN and SIGTTOU
\* are ignored and SIGUSR1 reopens the parent's logs.
dynfork_check_sigs ==
    /\ pc = "events" /\ revents = {"pipe"}
    /\ pipe' = 0 /\ revents' = {} /\ pc' = "reap"
    /\ UNCHANGED <<alive, chld, child, req, sent, rcvd, fate, peer, nsig, nkill>>

NoMoreEvents ==
    /\ \/ pc = "events" /\ revents = {}
       \/ pc = "reap" /\ \A p \in Pids : child[p] \notin Zombies
    /\ pc' = "poll"
    /\ UNCHANGED <<alive, revents, pipe, chld, child, req, sent, rcvd, fate, peer, nsig, nkill>>

\* reaped_dynfork_worker: EX_NOINPUT ends the loop.
ReapDyn(p, ends) ==
    /\ pc = "reap" /\ child[p] \in Zombies
    /\ alive' = (alive /\ child[p] \notin ends)
    /\ child' = [child EXCEPT ![p] = "none"]
    /\ UNCHANGED <<pc, revents, pipe, chld, req, sent, rcvd, fate, peer, nsig, nkill>>

Bug_AnyStatusEnds(p) == ReapDyn(p, {"noinput", "killed"})

Bug_NoneEnds(p) == ReapDyn(p, {})

reaped_dynfork_worker(p) == ReapDyn(p, {"noinput"})

Parent == \/ Poll \/ LoopEnds \/ dynfork_dispatch \/ dynfork_check_sigs \/ NoMoreEvents
          \/ \E p \in Pids : reaped_dynfork_worker(p)

-----------------------------------------------------------------------------
Exits(p, how) == child' = [child EXCEPT ![p] = how] /\ chld' = TRUE

\* recv_once in the child: a request (taken from the socket), EOF, or EAGAIN
\* because another child was faster.
Dispatch(p) ==
    /\ rcvd' = rcvd + 1
    /\ fate' = [fate EXCEPT ![rcvd + 1] = "busy"]
    /\ req' = [req EXCEPT ![p] = rcvd + 1]
    /\ child' = [child EXCEPT ![p] = "busy"]
    /\ UNCHANGED chld

RecvOnce(p, empty) ==
    /\ child[p] = "recv"
    /\ IF rcvd < sent THEN Dispatch(p)
       ELSE Exits(p, IF peer THEN empty ELSE "noinput") /\ UNCHANGED <<rcvd, fate, req>>
    /\ UNCHANGED <<alive, pc, revents, pipe, sent, peer, nsig, nkill>>

\* EAGAIN taken for the end of the socket.
Bug_EagainIsEOF(p) == RecvOnce(p, "noinput")

recv_once(p) == RecvOnce(p, "exit0")

Responds(p) ==
    /\ child[p] = "busy"
    /\ fate' = [fate EXCEPT ![req[p]] = "done"]
    /\ req' = [req EXCEPT ![p] = 0]
    /\ Exits(p, "exit0")
    /\ UNCHANGED <<alive, pc, revents, pipe, sent, rcvd, peer, nsig, nkill>>

\* A child may also die before it received anything (SIGTERM).
Killed(p) ==
    /\ child[p] \in {"recv", "busy"} /\ nkill < MaxKill
    /\ fate' = IF req[p] = 0 THEN fate ELSE [fate EXCEPT ![req[p]] = "aborted"]
    /\ req' = [req EXCEPT ![p] = 0]
    /\ Exits(p, "killed")
    /\ nkill' = nkill + 1
    /\ UNCHANGED <<alive, pc, revents, pipe, sent, rcvd, peer, nsig>>

\* External: lei sends a request, or goes away.
mkreq ==
    /\ peer /\ sent < MaxReq
    /\ sent' = sent + 1
    /\ UNCHANGED <<alive, pc, revents, pipe, chld, child, req, rcvd, fate, peer, nsig, nkill>>

ClosePeer ==
    /\ peer /\ peer' = FALSE
    /\ UNCHANGED <<alive, pc, revents, pipe, chld, child, req, sent, rcvd, fate, nsig, nkill>>

Quiet ==
    /\ \/ pc \in Ended
       \/ pc = "poll" /\ Ready = {} /\ ~chld
    /\ \A p \in Pids : child[p] \in {"none"} \union Zombies
    /\ UNCHANGED vars

Next == \/ Parent \/ ForkFails \/ Signal \/ SigChld \/ mkreq \/ ClosePeer \/ Quiet
        \/ \E p \in Pids : recv_once(p) \/ Responds(p) \/ Killed(p)

\* The kernel schedules the parent and its children and delivers SIGCHLD.
Fairness ==
    /\ WF_vars(Parent) /\ WF_vars(SigChld)
    /\ \A p \in Pids : WF_vars(recv_once(p)) /\ WF_vars(Responds(p))

Spec == Init /\ [][Next]_vars /\ Fairness

-----------------------------------------------------------------------------
\* The loop ends only after lei went away and all it sent was received: no
\* spurious wake-up or killed child is mistaken for the end of the socket.
EndsOnlyAfterAll == ~alive => ~peer /\ rcvd = sent

\* Every request sent is received unless fork(2) fails, extra forks and lost
\* SIGCHLD bytes notwithstanding.
RequestsReceived == \A n \in 1 .. MaxReq : sent >= n ~> rcvd >= n \/ pc = "died"

\* lei going away ends the helper.
EndsAfterClose == ~peer ~> pc \in Ended
=============================================================================
