-------------------------- MODULE XapDynforkProofs --------------------------
(***************************************************************************)
(* Proofs about XapDynfork for every number of children, requests, signals *)
(* and size of the self-pipe.                                              *)
(***************************************************************************)
EXTENDS XapDynfork, TLAPS

\* A child that leaves with EX_NOINPUT has seen the end of the socket.  It is
\* this that reaped_dynfork_worker relies on, and that EndsOnlyAfterAll lacks
\* to be inductive: the parent reads the status long after it was true.
NoInputIsEnd == \A p \in Pids : child[p] = "noinput" => ~peer /\ rcvd = sent

DInv == TypeOK /\ NoInputIsEnd /\ EndsOnlyAfterAll

\* The parent's own steps: only reaping a child can end the loop.
LEMMA ParentStep == DInv /\ Parent => DInv'
<1> SUFFICES ASSUME DInv, Parent PROVE DInv'
  OBVIOUS
<1> USE DEF Zombies
<1>1. ASSUME NEW p \in Pids, reaped_dynfork_worker(p) PROVE DInv'
  <2>1. TypeOK' /\ NoInputIsEnd'
    BY <1>1 DEF DInv, TypeOK, NoInputIsEnd, reaped_dynfork_worker, ReapDyn
  <2>2. EndsOnlyAfterAll'
    BY <1>1 DEF DInv, TypeOK, NoInputIsEnd, EndsOnlyAfterAll, reaped_dynfork_worker, ReapDyn
  <2> QED BY <2>1, <2>2 DEF DInv
<1>2. CASE dynfork_dispatch
  BY <1>2 DEF DInv, TypeOK, NoInputIsEnd, EndsOnlyAfterAll, dynfork_dispatch, Free
<1>3. CASE Poll
  BY <1>3 DEF DInv, TypeOK, NoInputIsEnd, EndsOnlyAfterAll, Poll, Ready
<1>4. CASE LoopEnds
  BY <1>4 DEF DInv, TypeOK, NoInputIsEnd, EndsOnlyAfterAll, LoopEnds
<1>5. CASE dynfork_check_sigs
  BY <1>5, BoundAssumption DEF DInv, TypeOK, NoInputIsEnd, EndsOnlyAfterAll, dynfork_check_sigs
<1>6. CASE NoMoreEvents
  BY <1>6 DEF DInv, TypeOK, NoInputIsEnd, EndsOnlyAfterAll, NoMoreEvents
<1> QED BY <1>1, <1>2, <1>3, <1>4, <1>5, <1>6 DEF Parent

\* A child's steps: it takes EX_NOINPUT only from an empty, closed socket, and
\* nothing is sent or received after that.
LEMMA ChildStep ==
    ASSUME DInv, NEW p \in Pids, recv_once(p) \/ Responds(p) \/ Killed(p)
    PROVE  DInv'
<1> USE BoundAssumption DEF Zombies, Requests
<1>1. CASE recv_once(p)
  <2>1. CASE rcvd < sent
    BY <1>1, <2>1 DEF DInv, TypeOK, NoInputIsEnd, EndsOnlyAfterAll, recv_once, RecvOnce, Dispatch
  <2>2. CASE ~(rcvd < sent)
    <3>1. rcvd = sent
      BY <2>2 DEF DInv, TypeOK
    <3> QED BY <1>1, <2>2, <3>1
         DEF DInv, TypeOK, NoInputIsEnd, EndsOnlyAfterAll, recv_once, RecvOnce, Exits
  <2> QED BY <2>1, <2>2
<1>2. CASE Responds(p)
  BY <1>2 DEF DInv, TypeOK, NoInputIsEnd, EndsOnlyAfterAll, Responds, Exits
<1>3. CASE Killed(p)
  BY <1>3 DEF DInv, TypeOK, NoInputIsEnd, EndsOnlyAfterAll, Killed, Exits
<1> QED BY <1>1, <1>2, <1>3

\* Whatever the kernel and lei do: lei sends nothing once it has closed.
LEMMA OtherStep ==
    DInv /\ (ForkFails \/ Signal \/ SigChld \/ mkreq \/ ClosePeer \/ UNCHANGED vars) => DInv'
<1> SUFFICES ASSUME DInv, ForkFails \/ Signal \/ SigChld \/ mkreq \/ ClosePeer \/ UNCHANGED vars
    PROVE DInv'
  OBVIOUS
<1> USE BoundAssumption DEF Zombies, Requests
<1>1. CASE ForkFails
  BY <1>1 DEF DInv, TypeOK, NoInputIsEnd, EndsOnlyAfterAll, ForkFails
<1>2. CASE Signal \/ SigChld
  <2>1. pipe' \in 0 .. PIPE_CAP
    BY <1>2 DEF DInv, TypeOK, Signal, SigChld, sigp
  <2>2. CASE Signal
    BY <2>1, <2>2 DEF DInv, TypeOK, NoInputIsEnd, EndsOnlyAfterAll, Signal
  <2>3. CASE SigChld
    BY <2>1, <2>3 DEF DInv, TypeOK, NoInputIsEnd, EndsOnlyAfterAll, SigChld
  <2> QED BY <1>2, <2>2, <2>3
<1>3. CASE mkreq
  BY <1>3 DEF DInv, TypeOK, NoInputIsEnd, EndsOnlyAfterAll, mkreq
<1>4. CASE ClosePeer
  BY <1>4 DEF DInv, TypeOK, NoInputIsEnd, EndsOnlyAfterAll, ClosePeer
<1>5. CASE UNCHANGED vars
  BY <1>5 DEF DInv, TypeOK, NoInputIsEnd, EndsOnlyAfterAll, vars
<1> QED BY <1>1, <1>2, <1>3, <1>4, <1>5

\* The inductive invariant holds in every reachable state.
THEOREM DynforkInvariant == Spec => []DInv
<1>1. Init => DInv
  <2> SUFFICES ASSUME Init PROVE DInv
    OBVIOUS
  <2>1. TypeOK
    <3>1. alive \in BOOLEAN /\ chld \in BOOLEAN /\ peer \in BOOLEAN
      BY DEF Init
    <3>2. /\ pipe \in 0 .. PIPE_CAP /\ sent \in 0 .. MaxReq /\ rcvd \in 0 .. sent
          /\ nsig \in Nat /\ nkill \in Nat
      BY BoundAssumption DEF Init
    <3>3. pc \in {"poll", "events", "reap", "exited", "died"} /\ revents \in SUBSET {"sock", "pipe"}
      BY DEF Init
    <3>4. /\ child \in [Pids -> {"none", "recv", "busy"} \union Zombies]
          /\ req \in [Pids -> Requests \union {0}]
          /\ fate \in [Requests -> {"none", "busy", "done", "aborted"}]
      BY DEF Init
    <3> QED BY <3>1, <3>2, <3>3, <3>4 DEF TypeOK
  <2>2. NoInputIsEnd /\ EndsOnlyAfterAll
    BY DEF Init, NoInputIsEnd, EndsOnlyAfterAll
  <2> QED BY <2>1, <2>2 DEF DInv
<1>2. DInv /\ [Next]_vars => DInv'
  BY ParentStep, ChildStep, OtherStep DEF Next, Quiet
<1> QED BY <1>1, <1>2, PTL DEF Spec

\* The loop ends only after lei went away and all its requests were received,
\* for any number of superfluous, killed and unreaped children.
THEOREM EndsOnlyAfterAllHolds == Spec => []EndsOnlyAfterAll
BY DynforkInvariant, PTL DEF DInv
=============================================================================
