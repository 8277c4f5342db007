---------------------------- MODULE QspawnProofs ----------------------------
(***************************************************************************)
(* Proofs about Limiter and Qspawn for every set of contexts, {max} and    *)
(* {depth}: Qspawn drives the Limiter the way Limiter says a client may,   *)
(* its children never outnumber the slots, and every client gets one       *)
(* answer.                                                                 *)
(***************************************************************************)
EXTENDS Qspawn, FiniteSetTheorems, SequenceTheorems, TLAPS

-----------------------------------------------------------------------------
(* The limiter. *)

\* Without WorkConserving the invariant on slots is not inductive: that a
\* context taken from {run_queue} does not hold a slot yet comes from it.
IInv == TypeOK /\ SlotsCounted /\ WorkConserving

\* The loop of _start_next drops at most the whole queue.
LEMMA DroppedIsPrefix ==
    ASSUME NEW q \in Seq(Contexts)
    PROVE  Dropped(q) \in 0 .. Len(q)
<1> DEFINE D == {i \in 1 .. Len(q) : \A j \in 1 .. i : GoneClient(q[j])}
<1>1. IsFiniteSet(1 .. Len(q)) /\ Cardinality(1 .. Len(q)) = Len(q)
  BY FS_Interval, 1 \in Int, Len(q) \in Nat
<1>2. D \in SUBSET (1 .. Len(q))
  OBVIOUS
<1>3. IsFiniteSet(D) /\ Cardinality(D) <= Len(q)
  BY <1>1, <1>2, FS_Subset
<1>4. Cardinality(D) \in Nat
  BY <1>3, FS_CardinalityType
<1> QED BY <1>3, <1>4 DEF Dropped

\* The contexts that hold a slot can be counted.
LEMMA HeldFinite == IsFiniteSet(Held) /\ Cardinality(Held) \in Nat
BY FiniteAssumption, FS_Subset, FS_CardinalityType, Held \in SUBSET Contexts DEF Held

\* One slot taken, one given back, one exchanged: what the three ways to
\* change the set of holders do to its size.
LEMMA HeldCount ==
    ASSUME IsFiniteSet(Held)
    PROVE  /\ \A c \in Contexts \ Held : Cardinality(Held \union {c}) = Cardinality(Held) + 1
           /\ \A c \in Held : Cardinality(Held \ {c}) = Cardinality(Held) - 1
           /\ \A c \in Held, d \in Contexts \ Held :
                  Cardinality((Held \ {c}) \union {d}) = Cardinality(Held)
<1>1. ASSUME NEW c \in Contexts \ Held
      PROVE  Cardinality(Held \union {c}) = Cardinality(Held) + 1
  BY FS_AddElement
<1>2. ASSUME NEW c \in Held
      PROVE  IsFiniteSet(Held \ {c}) /\ Cardinality(Held \ {c}) = Cardinality(Held) - 1
  BY FS_RemoveElement
<1>3. ASSUME NEW c \in Held, NEW d \in Contexts \ Held
      PROVE  Cardinality((Held \ {c}) \union {d}) = Cardinality(Held)
  <2>1. IsFiniteSet(Held \ {c}) /\ d \notin Held \ {c}
    BY <1>2
  <2>2. Cardinality((Held \ {c}) \union {d}) = Cardinality(Held \ {c}) + 1
    BY <2>1, FS_AddElement
  <2> QED BY <2>2, <1>2, HeldFinite
<1> QED BY <1>1, <1>2, <1>3

-----------------------------------------------------------------------------
\* Queued contexts do not hold a slot.
LEMMA QueuedNotHeld ==
    ASSUME IInv
    PROVE  \A i \in DOMAIN runQueue :
               runQueue[i] \in Contexts \ Held /\ phase[runQueue[i]] = "queued"
BY DEF IInv, WorkConserving, Queued, Held, TypeOK

\* What is left of the queue once n heads are dropped and one is started.
LEMMA RestOfQueue ==
    ASSUME NEW q \in Seq(Contexts), NEW n \in 0 .. Len(q)
    PROVE  LET rest == SubSeq(q, n + 2, Len(q))
           IN  /\ rest \in Seq(Contexts)
               /\ n < Len(q) =>
                     /\ DOMAIN rest = 1 .. (Len(q) - n - 1)
                     /\ \A i \in DOMAIN rest : rest[i] = q[i + n + 1]
               /\ n = Len(q) => rest = << >>
<1> DEFINE rest == SubSeq(q, n + 2, Len(q))
<1>1. Len(q) \in Nat /\ n + 2 \in Int /\ \A i \in n + 2 .. Len(q) : q[i] \in Contexts
  OBVIOUS
<1>2. /\ rest \in Seq(Contexts)
      /\ Len(rest) = IF n + 2 <= Len(q) THEN Len(q) - (n + 2) + 1 ELSE 0
      /\ \A i \in 1 .. Len(q) - (n + 2) + 1 : rest[i] = q[n + 2 + i - 1]
  BY <1>1, SubSeqProperties
<1>3. n = Len(q) => rest = << >>
  BY <1>1, SubSeqEmpty
<1> HIDE DEF rest
<1>4. n < Len(q) => DOMAIN rest = 1 .. (Len(q) - n - 1)
  BY <1>1, <1>2
<1>5. n < Len(q) => \A i \in DOMAIN rest : rest[i] = q[i + n + 1]
  BY <1>1, <1>2, <1>4
<1> QED BY <1>2, <1>3, <1>4, <1>5 DEF rest

\* may_start keeps the count of slots and the shape of the queue.
LEMMA MayStartStep ==
    ASSUME IInv, NEW c \in Contexts, may_start(c)
    PROVE  IInv'
<1> USE MaxAssumption, DepthAssumption
<1>0. TypeOK /\ SlotsCounted /\ WorkConserving /\ phase[c] = "new" /\ hup' = hup
  BY DEF IInv, may_start
<1>1. CASE StartNow(c)
  <2>1. TypeOK'
    BY <1>0, <1>1 DEF TypeOK, StartNow, Starts, Phases, Codes
  <2>2. Held' = Held \union {c} /\ c \notin Held
    BY <1>0, <1>1 DEF TypeOK, StartNow, Starts, Held
  <2>3. SlotsCounted'
    BY <1>0, <1>1, <2>2, HeldFinite, HeldCount DEF SlotsCounted, StartNow, Starts, TypeOK
  <2>4. Queued' = Queued
    BY <1>0, <1>1 DEF TypeOK, StartNow, Starts, Queued
  <2>5. runQueue = << >>
    BY <1>0, <1>1 DEF WorkConserving, StartNow, Starts, TypeOK
  <2>6. WorkConserving'
    BY <1>0, <1>1, <2>4, <2>5 DEF WorkConserving, StartNow, Starts
  <2> QED BY <2>1, <2>3, <2>6 DEF IInv
<1>2. CASE TooBusy(c)
  <2>1. TypeOK'
    BY <1>0, <1>2 DEF TypeOK, TooBusy, Phases, Codes
  <2>2. Held' = Held /\ Queued' = Queued
    BY <1>0, <1>2 DEF TypeOK, TooBusy, Held, Queued
  <2> QED BY <1>0, <1>2, <2>1, <2>2 DEF IInv, SlotsCounted, WorkConserving, TooBusy
<1>3. CASE Enqueue(c)
  <2>1. TypeOK'
    BY <1>0, <1>3 DEF TypeOK, Enqueue, Push, Phases, Codes
  <2>2. Held' = Held /\ Queued' = Queued \union {c} /\ c \notin Queued
    BY <1>0, <1>3 DEF TypeOK, Enqueue, Push, Held, Queued
  <2>3. running' = running /\ running = Max
    BY <1>0, <1>3 DEF TypeOK, SlotsCounted, Enqueue, Push
  <2>4. /\ DOMAIN runQueue' = DOMAIN runQueue \union {Len(runQueue) + 1}
        /\ \A i \in DOMAIN runQueue : runQueue'[i] = runQueue[i] /\ i # Len(runQueue) + 1
        /\ runQueue'[Len(runQueue) + 1] = c
    BY <1>0, <1>3 DEF TypeOK, Enqueue, Push
  <2>5. {runQueue'[i] : i \in DOMAIN runQueue'} = {runQueue[i] : i \in DOMAIN runQueue} \union {c}
    BY <2>4
  <2>6. \A i, j \in DOMAIN runQueue' : runQueue'[i] = runQueue'[j] => i = j
    BY <1>0, <2>2, <2>4 DEF WorkConserving
  <2>7. WorkConserving'
    BY <1>0, <2>2, <2>3, <2>5, <2>6 DEF WorkConserving
  <2> QED BY <1>0, <2>1, <2>2, <2>3, <2>7 DEF IInv, SlotsCounted
<1> QED BY <1>1, <1>2, <1>3 DEF may_start

\* _start_next hands the slot on or frees it: the count stays right, and a
\* free slot is only left behind by an empty queue.
LEMMA StartNextStep ==
    ASSUME IInv, NEW c \in Contexts, _start_next(c)
    PROVE  IInv'
<1> USE MaxAssumption
<1> DEFINE n == Dropped(runQueue)
           L == Len(runQueue)
           drop == Elements(runQueue, 1 .. n)
           start == Elements(runQueue, {n + 1})
           rest == SubSeq(runQueue, n + 2, L)
<1>0. /\ TypeOK /\ SlotsCounted /\ WorkConserving
      /\ HandOver(c, drop, start, rest)
      /\ n \in 0 .. L /\ L \in Nat /\ DOMAIN runQueue = 1 .. L
  BY DroppedIsPrefix DEF IInv, _start_next, TypeOK
<1>q. /\ drop = {runQueue[i] : i \in 1 .. n}
      /\ n < L => start = {runQueue[n + 1]} /\ n + 1 \in DOMAIN runQueue
      /\ n = L => start = {}
  BY <1>0 DEF Elements
<1>r. /\ rest \in Seq(Contexts)
      /\ n < L => /\ DOMAIN rest = 1 .. (L - n - 1)
                  /\ \A i \in DOMAIN rest : rest[i] = runQueue[i + n + 1]
      /\ n = L => rest = << >>
  BY <1>0, RestOfQueue DEF TypeOK
<1> HIDE DEF n, L, drop, start, rest
<1>s. /\ drop \subseteq Queued /\ start \subseteq Queued
      /\ c \notin Queued /\ c \in Held
  <2>1. Queued = {runQueue[i] : i \in 1 .. L}
    BY <1>0 DEF WorkConserving
  <2>2. c \notin Queued /\ c \in Held
    BY <1>0 DEF HandOver, Queued, Held
  <2> QED BY <1>0, <1>q, <2>1, <2>2
<1>t. Held' = (Held \ {c}) \union start
  <2>1. drop \intersect start = {}
    BY <1>0, <1>q DEF WorkConserving
  <2> QED BY <1>0, <1>s, <2>1 DEF HandOver, Held, Queued, TypeOK
<1>u. Queued' = Queued \ (drop \union start)
  BY <1>0, <1>s DEF HandOver, Held, Queued, TypeOK
<1>v. /\ runQueue' = rest
      /\ n < L => running' = running
      /\ n = L => running' = running - 1
  BY <1>0, <1>q DEF HandOver, TypeOK
<1>w. Cardinality(Held) \in Nat /\ Cardinality(Held) > 0
  BY <1>s, HeldFinite, FS_EmptySet
<1>1. TypeOK'
  <2>1. running' \in Nat
    BY <1>0, <1>v, <1>w DEF SlotsCounted
  <2>2. runQueue' \in Seq(Contexts)
    BY <1>0, <1>r, <1>v
  <2>3. phase' \in [Contexts -> Phases]
    BY <1>0 DEF HandOver, TypeOK, Phases
  <2>4. code' \in [Contexts -> Codes]
    BY <1>0 DEF HandOver, TypeOK, Codes
  <2>5. hup' \in SUBSET Contexts
    BY <1>0 DEF HandOver, TypeOK
  <2> QED BY <2>1, <2>2, <2>3, <2>4, <2>5 DEF TypeOK
<1>2. SlotsCounted'
  <2>1. CASE n = L
    BY <1>0, <1>q, <1>s, <1>t, <1>v, <1>w, <2>1, HeldFinite, HeldCount DEF SlotsCounted
  <2>2. CASE n < L
    <3>1. runQueue[n + 1] \in Contexts \ Held
      BY <1>q, <2>2, QueuedNotHeld
    <3>2. Held' = (Held \ {c}) \union {runQueue[n + 1]}
      BY <1>q, <1>t, <2>2
    <3>3. Cardinality(Held') = Cardinality(Held)
      BY <3>1, <3>2, <1>s, HeldFinite, HeldCount
    <3> QED BY <1>0, <1>v, <2>2, <3>3 DEF SlotsCounted
  <2> QED BY <1>0, <2>1, <2>2
<1>3. WorkConserving'
  <2>1. CASE n = L
    <3>1. Queued' = {}
      BY <1>0, <1>q, <1>u, <2>1 DEF WorkConserving
    <3> QED BY <3>1, <1>r, <1>v, <2>1 DEF WorkConserving
  <2>2. CASE n < L
    <3>1. \A i \in DOMAIN rest : rest[i] = runQueue[i + n + 1] /\ i + n + 1 \in n + 2 .. L
      BY <1>0, <1>r, <2>2
    <3>2. \A i \in n + 2 .. L : i - n - 1 \in DOMAIN rest /\ rest[i - n - 1] = runQueue[i]
      BY <1>0, <1>r, <2>2
    <3>3. {rest[i] : i \in DOMAIN rest} = {runQueue[i] : i \in n + 2 .. L}
      BY <3>1, <3>2
    <3>4. Queued' = {runQueue[i] : i \in n + 2 .. L}
      <4>1. Queued = {runQueue[i] : i \in 1 .. L}
        BY <1>0 DEF WorkConserving
      <4>2. drop \union start = {runQueue[i] : i \in 1 .. n + 1}
        BY <1>0, <1>q, <2>2
      <4>3. \A i, j \in 1 .. L : runQueue[i] = runQueue[j] => i = j
        BY <1>0 DEF WorkConserving
      <4> QED BY <1>0, <1>u, <4>1, <4>2, <4>3, <2>2
    <3>5. \A i, j \in DOMAIN rest : rest[i] = rest[j] => i = j
      BY <1>0, <3>1, <1>r, <2>2 DEF WorkConserving
    <3>6. running' = Max
      BY <1>0, <1>v, <2>2 DEF WorkConserving
    <3> QED BY <1>v, <3>3, <3>4, <3>5, <3>6 DEF WorkConserving
  <2> QED BY <1>0, <2>1, <2>2
<1> QED BY <1>1, <1>2, <1>3 DEF IInv

\* IInv holds at first, and no step of the limiter breaks it.
LEMMA InitIInv == Init => IInv
<1> SUFFICES ASSUME Init PROVE IInv
  OBVIOUS
<1>1. Held = {} /\ Queued = {}
  BY DEF Init, Held, Queued
<1> QED BY <1>1, MaxAssumption, FS_EmptySet
     DEF Init, IInv, TypeOK, SlotsCounted, WorkConserving, Phases, Codes

\* Every operation of the limiter keeps the invariant.
LEMMA NextIInv == IInv /\ [Next]_limiterVars => IInv'
<1> SUFFICES ASSUME IInv, [Next]_limiterVars PROVE IInv'
  OBVIOUS
<1>1. ASSUME NEW c \in Contexts, may_start(c) PROVE IInv'
  BY <1>1, MayStartStep
<1>2. ASSUME NEW c \in Contexts, _start_next(c) PROVE IInv'
  BY <1>2, StartNextStep
<1>3. ASSUME NEW c \in Contexts, ClientHup(c) PROVE IInv'
  BY <1>3 DEF ClientHup, IInv, TypeOK, SlotsCounted, WorkConserving, Held, Queued
<1>4. CASE UNCHANGED limiterVars
  BY <1>4 DEF limiterVars, IInv, TypeOK, SlotsCounted, WorkConserving, Held, Queued
<1> QED BY <1>1, <1>2, <1>3, <1>4 DEF Next, Idle

\* The inductive invariant holds in every reachable state.
THEOREM LimiterInvariant == Spec => []IInv
BY InitIInv, NextIInv, PTL DEF Spec

\* {running} counts the contexts with a slot and never exceeds {max}, for
\* every limiter: a slot is neither leaked nor given back twice.
THEOREM SlotsCountedHolds == Spec => []SlotsCounted
BY LimiterInvariant, PTL DEF IInv

\* For every limiter: nobody waits while a slot is free, and the queue holds
\* each waiting context once.
THEOREM WorkConservingHolds == Spec => []WorkConserving
BY LimiterInvariant, PTL DEF IInv

\* {run_queue} never holds more than {depth} + 1 contexts.
THEOREM QueueBoundHolds == Spec => []QueueBound
<1> USE DepthAssumption
<1>1. Init => QueueBound
  BY DEF Init, QueueBound
<1>2. IInv /\ QueueBound /\ [Next]_limiterVars => QueueBound'
  <2> SUFFICES ASSUME IInv, QueueBound, [Next]_limiterVars PROVE QueueBound'
    OBVIOUS
  <2>0. runQueue \in Seq(Contexts) /\ Len(runQueue) \in Nat
    BY DEF IInv, TypeOK
  <2>1. ASSUME NEW c \in Contexts, may_start(c) PROVE QueueBound'
    <3>1. CASE Enqueue(c)
      BY <2>0, <3>1 DEF Enqueue, Push, QueueBound
    <3>2. CASE ~Enqueue(c)
      BY <2>1, <3>2 DEF may_start, StartNow, Starts, TooBusy, QueueBound
    <3> QED BY <3>1, <3>2
  <2>2. ASSUME NEW c \in Contexts, _start_next(c) PROVE QueueBound'
    <3>1. runQueue' = SubSeq(runQueue, Dropped(runQueue) + 2, Len(runQueue))
      BY <2>2 DEF _start_next, HandOver
    <3>2. Dropped(runQueue) \in 0 .. Len(runQueue)
      BY <2>0, DroppedIsPrefix
    <3>3. Len(runQueue') <= Len(runQueue)
      BY <2>0, <3>1, <3>2, RestOfQueue
    <3> QED BY <2>0, <3>1, <3>2, <3>3, RestOfQueue DEF QueueBound
  <2>3. ASSUME NEW c \in Contexts, ClientHup(c) PROVE QueueBound'
    BY <2>3 DEF ClientHup, QueueBound
  <2>4. CASE UNCHANGED limiterVars
    BY <2>4 DEF limiterVars, QueueBound
  <2> QED BY <2>1, <2>2, <2>3, <2>4 DEF Next, Idle
<1> QED BY <1>1, <1>2, LimiterInvariant, PTL DEF Spec

-----------------------------------------------------------------------------
(* Qspawn on top of it. *)

\* Whatever an object does, the limiter sees one of its own operations or
\* nothing.
LEMMA StepUnderLimiter == [QNext]_vars => [Next]_limiterVars
<1> SUFFICES ASSUME [QNext]_vars PROVE [Next]_limiterVars
  OBVIOUS
<1>1. ASSUME NEW c \in Contexts, psgi_yield(c) PROVE Next
  BY <1>1 DEF psgi_yield, Next
<1>2. ASSUME NEW c \in Contexts, NEW d \in Contexts, yield_chain(c, d) PROVE Next
  BY <1>2 DEF yield_chain, Next
<1>3. ASSUME NEW c \in Contexts, DESTROY(c) PROVE Next
  BY <1>3 DEF DESTROY, Next
<1>4. ASSUME NEW c \in Contexts, Hangup(c) PROVE Next
  BY <1>4 DEF Hangup, Next
<1>5. ASSUME NEW c \in Contexts, ChildExits(c) \/ waitpid_err(c) \/ yield_pass(c) \/ yield_chunk(c)
      PROVE  UNCHANGED limiterVars
  BY <1>5 DEF ChildExits, waitpid_err, WaitpidErr, yield_pass, yield_chunk
<1>6. CASE QIdle \/ UNCHANGED vars
  BY <1>6 DEF QIdle, Idle, vars
<1> QED BY <1>1, <1>2, <1>3, <1>4, <1>5, <1>6 DEF QNext, Read

\* Qspawn implements the Limiter's specification (fairness aside): all that
\* the proofs above say of a limiter is true of the one Qspawn uses.
THEOREM QspawnUnderLimiter == QSpec => Init /\ [][Next]_limiterVars
<1>1. QInit => Init
  BY DEF QInit
<1> QED BY <1>1, StepUnderLimiter, PTL DEF QSpec

-----------------------------------------------------------------------------
Unreaped(o) == o.child \in {"live", "zombie"}

\* A child that has not been reaped belongs to an object with a slot.
ChildHoldsSlot == \A c \in Contexts : Unreaped(obj[c]) => phase[c] = "held"

ObjOK == obj \in [Contexts -> Objects]

QInv == IInv /\ ObjOK /\ ChildHoldsSlot

\* start_cb makes an object of an object.
LEMMA SpawnedObject ==
    ASSUME NEW c \in Contexts, NEW o \in Objects
    PROVE  Spawned(c, o) \subseteq Objects
BY DEF Spawned, Finish, Finishes, Finalized, Objects, ChildStates

\* What the limiter's step does to the objects: only contexts that are given
\* a slot may get a child.
LEMMA LimitedObjects ==
    ASSUME NEW o \in [Contexts -> Objects], NEW w, NEW finals, Limited(o, w, finals)
    PROVE  /\ ObjOK'
           /\ \A c \in Contexts : Unreaped(obj'[c]) => phase'[c] = "held" \/ Unreaped(o[c])
<1> DEFINE refused == {c \in Contexts : code'[c] # code[c]}
           started == {c \in Contexts : phase'[c] = "held" /\ phase[c] # "held"}
<1>1. PICK s : /\ \A c \in started : s[c] \in Spawned(c, o[c])
               /\ obj' = [c \in Contexts |-> IF c \in started THEN s[c]
                            ELSE IF c \in refused THEN Finalized(o[c]) ELSE o[c]]
  BY DEF Limited
<1>2. \A c \in started : s[c] \in Objects
  BY <1>1, SpawnedObject
<1>3. \A x \in Objects : Finalized(x) \in Objects /\ Finalized(x).child = x.child
  BY DEF Finalized, Objects
<1>4. ObjOK'
  BY <1>1, <1>2, <1>3 DEF ObjOK
<1>5. \A c \in Contexts \ started : obj'[c].child = o[c].child
  BY <1>1, <1>3
<1> QED BY <1>4, <1>5 DEF Unreaped

\* A slot is only taken from the context that is destroyed.
LEMMA SlotsKept ==
    ASSUME IInv, NEW c \in Contexts, may_start(c) \/ _start_next(c)
    PROVE  \A d \in Contexts : phase[d] = "held" =>
               phase'[d] = "held" \/ (d = c /\ _start_next(c))
<1>1. CASE may_start(c)
  BY <1>1 DEF may_start, StartNow, Starts, TooBusy, Enqueue, Push, IInv, TypeOK
<1>2. CASE _start_next(c)
  <2> DEFINE n == Dropped(runQueue)
  <2>1. \A d \in Elements(runQueue, 1 .. n) : phase[d] = "queued"
    BY QueuedNotHeld DEF Elements
  <2>2. \A d \in Contexts : phase'[d] = IF d = c \/ d \in Elements(runQueue, 1 .. n) THEN "gone"
            ELSE IF d \in Elements(runQueue, {n + 1}) THEN "held" ELSE phase[d]
    BY <1>2 DEF _start_next, HandOver
  <2> QED BY <1>2, <2>1, <2>2
<1> QED BY <1>1, <1>2

\* Steps that go through the limiter: an unreaped child keeps its slot unless
\* its own object is destroyed, which Unreferenced rules out.
LEMMA LimitedStep ==
    ASSUME QInv, NEW c \in Contexts, may_start(c) \/ (_start_next(c) /\ ~Unreaped(obj[c])),
           NEW o \in [Contexts -> Objects], NEW w, NEW finals, Limited(o, w, finals),
           \A d \in Contexts : o[d].child = obj[d].child
    PROVE  QInv'
<1>1. IInv'
  BY MayStartStep, StartNextStep DEF QInv
<1>2. ObjOK' /\ \A d \in Contexts : Unreaped(obj'[d]) => phase'[d] = "held" \/ Unreaped(o[d])
  BY LimitedObjects
<1>3. \A d \in Contexts : Unreaped(o[d]) => Unreaped(obj[d])
  BY DEF Unreaped
<1>4. \A d \in Contexts : Unreaped(obj[d]) => phase'[d] = "held"
  BY SlotsKept DEF QInv, ChildHoldsSlot, Unreaped, may_start
<1>5. ChildHoldsSlot'
  BY <1>2, <1>3, <1>4 DEF ChildHoldsSlot
<1> QED BY <1>1, <1>2, <1>5 DEF QInv

\* Steps that leave the limiter alone and start no child.
LEMMA ObjectStep ==
    ASSUME QInv, UNCHANGED limiterVars, ObjOK',
           \A d \in Contexts : Unreaped(obj'[d]) => Unreaped(obj[d])
    PROVE  QInv'
<1>1. IInv'
  BY NextIInv DEF QInv
<1>2. phase' = phase
  BY DEF limiterVars
<1> QED BY <1>1, <1>2 DEF QInv, ChildHoldsSlot

\* What the operations on one object return.
LEMMA ObjectOps ==
    ASSUME NEW o \in Objects
    PROVE  /\ Closed(o) \in Objects /\ Closed(o).child = o.child
           /\ Finalized(o) \in Objects /\ Finalized(o).child = o.child
           /\ Finish(o) \in Objects /\ Finish(o).child = o.child
           /\ [o EXCEPT !.qfh = TRUE] \in Objects /\ [o EXCEPT !.qfh = TRUE].child = o.child
           /\ [o EXCEPT !.passed = TRUE] \in Objects /\ [o EXCEPT !.passed = TRUE].child = o.child
           /\ \A e \in Contexts \union {NoEnv} :
                  [o EXCEPT !.env = e] \in Objects /\ [o EXCEPT !.env = e].child = o.child
BY DEF Closed, Finalized, Finish, Finishes, Objects

\* QInv is inductive.
LEMMA NextQInv == QInv /\ [QNext]_vars => QInv'
<1> SUFFICES ASSUME QInv, [QNext]_vars PROVE QInv'
  OBVIOUS
<1>0. obj \in [Contexts -> Objects] /\ \A c \in Contexts : obj[c] \in Objects
  BY DEF QInv, ObjOK
<1>1. ASSUME NEW c \in Contexts, psgi_yield(c) PROVE QInv'
  <2> DEFINE o == [obj EXCEPT ![c].env = c]
  <2>1. o \in [Contexts -> Objects] /\ \A d \in Contexts : o[d].child = obj[d].child
    <3>1. [obj[c] EXCEPT !.env = c] \in Objects /\ [obj[c] EXCEPT !.env = c].child = obj[c].child
      BY <1>0, ObjectOps
    <3> QED BY <1>0, <3>1
  <2>2. may_start(c) /\ Limited(o, wcb \union {c}, {})
    BY <1>1 DEF psgi_yield
  <2> HIDE DEF o
  <2> QED BY <2>1, <2>2, LimitedStep
<1>2. ASSUME NEW c \in Contexts, NEW d \in Contexts, yield_chain(c, d) PROVE QInv'
  <2> DEFINE o == [obj EXCEPT ![c] = [Closed(@) EXCEPT !.passed = TRUE], ![d].env = obj[c].env]
  <2> DEFINE x  == [Closed(obj[c]) EXCEPT !.passed = TRUE]
             o1 == [obj EXCEPT ![c] = x]
  <2>0. x \in Objects /\ x.child = obj[c].child /\ obj[c].env \in Contexts \union {NoEnv}
    <3>1. Closed(obj[c]) \in Objects /\ Closed(obj[c]).child = obj[c].child
      BY <1>0, ObjectOps
    <3>2. obj[c].env \in Contexts \union {NoEnv}
      BY <1>0 DEF Objects
    <3> QED BY <3>1, <3>2, ObjectOps
  <2>1. o \in [Contexts -> Objects] /\ \A e \in Contexts : o[e].child = obj[e].child
    <3> HIDE DEF x
    <3>1. o1 \in [Contexts -> Objects] /\ \A e \in Contexts : o1[e].child = obj[e].child
      BY <1>0, <2>0
    <3>2. o = [o1 EXCEPT ![d] = [o1[d] EXCEPT !.env = obj[c].env]]
      BY <1>0 DEF x
    <3>3. /\ [o1[d] EXCEPT !.env = obj[c].env] \in Objects
          /\ [o1[d] EXCEPT !.env = obj[c].env].child = o1[d].child
      BY <2>0, <3>1, ObjectOps
    <3> HIDE DEF o, o1
    <3> QED BY <3>1, <3>2, <3>3
  <2>2. may_start(d) /\ Limited(o, wcb, {})
    BY <1>2 DEF yield_chain
  <2> HIDE DEF o
  <2> QED BY <2>1, <2>2, LimitedStep
<1>3. ASSUME NEW c \in Contexts, DESTROY(c) PROVE QInv'
  <2> DEFINE o == [obj EXCEPT ![c] = Finalized(@)]
  <2>1. o \in [Contexts -> Objects] /\ \A d \in Contexts : o[d].child = obj[d].child
    BY <1>0, ObjectOps
  <2>2. _start_next(c) /\ ~Unreaped(obj[c]) /\ Limited(o, wcb, Answered(obj[c], wcb))
    BY <1>3 DEF DESTROY, Unreferenced, Unreaped
  <2> HIDE DEF o
  <2> QED BY <2>1, <2>2, LimitedStep
<1>4. ASSUME NEW c \in Contexts, Hangup(c) PROVE QInv'
  <2>1. IInv' /\ phase' = phase /\ obj' = obj
    BY <1>4, NextIInv DEF Hangup, ClientHup, qspawnVars, QInv, Next
  <2> QED BY <2>1 DEF QInv, ObjOK, ChildHoldsSlot
<1>5. ASSUME NEW c \in Contexts, ChildExits(c) PROVE QInv'
  <2>1. UNCHANGED limiterVars /\ obj' = [obj EXCEPT ![c].child = "zombie"] /\ Unreaped(obj[c])
    BY <1>5 DEF ChildExits, Unreaped
  <2>2. ObjOK'
    BY <1>0, <2>1 DEF ObjOK, Objects, ChildStates
  <2> QED BY <1>0, <2>1, <2>2, ObjectStep
<1>6. ASSUME NEW c \in Contexts, waitpid_err(c) PROVE QInv'
  <2> DEFINE o == [obj[c] EXCEPT !.child = "reaped", !.err = TRUE]
  <2>1. UNCHANGED limiterVars /\ obj' = [obj EXCEPT ![c] = IF ~obj[c].rpipe THEN Finalized(o) ELSE o]
    BY <1>6 DEF waitpid_err, WaitpidErr
  <2>2. o \in Objects /\ o.child = "reaped"
    BY <1>0 DEF Objects, ChildStates
  <2>3. ObjOK' /\ \A d \in Contexts : Unreaped(obj'[d]) => Unreaped(obj[d])
    BY <1>0, <2>1, <2>2, ObjectOps DEF ObjOK, Unreaped
  <2> QED BY <2>1, <2>3, ObjectStep
<1>7. ASSUME NEW c \in Contexts, yield_pass(c) PROVE QInv'
  <2>1. PICK x \in {Closed(obj[c]), [obj[c] EXCEPT !.qfh = TRUE]} : obj' = [obj EXCEPT ![c] = x]
    BY <1>0, <1>7 DEF yield_pass
  <2>2. x \in Objects /\ x.child = obj[c].child
    BY <1>0, ObjectOps
  <2>3. ObjOK' /\ \A d \in Contexts : Unreaped(obj'[d]) => Unreaped(obj[d])
    BY <1>0, <2>1, <2>2 DEF ObjOK, Unreaped
  <2> QED BY <1>7, <2>3, ObjectStep DEF yield_pass
<1>8. ASSUME NEW c \in Contexts, yield_chunk(c) PROVE QInv'
  <2>1. PICK x \in {Closed(Finish(obj[c])), Closed(obj[c])} : obj' = [obj EXCEPT ![c] = x]
    BY <1>8 DEF yield_chunk
  <2>2. x \in Objects /\ x.child = obj[c].child
    <3>1. Finish(obj[c]) \in Objects /\ Finish(obj[c]).child = obj[c].child
      BY <1>0, ObjectOps
    <3>2. \A o \in Objects : Closed(o) \in Objects /\ Closed(o).child = o.child
      BY ObjectOps
    <3> QED BY <1>0, <3>1, <3>2
  <2>3. ObjOK' /\ \A d \in Contexts : Unreaped(obj'[d]) => Unreaped(obj[d])
    BY <1>0, <2>1, <2>2 DEF ObjOK, Unreaped
  <2> QED BY <1>8, <2>3, ObjectStep DEF yield_chunk
<1>9. CASE QIdle \/ UNCHANGED vars
  <2>1. UNCHANGED limiterVars /\ obj' = obj
    BY <1>9 DEF QIdle, Idle, vars, qspawnVars
  <2> QED BY <1>0, <2>1, ObjectStep DEF ObjOK
<1> QED BY <1>1, <1>2, <1>3, <1>4, <1>5, <1>6, <1>7, <1>8, <1>9 DEF QNext, Read

\* Each unreaped child has a slot of its own, and there are {max} slots.
LEMMA SlotsCoverChildren == QInv => ChildrenBounded
<1> SUFFICES ASSUME QInv PROVE ChildrenBounded
  OBVIOUS
<1> DEFINE C == {c \in Contexts : obj[c].child \in {"live", "zombie"}}
<1>1. C \in SUBSET Held
  BY DEF QInv, ChildHoldsSlot, Unreaped, Held
<1>2. Cardinality(C) <= Cardinality(Held) /\ Cardinality(C) \in Nat
  BY <1>1, HeldFinite, FS_Subset, FS_CardinalityType
<1>3. Cardinality(Held) <= Max
  BY DEF QInv, IInv, SlotsCounted
<1> QED BY <1>2, <1>3, HeldFinite, MaxAssumption DEF ChildrenBounded

\* There are never more unreaped children than slots, for every {max} and any
\* number of requests, chained commands and failures to spawn.
THEOREM ChildrenBoundedHolds == QSpec => []ChildrenBounded
<1>1. QInit => QInv
  <2> SUFFICES ASSUME QInit PROVE QInv
    OBVIOUS
  <2>1. IInv
    BY InitIInv DEF QInit
  <2>2. ObjOK /\ \A c \in Contexts : ~Unreaped(obj[c])
    BY DEF QInit, ObjOK, Objects, new, ChildStates, Unreaped
  <2> QED BY <2>1, <2>2 DEF QInv, ChildHoldsSlot
<1> QED BY <1>1, NextQInv, SlotsCoverChildren, PTL DEF QSpec

-----------------------------------------------------------------------------
(***************************************************************************)
(* One answer per client.  The invariant is stated of objects o, waiting   *)
(* callbacks w, answers a and phases ph, and not of the variables: a step  *)
(* through the limiter first touches one object and then, with the state   *)
(* that leaves, the objects that are refused or started.                   *)
(***************************************************************************)
Fresh(o) == ~o.rpipe /\ ~o.istream /\ ~o.qfh /\ ~o.err /\ ~o.passed

\* Nothing has happened to an object the limiter has not started, and a queued
\* one waits with the callback of its env.
Untouched(o, w, ph) ==
    \A c \in Contexts : /\ ph[c] \in {"new", "queued"} => Fresh(o[c])
                        /\ ph[c] = "queued" => o[c].env \in w

\* No trace of a client that has not come.
NotYetCome(o, w, a, ph) ==
    \A c \in Contexts : /\ ph[c] = "new" => o[c].env = NoEnv /\ c \notin w /\ a[c] = 0
                        /\ o[c].env \in Contexts => ph[o[c].env] # "new"

\* A pipe is read by an object with a slot, and until the response begins that
\* object is the one with the callback.  {rpipe} is what keeps waitpid_err from
\* finalizing under the reader.
ReaderHasWcb(o, w, ph) ==
    \A c \in Contexts : o[c].istream =>
        ph[c] = "held" /\ o[c].rpipe /\ (~o[c].qfh => ~o[c].passed /\ o[c].env \in w)

CalledOnce(w, a) == \A e \in Contexts : a[e] + (IF e \in w THEN 1 ELSE 0) <= 1

\* A waiting callback has one owner, and everybody else with its env passed it.
OneOwner(o, w, ph) ==
    \A e \in w : \E c \in Contexts :
        /\ o[c].env = e /\ ~o[c].passed /\ ph[c] \in {"queued", "held"}
        /\ \A d \in Contexts \ {c} : o[d].env = e => o[d].passed

Good(o, w, a, ph) ==
    /\ o \in [Contexts -> Objects] /\ w \in SUBSET Contexts
    /\ a \in [Contexts -> Nat] /\ ph \in [Contexts -> Phases]
    /\ Untouched(o, w, ph) /\ NotYetCome(o, w, a, ph) /\ ReaderHasWcb(o, w, ph)
    /\ CalledOnce(w, a) /\ OneOwner(o, w, ph)

\* fail_cb has not been called for a context that may still be started, so
\* a context whose status changes is one that is refused now.
CodeUnset == \A c \in Contexts : phase[c] \in {"new", "queued"} => code[c] = 0

AInv == QInv /\ CodeUnset /\ Good(obj, wcb, answers, phase)

CountAnswers(a, es) == [e \in Contexts |-> a[e] + (IF e \in es THEN 1 ELSE 0)]

\* Two objects that did not pass a waiting env on are the same object.
LEMMA OwnerIsUnique ==
    ASSUME NEW o, NEW w, NEW ph, OneOwner(o, w, ph),
           NEW c \in Contexts, NEW d \in Contexts, o[c].env \in w, o[d].env = o[c].env,
           ~o[c].passed, ~o[d].passed
    PROVE  c = d
BY DEF OneOwner

\* Calling callbacks that wait keeps the count.
LEMMA CountOnce ==
    ASSUME NEW w \in SUBSET Contexts, NEW a \in [Contexts -> Nat], CalledOnce(w, a),
           NEW es \in SUBSET w
    PROVE  CountAnswers(a, es) \in [Contexts -> Nat] /\ CalledOnce(w \ es, CountAnswers(a, es))
<1> SUFFICES ASSUME NEW e \in Contexts
             PROVE  /\ CountAnswers(a, es)[e] \in Nat
                    /\ CountAnswers(a, es)[e] + (IF e \in w \ es THEN 1 ELSE 0) <= 1
  BY DEF CountAnswers, CalledOnce
<1>1. a[e] \in Nat /\ a[e] + (IF e \in w THEN 1 ELSE 0) <= 1
  BY DEF CalledOnce
<1>2. CountAnswers(a, es)[e] = a[e] + (IF e \in es THEN 1 ELSE 0)
  BY DEF CountAnswers
<1>3. CASE e \in es
  BY <1>1, <1>2, <1>3
<1>4. CASE e \notin es
  BY <1>1, <1>2, <1>4
<1> QED BY <1>3, <1>4

\* An object y that has a slot becomes x, for good if last, and calls the
\* callbacks es: at most its own, and its own if it is finalized while that
\* callback waits in w.
HeldStep(y, w, x, es, last) ==
    /\ x \in Objects /\ es \in SUBSET w /\ es \subseteq {y.env}
    /\ es # {} => ~y.passed
    /\ x.env = y.env \/ x.env = NoEnv
    /\ y.passed <=> x.passed
    /\ last \/ x.env # y.env => y.passed \/ y.env \notin w \/ y.env \in es
    /\ x.istream => y.istream /\ x.rpipe /\ ~last
    /\ x.istream /\ ~x.qfh => ~y.qfh /\ x.env = y.env /\ es = {}

\* Such a step of the holder of a slot keeps the answers in order.
LEMMA HeldChange ==
    ASSUME NEW o, NEW w, NEW a, NEW ph, Good(o, w, a, ph),
           NEW c \in Contexts, ph[c] = "held", NEW x, NEW es, NEW last \in BOOLEAN,
           HeldStep(o[c], w, x, es, last)
    PROVE  Good([o EXCEPT ![c] = x], w \ es, CountAnswers(a, es),
                [ph EXCEPT ![c] = IF last THEN "gone" ELSE "held"])
<1> DEFINE p  == [o EXCEPT ![c] = x]
           ph2 == [ph EXCEPT ![c] = IF last THEN "gone" ELSE "held"]
           y == o[c]
<1> /\ x \in Objects /\ es \in SUBSET w /\ es \subseteq {y.env}
    /\ es # {} => ~y.passed
    /\ x.env = y.env \/ x.env = NoEnv
    /\ y.passed <=> x.passed
    /\ last \/ x.env # y.env => y.passed \/ y.env \notin w \/ y.env \in es
    /\ x.istream => y.istream /\ x.rpipe /\ ~last
    /\ x.istream /\ ~x.qfh => ~y.qfh /\ x.env = y.env /\ es = {}
  BY DEF HeldStep
<1>0. /\ o \in [Contexts -> Objects] /\ w \in SUBSET Contexts
      /\ a \in [Contexts -> Nat] /\ ph \in [Contexts -> Phases]
      /\ Untouched(o, w, ph) /\ NotYetCome(o, w, a, ph) /\ ReaderHasWcb(o, w, ph)
      /\ CalledOnce(w, a) /\ OneOwner(o, w, ph)
  BY DEF Good
<1>1. p \in [Contexts -> Objects] /\ \A d \in Contexts : p[d] = IF d = c THEN x ELSE o[d]
  BY <1>0
<1>2. /\ ph2 \in [Contexts -> Phases] /\ \A d \in Contexts \ {c} : ph2[d] = ph[d]
      /\ ph2[c] = IF last THEN "gone" ELSE "held"
  BY <1>0 DEF Phases
<1>3. CountAnswers(a, es) \in [Contexts -> Nat] /\ CalledOnce(w \ es, CountAnswers(a, es))
  BY <1>0, CountOnce
<1>4. \A d \in Contexts \ {c} : o[d].env \in w /\ ~o[d].passed => o[d].env \notin es
  BY <1>0, OwnerIsUnique
<1>5. NoEnv \notin w
  BY <1>0, NoEnvAssumption
<1> HIDE DEF p, ph2
<1>6. Untouched(p, w \ es, ph2)
  <2> SUFFICES ASSUME NEW d \in Contexts, ph2[d] \in {"new", "queued"}
               PROVE  Fresh(p[d]) /\ (ph2[d] = "queued" => p[d].env \in w \ es)
    BY DEF Untouched
  <2>1. d # c
    BY <1>2
  <2> QED BY <1>0, <1>1, <1>2, <1>4, <2>1 DEF Untouched, Fresh
<1>7. NotYetCome(p, w \ es, CountAnswers(a, es), ph2)
  <2> SUFFICES ASSUME NEW d \in Contexts
               PROVE  /\ ph2[d] = "new" => p[d].env = NoEnv /\ d \notin w \ es /\ CountAnswers(a, es)[d] = 0
                      /\ p[d].env \in Contexts => ph2[p[d].env] # "new"
    BY DEF NotYetCome
  <2>1. ASSUME ph2[d] = "new"
        PROVE  p[d].env = NoEnv /\ d \notin w \ es /\ CountAnswers(a, es)[d] = 0
    <3>1. d # c /\ ph[d] = "new"
      BY <1>2, <2>1
    <3>2. o[d].env = NoEnv /\ d \notin w /\ a[d] = 0
      BY <1>0, <3>1 DEF NotYetCome
    <3> QED BY <1>1, <3>1, <3>2 DEF CountAnswers
  <2>2. ASSUME p[d].env \in Contexts PROVE ph2[p[d].env] # "new"
    <3>1. p[d].env = o[d].env
      BY <1>1, <2>2, NoEnvAssumption
    <3>2. ph[o[d].env] # "new"
      BY <1>0, <2>2, <3>1 DEF NotYetCome
    <3> QED BY <1>2, <2>2, <3>1, <3>2
  <2> QED BY <2>1, <2>2
<1>8. ReaderHasWcb(p, w \ es, ph2)
  <2> SUFFICES ASSUME NEW d \in Contexts, p[d].istream
               PROVE  /\ ph2[d] = "held" /\ p[d].rpipe
                      /\ ~p[d].qfh => ~p[d].passed /\ p[d].env \in w \ es
    BY DEF ReaderHasWcb
  <2>1. CASE d = c
    BY <1>0, <1>1, <1>2, <2>1 DEF ReaderHasWcb
  <2>2. CASE d # c
    BY <1>0, <1>1, <1>2, <1>4, <2>2 DEF ReaderHasWcb
  <2> QED BY <2>1, <2>2
<1>9. OneOwner(p, w \ es, ph2)
  <2> SUFFICES ASSUME NEW e \in w, e \notin es
               PROVE  \E d \in Contexts :
                        /\ p[d].env = e /\ ~p[d].passed /\ ph2[d] \in {"queued", "held"}
                        /\ \A f \in Contexts \ {d} : p[f].env = e => p[f].passed
    BY DEF OneOwner
  <2>1. PICK d \in Contexts : /\ o[d].env = e /\ ~o[d].passed /\ ph[d] \in {"queued", "held"}
                              /\ \A f \in Contexts \ {d} : o[f].env = e => o[f].passed
    BY <1>0 DEF OneOwner
  <2>2. p[d].env = e /\ ~p[d].passed /\ ph2[d] \in {"queued", "held"}
    BY <1>1, <1>2, <2>1
  <2>3. \A f \in Contexts \ {d} : p[f].env = e => p[f].passed
    BY <1>1, <1>5, <2>1
  <2> QED BY <2>2, <2>3
<1>10. w \ es \in SUBSET Contexts
  BY <1>0
<1>11. Good(p, w \ es, CountAnswers(a, es), ph2)
  BY <1>1, <1>2, <1>3, <1>6, <1>7, <1>8, <1>9, <1>10 DEF Good
<1> QED BY <1>11 DEF p, ph2

\* What start_cb makes of an object that waits for a slot.
LEMMA SpawnedFresh ==
    ASSUME NEW c \in Contexts, NEW o \in Objects, Fresh(o), NEW s \in Spawned(c, o)
    PROVE  /\ s \in Objects /\ ~s.passed /\ (s.env = o.env \/ s.env = NoEnv)
           /\ s.istream => s.rpipe /\ s.env = o.env
<1>1. s \in Objects
  BY SpawnedObject
<1> QED BY <1>1 DEF Spawned, Finish, Finishes, Finalized, Objects, ChildStates, Fresh

\* The objects once R are refused and S are started as s says, and the envs of
\* those that are finalized by it.
Changed(o, R, S, s) ==
    [c \in Contexts |-> IF c \in S THEN s[c] ELSE IF c \in R THEN Finalized(o[c]) ELSE o[c]]

FinalEnvs(o, R, S, s) == {o[c].env : c \in R \union {d \in S : s[d].env = NoEnv}}

\* Of the contexts queued in ph, R are refused and S are started as s says.
RefuseAndStart(o, ph, R, S, s, ph2) ==
    /\ R \in SUBSET Contexts /\ S \in SUBSET Contexts /\ R \intersect S = {}
    /\ \A c \in R \union S : ph[c] = "queued"
    /\ \A c \in S : s[c] \in Spawned(c, o[c])
    /\ ph2 \in [Contexts -> Phases]
    /\ \A c \in Contexts : ph2[c] = IF c \in R THEN "gone" ELSE IF c \in S THEN "held" ELSE ph[c]

\* Queued objects are refused or started, all at once: those that are finalized
\* by it call their callbacks.
LEMMA QueuedChange ==
    ASSUME NEW o, NEW w, NEW a, NEW ph, Good(o, w, a, ph),
           NEW R, NEW S, NEW s, NEW ph2, RefuseAndStart(o, ph, R, S, s, ph2)
    PROVE  /\ FinalEnvs(o, R, S, s) \subseteq w
           /\ Good(Changed(o, R, S, s), w \ FinalEnvs(o, R, S, s),
                   CountAnswers(a, FinalEnvs(o, R, S, s)), ph2)
<1> DEFINE p  == Changed(o, R, S, s)
           es == FinalEnvs(o, R, S, s)
<1>p. p = [c \in Contexts |-> IF c \in S THEN s[c] ELSE IF c \in R THEN Finalized(o[c]) ELSE o[c]]
  BY DEF Changed
<1>es. es = {o[c].env : c \in R \union {d \in S : s[d].env = NoEnv}}
  BY DEF FinalEnvs
<1> HIDE DEF p, es
<1> /\ R \in SUBSET Contexts /\ S \in SUBSET Contexts /\ R \intersect S = {}
    /\ \A c \in R \union S : ph[c] = "queued"
    /\ \A c \in S : s[c] \in Spawned(c, o[c])
    /\ ph2 \in [Contexts -> Phases]
    /\ \A c \in Contexts : ph2[c] = IF c \in R THEN "gone" ELSE IF c \in S THEN "held" ELSE ph[c]
  BY DEF RefuseAndStart
<1>0. /\ o \in [Contexts -> Objects] /\ w \in SUBSET Contexts
      /\ a \in [Contexts -> Nat] /\ ph \in [Contexts -> Phases]
      /\ Untouched(o, w, ph) /\ NotYetCome(o, w, a, ph) /\ ReaderHasWcb(o, w, ph)
      /\ CalledOnce(w, a) /\ OneOwner(o, w, ph)
  BY DEF Good
<1>1. \A c \in R \union S : o[c] \in Objects /\ Fresh(o[c]) /\ ~o[c].passed /\ o[c].env \in w
  BY <1>0 DEF Untouched, Fresh
<1>2. \A c \in S : /\ s[c] \in Objects /\ ~s[c].passed /\ (s[c].env = o[c].env \/ s[c].env = NoEnv)
                   /\ s[c].istream => s[c].rpipe /\ s[c].env = o[c].env
  BY <1>1, SpawnedFresh
<1>3. \A x \in Objects : /\ Finalized(x) \in Objects /\ Finalized(x).env = NoEnv
                         /\ Finalized(x).istream = x.istream /\ Finalized(x).passed = x.passed
  BY DEF Finalized, Objects
<1>4. es \subseteq w /\ NoEnv \notin w
  BY <1>0, <1>1, <1>es, NoEnvAssumption
<1>5. CountAnswers(a, es) \in [Contexts -> Nat] /\ CalledOnce(w \ es, CountAnswers(a, es))
  BY <1>0, <1>4, CountOnce
<1>6. p \in [Contexts -> Objects]
  BY <1>0, <1>2, <1>3, <1>p
<1>7. \A c \in Contexts \ (R \union S) : p[c] = o[c] /\ ph2[c] = ph[c]
  BY <1>p
<1>8. \A c \in S : p[c] = s[c] /\ ph2[c] = "held"
  BY <1>p
<1>9. \A c \in R : /\ p[c].env = NoEnv /\ ~p[c].istream /\ ~p[c].passed /\ ph2[c] = "gone"
  BY <1>1, <1>3, <1>p DEF Fresh
<1>10. \A c \in Contexts : \/ c \in Contexts \ (R \union S)
                           \/ c \in R
                           \/ c \in S
  OBVIOUS
\* An env of es belongs to one of the finalized objects alone.
<1>11. ASSUME NEW d \in Contexts, o[d].env \in w, ~o[d].passed, o[d].env \in es
       PROVE  d \in R \/ (d \in S /\ s[d].env = NoEnv)
  <2>1. PICK c \in R \union {f \in S : s[f].env = NoEnv} : o[d].env = o[c].env
    BY <1>11, <1>es
  <2>2. ~o[c].passed /\ o[c].env \in w
    BY <1>1, <2>1
  <2>3. c = d
    BY <1>0, <1>11, <2>1, <2>2, OwnerIsUnique
  <2> QED BY <2>1, <2>3
<1>12. Untouched(p, w \ es, ph2)
  <2> SUFFICES ASSUME NEW d \in Contexts, ph2[d] \in {"new", "queued"}
               PROVE  Fresh(p[d]) /\ (ph2[d] = "queued" => p[d].env \in w \ es)
    BY DEF Untouched
  <2>1. d \in Contexts \ (R \union S)
    BY <1>8, <1>9
  <2>2. Fresh(o[d]) /\ ~o[d].passed /\ (ph2[d] = "queued" => o[d].env \in w)
    BY <1>0, <1>7, <2>1 DEF Untouched, Fresh
  <2> QED BY <1>7, <1>11, <2>1, <2>2
<1>13. NotYetCome(p, w \ es, CountAnswers(a, es), ph2)
  <2> SUFFICES ASSUME NEW d \in Contexts
               PROVE  /\ ph2[d] = "new" => p[d].env = NoEnv /\ d \notin w \ es /\ CountAnswers(a, es)[d] = 0
                      /\ p[d].env \in Contexts => ph2[p[d].env] # "new"
    BY DEF NotYetCome
  <2>1. ASSUME ph2[d] = "new"
        PROVE  p[d].env = NoEnv /\ d \notin w \ es /\ CountAnswers(a, es)[d] = 0
    <3>1. d \in Contexts \ (R \union S) /\ ph[d] = "new"
      BY <1>7, <1>8, <1>9, <2>1
    <3>2. o[d].env = NoEnv /\ d \notin w /\ a[d] = 0
      BY <1>0, <3>1 DEF NotYetCome
    <3> QED BY <1>4, <1>7, <3>1, <3>2 DEF CountAnswers
  <2>2. ASSUME p[d].env \in Contexts PROVE ph2[p[d].env] # "new"
    <3>1. p[d].env = o[d].env
      BY <1>2, <1>7, <1>8, <1>9, <2>2, NoEnvAssumption
    <3>2. ph[o[d].env] # "new"
      BY <1>0, <2>2, <3>1 DEF NotYetCome
    <3> QED BY <2>2, <3>1, <3>2
  <2> QED BY <2>1, <2>2
<1>14. ReaderHasWcb(p, w \ es, ph2)
  <2> SUFFICES ASSUME NEW d \in Contexts, p[d].istream
               PROVE  /\ ph2[d] = "held" /\ p[d].rpipe
                      /\ ~p[d].qfh => ~p[d].passed /\ p[d].env \in w \ es
    BY DEF ReaderHasWcb
  <2>1. CASE d \in S
    <3>1. s[d].rpipe /\ s[d].env = o[d].env /\ ~s[d].passed /\ o[d].env \in w /\ ~o[d].passed
      BY <1>1, <1>2, <1>8, <2>1
    <3>2. s[d].env # NoEnv /\ d \notin R
      BY <1>4, <2>1, <3>1
    <3>3. o[d].env \notin es
      BY <1>11, <3>1, <3>2
    <3> QED BY <1>8, <2>1, <3>1, <3>3
  <2>2. CASE d \in Contexts \ (R \union S)
    <3>1. ph[d] = "held" /\ o[d].rpipe /\ (~o[d].qfh => ~o[d].passed /\ o[d].env \in w)
      BY <1>0, <1>7, <2>2 DEF ReaderHasWcb
    <3> QED BY <1>7, <1>11, <2>2, <3>1
  <2> QED BY <1>9, <1>10, <2>1, <2>2
<1>15. OneOwner(p, w \ es, ph2)
  <2> SUFFICES ASSUME NEW e \in w, e \notin es
               PROVE  \E d \in Contexts :
                        /\ p[d].env = e /\ ~p[d].passed /\ ph2[d] \in {"queued", "held"}
                        /\ \A f \in Contexts \ {d} : p[f].env = e => p[f].passed
    BY DEF OneOwner
  <2>1. PICK d \in Contexts : /\ o[d].env = e /\ ~o[d].passed /\ ph[d] \in {"queued", "held"}
                              /\ \A f \in Contexts \ {d} : o[f].env = e => o[f].passed
    BY <1>0 DEF OneOwner
  <2>2. d \notin R /\ (d \in S => s[d].env = e)
    BY <1>2, <1>es, <2>1
  <2>3. p[d].env = e /\ ~p[d].passed /\ ph2[d] \in {"queued", "held"}
    BY <1>2, <1>7, <1>8, <1>10, <2>1, <2>2
  <2>4. ASSUME NEW f \in Contexts \ {d}, p[f].env = e PROVE p[f].passed
    <3>1. o[f].env = e /\ o[f].passed
      <4>1. e # NoEnv /\ f \notin R
        BY <1>4, <1>9, <2>4
      <4>2. p[f].env = o[f].env
        BY <1>2, <1>7, <1>8, <1>10, <2>4, <4>1
      <4> QED BY <2>1, <2>4, <4>2
    <3>2. f \in Contexts \ (R \union S)
      BY <1>1, <3>1
    <3> QED BY <1>7, <3>1, <3>2
  <2> QED BY <2>3, <2>4
<1> QED BY <1>0, <1>4, <1>5, <1>6, <1>12, <1>13, <1>14, <1>15 DEF Good, p, es

Refused == {c \in Contexts : code'[c] # code[c]}
Started == {c \in Contexts : phase'[c] = "held" /\ phase[c] # "held"}

\* The objects after a step of the limiter, given that one object and its
\* callback have been dealt with and the limiter refuses and starts only
\* queued ones.
LEMMA LimitedGood ==
    ASSUME NEW o, NEW w, NEW finals \in SUBSET w, NEW ph, Limited(o, w, finals),
           answers \in [Contexts -> Nat], w \in SUBSET Contexts,
           Good(o, w \ finals, CountAnswers(answers, finals), ph),
           Refused \intersect Started = {},
           \A c \in Refused \union Started : ph[c] = "queued",
           phase' \in [Contexts -> Phases],
           \A c \in Contexts : phase'[c] = IF c \in Refused THEN "gone"
                                           ELSE IF c \in Started THEN "held" ELSE ph[c]
    PROVE  Good(obj', wcb', answers', phase')
<1>1. PICK s : /\ \A c \in Started : s[c] \in Spawned(c, o[c])
               /\ obj' = [c \in Contexts |-> IF c \in Started THEN s[c]
                            ELSE IF c \in Refused THEN Finalized(o[c]) ELSE o[c]]
               /\ Answer(UNION ({Answered(o[c], w) : c \in Refused} \union
                           {Answered(o[c], w) : c \in {d \in Started : s[d].env = NoEnv}} \union
                           {finals}), w)
  BY Zenon DEF Limited, Refused, Started
<1> DEFINE fin == Refused \union {d \in Started : s[d].env = NoEnv}
           es == {o[c].env : c \in fin}
           tot == UNION ({Answered(o[c], w) : c \in Refused} \union
                           {Answered(o[c], w) : c \in {d \in Started : s[d].env = NoEnv}} \union
                           {finals})
           a == CountAnswers(answers, finals)
<1>2. Refused \in SUBSET Contexts /\ Started \in SUBSET Contexts
  BY DEF Refused, Started
<1>3. es \subseteq w \ finals /\ Good(obj', (w \ finals) \ es, CountAnswers(a, es), phase')
  <2>1. es = FinalEnvs(o, Refused, Started, s) /\ obj' = Changed(o, Refused, Started, s)
    BY <1>1 DEF FinalEnvs, Changed
  <2>2. Good(o, w \ finals, a, ph) /\ RefuseAndStart(o, ph, Refused, Started, s, phase')
    BY <1>1, <1>2 DEF RefuseAndStart
  <2> HIDE DEF a, tot, es, fin
  <2>3. /\ FinalEnvs(o, Refused, Started, s) \subseteq w \ finals
        /\ Good(Changed(o, Refused, Started, s), (w \ finals) \ FinalEnvs(o, Refused, Started, s),
                CountAnswers(a, FinalEnvs(o, Refused, Started, s)), phase')
    BY <2>2, QueuedChange, Zenon
  <2> QED BY <2>1, <2>3
<1>4. \A c \in fin : Answered(o[c], w) = {o[c].env}
  <2> SUFFICES ASSUME NEW c \in fin PROVE Answered(o[c], w) = {o[c].env}
    OBVIOUS
  <2>1. ph[c] = "queued" /\ c \in Contexts
    BY <1>2
  <2>2. ~o[c].passed /\ o[c].env \in w
    BY <2>1 DEF Good, Untouched, Fresh
  <2> QED BY <2>2 DEF Answered
<1>5. tot = es \union finals
  <2>1. tot = (UNION {Answered(o[c], w) : c \in fin}) \union finals
    OBVIOUS
  <2>2. UNION {Answered(o[c], w) : c \in fin} = es
    <3> HIDE DEF fin
    <3> QED BY <1>4
  <2> QED BY <2>1, <2>2
<1>6. wcb' = (w \ finals) \ es
  BY <1>1, <1>5 DEF Answer
<1>7. answers' = CountAnswers(a, es)
  <2>1. answers' = [e \in Contexts |-> answers[e] + (IF e \in es \union finals THEN 1 ELSE 0)]
    BY <1>1, <1>5 DEF Answer
  <2>2. ASSUME NEW e \in Contexts
        PROVE  answers[e] + (IF e \in es \union finals THEN 1 ELSE 0)
             = a[e] + (IF e \in es THEN 1 ELSE 0)
    <3>1. a[e] = answers[e] + (IF e \in finals THEN 1 ELSE 0)
      BY DEF CountAnswers
    <3>2. e \in es => e \notin finals
      BY <1>3
    <3> HIDE DEF es, a
    <3> QED BY <3>1, <3>2
  <2> HIDE DEF es, a
  <2> QED BY <2>1, <2>2 DEF CountAnswers
<1> QED BY <1>3, <1>6, <1>7

-----------------------------------------------------------------------------
\* may_start: as if the context were queued first and then left there, started
\* or refused.
LEMMA MayStartEffect ==
    ASSUME IInv, CodeUnset, NEW c \in Contexts, may_start(c), NeverDies
    PROVE  LET ph == [phase EXCEPT ![c] = "queued"]
           IN  /\ Refused \intersect Started = {}
               /\ \A d \in Refused \union Started : ph[d] = "queued"
               /\ \A d \in Contexts : phase'[d] = IF d \in Refused THEN "gone"
                                                  ELSE IF d \in Started THEN "held" ELSE ph[d]
               /\ CodeUnset'
<1> USE DEF Refused, Started
<1>0. /\ phase \in [Contexts -> Phases] /\ code \in [Contexts -> Codes]
      /\ phase[c] = "new" /\ code[c] = 0 /\ \A d \in Contexts : code'[d] # 500
  BY DEF IInv, TypeOK, may_start, CodeUnset, NeverDies
<1>1. CASE StartNow(c)
  <2>1. phase' = [phase EXCEPT ![c] = "held"] /\ code' \in {[code EXCEPT ![c] = 500], [code EXCEPT ![c] = 0]}
    BY <1>1 DEF StartNow, Starts
  <2>2. code' = code
    BY <1>0, <2>1
  <2> QED BY <1>0, <2>1, <2>2 DEF CodeUnset
<1>2. CASE TooBusy(c)
  <2>1. phase' = [phase EXCEPT ![c] = "gone"] /\ code' = [code EXCEPT ![c] = 503]
    BY <1>2 DEF TooBusy
  <2> QED BY <1>0, <2>1 DEF CodeUnset
<1>3. CASE Enqueue(c)
  <2>1. phase' = [phase EXCEPT ![c] = "queued"] /\ code' = code
    BY <1>3 DEF Enqueue, Push
  <2> QED BY <1>0, <2>1 DEF CodeUnset
<1> QED BY <1>1, <1>2, <1>3 DEF may_start

\* _start_next: the dropped contexts are refused, the one behind them starts.
LEMMA StartNextEffect ==
    ASSUME IInv, CodeUnset, NEW c \in Contexts, _start_next(c), NeverDies
    PROVE  LET ph == [phase EXCEPT ![c] = "gone"]
           IN  /\ Refused \intersect Started = {}
               /\ \A d \in Refused \union Started : ph[d] = "queued"
               /\ \A d \in Contexts : phase'[d] = IF d \in Refused THEN "gone"
                                                  ELSE IF d \in Started THEN "held" ELSE ph[d]
               /\ CodeUnset'
<1> DEFINE n == Dropped(runQueue)
           drop == Elements(runQueue, 1 .. n)
           start == Elements(runQueue, {n + 1})
<1>0. /\ phase \in [Contexts -> Phases] /\ code \in [Contexts -> Codes]
      /\ phase[c] = "held" /\ \A d \in Contexts : code'[d] # 500
  BY DEF IInv, TypeOK, _start_next, HandOver, NeverDies
<1>1. \A d \in drop \union start : d \in Contexts /\ phase[d] = "queued" /\ code[d] = 0 /\ d # c
  BY <1>0, QueuedNotHeld DEF Elements, CodeUnset
<1>2. drop \intersect start = {}
  <2>1. n \in Nat
    <3>1. runQueue \in Seq(Contexts)
      BY DEF IInv, TypeOK
    <3>2. n \in 0 .. Len(runQueue)
      BY <3>1, DroppedIsPrefix
    <3> QED BY <3>1, <3>2
  <2>2. \A i, j \in DOMAIN runQueue : runQueue[i] = runQueue[j] => i = j
    BY DEF IInv, WorkConserving
  <2>3. \A i \in 1 .. n : i # n + 1
    BY <2>1
  <2> HIDE DEF n
  <2> QED BY <2>2, <2>3 DEF Elements
<1>3. \A d \in Contexts : phase'[d] = IF d = c \/ d \in drop THEN "gone"
                                      ELSE IF d \in start THEN "held" ELSE phase[d]
  BY DEF _start_next, HandOver
<1>4. \A d \in Contexts : code'[d] = IF d \in drop THEN 499 ELSE code[d]
  <2>1. PICK died \in SUBSET start : code' = [d \in Contexts |->
                    IF d \in drop THEN 499 ELSE IF d \in died THEN 500 ELSE code[d]]
    BY DEF _start_next, HandOver
  <2>2. died = {}
    <3> SUFFICES ASSUME NEW d \in died PROVE FALSE
      OBVIOUS
    <3>1. d \in start /\ d \notin drop /\ d \in Contexts
      BY <1>1, <1>2
    <3> HIDE DEF start, drop
    <3> QED BY <1>0, <2>1, <3>1
  <2> HIDE DEF start, drop
  <2> QED BY <2>1, <2>2
<1> HIDE DEF n, drop, start
<1>5. Refused = drop
  BY <1>1, <1>4 DEF Refused
<1>6. Started = start
  BY <1>0, <1>1, <1>2, <1>3 DEF Started
<1>7. CodeUnset'
  BY <1>0, <1>1, <1>3, <1>4 DEF CodeUnset
<1> QED BY <1>0, <1>1, <1>2, <1>3, <1>5, <1>6, <1>7

-----------------------------------------------------------------------------
\* Nobody is answered: the counts stay.
LEMMA CountNone == \A a \in [Contexts -> Nat] : CountAnswers(a, {}) = a
BY DEF CountAnswers

\* A new client: its object waits with the client's own callback.
LEMMA ClientComes ==
    ASSUME Good(obj, wcb, answers, phase), NEW c \in Contexts, phase[c] = "new"
    PROVE  Good([obj EXCEPT ![c].env = c], wcb \union {c}, answers, [phase EXCEPT ![c] = "queued"])
<1> DEFINE o == [obj EXCEPT ![c].env = c]
           w == wcb \union {c}
           ph == [phase EXCEPT ![c] = "queued"]
<1>0. /\ obj \in [Contexts -> Objects] /\ wcb \in SUBSET Contexts
      /\ answers \in [Contexts -> Nat] /\ phase \in [Contexts -> Phases]
      /\ Untouched(obj, wcb, phase) /\ NotYetCome(obj, wcb, answers, phase)
      /\ ReaderHasWcb(obj, wcb, phase) /\ CalledOnce(wcb, answers) /\ OneOwner(obj, wcb, phase)
  BY DEF Good
<1>1. /\ o \in [Contexts -> Objects] /\ \A d \in Contexts \ {c} : o[d] = obj[d]
      /\ o[c].env = c /\ Fresh(o[c])
  <2>1. Fresh(obj[c]) /\ obj[c] \in Objects
    BY <1>0 DEF Untouched
  <2>2. [obj[c] EXCEPT !.env = c] \in Objects /\ Fresh([obj[c] EXCEPT !.env = c])
    BY <2>1 DEF Objects, Fresh
  <2>3. [obj[c] EXCEPT !.env = c].env = c
    BY <2>1 DEF Objects
  <2> QED BY <1>0, <2>2, <2>3
<1>2. ph \in [Contexts -> Phases] /\ ph[c] = "queued" /\ \A d \in Contexts \ {c} : ph[d] = phase[d]
  BY <1>0 DEF Phases
<1>3. w \in SUBSET Contexts /\ c \in w /\ c \notin wcb /\ answers[c] = 0
  BY <1>0 DEF NotYetCome
<1>4. \A d \in Contexts : obj[d].env # c
  BY <1>0 DEF NotYetCome
<1>5. \A e \in w : e = c \/ e \in wcb
  OBVIOUS
<1>6. \A e \in wcb : e \in w /\ e # c
  BY <1>3
<1> HIDE DEF o, w, ph
<1>7. Untouched(o, w, ph)
  BY <1>0, <1>1, <1>2, <1>3, <1>6 DEF Untouched
<1>8. NotYetCome(o, w, answers, ph)
  BY <1>0, <1>1, <1>2, <1>5 DEF NotYetCome
<1>9. ReaderHasWcb(o, w, ph)
  BY <1>0, <1>1, <1>2, <1>6 DEF ReaderHasWcb, Fresh
<1>10. CalledOnce(w, answers)
  BY <1>0, <1>3, <1>5, <1>6 DEF CalledOnce
<1>11. OneOwner(o, w, ph)
  <2> SUFFICES ASSUME NEW e \in w
               PROVE  \E d \in Contexts :
                        /\ o[d].env = e /\ ~o[d].passed /\ ph[d] \in {"queued", "held"}
                        /\ \A f \in Contexts \ {d} : o[f].env = e => o[f].passed
    BY DEF OneOwner
  <2>1. CASE e = c
    BY <1>1, <1>2, <1>4, <2>1 DEF Fresh
  <2>2. CASE e # c
    <3>1. PICK d \in Contexts : /\ obj[d].env = e /\ ~obj[d].passed /\ phase[d] \in {"queued", "held"}
                                /\ \A f \in Contexts \ {d} : obj[f].env = e => obj[f].passed
      BY <1>0, <1>5, <2>2 DEF OneOwner
    <3>2. d # c
      BY <3>1
    <3> QED BY <1>1, <1>2, <2>2, <3>1, <3>2
  <2> QED BY <2>1, <2>2
<1>12. Good(o, w, answers, ph)
  BY <1>0, <1>1, <1>2, <1>3, <1>7, <1>8, <1>9, <1>10, <1>11 DEF Good
<1> QED BY <1>12 DEF o, w, ph

\* A chained command: c hands its env and the callback in it on to d.
LEMMA EnvIsPassed ==
    ASSUME Good(obj, wcb, answers, phase), NEW c \in Contexts, NEW d \in Contexts,
           obj[c].istream, ~obj[c].qfh, phase[d] = "new"
    PROVE  Good([obj EXCEPT ![c] = [Closed(@) EXCEPT !.passed = TRUE], ![d].env = obj[c].env],
                wcb, answers, [phase EXCEPT ![d] = "queued"])
<1> DEFINE e == obj[c].env
           x == [Closed(obj[c]) EXCEPT !.passed = TRUE]
           y == [obj[d] EXCEPT !.env = e]
           o == [obj EXCEPT ![c] = [Closed(@) EXCEPT !.passed = TRUE], ![d].env = e]
           ph == [phase EXCEPT ![d] = "queued"]
<1>0. /\ obj \in [Contexts -> Objects] /\ wcb \in SUBSET Contexts
      /\ answers \in [Contexts -> Nat] /\ phase \in [Contexts -> Phases]
      /\ Untouched(obj, wcb, phase) /\ NotYetCome(obj, wcb, answers, phase)
      /\ ReaderHasWcb(obj, wcb, phase) /\ CalledOnce(wcb, answers) /\ OneOwner(obj, wcb, phase)
  BY DEF Good
<1>1. phase[c] = "held" /\ e \in wcb /\ e \in Contexts /\ ~obj[c].passed /\ c # d
  BY <1>0 DEF ReaderHasWcb
<1>2. x \in Objects /\ x.env = e /\ x.passed /\ ~x.istream
  BY <1>0 DEF Closed, Objects
<1>3. y \in Objects /\ y.env = e /\ Fresh(y)
  <2>1. obj[d] \in Objects /\ Fresh(obj[d])
    BY <1>0 DEF Untouched
  <2> QED BY <1>1, <2>1 DEF Objects, Fresh
<1>4. /\ o \in [Contexts -> Objects] /\ o[c] = x /\ o[d] = y
      /\ \A f \in Contexts \ {c, d} : o[f] = obj[f]
  <2>1. o = [[obj EXCEPT ![c] = x] EXCEPT ![d] = y]
    BY <1>0, <1>1
  <2> HIDE DEF x, y, o
  <2> QED BY <1>0, <1>1, <1>2, <1>3, <2>1
<1>5. ph \in [Contexts -> Phases] /\ ph[d] = "queued" /\ \A f \in Contexts \ {d} : ph[f] = phase[f]
  BY <1>0 DEF Phases
<1>6. \A f \in Contexts \ {c} : obj[f].env = e => obj[f].passed
  <2> SUFFICES ASSUME NEW f \in Contexts, obj[f].env = e, ~obj[f].passed PROVE f = c
    OBVIOUS
  <2> QED BY <1>0, <1>1, OwnerIsUnique
<1> HIDE DEF e, x, y, o, ph
<1>7. Untouched(o, wcb, ph)
  <2> SUFFICES ASSUME NEW f \in Contexts, ph[f] \in {"new", "queued"}
               PROVE  Fresh(o[f]) /\ (ph[f] = "queued" => o[f].env \in wcb)
    BY DEF Untouched
  <2>1. f # c
    BY <1>1, <1>5
  <2> QED BY <1>0, <1>1, <1>3, <1>4, <1>5, <2>1 DEF Untouched
<1>8. NotYetCome(o, wcb, answers, ph)
  <2> SUFFICES ASSUME NEW f \in Contexts
               PROVE  /\ ph[f] = "new" => o[f].env = NoEnv /\ f \notin wcb /\ answers[f] = 0
                      /\ o[f].env \in Contexts => ph[o[f].env] # "new"
    BY DEF NotYetCome
  <2>1. phase[e] # "new"
    BY <1>0, <1>1 DEF NotYetCome, e
  <2>2. ASSUME ph[f] = "new" PROVE o[f].env = NoEnv /\ f \notin wcb /\ answers[f] = 0
    BY <1>0, <1>1, <1>4, <1>5, <2>2 DEF NotYetCome
  <2>3. ASSUME o[f].env \in Contexts PROVE ph[o[f].env] # "new"
    <3>1. o[f].env = e \/ o[f].env = obj[f].env
      BY <1>2, <1>3, <1>4
    <3>2. phase[o[f].env] # "new"
      BY <1>0, <2>1, <2>3, <3>1 DEF NotYetCome
    <3> QED BY <1>5, <2>3, <3>2
  <2> QED BY <2>2, <2>3
<1>9. ReaderHasWcb(o, wcb, ph)
  <2> SUFFICES ASSUME NEW f \in Contexts, o[f].istream
               PROVE  /\ ph[f] = "held" /\ o[f].rpipe
                      /\ ~o[f].qfh => ~o[f].passed /\ o[f].env \in wcb
    BY DEF ReaderHasWcb
  <2>1. f # c /\ f # d
    BY <1>2, <1>3, <1>4 DEF Fresh
  <2> QED BY <1>0, <1>4, <1>5, <2>1 DEF ReaderHasWcb
<1>10. OneOwner(o, wcb, ph)
  <2> SUFFICES ASSUME NEW g \in wcb
               PROVE  \E f \in Contexts :
                        /\ o[f].env = g /\ ~o[f].passed /\ ph[f] \in {"queued", "held"}
                        /\ \A k \in Contexts \ {f} : o[k].env = g => o[k].passed
    BY DEF OneOwner
  <2>1. CASE g = e
    <3>1. o[d].env = g /\ ~o[d].passed /\ ph[d] \in {"queued", "held"}
      BY <1>3, <1>4, <1>5, <2>1 DEF Fresh
    <3>2. \A k \in Contexts \ {d} : o[k].env = g => o[k].passed
      BY <1>2, <1>4, <1>6, <2>1
    <3> QED BY <3>1, <3>2
  <2>2. CASE g # e
    <3>1. PICK f \in Contexts : /\ obj[f].env = g /\ ~obj[f].passed /\ phase[f] \in {"queued", "held"}
                                /\ \A k \in Contexts \ {f} : obj[k].env = g => obj[k].passed
      BY <1>0 DEF OneOwner
    <3>2. f # c /\ f # d
      BY <2>2, <3>1 DEF e
    <3>3. \A k \in Contexts \ {f} : o[k].env = g => o[k].passed
      BY <1>2, <1>3, <1>4, <2>2, <3>1
    <3> QED BY <1>4, <1>5, <3>1, <3>2, <3>3
  <2> QED BY <2>1, <2>2
<1>11. Good(o, wcb, answers, ph)
  BY <1>0, <1>4, <1>5, <1>7, <1>8, <1>9, <1>10 DEF Good
<1> QED BY <1>11 DEF o, ph, e

\* A step of one object with a slot that the limiter does not see.
LEMMA ObjectGood ==
    ASSUME Good(obj, wcb, answers, phase), NEW c \in Contexts, phase[c] = "held",
           NEW x, NEW es, HeldStep(obj[c], wcb, x, es, FALSE),
           obj' = [obj EXCEPT ![c] = x], Answer(es, wcb), phase' = phase
    PROVE  Good(obj', wcb', answers', phase')
<1>1. Good([obj EXCEPT ![c] = x], wcb \ es, CountAnswers(answers, es),
           [phase EXCEPT ![c] = IF FALSE THEN "gone" ELSE "held"])
  BY HeldChange
<1>2. [phase EXCEPT ![c] = IF FALSE THEN "gone" ELSE "held"] = phase
  BY DEF Good
<1> QED BY <1>1, <1>2 DEF Answer, CountAnswers

\* AInv is inductive.
LEMMA NextAInv == AInv /\ [QNext]_vars => AInv'
<1> SUFFICES ASSUME AInv, [QNext]_vars PROVE AInv'
  OBVIOUS
<1> DEFINE G == Good(obj, wcb, answers, phase)
<1>0. /\ QInv /\ IInv /\ CodeUnset /\ G /\ QInv' /\ phase' \in [Contexts -> Phases]
      /\ obj \in [Contexts -> Objects] /\ wcb \in SUBSET Contexts
      /\ answers \in [Contexts -> Nat]
  BY NextQInv DEF AInv, QInv, IInv, TypeOK, Good
<1> SUFFICES CodeUnset' /\ Good(obj', wcb', answers', phase')
  BY <1>0 DEF AInv
<1>n. CountAnswers(answers, {}) = answers /\ \A w : w \ {} = w
  BY <1>0, CountNone
<1>1. ASSUME NEW c \in Contexts, psgi_yield(c)
      PROVE  CodeUnset' /\ Good(obj', wcb', answers', phase')
  <2> DEFINE o == [obj EXCEPT ![c].env = c]
             w == wcb \union {c}
             ph == [phase EXCEPT ![c] = "queued"]
  <2>1. may_start(c) /\ NeverDies /\ Limited(o, w, {}) /\ phase[c] = "new"
    BY <1>1 DEF psgi_yield, may_start
  <2>2. Good(o, w \ {}, CountAnswers(answers, {}), ph) /\ w \in SUBSET Contexts
    BY <1>0, <1>n, <2>1, ClientComes
  <2>3. /\ Refused \intersect Started = {}
        /\ \A d \in Refused \union Started : ph[d] = "queued"
        /\ \A d \in Contexts : phase'[d] = IF d \in Refused THEN "gone"
                                           ELSE IF d \in Started THEN "held" ELSE ph[d]
        /\ CodeUnset'
    BY <1>0, <2>1, MayStartEffect
  <2> HIDE DEF o, w, ph
  <2> QED BY <1>0, <2>1, <2>2, <2>3, LimitedGood
<1>2. ASSUME NEW c \in Contexts, NEW d \in Contexts, yield_chain(c, d)
      PROVE  CodeUnset' /\ Good(obj', wcb', answers', phase')
  <2> DEFINE o == [obj EXCEPT ![c] = [Closed(@) EXCEPT !.passed = TRUE], ![d].env = obj[c].env]
             ph == [phase EXCEPT ![d] = "queued"]
  <2>1. /\ may_start(d) /\ NeverDies /\ Limited(o, wcb, {}) /\ phase[d] = "new"
        /\ obj[c].istream /\ ~obj[c].qfh
    BY <1>2 DEF yield_chain, may_start, Reads
  <2>2. Good(o, wcb \ {}, CountAnswers(answers, {}), ph)
    BY <1>0, <1>n, <2>1, EnvIsPassed
  <2>3. /\ Refused \intersect Started = {}
        /\ \A f \in Refused \union Started : ph[f] = "queued"
        /\ \A f \in Contexts : phase'[f] = IF f \in Refused THEN "gone"
                                           ELSE IF f \in Started THEN "held" ELSE ph[f]
        /\ CodeUnset'
    BY <1>0, <2>1, MayStartEffect
  <2> HIDE DEF o, ph
  <2> QED BY <1>0, <2>1, <2>2, <2>3, LimitedGood
<1>3. ASSUME NEW c \in Contexts, DESTROY(c)
      PROVE  CodeUnset' /\ Good(obj', wcb', answers', phase')
  <2> DEFINE o == [obj EXCEPT ![c] = Finalized(@)]
             fs == Answered(obj[c], wcb)
             ph == [phase EXCEPT ![c] = "gone"]
  <2>1. /\ _start_next(c) /\ NeverDies /\ Limited(o, wcb, fs) /\ phase[c] = "held"
        /\ ~obj[c].istream
    BY <1>3 DEF DESTROY, Unreferenced, _start_next, HandOver
  <2>2. Good(o, wcb \ fs, CountAnswers(answers, fs), ph) /\ fs \in SUBSET wcb
    <3>1. HeldStep(obj[c], wcb, Finalized(obj[c]), fs, TRUE)
      BY <1>0, <2>1 DEF HeldStep, Finalized, Answered, Objects
    <3>2. Good([obj EXCEPT ![c] = Finalized(obj[c])], wcb \ fs, CountAnswers(answers, fs),
               [phase EXCEPT ![c] = IF TRUE THEN "gone" ELSE "held"])
      BY <1>0, <2>1, <3>1, HeldChange
    <3> QED BY <3>1, <3>2 DEF HeldStep
  <2>3. /\ Refused \intersect Started = {}
        /\ \A f \in Refused \union Started : ph[f] = "queued"
        /\ \A f \in Contexts : phase'[f] = IF f \in Refused THEN "gone"
                                           ELSE IF f \in Started THEN "held" ELSE ph[f]
        /\ CodeUnset'
    BY <1>0, <2>1, StartNextEffect
  <2> HIDE DEF o, fs, ph
  <2> QED BY <1>0, <2>1, <2>2, <2>3, LimitedGood
<1>4. ASSUME NEW c \in Contexts, Hangup(c)
      PROVE  CodeUnset' /\ Good(obj', wcb', answers', phase')
  BY <1>0, <1>4 DEF Hangup, ClientHup, qspawnVars, CodeUnset
<1>5. ASSUME UNCHANGED limiterVars PROVE CodeUnset'
  BY <1>0, <1>5 DEF limiterVars, CodeUnset
<1>6. ASSUME NEW c \in Contexts, ChildExits(c)
      PROVE  CodeUnset' /\ Good(obj', wcb', answers', phase')
  <2> DEFINE x == [obj[c] EXCEPT !.child = "zombie"]
  <2>1. /\ UNCHANGED limiterVars /\ obj' = [obj EXCEPT ![c] = x] /\ phase[c] = "held"
        /\ UNCHANGED <<wcb, answers>>
    BY <1>0, <1>6 DEF ChildExits, QInv, ChildHoldsSlot, Unreaped
  <2>2. HeldStep(obj[c], wcb, x, {}, FALSE)
    BY <1>0 DEF HeldStep, Objects, ChildStates, G, Good, ReaderHasWcb
  <2>3. Answer({}, wcb)
    BY <1>0, <1>n, <2>1 DEF Answer, CountAnswers
  <2> HIDE DEF x
  <2> QED BY <1>0, <1>5, <2>1, <2>2, <2>3, ObjectGood DEF limiterVars
<1>7. ASSUME NEW c \in Contexts, waitpid_err(c)
      PROVE  CodeUnset' /\ Good(obj', wcb', answers', phase')
  <2> DEFINE o == [obj[c] EXCEPT !.child = "reaped", !.err = TRUE]
             x == IF ~obj[c].rpipe THEN Finalized(o) ELSE o
             es == IF ~obj[c].rpipe THEN Answered(o, wcb) ELSE {}
  <2>1. /\ UNCHANGED limiterVars /\ obj' = [obj EXCEPT ![c] = x] /\ phase[c] = "held"
        /\ Answer(es, wcb)
    BY <1>0, <1>7 DEF waitpid_err, WaitpidErr, QInv, ChildHoldsSlot, Unreaped
  <2>2. HeldStep(obj[c], wcb, x, es, FALSE)
    <3>1. obj[c] \in Objects /\ (obj[c].istream => obj[c].rpipe)
      BY <1>0 DEF Good, ReaderHasWcb
    <3>2. /\ o \in Objects /\ o.env = obj[c].env /\ o.rpipe = obj[c].rpipe /\ o.qfh = obj[c].qfh
          /\ o.istream = obj[c].istream /\ o.passed = obj[c].passed
      BY <3>1 DEF Objects, ChildStates
    <3> HIDE DEF o
    <3>3. CASE obj[c].rpipe
      BY <3>1, <3>2, <3>3 DEF HeldStep
    <3>4. CASE ~obj[c].rpipe
      <4>1. /\ Finalized(o) \in Objects /\ Finalized(o).env = NoEnv
            /\ Finalized(o).istream = o.istream /\ Finalized(o).passed = o.passed
        BY <3>2 DEF Finalized, Objects
      <4> QED BY <3>1, <3>2, <3>4, <4>1 DEF HeldStep, Answered
    <3> QED BY <3>3, <3>4
  <2> HIDE DEF x, es
  <2> QED BY <1>0, <1>5, <2>1, <2>2, ObjectGood DEF limiterVars
<1>8. ASSUME NEW c \in Contexts, yield_pass(c)
      PROVE  CodeUnset' /\ Good(obj', wcb', answers', phase')
  <2>1. PICK x \in {Closed(obj[c]), [obj[c] EXCEPT !.qfh = TRUE]} :
          /\ UNCHANGED limiterVars /\ obj' = [obj EXCEPT ![c] = x]
          /\ obj[c].istream /\ ~obj[c].qfh /\ Answer({obj[c].env}, wcb)
    BY <1>0, <1>8 DEF yield_pass, Reads
  <2>2. phase[c] = "held" /\ obj[c].rpipe /\ ~obj[c].passed /\ obj[c].env \in wcb
    BY <1>0, <2>1 DEF Good, ReaderHasWcb
  <2>3. HeldStep(obj[c], wcb, x, {obj[c].env}, FALSE)
    BY <1>0, <2>1, <2>2 DEF HeldStep, Closed, Objects
  <2> QED BY <1>0, <1>5, <2>1, <2>2, <2>3, ObjectGood DEF limiterVars
<1>9. ASSUME NEW c \in Contexts, yield_chunk(c)
      PROVE  CodeUnset' /\ Good(obj', wcb', answers', phase')
  <2>1. UNCHANGED limiterVars /\ obj[c].istream /\ obj[c].qfh
    BY <1>9 DEF yield_chunk, Reads
  <2>2. phase[c] = "held" /\ obj[c].rpipe
    BY <1>0, <2>1 DEF Good, ReaderHasWcb
  <2>3. CASE /\ obj' = [obj EXCEPT ![c] = Closed(Finish(@))]
             /\ Answer(IF Finishes(obj[c]) THEN Answered(obj[c], wcb) ELSE {}, wcb)
    <3> DEFINE x == Closed(Finish(obj[c]))
               es == IF Finishes(obj[c]) THEN Answered(obj[c], wcb) ELSE {}
    <3>1. HeldStep(obj[c], wcb, x, es, FALSE)
      BY <1>0, <2>1, <2>2 DEF HeldStep, Closed, Finish, Finishes, Finalized, Answered, Objects
    <3>2. obj' = [obj EXCEPT ![c] = x] /\ Answer(es, wcb)
      BY <2>3
    <3> HIDE DEF x, es
    <3> QED BY <1>0, <1>5, <2>1, <2>2, <3>1, <3>2, ObjectGood DEF limiterVars
  <2>4. CASE obj' = [obj EXCEPT ![c] = Closed(@)] /\ UNCHANGED <<wcb, answers>>
    <3>1. HeldStep(obj[c], wcb, Closed(obj[c]), {}, FALSE)
      BY <1>0 DEF HeldStep, Closed, Objects
    <3>2. obj' = [obj EXCEPT ![c] = Closed(obj[c])] /\ Answer({}, wcb)
      BY <1>0, <1>n, <2>4 DEF Answer, CountAnswers
    <3> QED BY <1>0, <1>5, <2>1, <2>2, <3>1, <3>2, ObjectGood DEF limiterVars
  <2> QED BY <1>9, <2>3, <2>4 DEF yield_chunk
<1>10. CASE QIdle \/ UNCHANGED vars
  <2>1. UNCHANGED <<limiterVars, obj, wcb, answers>>
    BY <1>10 DEF QIdle, Idle, vars, qspawnVars
  <2> QED BY <1>0, <1>5, <2>1 DEF limiterVars
<1> QED BY <1>1, <1>2, <1>3, <1>4, <1>6, <1>7, <1>8, <1>9, <1>10 DEF QNext, Read

\* Every client is answered at most once and a waiting callback has exactly
\* one object to call it, for every set of contexts and every limiter.
THEOREM AnswersInvariant == QSpec => []AInv
<1>1. QInit => AInv
  <2> SUFFICES ASSUME QInit PROVE AInv
    OBVIOUS
  <2>1. IInv
    BY InitIInv DEF QInit
  <2>2. /\ obj \in [Contexts -> Objects]
        /\ \A c \in Contexts : ~Unreaped(obj[c]) /\ Fresh(obj[c]) /\ obj[c].env = NoEnv
    BY DEF QInit, Objects, new, ChildStates, Unreaped, Fresh
  <2>3. QInv
    BY <2>1, <2>2 DEF QInv, ObjOK, ChildHoldsSlot
  <2>4. /\ phase = [c \in Contexts |-> "new"] /\ code = [c \in Contexts |-> 0]
        /\ wcb = {} /\ answers = [c \in Contexts |-> 0]
    BY DEF QInit, Init
  <2>5. CodeUnset
    BY <2>4 DEF CodeUnset
  <2>6. Good(obj, wcb, answers, phase)
    <3>1. Untouched(obj, wcb, phase)
      BY <2>2, <2>4 DEF Untouched
    <3>2. NotYetCome(obj, wcb, answers, phase)
      BY <2>2, <2>4, NoEnvAssumption DEF NotYetCome
    <3>3. ReaderHasWcb(obj, wcb, phase)
      BY <2>2 DEF ReaderHasWcb, Fresh
    <3>4. CalledOnce(wcb, answers) /\ OneOwner(obj, wcb, phase)
      BY <2>4 DEF CalledOnce, OneOwner
    <3> QED BY <2>2, <2>4, <3>1, <3>2, <3>3, <3>4 DEF Good, Phases
  <2> QED BY <2>3, <2>5, <2>6 DEF AInv
<1> QED BY <1>1, NextAInv, PTL DEF QSpec

\* Exactly one answer per client, whatever the order of EOF, reaping, refusal,
\* disconnect, chaining and spawn failure.
THEOREM OneAnswerHolds == QSpec => []OneAnswer
<1>1. AInv => OneAnswer
  BY DEF AInv, Good, CalledOnce, OneOwner, OneAnswer
<1> QED BY <1>1, AnswersInvariant, PTL

\* yield_pass always finds the callback it takes out of the env.
THEOREM HeaderHasWcbHolds == QSpec => []HeaderHasWcb
<1>1. AInv => HeaderHasWcb
  BY DEF AInv, Good, ReaderHasWcb, HeaderHasWcb
<1> QED BY <1>1, AnswersInvariant, PTL
=============================================================================
