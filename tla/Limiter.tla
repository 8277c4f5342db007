------------------------------ MODULE Limiter ------------------------------
(***************************************************************************)
(* PublicInbox::Limiter: at most {max} contexts of a limiter run at a      *)
(* time, the others wait in {run_queue} or are turned away.  A context is  *)
(* a PublicInbox::Qspawn object or the ctx hash of PsgiLimiter.            *)
(*                                                                         *)
(* _do_start stores an on_destroy callback in the context, so a slot is    *)
(* given back when the last reference to the context goes away; that       *)
(* callback is _start_next, which hands the slot to the head of the queue. *)
(***************************************************************************)
EXTENDS Integers, Sequences, FiniteSets

CONSTANTS
    Contexts,   \* contexts that may ask for a slot
    Max,        \* {max}: slots of the limiter
    Depth,      \* {depth} // 32: configured depth of the queue
    Ckhup       \* contexts whose env has 'pi-httpd.ckhup' (public-inbox-httpd)

\* setup_limiter only accepts positive integers for {max} and {depth}.
ASSUME MaxAssumption   == Max \in Nat \ {0}
ASSUME DepthAssumption == Depth \in Nat \ {0}
ASSUME CkhupAssumption == Ckhup \subseteq Contexts
ASSUME FiniteAssumption == IsFiniteSet(Contexts)

VARIABLES
    running,    \* {running}
    runQueue,   \* {run_queue}
    phase,      \* where the limiter has each context
    code,       \* status given to fail_cb, 0 when fail_cb was not called
    hup         \* contexts whose client has disconnected

limiterVars == <<running, runQueue, phase, code, hup>>

\* A "held" context owns the on_destroy guard "limiter.next".
Phases == {"new", "queued", "held", "gone"}
Codes  == {0, 499, 500, 503}

TypeOK ==
    /\ running \in Nat
    /\ runQueue \in Seq(Contexts)
    /\ phase \in [Contexts -> Phases]
    /\ code \in [Contexts -> Codes]
    /\ hup \in SUBSET Contexts

Init ==
    /\ running = 0
    /\ runQueue = << >>
    /\ phase = [c \in Contexts |-> "new"]
    /\ code = [c \in Contexts |-> 0]
    /\ hup = {}

-----------------------------------------------------------------------------
\* may_start with a free slot: _do_start runs start_cb at once.  start_cb may
\* die, which is answered by fail_cb(500); the slot stays taken until c is
\* destroyed.
Starts(c, taken) ==
    /\ running < Max
    /\ running' = running + taken
    /\ phase' = [phase EXCEPT ![c] = "held"]
    /\ \E died \in BOOLEAN : code' = [code EXCEPT ![c] = IF died THEN 500 ELSE 0]
    /\ UNCHANGED runQueue

Bug_UncountedStart(c) == \E taken \in {0, 1} : Starts(c, taken)

StartNow(c) == Starts(c, 1)

\* may_start with all slots taken and more than {depth} contexts queued.
TooBusy(c) ==
    /\ running >= Max
    /\ Len(runQueue) > Depth
    /\ phase' = [phase EXCEPT ![c] = "gone"]
    /\ code' = [code EXCEPT ![c] = 503]
    /\ UNCHANGED <<running, runQueue>>

\* may_start otherwise: push @{$self->{run_queue}}.
Push(c) ==
    /\ running >= Max
    /\ runQueue' = Append(runQueue, c)
    /\ phase' = [phase EXCEPT ![c] = "queued"]
    /\ UNCHANGED <<running, code>>

Enqueue(c) == Len(runQueue) <= Depth /\ Push(c)

may_start(c) ==
    /\ phase[c] = "new"
    /\ StartNow(c) \/ TooBusy(c) \/ Enqueue(c)
    /\ UNCHANGED hup

\* The loop of _start_next drops the head of the queue while its client is
\* known to have disconnected: Dropped is the number of heads it drops.
GoneClient(c) == c \in Ckhup /\ c \in hup

Dropped(q) ==
    Cardinality({i \in 1 .. Len(q) : \A j \in 1 .. i : GoneClient(q[j])})

\* The slot of c goes back; the contexts of drop get 499, the one of start,
\* if any, takes the slot over, rest stays queued.
HandOver(c, drop, start, rest) ==
    /\ phase[c] = "held"
    /\ runQueue' = rest
    /\ running' = running - (IF start = {} THEN 1 ELSE 0)
    /\ phase' = [d \in Contexts |->
                    IF d = c \/ d \in drop THEN "gone"
                    ELSE IF d \in start THEN "held" ELSE phase[d]]
    /\ \E died \in SUBSET start : code' = [d \in Contexts |->
                    IF d \in drop THEN 499
                    ELSE IF d \in died THEN 500 ELSE code[d]]
    /\ UNCHANGED hup

Elements(q, ix) == {q[i] : i \in ix \intersect DOMAIN q}

\* An "if" in place of the loop: nothing is started after a dropped client.
Bug_NoLoop(c) ==
    IF runQueue # << >> /\ GoneClient(Head(runQueue))
    THEN HandOver(c, {Head(runQueue)}, {}, Tail(runQueue))
    ELSE HandOver(c, {}, Elements(runQueue, {1}),
                  SubSeq(runQueue, 2, Len(runQueue)))

\* _start_next, run by the destruction of c.
_start_next(c) ==
    LET n == Dropped(runQueue)
    IN  HandOver(c, Elements(runQueue, 1 .. n), Elements(runQueue, {n + 1}),
                 SubSeq(runQueue, n + 2, Len(runQueue)))

\* External: the HTTP client of c closes its connection.  The limiter only
\* looks at the connections of queued contexts, and only through ckhup.
ClientHup(c) ==
    /\ c \in Ckhup /\ c \notin hup
    /\ phase[c] = "queued"
    /\ hup' = hup \union {c}
    /\ UNCHANGED <<running, runQueue, phase, code>>

\* Every context came and went: the limiter waits for more of them.
Idle ==
    /\ \A c \in Contexts : phase[c] = "gone"
    /\ UNCHANGED limiterVars

Next == Idle \/ \E c \in Contexts : may_start(c) \/ _start_next(c) \/ ClientHup(c)

\* A context that holds a slot is destroyed sooner or later (the request it
\* stands for ends); nothing obliges clients to come or to hang up.
Fairness == \A c \in Contexts : WF_limiterVars(_start_next(c))

Spec == Init /\ [][Next]_limiterVars /\ Fairness

-----------------------------------------------------------------------------
Held   == {c \in Contexts : phase[c] = "held"}
Queued == {c \in Contexts : phase[c] = "queued"}

\* {running} is exactly the number of contexts that own a "limiter.next"
\* guard and never exceeds {max}: no start_cb that dies, dropped client or
\* recursive _start_next leaks a slot or gives one back twice.
SlotsCounted == running = Cardinality(Held) /\ running <= Max

\* The queue holds each waiting context once and nothing else, and a waiting
\* context is only kept waiting while every slot is taken: _start_next never
\* returns with a free slot and a live context in {run_queue}.
WorkConserving ==
    /\ Queued = {runQueue[i] : i \in DOMAIN runQueue}
    /\ \A i, j \in DOMAIN runQueue : runQueue[i] = runQueue[j] => i = j
    /\ runQueue # << >> => running = Max

\* may_start compares the queue's length before the push with {depth} using
\* ">", so the queue holds up to {depth} + 1 contexts and never more.
QueueBound == Len(runQueue) <= Depth + 1

\* What the documentation of publicinboxLimiter.<name>.depth says: {depth} is
\* the maximum depth of the queue.
DocumentedDepth == Len(runQueue) <= Depth

\* A queued context is started or refused in the end: no wake-up is lost
\* between the destruction of a context and the start of the next one.
QueuedIsServed == \A c \in Contexts : phase[c] = "queued" ~> phase[c] # "queued"
=============================================================================
