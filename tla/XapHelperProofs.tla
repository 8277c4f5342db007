-------------------------- MODULE XapHelperProofs --------------------------
(***************************************************************************)
(* Proofs about XapHelper for every number of workers, requests, signals   *)
(* and crashes, and every size of the self-pipe.                           *)
(***************************************************************************)
EXTENDS XapHelper, FiniteSetTheorems, TLAPS

\* fork(2) returns process ids nobody has had: a new worker inherits no request
\* and no exit status from an earlier one.
Unborn == \A p \in Pids : p > npid => wpc[p] = "none"

\* A running worker is in one of the slots below nworker, or was dismissed.
\* NoStrayWorker speaks of all slots below nworker_hwm, and is not inductive:
\* do_sigttin empties slot nworker and loses what was stored behind it, which
\* is safe only because do_sigttou dismissed whoever is in these slots.
Tracked ==
    \A p \in Running :
        (\E nr \in Slots : nr < nworker /\ pids[nr] = p) \/ p \in termed

\* What the parent's decision to give up rests on: EX_NOINPUT was the end of
\* the socket, and the loop is left only once alive is false.
GiveUpCause ==
    /\ \A p \in Pids : wpc[p] = "noinput" => ~peer
    /\ pc = "exited" => ~alive
    /\ ~alive => ~peer

HInv == TypeOK /\ Unborn /\ Tracked /\ ServedOnce /\ GiveUpCause

-----------------------------------------------------------------------------
\* The members of a finite set of numbers below one of its members are fewer
\* than the whole set: start_workers numbers its processes without a gap.
LEMMA FewerBelow ==
    ASSUME NEW F \in SUBSET Nat, IsFiniteSet(F), NEW nr \in F
    PROVE  /\ Cardinality(F) \in Nat
           /\ Cardinality({m \in F : m < nr}) \in Nat
           /\ Cardinality({m \in F : m < nr}) + 1 <= Cardinality(F)
<1> DEFINE B == {m \in F : m < nr}
<1>1. B \in SUBSET F /\ nr \notin B /\ B \union {nr} \in SUBSET F
  OBVIOUS
<1>2. IsFiniteSet(B) /\ Cardinality(B) \in Nat /\ Cardinality(F) \in Nat
  BY <1>1, FS_Subset, FS_CardinalityType
<1>3. Cardinality(B \union {nr}) = Cardinality(B) + 1
  BY <1>1, <1>2, FS_AddElement
<1>4. Cardinality(B \union {nr}) <= Cardinality(F)
  BY <1>1, FS_Subset
<1> QED BY <1>2, <1>3, <1>4

\* start_workers fills only empty slots, with processes that did not exist, and
\* every process it makes is in a slot below n.
LEMMA StartWorkers ==
    ASSUME TypeOK,
           NEW t \in [Slots -> Pids \union {0}], NEW n \in 1 .. WORKER_MAX,
           NEW w \in [Pids -> WorkerPcs],
           start_workers(t, n, w) \/ StartNone(t, w)
    PROVE  /\ pids' \in [Slots -> Pids \union {0}] /\ wpc' \in [Pids -> WorkerPcs]
           /\ wlog' \in [Pids -> Nat] /\ npid' \in npid .. MaxPid /\ unborn' \in BOOLEAN
           /\ \A nr \in Slots : t[nr] # 0 => pids'[nr] = t[nr]
           /\ \A p \in Pids : \/ wpc'[p] = w[p]
                              \/ /\ wpc'[p] = "top" /\ p > npid /\ p <= npid'
                                 /\ \E nr \in Slots : nr < n /\ pids'[nr] = p
<1> USE WorkerMaxAssumption, NWorkerAssumption, BoundAssumption
<1> USE DEF Slots, Pids
<1>1. CASE StartNone(t, w)
  BY <1>1 DEF StartNone, TypeOK
<1>2. CASE start_workers(t, n, w)
  <2> DEFINE empty == {nr \in Slots : nr < n /\ t[nr] = 0}
             room(F) == npid + Cardinality(F) <= MaxPid
  <2>1. PICK F \in SUBSET empty :
          /\ room(F)
          /\ F = empty \/ ForkFails \/ ~room(empty)
          /\ LET pid(nr) == npid + 1 + Cardinality({m \in F : m < nr})
                 born == {pid(nr) : nr \in F}
             IN  /\ pids' = [nr \in Slots |-> IF nr \in F THEN pid(nr) ELSE t[nr]]
                 /\ wpc' = [p \in Pids |-> IF p \in born THEN "top" ELSE w[p]]
                 /\ wlog' = [p \in Pids |-> IF p \in born THEN gen ELSE wlog[p]]
          /\ npid' = npid + Cardinality(F)
          /\ unborn' = (unborn \/ (F # empty /\ room(empty)))
    BY <1>2, Zenon DEF start_workers
  <2> DEFINE pid(nr) == npid + 1 + Cardinality({m \in F : m < nr})
             born == {pid(nr) : nr \in F}
  <2>2. F \in SUBSET Slots /\ F \in SUBSET Nat /\ IsFiniteSet(F) /\ Cardinality(F) \in Nat
    <3>1. F \in SUBSET Slots /\ F \in SUBSET Nat
      OBVIOUS
    <3>2. IsFiniteSet(Slots)
      BY FS_Interval
    <3> QED BY <3>1, <3>2, FS_Subset, FS_CardinalityType
  <2>3. \A nr \in F : pid(nr) \in Pids /\ pid(nr) > npid /\ pid(nr) <= npid'
    <3> SUFFICES ASSUME NEW nr \in F
                 PROVE  pid(nr) \in Pids /\ pid(nr) > npid /\ pid(nr) <= npid'
      OBVIOUS
    <3> DEFINE k == Cardinality({m \in F : m < nr})
    <3>1. k \in Nat /\ k + 1 <= Cardinality(F)
      BY <2>2, FewerBelow
    <3>2. pid(nr) = npid + 1 + k
      OBVIOUS
    <3>3. npid \in Nat /\ npid + Cardinality(F) <= MaxPid /\ npid' = npid + Cardinality(F)
      BY <2>1 DEF TypeOK
    <3> HIDE DEF k, pid
    <3> QED BY <2>2, <3>1, <3>2, <3>3
  <2>4. /\ pids' = [nr \in Slots |-> IF nr \in F THEN pid(nr) ELSE t[nr]]
        /\ wpc' = [p \in Pids |-> IF p \in born THEN "top" ELSE w[p]]
        /\ wlog' = [p \in Pids |-> IF p \in born THEN gen ELSE wlog[p]]
    BY <2>1
  <2>5. npid' \in npid .. MaxPid
    BY <2>1, <2>2 DEF TypeOK
  <2>6. unborn' \in BOOLEAN
    BY <2>1 DEF TypeOK
  <2>7. \A nr \in F : t[nr] = 0 /\ nr < n
    OBVIOUS
  <2>8. \A p \in born : \E nr \in F : p = pid(nr)
    OBVIOUS
  <2> HIDE DEF pid, born, room, empty
  <2>9. pids' \in [Slots -> Pids \union {0}]
    BY <2>3, <2>4
  <2>10. wpc' \in [Pids -> WorkerPcs]
    BY <2>4 DEF WorkerPcs, RunPcs
  <2>11. wlog' \in [Pids -> Nat]
    BY <2>4 DEF TypeOK
  <2>12. \A nr \in Slots : t[nr] # 0 => pids'[nr] = t[nr]
    BY <2>4, <2>7
  <2>13. ASSUME NEW p \in Pids
         PROVE  \/ wpc'[p] = w[p]
                \/ /\ wpc'[p] = "top" /\ p > npid /\ p <= npid'
                   /\ \E nr \in Slots : nr < n /\ pids'[nr] = p
    <3>1. CASE p \notin born
      BY <2>4, <3>1
    <3>2. CASE p \in born
      <4>1. PICK nr \in F : p = pid(nr)
        BY <2>8, <3>2
      <4>2. nr \in Slots /\ nr < n /\ pids'[nr] = p /\ wpc'[p] = "top"
        BY <2>2, <2>4, <2>7, <3>2, <4>1
      <4> QED BY <2>3, <4>1, <4>2
    <3> QED BY <3>1, <3>2
  <2> QED BY <2>5, <2>6, <2>9, <2>10, <2>11, <2>12, <2>13
<1> QED BY <1>1, <1>2

-----------------------------------------------------------------------------
\* Steps that move no worker in or out of dispatch keep ServedOnce.
LEMMA ServedKept ==
    ASSUME ServedOnce, UNCHANGED <<serving, req, nkill>>,
           \A p \in Pids : wpc'[p] = "busy" <=> wpc[p] = "busy"
    PROVE  ServedOnce'
BY DEF ServedOnce

\* The steps of the parent that start and reap nobody.
LEMMA ParentStep ==
    ASSUME HInv,
           \/ ReadPipe \/ ParentExit \/ ReapedAll \/ CharChld \/ CharsDone
           \/ do_sigttou \/ parent_reopen_logs
    PROVE  HInv'
<1> USE WorkerMaxAssumption, NWorkerAssumption, BoundAssumption
<1>0. TypeOK /\ Unborn /\ Tracked /\ ServedOnce /\ GiveUpCause
  BY DEF HInv
<1>1. CASE \/ ReadPipe \/ ParentExit \/ ReapedAll \/ CharChld \/ CharsDone
  <2>1. TypeOK'
    <3>1. sbuf' \in Seq({".", "-", "+", "#"}) /\ pipe' \in Seq({".", "-", "+", "#"}) /\ Len(pipe') <= PIPE_CAP
      <4>1. CASE ReadPipe
        <5>1. pipe' = << >> /\ sbuf' = pipe
          BY <4>1 DEF ReadPipe
        <5> QED BY <1>0, <5>1, PipeAssumption DEF TypeOK
      <4>2. CASE CharChld
        <5>1. sbuf' = Tail(sbuf) /\ sbuf # << >> /\ pipe' = pipe
          BY <4>2 DEF CharChld, Char
        <5> QED BY <1>0, <5>1 DEF TypeOK
      <4>3. CASE ParentExit \/ ReapedAll \/ CharsDone
        <5>1. UNCHANGED <<sbuf, pipe>>
          BY <4>3 DEF ParentExit, ReapedAll, CharsDone
        <5> QED BY <1>0, <5>1 DEF TypeOK
      <4> QED BY <1>1, <4>1, <4>2, <4>3
    <3>2. UNCHANGED <<alive, nworker, hwm, alloc, pids, gen, chld, wpc, sock, sigs, reopen, wlog,
                      termed, serving, req, peer, npid, nsig, nkill, unborn>>
      BY <1>1 DEF ReadPipe, ParentExit, ReapedAll, CharChld, CharsDone, Char, workerVars, counters
    <3>3. pc' \in {"loop", "reap", "chars", "exited"}
      BY <1>0, <1>1 DEF TypeOK, ReadPipe, ParentExit, ReapedAll, CharChld, CharsDone, Char
    <3> QED BY <1>0, <3>1, <3>2, <3>3 DEF TypeOK
  <2>2. UNCHANGED <<alive, nworker, pids, wpc, termed, serving, req, peer, npid, nkill>>
    BY <1>1 DEF ReadPipe, ParentExit, ReapedAll, CharChld, CharsDone, Char, workerVars, counters
  <2>3. Unborn' /\ Tracked'
    BY <1>0, <2>2 DEF Unborn, Tracked, Running
  <2>4. ServedOnce'
    BY <1>0, <2>2, ServedKept
  <2>5. GiveUpCause'
    BY <1>0, <1>1, <2>2
       DEF GiveUpCause, ReadPipe, ParentExit, ReapedAll, CharChld, CharsDone, Char
  <2> QED BY <2>1, <2>3, <2>4, <2>5 DEF HInv
<1>2. CASE do_sigttou
  <2>0. Ttou((nworker - 1) .. (hwm - 1))
    BY <1>2 DEF do_sigttou
  <2>1. /\ sbuf' \in Seq({".", "-", "+", "#"})
        /\ UNCHANGED <<alive, hwm, alloc, pids, pc, gen, pipe, chld, wpc, sock, reopen,
                       wlog, serving, req, peer, npid, nsig, nkill, unborn>>
    BY <1>0, <2>0 DEF TypeOK, Ttou, Char, counters
  <2>2. Unborn' /\ GiveUpCause'
    BY <1>0, <2>1 DEF Unborn, GiveUpCause
  <2>3. ServedOnce'
    BY <1>0, <2>1, ServedKept
  <2>4. CASE ~alive \/ nworker <= 1
    <3>1. UNCHANGED <<nworker, sigs, termed>>
      BY <2>0, <2>4 DEF Ttou
    <3>2. TypeOK'
      BY <1>0, <2>1, <3>1 DEF TypeOK
    <3>3. Tracked'
      BY <1>0, <2>1, <3>1 DEF Tracked, Running
    <3> QED BY <2>2, <2>3, <3>2, <3>3 DEF HInv
  <2>5. CASE ~(~alive \/ nworker <= 1)
    <3> DEFINE ss == (nworker - 1) .. (hwm - 1)
    <3>1. /\ nworker' = nworker - 1 /\ Kill(ss, "TERM")
          /\ termed' = termed \union ({pids[nr] : nr \in ss} \ {0})
      BY <2>0, <2>5 DEF Ttou
    <3>2. ss \in SUBSET Slots /\ nworker - 1 \in ss
      BY <1>0, <2>5 DEF TypeOK, Slots
    <3>3. termed' \in SUBSET Pids
      BY <1>0, <3>1, <3>2 DEF TypeOK
    <3>4. sigs' \in [Pids -> SUBSET {"TERM", "USR1"}]
      BY <1>0, <3>1 DEF TypeOK, Kill
    <3>5. nworker' \in 1 .. WORKER_MAX /\ hwm \in nworker' .. WORKER_MAX /\ alloc \in nworker' .. WORKER_MAX
      BY <1>0, <2>5, <3>1 DEF TypeOK
    <3>6. TypeOK'
      BY <1>0, <2>1, <3>3, <3>4, <3>5 DEF TypeOK
    <3>7. Tracked'
      <4> SUFFICES ASSUME NEW p \in Running, NEW nr \in Slots, nr < nworker, pids[nr] = p,
                          ~(\E m \in Slots : m < nworker' /\ pids'[m] = p)
                   PROVE  p \in termed'
        BY <1>0, <2>1, <3>1 DEF Tracked, Running
      <4>1. nr = nworker - 1
        BY <1>0, <2>1, <3>1 DEF TypeOK, Slots
      <4>2. p # 0
        BY DEF Running, Pids
      <4> QED BY <3>1, <3>2, <4>1, <4>2
    <3> QED BY <2>2, <2>3, <3>6, <3>7 DEF HInv
  <2> QED BY <2>4, <2>5
<1>3. CASE parent_reopen_logs
  <2>1. /\ sbuf' \in Seq({".", "-", "+", "#"}) /\ gen' \in Nat
        /\ sigs' \in [Pids -> SUBSET {"TERM", "USR1"}]
        /\ UNCHANGED <<alive, nworker, hwm, alloc, pids, pc, pipe, chld, wpc, sock,
                       reopen, wlog, termed, serving, req, peer, npid, nsig, nkill, unborn>>
    BY <1>0, <1>3 DEF TypeOK, parent_reopen_logs, Char, Kill, counters
  <2>2. TypeOK'
    BY <1>0, <2>1 DEF TypeOK
  <2>3. Unborn' /\ GiveUpCause' /\ Tracked'
    BY <1>0, <2>1 DEF Unborn, GiveUpCause, Tracked, Running
  <2>4. ServedOnce'
    BY <1>0, <2>1, ServedKept
  <2> QED BY <2>2, <2>3, <2>4 DEF HInv
<1> QED BY <1>1, <1>2, <1>3

\* do_sigchld: the slot of a dead worker is emptied, and start_workers runs.
LEMMA ReapStep ==
    ASSUME HInv, NEW p \in Pids, reaped_prefork_worker(p)
    PROVE  HInv'
<1> USE WorkerMaxAssumption, NWorkerAssumption, BoundAssumption
<1> DEFINE slots == {nr \in Slots : nr < hwm /\ pids[nr] = p}
           t == [nr \in Slots |-> IF nr \in slots /\ \A m \in slots : nr <= m THEN 0 ELSE pids[nr]]
           w == [wpc EXCEPT ![p] = "reaped"]
<1>0. TypeOK /\ Unborn /\ Tracked /\ ServedOnce /\ GiveUpCause
  BY DEF HInv
<1>1. /\ pc = "reap" /\ wpc[p] \in Zombies
      /\ alive' = IF slots = {} THEN alive ELSE (alive /\ wpc[p] # "noinput")
      /\ start_workers(t, nworker, w) \/ StartNone(t, w)
      /\ UNCHANGED <<nworker, hwm, alloc, pc, sbuf, gen, pipe, chld, sock,
                       sigs, reopen, termed, serving, req, peer, nsig, nkill>>
  BY Zenon DEF reaped_prefork_worker, Reap
<1>2. t \in [Slots -> Pids \union {0}] /\ w \in [Pids -> WorkerPcs] /\ nworker \in 1 .. WORKER_MAX
  BY <1>0 DEF TypeOK, WorkerPcs
<1>3. \A nr \in Slots : pids[nr] # p => t[nr] = pids[nr]
  OBVIOUS
<1>4. \A q \in Pids : w[q] = IF q = p THEN "reaped" ELSE wpc[q]
  BY <1>0 DEF TypeOK
<1> HIDE DEF slots, t, w
<1>5. /\ pids' \in [Slots -> Pids \union {0}] /\ wpc' \in [Pids -> WorkerPcs]
      /\ wlog' \in [Pids -> Nat] /\ npid' \in npid .. MaxPid /\ unborn' \in BOOLEAN
      /\ \A nr \in Slots : t[nr] # 0 => pids'[nr] = t[nr]
      /\ \A q \in Pids : \/ wpc'[q] = w[q]
                         \/ /\ wpc'[q] = "top" /\ q > npid /\ q <= npid'
                            /\ \E nr \in Slots : nr < nworker /\ pids'[nr] = q
  BY <1>0, <1>1, <1>2, StartWorkers
<1>6. alive' \in BOOLEAN
  BY <1>0, <1>1 DEF TypeOK
<1>7. TypeOK'
  BY <1>0, <1>1, <1>5, <1>6 DEF TypeOK
<1>8. Unborn'
  <2> SUFFICES ASSUME NEW q \in Pids, q > npid' PROVE wpc'[q] = "none"
    BY DEF Unborn
  <2>1. q > npid /\ ~(q <= npid')
    BY <1>0, <1>5 DEF TypeOK, Pids
  <2>2. wpc[q] = "none" /\ q # p
    BY <1>0, <1>1, <2>1 DEF Unborn, Zombies
  <2> QED BY <1>4, <1>5, <2>1, <2>2
<1>9. Tracked'
  <2> SUFFICES ASSUME NEW q \in Pids, wpc'[q] \in RunPcs
               PROVE  (\E nr \in Slots : nr < nworker /\ pids'[nr] = q) \/ q \in termed
    BY <1>1 DEF Tracked, Running
  <2>1. CASE wpc'[q] = w[q]
    <3>1. q # p /\ wpc[q] \in RunPcs /\ q # 0
      BY <1>4, <2>1 DEF RunPcs, WaitPcs, Pids
    <3> QED BY <1>0, <1>3, <1>5, <3>1 DEF Tracked, Running
  <2> QED BY <1>5, <2>1
<1>10. ServedOnce'
  <2>1. \A q \in Pids : wpc'[q] = "busy" <=> wpc[q] = "busy"
    BY <1>0, <1>1, <1>4, <1>5 DEF Unborn, Zombies
  <2> QED BY <1>0, <1>1, <2>1, ServedKept
<1>11. GiveUpCause'
  <2>1. \A q \in Pids : wpc'[q] = "noinput" => ~peer
    BY <1>0, <1>4, <1>5 DEF GiveUpCause
  <2>2. ~alive' => ~peer
    BY <1>0, <1>1 DEF GiveUpCause
  <2> QED BY <1>1, <2>1, <2>2 DEF GiveUpCause
<1> QED BY <1>7, <1>8, <1>9, <1>10, <1>11 DEF HInv

\* do_sigttin: slot nworker is emptied and the slots behind it hold anything.
LEMMA TtinStep == HInv /\ do_sigttin => HInv'
<1> SUFFICES ASSUME HInv, do_sigttin PROVE HInv'
  OBVIOUS
<1> USE WorkerMaxAssumption, NWorkerAssumption, BoundAssumption
<1>0. TypeOK /\ Unborn /\ Tracked /\ ServedOnce /\ GiveUpCause
  BY DEF HInv
<1>1. /\ sbuf' \in Seq({".", "-", "+", "#"})
      /\ UNCHANGED <<alive, pc, gen, pipe, chld, sock, sigs, reopen, termed,
                     serving, req, peer, nsig, nkill>>
  BY <1>0 DEF TypeOK, do_sigttin, Char
<1>2. CASE ~alive \/ nworker >= WORKER_MAX
  <2>1. UNCHANGED <<nworker, hwm, alloc, pids, wpc, wlog, npid, unborn>>
    BY <1>2 DEF do_sigttin
  <2>2. TypeOK'
    BY <1>0, <1>1, <2>1 DEF TypeOK
  <2>3. Unborn' /\ GiveUpCause' /\ Tracked'
    BY <1>0, <1>1, <2>1 DEF Unborn, GiveUpCause, Tracked, Running
  <2>4. ServedOnce'
    BY <1>0, <1>1, <2>1, ServedKept
  <2> QED BY <2>2, <2>3, <2>4 DEF HInv
<1>3. CASE ~(~alive \/ nworker >= WORKER_MAX)
  <2> DEFINE lost == {nr \in Slots : nr > nworker /\ nr < hwm}
             t(junk) == [nr \in Slots |-> IF nr = nworker THEN 0
                                          ELSE IF nr \in DOMAIN junk THEN junk[nr] ELSE pids[nr]]
  <2>1. /\ nworker' = nworker + 1 /\ alloc' = nworker + 1
        /\ hwm' = IF hwm < nworker' THEN nworker' ELSE hwm
        /\ \E junk \in [lost -> Pids \union {0}] : start_workers(t(junk), nworker', wpc)
    BY <1>3, Zenon DEF do_sigttin
  <2>2. PICK junk \in [lost -> Pids \union {0}] : start_workers(t(junk), nworker', wpc)
    BY <2>1
  <2>3. /\ nworker' \in 1 .. WORKER_MAX /\ hwm' \in nworker' .. WORKER_MAX
        /\ alloc' \in nworker' .. WORKER_MAX
    BY <1>0, <1>3, <2>1 DEF TypeOK
  <2>4. t(junk) \in [Slots -> Pids \union {0}]
    BY <1>0 DEF TypeOK
  <2>5. \A nr \in Slots : nr < nworker => t(junk)[nr] = pids[nr]
    BY <1>0 DEF TypeOK, Slots
  <2>6. wpc \in [Pids -> WorkerPcs]
    BY <1>0 DEF TypeOK
  <2> HIDE DEF t, lost
  <2>7. /\ pids' \in [Slots -> Pids \union {0}] /\ wpc' \in [Pids -> WorkerPcs]
        /\ wlog' \in [Pids -> Nat] /\ npid' \in npid .. MaxPid /\ unborn' \in BOOLEAN
        /\ \A nr \in Slots : t(junk)[nr] # 0 => pids'[nr] = t(junk)[nr]
        /\ \A q \in Pids : \/ wpc'[q] = wpc[q]
                           \/ /\ wpc'[q] = "top" /\ q > npid /\ q <= npid'
                              /\ \E nr \in Slots : nr < nworker' /\ pids'[nr] = q
    BY <1>0, <2>2, <2>3, <2>4, <2>6, StartWorkers
  <2>8. TypeOK'
    BY <1>0, <1>1, <2>3, <2>7 DEF TypeOK
  <2>9. Unborn'
    BY <1>0, <2>7 DEF Unborn, TypeOK, Pids
  <2>10. Tracked'
    <3> SUFFICES ASSUME NEW q \in Pids, wpc'[q] \in RunPcs
                 PROVE  (\E nr \in Slots : nr < nworker' /\ pids'[nr] = q) \/ q \in termed
      BY <1>1 DEF Tracked, Running
    <3>1. CASE wpc'[q] = wpc[q] /\ q \notin termed
      <4>1. PICK nr \in Slots : nr < nworker /\ pids[nr] = q
        BY <1>0, <3>1 DEF Tracked, Running
      <4>2. q # 0
        BY DEF Pids
      <4>3. pids'[nr] = q
        BY <2>5, <2>7, <4>1, <4>2
      <4>4. nr < nworker'
        BY <1>0, <2>1, <4>1 DEF TypeOK, Slots
      <4> QED BY <4>3, <4>4
    <3> QED BY <2>7, <3>1
  <2>11. ServedOnce'
    <3>1. \A q \in Pids : wpc'[q] = "busy" <=> wpc[q] = "busy"
      BY <1>0, <2>7 DEF Unborn
    <3> QED BY <1>0, <1>1, <3>1, ServedKept
  <2>12. GiveUpCause'
    BY <1>0, <1>1, <2>7 DEF GiveUpCause
  <2> QED BY <2>8, <2>9, <2>10, <2>11, <2>12 DEF HInv
<1> QED BY <1>2, <1>3

\* A worker between two requests: signals, recvmsg(2) and its two ways out.
LEMMA IdleStep ==
    ASSUME HInv, NEW p \in Pids,
           Top(p) \/ LoopEnds(p) \/ sigw(p) \/ LoadFd(p) \/ EnterRecv(p) \/ NoInput(p)
    PROVE  HInv'
<1>0. TypeOK /\ Unborn /\ Tracked /\ ServedOnce /\ GiveUpCause
  BY DEF HInv
<1>1. UNCHANGED <<alive, nworker, hwm, alloc, pids, pc, sbuf, gen, pipe, wlog, termed, peer,
                  npid, nsig, nkill, unborn, serving, req>>
  BY DEF Top, LoopEnds, sigw, LoadFd, EnterRecv, NoInput, unchangedByWorker, parentVars, counters
<1>2. chld' \in BOOLEAN
  BY <1>0 DEF TypeOK, Top, LoopEnds, sigw, LoadFd, EnterRecv, NoInput, Exits
<1>3. /\ sock' \in [Pids -> {0, -1}] /\ sigs' \in [Pids -> SUBSET {"TERM", "USR1"}]
      /\ reopen' \in [Pids -> BOOLEAN]
  <2>1. CASE HandleSigs(p)
    BY <1>0, <2>1 DEF TypeOK, HandleSigs
  <2>2. CASE UNCHANGED <<sock, sigs, reopen>>
    BY <1>0, <2>2 DEF TypeOK
  <2> QED BY <2>1, <2>2 DEF Top, LoopEnds, sigw, LoadFd, EnterRecv, NoInput
<1>4. /\ wpc[p] \in RunPcs \ {"busy"}
      /\ wpc' = [wpc EXCEPT ![p] = wpc'[p]]
      /\ wpc'[p] \in (RunPcs \ {"busy"}) \union {"exit0", "noinput"}
      /\ wpc'[p] = "noinput" => ~peer
  <2> USE DEF RunPcs, WaitPcs
  <2>1. CASE Top(p)
    <3>1. wpc[p] = "top" /\ wpc' = [wpc EXCEPT ![p] = "open"]
      BY <2>1 DEF Top
    <3> QED BY <1>0, <3>1 DEF TypeOK
  <2>2. CASE LoopEnds(p)
    <3>1. wpc[p] = "top" /\ wpc' = [wpc EXCEPT ![p] = "exit0"]
      BY <2>2 DEF LoopEnds, Exits
    <3> QED BY <1>0, <3>1 DEF TypeOK
  <2>3. CASE sigw(p)
    <3>1. CASE wpc[p] = "recv"
      <4>1. wpc' = [wpc EXCEPT ![p] = "open"]
        BY <2>3, <3>1 DEF sigw
      <4> QED BY <1>0, <3>1, <4>1 DEF TypeOK
    <3>2. CASE wpc[p] # "recv"
      <4>1. wpc[p] \in WaitPcs /\ wpc' = wpc
        BY <2>3, <3>2 DEF sigw
      <4>2. wpc' = [wpc EXCEPT ![p] = wpc[p]]
        BY <1>0, <4>1 DEF TypeOK
      <4> QED BY <4>1, <4>2
    <3> QED BY <3>1, <3>2
  <2>4. CASE LoadFd(p)
    BY <1>0, <2>4 DEF LoadFd, Exits, TypeOK
  <2>5. CASE EnterRecv(p)
    <3>1. wpc[p] = "loaded" /\ wpc' = [wpc EXCEPT ![p] = "recv"]
      BY <2>5 DEF EnterRecv
    <3> QED BY <1>0, <3>1 DEF TypeOK
  <2>6. CASE NoInput(p)
    BY <1>0, <2>6 DEF NoInput, Exits, TypeOK
  <2> QED BY <2>1, <2>2, <2>3, <2>4, <2>5, <2>6
<1>6. /\ wpc' \in [Pids -> WorkerPcs]
      /\ \A q \in Pids : q # p => wpc'[q] = wpc[q]
  BY <1>0, <1>4 DEF TypeOK, WorkerPcs, Zombies
<1>7. TypeOK'
  BY <1>0, <1>1, <1>2, <1>3, <1>6 DEF TypeOK
<1>8. Unborn'
  BY <1>0, <1>1, <1>4, <1>6 DEF Unborn, RunPcs, WaitPcs
<1>9. Tracked'
  BY <1>0, <1>1, <1>4, <1>6 DEF Tracked, Running
<1>10. ServedOnce'
  BY <1>0, <1>1, <1>4, <1>6, ServedKept
<1>11. GiveUpCause'
  BY <1>0, <1>1, <1>4, <1>6 DEF GiveUpCause
<1> QED BY <1>7, <1>8, <1>9, <1>10, <1>11 DEF HInv

\* recvmsg(2) hands a request to one worker.
LEMMA RecvStep == ASSUME HInv, NEW p \in Pids, RecvReq(p) PROVE HInv'
<1>0. TypeOK /\ Unborn /\ Tracked /\ ServedOnce /\ GiveUpCause
  BY DEF HInv
<1>1. UNCHANGED <<alive, nworker, hwm, alloc, pids, pc, sbuf, gen, pipe, chld, wlog, termed, peer,
                  npid, nsig, nkill, unborn, sock, sigs, reopen>>
  BY DEF RecvReq, unchangedByWorker, parentVars, counters
<1>2. PICK r \in Requests : /\ req[r] = "queued" /\ req' = [req EXCEPT ![r] = "busy"]
                            /\ serving' = [serving EXCEPT ![p] = r]
  BY DEF RecvReq, Queued
<1>3. wpc[p] = "recv" /\ wpc' = [wpc EXCEPT ![p] = "busy"]
  BY DEF RecvReq
<1>4. TypeOK'
  BY <1>0, <1>1, <1>2, <1>3 DEF TypeOK, WorkerPcs, RunPcs
<1>5. Unborn' /\ GiveUpCause'
  BY <1>0, <1>1, <1>3 DEF Unborn, GiveUpCause, TypeOK
<1>6. Tracked'
  BY <1>0, <1>1, <1>3 DEF Tracked, Running, TypeOK, RunPcs, WaitPcs
<1>7. ServedOnce'
  <2>0. r # 0 /\ r \in Requests
    BY DEF Requests
  <2>1. /\ \A q \in Pids : serving'[q] = IF q = p THEN r ELSE serving[q]
        /\ \A q \in Pids : wpc'[q] = IF q = p THEN "busy" ELSE wpc[q]
        /\ \A o \in Requests : req'[o] = IF o = r THEN "busy" ELSE req[o]
    BY <1>0, <1>2, <1>3 DEF TypeOK
  <2>2. \A q \in Pids : serving[q] # r
    BY <1>0, <1>2 DEF ServedOnce
  <2>3. serving[p] = 0
    BY <1>0, <1>3 DEF ServedOnce
  <2>4. \A q \in Pids : serving'[q] # 0 <=> wpc'[q] = "busy"
    BY <1>0, <2>0, <2>1 DEF ServedOnce
  <2>5. \A q, s \in Pids : serving'[q] # 0 /\ serving'[q] = serving'[s] => q = s
    BY <1>0, <2>1, <2>2 DEF ServedOnce
  <2>6. \A o \in Requests : req'[o] = "busy" <=> \E q \in Pids : serving'[q] = o
    <3> SUFFICES ASSUME NEW o \in Requests, o # r
                 PROVE  req'[o] = "busy" <=> \E q \in Pids : serving'[q] = o
      BY <2>1
    <3>1. o # 0
      BY DEF Requests
    <3> QED BY <1>0, <2>1, <2>3, <3>1 DEF ServedOnce
  <2>7. {o \in Requests : req'[o] = "aborted"} = {o \in Requests : req[o] = "aborted"}
    BY <1>2, <2>1
  <2> QED BY <1>0, <1>1, <2>4, <2>5, <2>6, <2>7 DEF ServedOnce
<1> QED BY <1>4, <1>5, <1>6, <1>7 DEF HInv

\* A worker ends a request, with its response or with its life.
LEMMA EndStep == ASSUME HInv, NEW p \in Pids, recv_once(p) \/ Killed(p) PROVE HInv'
<1> DEFINE r == serving[p]
           how == IF recv_once(p) THEN "done" ELSE "aborted"
<1>0. TypeOK /\ Unborn /\ Tracked /\ ServedOnce /\ GiveUpCause
  BY DEF HInv
<1>1. /\ wpc[p] = "busy" /\ req' = [req EXCEPT ![r] = how]
      /\ serving' = [serving EXCEPT ![p] = 0]
      /\ UNCHANGED <<alive, nworker, hwm, alloc, pids, pc, sbuf, gen, pipe, termed, peer,
                     npid, nsig, unborn, sock, sigs>>
  BY DEF recv_once, Killed, parentVars, counters
<1>2. \E v \in {"top", "killed"} : wpc' = [wpc EXCEPT ![p] = v]
  BY DEF recv_once, Killed, Exits
<1>3. chld' \in BOOLEAN /\ nkill' \in Nat
  <2>1. CASE recv_once(p)
    <3>1. UNCHANGED <<chld, nkill>>
      BY <2>1 DEF recv_once, counters
    <3> QED BY <1>0, <3>1 DEF TypeOK
  <2>2. CASE Killed(p)
    <3>1. chld' = TRUE /\ nkill' = nkill + 1
      BY <2>2 DEF Killed, Exits
    <3> QED BY <1>0, <3>1 DEF TypeOK
  <2> QED BY <2>1, <2>2
<1>4. wlog' \in [Pids -> Nat] /\ reopen' \in [Pids -> BOOLEAN]
  <2>1. CASE recv_once(p)
    <3>1. /\ wlog' = [wlog EXCEPT ![p] = IF reopen[p] THEN gen ELSE @]
          /\ reopen' = [reopen EXCEPT ![p] = FALSE]
      BY <2>1 DEF recv_once
    <3> QED BY <1>0, <3>1 DEF TypeOK
  <2>2. CASE Killed(p)
    <3>1. UNCHANGED <<wlog, reopen>>
      BY <2>2 DEF Killed
    <3> QED BY <1>0, <3>1 DEF TypeOK
  <2> QED BY <2>1, <2>2
<1>5. r \in Requests /\ req[r] = "busy" /\ r # 0
  BY <1>0, <1>1 DEF TypeOK, ServedOnce, Requests
<1>6. PICK v \in {"top", "killed"} : wpc' = [wpc EXCEPT ![p] = v]
  BY <1>2
<1>7. /\ \A q \in Pids : serving'[q] = IF q = p THEN 0 ELSE serving[q]
      /\ \A q \in Pids : wpc'[q] = IF q = p THEN v ELSE wpc[q]
      /\ \A o \in Requests : req'[o] = IF o = r THEN how ELSE req[o]
  BY <1>0, <1>1, <1>6 DEF TypeOK
<1>8. TypeOK'
  <2>1. wpc' \in [Pids -> WorkerPcs]
    BY <1>0, <1>6 DEF TypeOK, WorkerPcs, RunPcs, Zombies
  <2>2. /\ serving' \in [Pids -> Requests \union {0}]
        /\ req' \in [Requests -> {"unsent", "queued", "busy", "done", "aborted"}]
    BY <1>0, <1>1 DEF TypeOK
  <2> QED BY <1>0, <1>1, <1>3, <1>4, <2>1, <2>2 DEF TypeOK
<1>9. Unborn' /\ GiveUpCause'
  BY <1>0, <1>1, <1>7 DEF Unborn, GiveUpCause
<1>10. Tracked'
  BY <1>0, <1>1, <1>7 DEF Tracked, Running, RunPcs
<1>11. ServedOnce'
  <2>1. \A q \in Pids : serving'[q] # 0 <=> wpc'[q] = "busy"
    BY <1>0, <1>7 DEF ServedOnce
  <2>2. \A q, s \in Pids : serving'[q] # 0 /\ serving'[q] = serving'[s] => q = s
    BY <1>0, <1>7 DEF ServedOnce
  <2>3. \A o \in Requests : req'[o] = "busy" <=> \E q \in Pids : serving'[q] = o
    <3> SUFFICES ASSUME NEW o \in Requests
                 PROVE  req'[o] = "busy" <=> \E q \in Pids : serving'[q] = o
      OBVIOUS
    <3>1. o # 0
      BY DEF Requests
    <3>2. CASE o = r
      <4>1. \A q \in Pids : serving'[q] # o
        BY <1>0, <1>5, <1>7, <3>1, <3>2 DEF ServedOnce
      <4>2. req'[o] # "busy"
        BY <1>7, <3>2
      <4> QED BY <4>1, <4>2
    <3>3. CASE o # r
      BY <1>0, <1>7, <3>1, <3>3 DEF ServedOnce
    <3> QED BY <3>2, <3>3
  <2>4. Cardinality({o \in Requests : req'[o] = "aborted"}) = nkill'
    <3> DEFINE A == {o \in Requests : req[o] = "aborted"}
    <3>1. IsFiniteSet(A) /\ r \notin A /\ Cardinality(A) = nkill
      <4>1. IsFiniteSet(Requests)
        BY BoundAssumption, FS_Interval DEF Requests
      <4> QED BY <1>0, <1>5, <4>1, FS_Subset DEF ServedOnce
    <3>2. CASE recv_once(p)
      <4>1. {o \in Requests : req'[o] = "aborted"} = A
        BY <1>5, <1>7, <3>2
      <4>2. nkill' = nkill
        BY <3>2 DEF recv_once, counters
      <4> QED BY <3>1, <4>1, <4>2
    <3>3. CASE ~recv_once(p)
      <4>1. {o \in Requests : req'[o] = "aborted"} = A \union {r}
        BY <1>5, <1>7, <3>3
      <4>2. nkill' = nkill + 1
        BY <3>3 DEF Killed
      <4>3. Cardinality(A \union {r}) = Cardinality(A) + 1
        BY <3>1, FS_AddElement
      <4> QED BY <3>1, <4>1, <4>2, <4>3
    <3> QED BY <3>2, <3>3
  <2> QED BY <2>1, <2>2, <2>3, <2>4 DEF ServedOnce
<1> QED BY <1>8, <1>9, <1>10, <1>11 DEF HInv

\* Signals to the parent, clients, and the end of their process.
LEMMA OutsideStep ==
    ASSUME HInv,
           \/ SigChld \/ ClosePeer \/ UNCHANGED vars
           \/ \E c \in {"-", "+", "#"} : Signal(c)
           \/ \E r \in Requests : mkreq(r)
    PROVE  HInv'
<1>0. TypeOK /\ Unborn /\ Tracked /\ ServedOnce /\ GiveUpCause
  BY DEF HInv
<1>1. UNCHANGED <<parentVars, workerVars, npid, nkill, unborn>>
  BY DEF SigChld, ClosePeer, Signal, mkreq, vars, counters
<1>2. /\ pipe' \in Seq({".", "-", "+", "#"}) /\ Len(pipe') <= PIPE_CAP
      /\ chld' \in BOOLEAN /\ nsig' \in Nat
  <2>1. CASE SigChld \/ \E c \in {"-", "+", "#"} : Signal(c)
    <3>1. chld' \in BOOLEAN /\ nsig' \in Nat
      <4>1. CASE SigChld
        <5>1. chld' = FALSE /\ nsig' = nsig
          BY <4>1 DEF SigChld, counters
        <5> QED BY <1>0, <5>1 DEF TypeOK
      <4>2. CASE \E c \in {"-", "+", "#"} : Signal(c)
        <5>1. chld' = chld /\ nsig' = nsig + 1
          BY <4>2 DEF Signal
        <5> QED BY <1>0, <5>1 DEF TypeOK
      <4> QED BY <2>1, <4>1, <4>2
    <3>2. PICK c \in {".", "-", "+", "#"} : sigp(c)
      BY <2>1 DEF SigChld, Signal
    <3>3. pipe' \in Seq({".", "-", "+", "#"}) /\ Len(pipe') <= PIPE_CAP
      BY <1>0, <3>2, PipeAssumption DEF TypeOK, sigp
    <3> QED BY <3>1, <3>3
  <2>2. CASE ClosePeer \/ UNCHANGED vars \/ \E r \in Requests : mkreq(r)
    <3>1. UNCHANGED <<pipe, chld, nsig>>
      BY <2>2 DEF ClosePeer, mkreq, vars, counters
    <3> QED BY <1>0, <3>1 DEF TypeOK
  <2> QED BY <2>1, <2>2
<1>3. /\ peer' \in BOOLEAN /\ (~peer => ~peer')
      /\ req' \in [Requests -> {"unsent", "queued", "busy", "done", "aborted"}]
      /\ \A o \in Requests : req'[o] = req[o] \/ (req[o] = "unsent" /\ req'[o] = "queued")
  <2>1. CASE SigChld \/ UNCHANGED vars \/ \E c \in {"-", "+", "#"} : Signal(c)
    <3>1. UNCHANGED <<peer, req>>
      BY <2>1 DEF SigChld, Signal, vars
    <3> QED BY <1>0, <3>1 DEF TypeOK
  <2>2. CASE ClosePeer
    <3>1. peer' = FALSE /\ req' = req
      BY <2>2 DEF ClosePeer
    <3> QED BY <1>0, <3>1 DEF TypeOK
  <2>3. ASSUME NEW r \in Requests, mkreq(r)
        PROVE  /\ peer' \in BOOLEAN /\ (~peer => ~peer')
               /\ req' \in [Requests -> {"unsent", "queued", "busy", "done", "aborted"}]
               /\ \A o \in Requests : req'[o] = req[o] \/ (req[o] = "unsent" /\ req'[o] = "queued")
    <3>1. peer' = peer /\ req[r] = "unsent" /\ req' = [req EXCEPT ![r] = "queued"]
      BY <2>3 DEF mkreq
    <3> QED BY <1>0, <3>1 DEF TypeOK
  <2> QED BY <2>1, <2>2, <2>3
<1>4. TypeOK'
  BY <1>0, <1>1, <1>2, <1>3 DEF TypeOK, parentVars, workerVars
<1>5. Unborn' /\ Tracked' /\ GiveUpCause'
  BY <1>0, <1>1, <1>3 DEF Unborn, Tracked, Running, GiveUpCause, parentVars, workerVars
<1>6. ServedOnce'
  <2>1. UNCHANGED <<wpc, serving, nkill>>
    BY <1>1 DEF workerVars
  <2>2. {o \in Requests : req'[o] = "aborted"} = {o \in Requests : req[o] = "aborted"}
    BY <1>3
  <2>3. \A o \in Requests : req'[o] = "busy" <=> req[o] = "busy"
    BY <1>3
  <2> QED BY <1>0, <2>1, <2>2, <2>3 DEF ServedOnce
<1> QED BY <1>4, <1>5, <1>6 DEF HInv

-----------------------------------------------------------------------------
\* The inductive invariant holds in every reachable state.
THEOREM HelperInvariant == Spec => []HInv
<1>1. Init => HInv
  <2> SUFFICES ASSUME Init PROVE HInv
    OBVIOUS
  <2> USE WorkerMaxAssumption, NWorkerAssumption, BoundAssumption, PipeAssumption
  <2>1. TypeOK
    <3>1. /\ alive \in BOOLEAN /\ chld \in BOOLEAN /\ peer \in BOOLEAN /\ unborn \in BOOLEAN
          /\ termed \in SUBSET Pids /\ pc \in {"loop", "reap", "chars", "exited"}
      BY DEF Init
    <3>2. /\ nworker \in 1 .. WORKER_MAX /\ hwm \in nworker .. WORKER_MAX
          /\ alloc \in nworker .. WORKER_MAX /\ gen \in Nat
          /\ npid \in 0 .. MaxPid /\ nsig \in Nat /\ nkill \in Nat
      BY DEF Init
    <3>3. pids \in [Slots -> Pids \union {0}]
      BY DEF Init, Slots, Pids
    <3>4. /\ sbuf \in Seq({".", "-", "+", "#"}) /\ pipe \in Seq({".", "-", "+", "#"})
          /\ Len(pipe) <= PIPE_CAP
      BY DEF Init
    <3>5. wpc \in [Pids -> WorkerPcs]
      BY DEF Init, WorkerPcs, RunPcs
    <3>6. /\ sock \in [Pids -> {0, -1}] /\ sigs \in [Pids -> SUBSET {"TERM", "USR1"}]
          /\ reopen \in [Pids -> BOOLEAN] /\ serving \in [Pids -> Requests \union {0}]
          /\ wlog \in [Pids -> Nat]
          /\ req \in [Requests -> {"unsent", "queued", "busy", "done", "aborted"}]
      BY DEF Init
    <3> QED BY <3>1, <3>2, <3>3, <3>4, <3>5, <3>6 DEF TypeOK
  <2>2. Unborn /\ GiveUpCause
    BY DEF Init, Unborn, GiveUpCause, Pids
  <2>3. Tracked
    <3> SUFFICES ASSUME NEW p \in Pids, p <= NWorker
                 PROVE  \E nr \in Slots : nr < nworker /\ pids[nr] = p
      BY DEF Init, Tracked, Running, RunPcs, WaitPcs
    <3>1. p - 1 \in Slots /\ p - 1 < nworker /\ pids[p - 1] = p
      BY DEF Init, Slots, Pids
    <3> QED BY <3>1
  <2>4. ServedOnce
    <3>1. {r \in Requests : req[r] = "aborted"} = {}
      BY DEF Init
    <3>2. Cardinality({r \in Requests : req[r] = "aborted"}) = nkill
      BY <3>1, FS_EmptySet DEF Init
    <3> QED BY <3>2 DEF Init, ServedOnce, Requests
  <2> QED BY <2>1, <2>2, <2>3, <2>4 DEF HInv
<1>2. HInv /\ [Next]_vars => HInv'
  <2> SUFFICES ASSUME HInv, [Next]_vars PROVE HInv'
    OBVIOUS
  <2>1. CASE Parent
    BY <2>1, ParentStep, ReapStep, TtinStep DEF Parent
  <2>2. ASSUME NEW p \in Pids, Worker(p) \/ Killed(p) PROVE HInv'
    BY <2>2, IdleStep, RecvStep, EndStep DEF Worker
  <2>3. CASE \/ SigChld \/ ClosePeer \/ Quiet \/ UNCHANGED vars
             \/ \E c \in {"-", "+", "#"} : Signal(c)
             \/ \E r \in Requests : mkreq(r)
    BY <2>3, OutsideStep DEF Quiet
  <2> QED BY <2>1, <2>2, <2>3 DEF Next
<1> QED BY <1>1, <1>2, PTL DEF Spec

\* Every variable keeps its type: in particular nworker stays within
\* 1 .. WORKER_MAX and the self-pipe within its capacity.
THEOREM TypeCorrect == Spec => []TypeOK
BY HelperInvariant, PTL DEF HInv

\* Every running worker is one the parent can signal or has dismissed, however
\* SIGTTIN, SIGTTOU, crashes and failing forks follow each other.
THEOREM NoStrayWorkerHolds == Spec => []NoStrayWorker
<1>1. HInv => NoStrayWorker
  <2> SUFFICES ASSUME HInv, NEW p \in Running, p \notin termed PROVE p \in Known
    BY DEF NoStrayWorker
  <2>1. PICK nr \in Slots : nr < nworker /\ pids[nr] = p
    BY DEF HInv, Tracked
  <2>2. nr \in 0 .. hwm - 1 /\ p # 0
    BY <2>1, WorkerMaxAssumption DEF HInv, TypeOK, Slots, Running, Pids
  <2> QED BY <2>1, <2>2 DEF Known
<1> QED BY <1>1, HelperInvariant, PTL

\* No request is served twice, none is forgotten by its worker, and exactly the
\* killed workers cut a response short.
THEOREM ServedOnceHolds == Spec => []ServedOnce
BY HelperInvariant, PTL DEF HInv

\* The parent gives up only after the client closed the socket.
THEOREM GivesUpAfterCloseHolds == Spec => []GivesUpAfterClose
<1>1. HInv => GivesUpAfterClose
  BY DEF HInv, GiveUpCause, GivesUpAfterClose
<1> QED BY <1>1, HelperInvariant, PTL
=============================================================================
