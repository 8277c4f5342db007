------------------------------ MODULE XapDump ------------------------------
(***************************************************************************)
(* cmd_dump_roots and cmd_dump_ibx of xh_cidx.h: several workers running   *)
(* the same command write lines to one pipe to sort(1).                    *)
(*                                                                         *)
(* A line of dump_roots may exceed PIPE_BUF, so each worker buffers lines  *)
(* and holds flock(LOCK_EX) on the shared root2id file while write_all     *)
(* empties its buffer; a write may be short.  A line of dump_ibx is short: *)
(* stdio is line-buffered and writes it whole, without a lock, and nobody  *)
(* looks at its errors but a perror(3) when recv_once closes the stream.   *)
(*                                                                         *)
(* A request succeeds ("done") when it sends its mset.size and nr_out.     *)
(*                                                                         *)
(* A document whose read hits DatabaseModifiedError is tried again, after  *)
(* some of its lines may have been produced already.                       *)
(***************************************************************************)
EXTENDS Integers, Sequences, FiniteSets

CONSTANTS
    Workers,      \* requests running at the same time
    NDocs,        \* documents each of them finds
    NLines,       \* lines per document
    FlushEvery,   \* 0x4000: lines between two flushes
    Tries,        \* attempts per document (10)
    MaxModified,  \* bound: DatabaseModifiedErrors
    MaxKill       \* bound: workers killed

ASSUME SizeAssumption ==
    /\ IsFiniteSet(Workers)
    /\ NDocs \in Nat /\ NLines \in Nat \ {0}
    /\ FlushEvery \in Nat \ {0} /\ Tries \in Nat \ {0}
    /\ MaxModified \in Nat /\ MaxKill \in Nat

VARIABLES
    cmd,      \* the command the writers of this pipe run
    pc,       \* where each worker is
    doc,      \* the document it is at
    t,        \* attempts left for that document
    nr_out,   \* nr_out
    wbuf,     \* wbuf: half lines not written yet
    bad,      \* ferror(fp[0]): workers that lost a write of stdio
    holder,   \* workers holding the lock
    out,      \* half lines written to the pipe
    skipped,  \* history: documents given up
    nmod, nkill

vars == <<cmd, pc, doc, t, nr_out, wbuf, bad, holder, out, skipped, nmod, nkill>>

Docs == 1 .. NDocs
Half == [w : Workers, doc : Docs, line : 1 .. NLines, half : {1, 2}]

TypeOK ==
    /\ cmd \in {"dump_roots", "dump_ibx"} /\ bad \in SUBSET Workers
    /\ pc \in [Workers -> {"iter", "emit", "lock", "write", "done", "failed", "killed"}]
    /\ doc \in [Workers -> 1 .. NDocs + 1]
    /\ t \in [Workers -> 1 .. Tries]
    /\ nr_out \in [Workers -> Nat]
    /\ wbuf \in [Workers -> Seq(Half)] /\ out \in Seq(Half)
    /\ holder \in SUBSET Workers
    /\ skipped \in SUBSET (Workers \X Docs)
    /\ nmod \in 0 .. MaxModified /\ nkill \in 0 .. MaxKill

\* The loop over the documents, or emit_mset_stats after it.
Continue(d) == IF d <= NDocs THEN "iter" ELSE "done"

\* cmd_dump_roots and cmd_dump_ibx up to their loop; it may find no document.
Init ==
    /\ cmd \in {"dump_roots", "dump_ibx"} /\ bad = {}
    /\ pc = [w \in Workers |-> Continue(1)] /\ doc = [w \in Workers |-> 1]
    /\ t = [w \in Workers |-> Tries] /\ nr_out = [w \in Workers |-> 0]
    /\ wbuf = [w \in Workers |-> << >>] /\ holder = {} /\ out = << >>
    /\ skipped = {} /\ nmod = 0 /\ nkill = 0

-----------------------------------------------------------------------------
\* dump_roots_term or dump_ibx_term for the first n lines of the current
\* document.
Dump(w, n) ==
    /\ wbuf' = [wbuf EXCEPT ![w] = @ \o
                  [i \in 1 .. 2 * n |-> [w |-> w, doc |-> doc[w], line |-> (i + 1) \div 2,
                                         half |-> 2 - (i % 2)]]]
    /\ nr_out' = [nr_out EXCEPT ![w] = @ + n]

\* cmd_dump_ibx: stdio writes the lines of an attempt before the next one.
cmd_dump_ibx(w, d) == IF wbuf'[w] # << >> THEN "emit" ELSE Continue(d)

\* cmd_dump_roots, leaving a document: flush every so many lines and at the
\* end, unless the buffer is empty.
cmd_dump_roots(w, d) ==
    IF (nr_out'[w] % FlushEvery = 0 \/ d > NDocs) /\ wbuf'[w] # << >> THEN "lock"
    ELSE Continue(d)

Leave(w) ==
    /\ doc' = [doc EXCEPT ![w] = @ + 1]
    /\ t' = [t EXCEPT ![w] = Tries]
    /\ pc' = [pc EXCEPT ![w] = IF cmd = "dump_ibx" THEN cmd_dump_ibx(w, doc'[w])
                                                   ELSE cmd_dump_roots(w, doc'[w])]

\* Buffered lines are only written while iterating.
Bug_NoLastFlush(w) ==
    /\ doc' = [doc EXCEPT ![w] = @ + 1]
    /\ t' = [t EXCEPT ![w] = Tries]
    /\ pc' = [pc EXCEPT ![w] = IF doc[w] = NDocs THEN "done"
                               ELSE IF nr_out'[w] % FlushEvery = 0 /\ wbuf'[w] # << >> THEN "lock"
                               ELSE "iter"]

LeaveDoc(w) == Leave(w)

\* dump_roots_iter and dump_ibx_iter return ITER_OK, or DatabaseModifiedError makes them ITER_RETRY
\* after n lines; after the last attempt the document is left all the same.
IterOK(w) ==
    /\ pc[w] = "iter" /\ doc[w] \in Docs
    /\ Dump(w, NLines) /\ LeaveDoc(w)
    /\ UNCHANGED <<cmd, bad, holder, out, skipped, nmod, nkill>>

IterRetry(w) ==
    /\ pc[w] = "iter" /\ doc[w] \in Docs /\ nmod < MaxModified
    /\ nmod' = nmod + 1
    /\ \E n \in 0 .. NLines - 1 : Dump(w, n)
    /\ IF t[w] > 1
       THEN /\ t' = [t EXCEPT ![w] = @ - 1]
            /\ pc' = [pc EXCEPT ![w] = IF cmd = "dump_ibx" THEN cmd_dump_ibx(w, doc[w]) ELSE @]
            /\ UNCHANGED <<doc, skipped>>
       ELSE LeaveDoc(w) /\ skipped' = skipped \union {<<w, doc[w]>>}
    /\ UNCHANGED <<cmd, bad, holder, out, nkill>>

\* Any other exception, of reopen as well, reaches dispatch.
Throws(w) ==
    /\ pc[w] = "iter" /\ doc[w] \in Docs
    /\ pc' = [pc EXCEPT ![w] = "failed"]
    /\ UNCHANGED <<cmd, bad, doc, t, nr_out, wbuf, holder, out, skipped, nmod, nkill>>

\* DocNotFoundError in either iterator: a warning, and on to the next document.
DocNotFound(w) ==
    /\ pc[w] = "iter" /\ doc[w] \in Docs
    /\ Dump(w, 0) /\ LeaveDoc(w)
    /\ skipped' = skipped \union {<<w, doc[w]>>}
    /\ UNCHANGED <<cmd, bad, holder, out, nmod, nkill>>

\* dump_ibx_term's fprintf to the line-buffered fp[0]: one write(2) per line, not
\* longer than PIPE_BUF.  Its result is not looked at.
dump_ibx_term(w) ==
    /\ pc[w] = "emit"
    /\ wbuf' = [wbuf EXCEPT ![w] = SubSeq(@, 3, Len(@))]
    /\ pc' = [pc EXCEPT ![w] = cmd_dump_ibx(w, doc[w])]
    /\ out' = out \o SubSeq(wbuf[w], 1, 2)
    /\ UNCHANGED <<cmd, bad, doc, t, nr_out, holder, skipped, nmod, nkill>>

EmitFails(w) ==
    /\ pc[w] = "emit"
    /\ bad' = bad \union {w}
    /\ wbuf' = [wbuf EXCEPT ![w] = << >>]
    /\ pc' = [pc EXCEPT ![w] = Continue(doc[w])]
    /\ UNCHANGED <<cmd, doc, t, nr_out, holder, out, skipped, nmod, nkill>>

\* dump_roots_flush: flock, write_all, unlock.
Bug_NoLock(w) ==
    /\ pc[w] = "lock"
    /\ pc' = [pc EXCEPT ![w] = "write"]
    /\ UNCHANGED <<cmd, bad, doc, t, nr_out, wbuf, holder, out, skipped, nmod, nkill>>

LockEx(w) ==
    /\ pc[w] = "lock" /\ holder = {}
    /\ holder' = {w}
    /\ pc' = [pc EXCEPT ![w] = "write"]
    /\ UNCHANGED <<cmd, bad, doc, t, nr_out, wbuf, out, skipped, nmod, nkill>>

\* A write(2) of write_all takes the first n half lines.
write_all(w) ==
    /\ pc[w] = "write"
    /\ \E n \in 1 .. Len(wbuf[w]) :
         /\ out' = out \o SubSeq(wbuf[w], 1, n)
         /\ wbuf' = [wbuf EXCEPT ![w] = SubSeq(@, n + 1, Len(@))]
    /\ UNCHANGED <<cmd, bad, pc, doc, t, nr_out, holder, skipped, nmod, nkill>>

Written(w) ==
    /\ pc[w] = "write" /\ wbuf[w] = << >>
    /\ holder' = holder \ {w}
    /\ pc' = [pc EXCEPT ![w] = Continue(doc[w])]
    /\ UNCHANGED <<cmd, bad, doc, t, nr_out, wbuf, out, skipped, nmod, nkill>>

\* write(2) fails (EPIPE): the lock is released and the request fails.
Bug_KeepLock(w) ==
    /\ pc[w] = "write" /\ wbuf[w] # << >>
    /\ pc' = [pc EXCEPT ![w] = "failed"]
    /\ UNCHANGED <<cmd, bad, doc, t, nr_out, wbuf, holder, out, skipped, nmod, nkill>>

WriteFails(w) ==
    /\ pc[w] = "write" /\ wbuf[w] # << >>
    /\ holder' = holder \ {w}
    /\ pc' = [pc EXCEPT ![w] = "failed"]
    /\ UNCHANGED <<cmd, bad, doc, t, nr_out, wbuf, out, skipped, nmod, nkill>>

\* The kernel closes the descriptors, and with them the lock, of a dead worker.
Killed(w) ==
    /\ pc[w] \in {"iter", "emit", "lock", "write"} /\ nkill < MaxKill
    /\ nkill' = nkill + 1
    /\ holder' = holder \ {w}
    /\ pc' = [pc EXCEPT ![w] = "killed"]
    /\ UNCHANGED <<cmd, bad, doc, t, nr_out, wbuf, out, skipped, nmod>>

Quiet == (\A w \in Workers : pc[w] \in {"done", "failed", "killed"}) /\ UNCHANGED vars

Step(w) == \/ IterOK(w) \/ IterRetry(w) \/ DocNotFound(w) \/ LockEx(w) \/ write_all(w)
           \/ Written(w) \/ dump_ibx_term(w)

Next == Quiet \/ \E w \in Workers : Step(w) \/ EmitFails(w) \/ Throws(w) \/ WriteFails(w) \/ Killed(w)

\* Workers are scheduled, and flock(2) wakes its waiters in turn.
Fairness == \A w \in Workers : WF_vars(Step(w) \/ EmitFails(w) \/ Throws(w) \/ WriteFails(w)) /\ SF_vars(LockEx(w))

Spec == Init /\ [][Next]_vars /\ Fairness

-----------------------------------------------------------------------------
Gone(w) == pc[w] \in {"failed", "killed"}

\* The halves of a line are never separated by another worker's line: only the
\* line that is being written, or that its writer left unfinished, is cut.
LinesIntact ==
    \A i \in 1 .. Len(out) : out[i].half = 1 =>
        \/ i < Len(out) /\ out[i + 1] = [out[i] EXCEPT !.half = 2]
        \/ i = Len(out) /\ out[i].w \in holder
        \/ Gone(out[i].w)

\* Every line of every document the worker did not give up is in the pipe.  A
\* document is given up with a warning (DocNotFoundError), or without one after
\* the last of its Tries.
Complete(w) ==
    \A d \in Docs : <<w, d>> \in skipped \/
        \A l \in 1 .. NLines : \E i \in 1 .. Len(out) :
            out[i] = [w |-> w, doc |-> d, line |-> l, half |-> 2]

\* A dump_roots that reports success is complete, with short writes, failed ones,
\* retries and flushes at any place; so is a dump_ibx whose stdio lost no write.
DoneIsComplete == \A w \in Workers : pc[w] = "done" => Complete(w) \/ (cmd = "dump_ibx" /\ w \in bad)

\* The same without the exception.
SuccessIsComplete == \A w \in Workers : pc[w] = "done" => Complete(w)

\* Every request ends; a failed or killed worker leaves no lock behind.
AllEnd == \A w \in Workers : <>(pc[w] \in {"done", "failed", "killed"})
=============================================================================
