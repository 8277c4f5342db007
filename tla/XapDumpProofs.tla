--------------------------- MODULE XapDumpProofs ---------------------------
(***************************************************************************)
(* Proofs about XapDump for every number of workers, documents, lines and  *)
(* errors: lines are never interleaved, and success means all lines.       *)
(***************************************************************************)
EXTENDS XapDump, TLAPS

Pair(h) == [h EXCEPT !.half = 2]

\* Every first half in s is followed by its second half.
Chained(s) == \A i \in 1 .. Len(s) : s[i].half = 1 => i < Len(s) /\ s[i + 1] = Pair(s[i])

\* s holds whole lines: it also begins with a first half, and after a second
\* half comes a first half.
Whole(s) ==
    /\ Chained(s)
    /\ \A i \in 1 .. Len(s) : i = 1 => s[i].half = 1
    /\ \A i \in 1 .. Len(s) - 1 : s[i].half = 2 => s[i + 1].half = 1

\* The lock is held by the one worker that is writing.  dump_ibx takes no lock,
\* so that it is safe rests on its writers never running beside dump_roots.
LockInv ==
    /\ \A w \in Workers : w \in holder <=> pc[w] = "write"
    /\ \A v, w \in holder : v = w
    /\ \A w \in Workers : /\ pc[w] = "emit" => cmd = "dump_ibx" /\ wbuf[w] # << >>
                          /\ pc[w] \in {"lock", "write"} => cmd = "dump_roots"
                          /\ w \in bad => cmd = "dump_ibx"

\* A buffer holds its worker's lines: whole ones until its flush has begun.
BufInv ==
    \A w \in Workers :
        /\ \A i \in 1 .. Len(wbuf[w]) : wbuf[w][i].w = w
        /\ Chained(wbuf[w])
        /\ pc[w] \in {"iter", "emit", "lock"} => Whole(wbuf[w])

\* The pipe: only the last half line may be waiting for its second half, which
\* is then the first thing in the buffer of the worker with the lock.
Waits(h) == /\ h.w \in holder /\ wbuf[h.w] # << >> /\ wbuf[h.w][1] = Pair(h)

OutInv ==
    \A i \in 1 .. Len(out) : out[i].half = 1 =>
        \/ i < Len(out) /\ out[i + 1] = Pair(out[i])
        \/ i = Len(out) /\ Waits(out[i])
        \/ Gone(out[i].w)

In(h, s) == \E i \in 1 .. Len(s) : s[i] = h

Last(w, d, l) == [w |-> w, doc |-> d, line |-> l, half |-> 2]

\* Every line of a document left behind without a warning is written or
\* buffered, unless the worker has failed or lost a write.
KeptLines ==
    \A w \in Workers, d \in Docs :
        ~Gone(w) /\ w \notin bad /\ d < doc[w] =>
            \/ <<w, d>> \in skipped
            \/ \A l \in 1 .. NLines : In(Last(w, d, l), out) \/ In(Last(w, d, l), wbuf[w])

DoneInv ==
    \A w \in Workers : pc[w] = "done" => wbuf[w] = << >> /\ doc[w] = NDocs + 1

DInv == TypeOK /\ LockInv /\ BufInv /\ OutInv /\ KeptLines /\ DoneInv

-----------------------------------------------------------------------------
\* The lines of a document: Dump appends the first n of them.
DumpLines(w, d, n) ==
    [i \in 1 .. 2 * n |-> [w |-> w, doc |-> d, line |-> (i + 1) \div 2, half |-> 2 - (i % 2)]]

\* They are whole lines of that document.
LEMMA DumpLinesWhole ==
    ASSUME NEW w \in Workers, NEW d \in Docs, NEW n \in 0 .. NLines
    PROVE  /\ DumpLines(w, d, n) \in Seq(Half) /\ Len(DumpLines(w, d, n)) = 2 * n
           /\ Whole(DumpLines(w, d, n))
           /\ \A i \in 1 .. 2 * n : DumpLines(w, d, n)[i].w = w
           /\ \A l \in 1 .. n : In(Last(w, d, l), DumpLines(w, d, n))
<1> USE SizeAssumption
<1> DEFINE s == DumpLines(w, d, n)
           ln(i) == (i + 1) \div 2
           hf(i) == 2 - (i % 2)
<1>0. n \in Nat /\ 2 * n \in Nat
  OBVIOUS
<1>1. \A i \in 1 .. 2 * n : s[i] = [w |-> w, doc |-> d, line |-> ln(i), half |-> hf(i)]
  BY DEF DumpLines
<1>2. ASSUME NEW i \in 1 .. 2 * n
      PROVE  /\ ln(i) \in 1 .. NLines /\ hf(i) \in {1, 2}
             /\ hf(i) = 1 => i < 2 * n /\ ln(i + 1) = ln(i) /\ hf(i + 1) = 2
             /\ hf(i) = 2 => hf(i + 1) = 1
             /\ i = 1 => hf(i) = 1
  BY <1>0
<1>3. \A l \in 1 .. n : 2 * l \in 1 .. 2 * n /\ ln(2 * l) = l /\ hf(2 * l) = 2
  BY <1>0
<1>4. s = [i \in 1 .. 2 * n |-> s[i]]
  BY DEF DumpLines
<1> HIDE DEF s, ln, hf
<1>5. \A i \in 1 .. 2 * n : s[i] \in Half /\ s[i].w = w /\ s[i].half = hf(i)
  <2> SUFFICES ASSUME NEW i \in 1 .. 2 * n
               PROVE  s[i] \in Half /\ s[i].w = w /\ s[i].half = hf(i)
    OBVIOUS
  <2>1. s[i] = [w |-> w, doc |-> d, line |-> ln(i), half |-> hf(i)]
    BY <1>1
  <2>2. ln(i) \in 1 .. NLines /\ hf(i) \in {1, 2}
    BY <1>2
  <2> QED BY <2>1, <2>2 DEF Half
<1>6. s \in Seq(Half) /\ Len(s) = 2 * n
  <2>1. s \in [1 .. 2 * n -> Half]
    BY <1>4, <1>5
  <2> QED BY <1>0, <2>1
<1>7. Whole(s)
  <2>1. ASSUME NEW i \in 1 .. 2 * n, s[i].half = 1 PROVE i < 2 * n /\ s[i + 1] = Pair(s[i])
    <3>1. i < 2 * n /\ i + 1 \in 1 .. 2 * n /\ ln(i + 1) = ln(i) /\ hf(i + 1) = 2
      <4>1. hf(i) = 1
        BY <1>5, <2>1
      <4>2. i < 2 * n /\ ln(i + 1) = ln(i) /\ hf(i + 1) = 2
        BY <1>2, <4>1
      <4> QED BY <1>0, <4>2
    <3>2. s[i + 1] = [w |-> w, doc |-> d, line |-> ln(i), half |-> 2]
      BY <1>1, <3>1
    <3>3. s[i] = [w |-> w, doc |-> d, line |-> ln(i), half |-> hf(i)]
      BY <1>1
    <3> QED BY <3>1, <3>2, <3>3 DEF Pair
  <2>2. ASSUME NEW i \in 1 .. 2 * n, i = 1 PROVE s[i].half = 1
    BY <1>2, <1>5, <2>2
  <2>3. ASSUME NEW i \in 1 .. 2 * n - 1, s[i].half = 2 PROVE s[i + 1].half = 1
    <3>1. i \in 1 .. 2 * n /\ i + 1 \in 1 .. 2 * n
      BY <1>0
    <3> QED BY <1>2, <1>5, <2>3, <3>1
  <2> QED BY <1>6, <2>1, <2>2, <2>3 DEF Whole, Chained
<1>8. ASSUME NEW l \in 1 .. n PROVE In(Last(w, d, l), s)
  <2>1. s[2 * l] = Last(w, d, l) /\ 2 * l \in 1 .. Len(s)
    BY <1>1, <1>3, <1>6 DEF Last
  <2> QED BY <2>1 DEF In
<1> QED BY <1>5, <1>6, <1>7, <1>8 DEF s

\* What the concatenation of two sequences holds.
LEMMA ConcatAt ==
    ASSUME NEW s \in Seq(Half), NEW u \in Seq(Half)
    PROVE  /\ s \o u \in Seq(Half) /\ Len(s \o u) = Len(s) + Len(u)
           /\ \A i \in 1 .. Len(s) : (s \o u)[i] = s[i]
           /\ \A i \in 1 .. Len(u) : (s \o u)[Len(s) + i] = u[i]
           /\ \A i \in 1 .. Len(s) + Len(u) : i \in 1 .. Len(s) \/ i - Len(s) \in 1 .. Len(u)
OBVIOUS

\* What is in one of two sequences is in both together.
LEMMA ConcatIn ==
    ASSUME NEW s \in Seq(Half), NEW u \in Seq(Half), NEW h
    PROVE  In(h, s \o u) <=> In(h, s) \/ In(h, u)
<1>1. ASSUME In(h, s) PROVE In(h, s \o u)
  BY <1>1, ConcatAt DEF In
<1>2. ASSUME In(h, u) PROVE In(h, s \o u)
  <2>1. PICK i \in 1 .. Len(u) : u[i] = h
    BY <1>2 DEF In
  <2>2. Len(s) + i \in 1 .. Len(s \o u) /\ (s \o u)[Len(s) + i] = h
    BY <2>1
  <2> QED BY <2>2 DEF In
<1>3. ASSUME In(h, s \o u) PROVE In(h, s) \/ In(h, u)
  <2>1. PICK i \in 1 .. Len(s) + Len(u) : (s \o u)[i] = h
    BY <1>3, ConcatAt DEF In
  <2>2. CASE i \in 1 .. Len(s)
    BY <2>1, <2>2 DEF In
  <2>3. CASE i - Len(s) \in 1 .. Len(u)
    <3>1. u[i - Len(s)] = h
      BY <2>1, <2>3
    <3> QED BY <2>3, <3>1 DEF In
  <2> QED BY <2>1, <2>2, <2>3, ConcatAt
<1> QED BY <1>1, <1>2, <1>3

\* Whole lines after whole lines are whole lines.
LEMMA WholeConcat ==
    ASSUME NEW s \in Seq(Half), NEW u \in Seq(Half), Whole(s), Whole(u)
    PROVE  Whole(s \o u)
<1> DEFINE v == s \o u
<1>1. /\ v \in Seq(Half) /\ Len(v) = Len(s) + Len(u) /\ Len(s) \in Nat /\ Len(u) \in Nat
      /\ \A i \in 1 .. Len(s) : v[i] = s[i]
      /\ \A i \in 1 .. Len(u) : v[Len(s) + i] = u[i]
      /\ \A i \in 1 .. Len(s) + Len(u) : i \in 1 .. Len(s) \/ i - Len(s) \in 1 .. Len(u)
  BY ConcatAt
<1>2. \A i \in 1 .. Len(u) : v[i + Len(s)] = u[i]
  BY <1>1
<1>3. \A i \in 1 .. Len(v) : i \notin 1 .. Len(s) => v[i] = u[i - Len(s)] /\ i - Len(s) \in 1 .. Len(u)
  BY <1>1
<1> HIDE DEF v
<1>4. Chained(v)
  <2> SUFFICES ASSUME NEW i \in 1 .. Len(v), v[i].half = 1
               PROVE  i < Len(v) /\ v[i + 1] = Pair(v[i])
    BY DEF Chained
  <2>1. CASE i \in 1 .. Len(s)
    <3>1. i < Len(s) /\ s[i + 1] = Pair(s[i])
      BY <1>1, <2>1 DEF Whole, Chained
    <3> QED BY <1>1, <2>1, <3>1
  <2>2. CASE i \notin 1 .. Len(s)
    <3> DEFINE j == i - Len(s)
    <3>1. j \in 1 .. Len(u) /\ v[i] = u[j]
      BY <1>3, <2>2
    <3>2. j < Len(u) /\ u[j + 1] = Pair(u[j])
      BY <3>1 DEF Whole, Chained
    <3>3. v[i + 1] = u[j + 1] /\ i < Len(v)
      BY <1>1, <1>3, <3>1, <3>2
    <3> QED BY <3>1, <3>2, <3>3
  <2> QED BY <2>1, <2>2
<1>5. \A i \in 1 .. Len(v) : i = 1 => v[i].half = 1
  <2> SUFFICES ASSUME 1 \in 1 .. Len(v) PROVE v[1].half = 1
    OBVIOUS
  <2>1. CASE Len(s) = 0
    BY <1>1, <1>2, <2>1 DEF Whole
  <2>2. CASE Len(s) > 0
    BY <1>1, <2>2 DEF Whole
  <2> QED BY <1>1, <2>1, <2>2
<1>6. ASSUME NEW i \in 1 .. Len(v) - 1, v[i].half = 2 PROVE v[i + 1].half = 1
  <2>1. CASE i < Len(s)
    <3>1. i \in 1 .. Len(s) - 1 /\ i \in 1 .. Len(s) /\ i + 1 \in 1 .. Len(s)
      BY <1>1, <2>1
    <3> QED BY <1>1, <1>6, <3>1 DEF Whole
  <2>2. CASE i = Len(s)
    <3>1. 1 \in 1 .. Len(u)
      BY <1>1, <2>2
    <3>2. v[i + 1] = u[1] /\ u[1].half = 1
      BY <1>1, <2>2, <3>1 DEF Whole
    <3> QED BY <3>2
  <2>3. CASE i > Len(s)
    <3> DEFINE j == i - Len(s)
    <3>1. j \in 1 .. Len(u) - 1 /\ v[i] = u[j] /\ v[i + 1] = u[j + 1]
      BY <1>1, <1>3, <2>3
    <3> QED BY <1>6, <3>1 DEF Whole
  <2> QED BY <1>1, <2>1, <2>2, <2>3
<1> QED BY <1>4, <1>5, <1>6 DEF Whole, v

\* What is left of a buffer once n half lines are written, and what is written.
LEMMA SplitAt ==
    ASSUME NEW s \in Seq(Half), NEW n \in 0 .. Len(s)
    PROVE  LET a == SubSeq(s, 1, n)
               b == SubSeq(s, n + 1, Len(s))
           IN  /\ a \in Seq(Half) /\ Len(a) = n /\ \A i \in 1 .. n : a[i] = s[i]
               /\ b \in Seq(Half) /\ Len(b) = Len(s) - n
               /\ \A i \in 1 .. Len(s) - n : b[i] = s[n + i]
               /\ \A h : In(h, s) => In(h, a) \/ In(h, b)
<1> DEFINE a == SubSeq(s, 1, n)
           b == SubSeq(s, n + 1, Len(s))
<1>1. /\ a \in Seq(Half) /\ Len(a) = n /\ \A i \in 1 .. n : a[i] = s[i]
  OBVIOUS
<1>2. /\ b \in Seq(Half) /\ Len(b) = Len(s) - n /\ \A i \in 1 .. Len(s) - n : b[i] = s[n + i]
  OBVIOUS
<1> HIDE DEF a, b
<1>3. ASSUME NEW h, In(h, s) PROVE In(h, a) \/ In(h, b)
  <2>1. PICK i \in 1 .. Len(s) : s[i] = h
    BY <1>3 DEF In
  <2>2. CASE i <= n
    BY <1>1, <2>1, <2>2 DEF In
  <2>3. CASE i > n
    <3>1. i - n \in 1 .. Len(s) - n /\ n + (i - n) = i
      BY <2>3
    <3>2. b[i - n] = h
      BY <1>2, <2>1, <3>1
    <3> QED BY <1>2, <3>1, <3>2 DEF In
  <2> QED BY <2>2, <2>3
<1> QED BY <1>1, <1>2, <1>3 DEF a, b

\* What a short write leaves of a buffer.
LEMMA ChainedRest ==
    ASSUME NEW s \in Seq(Half), Chained(s), NEW n \in 0 .. Len(s)
    PROVE  Chained(SubSeq(s, n + 1, Len(s)))
<1> DEFINE b == SubSeq(s, n + 1, Len(s))
<1>1. Len(b) = Len(s) - n /\ \A i \in 1 .. Len(s) - n : b[i] = s[n + i]
  BY SplitAt
<1> HIDE DEF b
<1>2. ASSUME NEW i \in 1 .. Len(b), b[i].half = 1 PROVE i < Len(b) /\ b[i + 1] = Pair(b[i])
  <2>1. n + i \in 1 .. Len(s) /\ s[n + i].half = 1 /\ b[i] = s[n + i]
    BY <1>1, <1>2
  <2>2. n + i < Len(s) /\ s[(n + i) + 1] = Pair(s[n + i])
    BY <2>1 DEF Chained
  <2>3. i + 1 \in 1 .. Len(s) - n /\ n + (i + 1) = (n + i) + 1
    BY <1>1, <2>2
  <2>4. b[i + 1] = s[(n + i) + 1]
    BY <1>1, <2>3
  <2> QED BY <1>1, <2>1, <2>2, <2>3, <2>4
<1> QED BY <1>2 DEF Chained, b

\* Taking a line off whole lines leaves whole lines.
LEMMA WholeRest ==
    ASSUME NEW s \in Seq(Half), Whole(s), s # << >>
    PROVE  /\ 2 \in 1 .. Len(s) /\ s[1].half = 1 /\ s[2] = Pair(s[1]) /\ s[2].half = 2
           /\ Whole(SubSeq(s, 3, Len(s)))
<1> DEFINE b == SubSeq(s, 3, Len(s))
<1>1. 1 \in 1 .. Len(s)
  OBVIOUS
<1>2. s[1].half = 1 /\ 1 < Len(s) /\ s[2] = Pair(s[1])
  BY <1>1 DEF Whole, Chained
<1>3. 2 \in 0 .. Len(s) /\ 2 \in 1 .. Len(s)
  BY <1>2
<1>4. s[2].half = 2
  <2>1. s[1] \in Half
    BY <1>1
  <2> QED BY <1>2, <2>1 DEF Pair, Half
<1>5. Chained(b) /\ Len(b) = Len(s) - 2 /\ \A i \in 1 .. Len(s) - 2 : b[i] = s[2 + i]
  <2>1. SubSeq(s, 2 + 1, Len(s)) = b
    OBVIOUS
  <2>2. Chained(SubSeq(s, 2 + 1, Len(s)))
    BY <1>3, ChainedRest DEF Whole
  <2>3. Len(SubSeq(s, 2 + 1, Len(s))) = Len(s) - 2 /\ \A i \in 1 .. Len(s) - 2 : SubSeq(s, 2 + 1, Len(s))[i] = s[2 + i]
    BY <1>3, SplitAt
  <2> QED BY <2>1, <2>2, <2>3
<1> HIDE DEF b
<1>6. \A i \in 1 .. Len(b) : i = 1 => b[i].half = 1
  <2> SUFFICES ASSUME 1 \in 1 .. Len(b) PROVE b[1].half = 1
    OBVIOUS
  <2>1. b[1] = s[3] /\ 2 \in 1 .. Len(s) - 1
    BY <1>5
  <2> QED BY <1>4, <2>1 DEF Whole
<1>7. ASSUME NEW i \in 1 .. Len(b) - 1, b[i].half = 2 PROVE b[i + 1].half = 1
  <2>1. b[i] = s[2 + i] /\ b[i + 1] = s[(2 + i) + 1] /\ 2 + i \in 1 .. Len(s) - 1
    BY <1>5
  <2> QED BY <1>7, <2>1 DEF Whole
<1> QED BY <1>2, <1>3, <1>4, <1>5, <1>6, <1>7 DEF Whole, b

-----------------------------------------------------------------------------
\* What one attempt at a document does, whichever way it ends: some lines go
\* into the buffer, and a document is left with all of them or with a warning.
LEMMA IterEffect ==
    ASSUME TypeOK, NEW w \in Workers, IterOK(w) \/ IterRetry(w) \/ DocNotFound(w)
    PROVE  /\ pc[w] = "iter" /\ doc[w] \in Docs
           /\ UNCHANGED <<cmd, bad, holder, out, nkill>> /\ nmod' \in 0 .. MaxModified
           /\ t' \in [Workers -> 1 .. Tries] /\ skipped \subseteq skipped'
           /\ \E n \in 0 .. NLines :
                 /\ Dump(w, n)
                 /\ \/ UNCHANGED <<doc, skipped>>
                    \/ /\ doc' = [doc EXCEPT ![w] = @ + 1]
                       /\ \/ n = NLines /\ skipped' = skipped
                          \/ skipped' = skipped \union {<<w, doc[w]>>}
           /\ pc' # pc => pc' = [pc EXCEPT ![w] = IF cmd = "dump_ibx" THEN cmd_dump_ibx(w, doc'[w])
                                                  ELSE cmd_dump_roots(w, doc'[w])]
<1> USE SizeAssumption
<1>1. CASE IterOK(w)
  <2>1. t' = [t EXCEPT ![w] = Tries] /\ Dump(w, NLines) /\ UNCHANGED <<skipped, nmod>>
    BY <1>1 DEF IterOK, LeaveDoc, Leave
  <2>2. t' \in [Workers -> 1 .. Tries] /\ nmod' \in 0 .. MaxModified
    BY <2>1 DEF TypeOK
  <2>3. /\ doc' = [doc EXCEPT ![w] = @ + 1]
        /\ pc' = [pc EXCEPT ![w] = IF cmd = "dump_ibx" THEN cmd_dump_ibx(w, doc'[w])
                                   ELSE cmd_dump_roots(w, doc'[w])]
    BY <1>1 DEF IterOK, LeaveDoc, Leave
  <2>4. NLines \in 0 .. NLines
    OBVIOUS
  <2>5. /\ pc[w] = "iter" /\ doc[w] \in Docs /\ UNCHANGED <<cmd, bad, holder, out, nkill>>
    BY <1>1 DEF IterOK
  <2> QED BY <2>1, <2>2, <2>3, <2>4, <2>5
<1>2. CASE DocNotFound(w)
  <2>1. t' = [t EXCEPT ![w] = Tries] /\ Dump(w, 0) /\ UNCHANGED nmod
    BY <1>2 DEF DocNotFound, LeaveDoc, Leave
  <2>2. t' \in [Workers -> 1 .. Tries] /\ nmod' \in 0 .. MaxModified
    BY <2>1 DEF TypeOK
  <2>3. /\ doc' = [doc EXCEPT ![w] = @ + 1] /\ skipped' = skipped \union {<<w, doc[w]>>}
        /\ pc' = [pc EXCEPT ![w] = IF cmd = "dump_ibx" THEN cmd_dump_ibx(w, doc'[w])
                                   ELSE cmd_dump_roots(w, doc'[w])]
    BY <1>2 DEF DocNotFound, LeaveDoc, Leave
  <2>4. 0 \in 0 .. NLines
    OBVIOUS
  <2>5. /\ pc[w] = "iter" /\ doc[w] \in Docs /\ UNCHANGED <<cmd, bad, holder, out, nkill>>
    BY <1>2 DEF DocNotFound
  <2> QED BY <2>1, <2>2, <2>3, <2>4, <2>5
<1>3. CASE IterRetry(w)
  <2>1. nmod' \in 0 .. MaxModified
    BY <1>3 DEF IterRetry, TypeOK
  <2>2. PICK n \in 0 .. NLines - 1 : Dump(w, n)
    BY <1>3 DEF IterRetry
  <2>3. n \in 0 .. NLines
    OBVIOUS
  <2>4. CASE t[w] > 1
    <3>1. /\ t' = [t EXCEPT ![w] = @ - 1] /\ UNCHANGED <<doc, skipped>>
          /\ pc' = [pc EXCEPT ![w] = IF cmd = "dump_ibx" THEN cmd_dump_ibx(w, doc[w]) ELSE @]
      BY <1>3, <2>4 DEF IterRetry
    <3>2. t' \in [Workers -> 1 .. Tries]
      BY <2>4, <3>1 DEF TypeOK
    <3>3. cmd # "dump_ibx" => pc' = pc
      BY <3>1 DEF TypeOK
    <3> QED BY <1>3, <2>1, <2>2, <2>3, <3>1, <3>2, <3>3 DEF IterRetry
  <2>5. CASE ~(t[w] > 1)
    <3>1. Leave(w) /\ skipped' = skipped \union {<<w, doc[w]>>}
      BY <1>3, <2>5 DEF IterRetry, LeaveDoc
    <3>2. t' \in [Workers -> 1 .. Tries]
      BY <3>1 DEF TypeOK, Leave
    <3> QED BY <1>3, <2>1, <2>2, <2>3, <3>1, <3>2 DEF IterRetry, Leave
  <2> QED BY <2>4, <2>5
<1> QED BY <1>1, <1>2, <1>3

\* A document is dumped, retried or skipped.
LEMMA IterStep ==
    ASSUME DInv, NEW w \in Workers, IterOK(w) \/ IterRetry(w) \/ DocNotFound(w)
    PROVE  DInv'
<1> USE SizeAssumption
<1>0. TypeOK /\ LockInv /\ BufInv /\ OutInv /\ KeptLines /\ DoneInv
  BY DEF DInv
<1>1. /\ pc[w] = "iter" /\ doc[w] \in Docs /\ w \notin holder
      /\ UNCHANGED <<cmd, bad, holder, out, nkill>> /\ nmod' \in 0 .. MaxModified
      /\ t' \in [Workers -> 1 .. Tries] /\ skipped \subseteq skipped'
  BY <1>0, IterEffect DEF LockInv
<1>2. PICK n \in 0 .. NLines :
        /\ Dump(w, n)
        /\ \/ UNCHANGED <<doc, skipped>>
           \/ /\ doc' = [doc EXCEPT ![w] = @ + 1]
              /\ \/ n = NLines /\ skipped' = skipped
                 \/ skipped' = skipped \union {<<w, doc[w]>>}
  BY <1>0, IterEffect
<1> DEFINE u == DumpLines(w, doc[w], n)
           b == wbuf[w] \o u
<1>3. /\ u \in Seq(Half) /\ Len(u) = 2 * n /\ Whole(u)
      /\ \A i \in 1 .. Len(u) : u[i].w = w
      /\ \A l \in 1 .. n : In(Last(w, doc[w], l), u)
  BY <1>1, DumpLinesWhole
<1>4. wbuf[w] \in Seq(Half) /\ Whole(wbuf[w]) /\ \A i \in 1 .. Len(wbuf[w]) : wbuf[w][i].w = w
  BY <1>0, <1>1 DEF TypeOK, BufInv
<1>5. wbuf' = [wbuf EXCEPT ![w] = b] /\ nr_out' \in [Workers -> Nat]
  BY <1>0, <1>2 DEF Dump, DumpLines, TypeOK
<1>d. /\ doc' \in [Workers -> 1 .. NDocs + 1] /\ \A v \in Workers \ {w} : doc'[v] = doc[v]
      /\ doc'[w] = doc[w] \/ doc'[w] = doc[w] + 1
  BY <1>0, <1>1, <1>2 DEF TypeOK, Docs
<1>s. skipped' \in SUBSET (Workers \X Docs)
  BY <1>0, <1>1, <1>2 DEF TypeOK
<1> HIDE DEF u
<1>6. /\ b \in Seq(Half) /\ Whole(b) /\ \A h : In(h, b) <=> In(h, wbuf[w]) \/ In(h, u)
  BY <1>3, <1>4, WholeConcat, ConcatAt, ConcatIn
<1>7. \A i \in 1 .. Len(b) : b[i].w = w
  <2> SUFFICES ASSUME NEW i \in 1 .. Len(b) PROVE b[i].w = w
    OBVIOUS
  <2>1. CASE i \in 1 .. Len(wbuf[w])
    BY <1>3, <1>4, <2>1, ConcatAt
  <2>2. CASE i \notin 1 .. Len(wbuf[w])
    <3>1. i - Len(wbuf[w]) \in 1 .. Len(u) /\ b[i] = u[i - Len(wbuf[w])]
      BY <1>3, <1>4, <2>2
    <3> QED BY <1>3, <3>1
  <2> QED BY <2>1, <2>2
<1> HIDE DEF b
<1>8. /\ wbuf' \in [Workers -> Seq(Half)] /\ wbuf'[w] = b
      /\ \A v \in Workers \ {w} : wbuf'[v] = wbuf[v]
  BY <1>0, <1>5, <1>6 DEF TypeOK
<1>9. /\ pc' \in [Workers -> {"iter", "emit", "lock", "write", "done", "failed", "killed"}]
      /\ \A v \in Workers \ {w} : pc'[v] = pc[v]
      /\ pc'[w] \in {"iter", "emit", "lock", "done", "failed"}
      /\ pc'[w] = "emit" => cmd = "dump_ibx" /\ b # << >>
      /\ pc'[w] = "lock" => cmd = "dump_roots"
      /\ pc'[w] = "done" => b = << >> /\ doc'[w] = NDocs + 1
  <2>0. pc \in [Workers -> {"iter", "emit", "lock", "write", "done", "failed", "killed"}]
    BY <1>0 DEF TypeOK
  <2>1. CASE pc' = pc
    BY <1>1, <2>0, <2>1
  <2>2. CASE cmd = "dump_ibx" /\ pc' = [pc EXCEPT ![w] = cmd_dump_ibx(w, doc'[w])]
    BY <1>1, <1>8, <1>d, <2>0, <2>2 DEF cmd_dump_ibx, Continue
  <2>3. CASE cmd # "dump_ibx" /\ pc' = [pc EXCEPT ![w] = cmd_dump_roots(w, doc'[w])]
    <3>1. cmd = "dump_roots"
      BY <1>0, <2>3 DEF TypeOK
    <3>2. \/ pc'[w] = "lock"
          \/ pc'[w] = Continue(doc'[w]) /\ (doc'[w] > NDocs => b = << >>)
      BY <1>8, <2>0, <2>3 DEF cmd_dump_roots
    <3> QED BY <1>1, <1>d, <2>0, <2>3, <3>1, <3>2 DEF Continue
  <2> QED BY <1>0, <2>1, <2>2, <2>3, IterEffect
<1>10. TypeOK'
  BY <1>0, <1>1, <1>5, <1>8, <1>9, <1>d, <1>s DEF TypeOK
<1>11. LockInv'
  BY <1>0, <1>1, <1>8, <1>9 DEF LockInv
<1>12. BufInv'
  <2> SUFFICES ASSUME NEW v \in Workers
               PROVE  /\ \A i \in 1 .. Len(wbuf'[v]) : wbuf'[v][i].w = v
                      /\ Chained(wbuf'[v])
                      /\ pc'[v] \in {"iter", "emit", "lock"} => Whole(wbuf'[v])
    BY DEF BufInv
  <2>1. CASE v = w
    BY <1>6, <1>7, <1>8, <2>1 DEF Whole
  <2>2. CASE v # w
    BY <1>0, <1>8, <1>9, <2>2 DEF BufInv
  <2> QED BY <2>1, <2>2
<1>13. OutInv'
  <2> SUFFICES ASSUME NEW i \in 1 .. Len(out), out[i].half = 1
               PROVE  \/ i < Len(out) /\ out[i + 1] = Pair(out[i])
                      \/ i = Len(out) /\ Waits(out[i])'
                      \/ Gone(out[i].w)'
    BY <1>1 DEF OutInv
  <2>1. out[i].w \in Workers
    <3>1. out[i] \in Half
      BY <1>0 DEF TypeOK
    <3> QED BY <3>1 DEF Half
  <2>2. CASE Waits(out[i])
    BY <1>0, <1>1, <1>8, <2>1, <2>2 DEF OutInv, Waits, Gone, LockInv
  <2>3. CASE Gone(out[i].w)
    <3>1. out[i].w # w
      BY <1>1, <2>3 DEF Gone
    <3>2. pc'[out[i].w] = pc[out[i].w]
      BY <1>9, <2>1, <3>1
    <3>3. Gone(out[i].w)'
      BY <1>1, <2>3, <3>2 DEF Gone
    <3> QED BY <3>3
  <2> QED BY <1>0, <2>2, <2>3 DEF OutInv
<1>14. KeptLines'
  <2> SUFFICES ASSUME NEW v \in Workers, NEW d \in Docs, ~Gone(v)', v \notin bad, d < doc'[v],
                      <<v, d>> \notin skipped', NEW l \in 1 .. NLines
               PROVE  In(Last(v, d, l), out) \/ In(Last(v, d, l), wbuf'[v])
    BY <1>1 DEF KeptLines
  <2>1. CASE v # w
    <3>1. ~Gone(v) /\ d < doc[v] /\ <<v, d>> \notin skipped
      BY <1>1, <1>9, <1>d, <2>1 DEF Gone
    <3> QED BY <1>0, <1>8, <2>1, <3>1 DEF KeptLines
  <2>2. CASE v = w /\ d < doc[w]
    <3>1. ~Gone(w) /\ <<w, d>> \notin skipped
      BY <1>1, <2>2 DEF Gone
    <3>2. In(Last(w, d, l), out) \/ In(Last(w, d, l), wbuf[w])
      BY <1>0, <2>2, <3>1 DEF KeptLines
    <3> QED BY <1>6, <1>8, <2>2, <3>2
  <2>3. CASE v = w /\ ~(d < doc[w])
    <3>1. d = doc[w] /\ doc'[w] = doc[w] + 1
      BY <1>0, <1>1, <1>d, <2>3 DEF Docs, TypeOK
    <3>2. n = NLines
      BY <1>0, <1>1, <1>2, <2>3, <3>1 DEF Docs
    <3> QED BY <1>3, <1>6, <1>8, <2>3, <3>1, <3>2
  <2> QED BY <2>1, <2>2, <2>3
<1>15. DoneInv'
  BY <1>0, <1>1, <1>8, <1>9, <1>d DEF DoneInv
<1> QED BY <1>10, <1>11, <1>12, <1>13, <1>14, <1>15 DEF DInv

\* The first n half lines of a buffer move to the pipe: nothing is lost.
LEMMA MoveKeeps ==
    ASSUME TypeOK, KeptLines, NEW w \in Workers, NEW n \in 0 .. Len(wbuf[w]),
           out' = out \o SubSeq(wbuf[w], 1, n),
           wbuf' = [wbuf EXCEPT ![w] = SubSeq(@, n + 1, Len(@))],
           UNCHANGED <<doc, bad, skipped>>, \A v \in Workers : ~Gone(v)' => ~Gone(v)
    PROVE  /\ wbuf' \in [Workers -> Seq(Half)] /\ out' \in Seq(Half) /\ KeptLines'
           /\ wbuf'[w] = SubSeq(wbuf[w], n + 1, Len(wbuf[w]))
           /\ \A v \in Workers \ {w} : wbuf'[v] = wbuf[v]
<1> DEFINE a == SubSeq(wbuf[w], 1, n)
           b == SubSeq(wbuf[w], n + 1, Len(wbuf[w]))
<1>0. wbuf \in [Workers -> Seq(Half)] /\ wbuf[w] \in Seq(Half) /\ out \in Seq(Half)
  BY DEF TypeOK
<1>1. /\ a \in Seq(Half) /\ b \in Seq(Half)
      /\ \A h : In(h, wbuf[w]) => In(h, a) \/ In(h, b)
  BY <1>0, SplitAt
<1>2. wbuf' = [wbuf EXCEPT ![w] = b] /\ out' = out \o a
  OBVIOUS
<1> HIDE DEF a, b
<1>3. /\ wbuf' \in [Workers -> Seq(Half)] /\ wbuf'[w] = b
      /\ \A v \in Workers \ {w} : wbuf'[v] = wbuf[v]
  BY <1>0, <1>1, <1>2
<1>4. out' \in Seq(Half) /\ \A h : In(h, out') <=> In(h, out) \/ In(h, a)
  <2>1. out \o a \in Seq(Half)
    BY <1>0, <1>1, ConcatAt
  <2>2. \A h : In(h, out \o a) <=> In(h, out) \/ In(h, a)
    BY <1>0, <1>1, ConcatIn
  <2> QED BY <1>2, <2>1, <2>2
<1>5. KeptLines'
  <2> SUFFICES ASSUME NEW v \in Workers, NEW d \in Docs, ~Gone(v), v \notin bad, d < doc[v],
                      <<v, d>> \notin skipped, NEW l \in 1 .. NLines
               PROVE  In(Last(v, d, l), out') \/ In(Last(v, d, l), wbuf'[v])
    BY DEF KeptLines
  <2>1. In(Last(v, d, l), out) \/ In(Last(v, d, l), wbuf[v])
    BY DEF KeptLines
  <2> QED BY <1>1, <1>3, <1>4, <2>1
<1> QED BY <1>3, <1>4, <1>5 DEF b

\* The pipe after u was appended: what was there is as it was, unless it waited
\* for the first half line of u.
LEMMA OutAfter ==
    ASSUME NEW s \in Seq(Half), NEW u \in Seq(Half), NEW i \in 1 .. Len(s \o u)
    PROVE  \/ /\ i \in 1 .. Len(s) /\ (s \o u)[i] = s[i]
              /\ i < Len(s) => i < Len(s \o u) /\ (s \o u)[i + 1] = s[i + 1]
              /\ i = Len(s) /\ Len(u) > 0 => i < Len(s \o u) /\ (s \o u)[i + 1] = u[1]
           \/ /\ i - Len(s) \in 1 .. Len(u) /\ (s \o u)[i] = u[i - Len(s)]
              /\ i - Len(s) < Len(u) => i < Len(s \o u) /\ (s \o u)[i + 1] = u[(i - Len(s)) + 1]
              /\ i - Len(s) = Len(u) => i = Len(s \o u)
<1>1. CASE i <= Len(s)
  BY <1>1
<1>2. CASE i > Len(s)
  BY <1>2
<1> QED BY <1>1, <1>2

\* stdio writes a whole line of dump_ibx at once; nobody has the lock.
LEMMA EmitStep == ASSUME DInv, NEW w \in Workers, dump_ibx_term(w) PROVE DInv'
<1> USE SizeAssumption
<1>0. TypeOK /\ LockInv /\ BufInv /\ OutInv /\ KeptLines /\ DoneInv
  BY DEF DInv
<1> DEFINE s == wbuf[w]
           a == SubSeq(s, 1, 2)
           b == SubSeq(s, 3, Len(s))
<1>1. /\ pc[w] = "emit" /\ cmd = "dump_ibx" /\ s # << >> /\ s \in Seq(Half) /\ out \in Seq(Half)
      /\ Whole(s) /\ \A i \in 1 .. Len(s) : s[i].w = w
  BY <1>0 DEF dump_ibx_term, LockInv, BufInv, TypeOK
<1>2. /\ 2 \in 1 .. Len(s) /\ s[1].half = 1 /\ s[2] = Pair(s[1]) /\ s[2].half = 2
      /\ Whole(b) /\ Chained(b)
  BY <1>1, WholeRest DEF Whole
<1>3. /\ a \in Seq(Half) /\ Len(a) = 2 /\ a[1] = s[1] /\ a[2] = s[2]
      /\ b \in Seq(Half) /\ Len(b) = Len(s) - 2 /\ \A i \in 1 .. Len(s) - 2 : b[i] = s[2 + i]
  BY <1>1, <1>2, SplitAt
<1>4. /\ UNCHANGED <<cmd, bad, doc, t, nr_out, holder, skipped, nmod, nkill>>
      /\ out' = out \o a /\ wbuf' = [wbuf EXCEPT ![w] = b]
      /\ pc' = [pc EXCEPT ![w] = cmd_dump_ibx(w, doc[w])]
  BY DEF dump_ibx_term
<1>5. holder = {}
  BY <1>0, <1>1 DEF LockInv, TypeOK
<1>p. /\ pc' \in [Workers -> {"iter", "emit", "lock", "write", "done", "failed", "killed"}]
      /\ \A v \in Workers \ {w} : pc'[v] = pc[v]
      /\ pc'[w] \in {"iter", "emit", "done", "failed"}
      /\ pc'[w] = "emit" => wbuf'[w] # << >>
      /\ pc'[w] = "done" => wbuf'[w] = << >> /\ doc[w] = NDocs + 1
  BY <1>0, <1>4 DEF TypeOK, cmd_dump_ibx, Continue
<1>g. \A v \in Workers : Gone(v) => Gone(v)' /\ v # w
  BY <1>1, <1>p DEF Gone
<1>6. /\ wbuf' \in [Workers -> Seq(Half)] /\ out' \in Seq(Half) /\ KeptLines'
      /\ wbuf'[w] = b /\ \A v \in Workers \ {w} : wbuf'[v] = wbuf[v]
  <2>1. /\ 2 \in 0 .. Len(wbuf[w]) /\ out' = out \o SubSeq(wbuf[w], 1, 2)
        /\ wbuf' = [wbuf EXCEPT ![w] = SubSeq(@, 2 + 1, Len(@))]
        /\ SubSeq(wbuf[w], 2 + 1, Len(wbuf[w])) = b
    BY <1>2, <1>4
  <2> HIDE DEF b
  <2> QED BY <1>0, <1>4, <1>g, <2>1, MoveKeeps
<1> HIDE DEF s, a, b
<1>7. TypeOK'
  BY <1>0, <1>4, <1>6, <1>p DEF TypeOK
<1>8. LockInv'
  BY <1>0, <1>1, <1>4, <1>5, <1>6, <1>p DEF LockInv
<1>9. BufInv'
  <2> SUFFICES ASSUME NEW v \in Workers
               PROVE  /\ \A i \in 1 .. Len(wbuf'[v]) : wbuf'[v][i].w = v
                      /\ Chained(wbuf'[v])
                      /\ pc'[v] \in {"iter", "emit", "lock"} => Whole(wbuf'[v])
    BY DEF BufInv
  <2>1. CASE v = w
    <3>1. \A i \in 1 .. Len(b) : b[i].w = w
      <4> SUFFICES ASSUME NEW i \in 1 .. Len(b) PROVE b[i].w = w
        OBVIOUS
      <4>1. i \in 1 .. Len(s) - 2 /\ 2 + i \in 1 .. Len(s)
        BY <1>1, <1>3
      <4> QED BY <1>1, <1>3, <4>1
    <3> QED BY <1>2, <1>6, <2>1, <3>1
  <2>2. CASE v # w
    BY <1>0, <1>6, <1>p, <2>2 DEF BufInv
  <2> QED BY <2>1, <2>2
<1>10. OutInv'
  <2> SUFFICES ASSUME NEW i \in 1 .. Len(out'), out'[i].half = 1
               PROVE  \/ i < Len(out') /\ out'[i + 1] = Pair(out'[i])
                      \/ Gone(out[i].w)'
    BY DEF OutInv
  <2>1. CASE /\ i \in 1 .. Len(out) /\ out'[i] = out[i]
             /\ i < Len(out) => i < Len(out') /\ out'[i + 1] = out[i + 1]
    <3>1. out[i].w \in Workers
      <4>1. out[i] \in Half
        BY <1>1, <2>1
      <4> QED BY <4>1 DEF Half
    <3>2. \/ i < Len(out) /\ out[i + 1] = Pair(out[i])
          \/ Gone(out[i].w)
      BY <1>0, <1>5, <2>1 DEF OutInv, Waits
    <3>3. ASSUME Gone(out[i].w) PROVE Gone(out[i].w)'
      <4>1. pc'[out[i].w] = pc[out[i].w]
        BY <1>1, <1>p, <3>1, <3>3 DEF Gone
      <4> QED BY <2>1, <3>3, <4>1 DEF Gone
    <3> QED BY <2>1, <3>2, <3>3
  <2>2. CASE /\ i - Len(out) \in 1 .. Len(a) /\ out'[i] = a[i - Len(out)]
             /\ i - Len(out) < Len(a) => i < Len(out') /\ out'[i + 1] = a[(i - Len(out)) + 1]
    <3>1. i - Len(out) = 1
      BY <1>2, <1>3, <2>2
    <3>2. out'[i] = a[1] /\ i < Len(out') /\ out'[i + 1] = a[2]
      <4>1. Len(a) = 2
        BY <1>3
      <4>2. out'[i] = a[1]
        BY <2>2, <3>1
      <4>3. i < Len(out') /\ out'[i + 1] = a[(i - Len(out)) + 1]
        BY <2>2, <3>1, <4>1
      <4>4. (i - Len(out)) + 1 = 2
        BY <3>1
      <4> QED BY <4>2, <4>3, <4>4
    <3> QED BY <1>2, <1>3, <3>2
  <2> QED BY <1>1, <1>3, <1>4, <2>1, <2>2, OutAfter
<1>11. DoneInv'
  BY <1>0, <1>4, <1>6, <1>p DEF DoneInv
<1> QED BY <1>6, <1>7, <1>8, <1>9, <1>10, <1>11 DEF DInv

\* A short write of dump_roots: the line it may cut is completed by the next
\* write of the same worker, which still has the lock.
LEMMA WriteStep == ASSUME DInv, NEW w \in Workers, write_all(w) PROVE DInv'
<1> USE SizeAssumption
<1>0. TypeOK /\ LockInv /\ BufInv /\ OutInv /\ KeptLines /\ DoneInv
  BY DEF DInv
<1> DEFINE s == wbuf[w]
<1>1. /\ pc[w] = "write" /\ w \in holder /\ s \in Seq(Half) /\ out \in Seq(Half)
      /\ Chained(s) /\ \A i \in 1 .. Len(s) : s[i].w = w
      /\ UNCHANGED <<cmd, bad, pc, doc, t, nr_out, holder, skipped, nmod, nkill>>
  BY <1>0 DEF write_all, LockInv, BufInv, TypeOK
<1>2. PICK n \in 1 .. Len(s) : /\ out' = out \o SubSeq(s, 1, n)
                               /\ wbuf' = [wbuf EXCEPT ![w] = SubSeq(@, n + 1, Len(@))]
  BY DEF write_all
<1> DEFINE a == SubSeq(s, 1, n)
           b == SubSeq(s, n + 1, Len(s))
<1>n. n \in 0 .. Len(s)
  BY <1>1
<1>3. /\ a \in Seq(Half) /\ Len(a) = n /\ \A i \in 1 .. n : a[i] = s[i]
      /\ b \in Seq(Half) /\ Len(b) = Len(s) - n /\ \A i \in 1 .. Len(s) - n : b[i] = s[n + i]
      /\ Chained(b)
  BY <1>1, <1>n, SplitAt, ChainedRest
<1>g. \A v \in Workers : Gone(v)' <=> Gone(v)
  BY <1>1 DEF Gone
<1>4. /\ wbuf' \in [Workers -> Seq(Half)] /\ out' \in Seq(Half) /\ KeptLines'
      /\ wbuf'[w] = b /\ \A v \in Workers \ {w} : wbuf'[v] = wbuf[v]
  <2>1. out' = out \o SubSeq(wbuf[w], 1, n) /\ n \in 0 .. Len(wbuf[w])
    BY <1>2, <1>n
  <2> QED BY <1>0, <1>1, <1>2, <1>g, <2>1, MoveKeeps
<1>5. out' = out \o a
  BY <1>2
<1> HIDE DEF s, a, b
<1>6. TypeOK'
  BY <1>0, <1>1, <1>4 DEF TypeOK
<1>7. LockInv'
  BY <1>0, <1>1, <1>4 DEF LockInv
<1>8. BufInv'
  <2> SUFFICES ASSUME NEW v \in Workers
               PROVE  /\ \A i \in 1 .. Len(wbuf'[v]) : wbuf'[v][i].w = v
                      /\ Chained(wbuf'[v])
                      /\ pc[v] \in {"iter", "emit", "lock"} => Whole(wbuf'[v])
    BY <1>1 DEF BufInv
  <2>1. CASE v = w
    <3>1. \A i \in 1 .. Len(b) : b[i].w = w
      BY <1>1, <1>n, <1>3
    <3> QED BY <1>1, <1>3, <1>4, <2>1, <3>1
  <2>2. CASE v # w
    BY <1>0, <1>4, <2>2 DEF BufInv
  <2> QED BY <2>1, <2>2
<1>9. OutInv'
  <2> SUFFICES ASSUME NEW i \in 1 .. Len(out'), out'[i].half = 1
               PROVE  \/ i < Len(out') /\ out'[i + 1] = Pair(out'[i])
                      \/ i = Len(out') /\ Waits(out[i])'
                      \/ Gone(out[i].w)'
    BY DEF OutInv
  <2>1. CASE /\ i \in 1 .. Len(out) /\ out'[i] = out[i]
             /\ i < Len(out) => i < Len(out') /\ out'[i + 1] = out[i + 1]
             /\ i = Len(out) /\ Len(a) > 0 => i < Len(out') /\ out'[i + 1] = a[1]
    <3>1. out[i].w \in Workers
      <4>1. out[i] \in Half
        BY <1>1, <2>1
      <4> QED BY <4>1 DEF Half
    <3>2. CASE i = Len(out) /\ Waits(out[i])
      <4>1. out[i].w = w
        BY <1>0, <1>1, <3>2 DEF Waits, LockInv
      <4>2. s[1] = Pair(out[i])
        BY <3>2, <4>1 DEF Waits, s
      <4>3. a[1] = s[1] /\ Len(a) > 0
        BY <1>3
      <4> QED BY <2>1, <3>2, <4>2, <4>3
    <3>3. CASE Gone(out[i].w)
      <4>1. Gone(out[i].w)'
        BY <1>1, <2>1, <3>3 DEF Gone
      <4> QED BY <4>1
    <3> QED BY <1>0, <2>1, <3>2, <3>3 DEF OutInv
  <2>2. CASE /\ i - Len(out) \in 1 .. Len(a) /\ out'[i] = a[i - Len(out)]
             /\ i - Len(out) < Len(a) => i < Len(out') /\ out'[i + 1] = a[(i - Len(out)) + 1]
             /\ i - Len(out) = Len(a) => i = Len(out')
    <3> DEFINE j == i - Len(out)
    <3>0. j \in 1 .. n /\ j \in 1 .. Len(s) /\ out'[i] = s[j]
      BY <1>1, <1>3, <1>n, <2>2
    <3>1. j < Len(s) /\ s[j + 1] = Pair(s[j])
      BY <1>1, <3>0 DEF Chained
    <3>2. CASE j < n
      BY <1>3, <2>2, <3>0, <3>1, <3>2
    <3>3. CASE j = n
      <4>1. i = Len(out') /\ out'[i].w = w
        BY <1>1, <1>3, <2>2, <3>0, <3>3
      <4>2. b # << >> /\ b[1] = Pair(out'[i])
        <5>1. 1 \in 1 .. Len(s) - n
          BY <1>1, <3>0, <3>1, <3>3
        <5>2. b[1] = s[n + 1]
          BY <1>3, <5>1
        <5> QED BY <1>3, <3>0, <3>1, <3>3, <5>1, <5>2
      <4>3. Waits(out[i])'
        BY <1>1, <1>4, <4>1, <4>2 DEF Waits
      <4> QED BY <4>1, <4>3
    <3> QED BY <3>0, <3>2, <3>3
  <2> QED BY <1>1, <1>3, <1>5, <2>1, <2>2, OutAfter
<1>10. DoneInv'
  BY <1>0, <1>1, <1>4 DEF DoneInv
<1> QED BY <1>4, <1>6, <1>7, <1>8, <1>9, <1>10 DEF DInv

\* Steps that leave the pipe and every buffer alone: taking and giving back the
\* lock, failing and dying.
LEMMA LockStep ==
    ASSUME DInv, NEW w \in Workers, LockEx(w) \/ Written(w) \/ WriteFails(w) \/ Throws(w) \/ Killed(w)
    PROVE  DInv'
<1> USE SizeAssumption
<1>0. TypeOK /\ LockInv /\ BufInv /\ OutInv /\ KeptLines /\ DoneInv
  BY DEF DInv
<1>1. /\ UNCHANGED <<cmd, bad, doc, t, nr_out, wbuf, out, skipped, nmod>>
      /\ nkill' \in 0 .. MaxKill
      /\ \E q \in {"write", "iter", "done", "failed", "killed"} : pc' = [pc EXCEPT ![w] = q]
  <2>1. CASE LockEx(w) \/ Written(w) \/ WriteFails(w) \/ Throws(w)
    BY <1>0, <2>1 DEF LockEx, Written, WriteFails, Throws, Continue, TypeOK
  <2>2. CASE Killed(w)
    BY <1>0, <2>2 DEF Killed, TypeOK
  <2> QED BY <2>1, <2>2
<1>2. /\ pc' \in [Workers -> {"iter", "emit", "lock", "write", "done", "failed", "killed"}]
      /\ \A v \in Workers \ {w} : pc'[v] = pc[v]
      /\ pc'[w] \in {"write", "iter", "done", "failed", "killed"}
  BY <1>0, <1>1 DEF TypeOK
<1>3. /\ holder' \in SUBSET Workers
      /\ \/ LockEx(w) /\ holder = {} /\ holder' = {w} /\ pc'[w] = "write"
         \/ ~LockEx(w) /\ holder' = holder \ {w} /\ pc'[w] # "write"
  BY <1>0, <1>2 DEF LockEx, Written, WriteFails, Throws, Killed, Continue, TypeOK, LockInv
<1>4. pc[w] \in {"iter", "emit", "lock", "write"}
  BY DEF LockEx, Written, WriteFails, Throws, Killed
<1>5. TypeOK'
  BY <1>0, <1>1, <1>2, <1>3 DEF TypeOK
<1>6. LockInv'
  <2>1. LockEx(w) => cmd = "dump_roots"
    BY <1>0 DEF LockEx, LockInv
  <2> QED BY <1>0, <1>1, <1>2, <1>3, <2>1 DEF LockInv
<1>7. pc'[w] \in {"iter", "done"} => Written(w) /\ wbuf[w] = << >> /\ pc'[w] = Continue(doc[w])
  BY <1>0, <1>2, <1>3 DEF LockEx, Written, WriteFails, Throws, Killed, TypeOK
<1>8. BufInv'
  <2>1. Whole(<< >>)
    BY DEF Whole, Chained
  <2> QED BY <1>0, <1>1, <1>2, <1>7, <2>1 DEF BufInv
<1>9. OutInv'
  <2> SUFFICES ASSUME NEW i \in 1 .. Len(out), out[i].half = 1
               PROVE  \/ i < Len(out) /\ out[i + 1] = Pair(out[i])
                      \/ i = Len(out) /\ Waits(out[i])'
                      \/ Gone(out[i].w)'
    BY <1>1 DEF OutInv
  <2>1. out[i].w \in Workers
    <3>1. out[i] \in Half
      BY <1>0 DEF TypeOK
    <3> QED BY <3>1 DEF Half
  <2>2. CASE Gone(out[i].w)
    <3>1. pc'[out[i].w] = pc[out[i].w]
      BY <1>2, <1>4, <2>1, <2>2 DEF Gone
    <3>2. Gone(out[i].w)'
      BY <1>1, <2>2, <3>1 DEF Gone
    <3> QED BY <3>2
  <2>3. CASE i = Len(out) /\ Waits(out[i])
    <3>1. CASE out[i].w = w
      <4>1. ~LockEx(w) /\ wbuf[w] # << >>
        BY <1>3, <2>3, <3>1 DEF Waits
      <4>2. pc'[w] \in {"failed", "killed"}
        BY <1>2, <1>3, <1>7, <4>1
      <4>3. Gone(out[i].w)'
        BY <1>1, <3>1, <4>2 DEF Gone
      <4> QED BY <4>3
    <3>2. CASE out[i].w # w
      <4>1. out[i].w \in holder'
        BY <1>3, <2>3, <3>2 DEF Waits
      <4> QED BY <1>1, <2>3, <4>1 DEF Waits
    <3> QED BY <3>1, <3>2
  <2> QED BY <1>0, <2>2, <2>3 DEF OutInv
<1>10. KeptLines'
  <2>1. \A v \in Workers : ~Gone(v)' => ~Gone(v)
    BY <1>2, <1>4 DEF Gone
  <2> QED BY <1>0, <1>1, <2>1 DEF KeptLines
<1>11. DoneInv'
  <2>1. pc'[w] = "done" => wbuf[w] = << >> /\ doc[w] = NDocs + 1
    BY <1>0, <1>7 DEF Continue, TypeOK
  <2> QED BY <1>0, <1>1, <1>2, <2>1 DEF DoneInv
<1> QED BY <1>5, <1>6, <1>8, <1>9, <1>10, <1>11 DEF DInv

\* A failed write of stdio: the lines in the buffer are lost, and noticed late.
LEMMA EmitFailsStep == ASSUME DInv, NEW w \in Workers, EmitFails(w) PROVE DInv'
<1> USE SizeAssumption
<1>0. TypeOK /\ LockInv /\ BufInv /\ OutInv /\ KeptLines /\ DoneInv
  BY DEF DInv
<1>1. /\ pc[w] = "emit" /\ bad' = bad \union {w} /\ wbuf' = [wbuf EXCEPT ![w] = << >>]
      /\ UNCHANGED <<cmd, doc, t, nr_out, holder, out, skipped, nmod, nkill>>
      /\ pc' = [pc EXCEPT ![w] = Continue(doc[w])]
  BY DEF EmitFails
<1>2. /\ pc' \in [Workers -> {"iter", "emit", "lock", "write", "done", "failed", "killed"}]
      /\ \A v \in Workers \ {w} : pc'[v] = pc[v] /\ wbuf'[v] = wbuf[v]
      /\ pc'[w] = Continue(doc[w]) /\ Continue(doc[w]) \in {"iter", "done"}
      /\ wbuf' \in [Workers -> Seq(Half)] /\ wbuf'[w] = << >> /\ bad' \in SUBSET Workers
  BY <1>0, <1>1 DEF TypeOK, Continue
<1>3. TypeOK'
  BY <1>0, <1>1, <1>2 DEF TypeOK
<1>4. LockInv'
  BY <1>0, <1>1, <1>2 DEF LockInv
<1>5. BufInv'
  <2>1. Whole(<< >>) /\ Chained(<< >>) /\ Len(<< >>) = 0
    BY DEF Whole, Chained
  <2>2. ASSUME NEW v \in Workers
        PROVE  /\ \A i \in 1 .. Len(wbuf'[v]) : wbuf'[v][i].w = v
               /\ Chained(wbuf'[v])
               /\ pc'[v] \in {"iter", "emit", "lock"} => Whole(wbuf'[v])
    <3>1. CASE v = w
      BY <1>2, <2>1, <3>1
    <3>2. CASE v # w
      BY <1>0, <1>2, <3>2 DEF BufInv
    <3> QED BY <3>1, <3>2
  <2> QED BY <2>2 DEF BufInv
<1>6. OutInv'
  <2> SUFFICES ASSUME NEW i \in 1 .. Len(out), out[i].half = 1
               PROVE  \/ i < Len(out) /\ out[i + 1] = Pair(out[i])
                      \/ i = Len(out) /\ Waits(out[i])'
                      \/ Gone(out[i].w)'
    BY <1>1 DEF OutInv
  <2>1. out[i].w \in Workers
    <3>1. out[i] \in Half
      BY <1>0 DEF TypeOK
    <3> QED BY <3>1 DEF Half
  <2>2. CASE Gone(out[i].w)
    <3>1. pc'[out[i].w] = pc[out[i].w]
      BY <1>1, <1>2, <2>1, <2>2 DEF Gone
    <3>2. Gone(out[i].w)'
      BY <1>1, <2>2, <3>1 DEF Gone
    <3> QED BY <3>2
  <2>3. CASE i = Len(out) /\ Waits(out[i])
    <3>1. out[i].w # w
      BY <1>0, <1>1, <2>1, <2>3 DEF Waits, LockInv
    <3> QED BY <1>1, <1>2, <2>1, <2>3, <3>1 DEF Waits
  <2> QED BY <1>0, <2>2, <2>3 DEF OutInv
<1>7. KeptLines'
  <2>1. \A v \in Workers : v \notin bad' => v # w /\ v \notin bad
    BY <1>1
  <2>2. \A v \in Workers \ {w} : Gone(v)' <=> Gone(v)
    BY <1>2 DEF Gone
  <2> QED BY <1>0, <1>1, <1>2, <2>1, <2>2 DEF KeptLines
<1>8. DoneInv'
  <2>1. pc'[w] = "done" => doc[w] = NDocs + 1
    BY <1>0, <1>2 DEF Continue, TypeOK
  <2> QED BY <1>0, <1>1, <1>2, <2>1 DEF DoneInv
<1> QED BY <1>3, <1>4, <1>5, <1>6, <1>7, <1>8 DEF DInv

-----------------------------------------------------------------------------
\* The inductive invariant holds in every reachable state.
THEOREM DumpInvariant == Spec => []DInv
<1> USE SizeAssumption
<1>1. Init => DInv
  <2> SUFFICES ASSUME Init PROVE DInv
    OBVIOUS
  <2>1. pc \in [Workers -> {"iter", "done"}] /\ \A w \in Workers : pc[w] = "done" => 1 > NDocs
    BY DEF Init, Continue
  <2>2. TypeOK
    <3>1. /\ cmd \in {"dump_roots", "dump_ibx"} /\ bad \in SUBSET Workers /\ holder \in SUBSET Workers
          /\ skipped \in SUBSET (Workers \X Docs) /\ nmod \in 0 .. MaxModified /\ nkill \in 0 .. MaxKill
      BY DEF Init
    <3>2. pc \in [Workers -> {"iter", "emit", "lock", "write", "done", "failed", "killed"}]
      BY <2>1
    <3>3. /\ doc \in [Workers -> 1 .. NDocs + 1] /\ t \in [Workers -> 1 .. Tries]
          /\ nr_out \in [Workers -> Nat]
      BY DEF Init
    <3>4. wbuf \in [Workers -> Seq(Half)] /\ out \in Seq(Half)
      BY DEF Init
    <3> QED BY <3>1, <3>2, <3>3, <3>4 DEF TypeOK
  <2>3. LockInv /\ OutInv
    BY <2>1 DEF Init, LockInv, OutInv
  <2>4. BufInv
    BY DEF Init, BufInv, Whole, Chained
  <2>5. KeptLines
    BY DEF Init, KeptLines, Docs
  <2>6. DoneInv
    BY <2>1 DEF Init, DoneInv
  <2> QED BY <2>2, <2>3, <2>4, <2>5, <2>6 DEF DInv
<1>2. DInv /\ [Next]_vars => DInv'
  <2> SUFFICES ASSUME DInv, [Next]_vars PROVE DInv'
    OBVIOUS
  <2>1. CASE UNCHANGED vars
    BY <2>1 DEF DInv, TypeOK, LockInv, BufInv, OutInv, Waits, Gone, KeptLines, DoneInv, vars
  <2>2. ASSUME NEW w \in Workers, Step(w) \/ EmitFails(w) \/ Throws(w) \/ WriteFails(w) \/ Killed(w) PROVE DInv'
    BY <2>2, IterStep, EmitStep, WriteStep, LockStep, EmitFailsStep DEF Step
  <2> QED BY <2>1, <2>2 DEF Next, Quiet
<1> QED BY <1>1, <1>2, PTL DEF Spec

\* The halves of a line are separated only where their writer failed or died,
\* for every number of writers and every split of every write.
THEOREM LinesIntactHolds == Spec => []LinesIntact
<1>1. DInv => LinesIntact
  BY DEF DInv, OutInv, Waits, Pair, LinesIntact
<1> QED BY <1>1, DumpInvariant, PTL

\* A worker that reports success has written all lines of every document it
\* did not give up, whatever was retried, cut short or flushed in between, unless
\* it runs dump_ibx and stdio lost a write.
THEOREM DoneIsCompleteHolds == Spec => []DoneIsComplete
<1>1. DInv => DoneIsComplete
  <2> SUFFICES ASSUME DInv, NEW w \in Workers, pc[w] = "done", ~(cmd = "dump_ibx" /\ w \in bad), NEW d \in Docs,
                      <<w, d>> \notin skipped, NEW l \in 1 .. NLines
               PROVE  In(Last(w, d, l), out)
    BY DEF DoneIsComplete, Complete, In, Last
  <2>1. w \notin bad /\ wbuf[w] = << >> /\ d < doc[w] /\ ~Gone(w)
    BY SizeAssumption DEF DInv, DoneInv, LockInv, Docs, Gone
  <2>2. ~In(Last(w, d, l), wbuf[w])
    BY <2>1 DEF In
  <2> QED BY <2>1, <2>2 DEF DInv, KeptLines
<1> QED BY <1>1, DumpInvariant, PTL
=============================================================================
