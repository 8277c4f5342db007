---------------------------- MODULE GitCatProofs ----------------------------
(***************************************************************************)
(* Proofs about GitCat for every set of objects, their sizes, the limits   *)
(* of the socket and of {inflight}, and every bound.                       *)
(***************************************************************************)
EXTENDS GitCat, FiniteSetTheorems, SequenceTheorems, WellFoundedInduction, TLAPS

-----------------------------------------------------------------------------
(* What is on the wire. *)

Names == Objs \union {NoObj}
Bytes == ({"hdr", "data", "lf"} \X Objs) \union ({"missing"} \X Names)

\* What the child has yet to write of an answer.
Rest == Part(nvec, 1) \o Part(nvec, 2) \o Part(nvec, 3)

\* Cutting w elements off the first of two sequences leaves the second alone.
LEMMA CutFirst ==
  ASSUME NEW S, NEW s \in Seq(S), NEW t \in Seq(S), NEW w \in 0 .. Len(s)
  PROVE  SubSeq(s \o t, w + 1, Len(s \o t)) = SubSeq(s, w + 1, Len(s)) \o t
<1> DEFINE l == SubSeq(s \o t, w + 1, Len(s \o t))
           r == SubSeq(s, w + 1, Len(s)) \o t
<1>1. Len(s) \in Nat /\ Len(t) \in Nat /\ s \o t \in Seq(S) /\ Len(s \o t) = Len(s) + Len(t)
  OBVIOUS
<1>2. l \in Seq(S) /\ Len(l) = Len(s) + Len(t) - w /\ \A i \in 1 .. Len(l) : l[i] = (s \o t)[w + i]
  BY <1>1
<1>3. SubSeq(s, w + 1, Len(s)) \in Seq(S) /\ Len(SubSeq(s, w + 1, Len(s))) = Len(s) - w
      /\ \A i \in 1 .. Len(s) - w : SubSeq(s, w + 1, Len(s))[i] = s[w + i]
  BY <1>1
<1>4. r \in Seq(S) /\ Len(r) = Len(s) + Len(t) - w
  BY <1>1, <1>3
<1>5. ASSUME NEW i \in 1 .. Len(l) PROVE l[i] = r[i]
  <2>1. CASE i \in 1 .. Len(s) - w
    <3>1. r[i] = s[w + i] /\ (s \o t)[w + i] = s[w + i]
      BY <1>1, <1>3, <2>1
    <3> QED  BY <1>2, <3>1
  <2>2. CASE i \in Len(s) - w + 1 .. Len(s) + Len(t) - w
    <3>1. r[i] = t[i - (Len(s) - w)] /\ (s \o t)[w + i] = t[w + i - Len(s)]
      BY <1>1, <1>3, <2>2
    <3>2. i - (Len(s) - w) = w + i - Len(s)
      BY <1>1
    <3> QED  BY <1>2, <3>1, <3>2
  <2> QED  BY <1>1, <1>2, <2>1, <2>2
<1> QED  BY <1>2, <1>4, <1>5, SeqEqual

\* Cutting the whole first of two sequences and more cuts the rest off the second.
LEMMA CutSecond ==
  ASSUME NEW S, NEW s \in Seq(S), NEW t \in Seq(S), NEW w \in Len(s) .. Len(s) + Len(t)
  PROVE  SubSeq(s \o t, w + 1, Len(s \o t)) = SubSeq(t, w - Len(s) + 1, Len(t))
<1> DEFINE l == SubSeq(s \o t, w + 1, Len(s \o t))
           r == SubSeq(t, w - Len(s) + 1, Len(t))
<1>1. Len(s) \in Nat /\ Len(t) \in Nat /\ s \o t \in Seq(S) /\ Len(s \o t) = Len(s) + Len(t) /\ w \in Nat
  OBVIOUS
<1>2. l \in Seq(S) /\ Len(l) = Len(s) + Len(t) - w /\ \A i \in 1 .. Len(l) : l[i] = (s \o t)[w + i]
  BY <1>1
<1>3. r \in Seq(S) /\ Len(r) = Len(s) + Len(t) - w /\ \A i \in 1 .. Len(r) : r[i] = t[w - Len(s) + i]
  BY <1>1
<1>4. ASSUME NEW i \in 1 .. Len(l) PROVE l[i] = r[i]
  <2>1. (s \o t)[w + i] = t[w + i - Len(s)] /\ w + i - Len(s) = w - Len(s) + i
    BY <1>1, <1>2
  <2> QED  BY <1>2, <1>3, <2>1
<1> QED  BY <1>2, <1>3, <1>4, SeqEqual

\* A sequence is its first w elements and the others.
LEMMA CutWhole ==
  ASSUME NEW S, NEW s \in Seq(S), NEW w \in 0 .. Len(s)
  PROVE  SubSeq(s, 1, w) \o SubSeq(s, w + 1, Len(s)) = s
<1> DEFINE a == SubSeq(s, 1, w)
           b == SubSeq(s, w + 1, Len(s))
<1>0. Len(s) \in Nat
  OBVIOUS
<1>1. a \in Seq(S) /\ Len(a) = w /\ \A i \in 1 .. w : a[i] = s[i]
  OBVIOUS
<1>2. b \in Seq(S) /\ Len(b) = Len(s) - w /\ \A i \in 1 .. Len(s) - w : b[i] = s[w + i]
  OBVIOUS
<1> HIDE DEF a, b
<1>3. a \o b \in Seq(S) /\ Len(a \o b) = Len(s)
  BY <1>1, <1>2
<1>4. ASSUME NEW i \in 1 .. Len(s) PROVE (a \o b)[i] = s[i]
  <2>1. CASE i \in 1 .. w
    BY <1>1, <1>2, <2>1
  <2>2. CASE i \in w + 1 .. Len(s)
    <3>1. (a \o b)[i] = b[i - w] /\ i - w \in 1 .. Len(s) - w /\ w + (i - w) = i
      BY <1>0, <1>1, <1>2, <2>2
    <3> QED  BY <1>2, <3>1
  <2>3. i \in 1 .. w \/ i \in w + 1 .. Len(s)
    BY <1>0
  <2> QED  BY <2>1, <2>2, <2>3
<1>5. a \o b = s
  BY <1>3, <1>4, SeqEqual
<1> QED  BY <1>5, Zenon DEF a, b

\* The parts writev has yet to write.
LEMMA PartFacts ==
  ASSUME vec \in [1 .. 3 -> Seq(Bytes)]
  PROVE  /\ vec[1] \in Seq(Bytes) /\ vec[2] \in Seq(Bytes) /\ vec[3] \in Seq(Bytes)
         /\ Part(3, 1) = vec[1] /\ Part(3, 2) = vec[2] /\ Part(3, 3) = vec[3]
         /\ Part(2, 1) = << >> /\ Part(2, 2) = vec[2] /\ Part(2, 3) = vec[3]
         /\ Part(1, 1) = << >> /\ Part(1, 2) = << >> /\ Part(1, 3) = vec[3]
         /\ Part(0, 1) = << >> /\ Part(0, 2) = << >> /\ Part(0, 3) = << >>
<1>1. vec[1] \in Seq(Bytes) /\ vec[2] \in Seq(Bytes) /\ vec[3] \in Seq(Bytes)
  OBVIOUS
<1> QED  BY <1>1 DEF Part

\* What is left of an answer when vec is v and nvec is n.
Left(v, n) == ((IF 1 > 3 - n THEN v[1] ELSE << >>) \o (IF 2 > 3 - n THEN v[2] ELSE << >>))
                \o (IF 3 > 3 - n THEN v[3] ELSE << >>)

\* Left spelled out for the three parts of an iovec: what cat_oid has yet to write after each.
LEMMA LeftFacts ==
  ASSUME NEW v \in [1 .. 3 -> Seq(Bytes)]
  PROVE  /\ v[1] \in Seq(Bytes) /\ v[2] \in Seq(Bytes) /\ v[3] \in Seq(Bytes)
         /\ Left(v, 3) = v[1] \o (v[2] \o v[3]) /\ Left(v, 2) = v[2] \o v[3] /\ Left(v, 1) = v[3]
         /\ Left(v, 0) = << >>
         /\ \A n \in 0 .. 3 : Left(v, n) \in Seq(Bytes)
         /\ Len(Left(v, 3)) = Len(v[1]) + Len(v[2]) + Len(v[3])
         /\ Len(Left(v, 2)) = Len(v[2]) + Len(v[3]) /\ Len(Left(v, 1)) = Len(v[3])
<1>0. v[1] \in Seq(Bytes) /\ v[2] \in Seq(Bytes) /\ v[3] \in Seq(Bytes) /\ << >> \in Seq(Bytes)
  OBVIOUS
<1>1. /\ << >> \o v[2] = v[2] /\ << >> \o v[3] = v[3] /\ << >> \o << >> = << >>
      /\ (v[1] \o v[2]) \o v[3] = v[1] \o (v[2] \o v[3])
  BY <1>0, ConcatEmptySeq, ConcatAssociative
<1>2. /\ Left(v, 3) = (v[1] \o v[2]) \o v[3] /\ Left(v, 2) = (<< >> \o v[2]) \o v[3]
      /\ Left(v, 1) = (<< >> \o << >>) \o v[3] /\ Left(v, 0) = (<< >> \o << >>) \o << >>
  BY DEF Left
<1>3. /\ Left(v, 3) = v[1] \o (v[2] \o v[3]) /\ Left(v, 2) = v[2] \o v[3] /\ Left(v, 1) = v[3]
      /\ Left(v, 0) = << >>
  BY <1>1, <1>2, Zenon
<1>4. \A n \in 0 .. 3 : n = 0 \/ n = 1 \/ n = 2 \/ n = 3
  OBVIOUS
<1>5. v[2] \o v[3] \in Seq(Bytes) /\ v[1] \o (v[2] \o v[3]) \in Seq(Bytes)
  BY <1>0
<1>6. \A n \in 0 .. 3 : Left(v, n) \in Seq(Bytes)
  BY <1>0, <1>3, <1>4, <1>5, Zenon
<1>7. /\ Len(v[2] \o v[3]) = Len(v[2]) + Len(v[3])
      /\ Len(v[1] \o (v[2] \o v[3])) = Len(v[1]) + Len(v[2]) + Len(v[3])
  BY <1>0, <1>5
<1> QED  BY <1>0, <1>3, <1>6, <1>7, Zenon

\* That is what the child has yet to write.
LEMMA RestIsLeft ==
  Rest = Left(vec, nvec) /\ Rest' = Left(vec', nvec')
  BY DEF Rest, Left, Part

\* cat_oid advances its parts by what writev wrote.
LEMMA AdvanceFacts ==
  ASSUME vec \in [1 .. 3 -> Seq(Bytes)], NEW n \in 1 .. 3, NEW w \in 1 .. Len(Left(vec, n))
  PROVE  \/ w = Len(Left(vec, n)) /\ Advance(n, w).n = 0
         \/ \E k \in 0 .. n - 1, i \in 1 .. 3 : \E c \in 0 .. Len(vec[i]) :
              /\ w < Len(Left(vec, n)) /\ i = 4 - n + k /\ c = w - Upto(n, i) + Len(vec[i])
              /\ Advance(n, w) = Cut(n, k, w)
<1> DEFINE l1 == Len(vec[1])
           l2 == Len(vec[2])
           l3 == Len(vec[3])
           D == {i \in 4 - n .. 3 : Upto(n, i) <= w}
<1>0. vec[1] \in Seq(Bytes) /\ vec[2] \in Seq(Bytes) /\ vec[3] \in Seq(Bytes)
      /\ l1 \in Nat /\ l2 \in Nat /\ l3 \in Nat /\ w \in Nat
  BY PartFacts
<1>1. Advance(n, w) = Cut(n, Cardinality(D), w)
  BY DEF Advance
<1>2. Cut(n, n, w).n = 0
  BY DEF Cut
<1>3. \A a, b \in Int : Cardinality(a .. b) = IF a > b THEN 0 ELSE b - a + 1
  BY FS_Interval
<1>4. ASSUME NEW k \in 0 .. n, D = 4 - n .. 3 - n + k PROVE Advance(n, w) = Cut(n, k, w)
  <2>1. 4 - n \in Int /\ 3 - n + k \in Int /\ (4 - n > 3 - n + k <=> k = 0) /\ (3 - n + k) - (4 - n) + 1 = k
    OBVIOUS
  <2>2. Cardinality(D) = k
    BY <1>3, <1>4, <2>1
  <2> QED  BY <1>1, <2>2
<1> HIDE DEF D
<1>5. CASE n = 3
  <2>1. Len(Left(vec, n)) = l1 + l2 + l3
    <3> HIDE DEF l1, l2, l3
    <3>1. Len(Left(vec, 3)) = l1 + l2 + l3
      BY LeftFacts, Zenon DEF l1, l2, l3
    <3> QED  BY <1>5, <3>1
  <2>2. Upto(n, 1) = l1 /\ Upto(n, 2) = l1 + l2 /\ Upto(n, 3) = l1 + l2 + l3
    BY <1>0, <1>5, PartFacts DEF Upto
  <2>3. \A i : i \in D <=> i \in {1, 2, 3} /\ Upto(n, i) <= w
    BY <1>5 DEF D
  <2>4. CASE w < l1
    <3>1. D = 4 - n .. 3 - n + 0
      BY <1>0, <1>5, <2>2, <2>3, <2>4
    <3>2. Advance(n, w) = Cut(n, 0, w)
      BY <1>4, <1>5, <3>1
    <3>3. 0 \in 0 .. n - 1 /\ 1 = 4 - n + 0 /\ w - Upto(n, 1) + Len(vec[1]) \in 0 .. Len(vec[1])
      BY <1>0, <1>5, <2>2, <2>4
    <3>4. w < Len(Left(vec, n))
      BY <1>0, <2>1, <2>4
    <3> QED  BY <3>2, <3>3, <3>4
  <2>5. CASE w >= l1 /\ w < l1 + l2
    <3>1. D = 4 - n .. 3 - n + 1
      BY <1>0, <1>5, <2>2, <2>3, <2>5
    <3>2. Advance(n, w) = Cut(n, 1, w)
      BY <1>4, <1>5, <3>1
    <3>3. 1 \in 0 .. n - 1 /\ 2 = 4 - n + 1 /\ w - Upto(n, 2) + Len(vec[2]) \in 0 .. Len(vec[2])
      BY <1>0, <1>5, <2>2, <2>5
    <3>4. w < Len(Left(vec, n))
      BY <1>0, <2>1, <2>5
    <3> QED  BY <3>2, <3>3, <3>4
  <2>6. CASE w >= l1 + l2 /\ w < l1 + l2 + l3
    <3>1. D = 4 - n .. 3 - n + 2
      BY <1>0, <1>5, <2>2, <2>3, <2>6
    <3>2. Advance(n, w) = Cut(n, 2, w)
      BY <1>4, <1>5, <3>1
    <3>3. 2 \in 0 .. n - 1 /\ 3 = 4 - n + 2 /\ w - Upto(n, 3) + Len(vec[3]) \in 0 .. Len(vec[3])
      BY <1>0, <1>5, <2>2, <2>6
    <3>4. w < Len(Left(vec, n))
      BY <1>0, <2>1, <2>6
    <3> QED  BY <3>2, <3>3, <3>4
  <2>7. CASE w = l1 + l2 + l3
    <3>1. D = 4 - n .. 3 - n + 3
      BY <1>0, <1>5, <2>2, <2>3, <2>7
    <3>2. Advance(n, w) = Cut(n, n, w)
      BY <1>4, <1>5, <3>1
    <3> QED  BY <1>2, <2>1, <2>7, <3>2
  <2> QED  BY <1>0, <2>1, <2>4, <2>5, <2>6, <2>7
<1>6. CASE n = 2
  <2>1. Len(Left(vec, n)) = l2 + l3
    <3> HIDE DEF l1, l2, l3
    <3>1. Len(Left(vec, 2)) = l2 + l3
      BY LeftFacts, Zenon DEF l1, l2, l3
    <3> QED  BY <1>6, <3>1
  <2>2. Upto(n, 2) = l2 /\ Upto(n, 3) = l2 + l3
    <3>1. Len(Part(2, 1)) = 0 /\ Len(Part(2, 2)) = l2 /\ Len(Part(2, 3)) = l3
      BY PartFacts
    <3>2. Upto(2, 2) = Len(Part(2, 1)) + Len(Part(2, 2)) + 0
      BY DEF Upto
    <3>3. Upto(2, 3) = Len(Part(2, 1)) + Len(Part(2, 2)) + Len(Part(2, 3))
      BY DEF Upto
    <3>4. \A y, z \in Nat : 0 + y + 0 = y /\ 0 + y + z = y + z
      OBVIOUS
    <3>5. Upto(2, 2) = 0 + l2 + 0
      BY <3>1, <3>2, Zenon
    <3>6. Upto(2, 3) = 0 + l2 + l3
      BY <3>1, <3>3, Zenon
    <3>7. Upto(2, 2) = l2 /\ Upto(2, 3) = l2 + l3
      BY <1>0, <3>4, <3>5, <3>6
    <3> QED  BY <1>6, <3>7
  <2>3. \A i : i \in D <=> i \in {2, 3} /\ Upto(n, i) <= w
    BY <1>6 DEF D
  <2>4. CASE w < l2
    <3>1. D = 4 - n .. 3 - n + 0
      BY <1>0, <1>6, <2>2, <2>3, <2>4
    <3>2. Advance(n, w) = Cut(n, 0, w)
      BY <1>4, <1>6, <3>1
    <3>3. 0 \in 0 .. n - 1 /\ 2 = 4 - n + 0 /\ w - Upto(n, 2) + Len(vec[2]) \in 0 .. Len(vec[2])
      BY <1>0, <1>6, <2>2, <2>4
    <3>4. w < Len(Left(vec, n))
      BY <1>0, <2>1, <2>4
    <3> QED  BY <3>2, <3>3, <3>4
  <2>5. CASE w >= l2 /\ w < l2 + l3
    <3>1. D = 4 - n .. 3 - n + 1
      BY <1>0, <1>6, <2>2, <2>3, <2>5
    <3>2. Advance(n, w) = Cut(n, 1, w)
      BY <1>4, <1>6, <3>1
    <3>3. 1 \in 0 .. n - 1 /\ 3 = 4 - n + 1 /\ w - Upto(n, 3) + Len(vec[3]) \in 0 .. Len(vec[3])
      BY <1>0, <1>6, <2>2, <2>5
    <3>4. w < Len(Left(vec, n))
      BY <1>0, <2>1, <2>5
    <3> QED  BY <3>2, <3>3, <3>4
  <2>6. CASE w = l2 + l3
    <3>1. D = 4 - n .. 3 - n + 2
      BY <1>0, <1>6, <2>2, <2>3, <2>6
    <3>2. Advance(n, w) = Cut(n, n, w)
      BY <1>4, <1>6, <3>1
    <3> QED  BY <1>2, <2>1, <2>6, <3>2
  <2> QED  BY <1>0, <2>1, <2>4, <2>5, <2>6
<1>7. CASE n = 1
  <2>1. Len(Left(vec, n)) = l3
    BY <1>0, <1>7, LeftFacts
  <2>2. Upto(n, 3) = l3
    BY <1>0, <1>7, PartFacts DEF Upto
  <2>3. \A i : i \in D <=> i = 3 /\ Upto(n, i) <= w
    BY <1>7 DEF D
  <2>4. CASE w < l3
    <3>1. D = 4 - n .. 3 - n + 0
      BY <1>0, <1>7, <2>2, <2>3, <2>4
    <3>2. Advance(n, w) = Cut(n, 0, w)
      BY <1>4, <1>7, <3>1
    <3>3. 0 \in 0 .. n - 1 /\ 3 = 4 - n + 0 /\ w - Upto(n, 3) + Len(vec[3]) \in 0 .. Len(vec[3])
      BY <1>0, <1>7, <2>2, <2>4
    <3>4. w < Len(Left(vec, n))
      BY <1>0, <2>1, <2>4
    <3> QED  BY <3>2, <3>3, <3>4
  <2>5. CASE w = l3
    <3>1. D = 4 - n .. 3 - n + 1
      BY <1>0, <1>7, <2>2, <2>3, <2>5
    <3>2. Advance(n, w) = Cut(n, n, w)
      BY <1>4, <1>7, <3>1
    <3> QED  BY <1>2, <2>1, <2>5, <3>2
  <2> QED  BY <1>0, <2>1, <2>4, <2>5
<1> QED  BY <1>5, <1>6, <1>7

\* What is left after that.
LEMMA CutLeft ==
  ASSUME NEW v \in [1 .. 3 -> Seq(Bytes)], NEW n \in 1 .. 3, NEW i \in 1 .. 3, i >= 4 - n,
         NEW c \in 0 .. Len(v[i]), NEW w \in Nat,
         w = c + (IF 1 >= 4 - n /\ i > 1 THEN Len(v[1]) ELSE 0) + (IF 2 >= 4 - n /\ i > 2 THEN Len(v[2]) ELSE 0)
  PROVE  Left([v EXCEPT ![i] = SubSeq(v[i], c + 1, Len(v[i]))], 4 - i) = SubSeq(Left(v, n), w + 1, Len(Left(v, n)))
<1> DEFINE u == [v EXCEPT ![i] = SubSeq(v[i], c + 1, Len(v[i]))]
<1>1. /\ v[1] \in Seq(Bytes) /\ v[2] \in Seq(Bytes) /\ v[3] \in Seq(Bytes)
      /\ v[2] \o v[3] \in Seq(Bytes) /\ Len(v[2] \o v[3]) = Len(v[2]) + Len(v[3])
      /\ Len(v[1]) \in Nat /\ Len(v[2]) \in Nat /\ Len(v[3]) \in Nat
  OBVIOUS
<1>2. u \in [1 .. 3 -> Seq(Bytes)] /\ u[i] = SubSeq(v[i], c + 1, Len(v[i])) /\ \A j \in 1 .. 3 \ {i} : u[j] = v[j]
  <2>1. v[i] \in Seq(Bytes)
    OBVIOUS
  <2>2. SubSeq(v[i], c + 1, Len(v[i])) \in Seq(Bytes)
    BY <2>1
  <2> QED  BY <2>2
<1> HIDE DEF u
<1>3. ASSUME NEW d \in 0 .. Len(v[2] \o v[3]), NEW x, NEW y, x = d + Len(v[1]), y = Len(Left(v, 3))
      PROVE  SubSeq(Left(v, 3), x + 1, y) = SubSeq(v[2] \o v[3], d + 1, Len(v[2] \o v[3]))
  <2>1. x \in Len(v[1]) .. Len(v[1]) + Len(v[2] \o v[3]) /\ x - Len(v[1]) = d
    BY <1>1, <1>3
  <2>2. Left(v, 3) = v[1] \o (v[2] \o v[3])
    BY LeftFacts
  <2>3. SubSeq(v[1] \o (v[2] \o v[3]), x + 1, Len(v[1] \o (v[2] \o v[3])))
          = SubSeq(v[2] \o v[3], x - Len(v[1]) + 1, Len(v[2] \o v[3]))
    BY <1>1, <2>1, CutSecond, ZenonT(60)
  <2> QED  BY <1>3, <2>1, <2>2, <2>3, Zenon
<1>4. CASE i = 1
  <2>1. n = 3 /\ w = c /\ c \in 0 .. Len(v[1]) /\ 4 - i = 3
    BY <1>4
  <2>2. SubSeq(v[1] \o (v[2] \o v[3]), c + 1, Len(v[1] \o (v[2] \o v[3])))
          = SubSeq(v[1], c + 1, Len(v[1])) \o (v[2] \o v[3])
    BY <1>1, <2>1, CutFirst
  <2>3. u[1] = SubSeq(v[1], c + 1, Len(v[1])) /\ u[2] = v[2] /\ u[3] = v[3]
    BY <1>2, <1>4
  <2>4. Left(u, 3) = u[1] \o (u[2] \o u[3]) /\ Left(v, 3) = v[1] \o (v[2] \o v[3])
    BY <1>2, LeftFacts
  <2>5. Left(u, 4 - i) = SubSeq(Left(v, n), w + 1, Len(Left(v, n)))
    BY <2>1, <2>2, <2>3, <2>4
  <2> QED  BY <2>5 DEF u
<1>5. CASE i = 2
  <2>1. c \in 0 .. Len(v[2]) /\ 4 - i = 2 /\ (n = 2 \/ n = 3)
    BY <1>5
  <2>2. SubSeq(v[2] \o v[3], c + 1, Len(v[2] \o v[3])) = SubSeq(v[2], c + 1, Len(v[2])) \o v[3]
    BY <1>1, <2>1, CutFirst
  <2>3. u[2] = SubSeq(v[2], c + 1, Len(v[2])) /\ u[3] = v[3]
    BY <1>2, <1>5
  <2>4. Left(u, 2) = u[2] \o u[3] /\ Left(v, 2) = v[2] \o v[3]
    BY <1>2, LeftFacts
  <2>5. CASE n = 2
    <3>1. w = c
      BY <1>5, <2>5
    <3>2. Left(u, 4 - i) = SubSeq(Left(v, n), w + 1, Len(Left(v, n)))
      BY <2>1, <2>2, <2>3, <2>4, <2>5, <3>1
    <3> QED  BY <3>2 DEF u
  <2>6. CASE n = 3
    <3>1. w = c + Len(v[1]) /\ c \in 0 .. Len(v[2] \o v[3])
      BY <1>1, <1>5, <2>1, <2>6
    <3>2. SubSeq(Left(v, 3), w + 1, Len(Left(v, 3))) = SubSeq(v[2] \o v[3], c + 1, Len(v[2] \o v[3]))
      BY <1>3, <3>1
    <3>3. Left(u, 4 - i) = SubSeq(Left(v, n), w + 1, Len(Left(v, n)))
      BY <2>1, <2>2, <2>3, <2>4, <2>6, <3>2
    <3> QED  BY <3>3 DEF u
  <2> QED  BY <2>1, <2>5, <2>6
<1>6. CASE i = 3
  <2>1. c \in 0 .. Len(v[3]) /\ 4 - i = 1
    BY <1>6
  <2>2. u[3] = SubSeq(v[3], c + 1, Len(v[3]))
    BY <1>2, <1>6
  <2>3. Left(u, 1) = u[3] /\ Left(v, 1) = v[3] /\ Left(v, 2) = v[2] \o v[3]
    BY <1>2, LeftFacts
  <2>4. SubSeq(v[2] \o v[3], Len(v[2]) + c + 1, Len(v[2] \o v[3])) = SubSeq(v[3], c + 1, Len(v[3]))
    <3>1. Len(v[2]) + c \in Len(v[2]) .. Len(v[2]) + Len(v[3]) /\ Len(v[2]) + c - Len(v[2]) = c
      BY <1>1, <2>1
    <3> QED  BY <1>1, <3>1, CutSecond
  <2>5. CASE n = 1
    <3>1. w = c
      BY <1>6, <2>5
    <3>2. Left(u, 4 - i) = SubSeq(Left(v, n), w + 1, Len(Left(v, n)))
      BY <2>1, <2>2, <2>3, <2>5, <3>1
    <3> QED  BY <3>2 DEF u
  <2>6. CASE n = 2
    <3>1. w = Len(v[2]) + c
      BY <1>1, <1>6, <2>1, <2>6
    <3>2. Left(u, 4 - i) = SubSeq(Left(v, n), w + 1, Len(Left(v, n)))
      BY <2>1, <2>2, <2>3, <2>4, <2>6, <3>1
    <3> QED  BY <3>2 DEF u
  <2>7. CASE n = 3
    <3>1. w = (Len(v[2]) + c) + Len(v[1]) /\ Len(v[2]) + c \in 0 .. Len(v[2] \o v[3])
      BY <1>1, <1>6, <2>1, <2>7
    <3>2. SubSeq(Left(v, 3), w + 1, Len(Left(v, 3)))
            = SubSeq(v[2] \o v[3], Len(v[2]) + c + 1, Len(v[2] \o v[3]))
      BY <1>3, <3>1
    <3>3. Left(u, 4 - i) = SubSeq(Left(v, n), w + 1, Len(Left(v, n)))
      BY <2>1, <2>2, <2>3, <2>4, <2>7, <3>2
    <3> QED  BY <3>3 DEF u
  <2>8. n = 1 \/ n = 2 \/ n = 3
    OBVIOUS
  <2> QED  BY <2>5, <2>6, <2>7, <2>8, Zenon
<1>7. i = 1 \/ i = 2 \/ i = 3
  OBVIOUS
<1> QED  BY <1>4, <1>5, <1>6, <1>7, Zenon

-----------------------------------------------------------------------------
(* The wire. *)

\* Types of what the child and the socket keep.
ChildOK ==
    /\ rbuf \in Seq(Bytes) /\ resp \in Seq(Bytes) /\ req \in Seq(Names \union {Garbage})
    /\ cpc \in {"read", "write", "dead"} /\ vec \in [1 .. 3 -> Seq(Bytes)] /\ nvec \in 0 .. 3
    /\ cpc = "write" <=> nvec # 0

\* What the client will read: what it has in its buffer, what is on the socket
\* and what the child has yet to write.
Wire == rbuf \o (resp \o Rest)

\* "missing" is one part and one byte.
LEMMA MissingType ==
  ASSUME NEW o \in Names
  PROVE  Missing(o) \in [1 .. 3 -> Seq(Bytes)] /\ Left(Missing(o), 1) = << Byte("missing", o) >>
<1>1. Byte("missing", o) \in Bytes
  BY DEF Bytes, Byte
<1>2. << >> \in Seq(Bytes) /\ << Byte("missing", o) >> \in Seq(Bytes)
  BY <1>1
<1>3. ASSUME NEW x \in Seq(Bytes), NEW y \in Seq(Bytes), NEW z \in Seq(Bytes)
      PROVE  << x, y, z >> \in [1 .. 3 -> Seq(Bytes)] /\ << x, y, z >>[3] = z
  OBVIOUS
<1>4. Missing(o) \in [1 .. 3 -> Seq(Bytes)] /\ Missing(o)[3] = << Byte("missing", o) >>
  BY <1>2, <1>3 DEF Missing
<1> QED  BY <1>4, LeftFacts

\* Bytes up to the end of a part.
LEMMA UptoFacts ==
  ASSUME vec \in [1 .. 3 -> Seq(Bytes)], NEW n \in 1 .. 3
  PROVE  /\ n = 3 => /\ Upto(n, 1) = Len(vec[1]) /\ Upto(n, 2) = Len(vec[1]) + Len(vec[2])
                     /\ Upto(n, 3) = Len(vec[1]) + Len(vec[2]) + Len(vec[3])
         /\ n = 2 => Upto(n, 2) = Len(vec[2]) /\ Upto(n, 3) = Len(vec[2]) + Len(vec[3])
         /\ n = 1 => Upto(n, 3) = Len(vec[3])
<1> DEFINE l1 == Len(vec[1])
           l2 == Len(vec[2])
           l3 == Len(vec[3])
<1>1. l1 \in Nat /\ l2 \in Nat /\ l3 \in Nat /\ Len(<< >>) = 0
  BY PartFacts
<1>2. /\ Len(Part(3, 1)) = l1 /\ Len(Part(3, 2)) = l2 /\ Len(Part(3, 3)) = l3
      /\ Len(Part(2, 1)) = 0 /\ Len(Part(2, 2)) = l2 /\ Len(Part(2, 3)) = l3
      /\ Len(Part(1, 1)) = 0 /\ Len(Part(1, 2)) = 0 /\ Len(Part(1, 3)) = l3
  BY <1>1, PartFacts, Zenon
<1> HIDE DEF l1, l2, l3
<1>3. Upto(3, 1) = l1 /\ Upto(3, 2) = l1 + l2 /\ Upto(3, 3) = l1 + l2 + l3
  <2>1. Upto(3, 1) = Len(Part(3, 1)) + 0 + 0
    BY DEF Upto
  <2>2. Upto(3, 2) = Len(Part(3, 1)) + Len(Part(3, 2)) + 0
    BY DEF Upto
  <2>3. Upto(3, 3) = Len(Part(3, 1)) + Len(Part(3, 2)) + Len(Part(3, 3))
    BY DEF Upto
  <2>4. Upto(3, 1) = l1 + 0 + 0 /\ Upto(3, 2) = l1 + l2 + 0 /\ Upto(3, 3) = l1 + l2 + l3
    BY <1>2, <2>1, <2>2, <2>3, Zenon
  <2> QED  BY <1>1, <2>4
<1>4. Upto(2, 2) = l2 /\ Upto(2, 3) = l2 + l3
  <2>1. Upto(2, 2) = Len(Part(2, 1)) + Len(Part(2, 2)) + 0
    BY DEF Upto
  <2>2. Upto(2, 3) = Len(Part(2, 1)) + Len(Part(2, 2)) + Len(Part(2, 3))
    BY DEF Upto
  <2>3. Upto(2, 2) = 0 + l2 + 0 /\ Upto(2, 3) = 0 + l2 + l3
    BY <1>2, <2>1, <2>2, Zenon
  <2> QED  BY <1>1, <2>3
<1>5. Upto(1, 3) = l3
  <2>1. Upto(1, 3) = Len(Part(1, 1)) + Len(Part(1, 2)) + Len(Part(1, 3))
    BY DEF Upto
  <2>2. Upto(1, 3) = 0 + 0 + l3
    BY <1>2, <2>1, Zenon
  <2> QED  BY <1>1, <2>2
<1> QED  BY <1>3, <1>4, <1>5, Zenon DEF l1, l2, l3

\* cat_oid has less left of its answer.
LEMMA AdvanceLeft ==
  ASSUME vec \in [1 .. 3 -> Seq(Bytes)], NEW n \in 1 .. 3, NEW w \in 1 .. Len(Left(vec, n)),
         NEW v, v = IF Advance(n, w).n = 0 THEN Missing(NoObj) ELSE Advance(n, w).v
  PROVE  /\ v \in [1 .. 3 -> Seq(Bytes)] /\ Advance(n, w).n \in 0 .. 3
         /\ Left(v, Advance(n, w).n) = SubSeq(Left(vec, n), w + 1, Len(Left(vec, n)))
<1>0. Left(vec, n) \in Seq(Bytes)
  <2>1. n \in 0 .. 3
    OBVIOUS
  <2> QED  BY <2>1, LeftFacts
<1>1. CASE w = Len(Left(vec, n)) /\ Advance(n, w).n = 0
  <2>1. v = Missing(NoObj) /\ NoObj \in Names
    BY <1>1 DEF Names
  <2>2. v \in [1 .. 3 -> Seq(Bytes)]
    BY <2>1, MissingType
  <2>3. Left(v, 0) = << >>
    BY <2>2, LeftFacts
  <2>4. ASSUME NEW b \in Seq(Bytes) PROVE SubSeq(b, Len(b) + 1, Len(b)) = << >>
    OBVIOUS
  <2>5. SubSeq(Left(vec, n), w + 1, Len(Left(vec, n))) = << >>
    BY <1>0, <1>1, <2>4, Zenon
  <2>6. 0 \in 0 .. 3
    OBVIOUS
  <2> QED  BY <1>1, <2>2, <2>3, <2>5, <2>6, Zenon
<1>2. ASSUME NEW k \in 0 .. n - 1, NEW i \in 1 .. 3, NEW c \in 0 .. Len(vec[i]),
             i = 4 - n + k, c = w - Upto(n, i) + Len(vec[i]), Advance(n, w) = Cut(n, k, w)
      PROVE  /\ v \in [1 .. 3 -> Seq(Bytes)] /\ Advance(n, w).n \in 0 .. 3
             /\ Left(v, Advance(n, w).n) = SubSeq(Left(vec, n), w + 1, Len(Left(vec, n)))
  <2>0. w \in Nat
    OBVIOUS
  <2>1. /\ Cut(n, k, w).n = n - k /\ Cut(n, k, w).v \in [1 .. 3 -> Seq(Bytes)]
        /\ Cut(n, k, w).v = [j \in 1 .. 3 |-> IF j = i THEN SubSeq(vec[i], c + 1, Len(vec[i])) ELSE vec[j]]
    <3>1. vec[i] \in Seq(Bytes)
      OBVIOUS
    <3>2. SubSeq(vec[i], c + 1, Len(vec[i])) \in Seq(Bytes)
      BY <3>1
    <3>3. Cut(n, k, w).v = [j \in 1 .. 3 |-> IF j = i THEN SubSeq(vec[i], c + 1, Len(vec[i])) ELSE vec[j]]
      BY <1>2 DEF Cut
    <3> QED  BY <3>2, <3>3 DEF Cut
  <2>2. n - k = 4 - i /\ n - k # 0 /\ n - k \in 0 .. 3 /\ i >= 4 - n
    BY <1>2
  <2>3. v = Cut(n, k, w).v /\ Advance(n, w).n = 4 - i
    BY <1>2, <2>1, <2>2
  <2>4. v = [vec EXCEPT ![i] = SubSeq(vec[i], c + 1, Len(vec[i]))]
    BY <2>1, <2>3
  <2>5. vec[1] \in Seq(Bytes) /\ vec[2] \in Seq(Bytes) /\ vec[3] \in Seq(Bytes)
        /\ Len(vec[1]) \in Nat /\ Len(vec[2]) \in Nat /\ Len(vec[3]) \in Nat
    OBVIOUS
  <2>6. w = c + (IF 1 >= 4 - n /\ i > 1 THEN Len(vec[1]) ELSE 0) + (IF 2 >= 4 - n /\ i > 2 THEN Len(vec[2]) ELSE 0)
    <3> DEFINE l1 == Len(vec[1])
               l2 == Len(vec[2])
               l3 == Len(vec[3])
    <3>0. l1 \in Nat /\ l2 \in Nat /\ l3 \in Nat
      BY <2>5
    <3>1. /\ n = 3 => Upto(n, 1) = l1 /\ Upto(n, 2) = l1 + l2 /\ Upto(n, 3) = l1 + l2 + l3
          /\ n = 2 => Upto(n, 2) = l2 /\ Upto(n, 3) = l2 + l3
          /\ n = 1 => Upto(n, 3) = l3
      BY UptoFacts
    <3>2. /\ i = 1 => n = 3 /\ c = w - Upto(n, 1) + l1
          /\ i = 2 => (n = 2 \/ n = 3) /\ c = w - Upto(n, 2) + l2
          /\ i = 3 => (n = 1 \/ n = 2 \/ n = 3) /\ c = w - Upto(n, 3) + l3
      BY <1>2, <2>2
    <3>3. i = 1 \/ i = 2 \/ i = 3
      OBVIOUS
    <3> HIDE DEF l1, l2, l3
    <3>4. w = c + (IF 1 >= 4 - n /\ i > 1 THEN l1 ELSE 0) + (IF 2 >= 4 - n /\ i > 2 THEN l2 ELSE 0)
      <4>1. CASE i = 1
        BY <2>0, <3>0, <3>1, <3>2, <4>1
      <4>2. CASE i = 2 /\ n = 2
        BY <2>0, <3>0, <3>1, <3>2, <4>2
      <4>3. CASE i = 2 /\ n = 3
        BY <2>0, <3>0, <3>1, <3>2, <4>3
      <4>4. CASE i = 3 /\ n = 1
        BY <2>0, <3>0, <3>1, <3>2, <4>4
      <4>5. CASE i = 3 /\ n = 2
        BY <2>0, <3>0, <3>1, <3>2, <4>5
      <4>6. CASE i = 3 /\ n = 3
        <5>1. Upto(n, 3) = l1 + l2 + l3 /\ c = w - Upto(n, 3) + l3
          BY <3>1, <3>2, <4>6
        <5>2. c = w - (l1 + l2 + l3) + l3
          BY <5>1
        <5>3. w = c + l1 + l2
          BY <2>0, <3>0, <5>2
        <5> QED  BY <4>6, <5>3
      <4> QED  BY <3>2, <3>3, <4>1, <4>2, <4>3, <4>4, <4>5, <4>6
    <3> QED  BY <3>4, Zenon DEF l1, l2
  <2>7. Left([vec EXCEPT ![i] = SubSeq(vec[i], c + 1, Len(vec[i]))], 4 - i) = SubSeq(Left(vec, n), w + 1, Len(Left(vec, n)))
    BY <2>0, <2>2, <2>6, CutLeft, ZenonT(60)
  <2> QED  BY <2>1, <2>2, <2>3, <2>4, <2>7
<1> QED  BY <1>1, <1>2, AdvanceFacts

\* writev takes bytes from the child to the socket.
LEMMA CatOidWire ==
  ASSUME ChildOK, cat_oid
  PROVE  /\ ChildOK' /\ Wire' = Wire /\ cpc # "dead" /\ cpc' # "dead"
         /\ UNCHANGED <<rbuf, req>> /\ view' \in {view, objs} /\ (kind = "git" => view' = view)
<1>1. /\ cpc = "write" /\ nvec # 0
      /\ vec \in [1 .. 3 -> Seq(Bytes)] /\ resp \in Seq(Bytes) /\ rbuf \in Seq(Bytes) /\ req \in Seq(Names \union {Garbage})
  BY DEF cat_oid, ChildOK
<1>2. UNCHANGED <<rbuf, req>>
  BY DEF cat_oid, client
<1>3. PICK n \in 1 .. 3 : n = nvec
  <2>1. nvec \in 0 .. 3 /\ nvec # 0
    BY <1>1 DEF ChildOK
  <2> QED  BY <2>1
<1>4. Rest = Left(vec, n) /\ Rest' = Left(vec', nvec') /\ Left(vec, n) \in Seq(Bytes)
  <2>1. n \in 0 .. 3
    OBVIOUS
  <2>2. Left(vec, n) \in Seq(Bytes)
    BY <1>1, <2>1, LeftFacts
  <2> QED  BY <1>3, <2>2, RestIsLeft
<1> DEFINE b == Left(vec, n)
<1>5. PICK w \in 1 .. Min({Len(b), RespCap - Len(resp)}) :
        /\ resp' = resp \o SubSeq(b, 1, w)
        /\ nvec' = Advance(n, w).n
        /\ vec' = IF Advance(n, w).n = 0 THEN Missing(NoObj) ELSE Advance(n, w).v
        /\ cpc' = IF Advance(n, w).n = 0 THEN "read" ELSE "write"
        /\ view' \in {view, IF kind = "gcf2" /\ Advance(n, w).n = 0 THEN objs ELSE view}
  <2>1. Part(n, 1) \o Part(n, 2) \o Part(n, 3) = b
    BY <1>3, <1>4, Zenon DEF Rest
  <2> HIDE DEF b
  <2>2. \E w \in 1 .. Min({Len(Part(n, 1) \o Part(n, 2) \o Part(n, 3)), RespCap - Len(resp)}) :
        /\ resp' = resp \o SubSeq(Part(n, 1) \o Part(n, 2) \o Part(n, 3), 1, w)
        /\ nvec' = Advance(n, w).n
        /\ vec' = IF Advance(n, w).n = 0 THEN Missing(NoObj) ELSE Advance(n, w).v
        /\ cpc' = IF Advance(n, w).n = 0 THEN "read" ELSE "write"
        /\ view' \in {view, IF kind = "gcf2" /\ Advance(n, w).n = 0 THEN objs ELSE view}
    BY <1>3, Zenon DEF cat_oid
  <2> QED  BY <2>1, <2>2, Zenon
<1>6. w \in 1 .. Len(b)
  <2>1. Len(b) \in Int /\ RespCap - Len(resp) \in Int
    BY <1>1, <1>4, CapAssumption
  <2>2. \A x, y \in Int : Min({x, y}) \in {x, y} /\ Min({x, y}) <= x
    <3> TAKE x, y \in Int
    <3>1. \E m \in {x, y} : \A z \in {x, y} : m <= z
      OBVIOUS
    <3>2. Min({x, y}) \in {x, y} /\ \A z \in {x, y} : Min({x, y}) <= z
      BY <3>1 DEF Min
    <3> QED  BY <3>2
  <2>3. Min({Len(b), RespCap - Len(resp)}) \in Int /\ Min({Len(b), RespCap - Len(resp)}) <= Len(b)
    BY <2>1, <2>2
  <2> HIDE DEF b
  <2> QED  BY <2>1, <2>3
<1>7. /\ SubSeq(b, 1, w) \in Seq(Bytes) /\ SubSeq(b, w + 1, Len(b)) \in Seq(Bytes)
      /\ SubSeq(b, 1, w) \o SubSeq(b, w + 1, Len(b)) = b
  <2> HIDE DEF b
  <2>1. b \in Seq(Bytes) /\ w \in 0 .. Len(b)
    BY <1>4, <1>6 DEF b
  <2> QED  BY <2>1, CutWhole
<1>8. /\ vec' \in [1 .. 3 -> Seq(Bytes)] /\ nvec' \in 0 .. 3 /\ Rest' = SubSeq(b, w + 1, Len(b))
  <2>0. w \in 1 .. Len(Left(vec, n))
    BY <1>6
  <2>1. PICK v : v = vec'
    OBVIOUS
  <2>2. v = IF Advance(n, w).n = 0 THEN Missing(NoObj) ELSE Advance(n, w).v
    BY <1>5, <2>1, Zenon
  <2>3. /\ v \in [1 .. 3 -> Seq(Bytes)] /\ Advance(n, w).n \in 0 .. 3
        /\ Left(v, Advance(n, w).n) = SubSeq(Left(vec, n), w + 1, Len(Left(vec, n)))
    BY <1>1, <2>0, <2>2, AdvanceLeft
  <2> QED  BY <1>4, <1>5, <2>1, <2>3, Zenon
<1>9. resp' \in Seq(Bytes) /\ resp' \o Rest' = resp \o Rest
  <2> HIDE DEF b
  <2>1. resp' \o Rest' = (resp \o SubSeq(b, 1, w)) \o SubSeq(b, w + 1, Len(b))
    BY <1>5, <1>8, Zenon
  <2>2. (resp \o SubSeq(b, 1, w)) \o SubSeq(b, w + 1, Len(b)) = resp \o (SubSeq(b, 1, w) \o SubSeq(b, w + 1, Len(b)))
    <3>1. ASSUME NEW x \in Seq(Bytes), NEW y \in Seq(Bytes), NEW z \in Seq(Bytes)
          PROVE  (x \o y) \o z = x \o (y \o z)
      BY ConcatAssociative
    <3> QED  BY <1>1, <1>7, <3>1, Zenon
  <2>3. resp' \in Seq(Bytes)
    BY <1>1, <1>5, <1>7
  <2>4. b = Rest
    BY <1>4, Zenon DEF b
  <2> QED  BY <1>7, <2>1, <2>2, <2>3, <2>4, Zenon
<1>10. cpc' \in {"read", "write"} /\ (cpc' = "write" <=> nvec' # 0)
  BY <1>5, Zenon
<1>11. ChildOK'
  BY <1>1, <1>2, <1>8, <1>9, <1>10 DEF ChildOK
<1>12. Wire' = Wire
  BY <1>2, <1>9, Zenon DEF Wire
<1> QED  BY <1>1, <1>2, <1>5, <1>10, <1>11, <1>12

-----------------------------------------------------------------------------
(* Answers on the wire, one after the other. *)

\* Byte i of object o as cat_oid sends it.
BlobByte(o, i) == Byte(IF i = 1 THEN "hdr" ELSE IF i = Size[o] + 2 THEN "lf" ELSE "data", o)

\* The bytes of W after a and up to b, as far as they are there, are the answer
\* to a request for o: the object, or that it is missing.
IsBlob(W, o, a, b) ==
    /\ o \in Objs /\ b = a + (Size[o] + 2)
    /\ \A i \in 1 .. Size[o] + 2 : a + i <= Len(W) => W[a + i] = BlobByte(o, i)
IsMissing(W, o, a, b) == b = a + 1 /\ (b <= Len(W) => W[b] = Byte("missing", o))

\* W is what the first k requests of the array I are answered with, up to the
\* middle of an answer: p[j] is where the j-th answer ends.  Only those in M may
\* be told that their object is missing.
Framed(W, I, A, M, k, p) ==
    /\ p \in [0 .. k -> Nat] /\ p[0] = 0 /\ Len(W) <= p[k]
    /\ \A i, j \in 0 .. k : i <= j => p[i] <= p[j]
    /\ \A j \in 1 .. k : \/ IsBlob(W, A[I[j]].o, p[j - 1], p[j])
                         \/ I[j] \in M /\ IsMissing(W, A[I[j]].o, p[j - 1], p[j])

\* Nothing was sent yet.
LEMMA FramedNone ==
  ASSUME NEW I, NEW A, NEW M
  PROVE  \E p \in [0 .. 0 -> Nat] : Framed(<< >>, I, A, M, 0, p) /\ p[0] = 0
<1> DEFINE p == [j \in 0 .. 0 |-> 0]
<1>1. p \in [0 .. 0 -> Nat] /\ p[0] = 0 /\ Len(<< >>) = 0
  OBVIOUS
<1>2. \A i, j \in 0 .. 0 : i = 0 /\ j = 0
  OBVIOUS
<1>3. 1 .. 0 = {}
  OBVIOUS
<1> HIDE DEF p
<1>4. Framed(<< >>, I, A, M, 0, p)
  BY <1>1, <1>2, <1>3 DEF Framed
<1> QED  BY <1>1, <1>4

\* The answers stay what they are while others are asked for.
LEMMA FramedSame ==
  ASSUME NEW W, NEW I, NEW A, NEW M, NEW J, NEW B, NEW N, NEW k \in Nat, NEW p, Framed(W, I, A, M, k, p),
         \A j \in 1 .. k : J[j] = I[j] /\ B[I[j]].o = A[I[j]].o /\ (I[j] \in M => I[j] \in N)
  PROVE  Framed(W, J, B, N, k, p)
<1>1. ASSUME NEW j \in 1 .. k
      PROVE  \/ IsBlob(W, B[J[j]].o, p[j - 1], p[j])
             \/ J[j] \in N /\ IsMissing(W, B[J[j]].o, p[j - 1], p[j])
  <2>1. \/ IsBlob(W, A[I[j]].o, p[j - 1], p[j])
        \/ I[j] \in M /\ IsMissing(W, A[I[j]].o, p[j - 1], p[j])
    BY DEF Framed
  <2>2. J[j] = I[j] /\ B[I[j]].o = A[I[j]].o /\ (I[j] \in M => I[j] \in N)
    OBVIOUS
  <2> QED  BY <2>1, <2>2, Zenon
<1> QED  BY <1>1 DEF Framed

\* The end of the wire is lost with the child.
LEMMA FramedCut ==
  ASSUME NEW S, NEW W \in Seq(S), NEW X \in Seq(S), NEW I, NEW A, NEW M, NEW k \in Nat, NEW p,
         Framed(W \o X, I, A, M, k, p)
  PROVE  Framed(W, I, A, M, k, p)
<1>1. /\ Len(W) \in Nat /\ Len(X) \in Nat /\ Len(W \o X) = Len(W) + Len(X) /\ \A i \in 1 .. Len(W) : (W \o X)[i] = W[i]
  OBVIOUS
<1>2. p \in [0 .. k -> Nat] /\ p[0] = 0 /\ \A i, j \in 0 .. k : i <= j => p[i] <= p[j]
  BY DEF Framed
<1>3. Len(W) <= p[k]
  <2>1. Len(W \o X) <= p[k] /\ p[k] \in Nat
    BY <1>2 DEF Framed
  <2> QED  BY <1>1, <2>1
<1>4. ASSUME NEW j \in 1 .. k
      PROVE  \/ IsBlob(W, A[I[j]].o, p[j - 1], p[j])
             \/ I[j] \in M /\ IsMissing(W, A[I[j]].o, p[j - 1], p[j])
  <2>1. p[j - 1] \in Nat /\ p[j] \in Nat
    BY <1>2
  <2>2. \/ IsBlob(W \o X, A[I[j]].o, p[j - 1], p[j])
        \/ I[j] \in M /\ IsMissing(W \o X, A[I[j]].o, p[j - 1], p[j])
    BY DEF Framed
  <2>3. ASSUME NEW o, NEW a \in Nat, NEW b \in Nat, IsBlob(W \o X, o, a, b) PROVE IsBlob(W, o, a, b)
    <3>1. o \in Objs /\ b = a + (Size[o] + 2) /\ Size[o] \in Nat
      BY <2>3, ObjAssumption DEF IsBlob
    <3>2. ASSUME NEW i \in 1 .. Size[o] + 2, a + i <= Len(W) PROVE W[a + i] = BlobByte(o, i)
      <4>1. a + i \in 1 .. Len(W) /\ a + i <= Len(W \o X)
        BY <1>1, <3>1, <3>2
      <4>2. (W \o X)[a + i] = BlobByte(o, i)
        BY <2>3, <4>1 DEF IsBlob
      <4> QED  BY <1>1, <4>1, <4>2
    <3> QED  BY <3>1, <3>2 DEF IsBlob
  <2>4. ASSUME NEW o, NEW a \in Nat, NEW b \in Nat, IsMissing(W \o X, o, a, b) PROVE IsMissing(W, o, a, b)
    <3>1. CASE b <= Len(W)
      <4>1. b \in 1 .. Len(W) /\ b <= Len(W \o X) /\ b = a + 1
        BY <1>1, <2>4, <3>1 DEF IsMissing
      <4> QED  BY <1>1, <2>4, <4>1 DEF IsMissing
    <3> QED  BY <2>4, <3>1 DEF IsMissing
  <2> QED  BY <2>1, <2>2, <2>3, <2>4, Zenon
<1> QED  BY <1>2, <1>3, <1>4 DEF Framed

\* X is an answer to a request for o, of which m says if it may be told "missing".
AnswerTo(X, o, m) ==
    \/ o \in Objs /\ Len(X) = Size[o] + 2 /\ \A i \in 1 .. Size[o] + 2 : X[i] = BlobByte(o, i)
    \/ m /\ Len(X) = 1 /\ X[1] = Byte("missing", o)

\* The last of the answers is whole.
Full(W, I, A, M, k, p) == Framed(W, I, A, M, k, p) /\ Len(W) = p[k]

\* One more answer is sent.
LEMMA FramedMore ==
  ASSUME NEW S, NEW W \in Seq(S), NEW X \in Seq(S), NEW I, NEW A, NEW M, NEW k \in Nat, NEW p,
         Full(W, I, A, M, k, p), AnswerTo(X, A[I[k + 1]].o, I[k + 1] \in M)
  PROVE  \E r \in [0 .. k + 1 -> Nat] : Full(W \o X, I, A, M, k + 1, r)
<1> DEFINE V == W \o X
           r == [j \in 0 .. k + 1 |-> IF j = k + 1 THEN Len(V) ELSE p[j]]
<1>1. /\ Len(W) \in Nat /\ Len(X) \in Nat /\ Len(V) = Len(W) + Len(X)
      /\ \A i \in 1 .. Len(W) : V[i] = W[i]
      /\ \A i \in 1 .. Len(X) : V[Len(W) + i] = X[i]
  OBVIOUS
<1>0. Framed(W, I, A, M, k, p) /\ Len(W) = p[k]
  BY DEF Full
<1>2. p \in [0 .. k -> Nat] /\ p[0] = 0 /\ \A i, j \in 0 .. k : i <= j => p[i] <= p[j]
  BY <1>0 DEF Framed
<1> HIDE DEF V
<1>3. /\ r \in [0 .. k + 1 -> Nat] /\ r[0] = 0 /\ r[k + 1] = Len(V) /\ \A j \in 0 .. k : r[j] = p[j]
  <2>1. \A j \in 0 .. k + 1 : j = k + 1 \/ j \in 0 .. k
    OBVIOUS
  <2>2. Len(V) \in Nat
    BY <1>1
  <2>3. r \in [0 .. k + 1 -> Nat]
    BY <1>2, <2>1, <2>2
  <2>4. r[k + 1] = Len(V) /\ \A j \in 0 .. k : r[j] = p[j]
    OBVIOUS
  <2> QED  BY <1>2, <2>3, <2>4
<1> HIDE DEF r
<1>4. ASSUME NEW i \in 0 .. k + 1, NEW j \in 0 .. k + 1, i <= j PROVE r[i] <= r[j]
  <2>1. CASE j \in 0 .. k
    <3>1. i \in 0 .. k
      BY <1>4, <2>1
    <3> QED  BY <1>2, <1>3, <1>4, <2>1, <3>1
  <2>2. CASE j = k + 1 /\ i \in 0 .. k
    <3>1. p[i] <= p[k] /\ p[i] \in Nat /\ p[k] \in Nat
      BY <1>2, <2>2
    <3>2. r[i] = p[i] /\ p[k] = Len(W) /\ r[j] = Len(W) + Len(X)
      BY <1>0, <1>1, <1>3, <2>2
    <3> QED  BY <1>1, <3>1, <3>2
  <2>3. CASE j = k + 1 /\ i = k + 1
    BY <1>1, <1>3, <2>3
  <2>4. (j \in 0 .. k \/ j = k + 1) /\ (i \in 0 .. k \/ i = k + 1)
    OBVIOUS
  <2> QED  BY <2>1, <2>2, <2>3, <2>4
<1>5. ASSUME NEW j \in 1 .. k
      PROVE  \/ IsBlob(V, A[I[j]].o, r[j - 1], r[j])
             \/ I[j] \in M /\ IsMissing(V, A[I[j]].o, r[j - 1], r[j])
  <2>0. j \in 0 .. k /\ j - 1 \in 0 .. k /\ k \in 0 .. k /\ j <= k
    OBVIOUS
  <2>1. p[j - 1] \in Nat /\ p[j] \in Nat /\ r[j - 1] = p[j - 1] /\ r[j] = p[j] /\ p[j] <= Len(W)
    <3>1. p[j - 1] \in Nat /\ p[j] \in Nat /\ r[j - 1] = p[j - 1] /\ r[j] = p[j]
      BY <1>2, <1>3, <2>0
    <3>2. p[j] <= p[k] /\ p[k] = Len(W)
      BY <1>0, <1>2, <2>0
    <3> QED  BY <3>1, <3>2
  <2>2. \/ IsBlob(W, A[I[j]].o, p[j - 1], p[j])
        \/ I[j] \in M /\ IsMissing(W, A[I[j]].o, p[j - 1], p[j])
    BY <1>0 DEF Framed
  <2>3. ASSUME NEW x, NEW a \in Nat, NEW b \in Nat, b <= Len(W), IsBlob(W, x, a, b) PROVE IsBlob(V, x, a, b)
    <3>1. x \in Objs /\ b = a + (Size[x] + 2) /\ Size[x] \in Nat
      BY <2>3, ObjAssumption DEF IsBlob
    <3>2. ASSUME NEW i \in 1 .. Size[x] + 2 PROVE V[a + i] = BlobByte(x, i)
      <4>0. PICK z \in Nat : z = Size[x]
        BY <3>1
      <4>1. a + i \in 1 .. Len(W) /\ a + i <= Len(W)
        <5>1. i \in 1 .. z + 2 /\ b = a + (z + 2)
          BY <3>1, <4>0
        <5>2. PICK n \in Nat : n = Len(W)
          BY <1>1
        <5>3. b <= n
          BY <2>3, <5>2
        <5>4. a + i \in 1 .. n /\ a + i <= n
          BY <5>1, <5>3
        <5> QED  BY <5>2, <5>4
      <4>2. W[a + i] = BlobByte(x, i)
        BY <2>3, <4>1 DEF IsBlob
      <4> QED  BY <1>1, <4>1, <4>2
    <3> QED  BY <3>1, <3>2 DEF IsBlob
  <2>4. ASSUME NEW x, NEW a \in Nat, NEW b \in Nat, b <= Len(W), IsMissing(W, x, a, b) PROVE IsMissing(V, x, a, b)
    <3>1. b \in 1 .. Len(W) /\ b = a + 1
      BY <1>1, <2>4 DEF IsMissing
    <3>2. V[b] = W[b]
      BY <1>1, <3>1
    <3> QED  BY <2>4, <3>1, <3>2 DEF IsMissing
  <2> QED  BY <2>1, <2>2, <2>3, <2>4, Zenon
<1>6. \/ IsBlob(V, A[I[k + 1]].o, r[k + 1 - 1], r[k + 1])
      \/ I[k + 1] \in M /\ IsMissing(V, A[I[k + 1]].o, r[k + 1 - 1], r[k + 1])
  <2>0. k + 1 - 1 = k /\ k \in 0 .. k
    OBVIOUS
  <2> DEFINE o == A[I[k + 1]].o
  <2> HIDE DEF o
  <2>1. r[k] = Len(W) /\ r[k + 1] = Len(W) + Len(X)
    BY <1>0, <1>1, <1>3, <2>0
  <2>2. CASE o \in Objs /\ Len(X) = Size[o] + 2 /\ \A i \in 1 .. Size[o] + 2 : X[i] = BlobByte(o, i)
    <3>1. IsBlob(V, o, r[k], r[k + 1])
      BY <1>1, <2>1, <2>2 DEF IsBlob
    <3> QED  BY <2>0, <3>1 DEF o
  <2>3. CASE I[k + 1] \in M /\ Len(X) = 1 /\ X[1] = Byte("missing", o)
    <3>1. IsMissing(V, o, r[k], r[k + 1])
      BY <1>1, <2>1, <2>3 DEF IsMissing
    <3> QED  BY <2>0, <2>3, <3>1 DEF o
  <2> QED  BY <2>2, <2>3 DEF AnswerTo, o
<1>7. Framed(V, I, A, M, k + 1, r)
  <2>1. \A j \in 1 .. k + 1 : j \in 1 .. k \/ j = k + 1
    OBVIOUS
  <2>2. \A j \in 1 .. k + 1 : \/ IsBlob(V, A[I[j]].o, r[j - 1], r[j])
                              \/ I[j] \in M /\ IsMissing(V, A[I[j]].o, r[j - 1], r[j])
    <3> TAKE j \in 1 .. k + 1
    <3>1. CASE j \in 1 .. k
      BY <1>5, <3>1
    <3>2. CASE j = k + 1
      BY <1>6, <3>2
    <3> QED  BY <2>1, <3>1, <3>2
  <2>3. Len(V) <= r[k + 1]
    BY <1>1, <1>3
  <2> QED  BY <1>3, <1>4, <2>2, <2>3 DEF Framed
<1> QED  BY <1>3, <1>7 DEF V, Full

\* What the first answer is.
LEMMA FramedFirst ==
  ASSUME NEW S, NEW W \in Seq(S), NEW I, NEW A, NEW M, NEW k \in Nat, NEW p,
         Framed(W, I, A, M, k, p), W # << >>
  PROVE  /\ k >= 1 /\ p[1] \in Nat
         /\ \/ IsBlob(W, A[I[1]].o, 0, p[1]) /\ W[1] = Byte("hdr", A[I[1]].o)
            \/ I[1] \in M /\ p[1] = 1 /\ W[1] = Byte("missing", A[I[1]].o)
<1>1. Len(W) \in Nat /\ Len(W) >= 1
  <2>1. Len(W) \in Nat /\ Len(W) # 0
    BY EmptySeq
  <2> QED  BY <2>1
<1>2. p \in [0 .. k -> Nat] /\ p[0] = 0 /\ Len(W) <= p[k]
  BY DEF Framed
<1>3. k >= 1
  BY <1>1, <1>2
<1>4. p[1] \in Nat /\ p[1 - 1] = 0 /\ 1 \in 1 .. k
  BY <1>2, <1>3
<1>5. \/ IsBlob(W, A[I[1]].o, p[1 - 1], p[1])
      \/ I[1] \in M /\ IsMissing(W, A[I[1]].o, p[1 - 1], p[1])
  BY <1>4 DEF Framed
<1>6. ASSUME NEW o, IsBlob(W, o, 0, p[1]) PROVE W[1] = Byte("hdr", o)
  <2>1. o \in Objs /\ Size[o] \in Nat
    BY <1>6, ObjAssumption DEF IsBlob
  <2>2. 1 \in 1 .. Size[o] + 2 /\ 0 + 1 <= Len(W) /\ 0 + 1 = 1
    BY <1>1, <2>1
  <2>3. W[0 + 1] = BlobByte(o, 1)
    BY <1>6, <2>2 DEF IsBlob
  <2> QED  BY <2>2, <2>3 DEF BlobByte
<1>7. ASSUME NEW o, IsMissing(W, o, 0, p[1]) PROVE p[1] = 1 /\ W[1] = Byte("missing", o)
  <2>1. p[1] = 1
    BY <1>7 DEF IsMissing
  <2> QED  BY <1>1, <1>7, <2>1 DEF IsMissing
<1> QED  BY <1>3, <1>4, <1>5, <1>6, <1>7

\* A step of arithmetic that the SMT solver does not find among sequences.
LEMMA Cancel ==
  ASSUME NEW a \in Nat, NEW b \in Nat, NEW w \in Nat, NEW z \in Nat, b + w = a + w + (z + 2)
  PROVE  b = a + (z + 2)
OBVIOUS

\* The first answer was read: w bytes of W, and an entry of I.
Taken(W, V, I, J, k, p, w) ==
    /\ w = p[1] /\ Len(W) \in Nat /\ Len(V) = Len(W) - w /\ w <= Len(W)
    /\ \A i \in 1 .. Len(W) - w : V[i] = W[w + i]
    /\ \A j \in 1 .. k - 1 : J[j] = I[j + 1]

\* Taking the first answer off the wire leaves the others framed.
LEMMA FramedRest ==
  ASSUME NEW W, NEW V, NEW I, NEW J, NEW A, NEW M, NEW k \in Nat \ {0}, NEW p, Framed(W, I, A, M, k, p),
         NEW w \in Nat, Taken(W, V, I, J, k, p, w)
  PROVE  \E r \in [0 .. k - 1 -> Nat] : Framed(V, J, A, M, k - 1, r) /\ (Len(W) = p[k] => Len(V) = r[k - 1])
<1>0. /\ w = p[1] /\ Len(W) \in Nat /\ Len(V) = Len(W) - w /\ w <= Len(W)
      /\ \A i \in 1 .. Len(W) - w : V[i] = W[w + i]
      /\ \A j \in 1 .. k - 1 : J[j] = I[j + 1]
  BY DEF Taken
<1> USE <1>0
<1> DEFINE r == [j \in 0 .. k - 1 |-> p[j + 1] - w]
<1>1. p \in [0 .. k -> Nat] /\ p[0] = 0 /\ Len(W) <= p[k] /\ \A i, j \in 0 .. k : i <= j => p[i] <= p[j]
  BY DEF Framed
<1>2. k >= 1
  OBVIOUS
<1>4. \A j \in 0 .. k - 1 : r[j] = p[j + 1] - w /\ r[j] \in Nat /\ p[j + 1] \in Nat /\ p[j + 1] = r[j] + w
  <2> TAKE j \in 0 .. k - 1
  <2>1. j + 1 \in 0 .. k /\ 1 \in 0 .. k /\ 1 <= j + 1
    OBVIOUS
  <2>2. p[j + 1] \in Nat /\ w <= p[j + 1]
    BY <1>1, <2>1
  <2>3. r[j] = p[j + 1] - w
    OBVIOUS
  <2> HIDE DEF r
  <2> QED  BY <2>2, <2>3
<1>5. r \in [0 .. k - 1 -> Nat]
  BY <1>4
<1> HIDE DEF r
<1>6. r[0] = 0 /\ r[k - 1] = p[k] - w /\ p[k] \in Nat
  <2>1. 0 \in 0 .. k - 1 /\ 0 + 1 = 1 /\ k - 1 \in 0 .. k - 1 /\ k - 1 + 1 = k
    BY <1>2
  <2>2. r[0] = p[1] - w
    BY <1>4, <2>1
  <2>3. r[k - 1] = p[k] - w /\ p[k] \in Nat
    BY <1>4, <2>1
  <2> QED  BY <2>2, <2>3
<1>7. ASSUME NEW i \in 0 .. k - 1, NEW j \in 0 .. k - 1, i <= j PROVE r[i] <= r[j]
  <2>1. i + 1 \in 0 .. k /\ j + 1 \in 0 .. k /\ i + 1 <= j + 1
    BY <1>2, <1>7
  <2>2. p[i + 1] <= p[j + 1]
    BY <1>1, <2>1
  <2>3. r[i] = p[i + 1] - w /\ r[j] = p[j + 1] - w /\ p[i + 1] \in Nat /\ p[j + 1] \in Nat
    BY <1>4
  <2>4. \A x, y \in Nat : x <= y => x - w <= y - w
    OBVIOUS
  <2> QED  BY <2>2, <2>3, <2>4, Zenon
<1>8. ASSUME NEW j \in 1 .. k - 1
      PROVE  \/ IsBlob(V, A[J[j]].o, r[j - 1], r[j])
             \/ J[j] \in M /\ IsMissing(V, A[J[j]].o, r[j - 1], r[j])
  <2>1. /\ j + 1 \in 1 .. k /\ j + 1 - 1 = j /\ j - 1 \in 0 .. k - 1 /\ j \in 0 .. k - 1 /\ j - 1 + 1 = j
    BY <1>2
  <2>2. /\ r[j - 1] \in Nat /\ r[j] \in Nat /\ p[j] = r[j - 1] + w /\ p[j + 1] = r[j] + w
    BY <1>4, <2>1
  <2>3. \/ IsBlob(W, A[I[j + 1]].o, p[j], p[j + 1])
        \/ I[j + 1] \in M /\ IsMissing(W, A[I[j + 1]].o, p[j], p[j + 1])
    BY <2>1 DEF Framed
  <2>4. ASSUME NEW x, NEW a \in Nat, NEW b \in Nat, IsBlob(W, x, a + w, b + w) PROVE IsBlob(V, x, a, b)
    <3>1. x \in Objs /\ b + w = a + w + (Size[x] + 2) /\ Size[x] \in Nat
      BY <2>4, ObjAssumption DEF IsBlob
    <3>2. b = a + (Size[x] + 2)
      <4>1. PICK z \in Nat : z = Size[x]
        BY <3>1
      <4>2. b + w = a + w + (z + 2)
        BY <3>1, <4>1
      <4>3. b = a + (z + 2)
        BY <4>2, Cancel, SMTT(20)
      <4> QED  BY <4>1, <4>3
    <3>3. ASSUME NEW i \in 1 .. Size[x] + 2, a + i <= Len(V) PROVE V[a + i] = BlobByte(x, i)
      <4>0. i \in Nat /\ i >= 1
        BY <3>1
      <4>1. a + i \in 1 .. Len(W) - w /\ a + w + i <= Len(W) /\ w + (a + i) = a + w + i
        <5>1. \A l \in Nat : a + i <= l - w => a + i \in 1 .. l - w /\ a + w + i <= l /\ w + (a + i) = a + w + i
          BY <4>0
        <5>2. a + i <= Len(W) - w
          BY <3>3
        <5> QED  BY <5>1, <5>2
      <4>2. W[a + w + i] = BlobByte(x, i)
        BY <2>4, <4>1 DEF IsBlob
      <4> QED  BY <1>2, <4>1, <4>2
    <3> QED  BY <3>1, <3>2, <3>3 DEF IsBlob
  <2>5. ASSUME NEW x, NEW a \in Nat, NEW b \in Nat, IsMissing(W, x, a + w, b + w) PROVE IsMissing(V, x, a, b)
    <3>1. b = a + 1
      BY <2>5 DEF IsMissing
    <3>2. ASSUME b <= Len(V) PROVE V[b] = Byte("missing", x)
      <4>1. b \in 1 .. Len(W) - w /\ b + w <= Len(W) /\ w + b = b + w
        BY <1>2, <3>1, <3>2
      <4>2. W[b + w] = Byte("missing", x)
        BY <2>5, <4>1 DEF IsMissing
      <4> QED  BY <1>2, <4>1, <4>2
    <3> QED  BY <3>1, <3>2 DEF IsMissing
  <2>6. J[j] = I[j + 1]
    OBVIOUS
  <2> QED  BY <2>2, <2>3, <2>4, <2>5, <2>6, Zenon
<1>9. Framed(V, J, A, M, k - 1, r)
  <2>1. Len(V) <= r[k - 1]
    BY <1>1, <1>2, <1>6
  <2> QED  BY <1>5, <1>6, <1>7, <1>8, <2>1 DEF Framed
<1>10. Len(W) = p[k] => Len(V) = r[k - 1]
  BY <1>2, <1>6
<1> QED  BY <1>5, <1>9, <1>10

-----------------------------------------------------------------------------
(* Where a request is. *)

Requests == 1 .. MaxReq
Arrays   == Seq(Seq(Requests))

\* The {inflight} arrays F have request q, and have each request once.
Array(F, g, q) == \E i \in 1 .. Len(F[g]) : F[g][i] = q
Holds(F, q)    == \E g \in 1 .. Len(F) : Array(F, g, q)
Distinct(F)    ==
    \A g, h \in 1 .. Len(F) : \A i \in 1 .. Len(F[g]), j \in 1 .. Len(F[h]) : F[g][i] = F[h][j] => g = h /\ i = j

\* A new child has an array of its own.
Extended(F, G) ==
    /\ G \in Arrays /\ Len(G) = Len(F) + 1 /\ Len(F) \in Nat
    /\ G[Len(G)] = << >> /\ \A g \in 1 .. Len(F) : G[g] = F[g]
    /\ \A q : Holds(G, q) => Holds(F, q)
    /\ Distinct(F) => Distinct(G)

\* _sock_cmd adds an empty array and keeps the others.
LEMMA ArrayNew ==
  ASSUME NEW F \in Arrays
  PROVE  Extended(F, Append(F, << >>))
<1> DEFINE G == Append(F, << >>)
<1>1. /\ Len(F) \in Nat /\ << >> \in Seq(Requests) /\ Len(<< >>) = 0
  BY DEF Arrays
<1>2. /\ G \in Arrays /\ Len(G) = Len(F) + 1
      /\ G[Len(F) + 1] = << >> /\ \A g \in 1 .. Len(F) : G[g] = F[g]
  BY <1>1, AppendProperties DEF Arrays
<1> HIDE DEF G
<1>3. \A g \in 1 .. Len(G) : g \in 1 .. Len(F) \/ (g = Len(F) + 1 /\ 1 .. Len(G[g]) = {})
  <2>1. \A g \in 1 .. Len(F) + 1 : g \in 1 .. Len(F) \/ g = Len(F) + 1
    BY <1>1
  <2>2. 1 .. Len(G[Len(F) + 1]) = {}
    BY <1>1, <1>2
  <2> QED  BY <1>2, <2>1, <2>2
<1>4. ASSUME NEW q, Holds(G, q) PROVE Holds(F, q)
  <2>1. PICK g \in 1 .. Len(G) : \E i \in 1 .. Len(G[g]) : G[g][i] = q
    BY <1>4 DEF Holds, Array
  <2>2. g \in 1 .. Len(F) /\ G[g] = F[g]
    BY <1>2, <1>3, <2>1
  <2> QED  BY <2>1, <2>2 DEF Holds, Array
<1>5. ASSUME Distinct(F) PROVE Distinct(G)
  <2>1. ASSUME NEW g \in 1 .. Len(G), NEW h \in 1 .. Len(G), NEW i \in 1 .. Len(G[g]), NEW j \in 1 .. Len(G[h]), G[g][i] = G[h][j]
        PROVE  g = h /\ i = j
    <3>1. g \in 1 .. Len(F) /\ G[g] = F[g] /\ h \in 1 .. Len(F) /\ G[h] = F[h]
      BY <1>2, <1>3
    <3> QED  BY <1>5, <2>1, <3>1 DEF Distinct
  <2> QED  BY <2>1 DEF Distinct
<1> QED  BY <1>1, <1>2, <1>4, <1>5 DEF Extended, G

\* An entry is pushed on an array.
Grown(F, G, g, q) ==
    /\ G \in Arrays /\ Len(G) = Len(F) /\ Len(F) \in Nat /\ Len(F[g]) \in Nat
    /\ Len(G[g]) = Len(F[g]) + 1 /\ G[g][Len(F[g]) + 1] = q /\ \A i \in 1 .. Len(F[g]) : G[g][i] = F[g][i]
    /\ G[g] # << >> /\ \A h \in 1 .. Len(F) : h # g => G[h] = F[h]
    /\ \A x : Holds(G, x) => Holds(F, x) \/ x = q
    /\ \A x : Array(G, g, x) => Array(F, g, x) \/ x = q
    /\ Distinct(F) /\ ~Holds(F, q) => Distinct(G)

\* Pushing a request lengthens its array by one, at the end.
LEMMA ArrayPush ==
  ASSUME NEW F \in Arrays, NEW g \in 1 .. Len(F), NEW q \in Requests
  PROVE  Grown(F, [F EXCEPT ![g] = Append(F[g], q)], g, q)
<1> DEFINE G == [F EXCEPT ![g] = Append(F[g], q)]
<1>1. F[g] \in Seq(Requests) /\ Len(F[g]) \in Nat /\ Append(F[g], q) \in Seq(Requests)
  BY DEF Arrays
<1>2. /\ G \in Arrays /\ Len(G) = Len(F) /\ Len(F) \in Nat
      /\ G[g] = Append(F[g], q) /\ \A h \in 1 .. Len(F) : h # g => G[h] = F[h]
  BY <1>1, ExceptSeq DEF Arrays
<1> HIDE DEF G
<1>3. /\ Len(G[g]) = Len(F[g]) + 1 /\ G[g][Len(F[g]) + 1] = q /\ \A i \in 1 .. Len(F[g]) : G[g][i] = F[g][i]
  BY <1>1, <1>2, AppendProperties
<1>4. G[g] # << >>
  BY <1>1, <1>3
<1>5. \A h \in 1 .. Len(F) : \A i \in 1 .. Len(G[h]) :
        (h = g /\ i = Len(F[g]) + 1 /\ G[h][i] = q) \/ (i \in 1 .. Len(F[h]) /\ G[h][i] = F[h][i])
  <2>1. \A i \in 1 .. Len(F[g]) + 1 : i = Len(F[g]) + 1 \/ i \in 1 .. Len(F[g])
    BY <1>1
  <2> QED  BY <1>2, <1>3, <2>1
<1>6. ASSUME NEW h \in 1 .. Len(F), NEW x, Array(G, h, x) PROVE Array(F, h, x) \/ x = q
  BY <1>5, <1>6 DEF Array
<1>7. \A x : Holds(G, x) => Holds(F, x) \/ x = q
  BY <1>2, <1>6 DEF Holds
<1>8. ASSUME Distinct(F), ~Holds(F, q) PROVE Distinct(G)
  <2>1. ASSUME NEW h \in 1 .. Len(F), NEW l \in 1 .. Len(F), NEW i \in 1 .. Len(G[h]), NEW j \in 1 .. Len(G[l]), G[h][i] = G[l][j]
        PROVE  h = l /\ i = j
    <3>1. \A m \in 1 .. Len(F) : \A n \in 1 .. Len(F[m]) : F[m][n] # q
      BY <1>8 DEF Holds, Array
    <3>2. CASE G[h][i] = q
      <4>1. h = g /\ i = Len(F[g]) + 1 /\ l = g /\ j = Len(F[g]) + 1
        BY <1>5, <2>1, <3>1, <3>2
      <4> QED  BY <4>1
    <3>3. CASE G[h][i] # q
      <4>1. i \in 1 .. Len(F[h]) /\ G[h][i] = F[h][i] /\ j \in 1 .. Len(F[l]) /\ G[l][j] = F[l][j]
        BY <1>5, <2>1, <3>3
      <4>2. F[h][i] = F[l][j]
        BY <2>1, <4>1, Zenon
      <4> QED  BY <1>8, <4>1, <4>2 DEF Distinct
    <3> QED  BY <3>2, <3>3
  <2> QED  BY <1>2, <2>1 DEF Distinct
<1> QED  BY <1>1, <1>2, <1>3, <1>4, <1>6, <1>7, <1>8 DEF Grown, G

\* The first entry of an array is taken.
Popped(F, G, g) ==
    /\ G \in Arrays /\ Len(G) = Len(F) /\ Len(F) \in Nat /\ Len(F[g]) \in Nat \ {0}
    /\ Head(F[g]) = F[g][1] /\ F[g][1] \in Requests /\ Holds(F, F[g][1]) /\ Array(F, g, F[g][1])
    /\ Len(G[g]) = Len(F[g]) - 1 /\ \A i \in 1 .. Len(F[g]) - 1 : G[g][i] = F[g][i + 1]
    /\ G[g] = Tail(F[g]) /\ \A h \in 1 .. Len(F) : h # g => G[h] = F[h]
    /\ \A x : Holds(G, x) => Holds(F, x)
    /\ \A x : Array(G, g, x) => Array(F, g, x)
    /\ Distinct(F) => Distinct(G) /\ ~Holds(G, F[g][1])

\* Shifting the first entry moves the others of its array up by one.
LEMMA ArrayPop ==
  ASSUME NEW F \in Arrays, NEW g \in 1 .. Len(F), F[g] # << >>
  PROVE  Popped(F, [F EXCEPT ![g] = Tail(F[g])], g)
<1> DEFINE G == [F EXCEPT ![g] = Tail(F[g])]
<1>1. /\ F[g] \in Seq(Requests) /\ Len(F[g]) \in Nat /\ Len(F[g]) # 0 /\ Tail(F[g]) \in Seq(Requests)
      /\ Head(F[g]) = F[g][1] /\ F[g][1] \in Requests
      /\ Len(Tail(F[g])) = Len(F[g]) - 1 /\ \A i \in 1 .. Len(F[g]) - 1 : Tail(F[g])[i] = F[g][i + 1]
  <2>1. F[g] \in Seq(Requests)
    BY DEF Arrays
  <2> QED  BY <2>1, EmptySeq, HeadTailProperties
<1>2. /\ G \in Arrays /\ Len(G) = Len(F) /\ Len(F) \in Nat
      /\ G[g] = Tail(F[g]) /\ \A h \in 1 .. Len(F) : h # g => G[h] = F[h]
  BY <1>1, ExceptSeq DEF Arrays
<1> HIDE DEF G
<1>3. 1 \in 1 .. Len(F[g]) /\ \A i \in 1 .. Len(F[g]) - 1 : i + 1 \in 1 .. Len(F[g]) /\ i + 1 # 1
  BY <1>1
<1>4. \A h \in 1 .. Len(F) : \A i \in 1 .. Len(G[h]) :
        \/ h = g /\ i \in 1 .. Len(F[g]) - 1 /\ i + 1 \in 1 .. Len(F[h]) /\ G[h][i] = F[h][i + 1] /\ i + 1 # 1
        \/ h # g /\ i \in 1 .. Len(F[h]) /\ G[h][i] = F[h][i]
  BY <1>1, <1>2, <1>3
<1>5. ASSUME NEW h \in 1 .. Len(F), NEW x, Array(G, h, x) PROVE Array(F, h, x)
  BY <1>4, <1>5 DEF Array
<1>6. \A x : Holds(G, x) => Holds(F, x)
  BY <1>2, <1>5 DEF Holds
<1>7. ASSUME Distinct(F) PROVE Distinct(G)
  <2>1. ASSUME NEW h \in 1 .. Len(F), NEW l \in 1 .. Len(F), NEW i \in 1 .. Len(G[h]), NEW j \in 1 .. Len(G[l]), G[h][i] = G[l][j]
        PROVE  h = l /\ i = j
    <3>1. CASE h = g /\ l = g
      <4>1. i + 1 \in 1 .. Len(F[g]) /\ j + 1 \in 1 .. Len(F[g]) /\ F[g][i + 1] = F[g][j + 1] /\ i \in Int /\ j \in Int
        <5>1. i \in 1 .. Len(F[g]) - 1 /\ i + 1 \in 1 .. Len(F[g]) /\ G[g][i] = F[g][i + 1]
          BY <1>4, <3>1
        <5>2. j \in 1 .. Len(F[g]) - 1 /\ j + 1 \in 1 .. Len(F[g]) /\ G[g][j] = F[g][j + 1]
          BY <1>4, <3>1
        <5>3. F[g][i + 1] = F[g][j + 1]
          BY <2>1, <3>1, <5>1, <5>2
        <5> QED  BY <5>1, <5>2, <5>3
      <4>2. i + 1 = j + 1
        BY <1>7, <4>1 DEF Distinct
      <4> QED  BY <3>1, <4>1, <4>2
    <3>2. CASE h = g /\ l # g
      <4>1. i + 1 \in 1 .. Len(F[h]) /\ j \in 1 .. Len(F[l]) /\ F[h][i + 1] = F[l][j]
        BY <1>4, <2>1, <3>2
      <4> QED  BY <1>7, <3>2, <4>1 DEF Distinct
    <3>3. CASE h # g /\ l = g
      <4>1. j + 1 \in 1 .. Len(F[l]) /\ i \in 1 .. Len(F[h]) /\ F[h][i] = F[l][j + 1]
        BY <1>4, <2>1, <3>3
      <4> QED  BY <1>7, <3>3, <4>1 DEF Distinct
    <3>4. CASE h # g /\ l # g
      <4>1. j \in 1 .. Len(F[l]) /\ i \in 1 .. Len(F[h]) /\ F[h][i] = F[l][j]
        BY <1>4, <2>1, <3>4
      <4> QED  BY <1>7, <4>1 DEF Distinct
    <3> QED  BY <3>1, <3>2, <3>3, <3>4
  <2> QED  BY <1>2, <2>1 DEF Distinct
<1>8. ASSUME Distinct(F) PROVE ~Holds(G, F[g][1])
  <2>1. SUFFICES ASSUME NEW h \in 1 .. Len(F), NEW i \in 1 .. Len(G[h]), G[h][i] = F[g][1] PROVE FALSE
    BY <1>2 DEF Holds, Array
  <2>2. \/ i + 1 \in 1 .. Len(F[h]) /\ F[h][i + 1] = F[g][1] /\ i + 1 # 1
        \/ h # g /\ i \in 1 .. Len(F[h]) /\ F[h][i] = F[g][1]
    BY <1>4, <2>1
  <2> QED  BY <1>3, <1>8, <2>2 DEF Distinct
<1>9. Array(F, g, F[g][1]) /\ Holds(F, F[g][1])
  BY <1>3 DEF Array, Holds
<1> QED  BY <1>1, <1>2, <1>5, <1>6, <1>7, <1>8, <1>9 DEF Popped, G

\* All entries of an array are taken.
Drained(F, G, g) ==
    /\ G \in Arrays /\ Len(G) = Len(F) /\ Len(F) \in Nat
    /\ G[g] = << >> /\ \A h \in 1 .. Len(F) : h # g => G[h] = F[h]
    /\ \A x : Holds(G, x) => Holds(F, x)
    /\ Distinct(F) => Distinct(G) /\ \A x : Holds(G, x) => ~Array(F, g, x)

\* Emptying an array leaves the others alone.
LEMMA ArrayDrain ==
  ASSUME NEW F \in Arrays, NEW g \in 1 .. Len(F)
  PROVE  Drained(F, [F EXCEPT ![g] = << >>], g)
<1> DEFINE G == [F EXCEPT ![g] = << >>]
<1>1. << >> \in Seq(Requests) /\ 1 .. Len(<< >>) = {}
  OBVIOUS
<1>2. /\ G \in Arrays /\ Len(G) = Len(F) /\ Len(F) \in Nat
      /\ G[g] = << >> /\ \A h \in 1 .. Len(F) : h # g => G[h] = F[h]
  BY <1>1, ExceptSeq DEF Arrays
<1> HIDE DEF G
<1>3. \A h \in 1 .. Len(F) : \A i \in 1 .. Len(G[h]) : h # g /\ i \in 1 .. Len(F[h]) /\ G[h][i] = F[h][i]
  BY <1>1, <1>2
<1>4. \A x : Holds(G, x) => \E h \in 1 .. Len(F) : h # g /\ Array(F, h, x)
  BY <1>2, <1>3 DEF Holds, Array
<1>5. \A x : Holds(G, x) => Holds(F, x)
  BY <1>4 DEF Holds
<1>6. ASSUME Distinct(F) PROVE Distinct(G)
  BY <1>2, <1>3, <1>6 DEF Distinct
<1>7. ASSUME Distinct(F), NEW x, NEW h \in 1 .. Len(F), h # g, Array(F, h, x) PROVE ~Array(F, g, x)
  BY <1>7 DEF Distinct, Array
<1> QED  BY <1>2, <1>4, <1>5, <1>6, <1>7 DEF Drained, G

-----------------------------------------------------------------------------
(* The call stack. *)

FrameSet == [k : {"put", "read", "cb", "retry"}, q : 0 .. MaxReq, g : Nat, old : Nat, sent : BOOLEAN]
Stacks   == Seq(FrameSet)

\* The stack S has a frame with request q, and no two frames with the same.
Calls(S, q) == \E i \in 1 .. Len(S) : S[i].q = q
Newly(T, c, q) == \E i \in 1 .. Len(T) : i <= c /\ T[i].q = q
Older(S, d, q) == \E j \in 1 .. Len(S) : j > d /\ S[j].q = q
OneCall(S)  == \A i, j \in 1 .. Len(S) : S[i].q = S[j].q /\ S[i].q # 0 => i = j

\* The stack T has c new frames, and below them those of S that follow the first c + h.
Below(S, T, c, h) ==
    /\ S \in Stacks /\ T \in Stacks /\ Len(T) = Len(S) - h /\ c + h >= 0
    /\ \A i \in c + 1 .. Len(T) : T[i] = S[i + h]

Kept(S, T, c, h) == \A i \in 1 .. Len(T) : i <= c \/ (i + h \in 1 .. Len(S) /\ i + h > c + h /\ T[i] = S[i + h])

\* What Below says, with the types of the lengths.
LEMMA BelowFacts ==
  ASSUME NEW c \in Nat, NEW h \in Int, NEW S, NEW T, Below(S, T, c, h)
  PROVE  Len(S) \in Nat /\ Len(T) \in Nat /\ Kept(S, T, c, h)
<1>1. Len(S) \in Nat /\ Len(T) \in Nat
  BY DEF Below, Stacks
<1>2. Len(T) = Len(S) - h /\ c + h >= 0 /\ \A i \in c + 1 .. Len(T) : T[i] = S[i + h]
  BY DEF Below
<1>3. ASSUME NEW i \in 1 .. Len(T), i > c PROVE i + h \in 1 .. Len(S) /\ i + h > c + h /\ T[i] = S[i + h]
  <2>1. i \in c + 1 .. Len(T)
    BY <1>1, <1>3
  <2> QED  BY <1>1, <1>2, <1>3, <2>1
<1> QED  BY <1>1, <1>3 DEF Kept

\* A stack keeps its frames if it does not change.
LEMMA BelowSame ==
  ASSUME NEW S \in Stacks
  PROVE  Below(S, S, 0, 0)
BY DEF Below, Stacks

\* A frame is pushed, replaced, left, or covered by another one.
Pushed(S, T, f)    == Below(S, T, 1, -1) /\ T[1] = f
Swapped(S, T, f)   == Below(S, T, 1, 0) /\ T[1] = f
Covers(S, T, f, g) == Below(S, T, 2, -1) /\ T[1] = f /\ T[2] = g

\* A call adds a frame and keeps those below.
LEMMA BelowPush ==
  ASSUME NEW S \in Stacks, NEW f \in FrameSet
  PROVE  Pushed(S, <<f>> \o S, f)
<1> DEFINE T == <<f>> \o S
<1>1. /\ T \in Stacks /\ Len(S) \in Nat /\ Len(T) = Len(S) + 1 /\ T[1] = f /\ \A i \in 1 + 1 .. Len(T) : T[i] = S[i + (-1)]
  BY DEF Stacks
<1> QED  BY <1>1 DEF Below, Pushed

\* Changing the top frame keeps those below.
LEMMA BelowSwap ==
  ASSUME NEW S \in Stacks, S # << >>, NEW f \in FrameSet
  PROVE  Swapped(S, <<f>> \o Tail(S), f)
<1> DEFINE T == <<f>> \o Tail(S)
<1>1. Tail(S) \in Stacks /\ Len(S) \in Nat /\ Len(Tail(S)) = Len(S) - 1 /\ \A i \in 1 .. Len(S) - 1 : Tail(S)[i] = S[i + 1]
  BY HeadTailProperties DEF Stacks
<1>2. T \in Stacks /\ Len(T) = Len(Tail(S)) + 1 /\ T[1] = f /\ \A i \in 1 + 1 .. Len(T) : T[i] = Tail(S)[i - 1]
  BY <1>1 DEF Stacks
<1>3. \A i \in 1 + 1 .. Len(T) : i - 1 \in 1 .. Len(S) - 1 /\ i - 1 + 1 = i + 0
  BY <1>1, <1>2
<1> QED  BY <1>1, <1>2, <1>3 DEF Below, Swapped

\* Returning keeps all frames but the top one.
LEMMA BelowTail ==
  ASSUME NEW S \in Stacks, S # << >>
  PROVE  Below(S, Tail(S), 0, 1)
<1>1. Tail(S) \in Stacks /\ Len(S) \in Nat /\ Len(Tail(S)) = Len(S) - 1 /\ \A i \in 1 .. Len(S) - 1 : Tail(S)[i] = S[i + 1]
  BY HeadTailProperties DEF Stacks
<1> QED  BY <1>1 DEF Below

\* Changing the top frame and calling from it keeps the frames below.
LEMMA BelowCover ==
  ASSUME NEW S \in Stacks, S # << >>, NEW f \in FrameSet, NEW g \in FrameSet
  PROVE  Covers(S, <<f, g>> \o Tail(S), f, g)
<1> DEFINE T == <<f, g>> \o Tail(S)
<1>1. Tail(S) \in Stacks /\ Len(S) \in Nat /\ Len(Tail(S)) = Len(S) - 1 /\ \A i \in 1 .. Len(S) - 1 : Tail(S)[i] = S[i + 1]
  BY HeadTailProperties DEF Stacks
<1>2. /\ T \in Stacks /\ Len(T) = Len(Tail(S)) + 2 /\ T[1] = f /\ T[2] = g
      /\ \A i \in 2 + 1 .. Len(T) : T[i] = Tail(S)[i - 2]
  BY <1>1 DEF Stacks
<1>3. \A i \in 2 + 1 .. Len(T) : i - 2 \in 1 .. Len(S) - 1 /\ i - 2 + 1 = i + (-1)
  BY <1>1, <1>2
<1> QED  BY <1>1, <1>2, <1>3 DEF Below, Covers

\* Unwinding u frames (croak in fail) keeps the others.
LEMMA BelowRest ==
  ASSUME NEW S \in Stacks, NEW u \in 1 .. Len(S), NEW T, T = SubSeq(S, u + 1, Len(S))
  PROVE  Below(S, T, 0, u)
<1>1. Len(S) \in Nat
  BY DEF Stacks
<1>2. T \in Stacks /\ Len(T) = Len(S) - u /\ \A i \in 0 + 1 .. Len(T) : T[i] = S[i + u]
  BY <1>1 DEF Stacks
<1> QED  BY <1>1, <1>2 DEF Below

\* No frame gets the request of another one.
LEMMA BelowOneCall ==
  ASSUME NEW c \in Nat, NEW h \in Int, NEW S, NEW T, Below(S, T, c, h), OneCall(S),
         \A i \in 1 .. Len(T) : i <= c /\ T[i].q # 0 => i = c /\ \A j \in 1 .. Len(S) : j > c + h => S[j].q # T[i].q
  PROVE  OneCall(T)
<1>1. SUFFICES ASSUME NEW i \in 1 .. Len(T), NEW j \in 1 .. Len(T), T[i].q = T[j].q, T[i].q # 0 PROVE i = j
  BY DEF OneCall
<1>2. /\ i <= c \/ (i + h \in 1 .. Len(S) /\ i + h > c + h /\ T[i] = S[i + h])
      /\ j <= c \/ (j + h \in 1 .. Len(S) /\ j + h > c + h /\ T[j] = S[j + h])
  BY BelowFacts DEF Kept
<1>3. CASE i <= c /\ j <= c
  BY <1>1, <1>3
<1>4. CASE i <= c /\ j > c
  BY <1>1, <1>2, <1>4
<1>5. CASE i > c /\ j <= c
  BY <1>1, <1>2, <1>5
<1>6. CASE i > c /\ j > c
  <2>1. i + h = j + h
    BY <1>1, <1>2, <1>6 DEF OneCall
  <2> QED  BY <2>1
<1> QED  BY <1>3, <1>4, <1>5, <1>6

\* The requests of the stack are those of the new frames and of those below.
LEMMA BelowCalls ==
  ASSUME NEW c \in Nat, NEW h \in Int, NEW S, NEW T, Below(S, T, c, h)
  PROVE  \A q : Calls(T, q) => Newly(T, c, q) \/ Older(S, c + h, q)
<1>1. \A i \in 1 .. Len(T) : i <= c \/ (i + h \in 1 .. Len(S) /\ i + h > c + h /\ T[i] = S[i + h])
  BY BelowFacts DEF Kept
<1> QED  BY <1>1 DEF Calls, Newly, Older

-----------------------------------------------------------------------------
(* Every request is in one place. *)

\* Frame f at place i of the stack, with n arrays and a requests so far, of which
\* those in R were asked for again.
Sound(f, i, n, a, R) ==
    /\ f.k \in {"put", "read", "retry"} => f.g \in 1 .. n
    /\ f.k = "put" => f.q \in 1 .. a /\ f.q \notin R
    /\ f.k = "retry" => f.old \in 1 .. n /\ f.old # f.g
    /\ f.q <= a /\ (f.k \in {"read", "cb"} => f.q = 0)
    /\ f.k = "read" \/ (f.k = "retry" /\ f.q = 0) => i = 1

\* Stack S, arrays F, answers D: a request is in one frame, in one array at one
\* place, or it is answered, or forgotten.
Orderly(S, F, a, R, D) ==
    /\ \A i \in 1 .. Len(S) : Sound(S[i], i, Len(F), a, R)
    /\ OneCall(S) /\ Distinct(F)
    /\ \A q \in Requests :
         /\ Calls(S, q) => ~Holds(F, q) /\ D[q] = << >>
         /\ Holds(F, q) => D[q] = << >> /\ q <= a
         /\ q > a => D[q] = << >>

\* What a step has to show: c frames are new, and h frames more than those were left.
Fits(S, F, a, R, D, T, G, b, Q, E, c, h) ==
    /\ c \in Nat /\ h \in Int /\ a \in Nat /\ b \in Nat /\ a <= b
    /\ Below(S, T, c, h)
    /\ h = 0 \/ c + h >= 1 \/ (\A i \in 1 .. Len(S) : i = 1 => S[i].k = "cb")
    /\ Distinct(G) /\ Len(F) \in Nat /\ Len(G) \in Nat /\ Len(F) <= Len(G)
    /\ \A i \in 1 .. Len(T) : i <= c =>
          /\ Sound(T[i], i, Len(G), b, Q)
          /\ T[i].q # 0 => i = c /\ \A j \in 1 .. Len(S) : j > c + h => S[j].q # T[i].q
    /\ \A j \in 1 .. Len(S) : j > c + h /\ S[j].k = "put" => S[j].q \notin Q
    /\ \A q \in Requests : Newly(T, c, q) => ~Holds(G, q) /\ E[q] = << >>
    /\ \A q \in Requests : Older(S, c + h, q) => ~Holds(G, q) /\ E[q] = << >>
    /\ \A q \in Requests : Holds(G, q) => E[q] = << >> /\ q <= b
    /\ \A q \in Requests : q > b => E[q] = << >>

\* A step that fits, moving at most one request from a frame, an array or the answered to
\* another, keeps every request in one place.
LEMMA OrderlyStep ==
  ASSUME NEW S, NEW F, NEW a, NEW R, NEW D, Orderly(S, F, a, R, D),
         NEW T, NEW G, NEW b, NEW Q, NEW E, NEW c, NEW h, Fits(S, F, a, R, D, T, G, b, Q, E, c, h)
  PROVE  Orderly(T, G, b, Q, E)
<1>0. c \in Nat /\ h \in Int /\ a \in Nat /\ b \in Nat /\ a <= b /\ Below(S, T, c, h) /\ Len(F) \in Nat /\ Len(G) \in Nat /\ Len(F) <= Len(G)
  BY DEF Fits
<1>1. \A i \in 1 .. Len(T) : i <= c \/ (i + h \in 1 .. Len(S) /\ i + h > c + h /\ T[i] = S[i + h])
  BY <1>0, BelowFacts DEF Kept
<1>2. c + h >= 0
  BY <1>0 DEF Below
<1>3. ASSUME NEW i \in 1 .. Len(T) PROVE Sound(T[i], i, Len(G), b, Q)
  <2>1. CASE i <= c
    BY <2>1 DEF Fits
  <2>2. CASE i > c
    <3>0. ~(i <= c)
      BY <1>0, <2>2
    <3>1. i + h \in 1 .. Len(S) /\ i + h > c + h /\ T[i] = S[i + h]
      BY <1>1, <3>0
    <3>2. Sound(T[i], i + h, Len(F), a, R)
      BY <3>1 DEF Orderly
    <3>3. T[i].k = "read" \/ (T[i].k = "retry" /\ T[i].q = 0) => i = 1
      <4>1. SUFFICES ASSUME T[i].k = "read" \/ (T[i].k = "retry" /\ T[i].q = 0) PROVE i = 1
        OBVIOUS
      <4>2. i + h = 1 /\ T[i].k # "cb"
        BY <3>2, <4>1 DEF Sound
      <4>0. h = 0 \/ c + h >= 1 \/ (\A j \in 1 .. Len(S) : j = 1 => S[j].k = "cb")
        BY DEF Fits
      <4>3. CASE h = 0
        BY <4>2, <4>3
      <4>4. CASE c + h >= 1
        BY <1>0, <3>1, <4>2, <4>4
      <4>5. CASE \A j \in 1 .. Len(S) : j = 1 => S[j].k = "cb"
        BY <3>1, <4>2, <4>5
      <4> QED  BY <4>0, <4>3, <4>4, <4>5
    <3>4. T[i].k = "put" => T[i].q \notin Q
      BY <3>1 DEF Fits
    <3>5. \A x : x \in 1 .. Len(F) => x \in 1 .. Len(G)
      BY <1>0
    <3>6. \A x : x \in 1 .. a => x \in 1 .. b
      BY <1>0
    <3>7. T[i].q <= b
      <4>1. T[i] \in FrameSet
        BY <1>0 DEF Below, Stacks
      <4>2. T[i].q \in 0 .. MaxReq
        BY <4>1 DEF FrameSet
      <4>3. T[i].q <= a
        BY <3>2 DEF Sound
      <4>4. PICK x \in 0 .. MaxReq : x = T[i].q
        BY <4>2
      <4>5. x <= b
        <5>1. x \in Nat /\ x <= a
          BY <4>3, <4>4, BoundAssumption
        <5> QED  BY <1>0, <5>1
      <4> QED  BY <4>4, <4>5
    <3> QED  BY <3>2, <3>3, <3>4, <3>5, <3>6, <3>7 DEF Sound
  <2>3. i <= c \/ i > c
    BY <1>0
  <2> QED  BY <2>1, <2>2, <2>3, Zenon
<1>4. OneCall(T)
  <2>1. \A i \in 1 .. Len(T) : i <= c /\ T[i].q # 0 => i = c /\ \A j \in 1 .. Len(S) : j > c + h => S[j].q # T[i].q
    BY DEF Fits
  <2>2. OneCall(S)
    BY DEF Orderly
  <2> QED  BY <1>0, <2>1, <2>2, BelowOneCall
<1>5. \A q \in Requests : Calls(T, q) => ~Holds(G, q) /\ E[q] = << >>
  <2>1. \A q : Calls(T, q) => Newly(T, c, q) \/ Older(S, c + h, q)
    BY <1>0, BelowCalls
  <2> QED  BY <2>1 DEF Fits
<1>6. Distinct(G) /\ \A q \in Requests : (Holds(G, q) => E[q] = << >> /\ q <= b) /\ (q > b => E[q] = << >>)
  BY DEF Fits
<1> QED  BY <1>3, <1>4, <1>5, <1>6 DEF Orderly

-----------------------------------------------------------------------------
(* The inductive invariant, where requests are. *)

Asked == [o : Names, had : BOOLEAN]

\* Types of what the client keeps, and of the repository.
ClientOK ==
    /\ frames \in Stacks /\ inflight \in Arrays /\ sock \in 0 .. Len(inflight)
    /\ ask \in Seq(Asked) /\ Len(ask) <= MaxReq /\ retried \in SUBSET (1 .. Len(ask))
    /\ done = [q \in Requests |-> done[q]]
RepoOK ==
    /\ kind \in {"git", "gcf2"} /\ objs \in SUBSET Objs /\ view \in SUBSET objs
    /\ alt \in Nat /\ alt_st \in 0 .. alt /\ ncrash \in Nat
    /\ \A q \in 1 .. Len(ask) : ask[q].had => ask[q].o \in objs

OnePlace == Orderly(frames, inflight, Len(ask), retried, done)

\* The frame on top of the stack.
LEMMA TopFacts ==
  ASSUME ClientOK, OnePlace, frames # << >>
  PROVE  /\ Top = frames[1] /\ Top \in FrameSet /\ 1 \in 1 .. Len(frames) /\ Len(frames) \in Nat
         /\ Sound(Top, 1, Len(inflight), Len(ask), retried)
         /\ Top.q # 0 => Top.q \in Requests /\ Top.q \in 1 .. Len(ask) /\ Calls(frames, Top.q)
<1>1. frames \in Seq(FrameSet) /\ Len(frames) \in Nat /\ Len(frames) # 0
  BY EmptySeq DEF ClientOK, Stacks
<1>2. Top = frames[1] /\ 1 \in 1 .. Len(frames) /\ Top \in FrameSet
  BY <1>1, HeadTailProperties DEF Top
<1>3. Sound(Top, 1, Len(inflight), Len(ask), retried)
  BY <1>2 DEF OnePlace, Orderly
<1>4. ASSUME Top.q # 0 PROVE Top.q \in Requests /\ Top.q \in 1 .. Len(ask) /\ Calls(frames, Top.q)
  <2>1. Top.q \in 0 .. MaxReq /\ Top.q <= Len(ask)
    BY <1>2, <1>3 DEF FrameSet, Sound
  <2>2. Top.q \in Requests /\ Top.q \in 1 .. Len(ask)
    BY <1>4, <2>1, BoundAssumption DEF Requests
  <2> QED  BY <1>2, <2>2 DEF Calls
<1> QED  BY <1>1, <1>2, <1>3, <1>4

\* A croak leaves at least one frame.
LEMMA UnwoundFacts ==
  ASSUME frames \in Stacks, frames # << >>
  PROVE  Unwound \in 1 .. Len(frames)
<1> DEFINE cbs == {i \in DOMAIN frames : frames[i].k = "cb"}
<1>1. Len(frames) \in Nat /\ Len(frames) # 0 /\ DOMAIN frames = 1 .. Len(frames)
  BY EmptySeq DEF Stacks
<1>2. Unwound = IF cbs = {} THEN Len(frames) ELSE Min(cbs)
  BY DEF Unwound
<1>3. CASE cbs = {}
  BY <1>1, <1>2, <1>3
<1>4. CASE cbs # {}
  <2>1. cbs \subseteq Nat /\ cbs \subseteq 1 .. Len(frames)
    BY <1>1
  <2> HIDE DEF cbs
  <2>2. PICK n \in cbs : \A o \in cbs : ~(<<o, n>> \in OpToRel(<, Nat))
    BY <1>4, <2>1, NatLessThanWellFounded, WFMin
  <2>3. \A o \in cbs : ~(o < n)
    BY <2>1, <2>2 DEF OpToRel
  <2>4. \E m \in cbs : \A o \in cbs : m <= o
    BY <2>1, <2>3
  <2>5. Min(cbs) \in cbs
    BY <2>4 DEF Min
  <2> QED  BY <1>2, <1>4, <2>1, <2>5
<1> QED  BY <1>3, <1>4

\* The callbacks of the frames that a croak leaves are told that it died.
LEMMA CroakPlaces ==
  ASSUME ClientOK, OnePlace, frames # << >>, Croak
  PROVE  /\ (sock' \in 0 .. Len(inflight) => ClientOK')
         /\ OnePlace'
<1>1. frames \in Stacks
  BY DEF ClientOK
<1>2. PICK u \in 1 .. Len(frames) : u = Unwound
  BY <1>1, UnwoundFacts
<1>3. /\ frames' = SubSeq(frames, u + 1, Len(frames)) /\ UNCHANGED <<inflight, retried, ask>>
      /\ done' = [q \in DOMAIN done |->
           IF \E f \in {frames[i] : i \in 1 .. u} : f.k = "put" /\ f.q = q THEN Append(done[q], <<"died", NoObj, << >>>>) ELSE done[q]]
  BY <1>2 DEF Croak
<1>4. Below(frames, frames', 0, u)
  BY <1>1, <1>3, BelowRest
<1>5. done' = [q \in Requests |-> done'[q]]
  BY <1>3 DEF ClientOK
<1>6. frames' \in Stacks
  BY <1>4 DEF Below
<1>7. sock' \in 0 .. Len(inflight) => ClientOK'
  BY <1>3, <1>5, <1>6 DEF ClientOK
<1>8. ASSUME NEW q \in Requests, \A i \in 1 .. u : frames[i].q # q PROVE done'[q] = done[q]
  <2>1. q \in DOMAIN done
    BY DEF ClientOK
  <2>2. ~ \E f \in {frames[i] : i \in 1 .. u} : f.k = "put" /\ f.q = q
    BY <1>8
  <2> QED  BY <1>3, <2>1, <2>2
<1>9. ASSUME NEW q \in Requests, ~Calls(frames, q) PROVE done'[q] = done[q]
  <2>1. \A i \in 1 .. u : i \in 1 .. Len(frames)
    OBVIOUS
  <2> QED  BY <1>8, <1>9, <2>1 DEF Calls
<1>10. ASSUME NEW q \in Requests, Older(frames, u, q) PROVE done'[q] = done[q] /\ Calls(frames, q)
  <2>1. PICK j \in 1 .. Len(frames) : j > u /\ frames[j].q = q
    BY <1>10 DEF Older
  <2>2. q # 0
    BY BoundAssumption DEF Requests
  <2>3. \A i \in 1 .. u : i \in 1 .. Len(frames) /\ i # j
    BY <2>1
  <2>4. \A i \in 1 .. u : frames[i].q # q
    BY <2>1, <2>2, <2>3 DEF OnePlace, Orderly, OneCall
  <2> QED  BY <1>8, <2>1, <2>4 DEF Calls
<1>11. Len(inflight) \in Nat /\ Len(ask) \in Nat /\ Distinct(inflight)
  BY DEF ClientOK, Arrays, OnePlace, Orderly
<1>12. \A q \in Requests : Older(frames, 0 + u, q) => ~Holds(inflight, q) /\ done'[q] = << >>
  <2>1. 0 + u = u
    OBVIOUS
  <2> QED  BY <1>10, <2>1 DEF OnePlace, Orderly
<1>13. \A q \in Requests : Holds(inflight, q) => done'[q] = << >> /\ q <= Len(ask)
  BY <1>9 DEF OnePlace, Orderly
<1>14. \A q \in Requests : q > Len(ask) => done'[q] = << >>
  <2>1. ASSUME NEW q \in Requests, q > Len(ask) PROVE ~Calls(frames, q)
    <3>1. SUFFICES ASSUME NEW i \in 1 .. Len(frames), frames[i].q = q PROVE FALSE
      BY DEF Calls
    <3>2. q <= Len(ask)
      BY <3>1 DEF OnePlace, Orderly, Sound
    <3> QED  BY <1>11, <2>1, <3>2 DEF Requests
  <2> QED  BY <1>9, <2>1 DEF OnePlace, Orderly
<1>15. \A i \in 1 .. Len(frames') : ~(i <= 0)
  OBVIOUS
<1>16. \A q : ~Newly(frames', 0, q)
  BY <1>15 DEF Newly
<1>17. ASSUME NEW j \in 1 .. Len(frames), frames[j].k = "put" PROVE frames[j].q \notin retried
  BY <1>17 DEF OnePlace, Orderly, Sound
<1>18. u \in Int /\ 0 + u >= 1 /\ 0 \in Nat
  OBVIOUS
<1>19. Fits(frames, inflight, Len(ask), retried, done, frames', inflight, Len(ask), retried, done', 0, u)
  BY <1>4, <1>11, <1>12, <1>13, <1>14, <1>15, <1>16, <1>17, <1>18 DEF Fits
<1>20. OnePlace'
  BY <1>3, <1>19, OrderlyStep DEF OnePlace
<1> QED  BY <1>7, <1>20

\* Steps that call nobody: no request is answered, and none comes into an array.
LEMMA StackStep ==
  ASSUME ClientOK, OnePlace, NEW c \in Nat, NEW h \in Int, Below(frames, frames', c, h),
         h = 0 \/ c + h >= 1 \/ (\A i \in 1 .. Len(frames) : i = 1 => frames[i].k = "cb"),
         UNCHANGED <<retried, ask, done>>, inflight' \in Arrays, Len(inflight) <= Len(inflight'), Distinct(inflight'),
         \A q : Holds(inflight', q) => Holds(inflight, q), sock' \in 0 .. Len(inflight'),
         \A i \in 1 .. Len(frames') : i <= c =>
             /\ Sound(frames'[i], i, Len(inflight'), Len(ask), retried)
             /\ frames'[i].q # 0 => /\ i = c /\ \A j \in 1 .. Len(frames) : j > c + h => frames[j].q # frames'[i].q
                                    /\ ~Holds(inflight', frames'[i].q) /\ done[frames'[i].q] = << >>
  PROVE  ClientOK' /\ OnePlace'
<1>1. Len(inflight) \in Nat /\ Len(inflight') \in Nat /\ Len(ask) \in Nat
  BY DEF ClientOK, Arrays
<1>2. frames' \in Stacks
  BY DEF Below
<1>3. ClientOK'
  BY <1>2 DEF ClientOK
<1>4. \A q \in Requests : Newly(frames', c, q) => ~Holds(inflight', q) /\ done[q] = << >>
  <2>1. \A q \in Requests : q # 0
    BY BoundAssumption DEF Requests
  <2> QED  BY <2>1 DEF Newly
<1>5. \A q \in Requests : Older(frames, c + h, q) => ~Holds(inflight', q) /\ done[q] = << >>
  <2>1. \A q : Older(frames, c + h, q) => Calls(frames, q)
    BY DEF Older, Calls
  <2> QED  BY <2>1 DEF OnePlace, Orderly
<1>6. \A q \in Requests : Holds(inflight', q) => done[q] = << >> /\ q <= Len(ask)
  BY DEF OnePlace, Orderly
<1>7. \A q \in Requests : q > Len(ask) => done[q] = << >>
  BY DEF OnePlace, Orderly
<1>8. \A j \in 1 .. Len(frames) : j > c + h /\ frames[j].k = "put" => frames[j].q \notin retried
  BY DEF OnePlace, Orderly, Sound
<1>9. \A i \in 1 .. Len(frames') : i <= c =>
          /\ Sound(frames'[i], i, Len(inflight'), Len(ask), retried)
          /\ frames'[i].q # 0 => i = c /\ \A j \in 1 .. Len(frames) : j > c + h => frames[j].q # frames'[i].q
  OBVIOUS
<1>10. Len(ask) <= Len(ask)
  BY <1>1
<1>11. Fits(frames, inflight, Len(ask), retried, done, frames', inflight', Len(ask), retried, done, c, h)
  BY <1>1, <1>4, <1>5, <1>6, <1>7, <1>8, <1>9, <1>10 DEF Fits
<1>12. Orderly(frames', inflight', Len(ask), retried, done)
  BY <1>11, OrderlyStep DEF OnePlace
<1> QED  BY <1>3, <1>12 DEF OnePlace

\* f is a frame with these fields.
IsFrame(f, k, q, g, old) == f \in FrameSet /\ f.k = k /\ f.q = q /\ f.g = g /\ f.old = old

\* A new frame has the fields it was made with.
LEMMA FrameTypes ==
  ASSUME NEW k \in {"put", "read", "cb", "retry"}, NEW q \in 0 .. MaxReq, NEW g \in Nat, NEW old \in Nat
  PROVE  IsFrame(Frame(k, q, g, old), k, q, g, old)
BY DEF IsFrame, Frame, FrameSet

\* The fields of a frame have their types.
LEMMA FieldTypes ==
  ASSUME NEW f \in FrameSet
  PROVE  f.k \in {"put", "read", "cb", "retry"} /\ f.q \in 0 .. MaxReq /\ f.g \in Nat /\ f.old \in Nat /\ 0 \in 0 .. MaxReq
BY BoundAssumption DEF FrameSet

\* Setting "sent" changes no other field.
LEMMA SentType ==
  ASSUME NEW f \in FrameSet, NEW s \in BOOLEAN
  PROVE  IsFrame([f EXCEPT !.sent = s], f.k, f.q, f.g, f.old)
BY DEF IsFrame, FrameSet

\* Giving a frame another request changes no other field but "sent".
LEMMA CallType ==
  ASSUME NEW f \in FrameSet, NEW q \in 0 .. MaxReq
  PROVE  IsFrame([f EXCEPT !.q = q], f.k, q, f.g, f.old) /\ IsFrame([f EXCEPT !.q = q, !.sent = FALSE], f.k, q, f.g, f.old)
BY DEF IsFrame, FrameSet

\* Nobody else has the request of the frame on top.
LEMMA TopAlone ==
  ASSUME ClientOK, OnePlace, frames # << >>, Top.q # 0
  PROVE  /\ \A j \in 1 .. Len(frames) : j > 1 => frames[j].q # Top.q
         /\ ~Holds(inflight, Top.q) /\ done[Top.q] = << >>
<1>1. Top = frames[1] /\ 1 \in 1 .. Len(frames) /\ Len(frames) \in Nat /\ Top.q \in Requests /\ Calls(frames, Top.q)
  BY TopFacts
<1>2. ASSUME NEW j \in 1 .. Len(frames), j > 1 PROVE frames[j].q # Top.q
  <2>1. j # 1
    BY <1>2
  <2> QED  BY <1>1, <2>1 DEF OnePlace, Orderly, OneCall
<1>3. ~Holds(inflight, Top.q) /\ done[Top.q] = << >>
  BY <1>1 DEF OnePlace, Orderly
<1> QED  BY <1>2, <1>3

\* write_all calls cat_async_step to make room: no request moves.
LEMMA ReadStepPlaces ==
  ASSUME ClientOK, OnePlace, ReadStep
  PROVE  ClientOK' /\ OnePlace'
<1>1. frames # << >> /\ (Top.k = "put" \/ (Top.k = "retry" /\ Top.q # 0)) /\ UNCHANGED <<sock, inflight, retried, ask, done>>
  BY DEF ReadStep, Writing, In
<1>2. PICK b \in BOOLEAN : frames' = <<Frame("read", 0, Top.g, 0), [Top EXCEPT !.sent = b]>> \o Tail(frames)
  BY DEF ReadStep, Throttled
<1>3. Top \in FrameSet /\ Sound(Top, 1, Len(inflight), Len(ask), retried) /\ frames \in Stacks /\ Top.q # 0
  BY <1>1, TopFacts, ClientOK DEF ClientOK, Sound
<1>15. PICK t \in FrameSet : t = Top
  BY <1>3
<1>16. t.g \in Nat /\ 0 \in 0 .. MaxReq
  BY FieldTypes
<1> DEFINE f == Frame("read", 0, Top.g, 0)
           e == [Top EXCEPT !.sent = b]
<1>4. f \in FrameSet /\ f.k = "read" /\ f.q = 0 /\ f.g = Top.g
  <2>1. IsFrame(Frame("read", 0, t.g, 0), "read", 0, t.g, 0)
    BY <1>16, FrameTypes
  <2> QED  BY <1>15, <2>1 DEF IsFrame
<1>5. e \in FrameSet /\ e.k = Top.k /\ e.q = Top.q /\ e.g = Top.g /\ e.old = Top.old
  <2>1. IsFrame([t EXCEPT !.sent = b], t.k, t.q, t.g, t.old)
    BY SentType
  <2> QED  BY <1>15, <2>1 DEF IsFrame
<1> HIDE DEF f, e
<1>6. frames' = <<f, e>> \o Tail(frames)
  BY <1>2 DEF f, e
<1>7. Below(frames, frames', 2, -1) /\ frames'[1] = f /\ frames'[2] = e
  <2>1. frames \in Stacks /\ frames # << >> /\ f \in FrameSet /\ e \in FrameSet
    BY <1>1, <1>3, <1>4, <1>5
  <2>2. Covers(frames, <<f, e>> \o Tail(frames), f, e)
    BY <2>1, BelowCover
  <2> QED  BY <1>6, <2>2 DEF Covers
<1>8. Sound(f, 1, Len(inflight), Len(ask), retried) /\ Sound(e, 2, Len(inflight), Len(ask), retried)
  <2>1. Len(ask) \in Nat
    BY DEF ClientOK
  <2> QED  BY <1>1, <1>3, <1>4, <1>5, <2>1 DEF Sound
<1>9. \A j \in 1 .. Len(frames) : j > 2 + (-1) => frames[j].q # e.q
  BY <1>1, <1>3, <1>5, TopAlone
<1>10. \A i \in 1 .. Len(frames') : i <= 2 => i = 1 \/ i = 2
  OBVIOUS
<1>11. ~Holds(inflight', e.q) /\ done[e.q] = << >> /\ Distinct(inflight') /\ Len(inflight) <= Len(inflight')
  <2>1. Len(inflight) \in Nat
    BY DEF ClientOK, Arrays
  <2> QED  BY <1>1, <1>3, <1>5, <2>1, TopAlone DEF OnePlace, Orderly
<1>12. 2 \in Nat /\ -1 \in Int /\ 2 + (-1) >= 1
  OBVIOUS
<1>13. inflight' \in Arrays /\ (\A q : Holds(inflight', q) => Holds(inflight, q)) /\ sock' \in 0 .. Len(inflight')
  BY <1>1 DEF ClientOK
<1>14. \A i \in 1 .. Len(frames') : i <= 2 =>
             /\ Sound(frames'[i], i, Len(inflight'), Len(ask), retried)
             /\ frames'[i].q # 0 => /\ i = 2 /\ \A j \in 1 .. Len(frames) : j > 2 + (-1) => frames[j].q # frames'[i].q
                                    /\ ~Holds(inflight', frames'[i].q) /\ done[frames'[i].q] = << >>
  BY <1>1, <1>4, <1>7, <1>8, <1>9, <1>10, <1>11
<1> QED  BY <1>1, <1>7, <1>11, <1>12, <1>13, <1>14, StackStep

\* The frame on top is replaced.
LEMMA SwapStep ==
  ASSUME ClientOK, OnePlace, frames # << >>, NEW f \in FrameSet, frames' = <<f>> \o Tail(frames),
         UNCHANGED <<retried, ask, done>>, inflight' \in Arrays, Len(inflight) <= Len(inflight'), Distinct(inflight'),
         \A q : Holds(inflight', q) => Holds(inflight, q), sock' \in 0 .. Len(inflight'),
         Sound(f, 1, Len(inflight'), Len(ask), retried),
         f.q # 0 => /\ \A j \in 1 .. Len(frames) : j > 1 => frames[j].q # f.q
                    /\ ~Holds(inflight', f.q) /\ done[f.q] = << >>
  PROVE  ClientOK' /\ OnePlace'
<1>1. frames \in Stacks
  BY DEF ClientOK
<1>2. Swapped(frames, <<f>> \o Tail(frames), f)
  BY <1>1, BelowSwap
<1>3. Below(frames, frames', 1, 0) /\ frames'[1] = f
  BY <1>2 DEF Swapped
<1>4. 1 \in Nat /\ 0 \in Int /\ 1 + 0 = 1
  OBVIOUS
<1>5. \A i \in 1 .. Len(frames') : i <= 1 => i = 1
  OBVIOUS
<1>6. \A i \in 1 .. Len(frames') : i <= 1 =>
             /\ Sound(frames'[i], i, Len(inflight'), Len(ask), retried)
             /\ frames'[i].q # 0 => /\ i = 1 /\ \A j \in 1 .. Len(frames) : j > 1 + 0 => frames[j].q # frames'[i].q
                                    /\ ~Holds(inflight', frames'[i].q) /\ done[frames'[i].q] = << >>
  BY <1>3, <1>4, <1>5
<1> QED  BY <1>3, <1>4, <1>6, StackStep

\* A round of cat_async_retry moves the first entry of the old array to the frame that writes
\* it.
LEMMA RetryNextPlaces ==
  ASSUME ClientOK, OnePlace, RetryNext
  PROVE  ClientOK' /\ OnePlace'
<1>1. /\ frames # << >> /\ Top.k = "retry" /\ Top.q = 0 /\ UNCHANGED <<sock, retried, ask, done>>
      /\ \/ /\ inflight[Top.old] # << >> /\ frames' = <<[Top EXCEPT !.q = Head(inflight[Top.old])]>> \o Tail(frames)
            /\ inflight' = [inflight EXCEPT ![Top.old] = Tail(@)]
         \/ frames' = <<Frame("read", 0, Top.g, 0)>> \o Tail(frames) /\ UNCHANGED inflight
  BY DEF RetryNext, In, Swap
<1>2. Top \in FrameSet /\ Sound(Top, 1, Len(inflight), Len(ask), retried)
  BY <1>1, TopFacts
<1>3. PICK t \in FrameSet : t = Top
  BY <1>2
<1>4. t.g \in 1 .. Len(inflight) /\ t.old \in 1 .. Len(inflight) /\ t.old # t.g
  BY <1>1, <1>2, <1>3 DEF Sound
<1>5. /\ inflight \in Arrays /\ Len(inflight) \in Nat /\ Distinct(inflight) /\ sock \in 0 .. Len(inflight) /\ Len(ask) \in Nat
      /\ ask' = ask /\ done' = done
  BY <1>1 DEF ClientOK, OnePlace, Orderly, Arrays
<1>6. CASE inflight[Top.old] # << >> /\ frames' = <<[Top EXCEPT !.q = Head(inflight[Top.old])]>> \o Tail(frames)
           /\ inflight' = [inflight EXCEPT ![Top.old] = Tail(@)]
  <2>1. PICK G : G = [inflight EXCEPT ![t.old] = Tail(inflight[t.old])]
    OBVIOUS
  <2>2. inflight' = G /\ inflight[t.old] # << >>
    BY <1>3, <1>6, <2>1
  <2>3. PICK q : q = inflight[t.old][1]
    OBVIOUS
  <2>4. /\ G \in Arrays /\ Len(G) = Len(inflight) /\ Head(inflight[t.old]) = q /\ q \in Requests /\ Holds(inflight, q)
        /\ \A x : Holds(G, x) => Holds(inflight, x)
        /\ Distinct(G) /\ ~Holds(G, q)
    <3>1. Popped(inflight, [inflight EXCEPT ![t.old] = Tail(inflight[t.old])], t.old)
      BY <1>4, <1>5, <2>2, ArrayPop
    <3> QED  BY <1>4, <1>5, <2>1, <2>3, <3>1 DEF Popped
  <2>5. q \in 0 .. MaxReq /\ q # 0 /\ q <= Len(ask) /\ done[q] = << >> /\ ~Calls(frames, q)
    BY <2>4, BoundAssumption DEF Requests, OnePlace, Orderly
  <2>6. PICK f : f = [t EXCEPT !.q = q]
    OBVIOUS
  <2>7. f \in FrameSet /\ f.k = "retry" /\ f.q = q /\ f.g = t.g /\ f.old = t.old
    <3>1. IsFrame([t EXCEPT !.q = q], t.k, q, t.g, t.old)
      BY <2>5, CallType
    <3> QED  BY <1>1, <1>3, <2>6, <3>1 DEF IsFrame
  <2>8. Sound(f, 1, Len(inflight'), Len(ask), retried)
    BY <1>4, <2>2, <2>4, <2>5, <2>7 DEF Sound
  <2>9. frames' = <<f>> \o Tail(frames)
    BY <1>3, <1>6, <2>4, <2>6
  <2>10. \A j \in 1 .. Len(frames) : frames[j].q # q
    BY <2>5 DEF Calls
  <2>11. Len(inflight) <= Len(inflight') /\ sock' \in 0 .. Len(inflight')
    BY <1>1, <1>5, <2>2, <2>4
  <2> QED  BY <1>1, <2>2, <2>4, <2>5, <2>7, <2>8, <2>9, <2>10, <2>11, SwapStep
<1>7. CASE frames' = <<Frame("read", 0, Top.g, 0)>> \o Tail(frames) /\ UNCHANGED inflight
  <2>1. IsFrame(Frame("read", 0, t.g, 0), "read", 0, t.g, 0)
    <3>1. t.g \in Nat /\ 0 \in 0 .. MaxReq
      BY FieldTypes
    <3> QED  BY <3>1, FrameTypes
  <2>2. PICK f : f = Frame("read", 0, t.g, 0)
    OBVIOUS
  <2>3. f \in FrameSet /\ f.k = "read" /\ f.q = 0 /\ f.g = t.g
    BY <2>1, <2>2 DEF IsFrame
  <2>4. Sound(f, 1, Len(inflight'), Len(ask), retried)
    BY <1>4, <1>5, <1>7, <2>3 DEF Sound
  <2>5. frames' = <<f>> \o Tail(frames) /\ inflight' = inflight /\ Len(inflight) <= Len(inflight')
    BY <1>3, <1>5, <1>7, <2>2
  <2> QED  BY <1>1, <1>5, <2>3, <2>4, <2>5, SwapStep
<1> QED  BY <1>1, <1>6, <1>7

\* A callback that returns was answered before it ran.
LEMMA ReturnPlaces ==
  ASSUME ClientOK, OnePlace, Return
  PROVE  ClientOK' /\ OnePlace'
<1>1. frames # << >> /\ Top.k = "cb" /\ frames' = Tail(frames) /\ UNCHANGED <<sock, inflight, retried, ask, done>>
  BY DEF Return, In
<1>2. frames \in Stacks /\ inflight \in Arrays /\ Len(inflight) \in Nat /\ Distinct(inflight) /\ sock \in 0 .. Len(inflight)
  BY DEF ClientOK, OnePlace, Orderly, Arrays
<1>3. Below(frames, frames', 0, 1)
  BY <1>1, <1>2, BelowTail
<1>4. \A i \in 1 .. Len(frames') : ~(i <= 0)
  OBVIOUS
<1>5. 0 \in Nat /\ 1 \in Int /\ 0 + 1 >= 1
  OBVIOUS
<1>6. Len(inflight) <= Len(inflight')
  BY <1>1, <1>2
<1> QED  BY <1>1, <1>2, <1>3, <1>4, <1>5, <1>6, StackStep

\* event_step calls cat_async_step: no request moves.
LEMMA EventReadsPlaces ==
  ASSUME ClientOK, OnePlace, event_step, sock # 0, inflight[sock] # << >>
  PROVE  ClientOK' /\ OnePlace'
<1>1. /\ frames = << >> /\ sock # 0 /\ frames' = <<Frame("read", 0, sock, 0)>> /\ UNCHANGED <<sock, inflight, retried, ask, done>>
  BY DEF event_step
<1>2. frames \in Stacks /\ inflight \in Arrays /\ Len(inflight) \in Nat /\ Distinct(inflight) /\ sock \in 0 .. Len(inflight) /\ Len(ask) \in Nat
  BY DEF ClientOK, OnePlace, Orderly, Arrays
<1>3. PICK g \in 1 .. Len(inflight) : g = sock
  BY <1>1, <1>2
<1>4. IsFrame(Frame("read", 0, g, 0), "read", 0, g, 0)
  <2>1. g \in Nat /\ 0 \in Nat /\ 0 \in 0 .. MaxReq
    BY BoundAssumption
  <2> QED  BY <2>1, FrameTypes
<1>5. PICK f : f = Frame("read", 0, g, 0)
  OBVIOUS
<1>6. f \in FrameSet /\ f.k = "read" /\ f.q = 0 /\ f.g = g
  BY <1>4, <1>5 DEF IsFrame
<1>7. frames' = <<f>> \o frames
  <2>1. <<f>> \o << >> = <<f>>
    OBVIOUS
  <2> QED  BY <1>1, <1>3, <1>5, <2>1
<1>8. Below(frames, frames', 1, -1) /\ frames'[1] = f
  <2>1. Pushed(frames, <<f>> \o frames, f)
    BY <1>2, <1>6, BelowPush
  <2> QED  BY <1>7, <2>1 DEF Pushed
<1>9. \A i \in 1 .. Len(frames') : i <= 1 => i = 1
  OBVIOUS
<1>10. Sound(f, 1, Len(inflight'), Len(ask), retried)
  BY <1>1, <1>2, <1>6 DEF Sound
<1>11. 1 \in Nat /\ -1 \in Int /\ \A i \in 1 .. Len(frames) : i = 1 => frames[i].k = "cb"
  BY <1>1
<1>12. Len(inflight) <= Len(inflight')
  BY <1>1, <1>2
<1> QED  BY <1>1, <1>2, <1>6, <1>8, <1>9, <1>10, <1>11, <1>12, StackStep

\* Steps of others, and those that read or close.
LEMMA SamePlaces ==
  ASSUME ClientOK, OnePlace, UNCHANGED <<frames, inflight, retried, ask, done>>, sock' \in {sock, 0}
  PROVE  ClientOK' /\ OnePlace'
<1>1. 0 \in 0 .. Len(inflight)
  BY DEF ClientOK, Arrays
<1>2. ClientOK'
  BY <1>1 DEF ClientOK
<1> QED  BY <1>2 DEF OnePlace

\* A requeued event_step may find nothing to read for.
LEMMA EventStepPlaces ==
  ASSUME ClientOK, OnePlace, event_step
  PROVE  ClientOK' /\ OnePlace'
<1>1. CASE sock # 0 /\ inflight[sock] # << >>
  BY <1>1, EventReadsPlaces
<1>2. CASE ~(sock # 0 /\ inflight[sock] # << >>)
  <2>1. UNCHANGED <<frames, inflight, retried, ask, done>> /\ sock' \in {sock, 0}
    BY <1>2 DEF event_step
  <2> QED  BY <2>1, SamePlaces
<1> QED  BY <1>1, <1>2

\* cat_async_retry leaves the old array and starts a new one.
LEMMA RetryPlaces ==
  ASSUME ClientOK, OnePlace, cat_async_retry
  PROVE  ClientOK' /\ OnePlace'
<1>1. /\ frames # << >> /\ Top.k = "read" /\ inflight' = Append(inflight, << >>) /\ sock' = Len(inflight) + 1
      /\ frames' = <<Frame("retry", 0, Len(inflight) + 1, Top.g)>> \o Tail(frames) /\ UNCHANGED <<retried, ask, done>>
  BY DEF cat_async_retry, Reading, In, Swap, Spawn
<1>2. /\ inflight \in Arrays /\ Len(inflight) \in Nat /\ Distinct(inflight) /\ Len(ask) \in Nat
  BY DEF ClientOK, OnePlace, Orderly, Arrays
<1>3. PICK g \in 1 .. Len(inflight) : g = Top.g
  <2>1. Sound(Top, 1, Len(inflight), Len(ask), retried)
    BY <1>1, TopFacts
  <2> QED  BY <1>1, <2>1 DEF Sound
<1>4. PICK n \in Nat : n = Len(inflight) + 1
  BY <1>2
<1>5. PICK f : f = Frame("retry", 0, n, g)
  OBVIOUS
<1>6. f \in FrameSet /\ f.k = "retry" /\ f.q = 0 /\ f.g = n /\ f.old = g
  <2>1. g \in Nat /\ 0 \in 0 .. MaxReq
    BY BoundAssumption
  <2>2. IsFrame(Frame("retry", 0, n, g), "retry", 0, n, g)
    BY <2>1, FrameTypes
  <2> QED  BY <1>5, <2>2 DEF IsFrame
<1>7. Extended(inflight, inflight')
  BY <1>1, <1>2, ArrayNew
<1>8. /\ inflight' \in Arrays /\ Len(inflight') = n /\ Distinct(inflight') /\ \A q : Holds(inflight', q) => Holds(inflight, q)
  BY <1>2, <1>4, <1>7 DEF Extended
<1>9. Sound(f, 1, Len(inflight'), Len(ask), retried) /\ Len(inflight) <= Len(inflight') /\ sock' \in 0 .. Len(inflight')
  BY <1>1, <1>2, <1>4, <1>6, <1>8 DEF Sound
<1>10. frames' = <<f>> \o Tail(frames)
  BY <1>1, <1>3, <1>4, <1>5
<1> QED  BY <1>1, <1>6, <1>8, <1>9, <1>10, SwapStep

\* The calls below the one on top.
LEMMA OlderCalls ==
  ASSUME ClientOK, OnePlace, frames # << >>, NEW q \in Requests, Older(frames, 1, q)
  PROVE  Calls(frames, q) /\ q # Top.q /\ ~Holds(inflight, q) /\ done[q] = << >>
<1>1. Calls(frames, q)
  BY DEF Older, Calls
<1>2. q # Top.q
  <2>1. CASE Top.q = 0
    BY <2>1, BoundAssumption DEF Requests
  <2>2. CASE Top.q # 0
    BY <2>2, TopAlone DEF Older
  <2> QED  BY <2>1, <2>2
<1> QED  BY <1>1, <1>2 DEF OnePlace, Orderly

\* A callback gets an answer.
LEMMA CallbackPlaces ==
  ASSUME ClientOK, OnePlace, NEW r, NEW rest, Reading, Callback(r, rest), UNCHANGED ask
  PROVE  ClientOK' /\ OnePlace'
<1>1. /\ frames # << >> /\ Top.k = "read" /\ inflight[Top.g] # << >>
      /\ inflight' = [inflight EXCEPT ![Top.g] = Tail(@)]
      /\ frames' = <<Frame("cb", 0, 0, 0)>> \o Tail(frames) /\ UNCHANGED <<sock, retried, ask>>
      /\ done' = [done EXCEPT ![First] = Append(@, r)] /\ First = Head(inflight[Top.g])
  BY DEF Reading, Callback, In, Swap, Reply, First
<1>2. /\ frames \in Stacks /\ inflight \in Arrays /\ Len(inflight) \in Nat /\ Distinct(inflight) /\ sock \in 0 .. Len(inflight) /\ Len(ask) \in Nat
      /\ done = [q \in Requests |-> done[q]]
  BY DEF ClientOK, OnePlace, Orderly, Arrays
<1>3. PICK g \in 1 .. Len(inflight) : g = Top.g
  <2>1. Sound(Top, 1, Len(inflight), Len(ask), retried)
    BY <1>1, TopFacts
  <2> QED  BY <1>1, <2>1 DEF Sound
<1>4. PICK q : q = inflight[g][1]
  OBVIOUS
<1>5. PICK G : G = [inflight EXCEPT ![g] = Tail(inflight[g])]
  OBVIOUS
<1>6. inflight' = G /\ inflight[g] # << >>
  BY <1>1, <1>3, <1>5
<1>7. Popped(inflight, G, g)
  BY <1>2, <1>5, <1>6, ArrayPop
<1>8. /\ G \in Arrays /\ Len(G) = Len(inflight) /\ Head(inflight[g]) = q /\ q \in Requests /\ Holds(inflight, q)
      /\ (\A x : Holds(G, x) => Holds(inflight, x)) /\ Distinct(G) /\ ~Holds(G, q)
  BY <1>2, <1>4, <1>7 DEF Popped
<1>9. First = q /\ done' = [done EXCEPT ![q] = Append(@, r)]
  BY <1>1, <1>3, <1>8
<1>10. done' = [x \in Requests |-> done'[x]] /\ \A x \in Requests : x # q => done'[x] = done[x]
  BY <1>2, <1>9
<1>11. PICK f : f = Frame("cb", 0, 0, 0)
  OBVIOUS
<1>12. f \in FrameSet /\ f.k = "cb" /\ f.q = 0
  <2>1. 0 \in Nat /\ 0 \in 0 .. MaxReq
    BY BoundAssumption
  <2>2. IsFrame(Frame("cb", 0, 0, 0), "cb", 0, 0, 0)
    BY <2>1, FrameTypes
  <2> QED  BY <1>11, <2>2 DEF IsFrame
<1>13. Below(frames, frames', 1, 0) /\ frames'[1] = f
  <2>1. Swapped(frames, <<f>> \o Tail(frames), f)
    BY <1>1, <1>2, <1>12, BelowSwap
  <2> QED  BY <1>1, <1>11, <2>1 DEF Swapped
<1>14. frames' \in Stacks /\ sock' \in 0 .. Len(G)
  BY <1>1, <1>2, <1>8, <1>13 DEF Below
<1>15. ClientOK'
  BY <1>1, <1>6, <1>8, <1>10, <1>14 DEF ClientOK
<1>16. q <= Len(ask) /\ ~Calls(frames, q)
  BY <1>8 DEF OnePlace, Orderly
<1>17. 1 \in Nat /\ 0 \in Int /\ 1 + 0 = 1 /\ \A i \in 1 .. Len(frames') : i <= 1 => i = 1
  OBVIOUS
<1>18. \A x \in Requests : Older(frames, 1 + 0, x) => ~Holds(G, x) /\ done'[x] = << >>
  BY <1>1, <1>8, <1>10, <1>16, <1>17, OlderCalls
<1>19. \A x \in Requests : Holds(G, x) => done'[x] = << >> /\ x <= Len(ask)
  BY <1>8, <1>10 DEF OnePlace, Orderly
<1>20. \A x \in Requests : x > Len(ask) => done'[x] = << >>
  <2>1. \A x \in Requests : x > Len(ask) => x # q
    BY <1>2, <1>8, <1>16 DEF Requests
  <2> QED  BY <1>10, <2>1 DEF OnePlace, Orderly
<1>21. \A x \in Requests : ~Newly(frames', 1, x)
  <2>1. \A x \in Requests : x # 0
    BY BoundAssumption DEF Requests
  <2> QED  BY <1>12, <1>13, <1>17, <2>1 DEF Newly
<1>22. Sound(f, 1, Len(G), Len(ask), retried)
  BY <1>2, <1>12 DEF Sound
<1>23. \A j \in 1 .. Len(frames) : frames[j].k = "put" => frames[j].q \notin retried
  BY DEF OnePlace, Orderly, Sound
<1>24. Len(G) \in Nat /\ Len(inflight) <= Len(G) /\ Len(ask) <= Len(ask)
  BY <1>2, <1>8
<1>25. Fits(frames, inflight, Len(ask), retried, done, frames', G, Len(ask), retried, done', 1, 0)
  BY <1>2, <1>8, <1>12, <1>13, <1>17, <1>18, <1>19, <1>20, <1>21, <1>22, <1>23, <1>24 DEF Fits
<1>26. Orderly(frames', G, Len(ask), retried, done')
  BY <1>25, OrderlyStep DEF OnePlace
<1> QED  BY <1>1, <1>6, <1>15, <1>26 DEF OnePlace

\* A request goes from its frame to the array.
LEMMA WritePlaces ==
  ASSUME ClientOK, OnePlace, Write
  PROVE  ClientOK' /\ OnePlace'
<1>1. /\ frames # << >> /\ (Top.q # 0 \/ Top.k = "put")
      /\ Top.k = "put" \/ (Top.k = "retry" /\ Top.q # 0)
      /\ inflight' = [inflight EXCEPT ![Top.g] = Append(@, Top.q)] /\ UNCHANGED <<sock, ask, done>>
      /\ \/ Top.k = "put" /\ frames' = Tail(frames) /\ retried' = retried
         \/ /\ Top.k = "retry" /\ frames' = <<[Top EXCEPT !.q = 0, !.sent = FALSE]>> \o Tail(frames)
            /\ retried' = retried \union {q \in {Top.q} : inflight[Top.g] = << >>}
      /\ frames # << >>
  BY DEF Write, Writing, In, Swap
<1>2. /\ frames \in Stacks /\ inflight \in Arrays /\ Len(inflight) \in Nat /\ Distinct(inflight) /\ sock \in 0 .. Len(inflight) /\ Len(ask) \in Nat
      /\ retried \in SUBSET (1 .. Len(ask)) /\ Len(frames) \in Nat
  BY DEF ClientOK, OnePlace, Orderly, Arrays, Stacks
<1>3. Top \in FrameSet /\ Sound(Top, 1, Len(inflight), Len(ask), retried)
  BY <1>1, TopFacts
<1>4. PICK t \in FrameSet : t = Top
  BY <1>3
<1>5. t.q # 0
  BY <1>1, <1>2, <1>3, <1>4 DEF Sound
<1>6. PICK g \in 1 .. Len(inflight) : g = t.g
  BY <1>1, <1>3, <1>4 DEF Sound
<1>7. PICK q \in Requests : q = t.q
  BY <1>1, <1>4, <1>5, TopFacts
<1>8. q \in 1 .. Len(ask) /\ ~Holds(inflight, q) /\ done[q] = << >> /\ \A j \in 1 .. Len(frames) : j > 1 => frames[j].q # q
  BY <1>1, <1>4, <1>5, <1>7, TopFacts, TopAlone
<1>9. PICK G : G = [inflight EXCEPT ![g] = Append(inflight[g], q)]
  OBVIOUS
<1>10. inflight' = G
  BY <1>1, <1>4, <1>6, <1>7, <1>9
<1>11. Grown(inflight, G, g, q)
  BY <1>2, <1>9, ArrayPush
<1>12. /\ G \in Arrays /\ Len(G) = Len(inflight) /\ (\A x : Holds(G, x) => Holds(inflight, x) \/ x = q) /\ Distinct(G)
  BY <1>2, <1>8, <1>11 DEF Grown
<1>13. retried' \in SUBSET (1 .. Len(ask)) /\ \A x : x \in retried' => x \in retried \/ x = q
  BY <1>1, <1>2, <1>4, <1>7, <1>8
<1>14. \A x \in Requests : Older(frames, 1, x) => ~Holds(G, x) /\ done[x] = << >>
  BY <1>1, <1>4, <1>7, <1>12, OlderCalls
<1>15. \A x \in Requests : Holds(G, x) => done[x] = << >> /\ x <= Len(ask)
  BY <1>8, <1>12 DEF OnePlace, Orderly
<1>16. \A x \in Requests : x > Len(ask) => done[x] = << >>
  BY DEF OnePlace, Orderly
<1>17. \A j \in 1 .. Len(frames) : j > 1 /\ frames[j].k = "put" => frames[j].q \notin retried'
  <2>1. \A j \in 1 .. Len(frames) : frames[j].k = "put" => frames[j].q \notin retried
    BY DEF OnePlace, Orderly, Sound
  <2> QED  BY <1>8, <1>13, <2>1
<1>18. Len(G) \in Nat /\ Len(inflight) <= Len(G) /\ Len(ask) <= Len(ask) /\ sock' \in 0 .. Len(G) /\ inflight' = G /\ done' = done /\ ask' = ask
  BY <1>1, <1>2, <1>10, <1>12
<1>19. CASE Top.k = "put" /\ frames' = Tail(frames)
  <2>1. Below(frames, frames', 0, 1)
    BY <1>1, <1>2, <1>19, BelowTail
  <2>2. 0 \in Nat /\ 1 \in Int /\ 0 + 1 = 1 /\ 0 + 1 >= 1 /\ \A i \in 1 .. Len(frames') : ~(i <= 0)
    OBVIOUS
  <2>3. \A x \in Requests : ~Newly(frames', 0, x)
    BY <2>2 DEF Newly
  <2>4. ClientOK'
    BY <1>2, <1>12, <1>13, <1>18, <2>1 DEF ClientOK, Below
  <2>5. Fits(frames, inflight, Len(ask), retried, done, frames', G, Len(ask), retried', done, 0, 1)
    BY <1>2, <1>12, <1>14, <1>15, <1>16, <1>17, <1>18, <2>1, <2>2, <2>3 DEF Fits
  <2>6. Orderly(frames', G, Len(ask), retried', done)
    BY <2>5, OrderlyStep DEF OnePlace
  <2> QED  BY <1>18, <2>4, <2>6 DEF OnePlace
<1>20. CASE Top.k = "retry" /\ frames' = <<[Top EXCEPT !.q = 0, !.sent = FALSE]>> \o Tail(frames)
  <2>1. PICK f : f = [t EXCEPT !.q = 0, !.sent = FALSE]
    OBVIOUS
  <2>2. f \in FrameSet /\ f.k = "retry" /\ f.q = 0 /\ f.g = t.g /\ f.old = t.old
    <3>1. 0 \in 0 .. MaxReq
      BY FieldTypes
    <3>2. IsFrame([t EXCEPT !.q = 0, !.sent = FALSE], t.k, 0, t.g, t.old)
      BY <3>1, CallType
    <3> QED  BY <1>4, <1>20, <2>1, <3>2 DEF IsFrame
  <2>3. Below(frames, frames', 1, 0) /\ frames'[1] = f
    <3>1. Swapped(frames, <<f>> \o Tail(frames), f)
      BY <1>1, <1>2, <2>2, BelowSwap
    <3> QED  BY <1>4, <1>20, <2>1, <3>1 DEF Swapped
  <2>4. 1 \in Nat /\ 0 \in Int /\ 1 + 0 = 1 /\ \A i \in 1 .. Len(frames') : i <= 1 => i = 1
    OBVIOUS
  <2>5. \A x \in Requests : ~Newly(frames', 1, x)
    <3>1. \A x \in Requests : x # 0
      BY BoundAssumption DEF Requests
    <3> QED  BY <2>2, <2>3, <2>4, <3>1 DEF Newly
  <2>6. Sound(f, 1, Len(G), Len(ask), retried')
    BY <1>2, <1>3, <1>4, <1>12, <1>20, <2>2 DEF Sound
  <2>7. ClientOK'
    BY <1>2, <1>12, <1>13, <1>18, <2>3 DEF ClientOK, Below
  <2>8. Fits(frames, inflight, Len(ask), retried, done, frames', G, Len(ask), retried', done, 1, 0)
    BY <1>2, <1>12, <1>14, <1>15, <1>16, <1>17, <1>18, <2>2, <2>3, <2>4, <2>5, <2>6 DEF Fits
  <2>9. Orderly(frames', G, Len(ask), retried', done)
    BY <2>8, OrderlyStep DEF OnePlace
  <2> QED  BY <1>18, <2>7, <2>9 DEF OnePlace
<1> QED  BY <1>1, <1>19, <1>20

\* gcf_drain answers what is in the array of a child that is gone.
LEMMA DrainPlaces ==
  ASSUME ClientOK, OnePlace, NEW g \in 1 .. Len(inflight), gcf_drain(g)
  PROVE  ClientOK' /\ OnePlace'
<1>1. /\ frames = << >> /\ UNCHANGED <<frames, sock, retried, ask>> /\ inflight' = [inflight EXCEPT ![g] = << >>]
      /\ done' = [q \in DOMAIN done |->
             IF q \in Range(inflight[g]) THEN Append(done[q], <<"abort", Entry(q), << >>>>) ELSE done[q]]
  BY DEF gcf_drain
<1>2. /\ frames \in Stacks /\ inflight \in Arrays /\ Len(inflight) \in Nat /\ Distinct(inflight) /\ sock \in 0 .. Len(inflight) /\ Len(ask) \in Nat
      /\ done = [q \in Requests |-> done[q]] /\ inflight[g] \in Seq(Requests)
  BY DEF ClientOK, OnePlace, Orderly, Arrays
<1>3. Drained(inflight, inflight', g)
  BY <1>1, <1>2, ArrayDrain
<1>4. /\ inflight' \in Arrays /\ Len(inflight') = Len(inflight) /\ Distinct(inflight')
      /\ (\A x : Holds(inflight', x) => Holds(inflight, x)) /\ \A x : Holds(inflight', x) => ~Array(inflight, g, x)
  BY <1>2, <1>3 DEF Drained
<1>5. \A q \in Requests : q \in Range(inflight[g]) <=> Array(inflight, g, q)
  <2>1. DOMAIN inflight[g] = 1 .. Len(inflight[g])
    BY <1>2
  <2> QED  BY <2>1 DEF Array, Range
<1>6. \A q \in Requests : ~Array(inflight, g, q) => done'[q] = done[q]
  BY <1>1, <1>2, <1>5
<1>7. done' = [q \in Requests |-> done'[q]]
  BY <1>1, <1>2
<1>8. ClientOK'
  BY <1>1, <1>4, <1>7 DEF ClientOK
<1>9. Below(frames, frames', 0, 0)
  BY <1>1, <1>2, BelowSame
<1>10. 1 .. Len(frames) = {} /\ 1 .. Len(frames') = {} /\ 0 \in Nat /\ 0 \in Int
  BY <1>1
<1>11. \A q : ~Newly(frames', 0, q) /\ ~Older(frames, 0 + 0, q)
  BY <1>10 DEF Newly, Older
<1>12. \A q \in Requests : Holds(inflight', q) => done'[q] = << >> /\ q <= Len(ask)
  BY <1>4, <1>6 DEF OnePlace, Orderly
<1>13. \A q \in Requests : q > Len(ask) => done'[q] = << >>
  <2>1. ASSUME NEW q \in Requests, q > Len(ask) PROVE ~Array(inflight, g, q)
    <3>1. Array(inflight, g, q) => q <= Len(ask)
      BY DEF OnePlace, Orderly, Holds
    <3> QED  BY <1>2, <2>1, <3>1 DEF Requests
  <2> QED  BY <1>6, <2>1 DEF OnePlace, Orderly
<1>14. Len(inflight') \in Nat /\ Len(inflight) <= Len(inflight') /\ Len(ask) <= Len(ask)
  BY <1>2, <1>4
<1>15. Fits(frames, inflight, Len(ask), retried, done, frames', inflight', Len(ask), retried, done', 0, 0)
  BY <1>2, <1>4, <1>9, <1>10, <1>11, <1>12, <1>13, <1>14 DEF Fits
<1>16. Orderly(frames', inflight', Len(ask), retried, done')
  BY <1>15, OrderlyStep DEF OnePlace
<1> QED  BY <1>1, <1>8, <1>16 DEF OnePlace

\* A new request.
LEMMA NewRequest ==
  ASSUME ClientOK, OnePlace, NEW o \in Names, Len(ask) + 1 <= MaxReq, ask' = Append(ask, [o |-> o, had |-> o \in objs]), UNCHANGED retried
  PROVE  /\ ask' \in Seq(Asked) /\ Len(ask') = Len(ask) + 1 /\ Len(ask) \in Nat /\ Len(ask') <= MaxReq /\ retried' \in SUBSET (1 .. Len(ask'))
         /\ Len(ask) + 1 \in Requests /\ ~Calls(frames, Len(ask) + 1) /\ ~Holds(inflight, Len(ask) + 1) /\ done[Len(ask) + 1] = << >>
         /\ Len(ask) + 1 \notin retried /\ ask'[Len(ask) + 1] = [o |-> o, had |-> o \in objs] /\ \A i \in 1 .. Len(ask) : ask'[i] = ask[i]
<1>1. ask \in Seq(Asked) /\ Len(ask) \in Nat /\ retried \in SUBSET (1 .. Len(ask)) /\ [o |-> o, had |-> o \in objs] \in Asked
  BY DEF ClientOK, Asked
<1>2. PICK a \in Asked : a = [o |-> o, had |-> o \in objs]
  BY <1>1
<1>3. ask' \in Seq(Asked) /\ Len(ask') = Len(ask) + 1 /\ ask'[Len(ask) + 1] = a /\ \A i \in 1 .. Len(ask) : ask'[i] = ask[i]
  BY <1>1, <1>2, AppendProperties
<1>4. PICK n \in Nat : n = Len(ask)
  BY <1>1
<1>5. n + 1 \in Requests /\ n + 1 > n /\ n + 1 \notin 1 .. n /\ 1 .. n \subseteq 1 .. n + 1 /\ ~(n + 1 <= n)
  BY <1>4, BoundAssumption DEF Requests
<1>6. ~Calls(frames, n + 1)
  <2>1. \A i \in 1 .. Len(frames) : frames[i].q <= n
    BY <1>4 DEF OnePlace, Orderly, Sound
  <2> QED  BY <1>5, <2>1 DEF Calls
<1>7. ~Holds(inflight, n + 1) /\ done[n + 1] = << >>
  BY <1>4, <1>5 DEF OnePlace, Orderly
<1> QED  BY <1>1, <1>2, <1>3, <1>4, <1>5, <1>6, <1>7

\* It is asked of a child.
LEMMA PutPlaces ==
  ASSUME ClientOK, OnePlace, NEW o \in Names, Len(ask) + 1 <= MaxReq, ask' = Append(ask, [o |-> o, had |-> o \in objs]),
         frames = << >> \/ In("cb"), UNCHANGED <<retried, done>>,
         inflight' \in Arrays, Len(inflight) <= Len(inflight'), Distinct(inflight'), \A q : Holds(inflight', q) => Holds(inflight, q),
         NEW g \in 1 .. Len(inflight'), frames' = <<Frame("put", Len(ask) + 1, g, 0)>> \o frames, sock' \in 0 .. Len(inflight')
  PROVE  ClientOK' /\ OnePlace'
<1>1. /\ frames \in Stacks /\ Len(inflight) \in Nat /\ Len(inflight') \in Nat /\ Len(frames) \in Nat
  <2>1. frames \in Stacks /\ inflight \in Arrays /\ inflight' \in Arrays
    BY DEF ClientOK
  <2> QED  BY <2>1 DEF Arrays, Stacks
<1>2. PICK q \in Requests : q = Len(ask) + 1
  BY NewRequest
<1>3. /\ ask' \in Seq(Asked) /\ Len(ask') = q /\ Len(ask) \in Nat /\ q = Len(ask) + 1 /\ q <= MaxReq /\ retried' \in SUBSET (1 .. q)
      /\ ~Calls(frames, q) /\ ~Holds(inflight, q) /\ done[q] = << >> /\ q \notin retried
  BY <1>2, NewRequest
<1>4. PICK f : f = Frame("put", q, g, 0)
  OBVIOUS
<1>5. f \in FrameSet /\ f.k = "put" /\ f.q = q /\ f.g = g
  <2>1. g \in Nat /\ q \in 0 .. MaxReq /\ 0 \in Nat
    BY BoundAssumption DEF Requests
  <2>2. IsFrame(Frame("put", q, g, 0), "put", q, g, 0)
    BY <2>1, FrameTypes
  <2> QED  BY <1>4, <2>2 DEF IsFrame
<1>6. Below(frames, frames', 1, -1) /\ frames'[1] = f
  <2>1. Pushed(frames, <<f>> \o frames, f)
    BY <1>1, <1>5, BelowPush
  <2> QED  BY <1>2, <1>4, <2>1 DEF Pushed
<1>7. ClientOK'
  BY <1>3, <1>6 DEF ClientOK, Below
<1>8. 1 \in Nat /\ -1 \in Int /\ 1 + (-1) = 0 /\ \A i \in 1 .. Len(frames') : i <= 1 => i = 1
  OBVIOUS
<1>9. \A i \in 1 .. Len(frames) : i = 1 => frames[i].k = "cb"
  <2>1. CASE frames = << >>
    BY <2>1
  <2>2. CASE frames # << >> /\ Top.k = "cb"
    BY <2>2, TopFacts
  <2> QED  BY <2>1, <2>2 DEF In
<1>10. Sound(f, 1, Len(inflight'), q, retried)
  BY <1>3, <1>5 DEF Sound, Requests
<1>11. \A x \in Requests : Older(frames, 0, x) => ~Holds(inflight', x) /\ done[x] = << >>
  <2>1. \A x : Older(frames, 0, x) => Calls(frames, x)
    BY DEF Older, Calls
  <2> QED  BY <2>1 DEF OnePlace, Orderly
<1>12. \A x \in Requests : Newly(frames', 1, x) => ~Holds(inflight', x) /\ done[x] = << >>
  BY <1>3, <1>5, <1>6, <1>8 DEF Newly
<1>13. \A x \in Requests : Holds(inflight', x) => done[x] = << >> /\ x <= q
  <2>1. \A x \in Requests : x <= Len(ask) => x <= q
    BY <1>3 DEF Requests
  <2> QED  BY <2>1 DEF OnePlace, Orderly
<1>14. \A x \in Requests : x > q => done[x] = << >>
  <2>1. \A x \in Requests : x > q => x > Len(ask)
    BY <1>3 DEF Requests
  <2> QED  BY <2>1 DEF OnePlace, Orderly
<1>15. \A j \in 1 .. Len(frames) : frames[j].k = "put" => frames[j].q \notin retried
  BY DEF OnePlace, Orderly, Sound
<1>16. \A j \in 1 .. Len(frames) : frames[j].q # q
  BY <1>3 DEF Calls
<1>17. Len(ask) <= q /\ q \in Nat
  BY <1>3
<1>18. Fits(frames, inflight, Len(ask), retried, done, frames', inflight', q, retried, done, 1, -1)
  <2>1. \A x \in 1 .. Len(frames') : x <= 1 =>
          /\ Sound(frames'[x], x, Len(inflight'), q, retried)
          /\ frames'[x].q # 0 => x = 1 /\ \A j \in 1 .. Len(frames) : j > 1 + (-1) => frames[j].q # frames'[x].q
    BY <1>5, <1>6, <1>8, <1>10, <1>16
  <2> QED  BY <1>1, <1>3, <1>6, <1>8, <1>9, <1>11, <1>12, <1>13, <1>14, <1>15, <1>17, <2>1 DEF Fits
<1>19. Orderly(frames', inflight', q, retried, done)
  BY <1>18, OrderlyStep DEF OnePlace
<1> QED  BY <1>3, <1>7, <1>19 DEF OnePlace

\* cat_async makes a new request and holds it in its frame.
LEMMA CallPlaces ==
  ASSUME ClientOK, OnePlace, NEW o \in Names, Call(o)
  PROVE  ClientOK' /\ OnePlace'
<1>1. /\ Len(ask) + 1 <= MaxReq /\ ask' = Append(ask, [o |-> o, had |-> o \in objs]) /\ (frames = << >> \/ In("cb")) /\ retried' = retried
  BY DEF Call
<1>2. /\ inflight \in Arrays /\ Len(inflight) \in Nat /\ Distinct(inflight) /\ sock \in 0 .. Len(inflight) /\ Len(ask) \in Nat
      /\ done = [q \in Requests |-> done[q]] /\ frames \in Stacks
  BY DEF ClientOK, OnePlace, Orderly, Arrays
<1>3. \/ sock # 0 /\ frames' = <<Frame("put", Len(ask) + 1, sock, 0)>> \o frames /\ UNCHANGED <<sock, inflight, done>>
      \/ /\ inflight' = Append(inflight, << >>) /\ sock' = Len(inflight) + 1 /\ UNCHANGED done
         /\ frames' = <<Frame("put", Len(ask) + 1, Len(inflight) + 1, 0)>> \o frames
      \/ UNCHANGED <<frames, sock, inflight>> /\ done' = [done EXCEPT ![Len(ask) + 1] = Append(@, <<"missing", NoObj, << >>>>)]
      \/ UNCHANGED <<frames, sock, inflight, done>>
  BY DEF Call, Spawn, Reply, client
<1>4. CASE sock # 0 /\ frames' = <<Frame("put", Len(ask) + 1, sock, 0)>> \o frames /\ UNCHANGED <<sock, inflight, done>>
  <2>1. PICK g \in 1 .. Len(inflight) : g = sock
    BY <1>2, <1>4
  <2>2. Len(inflight) <= Len(inflight')
    BY <1>2, <1>4
  <2> QED  BY <1>1, <1>2, <1>4, <2>1, <2>2, PutPlaces
<1>5. CASE /\ inflight' = Append(inflight, << >>) /\ sock' = Len(inflight) + 1 /\ UNCHANGED done
           /\ frames' = <<Frame("put", Len(ask) + 1, Len(inflight) + 1, 0)>> \o frames
  <2>1. Extended(inflight, inflight')
    BY <1>2, <1>5, ArrayNew
  <2>2. /\ inflight' \in Arrays /\ Len(inflight') = Len(inflight) + 1 /\ Distinct(inflight') /\ \A q : Holds(inflight', q) => Holds(inflight, q)
    BY <1>2, <2>1 DEF Extended
  <2>3. PICK g \in 1 .. Len(inflight') : g = Len(inflight) + 1
    BY <1>2, <2>2
  <2>4. Len(inflight) <= Len(inflight') /\ sock' \in 0 .. Len(inflight')
    BY <1>2, <1>5, <2>2
  <2> QED  BY <1>1, <1>5, <2>2, <2>3, <2>4, PutPlaces
<1>6. ASSUME UNCHANGED <<frames, sock, inflight>>, done' = [q \in Requests |-> done'[q]],
             \A x \in Requests : x # Len(ask) + 1 => done'[x] = done[x]
      PROVE  ClientOK' /\ OnePlace'
  <2>1. PICK q \in Requests : q = Len(ask) + 1
    BY <1>1, NewRequest
  <2>2. /\ ask' \in Seq(Asked) /\ Len(ask') = q /\ q = Len(ask) + 1 /\ q <= MaxReq /\ retried' \in SUBSET (1 .. q)
        /\ ~Calls(frames, q) /\ ~Holds(inflight, q)
    BY <1>1, <2>1, NewRequest
  <2>3. ClientOK'
    BY <1>2, <1>6, <2>2 DEF ClientOK
  <2>4. Below(frames, frames', 0, 0)
    BY <1>2, <1>6, BelowSame
  <2>5. 0 \in Nat /\ 0 \in Int /\ 0 + 0 = 0 /\ \A i \in 1 .. Len(frames') : ~(i <= 0)
    OBVIOUS
  <2>6. \A x : ~Newly(frames', 0, x) /\ (Older(frames, 0, x) => Calls(frames, x))
    BY <2>5 DEF Newly, Older, Calls
  <2>7. \A x \in Requests : Older(frames, 0, x) => ~Holds(inflight, x) /\ done'[x] = << >>
    BY <1>6, <2>1, <2>2, <2>6 DEF OnePlace, Orderly
  <2>8. \A x \in Requests : Holds(inflight, x) => done'[x] = << >> /\ x <= q
    <3>1. \A x \in Requests : x <= Len(ask) => x <= q
      BY <1>2, <2>2 DEF Requests
    <3> QED  BY <1>6, <2>1, <2>2, <3>1 DEF OnePlace, Orderly
  <2>9. \A x \in Requests : x > q => done'[x] = << >>
    <3>1. \A x \in Requests : x > q => x > Len(ask) /\ x # Len(ask) + 1
      BY <1>2, <2>2 DEF Requests
    <3> QED  BY <1>6, <3>1 DEF OnePlace, Orderly
  <2>10. \A j \in 1 .. Len(frames) : frames[j].k = "put" => frames[j].q \notin retried
    BY DEF OnePlace, Orderly, Sound
  <2>11. Len(ask) <= q /\ q \in Nat /\ Len(inflight) <= Len(inflight)
    BY <1>2, <2>2
  <2>12. Fits(frames, inflight, Len(ask), retried, done, frames', inflight, q, retried, done', 0, 0)
    BY <1>2, <2>4, <2>5, <2>6, <2>7, <2>8, <2>9, <2>10, <2>11 DEF Fits
  <2>13. Orderly(frames', inflight, q, retried, done')
    BY <2>12, OrderlyStep DEF OnePlace
  <2> QED  BY <1>1, <1>6, <2>2, <2>3, <2>13 DEF OnePlace
<1>7. CASE UNCHANGED <<frames, sock, inflight>> /\ done' = [done EXCEPT ![Len(ask) + 1] = Append(@, <<"missing", NoObj, << >>>>)]
  <2>1. done' = [q \in Requests |-> done'[q]] /\ \A x \in Requests : x # Len(ask) + 1 => done'[x] = done[x]
    BY <1>2, <1>7
  <2> QED  BY <1>6, <1>7, <2>1
<1>8. CASE UNCHANGED <<frames, sock, inflight, done>>
  BY <1>2, <1>6, <1>8
<1> QED  BY <1>3, <1>4, <1>5, <1>7, <1>8

\* fail drops the frames up to the eval that catches it, and answers the requests that
\* cat_async dies of.
LEMMA FailPlaces ==
  ASSUME ClientOK, OnePlace, frames # << >>, fail
  PROVE  ClientOK' /\ OnePlace'
<1>1. Croak /\ sock' = 0
  BY DEF fail, Closed
<1>2. sock' \in 0 .. Len(inflight)
  BY <1>1 DEF ClientOK, Arrays
<1> QED  BY <1>1, <1>2, CroakPlaces

\* Every step.
LEMMA PlacesStep ==
  ASSUME ClientOK, OnePlace, [Next]_vars
  PROVE  ClientOK' /\ OnePlace'
<1>1. ASSUME NEW o \in Objs \union {NoObj}, Call(o) PROVE ClientOK' /\ OnePlace'
  BY <1>1, CallPlaces DEF Names
<1>2. CASE WriteFails
  <2>1. frames # << >> /\ fail
    BY <1>2 DEF WriteFails, Writing, In
  <2> QED  BY <2>1, FailPlaces
<1>3. CASE Fill
  BY <1>3, SamePlaces DEF Fill
<1>4. CASE StepFound
  <2>1. Reading /\ Callback(<<"blob", rbuf[1][2], SubSeq(rbuf, 2, Size[rbuf[1][2]] + 1)>>, SubSeq(rbuf, Size[rbuf[1][2]] + 3, Len(rbuf))) /\ UNCHANGED ask
    BY <1>4 DEF StepFound
  <2> QED  BY <2>1, CallbackPlaces
<1>5. CASE StepMissing
  <2>1. Reading /\ Callback(<<"missing", rbuf[1][2], << >>>>, Tail(rbuf)) /\ UNCHANGED ask
    BY <1>5 DEF StepMissing
  <2> QED  BY <2>1, CallbackPlaces
<1>6. CASE StepFails
  <2>1. frames # << >> /\ fail
    BY <1>6 DEF StepFails, Reading, In
  <2> QED  BY <2>1, FailPlaces
<1>7. CASE StepEmpty
  <2>1. frames # << >> /\ Croak /\ sock' = sock
    BY <1>7 DEF StepEmpty, In
  <2>2. sock' \in 0 .. Len(inflight)
    BY <2>1 DEF ClientOK
  <2> QED  BY <2>1, <2>2, CroakPlaces
<1>8. CASE Drain
  <2>1. DOMAIN inflight = 1 .. Len(inflight)
    BY DEF ClientOK, Arrays
  <2> QED  BY <1>8, <2>1, DrainPlaces DEF Drain
<1>9. CASE cleanup
  BY <1>9, SamePlaces DEF cleanup, Closed
<1>10. CASE gcf2_loop \/ cat_oid \/ Crash \/ UNCHANGED vars
  BY <1>10, SamePlaces DEF gcf2_loop, cat_oid, Crash, vars, client
<1>11. ASSUME NEW s, AddAlternate(s) PROVE ClientOK' /\ OnePlace'
  BY <1>11, SamePlaces DEF AddAlternate, client
<1> QED  BY <1>1, <1>2, <1>3, <1>4, <1>5, <1>6, <1>7, <1>8, <1>9, <1>10, <1>11,
            ReadStepPlaces, WritePlaces, RetryPlaces, RetryNextPlaces, ReturnPlaces, EventStepPlaces DEF Next, Step, Child

-----------------------------------------------------------------------------
(* Types of the child and of the repository. *)

\* An answer is header, object and newline, Size + 2 bytes in all.
LEMMA AnswerType ==
  ASSUME NEW o \in Objs
  PROVE  /\ Answer(o) \in [1 .. 3 -> Seq(Bytes)] /\ Left(Answer(o), 3) \in Seq(Bytes)
         /\ Len(Left(Answer(o), 3)) = Size[o] + 2
         /\ \A i \in 1 .. Size[o] + 2 : Left(Answer(o), 3)[i] = BlobByte(o, i)
<1>1. Size[o] \in Nat /\ o \in Names
  BY ObjAssumption DEF Names
<1>2. PICK n \in Nat : n = Size[o]
  BY <1>1
<1>3. Byte("hdr", o) \in Bytes /\ Byte("data", o) \in Bytes /\ Byte("lf", o) \in Bytes
  BY <1>1 DEF Bytes, Byte
<1>4. PICK h : h = Byte("hdr", o)
  OBVIOUS
<1>5. PICK d : d = Byte("data", o)
  OBVIOUS
<1>6. PICK l : l = Byte("lf", o)
  OBVIOUS
<1>7. h \in Bytes /\ d \in Bytes /\ l \in Bytes
  BY <1>3, <1>4, <1>5, <1>6
<1>8. PICK D : D = [i \in 1 .. n |-> d]
  OBVIOUS
<1>9. D \in Seq(Bytes) /\ Len(D) = n /\ \A i \in 1 .. n : D[i] = d
  BY <1>7, <1>8
<1>10. <<h>> \in Seq(Bytes) /\ <<l>> \in Seq(Bytes) /\ Len(<<h>>) = 1 /\ Len(<<l>>) = 1 /\ <<h>>[1] = h /\ <<l>>[1] = l
  BY <1>7
<1>11. Answer(o) = << <<h>>, D, <<l>> >>
  BY <1>2, <1>4, <1>5, <1>6, <1>8 DEF Answer, Data
<1>12. ASSUME NEW x \in Seq(Bytes), NEW y \in Seq(Bytes), NEW z \in Seq(Bytes)
       PROVE  << x, y, z >> \in [1 .. 3 -> Seq(Bytes)] /\ << x, y, z >>[1] = x /\ << x, y, z >>[2] = y /\ << x, y, z >>[3] = z
  OBVIOUS
<1>13. Answer(o) \in [1 .. 3 -> Seq(Bytes)] /\ Answer(o)[1] = <<h>> /\ Answer(o)[2] = D /\ Answer(o)[3] = <<l>>
  <2>1. <<h>> \in Seq(Bytes) /\ D \in Seq(Bytes) /\ <<l>> \in Seq(Bytes)
    BY <1>9, <1>10
  <2>2. /\ << <<h>>, D, <<l>> >> \in [1 .. 3 -> Seq(Bytes)] /\ << <<h>>, D, <<l>> >>[1] = <<h>>
        /\ << <<h>>, D, <<l>> >>[2] = D /\ << <<h>>, D, <<l>> >>[3] = <<l>>
    BY <1>12, <2>1, Zenon
  <2> QED  BY <1>11, <2>2, Zenon
<1>14. Left(Answer(o), 3) = <<h>> \o (D \o <<l>>)
  BY <1>13, LeftFacts
<1>15. PICK E : E = D \o <<l>>
  OBVIOUS
<1>16. E \in Seq(Bytes) /\ Len(E) = n + 1 /\ E[n + 1] = l /\ \A i \in 1 .. n : E[i] = d
  BY <1>9, <1>10, <1>15
<1>17. PICK W : W = <<h>> \o E
  OBVIOUS
<1>18. W \in Seq(Bytes) /\ Len(W) = n + 2 /\ W[1] = h /\ \A i \in 1 .. n + 1 : W[i + 1] = E[i]
  BY <1>10, <1>16, <1>17
<1>19. ASSUME NEW i \in 1 .. n + 2 PROVE W[i] = BlobByte(o, i)
  <2>1. CASE i = 1
    BY <1>4, <1>18, <2>1 DEF BlobByte
  <2>2. CASE i = n + 2
    <3>1. n + 1 \in 1 .. n + 1 /\ n + 1 + 1 = i /\ i # 1
      BY <2>2
    <3>2. W[i] = l
      BY <1>16, <1>18, <3>1
    <3> QED  BY <1>2, <1>6, <2>2, <3>1, <3>2 DEF BlobByte
  <2>3. CASE i # 1 /\ i # n + 2
    <3>1. i - 1 \in 1 .. n /\ i - 1 \in 1 .. n + 1 /\ i - 1 + 1 = i
      BY <2>3
    <3>2. W[i] = d
      BY <1>16, <1>18, <3>1
    <3> QED  BY <1>2, <1>5, <2>3, <3>2 DEF BlobByte
  <2> QED  BY <2>1, <2>2, <2>3
<1>20. Left(Answer(o), 3) = W
  BY <1>14, <1>15, <1>17
<1> QED  BY <1>2, <1>13, <1>18, <1>19, <1>20

\* gcf2_loop reads a request and has an answer to write.
LEMMA LoopWire ==
  ASSUME ChildOK, RepoOK, gcf2_loop
  PROVE  /\ ChildOK' /\ Rest = << >> /\ cpc = "read" /\ req # << >> /\ req' = Tail(req) /\ UNCHANGED <<rbuf, resp>>
         /\ view' \in SUBSET objs /\ (kind = "git" /\ cpc' # "dead" => view' = view)
         /\ Head(req) = Garbage => cpc' = "dead"
         /\ Head(req) # Garbage =>
              /\ cpc' # "dead" /\ Head(req) \in Names
              /\ \/ /\ Head(req) \in objs /\ Len(Rest') = Size[Head(req)] + 2
                    /\ \A i \in 1 .. Size[Head(req)] + 2 : Rest'[i] = BlobByte(Head(req), i)
                 \/ Head(req) \notin view' /\ Rest' = << Byte("missing", Head(req)) >>
              /\ kind # "git" /\ Head(req) \notin view' => view' = objs
<1>1. /\ cpc = "read" /\ req # << >> /\ req' = Tail(req) /\ UNCHANGED <<rbuf, resp>>
      /\ req \in Seq(Names \union {Garbage}) /\ vec \in [1 .. 3 -> Seq(Bytes)] /\ nvec \in 0 .. 3 /\ nvec = 0
      /\ rbuf \in Seq(Bytes) /\ resp \in Seq(Bytes)
  BY DEF gcf2_loop, ChildOK, client
<1>2. PICK o \in Names \union {Garbage} : o = Head(req)
  BY <1>1, HeadTailProperties
<1>3. req' \in Seq(Names \union {Garbage})
  BY <1>1, HeadTailProperties
<1>4. Rest = << >>
  BY <1>1, RestIsLeft, LeftFacts
<1>5. view \in SUBSET objs /\ objs \in SUBSET Objs /\ kind \in {"git", "gcf2"}
  BY DEF RepoOK
<1>6. CASE o = Garbage
  <2>1. cpc' = "dead" /\ view' = {} /\ UNCHANGED <<vec, nvec>>
    BY <1>2, <1>6 DEF gcf2_loop
  <2>2. ChildOK'
    BY <1>1, <1>3, <2>1 DEF ChildOK
  <2> QED  BY <1>1, <1>2, <1>4, <1>6, <2>1, <2>2
<1>7. CASE o # Garbage
  <2>1. /\ cpc' = "write" /\ view' = (IF kind = "gcf2" /\ o \notin view THEN objs ELSE view)
        /\ IF o \in view' THEN vec' = Answer(o) /\ nvec' = 3 ELSE vec' = Missing(o) /\ nvec' = 1
    BY <1>2, <1>7 DEF gcf2_loop, Look
  <2>2. o \in Names
    BY <1>7
  <2>3. CASE o \in view'
    <3>1. o \in Objs /\ o \in objs
      BY <1>5, <2>1, <2>3
    <3>2. vec' = Answer(o) /\ nvec' = 3 /\ Rest' = Left(Answer(o), 3)
      BY <2>1, <2>3, RestIsLeft
    <3>3. /\ Answer(o) \in [1 .. 3 -> Seq(Bytes)] /\ Len(Left(Answer(o), 3)) = Size[o] + 2
          /\ \A i \in 1 .. Size[o] + 2 : Left(Answer(o), 3)[i] = BlobByte(o, i)
      BY <3>1, AnswerType
    <3>4. ChildOK'
      BY <1>1, <1>3, <2>1, <3>2, <3>3 DEF ChildOK
    <3>5. Len(Rest') = Size[o] + 2 /\ \A i \in 1 .. Size[o] + 2 : Rest'[i] = BlobByte(o, i)
      BY <3>2, <3>3
    <3> QED  BY <1>1, <1>2, <1>4, <1>5, <1>7, <2>1, <2>2, <2>3, <3>1, <3>4, <3>5
  <2>4. CASE o \notin view'
    <3>1. vec' = Missing(o) /\ nvec' = 1 /\ Rest' = Left(Missing(o), 1)
      BY <2>1, <2>4, RestIsLeft
    <3>2. Missing(o) \in [1 .. 3 -> Seq(Bytes)] /\ Left(Missing(o), 1) = << Byte("missing", o) >>
      BY <2>2, MissingType
    <3>3. ChildOK'
      BY <1>1, <1>3, <2>1, <3>1, <3>2 DEF ChildOK
    <3>4. kind # "git" => view' = objs
      BY <1>5, <2>1, <2>4
    <3>5. Rest' = << Byte("missing", o) >>
      BY <3>1, <3>2
    <3> QED  BY <1>1, <1>2, <1>4, <1>5, <1>7, <2>1, <2>2, <2>4, <3>3, <3>4, <3>5
  <2> QED  BY <2>3, <2>4
<1> QED  BY <1>6, <1>7

\* A new child, and none.
LEMMA StartedChild ==
  ASSUME NEW v, Started(v)
  PROVE  ChildOK' /\ Wire' = << >> /\ req' = << >> /\ cpc' = "read" /\ view' = v
<1>1. /\ req' = << >> /\ resp' = << >> /\ rbuf' = << >> /\ cpc' = "read" /\ vec' = Missing(NoObj) /\ nvec' = 0 /\ view' = v
  BY DEF Started
<1>2. Missing(NoObj) \in [1 .. 3 -> Seq(Bytes)]
  BY MissingType DEF Names
<1>3. ChildOK'
  <2>1. << >> \in Seq(Bytes) /\ << >> \in Seq(Names \union {Garbage}) /\ 0 \in 0 .. 3
    OBVIOUS
  <2> QED  BY <1>1, <1>2, <2>1 DEF ChildOK
<1>4. Rest' = << >>
  BY <1>1, <1>2, RestIsLeft, LeftFacts
<1>5. Wire' = << >>
  <2>1. << >> \o (<< >> \o << >>) = << >>
    OBVIOUS
  <2> QED  BY <1>1, <1>4, <2>1 DEF Wire
<1> QED  BY <1>1, <1>3, <1>5

\* close leaves no child and no socket.
LEMMA ClosedChild ==
  ASSUME Closed
  PROVE  ChildOK' /\ cpc' = "dead" /\ sock' = 0 /\ view' = {}
<1>1. /\ req' = << >> /\ resp' = << >> /\ rbuf' = << >> /\ cpc' = "dead" /\ vec' = Missing(NoObj) /\ nvec' = 0 /\ view' = {} /\ sock' = 0
  BY DEF Closed
<1>2. Missing(NoObj) \in [1 .. 3 -> Seq(Bytes)]
  BY MissingType DEF Names
<1>3. << >> \in Seq(Bytes) /\ << >> \in Seq(Names \union {Garbage}) /\ 0 \in 0 .. 3
  OBVIOUS
<1> QED  BY <1>1, <1>2, <1>3 DEF ChildOK

\* What is read was on the wire already.
LEMMA FillWire ==
  ASSUME ChildOK, Fill
  PROVE  ChildOK' /\ Wire' = Wire /\ UNCHANGED <<req, cpc>>
<1>1. rbuf' = rbuf \o resp /\ resp' = << >> /\ UNCHANGED <<req, cpc, vec, nvec>>
  BY DEF Fill
<1>2. rbuf \in Seq(Bytes) /\ resp \in Seq(Bytes) /\ vec \in [1 .. 3 -> Seq(Bytes)] /\ nvec \in 0 .. 3
  BY DEF ChildOK
<1>3. rbuf' \in Seq(Bytes) /\ resp' \in Seq(Bytes)
  BY <1>1, <1>2
<1>4. ChildOK'
  BY <1>1, <1>3 DEF ChildOK
<1>5. Rest' = Rest /\ Rest \in Seq(Bytes)
  BY <1>1, <1>2, RestIsLeft, LeftFacts
<1>6. ASSUME NEW x \in Seq(Bytes), NEW y \in Seq(Bytes), NEW z \in Seq(Bytes)
      PROVE  (x \o y) \o (<< >> \o z) = x \o (y \o z)
  BY ConcatAssociative, ConcatEmptySeq
<1>7. Wire' = (rbuf \o resp) \o (<< >> \o Rest)
  BY <1>1, <1>5 DEF Wire
<1>8. Wire' = Wire
  BY <1>2, <1>5, <1>6, <1>7 DEF Wire
<1> QED  BY <1>1, <1>4, <1>8

\* The whole answer is in the buffer.
LEMMA FoundFacts ==
  ASSUME ChildOK, Found
  PROVE  /\ rbuf[1][2] \in Objs /\ Size[rbuf[1][2]] \in Nat /\ rbuf # << >> /\ Len(rbuf) \in Nat
         /\ Len(rbuf) >= Size[rbuf[1][2]] + 2 /\ rbuf[1][1] = "hdr"
<1>1. rbuf \in Seq(Bytes) /\ rbuf # << >> /\ rbuf[1][1] = "hdr" /\ Len(rbuf) >= Size[rbuf[1][2]] + 2
  BY DEF ChildOK, Found
<1>2. rbuf[1] \in Bytes
  BY <1>1
<1>3. rbuf[1][2] \in Objs
  BY <1>1, <1>2 DEF Bytes
<1> QED  BY <1>1, <1>3, ObjAssumption

\* What was asked is an object or a barrier.
LEMMA AskTypes ==
  ASSUME ClientOK, NEW q \in 1 .. Len(ask)
  PROVE  ask[q].o \in Names /\ ask[q].had \in BOOLEAN
<1>1. ask[q] \in Asked
  BY DEF ClientOK
<1> QED  BY <1>1 DEF Asked

\* w bytes are taken from the buffer.
LEMMA TakeWire ==
  ASSUME ChildOK, NEW w \in Nat, w <= Len(rbuf), rbuf' = SubSeq(rbuf, w + 1, Len(rbuf)), UNCHANGED child
  PROVE  /\ ChildOK' /\ Len(Wire) \in Nat /\ w <= Len(Wire) /\ Len(Wire') = Len(Wire) - w
         /\ \A i \in 1 .. Len(Wire) - w : Wire'[i] = Wire[w + i]
<1>1. /\ rbuf \in Seq(Bytes) /\ resp \in Seq(Bytes) /\ vec \in [1 .. 3 -> Seq(Bytes)] /\ nvec \in 0 .. 3
      /\ UNCHANGED <<req, resp, cpc, vec, nvec>>
  BY DEF ChildOK, child
<1>2. PICK b \in Seq(Bytes) : b = rbuf
  BY <1>1
<1>3. PICK c \in Seq(Bytes) : c = SubSeq(b, w + 1, Len(b))
  <2>1. w \in 0 .. Len(b) /\ Len(b) \in Nat
    BY <1>2
  <2>2. \A i \in w + 1 .. Len(b) : b[i] \in Bytes
    BY <2>1
  <2>3. SubSeq(b, w + 1, Len(b)) \in Seq(Bytes)
    BY <2>1, <2>2
  <2> QED  BY <2>3
<1>4. rbuf' = c /\ Len(b) \in Nat /\ w <= Len(b) /\ Len(c) = Len(b) - w /\ \A i \in 1 .. Len(b) - w : c[i] = b[w + i]
  BY <1>2, <1>3
<1>5. ChildOK'
  BY <1>1, <1>4 DEF ChildOK
<1>6. Rest' = Rest /\ Rest \in Seq(Bytes)
  BY <1>1, RestIsLeft, LeftFacts
<1>7. PICK x \in Seq(Bytes) : x = resp \o Rest
  <2>1. ASSUME NEW y \in Seq(Bytes), NEW z \in Seq(Bytes) PROVE y \o z \in Seq(Bytes)
    OBVIOUS
  <2> QED  BY <1>1, <1>6, <2>1
<1>8. Wire = b \o x /\ Wire' = c \o x
  BY <1>1, <1>2, <1>4, <1>6, <1>7 DEF Wire
<1>9. /\ Len(x) \in Nat /\ Len(b \o x) = Len(b) + Len(x) /\ Len(c \o x) = Len(c) + Len(x)
      /\ \A i \in 1 .. Len(b) + Len(x) : (b \o x)[i] = IF i <= Len(b) THEN b[i] ELSE x[i - Len(b)]
      /\ \A i \in 1 .. Len(c) + Len(x) : (c \o x)[i] = IF i <= Len(c) THEN c[i] ELSE x[i - Len(c)]
  OBVIOUS
<1>10. ASSUME NEW i \in 1 .. Len(b) + Len(x) - w PROVE (c \o x)[i] = (b \o x)[w + i]
  <2>1. i \in 1 .. Len(c) + Len(x) /\ w + i \in 1 .. Len(b) + Len(x)
    BY <1>4, <1>9
  <2>2. CASE i <= Len(c)
    <3>1. i \in 1 .. Len(b) - w /\ w + i <= Len(b)
      BY <1>4, <2>1, <2>2
    <3> QED  BY <1>4, <1>9, <2>1, <2>2, <3>1
  <2>3. CASE ~(i <= Len(c))
    <3>1. ~(w + i <= Len(b)) /\ i - Len(c) = w + i - Len(b)
      BY <1>4, <2>1, <2>3
    <3>2. (c \o x)[i] = x[i - Len(c)]
      BY <1>9, <2>1, <2>3
    <3>3. (b \o x)[w + i] = x[w + i - Len(b)]
      BY <1>9, <2>1, <3>1
    <3> QED  BY <3>1, <3>2, <3>3
  <2> QED  BY <2>2, <2>3
<1>11. Len(b \o x) \in Nat /\ w <= Len(b \o x) /\ Len(c \o x) = Len(b \o x) - w
  BY <1>4, <1>9
<1>12. Len(b \o x) = Len(b) + Len(x)
  BY <1>9
<1>13. /\ Len(Wire) \in Nat /\ w <= Len(Wire) /\ Len(Wire') = Len(Wire) - w
       /\ \A i \in 1 .. Len(Wire) - w : Wire'[i] = Wire[w + i]
  <2>1. ASSUME NEW i \in 1 .. Len(b \o x) - w PROVE (c \o x)[i] = (b \o x)[w + i]
    <3>1. i \in 1 .. Len(b) + Len(x) - w
      BY <1>12
    <3> QED  BY <1>10, <3>1
  <2> QED  BY <1>8, <1>11, <2>1, Zenon
<1> QED  BY <1>5, <1>13

\* The brackets of Wire may be moved.
LEMMA Regroup ==
  ASSUME NEW S, NEW x \in Seq(S), NEW y \in Seq(S), NEW z \in Seq(S)
  PROVE  x \o (y \o << >>) \in Seq(S) /\ x \o (y \o z) = (x \o (y \o << >>)) \o z
<1>1. y \o << >> = y
  BY ConcatEmptySeq
<1>2. x \o (y \o z) = (x \o y) \o z
  BY ConcatAssociative, SMTT(30)
<1>3. x \o y \in Seq(S)
  OBVIOUS
<1> QED  BY <1>1, <1>2, <1>3

\* The child dies, and what it had yet to write is lost.
LEMMA CrashWire ==
  ASSUME ChildOK, Crash
  PROVE  /\ ChildOK' /\ Wire' \in Seq(Bytes) /\ Rest \in Seq(Bytes) /\ Wire = Wire' \o Rest /\ cpc' = "dead"
         /\ view' = {} /\ ncrash' = ncrash + 1
<1>1. /\ rbuf \in Seq(Bytes) /\ resp \in Seq(Bytes) /\ vec \in [1 .. 3 -> Seq(Bytes)] /\ nvec \in 0 .. 3
      /\ UNCHANGED <<rbuf, resp>> /\ cpc' = "dead" /\ req' = << >> /\ view' = {} /\ vec' = Missing(NoObj) /\ nvec' = 0 /\ ncrash' = ncrash + 1
  BY DEF ChildOK, Crash, client
<1>2. Missing(NoObj) \in [1 .. 3 -> Seq(Bytes)]
  BY MissingType DEF Names
<1>3. ChildOK'
  <2>1. << >> \in Seq(Names \union {Garbage}) /\ 0 \in 0 .. 3
    OBVIOUS
  <2> QED  BY <1>1, <1>2, <2>1 DEF ChildOK
<1>4. Rest' = << >> /\ Rest \in Seq(Bytes)
  BY <1>1, <1>2, RestIsLeft, LeftFacts
<1>6. rbuf \o (resp \o << >>) \in Seq(Bytes) /\ rbuf \o (resp \o Rest) = (rbuf \o (resp \o << >>)) \o Rest
  <2>1. rbuf \in Seq(Bytes) /\ resp \in Seq(Bytes) /\ Rest \in Seq(Bytes)
    BY <1>1, <1>4
  <2> QED  BY <2>1, Regroup, SMTT(30)
<1>7. Wire' = rbuf \o (resp \o << >>) /\ Wire = rbuf \o (resp \o Rest)
  BY <1>1, <1>4 DEF Wire
<1> QED  BY <1>1, <1>3, <1>4, <1>6, <1>7

\* Every step.
LEMMA ChildStep ==
  ASSUME ChildOK, RepoOK, ClientOK, OnePlace, [Next]_vars
  PROVE  ChildOK'
<1>1. ASSUME UNCHANGED child, rbuf' = rbuf PROVE ChildOK'
  BY <1>1 DEF ChildOK, child
<1>2. ASSUME NEW o, Call(o) PROVE ChildOK'
  <2>1. Started(objs) \/ (UNCHANGED child /\ rbuf' = rbuf)
    BY <1>2 DEF Call, Spawn, client
  <2> QED  BY <1>1, <2>1, StartedChild
<1>3. CASE WriteFails \/ StepFails \/ cleanup
  BY <1>3, ClosedChild DEF WriteFails, StepFails, cleanup, fail
<1>4. CASE Write
  <2>1. /\ frames # << >> /\ (Top.k = "put" \/ (Top.k = "retry" /\ Top.q # 0))
        /\ UNCHANGED <<rbuf, resp, cpc, vec, nvec>>
        /\ req' = Append(req, IF Top.k = "retry" /\ Entry(Top.q) = NoObj THEN Garbage ELSE Entry(Top.q))
    BY <1>4 DEF Write, Writing, In
  <2>2. Sound(Top, 1, Len(inflight), Len(ask), retried) /\ (Top.q # 0 => Top.q \in 1 .. Len(ask))
    BY <2>1, TopFacts
  <2>3. Top.q \in 1 .. Len(ask)
    BY <2>1, <2>2 DEF Sound
  <2>4. Entry(Top.q) \in Names
    BY <2>3, AskTypes DEF Entry
  <2>5. PICK x \in Names \union {Garbage} : req' = Append(req, x)
    BY <2>1, <2>4
  <2>6. req' \in Seq(Names \union {Garbage})
    BY <2>5 DEF ChildOK
  <2> QED  BY <2>1, <2>6 DEF ChildOK
<1>5. CASE StepFound
  <2>1. Found /\ rbuf' = SubSeq(rbuf, Size[rbuf[1][2]] + 3, Len(rbuf)) /\ UNCHANGED child
    BY <1>5 DEF StepFound, Callback
  <2>2. PICK n \in Nat : n = Size[rbuf[1][2]] + 2
    BY <2>1, FoundFacts
  <2>3. n <= Len(rbuf) /\ Size[rbuf[1][2]] + 3 = n + 1
    BY <2>1, <2>2, FoundFacts
  <2> QED  BY <2>1, <2>3, TakeWire
<1>6. CASE StepMissing
  <2>1. rbuf # << >> /\ rbuf' = Tail(rbuf) /\ UNCHANGED child
    BY <1>6 DEF StepMissing, Callback, NotFound
  <2>2. rbuf' \in Seq(Bytes)
    BY <2>1, HeadTailProperties DEF ChildOK
  <2> QED  BY <2>1, <2>2 DEF ChildOK, child
<1>7. CASE cat_async_retry
  BY <1>7, StartedChild DEF cat_async_retry, Spawn
<1>8. CASE ReadStep \/ RetryNext \/ Return \/ event_step \/ Drain \/ StepEmpty \/ UNCHANGED vars
  BY <1>1, <1>8 DEF ReadStep, RetryNext, Return, event_step, Drain, gcf_drain, StepEmpty, vars, client
<1>9. ASSUME NEW s, AddAlternate(s) PROVE ChildOK'
  BY <1>1, <1>9 DEF AddAlternate, client
<1> QED  BY <1>2, <1>3, <1>4, <1>5, <1>6, <1>7, <1>8, <1>9, FillWire, LoopWire, CatOidWire, CrashWire DEF Next, Step, Child

\* The repository and what processes have seen of it keep their types.
LEMMA RepoStep ==
  ASSUME ChildOK, RepoOK, ClientOK, OnePlace, [Next]_vars
  PROVE  RepoOK'
<1>1. /\ kind \in {"git", "gcf2"} /\ objs \in SUBSET Objs /\ view \in SUBSET objs /\ alt \in Nat /\ alt_st \in 0 .. alt /\ ncrash \in Nat
      /\ \A q \in 1 .. Len(ask) : ask[q].had => ask[q].o \in objs
  BY DEF RepoOK
<1>2. alt \in 0 .. alt /\ {} \in SUBSET objs /\ objs \in SUBSET objs /\ ncrash + 1 \in Nat
  BY <1>1
<1>3. ASSUME UNCHANGED <<kind, objs, alt, ask>>, view' \in SUBSET objs, alt_st' \in {alt_st, alt}, ncrash' \in {ncrash, ncrash + 1} PROVE RepoOK'
  BY <1>1, <1>2, <1>3 DEF RepoOK
<1>4. ASSUME NEW o \in Objs \union {NoObj}, Call(o) PROVE RepoOK'
  <2>1. /\ UNCHANGED <<kind, objs, alt, ncrash, retried>> /\ view' \in {view, objs} /\ alt_st' \in {alt_st, alt}
        /\ Len(ask) + 1 <= MaxReq /\ ask' = Append(ask, [o |-> o, had |-> o \in objs])
    BY <1>4 DEF Call, Spawn, Started, client, child, repo
  <2>2. o \in Names
    BY DEF Names
  <2>3. /\ Len(ask') = Len(ask) + 1 /\ Len(ask) \in Nat /\ ask'[Len(ask) + 1] = [o |-> o, had |-> o \in objs]
        /\ \A i \in 1 .. Len(ask) : ask'[i] = ask[i]
    BY <2>1, <2>2, NewRequest
  <2>4. \A q \in 1 .. Len(ask') : q \in 1 .. Len(ask) \/ q = Len(ask) + 1
    BY <2>3
  <2>5. [o |-> o, had |-> o \in objs].had = (o \in objs) /\ [o |-> o, had |-> o \in objs].o = o
    OBVIOUS
  <2>6. \A q \in 1 .. Len(ask') : ask'[q].had => ask'[q].o \in objs
    BY <1>1, <2>3, <2>4, <2>5
  <2> QED  BY <1>1, <1>2, <2>1, <2>6 DEF RepoOK
<1>5. CASE WriteFails \/ StepFails
  BY <1>1, <1>2, <1>3, <1>5 DEF WriteFails, StepFails, fail, Closed, Croak, repo
<1>6. CASE cleanup
  BY <1>1, <1>2, <1>3, <1>6 DEF cleanup, Closed, repo
<1>7. CASE cat_async_retry
  BY <1>1, <1>2, <1>3, <1>7 DEF cat_async_retry, Spawn, Started, repo
<1>8. CASE ReadStep \/ Write \/ Fill \/ RetryNext \/ Return \/ event_step \/ Drain
  BY <1>1, <1>3, <1>8 DEF ReadStep, Write, Fill, RetryNext, Return, event_step, Drain, gcf_drain, repo, child
<1>9. CASE StepFound \/ StepMissing \/ StepEmpty \/ UNCHANGED vars
  BY <1>1, <1>3, <1>9 DEF StepFound, StepMissing, Callback, StepEmpty, Croak, vars, client, repo, child
<1>10. CASE gcf2_loop
  BY <1>1, <1>3, <1>10, LoopWire DEF gcf2_loop, client, repo
<1>11. CASE cat_oid
  <2>1. view' \in {view, objs} /\ UNCHANGED <<kind, objs, alt, ask, alt_st, ncrash>>
    BY <1>11, CatOidWire DEF cat_oid, client, repo
  <2> QED  BY <1>1, <1>2, <1>3, <2>1
<1>12. CASE Crash
  BY <1>1, <1>2, <1>3, <1>12 DEF Crash, client, repo
<1>13. ASSUME NEW s \in SUBSET (Objs \ objs), AddAlternate(s) PROVE RepoOK'
  <2>1. objs' = objs \union s /\ alt' = alt + 1 /\ UNCHANGED <<kind, view, alt_st, ncrash, ask>>
    BY <1>13 DEF AddAlternate, client, child
  <2>2. alt' \in Nat /\ alt_st' \in 0 .. alt'
    BY <1>1, <2>1
  <2> QED  BY <1>1, <2>1, <2>2 DEF RepoOK
<1> QED  BY <1>4, <1>5, <1>6, <1>7, <1>8, <1>9, <1>10, <1>11, <1>12, <1>13 DEF Next, Step, Child

-----------------------------------------------------------------------------
(* What holds as long as no step breaks the pairing of requests and answers. *)

Types == ChildOK /\ RepoOK /\ ClientOK /\ OnePlace

\* cat_async_retry is moving the entries of array g.
RetryOf(S, g) == \E i \in 1 .. Len(S) : S[i].k = "retry" /\ S[i].old = g

\* {sock} is gone while somebody works with it only if a child died; who reads an
\* answer waits for one; arrays of other children are being moved.
Sockets ==
    /\ sock = 0 => frames = << >> \/ ncrash > 0
    /\ cpc = "dead" => sock = 0 \/ ncrash > 0
    /\ In("read") => Top.g = sock /\ inflight[sock] # << >>
    /\ In("retry") /\ Top.q = 0 => Top.g = sock /\ (inflight[Top.old] # << >> \/ inflight[sock] # << >>)
    /\ \A g \in 1 .. Len(inflight) : g # sock /\ inflight[g] # << >> => ncrash > 0 \/ RetryOf(frames, g)

\* The child can see the object of q, if there was one.
Visible(A, V, q) == A[q].had => A[q].o \in V

\* Frame f is about to ask for q again, of the child with array s.
Moving(f, F, s, q) == f.k = "retry" /\ f.g = s /\ (Array(F, f.old, q) \/ f.q = q)

\* What was asked for again, and what is about to be.
Again(S, F, s, R, q) == (Array(F, s, q) /\ q \in R) \/ \E i \in 1 .. Len(S) : Moving(S[i], F, s, q)

\* "git cat-file" sees what there was when it started.
Views ==
    cpc # "dead" /\ kind = "git" =>
        /\ alt = alt_st => view = objs
        /\ sock # 0 => \A q \in Requests : Again(frames, inflight, sock, retried, q) => Visible(ask, view, q)

\* Who may be told that the object is missing, though it was there.
MayMiss == {q \in 1 .. Len(ask) : ask[q].had => kind = "git" /\ q \notin retried /\ alt # alt_st}

\* The first k entries of I are answered on the wire, the others are on their way to the child.
Pairs(W, I, A, M, c, r, k, p) ==
    /\ k \in 0 .. Len(I) /\ Framed(W, I, A, M, k, p)
    /\ c # "dead" => Len(W) = p[k] /\ Len(r) = Len(I) - k /\ \A i \in 1 .. Len(r) : r[i] = A[I[k + i]].o

Paired ==
    sock # 0 /\ (cpc # "dead" \/ inflight[sock] # << >>) =>
        \E k, p : Pairs(Wire, inflight[sock], ask, MayMiss, cpc, req, k, p)

Owned == \A q \in 1 .. Len(ask) : done[q] = << >> \/ \E r : done[q] = << r >> /\ Own(q, r)

Steady == Sockets /\ Views /\ Paired /\ Owned

\* astray never forgets: what is not astray after a step was not before.
LEMMA AstrayStep ==
  ASSUME [Next]_vars, astray' = {}
  PROVE  astray = {}
<1>1. ASSUME NEW X, astray' = astray \union X PROVE astray = {}
  BY <1>1
<1>2. ASSUME NEW o, Call(o) PROVE astray = {}
  <2>1. \E X : astray' = astray \union X
    <3>1. astray' = astray \/ astray' = astray \union {"gone"}
      BY <1>2 DEF Call
    <3> QED  BY <3>1
  <2> QED  BY <1>1, <2>1
<1>3. CASE ReadStep
  BY <1>1, <1>3 DEF ReadStep
<1>4. CASE Write
  BY <1>4 DEF Write
<1>5. CASE Croak
  BY <1>1, <1>5 DEF Croak
<1>6. CASE Fill \/ StepFound \/ StepMissing \/ cat_async_retry \/ RetryNext \/ Return \/ event_step \/ Drain \/ cleanup
           \/ gcf2_loop \/ cat_oid \/ Crash \/ UNCHANGED vars
  BY <1>6 DEF Fill, StepFound, StepMissing, cat_async_retry, RetryNext, Return, event_step, Drain, gcf_drain, cleanup, gcf2_loop,
              cat_oid, Crash, vars
<1>7. ASSUME NEW s, AddAlternate(s) PROVE astray = {}
  BY <1>7 DEF AddAlternate
<1> QED  BY <1>2, <1>3, <1>4, <1>5, <1>6, <1>7 DEF Next, Step, Child, WriteFails, StepFails, fail, StepEmpty

\* What the client finds at the start of its buffer answers its first entry.
LEMMA FirstAnswer ==
  ASSUME Types, Sockets, Paired, Reading, rbuf # << >>
  PROVE  /\ Top.g = sock /\ sock # 0 /\ First = inflight[sock][1] /\ First \in 1 .. Len(ask)
         /\ \/ rbuf[1] = Byte("hdr", ask[First].o) /\ IsBlob(Wire, ask[First].o, 0, Size[ask[First].o] + 2)
            \/ rbuf[1] = Byte("missing", ask[First].o) /\ First \in MayMiss
<1>1. frames # << >> /\ Top.k = "read" /\ inflight[Top.g] # << >> /\ sock # 0
  BY DEF Reading, In
<1>2. Top.g = sock
  BY <1>1 DEF Sockets, In
<1>3. sock \in 1 .. Len(inflight) /\ inflight \in Arrays /\ rbuf \in Seq(Bytes) /\ resp \in Seq(Bytes) /\ Rest \in Seq(Bytes)
  <2>1. Rest \in Seq(Bytes)
    BY RestIsLeft, LeftFacts DEF Types, ChildOK
  <2> QED  BY <1>1, <2>1 DEF Types, ClientOK, ChildOK
<1>4. inflight[sock] \in Seq(Requests) /\ inflight[sock] # << >> /\ First = Head(inflight[sock])
  BY <1>1, <1>2, <1>3 DEF Arrays, First
<1>5. PICK I \in Seq(Requests) : I = inflight[sock]
  BY <1>4
<1>6. First = I[1] /\ 1 \in 1 .. Len(I)
  <2>1. Len(I) \in Nat /\ Len(I) # 0
    BY <1>4, <1>5, EmptySeq
  <2> QED  BY <1>4, <1>5, <2>1, HeadTailProperties
<1>7. First \in 1 .. Len(ask)
  <2>1. Holds(inflight, I[1]) /\ I[1] \in Requests
    BY <1>3, <1>5, <1>6 DEF Holds, Array
  <2>2. I[1] <= Len(ask) /\ Len(ask) \in Nat
    BY <2>1 DEF Types, OnePlace, Orderly, ClientOK
  <2> QED  BY <1>6, <2>1, <2>2 DEF Requests
<1>8. Wire \in Seq(Bytes) /\ Wire # << >> /\ Wire[1] = rbuf[1]
  <2>1. ASSUME NEW x \in Seq(Bytes), NEW y \in Seq(Bytes), NEW z \in Seq(Bytes), x # << >>
        PROVE  x \o (y \o z) \in Seq(Bytes) /\ x \o (y \o z) # << >> /\ (x \o (y \o z))[1] = x[1]
    <3>1. PICK v \in Seq(Bytes) : v = y \o z
      <4>1. y \o z \in Seq(Bytes)
        OBVIOUS
      <4> QED  BY <4>1
    <3>2. Len(x) \in Nat /\ Len(x) # 0
      BY <2>1, EmptySeq
    <3>3. x \o v \in Seq(Bytes) /\ Len(x \o v) # 0 /\ (x \o v)[1] = x[1]
      BY <3>2
    <3> QED  BY <3>1, <3>3
  <2> QED  BY <1>3, <2>1 DEF Wire
<1>9. PICK k, p : Pairs(Wire, I, ask, MayMiss, cpc, req, k, p)
  BY <1>1, <1>2, <1>5 DEF Paired
<1>10. k \in Nat /\ Framed(Wire, I, ask, MayMiss, k, p)
  BY <1>5, <1>9 DEF Pairs
<1>11. /\ p[1] \in Nat
       /\ \/ IsBlob(Wire, ask[I[1]].o, 0, p[1]) /\ Wire[1] = Byte("hdr", ask[I[1]].o)
          \/ I[1] \in MayMiss /\ p[1] = 1 /\ Wire[1] = Byte("missing", ask[I[1]].o)
  <2>1. PICK W \in Seq(Bytes) : W = Wire
    BY <1>8
  <2>2. PICK A : A = ask
    OBVIOUS
  <2>3. PICK M : M = MayMiss
    OBVIOUS
  <2>4. Framed(W, I, A, M, k, p) /\ W # << >>
    BY <1>8, <1>10, <2>1, <2>2, <2>3
  <2>5. /\ p[1] \in Nat
        /\ \/ IsBlob(W, A[I[1]].o, 0, p[1]) /\ W[1] = Byte("hdr", A[I[1]].o)
           \/ I[1] \in M /\ p[1] = 1 /\ W[1] = Byte("missing", A[I[1]].o)
    BY <1>10, <2>4, FramedFirst
  <2> QED  BY <2>1, <2>2, <2>3, <2>5
<1>12. ASSUME NEW o, NEW b \in Nat, IsBlob(Wire, o, 0, b) PROVE b = Size[o] + 2
  BY <1>12, ObjAssumption DEF IsBlob
<1> QED  BY <1>1, <1>2, <1>5, <1>6, <1>7, <1>8, <1>11, <1>12

\* The buffer is where the wire begins.
LEMMA BufferFirst ==
  ASSUME ChildOK
  PROVE  Wire \in Seq(Bytes) /\ Len(rbuf) \in Nat /\ Len(rbuf) <= Len(Wire) /\ \A i \in 1 .. Len(rbuf) : Wire[i] = rbuf[i]
<1>1. rbuf \in Seq(Bytes) /\ resp \in Seq(Bytes) /\ Rest \in Seq(Bytes)
  BY RestIsLeft, LeftFacts DEF ChildOK
<1>2. ASSUME NEW x \in Seq(Bytes), NEW y \in Seq(Bytes)
      PROVE  x \o y \in Seq(Bytes) /\ Len(x) \in Nat /\ Len(x) <= Len(x \o y) /\ \A i \in 1 .. Len(x) : (x \o y)[i] = x[i]
  OBVIOUS
<1>3. resp \o Rest \in Seq(Bytes)
  BY <1>1, <1>2
<1> QED  BY <1>1, <1>2, <1>3 DEF Wire

\* The blob is whole, and it is the one that was asked for.
LEMMA FoundIsOwn ==
  ASSUME Types, Sockets, Paired, Reading, Found
  PROVE  /\ ~LFMissing /\ rbuf[1][2] = ask[First].o /\ ask[First].o \in Objs
         /\ SubSeq(rbuf, 2, Size[rbuf[1][2]] + 1) = Data(rbuf[1][2])
<1>1. ChildOK
  BY DEF Types
<1>2. PICK o \in Objs : o = rbuf[1][2]
  BY <1>1, FoundFacts
<1>3. PICK n \in Nat : n = Size[o]
  BY <1>1, <1>2, FoundFacts
<1>4. rbuf # << >> /\ Len(rbuf) \in Nat /\ Len(rbuf) >= n + 2 /\ rbuf[1][1] = "hdr"
  BY <1>1, <1>2, <1>3, FoundFacts
<1>5. ask[First].o = o /\ IsBlob(Wire, o, 0, n + 2)
  <2>1. \/ rbuf[1] = Byte("hdr", ask[First].o) /\ IsBlob(Wire, ask[First].o, 0, Size[ask[First].o] + 2)
        \/ rbuf[1] = Byte("missing", ask[First].o)
    BY <1>4, FirstAnswer
  <2>2. \A x : Byte("hdr", x)[2] = x /\ Byte("missing", x)[1] = "missing"
    BY DEF Byte
  <2> QED  BY <1>2, <1>3, <1>4, <2>1, <2>2
<1>6. ASSUME NEW i \in 1 .. n + 2 PROVE rbuf[i] = BlobByte(o, i)
  <2>1. i \in 1 .. Len(rbuf) /\ 0 + i = i
    BY <1>4
  <2>2. Wire[i] = rbuf[i] /\ i <= Len(Wire)
    BY <1>1, <2>1, BufferFirst
  <2> QED  BY <1>3, <1>5, <2>1, <2>2 DEF IsBlob
<1>7. rbuf[n + 2] = Byte("lf", o)
  <2>1. n + 2 \in 1 .. n + 2 /\ n + 2 # 1
    OBVIOUS
  <2> QED  BY <1>3, <1>6, <2>1 DEF BlobByte
<1>8. ~LFMissing
  <2>1. Byte("lf", o)[1] = "lf"
    BY DEF Byte
  <2> QED  BY <1>2, <1>3, <1>7, <2>1 DEF LFMissing
<1>9. PICK d \in Bytes : d = Byte("data", o)
  BY DEF Bytes, Byte
<1>10. SubSeq(rbuf, 2, n + 1) = [i \in 1 .. n |-> d]
  <2>1. PICK b \in Seq(Bytes) : b = rbuf
    BY <1>1 DEF ChildOK
  <2>2. Len(b) \in Nat /\ Len(b) >= n + 2
    BY <1>4, <2>1
  <2>3. \A i \in 1 .. n : b[i + 1] = d
    <3>1. \A i \in 1 .. n : i + 1 \in 1 .. n + 2 /\ i + 1 # 1 /\ i + 1 # n + 2
      OBVIOUS
    <3> QED  BY <1>3, <1>6, <1>9, <2>1, <3>1 DEF BlobByte
  <2>4. PICK s : s = SubSeq(b, 2, n + 1)
    OBVIOUS
  <2>5. s \in Seq(Bytes) /\ Len(s) = n /\ \A i \in 1 .. n : s[i] = b[i + 1]
    BY <2>2, <2>4
  <2>6. PICK t : t = [i \in 1 .. n |-> d]
    OBVIOUS
  <2>7. t \in Seq(Bytes) /\ Len(t) = n /\ \A i \in 1 .. n : t[i] = d
    BY <2>6
  <2>8. s = t
    BY <2>3, <2>5, <2>7, SeqEqual
  <2> QED  BY <2>1, <2>4, <2>6, <2>8
<1>11. Data(o) = [i \in 1 .. n |-> d]
  BY <1>3, <1>9 DEF Data
<1> QED  BY <1>2, <1>3, <1>5, <1>8, <1>10, <1>11

\* Who is told that its object is missing.
LEMMA NotFoundIsOwn ==
  ASSUME Types, Sockets, Paired, Reading, NotFound
  PROVE  rbuf[1][2] = ask[First].o /\ First \in MayMiss
<1>1. rbuf # << >> /\ rbuf[1][1] = "missing"
  BY DEF NotFound
<1>2. \/ rbuf[1] = Byte("hdr", ask[First].o)
      \/ rbuf[1] = Byte("missing", ask[First].o) /\ First \in MayMiss
  BY <1>1, FirstAnswer
<1>3. \A x : Byte("hdr", x)[1] = "hdr" /\ Byte("missing", x)[2] = x
  BY DEF Byte
<1> QED  BY <1>1, <1>2, <1>3

\* Only when a child died do cat_async and cat_async_step fail.
LEMMA FailsCrashed ==
  ASSUME Types, Sockets, Paired, WriteFails \/ StepFails
  PROVE  ncrash > 0 /\ frames # << >>
<1>1. CASE WriteFails
  <2>1. frames # << >> /\ (sock = 0 \/ cpc = "dead")
    BY <1>1 DEF WriteFails, Writing, In, Broken
  <2> QED  BY <2>1 DEF Sockets
<1>2. CASE StepFails
  <2>1. CASE In("read") /\ sock = 0
    BY <2>1 DEF Sockets, In
  <2>2. CASE Reading /\ cpc = "dead"
    BY <2>2 DEF Sockets, Reading, In
  <2>3. CASE Reading /\ (LFMissing \/ (rbuf # << >> /\ rbuf[1][1] \notin {"hdr", "missing"}))
    <3>1. ~LFMissing
      BY <2>3, FoundIsOwn DEF LFMissing
    <3>2. rbuf # << >> => rbuf[1][1] \in {"hdr", "missing"}
      <4>1. \A x : Byte("hdr", x)[1] = "hdr" /\ Byte("missing", x)[1] = "missing"
        BY DEF Byte
      <4> QED  BY <2>3, <4>1, FirstAnswer
    <3> QED  BY <2>3, <3>1, <3>2
  <2> QED  BY <1>2, <2>1, <2>2, <2>3 DEF StepFails
<1> QED  BY <1>1, <1>2

\* cat_async_step is never called with nothing in {inflight}.
LEMMA NeverEmpty ==
  ASSUME Sockets
  PROVE  ~StepEmpty
BY DEF Sockets, StepEmpty, In

-----------------------------------------------------------------------------
(* Steps that leave a part of this alone. *)

\* Answers stay right if requests keep their question and each new answer is one's own.
LEMMA OwnedKept ==
  ASSUME Owned, ncrash \in Nat, ncrash' \in Nat, ncrash <= ncrash',
         \A q \in 1 .. Len(ask) : ask'[q] = ask[q],
         \A q \in 1 .. Len(ask') : \/ q \in 1 .. Len(ask) /\ done'[q] = done[q]
                                   \/ done'[q] = << >>
                                   \/ \E r : done'[q] = << r >> /\ Own(q, r)'
  PROVE  Owned'
<1>1. ASSUME NEW q \in 1 .. Len(ask), NEW r, Own(q, r) PROVE Own(q, r)'
  <2>1. ncrash > 0 => ncrash' > 0
    OBVIOUS
  <2> QED  BY <1>1, <2>1 DEF Own
<1>2. ASSUME NEW q \in 1 .. Len(ask') PROVE done'[q] = << >> \/ \E r : done'[q] = << r >> /\ Own(q, r)'
  <2>1. CASE q \in 1 .. Len(ask) /\ done'[q] = done[q]
    BY <1>1, <2>1 DEF Owned
  <2> QED  BY <2>1
<1> QED  BY <1>2 DEF Owned

\* Answers stay right if nobody asks and nobody is answered.
LEMMA OwnedSame ==
  ASSUME Types, Owned, UNCHANGED <<ask, done>>, ncrash' \in {ncrash, ncrash + 1}
  PROVE  Owned'
<1>1. ncrash \in Nat /\ ncrash' \in Nat /\ ncrash <= ncrash'
  BY DEF Types, RepoOK
<1> QED  BY <1>1, OwnedKept

\* A callback that died, or was told of an abort, after a child died.
LEMMA OwnedCrash ==
  ASSUME Types, Owned, ncrash > 0, UNCHANGED <<ask, ncrash>>,
         \A q \in Requests : \/ done'[q] = done[q]
                             \/ done[q] = << >> /\ \E r : done'[q] = Append(done[q], r) /\ r[1] \in {"abort", "died"}
  PROVE  Owned'
<1>1. ncrash \in Nat /\ ncrash' \in Nat /\ ncrash <= ncrash' /\ ncrash' > 0
  BY DEF Types, RepoOK
<1>2. \A q \in 1 .. Len(ask) : q \in Requests
  BY BoundAssumption DEF Types, ClientOK, Requests
<1>3. ASSUME NEW r PROVE Append(<< >>, r) = << r >>
  OBVIOUS
<1>4. ASSUME NEW q \in 1 .. Len(ask), done'[q] # done[q] PROVE \E r : done'[q] = << r >> /\ Own(q, r)'
  <2>1. PICK r : done'[q] = Append(<< >>, r) /\ r[1] \in {"abort", "died"}
    BY <1>2, <1>4
  <2>2. Own(q, r)'
    BY <1>1, <2>1 DEF Own
  <2> QED  BY <1>3, <2>1, <2>2
<1> QED  BY <1>1, <1>4, OwnedKept

\* The entries of the array of {sock} are requests that were made.
LEMMA EntryFacts ==
  ASSUME Types, sock # 0
  PROVE  /\ sock \in 1 .. Len(inflight) /\ inflight[sock] \in Seq(Requests) /\ Len(inflight[sock]) \in Nat
         /\ \A i \in 1 .. Len(inflight[sock]) : inflight[sock][i] \in 1 .. Len(ask)
<1>1. sock \in 1 .. Len(inflight) /\ inflight \in Arrays /\ Len(ask) \in Nat
  BY DEF Types, ClientOK
<1>2. inflight[sock] \in Seq(Requests) /\ Len(inflight[sock]) \in Nat
  BY <1>1 DEF Arrays
<1>3. ASSUME NEW i \in 1 .. Len(inflight[sock]) PROVE inflight[sock][i] \in 1 .. Len(ask)
  <2>1. inflight[sock][i] \in Requests /\ Holds(inflight, inflight[sock][i])
    BY <1>1, <1>2 DEF Holds, Array
  <2>2. inflight[sock][i] <= Len(ask)
    BY <2>1 DEF Types, OnePlace, Orderly
  <2> QED  BY <1>1, <2>1, <2>2 DEF Requests
<1> QED  BY <1>1, <1>2, <1>3

\* A framing stays one for other questions with the same objects, and if more may be missing.
LEMMA PairsSame ==
  ASSUME NEW W, NEW I, NEW A, NEW M, NEW c, NEW r, NEW k, NEW p, Pairs(W, I, A, M, c, r, k, p), Len(I) \in Nat,
         NEW B, NEW N, \A i \in 1 .. Len(I) : B[I[i]].o = A[I[i]].o /\ (I[i] \in M => I[i] \in N),
         NEW d, d # "dead" => c # "dead"
  PROVE  Pairs(W, I, B, N, d, r, k, p)
<1>1. k \in 0 .. Len(I) /\ k \in Nat /\ Framed(W, I, A, M, k, p)
  BY DEF Pairs
<1>2. \A j \in 1 .. k : I[j] = I[j] /\ B[I[j]].o = A[I[j]].o /\ (I[j] \in M => I[j] \in N)
  BY <1>1
<1>3. Framed(W, I, B, N, k, p)
  BY <1>1, <1>2, FramedSame
<1>4. ASSUME d # "dead" PROVE Len(W) = p[k] /\ Len(r) = Len(I) - k /\ \A i \in 1 .. Len(r) : r[i] = B[I[k + i]].o
  <2>1. Len(W) = p[k] /\ Len(r) = Len(I) - k /\ \A i \in 1 .. Len(r) : r[i] = A[I[k + i]].o
    BY <1>4 DEF Pairs
  <2>2. \A i \in 1 .. Len(r) : k + i \in 1 .. Len(I)
    BY <1>1, <2>1
  <2> QED  BY <2>1, <2>2
<1> QED  BY <1>1, <1>3, <1>4 DEF Pairs

\* The pairing holds on if the wire, the requests under way and the array stay as they are.
LEMMA PairedKept ==
  ASSUME Types, Paired, UNCHANGED <<sock, req>>, Wire' = Wire, sock # 0 => inflight'[sock] = inflight[sock],
         cpc' # "dead" => cpc # "dead",
         \A q \in 1 .. Len(ask) : ask'[q] = ask[q],
         sock # 0 => \A i \in 1 .. Len(inflight[sock]) : inflight[sock][i] \in MayMiss => inflight[sock][i] \in MayMiss'
  PROVE  Paired'
<1>1. SUFFICES ASSUME sock # 0, cpc' # "dead" \/ inflight[sock] # << >>
               PROVE  \E k, p : Pairs(Wire, inflight[sock], ask', MayMiss', cpc', req, k, p)
  BY DEF Paired
<1>2. PICK k, p : Pairs(Wire, inflight[sock], ask, MayMiss, cpc, req, k, p)
  BY <1>1 DEF Paired
<1>3. Len(inflight[sock]) \in Nat /\ \A i \in 1 .. Len(inflight[sock]) : ask'[inflight[sock][i]].o = ask[inflight[sock][i]].o
  BY <1>1, EntryFacts
<1>4. Pairs(Wire, inflight[sock], ask', MayMiss', cpc', req, k, p)
  BY <1>1, <1>2, <1>3, PairsSame
<1> QED  BY <1>4

\* Requests go on being told what they were to be told.
LEMMA MayMissKept ==
  ASSUME \A q \in 1 .. Len(ask) : ask'[q] = ask[q], Len(ask) \in Nat, Len(ask') \in Nat, Len(ask) <= Len(ask'), kind' = kind,
         alt # alt_st => alt' # alt_st',
         NEW q \in MayMiss, q \in retried' => q \in retried
  PROVE  q \in MayMiss'
<1>1. q \in 1 .. Len(ask) /\ q \in 1 .. Len(ask')
  BY DEF MayMiss
<1> QED  BY <1>1 DEF MayMiss

\* The same for steps that leave questions, retries and alternates alone.
LEMMA PairedSame ==
  ASSUME Types, Paired, UNCHANGED <<sock, req, ask, kind, retried, alt, alt_st>>, Wire' = Wire,
         cpc' # "dead" => cpc # "dead",
         sock # 0 => inflight'[sock] = inflight[sock]
  PROVE  Paired'
<1>1. MayMiss' = MayMiss
  BY DEF MayMiss
<1> QED  BY <1>1, PairedKept

\* A request that may be asked again was made.
LEMMA AgainAsked ==
  ASSUME Types, sock # 0, NEW q \in Requests, Again(frames, inflight, sock, retried, q)
  PROVE  q \in 1 .. Len(ask)
<1>1. sock \in 1 .. Len(inflight) /\ Len(ask) \in Nat
  BY DEF Types, ClientOK
<1>2. CASE Array(inflight, sock, q)
  <2>1. Holds(inflight, q)
    BY <1>1, <1>2 DEF Holds
  <2>2. q <= Len(ask)
    BY <2>1 DEF Types, OnePlace, Orderly
  <2> QED  BY <1>1, <2>2 DEF Requests
<1>3. ASSUME NEW i \in 1 .. Len(frames), Moving(frames[i], inflight, sock, q) PROVE q \in 1 .. Len(ask)
  <2>1. Sound(frames[i], i, Len(inflight), Len(ask), retried) /\ frames[i].k = "retry"
    BY <1>3 DEF Types, OnePlace, Orderly, Moving
  <2>2. Array(inflight, frames[i].old, q) => Holds(inflight, q)
    BY <2>1 DEF Sound, Holds
  <2>3. Holds(inflight, q) => q <= Len(ask)
    BY DEF Types, OnePlace, Orderly
  <2>4. q <= Len(ask)
    BY <1>3, <2>1, <2>2, <2>3 DEF Moving, Sound
  <2> QED  BY <1>1, <2>4 DEF Requests
<1> QED  BY <1>2, <1>3 DEF Again

\* Views hold on if the child sees what it saw and no request comes back that was not to be
\* asked again.
LEMMA ViewsKept ==
  ASSUME Types, Views, UNCHANGED <<kind, sock>>,
         cpc' # "dead" => cpc # "dead" /\ (kind = "git" => view' = view),
         alt' = alt_st' => alt = alt_st /\ objs' = objs,
         \A q \in 1 .. Len(ask) : ask'[q] = ask[q],
         sock # 0 /\ cpc # "dead" /\ kind = "git" =>
             \A q \in Requests : Again(frames', inflight', sock, retried', q) => Again(frames, inflight, sock, retried, q)
  PROVE  Views'
<1>1. SUFFICES ASSUME cpc' # "dead", kind = "git"
               PROVE  /\ alt' = alt_st' => view' = objs'
                      /\ sock # 0 => \A q \in Requests : Again(frames', inflight', sock, retried', q) => Visible(ask', view', q)
  BY DEF Views
<1>2. cpc # "dead" /\ view' = view
  BY <1>1
<1>3. alt' = alt_st' => view' = objs'
  BY <1>1, <1>2 DEF Views
<1>4. ASSUME sock # 0, NEW q \in Requests, Again(frames', inflight', sock, retried', q) PROVE Visible(ask', view', q)
  <2>1. Again(frames, inflight, sock, retried, q)
    BY <1>1, <1>2, <1>4
  <2>2. Visible(ask, view, q) /\ q \in 1 .. Len(ask)
    BY <1>1, <1>2, <1>4, <2>1, AgainAsked DEF Views
  <2> QED  BY <1>2, <2>2 DEF Visible
<1> QED  BY <1>3, <1>4

\* The same for steps that leave the client alone.
LEMMA ViewsSame ==
  ASSUME Types, Views, UNCHANGED <<kind, sock, frames, inflight, retried, ask>>,
         cpc' # "dead" => cpc # "dead" /\ (kind = "git" => view' = view),
         alt' = alt_st' => alt = alt_st /\ objs' = objs
  PROVE  Views'
BY ViewsKept

\* Frames that ask again stay below others, or where they are.
LEMMA RetryKept ==
  ASSUME NEW c \in Nat, NEW h \in Int, NEW S, NEW T, Below(S, T, c, h), NEW g, RetryOf(S, g),
         \A i \in 1 .. Len(S) : i <= c + h => ~(S[i].k = "retry" /\ S[i].old = g)
  PROVE  RetryOf(T, g)
<1>1. Len(S) \in Nat /\ Len(T) \in Nat /\ Len(T) = Len(S) - h /\ c + h >= 0 /\ \A i \in c + 1 .. Len(T) : T[i] = S[i + h]
  BY DEF Below, Stacks
<1>2. PICK i \in 1 .. Len(S) : S[i].k = "retry" /\ S[i].old = g
  BY DEF RetryOf
<1>3. ~(i <= c + h)
  BY <1>2
<1>4. i - h \in c + 1 .. Len(T) /\ i - h \in 1 .. Len(T) /\ i - h + h = i
  BY <1>1, <1>3
<1>5. T[i - h] = S[i]
  BY <1>1, <1>4
<1> QED  BY <1>2, <1>4, <1>5 DEF RetryOf

\* A request moved by a frame below the top is moved by the same frame before the step.
LEMMA MovingKept ==
  ASSUME NEW c \in Nat, NEW h \in Int, NEW S, NEW T, Below(S, T, c, h), NEW F, NEW s, NEW q,
         NEW i \in 1 .. Len(T), Moving(T[i], F, s, q), ~(i <= c)
  PROVE  \E j \in 1 .. Len(S) : j > c + h /\ T[i] = S[j]
<1>1. Kept(S, T, c, h)
  BY BelowFacts
<1> QED  BY <1>1 DEF Kept

-----------------------------------------------------------------------------
(* Steps of the child and of the repository. *)

\* Sockets hold on if the client does not move, and the child dies only by Crash.
LEMMA SocketsSame ==
  ASSUME Types, Sockets, UNCHANGED <<frames, inflight, sock>>, ncrash' \in {ncrash, ncrash + 1},
         cpc' = "dead" => cpc = "dead" \/ sock = 0 \/ ncrash' > 0
  PROVE  Sockets'
<1>1. ncrash > 0 => ncrash' > 0
  BY DEF Types, RepoOK
<1> QED  BY <1>1 DEF Sockets, In, Top, RetryOf

\* Reading moves bytes from the socket to pi_io_rbuf; the wire is the same.
LEMMA FillSteady ==
  ASSUME Types, Steady, Fill
  PROVE  Steady'
<1>1. UNCHANGED <<kind, frames, sock, inflight, retried, alt_st, req, cpc, view, objs, alt, ncrash, ask, done>> /\ Wire' = Wire
  BY FillWire DEF Fill, repo, Types
<1>2. Sockets'
  BY <1>1, SocketsSame DEF Steady
<1>3. Views'
  BY <1>1, ViewsSame DEF Steady
<1>4. Paired'
  BY <1>1, PairedSame DEF Steady
<1>5. Owned'
  BY <1>1, OwnedSame DEF Steady
<1> QED  BY <1>2, <1>3, <1>4, <1>5 DEF Steady

\* cat_oid moves bytes from the iovec to the socket, however little writev takes; the wire is
\* the same.
LEMMA CatOidSteady ==
  ASSUME Types, Steady, cat_oid
  PROVE  Steady'
<1>1. /\ UNCHANGED <<kind, frames, sock, inflight, retried, alt_st, req, objs, alt, ncrash, ask, done>> /\ Wire' = Wire
      /\ cpc # "dead" /\ cpc' # "dead" /\ (kind = "git" => view' = view)
  BY CatOidWire DEF cat_oid, repo, Types, client
<1>2. Sockets'
  BY <1>1, SocketsSame DEF Steady
<1>3. Views'
  BY <1>1, ViewsSame DEF Steady
<1>4. Paired'
  BY <1>1, PairedSame DEF Steady
<1>5. Owned'
  BY <1>1, OwnedSame DEF Steady
<1> QED  BY <1>2, <1>3, <1>4, <1>5 DEF Steady

\* After a new alternate git may miss what has been added, until it is started again.
LEMMA AddAlternateSteady ==
  ASSUME Types, Steady, NEW s, AddAlternate(s)
  PROVE  Steady'
<1>1. /\ UNCHANGED <<kind, frames, sock, inflight, retried, alt_st, rbuf, resp, vec, nvec, req, cpc, view, ncrash, ask, done>> /\ alt' = alt + 1
  BY DEF AddAlternate, client, child
<1>2. alt # alt_st => alt' # alt_st
  BY <1>1 DEF Types, RepoOK
<1>3. alt' # alt_st
  BY <1>1 DEF Types, RepoOK
<1>4. Sockets'
  BY <1>1, SocketsSame DEF Steady
<1>5. Views'
  BY <1>1, <1>3, ViewsSame DEF Steady
<1>6. Paired'
  <2>1. Wire' = Wire
    BY <1>1 DEF Wire, Rest, Part
  <2>2. Len(ask) \in Nat /\ Len(ask) <= Len(ask) /\ ask' = ask /\ Len(ask') \in Nat /\ Len(ask) <= Len(ask')
    BY <1>1 DEF Types, ClientOK
  <2>3. \A q \in MayMiss : q \in MayMiss'
    BY <1>1, <1>3, <2>2 DEF MayMiss
  <2> QED  BY <1>1, <2>1, <2>3, PairedKept DEF Steady
<1>7. Owned'
  BY <1>1, OwnedSame DEF Steady
<1> QED  BY <1>4, <1>5, <1>6, <1>7 DEF Steady

\* What is on the socket is still what was asked for.
LEMMA CrashSteady ==
  ASSUME Types, Steady, Crash
  PROVE  Steady'
<1>1. /\ UNCHANGED <<kind, frames, sock, inflight, retried, alt_st, objs, alt, ask, done>> /\ ncrash' = ncrash + 1 /\ cpc' = "dead"
      /\ cpc # "dead"
  BY DEF Crash, client, repo
<1>2. Sockets'
  <2>1. ncrash' > 0
    BY <1>1 DEF Types, RepoOK
  <2> QED  BY <1>1, <2>1, SocketsSame DEF Steady
<1>3. Views'
  BY <1>1, ViewsSame DEF Steady
<1>4. Paired'
  <2>1. SUFFICES ASSUME sock # 0, inflight[sock] # << >>
                 PROVE  \E k, p : Pairs(Wire', inflight[sock], ask, MayMiss, cpc', req', k, p)
    BY <1>1 DEF Paired, MayMiss
  <2>2. PICK k, p : Pairs(Wire, inflight[sock], ask, MayMiss, cpc, req, k, p)
    BY <1>1, <2>1 DEF Steady, Paired
  <2>3. PICK W \in Seq(Bytes) : W = Wire'
    BY CrashWire DEF Types
  <2>4. PICK X \in Seq(Bytes) : X = Rest
    BY CrashWire DEF Types
  <2>5. Wire = W \o X
    BY <2>3, <2>4, CrashWire DEF Types
  <2>6. k \in 0 .. Len(inflight[sock]) /\ k \in Nat /\ Framed(W \o X, inflight[sock], ask, MayMiss, k, p)
    BY <2>2, <2>5 DEF Pairs
  <2>7. Framed(W, inflight[sock], ask, MayMiss, k, p)
    BY <2>6, FramedCut
  <2>8. Pairs(W, inflight[sock], ask, MayMiss, cpc', req', k, p)
    BY <1>1, <2>6, <2>7 DEF Pairs
  <2> QED  BY <2>3, <2>8
<1>5. Owned'
  BY <1>1, OwnedSame DEF Steady
<1> QED  BY <1>2, <1>3, <1>4, <1>5 DEF Steady

\* The child reads a request and begins to answer it.
LEMMA LoopSteady ==
  ASSUME Types, Steady, gcf2_loop
  PROVE  Steady'
<1>1. UNCHANGED <<kind, frames, sock, inflight, retried, alt_st, objs, alt, ncrash, ask, done>>
  BY DEF gcf2_loop, client, repo
<1>2. /\ cpc = "read" /\ req # << >> /\ req' = Tail(req) /\ (kind = "git" /\ cpc' # "dead" => view' = view)
      /\ Head(req) = Garbage => cpc' = "dead"
  BY LoopWire DEF Types
<1>3. ASSUME sock # 0
      PROVE  Head(req) # Garbage /\ \E k, p : Pairs(Wire', inflight[sock], ask, MayMiss, cpc', req', k, p)
  <2>1. PICK k, p : Pairs(Wire, inflight[sock], ask, MayMiss, cpc, req, k, p)
    BY <1>2, <1>3 DEF Steady, Paired
  <2>2. PICK I : I = inflight[sock]
    OBVIOUS
  <2>3. Len(I) \in Nat /\ \A i \in 1 .. Len(I) : I[i] \in 1 .. Len(ask)
    BY <1>3, <2>2, EntryFacts
  <2>4. /\ k \in 0 .. Len(I) /\ k \in Nat /\ Framed(Wire, I, ask, MayMiss, k, p) /\ Len(Wire) = p[k]
        /\ Len(req) = Len(I) - k /\ \A i \in 1 .. Len(req) : req[i] = ask[I[k + i]].o
    BY <1>2, <2>1, <2>2, <2>3 DEF Pairs
  <2>5. PICK R \in Seq(Names \union {Garbage}) : R = req
    BY DEF Types, ChildOK
  <2>6. /\ Len(R) \in Nat \ {0} /\ Head(R) = R[1] /\ Len(Tail(R)) = Len(R) - 1 /\ \A i \in 1 .. Len(R) - 1 : Tail(R)[i] = R[i + 1]
    <3>1. R # << >> /\ Len(R) \in Nat /\ Len(R) # 0
      BY <1>2, <2>5, EmptySeq
    <3> QED  BY <3>1, HeadTailProperties
  <2>7. k + 1 \in 1 .. Len(I) /\ 1 \in 1 .. Len(R) /\ k + 1 \in 0 .. Len(I)
    BY <2>3, <2>4, <2>5, <2>6
  <2>8. PICK o : o = Head(req)
    OBVIOUS
  <2>9. o = ask[I[k + 1]].o /\ I[k + 1] \in 1 .. Len(ask)
    BY <2>3, <2>4, <2>5, <2>6, <2>7, <2>8
  <2>10. o \in Names
    BY <2>9, AskTypes DEF Types
  <2>11. o # Garbage
    BY <2>10, ObjAssumption DEF Names, NoObj, Garbage
  <2>12. /\ cpc' # "dead" /\ Rest = << >> /\ UNCHANGED <<rbuf, resp>> /\ ChildOK'
         /\ \/ /\ o \in objs /\ Len(Rest') = Size[o] + 2
               /\ \A i \in 1 .. Size[o] + 2 : Rest'[i] = BlobByte(o, i)
            \/ o \notin view' /\ Rest' = << Byte("missing", o) >>
         /\ kind # "git" /\ o \notin view' => view' = objs
    BY <2>8, <2>11, LoopWire DEF Types
  <2>13. o \notin view' => I[k + 1] \in MayMiss
    <3>1. SUFFICES ASSUME o \notin view', ask[I[k + 1]].had PROVE kind = "git" /\ I[k + 1] \notin retried /\ alt # alt_st
      BY <2>9 DEF MayMiss
    <3>2. o \in objs
      BY <2>9, <3>1 DEF Types, RepoOK
    <3>3. kind = "git"
      BY <2>12, <3>1, <3>2
    <3>4. view' = view /\ cpc # "dead"
      BY <1>2, <2>12, <3>3
    <3>5. alt # alt_st
      BY <3>1, <3>2, <3>3, <3>4 DEF Steady, Views
    <3>6. Array(inflight, sock, I[k + 1])
      BY <2>2, <2>7 DEF Array
    <3>7. I[k + 1] \in Requests
      BY <2>9, BoundAssumption DEF Types, ClientOK, Requests
    <3>8. ASSUME I[k + 1] \in retried PROVE FALSE
      <4>1. Again(frames, inflight, sock, retried, I[k + 1])
        BY <3>6, <3>8 DEF Again
      <4>2. Visible(ask, view, I[k + 1])
        BY <1>3, <3>3, <3>4, <3>7, <4>1 DEF Steady, Views
      <4> QED  BY <2>9, <3>1, <3>4, <4>2 DEF Visible
    <3> QED  BY <3>3, <3>5, <3>8
  <2>14. PICK X \in Seq(Bytes) : X = Rest'
    BY <2>12, RestIsLeft, LeftFacts DEF ChildOK
  <2>15. \/ o \in Objs /\ Len(X) = Size[o] + 2 /\ \A i \in 1 .. Size[o] + 2 : X[i] = BlobByte(o, i)
         \/ I[k + 1] \in MayMiss /\ Len(X) = 1 /\ X[1] = Byte("missing", o)
    BY <2>12, <2>13, <2>14 DEF Types, RepoOK
  <2>16. PICK W \in Seq(Bytes) : W = Wire /\ Wire' = W \o X
    <3>1. rbuf \in Seq(Bytes) /\ resp \in Seq(Bytes)
      BY DEF Types, ChildOK
    <3>3. Wire = rbuf \o (resp \o << >>) /\ Wire' = rbuf \o (resp \o X)
      BY <2>12, <2>14 DEF Wire
    <3>4. rbuf \o (resp \o << >>) \in Seq(Bytes) /\ rbuf \o (resp \o X) = (rbuf \o (resp \o << >>)) \o X
      BY <3>1, Regroup, SMTT(30)
    <3>5. Wire \in Seq(Bytes) /\ Wire' = Wire \o X
      BY <3>3, <3>4, Zenon
    <3> QED  BY <3>5
  <2>17. PICK M : M = MayMiss
    OBVIOUS
  <2>18. PICK A : A = ask
    OBVIOUS
  <2>19. Full(W, I, A, M, k, p)
    BY <2>4, <2>16, <2>17, <2>18 DEF Full
  <2>20. PICK r \in [0 .. k + 1 -> Nat] : Full(W \o X, I, A, M, k + 1, r)
    <3>1. AnswerTo(X, o, I[k + 1] \in M) /\ o = A[I[k + 1]].o
      BY <2>9, <2>15, <2>17, <2>18 DEF AnswerTo
    <3>2. AnswerTo(X, A[I[k + 1]].o, I[k + 1] \in M)
      BY <3>1
    <3>3. k \in Nat /\ W \in Seq(Bytes) /\ X \in Seq(Bytes)
      BY <2>4, <2>14, <2>16
    <3> QED  BY <2>19, <3>2, <3>3, FramedMore
  <2>21. /\ Len(req') = Len(I) - (k + 1) /\ \A i \in 1 .. Len(req') : req'[i] = A[I[k + 1 + i]].o
    <3>1. Len(req') = Len(R) - 1 /\ \A i \in 1 .. Len(R) - 1 : req'[i] = R[i + 1]
      BY <1>2, <2>5, <2>6
    <3>2. Len(R) = Len(I) - k /\ \A i \in 1 .. Len(R) : R[i] = A[I[k + i]].o
      BY <2>4, <2>5, <2>18
    <3>3. \A i \in 1 .. Len(R) - 1 : i + 1 \in 1 .. Len(R) /\ k + (i + 1) = k + 1 + i
      BY <2>4, <2>6
    <3>4. Len(R) - 1 = Len(I) - (k + 1)
      BY <2>3, <2>4, <3>2
    <3>5. ASSUME NEW i \in 1 .. Len(R) - 1 PROVE req'[i] = A[I[k + 1 + i]].o
      <4>1. req'[i] = R[i + 1]
        BY <3>1
      <4>2. R[i + 1] = A[I[k + (i + 1)]].o
        BY <3>2, <3>3
      <4>3. k + (i + 1) = k + 1 + i
        BY <3>3
      <4> QED  BY <4>1, <4>2, <4>3
    <3> QED  BY <3>1, <3>4, <3>5
  <2>22. Pairs(W \o X, I, A, M, cpc', req', k + 1, r)
    BY <2>7, <2>20, <2>21 DEF Pairs, Full
  <2> QED  BY <2>2, <2>8, <2>11, <2>16, <2>17, <2>18, <2>22
<1>4. cpc' = "dead" => sock = 0
  BY <1>2, <1>3, LoopWire DEF Types
<1>5. Sockets'
  BY <1>1, <1>4, SocketsSame DEF Steady
<1>6. Views'
  BY <1>1, <1>2, ViewsSame DEF Steady
<1>7. Paired'
  <2>1. MayMiss' = MayMiss
    BY <1>1 DEF MayMiss
  <2> QED  BY <1>1, <1>3, <2>1 DEF Paired
<1>8. Owned'
  BY <1>1, OwnedSame DEF Steady
<1> QED  BY <1>5, <1>6, <1>7, <1>8 DEF Steady

-----------------------------------------------------------------------------
(* Steps that close {sock}. *)

\* A frame below another one does not read, nor does it look for the next entry to move.
LEMMA UnderTop ==
  ASSUME NEW S, NEW T, NEW u \in Nat \ {0}, Below(S, T, 0, u), NEW F, NEW a, NEW R, NEW D, Orderly(S, F, a, R, D), T # << >>
  PROVE  Head(T).k # "read" /\ ~(Head(T).k = "retry" /\ Head(T).q = 0)
<1>1. T \in Seq(FrameSet) /\ Len(T) \in Nat /\ Len(T) # 0 /\ Kept(S, T, 0, u)
  BY BelowFacts, EmptySeq DEF Below, Stacks
<1>2. 1 \in 1 .. Len(T) /\ ~(1 <= 0) /\ Head(T) = T[1]
  BY <1>1, HeadTailProperties
<1>3. 1 + u \in 1 .. Len(S) /\ Head(T) = S[1 + u]
  BY <1>1, <1>2 DEF Kept
<1>4. Sound(S[1 + u], 1 + u, Len(F), a, R)
  BY <1>3 DEF Orderly
<1>5. 1 + u # 1
  OBVIOUS
<1> QED  BY <1>3, <1>4, <1>5 DEF Sound

\* cleanup closes an idle pipeline only.
LEMMA CleanupSteady ==
  ASSUME Types, Steady, cleanup
  PROVE  Steady'
<1>1. /\ UNCHANGED <<kind, frames, inflight, retried, alt_st, objs, alt, ncrash, ask, done>> /\ frames = << >> /\ sock # 0
      /\ inflight[sock] = << >> /\ sock' = 0 /\ cpc' = "dead"
  BY DEF cleanup, Closed, repo
<1>2. Sockets'
  BY <1>1 DEF Steady, Sockets, In, Top, RetryOf
<1>3. Views'
  BY <1>1 DEF Views
<1>4. Paired'
  BY <1>1 DEF Paired
<1>5. Owned'
  BY <1>1, OwnedSame DEF Steady
<1> QED  BY <1>2, <1>3, <1>4, <1>5 DEF Steady

\* Who waits in a frame that is left is told that it died.
LEMMA FailSteady ==
  ASSUME Types, Steady, WriteFails \/ StepFails
  PROVE  Steady'
<1>1. ncrash > 0 /\ frames # << >>
  BY FailsCrashed DEF Steady
<1>2. sock' = 0 /\ cpc' = "dead" /\ Croak
  BY DEF WriteFails, StepFails, fail, Closed
<1>3. PICK u \in 1 .. Len(frames) : u = Unwound
  BY <1>1, UnwoundFacts DEF Types, ClientOK
<1>4. /\ frames' = SubSeq(frames, u + 1, Len(frames)) /\ UNCHANGED <<inflight, retried, ask, ncrash>>
      /\ done' = [q \in DOMAIN done |->
           IF \E f \in {frames[i] : i \in 1 .. u} : f.k = "put" /\ f.q = q THEN Append(done[q], <<"died", NoObj, << >>>>) ELSE done[q]]
  BY <1>2, <1>3 DEF Croak
<1>5. Below(frames, frames', 0, u) /\ u \in Nat \ {0}
  <2>1. frames \in Stacks /\ u \in Nat \ {0}
    BY <1>3 DEF Types, ClientOK
  <2>2. Below(frames, frames', 0, u)
    BY <1>3, <1>4, <2>1, BelowRest
  <2> QED  BY <2>1, <2>2
<1>6. frames' # << >> => Top'.k # "read" /\ ~(Top'.k = "retry" /\ Top'.q = 0)
  BY <1>5, UnderTop DEF Types, OnePlace, Top
<1>7. Sockets'
  BY <1>1, <1>2, <1>4, <1>6 DEF Sockets, In
<1>8. Views'
  BY <1>2 DEF Views
<1>9. Paired'
  BY <1>2 DEF Paired
<1>10. Owned'
  <2>1. ASSUME NEW q \in Requests, done'[q] # done[q]
        PROVE  done[q] = << >> /\ \E r : done'[q] = Append(done[q], r) /\ r[1] \in {"abort", "died"}
    <3>1. q \in DOMAIN done
      BY DEF Types, ClientOK
    <3>2. /\ \E f \in {frames[i] : i \in 1 .. u} : f.k = "put" /\ f.q = q
          /\ done'[q] = Append(done[q], <<"died", NoObj, << >>>>)
      BY <1>4, <2>1, <3>1
    <3>3. Calls(frames, q)
      <4>1. \A i \in 1 .. u : i \in 1 .. Len(frames)
        BY <1>3
      <4> QED  BY <3>2, <4>1 DEF Calls
    <3>4. done[q] = << >>
      BY <3>3 DEF Types, OnePlace, Orderly
    <3>5. <<"died", NoObj, << >>>>[1] \in {"abort", "died"}
      OBVIOUS
    <3> QED  BY <3>2, <3>4, <3>5
  <2> QED  BY <1>1, <1>4, <2>1, OwnedCrash DEF Steady
<1> QED  BY <1>7, <1>8, <1>9, <1>10 DEF Steady

\* What was pending when a child died is aborted.
LEMMA DrainSteady ==
  ASSUME Types, Steady, NEW g \in DOMAIN inflight, gcf_drain(g)
  PROVE  Steady'
<1>1. /\ UNCHANGED <<kind, frames, sock, retried, alt_st, objs, alt, ncrash, ask>> /\ frames = << >>
      /\ UNCHANGED <<rbuf, req, resp, cpc, view, vec, nvec>>
      /\ inflight[g] # << >> /\ (g # sock \/ cpc = "dead") /\ inflight' = [inflight EXCEPT ![g] = << >>]
      /\ done' = [q \in DOMAIN done |->
           IF q \in Range(inflight[g]) THEN Append(done[q], <<"abort", Entry(q), << >>>>) ELSE done[q]]
  BY DEF gcf_drain, repo, child
<1>2. g \in 1 .. Len(inflight) /\ inflight \in Arrays /\ sock \in 0 .. Len(inflight) /\ inflight[g] \in Seq(Requests)
  BY DEF Types, ClientOK, Arrays
<1>3. Drained(inflight, inflight', g)
  BY <1>1, <1>2, ArrayDrain
<1>4. ncrash > 0
  <2>1. ~RetryOf(frames, g)
    BY <1>1 DEF RetryOf
  <2>2. g # 0
    BY <1>2
  <2> QED  BY <1>1, <1>2, <2>1, <2>2 DEF Steady, Sockets
<1>5. Sockets'
  <2>1. frames' = << >> /\ ncrash' > 0
    BY <1>1, <1>4
  <2> QED  BY <2>1 DEF Sockets, In
<1>6. sock # 0 /\ cpc # "dead" => inflight'[sock] = inflight[sock]
  BY <1>1, <1>2, <1>3 DEF Drained
<1>7. Views'
  <2>1. ASSUME NEW q \in Requests, sock # 0, cpc # "dead", Again(frames', inflight', sock, retried', q)
        PROVE  Again(frames, inflight, sock, retried, q)
    BY <1>1, <1>6, <2>1 DEF Again, Array
  <2> QED  BY <1>1, <2>1, ViewsKept DEF Steady
<1>8. Paired'
  <2>1. CASE sock = g
    BY <1>1, <1>3, <2>1 DEF Paired, Drained
  <2>2. CASE sock # g
    <3>1. Wire' = Wire
      BY <1>1 DEF Wire, Rest, Part
    <3>2. sock # 0 => inflight'[sock] = inflight[sock]
      BY <1>2, <1>3, <2>2 DEF Drained
    <3> QED  BY <1>1, <3>1, <3>2, PairedSame DEF Steady
  <2> QED  BY <2>1, <2>2
<1>9. Owned'
  <2>1. ASSUME NEW q \in Requests, done'[q] # done[q]
        PROVE  done[q] = << >> /\ \E r : done'[q] = Append(done[q], r) /\ r[1] \in {"abort", "died"}
    <3>1. q \in DOMAIN done
      BY DEF Types, ClientOK
    <3>2. q \in Range(inflight[g]) /\ done'[q] = Append(done[q], <<"abort", Entry(q), << >>>>)
      BY <1>1, <2>1, <3>1
    <3>3. Array(inflight, g, q)
      BY <1>2, <3>2 DEF Array, Range
    <3>4. done[q] = << >>
      BY <1>2, <3>3 DEF Types, OnePlace, Orderly, Holds
    <3>5. <<"abort", Entry(q), << >>>>[1] \in {"abort", "died"}
      OBVIOUS
    <3> QED  BY <3>2, <3>4, <3>5
  <2> QED  BY <1>1, <1>4, <2>1, OwnedCrash DEF Steady
<1> QED  BY <1>5, <1>7, <1>8, <1>9 DEF Steady

-----------------------------------------------------------------------------
(* Steps that move frames only. *)

\* Steps that move frames only are harmless if the new top frame works for {sock} and an array
\* with entries, an array that is left keeps its retry, and nothing more is asked again.
LEMMA FramesSteady ==
  ASSUME Types, Steady,
         UNCHANGED <<kind, sock, inflight, retried, rbuf, alt_st, req, resp, cpc, view, vec, nvec, objs, alt, ncrash, ask, done>>,
         sock # 0 \/ frames' = << >> \/ frames # << >>,
         In("read")' => Top'.g = sock /\ inflight[sock] # << >>,
         In("retry")' /\ Top'.q = 0 => Top'.g = sock /\ (inflight[Top'.old] # << >> \/ inflight[sock] # << >>),
         \A g \in 1 .. Len(inflight) : inflight[g] # << >> /\ RetryOf(frames, g) => RetryOf(frames', g),
         \A q \in Requests : Again(frames', inflight, sock, retried, q) => Again(frames, inflight, sock, retried, q)
  PROVE  Steady'
<1>1. Sockets'
  BY DEF Steady, Sockets
<1>2. Views'
  BY ViewsKept DEF Steady
<1>3. Paired'
  <2>1. Wire' = Wire
    BY DEF Wire, Rest, Part
  <2> QED  BY <2>1, PairedSame DEF Steady
<1>4. Owned'
  BY OwnedSame DEF Steady
<1> QED  BY <1>1, <1>2, <1>3, <1>4 DEF Steady

\* Frames that ask again are no new ones.
LEMMA AgainKept ==
  ASSUME NEW c \in Nat, NEW h \in Int, NEW S, NEW T, Below(S, T, c, h), NEW F, NEW s, NEW R, NEW q,
         Again(T, F, s, R, q), \A i \in 1 .. Len(T) : i <= c => ~Moving(T[i], F, s, q)
  PROVE  Again(S, F, s, R, q)
<1>1. ASSUME NEW i \in 1 .. Len(T), Moving(T[i], F, s, q) PROVE \E j \in 1 .. Len(S) : Moving(S[j], F, s, q)
  BY <1>1, MovingKept
<1> QED  BY <1>1 DEF Again

\* The top frame after a step is the first of the new stack.
LEMMA TopNext ==
  ASSUME frames' \in Stacks, frames' # << >>
  PROVE  Top' = frames'[1] /\ 1 \in 1 .. Len(frames')
<1>1. frames' \in Seq(FrameSet) /\ Len(frames') \in Nat /\ Len(frames') # 0
  BY EmptySeq DEF Stacks
<1> QED  BY <1>1, HeadTailProperties DEF Top

\* Stuttering keeps the pairing.
LEMMA IdleSteady ==
  ASSUME Types, Steady,
         UNCHANGED <<kind, frames, sock, inflight, retried, rbuf, alt_st, req, resp, cpc, view, vec, nvec, objs, alt, ncrash, ask, done>>
  PROVE  Steady'
<1>1. Wire' = Wire
  BY DEF Wire, Rest, Part
<1>2. Sockets'
  BY SocketsSame DEF Steady
<1>3. Views'
  BY ViewsSame DEF Steady
<1>4. Paired'
  BY <1>1, PairedSame DEF Steady
<1>5. Owned'
  BY OwnedSame DEF Steady
<1> QED  BY <1>2, <1>3, <1>4, <1>5 DEF Steady

\* event_step calls cat_async_step only if there is something in {inflight} to read for.
LEMMA EventReadsSteady ==
  ASSUME Types, Steady, event_step, sock # 0, inflight[sock] # << >>
  PROVE  Steady'
<1>1. /\ UNCHANGED <<kind, sock, inflight, retried, rbuf, alt_st, req, resp, cpc, view, vec, nvec, objs, alt, ncrash, ask, done>>
      /\ frames = << >> /\ sock # 0 /\ inflight[sock] # << >> /\ frames' = <<Frame("read", 0, sock, 0)>>
  BY DEF event_step, child, repo
<1>2. PICK f : f = Frame("read", 0, sock, 0)
  OBVIOUS
<1>3. f.k = "read" /\ f.g = sock /\ Top' = f /\ Len(frames') = 1 /\ frames'[1] = f
  BY <1>1, <1>2 DEF Frame, Top
<1>4. \A g : ~RetryOf(frames, g)
  BY <1>1 DEF RetryOf
<1>5. \A q : Again(frames', inflight, sock, retried, q) => Again(frames, inflight, sock, retried, q)
  BY <1>3 DEF Again, Moving
<1>6. In("read")' => Top'.g = sock /\ inflight[sock] # << >>
  BY <1>1, <1>3
<1>7. ~In("retry")'
  BY <1>3 DEF In
<1> QED  BY <1>1, <1>4, <1>5, <1>6, <1>7, FramesSteady

LEMMA EventStepSteady ==
  ASSUME Types, Steady, event_step
  PROVE  Steady'
<1>1. CASE sock # 0 /\ inflight[sock] # << >>
  BY <1>1, EventReadsSteady
<1>2. CASE ~(sock # 0 /\ inflight[sock] # << >>)
  BY <1>2, IdleSteady DEF event_step, child, repo
<1> QED  BY <1>1, <1>2

\* A callback that returns leaves the frames below as they were.
LEMMA ReturnSteady ==
  ASSUME Types, Steady, Return
  PROVE  Steady'
<1>1. /\ UNCHANGED <<kind, sock, inflight, retried, rbuf, alt_st, req, resp, cpc, view, vec, nvec, objs, alt, ncrash, ask, done>>
      /\ frames # << >> /\ Top.k = "cb" /\ frames' = Tail(frames)
  BY DEF Return, In, child, repo
<1>2. frames \in Stacks /\ Top = frames[1]
  BY <1>1, TopFacts DEF Types, ClientOK
<1>3. Below(frames, frames', 0, 1)
  BY <1>1, <1>2, BelowTail
<1>4. frames' # << >> => Top'.k # "read" /\ ~(Top'.k = "retry" /\ Top'.q = 0)
  BY <1>3, UnderTop DEF Types, OnePlace, Top
<1>5. \A g : RetryOf(frames, g) => RetryOf(frames', g)
  <2>1. SUFFICES ASSUME NEW g, RetryOf(frames, g) PROVE RetryOf(frames', g)
    OBVIOUS
  <2>2. \A i \in 1 .. Len(frames) : i <= 0 + 1 => ~(frames[i].k = "retry" /\ frames[i].old = g)
    <3>1. \A i \in 1 .. Len(frames) : i <= 0 + 1 => i = 1
      OBVIOUS
    <3> QED  BY <1>1, <1>2, <3>1
  <2> QED  BY <1>3, <2>1, <2>2, RetryKept
<1>6. \A q : Again(frames', inflight, sock, retried, q) => Again(frames, inflight, sock, retried, q)
  <2>1. \A i \in 1 .. Len(frames') : ~(i <= 0)
    OBVIOUS
  <2> QED  BY <1>3, <2>1, AgainKept
<1>7. ~In("read")' /\ ~(In("retry")' /\ Top'.q = 0)
  BY <1>4 DEF In
<1> QED  BY <1>1, <1>5, <1>6, <1>7, FramesSteady

\* A child that cannot take another request has requests to answer.
LEMMA SocketFull ==
  ASSUME Types, Steady, sock # 0, cpc # "dead", req # << >>
  PROVE  inflight[sock] # << >>
<1>1. PICK k, p : Pairs(Wire, inflight[sock], ask, MayMiss, cpc, req, k, p)
  BY DEF Steady, Paired
<1>2. k \in 0 .. Len(inflight[sock]) /\ Len(req) = Len(inflight[sock]) - k /\ Len(inflight[sock]) \in Nat
  BY <1>1, EntryFacts DEF Pairs
<1>3. Len(req) \in Nat /\ Len(req) # 0
  BY EmptySeq DEF Types, ChildOK
<1>4. Len(inflight[sock]) # 0
  BY <1>2, <1>3
<1> QED  BY <1>4

\* {sock} and the array of the frame are those of one child, so there is something to read.
LEMMA ReadStepSteady ==
  ASSUME Types, Steady, ReadStep, astray' = {}
  PROVE  Steady'
<1>1. /\ UNCHANGED <<kind, sock, inflight, retried, rbuf, alt_st, req, resp, cpc, view, vec, nvec, objs, alt, ncrash, ask, done>>
      /\ frames # << >> /\ (Top.k = "put" \/ (Top.k = "retry" /\ Top.q # 0))
      /\ Throttled \/ (~Broken /\ Len(req) = ReqCap)
  BY DEF ReadStep, Writing, In, child, repo
<1>2. PICK b \in BOOLEAN : frames' = <<Frame("read", 0, Top.g, 0), [Top EXCEPT !.sent = b]>> \o Tail(frames)
  BY DEF ReadStep, Throttled
<1>3. /\ Top \in FrameSet /\ Sound(Top, 1, Len(inflight), Len(ask), retried) /\ frames \in Stacks /\ Top = frames[1]
      /\ 1 \in 1 .. Len(frames) /\ Len(frames) \in Nat
  BY <1>1, TopFacts DEF Types, ClientOK
<1>4. PICK t \in FrameSet : t = Top
  BY <1>3
<1>5. PICK f : f = Frame("read", 0, t.g, 0)
  OBVIOUS
<1>6. PICK e : e = [t EXCEPT !.sent = b]
  OBVIOUS
<1>7. f \in FrameSet /\ f.k = "read" /\ f.q = 0 /\ f.g = t.g
  <2>1. t.g \in Nat /\ 0 \in 0 .. MaxReq
    BY FieldTypes
  <2> QED  BY <1>5, <2>1, FrameTypes DEF IsFrame
<1>8. e \in FrameSet /\ e.k = t.k /\ e.q = t.q /\ e.g = t.g /\ e.old = t.old
  BY <1>6, SentType DEF IsFrame
<1>9. frames' = <<f, e>> \o Tail(frames)
  BY <1>2, <1>4, <1>5, <1>6
<1>10. Below(frames, frames', 2, -1) /\ frames'[1] = f /\ frames'[2] = e
  <2>1. Covers(frames, <<f, e>> \o Tail(frames), f, e)
    BY <1>1, <1>3, <1>7, <1>8, BelowCover
  <2> QED  BY <1>9, <2>1 DEF Covers
<1>11. frames' \in Stacks /\ Len(frames') = Len(frames) + 1 /\ \A i \in 2 + 1 .. Len(frames') : frames'[i] = frames[i + (-1)]
  <2>1. Len(frames') = Len(frames) - (-1)
    BY <1>10 DEF Below
  <2> QED  BY <1>3, <1>10, <2>1 DEF Below
<1>12. Top' = f
  <2>1. frames' # << >>
    <3>1. Len(frames') # 0
      BY <1>3, <1>11
    <3> QED  BY <3>1
  <2> QED  BY <1>10, <1>11, <2>1, TopNext
<1>13. t.g = sock
  <2>1. Stale = {}
    BY DEF ReadStep
  <2>2. Top.g \notin {Top.g} \ {sock}
    BY <2>1 DEF Stale
  <2> QED  BY <1>4, <2>2
<1>14. sock # 0
  BY <1>1, <1>3, <1>4, <1>13 DEF Sound
<1>15. inflight[sock] # << >>
  <2>1. CASE Throttled
    <3>1. Len(inflight[sock]) >= MAX_INFLIGHT /\ MAX_INFLIGHT \in Nat \ {0}
      BY <1>4, <1>13, <2>1, CapAssumption DEF Throttled
    <3>2. Len(inflight[sock]) # 0
      BY <3>1
    <3> QED  BY <3>2
  <2>2. CASE ~Broken /\ Len(req) = ReqCap
    <3>1. cpc # "dead" /\ Len(req) # 0
      BY <2>2, CapAssumption DEF Broken
    <3> QED  BY <1>14, <3>1, SocketFull
  <2> QED  BY <1>1, <2>1, <2>2
<1>16. \A g : RetryOf(frames, g) => RetryOf(frames', g)
  <2>1. SUFFICES ASSUME NEW g, NEW i \in 1 .. Len(frames), frames[i].k = "retry", frames[i].old = g PROVE RetryOf(frames', g)
    BY DEF RetryOf
  <2>2. CASE i = 1
    <3>1. 2 \in 1 .. Len(frames') /\ frames'[2].k = "retry" /\ frames'[2].old = g
      BY <1>3, <1>4, <1>8, <1>10, <1>11, <2>1, <2>2
    <3> QED  BY <3>1 DEF RetryOf
  <2>3. CASE i # 1
    <3>1. i + 1 \in 2 + 1 .. Len(frames') /\ i + 1 \in 1 .. Len(frames') /\ i + 1 + (-1) = i
      BY <1>3, <1>11, <2>3
    <3>2. frames'[i + 1] = frames[i]
      BY <1>11, <3>1
    <3> QED  BY <2>1, <3>1, <3>2 DEF RetryOf
  <2> QED  BY <2>2, <2>3
<1>17. \A q : Again(frames', inflight, sock, retried, q) => Again(frames, inflight, sock, retried, q)
  <2>1. SUFFICES ASSUME NEW q, Again(frames', inflight, sock, retried, q), ~Again(frames, inflight, sock, retried, q) PROVE FALSE
    OBVIOUS
  <2>2. \A i \in 1 .. Len(frames') : i <= 2 => i = 1 \/ i = 2
    OBVIOUS
  <2>3. ~Moving(f, inflight, sock, q)
    BY <1>7 DEF Moving
  <2>4. Moving(e, inflight, sock, q) => Moving(frames[1], inflight, sock, q)
    BY <1>3, <1>4, <1>8 DEF Moving
  <2>5. ~Moving(e, inflight, sock, q)
    BY <1>3, <2>1, <2>4 DEF Again
  <2>6. \A i \in 1 .. Len(frames') : i <= 2 => ~Moving(frames'[i], inflight, sock, q)
    BY <1>10, <2>2, <2>3, <2>5
  <2>7. 2 \in Nat /\ -1 \in Int
    OBVIOUS
  <2> QED  BY <1>10, <2>1, <2>6, <2>7, AgainKept
<1>18. In("read")' => Top'.g = sock /\ inflight[sock] # << >>
  BY <1>7, <1>12, <1>13, <1>15
<1>19. ~In("retry")'
  BY <1>7, <1>12 DEF In
<1> QED  BY <1>1, <1>14, <1>16, <1>17, <1>18, <1>19, FramesSteady

\* f takes the place of the frame on top.
Replaced(S, T, f) ==
    /\ Below(S, T, 1, 0) /\ T \in Stacks /\ T # << >> /\ T[1] = f /\ Len(S) \in Nat /\ Len(T) = Len(S)
    /\ 1 \in 1 .. Len(S) /\ \A i \in 1 .. Len(S) : i # 1 => T[i] = S[i]

\* Giving the top frame another state leaves those below alone.
LEMMA SwapFacts ==
  ASSUME Types, frames # << >>, NEW f \in FrameSet, frames' = <<f>> \o Tail(frames)
  PROVE  Replaced(frames, frames', f) /\ Top' = f
<1>1. frames \in Stacks /\ Len(frames) \in Nat /\ 1 \in 1 .. Len(frames)
  BY TopFacts DEF Types, ClientOK
<1>2. Swapped(frames, <<f>> \o Tail(frames), f)
  BY <1>1, BelowSwap
<1>3. Below(frames, frames', 1, 0) /\ frames'[1] = f
  BY <1>2 DEF Swapped
<1>4. frames' \in Stacks /\ Len(frames') = Len(frames) /\ \A i \in 1 + 1 .. Len(frames') : frames'[i] = frames[i + 0]
  <2>1. Len(frames') = Len(frames) - 0
    BY <1>3 DEF Below
  <2> QED  BY <1>1, <1>3, <2>1 DEF Below
<1>5. frames' # << >>
  BY <1>1, <1>4
<1>6. ASSUME NEW i \in 1 .. Len(frames), i # 1 PROVE frames'[i] = frames[i]
  <2>1. i \in 1 + 1 .. Len(frames') /\ i + 0 = i
    BY <1>1, <1>4, <1>6
  <2> QED  BY <1>4, <2>1
<1>7. Top' = f
  BY <1>3, <1>4, <1>5, TopNext
<1> QED  BY <1>1, <1>3, <1>4, <1>5, <1>6, <1>7 DEF Replaced

\* The frame of cat_async_retry takes the next entry, or reads the first answer.
LEMMA RetryNextSteady ==
  ASSUME Types, Steady, RetryNext
  PROVE  Steady'
<1>1. /\ UNCHANGED <<kind, sock, retried, rbuf, alt_st, req, resp, cpc, view, vec, nvec, objs, alt, ncrash, ask, done>>
      /\ frames # << >> /\ Top.k = "retry" /\ Top.q = 0
  BY DEF RetryNext, In, child, repo
<1>2. /\ Top \in FrameSet /\ Sound(Top, 1, Len(inflight), Len(ask), retried) /\ Top = frames[1] /\ inflight \in Arrays
  BY <1>1, TopFacts DEF Types, ClientOK
<1>3. PICK t \in FrameSet : t = Top
  BY <1>2
<1>4. t.g = sock /\ (inflight[t.old] # << >> \/ inflight[sock] # << >>)
  BY <1>1, <1>3 DEF Steady, Sockets, In
<1>5. /\ t.k = "retry" /\ t.q = 0 /\ t = frames[1] /\ t.g \in 1 .. Len(inflight) /\ t.old \in 1 .. Len(inflight)
      /\ t.old # sock /\ sock # 0
  BY <1>1, <1>2, <1>3, <1>4 DEF Sound
<1>6. CASE inflight[t.old] = << >>
  <2>1. frames' = <<Frame("read", 0, t.g, 0)>> \o Tail(frames) /\ inflight' = inflight
    BY <1>3, <1>6 DEF RetryNext, Swap
  <2>2. PICK f : f = Frame("read", 0, t.g, 0)
    OBVIOUS
  <2>3. f \in FrameSet /\ f.k = "read" /\ f.g = sock
    <3>1. t.g \in Nat /\ 0 \in 0 .. MaxReq
      BY FieldTypes
    <3> QED  BY <1>4, <2>2, <3>1, FrameTypes DEF IsFrame
  <2>4. Replaced(frames, frames', f) /\ Top' = f
    BY <1>1, <2>1, <2>2, <2>3, SwapFacts
  <2>5. ASSUME NEW g \in 1 .. Len(inflight), inflight[g] # << >>, RetryOf(frames, g) PROVE RetryOf(frames', g)
    <3>1. PICK i \in 1 .. Len(frames) : frames[i].k = "retry" /\ frames[i].old = g
      BY <2>5 DEF RetryOf
    <3>2. i # 1
      BY <1>5, <1>6, <2>5, <3>1
    <3>3. i \in 1 .. Len(frames') /\ frames'[i] = frames[i]
      BY <2>4, <3>2 DEF Replaced
    <3> QED  BY <3>1, <3>3 DEF RetryOf
  <2>6. ASSUME NEW q, Again(frames', inflight, sock, retried, q) PROVE Again(frames, inflight, sock, retried, q)
    <3>1. \A i \in 1 .. Len(frames') : i <= 1 => ~Moving(frames'[i], inflight, sock, q)
      <4>1. \A i \in 1 .. Len(frames') : i <= 1 => i = 1
        OBVIOUS
      <4> QED  BY <2>3, <2>4, <4>1 DEF Replaced, Moving
    <3>2. Below(frames, frames', 1, 0) /\ 1 \in Nat /\ 0 \in Int
      BY <2>4 DEF Replaced
    <3> QED  BY <2>6, <3>1, <3>2, AgainKept
  <2>7. In("read")' => Top'.g = sock /\ inflight[sock] # << >>
    BY <1>4, <1>6, <2>3, <2>4
  <2>8. ~In("retry")'
    BY <2>3, <2>4 DEF In
  <2> QED  BY <1>1, <1>5, <2>1, <2>5, <2>6, <2>7, <2>8, FramesSteady
<1>7. CASE inflight[t.old] # << >>
  <2>1. /\ frames' = <<[t EXCEPT !.q = Head(inflight[t.old])]>> \o Tail(frames)
        /\ inflight' = [inflight EXCEPT ![t.old] = Tail(inflight[t.old])]
    BY <1>3, <1>7 DEF RetryNext, Swap
  <2>2. PICK G : G = inflight'
    OBVIOUS
  <2>3. Popped(inflight, G, t.old)
    BY <1>2, <1>5, <1>7, <2>1, <2>2, ArrayPop
  <2>4. PICK q \in Requests : q = Head(inflight[t.old])
    BY <2>3 DEF Popped
  <2>5. q # 0 /\ q \in 0 .. MaxReq /\ Array(inflight, t.old, q)
    BY <2>3, <2>4, BoundAssumption DEF Popped, Requests
  <2>6. PICK f : f = [t EXCEPT !.q = q]
    OBVIOUS
  <2>7. f \in FrameSet /\ f.k = "retry" /\ f.q = q /\ f.g = sock /\ f.old = t.old
    BY <1>4, <1>5, <2>5, <2>6, CallType DEF IsFrame
  <2>8. Replaced(frames, frames', f) /\ Top' = f
    BY <1>1, <2>1, <2>4, <2>6, <2>7, SwapFacts
  <2>9. \A g \in 1 .. Len(inflight) : G[g] # << >> => inflight[g] # << >>
    BY <1>7, <2>3 DEF Popped
  <2>10. \A g \in 1 .. Len(inflight) : \A x : Array(G, g, x) => Array(inflight, g, x)
    BY <2>3 DEF Popped, Array
  <2>11. Len(G) = Len(inflight) /\ G[sock] = inflight[sock]
    BY <1>4, <1>5, <2>3 DEF Popped
  <2>12. \A g : RetryOf(frames, g) => RetryOf(frames', g)
    <3>1. SUFFICES ASSUME NEW g, NEW i \in 1 .. Len(frames), frames[i].k = "retry", frames[i].old = g PROVE RetryOf(frames', g)
      BY DEF RetryOf
    <3>2. i \in 1 .. Len(frames') /\ frames'[i].k = "retry" /\ frames'[i].old = g
      BY <1>5, <2>7, <2>8, <3>1 DEF Replaced
    <3> QED  BY <3>2 DEF RetryOf
  <2>13. Sockets'
    <3>1. In("retry")' => Top'.q # 0
      BY <2>5, <2>7, <2>8
    <3>2. ~In("read")'
      BY <2>7, <2>8 DEF In
    <3>3. \A g \in 1 .. Len(inflight) : g # sock /\ G[g] # << >> => ncrash > 0 \/ RetryOf(frames', g)
      BY <2>9, <2>12 DEF Steady, Sockets
    <3>4. sock' # 0 /\ (cpc' = "dead" => ncrash > 0)
      BY <1>1, <1>5 DEF Steady, Sockets
    <3> QED  BY <1>1, <2>2, <2>11, <3>1, <3>2, <3>3, <3>4 DEF Sockets
  <2>14. Views'
    <3>1. ASSUME NEW x \in Requests, Again(frames', inflight', sock, retried, x) PROVE Again(frames, inflight, sock, retried, x)
      <4>1. CASE Array(inflight', sock, x) /\ x \in retried
        BY <1>4, <1>5, <2>2, <2>10, <4>1 DEF Again
      <4>2. ASSUME NEW i \in 1 .. Len(frames'), Moving(frames'[i], inflight', sock, x)
            PROVE  \E j \in 1 .. Len(frames) : Moving(frames[j], inflight, sock, x)
        <5>1. CASE i = 1
          <6>1. f.g = sock /\ (Array(G, t.old, x) \/ q = x)
            BY <2>2, <2>7, <2>8, <4>2, <5>1 DEF Moving, Replaced
          <6>2. Array(inflight, t.old, x)
            BY <1>5, <2>5, <2>10, <6>1
          <6>3. Moving(frames[1], inflight, sock, x) /\ 1 \in 1 .. Len(frames)
            BY <1>4, <1>5, <2>8, <6>2 DEF Moving, Replaced
          <6> QED  BY <6>3
        <5>2. CASE i # 1
          <6>1. i \in 1 .. Len(frames) /\ frames'[i] = frames[i]
            BY <2>8, <5>2 DEF Replaced
          <6>2. frames[i].k = "retry" => frames[i].old \in 1 .. Len(inflight)
            BY <6>1 DEF Types, OnePlace, Orderly, Sound
          <6>3. Moving(frames[i], inflight, sock, x)
            BY <2>2, <2>10, <4>2, <6>1, <6>2 DEF Moving
          <6> QED  BY <6>1, <6>3
        <5> QED  BY <5>1, <5>2
      <4> QED  BY <3>1, <4>1, <4>2 DEF Again
    <3> QED  BY <1>1, <3>1, ViewsKept DEF Steady
  <2>15. Paired'
    <3>1. Wire' = Wire
      BY <1>1 DEF Wire, Rest, Part
    <3> QED  BY <1>1, <2>2, <2>11, <3>1, PairedSame DEF Steady
  <2>16. Owned'
    BY <1>1, OwnedSame DEF Steady
  <2> QED  BY <2>13, <2>14, <2>15, <2>16 DEF Steady
<1> QED  BY <1>6, <1>7

-----------------------------------------------------------------------------
(* Steps that answer a request. *)

\* The bytes of one answer leave the wire, the first entry its array, and the
\* other entries keep their answers.
LEMMA CallbackPaired ==
  ASSUME Types, Sockets, Paired, Reading, rbuf # << >>, NEW w \in Nat, w <= Len(rbuf),
         \/ rbuf[1][1] = "missing" /\ w = 1
         \/ rbuf[1][1] = "hdr" /\ w = Size[rbuf[1][2]] + 2,
         rbuf' = SubSeq(rbuf, w + 1, Len(rbuf)), UNCHANGED child, UNCHANGED <<kind, sock, retried, ask, alt, alt_st>>,
         Popped(inflight, inflight', sock)
  PROVE  Paired'
<1>1. sock # 0 /\ Top.g = sock /\ inflight[sock] # << >>
  BY FirstAnswer DEF Reading
<1>2. PICK k, p : Pairs(Wire, inflight[sock], ask, MayMiss, cpc, req, k, p)
  BY <1>1 DEF Paired
<1>3. PICK W \in Seq(Bytes) : W = Wire
  BY BufferFirst DEF Types
<1>4. PICK V : V = Wire'
  OBVIOUS
<1>5. PICK I : I = inflight[sock]
  OBVIOUS
<1>6. PICK J : J = inflight'[sock]
  OBVIOUS
<1>7. PICK A : A = ask
  OBVIOUS
<1>8. PICK M : M = MayMiss
  OBVIOUS
<1>9. Len(I) \in Nat \ {0} /\ Len(J) = Len(I) - 1 /\ \A i \in 1 .. Len(I) - 1 : J[i] = I[i + 1]
  BY <1>5, <1>6 DEF Popped
<1>10. /\ k \in 0 .. Len(I) /\ k \in Nat /\ Framed(W, I, A, M, k, p)
       /\ cpc # "dead" => Len(W) = p[k] /\ Len(req) = Len(I) - k /\ \A i \in 1 .. Len(req) : req[i] = A[I[k + i]].o
  BY <1>2, <1>3, <1>5, <1>7, <1>8, <1>9 DEF Pairs
<1>11. Len(rbuf) \in Nat /\ Len(rbuf) # 0 /\ Len(rbuf) <= Len(W) /\ Len(W) \in Nat /\ W[1] = rbuf[1]
  <2>1. Len(rbuf) \in Nat /\ Len(rbuf) <= Len(W) /\ \A i \in 1 .. Len(rbuf) : W[i] = rbuf[i]
    BY <1>3, BufferFirst DEF Types
  <2>2. Len(rbuf) # 0
    BY EmptySeq DEF Types, ChildOK
  <2>3. 1 \in 1 .. Len(rbuf) /\ Len(W) \in Nat
    BY <2>1, <2>2
  <2> QED  BY <2>1, <2>2, <2>3
<1>12. W # << >>
  <2>1. Len(W) # 0
    BY <1>11
  <2> QED  BY <2>1
<1>13. /\ k >= 1 /\ p[1] \in Nat
       /\ \/ IsBlob(W, A[I[1]].o, 0, p[1]) /\ W[1] = Byte("hdr", A[I[1]].o)
          \/ I[1] \in M /\ p[1] = 1 /\ W[1] = Byte("missing", A[I[1]].o)
  BY <1>10, <1>12, FramedFirst
<1>14. w = p[1]
  <2>1. \A x : Byte("hdr", x)[1] = "hdr" /\ Byte("hdr", x)[2] = x /\ Byte("missing", x)[1] = "missing"
    BY DEF Byte
  <2>2. ASSUME NEW o, IsBlob(W, o, 0, p[1]) PROVE p[1] = Size[o] + 2
    BY <1>13, <2>2, ObjAssumption DEF IsBlob
  <2>3. CASE IsBlob(W, A[I[1]].o, 0, p[1]) /\ W[1] = Byte("hdr", A[I[1]].o)
    BY <1>11, <2>1, <2>2, <2>3
  <2>4. CASE p[1] = 1 /\ W[1] = Byte("missing", A[I[1]].o)
    BY <1>11, <2>1, <2>4
  <2> QED  BY <1>13, <2>3, <2>4
<1>15. w <= Len(W) /\ Len(V) = Len(W) - w /\ \A i \in 1 .. Len(W) - w : V[i] = W[w + i]
  BY <1>3, <1>4, TakeWire DEF Types
<1>16. k \in Nat \ {0} /\ \A j \in 1 .. k - 1 : J[j] = I[j + 1]
  <2>1. \A j \in 1 .. k - 1 : j \in 1 .. Len(I) - 1
    BY <1>9, <1>10
  <2> QED  BY <1>9, <1>10, <1>13, <2>1
<1>17. PICK r \in [0 .. k - 1 -> Nat] : Framed(V, J, A, M, k - 1, r) /\ (Len(W) = p[k] => Len(V) = r[k - 1])
  <2>1. Len(W) \in Nat /\ Framed(W, I, A, M, k, p)
    BY <1>10, <1>11
  <2>2. Taken(W, V, I, J, k, p, w)
    BY <1>14, <1>15, <1>16, <2>1 DEF Taken
  <2> QED  BY <1>16, <2>1, <2>2, FramedRest
<1>18. ASSUME cpc # "dead" PROVE Len(V) = r[k - 1] /\ Len(req) = Len(J) - (k - 1) /\ \A i \in 1 .. Len(req) : req[i] = A[J[k - 1 + i]].o
  <2>1. Len(W) = p[k] /\ Len(req) = Len(I) - k /\ \A i \in 1 .. Len(req) : req[i] = A[I[k + i]].o
    BY <1>10, <1>18
  <2>2. Len(req) = Len(J) - (k - 1)
    BY <1>9, <1>10, <2>1
  <2>3. ASSUME NEW i \in 1 .. Len(req) PROVE I[k + i] = J[k - 1 + i]
    <3>1. k - 1 + i \in 1 .. Len(I) - 1 /\ k - 1 + i + 1 = k + i
      BY <1>9, <1>16, <2>1
    <3>2. J[k - 1 + i] = I[k - 1 + i + 1]
      BY <1>9, <3>1
    <3> QED  BY <3>1, <3>2
  <2> QED  BY <1>17, <2>1, <2>2, <2>3
<1>19. k - 1 \in 0 .. Len(J)
  BY <1>9, <1>10, <1>16
<1>20. UNCHANGED <<cpc, req>> /\ MayMiss' = M
  BY <1>8 DEF child, MayMiss
<1>21. Pairs(V, J, A, M, cpc, req, k - 1, r)
  BY <1>17, <1>18, <1>19 DEF Pairs
<1> QED  BY <1>4, <1>6, <1>7, <1>20, <1>21 DEF Paired

\* Taking a whole answer off pi_io_rbuf for the first entry of {inflight} leaves the rest
\* paired, and the answer is the entry's own.
LEMMA CallbackSteady ==
  ASSUME Types, Steady, Reading, rbuf # << >>, NEW w \in Nat, w <= Len(rbuf),
         \/ rbuf[1][1] = "missing" /\ w = 1
         \/ rbuf[1][1] = "hdr" /\ w = Size[rbuf[1][2]] + 2,
         NEW r, Callback(r, SubSeq(rbuf, w + 1, Len(rbuf))), Own(First, r),
         UNCHANGED <<kind, alt_st, child, repo, ncrash, ask>>
  PROVE  Steady'
<1>1. /\ frames # << >> /\ Top.k = "read" /\ inflight[Top.g] # << >> /\ sock # 0 /\ Top.g = sock
      /\ inflight' = [inflight EXCEPT ![sock] = Tail(inflight[sock])] /\ rbuf' = SubSeq(rbuf, w + 1, Len(rbuf))
      /\ frames' = <<Frame("cb", 0, 0, 0)>> \o Tail(frames)
      /\ UNCHANGED <<kind, sock, retried, alt_st, req, resp, cpc, view, vec, nvec, objs, alt, ncrash, ask>>
      /\ done' = [done EXCEPT ![First] = Append(@, r)] /\ First \in 1 .. Len(ask) /\ First = inflight[sock][1]
  BY FirstAnswer DEF Steady, Reading, Callback, In, Swap, Reply, child, repo
<1>2. /\ Top \in FrameSet /\ Top = frames[1] /\ inflight \in Arrays /\ sock \in 1 .. Len(inflight)
  BY <1>1, TopFacts, EntryFacts DEF Types, ClientOK
<1>3. PICK G : G = inflight'
  OBVIOUS
<1>4. Popped(inflight, G, sock)
  BY <1>1, <1>2, <1>3, ArrayPop
<1>5. PICK f : f = Frame("cb", 0, 0, 0)
  OBVIOUS
<1>6. f \in FrameSet /\ f.k = "cb"
  <2>1. 0 \in Nat /\ 0 \in 0 .. MaxReq
    BY BoundAssumption
  <2> QED  BY <1>5, <2>1, FrameTypes DEF IsFrame
<1>7. Replaced(frames, frames', f) /\ Top' = f
  BY <1>1, <1>5, <1>6, SwapFacts
<1>8. Len(G) = Len(inflight) /\ \A h \in 1 .. Len(inflight) : h # sock => G[h] = inflight[h]
  BY <1>4 DEF Popped
<1>9. \A h \in 1 .. Len(inflight) : \A x : Array(G, h, x) => Array(inflight, h, x)
  BY <1>4 DEF Popped, Array
<1>10. Sockets'
  <2>1. ASSUME NEW h \in 1 .. Len(inflight), h # sock, G[h] # << >>, ~(ncrash > 0) PROVE RetryOf(frames', h)
    <3>1. RetryOf(frames, h)
      BY <1>8, <2>1 DEF Steady, Sockets
    <3>2. PICK i \in 1 .. Len(frames) : frames[i].k = "retry" /\ frames[i].old = h
      BY <3>1 DEF RetryOf
    <3>3. i # 1
      BY <1>1, <1>2, <3>2
    <3>4. i \in 1 .. Len(frames') /\ frames'[i] = frames[i]
      BY <1>7, <3>3 DEF Replaced
    <3> QED  BY <3>2, <3>4 DEF RetryOf
  <2>2. ~In("read")' /\ ~In("retry")'
    BY <1>6, <1>7 DEF In
  <2>3. sock' # 0 /\ (cpc' = "dead" => ncrash > 0)
    BY <1>1 DEF Steady, Sockets
  <2> QED  BY <1>1, <1>3, <1>8, <2>1, <2>2, <2>3 DEF Sockets
<1>11. Views'
  <2>1. ASSUME NEW x \in Requests, Again(frames', inflight', sock, retried, x) PROVE Again(frames, inflight, sock, retried, x)
    <3>1. CASE Array(inflight', sock, x) /\ x \in retried
      BY <1>2, <1>3, <1>9, <3>1 DEF Again
    <3>2. ASSUME NEW i \in 1 .. Len(frames'), Moving(frames'[i], inflight', sock, x)
          PROVE  \E j \in 1 .. Len(frames) : Moving(frames[j], inflight, sock, x)
      <4>1. i # 1
        BY <1>6, <1>7, <3>2 DEF Moving, Replaced
      <4>2. i \in 1 .. Len(frames) /\ frames'[i] = frames[i]
        BY <1>7, <4>1 DEF Replaced
      <4>3. frames[i].k = "retry" => frames[i].old \in 1 .. Len(inflight)
        BY <4>2 DEF Types, OnePlace, Orderly, Sound
      <4>4. Moving(frames[i], inflight, sock, x)
        BY <1>3, <1>9, <3>2, <4>2, <4>3 DEF Moving
      <4> QED  BY <4>2, <4>4
    <3> QED  BY <2>1, <3>1, <3>2 DEF Again
  <2> QED  BY <1>1, <2>1, ViewsKept DEF Steady
<1>12. Paired'
  <2>1. UNCHANGED child /\ Popped(inflight, inflight', sock) /\ UNCHANGED <<kind, sock, retried, ask, alt, alt_st>>
    BY <1>1, <1>3, <1>4
  <2> QED  BY <1>1, <2>1, CallbackPaired DEF Steady
<1>13. Owned'
  <2>1. PICK q \in 1 .. Len(ask) : q = First
    BY <1>1
  <2>2. q \in Requests /\ done[q] = << >>
    <3>1. Holds(inflight, q)
      BY <1>1, <1>4, <2>1 DEF Popped
    <3>2. q \in Requests
      BY <1>1, <1>4, <2>1 DEF Popped
    <3> QED  BY <3>1, <3>2 DEF Types, OnePlace, Orderly
  <2>3. done' = [done EXCEPT ![q] = Append(done[q], r)] /\ done = [x \in Requests |-> done[x]]
    BY <1>1, <2>1 DEF Types, ClientOK
  <2>4. done'[q] = << r >>
    <3>1. Append(<< >>, r) = << r >>
      OBVIOUS
    <3> QED  BY <2>2, <2>3, <3>1
  <2>5. \A x \in 1 .. Len(ask) : x # q => done'[x] = done[x]
    BY <2>3
  <2>6. Own(q, r)'
    BY <1>1, <2>1 DEF Own
  <2>7. \A x \in 1 .. Len(ask') : \/ x \in 1 .. Len(ask) /\ done'[x] = done[x]
                                  \/ \E s : done'[x] = << s >> /\ Own(x, s)'
    BY <1>1, <2>4, <2>5, <2>6
  <2>8. ncrash \in Nat /\ ncrash' = ncrash
    BY <1>1 DEF Types, RepoOK
  <2> QED  BY <1>1, <2>7, <2>8, OwnedKept DEF Steady
<1> QED  BY <1>10, <1>11, <1>12, <1>13 DEF Steady

\* cat_async_step finds the header of the first entry's object, with all of its bytes and the
\* newline.
LEMMA StepFoundSteady ==
  ASSUME Types, Steady, StepFound
  PROVE  Steady'
<1>1. PICK o \in Objs : o = rbuf[1][2]
  BY FoundFacts DEF StepFound, Types
<1>2. PICK w \in Nat : w = Size[o] + 2 /\ Size[o] \in Nat
  BY ObjAssumption
<1>3. /\ Reading /\ Found /\ Callback(<<"blob", o, SubSeq(rbuf, 2, Size[o] + 1)>>, SubSeq(rbuf, Size[o] + 3, Len(rbuf)))
      /\ UNCHANGED <<kind, alt_st, child, repo, ncrash, ask>>
  BY <1>1 DEF StepFound
<1>4. rbuf # << >> /\ w <= Len(rbuf) /\ rbuf[1][1] = "hdr" /\ w = Size[rbuf[1][2]] + 2
  BY <1>1, <1>2, <1>3, FoundFacts DEF Types
<1>5. o = ask[First].o /\ SubSeq(rbuf, 2, Size[o] + 1) = Data(o)
  BY <1>1, <1>3, FoundIsOwn DEF Steady
<1>6. Own(First, <<"blob", o, Data(o)>>)
  BY <1>1, <1>5 DEF Own
<1>7. Callback(<<"blob", o, Data(o)>>, SubSeq(rbuf, w + 1, Len(rbuf)))
  <2>1. Size[o] + 3 = w + 1
    BY <1>2
  <2> QED  BY <1>3, <1>5, <2>1
<1> QED  BY <1>3, <1>4, <1>6, <1>7, CallbackSteady

\* cat_async_step finds "missing" for the first entry, which it may not retry: the object was
\* not there when it was asked for.
LEMMA StepMissingSteady ==
  ASSUME Types, Steady, StepMissing
  PROVE  Steady'
<1>1. /\ Reading /\ NotFound /\ ~(MayRetry /\ alt # alt_st) /\ Callback(<<"missing", rbuf[1][2], << >>>>, Tail(rbuf))
      /\ UNCHANGED <<kind, alt_st, child, repo, ncrash, ask>>
  BY DEF StepMissing
<1>2. rbuf[1][2] = ask[First].o /\ First \in MayMiss /\ rbuf # << >> /\ rbuf[1][1] = "missing"
  BY <1>1, NotFoundIsOwn DEF Steady, NotFound
<1>3. ~ask[First].had
  <2>1. SUFFICES ASSUME ask[First].had PROVE FALSE
    OBVIOUS
  <2>2. First \in 1 .. Len(ask) /\ kind = "git" /\ First \notin retried /\ alt # alt_st
    BY <1>2, <2>1 DEF MayMiss
  <2>3. Entry(First) \in Objs
    BY <2>1, <2>2 DEF Types, RepoOK, Entry
  <2> QED  BY <1>1, <2>2, <2>3, ObjAssumption DEF MayRetry
<1>4. Own(First, <<"missing", rbuf[1][2], << >>>>)
  BY <1>2, <1>3 DEF Own
<1>5. 1 <= Len(rbuf) /\ Tail(rbuf) = SubSeq(rbuf, 1 + 1, Len(rbuf)) /\ 1 \in Nat
  <2>1. PICK b \in Seq(Bytes) : b = rbuf
    BY DEF Types, ChildOK
  <2>2. Len(b) \in Nat /\ Len(b) # 0
    BY <1>2, <2>1, EmptySeq
  <2>3. Tail(b) \in Seq(Bytes) /\ Len(Tail(b)) = Len(b) - 1 /\ \A i \in 1 .. Len(b) - 1 : Tail(b)[i] = b[i + 1]
    BY <1>2, <2>1, HeadTailProperties
  <2>4. PICK s : s = SubSeq(b, 2, Len(b))
    OBVIOUS
  <2>5. s \in Seq(Bytes) /\ Len(s) = Len(b) - 1 /\ \A i \in 1 .. Len(b) - 1 : s[i] = b[i + 1]
    <3>1. \A i \in 2 .. Len(b) : b[i] \in Bytes
      BY <2>2
    <3>2. s \in Seq(Bytes)
      BY <2>2, <2>4, <3>1
    <3>3. Len(s) = Len(b) - 1
      <4>1. PICK n \in Nat : n = Len(b) /\ n # 0
        BY <2>2
      <4>2. s = SubSeq(b, 2, n)
        BY <2>4, <4>1
      <4>3. Len(s) = n - 1
        BY <4>1, <4>2
      <4> QED  BY <4>1, <4>3
    <3>4. \A i \in 1 .. Len(b) - 1 : s[i] = b[i + 1]
      <4>1. ASSUME NEW w \in Nat, NEW n \in Nat PROVE \A i \in 1 .. n - w : SubSeq(b, w + 1, n)[i] = b[w + i]
        OBVIOUS
      <4>2. Len(b) - 1 = Len(b) - 1 /\ 1 + 1 = 2 /\ \A i \in 1 .. Len(b) - 1 : 1 + i = i + 1
        BY <2>2
      <4>3. \A i \in 1 .. Len(b) - 1 : SubSeq(b, 1 + 1, Len(b))[i] = b[1 + i]
        BY <2>2, <4>1
      <4> QED  BY <2>4, <4>2, <4>3
    <3> QED  BY <3>2, <3>3, <3>4
  <2>6. s = Tail(b)
    BY <2>2, <2>3, <2>5, SeqEqual
  <2> QED  BY <2>1, <2>2, <2>4, <2>6
<1>6. Callback(<<"missing", rbuf[1][2], << >>>>, SubSeq(rbuf, 1 + 1, Len(rbuf)))
  BY <1>1, <1>5
<1> QED  BY <1>1, <1>2, <1>4, <1>5, <1>6, CallbackSteady

-----------------------------------------------------------------------------
(* Steps that ask. *)

\* A request is sent, and its entry is pushed.
LEMMA WritePaired ==
  ASSUME Types, Paired, sock # 0, cpc # "dead", NEW q \in 1 .. Len(ask), Grown(inflight, inflight', sock, q),
         req' = Append(req, ask[q].o), UNCHANGED <<kind, sock, rbuf, alt_st, alt, resp, cpc, vec, nvec, ask>>,
         ~Holds(inflight, q), \A x \in retried' : x \in retried \/ x = q
  PROVE  Paired'
<1>1. PICK k, p : Pairs(Wire, inflight[sock], ask, MayMiss, cpc, req, k, p)
  BY DEF Paired
<1>2. PICK I : I = inflight[sock]
  OBVIOUS
<1>3. PICK J : J = inflight'[sock]
  OBVIOUS
<1>4. PICK N : N = MayMiss'
  OBVIOUS
<1>5. /\ Len(I) \in Nat /\ Len(J) = Len(I) + 1 /\ J[Len(I) + 1] = q /\ \A i \in 1 .. Len(I) : J[i] = I[i]
  BY <1>2, <1>3 DEF Grown
<1>6. sock \in 1 .. Len(inflight)
  BY DEF Types, ClientOK
<1>7. /\ k \in 0 .. Len(I) /\ k \in Nat /\ Framed(Wire, I, ask, MayMiss, k, p) /\ Len(Wire) = p[k]
      /\ Len(req) = Len(I) - k /\ \A i \in 1 .. Len(req) : req[i] = ask[I[k + i]].o
  BY <1>1, <1>2, <1>5 DEF Pairs
<1>8. Framed(Wire, J, ask, N, k, p)
  <2>1. ASSUME NEW j \in 1 .. k PROVE J[j] = I[j] /\ (I[j] \in MayMiss => I[j] \in N)
    <3>1. j \in 1 .. Len(I)
      BY <1>5, <1>7
    <3>2. I[j] # q
      BY <1>2, <1>6, <3>1 DEF Holds, Array
    <3>3. I[j] \in MayMiss => I[j] \in N
      BY <1>4, <3>2 DEF MayMiss
    <3> QED  BY <1>5, <3>1, <3>3
  <2> QED  BY <1>7, <2>1, FramedSame
<1>9. /\ Len(req') = Len(J) - k /\ \A i \in 1 .. Len(req') : req'[i] = ask[J[k + i]].o
  <2>1. PICK R \in Seq(Names \union {Garbage}) : R = req
    BY DEF Types, ChildOK
  <2>2. PICK y : y = ask[q].o
    OBVIOUS
  <2>3. /\ Len(R) \in Nat /\ Len(Append(R, y)) = Len(R) + 1 /\ Append(R, y)[Len(R) + 1] = y
        /\ \A i \in 1 .. Len(R) : Append(R, y)[i] = R[i]
    OBVIOUS
  <2>4. Len(R) = Len(I) - k /\ \A i \in 1 .. Len(R) : R[i] = ask[I[k + i]].o
    BY <1>7, <2>1
  <2>5. Len(Append(R, y)) = Len(J) - k
    BY <1>5, <1>7, <2>3, <2>4
  <2>6. ASSUME NEW i \in 1 .. Len(R) + 1 PROVE Append(R, y)[i] = ask[J[k + i]].o
    <3>1. CASE i = Len(R) + 1
      <4>1. k + i = Len(I) + 1
        BY <1>5, <1>7, <2>3, <2>4, <3>1
      <4> QED  BY <1>5, <2>2, <2>3, <3>1, <4>1
    <3>2. CASE i # Len(R) + 1
      <4>1. i \in 1 .. Len(R) /\ k + i \in 1 .. Len(I)
        <5>1. PICK n \in Nat : n = Len(R)
          BY <2>3
        <5>2. PICK m \in Nat : m = Len(I)
          BY <1>5
        <5>3. i \in 1 .. n /\ n = m - k
          BY <2>4, <3>2, <5>1, <5>2
        <5>4. k + i \in 1 .. m
          BY <1>7, <5>3
        <5> QED  BY <5>1, <5>2, <5>3, <5>4
      <4> QED  BY <1>5, <2>3, <2>4, <4>1
    <3> QED  BY <3>1, <3>2
  <2> QED  BY <2>1, <2>2, <2>3, <2>5, <2>6
<1>10. Wire' = Wire
  BY DEF Wire, Rest, Part
<1>11. k \in 0 .. Len(J)
  BY <1>5, <1>7
<1>12. Pairs(Wire', J, ask', N, cpc', req', k, p)
  BY <1>7, <1>8, <1>9, <1>10, <1>11 DEF Pairs
<1> QED  BY <1>3, <1>4, <1>12 DEF Paired

\* A request written to the child that answers the array it is pushed on stays paired.
LEMMA WriteSteady ==
  ASSUME Types, Steady, Write, astray' = {}
  PROVE  Steady'
<1>1. /\ frames # << >> /\ (Top.k = "put" \/ (Top.k = "retry" /\ Top.q # 0)) /\ sock # 0 /\ cpc # "dead"
      /\ inflight' = [inflight EXCEPT ![Top.g] = Append(@, Top.q)]
      /\ UNCHANGED <<kind, sock, rbuf, alt_st, alt, objs, resp, cpc, view, vec, nvec, ncrash, ask, done>>
  BY DEF Write, Writing, In, Broken, repo
<1>2. Top.g = sock /\ ~(Top.k = "retry" /\ Entry(Top.q) = NoObj)
  <2>1. PICK b : b = (Top.k = "retry" /\ Entry(Top.q) = NoObj)
    OBVIOUS
  <2>2. Stale = {} /\ {"barrier" : x \in {b} \ {FALSE}} = {}
    BY <2>1 DEF Write
  <2>3. Top.g \notin {Top.g} \ {sock}
    BY <2>2 DEF Stale
  <2>4. b = FALSE
    BY <2>2
  <2> QED  BY <2>1, <2>3, <2>4
<1>3. req' = Append(req, ask[Top.q].o)
  BY <1>2 DEF Write, Entry
<1>4. /\ Top.k = "put" => frames' = Tail(frames) /\ retried' = retried
      /\ Top.k = "retry" => /\ frames' = <<[Top EXCEPT !.q = 0, !.sent = FALSE]>> \o Tail(frames)
                            /\ \A x \in retried' : x \in retried \/ x = Top.q
  BY DEF Write, Swap
<1>5. /\ Top \in FrameSet /\ Sound(Top, 1, Len(inflight), Len(ask), retried) /\ frames \in Stacks /\ Top = frames[1]
      /\ inflight \in Arrays /\ 1 \in 1 .. Len(frames)
  BY <1>1, TopFacts DEF Types, ClientOK
<1>6. PICK t \in FrameSet : t = Top
  BY <1>5
<1>7. t.q # 0
  BY <1>1, <1>5, <1>6 DEF Sound
<1>8. PICK q \in Requests : q = t.q
  BY <1>1, <1>6, <1>7, TopFacts DEF Types
<1>9. q \in 1 .. Len(ask) /\ ~Holds(inflight, q)
  BY <1>1, <1>6, <1>7, <1>8, TopFacts, TopAlone DEF Types
<1>10. PICK G : G = inflight'
  OBVIOUS
<1>11. Grown(inflight, G, sock, q) /\ sock \in 1 .. Len(inflight)
  <2>1. sock \in 1 .. Len(inflight)
    BY <1>1, EntryFacts
  <2> QED  BY <1>1, <1>2, <1>5, <1>6, <1>8, <1>10, <2>1, ArrayPush
<1>12. /\ Len(G) = Len(inflight) /\ G[sock] # << >> /\ (\A h \in 1 .. Len(inflight) : h # sock => G[h] = inflight[h])
       /\ \A x : Array(G, sock, x) => Array(inflight, sock, x) \/ x = q
  BY <1>11 DEF Grown
<1>13. Paired'
  <2>1. Grown(inflight, inflight', sock, q) /\ req' = Append(req, ask[q].o) /\ \A x \in retried' : x \in retried \/ x = q
    BY <1>1, <1>3, <1>4, <1>6, <1>8, <1>10, <1>11
  <2> QED  BY <1>1, <1>9, <2>1, WritePaired DEF Steady
<1>14. Owned'
  BY <1>1, OwnedSame DEF Steady
\* Of a frame the step leaves, what it will ask is in arrays that the step leaves.
<1>15. ASSUME NEW i \in 1 .. Len(frames), NEW x, Moving(frames[i], G, sock, x) PROVE Moving(frames[i], inflight, sock, x)
  <2>1. frames[i].k = "retry" /\ frames[i].g = sock
    BY <1>15 DEF Moving
  <2>2. frames[i].old \in 1 .. Len(inflight) /\ frames[i].old # sock
    BY <2>1 DEF Types, OnePlace, Orderly, Sound
  <2>3. G[frames[i].old] = inflight[frames[i].old]
    BY <1>12, <2>2
  <2> QED  BY <1>15, <2>3 DEF Moving, Array
<1>16. CASE t.k = "put"
  <2>1. frames' = Tail(frames) /\ retried' = retried /\ q \notin retried
    BY <1>4, <1>5, <1>6, <1>8, <1>16 DEF Sound
  <2>2. Below(frames, frames', 0, 1)
    BY <1>1, <1>5, <2>1, BelowTail
  <2>3. \A g : RetryOf(frames, g) => RetryOf(frames', g)
    <3>1. SUFFICES ASSUME NEW g, RetryOf(frames, g) PROVE RetryOf(frames', g)
      OBVIOUS
    <3>2. \A i \in 1 .. Len(frames) : i <= 0 + 1 => ~(frames[i].k = "retry" /\ frames[i].old = g)
      <4>1. \A i \in 1 .. Len(frames) : i <= 0 + 1 => i = 1
        OBVIOUS
      <4> QED  BY <1>5, <1>6, <1>16, <4>1
    <3> QED  BY <2>2, <3>1, <3>2, RetryKept
  <2>4. frames' # << >> => Top'.k # "read" /\ ~(Top'.k = "retry" /\ Top'.q = 0)
    BY <2>2, UnderTop DEF Types, OnePlace, Top
  <2>5. Sockets'
    BY <1>1, <1>10, <1>12, <2>3, <2>4 DEF Steady, Sockets, In
  <2>6. ASSUME NEW x \in Requests, Again(frames', inflight', sock, retried', x) PROVE Again(frames, inflight, sock, retried, x)
    <3>1. CASE Array(G, sock, x) /\ x \in retried
      BY <1>12, <2>1, <3>1 DEF Again
    <3>2. ASSUME NEW i \in 1 .. Len(frames'), Moving(frames'[i], G, sock, x)
          PROVE  \E j \in 1 .. Len(frames) : Moving(frames[j], inflight, sock, x)
      <4>1. ~(i <= 0) /\ Kept(frames, frames', 0, 1)
        BY <2>2, BelowFacts
      <4>2. PICK j \in 1 .. Len(frames) : frames'[i] = frames[j]
        BY <4>1 DEF Kept
      <4> QED  BY <1>15, <3>2, <4>2
    <3> QED  BY <1>10, <2>1, <2>6, <3>1, <3>2 DEF Again
  <2>7. Views'
    BY <1>1, <2>6, ViewsKept DEF Steady
  <2> QED  BY <1>13, <1>14, <2>5, <2>7 DEF Steady
<1>17. CASE t.k = "retry"
  <2>1. PICK f : f = [t EXCEPT !.q = 0, !.sent = FALSE]
    OBVIOUS
  <2>2. f \in FrameSet /\ f.k = "retry" /\ f.q = 0 /\ f.g = sock /\ f.old = t.old
    <3>1. 0 \in 0 .. MaxReq
      BY FieldTypes
    <3>2. IsFrame([t EXCEPT !.q = 0, !.sent = FALSE], t.k, 0, t.g, t.old)
      BY <3>1, CallType
    <3> QED  BY <1>2, <1>6, <1>17, <2>1, <3>2 DEF IsFrame
  <2>3. Replaced(frames, frames', f) /\ Top' = f
    <3>1. frames' = <<f>> \o Tail(frames)
      BY <1>4, <1>6, <1>17, <2>1
    <3> QED  BY <1>1, <2>2, <3>1, SwapFacts
  <2>4. \A g : RetryOf(frames, g) => RetryOf(frames', g)
    <3>1. SUFFICES ASSUME NEW g, NEW i \in 1 .. Len(frames), frames[i].k = "retry", frames[i].old = g PROVE RetryOf(frames', g)
      BY DEF RetryOf
    <3>2. i \in 1 .. Len(frames') /\ frames'[i].k = "retry" /\ frames'[i].old = g
      BY <1>5, <1>6, <2>2, <2>3, <3>1 DEF Replaced
    <3> QED  BY <3>2 DEF RetryOf
  <2>5. Sockets'
    <3>1. ~In("read")' /\ Top'.g = sock
      BY <2>2, <2>3 DEF In
    <3> QED  BY <1>1, <1>10, <1>12, <2>4, <3>1 DEF Steady, Sockets
  <2>6. ASSUME NEW x \in Requests, Again(frames', inflight', sock, retried', x) PROVE Again(frames, inflight, sock, retried, x)
    <3>1. Moving(frames[1], inflight, sock, q)
      BY <1>2, <1>5, <1>6, <1>8, <1>17 DEF Moving
    <3>2. CASE Array(G, sock, x) /\ x \in retried'
      <4>1. CASE x = q
        BY <1>5, <3>1, <4>1 DEF Again
      <4>2. CASE x # q
        <5>1. Array(inflight, sock, x) /\ x \in retried
          BY <1>4, <1>6, <1>8, <1>12, <1>17, <3>2, <4>2
        <5> QED  BY <5>1 DEF Again
      <4> QED  BY <4>1, <4>2
    <3>3. ASSUME NEW i \in 1 .. Len(frames'), Moving(frames'[i], G, sock, x)
          PROVE  \E j \in 1 .. Len(frames) : Moving(frames[j], inflight, sock, x)
      <4>1. CASE i = 1
        <5>1. x # 0
          BY BoundAssumption DEF Requests
        <5>2. Array(G, t.old, x)
          BY <2>2, <2>3, <3>3, <4>1, <5>1 DEF Moving, Replaced
        <5>3. Moving(frames[1], G, sock, x)
          BY <1>2, <1>5, <1>6, <1>17, <5>2 DEF Moving
        <5> QED  BY <1>5, <1>15, <5>3
      <4>2. CASE i # 1
        <5>1. i \in 1 .. Len(frames) /\ frames'[i] = frames[i]
          BY <2>3, <4>2 DEF Replaced
        <5> QED  BY <1>15, <3>3, <5>1
      <4> QED  BY <4>1, <4>2
    <3> QED  BY <1>10, <2>6, <3>2, <3>3 DEF Again
  <2>7. Views'
    BY <1>1, <2>6, ViewsKept DEF Steady
  <2> QED  BY <1>13, <1>14, <2>5, <2>7 DEF Steady
<1> QED  BY <1>1, <1>6, <1>16, <1>17

\* A child that just started was asked nothing.
Fresh == cpc' = "read" /\ view' = objs /\ sock' = Len(inflight) + 1 /\ sock' # 0 /\ Extended(inflight, inflight') /\ Paired'

\* A new child has nothing on the wire and sees what is in the repository.
LEMMA SpawnFresh ==
  ASSUME Types, Spawn
  PROVE  Fresh
<1>1. inflight \in Arrays /\ Len(inflight) \in Nat /\ inflight' = Append(inflight, << >>) /\ sock' = Len(inflight) + 1 /\ Started(objs)
  BY DEF Types, ClientOK, Arrays, Spawn
<1>2. Extended(inflight, inflight')
  BY <1>1, ArrayNew
<1>3. inflight'[sock'] = << >>
  BY <1>1, <1>2 DEF Extended
<1>4. Wire' = << >> /\ req' = << >> /\ cpc' = "read" /\ view' = objs
  BY <1>1, StartedChild
<1>5. \E k, p : Pairs(Wire', inflight'[sock'], ask', MayMiss', cpc', req', k, p)
  <2>1. PICK A : A = ask'
    OBVIOUS
  <2>2. PICK M : M = MayMiss'
    OBVIOUS
  <2>3. PICK p \in [0 .. 0 -> Nat] : Framed(<< >>, << >>, A, M, 0, p) /\ p[0] = 0
    BY FramedNone
  <2>4. Pairs(<< >>, << >>, A, M, "read", << >>, 0, p)
    BY <2>3 DEF Pairs
  <2> QED  BY <1>3, <1>4, <2>1, <2>2, <2>4
<1>6. Paired'
  BY <1>5 DEF Paired
<1>7. sock' # 0
  BY <1>1
<1> QED  BY <1>1, <1>2, <1>4, <1>6, <1>7 DEF Fresh

\* The new child is asked again for what the old one is not to answer; it can see it.
LEMMA RetrySteady ==
  ASSUME Types, Steady, cat_async_retry
  PROVE  Steady'
<1>1. /\ frames # << >> /\ Top.k = "read" /\ inflight[Top.g] # << >> /\ sock # 0 /\ kind = "git" /\ alt_st' = alt /\ Spawn
      /\ frames' = <<Frame("retry", 0, Len(inflight) + 1, Top.g)>> \o Tail(frames)
      /\ UNCHANGED <<kind, retried, objs, alt, ncrash, ask, done>>
  BY DEF cat_async_retry, Reading, In, Swap, repo, MayRetry
<1>2. /\ Top = frames[1] /\ sock \in 1 .. Len(inflight) /\ Len(inflight) \in Nat /\ Top.g = sock
  BY <1>1, TopFacts, EntryFacts DEF Types, ClientOK, Steady, Sockets, In
<1>3. PICK n \in Nat : n = Len(inflight) + 1
  BY <1>2
<1>4. PICK f : f = Frame("retry", 0, n, sock)
  OBVIOUS
<1>5. f \in FrameSet /\ f.k = "retry" /\ f.q = 0 /\ f.g = n /\ f.old = sock
  <2>1. 0 \in 0 .. MaxReq /\ sock \in Nat
    BY <1>2, BoundAssumption
  <2> QED  BY <1>4, <2>1, FrameTypes DEF IsFrame
<1>6. Replaced(frames, frames', f) /\ Top' = f
  BY <1>1, <1>2, <1>3, <1>4, <1>5, SwapFacts
<1>7. cpc' = "read" /\ view' = objs /\ sock' = n /\ sock' # 0 /\ Extended(inflight, inflight') /\ Paired'
  BY <1>1, <1>3, SpawnFresh DEF Fresh
<1>8. PICK G : G = inflight'
  OBVIOUS
<1>9. Len(G) = n /\ G[n] = << >> /\ \A g \in 1 .. Len(inflight) : G[g] = inflight[g]
  BY <1>3, <1>7, <1>8 DEF Extended
<1>10. Sockets'
  <2>1. ASSUME NEW g \in 1 .. Len(G), g # n, G[g] # << >>, ~(ncrash > 0) PROVE RetryOf(frames', g)
    <3>1. g \in 1 .. Len(inflight) /\ inflight[g] # << >>
      BY <1>2, <1>3, <1>9, <2>1
    <3>2. CASE g = sock
      BY <1>5, <1>6, <3>2 DEF Replaced, RetryOf
    <3>3. CASE g # sock
      <4>1. RetryOf(frames, g)
        BY <2>1, <3>1, <3>3 DEF Steady, Sockets
      <4>2. PICK i \in 1 .. Len(frames) : frames[i].k = "retry" /\ frames[i].old = g
        BY <4>1 DEF RetryOf
      <4>3. i # 1
        BY <1>1, <1>2, <4>2
      <4>4. i \in 1 .. Len(frames') /\ frames'[i] = frames[i]
        BY <1>6, <4>3 DEF Replaced
      <4> QED  BY <4>2, <4>4 DEF RetryOf
    <3> QED  BY <3>2, <3>3
  <2>2. ~In("read")'
    BY <1>5, <1>6 DEF In
  <2>3. Top'.g = sock' /\ G[Top'.old] # << >>
    BY <1>1, <1>2, <1>5, <1>6, <1>7, <1>9
  <2>4. ncrash' = ncrash
    BY <1>1
  <2> QED  BY <1>7, <1>8, <2>1, <2>2, <2>3, <2>4 DEF Sockets
<1>11. Views'
  <2>1. ASSUME NEW x \in Requests, Again(frames', G, n, retried, x) PROVE x \in 1 .. Len(ask)
    <3>1. ~Array(G, n, x)
      BY <1>9 DEF Array
    <3>2. PICK i \in 1 .. Len(frames') : Moving(frames'[i], G, n, x)
      BY <2>1, <3>1 DEF Again
    <3>3. i = 1
      <4>1. ASSUME i # 1 PROVE FALSE
        <5>1. i \in 1 .. Len(frames) /\ frames'[i] = frames[i]
          BY <1>6, <4>1 DEF Replaced
        <5>2. frames[i].g \in 1 .. Len(inflight)
          BY <3>2, <5>1 DEF Types, OnePlace, Orderly, Sound, Moving
        <5> QED  BY <1>2, <1>3, <3>2, <5>1, <5>2 DEF Moving
      <4> QED  BY <4>1
    <3>4. x # 0
      BY BoundAssumption DEF Requests
    <3>5. Array(G, sock, x)
      BY <1>5, <1>6, <3>2, <3>3, <3>4 DEF Moving, Replaced
    <3>6. Array(inflight, sock, x)
      BY <1>2, <1>9, <3>5 DEF Array
    <3>7. \A j \in 1 .. Len(inflight[sock]) : inflight[sock][j] \in 1 .. Len(ask)
      BY <1>1, EntryFacts
    <3> QED  BY <3>6, <3>7 DEF Array
  <2>2. \A x \in Requests : Again(frames', G, n, retried, x) => Visible(ask, objs, x)
    BY <2>1 DEF Visible, Types, RepoOK
  <2> QED  BY <1>1, <1>7, <1>8, <2>2 DEF Views
<1>12. Owned'
  BY <1>1, OwnedSame DEF Steady
<1> QED  BY <1>7, <1>10, <1>11, <1>12 DEF Steady

\* A frame above the others that neither reads nor asks again.
LEMMA PutFrames ==
  ASSUME Types, NEW q \in Requests, NEW g \in Nat, frames' = <<Frame("put", q, g, 0)>> \o frames
  PROVE  /\ ~In("read")' /\ ~In("retry")'
         /\ \A h : RetryOf(frames, h) => RetryOf(frames', h)
         /\ \A F, s, R, x : Again(frames', F, s, R, x) => Again(frames, F, s, R, x)
<1>1. PICK f : f = Frame("put", q, g, 0)
  OBVIOUS
<1>2. f \in FrameSet /\ f.k = "put"
  <2>1. 0 \in Nat /\ q \in 0 .. MaxReq
    BY BoundAssumption DEF Requests
  <2> QED  BY <1>1, <2>1, FrameTypes DEF IsFrame
<1>3. Below(frames, frames', 1, -1) /\ frames'[1] = f
  <2>1. frames \in Stacks
    BY DEF Types, ClientOK
  <2>2. Pushed(frames, <<f>> \o frames, f)
    BY <1>2, <2>1, BelowPush
  <2> QED  BY <1>1, <2>2 DEF Pushed
<1>4. Top' = f
  <2>1. frames' \in Stacks /\ Len(frames') = Len(frames) - (-1) /\ Len(frames) \in Nat
    BY <1>3 DEF Below, Stacks
  <2>2. frames' # << >>
    BY <2>1
  <2> QED  BY <1>3, <2>1, <2>2, TopNext
<1>5. \A i \in 1 .. Len(frames') : i <= 1 => i = 1
  OBVIOUS
<1>6. \A i \in 1 .. Len(frames) : ~(i <= 1 + (-1))
  OBVIOUS
<1>7. 1 \in Nat /\ -1 \in Int
  OBVIOUS
<1>8. ASSUME NEW h, RetryOf(frames, h) PROVE RetryOf(frames', h)
  BY <1>3, <1>6, <1>7, <1>8, RetryKept
<1>9. ASSUME NEW F, NEW s, NEW R, NEW x, Again(frames', F, s, R, x) PROVE Again(frames, F, s, R, x)
  <2>1. \A i \in 1 .. Len(frames') : i <= 1 => ~Moving(frames'[i], F, s, x)
    BY <1>2, <1>3, <1>5 DEF Moving
  <2> QED  BY <1>3, <1>7, <1>9, <2>1, AgainKept, ZenonT(60)
<1> QED  BY <1>2, <1>4, <1>8, <1>9 DEF In

\* The new request has no answer yet, unless it is told that its object is missing, and rightly.
LEMMA NewOwned ==
  ASSUME Types, Owned, NEW o \in Names, Len(ask) + 1 <= MaxReq, ask' = Append(ask, [o |-> o, had |-> o \in objs]),
         UNCHANGED <<retried, ncrash>>,
         \/ done' = done
         \/ o = NoObj /\ done' = [done EXCEPT ![Len(ask) + 1] = Append(@, <<"missing", NoObj, << >>>>)]
  PROVE  Owned'
<1>1. PICK n \in Requests : n = Len(ask) + 1
  BY NewRequest DEF Types
<1>2. /\ Len(ask') = n /\ Len(ask) \in Nat /\ done[n] = << >> /\ ask'[n] = [o |-> o, had |-> o \in objs]
      /\ \A i \in 1 .. Len(ask) : ask'[i] = ask[i]
  BY <1>1, NewRequest DEF Types
<1>3. \A x \in 1 .. Len(ask') : (x \in 1 .. Len(ask) /\ x # n) \/ x = n
  BY <1>1, <1>2
<1>4. ncrash \in Nat /\ ncrash' = ncrash
  BY DEF Types, RepoOK
<1>5. CASE done' = done
  <2>1. \A x \in 1 .. Len(ask') : (x \in 1 .. Len(ask) /\ done'[x] = done[x]) \/ done'[x] = << >>
    BY <1>2, <1>3, <1>5
  <2> QED  BY <1>2, <1>4, <2>1, OwnedKept
<1>6. CASE o = NoObj /\ done' = [done EXCEPT ![Len(ask) + 1] = Append(@, <<"missing", NoObj, << >>>>)]
  <2>1. PICK r : r = <<"missing", NoObj, << >>>>
    OBVIOUS
  <2>2. done' = [done EXCEPT ![n] = Append(done[n], r)] /\ done = [q \in Requests |-> done[q]]
    BY <1>1, <1>6, <2>1 DEF Types, ClientOK
  <2>3. done'[n] = << r >> /\ \A x \in 1 .. Len(ask) : x # n => done'[x] = done[x]
    <3>1. Append(<< >>, r) = << r >>
      OBVIOUS
    <3> QED  BY <1>2, <2>2, <3>1
  <2>4. NoObj \notin objs
    BY ObjAssumption DEF Types, RepoOK
  <2>5. ask'[n].o = NoObj /\ ~ask'[n].had
    <3>1. [o |-> o, had |-> o \in objs].had = (o \in objs) /\ [o |-> o, had |-> o \in objs].o = o
      OBVIOUS
    <3>2. ask'[n].had = (o \in objs) /\ ask'[n].o = o
      BY <1>2, <3>1, Zenon
    <3>3. o = NoObj
      BY <1>6
    <3> QED  BY <2>4, <3>2, <3>3, Zenon
  <2>6. Own(n, r)'
    BY <2>1, <2>5 DEF Own
  <2>7. \A x \in 1 .. Len(ask') : \/ x \in 1 .. Len(ask) /\ done'[x] = done[x]
                                  \/ \E s : done'[x] = << s >> /\ Own(x, s)'
    BY <1>3, <2>3, <2>6
  <2> QED  BY <1>2, <1>4, <2>7, OwnedKept
<1> QED  BY <1>5, <1>6

\* A new request is in no array yet; with a new child nothing is on the wire.
LEMMA CallSteady ==
  ASSUME Types, Steady, NEW o \in Names, Call(o), astray' = {}
  PROVE  Steady'
<1>1. /\ Len(ask) + 1 <= MaxReq /\ ask' = Append(ask, [o |-> o, had |-> o \in objs])
      /\ UNCHANGED <<kind, retried, objs, alt, ncrash>>
  BY DEF Call, repo
<1>2. \/ /\ sock # 0 /\ frames' = <<Frame("put", Len(ask) + 1, sock, 0)>> \o frames
         /\ UNCHANGED <<sock, inflight, rbuf, alt_st, req, resp, cpc, view, vec, nvec, done>>
      \/ /\ sock = 0 /\ Spawn /\ frames' = <<Frame("put", Len(ask) + 1, Len(inflight) + 1, 0)>> \o frames
         /\ alt_st' = alt /\ UNCHANGED done
      \/ /\ sock = 0 /\ o = NoObj /\ done' = [done EXCEPT ![Len(ask) + 1] = Append(@, <<"missing", NoObj, << >>>>)]
         /\ UNCHANGED <<frames, sock, inflight, rbuf, alt_st, req, resp, cpc, view, vec, nvec>>
  BY DEF Call, Reply, client, child
<1>3. PICK q \in Requests : q = Len(ask) + 1
  BY <1>1, NewRequest DEF Types
<1>4. Len(ask) \in Nat /\ Len(ask') \in Nat /\ Len(ask) <= Len(ask') /\ \A i \in 1 .. Len(ask) : ask'[i] = ask[i]
  <2>1. Len(ask) \in Nat /\ Len(ask') = Len(ask) + 1
    BY <1>1, NewRequest DEF Types
  <2> QED  BY <1>1, <2>1, NewRequest DEF Types
<1>5. Owned'
  BY <1>1, <1>2, NewOwned DEF Steady
<1>6. Len(inflight) \in Nat /\ sock \in 0 .. Len(inflight)
  BY DEF Types, ClientOK, Arrays
<1>7. CASE /\ sock # 0 /\ frames' = <<Frame("put", Len(ask) + 1, sock, 0)>> \o frames
           /\ UNCHANGED <<sock, inflight, rbuf, alt_st, req, resp, cpc, view, vec, nvec, done>>
  <2>1. sock \in Nat
    BY <1>6
  <2>2. /\ ~In("read")' /\ ~In("retry")'
        /\ \A h : RetryOf(frames, h) => RetryOf(frames', h)
        /\ \A F, s, R, x : Again(frames', F, s, R, x) => Again(frames, F, s, R, x)
    BY <1>3, <1>7, <2>1, PutFrames
  <2>3. Sockets'
    BY <1>1, <1>7, <2>2 DEF Steady, Sockets
  <2>4. Views'
    BY <1>1, <1>4, <1>7, <2>2, ViewsKept DEF Steady
  <2>5. Paired'
    <3>1. Wire' = Wire
      BY <1>7 DEF Wire, Rest, Part
    <3>2. \A x \in MayMiss : x \in MayMiss'
      BY <1>1, <1>4, <1>7, MayMissKept
    <3> QED  BY <1>1, <1>4, <1>7, <3>1, <3>2, PairedKept DEF Steady
  <2> QED  BY <1>5, <2>3, <2>4, <2>5 DEF Steady
<1>8. CASE /\ sock = 0 /\ Spawn /\ frames' = <<Frame("put", Len(ask) + 1, Len(inflight) + 1, 0)>> \o frames
           /\ alt_st' = alt /\ UNCHANGED done
  <2>1. PICK n \in Nat : n = Len(inflight) + 1
    BY <1>6
  <2>2. /\ ~In("read")' /\ ~In("retry")'
        /\ \A h : RetryOf(frames, h) => RetryOf(frames', h)
        /\ \A F, s, R, x : Again(frames', F, s, R, x) => Again(frames, F, s, R, x)
    BY <1>3, <1>8, <2>1, PutFrames
  <2>3. cpc' = "read" /\ view' = objs /\ sock' = n /\ sock' # 0 /\ Extended(inflight, inflight') /\ Paired'
    BY <1>8, <2>1, SpawnFresh DEF Fresh
  <2>4. PICK G : G = inflight'
    OBVIOUS
  <2>5. Len(G) = n /\ G[n] = << >> /\ \A g \in 1 .. Len(inflight) : G[g] = inflight[g]
    BY <2>1, <2>3, <2>4 DEF Extended
  <2>6. Sockets'
    <3>1. ASSUME NEW g \in 1 .. Len(G), g # n, G[g] # << >>, ~(ncrash > 0) PROVE RetryOf(frames', g)
      <4>1. g \in 1 .. Len(inflight) /\ g # 0 /\ inflight[g] # << >>
        BY <1>6, <2>1, <2>5, <3>1
      <4>2. RetryOf(frames, g)
        BY <1>8, <3>1, <4>1 DEF Steady, Sockets
      <4> QED  BY <2>2, <4>2
    <3> QED  BY <1>1, <2>2, <2>3, <2>4, <3>1 DEF Sockets
  <2>7. Views'
    <3>1. ASSUME NEW x, Again(frames', G, n, retried, x) PROVE FALSE
      <4>1. ~Array(G, n, x)
        BY <2>5 DEF Array
      <4>2. PICK i \in 1 .. Len(frames) : Moving(frames[i], G, n, x)
        BY <2>2, <3>1, <4>1 DEF Again
      <4>3. frames[i].g = n /\ frames[i].g \in 1 .. Len(inflight)
        BY <4>2 DEF Types, OnePlace, Orderly, Sound, Moving
      <4> QED  BY <1>6, <2>1, <4>3
    <3> QED  BY <1>1, <2>3, <2>4, <3>1 DEF Views
  <2> QED  BY <1>5, <2>3, <2>6, <2>7 DEF Steady
<1>9. CASE /\ sock = 0 /\ o = NoObj /\ done' = [done EXCEPT ![Len(ask) + 1] = Append(@, <<"missing", NoObj, << >>>>)]
           /\ UNCHANGED <<frames, sock, inflight, rbuf, alt_st, req, resp, cpc, view, vec, nvec>>
  <2>1. Sockets'
    BY <1>1, <1>9, SocketsSame DEF Steady
  <2>2. Views'
    BY <1>1, <1>4, <1>9, ViewsKept DEF Steady
  <2>3. Paired'
    BY <1>9 DEF Paired
  <2> QED  BY <1>5, <2>1, <2>2, <2>3 DEF Steady
<1> QED  BY <1>2, <1>7, <1>8, <1>9

-----------------------------------------------------------------------------
(* The inductive invariant, and what it is for. *)

IInv == Types /\ (astray = {} => Steady)

\* Nothing is asked, so nothing is out of place.
LEMMA InitIInv ==
  ASSUME Init
  PROVE  IInv
<1>1. /\ kind \in {"git", "gcf2"} /\ frames = << >> /\ sock = 0 /\ inflight = << >> /\ retried = {} /\ rbuf = << >> /\ alt_st = 0
      /\ req = << >> /\ resp = << >> /\ cpc = "dead" /\ view = {} /\ vec = Missing(NoObj) /\ nvec = 0
      /\ objs \in SUBSET Objs /\ alt = 0 /\ ncrash = 0 /\ ask = << >> /\ done = [q \in Requests |-> << >>]
  BY DEF Init, Requests
<1>2. ChildOK
  <2>1. Missing(NoObj) \in [1 .. 3 -> Seq(Bytes)]
    BY MissingType DEF Names
  <2>2. << >> \in Seq(Bytes) /\ << >> \in Seq(Names \union {Garbage}) /\ 0 \in 0 .. 3
    OBVIOUS
  <2> QED  BY <1>1, <2>1, <2>2 DEF ChildOK
<1>3. 1 .. Len(<< >>) = {} /\ Len(<< >>) = 0 /\ 0 \in 0 .. 0 /\ 0 \in Nat
  OBVIOUS
<1>4. RepoOK
  <2>1. 1 .. Len(ask) = {} /\ alt \in Nat /\ alt_st \in 0 .. alt /\ ncrash \in Nat /\ view \in SUBSET objs
    BY <1>1, <1>3
  <2> QED  BY <1>1, <2>1 DEF RepoOK
<1>5. ClientOK
  <2>1. << >> \in Stacks /\ << >> \in Arrays /\ << >> \in Seq(Asked) /\ {} \in SUBSET (1 .. Len(<< >>))
    BY DEF Stacks, Arrays
  <2>2. 0 <= MaxReq
    BY BoundAssumption
  <2>3. done = [q \in Requests |-> done[q]]
    BY <1>1
  <2> QED  BY <1>1, <1>3, <2>1, <2>2, <2>3 DEF ClientOK
<1>6. OnePlace
  <2>1. \A q : ~Calls(frames, q) /\ ~Holds(inflight, q)
    BY <1>1, <1>3 DEF Calls, Holds
  <2>2. OneCall(frames) /\ Distinct(inflight) /\ \A i \in 1 .. Len(frames) : Sound(frames[i], i, Len(inflight), Len(ask), retried)
    BY <1>1, <1>3 DEF OneCall, Distinct
  <2>3. \A q \in Requests : done[q] = << >>
    BY <1>1
  <2> QED  BY <2>1, <2>2, <2>3 DEF OnePlace, Orderly
<1>7. Steady
  <2>1. 1 .. Len(inflight) = {} /\ 1 .. Len(ask) = {}
    BY <1>1, <1>3
  <2>2. Sockets
    BY <1>1, <2>1 DEF Sockets, In
  <2>3. Views /\ Paired /\ Owned
    BY <1>1, <2>1 DEF Views, Paired, Owned
  <2> QED  BY <2>2, <2>3 DEF Steady
<1> QED  BY <1>2, <1>4, <1>5, <1>6, <1>7 DEF IInv, Types

\* The inductive step: one case for each action.
LEMMA StepIInv ==
  ASSUME IInv, [Next]_vars
  PROVE  IInv'
<1>1. Types
  BY DEF IInv
<1>2. Types'
  BY <1>1, PlacesStep, ChildStep, RepoStep DEF Types
<1>3. ASSUME astray' = {} PROVE Steady'
  <2>1. Steady
    BY <1>3, AstrayStep DEF IInv
  <2>2. ASSUME NEW o \in Objs \union {NoObj}, Call(o) PROVE Steady'
    BY <1>1, <1>3, <2>1, <2>2, CallSteady DEF Names
  <2>3. CASE ReadStep
    BY <1>1, <1>3, <2>1, <2>3, ReadStepSteady
  <2>4. CASE Write
    BY <1>1, <1>3, <2>1, <2>4, WriteSteady
  <2>5. CASE WriteFails \/ StepFails
    BY <1>1, <2>1, <2>5, FailSteady
  <2>6. CASE Fill
    BY <1>1, <2>1, <2>6, FillSteady
  <2>7. CASE StepFound
    BY <1>1, <2>1, <2>7, StepFoundSteady
  <2>8. CASE StepMissing
    BY <1>1, <2>1, <2>8, StepMissingSteady
  <2>9. CASE StepEmpty
    BY <2>1, <2>9, NeverEmpty DEF Steady
  <2>10. CASE cat_async_retry
    BY <1>1, <2>1, <2>10, RetrySteady
  <2>11. CASE RetryNext
    BY <1>1, <2>1, <2>11, RetryNextSteady
  <2>12. CASE Return
    BY <1>1, <2>1, <2>12, ReturnSteady
  <2>13. CASE event_step
    BY <1>1, <2>1, <2>13, EventStepSteady
  <2>14. ASSUME NEW g \in DOMAIN inflight, gcf_drain(g) PROVE Steady'
    BY <1>1, <2>1, <2>14, DrainSteady
  <2>15. CASE cleanup
    BY <1>1, <2>1, <2>15, CleanupSteady
  <2>16. CASE gcf2_loop
    BY <1>1, <2>1, <2>16, LoopSteady
  <2>17. CASE cat_oid
    BY <1>1, <2>1, <2>17, CatOidSteady
  <2>18. CASE Crash
    BY <1>1, <2>1, <2>18, CrashSteady
  <2>19. ASSUME NEW s, AddAlternate(s) PROVE Steady'
    BY <1>1, <2>1, <2>19, AddAlternateSteady
  <2>20. CASE UNCHANGED vars
    BY <1>1, <2>1, <2>20, IdleSteady DEF vars, client, child, repo
  <2> QED  BY <2>2, <2>3, <2>4, <2>5, <2>6, <2>7, <2>8, <2>9, <2>10, <2>11, <2>12, <2>13, <2>14, <2>15, <2>16, <2>17, <2>18, <2>19, <2>20
           DEF Next, Step, Drain, Child
<1> QED  BY <1>2, <1>3 DEF IInv

\* Steady says of every answer what AnswerIsOwn says.
LEMMA OwnedAllOwn ==
  ASSUME Types, Owned
  PROVE  AllOwn
<1>1. ASSUME NEW q \in DOMAIN ask PROVE Len(done[q]) <= 1 /\ \A r \in Range(done[q]) : Own(q, r)
  <2>1. q \in 1 .. Len(ask)
    <3>1. ask \in Seq(Asked)
      BY DEF Types, ClientOK
    <3> QED  BY <3>1
  <2>2. CASE done[q] = << >>
    <3>1. Len(<< >>) <= 1 /\ DOMAIN << >> = {}
      OBVIOUS
    <3> QED  BY <2>2, <3>1 DEF Range
  <2>3. ASSUME NEW r, done[q] = << r >>, Own(q, r) PROVE Len(done[q]) <= 1 /\ \A x \in Range(done[q]) : Own(q, x)
    <3>1. Len(<< r >>) <= 1 /\ DOMAIN << r >> = {1} /\ << r >>[1] = r
      OBVIOUS
    <3> QED  BY <2>3, <3>1 DEF Range
  <2> QED  BY <2>1, <2>2, <2>3 DEF Owned
<1> QED  BY <1>1 DEF AllOwn

(* Every reachable state has its requests in one place, each with at most one answer, and as long *)
(* as no step broke the pairing, what is on the wire answers the entries of {inflight} in order.   *)
THEOREM SteadyHolds == Spec => []IInv
<1>1. Init => IInv
  BY InitIInv
<1>2. IInv /\ [Next]_vars => IInv'
  BY StepIInv
<1> QED  BY <1>1, <1>2, PTL DEF Spec

(* A callback of cat_async runs at most once, with the object that was asked for, whole, or with  *)
(* "missing" if it did not exist then: for all objects and sizes, limits of the socket and of     *)
(* {inflight}, depths of callbacks in callbacks, new alternates and children that die.            *)
THEOREM AnswerIsOwnHolds == Spec => []AnswerIsOwn
<1>1. IInv => AnswerIsOwn
  BY OwnedAllOwn DEF IInv, Steady, AnswerIsOwn
<1> QED  BY <1>1, SteadyHolds, PTL
=============================================================================
