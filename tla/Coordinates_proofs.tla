------------------------- MODULE Coordinates_proofs -------------------------
(***************************************************************************)
(* Facts of the two kinds of coordinates that everything about streams     *)
(* rests on: sequence numbers on a ring of any size, and offsets that an   *)
(* edit list of any length maps from the old stream to the new one.        *)
(***************************************************************************)
EXTENDS SeqSpace, EditMap, SequencesExt, SequenceTheorems, WellFoundedInduction, TLAPS

(***************************************************************************)
(* The remainder written without division, the form the provers work with. *)
(***************************************************************************)
LEMMA SeqSubLinear ==
  ASSUME NEW a \in SeqNumbers, NEW b \in SeqNumbers
  PROVE  SeqSub(a, b) = IF a >= b THEN a - b ELSE a - b + TcpSeqMod
BY SeqHalfAssumption DEF SeqSub, SeqNumbers, TcpSeqMod

LEMMA SeqAddLinear ==
  ASSUME NEW b \in SeqNumbers, NEW o \in 0 .. TcpSeqMod
  PROVE  SeqAdd(b, o) = IF b + o < TcpSeqMod THEN b + o ELSE b + o - TcpSeqMod
BY SeqHalfAssumption DEF SeqAdd, SeqNumbers, TcpSeqMod

(***************************************************************************)
(* Both operators stay on the ring.                                        *)
(***************************************************************************)
LEMMA SeqSubType ==
  ASSUME NEW a \in SeqNumbers, NEW b \in SeqNumbers
  PROVE  SeqSub(a, b) \in SeqNumbers /\ SeqSub(a, b) \in Nat
BY SeqSubLinear, SeqHalfAssumption DEF SeqNumbers, TcpSeqMod

LEMMA SeqAddType ==
  ASSUME NEW b \in SeqNumbers, NEW o \in Nat
  PROVE  SeqAdd(b, o) \in SeqNumbers
BY SeqHalfAssumption DEF SeqAdd, SeqNumbers, TcpSeqMod

(***************************************************************************)
(* seq_offset undoes seq_add for every offset of the first half ring: a    *)
(* packet written at a stream offset is read back at that offset.          *)
(***************************************************************************)
THEOREM OffsetOfAdd ==
  ASSUME NEW base \in SeqNumbers, NEW o \in 0 .. SeqHalf - 1
  PROVE  SeqOffset(SeqAdd(base, o), base) = o
<1>1. o \in 0 .. TcpSeqMod
  BY SeqHalfAssumption DEF TcpSeqMod
<1>2. SeqAdd(base, o) \in SeqNumbers
  BY <1>1, SeqAddType, SeqHalfAssumption DEF TcpSeqMod
<1>3. SeqSub(SeqAdd(base, o), base) = o
  <2>1. SeqAdd(base, o) = IF base + o < TcpSeqMod THEN base + o
                                               ELSE base + o - TcpSeqMod
    BY <1>1, SeqAddLinear
  <2>2. SeqSub(SeqAdd(base, o), base) =
          IF SeqAdd(base, o) >= base THEN SeqAdd(base, o) - base
                                     ELSE SeqAdd(base, o) - base + TcpSeqMod
    BY <1>2, SeqSubLinear
  <2>3. QED
    BY <1>2, <2>1, <2>2, SeqHalfAssumption DEF SeqNumbers, TcpSeqMod
<1>4. QED
  BY <1>3, SeqHalfAssumption DEF SeqOffset

(***************************************************************************)
(* And seq_add undoes seq_offset for every sequence number that has one.   *)
(***************************************************************************)
THEOREM AddOfOffset ==
  ASSUME NEW base \in SeqNumbers, NEW seq \in SeqNumbers,
         SeqOffset(seq, base) # NoOffset
  PROVE  SeqAdd(base, SeqOffset(seq, base)) = seq
<1>1. SeqOffset(seq, base) \in 0 .. TcpSeqMod
  BY SeqSubLinear, SeqHalfAssumption DEF SeqOffset, SeqNumbers, TcpSeqMod, NoOffset
<1>2. QED
  BY <1>1, SeqAddLinear, SeqSubLinear, SeqHalfAssumption
     DEF SeqOffset, SeqNumbers, TcpSeqMod, NoOffset

-----------------------------------------------------------------------------
\* The fields of an edit are naturals.
LEMMA EditFields ==
  ASSUME NEW es \in Seq(Edit)
  PROVE  /\ Len(es) \in Nat
         /\ \A m \in 1 .. Len(es) : /\ es[m].start \in Nat /\ es[m].end \in Nat
                                    /\ es[m].new_start \in Nat /\ es[m].new_end \in Nat
<1>1. Len(es) \in Nat
  OBVIOUS
<1>2. ASSUME NEW m \in 1 .. Len(es)
      PROVE  /\ es[m].start \in Nat /\ es[m].end \in Nat
             /\ es[m].new_start \in Nat /\ es[m].new_end \in Nat
  <2>1. es[m] \in Edit
    OBVIOUS
  <2> QED BY <2>1 DEF Edit
<1> QED BY <1>1, <1>2

\* What an edit list says of the order of its edits, in one place.
LEMMA EditListFacts ==
  ASSUME NEW n, NEW m, NEW es, IsEditList(es, n, m)
  PROVE  /\ es \in Seq(Edit) /\ Len(es) \in Nat
         /\ \A i \in 1 .. Len(es) :
              /\ es[i].start \in Nat /\ es[i].end \in Nat
              /\ es[i].new_start \in Nat /\ es[i].new_end \in Nat
              /\ es[i].start <= es[i].end
              /\ es[i].new_start <= es[i].new_end
         /\ \A i, j \in 1 .. Len(es) :
              i < j => es[i].end < es[j].start /\ es[i].new_end < es[j].new_start
BY EditFields DEF IsEditList

(***************************************************************************)
(* There is one number of passed edits, and a loop that stops before the   *)
(* first edit that ends behind the offset has found it.                    *)
(***************************************************************************)
LEMMA PassedIsUnique ==
  ASSUME NEW es \in Seq(Edit), NEW off \in Nat, NEW i \in 0 .. Len(es),
         \A j \in 1 .. i : es[j].end <= off,
         i < Len(es) => off < es[i + 1].end
  PROVE  Passed(off, es) = i
<1> DEFINE P(k) == /\ \A j \in 1 .. k : es[j].end <= off
                   /\ k < Len(es) => off < es[k + 1].end
<1>1. P(i)
  OBVIOUS
<1>2. ASSUME NEW k \in 0 .. Len(es), P(k)
      PROVE  k = i
  <2>0. Len(es) \in Nat
    OBVIOUS
  <2>1. \A m \in 1 .. Len(es) : es[m].end \in Nat
    BY EditFields
  <2>2. CASE k < i
    <3>1. k + 1 \in 1 .. i /\ k + 1 \in 1 .. Len(es) /\ k < Len(es)
      BY <2>0, <2>2
    <3>2. es[k + 1].end <= off /\ off < es[k + 1].end
      BY <3>1, <1>2
    <3> QED BY <3>1, <3>2, <2>1
  <2>3. CASE i < k
    <3>1. i + 1 \in 1 .. k /\ i + 1 \in 1 .. Len(es) /\ i < Len(es)
      BY <2>0, <2>3
    <3>2. es[i + 1].end <= off /\ off < es[i + 1].end
      BY <3>1, <1>1, <1>2
    <3> QED BY <3>1, <3>2, <2>1
  <2> QED BY <2>0, <2>2, <2>3
<1>3. Passed(off, es) = CHOOSE k \in 0 .. Len(es) : P(k)
  BY DEF Passed
<1> HIDE DEF P
<1> QED BY <1>1, <1>2, <1>3

\* The same for the replacements that end before an offset of the new stream.
LEMMA CompletedIsUnique ==
  ASSUME NEW es \in Seq(Edit), NEW q \in Nat, NEW i \in 0 .. Len(es),
         \A j \in 1 .. i : es[j].new_end <= q,
         i < Len(es) => q < es[i + 1].new_end
  PROVE  Completed(q, es) = i
<1> DEFINE P(k) == /\ \A j \in 1 .. k : es[j].new_end <= q
                   /\ k < Len(es) => q < es[k + 1].new_end
<1>1. P(i)
  OBVIOUS
<1>2. ASSUME NEW k \in 0 .. Len(es), P(k)
      PROVE  k = i
  <2>0. Len(es) \in Nat
    OBVIOUS
  <2>1. \A m \in 1 .. Len(es) : es[m].new_end \in Nat
    BY EditFields
  <2>2. CASE k < i
    <3>1. k + 1 \in 1 .. i /\ k + 1 \in 1 .. Len(es) /\ k < Len(es)
      BY <2>0, <2>2
    <3>2. es[k + 1].new_end <= q /\ q < es[k + 1].new_end
      BY <3>1, <1>2
    <3> QED BY <3>1, <3>2, <2>1
  <2>3. CASE i < k
    <3>1. i + 1 \in 1 .. k /\ i + 1 \in 1 .. Len(es) /\ i < Len(es)
      BY <2>0, <2>3
    <3>2. es[i + 1].new_end <= q /\ q < es[i + 1].new_end
      BY <3>1, <1>1, <1>2
    <3> QED BY <3>1, <3>2, <2>1
  <2> QED BY <2>0, <2>2, <2>3
<1>3. Completed(q, es) = CHOOSE k \in 0 .. Len(es) : P(k)
  BY DEF Completed
<1> HIDE DEF P
<1> QED BY <1>1, <1>2, <1>3

\* Behind the edits it has passed, the shift is that of the next edit too.
LEMMA DeltaOfNext ==
  ASSUME NEW n, NEW m, NEW es, IsEditList(es, n, m),
         NEW i \in 0 .. Len(es) - 1
  PROVE  /\ Delta(i, es) = es[i + 1].new_start - es[i + 1].start
         /\ i + 1 \in 1 .. Len(es)
<1>0. es \in Seq(Edit) /\ Len(es) \in Nat /\ i + 1 \in 1 .. Len(es)
  BY EditListFacts
<1>1. CASE i = 0
  <2>1. es # << >> /\ i + 1 = 1
    BY <1>0, <1>1
  <2>2. es[1].start = es[1].new_start
    BY <2>1 DEF IsEditList
  <2>3. es[1].start \in Nat /\ es[1].new_start \in Nat
    BY <1>0, <2>1, EditFields
  <2> QED BY <1>0, <1>1, <2>1, <2>2, <2>3 DEF Delta
<1>2. CASE i # 0
  <2>1. i \in 1 .. Len(es) - 1 /\ i \in 1 .. Len(es)
    BY <1>0, <1>2
  <2>2. es[i + 1].start - es[i].end = es[i + 1].new_start - es[i].new_end
    BY <2>1 DEF IsEditList
  <2>3. /\ es[i + 1].start \in Nat /\ es[i].end \in Nat
        /\ es[i + 1].new_start \in Nat /\ es[i].new_end \in Nat
    BY <1>0, <2>1, EditFields
  <2> QED BY <1>0, <1>2, <2>2, <2>3 DEF Delta
<1> QED BY <1>1, <1>2

LessThan == {pair \in Nat \X Nat : pair[1] < pair[2]}

\* A non-empty set of naturals has a least element.
LEMMA LeastElement ==
  ASSUME NEW T, T \subseteq Nat, T # {}
  PROVE  \E x \in T : \A y \in T : x <= y
<1>1. IsWellFoundedOn(LessThan, Nat)
  BY NatLessThanWellFounded DEF OpToRel, LessThan
<1>2. PICK x \in T : \A y \in T : ~ (<<y, x>> \in LessThan)
  BY <1>1, WFMin
<1>3. ASSUME NEW y \in T PROVE x <= y
  <2>1. x \in Nat /\ y \in Nat
    OBVIOUS
  <2>2. ~ (y < x)
    BY <1>2, <2>1 DEF LessThan
  <2> QED BY <2>1, <2>2
<1> QED BY <1>3

\* The smaller of two numbers.
LEMMA MinOfFacts ==
  ASSUME NEW a \in Int, NEW b \in Int
  PROVE  /\ MinOf(a, b) \in Int
         /\ MinOf(a, b) <= a /\ MinOf(a, b) <= b
         /\ MinOf(a, b) = a \/ MinOf(a, b) = b
BY DEF MinOf

\* Every offset has a number of passed edits.
LEMMA PassedExists ==
  ASSUME NEW es \in Seq(Edit), NEW off \in Nat
  PROVE  /\ Passed(off, es) \in 0 .. Len(es)
         /\ \A j \in 1 .. Passed(off, es) : es[j].end <= off
         /\ Passed(off, es) < Len(es) => off < es[Passed(off, es) + 1].end
<1>0. Len(es) \in Nat /\ \A j \in 1 .. Len(es) : es[j].end \in Nat
  BY EditFields
<1> DEFINE T == {k \in 1 .. Len(es) : off < es[k].end}
<1>1. \E i \in 0 .. Len(es) : /\ \A j \in 1 .. i : es[j].end <= off
                              /\ i < Len(es) => off < es[i + 1].end
  <2>1. CASE T = {}
    <3>1. \A j \in 1 .. Len(es) : es[j].end <= off
      BY <2>1, <1>0
    <3> WITNESS Len(es) \in 0 .. Len(es)
    <3> QED BY <3>1, <1>0
  <2>2. CASE T # {}
    <3>1. T \subseteq Nat
      BY <1>0
    <3> HIDE DEF T
    <3>2. PICK x \in T : \A y \in T : x <= y
      BY <2>2, <3>1, LeastElement
    <3> USE DEF T
    <3>4. x \in 1 .. Len(es) /\ off < es[x].end
      OBVIOUS
    <3>5. \A j \in 1 .. x - 1 : es[j].end <= off
      BY <3>2, <3>4, <1>0
    <3>6. x - 1 \in 0 .. Len(es) /\ (x - 1) + 1 = x
      BY <3>4, <1>0
    <3> QED BY <3>4, <3>5, <3>6
  <2> QED BY <2>1, <2>2
<1> QED BY <1>1 DEF Passed

(***************************************************************************)
(* The byte of the old stream at an offset that no edit replaces is the    *)
(* byte of the new stream at the mapped offset: rewriting a stream never   *)
(* makes a segment's SEQ point at another segment's bytes.                 *)
(***************************************************************************)
LEMMA KeptByteIsFound ==
  ASSUME NEW n \in Nat, NEW es, IsEditList(es, n, NewLen(es, n)),
         NEW p \in Nat, p < n,
         \A i \in 1 .. Len(es) : p < es[i].start \/ es[i].end <= p
  PROVE  /\ MapOffset(p, es) + 1 \in DOMAIN NewStream(es, n)
         /\ NewStream(es, n)[MapOffset(p, es) + 1] = <<"old", p>>
<1>0. es \in Seq(Edit) /\ Len(es) \in Nat
  BY DEF IsEditList
<1>1. \A i \in 1 .. Len(es) : /\ es[i].start \in Nat /\ es[i].end \in Nat
                              /\ es[i].new_start \in Nat /\ es[i].new_end \in Nat
                              /\ es[i].start <= es[i].end
                              /\ es[i].new_start <= es[i].new_end
  BY EditListFacts
<1>2. \A i, j \in 1 .. Len(es) : i < j => /\ es[i].end < es[j].start
                                          /\ es[i].new_end < es[j].new_start
  BY DEF IsEditList
<1> DEFINE i == Passed(p, es)
           q == p + Delta(i, es)
<1>3. /\ i \in 0 .. Len(es)
      /\ \A j \in 1 .. i : es[j].end <= p
      /\ i < Len(es) => p < es[i + 1].end
  BY <1>0, PassedExists
<1>4. i < Len(es) => p < es[i + 1].start
  BY <1>0, <1>1, <1>3
<1>5. MapOffset(p, es) = q
  BY <1>0, <1>1, <1>3, <1>4 DEF MapOffset
<1> HIDE DEF i
\* q lies behind the replacements of the passed edits ...
<1>6. q \in Nat /\ \A j \in 1 .. i : es[j].new_end <= q
  <2>1. CASE i = 0
    BY <2>1 DEF Delta
  <2>2. CASE i # 0
    <3>1. i \in 1 .. Len(es) /\ es[i].end <= p
      BY <1>0, <1>3, <2>2
    <3>2. q = p + (es[i].new_end - es[i].end)
      BY <2>2 DEF Delta
    <3>3. es[i].new_end <= q /\ q \in Nat
      BY <3>1, <3>2, <1>1
    <3>4. \A j \in 1 .. i : j # i => es[j].new_end <= es[i].new_end
      BY <3>1, <1>0, <1>1, <1>2
    <3> QED BY <3>1, <3>3, <3>4, <1>0, <1>1
  <2> QED BY <2>1, <2>2
\* ... and before those of the others.
<1>7. i < Len(es) => q < es[i + 1].new_start
  <2> SUFFICES ASSUME i < Len(es) PROVE q < es[i + 1].new_start
    OBVIOUS
  <2>1. i \in 0 .. Len(es) - 1 /\ i + 1 \in 1 .. Len(es)
    BY <1>0, <1>3
  <2>2. Delta(i, es) = es[i + 1].new_start - es[i + 1].start
    BY <2>1, DeltaOfNext
  <2> QED BY <2>1, <2>2, <1>1, <1>4
<1> HIDE DEF q
<1>8. \A j \in 1 .. Len(es) : j > i => q < es[j].new_start
  <2> SUFFICES ASSUME NEW j \in 1 .. Len(es), j > i PROVE q < es[j].new_start
    OBVIOUS
  <2>1. i + 1 \in 1 .. Len(es) /\ i < Len(es)
    BY <1>0, <1>3
  <2>2. CASE j = i + 1
    BY <2>1, <2>2, <1>7
  <2>3. CASE j # i + 1
    <3>1. es[i + 1].new_end < es[j].new_start
      BY <2>1, <2>3, <1>0, <1>2, <1>3
    <3> QED BY <2>1, <3>1, <1>1, <1>6, <1>7
  <2> QED BY <2>2, <2>3
<1>9. Completed(q, es) = i
  <2>1. i < Len(es) => q < es[i + 1].new_end
    BY <1>0, <1>1, <1>3, <1>6, <1>7
  <2> QED BY <2>1, <1>0, <1>3, <1>6, CompletedIsUnique
<1>10. NewByte(q, es) = <<"old", p>>
  <2>1. ~ \E j \in 1 .. Len(es) : es[j].new_start <= q /\ q < es[j].new_end
    <3> SUFFICES ASSUME NEW j \in 1 .. Len(es), es[j].new_start <= q, q < es[j].new_end
                 PROVE  FALSE
      OBVIOUS
    <3>1. CASE j \in 1 .. i
      BY <3>1, <1>1, <1>6
    <3>2. CASE j > i
      BY <3>2, <1>1, <1>6, <1>8
    <3> QED BY <3>1, <3>2, <1>0, <1>3
  <2>2. Delta(i, es) \in Int
    BY <1>0, <1>1, <1>3 DEF Delta
  <2>3. q - Delta(i, es) = p
    BY <2>2 DEF q
  <2> QED BY <2>1, <2>3, <1>9 DEF NewByte
<1>11. q < NewLen(es, n) /\ NewLen(es, n) \in Int
  <2>1. CASE es = << >>
    <3>1. i = 0
      BY <2>1, <1>3
    <3> QED BY <2>1, <3>1 DEF NewLen, Delta, q
  <2>2. CASE es # << >>
    <3>1. Len(es) \in 1 .. Len(es)
      BY <1>0, <2>2
    <3>2. es[Len(es)].end <= n /\ NewLen(es, n) = n - es[Len(es)].end + es[Len(es)].new_end
      BY <2>2 DEF IsEditList, NewLen
    <3>3. CASE i = Len(es)
      <4>1. i \in 1 .. Len(es) /\ i # 0
        BY <3>1, <3>3
      <4>2. q = p + (es[i].new_end - es[i].end)
        BY <4>1 DEF Delta, q
      <4>3. es[i].new_end \in Nat /\ es[i].end \in Nat
        BY <4>1, <1>1
      <4>4. NewLen(es, n) = n + (es[i].new_end - es[i].end)
        BY <3>2, <3>3, <4>3
      <4> DEFINE d == es[i].new_end - es[i].end
      <4>5. d \in Int
        BY <4>3
      <4>6. q = p + d /\ NewLen(es, n) = n + d
        BY <4>2, <4>4
      <4> HIDE DEF d
      <4> QED BY <4>5, <4>6
    <3>4. CASE i # Len(es)
      <4>1. q < es[Len(es)].new_start
        BY <3>1, <3>4, <1>0, <1>3, <1>8
      <4> QED BY <4>1, <3>1, <3>2, <1>1, <1>6
    <3> QED BY <3>3, <3>4
  <2> QED BY <2>1, <2>2
<1>12. q + 1 \in 1 .. NewLen(es, n) /\ (q + 1) - 1 = q
  BY <1>6, <1>11
<1> QED BY <1>5, <1>10, <1>12 DEF NewStream, q

\* The smaller one grows with either number.
LEMMA MinOfGrows ==
  ASSUME NEW a \in Int, NEW b \in Int, NEW c \in Int, a <= b
  PROVE  MinOf(a, c) <= MinOf(b, c)
BY DEF MinOf

\* A mapped offset is a number.
LEMMA MapOffsetType ==
  ASSUME NEW n, NEW m, NEW es, IsEditList(es, n, m), NEW p \in Nat
  PROVE  MapOffset(p, es) \in Int
<1> DEFINE i == Passed(p, es)
<1>0. es \in Seq(Edit) /\ Len(es) \in Nat
  BY EditListFacts
<1>1. i \in 0 .. Len(es)
  BY <1>0, PassedExists
<1>2. Delta(i, es) \in Int
  BY <1>0, <1>1, EditFields DEF Delta
<1>3. i < Len(es) => /\ es[i + 1].start \in Nat
                     /\ es[i + 1].new_start \in Nat /\ es[i + 1].new_end \in Nat
  BY <1>0, <1>1, EditFields
<1>4. MapOffset(p, es) = IF i < Len(es) /\ es[i + 1].start <= p
                         THEN es[i + 1].start + Delta(i, es)
                              + MinOf(p - es[i + 1].start,
                                      es[i + 1].new_end - es[i + 1].new_start)
                         ELSE p + Delta(i, es)
  BY DEF MapOffset
<1> HIDE DEF i
<1>5. CASE i < Len(es) /\ es[i + 1].start <= p
  <2>1. MinOf(p - es[i + 1].start, es[i + 1].new_end - es[i + 1].new_start) \in Int
    BY <1>3, <1>5 DEF MinOf
  <2> QED BY <2>1, <1>2, <1>3, <1>4, <1>5
<1>6. CASE ~(i < Len(es) /\ es[i + 1].start <= p)
  BY <1>2, <1>4, <1>6
<1> QED BY <1>5, <1>6

(***************************************************************************)
(* map_offset is monotonic.  An offset that has passed more edits than     *)
(* another lies behind the replacement the other one may land in.          *)
(***************************************************************************)
LEMMA MapOffsetIsMonotonic ==
  ASSUME NEW n, NEW m, NEW es, IsEditList(es, n, m),
         NEW p \in Nat, NEW r \in Nat, p <= r
  PROVE  MapOffset(p, es) <= MapOffset(r, es)
<1>0. es \in Seq(Edit) /\ Len(es) \in Nat
  BY EditListFacts
<1>1. \A i \in 1 .. Len(es) : /\ es[i].start \in Nat /\ es[i].end \in Nat
                              /\ es[i].new_start \in Nat /\ es[i].new_end \in Nat
                              /\ es[i].start <= es[i].end
                              /\ es[i].new_start <= es[i].new_end
  BY EditListFacts
<1>2. \A i, j \in 1 .. Len(es) : i < j => /\ es[i].end < es[j].start
                                          /\ es[i].new_end < es[j].new_start
  BY EditListFacts
<1> DEFINE i == Passed(p, es)
           k == Passed(r, es)
<1>3. /\ i \in 0 .. Len(es)
      /\ \A j \in 1 .. i : es[j].end <= p
      /\ i < Len(es) => p < es[i + 1].end
      /\ k \in 0 .. Len(es)
      /\ \A j \in 1 .. k : es[j].end <= r
      /\ k < Len(es) => r < es[k + 1].end
  BY <1>0, PassedExists
<1>4. MapOffset(p, es) = IF i < Len(es) /\ es[i + 1].start <= p
                         THEN es[i + 1].start + Delta(i, es)
                              + MinOf(p - es[i + 1].start,
                                      es[i + 1].new_end - es[i + 1].new_start)
                         ELSE p + Delta(i, es)
  BY DEF MapOffset
<1>5. MapOffset(r, es) = IF k < Len(es) /\ es[k + 1].start <= r
                         THEN es[k + 1].start + Delta(k, es)
                              + MinOf(r - es[k + 1].start,
                                      es[k + 1].new_end - es[k + 1].new_start)
                         ELSE r + Delta(k, es)
  BY DEF MapOffset
<1> HIDE DEF i, k
<1>6. i <= k
  <2> SUFFICES ASSUME k < i PROVE FALSE
    BY <1>0, <1>3
  <2>1. k + 1 \in 1 .. i /\ k < Len(es) /\ k + 1 \in 1 .. Len(es)
    BY <1>0, <1>3
  <2> QED BY <2>1, <1>1, <1>3
<1>7. Delta(i, es) \in Int /\ Delta(k, es) \in Int
  BY <1>0, <1>1, <1>3 DEF Delta
<1>8. i < Len(es) => /\ i + 1 \in 1 .. Len(es)
                     /\ Delta(i, es) = es[i + 1].new_start - es[i + 1].start
  <2>1. i < Len(es) => i \in 0 .. Len(es) - 1
    BY <1>0, <1>3
  <2> QED BY <2>1, DeltaOfNext
<1>9. k < Len(es) => /\ k + 1 \in 1 .. Len(es)
                     /\ Delta(k, es) = es[k + 1].new_start - es[k + 1].start
  <2>1. k < Len(es) => k \in 0 .. Len(es) - 1
    BY <1>0, <1>3
  <2> QED BY <2>1, DeltaOfNext
<1>10. CASE i = k
  <2>1. CASE i < Len(es) /\ es[i + 1].start <= p
    <3>1. es[i + 1].start <= r
      BY <2>1, <1>1, <1>8
    <3>2. MinOf(p - es[i + 1].start, es[i + 1].new_end - es[i + 1].new_start)
            <= MinOf(r - es[i + 1].start, es[i + 1].new_end - es[i + 1].new_start)
      <4>1. /\ p - es[i + 1].start \in Int /\ r - es[i + 1].start \in Int
            /\ es[i + 1].new_end - es[i + 1].new_start \in Int
            /\ p - es[i + 1].start <= r - es[i + 1].start
        BY <2>1, <1>1, <1>8
      <4> QED BY <4>1, MinOfGrows
    <3>3. /\ MinOf(p - es[i + 1].start, es[i + 1].new_end - es[i + 1].new_start) \in Int
          /\ MinOf(r - es[i + 1].start, es[i + 1].new_end - es[i + 1].new_start) \in Int
      BY <2>1, <1>1, <1>8 DEF MinOf
    <3> QED BY <2>1, <3>1, <3>2, <3>3, <1>1, <1>4, <1>5, <1>7, <1>8, <1>10
  <2>2. CASE ~(i < Len(es) /\ es[i + 1].start <= p)
    <3>1. CASE k < Len(es) /\ es[k + 1].start <= r
      <4>1. p < es[k + 1].start /\ es[k + 1].start \in Nat
        BY <2>2, <3>1, <1>1, <1>9, <1>10
      <4>2. 0 <= MinOf(r - es[k + 1].start, es[k + 1].new_end - es[k + 1].new_start)
        BY <3>1, <1>1, <1>9 DEF MinOf
      <4>3. MinOf(r - es[k + 1].start, es[k + 1].new_end - es[k + 1].new_start) \in Int
        BY <3>1, <1>1, <1>9 DEF MinOf
      <4> QED BY <2>2, <3>1, <4>1, <4>2, <4>3, <1>4, <1>5, <1>7, <1>10
    <3>2. CASE ~(k < Len(es) /\ es[k + 1].start <= r)
      BY <2>2, <3>2, <1>4, <1>5, <1>7, <1>10
    <3> QED BY <3>1, <3>2
  <2> QED BY <2>1, <2>2
<1>11. CASE i < k
  <2>1. i < Len(es) /\ k \in 1 .. Len(es) /\ i + 1 \in 1 .. Len(es)
    BY <1>0, <1>3, <1>11
  <2>2. MapOffset(p, es) <= es[i + 1].new_end /\ MapOffset(p, es) \in Int
    <3>1. CASE es[i + 1].start <= p
      <4> DEFINE least == MinOf(p - es[i + 1].start, es[i + 1].new_end - es[i + 1].new_start)
      <4>1. least \in Int /\ least <= es[i + 1].new_end - es[i + 1].new_start
        <5>1. p - es[i + 1].start \in Int /\ es[i + 1].new_end - es[i + 1].new_start \in Int
          BY <2>1, <1>1
        <5> QED BY <5>1, MinOfFacts
      <4>2. MapOffset(p, es) = es[i + 1].start + Delta(i, es) + least
        BY <2>1, <3>1, <1>4
      <4> HIDE DEF least
      <4>3. /\ es[i + 1].start \in Nat
            /\ es[i + 1].new_start \in Nat /\ es[i + 1].new_end \in Nat
        BY <2>1, <1>1
      <4>4. Delta(i, es) = es[i + 1].new_start - es[i + 1].start
        BY <2>1, <1>8
      <4> QED BY <4>1, <4>2, <4>3, <4>4
    <3>2. CASE ~(es[i + 1].start <= p)
      <4>1. MapOffset(p, es) = p + Delta(i, es)
        BY <3>2, <1>4
      <4>2. /\ es[i + 1].start \in Nat
            /\ es[i + 1].new_start \in Nat /\ es[i + 1].new_end \in Nat
            /\ es[i + 1].new_start <= es[i + 1].new_end
        BY <2>1, <1>1
      <4>3. Delta(i, es) = es[i + 1].new_start - es[i + 1].start
        BY <2>1, <1>8
      <4> QED BY <3>2, <4>1, <4>2, <4>3
    <3> QED BY <3>1, <3>2
  <2>3. es[i + 1].new_end <= es[k].new_end
    <3>1. es[i + 1].new_end \in Nat /\ es[k].new_start \in Nat /\ es[k].new_end \in Nat
          /\ es[k].new_start <= es[k].new_end
      BY <2>1, <1>1
    <3>2. CASE i + 1 = k
      BY <3>1, <3>2
    <3>3. CASE i + 1 < k
      <4>1. es[i + 1].new_end < es[k].new_start
        BY <2>1, <3>3, <1>2
      <4> QED BY <3>1, <4>1
    <3>4. i \in Int /\ k \in Int
      BY <1>3
    <3> QED BY <3>2, <3>3, <3>4, <1>11
  <2>4. es[k].end <= r /\ Delta(k, es) = es[k].new_end - es[k].end
    BY <2>1, <1>3 DEF Delta
  <2>5. es[k].new_end <= MapOffset(r, es) /\ MapOffset(r, es) \in Int
    <3>1. CASE k < Len(es) /\ es[k + 1].start <= r
      <4>1. es[k].new_end < es[k + 1].new_start
        BY <3>1, <2>1, <1>2, <1>9
      <4> DEFINE least == MinOf(r - es[k + 1].start, es[k + 1].new_end - es[k + 1].new_start)
      <4>2. 0 <= least
        BY <3>1, <1>1, <1>9 DEF MinOf
      <4>3. least \in Int
        BY <3>1, <1>1, <1>9 DEF MinOf
      <4>4. MapOffset(r, es) = es[k + 1].start + Delta(k, es) + least
        BY <3>1, <1>5
      <4> HIDE DEF least
      <4> QED BY <2>1, <3>1, <4>1, <4>2, <4>3, <4>4, <1>1, <1>9
    <3>2. CASE ~(k < Len(es) /\ es[k + 1].start <= r)
      BY <2>1, <2>4, <3>2, <1>1, <1>5
    <3> QED BY <3>1, <3>2
  <2>6. es[k].new_end \in Nat /\ es[i + 1].new_end \in Nat
    BY <2>1, <1>1
  <2> QED BY <2>2, <2>3, <2>5, <2>6
<1> QED BY <1>3, <1>6, <1>10, <1>11

\* The end of the old stream lands at the end of the new one.
LEMMA EndLandsAtEnd ==
  ASSUME NEW n \in Nat, NEW es, IsEditList(es, n, NewLen(es, n))
  PROVE  MapOffset(n, es) = Len(NewStream(es, n))
<1>0. es \in Seq(Edit) /\ Len(es) \in Nat
  BY EditListFacts
<1>1. CASE es = << >>
  <2>1. Passed(n, es) = 0
    <3>1. Passed(n, es) \in 0 .. Len(es)
      BY <1>0, PassedExists
    <3>2. Len(es) = 0
      BY <1>1
    <3> QED BY <3>1, <3>2
  <2>2. MapOffset(n, es) = n /\ NewLen(es, n) = n
    BY <1>0, <1>1, <2>1 DEF MapOffset, Delta, NewLen
  <2> QED BY <2>2 DEF NewStream
<1>2. CASE es # << >>
  <2> DEFINE k == Len(es)
  <2>1. k \in 1 .. Len(es) /\ es[k].end <= n
        /\ NewLen(es, n) = n - es[k].end + es[k].new_end
    BY <1>0, <1>2 DEF IsEditList, NewLen
  <2>2. /\ es[k].end \in Nat /\ es[k].new_end \in Nat
        /\ \A j \in 1 .. k : es[j].end \in Nat
    BY <1>0, <2>1, EditFields
  <2>3. \A j \in 1 .. k : es[j].end <= n
    <3> SUFFICES ASSUME NEW j \in 1 .. k, j # k PROVE es[j].end <= n
      BY <2>1
    <3>1. j < k
      BY <2>1
    <3>2. es[j].end < es[k].start /\ es[k].start <= es[k].end
          /\ es[k].start \in Nat
      BY <2>1, <3>1, EditListFacts
    <3> QED BY <2>1, <2>2, <3>2
  <2>4. Passed(n, es) = k
    BY <1>0, <2>3, PassedIsUnique
  <2>5. MapOffset(n, es) = n + (es[k].new_end - es[k].end)
    BY <1>0, <2>1, <2>4 DEF MapOffset, Delta
  <2>6. NewLen(es, n) \in Nat /\ MapOffset(n, es) = NewLen(es, n)
    BY <2>1, <2>2, <2>5
  <2> QED BY <2>6 DEF NewStream
<1> QED BY <1>1, <1>2

-----------------------------------------------------------------------------
(***************************************************************************)
(* FlattenSeq, piece by piece.                                             *)
(***************************************************************************)
IsFlattening(g, n, s) ==
  g = [i \in 1 .. n |-> IF i = 1 THEN s[i] ELSE g[i - 1] \o s[i]]

\* Every prefix of a sequence of sequences can be flattened.
LEMMA FlatteningExists ==
  ASSUME NEW s, NEW n \in Nat
  PROVE  \E g : IsFlattening(g, n, s)
<1> DEFINE T == {m \in Nat : ~ \E g : IsFlattening(g, m, s)}
<1> SUFFICES ASSUME T # {} PROVE FALSE
  OBVIOUS
<1>1. PICK m \in T : \A k \in T : m <= k
  BY LeastElement
<1>2. m \in Nat /\ ~ \E g : IsFlattening(g, m, s)
  OBVIOUS
<1> HIDE DEF T
<1>3. m # 0
  <2>1. IsFlattening([i \in 1 .. 0 |-> s], 0, s)
    BY DEF IsFlattening
  <2> QED BY <1>2, <2>1
<1>4. PICK l \in Nat : l = m - 1
  BY <1>2, <1>3
<1>5. l \notin T
  BY <1>1, <1>2, <1>4
<1>6. PICK g : IsFlattening(g, l, s)
  BY <1>5 DEF T
<1> DEFINE h == [i \in 1 .. m |-> IF i = m THEN (IF i = 1 THEN s[i] ELSE g[i - 1] \o s[i])
                                 ELSE g[i]]
<1>7. ASSUME NEW i \in 1 .. m
      PROVE  h[i] = IF i = 1 THEN s[i] ELSE h[i - 1] \o s[i]
  <2>1. CASE i = 1 /\ i = m
    BY <2>1
  <2>2. CASE i # 1 /\ i = m
    <3>1. i - 1 \in 1 .. m /\ i - 1 # m
      BY <1>2, <2>2
    <3>2. h[i - 1] = g[i - 1]
      BY <3>1
    <3> QED BY <2>2, <3>2
  <2>3. CASE i # m
    <3>1. i \in 1 .. l
      BY <1>2, <1>4, <2>3
    <3>2. g[i] = IF i = 1 THEN s[i] ELSE g[i - 1] \o s[i]
      BY <1>6, <3>1 DEF IsFlattening
    <3>3. i # 1 => i - 1 \in 1 .. m /\ i - 1 # m
      BY <1>2
    <3>4. i # 1 => h[i - 1] = g[i - 1]
      BY <3>3
    <3> QED BY <2>3, <3>2, <3>4
  <2> QED BY <2>1, <2>2, <2>3
<1>8. IsFlattening(h, m, s)
  <2> HIDE DEF h
  <2>1. h = [i \in 1 .. m |-> h[i]]
    BY DEF h
  <2> QED BY <1>7, <2>1 DEF IsFlattening
<1> QED BY <1>2, <1>8

Flattening(s) == CHOOSE g : IsFlattening(g, Len(s), s)

\* What the first n pieces come to.
Flattened(s, n) == IF n = 0 THEN << >> ELSE Flattening(s)[n]

LEMMA FlattenedStep ==
  ASSUME NEW S, NEW s \in Seq(Seq(S)), NEW n \in 1 .. Len(s)
  PROVE  Flattened(s, n - 1) \in Seq(S) => Flattened(s, n) = Flattened(s, n - 1) \o s[n]
<1>1. IsFlattening(Flattening(s), Len(s), s)
  <2>1. Len(s) \in Nat
    BY LenProperties
  <2> QED BY <2>1, FlatteningExists DEF Flattening
<1>2. Flattening(s)[n] = IF n = 1 THEN s[n] ELSE Flattening(s)[n - 1] \o s[n]
  BY <1>1 DEF IsFlattening
<1>3. s[n] \in Seq(S)
  BY ElementOfSeq, LenProperties
<1>4. CASE n = 1
  <2>1. Flattened(s, n - 1) = << >> /\ Flattened(s, n) = s[n]
    BY <1>2, <1>4 DEF Flattened
  <2>2. << >> \o s[n] = s[n]
    BY <1>3, ConcatEmptySeq
  <2> QED BY <2>1, <2>2
<1>5. CASE n # 1
  <2>1. n \in Nat /\ n - 1 # 0 /\ n # 0
    BY <1>5, LenProperties
  <2>2. Flattened(s, n - 1) = Flattening(s)[n - 1] /\ Flattened(s, n) = Flattening(s)[n]
    BY <2>1 DEF Flattened
  <2> QED BY <1>2, <1>5, <2>2
<1> QED BY <1>4, <1>5

LEMMA FlattenedType ==
  ASSUME NEW S, NEW s \in Seq(Seq(S)), NEW n \in 0 .. Len(s)
  PROVE  Flattened(s, n) \in Seq(S)
<1> DEFINE T == {m \in 0 .. Len(s) : Flattened(s, m) \notin Seq(S)}
<1> SUFFICES ASSUME T # {} PROVE FALSE
  OBVIOUS
<1>1. PICK len \in Nat : len = Len(s)
  BY LenProperties
<1>2. PICK m \in T : \A k \in T : m <= k
  <2>1. T \subseteq Nat
    BY <1>1
  <2> HIDE DEF T
  <2> QED BY <2>1, LeastElement
<1>3. m \in 0 .. len /\ Flattened(s, m) \notin Seq(S)
  BY <1>1
<1> HIDE DEF T
<1>4. m # 0
  BY <1>3 DEF Flattened
<1>5. m \in 1 .. len /\ m - 1 \in 0 .. len
  BY <1>3, <1>4
<1>6. m - 1 \notin T
  BY <1>2, <1>5
<1>7. Flattened(s, m - 1) \in Seq(S)
  BY <1>1, <1>5, <1>6 DEF T
<1>8. Flattened(s, m) = Flattened(s, m - 1) \o s[m]
  BY <1>1, <1>5, <1>7, FlattenedStep
<1>9. s[m] \in Seq(S)
  BY <1>1, <1>5, ElementOfSeq, LenProperties
<1> QED BY <1>3, <1>7, <1>8, <1>9, ConcatProperties

LEMMA FlattenedAll ==
  ASSUME NEW S, NEW s \in Seq(Seq(S))
  PROVE  FlattenSeq(s) = Flattened(s, Len(s))
<1>1. Len(s) \in Nat
  BY LenProperties
<1>2. CASE Len(s) = 0
  <2>1. s = << >>
    BY <1>2, EmptySeq
  <2> QED BY <1>2, <2>1 DEF FlattenSeq, Flattened
<1>3. CASE Len(s) # 0
  <2>1. FlattenSeq(s) = Flattening(s)[Len(s)]
    BY <1>3, Zenon DEF FlattenSeq, Flattening, IsFlattening
  <2> QED BY <1>3, <2>1 DEF Flattened
<1> QED BY <1>2, <1>3

-----------------------------------------------------------------------------
\* How many pieces of a capacity a size takes, and where they begin.
LEMMA CeilingFacts ==
  ASSUME NEW size \in Nat \ {0}, NEW capacity \in Nat \ {0}, NEW count,
         count = (size + capacity - 1) \div capacity
  PROVE  /\ count \in Nat \ {0}
         /\ \A n \in 1 .. count :
              /\ (n - 1) * capacity \in Nat /\ n * capacity \in Nat
              /\ (n - 1) * capacity < size /\ (n - 1) * capacity < n * capacity
<1>0. size + capacity - 1 \in Nat
  OBVIOUS
<1>1. count \in Nat
  BY <1>0
<1>2. count * capacity <= size + capacity - 1
  BY <1>0
<1>3. size + capacity - 1 < count * capacity + capacity
  BY <1>0
<1>4. count # 0
  BY <1>1, <1>3
<1> SUFFICES ASSUME NEW n \in 1 .. count
             PROVE  /\ (n - 1) * capacity \in Nat /\ n * capacity \in Nat
                    /\ (n - 1) * capacity < size /\ (n - 1) * capacity < n * capacity
  BY <1>1, <1>4
<1>5. n * capacity <= count * capacity
  BY <1>1
<1>6. (n - 1) * capacity = n * capacity - capacity
  BY <1>1
<1>7. n * capacity \in Nat /\ (n - 1) * capacity \in Nat
  BY <1>1
<1> QED BY <1>2, <1>5, <1>6, <1>7

=============================================================================
