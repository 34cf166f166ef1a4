------------------------- MODULE Resegment_proofs -------------------------
(***************************************************************************)
(* What re-segmentation writes is the new stream: for any packets, edits   *)
(* and capacities, merged, kept or degraded, every byte of the output is   *)
(* the one that the new stream has there, and no byte of it is missing.    *)
(* Every FIN stays behind the last byte of its stream.                     *)
(***************************************************************************)
EXTENDS Resegment, Coordinates_proofs, SequenceTheorems, FiniteSetTheorems

Bytes == {"old", "new"} \X Nat

-----------------------------------------------------------------------------
(***************************************************************************)
(* Nothing that is computed from the input changes.                        *)
(***************************************************************************)
LEMMA InputFrame ==
  ASSUME input' = input
  PROVE  /\ Indices' = Indices
         /\ \A d : /\ Base(d)' = Base(d) /\ Edits(d)' = Edits(d)
                   /\ NewBytes(d)' = NewBytes(d) /\ Segments(d)' = Segments(d)
                   /\ IsModified(d)' = IsModified(d)
         /\ \A k : /\ OldStart(k)' = OldStart(k) /\ OldEnd(k)' = OldEnd(k)
                   /\ NewStart(k)' = NewStart(k) /\ NewEnd(k)' = NewEnd(k)
                   /\ NewPayload(k)' = NewPayload(k) /\ Outgrown(k)' = Outgrown(k)
         /\ \A k, m : InStreamOrder(k, m)' = InStreamOrder(k, m)
<1>1. Indices' = Indices
  BY DEF Indices
<1>2. \A d : Base(d)' = Base(d) /\ Edits(d)' = Edits(d)
  BY DEF Base, Edits
<1>3. \A d : NewBytes(d)' = NewBytes(d)
  BY <1>2 DEF NewBytes
<1>4. \A d : Segments(d)' = Segments(d)
  BY <1>1 DEF Segments
<1>5. \A k : OldStart(k)' = OldStart(k)
  BY <1>2 DEF OldStart
<1>6. \A k : OldEnd(k)' = OldEnd(k)
  BY <1>5 DEF OldEnd
<1>7. \A k : NewStart(k)' = NewStart(k) /\ NewEnd(k)' = NewEnd(k)
  BY <1>2, <1>5, <1>6 DEF NewStart, NewEnd
<1>8. \A k : NewPayload(k)' = NewPayload(k)
  BY <1>3, <1>7 DEF NewPayload
<1>9. \A k : Outgrown(k)' = Outgrown(k)
  BY <1>8 DEF Outgrown
<1>10. \A k, m : InStreamOrder(k, m)' = InStreamOrder(k, m)
  BY <1>5 DEF InStreamOrder
<1>11. \A d : IsModified(d)' = IsModified(d)
  BY DEF IsModified
<1> QED BY <1>1, <1>2, <1>3, <1>4, <1>5, <1>6, <1>7, <1>8, <1>9, <1>10, <1>11

LEMMA PrimaryFrame ==
  ASSUME input' = input
  PROVE  /\ \A k : IsPrimary(k)' = IsPrimary(k)
         /\ \A d : /\ Primaries(d)' = Primaries(d)
                   /\ Retransmissions(d)' = Retransmissions(d)
<1>1. \A k, m : WrittenBefore(k, m)' = WrittenBefore(k, m)
  BY InputFrame DEF WrittenBefore
<1>2. \A k : IsPrimary(k)' = IsPrimary(k)
  BY <1>1, InputFrame DEF IsPrimary
<1>3. \A d : Primaries(d)' = Primaries(d)
  BY <1>2, InputFrame DEF Primaries
<1> QED BY <1>2, <1>3, InputFrame DEF Retransmissions

-----------------------------------------------------------------------------
(***************************************************************************)
(* Streams, slices of them, and the offsets of the two coordinates.        *)
(***************************************************************************)
LEMMA SliceFacts ==
  ASSUME NEW S, NEW s \in Seq(S), NEW from \in Nat, NEW to \in Nat, from <= to
  PROVE  LET end == MinOf(to, Len(s)) IN
         /\ Slice(s, from, to) \in Seq(S)
         /\ Len(Slice(s, from, to)) = IF from <= end THEN end - from ELSE 0
         /\ \A n \in 1 .. Len(Slice(s, from, to)) :
              from + n \in 1 .. Len(s) /\ Slice(s, from, to)[n] = s[from + n]
<1> DEFINE end == MinOf(to, Len(s))
<1>1. Len(s) \in Nat /\ end \in Nat /\ end <= Len(s) /\ end <= to
  BY DEF MinOf
<1>2. Slice(s, from, to) = [n \in 1 .. end - from |-> s[from + n]]
  <2>1. Slice(s, from, to) = SubSeq(s, from + 1, end)
    BY DEF Slice
  <2>2. \A n \in 1 .. end - from : from + 1 + n - 1 = from + n
    BY <1>1
  <2>3. SubSeq(s, from + 1, end) = [n \in 1 .. end - from |-> s[from + n]]
    BY <1>1
  <2> QED BY <2>1, <2>3
<1>3. CASE from <= end
  <2>1. end - from \in Nat
    BY <1>1, <1>3
  <2>2. \A n \in 1 .. end - from : from + n \in 1 .. Len(s)
    BY <1>1, <1>3
  <2>3. Slice(s, from, to) \in Seq(S) /\ Len(Slice(s, from, to)) = end - from
    BY <1>2, <2>1, <2>2
  <2>4. \A n \in 1 .. end - from : Slice(s, from, to)[n] = s[from + n]
    BY <1>2
  <2> QED BY <1>3, <2>2, <2>3, <2>4
<1>4. CASE ~(from <= end)
  <2>1. 1 .. end - from = {}
    BY <1>1, <1>4
  <2>2. Slice(s, from, to) = << >>
    BY <1>2, <2>1
  <2> QED BY <1>4, <2>2
<1> QED BY <1>3, <1>4

\* A slice within a stream.
LEMMA SliceWithin ==
  ASSUME NEW S, NEW s \in Seq(S), NEW from \in Nat, NEW to \in Nat,
         from <= to, to <= Len(s)
  PROVE  /\ Slice(s, from, to) \in Seq(S) /\ Len(Slice(s, from, to)) = to - from
         /\ \A n \in 1 .. to - from : Slice(s, from, to)[n] = s[from + n]
<1>1. Len(s) \in Nat /\ MinOf(to, Len(s)) = to
  BY DEF MinOf
<1> QED BY <1>1, SliceFacts

LEMMA NewStreamType ==
  ASSUME NEW n \in Nat, NEW es, IsEditList(es, n, NewLen(es, n))
  PROVE  /\ NewLen(es, n) \in Nat
         /\ NewStream(es, n) \in Seq(Bytes) /\ Len(NewStream(es, n)) = NewLen(es, n)
<1>0. es \in Seq(Edit) /\ Len(es) \in Nat
  BY EditListFacts
<1>1. \A i \in 1 .. Len(es) : /\ es[i].start \in Nat /\ es[i].end \in Nat
                              /\ es[i].new_start \in Nat /\ es[i].new_end \in Nat
  BY EditListFacts
<1>2. NewLen(es, n) \in Nat
  <2>1. CASE es = << >>
    BY <2>1 DEF NewLen
  <2>2. CASE es # << >>
    <3>1. Len(es) \in 1 .. Len(es) /\ es[Len(es)].end <= n
      BY <1>0, <2>2 DEF IsEditList
    <3> QED BY <2>2, <3>1, <1>1 DEF NewLen
  <2> QED BY <2>1, <2>2
<1>3. ASSUME NEW q \in Nat PROVE NewByte(q, es) \in Bytes
  <2>1. CASE \E j \in 1 .. Len(es) : es[j].new_start <= q /\ q < es[j].new_end
    BY <2>1 DEF NewByte, Bytes
  <2>2. CASE ~ \E j \in 1 .. Len(es) : es[j].new_start <= q /\ q < es[j].new_end
    <3>1. PICK i \in 0 .. Len(es) : /\ \A j \in 1 .. i : es[j].new_end <= q
                                    /\ i < Len(es) => q < es[i + 1].new_end
      <4> DEFINE T == {k \in 1 .. Len(es) : q < es[k].new_end}
      <4>1. CASE T = {}
        <5>1. \A j \in 1 .. Len(es) : es[j].new_end <= q
          BY <4>1, <1>1
        <5> QED BY <5>1, <1>0
      <4>2. CASE T # {}
        <5>1. PICK k \in T : \A m \in T : k <= m
          <6>1. T \subseteq Nat
            BY <1>0
          <6> QED BY <4>2, <6>1, LeastElement
        <5>2. k - 1 \in 0 .. Len(es) /\ k - 1 + 1 = k /\ q < es[k].new_end
          BY <5>1, <1>0
        <5>3. \A j \in 1 .. k - 1 : j \in 1 .. Len(es) /\ j \notin T
          BY <5>1, <1>0
        <5>4. \A j \in 1 .. k - 1 : es[j].new_end <= q
          BY <5>3, <1>1
        <5> QED BY <5>2, <5>4
      <4> QED BY <4>1, <4>2
    <3>2. Completed(q, es) = i
      BY <1>0, <3>1, CompletedIsUnique
    <3>3. q - Delta(i, es) \in Nat
      <4>1. CASE i = 0
        BY <4>1 DEF Delta
      <4>2. CASE i # 0
        <5>1. i \in 1 .. Len(es) /\ es[i].new_end <= q
          BY <3>1, <4>2, <1>0
        <5> QED BY <4>2, <5>1, <1>1 DEF Delta
      <4> QED BY <4>1, <4>2
    <3>4. NewByte(q, es) = <<"old", q - Delta(i, es)>>
      BY <2>2, <3>2 DEF NewByte
    <3> QED BY <3>3, <3>4 DEF Bytes
  <2> QED BY <2>1, <2>2
<1>4. \A i \in 1 .. NewLen(es, n) : NewByte(i - 1, es) \in Bytes
  BY <1>2, <1>3
<1> QED BY <1>2, <1>4 DEF NewStream

\* A mapped offset is a natural number.
LEMMA MapOffsetNat ==
  ASSUME NEW n, NEW m, NEW es, IsEditList(es, n, m), NEW p \in Nat
  PROVE  MapOffset(p, es) \in Nat
<1>0. es \in Seq(Edit) /\ Len(es) \in Nat
  BY EditListFacts
<1>1. \A i \in 1 .. Len(es) : /\ es[i].start \in Nat /\ es[i].end \in Nat
                              /\ es[i].new_start \in Nat /\ es[i].new_end \in Nat
                              /\ es[i].start <= es[i].end
                              /\ es[i].new_start <= es[i].new_end
  BY EditListFacts
<1>2. PICK i : i = Passed(p, es)
  OBVIOUS
<1>3. i \in 0 .. Len(es) /\ \A j \in 1 .. i : es[j].end <= p
  BY <1>0, <1>2, PassedExists
<1>4. p + Delta(i, es) \in Nat
  <2>1. CASE i = 0
    BY <2>1 DEF Delta
  <2>2. CASE i # 0
    <3>1. i \in 1 .. Len(es) /\ es[i].end <= p
      BY <1>3, <2>2
    <3> QED BY <2>2, <3>1, <1>1 DEF Delta
  <2> QED BY <2>1, <2>2
<1>5. ASSUME i < Len(es), es[i + 1].start <= p
      PROVE  MapOffset(p, es) \in Nat
  <2>1. i \in 0 .. Len(es) - 1
    BY <1>3, <1>5, <1>0
  <2>2. Delta(i, es) = es[i + 1].new_start - es[i + 1].start /\ i + 1 \in 1 .. Len(es)
    BY <2>1, DeltaOfNext
  <2>3. MapOffset(p, es) = es[i + 1].start + Delta(i, es)
                           + MinOf(p - es[i + 1].start, es[i + 1].new_end - es[i + 1].new_start)
    BY <1>2, <1>5 DEF MapOffset
  <2> QED BY <2>2, <2>3, <1>1, <1>5 DEF MinOf
<1>6. ASSUME ~(i < Len(es) /\ es[i + 1].start <= p)
      PROVE  MapOffset(p, es) \in Nat
  BY <1>2, <1>4, <1>6 DEF MapOffset
<1> QED BY <1>5, <1>6

\* Without edits the streams are the same, and so are the offsets.
LEMMA NoEdits ==
  ASSUME NEW n \in Nat, NEW p \in Nat
  PROVE  /\ NewStream(<< >>, n) = OldStream(n)
         /\ MapOffset(p, << >>) = p
<1>0. << >> \in Seq(Edit) /\ Len(<< >>) = 0 /\ 0 \in 0 .. 0
  OBVIOUS
<1>1. Passed(p, << >>) = 0
  <2>1. PICK es \in Seq(Edit) : es = << >>
    BY <1>0
  <2>2. 0 \in 0 .. Len(es) /\ ~(0 < Len(es)) /\ \A j \in 1 .. 0 : es[j].end <= p
    BY <2>1, <1>0
  <2>3. Passed(p, es) = 0
    BY <2>2, PassedIsUnique
  <2> QED BY <2>1, <2>3
<1>2. ASSUME NEW q \in Nat PROVE NewByte(q, << >>) = <<"old", q>>
  <2>1. PICK es \in Seq(Edit) : es = << >>
    BY <1>0
  <2>2. 0 \in 0 .. Len(es) /\ ~(0 < Len(es)) /\ \A j \in 1 .. 0 : es[j].new_end <= q
    BY <2>1, <1>0
  <2>3. Completed(q, es) = 0
    BY <2>2, CompletedIsUnique
  <2>4. NewByte(q, es) = <<"old", q - Delta(0, es)>>
    BY <2>1, <2>3, <1>0 DEF NewByte
  <2> QED BY <2>1, <2>4 DEF Delta
<1>3. NewStream(<< >>, n) = [i \in 1 .. n |-> NewByte(i - 1, << >>)]
  BY DEF NewStream, NewLen
<1>4. \A i \in 1 .. n : NewByte(i - 1, << >>) = <<"old", i - 1>>
  BY <1>2
<1>5. NewStream(<< >>, n) = OldStream(n)
  BY <1>3, <1>4 DEF OldStream
<1>6. MapOffset(p, << >>) = p
  BY <1>1 DEF MapOffset, Delta
<1> QED BY <1>5, <1>6

-----------------------------------------------------------------------------
(***************************************************************************)
(* What is known of an input.                                              *)
(***************************************************************************)
LEMMA InputFacts ==
  ASSUME IsInput(input)
  PROVE  /\ Indices = 1 .. Len(input.packets) /\ Len(input.packets) \in Nat
         /\ \A k \in Indices : /\ input.packets[k] \in Packet
                               /\ input.capacity[k] \in Nat \ {0}
         /\ \A d \in Directions :
              /\ Base(d) \in SeqNumbers /\ input.old_len[d] \in Nat
              /\ IsEditList(Edits(d), input.old_len[d], NewLen(Edits(d), input.old_len[d]))
              /\ input.handling[d] \in {"unchanged", "preserve", "merge"}
              /\ Edits(d) # << >> => input.handling[d] # "unchanged"
<1>1. input.packets \in Seq(Packet)
  BY DEF IsInput
<1>2. Indices = 1 .. Len(input.packets) /\ Len(input.packets) \in Nat
  BY <1>1 DEF Indices
<1>3. \A k \in Indices : input.packets[k] \in Packet
  BY <1>1, <1>2
<1>4. \A k \in Indices : input.capacity[k] \in Nat \ {0}
  BY DEF IsInput, Indices
<1>5. ASSUME NEW d \in Directions
      PROVE  /\ Base(d) \in SeqNumbers /\ input.old_len[d] \in Nat
             /\ input.handling[d] \in {"unchanged", "preserve", "merge"}
  BY DEF IsInput, Base
<1>6. ASSUME NEW d \in Directions
      PROVE  /\ IsEditList(Edits(d), input.old_len[d], NewLen(Edits(d), input.old_len[d]))
             /\ Edits(d) # << >> => input.handling[d] # "unchanged"
  BY DEF IsInput, Edits
<1> QED BY <1>2, <1>3, <1>4, <1>5, <1>6

LEMMA PacketFields ==
  ASSUME NEW packet \in Packet
  PROVE  /\ packet.dir \in Directions /\ packet.seq \in SeqNumbers /\ packet.ack \in SeqNumbers
         /\ packet.data \in Seq(Bytes) /\ packet.psh \in BOOLEAN /\ packet.fin \in BOOLEAN
         /\ packet.sack \in Seq(SeqNumbers)
BY DEF Packet, Bytes

LEMMA OppositeType ==
  ASSUME NEW d \in Directions
  PROVE  /\ Opposite(d) \in Directions /\ Opposite(d) # d
         /\ \A e \in Directions : e = d \/ e = Opposite(d)
BY DEF Opposite, Directions

LEMMA SeqOffsetType ==
  ASSUME NEW seq \in SeqNumbers, NEW base \in SeqNumbers
  PROVE  /\ SeqOffset(seq, base) \in 0 .. SeqHalf - 1 \cup {NoOffset}
         /\ NoOffset \notin Nat
BY SeqSubType, SeqHalfAssumption DEF SeqOffset, NoOffset

LEMMA OldStreamType ==
  ASSUME NEW n \in Nat
  PROVE  OldStream(n) \in Seq(Bytes) /\ Len(OldStream(n)) = n
<1>1. \A i \in 1 .. n : <<"old", i - 1>> \in Bytes
  <2> SUFFICES ASSUME NEW i \in 1 .. n PROVE <<"old", i - 1>> \in Bytes
    OBVIOUS
  <2>1. PICK p \in Nat : p = i - 1
    OBVIOUS
  <2> QED BY <2>1 DEF Bytes
<1>2. PICK f \in [1 .. n -> Bytes] : f = OldStream(n)
  BY <1>1 DEF OldStream
<1>3. f \in Seq(Bytes) /\ Len(f) = n
  OBVIOUS
<1> QED BY <1>2, <1>3

\* A segment lies within the old stream and holds its bytes.
LEMMA SegmentFacts ==
  ASSUME IsInput(input), NEW d \in Directions, NEW k \in Segments(d)
  PROVE  /\ k \in Indices /\ k \in Nat /\ input.packets[k].dir = d
         /\ input.packets[k] \in Packet /\ input.packets[k].data # << >>
         /\ OldStart(k) \in 0 .. SeqHalf - 1 /\ OldEnd(k) \in Nat
         /\ OldStart(k) < OldEnd(k) /\ OldEnd(k) <= input.old_len[d]
         /\ Len(input.packets[k].data) = OldEnd(k) - OldStart(k)
         /\ input.packets[k].seq = SeqAdd(Base(d), OldStart(k))
         /\ \A n \in 1 .. Len(input.packets[k].data) :
              input.packets[k].data[n] = OldStream(input.old_len[d])[OldStart(k) + n]
<1>1. k \in Indices /\ input.packets[k].dir = d /\ input.packets[k].data # << >>
  BY DEF Segments
<1>2. k \in Nat /\ input.packets[k] \in Packet
  BY <1>1, InputFacts
<1>3. /\ SeqOffset(input.packets[k].seq, input.base_seq[input.packets[k].dir]) # NoOffset
      /\ input.packets[k].data =
           Slice(OldStream(input.old_len[input.packets[k].dir]),
                 SeqOffset(input.packets[k].seq, input.base_seq[input.packets[k].dir]),
                 SeqOffset(input.packets[k].seq, input.base_seq[input.packets[k].dir])
                   + Len(input.packets[k].data))
  BY <1>1 DEF IsInput, Indices
<1>4. /\ OldStart(k) # NoOffset
      /\ OldStart(k) = SeqOffset(input.packets[k].seq, Base(d))
      /\ input.packets[k].data = Slice(OldStream(input.old_len[d]), OldStart(k), OldEnd(k))
  BY <1>1, <1>3 DEF OldStart, OldEnd, Base
<1>5. Base(d) \in SeqNumbers /\ input.old_len[d] \in Nat /\ input.packets[k].seq \in SeqNumbers
  BY <1>2, InputFacts, PacketFields
<1>6. OldStart(k) \in 0 .. SeqHalf - 1
  BY <1>4, <1>5, SeqOffsetType
<1>7. input.packets[k].data \in Seq(Bytes)
  BY <1>2, PacketFields
<1>8. PICK data \in Seq(Bytes) : data = input.packets[k].data
  BY <1>7
<1>9. PICK size \in Nat : size = Len(data) /\ size # 0
  BY <1>1, <1>8, EmptySeq
<1>10. /\ OldStream(input.old_len[d]) \in Seq(Bytes)
       /\ Len(OldStream(input.old_len[d])) = input.old_len[d]
  BY <1>5, OldStreamType
<1>11. PICK s \in Seq(Bytes) : s = OldStream(input.old_len[d])
  BY <1>10
<1>12. PICK len \in Nat : len = input.old_len[d]
  BY <1>5
<1>13. PICK from \in Nat : from = OldStart(k)
  BY <1>6, SeqHalfAssumption
<1>14. OldEnd(k) = from + size
  BY <1>8, <1>9, <1>13 DEF OldEnd
<1>15. PICK to \in Nat : to = OldEnd(k) /\ to = from + size
  BY <1>14
<1>16. from <= to /\ Len(s) = len /\ data = Slice(s, from, to)
  BY <1>4, <1>8, <1>9, <1>10, <1>11, <1>12, <1>13, <1>15
<1>17. size = IF from <= MinOf(to, len) THEN MinOf(to, len) - from ELSE 0
  BY <1>9, <1>16, SliceFacts
<1>18. to <= len
  BY <1>9, <1>15, <1>17 DEF MinOf
<1>19. \A n \in 1 .. to - from : Slice(s, from, to)[n] = s[from + n]
  <2>1. from <= to /\ to <= Len(s)
    BY <1>12, <1>16, <1>18
  <2> QED BY <2>1, SliceWithin
<1>20. input.packets[k].seq = SeqAdd(Base(d), OldStart(k))
  BY <1>4, <1>5, AddOfOffset
<1>21. OldEnd(k) \in Nat /\ OldStart(k) < OldEnd(k) /\ OldEnd(k) <= input.old_len[d]
  BY <1>9, <1>12, <1>13, <1>15, <1>18
<1>22. size = OldEnd(k) - OldStart(k)
  BY <1>9, <1>13, <1>15
<1>23. Len(input.packets[k].data) = OldEnd(k) - OldStart(k)
  BY <1>8, <1>9, <1>22
<1>24. \A n \in 1 .. Len(data) : data[n] = s[from + n]
  <2>1. to - from = size
    BY <1>15
  <2> QED BY <2>1, <1>9, <1>16, <1>19
<1>25. \A n \in 1 .. Len(input.packets[k].data) :
         input.packets[k].data[n] = OldStream(input.old_len[d])[OldStart(k) + n]
  BY <1>8, <1>11, <1>13, <1>24
<1> QED BY <1>1, <1>2, <1>6, <1>20, <1>21, <1>23, <1>25

LEMMA NewBytesType ==
  ASSUME IsInput(input), NEW d \in Directions
  PROVE  NewBytes(d) \in Seq(Bytes) /\ Len(NewBytes(d)) \in Nat
<1>1. /\ input.old_len[d] \in Nat
      /\ IsEditList(Edits(d), input.old_len[d], NewLen(Edits(d), input.old_len[d]))
  BY InputFacts
<1> QED BY <1>1, NewStreamType DEF NewBytes

\* The place of a segment in the new stream, and its new bytes.
LEMMA NewSegmentFacts ==
  ASSUME IsInput(input), NEW d \in Directions, NEW k \in Segments(d)
  PROVE  /\ NewStart(k) \in Nat /\ NewEnd(k) \in Nat
         /\ NewStart(k) <= NewEnd(k) /\ NewEnd(k) <= Len(NewBytes(d))
         /\ NewPayload(k) \in Seq(Bytes) /\ Len(NewPayload(k)) = NewEnd(k) - NewStart(k)
         /\ \A n \in 1 .. Len(NewPayload(k)) : NewPayload(k)[n] = NewBytes(d)[NewStart(k) + n]
<1>1. PICK len \in Nat, es \in {Edits(d)} : len = input.old_len[d]
  BY InputFacts
<1>2. IsEditList(es, len, NewLen(es, len))
  BY <1>1, InputFacts
<1>3. PICK from \in Nat, to \in Nat : from = OldStart(k) /\ to = OldEnd(k)
  BY SegmentFacts, SeqHalfAssumption
<1>4. from <= to /\ to <= len /\ input.packets[k].dir = d
  BY <1>1, <1>3, SegmentFacts
<1>5. NewStart(k) = MapOffset(from, es) /\ NewEnd(k) = MapOffset(to, es)
  BY <1>1, <1>3, <1>4 DEF NewStart, NewEnd
<1>6. MapOffset(from, es) \in Nat /\ MapOffset(to, es) \in Nat
  BY <1>2, MapOffsetNat
<1>7. MapOffset(from, es) <= MapOffset(to, es)
  BY <1>2, <1>4, MapOffsetIsMonotonic
<1>8. MapOffset(to, es) <= MapOffset(len, es)
  BY <1>2, <1>4, MapOffsetIsMonotonic
<1>9. MapOffset(len, es) = Len(NewBytes(d))
  BY <1>1, <1>2, EndLandsAtEnd DEF NewBytes
<1>10. NewBytes(d) \in Seq(Bytes)
  BY NewBytesType
<1>11. PICK s \in Seq(Bytes), a \in Nat, b \in Nat :
         s = NewBytes(d) /\ a = NewStart(k) /\ b = NewEnd(k)
  BY <1>5, <1>6, <1>10
<1>12. a <= b /\ b <= Len(s)
  BY <1>5, <1>7, <1>8, <1>9, <1>11
<1>13. NewPayload(k) = Slice(s, a, b)
  BY <1>4, <1>11 DEF NewPayload
<1>14. /\ Slice(s, a, b) \in Seq(Bytes) /\ Len(Slice(s, a, b)) = b - a
       /\ \A n \in 1 .. b - a : Slice(s, a, b)[n] = s[a + n]
  BY <1>12, SliceWithin
<1> QED BY <1>11, <1>12, <1>13, <1>14

LEMMA QuietFacts ==
  ASSUME IsInput(input), NEW d \in Directions, Edits(d) = << >>
  PROVE  /\ NewBytes(d) = OldStream(input.old_len[d])
         /\ \A p \in Nat : MapOffset(p, Edits(d)) = p
BY InputFacts, NoEdits DEF NewBytes

-----------------------------------------------------------------------------
(***************************************************************************)
(* Queues of flows, and the ends of sets of packets.                       *)
(***************************************************************************)
LEMMA QueueHead ==
  ASSUME NEW q \in Seq(Directions), q # << >>, IsInjective(q)
  PROVE  /\ Head(q) \in Directions /\ Head(q) \in Range(q)
         /\ Tail(q) \in Seq(Directions) /\ IsInjective(Tail(q))
         /\ Range(Tail(q)) = Range(q) \ {Head(q)}
<1>1. Len(q) \in Nat /\ Len(q) >= 1 /\ DOMAIN q = 1 .. Len(q)
  BY EmptySeq
<1>2. Head(q) = q[1] /\ q[1] \in Directions
  BY <1>1
<1>3. PICK t \in Seq(Directions) : t = Tail(q)
  <2>1. Tail(q) \in Seq(Directions)
    BY HeadTailProperties
  <2> QED BY <2>1
<1>4. DOMAIN t = 1 .. Len(q) - 1 /\ \A i \in 1 .. Len(q) - 1 : t[i] = q[i + 1]
  BY <1>1, <1>3
<1>5. \A i, j \in 1 .. Len(q) : q[i] = q[j] => i = j
  BY <1>1 DEF IsInjective
<1>6. IsInjective(t)
  <2> SUFFICES ASSUME NEW i \in 1 .. Len(q) - 1, NEW j \in 1 .. Len(q) - 1, t[i] = t[j]
               PROVE  i = j
    BY <1>4 DEF IsInjective
  <2>1. i + 1 \in 1 .. Len(q) /\ j + 1 \in 1 .. Len(q)
    BY <1>1
  <2> QED BY <2>1, <1>4, <1>5
<1>7. ASSUME NEW e \in Range(t) PROVE e \in Range(q) \ {Head(q)}
  <2>1. PICK i \in 1 .. Len(q) - 1 : e = t[i]
    BY <1>4, <1>7 DEF Range
  <2>2. i + 1 \in 1 .. Len(q) /\ i + 1 # 1 /\ 1 \in 1 .. Len(q)
    BY <1>1
  <2>3. e = q[i + 1] /\ e # q[1]
    BY <2>1, <2>2, <1>4, <1>5
  <2> QED BY <2>2, <2>3, <1>1, <1>2 DEF Range
<1>8. ASSUME NEW e \in Range(q) \ {Head(q)} PROVE e \in Range(t)
  <2>1. PICK i \in 1 .. Len(q) : e = q[i]
    BY <1>1, <1>8 DEF Range
  <2>2. i # 1
    BY <2>1, <1>2, <1>8
  <2>3. i - 1 \in 1 .. Len(q) - 1 /\ i - 1 + 1 = i
    BY <2>2, <1>1
  <2>4. e = t[i - 1] /\ i - 1 \in DOMAIN t
    BY <2>1, <2>3, <1>4
  <2> QED BY <2>4 DEF Range
<1>9. Head(q) \in Range(q)
  <2>1. 1 \in DOMAIN q
    BY <1>1
  <2> QED BY <2>1, <1>2 DEF Range
<1>10. Range(t) = Range(q) \ {Head(q)}
  BY <1>7, <1>8
<1>11. Head(q) \in Directions
  BY <1>2
<1> QED BY <1>3, <1>6, <1>9, <1>10, <1>11

LEMMA QueueAppend ==
  ASSUME NEW S, NEW q \in Seq(S), NEW d \in S
  PROVE  /\ Append(q, d) \in Seq(S) /\ Range(Append(q, d)) = Range(q) \cup {d}
         /\ IsInjective(q) /\ d \notin Range(q) => IsInjective(Append(q, d))
<1>1. PICK a \in Seq(S) : a = Append(q, d)
  <2>1. Append(q, d) \in Seq(S)
    BY AppendProperties
  <2> QED BY <2>1
<1>2. /\ Len(q) \in Nat /\ DOMAIN q = 1 .. Len(q) /\ DOMAIN a = 1 .. Len(q) + 1
      /\ \A i \in 1 .. Len(q) : a[i] = q[i]
      /\ a[Len(q) + 1] = d
  BY <1>1
<1>3. \A e : e \in Range(a) => e \in Range(q) \cup {d}
  <2> SUFFICES ASSUME NEW i \in 1 .. Len(q) + 1 PROVE a[i] \in Range(q) \cup {d}
    BY <1>2 DEF Range
  <2>1. i \in 1 .. Len(q) \/ i = Len(q) + 1
    BY <1>2
  <2> QED BY <2>1, <1>2 DEF Range
<1>4. \A e : e \in Range(q) => e \in Range(a)
  <2> SUFFICES ASSUME NEW i \in 1 .. Len(q) PROVE q[i] \in Range(a)
    BY <1>2 DEF Range
  <2>1. i \in DOMAIN a /\ q[i] = a[i]
    BY <1>2
  <2> QED BY <2>1 DEF Range
<1>5. d \in Range(a)
  <2>1. Len(q) + 1 \in DOMAIN a /\ d = a[Len(q) + 1]
    BY <1>2
  <2> QED BY <2>1 DEF Range
<1>6. Range(a) = Range(q) \cup {d}
  BY <1>3, <1>4, <1>5
<1>7. ASSUME IsInjective(q), d \notin Range(q) PROVE IsInjective(a)
  <2>1. \A i \in 1 .. Len(q) : q[i] # d
    BY <1>2, <1>7 DEF Range
  <2>2. \A i, j \in 1 .. Len(q) : q[i] = q[j] => i = j
    BY <1>2, <1>7 DEF IsInjective
  <2> SUFFICES ASSUME NEW i \in 1 .. Len(q) + 1, NEW j \in 1 .. Len(q) + 1, a[i] = a[j]
               PROVE  i = j
    BY <1>2 DEF IsInjective
  <2>3. i \in 1 .. Len(q) \/ i = Len(q) + 1
    BY <1>2
  <2>4. j \in 1 .. Len(q) \/ j = Len(q) + 1
    BY <1>2
  <2> QED BY <2>1, <2>2, <2>3, <2>4, <1>2
<1>8. a \in Seq(S)
  OBVIOUS
<1> QED BY <1>1, <1>6, <1>7, <1>8

LEMMA EmptyQueue == << >> \in Seq(Directions) /\ Range(<< >>) = {} /\ IsInjective(<< >>)
BY DEF Range, IsInjective

LEMMA GreatestElement ==
  ASSUME NEW bound \in Nat, NEW T, T \subseteq 0 .. bound, T # {}
  PROVE  \E x \in T : \A y \in T : y <= x
<1> DEFINE U == {bound - x : x \in T}
<1>1. U \subseteq Nat /\ U # {}
  <2>1. \A x \in T : bound - x \in Nat
    OBVIOUS
  <2> QED BY <2>1
<1>2. PICK u \in U : \A v \in U : u <= v
  BY <1>1, LeastElement
<1>3. PICK x \in T : u = bound - x
  OBVIOUS
<1>4. ASSUME NEW y \in T PROVE y <= x
  <2>1. u <= bound - y
    BY <1>2
  <2>2. x \in 0 .. bound /\ y \in 0 .. bound
    OBVIOUS
  <2> QED BY <2>1, <2>2, <1>3
<1> QED BY <1>4

LEMMA LeastAndGreatest ==
  ASSUME IsInput(input), NEW S, S \subseteq Indices, S # {}
  PROVE  Min(S) \in S /\ Max(S) \in S
<1>1. S \subseteq 0 .. Len(input.packets) /\ Len(input.packets) \in Nat
  BY InputFacts
<1>2. \E x \in S : \A y \in S : x <= y
  <2>1. S \subseteq Nat
    BY <1>1
  <2> QED BY <2>1, LeastElement
<1>3. \E x \in S : \A y \in S : y <= x
  BY <1>1, GreatestElement
<1>4. Min(S) \in S
  BY <1>2 DEF Min
<1>5. Max(S) \in S
  <2>1. \E x \in S : \A y \in S : x >= y
    <3>1. PICK x \in S : \A y \in S : y <= x
      BY <1>3
    <3>2. \A y \in S : x >= y
      BY <3>1, <1>1
    <3> QED BY <3>2
  <2> QED BY <2>1 DEF Max
<1> QED BY <1>4, <1>5

(***************************************************************************)
(* A flow with segments has a primary segment, and a last one.             *)
(***************************************************************************)
LEMMA PrimaryExists ==
  ASSUME IsInput(input), NEW d \in Directions, Segments(d) # {}
  PROVE  Primaries(d) # {}
<1>1. \A k \in Segments(d) : /\ k \in Nat /\ OldStart(k) \in Nat /\ OldEnd(k) \in Nat
                             /\ OldStart(k) < OldEnd(k) /\ OldEnd(k) <= input.old_len[d]
                             /\ input.packets[k].dir = d
  BY SegmentFacts, SeqHalfAssumption
<1>2. PICK a \in {OldStart(k) : k \in Segments(d)} :
        \A b \in {OldStart(k) : k \in Segments(d)} : a <= b
  <2>1. {OldStart(k) : k \in Segments(d)} \subseteq Nat
    BY <1>1
  <2>2. {OldStart(k) : k \in Segments(d)} # {}
    OBVIOUS
  <2> QED BY <2>1, <2>2, LeastElement
<1>3. \A k \in Segments(d) : a <= OldStart(k)
  BY <1>2
<1> DEFINE S == {k \in Segments(d) : OldStart(k) = a}
<1>4. S # {} /\ input.old_len[d] \in Nat
  BY <1>2, InputFacts
<1>5. PICK z \in {OldEnd(k) : k \in S} : \A b \in {OldEnd(k) : k \in S} : b <= z
  <2>1. {OldEnd(k) : k \in S} \subseteq 0 .. input.old_len[d]
    BY <1>1, <1>4
  <2>2. {OldEnd(k) : k \in S} # {}
    BY <1>4
  <2> QED BY <2>1, <2>2, <1>4, GreatestElement
<1>6. \A k \in S : OldEnd(k) <= z
  BY <1>5
<1> DEFINE T == {k \in S : OldEnd(k) = z}
<1>7. PICK k \in T : \A m \in T : k <= m
  <2>1. T \subseteq Nat
    BY <1>1
  <2>2. T # {}
    BY <1>5
  <2> QED BY <2>1, <2>2, LeastElement
<1>8. k \in Segments(d) /\ OldStart(k) = a /\ OldEnd(k) = z
  BY <1>7
<1>9. ASSUME NEW m \in Segments(d) PROVE ~WrittenBefore(m, k)
  <2>1. a <= OldStart(m) /\ OldStart(m) \in Nat /\ OldEnd(m) \in Nat /\ m \in Nat
    BY <1>1, <1>3
  <2>2. OldStart(m) = a => OldEnd(m) <= z
    BY <1>6
  <2>3. OldStart(m) = a /\ OldEnd(m) = z => k <= m
    BY <1>7
  <2>4. a \in Nat /\ z \in Nat /\ k \in Nat
    BY <1>1, <1>8
  <2> QED BY <2>1, <2>2, <2>3, <2>4, <1>8 DEF WrittenBefore
<1>10. OldStart(k) \in OldStart(k) .. OldEnd(k) - 1
  BY <1>1, <1>8
<1>11. IsPrimary(k)
  BY <1>1, <1>8, <1>9, <1>10 DEF IsPrimary
<1> QED BY <1>8, <1>11 DEF Primaries

LEMMA LastPrimaryFacts ==
  ASSUME IsInput(input), flow \in Directions, Segments(flow) # {}
  PROVE  LastPrimary \in Primaries(flow) /\ LastPrimary \in Segments(flow)
<1>1. \A k \in Primaries(flow) :
        k \in Segments(flow) /\ k \in 0 .. Len(input.packets) /\ OldStart(k) \in 0 .. SeqHalf - 1
  BY SegmentFacts, InputFacts DEF Primaries
<1>2. Primaries(flow) # {} /\ Len(input.packets) \in Nat /\ SeqHalf - 1 \in Nat
  BY PrimaryExists, InputFacts, SeqHalfAssumption
<1>3. PICK a \in {OldStart(k) : k \in Primaries(flow)} :
        \A b \in {OldStart(k) : k \in Primaries(flow)} : b <= a
  <2>1. {OldStart(k) : k \in Primaries(flow)} \subseteq 0 .. SeqHalf - 1
    BY <1>1
  <2>2. {OldStart(k) : k \in Primaries(flow)} # {}
    BY <1>2
  <2> QED BY <2>1, <2>2, <1>2, GreatestElement
<1> DEFINE S == {k \in Primaries(flow) : OldStart(k) = a}
<1>4. PICK k \in S : \A m \in S : m <= k
  <2>1. S \subseteq 0 .. Len(input.packets)
    BY <1>1
  <2>2. S # {}
    BY <1>3
  <2> QED BY <2>1, <2>2, <1>2, GreatestElement
<1>5. ASSUME NEW m \in Primaries(flow) \ {k} PROVE InStreamOrder(m, k)
  <2>1. OldStart(m) <= a /\ OldStart(k) = a
    BY <1>3, <1>4
  <2>2. OldStart(m) = a => m <= k
    BY <1>4
  <2>3. m # k /\ m \in 0 .. Len(input.packets) /\ k \in 0 .. Len(input.packets)
    BY <1>1, <1>4
  <2>4. OldStart(m) \in 0 .. SeqHalf - 1 /\ a \in 0 .. SeqHalf - 1
    BY <1>1, <2>1
  <2> QED BY <2>1, <2>2, <2>3, <2>4, <1>2 DEF InStreamOrder
<1>6. \E l \in Primaries(flow) : \A m \in Primaries(flow) \ {l} : InStreamOrder(m, l)
  BY <1>4, <1>5
<1>7. LastPrimary \in Primaries(flow)
  BY <1>6 DEF LastPrimary
<1> QED BY <1>7 DEF Primaries

-----------------------------------------------------------------------------
(***************************************************************************)
(* What holds whatever the flows look like: the packets keep their         *)
(* direction, no flow waits twice, and only segments of the flow at work   *)
(* are visited.                                                            *)
(***************************************************************************)
Waits(d) == d \in Range(preserve_flows) \/ d \in Range(merged_flows)

PacketsOK ==
  /\ packets \in [Indices -> Packet]
  /\ \A k \in Indices : packets[k].dir = input.packets[k].dir
  /\ \A k \in Indices : input.packets[k].data = << >> => packets[k].data = << >>

QueuesOK ==
  /\ preserve_flows \in Seq(Directions) /\ merged_flows \in Seq(Directions)
  /\ IsInjective(preserve_flows) /\ IsInjective(merged_flows)
  /\ Range(preserve_flows) \cap Range(merged_flows) = {}
  /\ \A d \in Directions : Waits(d) => Segments(d) # {}
  /\ \A d \in Directions : d \in Range(preserve_flows) => input.handling[d] = "preserve"
  /\ \A d \in Directions : d \in Range(merged_flows) => input.handling[d] # "unchanged"

FlowOK ==
  /\ flow \in Directions
  /\ phase \in {"next", "preserve", "fill", "remap", "adjusted", "done"}
  /\ phase \in {"preserve", "fill", "remap"} =>
       ~Waits(flow) /\ Segments(flow) # {} /\ input.handling[flow] # "unchanged"
  /\ phase = "preserve" => input.handling[flow] = "preserve"
  /\ phase \in {"fill", "remap"} => preserve_flows = << >> /\ Edits(flow) # << >>
  /\ phase \in {"adjusted", "done"} => preserve_flows = << >> /\ merged_flows = << >>

TodoOK ==
  /\ phase \in {"next", "done"} => todo = {}
  /\ phase = "adjusted" => todo \subseteq Indices
  /\ phase \in {"preserve", "fill"} => todo \subseteq Primaries(flow)
  /\ phase = "remap" => todo \subseteq Retransmissions(flow)
  /\ phase \in {"adjusted", "done"} \/ output = << >>

FilledOK ==
  /\ cursor \in Nat
  /\ filled \in Seq(Indices) /\ Range(filled) \subseteq Segments(flow)
  /\ phase = "preserve" \/ preserve_flows # << >> => filled = << >>

NewSeqOK ==
  /\ DOMAIN packet_new_seq \subseteq Indices
  /\ \A k \in DOMAIN packet_new_seq :
       packet_new_seq[k] \in SeqNumbers /\ input.packets[k].data # << >>

OverridesOK ==
  /\ DOMAIN ack_overrides \subseteq Indices
  /\ \A k \in DOMAIN ack_overrides : ack_overrides[k] \in SeqNumbers

InsertsOK ==
  /\ deleted_indices \subseteq Indices
  /\ insert_after \in [Indices -> Seq(Packet)]
  /\ extra_packets \in Seq(Packet) /\ output \in Seq(Packet)

BaseInv ==
  IsInput(input) /\ PacketsOK /\ QueuesOK /\ FlowOK /\ TodoOK /\ FilledOK /\ NewSeqOK
  /\ OverridesOK /\ InsertsOK

LEMMA BaseInvTypes ==
  ASSUME BaseInv
  PROVE  TypeOK
<1>1. packets \in [Indices -> Packet] /\ flow \in Directions
      /\ phase \in {"next", "preserve", "fill", "remap", "adjusted", "done"}
  BY DEF BaseInv, PacketsOK, FlowOK
<1>2. preserve_flows \in Seq(Directions) /\ merged_flows \in Seq(Directions)
  BY DEF BaseInv, QueuesOK
<1>3. todo \subseteq IF phase = "adjusted" THEN Indices ELSE Segments(flow)
  BY <1>1 DEF BaseInv, TodoOK, Primaries, Retransmissions
<1>4. Range(filled) \subseteq Segments(flow) /\ cursor \in Nat
  BY DEF BaseInv, FilledOK
<1>5. /\ DOMAIN packet_new_seq \subseteq Indices /\ Range(packet_new_seq) \subseteq SeqNumbers
      /\ DOMAIN ack_overrides \subseteq Indices /\ Range(ack_overrides) \subseteq SeqNumbers
  BY DEF BaseInv, NewSeqOK, OverridesOK, Range
<1>6. /\ deleted_indices \subseteq Indices /\ insert_after \in [Indices -> Seq(Packet)]
      /\ extra_packets \in Seq(Packet) /\ output \in Seq(Packet)
  BY DEF BaseInv, InsertsOK
<1> QED BY <1>1, <1>2, <1>3, <1>4, <1>5, <1>6 DEF TypeOK

-----------------------------------------------------------------------------
(***************************************************************************)
(* Each part depends on few variables only.                                *)
(***************************************************************************)
LEMMA PacketsFrame ==
  ASSUME PacketsOK, UNCHANGED <<input, packets>>
  PROVE  PacketsOK'
BY DEF PacketsOK, Indices

LEMMA QueuesFrame ==
  ASSUME QueuesOK, UNCHANGED <<input, preserve_flows, merged_flows>>
  PROVE  QueuesOK'
BY InputFrame DEF QueuesOK, Waits

LEMMA FlowFrame ==
  ASSUME FlowOK, UNCHANGED <<input, flow, phase, preserve_flows, merged_flows>>
  PROVE  FlowOK'
<1>1. Segments(flow)' = Segments(flow) /\ Edits(flow)' = Edits(flow)
  BY DEF Segments, Edits, Indices
<1> QED BY <1>1 DEF FlowOK, Waits

LEMMA FilledFrame ==
  ASSUME FilledOK, UNCHANGED <<input, flow, phase, preserve_flows, cursor, filled>>
  PROVE  FilledOK'
<1>1. Segments(flow)' = Segments(flow) /\ Indices' = Indices
  BY DEF Segments, Indices
<1> QED BY <1>1 DEF FilledOK

LEMMA NewSeqFrame ==
  ASSUME NewSeqOK, UNCHANGED <<input, packet_new_seq>>
  PROVE  NewSeqOK'
BY DEF NewSeqOK, Indices

LEMMA OverridesFrame ==
  ASSUME OverridesOK, UNCHANGED <<input, ack_overrides>>
  PROVE  OverridesOK'
BY DEF OverridesOK, Indices

LEMMA InsertsFrame ==
  ASSUME InsertsOK, UNCHANGED <<input, deleted_indices, insert_after, extra_packets, output>>
  PROVE  InsertsOK'
BY DEF InsertsOK, Indices

\* The segments of the flow at work are the same in the next step.
LEMMA FlowSets ==
  ASSUME UNCHANGED <<input, flow>>
  PROVE  /\ Primaries(flow)' = Primaries(flow)
         /\ Retransmissions(flow)' = Retransmissions(flow)
         /\ Segments(flow)' = Segments(flow) /\ Indices' = Indices
         /\ Edits(flow)' = Edits(flow) /\ NewBytes(flow)' = NewBytes(flow)
         /\ Base(flow)' = Base(flow)
<1>1. Segments(flow)' = Segments(flow) /\ Indices' = Indices
      /\ Edits(flow)' = Edits(flow) /\ Base(flow)' = Base(flow)
  BY DEF Segments, Indices, Edits, Base
<1>2. \A k : IsPrimary(k)' = IsPrimary(k)
  BY PrimaryFrame
<1> QED BY <1>1, <1>2 DEF Primaries, Retransmissions, NewBytes

-----------------------------------------------------------------------------
(***************************************************************************)
(* The queues of the initial states.                                       *)
(***************************************************************************)
LEMMA QueuesExist ==
  ASSUME IsInput(input), NEW how
  PROVE  LET flows == FlowsToHandle(input, how) IN
         /\ flows \in Seq(Directions) /\ IsInjective(flows)
         /\ Range(flows) = {d \in Directions : input.handling[d] = how /\ Segments(d) # {}}
<1> DEFINE D == {d \in Directions :
                   /\ input.handling[d] = how
                   /\ \E i \in DOMAIN input.packets :
                        input.packets[i].dir = d /\ input.packets[i].data # << >>}
           Five == {<< >>, <<"client">>, <<"server">>, <<"client", "server">>,
                    <<"server", "client">>}
           Fits(q) == Range(q) = D /\ (Len(q) = 2 => q[1] = input.packets[1].dir)
<1>1. D \in SUBSET Directions
  OBVIOUS
<1>2. /\ Range(<< >>) = {} /\ Range(<<"client">>) = {"client"} /\ Range(<<"server">>) = {"server"}
      /\ Range(<<"client", "server">>) = Directions
      /\ Range(<<"server", "client">>) = Directions
  BY DEF Range, Directions
<1>3. D = {} \/ D = {"client"} \/ D = {"server"} \/ D = Directions
  BY DEF Directions
<1>4. \E q \in Five : Fits(q)
  <2>1. CASE D = {}
    BY <2>1, <1>2
  <2>2. CASE D = {"client"}
    BY <2>2, <1>2
  <2>3. CASE D = {"server"}
    BY <2>3, <1>2
  <2>4. CASE D = Directions
    <3>1. PICK i \in DOMAIN input.packets : input.packets[i].dir = "client"
      <4>1. "client" \in D
        BY <2>4 DEF Directions
      <4> QED BY <4>1
    <3>2. 1 \in Indices
      BY <3>1, InputFacts DEF Indices
    <3>3. input.packets[1].dir \in Directions
      BY <3>2, InputFacts, PacketFields
    <3>4. input.packets[1].dir = "client" \/ input.packets[1].dir = "server"
      BY <3>3 DEF Directions
    <3>5. CASE input.packets[1].dir = "client"
      BY <3>5, <2>4, <1>2
    <3>6. CASE input.packets[1].dir = "server"
      BY <3>6, <2>4, <1>2
    <3> QED BY <3>4, <3>5, <3>6
  <2> QED BY <1>3, <2>1, <2>2, <2>3, <2>4
<1>5. FlowsToHandle(input, how) = CHOOSE q \in Five : Fits(q)
  BY DEF FlowsToHandle
<1>6. PICK q \in Five : q = FlowsToHandle(input, how) /\ Fits(q)
  BY <1>4, <1>5
<1>7. q \in Seq(Directions) /\ IsInjective(q)
  <2>1. "client" \in Directions /\ "server" \in Directions /\ "client" # "server"
    BY DEF Directions
  <2>2. CASE q = << >>
    BY <2>2, EmptyQueue
  <2>3. CASE q = <<"client">>
    BY <2>1, <2>3 DEF IsInjective
  <2>6. CASE q = <<"server">>
    BY <2>1, <2>6 DEF IsInjective
  <2>4. CASE q = <<"client", "server">>
    BY <2>1, <2>4 DEF IsInjective
  <2>5. CASE q = <<"server", "client">>
    BY <2>1, <2>5 DEF IsInjective
  <2> QED BY <2>2, <2>3, <2>4, <2>5, <2>6
<1>8. D = {d \in Directions : input.handling[d] = how /\ Segments(d) # {}}
  BY DEF Segments, Indices
<1> QED BY <1>6, <1>7, <1>8

LEMMA BaseInit ==
  ASSUME Init
  PROVE  BaseInv
<1> USE DEF Init
<1>1. IsInput(input)
  BY InputsAssumption
<1>2. PacketsOK
  <2>1. input.packets \in [Indices -> Packet]
    <3>1. input.packets \in Seq(Packet)
      BY <1>1 DEF IsInput
    <3> QED BY <3>1, LenProperties DEF Indices
  <2> QED BY <2>1 DEF PacketsOK
<1>3. QueuesOK
  <2>1. /\ preserve_flows \in Seq(Directions) /\ IsInjective(preserve_flows)
        /\ merged_flows \in Seq(Directions) /\ IsInjective(merged_flows)
    BY <1>1, QueuesExist
  <2>2. Range(preserve_flows) =
          {d \in Directions : input.handling[d] = "preserve" /\ Segments(d) # {}}
    BY <1>1, QueuesExist
  <2>3. Range(merged_flows) =
          {d \in Directions : input.handling[d] = "merge" /\ Segments(d) # {}}
    BY <1>1, QueuesExist
  <2>4. "preserve" # "merge" /\ "merge" # "unchanged"
    OBVIOUS
  <2>5. Range(preserve_flows) \cap Range(merged_flows) = {}
    BY <2>2, <2>3, <2>4
  <2> HIDE DEF Init
  <2> QED BY <2>1, <2>2, <2>3, <2>4, <2>5 DEF QueuesOK, Waits
<1>4. FlowOK
  BY DEF FlowOK, Directions
<1>5. TodoOK
  BY DEF TodoOK
<1>6. FilledOK
  <2>1. << >> \in Seq(Indices) /\ Range(<< >>) = {}
    BY DEF Range
  <2> QED BY <2>1 DEF FilledOK
<1>7. NewSeqOK /\ OverridesOK
  BY DEF NewSeqOK, OverridesOK
<1>8. InsertsOK
  <2>1. << >> \in Seq(Packet)
    BY EmptySeq
  <2> QED BY <2>1 DEF InsertsOK
<1> QED BY <1>1, <1>2, <1>3, <1>4, <1>5, <1>6, <1>7, <1>8 DEF BaseInv

-----------------------------------------------------------------------------
(***************************************************************************)
(* The steps of a flow that keeps its packets.                             *)
(***************************************************************************)
LEMMA BaseBeginPreserve ==
  ASSUME BaseInv, BeginPreserve
  PROVE  BaseInv'
<1> USE DEF BeginPreserve
<1>1. IsInput(input)' /\ PacketsOK' /\ NewSeqOK' /\ OverridesOK' /\ InsertsOK'
  BY PacketsFrame, NewSeqFrame, OverridesFrame, InsertsFrame DEF BaseInv, plan
<1>2. PICK q \in Seq(Directions) : q = preserve_flows /\ q # << >> /\ IsInjective(q)
  BY DEF BaseInv, QueuesOK
<1>3. /\ Head(q) \in Directions /\ Head(q) \in Range(q)
      /\ Tail(q) \in Seq(Directions) /\ IsInjective(Tail(q))
      /\ Range(Tail(q)) = Range(q) \ {Head(q)}
  BY <1>2, QueueHead
<1>4. flow' = Head(q) /\ preserve_flows' = Tail(q) /\ merged_flows' = merged_flows
  BY <1>2
<1>5. QueuesOK'
  BY <1>2, <1>3, <1>4, InputFrame DEF BaseInv, QueuesOK, Waits
<1>6. FlowOK'
  <2>1. ~Waits(flow)'
    BY <1>2, <1>3, <1>4 DEF BaseInv, QueuesOK, Waits
  <2>2. input.handling[Head(q)] = "preserve" /\ Segments(Head(q)) # {}
    BY <1>2, <1>3 DEF BaseInv, QueuesOK, Waits
  <2>3. Segments(flow)' = Segments(Head(q))
    BY <1>4 DEF Segments, Indices
  <2> QED BY <1>3, <1>4, <2>1, <2>2, <2>3 DEF FlowOK
<1>7. TodoOK'
  <2>1. Primaries(Head(q))' = Primaries(Head(q))
    BY PrimaryFrame
  <2>2. Primaries(flow)' = Primaries(Head(q))
    <3>1. \A k : IsPrimary(k)' = IsPrimary(k)
      BY PrimaryFrame
    <3> QED BY <3>1, <1>4 DEF Primaries, Segments, Indices
  <2>3. output' = << >>
    BY DEF BaseInv, TodoOK
  <2> QED BY <1>2, <2>2, <2>3 DEF TodoOK
<1>8. FilledOK'
  <2>1. filled' = << >> /\ cursor' \in Nat
    BY DEF BaseInv, FilledOK
  <2>2. << >> \in Seq(Indices') /\ Range(<< >>) = {}
    BY DEF Range
  <2> QED BY <2>1, <2>2 DEF FilledOK
<1> QED BY <1>1, <1>5, <1>6, <1>7, <1>8 DEF BaseInv

LEMMA NewSeqGrows ==
  ASSUME NewSeqOK, UNCHANGED input, NEW k \in Indices, input.packets[k].data # << >>,
         NEW seq \in SeqNumbers, packet_new_seq' = With(packet_new_seq, k, seq)
  PROVE  NewSeqOK'
<1>1. DOMAIN packet_new_seq' = DOMAIN packet_new_seq \cup {k} /\ packet_new_seq'[k] = seq
  BY DEF With
<1>2. \A i \in DOMAIN packet_new_seq : i # k => packet_new_seq'[i] = packet_new_seq[i]
  BY DEF With
<1>3. Indices' = Indices
  BY DEF Indices
<1> QED BY <1>1, <1>2, <1>3 DEF NewSeqOK

LEMMA BasePreserveSegment ==
  ASSUME BaseInv, NEW k \in todo, PreserveSegment(k)
  PROVE  BaseInv'
<1> USE DEF PreserveSegment
<1>1. IsInput(input)' /\ OverridesOK' /\ InsertsOK' /\ QueuesOK' /\ FlowOK' /\ FilledOK'
  BY OverridesFrame, InsertsFrame, QueuesFrame, FlowFrame, FilledFrame DEF BaseInv
<1>2. flow \in Directions /\ IsInput(input) /\ k \in Segments(flow)
  BY DEF BaseInv, FlowOK, TodoOK, Primaries
<1>3. TodoOK'
  <2>1. todo' \subseteq Primaries(flow) /\ output' = << >>
    BY DEF BaseInv, TodoOK
  <2> QED BY <2>1, FlowSets DEF TodoOK
<1>4. k \in Indices /\ input.packets[k].dir = flow /\ input.packets[k].data # << >>
  BY <1>2, SegmentFacts
<1>5. PICK seq \in SeqNumbers : seq = SeqAdd(Base(flow), NewStart(k))
  BY <1>2, InputFacts, NewSegmentFacts, SeqAddType
<1>6. PICK data \in Seq(Bytes) : data = NewPayload(k)
  BY <1>2, NewSegmentFacts
<1>7. PacketsOK' /\ NewSeqOK'
  <2>1. CASE NewPayload(k) = input.packets[k].data
    BY <2>1, PacketsFrame, NewSeqFrame DEF BaseInv
  <2>2. CASE NewPayload(k) # input.packets[k].data
    <3>1. packets' = [packets EXCEPT ![k] = WithPayload(@, seq, data)]
      BY <2>2, <1>5, <1>6
    <3>2. packet_new_seq' = With(packet_new_seq, k, seq)
      BY <2>2, <1>5
    <3>3. NewSeqOK'
      BY <3>2, <1>4, NewSeqGrows DEF BaseInv
    <3>4. packets[k] \in Packet /\ packets[k].dir = flow
      BY <1>4 DEF BaseInv, PacketsOK
    <3>5. PICK new : new = WithPayload(packets[k], seq, data)
      OBVIOUS
    <3>6. new \in Packet /\ new.dir = flow
      BY <3>4, <3>5 DEF WithPayload, Packet, Bytes
    <3>7. packets' = [packets EXCEPT ![k] = new]
      BY <3>1, <3>5
    <3> HIDE DEF PreserveSegment
    <3>8. PacketsOK'
      BY <3>6, <3>7, <1>1, <1>4, InputFrame DEF BaseInv, PacketsOK, PreserveSegment
    <3> QED BY <3>3, <3>8
  <2> QED BY <2>1, <2>2
<1> QED BY <1>1, <1>3, <1>7 DEF BaseInv

LEMMA BaseDegradeFlow ==
  ASSUME BaseInv, DegradeFlow
  PROVE  BaseInv'
<1> USE DEF DegradeFlow
<1>1. IsInput(input)' /\ PacketsOK' /\ NewSeqOK' /\ OverridesOK' /\ InsertsOK'
  BY PacketsFrame, NewSeqFrame, OverridesFrame, InsertsFrame DEF BaseInv, plan
<1>2. PICK q \in Seq(Directions) : q = merged_flows /\ IsInjective(q)
  BY DEF BaseInv, QueuesOK
<1>3. /\ flow \in Directions /\ flow \notin Range(preserve_flows) /\ flow \notin Range(q)
      /\ Segments(flow) # {} /\ input.handling[flow] = "preserve"
  BY <1>2 DEF BaseInv, FlowOK, Waits
<1>4. PICK a : a = Append(q, flow)
  OBVIOUS
<1>5. a \in Seq(Directions) /\ IsInjective(a) /\ Range(a) = Range(q) \cup {flow}
  BY <1>2, <1>3, <1>4, QueueAppend
<1>6. merged_flows' = a /\ preserve_flows' = preserve_flows
  BY <1>2, <1>4
<1>7. QueuesOK'
  <2>1. \A d \in Directions : Waits(d)' => Waits(d) \/ d = flow
    BY <1>2, <1>5, <1>6 DEF Waits
  <2>2. \A d \in Directions : Waits(d)' => Segments(d)' # {}
    BY <2>1, <1>3, InputFrame DEF BaseInv, QueuesOK
  <2>3. Range(preserve_flows) \cap Range(a) = {}
    BY <1>2, <1>3, <1>5 DEF BaseInv, QueuesOK
  <2>4. \A d \in Directions : d \in Range(a) => input.handling[d] # "unchanged"
    BY <1>2, <1>3, <1>5 DEF BaseInv, QueuesOK
  <2> QED BY <2>2, <2>3, <2>4, <1>5, <1>6 DEF BaseInv, QueuesOK
<1>8. FlowOK'
  BY <1>3 DEF FlowOK
<1>9. TodoOK'
  BY DEF BaseInv, TodoOK
<1>10. FilledOK'
  BY FlowSets DEF BaseInv, FilledOK
<1> QED BY <1>1, <1>7, <1>8, <1>9, <1>10 DEF BaseInv

LEMMA BaseEndPreserve ==
  ASSUME BaseInv, EndPreserve
  PROVE  BaseInv'
<1> USE DEF EndPreserve
<1>1. IsInput(input)' /\ PacketsOK' /\ NewSeqOK' /\ OverridesOK' /\ InsertsOK' /\ QueuesOK'
  BY PacketsFrame, NewSeqFrame, OverridesFrame, InsertsFrame, QueuesFrame DEF BaseInv, plan
<1>2. FlowOK'
  BY DEF BaseInv, FlowOK
<1>3. TodoOK'
  BY DEF BaseInv, TodoOK
<1>4. FilledOK'
  BY FlowSets DEF BaseInv, FilledOK
<1> QED BY <1>1, <1>2, <1>3, <1>4 DEF BaseInv

-----------------------------------------------------------------------------
(***************************************************************************)
(* What the steps of a merged flow are built from: the next chunk of the   *)
(* new stream, cloned and overridden ACKs, and the pieces of a segment.    *)
(***************************************************************************)
LEMMA ChunkFacts ==
  ASSUME IsInput(input), flow \in Directions, cursor \in Nat, NEW capacity \in Nat \ {0}
  PROVE  /\ Chunk(capacity) \in Seq(Bytes) /\ Len(Chunk(capacity)) \in Nat
         /\ Chunk(capacity) = << >> <=> cursor >= Len(NewBytes(flow))
         /\ Chunk(capacity) # << >> =>
              /\ Len(Chunk(capacity)) # 0
              /\ cursor + Len(Chunk(capacity)) <= Len(NewBytes(flow))
              /\ \A n \in 1 .. Len(Chunk(capacity)) :
                   Chunk(capacity)[n] = NewBytes(flow)[cursor + n]
<1>1. PICK s \in Seq(Bytes) : s = NewBytes(flow)
  BY NewBytesType
<1>2. PICK from \in Nat, to \in Nat : from = cursor /\ to = cursor + capacity
  OBVIOUS
<1>3. from < to /\ Len(s) \in Nat
  BY <1>2
<1>4. PICK c : c = Chunk(capacity)
  OBVIOUS
<1>5. c = Slice(s, from, to)
  BY <1>1, <1>2, <1>4 DEF Chunk
<1>6. /\ c \in Seq(Bytes)
      /\ Len(c) = IF from <= MinOf(to, Len(s)) THEN MinOf(to, Len(s)) - from ELSE 0
      /\ \A n \in 1 .. Len(c) : c[n] = s[from + n]
  BY <1>3, <1>5, SliceFacts
<1>7. c = << >> <=> Len(c) = 0
  BY <1>6, EmptySeq
<1>8. Len(c) = 0 <=> from >= Len(s)
  BY <1>3, <1>6 DEF MinOf
<1>9. Len(c) # 0 => from + Len(c) <= Len(s)
  BY <1>3, <1>6 DEF MinOf
<1>10. Len(c) \in Nat
  BY <1>6
<1> QED BY <1>1, <1>2, <1>4, <1>6, <1>7, <1>8, <1>9, <1>10

LEMMA ClonedAckFacts ==
  ASSUME BaseInv, NEW k, NEW ack_offset \in Nat
  PROVE  /\ ClonedAck(k, ack_offset) \in Seq(Packet)
         /\ \A n \in DOMAIN ClonedAck(k, ack_offset) :
              /\ ClonedAck(k, ack_offset)[n].data = << >>
              /\ ClonedAck(k, ack_offset)[n].dir # flow
<1>1. CASE Templates(k) = {}
  <2>1. ClonedAck(k, ack_offset) = << >>
    BY <1>1 DEF ClonedAck
  <2>2. << >> \in Seq(Packet) /\ DOMAIN << >> = {}
    BY EmptySeq
  <2> QED BY <2>1, <2>2
<1>2. CASE Templates(k) # {}
  <2>1. Templates(k) \subseteq Indices /\ IsInput(input) /\ flow \in Directions
    BY DEF Templates, BaseInv, FlowOK
  <2> DEFINE later == {j \in Templates(k) : k < j}
  <2>2. PICK t \in Templates(k) : t = IF later # {} THEN Min(later) ELSE Max(Templates(k))
    <3>1. CASE later # {}
      <4>1. later \subseteq Indices
        BY <2>1
      <4>2. Min(later) \in later
        BY <2>1, <3>1, <4>1, LeastAndGreatest
      <4> QED BY <3>1, <4>2
    <3>2. CASE later = {}
      <4>1. Max(Templates(k)) \in Templates(k)
        BY <1>2, <2>1, LeastAndGreatest
      <4> QED BY <3>2, <4>1
    <3> QED BY <3>1, <3>2
  <2>3. PICK seq \in SeqNumbers : seq = SeqAdd(Base(flow), ack_offset)
    BY <2>1, InputFacts, SeqAddType
  <2>4. t \in Indices /\ packets[t].dir = Opposite(flow) /\ packets[t].data = << >>
    BY <2>2 DEF Templates, IsPureAck
  <2>5. packets[t] \in Packet
    BY <2>4 DEF BaseInv, PacketsOK
  <2>6. PICK clone : clone = [packets[t] EXCEPT !.ack = seq]
    OBVIOUS
  <2>7. clone \in Packet /\ clone.data = << >> /\ clone.dir = Opposite(flow)
    BY <2>4, <2>5, <2>6 DEF Packet
  <2>8. ClonedAck(k, ack_offset) = <<clone>>
    BY <1>2, <2>2, <2>3, <2>6 DEF ClonedAck
  <2>9. Opposite(flow) # flow
    BY <2>1, OppositeType
  <2> QED BY <2>7, <2>8, <2>9
<1> QED BY <1>1, <1>2

LEMMA OverridesGrow ==
  ASSUME BaseInv, UNCHANGED input, NEW acks \in SUBSET Indices, NEW off \in Nat,
         ack_overrides' = Overridden(acks, off)
  PROVE  OverridesOK'
<1>1. Indices' = Indices
  BY DEF Indices
<1>2. PICK seq \in SeqNumbers : seq = SeqAdd(Base(flow), off)
  BY InputFacts, SeqAddType DEF BaseInv, FlowOK
<1>3. ack_overrides' = [j \in acks \cup DOMAIN ack_overrides |->
                          IF j \in acks THEN seq ELSE ack_overrides[j]]
  BY <1>2 DEF Overridden
<1> QED BY <1>1, <1>3 DEF BaseInv, OverridesOK

LEMMA AcksAreIndices ==
  ASSUME NEW k
  PROVE  /\ AcksInWindow(k) \in SUBSET Indices
         /\ \A j \in AcksInWindow(k) : packets[j].data = << >> /\ packets[j].dir = Opposite(flow)
BY DEF AcksInWindow, IsPureAck

\* A packet that gets another payload.
LEMMA WithPayloadType ==
  ASSUME NEW packet \in Packet, NEW seq \in SeqNumbers, NEW data \in Seq(Bytes)
  PROVE  /\ WithPayload(packet, seq, data) \in Packet
         /\ WithPayload(packet, seq, data).dir = packet.dir
         /\ WithPayload(packet, seq, data).seq = seq
         /\ WithPayload(packet, seq, data).data = data
BY DEF WithPayload, Packet, Bytes

LEMMA PacketsGetPayload ==
  ASSUME PacketsOK, UNCHANGED input, NEW k \in Indices, input.packets[k].data # << >>,
         NEW new \in Packet, new.dir = input.packets[k].dir,
         packets' = [packets EXCEPT ![k] = new]
  PROVE  PacketsOK'
BY DEF PacketsOK, Indices

(***************************************************************************)
(* A piece of a segment holds what the new stream has at its place.        *)
(***************************************************************************)
LEMMA PiecesFacts ==
  ASSUME BaseInv, NEW k \in Segments(flow), NewPayload(k) # << >>
  PROVE  /\ Pieces(k) \in Seq(Packet) /\ Pieces(k) # << >>
         /\ Pieces(k)[1].seq = SeqAdd(Base(flow), NewStart(k))
         /\ \A n \in DOMAIN Pieces(k) :
              LET piece == Pieces(k)[n] IN
              /\ piece.dir = flow /\ piece.data # << >>
              /\ \E off \in Nat :
                   /\ piece.seq = SeqAdd(Base(flow), off)
                   /\ off + Len(piece.data) <= Len(NewBytes(flow))
                   /\ \A m \in 1 .. Len(piece.data) : piece.data[m] = NewBytes(flow)[off + m]
<1>1. IsInput(input) /\ flow \in Directions /\ k \in Indices /\ input.packets[k].dir = flow
  BY SegmentFacts DEF BaseInv, FlowOK
<1>2. PICK capacity \in Nat \ {0} : capacity = input.capacity[k]
  BY <1>1, InputFacts
<1>3. PICK s \in Seq(Bytes), new \in Seq(Bytes), from \in Nat :
        s = NewPayload(k) /\ new = NewBytes(flow) /\ from = NewStart(k)
  BY <1>1, NewSegmentFacts, NewBytesType
<1>4. PICK size \in Nat \ {0} : size = Len(s)
  BY <1>3, EmptySeq
<1>5. PICK count : count = (size + capacity - 1) \div capacity
  OBVIOUS
<1>6. /\ from + size <= Len(new) /\ Len(new) \in Nat
      /\ \A m \in 1 .. size : s[m] = new[from + m]
  <2>1. /\ NewEnd(k) \in Nat /\ NewStart(k) \in Nat /\ NewEnd(k) <= Len(NewBytes(flow))
        /\ Len(NewPayload(k)) = NewEnd(k) - NewStart(k)
        /\ \A m \in 1 .. Len(NewPayload(k)) : NewPayload(k)[m] = NewBytes(flow)[NewStart(k) + m]
    BY <1>1, NewSegmentFacts
  <2>2. \A m \in 1 .. size : s[m] = new[from + m]
    BY <2>1, <1>3, <1>4
  <2>3. Len(new) \in Nat
    OBVIOUS
  <2>4. from + size <= Len(new)
    BY <2>1, <1>3, <1>4
  <2> QED BY <2>2, <2>3, <2>4
<1>7. /\ count \in Nat \ {0}
      /\ \A n \in 1 .. count :
           /\ (n - 1) * capacity \in Nat /\ n * capacity \in Nat
           /\ (n - 1) * capacity < size /\ (n - 1) * capacity < n * capacity
  BY <1>5, CeilingFacts
<1>8. packets[k] \in Packet /\ packets[k].dir = flow /\ Base(flow) \in SeqNumbers
  BY <1>1, InputFacts DEF BaseInv, PacketsOK
<1> DEFINE At(n) == WithPayload(packets[k], SeqAdd(Base(flow), from + (n - 1) * capacity),
                                Slice(s, (n - 1) * capacity, n * capacity))
           Piece(n) == IF count = 1 THEN At(n) ELSE WithoutEndFlags(At(n))
<1>9. Pieces(k) = [n \in 1 .. count |-> Piece(n)]
  BY <1>2, <1>3, <1>4, <1>5 DEF Pieces
<1>10. ASSUME NEW n \in 1 .. count
       PROVE  /\ Piece(n) \in Packet
              /\ Piece(n).dir = flow /\ Piece(n).data # << >>
              /\ Piece(n).seq = SeqAdd(Base(flow), from + (n - 1) * capacity)
              /\ \E off \in Nat :
                   /\ Piece(n).seq = SeqAdd(Base(flow), off)
                   /\ off + Len(Piece(n).data) <= Len(new)
                   /\ \A m \in 1 .. Len(Piece(n).data) : Piece(n).data[m] = new[off + m]
  <2>1. PICK a \in Nat, b \in Nat : a = (n - 1) * capacity /\ b = n * capacity
    BY <1>7
  <2>2. a < size /\ a < b
    BY <1>7, <2>1
  <2>3. PICK data : data = Slice(s, a, b)
    OBVIOUS
  <2>4. /\ data \in Seq(Bytes)
        /\ Len(data) = IF a <= MinOf(b, size) THEN MinOf(b, size) - a ELSE 0
        /\ \A m \in 1 .. Len(data) : a + m \in 1 .. size /\ data[m] = s[a + m]
    BY <1>4, <2>2, <2>3, SliceFacts
  <2>5. Len(data) \in Nat /\ Len(data) # 0 /\ a + Len(data) <= size
    BY <2>2, <2>4 DEF MinOf
  <2>6. data # << >>
    BY <2>5, EmptySeq
  <2>7. PICK off \in Nat : off = from + a
    OBVIOUS
  <2>8. PICK seq \in SeqNumbers : seq = SeqAdd(Base(flow), off)
    BY <1>8, SeqAddType
  <2>9. PICK packet : packet = At(n)
    OBVIOUS
  <2>10. packet = WithPayload(packets[k], seq, data)
    BY <2>1, <2>3, <2>7, <2>8, <2>9
  <2>11. packet \in Packet /\ packet.dir = flow /\ packet.seq = seq /\ packet.data = data
    <3>1. PICK old \in Packet : old = packets[k]
      BY <1>8
    <3>2. data \in Seq(Bytes) /\ packet = WithPayload(old, seq, data) /\ old.dir = flow
      BY <1>8, <2>4, <2>10, <3>1
    <3> QED BY <3>2, WithPayloadType
  <2>12. /\ WithoutEndFlags(packet) \in Packet /\ WithoutEndFlags(packet).dir = flow
         /\ WithoutEndFlags(packet).seq = seq /\ WithoutEndFlags(packet).data = data
    BY <2>11 DEF WithoutEndFlags, Packet
  <2>13. PICK piece : piece = Piece(n)
    OBVIOUS
  <2>14. piece \in Packet /\ piece.dir = flow /\ piece.seq = seq /\ piece.data = data
    BY <2>9, <2>11, <2>12, <2>13
  <2>15. off + Len(data) <= Len(new)
    BY <1>6, <2>5, <2>7
  <2>16. ASSUME NEW m \in 1 .. Len(data) PROVE data[m] = new[off + m]
    <3>1. a + m \in 1 .. size /\ data[m] = s[a + m]
      BY <2>4
    <3>2. s[a + m] = new[from + (a + m)]
      BY <3>1, <1>6
    <3>3. from + (a + m) = off + m
      BY <2>7, <2>5
    <3> QED BY <3>1, <3>2, <3>3
  <2>17. piece.seq = SeqAdd(Base(flow), from + (n - 1) * capacity)
    BY <2>1, <2>7, <2>8, <2>14
  <2> QED BY <2>6, <2>8, <2>13, <2>14, <2>15, <2>16, <2>17
<1> HIDE DEF Piece
<1>11. PICK f \in [1 .. count -> Packet] : f = Pieces(k)
  BY <1>9, <1>10
<1>12. f \in Seq(Packet) /\ DOMAIN f = 1 .. count /\ 1 \in 1 .. count
  BY <1>7
<1>13. f # << >>
  <2>1. DOMAIN << >> = {}
    OBVIOUS
  <2> QED BY <2>1, <1>12
<1>14. \A n \in 1 .. count : f[n] = Piece(n)
  BY <1>9, <1>11
<1>15. f[1].seq = SeqAdd(Base(flow), from)
  <2>1. f[1].seq = SeqAdd(Base(flow), from + (1 - 1) * capacity)
    BY <1>10, <1>12, <1>14
  <2>2. from + (1 - 1) * capacity = from
    OBVIOUS
  <2> QED BY <2>1, <2>2
<1>16. \A n \in DOMAIN f :
         /\ f[n].dir = flow /\ f[n].data # << >>
         /\ \E off \in Nat :
              /\ f[n].seq = SeqAdd(Base(flow), off)
              /\ off + Len(f[n].data) <= Len(new)
              /\ \A m \in 1 .. Len(f[n].data) : f[n].data[m] = new[off + m]
  <2> SUFFICES ASSUME NEW n \in 1 .. count
               PROVE  /\ f[n].dir = flow /\ f[n].data # << >>
                      /\ \E off \in Nat :
                           /\ f[n].seq = SeqAdd(Base(flow), off)
                           /\ off + Len(f[n].data) <= Len(new)
                           /\ \A m \in 1 .. Len(f[n].data) : f[n].data[m] = new[off + m]
    BY <1>12
  <2>1. f[n] = Piece(n)
    BY <1>14
  <2>2. /\ Piece(n).dir = flow /\ Piece(n).data # << >>
        /\ \E off \in Nat :
             /\ Piece(n).seq = SeqAdd(Base(flow), off)
             /\ off + Len(Piece(n).data) <= Len(new)
             /\ \A m \in 1 .. Len(Piece(n).data) : Piece(n).data[m] = new[off + m]
    BY <1>10
  <2>3. PICK piece : piece = Piece(n) /\ piece = f[n]
    BY <2>1
  <2> QED BY <2>2, <2>3
<1> QED BY <1>3, <1>11, <1>12, <1>13, <1>15, <1>16

-----------------------------------------------------------------------------
(***************************************************************************)
(* The steps of a merged flow.                                             *)
(***************************************************************************)
LEMMA BaseBeginMerge ==
  ASSUME BaseInv, BeginMerge
  PROVE  BaseInv'
<1> USE DEF BeginMerge
<1>1. IsInput(input)' /\ PacketsOK' /\ NewSeqOK' /\ OverridesOK'
  BY PacketsFrame, NewSeqFrame, OverridesFrame DEF BaseInv, plan
<1>2. PICK q \in Seq(Directions) : q = merged_flows /\ q # << >> /\ IsInjective(q)
  BY DEF BaseInv, QueuesOK
<1>3. /\ Head(q) \in Directions /\ Head(q) \in Range(q)
      /\ Tail(q) \in Seq(Directions) /\ IsInjective(Tail(q))
      /\ Range(Tail(q)) = Range(q) \ {Head(q)}
  BY <1>2, QueueHead
<1>4. flow' = Head(q) /\ merged_flows' = Tail(q) /\ preserve_flows' = << >> /\ phase = "next"
  BY <1>2
<1>5. preserve_flows = << >> /\ Range(<< >>) = {}
  BY DEF Range
<1>6. QueuesOK'
  BY <1>2, <1>3, <1>4, <1>5, InputFrame DEF BaseInv, QueuesOK, Waits
<1>7. input.handling[Head(q)] # "unchanged" /\ Segments(Head(q)) # {}
  BY <1>2, <1>3 DEF BaseInv, QueuesOK, Waits
<1>8. /\ Segments(flow)' = Segments(Head(q)) /\ Edits(flow)' = Edits(Head(q))
      /\ Primaries(flow)' = Primaries(Head(q))
  <2>1. \A k : IsPrimary(k)' = IsPrimary(k)
    BY PrimaryFrame
  <2> QED BY <2>1, <1>4 DEF Segments, Edits, Indices, Primaries
<1>9. ~Waits(flow)'
  BY <1>3, <1>4, <1>5 DEF Waits
<1>10. InsertsOK'
  <2>1. << >> \in Seq(Packet)
    BY EmptySeq
  <2> QED BY <2>1 DEF BaseInv, InsertsOK, plan, Indices
<1>11. FilledOK'
  <2>1. << >> \in Seq(Indices') /\ Range(<< >>) = {}
    BY DEF Range
  <2> QED BY <2>1 DEF FilledOK
<1>12. CASE Edits(Head(q)) = << >>
  <2>1. phase' = "next" /\ todo' = todo /\ output' = output
    BY <1>2, <1>4, <1>12
  <2>2. FlowOK'
    BY <2>1, <1>3, <1>4 DEF FlowOK
  <2>3. TodoOK'
    BY <2>1, <1>4 DEF BaseInv, TodoOK
  <2> QED BY <1>1, <1>6, <1>10, <1>11, <2>2, <2>3 DEF BaseInv
<1>13. CASE Edits(Head(q)) # << >>
  <2>1. phase' = "fill" /\ todo' = Primaries(Head(q)) /\ output' = output
    BY <1>2, <1>13
  <2>2. FlowOK'
    BY <2>1, <1>3, <1>4, <1>7, <1>8, <1>9, <1>13 DEF FlowOK
  <2>3. TodoOK'
    BY <2>1, <1>4, <1>8 DEF BaseInv, TodoOK
  <2> QED BY <1>1, <1>6, <1>10, <1>11, <2>2, <2>3 DEF BaseInv
<1> QED BY <1>12, <1>13

\* The next segment of a merged flow.
LEMMA TodoFacts ==
  ASSUME BaseInv, NEW k \in todo, phase \in {"preserve", "fill", "remap"}
  PROVE  /\ IsInput(input) /\ flow \in Directions /\ k \in Segments(flow)
         /\ k \in Indices /\ input.packets[k].dir = flow /\ input.packets[k].data # << >>
         /\ packets[k] \in Packet /\ packets[k].dir = flow
         /\ input.capacity[k] \in Nat \ {0}
         /\ Base(flow) \in SeqNumbers /\ cursor \in Nat
<1>1. IsInput(input) /\ flow \in Directions /\ k \in Segments(flow)
  BY DEF BaseInv, FlowOK, TodoOK, Primaries, Retransmissions
<1>2. k \in Indices /\ input.packets[k].dir = flow /\ input.packets[k].data # << >>
  BY <1>1, SegmentFacts
<1>3. packets[k] \in Packet /\ packets[k].dir = flow
  BY <1>2 DEF BaseInv, PacketsOK
<1>4. input.capacity[k] \in Nat \ {0} /\ Base(flow) \in SeqNumbers
  BY <1>1, <1>2, InputFacts
<1> QED BY <1>1, <1>2, <1>3, <1>4 DEF BaseInv, FilledOK

LEMMA BaseFillSegment ==
  ASSUME BaseInv, NEW k \in todo, FillSegment(k)
  PROVE  BaseInv'
<1> USE DEF FillSegment
<1>1. IsInput(input)' /\ InsertsOK' /\ QueuesOK' /\ FlowOK'
  BY InsertsFrame, QueuesFrame, FlowFrame DEF BaseInv
<1>2. /\ flow \in Directions /\ IsInput(input) /\ k \in Segments(flow) /\ k \in Indices
      /\ input.packets[k].data # << >> /\ packets[k] \in Packet /\ packets[k].dir = flow
      /\ input.packets[k].dir = flow
      /\ cursor \in Nat /\ input.capacity[k] \in Nat \ {0} /\ Base(flow) \in SeqNumbers
  BY TodoFacts
<1>3. TodoOK'
  <2>1. todo' \subseteq Primaries(flow) /\ output' = << >>
    BY DEF BaseInv, TodoOK
  <2> QED BY <2>1, FlowSets DEF TodoOK
<1>4. PICK seq \in SeqNumbers : seq = SeqAdd(Base(flow), cursor)
  BY <1>2, SeqAddType
<1>5. PICK chunk \in Seq(Bytes) : chunk = Chunk(input.capacity[k])
  BY <1>2, ChunkFacts
<1>6. Len(chunk) \in Nat /\ cursor + Len(chunk) \in Nat
  BY <1>2
<1>7. PICK old \in Packet : old = packets[k] /\ old.dir = flow
  BY <1>2
<1>8. PICK new : new = WithPayload(old, seq, chunk)
  OBVIOUS
<1>9. new \in Packet /\ new.dir = flow
  BY <1>7, <1>8, WithPayloadType
<1>10. /\ packets' = [packets EXCEPT ![k] = new]
       /\ packet_new_seq' = With(packet_new_seq, k, seq)
       /\ filled' = Append(filled, k) /\ cursor' = cursor + Len(chunk)
       /\ ack_overrides' = Overridden(AcksInWindow(k), cursor + Len(chunk))
       /\ UNCHANGED input
  BY <1>4, <1>5, <1>7, <1>8
<1>11. PacketsOK'
  BY <1>2, <1>9, <1>10, PacketsGetPayload DEF BaseInv
<1>12. NewSeqOK'
  BY <1>2, <1>10, NewSeqGrows DEF BaseInv
<1>13. OverridesOK'
  BY <1>6, <1>10, AcksAreIndices, OverridesGrow
<1>14. FilledOK'
  <2>1. PICK old_filled \in Seq(Indices) : old_filled = filled
    BY DEF BaseInv, FilledOK
  <2>2. PICK f : f = Append(old_filled, k)
    OBVIOUS
  <2>3. f \in Seq(Indices) /\ Range(f) = Range(old_filled) \cup {k}
    BY <1>2, <2>2, QueueAppend
  <2>4. Range(f) \subseteq Segments(flow)
    BY <2>1, <2>3, <1>2 DEF BaseInv, FilledOK
  <2>5. preserve_flows' = << >> /\ phase' = "fill"
    BY DEF BaseInv, FlowOK
  <2>6. filled' = f /\ cursor' \in Nat
    BY <1>6, <1>10, <2>1, <2>2
  <2> QED BY <2>3, <2>4, <2>5, <2>6, FlowSets DEF FilledOK
<1> QED BY <1>1, <1>3, <1>11, <1>12, <1>13, <1>14 DEF BaseInv

LEMMA BaseDeleteSegment ==
  ASSUME BaseInv, NEW k \in todo, DeleteSegment(k)
  PROVE  BaseInv'
<1> USE DEF DeleteSegment
<1>1. /\ IsInput(input)' /\ QueuesOK' /\ FlowOK' /\ PacketsOK' /\ FilledOK' /\ NewSeqOK'
      /\ OverridesOK'
  BY QueuesFrame, FlowFrame, PacketsFrame, FilledFrame, NewSeqFrame, OverridesFrame DEF BaseInv
<1>2. k \in Indices
  BY TodoFacts
<1>3. TodoOK'
  <2>1. todo' \subseteq Primaries(flow) /\ output' = << >>
    BY DEF BaseInv, TodoOK
  <2> QED BY <2>1, FlowSets DEF TodoOK
<1>4. InsertsOK'
  BY <1>2, FlowSets DEF BaseInv, InsertsOK
<1> QED BY <1>1, <1>3, <1>4 DEF BaseInv

LEMMA FlowAtWork ==
  ASSUME BaseInv, phase \in {"preserve", "fill", "remap"}
  PROVE  /\ IsInput(input) /\ flow \in Directions /\ Segments(flow) # {}
         /\ LastPrimary \in Primaries(flow) /\ LastPrimary \in Segments(flow)
         /\ LastPrimary \in Indices /\ input.capacity[LastPrimary] \in Nat \ {0}
         /\ input.packets[LastPrimary].dir = flow
         /\ packets[LastPrimary] \in Packet /\ packets[LastPrimary].dir = flow
         /\ Base(flow) \in SeqNumbers /\ cursor \in Nat
<1>1. IsInput(input) /\ flow \in Directions /\ Segments(flow) # {}
  BY DEF BaseInv, FlowOK
<1>2. LastPrimary \in Primaries(flow) /\ LastPrimary \in Segments(flow)
  BY <1>1, LastPrimaryFacts
<1>3. LastPrimary \in Indices /\ input.packets[LastPrimary].dir = flow
  BY <1>1, <1>2, SegmentFacts
<1>4. packets[LastPrimary] \in Packet /\ packets[LastPrimary].dir = flow
  BY <1>3 DEF BaseInv, PacketsOK
<1>5. input.capacity[LastPrimary] \in Nat \ {0} /\ Base(flow) \in SeqNumbers
  BY <1>1, <1>3, InputFacts
<1> QED BY <1>1, <1>2, <1>3, <1>4, <1>5 DEF BaseInv, FilledOK

\* The piece that ClonePiece adds behind a cloned ACK.
LEMMA ClonedPieceFacts ==
  ASSUME BaseInv, ClonePiece
  PROVE  \E acks \in Seq(Packet), piece \in Packet :
           /\ extra_packets' = extra_packets \o acks \o <<piece>>
           /\ \A n \in DOMAIN acks : acks[n].data = << >> /\ acks[n].dir # flow
           /\ piece.dir = flow /\ piece.seq = SeqAdd(Base(flow), cursor)
           /\ piece.data = Chunk(input.capacity[LastPrimary])
           /\ cursor' = cursor + Len(piece.data)
<1> USE DEF ClonePiece
<1>1. /\ IsInput(input) /\ flow \in Directions /\ packets[LastPrimary] \in Packet
      /\ packets[LastPrimary].dir = flow /\ Base(flow) \in SeqNumbers /\ cursor \in Nat
      /\ input.capacity[LastPrimary] \in Nat \ {0}
  BY FlowAtWork
<1>2. PICK last \in Packet : last = packets[LastPrimary] /\ last.dir = flow
  BY <1>1
<1>3. PICK seq \in SeqNumbers : seq = SeqAdd(Base(flow), cursor)
  BY <1>1, SeqAddType
<1>4. PICK chunk \in Seq(Bytes) : chunk = Chunk(input.capacity[LastPrimary])
  BY <1>1, ChunkFacts
<1>5. PICK piece : piece = WithPayload(last, seq, chunk)
  OBVIOUS
<1>6. piece \in Packet /\ piece.dir = flow /\ piece.seq = seq /\ piece.data = chunk
  BY <1>2, <1>5, WithPayloadType
<1>7. PICK acks \in Seq(Packet) :
        /\ acks = ClonedAck(LastPrimary, cursor)
        /\ \A n \in DOMAIN acks : acks[n].data = << >> /\ acks[n].dir # flow
  BY <1>1, ClonedAckFacts
<1>8. extra_packets' = extra_packets \o acks \o <<piece>> /\ cursor' = cursor + Len(chunk)
  BY <1>2, <1>3, <1>4, <1>5, <1>7
<1> QED BY <1>3, <1>4, <1>6, <1>7, <1>8

LEMMA BaseClonePiece ==
  ASSUME BaseInv, ClonePiece
  PROVE  BaseInv'
<1> USE DEF ClonePiece
<1>1. /\ IsInput(input)' /\ QueuesOK' /\ FlowOK' /\ PacketsOK' /\ NewSeqOK'
      /\ OverridesOK'
  BY QueuesFrame, FlowFrame, PacketsFrame, NewSeqFrame, OverridesFrame DEF BaseInv, plan
<1>2. TodoOK'
  BY FlowSets DEF BaseInv, TodoOK
<1>3. PICK acks \in Seq(Packet), piece \in Packet :
        /\ extra_packets' = extra_packets \o acks \o <<piece>>
        /\ cursor' = cursor + Len(piece.data)
  BY ClonedPieceFacts
<1>4. extra_packets' \in Seq(Packet)
  <2>1. PICK extra \in Seq(Packet) : extra = extra_packets
    BY DEF BaseInv, InsertsOK
  <2>2. extra \o acks \in Seq(Packet) /\ <<piece>> \in Seq(Packet)
    BY ConcatProperties
  <2>3. (extra \o acks) \o <<piece>> \in Seq(Packet)
    BY <2>2, ConcatProperties
  <2> QED BY <1>3, <2>1, <2>3
<1>5. InsertsOK'
  BY <1>4, FlowSets DEF BaseInv, InsertsOK, plan
<1>6. FilledOK'
  <2>1. piece.data \in Seq(Bytes)
    BY PacketFields
  <2>2. Len(piece.data) \in Nat
    BY <2>1, LenProperties
  <2>3. cursor' \in Nat
    BY <1>3, <2>2 DEF BaseInv, FilledOK
  <2> QED BY <2>3, FlowSets DEF BaseInv, FilledOK
<1> QED BY <1>1, <1>2, <1>5, <1>6 DEF BaseInv

\* Moving the end flags touches neither numbers nor payload.
LEMMA EndFlagsKeep ==
  ASSUME NEW packet \in Packet, NEW last \in Packet
  PROVE  /\ EndFlagsOf(packet, last) \in Packet /\ EndFlagsOf(packet, last).dir = packet.dir
         /\ EndFlagsOf(packet, last).seq = packet.seq
         /\ EndFlagsOf(packet, last).data = packet.data
         /\ WithoutEndFlags(packet) \in Packet /\ WithoutEndFlags(packet).dir = packet.dir
         /\ WithoutEndFlags(packet).seq = packet.seq
         /\ WithoutEndFlags(packet).data = packet.data
BY DEF EndFlagsOf, WithoutEndFlags, Packet

LEMMA FilledKeep ==
  ASSUME BaseInv, packets[LastPrimary] \in Packet
  PROVE  /\ EndFlagsOnFilled \in [Indices -> Packet]
         /\ \A i \in Indices :
              /\ EndFlagsOnFilled[i].dir = packets[i].dir
              /\ EndFlagsOnFilled[i].seq = packets[i].seq
              /\ EndFlagsOnFilled[i].data = packets[i].data
<1>1. PICK last \in Packet : last = packets[LastPrimary]
  OBVIOUS
<1>2. ASSUME NEW i \in Indices
      PROVE  /\ EndFlagsOnFilled[i] \in Packet /\ EndFlagsOnFilled[i].dir = packets[i].dir
             /\ EndFlagsOnFilled[i].seq = packets[i].seq
             /\ EndFlagsOnFilled[i].data = packets[i].data
  <2>1. PICK packet \in Packet : packet = packets[i]
    BY DEF BaseInv, PacketsOK
  <2>2. \/ EndFlagsOnFilled[i] = packet
        \/ EndFlagsOnFilled[i] = EndFlagsOf(packet, last)
        \/ EndFlagsOnFilled[i] = WithoutEndFlags(packet)
    BY <1>1, <2>1 DEF EndFlagsOnFilled
  <2> QED BY <2>1, <2>2, EndFlagsKeep
<1>3. DOMAIN EndFlagsOnFilled = Indices /\ EndFlagsOnFilled = [i \in Indices |-> EndFlagsOnFilled[i]]
  BY DEF EndFlagsOnFilled
<1> QED BY <1>2, <1>3

LEMMA PiecesKeep ==
  ASSUME BaseInv, packets[LastPrimary] \in Packet
  PROVE  /\ EndFlagsOnPieces \in Seq(Packet) /\ Len(EndFlagsOnPieces) = Len(extra_packets)
         /\ \A n \in 1 .. Len(extra_packets) :
              /\ EndFlagsOnPieces[n].dir = extra_packets[n].dir
              /\ EndFlagsOnPieces[n].seq = extra_packets[n].seq
              /\ EndFlagsOnPieces[n].data = extra_packets[n].data
<1>1. PICK last \in Packet : last = packets[LastPrimary]
  OBVIOUS
<1>2. PICK extra \in Seq(Packet) : extra = extra_packets
  BY DEF BaseInv, InsertsOK
<1>3. Len(extra) \in Nat /\ DOMAIN extra = 1 .. Len(extra)
  OBVIOUS
<1>4. ASSUME NEW n \in 1 .. Len(extra)
      PROVE  /\ EndFlagsOnPieces[n] \in Packet /\ EndFlagsOnPieces[n].dir = extra[n].dir
             /\ EndFlagsOnPieces[n].seq = extra[n].seq
             /\ EndFlagsOnPieces[n].data = extra[n].data
  <2>1. PICK packet \in Packet : packet = extra[n]
    OBVIOUS
  <2>2. \/ EndFlagsOnPieces[n] = packet
        \/ EndFlagsOnPieces[n] = EndFlagsOf(packet, last)
        \/ EndFlagsOnPieces[n] = WithoutEndFlags(packet)
    BY <1>1, <1>2, <1>3, <2>1 DEF EndFlagsOnPieces
  <2>3. PICK piece : piece = EndFlagsOnPieces[n]
    OBVIOUS
  <2>4. /\ piece \in Packet /\ piece.dir = packet.dir
        /\ piece.seq = packet.seq /\ piece.data = packet.data
    <3>1. CASE piece = packet
      BY <3>1
    <3>2. CASE piece = EndFlagsOf(packet, last)
      BY <3>2, EndFlagsKeep
    <3>3. CASE piece = WithoutEndFlags(packet)
      BY <3>3, EndFlagsKeep
    <3> QED BY <2>2, <2>3, <3>1, <3>2, <3>3
  <2> QED BY <2>1, <2>3, <2>4
<1>5. /\ DOMAIN EndFlagsOnPieces = 1 .. Len(extra)
      /\ EndFlagsOnPieces = [n \in 1 .. Len(extra) |-> EndFlagsOnPieces[n]]
  BY <1>2, <1>3 DEF EndFlagsOnPieces
<1>6. PICK f \in [1 .. Len(extra) -> Packet] : f = EndFlagsOnPieces
  BY <1>4, <1>5
<1>7. f \in Seq(Packet) /\ Len(f) = Len(extra)
  BY <1>3
<1> QED BY <1>2, <1>4, <1>6, <1>7

(***************************************************************************)
(* What CloseFlow inserts behind the last segment: the pieces made before, *)
(* and perhaps an ACK.                                                     *)
(***************************************************************************)
LEMMA ClosingInserts ==
  ASSUME BaseInv, CloseFlow, extra_packets # << >>
  PROVE  \E pieces \in Seq(Packet), trailing \in Seq(Packet), acks \in SUBSET Indices :
           /\ insert_after' =
                [insert_after EXCEPT ![LastPrimary] = (@ \o pieces) \o trailing]
           /\ ack_overrides' = Overridden(acks, Len(NewBytes(flow)))
           /\ \A n \in DOMAIN trailing : trailing[n].data = << >> /\ trailing[n].dir # flow
           /\ Len(pieces) = Len(extra_packets)
           /\ \A n \in 1 .. Len(extra_packets) :
                /\ pieces[n].dir = extra_packets[n].dir
                /\ pieces[n].seq = extra_packets[n].seq
                /\ pieces[n].data = extra_packets[n].data
<1> USE DEF CloseFlow
<1>1. packets[LastPrimary] \in Packet /\ IsInput(input) /\ flow \in Directions
  BY FlowAtWork
<1>2. PICK pieces \in Seq(Packet) :
        /\ pieces = EndFlagsOnPieces /\ Len(pieces) = Len(extra_packets)
        /\ \A n \in 1 .. Len(extra_packets) :
             /\ pieces[n].dir = extra_packets[n].dir
             /\ pieces[n].seq = extra_packets[n].seq
             /\ pieces[n].data = extra_packets[n].data
  BY <1>1, PiecesKeep
<1>3. PICK end \in Nat : end = Len(NewBytes(flow))
  BY <1>1, NewBytesType
<1>4. PICK acks \in SUBSET Indices : acks = AcksInWindow(LastPrimary)
  BY AcksAreIndices
<1>5. PICK trailing \in Seq(Packet) :
        /\ trailing = IF acks = {} THEN ClonedAck(LastPrimary, end) ELSE << >>
        /\ \A n \in DOMAIN trailing : trailing[n].data = << >> /\ trailing[n].dir # flow
  <2>1. CASE acks = {}
    BY <2>1, ClonedAckFacts
  <2>2. CASE acks # {}
    <3>1. << >> \in Seq(Packet) /\ DOMAIN << >> = {}
      BY EmptySeq
    <3> QED BY <2>2, <3>1
  <2> QED BY <2>1, <2>2
<1>6. insert_after' = [insert_after EXCEPT ![LastPrimary] = @ \o pieces \o trailing]
  BY <1>2, <1>3, <1>4, <1>5
<1>7. ack_overrides' = Overridden(acks, Len(NewBytes(flow)))
  BY <1>4
<1> QED BY <1>2, <1>5, <1>6, <1>7

LEMMA InsertsGrow ==
  ASSUME InsertsOK, UNCHANGED input, NEW i \in Indices, NEW new \in Seq(Packet),
         insert_after' = [insert_after EXCEPT ![i] = new]
  PROVE  insert_after' \in [Indices' -> Seq(Packet)]
BY DEF InsertsOK, Indices

LEMMA DeletedAcksAreIndices ==
  AcksOfDeleted \in SUBSET Indices
BY AcksAreIndices DEF AcksOfDeleted

LEMMA BaseCloseFlow ==
  ASSUME BaseInv, CloseFlow
  PROVE  BaseInv'
<1> USE DEF CloseFlow
<1>1. IsInput(input)' /\ QueuesOK' /\ NewSeqOK'
  BY QueuesFrame, NewSeqFrame DEF BaseInv
<1>2. /\ IsInput(input) /\ flow \in Directions /\ LastPrimary \in Indices
      /\ packets[LastPrimary] \in Packet
  BY FlowAtWork
<1>3. PacketsOK'
  <2>1. PICK new \in [Indices -> Packet] :
          /\ new = packets'
          /\ \A i \in Indices : /\ new[i].dir = packets[i].dir
                                /\ new[i].data = packets[i].data
    BY <1>2, FilledKeep
  <2> QED BY <2>1, FlowSets DEF BaseInv, PacketsOK
<1>4. FlowOK'
  BY FlowSets DEF BaseInv, FlowOK, Waits
<1>5. TodoOK'
  BY FlowSets DEF BaseInv, TodoOK
<1>6. FilledOK'
  BY FlowSets DEF BaseInv, FilledOK, FlowOK
<1>7. InsertsOK' /\ OverridesOK'
  <2>1. deleted_indices' \subseteq Indices
    BY DeletedAcksAreIndices DEF BaseInv, InsertsOK
  <2>2. CASE extra_packets = << >>
    <3>1. UNCHANGED <<insert_after, ack_overrides>>
      BY <2>2
    <3> QED BY <2>1, <3>1, OverridesFrame, FlowSets DEF BaseInv, InsertsOK
  <2>3. CASE extra_packets # << >>
    <3>1. PICK pieces \in Seq(Packet), trailing \in Seq(Packet), acks \in SUBSET Indices :
            /\ insert_after' =
                 [insert_after EXCEPT ![LastPrimary] = (@ \o pieces) \o trailing]
            /\ ack_overrides' = Overridden(acks, Len(NewBytes(flow)))
      BY <2>3, ClosingInserts
    <3>2. PICK old \in Seq(Packet) : old = insert_after[LastPrimary]
      BY <1>2 DEF BaseInv, InsertsOK
    <3>3. PICK new \in Seq(Packet) : new = (old \o pieces) \o trailing
      <4>1. old \o pieces \in Seq(Packet)
        BY ConcatProperties
      <4>2. (old \o pieces) \o trailing \in Seq(Packet)
        BY <4>1, ConcatProperties
      <4> QED BY <4>2
    <3>4. insert_after' = [insert_after EXCEPT ![LastPrimary] = new]
      BY <3>1, <3>2, <3>3
    <3>5. insert_after' \in [Indices' -> Seq(Packet)]
      BY <1>2, <3>4, InsertsGrow DEF BaseInv
    <3>6. Len(NewBytes(flow)) \in Nat
      BY <1>2, NewBytesType
    <3>7. OverridesOK'
      BY <3>1, <3>6, OverridesGrow
    <3> QED BY <2>1, <3>5, <3>7, FlowSets DEF BaseInv, InsertsOK
  <2> QED BY <2>2, <2>3
<1> QED BY <1>1, <1>3, <1>4, <1>5, <1>6, <1>7 DEF BaseInv

LEMMA BaseRemapSegment ==
  ASSUME BaseInv, NEW k \in todo, RemapSegment(k)
  PROVE  BaseInv'
<1> USE DEF RemapSegment
<1>1. IsInput(input)' /\ QueuesOK' /\ FlowOK' /\ FilledOK' /\ OverridesOK'
  BY QueuesFrame, FlowFrame, FilledFrame, OverridesFrame DEF BaseInv
<1>2. /\ flow \in Directions /\ IsInput(input) /\ k \in Segments(flow) /\ k \in Indices
      /\ input.packets[k].data # << >> /\ input.packets[k].dir = flow
      /\ Base(flow) \in SeqNumbers
  BY TodoFacts
<1>3. TodoOK'
  <2>1. todo' \subseteq Retransmissions(flow) /\ output' = << >>
    BY DEF BaseInv, TodoOK
  <2> QED BY <2>1, FlowSets DEF TodoOK
<1>4. PICK seq \in SeqNumbers : seq = SeqAdd(Base(flow), NewStart(k))
  BY <1>2, NewSegmentFacts, SeqAddType
<1>5. PICK pieces \in Seq(Packet) :
        /\ pieces = Pieces(k) /\ pieces # << >>
        /\ \A n \in DOMAIN pieces : pieces[n].dir = flow
  BY <1>2, PiecesFacts
<1>6. PICK first \in Packet, rest \in Seq(Packet) :
        first = Head(pieces) /\ rest = Tail(pieces) /\ first.dir = flow
  <2>1. Head(pieces) \in Packet /\ Tail(pieces) \in Seq(Packet)
    BY <1>5, HeadTailProperties
  <2>2. 1 \in DOMAIN pieces /\ Head(pieces) = pieces[1]
    BY <1>5, EmptySeq
  <2> QED BY <1>5, <2>1, <2>2
<1>7. PacketsOK'
  <2>1. packets' = [packets EXCEPT ![k] = first]
    BY <1>5, <1>6
  <2> QED BY <1>2, <1>6, <2>1, PacketsGetPayload DEF BaseInv
<1>8. NewSeqOK'
  BY <1>2, <1>4, NewSeqGrows DEF BaseInv
<1>9. InsertsOK'
  <2>1. PICK old \in Seq(Packet) : old = insert_after[k]
    BY <1>2 DEF BaseInv, InsertsOK
  <2>2. PICK new \in Seq(Packet) : new = old \o rest
    BY ConcatProperties
  <2>3. insert_after' = [insert_after EXCEPT ![k] = new]
    BY <1>5, <1>6, <2>1, <2>2
  <2>4. insert_after' \in [Indices' -> Seq(Packet)]
    BY <1>2, <2>3, InsertsGrow DEF BaseInv
  <2> QED BY <2>4, FlowSets DEF BaseInv, InsertsOK
<1> QED BY <1>1, <1>3, <1>7, <1>8, <1>9 DEF BaseInv

LEMMA BaseDropRetransmission ==
  ASSUME BaseInv, NEW k \in todo, DropRetransmission(k)
  PROVE  BaseInv'
<1> USE DEF DropRetransmission
<1>1. /\ IsInput(input)' /\ QueuesOK' /\ FlowOK' /\ PacketsOK' /\ FilledOK' /\ NewSeqOK'
      /\ OverridesOK'
  BY QueuesFrame, FlowFrame, PacketsFrame, FilledFrame, NewSeqFrame, OverridesFrame DEF BaseInv
<1>2. k \in Indices
  BY TodoFacts
<1>3. TodoOK'
  <2>1. todo' \subseteq Retransmissions(flow) /\ output' = << >>
    BY DEF BaseInv, TodoOK
  <2> QED BY <2>1, FlowSets DEF TodoOK
<1>4. InsertsOK'
  BY <1>2, FlowSets DEF BaseInv, InsertsOK
<1> QED BY <1>1, <1>3, <1>4 DEF BaseInv

LEMMA BaseEndMerge ==
  ASSUME BaseInv, EndMerge
  PROVE  BaseInv'
<1> USE DEF EndMerge
<1>1. IsInput(input)' /\ PacketsOK' /\ NewSeqOK' /\ OverridesOK' /\ InsertsOK' /\ QueuesOK'
  BY PacketsFrame, NewSeqFrame, OverridesFrame, InsertsFrame, QueuesFrame DEF BaseInv, plan
<1>2. FlowOK'
  BY DEF BaseInv, FlowOK
<1>3. TodoOK'
  BY DEF BaseInv, TodoOK
<1>4. FilledOK'
  BY FlowSets DEF BaseInv, FilledOK
<1> QED BY <1>1, <1>2, <1>3, <1>4 DEF BaseInv

-----------------------------------------------------------------------------
(***************************************************************************)
(* The adjustment of the numbers, and the output.                          *)
(***************************************************************************)
LEMMA MapSeqType ==
  ASSUME IsInput(input), NEW d \in Directions, NEW seq \in SeqNumbers
  PROVE  MapSeq(d, seq) \in SeqNumbers
<1>1. PICK off : off = SeqOffset(seq, Base(d))
  OBVIOUS
<1>2. Base(d) \in SeqNumbers
  BY InputFacts
<1>3. CASE off = NoOffset \/ off > input.old_len[d] + 1
  BY <1>1, <1>3 DEF MapSeq
<1>4. CASE ~(off = NoOffset \/ off > input.old_len[d] + 1)
  <2>1. off \in 0 .. SeqHalf - 1
    BY <1>1, <1>2, <1>4, SeqOffsetType
  <2>2. PICK p \in Nat : p = off
    BY <2>1, SeqHalfAssumption
  <2>3. MapOffset(p, Edits(d)) \in Nat
    BY InputFacts, MapOffsetNat
  <2>4. SeqAdd(Base(d), MapOffset(p, Edits(d))) \in SeqNumbers
    BY <1>2, <2>3, SeqAddType
  <2> QED BY <1>1, <1>4, <2>2, <2>4 DEF MapSeq
<1> QED BY <1>3, <1>4

LEMMA MappedAckFacts ==
  ASSUME IsInput(input), NEW packet \in Packet
  PROVE  /\ MappedAck(packet) \in Packet /\ MappedAck(packet).dir = packet.dir
         /\ MappedAck(packet).seq = packet.seq /\ MappedAck(packet).data = packet.data
         /\ MappedAck(packet).fin = packet.fin
<1>1. /\ packet.dir \in Directions /\ packet.ack \in SeqNumbers
      /\ packet.sack \in Seq(SeqNumbers)
  BY PacketFields
<1>2. PICK d \in Directions : d = Opposite(packet.dir)
  BY <1>1, OppositeType
<1>3. PICK ack \in SeqNumbers : ack = MapSeq(d, packet.ack)
  BY <1>1, MapSeqType
<1>4. PICK sack \in Seq(SeqNumbers) :
        sack = [n \in DOMAIN packet.sack |-> MapSeq(d, packet.sack[n])]
  <2>1. PICK old \in Seq(SeqNumbers) : old = packet.sack
    BY <1>1
  <2>2. Len(old) \in Nat /\ DOMAIN old = 1 .. Len(old)
    BY LenProperties
  <2>3. \A n \in 1 .. Len(old) : MapSeq(d, old[n]) \in SeqNumbers
    <3> TAKE n \in 1 .. Len(old)
    <3>1. old[n] \in SeqNumbers
      OBVIOUS
    <3> QED BY <3>1, MapSeqType
  <2>4. PICK f \in [1 .. Len(old) -> SeqNumbers] :
          f = [n \in 1 .. Len(old) |-> MapSeq(d, old[n])]
    BY <2>3
  <2>5. f \in Seq(SeqNumbers)
    BY <2>2
  <2> QED BY <2>1, <2>2, <2>4, <2>5
<1>5. MappedAck(packet) = [packet EXCEPT !.ack = ack, !.sack = sack]
  BY <1>2, <1>3, <1>4 DEF MappedAck
<1> QED BY <1>5 DEF Packet

LEMMA MappedSeqFacts ==
  ASSUME IsInput(input), NEW packet \in Packet
  PROVE  /\ MappedSeq(packet) \in Packet /\ MappedSeq(packet).dir = packet.dir
         /\ MappedSeq(packet).seq = MapSeq(packet.dir, packet.seq)
         /\ MappedSeq(packet).data = packet.data /\ MappedSeq(packet).fin = packet.fin
<1>1. PICK seq \in SeqNumbers : seq = MapSeq(packet.dir, packet.seq)
  BY PacketFields, MapSeqType
<1>2. MappedSeq(packet) = [packet EXCEPT !.seq = seq]
  BY <1>1 DEF MappedSeq
<1> QED BY <1>1, <1>2 DEF Packet

LEMMA AdjustedAckFacts ==
  ASSUME BaseInv, NEW i \in Indices, NEW packet \in Packet
  PROVE  /\ AdjustedAck(i, packet) \in Packet /\ AdjustedAck(i, packet).dir = packet.dir
         /\ AdjustedAck(i, packet).seq = packet.seq
         /\ AdjustedAck(i, packet).data = packet.data
         /\ AdjustedAck(i, packet).fin = packet.fin
<1>1. CASE i \in DOMAIN ack_overrides
  <2>1. PICK ack \in SeqNumbers : ack = ack_overrides[i]
    BY <1>1 DEF BaseInv, OverridesOK
  <2>2. AdjustedAck(i, packet) = [packet EXCEPT !.ack = ack]
    BY <1>1, <2>1 DEF AdjustedAck
  <2> QED BY <2>2 DEF Packet
<1>2. CASE i \notin DOMAIN ack_overrides /\ IsModified(Opposite(packet.dir))
  <2>1. AdjustedAck(i, packet) = MappedAck(packet)
    BY <1>2 DEF AdjustedAck
  <2> QED BY <2>1, MappedAckFacts DEF BaseInv
<1>3. CASE i \notin DOMAIN ack_overrides /\ ~IsModified(Opposite(packet.dir))
  BY <1>3 DEF AdjustedAck
<1> QED BY <1>1, <1>2, <1>3

LEMMA AdjustedFacts ==
  ASSUME BaseInv, NEW d \in Directions, NEW i \in Indices, input.packets[i].dir = d
  PROVE  /\ Adjusted(i) \in Packet /\ Adjusted(i).dir = d
         /\ Adjusted(i).data = packets[i].data /\ Adjusted(i).fin = packets[i].fin
         /\ Adjusted(i).seq = IF ~IsModified(d) THEN packets[i].seq
                              ELSE IF i \in DOMAIN packet_new_seq THEN packet_new_seq[i]
                              ELSE MapSeq(d, packets[i].seq)
<1>1. PICK packet \in Packet : packet = packets[i] /\ packet.dir = d
  BY DEF BaseInv, PacketsOK
<1>2. CASE ~IsModified(d)
  <2>1. Adjusted(i) = AdjustedAck(i, packet)
    BY <1>1, <1>2 DEF Adjusted
  <2> QED BY <1>1, <1>2, <2>1, AdjustedAckFacts
<1>3. CASE IsModified(d) /\ i \in DOMAIN packet_new_seq
  <2>1. PICK seq \in SeqNumbers : seq = packet_new_seq[i]
    BY <1>3 DEF BaseInv, NewSeqOK
  <2>2. PICK new : new = [packet EXCEPT !.seq = seq]
    OBVIOUS
  <2>3. /\ new \in Packet /\ new.dir = d /\ new.seq = seq
        /\ new.data = packet.data /\ new.fin = packet.fin
    BY <1>1, <2>2 DEF Packet
  <2>4. Adjusted(i) = AdjustedAck(i, new)
    BY <1>1, <1>3, <2>1, <2>2 DEF Adjusted
  <2>5. /\ Adjusted(i) \in Packet /\ Adjusted(i).dir = d
        /\ Adjusted(i).seq = seq /\ Adjusted(i).data = packet.data
        /\ Adjusted(i).fin = packet.fin
    BY <2>3, <2>4, AdjustedAckFacts
  <2> QED BY <1>1, <1>3, <2>1, <2>5
<1>4. CASE IsModified(d) /\ i \notin DOMAIN packet_new_seq
  <2>1. PICK new \in Packet :
          /\ new = MappedSeq(packet) /\ new.dir = d /\ new.data = packet.data
          /\ new.fin = packet.fin /\ new.seq = MapSeq(d, packet.seq)
    BY <1>1, MappedSeqFacts DEF BaseInv
  <2>2. Adjusted(i) = AdjustedAck(i, new)
    BY <1>1, <1>4, <2>1 DEF Adjusted
  <2>3. /\ Adjusted(i) \in Packet /\ Adjusted(i).dir = d
        /\ Adjusted(i).seq = new.seq /\ Adjusted(i).data = packet.data
        /\ Adjusted(i).fin = packet.fin
    BY <2>1, <2>2, AdjustedAckFacts
  <2> QED BY <1>1, <1>4, <2>1, <2>3
<1> QED BY <1>2, <1>3, <1>4

LEMMA AdjustedInsertFacts ==
  ASSUME IsInput(input), NEW packet \in Packet
  PROVE  /\ AdjustedInsert(packet) \in Packet /\ AdjustedInsert(packet).dir = packet.dir
         /\ AdjustedInsert(packet).data = packet.data
         /\ AdjustedInsert(packet).fin = packet.fin
         /\ packet.data # << >> \/ packet.fin => AdjustedInsert(packet).seq = packet.seq
<1>1. packet.data # << >> \/ packet.fin => ~IsPureAck(packet)
  BY DEF IsPureAck
<1>2. CASE AdjustedInsert(packet) = packet
  BY <1>2
<1>3. CASE IsPureAck(packet) /\ AdjustedInsert(packet) = MappedSeq(packet)
  BY <1>1, <1>3, MappedSeqFacts
<1>4. CASE AdjustedInsert(packet) = MappedAck(packet)
  BY <1>4, MappedAckFacts
<1> QED BY <1>2, <1>3, <1>4 DEF AdjustedInsert

\* What Adjust does to the packets that are inserted behind one.
LEMMA AdjustedInserts ==
  ASSUME BaseInv, Adjust, NEW i \in Indices
  PROVE  /\ insert_after'[i] \in Seq(Packet)
         /\ Len(insert_after'[i]) = Len(insert_after[i])
         /\ \A n \in 1 .. Len(insert_after[i]) :
              /\ insert_after'[i][n].dir = insert_after[i][n].dir
              /\ insert_after'[i][n].data = insert_after[i][n].data
              /\ insert_after'[i][n].fin = insert_after[i][n].fin
              /\ insert_after[i][n].data # << >> \/ insert_after[i][n].fin =>
                   insert_after'[i][n].seq = insert_after[i][n].seq
<1> USE DEF Adjust
<1>1. PICK old \in Seq(Packet) : old = insert_after[i]
  BY DEF BaseInv, InsertsOK
<1>2. Len(old) \in Nat /\ DOMAIN old = 1 .. Len(old) /\ IsInput(input)
  BY LenProperties DEF BaseInv
<1>3. CASE i \in deleted_indices
  BY <1>1, <1>3
<1>4. CASE i \notin deleted_indices
  <2>1. insert_after'[i] = [n \in 1 .. Len(old) |-> AdjustedInsert(old[n])]
    BY <1>1, <1>2, <1>4
  <2>2. ASSUME NEW n \in 1 .. Len(old)
        PROVE  /\ AdjustedInsert(old[n]) \in Packet
               /\ AdjustedInsert(old[n]).dir = old[n].dir
               /\ AdjustedInsert(old[n]).data = old[n].data
               /\ AdjustedInsert(old[n]).fin = old[n].fin
               /\ old[n].data # << >> \/ old[n].fin => AdjustedInsert(old[n]).seq = old[n].seq
    <3>1. PICK packet \in Packet : packet = old[n]
      OBVIOUS
    <3> QED BY <1>2, <3>1, AdjustedInsertFacts
  <2>3. PICK new \in [1 .. Len(old) -> Packet] :
          new = insert_after'[i] /\ \A n \in 1 .. Len(old) : new[n] = AdjustedInsert(old[n])
    BY <2>1, <2>2
  <2>4. new \in Seq(Packet) /\ Len(new) = Len(old)
    BY <1>2
  <2>5. \A n \in 1 .. Len(old) :
          /\ new[n].dir = old[n].dir /\ new[n].data = old[n].data /\ new[n].fin = old[n].fin
          /\ old[n].data # << >> \/ old[n].fin => new[n].seq = old[n].seq
    BY <2>2, <2>3
  <2> QED BY <1>1, <2>3, <2>4, <2>5
<1> QED BY <1>3, <1>4

LEMMA BaseAdjust ==
  ASSUME BaseInv, Adjust
  PROVE  BaseInv'
<1> USE DEF Adjust
<1>1. IsInput(input)' /\ NewSeqOK' /\ OverridesOK' /\ QueuesOK'
  BY NewSeqFrame, OverridesFrame, QueuesFrame DEF BaseInv
<1>2. PacketsOK'
  <2>1. ASSUME NEW i \in Indices
        PROVE  /\ packets'[i] \in Packet /\ packets'[i].dir = input.packets[i].dir
               /\ packets'[i].data = packets[i].data
    <3>1. PICK d \in Directions : d = input.packets[i].dir
      BY InputFacts, PacketFields DEF BaseInv
    <3>2. CASE i \in deleted_indices
      BY <3>2 DEF BaseInv, PacketsOK
    <3>3. CASE i \notin deleted_indices
      <4>1. packets'[i] = Adjusted(i)
        BY <3>3
      <4>2. Adjusted(i) \in Packet /\ Adjusted(i).dir = d /\ Adjusted(i).data = packets[i].data
        BY <3>1, AdjustedFacts
      <4> QED BY <3>1, <4>1, <4>2
    <3> QED BY <3>2, <3>3
  <2>2. packets' = [i \in Indices |-> packets'[i]]
    OBVIOUS
  <2>3. packets' \in [Indices -> Packet]
    BY <2>1, <2>2
  <2> HIDE DEF Adjust
  <2>4. input' = input /\ Indices' = Indices
    BY InputFrame DEF Adjust
  <2> QED BY <2>1, <2>3, <2>4 DEF BaseInv, PacketsOK
<1>3. FlowOK'
  BY DEF BaseInv, FlowOK
<1>4. TodoOK'
  BY FlowSets DEF BaseInv, TodoOK
<1>5. FilledOK'
  BY FlowSets DEF BaseInv, FilledOK
<1>6. InsertsOK'
  <2>1. \A i \in Indices : insert_after'[i] \in Seq(Packet)
    BY AdjustedInserts
  <2>2. insert_after' = [i \in Indices |-> insert_after'[i]]
    OBVIOUS
  <2>3. insert_after' \in [Indices -> Seq(Packet)]
    BY <2>1, <2>2
  <2> HIDE DEF Adjust
  <2>4. UNCHANGED <<deleted_indices, extra_packets, output>> /\ Indices' = Indices
    BY FlowSets DEF Adjust
  <2> QED BY <2>3, <2>4 DEF BaseInv, InsertsOK
<1> QED BY <1>1, <1>2, <1>3, <1>4, <1>5, <1>6 DEF BaseInv

LEMMA EmittedType ==
  ASSUME BaseInv, NEW i \in Indices
  PROVE  /\ Emitted(i) \in Seq(Packet)
         /\ i \in deleted_indices => Emitted(i) = << >>
         /\ i \notin deleted_indices => Range(Emitted(i)) = {packets[i]} \cup Range(insert_after[i])
<1>1. PICK packet \in Packet, inserts \in Seq(Packet) :
        packet = packets[i] /\ inserts = insert_after[i]
  BY DEF BaseInv, PacketsOK, InsertsOK
<1>2. CASE i \in deleted_indices
  BY <1>2, EmptySeq DEF Emitted
<1>3. CASE i \notin deleted_indices
  <2>1. PICK one \in Seq(Packet) : one = <<packet>> /\ Len(one) = 1 /\ one[1] = packet
    <3>1. <<packet>> \in Seq(Packet)
      OBVIOUS
    <3> QED BY <3>1
  <2>2. PICK s \in Seq(Packet) :
          /\ s = one \o inserts /\ Len(s) = Len(one) + Len(inserts)
          /\ \A n \in 1 .. Len(one) + Len(inserts) :
               s[n] = IF n <= Len(one) THEN one[n] ELSE inserts[n - Len(one)]
    <3>1. one \o inserts \in Seq(Packet)
      BY ConcatProperties
    <3> QED BY <3>1, ConcatProperties
  <2>3. Len(inserts) \in Nat /\ DOMAIN inserts = 1 .. Len(inserts) /\ DOMAIN s = 1 .. 1 + Len(inserts)
    BY <2>1, <2>2, LenProperties
  <2>4. s[1] = packet /\ \A n \in 1 .. Len(inserts) : s[n + 1] = inserts[n]
    BY <2>1, <2>2, <2>3
  <2>5. \A n \in 1 .. 1 + Len(inserts) : n = 1 \/ n - 1 \in 1 .. Len(inserts)
    BY <2>3
  <2>6. ASSUME NEW p \in Range(s) PROVE p \in {packet} \cup Range(inserts)
    <3>1. PICK n \in 1 .. 1 + Len(inserts) : p = s[n]
      BY <2>3, <2>6 DEF Range
    <3>2. CASE n = 1
      BY <3>1, <3>2, <2>4
    <3>3. CASE n - 1 \in 1 .. Len(inserts)
      <4>1. p = inserts[n - 1]
        BY <3>1, <3>3, <2>4, <2>3
      <4> QED BY <4>1, <3>3, <2>3 DEF Range
    <3> QED BY <3>2, <3>3, <2>5
  <2>7. packet \in Range(s)
    <3>1. 1 \in DOMAIN s
      BY <2>3
    <3> QED BY <3>1, <2>4 DEF Range
  <2>8. ASSUME NEW p \in Range(inserts) PROVE p \in Range(s)
    <3>1. PICK n \in 1 .. Len(inserts) : p = inserts[n]
      BY <2>3, <2>8 DEF Range
    <3>2. n + 1 \in DOMAIN s /\ p = s[n + 1]
      BY <2>3, <2>4, <3>1
    <3> QED BY <3>2 DEF Range
  <2>9. Range(s) = {packet} \cup Range(inserts)
    BY <2>6, <2>7, <2>8
  <2>10. Emitted(i) = s
    BY <1>1, <1>3, <2>1, <2>2 DEF Emitted
  <2> QED BY <1>1, <1>3, <2>9, <2>10
<1> QED BY <1>2, <1>3

LEMMA BaseEmitPacket ==
  ASSUME BaseInv, NEW i \in todo, EmitPacket(i)
  PROVE  BaseInv'
<1> USE DEF EmitPacket
<1>1. IsInput(input)' /\ NewSeqOK' /\ OverridesOK' /\ QueuesOK' /\ PacketsOK'
  BY NewSeqFrame, OverridesFrame, QueuesFrame, PacketsFrame DEF BaseInv, plan
<1>2. i \in Indices
  BY DEF BaseInv, TodoOK
<1>3. FlowOK'
  BY FlowSets DEF BaseInv, FlowOK, Waits
<1>4. TodoOK'
  <2>1. todo' \subseteq Indices
    BY DEF BaseInv, TodoOK
  <2>2. phase' = "adjusted" \/ (phase' = "done" /\ todo' = {})
    OBVIOUS
  <2> QED BY <2>1, <2>2, FlowSets DEF TodoOK
<1>5. FilledOK'
  BY FlowSets DEF BaseInv, FilledOK
<1>6. InsertsOK'
  <2>1. PICK old \in Seq(Packet), new \in Seq(Packet) : old = output /\ new = Emitted(i)
    BY <1>2, EmittedType DEF BaseInv, InsertsOK
  <2>2. old \o new \in Seq(Packet)
    BY ConcatProperties
  <2> QED BY <2>1, <2>2, FlowSets DEF BaseInv, InsertsOK, plan
<1> QED BY <1>1, <1>3, <1>4, <1>5, <1>6 DEF BaseInv

LEMMA BaseStutter ==
  ASSUME BaseInv, UNCHANGED vars
  PROVE  BaseInv'
<1> USE DEF vars, plan
<1>1. /\ IsInput(input)' /\ NewSeqOK' /\ OverridesOK' /\ QueuesOK' /\ PacketsOK' /\ FlowOK'
      /\ FilledOK' /\ InsertsOK'
  BY NewSeqFrame, OverridesFrame, QueuesFrame, PacketsFrame, FlowFrame, FilledFrame,
     InsertsFrame DEF BaseInv
<1>2. TodoOK'
  BY FlowSets DEF BaseInv, TodoOK
<1> QED BY <1>1, <1>2 DEF BaseInv

(***************************************************************************)
(* Whatever the input, the plan is well formed in every state.             *)
(***************************************************************************)
THEOREM PlanIsWellFormed == Spec => []BaseInv
<1>1. Init => BaseInv
  BY BaseInit
<1>2. BaseInv /\ [Next]_vars => BaseInv'
  <2> SUFFICES ASSUME BaseInv, [Next]_vars PROVE BaseInv'
    OBVIOUS
  <2>1. CASE UNCHANGED vars
    BY <2>1, BaseStutter
  <2>2. CASE BeginPreserve
    BY <2>2, BaseBeginPreserve
  <2>3. CASE DegradeFlow
    BY <2>3, BaseDegradeFlow
  <2>4. CASE EndPreserve
    BY <2>4, BaseEndPreserve
  <2>5. CASE BeginMerge
    BY <2>5, BaseBeginMerge
  <2>6. CASE ClonePiece
    BY <2>6, BaseClonePiece
  <2>7. CASE CloseFlow
    BY <2>7, BaseCloseFlow
  <2>8. CASE EndMerge
    BY <2>8, BaseEndMerge
  <2>9. CASE Adjust
    BY <2>9, BaseAdjust
  <2>10. ASSUME NEW k \in todo,
                \/ PreserveSegment(k) \/ FillSegment(k) \/ DeleteSegment(k)
                \/ RemapSegment(k) \/ DropRetransmission(k) \/ EmitPacket(k)
         PROVE  BaseInv'
    BY <2>10, BasePreserveSegment, BaseFillSegment, BaseDeleteSegment, BaseRemapSegment,
       BaseDropRetransmission, BaseEmitPacket
  <2> QED BY <2>1, <2>2, <2>3, <2>4, <2>5, <2>6, <2>7, <2>8, <2>9, <2>10 DEF Next
<1> QED BY <1>1, <1>2, PTL DEF Spec

-----------------------------------------------------------------------------
(***************************************************************************)
(* A payload that a packet may have: what the stream has at the packet's   *)
(* number.  And the bytes of the stream that it then holds.                *)
(***************************************************************************)
Carries(base, bytes, seq, data) ==
  data # << >> =>
    \E off \in Nat :
      /\ seq = SeqAdd(base, off)
      /\ off + Len(data) <= Len(bytes)
      /\ \A n \in 1 .. Len(data) : data[n] = bytes[off + n]

Hits(base, seq, data, pos) ==
  \E off \in Nat : seq = SeqAdd(base, off) /\ off <= pos /\ pos < off + Len(data)

LEMMA EmptyCarries ==
  ASSUME NEW base, NEW bytes, NEW seq
  PROVE  Carries(base, bytes, seq, << >>)
BY DEF Carries

-----------------------------------------------------------------------------
(***************************************************************************)
(* What is planned for ordinary flows.  A segment is as it was captured,   *)
(* or it has its SEQ fixed and carries the new stream.                     *)
(***************************************************************************)
Planning == phase \in {"next", "preserve", "fill", "remap"}
AtWork(d) == phase \in {"preserve", "fill", "remap"} /\ flow = d
Settled(d) == Planning /\ ~Waits(d) /\ ~AtWork(d)

SegmentsOK(d) ==
  Planning =>
    \A k \in Segments(d) :
      IF k \in DOMAIN packet_new_seq
      THEN Carries(Base(d), NewBytes(d), packet_new_seq[k], packets[k].data)
      ELSE /\ packets[k].seq = input.packets[k].seq
           /\ packets[k].data = input.packets[k].data

\* Nothing happens to the segments of a stream that is not changed.
QuietOK(d) ==
  Edits(d) = << >> =>
    \A k \in Segments(d) : k \notin DOMAIN packet_new_seq /\ k \notin deleted_indices

\* A flow that is to be cut anew has all its segments.
MergeOK(d) ==
  d \in Range(merged_flows) =>
    \A k \in Segments(d) :
      k \notin deleted_indices /\ insert_after[k] = << >> /\ packets[k].data # << >>

\* Until flows are cut anew nothing is deleted or inserted.
FreshInv ==
  /\ phase = "preserve" \/ preserve_flows # << >> =>
       deleted_indices = {} /\ \A i \in Indices : insert_after[i] = << >>
  /\ \A d \in Directions : d \in Range(preserve_flows) =>
       \A k \in Segments(d) : k \notin DOMAIN packet_new_seq

\* Packets are inserted behind packets with payload that stay.
AnchorInv ==
  \A i \in Indices :
    insert_after[i] # << >> => i \notin deleted_indices /\ packets[i].data # << >>

InsertedInv ==
  \A d \in Directions : \A i \in Indices : \A n \in 1 .. Len(insert_after[i]) :
    insert_after[i][n].dir = d =>
      Carries(Base(d), NewBytes(d), insert_after[i][n].seq, insert_after[i][n].data)

ExtraInv ==
  phase = "fill" =>
    \A n \in 1 .. Len(extra_packets) :
      extra_packets[n].data # << >> =>
        /\ extra_packets[n].dir = flow
        /\ Carries(Base(flow), NewBytes(flow), extra_packets[n].seq, extra_packets[n].data)

(***************************************************************************)
(* How far the work on a flow has come.                                    *)
(***************************************************************************)
KeptInv ==
  phase = "preserve" =>
    /\ \A k \in todo : k \notin DOMAIN packet_new_seq
    /\ \A k \in Segments(flow) \ todo :
         /\ packets[k].data = NewPayload(k)
         /\ k \in DOMAIN packet_new_seq => packet_new_seq[k] = SeqAdd(Base(flow), NewStart(k))
    /\ \A k \in Segments(flow) \ todo : \A m \in todo : InStreamOrder(k, m)

HeldByPrimary(pos) ==
  \E k \in Primaries(flow) \ (todo \cup deleted_indices) :
    k \in DOMAIN packet_new_seq /\ Hits(Base(flow), packet_new_seq[k], packets[k].data, pos)

HeldByExtra(pos) ==
  \E n \in 1 .. Len(extra_packets) :
    /\ extra_packets[n].dir = flow
    /\ Hits(Base(flow), extra_packets[n].seq, extra_packets[n].data, pos)

HeldByInsert(d, pos) ==
  \E i \in Indices \ deleted_indices : \E n \in 1 .. Len(insert_after[i]) :
    /\ insert_after[i][n].dir = d
    /\ Hits(Base(d), insert_after[i][n].seq, insert_after[i][n].data, pos)

FillInv ==
  phase = "fill" =>
    /\ cursor <= Len(NewBytes(flow))
    /\ \A k \in Segments(flow) : insert_after[k] = << >>
    /\ \A k \in todo : k \notin deleted_indices
    /\ \A k \in Primaries(flow) \ todo :
         IF k \in deleted_indices
         THEN cursor >= Len(NewBytes(flow)) /\ extra_packets = << >>
         ELSE k \in DOMAIN packet_new_seq /\ packets[k].data # << >>
    /\ extra_packets # << >> => todo = {}
    /\ \A pos \in Nat : pos < cursor => HeldByPrimary(pos) \/ HeldByExtra(pos)

RemapInv ==
  phase = "remap" =>
    /\ \A k \in todo : insert_after[k] = << >>
    /\ \A k \in Segments(flow) \ todo : k \in deleted_indices \/ k \in DOMAIN packet_new_seq
    /\ \A pos \in Nat :
         pos < Len(NewBytes(flow)) => HeldByPrimary(pos) \/ HeldByInsert(flow, pos)

(***************************************************************************)
(* A changed flow that is done: each segment that stays has been rewritten *)
(* or needs no change, and every byte is held.                             *)
(***************************************************************************)
PlannedSeq(d, k) ==
  IF k \in DOMAIN packet_new_seq THEN packet_new_seq[k] ELSE SeqAdd(Base(d), NewStart(k))

HeldBySegment(d, pos) ==
  \E k \in Segments(d) \ deleted_indices : Hits(Base(d), PlannedSeq(d, k), packets[k].data, pos)

Rewritten(d) ==
  /\ \A k \in Segments(d) \ deleted_indices :
       k \in DOMAIN packet_new_seq \/ NewPayload(k) = input.packets[k].data
  /\ \A pos \in Nat :
       pos < Len(NewBytes(d)) => HeldBySegment(d, pos) \/ HeldByInsert(d, pos)

SettledOK(d) == Settled(d) /\ Edits(d) # << >> => Rewritten(d)

\* The packets are adjusted, and written one by one.
AdjustedOK(d) ==
  /\ \A k \in Segments(d) \ deleted_indices :
       Carries(Base(d), NewBytes(d), packets[k].seq, packets[k].data)
  /\ \A pos \in Nat : pos < Len(NewBytes(d)) =>
       \/ \E k \in Segments(d) \ deleted_indices :
            Hits(Base(d), packets[k].seq, packets[k].data, pos)
       \/ HeldByInsert(d, pos)
  /\ \A packet \in Range(output) :
       packet.dir = d => Carries(Base(d), NewBytes(d), packet.seq, packet.data)

OutputInv ==
  phase \in {"adjusted", "done"} =>
    /\ \A d \in Directions : AdjustedOK(d)
    /\ \A i \in Indices \ (todo \cup deleted_indices) :
         packets[i] \in Range(output) /\ Range(insert_after[i]) \subseteq Range(output)

FlowsInv ==
  \A d \in Directions : SegmentsOK(d) /\ QuietOK(d) /\ MergeOK(d) /\ SettledOK(d)

WorkInv == KeptInv /\ FillInv /\ RemapInv /\ ExtraInv

OrdinaryInv == FlowsInv /\ FreshInv /\ AnchorInv /\ InsertedInv /\ WorkInv /\ OutputInv

-----------------------------------------------------------------------------
(***************************************************************************)
(* Frames: on what each part depends.                                      *)
(***************************************************************************)
LEMMA SegmentsFrame ==
  ASSUME NEW d, SegmentsOK(d), UNCHANGED <<input, packets, packet_new_seq>>,
         Planning' => Planning
  PROVE  SegmentsOK(d)'
BY InputFrame DEF SegmentsOK

LEMMA QuietFrame ==
  ASSUME NEW d, QuietOK(d), UNCHANGED <<input, packet_new_seq, deleted_indices>>
  PROVE  QuietOK(d)'
BY InputFrame DEF QuietOK

LEMMA MergeFrame ==
  ASSUME NEW d, MergeOK(d), UNCHANGED <<input, packets, deleted_indices, insert_after>>,
         d \in Range(merged_flows') => d \in Range(merged_flows)
  PROVE  MergeOK(d)'
BY InputFrame DEF MergeOK

LEMMA HeldFrame ==
  ASSUME NEW d, NEW pos, UNCHANGED <<input, deleted_indices, insert_after>>
  PROVE  HeldByInsert(d, pos)' = HeldByInsert(d, pos)
<1>1. Indices' = Indices /\ Base(d)' = Base(d)
  BY InputFrame
<1> QED BY <1>1 DEF HeldByInsert

LEMMA RewrittenFrame ==
  ASSUME NEW d, Rewritten(d),
         UNCHANGED <<input, packets, packet_new_seq, deleted_indices, insert_after>>
  PROVE  Rewritten(d)'
<1>1. /\ Segments(d)' = Segments(d) /\ Base(d)' = Base(d) /\ NewBytes(d)' = NewBytes(d)
      /\ \A k : NewPayload(k)' = NewPayload(k) /\ NewStart(k)' = NewStart(k)
  BY InputFrame
<1>2. \A k : PlannedSeq(d, k)' = PlannedSeq(d, k)
  BY <1>1 DEF PlannedSeq
<1>3. \A pos : HeldBySegment(d, pos)' = HeldBySegment(d, pos)
  BY <1>1, <1>2 DEF HeldBySegment
<1>4. \A pos : HeldByInsert(d, pos)' = HeldByInsert(d, pos)
  BY HeldFrame
<1> QED BY <1>1, <1>3, <1>4 DEF Rewritten

LEMMA SettledFrame ==
  ASSUME NEW d, SettledOK(d),
         UNCHANGED <<input, packets, packet_new_seq, deleted_indices, insert_after>>,
         Settled(d)' => Settled(d) \/ Edits(d) = << >>
  PROVE  SettledOK(d)'
<1>1. Edits(d)' = Edits(d)
  BY InputFrame
<1> QED BY <1>1, RewrittenFrame DEF SettledOK

LEMMA AnchorFrame ==
  ASSUME AnchorInv, UNCHANGED <<input, packets, deleted_indices, insert_after>>
  PROVE  AnchorInv'
BY DEF AnchorInv, Indices

LEMMA InsertedFrame ==
  ASSUME InsertedInv, UNCHANGED <<input, insert_after>>
  PROVE  InsertedInv'
<1>1. /\ Indices' = Indices
      /\ \A d : Base(d)' = Base(d) /\ NewBytes(d)' = NewBytes(d)
  BY InputFrame
<1> QED BY <1>1 DEF InsertedInv

LEMMA FreshFrame ==
  ASSUME FreshInv,
         UNCHANGED <<input, packet_new_seq, deleted_indices, insert_after>>,
         phase' = "preserve" \/ preserve_flows' # << >> =>
           phase = "preserve" \/ preserve_flows # << >>,
         Range(preserve_flows') \subseteq Range(preserve_flows)
  PROVE  FreshInv'
<1>1. Indices' = Indices /\ \A d : Segments(d)' = Segments(d)
  BY InputFrame
<1> QED BY <1>1 DEF FreshInv

-----------------------------------------------------------------------------
(***************************************************************************)
(* The work on a flow leaves the other one alone, but for packets without  *)
(* payload; and what is inserted stays.                                    *)
(***************************************************************************)
OthersUntouched ==
  \A i \in Indices : input.packets[i].dir # flow =>
    /\ packets'[i].data = packets[i].data /\ packets'[i].seq = packets[i].seq
    /\ insert_after'[i] = insert_after[i]
    /\ i \in DOMAIN packet_new_seq' <=> i \in DOMAIN packet_new_seq
    /\ i \in DOMAIN packet_new_seq => packet_new_seq'[i] = packet_new_seq[i]

DeletionsGrow ==
  /\ deleted_indices \subseteq deleted_indices'
  /\ \A i \in deleted_indices' \ deleted_indices :
       /\ insert_after[i] = << >>
       /\ input.packets[i].dir = flow \/ packets[i].data = << >>

InsertsStay ==
  \A i \in Indices : /\ Len(insert_after[i]) <= Len(insert_after'[i])
                     /\ \A n \in 1 .. Len(insert_after[i]) :
                          insert_after'[i][n] = insert_after[i][n]

Works ==
  /\ UNCHANGED <<input, flow, preserve_flows, merged_flows>>
  /\ phase \in {"preserve", "fill", "remap"} /\ phase' \in {"preserve", "fill", "remap"}
  /\ OthersUntouched /\ DeletionsGrow /\ InsertsStay

LEMMA HitsHasData ==
  ASSUME NEW base, NEW seq, NEW data, NEW pos \in Nat, Hits(base, seq, data, pos)
  PROVE  data # << >>
<1>1. PICK off \in Nat : off <= pos /\ pos < off + Len(data)
  BY DEF Hits
<1> SUFFICES ASSUME data = << >> PROVE FALSE
  OBVIOUS
<1>2. Len(data) = 0
  OBVIOUS
<1>3. off <= pos /\ pos < off
  BY <1>1, <1>2
<1> QED BY <1>3

LEMMA HeldStays ==
  ASSUME BaseInv, input' = input, DeletionsGrow, InsertsStay, NEW d, NEW pos, HeldByInsert(d, pos)
  PROVE  HeldByInsert(d, pos)'
<1>1. Indices' = Indices /\ Base(d)' = Base(d)
  BY InputFrame
<1>2. PICK i \in Indices \ deleted_indices :
        \E n \in 1 .. Len(insert_after[i]) :
          /\ insert_after[i][n].dir = d
          /\ Hits(Base(d), insert_after[i][n].seq, insert_after[i][n].data, pos)
  BY DEF HeldByInsert
<1>8. PICK n \in 1 .. Len(insert_after[i]) :
        /\ insert_after[i][n].dir = d
        /\ Hits(Base(d), insert_after[i][n].seq, insert_after[i][n].data, pos)
  BY <1>2
<1>3. PICK len \in Nat : len = Len(insert_after[i])
  BY LenProperties DEF BaseInv, InsertsOK
<1>4. insert_after[i] # << >>
  <2>1. 1 .. 0 = {} /\ Len(<< >>) = 0
    OBVIOUS
  <2> QED BY <2>1, <1>8
<1>5. i \in Indices' \ deleted_indices'
  BY <1>1, <1>2, <1>4 DEF DeletionsGrow
<1>6. insert_after'[i][n] = insert_after[i][n]
  BY <1>2, <1>8 DEF InsertsStay
<1>7. n \in 1 .. Len(insert_after'[i])
  <2>1. PICK new : new = Len(insert_after'[i])
    OBVIOUS
  <2>2. len <= new /\ n \in 1 .. len
    BY <1>2, <1>3, <1>8, <2>1 DEF InsertsStay
  <2> QED BY <2>1, <2>2
<1> QED BY <1>1, <1>5, <1>6, <1>7, <1>8 DEF HeldByInsert

LEMMA OthersStay ==
  ASSUME BaseInv, BaseInv', FlowsInv, Works, NEW d \in Directions, d # flow
  PROVE  SegmentsOK(d)' /\ QuietOK(d)' /\ MergeOK(d)' /\ SettledOK(d)'
<1>1. /\ Segments(d)' = Segments(d) /\ Base(d)' = Base(d) /\ NewBytes(d)' = NewBytes(d)
      /\ Edits(d)' = Edits(d) /\ input' = input
      /\ \A k : NewPayload(k)' = NewPayload(k) /\ NewStart(k)' = NewStart(k)
  BY InputFrame DEF Works
<1>2. /\ SegmentsOK(d) /\ QuietOK(d) /\ MergeOK(d) /\ SettledOK(d)
  BY DEF FlowsInv
<1>3. \A k \in Segments(d) :
        /\ k \in Indices /\ input.packets[k].data # << >>
        /\ packets'[k].data = packets[k].data /\ packets'[k].seq = packets[k].seq
        /\ insert_after'[k] = insert_after[k]
        /\ k \in DOMAIN packet_new_seq' <=> k \in DOMAIN packet_new_seq
        /\ k \in DOMAIN packet_new_seq => packet_new_seq'[k] = packet_new_seq[k]
  BY DEF Segments, Works, OthersUntouched
<1>4. \A k \in Segments(d) : packets[k].data # << >> /\ k \notin deleted_indices
                               => k \notin deleted_indices'
  BY DEF Segments, Works, DeletionsGrow
<1>5. Planning
  BY DEF Works, Planning
<1>6. SegmentsOK(d)'
  BY <1>1, <1>2, <1>3, <1>5 DEF SegmentsOK
<1>7. QuietOK(d)'
  BY <1>1, <1>2, <1>3, <1>4, <1>5 DEF QuietOK, SegmentsOK
<1>8. MergeOK(d)'
  BY <1>1, <1>2, <1>3, <1>4 DEF MergeOK, Works
<1>9. SettledOK(d)'
  <2> SUFFICES ASSUME Settled(d)', Edits(d) # << >>
               PROVE  Rewritten(d)'
    BY <1>1 DEF SettledOK
  <2>1. Settled(d)
    BY <1>5 DEF Settled, Waits, AtWork, Works
  <2>2. Rewritten(d)
    BY <2>1, <1>2 DEF SettledOK
  <2>3. deleted_indices \subseteq deleted_indices'
    BY DEF Works, DeletionsGrow
  <2>4. \A k \in Segments(d) \ deleted_indices' :
          k \in DOMAIN packet_new_seq' \/ NewPayload(k) = input.packets[k].data
    BY <2>2, <2>3, <1>3 DEF Rewritten
  <2>5. \A k \in Segments(d) : PlannedSeq(d, k)' = PlannedSeq(d, k)
    BY <1>1, <1>3 DEF PlannedSeq
  <2>6. ASSUME NEW pos \in Nat, HeldBySegment(d, pos) PROVE HeldBySegment(d, pos)'
    <3>1. PICK k \in Segments(d) \ deleted_indices :
            Hits(Base(d), PlannedSeq(d, k), packets[k].data, pos)
      BY <2>6 DEF HeldBySegment
    <3>2. packets[k].data # << >>
      BY <3>1, HitsHasData
    <3>3. k \in Segments(d) \ deleted_indices'
      BY <3>1, <3>2, <1>4
    <3>4. packets'[k].data = packets[k].data /\ PlannedSeq(d, k)' = PlannedSeq(d, k)
      BY <3>1, <2>5, <1>3
    <3> QED BY <1>1, <3>1, <3>3, <3>4 DEF HeldBySegment
  <2>7. ASSUME NEW pos, HeldByInsert(d, pos) PROVE HeldByInsert(d, pos)'
    BY <2>7, <1>1, HeldStays DEF Works
  <2> QED BY <1>1, <2>2, <2>4, <2>6, <2>7 DEF Rewritten
<1> QED BY <1>6, <1>7, <1>8, <1>9

\* The flow at work is neither waiting nor settled.
LEMMA FlowsGoOn ==
  ASSUME BaseInv, BaseInv', FlowsInv, Works, SegmentsOK(flow)', QuietOK(flow)'
  PROVE  FlowsInv'
<1>1. flow' = flow /\ flow \in Directions
  BY DEF Works, BaseInv, FlowOK
<1>2. ~Waits(flow)'
  BY DEF BaseInv, FlowOK, Works, Waits
<1>3. MergeOK(flow)'
  BY <1>2 DEF MergeOK, Waits
<1>4. SettledOK(flow)'
  BY DEF SettledOK, Settled, AtWork, Works
<1>5. \A d \in Directions : SegmentsOK(d)' /\ QuietOK(d)' /\ MergeOK(d)' /\ SettledOK(d)'
  <2> TAKE d \in Directions
  <2>1. CASE d = flow
    <3>1. SegmentsOK(d)' /\ QuietOK(d)'
      BY <2>1, <1>1 DEF SegmentsOK, QuietOK
    <3>2. MergeOK(d)' /\ SettledOK(d)'
      BY <2>1, <1>2 DEF MergeOK, SettledOK, Settled, AtWork, Works, Waits
    <3> QED BY <3>1, <3>2
  <2>2. CASE d # flow
    BY <2>2, OthersStay
  <2> QED BY <2>1, <2>2
<1> QED BY <1>5 DEF FlowsInv

-----------------------------------------------------------------------------
(***************************************************************************)
(* The segments of a captured flow cover its new stream, if nothing is     *)
(* put in front of its first byte.                                         *)
(***************************************************************************)
LEMMA SegmentsCover ==
  ASSUME IsInput(input), NEW d \in Directions, IsCaptured(d), MapOffset(0, Edits(d)) = 0,
         NEW pos \in Nat, pos < Len(NewBytes(d))
  PROVE  \E k \in Segments(d) : NewStart(k) <= pos /\ pos < NewEnd(k)
<1>1. PICK len \in Nat, es \in {Edits(d)} : len = input.old_len[d]
  BY InputFacts
<1>2. IsEditList(es, len, NewLen(es, len)) /\ MapOffset(0, es) = 0
  BY <1>1, InputFacts
<1>3. MapOffset(len, es) = Len(NewBytes(d))
  BY <1>1, <1>2, EndLandsAtEnd DEF NewBytes
<1> DEFINE T == {p \in Nat : pos < MapOffset(p, es)}
<1>4. PICK r \in T : \A p \in T : r <= p
  <2>1. len \in T
    BY <1>3
  <2>2. T \subseteq Nat
    OBVIOUS
  <2> QED BY <2>1, <2>2, LeastElement
<1>5. r \in Nat /\ pos < MapOffset(r, es)
  OBVIOUS
<1>6. r <= len
  BY <1>3, <1>4
<1>7. r # 0
  BY <1>2, <1>5
<1>8. PICK p \in Nat : r = p + 1
  <2>1. r - 1 \in Nat /\ r = (r - 1) + 1
    BY <1>5, <1>7
  <2> QED BY <2>1
<1>9. p \notin T /\ p < len
  BY <1>4, <1>6, <1>8
<1>10. MapOffset(p, es) <= pos
  <2>1. MapOffset(p, es) \in Nat
    BY <1>2, MapOffsetNat
  <2> QED BY <2>1, <1>9
<1>11. PICK k \in Segments(d) : OldStart(k) <= p /\ p < OldEnd(k)
  <2>1. p \in 0 .. input.old_len[d] - 1
    BY <1>1, <1>9
  <2> QED BY <2>1 DEF IsCaptured
<1>12. PICK from \in Nat, to \in Nat : from = OldStart(k) /\ to = OldEnd(k)
  BY SegmentFacts, SeqHalfAssumption
<1>13. input.packets[k].dir = d
  BY SegmentFacts
<1>14. NewStart(k) = MapOffset(from, es) /\ NewEnd(k) = MapOffset(to, es)
  BY <1>1, <1>12, <1>13 DEF NewStart, NewEnd
<1>15. from <= p /\ r <= to
  BY <1>8, <1>11, <1>12
<1>16. MapOffset(from, es) <= MapOffset(p, es) /\ MapOffset(r, es) <= MapOffset(to, es)
  BY <1>2, <1>5, <1>15, MapOffsetIsMonotonic
<1>17. /\ MapOffset(from, es) \in Nat /\ MapOffset(p, es) \in Nat
       /\ MapOffset(r, es) \in Nat /\ MapOffset(to, es) \in Nat
  BY <1>2, <1>5, MapOffsetNat
<1>18. NewStart(k) <= pos /\ pos < NewEnd(k)
  BY <1>5, <1>10, <1>14, <1>16, <1>17
<1> QED BY <1>18

LEMMA NewPayloadHits ==
  ASSUME IsInput(input), NEW d \in Directions, NEW k \in Segments(d),
         NEW pos \in Nat, NewStart(k) <= pos, pos < NewEnd(k)
  PROVE  Hits(Base(d), SeqAdd(Base(d), NewStart(k)), NewPayload(k), pos)
<1>1. /\ NewStart(k) \in Nat /\ NewEnd(k) \in Nat
      /\ Len(NewPayload(k)) = NewEnd(k) - NewStart(k)
  BY NewSegmentFacts
<1>2. pos < NewStart(k) + Len(NewPayload(k))
  BY <1>1
<1> QED BY <1>1, <1>2 DEF Hits

LEMMA NewPayloadCarries ==
  ASSUME IsInput(input), NEW d \in Directions, NEW k \in Segments(d)
  PROVE  Carries(Base(d), NewBytes(d), SeqAdd(Base(d), NewStart(k)), NewPayload(k))
<1>1. /\ NewStart(k) \in Nat /\ NewEnd(k) \in Nat /\ NewEnd(k) <= Len(NewBytes(d))
      /\ Len(NewPayload(k)) = NewEnd(k) - NewStart(k)
      /\ \A n \in 1 .. Len(NewPayload(k)) : NewPayload(k)[n] = NewBytes(d)[NewStart(k) + n]
  BY NewSegmentFacts
<1>2. Len(NewBytes(d)) \in Nat
  BY NewBytesType
<1>3. NewStart(k) + Len(NewPayload(k)) <= Len(NewBytes(d))
  BY <1>1, <1>2
<1> QED BY <1>1, <1>3 DEF Carries

\* A segment of a stream without edits keeps place and payload.
LEMMA QuietPayload ==
  ASSUME IsInput(input), NEW d \in Directions, NEW k \in Segments(d), Edits(d) = << >>
  PROVE  NewStart(k) = OldStart(k) /\ NewPayload(k) = input.packets[k].data
<1>1. PICK from \in Nat, to \in Nat : from = OldStart(k) /\ to = OldEnd(k)
  BY SegmentFacts, SeqHalfAssumption
<1>2. input.packets[k].dir = d
  BY SegmentFacts
<1>3. NewStart(k) = from /\ NewEnd(k) = to
  BY <1>1, <1>2, QuietFacts DEF NewStart, NewEnd
<1>4. PICK new \in Seq(Bytes) : new = NewPayload(k)
  BY NewSegmentFacts
<1>5. PICK old \in Seq(Bytes) : old = input.packets[k].data
  <2>1. input.packets[k] \in Packet
    BY SegmentFacts
  <2> QED BY <2>1, PacketFields
<1>6. Len(new) = to - from /\ Len(old) = to - from
  <2>1. Len(NewPayload(k)) = NewEnd(k) - NewStart(k)
    BY NewSegmentFacts
  <2>2. Len(input.packets[k].data) = OldEnd(k) - OldStart(k)
    BY SegmentFacts
  <2> QED BY <2>1, <2>2, <1>1, <1>3, <1>4, <1>5
<1>7. \A n \in 1 .. to - from : new[n] = NewBytes(d)[from + n]
  <2>1. \A n \in 1 .. Len(NewPayload(k)) : NewPayload(k)[n] = NewBytes(d)[NewStart(k) + n]
    BY NewSegmentFacts
  <2> QED BY <2>1, <1>3, <1>4, <1>6
<1>8. \A n \in 1 .. to - from : old[n] = OldStream(input.old_len[d])[from + n]
  <2>1. \A n \in 1 .. Len(input.packets[k].data) :
          input.packets[k].data[n] = OldStream(input.old_len[d])[OldStart(k) + n]
    BY SegmentFacts
  <2> QED BY <2>1, <1>1, <1>5, <1>6
<1>9. NewBytes(d) = OldStream(input.old_len[d])
  BY QuietFacts
<1>10. \A n \in 1 .. to - from : new[n] = old[n]
  BY <1>7, <1>8, <1>9
<1>11. DOMAIN new = 1 .. to - from /\ DOMAIN old = 1 .. to - from
  BY <1>6, LenProperties
<1>12. new = old
  BY <1>10, <1>11, SeqEqual, <1>6
<1> QED BY <1>1, <1>3, <1>4, <1>5, <1>12

LEMMA OrdinaryFrame ==
  ASSUME input' = input, IsOrdinary
  PROVE  IsOrdinary'
<1>1. \A d : IsCaptured(d)' = IsCaptured(d)
  BY InputFrame DEF IsCaptured
<1>2. \A d : CanKeepPackets(d)' = CanKeepPackets(d)
  BY InputFrame, PrimaryFrame DEF CanKeepPackets
<1> QED BY <1>1, <1>2, InputFrame DEF IsOrdinary

-----------------------------------------------------------------------------
(***************************************************************************)
(* Ordinary flows: the initial states, and flows that keep their packets.  *)
(***************************************************************************)
LEMMA NoWorkInNext ==
  ASSUME phase \in {"next", "adjusted", "done"}
  PROVE  WorkInv
BY DEF WorkInv, KeptInv, FillInv, RemapInv, ExtraInv

LEMMA OrdinaryInit ==
  ASSUME Init, BaseInv, IsOrdinary
  PROVE  OrdinaryInv
<1> USE DEF Init
<1>1. IsInput(input)
  BY DEF BaseInv
<1>2. ASSUME NEW d \in Directions
      PROVE  SegmentsOK(d) /\ QuietOK(d) /\ MergeOK(d) /\ SettledOK(d)
  <2>1. \A k \in Segments(d) : k \in Indices /\ input.packets[k].data # << >>
    BY DEF Segments
  <2>2. SegmentsOK(d) /\ QuietOK(d) /\ MergeOK(d)
    BY <2>1 DEF SegmentsOK, QuietOK, MergeOK
  <2>3. SettledOK(d)
    <3> SUFFICES ASSUME Edits(d) # << >> PROVE Waits(d)
      BY DEF SettledOK, Settled
    <3>1. input.handling[d] \in {"preserve", "merge"} /\ Segments(d) # {}
      BY <1>1, InputFacts DEF IsOrdinary, IsCaptured
    <3>2. /\ Range(preserve_flows) =
               {e \in Directions : input.handling[e] = "preserve" /\ Segments(e) # {}}
          /\ Range(merged_flows) =
               {e \in Directions : input.handling[e] = "merge" /\ Segments(e) # {}}
      BY <1>1, QueuesExist
    <3> HIDE DEF Init
    <3> QED BY <3>1, <3>2 DEF Waits
  <2> QED BY <2>2, <2>3
<1>3. FlowsInv
  BY <1>2 DEF FlowsInv
<1>4. FreshInv
  BY DEF FreshInv
<1>5. AnchorInv
  BY DEF AnchorInv
<1>6. InsertedInv
  <2>1. \A i \in Indices : insert_after[i] = << >>
    OBVIOUS
  <2>2. 1 .. Len(<< >>) = {}
    OBVIOUS
  <2> QED BY <2>1, <2>2 DEF InsertedInv
<1>7. WorkInv /\ OutputInv
  BY NoWorkInNext DEF OutputInv
<1> QED BY <1>3, <1>4, <1>5, <1>6, <1>7 DEF OrdinaryInv

LEMMA OrdinaryBeginPreserve ==
  ASSUME BaseInv, BaseInv', IsOrdinary, OrdinaryInv, BeginPreserve
  PROVE  OrdinaryInv'
<1> USE DEF BeginPreserve
<1>1. PICK q \in Seq(Directions) : q = preserve_flows /\ q # << >> /\ IsInjective(q)
  BY DEF BaseInv, QueuesOK
<1>2. /\ Head(q) \in Directions /\ Head(q) \in Range(q)
      /\ Range(Tail(q)) = Range(q) \ {Head(q)}
  BY <1>1, QueueHead
<1>3. PICK head \in Directions : head = Head(q)
  BY <1>2
<1>4. /\ flow' = head /\ Range(preserve_flows') = Range(preserve_flows) \ {head}
      /\ head \in Range(preserve_flows) /\ phase = "next" /\ phase' = "preserve"
      /\ todo' = Primaries(head)
      /\ UNCHANGED <<input, packets, merged_flows, packet_new_seq, deleted_indices,
                     insert_after>>
  BY <1>1, <1>2, <1>3 DEF plan
<1>5. preserve_flows # << >>
  OBVIOUS
<1> HIDE DEF BeginPreserve
<1>6. ASSUME NEW d \in Directions
      PROVE  SegmentsOK(d)' /\ QuietOK(d)' /\ MergeOK(d)' /\ SettledOK(d)'
  <2>1. SegmentsOK(d) /\ QuietOK(d) /\ MergeOK(d) /\ SettledOK(d)
    BY DEF OrdinaryInv, FlowsInv
  <2>2. Settled(d)' => Settled(d)
    BY <1>4 DEF Settled, Planning, Waits, AtWork
  <2>3. Planning
    BY <1>4 DEF Planning
  <2> QED BY <1>4, <2>1, <2>2, <2>3, SegmentsFrame, QuietFrame, MergeFrame, SettledFrame
<1>7. FreshInv' /\ AnchorInv' /\ InsertedInv'
  BY <1>4, <1>5, FreshFrame, AnchorFrame, InsertedFrame DEF OrdinaryInv
<1>8. KeptInv'
  <2>1. input.handling[head] = "preserve"
    BY <1>4 DEF BaseInv, QueuesOK
  <2>2. Primaries(head) = Segments(head)
    BY <2>1 DEF IsOrdinary, CanKeepPackets, Retransmissions, Primaries
  <2>3. \A k \in Segments(head) : k \notin DOMAIN packet_new_seq
    BY <1>4 DEF OrdinaryInv, FreshInv
  <2>4. Segments(head)' = Segments(head)
    BY <1>4, InputFrame
  <2>5. Segments(flow)' = Segments(head)
    BY <1>4, <2>4 DEF Segments, Indices
  <2> QED BY <1>4, <2>2, <2>3, <2>5 DEF KeptInv
<1>9. WorkInv' /\ OutputInv'
  BY <1>4, <1>8 DEF WorkInv, FillInv, RemapInv, ExtraInv, OutputInv
<1> QED BY <1>6, <1>7, <1>9 DEF OrdinaryInv, FlowsInv

LEMMA OrdinaryPreserveSegment ==
  ASSUME BaseInv, BaseInv', IsOrdinary, OrdinaryInv, NEW k \in todo, PreserveSegment(k)
  PROVE  OrdinaryInv'
<1> USE DEF PreserveSegment
<1>1. /\ IsInput(input) /\ flow \in Directions /\ k \in Segments(flow)
      /\ k \in Indices /\ input.packets[k].dir = flow /\ input.packets[k].data # << >>
      /\ packets[k] \in Packet
  BY TodoFacts
<1>2. /\ phase = "preserve" /\ phase' = "preserve" /\ todo' = todo \ {k}
      /\ \A m \in todo \ {k} : InStreamOrder(k, m)
      /\ UNCHANGED <<input, flow, preserve_flows, merged_flows, deleted_indices, insert_after>>
  BY DEF IsNextInStream
<1>3. k \notin DOMAIN packet_new_seq
  BY <1>2 DEF OrdinaryInv, WorkInv, KeptInv
<1>4. SegmentsOK(flow) /\ QuietOK(flow) /\ KeptInv /\ FreshInv
  BY <1>1 DEF OrdinaryInv, FlowsInv, WorkInv
<1>5. packets[k].data = input.packets[k].data
  BY <1>1, <1>2, <1>3, <1>4 DEF SegmentsOK, Planning
<1>6. packets' \in [Indices -> Packet] /\ packets \in [Indices -> Packet]
  BY <1>2, InputFrame DEF BaseInv, PacketsOK
\* What changes.
<1>7. /\ \A i \in Indices : i # k => packets'[i] = packets[i]
      /\ \A i : i # k => (i \in DOMAIN packet_new_seq' <=> i \in DOMAIN packet_new_seq)
      /\ \A i \in DOMAIN packet_new_seq : packet_new_seq'[i] = packet_new_seq[i]
      /\ packets'[k].data = NewPayload(k)
      /\ IF NewPayload(k) = input.packets[k].data
         THEN packets'[k] = packets[k] /\ k \notin DOMAIN packet_new_seq'
         ELSE /\ k \in DOMAIN packet_new_seq'
              /\ packet_new_seq'[k] = SeqAdd(Base(flow), NewStart(k))
  <2>1. CASE NewPayload(k) = input.packets[k].data
    BY <2>1, <1>3, <1>5
  <2>2. CASE NewPayload(k) # input.packets[k].data
    <3>1. PICK seq, data : seq = SeqAdd(Base(flow), NewStart(k)) /\ data = NewPayload(k)
      OBVIOUS
    <3>2. /\ packets' = [packets EXCEPT ![k] = WithPayload(@, seq, data)]
          /\ packet_new_seq' = With(packet_new_seq, k, seq)
      BY <2>2, <3>1
    <3> HIDE DEF PreserveSegment
    <3>3. packets'[k] = WithPayload(packets[k], seq, data)
      BY <3>2, <1>1, <1>6
    <3>4. PICK old \in Packet : old = packets[k]
      BY <1>1
    <3>5. packets'[k].data = data
      BY <3>3, <3>4 DEF WithPayload, Packet
    <3>6. \A i \in Indices : i # k => packets'[i] = packets[i]
      BY <3>2, <1>6
    <3>7. DOMAIN packet_new_seq' = DOMAIN packet_new_seq \cup {k} /\ packet_new_seq'[k] = seq
      BY <3>2 DEF With
    <3>8. \A i \in DOMAIN packet_new_seq : packet_new_seq'[i] = packet_new_seq[i]
      BY <3>2, <1>3 DEF With
    <3> QED BY <2>2, <3>1, <3>5, <3>6, <3>7, <3>8
  <2> QED BY <2>1, <2>2
<1> HIDE DEF PreserveSegment
<1>8. Works
  <2>1. OthersUntouched
    BY <1>1, <1>2, <1>7 DEF OthersUntouched
  <2>2. DeletionsGrow
    BY <1>2 DEF DeletionsGrow
  <2>3. InsertsStay
    <3>1. \A i \in Indices : Len(insert_after[i]) \in Nat
      BY LenProperties DEF BaseInv, InsertsOK
    <3> QED BY <3>1, <1>2 DEF InsertsStay
  <2> QED BY <1>2, <2>1, <2>2, <2>3 DEF Works
<1>9. /\ Segments(flow)' = Segments(flow) /\ Base(flow)' = Base(flow)
      /\ NewBytes(flow)' = NewBytes(flow) /\ Edits(flow)' = Edits(flow)
  BY <1>2, FlowSets
<1>10. SegmentsOK(flow)'
  <2>1. ASSUME NEW m \in Segments(flow)
        PROVE  IF m \in DOMAIN packet_new_seq'
               THEN Carries(Base(flow), NewBytes(flow), packet_new_seq'[m], packets'[m].data)
               ELSE /\ packets'[m].seq = input.packets[m].seq
                    /\ packets'[m].data = input.packets[m].data
    <3>1. m \in Indices /\ Planning
      BY <1>2 DEF Segments, Planning
    <3>2. CASE m # k
      BY <3>1, <3>2, <1>4, <1>7 DEF SegmentsOK
    <3>3. CASE m = k /\ NewPayload(k) = input.packets[k].data
      BY <3>1, <3>3, <1>3, <1>4, <1>7 DEF SegmentsOK
    <3>4. CASE m = k /\ NewPayload(k) # input.packets[k].data
      BY <3>4, <1>1, <1>7, NewPayloadCarries
    <3> QED BY <3>2, <3>3, <3>4
  <2> QED BY <2>1, <1>2, <1>9 DEF SegmentsOK
<1>11. QuietOK(flow)'
  <2> SUFFICES ASSUME Edits(flow) = << >>
               PROVE  \A m \in Segments(flow) :
                        m \notin DOMAIN packet_new_seq' /\ m \notin deleted_indices
    BY <1>2, <1>9 DEF QuietOK
  <2>1. NewPayload(k) = input.packets[k].data
    BY <1>1, QuietPayload
  <2> QED BY <2>1, <1>4, <1>7 DEF QuietOK
<1>12. FlowsInv'
  BY <1>8, <1>10, <1>11, FlowsGoOn DEF OrdinaryInv
<1>13. FreshInv'
  <2>1. ASSUME NEW d \in Directions, d \in Range(preserve_flows), NEW m \in Segments(d)
        PROVE  m \notin DOMAIN packet_new_seq'
    <3>1. d # flow
      BY <2>1, <1>2 DEF BaseInv, FlowOK, Waits
    <3>2. m # k /\ m \notin DOMAIN packet_new_seq
      BY <2>1, <3>1, <1>1, <1>4 DEF Segments, FreshInv
    <3> QED BY <3>2, <1>7
  <2>2. Indices' = Indices /\ \A d : Segments(d)' = Segments(d)
    BY <1>2, InputFrame
  <2> QED BY <2>1, <2>2, <1>2, <1>4 DEF FreshInv
<1>14. AnchorInv' /\ InsertedInv'
  <2>1. \A i \in Indices' : insert_after'[i] = << >>
    BY <1>2, <1>4, InputFrame DEF FreshInv
  <2>2. InsertedInv'
    BY <1>2, InsertedFrame DEF OrdinaryInv
  <2> QED BY <2>1, <2>2 DEF AnchorInv
<1>15. KeptInv'
  <2>1. \A m \in todo' : m \notin DOMAIN packet_new_seq'
    BY <1>2, <1>4, <1>7 DEF KeptInv
  <2>2. ASSUME NEW m \in Segments(flow) \ todo'
        PROVE  /\ packets'[m].data = NewPayload(m)
               /\ m \in DOMAIN packet_new_seq' =>
                    packet_new_seq'[m] = SeqAdd(Base(flow), NewStart(m))
    <3>1. CASE m = k
      BY <3>1, <1>7
    <3>2. CASE m # k
      <4>1. m \in Segments(flow) \ todo /\ m \in Indices
        BY <3>2, <1>2 DEF Segments
      <4> QED BY <3>2, <4>1, <1>2, <1>4, <1>7 DEF KeptInv
    <3> QED BY <3>1, <3>2
  <2>3. ASSUME NEW l \in Segments(flow) \ todo', NEW m \in todo'
        PROVE  InStreamOrder(l, m)
    <3>1. CASE l = k
      BY <3>1, <1>2
    <3>2. CASE l # k
      <4>1. l \in Segments(flow) \ todo /\ m \in todo
        BY <3>2, <1>2
      <4> QED BY <4>1, <1>2, <1>4 DEF KeptInv
    <3> QED BY <3>1, <3>2
  <2>4. /\ \A m : NewPayload(m)' = NewPayload(m) /\ NewStart(m)' = NewStart(m)
        /\ \A l, m : InStreamOrder(l, m)' = InStreamOrder(l, m)
    BY <1>2, InputFrame
  <2> QED BY <2>1, <2>2, <2>3, <2>4, <1>9 DEF KeptInv
<1>16. WorkInv' /\ OutputInv'
  BY <1>2, <1>15 DEF WorkInv, FillInv, RemapInv, ExtraInv, OutputInv
<1> QED BY <1>12, <1>13, <1>14, <1>16 DEF OrdinaryInv

LEMMA OrdinaryDegradeFlow ==
  ASSUME BaseInv, BaseInv', IsOrdinary, OrdinaryInv, DegradeFlow
  PROVE  OrdinaryInv'
<1> USE DEF DegradeFlow
<1>1. PICK k \in todo : (\A m \in todo \ {k} : InStreamOrder(k, m)) /\ Outgrown(k)
  BY DEF IsNextInStream
<1>2. /\ IsInput(input) /\ flow \in Directions /\ k \in Segments(flow) /\ phase = "preserve"
  BY TodoFacts
<1>3. PICK q \in Seq(Directions) : q = merged_flows
  BY DEF BaseInv, QueuesOK
<1>4. Range(Append(q, flow)) = Range(q) \cup {flow}
  BY <1>2, <1>3, QueueAppend
<1>5. /\ Range(merged_flows') = Range(merged_flows) \cup {flow} /\ phase' = "next"
      /\ UNCHANGED <<input, flow, packets, preserve_flows, packet_new_seq, deleted_indices,
                     insert_after>>
  BY <1>3, <1>4 DEF plan
<1> HIDE DEF DegradeFlow
<1>6. /\ SegmentsOK(flow) /\ KeptInv /\ FreshInv
  BY <1>2 DEF OrdinaryInv, FlowsInv, WorkInv
<1>7. ASSUME NEW m \in Segments(flow) PROVE packets[m].data # << >>
  <2>1. m \in Indices /\ input.packets[m].data # << >>
    BY DEF Segments
  <2>2. CASE m \in todo
    BY <2>1, <2>2, <1>2, <1>6 DEF KeptInv, SegmentsOK, Planning
  <2>3. CASE m \notin todo
    <3>1. packets[m].data = NewPayload(m) /\ InStreamOrder(m, k)
      BY <2>3, <1>2, <1>6 DEF KeptInv
    <3>2. input.handling[flow] = "preserve"
      BY <1>2 DEF BaseInv, FlowOK
    <3>3. NewPayload(m) # << >>
      BY <1>1, <1>2, <3>1, <3>2 DEF IsOrdinary, CanKeepPackets
    <3> QED BY <3>1, <3>3
  <2> QED BY <2>2, <2>3
<1>8. ASSUME NEW d \in Directions
      PROVE  SegmentsOK(d)' /\ QuietOK(d)' /\ MergeOK(d)' /\ SettledOK(d)'
  <2>1. SegmentsOK(d) /\ QuietOK(d) /\ MergeOK(d) /\ SettledOK(d)
    BY DEF OrdinaryInv, FlowsInv
  <2>2. Settled(d)' => Settled(d)
    BY <1>2, <1>5 DEF Settled, Planning, Waits, AtWork
  <2>3. Planning
    BY <1>2 DEF Planning
  <2>4. SegmentsOK(d)' /\ QuietOK(d)' /\ SettledOK(d)'
    BY <1>5, <2>1, <2>2, <2>3, SegmentsFrame, QuietFrame, SettledFrame
  <2>5. MergeOK(d)'
    <3>1. CASE d = flow
      <4>1. Segments(d)' = Segments(flow)
        BY <3>1, <1>5, InputFrame
      <4>2. \A m \in Segments(flow) : m \in Indices
        BY DEF Segments
      <4> QED BY <3>1, <4>1, <4>2, <1>2, <1>5, <1>6, <1>7 DEF MergeOK, FreshInv
    <3>2. CASE d # flow
      <4>1. d \in Range(merged_flows') => d \in Range(merged_flows)
        BY <3>2, <1>5
      <4> QED BY <2>1, <4>1, <1>5, MergeFrame
    <3> QED BY <3>1, <3>2
  <2> QED BY <2>4, <2>5
<1>9. FreshInv' /\ AnchorInv' /\ InsertedInv'
  BY <1>2, <1>5, FreshFrame, AnchorFrame, InsertedFrame DEF OrdinaryInv
<1>10. WorkInv' /\ OutputInv'
  BY <1>5 DEF WorkInv, KeptInv, FillInv, RemapInv, ExtraInv, OutputInv
<1> QED BY <1>8, <1>9, <1>10 DEF OrdinaryInv, FlowsInv

LEMMA OrdinaryEndPreserve ==
  ASSUME BaseInv, BaseInv', IsOrdinary, OrdinaryInv, EndPreserve
  PROVE  OrdinaryInv'
<1>1. /\ phase = "preserve" /\ phase' = "next" /\ todo = {}
      /\ UNCHANGED <<input, flow, packets, preserve_flows, merged_flows, packet_new_seq,
                     deleted_indices, insert_after>>
  BY DEF EndPreserve, plan
<1>2. IsInput(input) /\ flow \in Directions /\ input.handling[flow] = "preserve"
  BY <1>1 DEF BaseInv, FlowOK
<1>3. /\ SegmentsOK(flow) /\ KeptInv /\ FreshInv
  BY <1>2 DEF OrdinaryInv, FlowsInv, WorkInv
<1>4. ASSUME NEW k \in Segments(flow)
      PROVE  /\ k \notin deleted_indices /\ packets[k].data = NewPayload(k)
             /\ PlannedSeq(flow, k) = SeqAdd(Base(flow), NewStart(k))
             /\ k \in DOMAIN packet_new_seq \/ NewPayload(k) = input.packets[k].data
  <2>1. /\ packets[k].data = NewPayload(k)
        /\ k \in DOMAIN packet_new_seq => packet_new_seq[k] = SeqAdd(Base(flow), NewStart(k))
    BY <1>1, <1>3 DEF KeptInv
  <2>2. k \notin DOMAIN packet_new_seq => packets[k].data = input.packets[k].data
    BY <1>1, <1>3 DEF SegmentsOK, Planning
  <2> QED BY <1>1, <1>3, <2>1, <2>2 DEF PlannedSeq, FreshInv
<1>5. ASSUME NEW pos \in Nat, pos < Len(NewBytes(flow)) PROVE HeldBySegment(flow, pos)
  <2>1. IsCaptured(flow) /\ MapOffset(0, Edits(flow)) = 0
    BY <1>2 DEF IsOrdinary, CanKeepPackets
  <2>2. PICK k \in Segments(flow) : NewStart(k) <= pos /\ pos < NewEnd(k)
    BY <1>2, <1>5, <2>1, SegmentsCover
  <2>3. Hits(Base(flow), SeqAdd(Base(flow), NewStart(k)), NewPayload(k), pos)
    BY <1>2, <2>2, NewPayloadHits
  <2> QED BY <2>3, <1>4 DEF HeldBySegment
<1>6. Rewritten(flow)
  BY <1>4, <1>5 DEF Rewritten
<1>7. ASSUME NEW d \in Directions
      PROVE  SegmentsOK(d)' /\ QuietOK(d)' /\ MergeOK(d)' /\ SettledOK(d)'
  <2>1. SegmentsOK(d) /\ QuietOK(d) /\ MergeOK(d) /\ SettledOK(d)
    BY DEF OrdinaryInv, FlowsInv
  <2>2. Planning
    BY <1>1 DEF Planning
  <2>3. SegmentsOK(d)' /\ QuietOK(d)' /\ MergeOK(d)'
    BY <1>1, <2>1, <2>2, SegmentsFrame, QuietFrame, MergeFrame
  <2>4. SettledOK(d)'
    <3>1. CASE d = flow
      <4>1. Rewritten(d)'
        BY <3>1, <1>1, <1>6, RewrittenFrame
      <4> QED BY <4>1 DEF SettledOK
    <3>2. CASE d # flow
      <4>1. Settled(d)' => Settled(d)
        BY <3>2, <1>1 DEF Settled, Planning, Waits, AtWork
      <4> QED BY <4>1, <1>1, <2>1, SettledFrame
    <3> QED BY <3>1, <3>2
  <2> QED BY <2>3, <2>4
<1>8. FreshInv' /\ AnchorInv' /\ InsertedInv'
  BY <1>1, FreshFrame, AnchorFrame, InsertedFrame DEF OrdinaryInv
<1>9. WorkInv' /\ OutputInv'
  BY <1>1 DEF WorkInv, KeptInv, FillInv, RemapInv, ExtraInv, OutputInv
<1> QED BY <1>7, <1>8, <1>9 DEF OrdinaryInv, FlowsInv

-----------------------------------------------------------------------------
(***************************************************************************)
(* Ordinary flows: flows that are cut anew.                                *)
(***************************************************************************)
LEMMA OrdinaryBeginMerge ==
  ASSUME BaseInv, BaseInv', IsOrdinary, OrdinaryInv, BeginMerge
  PROVE  OrdinaryInv'
<1> USE DEF BeginMerge
<1>1. PICK q \in Seq(Directions) : q = merged_flows /\ q # << >> /\ IsInjective(q)
  BY DEF BaseInv, QueuesOK
<1>2. /\ Head(q) \in Directions /\ Head(q) \in Range(q)
      /\ Range(Tail(q)) = Range(q) \ {Head(q)}
  BY <1>1, QueueHead
<1>3. PICK head \in Directions : head = Head(q)
  BY <1>2
<1>4. /\ flow' = head /\ Range(merged_flows') = Range(merged_flows) \ {head}
      /\ head \in Range(merged_flows) /\ phase = "next"
      /\ preserve_flows = << >> /\ preserve_flows' = << >>
      /\ cursor' = 0 /\ extra_packets' = << >>
      /\ UNCHANGED <<input, packets, packet_new_seq, deleted_indices, insert_after>>
  BY <1>1, <1>2, <1>3 DEF plan
<1>5. \/ Edits(head) = << >> /\ phase' = "next"
      \/ Edits(head) # << >> /\ phase' = "fill" /\ todo' = Primaries(head)
  BY <1>1, <1>3, <1>4
<1> HIDE DEF BeginMerge
<1>6. Range(<< >>) = {}
  BY DEF Range
<1>7. ASSUME NEW d \in Directions
      PROVE  SegmentsOK(d)' /\ QuietOK(d)' /\ MergeOK(d)' /\ SettledOK(d)'
  <2>1. SegmentsOK(d) /\ QuietOK(d) /\ MergeOK(d) /\ SettledOK(d)
    BY DEF OrdinaryInv, FlowsInv
  <2>2. Settled(d)' => Settled(d) \/ Edits(d) = << >>
    <3> SUFFICES ASSUME Settled(d)', Edits(d) # << >> PROVE Settled(d)
      OBVIOUS
    <3>1. d # head
      BY <1>4, <1>5 DEF Settled, AtWork
    <3> QED BY <3>1, <1>4, <1>6 DEF Settled, Planning, Waits, AtWork
  <2>3. Planning
    BY <1>4 DEF Planning
  <2> QED BY <1>4, <2>1, <2>2, <2>3, SegmentsFrame, QuietFrame, MergeFrame, SettledFrame
<1>8. FreshInv' /\ AnchorInv' /\ InsertedInv'
  <2>1. FreshInv'
    BY <1>4, <1>5, <1>6 DEF FreshInv
  <2> QED BY <1>4, <2>1, AnchorFrame, InsertedFrame DEF OrdinaryInv
<1>9. FillInv' /\ ExtraInv'
  <2> SUFFICES ASSUME phase' = "fill" PROVE FillInv' /\ ExtraInv'
    BY DEF FillInv, ExtraInv
  <2>1. todo' = Primaries(head)
    BY <1>5
  <2>2. /\ Primaries(flow)' = Primaries(head) /\ Segments(flow)' = Segments(head)
        /\ Len(NewBytes(flow)') \in Nat
    <3>1. \A k : IsPrimary(k)' = IsPrimary(k)
      BY <1>4, PrimaryFrame
    <3>2. IsInput(input)' /\ flow' \in Directions
      BY <1>3, <1>4 DEF BaseInv
    <3>3. NewBytes(flow)' = NewBytes(head)
      BY <1>4 DEF NewBytes, Edits
    <3>4. Len(NewBytes(head)) \in Nat
      BY NewBytesType DEF BaseInv
    <3> QED BY <3>1, <3>3, <3>4, <1>4 DEF Primaries, Segments, Indices
  <2>3. MergeOK(head)
    BY DEF OrdinaryInv, FlowsInv
  <2>4. Primaries(head) \subseteq Segments(head)
    BY DEF Primaries
  <2>5. FillInv'
    BY <1>4, <2>1, <2>2, <2>3, <2>4 DEF FillInv, MergeOK
  <2>6. ExtraInv'
    BY <1>4 DEF ExtraInv
  <2> QED BY <2>5, <2>6
<1>10. WorkInv' /\ OutputInv'
  BY <1>5, <1>9 DEF WorkInv, KeptInv, RemapInv, OutputInv
<1> QED BY <1>7, <1>8, <1>10 DEF OrdinaryInv, FlowsInv

\* What is common to the steps that rewrite one segment of the flow at work.
Rewrites(k, seq) ==
  /\ \A i \in Indices : i # k => packets'[i] = packets[i]
  /\ DOMAIN packet_new_seq' = DOMAIN packet_new_seq \cup {k}
  /\ packet_new_seq'[k] = seq
  /\ \A i \in DOMAIN packet_new_seq : i # k => packet_new_seq'[i] = packet_new_seq[i]

LEMMA SegmentRewritten ==
  ASSUME PacketsOK, NEW k \in Indices, NEW seq, NEW new,
         packets' = [packets EXCEPT ![k] = new],
         packet_new_seq' = With(packet_new_seq, k, seq)
  PROVE  Rewrites(k, seq) /\ packets'[k] = new
BY DEF PacketsOK, Rewrites, With

LEMMA RewrittenSegments ==
  ASSUME input' = input, flow' = flow, Planning, flow \in Directions, SegmentsOK(flow),
         NEW k, NEW seq, Rewrites(k, seq), Carries(Base(flow), NewBytes(flow), seq, packets'[k].data)
  PROVE  SegmentsOK(flow)'
<1>1. /\ Segments(flow)' = Segments(flow) /\ Base(flow)' = Base(flow)
      /\ NewBytes(flow)' = NewBytes(flow)
  BY FlowSets
<1>2. ASSUME NEW m \in Segments(flow)
      PROVE  IF m \in DOMAIN packet_new_seq'
             THEN Carries(Base(flow), NewBytes(flow), packet_new_seq'[m], packets'[m].data)
             ELSE /\ packets'[m].seq = input.packets[m].seq
                  /\ packets'[m].data = input.packets[m].data
  <2>1. m \in Indices
    BY DEF Segments
  <2>2. CASE m = k
    BY <2>2 DEF Rewrites
  <2>3. CASE m # k
    BY <2>1, <2>3 DEF Rewrites, SegmentsOK
  <2> QED BY <2>2, <2>3
<1> QED BY <1>1, <1>2 DEF SegmentsOK

LEMMA OrdinaryFillSegment ==
  ASSUME BaseInv, BaseInv', IsOrdinary, OrdinaryInv, NEW k \in todo, FillSegment(k)
  PROVE  OrdinaryInv'
<1> USE DEF FillSegment
<1>1. /\ IsInput(input) /\ flow \in Directions /\ k \in Segments(flow)
      /\ k \in Indices /\ input.packets[k].dir = flow /\ input.packets[k].data # << >>
      /\ packets[k] \in Packet /\ Base(flow) \in SeqNumbers
      /\ input.capacity[k] \in Nat \ {0} /\ cursor \in Nat
  BY TodoFacts
<1>2. PICK chunk \in Seq(Bytes) :
        /\ chunk = Chunk(input.capacity[k]) /\ chunk # << >>
        /\ Len(chunk) \in Nat /\ Len(chunk) # 0
        /\ cursor + Len(chunk) <= Len(NewBytes(flow))
        /\ \A n \in 1 .. Len(chunk) : chunk[n] = NewBytes(flow)[cursor + n]
        /\ ~(cursor >= Len(NewBytes(flow)))
  BY <1>1, ChunkFacts
<1>3. PICK seq \in SeqNumbers : seq = SeqAdd(Base(flow), cursor)
  BY <1>1, SeqAddType
<1>4. PICK old \in Packet : old = packets[k]
  BY <1>1
<1>5. PICK new : new = WithPayload(old, seq, chunk)
  OBVIOUS
<1>6. new.data = chunk
  BY <1>4, <1>5, WithPayloadType
<1>7. /\ phase = "fill" /\ phase' = "fill" /\ todo' = todo \ {k}
      /\ packets' = [packets EXCEPT ![k] = new]
      /\ packet_new_seq' = With(packet_new_seq, k, seq)
      /\ cursor' = cursor + Len(chunk)
      /\ UNCHANGED <<input, flow, preserve_flows, merged_flows, extra_packets,
                     deleted_indices, insert_after>>
  BY <1>2, <1>3, <1>4, <1>5
<1> HIDE DEF FillSegment
<1>8. Rewrites(k, seq) /\ packets'[k].data = chunk
  BY <1>1, <1>6, <1>7, SegmentRewritten DEF BaseInv
<1>9. FillInv /\ ExtraInv /\ AnchorInv /\ InsertedInv /\ FlowsInv /\ SegmentsOK(flow)
  BY <1>1 DEF OrdinaryInv, WorkInv, FlowsInv
<1>10. preserve_flows = << >> /\ Edits(flow) # << >> /\ todo \subseteq Primaries(flow)
  BY <1>7 DEF BaseInv, FlowOK, TodoOK
<1>11. /\ Segments(flow)' = Segments(flow) /\ Base(flow)' = Base(flow)
       /\ NewBytes(flow)' = NewBytes(flow) /\ Edits(flow)' = Edits(flow)
       /\ Primaries(flow)' = Primaries(flow) /\ Indices' = Indices
  BY <1>7, FlowSets
<1>12. Carries(Base(flow), NewBytes(flow), seq, chunk)
  BY <1>1, <1>2, <1>3 DEF Carries
<1>13. Works
  <2>1. OthersUntouched
    BY <1>1, <1>7, <1>8 DEF OthersUntouched, Rewrites
  <2>2. DeletionsGrow
    BY <1>7 DEF DeletionsGrow
  <2>3. InsertsStay
    <3>1. \A i \in Indices : Len(insert_after[i]) \in Nat
      BY LenProperties DEF BaseInv, InsertsOK
    <3> QED BY <3>1, <1>7 DEF InsertsStay
  <2> QED BY <1>7, <2>1, <2>2, <2>3 DEF Works
<1>14. FlowsInv'
  <2>1. SegmentsOK(flow)'
    BY <1>1, <1>7, <1>8, <1>9, <1>12, RewrittenSegments DEF Planning
  <2>2. QuietOK(flow)'
    BY <1>10, <1>11 DEF QuietOK
  <2> QED BY <1>9, <1>13, <2>1, <2>2, FlowsGoOn
<1>15. FreshInv'
  BY <1>7, <1>10 DEF FreshInv, Range
<1>16. AnchorInv' /\ InsertedInv'
  <2>1. AnchorInv'
    BY <1>2, <1>7, <1>8, <1>9, <1>11 DEF AnchorInv, Rewrites
  <2> QED BY <2>1, <1>7, <1>9, InsertedFrame
<1>17. ExtraInv'
  BY <1>7, <1>9, <1>11 DEF ExtraInv
<1>18. FillInv'
  <2>1. \A m \in Primaries(flow) \ todo : m \notin deleted_indices
    BY <1>2, <1>7, <1>9 DEF FillInv
  <2>2. ASSUME NEW m \in Primaries(flow) \ todo'
        PROVE  m \notin deleted_indices /\ m \in DOMAIN packet_new_seq' /\ packets'[m].data # << >>
    <3>1. CASE m = k
      BY <3>1, <1>2, <1>7, <1>8, <1>9 DEF Rewrites, FillInv
    <3>2. CASE m # k
      <4>1. m \in Primaries(flow) \ todo /\ m \in Indices
        BY <3>2, <1>7 DEF Primaries, Segments
      <4> QED BY <3>2, <4>1, <2>1, <1>7, <1>8, <1>9 DEF Rewrites, FillInv
    <3> QED BY <3>1, <3>2
  <2>3. ASSUME NEW pos \in Nat, pos < cursor'
        PROVE  HeldByPrimary(pos)' \/ HeldByExtra(pos)'
    <3>1. CASE pos < cursor /\ HeldByPrimary(pos)
      <4>1. PICK m \in Primaries(flow) \ (todo \cup deleted_indices) :
              m \in DOMAIN packet_new_seq /\ Hits(Base(flow), packet_new_seq[m], packets[m].data, pos)
        BY <3>1 DEF HeldByPrimary
      <4>2. m # k /\ m \in Indices
        BY <4>1 DEF Primaries, Segments
      <4>3. /\ m \in Primaries(flow) \ (todo' \cup deleted_indices') /\ m \in DOMAIN packet_new_seq'
            /\ packet_new_seq'[m] = packet_new_seq[m] /\ packets'[m] = packets[m]
        BY <4>1, <4>2, <1>7, <1>8 DEF Rewrites
      <4> QED BY <4>1, <4>3, <1>11 DEF HeldByPrimary
    <3>2. CASE pos < cursor /\ HeldByExtra(pos)
      BY <3>2, <1>7, <1>11 DEF HeldByExtra
    <3>3. CASE ~(pos < cursor)
      <4>1. cursor <= pos /\ pos < cursor + Len(chunk)
        BY <2>3, <3>3, <1>1, <1>7
      <4>2. Hits(Base(flow), seq, chunk, pos)
        BY <1>1, <1>3, <4>1 DEF Hits
      <4>3. k \in Primaries(flow) \ (todo' \cup deleted_indices')
        BY <1>7, <1>9, <1>10 DEF FillInv
      <4>4. k \in DOMAIN packet_new_seq' /\ packet_new_seq'[k] = seq
        BY <1>8 DEF Rewrites
      <4> QED BY <4>2, <4>3, <4>4, <1>8, <1>11 DEF HeldByPrimary
    <3> QED BY <3>1, <3>2, <3>3, <1>7, <1>9 DEF FillInv
  <2>4. /\ cursor' <= Len(NewBytes(flow))
        /\ \A m \in Segments(flow) : insert_after'[m] = << >>
        /\ \A m \in todo' : m \notin deleted_indices'
        /\ extra_packets' = << >>
    BY <1>2, <1>7, <1>9 DEF FillInv
  <2> QED BY <2>2, <2>3, <2>4, <1>7, <1>11 DEF FillInv
<1>19. WorkInv' /\ OutputInv'
  BY <1>7, <1>17, <1>18 DEF WorkInv, KeptInv, RemapInv, OutputInv
<1> QED BY <1>14, <1>15, <1>16, <1>19 DEF OrdinaryInv

\* A segment of the flow at work is deleted: behind it nothing is inserted.
LEMMA DeletionWorks ==
  ASSUME BaseInv, BaseInv', OrdinaryInv, NEW k \in Indices, input.packets[k].dir = flow,
         phase \in {"fill", "remap"}, insert_after[k] = << >>,
         deleted_indices' = deleted_indices \cup {k},
         UNCHANGED <<input, flow, packets, phase, preserve_flows, merged_flows, packet_new_seq,
                     insert_after>>
  PROVE  FlowsInv' /\ FreshInv' /\ AnchorInv' /\ InsertedInv'
<1>1. preserve_flows = << >> /\ Edits(flow) # << >> /\ flow \in Directions
  BY DEF BaseInv, FlowOK
<1>2. /\ FlowsInv /\ SegmentsOK(flow) /\ AnchorInv /\ InsertedInv
  BY <1>1 DEF OrdinaryInv, FlowsInv
<1>3. Works
  <2>1. OthersUntouched
    BY DEF OthersUntouched
  <2>2. DeletionsGrow
    BY DEF DeletionsGrow
  <2>3. InsertsStay
    <3>1. \A i \in Indices : Len(insert_after[i]) \in Nat
      BY LenProperties DEF BaseInv, InsertsOK
    <3> QED BY <3>1 DEF InsertsStay
  <2> QED BY <2>1, <2>2, <2>3 DEF Works
<1>4. FlowsInv'
  <2>1. SegmentsOK(flow)'
    <3>1. /\ Segments(flow)' = Segments(flow) /\ Base(flow)' = Base(flow)
          /\ NewBytes(flow)' = NewBytes(flow)
      BY FlowSets
    <3> QED BY <3>1, <1>2 DEF SegmentsOK, Planning
  <2>2. QuietOK(flow)'
    BY <1>1, FlowSets DEF QuietOK
  <2> QED BY <1>2, <1>3, <2>1, <2>2, FlowsGoOn
<1>5. FreshInv'
  BY <1>1 DEF FreshInv, Range
<1>6. AnchorInv'
  BY <1>2, InputFrame DEF AnchorInv
<1> QED BY <1>2, <1>4, <1>5, <1>6, InsertedFrame

LEMMA OrdinaryDeleteSegment ==
  ASSUME BaseInv, BaseInv', IsOrdinary, OrdinaryInv, NEW k \in todo, DeleteSegment(k)
  PROVE  OrdinaryInv'
<1> USE DEF DeleteSegment
<1>1. /\ IsInput(input) /\ flow \in Directions /\ k \in Segments(flow)
      /\ k \in Indices /\ input.packets[k].dir = flow
      /\ input.capacity[k] \in Nat \ {0} /\ cursor \in Nat
  BY TodoFacts
<1>2. /\ phase = "fill" /\ phase' = "fill" /\ todo' = todo \ {k}
      /\ deleted_indices' = deleted_indices \cup {k}
      /\ UNCHANGED <<input, flow, phase, packets, preserve_flows, merged_flows, extra_packets, cursor,
                     packet_new_seq, insert_after>>
  OBVIOUS
<1>3. cursor >= Len(NewBytes(flow))
  BY <1>1, ChunkFacts
<1> HIDE DEF DeleteSegment
<1>4. FillInv /\ ExtraInv
  BY DEF OrdinaryInv, WorkInv
<1>5. /\ Segments(flow)' = Segments(flow) /\ Base(flow)' = Base(flow)
      /\ NewBytes(flow)' = NewBytes(flow) /\ Primaries(flow)' = Primaries(flow)
  BY <1>2, FlowSets
<1>6. insert_after[k] = << >> /\ extra_packets = << >>
  BY <1>1, <1>2, <1>4 DEF FillInv
<1>7. FlowsInv' /\ FreshInv' /\ AnchorInv' /\ InsertedInv'
  BY <1>1, <1>2, <1>6, DeletionWorks
<1>8. ExtraInv'
  BY <1>2, <1>4, <1>5 DEF ExtraInv
<1>9. FillInv'
  <2>1. ASSUME NEW pos, HeldByPrimary(pos) PROVE HeldByPrimary(pos)'
    <3>1. PICK m \in Primaries(flow) \ (todo \cup deleted_indices) :
            m \in DOMAIN packet_new_seq /\ Hits(Base(flow), packet_new_seq[m], packets[m].data, pos)
      BY <2>1 DEF HeldByPrimary
    <3>2. m \in Primaries(flow) \ (todo' \cup deleted_indices')
      BY <3>1, <1>2
    <3> QED BY <3>1, <3>2, <1>2, <1>5 DEF HeldByPrimary
  <2>2. ASSUME NEW pos, HeldByExtra(pos) PROVE HeldByExtra(pos)'
    BY <2>2, <1>2, <1>5 DEF HeldByExtra
  <2>3. ASSUME NEW m \in Primaries(flow) \ todo'
        PROVE  IF m \in deleted_indices'
               THEN cursor >= Len(NewBytes(flow)) /\ extra_packets = << >>
               ELSE m \in DOMAIN packet_new_seq /\ packets[m].data # << >>
    BY <1>2, <1>3, <1>4, <1>6 DEF FillInv
  <2>4. ASSUME NEW pos \in Nat, pos < cursor'
        PROVE  HeldByPrimary(pos)' \/ HeldByExtra(pos)'
    BY <2>1, <2>2, <2>4, <1>2, <1>4 DEF FillInv
  <2>5. /\ cursor' <= Len(NewBytes(flow))
        /\ \A m \in Segments(flow) : insert_after'[m] = << >>
        /\ \A m \in todo' : m \notin deleted_indices'
    BY <1>2, <1>4 DEF FillInv
  <2> QED BY <2>3, <2>4, <2>5, <1>2, <1>5, <1>6 DEF FillInv
<1>10. WorkInv' /\ OutputInv'
  BY <1>2, <1>8, <1>9 DEF WorkInv, KeptInv, RemapInv, OutputInv
<1> QED BY <1>7, <1>10 DEF OrdinaryInv

\* The elements of a concatenation.
Joins(e, s, t) ==
  /\ Len(e) = Len(s) + Len(t)
  /\ \A n \in 1 .. Len(s) : n \in 1 .. Len(e) /\ e[n] = s[n]
  /\ \A n \in 1 .. Len(t) : Len(s) + n \in 1 .. Len(e) /\ e[Len(s) + n] = t[n]
  /\ \A n \in 1 .. Len(e) : n \in 1 .. Len(s) \/ \E m \in 1 .. Len(t) : n = Len(s) + m

LEMMA ConcatenationFacts ==
  ASSUME NEW S, NEW s \in Seq(S), NEW t \in Seq(S)
  PROVE  \E e \in Seq(S) : e = s \o t /\ Joins(e, s, t)
<1>1. PICK e \in Seq(S) :
        /\ e = s \o t /\ Len(e) = Len(s) + Len(t)
        /\ \A n \in 1 .. Len(s) + Len(t) : e[n] = IF n <= Len(s) THEN s[n] ELSE t[n - Len(s)]
  <2>1. s \o t \in Seq(S)
    BY ConcatProperties
  <2> QED BY <2>1, ConcatProperties
<1>2. PICK a \in Nat, b \in Nat : a = Len(s) /\ b = Len(t)
  BY LenProperties
<1>3. \A n \in 1 .. a : n \in 1 .. a + b /\ n <= a
  BY <1>2
<1>4. \A n \in 1 .. b : a + n \in 1 .. a + b /\ ~(a + n <= a) /\ a + n - a = n
  BY <1>2
<1>5. \A n \in 1 .. a + b : n \in 1 .. a \/ \E m \in 1 .. b : n = a + m
  <2>1. \A n \in 1 .. a + b : n \in 1 .. a \/ (n - a \in 1 .. b /\ n = a + (n - a))
    BY <1>2
  <2> QED BY <2>1
<1>6. \A n \in 1 .. a : e[n] = s[n]
  BY <1>1, <1>2, <1>3
<1>7. \A n \in 1 .. b : e[a + n] = t[n]
  BY <1>1, <1>2, <1>4
<1>8. Len(e) = a + b
  BY <1>1, <1>2
<1>9. \A n \in 1 .. a : n \in 1 .. Len(e) /\ e[n] = s[n]
  BY <1>3, <1>6, <1>8
<1>10. \A n \in 1 .. b : a + n \in 1 .. Len(e) /\ e[a + n] = t[n]
  BY <1>4, <1>7, <1>8
<1>11. \A n \in 1 .. Len(e) : n \in 1 .. a \/ \E m \in 1 .. b : n = a + m
  BY <1>5, <1>8
<1>12. Joins(e, s, t)
  BY <1>2, <1>8, <1>9, <1>10, <1>11 DEF Joins
<1> QED BY <1>1, <1>12

LEMMA OrdinaryClonePiece ==
  ASSUME BaseInv, BaseInv', IsOrdinary, OrdinaryInv, ClonePiece
  PROVE  OrdinaryInv'
<1>1. /\ phase = "fill" /\ phase' = "fill" /\ todo = {} /\ todo' = {}
      /\ cursor < Len(NewBytes(flow))
      /\ UNCHANGED <<input, flow, packets, phase, preserve_flows, merged_flows, packet_new_seq,
                     deleted_indices, insert_after>>
  BY DEF ClonePiece, plan
<1>2. /\ IsInput(input) /\ flow \in Directions /\ Base(flow) \in SeqNumbers /\ cursor \in Nat
      /\ input.capacity[LastPrimary] \in Nat \ {0}
  BY <1>1, FlowAtWork
<1>3. PICK acks \in Seq(Packet), piece \in Packet :
        /\ extra_packets' = extra_packets \o acks \o <<piece>>
        /\ \A n \in DOMAIN acks : acks[n].data = << >> /\ acks[n].dir # flow
        /\ piece.dir = flow /\ piece.seq = SeqAdd(Base(flow), cursor)
        /\ piece.data = Chunk(input.capacity[LastPrimary])
        /\ cursor' = cursor + Len(piece.data)
  BY ClonedPieceFacts
<1>4. PICK chunk \in Seq(Bytes) :
        /\ chunk = piece.data /\ chunk # << >>
        /\ Len(chunk) \in Nat /\ Len(chunk) # 0
        /\ cursor + Len(chunk) <= Len(NewBytes(flow))
        /\ \A n \in 1 .. Len(chunk) : chunk[n] = NewBytes(flow)[cursor + n]
  <2>1. Len(NewBytes(flow)) \in Nat
    BY <1>2, NewBytesType
  <2>2. ~(cursor >= Len(NewBytes(flow)))
    BY <1>1, <1>2, <2>1
  <2> QED BY <1>2, <1>3, <2>2, ChunkFacts
<1>5. Carries(Base(flow), NewBytes(flow), piece.seq, piece.data)
  BY <1>2, <1>3, <1>4 DEF Carries
<1>6. PICK extra \in Seq(Packet) : extra = extra_packets
  BY DEF BaseInv, InsertsOK
<1>7. PICK more \in Seq(Packet) : more = extra \o acks /\ Joins(more, extra, acks)
  BY ConcatenationFacts
<1>8. PICK last \in Seq(Packet) : last = <<piece>> /\ Len(last) = 1 /\ last[1] = piece
  <2>1. <<piece>> \in Seq(Packet)
    OBVIOUS
  <2> QED BY <2>1
<1>9. PICK all \in Seq(Packet) : all = more \o last /\ Joins(all, more, last)
  BY ConcatenationFacts
<1>10. extra_packets' = all
  BY <1>3, <1>6, <1>7, <1>8, <1>9
<1>11. \A n \in 1 .. Len(extra) : n \in 1 .. Len(all) /\ all[n] = extra[n]
  BY <1>7, <1>9 DEF Joins
<1>12. \E n \in 1 .. Len(all) : all[n] = piece
  <2>1. 1 \in 1 .. Len(last)
    BY <1>8
  <2> QED BY <2>1, <1>8, <1>9 DEF Joins
<1>13. ASSUME NEW n \in 1 .. Len(all), all[n].data # << >>
       PROVE  all[n] = piece \/ (n \in 1 .. Len(extra) /\ all[n] = extra[n])
  <2>1. CASE n \in 1 .. Len(more)
    <3>1. all[n] = more[n]
      BY <2>1, <1>9 DEF Joins
    <3>2. CASE n \in 1 .. Len(extra)
      BY <3>1, <3>2, <1>7 DEF Joins
    <3>3. ASSUME NEW m \in 1 .. Len(acks), n = Len(extra) + m PROVE FALSE
      <4>1. all[n] = acks[m]
        BY <3>1, <3>3, <1>7 DEF Joins
      <4>2. m \in DOMAIN acks
        BY LenProperties
      <4> QED BY <4>1, <4>2, <1>3, <1>13
    <3> QED BY <2>1, <3>2, <3>3, <1>7 DEF Joins
  <2>2. ASSUME NEW m \in 1 .. Len(last), n = Len(more) + m PROVE all[n] = piece
    <3>1. m = 1
      BY <1>8
    <3> QED BY <2>2, <3>1, <1>8, <1>9 DEF Joins
  <2> QED BY <2>1, <2>2, <1>9 DEF Joins
<1>14. FillInv /\ ExtraInv /\ FlowsInv
  BY DEF OrdinaryInv, WorkInv
<1>15. /\ Segments(flow)' = Segments(flow) /\ Base(flow)' = Base(flow)
       /\ NewBytes(flow)' = NewBytes(flow) /\ Primaries(flow)' = Primaries(flow)
  BY <1>1, FlowSets
<1>16. FlowsInv'
  <2> SUFFICES ASSUME NEW d \in Directions
               PROVE  SegmentsOK(d)' /\ QuietOK(d)' /\ MergeOK(d)' /\ SettledOK(d)'
    BY DEF FlowsInv
  <2>1. SegmentsOK(d) /\ QuietOK(d) /\ MergeOK(d) /\ SettledOK(d)
    BY <1>14 DEF FlowsInv
  <2>2. Settled(d)' => Settled(d)
    BY <1>1 DEF Settled, Planning, Waits, AtWork
  <2>3. Planning
    BY <1>1 DEF Planning
  <2> QED BY <1>1, <2>1, <2>2, <2>3, SegmentsFrame, QuietFrame, MergeFrame, SettledFrame
<1>17. FreshInv' /\ AnchorInv' /\ InsertedInv'
  BY <1>1, FreshFrame, AnchorFrame, InsertedFrame DEF OrdinaryInv
<1>18. ExtraInv'
  <2> SUFFICES ASSUME NEW n \in 1 .. Len(all), all[n].data # << >>
               PROVE  /\ all[n].dir = flow
                      /\ Carries(Base(flow), NewBytes(flow), all[n].seq, all[n].data)
    BY <1>1, <1>10, <1>15 DEF ExtraInv
  <2>1. CASE all[n] = piece
    BY <2>1, <1>3, <1>5
  <2>2. CASE n \in 1 .. Len(extra) /\ all[n] = extra[n]
    BY <2>2, <1>1, <1>6, <1>14 DEF ExtraInv
  <2> QED BY <2>1, <2>2, <1>13
<1>19. FillInv'
  <2>1. ASSUME NEW pos, HeldByPrimary(pos) PROVE HeldByPrimary(pos)'
    BY <2>1, <1>1, <1>15 DEF HeldByPrimary
  <2>2. ASSUME NEW pos, HeldByExtra(pos) PROVE HeldByExtra(pos)'
    <3>1. PICK n \in 1 .. Len(extra) :
            extra[n].dir = flow /\ Hits(Base(flow), extra[n].seq, extra[n].data, pos)
      BY <2>2, <1>6 DEF HeldByExtra
    <3>2. n \in 1 .. Len(all) /\ all[n] = extra[n]
      BY <1>11
    <3> QED BY <3>1, <3>2, <1>1, <1>10, <1>15 DEF HeldByExtra
  <2>3. ASSUME NEW pos \in Nat, pos < cursor'
        PROVE  HeldByPrimary(pos)' \/ HeldByExtra(pos)'
    <3>1. CASE pos < cursor
      BY <3>1, <2>1, <2>2, <1>1, <1>14 DEF FillInv
    <3>2. CASE ~(pos < cursor)
      <4>1. cursor <= pos /\ pos < cursor + Len(piece.data)
        BY <2>3, <3>2, <1>2, <1>3, <1>4
      <4>2. Hits(Base(flow), piece.seq, piece.data, pos)
        BY <1>2, <1>3, <4>1 DEF Hits
      <4>3. PICK n \in 1 .. Len(all) : all[n] = piece
        BY <1>12
      <4> QED BY <4>2, <4>3, <1>1, <1>3, <1>10, <1>15 DEF HeldByExtra
    <3> QED BY <3>1, <3>2
  <2>4. \A k \in Primaries(flow) \ todo :
          k \notin deleted_indices /\ k \in DOMAIN packet_new_seq /\ packets[k].data # << >>
    <3>1. Len(NewBytes(flow)) \in Nat
      BY <1>2, NewBytesType
    <3>2. ~(cursor >= Len(NewBytes(flow)))
      BY <1>1, <1>2, <3>1
    <3> QED BY <3>2, <1>1, <1>14 DEF FillInv
  <2>5. cursor' <= Len(NewBytes(flow))
    BY <1>3, <1>4
  <2>6. \A k \in Segments(flow) : insert_after[k] = << >>
    BY <1>1, <1>14 DEF FillInv
  <2> QED BY <2>3, <2>4, <2>5, <2>6, <1>1, <1>15 DEF FillInv
<1>20. WorkInv' /\ OutputInv'
  BY <1>1, <1>18, <1>19 DEF WorkInv, KeptInv, RemapInv, OutputInv
<1> QED BY <1>16, <1>17, <1>20 DEF OrdinaryInv

(***************************************************************************)
(* CloseFlow moves the pieces to the inserted packets.                     *)
(***************************************************************************)
Closed ==
  /\ DOMAIN insert_after' = Indices
  /\ \A i \in Indices \ {LastPrimary} : insert_after'[i] = insert_after[i]
  /\ \A n \in 1 .. Len(extra_packets) :
       /\ n \in 1 .. Len(insert_after'[LastPrimary])
       /\ insert_after'[LastPrimary][n].dir = extra_packets[n].dir
       /\ insert_after'[LastPrimary][n].seq = extra_packets[n].seq
       /\ insert_after'[LastPrimary][n].data = extra_packets[n].data
  /\ \A n \in 1 .. Len(insert_after'[LastPrimary]) :
       n \in 1 .. Len(extra_packets) \/ insert_after'[LastPrimary][n].data = << >>

ClosedInserts ==
  \/ extra_packets = << >> /\ insert_after' = insert_after
  \/ extra_packets # << >> /\ Closed

LEMMA CloseInserts ==
  ASSUME BaseInv, OrdinaryInv, CloseFlow
  PROVE  ClosedInserts
<1>1. CASE extra_packets = << >>
  BY <1>1 DEF CloseFlow, ClosedInserts
<1>2. CASE extra_packets # << >>
  <2>1. PICK pieces \in Seq(Packet), trailing \in Seq(Packet) :
          /\ insert_after' = [insert_after EXCEPT ![LastPrimary] = (@ \o pieces) \o trailing]
          /\ \A n \in DOMAIN trailing : trailing[n].data = << >> /\ trailing[n].dir # flow
          /\ Len(pieces) = Len(extra_packets)
          /\ \A n \in 1 .. Len(extra_packets) :
               /\ pieces[n].dir = extra_packets[n].dir
               /\ pieces[n].seq = extra_packets[n].seq
               /\ pieces[n].data = extra_packets[n].data
    BY <1>2, ClosingInserts
  <2>2. phase = "fill"
    BY DEF CloseFlow
  <2>3. LastPrimary \in Indices /\ insert_after[LastPrimary] = << >>
    BY <2>2, FlowAtWork DEF OrdinaryInv, WorkInv, FillInv
  <2>4. PICK s \in Seq(Packet) : s = pieces \o trailing /\ Joins(s, pieces, trailing)
    BY ConcatenationFacts
  <2>5. (<< >> \o pieces) \o trailing = s
    BY <2>4, ConcatEmptySeq
  <2>6. insert_after' = [insert_after EXCEPT ![LastPrimary] = s]
    BY <2>1, <2>3, <2>5
  <2>7. DOMAIN insert_after = Indices
    BY DEF BaseInv, InsertsOK
  <2>8. /\ insert_after'[LastPrimary] = s /\ DOMAIN insert_after' = Indices
        /\ \A i \in Indices \ {LastPrimary} : insert_after'[i] = insert_after[i]
    BY <2>3, <2>6, <2>7
  <2>9. \A n \in 1 .. Len(extra_packets) : n \in 1 .. Len(s) /\ s[n] = pieces[n]
    BY <2>1, <2>4 DEF Joins
  <2>10. \A n \in 1 .. Len(s) : n \in 1 .. Len(extra_packets) \/ s[n].data = << >>
    <3> SUFFICES ASSUME NEW n \in 1 .. Len(s), n \notin 1 .. Len(extra_packets)
                 PROVE  s[n].data = << >>
      OBVIOUS
    <3>1. PICK m \in 1 .. Len(trailing) : n = Len(pieces) + m
      BY <2>1, <2>4 DEF Joins
    <3>2. s[n] = trailing[m] /\ m \in DOMAIN trailing
      BY <3>1, <2>4, LenProperties DEF Joins
    <3> QED BY <3>2, <2>1
  <2>11. \A n \in 1 .. Len(extra_packets) :
           /\ n \in 1 .. Len(s)
           /\ s[n].dir = extra_packets[n].dir
           /\ s[n].seq = extra_packets[n].seq
           /\ s[n].data = extra_packets[n].data
    BY <2>1, <2>9
  <2>12. Closed
    BY <2>8, <2>10, <2>11 DEF Closed
  <2> QED BY <1>2, <2>12 DEF ClosedInserts
<1> QED BY <1>1, <1>2

LEMMA OrdinaryCloseFlow ==
  ASSUME BaseInv, BaseInv', IsOrdinary, OrdinaryInv, CloseFlow
  PROVE  OrdinaryInv'
<1>1. /\ phase = "fill" /\ phase' = "remap" /\ todo = {} /\ todo' = Retransmissions(flow)
      /\ cursor >= Len(NewBytes(flow))
      /\ packets' = EndFlagsOnFilled
      /\ deleted_indices' = deleted_indices \cup AcksOfDeleted
      /\ UNCHANGED <<input, flow, preserve_flows, merged_flows, packet_new_seq>>
  BY DEF CloseFlow
<1>2. /\ IsInput(input) /\ flow \in Directions /\ cursor \in Nat
      /\ LastPrimary \in Primaries(flow) /\ LastPrimary \in Segments(flow)
      /\ LastPrimary \in Indices /\ input.packets[LastPrimary].dir = flow
      /\ packets[LastPrimary] \in Packet
  BY <1>1, FlowAtWork
<1>3. \A i \in Indices : packets'[i].seq = packets[i].seq /\ packets'[i].data = packets[i].data
  BY <1>1, <1>2, FilledKeep
<1>4. \A i \in AcksOfDeleted : packets[i].data = << >>
  BY AcksAreIndices DEF AcksOfDeleted
<1>5. ClosedInserts
  BY CloseInserts
<1>6. FillInv /\ ExtraInv /\ FlowsInv /\ AnchorInv /\ InsertedInv /\ SegmentsOK(flow)
  BY <1>2 DEF OrdinaryInv, WorkInv, FlowsInv
<1>7. /\ Segments(flow)' = Segments(flow) /\ Base(flow)' = Base(flow)
      /\ NewBytes(flow)' = NewBytes(flow) /\ Primaries(flow)' = Primaries(flow)
      /\ Edits(flow)' = Edits(flow) /\ Indices' = Indices
  BY <1>1, FlowSets
<1>8. preserve_flows = << >> /\ Edits(flow) # << >>
  BY <1>1 DEF BaseInv, FlowOK
<1>9. cursor = Len(NewBytes(flow))
  <2>1. Len(NewBytes(flow)) \in Nat
    BY <1>2, NewBytesType
  <2> QED BY <2>1, <1>1, <1>2, <1>6 DEF FillInv
<1>10. \A k \in Primaries(flow) :
         IF k \in deleted_indices THEN extra_packets = << >>
         ELSE k \in DOMAIN packet_new_seq /\ packets[k].data # << >> /\ k \notin deleted_indices'
  BY <1>1, <1>4, <1>6 DEF FillInv
<1>11. \A k \in Segments(flow) : insert_after[k] = << >>
  BY <1>1, <1>6 DEF FillInv
<1>12. Works
  <2>1. OthersUntouched
    BY <1>1, <1>2, <1>3, <1>5 DEF OthersUntouched, ClosedInserts, Closed
  <2>2. DeletionsGrow
    <3>1. \A i \in AcksOfDeleted : i \in Indices
      BY DeletedAcksAreIndices
    <3> QED BY <3>1, <1>1, <1>4, <1>6 DEF DeletionsGrow, AnchorInv
  <2>3. InsertsStay
    <3> SUFFICES ASSUME NEW i \in Indices
                 PROVE  /\ Len(insert_after[i]) <= Len(insert_after'[i])
                        /\ \A n \in 1 .. Len(insert_after[i]) :
                             insert_after'[i][n] = insert_after[i][n]
      BY DEF InsertsStay
    <3>1. CASE insert_after'[i] = insert_after[i]
      <4>1. Len(insert_after[i]) \in Nat
        BY LenProperties DEF BaseInv, InsertsOK
      <4> QED BY <3>1, <4>1
    <3>2. CASE insert_after'[i] # insert_after[i]
      <4>1. i = LastPrimary
        BY <3>2, <1>5 DEF ClosedInserts, Closed
      <4>2. Len(insert_after[i]) = 0
        BY <4>1, <1>2, <1>11
      <4>3. Len(insert_after'[i]) \in Nat
        BY <1>7, LenProperties DEF BaseInv, InsertsOK
      <4>4. 0 <= Len(insert_after'[i]) /\ 1 .. 0 = {}
        BY <4>3
      <4> QED BY <4>2, <4>4
    <3> QED BY <3>1, <3>2
  <2> QED BY <1>1, <2>1, <2>2, <2>3 DEF Works
<1>13. FlowsInv'
  <2>1. SegmentsOK(flow)'
    <3>1. \A k \in Segments(flow) : k \in Indices
      BY DEF Segments
    <3> QED BY <3>1, <1>1, <1>3, <1>6, <1>7 DEF SegmentsOK, Planning
  <2>2. QuietOK(flow)'
    BY <1>7, <1>8 DEF QuietOK
  <2> QED BY <1>6, <1>12, <2>1, <2>2, FlowsGoOn
<1>14. FreshInv'
  BY <1>1, <1>8 DEF FreshInv, Range
<1>15. AnchorInv'
  <2> SUFFICES ASSUME NEW i \in Indices, insert_after'[i] # << >>
               PROVE  i \notin deleted_indices' /\ packets'[i].data # << >>
    BY <1>7 DEF AnchorInv
  <2>1. CASE insert_after'[i] = insert_after[i]
    BY <2>1, <1>1, <1>3, <1>4, <1>6 DEF AnchorInv
  <2>2. CASE insert_after'[i] # insert_after[i]
    <3>1. i = LastPrimary /\ extra_packets # << >>
      BY <2>2, <1>5 DEF ClosedInserts, Closed
    <3> QED BY <3>1, <1>2, <1>3, <1>10
  <2> QED BY <2>1, <2>2
<1>16. InsertedInv'
  <2> SUFFICES ASSUME NEW d \in Directions, NEW i \in Indices,
                      NEW n \in 1 .. Len(insert_after'[i]), insert_after'[i][n].dir = d
               PROVE  Carries(Base(d), NewBytes(d), insert_after'[i][n].seq,
                              insert_after'[i][n].data)
    <3>1. \A d : Base(d)' = Base(d) /\ NewBytes(d)' = NewBytes(d)
      BY <1>1, InputFrame
    <3> QED BY <3>1, <1>7 DEF InsertedInv
  <2>1. CASE insert_after'[i] = insert_after[i]
    BY <2>1, <1>6 DEF InsertedInv
  <2>2. CASE insert_after'[i] # insert_after[i]
    <3>1. i = LastPrimary /\ extra_packets # << >> /\ Closed
      BY <2>2, <1>5 DEF ClosedInserts, Closed
    <3>2. CASE insert_after'[i][n].data = << >>
      BY <3>2, EmptyCarries
    <3>3. CASE insert_after'[i][n].data # << >>
      <4>1. /\ n \in 1 .. Len(extra_packets)
            /\ insert_after'[i][n].dir = extra_packets[n].dir
            /\ insert_after'[i][n].seq = extra_packets[n].seq
            /\ insert_after'[i][n].data = extra_packets[n].data
        BY <3>1, <3>3 DEF Closed
      <4>2. /\ extra_packets[n].dir = flow
            /\ Carries(Base(flow), NewBytes(flow), extra_packets[n].seq, extra_packets[n].data)
        BY <3>3, <4>1, <1>1, <1>6 DEF ExtraInv
      <4>3. d = flow
        BY <4>1, <4>2
      <4> QED BY <4>1, <4>2, <4>3
    <3> QED BY <3>2, <3>3
  <2> QED BY <2>1, <2>2
<1>17. RemapInv'
  <2>1. \A k \in todo' : insert_after'[k] = << >>
    <3> SUFFICES ASSUME NEW k \in Retransmissions(flow) PROVE insert_after'[k] = << >>
      BY <1>1
    <3>1. k \in Segments(flow) /\ k # LastPrimary /\ k \in Indices
      BY <1>2 DEF Retransmissions, Segments
    <3> QED BY <3>1, <1>5, <1>11 DEF ClosedInserts, Closed
  <2>2. \A k \in Segments(flow) \ todo' : k \in deleted_indices' \/ k \in DOMAIN packet_new_seq'
    <3> SUFFICES ASSUME NEW k \in Segments(flow), k \notin Retransmissions(flow)
                 PROVE  k \in deleted_indices' \/ k \in DOMAIN packet_new_seq'
      BY <1>1
    <3>1. k \in Primaries(flow)
      BY DEF Retransmissions
    <3> QED BY <3>1, <1>1, <1>10
  <2>3. ASSUME NEW pos, HeldByPrimary(pos) PROVE HeldByPrimary(pos)'
    <3>1. PICK k \in Primaries(flow) \ (todo \cup deleted_indices) :
            k \in DOMAIN packet_new_seq /\ Hits(Base(flow), packet_new_seq[k], packets[k].data, pos)
      BY <2>3 DEF HeldByPrimary
    <3>2. k \in Indices
      BY <3>1 DEF Primaries, Segments
    <3>3. k \in Primaries(flow) \ (todo' \cup deleted_indices') /\ packets'[k].data = packets[k].data
      BY <3>1, <3>2, <1>1, <1>3, <1>10 DEF Retransmissions
    <3> QED BY <3>1, <3>3, <1>1, <1>7 DEF HeldByPrimary
  <2>4. ASSUME NEW pos, HeldByExtra(pos) PROVE HeldByInsert(flow, pos)'
    <3>1. PICK n \in 1 .. Len(extra_packets) :
            /\ extra_packets[n].dir = flow
            /\ Hits(Base(flow), extra_packets[n].seq, extra_packets[n].data, pos)
      BY <2>4 DEF HeldByExtra
    <3>2. extra_packets # << >>
      <4>1. 1 .. 0 = {} /\ Len(<< >>) = 0
        OBVIOUS
      <4> QED BY <3>1, <4>1
    <3>3. Closed
      BY <3>2, <1>5 DEF ClosedInserts
    <3>4. LastPrimary \in Indices' \ deleted_indices'
      BY <3>2, <1>2, <1>7, <1>10
    <3>5. PICK inserts : inserts = insert_after'[LastPrimary]
      OBVIOUS
    <3>6. /\ n \in 1 .. Len(inserts) /\ inserts[n].dir = flow
          /\ Hits(Base(flow), inserts[n].seq, inserts[n].data, pos)
      BY <3>1, <3>3, <3>5 DEF Closed
    <3>7. PICK i \in Indices' \ deleted_indices' : inserts = insert_after'[i]
      BY <3>4, <3>5
    <3>8. Base(flow)' = Base(flow) /\ flow' = flow
      BY <1>1, <1>7
    <3> QED BY <3>6, <3>7, <3>8 DEF HeldByInsert
  <2>5. ASSUME NEW pos \in Nat, pos < Len(NewBytes(flow))
        PROVE  HeldByPrimary(pos)' \/ HeldByInsert(flow, pos)'
    BY <2>3, <2>4, <2>5, <1>1, <1>6, <1>9 DEF FillInv
  <2> QED BY <2>1, <2>2, <2>5, <1>1, <1>7 DEF RemapInv
<1>18. WorkInv' /\ OutputInv'
  BY <1>1, <1>17 DEF WorkInv, KeptInv, FillInv, ExtraInv, OutputInv
<1> QED BY <1>13, <1>14, <1>15, <1>16, <1>18 DEF OrdinaryInv

\* The pieces of a retransmission carry the new stream.
LEMMA PiecesCarry ==
  ASSUME BaseInv, NEW k \in Segments(flow), NewPayload(k) # << >>
  PROVE  \E first \in Packet, rest \in Seq(Packet) :
           /\ Head(Pieces(k)) = first /\ Tail(Pieces(k)) = rest
           /\ first.data # << >> /\ first.seq = SeqAdd(Base(flow), NewStart(k))
           /\ Carries(Base(flow), NewBytes(flow), first.seq, first.data)
           /\ \A n \in 1 .. Len(rest) :
                rest[n].dir = flow /\ Carries(Base(flow), NewBytes(flow), rest[n].seq, rest[n].data)
<1>1. PICK pieces \in Seq(Packet) :
        /\ pieces = Pieces(k) /\ pieces # << >>
        /\ pieces[1].seq = SeqAdd(Base(flow), NewStart(k))
        /\ \A n \in DOMAIN pieces :
             /\ pieces[n].dir = flow /\ pieces[n].data # << >>
             /\ \E off \in Nat :
                  /\ pieces[n].seq = SeqAdd(Base(flow), off)
                  /\ off + Len(pieces[n].data) <= Len(NewBytes(flow))
                  /\ \A m \in 1 .. Len(pieces[n].data) :
                       pieces[n].data[m] = NewBytes(flow)[off + m]
  BY PiecesFacts
<1>2. \A n \in DOMAIN pieces :
        Carries(Base(flow), NewBytes(flow), pieces[n].seq, pieces[n].data)
  BY <1>1 DEF Carries
<1>3. PICK first \in Packet, rest \in Seq(Packet) : first = Head(pieces) /\ rest = Tail(pieces)
  <2>1. Head(pieces) \in Packet /\ Tail(pieces) \in Seq(Packet)
    BY <1>1, HeadTailProperties
  <2> QED BY <2>1
<1>4. Len(rest) = Len(pieces) - 1 /\ \A n \in 1 .. Len(rest) : rest[n] = pieces[n + 1]
  <2>1. pieces # << >>
    BY <1>1
  <2> QED BY <2>1, <1>3, HeadTailProperties
<1>5. Len(pieces) \in Nat /\ Len(pieces) # 0 /\ DOMAIN pieces = 1 .. Len(pieces)
  BY <1>1, EmptySeq, LenProperties
<1>6. first = pieces[1] /\ 1 \in DOMAIN pieces
  BY <1>1, <1>3, <1>5
<1>7. \A n \in 1 .. Len(rest) : n + 1 \in DOMAIN pieces
  BY <1>5, <1>4
<1>8. /\ first.data # << >> /\ first.seq = SeqAdd(Base(flow), NewStart(k))
      /\ Carries(Base(flow), NewBytes(flow), first.seq, first.data)
  BY <1>1, <1>2, <1>6
<1>9. \A n \in 1 .. Len(rest) :
        rest[n].dir = flow /\ Carries(Base(flow), NewBytes(flow), rest[n].seq, rest[n].data)
  BY <1>1, <1>2, <1>7, <1>4
<1>10. Head(Pieces(k)) = first /\ Tail(Pieces(k)) = rest
  BY <1>1, <1>3
<1> QED BY <1>8, <1>9, <1>10

LEMMA OrdinaryRemapSegment ==
  ASSUME BaseInv, BaseInv', IsOrdinary, OrdinaryInv, NEW k \in todo, RemapSegment(k)
  PROVE  OrdinaryInv'
<1> USE DEF RemapSegment
<1>1. /\ IsInput(input) /\ flow \in Directions /\ k \in Segments(flow)
      /\ k \in Indices /\ input.packets[k].dir = flow /\ input.packets[k].data # << >>
      /\ Base(flow) \in SeqNumbers
  BY TodoFacts
<1>2. PICK first \in Packet, rest \in Seq(Packet) :
        /\ Head(Pieces(k)) = first /\ Tail(Pieces(k)) = rest
        /\ first.data # << >> /\ first.seq = SeqAdd(Base(flow), NewStart(k))
        /\ Carries(Base(flow), NewBytes(flow), first.seq, first.data)
        /\ \A n \in 1 .. Len(rest) :
             rest[n].dir = flow /\ Carries(Base(flow), NewBytes(flow), rest[n].seq, rest[n].data)
  BY <1>1, PiecesCarry
<1>3. PICK seq : seq = SeqAdd(Base(flow), NewStart(k))
  OBVIOUS
<1>4. /\ phase = "remap" /\ phase' = "remap" /\ todo' = todo \ {k} /\ k \notin deleted_indices
      /\ packets' = [packets EXCEPT ![k] = first]
      /\ packet_new_seq' = With(packet_new_seq, k, seq)
      /\ insert_after' = [insert_after EXCEPT ![k] = @ \o rest]
      /\ UNCHANGED <<input, flow, preserve_flows, merged_flows, deleted_indices>>
  BY <1>2, <1>3 DEF NeedsNoRemap
<1> HIDE DEF RemapSegment
<1>5. /\ RemapInv /\ FlowsInv /\ AnchorInv /\ InsertedInv /\ SegmentsOK(flow)
  BY <1>1 DEF OrdinaryInv, WorkInv, FlowsInv
<1>6. Rewrites(k, seq) /\ packets'[k] = first
  BY <1>1, <1>4, SegmentRewritten DEF BaseInv
<1>7. /\ insert_after[k] = << >> /\ insert_after'[k] = rest
      /\ \A i \in Indices \ {k} : insert_after'[i] = insert_after[i]
  <2>1. insert_after[k] = << >>
    BY <1>4, <1>5 DEF RemapInv
  <2>2. << >> \o rest = rest
    BY ConcatEmptySeq
  <2>3. DOMAIN insert_after = Indices
    BY DEF BaseInv, InsertsOK
  <2> QED BY <2>1, <2>2, <2>3, <1>1, <1>4
<1>8. /\ Segments(flow)' = Segments(flow) /\ Base(flow)' = Base(flow)
      /\ NewBytes(flow)' = NewBytes(flow) /\ Primaries(flow)' = Primaries(flow)
      /\ Edits(flow)' = Edits(flow) /\ Indices' = Indices
  BY <1>4, FlowSets
<1>9. preserve_flows = << >> /\ Edits(flow) # << >> /\ k \notin Primaries(flow)
  BY <1>4 DEF BaseInv, FlowOK, TodoOK, Retransmissions
<1>10. DeletionsGrow /\ InsertsStay
  <2>1. DeletionsGrow
    BY <1>4 DEF DeletionsGrow
  <2>2. \A i \in Indices : Len(insert_after[i]) \in Nat
    BY LenProperties DEF BaseInv, InsertsOK
  <2>3. Len(rest) \in Nat /\ Len(<< >>) = 0 /\ 1 .. 0 = {}
    BY LenProperties
  <2>4. ASSUME NEW i \in Indices
        PROVE  /\ Len(insert_after[i]) <= Len(insert_after'[i])
               /\ \A n \in 1 .. Len(insert_after[i]) :
                    insert_after'[i][n] = insert_after[i][n]
    <3>1. CASE i = k
      <4>1. Len(insert_after[i]) = 0 /\ Len(insert_after'[i]) = Len(rest)
        BY <3>1, <2>3, <1>7
      <4>2. 0 <= Len(rest)
        BY <2>3
      <4> QED BY <4>1, <4>2, <2>3
    <3>2. CASE i # k
      BY <3>2, <2>2, <1>7
    <3> QED BY <3>1, <3>2
  <2> QED BY <2>1, <2>4 DEF InsertsStay
<1>11. Works
  <2>1. OthersUntouched
    BY <1>1, <1>6, <1>7 DEF OthersUntouched, Rewrites
  <2> QED BY <2>1, <1>4, <1>10 DEF Works
<1>12. FlowsInv'
  <2>1. SegmentsOK(flow)'
    BY <1>1, <1>2, <1>3, <1>4, <1>5, <1>6, RewrittenSegments DEF Planning
  <2>2. QuietOK(flow)'
    BY <1>8, <1>9 DEF QuietOK
  <2> QED BY <1>5, <1>11, <2>1, <2>2, FlowsGoOn
<1>13. FreshInv'
  BY <1>4, <1>9 DEF FreshInv, Range
<1>14. AnchorInv'
  BY <1>2, <1>4, <1>5, <1>6, <1>7, <1>8 DEF AnchorInv, Rewrites
<1>15. InsertedInv'
  <2> SUFFICES ASSUME NEW d \in Directions, NEW i \in Indices,
                      NEW n \in 1 .. Len(insert_after'[i]), insert_after'[i][n].dir = d
               PROVE  Carries(Base(d), NewBytes(d), insert_after'[i][n].seq,
                              insert_after'[i][n].data)
    <3>1. \A d : Base(d)' = Base(d) /\ NewBytes(d)' = NewBytes(d)
      BY <1>4, InputFrame
    <3> QED BY <3>1, <1>8 DEF InsertedInv
  <2>1. CASE i = k
    BY <2>1, <1>2, <1>7
  <2>2. CASE i # k
    BY <2>2, <1>5, <1>7 DEF InsertedInv
  <2> QED BY <2>1, <2>2
<1>16. RemapInv'
  <2>1. \A m \in todo' : insert_after'[m] = << >>
    <3>1. todo \subseteq Indices
      BY <1>4 DEF BaseInv, TodoOK, Retransmissions, Segments
    <3> QED BY <3>1, <1>4, <1>5, <1>7 DEF RemapInv
  <2>2. \A m \in Segments(flow) \ todo' : m \in deleted_indices' \/ m \in DOMAIN packet_new_seq'
    BY <1>4, <1>5, <1>6 DEF RemapInv, Rewrites
  <2>3. ASSUME NEW pos, HeldByPrimary(pos) PROVE HeldByPrimary(pos)'
    <3>1. PICK m \in Primaries(flow) \ (todo \cup deleted_indices) :
            m \in DOMAIN packet_new_seq /\ Hits(Base(flow), packet_new_seq[m], packets[m].data, pos)
      BY <2>3 DEF HeldByPrimary
    <3>2. m \in Indices /\ m # k
      BY <3>1, <1>9 DEF Primaries, Segments
    <3>3. /\ m \in Primaries(flow) \ (todo' \cup deleted_indices') /\ m \in DOMAIN packet_new_seq'
          /\ packets'[m] = packets[m] /\ packet_new_seq'[m] = packet_new_seq[m]
      BY <3>1, <3>2, <1>4, <1>6 DEF Rewrites
    <3> QED BY <3>1, <3>3, <1>8 DEF HeldByPrimary
  <2>4. ASSUME NEW pos, HeldByInsert(flow, pos) PROVE HeldByInsert(flow, pos)'
    <3>1. PICK d : d = flow
      OBVIOUS
    <3>2. HeldByInsert(d, pos)'
      BY <2>4, <3>1, <1>4, <1>10, HeldStays
    <3> QED BY <3>1, <3>2, <1>4 DEF HeldByInsert, Base, Indices
  <2>5. ASSUME NEW pos \in Nat, pos < Len(NewBytes(flow))
        PROVE  HeldByPrimary(pos)' \/ HeldByInsert(flow, pos)'
    BY <2>3, <2>4, <2>5, <1>4, <1>5 DEF RemapInv
  <2> QED BY <2>1, <2>2, <2>5, <1>4, <1>8 DEF RemapInv
<1>17. WorkInv' /\ OutputInv'
  BY <1>4, <1>16 DEF WorkInv, KeptInv, FillInv, ExtraInv, OutputInv
<1> QED BY <1>12, <1>13, <1>14, <1>15, <1>17 DEF OrdinaryInv

LEMMA OrdinaryDropRetransmission ==
  ASSUME BaseInv, BaseInv', IsOrdinary, OrdinaryInv, NEW k \in todo, DropRetransmission(k)
  PROVE  OrdinaryInv'
<1> USE DEF DropRetransmission
<1>1. /\ IsInput(input) /\ flow \in Directions /\ k \in Segments(flow)
      /\ k \in Indices /\ input.packets[k].dir = flow
  BY TodoFacts
<1>2. /\ phase = "remap" /\ phase' = "remap" /\ todo' = todo \ {k}
      /\ deleted_indices' = deleted_indices \cup {k}
      /\ UNCHANGED <<input, flow, phase, packets, preserve_flows, merged_flows, packet_new_seq,
                     insert_after>>
  OBVIOUS
<1> HIDE DEF DropRetransmission
<1>3. RemapInv
  BY DEF OrdinaryInv, WorkInv
<1>4. insert_after[k] = << >> /\ k \notin Primaries(flow)
  BY <1>2, <1>3 DEF RemapInv, BaseInv, TodoOK, Retransmissions
<1>5. FlowsInv' /\ FreshInv' /\ AnchorInv' /\ InsertedInv'
  BY <1>1, <1>2, <1>4, DeletionWorks
<1>6. /\ Segments(flow)' = Segments(flow) /\ Base(flow)' = Base(flow)
      /\ NewBytes(flow)' = NewBytes(flow) /\ Primaries(flow)' = Primaries(flow)
  BY <1>2, FlowSets
<1>7. DeletionsGrow /\ InsertsStay
  <2>1. \A i \in Indices : Len(insert_after[i]) \in Nat
    BY LenProperties DEF BaseInv, InsertsOK
  <2> QED BY <2>1, <1>1, <1>2, <1>4 DEF DeletionsGrow, InsertsStay
<1>8. RemapInv'
  <2>1. ASSUME NEW pos, HeldByPrimary(pos) PROVE HeldByPrimary(pos)'
    <3>1. PICK m \in Primaries(flow) \ (todo \cup deleted_indices) :
            m \in DOMAIN packet_new_seq /\ Hits(Base(flow), packet_new_seq[m], packets[m].data, pos)
      BY <2>1 DEF HeldByPrimary
    <3>2. m \in Primaries(flow) \ (todo' \cup deleted_indices')
      BY <3>1, <1>2, <1>4
    <3> QED BY <3>1, <3>2, <1>2, <1>6 DEF HeldByPrimary
  <2>2. ASSUME NEW pos, HeldByInsert(flow, pos) PROVE HeldByInsert(flow, pos)'
    <3>1. PICK d : d = flow
      OBVIOUS
    <3>2. HeldByInsert(d, pos)'
      BY <2>2, <3>1, <1>2, <1>7, HeldStays
    <3> QED BY <3>1, <3>2, <1>2 DEF HeldByInsert, Base, Indices
  <2>3. ASSUME NEW pos \in Nat, pos < Len(NewBytes(flow))
        PROVE  HeldByPrimary(pos)' \/ HeldByInsert(flow, pos)'
    BY <2>1, <2>2, <2>3, <1>2, <1>3 DEF RemapInv
  <2> QED BY <2>3, <1>2, <1>3, <1>6 DEF RemapInv
<1>9. WorkInv' /\ OutputInv'
  BY <1>2, <1>8 DEF WorkInv, KeptInv, FillInv, ExtraInv, OutputInv
<1> QED BY <1>5, <1>9 DEF OrdinaryInv

LEMMA OrdinaryEndMerge ==
  ASSUME BaseInv, BaseInv', IsOrdinary, OrdinaryInv, EndMerge
  PROVE  OrdinaryInv'
<1>1. /\ phase = "remap" /\ phase' = "next" /\ todo = {}
      /\ UNCHANGED <<input, flow, packets, preserve_flows, merged_flows, packet_new_seq,
                     deleted_indices, insert_after>>
  BY DEF EndMerge, plan
<1>2. RemapInv /\ flow \in Directions /\ preserve_flows = << >>
  BY <1>1 DEF OrdinaryInv, WorkInv, BaseInv, FlowOK
<1>3. Rewritten(flow)
  <2>1. \A k \in Segments(flow) \ deleted_indices : k \in DOMAIN packet_new_seq
    BY <1>1, <1>2 DEF RemapInv
  <2>2. ASSUME NEW pos, HeldByPrimary(pos) PROVE HeldBySegment(flow, pos)
    <3>1. PICK k \in Primaries(flow) \ (todo \cup deleted_indices) :
            k \in DOMAIN packet_new_seq /\ Hits(Base(flow), packet_new_seq[k], packets[k].data, pos)
      BY <2>2 DEF HeldByPrimary
    <3>2. k \in Segments(flow) \ deleted_indices /\ PlannedSeq(flow, k) = packet_new_seq[k]
      BY <3>1 DEF Primaries, PlannedSeq
    <3> QED BY <3>1, <3>2 DEF HeldBySegment
  <2>3. ASSUME NEW pos \in Nat, pos < Len(NewBytes(flow))
        PROVE  HeldBySegment(flow, pos) \/ HeldByInsert(flow, pos)
    BY <2>2, <2>3, <1>1, <1>2 DEF RemapInv
  <2> QED BY <2>1, <2>3 DEF Rewritten
<1>4. ASSUME NEW d \in Directions
      PROVE  SegmentsOK(d)' /\ QuietOK(d)' /\ MergeOK(d)' /\ SettledOK(d)'
  <2>1. SegmentsOK(d) /\ QuietOK(d) /\ MergeOK(d) /\ SettledOK(d)
    BY DEF OrdinaryInv, FlowsInv
  <2>2. Planning
    BY <1>1 DEF Planning
  <2>3. SegmentsOK(d)' /\ QuietOK(d)' /\ MergeOK(d)'
    BY <1>1, <2>1, <2>2, SegmentsFrame, QuietFrame, MergeFrame
  <2>4. SettledOK(d)'
    <3>1. CASE d = flow
      <4>1. Rewritten(d)'
        BY <3>1, <1>1, <1>3, RewrittenFrame
      <4> QED BY <4>1 DEF SettledOK
    <3>2. CASE d # flow
      <4>1. Settled(d)' => Settled(d)
        BY <3>2, <1>1 DEF Settled, Planning, Waits, AtWork
      <4> QED BY <4>1, <1>1, <2>1, SettledFrame
    <3> QED BY <3>1, <3>2
  <2> QED BY <2>3, <2>4
<1>5. FreshInv' /\ AnchorInv' /\ InsertedInv'
  <2>1. FreshInv'
    BY <1>1, <1>2 DEF FreshInv, Range
  <2> QED BY <1>1, <2>1, AnchorFrame, InsertedFrame DEF OrdinaryInv
<1>6. WorkInv' /\ OutputInv'
  BY <1>1 DEF WorkInv, KeptInv, FillInv, RemapInv, ExtraInv, OutputInv
<1> QED BY <1>4, <1>5, <1>6 DEF OrdinaryInv, FlowsInv
-----------------------------------------------------------------------------
(***************************************************************************)
(* Ordinary flows: the adjustment of the numbers, and the output.          *)
(***************************************************************************)
\* What the adjustment makes of the SEQ of a segment that stays.
LEMMA SegmentAdjusted ==
  ASSUME BaseInv, Planning, NEW d \in Directions, SegmentsOK(d), QuietOK(d), NEW k \in Segments(d)
  PROVE  Adjusted(k).data = packets[k].data /\ Adjusted(k).seq = PlannedSeq(d, k)
<1>1. /\ IsInput(input) /\ k \in Indices /\ input.packets[k].dir = d
      /\ OldStart(k) \in 0 .. SeqHalf - 1 /\ OldStart(k) <= input.old_len[d]
      /\ input.packets[k].seq = SeqAdd(Base(d), OldStart(k))
  <2>1. /\ k \in Indices /\ input.packets[k].dir = d /\ IsInput(input)
        /\ OldStart(k) \in 0 .. SeqHalf - 1 /\ OldEnd(k) \in Nat
        /\ OldStart(k) < OldEnd(k) /\ OldEnd(k) <= input.old_len[d]
        /\ input.packets[k].seq = SeqAdd(Base(d), OldStart(k))
    BY SegmentFacts DEF BaseInv
  <2>2. PICK a \in Nat, b \in Nat, c \in Nat :
          a = OldStart(k) /\ b = OldEnd(k) /\ c = input.old_len[d]
    BY <2>1, InputFacts, SeqHalfAssumption
  <2>3. a <= c
    BY <2>1, <2>2
  <2> QED BY <2>1, <2>2, <2>3
<1>2. /\ Adjusted(k).data = packets[k].data
      /\ Adjusted(k).seq = IF ~IsModified(d) THEN packets[k].seq
                           ELSE IF k \in DOMAIN packet_new_seq THEN packet_new_seq[k]
                           ELSE MapSeq(d, packets[k].seq)
  BY <1>1, AdjustedFacts
<1>3. CASE k \in DOMAIN packet_new_seq
  <2>1. IsModified(d)
    BY <1>1, <1>3, InputFacts DEF QuietOK, IsModified
  <2> QED BY <1>2, <1>3, <2>1 DEF PlannedSeq
<1>4. CASE k \notin DOMAIN packet_new_seq
  <2>1. packets[k].seq = SeqAdd(Base(d), OldStart(k))
    BY <1>1, <1>4 DEF SegmentsOK
  <2>2. CASE ~IsModified(d)
    <3>1. Edits(d) = << >>
      BY <1>1, <2>2, InputFacts DEF IsModified
    <3>2. NewStart(k) = OldStart(k)
      BY <1>1, <3>1, QuietPayload
    <3> QED BY <1>2, <1>4, <2>1, <2>2, <3>2 DEF PlannedSeq
  <2>3. CASE IsModified(d)
    <3>1. PICK seq : seq = input.packets[k].seq /\ seq = packets[k].seq
      BY <1>1, <2>1
    <3>2. SeqOffset(seq, Base(d)) = OldStart(k)
      BY <1>1, <3>1 DEF OldStart
    <3>3. OldStart(k) # NoOffset /\ ~(OldStart(k) > input.old_len[d] + 1)
      <4>1. PICK a \in Nat, c \in Nat : a = OldStart(k) /\ c = input.old_len[d] /\ a <= c
        BY <1>1, InputFacts, SeqHalfAssumption
      <4>2. NoOffset \notin Nat
        BY DEF NoOffset
      <4> QED BY <4>1, <4>2
    <3>4. MapSeq(d, seq) = SeqAdd(Base(d), MapOffset(OldStart(k), Edits(d)))
      BY <3>2, <3>3 DEF MapSeq
    <3>5. NewStart(k) = MapOffset(OldStart(k), Edits(d))
      BY <1>1 DEF NewStart
    <3> QED BY <1>2, <1>4, <2>3, <3>1, <3>4, <3>5 DEF PlannedSeq
  <2> QED BY <2>2, <2>3
<1> QED BY <1>2, <1>3, <1>4

\* When a flow is settled, its segments and what is inserted are its new stream.
LEMMA SettledFlow ==
  ASSUME BaseInv, IsOrdinary, NEW d \in Directions, Settled(d),
         SegmentsOK(d), QuietOK(d), SettledOK(d)
  PROVE  /\ \A k \in Segments(d) \ deleted_indices :
              Carries(Base(d), NewBytes(d), PlannedSeq(d, k), packets[k].data)
         /\ \A pos \in Nat :
              pos < Len(NewBytes(d)) => HeldBySegment(d, pos) \/ HeldByInsert(d, pos)
<1>1. IsInput(input) /\ Planning
  BY DEF BaseInv, Settled
<1>2. ASSUME NEW k \in Segments(d) \ deleted_indices
      PROVE  Carries(Base(d), NewBytes(d), PlannedSeq(d, k), packets[k].data)
  <2>1. CASE k \in DOMAIN packet_new_seq
    BY <2>1, <1>1 DEF SegmentsOK, PlannedSeq
  <2>2. CASE k \notin DOMAIN packet_new_seq
    <3>1. packets[k].data = input.packets[k].data
      BY <2>2, <1>1 DEF SegmentsOK
    <3>2. NewPayload(k) = input.packets[k].data
      <4>1. CASE Edits(d) = << >>
        BY <4>1, <1>1, QuietPayload
      <4>2. CASE Edits(d) # << >>
        BY <4>2, <2>2 DEF SettledOK, Rewritten
      <4> QED BY <4>1, <4>2
    <3>3. Carries(Base(d), NewBytes(d), SeqAdd(Base(d), NewStart(k)), NewPayload(k))
      BY <1>1, NewPayloadCarries
    <3> QED BY <2>2, <3>1, <3>2, <3>3 DEF PlannedSeq
  <2> QED BY <2>1, <2>2
<1>3. ASSUME NEW pos \in Nat, pos < Len(NewBytes(d))
      PROVE  HeldBySegment(d, pos) \/ HeldByInsert(d, pos)
  <2>1. CASE Edits(d) # << >>
    BY <2>1, <1>3 DEF SettledOK, Rewritten
  <2>2. CASE Edits(d) = << >>
    <3>1. IsCaptured(d) /\ MapOffset(0, Edits(d)) = 0
      BY <1>1, <2>2, QuietFacts DEF IsOrdinary
    <3>2. PICK k \in Segments(d) : NewStart(k) <= pos /\ pos < NewEnd(k)
      BY <1>1, <1>3, <3>1, SegmentsCover
    <3>3. Hits(Base(d), SeqAdd(Base(d), NewStart(k)), NewPayload(k), pos)
      BY <1>1, <3>2, NewPayloadHits
    <3>4. k \notin DOMAIN packet_new_seq /\ k \notin deleted_indices
      BY <2>2 DEF QuietOK
    <3>5. packets[k].data = NewPayload(k) /\ PlannedSeq(d, k) = SeqAdd(Base(d), NewStart(k))
      BY <1>1, <2>2, <3>4, QuietPayload DEF SegmentsOK, PlannedSeq
    <3> QED BY <3>3, <3>4, <3>5 DEF HeldBySegment
  <2> QED BY <2>1, <2>2
<1> QED BY <1>2, <1>3

LEMMA OrdinaryAdjust ==
  ASSUME BaseInv, BaseInv', IsOrdinary, OrdinaryInv, Adjust
  PROVE  OrdinaryInv'
<1> USE DEF Adjust
<1>1. /\ phase = "next" /\ phase' = "adjusted" /\ todo' = Indices
      /\ preserve_flows = << >> /\ merged_flows = << >>
      /\ preserve_flows' = << >> /\ merged_flows' = << >>
      /\ \A i \in Indices :
           packets'[i] = IF i \in deleted_indices THEN packets[i] ELSE Adjusted(i)
      /\ UNCHANGED <<input, flow, packet_new_seq, deleted_indices, output>>
  OBVIOUS
<1>2. \A i \in Indices :
        /\ Len(insert_after'[i]) = Len(insert_after[i])
        /\ insert_after'[i] \in Seq(Packet)
        /\ \A n \in 1 .. Len(insert_after[i]) :
             /\ insert_after'[i][n].dir = insert_after[i][n].dir
             /\ insert_after'[i][n].data = insert_after[i][n].data
             /\ insert_after[i][n].data # << >> =>
                  insert_after'[i][n].seq = insert_after[i][n].seq
  BY AdjustedInserts
<1> HIDE DEF Adjust
<1>3. /\ IsInput(input) /\ output = << >> /\ Range(<< >>) = {} /\ Planning
  BY <1>1 DEF BaseInv, TodoOK, Range, Planning
<1>4. /\ Indices' = Indices
      /\ \A d : /\ Base(d)' = Base(d) /\ NewBytes(d)' = NewBytes(d) /\ Edits(d)' = Edits(d)
                /\ Segments(d)' = Segments(d)
  BY <1>1, InputFrame
<1>5. \A d \in Directions : Settled(d)
  BY <1>1, <1>3 DEF Settled, Waits, AtWork
<1>6. \A i \in Indices : packets'[i].data = packets[i].data
  <2> SUFFICES ASSUME NEW i \in Indices PROVE packets'[i].data = packets[i].data
    OBVIOUS
  <2>1. PICK d \in Directions : d = input.packets[i].dir
    BY <1>3, InputFacts, PacketFields
  <2>2. Adjusted(i).data = packets[i].data
    BY <2>1, AdjustedFacts
  <2> QED BY <1>1, <2>2
<1>7. FlowsInv'
  <2> SUFFICES ASSUME NEW d \in Directions
               PROVE  SegmentsOK(d)' /\ QuietOK(d)' /\ MergeOK(d)' /\ SettledOK(d)'
    BY DEF FlowsInv
  <2>1. SegmentsOK(d)' /\ MergeOK(d)' /\ SettledOK(d)'
    BY <1>1, <1>3 DEF SegmentsOK, MergeOK, SettledOK, Settled, Planning
  <2>2. QuietOK(d)
    BY DEF OrdinaryInv, FlowsInv
  <2> QED BY <1>1, <2>1, <2>2, QuietFrame
<1>8. FreshInv'
  BY <1>1, <1>3 DEF FreshInv
<1>9. AnchorInv'
  <2> SUFFICES ASSUME NEW i \in Indices, insert_after'[i] # << >>
               PROVE  i \notin deleted_indices /\ packets'[i].data # << >>
    BY <1>1, <1>4 DEF AnchorInv
  <2>1. PICK new \in Seq(Packet), old \in Seq(Packet) :
          new = insert_after'[i] /\ old = insert_after[i] /\ Len(new) = Len(old)
    BY <1>2 DEF BaseInv, InsertsOK
  <2>2. old # << >>
    BY <2>1, EmptySeq
  <2> QED BY <2>1, <2>2, <1>6 DEF OrdinaryInv, AnchorInv
<1>10. InsertedInv'
  <2> SUFFICES ASSUME NEW d \in Directions, NEW i \in Indices,
                      NEW n \in 1 .. Len(insert_after'[i]), insert_after'[i][n].dir = d
               PROVE  Carries(Base(d), NewBytes(d), insert_after'[i][n].seq,
                              insert_after'[i][n].data)
    BY <1>4 DEF InsertedInv
  <2>1. CASE insert_after'[i][n].data = << >>
    BY <2>1, EmptyCarries
  <2>2. CASE insert_after'[i][n].data # << >>
    <3>1. /\ n \in 1 .. Len(insert_after[i]) /\ insert_after[i][n].dir = d
          /\ insert_after'[i][n].data = insert_after[i][n].data
          /\ insert_after'[i][n].seq = insert_after[i][n].seq
      BY <2>2, <1>2
    <3>2. Carries(Base(d), NewBytes(d), insert_after[i][n].seq, insert_after[i][n].data)
      BY <3>1 DEF OrdinaryInv, InsertedInv
    <3> QED BY <3>1, <3>2
  <2> QED BY <2>1, <2>2
<1>11. ASSUME NEW d \in Directions PROVE AdjustedOK(d)'
  <2>1. SegmentsOK(d) /\ QuietOK(d) /\ SettledOK(d) /\ Settled(d)
    BY <1>5 DEF OrdinaryInv, FlowsInv
  <2>2. /\ \A k \in Segments(d) \ deleted_indices :
             Carries(Base(d), NewBytes(d), PlannedSeq(d, k), packets[k].data)
        /\ \A pos \in Nat :
             pos < Len(NewBytes(d)) => HeldBySegment(d, pos) \/ HeldByInsert(d, pos)
    BY <2>1, SettledFlow
  <2>3. \A k \in Segments(d) \ deleted_indices :
          packets'[k].data = packets[k].data /\ packets'[k].seq = PlannedSeq(d, k)
    <3> SUFFICES ASSUME NEW k \in Segments(d) \ deleted_indices
                 PROVE  packets'[k].data = packets[k].data /\ packets'[k].seq = PlannedSeq(d, k)
      OBVIOUS
    <3>1. k \in Indices
      BY DEF Segments
    <3>2. Adjusted(k).data = packets[k].data /\ Adjusted(k).seq = PlannedSeq(d, k)
      BY <1>3, <2>1, SegmentAdjusted
    <3> QED BY <1>1, <3>1, <3>2
  <2>4. \A k \in Segments(d) \ deleted_indices :
          Carries(Base(d), NewBytes(d), packets'[k].seq, packets'[k].data)
    BY <2>2, <2>3
  <2>5. ASSUME NEW pos \in Nat, HeldBySegment(d, pos)
        PROVE  \E k \in Segments(d) \ deleted_indices :
                 Hits(Base(d), packets'[k].seq, packets'[k].data, pos)
    BY <2>3, <2>5 DEF HeldBySegment
  <2>6. ASSUME NEW pos \in Nat, HeldByInsert(d, pos) PROVE HeldByInsert(d, pos)'
    <3>1. PICK i \in Indices \ deleted_indices :
            \E n \in 1 .. Len(insert_after[i]) :
              /\ insert_after[i][n].dir = d
              /\ Hits(Base(d), insert_after[i][n].seq, insert_after[i][n].data, pos)
      BY <2>6 DEF HeldByInsert
    <3>2. PICK n \in 1 .. Len(insert_after[i]) :
            /\ insert_after[i][n].dir = d
            /\ Hits(Base(d), insert_after[i][n].seq, insert_after[i][n].data, pos)
      BY <3>1
    <3>3. insert_after[i][n].data # << >>
      BY <3>2, HitsHasData
    <3>4. /\ n \in 1 .. Len(insert_after'[i]) /\ insert_after'[i][n].dir = d
          /\ insert_after'[i][n].data = insert_after[i][n].data
          /\ insert_after'[i][n].seq = insert_after[i][n].seq
      BY <1>2, <3>2, <3>3
    <3>5. i \in Indices' \ deleted_indices'
      BY <1>1, <1>4
    <3> QED BY <1>4, <3>2, <3>4, <3>5 DEF HeldByInsert
  <2>7. ASSUME NEW pos \in Nat, pos < Len(NewBytes(d))
        PROVE  \/ \E k \in Segments(d) \ deleted_indices :
                    Hits(Base(d), packets'[k].seq, packets'[k].data, pos)
               \/ HeldByInsert(d, pos)'
    BY <2>2, <2>5, <2>6, <2>7
  <2>8. Range(output)' = {}
    BY <1>1, <1>3
  <2> QED BY <1>1, <1>4, <2>4, <2>7, <2>8 DEF AdjustedOK
<1>12. OutputInv'
  BY <1>1, <1>4, <1>11 DEF OutputInv
<1>13. WorkInv'
  BY <1>1 DEF WorkInv, KeptInv, FillInv, RemapInv, ExtraInv
<1> QED BY <1>7, <1>8, <1>9, <1>10, <1>12, <1>13 DEF OrdinaryInv

LEMMA RangeOfConcatenation ==
  ASSUME NEW S, NEW s \in Seq(S), NEW t \in Seq(S)
  PROVE  s \o t \in Seq(S) /\ Range(s \o t) = Range(s) \cup Range(t)
<1>1. PICK e \in Seq(S) : e = s \o t /\ Joins(e, s, t)
  BY ConcatenationFacts
<1>2. DOMAIN e = 1 .. Len(e) /\ DOMAIN s = 1 .. Len(s) /\ DOMAIN t = 1 .. Len(t)
  BY LenProperties
<1>3. ASSUME NEW p \in Range(e) PROVE p \in Range(s) \cup Range(t)
  <2>1. PICK n \in 1 .. Len(e) : p = e[n]
    BY <1>2, <1>3 DEF Range
  <2>2. CASE n \in 1 .. Len(s)
    BY <2>1, <2>2, <1>1, <1>2 DEF Joins, Range
  <2>3. ASSUME NEW m \in 1 .. Len(t), n = Len(s) + m PROVE p \in Range(t)
    BY <2>1, <2>3, <1>1, <1>2 DEF Joins, Range
  <2> QED BY <2>2, <2>3, <1>1 DEF Joins
<1>4. ASSUME NEW p \in Range(s) PROVE p \in Range(e)
  <2>1. PICK n \in 1 .. Len(s) : p = s[n]
    BY <1>2, <1>4 DEF Range
  <2> QED BY <2>1, <1>1, <1>2 DEF Joins, Range
<1>5. ASSUME NEW p \in Range(t) PROVE p \in Range(e)
  <2>1. PICK n \in 1 .. Len(t) : p = t[n]
    BY <1>2, <1>5 DEF Range
  <2> QED BY <2>1, <1>1, <1>2 DEF Joins, Range
<1>6. Range(e) = Range(s) \cup Range(t)
  BY <1>3, <1>4, <1>5
<1> QED BY <1>1, <1>6

LEMMA OrdinaryEmitPacket ==
  ASSUME BaseInv, BaseInv', IsOrdinary, OrdinaryInv, NEW i \in todo, EmitPacket(i)
  PROVE  OrdinaryInv'
<1>1. /\ phase = "adjusted" /\ phase' \in {"adjusted", "done"} /\ todo' = todo \ {i}
      /\ output' = output \o Emitted(i)
      /\ UNCHANGED <<input, flow, packets, preserve_flows, merged_flows, packet_new_seq,
                     deleted_indices, insert_after>>
  BY DEF EmitPacket, plan
<1>2. /\ i \in Indices /\ preserve_flows = << >> /\ merged_flows = << >>
      /\ OutputInv /\ InsertedInv /\ FlowsInv
  BY <1>1 DEF BaseInv, TodoOK, FlowOK, OrdinaryInv
<1>3. /\ Range(output') = Range(output) \cup Range(Emitted(i))
      /\ i \in deleted_indices => Emitted(i) = << >>
      /\ i \notin deleted_indices =>
           Range(Emitted(i)) = {packets[i]} \cup Range(insert_after[i])
  <2>1. PICK old \in Seq(Packet), new \in Seq(Packet) : old = output /\ new = Emitted(i)
    BY <1>2, EmittedType DEF BaseInv, InsertsOK
  <2>2. Range(old \o new) = Range(old) \cup Range(new)
    BY RangeOfConcatenation
  <2> QED BY <2>1, <2>2, <1>1, <1>2, EmittedType
<1>4. Range(<< >>) = {}
  BY DEF Range
<1>5. /\ Indices' = Indices
      /\ \A d : /\ Base(d)' = Base(d) /\ NewBytes(d)' = NewBytes(d)
                /\ Segments(d)' = Segments(d)
  BY <1>1, InputFrame
<1>6. FlowsInv'
  <2> SUFFICES ASSUME NEW d \in Directions
               PROVE  SegmentsOK(d)' /\ QuietOK(d)' /\ MergeOK(d)' /\ SettledOK(d)'
    BY DEF FlowsInv
  <2>1. SegmentsOK(d)' /\ MergeOK(d)' /\ SettledOK(d)'
    BY <1>1, <1>2, <1>4 DEF SegmentsOK, MergeOK, SettledOK, Settled, Planning
  <2>2. QuietOK(d)
    BY <1>2 DEF FlowsInv
  <2> QED BY <1>1, <2>1, <2>2, QuietFrame
<1>7. FreshInv' /\ AnchorInv' /\ InsertedInv'
  <2>1. FreshInv'
    BY <1>1, <1>2, <1>4 DEF FreshInv
  <2> QED BY <1>1, <2>1, AnchorFrame, InsertedFrame DEF OrdinaryInv
<1>8. ASSUME NEW d \in Directions PROVE AdjustedOK(d)'
  <2>1. AdjustedOK(d)
    BY <1>1, <1>2 DEF OutputInv
  <2>2. ASSUME NEW packet \in Range(output'), packet.dir = d
        PROVE  Carries(Base(d), NewBytes(d), packet.seq, packet.data)
    <3>1. CASE packet \in Range(output)
      BY <2>1, <2>2, <3>1 DEF AdjustedOK
    <3>2. CASE packet = packets[i] /\ i \notin deleted_indices
      <4>1. CASE packet.data = << >>
        BY <4>1, EmptyCarries
      <4>2. CASE packet.data # << >>
        <5>1. input.packets[i].dir = d /\ input.packets[i].data # << >>
          BY <2>2, <3>2, <4>2, <1>2 DEF BaseInv, PacketsOK
        <5>2. i \in Segments(d) \ deleted_indices
          BY <3>2, <5>1, <1>2 DEF Segments
        <5> QED BY <2>1, <3>2, <5>2 DEF AdjustedOK
      <4> QED BY <4>1, <4>2
    <3>3. CASE packet \in Range(insert_after[i])
      <4>1. PICK inserts \in Seq(Packet) : inserts = insert_after[i]
        BY <1>2 DEF BaseInv, InsertsOK
      <4>2. PICK n \in 1 .. Len(inserts) : packet = inserts[n]
        BY <3>3, <4>1, LenProperties DEF Range
      <4> QED BY <2>2, <4>1, <4>2, <1>2 DEF InsertedInv
    <3>4. \/ packet \in Range(output)
          \/ packet = packets[i] /\ i \notin deleted_indices
          \/ packet \in Range(insert_after[i])
      BY <1>3, <1>4, <2>2
    <3> QED BY <3>1, <3>2, <3>3, <3>4
  <2>3. \A pos : HeldByInsert(d, pos)' = HeldByInsert(d, pos)
    BY <1>1, HeldFrame
  <2> QED BY <1>1, <1>5, <2>1, <2>2, <2>3 DEF AdjustedOK
<1>9. ASSUME NEW j \in Indices \ (todo' \cup deleted_indices)
      PROVE  packets[j] \in Range(output') /\ Range(insert_after[j]) \subseteq Range(output')
  <2>1. CASE j = i
    BY <2>1, <1>3
  <2>2. CASE j # i
    <3>1. j \in Indices \ (todo \cup deleted_indices)
      BY <2>2, <1>1
    <3>2. packets[j] \in Range(output) /\ Range(insert_after[j]) \subseteq Range(output)
      BY <3>1, <1>1, <1>2 DEF OutputInv
    <3> QED BY <3>2, <1>3
  <2> QED BY <2>1, <2>2
<1>10. OutputInv'
  BY <1>1, <1>5, <1>8, <1>9 DEF OutputInv
<1>11. WorkInv'
  BY <1>1 DEF WorkInv, KeptInv, FillInv, RemapInv, ExtraInv
<1> QED BY <1>6, <1>7, <1>10, <1>11 DEF OrdinaryInv

LEMMA OrdinaryStutter ==
  ASSUME OrdinaryInv, UNCHANGED vars
  PROVE  OrdinaryInv'
<1> USE DEF vars, plan
<1>1. /\ Indices' = Indices
      /\ \A d : /\ Base(d)' = Base(d) /\ NewBytes(d)' = NewBytes(d)
                /\ Segments(d)' = Segments(d)
      /\ \A k : NewPayload(k)' = NewPayload(k) /\ NewStart(k)' = NewStart(k)
      /\ \A k, m : InStreamOrder(k, m)' = InStreamOrder(k, m)
  BY InputFrame
<1>2. /\ Base(flow)' = Base(flow) /\ NewBytes(flow)' = NewBytes(flow)
      /\ Segments(flow)' = Segments(flow) /\ Primaries(flow)' = Primaries(flow)
  BY FlowSets
<1>3. FlowsInv' /\ FreshInv' /\ AnchorInv' /\ InsertedInv'
  <2>1. Planning' = Planning /\ \A d : Settled(d)' = Settled(d)
    BY DEF Planning, Settled, Waits, AtWork
  <2> QED BY <2>1, SegmentsFrame, QuietFrame, MergeFrame, SettledFrame, FreshFrame, AnchorFrame,
             InsertedFrame DEF OrdinaryInv, FlowsInv
<1>4. KeptInv'
  BY <1>1, <1>2 DEF OrdinaryInv, WorkInv, KeptInv
<1>5. \A pos : /\ HeldByPrimary(pos)' = HeldByPrimary(pos) /\ HeldByExtra(pos)' = HeldByExtra(pos)
  BY <1>2 DEF HeldByPrimary, HeldByExtra
<1>6. \A d, pos : HeldByInsert(d, pos)' = HeldByInsert(d, pos)
  BY HeldFrame
<1>7. FillInv'
  BY <1>2, <1>5 DEF OrdinaryInv, WorkInv, FillInv
<1>8. \A pos : HeldByInsert(flow, pos)' = HeldByInsert(flow, pos)
  BY <1>1, <1>2 DEF HeldByInsert
<1>9. RemapInv'
  BY <1>2, <1>5, <1>8 DEF OrdinaryInv, WorkInv, RemapInv
<1>10. ExtraInv'
  BY <1>2 DEF OrdinaryInv, WorkInv, ExtraInv
<1>11. \A d \in Directions : AdjustedOK(d) => AdjustedOK(d)'
  BY <1>1, <1>6 DEF AdjustedOK
<1>12. OutputInv'
  BY <1>1, <1>11 DEF OrdinaryInv, OutputInv
<1> QED BY <1>3, <1>4, <1>7, <1>9, <1>10, <1>12 DEF OrdinaryInv, WorkInv

-----------------------------------------------------------------------------
LEMMA OrdinaryNext ==
  ASSUME BaseInv, BaseInv', IsOrdinary, OrdinaryInv, [Next]_vars
  PROVE  OrdinaryInv'
<1>1. CASE UNCHANGED vars
  BY <1>1, OrdinaryStutter
<1>2. CASE BeginPreserve
  BY <1>2, OrdinaryBeginPreserve
<1>3. CASE DegradeFlow
  BY <1>3, OrdinaryDegradeFlow
<1>4. CASE EndPreserve
  BY <1>4, OrdinaryEndPreserve
<1>5. CASE BeginMerge
  BY <1>5, OrdinaryBeginMerge
<1>6. CASE ClonePiece
  BY <1>6, OrdinaryClonePiece
<1>7. CASE CloseFlow
  BY <1>7, OrdinaryCloseFlow
<1>8. CASE EndMerge
  BY <1>8, OrdinaryEndMerge
<1>9. CASE Adjust
  BY <1>9, OrdinaryAdjust
<1>10. ASSUME NEW k \in todo,
              \/ PreserveSegment(k) \/ FillSegment(k) \/ DeleteSegment(k)
              \/ RemapSegment(k) \/ DropRetransmission(k) \/ EmitPacket(k)
       PROVE  OrdinaryInv'
  BY <1>10, OrdinaryPreserveSegment, OrdinaryFillSegment, OrdinaryDeleteSegment,
     OrdinaryRemapSegment, OrdinaryDropRetransmission, OrdinaryEmitPacket
<1> QED BY <1>1, <1>2, <1>3, <1>4, <1>5, <1>6, <1>7, <1>8, <1>9, <1>10 DEF Next

\* The input never changes, and whether its flows are ordinary is a matter of the input.
LEMMA StaysOrdinary ==
  ASSUME [Next]_vars
  PROVE  IsOrdinary' => IsOrdinary
<1>1. input' = input
  BY DEF Next, vars, BeginPreserve, DegradeFlow, EndPreserve, BeginMerge, ClonePiece, CloseFlow,
     EndMerge, Adjust, PreserveSegment, FillSegment, DeleteSegment, RemapSegment,
     DropRetransmission, EmitPacket
<1>2. \A d : IsCaptured(d)' = IsCaptured(d)
  BY <1>1, InputFrame DEF IsCaptured
<1>3. \A d : CanKeepPackets(d)' = CanKeepPackets(d)
  BY <1>1, InputFrame, PrimaryFrame DEF CanKeepPackets
<1> QED BY <1>1, <1>2, <1>3, InputFrame DEF IsOrdinary

(***************************************************************************)
(* For ordinary flows the plan does what it is for, in every state.        *)
(***************************************************************************)
THEOREM OrdinaryFlowsAreRewritten == Spec => [](BaseInv /\ (IsOrdinary => OrdinaryInv))
<1> DEFINE IInv == BaseInv /\ (IsOrdinary => OrdinaryInv)
<1>1. Init => IInv
  BY BaseInit, OrdinaryInit
<1>2. IInv /\ BaseInv' /\ [Next]_vars => IInv'
  BY OrdinaryNext, StaysOrdinary
<1>3. Spec => []BaseInv
  BY PlanIsWellFormed
<1> QED BY <1>1, <1>2, <1>3, PTL DEF Spec

-----------------------------------------------------------------------------
(***************************************************************************)
(* What the plan promises of the output.                                   *)
(***************************************************************************)
\* The number of a packet gives back where its payload is in the new stream.
LEMMA CarriedBytes ==
  ASSUME NEW base \in SeqNumbers, NEW bytes \in Seq(Bytes), Len(bytes) <= SeqHalf,
         NEW seq \in SeqNumbers, NEW data \in Seq(Bytes), data # << >>,
         Carries(base, bytes, seq, data)
  PROVE  /\ SeqOffset(seq, base) # NoOffset
         /\ data = Slice(bytes, SeqOffset(seq, base), SeqOffset(seq, base) + Len(data))
<1>1. PICK off \in Nat : /\ seq = SeqAdd(base, off)
                         /\ off + Len(data) <= Len(bytes)
                         /\ \A n \in 1 .. Len(data) : data[n] = bytes[off + n]
  BY DEF Carries
<1>2. PICK size \in Nat : size = Len(data) /\ size # 0
  BY EmptySeq
<1>3. PICK len \in Nat : len = Len(bytes)
  OBVIOUS
<1>4. off + size <= len /\ len <= SeqHalf
  BY <1>1, <1>2, <1>3
<1>5. off \in 0 .. SeqHalf - 1
  BY <1>2, <1>4, SeqHalfAssumption
<1>6. SeqOffset(seq, base) = off /\ off # NoOffset
  BY <1>1, <1>5, OffsetOfAdd DEF NoOffset
<1>7. PICK to \in Nat : to = off + size
  OBVIOUS
<1>8. /\ Slice(bytes, off, to) \in Seq(Bytes) /\ Len(Slice(bytes, off, to)) = to - off
      /\ \A n \in 1 .. to - off : Slice(bytes, off, to)[n] = bytes[off + n]
  <2>1. off <= to /\ to <= Len(bytes)
    BY <1>2, <1>3, <1>4, <1>7
  <2> QED BY <2>1, SliceWithin
<1>9. PICK slice \in Seq(Bytes) : slice = Slice(bytes, off, to)
  BY <1>8
<1>10. Len(slice) = size /\ \A n \in 1 .. size : slice[n] = data[n]
  <2>1. to - off = size
    BY <1>7
  <2> QED BY <2>1, <1>1, <1>2, <1>8, <1>9
<1>11. data = slice
  BY <1>2, <1>10, SeqEqual
<1> QED BY <1>2, <1>6, <1>7, <1>9, <1>11

LEMMA HitBytes ==
  ASSUME NEW base \in SeqNumbers, NEW seq, NEW data, NEW pos \in Nat, pos < SeqHalf,
         Hits(base, seq, data, pos)
  PROVE  SeqOffset(seq, base) <= pos /\ pos < SeqOffset(seq, base) + Len(data)
<1>1. PICK off \in Nat : seq = SeqAdd(base, off) /\ off <= pos /\ pos < off + Len(data)
  BY DEF Hits
<1>2. off \in 0 .. SeqHalf - 1
  BY <1>1, SeqHalfAssumption
<1>3. SeqOffset(seq, base) = off
  BY <1>1, <1>2, OffsetOfAdd
<1> QED BY <1>1, <1>3

LEMMA EmittedBytes ==
  ASSUME BaseInv, IsOrdinary, OrdinaryInv
  PROVE  EmittedBytesAreNewStream
<1> SUFFICES ASSUME Done, NEW packet \in Range(output), packet.data # << >>
             PROVE  /\ OffsetOf(packet) # NoOffset
                    /\ packet.data = Slice(NewBytes(packet.dir), OffsetOf(packet), EndOf(packet))
  BY DEF EmittedBytesAreNewStream
<1>1. packet \in Packet
  <2>1. output \in Seq(Packet)
    BY DEF BaseInv, InsertsOK
  <2> QED BY <2>1, LenProperties DEF Range
<1>2. PICK d \in Directions : d = packet.dir
  BY <1>1, PacketFields
<1>3. /\ packet.seq \in SeqNumbers /\ packet.data \in Seq(Bytes)
      /\ Base(d) \in SeqNumbers /\ NewBytes(d) \in Seq(Bytes) /\ Len(NewBytes(d)) <= SeqHalf
  BY <1>1, PacketFields, InputFacts, NewBytesType DEF BaseInv, IsOrdinary
<1>4. Carries(Base(d), NewBytes(d), packet.seq, packet.data)
  BY <1>2 DEF Done, OrdinaryInv, OutputInv, AdjustedOK
<1>5. /\ SeqOffset(packet.seq, Base(d)) # NoOffset
      /\ packet.data = Slice(NewBytes(d), SeqOffset(packet.seq, Base(d)),
                             SeqOffset(packet.seq, Base(d)) + Len(packet.data))
  BY <1>3, <1>4, CarriedBytes
<1> QED BY <1>2, <1>5 DEF OffsetOf, EndOf

LEMMA NewBytesEmitted ==
  ASSUME BaseInv, IsOrdinary, OrdinaryInv
  PROVE  EveryNewByteIsEmitted
<1> SUFFICES ASSUME Done, NEW d \in Directions, NEW pos \in 0 .. Len(NewBytes(d)) - 1
             PROVE  \E packet \in Range(output) :
                      packet.dir = d /\ OffsetOf(packet) <= pos /\ pos < EndOf(packet)
  BY DEF EveryNewByteIsEmitted
<1>1. /\ todo = {} /\ AdjustedOK(d) /\ Base(d) \in SeqNumbers
      /\ \A i \in Indices \ deleted_indices :
           packets[i] \in Range(output) /\ Range(insert_after[i]) \subseteq Range(output)
  BY InputFacts DEF Done, BaseInv, TodoOK, OrdinaryInv, OutputInv
<1>2. PICK len \in Nat : len = Len(NewBytes(d))
  BY NewBytesType DEF BaseInv
<1>3. len <= SeqHalf
  BY <1>2 DEF IsOrdinary
<1>4. pos \in Nat /\ pos < len /\ pos < SeqHalf
  BY <1>2, <1>3, SeqHalfAssumption
<1>5. \/ \E k \in Segments(d) \ deleted_indices :
           Hits(Base(d), packets[k].seq, packets[k].data, pos)
      \/ HeldByInsert(d, pos)
  BY <1>1, <1>2, <1>4 DEF AdjustedOK
<1>6. ASSUME NEW packet \in Range(output), packet.dir = d,
             Hits(Base(d), packet.seq, packet.data, pos)
      PROVE  OffsetOf(packet) <= pos /\ pos < EndOf(packet)
  BY <1>1, <1>4, <1>6, HitBytes DEF OffsetOf, EndOf
<1>7. ASSUME NEW k \in Segments(d) \ deleted_indices,
             Hits(Base(d), packets[k].seq, packets[k].data, pos)
      PROVE  packets[k] \in Range(output) /\ packets[k].dir = d
  <2>1. k \in Indices /\ input.packets[k].dir = d
    BY DEF Segments
  <2>2. packets[k].dir = d
    BY <2>1 DEF BaseInv, PacketsOK
  <2> QED BY <1>1, <1>7, <2>1, <2>2
<1>8. ASSUME NEW i \in Indices \ deleted_indices, NEW n \in 1 .. Len(insert_after[i])
      PROVE  insert_after[i][n] \in Range(output)
  <2>1. PICK inserts \in Seq(Packet) : inserts = insert_after[i]
    BY DEF BaseInv, InsertsOK
  <2>2. inserts[n] \in Range(inserts)
    BY <2>1, LenProperties DEF Range
  <2> QED BY <1>1, <2>1, <2>2
<1>9. CASE HeldByInsert(d, pos)
  <2>1. PICK i \in Indices \ deleted_indices :
          \E n \in 1 .. Len(insert_after[i]) :
            /\ insert_after[i][n].dir = d
            /\ Hits(Base(d), insert_after[i][n].seq, insert_after[i][n].data, pos)
    BY <1>9 DEF HeldByInsert
  <2>2. PICK n \in 1 .. Len(insert_after[i]) :
          /\ insert_after[i][n].dir = d
          /\ Hits(Base(d), insert_after[i][n].seq, insert_after[i][n].data, pos)
    BY <2>1
  <2> QED BY <2>2, <1>6, <1>8
<1> QED BY <1>5, <1>6, <1>7, <1>9

(***************************************************************************)
(* For ordinary flows, and any number of packets, edits and bytes: the     *)
(* plan is well formed in every state, and no packet is inserted behind    *)
(* one that build_output_packets leaves out.                               *)
(***************************************************************************)
THEOREM PlanHolds == Spec => [](IsOrdinary => PlanInv)
<1> DEFINE IInv == BaseInv /\ (IsOrdinary => OrdinaryInv)
<1>1. IInv => (IsOrdinary => PlanInv)
  <2> SUFFICES ASSUME BaseInv, OrdinaryInv PROVE PlanInv
    OBVIOUS
  <2>1. InsertAnchorsStay
    BY DEF BaseInv, InsertsOK, OrdinaryInv, AnchorInv, InsertAnchorsStay
  <2> QED BY <2>1, BaseInvTypes DEF PlanInv
<1> QED BY <1>1, OrdinaryFlowsAreRewritten, PTL

(***************************************************************************)
(* For ordinary flows, and any number of packets, edits and bytes: what is *)
(* written to the file carries the new stream of each direction, all of it *)
(* and nothing else, whichever packets were filled, cloned, deleted or     *)
(* remapped on the way.                                                    *)
(***************************************************************************)
THEOREM OutputCarriesNewStreams == Spec => [](IsOrdinary => NewStreamsAreEmitted)
<1> DEFINE IInv == BaseInv /\ (IsOrdinary => OrdinaryInv)
<1>1. IInv => (IsOrdinary => NewStreamsAreEmitted)
  BY EmittedBytes, NewBytesEmitted DEF NewStreamsAreEmitted
<1> QED BY <1>1, OrdinaryFlowsAreRewritten, PTL

-----------------------------------------------------------------------------
(***************************************************************************)
(* Where the FINs are.  A place is a packet, or one inserted behind it.    *)
(***************************************************************************)
PacketAt(i, n) == IF n = 0 THEN packets[i] ELSE insert_after[i][n]

IsFinPlace(d, i, n) ==
  /\ i \notin deleted_indices /\ n \in 0 .. Len(insert_after[i])
  /\ PacketAt(i, n).dir = d /\ PacketAt(i, n).fin

HasNoFinAt(d, i) == \A n \in 0 .. Len(insert_after[i]) : ~IsFinPlace(d, i, n)

SegmentFins(d) == {k \in Segments(d) : input.packets[k].fin}

\* A payload that ends with the first pos bytes of a stream.
Reaches(base, pos, seq, data) ==
  \E off \in Nat : seq = SeqAdd(base, off) /\ off + Len(data) = pos

PlannedSeqAt(d, i, n) == IF n = 0 THEN PlannedSeq(d, i) ELSE insert_after[i][n].seq

\* Packets without payload, and what is inserted behind them or another flow's segments.
UntouchedInv ==
  /\ Planning =>
       \A i \in Indices : input.packets[i].data = << >> => packets[i] = input.packets[i]
  /\ \A i \in deleted_indices : input.packets[i].data = << >> => ~input.packets[i].fin
  /\ \A d \in Directions : \A i \in Indices \ Segments(d) :
       \A n \in 1 .. Len(insert_after[i]) :
         insert_after[i][n].dir = d => ~insert_after[i][n].fin

\* The segments of a flow that is not closed have the flags they came with.
FlagsWait(d) ==
  Waits(d) \/ (AtWork(d) /\ phase \in {"preserve", "fill"}) =>
    \A k \in Segments(d) : packets[k].fin = input.packets[k].fin

\* A closed flow has its FIN once more, if it had one, and behind its last byte.
OneFin(d) ==
  /\ SegmentFins(d) = {} => \A k \in Segments(d) : HasNoFinAt(d, k)
  /\ SegmentFins(d) # {} =>
       \E last \in Segments(d) : \E m \in 0 .. Len(insert_after[last]) :
         \A k \in Segments(d) : \A n \in 0 .. Len(insert_after[k]) :
           IsFinPlace(d, k, n) <=> k = last /\ n = m

FinsAtEnd(d) ==
  \A k \in Segments(d) : \A n \in 0 .. Len(insert_after[k]) :
    IsFinPlace(d, k, n) =>
      Reaches(Base(d), Len(NewBytes(d)), PlannedSeqAt(d, k, n), PacketAt(k, n).data)

FlagsMoved(d) ==
  Settled(d) \/ (AtWork(d) /\ phase = "remap") => OneFin(d) /\ FinsAtEnd(d)

\* While packets are filled, the last one written ends where the cursor is.
FlagsFillInv ==
  phase = "fill" =>
    /\ Range(filled) = Primaries(flow) \ (todo \cup deleted_indices)
    /\ extra_packets = << >> /\ cursor # 0 =>
         /\ filled # << >>
         /\ Reaches(Base(flow), cursor, packet_new_seq[Last(filled)], packets[Last(filled)].data)
    /\ extra_packets # << >> =>
         /\ Last(extra_packets).dir = flow
         /\ Reaches(Base(flow), cursor, Last(extra_packets).seq, Last(extra_packets).data)
    /\ \A n \in 1 .. Len(extra_packets) : extra_packets[n].dir # flow => ~extra_packets[n].fin

FlagsRemapInv == phase = "remap" => \A k \in todo : ~packets[k].fin

FlagsInv ==
  /\ UntouchedInv /\ FlagsFillInv /\ FlagsRemapInv
  /\ \A d \in Directions : FlagsWait(d) /\ FlagsMoved(d)

-----------------------------------------------------------------------------
\* A flow has at most one segment with a FIN, the last one to have new bytes.
LEMMA FinIsUnique ==
  ASSUME IsInput(input), NEW d \in Directions, FinComesLast(d),
         NEW k \in SegmentFins(d), NEW m \in SegmentFins(d)
  PROVE  k = m
<1>1. /\ k \in Segments(d) /\ m \in Segments(d)
      /\ k \in Fins(d, input.packets) /\ m \in Fins(d, input.packets)
  BY DEF SegmentFins, Segments, Fins, Indices
<1>2. /\ k \in Primaries(d) /\ m \in Primaries(d)
      /\ \A j \in Primaries(d) \ {k} : InStreamOrder(j, k)
      /\ \A j \in Primaries(d) \ {m} : InStreamOrder(j, m)
  BY <1>1 DEF FinComesLast
<1>3. /\ k \in Nat /\ m \in Nat
      /\ OldStart(k) \in 0 .. SeqHalf - 1 /\ OldStart(m) \in 0 .. SeqHalf - 1
  BY <1>1, SegmentFacts
<1> SUFFICES ASSUME k # m PROVE FALSE
  OBVIOUS
<1>4. InStreamOrder(m, k) /\ InStreamOrder(k, m)
  BY <1>2
<1> QED BY <1>3, <1>4, SeqHalfAssumption DEF InStreamOrder

LEMMA FinOfLastPrimary ==
  ASSUME IsInput(input), flow \in Directions, FinComesLast(flow), NEW k \in SegmentFins(flow)
  PROVE  k = LastPrimary /\ LastPrimary \in Segments(flow) /\ NewBytes(flow) # << >>
<1>1. k \in Segments(flow) /\ k \in Fins(flow, input.packets)
  BY DEF SegmentFins, Segments, Fins, Indices
<1>2. /\ k \in Primaries(flow) /\ \A m \in Primaries(flow) \ {k} : InStreamOrder(m, k)
      /\ NewBytes(flow) # << >>
  BY <1>1 DEF FinComesLast
<1>3. PICK last : last = LastPrimary
  OBVIOUS
<1>4. last \in Primaries(flow) /\ \A m \in Primaries(flow) \ {last} : InStreamOrder(m, last)
  BY <1>2, <1>3 DEF LastPrimary
<1>5. k \in Segments(flow) /\ last \in Segments(flow)
  BY <1>1, <1>4 DEF Primaries
<1>6. /\ k \in Nat /\ last \in Nat
      /\ OldStart(k) \in 0 .. SeqHalf - 1 /\ OldStart(last) \in 0 .. SeqHalf - 1
  BY <1>5, SegmentFacts
<1>7. k = last
  <2> SUFFICES ASSUME k # last PROVE FALSE
    OBVIOUS
  <2>1. InStreamOrder(last, k) /\ InStreamOrder(k, last)
    BY <1>2, <1>4
  <2> QED BY <2>1, <1>6, SeqHalfAssumption DEF InStreamOrder
<1> QED BY <1>2, <1>3, <1>5, <1>7

\* A segment with a FIN ends its stream, and so does what it is rewritten to.
LEMMA FinSegmentEnds ==
  ASSUME IsInput(input), NEW d \in Directions, FinComesLast(d), NEW k \in SegmentFins(d)
  PROVE  Reaches(Base(d), Len(NewBytes(d)), SeqAdd(Base(d), NewStart(k)), NewPayload(k))
<1>1. k \in Segments(d) /\ k \in Fins(d, input.packets)
  BY DEF SegmentFins, Segments, Fins, Indices
<1>2. input.packets[k].dir = d
  BY <1>1 DEF Segments
<1>3. EndOf(input.packets[k]) = OldEnd(k)
  BY <1>2 DEF EndOf, OffsetOf, OldEnd, OldStart
<1>4. OldEnd(k) = input.old_len[d]
  BY <1>1, <1>3 DEF FinComesLast
<1>5. NewEnd(k) = Len(NewBytes(d))
  <2>1. NewEnd(k) = MapOffset(input.old_len[d], Edits(d))
    BY <1>2, <1>4 DEF NewEnd
  <2> QED BY <2>1, InputFacts, EndLandsAtEnd DEF NewBytes
<1>6. NewStart(k) \in Nat /\ NewEnd(k) \in Nat /\ Len(NewPayload(k)) = NewEnd(k) - NewStart(k)
  BY <1>1, NewSegmentFacts
<1>7. NewStart(k) + Len(NewPayload(k)) = Len(NewBytes(d))
  BY <1>5, <1>6
<1> QED BY <1>6, <1>7 DEF Reaches

\* A flow whose segments have kept their flags, and are all there.
LEMMA FlagsAtHome ==
  ASSUME BaseInv, NEW d \in Directions, FinComesLast(d),
         \A k \in Segments(d) : /\ packets[k].fin = input.packets[k].fin
                                /\ k \notin deleted_indices /\ insert_after[k] = << >>
                                /\ packets[k].data = NewPayload(k)
                                /\ PlannedSeq(d, k) = SeqAdd(Base(d), NewStart(k))
  PROVE  OneFin(d) /\ FinsAtEnd(d)
<1>1. IsInput(input)
  BY DEF BaseInv
<1>2. ASSUME NEW k \in Segments(d), NEW n \in 0 .. Len(insert_after[k])
      PROVE  n = 0 /\ (IsFinPlace(d, k, n) <=> k \in SegmentFins(d))
  <2>1. Len(insert_after[k]) = 0 /\ 0 .. 0 = {0}
    OBVIOUS
  <2>2. k \in Indices /\ input.packets[k].dir = d
    BY DEF Segments
  <2>3. packets[k].dir = d
    BY <2>2 DEF BaseInv, PacketsOK
  <2>4. n = 0
    BY <2>1
  <2> QED BY <2>1, <2>3, <2>4 DEF IsFinPlace, PacketAt, SegmentFins
<1>3. OneFin(d)
  <2>1. CASE SegmentFins(d) = {}
    BY <2>1, <1>2 DEF OneFin, HasNoFinAt
  <2>2. CASE SegmentFins(d) # {}
    <3>1. PICK last \in SegmentFins(d) : \A k \in SegmentFins(d) : k = last
      BY <2>2, <1>1, FinIsUnique
    <3>2. last \in Segments(d)
      BY DEF SegmentFins
    <3>3. 0 \in 0 .. Len(insert_after[last])
      <4>1. Len(insert_after[last]) = 0
        BY <3>2
      <4> QED BY <4>1
    <3>4. \A k \in Segments(d) : \A n \in 0 .. Len(insert_after[k]) :
            IsFinPlace(d, k, n) <=> k = last /\ n = 0
      BY <3>1, <1>2
    <3> QED BY <2>2, <3>2, <3>3, <3>4 DEF OneFin
  <2> QED BY <2>1, <2>2
<1>4. FinsAtEnd(d)
  <2> SUFFICES ASSUME NEW k \in Segments(d), NEW n \in 0 .. Len(insert_after[k]),
                      IsFinPlace(d, k, n)
               PROVE  Reaches(Base(d), Len(NewBytes(d)), PlannedSeqAt(d, k, n),
                              PacketAt(k, n).data)
    BY DEF FinsAtEnd
  <2>1. n = 0 /\ k \in SegmentFins(d)
    BY <1>2
  <2>2. Reaches(Base(d), Len(NewBytes(d)), SeqAdd(Base(d), NewStart(k)), NewPayload(k))
    BY <2>1, <1>1, FinSegmentEnds
  <2> QED BY <2>1, <2>2 DEF PlannedSeqAt, PacketAt
<1> QED BY <1>3, <1>4

(***************************************************************************)
(* A step that leaves the FINs of a flow where they are.                   *)
(***************************************************************************)
KeepsPlaces(d, k) ==
  /\ packets'[k] = packets[k] /\ insert_after'[k] = insert_after[k]
  /\ k \in deleted_indices' <=> k \in deleted_indices
  /\ PlannedSeq(d, k)' = PlannedSeq(d, k)

LEMMA FinsStay ==
  ASSUME input' = input, NEW d \in Directions, OneFin(d), FinsAtEnd(d),
         \A k \in Segments(d) : KeepsPlaces(d, k) \/ (HasNoFinAt(d, k) /\ HasNoFinAt(d, k)')
  PROVE  OneFin(d)' /\ FinsAtEnd(d)'
<1>1. /\ Segments(d)' = Segments(d) /\ Base(d)' = Base(d) /\ NewBytes(d)' = NewBytes(d)
  BY InputFrame
<1>2. SegmentFins(d)' = SegmentFins(d)
  BY <1>1 DEF SegmentFins
<1>3. ASSUME NEW k \in Segments(d), KeepsPlaces(d, k)
      PROVE  /\ insert_after'[k] = insert_after[k]
             /\ \A n : /\ IsFinPlace(d, k, n)' <=> IsFinPlace(d, k, n)
                       /\ PacketAt(k, n)' = PacketAt(k, n)
                       /\ PlannedSeqAt(d, k, n)' = PlannedSeqAt(d, k, n)
  BY <1>3 DEF KeepsPlaces, IsFinPlace, PacketAt, PlannedSeqAt
<1>4. CASE SegmentFins(d) = {}
  <2>1. \A k \in Segments(d) : HasNoFinAt(d, k)'
    BY <1>3, <1>4 DEF OneFin, HasNoFinAt
  <2> QED BY <1>1, <1>2, <1>4, <2>1 DEF OneFin, FinsAtEnd, HasNoFinAt
<1>5. CASE SegmentFins(d) # {}
  <2>1. PICK last \in Segments(d) : \E m \in 0 .. Len(insert_after[last]) :
          \A k \in Segments(d) : \A n \in 0 .. Len(insert_after[k]) :
            IsFinPlace(d, k, n) <=> k = last /\ n = m
    BY <1>5 DEF OneFin
  <2>2. PICK m \in 0 .. Len(insert_after[last]) :
          \A k \in Segments(d) : \A n \in 0 .. Len(insert_after[k]) :
            IsFinPlace(d, k, n) <=> k = last /\ n = m
    BY <2>1
  <2>3. ~HasNoFinAt(d, last)
    BY <2>2 DEF HasNoFinAt
  <2>4. KeepsPlaces(d, last)
    BY <2>3
  <2>5. insert_after'[last] = insert_after[last] /\ m \in 0 .. Len(insert_after'[last])
    BY <1>3, <2>4
  <2>6. ASSUME NEW k \in Segments(d), NEW n \in 0 .. Len(insert_after'[k])
        PROVE  /\ IsFinPlace(d, k, n)' <=> k = last /\ n = m
               /\ IsFinPlace(d, k, n)' =>
                    Reaches(Base(d), Len(NewBytes(d)), PlannedSeqAt(d, k, n)', PacketAt(k, n)'.data)
    <3>1. CASE KeepsPlaces(d, k)
      BY <3>1, <1>3, <2>2 DEF FinsAtEnd
    <3>2. CASE ~KeepsPlaces(d, k)
      BY <3>2, <2>4 DEF HasNoFinAt
    <3> QED BY <3>1, <3>2
  <2>7. OneFin(d)'
    BY <1>1, <1>2, <1>5, <2>5, <2>6 DEF OneFin
  <2>8. FinsAtEnd(d)'
    BY <1>1, <2>6 DEF FinsAtEnd
  <2> QED BY <2>7, <2>8
<1> QED BY <1>4, <1>5

-----------------------------------------------------------------------------
(***************************************************************************)
(* The FIN flags of cloned, closed and remapped packets.                   *)
(***************************************************************************)
LEMMA ClonedAckHasNoFin ==
  ASSUME BaseInv, NEW k, NEW ack_offset \in Nat, NEW n \in DOMAIN ClonedAck(k, ack_offset)
  PROVE  ~ClonedAck(k, ack_offset)[n].fin
<1>1. Templates(k) # {}
  <2> SUFFICES ASSUME Templates(k) = {} PROVE FALSE
    OBVIOUS
  <2>1. ClonedAck(k, ack_offset) = << >> /\ DOMAIN << >> = {}
    BY EmptySeq DEF ClonedAck
  <2> QED BY <2>1
<1>2. Templates(k) \subseteq Indices /\ IsInput(input)
  BY DEF Templates, BaseInv
<1> DEFINE later == {j \in Templates(k) : k < j}
<1>3. PICK t \in Templates(k) : t = IF later # {} THEN Min(later) ELSE Max(Templates(k))
  <2>1. CASE later # {}
    <3>1. Min(later) \in later
      BY <1>2, <2>1, LeastAndGreatest
    <3> QED BY <2>1, <3>1
  <2>2. CASE later = {}
    BY <1>1, <1>2, <2>2, LeastAndGreatest
  <2> QED BY <2>1, <2>2
<1>4. PICK seq : seq = SeqAdd(Base(flow), ack_offset)
  OBVIOUS
<1>5. PICK clone : clone = [packets[t] EXCEPT !.ack = seq]
  OBVIOUS
<1>6. ClonedAck(k, ack_offset) = <<clone>>
  BY <1>1, <1>3, <1>4, <1>5 DEF ClonedAck
<1>7. packets[t] \in Packet /\ ~packets[t].fin
  BY <1>2, <1>3 DEF Templates, IsPureAck, BaseInv, PacketsOK
<1>8. ~clone.fin
  BY <1>5, <1>7 DEF Packet
<1> QED BY <1>6, <1>8

LEMMA EndFlags ==
  ASSUME NEW packet \in Packet, NEW last \in Packet
  PROVE  EndFlagsOf(packet, last).fin = last.fin /\ ~WithoutEndFlags(packet).fin
BY DEF EndFlagsOf, WithoutEndFlags, Packet

LEMMA FilledFins ==
  ASSUME BaseInv, packets[LastPrimary] \in Packet, NEW i \in Indices
  PROVE  /\ i \notin Range(filled) => EndFlagsOnFilled[i] = packets[i]
         /\ i \in Range(filled) /\ extra_packets = << >> /\ i = Last(filled) =>
              EndFlagsOnFilled[i].fin = packets[LastPrimary].fin
         /\ i \in Range(filled) /\ ~(extra_packets = << >> /\ i = Last(filled)) =>
              ~EndFlagsOnFilled[i].fin
<1>1. PICK last \in Packet : last = packets[LastPrimary]
  OBVIOUS
<1>2. PICK packet \in Packet : packet = packets[i]
  BY DEF BaseInv, PacketsOK
<1>3. CASE i \notin Range(filled)
  BY <1>3 DEF EndFlagsOnFilled
<1>4. CASE i \in Range(filled) /\ extra_packets = << >> /\ i = Last(filled)
  <2>1. EndFlagsOnFilled[i] = EndFlagsOf(packet, last)
    BY <1>1, <1>2, <1>4 DEF EndFlagsOnFilled
  <2> QED BY <2>1, <1>1, <1>4, EndFlags
<1>5. CASE i \in Range(filled) /\ ~(extra_packets = << >> /\ i = Last(filled))
  <2>1. EndFlagsOnFilled[i] = WithoutEndFlags(packet)
    BY <1>1, <1>2, <1>5 DEF EndFlagsOnFilled
  <2> QED BY <2>1, <1>1, <1>5, EndFlags
<1> QED BY <1>3, <1>4, <1>5

LEMMA PiecesFins ==
  ASSUME BaseInv, packets[LastPrimary] \in Packet, NEW n \in 1 .. Len(extra_packets)
  PROVE  /\ extra_packets[n].dir # flow => EndFlagsOnPieces[n] = extra_packets[n]
         /\ extra_packets[n].dir = flow /\ n = Len(extra_packets) =>
              EndFlagsOnPieces[n].fin = packets[LastPrimary].fin
         /\ extra_packets[n].dir = flow /\ n # Len(extra_packets) => ~EndFlagsOnPieces[n].fin
<1>1. PICK last \in Packet : last = packets[LastPrimary]
  OBVIOUS
<1>2. PICK extra \in Seq(Packet) : extra = extra_packets
  BY DEF BaseInv, InsertsOK
<1>3. DOMAIN extra = 1 .. Len(extra)
  OBVIOUS
<1>4. PICK packet \in Packet : packet = extra[n]
  BY <1>2
<1>5. CASE packet.dir # flow
  BY <1>2, <1>3, <1>4, <1>5 DEF EndFlagsOnPieces
<1>6. CASE packet.dir = flow /\ n = Len(extra)
  <2>1. EndFlagsOnPieces[n] = EndFlagsOf(packet, last)
    BY <1>1, <1>2, <1>3, <1>4, <1>6 DEF EndFlagsOnPieces
  <2> QED BY <2>1, <1>1, <1>2, <1>4, <1>6, EndFlags
<1>7. CASE packet.dir = flow /\ n # Len(extra)
  <2>1. EndFlagsOnPieces[n] = WithoutEndFlags(packet)
    BY <1>1, <1>2, <1>3, <1>4, <1>7 DEF EndFlagsOnPieces
  <2> QED BY <2>1, <1>1, <1>2, <1>4, <1>7, EndFlags
<1> QED BY <1>2, <1>4, <1>5, <1>6, <1>7

\* What CloseFlow inserts: the pieces, and behind them at most a cloned ACK.
LEMMA ClosingFins ==
  ASSUME BaseInv, OrdinaryInv, CloseFlow, extra_packets # << >>
  PROVE  /\ Len(extra_packets) <= Len(insert_after'[LastPrimary])
         /\ \A n \in 1 .. Len(insert_after'[LastPrimary]) :
              IF n \in 1 .. Len(extra_packets)
              THEN insert_after'[LastPrimary][n] = EndFlagsOnPieces[n]
              ELSE ~insert_after'[LastPrimary][n].fin
<1>1. phase = "fill"
  BY DEF CloseFlow
<1>2. /\ packets[LastPrimary] \in Packet /\ IsInput(input) /\ flow \in Directions
      /\ LastPrimary \in Indices /\ insert_after[LastPrimary] = << >>
  BY <1>1, FlowAtWork DEF OrdinaryInv, WorkInv, FillInv
<1>3. PICK pieces \in Seq(Packet) :
        pieces = EndFlagsOnPieces /\ Len(pieces) = Len(extra_packets)
  BY <1>2, PiecesKeep
<1>4. PICK end \in Nat : end = Len(NewBytes(flow))
  BY <1>2, NewBytesType
<1>5. PICK trailing \in Seq(Packet) :
        /\ trailing = IF AcksInWindow(LastPrimary) = {} THEN ClonedAck(LastPrimary, end)
                      ELSE << >>
        /\ \A n \in DOMAIN trailing : ~trailing[n].fin
  <2>1. CASE AcksInWindow(LastPrimary) = {}
    BY <2>1, ClonedAckFacts, ClonedAckHasNoFin
  <2>2. CASE AcksInWindow(LastPrimary) # {}
    <3>1. << >> \in Seq(Packet) /\ DOMAIN << >> = {}
      BY EmptySeq
    <3> QED BY <2>2, <3>1
  <2> QED BY <2>1, <2>2
<1>6. insert_after' = [insert_after EXCEPT ![LastPrimary] = @ \o pieces \o trailing]
  BY <1>3, <1>4, <1>5 DEF CloseFlow
<1>7. PICK s \in Seq(Packet) : s = pieces \o trailing /\ Joins(s, pieces, trailing)
  BY ConcatenationFacts
<1>8. (<< >> \o pieces) \o trailing = s
  BY <1>7, ConcatEmptySeq
<1>9. insert_after'[LastPrimary] = s
  BY <1>2, <1>6, <1>8 DEF BaseInv, InsertsOK
<1>10. \A n \in 1 .. Len(extra_packets) : n \in 1 .. Len(s) /\ s[n] = pieces[n]
  BY <1>3, <1>7 DEF Joins
<1>11. ASSUME NEW n \in 1 .. Len(s), n \notin 1 .. Len(extra_packets)
       PROVE  ~s[n].fin
  <2>1. PICK m \in 1 .. Len(trailing) : n = Len(pieces) + m
    BY <1>3, <1>7, <1>11 DEF Joins
  <2>2. s[n] = trailing[m] /\ m \in DOMAIN trailing
    BY <2>1, <1>7, LenProperties DEF Joins
  <2> QED BY <2>2, <1>5
<1>12. Len(extra_packets) <= Len(s)
  BY <1>3, <1>7, LenProperties DEF Joins
<1> QED BY <1>3, <1>9, <1>10, <1>11, <1>12

LEMMA RemappedHasNoFin ==
  ASSUME BaseInv, NEW k \in Segments(flow), ~packets[k].fin, NEW n \in DOMAIN Pieces(k)
  PROVE  ~Pieces(k)[n].fin
<1>1. PICK old \in Packet : old = packets[k] /\ ~old.fin
  BY DEF BaseInv, PacketsOK, Segments
<1> DEFINE capacity == input.capacity[k]
           count == (Len(NewPayload(k)) + capacity - 1) \div capacity
           At(j) == WithPayload(packets[k], SeqAdd(Base(flow), NewStart(k) + (j - 1) * capacity),
                                Slice(NewPayload(k), (j - 1) * capacity, j * capacity))
<1>2. Pieces(k) = [j \in 1 .. count |-> IF count = 1 THEN At(j) ELSE WithoutEndFlags(At(j))]
  BY DEF Pieces
<1>3. PICK seq, data : At(n) = WithPayload(old, seq, data)
  BY <1>1
<1>4. PICK piece : piece = At(n)
  OBVIOUS
<1>5. ~piece.fin /\ ~WithoutEndFlags(piece).fin
  BY <1>1, <1>3, <1>4 DEF WithPayload, WithoutEndFlags, Packet
<1>6. Pieces(k)[n] = piece \/ Pieces(k)[n] = WithoutEndFlags(piece)
  BY <1>2, <1>4
<1> QED BY <1>5, <1>6

-----------------------------------------------------------------------------
(***************************************************************************)
(* The work on a flow leaves the FINs of the other one alone.              *)
(***************************************************************************)
OthersKeepFlags ==
  /\ \A i \in Indices \ Segments(flow) :
       /\ packets'[i] = packets[i] /\ insert_after'[i] = insert_after[i]
       /\ i \in DOMAIN packet_new_seq' <=> i \in DOMAIN packet_new_seq
       /\ i \in DOMAIN packet_new_seq => packet_new_seq'[i] = packet_new_seq[i]
  /\ deleted_indices \subseteq deleted_indices'
  /\ \A i \in deleted_indices' \ deleted_indices :
       i \in Segments(flow) \/ (packets[i].data = << >> /\ ~packets[i].fin)

ForeignInsertsHaveNoFin ==
  \A k \in Segments(flow) : \A n \in 1 .. Len(insert_after'[k]) :
    insert_after'[k][n].dir # flow => ~insert_after'[k][n].fin

WorksOn ==
  /\ UNCHANGED <<input, flow, preserve_flows, merged_flows>>
  /\ phase \in {"preserve", "fill", "remap"} /\ phase' \in {"preserve", "fill", "remap"}
  /\ OthersKeepFlags /\ ForeignInsertsHaveNoFin

LEMMA PlannedSeqFrame ==
  ASSUME input' = input, NEW d, NEW k,
         k \in DOMAIN packet_new_seq' <=> k \in DOMAIN packet_new_seq,
         k \in DOMAIN packet_new_seq => packet_new_seq'[k] = packet_new_seq[k]
  PROVE  PlannedSeq(d, k)' = PlannedSeq(d, k)
<1>1. Base(d)' = Base(d) /\ NewStart(k)' = NewStart(k)
  BY InputFrame
<1> QED BY <1>1 DEF PlannedSeq

LEMMA NothingInsertedHasNoFin ==
  ASSUME UNCHANGED <<insert_after>>, BaseInv, UntouchedInv
  PROVE  ForeignInsertsHaveNoFin
<1> SUFFICES ASSUME NEW k \in Segments(flow), NEW n \in 1 .. Len(insert_after[k]),
                    insert_after[k][n].dir # flow
             PROVE  ~insert_after[k][n].fin
  BY DEF ForeignInsertsHaveNoFin
<1>1. k \in Indices /\ input.packets[k].dir = flow
  BY DEF Segments
<1>2. PICK inserts \in Seq(Packet) : inserts = insert_after[k]
  BY <1>1 DEF BaseInv, InsertsOK
<1>3. PICK d \in Directions : d = insert_after[k][n].dir
  <2>1. inserts[n] \in Packet
    BY <1>2
  <2> QED BY <2>1, <1>2, PacketFields
<1>4. k \in Indices \ Segments(d)
  BY <1>1, <1>3 DEF Segments
<1> QED BY <1>3, <1>4 DEF UntouchedInv

LEMMA UntouchedStays ==
  ASSUME BaseInv, BaseInv', UntouchedInv, WorksOn
  PROVE  UntouchedInv'
<1>1. /\ Indices' = Indices /\ input' = input /\ flow' = flow /\ Planning
      /\ \A d : Segments(d)' = Segments(d)
  BY InputFrame DEF WorksOn, Planning
<1>2. \A i \in Indices : input.packets[i].data = << >> => i \notin Segments(flow)
  BY DEF Segments
<1>3. \A i \in Indices : input.packets[i].data = << >> => packets[i] = input.packets[i]
  BY <1>1 DEF UntouchedInv
<1>4. \A i \in Indices : input.packets[i].data = << >> => packets'[i] = input.packets[i]
  BY <1>2, <1>3 DEF WorksOn, OthersKeepFlags
<1>5. ASSUME NEW i \in deleted_indices', input.packets[i].data = << >>
      PROVE  ~input.packets[i].fin
  <2>1. CASE i \in deleted_indices
    BY <1>5, <2>1 DEF UntouchedInv
  <2>2. CASE i \notin deleted_indices
    <3>1. i \notin Segments(flow)
      BY <1>5 DEF Segments
    <3>2. ~packets[i].fin
      BY <2>2, <3>1 DEF WorksOn, OthersKeepFlags
    <3>3. i \in Indices
      BY <1>1 DEF BaseInv, InsertsOK
    <3> QED BY <3>2, <3>3, <1>3, <1>5
  <2> QED BY <2>1, <2>2
<1>6. ASSUME NEW d \in Directions, NEW i \in Indices \ Segments(d),
             NEW n \in 1 .. Len(insert_after'[i]), insert_after'[i][n].dir = d
      PROVE  ~insert_after'[i][n].fin
  <2>1. CASE i \in Segments(flow)
    <3>1. d # flow
      BY <2>1
    <3> QED BY <3>1, <2>1, <1>6 DEF WorksOn, ForeignInsertsHaveNoFin
  <2>2. CASE i \notin Segments(flow)
    <3>1. insert_after'[i] = insert_after[i]
      BY <2>2 DEF WorksOn, OthersKeepFlags
    <3> QED BY <3>1, <1>6 DEF UntouchedInv
  <2> QED BY <2>1, <2>2
<1> QED BY <1>1, <1>4, <1>5, <1>6 DEF UntouchedInv

LEMMA OthersFlags ==
  ASSUME BaseInv, OrdinaryInv, WorksOn, NEW d \in Directions, d # flow,
         FlagsWait(d), FlagsMoved(d)
  PROVE  FlagsWait(d)' /\ FlagsMoved(d)'
<1>1. /\ Segments(d)' = Segments(d) /\ input' = input /\ flow' = flow
      /\ Segments(d) \subseteq Indices /\ Segments(d) \cap Segments(flow) = {}
  BY InputFrame DEF WorksOn, Segments
<1>2. FlagsWait(d)'
  BY <1>1 DEF FlagsWait, Waits, AtWork, WorksOn, OthersKeepFlags
<1>3. FlagsMoved(d)'
  <2> SUFFICES ASSUME Settled(d)' PROVE OneFin(d)' /\ FinsAtEnd(d)'
    BY <1>1 DEF FlagsMoved, AtWork
  <2>1. Settled(d)
    BY DEF Settled, Planning, Waits, AtWork, WorksOn
  <2>2. OneFin(d) /\ FinsAtEnd(d)
    BY <2>1 DEF FlagsMoved
  <2>3. ASSUME NEW k \in Segments(d)
        PROVE  KeepsPlaces(d, k) \/ (HasNoFinAt(d, k) /\ HasNoFinAt(d, k)')
    <3>1. k \in Indices \ Segments(flow)
      BY <1>1
    <3>2. packets'[k] = packets[k] /\ insert_after'[k] = insert_after[k]
      BY <3>1 DEF WorksOn, OthersKeepFlags
    <3>3. PlannedSeq(d, k)' = PlannedSeq(d, k)
      BY <1>1, <3>1, PlannedSeqFrame DEF WorksOn, OthersKeepFlags
    <3>4. CASE k \in deleted_indices' \ deleted_indices
      <4>1. packets[k].data = << >> /\ ~packets[k].fin
        BY <3>1, <3>4 DEF WorksOn, OthersKeepFlags
      <4>2. insert_after[k] = << >>
        BY <3>1, <4>1 DEF OrdinaryInv, AnchorInv
      <4>3. 0 .. Len(<< >>) = {0}
        OBVIOUS
      <4> QED BY <3>2, <4>1, <4>2, <4>3 DEF HasNoFinAt, IsFinPlace, PacketAt
    <3>5. CASE ~(k \in deleted_indices' \ deleted_indices)
      <4>1. k \in deleted_indices' <=> k \in deleted_indices
        BY <3>5 DEF WorksOn, OthersKeepFlags
      <4> QED BY <4>1, <3>2, <3>3 DEF KeepsPlaces
    <3> QED BY <3>4, <3>5
  <2> QED BY <1>1, <2>2, <2>3, FinsStay
<1> QED BY <1>2, <1>3

LEMMA FlagsGoOn ==
  ASSUME BaseInv, BaseInv', OrdinaryInv, FlagsInv, WorksOn, FlagsFillInv', FlagsRemapInv',
         FlagsWait(flow)', FlagsMoved(flow)'
  PROVE  FlagsInv'
<1>1. UntouchedInv'
  BY UntouchedStays DEF FlagsInv
<1>2. flow' = flow
  BY DEF WorksOn
<1>3. ASSUME NEW d \in Directions PROVE FlagsWait(d)' /\ FlagsMoved(d)'
  <2>1. CASE d = flow
    BY <2>1, <1>2 DEF FlagsWait, FlagsMoved
  <2>2. CASE d # flow
    BY <2>2, OthersFlags DEF FlagsInv
  <2> QED BY <2>1, <2>2
<1> QED BY <1>1, <1>3 DEF FlagsInv

-----------------------------------------------------------------------------
(***************************************************************************)
(* Steps that only take up or put down a flow.                             *)
(***************************************************************************)
SamePlan == UNCHANGED <<input, packets, packet_new_seq, deleted_indices, insert_after>>

LEMMA UntouchedFrame ==
  ASSUME SamePlan, UntouchedInv, Planning
  PROVE  UntouchedInv'
<1>1. Indices' = Indices /\ \A d : Segments(d)' = Segments(d)
  BY InputFrame DEF SamePlan
<1> QED BY <1>1 DEF SamePlan, UntouchedInv

LEMMA FlagsFrame ==
  ASSUME SamePlan, Planning, NEW d \in Directions, FlagsWait(d),
         Waits(d)' \/ (AtWork(d)' /\ phase' \in {"preserve", "fill"}) =>
           Waits(d) \/ (AtWork(d) /\ phase \in {"preserve", "fill"}),
         Settled(d)' \/ (AtWork(d)' /\ phase' = "remap") => OneFin(d) /\ FinsAtEnd(d)
  PROVE  FlagsWait(d)' /\ FlagsMoved(d)'
<1>1. input' = input /\ Segments(d)' = Segments(d)
  BY InputFrame DEF SamePlan
<1>2. FlagsWait(d)'
  BY <1>1 DEF FlagsWait, SamePlan
<1>3. ASSUME OneFin(d), FinsAtEnd(d) PROVE OneFin(d)' /\ FinsAtEnd(d)'
  <2>1. \A k \in Segments(d) : KeepsPlaces(d, k)
    BY <1>1, PlannedSeqFrame DEF KeepsPlaces, SamePlan
  <2> QED BY <2>1, <1>1, <1>3, FinsStay
<1> QED BY <1>2, <1>3 DEF FlagsMoved

\* A flow that is not changed, and that has not been worked on.
LEMMA QuietFlags ==
  ASSUME BaseInv, Planning, NEW d \in Directions, FinComesLast(d), Edits(d) = << >>,
         SegmentsOK(d), QuietOK(d),
         \A k \in Segments(d) : packets[k].fin = input.packets[k].fin /\ insert_after[k] = << >>
  PROVE  OneFin(d) /\ FinsAtEnd(d)
<1>1. IsInput(input)
  BY DEF BaseInv
<1>2. ASSUME NEW k \in Segments(d)
      PROVE  /\ k \notin deleted_indices /\ packets[k].data = NewPayload(k)
             /\ PlannedSeq(d, k) = SeqAdd(Base(d), NewStart(k))
  <2>1. k \notin DOMAIN packet_new_seq /\ k \notin deleted_indices
    BY DEF QuietOK
  <2>2. packets[k].data = input.packets[k].data
    BY <2>1 DEF SegmentsOK
  <2>3. NewPayload(k) = input.packets[k].data
    BY <1>1, QuietPayload
  <2> QED BY <2>1, <2>2, <2>3 DEF PlannedSeq
<1> QED BY <1>2, FlagsAtHome

LEMMA FlagsInit ==
  ASSUME Init, BaseInv, OrdinaryInv, IsOrdinary, FinsComeLast
  PROVE  FlagsInv
<1>1. IsInput(input) /\ phase = "next" /\ packets = input.packets /\ deleted_indices = {}
  BY DEF BaseInv, Init
<1>2. \A i \in Indices : insert_after[i] = << >>
  BY DEF Init
<1>3. UntouchedInv
  <2>1. 1 .. Len(<< >>) = {}
    OBVIOUS
  <2> QED BY <1>1, <1>2, <2>1 DEF UntouchedInv
<1>4. FlagsFillInv /\ FlagsRemapInv
  BY <1>1 DEF FlagsFillInv, FlagsRemapInv
<1>5. ASSUME NEW d \in Directions PROVE FlagsWait(d) /\ FlagsMoved(d)
  <2>1. FlagsWait(d)
    BY <1>1 DEF FlagsWait
  <2>2. ASSUME Settled(d) PROVE OneFin(d) /\ FinsAtEnd(d)
    <3>1. /\ Range(preserve_flows) =
               {e \in Directions : input.handling[e] = "preserve" /\ Segments(e) # {}}
          /\ Range(merged_flows) =
               {e \in Directions : input.handling[e] = "merge" /\ Segments(e) # {}}
      BY <1>1, QueuesExist DEF Init
    <3>2. input.handling[d] = "unchanged" \/ Segments(d) = {}
      BY <2>2, <3>1, <1>1, InputFacts DEF Settled, Waits
    <3>3. Edits(d) = << >>
      BY <3>2, <1>1, InputFacts DEF IsOrdinary, IsCaptured
    <3>4. \A k \in Segments(d) : k \in Indices
      BY DEF Segments
    <3> QED BY <3>3, <3>4, <1>1, <1>2, <2>2, QuietFlags
        DEF OrdinaryInv, FlowsInv, FinsComeLast, Settled
  <2>3. ~AtWork(d)
    BY <1>1 DEF AtWork
  <2> QED BY <2>1, <2>2, <2>3 DEF FlagsMoved
<1> QED BY <1>3, <1>4, <1>5 DEF FlagsInv

LEMMA FlagsBeginPreserve ==
  ASSUME BaseInv, FlagsInv, BeginPreserve
  PROVE  FlagsInv'
<1> USE DEF BeginPreserve
<1>1. PICK q \in Seq(Directions) : q = preserve_flows /\ q # << >> /\ IsInjective(q)
  BY DEF BaseInv, QueuesOK
<1>2. Head(q) \in Range(q) /\ Range(Tail(q)) = Range(q) \ {Head(q)}
  BY <1>1, QueueHead
<1>3. /\ Range(preserve_flows') = Range(preserve_flows) \ {flow'}
      /\ flow' \in Range(preserve_flows) /\ phase = "next" /\ phase' = "preserve"
      /\ SamePlan /\ merged_flows' = merged_flows
  BY <1>1, <1>2 DEF plan, SamePlan
<1> HIDE DEF BeginPreserve
<1>4. UntouchedInv' /\ FlagsFillInv' /\ FlagsRemapInv'
  BY <1>3, UntouchedFrame DEF FlagsInv, Planning, FlagsFillInv, FlagsRemapInv
<1>5. ASSUME NEW d \in Directions PROVE FlagsWait(d)' /\ FlagsMoved(d)'
  <2>1. FlagsWait(d) /\ FlagsMoved(d) /\ Planning
    BY <1>3 DEF FlagsInv, Planning
  <2>2. Waits(d)' \/ AtWork(d)' => Waits(d)
    BY <1>3 DEF Waits, AtWork
  <2>3. Settled(d)' => Settled(d)
    BY <1>3 DEF Settled, Planning, Waits, AtWork
  <2>4. Settled(d)' \/ (AtWork(d)' /\ phase' = "remap") => OneFin(d) /\ FinsAtEnd(d)
    BY <1>3, <2>1, <2>3 DEF FlagsMoved
  <2> QED BY <1>3, <2>1, <2>2, <2>4, FlagsFrame
<1> QED BY <1>4, <1>5 DEF FlagsInv

LEMMA FlagsDegradeFlow ==
  ASSUME BaseInv, FlagsInv, DegradeFlow
  PROVE  FlagsInv'
<1>1. PICK q \in Seq(Directions) : q = merged_flows
  BY DEF BaseInv, QueuesOK
<1>2. flow \in Directions
  BY DEF BaseInv, FlowOK
<1>3. Range(Append(q, flow)) = Range(q) \cup {flow}
  BY <1>1, <1>2, QueueAppend
<1>4. /\ Range(merged_flows') = Range(merged_flows) \cup {flow}
      /\ phase = "preserve" /\ phase' = "next"
      /\ SamePlan /\ UNCHANGED <<flow, preserve_flows>>
  BY <1>1, <1>3 DEF DegradeFlow, plan, SamePlan
<1>5. UntouchedInv' /\ FlagsFillInv' /\ FlagsRemapInv'
  BY <1>4, UntouchedFrame DEF FlagsInv, Planning, FlagsFillInv, FlagsRemapInv
<1>6. ASSUME NEW d \in Directions PROVE FlagsWait(d)' /\ FlagsMoved(d)'
  <2>1. FlagsWait(d) /\ FlagsMoved(d) /\ Planning
    BY <1>4 DEF FlagsInv, Planning
  <2>2. ~AtWork(d)' /\ (Waits(d)' => Waits(d) \/ AtWork(d))
    BY <1>4 DEF Waits, AtWork
  <2>3. Settled(d)' => Settled(d)
    BY <1>4 DEF Settled, Planning, Waits, AtWork
  <2>4. Settled(d)' \/ (AtWork(d)' /\ phase' = "remap") => OneFin(d) /\ FinsAtEnd(d)
    BY <2>1, <2>2, <2>3 DEF FlagsMoved
  <2> QED BY <1>4, <2>1, <2>2, <2>4, FlagsFrame
<1> QED BY <1>5, <1>6 DEF FlagsInv

LEMMA FlagsEndPreserve ==
  ASSUME BaseInv, OrdinaryInv, FinsComeLast, FlagsInv, EndPreserve
  PROVE  FlagsInv'
<1>1. /\ phase = "preserve" /\ phase' = "next" /\ todo = {}
      /\ SamePlan /\ UNCHANGED <<flow, preserve_flows, merged_flows>>
  BY DEF EndPreserve, plan, SamePlan
<1>2. flow \in Directions /\ Planning
  BY <1>1 DEF BaseInv, FlowOK, Planning
<1>3. UntouchedInv' /\ FlagsFillInv' /\ FlagsRemapInv'
  BY <1>1, <1>2, UntouchedFrame DEF FlagsInv, FlagsFillInv, FlagsRemapInv
<1>4. SegmentsOK(flow) /\ KeptInv /\ FreshInv
  BY <1>2 DEF OrdinaryInv, FlowsInv, WorkInv
<1>5. ASSUME NEW k \in Segments(flow)
      PROVE  /\ packets[k].fin = input.packets[k].fin
             /\ k \notin deleted_indices /\ insert_after[k] = << >>
             /\ packets[k].data = NewPayload(k)
             /\ PlannedSeq(flow, k) = SeqAdd(Base(flow), NewStart(k))
  <2>1. /\ packets[k].data = NewPayload(k)
        /\ k \in DOMAIN packet_new_seq => packet_new_seq[k] = SeqAdd(Base(flow), NewStart(k))
    BY <1>1, <1>4 DEF KeptInv
  <2>2. k \notin deleted_indices /\ insert_after[k] = << >>
    BY <1>1, <1>4 DEF FreshInv, Segments
  <2>3. packets[k].fin = input.packets[k].fin
    BY <1>1, <1>2 DEF FlagsInv, FlagsWait, AtWork
  <2> QED BY <2>1, <2>2, <2>3 DEF PlannedSeq
<1>6. OneFin(flow) /\ FinsAtEnd(flow)
  BY <1>2, <1>5, FlagsAtHome DEF FinsComeLast
<1>7. ASSUME NEW d \in Directions PROVE FlagsWait(d)' /\ FlagsMoved(d)'
  <2>1. FlagsWait(d) /\ FlagsMoved(d)
    BY DEF FlagsInv
  <2>2. ~AtWork(d)' /\ (Waits(d)' => Waits(d))
    BY <1>1 DEF Waits, AtWork
  <2>3. Settled(d)' => Settled(d) \/ d = flow
    BY <1>1 DEF Settled, Planning, Waits, AtWork
  <2>4. Settled(d)' \/ (AtWork(d)' /\ phase' = "remap") => OneFin(d) /\ FinsAtEnd(d)
    BY <1>6, <2>1, <2>2, <2>3 DEF FlagsMoved
  <2> QED BY <1>1, <1>2, <2>1, <2>2, <2>4, FlagsFrame
<1> QED BY <1>3, <1>7 DEF FlagsInv

LEMMA FlagsEndMerge ==
  ASSUME BaseInv, FlagsInv, EndMerge
  PROVE  FlagsInv'
<1>1. /\ phase = "remap" /\ phase' = "next"
      /\ SamePlan /\ UNCHANGED <<flow, preserve_flows, merged_flows>>
  BY DEF EndMerge, plan, SamePlan
<1>2. UntouchedInv' /\ FlagsFillInv' /\ FlagsRemapInv'
  BY <1>1, UntouchedFrame DEF FlagsInv, Planning, FlagsFillInv, FlagsRemapInv
<1>3. ASSUME NEW d \in Directions PROVE FlagsWait(d)' /\ FlagsMoved(d)'
  <2>1. FlagsWait(d) /\ FlagsMoved(d) /\ Planning
    BY <1>1 DEF FlagsInv, Planning
  <2>2. ~AtWork(d)' /\ (Waits(d)' => Waits(d))
    BY <1>1 DEF Waits, AtWork
  <2>3. Settled(d)' => Settled(d) \/ AtWork(d)
    BY <1>1 DEF Settled, Planning, Waits, AtWork
  <2>4. Settled(d)' \/ (AtWork(d)' /\ phase' = "remap") => OneFin(d) /\ FinsAtEnd(d)
    BY <1>1, <2>1, <2>2, <2>3 DEF FlagsMoved
  <2> QED BY <1>1, <2>1, <2>2, <2>4, FlagsFrame
<1> QED BY <1>2, <1>3 DEF FlagsInv

LEMMA FlagsBeginMerge ==
  ASSUME BaseInv, OrdinaryInv, FinsComeLast, FlagsInv, BeginMerge
  PROVE  FlagsInv'
<1> USE DEF BeginMerge
<1>1. PICK q \in Seq(Directions) : q = merged_flows /\ q # << >> /\ IsInjective(q)
  BY DEF BaseInv, QueuesOK
<1>2. /\ Head(q) \in Directions /\ Head(q) \in Range(q)
      /\ Range(Tail(q)) = Range(q) \ {Head(q)}
  BY <1>1, QueueHead
<1>3. PICK head \in Directions : head = Head(q)
  BY <1>2
<1>4. /\ flow' = head /\ Range(merged_flows') = Range(merged_flows) \ {head}
      /\ head \in Range(merged_flows) /\ phase = "next"
      /\ preserve_flows' = preserve_flows
      /\ cursor' = 0 /\ filled' = << >> /\ extra_packets' = << >> /\ SamePlan
  BY <1>1, <1>2, <1>3 DEF plan, SamePlan
<1>5. \/ Edits(head) = << >> /\ phase' = "next"
      \/ Edits(head) # << >> /\ phase' = "fill" /\ todo' = Primaries(head)
  BY <1>1, <1>3, <1>4
<1> HIDE DEF BeginMerge
<1>6. UntouchedInv' /\ FlagsRemapInv'
  BY <1>4, <1>5, UntouchedFrame DEF FlagsInv, Planning, FlagsRemapInv
<1>7. FlagsFillInv'
  <2> SUFFICES ASSUME phase' = "fill" PROVE FlagsFillInv'
    BY DEF FlagsFillInv
  <2>1. todo' = Primaries(head)
    BY <1>5
  <2>2. Primaries(flow)' = Primaries(head)
    <3>1. /\ \A k : IsPrimary(k)' = IsPrimary(k)
          /\ \A d : Segments(d)' = Segments(d)
      BY <1>4, PrimaryFrame, InputFrame DEF SamePlan
    <3> QED BY <3>1, <1>4 DEF Primaries, Segments, Indices, SamePlan
  <2>3. Range(<< >>) = {} /\ 1 .. Len(<< >>) = {}
    BY DEF Range
  <2> QED BY <1>4, <2>1, <2>2, <2>3 DEF FlagsFillInv
<1>8. Edits(head) = << >> => OneFin(head) /\ FinsAtEnd(head)
  <2> SUFFICES ASSUME Edits(head) = << >> PROVE OneFin(head) /\ FinsAtEnd(head)
    OBVIOUS
  <2>1. Planning /\ FinComesLast(head) /\ Waits(head)
    BY <1>4 DEF Planning, FinsComeLast, Waits
  <2>2. SegmentsOK(head) /\ QuietOK(head) /\ MergeOK(head) /\ FlagsWait(head)
    BY DEF OrdinaryInv, FlowsInv, FlagsInv
  <2>3. \A k \in Segments(head) :
          packets[k].fin = input.packets[k].fin /\ insert_after[k] = << >>
    BY <1>4, <2>1, <2>2 DEF MergeOK, FlagsWait
  <2> QED BY <2>1, <2>2, <2>3, QuietFlags
<1>9. ASSUME NEW d \in Directions PROVE FlagsWait(d)' /\ FlagsMoved(d)'
  <2>1. FlagsWait(d) /\ FlagsMoved(d) /\ Planning
    BY <1>4 DEF FlagsInv, Planning
  <2>2. Waits(d)' \/ AtWork(d)' => Waits(d)
    BY <1>4 DEF Waits, AtWork
  <2>3. Settled(d)' => Settled(d) \/ (d = head /\ Edits(head) = << >>)
    BY <1>4, <1>5 DEF Settled, Planning, Waits, AtWork
  <2>4. Settled(d)' \/ (AtWork(d)' /\ phase' = "remap") => OneFin(d) /\ FinsAtEnd(d)
    BY <1>5, <1>8, <2>1, <2>3 DEF FlagsMoved
  <2> QED BY <1>4, <2>1, <2>2, <2>4, FlagsFrame
<1> QED BY <1>6, <1>7, <1>9 DEF FlagsInv

-----------------------------------------------------------------------------
(***************************************************************************)
(* Steps that write, delete or clone a segment of the flow at work.        *)
(***************************************************************************)
LEMMA WithPayloadKeepsFin ==
  ASSUME NEW packet \in Packet, NEW seq, NEW data
  PROVE  WithPayload(packet, seq, data).fin = packet.fin
BY DEF WithPayload, Packet

\* A step that changes one segment of the flow at work at most.
LEMMA OneSegmentWorksOn ==
  ASSUME BaseInv, UntouchedInv, NEW k \in Segments(flow),
         UNCHANGED <<input, flow, preserve_flows, merged_flows, insert_after>>,
         phase \in {"preserve", "fill", "remap"}, phase' \in {"preserve", "fill", "remap"},
         \A i \in Indices : i # k => packets'[i] = packets[i],
         \A i : i # k => (i \in DOMAIN packet_new_seq' <=> i \in DOMAIN packet_new_seq),
         \A i \in DOMAIN packet_new_seq : i # k => packet_new_seq'[i] = packet_new_seq[i],
         deleted_indices' = deleted_indices \/ deleted_indices' = deleted_indices \cup {k}
  PROVE  WorksOn
<1>1. OthersKeepFlags
  BY DEF OthersKeepFlags
<1>2. ForeignInsertsHaveNoFin
  BY NothingInsertedHasNoFin
<1> QED BY <1>1, <1>2 DEF WorksOn

LEMMA FlagsPreserveSegment ==
  ASSUME BaseInv, BaseInv', OrdinaryInv, FlagsInv, NEW k \in todo, PreserveSegment(k)
  PROVE  FlagsInv'
<1> USE DEF PreserveSegment
<1>1. /\ flow \in Directions /\ k \in Segments(flow) /\ k \in Indices /\ packets[k] \in Packet
  BY TodoFacts
<1>2. /\ phase = "preserve" /\ phase' = "preserve"
      /\ UNCHANGED <<input, flow, preserve_flows, merged_flows, deleted_indices, insert_after>>
  OBVIOUS
<1>3. PICK old \in Packet : old = packets[k]
  BY <1>1
<1>4. PICK seq, data : seq = SeqAdd(Base(flow), NewStart(k)) /\ data = NewPayload(k)
  OBVIOUS
<1>5. \/ UNCHANGED <<packets, packet_new_seq>>
      \/ /\ packets' = [packets EXCEPT ![k] = WithPayload(@, seq, data)]
         /\ packet_new_seq' = With(packet_new_seq, k, seq)
  BY <1>4
<1> HIDE DEF PreserveSegment
<1>6. /\ \A i \in Indices : i # k => packets'[i] = packets[i]
      /\ \A i : i # k => (i \in DOMAIN packet_new_seq' <=> i \in DOMAIN packet_new_seq)
      /\ \A i \in DOMAIN packet_new_seq : i # k => packet_new_seq'[i] = packet_new_seq[i]
      /\ packets'[k].fin = packets[k].fin
  <2>1. CASE UNCHANGED <<packets, packet_new_seq>>
    BY <2>1
  <2>2. CASE /\ packets' = [packets EXCEPT ![k] = WithPayload(@, seq, data)]
             /\ packet_new_seq' = With(packet_new_seq, k, seq)
    <3>1. packets'[k] = WithPayload(old, seq, data)
          /\ \A i \in Indices : i # k => packets'[i] = packets[i]
      BY <2>2, <1>1, <1>3 DEF BaseInv, PacketsOK
    <3>2. packets'[k].fin = packets[k].fin
      BY <3>1, <1>3, WithPayloadKeepsFin
    <3>3. /\ \A i : i # k => (i \in DOMAIN packet_new_seq' <=> i \in DOMAIN packet_new_seq)
          /\ \A i \in DOMAIN packet_new_seq : i # k => packet_new_seq'[i] = packet_new_seq[i]
      BY <2>2 DEF With
    <3> QED BY <3>1, <3>2, <3>3
  <2> QED BY <1>5, <2>1, <2>2
<1>7. WorksOn
  BY <1>1, <1>2, <1>6, OneSegmentWorksOn DEF FlagsInv
<1>8. FlagsFillInv' /\ FlagsRemapInv' /\ FlagsMoved(flow)'
  BY <1>2 DEF FlagsFillInv, FlagsRemapInv, FlagsMoved, Settled, AtWork
<1>9. FlagsWait(flow)'
  <2>1. Segments(flow)' = Segments(flow) /\ Segments(flow) \subseteq Indices
    BY <1>2, FlowSets DEF Segments
  <2>2. \A m \in Segments(flow) : packets[m].fin = input.packets[m].fin
    BY <1>1, <1>2 DEF FlagsInv, FlagsWait, AtWork
  <2>3. \A m \in Segments(flow) : packets'[m].fin = input.packets[m].fin
    BY <1>6, <2>1, <2>2
  <2> QED BY <1>2, <2>1, <2>3 DEF FlagsWait
<1> QED BY <1>7, <1>8, <1>9, FlagsGoOn

LEMMA FlagsFillSegment ==
  ASSUME BaseInv, BaseInv', OrdinaryInv, FlagsInv, NEW k \in todo, FillSegment(k)
  PROVE  FlagsInv'
<1> USE DEF FillSegment
<1>1. /\ IsInput(input) /\ flow \in Directions /\ k \in Segments(flow)
      /\ k \in Indices /\ packets[k] \in Packet /\ Base(flow) \in SeqNumbers
      /\ input.capacity[k] \in Nat \ {0} /\ cursor \in Nat
  BY TodoFacts
<1>2. PICK chunk \in Seq(Bytes) : chunk = Chunk(input.capacity[k]) /\ Len(chunk) \in Nat
  BY <1>1, ChunkFacts
<1>3. PICK seq \in SeqNumbers : seq = SeqAdd(Base(flow), cursor)
  BY <1>1, SeqAddType
<1>4. PICK old \in Packet : old = packets[k]
  BY <1>1
<1>5. PICK new : new = WithPayload(old, seq, chunk)
  OBVIOUS
<1>6. new.data = chunk /\ new.fin = old.fin
  BY <1>4, <1>5, WithPayloadType, WithPayloadKeepsFin
<1>7. /\ phase = "fill" /\ phase' = "fill" /\ todo' = todo \ {k}
      /\ packets' = [packets EXCEPT ![k] = new]
      /\ packet_new_seq' = With(packet_new_seq, k, seq)
      /\ cursor' = cursor + Len(chunk) /\ filled' = Append(filled, k)
      /\ UNCHANGED <<input, flow, preserve_flows, merged_flows, extra_packets,
                     deleted_indices, insert_after>>
  BY <1>2, <1>3, <1>4, <1>5
<1> HIDE DEF FillSegment
<1>8. Rewrites(k, seq) /\ packets'[k] = new
  BY <1>1, <1>7, SegmentRewritten DEF BaseInv
<1>9. WorksOn
  BY <1>1, <1>7, <1>8, OneSegmentWorksOn DEF FlagsInv, Rewrites
<1>10. /\ Segments(flow)' = Segments(flow) /\ Primaries(flow)' = Primaries(flow)
       /\ Base(flow)' = Base(flow) /\ Segments(flow) \subseteq Indices
  BY <1>7, FlowSets DEF Segments
<1>11. FlagsFillInv'
  <2>1. extra_packets = << >> /\ k \notin deleted_indices /\ k \in Primaries(flow)
    BY <1>7 DEF OrdinaryInv, WorkInv, FillInv, BaseInv, TodoOK
  <2>2. PICK q \in Seq(Indices) : q = filled
    BY DEF BaseInv, FilledOK
  <2>3. filled' \in Seq(Indices) /\ Range(filled') = Range(filled) \cup {k}
    BY <1>1, <1>7, <2>2, QueueAppend
  <2>4. filled' # << >> /\ Last(filled') = k
    <3>1. Append(q, k) # << >> /\ Append(q, k)[Len(Append(q, k))] = k
      BY <1>1
    <3> QED BY <3>1, <1>7, <2>2 DEF Last
  <2>5. Range(filled) = Primaries(flow) \ (todo \cup deleted_indices)
    BY <1>7 DEF FlagsInv, FlagsFillInv
  <2>6. Range(filled') = Primaries(flow) \ (todo' \cup deleted_indices)
    BY <1>7, <2>1, <2>3, <2>5
  <2>7. Reaches(Base(flow), cursor', packet_new_seq'[k], packets'[k].data)
    BY <1>1, <1>3, <1>6, <1>7, <1>8 DEF Reaches, Rewrites
  <2>8. 1 .. Len(<< >>) = {}
    OBVIOUS
  <2> QED BY <1>7, <1>10, <2>1, <2>4, <2>6, <2>7, <2>8 DEF FlagsFillInv
<1>12. FlagsRemapInv' /\ FlagsMoved(flow)'
  BY <1>7 DEF FlagsRemapInv, FlagsMoved, Settled, AtWork
<1>13. FlagsWait(flow)'
  <2>1. \A m \in Segments(flow) : packets[m].fin = input.packets[m].fin
    BY <1>1, <1>7 DEF FlagsInv, FlagsWait, AtWork
  <2>2. \A m \in Segments(flow) : packets'[m].fin = input.packets[m].fin
    BY <1>4, <1>6, <1>8, <1>10, <2>1 DEF Rewrites
  <2> QED BY <1>7, <1>10, <2>2 DEF FlagsWait
<1> QED BY <1>9, <1>11, <1>12, <1>13, FlagsGoOn

LEMMA FlagsDeleteSegment ==
  ASSUME BaseInv, BaseInv', OrdinaryInv, FlagsInv, NEW k \in todo, DeleteSegment(k)
  PROVE  FlagsInv'
<1>1. /\ phase = "fill" /\ phase' = "fill" /\ todo' = todo \ {k}
      /\ deleted_indices' = deleted_indices \cup {k}
      /\ UNCHANGED <<input, flow, packets, preserve_flows, merged_flows, extra_packets, cursor,
                     filled, packet_new_seq, insert_after>>
  BY DEF DeleteSegment
<1>2. flow \in Directions /\ k \in Segments(flow)
  BY <1>1, TodoFacts
<1>3. WorksOn
  BY <1>1, <1>2, OneSegmentWorksOn DEF FlagsInv
<1>4. /\ Segments(flow)' = Segments(flow) /\ Primaries(flow)' = Primaries(flow)
      /\ Base(flow)' = Base(flow)
  BY <1>1, FlowSets
<1>5. FlagsFillInv'
  <2>1. todo \cup deleted_indices = todo' \cup deleted_indices'
    BY <1>1
  <2> QED BY <1>1, <1>4, <2>1 DEF FlagsInv, FlagsFillInv
<1>6. FlagsRemapInv' /\ FlagsMoved(flow)'
  BY <1>1 DEF FlagsRemapInv, FlagsMoved, Settled, AtWork
<1>7. FlagsWait(flow)'
  <2>1. \A m \in Segments(flow) : packets[m].fin = input.packets[m].fin
    BY <1>1, <1>2 DEF FlagsInv, FlagsWait, AtWork
  <2> QED BY <1>1, <1>4, <2>1 DEF FlagsWait
<1> QED BY <1>3, <1>5, <1>6, <1>7, FlagsGoOn

LEMMA FlagsClonePiece ==
  ASSUME BaseInv, BaseInv', OrdinaryInv, FlagsInv, ClonePiece
  PROVE  FlagsInv'
<1> USE DEF ClonePiece
<1>1. /\ IsInput(input) /\ flow \in Directions /\ packets[LastPrimary] \in Packet
      /\ packets[LastPrimary].dir = flow /\ Base(flow) \in SeqNumbers /\ cursor \in Nat
      /\ input.capacity[LastPrimary] \in Nat \ {0}
  BY FlowAtWork
<1>2. PICK last \in Packet : last = packets[LastPrimary] /\ last.dir = flow
  BY <1>1
<1>3. PICK seq \in SeqNumbers : seq = SeqAdd(Base(flow), cursor)
  BY <1>1, SeqAddType
<1>4. PICK chunk \in Seq(Bytes) :
        chunk = Chunk(input.capacity[LastPrimary]) /\ Len(chunk) \in Nat
  BY <1>1, ChunkFacts
<1>5. PICK piece \in Packet :
        /\ piece = WithPayload(last, seq, chunk)
        /\ piece.dir = flow /\ piece.seq = seq /\ piece.data = chunk
  BY <1>2, WithPayloadType
<1>6. PICK acks \in Seq(Packet) :
        acks = ClonedAck(LastPrimary, cursor) /\ \A n \in DOMAIN acks : ~acks[n].fin
  BY <1>1, ClonedAckFacts, ClonedAckHasNoFin
<1>7. /\ phase = "fill" /\ phase' = "fill" /\ cursor' = cursor + Len(chunk)
      /\ extra_packets' = extra_packets \o acks \o <<piece>>
      /\ UNCHANGED <<input, flow, todo, packets, preserve_flows, merged_flows, filled,
                     packet_new_seq, deleted_indices, insert_after>>
  BY <1>2, <1>3, <1>4, <1>5, <1>6 DEF plan
<1> HIDE DEF ClonePiece
<1>8. WorksOn
  <2>1. OthersKeepFlags
    BY <1>7 DEF OthersKeepFlags
  <2>2. ForeignInsertsHaveNoFin
    BY <1>7, NothingInsertedHasNoFin DEF FlagsInv
  <2> QED BY <1>7, <2>1, <2>2 DEF WorksOn
<1>9. /\ Segments(flow)' = Segments(flow) /\ Primaries(flow)' = Primaries(flow)
      /\ Base(flow)' = Base(flow)
  BY <1>7, FlowSets
<1>10. FlagsFillInv'
  <2>1. PICK extra \in Seq(Packet) : extra = extra_packets
    BY DEF BaseInv, InsertsOK
  <2>2. PICK front \in Seq(Packet) : front = extra \o acks /\ Joins(front, extra, acks)
    BY ConcatenationFacts
  <2>3. <<piece>> \in Seq(Packet) /\ Len(<<piece>>) = 1 /\ <<piece>>[1] = piece
    OBVIOUS
  <2>4. PICK tail \in Seq(Packet) : tail = <<piece>> /\ Len(tail) = 1 /\ tail[1] = piece
    BY <2>3
  <2>5. PICK all \in Seq(Packet) : all = front \o tail /\ Joins(all, front, tail)
    BY ConcatenationFacts
  <2>6. extra_packets' = all
    BY <1>7, <2>1, <2>2, <2>4, <2>5
  <2>7. Len(front) \in Nat /\ Len(all) = Len(front) + 1
    BY <2>4, <2>5, LenProperties DEF Joins
  <2>8. all # << >> /\ all[Len(all)] = piece
    <3>1. Len(all) # 0
      BY <2>7
    <3>2. 1 \in 1 .. Len(tail)
      BY <2>4
    <3>3. all[Len(front) + 1] = tail[1]
      BY <3>2, <2>5 DEF Joins
    <3> QED BY <3>1, <3>3, <2>4, <2>7, EmptySeq
  <2>9. ASSUME NEW n \in 1 .. Len(all), all[n].dir # flow PROVE ~all[n].fin
    <3>1. CASE n \in 1 .. Len(front)
      <4>1. all[n] = front[n]
        BY <3>1, <2>5 DEF Joins
      <4>2. CASE n \in 1 .. Len(extra)
        <5>1. front[n] = extra[n]
          BY <4>2, <2>2 DEF Joins
        <5> QED BY <5>1, <4>1, <4>2, <2>1, <2>9, <1>7 DEF FlagsInv, FlagsFillInv
      <4>3. CASE n \notin 1 .. Len(extra)
        <5>1. PICK m \in 1 .. Len(acks) : n = Len(extra) + m
          BY <3>1, <4>3, <2>2 DEF Joins
        <5>2. front[n] = acks[m] /\ m \in DOMAIN acks
          BY <5>1, <2>2, LenProperties DEF Joins
        <5> QED BY <5>2, <4>1, <1>6
      <4> QED BY <4>2, <4>3
    <3>2. CASE n \notin 1 .. Len(front)
      <4>1. PICK m \in 1 .. Len(tail) : n = Len(front) + m
        BY <3>2, <2>5 DEF Joins
      <4>2. m = 1
        BY <4>1, <2>4
      <4>3. all[n] = piece
        BY <4>1, <4>2, <2>7, <2>8
      <4> QED BY <4>3, <2>9, <1>5
    <3> QED BY <3>1, <3>2
  <2>10. Last(all) = piece
    BY <2>8 DEF Last
  <2>11. Reaches(Base(flow), cursor', piece.seq, piece.data)
    BY <1>1, <1>3, <1>4, <1>5, <1>7 DEF Reaches
  <2>12. Range(filled) = Primaries(flow) \ (todo \cup deleted_indices)
    BY <1>7 DEF FlagsInv, FlagsFillInv
  <2> QED BY <1>5, <1>7, <1>9, <2>6, <2>8, <2>9, <2>10, <2>11, <2>12 DEF FlagsFillInv
<1>11. FlagsRemapInv' /\ FlagsMoved(flow)'
  BY <1>7 DEF FlagsRemapInv, FlagsMoved, Settled, AtWork
<1>12. FlagsWait(flow)'
  <2>1. \A m \in Segments(flow) : packets[m].fin = input.packets[m].fin
    BY <1>1, <1>7 DEF FlagsInv, FlagsWait, AtWork
  <2> QED BY <1>7, <1>9, <2>1 DEF FlagsWait
<1> QED BY <1>8, <1>10, <1>11, <1>12, FlagsGoOn

-----------------------------------------------------------------------------
(***************************************************************************)
(* The end of a flow's packets: its FIN moves to the last one that is      *)
(* written, a filled packet or an inserted one.                            *)
(***************************************************************************)
\* A segment with a FIN is never a retransmission.
LEMMA RetransmissionsHaveNoFin ==
  ASSUME BaseInv, flow \in Directions, FinComesLast(flow), NEW k \in Retransmissions(flow)
  PROVE  k \in Segments(flow) /\ ~input.packets[k].fin
<1>1. k \in Segments(flow) /\ k \notin Primaries(flow)
  BY DEF Retransmissions
<1> SUFFICES ASSUME input.packets[k].fin PROVE FALSE
  BY <1>1
<1>2. k \in Fins(flow, input.packets)
  BY <1>1 DEF Fins, Segments, Indices
<1> QED BY <1>1, <1>2 DEF FinComesLast

\* What CloseFlow makes of the FINs of its flow's segments.
LEMMA ClosedFlags ==
  ASSUME BaseInv, OrdinaryInv, FlagsInv, FinsComeLast, CloseFlow, NEW k \in Segments(flow)
  PROVE  /\ packets'[k].dir = flow /\ packets'[k].data = packets[k].data
         /\ k \in deleted_indices' <=> k \in deleted_indices \/ (k \in AcksOfDeleted)
         /\ k \in AcksOfDeleted => k \in deleted_indices
         /\ k \notin deleted_indices =>
              (packets'[k].fin <=>
                 extra_packets = << >> /\ filled # << >> /\ k = Last(filled)
                 /\ packets[LastPrimary].fin)
<1>1. /\ phase = "fill" /\ todo = {} /\ packets' = EndFlagsOnFilled
      /\ deleted_indices' = deleted_indices \cup AcksOfDeleted
  BY DEF CloseFlow
<1>2. /\ IsInput(input) /\ flow \in Directions /\ packets[LastPrimary] \in Packet
  BY <1>1, FlowAtWork
<1>3. k \in Indices /\ input.packets[k].dir = flow
  BY DEF Segments
<1>4. packets'[k].dir = flow /\ packets'[k].data = packets[k].data
  BY <1>1, <1>2, <1>3, FilledKeep DEF BaseInv, PacketsOK
<1>5. k \notin AcksOfDeleted
  <2> SUFFICES ASSUME k \in AcksOfDeleted PROVE FALSE
    OBVIOUS
  <2>1. packets[k].dir = Opposite(flow)
    BY DEF AcksOfDeleted, AcksInWindow
  <2>2. packets[k].dir = flow
    BY <1>3 DEF BaseInv, PacketsOK
  <2> QED BY <2>1, <2>2, <1>2, OppositeType
<1>6. Range(filled) = Primaries(flow) \ (todo \cup deleted_indices)
  BY <1>1 DEF FlagsInv, FlagsFillInv
<1>7. ASSUME k \notin deleted_indices
      PROVE  packets'[k].fin <=>
               extra_packets = << >> /\ filled # << >> /\ k = Last(filled)
               /\ packets[LastPrimary].fin
  <2>1. CASE k \in Range(filled)
    <3>1. filled # << >>
      BY <2>1 DEF Range
    <3>2. /\ extra_packets = << >> /\ k = Last(filled) => packets'[k].fin = packets[LastPrimary].fin
          /\ ~(extra_packets = << >> /\ k = Last(filled)) => ~packets'[k].fin
      BY <1>1, <1>2, <1>3, <2>1, FilledFins
    <3> QED BY <3>1, <3>2
  <2>2. CASE k \notin Range(filled)
    <3>1. k \in Retransmissions(flow)
      BY <1>1, <1>6, <1>7, <2>2 DEF Retransmissions
    <3>2. ~input.packets[k].fin
      BY <1>2, <3>1, RetransmissionsHaveNoFin DEF FinsComeLast
    <3>3. packets[k].fin = input.packets[k].fin
      BY <1>1, <1>2 DEF FlagsInv, FlagsWait, AtWork
    <3>4. packets'[k] = packets[k]
      BY <1>1, <1>2, <1>3, <2>2, FilledFins
    <3>5. filled # << >> => Last(filled) \in Range(filled)
      <4>1. PICK q \in Seq(Indices) : q = filled
        BY DEF BaseInv, FilledOK
      <4>2. q # << >> => Len(q) \in 1 .. Len(q) /\ DOMAIN q = 1 .. Len(q)
        BY EmptySeq, LenProperties
      <4> QED BY <4>1, <4>2 DEF Last, Range
    <3> QED BY <3>2, <3>3, <3>4, <3>5, <2>2
  <2> QED BY <2>1, <2>2
<1> QED BY <1>1, <1>4, <1>5, <1>7

LEMMA ClosedWorksOn ==
  ASSUME BaseInv, OrdinaryInv, FlagsInv, CloseFlow
  PROVE  WorksOn
<1>1. /\ phase = "fill" /\ phase' = "remap" /\ todo = {}
      /\ packets' = EndFlagsOnFilled
      /\ deleted_indices' = deleted_indices \cup AcksOfDeleted
      /\ UNCHANGED <<input, flow, preserve_flows, merged_flows, packet_new_seq>>
  BY DEF CloseFlow
<1>2. /\ flow \in Directions /\ packets[LastPrimary] \in Packet /\ LastPrimary \in Segments(flow)
  BY <1>1, FlowAtWork
<1>3. ClosedInserts
  BY CloseInserts
<1>4. OthersKeepFlags
  <2>1. ASSUME NEW i \in Indices \ Segments(flow)
        PROVE  packets'[i] = packets[i] /\ insert_after'[i] = insert_after[i]
    <3>1. i \notin Range(filled)
      BY DEF BaseInv, FilledOK
    <3>2. packets'[i] = packets[i]
      BY <1>1, <1>2, <3>1, FilledFins
    <3>3. i # LastPrimary
      BY <1>2
    <3> QED BY <3>2, <3>3, <1>3 DEF ClosedInserts, Closed
  <2>2. \A i \in AcksOfDeleted : packets[i].data = << >> /\ ~packets[i].fin
    BY DEF AcksOfDeleted, AcksInWindow, IsPureAck
  <2> QED BY <1>1, <2>1, <2>2 DEF OthersKeepFlags
<1>5. ForeignInsertsHaveNoFin
  <2>1. CASE extra_packets = << >>
    BY <2>1, NothingInsertedHasNoFin DEF CloseFlow, FlagsInv
  <2>2. CASE extra_packets # << >>
    <3> SUFFICES ASSUME NEW k \in Segments(flow), NEW n \in 1 .. Len(insert_after'[k]),
                        insert_after'[k][n].dir # flow
                 PROVE  ~insert_after'[k][n].fin
      BY DEF ForeignInsertsHaveNoFin
    <3>1. k \in Indices /\ insert_after[k] = << >>
      BY <1>1 DEF Segments, OrdinaryInv, WorkInv, FillInv
    <3>2. CASE k # LastPrimary
      <4>1. insert_after'[k] = << >> /\ 1 .. Len(<< >>) = {}
        BY <2>2, <3>1, <3>2, <1>3 DEF ClosedInserts, Closed
      <4> QED BY <4>1
    <3>3. CASE k = LastPrimary
      <4>1. PICK packet : packet = insert_after'[LastPrimary][n]
        OBVIOUS
      <4>2. IF n \in 1 .. Len(extra_packets) THEN packet = EndFlagsOnPieces[n] ELSE ~packet.fin
        BY <2>2, <3>3, <4>1, ClosingFins
      <4>3. CASE n \in 1 .. Len(extra_packets)
        <5>1. packet = EndFlagsOnPieces[n] /\ packet.dir = extra_packets[n].dir
          BY <4>2, <4>3, <1>2, PiecesKeep
        <5>2. extra_packets[n].dir # flow
          BY <5>1, <4>1, <3>3
        <5>3. packet = extra_packets[n]
          BY <4>3, <5>1, <5>2, <1>2, PiecesFins
        <5>4. ~extra_packets[n].fin
          BY <1>1, <4>3, <5>2 DEF FlagsInv, FlagsFillInv
        <5> QED BY <5>3, <5>4, <4>1, <3>3
      <4> QED BY <4>1, <4>2, <4>3, <3>3
    <3> QED BY <3>2, <3>3
  <2> QED BY <2>1, <2>2
<1> QED BY <1>1, <1>4, <1>5 DEF WorksOn

\* The FIN of a flow whose packets sufficed: on the last one that is filled.
LEMMA FinOnFilled ==
  ASSUME BaseInv, OrdinaryInv, FlagsInv, FinsComeLast, CloseFlow, extra_packets = << >>,
         cursor = Len(NewBytes(flow)),
         SegmentFins(flow) # {} <=> packets[LastPrimary].fin
  PROVE  OneFin(flow)' /\ FinsAtEnd(flow)'
<1>1. /\ phase = "fill" /\ todo = {} /\ insert_after' = insert_after
      /\ UNCHANGED <<input, flow, packet_new_seq>>
  BY DEF CloseFlow
<1>2. IsInput(input) /\ flow \in Directions /\ FinComesLast(flow)
  BY <1>1, FlowAtWork DEF FinsComeLast
<1>3. /\ Segments(flow)' = Segments(flow) /\ Base(flow)' = Base(flow)
      /\ NewBytes(flow)' = NewBytes(flow)
  BY <1>1, FlowSets
<1>4. SegmentFins(flow)' = SegmentFins(flow)
  BY <1>1, <1>3 DEF SegmentFins
<1>5. ASSUME NEW k \in Segments(flow), NEW n \in 0 .. Len(insert_after'[k])
      PROVE  /\ n = 0
             /\ IsFinPlace(flow, k, n)' <=>
                  k \notin deleted_indices /\ filled # << >> /\ k = Last(filled)
                  /\ packets[LastPrimary].fin
  <2>1. Len(insert_after'[k]) = 0
    BY <1>1 DEF OrdinaryInv, WorkInv, FillInv
  <2>2. n = 0 /\ 0 \in 0 .. Len(insert_after'[k])
    BY <2>1
  <2>3. PICK packet : packet = packets'[k]
    OBVIOUS
  <2>4. k \in deleted_indices' <=> k \in deleted_indices
    BY ClosedFlags
  <2>5. packet.dir = flow /\ (k \notin deleted_indices =>
           (packet.fin <=> filled # << >> /\ k = Last(filled) /\ packets[LastPrimary].fin))
    BY <2>3, ClosedFlags
  <2>6. IsFinPlace(flow, k, n)' <=> k \notin deleted_indices' /\ packet.dir = flow /\ packet.fin
    BY <1>1, <2>2, <2>3 DEF IsFinPlace, PacketAt
  <2> QED BY <2>2, <2>4, <2>5, <2>6
<1>6. CASE SegmentFins(flow) = {}
  <2>1. ASSUME NEW k \in Segments(flow), NEW n \in 0 .. Len(insert_after'[k])
        PROVE  ~IsFinPlace(flow, k, n)'
    BY <1>5, <1>6
  <2> QED BY <1>1, <1>3, <1>4, <1>6, <2>1 DEF OneFin, FinsAtEnd, HasNoFinAt
<1>7. CASE SegmentFins(flow) # {}
  <2>1. NewBytes(flow) # << >>
    BY <1>2, <1>7, FinOfLastPrimary
  <2>2. cursor # 0
    BY <1>2, <2>1, NewBytesType, EmptySeq
  <2>3. /\ filled # << >>
        /\ Reaches(Base(flow), cursor, packet_new_seq[Last(filled)], packets[Last(filled)].data)
        /\ Range(filled) = Primaries(flow) \ deleted_indices
    BY <1>1, <2>2 DEF FlagsInv, FlagsFillInv
  <2>4. PICK last : last = Last(filled)
    OBVIOUS
  <2>5. last \in Primaries(flow) \ deleted_indices
    <3>1. PICK q \in Seq(Indices) : q = filled
      BY DEF BaseInv, FilledOK
    <3>2. Len(q) \in DOMAIN q
      BY <2>3, <3>1, EmptySeq, LenProperties
    <3>3. last \in Range(filled)
      BY <2>4, <3>1, <3>2 DEF Last, Range
    <3> QED BY <2>3, <3>3
  <2>6. last \in Segments(flow) /\ last \in DOMAIN packet_new_seq
    BY <1>1, <2>5 DEF Primaries, OrdinaryInv, WorkInv, FillInv
  <2>7. ASSUME NEW k \in Segments(flow), NEW n \in 0 .. Len(insert_after'[k])
        PROVE  IsFinPlace(flow, k, n)' <=> k = last /\ n = 0
    BY <1>5, <1>7, <2>3, <2>4, <2>5
  <2>8. OneFin(flow)'
    <3>1. 0 \in 0 .. Len(insert_after'[last])
      BY <2>6, <1>1 DEF OrdinaryInv, WorkInv, FillInv
    <3> QED BY <1>1, <1>3, <1>4, <1>7, <2>6, <2>7, <3>1 DEF OneFin
  <2>9. FinsAtEnd(flow)'
    <3> SUFFICES ASSUME NEW k \in Segments(flow), NEW n \in 0 .. Len(insert_after'[k]),
                        IsFinPlace(flow, k, n)'
                 PROVE  Reaches(Base(flow), Len(NewBytes(flow)), PlannedSeqAt(flow, k, n)',
                                PacketAt(k, n)'.data)
      BY <1>1, <1>3 DEF FinsAtEnd
    <3>1. k = last /\ n = 0
      BY <2>7
    <3>2. PlannedSeqAt(flow, k, n)' = packet_new_seq[last]
      BY <1>1, <2>6, <3>1 DEF PlannedSeqAt, PlannedSeq
    <3>3. PacketAt(k, n)'.data = packets[last].data
      <4>1. packets'[last].data = packets[last].data
        BY <2>6, ClosedFlags
      <4>2. PacketAt(k, n)' = packets'[last]
        BY <3>1 DEF PacketAt
      <4> QED BY <4>1, <4>2
    <3> QED BY <2>3, <2>4, <3>2, <3>3
  <2> QED BY <2>8, <2>9
<1> QED BY <1>6, <1>7

\* The FIN of a flow that outgrew its packets: on the last one that is inserted.
LEMMA FinOnInserted ==
  ASSUME BaseInv, OrdinaryInv, FlagsInv, FinsComeLast, CloseFlow, extra_packets # << >>,
         cursor = Len(NewBytes(flow)),
         SegmentFins(flow) # {} <=> packets[LastPrimary].fin
  PROVE  OneFin(flow)' /\ FinsAtEnd(flow)'
<1>1. /\ phase = "fill" /\ todo = {}
      /\ UNCHANGED <<input, flow, packet_new_seq>>
  BY DEF CloseFlow
<1>2. /\ IsInput(input) /\ flow \in Directions /\ packets[LastPrimary] \in Packet
      /\ LastPrimary \in Primaries(flow) /\ LastPrimary \in Segments(flow)
  BY <1>1, FlowAtWork
<1>3. /\ Segments(flow)' = Segments(flow) /\ Base(flow)' = Base(flow)
      /\ NewBytes(flow)' = NewBytes(flow) /\ Segments(flow) \subseteq Indices
  BY <1>1, FlowSets DEF Segments
<1>4. SegmentFins(flow)' = SegmentFins(flow)
  BY <1>1, <1>3 DEF SegmentFins
<1>5. PICK size \in Nat \ {0} : size = Len(extra_packets)
  <2>1. PICK extra \in Seq(Packet) : extra = extra_packets /\ extra # << >>
    BY DEF BaseInv, InsertsOK
  <2>2. Len(extra) \in Nat /\ Len(extra) # 0
    BY <2>1, EmptySeq, LenProperties
  <2> QED BY <2>1, <2>2
<1>6. /\ Last(extra_packets) = extra_packets[size] /\ extra_packets[size].dir = flow
      /\ Reaches(Base(flow), cursor, extra_packets[size].seq, extra_packets[size].data)
  BY <1>1, <1>5 DEF FlagsInv, FlagsFillInv, Last
<1>7. LastPrimary \notin deleted_indices
  BY <1>1, <1>2 DEF OrdinaryInv, WorkInv, FillInv
<1>8. PICK last \in Segments(flow) : last = LastPrimary
  BY <1>2
<1>9. \A k \in Segments(flow) : k # last => insert_after'[k] = << >>
  <2>1. ClosedInserts
    BY CloseInserts
  <2> QED BY <2>1, <1>1, <1>3, <1>8 DEF ClosedInserts, Closed, OrdinaryInv, WorkInv, FillInv
<1>10. PICK inserts \in Seq(Packet) :
         /\ inserts = insert_after'[last] /\ size <= Len(inserts)
         /\ \A n \in 1 .. Len(inserts) :
              IF n \in 1 .. size THEN inserts[n] = EndFlagsOnPieces[n] ELSE ~inserts[n].fin
  <2>1. insert_after'[last] \in Seq(Packet)
    <3>1. last \in Segments(flow) /\ last \in Indices /\ Indices' = Indices
      BY <1>1, <1>3, InputFrame
    <3>2. ClosedInserts
      BY CloseInserts
    <3>3. PICK pieces \in Seq(Packet), trailing \in Seq(Packet) :
            insert_after' = [insert_after EXCEPT ![LastPrimary] = (@ \o pieces) \o trailing]
      BY ClosingInserts
    <3>4. insert_after[last] \in Seq(Packet)
      BY <3>1 DEF BaseInv, InsertsOK
    <3>5. insert_after'[last] = (insert_after[last] \o pieces) \o trailing
      BY <3>1, <3>3, <1>8 DEF BaseInv, InsertsOK
    <3> QED BY <3>4, <3>5, ConcatProperties
  <2> QED BY <2>1, <1>5, <1>8, ClosingFins
<1>11. Len(inserts) \in Nat
  BY LenProperties
<1>12. ASSUME NEW k \in Segments(flow), NEW n \in 0 .. Len(insert_after'[k])
       PROVE  IsFinPlace(flow, k, n)' <=> k = last /\ n = size /\ packets[LastPrimary].fin
  <2>1. k \in deleted_indices' <=> k \in deleted_indices
    BY ClosedFlags
  <2>2. CASE n = 0
    <3>1. IsFinPlace(flow, k, n)' =>
            k \notin deleted_indices' /\ packets'[k].fin
      BY <2>2 DEF IsFinPlace, PacketAt
    <3>2. k \notin deleted_indices => ~packets'[k].fin
      BY ClosedFlags
    <3> QED BY <2>1, <2>2, <3>1, <3>2
  <2>3. CASE n # 0
    <3>1. k = last
      <4> SUFFICES ASSUME k # last PROVE FALSE
        OBVIOUS
      <4>1. Len(insert_after'[k]) = 0
        BY <1>9
      <4> QED BY <4>1, <2>3
    <3>2. n \in 1 .. Len(inserts) /\ n \in 0 .. Len(insert_after'[k])
      BY <2>3, <3>1, <1>10, <1>11
    <3>3. PICK packet : packet = inserts[n]
      OBVIOUS
    <3>4. PacketAt(k, n)' = packet
      BY <2>3, <3>1, <3>3, <1>10 DEF PacketAt
    <3>5. IsFinPlace(flow, k, n)' <=> packet.dir = flow /\ packet.fin
      BY <1>1, <1>7, <1>8, <2>1, <3>1, <3>2, <3>4 DEF IsFinPlace
    <3>6. CASE n \in 1 .. size
      <4>1. packet = EndFlagsOnPieces[n]
        BY <3>2, <3>3, <3>6, <1>10
      <4>2. packet.dir = extra_packets[n].dir
        BY <4>1, <3>6, <1>2, <1>5, PiecesKeep
      <4>3. CASE extra_packets[n].dir # flow
        <5>1. n # size
          BY <4>3, <1>6
        <5> QED BY <5>1, <4>2, <4>3, <3>5
      <4>4. CASE extra_packets[n].dir = flow /\ n = size
        <5>1. packet.fin = packets[LastPrimary].fin
          BY <4>1, <4>4, <3>6, <1>2, <1>5, PiecesFins
        <5> QED BY <5>1, <4>2, <4>4, <3>1, <3>5
      <4>5. CASE extra_packets[n].dir = flow /\ n # size
        <5>1. ~packet.fin
          BY <4>1, <4>5, <3>6, <1>2, <1>5, PiecesFins
        <5> QED BY <5>1, <4>5, <3>5
      <4> QED BY <4>3, <4>4, <4>5
    <3>7. CASE n \notin 1 .. size
      <4>1. ~packet.fin /\ n # size
        BY <3>2, <3>3, <3>7, <1>5, <1>10
      <4> QED BY <4>1, <3>5
    <3> QED BY <3>6, <3>7
  <2> QED BY <2>2, <2>3
<1>13. CASE SegmentFins(flow) = {}
  <2>1. ASSUME NEW k \in Segments(flow), NEW n \in 0 .. Len(insert_after'[k])
        PROVE  ~IsFinPlace(flow, k, n)'
    BY <1>12, <1>13
  <2> QED BY <1>1, <1>3, <1>4, <1>13, <2>1 DEF OneFin, FinsAtEnd, HasNoFinAt
<1>14. CASE SegmentFins(flow) # {}
  <2>1. size \in 0 .. Len(insert_after'[last])
    BY <1>5, <1>10, <1>11
  <2>2. OneFin(flow)'
    BY <1>1, <1>3, <1>4, <1>8, <1>12, <1>14, <2>1 DEF OneFin
  <2>3. FinsAtEnd(flow)'
    <3> SUFFICES ASSUME NEW k \in Segments(flow), NEW n \in 0 .. Len(insert_after'[k]),
                        IsFinPlace(flow, k, n)'
                 PROVE  Reaches(Base(flow), Len(NewBytes(flow)), PlannedSeqAt(flow, k, n)',
                                PacketAt(k, n)'.data)
      BY <1>1, <1>3 DEF FinsAtEnd
    <3>1. k = last /\ n = size
      BY <1>12
    <3>2. size \in 1 .. Len(inserts) /\ size \in 1 .. Len(extra_packets)
      BY <1>5, <1>10, <1>11
    <3>3. PICK packet : packet = inserts[size]
      OBVIOUS
    <3>4. packet = EndFlagsOnPieces[size]
      BY <3>2, <3>3, <1>5, <1>10
    <3>5. packet.seq = extra_packets[size].seq /\ packet.data = extra_packets[size].data
      BY <3>2, <3>4, <1>2, PiecesKeep
    <3>6. PacketAt(k, n)' = packet /\ PlannedSeqAt(flow, k, n)' = packet.seq
      BY <3>1, <3>3, <1>5, <1>10 DEF PacketAt, PlannedSeqAt
    <3> QED BY <3>5, <3>6, <1>6
  <2> QED BY <2>2, <2>3
<1> QED BY <1>13, <1>14

LEMMA FlagsCloseFlow ==
  ASSUME BaseInv, BaseInv', OrdinaryInv, FinsComeLast, FlagsInv, CloseFlow
  PROVE  FlagsInv'
<1>1. /\ phase = "fill" /\ phase' = "remap" /\ todo = {} /\ todo' = Retransmissions(flow)
      /\ cursor >= Len(NewBytes(flow)) /\ packets' = EndFlagsOnFilled
      /\ UNCHANGED <<input, flow>>
  BY DEF CloseFlow
<1>2. /\ IsInput(input) /\ flow \in Directions /\ cursor \in Nat
      /\ LastPrimary \in Segments(flow) /\ packets[LastPrimary] \in Packet
  BY <1>1, FlowAtWork
<1>3. cursor = Len(NewBytes(flow))
  <2>1. Len(NewBytes(flow)) \in Nat
    BY <1>2, NewBytesType
  <2> QED BY <2>1, <1>1, <1>2 DEF OrdinaryInv, WorkInv, FillInv
<1>4. \A k \in Segments(flow) : packets[k].fin = input.packets[k].fin
  BY <1>1, <1>2 DEF FlagsInv, FlagsWait, AtWork
<1>5. SegmentFins(flow) # {} <=> packets[LastPrimary].fin
  <2>1. ASSUME SegmentFins(flow) # {} PROVE packets[LastPrimary].fin
    <3>1. PICK k \in SegmentFins(flow) : TRUE
      BY <2>1
    <3>2. k = LastPrimary
      BY <1>2, FinOfLastPrimary DEF FinsComeLast
    <3>3. k \in Segments(flow) /\ input.packets[k].fin
      BY DEF SegmentFins
    <3> QED BY <3>2, <3>3, <1>4
  <2>2. ASSUME packets[LastPrimary].fin PROVE SegmentFins(flow) # {}
    BY <2>2, <1>2, <1>4 DEF SegmentFins
  <2> QED BY <2>1, <2>2
<1>6. OneFin(flow)' /\ FinsAtEnd(flow)'
  BY <1>3, <1>5, FinOnFilled, FinOnInserted
<1>7. FlagsMoved(flow)'
  BY <1>6 DEF FlagsMoved
<1>8. FlagsWait(flow)'
  <2>1. ~Waits(flow)'
    BY <1>1 DEF BaseInv, FlowOK
  <2> QED BY <2>1, <1>1 DEF FlagsWait
<1>9. FlagsFillInv' /\ FlagsRemapInv'
  <2>1. ASSUME NEW k \in Retransmissions(flow) PROVE ~packets'[k].fin
    <3>1. k \in Segments(flow) /\ k \in Indices /\ ~input.packets[k].fin
      BY <1>2, RetransmissionsHaveNoFin DEF FinsComeLast, Segments
    <3>2. Range(filled) \subseteq Primaries(flow)
      BY <1>1 DEF FlagsInv, FlagsFillInv
    <3>3. k \notin Range(filled)
      BY <3>2 DEF Retransmissions
    <3>4. packets'[k] = packets[k]
      BY <1>1, <1>2, <3>1, <3>3, FilledFins
    <3> QED BY <3>1, <3>4, <1>4
  <2> QED BY <2>1, <1>1 DEF FlagsFillInv, FlagsRemapInv
<1> QED BY <1>7, <1>8, <1>9, ClosedWorksOn, FlagsGoOn

-----------------------------------------------------------------------------
LEMMA FlagsRemapSegment ==
  ASSUME BaseInv, BaseInv', OrdinaryInv, FlagsInv, NEW k \in todo, RemapSegment(k)
  PROVE  FlagsInv'
<1> USE DEF RemapSegment
<1>1. flow \in Directions /\ k \in Segments(flow) /\ k \in Indices /\ k \in Retransmissions(flow)
  BY TodoFacts DEF BaseInv, TodoOK
<1>2. ~packets[k].fin
  BY DEF FlagsInv, FlagsRemapInv
<1>3. PICK first \in Packet, rest \in Seq(Packet) :
        /\ Head(Pieces(k)) = first /\ Tail(Pieces(k)) = rest
        /\ ~first.fin /\ \A n \in 1 .. Len(rest) : rest[n].dir = flow /\ ~rest[n].fin
  <2>1. PICK pieces \in Seq(Packet) :
          /\ pieces = Pieces(k) /\ pieces # << >>
          /\ \A n \in DOMAIN pieces : pieces[n].dir = flow /\ ~pieces[n].fin
    BY <1>1, <1>2, PiecesFacts, RemappedHasNoFin
  <2>2. PICK first \in Packet, rest \in Seq(Packet) :
          first = Head(pieces) /\ rest = Tail(pieces)
    <3>1. Head(pieces) \in Packet /\ Tail(pieces) \in Seq(Packet)
      BY <2>1, HeadTailProperties
    <3> QED BY <3>1
  <2>3. Len(rest) = Len(pieces) - 1 /\ \A n \in 1 .. Len(rest) : rest[n] = pieces[n + 1]
    <3>1. pieces # << >>
      BY <2>1
    <3> QED BY <3>1, <2>2, HeadTailProperties
  <2>4. Len(pieces) \in Nat /\ Len(pieces) # 0 /\ DOMAIN pieces = 1 .. Len(pieces)
    BY <2>1, EmptySeq, LenProperties
  <2>5. first = pieces[1] /\ 1 \in DOMAIN pieces
    BY <2>1, <2>2, <2>4
  <2>6. \A n \in 1 .. Len(rest) : n + 1 \in DOMAIN pieces
    BY <2>3, <2>4
  <2>7. \A n \in 1 .. Len(rest) : rest[n].dir = flow /\ ~rest[n].fin
    BY <2>1, <2>3, <2>6
  <2>8. ~first.fin
    BY <2>1, <2>5
  <2> QED BY <2>1, <2>2, <2>7, <2>8
<1>4. PICK seq : seq = SeqAdd(Base(flow), NewStart(k))
  OBVIOUS
<1>5. /\ phase = "remap" /\ phase' = "remap" /\ todo' = todo \ {k}
      /\ packets' = [packets EXCEPT ![k] = first]
      /\ packet_new_seq' = With(packet_new_seq, k, seq)
      /\ insert_after' = [insert_after EXCEPT ![k] = @ \o rest]
      /\ UNCHANGED <<input, flow, preserve_flows, merged_flows, deleted_indices>>
  BY <1>3, <1>4
<1> HIDE DEF RemapSegment
<1>6. Rewrites(k, seq) /\ packets'[k] = first
  BY <1>1, <1>5, SegmentRewritten DEF BaseInv
<1>7. /\ insert_after[k] = << >> /\ insert_after'[k] = rest
      /\ \A i \in Indices \ {k} : insert_after'[i] = insert_after[i]
  <2>1. insert_after[k] = << >>
    BY <1>5 DEF OrdinaryInv, WorkInv, RemapInv
  <2>2. << >> \o rest = rest
    BY ConcatEmptySeq
  <2>3. DOMAIN insert_after = Indices
    BY DEF BaseInv, InsertsOK
  <2> QED BY <2>1, <2>2, <2>3, <1>1, <1>5
<1>8. WorksOn
  <2>1. OthersKeepFlags
    BY <1>1, <1>5, <1>6, <1>7 DEF OthersKeepFlags, Rewrites
  <2>2. ForeignInsertsHaveNoFin
    <3> SUFFICES ASSUME NEW m \in Segments(flow), NEW n \in 1 .. Len(insert_after'[m]),
                        insert_after'[m][n].dir # flow
                 PROVE  ~insert_after'[m][n].fin
      BY DEF ForeignInsertsHaveNoFin
    <3>1. CASE m = k
      BY <3>1, <1>3, <1>7
    <3>2. CASE m # k
      <4>1. m \in Indices /\ input.packets[m].dir = flow
        BY DEF Segments
      <4>2. insert_after'[m] = insert_after[m]
        BY <3>2, <4>1, <1>7
      <4>3. PICK inserts \in Seq(Packet) : inserts = insert_after[m]
        BY <4>1 DEF BaseInv, InsertsOK
      <4>4. PICK d \in Directions : d = insert_after[m][n].dir
        <5>1. inserts[n] \in Packet
          BY <4>2, <4>3
        <5> QED BY <5>1, <4>3, PacketFields
      <4>5. m \in Indices \ Segments(d)
        BY <4>1, <4>2, <4>4 DEF Segments
      <4> QED BY <4>2, <4>4, <4>5 DEF FlagsInv, UntouchedInv
    <3> QED BY <3>1, <3>2
  <2> QED BY <1>5, <2>1, <2>2 DEF WorksOn
<1>9. FlagsFillInv' /\ FlagsRemapInv'
  <2>1. todo \subseteq Indices
    BY <1>5 DEF BaseInv, TodoOK, Retransmissions, Segments
  <2> QED BY <2>1, <1>5, <1>6 DEF FlagsInv, FlagsFillInv, FlagsRemapInv, Rewrites
<1>10. FlagsWait(flow)'
  <2>1. ~Waits(flow)'
    BY <1>5 DEF BaseInv, FlowOK
  <2> QED BY <2>1, <1>5 DEF FlagsWait
<1>11. FlagsMoved(flow)'
  <2>1. OneFin(flow) /\ FinsAtEnd(flow)
    BY <1>1, <1>5 DEF FlagsInv, FlagsMoved, AtWork
  <2>2. ASSUME NEW m \in Segments(flow)
        PROVE  KeepsPlaces(flow, m) \/ (HasNoFinAt(flow, m) /\ HasNoFinAt(flow, m)')
    <3>0. m \in Indices
      BY DEF Segments
    <3>1. CASE m # k
      <4>1. packets'[m] = packets[m] /\ insert_after'[m] = insert_after[m]
        BY <3>0, <3>1, <1>6, <1>7 DEF Rewrites
      <4>2. PlannedSeq(flow, m)' = PlannedSeq(flow, m)
        <5>1. Base(flow)' = Base(flow) /\ NewStart(m)' = NewStart(m)
          BY <1>5, InputFrame, FlowSets
        <5> QED BY <5>1, <3>1, <1>6 DEF PlannedSeq, Rewrites
      <4> QED BY <4>1, <4>2, <1>5 DEF KeepsPlaces
    <3>2. CASE m = k
      <4>1. HasNoFinAt(flow, m)
        <5>1. 0 .. Len(<< >>) = {0}
          OBVIOUS
        <5> QED BY <3>2, <5>1, <1>2, <1>7 DEF HasNoFinAt, IsFinPlace, PacketAt
      <4>2. ASSUME NEW n \in 0 .. Len(rest) PROVE ~PacketAt(m, n)'.fin
        <5>1. CASE n = 0
          BY <3>2, <5>1, <1>3, <1>6 DEF PacketAt
        <5>2. CASE n # 0
          <6>1. n \in 1 .. Len(rest)
            BY <5>2
          <6> QED BY <3>2, <5>2, <6>1, <1>3, <1>7 DEF PacketAt
        <5> QED BY <5>1, <5>2
      <4>3. HasNoFinAt(flow, m)'
        BY <3>2, <4>2, <1>7 DEF HasNoFinAt, IsFinPlace
      <4> QED BY <4>1, <4>3
    <3> QED BY <3>1, <3>2
  <2>3. OneFin(flow)' /\ FinsAtEnd(flow)'
    <3>1. PICK d \in Directions : d = flow /\ flow' = d
      BY <1>1, <1>5
    <3>2. OneFin(d) /\ FinsAtEnd(d)
      BY <2>1, <3>1
    <3>3. \A m \in Segments(d) : KeepsPlaces(d, m) \/ (HasNoFinAt(d, m) /\ HasNoFinAt(d, m)')
      BY <2>2, <3>1 DEF KeepsPlaces, HasNoFinAt, IsFinPlace, PlannedSeq, Base
    <3>4. OneFin(d)' /\ FinsAtEnd(d)'
      BY <3>2, <3>3, <1>5, FinsStay
    <3> QED BY <3>1, <3>4 DEF OneFin, FinsAtEnd, HasNoFinAt, IsFinPlace
  <2> QED BY <2>3 DEF FlagsMoved
<1> QED BY <1>8, <1>9, <1>10, <1>11, FlagsGoOn

LEMMA FlagsDropRetransmission ==
  ASSUME BaseInv, BaseInv', OrdinaryInv, FlagsInv, NEW k \in todo, DropRetransmission(k)
  PROVE  FlagsInv'
<1>1. /\ phase = "remap" /\ phase' = "remap" /\ todo' = todo \ {k}
      /\ deleted_indices' = deleted_indices \cup {k}
      /\ UNCHANGED <<input, flow, packets, preserve_flows, merged_flows, packet_new_seq,
                     insert_after>>
  BY DEF DropRetransmission
<1>2. flow \in Directions /\ k \in Segments(flow) /\ k \in Indices
  BY <1>1, TodoFacts
<1>3. ~packets[k].fin /\ insert_after[k] = << >>
  BY <1>1 DEF FlagsInv, FlagsRemapInv, OrdinaryInv, WorkInv, RemapInv
<1>4. WorksOn
  BY <1>1, <1>2, OneSegmentWorksOn DEF FlagsInv
<1>5. FlagsFillInv' /\ FlagsRemapInv'
  BY <1>1 DEF FlagsInv, FlagsFillInv, FlagsRemapInv
<1>6. FlagsWait(flow)'
  <2>1. ~Waits(flow)'
    BY <1>1 DEF BaseInv, FlowOK
  <2> QED BY <2>1, <1>1 DEF FlagsWait
<1>7. PICK d \in Directions : d = flow /\ flow' = d
  BY <1>1, <1>2
<1>8. OneFin(d) /\ FinsAtEnd(d)
  BY <1>1, <1>2, <1>7 DEF FlagsInv, FlagsMoved, AtWork
<1>9. ASSUME NEW m \in Segments(d)
      PROVE  KeepsPlaces(d, m) \/ (HasNoFinAt(d, m) /\ HasNoFinAt(d, m)')
  <2>1. CASE m # k
    BY <2>1, <1>1, PlannedSeqFrame DEF KeepsPlaces
  <2>2. CASE m = k
    <3>1. 0 .. Len(<< >>) = {0}
      OBVIOUS
    <3> QED BY <2>2, <3>1, <1>1, <1>3 DEF HasNoFinAt, IsFinPlace, PacketAt
  <2> QED BY <2>1, <2>2
<1>10. OneFin(d)' /\ FinsAtEnd(d)'
  BY <1>1, <1>8, <1>9, FinsStay
<1>11. FlagsMoved(flow)'
  BY <1>7, <1>10 DEF FlagsMoved, OneFin, FinsAtEnd, HasNoFinAt, IsFinPlace
<1> QED BY <1>4, <1>5, <1>6, <1>11, FlagsGoOn

-----------------------------------------------------------------------------
(***************************************************************************)
(* The FINs in the output.  A bearer is a packet whose FIN is written with *)
(* it or behind it.                                                        *)
(***************************************************************************)
Bearers(d) == {i \in Indices : \E n \in 0 .. Len(insert_after[i]) : IsFinPlace(d, i, n)}

EndsStream(d, packet) == packet.dir = d /\ packet.fin => EndOf(packet) = Len(NewBytes(d))

OnePlaceEach(d) ==
  \A i \in Indices : \A n, m \in 0 .. Len(insert_after[i]) :
    IsFinPlace(d, i, n) /\ IsFinPlace(d, i, m) => n = m

WrittenFins(d) ==
  /\ OnePlaceEach(d)
  /\ Cardinality(Bearers(d)) = Cardinality(Fins(d, input.packets))
  /\ Cardinality(Fins(d, output)) = Cardinality(Bearers(d) \ todo)
  /\ \A i \in Indices \ deleted_indices : \A n \in 0 .. Len(insert_after[i]) :
       EndsStream(d, PacketAt(i, n))
  /\ \A packet \in Range(output) : EndsStream(d, packet)

FinsInv ==
  /\ Planning => FlagsInv
  /\ phase \in {"adjusted", "done"} => \A d \in Directions : WrittenFins(d)

\* What has been fixed for a packet that reaches the end of its stream ends it.
LEMMA ReachesEnd ==
  ASSUME IsInput(input), NEW d \in Directions, Len(NewBytes(d)) < SeqHalf,
         NEW packet \in Packet, packet.dir = d,
         Reaches(Base(d), Len(NewBytes(d)), packet.seq, packet.data)
  PROVE  EndOf(packet) = Len(NewBytes(d))
<1>1. PICK len \in Nat : len = Len(NewBytes(d))
  BY NewBytesType
<1>2. PICK size \in Nat : size = Len(packet.data)
  BY PacketFields
<1>3. PICK off \in Nat : packet.seq = SeqAdd(Base(d), off) /\ off + size = len
  BY <1>1, <1>2 DEF Reaches
<1>4. off \in 0 .. SeqHalf - 1 /\ Base(d) \in SeqNumbers
  BY <1>1, <1>2, <1>3, InputFacts, SeqHalfAssumption
<1>5. OffsetOf(packet) = off
  BY <1>3, <1>4, OffsetOfAdd DEF OffsetOf
<1> QED BY <1>1, <1>2, <1>3, <1>5 DEF EndOf

\* The number of a FIN without payload is taken to the end of the new stream.
LEMMA PureFinMoves ==
  ASSUME IsInput(input), NEW d \in Directions, FinComesLast(d), NEW i \in Indices \ Segments(d),
         input.packets[i].dir = d, input.packets[i].fin, IsModified(d)
  PROVE  Reaches(Base(d), Len(NewBytes(d)), MapSeq(d, input.packets[i].seq), << >>)
<1>1. PICK packet \in Packet, len \in Nat : packet = input.packets[i] /\ len = input.old_len[d]
  BY InputFacts
<1>2. packet.data = << >> /\ Len(<< >>) = 0
  BY <1>1 DEF Segments
<1>3. i \in Fins(d, input.packets)
  BY DEF Fins, Indices
<1>4. EndOf(packet) = len
  BY <1>1, <1>3 DEF FinComesLast
<1>5. packet.seq \in SeqNumbers /\ Base(d) \in SeqNumbers
  BY <1>1, PacketFields, InputFacts
<1>6. PICK off \in Int : off = SeqOffset(packet.seq, Base(d))
  <2>1. SeqOffset(packet.seq, Base(d)) \in {NoOffset} \cup (0 .. SeqHalf - 1)
    BY <1>5, SeqOffsetType
  <2> QED BY <2>1, SeqHalfAssumption DEF NoOffset
<1>7. off = len
  BY <1>1, <1>2, <1>4, <1>6 DEF EndOf, OffsetOf
<1>8. MapOffset(len, Edits(d)) = Len(NewBytes(d))
  BY <1>1, InputFacts, EndLandsAtEnd DEF NewBytes
<1>9. MapSeq(d, packet.seq) = SeqAdd(Base(d), Len(NewBytes(d)))
  <2>1. len # NoOffset /\ ~(len > len + 1)
    BY DEF NoOffset
  <2> QED BY <2>1, <1>1, <1>6, <1>7, <1>8 DEF MapSeq
<1>10. Len(NewBytes(d)) \in Nat /\ Len(NewBytes(d)) + Len(<< >>) = Len(NewBytes(d))
  BY <1>2, NewBytesType
<1> QED BY <1>1, <1>9, <1>10 DEF Reaches

\* ... and it stays where it is when nothing of the stream is changed.
LEMMA PureFinStays ==
  ASSUME IsInput(input), NEW d \in Directions, FinComesLast(d), NEW i \in Indices \ Segments(d),
         input.packets[i].dir = d, input.packets[i].fin, ~IsModified(d)
  PROVE  EndOf(input.packets[i]) = Len(NewBytes(d))
<1>1. i \in Fins(d, input.packets)
  BY DEF Fins, Indices
<1>2. EndOf(input.packets[i]) = input.old_len[d]
  BY <1>1 DEF FinComesLast
<1>3. Edits(d) = << >>
  BY InputFacts DEF IsModified
<1>4. /\ MapOffset(input.old_len[d], Edits(d)) = input.old_len[d]
      /\ MapOffset(input.old_len[d], Edits(d)) = Len(NewBytes(d))
  BY <1>3, InputFacts, QuietFacts, EndLandsAtEnd DEF NewBytes
<1> QED BY <1>2, <1>4

-----------------------------------------------------------------------------
\* When a flow is settled, it has as many FINs as it came with, one behind a packet.
LEMMA SettledFins ==
  ASSUME BaseInv, NEW d \in Directions, FinComesLast(d), Planning, UntouchedInv, OneFin(d)
  PROVE  /\ OnePlaceEach(d)
         /\ Cardinality(Bearers(d)) = Cardinality(Fins(d, input.packets))
         /\ IsFiniteSet(Bearers(d))
<1>1. IsInput(input) /\ IsFiniteSet(Indices)
  <2>1. Indices = 1 .. Len(input.packets) /\ Len(input.packets) \in Nat
    BY InputFacts DEF BaseInv
  <2> QED BY <2>1, FS_Interval DEF BaseInv
<1>2. ASSUME NEW i \in Indices \ Segments(d), NEW n \in 0 .. Len(insert_after[i])
      PROVE  IsFinPlace(d, i, n) <=> n = 0 /\ i \in Fins(d, input.packets)
  <2>1. PICK inserts \in Seq(Packet) : inserts = insert_after[i]
    BY DEF BaseInv, InsertsOK
  <2>2. Len(inserts) \in Nat
    BY LenProperties
  <2>3. CASE n # 0
    <3>1. n \in 1 .. Len(insert_after[i])
      BY <2>1, <2>2, <2>3
    <3>2. insert_after[i][n].dir = d => ~insert_after[i][n].fin
      BY <3>1 DEF UntouchedInv
    <3> QED BY <2>3, <3>2 DEF IsFinPlace, PacketAt
  <2>4. CASE n = 0
    <3>1. packets[i].dir = input.packets[i].dir
      BY DEF BaseInv, PacketsOK
    <3>2. CASE input.packets[i].dir # d
      BY <2>4, <3>1, <3>2 DEF IsFinPlace, PacketAt, Fins
    <3>3. CASE input.packets[i].dir = d
      <4>1. input.packets[i].data = << >>
        BY <3>3 DEF Segments
      <4>2. packets[i] = input.packets[i]
        BY <4>1 DEF UntouchedInv
      <4>3. i \in deleted_indices => ~input.packets[i].fin
        BY <4>1 DEF UntouchedInv
      <4> QED BY <2>4, <3>3, <4>2, <4>3 DEF IsFinPlace, PacketAt, Fins, Indices
    <3> QED BY <3>2, <3>3
  <2> QED BY <2>3, <2>4
<1>3. PICK quiet : quiet = Fins(d, input.packets) \ Segments(d)
  OBVIOUS
<1>4. /\ IsFiniteSet(quiet) /\ IsFiniteSet(Bearers(d)) /\ IsFiniteSet(SegmentFins(d))
      /\ quiet \subseteq Indices \ Segments(d)
  <2>1. /\ quiet \in SUBSET Indices /\ Bearers(d) \in SUBSET Indices
        /\ SegmentFins(d) \in SUBSET Indices
    BY <1>3 DEF Fins, Indices, Bearers, SegmentFins, Segments
  <2>2. \A S \in SUBSET Indices : IsFiniteSet(S)
    BY <1>1, FS_Subset
  <2> QED BY <2>1, <2>2, <1>3
<1>5. Fins(d, input.packets) = quiet \cup SegmentFins(d)
  BY <1>3 DEF Fins, Indices, SegmentFins, Segments
<1>6. SegmentFins(d) \subseteq Segments(d)
  BY DEF SegmentFins
<1>7. \A i \in Indices \ Segments(d) : i \in Bearers(d) <=> i \in quiet
  <2> SUFFICES ASSUME NEW i \in Indices \ Segments(d) PROVE i \in Bearers(d) <=> i \in quiet
    OBVIOUS
  <2>1. 0 \in 0 .. Len(insert_after[i])
    <3>1. PICK inserts \in Seq(Packet) : inserts = insert_after[i]
      BY DEF BaseInv, InsertsOK
    <3>2. Len(inserts) \in Nat
      BY LenProperties
    <3> QED BY <3>1, <3>2
  <2> QED BY <2>1, <1>2, <1>3 DEF Bearers
<1>8. Segments(d) \subseteq Indices
  BY DEF Segments
<1>9. CASE SegmentFins(d) = {}
  <2>1. \A i \in Segments(d) : i \notin Bearers(d)
    BY <1>9 DEF OneFin, HasNoFinAt, Bearers
  <2>2. Bearers(d) = quiet
    BY <2>1, <1>4, <1>7, <1>8 DEF Bearers
  <2>3. Bearers(d) = Fins(d, input.packets)
    BY <2>2, <1>5, <1>9
  <2>4. OnePlaceEach(d)
    <3>1. \A i \in Segments(d) : \A n \in 0 .. Len(insert_after[i]) : ~IsFinPlace(d, i, n)
      BY <1>9 DEF OneFin, HasNoFinAt
    <3> QED BY <3>1, <1>2 DEF OnePlaceEach
  <2> QED BY <2>3, <2>4, <1>4
<1>10. CASE SegmentFins(d) # {}
  <2>0. PICK last \in Segments(d) : \E m \in 0 .. Len(insert_after[last]) :
          \A k \in Segments(d) : \A n \in 0 .. Len(insert_after[k]) :
            IsFinPlace(d, k, n) <=> k = last /\ n = m
    BY <1>10 DEF OneFin
  <2>1. PICK m \in 0 .. Len(insert_after[last]) :
          \A k \in Segments(d) : \A n \in 0 .. Len(insert_after[k]) :
            IsFinPlace(d, k, n) <=> k = last /\ n = m
    BY <2>0
  <2>2. \A i \in Segments(d) : i \in Bearers(d) <=> i = last
    BY <2>1, <1>8 DEF Bearers
  <2>3. Bearers(d) = quiet \cup {last}
    BY <2>2, <1>4, <1>7, <1>8 DEF Bearers
  <2>4. PICK first \in SegmentFins(d) : SegmentFins(d) = {first}
    BY <1>10, <1>1, FinIsUnique
  <2>5. first \notin quiet /\ last \notin quiet
    BY <1>3, <1>6, <2>1
  <2>6. /\ Cardinality(quiet \cup {last}) = Cardinality(quiet) + 1
        /\ Cardinality(quiet \cup {first}) = Cardinality(quiet) + 1
    BY <2>5, <1>4, FS_AddElement
  <2>7. Cardinality(Bearers(d)) = Cardinality(Fins(d, input.packets))
    BY <2>3, <2>4, <2>6, <1>5
  <2>8. OnePlaceEach(d)
    <3>1. \A k \in Segments(d) : \A n, j \in 0 .. Len(insert_after[k]) :
            IsFinPlace(d, k, n) /\ IsFinPlace(d, k, j) => n = j
      BY <2>1
    <3> QED BY <3>1, <1>2 DEF OnePlaceEach
  <2> QED BY <2>7, <2>8, <1>4
<1> QED BY <1>9, <1>10

LEMMA FinsAdjust ==
  ASSUME BaseInv, BaseInv', IsOrdinary, OrdinaryInv, FinsComeLast, FlagsInv, Adjust,
         NEW d \in Directions
  PROVE  WrittenFins(d)'
<1> USE DEF Adjust
<1>1. /\ phase = "next" /\ phase' = "adjusted" /\ todo' = Indices
      /\ preserve_flows = << >> /\ merged_flows = << >>
      /\ \A i \in Indices :
           packets'[i] = IF i \in deleted_indices THEN packets[i] ELSE Adjusted(i)
      /\ UNCHANGED <<input, flow, packet_new_seq, deleted_indices, output>>
  OBVIOUS
<1>2. \A i \in Indices :
        /\ Len(insert_after'[i]) = Len(insert_after[i])
        /\ insert_after'[i] \in Seq(Packet)
        /\ \A n \in 1 .. Len(insert_after[i]) :
             /\ insert_after'[i][n].dir = insert_after[i][n].dir
             /\ insert_after'[i][n].data = insert_after[i][n].data
             /\ insert_after'[i][n].fin = insert_after[i][n].fin
             /\ insert_after[i][n].fin => insert_after'[i][n].seq = insert_after[i][n].seq
  BY AdjustedInserts
<1> HIDE DEF Adjust
<1>3. /\ IsInput(input) /\ output = << >> /\ Planning /\ FinComesLast(d)
      /\ Settled(d) /\ Range(<< >>) = {}
  BY <1>1 DEF BaseInv, TodoOK, Range, Planning, Settled, Waits, AtWork, FinsComeLast
<1>4. /\ Indices' = Indices /\ Base(d)' = Base(d) /\ NewBytes(d)' = NewBytes(d)
      /\ Segments(d)' = Segments(d)
  BY <1>1, InputFrame
<1>5. OneFin(d) /\ FinsAtEnd(d) /\ UntouchedInv
  BY <1>3 DEF FlagsInv, FlagsMoved
<1>6. /\ OnePlaceEach(d) /\ IsFiniteSet(Bearers(d))
      /\ Cardinality(Bearers(d)) = Cardinality(Fins(d, input.packets))
  BY <1>3, <1>5, SettledFins
<1>7. ASSUME NEW i \in Indices
      PROVE  /\ packets'[i].dir = packets[i].dir /\ packets'[i].fin = packets[i].fin
             /\ packets'[i].data = packets[i].data /\ packets'[i] \in Packet
  <2>1. PICK e \in Directions : e = input.packets[i].dir
    BY <1>3, InputFacts, PacketFields
  <2>2. /\ Adjusted(i).dir = e /\ Adjusted(i).fin = packets[i].fin
        /\ Adjusted(i).data = packets[i].data
    BY <2>1, AdjustedFacts
  <2>3. packets[i].dir = e /\ packets'[i] \in Packet
    BY <2>1, <1>4 DEF BaseInv, PacketsOK
  <2> QED BY <1>1, <2>2, <2>3
<1>8. ASSUME NEW i \in Indices, NEW n \in 0 .. Len(insert_after[i])
      PROVE  IsFinPlace(d, i, n)' <=> IsFinPlace(d, i, n)
  <2>1. CASE n = 0
    BY <2>1, <1>1, <1>2, <1>7 DEF IsFinPlace, PacketAt
  <2>2. CASE n # 0
    <3>1. PICK inserts \in Seq(Packet) : inserts = insert_after[i]
      BY DEF BaseInv, InsertsOK
    <3>2. n \in 1 .. Len(insert_after[i])
      <4>1. Len(inserts) \in Nat
        BY LenProperties
      <4> QED BY <2>2, <3>1, <4>1
    <3> QED BY <2>2, <3>2, <1>1, <1>2 DEF IsFinPlace, PacketAt
  <2> QED BY <2>1, <2>2
<1>9. Bearers(d)' = Bearers(d)
  BY <1>2, <1>4, <1>8 DEF Bearers
<1>10. OnePlaceEach(d)'
  BY <1>2, <1>4, <1>6, <1>8 DEF OnePlaceEach
<1>11. Cardinality(Bearers(d)') = Cardinality(Fins(d, input.packets))
  BY <1>6, <1>9
<1>12. Cardinality(Fins(d, output)) = Cardinality(Bearers(d) \ Indices)
  <2>1. Fins(d, output) = {}
    BY <1>3 DEF Fins
  <2>2. Bearers(d) \ Indices = {}
    BY DEF Bearers
  <2> QED BY <2>1, <2>2
<1>13. ASSUME NEW i \in Indices \ deleted_indices, NEW n \in 0 .. Len(insert_after[i])
       PROVE  EndsStream(d, PacketAt(i, n))'
  <2> SUFFICES ASSUME PacketAt(i, n)'.dir = d, PacketAt(i, n)'.fin
               PROVE  EndOf(PacketAt(i, n))' = Len(NewBytes(d))
    BY <1>4 DEF EndsStream
  <2>1. IsFinPlace(d, i, n)'
    BY <1>1, <1>2 DEF IsFinPlace
  <2>2. IsFinPlace(d, i, n)
    BY <2>1, <1>8
  <2>3. PICK packet \in Packet : packet = PacketAt(i, n)'
    <3>1. CASE n = 0
      BY <3>1, <1>7 DEF PacketAt
    <3>2. CASE n # 0
      <4>1. PICK inserts \in Seq(Packet) :
              inserts = insert_after'[i] /\ Len(inserts) = Len(insert_after[i])
        BY <1>2
      <4>2. n \in 1 .. Len(inserts)
        <5>1. Len(inserts) \in Nat
          BY LenProperties
        <5> QED BY <3>2, <4>1, <5>1
      <4> QED BY <3>2, <4>1, <4>2 DEF PacketAt
    <3> QED BY <3>1, <3>2
  <2>4. packet.dir = d /\ EndOf(packet) = EndOf(PacketAt(i, n))'
    BY <2>3, <1>1, <1>4 DEF EndOf, OffsetOf, Base
  <2>5. CASE i \in Segments(d)
    <3>1. SegmentFins(d) # {}
      BY <2>2, <2>5, <1>5 DEF OneFin, HasNoFinAt
    <3>2. Len(NewBytes(d)) < SeqHalf
      <4>1. PICK k \in SegmentFins(d) : TRUE
        BY <3>1
      <4>2. k \in Fins(d, input.packets)
        BY DEF SegmentFins, Segments, Fins, Indices
      <4> QED BY <4>2, <1>3 DEF FinComesLast
    <3>3. Reaches(Base(d), Len(NewBytes(d)), PlannedSeqAt(d, i, n), PacketAt(i, n).data)
      BY <2>2, <2>5, <1>5 DEF FinsAtEnd
    <3>4. packet.seq = PlannedSeqAt(d, i, n) /\ packet.data = PacketAt(i, n).data
      <4>1. CASE n = 0
        <5>1. SegmentsOK(d) /\ QuietOK(d)
          BY DEF OrdinaryInv, FlowsInv
        <5>2. Adjusted(i).seq = PlannedSeq(d, i)
          BY <5>1, <1>3, <2>5, SegmentAdjusted
        <5> QED BY <4>1, <5>2, <2>3, <1>1, <1>7 DEF PacketAt, PlannedSeqAt
      <4>2. CASE n # 0
        <5>1. PICK inserts \in Seq(Packet) : inserts = insert_after[i]
          BY DEF BaseInv, InsertsOK
        <5>2. n \in 1 .. Len(insert_after[i])
          <6>1. Len(inserts) \in Nat
            BY LenProperties
          <6> QED BY <4>2, <5>1, <6>1
        <5>3. insert_after[i][n].fin
          BY <2>2, <4>2 DEF IsFinPlace, PacketAt
        <5> QED BY <4>2, <5>2, <5>3, <2>3, <1>2 DEF PacketAt, PlannedSeqAt
      <4> QED BY <4>1, <4>2
    <3>5. Reaches(Base(d), Len(NewBytes(d)), packet.seq, packet.data)
      BY <3>3, <3>4
    <3> QED BY <3>2, <3>5, <2>4, <1>3, ReachesEnd
  <2>6. CASE i \notin Segments(d)
    <3>1. n = 0
      <4> SUFFICES ASSUME n # 0 PROVE FALSE
        OBVIOUS
      <4>1. PICK inserts \in Seq(Packet) : inserts = insert_after[i]
        BY DEF BaseInv, InsertsOK
      <4>2. n \in 1 .. Len(insert_after[i])
        <5>1. Len(inserts) \in Nat
          BY LenProperties
        <5> QED BY <4>1, <5>1
      <4> QED BY <2>2, <2>6, <4>2, <1>5 DEF UntouchedInv, IsFinPlace, PacketAt
    <3>2. input.packets[i].dir = d
      BY <3>1, <2>2 DEF IsFinPlace, PacketAt, BaseInv, PacketsOK
    <3>3. input.packets[i].data = << >>
      BY <3>2, <2>6 DEF Segments
    <3>4. packets[i] = input.packets[i]
      BY <3>3, <1>3, <1>5 DEF UntouchedInv
    <3>5. input.packets[i].fin /\ i \in Fins(d, input.packets)
      BY <3>1, <3>2, <3>4, <2>2 DEF IsFinPlace, PacketAt, Fins, Indices
    <3>6. i \notin DOMAIN packet_new_seq
      BY <3>3 DEF BaseInv, NewSeqOK
    <3>7. packet = Adjusted(i) /\ packet.data = << >>
      BY <3>1, <3>3, <3>4, <2>3, <1>1, <1>7 DEF PacketAt
    <3>8. packet.seq = IF ~IsModified(d) THEN input.packets[i].seq
                       ELSE MapSeq(d, input.packets[i].seq)
      BY <3>2, <3>4, <3>6, <3>7, AdjustedFacts
    <3>9. CASE IsModified(d)
      <4>1. Reaches(Base(d), Len(NewBytes(d)), packet.seq, packet.data)
        BY <3>2, <3>5, <3>7, <3>8, <3>9, <2>6, <1>3, PureFinMoves
      <4>2. Len(NewBytes(d)) < SeqHalf
        BY <3>5, <1>3 DEF FinComesLast
      <4> QED BY <4>1, <4>2, <2>4, <1>3, ReachesEnd
    <3>10. CASE ~IsModified(d)
      <4>1. EndOf(input.packets[i]) = Len(NewBytes(d))
        BY <3>2, <3>5, <3>10, <2>6, <1>3, PureFinStays
      <4>2. EndOf(packet) = EndOf(input.packets[i])
        BY <3>2, <3>3, <3>7, <3>8, <3>10, <2>4 DEF EndOf, OffsetOf
      <4> QED BY <4>1, <4>2, <2>4
    <3> QED BY <3>9, <3>10
  <2> QED BY <2>5, <2>6
<1> QED
  <2>1. Range(output)' = {}
    BY <1>1, <1>3
  <2>2. Fins(d, input.packets)' = Fins(d, input.packets) /\ Fins(d, output)' = Fins(d, output)
    BY <1>1 DEF Fins
  <2>3. \A i \in Indices' \ deleted_indices' : \A n \in 0 .. Len(insert_after'[i]) :
          EndsStream(d, PacketAt(i, n))'
    BY <1>1, <1>2, <1>4, <1>13
  <2> QED BY <2>1, <2>2, <2>3, <1>1, <1>4, <1>9, <1>10, <1>11, <1>12 DEF WrittenFins

\* A sequence with at most one FIN is appended.
LEMMA FinsOfConcatenation ==
  ASSUME NEW s \in Seq(Packet), NEW t \in Seq(Packet), NEW d
  PROVE  /\ IsFiniteSet(Fins(d, s)) /\ Fins(d, s) \subseteq 1 .. Len(s)
         /\ Fins(d, t) = {} => Fins(d, s \o t) = Fins(d, s)
         /\ \A n \in 1 .. Len(t) :
              Fins(d, t) = {n} => Fins(d, s \o t) = Fins(d, s) \cup {Len(s) + n}
<1>1. PICK e \in Seq(Packet) : e = s \o t /\ Joins(e, s, t)
  BY ConcatenationFacts
<1>2. /\ DOMAIN e = 1 .. Len(e) /\ DOMAIN s = 1 .. Len(s) /\ DOMAIN t = 1 .. Len(t)
      /\ Len(s) \in Nat /\ Len(t) \in Nat
  BY LenProperties
<1>3. IsFiniteSet(Fins(d, s)) /\ Fins(d, s) \subseteq 1 .. Len(s)
  <2>1. Fins(d, s) \in SUBSET (1 .. Len(s))
    BY <1>2 DEF Fins
  <2>2. IsFiniteSet(1 .. Len(s))
    BY <1>2, FS_Interval
  <2> QED BY <2>1, <2>2, FS_Subset
<1>4. \A n \in 1 .. Len(s) : n \in Fins(d, e) <=> n \in Fins(d, s)
  BY <1>1, <1>2 DEF Joins, Fins
<1>5. \A n \in 1 .. Len(t) : Len(s) + n \in Fins(d, e) <=> n \in Fins(d, t)
  BY <1>1, <1>2 DEF Joins, Fins
<1>6. \A n \in Fins(d, e) :
        n \in 1 .. Len(s) \/ \E m \in 1 .. Len(t) : n = Len(s) + m
  BY <1>1, <1>2 DEF Joins, Fins
<1>7. Fins(d, t) \subseteq 1 .. Len(t)
  BY <1>2 DEF Fins
<1>8. ASSUME Fins(d, t) = {} PROVE Fins(d, e) = Fins(d, s)
  BY <1>3, <1>4, <1>5, <1>6, <1>8
<1>9. ASSUME NEW n \in 1 .. Len(t), Fins(d, t) = {n}
      PROVE  Fins(d, e) = Fins(d, s) \cup {Len(s) + n}
  <2>1. \A m \in 1 .. Len(t) : m \in Fins(d, t) <=> m = n
    BY <1>9
  <2> QED BY <2>1, <1>3, <1>4, <1>5, <1>6
<1> QED BY <1>1, <1>3, <1>8, <1>9

\* What is emitted for a packet that stays, by place.
LEMMA EmittedPlaces ==
  ASSUME BaseInv, NEW i \in Indices
  PROVE  /\ Emitted(i) \in Seq(Packet)
         /\ i \in deleted_indices => Emitted(i) = << >>
         /\ i \notin deleted_indices =>
              /\ Len(Emitted(i)) = Len(insert_after[i]) + 1
              /\ \A n \in 0 .. Len(insert_after[i]) : Emitted(i)[n + 1] = PacketAt(i, n)
<1>1. PICK packet \in Packet, inserts \in Seq(Packet) :
        packet = packets[i] /\ inserts = insert_after[i]
  BY DEF BaseInv, PacketsOK, InsertsOK
<1>2. PICK one \in Seq(Packet) : one = <<packet>> /\ Len(one) = 1 /\ one[1] = packet
  <2>1. <<packet>> \in Seq(Packet)
    OBVIOUS
  <2> QED BY <2>1
<1>3. PICK e \in Seq(Packet) : e = one \o inserts /\ Joins(e, one, inserts)
  BY ConcatenationFacts
<1>4. Len(inserts) \in Nat
  BY LenProperties
<1>5. Len(e) = Len(inserts) + 1
  BY <1>2, <1>3, <1>4 DEF Joins
<1>6. ASSUME NEW n \in 0 .. Len(inserts) PROVE e[n + 1] = PacketAt(i, n)
  <2>1. CASE n = 0
    <3>1. e[1] = one[1]
      BY <1>2, <1>3 DEF Joins
    <3> QED BY <2>1, <3>1, <1>1, <1>2 DEF PacketAt
  <2>2. CASE n # 0
    <3>1. n \in 1 .. Len(inserts) /\ n + 1 = 1 + n
      BY <2>2, <1>4
    <3>2. e[1 + n] = inserts[n]
      BY <3>1, <1>2, <1>3 DEF Joins
    <3> QED BY <2>2, <3>1, <3>2, <1>1 DEF PacketAt
  <2> QED BY <2>1, <2>2
<1>7. i \notin deleted_indices => Emitted(i) = e
  BY <1>1, <1>2, <1>3 DEF Emitted
<1> QED BY <1>1, <1>5, <1>6, <1>7, EmittedType

LEMMA FinsEmitPacket ==
  ASSUME BaseInv, NEW i \in todo, EmitPacket(i), NEW d \in Directions, WrittenFins(d)
  PROVE  WrittenFins(d)'
<1>1. /\ phase = "adjusted" /\ todo' = todo \ {i}
      /\ output' = output \o Emitted(i)
      /\ UNCHANGED <<input, packets, deleted_indices, insert_after>>
  BY DEF EmitPacket, plan
<1>2. i \in Indices /\ IsInput(input)
  BY <1>1 DEF BaseInv, TodoOK
<1>3. /\ Indices' = Indices /\ Base(d)' = Base(d) /\ NewBytes(d)' = NewBytes(d)
      /\ Fins(d, input.packets)' = Fins(d, input.packets)
  BY <1>1, InputFrame DEF Fins
<1>4. \A k, n : IsFinPlace(d, k, n)' = IsFinPlace(d, k, n)
  BY <1>1 DEF IsFinPlace, PacketAt
<1>5. Bearers(d)' = Bearers(d) /\ OnePlaceEach(d)'
  BY <1>1, <1>3, <1>4 DEF Bearers, OnePlaceEach, WrittenFins
<1>6. \A packet : EndsStream(d, packet)' = EndsStream(d, packet)
  BY <1>1, <1>3 DEF EndsStream, EndOf, OffsetOf, Base
<1>7. \A k, n : PacketAt(k, n)' = PacketAt(k, n)
  BY <1>1 DEF PacketAt
<1>8. \A k \in Indices' \ deleted_indices' : \A n \in 0 .. Len(insert_after'[k]) :
        EndsStream(d, PacketAt(k, n))'
  <2>1. \A k, n : EndsStream(d, PacketAt(k, n))' = EndsStream(d, PacketAt(k, n))
    BY <1>1, <1>3 DEF EndsStream, EndOf, OffsetOf, Base, PacketAt
  <2> QED BY <2>1, <1>1, <1>3 DEF WrittenFins
<1>9. PICK old \in Seq(Packet), new \in Seq(Packet) : old = output /\ new = Emitted(i)
  BY <1>2, EmittedPlaces DEF BaseInv, InsertsOK
<1>10. PICK inserts \in Seq(Packet) : inserts = insert_after[i] /\ Len(inserts) \in Nat
  BY <1>2, LenProperties DEF BaseInv, InsertsOK
<1>11. /\ Range(output') = Range(old) \cup Range(new)
       /\ output' = old \o new
  BY <1>1, <1>9, RangeOfConcatenation
<1>12. PICK size \in Nat, count \in Nat, before \in Nat :
         /\ size = Len(inserts) /\ count = Len(new) /\ before = Len(old)
         /\ DOMAIN new = 1 .. count
  BY <1>10, LenProperties
<1>13. /\ i \in deleted_indices => count = 0
       /\ i \notin deleted_indices =>
            count = size + 1 /\ \A n \in 0 .. size : new[n + 1] = PacketAt(i, n)
  <2>1. Len(<< >>) = 0
    OBVIOUS
  <2> QED BY <2>1, <1>2, <1>9, <1>10, <1>12, EmittedPlaces
<1>14. /\ \A m \in 1 .. count : i \notin deleted_indices /\ m - 1 \in 0 .. size
                               /\ new[m] = PacketAt(i, m - 1)
       /\ \A n \in 0 .. size : IsFinPlace(d, i, n) <=> n + 1 \in Fins(d, new)
       /\ \A m \in Fins(d, new) : m - 1 \in 0 .. size /\ (m - 1) + 1 = m
                                /\ IsFinPlace(d, i, m - 1)
  <2>1. ASSUME NEW m \in 1 .. count
        PROVE  i \notin deleted_indices /\ m - 1 \in 0 .. size /\ new[m] = PacketAt(i, m - 1)
    <3>1. i \notin deleted_indices
      BY <1>12, <1>13
    <3>2. PICK n \in 0 .. size : n = m - 1 /\ n + 1 = m
      BY <1>12, <1>13, <3>1
    <3> QED BY <3>1, <3>2, <1>13
  <2>2. \A n \in 0 .. size : IsFinPlace(d, i, n) <=> n + 1 \in Fins(d, new)
    <3> SUFFICES ASSUME NEW n \in 0 .. size
                 PROVE  IsFinPlace(d, i, n) <=> n + 1 \in Fins(d, new)
      OBVIOUS
    <3>1. CASE i \in deleted_indices
      <4>1. n + 1 \notin DOMAIN new
        BY <3>1, <1>12, <1>13
      <4> QED BY <3>1, <4>1 DEF IsFinPlace, Fins
    <3>2. CASE i \notin deleted_indices
      <4>1. n + 1 \in DOMAIN new /\ new[n + 1] = PacketAt(i, n)
        BY <3>2, <1>12, <1>13
      <4>2. n \in 0 .. Len(insert_after[i])
        BY <1>10, <1>12
      <4> QED BY <3>2, <4>1, <4>2 DEF IsFinPlace, Fins
    <3> QED BY <3>1, <3>2
  <2>3. ASSUME NEW m \in Fins(d, new)
        PROVE  m - 1 \in 0 .. size /\ (m - 1) + 1 = m /\ IsFinPlace(d, i, m - 1)
    <3>1. m \in 1 .. count
      BY <1>12 DEF Fins
    <3>2. m - 1 \in 0 .. size /\ (m - 1) + 1 = m
      BY <3>1, <2>1
    <3>3. (m - 1) + 1 \in Fins(d, new)
      BY <3>2
    <3> QED BY <3>2, <3>3, <2>2
  <2> QED BY <2>1, <2>2, <2>3
<1>15. \A packet \in Range(output') : EndsStream(d, packet)
  <2>1. ASSUME NEW packet \in Range(new) PROVE EndsStream(d, packet)
    <3>1. PICK m \in 1 .. count : packet = new[m]
      BY <1>12 DEF Range
    <3>2. i \notin deleted_indices /\ m - 1 \in 0 .. size /\ new[m] = PacketAt(i, m - 1)
      BY <1>14
    <3> QED BY <3>1, <3>2, <1>2, <1>10, <1>12 DEF WrittenFins
  <2> QED BY <2>1, <1>9, <1>11 DEF WrittenFins
<1>16. /\ IsFiniteSet(Bearers(d) \ todo)
       /\ Cardinality(Fins(d, old)) = Cardinality(Bearers(d) \ todo)
  <2>1. Indices = 1 .. Len(input.packets) /\ Len(input.packets) \in Nat
    BY <1>2, InputFacts
  <2>2. Bearers(d) \ todo \in SUBSET Indices /\ IsFiniteSet(Indices)
    BY <2>1, FS_Interval DEF Bearers
  <2> QED BY <2>2, <1>9, FS_Subset DEF WrittenFins
<1>17. Cardinality(Fins(d, old \o new)) = Cardinality(Bearers(d) \ (todo \ {i}))
  <2>1. CASE i \notin Bearers(d)
    <3>1. Fins(d, new) = {}
      <4> SUFFICES ASSUME NEW m \in Fins(d, new) PROVE FALSE
        OBVIOUS
      <4>1. m - 1 \in 0 .. size /\ IsFinPlace(d, i, m - 1)
        BY <1>14
      <4> QED BY <4>1, <1>2, <1>10, <1>12, <2>1 DEF Bearers
    <3>2. Bearers(d) \ (todo \ {i}) = Bearers(d) \ todo
      BY <2>1
    <3> QED BY <3>1, <3>2, <1>16, FinsOfConcatenation
  <2>2. CASE i \in Bearers(d)
    <3>1. PICK n \in 0 .. size : IsFinPlace(d, i, n)
      BY <2>2, <1>10, <1>12 DEF Bearers
    <3>2. PICK p \in 1 .. count : p = n + 1 /\ p \in Fins(d, new)
      <4>1. n + 1 \in Fins(d, new)
        BY <3>1, <1>14
      <4> QED BY <4>1, <1>12 DEF Fins
    <3>3. \A m \in Fins(d, new) : m = p
      <4> SUFFICES ASSUME NEW m \in Fins(d, new) PROVE m = p
        OBVIOUS
      <4>1. m - 1 \in 0 .. size /\ (m - 1) + 1 = m /\ IsFinPlace(d, i, m - 1)
        BY <1>14
      <4>2. m - 1 = n
        BY <4>1, <3>1, <1>2, <1>10, <1>12 DEF WrittenFins, OnePlaceEach
      <4> QED BY <4>1, <4>2, <3>2
    <3>4. Fins(d, new) = {p} /\ p \in 1 .. Len(new)
      BY <3>2, <3>3, <1>12
    <3>5. Fins(d, old \o new) = Fins(d, old) \cup {Len(old) + p}
      BY <3>4, FinsOfConcatenation
    <3>6. IsFiniteSet(Fins(d, old)) /\ Len(old) + p \notin Fins(d, old)
      <4>1. IsFiniteSet(Fins(d, old)) /\ Fins(d, old) \subseteq 1 .. Len(old)
        BY FinsOfConcatenation
      <4>2. before + p \notin 1 .. before
        BY <3>2, <1>12
      <4> QED BY <4>1, <4>2, <1>12
    <3>7. Cardinality(Fins(d, old \o new)) = Cardinality(Fins(d, old)) + 1
      BY <3>5, <3>6, FS_AddElement
    <3>8. Bearers(d) \ (todo \ {i}) = (Bearers(d) \ todo) \cup {i} /\ i \notin Bearers(d) \ todo
      BY <2>2
    <3>9. Cardinality(Bearers(d) \ (todo \ {i})) = Cardinality(Bearers(d) \ todo) + 1
      BY <3>8, <1>16, FS_AddElement
    <3> QED BY <3>7, <3>9, <1>16
  <2> QED BY <2>1, <2>2
<1>18. Fins(d, output)' = Fins(d, old \o new)
  BY <1>11 DEF Fins
<1>19. Cardinality(Fins(d, output)') = Cardinality((Bearers(d) \ todo)')
  BY <1>1, <1>5, <1>17, <1>18
<1>20. \A packet \in Range(output)' : EndsStream(d, packet)'
  BY <1>6, <1>15
<1> QED BY <1>3, <1>5, <1>8, <1>19, <1>20 DEF WrittenFins

LEMMA FinsStutter ==
  ASSUME OrdinaryInv, FinsInv, UNCHANGED vars
  PROVE  FinsInv'
<1> USE DEF vars, plan
<1>1. /\ SamePlan /\ UNCHANGED <<flow, phase, todo, preserve_flows, merged_flows>>
      /\ flow' = flow /\ phase' = phase /\ todo' = todo
  BY DEF SamePlan
<1>2. ASSUME Planning PROVE FlagsInv'
  <2>1. FlagsInv
    BY <1>2 DEF FinsInv
  <2>2. UntouchedInv' /\ FlagsRemapInv'
    BY <1>1, <1>2, <2>1, UntouchedFrame DEF FlagsInv, FlagsRemapInv
  <2>3. FlagsFillInv'
    BY <2>1, FlowSets DEF FlagsInv, FlagsFillInv
  <2>4. \A d \in Directions : FlagsWait(d)' /\ FlagsMoved(d)'
    <3> SUFFICES ASSUME NEW d \in Directions PROVE FlagsWait(d)' /\ FlagsMoved(d)'
      OBVIOUS
    <3>1. FlagsWait(d) /\ FlagsMoved(d)
      BY <2>1 DEF FlagsInv
    <3>2. /\ Waits(d)' <=> Waits(d)
          /\ AtWork(d)' <=> AtWork(d)
          /\ Settled(d)' <=> Settled(d)
      BY DEF Waits, AtWork, Settled, Planning
    <3>3. Settled(d)' \/ (AtWork(d)' /\ phase' = "remap") => OneFin(d) /\ FinsAtEnd(d)
      BY <3>1, <3>2, <1>1 DEF FlagsMoved
    <3> HIDE DEF vars, plan
    <3> QED BY <3>1, <3>2, <3>3, <1>1, <1>2, FlagsFrame
  <2> QED BY <2>2, <2>3, <2>4 DEF FlagsInv
<1>3. ASSUME NEW d \in Directions, WrittenFins(d) PROVE WrittenFins(d)'
  <2>1. /\ Indices' = Indices /\ Base(d)' = Base(d) /\ NewBytes(d)' = NewBytes(d)
        /\ \A sequence : Fins(d, sequence)' = Fins(d, sequence)'
    BY InputFrame
  <2>2. \A k, n : IsFinPlace(d, k, n)' = IsFinPlace(d, k, n)
    BY DEF IsFinPlace, PacketAt
  <2>3. Bearers(d)' = Bearers(d) /\ OnePlaceEach(d)'
    BY <2>1, <2>2, <1>3 DEF Bearers, OnePlaceEach, WrittenFins
  <2>4. \A k, n : EndsStream(d, PacketAt(k, n))' = EndsStream(d, PacketAt(k, n))
    BY <2>1 DEF EndsStream, EndOf, OffsetOf, Base, PacketAt
  <2>5. \A packet : EndsStream(d, packet)' = EndsStream(d, packet)
    BY <2>1 DEF EndsStream, EndOf, OffsetOf, Base
  <2>6. /\ Fins(d, input.packets)' = Fins(d, input.packets)
        /\ Fins(d, output)' = Fins(d, output)
    BY DEF Fins
  <2> QED BY <2>1, <2>3, <2>4, <2>5, <2>6, <1>3 DEF WrittenFins
<1>4. Planning' = Planning
  BY DEF Planning
<1> QED BY <1>2, <1>3, <1>4 DEF FinsInv

LEMMA FinsNext ==
  ASSUME BaseInv, BaseInv', IsOrdinary, OrdinaryInv, FinsComeLast, FinsInv, [Next]_vars
  PROVE  FinsInv'
<1>1. CASE UNCHANGED vars
  BY <1>1, FinsStutter
<1>2. ASSUME Planning', FlagsInv' PROVE FinsInv'
  BY <1>2 DEF FinsInv, Planning
<1>3. phase = "next" \/ phase = "preserve" \/ phase = "fill" \/ phase = "remap" => FlagsInv
  BY DEF FinsInv, Planning
<1>4. CASE BeginPreserve
  <2>1. FlagsInv /\ Planning'
    BY <1>3, <1>4 DEF BeginPreserve, Planning
  <2> QED BY <2>1, <1>2, <1>4, FlagsBeginPreserve
<1>5. CASE DegradeFlow
  <2>1. FlagsInv /\ Planning'
    BY <1>3, <1>5 DEF DegradeFlow, Planning
  <2> QED BY <2>1, <1>2, <1>5, FlagsDegradeFlow
<1>6. CASE EndPreserve
  <2>1. FlagsInv /\ Planning'
    BY <1>3, <1>6 DEF EndPreserve, Planning
  <2> QED BY <2>1, <1>2, <1>6, FlagsEndPreserve
<1>7. CASE BeginMerge
  <2>1. FlagsInv /\ Planning'
    BY <1>3, <1>7 DEF BeginMerge, Planning
  <2> QED BY <2>1, <1>2, <1>7, FlagsBeginMerge
<1>8. CASE ClonePiece
  <2>1. FlagsInv /\ Planning'
    BY <1>3, <1>8 DEF ClonePiece, Planning
  <2> QED BY <2>1, <1>2, <1>8, FlagsClonePiece
<1>9. CASE CloseFlow
  <2>1. FlagsInv /\ Planning'
    BY <1>3, <1>9 DEF CloseFlow, Planning
  <2> QED BY <2>1, <1>2, <1>9, FlagsCloseFlow
<1>10. CASE EndMerge
  <2>1. FlagsInv /\ Planning'
    BY <1>3, <1>10 DEF EndMerge, Planning
  <2> QED BY <2>1, <1>2, <1>10, FlagsEndMerge
<1>11. CASE Adjust
  <2>1. FlagsInv /\ phase' = "adjusted"
    BY <1>3, <1>11 DEF Adjust
  <2>2. \A d \in Directions : WrittenFins(d)'
    BY <2>1, <1>11, FinsAdjust
  <2> QED BY <2>1, <2>2 DEF FinsInv, Planning
<1>12. ASSUME NEW k \in todo,
              \/ PreserveSegment(k) \/ FillSegment(k) \/ DeleteSegment(k)
              \/ RemapSegment(k) \/ DropRetransmission(k)
       PROVE  FinsInv'
  <2>1. FlagsInv /\ Planning'
    BY <1>3, <1>12 DEF PreserveSegment, FillSegment, DeleteSegment, RemapSegment,
       DropRetransmission, Planning
  <2> QED BY <2>1, <1>2, <1>12, FlagsPreserveSegment, FlagsFillSegment, FlagsDeleteSegment,
             FlagsRemapSegment, FlagsDropRetransmission
<1>13. ASSUME NEW k \in todo, EmitPacket(k) PROVE FinsInv'
  <2>1. phase = "adjusted" /\ phase' \in {"adjusted", "done"}
    BY <1>13 DEF EmitPacket
  <2>2. \A d \in Directions : WrittenFins(d)'
    BY <2>1, <1>13, FinsEmitPacket DEF FinsInv
  <2> QED BY <2>1, <2>2 DEF FinsInv, Planning
<1> QED BY <1>1, <1>4, <1>5, <1>6, <1>7, <1>8, <1>9, <1>10, <1>11, <1>12, <1>13 DEF Next

\* The input never changes, nor where its FINs are.
LEMMA FinsComeLastStays ==
  ASSUME [Next]_vars
  PROVE  FinsComeLast' => FinsComeLast
<1>1. input' = input
  BY DEF Next, vars, BeginPreserve, DegradeFlow, EndPreserve, BeginMerge, ClonePiece, CloseFlow,
     EndMerge, Adjust, PreserveSegment, FillSegment, DeleteSegment, RemapSegment,
     DropRetransmission, EmitPacket
<1>2. \A packet : EndOf(packet)' = EndOf(packet)
  BY <1>1 DEF EndOf, OffsetOf, Base
<1>3. \A d : Fins(d, input.packets)' = Fins(d, input.packets)
  BY <1>1 DEF Fins
<1>4. \A d : FinComesLast(d)' = FinComesLast(d)
  <2>1. /\ \A d : /\ NewBytes(d)' = NewBytes(d) /\ Segments(d)' = Segments(d)
                  /\ Primaries(d)' = Primaries(d)
        /\ \A k, m : InStreamOrder(k, m)' = InStreamOrder(k, m)
    BY <1>1, InputFrame, PrimaryFrame
  <2>2. \A k : EndOf(input.packets[k])' = EndOf(input.packets[k])
    BY <1>1 DEF EndOf, OffsetOf, Base
  <2> QED BY <1>1, <1>3, <2>1, <2>2 DEF FinComesLast
<1> QED BY <1>4 DEF FinsComeLast

LEMMA FinsCloseStreams ==
  ASSUME BaseInv, FinsInv
  PROVE  FinClosesStream
<1> SUFFICES ASSUME Done, NEW d \in Directions
             PROVE  /\ Cardinality(Fins(d, output)) = Cardinality(Fins(d, input.packets))
                    /\ \A i \in Fins(d, output) : EndOf(output[i]) = Len(NewBytes(d))
  BY DEF FinClosesStream
<1>1. WrittenFins(d) /\ todo = {}
  BY DEF Done, FinsInv, BaseInv, TodoOK
<1>2. Bearers(d) \ todo = Bearers(d)
  BY <1>1
<1>3. Cardinality(Fins(d, output)) = Cardinality(Fins(d, input.packets))
  BY <1>1, <1>2 DEF WrittenFins
<1>4. ASSUME NEW i \in Fins(d, output) PROVE EndOf(output[i]) = Len(NewBytes(d))
  <2>1. output[i] \in Range(output) /\ output[i].dir = d /\ output[i].fin
    BY DEF Fins, Range
  <2> QED BY <2>1, <1>1 DEF WrittenFins, EndsStream
<1> QED BY <1>3, <1>4

(***************************************************************************)
(* For ordinary flows whose FINs come last: no FIN is lost or doubled when *)
(* packets are refilled, cloned, deleted or remapped, and each is behind   *)
(* the last byte of its new stream.                                        *)
(***************************************************************************)
THEOREM FinsCloseTheirStreams == Spec => [](IsOrdinary /\ FinsComeLast => FinClosesStream)
<1> DEFINE Ordinary == BaseInv /\ (IsOrdinary => OrdinaryInv)
           IInv == IsOrdinary /\ FinsComeLast => FinsInv
<1>1. Init => IInv
  <2> SUFFICES ASSUME Init, IsOrdinary, FinsComeLast PROVE FinsInv
    OBVIOUS
  <2>1. BaseInv /\ OrdinaryInv /\ phase = "next"
    BY BaseInit, OrdinaryInit DEF Init
  <2> QED BY <2>1, FlagsInit DEF FinsInv
<1>2. Ordinary /\ Ordinary' /\ IInv /\ [Next]_vars => IInv'
  BY FinsNext, StaysOrdinary, FinsComeLastStays
<1>3. Ordinary /\ IInv => (IsOrdinary /\ FinsComeLast => FinClosesStream)
  BY FinsCloseStreams
<1>4. Spec => []Ordinary
  BY OrdinaryFlowsAreRewritten
<1> QED BY <1>1, <1>2, <1>3, <1>4, PTL DEF Spec
=============================================================================
