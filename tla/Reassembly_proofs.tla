-------------------------- MODULE Reassembly_proofs --------------------------
(***************************************************************************)
(* Proofs about what is put together: StreamReassembly, for every list of  *)
(* payloads and every size of the sequence ring; then, from AscendingFacts *)
(* on, Fragments, for every capture of fragments of any datagrams.         *)
(***************************************************************************)
EXTENDS StreamReassembly, Fragments, Coordinates_proofs, FiniteSetTheorems

\* What is known of one payload of the input.
LEMMA PayloadFacts ==
  ASSUME payloads \in Captures, base_seq \in SeqNumbers, NEW k \in Packets
  PROVE  /\ payloads[k].seq \in SeqNumbers
         /\ Size(k) \in Nat \ {0}
         /\ Offset(k) # NoOffset => Offset(k) \in Nat
         /\ \A pos \in Span(k) :
              Offset(k) # NoOffset => ByteAt(k, pos) \in Bytes
<1>1. payloads \in Seq(Payload)
  BY CapturesAssumption
<1>2. payloads[k] \in Payload
  BY <1>1 DEF Packets
<1>3. /\ payloads[k].seq \in SeqNumbers
      /\ payloads[k].payload \in Seq(Bytes) /\ payloads[k].payload # << >>
  BY <1>2 DEF Payload
<1>4. Size(k) \in Nat \ {0}
  BY <1>3 DEF Size
<1>5. SeqSub(payloads[k].seq, base_seq) \in Nat
  BY <1>3, SeqSubType, SeqHalfAssumption DEF SeqNumbers, TcpSeqMod
<1>6. Offset(k) # NoOffset => Offset(k) \in Nat
  BY <1>5 DEF Offset, SeqOffset
<1>7. ASSUME NEW pos \in Span(k), Offset(k) # NoOffset
      PROVE  ByteAt(k, pos) \in Bytes
  <2>1. pos - Offset(k) + 1 \in 1 .. Len(payloads[k].payload)
    BY <1>3, <1>4, <1>6, <1>7 DEF Span, Size
  <2>2. QED
    BY <1>3, <2>1 DEF ByteAt
<1>8. QED
  BY <1>3, <1>4, <1>6, <1>7

(***************************************************************************)
(* Two numbers in the half ring that starts at anchor: x is not after y,   *)
(* as seen from the anchor, iff y is less than half a ring ahead of x.     *)
(***************************************************************************)
LEMMA HalfRingOrder ==
  ASSUME NEW anchor \in SeqNumbers, NEW x \in SeqNumbers, NEW y \in SeqNumbers,
         SeqSub(x, anchor) < SeqHalf, SeqSub(y, anchor) < SeqHalf
  PROVE  SeqSub(y, x) < SeqHalf <=> SeqSub(x, anchor) <= SeqSub(y, anchor)
<1>1. /\ SeqSub(x, anchor) = IF x >= anchor THEN x - anchor ELSE x - anchor + TcpSeqMod
      /\ SeqSub(y, anchor) = IF y >= anchor THEN y - anchor ELSE y - anchor + TcpSeqMod
      /\ SeqSub(y, x) = IF y >= x THEN y - x ELSE y - x + TcpSeqMod
  BY SeqSubLinear
<1>2. QED
  BY <1>1, SeqHalfAssumption DEF SeqNumbers, TcpSeqMod

-----------------------------------------------------------------------------
(***************************************************************************)
(* The base search.  Invariant: the base is one of the sequence numbers,   *)
(* and seen from any anchor whose half ring holds them all, none of those  *)
(* looked at so far lies before it.                                        *)
(***************************************************************************)
BaseInv ==
  /\ payloads \in Captures
  /\ phase \in {"base", "fill", "done"}
  /\ next \in Nat \ {0}
  /\ base_seq \in SeqNumbers
  /\ \E k \in Packets : base_seq = payloads[k].seq
  /\ phase # "base" => next > Len(payloads)
  /\ \A anchor \in SeqNumbers, k \in Packets :
       (InHalfRingOf(anchor) /\ k < next)
         => SeqSub(base_seq, anchor) <= SeqSub(payloads[k].seq, anchor)

LEMMA BaseInit == Init => BaseInv
<1> SUFFICES ASSUME Init PROVE BaseInv
  OBVIOUS
<1>1. payloads \in Seq(Payload) /\ payloads # << >>
  BY CapturesAssumption DEF Init
<1>2. 1 \in Packets
  BY <1>1 DEF Packets
<1>3. payloads[1] \in Payload
  BY <1>1, <1>2 DEF Packets
<1>4. base_seq \in SeqNumbers
  BY <1>3 DEF Payload, Init
<1>5. \A k \in Packets : ~(k < next)
  BY DEF Packets, Init
<1>6. QED
  BY <1>2, <1>4, <1>5 DEF BaseInv, Init

LEMMA BaseStep == BaseInv /\ [Next]_vars => BaseInv'
<1> SUFFICES ASSUME BaseInv, [Next]_vars PROVE BaseInv'
  OBVIOUS
<1> USE DEF BaseInv
<1>1. CASE ScanBase
  <2>1. payloads' = payloads /\ Packets' = Packets /\ phase' = phase /\ next' = next + 1
    BY <1>1 DEF ScanBase, Packets
  <2>2. next \in Packets /\ payloads[next].seq \in SeqNumbers
    BY <1>1, PayloadFacts DEF ScanBase
  <2>3. base_seq' \in SeqNumbers /\ \E k \in Packets : base_seq' = payloads[k].seq
    BY <1>1, <2>2 DEF ScanBase
  <2>4. ASSUME NEW anchor \in SeqNumbers, NEW k \in Packets, InHalfRingOf(anchor), k < next + 1
        PROVE  SeqSub(base_seq', anchor) <= SeqSub(payloads[k].seq, anchor)
    <3> DEFINE r(s) == SeqSub(s, anchor)
    <3>1. payloads[k].seq \in SeqNumbers
      BY PayloadFacts
    <3>2. r(base_seq) \in Nat /\ r(payloads[next].seq) \in Nat /\ r(payloads[k].seq) \in Nat
      BY <2>2, <3>1, SeqSubType
    <3>3. r(base_seq) < SeqHalf /\ r(payloads[next].seq) < SeqHalf
      BY <2>2, <2>4 DEF InHalfRingOf
    <3>4. IsEarlier(payloads[next].seq) <=> r(payloads[next].seq) <= r(base_seq)
      BY <2>2, <3>3, HalfRingOrder DEF IsEarlier
    <3>5. r(base_seq') <= r(base_seq) /\ r(base_seq') <= r(payloads[next].seq)
      BY <1>1, <3>2, <3>4 DEF ScanBase
    <3>6. CASE k < next
      <4>1. r(base_seq) <= r(payloads[k].seq)
        BY <2>4, <3>6
      <4>2. r(base_seq') \in Nat
        BY <2>3, SeqSubType
      <4>3. QED
        BY <3>2, <3>5, <4>1, <4>2
    <3>7. CASE k = next
      BY <3>5, <3>7
    <3>8. QED
      BY <2>4, <3>6, <3>7 DEF Packets
  <2>5. \A anchor \in SeqNumbers : InHalfRingOf(anchor)' <=> InHalfRingOf(anchor)
    BY <2>1 DEF InHalfRingOf
  <2>6. phase' = "base"
    BY <1>1 DEF ScanBase
  <2>7. QED
    BY <2>1, <2>3, <2>4, <2>5, <2>6
<1>2. CASE StartFill
  <2>1. next > Len(payloads)
    BY <1>2, CapturesAssumption DEF StartFill, Packets
  <2>2. QED
    BY <1>2, <2>1 DEF StartFill, Packets, InHalfRingOf
<1>3. CASE WriteSegment
  BY <1>3 DEF WriteSegment, Packets, InHalfRingOf
<1>4. CASE Finish
  BY <1>4 DEF Finish, Packets, InHalfRingOf
<1>5. CASE UNCHANGED vars
  BY <1>5 DEF vars, Packets, InHalfRingOf
<1>6. QED
  BY <1>1, <1>2, <1>3, <1>4, <1>5 DEF Next

(***************************************************************************)
(* No payload of a capture that fits in half the ring is left out, and     *)
(* none lies before the base.                                              *)
(***************************************************************************)
THEOREM BaseFound == Spec => []BaseIsEarliest
<1>1. BaseInv => BaseIsEarliest
  <2> SUFFICES ASSUME BaseInv, NEW anchor \in SeqNumbers, InHalfRingOf(anchor),
                      phase # "base", NEW k \in Packets
               PROVE  Offset(k) # NoOffset
    BY DEF BaseIsEarliest
  <2> USE DEF BaseInv
  <2>1. payloads[k].seq \in SeqNumbers /\ SeqSub(payloads[k].seq, anchor) < SeqHalf
    BY PayloadFacts DEF InHalfRingOf
  <2>2. SeqSub(base_seq, anchor) < SeqHalf
    BY DEF InHalfRingOf
  <2>3. k < next
    BY CapturesAssumption DEF Packets
  <2>4. SeqSub(payloads[k].seq, base_seq) < SeqHalf
    BY <2>1, <2>2, <2>3, HalfRingOrder
  <2>5. SeqSub(payloads[k].seq, base_seq) \in Nat
    BY <2>1, SeqSubType
  <2>6. QED
    BY <2>4, <2>5, SeqHalfAssumption DEF Offset, SeqOffset, NoOffset
<1>2. QED
  BY BaseInit, BaseStep, <1>1, PTL DEF Spec

-----------------------------------------------------------------------------
(***************************************************************************)
(* The fill loop.  The invariant says of the payloads written so far what  *)
(* the two properties say of all of them, and that the sort order puts     *)
(* them before every pending one: without that a later payload could beat  *)
(* the first writer of a byte.                                             *)
(***************************************************************************)
FillInv ==
  /\ BaseInv
  /\ phase = "base" => size = 0 /\ pending = {} /\ DOMAIN segments = {}
  /\ pending \subseteq Packets /\ DOMAIN segments \subseteq Packets
  /\ \A k \in pending \cup DOMAIN segments : Offset(k) # NoOffset
  /\ \A k \in DOMAIN segments, m \in pending : Before(k, m)
  /\ \A k \in DOMAIN segments : Offset(k) + Size(k) <= size
  /\ size \in Nat
  /\ stream \in [0 .. size - 1 -> Bytes \cup {Hole}]
  /\ \A pos \in 0 .. size - 1 : ByteIsOfFirst(pos)
  /\ UNION {Span(k) : k \in Primaries} = (0 .. size - 1) \ Holes

LEMMA FillInit == Init => FillInv
<1> SUFFICES ASSUME Init PROVE FillInv
  OBVIOUS
<1>1. BaseInv
  BY BaseInit
<1>2. size = 0 /\ pending = {} /\ DOMAIN segments = {} /\ 0 .. size - 1 = {}
  BY DEF Init
<1>3. stream \in [0 .. size - 1 -> Bytes \cup {Hole}]
  BY <1>2 DEF Init
<1>4. Primaries = {}
  BY <1>2 DEF Primaries
<1>5. QED
  BY <1>1, <1>2, <1>3, <1>4 DEF FillInv

\* What one round of the loop relies on and changes.
LEMMA WriteFacts ==
  ASSUME FillInv, NEW k \in pending, phase = "fill"
  PROVE  /\ Offset(k) \in Nat /\ Size(k) \in Nat \ {0}
         /\ Span(k) = Offset(k) .. Offset(k) + Size(k) - 1
         /\ EnsuredSize(k) \in Nat
         /\ size <= EnsuredSize(k) /\ Offset(k) + Size(k) <= EnsuredSize(k)
         /\ EnsuredSize(k) = size \/ EnsuredSize(k) = Offset(k) + Size(k)
         /\ Fresh(k) \subseteq Span(k)
         /\ \A pos \in Fresh(k) : ByteAt(k, pos) \in Bytes
         /\ \A pos \in Span(k) \ Fresh(k) : pos < size /\ stream[pos] # Hole
<1> USE DEF FillInv, BaseInv
<1>1. k \in Packets /\ Offset(k) # NoOffset
  OBVIOUS
<1>2. Offset(k) \in Nat /\ Size(k) \in Nat \ {0}
  BY <1>1, PayloadFacts
<1>3. \A pos \in Span(k) : ByteAt(k, pos) \in Bytes
  BY <1>1, PayloadFacts
<1>4. \A pos \in Span(k) \ Fresh(k) : pos < size /\ stream[pos] # Hole
  BY <1>2 DEF Span, Fresh
<1>5. QED
  BY <1>2, <1>3, <1>4 DEF Span, EnsuredSize, Fresh

\* Nobody has written a fresh position, and a written one has a first writer.
LEMMA FreshIsUncovered ==
  ASSUME FillInv, NEW k \in pending, phase = "fill", NEW pos \in Fresh(k)
  PROVE  Covering(pos) = {}
<1> USE DEF FillInv, BaseInv
<1>1. pos \in Nat
  BY WriteFacts
<1>2. CASE pos >= size
  <2>1. ASSUME NEW m \in DOMAIN segments PROVE pos \notin Span(m)
    <3>1. Offset(m) \in Nat /\ Size(m) \in Nat /\ Offset(m) + Size(m) <= size
      BY <2>1, PayloadFacts
    <3>2. QED
      BY <1>1, <1>2, <3>1 DEF Span
  <2>2. QED
    BY <2>1 DEF Covering
<1>3. CASE pos < size /\ stream[pos] = Hole
  <2>1. ByteIsOfFirst(pos)
    BY <1>1, <1>3
  <2>2. ASSUME NEW m \in Covering(pos) PROVE stream[pos] # ByteAt(m, pos)
    BY <1>3, <2>2, PayloadFacts, HoleAssumption DEF Covering
  <2>3. QED
    BY <2>1, <2>2 DEF ByteIsOfFirst
<1>4. pos >= size \/ stream[pos] = Hole
  BY DEF Fresh
<1>5. size \in Nat
  OBVIOUS
<1>6. QED
  BY <1>1, <1>2, <1>3, <1>4, <1>5

\* Payload k fills its span.
LEMMA FilledGrows ==
  ASSUME FillInv, NEW k \in pending, phase = "fill",
         size' = EnsuredSize(k), stream' = Written(k)
  PROVE  (0 .. size' - 1) \ Holes' = ((0 .. size - 1) \ Holes) \cup Span(k)
<1>1. size \in Nat /\ size' \in Nat
  <2>1. EnsuredSize(k) \in Nat
    BY WriteFacts
  <2>2. size \in Nat
    BY DEF FillInv
  <2>3. QED
    BY <2>1, <2>2
<1>2. \A pos \in 0 .. size' - 1 :
        stream'[pos] = IF pos \in Fresh(k) THEN ByteAt(k, pos)
                       ELSE IF pos < size THEN stream[pos] ELSE Hole
  BY DEF Written
<1>3. ASSUME NEW pos \in 0 .. size' - 1
      PROVE  stream'[pos] # Hole <=> (pos < size /\ stream[pos] # Hole) \/ pos \in Span(k)
  <2>1. CASE pos \in Fresh(k)
    BY <1>2, <2>1, WriteFacts, HoleAssumption
  <2>2. CASE pos \in Span(k) \ Fresh(k)
    BY <1>2, <2>2, WriteFacts
  <2>3. CASE pos \notin Span(k)
    BY <1>2, <2>3, WriteFacts
  <2>4. QED
    BY <2>1, <2>2, <2>3
<1>4. Span(k) \subseteq 0 .. size' - 1 /\ 0 .. size - 1 \subseteq 0 .. size' - 1
  BY <1>1, WriteFacts
<1>5. Holes = {pos \in 0 .. size - 1 : stream[pos] = Hole}
      /\ Holes' = {pos \in 0 .. size' - 1 : stream'[pos] = Hole}
  BY DEF Holes
<1>6. QED
  BY <1>3, <1>4, <1>5, <1>1

LEMMA WriteStep ==
  ASSUME FillInv, BaseInv', NEW k \in pending, phase = "fill", phase' = "fill",
         \A m \in pending \ {k} : Before(k, m),
         size' = EnsuredSize(k),
         stream' = Written(k),
         segments' = [m \in DOMAIN segments \cup {k} |->
                        IF m = k THEN Meta(k) ELSE segments[m]],
         pending' = pending \ {k},
         UNCHANGED <<payloads, base_seq>>
  PROVE  FillInv'
<1> USE DEF FillInv
<1>1. /\ Packets' = Packets
      /\ \A m : Offset(m)' = Offset(m) /\ Size(m)' = Size(m) /\ Span(m)' = Span(m)
      /\ \A m, pos : ByteAt(m, pos)' = ByteAt(m, pos)
      /\ \A m, n : Before(m, n)' <=> Before(m, n)
  BY DEF Packets, Offset, Size, Span, ByteAt, Before
<1>2. k \in Packets /\ DOMAIN segments' = DOMAIN segments \cup {k}
  OBVIOUS
<1>3. \A m \in DOMAIN segments', n \in pending' : Before(m, n)'
  BY <1>1, <1>2
<1>4. \A m \in DOMAIN segments' : Offset(m)' + Size(m)' <= size'
  <2>1. ASSUME NEW m \in DOMAIN segments PROVE Offset(m) + Size(m) <= size'
    <3>1. Offset(m) \in Nat /\ Size(m) \in Nat /\ Offset(m) + Size(m) <= size
      BY <2>1, PayloadFacts DEF BaseInv
    <3>2. QED
      BY <3>1, WriteFacts
  <2>2. QED
    BY <1>1, <1>2, <2>1, WriteFacts
<1>5. size' \in Nat /\ stream' \in [0 .. size' - 1 -> Bytes \cup {Hole}]
  BY WriteFacts DEF Written
<1>6. \A pos \in 0 .. size' - 1 :
        stream'[pos] = IF pos \in Fresh(k) THEN ByteAt(k, pos)
                       ELSE IF pos < size THEN stream[pos] ELSE Hole
  BY DEF Written
<1>7. \A pos : Covering(pos)' = IF pos \in Span(k) THEN Covering(pos) \cup {k}
                                                    ELSE Covering(pos)
  BY <1>1, <1>2 DEF Covering
<1>8. ASSUME NEW pos \in 0 .. size' - 1 PROVE ByteIsOfFirst(pos)'
  <2>1. CASE pos \in Fresh(k)
    <3>1. Covering(pos)' = {k}
      BY <1>7, <2>1, FreshIsUncovered, WriteFacts
    <3>2. stream'[pos] = ByteAt(k, pos)'
      BY <1>1, <1>6, <2>1
    <3>3. Offset(k)' \in Nat /\ Size(k)' \in Nat /\ k \in Nat
      BY <1>1, <1>2, WriteFacts DEF Packets
    <3>4. QED
      BY <3>1, <3>2, <3>3 DEF ByteIsOfFirst
  <2>2. CASE pos \in Span(k) \ Fresh(k)
    <3>1. pos \in 0 .. size - 1 /\ stream[pos] # Hole
      BY <2>2, WriteFacts
    <3>2. ByteIsOfFirst(pos) /\ stream'[pos] = stream[pos]
      BY <1>6, <2>2, <3>1
    <3>3. PICK m \in Covering(pos) :
            /\ stream[pos] = ByteAt(m, pos)
            /\ \A n \in Covering(pos) :
                 /\ Offset(m) <= Offset(n)
                 /\ Offset(m) = Offset(n) => Size(m) >= Size(n)
                 /\ (Offset(m) = Offset(n) /\ Size(m) = Size(n)) => m <= n
      BY <3>1, <3>2 DEF ByteIsOfFirst
    <3>4. Before(m, k)
      BY <3>3 DEF Covering
    <3>5. /\ Offset(m) \in Nat /\ Size(m) \in Nat /\ m \in Nat
          /\ Offset(k) \in Nat /\ Size(k) \in Nat /\ k \in Nat
      BY <1>2, <3>3, PayloadFacts, WriteFacts DEF Covering, BaseInv, Packets
    <3>6. /\ Offset(m) <= Offset(k)
          /\ Offset(m) = Offset(k) => Size(m) >= Size(k)
          /\ (Offset(m) = Offset(k) /\ Size(m) = Size(k)) => m <= k
      BY <3>4, <3>5 DEF Before
    <3>7. Covering(pos)' = Covering(pos) \cup {k}
      BY <1>7, <2>2
    <3>8. QED
      BY <1>1, <3>2, <3>3, <3>6, <3>7 DEF ByteIsOfFirst
  <2>3. CASE pos \notin Span(k) /\ pos < size
    <3>1. pos \in 0 .. size - 1 /\ ByteIsOfFirst(pos)
      BY <1>5, <2>3
    <3>2. stream'[pos] = stream[pos] /\ Covering(pos)' = Covering(pos)
      BY <1>6, <1>7, <2>3, WriteFacts
    <3>3. QED
      BY <1>1, <3>1, <3>2 DEF ByteIsOfFirst
  <2>4. CASE pos \notin Span(k) /\ pos >= size
    <3>1. stream'[pos] = Hole
      BY <1>6, <2>4, WriteFacts
    <3>2. ASSUME NEW m \in DOMAIN segments PROVE pos \notin Span(m)
      <4>1. Offset(m) \in Nat /\ Size(m) \in Nat /\ Offset(m) + Size(m) <= size
        BY <3>2, PayloadFacts DEF BaseInv
      <4>2. QED
        BY <2>4, <4>1 DEF Span
    <3>3. Covering(pos)' = {}
      BY <1>7, <2>4, <3>2 DEF Covering
    <3>4. QED
      BY <3>1, <3>3 DEF ByteIsOfFirst
  <2>5. QED
    BY <1>5, <2>1, <2>2, <2>3, <2>4
<1>9. (0 .. size' - 1) \ Holes' = ((0 .. size - 1) \ Holes) \cup Span(k)
  BY FilledGrows
<1>10. UNION {Span(m)' : m \in Primaries'}
         = (UNION {Span(m) : m \in Primaries}) \cup Span(k)
  <2>1. Primaries' = IF Fresh(k) # {} THEN (Primaries \ {k}) \cup {k} ELSE Primaries \ {k}
    BY <1>2 DEF Primaries, Meta, IsPrimary
  <2>2. k \notin DOMAIN segments
    <3>1. ~Before(k, k)
      BY <1>2, WriteFacts DEF Before, Packets
    <3>2. QED
      BY <3>1
  <2>3. k \notin Primaries
    BY <2>2 DEF Primaries
  <2>4. CASE Fresh(k) # {}
    BY <1>1, <2>1, <2>3, <2>4
  <2>5. CASE Fresh(k) = {}
    <3>1. ASSUME NEW pos \in Span(k) PROVE pos \in (0 .. size - 1) \ Holes
      <4>1. pos < size /\ stream[pos] # Hole
        BY <2>5, WriteFacts
      <4>2. pos \in Nat
        BY WriteFacts
      <4>3. size \in Nat
        OBVIOUS
      <4>4. pos \notin Holes
        BY <4>1 DEF Holes
      <4>5. QED
        BY <4>1, <4>2, <4>3, <4>4
    <3>2. QED
      BY <1>1, <2>1, <2>3, <2>5, <3>1
  <2>6. QED
    BY <2>4, <2>5
<1>11. QED
  BY <1>1, <1>2, <1>3, <1>4, <1>5, <1>8, <1>9, <1>10

LEMMA FillStep == FillInv /\ [Next]_vars => FillInv'
<1> SUFFICES ASSUME FillInv, [Next]_vars PROVE FillInv'
  OBVIOUS
<1>1. BaseInv'
  BY BaseStep DEF FillInv
<1> DEFINE Stays == UNCHANGED <<payloads, base_seq, size, stream, segments>>
<1>2. ASSUME Stays
      PROVE  /\ Packets' = Packets /\ Holes' = Holes /\ Primaries' = Primaries
             /\ \A m : Offset(m)' = Offset(m) /\ Size(m)' = Size(m) /\ Span(m)' = Span(m)
             /\ \A m, n : Before(m, n)' <=> Before(m, n)
             /\ \A pos : ByteIsOfFirst(pos)' <=> ByteIsOfFirst(pos)
  BY <1>2 DEF Packets, Holes, Primaries, Offset, Size, Span, Before, ByteIsOfFirst,
     Covering, ByteAt
<1>3. CASE ScanBase
  <2>1. phase = "base" /\ phase' = "base" /\ UNCHANGED <<payloads, size, stream, segments, pending>>
    BY <1>3 DEF ScanBase
  <2>2. DOMAIN segments = {} /\ pending = {} /\ size = 0 /\ 0 .. size - 1 = {}
    BY <2>1 DEF FillInv
  <2>3. Primaries' = {}
    BY <2>1, <2>2 DEF Primaries
  <2>4. QED
    BY <1>1, <2>1, <2>2, <2>3 DEF FillInv
<1>4. CASE StartFill
  <2>1. Stays /\ phase' = "fill" /\ pending' = {k \in Packets : Offset(k) # NoOffset}
    BY <1>4 DEF StartFill
  <2>2. DOMAIN segments = {} /\ size = 0 /\ 0 .. size - 1 = {}
    BY <1>4 DEF StartFill, FillInv
  <2>3. QED
    BY <1>1, <1>2, <2>1, <2>2 DEF FillInv
<1>5. CASE WriteSegment
  <2>1. PICK k \in pending :
          /\ \A m \in pending \ {k} : Before(k, m)
          /\ size' = EnsuredSize(k)
          /\ stream' = Written(k)
          /\ segments' = [m \in DOMAIN segments \cup {k} |->
                            IF m = k THEN Meta(k) ELSE segments[m]]
          /\ pending' = pending \ {k}
    BY <1>5 DEF WriteSegment
  <2>2. phase = "fill" /\ phase' = "fill" /\ UNCHANGED <<payloads, base_seq>>
    BY <1>5 DEF WriteSegment
  <2>3. QED
    BY <1>1, <2>1, <2>2, WriteStep
<1>6. CASE Finish
  <2>1. Stays /\ pending' = pending /\ phase' = "done"
    BY <1>6 DEF Finish
  <2>2. QED
    BY <1>1, <1>2, <2>1 DEF FillInv
<1>7. CASE UNCHANGED vars
  <2>1. Stays /\ pending' = pending /\ phase' = phase
    BY <1>7 DEF vars
  <2>2. QED
    BY <1>1, <1>2, <2>1 DEF FillInv
<1>8. QED
  BY <1>3, <1>4, <1>5, <1>6, <1>7 DEF Next

(***************************************************************************)
(* Every byte of the stream is that of the first payload in sort order     *)
(* that covers it, whatever the order and overlap of the capture.          *)
(***************************************************************************)
THEOREM FirstWriterDecides == Spec => []FirstPayloadWins
<1>1. FillInv => FirstPayloadWins
  BY DEF FillInv, FirstPayloadWins
<1>2. QED
  BY FillInit, FillStep, <1>1, PTL DEF Spec

(***************************************************************************)
(* The primary segments cover exactly the bytes that were captured, so the *)
(* resegmentation that follows, which writes back primary segments only,   *)
(* loses none and invents none.                                            *)
(***************************************************************************)
THEOREM PrimariesSuffice == Spec => []PrimariesCoverStream
<1>1. FillInv => PrimariesCoverStream
  BY DEF FillInv, PrimariesCoverStream
<1>2. QED
  BY FillInit, FillStep, <1>1, PTL DEF Spec

-----------------------------------------------------------------------------
(***************************************************************************)
(* Counting.  Of the payloads written so far: conflicts is zero iff they   *)
(* agree, and they contributed as many bytes as the stream has.            *)
(***************************************************************************)
Filled == (0 .. size - 1) \ Holes

CountInv ==
  /\ FillInv
  /\ next \in 1 .. Len(payloads) + 1
  /\ conflicts \in Nat
  /\ conflicts = 0 <=> \A k, m \in DOMAIN segments : Agree(k, m)
  /\ IsFiniteSet(Contributions) /\ IsFiniteSet(Filled)
  /\ Cardinality(Contributions) = Cardinality(Filled)

LEMMA CountInit == Init => CountInv
<1> SUFFICES ASSUME Init PROVE CountInv
  OBVIOUS
<1>1. FillInv /\ payloads \in Seq(Payload) /\ payloads # << >>
  BY FillInit, CapturesAssumption DEF Init
<1>2. DOMAIN segments = {} /\ size = 0 /\ 0 .. size - 1 = {}
  BY DEF Init
<1>3. Contributions = {} /\ Filled = {}
  BY <1>2 DEF Contributions, Filled
<1>4. next \in 1 .. Len(payloads) + 1
  BY <1>1 DEF Init
<1>5. conflicts \in Nat /\ conflicts = 0
  BY DEF Init
<1>6. QED
  BY <1>1, <1>2, <1>3, <1>4, <1>5, FS_EmptySet DEF CountInv

LEMMA DisjointUnion ==
  ASSUME NEW S, NEW T, IsFiniteSet(S), IsFiniteSet(T), S \cap T = {}
  PROVE  /\ IsFiniteSet(S \cup T)
         /\ Cardinality(S \cup T) = Cardinality(S) + Cardinality(T)
<1>1. Cardinality(S \cup T) = Cardinality(S) + Cardinality(T) - Cardinality(S \cap T)
  BY FS_Union
<1>2. Cardinality(S \cap T) = 0
  BY FS_EmptySet
<1>3. Cardinality(S) \in Nat /\ Cardinality(T) \in Nat
  BY FS_CardinalityType
<1>4. QED
  BY <1>1, <1>2, <1>3, FS_Union

\* The sets that one round of the loop counts.
LEMMA CountFacts ==
  ASSUME FillInv, NEW k \in pending, phase = "fill"
  PROVE  /\ k \notin DOMAIN segments
         /\ IsFiniteSet(Span(k)) /\ IsFiniteSet(Fresh(k)) /\ IsFiniteSet(Conflicting(k))
         /\ Contribution(k) \in Nat
         /\ Fresh(k) \cap Filled = {} /\ Filled \cup Span(k) = Filled \cup Fresh(k)
<1>1. k \notin DOMAIN segments
  <2>1. ~Before(k, k)
    BY WriteFacts DEF Before, FillInv, Packets
  <2>2. QED
    BY <2>1 DEF FillInv
<1>2. IsFiniteSet(Span(k))
  BY WriteFacts, FS_Interval
<1>3. IsFiniteSet(Fresh(k)) /\ IsFiniteSet(Conflicting(k))
  <2>1. Fresh(k) \in SUBSET Span(k) /\ Conflicting(k) \in SUBSET Span(k)
    BY DEF Fresh, Conflicting
  <2>2. QED
    BY <1>2, <2>1, FS_Subset
<1>4. Contribution(k) \in Nat
  BY <1>3, FS_CardinalityType DEF Contribution
<1>5. Fresh(k) \cap Filled = {}
  BY DEF Fresh, Filled, Holes, FillInv
<1>6. \A pos \in Span(k) \ Fresh(k) : pos \in Filled
  BY WriteFacts DEF Filled, Holes, FillInv
<1>7. QED
  BY <1>1, <1>2, <1>3, <1>4, <1>5, <1>6 DEF Fresh

\* A payload adds a conflict iff it disagrees with one that was written.
LEMMA ConflictMeansDisagreement ==
  ASSUME FillInv, NEW k \in pending, phase = "fill",
         \A m, n \in DOMAIN segments : Agree(m, n)
  PROVE  Conflicting(k) = {} <=> \A m \in DOMAIN segments : Agree(k, m)
<1>1. ASSUME NEW pos \in Span(k) \ Fresh(k)
      PROVE  \E n \in DOMAIN segments : pos \in Span(n) /\ stream[pos] = ByteAt(n, pos)
  <2>1. pos \in 0 .. size - 1 /\ stream[pos] # Hole
    BY WriteFacts DEF FillInv
  <2>2. ByteIsOfFirst(pos)
    BY <2>1 DEF FillInv
  <2>3. QED
    BY <2>1, <2>2 DEF ByteIsOfFirst, Covering
<1>2. ASSUME NEW m \in DOMAIN segments, NEW pos \in Span(k) \cap Span(m)
      PROVE  pos \in Span(k) \ Fresh(k) /\ stream[pos] = ByteAt(m, pos)
  <2>1. Covering(pos) # {}
    BY <1>2 DEF Covering
  <2>2. pos \in Span(k) \ Fresh(k)
    BY <2>1, FreshIsUncovered
  <2>3. PICK n \in DOMAIN segments : pos \in Span(n) /\ stream[pos] = ByteAt(n, pos)
    BY <1>1, <2>2
  <2>4. Agree(n, m)
    OBVIOUS
  <2>5. QED
    BY <1>2, <2>2, <2>3, <2>4 DEF Agree
<1>3. ASSUME Conflicting(k) = {}, NEW m \in DOMAIN segments
      PROVE  Agree(k, m)
  BY <1>2, <1>3 DEF Agree, Conflicting
<1>4. ASSUME \A m \in DOMAIN segments : Agree(k, m)
      PROVE  Conflicting(k) = {}
  BY <1>1, <1>4 DEF Agree, Conflicting
<1>5. QED
  BY <1>3, <1>4

LEMMA CountWrite ==
  ASSUME CountInv, FillInv', NEW k \in pending, phase = "fill",
         size' = EnsuredSize(k),
         stream' = Written(k),
         segments' = [m \in DOMAIN segments \cup {k} |->
                        IF m = k THEN Meta(k) ELSE segments[m]],
         conflicts' = conflicts + Cardinality(Conflicting(k)),
         UNCHANGED <<payloads, next, base_seq>>
  PROVE  CountInv'
<1>1. FillInv
  BY DEF CountInv
<1>2. DOMAIN segments' = DOMAIN segments \cup {k}
  OBVIOUS
<1>3. \A m, n : Agree(m, n)' <=> Agree(m, n)
  BY DEF Agree, Span, ByteAt, Offset, Size
<1>4. next' \in 1 .. Len(payloads') + 1
  BY DEF CountInv
<1>5. /\ Cardinality(Conflicting(k)) \in Nat
      /\ Cardinality(Conflicting(k)) = 0 <=> Conflicting(k) = {}
  BY <1>1, CountFacts, FS_CardinalityType, FS_EmptySet
<1>6. conflicts' \in Nat /\ (conflicts' = 0 <=> conflicts = 0 /\ Conflicting(k) = {})
  BY <1>5 DEF CountInv
<1>7. conflicts' = 0 <=> \A m, n \in DOMAIN segments' : Agree(m, n)'
  <2>1. \A m : Agree(m, m) /\ (Agree(k, m) <=> Agree(m, k))
    BY DEF Agree
  <2>2. conflicts = 0 <=> \A m, n \in DOMAIN segments : Agree(m, n)
    BY DEF CountInv
  <2>3. CASE conflicts = 0
    <3>1. Conflicting(k) = {} <=> \A m \in DOMAIN segments : Agree(k, m)
      BY <1>1, <2>2, <2>3, ConflictMeansDisagreement
    <3>2. QED
      BY <1>2, <1>3, <1>6, <2>1, <2>2, <2>3, <3>1
  <2>4. CASE conflicts # 0
    BY <1>2, <1>3, <1>6, <2>2, <2>4
  <2>5. QED
    BY <2>3, <2>4
<1>8. /\ Contributions' = Contributions \cup ({k} \X (1 .. Contribution(k)))
      /\ Contributions \cap ({k} \X (1 .. Contribution(k))) = {}
  <2>1. /\ segments'[k].contributed = Contribution(k)
        /\ \A m \in DOMAIN segments : segments'[m] = segments[m]
    BY <1>1, CountFacts DEF Meta
  <2>2. k \notin DOMAIN segments
    BY <1>1, CountFacts
  <2>3. QED
    BY <1>2, <2>1, <2>2 DEF Contributions
<1>9. Filled' = Filled \cup Fresh(k) /\ Fresh(k) \cap Filled = {}
  BY <1>1, FilledGrows, CountFacts DEF Filled
<1>10. /\ IsFiniteSet({k} \X (1 .. Contribution(k)))
       /\ Cardinality({k} \X (1 .. Contribution(k))) = Contribution(k)
  <2>1. PICK count \in Nat : count = Contribution(k)
    BY <1>1, CountFacts
  <2>2. IsFiniteSet(1 .. count) /\ Cardinality(1 .. count) = count
    BY FS_Interval
  <2>3. IsFiniteSet({k}) /\ Cardinality({k}) = 1
    BY FS_Singleton
  <2>4. /\ IsFiniteSet({k} \X (1 .. count))
        /\ Cardinality({k} \X (1 .. count)) = Cardinality({k}) * Cardinality(1 .. count)
    BY <2>2, <2>3, FS_Product
  <2>5. 1 * count = count
    OBVIOUS
  <2>6. Cardinality({k} \X (1 .. count)) = count
    BY <2>2, <2>3, <2>4, <2>5
  <2>7. QED
    BY <2>1, <2>4, <2>6
<1>11. /\ IsFiniteSet(Contributions')
       /\ Cardinality(Contributions') = Cardinality(Contributions) + Contribution(k)
  <2>1. IsFiniteSet(Contributions)
    BY DEF CountInv
  <2>2. QED
    BY <1>8, <1>10, <2>1, DisjointUnion
<1>12. /\ IsFiniteSet(Filled')
       /\ Cardinality(Filled') = Cardinality(Filled) + Contribution(k)
  <2>1. /\ IsFiniteSet(Filled) /\ Cardinality(Filled) \in Nat
        /\ IsFiniteSet(Fresh(k)) /\ Cardinality(Fresh(k)) \in Nat
        /\ Filled \cap Fresh(k) = {}
    BY <1>1, <1>9, CountFacts, FS_CardinalityType DEF CountInv
  <2>2. QED
    BY <1>9, <2>1, DisjointUnion DEF Contribution
<1>13. QED
  BY <1>4, <1>6, <1>7, <1>11, <1>12 DEF CountInv

LEMMA CountStep == CountInv /\ [Next]_vars => CountInv'
<1> SUFFICES ASSUME CountInv, [Next]_vars PROVE CountInv'
  OBVIOUS
<1>1. FillInv'
  BY FillStep DEF CountInv
<1>2. ASSUME UNCHANGED <<payloads, base_seq, size, stream, segments, conflicts>>,
             next' \in 1 .. Len(payloads) + 1
      PROVE  CountInv'
  <2>1. /\ Contributions' = Contributions /\ Filled' = Filled
        /\ \A k, m : Agree(k, m)' <=> Agree(k, m)
    BY <1>2 DEF Contributions, Filled, Holes, Agree, Span, ByteAt, Offset, Size
  <2>2. QED
    BY <1>1, <1>2, <2>1 DEF CountInv
<1>3. CASE ScanBase
  <2>1. UNCHANGED <<payloads, size, stream, segments, conflicts>> /\ phase = "base"
    BY <1>3 DEF ScanBase
  <2>2. next' \in 1 .. Len(payloads) + 1
    <3>1. Len(payloads) \in Nat
      BY CapturesAssumption DEF CountInv, FillInv, BaseInv
    <3>2. QED
      BY <1>3, <3>1 DEF ScanBase, Packets
  <2>3. DOMAIN segments = {}
    BY <2>1 DEF CountInv, FillInv
  <2>4. Contributions' = Contributions /\ Filled' = Filled
    BY <2>1 DEF Contributions, Filled, Holes
  <2>5. QED
    BY <1>1, <2>1, <2>2, <2>3, <2>4 DEF CountInv
<1>4. CASE StartFill
  BY <1>2, <1>4 DEF StartFill, CountInv
<1>5. CASE WriteSegment
  <2>1. PICK k \in pending :
          /\ size' = EnsuredSize(k)
          /\ stream' = Written(k)
          /\ segments' = [m \in DOMAIN segments \cup {k} |->
                            IF m = k THEN Meta(k) ELSE segments[m]]
          /\ conflicts' = conflicts + Cardinality(Conflicting(k))
    BY <1>5 DEF WriteSegment
  <2>2. phase = "fill" /\ UNCHANGED <<payloads, next, base_seq>>
    BY <1>5 DEF WriteSegment
  <2>3. QED
    BY <1>1, <2>1, <2>2, CountWrite
<1>6. CASE Finish
  BY <1>2, <1>6 DEF Finish, CountInv
<1>7. CASE UNCHANGED vars
  BY <1>2, <1>7 DEF vars, CountInv
<1>8. QED
  BY <1>3, <1>4, <1>5, <1>6, <1>7 DEF Next

(***************************************************************************)
(* The conflict counter of a stream is zero iff its payloads agree on all  *)
(* bytes they share, for any number of payloads in any order.              *)
(***************************************************************************)
THEOREM CounterIsReliable == Spec => []ConflictsAreSeen
<1>1. CountInv => ConflictsAreSeen
  BY DEF CountInv, ConflictsAreSeen
<1>2. QED
  BY CountInit, CountStep, <1>1, PTL DEF Spec

(***************************************************************************)
(* The buffers are well formed, and what the segments claim to contribute  *)
(* is the number of bytes of the stream, at every round of the loops.      *)
(***************************************************************************)
THEOREM CountsAreExact == Spec => []ReassemblyInv
<1>1. CountInv => ReassemblyInv
  <2> SUFFICES ASSUME CountInv PROVE ReassemblyInv
    OBVIOUS
  <2>1. TypeOK
    BY DEF CountInv, FillInv, BaseInv, TypeOK
  <2>2. EachByteCountsOnce
    BY DEF CountInv, EachByteCountsOnce, Filled
  <2>3. QED
    BY <2>1, <2>2 DEF ReassemblyInv
<1>2. QED
  BY CountInit, CountStep, <1>1, PTL DEF Spec

-----------------------------------------------------------------------------
(***************************************************************************)
(* A finite set of numbers in ascending order: the rank of a number tells  *)
(* its place, and every place is taken.                                    *)
(***************************************************************************)
LEMMA AscendingFacts ==
  ASSUME NEW S, IsFiniteSet(S), S \subseteq Nat
  PROVE  /\ Cardinality(S) \in Nat
         /\ Ascending(S) \in [1 .. Cardinality(S) -> S]
         /\ \A x \in S : \E n \in 1 .. Cardinality(S) : Ascending(S)[n] = x
         /\ \A m, n \in 1 .. Cardinality(S) : m < n => Ascending(S)[m] < Ascending(S)[n]
<1> DEFINE C == Cardinality(S)
           Below(x) == {y \in S : y < x}
           rank == [x \in S |-> Cardinality(Below(x)) + 1]
<1>1. C \in Nat
  BY FS_CardinalityType
<1>2. ASSUME NEW x \in S
      PROVE  IsFiniteSet(Below(x)) /\ Cardinality(Below(x)) \in Nat /\ Cardinality(Below(x)) < C
  <2>1. Below(x) \in SUBSET S /\ x \notin Below(x)
    OBVIOUS
  <2>2. IsFiniteSet(Below(x)) /\ Cardinality(Below(x)) <= C
        /\ (C = Cardinality(Below(x)) => S = Below(x))
    BY <2>1, FS_Subset, Zenon
  <2>3. Cardinality(Below(x)) \in Nat
    BY <2>2, FS_CardinalityType, Zenon
  <2> HIDE DEF Below
  <2> QED BY <1>1, <2>1, <2>2, <2>3
<1>3. ASSUME NEW x \in S, NEW z \in S, x < z
      PROVE  Cardinality(Below(x)) < Cardinality(Below(z))
  <2>0. \A y \in S : y < x => y < z
    <3>1. \A y \in Nat : y < x => y < z
      BY <1>3
    <3> QED BY <3>1
  <2>1. Below(x) \in SUBSET Below(z) /\ x \in Below(z) /\ x \notin Below(x)
    <3>1. Below(x) \in SUBSET Below(z)
      BY <2>0
    <3>2. x \in Below(z)
      BY <1>3
    <3> QED BY <3>1, <3>2
  <2>2. /\ IsFiniteSet(Below(z)) /\ Cardinality(Below(z)) \in Nat
        /\ IsFiniteSet(Below(x)) /\ Cardinality(Below(x)) \in Nat
    BY <1>2
  <2> HIDE DEF Below
  <2>3. Cardinality(Below(x)) <= Cardinality(Below(z))
        /\ (Cardinality(Below(z)) = Cardinality(Below(x)) => Below(z) = Below(x))
    BY <2>1, <2>2, FS_Subset, Zenon
  <2> QED BY <2>1, <2>2, <2>3
<1>4. rank \in Injection(S, 1 .. C)
  <2>1. rank \in [S -> 1 .. C]
    <3>1. ASSUME NEW x \in S PROVE Cardinality(Below(x)) + 1 \in 1 .. C
      <4> HIDE DEF Below
      <4> QED BY <1>1, <1>2
    <3> QED BY <3>1
  <2>2. ASSUME NEW x \in S, NEW z \in S, rank[x] = rank[z] PROVE x = z
    <3>1. /\ Cardinality(Below(x)) \in Nat /\ Cardinality(Below(z)) \in Nat
          /\ Cardinality(Below(x)) = Cardinality(Below(z))
      <4>1. Cardinality(Below(x)) + 1 = Cardinality(Below(z)) + 1
        BY <2>2
      <4> HIDE DEF Below
      <4> QED BY <1>2, <4>1
    <3>2. ~ (x < z) /\ ~ (z < x)
      <4> HIDE DEF Below
      <4> QED BY <1>3, <3>1
    <3>3. x \in Nat /\ z \in Nat
      OBVIOUS
    <3> QED BY <3>2, <3>3
  <2> QED BY <2>1, <2>2 DEF Injection, IsInjective
<1>5. rank \in Surjection(S, 1 .. C)
  <2>1. IsFiniteSet(1 .. C) /\ Cardinality(1 .. C) = C
    BY <1>1, FS_Interval
  <2> HIDE DEF rank, C
  <2> QED BY <1>4, <2>1, FS_Injection DEF C
<1>6. ASSUME NEW n \in 1 .. C
      PROVE  Ascending(S)[n] \in S /\ Cardinality(Below(Ascending(S)[n])) = n - 1
  <2>1. PICK x \in S : rank[x] = n
    BY <1>5 DEF Surjection
  <2>2. Cardinality(Below(x)) = n - 1
    <3>1. Cardinality(Below(x)) + 1 = n
      BY <2>1
    <3> HIDE DEF Below
    <3> QED BY <1>2, <3>1
  <2>3. \E y \in S : Cardinality({z \in S : z < y}) = n - 1
    BY <2>2
  <2>4. Ascending(S)[n] = CHOOSE y \in S : Cardinality({z \in S : z < y}) = n - 1
    BY DEF Ascending
  <2> QED BY <2>3, <2>4
<1>7. Ascending(S) \in [1 .. C -> S]
  BY <1>6 DEF Ascending
<1>8. ASSUME NEW m \in 1 .. C, NEW n \in 1 .. C, m < n
      PROVE  Ascending(S)[m] < Ascending(S)[n]
  <2>1. PICK x \in S : x = Ascending(S)[m]
    BY <1>6
  <2>2. PICK z \in S : z = Ascending(S)[n]
    BY <1>6
  <2>3. Cardinality(Below(x)) = m - 1 /\ Cardinality(Below(z)) = n - 1
    BY <1>6, <2>1, <2>2
  <2> HIDE DEF Below
  <2>4. x # z /\ ~ (z < x)
    BY <1>3, <1>8, <2>3
  <2>5. x \in Nat /\ z \in Nat
    OBVIOUS
  <2> QED BY <2>1, <2>2, <2>4, <2>5
<1>9. ASSUME NEW x \in S PROVE \E n \in 1 .. C : Ascending(S)[n] = x
  <2>1. PICK n \in Nat : n = Cardinality(Below(x)) + 1
    <3> HIDE DEF Below
    <3> QED BY <1>2
  <2>2. n \in 1 .. C /\ Cardinality(Below(x)) = n - 1
    <3> HIDE DEF Below
    <3> QED BY <1>1, <1>2, <2>1
  <2>3. PICK z \in S : z = Ascending(S)[n]
    BY <1>6, <2>2
  <2>4. Cardinality(Below(z)) = n - 1
    BY <1>6, <2>2, <2>3
  <2> HIDE DEF Below
  <2>5. ~ (x < z) /\ ~ (z < x)
    BY <1>3, <2>2, <2>4
  <2>6. x \in Nat /\ z \in Nat
    OBVIOUS
  <2> QED BY <2>2, <2>3, <2>5, <2>6
<1> QED BY <1>1, <1>7, <1>8, <1>9

-----------------------------------------------------------------------------
(***************************************************************************)
(* A function on 0 .. n that is computed from the place before exists.     *)
(***************************************************************************)
Iterates(g, T, n, base, step) ==
  /\ g \in [0 .. n -> T]
  /\ g[0] = base
  /\ \A m \in 1 .. n : g[m] = step[<<g[m - 1], m>>]

LEMMA IterationExists ==
  ASSUME NEW T, NEW len \in Nat, NEW base \in T, NEW step \in [T \X (1 .. len) -> T]
  PROVE  \E g : Iterates(g, T, len, base, step)
<1> DEFINE Bad == {m \in 0 .. len : ~ \E g : Iterates(g, T, m, base, step)}
<1> SUFFICES ASSUME Bad # {} PROVE FALSE
  OBVIOUS
<1>1. PICK m \in Bad : \A k \in Bad : m <= k
  <2>1. Bad \subseteq Nat
    OBVIOUS
  <2> HIDE DEF Bad
  <2> QED BY <2>1, LeastElement
<1>2. m \in 0 .. len /\ ~ \E g : Iterates(g, T, m, base, step)
  OBVIOUS
<1>3. m # 0
  <2>1. Iterates([k \in 0 .. 0 |-> base], T, 0, base, step)
    BY DEF Iterates
  <2> QED BY <1>2, <2>1
<1>4. m - 1 \in 0 .. len /\ m - 1 \in Nat /\ m \in 1 .. len /\ m - 1 \notin Bad
  <2> HIDE DEF Bad
  <2> QED BY <1>1, <1>2, <1>3
<1>5. PICK g : Iterates(g, T, m - 1, base, step)
  BY <1>4
<1> HIDE DEF Bad
<1> DEFINE last == step[<<g[m - 1], m>>]
           h == [k \in 0 .. m |-> IF k = m THEN last ELSE g[k]]
<1>6. g[m - 1] \in T /\ last \in T
  BY <1>4, <1>5 DEF Iterates
<1>7. h \in [0 .. m -> T]
  <2>1. ASSUME NEW k \in 0 .. m, k # m PROVE g[k] \in T
    <3>1. k \in 0 .. m - 1
      BY <1>4, <2>1
    <3> QED BY <1>5, <3>1 DEF Iterates
  <2> HIDE DEF last
  <2> QED BY <1>6, <2>1
<1>8. h[0] = base
  BY <1>2, <1>3, <1>5 DEF Iterates
<1>9. ASSUME NEW k \in 1 .. m PROVE h[k] = step[<<h[k - 1], k>>]
  <2>1. k - 1 \in 0 .. m /\ k - 1 # m /\ k \in 0 .. m
    BY <1>4
  <2>2. h[k - 1] = g[k - 1]
    BY <2>1
  <2>3. CASE k = m
    BY <2>1, <2>2, <2>3
  <2>4. CASE k # m
    <3>1. k \in 1 .. m - 1
      BY <1>4, <2>4
    <3>2. h[k] = g[k]
      BY <2>1, <2>4
    <3> QED BY <1>5, <2>2, <3>1, <3>2 DEF Iterates
  <2> QED BY <2>3, <2>4
<1>10. Iterates(h, T, m, base, step)
  <2> HIDE DEF h
  <2> QED BY <1>7, <1>8, <1>9 DEF Iterates
<1> QED BY <1>2, <1>10

-----------------------------------------------------------------------------
(***************************************************************************)
(* What is known of a captured frame, and of the fragments of a group.     *)
(***************************************************************************)
SentAs(i) == Datagrams[Frame(i).of[1]]

LEMMA PartFacts ==
  ASSUME NEW S, NEW s \in Seq(S), NEW from \in Nat, NEW len \in Nat, from + len <= Len(s)
  PROVE  /\ SubSeq(s, from + 1, from + len) \in Seq(S)
         /\ Len(SubSeq(s, from + 1, from + len)) = len
         /\ \A p \in 1 .. len : SubSeq(s, from + 1, from + len)[p] = s[from + p]
<1>1. Len(s) \in Nat
  BY LenProperties
<1>2. PICK a \in Int, b \in Int : a = from + 1 /\ b = from + len
  OBVIOUS
<1>3. \A n \in a .. b : n \in 1 .. Len(s)
  BY <1>1, <1>2
<1>4. \A n \in a .. b : s[n] \in S
  BY <1>3, ElementOfSeq
<1>5. /\ SubSeq(s, a, b) \in Seq(S)
      /\ Len(SubSeq(s, a, b)) = IF a <= b THEN b - a + 1 ELSE 0
      /\ \A p \in 1 .. b - a + 1 : SubSeq(s, a, b)[p] = s[a + p - 1]
  BY <1>4, SubSeqProperties
<1>6. b - a + 1 = len /\ (IF a <= b THEN b - a + 1 ELSE 0) = len
  BY <1>2
<1>7. \A p \in 1 .. len : a + p - 1 = from + p
  BY <1>2
<1> QED BY <1>2, <1>5, <1>6, <1>7

LEMMA FrameFacts ==
  ASSUME capture \in Files, NEW i \in Indices
  PROVE  /\ i \in Nat /\ Frame(i) = capture[i] /\ Frame(i) \in Frames
         /\ Frame(i).kind = "frame" /\ Frame(i).key \in Keys /\ Frame(i).offset \in Nat
         /\ Frame(i).mf \in BOOLEAN
         /\ Frame(i).data \in Seq(Cells) /\ Len(Frame(i).data) \in Nat
         /\ Frame(i).of[1] \in DOMAIN Datagrams /\ Frame(i).of[2] = 0
         /\ Frame(i).of = <<Frame(i).of[1], 0>>
         /\ SentAs(i) \in Seq(Cells) /\ Len(SentAs(i)) \in Nat
         /\ EndOf(i) = Frame(i).offset + Len(Frame(i).data) /\ EndOf(i) \in Nat
         /\ EndOf(i) <= Len(SentAs(i)) /\ Frame(i).mf = (EndOf(i) < Len(SentAs(i)))
         /\ \A p \in 1 .. Len(Frame(i).data) : Frame(i).data[p] = SentAs(i)[Frame(i).offset + p]
<1>1. IsCapture(capture)
  BY FilesAssumption
<1>2. Frame(i) = capture[i] /\ Frame(i) \in Frames /\ i \in Nat
  <2>1. capture \in Seq(Frames) /\ i \in DOMAIN capture
    BY <1>1 DEF IsCapture, Indices
  <2>2. DOMAIN capture = 1 .. Len(capture) /\ Len(capture) \in Nat
    BY <2>1, LenProperties
  <2> QED BY <2>1, <2>2, ElementOfSeq DEF Frame
<1>3. /\ Frame(i).kind = "frame" /\ Frame(i).key \in Keys /\ Frame(i).offset \in Nat
      /\ Frame(i).mf \in BOOLEAN /\ Frame(i).data \in Seq(Cells)
  BY <1>2 DEF Frames
<1>4. /\ Frame(i).of \in (DOMAIN Datagrams) \X {0}
      /\ Frame(i).offset + Len(Frame(i).data) <= Len(SentAs(i))
      /\ Frame(i).mf = (Frame(i).offset + Len(Frame(i).data) < Len(SentAs(i)))
      /\ Frame(i).data =
           SubSeq(SentAs(i), Frame(i).offset + 1, Frame(i).offset + Len(Frame(i).data))
  <2>1. i \in DOMAIN capture /\ capture[i] = Frame(i)
    BY <1>2 DEF Indices
  <2> QED BY <1>1, <2>1, Zenon DEF IsCapture, SentAs
<1>5. Len(Frame(i).data) \in Nat
  BY <1>3, LenProperties
<1>6. /\ Frame(i).of[1] \in DOMAIN Datagrams /\ Frame(i).of[2] = 0
      /\ Frame(i).of = <<Frame(i).of[1], 0>>
  <2>1. Frame(i).of \in (DOMAIN Datagrams) \X {0}
    BY <1>4
  <2> QED BY <2>1
<1>7. SentAs(i) \in Seq(Cells)
  <2>1. DOMAIN Datagrams = 1 .. Len(Datagrams)
    BY DatagramsAssumption, LenProperties
  <2> QED BY <1>6, <2>1, DatagramsAssumption, ElementOfSeq DEF SentAs
<1>8. Len(SentAs(i)) \in Nat /\ DOMAIN SentAs(i) = 1 .. Len(SentAs(i))
  BY <1>7, LenProperties
<1>9. EndOf(i) = Frame(i).offset + Len(Frame(i).data) /\ EndOf(i) \in Nat
  BY <1>3, <1>5 DEF EndOf
<1>10. ASSUME NEW p \in 1 .. Len(Frame(i).data)
       PROVE  Frame(i).data[p] = SentAs(i)[Frame(i).offset + p]
  <2>1. SubSeq(SentAs(i), Frame(i).offset + 1, Frame(i).offset + Len(Frame(i).data))[p]
          = SentAs(i)[Frame(i).offset + p]
    <3>1. PICK at \in Nat, len \in Nat, whole \in Seq(Cells) :
            at = Frame(i).offset /\ len = Len(Frame(i).data) /\ whole = SentAs(i)
      BY <1>3, <1>5, <1>7
    <3>2. at + len <= Len(whole) /\ p \in 1 .. len
      BY <1>4, <3>1
    <3>3. SubSeq(whole, at + 1, at + len)[p] = whole[at + p]
      BY <3>2, PartFacts
    <3> QED BY <3>1, <3>3
  <2> QED BY <1>4, <2>1
<1> QED BY <1>2, <1>3, <1>4, <1>5, <1>6, <1>7, <1>8, <1>9, <1>10

LEMMA MinFacts ==
  ASSUME NEW S, S \subseteq Nat, S # {}
  PROVE  Min(S) \in S /\ \A x \in S : Min(S) <= x
<1>1. \E x \in S : \A y \in S : x <= y
  BY LeastElement
<1> QED BY <1>1 DEF Min

LEMMA GroupFacts ==
  ASSUME capture \in Files, NEW group \in Seq(Indices)
  PROVE  /\ Len(group) \in Nat /\ DOMAIN group = 1 .. Len(group)
         /\ Range(group) \subseteq Indices
         /\ \A n \in 1 .. Len(group) : group[n] \in Range(group)
<1>1. Len(group) \in Nat /\ DOMAIN group = 1 .. Len(group)
  BY LenProperties
<1>2. \A n \in 1 .. Len(group) : group[n] \in Indices
  BY ElementOfSeq
<1> QED BY <1>1, <1>2 DEF Range

LEMMA UniqueFacts ==
  ASSUME capture \in Files, NEW group \in Seq(Indices)
  PROVE  LET unique == UniqueFragments(group) IN
         /\ Len(unique) \in Nat /\ DOMAIN unique = 1 .. Len(unique)
         /\ unique \in Seq(Indices)
         /\ \A n \in 1 .. Len(unique) : unique[n] \in Range(group)
         /\ \A i \in Range(group) : \E n \in 1 .. Len(unique) :
              Frame(unique[n]).offset = Frame(i).offset
         /\ \A m, n \in 1 .. Len(unique) :
              m < n => Frame(unique[m]).offset < Frame(unique[n]).offset
<1> DEFINE offsets == Offsets(group)
           asc == Ascending(offsets)
           C == Cardinality(offsets)
           unique == UniqueFragments(group)
<1>1. offsets \subseteq Nat
  BY GroupFacts, FrameFacts DEF Offsets
<1>2. IsFiniteSet(offsets)
  <2> DEFINE f == [n \in 1 .. Len(group) |-> Frame(group[n]).offset]
  <2>1. f \in Surjection(1 .. Len(group), offsets)
    BY GroupFacts DEF Offsets, Range, Surjection
  <2>2. IsFiniteSet(1 .. Len(group))
    BY GroupFacts, FS_Interval
  <2> HIDE DEF f
  <2> QED BY <2>1, <2>2, FS_Surjection
<1>3. /\ C \in Nat /\ asc \in [1 .. C -> offsets]
      /\ \A x \in offsets : \E n \in 1 .. C : asc[n] = x
      /\ \A m, n \in 1 .. C : m < n => asc[m] < asc[n]
  <2> HIDE DEF offsets
  <2> QED BY <1>1, <1>2, AscendingFacts DEF asc, C
<1>4. unique = [n \in 1 .. C |-> FirstAt(asc[n], group)]
  <2>1. DOMAIN asc = 1 .. C
    BY <1>3
  <2> QED BY <2>1 DEF UniqueFragments
<1>5. ASSUME NEW n \in 1 .. C
      PROVE  unique[n] \in Range(group) /\ Frame(unique[n]).offset = asc[n]
  <2> DEFINE here == {i \in Range(group) : Frame(i).offset = asc[n]}
  <2>1. here \subseteq Nat
    BY GroupFacts, FrameFacts
  <2>2. here # {}
    BY <1>3 DEF Offsets
  <2>3. unique[n] = Min(here)
    BY <1>4 DEF FirstAt
  <2>4. Min(here) \in here
    <3> HIDE DEF here
    <3> QED BY <2>1, <2>2, MinFacts
  <2> QED BY <2>3, <2>4
<1>6. unique \in Seq(Indices) /\ Len(unique) = C
  <2>1. unique \in [1 .. C -> Indices]
    <3>1. \A n \in 1 .. C : unique[n] \in Indices
      BY <1>5, GroupFacts
    <3> HIDE DEF asc, C, offsets
    <3> QED BY <1>4, <3>1
  <2> HIDE DEF asc, C, offsets, unique
  <2>2. unique \in Seq(Indices)
    BY <1>3, <2>1, SeqDef
  <2> QED BY <1>3, <2>1, <2>2, LenProperties
<1> HIDE DEF asc, C, unique
<1>7. DOMAIN unique = 1 .. Len(unique)
  BY <1>6, LenProperties
<1>8. ASSUME NEW i \in Range(group) PROVE \E n \in 1 .. C : Frame(unique[n]).offset = Frame(i).offset
  <2>1. Frame(i).offset \in offsets
    BY DEF Offsets
  <2> HIDE DEF offsets
  <2> QED BY <1>3, <1>5, <2>1
<1>9. \A m, n \in 1 .. C : m < n => Frame(unique[m]).offset < Frame(unique[n]).offset
  BY <1>3, <1>5
<1> QED BY <1>3, <1>5, <1>6, <1>7, <1>8, <1>9 DEF unique

-----------------------------------------------------------------------------
(***************************************************************************)
(* Laying a fragment over a datagram of the same length as the one that    *)
(* was sent writes the cells between its offset and its end, and no other. *)
(***************************************************************************)
Spliced(bytes, data, from, len) ==
  SubSeq(bytes, 1, from) \o data \o SubSeq(bytes, from + len + 1, Len(bytes))

LEMMA SpliceFacts ==
  ASSUME NEW S, NEW bytes \in Seq(S), NEW data \in Seq(S), NEW from \in Nat, NEW len \in Nat,
         len = Len(data), from + len <= Len(bytes)
  PROVE  /\ Spliced(bytes, data, from, len) \in Seq(S)
         /\ Len(Spliced(bytes, data, from, len)) = Len(bytes)
         /\ \A p \in 1 .. Len(bytes) :
              Spliced(bytes, data, from, len)[p] =
                  IF from < p /\ p <= from + len THEN data[p - from] ELSE bytes[p]
<1>1. PICK whole \in Nat, rest \in Nat : whole = Len(bytes) /\ rest = whole - (from + len)
  <2>1. Len(bytes) \in Nat
    BY LenProperties
  <2>2. Len(bytes) - (from + len) \in Nat
    BY <2>1
  <2> QED BY <2>1, <2>2
<1> DEFINE front == SubSeq(bytes, 1, from)
           back == SubSeq(bytes, from + len + 1, Len(bytes))
<1>2. front \in Seq(S) /\ Len(front) = from /\ \A p \in 1 .. from : front[p] = bytes[p]
  <2>1. 0 + 1 = 1 /\ 0 + from = from
    OBVIOUS
  <2>a. 0 \in Nat /\ 0 + from <= Len(bytes)
    BY <1>1
  <2>2. /\ SubSeq(bytes, 0 + 1, 0 + from) \in Seq(S) /\ Len(SubSeq(bytes, 0 + 1, 0 + from)) = from
        /\ \A p \in 1 .. from : SubSeq(bytes, 0 + 1, 0 + from)[p] = bytes[0 + p]
    BY <2>a, PartFacts
  <2>3. \A p \in 1 .. from : 0 + p = p
    OBVIOUS
  <2> QED BY <2>1, <2>2, <2>3
<1>3. back \in Seq(S) /\ Len(back) = rest /\ \A p \in 1 .. rest : back[p] = bytes[from + len + p]
  <2>1. PICK at \in Nat : at = from + len
    OBVIOUS
  <2>a. at + rest = Len(bytes) /\ at + rest <= Len(bytes)
    BY <1>1, <2>1
  <2>b. at + rest <= Len(bytes)
    BY <2>a
  <2>2. /\ SubSeq(bytes, at + 1, at + rest) \in Seq(S)
        /\ Len(SubSeq(bytes, at + 1, at + rest)) = rest
        /\ \A p \in 1 .. rest : SubSeq(bytes, at + 1, at + rest)[p] = bytes[at + p]
    BY <2>b, PartFacts
  <2>3. SubSeq(bytes, at + 1, at + rest) = back
    BY <2>1, <2>a
  <2> HIDE DEF back
  <2> QED BY <2>1, <2>2, <2>3
<1> HIDE DEF front, back
<1>4. /\ front \o data \in Seq(S) /\ Len(front \o data) = from + len
      /\ \A p \in 1 .. from + len :
           (front \o data)[p] = IF p <= from THEN front[p] ELSE data[p - from]
  BY <1>2, ConcatProperties
<1>5. /\ front \o data \o back \in Seq(S)
      /\ Len(front \o data \o back) = (from + len) + rest
      /\ \A p \in 1 .. (from + len) + rest :
           (front \o data \o back)[p] =
             IF p <= from + len THEN (front \o data)[p] ELSE back[p - (from + len)]
  <2>1. PICK both \in Seq(S) : both = front \o data /\ Len(both) = from + len
    BY <1>4
  <2>2. /\ both \o back \in Seq(S) /\ Len(both \o back) = Len(both) + Len(back)
        /\ \A p \in 1 .. Len(both) + Len(back) :
             (both \o back)[p] = IF p <= Len(both) THEN both[p] ELSE back[p - Len(both)]
    <3>1. both \in Seq(S) /\ back \in Seq(S)
      BY <1>3
    <3> QED BY <3>1, ConcatProperties
  <2> QED BY <1>3, <2>1, <2>2
<1>6. (from + len) + rest = Len(bytes)
  BY <1>1
<1>7. ASSUME NEW p \in 1 .. Len(bytes)
      PROVE  (front \o data \o back)[p] =
               IF from < p /\ p <= from + len THEN data[p - from] ELSE bytes[p]
  <2>1. CASE p <= from
    <3>1. p \in 1 .. from /\ p \in 1 .. from + len /\ p <= from + len /\ ~ (from < p)
      BY <1>1, <2>1
    <3> QED BY <1>2, <1>4, <1>5, <1>6, <2>1, <3>1
  <2>2. CASE from < p /\ p <= from + len
    <3>1. p \in 1 .. from + len /\ ~ (p <= from)
      BY <1>1, <2>2
    <3> QED BY <1>4, <1>5, <1>6, <2>2, <3>1
  <2>3. CASE from + len < p
    <3>1. p - (from + len) \in 1 .. rest /\ ~ (p <= from + len)
          /\ from + len + (p - (from + len)) = p
      BY <1>1, <2>3
    <3> QED BY <1>3, <1>5, <1>6, <3>1
  <2>4. p \in Int /\ from + len \in Int
    BY <1>1
  <2>5. p <= from \/ (from < p /\ p <= from + len) \/ from + len < p
    BY <2>4
  <2> QED BY <2>1, <2>2, <2>3, <2>5
<1>8. Spliced(bytes, data, from, len) = front \o data \o back
  BY DEF front, back, Spliced
<1> QED BY <1>5, <1>6, <1>7, <1>8

LEMMA MinMaxOfTwo ==
  ASSUME NEW a \in Int, NEW b \in Int, a <= b
  PROVE  Min({a, b}) = a /\ Min({b, a}) = a /\ Max({a, b}) = b
<1>1. {a, b} = {b, a} /\ \A x, y \in {a, b} : x <= y /\ y <= x => x = y
  OBVIOUS
<1>2. Min({a, b}) = a
  <2>1. a \in {a, b} /\ \A y \in {a, b} : a <= y
    OBVIOUS
  <2> QED BY <1>1, <2>1 DEF Min
<1>3. Max({a, b}) = b
  <2>1. b \in {a, b} /\ \A y \in {a, b} : b >= y
    OBVIOUS
  <2>2. \A x \in {a, b} : (\A y \in {a, b} : x >= y) => x = b
    OBVIOUS
  <2> QED BY <2>1, <2>2 DEF Max
<1> QED BY <1>1, <1>2, <1>3

LEMMA OverlayFacts ==
  ASSUME capture \in Files, NEW i \in Indices,
         NEW bytes \in Seq(Cells), Len(bytes) = Len(SentAs(i))
  PROVE  LET laid == Overlay(bytes, Frame(i), Len(SentAs(i))) IN
         /\ laid \in Seq(Cells) /\ Len(laid) = Len(bytes)
         /\ \A p \in 1 .. Len(bytes) :
              laid[p] = IF Frame(i).offset < p /\ p <= EndOf(i) THEN SentAs(i)[p] ELSE bytes[p]
<1> DEFINE data == Frame(i).data
<1>1. PICK from \in Nat, len \in Nat, whole \in Nat :
        /\ from = Frame(i).offset /\ len = Len(data) /\ whole = Len(bytes)
        /\ whole = Len(SentAs(i)) /\ from + len = EndOf(i) /\ from + len <= whole
  BY FrameFacts
<1>2. data \in Seq(Cells)
  BY FrameFacts
<1>3. Overlay(bytes, Frame(i), Len(SentAs(i))) = Spliced(bytes, data, from, len)
  <2>0. PICK end \in Int : end = from + len /\ from <= end /\ end <= whole
    BY <1>1
  <2>1. Min({end, whole}) = end
    BY <2>0, MinMaxOfTwo
  <2>2. Min({from, whole}) = from
    BY <2>0, MinMaxOfTwo
  <2>3. Max({from, end}) = end
    <3>1. from \in Int /\ from <= end
      BY <2>0
    <3> QED BY <3>1, MinMaxOfTwo, Zenon
  <2>4. (from + len) - from = len /\ len >= 0
    OBVIOUS
  <2>5. SubSeq(data, 1, len) = data
    BY <1>1, <1>2, SubSeqFull
  <2>6. Overlay(bytes, Frame(i), whole) =
          SubSeq(bytes, 1, from) \o SubSeq(data, 1, len) \o SubSeq(bytes, from + len + 1, whole)
    <3>1. /\ Min({from + len, whole}) = end /\ end - from = len /\ (len >= 0) = TRUE
          /\ end + 1 = from + len + 1
      BY <2>0, <2>1
    <3> HIDE DEF data
    <3>2. Overlay(bytes, Frame(i), whole) =
            SubSeq(bytes, 1, from) \o SubSeq(data, 1, IF len >= 0 THEN len ELSE Len(data) + len)
              \o SubSeq(bytes, end + 1, whole)
      BY <1>1, <2>2, <2>3, <3>1, Zenon DEF Overlay, data
    <3> QED BY <3>1, <3>2, Zenon
  <2> QED BY <1>1, <2>5, <2>6 DEF Spliced
<1>4. /\ Spliced(bytes, data, from, len) \in Seq(Cells)
      /\ Len(Spliced(bytes, data, from, len)) = Len(bytes)
      /\ \A p \in 1 .. Len(bytes) : Spliced(bytes, data, from, len)[p] =
           IF from < p /\ p <= from + len THEN data[p - from] ELSE bytes[p]
  <2>1. len = Len(data) /\ from + len <= Len(bytes)
    BY <1>1
  <2> HIDE DEF data
  <2> QED BY <1>2, <2>1, SpliceFacts
<1>5. ASSUME NEW p \in 1 .. whole, from < p, p <= from + len
      PROVE  data[p - from] = SentAs(i)[p]
  <2>1. p - from \in 1 .. len /\ from + (p - from) = p
    BY <1>5
  <2>2. data[p - from] = SentAs(i)[from + (p - from)]
    BY <1>1, <2>1, FrameFacts
  <2> QED BY <2>1, <2>2
<1> HIDE DEF data
<1> QED BY <1>1, <1>3, <1>4, <1>5

-----------------------------------------------------------------------------
(***************************************************************************)
(* Fragments of one datagram that are complete are laid into the datagram. *)
(***************************************************************************)
Base(end) == [m \in 1 .. end |-> <<0, 0, 0>>]

IsLaying(laid, group) ==
  laid = [n \in 0 .. Len(UniqueFragments(group)) |->
            IF n = 0 THEN Base(Min(LastEnds(group)))
            ELSE Overlay(laid[n - 1], Frame(UniqueFragments(group)[n]), Min(LastEnds(group)))]

LEMMA BaseType ==
  ASSUME NEW L \in Nat
  PROVE  Base(L) \in Seq(Cells) /\ Len(Base(L)) = L
<1>1. <<0, 0, 0>> \in Cells
  BY DEF Cells
<1>2. Base(L) \in [1 .. L -> Cells]
  BY <1>1 DEF Base
<1>3. Base(L) \in Seq(Cells)
  BY <1>2, SeqDef
<1> QED BY <1>2, <1>3, LenProperties

LEMMA AssembledIsLaid ==
  ASSUME NEW group
  PROVE  Assembled(group) = (CHOOSE laid : IsLaying(laid, group))[Len(UniqueFragments(group))]
BY DEF Assembled, IsLaying, Base

LEMMA LastEndsFacts ==
  ASSUME capture \in Files, NEW group \in Seq(Indices), NEW d,
         \A i \in Range(group) : Frame(i).of[1] = d,
         Cardinality(LastEnds(group)) = 1
  PROVE  LastEnds(group) = {Len(Datagrams[d])} /\ Min(LastEnds(group)) = Len(Datagrams[d])
<1>1. ASSUME NEW i \in Range(group), ~ Frame(i).mf PROVE EndOf(i) = Len(Datagrams[d])
  <2>1. i \in Indices /\ SentAs(i) = Datagrams[d]
    BY GroupFacts DEF SentAs
  <2> QED BY <1>1, <2>1, FrameFacts
<1>2. LastEnds(group) \subseteq {Len(Datagrams[d])}
  BY <1>1 DEF LastEnds
<1>3. LastEnds(group) # {}
  <2>1. Cardinality({}) = 0
    BY FS_EmptySet
  <2>2. Cardinality(LastEnds(group)) # Cardinality({})
    BY <2>1
  <2> QED BY <2>2, Zenon
<1>4. LastEnds(group) = {Len(Datagrams[d])}
  BY <1>2, <1>3
<1>5. Len(Datagrams[d]) \in Nat
  <2>1. PICK i \in Range(group) : ~ Frame(i).mf
    BY <1>3 DEF LastEnds
  <2>2. i \in Indices /\ SentAs(i) = Datagrams[d]
    BY GroupFacts DEF SentAs
  <2> QED BY <2>2, FrameFacts
<1>6. Min({Len(Datagrams[d])}) = Len(Datagrams[d])
  <2>1. PICK len \in Nat : len = Len(Datagrams[d])
    BY <1>5
  <2>2. Min({len}) \in {len}
    <3>1. {len} \subseteq Nat /\ {len} # {}
      OBVIOUS
    <3> QED BY <3>1, MinFacts, Zenon
  <2> QED BY <2>1, <2>2
<1> QED BY <1>4, <1>6, Zenon

\* Every cell of a datagram is in one of the fragments that tile it.
LEMMA TilesCover ==
  ASSUME capture \in Files, NEW group \in Seq(Indices), HasFirst(group),
         NEW end \in Nat, TilesToEnd(UniqueFragments(group), end), NEW p \in 1 .. end
  PROVE  \E m \in 1 .. Len(UniqueFragments(group)) :
           /\ Frame(UniqueFragments(group)[m]).offset < p
           /\ p <= EndOf(UniqueFragments(group)[m])
<1> DEFINE u == UniqueFragments(group)
           N == Len(u)
<1>1. /\ N \in Nat /\ DOMAIN u = 1 .. N
      /\ \A n \in 1 .. N : u[n] \in Indices /\ u[n] \in Range(group)
      /\ \A i \in Range(group) : \E n \in 1 .. N : Frame(u[n]).offset = Frame(i).offset
      /\ \A m, n \in 1 .. N : m < n => Frame(u[m]).offset < Frame(u[n]).offset
  <2>1. /\ N \in Nat /\ DOMAIN u = 1 .. N
        /\ \A n \in 1 .. N : u[n] \in Range(group)
        /\ \A i \in Range(group) : \E n \in 1 .. N : Frame(u[n]).offset = Frame(i).offset
        /\ \A m, n \in 1 .. N : m < n => Frame(u[m]).offset < Frame(u[n]).offset
    BY UniqueFacts, Zenon
  <2>2. Range(group) \subseteq Indices
    BY GroupFacts
  <2> HIDE DEF u, N
  <2> QED BY <2>1, <2>2
<1>2. \A n \in 1 .. N : Frame(u[n]).offset \in Nat /\ EndOf(u[n]) \in Nat
  BY <1>1, FrameFacts
<1>3. PICK last \in 1 .. N :
        /\ EndOf(u[last]) >= end
        /\ \A m \in 1 .. last - 1 : EndOf(u[m]) < end /\ EndOf(u[m]) = Frame(u[m + 1]).offset
  BY <1>1 DEF TilesToEnd
<1> HIDE DEF u, N
<1>4. 1 \in 1 .. N /\ Frame(u[1]).offset = 0
  <2>1. PICK n \in 1 .. N : Frame(u[n]).offset = 0
    BY <1>1 DEF HasFirst
  <2>2. 1 \in 1 .. N
    BY <1>1
  <2>3. ~ (1 < n)
    <3>1. 1 < n => Frame(u[1]).offset < Frame(u[n]).offset
      BY <1>1, <2>2, Zenon
    <3> QED BY <1>2, <2>1, <2>2, <3>1
  <2>4. n = 1
    BY <2>3
  <2> QED BY <2>1, <2>2, <2>4
<1> DEFINE Reaching == {m \in 1 .. last : EndOf(u[m]) >= p}
<1>5. PICK m \in Reaching : \A k \in Reaching : m <= k
  <2>1. last \in Reaching
    BY <1>2, <1>3
  <2>2. Reaching \subseteq Nat
    BY <1>1
  <2> HIDE DEF Reaching
  <2> QED BY <2>1, <2>2, LeastElement
<1>6. m \in 1 .. last /\ m \in 1 .. N /\ p <= EndOf(u[m])
  BY <1>1, <1>2
<1>7. Frame(u[m]).offset < p
  <2>1. CASE m = 1
    BY <1>4, <2>1
  <2>2. CASE m # 1
    <3>1. m - 1 \in 1 .. last - 1 /\ m - 1 \in 1 .. last /\ m - 1 \in 1 .. N /\ (m - 1) + 1 = m
      BY <1>1, <1>6, <2>2
    <3>2. m - 1 \notin Reaching
      <4> HIDE DEF Reaching
      <4> QED BY <1>5, <1>6, <3>1
    <3>3. EndOf(u[m - 1]) < p
      BY <1>2, <3>1, <3>2
    <3>4. EndOf(u[m - 1]) = Frame(u[m]).offset
      BY <1>3, <3>1
    <3> QED BY <3>3, <3>4
  <2> QED BY <2>1, <2>2
<1> QED BY <1>6, <1>7 DEF u, N

\* One more fragment is laid, over a datagram of the right length.
Lays(laid, u, whole) ==
  /\ laid[0] = Base(Len(whole))
  /\ \A n \in 1 .. Len(u) : laid[n] = Overlay(laid[n - 1], Frame(u[n]), Len(whole))

RightSoFar(bytes, u, n, whole) ==
  /\ bytes \in Seq(Cells) /\ Len(bytes) = Len(whole)
  /\ \A p \in 1 .. Len(whole) : \A m \in 1 .. n :
       Frame(u[m]).offset < p /\ p <= EndOf(u[m]) => bytes[p] = whole[p]

LEMMA LaidIsRight ==
  ASSUME capture \in Files, NEW whole \in Seq(Cells), NEW u \in Seq(Indices),
         \A n \in 1 .. Len(u) : SentAs(u[n]) = whole,
         NEW laid, Lays(laid, u, whole), NEW n \in 0 .. Len(u)
  PROVE  RightSoFar(laid[n], u, n, whole)
<1>1. PICK N \in Nat, L \in Nat : N = Len(u) /\ L = Len(whole)
  BY LenProperties
<1> DEFINE Bad == {k \in 0 .. N : ~ RightSoFar(laid[k], u, k, whole)}
<1> SUFFICES ASSUME Bad # {} PROVE FALSE
  BY <1>1
<1>2. PICK k \in Bad : \A j \in Bad : k <= j
  <2>1. Bad \subseteq Nat
    BY <1>1
  <2> HIDE DEF Bad
  <2> QED BY <2>1, LeastElement
<1>3. k \in 0 .. N /\ ~ RightSoFar(laid[k], u, k, whole)
  OBVIOUS
<1>4. k # 0
  <2>1. Base(L) \in Seq(Cells) /\ Len(Base(L)) = L
    BY BaseType
  <2>2. RightSoFar(laid[0], u, 0, whole)
    BY <1>1, <2>1 DEF RightSoFar, Lays
  <2> QED BY <1>3, <2>2
<1>5. k \in 1 .. N /\ k - 1 \in 0 .. N /\ k - 1 \notin Bad
  <2> HIDE DEF Bad
  <2> QED BY <1>2, <1>3, <1>4
<1>6. RightSoFar(laid[k - 1], u, k - 1, whole)
  BY <1>5
<1> HIDE DEF Bad
<1>7. PICK before \in Seq(Cells), i \in Indices :
        before = laid[k - 1] /\ i = u[k] /\ Len(before) = L /\ SentAs(i) = whole
  <2>1. u[k] \in Indices
    BY <1>1, <1>5, ElementOfSeq
  <2> QED BY <1>1, <1>5, <1>6, <2>1 DEF RightSoFar
<1>8. laid[k] = Overlay(before, Frame(i), Len(SentAs(i))) /\ Len(before) = Len(SentAs(i))
  BY <1>1, <1>5, <1>7 DEF Lays
<1>9. /\ laid[k] \in Seq(Cells) /\ Len(laid[k]) = L
      /\ \A p \in 1 .. L :
           laid[k][p] = IF Frame(i).offset < p /\ p <= EndOf(i) THEN whole[p] ELSE before[p]
  <2>1. /\ Overlay(before, Frame(i), Len(SentAs(i))) \in Seq(Cells)
        /\ Len(Overlay(before, Frame(i), Len(SentAs(i)))) = Len(before)
        /\ \A p \in 1 .. Len(before) :
             Overlay(before, Frame(i), Len(SentAs(i)))[p] =
               IF Frame(i).offset < p /\ p <= EndOf(i) THEN SentAs(i)[p] ELSE before[p]
    BY <1>8, OverlayFacts
  <2> QED BY <1>7, <1>8, <2>1
<1>10. ASSUME NEW p \in 1 .. L, NEW m \in 1 .. k, Frame(u[m]).offset < p, p <= EndOf(u[m])
       PROVE  laid[k][p] = whole[p]
  <2>1. CASE Frame(i).offset < p /\ p <= EndOf(i)
    BY <1>9, <2>1
  <2>2. CASE ~ (Frame(i).offset < p /\ p <= EndOf(i))
    <3>1. m \in 1 .. k - 1
      BY <1>5, <1>7, <1>10, <2>2
    <3>2. before[p] = whole[p]
      BY <1>1, <1>6, <1>7, <1>10, <3>1 DEF RightSoFar
    <3> QED BY <1>9, <2>2, <3>2
  <2> QED BY <2>1, <2>2
<1>11. RightSoFar(laid[k], u, k, whole)
  BY <1>1, <1>9, <1>10 DEF RightSoFar
<1> QED BY <1>3, <1>11

LEMMA OverlayType ==
  ASSUME NEW bytes \in Seq(Cells), NEW fragment \in Frames, NEW end \in Nat
  PROVE  Overlay(bytes, fragment, end) \in Seq(Cells)
<1>1. PICK data \in Seq(Cells), at \in Nat, len \in Nat, have \in Nat :
        /\ data = fragment.data /\ at = fragment.offset /\ len = Len(data) /\ have = Len(bytes)
  <2>1. fragment.data \in Seq(Cells) /\ fragment.offset \in Nat
    BY DEF Frames
  <2> QED BY <2>1, LenProperties
<1> DEFINE to == Min({at + len, end})
           from == Min({at, have})
           room == to - at
           cut == IF room >= 0 THEN room ELSE len + room
           behind == Max({from, to}) + 1
<1>2. to \in Nat /\ to <= at + len
  <2>1. at + len <= end \/ end <= at + len
    OBVIOUS
  <2> QED BY <2>1, MinMaxOfTwo
<1>3. from \in Nat /\ from <= have
  <2>1. at <= have \/ have <= at
    OBVIOUS
  <2> QED BY <2>1, MinMaxOfTwo
<1> HIDE DEF to, from
<1>4. cut \in Int /\ cut <= len
  BY <1>2
<1>5. behind \in Nat /\ behind >= 1
  <2>1. from <= to \/ to <= from
    BY <1>2, <1>3
  <2>2. {from, to} = {to, from} /\ from \in Int /\ to \in Int
    BY <1>2, <1>3
  <2>3. Max({from, to}) \in Nat
    <3>1. CASE from <= to
      BY <1>2, <2>2, <3>1, MinMaxOfTwo
    <3>2. CASE to <= from
      BY <1>3, <2>2, <3>2, MinMaxOfTwo
    <3> QED BY <2>1, <3>1, <3>2
  <2> QED BY <2>3
<1>6. Overlay(bytes, fragment, end) =
        SubSeq(bytes, 1, from) \o SubSeq(data, 1, cut) \o SubSeq(bytes, behind, have)
  BY <1>1, Zenon DEF Overlay, to, from
<1> HIDE DEF cut, behind
<1>7. SubSeq(bytes, 1, from) \in Seq(Cells)
  <2>1. \A n \in 1 .. from : n \in 1 .. Len(bytes)
    BY <1>1, <1>3
  <2>2. \A n \in 1 .. from : bytes[n] \in Cells
    BY <2>1, ElementOfSeq
  <2> QED BY <1>3, <2>2, SubSeqProperties
<1>8. SubSeq(data, 1, cut) \in Seq(Cells)
  <2>1. \A n \in 1 .. cut : n \in 1 .. Len(data)
    BY <1>1, <1>4
  <2>2. \A n \in 1 .. cut : data[n] \in Cells
    BY <2>1, ElementOfSeq
  <2> QED BY <1>4, <2>2, SubSeqProperties
<1>9. SubSeq(bytes, behind, have) \in Seq(Cells)
  <2>1. \A n \in behind .. have : n \in 1 .. Len(bytes)
    BY <1>1, <1>5
  <2>2. \A n \in behind .. have : bytes[n] \in Cells
    BY <2>1, ElementOfSeq
  <2> QED BY <1>5, <2>2, SubSeqProperties
<1> QED BY <1>6, <1>7, <1>8, <1>9, ConcatProperties

LEMMA LayingExists ==
  ASSUME capture \in Files, NEW group \in Seq(Indices), Min(LastEnds(group)) \in Nat
  PROVE  \E laid : IsLaying(laid, group)
<1>1. PICK u \in Seq(Indices), N \in Nat, L \in Nat :
        u = UniqueFragments(group) /\ N = Len(u) /\ L = Min(LastEnds(group))
  <2>1. UniqueFragments(group) \in Seq(Indices) /\ Len(UniqueFragments(group)) \in Nat
    BY UniqueFacts, Zenon
  <2> QED BY <2>1
<1> DEFINE step == [x \in Seq(Cells) \X (1 .. N) |-> Overlay(x[1], Frame(u[x[2]]), L)]
<1>2. step \in [Seq(Cells) \X (1 .. N) -> Seq(Cells)]
  <2>1. ASSUME NEW bytes \in Seq(Cells), NEW n \in 1 .. N
        PROVE  Overlay(bytes, Frame(u[n]), L) \in Seq(Cells)
    <3>1. u[n] \in Indices
      BY <1>1, ElementOfSeq
    <3>2. Frame(u[n]) \in Frames
      BY <3>1, FrameFacts
    <3> QED BY <3>2, OverlayType
  <2> QED BY <2>1
<1>3. PICK g : Iterates(g, Seq(Cells), N, Base(L), step)
  <2> HIDE DEF step
  <2> QED BY <1>2, BaseType, IterationExists
<1>4. g \in [0 .. N -> Seq(Cells)] /\ g[0] = Base(L)
  BY <1>3 DEF Iterates
<1>5. ASSUME NEW n \in 1 .. N PROVE g[n] = Overlay(g[n - 1], Frame(u[n]), L)
  <2>1. n - 1 \in 0 .. N
    OBVIOUS
  <2>2. g[n - 1] \in Seq(Cells) /\ g[n] = step[<<g[n - 1], n>>]
    <3> HIDE DEF step
    <3> QED BY <1>3, <1>4, <2>1 DEF Iterates
  <2> QED BY <2>2
<1> HIDE DEF step
<1>6. g = [n \in 0 .. N |-> IF n = 0 THEN Base(L) ELSE Overlay(g[n - 1], Frame(u[n]), L)]
  <2>1. \A n \in 0 .. N : g[n] = IF n = 0 THEN Base(L) ELSE Overlay(g[n - 1], Frame(u[n]), L)
    BY <1>4, <1>5
  <2> QED BY <1>4, <2>1
<1> QED BY <1>1, <1>6, Zenon DEF IsLaying

LEMMA AssembledType ==
  ASSUME capture \in Files, NEW group \in Seq(Indices), IsComplete(group)
  PROVE  Assembled(group) \in Seq(Cells)
<1>1. Min(LastEnds(group)) \in Nat
  <2>1. LastEnds(group) \subseteq Nat
    BY GroupFacts, FrameFacts DEF LastEnds
  <2>2. LastEnds(group) # {}
    <3>1. Cardinality({}) = 0 /\ Cardinality(LastEnds(group)) = 1
      BY FS_EmptySet DEF IsComplete
    <3>2. Cardinality(LastEnds(group)) # Cardinality({})
      BY <3>1
    <3> QED BY <3>2, Zenon
  <2>3. Min(LastEnds(group)) \in LastEnds(group)
    BY <2>1, <2>2, MinFacts, Zenon
  <2> QED BY <2>1, <2>3
<1> DEFINE laid == CHOOSE laid : IsLaying(laid, group)
<1>2. IsLaying(laid, group)
  BY <1>1, LayingExists, Zenon
<1>3. Assembled(group) = laid[Len(UniqueFragments(group))]
  BY AssembledIsLaid, Zenon
<1> HIDE DEF laid
<1>4. PICK u \in Seq(Indices), N \in Nat, L \in Nat :
        u = UniqueFragments(group) /\ N = Len(u) /\ L = Min(LastEnds(group))
  <2>1. UniqueFragments(group) \in Seq(Indices) /\ Len(UniqueFragments(group)) \in Nat
    BY UniqueFacts, Zenon
  <2> QED BY <1>1, <2>1
<1>5. laid = [n \in 0 .. N |-> IF n = 0 THEN Base(L) ELSE Overlay(laid[n - 1], Frame(u[n]), L)]
  BY <1>2, <1>4, Zenon DEF IsLaying
<1> DEFINE Bad == {k \in 0 .. N : laid[k] \notin Seq(Cells)}
<1> SUFFICES ASSUME Bad # {} PROVE FALSE
  BY <1>3, <1>4
<1>6. PICK k \in Bad : \A j \in Bad : k <= j
  <2>1. Bad \subseteq Nat
    OBVIOUS
  <2> HIDE DEF Bad
  <2> QED BY <2>1, LeastElement
<1>7. k \in 0 .. N /\ laid[k] \notin Seq(Cells)
  OBVIOUS
<1>8. k # 0
  BY <1>5, <1>7, BaseType
<1>9. k \in 1 .. N /\ k - 1 \in 0 .. N /\ k - 1 \notin Bad
  <2> HIDE DEF Bad
  <2> QED BY <1>6, <1>7, <1>8
<1>10. laid[k - 1] \in Seq(Cells)
  BY <1>9
<1> HIDE DEF Bad
<1>11. laid[k] = Overlay(laid[k - 1], Frame(u[k]), L)
  BY <1>5, <1>9
<1>12. Frame(u[k]) \in Frames
  BY <1>4, <1>9, ElementOfSeq, FrameFacts
<1> QED BY <1>7, <1>10, <1>11, <1>12, OverlayType

LEMMA WholeDatagram ==
  ASSUME capture \in Files, NEW group \in Seq(Indices), IsComplete(group),
         NEW d, \A i \in Range(group) : Frame(i).of[1] = d
  PROVE  Assembled(group) = Datagrams[d] /\ d \in DOMAIN Datagrams
<1>1. PICK u \in Seq(Indices), N \in Nat :
        /\ u = UniqueFragments(group) /\ N = Len(u)
        /\ \A n \in 1 .. N : u[n] \in Range(group)
  <2>1. /\ UniqueFragments(group) \in Seq(Indices) /\ Len(UniqueFragments(group)) \in Nat
        /\ \A n \in 1 .. Len(UniqueFragments(group)) : UniqueFragments(group)[n] \in Range(group)
    BY UniqueFacts, Zenon
  <2> QED BY <2>1
<1>2. LastEnds(group) = {Len(Datagrams[d])} /\ Min(LastEnds(group)) = Len(Datagrams[d])
  <2>1. Cardinality(LastEnds(group)) = 1
    BY DEF IsComplete
  <2> QED BY <2>1, LastEndsFacts
<1>3. HasFirst(group) /\ TilesToEnd(UniqueFragments(group), Len(Datagrams[d]))
  BY <1>2, Zenon DEF IsComplete
<1>4. PICK whole \in Seq(Cells), L \in Nat :
        whole = Datagrams[d] /\ L = Len(whole) /\ d \in DOMAIN Datagrams
  <2>1. PICK i \in Range(group) : Frame(i).of[1] = d
    BY <1>3 DEF HasFirst
  <2>2. i \in Indices /\ SentAs(i) = Datagrams[d]
    BY <2>1, GroupFacts DEF SentAs
  <2> QED BY <2>1, <2>2, FrameFacts
<1>5. \A n \in 1 .. N : SentAs(u[n]) = whole
  BY <1>1, <1>4 DEF SentAs
<1> DEFINE laid == CHOOSE laid : IsLaying(laid, group)
<1>10. IsLaying(laid, group)
  <2>1. Min(LastEnds(group)) \in Nat
    BY <1>2, <1>4
  <2> QED BY <2>1, LayingExists, Zenon
<1>11. Lays(laid, u, whole)
  <2>1. laid = [n \in 0 .. N |-> IF n = 0 THEN Base(L) ELSE Overlay(laid[n - 1], Frame(u[n]), L)]
    BY <1>1, <1>2, <1>4, <1>10, Zenon DEF IsLaying
  <2> HIDE DEF laid
  <2>2. 0 \in 0 .. N /\ laid[0] = Base(L)
    BY <2>1
  <2>3. ASSUME NEW n \in 1 .. N PROVE laid[n] = Overlay(laid[n - 1], Frame(u[n]), L)
    <3>1. n \in 0 .. N /\ n # 0
      OBVIOUS
    <3> QED BY <2>1, <3>1
  <2>4. Len(u) = N /\ Len(whole) = L
    BY <1>1, <1>4
  <2> QED BY <2>2, <2>3, <2>4 DEF Lays
<1>12. RightSoFar(laid[N], u, N, whole)
  <2> HIDE DEF laid
  <2>1. N \in 0 .. Len(u) /\ \A n \in 1 .. Len(u) : SentAs(u[n]) = whole
    BY <1>1, <1>5
  <2> QED BY <1>11, <2>1, LaidIsRight
<1>13. Assembled(group) = laid[N]
  BY <1>1, AssembledIsLaid, Zenon
<1> HIDE DEF laid
<1>14. PICK bytes \in Seq(Cells) : bytes = laid[N] /\ Len(bytes) = L
  BY <1>4, <1>12 DEF RightSoFar
<1>15. ASSUME NEW p \in 1 .. L PROVE bytes[p] = whole[p]
  <2>1. PICK m \in 1 .. N : Frame(u[m]).offset < p /\ p <= EndOf(u[m])
    <3>1. HasFirst(group) /\ TilesToEnd(UniqueFragments(group), L)
      BY <1>3, <1>4
    <3>2. \E m \in 1 .. Len(UniqueFragments(group)) :
            /\ Frame(UniqueFragments(group)[m]).offset < p
            /\ p <= EndOf(UniqueFragments(group)[m])
      BY <3>1, TilesCover
    <3> QED BY <1>1, <3>2
  <2> QED BY <1>4, <1>12, <1>14, <2>1 DEF RightSoFar
<1>16. bytes = whole
  BY <1>4, <1>14, <1>15, SeqEqual
<1> QED BY <1>4, <1>13, <1>14, <1>16

-----------------------------------------------------------------------------
(***************************************************************************)
(* The inductive invariant of reassembly: what has not been visited is as  *)
(* it was captured, a group consists of fragments of its key that are      *)
(* still in the file, and every other packet is accounted for by a record. *)
(***************************************************************************)
Untouched(i) == packets[i] = capture[i]

VisitInv ==
  /\ capture \in Files
  /\ index \in 1 .. Len(capture) + 1
  /\ DOMAIN packets = Indices
  /\ \A i \in Indices : i >= index => Untouched(i)
  /\ stage \in {"reassemble", "rewrite", "refragment", "done"}
  /\ stage # "reassemble" => index \notin Indices

GroupInv ==
  /\ DOMAIN active \subseteq Keys \ blocked_keys
  /\ \A key \in DOMAIN active :
       /\ active[key] \in Seq(Indices)
       /\ \A i \in Range(active[key]) :
            i < index /\ Frame(i).key = key /\ IsFragment(Frame(i)) /\ Untouched(i)

Record(m) ==
  /\ m \in Indices /\ m < index /\ IsFragment(Frame(m))
  /\ packets[m] = Virtual(m, Frame(m).key, packets[m].data)
  /\ packets[m].data \in Seq(Cells)
  /\ records[m].sizes \in Seq(Nat) /\ records[m].slots \in Seq(Indices)

IsSlot(i) == \E m \in DOMAIN records : \E n \in Nat : packets[i] = Slot(m, n)

RecordInv ==
  /\ DOMAIN completed \subseteq Keys
  /\ \A m \in DOMAIN records : Record(m)
  /\ \A i \in Indices :
       Untouched(i) \/ packets[i] = Gone \/ i \in DOMAIN records \/ IsSlot(i)

GroupingInv == VisitInv /\ GroupInv /\ RecordInv

LEMMA IndicesFacts ==
  ASSUME capture \in Files
  PROVE  Len(capture) \in Nat /\ Indices = 1 .. Len(capture)
<1>1. capture \in Seq(Frames)
  BY FilesAssumption DEF IsCapture
<1> QED BY <1>1, LenProperties DEF Indices

\* The group that the visited fragment joins.
LEMMA JoinedFacts ==
  ASSUME GroupingInv, index \in Indices
  PROVE  /\ Joined \in Seq(Indices) /\ Len(Joined) \in Nat /\ Len(Joined) >= 1
         /\ DOMAIN Joined = 1 .. Len(Joined)
         /\ Range(Joined) = Range(GroupOf(Frame(index).key)) \cup {index}
         /\ \A i \in Range(GroupOf(Frame(index).key)) :
              /\ i \in Indices /\ i < index /\ Frame(i).key = Frame(index).key
              /\ IsFragment(Frame(i)) /\ Untouched(i)
         /\ Joined[1] \in Range(Joined)
<1> DEFINE key == Frame(index).key
           group == GroupOf(key)
<1>1. group \in Seq(Indices)
      /\ \A i \in Range(group) :
           i < index /\ Frame(i).key = key /\ IsFragment(Frame(i)) /\ Untouched(i)
  <2>1. CASE key \in DOMAIN active
    BY <2>1 DEF GroupingInv, GroupInv, GroupOf
  <2>2. CASE key \notin DOMAIN active
    <3>1. group = << >>
      BY <2>2 DEF GroupOf
    <3> QED BY <3>1, EmptySeq DEF Range
  <2> QED BY <2>1, <2>2
<1>2. Len(group) \in Nat /\ DOMAIN group = 1 .. Len(group) /\ Range(group) \subseteq Indices
  BY <1>1, GroupFacts DEF GroupingInv, VisitInv
<1>3. Joined = Append(group, index)
  BY DEF Joined
<1> HIDE DEF group
<1>4. /\ Joined \in Seq(Indices) /\ Len(Joined) = Len(group) + 1
      /\ \A n \in 1 .. Len(group) : Joined[n] = group[n]
      /\ Joined[Len(group) + 1] = index
  BY <1>1, <1>3, AppendProperties
<1>5. DOMAIN Joined = 1 .. Len(group) + 1
  BY <1>4, LenProperties
<1>6. Range(Joined) = Range(group) \cup {index}
  <2>1. \A n \in 1 .. Len(group) + 1 : n \in 1 .. Len(group) \/ n = Len(group) + 1
    BY <1>2
  <2>2. Len(group) + 1 \in 1 .. Len(group) + 1
        /\ \A n \in 1 .. Len(group) : n \in 1 .. Len(group) + 1
    BY <1>2
  <2> QED BY <1>2, <1>4, <1>5, <2>1, <2>2 DEF Range
<1>7. 1 \in DOMAIN Joined /\ Len(Joined) >= 1 /\ Len(Joined) \in Nat
  BY <1>2, <1>4, <1>5
<1>8. Joined[1] \in Range(Joined)
  BY <1>7 DEF Range
<1> QED BY <1>1, <1>2, <1>4, <1>5, <1>6, <1>7, <1>8 DEF group

LEMMA VisitStays ==
  ASSUME VisitInv, Visit, capture' = capture, stage' = stage,
         DOMAIN packets' = Indices, \A i \in Indices : i > index => packets'[i] = packets[i]
  PROVE  VisitInv'
<1>1. PICK len \in Nat : len = Len(capture) /\ Indices = 1 .. len
  BY IndicesFacts DEF VisitInv
<1>2. Indices' = Indices /\ index' = index + 1 /\ index \in 1 .. len
  BY <1>1 DEF Visit, Indices
<1>3. index' \in 1 .. len + 1
  BY <1>2
<1>4. ASSUME NEW i \in Indices, i >= index' PROVE packets'[i] = capture'[i]
  <2>1. i >= index /\ i > index
    BY <1>1, <1>2, <1>4
  <2> QED BY <2>1 DEF VisitInv, Untouched
<1>5. stage' = "reassemble"
  BY DEF Visit
<1> QED BY <1>1, <1>2, <1>3, <1>4, <1>5 DEF VisitInv, Untouched

LEMMA GroupsStay ==
  ASSUME GroupingInv, Visit, capture' = capture,
         DOMAIN active' \subseteq DOMAIN active, DOMAIN active' \cap blocked_keys' = {},
         \A key \in DOMAIN active' : active'[key] = active[key],
         \A i \in Indices : Untouched(i) /\ i < index /\ Frame(i).key \in DOMAIN active' =>
                              packets'[i] = packets[i]
  PROVE  GroupInv'
<1>1. Indices' = Indices /\ index' = index + 1 /\ \A i : Frame(i)' = Frame(i)
  BY DEF Visit, Indices, Frame
<1>2. DOMAIN active' \subseteq Keys \ blocked_keys'
  BY DEF GroupingInv, GroupInv
<1>3. ASSUME NEW key \in DOMAIN active'
      PROVE  /\ active'[key] \in Seq(Indices)
             /\ \A i \in Range(active'[key]) :
                  i < index' /\ Frame(i).key = key /\ IsFragment(Frame(i)) /\ packets'[i] = capture[i]
  <2>1. key \in DOMAIN active /\ active'[key] = active[key]
    OBVIOUS
  <2>2. active[key] \in Seq(Indices) /\ Range(active[key]) \subseteq Indices
    BY <2>1, GroupFacts DEF GroupingInv, GroupInv, VisitInv
  <2>3. ASSUME NEW i \in Range(active[key])
        PROVE  /\ i < index' /\ Frame(i).key = key /\ IsFragment(Frame(i))
               /\ packets'[i] = capture[i]
    <3>1. i < index /\ Frame(i).key = key /\ IsFragment(Frame(i)) /\ Untouched(i) /\ i \in Indices
      BY <2>1, <2>2 DEF GroupingInv, GroupInv
    <3>2. i \in Nat /\ index \in Nat
      BY <3>1, IndicesFacts DEF GroupingInv, VisitInv
    <3>3. i < index'
      BY <1>1, <3>1, <3>2
    <3> QED BY <3>1, <3>3 DEF Untouched
  <2> QED BY <2>1, <2>2, <2>3
<1>4. \A i : IsFragment(Frame(i))' = IsFragment(Frame(i))
  BY <1>1 DEF IsFragment
<1> QED BY <1>1, <1>2, <1>3, <1>4 DEF GroupInv, Untouched

LEMMA RecordsStay ==
  ASSUME GroupingInv, capture' = capture, records' = records, index' = index + 1,
         DOMAIN completed' \subseteq Keys,
         \A i \in Indices : packets'[i] = packets[i] \/ (i = index /\ packets'[i] = Gone)
  PROVE  RecordInv'
<1>1. Indices' = Indices /\ \A i : Frame(i)' = Frame(i)
  BY DEF Indices, Frame
<1>2. \A i : IsFragment(Frame(i))' = IsFragment(Frame(i))
  BY <1>1 DEF IsFragment
<1>3. index \in Nat /\ \A i \in Indices : i \in Nat
  BY IndicesFacts DEF GroupingInv, VisitInv
<1>4. ASSUME NEW m \in DOMAIN records PROVE Record(m)'
  <2>1. Record(m) /\ m \in Indices /\ m < index
    BY DEF GroupingInv, RecordInv, Record
  <2>2. m # index /\ m < index'
    BY <1>3, <2>1
  <2>3. packets'[m] = packets[m]
    BY <2>1, <2>2
  <2> QED BY <1>1, <1>2, <2>1, <2>2, <2>3 DEF Record
<1>5. ASSUME NEW i \in Indices
      PROVE  \/ packets'[i] = capture'[i] \/ packets'[i] = Gone \/ i \in DOMAIN records'
             \/ \E m \in DOMAIN records' : \E n \in Nat : packets'[i] = Slot(m, n)
  <2>1. \/ packets[i] = capture[i] \/ packets[i] = Gone \/ i \in DOMAIN records
        \/ \E m \in DOMAIN records : \E n \in Nat : packets[i] = Slot(m, n)
    BY DEF GroupingInv, RecordInv, Untouched, IsSlot
  <2> QED BY <2>1
<1> QED BY <1>1, <1>4, <1>5 DEF RecordInv, Untouched, IsSlot, Slot

\* What CompleteGroup writes, with its abbreviations expanded.
LEMMA CompleteGroupEffect ==
  ASSUME GroupingInv, CompleteGroup
  PROVE  /\ Visit /\ Leave /\ TakesPart(Frame(index)) /\ ~RestartsGroup(Frame(index))
         /\ IsComplete(Joined) /\ HasHeader(Frame(index).key.proto, Assembled(Joined))
         /\ DOMAIN packets' = Indices
         /\ packets'[Joined[1]] = Virtual(Joined[1], Frame(index).key, Assembled(Joined))
         /\ \A i \in Range(Joined) \ {Joined[1]} :
              \E n \in Nat : packets'[i] = Slot(Joined[1], n)
         /\ \A i \in Indices \ Range(Joined) : packets'[i] = packets[i]
         /\ completed' = With(completed, Frame(index).key,
              [o \in Offsets(Joined) |->
                 <<Frame(FirstAt(o, Joined)).data, Frame(FirstAt(o, Joined)).mf>>])
         /\ records' = With(records, Joined[1],
              [sizes |-> [n \in DOMAIN UniqueFragments(Joined) |->
                            Len(Frame(UniqueFragments(Joined)[n]).data)],
               slots |-> Joined])
         /\ active' = Without(active, Frame(index).key)
         /\ blocked_keys' = blocked_keys
<1> DEFINE OrdinalOf(i) == CHOOSE n \in DOMAIN Joined : Joined[n] = i
<1>1. packets' = [i \in Indices |->
         IF i = Joined[1] THEN Virtual(Joined[1], Frame(index).key, Assembled(Joined))
         ELSE IF i \in Range(Joined) THEN Slot(Joined[1], OrdinalOf(i) - 1)
         ELSE packets[i]]
  BY Zenon DEF CompleteGroup, Slots
<1>2. /\ Visit /\ Leave /\ TakesPart(Frame(index)) /\ ~RestartsGroup(Frame(index))
      /\ IsComplete(Joined) /\ HasHeader(Frame(index).key.proto, Assembled(Joined))
      /\ active' = Without(active, Frame(index).key) /\ blocked_keys' = blocked_keys
  BY Zenon DEF CompleteGroup
<1>3. /\ completed' = With(completed, Frame(index).key,
           [o \in Offsets(Joined) |->
              <<Frame(FirstAt(o, Joined)).data, Frame(FirstAt(o, Joined)).mf>>])
      /\ records' = With(records, Joined[1],
           [sizes |-> [n \in DOMAIN UniqueFragments(Joined) |->
                         Len(Frame(UniqueFragments(Joined)[n]).data)],
            slots |-> Joined])
  BY Zenon DEF CompleteGroup, Slots
<1>4. index \in Indices
  BY <1>2 DEF Visit
<1>5. /\ Range(Joined) \subseteq Indices /\ Joined[1] \in Range(Joined)
      /\ Len(Joined) \in Nat /\ DOMAIN Joined = 1 .. Len(Joined)
  BY <1>4, JoinedFacts
<1>6. ASSUME NEW i \in Range(Joined) \ {Joined[1]}
      PROVE  \E n \in Nat : packets'[i] = Slot(Joined[1], n)
  <2>1. \E n \in DOMAIN Joined : Joined[n] = i
    BY DEF Range
  <2>2. OrdinalOf(i) \in DOMAIN Joined
    BY <2>1
  <2> HIDE DEF OrdinalOf
  <2>3. OrdinalOf(i) - 1 \in Nat
    BY <1>5, <2>2
  <2>4. packets'[i] = Slot(Joined[1], OrdinalOf(i) - 1)
    BY <1>1, <1>5
  <2> QED BY <2>3, <2>4
<1> HIDE DEF OrdinalOf
<1>7. /\ DOMAIN packets' = Indices
      /\ packets'[Joined[1]] = Virtual(Joined[1], Frame(index).key, Assembled(Joined))
      /\ \A i \in Indices \ Range(Joined) : packets'[i] = packets[i]
  BY <1>1, <1>5
<1> QED BY <1>2, <1>3, <1>6, <1>7

\* Every fragment of a completed group leaves its place.
LEMMA CompleteTouches ==
  ASSUME GroupingInv, CompleteGroup, NEW i \in Range(Joined)
  PROVE  packets'[i].kind \in {"virtual", "slot"}
<1> DEFINE OrdinalOf(j) == CHOOSE n \in DOMAIN Joined : Joined[n] = j
<1>1. packets' = [j \in Indices |->
         IF j = Joined[1] THEN Virtual(Joined[1], Frame(index).key, Assembled(Joined))
         ELSE IF j \in Range(Joined) THEN Slot(Joined[1], OrdinalOf(j) - 1)
         ELSE packets[j]]
  BY Zenon DEF CompleteGroup, Slots
<1>2. i \in Indices
  BY CompleteGroupEffect, JoinedFacts, GroupFacts DEF Visit, GroupingInv, VisitInv
<1> HIDE DEF OrdinalOf
<1>3. CASE i = Joined[1]
  <2>1. packets'[i] = Virtual(Joined[1], Frame(index).key, Assembled(Joined))
    BY <1>1, <1>2, <1>3
  <2> QED BY <2>1 DEF Virtual
<1>4. CASE i # Joined[1]
  <2>1. packets'[i] = Slot(Joined[1], OrdinalOf(i) - 1)
    BY <1>1, <1>2, <1>4
  <2> QED BY <2>1 DEF Slot
<1> QED BY <1>3, <1>4

\* The packets of earlier records are not among the fragments of a group.
LEMMA GroupIsUntouched ==
  ASSUME GroupingInv, Visit
  PROVE  /\ \A i \in Range(Joined) :
              i \in Indices /\ i <= index /\ Untouched(i) /\ packets[i].kind = "frame"
              /\ Frame(i).key = Frame(index).key
         /\ \A m \in DOMAIN records : m \notin Range(Joined)
         /\ IsFragment(Frame(index)) => \A i \in Range(Joined) : IsFragment(Frame(i))
<1>1. index \in Indices /\ index \in Nat /\ \A i \in Indices : i \in Nat
  BY IndicesFacts DEF Visit, GroupingInv, VisitInv
<1>2. Untouched(index)
  BY <1>1 DEF GroupingInv, VisitInv
<1>3. Range(Joined) = Range(GroupOf(Frame(index).key)) \cup {index}
      /\ \A i \in Range(GroupOf(Frame(index).key)) :
           /\ i \in Indices /\ i < index /\ Frame(i).key = Frame(index).key
           /\ IsFragment(Frame(i)) /\ Untouched(i)
  BY <1>1, JoinedFacts
<1>4. ASSUME NEW i \in Range(Joined)
      PROVE  /\ i \in Indices /\ i <= index /\ Untouched(i) /\ packets[i].kind = "frame"
             /\ Frame(i).key = Frame(index).key
  <2>1. i \in Indices /\ i <= index /\ Untouched(i) /\ Frame(i).key = Frame(index).key
    <3>1. CASE i \in Range(GroupOf(Frame(index).key))
      <4>1. i \in Indices /\ i < index /\ Untouched(i) /\ Frame(i).key = Frame(index).key
        BY <1>3, <3>1
      <4>2. i \in Nat
        BY <1>1, <4>1
      <4> QED BY <1>1, <4>1, <4>2
    <3>2. CASE i = index
      BY <1>1, <1>2, <3>2
    <3> QED BY <1>3, <3>1, <3>2
  <2>2. packets[i] = Frame(i)
    BY <2>1 DEF Untouched, Frame
  <2> QED BY <2>1, <2>2, FrameFacts DEF GroupingInv, VisitInv
<1>5. ASSUME NEW m \in DOMAIN records PROVE m \notin Range(Joined)
  <2>1. packets[m] = Virtual(m, Frame(m).key, packets[m].data)
    BY DEF GroupingInv, RecordInv, Record
  <2>2. packets[m].kind = "virtual"
    BY <2>1 DEF Virtual
  <2> QED BY <1>4, <2>2
<1>6. IsFragment(Frame(index)) => \A i \in Range(Joined) : IsFragment(Frame(i))
  BY <1>3
<1> QED BY <1>4, <1>5, <1>6

LEMMA CompleteKeepsRecords ==
  ASSUME GroupingInv, CompleteGroup
  PROVE  RecordInv'
<1> DEFINE key == Frame(index).key
<1>0. PICK marker : marker = Joined[1]
  OBVIOUS
<1>1. /\ Visit /\ Leave /\ TakesPart(Frame(index)) /\ IsComplete(Joined)
      /\ DOMAIN packets' = Indices
      /\ packets'[marker] = Virtual(marker, key, Assembled(Joined))
      /\ \A i \in Range(Joined) \ {marker} : \E n \in Nat : packets'[i] = Slot(marker, n)
      /\ \A i \in Indices \ Range(Joined) : packets'[i] = packets[i]
      /\ DOMAIN completed' = DOMAIN completed \cup {key}
      /\ DOMAIN records' = DOMAIN records \cup {marker}
      /\ \A m \in DOMAIN records : m # marker => records'[m] = records[m]
      /\ records'[marker] =
           [sizes |-> [n \in DOMAIN UniqueFragments(Joined) |->
                         Len(Frame(UniqueFragments(Joined)[n]).data)],
            slots |-> Joined]
  <2>1. /\ Visit /\ Leave /\ TakesPart(Frame(index)) /\ IsComplete(Joined)
        /\ DOMAIN packets' = Indices
        /\ packets'[marker] = Virtual(marker, key, Assembled(Joined))
        /\ \A i \in Range(Joined) \ {marker} : \E n \in Nat : packets'[i] = Slot(marker, n)
        /\ \A i \in Indices \ Range(Joined) : packets'[i] = packets[i]
    BY <1>0, CompleteGroupEffect
  <2>2. DOMAIN completed' = DOMAIN completed \cup {key}
    <3>1. completed' = With(completed, Frame(index).key,
            [o \in Offsets(Joined) |->
               <<Frame(FirstAt(o, Joined)).data, Frame(FirstAt(o, Joined)).mf>>])
      BY CompleteGroupEffect
    <3> QED BY <3>1 DEF With
  <2>3. PICK value :
          /\ records' = With(records, marker, value)
          /\ value = [sizes |-> [n \in DOMAIN UniqueFragments(Joined) |->
                                   Len(Frame(UniqueFragments(Joined)[n]).data)],
                      slots |-> Joined]
    BY <1>0, CompleteGroupEffect, Zenon
  <2>4. /\ DOMAIN records' = DOMAIN records \cup {marker}
        /\ \A m \in DOMAIN records : m # marker => records'[m] = records[m]
        /\ records'[marker] = value
    <3>1. records' = With(records, marker, value)
      BY <2>3
    <3> QED BY <3>1 DEF With
  <2> QED BY <2>1, <2>2, <2>3, <2>4, Zenon
<1>2. /\ Indices' = Indices /\ capture' = capture /\ index' = index + 1
      /\ \A i : Frame(i)' = Frame(i)
  BY <1>1 DEF Leave, Visit, Indices, Frame
<1>3. \A i : IsFragment(Frame(i))' = IsFragment(Frame(i))
  BY <1>2 DEF IsFragment
<1>4. /\ index \in Indices /\ capture \in Files /\ index \in Nat
      /\ \A i \in Indices : i \in Nat
  BY <1>1, IndicesFacts DEF Visit, GroupingInv, VisitInv
<1>5. key \in Keys /\ IsFragment(Frame(index))
  BY <1>1, <1>4, FrameFacts DEF TakesPart
<1>6. Joined \in Seq(Indices) /\ marker \in Range(Joined)
  BY <1>0, <1>4, JoinedFacts
<1>7. /\ marker \in Indices /\ marker <= index /\ Frame(marker).key = key
      /\ IsFragment(Frame(marker)) /\ \A m \in DOMAIN records : m \notin Range(Joined)
  BY <1>1, <1>5, <1>6, GroupIsUntouched
<1>8. Record(marker)'
  <2>1. marker < index'
    <3>1. marker \in Nat /\ marker <= index /\ index' = index + 1
      BY <1>2, <1>4, <1>7
    <3> QED BY <1>4, <3>1
  <2>2. packets'[marker].data = Assembled(Joined)
    BY <1>1 DEF Virtual
  <2>3. Assembled(Joined) \in Seq(Cells)
    BY <1>1, <1>4, <1>6, AssembledType
  <2>4. records'[marker].slots = Joined
    BY <1>1
  <2>5. records'[marker].sizes \in Seq(Nat)
    <3>1. PICK u \in Seq(Indices) : u = UniqueFragments(Joined)
      BY <1>4, <1>6, UniqueFacts, Zenon
    <3>2. DOMAIN u = 1 .. Len(u) /\ Len(u) \in Nat /\ \A n \in 1 .. Len(u) : u[n] \in Indices
      BY LenProperties, ElementOfSeq
    <3>3. \A n \in 1 .. Len(u) : Len(Frame(u[n]).data) \in Nat
      BY <1>4, <3>2, FrameFacts
    <3>4. records'[marker].sizes = [n \in 1 .. Len(u) |-> Len(Frame(u[n]).data)]
      BY <1>1, <3>1, <3>2
    <3>5. [n \in 1 .. Len(u) |-> Len(Frame(u[n]).data)] \in [1 .. Len(u) -> Nat]
      BY <3>3
    <3> QED BY <3>2, <3>4, <3>5, SeqDef
  <2>6. packets'[marker] = Virtual(marker, Frame(marker).key, packets'[marker].data)
    BY <1>1, <1>7, <2>2
  <2> QED BY <1>2, <1>3, <1>6, <1>7, <2>1, <2>2, <2>3, <2>4, <2>5, <2>6 DEF Record, Virtual
<1>9. ASSUME NEW m \in DOMAIN records PROVE Record(m)'
  <2>1. Record(m) /\ m \in Indices /\ m < index
    BY DEF GroupingInv, RecordInv, Record
  <2>2. m \notin Range(Joined) /\ m # marker /\ m < index'
    <3>1. m \in Nat /\ index' = index + 1
      BY <1>2, <1>4, <2>1
    <3>2. m < index'
      BY <1>4, <2>1, <3>1
    <3> QED BY <1>6, <1>7, <3>2
  <2>3. packets'[m] = packets[m] /\ records'[m] = records[m]
    BY <1>1, <2>1, <2>2
  <2> QED BY <1>2, <1>3, <2>1, <2>2, <2>3 DEF Record, Virtual
<1>10. ASSUME NEW i \in Indices
       PROVE  \/ packets'[i] = capture'[i] \/ packets'[i] = Gone \/ i \in DOMAIN records'
              \/ \E m \in DOMAIN records' : \E n \in Nat : packets'[i] = Slot(m, n)
  <2>1. CASE i \in Range(Joined)
    BY <1>1, <2>1
  <2>2. CASE i \notin Range(Joined)
    <3>1. packets'[i] = packets[i]
      BY <1>1, <2>2
    <3>2. \/ packets[i] = capture[i] \/ packets[i] = Gone \/ i \in DOMAIN records
          \/ \E m \in DOMAIN records : \E n \in Nat : packets[i] = Slot(m, n)
      BY DEF GroupingInv, RecordInv, Untouched, IsSlot
    <3> QED BY <1>1, <1>2, <3>1, <3>2
  <2> QED BY <2>1, <2>2
<1>11. DOMAIN completed' \subseteq Keys
  BY <1>1, <1>5 DEF GroupingInv, RecordInv
<1>12. \A m \in DOMAIN records' : Record(m)'
  BY <1>1, <1>8, <1>9
<1> QED BY <1>2, <1>10, <1>11, <1>12 DEF RecordInv, Untouched, IsSlot, Slot

ReassemblyStands ==
  /\ UNCHANGED <<capture, packets, index, active, blocked_keys, completed, records>>
  /\ stage' \in {"reassemble", "rewrite", "refragment", "done"}
  /\ stage' # "reassemble" => index \notin Indices

LEMMA StandingKeepsReassembly ==
  ASSUME GroupingInv, ReassemblyStands
  PROVE  GroupingInv'
<1>1. /\ capture' = capture /\ packets' = packets /\ index' = index /\ active' = active
      /\ blocked_keys' = blocked_keys /\ completed' = completed /\ records' = records
  BY DEF ReassemblyStands
<1>2. Indices' = Indices /\ \A i : Frame(i)' = Frame(i) /\ Untouched(i)' = Untouched(i)
  BY <1>1 DEF Indices, Frame, Untouched
<1>3. \A i : IsFragment(Frame(i))' = IsFragment(Frame(i))
  BY <1>2 DEF IsFragment
<1>4. VisitInv'
  BY <1>1, <1>2 DEF GroupingInv, VisitInv, ReassemblyStands
<1>5. GroupInv'
  BY <1>1, <1>2, <1>3 DEF GroupingInv, GroupInv
<1>6. RecordInv'
  <2>1. \A m : Record(m)' = Record(m) /\ IsSlot(m)' = IsSlot(m)
    BY <1>1, <1>2, <1>3 DEF Record, Virtual, IsSlot, Slot
  <2> QED BY <1>1, <1>2, <2>1 DEF GroupingInv, RecordInv, Gone
<1> QED BY <1>4, <1>5, <1>6 DEF GroupingInv

LEMMA CollectKeepsGroups ==
  ASSUME GroupingInv, CollectFragment
  PROVE  GroupInv'
<1>1. PICK key, group :
        key = Frame(index).key /\ group = Joined /\ active' = With(active, key, group)
  BY DEF CollectFragment
<1>2. /\ Visit /\ TakesPart(Frame(index)) /\ capture' = capture /\ packets' = packets
      /\ blocked_keys' = blocked_keys
  BY DEF CollectFragment, Leave
<1>3. /\ Indices' = Indices /\ index' = index + 1 /\ \A i : Frame(i)' = Frame(i)
      /\ \A i : Untouched(i)' = Untouched(i)
  BY <1>2 DEF Visit, Indices, Frame, Untouched
<1>4. \A i : IsFragment(Frame(i))' = IsFragment(Frame(i))
  BY <1>3 DEF IsFragment
<1>5. /\ index \in Indices /\ capture \in Files /\ index \in Nat
      /\ \A i \in Indices : i \in Nat
  BY <1>2, IndicesFacts DEF Visit, GroupingInv, VisitInv
<1>6. key \in Keys /\ IsFragment(Frame(index)) /\ key \notin blocked_keys
  BY <1>1, <1>2, <1>5, FrameFacts DEF TakesPart
<1>7. DOMAIN active' = DOMAIN active \cup {key} /\ active'[key] = group
      /\ \A k \in DOMAIN active : k # key => active'[k] = active[k]
  BY <1>1 DEF With
<1>8. group \in Seq(Indices)
  BY <1>1, <1>5, JoinedFacts
<1>9. ASSUME NEW i \in Range(group)
      PROVE  i < index' /\ Frame(i).key = key /\ IsFragment(Frame(i)) /\ Untouched(i)
  <2>1. /\ i \in Indices /\ i <= index /\ Untouched(i) /\ Frame(i).key = key
        /\ IsFragment(Frame(i))
    BY <1>1, <1>2, <1>6, GroupIsUntouched
  <2>2. i \in Nat
    BY <1>5, <2>1
  <2> QED BY <1>3, <1>5, <2>1, <2>2
<1>10. ASSUME NEW k \in DOMAIN active, k # key
       PROVE  /\ active'[k] \in Seq(Indices)
              /\ \A i \in Range(active'[k]) :
                   i < index' /\ Frame(i).key = k /\ IsFragment(Frame(i)) /\ Untouched(i)
  <2>1. active'[k] = active[k] /\ active[k] \in Seq(Indices) /\ Range(active[k]) \subseteq Indices
    BY <1>5, <1>7, <1>10, GroupFacts DEF GroupingInv, GroupInv
  <2>2. ASSUME NEW i \in Range(active[k])
        PROVE  i < index' /\ Frame(i).key = k /\ IsFragment(Frame(i)) /\ Untouched(i)
    <3>1. i < index /\ Frame(i).key = k /\ IsFragment(Frame(i)) /\ Untouched(i)
      BY DEF GroupingInv, GroupInv
    <3>2. i \in Nat
      BY <1>5, <2>1
    <3> QED BY <1>3, <1>5, <3>1, <3>2
  <2> QED BY <2>1, <2>2
<1>11. DOMAIN active' \subseteq Keys \ blocked_keys'
  BY <1>2, <1>6, <1>7 DEF GroupingInv, GroupInv
<1>12. ASSUME NEW k \in DOMAIN active'
       PROVE  /\ active'[k] \in Seq(Indices)
              /\ \A i \in Range(active'[k]) :
                   i < index' /\ Frame(i).key = k /\ IsFragment(Frame(i)) /\ Untouched(i)
  BY <1>7, <1>8, <1>9, <1>10
<1> QED BY <1>3, <1>4, <1>11, <1>12 DEF GroupInv

LEMMA ReassemblyStep ==
  ASSUME GroupingInv, [FragmentsNext]_fragmentsVars
  PROVE  GroupingInv'
<1>1. CASE PassPacket
  <2>1. /\ Visit /\ capture' = capture /\ packets' = packets /\ stage' = stage
        /\ active' = active /\ blocked_keys' = blocked_keys /\ records' = records
        /\ completed' = completed /\ index' = index + 1
    BY <1>1 DEF PassPacket, Leave, Visit
  <2>2. VisitInv'
    BY <2>1, VisitStays DEF GroupingInv, VisitInv
  <2>3. GroupInv'
    BY <2>1, GroupsStay DEF GroupingInv, GroupInv
  <2>4. RecordInv'
    BY <2>1, RecordsStay DEF GroupingInv, RecordInv
  <2> QED BY <2>2, <2>3, <2>4 DEF GroupingInv
<1>2. CASE DropDuplicate
  <2>1. /\ Visit /\ capture' = capture /\ packets' = [packets EXCEPT ![index] = Gone]
        /\ stage' = stage
        /\ active' = active /\ blocked_keys' = blocked_keys /\ records' = records
        /\ completed' = completed /\ index' = index + 1 /\ index \in Indices
    BY <1>2 DEF DropDuplicate, Leave, Visit
  <2>2. /\ DOMAIN packets' = Indices
        /\ \A i \in Indices : packets'[i] = IF i = index THEN Gone ELSE packets[i]
    BY <2>1 DEF GroupingInv, VisitInv
  <2>a. index \in Nat /\ \A i \in Indices : (i > index \/ i < index) => i # index
    BY IndicesFacts DEF GroupingInv, VisitInv
  <2>3. VisitInv'
    BY <2>1, <2>2, <2>a, VisitStays DEF GroupingInv
  <2>4. GroupInv'
    <3>1. \A i \in Indices : i < index => packets'[i] = packets[i]
      BY <2>2, <2>a
    <3> QED BY <2>1, <3>1, GroupsStay DEF GroupingInv, GroupInv
  <2>5. RecordInv'
    BY <2>1, <2>2, RecordsStay DEF GroupingInv, RecordInv
  <2> QED BY <2>3, <2>4, <2>5 DEF GroupingInv
<1>3. CASE BlockKey
  <2>1. /\ Visit /\ capture' = capture /\ packets' = packets /\ stage' = stage
        /\ active' = Without(active, Frame(index).key)
        /\ blocked_keys' = blocked_keys \cup {Frame(index).key} /\ records' = records
        /\ completed' = completed /\ index' = index + 1
    BY <1>3 DEF BlockKey, Leave, Visit
  <2>2. DOMAIN active' = DOMAIN active \ {Frame(index).key}
        /\ \A k \in DOMAIN active' : active'[k] = active[k]
    BY <2>1 DEF Without
  <2>3. VisitInv'
    BY <2>1, VisitStays DEF GroupingInv, VisitInv
  <2>4. GroupInv'
    BY <2>1, <2>2, GroupsStay DEF GroupingInv, GroupInv
  <2>5. RecordInv'
    BY <2>1, RecordsStay DEF GroupingInv, RecordInv
  <2> QED BY <2>3, <2>4, <2>5 DEF GroupingInv
<1>4. CASE CollectFragment
  <2>1. /\ Visit /\ capture' = capture /\ packets' = packets /\ stage' = stage
        /\ records' = records /\ completed' = completed /\ index' = index + 1
    BY <1>4 DEF CollectFragment, Leave, Visit
  <2>2. VisitInv'
    BY <2>1, VisitStays DEF GroupingInv, VisitInv
  <2>3. GroupInv'
    BY <1>4, CollectKeepsGroups
  <2>4. RecordInv'
    BY <2>1, RecordsStay DEF GroupingInv, RecordInv
  <2> QED BY <2>2, <2>3, <2>4 DEF GroupingInv
<1>5. CASE RejectGroup
  <2>1. /\ Visit /\ capture' = capture /\ packets' = packets /\ stage' = stage
        /\ active' = Without(active, Frame(index).key)
        /\ blocked_keys' = blocked_keys /\ records' = records
        /\ completed' = completed /\ index' = index + 1
    BY <1>5 DEF RejectGroup, Leave, Visit
  <2>2. DOMAIN active' = DOMAIN active \ {Frame(index).key}
        /\ \A k \in DOMAIN active' : active'[k] = active[k]
    BY <2>1 DEF Without
  <2>3. VisitInv'
    BY <2>1, VisitStays DEF GroupingInv, VisitInv
  <2>4. GroupInv'
    BY <2>1, <2>2, GroupsStay DEF GroupingInv, GroupInv
  <2>5. RecordInv'
    BY <2>1, RecordsStay DEF GroupingInv, RecordInv
  <2> QED BY <2>3, <2>4, <2>5 DEF GroupingInv
<1>6. CASE CompleteGroup
  <2>1. /\ Visit /\ capture' = capture /\ stage' = stage /\ DOMAIN packets' = Indices
        /\ active' = Without(active, Frame(index).key) /\ blocked_keys' = blocked_keys
        /\ \A i \in Indices \ Range(Joined) : packets'[i] = packets[i]
    BY <1>6, CompleteGroupEffect DEF Leave
  <2>2. DOMAIN active' = DOMAIN active \ {Frame(index).key}
        /\ \A k \in DOMAIN active' : active'[k] = active[k]
    BY <2>1 DEF Without
  <2>3. \A i \in Range(Joined) : i \in Indices /\ i <= index /\ Frame(i).key = Frame(index).key
    BY <2>1, GroupIsUntouched
  <2>a. index \in Nat /\ \A i \in Indices : i \in Nat
    BY IndicesFacts DEF GroupingInv, VisitInv
  <2>4. VisitInv'
    <3>1. ASSUME NEW i \in Indices, i > index PROVE i \notin Range(Joined)
      BY <2>3, <2>a, <3>1
    <3> QED BY <2>1, <3>1, VisitStays DEF GroupingInv
  <2>5. GroupInv'
    <3>1. ASSUME NEW i \in Indices, Frame(i).key \in DOMAIN active'
          PROVE  packets'[i] = packets[i]
      BY <2>1, <2>2, <2>3, <3>1
    <3> QED BY <2>1, <2>2, <3>1, GroupsStay DEF GroupingInv, GroupInv
  <2>6. RecordInv'
    BY <1>6, CompleteKeepsRecords
  <2> QED BY <2>4, <2>5, <2>6 DEF GroupingInv
<1>7. ASSUME \/ EndReassemble \/ Rewrite \/ EmitFrame \/ EmitFirst \/ DeferPiece \/ SkipSlot
             \/ EmitSlot \/ EndRefragment \/ UNCHANGED fragmentsVars
      PROVE  ReassemblyStands
  <2>1. GroupingInv => stage \in {"reassemble", "rewrite", "refragment", "done"}
                         /\ (stage # "reassemble" => index \notin Indices)
    BY DEF GroupingInv, VisitInv
  <2> QED BY <1>7, <2>1 DEF EndReassemble, Rewrite, EmitFrame, EmitFirst, DeferPiece, SkipSlot,
             EmitSlot, EndRefragment, KeepRest, Take, ReassemblyStands, fragmentsVars
<1> QED BY <1>1, <1>2, <1>3, <1>4, <1>5, <1>6, <1>7, StandingKeepsReassembly DEF FragmentsNext

-----------------------------------------------------------------------------
(***************************************************************************)
(* What the theorems ask of a capture.  IP ids come around after 65536     *)
(* datagrams, so a key has passed to another datagram only when nothing of *)
(* the one before is missing or on its way any more.                       *)
(***************************************************************************)
\* No fragment of another datagram waits for the rest under the same key.
KeysAreFree ==
  stage = "reassemble" /\ index \in Indices /\ IsFragment(Frame(index)) =>
    \A i \in Range(GroupOf(Frame(index).key)) : Frame(i).of = Frame(index).of

\* Equal fragments with equal keys are of the same datagram.
TellsApart ==
  \A i, j \in Indices :
    /\ Frame(i).key = Frame(j).key /\ Frame(i).offset = Frame(j).offset
    /\ Frame(i).data = Frame(j).data /\ Frame(i).mf = Frame(j).mf
    => Frame(i).of = Frame(j).of

\* A datagram is cut in one way, under one key; a fragment may come repeatedly.
OneCut ==
  \A i, j \in Indices : Frame(i).of = Frame(j).of =>
    /\ Frame(i).key = Frame(j).key /\ IsFragment(Frame(i)) = IsFragment(Frame(j))
    /\ Len(Frame(i).data) > 0
    /\ \/ EndOf(i) <= Frame(j).offset \/ EndOf(j) <= Frame(i).offset
       \/ Frame(i) = Frame(j)

\* When a key has passed to another datagram, nothing of the first one comes.
KeysChangeHands ==
  \A i, j, k \in Indices :
    i < j /\ j < k /\ Frame(i).key = Frame(j).key /\ Frame(i).of = Frame(k).of =>
      Frame(j).of = Frame(i).of

\* A group under a free key is of the datagram of the visited fragment.
LEMMA GroupIsPure ==
  ASSUME GroupingInv, KeysAreFree, Visit, TakesPart(Frame(index))
  PROVE  /\ \A i \in Range(Joined) : Frame(i).of = Frame(index).of
         /\ IsComplete(Joined) => Assembled(Joined) = Datagrams[Frame(index).of[1]]
         /\ Frame(index).of[1] \in DOMAIN Datagrams
<1>1. /\ stage = "reassemble" /\ index \in Indices /\ IsFragment(Frame(index))
      /\ capture \in Files
  BY DEF Visit, TakesPart, GroupingInv, VisitInv
<1>2. \A i \in Range(Joined) : Frame(i).of = Frame(index).of
  <2>1. Range(Joined) = Range(GroupOf(Frame(index).key)) \cup {index}
    BY <1>1, JoinedFacts
  <2> QED BY <1>1, <2>1 DEF KeysAreFree
<1>3. Joined \in Seq(Indices)
  BY <1>1, JoinedFacts
<1>4. IsComplete(Joined) => Assembled(Joined) = Datagrams[Frame(index).of[1]]
  <2>1. \A i \in Range(Joined) : Frame(i).of[1] = Frame(index).of[1]
    BY <1>2
  <2> QED BY <1>1, <1>3, <2>1, WholeDatagram
<1> QED BY <1>1, <1>2, <1>4, FrameFacts

LEMMA RecordsGrow ==
  ASSUME GroupingInv, [FragmentsNext]_fragmentsVars
  PROVE  /\ capture' = capture /\ Indices' = Indices
         /\ \A i : Frame(i)' = Frame(i) /\ SentAs(i)' = SentAs(i) /\ EndOf(i)' = EndOf(i)
         /\ \A i : IsFragment(Frame(i))' = IsFragment(Frame(i))
         /\ \A m \in DOMAIN records :
              m \in DOMAIN records' /\ records'[m] = records[m] /\ packets'[m] = packets[m]
         /\ ~ CompleteGroup => records' = records /\ completed' = completed
         /\ ~ Visit => packets' = packets /\ UNCHANGED <<index, active, blocked_keys>>
<1>1. CASE CompleteGroup
  <2>1. /\ Visit /\ Leave /\ \A i \in Indices \ Range(Joined) : packets'[i] = packets[i]
    BY <1>1, CompleteGroupEffect
  <2>2. PICK marker, value : marker = Joined[1] /\ records' = With(records, marker, value)
    BY <1>1, CompleteGroupEffect
  <2>3. DOMAIN records' = DOMAIN records \cup {marker}
        /\ \A m \in DOMAIN records : m # marker => records'[m] = records[m]
    BY <2>2 DEF With
  <2>4. ASSUME NEW m \in DOMAIN records
        PROVE  m \in Indices /\ m \notin Range(Joined) /\ m # marker
    <3>1. m \in Indices
      BY DEF GroupingInv, RecordInv, Record
    <3>2. marker \in Range(Joined)
      BY <2>1, <2>2, JoinedFacts DEF Visit
    <3>3. m \notin Range(Joined)
      BY <2>1, GroupIsUntouched
    <3> QED BY <3>1, <3>2, <3>3
  <2>5. capture' = capture
    BY <2>1 DEF Leave
  <2> QED BY <1>1, <2>1, <2>3, <2>4, <2>5 DEF Indices, Frame, SentAs, EndOf, IsFragment
<1>2. CASE PassPacket \/ BlockKey \/ CollectFragment \/ RejectGroup
  <2>1. capture' = capture /\ packets' = packets /\ records' = records /\ completed' = completed
        /\ Visit
    BY <1>2 DEF PassPacket, BlockKey, CollectFragment, RejectGroup, Leave
  <2> QED BY <2>1 DEF Indices, Frame, SentAs, EndOf, IsFragment
<1>3. CASE DropDuplicate
  <2>1. /\ capture' = capture /\ packets' = [packets EXCEPT ![index] = Gone] /\ Visit
        /\ records' = records /\ completed' = completed
    BY <1>3 DEF DropDuplicate, Leave
  <2>2. ASSUME NEW m \in DOMAIN records PROVE packets'[m] = packets[m]
    <3>1. m \in Indices /\ m < index /\ m \in Nat /\ index \in Nat
      BY IndicesFacts DEF GroupingInv, RecordInv, Record, VisitInv
    <3>2. m # index
      BY <3>1
    <3> QED BY <2>1, <3>2
  <2> QED BY <2>1, <2>2 DEF Indices, Frame, SentAs, EndOf, IsFragment
<1>4. CASE \/ EndReassemble \/ Rewrite \/ EmitFrame \/ EmitFirst \/ DeferPiece \/ SkipSlot
           \/ EmitSlot \/ EndRefragment \/ UNCHANGED fragmentsVars
  <2>1. UNCHANGED <<capture, packets, index, active, blocked_keys, completed, records>>
    BY <1>4 DEF EndReassemble, Rewrite, EmitFrame, EmitFirst, DeferPiece, SkipSlot,
             EmitSlot, EndRefragment, KeepRest, Take, fragmentsVars
  <2> QED BY <2>1 DEF Indices, Frame, SentAs, EndOf, IsFragment
<1> QED BY <1>1, <1>2, <1>3, <1>4 DEF FragmentsNext

LEMMA WholeStep ==
  ASSUME GroupingInv, DatagramsAreWhole, KeysAreFree, [FragmentsNext]_fragmentsVars
  PROVE  DatagramsAreWhole'
<1>1. ASSUME NEW m \in DOMAIN records
      PROVE  \E d \in DOMAIN Datagrams :
               /\ packets'[m].data = Datagrams[d]
               /\ \A i \in Range(records'[m].slots) : Frame(i).of[1] = d
  <2>1. records'[m] = records[m] /\ packets'[m] = packets[m]
    BY RecordsGrow
  <2> QED BY <2>1 DEF DatagramsAreWhole
<1>2. CASE CompleteGroup
  <2>1. PICK marker, d : marker = Joined[1] /\ d = Frame(index).of[1]
    OBVIOUS
  <2>2. PICK value :
          /\ Visit /\ TakesPart(Frame(index)) /\ IsComplete(Joined)
          /\ packets'[marker] = Virtual(marker, Frame(index).key, Assembled(Joined))
          /\ records' = With(records, marker, value) /\ value.slots = Joined
    <3>1. PICK sizes :
            records' = With(records, Joined[1], [sizes |-> sizes, slots |-> Joined])
      BY <1>2, CompleteGroupEffect, Zenon
    <3>2. [sizes |-> sizes, slots |-> Joined].slots = Joined
      OBVIOUS
    <3> QED BY <1>2, <2>1, <3>1, <3>2, CompleteGroupEffect, Zenon
  <2>3. DOMAIN records' = DOMAIN records \cup {marker} /\ records'[marker].slots = Joined
    BY <2>2 DEF With
  <2>4. /\ \A i \in Range(Joined) : Frame(i).of[1] = d
        /\ Assembled(Joined) = Datagrams[d] /\ d \in DOMAIN Datagrams
    BY <2>1, <2>2, GroupIsPure
  <2>5. packets'[marker].data = Datagrams[d]
    BY <2>2, <2>4 DEF Virtual
  <2>6. \A m \in DOMAIN records' : \E e \in DOMAIN Datagrams :
          /\ packets'[m].data = Datagrams[e]
          /\ \A i \in Range(records'[m].slots) : Frame(i).of[1] = e
    BY <1>1, <2>3, <2>4, <2>5
  <2> QED BY <2>6, RecordsGrow DEF DatagramsAreWhole
<1>3. CASE ~ CompleteGroup
  <2>1. records' = records
    BY <1>3, RecordsGrow
  <2>2. \A m \in DOMAIN records' : \E e \in DOMAIN Datagrams :
          /\ packets'[m].data = Datagrams[e]
          /\ \A i \in Range(records'[m].slots) : Frame(i).of[1] = e
    BY <1>1, <2>1
  <2> QED BY <2>2, RecordsGrow DEF DatagramsAreWhole
<1> QED BY <1>2, <1>3

-----------------------------------------------------------------------------
(***************************************************************************)
(* Dropped fragments: every place of a completed datagram goes back to a   *)
(* fragment that has a slot.                                               *)
(***************************************************************************)
InSlot(j) == \E m \in DOMAIN records : j \in Range(records[m].slots)

CompletedInv ==
  \A key \in DOMAIN completed : \A o \in DOMAIN completed[key] : \E j \in Indices :
    /\ InSlot(j) /\ Frame(j).key = key /\ Frame(j).offset = o
    /\ completed[key][o] = <<Frame(j).data, Frame(j).mf>>

LEMMA SlotsGrow ==
  ASSUME GroupingInv, [FragmentsNext]_fragmentsVars, NEW j, InSlot(j)
  PROVE  InSlot(j)'
BY RecordsGrow DEF InSlot

LEMMA FirstAtFacts ==
  ASSUME capture \in Files, NEW group \in Seq(Indices), NEW o \in Offsets(group)
  PROVE  FirstAt(o, group) \in Range(group) /\ Frame(FirstAt(o, group)).offset = o
<1> DEFINE here == {i \in Range(group) : Frame(i).offset = o}
<1>1. here \subseteq Nat /\ here # {}
  BY GroupFacts, FrameFacts DEF Offsets
<1>2. Min(here) \in here
  <2> HIDE DEF here
  <2> QED BY <1>1, MinFacts
<1>3. FirstAt(o, group) = Min(here)
  BY DEF FirstAt
<1> QED BY <1>2, <1>3

LEMMA CompletedStep ==
  ASSUME GroupingInv, CompletedInv, [FragmentsNext]_fragmentsVars
  PROVE  CompletedInv'
<1>1. CASE CompleteGroup
  <2>1. PICK key, group, places :
          /\ key = Frame(index).key /\ group = Joined
          /\ places = [o \in Offsets(group) |->
                        <<Frame(FirstAt(o, group)).data, Frame(FirstAt(o, group)).mf>>]
          /\ completed' = With(completed, key, places)
    BY <1>1, CompleteGroupEffect, Zenon
  <2>2. DOMAIN completed' = DOMAIN completed \cup {key} /\ completed'[key] = places
        /\ \A k \in DOMAIN completed : k # key => completed'[k] = completed[k]
    BY <2>1 DEF With
  <2>3. Visit /\ capture \in Files /\ group \in Seq(Indices) /\ Range(group) \subseteq Indices
    <3>1. Visit
      BY <1>1, CompleteGroupEffect
    <3> QED BY <2>1, <3>1, JoinedFacts, GroupFacts DEF Visit, GroupingInv, VisitInv
  <2>4. \A j \in Range(group) : InSlot(j)'
    <3>1. PICK marker, value :
            records' = With(records, marker, value) /\ value.slots = group
      <4>1. PICK sizes :
              records' = With(records, Joined[1], [sizes |-> sizes, slots |-> Joined])
        BY <1>1, CompleteGroupEffect, Zenon
      <4>2. [sizes |-> sizes, slots |-> Joined].slots = Joined
        OBVIOUS
      <4> QED BY <2>1, <4>1, <4>2, Zenon
    <3>2. marker \in DOMAIN records' /\ records'[marker].slots = group
      BY <3>1 DEF With
    <3> QED BY <3>2 DEF InSlot
  <2>5. ASSUME NEW o \in Offsets(group)
        PROVE  \E j \in Indices : /\ InSlot(j)' /\ Frame(j).key = key /\ Frame(j).offset = o
                                  /\ completed'[key][o] = <<Frame(j).data, Frame(j).mf>>
    <3>1. PICK j : j = FirstAt(o, group) /\ j \in Range(group) /\ Frame(j).offset = o
      BY <2>3, FirstAtFacts
    <3>2. j \in Indices /\ Frame(j).key = key
      BY <2>1, <2>3, <3>1, GroupIsUntouched
    <3>3. completed'[key][o] = <<Frame(j).data, Frame(j).mf>>
      BY <2>1, <2>2, <3>1
    <3> QED BY <2>4, <3>1, <3>2, <3>3
  <2>6. DOMAIN completed'[key] = Offsets(group)
    BY <2>1, <2>2
  <2>7. ASSUME NEW k \in DOMAIN completed, k # key, NEW o \in DOMAIN completed[k]
        PROVE  \E j \in Indices : /\ InSlot(j)' /\ Frame(j).key = k /\ Frame(j).offset = o
                                  /\ completed'[k][o] = <<Frame(j).data, Frame(j).mf>>
    <3>1. PICK j \in Indices : /\ InSlot(j) /\ Frame(j).key = k /\ Frame(j).offset = o
                               /\ completed[k][o] = <<Frame(j).data, Frame(j).mf>>
      BY DEF CompletedInv
    <3> QED BY <2>2, <2>7, <3>1, SlotsGrow
  <2>8. \A k \in DOMAIN completed' : \A o \in DOMAIN completed'[k] : \E j \in Indices :
          /\ InSlot(j)' /\ Frame(j).key = k /\ Frame(j).offset = o
          /\ completed'[k][o] = <<Frame(j).data, Frame(j).mf>>
    BY <2>2, <2>5, <2>6, <2>7
  <2> QED BY <2>8, RecordsGrow DEF CompletedInv
<1>2. CASE ~ CompleteGroup
  <2>1. completed' = completed /\ records' = records /\ capture' = capture /\ Indices' = Indices
        /\ \A i : Frame(i)' = Frame(i)
    BY <1>2, RecordsGrow
  <2> QED BY <2>1 DEF CompletedInv, InSlot
<1> QED BY <1>1, <1>2

LEMMA DropsStep ==
  ASSUME GroupingInv, CompletedInv, TellsApart, DropsAreRepeats,
         [FragmentsNext]_fragmentsVars
  PROVE  DropsAreRepeats'
<1> DEFINE Repeats(i) == \E j \in Indices : InSlot(j) /\ Frame(j).of = Frame(i).of
                                            /\ Frame(j).offset = Frame(i).offset
<1>1. ASSUME NEW i \in Indices, packets'[i] = Gone PROVE packets[i] = Gone \/ Repeats(i)
  <2>1. CASE DropDuplicate
    <3>1. CASE i # index
      BY <1>1, <2>1, <3>1 DEF DropDuplicate, GroupingInv, VisitInv
    <3>2. CASE i = index
      <4>1. IsCompletedDuplicate(Frame(i))
        BY <2>1, <3>2 DEF DropDuplicate
      <4>2. PICK j \in Indices :
              /\ InSlot(j) /\ Frame(j).key = Frame(i).key /\ Frame(j).offset = Frame(i).offset
              /\ <<Frame(i).data, Frame(i).mf>> = <<Frame(j).data, Frame(j).mf>>
        BY <4>1 DEF IsCompletedDuplicate, CompletedInv
      <4>3. Frame(j).of = Frame(i).of
        BY <4>2 DEF TellsApart
      <4> QED BY <4>2, <4>3
    <3> QED BY <3>1, <3>2
  <2>2. CASE CompleteGroup
    <3>1. i \notin Range(Joined) => packets'[i] = packets[i]
      BY <2>2, CompleteGroupEffect
    <3>2. i \in Range(Joined) => packets'[i].kind \in {"virtual", "slot"}
      BY <2>2, CompleteTouches
    <3>3. packets'[i].kind = "gone"
      BY <1>1 DEF Gone
    <3> QED BY <1>1, <3>1, <3>2, <3>3
  <2>3. CASE PassPacket \/ BlockKey \/ CollectFragment \/ RejectGroup
    <3>1. packets' = packets
      BY <2>3 DEF PassPacket, BlockKey, CollectFragment, RejectGroup
    <3> QED BY <1>1, <3>1
  <2>4. CASE \/ EndReassemble \/ Rewrite \/ EmitFrame \/ EmitFirst \/ DeferPiece \/ SkipSlot
             \/ EmitSlot \/ EndRefragment \/ UNCHANGED fragmentsVars
    <3>1. packets' = packets
      BY <2>4 DEF EndReassemble, Rewrite, EmitFrame, EmitFirst, DeferPiece, SkipSlot,
             EmitSlot, EndRefragment, KeepRest, Take, fragmentsVars
    <3> QED BY <1>1, <3>1
  <2> QED BY <2>1, <2>2, <2>3, <2>4 DEF FragmentsNext
<1>2. ASSUME NEW i \in Indices, packets'[i] = Gone
      PROVE  \E j \in Indices :
               InSlot(j)' /\ Frame(j).of = Frame(i).of /\ Frame(j).offset = Frame(i).offset
  <2>1. packets[i] = Gone => Repeats(i)
    <3>1. ASSUME packets[i] = Gone PROVE Repeats(i)
      <4>1. PICK m \in DOMAIN records : \E j \in Range(records[m].slots) :
              Frame(j).of = Frame(i).of /\ Frame(j).offset = Frame(i).offset
        BY <3>1 DEF DropsAreRepeats
      <4>2. Range(records[m].slots) \subseteq Indices
        BY GroupFacts DEF GroupingInv, RecordInv, Record, VisitInv
      <4> QED BY <4>1, <4>2 DEF InSlot
    <3> QED BY <3>1
  <2>2. PICK j \in Indices :
          InSlot(j) /\ Frame(j).of = Frame(i).of /\ Frame(j).offset = Frame(i).offset
    BY <1>1, <1>2, <2>1
  <2> QED BY <2>2, SlotsGrow
<1> QED BY <1>2, RecordsGrow DEF DropsAreRepeats, InSlot, Gone

-----------------------------------------------------------------------------
(***************************************************************************)
(* Old fragments: what was passed over is waiting, or its key or its       *)
(* datagram is given up; nothing of a datagram with a record is left; and  *)
(* what of it may still come is known, until its key passes to another.    *)
(***************************************************************************)
GivenUp(i) ==
  \/ Frame(i).key \in blocked_keys
  \/ ~ HasHeader(Frame(i).key.proto, SentAs(i))

LeftInv ==
  \A i \in Indices : i < index /\ Untouched(i) /\ IsFragment(Frame(i)) =>
    i \in Range(GroupOf(Frame(i).key)) \/ GivenUp(i)

NothingLeftInv ==
  \A m \in DOMAIN records : \A i \in Indices :
    i < index /\ Frame(i).of = Frame(m).of => ~ Untouched(i)

PassedOn(m) ==
  \E j \in Indices :
    m < j /\ j < index /\ Frame(j).key = Frame(m).key /\ Frame(j).of # Frame(m).of

KnownInv ==
  \A m \in DOMAIN records :
    \/ \A i \in Indices : Frame(i).of = Frame(m).of => IsCompletedDuplicate(Frame(i))
    \/ PassedOn(m)

OldInv == LeftInv /\ NothingLeftInv /\ KnownInv

LEMMA LeftStep ==
  ASSUME GroupingInv, LeftInv, KeysAreFree, [FragmentsNext]_fragmentsVars
  PROVE  LeftInv'
<1>0. /\ capture' = capture /\ Indices' = Indices
      /\ \A i : Frame(i)' = Frame(i) /\ SentAs(i)' = SentAs(i)
      /\ \A i : IsFragment(Frame(i))' = IsFragment(Frame(i))
  BY RecordsGrow
<1>a. \A i : HasHeader(Frame(i).key.proto, SentAs(i))' = HasHeader(Frame(i).key.proto, SentAs(i))
  BY <1>0 DEF HasHeader
<1>b. index \in Nat /\ \A i \in Indices : i \in Nat
  BY IndicesFacts DEF GroupingInv, VisitInv
<1> SUFFICES ASSUME NEW i \in Indices, i < index', packets'[i] = capture[i],
                    IsFragment(Frame(i))
             PROVE  i \in Range(GroupOf(Frame(i).key))' \/ GivenUp(i)'
  BY <1>0 DEF LeftInv, Untouched
<1> DEFINE key == Frame(index).key
<1>c. index' = index + 1 /\ i # index => i < index
  <2>1. ASSUME NEW after, after = index + 1, i < after, i # index PROVE i < index
    BY <1>b, <2>1
  <2> QED BY <2>1
<1>1. ASSUME \A k \in DOMAIN active :
               k = Frame(i).key => k \in DOMAIN active' /\ active'[k] = active[k],
             blocked_keys \subseteq blocked_keys', i < index, Untouched(i)
      PROVE  i \in Range(GroupOf(Frame(i).key))' \/ GivenUp(i)'
  <2>0. PICK key1 :
          /\ Frame(i).key = key1
          /\ key1 \in DOMAIN active => key1 \in DOMAIN active' /\ active'[key1] = active[key1]
    BY <1>1
  <2>1. i \in Range(GroupOf(Frame(i).key)) \/ GivenUp(i)
    BY <1>1 DEF LeftInv
  <2>2. GivenUp(i) => GivenUp(i)'
    BY <1>0, <1>1, <1>a DEF GivenUp
  <2>3. i \in Range(GroupOf(Frame(i).key)) => key1 \in DOMAIN active
    BY <2>0 DEF GroupOf, Range
  <2>4. key1 \in DOMAIN active => GroupOf(Frame(i).key)' = GroupOf(Frame(i).key)
    BY <1>0, <2>0 DEF GroupOf
  <2> QED BY <2>1, <2>2, <2>3, <2>4 DEF Range
<1>2. CASE PassPacket
  <2>1. UNCHANGED <<packets, active, blocked_keys>> /\ index' = index + 1
    BY <1>2 DEF PassPacket, Visit
  <2>2. CASE i < index
    BY <1>1, <2>1, <2>2 DEF Untouched
  <2>3. CASE ~ (i < index)
    <3>1. i = index
      BY <1>b, <2>1, <2>3
    <3>2. Frame(i).key \in blocked_keys
      BY <1>2, <3>1 DEF PassPacket
    <3> QED BY <1>0, <2>1, <3>2 DEF GivenUp
  <2> QED BY <2>2, <2>3
<1>3. CASE DropDuplicate
  <2>1. /\ UNCHANGED <<active, blocked_keys>> /\ index' = index + 1 /\ index \in Indices
        /\ packets' = [packets EXCEPT ![index] = Gone]
    BY <1>3 DEF DropDuplicate, Visit
  <2>2. i # index
    <3>1. packets'[index] = Gone
      BY <2>1 DEF GroupingInv, VisitInv
    <3>2. Gone # Frame(i)
      BY FrameFacts DEF Gone, GroupingInv, VisitInv
    <3> QED BY <3>1, <3>2 DEF Frame
  <2>3. i < index /\ Untouched(i)
    BY <1>b, <2>1, <2>2 DEF Untouched
  <2> QED BY <1>1, <2>1, <2>3
<1>4. CASE BlockKey \/ RejectGroup
  <2>1. /\ UNCHANGED packets /\ index' = index + 1 /\ index \in Indices /\ Visit
        /\ TakesPart(Frame(index))
        /\ active' = Without(active, key) /\ blocked_keys \subseteq blocked_keys'
    BY <1>4 DEF BlockKey, RejectGroup, Visit
  <2>2. CASE Frame(i).key # key
    <3>0. i # index
      BY <2>2
    <3>1. i < index
      BY <1>c, <2>1, <3>0
    <3>2. \A k \in DOMAIN active : k # key => k \in DOMAIN active' /\ active'[k] = active[k]
      BY <2>1 DEF Without
    <3>3. Untouched(i)
      BY <2>1 DEF Untouched
    <3> QED BY <1>1, <2>1, <2>2, <3>1, <3>2, <3>3
  <2>3. CASE Frame(i).key = key /\ BlockKey
    BY <1>0, <2>3 DEF BlockKey, GivenUp
  <2>4. CASE Frame(i).key = key /\ RejectGroup
    <3>1. IsComplete(Joined) /\ ~ HasHeader(key.proto, Assembled(Joined))
      BY <2>4 DEF RejectGroup
    <3>2. Range(Joined) = Range(GroupOf(key)) \cup {index}
      BY <2>1, JoinedFacts
    <3>3. CASE i \in Range(Joined)
      <4>1. Assembled(Joined) = SentAs(i)
        BY <2>1, <3>1, <3>3, GroupIsPure DEF SentAs
      <4>2. ~ HasHeader(Frame(i).key.proto, SentAs(i))
        BY <2>4, <3>1, <4>1
      <4> QED BY <1>0, <1>a, <4>2 DEF GivenUp
    <3>4. CASE i \notin Range(Joined)
      <4>1. i < index /\ Untouched(i)
        BY <1>b, <2>1, <3>2, <3>4 DEF Untouched
      <4>2. GivenUp(i)
        BY <2>4, <3>2, <3>4, <4>1 DEF LeftInv
      <4> QED BY <1>0, <1>a, <2>1, <4>2 DEF GivenUp
    <3> QED BY <3>3, <3>4
  <2> QED BY <1>4, <2>2, <2>3, <2>4
<1>5. CASE CollectFragment
  <2>1. /\ UNCHANGED <<packets, blocked_keys>> /\ index' = index + 1 /\ index \in Indices
        /\ active' = With(active, key, Joined)
    BY <1>5 DEF CollectFragment, Visit
  <2>2. DOMAIN active' = DOMAIN active \cup {key} /\ active'[key] = Joined
        /\ \A k \in DOMAIN active : k # key => active'[k] = active[k]
    BY <2>1 DEF With
  <2>3. Range(Joined) = Range(GroupOf(key)) \cup {index}
    BY <2>1, JoinedFacts
  <2>4. CASE Frame(i).key # key
    <3>0. i # index
      BY <2>4
    <3>1. i < index
      BY <1>c, <2>1, <3>0
    <3>2. Untouched(i) /\ blocked_keys \subseteq blocked_keys'
      BY <2>1 DEF Untouched
    <3>3. \A k \in DOMAIN active :
            k = Frame(i).key => k \in DOMAIN active' /\ active'[k] = active[k]
      BY <2>2, <2>4
    <3> QED BY <1>1, <3>1, <3>2, <3>3
  <2>5. CASE Frame(i).key = key
    <3>1. GroupOf(Frame(i).key)' = Joined
      BY <1>0, <2>2, <2>5 DEF GroupOf
    <3>2. CASE i \in Range(Joined)
      BY <3>1, <3>2 DEF Range
    <3>3. CASE i \notin Range(Joined)
      <4>1. i < index /\ Untouched(i)
        BY <1>b, <2>1, <2>3, <3>3 DEF Untouched
      <4>2. GivenUp(i)
        BY <2>3, <2>5, <3>3, <4>1 DEF LeftInv
      <4> QED BY <1>0, <1>a, <2>1, <4>2 DEF GivenUp
    <3> QED BY <3>2, <3>3
  <2> QED BY <2>4, <2>5
<1>6. CASE CompleteGroup
  <2>1. /\ Visit /\ index' = index + 1 /\ index \in Indices /\ blocked_keys' = blocked_keys
        /\ active' = Without(active, key)
        /\ \A k \in Indices \ Range(Joined) : packets'[k] = packets[k]
    BY <1>6, CompleteGroupEffect DEF Visit
  <2>2. Range(Joined) = Range(GroupOf(key)) \cup {index}
    BY <2>1, JoinedFacts
  <2>3. i \notin Range(Joined)
    <3>1. Frame(i).kind = "frame"
      BY FrameFacts DEF GroupingInv, VisitInv
    <3>2. packets'[i].kind = "frame"
      BY <3>1 DEF Frame
    <3> QED BY <1>6, <3>2, CompleteTouches
  <2>4. i < index /\ Untouched(i)
    <3>1. i # index
      BY <2>2, <2>3
    <3>2. i < index
      BY <1>c, <2>1, <3>1
    <3> QED BY <2>1, <2>2, <2>3, <3>2 DEF Untouched
  <2>5. CASE Frame(i).key = key
    <3>1. GivenUp(i)
      BY <2>2, <2>3, <2>4, <2>5 DEF LeftInv
    <3> QED BY <1>0, <1>a, <2>1, <3>1 DEF GivenUp
  <2>6. CASE Frame(i).key # key
    <3>1. \A k \in DOMAIN active : k # key => k \in DOMAIN active' /\ active'[k] = active[k]
      BY <2>1 DEF Without
    <3>2. blocked_keys \subseteq blocked_keys'
      BY <2>1
    <3> QED BY <1>1, <2>4, <2>6, <3>1, <3>2
  <2> QED BY <2>5, <2>6
<1>7. CASE \/ EndReassemble \/ Rewrite \/ EmitFrame \/ EmitFirst \/ DeferPiece \/ SkipSlot
           \/ EmitSlot \/ EndRefragment \/ UNCHANGED fragmentsVars
  <2>1. UNCHANGED <<packets, active, blocked_keys, index>>
    BY <1>7 DEF EndReassemble, Rewrite, EmitFrame, EmitFirst, DeferPiece, SkipSlot,
             EmitSlot, EndRefragment, KeepRest, Take, fragmentsVars
  <2> QED BY <1>1, <2>1 DEF Untouched
<1> QED BY <1>2, <1>3, <1>4, <1>5, <1>6, <1>7 DEF FragmentsNext

\* What CompleteGroup adds to the records: the datagram of the visited fragment.
LEMMA NewRecord ==
  ASSUME GroupingInv, KeysAreFree, CompleteGroup
  PROVE  \E marker \in Range(Joined) :
           /\ DOMAIN records' = DOMAIN records \cup {marker}
           /\ Frame(marker).of = Frame(index).of /\ Frame(marker).key = Frame(index).key
           /\ IsFragment(Frame(marker)) /\ marker \in Indices /\ marker <= index
<1>1. /\ Visit /\ TakesPart(Frame(index))
      /\ \E value : records' = With(records, Joined[1], value)
  BY CompleteGroupEffect
<1>2. PICK marker : marker = Joined[1]
  OBVIOUS
<1>3. DOMAIN records' = DOMAIN records \cup {marker}
  BY <1>1, <1>2 DEF With
<1>4. marker \in Range(Joined)
  BY <1>1, <1>2, JoinedFacts DEF Visit
<1>5. Frame(marker).of = Frame(index).of
  BY <1>1, <1>4, GroupIsPure
<1>6. IsFragment(Frame(index))
  BY <1>1 DEF TakesPart
<1>7. /\ Frame(marker).key = Frame(index).key /\ IsFragment(Frame(marker))
      /\ marker \in Indices /\ marker <= index
  BY <1>1, <1>4, <1>6, GroupIsUntouched
<1> QED BY <1>3, <1>4, <1>5, <1>7

LEMMA NothingLeftStep ==
  ASSUME GroupingInv, OldInv, KeysAreFree, OneCut, KeysChangeHands,
         [FragmentsNext]_fragmentsVars
  PROVE  NothingLeftInv'
<1>0. capture' = capture /\ Indices' = Indices /\ \A i : Frame(i)' = Frame(i)
  BY RecordsGrow
<1>b. index \in Nat /\ \A i \in Indices : i \in Nat
  BY IndicesFacts DEF GroupingInv, VisitInv
<1> SUFFICES ASSUME NEW m \in DOMAIN records', NEW i \in Indices, i < index',
                    Frame(i).of = Frame(m).of, packets'[i] = capture[i]
             PROVE  FALSE
  BY <1>0 DEF NothingLeftInv, Untouched
<1>1. Frame(i).kind = "frame" /\ packets'[i] = Frame(i)
  BY FrameFacts DEF Frame, GroupingInv, VisitInv
\* A packet that is now as captured was so before, and is not in a group that is done.
<1>2. Untouched(i) /\ (CompleteGroup => i \notin Range(Joined)) /\ (DropDuplicate => i # index)
  <2>1. CASE DropDuplicate
    <3>1. \A k \in Indices : packets'[k] = IF k = index THEN Gone ELSE packets[k]
      BY <2>1 DEF DropDuplicate, GroupingInv, VisitInv
    <3>2. i # index
      BY <1>1, <3>1 DEF Gone
    <3>3. ~ CompleteGroup
      <4>1. CompleteGroup => ~ IsCompletedDuplicate(Frame(index))
        BY CompleteGroupEffect DEF TakesPart
      <4> QED BY <2>1, <4>1 DEF DropDuplicate
    <3> QED BY <3>1, <3>2, <3>3 DEF Untouched
  <2>2. CASE CompleteGroup
    <3>1. i \notin Range(Joined)
      BY <1>1, <2>2, CompleteTouches
    <3>2. packets'[i] = packets[i] /\ ~ DropDuplicate
      <4>1. CompleteGroup => ~ IsCompletedDuplicate(Frame(index))
        BY CompleteGroupEffect DEF TakesPart
      <4> QED BY <2>2, <3>1, <4>1, CompleteGroupEffect DEF DropDuplicate
    <3> QED BY <3>1, <3>2 DEF Untouched
  <2>3. CASE ~ DropDuplicate /\ ~ CompleteGroup
    <3>1. packets' = packets
      BY <2>3 DEF FragmentsNext, PassPacket, BlockKey, CollectFragment, RejectGroup,
             EndReassemble, Rewrite, EmitFrame, EmitFirst, DeferPiece, SkipSlot,
             EmitSlot, EndRefragment, KeepRest, Take, fragmentsVars
    <3> QED BY <2>3, <3>1 DEF Untouched
  <2> QED BY <2>1, <2>2, <2>3
<1>3. ASSUME m \in DOMAIN records PROVE FALSE
  <2>1. ~ (i < index)
    BY <1>2, <1>3 DEF OldInv, NothingLeftInv
  <2>2. Visit /\ i = index
    <3>1. Visit
      BY <2>1, RecordsGrow
    <3> QED BY <1>b, <2>1, <3>1 DEF Visit
  <2>3. m \in Indices /\ m < index /\ IsFragment(Frame(m))
    BY <1>3 DEF GroupingInv, RecordInv, Record
  <2>4. Frame(m).key = Frame(i).key /\ IsFragment(Frame(i))
    BY <2>3 DEF OneCut
  <2>5. ~ PassedOn(m)
    <3>1. ASSUME NEW j \in Indices, m < j, j < index, Frame(j).key = Frame(m).key,
                 Frame(j).of # Frame(m).of
          PROVE  FALSE
      BY <2>2, <2>3, <3>1 DEF KeysChangeHands
    <3> QED BY <3>1 DEF PassedOn
  <2>6. IsCompletedDuplicate(Frame(index))
    BY <1>3, <2>2, <2>5 DEF OldInv, KnownInv
  <2>7. DropDuplicate
    <3>1. stage = "reassemble" /\ index \in Indices
      BY <2>2 DEF Visit
    <3>2. IsFragment(Frame(index))
      BY <2>2, <2>4
    <3>3. ~ PassPacket
      BY <2>6, <3>2 DEF PassPacket
    <3>4. ~ (BlockKey \/ CollectFragment \/ RejectGroup \/ CompleteGroup)
      BY <2>6 DEF BlockKey, CollectFragment, RejectGroup, CompleteGroup, TakesPart
    <3>5. index' # index
      BY <1>b, <2>2 DEF Visit
    <3>6. ~ (\/ EndReassemble \/ Rewrite \/ EmitFrame \/ EmitFirst \/ DeferPiece \/ SkipSlot
              \/ EmitSlot \/ EndRefragment \/ UNCHANGED fragmentsVars)
      BY <3>5 DEF EndReassemble, Rewrite, EmitFrame, EmitFirst, DeferPiece, SkipSlot,
             EmitSlot, EndRefragment, KeepRest, fragmentsVars
    <3> QED BY <3>3, <3>4, <3>6 DEF FragmentsNext
  <2> QED BY <1>2, <2>2, <2>7
<1>4. ASSUME m \notin DOMAIN records PROVE FALSE
  <2>1. CompleteGroup
    BY <1>4, RecordsGrow
  <2>2. /\ Frame(m).of = Frame(index).of /\ Frame(m).key = Frame(index).key
        /\ IsFragment(Frame(m)) /\ m \in Indices
    <3>1. PICK marker \in Range(Joined) :
           /\ DOMAIN records' = DOMAIN records \cup {marker}
           /\ Frame(marker).of = Frame(index).of /\ Frame(marker).key = Frame(index).key
           /\ IsFragment(Frame(marker)) /\ marker \in Indices /\ marker <= index
      BY <2>1, NewRecord
    <3> QED BY <1>4, <3>1
  <2>3. /\ Visit /\ TakesPart(Frame(index)) /\ IsComplete(Joined)
        /\ HasHeader(Frame(index).key.proto, Assembled(Joined))
    BY <2>1, CompleteGroupEffect
  <2>4. Frame(i).key = Frame(index).key /\ IsFragment(Frame(i))
    BY <2>2 DEF OneCut
  <2>5. Range(Joined) = Range(GroupOf(Frame(index).key)) \cup {index}
    BY <2>3, JoinedFacts DEF Visit
  <2>6. i \notin Range(GroupOf(Frame(i).key)) /\ i # index
    BY <1>2, <2>1, <2>4, <2>5
  <2>7. i < index
    BY <1>b, <2>3, <2>6 DEF Visit
  <2>8. GivenUp(i)
    BY <1>2, <2>4, <2>6, <2>7 DEF OldInv, LeftInv
  <2>9. Frame(i).key \notin blocked_keys
    BY <2>3, <2>4 DEF TakesPart
  <2>10. SentAs(i) = Assembled(Joined)
    <3>1. Assembled(Joined) = Datagrams[Frame(index).of[1]]
      BY <2>3, GroupIsPure
    <3> QED BY <2>2, <3>1 DEF SentAs
  <2> QED BY <2>3, <2>4, <2>8, <2>9, <2>10 DEF GivenUp
<1> QED BY <1>3, <1>4

\* All fragments of a completed datagram have their places in it.
LEMMA GroupHasEvery ==
  ASSUME GroupingInv, OneCut, NEW group \in Seq(Indices), IsComplete(group),
         NEW d, \A j \in Range(group) : Frame(j).of[1] = d,
         NEW i \in Indices, Frame(i).of[1] = d
  PROVE  /\ Frame(i).offset \in Offsets(group)
         /\ Frame(FirstAt(Frame(i).offset, group)) = Frame(i)
<1> USE DEF GroupingInv, VisitInv
<1>1. ASSUME NEW j \in Range(group) PROVE j \in Indices /\ Frame(j).of = Frame(i).of
  <2>1. j \in Indices
    BY GroupFacts
  <2>2. Frame(j).of = <<Frame(j).of[1], 0>> /\ Frame(i).of = <<Frame(i).of[1], 0>>
    BY <2>1, FrameFacts
  <2>3. Frame(j).of[1] = d /\ Frame(i).of[1] = d
    OBVIOUS
  <2> QED BY <2>1, <2>2, <2>3
<1>2. PICK at \in Nat, len \in Nat, end \in Nat :
        /\ at = Frame(i).offset /\ len = Len(Frame(i).data) /\ EndOf(i) = at + len
        /\ end = Len(Datagrams[d]) /\ at + len <= end /\ len > 0
  <2>1. SentAs(i) = Datagrams[d]
    BY DEF SentAs
  <2>2. Len(Frame(i).data) > 0
    BY DEF OneCut
  <2> QED BY <2>1, <2>2, FrameFacts
<1>3. HasFirst(group) /\ TilesToEnd(UniqueFragments(group), end)
  <2>1. Cardinality(LastEnds(group)) = 1
    BY DEF IsComplete
  <2>2. Min(LastEnds(group)) = end
    BY <1>2, <2>1, LastEndsFacts
  <2> QED BY <2>2, Zenon DEF IsComplete
<1>4. PICK j \in Range(group) : Frame(j).offset < at + 1 /\ at + 1 <= EndOf(j)
  <2>1. at + 1 \in 1 .. end
    BY <1>2
  <2>2. \E m \in 1 .. Len(UniqueFragments(group)) :
           /\ Frame(UniqueFragments(group)[m]).offset < at + 1
           /\ at + 1 <= EndOf(UniqueFragments(group)[m])
    BY <1>3, <2>1, TilesCover
  <2>3. \A m \in 1 .. Len(UniqueFragments(group)) : UniqueFragments(group)[m] \in Range(group)
    BY UniqueFacts, Zenon
  <2> QED BY <2>2, <2>3
<1>5. Frame(j) = Frame(i)
  <2>1. j \in Indices /\ Frame(j).of = Frame(i).of
    BY <1>1
  <2>2. \/ EndOf(i) <= Frame(j).offset \/ EndOf(j) <= Frame(i).offset \/ Frame(i) = Frame(j)
    BY <2>1 DEF OneCut
  <2>3. Frame(j).offset \in Nat /\ EndOf(j) \in Nat
    BY <2>1, FrameFacts
  <2>4. ~ (EndOf(i) <= Frame(j).offset) /\ ~ (EndOf(j) <= Frame(i).offset)
    BY <1>2, <1>4, <2>3
  <2> QED BY <2>2, <2>4
<1>6. Frame(i).offset \in Offsets(group)
  BY <1>5 DEF Offsets
<1>7. PICK k \in Range(group) : k = FirstAt(Frame(i).offset, group)
                                /\ Frame(k).offset = Frame(i).offset
  <2>1. PICK o : o = Frame(i).offset
    OBVIOUS
  <2>2. FirstAt(o, group) \in Range(group) /\ Frame(FirstAt(o, group)).offset = o
    BY <1>6, <2>1, FirstAtFacts
  <2> QED BY <2>1, <2>2
<1>8. Frame(k) = Frame(i)
  <2>1. k \in Indices /\ Frame(k).of = Frame(i).of
    BY <1>1
  <2>2. \/ EndOf(i) <= Frame(k).offset \/ EndOf(k) <= Frame(i).offset \/ Frame(i) = Frame(k)
    BY <2>1 DEF OneCut
  <2>3. EndOf(k) = at + Len(Frame(k).data) /\ Len(Frame(k).data) > 0 /\ Len(Frame(k).data) \in Nat
    <3>1. Len(Frame(k).data) > 0
      BY <2>1 DEF OneCut
    <3> QED BY <1>2, <1>7, <2>1, <3>1, FrameFacts
  <2>4. ~ (EndOf(i) <= Frame(k).offset) /\ ~ (EndOf(k) <= Frame(i).offset)
    BY <1>2, <1>7, <2>3
  <2> QED BY <2>2, <2>4
<1> QED BY <1>6, <1>7, <1>8

LEMMA KnownStep ==
  ASSUME GroupingInv, OldInv, KeysAreFree, OneCut, [FragmentsNext]_fragmentsVars
  PROVE  KnownInv'
<1>0. capture' = capture /\ Indices' = Indices /\ \A i : Frame(i)' = Frame(i)
  BY RecordsGrow
<1>b. index \in Nat /\ \A i \in Indices : i \in Nat
  BY IndicesFacts DEF GroupingInv, VisitInv
<1> DEFINE Duplicate(i) ==
             /\ Frame(i).key \in DOMAIN completed'
             /\ Frame(i).offset \in DOMAIN completed'[Frame(i).key]
             /\ completed'[Frame(i).key][Frame(i).offset] = <<Frame(i).data, Frame(i).mf>>
           Visited(m) ==
             \E j \in Indices :
               m < j /\ j < index' /\ Frame(j).key = Frame(m).key /\ Frame(j).of # Frame(m).of
<1> SUFFICES ASSUME NEW m \in DOMAIN records'
             PROVE  (\A i \in Indices : Frame(i).of = Frame(m).of => Duplicate(i)) \/ Visited(m)
  BY <1>0 DEF KnownInv, IsCompletedDuplicate, PassedOn
<1>1. CASE CompleteGroup
  <2>1. PICK key, group, places :
          /\ key = Frame(index).key /\ group = Joined
          /\ places = [o \in Offsets(group) |->
                        <<Frame(FirstAt(o, group)).data, Frame(FirstAt(o, group)).mf>>]
          /\ completed' = With(completed, key, places)
    BY <1>1, CompleteGroupEffect, Zenon
  <2>2. DOMAIN completed' = DOMAIN completed \cup {key} /\ completed'[key] = places
        /\ \A k \in DOMAIN completed : k # key => completed'[k] = completed[k]
    BY <2>1 DEF With
  <2>3. /\ Visit /\ TakesPart(Frame(index)) /\ IsComplete(group) /\ group \in Seq(Indices)
        /\ index \in Indices /\ index' = index + 1 /\ capture \in Files
    <3>1. Visit /\ TakesPart(Frame(index)) /\ IsComplete(Joined)
      BY <1>1, CompleteGroupEffect
    <3> QED BY <2>1, <3>1, JoinedFacts DEF Visit, GroupingInv, VisitInv
  <2>4. CASE m \in DOMAIN records
    <3>1. m \in Indices /\ m < index /\ IsFragment(Frame(m))
      BY <2>4 DEF GroupingInv, RecordInv, Record
    <3>2. CASE PassedOn(m)
      <4>1. \A j \in Indices : j < index => j < index'
        BY <1>b, <2>3
      <4> QED BY <3>2, <4>1 DEF PassedOn
    <3>3. CASE ~ PassedOn(m)
      <4>1. \A i \in Indices : Frame(i).of = Frame(m).of => IsCompletedDuplicate(Frame(i))
        BY <2>4, <3>3 DEF OldInv, KnownInv
      <4>2. Frame(index).of # Frame(m).of
        BY <2>3, <4>1 DEF TakesPart
      <4>3. CASE Frame(m).key = key
        <5>1. index < index'
          BY <1>b, <2>3
        <5> QED BY <2>1, <2>3, <3>1, <4>2, <4>3, <5>1
      <4>4. CASE Frame(m).key # key
        <5>1. ASSUME NEW i \in Indices, Frame(i).of = Frame(m).of PROVE Duplicate(i)
          <6>1. Frame(i).key # key /\ IsCompletedDuplicate(Frame(i))
            BY <3>1, <4>1, <4>4, <5>1 DEF OneCut
          <6> QED BY <2>2, <6>1 DEF IsCompletedDuplicate
        <5> QED BY <5>1
      <4> QED BY <4>3, <4>4
    <3> QED BY <3>2, <3>3
  <2>5. CASE m \notin DOMAIN records
    <3>1. /\ Frame(m).of = Frame(index).of /\ Frame(m).key = key /\ m \in Indices
      <4>1. PICK marker \in Range(Joined) :
             /\ DOMAIN records' = DOMAIN records \cup {marker}
             /\ Frame(marker).of = Frame(index).of /\ Frame(marker).key = Frame(index).key
             /\ IsFragment(Frame(marker)) /\ marker \in Indices /\ marker <= index
        BY <1>1, NewRecord
      <4> QED BY <2>1, <2>5, <4>1
    <3>2. PICK d : d = Frame(index).of[1] /\ \A j \in Range(group) : Frame(j).of[1] = d
      BY <2>1, <2>3, GroupIsPure
    <3>3. ASSUME NEW i \in Indices, Frame(i).of = Frame(m).of PROVE Duplicate(i)
      <4>1. Frame(i).of[1] = d /\ Frame(i).key = key
        BY <3>1, <3>2, <3>3 DEF OneCut
      <4>2. /\ Frame(i).offset \in Offsets(group)
            /\ Frame(FirstAt(Frame(i).offset, group)) = Frame(i)
        BY <2>3, <3>2, <4>1, GroupHasEvery
      <4>3. Frame(i).key \in DOMAIN completed' /\ completed'[Frame(i).key] = places
        BY <2>2, <4>1
      <4>4. DOMAIN places = Offsets(group)
        BY <2>1
      <4>5. places[Frame(i).offset] = <<Frame(i).data, Frame(i).mf>>
        BY <2>1, <4>2
      <4> QED BY <4>2, <4>3, <4>4, <4>5
    <3> QED BY <3>3
  <2> QED BY <2>4, <2>5
<1>2. CASE ~ CompleteGroup
  <2>1. records' = records /\ completed' = completed /\ \A i \in Indices : i < index => i < index'
    <3>1. Visit => index' = index + 1
      BY DEF Visit
    <3>2. ~ Visit => index' = index
      BY RecordsGrow
    <3>3. \A i \in Indices : i < index => i < index'
      BY <1>b, <3>1, <3>2
    <3> QED BY <1>2, <3>3, RecordsGrow
  <2> QED BY <2>1 DEF OldInv, KnownInv, IsCompletedDuplicate, PassedOn
<1> QED BY <1>1, <1>2

-----------------------------------------------------------------------------
(***************************************************************************)
(* Cutting a packet: every piece is a part of it, and there is at least    *)
(* one.                                                                    *)
(***************************************************************************)
IsEnds(ends, sizes) ==
  ends = [n \in 0 .. Len(sizes) |-> IF n = 0 THEN 0 ELSE ends[n - 1] + sizes[n]]

LEMMA EndsFacts ==
  ASSUME NEW sizes \in Seq(Nat)
  PROVE  /\ \A n \in 0 .. Len(sizes) : Ends(sizes)[n] \in Nat
         /\ \A n \in 0 .. Len(sizes) : Ends(sizes)[n] <= Ends(sizes)[Len(sizes)]
<1>1. PICK len \in Nat : len = Len(sizes) /\ \A n \in 1 .. len : sizes[n] \in Nat
  BY LenProperties, ElementOfSeq
<1> DEFINE step == [x \in Nat \X (1 .. len) |-> x[1] + sizes[x[2]]]
<1>2. step \in [Nat \X (1 .. len) -> Nat]
  BY <1>1
<1>3. PICK g : Iterates(g, Nat, len, 0, step)
  <2> HIDE DEF step
  <2> QED BY <1>2, IterationExists
<1>4. IsEnds(g, sizes)
  <2>1. g \in [0 .. len -> Nat] /\ g[0] = 0
    BY <1>3 DEF Iterates
  <2>2. ASSUME NEW n \in 1 .. len PROVE g[n] = g[n - 1] + sizes[n]
    <3>1. n - 1 \in 0 .. len
      OBVIOUS
    <3>2. g[n - 1] \in Nat /\ g[n] = step[<<g[n - 1], n>>]
      <4> HIDE DEF step
      <4> QED BY <1>3, <2>1, <3>1 DEF Iterates
    <3> QED BY <3>2
  <2> HIDE DEF step
  <2>3. \A n \in 0 .. len : g[n] = IF n = 0 THEN 0 ELSE g[n - 1] + sizes[n]
    BY <2>1, <2>2
  <2>4. g = [n \in 0 .. len |-> IF n = 0 THEN 0 ELSE g[n - 1] + sizes[n]]
    BY <2>1, <2>3
  <2> QED BY <1>1, <2>4, Zenon DEF IsEnds
<1> HIDE DEF step
<1>5. Ends(sizes) = CHOOSE ends : IsEnds(ends, sizes)
  BY DEF Ends, IsEnds
<1>6. IsEnds(Ends(sizes), sizes)
  BY <1>4, <1>5, Zenon
<1>7. PICK ends : ends = Ends(sizes)
  OBVIOUS
<1>8. ends = [n \in 0 .. len |-> IF n = 0 THEN 0 ELSE ends[n - 1] + sizes[n]]
  BY <1>1, <1>6, <1>7, Zenon DEF IsEnds
<1>9. ends[0] = 0 /\ \A n \in 1 .. len : ends[n] = ends[n - 1] + sizes[n]
  BY <1>8
<1> DEFINE Bad == {n \in 0 .. len : ~ (ends[n] \in Nat /\ \A m \in 0 .. n : ends[m] <= ends[n])}
<1>10. Bad = {}
  <2> SUFFICES ASSUME Bad # {} PROVE FALSE
    OBVIOUS
  <2>1. PICK k \in Bad : \A j \in Bad : k <= j
    <3>1. Bad \subseteq Nat
      OBVIOUS
    <3> HIDE DEF Bad
    <3> QED BY <3>1, LeastElement
  <2>2. k \in 0 .. len /\ ~ (ends[k] \in Nat /\ \A m \in 0 .. k : ends[m] <= ends[k])
    OBVIOUS
  <2>3. k # 0
    BY <1>9, <2>2
  <2>4. k \in 1 .. len /\ k - 1 \in 0 .. len /\ k - 1 \notin Bad
    <3> HIDE DEF Bad
    <3> QED BY <2>1, <2>2, <2>3
  <2>5. ends[k - 1] \in Nat /\ \A m \in 0 .. k - 1 : ends[m] <= ends[k - 1]
    BY <2>4
  <2> HIDE DEF Bad
  <2>6. PICK a \in Nat, b \in Nat : a = ends[k - 1] /\ b = sizes[k] /\ ends[k] = a + b
    BY <1>1, <1>9, <2>4, <2>5
  <2>7. ASSUME NEW m \in 0 .. k PROVE ends[m] <= ends[k]
    <3>1. CASE m = k
      BY <2>6, <3>1
    <3>2. CASE m # k
      <4>1. m \in 0 .. k - 1
        BY <2>4, <3>2
      <4>2. PICK c : c = ends[m] /\ c <= a
        BY <2>5, <2>6, <4>1
      <4>3. m < k /\ m \in 0 .. len /\ m \notin Bad
        BY <2>1, <2>4, <4>1
      <4>4. c \in Nat
        BY <4>2, <4>3 DEF Bad
      <4> QED BY <2>6, <4>2, <4>4
    <3> QED BY <3>1, <3>2
  <2>8. ends[k] \in Nat
    BY <2>6
  <2> QED BY <2>2, <2>7, <2>8
<1>11. \A n \in 0 .. len : ends[n] \in Nat
  BY <1>10
<1>12. \A n \in 0 .. len : ends[n] <= ends[len]
  <2>1. len \in 0 .. len /\ len \notin Bad
    BY <1>10
  <2> QED BY <2>1
<1> QED BY <1>1, <1>7, <1>11, <1>12

LEMMA UnitFacts ==
  /\ Unit \in Nat \ {0} /\ TcpHeader \in Nat
  /\ MaxPayload \in Nat \ {0}
<1>1. Unit \in Nat \ {0}
  BY UnitAssumption
<1>2. Unit \div 2 \in Nat
  BY <1>1
<1>3. PICK n \in 1 .. MaxPayload : MaxPayload = n * Unit
  BY MaxPayloadAssumption
<1>4. n \in Nat \ {0}
  BY <1>3
<1>5. n * Unit \in Nat \ {0}
  BY <1>1, <1>4
<1> QED BY <1>1, <1>2, <1>3, <1>5 DEF TcpHeader

LEMMA BoundariesFacts ==
  ASSUME NEW total \in Nat \ {0}, NEW sizes \in Seq(Nat)
  PROVE  \E count \in Nat \ {0} :
           /\ DOMAIN Boundaries(total, sizes) = 1 .. count
           /\ \A n \in 1 .. count : \E a \in Nat, b \in Nat :
                Boundaries(total, sizes)[n] = <<a, b>> /\ b <= total
<1>1. PICK len \in Nat : len = Len(sizes) /\ DOMAIN sizes = 1 .. len
  BY LenProperties
<1>2. CASE KeepsSizes(sizes, total)
  <2>1. Ends(sizes)[len] = total /\ len > 1
    BY <1>1, <1>2 DEF KeepsSizes
  <2>2. Boundaries(total, sizes) = [n \in 1 .. len |-> <<Ends(sizes)[n - 1], Ends(sizes)[n]>>]
    BY <1>1, <1>2 DEF Boundaries
  <2>3. ASSUME NEW n \in 1 .. len
        PROVE  Ends(sizes)[n - 1] \in Nat /\ Ends(sizes)[n] \in Nat /\ Ends(sizes)[n] <= total
    <3>1. n - 1 \in 0 .. len /\ n \in 0 .. len
      OBVIOUS
    <3> QED BY <1>1, <2>1, <3>1, EndsFacts
  <2>4. len \in Nat \ {0} /\ DOMAIN Boundaries(total, sizes) = 1 .. len
    BY <2>1, <2>2
  <2>5. \A n \in 1 .. len : \E a \in Nat, b \in Nat :
          Boundaries(total, sizes)[n] = <<a, b>> /\ b <= total
    BY <2>2, <2>3
  <2> QED BY <2>4, <2>5
<1>3. CASE ~ KeepsSizes(sizes, total)
  <2>1. PICK count : count = (total + MaxPayload - 1) \div MaxPayload
    OBVIOUS
  <2>2. Boundaries(total, sizes) =
          [n \in 1 .. count |-> <<(n - 1) * MaxPayload, Min({n * MaxPayload, total})>>]
    BY <1>3, <2>1 DEF Boundaries
  <2>3. /\ count \in Nat \ {0}
        /\ \A n \in 1 .. count : (n - 1) * MaxPayload \in Nat /\ n * MaxPayload \in Nat
    BY <2>1, UnitFacts, CeilingFacts
  <2>4. ASSUME NEW x \in Nat PROVE Min({x, total}) \in Nat /\ Min({x, total}) <= total
    <3>1. x <= total \/ total <= x
      OBVIOUS
    <3> QED BY <3>1, MinMaxOfTwo
  <2>5. ASSUME NEW n \in 1 .. count
        PROVE  \E a \in Nat, b \in Nat : Boundaries(total, sizes)[n] = <<a, b>> /\ b <= total
    <3>1. PICK a \in Nat, b \in Nat :
            a = (n - 1) * MaxPayload /\ b = Min({n * MaxPayload, total}) /\ b <= total
      BY <2>3, <2>4
    <3>2. Boundaries(total, sizes)[n] = <<a, b>>
      BY <2>2, <3>1
    <3> QED BY <3>1, <3>2
  <2> QED BY <2>2, <2>3, <2>5
<1> QED BY <1>2, <1>3

-----------------------------------------------------------------------------
(***************************************************************************)
(* The inductive invariant of what comes after: a frame that is on its way *)
(* to the file is a new one or one that was left as it was captured, and   *)
(* what waits belongs to a packet that has a record.                       *)
(***************************************************************************)
OutFrames ==
  {f \in Frames : f.of[2] = 0 => \E i \in Indices : Untouched(i) /\ f = Frame(i)}

Pieces == [kind : {"virtual"}, marker : DOMAIN records, piece : Nat \ {0}, key : Keys,
           data : Seq(Cells) \ {<< >>}]

SlotItems == {Slot(m, n) : m \in DOMAIN records, n \in Nat}

Items == OutFrames \cup Pieces \cup SlotItems

OutputInv ==
  /\ todo \in Seq(Items)
  /\ DOMAIN pending_extra \subseteq DOMAIN records
  /\ DOMAIN deferred \subseteq DOMAIN pending_extra
  /\ \A m \in DOMAIN pending_extra : pending_extra[m] \in Seq(OutFrames)
  /\ \A m \in DOMAIN deferred : deferred[m] \in Seq(OutFrames)
  /\ result \in Seq(OutFrames)
  /\ stage \in {"reassemble", "rewrite"} =>
       todo = << >> /\ pending_extra = << >> /\ deferred = << >> /\ result = << >>

LEMMA ItemKinds ==
  ASSUME NEW x \in Items
  PROVE  /\ x.kind = "frame" => x \in OutFrames
         /\ x.kind = "virtual" => x \in Pieces
         /\ x.kind = "slot" => x \in SlotItems
<1>1. CASE x \in OutFrames
  <2>1. x.kind = "frame"
    BY <1>1 DEF OutFrames, Frames
  <2> QED BY <1>1, <2>1
<1>2. CASE x \in Pieces
  <2>1. x.kind = "virtual"
    BY <1>2 DEF Pieces
  <2> QED BY <1>2, <2>1
<1>3. CASE x \in SlotItems
  <2>1. x.kind = "slot"
    BY <1>3 DEF SlotItems, Slot
  <2> QED BY <1>3, <2>1
<1> QED BY <1>1, <1>2, <1>3 DEF Items

LEMMA SplitFacts ==
  ASSUME GroupingInv, NEW packet \in Pieces
  PROVE  /\ Split(packet) \in Seq(OutFrames) /\ Split(packet)[1] \in OutFrames
         /\ Split(packet)[1] \in Range(Split(packet))
         /\ \A f \in Range(Split(packet)) : f.of = <<packet.marker, packet.piece>>
<1>1. PICK data \in Seq(Cells), total \in Nat \ {0}, marker \in DOMAIN records,
           sizes \in Seq(Nat) :
        /\ data = packet.data /\ total = Len(data)
        /\ marker = packet.marker /\ sizes = records[marker].sizes
  <2>1. packet.data \in Seq(Cells) /\ packet.data # << >> /\ packet.marker \in DOMAIN records
    BY DEF Pieces
  <2>2. Len(packet.data) \in Nat \ {0}
    BY <2>1, EmptySeq, LenProperties
  <2>3. records[packet.marker].sizes \in Seq(Nat)
    BY <2>1 DEF GroupingInv, RecordInv, Record
  <2>4. PICK total \in Nat \ {0} : total = Len(packet.data)
    BY <2>2
  <2> QED BY <2>1, <2>3, <2>4
<1>2. PICK cuts : cuts = Boundaries(total, sizes)
  OBVIOUS
<1>3. PICK count \in Nat \ {0} :
        /\ DOMAIN cuts = 1 .. count
        /\ \A n \in 1 .. count : \E a \in Nat, b \in Nat : cuts[n] = <<a, b>> /\ b <= total
  <2>1. \E count \in Nat \ {0} :
           /\ DOMAIN Boundaries(total, sizes) = 1 .. count
           /\ \A n \in 1 .. count : \E a \in Nat, b \in Nat :
                Boundaries(total, sizes)[n] = <<a, b>> /\ b <= total
    BY BoundariesFacts
  <2> QED BY <1>2, <2>1
<1>4. packet.key \in Keys /\ packet.piece \in Nat \ {0} /\ marker \in Nat
  <2>1. packet.key \in Keys /\ packet.piece \in Nat \ {0}
    BY DEF Pieces
  <2>2. marker \in Indices
    BY <1>1 DEF GroupingInv, RecordInv, Record
  <2>3. marker \in Nat
    BY <2>2, FrameFacts DEF GroupingInv, VisitInv
  <2> QED BY <2>1, <2>3
<1> DEFINE Cut(n) ==
             [kind |-> "frame", key |-> packet.key,
              offset |-> (cuts[n][1] \div Unit) * Unit, mf |-> cuts[n][2] < total,
              data |-> SubSeq(data, cuts[n][1] + 1, cuts[n][2]),
              of |-> <<marker, packet.piece>>]
<1>5. Split(packet) = [n \in 1 .. count |-> Cut(n)]
  BY <1>1, <1>2, <1>3 DEF Split
<1>6. ASSUME NEW n \in 1 .. count PROVE Cut(n) \in OutFrames
  <2>1. PICK a \in Nat, b \in Nat : cuts[n] = <<a, b>> /\ b <= total
    BY <1>3
  <2>2. (a \div Unit) * Unit \in Nat
    <3>1. PICK unit \in Nat \ {0} : unit = Unit
      BY UnitFacts
    <3>2. a \div unit \in Nat
      OBVIOUS
    <3>3. (a \div unit) * unit \in Nat
      BY <3>2
    <3> QED BY <3>1, <3>3
  <2>3. SubSeq(data, a + 1, b) \in Seq(Cells)
    <3>1. \A k \in a + 1 .. b : k \in 1 .. Len(data)
      BY <1>1, <2>1
    <3>2. \A k \in a + 1 .. b : data[k] \in Cells
      BY <3>1, ElementOfSeq
    <3>3. a + 1 \in Int /\ b \in Int
      OBVIOUS
    <3> QED BY <3>2, <3>3, SubSeqProperties
  <2>4. PICK offset \in Nat, part \in Seq(Cells), mf \in BOOLEAN :
          offset = (a \div Unit) * Unit /\ part = SubSeq(data, a + 1, b) /\ mf = (b < total)
    <3>0. (b < total) \in BOOLEAN
      OBVIOUS
    <3>1. PICK mf \in BOOLEAN : mf = (b < total)
      BY <3>0, Zenon
    <3>2. PICK offset \in Nat : offset = (a \div Unit) * Unit
      BY <2>2
    <3> QED BY <2>3, <3>1, <3>2
  <2>5. Cut(n) = [kind |-> "frame", key |-> packet.key, offset |-> offset, mf |-> mf,
                  data |-> part, of |-> <<marker, packet.piece>>]
    <3>1. cuts[n][1] = a /\ cuts[n][2] = b
      BY <2>1
    <3> QED BY <2>4, <3>1
  <2> HIDE DEF Cut
  <2>6. Cut(n) \in Frames
    BY <1>4, <2>5 DEF Frames
  <2>7. Cut(n).of[2] # 0
    BY <1>4, <2>5
  <2> QED BY <2>6, <2>7 DEF OutFrames
<1>10. \A n \in 1 .. count : Cut(n).of = <<packet.marker, packet.piece>>
  BY <1>1
<1> HIDE DEF Cut
<1>7. Split(packet) \in [1 .. count -> OutFrames]
  BY <1>5, <1>6
<1>8. 1 \in 1 .. count
  BY <1>3
<1>9. Split(packet) \in Seq(OutFrames)
  <2>1. count \in Nat
    OBVIOUS
  <2> QED BY <1>7, <2>1, SeqDef
<1>11. DOMAIN Split(packet) = 1 .. count /\ \A n \in 1 .. count : Split(packet)[n] = Cut(n)
  BY <1>5
<1>12. /\ Split(packet)[1] \in Range(Split(packet))
       /\ \A f \in Range(Split(packet)) : f.of = <<packet.marker, packet.piece>>
  BY <1>8, <1>10, <1>11 DEF Range
<1> QED BY <1>7, <1>8, <1>9, <1>12

LEMMA FlattenType ==
  ASSUME NEW S, NEW s \in Seq(Seq(S))
  PROVE  FlattenSeq(s) \in Seq(S)
<1>1. Len(s) \in 0 .. Len(s)
  BY LenProperties
<1> QED BY <1>1, FlattenedAll, FlattenedType

LEMMA ContentFacts ==
  ASSUME NEW m \in Nat, NEW n \in Nat, NEW proto, NEW len \in Nat \ {0}
  PROVE  Content(m, n, proto, len) \in Seq(Cells) \ {<< >>}
<1>1. ASSUME NEW k \in 1 .. len
      PROVE  <<m, n, IF k > 1 THEN 0 ELSE IF proto = "udp" THEN len ELSE TcpHeader>> \in Cells
  BY UnitFacts DEF Cells
<1>2. PICK content : content = Content(m, n, proto, len)
  OBVIOUS
<1>3. content \in [1 .. len -> Cells]
  BY <1>1, <1>2 DEF Content
<1>4. content \in Seq(Cells) /\ DOMAIN content = 1 .. len
  BY <1>3, SeqDef
<1>5. Len(content) = len
  BY <1>4, LenProperties
<1>6. content # << >>
  BY <1>4, <1>5, EmptySeq
<1> QED BY <1>2, <1>4, <1>6

LEMMA PieceType ==
  ASSUME NEW M, NEW P, NEW K, NEW D, NEW d,
         NEW p \in [kind : {"virtual"}, marker : M, piece : P,
                    key : [proto : K, id : Nat], data : {d}],
         NEW n \in P, NEW k \in Nat, p.key.id + k - 1 \in Nat, NEW content \in D
  PROVE  [p EXCEPT !.piece = n, !.key.id = @ + k - 1, !.data = content]
           \in [kind : {"virtual"}, marker : M, piece : P,
               key : [proto : K, id : Nat], data : D]
<1> DEFINE q == [p EXCEPT !.piece = n, !.key.id = @ + k - 1, !.data = content]
<1>1. PICK id \in Nat : id = p.key.id + k - 1
  OBVIOUS
<1>2. q = [p EXCEPT !.piece = n, !.key.id = id, !.data = content]
  BY <1>1
<1>3. p \in [kind : {"virtual"}, marker : M, piece : P,
             key : [proto : K, id : Nat], data : D \cup {d}]
  OBVIOUS
<1> HIDE DEF q
<1>4. q \in [kind : {"virtual"}, marker : M, piece : P,
             key : [proto : K, id : Nat], data : D \cup {d}]
  BY <1>2, <1>3
<1>5. q.data = content
  BY <1>2
<1>6. q \in [kind : {"virtual"}, marker : M, piece : P,
             key : [proto : K, id : Nat], data : D]
  BY <1>4, <1>5
<1> QED BY <1>6 DEF q

\* The pieces a packet is cut into, each but the first behind a cloned ACK.
PieceOf(packet, lengths, n) ==
  [packet EXCEPT !.piece = n, !.key.id = @ + n - 1,
                 !.data = Content(packet.marker, n, packet.key.proto, lengths[n])]

PartsOf(packet, lengths) ==
  [n \in DOMAIN lengths |->
     IF n = 1 THEN <<PieceOf(packet, lengths, n)>>
     ELSE <<Ack(packet.marker, n), PieceOf(packet, lengths, n)>>]

LEMMA PartsFacts ==
  ASSUME GroupingInv, NEW m \in DOMAIN records,
         NEW lengths \in Rewrites[packets[m].key.proto]
  PROVE  /\ Rewritten(packets[m], lengths) = FlattenSeq(PartsOf(packets[m], lengths))
         /\ Len(lengths) \in Nat /\ DOMAIN lengths = 1 .. Len(lengths)
         /\ packets[m].marker = m
         /\ \A n \in DOMAIN lengths :
              /\ PieceOf(packets[m], lengths, n) \in Pieces
              /\ PieceOf(packets[m], lengths, n).marker = m
              /\ PieceOf(packets[m], lengths, n).piece = n
              /\ n # 1 => Ack(m, n) \in OutFrames
<1>1. PICK key, data :
        /\ packets[m] = Virtual(m, key, data) /\ key = Frame(m).key
        /\ m \in Indices /\ IsFragment(Frame(m))
  BY DEF GroupingInv, RecordInv, Record
<1>2. PICK proto \in {"udp", "tcp"}, id \in Nat :
        key = [proto |-> proto, id |-> id] /\ m \in Nat
  <2>1. key \in Keys /\ m \in Nat
    BY <1>1, FrameFacts DEF GroupingInv, VisitInv
  <2>2. key.proto \in {"udp", "tcp"}
    BY <1>1 DEF IsFragment
  <2>3. key = [proto |-> key.proto, id |-> key.id] /\ key.id \in Nat
    BY <2>1 DEF Keys
  <2> QED BY <2>1, <2>2, <2>3
<1>3. packets[m] = [kind |-> "virtual", marker |-> m, piece |-> 1,
                    key |-> [proto |-> proto, id |-> id], data |-> data]
  BY <1>1, <1>2 DEF Virtual
<1>4. lengths \in Seq(Nat \ {0})
  <2>1. packets[m].key.proto = proto
    BY <1>3
  <2> QED BY <1>2, <2>1, RewritesAssumption
<1>5. /\ Len(lengths) \in Nat /\ DOMAIN lengths = 1 .. Len(lengths)
      /\ \A n \in DOMAIN lengths : lengths[n] \in Nat \ {0} /\ n \in Nat \ {0}
  BY <1>4, LenProperties, ElementOfSeq
<1>6. ASSUME NEW n \in DOMAIN lengths
      PROVE  /\ PieceOf(packets[m], lengths, n) \in Pieces
             /\ PieceOf(packets[m], lengths, n).marker = m
             /\ PieceOf(packets[m], lengths, n).piece = n
  <2>1. PICK content \in Seq(Cells) \ {<< >>} : content = Content(m, n, proto, lengths[n])
    BY <1>2, <1>5, ContentFacts
  <2>2. packets[m] \in [kind : {"virtual"}, marker : {m}, piece : Nat \ {0},
                        key : [proto : Protocols, id : Nat], data : {data}]
    BY <1>2, <1>3 DEF Protocols
  <2>3. /\ packets[m].marker = m /\ packets[m].key.proto = proto
        /\ packets[m].key.id + n - 1 \in Nat
    BY <1>2, <1>3, <1>5
  <2>4. n \in Nat \ {0} /\ n \in Nat
    BY <1>5
  <2>5. PICK piece :
          piece = [packets[m] EXCEPT !.piece = n, !.key.id = @ + n - 1, !.data = content]
    OBVIOUS
  <2>6. piece \in [kind : {"virtual"}, marker : {m}, piece : Nat \ {0},
                   key : [proto : Protocols, id : Nat], data : Seq(Cells) \ {<< >>}]
    BY <2>2, <2>3, <2>4, <2>5, PieceType
  <2>7. piece \in Pieces /\ piece.marker = m
    BY <2>6 DEF Pieces, Keys
  <2>8. piece.piece = n
    <3>1. packets[m].piece = 1 /\ DOMAIN packets[m] = DOMAIN piece
      BY <1>3, <2>5
    <3> QED BY <2>2, <2>5
  <2>9. PieceOf(packets[m], lengths, n) = piece
    BY <2>1, <2>3, <2>5 DEF PieceOf
  <2> QED BY <2>7, <2>8, <2>9
<1>7. ASSUME NEW n \in DOMAIN lengths, n # 1 PROVE Ack(m, n) \in OutFrames
  <2>1. Ack(m, n) =
          [kind |-> "frame", key |-> [proto |-> "other", id |-> 0], offset |-> 0,
           mf |-> FALSE, data |-> << >>, of |-> <<m, n>>]
    BY DEF Ack
  <2>2. << >> \in Seq(Cells) /\ [proto |-> "other", id |-> 0] \in Keys /\ <<m, n>> \in Nat \X Nat
    BY <1>2, <1>5, EmptySeq DEF Keys, Protocols
  <2>3. Ack(m, n) \in Frames
    BY <2>1, <2>2 DEF Frames
  <2>4. Ack(m, n).of[2] # 0
    BY <1>5, <2>1
  <2> QED BY <2>3, <2>4 DEF OutFrames
<1>8. Rewritten(packets[m], lengths) = FlattenSeq(PartsOf(packets[m], lengths))
  BY DEF Rewritten, PartsOf, PieceOf
<1>9. packets[m].marker = m
  BY <1>3
<1> QED BY <1>5, <1>6, <1>7, <1>8, <1>9

LEMMA RewrittenFacts ==
  ASSUME GroupingInv, NEW m \in DOMAIN records,
         NEW lengths \in Rewrites[packets[m].key.proto]
  PROVE  /\ PartsOf(packets[m], lengths) \in Seq(Seq(Items))
         /\ Rewritten(packets[m], lengths) \in Seq(Items)
<1>1. PICK parts : parts = PartsOf(packets[m], lengths)
  OBVIOUS
<1>2. PICK count \in Nat :
        /\ DOMAIN lengths = 1 .. count /\ packets[m].marker = m
        /\ \A n \in 1 .. count : /\ PieceOf(packets[m], lengths, n) \in Pieces
                                 /\ n # 1 => Ack(m, n) \in OutFrames
  BY PartsFacts
<1>3. parts = [n \in 1 .. count |->
                 IF n = 1 THEN <<PieceOf(packets[m], lengths, n)>>
                 ELSE <<Ack(m, n), PieceOf(packets[m], lengths, n)>>]
  BY <1>1, <1>2 DEF PartsOf
<1>4. ASSUME NEW n \in 1 .. count PROVE parts[n] \in Seq(Items)
  <2>1. PICK b \in Items : b = PieceOf(packets[m], lengths, n)
    BY <1>2 DEF Items
  <2>2. CASE n = 1
    <3>1. parts[n] = <<b>>
      BY <1>3, <2>1, <2>2
    <3> QED BY <3>1
  <2>3. CASE n # 1
    <3>1. PICK a \in Items : a = Ack(m, n)
      BY <1>2, <2>3 DEF Items
    <3>2. parts[n] = <<a, b>>
      BY <1>3, <2>1, <2>3, <3>1
    <3> QED BY <3>2
  <2> QED BY <2>2, <2>3
<1>5. parts \in [1 .. count -> Seq(Items)]
  BY <1>3, <1>4
<1>6. parts \in Seq(Seq(Items))
  BY <1>5, SeqDef
<1> QED BY <1>1, <1>6, PartsFacts, FlattenType

LEMMA OutputStands ==
  ASSUME capture' = capture, packets' = packets, records' = records
  PROVE  OutFrames' = OutFrames /\ Items' = Items
<1>1. OutFrames' = OutFrames
  BY DEF OutFrames, Untouched, Frame, Indices, Frames
<1>2. Pieces' = Pieces
  BY DEF Pieces
<1>3. SlotItems' = SlotItems
  BY DEF SlotItems, Slot
<1> QED BY <1>1, <1>2, <1>3 DEF Items

\* Between the two passes: what every packet becomes is fit to be refragmented.
LEMMA RewriteType ==
  ASSUME GroupingInv, Rewrite
  PROVE  todo' \in Seq(Items)
<1>1. PICK lengths :
        /\ \A m \in DOMAIN records : lengths[m] \in Rewrites[packets[m].key.proto]
        /\ todo' = FlattenSeq([i \in Indices |->
                     IF packets[i].kind = "gone" THEN << >>
                     ELSE IF packets[i].kind = "virtual" THEN Rewritten(packets[i], lengths[i])
                     ELSE <<packets[i]>>])
  BY DEF Rewrite
<1>2. Len(capture) \in Nat /\ Indices = 1 .. Len(capture)
  BY IndicesFacts DEF GroupingInv, VisitInv
<1> DEFINE Part(i) == IF packets[i].kind = "gone" THEN << >>
                      ELSE IF packets[i].kind = "virtual" THEN Rewritten(packets[i], lengths[i])
                      ELSE <<packets[i]>>
<1>3. ASSUME NEW i \in Indices PROVE Part(i) \in Seq(Items)
  <2>1. CASE i \in DOMAIN records
    <3>1. packets[i] = Virtual(i, Frame(i).key, packets[i].data)
      BY <2>1 DEF GroupingInv, RecordInv, Record
    <3>2. packets[i].kind = "virtual"
      BY <3>1 DEF Virtual
    <3>3. Rewritten(packets[i], lengths[i]) \in Seq(Items)
      BY <1>1, <2>1, RewrittenFacts
    <3> QED BY <3>2, <3>3
  <2>2. CASE Untouched(i)
    <3>1. packets[i] = Frame(i) /\ Frame(i).kind = "frame" /\ Frame(i) \in Frames
      BY <2>2, FrameFacts DEF Untouched, GroupingInv, VisitInv
    <3>2. PICK f \in Items : f = packets[i]
      BY <2>2, <3>1 DEF Items, OutFrames
    <3>3. <<f>> \in Seq(Items)
      OBVIOUS
    <3> QED BY <3>1, <3>2, <3>3
  <2>3. CASE packets[i] = Gone
    <3>1. packets[i].kind = "gone"
      BY <2>3 DEF Gone
    <3> QED BY <3>1, EmptySeq
  <2>4. CASE IsSlot(i)
    <3>1. packets[i] \in SlotItems
      BY <2>4 DEF IsSlot, SlotItems
    <3>2. packets[i].kind = "slot"
      BY <3>1 DEF SlotItems, Slot
    <3>3. PICK f \in Items : f = packets[i]
      BY <3>1 DEF Items
    <3>4. <<f>> \in Seq(Items)
      OBVIOUS
    <3> QED BY <3>2, <3>3, <3>4
  <2> QED BY <2>1, <2>2, <2>3, <2>4 DEF GroupingInv, RecordInv
<1> DEFINE parts == [i \in Indices |-> Part(i)]
<1>4. todo' = FlattenSeq(parts)
  BY <1>1
<1> HIDE DEF Part
<1>5. parts \in [1 .. Len(capture) -> Seq(Items)]
  BY <1>2, <1>3
<1> HIDE DEF parts
<1>6. parts \in Seq(Seq(Items))
  BY <1>2, <1>5, SeqDef
<1> QED BY <1>4, <1>6, FlattenType

LEMMA OutputInit ==
  ASSUME GroupingInv, FragmentsInit
  PROVE  OutputInv
<1>1. /\ todo = << >> /\ result = << >> /\ pending_extra = << >> /\ deferred = << >>
  BY DEF FragmentsInit
<1>2. DOMAIN << >> = {}
  OBVIOUS
<1> QED BY <1>1, <1>2, EmptySeq DEF OutputInv

LEMMA PartRange ==
  ASSUME NEW S, NEW q \in Seq(S), NEW from \in Nat, NEW to \in Int, to <= Len(q)
  PROVE  /\ SubSeq(q, from + 1, to) \in Seq(S)
         /\ Range(SubSeq(q, from + 1, to)) \subseteq Range(q)
<1>1. PICK len \in Nat : len = Len(q) /\ DOMAIN q = 1 .. len
  BY LenProperties
<1>2. \A i \in from + 1 .. to : i \in 1 .. len
  BY <1>1
<1>3. \A i \in from + 1 .. to : q[i] \in S
  BY <1>1, <1>2, ElementOfSeq
<1>4. from + 1 \in Int
  OBVIOUS
<1>5. PICK part : part = SubSeq(q, from + 1, to)
  OBVIOUS
<1>6. /\ part \in Seq(S) /\ Len(part) = IF from + 1 <= to THEN to - (from + 1) + 1 ELSE 0
      /\ \A i \in 1 .. to - (from + 1) + 1 : part[i] = q[from + 1 + i - 1]
  BY <1>3, <1>4, <1>5, SubSeqProperties
<1>7. DOMAIN part = 1 .. Len(part)
  BY <1>6, LenProperties
<1>8. ASSUME NEW i \in DOMAIN part PROVE part[i] \in Range(q)
  <2>1. i \in 1 .. to - (from + 1) + 1
    BY <1>6, <1>7, <1>8
  <2>2. PICK k \in Int : k = from + 1 + i - 1
    BY <2>1
  <2>3. k \in 1 .. len
    BY <1>1, <2>1, <2>2
  <2>4. part[i] = q[k]
    BY <1>6, <2>1, <2>2
  <2> QED BY <1>1, <2>3, <2>4 DEF Range
<1> QED BY <1>5, <1>6, <1>8 DEF Range

\* A slot takes its fragment, or the last one all that are left.
LEMMA FragmentsForFacts ==
  ASSUME OutputInv, NEW item \in SlotItems, item.marker \in DOMAIN pending_extra
  PROVE  /\ FragmentsFor(item) \in Seq(OutFrames)
         /\ Range(FragmentsFor(item)) \subseteq Range(pending_extra[item.marker])
<1>1. PICK n \in Nat, parts \in Seq(OutFrames) :
        n = item.ordinal /\ parts = pending_extra[item.marker]
  <2>1. item.ordinal \in Nat
    BY DEF SlotItems, Slot
  <2> QED BY <2>1 DEF OutputInv
<1>2. PICK last : last = IF IsLastSlot(item) THEN Len(parts) ELSE Min({n + 1, Len(parts)})
  OBVIOUS
<1>3. last \in Int /\ last <= Len(parts)
  <2>1. Len(parts) \in Nat
    BY LenProperties
  <2>2. Min({n + 1, Len(parts)}) \in Int /\ Min({n + 1, Len(parts)}) <= Len(parts)
    <3>1. n + 1 <= Len(parts) \/ Len(parts) <= n + 1
      BY <2>1
    <3> QED BY <2>1, <3>1, MinMaxOfTwo
  <2> QED BY <1>2, <2>1, <2>2
<1>4. /\ SubSeq(parts, n + 1, last) \in Seq(OutFrames)
      /\ Range(SubSeq(parts, n + 1, last)) \subseteq Range(parts)
  BY <1>3, PartRange
<1> QED BY <1>1, <1>2, <1>4 DEF FragmentsFor

\* The packets behind which pieces are deferred are numbers of packets.
LEMMA DeferredMarkers ==
  ASSUME GroupingInv, OutputInv
  PROVE  IsFiniteSet(DOMAIN deferred) /\ DOMAIN deferred \subseteq Nat
<1>1. Len(capture) \in Nat /\ Indices = 1 .. Len(capture)
  BY IndicesFacts DEF GroupingInv, VisitInv
<1>2. DOMAIN deferred \subseteq Indices
  BY DEF OutputInv, GroupingInv, RecordInv, Record
<1>3. IsFiniteSet(1 .. Len(capture))
  BY <1>1, FS_Interval
<1> QED BY <1>1, <1>2, <1>3, FS_Subset

LEMMA OutputStep ==
  ASSUME GroupingInv, OutputInv, [FragmentsNext]_fragmentsVars
  PROVE  OutputInv'
<1>1. CASE stage' \in {"reassemble", "rewrite"} /\ UNCHANGED <<todo, pending_extra, deferred, result>>
           /\ stage \in {"reassemble", "rewrite"}
  <2>1. todo' = << >> /\ pending_extra' = << >> /\ deferred' = << >> /\ result' = << >>
    BY <1>1 DEF OutputInv
  <2>2. DOMAIN << >> = {}
    OBVIOUS
  <2> QED BY <1>1, <2>1, <2>2, EmptySeq DEF OutputInv
<1>2. CASE PassPacket \/ DropDuplicate \/ BlockKey \/ CollectFragment \/ RejectGroup
           \/ CompleteGroup
  <2>1. stage = "reassemble" /\ stage' = stage /\ UNCHANGED <<todo, pending_extra, deferred, result>>
    BY <1>2 DEF PassPacket, DropDuplicate, BlockKey, CollectFragment, RejectGroup,
                CompleteGroup, Visit, Leave
  <2> QED BY <1>1, <2>1
<1>3. CASE EndReassemble
  BY <1>1, <1>3 DEF EndReassemble
<1>4. CASE Rewrite
  <2>1. /\ stage = "rewrite" /\ stage' = "refragment" /\ capture' = capture
        /\ packets' = packets /\ records' = records /\ result' = result
        /\ pending_extra' = pending_extra /\ deferred' = deferred
    BY <1>4 DEF Rewrite
  <2>2. todo' \in Seq(Items) /\ Items' = Items /\ OutFrames' = OutFrames
    BY <1>4, <2>1, RewriteType, OutputStands
  <2> QED BY <2>1, <2>2 DEF OutputInv
<1>5. CASE UNCHANGED fragmentsVars
  <2>1. /\ capture' = capture /\ packets' = packets /\ records' = records /\ stage' = stage
        /\ UNCHANGED <<todo, pending_extra, deferred, result>>
    BY <1>5 DEF fragmentsVars
  <2>2. Items' = Items /\ OutFrames' = OutFrames
    BY <2>1, OutputStands
  <2> QED BY <2>1, <2>2 DEF OutputInv
<1>6. ASSUME stage = "refragment", capture' = capture, packets' = packets, records' = records,
             stage' # "reassemble", stage' # "rewrite",
             todo' \in Seq(Items), result' \in Seq(OutFrames),
             DOMAIN pending_extra' \subseteq DOMAIN records,
             DOMAIN deferred' \subseteq DOMAIN pending_extra',
             \A m \in DOMAIN pending_extra' : pending_extra'[m] \in Seq(OutFrames),
             \A m \in DOMAIN deferred' : deferred'[m] \in Seq(OutFrames)
      PROVE  OutputInv'
  <2>1. Items' = Items /\ OutFrames' = OutFrames
    BY <1>6, OutputStands
  <2> QED BY <1>6, <2>1 DEF OutputInv
<1>7. ASSUME Take
      PROVE  /\ stage = "refragment" /\ Item \in Items /\ todo' \in Seq(Items)
             /\ result \in Seq(OutFrames)
  <2>1. todo # << >> /\ todo' = Tail(todo) /\ todo \in Seq(Items)
    BY <1>7 DEF Take, OutputInv
  <2> QED BY <1>7, <2>1, HeadTailProperties DEF Take, Item, OutputInv
<1>8. CASE EmitFrame
  <2>1. /\ Item.kind = "frame" /\ result' = Append(result, Item) /\ Take
        /\ capture' = capture /\ packets' = packets /\ records' = records /\ stage' = stage
        /\ pending_extra' = pending_extra /\ deferred' = deferred
    BY <1>8 DEF EmitFrame, KeepRest
  <2>2. result' \in Seq(OutFrames)
    BY <1>7, <2>1, ItemKinds, AppendProperties
  <2>3. stage = "refragment" /\ todo' \in Seq(Items)
    BY <1>7, <2>1
  <2> QED BY <1>6, <2>1, <2>2, <2>3 DEF OutputInv
<1>9. CASE EmitFirst
  <2>1. PICK item :
        /\ item = Item /\ item.kind = "virtual" /\ Take
        /\ pending_extra' = With(pending_extra, item.marker, Split(item))
        /\ result' = Append(result, Split(item)[1])
        /\ capture' = capture /\ packets' = packets /\ records' = records /\ stage' = stage
        /\ deferred' = deferred
    BY <1>9 DEF EmitFirst, KeepRest
  <2>2. item \in Pieces /\ item.marker \in DOMAIN records
    BY <1>7, <2>1, ItemKinds DEF Pieces
  <2>3. Split(item) \in Seq(OutFrames) /\ Split(item)[1] \in OutFrames
    BY <2>2, SplitFacts
  <2>4. result' \in Seq(OutFrames)
    BY <1>7, <2>1, <2>3, AppendProperties
  <2>5. /\ DOMAIN pending_extra' = DOMAIN pending_extra \cup {item.marker}
        /\ \A m \in DOMAIN pending_extra' : pending_extra'[m] \in Seq(OutFrames)
    <3>1. PICK parts : parts = Split(item)
      OBVIOUS
    <3>2. pending_extra' = [k \in DOMAIN pending_extra \cup {item.marker} |->
                             IF k = item.marker THEN parts ELSE pending_extra[k]]
      BY <2>1, <3>1 DEF With
    <3> QED BY <2>3, <3>1, <3>2 DEF OutputInv
  <2>6. stage = "refragment" /\ todo' \in Seq(Items)
    BY <1>7, <2>1
  <2> QED BY <1>6, <2>1, <2>2, <2>4, <2>5, <2>6 DEF OutputInv
<1>10. CASE DeferPiece
  <2>1. PICK item :
        /\ item = Item /\ item.kind = "virtual" /\ Take /\ item.marker \in DOMAIN pending_extra
        /\ deferred' = With(deferred, item.marker, DeferredBehind(item.marker) \o Split(item))
        /\ capture' = capture /\ packets' = packets /\ records' = records /\ stage' = stage
        /\ pending_extra' = pending_extra /\ result' = result
    BY <1>10 DEF DeferPiece, KeepRest, Queued
  <2>2. item \in Pieces
    BY <1>7, <2>1, ItemKinds
  <2>3. Split(item) \in Seq(OutFrames)
    BY <2>2, SplitFacts
  <2>4. DeferredBehind(item.marker) \in Seq(OutFrames)
    BY EmptySeq DEF DeferredBehind, OutputInv
  <2>5. PICK parts \in Seq(OutFrames) : parts = DeferredBehind(item.marker) \o Split(item)
    BY <2>3, <2>4, ConcatProperties
  <2>6. deferred' = [k \in DOMAIN deferred \cup {item.marker} |->
                      IF k = item.marker THEN parts ELSE deferred[k]]
    BY <2>1, <2>5 DEF With
  <2>7. stage = "refragment" /\ todo' \in Seq(Items) /\ result \in Seq(OutFrames)
    BY <1>7, <2>1
  <2> QED BY <1>6, <2>1, <2>6, <2>7 DEF OutputInv
<1>11. CASE SkipSlot
  <2>1. /\ Take
        /\ capture' = capture /\ packets' = packets /\ records' = records /\ stage' = stage
        /\ pending_extra' = pending_extra /\ deferred' = deferred /\ result' = result
    BY <1>11 DEF SkipSlot, KeepRest
  <2>2. stage = "refragment" /\ todo' \in Seq(Items) /\ result \in Seq(OutFrames)
    BY <1>7, <2>1
  <2> QED BY <1>6, <2>1, <2>2 DEF OutputInv
<1>12. CASE EmitSlot
  <2>1. PICK item :
        /\ item = Item /\ item.kind = "slot" /\ Take /\ item.marker \in DOMAIN pending_extra
        /\ result' = result \o FragmentsFor(item) \o FollowingLastSlot(item)
        /\ deferred' = IF IsLastSlot(item) THEN Without(deferred, item.marker) ELSE deferred
        /\ capture' = capture /\ packets' = packets /\ records' = records /\ stage' = stage
        /\ pending_extra' = pending_extra
    BY <1>12 DEF EmitSlot, KeepRest
  <2>2. item \in SlotItems
    BY <1>7, <2>1, ItemKinds
  <2>3. FragmentsFor(item) \in Seq(OutFrames)
    BY <2>1, <2>2, FragmentsForFacts
  <2>4. FollowingLastSlot(item) \in Seq(OutFrames)
    BY EmptySeq DEF FollowingLastSlot, DeferredBehind, OutputInv
  <2>5. stage = "refragment" /\ todo' \in Seq(Items) /\ result \in Seq(OutFrames)
    BY <1>7, <2>1
  <2>6. result' \in Seq(OutFrames)
    <3>1. PICK a \in Seq(OutFrames) : a = result \o FragmentsFor(item)
      BY <2>3, <2>5, ConcatProperties
    <3>2. a \o FollowingLastSlot(item) \in Seq(OutFrames)
      BY <2>4, ConcatProperties
    <3> QED BY <2>1, <3>1, <3>2
  <2>7. DOMAIN deferred' \subseteq DOMAIN deferred
        /\ \A m \in DOMAIN deferred' : deferred'[m] = deferred[m]
    BY <2>1 DEF Without
  <2> QED BY <1>6, <2>1, <2>5, <2>6, <2>7 DEF OutputInv
<1>13. CASE EndRefragment
  <2>1. PICK markers :
        /\ markers = Ascending(DOMAIN deferred)
        /\ result' = result \o FlattenSeq([n \in DOMAIN markers |-> deferred[markers[n]]])
        /\ stage = "refragment" /\ stage' = "done" /\ todo = << >> /\ deferred' = << >>
        /\ capture' = capture /\ packets' = packets /\ records' = records /\ todo' = todo
        /\ pending_extra' = pending_extra
    BY <1>13 DEF EndRefragment
  <2>2. IsFiniteSet(DOMAIN deferred) /\ DOMAIN deferred \subseteq Nat
    BY DeferredMarkers
  <2>3. PICK count \in Nat : markers \in [1 .. count -> DOMAIN deferred]
    BY <2>1, <2>2, AscendingFacts
  <2>4. PICK parts : parts = [n \in DOMAIN markers |-> deferred[markers[n]]]
    OBVIOUS
  <2>5. parts \in [1 .. count -> Seq(OutFrames)]
    BY <2>3, <2>4 DEF OutputInv
  <2>6. parts \in Seq(Seq(OutFrames))
    BY <2>5, SeqDef
  <2>7. FlattenSeq(parts) \in Seq(OutFrames)
    BY <2>6, FlattenType
  <2>8. result' \in Seq(OutFrames)
    BY <2>1, <2>4, <2>7, ConcatProperties DEF OutputInv
  <2>9. DOMAIN deferred' = {}
    <3>1. DOMAIN << >> = {}
      OBVIOUS
    <3> QED BY <2>1, <3>1
  <2> QED BY <1>6, <2>1, <2>8, <2>9 DEF OutputInv
<1> QED BY <1>2, <1>3, <1>4, <1>5, <1>8, <1>9, <1>10, <1>11, <1>12, <1>13 DEF FragmentsNext

-----------------------------------------------------------------------------
(***************************************************************************)
(* The order of what is sent.  Fragments are collected in capture order,   *)
(* so the slots of a packet come behind it and with growing ordinals.      *)
(***************************************************************************)
Ascends(group) == \A a, b \in DOMAIN group : a < b => group[a] < group[b]

SlotOrderInv ==
  /\ \A key \in DOMAIN active : Ascends(active[key])
  /\ \A m \in DOMAIN records : Ascends(records[m].slots)
  /\ \A i \in Indices : \A m \in DOMAIN records : \A n \in Nat : packets[i] = Slot(m, n) =>
       m < i /\ n + 1 \in DOMAIN records[m].slots /\ records[m].slots[n + 1] = i

LEMMA SlotIsOf ==
  ASSUME GroupingInv, NEW i \in Indices, NEW m, NEW n, packets[i] = Slot(m, n)
  PROVE  m \in DOMAIN records /\ n \in Nat
<1>1. packets[i].kind = "slot" /\ packets[i].marker = m /\ packets[i].ordinal = n
  BY DEF Slot
<1>2. ~ Untouched(i)
  BY <1>1, FrameFacts DEF Untouched, Frame, GroupingInv, VisitInv
<1>3. packets[i] # Gone
  BY <1>1 DEF Gone
<1>4. i \notin DOMAIN records
  <2>1. ASSUME i \in DOMAIN records PROVE FALSE
    <3>1. packets[i] = Virtual(i, Frame(i).key, packets[i].data)
      BY <2>1 DEF GroupingInv, RecordInv, Record
    <3>2. packets[i].kind = "virtual"
      BY <3>1 DEF Virtual
    <3> QED BY <1>1, <3>2
  <2> QED BY <2>1
<1>5. PICK m1 \in DOMAIN records, n1 \in Nat : packets[i] = Slot(m1, n1)
  BY <1>2, <1>3, <1>4 DEF GroupingInv, RecordInv, IsSlot
<1>6. packets[i].marker = m1 /\ packets[i].ordinal = n1
  BY <1>5 DEF Slot
<1> QED BY <1>1, <1>6

LEMMA JoinedAscends ==
  ASSUME GroupingInv, SlotOrderInv, index \in Indices
  PROVE  Ascends(Joined)
<1> DEFINE group == GroupOf(Frame(index).key)
<1>1. group \in Seq(Indices) /\ Ascends(group)
  <2>1. CASE Frame(index).key \in DOMAIN active
    BY <2>1 DEF GroupOf, GroupingInv, GroupInv, SlotOrderInv
  <2>2. CASE Frame(index).key \notin DOMAIN active
    <3>1. group = << >>
      BY <2>2 DEF GroupOf
    <3> HIDE DEF group
    <3> QED BY <3>1, EmptySeq DEF Ascends
  <2> QED BY <2>1, <2>2
<1>2. PICK len \in Nat : len = Len(group) /\ DOMAIN group = 1 .. len
  BY <1>1, LenProperties
<1>3. \A i \in Range(group) : i < index
  BY JoinedFacts
<1>4. PICK joined : joined = Joined /\ joined = Append(group, index)
  BY DEF Joined
<1> HIDE DEF group
<1>5. /\ DOMAIN joined = 1 .. len + 1 /\ joined[len + 1] = index
      /\ \A n \in 1 .. len : joined[n] = group[n] /\ group[n] < index
  <2>1. /\ joined \in Seq(Indices) /\ Len(joined) = len + 1 /\ joined[len + 1] = index
        /\ \A n \in 1 .. len : joined[n] = group[n]
    BY <1>1, <1>2, <1>4, AppendProperties
  <2>2. DOMAIN joined = 1 .. len + 1
    BY <2>1, LenProperties
  <2>3. \A n \in 1 .. len : group[n] \in Range(group)
    BY <1>2 DEF Range
  <2> QED BY <1>3, <2>1, <2>2, <2>3
<1>6. ASSUME NEW a \in DOMAIN joined, NEW b \in DOMAIN joined, a < b
      PROVE  joined[a] < joined[b]
  <2>1. a \in 1 .. len
    BY <1>5, <1>6
  <2>2. CASE b \in 1 .. len
    BY <1>1, <1>2, <1>5, <1>6, <2>1, <2>2 DEF Ascends
  <2>3. CASE b = len + 1
    BY <1>5, <2>1, <2>3
  <2> QED BY <1>5, <2>2, <2>3
<1> QED BY <1>4, <1>6 DEF Ascends

LEMMA SlotOrderStays ==
  ASSUME GroupingInv, SlotOrderInv, capture' = capture, records' = records,
         \A i \in Indices : packets'[i] = packets[i] \/ packets'[i] = Gone,
         \A key \in DOMAIN active' : Ascends(active'[key])
  PROVE  SlotOrderInv'
<1>1. ASSUME NEW i \in Indices, NEW m \in DOMAIN records, NEW n \in Nat, packets'[i] = Slot(m, n)
      PROVE  m < i /\ n + 1 \in DOMAIN records[m].slots /\ records[m].slots[n + 1] = i
  <2>1. packets'[i] # Gone
    <3>1. Slot(m, n).kind = "slot" /\ Gone.kind = "gone"
      BY DEF Slot, Gone
    <3> QED BY <1>1, <3>1
  <2> QED BY <1>1, <2>1 DEF SlotOrderInv
<1>2. \A i, m : \A n : Slot(m, n)' = Slot(m, n)
  BY DEF Slot
<1> QED BY <1>1 DEF SlotOrderInv, Ascends, Indices, Slot

LEMMA CompleteOrders ==
  ASSUME GroupingInv, SlotOrderInv, CompleteGroup
  PROVE  SlotOrderInv'
<1>1. index \in Indices /\ Visit
  BY DEF CompleteGroup, Visit
<1>2. PICK group \in Seq(Indices), marker \in Indices :
        /\ group = Joined /\ marker = group[1] /\ marker \in Range(group)
        /\ 1 \in DOMAIN group /\ DOMAIN group = 1 .. Len(group) /\ Ascends(group)
        /\ \A n \in DOMAIN group : group[n] \in Nat
  <2>1. Joined \in Seq(Indices) /\ Len(Joined) >= 1 /\ DOMAIN Joined = 1 .. Len(Joined)
        /\ Len(Joined) \in Nat /\ Joined[1] \in Range(Joined)
    BY <1>1, JoinedFacts
  <2>2. \A n \in DOMAIN Joined : Joined[n] \in Nat
    <3>1. \A n \in DOMAIN Joined : Joined[n] \in Indices
      BY <2>1, ElementOfSeq
    <3> QED BY <3>1, FrameFacts DEF GroupingInv, VisitInv
  <2>3. Joined[1] \in Indices
    BY <2>1, ElementOfSeq
  <2> QED BY <1>1, <2>1, <2>2, <2>3, JoinedAscends
<1>3. /\ \A i \in Indices \ Range(group) : packets'[i] = packets[i]
      /\ packets'[marker].kind = "virtual"
      /\ \A i \in Range(group) \ {marker} :
           \E n \in DOMAIN group : group[n] = i /\ packets'[i] = Slot(marker, n - 1)
  <2>0. packets' = [i \in Indices |->
                     IF i = Joined[1] THEN Virtual(Joined[1], Frame(index).key, Assembled(Joined))
                     ELSE IF i \in Range(Joined)
                     THEN Slot(Joined[1], (CHOOSE n \in DOMAIN Joined : Joined[n] = i) - 1)
                     ELSE packets[i]]
    BY Zenon DEF CompleteGroup, Slots
  <2>1. packets' = [i \in Indices |->
                     IF i = marker THEN Virtual(marker, Frame(index).key, Assembled(group))
                     ELSE IF i \in Range(group)
                     THEN Slot(marker, (CHOOSE n \in DOMAIN group : group[n] = i) - 1)
                     ELSE packets[i]]
    <3>1. group = Joined /\ marker = Joined[1]
      BY <1>2
    <3> QED BY <2>0, <3>1
  <2>2. \A i \in Range(group) : i \in Indices
    BY <1>2, ElementOfSeq DEF Range
  <2>3. packets'[marker].kind = "virtual"
    BY <1>2, <2>1, <2>2 DEF Virtual
  <2>4. ASSUME NEW i \in Range(group) \ {marker}
        PROVE  \E n \in DOMAIN group : group[n] = i /\ packets'[i] = Slot(marker, n - 1)
    <3>1. \E n \in DOMAIN group : group[n] = i
      BY DEF Range
    <3>2. PICK n : n = CHOOSE k \in DOMAIN group : group[k] = i
      OBVIOUS
    <3>3. n \in DOMAIN group /\ group[n] = i
      BY <3>1, <3>2
    <3>4. packets'[i] = Slot(marker, n - 1)
      BY <1>2, <2>1, <2>2, <3>2
    <3> QED BY <3>3, <3>4
  <2>5. \A i \in Indices \ Range(group) : packets'[i] = packets[i]
    BY <1>2, <2>1
  <2> QED BY <2>3, <2>4, <2>5
<1>4. /\ capture' = capture
      /\ DOMAIN records' = DOMAIN records \cup {marker} /\ records'[marker].slots = group
      /\ marker \notin DOMAIN records
      /\ \A m \in DOMAIN records : records'[m] = records[m]
  <2>1. PICK record : records' = With(records, marker, record) /\ record.slots = group
    <3>1. PICK record :
            /\ record = [sizes |-> [n \in DOMAIN UniqueFragments(Joined) |->
                                    Len(Frame(UniqueFragments(Joined)[n]).data)],
                         slots |-> Joined]
            /\ records' = With(records, Joined[1], record)
      BY CompleteGroupEffect, Zenon
    <3>2. record.slots = group
      BY <1>2, <3>1
    <3> QED BY <1>2, <3>1, <3>2
  <2>2. DOMAIN records' = DOMAIN records \cup {marker} /\ records'[marker].slots = group
    BY <2>1 DEF With
  <2>3. /\ capture' = capture /\ \A m \in DOMAIN records : records'[m] = records[m]
    BY RecordsGrow DEF FragmentsNext
  <2>4. marker \notin DOMAIN records
    BY <1>1, <1>2, GroupIsUntouched
  <2> QED BY <2>2, <2>3, <2>4
<1>5. \A key \in DOMAIN active' : Ascends(active'[key])
  <2>1. active' = Without(active, Frame(index).key)
    BY CompleteGroupEffect
  <2> QED BY <2>1 DEF Without, SlotOrderInv
<1>6. \A m \in DOMAIN records' : Ascends(records'[m].slots)
  BY <1>2, <1>4 DEF SlotOrderInv
<1>7. ASSUME NEW i \in Indices, NEW m \in DOMAIN records', NEW n \in Nat, packets'[i] = Slot(m, n)
      PROVE  m < i /\ n + 1 \in DOMAIN records'[m].slots /\ records'[m].slots[n + 1] = i
  <2>0. packets'[i].kind = "slot" /\ packets'[i].marker = m /\ packets'[i].ordinal = n
    BY <1>7 DEF Slot
  <2>1. CASE i \in Range(group)
    <3>1. i # marker
      BY <1>3, <2>0
    <3>2. PICK k \in DOMAIN group : group[k] = i /\ packets'[i] = Slot(marker, k - 1)
      BY <1>3, <2>1, <3>1
    <3>3. m = marker /\ n = k - 1
      BY <2>0, <3>2 DEF Slot
    <3>4. k # 1 /\ k \in 1 .. Len(group)
      BY <1>2, <3>1, <3>2
    <3>5. 1 < k /\ n + 1 = k
      BY <3>3, <3>4
    <3>6. marker < i
      BY <1>2, <3>2, <3>5 DEF Ascends
    <3> QED BY <1>4, <3>2, <3>3, <3>5, <3>6
  <2>2. CASE i \notin Range(group)
    <3>1. packets[i] = Slot(m, n)
      BY <1>3, <1>7, <2>2
    <3>2. m \in DOMAIN records
      BY <3>1, SlotIsOf
    <3> QED BY <1>4, <3>1, <3>2 DEF SlotOrderInv
  <2> QED BY <2>1, <2>2
<1> QED BY <1>4, <1>5, <1>6, <1>7 DEF SlotOrderInv, Ascends, Indices, Slot

LEMMA SlotOrderStep ==
  ASSUME GroupingInv, SlotOrderInv, [FragmentsNext]_fragmentsVars
  PROVE  SlotOrderInv'
<1>0. capture' = capture /\ (~ CompleteGroup => records' = records)
  BY RecordsGrow
<1>1. CASE CompleteGroup
  BY <1>1, CompleteOrders
<1>2. CASE PassPacket
  <2>1. packets' = packets /\ active' = active /\ records' = records
    BY <1>2 DEF PassPacket
  <2> QED BY <1>0, <2>1, SlotOrderStays DEF SlotOrderInv
<1>3. CASE DropDuplicate
  <2>1. packets' = [packets EXCEPT ![index] = Gone] /\ active' = active /\ records' = records
    BY <1>3 DEF DropDuplicate
  <2>2. \A i \in Indices : packets'[i] = packets[i] \/ packets'[i] = Gone
    BY <2>1 DEF GroupingInv, VisitInv
  <2> QED BY <1>0, <2>1, <2>2, SlotOrderStays DEF SlotOrderInv
<1>4. CASE BlockKey \/ RejectGroup
  <2>1. packets' = packets /\ active' = Without(active, Frame(index).key) /\ records' = records
    BY <1>4 DEF BlockKey, RejectGroup
  <2>2. \A key \in DOMAIN active' : Ascends(active'[key])
    BY <2>1 DEF Without, SlotOrderInv
  <2> QED BY <1>0, <2>1, <2>2, SlotOrderStays
<1>5. CASE CollectFragment
  <2>1. /\ packets' = packets /\ active' = With(active, Frame(index).key, Joined)
        /\ records' = records /\ index \in Indices
    BY <1>5 DEF CollectFragment, Visit
  <2>2. Ascends(Joined)
    BY <2>1, JoinedAscends
  <2>3. \A key \in DOMAIN active' : Ascends(active'[key])
    BY <2>1, <2>2 DEF With, SlotOrderInv
  <2> QED BY <1>0, <2>1, <2>3, SlotOrderStays
<1>6. CASE \/ EndReassemble \/ Rewrite \/ EmitFrame \/ EmitFirst \/ DeferPiece \/ SkipSlot
           \/ EmitSlot \/ EndRefragment \/ UNCHANGED fragmentsVars
  <2>1. packets' = packets /\ active' = active /\ records' = records
    BY <1>6 DEF EndReassemble, Rewrite, EmitFrame, EmitFirst, DeferPiece, SkipSlot, EmitSlot,
                EndRefragment, KeepRest, fragmentsVars
  <2> QED BY <1>0, <2>1, SlotOrderStays DEF SlotOrderInv
<1> QED BY <1>1, <1>2, <1>3, <1>4, <1>5, <1>6 DEF FragmentsNext

-----------------------------------------------------------------------------
(***************************************************************************)
(* Sequences whose elements are related to all that come behind them.      *)
(***************************************************************************)
Ordered(q, R) == \A a, b \in DOMAIN q : a < b => <<q[a], q[b]>> \in R
InFront(q, r, R) == \A x \in Range(q), y \in Range(r) : <<x, y>> \in R

LEMMA ConcatRange ==
  ASSUME NEW S, NEW q \in Seq(S), NEW r \in Seq(S)
  PROVE  /\ q \o r \in Seq(S) /\ Range(q \o r) = Range(q) \cup Range(r)
         /\ Range(q) \subseteq S
<1>1. PICK m \in Nat, n \in Nat :
        /\ m = Len(q) /\ n = Len(r) /\ DOMAIN q = 1 .. m /\ DOMAIN r = 1 .. n
  BY LenProperties
<1>2. PICK all \in Seq(S) :
        /\ all = q \o r /\ Len(all) = m + n
        /\ \A i \in 1 .. m + n : all[i] = IF i <= m THEN q[i] ELSE r[i - m]
  <2>1. /\ q \o r \in Seq(S) /\ Len(q \o r) = m + n
        /\ \A i \in 1 .. m + n : (q \o r)[i] = IF i <= m THEN q[i] ELSE r[i - m]
    BY <1>1, ConcatProperties
  <2> QED BY <2>1
<1>3. DOMAIN all = 1 .. m + n
  BY <1>2, LenProperties
<1>4. \A i \in 1 .. m : i \in 1 .. m + n /\ all[i] = q[i]
  BY <1>2
<1>5. ASSUME NEW i \in 1 .. n PROVE \E k \in 1 .. m + n : all[k] = r[i]
  <2>1. PICK k \in 1 .. m + n : ~ (k <= m) /\ k - m = i
    <3>1. m + i \in 1 .. m + n /\ ~ (m + i <= m) /\ m + i - m = i
      OBVIOUS
    <3> QED BY <3>1
  <2>2. all[k] = r[k - m]
    BY <1>2, <2>1
  <2> QED BY <2>1, <2>2
<1>6. ASSUME NEW i \in 1 .. m + n
      PROVE  (\E k \in 1 .. m : all[i] = q[k]) \/ (\E k \in 1 .. n : all[i] = r[k])
  <2>1. i <= m => i \in 1 .. m
    OBVIOUS
  <2>2. ~ (i <= m) => i - m \in 1 .. n
    OBVIOUS
  <2> QED BY <1>2, <2>1, <2>2
<1>7. Range(all) = Range(q) \cup Range(r)
  <2>1. ASSUME NEW x \in Range(all) PROVE x \in Range(q) \cup Range(r)
    <3>1. PICK i \in 1 .. m + n : x = all[i]
      BY <1>3 DEF Range
    <3>2. CASE \E k \in 1 .. m : all[i] = q[k]
      BY <1>1, <3>1, <3>2 DEF Range
    <3>3. CASE \E k \in 1 .. n : all[i] = r[k]
      BY <1>1, <3>1, <3>3 DEF Range
    <3> QED BY <1>6, <3>2, <3>3
  <2>2. Range(q) \subseteq Range(all)
    BY <1>1, <1>3, <1>4 DEF Range
  <2>3. Range(r) \subseteq Range(all)
    BY <1>1, <1>3, <1>5 DEF Range
  <2> QED BY <2>1, <2>2, <2>3
<1>8. Range(q) \subseteq S
  BY <1>1, ElementOfSeq DEF Range
<1> QED BY <1>2, <1>7, <1>8

LEMMA ConcatOrdered ==
  ASSUME NEW S, NEW R, NEW q \in Seq(S), NEW r \in Seq(S),
         Ordered(q, R), Ordered(r, R), InFront(q, r, R)
  PROVE  Ordered(q \o r, R)
<1>1. PICK m \in Nat, n \in Nat :
        /\ m = Len(q) /\ n = Len(r) /\ DOMAIN q = 1 .. m /\ DOMAIN r = 1 .. n
  BY LenProperties
<1>2. PICK all \in Seq(S) :
        /\ all = q \o r /\ Len(all) = m + n
        /\ \A i \in 1 .. m + n : all[i] = IF i <= m THEN q[i] ELSE r[i - m]
  <2>1. /\ q \o r \in Seq(S) /\ Len(q \o r) = m + n
        /\ \A i \in 1 .. m + n : (q \o r)[i] = IF i <= m THEN q[i] ELSE r[i - m]
    BY <1>1, ConcatProperties
  <2> QED BY <2>1
<1>3. DOMAIN all = 1 .. m + n
  BY <1>2, LenProperties
<1>4. ASSUME NEW a \in 1 .. m + n, NEW b \in 1 .. m + n, a < b
      PROVE  <<all[a], all[b]>> \in R
  <2>1. CASE b <= m
    <3>1. a \in 1 .. m /\ b \in 1 .. m /\ a <= m
      BY <1>4, <2>1
    <3>2. all[a] = q[a] /\ all[b] = q[b]
      BY <1>2, <3>1, <2>1
    <3> QED BY <1>1, <1>4, <3>1, <3>2 DEF Ordered
  <2>2. CASE a <= m /\ ~ (b <= m)
    <3>1. a \in 1 .. m /\ b - m \in 1 .. n
      BY <2>2
    <3>2. all[a] = q[a] /\ all[b] = r[b - m]
      BY <1>2, <2>2
    <3>3. q[a] \in Range(q) /\ r[b - m] \in Range(r)
      BY <1>1, <3>1 DEF Range
    <3> QED BY <3>2, <3>3 DEF InFront
  <2>3. CASE ~ (a <= m)
    <3>1. a - m \in 1 .. n /\ b - m \in 1 .. n /\ a - m < b - m /\ ~ (b <= m)
      BY <1>4, <2>3
    <3>2. all[a] = r[a - m] /\ all[b] = r[b - m]
      BY <1>2, <2>3, <3>1
    <3> QED BY <1>1, <3>1, <3>2 DEF Ordered
  <2> QED BY <2>1, <2>2, <2>3
<1> QED BY <1>2, <1>3, <1>4 DEF Ordered

LEMMA TailOrdered ==
  ASSUME NEW S, NEW R, NEW q \in Seq(S), q # << >>, Ordered(q, R)
  PROVE  /\ Tail(q) \in Seq(S) /\ Head(q) \in Range(q) /\ Range(Tail(q)) \subseteq Range(q)
         /\ Ordered(Tail(q), R)
         /\ \A y \in Range(Tail(q)) : <<Head(q), y>> \in R
<1>1. PICK n \in Nat : n = Len(q) - 1 /\ DOMAIN q = 1 .. n + 1
  <2>1. Len(q) \in Nat \ {0} /\ DOMAIN q = 1 .. Len(q)
    BY EmptySeq, LenProperties
  <2>2. Len(q) - 1 \in Nat /\ Len(q) - 1 + 1 = Len(q)
    BY <2>1
  <2> QED BY <2>1, <2>2
<1>2. PICK tail \in Seq(S) :
        /\ tail = Tail(q) /\ Len(tail) = n /\ \A i \in 1 .. n : tail[i] = q[i + 1]
  <2>1. Tail(q) \in Seq(S) /\ Len(Tail(q)) = n /\ \A i \in 1 .. n : Tail(q)[i] = q[i + 1]
    BY <1>1, HeadTailProperties
  <2> QED BY <2>1
<1>3. DOMAIN tail = 1 .. n
  BY <1>2, LenProperties
<1>4. \A i \in 1 .. n : i + 1 \in 1 .. n + 1 /\ 1 < i + 1
  OBVIOUS
<1>5. Head(q) = q[1] /\ 1 \in 1 .. n + 1
  OBVIOUS
<1>6. Range(tail) \subseteq Range(q) /\ Head(q) \in Range(q)
  BY <1>1, <1>2, <1>3, <1>4, <1>5 DEF Range
<1>7. Ordered(tail, R)
  <2>1. ASSUME NEW a \in 1 .. n, NEW b \in 1 .. n, a < b PROVE <<tail[a], tail[b]>> \in R
    <3>1. a + 1 < b + 1
      BY <2>1
    <3> QED BY <1>1, <1>2, <1>4, <3>1 DEF Ordered
  <2> QED BY <1>3, <2>1 DEF Ordered
<1>8. ASSUME NEW y \in Range(tail) PROVE <<Head(q), y>> \in R
  <2>1. PICK i \in 1 .. n : y = tail[i]
    BY <1>3 DEF Range
  <2>2. y = q[i + 1] /\ i + 1 \in DOMAIN q /\ 1 < i + 1 /\ 1 \in DOMAIN q
    BY <1>1, <1>2, <1>4, <1>5, <2>1
  <2> QED BY <1>5, <2>2 DEF Ordered
<1> QED BY <1>2, <1>6, <1>7, <1>8

LEMMA FlattenedOrdered ==
  ASSUME NEW S, NEW R, NEW s \in Seq(Seq(S)),
         \A i \in DOMAIN s : Ordered(s[i], R),
         \A i, j \in DOMAIN s : i < j => InFront(s[i], s[j], R)
  PROVE  /\ FlattenSeq(s) \in Seq(S) /\ Ordered(FlattenSeq(s), R)
         /\ \A x \in Range(FlattenSeq(s)) : \E i \in DOMAIN s : x \in Range(s[i])
<1>1. PICK len \in Nat : len = Len(s) /\ DOMAIN s = 1 .. len
  BY LenProperties
<1> DEFINE Good(n) == /\ Ordered(Flattened(s, n), R)
                      /\ \A x \in Range(Flattened(s, n)) : \E i \in 1 .. n : x \in Range(s[i])
           Bad == {n \in 0 .. len : ~ Good(n)}
<1>2. Good(0)
  <2>1. Flattened(s, 0) = << >> /\ DOMAIN << >> = {} /\ Range(<< >>) = {}
    BY DEF Flattened, Range
  <2> QED BY <2>1 DEF Ordered
<1>3. ASSUME NEW n \in 1 .. len, Good(n - 1) PROVE Good(n)
  <2>1. n - 1 \in 0 .. len /\ n \in 1 .. Len(s)
    BY <1>1
  <2>2. PICK q \in Seq(S), r \in Seq(S) :
          q = Flattened(s, n - 1) /\ r = s[n] /\ Flattened(s, n) = q \o r
    <3>1. Flattened(s, n - 1) \in Seq(S)
      BY <1>1, <2>1, FlattenedType
    <3>2. Flattened(s, n) = Flattened(s, n - 1) \o s[n] /\ s[n] \in Seq(S)
      BY <2>1, <3>1, FlattenedStep, ElementOfSeq
    <3> QED BY <3>1, <3>2
  <2>3. Ordered(q, R) /\ \A x \in Range(q) : \E i \in 1 .. n - 1 : x \in Range(s[i])
    BY <1>3, <2>2
  <2>4. Ordered(r, R)
    BY <1>1, <2>2
  <2>5. \A i \in 1 .. n - 1 : i \in DOMAIN s /\ n \in DOMAIN s /\ i < n /\ i \in 1 .. n
    BY <1>1
  <2>6. InFront(q, r, R)
    <3>1. ASSUME NEW x \in Range(q), NEW y \in Range(r) PROVE <<x, y>> \in R
      <4>1. PICK i \in 1 .. n - 1 : x \in Range(s[i])
        BY <2>3
      <4>2. InFront(s[i], s[n], R)
        BY <2>5
      <4> QED BY <2>2, <4>1, <4>2 DEF InFront
    <3> QED BY <3>1 DEF InFront
  <2>7. Ordered(q \o r, R)
    BY <2>3, <2>4, <2>6, ConcatOrdered
  <2>8. Range(q \o r) = Range(q) \cup Range(r) /\ n \in 1 .. n
    BY ConcatRange
  <2>9. \A x \in Range(q \o r) : \E i \in 1 .. n : x \in Range(s[i])
    BY <2>2, <2>3, <2>5, <2>8
  <2> QED BY <2>2, <2>7, <2>9
<1>4. Bad = {}
  <2> SUFFICES ASSUME Bad # {} PROVE FALSE
    OBVIOUS
  <2> HIDE DEF Good
  <2>1. PICK k \in Bad : \A j \in Bad : k <= j
    <3>1. Bad \subseteq Nat
      OBVIOUS
    <3> HIDE DEF Bad
    <3> QED BY <3>1, LeastElement
  <2>2. k \in 0 .. len /\ ~ Good(k)
    OBVIOUS
  <2>3. k # 0
    BY <1>2, <2>2
  <2>4. k \in 1 .. len /\ k - 1 \in 0 .. len /\ k - 1 \notin Bad
    <3> HIDE DEF Bad
    <3> QED BY <2>1, <2>2, <2>3
  <2>5. Good(k - 1)
    BY <2>4
  <2> QED BY <1>3, <2>2, <2>4, <2>5
<1>5. Good(len)
  <2>1. len \in 0 .. len
    OBVIOUS
  <2> HIDE DEF Good
  <2> QED BY <1>4, <2>1
<1>6. FlattenSeq(s) = Flattened(s, len)
  BY <1>1, FlattenedAll
<1>7. FlattenSeq(s) \in Seq(S)
  BY FlattenType
<1> QED BY <1>1, <1>5, <1>6, <1>7

-----------------------------------------------------------------------------
(***************************************************************************)
(* What refragment gets: the pieces of a packet in the order re-           *)
(* segmentation chose, its slots with growing ordinals, and frames that    *)
(* are no part of a rewritten packet.                                      *)
(***************************************************************************)
Numbered(f) == f.key.proto # "other" /\ 1 <= f.of[2]

ItemOrder ==
  {x \in Items \X Items :
     /\ x[1].kind = "virtual" /\ x[2].kind = "virtual" /\ x[1].marker = x[2].marker
          => x[1].piece <= x[2].piece
     /\ x[1].kind = "slot" /\ x[2].kind = "slot" /\ x[1].marker = x[2].marker
          => x[1].ordinal < x[2].ordinal}

Sendable(x) ==
  /\ x.kind = "frame" => ~ Numbered(x)
  /\ x.kind = "slot" => x.ordinal < Len(records[x.marker].slots)

TodoInv == Ordered(todo, ItemOrder) /\ \A x \in Range(todo) : Sendable(x)

LEMMA PartsOrdered ==
  ASSUME GroupingInv, NEW m \in DOMAIN records,
         NEW lengths \in Rewrites[packets[m].key.proto]
  PROVE  /\ Ordered(Rewritten(packets[m], lengths), ItemOrder)
         /\ \A x \in Range(Rewritten(packets[m], lengths)) :
              \/ x.kind = "frame" /\ ~ Numbered(x)
              \/ x.kind = "virtual" /\ x.marker = m
<1>1. PICK count \in Nat :
        /\ DOMAIN lengths = 1 .. count /\ packets[m].marker = m
        /\ \A n \in 1 .. count : /\ PieceOf(packets[m], lengths, n) \in Pieces
                                 /\ PieceOf(packets[m], lengths, n).marker = m
                                 /\ PieceOf(packets[m], lengths, n).piece = n
                                 /\ n # 1 => Ack(m, n) \in OutFrames
  <2>1. Len(lengths) \in Nat /\ DOMAIN lengths = 1 .. Len(lengths)
    BY PartsFacts
  <2>2. PICK count \in Nat : count = Len(lengths) /\ DOMAIN lengths = 1 .. count
    BY <2>1
  <2> QED BY <2>2, PartsFacts
<1>2. PICK parts \in Seq(Seq(Items)) :
        /\ parts = PartsOf(packets[m], lengths)
        /\ Rewritten(packets[m], lengths) = FlattenSeq(parts)
  BY PartsFacts, RewrittenFacts
<1>3. parts = [n \in 1 .. count |->
                 IF n = 1 THEN <<PieceOf(packets[m], lengths, n)>>
                 ELSE <<Ack(m, n), PieceOf(packets[m], lengths, n)>>]
  BY <1>1, <1>2 DEF PartsOf
<1>4. \A n : Ack(m, n).kind = "frame" /\ ~ Numbered(Ack(m, n))
  BY DEF Ack, Numbered
<1>5. ASSUME NEW n \in 1 .. count
      PROVE  /\ Ordered(parts[n], ItemOrder)
             /\ \A x \in Range(parts[n]) :
                  /\ x \in Items
                  /\ \/ x.kind = "frame" /\ ~ Numbered(x)
                     \/ x.kind = "virtual" /\ x.marker = m /\ x.piece = n
  <2>1. PICK b \in Items :
          /\ b = PieceOf(packets[m], lengths, n)
          /\ b.kind = "virtual" /\ b.marker = m /\ b.piece = n
    BY <1>1 DEF Items, Pieces
  <2>2. CASE n = 1
    <3>1. parts[n] = <<b>>
      BY <1>3, <2>1, <2>2
    <3>2. DOMAIN parts[n] = 1 .. 1 /\ parts[n][1] = b
      BY <3>1
    <3>3. \A i, j \in 1 .. 1 : ~ (i < j)
      OBVIOUS
    <3>4. \A x \in Range(parts[n]) : x = b
      BY <3>2 DEF Range
    <3> QED BY <2>1, <3>2, <3>3, <3>4 DEF Ordered
  <2>3. CASE n # 1
    <3>1. PICK a \in Items : a = Ack(m, n) /\ a.kind = "frame" /\ ~ Numbered(a)
      BY <1>1, <1>4, <2>3 DEF Items
    <3>2. parts[n] = <<a, b>>
      BY <1>3, <2>1, <2>3, <3>1
    <3>3. DOMAIN parts[n] = 1 .. 2 /\ parts[n][1] = a /\ parts[n][2] = b
      BY <3>2
    <3>4. \A i, j \in 1 .. 2 : i < j => i = 1 /\ j = 2
      OBVIOUS
    <3>5. <<a, b>> \in ItemOrder
      BY <2>1, <3>1 DEF ItemOrder
    <3>6. \A x \in Range(parts[n]) : x = a \/ x = b
      <4>1. \A i \in 1 .. 2 : i = 1 \/ i = 2
        OBVIOUS
      <4> QED BY <3>3, <4>1 DEF Range
    <3>7. Ordered(parts[n], ItemOrder)
      BY <3>3, <3>4, <3>5 DEF Ordered
    <3> QED BY <2>1, <3>1, <3>6, <3>7
  <2> QED BY <2>2, <2>3
<1>6. DOMAIN parts = 1 .. count
  BY <1>3
<1>7. ASSUME NEW i \in 1 .. count, NEW j \in 1 .. count, i < j
      PROVE  InFront(parts[i], parts[j], ItemOrder)
  <2>1. ASSUME NEW x \in Range(parts[i]), NEW y \in Range(parts[j])
        PROVE  <<x, y>> \in ItemOrder
    <3>1. /\ x \in Items
          /\ x.kind = "frame" \/ (x.kind = "virtual" /\ x.piece = i)
      BY <1>5
    <3>2. /\ y \in Items
          /\ y.kind = "frame" \/ (y.kind = "virtual" /\ y.piece = j)
      BY <1>5
    <3>3. i <= j
      BY <1>7
    <3> QED BY <3>1, <3>2, <3>3 DEF ItemOrder
  <2> QED BY <2>1 DEF InFront
<1>8. /\ Ordered(FlattenSeq(parts), ItemOrder)
      /\ \A x \in Range(FlattenSeq(parts)) : \E n \in 1 .. count : x \in Range(parts[n])
  BY <1>5, <1>6, <1>7, FlattenedOrdered
<1> QED BY <1>2, <1>5, <1>8

LEMMA RewriteOrders ==
  ASSUME GroupingInv, SlotOrderInv, Rewrite
  PROVE  Ordered(todo', ItemOrder) /\ \A x \in Range(todo') : Sendable(x)
<1>1. PICK lengths :
        /\ \A m \in DOMAIN records : lengths[m] \in Rewrites[packets[m].key.proto]
        /\ todo' = FlattenSeq([i \in Indices |->
                     IF packets[i].kind = "gone" THEN << >>
                     ELSE IF packets[i].kind = "virtual" THEN Rewritten(packets[i], lengths[i])
                     ELSE <<packets[i]>>])
  BY DEF Rewrite
<1>2. Len(capture) \in Nat /\ Indices = 1 .. Len(capture)
  BY IndicesFacts DEF GroupingInv, VisitInv
<1> DEFINE Part(i) == IF packets[i].kind = "gone" THEN << >>
                      ELSE IF packets[i].kind = "virtual" THEN Rewritten(packets[i], lengths[i])
                      ELSE <<packets[i]>>
           \* where an item that is not a frame comes from
           Source(x, i) ==
             \/ x.kind = "frame" /\ ~ Numbered(x)
             \/ x.kind = "virtual" /\ x.marker = i
             \/ /\ x.kind = "slot" /\ x.marker \in DOMAIN records /\ x.ordinal \in Nat
                /\ x.ordinal + 1 \in DOMAIN records[x.marker].slots
                /\ records[x.marker].slots[x.ordinal + 1] = i
<1>3. ASSUME NEW i \in Indices
      PROVE  /\ Part(i) \in Seq(Items) /\ Ordered(Part(i), ItemOrder)
             /\ \A x \in Range(Part(i)) : Source(x, i)
  <2>1. CASE i \in DOMAIN records
    <3>1. packets[i] = Virtual(i, Frame(i).key, packets[i].data)
      BY <2>1 DEF GroupingInv, RecordInv, Record
    <3>2. packets[i].kind = "virtual"
      BY <3>1 DEF Virtual
    <3>3. Part(i) = Rewritten(packets[i], lengths[i]) /\ Part(i) \in Seq(Items)
      BY <1>1, <2>1, <3>2, RewrittenFacts
    <3>4. Ordered(Part(i), ItemOrder)
          /\ \A x \in Range(Part(i)) :
               \/ x.kind = "frame" /\ ~ Numbered(x)
               \/ x.kind = "virtual" /\ x.marker = i
      <4>1. PICK flat : flat = Rewritten(packets[i], lengths[i])
        OBVIOUS
      <4>2. /\ Ordered(flat, ItemOrder)
            /\ \A x \in Range(flat) :
                 \/ x.kind = "frame" /\ ~ Numbered(x)
                 \/ x.kind = "virtual" /\ x.marker = i
        BY <1>1, <2>1, <4>1, PartsOrdered
      <4> HIDE DEF Part
      <4> QED BY <3>3, <4>1, <4>2
    <3> HIDE DEF Part
    <3> QED BY <3>3, <3>4
  <2>2. ASSUME NEW x \in Items, packets[i] = x, x.kind \notin {"gone", "virtual"}, Source(x, i)
        PROVE  /\ Part(i) \in Seq(Items) /\ Ordered(Part(i), ItemOrder)
               /\ \A y \in Range(Part(i)) : Source(y, i)
    <3>1. Part(i) = <<x>>
      BY <2>2
    <3> HIDE DEF Part
    <3>2. DOMAIN Part(i) = 1 .. 1 /\ Part(i)[1] = x /\ Part(i) \in Seq(Items)
      BY <3>1
    <3>3. \A a, b \in 1 .. 1 : ~ (a < b)
      OBVIOUS
    <3>4. \A y \in Range(Part(i)) : y = x
      BY <3>2 DEF Range
    <3>5. Ordered(Part(i), ItemOrder)
      BY <3>2, <3>3 DEF Ordered
    <3> HIDE DEF Source
    <3> QED BY <2>2, <3>2, <3>4, <3>5
  <2>3. CASE Untouched(i)
    <3>1. /\ packets[i] = Frame(i) /\ Frame(i).kind = "frame" /\ Frame(i) \in Frames
          /\ Frame(i).of[2] = 0
      BY <2>3, FrameFacts DEF Untouched, GroupingInv, VisitInv
    <3>2. packets[i] \in Items /\ ~ Numbered(packets[i])
      BY <2>3, <3>1 DEF Items, OutFrames, Numbered
    <3> HIDE DEF Part
    <3> QED BY <2>2, <3>1, <3>2
  <2>4. CASE packets[i] = Gone
    <3>1. packets[i].kind = "gone"
      BY <2>4 DEF Gone
    <3>2. Part(i) = << >>
      BY <3>1
    <3> HIDE DEF Part
    <3>3. DOMAIN Part(i) = {} /\ Part(i) \in Seq(Items)
      BY <3>2
    <3> QED BY <3>3 DEF Range, Ordered
  <2>5. CASE IsSlot(i)
    <3>1. PICK m \in DOMAIN records, n \in Nat : packets[i] = Slot(m, n)
      BY <2>5 DEF IsSlot
    <3>2. /\ packets[i].kind = "slot" /\ packets[i].marker = m /\ packets[i].ordinal = n
          /\ packets[i] \in Items
      BY <3>1 DEF Slot, SlotItems, Items
    <3>3. n + 1 \in DOMAIN records[m].slots /\ records[m].slots[n + 1] = i
      BY <3>1 DEF SlotOrderInv
    <3> HIDE DEF Part
    <3> QED BY <2>2, <3>2, <3>3
  <2> HIDE DEF Part, Source
  <2> QED BY <2>1, <2>3, <2>4, <2>5 DEF GroupingInv, RecordInv
<1> DEFINE parts == [i \in Indices |-> Part(i)]
<1>4. todo' = FlattenSeq(parts)
  BY <1>1
<1> HIDE DEF Part
<1>5. parts \in [1 .. Len(capture) -> Seq(Items)] /\ DOMAIN parts = 1 .. Len(capture)
      /\ \A i \in 1 .. Len(capture) : parts[i] = Part(i)
  BY <1>2, <1>3
<1> HIDE DEF parts
<1>6. parts \in Seq(Seq(Items))
  BY <1>2, <1>5, SeqDef
<1>7. ASSUME NEW m \in DOMAIN records, NEW a \in Nat, NEW b \in Nat,
             a + 1 \in DOMAIN records[m].slots, b + 1 \in DOMAIN records[m].slots,
             records[m].slots[a + 1] < records[m].slots[b + 1],
             records[m].slots[a + 1] \in Nat, records[m].slots[b + 1] \in Nat
      PROVE  a < b
  <2>1. PICK slots : slots = records[m].slots /\ Ascends(slots)
    BY DEF SlotOrderInv
  <2>2. ~ (b + 1 < a + 1) /\ a + 1 # b + 1
    <3>1. b + 1 < a + 1 => slots[b + 1] < slots[a + 1]
      BY <1>7, <2>1 DEF Ascends
    <3> QED BY <1>7, <2>1, <3>1
  <2> QED BY <2>2
<1>8. ASSUME NEW i \in 1 .. Len(capture), NEW j \in 1 .. Len(capture), i < j
      PROVE  InFront(parts[i], parts[j], ItemOrder)
  <2>1. ASSUME NEW x \in Range(parts[i]), NEW y \in Range(parts[j])
        PROVE  <<x, y>> \in ItemOrder
    <3>1. x \in Items /\ Source(x, i) /\ y \in Items /\ Source(y, j)
      <4>1. parts[i] \in Seq(Items) /\ parts[j] \in Seq(Items)
        BY <1>5
      <4>2. x \in Items /\ y \in Items
        BY <4>1, ConcatRange
      <4> HIDE DEF Source
      <4> QED BY <1>2, <1>3, <1>5, <4>2
    <3>2. x.kind = "virtual" /\ y.kind = "virtual" => x.marker # y.marker
      <4>1. i # j
        BY <1>8
      <4> QED BY <3>1, <4>1
    <3>3. ASSUME x.kind = "slot", y.kind = "slot", x.marker = y.marker
          PROVE  x.ordinal < y.ordinal
      <4>1. /\ x.marker \in DOMAIN records /\ x.ordinal \in Nat
            /\ x.ordinal + 1 \in DOMAIN records[x.marker].slots
            /\ records[x.marker].slots[x.ordinal + 1] = i
        BY <3>1, <3>3
      <4>2. /\ y.ordinal \in Nat
            /\ y.ordinal + 1 \in DOMAIN records[x.marker].slots
            /\ records[x.marker].slots[y.ordinal + 1] = j
        BY <3>1, <3>3
      <4>3. i \in Nat /\ j \in Nat
        BY <1>2
      <4> QED BY <1>7, <1>8, <4>1, <4>2, <4>3
    <3> QED BY <3>1, <3>2, <3>3 DEF ItemOrder
  <2> QED BY <2>1 DEF InFront
<1>9. /\ Ordered(FlattenSeq(parts), ItemOrder)
      /\ \A x \in Range(FlattenSeq(parts)) :
           \E i \in 1 .. Len(capture) : x \in Range(parts[i])
  <2>1. \A i \in 1 .. Len(capture) : Ordered(parts[i], ItemOrder)
    BY <1>2, <1>3, <1>5
  <2> QED BY <1>5, <1>6, <1>8, <2>1, FlattenedOrdered
<1>10. ASSUME NEW x \in Range(todo') PROVE Sendable(x)
  <2>1. PICK i \in 1 .. Len(capture) : x \in Range(parts[i])
    BY <1>4, <1>9
  <2>2. Source(x, i)
    <3> HIDE DEF Source
    <3> QED BY <1>2, <1>3, <1>5, <2>1
  <2>3. ASSUME x.kind = "slot" PROVE x.ordinal < Len(records[x.marker].slots)
    <3>1. /\ x.marker \in DOMAIN records /\ x.ordinal \in Nat
          /\ x.ordinal + 1 \in DOMAIN records[x.marker].slots
      BY <2>2, <2>3
    <3>2. records[x.marker].slots \in Seq(Indices)
      BY <3>1 DEF GroupingInv, RecordInv, Record
    <3>3. PICK len \in Nat :
            len = Len(records[x.marker].slots) /\ DOMAIN records[x.marker].slots = 1 .. len
      BY <3>2, LenProperties
    <3> QED BY <3>1, <3>3
  <2>4. x.kind = "frame" => ~ Numbered(x)
    BY <2>2
  <2> QED BY <2>3, <2>4 DEF Sendable
<1> QED BY <1>4, <1>9, <1>10

-----------------------------------------------------------------------------
(***************************************************************************)
(* What refragment has sent, what waits for slots and what is deferred     *)
(* follow each other, and what is still to come follows all of them.       *)
(***************************************************************************)
FrameOrder ==
  {x \in Frames \X Frames :
     Numbered(x[1]) /\ Numbered(x[2]) /\ x[1].of[1] = x[2].of[1] => x[1].of[2] <= x[2].of[2]}

OfPacket(q, m) == \A f \in Range(q) : f.of[1] = m
Behind(x, q) == \A f \in Range(q) : Numbered(f) /\ f.of[1] = x.marker => f.of[2] <= x.piece
HasSlot(m) == \E x \in Range(todo) : x.kind = "slot" /\ x.marker = m

PendingInOrder(m) ==
  /\ OfPacket(pending_extra[m], m)
  /\ InFront(pending_extra[m], pending_extra[m], FrameOrder)
  /\ HasSlot(m) => InFront(result, pending_extra[m], FrameOrder)

DeferredInOrder(m) ==
  /\ OfPacket(deferred[m], m)
  /\ Ordered(deferred[m], FrameOrder)
  /\ InFront(result, deferred[m], FrameOrder)
  /\ InFront(pending_extra[m], deferred[m], FrameOrder)

ToCome(x) ==
  /\ Behind(x, result)
  /\ x.marker \in DOMAIN pending_extra => Behind(x, pending_extra[x.marker])
  /\ x.marker \in DOMAIN deferred => Behind(x, deferred[x.marker])

SendInv ==
  /\ Ordered(result, FrameOrder)
  /\ \A m \in DOMAIN pending_extra : PendingInOrder(m)
  /\ \A m \in DOMAIN deferred : DeferredInOrder(m)
  /\ \A x \in Range(todo) : x.kind = "virtual" => ToCome(x)

LEMMA OutFrameFacts ==
  ASSUME NEW q \in Seq(OutFrames)
  PROVE  \A f \in Range(q) : f \in OutFrames /\ f \in Frames /\ f.of \in Nat \X Nat
                             /\ f.of[1] \in Nat /\ f.of[2] \in Nat
<1>1. SUFFICES ASSUME NEW f \in Range(q)
               PROVE  f \in OutFrames /\ f \in Frames /\ f.of \in Nat \X Nat
                      /\ f.of[1] \in Nat /\ f.of[2] \in Nat
  OBVIOUS
<1>2. f \in OutFrames
  BY EmptySeq, ConcatRange
<1>3. f \in Frames
  BY <1>2 DEF OutFrames
<1>4. f.of \in Nat \X Nat
  BY <1>3 DEF Frames
<1>5. f.of[1] \in Nat /\ f.of[2] \in Nat
  BY <1>4
<1> QED BY <1>2, <1>3, <1>4, <1>5

\* A part of what is related as a whole is in order.
LEMMA PartOrdered ==
  ASSUME NEW R, NEW q, NEW r, InFront(q, q, R), Range(r) \subseteq Range(q)
  PROVE  Ordered(r, R)
<1>1. ASSUME NEW a \in DOMAIN r, NEW b \in DOMAIN r PROVE <<r[a], r[b]>> \in R
  <2>1. r[a] \in Range(q) /\ r[b] \in Range(q)
    BY DEF Range
  <2> QED BY <2>1 DEF InFront
<1> QED BY <1>1 DEF Ordered

\* Fragments of different packets may come in any order.
LEMMA OthersInFront ==
  ASSUME NEW q \in Seq(OutFrames), NEW r \in Seq(OutFrames), NEW m, NEW k,
         OfPacket(q, m), OfPacket(r, k), m # k
  PROVE  InFront(q, r, FrameOrder)
<1>1. ASSUME NEW f \in Range(q), NEW g \in Range(r) PROVE <<f, g>> \in FrameOrder
  <2>1. f \in Frames /\ g \in Frames /\ f.of[1] # g.of[1]
    BY OutFrameFacts DEF OfPacket
  <2> QED BY <2>1 DEF FrameOrder
<1> QED BY <1>1 DEF InFront

\* The fragments of a piece follow all that the piece is behind of.
LEMMA PieceInFront ==
  ASSUME GroupingInv, NEW piece \in Pieces, NEW q \in Seq(OutFrames), Behind(piece, q)
  PROVE  InFront(q, Split(piece), FrameOrder)
<1>1. ASSUME NEW f \in Range(q), NEW g \in Range(Split(piece)) PROVE <<f, g>> \in FrameOrder
  <2>1. g.of = <<piece.marker, piece.piece>>
    BY SplitFacts
  <2>2. g.of[1] = piece.marker /\ g.of[2] = piece.piece
    BY <2>1
  <2>3. f \in Frames /\ g \in Frames
    BY SplitFacts, OutFrameFacts
  <2>4. Numbered(f) /\ f.of[1] = piece.marker => f.of[2] <= piece.piece
    BY DEF Behind
  <2> QED BY <2>2, <2>3, <2>4 DEF FrameOrder
<1> QED BY <1>1 DEF InFront

LEMMA PieceFacts ==
  ASSUME GroupingInv, NEW piece \in Pieces
  PROVE  /\ OfPacket(Split(piece), piece.marker)
         /\ Behind(piece, Split(piece))
         /\ InFront(Split(piece), Split(piece), FrameOrder)
         /\ Ordered(Split(piece), FrameOrder)
<1>1. \A f \in Range(Split(piece)) : f.of[1] = piece.marker /\ f.of[2] = piece.piece
  BY SplitFacts
<1>2. piece.piece \in Nat
  BY DEF Pieces
<1>3. \A n \in Nat : n <= n
  OBVIOUS
<1>4. Behind(piece, Split(piece))
  BY <1>1, <1>2, <1>3 DEF Behind
<1>5. InFront(Split(piece), Split(piece), FrameOrder)
  BY <1>4, SplitFacts, PieceInFront
<1>6. OfPacket(Split(piece), piece.marker)
  BY <1>1 DEF OfPacket
<1> QED BY <1>4, <1>5, <1>6, PartOrdered

\* What comes later in output_packets is behind the piece in hand.
LEMMA LaterIsBehind ==
  ASSUME GroupingInv, NEW piece \in Pieces, NEW x, x.kind = "virtual",
         <<piece, x>> \in ItemOrder
  PROVE  Behind(x, Split(piece))
<1>1. \A f \in Range(Split(piece)) : f.of[1] = piece.marker /\ f.of[2] = piece.piece
  BY SplitFacts
<1>2. piece.kind = "virtual"
  BY DEF Pieces
<1>3. piece.marker = x.marker => piece.piece <= x.piece
  BY <1>2 DEF ItemOrder
<1> QED BY <1>1, <1>3 DEF Behind

\* The facts about a step that takes the next item.
LEMMA TakeFacts ==
  ASSUME OutputInv, TodoInv, Take
  PROVE  /\ Item \in Items /\ Item \in Range(todo) /\ Sendable(Item)
         /\ todo' \in Seq(Items) /\ Ordered(todo', ItemOrder)
         /\ Range(todo') \subseteq Range(todo)
         /\ \A m : HasSlot(m)' => HasSlot(m)
         /\ \A y \in Range(todo') : <<Item, y>> \in ItemOrder
<1>1. todo \in Seq(Items) /\ todo # << >> /\ todo' = Tail(todo) /\ Item = Head(todo)
  BY DEF OutputInv, Take, Item
<1>2. /\ todo' \in Seq(Items) /\ Item \in Range(todo) /\ Range(todo') \subseteq Range(todo)
      /\ Ordered(todo', ItemOrder) /\ \A y \in Range(todo') : <<Item, y>> \in ItemOrder
  BY <1>1, TailOrdered DEF TodoInv
<1>3. Item \in Items /\ Sendable(Item)
  BY <1>1, <1>2, ConcatRange DEF TodoInv
<1>4. \A m : HasSlot(m)' => HasSlot(m)
  BY <1>2 DEF HasSlot
<1> QED BY <1>2, <1>3, <1>4

\* A step that sends some frames more.
LEMMA SendGrows ==
  ASSUME OutputInv, TodoInv, SendInv, Take, NEW new \in Seq(OutFrames),
         result' = result \o new,
         Ordered(new, FrameOrder), InFront(result, new, FrameOrder),
         \A m \in DOMAIN pending_extra' :
           /\ OfPacket(pending_extra'[m], m)
           /\ InFront(pending_extra'[m], pending_extra'[m], FrameOrder)
           /\ HasSlot(m)' => /\ InFront(result, pending_extra'[m], FrameOrder)
                             /\ InFront(new, pending_extra'[m], FrameOrder),
         \A m \in DOMAIN deferred' :
           /\ OfPacket(deferred'[m], m) /\ Ordered(deferred'[m], FrameOrder)
           /\ InFront(result, deferred'[m], FrameOrder)
           /\ InFront(new, deferred'[m], FrameOrder)
           /\ InFront(pending_extra'[m], deferred'[m], FrameOrder),
         \A x \in Range(todo') : x.kind = "virtual" =>
           /\ Behind(x, new)
           /\ x.marker \in DOMAIN pending_extra' => Behind(x, pending_extra'[x.marker])
           /\ x.marker \in DOMAIN deferred' => Behind(x, deferred'[x.marker])
  PROVE  SendInv'
<1>1. result \in Seq(OutFrames) /\ Ordered(result, FrameOrder)
  BY DEF OutputInv, SendInv
<1>2. Ordered(result', FrameOrder) /\ Range(result') = Range(result) \cup Range(new)
  BY <1>1, ConcatOrdered, ConcatRange
<1>3. \A q : InFront(result, q, FrameOrder) /\ InFront(new, q, FrameOrder)
               => InFront(result', q, FrameOrder)
  BY <1>2 DEF InFront
<1>4. FrameOrder' = FrameOrder
  BY DEF FrameOrder, Frames, Numbered
<1>5. \A m \in DOMAIN pending_extra' : PendingInOrder(m)'
  BY <1>3, <1>4 DEF PendingInOrder, OfPacket, InFront
<1>6. \A m \in DOMAIN deferred' : DeferredInOrder(m)'
  BY <1>3, <1>4 DEF DeferredInOrder, OfPacket, InFront, Ordered
<1>7. ASSUME NEW x \in Range(todo'), x.kind = "virtual" PROVE ToCome(x)'
  <2>1. Behind(x, result)
    BY <1>7, TakeFacts DEF SendInv, ToCome
  <2>2. Behind(x, result')
    BY <1>2, <1>7, <2>1 DEF Behind
  <2> QED BY <1>7, <2>2 DEF ToCome, Behind, Numbered
<1>8. Ordered(result, FrameOrder)'
  BY <1>2, <1>4 DEF Ordered
<1>9. Range(todo)' = Range(todo')
  BY DEF Range
<1> QED BY <1>5, <1>6, <1>7, <1>8, <1>9 DEF SendInv

LEMMA EmptyInFront ==
  ASSUME NEW q, NEW R
  PROVE  /\ Range(<< >>) = {} /\ Ordered(<< >>, R)
         /\ InFront(q, << >>, R) /\ InFront(<< >>, q, R)
<1>1. DOMAIN << >> = {}
  OBVIOUS
<1> QED BY <1>1 DEF Range, Ordered, InFront

LEMMA OneInFront ==
  ASSUME NEW S, NEW f \in S
  PROVE  <<f>> \in Seq(S) /\ Range(<<f>>) = {f} /\ \A R : Ordered(<<f>>, R)
<1>1. PICK q \in Seq(S) : q = <<f>> /\ DOMAIN q = 1 .. 1 /\ q[1] = f
  <2>1. <<f>> \in Seq(S) /\ DOMAIN <<f>> = 1 .. 1 /\ <<f>>[1] = f
    OBVIOUS
  <2> QED BY <2>1
<1>2. \A a, b \in 1 .. 1 : ~ (a < b)
  OBVIOUS
<1>3. Range(q) = {f}
  BY <1>1 DEF Range
<1> QED BY <1>1, <1>2, <1>3 DEF Ordered

\* A step that sends nothing.
LEMMA SendWaits ==
  ASSUME OutputInv, TodoInv, SendInv, Take, result' = result,
         \A m \in DOMAIN pending_extra' :
           /\ OfPacket(pending_extra'[m], m)
           /\ InFront(pending_extra'[m], pending_extra'[m], FrameOrder)
           /\ HasSlot(m)' => InFront(result, pending_extra'[m], FrameOrder),
         \A m \in DOMAIN deferred' :
           /\ OfPacket(deferred'[m], m) /\ Ordered(deferred'[m], FrameOrder)
           /\ InFront(result, deferred'[m], FrameOrder)
           /\ InFront(pending_extra'[m], deferred'[m], FrameOrder),
         \A x \in Range(todo') : x.kind = "virtual" =>
           /\ x.marker \in DOMAIN pending_extra' => Behind(x, pending_extra'[x.marker])
           /\ x.marker \in DOMAIN deferred' => Behind(x, deferred'[x.marker])
  PROVE  SendInv'
<1>1. PICK new \in Seq(OutFrames) : new = << >>
  BY EmptySeq
<1>2. result' = result \o new /\ Ordered(new, FrameOrder) /\ InFront(result, new, FrameOrder)
  BY <1>1, ConcatEmptySeq, EmptyInFront DEF OutputInv
<1>3. \A q : InFront(new, q, FrameOrder)
  BY <1>1, EmptyInFront
<1>4. \A x : Behind(x, new)
  BY <1>1, EmptyInFront DEF Behind
<1>5. \A m \in DOMAIN pending_extra' :
        /\ OfPacket(pending_extra'[m], m)
        /\ InFront(pending_extra'[m], pending_extra'[m], FrameOrder)
        /\ HasSlot(m)' => /\ InFront(result, pending_extra'[m], FrameOrder)
                          /\ InFront(new, pending_extra'[m], FrameOrder)
  BY <1>3
<1>6. \A m \in DOMAIN deferred' :
        /\ OfPacket(deferred'[m], m) /\ Ordered(deferred'[m], FrameOrder)
        /\ InFront(result, deferred'[m], FrameOrder)
        /\ InFront(new, deferred'[m], FrameOrder)
        /\ InFront(pending_extra'[m], deferred'[m], FrameOrder)
  BY <1>3
<1>7. \A x \in Range(todo') : x.kind = "virtual" =>
        /\ Behind(x, new)
        /\ x.marker \in DOMAIN pending_extra' => Behind(x, pending_extra'[x.marker])
        /\ x.marker \in DOMAIN deferred' => Behind(x, deferred'[x.marker])
  BY <1>4
<1> QED BY <1>2, <1>5, <1>6, <1>7, SendGrows

LEMMA FrameKeepsOrder ==
  ASSUME GroupingInv, OutputInv, TodoInv, SendInv, EmitFrame
  PROVE  SendInv'
<1>1. /\ Take /\ Item.kind = "frame" /\ result' = Append(result, Item)
      /\ pending_extra' = pending_extra /\ deferred' = deferred
  BY DEF EmitFrame
<1>2. Item \in OutFrames /\ ~ Numbered(Item)
  BY <1>1, TakeFacts, ItemKinds DEF Sendable
<1>3. PICK new \in Seq(OutFrames) :
        new = <<Item>> /\ Range(new) = {Item} /\ Ordered(new, FrameOrder)
  BY <1>2, OneInFront
<1>4. result' = result \o new
  BY <1>1, <1>2, <1>3, AppendIsConcat DEF OutputInv
<1>5. ASSUME NEW q \in Seq(OutFrames)
      PROVE  InFront(q, new, FrameOrder) /\ InFront(new, q, FrameOrder)
  <2>1. \A f \in Range(q) : f \in Frames /\ Item \in Frames
    BY <1>2, OutFrameFacts DEF OutFrames
  <2>2. \A f \in Range(q) : <<f, Item>> \in FrameOrder /\ <<Item, f>> \in FrameOrder
    BY <1>2, <2>1 DEF FrameOrder
  <2> QED BY <1>3, <2>2 DEF InFront
<1>6. /\ \A m \in DOMAIN pending_extra : InFront(new, pending_extra[m], FrameOrder)
      /\ \A m \in DOMAIN deferred : InFront(new, deferred[m], FrameOrder)
      /\ InFront(result, new, FrameOrder)
  BY <1>5 DEF OutputInv
<1>7. \A m \in DOMAIN pending_extra' :
        /\ OfPacket(pending_extra'[m], m)
        /\ InFront(pending_extra'[m], pending_extra'[m], FrameOrder)
        /\ HasSlot(m)' => /\ InFront(result, pending_extra'[m], FrameOrder)
                          /\ InFront(new, pending_extra'[m], FrameOrder)
  BY <1>1, <1>6, TakeFacts DEF SendInv, PendingInOrder
<1>8. \A m \in DOMAIN deferred' :
        /\ OfPacket(deferred'[m], m) /\ Ordered(deferred'[m], FrameOrder)
        /\ InFront(result, deferred'[m], FrameOrder)
        /\ InFront(new, deferred'[m], FrameOrder)
        /\ InFront(pending_extra'[m], deferred'[m], FrameOrder)
  BY <1>1, <1>6 DEF SendInv, DeferredInOrder
<1>9. ASSUME NEW x \in Range(todo'), x.kind = "virtual"
      PROVE  /\ Behind(x, new)
             /\ x.marker \in DOMAIN pending_extra' => Behind(x, pending_extra'[x.marker])
             /\ x.marker \in DOMAIN deferred' => Behind(x, deferred'[x.marker])
  <2>1. ToCome(x)
    BY <1>1, <1>9, TakeFacts DEF SendInv
  <2> QED BY <1>1, <1>2, <1>3, <2>1 DEF ToCome, Behind
<1> QED BY <1>1, <1>3, <1>4, <1>6, <1>7, <1>8, <1>9, SendGrows

LEMMA FirstKeepsOrder ==
  ASSUME GroupingInv, OutputInv, TodoInv, SendInv, EmitFirst
  PROVE  SendInv'
<1>1. PICK item, parts :
        /\ item = Item /\ parts = Split(item) /\ item.kind = "virtual" /\ Take
        /\ item.marker \notin DOMAIN pending_extra
        /\ pending_extra' = With(pending_extra, item.marker, parts)
        /\ result' = Append(result, parts[1]) /\ deferred' = deferred
  BY DEF EmitFirst
<1>2. /\ item \in Pieces /\ item \in Range(todo)
      /\ \A y \in Range(todo') : <<item, y>> \in ItemOrder /\ y \in Range(todo)
  BY <1>1, TakeFacts, ItemKinds
<1>3. /\ parts \in Seq(OutFrames) /\ parts[1] \in OutFrames /\ parts[1] \in Range(parts)
      /\ OfPacket(parts, item.marker) /\ InFront(parts, parts, FrameOrder)
      /\ InFront(result, parts, FrameOrder)
  <2>1. ToCome(item)
    BY <1>1, <1>2 DEF SendInv
  <2>2. Behind(item, result) /\ result \in Seq(OutFrames)
    BY <2>1 DEF ToCome, OutputInv
  <2> QED BY <1>1, <1>2, <2>2, SplitFacts, PieceFacts, PieceInFront
<1>4. PICK new \in Seq(OutFrames) :
        new = <<parts[1]>> /\ Range(new) = {parts[1]} /\ Ordered(new, FrameOrder)
  BY <1>3, OneInFront
<1>5. result' = result \o new
  BY <1>1, <1>3, <1>4, AppendIsConcat DEF OutputInv
<1>6. /\ InFront(result, new, FrameOrder) /\ InFront(new, parts, FrameOrder)
      /\ OfPacket(new, item.marker)
  BY <1>3, <1>4 DEF InFront, OfPacket
<1>7. /\ DOMAIN pending_extra' = DOMAIN pending_extra \cup {item.marker}
      /\ pending_extra'[item.marker] = parts
      /\ \A m \in DOMAIN pending_extra : m # item.marker /\ pending_extra'[m] = pending_extra[m]
  BY <1>1 DEF With
<1>8. ASSUME NEW m \in DOMAIN pending_extra'
      PROVE  /\ OfPacket(pending_extra'[m], m)
             /\ InFront(pending_extra'[m], pending_extra'[m], FrameOrder)
             /\ HasSlot(m)' => /\ InFront(result, pending_extra'[m], FrameOrder)
                               /\ InFront(new, pending_extra'[m], FrameOrder)
  <2>1. CASE m = item.marker
    BY <1>3, <1>6, <1>7, <2>1
  <2>2. CASE m \in DOMAIN pending_extra
    <3>1. PendingInOrder(m) /\ pending_extra'[m] = pending_extra[m] /\ m # item.marker
          /\ pending_extra[m] \in Seq(OutFrames)
      BY <1>7, <2>2 DEF SendInv, OutputInv
    <3>2. InFront(new, pending_extra[m], FrameOrder)
      BY <1>6, <3>1, OthersInFront DEF PendingInOrder
    <3> QED BY <1>1, <3>1, <3>2, TakeFacts DEF PendingInOrder
  <2> QED BY <1>7, <2>1, <2>2
<1>9. ASSUME NEW m \in DOMAIN deferred'
      PROVE  /\ OfPacket(deferred'[m], m) /\ Ordered(deferred'[m], FrameOrder)
             /\ InFront(result, deferred'[m], FrameOrder)
             /\ InFront(new, deferred'[m], FrameOrder)
             /\ InFront(pending_extra'[m], deferred'[m], FrameOrder)
  <2>1. /\ m \in DOMAIN pending_extra /\ DeferredInOrder(m) /\ deferred'[m] = deferred[m]
        /\ deferred[m] \in Seq(OutFrames)
    BY <1>1 DEF SendInv, OutputInv
  <2>2. InFront(new, deferred[m], FrameOrder)
    BY <1>6, <1>7, <2>1, OthersInFront DEF DeferredInOrder
  <2> QED BY <1>7, <2>1, <2>2 DEF DeferredInOrder
<1>10. ASSUME NEW x \in Range(todo'), x.kind = "virtual"
       PROVE  /\ Behind(x, new)
              /\ x.marker \in DOMAIN pending_extra' => Behind(x, pending_extra'[x.marker])
              /\ x.marker \in DOMAIN deferred' => Behind(x, deferred'[x.marker])
  <2>1. ToCome(x)
    BY <1>2, <1>10 DEF SendInv
  <2>2. Behind(x, parts)
    BY <1>1, <1>2, <1>10, LaterIsBehind
  <2>3. Behind(x, new)
    BY <1>3, <1>4, <2>2 DEF Behind
  <2>4. x.marker \in DOMAIN pending_extra' => Behind(x, pending_extra'[x.marker])
    BY <1>7, <2>1, <2>2 DEF ToCome
  <2> QED BY <1>1, <2>1, <2>3, <2>4 DEF ToCome
<1> QED BY <1>1, <1>4, <1>5, <1>6, <1>8, <1>9, <1>10, SendGrows

LEMMA PieceKeepsOrder ==
  ASSUME GroupingInv, OutputInv, TodoInv, SendInv, DeferPiece
  PROVE  SendInv'
<1>1. PICK item, parts, waiting :
        /\ item = Item /\ parts = Split(item) /\ item.kind = "virtual" /\ Take
        /\ waiting = DeferredBehind(item.marker)
        /\ item.marker \in DOMAIN pending_extra
        /\ deferred' = With(deferred, item.marker, waiting \o parts)
        /\ result' = result /\ pending_extra' = pending_extra
  BY DEF DeferPiece, Queued
<1>2. /\ item \in Pieces /\ item \in Range(todo)
      /\ \A y \in Range(todo') : <<item, y>> \in ItemOrder /\ y \in Range(todo)
  BY <1>1, TakeFacts, ItemKinds
<1>3. ToCome(item)
  BY <1>1, <1>2 DEF SendInv
<1>4. PendingInOrder(item.marker) /\ pending_extra[item.marker] \in Seq(OutFrames)
      /\ result \in Seq(OutFrames)
  BY <1>1 DEF SendInv, OutputInv
<1>5. /\ waiting \in Seq(OutFrames) /\ OfPacket(waiting, item.marker)
      /\ Ordered(waiting, FrameOrder) /\ Behind(item, waiting)
      /\ InFront(result, waiting, FrameOrder)
      /\ InFront(pending_extra[item.marker], waiting, FrameOrder)
      /\ \A x \in Range(todo) : x.kind = "virtual" /\ x.marker = item.marker => Behind(x, waiting)
  <2>1. CASE item.marker \in DOMAIN deferred
    <3>1. waiting = deferred[item.marker] /\ DeferredInOrder(item.marker)
          /\ deferred[item.marker] \in Seq(OutFrames)
      BY <1>1, <2>1 DEF DeferredBehind, SendInv, OutputInv
    <3>2. \A x \in Range(todo) : x.kind = "virtual" /\ x.marker = item.marker => Behind(x, waiting)
      BY <2>1, <3>1 DEF SendInv, ToCome
    <3> QED BY <1>3, <2>1, <3>1, <3>2 DEF DeferredInOrder, ToCome
  <2>2. CASE item.marker \notin DOMAIN deferred
    <3>1. waiting = << >>
      BY <1>1, <2>2 DEF DeferredBehind
    <3>2. waiting \in Seq(OutFrames)
      BY <3>1, EmptySeq
    <3> QED BY <3>1, <3>2, EmptyInFront DEF OfPacket, Behind
  <2> QED BY <2>1, <2>2
<1>6. /\ parts \in Seq(OutFrames) /\ OfPacket(parts, item.marker) /\ Ordered(parts, FrameOrder)
      /\ InFront(result, parts, FrameOrder) /\ InFront(waiting, parts, FrameOrder)
      /\ InFront(pending_extra[item.marker], parts, FrameOrder)
  BY <1>1, <1>2, <1>3, <1>4, <1>5, SplitFacts, PieceFacts, PieceInFront DEF ToCome
<1>7. PICK line \in Seq(OutFrames) :
        /\ line = waiting \o parts /\ Range(line) = Range(waiting) \cup Range(parts)
        /\ Ordered(line, FrameOrder)
  <2>1. Ordered(waiting \o parts, FrameOrder)
    BY <1>5, <1>6, ConcatOrdered
  <2>2. /\ waiting \o parts \in Seq(OutFrames)
        /\ Range(waiting \o parts) = Range(waiting) \cup Range(parts)
    BY <1>5, <1>6, ConcatRange
  <2> QED BY <2>1, <2>2
<1>8. /\ OfPacket(line, item.marker) /\ InFront(result, line, FrameOrder)
      /\ InFront(pending_extra[item.marker], line, FrameOrder)
  BY <1>5, <1>6, <1>7 DEF OfPacket, InFront
<1>9. /\ DOMAIN deferred' = DOMAIN deferred \cup {item.marker}
      /\ deferred'[item.marker] = line
      /\ \A m \in DOMAIN deferred : m # item.marker => deferred'[m] = deferred[m]
  BY <1>1, <1>7 DEF With
<1>10. ASSUME NEW m \in DOMAIN deferred'
       PROVE  /\ OfPacket(deferred'[m], m) /\ Ordered(deferred'[m], FrameOrder)
              /\ InFront(result, deferred'[m], FrameOrder)
              /\ InFront(pending_extra'[m], deferred'[m], FrameOrder)
  <2>1. CASE m = item.marker
    BY <1>1, <1>7, <1>8, <1>9, <2>1
  <2>2. CASE m # item.marker
    <3>1. m \in DOMAIN deferred /\ deferred'[m] = deferred[m]
      BY <1>9, <2>2
    <3>2. DeferredInOrder(m)
      BY <3>1 DEF SendInv
    <3> QED BY <1>1, <3>1, <3>2 DEF DeferredInOrder
  <2> QED BY <2>1, <2>2
<1>11. ASSUME NEW x \in Range(todo'), x.kind = "virtual"
       PROVE  /\ x.marker \in DOMAIN pending_extra' => Behind(x, pending_extra'[x.marker])
              /\ x.marker \in DOMAIN deferred' => Behind(x, deferred'[x.marker])
  <2>1. ToCome(x) /\ x \in Range(todo)
    BY <1>2, <1>11 DEF SendInv
  <2>2. Behind(x, parts)
    BY <1>1, <1>2, <1>11, LaterIsBehind
  <2>3. x.marker = item.marker => Behind(x, line)
    BY <1>5, <1>7, <1>11, <2>1, <2>2 DEF Behind
  <2> QED BY <1>1, <1>9, <2>1, <2>3 DEF ToCome
<1>12. \A m \in DOMAIN pending_extra' :
         /\ OfPacket(pending_extra'[m], m)
         /\ InFront(pending_extra'[m], pending_extra'[m], FrameOrder)
         /\ HasSlot(m)' => InFront(result, pending_extra'[m], FrameOrder)
  BY <1>1, TakeFacts DEF SendInv, PendingInOrder
<1> QED BY <1>1, <1>10, <1>11, <1>12, SendWaits

LEMMA SkipKeepsOrder ==
  ASSUME GroupingInv, OutputInv, TodoInv, SendInv, SkipSlot
  PROVE  SendInv'
<1>1. /\ Take /\ result' = result /\ pending_extra' = pending_extra /\ deferred' = deferred
  BY DEF SkipSlot
<1>2. \A m \in DOMAIN pending_extra' :
        /\ OfPacket(pending_extra'[m], m)
        /\ InFront(pending_extra'[m], pending_extra'[m], FrameOrder)
        /\ HasSlot(m)' => InFront(result, pending_extra'[m], FrameOrder)
  BY <1>1, TakeFacts DEF SendInv, PendingInOrder
<1>3. \A m \in DOMAIN deferred' :
        /\ OfPacket(deferred'[m], m) /\ Ordered(deferred'[m], FrameOrder)
        /\ InFront(result, deferred'[m], FrameOrder)
        /\ InFront(pending_extra'[m], deferred'[m], FrameOrder)
  BY <1>1 DEF SendInv, DeferredInOrder
<1>4. \A x \in Range(todo') : x.kind = "virtual" =>
        /\ x.marker \in DOMAIN pending_extra' => Behind(x, pending_extra'[x.marker])
        /\ x.marker \in DOMAIN deferred' => Behind(x, deferred'[x.marker])
  BY <1>1, TakeFacts DEF SendInv, ToCome
<1> QED BY <1>1, <1>2, <1>3, <1>4, SendWaits

LEMMA SlotKeepsOrder ==
  ASSUME GroupingInv, OutputInv, TodoInv, SendInv, EmitSlot
  PROVE  SendInv'
<1>1. PICK item, parts, waiting, taken, following :
        /\ item = Item /\ parts = pending_extra[item.marker] /\ item.kind = "slot" /\ Take
        /\ item.marker \in DOMAIN pending_extra
        /\ taken = FragmentsFor(item) /\ waiting = DeferredBehind(item.marker)
        /\ following = IF IsLastSlot(item) THEN waiting ELSE << >>
        /\ result' = result \o taken \o following
        /\ deferred' = IF IsLastSlot(item) THEN Without(deferred, item.marker) ELSE deferred
        /\ pending_extra' = pending_extra
  BY DEF EmitSlot, FollowingLastSlot
<1>2. /\ item \in SlotItems /\ item \in Range(todo) /\ Sendable(item)
      /\ \A y \in Range(todo') : <<item, y>> \in ItemOrder /\ y \in Range(todo)
  BY <1>1, TakeFacts, ItemKinds
<1>3. /\ parts \in Seq(OutFrames) /\ OfPacket(parts, item.marker)
      /\ InFront(parts, parts, FrameOrder) /\ InFront(result, parts, FrameOrder)
      /\ result \in Seq(OutFrames)
  BY <1>1, <1>2 DEF SendInv, PendingInOrder, HasSlot, OutputInv
<1>4. taken \in Seq(OutFrames) /\ Range(taken) \subseteq Range(parts) /\ Ordered(taken, FrameOrder)
  BY <1>1, <1>2, <1>3, FragmentsForFacts, PartOrdered
<1>5. /\ waiting \in Seq(OutFrames) /\ OfPacket(waiting, item.marker)
      /\ Ordered(waiting, FrameOrder) /\ InFront(result, waiting, FrameOrder)
      /\ InFront(parts, waiting, FrameOrder)
      /\ \A x \in Range(todo) : x.kind = "virtual" /\ x.marker = item.marker => Behind(x, waiting)
  <2>1. CASE item.marker \in DOMAIN deferred
    <3>1. waiting = deferred[item.marker] /\ DeferredInOrder(item.marker)
          /\ deferred[item.marker] \in Seq(OutFrames)
      BY <1>1, <2>1 DEF DeferredBehind, SendInv, OutputInv
    <3>2. \A x \in Range(todo) : x.kind = "virtual" /\ x.marker = item.marker => Behind(x, waiting)
      BY <2>1, <3>1 DEF SendInv, ToCome
    <3> QED BY <1>1, <3>1, <3>2 DEF DeferredInOrder
  <2>2. CASE item.marker \notin DOMAIN deferred
    <3>1. waiting = << >>
      BY <1>1, <2>2 DEF DeferredBehind
    <3>2. waiting \in Seq(OutFrames)
      BY <3>1, EmptySeq
    <3> QED BY <3>1, <3>2, EmptyInFront DEF OfPacket, Behind
  <2> QED BY <2>1, <2>2
<1>6. /\ following \in Seq(OutFrames) /\ Range(following) \subseteq Range(waiting)
      /\ Ordered(following, FrameOrder)
      /\ ~ IsLastSlot(item) => Range(following) = {}
  BY <1>1, <1>5, EmptyInFront, EmptySeq
<1>7. PICK new \in Seq(OutFrames) :
        /\ new = taken \o following /\ Range(new) = Range(taken) \cup Range(following)
        /\ Ordered(new, FrameOrder)
  <2>1. InFront(taken, following, FrameOrder)
    BY <1>4, <1>5, <1>6 DEF InFront
  <2>2. Ordered(taken \o following, FrameOrder)
    BY <1>4, <1>6, <2>1, ConcatOrdered
  <2>3. /\ taken \o following \in Seq(OutFrames)
        /\ Range(taken \o following) = Range(taken) \cup Range(following)
    BY <1>4, <1>6, ConcatRange
  <2> QED BY <2>2, <2>3
<1>8. result' = result \o new
  <2>1. (result \o taken) \o following = result \o (taken \o following)
    <3>1. result \in Seq(OutFrames) /\ taken \in Seq(OutFrames) /\ following \in Seq(OutFrames)
      BY <1>3, <1>4, <1>6
    <3> QED BY <3>1, ConcatAssociative
  <2>2. result' = (result \o taken) \o following
    BY <1>1
  <2> QED BY <1>7, <2>1, <2>2
<1>9. InFront(result, new, FrameOrder) /\ OfPacket(new, item.marker)
  BY <1>3, <1>4, <1>5, <1>6, <1>7 DEF InFront, OfPacket
<1>10. ~ IsLastSlot(item) => InFront(new, parts, FrameOrder) /\ InFront(new, waiting, FrameOrder)
  BY <1>3, <1>4, <1>5, <1>6, <1>7 DEF InFront
<1>11. HasSlot(item.marker)' => ~ IsLastSlot(item)
  <2>1. SUFFICES ASSUME HasSlot(item.marker)', IsLastSlot(item) PROVE FALSE
    OBVIOUS
  <2>2. PICK x \in Range(todo') : x.kind = "slot" /\ x.marker = item.marker
    BY <2>1 DEF HasSlot
  <2>3. item.ordinal < x.ordinal /\ x \in Items /\ x \in SlotItems
    <3>1. <<item, x>> \in ItemOrder
      BY <1>2
    <3>2. x \in Items
      BY <3>1 DEF ItemOrder
    <3> QED BY <1>1, <2>2, <3>1, <3>2, ItemKinds DEF ItemOrder
  <2>4. x.ordinal < Len(records[item.marker].slots)
    BY <1>2, <2>2 DEF TodoInv, Sendable
  <2>5. item.ordinal = Len(records[item.marker].slots) - 1
    BY <1>1, <2>1 DEF IsLastSlot
  <2>6. PICK a \in Nat, b \in Nat : a = item.ordinal /\ b = x.ordinal
    BY <1>2, <2>3 DEF SlotItems, Slot
  <2>7. Len(records[item.marker].slots) \in Nat
    <3>1. item.marker \in DOMAIN records
      BY <1>2 DEF SlotItems, Slot
    <3>2. records[item.marker].slots \in Seq(Indices)
      BY <3>1 DEF GroupingInv, RecordInv, Record
    <3> QED BY <3>2, LenProperties
  <2> QED BY <2>3, <2>4, <2>5, <2>6, <2>7
<1>12. ASSUME NEW m \in DOMAIN pending_extra'
       PROVE  /\ OfPacket(pending_extra'[m], m)
              /\ InFront(pending_extra'[m], pending_extra'[m], FrameOrder)
              /\ HasSlot(m)' => /\ InFront(result, pending_extra'[m], FrameOrder)
                                /\ InFront(new, pending_extra'[m], FrameOrder)
  <2>1. PendingInOrder(m) /\ pending_extra'[m] = pending_extra[m]
        /\ pending_extra[m] \in Seq(OutFrames)
    BY <1>1, <1>12 DEF SendInv, OutputInv
  <2>2. HasSlot(m)' => InFront(new, pending_extra[m], FrameOrder)
    <3>1. CASE m = item.marker
      BY <1>1, <1>10, <1>11, <3>1
    <3>2. CASE m # item.marker
      BY <1>9, <2>1, <3>2, OthersInFront DEF PendingInOrder
    <3> QED BY <3>1, <3>2
  <2> QED BY <1>1, <2>1, <2>2, TakeFacts DEF PendingInOrder
<1>13. ASSUME NEW m \in DOMAIN deferred'
       PROVE  /\ OfPacket(deferred'[m], m) /\ Ordered(deferred'[m], FrameOrder)
              /\ InFront(result, deferred'[m], FrameOrder)
              /\ InFront(new, deferred'[m], FrameOrder)
              /\ InFront(pending_extra'[m], deferred'[m], FrameOrder)
  <2>1. m \in DOMAIN deferred /\ deferred'[m] = deferred[m] /\ (IsLastSlot(item) => m # item.marker)
    BY <1>1, <1>13 DEF Without
  <2>2. DeferredInOrder(m) /\ deferred[m] \in Seq(OutFrames)
    BY <2>1 DEF SendInv, OutputInv
  <2>3. InFront(new, deferred[m], FrameOrder)
    <3>1. CASE m = item.marker
      <4>1. ~ IsLastSlot(item) /\ waiting = deferred[m]
        BY <1>1, <2>1, <3>1 DEF DeferredBehind
      <4> QED BY <1>10, <4>1
    <3>2. CASE m # item.marker
      BY <1>9, <2>2, <3>2, OthersInFront DEF DeferredInOrder
    <3> QED BY <3>1, <3>2
  <2> QED BY <1>1, <2>1, <2>2, <2>3 DEF DeferredInOrder
<1>14. ASSUME NEW x \in Range(todo'), x.kind = "virtual"
       PROVE  /\ Behind(x, new)
              /\ x.marker \in DOMAIN pending_extra' => Behind(x, pending_extra'[x.marker])
              /\ x.marker \in DOMAIN deferred' => Behind(x, deferred'[x.marker])
  <2>1. ToCome(x) /\ x \in Range(todo)
    BY <1>2, <1>14 DEF SendInv
  <2>2. Behind(x, new)
    <3>1. x.marker = item.marker => Behind(x, parts) /\ Behind(x, waiting)
      BY <1>1, <1>5, <1>14, <2>1 DEF ToCome
    <3> QED BY <1>4, <1>6, <1>7, <1>9, <3>1 DEF Behind, OfPacket
  <2>3. \A m \in DOMAIN deferred' : m \in DOMAIN deferred /\ deferred'[m] = deferred[m]
    BY <1>1 DEF Without
  <2> QED BY <1>1, <2>1, <2>2, <2>3 DEF ToCome
<1> QED BY <1>1, <1>7, <1>8, <1>9, <1>12, <1>13, <1>14, SendGrows

\* What is deferred behind packets whose slots are gone comes at the end.
LEMMA EndKeepsOrder ==
  ASSUME GroupingInv, OutputInv, SendInv, EndRefragment
  PROVE  SendInv'
<1>1. PICK markers :
        /\ markers = Ascending(DOMAIN deferred)
        /\ result' = result \o FlattenSeq([n \in DOMAIN markers |-> deferred[markers[n]]])
        /\ todo = << >> /\ deferred' = << >> /\ todo' = todo
        /\ pending_extra' = pending_extra
  BY DEF EndRefragment
<1>2. IsFiniteSet(DOMAIN deferred) /\ DOMAIN deferred \subseteq Nat
  BY DeferredMarkers
<1>3. PICK count \in Nat :
        /\ markers \in [1 .. count -> DOMAIN deferred]
        /\ \A m, n \in 1 .. count : m < n => markers[m] < markers[n]
  BY <1>1, <1>2, AscendingFacts
<1>4. PICK parts : parts = [n \in 1 .. count |-> deferred[markers[n]]]
  OBVIOUS
<1>5. /\ parts \in [1 .. count -> Seq(OutFrames)] /\ DOMAIN parts = 1 .. count
      /\ result' = result \o FlattenSeq(parts)
  BY <1>1, <1>3, <1>4 DEF OutputInv
<1>6. parts \in Seq(Seq(OutFrames))
  BY <1>5, SeqDef
<1>7. ASSUME NEW n \in 1 .. count
      PROVE  /\ OfPacket(parts[n], markers[n]) /\ Ordered(parts[n], FrameOrder)
             /\ InFront(result, parts[n], FrameOrder) /\ parts[n] \in Seq(OutFrames)
  <2>1. markers[n] \in DOMAIN deferred /\ parts[n] = deferred[markers[n]]
    BY <1>3, <1>4
  <2> QED BY <1>5, <2>1 DEF SendInv, DeferredInOrder
<1>8. ASSUME NEW i \in 1 .. count, NEW j \in 1 .. count, i < j
      PROVE  InFront(parts[i], parts[j], FrameOrder)
  <2>1. markers[i] # markers[j]
    <3>1. markers[i] < markers[j] /\ markers[i] \in Nat /\ markers[j] \in Nat
      BY <1>2, <1>3, <1>8
    <3> QED BY <3>1
  <2> QED BY <1>7, <2>1, OthersInFront
<1>9. PICK flat \in Seq(OutFrames) :
        /\ flat = FlattenSeq(parts) /\ Ordered(flat, FrameOrder)
        /\ \A x \in Range(flat) : \E i \in 1 .. count : x \in Range(parts[i])
  <2>1. /\ FlattenSeq(parts) \in Seq(OutFrames) /\ Ordered(FlattenSeq(parts), FrameOrder)
        /\ \A x \in Range(FlattenSeq(parts)) : \E i \in 1 .. count : x \in Range(parts[i])
    BY <1>5, <1>6, <1>7, <1>8, FlattenedOrdered
  <2> QED BY <2>1
<1>10. InFront(result, flat, FrameOrder)
  BY <1>7, <1>9 DEF InFront
<1>11. Ordered(result', FrameOrder)
  BY <1>5, <1>9, <1>10, ConcatOrdered DEF SendInv, OutputInv
<1>12. FrameOrder' = FrameOrder /\ Ordered(result, FrameOrder)'
  BY <1>11 DEF FrameOrder, Frames, Numbered, Ordered
<1>13. DOMAIN deferred' = {} /\ Range(todo') = {}
  BY <1>1, EmptyInFront
<1>14. \A m \in DOMAIN pending_extra' : PendingInOrder(m)'
  <2>1. \A m : ~ HasSlot(m)'
    BY <1>13 DEF HasSlot, Range
  <2> QED BY <1>1, <1>12, <2>1 DEF SendInv, PendingInOrder, OfPacket, InFront
<1> QED BY <1>12, <1>13, <1>14 DEF SendInv, Range

LEMMA TodoOrderStep ==
  ASSUME GroupingInv, OutputInv, SlotOrderInv, TodoInv, [FragmentsNext]_fragmentsVars
  PROVE  TodoInv'
<1>1. CASE Rewrite
  <2>1. capture' = capture /\ packets' = packets /\ records' = records
    BY <1>1 DEF Rewrite
  <2>2. Items' = Items
    BY <2>1, OutputStands
  <2>3. Ordered(todo', ItemOrder) /\ \A x \in Range(todo') : Sendable(x)
    BY <1>1, RewriteOrders
  <2> QED BY <2>1, <2>2, <2>3 DEF TodoInv, Ordered, ItemOrder, Sendable, Numbered, Range
<1>2. CASE Take /\ (EmitFrame \/ EmitFirst \/ DeferPiece \/ SkipSlot \/ EmitSlot)
  <2>1. capture' = capture /\ packets' = packets /\ records' = records
    BY <1>2 DEF EmitFrame, EmitFirst, DeferPiece, SkipSlot, EmitSlot, KeepRest
  <2>2. Items' = Items
    BY <2>1, OutputStands
  <2>3. Ordered(todo', ItemOrder) /\ \A x \in Range(todo') : Sendable(x)
    BY <1>2, TakeFacts DEF TodoInv
  <2> QED BY <2>1, <2>2, <2>3 DEF TodoInv, Ordered, ItemOrder, Sendable, Numbered, Range
<1>3. CASE stage \in {"reassemble", "rewrite"} /\ todo' = todo
  <2>1. todo' = << >>
    BY <1>3 DEF OutputInv
  <2>2. DOMAIN todo' = {}
    BY <2>1
  <2> QED BY <2>2 DEF TodoInv, Ordered, Range
<1>4. CASE EndRefragment
  <2>1. todo' = << >>
    BY <1>4 DEF EndRefragment
  <2>2. DOMAIN todo' = {}
    BY <2>1
  <2> QED BY <2>2 DEF TodoInv, Ordered, Range
<1>5. CASE UNCHANGED fragmentsVars
  <2>1. /\ capture' = capture /\ packets' = packets /\ records' = records /\ todo' = todo
    BY <1>5 DEF fragmentsVars
  <2>2. Items' = Items
    BY <2>1, OutputStands
  <2> QED BY <2>1, <2>2 DEF TodoInv, Ordered, ItemOrder, Sendable, Numbered, Range
<1>6. CASE \/ PassPacket \/ DropDuplicate \/ BlockKey \/ CollectFragment \/ RejectGroup
           \/ CompleteGroup \/ EndReassemble
  BY <1>3, <1>6 DEF PassPacket, DropDuplicate, BlockKey, CollectFragment, RejectGroup,
                    CompleteGroup, EndReassemble, Visit, Leave
<1>7. EmitFrame \/ EmitFirst \/ DeferPiece \/ SkipSlot \/ EmitSlot => Take
  BY DEF EmitFrame, EmitFirst, DeferPiece, SkipSlot, EmitSlot
<1> QED BY <1>1, <1>2, <1>4, <1>5, <1>6, <1>7 DEF FragmentsNext

LEMMA SendOrderStep ==
  ASSUME GroupingInv, OutputInv, TodoInv, SendInv, [FragmentsNext]_fragmentsVars
  PROVE  SendInv'
<1>1. CASE stage \in {"reassemble", "rewrite"} /\ UNCHANGED <<pending_extra, deferred, result>>
  <2>1. pending_extra' = << >> /\ deferred' = << >> /\ result' = << >>
    BY <1>1 DEF OutputInv
  <2>2. DOMAIN pending_extra' = {} /\ DOMAIN deferred' = {} /\ DOMAIN result' = {}
    BY <2>1
  <2> QED BY <2>2 DEF SendInv, ToCome, Behind, Ordered, Range
<1>2. CASE UNCHANGED fragmentsVars
  <2>1. pending_extra' = pending_extra /\ deferred' = deferred /\ result' = result
        /\ todo' = todo
    BY <1>2 DEF fragmentsVars
  <2>2. FrameOrder' = FrameOrder
    BY DEF FrameOrder, Frames, Numbered
  <2>3. \A m \in DOMAIN pending_extra : PendingInOrder(m)'
    BY <2>1, <2>2 DEF SendInv, PendingInOrder, OfPacket, HasSlot, InFront, Range
  <2>4. \A m \in DOMAIN deferred : DeferredInOrder(m)'
    BY <2>1, <2>2 DEF SendInv, DeferredInOrder, OfPacket, InFront, Ordered, Range
  <2>5. \A x \in Range(todo) : x.kind = "virtual" => ToCome(x)'
    BY <2>1 DEF SendInv, ToCome, Behind, Numbered, Range
  <2>6. Ordered(result, FrameOrder)'
    BY <2>1, <2>2 DEF SendInv, Ordered
  <2> QED BY <2>1, <2>3, <2>4, <2>5, <2>6 DEF SendInv, Range
<1>3. CASE \/ PassPacket \/ DropDuplicate \/ BlockKey \/ CollectFragment \/ RejectGroup
           \/ CompleteGroup \/ EndReassemble \/ Rewrite
  BY <1>1, <1>3 DEF PassPacket, DropDuplicate, BlockKey, CollectFragment, RejectGroup,
                    CompleteGroup, EndReassemble, Visit, Leave, Rewrite
<1> QED BY <1>2, <1>3, FrameKeepsOrder, FirstKeepsOrder, PieceKeepsOrder, SkipKeepsOrder,
           SlotKeepsOrder, EndKeepsOrder DEF FragmentsNext

LEMMA NothingIsOrdered ==
  ASSUME GroupingInv, FragmentsInit
  PROVE  SlotOrderInv /\ TodoInv /\ SendInv
<1>1. /\ packets = capture /\ active = << >> /\ records = << >>
      /\ todo = << >> /\ pending_extra = << >> /\ deferred = << >> /\ result = << >>
  BY DEF FragmentsInit
<1>2. DOMAIN << >> = {}
  OBVIOUS
<1>3. SlotOrderInv
  BY <1>1, <1>2 DEF SlotOrderInv
<1> QED BY <1>1, <1>2, <1>3 DEF TodoInv, SendInv, Ordered, Range

LEMMA OrderFollows ==
  ASSUME OutputInv, SendInv
  PROVE  ClonesFollowInOrder
<1>1. SUFFICES ASSUME NEW i \in DOMAIN result, NEW j \in DOMAIN result,
                      result[i].key.proto # "other", result[j].key.proto # "other",
                      result[i].of[1] = result[j].of[1], 1 <= result[i].of[2],
                      result[i].of[2] < result[j].of[2]
               PROVE  i < j
  BY DEF ClonesFollowInOrder
<1>2. i \in Nat /\ j \in Nat /\ result \in Seq(OutFrames)
  <2>1. result \in Seq(OutFrames)
    BY DEF OutputInv
  <2>2. DOMAIN result = 1 .. Len(result) /\ Len(result) \in Nat
    BY <2>1, LenProperties
  <2> QED BY <2>1, <2>2
<1>3. result[i].of[2] \in Nat /\ result[j].of[2] \in Nat
  <2>1. result[i] \in Range(result) /\ result[j] \in Range(result)
    BY DEF Range
  <2> QED BY <1>2, <2>1, OutFrameFacts
<1>4. i # j
  BY <1>1, <1>3
<1>5. ~ (j < i)
  <2>1. SUFFICES ASSUME j < i PROVE FALSE
    OBVIOUS
  <2>2. <<result[j], result[i]>> \in FrameOrder
    BY <2>1 DEF SendInv, Ordered
  <2>3. 1 <= result[j].of[2]
    BY <1>1, <1>3
  <2>4. Numbered(result[i]) /\ Numbered(result[j])
    BY <1>1, <2>3 DEF Numbered
  <2>5. result[j].of[2] <= result[i].of[2]
    BY <1>1, <2>2, <2>4 DEF FrameOrder
  <2> QED BY <1>1, <1>3, <2>5
<1> QED BY <1>2, <1>4, <1>5

-----------------------------------------------------------------------------
(***************************************************************************)
(* The theorems.                                                           *)
(***************************************************************************)
LEMMA ReassemblyInit ==
  ASSUME FragmentsInit
  PROVE  GroupingInv
<1>1. /\ capture \in Files /\ packets = capture /\ stage = "reassemble" /\ index = 1
      /\ active = << >> /\ completed = << >> /\ records = << >>
  BY DEF FragmentsInit
<1>2. DOMAIN << >> = {}
  OBVIOUS
<1>3. VisitInv
  <2>1. Len(capture) \in Nat
    BY <1>1, IndicesFacts
  <2>2. DOMAIN packets = Indices /\ \A i \in Indices : Untouched(i)
    BY <1>1 DEF Indices, Untouched
  <2>3. index \in 1 .. Len(capture) + 1
    BY <1>1, <2>1
  <2> QED BY <1>1, <2>2, <2>3 DEF VisitInv
<1>4. GroupInv
  BY <1>1, <1>2 DEF GroupInv
<1>5. RecordInv
  <2>1. \A i \in Indices : Untouched(i)
    BY <1>1 DEF Untouched
  <2> QED BY <1>1, <1>2, <2>1 DEF RecordInv
<1> QED BY <1>3, <1>4, <1>5 DEF GroupingInv

\* What holds of records and dropped packets holds before there are any.
LEMMA NothingYet ==
  ASSUME FragmentsInit
  PROVE  DatagramsAreWhole /\ CompletedInv /\ DropsAreRepeats /\ OldInv
<1>1. /\ capture \in Files /\ packets = capture /\ index = 1
      /\ completed = << >> /\ records = << >>
  BY DEF FragmentsInit
<1>2. DOMAIN << >> = {}
  OBVIOUS
<1>3. DropsAreRepeats
  <2>1. ASSUME NEW i \in Indices PROVE packets[i] # Gone
    <3>1. packets[i].kind = "frame"
      BY <1>1, FrameFacts
    <3>2. Gone.kind = "gone"
      BY DEF Gone
    <3> QED BY <3>1, <3>2
  <2> QED BY <2>1 DEF DropsAreRepeats
<1>4. \A i \in Indices : ~ i < index
  <2>1. Indices = 1 .. Len(capture) /\ Len(capture) \in Nat
    BY <1>1, IndicesFacts
  <2> QED BY <1>1, <2>1
<1>5. OldInv
  BY <1>1, <1>2, <1>4 DEF OldInv, LeftInv, NothingLeftInv, KnownInv
<1> QED BY <1>1, <1>2, <1>3, <1>5 DEF DatagramsAreWhole, CompletedInv

LEMMA TypeFollows ==
  ASSUME GroupingInv, OutputInv
  PROVE  FragmentsTypeOK
<1>1. \A key \in DOMAIN active : active[key] \in Seq(1 .. index - 1)
  <2>1. SUFFICES ASSUME NEW key \in DOMAIN active
                 PROVE  active[key] \in Seq(1 .. index - 1)
    OBVIOUS
  <2>2. PICK group \in Seq(Indices) :
          group = active[key] /\ \A i \in Range(group) : i < index
    BY DEF GroupingInv, GroupInv
  <2>3. Indices = 1 .. Len(capture) /\ Len(capture) \in Nat /\ index \in Nat
    BY IndicesFacts DEF GroupingInv, VisitInv
  <2>4. group \in [1 .. Len(group) -> Indices] /\ Len(group) \in Nat
    BY LenProperties
  <2>5. ASSUME NEW n \in 1 .. Len(group) PROVE group[n] \in 1 .. index - 1
    <3>1. PICK i : i = group[n]
      OBVIOUS
    <3>2. i \in Indices /\ i \in Range(group)
      BY <2>4, <3>1 DEF Range
    <3>3. i < index
      BY <2>2, <3>2
    <3>4. i \in 1 .. index - 1
      BY <2>3, <3>2, <3>3
    <3> QED BY <3>1, <3>4
  <2>6. group \in [1 .. Len(group) -> 1 .. index - 1]
    BY <2>4, <2>5
  <2>7. group \in Seq(1 .. index - 1)
    <3>1. PICK len \in Nat : len = Len(group)
      BY <2>4
    <3>2. PICK S : S = 1 .. index - 1
      OBVIOUS
    <3>3. group \in [1 .. len -> S]
      BY <2>6, <3>1, <3>2
    <3>4. group \in Seq(S)
      BY <3>3, SeqDef
    <3> QED BY <3>2, <3>4
  <2> QED BY <2>2, <2>7
<1>2. \A m \in DOMAIN records : packets[m].kind = "virtual" /\ packets[m].marker = m
  <2>1. SUFFICES ASSUME NEW m \in DOMAIN records
                 PROVE  packets[m].kind = "virtual" /\ packets[m].marker = m
    OBVIOUS
  <2>2. packets[m] = Virtual(m, Frame(m).key, packets[m].data)
    BY DEF GroupingInv, RecordInv, Record
  <2> QED BY <2>2 DEF Virtual
<1>3. result \in Seq(Frames)
  <2>1. OutFrames \subseteq Frames
    BY DEF OutFrames
  <2>2. result \in [1 .. Len(result) -> OutFrames] /\ Len(result) \in Nat
    BY LenProperties DEF OutputInv
  <2>3. result \in [1 .. Len(result) -> Frames]
    BY <2>1, <2>2
  <2> QED BY <2>2, <2>3, SeqDef
<1> QED BY <1>1, <1>2, <1>3
        DEF FragmentsTypeOK, GroupingInv, VisitInv, GroupInv, RecordInv, OutputInv

LEMMA NoOldFollows ==
  ASSUME GroupingInv, OutputInv, NothingLeftInv
  PROVE  NoOldFragments
<1>1. SUFFICES ASSUME NEW f \in Range(result), f.of[2] = 0, NEW m \in DOMAIN records,
                      Frame(m).of = f.of
               PROVE  FALSE
  BY DEF NoOldFragments
<1>2. result \in [1 .. Len(result) -> OutFrames] /\ Len(result) \in Nat
  BY LenProperties DEF OutputInv
<1>3. f \in OutFrames /\ result # << >>
  <2>1. PICK n \in DOMAIN result : f = result[n]
    BY DEF Range
  <2> QED BY <1>2, <2>1
<1>4. PICK i \in Indices : Untouched(i) /\ f = Frame(i)
  BY <1>1, <1>3 DEF OutFrames
<1>5. i < index
  <2>1. stage # "reassemble"
    BY <1>3 DEF OutputInv
  <2>2. /\ Indices = 1 .. Len(capture) /\ Len(capture) \in Nat
        /\ index \in 1 .. Len(capture) + 1 /\ index \notin Indices
    BY <2>1, IndicesFacts DEF GroupingInv, VisitInv
  <2> QED BY <2>2
<1> QED BY <1>1, <1>4, <1>5 DEF NothingLeftInv

LEMMA ReassemblyHolds == FragmentsSpec => []GroupingInv
<1>1. FragmentsInit => GroupingInv
  BY ReassemblyInit
<1>2. GroupingInv /\ [FragmentsNext]_fragmentsVars => GroupingInv'
  BY ReassemblyStep
<1> QED BY <1>1, <1>2, PTL DEF FragmentsSpec

LEMMA OutputHolds == FragmentsSpec => []OutputInv
<1>1. GroupingInv /\ FragmentsInit => OutputInv
  BY OutputInit
<1>2. GroupingInv /\ OutputInv /\ [FragmentsNext]_fragmentsVars => OutputInv'
  BY OutputStep
<1> QED BY <1>1, <1>2, ReassemblyHolds, PTL DEF FragmentsSpec

\* The fragments in hand, the records and what waits for slots fit together in
\* every state, whatever was captured.
THEOREM FragmentsTypeCorrect == FragmentsSpec => []FragmentsTypeOK
<1>1. GroupingInv /\ OutputInv => FragmentsTypeOK
  BY TypeFollows
<1> QED BY <1>1, ReassemblyHolds, OutputHolds, PTL

\* No packet is made up: what reassemble puts in the place of fragments is one of
\* the datagrams that were sent, if no fragments of another datagram wait under the
\* key of a fragment when it is visited.
THEOREM PacketsAreDatagrams == FragmentsSpec /\ []KeysAreFree => []FragmentInv
<1>1. FragmentsInit => DatagramsAreWhole
  BY NothingYet
<1>2. GroupingInv /\ DatagramsAreWhole /\ KeysAreFree /\ [FragmentsNext]_fragmentsVars
        => DatagramsAreWhole'
  BY WholeStep
<1>3. FragmentsTypeOK /\ DatagramsAreWhole => FragmentInv
  BY DEF FragmentInv
<1> QED BY <1>1, <1>2, <1>3, ReassemblyHolds, FragmentsTypeCorrect, PTL DEF FragmentsSpec

LEMMA CaptureStays ==
  ASSUME GroupingInv, [FragmentsNext]_fragmentsVars
  PROVE  /\ TellsApart => TellsApart'
         /\ OneCut => OneCut'
         /\ KeysChangeHands => KeysChangeHands'
<1>1. capture' = capture
  BY RecordsGrow
<1> QED BY <1>1 DEF TellsApart, OneCut, KeysChangeHands, Indices, Frame, EndOf, IsFragment

\* reassemble leaves out a fragment only if the same fragment of the same datagram
\* has a slot of a packet, in every capture in which equal fragments with equal keys
\* are of the same datagram.
THEOREM DroppedFragmentsAreRepeats == FragmentsSpec /\ TellsApart => []DropsAreRepeats
<1>1. FragmentsInit => CompletedInv /\ DropsAreRepeats
  BY NothingYet
<1>2. GroupingInv /\ CompletedInv /\ [FragmentsNext]_fragmentsVars => CompletedInv'
  BY CompletedStep
<1>3. GroupingInv /\ TellsApart /\ [FragmentsNext]_fragmentsVars => TellsApart'
  BY CaptureStays
<1>4. GroupingInv /\ CompletedInv /\ TellsApart /\ DropsAreRepeats
        /\ [FragmentsNext]_fragmentsVars => DropsAreRepeats'
  BY DropsStep
<1> QED BY <1>1, <1>2, <1>3, <1>4, ReassemblyHolds, PTL DEF FragmentsSpec

\* No fragment of a datagram that became a packet is written as it was captured,
\* where it would show the old address: every fragment before the datagram was
\* complete is in its packet, and every one behind is dropped as a copy.
THEOREM NoOldFragmentsAreWritten ==
  FragmentsSpec /\ []KeysAreFree /\ OneCut /\ KeysChangeHands => []NoOldFragments
<1>1. FragmentsInit => OldInv
  BY NothingYet
<1>2. GroupingInv /\ [FragmentsNext]_fragmentsVars /\ OneCut /\ KeysChangeHands
        => OneCut' /\ KeysChangeHands'
  BY CaptureStays
<1>3. GroupingInv /\ OldInv /\ KeysAreFree /\ OneCut /\ KeysChangeHands
        /\ [FragmentsNext]_fragmentsVars => OldInv'
  BY LeftStep, NothingLeftStep, KnownStep DEF OldInv
<1>4. GroupingInv /\ OutputInv /\ OldInv => NoOldFragments
  BY NoOldFollows DEF OldInv
<1> QED BY <1>1, <1>2, <1>3, <1>4, ReassemblyHolds, OutputHolds, PTL DEF FragmentsSpec

\* Every datagram has a key of its own: no IP id is used twice.
OneDatagramPerKey ==
  \A i, j \in Indices : Frame(i).key = Frame(j).key => Frame(i).of = Frame(j).of

LEMMA KeysOfTheirOwn ==
  ASSUME GroupingInv, OneDatagramPerKey
  PROVE  KeysAreFree /\ TellsApart /\ KeysChangeHands
<1>1. KeysAreFree
  <2>1. SUFFICES ASSUME index \in Indices, NEW i \in Range(GroupOf(Frame(index).key))
                 PROVE  Frame(i).of = Frame(index).of
    BY DEF KeysAreFree
  <2>2. i \in Indices /\ Frame(i).key = Frame(index).key
    BY <2>1, JoinedFacts
  <2> QED BY <2>1, <2>2 DEF OneDatagramPerKey
<1>2. TellsApart
  BY DEF TellsApart, OneDatagramPerKey
<1>3. KeysChangeHands
  BY DEF KeysChangeHands, OneDatagramPerKey
<1> QED BY <1>1, <1>2, <1>3

\* A capture that uses no IP id twice: no packet is made up, what is left out is a
\* repeat and, if a datagram is cut in one way, no old fragment reaches the file,
\* whatever comes out of order, repeatedly or not at all.
THEOREM DistinctKeysSuffice ==
  FragmentsSpec /\ OneDatagramPerKey =>
    [](FragmentInv /\ DropsAreRepeats) /\ (OneCut => []NoOldFragments)
<1>1. GroupingInv /\ OneDatagramPerKey => KeysAreFree /\ TellsApart /\ KeysChangeHands
  BY KeysOfTheirOwn
<1>2. GroupingInv /\ OneDatagramPerKey /\ [FragmentsNext]_fragmentsVars => OneDatagramPerKey'
  <2>1. GroupingInv /\ [FragmentsNext]_fragmentsVars => capture' = capture
    BY RecordsGrow
  <2> QED BY <2>1 DEF OneDatagramPerKey, Indices, Frame
<1> QED BY <1>1, <1>2, ReassemblyHolds, PacketsAreDatagrams, DroppedFragmentsAreRepeats,
           NoOldFragmentsAreWritten, PTL DEF FragmentsSpec

\* What re-segmentation puts behind a packet is sent behind it and in that order,
\* whatever was captured and whatever becomes of the packets: the fragments of a
\* clone never overtake those of the packet before, although they have no slots.
THEOREM ClonesKeepTheirOrder == FragmentsSpec => []ClonesFollowInOrder
<1>1. GroupingInv /\ FragmentsInit => SlotOrderInv /\ TodoInv /\ SendInv
  BY NothingIsOrdered
<1>2. GroupingInv /\ SlotOrderInv /\ [FragmentsNext]_fragmentsVars => SlotOrderInv'
  BY SlotOrderStep
<1>3. GroupingInv /\ OutputInv /\ SlotOrderInv /\ TodoInv /\ [FragmentsNext]_fragmentsVars
        => TodoInv'
  BY TodoOrderStep
<1>4. GroupingInv /\ OutputInv /\ TodoInv /\ SendInv /\ [FragmentsNext]_fragmentsVars => SendInv'
  BY SendOrderStep
<1>5. OutputInv /\ SendInv => ClonesFollowInOrder
  BY OrderFollows
<1> QED BY <1>1, <1>2, <1>3, <1>4, <1>5, ReassemblyHolds, OutputHolds, PTL DEF FragmentsSpec

=============================================================================
