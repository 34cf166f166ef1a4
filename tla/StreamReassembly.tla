-------------------------- MODULE StreamReassembly --------------------------
(***************************************************************************)
(* build_stream_state (src/core/flow.py): the payloads that one direction  *)
(* of a TCP connection left in the capture, in capture order, become one   *)
(* byte stream.  The loop that searches the base sequence number takes one *)
(* step per payload; the loop over the sorted payloads takes one step per  *)
(* payload, its inner loop over the bytes included.                        *)
(*                                                                         *)
(* Sequence numbers live on a ring and packets are captured late, twice    *)
(* and with differing bytes, so neither "first" nor "the byte at offset p" *)
(* is obvious.                                                             *)
(***************************************************************************)
EXTENDS SeqSpace, Sequences, FiniteSets

CONSTANTS
  Bytes,      \* the values of payload bytes
  Hole,       \* a byte of the buffer whose mark in "filled" is 0
  Captures    \* the payload lists to reassemble: sequences of Payload records

Payload == [seq : SeqNumbers, payload : Seq(Bytes) \ {<< >>}]

ASSUME HoleAssumption == Hole \notin Bytes
ASSUME CapturesAssumption == Captures \subseteq Seq(Payload) \ {<< >>}

VARIABLES
  payloads,   \* the input; payloads[k] is the k-th packet with data
  phase,      \* "base", then "fill", then "done"
  next,       \* the payload the base search looks at next
  base_seq,
  pending,    \* payloads that have an offset and are not yet written
  size,       \* length of the two buffers
  stream,     \* position -> byte or Hole (the buffers stream and filled)
  segments,   \* written payload -> SegmentMeta
  conflicts

vars == <<payloads, phase, next, base_seq, pending, size, stream, segments,
          conflicts>>

Init ==
  /\ payloads \in Captures
  /\ phase = "base"
  /\ next = 1
  /\ base_seq = payloads[1].seq
  /\ pending = {}
  /\ size = 0
  /\ stream = [pos \in 0 .. -1 |-> Hole]
  /\ segments = [k \in {} |-> Hole]
  /\ conflicts = 0

Packets == 1 .. Len(payloads)

Size(k) == Len(payloads[k].payload)

Offset(k) == SeqOffset(payloads[k].seq, base_seq)

-----------------------------------------------------------------------------
\* seq is not behind the base found so far.
IsEarlierNumerically(seq) == seq <= base_seq

IsEarlier(seq) == SeqSub(base_seq, seq) < SeqHalf

\* One round of "for _, seq, _ in payloads": keep the earlier number.
ScanBase ==
  /\ phase = "base" /\ next \in Packets
  /\ base_seq' = IF IsEarlier(payloads[next].seq) THEN payloads[next].seq ELSE base_seq
  /\ next' = next + 1
  /\ UNCHANGED <<payloads, phase, pending, size, stream, segments, conflicts>>

\* Payloads half a ring ahead of the base have no offset and are left out.
StartFill ==
  /\ phase = "base" /\ next \notin Packets
  /\ phase' = "fill"
  /\ pending' = {k \in Packets : Offset(k) # NoOffset}
  /\ UNCHANGED <<payloads, next, base_seq, size, stream, segments, conflicts>>

(***************************************************************************)
(* The order of ordered.sort(): by offset, the longer payload first, then  *)
(* the earlier packet.                                                     *)
(***************************************************************************)
BeforeShortFirst(k, m) ==
  \/ Offset(k) < Offset(m)
  \/ Offset(k) = Offset(m) /\ Size(k) < Size(m)
  \/ Offset(k) = Offset(m) /\ Size(k) = Size(m) /\ k < m

Before(k, m) ==
  \/ Offset(k) < Offset(m)
  \/ Offset(k) = Offset(m) /\ Size(k) > Size(m)
  \/ Offset(k) = Offset(m) /\ Size(k) = Size(m) /\ k < m

Span(k) == Offset(k) .. Offset(k) + Size(k) - 1

ByteAt(k, pos) == payloads[k].payload[pos - Offset(k) + 1]

AllOf(k) == Span(k)

\* The positions that payload k is the first to write.
Fresh(k) == {pos \in Span(k) : pos >= size \/ stream[pos] = Hole}

EnsuredSize(k) ==
  IF size < Offset(k) + Size(k) THEN Offset(k) + Size(k) ELSE size

\* The buffer after payload k: ensure() adds holes, only fresh positions are set.
Written(k) ==
  [pos \in 0 .. EnsuredSize(k) - 1 |->
     IF pos \in Fresh(k) THEN ByteAt(k, pos)
     ELSE IF pos < size THEN stream[pos] ELSE Hole]

Conflicting(k) == {pos \in Span(k) \ Fresh(k) : stream[pos] # ByteAt(k, pos)}

PrimaryIfAhead(k) == Offset(k) >= size

IsPrimary(k) == Fresh(k) # {}

WholeLength(k) == Size(k)

Contribution(k) == Cardinality(Fresh(k))

Meta(k) ==
  [seq |-> payloads[k].seq,
   old_start |-> Offset(k),
   old_end |-> Offset(k) + Size(k),
   primary |-> IsPrimary(k),
   contributed |-> Contribution(k)]

\* One round of the loop over the sorted payloads.
WriteSegment ==
  /\ phase = "fill"
  /\ \E k \in pending :
       /\ \A m \in pending \ {k} : Before(k, m)
       /\ size' = EnsuredSize(k)
       /\ stream' = Written(k)
       /\ segments' = [m \in DOMAIN segments \cup {k} |->
                         IF m = k THEN Meta(k) ELSE segments[m]]
       /\ conflicts' = conflicts + Cardinality(Conflicting(k))
       /\ pending' = pending \ {k}
  /\ UNCHANGED <<payloads, phase, next, base_seq>>

Finish ==
  /\ phase = "fill" /\ pending = {}
  /\ phase' = "done"
  /\ UNCHANGED <<payloads, next, base_seq, pending, size, stream, segments, conflicts>>

Next == ScanBase \/ StartFill \/ WriteSegment \/ Finish

Spec == Init /\ [][Next]_vars

Holes == {pos \in 0 .. size - 1 : stream[pos] = Hole}

-----------------------------------------------------------------------------
\* The buffer has a byte or a hole at every position below its size.
TypeOK ==
  /\ payloads \in Captures
  /\ phase \in {"base", "fill", "done"}
  /\ next \in 1 .. Len(payloads) + 1
  /\ base_seq \in SeqNumbers
  /\ pending \subseteq Packets
  /\ size \in Nat
  /\ stream \in [0 .. size - 1 -> Bytes \cup {Hole}]
  /\ DOMAIN segments \subseteq Packets
  /\ conflicts \in Nat

(***************************************************************************)
(* The base is the earliest byte of the capture, in whatever order the     *)
(* packets were captured and wherever the numbers wrap around: when all    *)
(* sequence numbers lie in one half of the ring, every payload has an      *)
(* offset, so no packet is left out of the stream (flow.py:188-192).       *)
(***************************************************************************)
InHalfRingOf(anchor) == \A k \in Packets : SeqSub(payloads[k].seq, anchor) < SeqHalf

BaseIsEarliest ==
  ((\E anchor \in SeqNumbers : InHalfRingOf(anchor)) /\ phase # "base")
    => \A k \in Packets : Offset(k) # NoOffset

(***************************************************************************)
(* The byte at every position is that of the covering payload that starts  *)
(* earliest, of those the longest, of those the one captured first; a      *)
(* position nobody covers stays a hole.  The short odd retransmission at   *)
(* the same sequence number therefore never hides the real payload         *)
(* (flow.py:206), and when the bytes agree the stream does not depend on   *)
(* the order of capture.                                                   *)
(***************************************************************************)
Covering(pos) == {k \in DOMAIN segments : pos \in Span(k)}

ByteIsOfFirst(pos) ==
  \/ Covering(pos) = {} /\ stream[pos] = Hole
  \/ \E k \in Covering(pos) :
       /\ stream[pos] = ByteAt(k, pos)
       /\ \A m \in Covering(pos) :
            /\ Offset(k) <= Offset(m)
            /\ Offset(k) = Offset(m) => Size(k) >= Size(m)
            /\ (Offset(k) = Offset(m) /\ Size(k) = Size(m)) => k <= m

FirstPayloadWins == phase = "done" => \A pos \in 0 .. size - 1 : ByteIsOfFirst(pos)

(***************************************************************************)
(* The primary segments, the only ones that carry the rewritten stream     *)
(* back into packets, cover exactly the bytes that were seen.              *)
(***************************************************************************)
Primaries == {k \in DOMAIN segments : segments[k].primary}

PrimariesCoverStream ==
  phase = "done" => UNION {Span(k) : k \in Primaries} = (0 .. size - 1) \ Holes

(***************************************************************************)
(* Every byte that was seen is contributed by one segment only: the        *)
(* contributions of the segments, counted in pairs of a segment and a      *)
(* number, are as many as the bytes of the stream.                         *)
(***************************************************************************)
Contributions == UNION {{k} \X (1 .. segments[k].contributed) : k \in DOMAIN segments}

EachByteCountsOnce == Cardinality(Contributions) = Cardinality((0 .. size - 1) \ Holes)

(***************************************************************************)
(* The conflict counter is reliable: it is zero exactly when all payloads  *)
(* agree on the bytes they share (README, stream reassembly: a repetition  *)
(* with equal bytes is ignored, with other bytes it counts).               *)
(***************************************************************************)
Agree(k, m) == \A pos \in Span(k) \cap Span(m) : ByteAt(k, pos) = ByteAt(m, pos)

ConflictsAreSeen ==
  phase = "done" =>
    (conflicts = 0 <=> \A k, m \in DOMAIN segments : Agree(k, m))

(***************************************************************************)
(* In every state: the buffer is well formed, and no byte is contributed   *)
(* by two segments or by none.                                             *)
(***************************************************************************)
ReassemblyInv == TypeOK /\ EachByteCountsOnce
=============================================================================
