----------------------------- MODULE Resegment -----------------------------
(***************************************************************************)
(* How the rewritten byte streams of the two directions of one TCP         *)
(* connection go back into packets: steps 3 to 5 of rewrite_tcp_pass       *)
(* (src/core/pipeline.py), which call resegment_preserve, resegment_tcp_   *)
(* flows and apply_tcp_sequence_adjustments (src/core/resegment.py), and   *)
(* build_output_packets.                                                   *)
(*                                                                         *)
(* A flow whose handler keeps segment boundaries is written segment by     *)
(* segment; it degrades to merging when a segment outgrows its packet.  A  *)
(* merged flow is cut anew: its packets are filled in stream order, those  *)
(* left over are deleted, and when they do not suffice, clones of the last *)
(* one are inserted, each behind a cloned ACK.  All plans are made on the  *)
(* packets of both directions at once and carried out at the end, when     *)
(* SEQ, ACK and SACK are taken to the coordinates of the new streams.      *)
(*                                                                         *)
(* A packet's payload is a sequence of the byte names of EditMap.  IP ids, *)
(* time stamps, checksums and statistics are left out; every packet has    *)
(* the ACK flag and none has SYN or RST (none of these has a payload).     *)
(***************************************************************************)
EXTENDS EditMap, SeqSpace, FiniteSetsExt, SequencesExt

Directions == {"client", "server"}
Opposite(d) == CHOOSE e \in Directions : e # d

Packet == [dir : Directions, seq : SeqNumbers, ack : SeqNumbers,
           data : Seq({"old", "new"} \X Nat), psh : BOOLEAN, fin : BOOLEAN,
           sack : Seq(SeqNumbers)]

CONSTANTS
  Inputs   \* kind of scene -> what steps 1 and 2 of rewrite_tcp_pass hand over, see IsInput

(***************************************************************************)
(* What a later step can rely on: the packets of the connection in capture *)
(* order, the most bytes each can carry, and the state of the two flows.   *)
(* Every payload is what old_stream has at its offset.  A packet may have  *)
(* come with more bytes than it may carry (segmentation offload).          *)
(***************************************************************************)
IsInput(in) ==
  /\ in.packets \in Seq(Packet)
  /\ in.base_seq \in [Directions -> SeqNumbers]
  /\ in.old_len \in [Directions -> Nat]
  /\ in.handling \in [Directions -> {"unchanged", "preserve", "merge"}]
  /\ \A d \in Directions :
       /\ IsEditList(in.edits[d], in.old_len[d], NewLen(in.edits[d], in.old_len[d]))
       /\ in.handling[d] = "unchanged" => in.edits[d] = << >>
  /\ \A i \in DOMAIN in.packets :
       LET packet == in.packets[i]
           off == SeqOffset(packet.seq, in.base_seq[packet.dir]) IN
       /\ in.capacity[i] \in Nat \ {0}
       /\ packet.data # << >> =>
            /\ off # NoOffset
            /\ packet.data = Slice(OldStream(in.old_len[packet.dir]), off, off + Len(packet.data))

ASSUME InputsAssumption == \A kind \in DOMAIN Inputs : \A in \in Inputs[kind] : IsInput(in)

VARIABLES
  input,
  packets,         \* the packets, rewritten in place
  phase,           \* "next", "preserve", "fill", "remap", "adjusted" or "done"
  preserve_flows,  \* flows to be written back segment by segment
  merged_flows,    \* flows to be cut anew
  flow,            \* the flow at work
  todo,            \* the packets still to be visited: segments of flow, in the end all
  cursor,          \* the bytes of flow's new stream that are written
  filled,          \* flow's packets written so far (active_packets, the old ones)
  extra_packets,   \* packets to be inserted behind flow's last segment
  packet_new_seq,  \* index -> SEQ fixed by the re-segmentation
  deleted_indices,
  ack_overrides,   \* index -> ACK fixed by the re-segmentation
  insert_after,    \* index -> packets to be inserted behind it
  output           \* what is written to the file

plan == <<packet_new_seq, deleted_indices, ack_overrides, insert_after>>
vars == <<input, packets, phase, preserve_flows, merged_flows, flow, todo, cursor,
          filled, extra_packets, plan, output>>

Indices == DOMAIN input.packets
Base(d) == input.base_seq[d]
Edits(d) == input.edits[d]
NewBytes(d) == NewStream(Edits(d), input.old_len[d])

-----------------------------------------------------------------------------
(***************************************************************************)
(* The segments of a flow as build_stream_state left them (see             *)
(* StreamReassembly): a segment is primary when it is the first, in that   *)
(* order, to have some byte.                                               *)
(***************************************************************************)
Segments(d) ==
  {k \in Indices : input.packets[k].dir = d /\ input.packets[k].data # << >>}

OldStart(k) == SeqOffset(input.packets[k].seq, Base(input.packets[k].dir))
OldEnd(k) == OldStart(k) + Len(input.packets[k].data)

WrittenBefore(k, m) ==
  \/ OldStart(k) < OldStart(m)
  \/ OldStart(k) = OldStart(m) /\ OldEnd(k) > OldEnd(m)
  \/ OldStart(k) = OldStart(m) /\ OldEnd(k) = OldEnd(m) /\ k < m

IsPrimary(k) ==
  \E pos \in OldStart(k) .. OldEnd(k) - 1 :
    \A m \in Segments(input.packets[k].dir) :
      WrittenBefore(m, k) => pos \notin OldStart(m) .. OldEnd(m) - 1

InStreamOrder(k, m) == OldStart(k) < OldStart(m) \/ (OldStart(k) = OldStart(m) /\ k < m)

Primaries(d) == {k \in Segments(d) : IsPrimary(k)}
Retransmissions(d) == Segments(d) \ Primaries(d)

NewStart(k) == MapOffset(OldStart(k), Edits(input.packets[k].dir))
NewEndOfOldLength(k) == NewStart(k) + OldEnd(k) - OldStart(k)
NewEnd(k) == MapOffset(OldEnd(k), Edits(input.packets[k].dir))
NewPayload(k) == Slice(NewBytes(input.packets[k].dir), NewStart(k), NewEnd(k))

IsNextInStream(k) == k \in todo /\ \A m \in todo \ {k} : InStreamOrder(k, m)
IsNextInCapture(k) == k \in todo /\ \A m \in todo \ {k} : k < m

With(map, k, value) ==
  [i \in DOMAIN map \cup {k} |-> IF i = k THEN value ELSE map[i]]

WithPayload(packet, seq, data) == [packet EXCEPT !.seq = seq, !.data = data]
WithoutEndFlags(packet) == [packet EXCEPT !.psh = FALSE, !.fin = FALSE]

-----------------------------------------------------------------------------
\* Flows with payload are handled in the order of their first packets.
FlowsToHandle(in, how) ==
  LET HasPayload(d) == \E i \in DOMAIN in.packets :
                         in.packets[i].dir = d /\ in.packets[i].data # << >>
  IN  CHOOSE flows \in {<< >>, <<"client">>, <<"server">>, <<"client", "server">>,
                        <<"server", "client">>} :
        /\ Range(flows) = {d \in Directions : in.handling[d] = how /\ HasPayload(d)}
        /\ Len(flows) = 2 => flows[1] = in.packets[1].dir

Init ==
  /\ \E kind \in DOMAIN Inputs : input \in Inputs[kind]
  /\ packets = input.packets
  /\ phase = "next"
  /\ preserve_flows = FlowsToHandle(input, "preserve")
  /\ merged_flows = FlowsToHandle(input, "merge")
  /\ flow = "client"
  /\ todo = {}
  /\ cursor = 0
  /\ filled = << >>
  /\ extra_packets = << >>
  /\ packet_new_seq = [i \in {} |-> 0]
  /\ deleted_indices = {}
  /\ ack_overrides = [i \in {} |-> 0]
  /\ insert_after = [i \in Indices |-> << >>]
  /\ output = << >>

-----------------------------------------------------------------------------
(***************************************************************************)
(* resegment_preserve, one segment per step.                               *)
(***************************************************************************)
BeginPreserve ==
  /\ phase = "next" /\ preserve_flows # << >>
  /\ phase' = "preserve"
  /\ flow' = Head(preserve_flows)
  /\ preserve_flows' = Tail(preserve_flows)
  /\ todo' = Primaries(Head(preserve_flows))
  /\ UNCHANGED <<input, packets, merged_flows, cursor, filled, extra_packets, plan, output>>

Outgrown(k) == Len(NewPayload(k)) > input.capacity[k]

\* The segment is written back, or skipped when its bytes have not changed.
PreserveSegment(k) ==
  /\ phase = "preserve" /\ IsNextInStream(k)
  /\ ~Outgrown(k)
  /\ LET new_seq == SeqAdd(Base(flow), NewStart(k)) IN
       IF NewPayload(k) = input.packets[k].data
       THEN UNCHANGED <<packets, packet_new_seq>>
       ELSE /\ packets' = [packets EXCEPT ![k] = WithPayload(@, new_seq, NewPayload(k))]
            /\ packet_new_seq' = With(packet_new_seq, k, new_seq)
  /\ todo' = todo \ {k}
  /\ UNCHANGED <<input, phase, preserve_flows, merged_flows, flow, cursor, filled,
                 extra_packets, deleted_indices, ack_overrides, insert_after, output>>

\* The segments written so far stay as they are; the whole flow is merged later.
DegradeFlow ==
  /\ phase = "preserve"
  /\ \E k \in todo : IsNextInStream(k) /\ Outgrown(k)
  /\ phase' = "next"
  /\ merged_flows' = Append(merged_flows, flow)
  /\ todo' = {}
  /\ UNCHANGED <<input, packets, preserve_flows, flow, cursor, filled, extra_packets,
                 plan, output>>

EndPreserve ==
  /\ phase = "preserve" /\ todo = {}
  /\ phase' = "next"
  /\ UNCHANGED <<input, packets, preserve_flows, merged_flows, flow, todo, cursor, filled,
                 extra_packets, plan, output>>

-----------------------------------------------------------------------------
(***************************************************************************)
(* ACKs of the other direction.                                            *)
(***************************************************************************)
HasNoFin(packet) == ~packet.fin
IsPureAck(packet) == packet.data = << >> /\ ~packet.fin

\* iter_reverse_acks_in_window: up to the next packet with data of the flow.
AcksInWindow(k) ==
  {j \in Indices \ deleted_indices :
     /\ k < j /\ packets[j].dir = Opposite(flow) /\ IsPureAck(packets[j])
     /\ \A m \in k + 1 .. j - 1 :
          m \in deleted_indices \/ packets[m].dir # flow \/ packets[m].data = << >>}

\* What clone_response_ack clones: the next pure ACK, or else the last one before.
Templates(k) == {j \in Indices : packets[j].dir = Opposite(flow) /\ IsPureAck(packets[j])}

ClonedAckOfNext(k, ack_offset) ==
  [n \in 1 .. MinOf(1, Cardinality(Templates(k))) |->
     [packets[CHOOSE j \in Templates(k) : TRUE] EXCEPT
        !.ack = SeqAdd(Base(flow), MinOf(ack_offset + input.capacity[k], Len(NewBytes(flow))))]]

ClonedAck(k, ack_offset) ==
  LET later == {j \in Templates(k) : k < j}
      template == IF later # {} THEN Min(later) ELSE Max(Templates(k))
  IN  IF Templates(k) = {} THEN << >>
      ELSE <<[packets[template] EXCEPT !.ack = SeqAdd(Base(flow), ack_offset)]>>

OverriddenBeyondRing(acks, ack_offset) ==
  [j \in acks \cup DOMAIN ack_overrides |->
     IF j \in acks THEN Base(flow) + ack_offset ELSE ack_overrides[j]]

Overridden(acks, ack_offset) ==
  [j \in acks \cup DOMAIN ack_overrides |->
     IF j \in acks THEN SeqAdd(Base(flow), ack_offset) ELSE ack_overrides[j]]

-----------------------------------------------------------------------------
(***************************************************************************)
(* resegment_tcp_flow: fill the old packets, insert new ones, close.       *)
(***************************************************************************)
\* resegment_tcp_flows passes by a flow that turns out to be unchanged.
BeginMerge ==
  /\ phase = "next" /\ preserve_flows = << >> /\ merged_flows # << >>
  /\ flow' = Head(merged_flows)
  /\ merged_flows' = Tail(merged_flows)
  /\ IF Edits(Head(merged_flows)) = << >>
     THEN UNCHANGED <<phase, todo>>
     ELSE /\ phase' = "fill"
          /\ todo' = Primaries(Head(merged_flows))
  /\ cursor' = 0
  /\ filled' = << >>
  /\ extra_packets' = << >>
  /\ UNCHANGED <<input, packets, preserve_flows, plan, output>>

Chunk(capacity) == Slice(NewBytes(flow), cursor, cursor + capacity)

FillSegment(k) ==
  /\ phase = "fill" /\ IsNextInStream(k)
  /\ LET chunk == Chunk(input.capacity[k])
         new_seq == SeqAdd(Base(flow), cursor) IN
       /\ chunk # << >>
       /\ packets' = [packets EXCEPT ![k] = WithPayload(@, new_seq, chunk)]
       /\ packet_new_seq' = With(packet_new_seq, k, new_seq)
       /\ filled' = Append(filled, k)
       /\ ack_overrides' = Overridden(AcksInWindow(k), cursor + Len(chunk))
       /\ cursor' = cursor + Len(chunk)
  /\ todo' = todo \ {k}
  /\ UNCHANGED <<input, phase, preserve_flows, merged_flows, flow, extra_packets,
                 deleted_indices, insert_after, output>>

DeleteSegment(k) ==
  /\ phase = "fill" /\ IsNextInStream(k)
  /\ Chunk(input.capacity[k]) = << >>
  /\ deleted_indices' = deleted_indices \cup {k}
  /\ todo' = todo \ {k}
  /\ UNCHANGED <<input, packets, phase, preserve_flows, merged_flows, flow, cursor, filled,
                 extra_packets, packet_new_seq, ack_overrides, insert_after, output>>

LastPrimary ==
  CHOOSE k \in Primaries(flow) : \A m \in Primaries(flow) \ {k} : InStreamOrder(m, k)

\* A clone of the last segment behind a cloned ACK of all before it.
ClonePiece ==
  /\ phase = "fill" /\ todo = {} /\ cursor < Len(NewBytes(flow))
  /\ LET chunk == Chunk(input.capacity[LastPrimary])
         piece == WithPayload(packets[LastPrimary], SeqAdd(Base(flow), cursor), chunk) IN
       /\ extra_packets' = extra_packets \o ClonedAck(LastPrimary, cursor) \o <<piece>>
       /\ cursor' = cursor + Len(chunk)
  /\ UNCHANGED <<input, packets, phase, preserve_flows, merged_flows, flow, todo, filled,
                 plan, output>>

\* apply_segment_end_flags: the end of the message moves to the last piece.
EndFlagsOf(packet, last) == [packet EXCEPT !.psh = last.psh, !.fin = last.fin]

EndFlagsOnEveryPiece == extra_packets

EndFlagsOnPieces ==
  [i \in DOMAIN extra_packets |->
     IF extra_packets[i].dir # flow THEN extra_packets[i]
     ELSE IF i = Len(extra_packets) THEN EndFlagsOf(extra_packets[i], packets[LastPrimary])
     ELSE WithoutEndFlags(extra_packets[i])]

EndFlagsOnFilled ==
  [i \in Indices |->
     IF i \notin Range(filled) THEN packets[i]
     ELSE IF extra_packets = << >> /\ i = Last(filled)
     THEN EndFlagsOf(packets[i], packets[LastPrimary])
     ELSE WithoutEndFlags(packets[i])]

\* The ACKs that acknowledged exactly up to a deleted segment.
AcksOfDeleted ==
  UNION {{j \in AcksInWindow(k) : SeqOffset(packets[j].ack, Base(flow)) = OldEnd(k)} :
           k \in Primaries(flow) \cap deleted_indices}

CloseFlow ==
  /\ phase = "fill" /\ todo = {} /\ cursor >= Len(NewBytes(flow))
  /\ phase' = "remap"
  /\ todo' = Retransmissions(flow)
  /\ packets' = EndFlagsOnFilled
  /\ LET end == Len(NewBytes(flow))
         acks == AcksInWindow(LastPrimary)
         trailing == IF acks = {} THEN ClonedAck(LastPrimary, end) ELSE << >>
     IN  IF extra_packets = << >>
         THEN UNCHANGED <<insert_after, ack_overrides>>
         ELSE /\ insert_after' = [insert_after EXCEPT ![LastPrimary] =
                                    @ \o EndFlagsOnPieces \o trailing]
              /\ ack_overrides' = Overridden(acks, end)
  /\ deleted_indices' = deleted_indices \cup AcksOfDeleted
  /\ UNCHANGED <<input, preserve_flows, merged_flows, flow, cursor, filled, extra_packets,
                 packet_new_seq, output>>

-----------------------------------------------------------------------------
(***************************************************************************)
(* remap_retransmissions, one segment per step.                            *)
(***************************************************************************)
NeedsNoRemap(k) == k \in deleted_indices

\* Cut into pieces of at most capacity bytes.
Pieces(k) ==
  LET capacity == input.capacity[k]
      size == Len(NewPayload(k))
      count == (size + capacity - 1) \div capacity
      PieceAt(n) == WithPayload(packets[k], SeqAdd(Base(flow), NewStart(k) + (n - 1) * capacity),
                                Slice(NewPayload(k), (n - 1) * capacity, n * capacity))
  IN  [n \in 1 .. count |->
         IF count = 1 THEN PieceAt(n) ELSE WithoutEndFlags(PieceAt(n))]

RemapSegment(k) ==
  /\ phase = "remap" /\ IsNextInCapture(k)
  /\ ~NeedsNoRemap(k) /\ NewPayload(k) # << >>
  /\ packets' = [packets EXCEPT ![k] = Head(Pieces(k))]
  /\ packet_new_seq' = With(packet_new_seq, k, SeqAdd(Base(flow), NewStart(k)))
  /\ insert_after' = [insert_after EXCEPT ![k] = @ \o Tail(Pieces(k))]
  /\ todo' = todo \ {k}
  /\ UNCHANGED <<input, phase, preserve_flows, merged_flows, flow, cursor, filled,
                 extra_packets, deleted_indices, ack_overrides, output>>

\* All its bytes are gone, or it is to be deleted already.
DropRetransmission(k) ==
  /\ phase = "remap" /\ IsNextInCapture(k)
  /\ NeedsNoRemap(k) \/ NewPayload(k) = << >>
  /\ deleted_indices' = deleted_indices \cup {k}
  /\ todo' = todo \ {k}
  /\ UNCHANGED <<input, packets, phase, preserve_flows, merged_flows, flow, cursor, filled,
                 extra_packets, packet_new_seq, ack_overrides, insert_after, output>>

EndMerge ==
  /\ phase = "remap" /\ todo = {}
  /\ phase' = "next"
  /\ UNCHANGED <<input, packets, preserve_flows, merged_flows, flow, todo, cursor, filled,
                 extra_packets, plan, output>>

-----------------------------------------------------------------------------
(***************************************************************************)
(* adjust_seq_ack on every packet that stays and every inserted one.  Only *)
(* numbers of a modified flow are mapped, up to one behind its last byte   *)
(* (the FIN); the others are left as they are.                             *)
(***************************************************************************)
IsModified(d) == input.handling[d] # "unchanged"

MapSeqOfBytes(d, seq) ==
  LET off == SeqOffset(seq, Base(d)) IN
  IF off = NoOffset \/ off > input.old_len[d] THEN seq
  ELSE SeqAdd(Base(d), MapOffset(off, Edits(d)))

MapSeq(d, seq) ==
  LET off == SeqOffset(seq, Base(d)) IN
  IF off = NoOffset \/ off > input.old_len[d] + 1 THEN seq
  ELSE SeqAdd(Base(d), MapOffset(off, Edits(d)))

MappedSeq(packet) == [packet EXCEPT !.seq = MapSeq(packet.dir, @)]

MappedAck(packet) ==
  LET d == Opposite(packet.dir) IN
  [packet EXCEPT !.ack = MapSeq(d, @),
                 !.sack = [n \in DOMAIN @ |-> MapSeq(d, @[n])]]

AdjustedAck(i, packet) ==
  IF i \in DOMAIN ack_overrides THEN [packet EXCEPT !.ack = ack_overrides[i]]
  ELSE IF IsModified(Opposite(packet.dir)) THEN MappedAck(packet)
  ELSE packet

AdjustedTwice(i) ==
  LET packet == packets[i] IN
  AdjustedAck(i, IF IsModified(packet.dir) THEN MappedSeq(packet) ELSE packet)

Adjusted(i) ==
  LET packet == packets[i] IN
  AdjustedAck(i,
    IF ~IsModified(packet.dir) THEN packet
    ELSE IF i \in DOMAIN packet_new_seq THEN [packet EXCEPT !.seq = packet_new_seq[i]]
    ELSE MappedSeq(packet))

\* A cloned ACK has its ACK number already, a cloned segment its SEQ.
AdjustedInsert(packet) ==
  IF IsPureAck(packet)
  THEN IF IsModified(packet.dir) THEN MappedSeq(packet) ELSE packet
  ELSE IF IsModified(Opposite(packet.dir)) THEN MappedAck(packet) ELSE packet

Adjust ==
  /\ phase = "next" /\ preserve_flows = << >> /\ merged_flows = << >>
  /\ phase' = "adjusted"
  /\ packets' = [i \in Indices |-> IF i \in deleted_indices THEN packets[i] ELSE Adjusted(i)]
  /\ insert_after' =
       [i \in Indices |->
          IF i \in deleted_indices THEN insert_after[i]
          ELSE [n \in DOMAIN insert_after[i] |-> AdjustedInsert(insert_after[i][n])]]
  /\ todo' = Indices
  /\ UNCHANGED <<input, preserve_flows, merged_flows, flow, cursor, filled,
                 extra_packets, packet_new_seq, deleted_indices, ack_overrides, output>>

\* build_output_packets, one packet per step.
Emitted(i) == IF i \in deleted_indices THEN << >> ELSE <<packets[i]>> \o insert_after[i]

EmitPacket(i) ==
  /\ phase = "adjusted" /\ IsNextInCapture(i)
  /\ output' = output \o Emitted(i)
  /\ todo' = todo \ {i}
  /\ phase' = IF todo' = {} THEN "done" ELSE phase
  /\ UNCHANGED <<input, packets, preserve_flows, merged_flows, flow, cursor, filled,
                 extra_packets, plan>>

Next ==
  \/ BeginPreserve \/ DegradeFlow \/ EndPreserve
  \/ BeginMerge \/ ClonePiece \/ CloseFlow \/ EndMerge \/ Adjust
  \/ \E k \in todo :
       \/ PreserveSegment(k) \/ FillSegment(k) \/ DeleteSegment(k)
       \/ RemapSegment(k) \/ DropRetransmission(k) \/ EmitPacket(k)

Spec == Init /\ [][Next]_vars

-----------------------------------------------------------------------------
\* What the plan may hold while it is made; numbers stay on the ring.
TypeOK ==
  /\ packets \in [Indices -> Packet]
  /\ phase \in {"next", "preserve", "fill", "remap", "adjusted", "done"}
  /\ preserve_flows \in Seq(Directions) /\ merged_flows \in Seq(Directions)
  /\ flow \in Directions
  /\ todo \subseteq IF phase = "adjusted" THEN Indices ELSE Segments(flow)
  /\ Range(filled) \subseteq Segments(flow)
  /\ cursor \in Nat
  /\ extra_packets \in Seq(Packet) /\ output \in Seq(Packet)
  /\ DOMAIN packet_new_seq \subseteq Indices /\ Range(packet_new_seq) \subseteq SeqNumbers
  /\ deleted_indices \subseteq Indices
  /\ DOMAIN ack_overrides \subseteq Indices /\ Range(ack_overrides) \subseteq SeqNumbers
  /\ insert_after \in [Indices -> Seq(Packet)]

Done == phase = "done"

OffsetOf(packet) == SeqOffset(packet.seq, Base(packet.dir))
EndOf(packet) == OffsetOf(packet) + Len(packet.data)
AckOf(packet) == SeqOffset(packet.ack, Base(Opposite(packet.dir)))

(***************************************************************************)
(* Whatever a packet of the output carries, a retransmission, a clone or a *)
(* refilled packet, is what the new stream has at the packet's SEQ: a      *)
(* receiver that reassembles the output never meets a conflict.            *)
(***************************************************************************)
EmittedBytesAreNewStream ==
  Done => \A packet \in Range(output) :
            packet.data # << >> =>
              /\ OffsetOf(packet) # NoOffset
              /\ packet.data = Slice(NewBytes(packet.dir), OffsetOf(packet), EndOf(packet))

(***************************************************************************)
(* No byte of a new stream is lost on the way back into packets: what the  *)
(* handler wrote can be read from the output.                              *)
(***************************************************************************)
EveryNewByteIsEmitted ==
  Done => \A d \in Directions : \A pos \in 0 .. Len(NewBytes(d)) - 1 :
            \E packet \in Range(output) :
              packet.dir = d /\ OffsetOf(packet) <= pos /\ pos < EndOf(packet)

(***************************************************************************)
(* A FIN stays behind the last byte of its stream, on whichever packet     *)
(* that is now, and no FIN is lost or doubled by cloning.                  *)
(***************************************************************************)
Fins(d, sequence) == {i \in DOMAIN sequence : sequence[i].dir = d /\ sequence[i].fin}

FinClosesStream ==
  Done => \A d \in Directions :
            /\ Cardinality(Fins(d, output)) = Cardinality(Fins(d, input.packets))
            /\ \A i \in Fins(d, output) : EndOf(output[i]) = Len(NewBytes(d))

(***************************************************************************)
(* An ACK acknowledges what the other side has sent before it in the       *)
(* output (README, "ACK mapping": an ACK acknowledges data already         *)
(* received), wherever the bytes went and wherever the ACK was cloned to.  *)
(***************************************************************************)
SentBefore(i, d, pos) ==
  \E j \in 1 .. i - 1 :
    /\ output[j].dir = d
    /\ OffsetOf(output[j]) <= pos
    /\ pos < EndOf(output[j]) + (IF output[j].fin THEN 1 ELSE 0)

AcksFollowData ==
  Done => \A i \in DOMAIN output : \A pos \in 0 .. AckOf(output[i]) - 1 :
            SentBefore(i, Opposite(output[i].dir), pos)

(***************************************************************************)
(* If a stream was acknowledged to its end in the capture, the new stream  *)
(* is acknowledged to its end in the output.                               *)
(***************************************************************************)
AcknowledgedToEnd(d, sequence, end) ==
  \E i \in DOMAIN sequence : sequence[i].dir # d /\ AckOf(sequence[i]) >= end

AcknowledgementsReachEnd ==
  Done => \A d \in Directions :
            AcknowledgedToEnd(d, input.packets, input.old_len[d])
              => AcknowledgedToEnd(d, output, Len(NewBytes(d)))

\* The same for the FIN, which counts as one more byte.
FinIsAcknowledged ==
  Done => \A d \in Directions :
            (Fins(d, input.packets) # {}
             /\ AcknowledgedToEnd(d, input.packets, input.old_len[d] + 1))
              => AcknowledgedToEnd(d, output, Len(NewBytes(d)) + 1)

(***************************************************************************)
(* A block that a SACK option reported in the capture is reported in the   *)
(* coordinates of the new stream (README, "SACK"): the blocks and the      *)
(* stream they belong to are moved together.                               *)
(***************************************************************************)
SackIsMapped ==
  phase \in {"adjusted", "done"} =>
    \A i \in Indices \ deleted_indices :
      \A n \in DOMAIN input.packets[i].sack :
        LET d == Opposite(packets[i].dir)
            old == SeqOffset(input.packets[i].sack[n], Base(d)) IN
        packets[i].sack[n] = SeqAdd(Base(d), MapOffset(old, Edits(d)))

(***************************************************************************)
(* Packets are inserted behind packets that stay: build_output_packets     *)
(* does not look at what was to follow a deleted one.                      *)
(***************************************************************************)
InsertAnchorsStay ==
  \A i \in deleted_indices : insert_after[i] = << >>

(***************************************************************************)
(* What is asked of the flows: short streams, captured without a gap.  A   *)
(* flow that is to keep its packets is captured once, gets nothing in      *)
(* front of its first byte, and empties no packet before one that outgrows *)
(* its capacity.                                                           *)
(***************************************************************************)
IsCaptured(d) ==
  /\ \A pos \in 0 .. input.old_len[d] - 1 :
       \E k \in Segments(d) : OldStart(k) <= pos /\ pos < OldEnd(k)
  /\ Segments(d) = {} => Edits(d) = << >>

CanKeepPackets(d) ==
  /\ Retransmissions(d) = {}
  /\ MapOffset(0, Edits(d)) = 0
  /\ \A k, m \in Segments(d) :
       InStreamOrder(k, m) /\ Outgrown(m) => NewPayload(k) # << >>

IsOrdinary ==
  \A d \in Directions :
    /\ Len(NewBytes(d)) <= SeqHalf
    /\ IsCaptured(d)
    /\ input.handling[d] = "preserve" => CanKeepPackets(d)

(***************************************************************************)
(* Where a FIN may be captured: behind the last byte of its stream, on a   *)
(* packet of its own or on the last segment to have new bytes, and not on  *)
(* a stream that is emptied, whose segments are all deleted.               *)
(***************************************************************************)
FinComesLast(d) ==
  \A k \in Fins(d, input.packets) :
    /\ Len(NewBytes(d)) < SeqHalf
    /\ EndOf(input.packets[k]) = input.old_len[d]
    /\ k \in Segments(d) =>
         /\ NewBytes(d) # << >> /\ k \in Primaries(d)
         /\ \A m \in Primaries(d) \ {k} : InStreamOrder(m, k)

FinsComeLast == \A d \in Directions : FinComesLast(d)

(***************************************************************************)
(* In every state the plan is well formed, and nothing is planned behind a *)
(* packet that is deleted.                                                 *)
(***************************************************************************)
PlanInv == TypeOK /\ InsertAnchorsStay

(***************************************************************************)
(* The output carries the new streams: all of them, and nothing else.      *)
(***************************************************************************)
NewStreamsAreEmitted == EmittedBytesAreNewStream /\ EveryNewByteIsEmitted
=============================================================================
