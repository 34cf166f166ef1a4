----------------------------- MODULE Fragments -----------------------------
(***************************************************************************)
(* FragmentManager (src/core/fragments.py): before the handlers run, the   *)
(* IPv4 fragments of a UDP or TCP datagram are replaced by one packet that *)
(* is not fragmented, at the place of the first of them, and by slots at   *)
(* the places of the others; after build_output_packets the rewritten      *)
(* packets are cut into fragments again, which go back into the slots.     *)
(*                                                                         *)
(* Payloads are sequences of cells.  A cell <<of, piece, field>> stands    *)
(* for some bytes of datagram "of" of the capture (piece = 0) or of what   *)
(* the packet "of" was rewritten to; the field of the first cell is what   *)
(* the transport header says of a length: of the datagram (UDP), of the    *)
(* header (TCP).  Templates, times and link layer headers are left out.    *)
(***************************************************************************)
EXTENDS Integers, SequencesExt, FiniteSetsExt

CONSTANTS
  Unit,         \* cells in one step of the fragment offset (8 bytes)
  MaxPayload,   \* cells a fragment can carry (_max_fragment_payload)
  Datagrams,    \* the datagrams that are sent in fragments
  Files,        \* the sequences of frames that may be read
  Rewrites      \* "udp", "tcp" -> the lengths of what becomes of a packet

ASSUME UnitAssumption == Unit \in {2 * n : n \in 1 .. 4}
ASSUME MaxPayloadAssumption == \E n \in 1 .. MaxPayload : MaxPayload = n * Unit

UdpHeader == Unit                      \*  8 bytes
TcpHeader == 2 * Unit + Unit \div 2    \* 20 bytes

Protocols == {"udp", "tcp", "other"}
Keys == [proto : Protocols, id : Nat]    \* src and dst are the same throughout
Cells == Nat \X Nat \X Nat
Frames == [kind : {"frame"}, key : Keys, offset : Nat, mf : BOOLEAN, data : Seq(Cells),
           of : Nat \X Nat]    \* history: the datagram and its piece

\* Every frame carries a part of one of the datagrams.
IsCapture(frames) ==
  /\ frames \in Seq(Frames)
  /\ \A i \in DOMAIN frames :
       LET f == frames[i]
           datagram == Datagrams[f.of[1]]
           end == f.offset + Len(f.data)
       IN  /\ f.of \in (DOMAIN Datagrams) \X {0}
           /\ end <= Len(datagram) /\ f.mf = (end < Len(datagram))
           /\ f.data = SubSeq(datagram, f.offset + 1, end)

ASSUME DatagramsAssumption == Datagrams \in Seq(Seq(Cells))
ASSUME FilesAssumption == \A frames \in Files : IsCapture(frames)
ASSUME RewritesAssumption ==
  \A proto \in {"udp", "tcp"} : Rewrites[proto] \subseteq Seq(Nat \ {0})

VARIABLES
  capture,
  packets,     \* the packets of the file, rewritten in place
  stage,       \* "reassemble", "rewrite", "refragment" or "done"
  index,       \* the packet to be visited next
  active,      \* key -> the fragments of an incomplete group, in capture order
  blocked_keys,
  completed,   \* _completed_fragments: key -> offset -> payload and MF flag
  records,     \* _records: marker -> sizes and places of the captured fragments
  todo,        \* output_packets, as far as refragment has not visited them
  pending_extra,     \* marker -> fragments of the packet, for its slots
  deferred,    \* marker -> fragments of packets cloned from it
  rewritten,   \* history: output_packets as refragment gets it
  result       \* the frames that are written

fragmentsVars ==
  <<capture, packets, stage, index, active, blocked_keys, completed, records,
    todo, pending_extra, deferred, rewritten, result>>

Indices == DOMAIN capture
Frame(i) == capture[i]
Gone == [kind |-> "gone"]
Virtual(marker, key, data) ==
  [kind |-> "virtual", marker |-> marker, piece |-> 1, key |-> key, data |-> data]
Slot(marker, ordinal) == [kind |-> "slot", marker |-> marker, ordinal |-> ordinal]

FragmentsInit ==
  /\ capture \in Files
  /\ packets = capture
  /\ stage = "reassemble"
  /\ index = 1
  /\ active = << >> /\ blocked_keys = {} /\ completed = << >> /\ records = << >>
  /\ todo = << >> /\ pending_extra = << >> /\ deferred = << >>
  /\ rewritten = << >> /\ result = << >>

With(map, key, value) ==
  [k \in DOMAIN map \cup {key} |-> IF k = key THEN value ELSE map[k]]
Without(map, key) == [k \in DOMAIN map \ {key} |-> map[k]]

-----------------------------------------------------------------------------
(***************************************************************************)
(* FragmentGroup: a group is the sequence of the indices of its fragments. *)
(***************************************************************************)
EndOf(i) == Frame(i).offset + Len(Frame(i).data)
HasFirst(group) == \E i \in Range(group) : Frame(i).offset = 0
LastEnds(group) == {EndOf(i) : i \in {j \in Range(group) : ~Frame(j).mf}}

\* unique_fragments: the first fragment at every offset, in offset order.
Ascending(numbers) ==
  [n \in 1 .. Cardinality(numbers) |->
     CHOOSE x \in numbers : Cardinality({y \in numbers : y < x}) = n - 1]

Offsets(group) == {Frame(i).offset : i \in Range(group)}
FirstAt(offset, group) == Min({i \in Range(group) : Frame(i).offset = offset})

UniqueFragments(group) ==
  [n \in DOMAIN Ascending(Offsets(group)) |-> FirstAt(Ascending(Offsets(group))[n], group)]

\* Fragments follow each other from 0 until one reaches the end; the ones
\* behind that are not looked at.
ReachesEnd(fragments, end) == \E n \in DOMAIN fragments : EndOf(fragments[n]) >= end

TilesToEnd(fragments, end) ==
  \E n \in DOMAIN fragments :
    /\ EndOf(fragments[n]) >= end
    /\ \A m \in 1 .. n - 1 :
         EndOf(fragments[m]) < end /\ EndOf(fragments[m]) = Frame(fragments[m + 1]).offset

\* completion_error returns None.
IsComplete(group) ==
  /\ HasFirst(group)
  /\ Cardinality(LastEnds(group)) = 1
  /\ \A i \in Range(group) : Frame(i).mf => Len(Frame(i).data) % Unit = 0
  /\ \A i, j \in Range(group) :
       Frame(i).offset = Frame(j).offset => Frame(i).data = Frame(j).data
  /\ TilesToEnd(UniqueFragments(group), Min(LastEnds(group)))

-----------------------------------------------------------------------------
(***************************************************************************)
(* _assemble: each fragment is laid over the datagram, up to its end.  A   *)
(* fragment that starts behind the end makes the datagram longer: its      *)
(* slice has a negative length, which counts from the other side.          *)
(***************************************************************************)
Overlay(bytes, fragment, end) ==
  LET to == Min({fragment.offset + Len(fragment.data), end})
      size == to - fragment.offset
      chunk == SubSeq(fragment.data, 1,
                      IF size >= 0 THEN size ELSE Len(fragment.data) + size)
      from == Min({fragment.offset, Len(bytes)})
  IN  SubSeq(bytes, 1, from) \o chunk \o SubSeq(bytes, Max({from, to}) + 1, Len(bytes))

Assembled(group) ==
  LET end == Min(LastEnds(group))
      unique == UniqueFragments(group)
      laid[n \in 0 .. Len(unique)] ==
        IF n = 0 THEN [m \in 1 .. end |-> <<0, 0, 0>>]
        ELSE Overlay(laid[n - 1], Frame(unique[n]), end)
  IN  laid[Len(unique)]

\* _build_udp and _build_tcp accept the header.
HasHeader(proto, data) ==
  \/ /\ proto = "udp" /\ Len(data) >= UdpHeader
     /\ data[1][3] = Len(data)
  \/ /\ proto = "tcp" /\ Len(data) >= TcpHeader
     /\ data[1][3] >= TcpHeader /\ data[1][3] <= Len(data)

-----------------------------------------------------------------------------
(***************************************************************************)
(* reassemble, one packet per step.                                        *)
(***************************************************************************)
IsFragment(f) == f.key.proto \in {"udp", "tcp"} /\ (f.offset # 0 \/ f.mf)

IsCompletedDuplicateByOffset(f) ==
  f.key \in DOMAIN completed /\ f.offset \in DOMAIN completed[f.key]

IsCompletedDuplicate(f) ==
  /\ f.key \in DOMAIN completed
  /\ f.offset \in DOMAIN completed[f.key]
  /\ completed[f.key][f.offset] = <<f.data, f.mf>>

GroupOf(key) == IF key \in DOMAIN active THEN active[key] ELSE << >>

RestartsAnyGroup(f) == f.offset = 0 /\ GroupOf(f.key) # << >>
RestartsGroup(f) == f.offset = 0 /\ HasFirst(GroupOf(f.key))

Visit == stage = "reassemble" /\ index \in Indices /\ index' = index + 1
Leave == UNCHANGED <<capture, stage, todo, pending_extra, deferred, rewritten, result>>

PassPacket ==
  /\ Visit
  /\ \/ ~IsFragment(Frame(index))
     \/ ~IsCompletedDuplicate(Frame(index)) /\ Frame(index).key \in blocked_keys
  /\ Leave
  /\ UNCHANGED <<packets, active, blocked_keys, completed, records>>

DropDuplicate ==
  /\ Visit
  /\ IsFragment(Frame(index)) /\ IsCompletedDuplicate(Frame(index))
  /\ packets' = [packets EXCEPT ![index] = Gone]
  /\ Leave
  /\ UNCHANGED <<active, blocked_keys, completed, records>>

\* Neither a copy of what is done nor of a key that is given up.
TakesPart(f) == IsFragment(f) /\ ~IsCompletedDuplicate(f) /\ f.key \notin blocked_keys

BlockKey ==
  /\ Visit
  /\ TakesPart(Frame(index)) /\ RestartsGroup(Frame(index))
  /\ active' = Without(active, Frame(index).key)
  /\ blocked_keys' = blocked_keys \cup {Frame(index).key}
  /\ Leave
  /\ UNCHANGED <<packets, completed, records>>

Joined == Append(GroupOf(Frame(index).key), index)

CollectFragment ==
  /\ Visit
  /\ TakesPart(Frame(index)) /\ ~RestartsGroup(Frame(index))
  /\ ~IsComplete(Joined)
  /\ active' = With(active, Frame(index).key, Joined)
  /\ Leave
  /\ UNCHANGED <<packets, blocked_keys, completed, records>>

RejectGroup ==
  /\ Visit
  /\ TakesPart(Frame(index)) /\ ~RestartsGroup(Frame(index))
  /\ IsComplete(Joined) /\ ~HasHeader(Frame(index).key.proto, Assembled(Joined))
  /\ active' = Without(active, Frame(index).key)
  /\ Leave
  /\ UNCHANGED <<packets, blocked_keys, completed, records>>

\* The fragments were collected in capture order: the first has the least index.
SlotsWithoutRepeats(group) ==
  Ascending(Range(UniqueFragments(group)))
Slots(group) == group

CompleteGroup ==
  /\ Visit
  /\ TakesPart(Frame(index)) /\ ~RestartsGroup(Frame(index))
  /\ IsComplete(Joined) /\ HasHeader(Frame(index).key.proto, Assembled(Joined))
  /\ LET key == Frame(index).key
         slots == Slots(Joined)
         unique == UniqueFragments(Joined)
         marker == slots[1]
         OrdinalOf(i) == CHOOSE n \in DOMAIN slots : slots[n] = i
         PieceAt(o) == Frame(FirstAt(o, Joined))
     IN
       /\ packets' = [i \in Indices |->
                        IF i = marker THEN Virtual(marker, key, Assembled(Joined))
                        ELSE IF i \in Range(slots) THEN Slot(marker, OrdinalOf(i) - 1)
                        ELSE packets[i]]
       /\ completed' =
            With(completed, key,
                 [o \in Offsets(Joined) |-> <<PieceAt(o).data, PieceAt(o).mf>>])
       /\ records' =
            With(records, marker,
                 [sizes |-> [n \in DOMAIN unique |-> Len(Frame(unique[n]).data)],
                  slots |-> slots])
       /\ active' = Without(active, key)
  /\ Leave
  /\ UNCHANGED blocked_keys

EndReassemble ==
  /\ stage = "reassemble" /\ index \notin Indices
  /\ stage' = "rewrite"
  /\ UNCHANGED <<capture, packets, index, active, blocked_keys, completed, records, todo,
                 pending_extra, deferred, rewritten, result>>

-----------------------------------------------------------------------------
(***************************************************************************)
(* What happens in between: a handler rewrites a packet; re-segmentation   *)
(* of its TCP flow deletes it, or inserts clones of it behind it.  A clone *)
(* keeps the marker, gets the next IP ids and follows a cloned ACK.        *)
(***************************************************************************)
Content(marker, piece, proto, len) ==
  [n \in 1 .. len |->
     <<marker, piece, IF n > 1 THEN 0 ELSE IF proto = "udp" THEN len ELSE TcpHeader>>]

Ack(marker, piece) ==
  [kind |-> "frame", key |-> [proto |-> "other", id |-> 0], offset |-> 0, mf |-> FALSE,
   data |-> << >>, of |-> <<marker, piece>>]

Rewritten(packet, lengths) ==
  FlattenSeq(
    [n \in DOMAIN lengths |->
       LET piece == [packet EXCEPT !.piece = n, !.key.id = @ + n - 1,
                                   !.data = Content(packet.marker, n, packet.key.proto, lengths[n])]
       IN  IF n = 1 THEN <<piece>> ELSE <<Ack(packet.marker, n), piece>>])

\* rewrite_l2_l3_udp_pass, rewrite_tcp_pass and build_output_packets
Rewrite ==
  /\ stage = "rewrite"
  /\ stage' = "refragment"
  /\ \E lengths \in [DOMAIN records -> Rewrites["udp"] \cup Rewrites["tcp"]] :
       /\ \A m \in DOMAIN records : lengths[m] \in Rewrites[packets[m].key.proto]
       /\ todo' = FlattenSeq([i \in Indices |->
                    IF packets[i].kind = "gone" THEN << >>
                    ELSE IF packets[i].kind = "virtual" THEN Rewritten(packets[i], lengths[i])
                    ELSE <<packets[i]>>])
       /\ rewritten' = todo'
  /\ UNCHANGED <<capture, packets, index, active, blocked_keys, completed, records,
                 pending_extra, deferred, result>>

-----------------------------------------------------------------------------
(***************************************************************************)
(* _split: a datagram of the length it had is cut as it was; another one   *)
(* into as few fragments as possible.                                      *)
(***************************************************************************)
\* Where the pieces end; the last one ends at the sum of the sizes.
Ends(sizes) ==
  LET ends[n \in 0 .. Len(sizes)] == IF n = 0 THEN 0 ELSE ends[n - 1] + sizes[n]
  IN  ends

NeverKeepsSizes(sizes, total) == FALSE
KeepsSizes(sizes, total) == Ends(sizes)[Len(sizes)] = total /\ Len(sizes) > 1

\* _split_boundaries: where each fragment starts and ends.
Boundaries(total, sizes) ==
  IF KeepsSizes(sizes, total)
  THEN [n \in DOMAIN sizes |-> <<Ends(sizes)[n - 1], Ends(sizes)[n]>>]
  ELSE [n \in 1 .. (total + MaxPayload - 1) \div MaxPayload |->
          <<(n - 1) * MaxPayload, Min({n * MaxPayload, total})>>]

Split(packet) ==
  LET total == Len(packet.data)
      boundaries == Boundaries(total, records[packet.marker].sizes)
  IN  [n \in DOMAIN boundaries |->
         [kind |-> "frame", key |-> packet.key,
          offset |-> (boundaries[n][1] \div Unit) * Unit, mf |-> boundaries[n][2] < total,
          data |-> SubSeq(packet.data, boundaries[n][1] + 1, boundaries[n][2]),
          of |-> <<packet.marker, packet.piece>>]]

-----------------------------------------------------------------------------
(***************************************************************************)
(* refragment, one item of output_packets per step.  A complete group has  *)
(* at least two fragments, so what the code does for a record of one slot  *)
(* is left out.                                                            *)
(***************************************************************************)
Take == stage = "refragment" /\ todo # << >> /\ todo' = Tail(todo)
Item == Head(todo)
KeepRest == UNCHANGED <<capture, packets, stage, index, active, blocked_keys, completed,
                        records, rewritten>>

EmitFrame ==
  /\ Take /\ Item.kind = "frame"
  /\ result' = Append(result, Item)
  /\ UNCHANGED <<pending_extra, deferred>> /\ KeepRest

EmitFirst ==
  /\ Take /\ Item.kind = "virtual" /\ Item.marker \notin DOMAIN pending_extra
  /\ pending_extra' = With(pending_extra, Item.marker, Split(Item))
  /\ result' = Append(result, Split(Item)[1])
  /\ UNCHANGED deferred /\ KeepRest

DeferredBehind(marker) == IF marker \in DOMAIN deferred THEN deferred[marker] ELSE << >>

QueuedInFront(queue, fragments) == fragments \o queue
Queued(queue, fragments) == queue \o fragments

DeferPiece ==
  /\ Take /\ Item.kind = "virtual" /\ Item.marker \in DOMAIN pending_extra
  /\ deferred' = With(deferred, Item.marker, Queued(DeferredBehind(Item.marker), Split(Item)))
  /\ UNCHANGED <<pending_extra, result>> /\ KeepRest

\* The slots of a packet that was deleted.
SkipSlot ==
  /\ Take /\ Item.kind = "slot" /\ Item.marker \notin DOMAIN pending_extra
  /\ UNCHANGED <<pending_extra, deferred, result>> /\ KeepRest

\* A slot takes its fragment, if there is one; the last slot takes all that are
\* left, and what was deferred follows it.
IsLastSlot(slot) == slot.ordinal = Len(records[slot.marker].slots) - 1

OneFragment(slot) ==
  SubSeq(pending_extra[slot.marker], slot.ordinal + 1,
         Min({slot.ordinal + 1, Len(pending_extra[slot.marker])}))

FragmentsFor(slot) ==
  SubSeq(pending_extra[slot.marker], slot.ordinal + 1,
         IF IsLastSlot(slot) THEN Len(pending_extra[slot.marker])
         ELSE Min({slot.ordinal + 1, Len(pending_extra[slot.marker])}))

FollowingLastSlot(slot) ==
  IF IsLastSlot(slot) THEN DeferredBehind(slot.marker) ELSE << >>

EmitSlot ==
  /\ Take /\ Item.kind = "slot" /\ Item.marker \in DOMAIN pending_extra
  /\ result' = result \o FragmentsFor(Item) \o FollowingLastSlot(Item)
  /\ deferred' = IF IsLastSlot(Item) THEN Without(deferred, Item.marker) ELSE deferred
  /\ UNCHANGED pending_extra /\ KeepRest

EndRefragment ==
  /\ stage = "refragment" /\ todo = << >>
  /\ stage' = "done"
  /\ LET markers == Ascending(DOMAIN deferred) IN
     result' = result \o FlattenSeq([n \in DOMAIN markers |-> deferred[markers[n]]])
  /\ deferred' = << >>
  /\ UNCHANGED <<capture, packets, index, active, blocked_keys, completed, records, todo,
                 pending_extra, rewritten>>

FragmentsNext ==
  \/ PassPacket \/ DropDuplicate \/ BlockKey \/ CollectFragment \/ RejectGroup
  \/ CompleteGroup \/ EndReassemble
  \/ Rewrite
  \/ EmitFrame \/ EmitFirst \/ DeferPiece \/ SkipSlot \/ EmitSlot \/ EndRefragment

FragmentsSpec == FragmentsInit /\ [][FragmentsNext]_fragmentsVars

-----------------------------------------------------------------------------
\* A key is at most one of active and blocked; what is waiting to be put back
\* belongs to a packet that was put in the place of its fragments.
FragmentsTypeOK ==
  /\ stage \in {"reassemble", "rewrite", "refragment", "done"}
  /\ index \in 1 .. Len(capture) + 1
  /\ DOMAIN active \subseteq Keys \ blocked_keys
  /\ \A key \in DOMAIN active : active[key] \in Seq(1 .. index - 1)
  /\ DOMAIN completed \subseteq Keys
  /\ \A m \in DOMAIN records : packets[m].kind = "virtual" /\ packets[m].marker = m
  /\ DOMAIN deferred \subseteq DOMAIN pending_extra
  /\ DOMAIN pending_extra \subseteq DOMAIN records
  /\ result \in Seq(Frames)

(***************************************************************************)
(* A packet that is put in the place of fragments is one of the datagrams  *)
(* that were sent, put together from fragments of that datagram only,      *)
(* whatever was captured out of order, twice or not at all.                *)
(***************************************************************************)
DatagramsAreWhole ==
  \A m \in DOMAIN records : \E d \in DOMAIN Datagrams :
    /\ packets[m].data = Datagrams[d]
    /\ \A i \in Range(records[m].slots) : Frame(i).of[1] = d

(***************************************************************************)
(* A datagram all of whose fragments were captured, once each, is put      *)
(* together, in whatever order they came and whatever came in between.     *)
(***************************************************************************)
FragmentsOf(d) == {i \in Indices : Frame(i).of[1] = d}

CapturedOnce(d) ==
  /\ \A i \in FragmentsOf(d) : IsFragment(Frame(i))
  /\ \A i, j \in FragmentsOf(d) : i # j => Frame(i).offset # Frame(j).offset
  /\ MapThenSumSet(LAMBDA i : Len(Frame(i).data), FragmentsOf(d)) = Len(Datagrams[d])

CompleteDatagramsAreReassembled ==
  stage # "reassemble" =>
    \A d \in DOMAIN Datagrams :
      CapturedOnce(d) /\ HasHeader(Frame(Min(FragmentsOf(d))).key.proto, Datagrams[d])
        => \E m \in DOMAIN records : packets[m].data = Datagrams[d]

(***************************************************************************)
(* A fragment is left out only because the same fragment of the same       *)
(* datagram has been taken into a packet (comment in reassemble: such      *)
(* fragments have been rewritten with the virtual packet).                 *)
(***************************************************************************)
DropsAreRepeats ==
  \A i \in Indices : packets[i] = Gone =>
    \E m \in DOMAIN records : \E j \in Range(records[m].slots) :
      Frame(j).of = Frame(i).of /\ Frame(j).offset = Frame(i).offset

(***************************************************************************)
(* No captured fragment of a rewritten datagram reaches the file, where it *)
(* would show the old address (comment in reassemble).                     *)
(***************************************************************************)
NoOldFragments ==
  \A f \in Range(result) : f.of[2] = 0 =>
    \A m \in DOMAIN records : Frame(m).of # f.of

(***************************************************************************)
(* A receiver can put every rewritten packet and every clone together      *)
(* again: its fragments are all in the file, in order, without a gap, each *)
(* short enough to be sent, and only the last one without MF.              *)
(***************************************************************************)
FragmentsIn(sequence, item) ==
  SelectSeq(sequence, LAMBDA f : f.of = <<item.marker, item.piece>> /\ f.key = item.key)

RewrittenPacketsAreReadable ==
  stage = "done" =>
    \A item \in Range(rewritten) : item.kind = "virtual" =>
      LET fragments == FragmentsIn(result, item) IN
      /\ FlattenSeq([n \in DOMAIN fragments |-> fragments[n].data]) = item.data
      /\ \A n \in DOMAIN fragments :
           /\ fragments[n].offset =
                Ends([m \in DOMAIN fragments |-> Len(fragments[m].data)])[n - 1]
           /\ fragments[n].mf = (n < Len(fragments))
           /\ Len(fragments[n].data) <= MaxPayload

(***************************************************************************)
(* What re-segmentation inserted behind a packet is sent behind it, and in *)
(* the order it chose: the fragments of a clone follow those of the packet *)
(* before, although they have no slots of their own.                       *)
(***************************************************************************)
ClonesFollowInOrder ==
  stage = "done" =>
    \A i, j \in DOMAIN result :
      /\ result[i].key.proto # "other" /\ result[j].key.proto # "other"
      /\ result[i].of[1] = result[j].of[1] /\ 1 <= result[i].of[2]
      /\ result[i].of[2] < result[j].of[2]
      => i < j

(***************************************************************************)
(* If no length changes, no frame of the file changes its place or shape   *)
(* (docstring of _split_boundaries: an equal length keeps the rhythm of    *)
(* the original fragments).                                                *)
(***************************************************************************)
Shape(f) == <<f.key, f.offset, f.mf, Len(f.data)>>

IsTidy ==
  /\ \A i \in Indices : packets[i] # Gone
  /\ \A m \in DOMAIN records : LET slots == records[m].slots IN
       \A n \in 1 .. Len(slots) - 1 : Frame(slots[n]).offset < Frame(slots[n + 1]).offset

KeepsLengths ==
  /\ \A item \in Range(rewritten) : item.kind = "virtual" =>
       item.piece = 1 /\ Len(item.data) = Len(packets[item.marker].data)
  /\ \A m \in DOMAIN records : \E item \in Range(rewritten) :
       item.kind = "virtual" /\ item.marker = m

EqualLengthsKeepShape ==
  stage = "done" /\ IsTidy /\ KeepsLengths =>
    [i \in DOMAIN result |-> Shape(result[i])]
      = [i \in Indices |-> Shape(Frame(i))]

(***************************************************************************)
(* In every state the records fit together, and no packet is made up.      *)
(***************************************************************************)
FragmentInv == FragmentsTypeOK /\ DatagramsAreWhole
=============================================================================
