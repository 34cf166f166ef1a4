--------------------------- MODULE TcpGenerations ---------------------------
(***************************************************************************)
(* assign_tcp_generations (src/core/flow.py): one pass over the captured   *)
(* packets that decides which packets of an endpoint pair belong to the    *)
(* same TCP connection.  A pair may be reused by several connections; each *)
(* gets a generation number, and every later step (flow keys, stream       *)
(* reassembly, shared protocol state) works per generation.                *)
(*                                                                         *)
(* One step of the specification is one round of the for loop.  The        *)
(* packets are an arbitrary sequence over the constant set Packets.        *)
(***************************************************************************)
EXTENDS SeqSpace, Sequences

CONSTANTS
  Pairs,        \* endpoint pairs: endpoint_pair() of a packet, undirected
  Packets,      \* the TCP packets that a capture is made of
  MaxPackets    \* bounds the length of the capture

Sides == {"left", "right"}

(***************************************************************************)
(* A direction is a pair and the side that sends.  The code keeps the      *)
(* addresses and ports of both ends beside the pair; they are determined   *)
(* by the pair and the sending side.                                       *)
(***************************************************************************)
Directions == Pairs \X Sides

Opposite(d) == <<d[1], IF d[2] = "left" THEN "right" ELSE "left">>

(***************************************************************************)
(* What the loop reads of a packet: direction, flags, sequence number and  *)
(* the length of the real TCP payload.                                     *)
(***************************************************************************)
PacketType == [dir : Directions, syn : BOOLEAN, ack : BOOLEAN, fin : BOOLEAN,
               rst : BOOLEAN, seq : SeqNumbers, len : Nat]

ASSUME PacketsAssumption == Packets \subseteq PacketType

\* _TCP_REUSE_SEQ_GAP
ReuseGap == SeqHalf \div 2

NoSeq == -1

VARIABLES
  generations,                \* pair -> generation; 0 stands for "not in generations"
  reset_pairs,                \* pairs whose current connection was reset
  ended_directions,           \* directions that sent a FIN
  last_seq_end_by_direction,  \* end of the latest payload, or NoSeq
  captured,                   \* history: the packets processed so far
  packet_generations          \* the result: captured[i] has generation packet_generations[i]

vars == <<generations, reset_pairs, ended_directions,
          last_seq_end_by_direction, captured, packet_generations>>

Init ==
  /\ generations = [p \in Pairs |-> 0]
  /\ reset_pairs = {}
  /\ ended_directions = {}
  /\ last_seq_end_by_direction = [d \in Directions |-> NoSeq]
  /\ captured = << >>
  /\ packet_generations = << >>

-----------------------------------------------------------------------------
(***************************************************************************)
(* Evidence for a new connection.                                          *)
(***************************************************************************)

PairOf(pkt) == pkt.dir[1]

HasLastEnd(pkt) == last_seq_end_by_direction[pkt.dir] # NoSeq

\* How far the packet starts after the end of the latest payload.
Gap(pkt) == SeqSub(pkt.seq, last_seq_end_by_direction[pkt.dir])

EndedByFinOnly(pkt) == pkt.dir \in ended_directions

Ended(pkt) == PairOf(pkt) \in reset_pairs \/ pkt.dir \in ended_directions

IsRetransmission(pkt) ==
  HasLastEnd(pkt) /\ Gap(pkt) \in TcpSeqMod - ReuseGap .. TcpSeqMod - 1

IsOpeningSyn(pkt) == pkt.syn /\ ~pkt.ack

IsDataAfterEnd(pkt) ==
  ~IsOpeningSyn(pkt) /\ pkt.len > 0 /\ Ended(pkt) /\ ~IsRetransmission(pkt)

IsSeqJump(pkt) ==
  /\ ~IsOpeningSyn(pkt) /\ pkt.len > 0 /\ ~Ended(pkt)
  /\ HasLastEnd(pkt) /\ Gap(pkt) \in ReuseGap .. TcpSeqMod - ReuseGap

-----------------------------------------------------------------------------
(***************************************************************************)
(* What advance_generation leaves of the remembered state: nothing of the  *)
(* pair, everything of the others.                                         *)
(***************************************************************************)
KeptResets(pair, advance) == IF advance THEN reset_pairs \ {pair} ELSE reset_pairs

KeptEnds(pair, advance) ==
  IF advance THEN {d \in ended_directions : d[1] # pair} ELSE ended_directions

AllSeqEnds(pair, advance) == last_seq_end_by_direction

KeptSeqEnds(pair, advance) ==
  [d \in Directions |->
     IF advance /\ d[1] = pair THEN NoSeq ELSE last_seq_end_by_direction[d]]

PayloadEnd(pkt) == SeqAdd(pkt.seq, pkt.len)

(***************************************************************************)
(* The end of a round: the packet gets the pair's generation, its payload  *)
(* end is remembered, and RST and FIN are noted (a packet with both counts *)
(* as a reset).  advance is TRUE when advance_generation ran before.       *)
(***************************************************************************)
AssignGeneration(pkt, advance) ==
  LET pair == PairOf(pkt)
      generation == generations[pair] + (IF advance THEN 1 ELSE 0)
  IN
  /\ generations' = [generations EXCEPT ![pair] = generation]
  /\ last_seq_end_by_direction' =
       IF pkt.len > 0
       THEN [KeptSeqEnds(pair, advance) EXCEPT ![pkt.dir] = PayloadEnd(pkt)]
       ELSE KeptSeqEnds(pair, advance)
  /\ reset_pairs' = KeptResets(pair, advance) \cup (IF pkt.rst THEN {pair} ELSE {})
  /\ ended_directions' =
       KeptEnds(pair, advance) \cup (IF pkt.fin /\ ~pkt.rst THEN {pkt.dir} ELSE {})
  /\ captured' = Append(captured, pkt)
  /\ packet_generations' = Append(packet_generations, generation)

OpenBySyn(pkt) == IsOpeningSyn(pkt) /\ AssignGeneration(pkt, TRUE)

OpenAfterEnd(pkt) == IsDataAfterEnd(pkt) /\ AssignGeneration(pkt, TRUE)

OpenBySeqJump(pkt) == IsSeqJump(pkt) /\ AssignGeneration(pkt, TRUE)

StayInGeneration(pkt) ==
  /\ ~IsOpeningSyn(pkt) /\ ~IsDataAfterEnd(pkt) /\ ~IsSeqJump(pkt)
  /\ AssignGeneration(pkt, FALSE)

Round(pkt) == OpenBySyn(pkt) \/ OpenAfterEnd(pkt) \/ OpenBySeqJump(pkt)
              \/ StayInGeneration(pkt)

Next == /\ Len(captured) < MaxPackets
        /\ \E pkt \in Packets : Round(pkt)

Spec == Init /\ [][Next]_vars

-----------------------------------------------------------------------------
\* The caches of the loop stay within the endpoints and on the ring, whatever comes.
TypeOK ==
  /\ generations \in [Pairs -> Nat]
  /\ reset_pairs \subseteq Pairs
  /\ ended_directions \subseteq Directions
  /\ last_seq_end_by_direction \in [Directions -> SeqNumbers \cup {NoSeq}]
  /\ captured \in Seq(PacketType)
  /\ packet_generations \in Seq(Nat)
  /\ Len(packet_generations) = Len(captured)

\* The captured packets that carry the pair's current generation.
Current(pair) ==
  {i \in 1 .. Len(captured) : /\ PairOf(captured[i]) = pair
                              /\ packet_generations[i] = generations[pair]}

CurrentData(d) == {i \in Current(d[1]) : captured[i].dir = d /\ captured[i].len > 0}

(***************************************************************************)
(* No stale connection state (the claim of advance_generation's docstring: *)
(* "and clears the direction state the old connection left behind").       *)
(* Everything the loop remembers of a pair is what the packets of the      *)
(* pair's current generation alone imply: the pair counts as reset iff a   *)
(* packet of this generation carried RST, a direction as ended iff one of  *)
(* its packets carried FIN, and the remembered payload end is that of the  *)
(* latest data packet of this generation, or absent if there is none.      *)
(***************************************************************************)
ResetsAreCurrent ==
  \A pair \in Pairs :
    pair \in reset_pairs <=> \E i \in Current(pair) : captured[i].rst

EndsAreCurrent ==
  \A d \in Directions :
    d \in ended_directions <=>
      \E i \in Current(d[1]) :
        captured[i].dir = d /\ captured[i].fin /\ ~captured[i].rst

SeqEndsAreCurrent ==
  \A d \in Directions :
    \/ /\ CurrentData(d) = {}
       /\ last_seq_end_by_direction[d] = NoSeq
    \/ \E i \in CurrentData(d) :
         /\ \A j \in CurrentData(d) : j <= i
         /\ last_seq_end_by_direction[d] =
              SeqAdd(captured[i].seq, captured[i].len)

NoStaleState == ResetsAreCurrent /\ EndsAreCurrent /\ SeqEndsAreCurrent

(***************************************************************************)
(* Generations never run backwards: along the capture the generations of a *)
(* pair do not decrease, so a generation is one contiguous stretch of the  *)
(* pair's packets and no packet returns to an older connection.            *)
(***************************************************************************)
GenerationsInOrder ==
  \A i, j \in 1 .. Len(captured) :
    (i < j /\ PairOf(captured[i]) = PairOf(captured[j]))
      => packet_generations[i] <= packet_generations[j]

(***************************************************************************)
(* A connection that was reset takes no fresh data: a data packet that     *)
(* follows a RST of the same generation starts at most ReuseGap before the *)
(* end of the data its direction had sent ("only a recent retransmission", *)
(* flow.py:82).  It relates any two packets of the capture, whatever came  *)
(* in between.                                                             *)
(***************************************************************************)
OnlyRetransmissionsAfterReset ==
  \A i, j \in 1 .. Len(captured) :
    (/\ i < j
     /\ PairOf(captured[i]) = PairOf(captured[j])
     /\ packet_generations[i] = packet_generations[j]
     /\ captured[i].rst /\ captured[j].len > 0)
    => \E k \in 1 .. j - 1 :
         /\ captured[k].dir = captured[j].dir
         /\ captured[k].len > 0
         /\ packet_generations[k] = packet_generations[j]
         /\ SeqSub(captured[j].seq, SeqAdd(captured[k].seq, captured[k].len))
              \in TcpSeqMod - ReuseGap .. TcpSeqMod - 1

(***************************************************************************)
(* No packet carries a generation its pair has not reached; otherwise the  *)
(* packets of an older connection could reappear as current when the       *)
(* generation advances.                                                    *)
(***************************************************************************)
NoFutureGeneration ==
  \A i \in 1 .. Len(captured) :
    packet_generations[i] <= generations[PairOf(captured[i])]

(***************************************************************************)
(* In every state of the loop (assign_tcp_generations): what it remembers  *)
(* is well formed and that of the current generation, and generations run  *)
(* forward.  The conjunction is inductive.                                 *)
(***************************************************************************)
IInv == TypeOK /\ NoFutureGeneration /\ NoStaleState /\ GenerationsInOrder

=============================================================================
