-------------------------- MODULE TcpConversations --------------------------
(***************************************************************************)
(* TcpGenerations under the captures that real TCP endpoints produce: on   *)
(* each endpoint pair one connection after the other, each with its own    *)
(* initial sequence numbers, segments that are sent, repeated and closed   *)
(* by FIN or RST.  The variables below are the truth that the capture      *)
(* hides; assign_tcp_generations sees the packets only and must recover    *)
(* the connections.                                                        *)
(*                                                                         *)
(* What the capture is assumed to be:                                      *)
(*  - a connection sends at most Window bytes per direction, fewer than    *)
(*    the ReuseGap the heuristics of flow.py are tuned for;                *)
(*  - no packet of an older connection is captured after a newer one began;*)
(*  - a connection whose SYN is not captured follows a RST, or the FINs of *)
(*    both sides, and starts behind the newest data of the pair; or it     *)
(*    follows a connection that sent data both ways, far from its numbers; *)
(*  - such a connection is captured with data before a FIN of it is;       *)
(*  - RepeatAny = FALSE: an endpoint repeats its latest segment only.      *)
(***************************************************************************)
EXTENDS TcpGenerations

CONSTANTS
  MaxConnections,  \* bounds the connections of a pair
  Window,          \* bounds the bytes of a direction of a connection
  Starts,          \* the sequence numbers that the sides of a connection may start at
  RepeatAny        \* TRUE: any segment may be repeated, not just the latest

ASSUME ConversationAssumption ==
  /\ MaxConnections \in Nat
  /\ Window \in Nat /\ Window < ReuseGap
  /\ Starts \subseteq [Sides -> SeqNumbers]
  /\ RepeatAny \in BOOLEAN

VARIABLES
  connection,  \* pair -> number of its present connection, 0 before the first
  first_seq,   \* direction -> sequence number of the connection's first byte
  segments,    \* direction -> the segments sent, as sequence of <<start, end>>
  newest_end,  \* direction -> end of the newest data of any connection, or NoSeq
  closed,      \* directions that sent a FIN
  aborted,     \* pairs whose connection was reset
  unannounced, \* pairs whose connection replaced another one without a captured SYN
  owner        \* history: the connection that captured[i] belongs to

truthVars == <<connection, first_seq, segments, newest_end, closed, aborted,
               unannounced, owner>>
allVars == <<vars, truthVars>>

ConvInit ==
  /\ Init
  /\ connection = [p \in Pairs |-> 0]
  /\ first_seq = [d \in Directions |-> 0]
  /\ segments = [d \in Directions |-> << >>]
  /\ newest_end = [d \in Directions |-> NoSeq]
  /\ closed = {}
  /\ aborted = {}
  /\ unannounced = {}
  /\ owner = << >>

Sent(d) == IF segments[d] = << >> THEN 0 ELSE segments[d][Len(segments[d])][2]

SeqEnd(d) == SeqAdd(first_seq[d], Sent(d))

Packet(d, syn, ack, fin, rst, seq, len) ==
  [dir |-> d, syn |-> syn, ack |-> ack, fin |-> fin, rst |-> rst,
   seq |-> seq, len |-> len]

\* The packet is captured and processed by the loop of flow.py.
Capture(pkt, conn) ==
  /\ Len(captured) < MaxPackets
  /\ Round(pkt)
  /\ owner' = Append(owner, conn)

\* A new connection of pair p whose directions start at the numbers starts[d].
Establish(p, starts) ==
  /\ connection[p] < MaxConnections
  /\ connection' = [connection EXCEPT ![p] = @ + 1]
  /\ first_seq' = [d \in Directions |-> IF d[1] = p THEN starts[d[2]] ELSE first_seq[d]]
  /\ segments' = [d \in Directions |-> IF d[1] = p THEN << >> ELSE segments[d]]
  /\ closed' = {d \in closed : d[1] # p}
  /\ aborted' = aborted \ {p}
  /\ UNCHANGED newest_end

-----------------------------------------------------------------------------
\* A connection begins with a captured SYN.
Connect(p, side, starts) ==
  /\ Establish(p, starts)
  /\ unannounced' = unannounced \ {p}
  /\ Capture(Packet(<<p, side>>, TRUE, FALSE, FALSE, FALSE,
                    SeqSub(starts[side], 1), 0), connection[p] + 1)

\* The handshake continues: SYN+ACK, or the SYN once more.
Handshake(p, side, ack) ==
  /\ connection[p] > 0
  /\ \A s \in Sides : segments[<<p, s>>] = << >> /\ <<p, s>> \notin closed
  /\ p \notin aborted
  /\ Capture(Packet(<<p, side>>, TRUE, ack, FALSE, FALSE,
                    SeqSub(first_seq[<<p, side>>], 1), 0), connection[p])
  /\ unannounced' = IF ack THEN unannounced ELSE unannounced \ {p}
  /\ UNCHANGED <<connection, first_seq, segments, newest_end, closed, aborted>>

\* A new number that flow.py can tell from a repetition of old data.
Distinguishable(d, start) ==
  newest_end[d] # NoSeq
    => SeqSub(start, newest_end[d]) \notin TcpSeqMod - ReuseGap .. TcpSeqMod - 1

FarFrom(d, start) ==
  SeqSub(start, newest_end[d]) \in ReuseGap .. TcpSeqMod - ReuseGap

\* A connection begins whose SYN is missing from the capture.
JoinMidStream(p, starts) ==
  /\ \/ connection[p] = 0
     \/ /\ p \in aborted \/ {p} \X Sides \subseteq closed
        /\ \A s \in Sides : Distinguishable(<<p, s>>, starts[s])
     \/ /\ p \notin aborted /\ closed \cap ({p} \X Sides) = {}
        /\ \A s \in Sides : segments[<<p, s>>] # << >> /\ FarFrom(<<p, s>>, starts[s])
  /\ Establish(p, starts)
  /\ unannounced' = IF connection[p] > 0 THEN unannounced \cup {p} ELSE unannounced
  /\ UNCHANGED <<vars, owner>>

Send(d, n, fin) ==
  /\ connection[d[1]] > 0 /\ d \notin closed /\ d[1] \notin aborted
  /\ Sent(d) + n <= Window
  /\ Capture(Packet(d, FALSE, TRUE, fin, FALSE, SeqEnd(d), n), connection[d[1]])
  /\ segments' = [segments EXCEPT ![d] = Append(@, <<Sent(d), Sent(d) + n>>)]
  /\ newest_end' = [newest_end EXCEPT ![d] = SeqAdd(SeqEnd(d), n)]
  /\ closed' = IF fin THEN closed \cup {d} ELSE closed
  /\ UNCHANGED <<connection, first_seq, aborted, unannounced>>

Repeat(d, k) ==
  /\ RepeatAny \/ k = Len(segments[d])
  /\ Capture(Packet(d, FALSE, TRUE, FALSE, FALSE,
                    SeqAdd(first_seq[d], segments[d][k][1]),
                    segments[d][k][2] - segments[d][k][1]), connection[d[1]])
  /\ UNCHANGED <<connection, first_seq, segments, newest_end, closed, aborted,
                 unannounced>>

Finish(d) ==
  /\ connection[d[1]] > 0 /\ d \notin closed /\ d[1] \notin aborted
  /\ d[1] \in unannounced => segments[d] # << >> \/ segments[Opposite(d)] # << >>
  /\ Capture(Packet(d, FALSE, TRUE, TRUE, FALSE, SeqEnd(d), 0), connection[d[1]])
  /\ closed' = closed \cup {d}
  /\ UNCHANGED <<connection, first_seq, segments, newest_end, aborted, unannounced>>

Abort(d) ==
  /\ connection[d[1]] > 0 /\ d[1] \notin aborted
  /\ Capture(Packet(d, FALSE, FALSE, FALSE, TRUE, SeqEnd(d), 0), connection[d[1]])
  /\ aborted' = aborted \cup {d[1]}
  /\ UNCHANGED <<connection, first_seq, segments, newest_end, closed, unannounced>>

ConvNext ==
  \/ \E p \in Pairs, starts \in Starts :
       JoinMidStream(p, starts) \/ \E side \in Sides : Connect(p, side, starts)
  \/ \E p \in Pairs, side \in Sides, ack \in BOOLEAN : Handshake(p, side, ack)
  \/ \E d \in Directions, n \in 1 .. Window, fin \in BOOLEAN : Send(d, n, fin)
  \/ \E d \in Directions : \E k \in 1 .. Len(segments[d]) : Repeat(d, k)
  \/ \E d \in Directions : Finish(d) \/ Abort(d)

ConvSpec == ConvInit /\ [][ConvNext]_allVars

-----------------------------------------------------------------------------
DataPackets == {i \in 1 .. Len(captured) : captured[i].len > 0}

SamePair(i, j) == PairOf(captured[i]) = PairOf(captured[j])

(***************************************************************************)
(* No connection is split: all data packets of one TCP connection get the  *)
(* same generation, whatever was repeated, closed or reset on the way      *)
(* (flow.py:78: "keep packets from before a FIN or RST from being taken    *)
(* for a new connection when they are retransmitted").                     *)
(***************************************************************************)
ConnectionsAreWhole ==
  \A i, j \in DataPackets :
    (SamePair(i, j) /\ owner[i] = owner[j])
      => packet_generations[i] = packet_generations[j]

(***************************************************************************)
(* No two connections are merged: data packets of different connections of *)
(* a pair get different generations (flow.py:31: the same pair may be      *)
(* reused several times).                                                  *)
(***************************************************************************)
ConnectionsAreApart ==
  \A i, j \in DataPackets :
    (SamePair(i, j) /\ owner[i] # owner[j])
      => packet_generations[i] # packet_generations[j]

=============================================================================
