----------------------- MODULE TcpConversations_proofs -----------------------
(***************************************************************************)
(* First the loop of assign_tcp_generations alone (TcpGenerations): for    *)
(* every set of pairs, any packets, every capture length and every size of *)
(* the ring, nothing it remembers is stale.  Then the loop on the captures *)
(* of real endpoints (TcpConversations): it recovers the connections, for  *)
(* any number of pairs, connections and packets and any window below the   *)
(* gap, if endpoints repeat their latest segment only.                     *)
(***************************************************************************)
EXTENDS TcpConversations, Coordinates_proofs

(***************************************************************************)
(* Every step of the loop is a call of AssignGeneration.                   *)
(***************************************************************************)
LEMMA NextAssigns ==
  ASSUME Next
  PROVE  \E pkt \in PacketType, advance \in BOOLEAN : AssignGeneration(pkt, advance)
BY PacketsAssumption DEF Next, Round, OpenBySyn, OpenAfterEnd, OpenBySeqJump, StayInGeneration

LEMMA PacketFacts ==
  ASSUME NEW pkt \in PacketType
  PROVE  /\ pkt.dir \in Directions
         /\ PairOf(pkt) \in Pairs
         /\ pkt.len \in Nat
         /\ pkt.seq \in SeqNumbers
         /\ SeqAdd(pkt.seq, pkt.len) \in SeqNumbers
<1>1. pkt.dir \in Directions /\ pkt.len \in Nat /\ pkt.seq \in SeqNumbers
  BY DEF PacketType
<1>2. PairOf(pkt) \in Pairs
  BY <1>1 DEF PairOf, Directions
<1>3. QED
  BY <1>1, <1>2, SeqAddType

USE DEF KeptResets, KeptEnds, KeptSeqEnds, PayloadEnd

(***************************************************************************)
(* Type correctness of assign_tcp_generations.                             *)
(***************************************************************************)
LEMMA TypeInit == Init => TypeOK
BY DEF Init, TypeOK

LEMMA TypeStep ==
  ASSUME TypeOK, NEW pkt \in PacketType, NEW advance \in BOOLEAN,
         AssignGeneration(pkt, advance)
  PROVE  TypeOK'
<1> USE DEF TypeOK
<1>1. generations[PairOf(pkt)] + (IF advance THEN 1 ELSE 0) \in Nat
  BY PacketFacts
<1>2. generations' \in [Pairs -> Nat]
  BY <1>1 DEF AssignGeneration
<1>3. reset_pairs' \subseteq Pairs
  BY PacketFacts DEF AssignGeneration
<1>4. ended_directions' \subseteq Directions
  BY PacketFacts DEF AssignGeneration
<1>5. last_seq_end_by_direction' \in [Directions -> SeqNumbers \cup {NoSeq}]
  BY PacketFacts DEF AssignGeneration
<1>6. captured' \in Seq(PacketType)
  BY PacketFacts DEF AssignGeneration
<1>7. packet_generations' \in Seq(Nat) /\ Len(packet_generations') = Len(captured')
  BY <1>1 DEF AssignGeneration
<1>8. QED
  BY <1>2, <1>3, <1>4, <1>5, <1>6, <1>7

THEOREM TypeCorrect == Spec => []TypeOK
<1>1. TypeOK /\ [Next]_vars => TypeOK'
  <2>1. CASE Next
    BY <2>1, NextAssigns, TypeStep
  <2>2. CASE UNCHANGED vars
    BY <2>2 DEF vars, TypeOK
  <2>3. QED
    BY <2>1, <2>2
<1>2. QED
  BY TypeInit, <1>1, PTL DEF Spec

-----------------------------------------------------------------------------
(***************************************************************************)
(* What a round does to the history: the old entries stay, the new one is  *)
(* last, and it carries the pair's new generation.                         *)
(***************************************************************************)
LEMMA HistoryStep ==
  ASSUME TypeOK, NEW pkt \in PacketType, NEW advance \in BOOLEAN,
         AssignGeneration(pkt, advance)
  PROVE  /\ Len(captured') = Len(captured) + 1
         /\ Len(captured) \in Nat
         /\ \A i \in 1 .. Len(captured) :
              /\ captured'[i] = captured[i]
              /\ packet_generations'[i] = packet_generations[i]
              /\ captured[i] \in PacketType
              /\ PairOf(captured[i]) \in Pairs
              /\ captured[i].dir \in Directions
              /\ packet_generations[i] \in Nat
         /\ captured'[Len(captured) + 1] = pkt
         /\ packet_generations'[Len(captured) + 1] = generations'[PairOf(pkt)]
         /\ generations'[PairOf(pkt)] =
              generations[PairOf(pkt)] + (IF advance THEN 1 ELSE 0)
         /\ \A p \in Pairs : generations[p] \in Nat
         /\ \A p \in Pairs \ {PairOf(pkt)} : generations'[p] = generations[p]
<1> USE DEF TypeOK
<1>1. Len(captured) \in Nat
  OBVIOUS
<1>2. captured' = Append(captured, pkt)
  BY DEF AssignGeneration
<1>3. PairOf(pkt) \in Pairs /\ pkt \in PacketType
  BY PacketFacts
<1>4. /\ generations'[PairOf(pkt)] =
           generations[PairOf(pkt)] + (IF advance THEN 1 ELSE 0)
      /\ \A p \in Pairs \ {PairOf(pkt)} : generations'[p] = generations[p]
  BY <1>3 DEF AssignGeneration
<1>5. packet_generations' = Append(packet_generations, generations'[PairOf(pkt)])
  BY <1>3 DEF AssignGeneration
<1>6. \A i \in 1 .. Len(captured) :
        /\ captured'[i] = captured[i]
        /\ packet_generations'[i] = packet_generations[i]
        /\ captured[i] \in PacketType
        /\ packet_generations[i] \in Nat
  BY <1>2, <1>3, <1>5
<1>7. \A i \in 1 .. Len(captured) :
        captured[i].dir \in Directions /\ PairOf(captured[i]) \in Pairs
  BY <1>6 DEF PacketType, PairOf, Directions
<1>8. \A p \in Pairs : generations[p] \in Nat
  OBVIOUS
<1>9. /\ Len(captured') = Len(captured) + 1
      /\ captured'[Len(captured) + 1] = pkt
      /\ packet_generations'[Len(captured) + 1] = generations'[PairOf(pkt)]
  BY <1>1, <1>2, <1>3, <1>5
<1>10. QED
  BY <1>1, <1>4, <1>6, <1>7, <1>8, <1>9

LEMMA NoFutureStep ==
  ASSUME TypeOK, NoFutureGeneration, NEW pkt \in PacketType, NEW advance \in BOOLEAN,
         AssignGeneration(pkt, advance)
  PROVE  NoFutureGeneration'
<1> SUFFICES ASSUME NEW i \in 1 .. Len(captured')
             PROVE  packet_generations'[i] <= generations'[PairOf(captured'[i])]
  BY DEF NoFutureGeneration, PairOf
<1>1. CASE i = Len(captured) + 1
  <2>1. packet_generations'[i] = generations'[PairOf(captured'[i])]
    BY <1>1, HistoryStep
  <2>2. generations'[PairOf(captured'[i])] \in Nat
    BY <1>1, HistoryStep, PacketFacts
  <2>3. QED
    BY <2>1, <2>2
<1>2. CASE i \in 1 .. Len(captured)
  <2>1. /\ captured'[i] = captured[i]
        /\ packet_generations'[i] = packet_generations[i]
        /\ packet_generations[i] \in Nat
        /\ PairOf(captured[i]) \in Pairs
        /\ generations[PairOf(captured[i])] \in Nat
    BY <1>2, HistoryStep
  <2>2. generations[PairOf(captured[i])] <= generations'[PairOf(captured[i])]
    BY <2>1, HistoryStep, PacketFacts
  <2>3. generations'[PairOf(captured[i])] \in Nat
    BY <2>1, HistoryStep, PacketFacts
  <2>4. packet_generations[i] <= generations[PairOf(captured[i])]
    BY <1>2 DEF NoFutureGeneration
  <2>5. QED
    BY <2>1, <2>2, <2>3, <2>4
<1>3. QED
  BY <1>1, <1>2, HistoryStep

LEMMA InOrderStep ==
  ASSUME TypeOK, NoFutureGeneration, GenerationsInOrder,
         NEW pkt \in PacketType, NEW advance \in BOOLEAN,
         AssignGeneration(pkt, advance)
  PROVE  GenerationsInOrder'
<1> SUFFICES ASSUME NEW i \in 1 .. Len(captured'), NEW j \in 1 .. Len(captured'),
                    i < j, PairOf(captured'[i]) = PairOf(captured'[j])
             PROVE  packet_generations'[i] <= packet_generations'[j]
  BY DEF GenerationsInOrder, PairOf
<1>1. i \in 1 .. Len(captured)
  BY HistoryStep
<1>2. CASE j = Len(captured) + 1
  <2>1. PairOf(captured[i]) = PairOf(pkt)
    BY <1>1, <1>2, HistoryStep
  <2>2. packet_generations[i] <= generations[PairOf(pkt)]
    BY <1>1, <2>1 DEF NoFutureGeneration
  <2>3. QED
    BY <1>1, <1>2, <2>2, HistoryStep, PacketFacts
<1>3. CASE j \in 1 .. Len(captured)
  <2>1. packet_generations[i] <= packet_generations[j]
    BY <1>1, <1>3, HistoryStep DEF GenerationsInOrder
  <2>2. QED
    BY <1>1, <1>3, <2>1, HistoryStep
<1>4. QED
  BY <1>2, <1>3, HistoryStep

(***************************************************************************)
(* How a round changes the set of current packets: the new packet joins    *)
(* its pair's current packets, and an advance drops all others of them.    *)
(***************************************************************************)
LEMMA CurrentStep ==
  ASSUME TypeOK, NoFutureGeneration, NEW pkt \in PacketType, NEW advance \in BOOLEAN,
         AssignGeneration(pkt, advance), NEW pair \in Pairs
  PROVE  Current(pair)' = IF pair # PairOf(pkt) THEN Current(pair)
                          ELSE IF advance THEN {Len(captured) + 1}
                          ELSE Current(pair) \cup {Len(captured) + 1}
<1> DEFINE new == Len(captured) + 1
<1>1. new \in 1 .. Len(captured') /\ new \notin 1 .. Len(captured)
  BY HistoryStep
<1>2. 1 .. Len(captured') = (1 .. Len(captured)) \cup {new}
  BY HistoryStep
<1>3. new \in Current(pair)' <=> pair = PairOf(pkt)
  BY <1>1, HistoryStep DEF Current, PairOf
<1>4. ASSUME NEW i \in 1 .. Len(captured)
      PROVE  i \in Current(pair)' <=>
               /\ PairOf(captured[i]) = pair
               /\ packet_generations[i] = generations'[pair]
  BY <1>2, <1>4, HistoryStep DEF Current, PairOf
<1>5. CASE pair # PairOf(pkt)
  <2>1. generations'[pair] = generations[pair]
    BY <1>5, HistoryStep
  <2>2. \A i \in 1 .. Len(captured) : i \in Current(pair)' <=> i \in Current(pair)
    BY <1>4, <2>1 DEF Current
  <2>3. Current(pair)' \subseteq 1 .. Len(captured') /\ Current(pair) \subseteq 1 .. Len(captured)
    BY DEF Current
  <2>4. Current(pair)' = Current(pair)
    BY <1>2, <1>3, <1>5, <2>2, <2>3
  <2>5. QED
    BY <1>5, <2>4
<1>6. CASE pair = PairOf(pkt) /\ advance
  <2>1. ASSUME NEW i \in 1 .. Len(captured), PairOf(captured[i]) = pair
        PROVE  packet_generations[i] # generations'[pair]
    <3>1. packet_generations[i] <= generations[pair]
      BY <2>1 DEF NoFutureGeneration
    <3>2. generations'[pair] = generations[pair] + 1
      BY <1>6, HistoryStep
    <3>3. packet_generations[i] \in Nat /\ generations[pair] \in Nat
      BY <2>1, HistoryStep
    <3>4. QED
      BY <3>1, <3>2, <3>3
  <2>2. \A i \in 1 .. Len(captured) : i \notin Current(pair)'
    BY <1>4, <2>1
  <2>3. Current(pair)' \subseteq 1 .. Len(captured')
    BY DEF Current
  <2>4. QED
    BY <1>2, <1>3, <1>6, <2>2, <2>3
<1>7. CASE pair = PairOf(pkt) /\ ~advance
  <2>1. generations'[pair] = generations[pair]
    BY <1>7, HistoryStep
  <2>2. \A i \in 1 .. Len(captured) : i \in Current(pair)' <=> i \in Current(pair)
    BY <1>4, <2>1 DEF Current
  <2>3. Current(pair)' \subseteq 1 .. Len(captured') /\ Current(pair) \subseteq 1 .. Len(captured)
    BY DEF Current
  <2>4. QED
    BY <1>1, <1>2, <1>3, <1>7, <2>2, <2>3
<1>8. QED
  BY <1>5, <1>6, <1>7

\* Current packets are old ones: they keep their place in the history.
LEMMA CurrentIsOld ==
  ASSUME TypeOK, NEW pkt \in PacketType, NEW advance \in BOOLEAN,
         AssignGeneration(pkt, advance), NEW pair \in Pairs
  PROVE  /\ Current(pair) \subseteq 1 .. Len(captured)
         /\ \A i \in Current(pair) : captured'[i] = captured[i] /\ i \in Nat
         /\ Len(captured) + 1 \notin Current(pair)
BY HistoryStep DEF Current

LEMMA ResetsStep ==
  ASSUME TypeOK, NoFutureGeneration, ResetsAreCurrent,
         NEW pkt \in PacketType, NEW advance \in BOOLEAN,
         AssignGeneration(pkt, advance)
  PROVE  ResetsAreCurrent'
<1> SUFFICES ASSUME NEW pair \in Pairs
             PROVE  pair \in reset_pairs' <=>
                      \E i \in Current(pair)' : captured'[i].rst
  BY DEF ResetsAreCurrent
<1>1. captured'[Len(captured) + 1] = pkt
  BY HistoryStep
<1>2. pair \in reset_pairs <=> \E i \in Current(pair) : captured[i].rst
  BY DEF ResetsAreCurrent
<1>3. (\E i \in Current(pair) : captured[i].rst)
        <=> \E i \in Current(pair) : captured'[i].rst
  BY CurrentIsOld
<1>4. CASE pair # PairOf(pkt)
  <2>1. Current(pair)' = Current(pair)
    BY <1>4, CurrentStep
  <2>2. pair \in reset_pairs' <=> pair \in reset_pairs
    BY <1>4 DEF AssignGeneration
  <2>3. QED
    BY <1>2, <1>3, <2>1, <2>2
<1>5. CASE pair = PairOf(pkt) /\ advance
  <2>1. Current(pair)' = {Len(captured) + 1}
    BY <1>5, CurrentStep
  <2>2. pair \in reset_pairs' <=> pkt.rst
    BY <1>5 DEF AssignGeneration
  <2>3. QED
    BY <1>1, <2>1, <2>2
<1>6. CASE pair = PairOf(pkt) /\ ~advance
  <2>1. Current(pair)' = Current(pair) \cup {Len(captured) + 1}
    BY <1>6, CurrentStep
  <2>2. pair \in reset_pairs' <=> (pkt.rst \/ pair \in reset_pairs)
    BY <1>6 DEF AssignGeneration
  <2>3. QED
    BY <1>1, <1>2, <1>3, <2>1, <2>2
<1>7. QED
  BY <1>4, <1>5, <1>6

LEMMA EndsStep ==
  ASSUME TypeOK, NoFutureGeneration, EndsAreCurrent,
         NEW pkt \in PacketType, NEW advance \in BOOLEAN,
         AssignGeneration(pkt, advance)
  PROVE  EndsAreCurrent'
<1> DEFINE Closes(q, d) == q.dir = d /\ q.fin /\ ~q.rst
<1> SUFFICES ASSUME NEW d \in Directions
             PROVE  d \in ended_directions' <=>
                      \E i \in Current(d[1])' : Closes(captured'[i], d)
  BY DEF EndsAreCurrent
<1>1. d[1] \in Pairs /\ (d = pkt.dir => d[1] = PairOf(pkt))
  BY DEF Directions, PairOf
<1>2. captured'[Len(captured) + 1] = pkt
  BY HistoryStep
<1>3. d \in ended_directions <=> \E i \in Current(d[1]) : Closes(captured[i], d)
  BY DEF EndsAreCurrent
<1>4. (\E i \in Current(d[1]) : Closes(captured[i], d))
        <=> \E i \in Current(d[1]) : Closes(captured'[i], d)
  BY <1>1, CurrentIsOld
<1> HIDE DEF Closes
<1>5. CASE d[1] # PairOf(pkt)
  <2>1. Current(d[1])' = Current(d[1])
    BY <1>1, <1>5, CurrentStep
  <2>2. d \in ended_directions' <=> d \in ended_directions
    BY <1>1, <1>5 DEF AssignGeneration
  <2>3. QED
    BY <1>3, <1>4, <2>1, <2>2
<1>6. CASE d[1] = PairOf(pkt) /\ advance
  <2>1. Current(d[1])' = {Len(captured) + 1}
    BY <1>1, <1>6, CurrentStep
  <2>2. d \in ended_directions' <=> Closes(pkt, d)
    BY <1>6 DEF AssignGeneration, Closes
  <2>3. QED
    BY <1>2, <2>1, <2>2
<1>7. CASE d[1] = PairOf(pkt) /\ ~advance
  <2>1. Current(d[1])' = Current(d[1]) \cup {Len(captured) + 1}
    BY <1>1, <1>7, CurrentStep
  <2>2. d \in ended_directions' <=> (Closes(pkt, d) \/ d \in ended_directions)
    BY <1>7 DEF AssignGeneration, Closes
  <2>3. QED
    BY <1>2, <1>3, <1>4, <2>1, <2>2
<1>8. QED
  BY <1>5, <1>6, <1>7

\* How a round changes the data packets that are current in a direction.
LEMMA CurrentDataStep ==
  ASSUME TypeOK, NoFutureGeneration, NEW pkt \in PacketType, NEW advance \in BOOLEAN,
         AssignGeneration(pkt, advance), NEW d \in Directions
  PROVE  LET mine == IF d = pkt.dir /\ pkt.len > 0 THEN {Len(captured) + 1} ELSE {}
         IN  CurrentData(d)' = IF advance /\ d[1] = PairOf(pkt)
                               THEN mine ELSE CurrentData(d) \cup mine
<1> DEFINE new == Len(captured) + 1
           Carries(q) == q.dir = d /\ q.len > 0
           mine == IF d = pkt.dir /\ pkt.len > 0 THEN {new} ELSE {}
<1>1. d[1] \in Pairs /\ (d = pkt.dir => d[1] = PairOf(pkt))
  BY DEF Directions, PairOf
<1>2. captured'[new] = pkt
  BY HistoryStep
<1>3. /\ CurrentData(d) = {i \in Current(d[1]) : Carries(captured[i])}
      /\ CurrentData(d)' = {i \in Current(d[1])' : Carries(captured'[i])}
  BY DEF CurrentData
<1>4. /\ \A i \in Current(d[1]) : captured'[i] = captured[i]
      /\ new \notin Current(d[1])
  BY <1>1, CurrentIsOld
<1>5. Current(d[1])' = IF d[1] # PairOf(pkt) THEN Current(d[1])
                       ELSE IF advance THEN {new} ELSE Current(d[1]) \cup {new}
  BY <1>1, CurrentStep
<1>6. Carries(pkt) <=> mine = {new}
  BY DEF Carries
<1>7. ~Carries(pkt) <=> mine = {}
  BY DEF Carries
<1>8. d[1] # PairOf(pkt) => mine = {}
  BY <1>1
<1> HIDE DEF Carries, new, mine
<1>9. CASE d[1] # PairOf(pkt)
  BY <1>3, <1>4, <1>5, <1>8, <1>9 DEF mine
<1>10. CASE d[1] = PairOf(pkt) /\ advance
  BY <1>2, <1>3, <1>5, <1>6, <1>7, <1>10 DEF mine, new
<1>11. CASE d[1] = PairOf(pkt) /\ ~advance
  BY <1>2, <1>3, <1>4, <1>5, <1>6, <1>7, <1>11 DEF mine, new
<1>12. QED
  BY <1>9, <1>10, <1>11 DEF mine, new

LEMMA SeqEndsStep ==
  ASSUME TypeOK, NoFutureGeneration, SeqEndsAreCurrent,
         NEW pkt \in PacketType, NEW advance \in BOOLEAN,
         AssignGeneration(pkt, advance)
  PROVE  SeqEndsAreCurrent'
<1> DEFINE new == Len(captured) + 1
           last == last_seq_end_by_direction
<1> SUFFICES ASSUME NEW d \in Directions
             PROVE  \/ CurrentData(d)' = {} /\ last'[d] = NoSeq
                    \/ \E i \in CurrentData(d)' :
                         /\ \A j \in CurrentData(d)' : j <= i
                         /\ last'[d] = SeqAdd(captured'[i].seq, captured'[i].len)
  BY DEF SeqEndsAreCurrent
<1>1. d[1] \in Pairs /\ (d = pkt.dir => d[1] = PairOf(pkt))
  BY DEF Directions, PairOf
<1>2. captured'[new] = pkt /\ new \in Nat
  BY HistoryStep
<1>3. /\ CurrentData(d) \subseteq 1 .. Len(captured)
      /\ \A i \in CurrentData(d) : captured'[i] = captured[i]
  BY <1>1, CurrentIsOld DEF CurrentData
<1>4. CASE d = pkt.dir /\ pkt.len > 0
  <2>1. last'[d] = SeqAdd(pkt.seq, pkt.len)
    BY <1>4 DEF AssignGeneration, TypeOK
  <2>2. new \in CurrentData(d)' /\ CurrentData(d)' \subseteq CurrentData(d) \cup {new}
    BY <1>4, CurrentDataStep
  <2>3. \A j \in CurrentData(d)' : j <= new
    BY <1>2, <1>3, <2>2, HistoryStep
  <2>4. QED
    BY <1>2, <2>1, <2>2, <2>3
<1>5. CASE ~(d = pkt.dir /\ pkt.len > 0) /\ advance /\ d[1] = PairOf(pkt)
  <2>1. last'[d] = NoSeq
    BY <1>5 DEF AssignGeneration, TypeOK
  <2>2. CurrentData(d)' = {}
    BY <1>5, CurrentDataStep
  <2>3. QED
    BY <2>1, <2>2
<1>6. CASE ~(d = pkt.dir /\ pkt.len > 0) /\ ~(advance /\ d[1] = PairOf(pkt))
  <2>1. last'[d] = last[d]
    BY <1>6 DEF AssignGeneration, TypeOK
  <2>2. CurrentData(d)' = CurrentData(d)
    BY <1>6, CurrentDataStep
  <2>3. QED
    BY <1>3, <2>1, <2>2 DEF SeqEndsAreCurrent
<1>7. QED
  BY <1>4, <1>5, <1>6

-----------------------------------------------------------------------------
LEMMA InvInit == Init => IInv
BY TypeInit DEF Init, IInv, NoFutureGeneration, NoStaleState, ResetsAreCurrent,
   EndsAreCurrent, SeqEndsAreCurrent, GenerationsInOrder, Current, CurrentData

LEMMA InvStep == IInv /\ [Next]_vars => IInv'
<1> SUFFICES ASSUME IInv, [Next]_vars PROVE IInv'
  OBVIOUS
<1>1. CASE Next
  <2>1. PICK pkt \in PacketType, advance \in BOOLEAN : AssignGeneration(pkt, advance)
    BY <1>1, NextAssigns
  <2>2. TypeOK'
    BY <2>1, TypeStep DEF IInv
  <2>3. NoFutureGeneration'
    BY <2>1, NoFutureStep DEF IInv
  <2>4. NoStaleState'
    BY <2>1, ResetsStep, EndsStep, SeqEndsStep DEF IInv, NoStaleState
  <2>5. GenerationsInOrder'
    BY <2>1, InOrderStep DEF IInv
  <2>6. QED
    BY <2>2, <2>3, <2>4, <2>5 DEF IInv
<1>2. CASE UNCHANGED vars
  BY <1>2 DEF vars, IInv, TypeOK, NoFutureGeneration, NoStaleState, ResetsAreCurrent,
     EndsAreCurrent, SeqEndsAreCurrent, GenerationsInOrder, Current, CurrentData, PairOf
<1>3. QED
  BY <1>1, <1>2

(***************************************************************************)
(* The invariant: in every capture the caches of the loop are well formed  *)
(* and hold what the packets of the current generation imply, and          *)
(* generations run forward.                                                *)
(***************************************************************************)
THEOREM Invariance == Spec => []IInv
BY InvInit, InvStep, PTL DEF Spec

(***************************************************************************)
(* advance_generation leaves nothing of the older connection behind: what  *)
(* the loop remembers of a pair is what the pair's current generation      *)
(* implies, in every capture.                                              *)
(***************************************************************************)
THEOREM StateIsNeverStale == Spec => []NoStaleState
<1>1. IInv => NoStaleState
  BY DEF IInv
<1>2. QED
  BY Invariance, <1>1, PTL

(***************************************************************************)
(* Each generation of a pair is one contiguous stretch of its packets.     *)
(***************************************************************************)
THEOREM GenerationsNeverReturn == Spec => []GenerationsInOrder
<1>1. IInv => GenerationsInOrder
  BY DEF IInv
<1>2. QED
  BY Invariance, <1>1, PTL

-----------------------------------------------------------------------------
\* A data packet that joins a reset connection repeats recent data.
LEMMA DataAfterResetRepeats ==
  ASSUME IInv, NEW pkt \in PacketType, Round(pkt), pkt.len > 0,
         NEW i \in 1 .. Len(captured),
         PairOf(captured[i]) = PairOf(pkt), captured[i].rst,
         packet_generations[i] = generations'[PairOf(pkt)]
  PROVE  \E k \in CurrentData(pkt.dir) :
           /\ SeqSub(pkt.seq, SeqAdd(captured[k].seq, captured[k].len))
                 \in TcpSeqMod - ReuseGap .. TcpSeqMod - 1
           /\ generations'[PairOf(pkt)] = generations[PairOf(pkt)]
<1> USE DEF IInv
<1>1. packet_generations[i] <= generations[PairOf(pkt)]
  BY DEF NoFutureGeneration
<1>2. ASSUME AssignGeneration(pkt, TRUE) PROVE FALSE
  <2>1. generations'[PairOf(pkt)] = generations[PairOf(pkt)] + 1
    BY <1>2, HistoryStep
  <2>2. generations[PairOf(pkt)] \in Nat
    BY PacketFacts DEF TypeOK
  <2>3. QED
    BY <1>1, <2>1, <2>2
<1>3. StayInGeneration(pkt)
  BY <1>2 DEF Round, OpenBySyn, OpenAfterEnd, OpenBySeqJump
<1>4. generations'[PairOf(pkt)] = generations[PairOf(pkt)]
  <2>1. generations'[PairOf(pkt)] = generations[PairOf(pkt)] + 0
    BY <1>3, HistoryStep DEF StayInGeneration
  <2>2. QED
    BY <2>1, PacketFacts DEF TypeOK
<1>5. PairOf(pkt) \in reset_pairs
  <2>1. i \in Current(PairOf(pkt))
    BY <1>4 DEF Current
  <2>2. QED
    BY <2>1, PacketFacts DEF NoStaleState, ResetsAreCurrent
<1>6. HasLastEnd(pkt) /\ Gap(pkt) \in TcpSeqMod - ReuseGap .. TcpSeqMod - 1
  BY <1>3, <1>5 DEF StayInGeneration, IsDataAfterEnd, Ended, IsRetransmission
<1>7. PICK k \in CurrentData(pkt.dir) :
        last_seq_end_by_direction[pkt.dir] = SeqAdd(captured[k].seq, captured[k].len)
  BY <1>6, PacketFacts DEF NoStaleState, SeqEndsAreCurrent, HasLastEnd
<1>8. QED
  BY <1>4, <1>6, <1>7 DEF Gap

LEMMA ResetStep ==
  ASSUME IInv, OnlyRetransmissionsAfterReset, Next
  PROVE  OnlyRetransmissionsAfterReset'
<1>1. PICK pkt \in PacketType : Round(pkt)
  BY PacketsAssumption DEF Next
<1>2. PICK advance \in BOOLEAN : AssignGeneration(pkt, advance)
  BY <1>1 DEF Round, OpenBySyn, OpenAfterEnd, OpenBySeqJump, StayInGeneration
<1> DEFINE new == Len(captured) + 1
           Repeats(q, r) == SeqSub(r.seq, SeqAdd(q.seq, q.len))
                              \in TcpSeqMod - ReuseGap .. TcpSeqMod - 1
<1>3. /\ \A i \in 1 .. Len(captured) :
            captured'[i] = captured[i] /\ packet_generations'[i] = packet_generations[i]
      /\ captured'[new] = pkt
      /\ packet_generations'[new] = generations'[PairOf(pkt)]
      /\ 1 .. Len(captured') = (1 .. Len(captured)) \cup {new}
      /\ Len(captured) \in Nat
  BY <1>2, HistoryStep DEF IInv
<1> HIDE DEF Repeats
<1> SUFFICES ASSUME NEW i \in 1 .. Len(captured'), NEW j \in 1 .. Len(captured'),
                    i < j,
                    PairOf(captured'[i]) = PairOf(captured'[j]),
                    packet_generations'[i] = packet_generations'[j],
                    captured'[i].rst, captured'[j].len > 0
             PROVE  \E k \in 1 .. j - 1 :
                      /\ captured'[k].dir = captured'[j].dir
                      /\ captured'[k].len > 0
                      /\ packet_generations'[k] = packet_generations'[j]
                      /\ Repeats(captured'[k], captured'[j])
  BY DEF OnlyRetransmissionsAfterReset, PairOf, Repeats
<1>4. i \in 1 .. Len(captured)
  BY <1>3
<1>5. CASE j = new
  <2>1. PICK k \in CurrentData(pkt.dir) :
          Repeats(captured[k], pkt) /\ generations'[PairOf(pkt)] = generations[PairOf(pkt)]
    BY <1>1, <1>3, <1>4, <1>5, DataAfterResetRepeats DEF Repeats
  <2>2. /\ k \in 1 .. Len(captured)
        /\ captured[k].dir = pkt.dir
        /\ captured[k].len > 0
        /\ packet_generations[k] = generations[PairOf(pkt)]
    BY <2>1 DEF CurrentData, Current, PairOf
  <2>3. k \in 1 .. j - 1
    BY <1>3, <1>5, <2>2
  <2>4. QED
    BY <1>3, <1>5, <2>1, <2>2, <2>3
<1>6. CASE j \in 1 .. Len(captured)
  <2>1. /\ PairOf(captured[i]) = PairOf(captured[j])
        /\ packet_generations[i] = packet_generations[j]
        /\ captured[i].rst /\ captured[j].len > 0
    BY <1>3, <1>4, <1>6
  <2>2. PICK k \in 1 .. j - 1 :
          /\ captured[k].dir = captured[j].dir
          /\ captured[k].len > 0
          /\ packet_generations[k] = packet_generations[j]
          /\ Repeats(captured[k], captured[j])
    BY <1>4, <1>6, <2>1 DEF OnlyRetransmissionsAfterReset, Repeats
  <2>3. k \in 1 .. Len(captured)
    BY <1>3, <1>6
  <2>4. QED
    BY <1>3, <1>6, <2>2, <2>3
<1>7. QED
  BY <1>3, <1>5, <1>6

(***************************************************************************)
(* After a RST the same generation takes nothing but repeats of data its   *)
(* direction sent recently: the guard of flow.py:74-86 keeps a reused      *)
(* endpoint pair out of the reset connection.                              *)
(***************************************************************************)
THEOREM NoFreshDataAfterReset == Spec => []OnlyRetransmissionsAfterReset
<1>1. Init => OnlyRetransmissionsAfterReset
  BY DEF Init, OnlyRetransmissionsAfterReset
<1>2. IInv /\ OnlyRetransmissionsAfterReset /\ [Next]_vars
        => OnlyRetransmissionsAfterReset'
  <2>1. ASSUME OnlyRetransmissionsAfterReset, UNCHANGED vars
        PROVE  OnlyRetransmissionsAfterReset'
    BY <2>1 DEF vars, OnlyRetransmissionsAfterReset, PairOf
  <2>2. QED
    BY <2>1, ResetStep
<1>3. QED
  BY Invariance, <1>1, <1>2, PTL DEF Spec

-----------------------------------------------------------------------------
(***************************************************************************)
(* The inductive invariant.  Of each pair it says that the loop has either *)
(* recovered the present connection, or waits for data of it, which will   *)
(* open a generation.                                                      *)
(***************************************************************************)
TruthTypeOK ==
  /\ connection \in [Pairs -> Nat]
  /\ first_seq \in [Directions -> SeqNumbers]
  /\ segments \in [Directions -> Seq(Nat \X Nat)]
  /\ newest_end \in [Directions -> SeqNumbers \cup {NoSeq}]
  /\ closed \subseteq Directions
  /\ aborted \subseteq Pairs
  /\ unannounced \subseteq Pairs

SegmentsOK ==
  \A d \in Directions : \A k \in 1 .. Len(segments[d]) :
    segments[d][k][1] < segments[d][k][2] /\ segments[d][k][2] <= Window

OwnersOK ==
  /\ owner \in Seq(Nat) /\ Len(owner) = Len(captured)
  /\ \A i \in 1 .. Len(captured) : owner[i] \in 1 .. connection[PairOf(captured[i])]

DirectionsOf(p) == {d \in Directions : d[1] = p}

HasData(p) == \E d \in DirectionsOf(p) : segments[d] # << >>

DataOf(p) == {i \in DataPackets : PairOf(captured[i]) = p}

\* The loop remembers of the pair what is true of its present connection.
FlagsMatch(p) ==
  /\ p \in reset_pairs <=> p \in aborted
  /\ \A d \in DirectionsOf(p) : d \in ended_directions <=> d \in closed

EndsMatch(p) ==
  \A d \in DirectionsOf(p) :
    IF segments[d] = << >> THEN last_seq_end_by_direction[d] = NoSeq
    ELSE last_seq_end_by_direction[d] = SeqEnd(d) /\ newest_end[d] = SeqEnd(d)

PacketsMatch(p) ==
  \A i \in DataOf(p) :
    owner[i] = connection[p] <=> packet_generations[i] = generations[p]

Recovered(p) == FlagsMatch(p) /\ EndsMatch(p) /\ PacketsMatch(p)

\* The first data of the connection, which starts at first_seq, opens a generation.
Retransmitted == TcpSeqMod - ReuseGap .. TcpSeqMod - 1
Jumped == ReuseGap .. TcpSeqMod - ReuseGap

FirstGap(d) == SeqSub(first_seq[d], last_seq_end_by_direction[d])

MustAdvance(d) ==
  IF d[1] \in reset_pairs \/ d \in ended_directions
  THEN last_seq_end_by_direction[d] # NoSeq => FirstGap(d) \notin Retransmitted
  ELSE last_seq_end_by_direction[d] # NoSeq /\ FirstGap(d) \in Jumped

Waits(p) ==
  /\ p \in unannounced
  /\ ~HasData(p)
  /\ DirectionsOf(p) \cap closed = {}
  /\ \A i \in DataOf(p) : owner[i] # connection[p]
  /\ \A d \in DirectionsOf(p) : last_seq_end_by_direction[d] \in {NoSeq, newest_end[d]}
  /\ IF p \in aborted THEN p \in reset_pairs
     ELSE \A d \in DirectionsOf(p) : MustAdvance(d)

Untouched(p) ==
  /\ Recovered(p) /\ ~HasData(p)
  /\ DirectionsOf(p) \cap closed = {} /\ p \notin aborted

PairInv(p) ==
  /\ Recovered(p) \/ Waits(p)
  /\ connection[p] = 0 => Untouched(p)

ConvInv ==
  /\ IInv
  /\ TruthTypeOK
  /\ SegmentsOK
  /\ OwnersOK
  /\ \A p \in Pairs : PairInv(p)
  /\ ConnectionsAreWhole
  /\ ConnectionsAreApart

LEMMA ConvInvInit == ConvInit => ConvInv
<1> SUFFICES ASSUME ConvInit PROVE ConvInv
  OBVIOUS
<1>1. IInv
  BY InvInit DEF ConvInit
<1>2. captured = << >> /\ DataPackets = {} /\ Len(captured) = 0
  BY DEF ConvInit, Init, DataPackets
<1>3. 0 \in SeqNumbers
  BY SeqHalfAssumption DEF SeqNumbers, TcpSeqMod
<1>4. TruthTypeOK
  BY <1>2, <1>3 DEF ConvInit, TruthTypeOK
<1>5. SegmentsOK /\ OwnersOK
  BY <1>2 DEF ConvInit, SegmentsOK, OwnersOK
<1>6. ConnectionsAreWhole /\ ConnectionsAreApart
  BY <1>2 DEF ConnectionsAreWhole, ConnectionsAreApart
<1>7. ASSUME NEW p \in Pairs PROVE PairInv(p)
  <2>1. DataOf(p) = {}
    BY <1>2 DEF DataOf
  <2>2. Recovered(p)
    BY <2>1 DEF ConvInit, Init, Recovered, FlagsMatch, EndsMatch, PacketsMatch, DirectionsOf
  <2>3. QED
    BY <2>2 DEF PairInv, Untouched, HasData, ConvInit, DirectionsOf
<1>8. QED
  BY <1>1, <1>4, <1>5, <1>6, <1>7 DEF ConvInv

-----------------------------------------------------------------------------
\* What a round of the loop does to what it remembers, entry by entry.
LEMMA RoundEffect ==
  ASSUME TypeOK, NEW pkt \in PacketType, NEW advance \in BOOLEAN,
         AssignGeneration(pkt, advance)
  PROVE  /\ \A p \in Pairs :
              p \in reset_pairs' <=>
                IF p = PairOf(pkt) THEN pkt.rst \/ (~advance /\ p \in reset_pairs)
                ELSE p \in reset_pairs
         /\ \A d \in Directions :
              d \in ended_directions' <=>
                \/ d = pkt.dir /\ pkt.fin /\ ~pkt.rst
                \/ d \in ended_directions /\ ~(advance /\ d[1] = PairOf(pkt))
         /\ \A d \in Directions :
              last_seq_end_by_direction'[d] =
                IF d = pkt.dir /\ pkt.len > 0 THEN SeqAdd(pkt.seq, pkt.len)
                ELSE IF advance /\ d[1] = PairOf(pkt) THEN NoSeq
                ELSE last_seq_end_by_direction[d]
<1> USE DEF AssignGeneration, KeptResets, KeptEnds, KeptSeqEnds, PayloadEnd
<1>1. \A p \in Pairs :
        p \in reset_pairs' <=>
          IF p = PairOf(pkt) THEN pkt.rst \/ (~advance /\ p \in reset_pairs)
          ELSE p \in reset_pairs
  OBVIOUS
<1>2. \A d \in Directions :
        d \in ended_directions' <=>
          \/ d = pkt.dir /\ pkt.fin /\ ~pkt.rst
          \/ d \in ended_directions /\ ~(advance /\ d[1] = PairOf(pkt))
  OBVIOUS
<1>3. \A d \in Directions :
        last_seq_end_by_direction'[d] =
          IF d = pkt.dir /\ pkt.len > 0 THEN SeqAdd(pkt.seq, pkt.len)
          ELSE IF advance /\ d[1] = PairOf(pkt) THEN NoSeq
          ELSE last_seq_end_by_direction[d]
  BY DEF TypeOK
<1>4. QED
  BY <1>1, <1>2, <1>3

(***************************************************************************)
(* What a captured packet adds to the history of its pair and of others.   *)
(***************************************************************************)
LEMMA CaptureEffect ==
  ASSUME IInv, OwnersOK, NEW pkt \in PacketType, NEW advance \in BOOLEAN,
         AssignGeneration(pkt, advance), NEW conn \in Nat,
         owner' = Append(owner, conn)
  PROVE  /\ IInv'
         /\ owner' \in Seq(Nat) /\ Len(owner') = Len(captured')
         /\ owner'[Len(captured) + 1] = conn
         /\ \A i \in 1 .. Len(captured) : owner'[i] = owner[i]
         /\ \A p \in Pairs : \A i \in DataOf(p) :
              /\ i \in 1 .. Len(captured)
              /\ owner'[i] = owner[i]
              /\ packet_generations'[i] = packet_generations[i]
         /\ \A p \in Pairs :
              DataOf(p)' = IF p = PairOf(pkt) /\ pkt.len > 0
                           THEN DataOf(p) \cup {Len(captured) + 1} ELSE DataOf(p)
<1> USE DEF IInv
<1>1. IInv'
  BY TypeStep, NoFutureStep, ResetsStep, EndsStep, SeqEndsStep, InOrderStep DEF NoStaleState
<1>2. /\ owner' \in Seq(Nat) /\ Len(owner') = Len(captured')
      /\ owner'[Len(captured) + 1] = conn
      /\ \A i \in 1 .. Len(captured) : owner'[i] = owner[i]
  BY HistoryStep DEF OwnersOK
<1>3. /\ 1 .. Len(captured') = (1 .. Len(captured)) \cup {Len(captured) + 1}
      /\ Len(captured) + 1 \notin 1 .. Len(captured)
      /\ \A i \in 1 .. Len(captured) : captured'[i] = captured[i]
      /\ captured'[Len(captured) + 1] = pkt
  BY HistoryStep
<1>4. ASSUME NEW p \in Pairs, NEW i \in DataOf(p)
      PROVE  /\ i \in 1 .. Len(captured)
             /\ owner'[i] = owner[i]
             /\ packet_generations'[i] = packet_generations[i]
  BY <1>2, <1>4, HistoryStep DEF DataOf, DataPackets
<1>5. ASSUME NEW p \in Pairs
      PROVE  DataOf(p)' = IF p = PairOf(pkt) /\ pkt.len > 0
                          THEN DataOf(p) \cup {Len(captured) + 1} ELSE DataOf(p)
  <2> DEFINE Mine(q) == q.len > 0 /\ PairOf(q) = p
  <2>1. /\ DataOf(p)' = {i \in 1 .. Len(captured') : Mine(captured'[i])}
        /\ DataOf(p) = {i \in 1 .. Len(captured) : Mine(captured[i])}
    BY DEF DataOf, DataPackets, PairOf
  <2>2. Mine(pkt) <=> p = PairOf(pkt) /\ pkt.len > 0
    OBVIOUS
  <2> HIDE DEF Mine
  <2>3. DataOf(p)' = IF Mine(pkt) THEN DataOf(p) \cup {Len(captured) + 1} ELSE DataOf(p)
    BY <1>3, <2>1
  <2>4. QED
    BY <2>2, <2>3
<1>6. QED
  BY <1>1, <1>2, <1>4, <1>5

-----------------------------------------------------------------------------
\* Nothing that the endpoints know of pair p changes.
TruthKept(p) ==
  /\ connection'[p] = connection[p]
  /\ \A d \in DirectionsOf(p) :
       /\ first_seq'[d] = first_seq[d]
       /\ segments'[d] = segments[d]
       /\ newest_end'[d] = newest_end[d]
       /\ d \in closed' <=> d \in closed
  /\ p \in aborted' <=> p \in aborted
  /\ p \in unannounced' <=> p \in unannounced

\* Nothing that the loop remembers and nothing that was captured of it changes.
CodeKept(p) ==
  /\ generations'[p] = generations[p]
  /\ p \in reset_pairs' <=> p \in reset_pairs
  /\ \A d \in DirectionsOf(p) :
       /\ last_seq_end_by_direction'[d] = last_seq_end_by_direction[d]
       /\ d \in ended_directions' <=> d \in ended_directions
  /\ DataOf(p)' = DataOf(p)
  /\ \A i \in DataOf(p) :
       owner'[i] = owner[i] /\ packet_generations'[i] = packet_generations[i]

LEMMA PairIsKept ==
  ASSUME NEW p \in Pairs, TruthKept(p), CodeKept(p), PairInv(p)
  PROVE  PairInv(p)'
<1> USE DEF TruthKept, CodeKept
<1>1. DirectionsOf(p)' = DirectionsOf(p) /\ \A d \in DirectionsOf(p) : d[1] = p
  BY DEF DirectionsOf
<1>2. Recovered(p)' <=> Recovered(p)
  <2>1. FlagsMatch(p)' <=> FlagsMatch(p)
    BY <1>1 DEF FlagsMatch
  <2>2. \A d \in DirectionsOf(p) : SeqEnd(d)' = SeqEnd(d)
    BY DEF SeqEnd, Sent
  <2>3. EndsMatch(p)' <=> EndsMatch(p)
    BY <1>1, <2>2 DEF EndsMatch
  <2>4. PacketsMatch(p)' <=> PacketsMatch(p)
    BY DEF PacketsMatch
  <2>5. QED
    BY <2>1, <2>3, <2>4 DEF Recovered
<1>3. HasData(p)' <=> HasData(p)
  BY <1>1 DEF HasData
<1>4. Waits(p)' <=> Waits(p)
  <2>1. \A d \in DirectionsOf(p) : MustAdvance(d)' <=> MustAdvance(d)
    BY <1>1 DEF MustAdvance, FirstGap
  <2>2. QED
    BY <1>1, <1>3, <2>1 DEF Waits
<1>5. Untouched(p)' <=> Untouched(p)
  BY <1>1, <1>2, <1>3 DEF Untouched
<1>6. QED
  BY <1>2, <1>4, <1>5 DEF PairInv

(***************************************************************************)
(* A packet of one pair leaves the others alone, and if the new generation *)
(* is that of the present connection's data, connections stay whole and    *)
(* apart.                                                                  *)
(***************************************************************************)
LEMMA CaptureStep ==
  ASSUME ConvInv, NEW pkt \in PacketType, NEW advance \in BOOLEAN,
         AssignGeneration(pkt, advance), NEW pair \in Pairs, pair = PairOf(pkt),
         connection'[pair] \in Nat \ {0}, owner' = Append(owner, connection'[pair]),
         TruthTypeOK', SegmentsOK',
         \A p \in Pairs : connection[p] <= connection'[p],
         \A p \in Pairs \ {pair} : TruthKept(p),
         PairInv(pair)',
         pkt.len = 0 \/ PacketsMatch(pair)'
  PROVE  ConvInv'
<1> DEFINE conn == connection'[pair]
           new == Len(captured) + 1
<1>1. conn \in Nat \ {0} /\ pkt.len \in Nat
  BY PacketFacts
<1>2. /\ IInv'
      /\ owner' \in Seq(Nat) /\ Len(owner') = Len(captured')
      /\ owner'[new] = conn
      /\ \A i \in 1 .. Len(captured) : owner'[i] = owner[i]
      /\ \A p \in Pairs : \A i \in DataOf(p) :
           /\ i \in 1 .. Len(captured)
           /\ owner'[i] = owner[i]
           /\ packet_generations'[i] = packet_generations[i]
      /\ \A p \in Pairs :
           DataOf(p)' = IF p = pair /\ pkt.len > 0 THEN DataOf(p) \cup {new} ELSE DataOf(p)
  BY <1>1, CaptureEffect DEF ConvInv
<1>4. /\ Len(captured) \in Nat /\ Len(captured') = new
      /\ captured'[new] = pkt
      /\ packet_generations'[new] = generations'[pair]
      /\ \A i \in 1 .. Len(captured) :
           /\ captured'[i] = captured[i] /\ PairOf(captured[i]) \in Pairs
           /\ packet_generations'[i] = packet_generations[i]
      /\ \A p \in Pairs \ {pair} : generations'[p] = generations[p]
  BY HistoryStep DEF ConvInv, IInv
<1> HIDE DEF conn, new
<1>5. OwnersOK'
  <2> SUFFICES ASSUME NEW i \in 1 .. Len(captured')
               PROVE  owner'[i] \in 1 .. connection'[PairOf(captured'[i])]
    BY <1>2 DEF OwnersOK, PairOf
  <2>1. CASE i = new
    BY <1>1, <1>2, <1>4, <2>1 DEF conn
  <2>2. CASE i \in 1 .. Len(captured)
    <3>1. /\ owner'[i] = owner[i] /\ captured'[i] = captured[i]
          /\ PairOf(captured[i]) \in Pairs
          /\ owner[i] \in 1 .. connection[PairOf(captured[i])]
      BY <1>2, <1>4, <2>2 DEF ConvInv, OwnersOK
    <3>2. /\ connection[PairOf(captured[i])] \in Nat
          /\ connection'[PairOf(captured[i])] \in Nat
          /\ connection[PairOf(captured[i])] <= connection'[PairOf(captured[i])]
      BY <3>1 DEF ConvInv, TruthTypeOK
    <3>3. QED
      BY <3>1, <3>2
  <2>3. i = new \/ i \in 1 .. Len(captured)
    BY <1>4 DEF new
  <2>4. QED
    BY <2>1, <2>2, <2>3
<1>6. ASSUME NEW p \in Pairs PROVE PairInv(p)'
  <2>1. CASE p = pair
    BY <2>1
  <2>2. CASE p # pair
    <3>1. /\ p \in reset_pairs' <=> p \in reset_pairs
          /\ \A d \in DirectionsOf(p) :
               /\ last_seq_end_by_direction'[d] = last_seq_end_by_direction[d]
               /\ d \in ended_directions' <=> d \in ended_directions
      <4>1. TypeOK
        BY DEF ConvInv, IInv
      <4>2. p # PairOf(pkt)
        BY <2>2
      <4>3. \A d \in DirectionsOf(p) : d \in Directions /\ d[1] # PairOf(pkt) /\ d # pkt.dir
        BY <4>2 DEF DirectionsOf, PairOf
      <4>4. QED
        BY <4>1, <4>2, <4>3, RoundEffect
    <3>2. CodeKept(p)
      BY <1>2, <1>4, <2>2, <3>1 DEF CodeKept
    <3>3. TruthKept(p)
      BY <2>2
    <3>4. QED
      BY <3>2, <3>3, PairIsKept DEF ConvInv
  <2>3. QED
    BY <2>1, <2>2
<1>7. ASSUME NEW p \in Pairs, NEW i \in DataOf(p)', NEW j \in DataOf(p)'
      PROVE  owner'[i] = owner'[j] <=> packet_generations'[i] = packet_generations'[j]
  <2>1. CASE i = new \/ j = new
    <3>1. new \notin DataOf(p)
      BY <1>2, <1>4 DEF new
    <3>2. p = pair /\ pkt.len > 0
      BY <1>2, <2>1, <3>1
    <3>3. \A k \in DataOf(p)' :
            owner'[k] = conn <=> packet_generations'[k] = generations'[pair]
      <4>1. pkt.len # 0
        BY <3>2
      <4>2. PacketsMatch(pair)'
        BY <4>1
      <4>3. QED
        BY <3>2, <4>2 DEF PacketsMatch, conn
    <3>4. owner'[new] = conn /\ packet_generations'[new] = generations'[pair]
      BY <1>2, <1>4
    <3>5. QED
      BY <2>1, <3>3, <3>4
  <2>2. CASE i # new /\ j # new
    <3>1. i \in DataOf(p) /\ j \in DataOf(p)
      BY <1>2, <2>2
    <3>2. i \in DataPackets /\ j \in DataPackets /\ SamePair(i, j)
      BY <3>1 DEF DataOf, SamePair
    <3>3. owner[i] = owner[j] <=> packet_generations[i] = packet_generations[j]
      BY <3>2 DEF ConvInv, ConnectionsAreWhole, ConnectionsAreApart
    <3>4. QED
      BY <1>2, <3>1, <3>3
  <2>3. QED
    BY <2>1, <2>2
<1>8. ConnectionsAreWhole' /\ ConnectionsAreApart'
  <2> SUFFICES ASSUME NEW i \in DataPackets', NEW j \in DataPackets', SamePair(i, j)'
               PROVE  owner'[i] = owner'[j]
                        <=> packet_generations'[i] = packet_generations'[j]
    BY DEF ConnectionsAreWhole, ConnectionsAreApart
  <2>1. PairOf(captured'[i]) \in Pairs
    BY <1>4 DEF DataPackets, new
  <2>2. PICK p \in Pairs : p = PairOf(captured'[i])
    BY <2>1
  <2>3. i \in DataOf(p)' /\ j \in DataOf(p)'
    BY <2>2 DEF DataOf, SamePair, PairOf
  <2>4. QED
    BY <1>7, <2>3
<1>9. QED
  BY <1>2, <1>5, <1>6, <1>8 DEF ConvInv

-----------------------------------------------------------------------------
(***************************************************************************)
(* The ring: less than a window back is a retransmission, the next byte is *)
(* neither that nor a jump.                                                *)
(***************************************************************************)
LEMMA GapSize == /\ ReuseGap \in Nat /\ ReuseGap > 0 /\ 2 * ReuseGap <= SeqHalf
                 /\ SeqHalf \in Nat /\ TcpSeqMod = 2 * SeqHalf
                 /\ Window \in Nat /\ Window < ReuseGap
<1>1. ReuseGap \in Nat /\ 2 * ReuseGap <= SeqHalf
  BY SeqHalfAssumption DEF ReuseGap
<1>2. QED
  BY <1>1, SeqHalfAssumption, ConversationAssumption DEF TcpSeqMod

LEMMA GapOfNext ==
  ASSUME NEW seq \in SeqNumbers
  PROVE  SeqSub(seq, seq) \notin Jumped
<1>1. SeqSub(seq, seq) = 0
  BY SeqSubLinear, SeqHalfAssumption DEF SeqNumbers, TcpSeqMod
<1>2. QED
  BY <1>1, GapSize DEF Jumped

LEMMA GapOfRepeat ==
  ASSUME NEW start \in SeqNumbers, NEW a \in Nat, NEW b \in Nat, a < b, b <= Window
  PROVE  /\ SeqAdd(start, a) \in SeqNumbers
         /\ SeqAdd(SeqAdd(start, a), b - a) = SeqAdd(start, b)
         /\ SeqSub(SeqAdd(start, a), SeqAdd(start, b)) \in Retransmitted
         /\ SeqSub(SeqAdd(start, a), SeqAdd(start, b)) \notin Jumped
<1>1. /\ start \in Nat /\ start < TcpSeqMod
      /\ a \in 0 .. TcpSeqMod /\ b \in 0 .. TcpSeqMod /\ b - a \in 0 .. TcpSeqMod
  BY GapSize DEF SeqNumbers
<1>2. PICK first \in SeqNumbers, last \in SeqNumbers :
        first = SeqAdd(start, a) /\ last = SeqAdd(start, b)
  BY SeqAddType
<1>3. /\ first = IF start + a < TcpSeqMod THEN start + a ELSE start + a - TcpSeqMod
      /\ last = IF start + b < TcpSeqMod THEN start + b ELSE start + b - TcpSeqMod
      /\ SeqAdd(first, b - a) = IF first + (b - a) < TcpSeqMod THEN first + (b - a)
                                ELSE first + (b - a) - TcpSeqMod
      /\ SeqSub(first, last) = IF first >= last THEN first - last
                               ELSE first - last + TcpSeqMod
  BY <1>1, <1>2, SeqAddLinear, SeqSubLinear
<1>4. SeqAdd(first, b - a) = last
  BY <1>1, <1>3, GapSize
<1>5. SeqSub(first, last) = TcpSeqMod - (b - a)
  BY <1>1, <1>3, GapSize
<1>6. QED
  BY <1>2, <1>4, <1>5, GapSize DEF Retransmitted, Jumped

-----------------------------------------------------------------------------
\* The bytes a direction has sent.
LEMMA SentFacts ==
  ASSUME TruthTypeOK, SegmentsOK, NEW d \in Directions
  PROVE  /\ Sent(d) \in Nat /\ Sent(d) <= Window
         /\ SeqEnd(d) \in SeqNumbers
         /\ first_seq[d] \in SeqNumbers
         /\ segments[d] \in Seq(Nat \X Nat)
         /\ \A k \in 1 .. Len(segments[d]) :
              /\ segments[d][k][1] \in Nat /\ segments[d][k][2] \in Nat
              /\ segments[d][k][1] < segments[d][k][2]
              /\ segments[d][k][2] <= Window
<1>1. segments[d] \in Seq(Nat \X Nat) /\ first_seq[d] \in SeqNumbers
  BY DEF TruthTypeOK
<1>2. ASSUME NEW k \in 1 .. Len(segments[d])
      PROVE  /\ segments[d][k][1] \in Nat /\ segments[d][k][2] \in Nat
             /\ segments[d][k][1] < segments[d][k][2]
             /\ segments[d][k][2] <= Window
  <2>1. segments[d][k] \in Nat \X Nat
    BY <1>1
  <2>2. QED
    BY <2>1 DEF SegmentsOK
<1>3. Sent(d) \in Nat /\ Sent(d) <= Window
  <2>1. CASE segments[d] = << >>
    BY <2>1, GapSize DEF Sent
  <2>2. CASE segments[d] # << >>
    <3>1. Len(segments[d]) \in 1 .. Len(segments[d])
      BY <1>1, <2>2
    <3>2. QED
      BY <1>2, <2>2, <3>1 DEF Sent
  <2>3. QED
    BY <2>1, <2>2
<1>4. QED
  BY <1>1, <1>2, <1>3, SeqAddType DEF SeqEnd

\* All a round does to its own pair.
PairEffects(pkt, advance, p, conn) ==
  /\ generations[p] \in Nat
  /\ generations'[p] = generations[p] + (IF advance THEN 1 ELSE 0)
  /\ p \in reset_pairs' <=> pkt.rst \/ (~advance /\ p \in reset_pairs)
  /\ \A d \in DirectionsOf(p) :
       /\ d \in ended_directions' <=>
            \/ d = pkt.dir /\ pkt.fin /\ ~pkt.rst
            \/ d \in ended_directions /\ ~advance
       /\ last_seq_end_by_direction'[d] =
            IF d = pkt.dir /\ pkt.len > 0 THEN SeqAdd(pkt.seq, pkt.len)
            ELSE IF advance THEN NoSeq
            ELSE last_seq_end_by_direction[d]
  /\ \A i \in DataOf(p) :
       owner'[i] = owner[i] /\ packet_generations'[i] = packet_generations[i]
  /\ \A i \in DataOf(p) :
       /\ owner[i] \in 1 .. connection[p]
       /\ packet_generations[i] \in Nat
       /\ packet_generations[i] <= generations[p]
  /\ DataOf(p)' = IF pkt.len > 0 THEN DataOf(p) \cup {Len(captured) + 1} ELSE DataOf(p)
  /\ owner'[Len(captured) + 1] = conn
  /\ packet_generations'[Len(captured) + 1] = generations'[p]
  /\ DirectionsOf(p)' = DirectionsOf(p)

LEMMA PairEffect ==
  ASSUME ConvInv, NEW pkt \in PacketType, NEW advance \in BOOLEAN,
         AssignGeneration(pkt, advance), NEW p \in Pairs, p = PairOf(pkt),
         NEW conn \in Nat, owner' = Append(owner, conn)
  PROVE  PairEffects(pkt, advance, p, conn)
<1>1. TypeOK /\ IInv /\ OwnersOK
  BY DEF ConvInv, IInv
<1>2. \A d \in DirectionsOf(p) : d \in Directions /\ d[1] = PairOf(pkt)
  BY DEF DirectionsOf
<1>3. /\ p \in reset_pairs' <=> pkt.rst \/ (~advance /\ p \in reset_pairs)
      /\ \A d \in DirectionsOf(p) :
           /\ d \in ended_directions' <=>
                \/ d = pkt.dir /\ pkt.fin /\ ~pkt.rst
                \/ d \in ended_directions /\ ~advance
           /\ last_seq_end_by_direction'[d] =
                IF d = pkt.dir /\ pkt.len > 0 THEN SeqAdd(pkt.seq, pkt.len)
                ELSE IF advance THEN NoSeq
                ELSE last_seq_end_by_direction[d]
  BY <1>1, <1>2, RoundEffect
<1>4. /\ generations[p] \in Nat
      /\ generations'[p] = generations[p] + (IF advance THEN 1 ELSE 0)
      /\ packet_generations'[Len(captured) + 1] = generations'[p]
  BY <1>1, HistoryStep
<1>5. /\ owner'[Len(captured) + 1] = conn
      /\ DataOf(p)' = IF pkt.len > 0 THEN DataOf(p) \cup {Len(captured) + 1} ELSE DataOf(p)
      /\ \A i \in DataOf(p) :
           owner'[i] = owner[i] /\ packet_generations'[i] = packet_generations[i]
  BY <1>1, CaptureEffect
<1>6. ASSUME NEW i \in DataOf(p)
      PROVE  /\ owner[i] \in 1 .. connection[p]
             /\ packet_generations[i] \in Nat
             /\ packet_generations[i] <= generations[p]
  <2>1. i \in 1 .. Len(captured) /\ PairOf(captured[i]) = p
    BY DEF DataOf, DataPackets
  <2>2. packet_generations[i] \in Nat
    BY <1>1, <2>1, HistoryStep
  <2>3. QED
    BY <1>1, <2>1, <2>2 DEF OwnersOK, IInv, NoFutureGeneration
<1>7. DirectionsOf(p)' = DirectionsOf(p)
  BY DEF DirectionsOf
<1>8. QED
  BY <1>3, <1>4, <1>5, <1>6, <1>7 DEF PairEffects

(***************************************************************************)
(* Packets and generations still match if the generation stays, or if it   *)
(* advances before the connection has data.                                *)
(***************************************************************************)
LEMMA MatchAfter ==
  ASSUME ConvInv, NEW pkt \in PacketType, NEW advance \in BOOLEAN,
         AssignGeneration(pkt, advance), NEW p \in Pairs, p = PairOf(pkt),
         connection'[p] \in Nat, owner' = Append(owner, connection'[p]),
         advance => \A i \in DataOf(p) : owner[i] # connection'[p],
         ~advance => PacketsMatch(p) /\ connection'[p] = connection[p]
  PROVE  PacketsMatch(p)'
<1>1. PICK conn \in Nat : conn = connection'[p]
  OBVIOUS
<1>2. PairEffects(pkt, advance, p, conn)
  BY <1>1, PairEffect
<1> SUFFICES ASSUME NEW i \in DataOf(p)'
             PROVE  owner'[i] = conn <=> packet_generations'[i] = generations'[p]
  BY <1>1 DEF PacketsMatch
<1>3. CASE i = Len(captured) + 1
  BY <1>2, <1>3 DEF PairEffects
<1>4. CASE i \in DataOf(p) /\ advance
  <2>1. /\ owner'[i] = owner[i] /\ packet_generations'[i] = packet_generations[i]
        /\ packet_generations[i] \in Nat /\ packet_generations[i] <= generations[p]
        /\ generations[p] \in Nat /\ generations'[p] = generations[p] + 1
    BY <1>2, <1>4 DEF PairEffects
  <2>2. packet_generations'[i] # generations'[p]
    BY <2>1
  <2>3. QED
    BY <1>1, <1>4, <2>1, <2>2
<1>5. CASE i \in DataOf(p) /\ ~advance
  <2>1. /\ owner'[i] = owner[i] /\ packet_generations'[i] = packet_generations[i]
        /\ generations[p] \in Nat /\ generations'[p] = generations[p] + 0
    BY <1>2, <1>5 DEF PairEffects
  <2>2. generations'[p] = generations[p]
    BY <2>1
  <2>3. QED
    BY <1>1, <1>5, <2>1, <2>2 DEF PacketsMatch
<1>6. QED
  BY <1>2, <1>3, <1>4, <1>5 DEF PairEffects

\* A connection without data has no data packets.
LEMMA NoDataNoPackets ==
  ASSUME ConvInv, NEW p \in Pairs, ~HasData(p), NEW i \in DataOf(p)
  PROVE  owner[i] # connection[p]
<1>1. CASE Waits(p)
  BY <1>1 DEF Waits
<1>2. CASE Recovered(p)
  <2>1. SUFFICES ASSUME owner[i] = connection[p] PROVE FALSE
    OBVIOUS
  <2>2. /\ i \in 1 .. Len(captured) /\ captured[i].len > 0
        /\ PairOf(captured[i]) = p /\ packet_generations[i] = generations[p]
    BY <1>2, <2>1 DEF Recovered, PacketsMatch, DataOf, DataPackets
  <2>3. captured[i] \in PacketType
    BY <2>2 DEF ConvInv, IInv, TypeOK
  <2>4. PICK d \in Directions : d = captured[i].dir
    BY <2>3 DEF PacketType
  <2>5. d[1] = p
    BY <2>2, <2>4 DEF PairOf
  <2>6. i \in CurrentData(d)
    BY <2>2, <2>4, <2>5 DEF CurrentData, Current
  <2>7. last_seq_end_by_direction[d] = NoSeq
    BY <1>2, <2>5 DEF Recovered, EndsMatch, HasData, DirectionsOf
  <2>8. PICK j \in CurrentData(d) :
          last_seq_end_by_direction[d] = SeqAdd(captured[j].seq, captured[j].len)
    BY <2>6 DEF ConvInv, IInv, NoStaleState, SeqEndsAreCurrent
  <2>9. captured[j] \in PacketType
    BY <2>8 DEF CurrentData, Current, ConvInv, IInv, TypeOK
  <2>10. SeqAdd(captured[j].seq, captured[j].len) \in SeqNumbers
    BY <2>9, PacketFacts
  <2>11. QED
    BY <2>7, <2>8, <2>10 DEF NoSeq, SeqNumbers
<1>3. QED
  BY <1>1, <1>2 DEF ConvInv, PairInv

-----------------------------------------------------------------------------
\* The packet that an endpoint sends.
LEMMA PacketFields ==
  ASSUME NEW d \in Directions, NEW syn \in BOOLEAN, NEW ack \in BOOLEAN,
         NEW fin \in BOOLEAN, NEW rst \in BOOLEAN, NEW seq \in SeqNumbers, NEW len \in Nat
  PROVE  LET pkt == Packet(d, syn, ack, fin, rst, seq, len) IN
           /\ pkt \in PacketType
           /\ pkt.dir = d /\ PairOf(pkt) = d[1] /\ d[1] \in Pairs
           /\ pkt.syn = syn /\ pkt.ack = ack /\ pkt.fin = fin /\ pkt.rst = rst
           /\ pkt.seq = seq /\ pkt.len = len
<1>1. d[1] \in Pairs
  BY DEF Directions
<1>2. QED
  BY <1>1 DEF Packet, PacketType, PairOf

LEMMA DirectionFacts ==
  ASSUME NEW p \in Pairs
  PROVE  /\ DirectionsOf(p) = {p} \X Sides
         /\ \A s \in Sides : <<p, s>> \in DirectionsOf(p)
         /\ \A d \in DirectionsOf(p) :
              d \in Directions /\ d[1] = p /\ d[2] \in Sides /\ d = <<p, d[2]>>
BY DEF DirectionsOf, Directions

\* A SYN puts all memory of the pair aside.
LEMMA ReopenStep ==
  ASSUME ConvInv, NEW pkt \in PacketType, AssignGeneration(pkt, TRUE),
         NEW p \in Pairs, p = PairOf(pkt), pkt.len = 0, ~pkt.fin, ~pkt.rst,
         connection'[p] \in Nat \ {0}, owner' = Append(owner, connection'[p]),
         p \notin aborted',
         \A d \in DirectionsOf(p) : segments'[d] = << >> /\ d \notin closed',
         \A i \in DataOf(p) : owner[i] # connection'[p]
  PROVE  PairInv(p)'
<1>1. PICK conn \in Nat : conn = connection'[p]
  OBVIOUS
<1>2. PairEffects(pkt, TRUE, p, conn)
  BY <1>1, PairEffect
<1>3. FlagsMatch(p)'
  BY <1>2 DEF PairEffects, FlagsMatch
<1>4. EndsMatch(p)'
  BY <1>2 DEF PairEffects, EndsMatch
<1>5. PacketsMatch(p)'
  BY MatchAfter
<1>6. QED
  BY <1>3, <1>4, <1>5 DEF PairInv, Recovered

LEMMA EstablishFacts ==
  ASSUME TruthTypeOK, SegmentsOK, NEW p \in Pairs, NEW starts \in Starts,
         Establish(p, starts), unannounced' \subseteq Pairs
  PROVE  /\ TruthTypeOK' /\ SegmentsOK'
         /\ connection'[p] = connection[p] + 1 /\ connection[p] \in Nat
         /\ \A q \in Pairs : connection[q] <= connection'[q]
         /\ \A d \in DirectionsOf(p) :
              /\ segments'[d] = << >> /\ d \notin closed'
              /\ first_seq'[d] = starts[d[2]] /\ first_seq'[d] \in SeqNumbers
         /\ newest_end' = newest_end
         /\ p \notin aborted'
         /\ \A q \in Pairs \ {p} :
              (q \in unannounced' <=> q \in unannounced) => TruthKept(q)
<1> USE DEF TruthTypeOK, Establish
<1>1. starts \in [Sides -> SeqNumbers]
  BY ConversationAssumption
<1>2. \A d \in Directions : d[1] \in Pairs /\ d[2] \in Sides
  BY DEF Directions
<1>3. \A d \in Directions :
        /\ first_seq'[d] = IF d[1] = p THEN starts[d[2]] ELSE first_seq[d]
        /\ segments'[d] = IF d[1] = p THEN << >> ELSE segments[d]
        /\ d \in closed' <=> d \in closed /\ d[1] # p
  OBVIOUS
<1>4. \A q \in Pairs : connection'[q] = IF q = p THEN connection[q] + 1 ELSE connection[q]
  OBVIOUS
<1>5. first_seq' \in [Directions -> SeqNumbers]
  BY <1>1, <1>2
<1>6. segments' \in [Directions -> Seq(Nat \X Nat)]
  OBVIOUS
<1>7. TruthTypeOK'
  BY <1>5, <1>6
<1>8. SegmentsOK'
  BY <1>3 DEF SegmentsOK
<1>9. \A q \in Pairs : connection[q] \in Nat /\ connection[q] <= connection'[q]
  BY <1>4
<1>10. ASSUME NEW d \in DirectionsOf(p)
       PROVE  /\ segments'[d] = << >> /\ d \notin closed'
              /\ first_seq'[d] = starts[d[2]] /\ first_seq'[d] \in SeqNumbers
  BY <1>3, <1>5 DEF DirectionsOf
<1>11. ASSUME NEW q \in Pairs \ {p}, q \in unannounced' <=> q \in unannounced
       PROVE  TruthKept(q)
  BY <1>3, <1>4, <1>11 DEF TruthKept, DirectionsOf
<1>12. QED
  BY <1>4, <1>7, <1>8, <1>9, <1>10, <1>11

LEMMA ConnectStep ==
  ASSUME ConvInv, NEW p \in Pairs, NEW side \in Sides, NEW starts \in Starts,
         Connect(p, side, starts)
  PROVE  ConvInv'
<1>1. starts[side] \in SeqNumbers /\ 1 \in SeqNumbers
  BY ConversationAssumption, SeqHalfAssumption DEF SeqNumbers, TcpSeqMod
<1>2. /\ <<p, side>> \in Directions /\ <<p, side>>[1] = p
      /\ SeqSub(starts[side], 1) \in SeqNumbers
  BY <1>1, SeqSubType DEF Directions
<1> DEFINE pkt == Packet(<<p, side>>, TRUE, FALSE, FALSE, FALSE, SeqSub(starts[side], 1), 0)
<1>p. /\ pkt \in PacketType /\ PairOf(pkt) = p
      /\ pkt.syn /\ ~pkt.ack /\ ~pkt.fin /\ ~pkt.rst /\ pkt.len = 0
  BY <1>2, PacketFields DEF Packet, PairOf
<1> HIDE DEF pkt
<1>3. Round(pkt) /\ owner' = Append(owner, connection[p] + 1)
  BY DEF Connect, Capture, pkt
<1>4. AssignGeneration(pkt, TRUE)
  BY <1>p, <1>3 DEF Round, OpenBySyn, OpenAfterEnd, OpenBySeqJump, StayInGeneration,
     IsOpeningSyn
<1>5. /\ TruthTypeOK' /\ SegmentsOK'
      /\ connection'[p] = connection[p] + 1 /\ connection[p] \in Nat
      /\ \A q \in Pairs : connection[q] <= connection'[q]
      /\ \A d \in DirectionsOf(p) : segments'[d] = << >> /\ d \notin closed'
      /\ p \notin aborted'
      /\ \A q \in Pairs \ {p} : TruthKept(q)
  <2>1. unannounced' \subseteq Pairs /\ \A q \in Pairs \ {p} :
          q \in unannounced' <=> q \in unannounced
    BY DEF ConvInv, TruthTypeOK, Connect
  <2>2. QED
    BY <2>1, EstablishFacts DEF ConvInv, Connect
<1>6. \A i \in DataOf(p) : owner[i] # connection'[p]
  <2>1. \A i \in DataOf(p) : owner[i] \in 1 .. connection[p]
    BY DEF ConvInv, OwnersOK, DataOf, DataPackets
  <2>2. QED
    BY <1>5, <2>1
<1>7. owner' = Append(owner, connection'[p]) /\ connection'[p] \in Nat \ {0}
  BY <1>3, <1>5
<1>8. PairInv(p)'
  BY <1>p, <1>4, <1>5, <1>6, <1>7, ReopenStep
<1>9. QED
  BY <1>p, <1>4, <1>5, <1>7, <1>8, CaptureStep

-----------------------------------------------------------------------------
\* A packet without data that opens no connection leaves the generation.
LEMMA QuietRound ==
  ASSUME NEW pkt \in PacketType, Round(pkt), pkt.len = 0, ~(pkt.syn /\ ~pkt.ack)
  PROVE  AssignGeneration(pkt, FALSE)
<1>1. ~IsOpeningSyn(pkt)
  BY DEF IsOpeningSyn
<1>2. ~IsDataAfterEnd(pkt)
  BY DEF IsDataAfterEnd
<1>3. ~IsSeqJump(pkt)
  BY DEF IsSeqJump
<1>4. QED
  BY <1>1, <1>2, <1>3 DEF Round, OpenBySyn, OpenAfterEnd, OpenBySeqJump, StayInGeneration

LEMMA QuietStep ==
  ASSUME ConvInv, NEW pkt \in PacketType, AssignGeneration(pkt, FALSE),
         NEW p \in Pairs, p = PairOf(pkt), pkt.len = 0, connection[p] \in Nat \ {0},
         owner' = Append(owner, connection[p]),
         UNCHANGED <<connection, first_seq, segments, newest_end, unannounced>>,
         closed' \subseteq Directions, aborted' \subseteq Pairs,
         \A d \in Directions : d[1] # p => (d \in closed' <=> d \in closed),
         \A q \in Pairs \ {p} : q \in aborted' <=> q \in aborted,
         Recovered(p) => FlagsMatch(p)',
         Waits(p) => /\ DirectionsOf(p) \cap closed' = {}
                     /\ p \in aborted' => p \in reset_pairs'
                     /\ p \notin aborted' => p \notin aborted
                     /\ \A d \in DirectionsOf(p) : ~(d = pkt.dir /\ pkt.fin)
                     /\ p \notin aborted' => ~pkt.rst
  PROVE  ConvInv'
<1>1. PICK conn \in Nat : conn = connection[p]
  OBVIOUS
<1>2. PairEffects(pkt, FALSE, p, conn)
  BY <1>1, PairEffect
<1>3. /\ \A d \in DirectionsOf(p) : d \in Directions /\ d[1] = p
      /\ DirectionsOf(p)' = DirectionsOf(p)
  BY DirectionFacts DEF DirectionsOf
<1>4. \A d \in DirectionsOf(p) :
        last_seq_end_by_direction'[d] = last_seq_end_by_direction[d]
  BY <1>2 DEF PairEffects
<1>5. DataOf(p)' = DataOf(p)
  BY <1>2 DEF PairEffects
<1>o. \A i \in DataOf(p) : owner'[i] = owner[i]
  BY <1>2 DEF PairEffects
<1>c. /\ connection'[p] = connection[p] /\ connection'[p] \in Nat \ {0}
      /\ owner' = Append(owner, connection'[p])
  OBVIOUS
<1>6. ASSUME Recovered(p) PROVE PairInv(p)'
  <2>1. EndsMatch(p)'
    <3>1. \A d \in DirectionsOf(p) : SeqEnd(d)' = SeqEnd(d)
      BY DEF SeqEnd, Sent
    <3>2. QED
      BY <1>3, <1>4, <1>6, <3>1 DEF EndsMatch, Recovered
  <2>2. PacketsMatch(p)'
    <3>1. PacketsMatch(p)
      BY <1>6 DEF Recovered
    <3>2. connection'[p] \in Nat
      BY <1>c
    <3>3. QED
      BY <1>c, <3>1, <3>2, MatchAfter
  <2>3. FlagsMatch(p)'
    BY <1>6
  <2>4. Recovered(p)'
    BY <2>1, <2>2, <2>3 DEF Recovered
  <2>5. QED
    BY <1>c, <2>4 DEF PairInv
<1>7. ASSUME Waits(p) PROVE PairInv(p)'
  <2>1. ~HasData(p)'
    BY <1>3, <1>7 DEF HasData, Waits
  <2>a. /\ DirectionsOf(p) \cap closed' = {}
        /\ p \in aborted' => p \in reset_pairs'
    BY <1>7
  <2>2. ASSUME p \notin aborted', NEW d \in DirectionsOf(p) PROVE MustAdvance(d)'
    <3>1. MustAdvance(d)
      BY <1>7, <2>2 DEF Waits
    <3>2. p \in reset_pairs' <=> p \in reset_pairs
      BY <1>2, <1>7, <2>2 DEF PairEffects
    <3>3. d \in ended_directions' <=> d \in ended_directions
      BY <1>2, <1>7 DEF PairEffects
    <3>a. FirstGap(d)' = FirstGap(d)
      BY <1>4 DEF FirstGap
    <3>b. d[1] = p /\ last_seq_end_by_direction'[d] = last_seq_end_by_direction[d]
      BY <1>3, <1>4
    <3>4. QED
      BY <3>1, <3>2, <3>3, <3>a, <3>b DEF MustAdvance
  <2>b. \A i \in DataOf(p)' : owner'[i] # connection'[p]
    BY <1>5, <1>o, <1>c, <1>7 DEF Waits
  <2>c. \A d \in DirectionsOf(p) :
          last_seq_end_by_direction'[d] \in {NoSeq, newest_end'[d]}
    BY <1>4, <1>7 DEF Waits
  <2>u. p \in unannounced'
    BY <1>7 DEF Waits
  <2>d. IF p \in aborted' THEN p \in reset_pairs'
        ELSE \A d \in DirectionsOf(p)' : MustAdvance(d)'
    BY <1>3, <2>a, <2>2
  <2>e. /\ DirectionsOf(p)' \cap closed' = {}
        /\ \A d \in DirectionsOf(p)' :
             last_seq_end_by_direction'[d] \in {NoSeq, newest_end'[d]}
    BY <1>3, <2>a, <2>c
  <2>3. Waits(p)'
    BY <2>1, <2>b, <2>d, <2>e, <2>u DEF Waits
  <2>4. QED
    BY <1>c, <2>3 DEF PairInv
<1>8. PairInv(p)'
  BY <1>6, <1>7 DEF ConvInv, PairInv
<1>9. TruthTypeOK' /\ SegmentsOK' /\ \A q \in Pairs : connection[q] <= connection'[q]
  BY DEF ConvInv, TruthTypeOK, SegmentsOK
<1>10. \A q \in Pairs \ {p} : TruthKept(q)
  BY DEF TruthKept, DirectionsOf
<1>11. connection'[p] \in Nat \ {0} /\ owner' = Append(owner, connection'[p])
  OBVIOUS
<1>12. QED
  BY <1>8, <1>9, <1>10, <1>11, CaptureStep

LEMMA FinishStep ==
  ASSUME ConvInv, NEW d \in Directions, Finish(d)
  PROVE  ConvInv'
<1> DEFINE pkt == Packet(d, FALSE, TRUE, TRUE, FALSE, SeqEnd(d), 0)
<1>1. PICK p \in Pairs : p = d[1]
  BY DEF Directions
<1>2. /\ pkt \in PacketType /\ PairOf(pkt) = p /\ pkt.dir = d
      /\ ~pkt.syn /\ pkt.fin /\ ~pkt.rst /\ pkt.len = 0
  BY <1>1, SentFacts, PacketFields DEF ConvInv, Packet, PairOf
<1>3. Round(pkt) /\ owner' = Append(owner, connection[p])
  BY <1>1 DEF Finish, Capture
<1> HIDE DEF pkt
<1>4. AssignGeneration(pkt, FALSE)
  BY <1>2, <1>3, QuietRound
<1>5. connection[p] \in Nat \ {0}
  BY <1>1 DEF Finish, ConvInv, TruthTypeOK
<1>6. PICK conn \in Nat : conn = connection[p]
  BY <1>5
<1>7. PairEffects(pkt, FALSE, p, conn)
  BY <1>2, <1>3, <1>4, <1>6, PairEffect
<1>8. Recovered(p) => FlagsMatch(p)'
  BY <1>1, <1>2, <1>7 DEF PairEffects, Recovered, FlagsMatch, Finish
<1>9. ~Waits(p)
  <2>1. d \in DirectionsOf(p) /\ Opposite(d) \in DirectionsOf(p)
    BY <1>1 DEF DirectionsOf, Opposite, Directions, Sides
  <2>2. QED
    BY <1>1, <2>1 DEF Waits, HasData, Finish
<1>10. /\ closed' \subseteq Directions /\ aborted' \subseteq Pairs
       /\ \A e \in Directions : e[1] # p => (e \in closed' <=> e \in closed)
       /\ \A q \in Pairs \ {p} : q \in aborted' <=> q \in aborted
       /\ UNCHANGED <<connection, first_seq, segments, newest_end, unannounced>>
  BY <1>1 DEF Finish, ConvInv, TruthTypeOK
<1>11. QED
  BY <1>2, <1>3, <1>4, <1>5, <1>8, <1>9, <1>10, QuietStep

LEMMA AbortStep ==
  ASSUME ConvInv, NEW d \in Directions, Abort(d)
  PROVE  ConvInv'
<1> DEFINE pkt == Packet(d, FALSE, FALSE, FALSE, TRUE, SeqEnd(d), 0)
<1>1. PICK p \in Pairs : p = d[1]
  BY DEF Directions
<1>2. /\ pkt \in PacketType /\ PairOf(pkt) = p /\ pkt.dir = d
      /\ ~pkt.syn /\ ~pkt.fin /\ pkt.rst /\ pkt.len = 0
  BY <1>1, SentFacts, PacketFields DEF ConvInv, Packet, PairOf
<1>3. Round(pkt) /\ owner' = Append(owner, connection[p])
  BY <1>1 DEF Abort, Capture
<1> HIDE DEF pkt
<1>4. AssignGeneration(pkt, FALSE)
  BY <1>2, <1>3, QuietRound
<1>5. connection[p] \in Nat \ {0}
  BY <1>1 DEF Abort, ConvInv, TruthTypeOK
<1>6. PICK conn \in Nat : conn = connection[p]
  BY <1>5
<1>7. PairEffects(pkt, FALSE, p, conn)
  BY <1>2, <1>3, <1>4, <1>6, PairEffect
<1>8. Recovered(p) => FlagsMatch(p)'
  BY <1>1, <1>2, <1>7 DEF PairEffects, Recovered, FlagsMatch, Abort
<1>9. p \in reset_pairs' /\ p \in aborted'
  BY <1>1, <1>2, <1>7 DEF PairEffects, Abort
<1>10. Waits(p) => DirectionsOf(p) \cap closed' = {}
  BY DEF Waits, Abort
<1>11. /\ closed' \subseteq Directions /\ aborted' \subseteq Pairs
       /\ \A e \in Directions : e[1] # p => (e \in closed' <=> e \in closed)
       /\ \A q \in Pairs \ {p} : q \in aborted' <=> q \in aborted
       /\ UNCHANGED <<connection, first_seq, segments, newest_end, unannounced>>
  BY <1>1 DEF Abort, ConvInv, TruthTypeOK
<1>12. QED
  BY <1>2, <1>3, <1>4, <1>5, <1>8, <1>9, <1>10, <1>11, QuietStep

-----------------------------------------------------------------------------
LEMMA HandshakeStep ==
  ASSUME ConvInv, NEW p \in Pairs, NEW side \in Sides, NEW ack \in BOOLEAN,
         Handshake(p, side, ack)
  PROVE  ConvInv'
<1> DEFINE d == <<p, side>>
           pkt == Packet(d, TRUE, ack, FALSE, FALSE, SeqSub(first_seq[d], 1), 0)
<1>1. d \in Directions /\ d[1] = p
  BY DEF Directions
<1>2. SeqSub(first_seq[d], 1) \in SeqNumbers
  <2>1. first_seq[d] \in SeqNumbers /\ 1 \in SeqNumbers
    BY <1>1, SeqHalfAssumption DEF ConvInv, TruthTypeOK, SeqNumbers, TcpSeqMod
  <2>2. QED
    BY <2>1, SeqSubType
<1>3. /\ pkt \in PacketType /\ PairOf(pkt) = p
      /\ pkt.syn /\ (pkt.ack <=> ack) /\ ~pkt.fin /\ ~pkt.rst /\ pkt.len = 0
  BY <1>1, <1>2, PacketFields DEF Packet, PairOf
<1>4. Round(pkt) /\ owner' = Append(owner, connection[p])
  BY DEF Handshake, Capture
<1> HIDE DEF pkt, d
<1>5. /\ connection[p] \in Nat \ {0}
      /\ UNCHANGED <<connection, first_seq, segments, newest_end, closed, aborted>>
      /\ p \notin aborted
      /\ \A e \in DirectionsOf(p) : segments[e] = << >> /\ e \notin closed
      /\ \A q \in Pairs \ {p} : q \in unannounced' <=> q \in unannounced
      /\ unannounced' \subseteq Pairs
  <2>1. connection[p] \in Nat \ {0}
    BY DEF ConvInv, TruthTypeOK, Handshake
  <2>2. \A e \in DirectionsOf(p) : segments[e] = << >> /\ e \notin closed
    BY DirectionFacts DEF Handshake
  <2>3. QED
    BY <2>1, <2>2 DEF ConvInv, TruthTypeOK, Handshake
<1>6. /\ connection'[p] \in Nat \ {0} /\ owner' = Append(owner, connection'[p])
      /\ TruthTypeOK' /\ SegmentsOK'
      /\ \A q \in Pairs : connection[q] <= connection'[q]
      /\ \A q \in Pairs \ {p} : TruthKept(q)
  <2>1. connection'[p] \in Nat \ {0} /\ owner' = Append(owner, connection'[p])
    BY <1>4, <1>5
  <2>2. TruthTypeOK' /\ SegmentsOK' /\ \A q \in Pairs : connection[q] <= connection'[q]
    BY <1>5 DEF ConvInv, TruthTypeOK, SegmentsOK
  <2>3. \A q \in Pairs \ {p} : TruthKept(q)
    BY <1>5 DEF TruthKept
  <2>4. QED
    BY <2>1, <2>2, <2>3
<1>7. CASE ack
  <2>1. AssignGeneration(pkt, FALSE)
    BY <1>3, <1>4, <1>7, QuietRound
  <2>2. PICK conn \in Nat : conn = connection[p]
    BY <1>5
  <2>3. PairEffects(pkt, FALSE, p, conn)
    BY <1>3, <1>4, <2>1, <2>2, PairEffect
  <2>4. FlagsMatch(p) => FlagsMatch(p)'
    BY <1>3, <1>5, <2>3 DEF PairEffects, FlagsMatch
  <2>5. Recovered(p) => FlagsMatch(p)'
    BY <2>4 DEF Recovered
  <2>6. closed' \subseteq Directions /\ aborted' \subseteq Pairs
    BY <1>5 DEF ConvInv, TruthTypeOK
  <2>7. unannounced' = unannounced
    BY <1>7 DEF Handshake
  <2>8. DirectionsOf(p) \cap closed' = {}
    BY <1>5
  <2>9. QED
    BY <1>3, <1>4, <1>5, <2>1, <2>5, <2>6, <2>7, <2>8, QuietStep
<1>8. CASE ~ack
  <2>1. AssignGeneration(pkt, TRUE)
    BY <1>3, <1>4, <1>8 DEF Round, OpenBySyn, OpenAfterEnd, OpenBySeqJump, StayInGeneration,
       IsOpeningSyn
  <2>2. \A i \in DataOf(p) : owner[i] # connection'[p]
    BY <1>5, NoDataNoPackets DEF HasData
  <2>3. PairInv(p)'
    BY <1>3, <1>5, <1>6, <2>1, <2>2, ReopenStep
  <2>4. QED
    BY <1>3, <1>6, <2>1, <2>3, CaptureStep
<1>9. QED
  BY <1>7, <1>8

LEMMA JoinStep ==
  ASSUME ConvInv, NEW p \in Pairs, NEW starts \in Starts, JoinMidStream(p, starts)
  PROVE  ConvInv'
<1>1. UNCHANGED vars /\ UNCHANGED owner /\ Establish(p, starts)
  BY DEF JoinMidStream
<1>2. unannounced' = IF connection[p] > 0 THEN unannounced \cup {p} ELSE unannounced
  BY DEF JoinMidStream
<1>3. /\ unannounced' \subseteq Pairs
      /\ \A q \in Pairs \ {p} : q \in unannounced' <=> q \in unannounced
  BY <1>2 DEF ConvInv, TruthTypeOK
<1>4. /\ TruthTypeOK' /\ SegmentsOK'
      /\ connection'[p] = connection[p] + 1 /\ connection[p] \in Nat
      /\ \A q \in Pairs : connection[q] <= connection'[q]
      /\ \A d \in DirectionsOf(p) :
           /\ segments'[d] = << >> /\ d \notin closed'
           /\ first_seq'[d] = starts[d[2]] /\ first_seq'[d] \in SeqNumbers
      /\ newest_end' = newest_end
      /\ p \notin aborted'
      /\ \A q \in Pairs \ {p} : TruthKept(q)
  BY <1>1, <1>3, EstablishFacts DEF ConvInv
<1>5. IInv'
  BY <1>1, InvStep DEF ConvInv
<1>6. /\ generations' = generations /\ reset_pairs' = reset_pairs
      /\ ended_directions' = ended_directions
      /\ last_seq_end_by_direction' = last_seq_end_by_direction
      /\ captured' = captured /\ packet_generations' = packet_generations
      /\ owner' = owner
  BY <1>1 DEF vars
<1>7. \A q \in Pairs : DataOf(q)' = DataOf(q) /\ DirectionsOf(q)' = DirectionsOf(q)
  BY <1>6 DEF DataOf, DataPackets, PairOf, DirectionsOf
<1>8. OwnersOK'
  <2>1. owner \in Seq(Nat) /\ Len(owner) = Len(captured)
    BY DEF ConvInv, OwnersOK
  <2>2. ASSUME NEW i \in 1 .. Len(captured)
        PROVE  owner[i] \in 1 .. connection'[PairOf(captured[i])]
    <3>1. owner[i] \in 1 .. connection[PairOf(captured[i])] /\ PairOf(captured[i]) \in Pairs
      BY PacketFacts DEF ConvInv, OwnersOK, IInv, TypeOK
    <3>2. PICK q \in Pairs : q = PairOf(captured[i])
      BY <3>1
    <3>3. connection[q] \in Nat /\ connection'[q] \in Nat /\ connection[q] <= connection'[q]
      BY <1>4 DEF ConvInv, TruthTypeOK
    <3>4. QED
      BY <3>1, <3>2, <3>3
  <2>3. QED
    BY <1>6, <2>1, <2>2 DEF OwnersOK, PairOf
<1>9. ConnectionsAreWhole' /\ ConnectionsAreApart'
  BY <1>6 DEF ConvInv, ConnectionsAreWhole, ConnectionsAreApart, DataPackets, SamePair, PairOf
<1>10. ASSUME NEW q \in Pairs, q # p PROVE PairInv(q)'
  <2>1. CodeKept(q)
    BY <1>6, <1>7 DEF CodeKept
  <2>2. TruthKept(q)
    BY <1>4, <1>10
  <2>3. QED
    BY <2>1, <2>2, PairIsKept DEF ConvInv
<1>11. \A d \in DirectionsOf(p) : d \in Directions /\ d[1] = p /\ d[2] \in Sides
                                  /\ d = <<p, d[2]>>
  BY DirectionFacts
<1>12. \A i \in DataOf(p) : owner[i] \in 1 .. connection[p]
  BY DEF ConvInv, OwnersOK, DataOf, DataPackets
<1>13. ASSUME connection[p] = 0 PROVE Recovered(p)'
  <2>1. Recovered(p) /\ ~HasData(p) /\ DirectionsOf(p) \cap closed = {} /\ p \notin aborted
    BY <1>13 DEF ConvInv, PairInv, Untouched
  <2>2. FlagsMatch(p)'
    BY <1>4, <1>6, <1>7, <2>1 DEF FlagsMatch, Recovered
  <2>3. EndsMatch(p)'
    BY <1>4, <1>6, <1>7, <2>1 DEF EndsMatch, Recovered, HasData
  <2>4. DataOf(p) = {}
    BY <1>12, <1>13
  <2>5. PacketsMatch(p)'
    BY <1>7, <2>4 DEF PacketsMatch
  <2>6. QED
    BY <2>2, <2>3, <2>5 DEF Recovered
<1>14. ASSUME connection[p] # 0 PROVE Waits(p)'
  <2>1. p \in unannounced'
    BY <1>2, <1>4, <1>14
  <2>2. ~HasData(p)' /\ DirectionsOf(p)' \cap closed' = {}
    BY <1>4, <1>7 DEF HasData
  <2>3. \A i \in DataOf(p)' : owner'[i] # connection'[p]
    BY <1>4, <1>6, <1>7, <1>12
  <2>4. \A d \in DirectionsOf(p) : last_seq_end_by_direction[d] \in {NoSeq, newest_end[d]}
    BY DEF ConvInv, PairInv, Waits, Recovered, EndsMatch
  <2>5. ASSUME NEW d \in DirectionsOf(p)
        PROVE  MustAdvance(d)'
    <3> DEFINE last == last_seq_end_by_direction[d]
    <3>1. FirstGap(d)' = SeqSub(starts[d[2]], last)
      BY <1>4, <1>6 DEF FirstGap
    <3>2. CASE /\ p \in aborted \/ {p} \X Sides \subseteq closed
               /\ \A s \in Sides : Distinguishable(<<p, s>>, starts[s])
      <4>1. p \in reset_pairs \/ d \in ended_directions
        <5>1. CASE Waits(p)
          <6>1. p \in aborted
            BY <1>11, <3>2, <5>1 DEF Waits
          <6>2. QED
            BY <5>1, <6>1 DEF Waits
        <5>2. CASE Recovered(p)
          BY <1>11, <3>2, <5>2 DEF Recovered, FlagsMatch
        <5>3. QED
          BY <5>1, <5>2 DEF ConvInv, PairInv
      <4>2. last # NoSeq => SeqSub(starts[d[2]], last) \notin Retransmitted
        <5>1. Distinguishable(d, starts[d[2]])
          BY <1>11, <3>2
        <5>2. QED
          BY <2>4, <5>1 DEF Distinguishable, Retransmitted
      <4>3. QED
        BY <1>6, <1>11, <3>1, <4>1, <4>2 DEF MustAdvance, Retransmitted
    <3>3. CASE /\ p \notin aborted /\ closed \cap ({p} \X Sides) = {}
               /\ \A s \in Sides : segments[<<p, s>>] # << >> /\ FarFrom(<<p, s>>, starts[s])
      <4>1. segments[d] # << >> /\ d \notin closed /\ FarFrom(d, starts[d[2]])
        BY <1>11, <3>3
      <4>2. Recovered(p)
        BY <4>1 DEF ConvInv, PairInv, Waits, HasData
      <4>3. p \notin reset_pairs /\ d \notin ended_directions
        BY <3>3, <4>1, <4>2 DEF Recovered, FlagsMatch
      <4>4. last = SeqEnd(d) /\ newest_end[d] = SeqEnd(d)
        BY <4>1, <4>2 DEF Recovered, EndsMatch
      <4>5. last # NoSeq
        BY <1>11, <4>4, SentFacts DEF ConvInv, NoSeq, SeqNumbers
      <4>6. SeqSub(starts[d[2]], last) \in Jumped
        BY <4>1, <4>4 DEF FarFrom, Jumped
      <4>7. QED
        BY <1>6, <1>11, <3>1, <4>3, <4>5, <4>6 DEF MustAdvance, Jumped
    <3>4. QED
      BY <1>14, <3>2, <3>3 DEF JoinMidStream
  <2>6. QED
    BY <1>4, <1>6, <1>7, <2>1, <2>2, <2>3, <2>4, <2>5 DEF Waits
<1>15. PairInv(p)'
  BY <1>4, <1>13, <1>14 DEF PairInv
<1>16. QED
  BY <1>4, <1>5, <1>8, <1>9, <1>10, <1>15 DEF ConvInv

-----------------------------------------------------------------------------
(***************************************************************************)
(* Data of a connection that the loop has recovered, and that ends where   *)
(* the direction's data now ends, stays in the generation.                 *)
(***************************************************************************)
LEMMA DataStays ==
  ASSUME NEW pkt \in PacketType, Round(pkt), ~pkt.syn,
         Ended(pkt) => IsRetransmission(pkt),
         ~Ended(pkt) /\ HasLastEnd(pkt) => Gap(pkt) \notin Jumped
  PROVE  AssignGeneration(pkt, FALSE)
<1>1. ~IsOpeningSyn(pkt)
  BY DEF IsOpeningSyn
<1>2. ~IsDataAfterEnd(pkt)
  BY DEF IsDataAfterEnd
<1>3. ~IsSeqJump(pkt)
  BY DEF IsSeqJump, Jumped
<1>4. QED
  BY <1>1, <1>2, <1>3 DEF Round, OpenBySyn, OpenAfterEnd, OpenBySeqJump, StayInGeneration

\* Data that the pair waits for opens a generation.
LEMMA DataOpens ==
  ASSUME NEW pkt \in PacketType, Round(pkt), ~pkt.syn, pkt.len > 0,
         MustAdvance(pkt.dir), pkt.seq = first_seq[pkt.dir]
  PROVE  AssignGeneration(pkt, TRUE)
<1>1. ~IsOpeningSyn(pkt) /\ Gap(pkt) = FirstGap(pkt.dir)
  BY DEF IsOpeningSyn, Gap, FirstGap
<1>2. CASE Ended(pkt)
  <2>1. ~IsRetransmission(pkt)
    BY <1>1, <1>2 DEF IsRetransmission, HasLastEnd, MustAdvance, Ended, PairOf, Retransmitted
  <2>2. IsDataAfterEnd(pkt)
    BY <1>1, <1>2, <2>1 DEF IsDataAfterEnd
  <2>3. QED
    BY <2>2 DEF Round, OpenBySyn, OpenAfterEnd, OpenBySeqJump, StayInGeneration
<1>3. CASE ~Ended(pkt)
  <2>1. HasLastEnd(pkt) /\ Gap(pkt) \in ReuseGap .. TcpSeqMod - ReuseGap
    BY <1>1, <1>3 DEF HasLastEnd, MustAdvance, Ended, PairOf, Jumped
  <2>2. IsSeqJump(pkt)
    BY <1>1, <1>3, <2>1 DEF IsSeqJump
  <2>3. QED
    BY <2>2 DEF Round, OpenBySyn, OpenAfterEnd, OpenBySeqJump, StayInGeneration
<1>4. QED
  BY <1>2, <1>3

(***************************************************************************)
(* A data packet after which its direction ends where the packet ends: the *)
(* pair is recovered, if the generation stayed in a recovered pair or      *)
(* opened for a connection without data.                                   *)
(***************************************************************************)
LEMMA DataStep ==
  ASSUME ConvInv, NEW pkt \in PacketType, NEW advance \in BOOLEAN,
         AssignGeneration(pkt, advance), NEW p \in Pairs, p = PairOf(pkt),
         pkt.len > 0, ~pkt.rst,
         NEW d \in Directions, d = pkt.dir,
         connection[p] \in Nat \ {0}, UNCHANGED connection,
         owner' = Append(owner, connection[p]),
         TruthTypeOK', SegmentsOK', \A q \in Pairs \ {p} : TruthKept(q),
         aborted' = aborted,
         closed' = IF pkt.fin THEN closed \cup {d} ELSE closed,
         \A e \in DirectionsOf(p) :
           e # d => segments'[e] = segments[e] /\ newest_end'[e] = newest_end[e]
                    /\ SeqEnd(e)' = SeqEnd(e),
         segments'[d] # << >>,
         newest_end'[d] = SeqAdd(pkt.seq, pkt.len),
         SeqEnd(d)' = SeqAdd(pkt.seq, pkt.len),
         ~advance => Recovered(p),
         advance => ~HasData(p) /\ p \notin aborted /\ DirectionsOf(p) \cap closed = {}
  PROVE  ConvInv'
<1>1. PICK conn \in Nat : conn = connection[p]
  OBVIOUS
<1>2. PairEffects(pkt, advance, p, conn)
  BY <1>1, PairEffect
<1>3. FlagsMatch(p)'
  <2>1. CASE advance
    BY <1>2, <2>1 DEF PairEffects, FlagsMatch
  <2>2. CASE ~advance
    BY <1>2, <2>2 DEF PairEffects, FlagsMatch, Recovered
  <2>3. QED
    BY <2>1, <2>2
<1>4. ASSUME NEW e \in DirectionsOf(p)
      PROVE  IF segments'[e] = << >> THEN last_seq_end_by_direction'[e] = NoSeq
             ELSE last_seq_end_by_direction'[e] = SeqEnd(e)' /\ newest_end'[e] = SeqEnd(e)'
  <2>1. ASSUME e = d
        PROVE  last_seq_end_by_direction'[d] = SeqAdd(pkt.seq, pkt.len)
    BY <1>2, <2>1 DEF PairEffects
  <2>2. CASE e # d /\ advance
    BY <1>2, <2>2 DEF PairEffects, HasData
  <2>3. CASE e # d /\ ~advance
    BY <1>2, <2>3 DEF PairEffects, Recovered, EndsMatch
  <2>4. QED
    BY <2>1, <2>2, <2>3
<1>5. EndsMatch(p)'
  <2>1. DirectionsOf(p)' = DirectionsOf(p)
    BY DEF DirectionsOf
  <2>2. QED
    BY <1>4, <2>1 DEF EndsMatch
<1>6. connection'[p] \in Nat \ {0} /\ owner' = Append(owner, connection'[p])
  OBVIOUS
<1>7. PacketsMatch(p)'
  <2>1. advance => \A i \in DataOf(p) : owner[i] # connection'[p]
    BY NoDataNoPackets
  <2>2. ~advance => PacketsMatch(p) /\ connection'[p] = connection[p]
    BY DEF Recovered
  <2>3. QED
    BY <1>6, <2>1, <2>2, MatchAfter
<1>8. PairInv(p)'
  BY <1>3, <1>5, <1>6, <1>7 DEF PairInv, Recovered
<1>9. \A q \in Pairs : connection[q] <= connection'[q]
  BY DEF ConvInv, TruthTypeOK
<1>10. QED
  BY <1>6, <1>7, <1>8, <1>9, CaptureStep

LEMMA SendStep ==
  ASSUME ConvInv, NEW d \in Directions, NEW n \in 1 .. Window, NEW fin \in BOOLEAN,
         Send(d, n, fin)
  PROVE  ConvInv'
<1> DEFINE pkt == Packet(d, FALSE, TRUE, fin, FALSE, SeqEnd(d), n)
<1>1. PICK p \in Pairs : p = d[1]
  BY DEF Directions
<1>2. /\ Sent(d) \in Nat /\ Sent(d) + n <= Window /\ n \in Nat /\ n > 0
      /\ SeqEnd(d) \in SeqNumbers /\ first_seq[d] \in SeqNumbers
      /\ segments[d] \in Seq(Nat \X Nat)
  BY SentFacts, GapSize DEF ConvInv, Send
<1>3. /\ pkt \in PacketType /\ PairOf(pkt) = p /\ pkt.dir = d
      /\ ~pkt.syn /\ (pkt.fin <=> fin) /\ ~pkt.rst /\ pkt.seq = SeqEnd(d)
      /\ pkt.len = n /\ pkt.len > 0
  BY <1>1, <1>2, PacketFields DEF Packet, PairOf
<1>4. Round(pkt) /\ owner' = Append(owner, connection[p])
  BY <1>1 DEF Send, Capture
<1> HIDE DEF pkt
<1>5. /\ connection[p] \in Nat \ {0} /\ d \notin closed /\ p \notin aborted
      /\ UNCHANGED <<connection, first_seq, aborted, unannounced>>
      /\ closed' = IF pkt.fin THEN closed \cup {d} ELSE closed
      /\ segments' = [segments EXCEPT ![d] = Append(@, <<Sent(d), Sent(d) + n>>)]
      /\ newest_end' = [newest_end EXCEPT ![d] = SeqAdd(SeqEnd(d), n)]
  BY <1>1, <1>3 DEF Send, ConvInv, TruthTypeOK
<1>6. PICK added \in Nat \X Nat :
        added = <<Sent(d), Sent(d) + n>> /\ added[1] = Sent(d) /\ added[2] = Sent(d) + n
  <2>1. PICK first \in Nat, last \in Nat : first = Sent(d) /\ last = Sent(d) + n
    BY <1>2
  <2>2. <<first, last>> \in Nat \X Nat
    OBVIOUS
  <2>3. QED
    BY <2>1, <2>2
<1>7. /\ segments'[d] = Append(segments[d], added)
      /\ Len(segments'[d]) = Len(segments[d]) + 1 /\ Len(segments[d]) \in Nat
      /\ segments'[d] # << >> /\ segments'[d] \in Seq(Nat \X Nat)
      /\ segments'[d][Len(segments[d]) + 1] = added
      /\ \A k \in 1 .. Len(segments[d]) : segments'[d][k] = segments[d][k]
      /\ \A e \in Directions \ {d} : segments'[e] = segments[e]
  <2>1. segments'[d] = Append(segments[d], added)
    BY <1>5, <1>6 DEF ConvInv, TruthTypeOK
  <2>2. \A e \in Directions \ {d} : segments'[e] = segments[e]
    BY <1>5 DEF ConvInv, TruthTypeOK
  <2>3. PICK old \in Seq(Nat \X Nat) : old = segments[d]
    BY <1>2
  <2>4. /\ Len(Append(old, added)) = Len(old) + 1 /\ Len(old) \in Nat
        /\ Append(old, added) \in Seq(Nat \X Nat)
        /\ Append(old, added)[Len(old) + 1] = added
    OBVIOUS
  <2>5. \A k \in 1 .. Len(old) : Append(old, added)[k] = old[k]
    OBVIOUS
  <2>6. Append(old, added) # << >>
    BY <2>4
  <2>7. QED
    BY <2>1, <2>2, <2>3, <2>4, <2>5, <2>6
<1>8. /\ newest_end'[d] = SeqAdd(SeqEnd(d), n)
      /\ SeqAdd(SeqEnd(d), n) \in SeqNumbers
      /\ \A e \in Directions \ {d} : newest_end'[e] = newest_end[e]
  BY <1>2, <1>5, SeqAddType DEF ConvInv, TruthTypeOK
<1>9. SeqEnd(d)' = SeqAdd(SeqEnd(d), n)
  <2>1. PICK b \in Nat : b = Sent(d) + n
    BY <1>2
  <2>2. Sent(d)' = b
    BY <1>6, <1>7, <2>1 DEF Sent
  <2>3. Sent(d) < b /\ b <= Window /\ b - Sent(d) = n
    BY <1>2, <2>1
  <2>4. SeqAdd(SeqAdd(first_seq[d], Sent(d)), b - Sent(d)) = SeqAdd(first_seq[d], b)
    BY <1>2, <2>3, GapOfRepeat
  <2>5. QED
    BY <1>5, <2>2, <2>3, <2>4 DEF SeqEnd
<1>10. TruthTypeOK'
  <2>1. segments' \in [Directions -> Seq(Nat \X Nat)]
    <3>1. segments \in [Directions -> Seq(Nat \X Nat)]
      BY DEF ConvInv, TruthTypeOK
    <3>2. Append(segments[d], added) \in Seq(Nat \X Nat)
      BY <1>2
    <3>3. segments' = [segments EXCEPT ![d] = Append(segments[d], added)]
      BY <1>5, <1>6
    <3>4. QED
      BY <3>1, <3>2, <3>3
  <2>2. newest_end' \in [Directions -> SeqNumbers \cup {NoSeq}]
    BY <1>5, <1>8 DEF ConvInv, TruthTypeOK
  <2>3. closed' \subseteq Directions
    BY <1>3, <1>5 DEF ConvInv, TruthTypeOK
  <2>4. QED
    BY <1>5, <2>1, <2>2, <2>3 DEF ConvInv, TruthTypeOK
<1>11. SegmentsOK'
  <2> SUFFICES ASSUME NEW e \in Directions, NEW k \in 1 .. Len(segments'[e])
               PROVE  segments'[e][k][1] < segments'[e][k][2]
                      /\ segments'[e][k][2] <= Window
    BY DEF SegmentsOK
  <2>1. CASE e = d /\ k = Len(segments[d]) + 1
    <3>1. segments'[e][k] = added
      BY <1>7, <2>1
    <3>2. QED
      BY <1>2, <1>6, <3>1
  <2>2. CASE e # d \/ k # Len(segments[d]) + 1
    <3>1. k \in 1 .. Len(segments[e]) /\ segments'[e][k] = segments[e][k]
      <4>1. CASE e # d
        <5>1. segments'[e] = segments[e]
          BY <1>7, <4>1
        <5>2. QED
          BY <5>1
      <4>2. CASE e = d
        <5>1. k \in 1 .. Len(segments[d]) + 1 /\ k # Len(segments[d]) + 1
          BY <1>7, <2>2, <4>2
        <5>2. k \in 1 .. Len(segments[d])
          BY <1>7, <5>1
        <5>3. QED
          BY <1>7, <4>2, <5>2
      <4>3. QED
        BY <4>1, <4>2
    <3>2. QED
      BY <3>1 DEF ConvInv, SegmentsOK
  <2>3. QED
    BY <2>1, <2>2
<1>12. \A q \in Pairs \ {p} : TruthKept(q)
  <2>1. \A q \in Pairs \ {p} : \A e \in DirectionsOf(q) : e \in Directions \ {d}
    BY <1>1 DEF DirectionsOf
  <2>2. QED
    BY <1>3, <1>5, <1>7, <1>8, <2>1 DEF TruthKept
<1>13. \A e \in DirectionsOf(p) :
         e # d => segments'[e] = segments[e] /\ newest_end'[e] = newest_end[e]
                  /\ SeqEnd(e)' = SeqEnd(e)
  BY <1>3, <1>5, <1>7, <1>8 DEF DirectionsOf, SeqEnd, Sent
<1>14. /\ segments'[d] # << >>
       /\ newest_end'[d] = SeqAdd(pkt.seq, pkt.len)
       /\ SeqEnd(d)' = SeqAdd(pkt.seq, pkt.len)
  BY <1>3, <1>7, <1>8, <1>9
<1>15. d \in DirectionsOf(p)
  BY <1>1 DEF DirectionsOf
<1>16. CASE Recovered(p)
  <2>1. ~Ended(pkt)
    BY <1>3, <1>5, <1>15, <1>16 DEF Ended, Recovered, FlagsMatch
  <2>2. HasLastEnd(pkt) => Gap(pkt) \notin Jumped
    <3>1. last_seq_end_by_direction[d] \in {NoSeq, SeqEnd(d)}
      BY <1>15, <1>16 DEF Recovered, EndsMatch
    <3>2. QED
      BY <1>2, <1>3, <3>1, GapOfNext DEF HasLastEnd, Gap
  <2>3. AssignGeneration(pkt, FALSE)
    BY <1>3, <1>4, <2>1, <2>2, DataStays
  <2>4. QED
    BY <1>3, <1>4, <1>5, <1>10, <1>11, <1>12, <1>13, <1>14, <1>16, <2>3, DataStep
<1>17. CASE Waits(p)
  <2>1. /\ ~HasData(p) /\ DirectionsOf(p) \cap closed = {}
        /\ MustAdvance(d) /\ segments[d] = << >>
    BY <1>5, <1>15, <1>17 DEF Waits, HasData
  <2>2. SeqEnd(d) = first_seq[d]
    BY <1>2, <2>1, SeqAddLinear, GapSize DEF SeqEnd, Sent, SeqNumbers
  <2>3. AssignGeneration(pkt, TRUE)
    BY <1>3, <1>4, <2>1, <2>2, DataOpens
  <2>4. QED
    BY <1>3, <1>4, <1>5, <1>10, <1>11, <1>12, <1>13, <1>14, <2>1, <2>3, DataStep
<1>18. QED
  BY <1>16, <1>17 DEF ConvInv, PairInv

LEMMA RepeatStep ==
  ASSUME RepeatAny = FALSE, ConvInv, NEW d \in Directions,
         NEW k \in 1 .. Len(segments[d]), Repeat(d, k)
  PROVE  ConvInv'
<1> DEFINE a == segments[d][k][1]
           b == segments[d][k][2]
           pkt == Packet(d, FALSE, TRUE, FALSE, FALSE, SeqAdd(first_seq[d], a), b - a)
<1>1. PICK p \in Pairs : p = d[1]
  BY DEF Directions
<1>2. k = Len(segments[d]) /\ segments[d] # << >> /\ d \in DirectionsOf(p)
  BY <1>1 DEF Repeat, ConvInv, TruthTypeOK, DirectionsOf
<1>3. /\ first_seq[d] \in SeqNumbers
      /\ a \in Nat /\ b \in Nat /\ a < b /\ b <= Window
  BY SentFacts DEF ConvInv
<1>4. b - a \in Nat /\ b - a > 0
  BY <1>3
<1>5. /\ SeqAdd(first_seq[d], a) \in SeqNumbers
      /\ SeqAdd(SeqAdd(first_seq[d], a), b - a) = SeqAdd(first_seq[d], b)
      /\ SeqSub(SeqAdd(first_seq[d], a), SeqAdd(first_seq[d], b)) \in Retransmitted
      /\ SeqSub(SeqAdd(first_seq[d], a), SeqAdd(first_seq[d], b)) \notin Jumped
  BY <1>3, GapOfRepeat
<1>6. SeqEnd(d) = SeqAdd(first_seq[d], b)
  BY <1>2 DEF SeqEnd, Sent
<1>7. /\ pkt \in PacketType /\ PairOf(pkt) = p /\ pkt.dir = d
      /\ ~pkt.syn /\ ~pkt.fin /\ ~pkt.rst /\ pkt.seq = SeqAdd(first_seq[d], a)
      /\ pkt.len = b - a
  <2> HIDE DEF a, b
  <2>1. QED
    BY <1>1, <1>4, <1>5, PacketFields DEF Packet, PairOf
<1>8. /\ Round(pkt) /\ owner' = Append(owner, connection[p])
      /\ UNCHANGED <<connection, first_seq, segments, newest_end, closed, aborted,
                     unannounced>>
  BY <1>1 DEF Repeat, Capture
<1> HIDE DEF pkt, a, b
<1>9. Recovered(p) /\ connection[p] \in Nat \ {0}
  <2>1. HasData(p)
    BY <1>2 DEF HasData
  <2>2. QED
    BY <2>1 DEF ConvInv, PairInv, Waits, Untouched, TruthTypeOK
<1>10. last_seq_end_by_direction[d] = SeqEnd(d) /\ newest_end[d] = SeqEnd(d)
  BY <1>2, <1>9 DEF Recovered, EndsMatch
<1>11. Gap(pkt) \in Retransmitted /\ Gap(pkt) \notin Jumped /\ HasLastEnd(pkt)
  <2>1. SeqEnd(d) # NoSeq
    BY SentFacts DEF ConvInv, NoSeq, SeqNumbers
  <2>2. QED
    BY <1>5, <1>6, <1>7, <1>10, <2>1 DEF Gap, HasLastEnd
<1>12. AssignGeneration(pkt, FALSE)
  BY <1>7, <1>8, <1>11, DataStays DEF IsRetransmission, Retransmitted
<1>13. TruthTypeOK' /\ SegmentsOK' /\ \A q \in Pairs \ {p} : TruthKept(q)
  BY <1>8 DEF ConvInv, TruthTypeOK, SegmentsOK, TruthKept
<1>14. \A e \in Directions : SeqEnd(e)' = SeqEnd(e)
  BY <1>8 DEF SeqEnd, Sent
<1>15. /\ segments'[d] # << >>
       /\ newest_end'[d] = SeqAdd(pkt.seq, pkt.len)
       /\ SeqEnd(d)' = SeqAdd(pkt.seq, pkt.len)
  BY <1>2, <1>5, <1>6, <1>7, <1>8, <1>10, <1>14
<1>16. \A e \in DirectionsOf(p) :
         e # d => segments'[e] = segments[e] /\ newest_end'[e] = newest_end[e]
                  /\ SeqEnd(e)' = SeqEnd(e)
  BY <1>8, <1>14 DEF DirectionsOf
<1>17. pkt.len > 0
  BY <1>4, <1>7
<1>18. QED
  BY <1>7, <1>8, <1>9, <1>12, <1>13, <1>15, <1>16, <1>17, DataStep

-----------------------------------------------------------------------------
LEMMA ConvStutter ==
  ASSUME ConvInv, UNCHANGED allVars
  PROVE  ConvInv'
<1>1. UNCHANGED vars /\ UNCHANGED truthVars
  BY DEF allVars
<1>2. IInv' /\ TruthTypeOK' /\ SegmentsOK' /\ OwnersOK'
  <2>1. IInv'
    BY <1>1, InvStep DEF ConvInv
  <2>2. QED
    BY <1>1, <2>1 DEF vars, truthVars, ConvInv, TruthTypeOK, SegmentsOK, OwnersOK, PairOf
<1>3. ConnectionsAreWhole' /\ ConnectionsAreApart'
  BY <1>1 DEF vars, truthVars, ConvInv, ConnectionsAreWhole, ConnectionsAreApart,
     DataPackets, SamePair, PairOf
<1>4. ASSUME NEW p \in Pairs PROVE PairInv(p)'
  <2>1. TruthKept(p)
    BY <1>1 DEF truthVars, TruthKept
  <2>2. CodeKept(p)
    BY <1>1 DEF vars, truthVars, CodeKept, DataOf, DataPackets, PairOf
  <2>3. QED
    BY <2>1, <2>2, PairIsKept DEF ConvInv
<1>5. QED
  BY <1>2, <1>3, <1>4 DEF ConvInv

LEMMA ConvInvStep ==
  ASSUME RepeatAny = FALSE
  PROVE  ConvInv /\ [ConvNext]_allVars => ConvInv'
<1> SUFFICES ASSUME ConvInv, [ConvNext]_allVars PROVE ConvInv'
  OBVIOUS
<1>1. CASE \E p \in Pairs, starts \in Starts :
             JoinMidStream(p, starts) \/ \E side \in Sides : Connect(p, side, starts)
  BY <1>1, JoinStep, ConnectStep
<1>2. CASE \E p \in Pairs, side \in Sides, ack \in BOOLEAN : Handshake(p, side, ack)
  BY <1>2, HandshakeStep
<1>3. CASE \E d \in Directions, n \in 1 .. Window, fin \in BOOLEAN : Send(d, n, fin)
  BY <1>3, SendStep
<1>4. CASE \E d \in Directions : \E k \in 1 .. Len(segments[d]) : Repeat(d, k)
  BY <1>4, RepeatStep
<1>5. CASE \E d \in Directions : Finish(d) \/ Abort(d)
  BY <1>5, FinishStep, AbortStep
<1>6. CASE UNCHANGED allVars
  BY <1>6, ConvStutter
<1>7. QED
  BY <1>1, <1>2, <1>3, <1>4, <1>5, <1>6 DEF ConvNext

(***************************************************************************)
(* The inductive invariant, for endpoints that repeat their latest segment *)
(* only.  Without that hypothesis ConnectionsAreWhole is false: a          *)
(* repetition from further back makes flow.py forget the end of the data.  *)
(***************************************************************************)
THEOREM ConversationInvariance ==
  ASSUME RepeatAny = FALSE
  PROVE  ConvSpec => []ConvInv
<1>1. ConvInv /\ [ConvNext]_allVars => ConvInv'
  BY ConvInvStep
<1>2. QED
  BY <1>1, ConvInvInit, PTL DEF ConvSpec

(***************************************************************************)
(* No connection is split over generations by retransmissions, FINs and    *)
(* RSTs (flow.py:74-86), for any number of pairs and connections.          *)
(***************************************************************************)
THEOREM NoConnectionIsSplit ==
  ASSUME RepeatAny = FALSE
  PROVE  ConvSpec => []ConnectionsAreWhole
<1>1. ConvInv => ConnectionsAreWhole
  BY DEF ConvInv
<1>2. QED
  BY <1>1, ConversationInvariance, PTL

(***************************************************************************)
(* No generation holds data of two connections, with captured SYNs or      *)
(* without (flow.py:55-99).                                                *)
(***************************************************************************)
THEOREM NoConnectionsAreMerged ==
  ASSUME RepeatAny = FALSE
  PROVE  ConvSpec => []ConnectionsAreApart
<1>1. ConvInv => ConnectionsAreApart
  BY DEF ConvInv
<1>2. QED
  BY <1>1, ConversationInvariance, PTL

=============================================================================
