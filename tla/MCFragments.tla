---------------------------- MODULE MCFragments ----------------------------
(***************************************************************************)
(* Captures of fragments: of a UDP datagram of three fragments, of a TCP   *)
(* datagram of two, of a later UDP datagram with the key of the first one, *)
(* of one that gives a wrong length, and a frame that is not a fragment,   *)
(* captured in any order, some twice, some not at all.                     *)
(***************************************************************************)
EXTENDS Fragments

CONSTANTS
  Pools,       \* sets of fragments to capture from
  MaxCapture   \* bounds the frames of a capture

FirstUdp == <<<<1, 0, 5>>, <<1, 0, 0>>, <<2, 0, 0>>, <<3, 0, 0>>, <<4, 0, 0>>>>
SomeTcp == <<<<5, 0, 5>>>> \o [n \in 1 .. 6 |-> <<5 + n, 0, 0>>]
SecondUdp == <<<<12, 0, 3>>, <<13, 0, 0>>, <<14, 0, 0>>>>
BadLength == <<<<15, 0, 9>>, <<16, 0, 0>>, <<17, 0, 0>>>>
Whole == <<<<18, 0, 0>>>>

Sent == <<FirstUdp, SomeTcp, SecondUdp, BadLength, Whole>>
KeysOf == <<"udp", "tcp", "udp", "udp", "other">>

\* The cells from + 1 to to of a datagram.
Fragment(d, from, to) ==
  [kind |-> "frame",
   key |-> [proto |-> KeysOf[d], id |-> IF d \in {1, 3} THEN 1 ELSE 10 * d],
   offset |-> from, mf |-> to < Len(Sent[d]), data |-> SubSeq(Sent[d], from + 1, to),
   of |-> <<d, 0>>]

OfFirst == {Fragment(1, 0, 2), Fragment(1, 2, 4), Fragment(1, 4, 5)}
OfTcp == {Fragment(2, 0, 4), Fragment(2, 4, 7)}
OfSecond == {Fragment(3, 0, 2), Fragment(3, 2, 3)}
OfBad == {Fragment(4, 0, 2), Fragment(4, 2, 3)}
OfWhole == {Fragment(5, 0, 1)}
AllFragments == OfFirst \cup OfTcp \cup OfSecond \cup OfBad \cup OfWhole

(***************************************************************************)
(* A key is used again only when all fragments of the datagram before have *)
(* been seen, and they are not seen any more (the ID comes around after    *)
(* 65536 datagrams).                                                       *)
(***************************************************************************)
ReusesLate(frames) ==
  \A i, j \in DOMAIN frames :
    LET old == frames[i].of[1]
        new == frames[j].of[1]
    IN  frames[i].key = frames[j].key /\ old < new =>
          /\ i < j
          /\ \A f \in OfFirst : \E n \in 1 .. j : frames[n] = f

\* No first fragment comes again before the datagram is complete.
NoRestart(frames) ==
  \A i, j \in DOMAIN frames :
    i < j /\ frames[i] = frames[j] /\ frames[i].offset = 0 =>
      Cardinality({f \in Range(SubSeq(frames, 1, j)) : f.of = frames[i].of})
        = Cardinality({f \in AllFragments : f.of = frames[i].of})

Sequences == UNION {[1 .. n -> pool] : n \in 2 .. MaxCapture, pool \in Pools}
AllCaptures == {frames \in Sequences : ReusesLate(frames)}

\* The key of a datagram that restarts, and is given up, is not used again.
OneDatagramPerKey(frames) ==
  \A i, j \in DOMAIN frames : frames[i].key = frames[j].key => frames[i].of = frames[j].of

TidyCaptures ==
  {frames \in AllCaptures : NoRestart(frames) \/ OneDatagramPerKey(frames)}

TwoProtocols == {OfFirst \cup OfTcp, OfFirst \cup OfSecond, OfTcp \cup OfBad \cup OfWhole}

\* Shrunk, unchanged and grown; a TCP packet may be deleted or followed by clones.
Lengths == [proto \in {"udp", "tcp"} |->
              IF proto = "udp" THEN {<<2>>, <<3>>, <<5>>, <<9>>, <<17>>}
              ELSE {<<>>, <<5>>, <<7>>, <<9, 7>>, <<5, 8, 5>>}]
=============================================================================
