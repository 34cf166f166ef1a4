------------------------- MODULE MCStreamReassembly -------------------------
(***************************************************************************)
(* All captures of at most MaxPayloads payloads of a four-byte stream that *)
(* starts at sequence number 14 of a ring of 16, so that it wraps around.  *)
(* A payload is any piece of the stream of up to three bytes, in any order *)
(* and any number of times, either with the true bytes or with the first   *)
(* byte corrupted; one more payload lies more than half a ring away.       *)
(***************************************************************************)
EXTENDS StreamReassembly

CONSTANT MaxPayloads

MCBytes == {1, 2, 3, 4, 9}

True(start, len) == [i \in 1 .. len |-> start + i]
Corrupted(start, len) == [True(start, len) EXCEPT ![1] = 9]

Pieces == {<<start, len>> \in (0 .. 3) \X (1 .. 3) : start + len <= 4}

MCPayloads ==
  {[seq |-> SeqAdd(14, p[1]), payload |-> True(p[1], p[2])] : p \in Pieces}
  \cup {[seq |-> SeqAdd(14, p[1]), payload |-> Corrupted(p[1], p[2])] : p \in Pieces}
  \cup {[seq |-> SeqAdd(14, 9), payload |-> <<9>>]}

MCCaptures == UNION {[1 .. n -> MCPayloads] : n \in 1 .. MaxPayloads}
=============================================================================
