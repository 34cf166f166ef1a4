------------------------- MODULE MCTcpConversations -------------------------
(***************************************************************************)
(* One endpoint pair, up to MaxConnections connections, up to Window bytes *)
(* per direction and connection, on a ring of 2 * SeqHalf = 16 numbers     *)
(* (ReuseGap 4).  Sequences start at 14, so that they wrap around, or at   *)
(* 6, far from it; two connections have both, one or none of their starts  *)
(* in common.                                                              *)
(***************************************************************************)
EXTENDS TcpConversations

CONSTANT p1

MCPairs == {p1}
Start(left, right) == [side \in Sides |-> IF side = "left" THEN left ELSE right]
MCStarts == {Start(14, 6), Start(6, 14), Start(14, 14)}

MCPackets ==
  [dir : Directions, syn : BOOLEAN, ack : BOOLEAN, fin : BOOLEAN, rst : BOOLEAN,
   seq : SeqNumbers, len : 0 .. Window]
=============================================================================
