------------------------------ MODULE SeqSpace ------------------------------
(***************************************************************************)
(* The ring of TCP sequence numbers (src/core/utils.py, src/config.py).    *)
(*                                                                         *)
(* config.py fixes TCP_SEQ_MOD = 2^32 and TCP_SEQ_HALF = 2^31.  Here the   *)
(* half is a parameter, so that TLC can walk the whole ring and TLAPS can  *)
(* prove facts of every ring, the 32-bit one included.                     *)
(***************************************************************************)
EXTENDS Integers

CONSTANT SeqHalf                               \* TCP_SEQ_HALF

ASSUME SeqHalfAssumption == SeqHalf \in Nat \ {0}

TcpSeqMod == 2 * SeqHalf                          \* TCP_SEQ_MOD

SeqNumbers == 0 .. TcpSeqMod - 1

\* What seq_offset returns for a number that lies behind the base.
NoOffset == -1

\* The distance from b forward to a on the ring.
SeqSub(a, b) == (a - b) % TcpSeqMod

\* seq_add: the sequence number offset bytes after base.
SeqAdd(base, offset) == (base + offset) % TcpSeqMod

\* seq_offset: the position of seq in a stream that starts at base.
SeqOffset(seq, base) ==
  IF SeqSub(seq, base) >= SeqHalf THEN NoOffset ELSE SeqSub(seq, base)

=============================================================================
