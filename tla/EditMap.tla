------------------------------ MODULE EditMap ------------------------------
(***************************************************************************)
(* The edit list of a rewritten stream (compute_edits) and the coordinates *)
(* it induces (map_offset), src/core/utils.py.                             *)
(*                                                                         *)
(* An edit replaces old_stream[start:end] by new_stream[new_start:new_end].*)
(* compute_edits keeps the replacement but not new_start; here new_start   *)
(* is kept as well, for the properties: map_offset reads the difference    *)
(* new_end - new_start only, the length of the replacement.                *)
(***************************************************************************)
EXTENDS Integers, Sequences

Edit == [start : Nat, end : Nat, new_start : Nat, new_end : Nat]

(***************************************************************************)
(* What difflib's opcodes other than "equal" look like for streams of old  *)
(* length n and new length m: in order, each replacing, deleting or        *)
(* inserting something, with at least one equal byte between two of them.  *)
(***************************************************************************)
IsEditList(edits, n, m) ==
  /\ edits \in Seq(Edit)
  /\ \A i \in 1 .. Len(edits) :
       /\ edits[i].start <= edits[i].end
       /\ edits[i].new_start <= edits[i].new_end
       /\ edits[i].start < edits[i].end \/ edits[i].new_start < edits[i].new_end
  /\ \A i, j \in 1 .. Len(edits) :
       i < j => /\ edits[i].end < edits[j].start
                /\ edits[i].new_end < edits[j].new_start
  /\ \A i \in 1 .. Len(edits) - 1 :
       edits[i + 1].start - edits[i].end = edits[i + 1].new_start - edits[i].new_end
  /\ IF edits = << >> THEN n = m
     ELSE LET last == edits[Len(edits)] IN
          /\ edits[1].start = edits[1].new_start
          /\ last.end <= n /\ n - last.end = m - last.new_end

NewLen(edits, n) ==
  IF edits = << >> THEN n
  ELSE n - edits[Len(edits)].end + edits[Len(edits)].new_end

(***************************************************************************)
(* map_offset.  Its loop skips the edits that end at or before the offset; *)
(* delta is then the difference of the two coordinates behind the last of  *)
(* them.  An offset within the next edit lands within its replacement.     *)
(* MapOffsetLoop has the loop itself and the proof that it computes this.  *)
(***************************************************************************)
PassedBefore(offset, edits) ==
  CHOOSE i \in 0 .. Len(edits) :
    /\ \A j \in 1 .. i : edits[j].end < offset
    /\ i < Len(edits) => offset <= edits[i + 1].end

Passed(offset, edits) ==
  CHOOSE i \in 0 .. Len(edits) :
    /\ \A j \in 1 .. i : edits[j].end <= offset
    /\ i < Len(edits) => offset < edits[i + 1].end

Delta(i, edits) == IF i = 0 THEN 0 ELSE edits[i].new_end - edits[i].end

MinOf(a, b) == IF a <= b THEN a ELSE b

MapOffset(offset, edits) ==
  LET i == Passed(offset, edits) IN
  IF i < Len(edits) /\ edits[i + 1].start <= offset
  THEN edits[i + 1].start + Delta(i, edits)
       + MinOf(offset - edits[i + 1].start,
               edits[i + 1].new_end - edits[i + 1].new_start)
  ELSE offset + Delta(i, edits)

-----------------------------------------------------------------------------
(***************************************************************************)
(* The streams, byte by byte: <<"old", p>> is the byte at offset p of      *)
(* old_stream, <<"new", q>> a replacement byte at offset q of new_stream.  *)
(***************************************************************************)
OldStream(n) == [i \in 1 .. n |-> <<"old", i - 1>>]

\* The edits whose replacement ends at or before offset q of the new stream.
Completed(q, edits) ==
  CHOOSE i \in 0 .. Len(edits) :
    /\ \A j \in 1 .. i : edits[j].new_end <= q
    /\ i < Len(edits) => q < edits[i + 1].new_end

NewByte(q, edits) ==
  IF \E j \in 1 .. Len(edits) : edits[j].new_start <= q /\ q < edits[j].new_end
  THEN <<"new", q>>
  ELSE <<"old", q - Delta(Completed(q, edits), edits)>>

NewStream(edits, n) == [i \in 1 .. NewLen(edits, n) |-> NewByte(i - 1, edits)]

\* stream[from:to]; like Python's, it stops at the end of the stream.
Slice(stream, from, to) == SubSeq(stream, from + 1, MinOf(to, Len(stream)))

=============================================================================
