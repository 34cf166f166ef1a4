--------------------------- MODULE MapOffsetLoop ---------------------------
(***************************************************************************)
(* The loop of map_offset (src/core/utils.py), one round per step.  It     *)
(* adds up the growth of the edits it passes in delta; EditMap!MapOffset   *)
(* says in closed form where the offset should land.                       *)
(***************************************************************************)
EXTENDS EditMap

CONSTANT Inputs   \* records [offset, edits, old_len]

ASSUME InputsAssumption ==
  \A input \in Inputs :
    /\ input.offset \in Nat /\ input.old_len \in Nat
    /\ IsEditList(input.edits, input.old_len, NewLen(input.edits, input.old_len))

VARIABLES
  input,    \* the arguments
  round,    \* the edit looked at next
  delta,
  result    \* the return value, or NoResult

vars == <<input, round, delta, result>>

NoResult == -1

offset == input.offset
edits == input.edits
Replacement(i) == edits[i].new_end - edits[i].new_start
Replaced(i) == edits[i].end - edits[i].start

Init ==
  /\ input \in Inputs
  /\ round = 1
  /\ delta = 0
  /\ result = NoResult

InLoop == result = NoResult /\ round <= Len(edits)

\* "offset >= end: delta += new_len - old_len; continue"
GrowthWithoutOld(i) == Replacement(i)
GrowthOf(i) == Replacement(i) - Replaced(i)

PassEdit ==
  /\ InLoop /\ offset >= edits[round].start /\ offset >= edits[round].end
  /\ delta' = delta + GrowthOf(round)
  /\ round' = round + 1
  /\ UNCHANGED <<input, result>>

\* "return start + delta + min(offset - start, new_len)"
LandInEdit ==
  /\ InLoop /\ offset >= edits[round].start /\ offset < edits[round].end
  /\ result' = edits[round].start + delta
               + MinOf(offset - edits[round].start, Replacement(round))
  /\ UNCHANGED <<input, round, delta>>

\* "if offset < start: break", or the edits are used up.
LandBehindEdits ==
  /\ result = NoResult
  /\ round <= Len(edits) => offset < edits[round].start
  /\ result' = offset + delta
  /\ UNCHANGED <<input, round, delta>>

Next == PassEdit \/ LandInEdit \/ LandBehindEdits

Spec == Init /\ [][Next]_vars

-----------------------------------------------------------------------------
(***************************************************************************)
(* The loop computes the closed form: for a kept byte, the coordinate that *)
(* difflib reported and compute_edits dropped.                             *)
(***************************************************************************)
LoopComputesMapOffset == result # NoResult => result = MapOffset(offset, edits)

(***************************************************************************)
(* Kept bytes keep their place: a byte of the old stream that no edit      *)
(* replaces is found in the new stream at the mapped offset.  The SEQ of   *)
(* every segment and the ACK of every packet rest on this.                 *)
(***************************************************************************)
KeptByte(p) == \A i \in 1 .. Len(edits) : p < edits[i].start \/ edits[i].end <= p

KeptBytesAreFound ==
  (result # NoResult /\ offset < input.old_len /\ KeptByte(offset))
    => LET new_stream == NewStream(edits, input.old_len) IN
       result + 1 \in DOMAIN new_stream /\ new_stream[result + 1] = <<"old", offset>>

(***************************************************************************)
(* Neighbours stay neighbours: offsets before this one land at or before   *)
(* it, offsets behind it at or behind it, and the end of the old stream    *)
(* lands at the end of the new one, behind the last byte.                  *)
(***************************************************************************)
OrderIsKept ==
  result # NoResult =>
    /\ \A p \in 0 .. input.old_len :
         /\ p <= offset => MapOffset(p, edits) <= result
         /\ p >= offset => MapOffset(p, edits) >= result
    /\ offset = input.old_len => result = Len(NewStream(edits, input.old_len))

=============================================================================
