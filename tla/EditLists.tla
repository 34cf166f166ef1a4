----------------------------- MODULE EditLists -----------------------------
(***************************************************************************)
(* Small edit lists for the model-checking modules: all that change one or *)
(* two places of a stream.                                                 *)
(***************************************************************************)
EXTENDS Integers, Sequences

LOCAL Place(n, longest) ==
  {e \in [start : 0 .. n, end : 0 .. n, len : 0 .. longest] :
     e.start <= e.end /\ (e.start < e.end \/ e.len > 0)}

LOCAL InNewCoordinates(e, shift) ==
  [start |-> e.start, end |-> e.end,
   new_start |-> e.start + shift, new_end |-> e.start + shift + e.len]

SingleEdits(n, longest) == {<<InNewCoordinates(e, 0)>> : e \in Place(n, longest)}

DoubleEdits(n, longest) ==
  {<<InNewCoordinates(pair[1], 0),
     InNewCoordinates(pair[2], pair[1].len - (pair[1].end - pair[1].start))>> :
     pair \in {p \in Place(n, longest) \X Place(n, longest) : p[1].end < p[2].start}}
=============================================================================
