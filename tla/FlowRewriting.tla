---------------------------- MODULE FlowRewriting ----------------------------
(***************************************************************************)
(* What the rewriting of one capture promises, whatever a handler does:    *)
(* each unit, a UDP datagram or one direction of a TCP connection, is      *)
(* decided on once, as a whole, and whatever happens to the others; and    *)
(* the output holds all units as they were decided on, or there is none.   *)
(* Module Pipeline is shown to implement it.                               *)
(***************************************************************************)
CONSTANT Unit

VARIABLES
  fate,      \* what has been decided
  file,      \* of the output: still open, written, or lost with the file
  content    \* what the output holds of each unit

vars == <<fate, file, content>>

Fates == {"captured", "rewritten"}

TypeOK ==
  /\ fate \in [Unit -> Fates \cup {"open"}]
  /\ file \in {"open", "written", "lost"}
  /\ content \in [Unit -> Fates \cup {"nothing"}]

Init ==
  /\ fate = [u \in Unit |-> "open"]
  /\ file = "open"
  /\ content = [u \in Unit |-> "nothing"]

\* A unit is rewritten or stays as it was captured.
Decide(u) ==
  /\ file = "open" /\ fate[u] = "open"
  /\ \E f \in Fates : fate' = [fate EXCEPT ![u] = f]
  /\ UNCHANGED <<file, content>>

Write ==
  /\ file = "open" /\ \A u \in Unit : fate[u] # "open"
  /\ file' = "written"
  /\ content' = fate
  /\ UNCHANGED fate

\* An error that no flow answers for ends the processing of the file.
Lose ==
  /\ file = "open"
  /\ file' = "lost"
  /\ UNCHANGED <<fate, content>>

Next == (\E u \in Unit : Decide(u)) \/ Write \/ Lose

SafeSpec == Init /\ [][Next]_vars

\* A file that is being processed comes to an end.
Spec == SafeSpec /\ WF_vars(Next)
=============================================================================
