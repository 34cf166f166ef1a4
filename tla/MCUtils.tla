------------------------------- MODULE MCUtils -------------------------------
(***************************************************************************)
(* The loops of src/core/utils.py, map_offset and replace_ip_text_boundary.*)
(* They do not interact: one of them has all its inputs and the other one  *)
(* its smallest.                                                           *)
(*                                                                         *)
(* map_offset: all edit lists of at most two edits over streams of at most *)
(* MaxLen bytes, each replacement at most MaxNew bytes long, and all       *)
(* offsets up to one past the end of the stream (where the ACK of a FIN    *)
(* points to).                                                             *)
(*                                                                         *)
(* Text: addresses of two numbers.  As long as an occurrence can begin     *)
(* inside another one (1.1 in 1.1.1), the other numbers add nothing.  The  *)
(* new address begins with the old one.                                    *)
(***************************************************************************)
EXTENDS MapOffsetLoop, EditLists, IpText

CONSTANTS MaxLen, MaxNew

AllEdits(n) == {<< >>} \cup SingleEdits(n, MaxNew) \cup DoubleEdits(n, MaxNew)

MCInputs ==
  UNION {[offset : 0 .. n + 1, edits : AllEdits(n), old_len : {n}] : n \in 1 .. MaxLen}

Old == [s \in Separators |-> <<"1", s, "1">>]
New == [s \in Separators |-> <<"1", s, "1", "1">>]

UtilsInit ==
  \/ payload = << >> /\ separator = "." /\ Init /\ TextInit
  \/ input = [offset |-> 0, edits |-> << >>, old_len |-> 1] /\ Init /\ TextInit

UtilsNext ==
  \/ Next /\ UNCHANGED text_vars
  \/ TextNext /\ UNCHANGED vars

UtilsSpec == UtilsInit /\ [][UtilsNext]_<<vars, text_vars>>
=============================================================================
