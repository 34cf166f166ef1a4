------------------------------- MODULE Payload -------------------------------
(***************************************************************************)
(* What the handlers of src/protocols see of a stream.  A token stands for *)
(* a field: a length, a count or a type code is a number, whatever its     *)
(* width; text is made of addresses and other pieces.  Lengths are counted *)
(* in tokens.  The new address is longer than the old one, so every length *)
(* around a replaced text has to change.  What is an address in text and   *)
(* what is part of a longer one is the subject of module IpText: here an   *)
(* address stands alone.                                                   *)
(***************************************************************************)
EXTENDS Integers, SequencesExt

OldIp == 101
NewIp == <<102, 103>>
OldComma == 104          \* the old address as FTP writes it, 10,0,0,1
NewComma == <<105, 106>>
OldBinary == 107         \* packed, four bytes
NewBinary == 108
Text == 109              \* text without an address
CrLf == 110

HasIp(tokens) == OldIp \in Range(tokens)   \* contains_ip_text_boundary
HasBinary(tokens) == OldBinary \in Range(tokens)

\* replace_ip_text_boundary, and the rule with commas
Replaced(tokens, old, new) ==
  FlattenSeq([i \in DOMAIN tokens |-> IF tokens[i] = old THEN new ELSE <<tokens[i]>>])
ReplaceIp(tokens) == Replaced(tokens, OldIp, NewIp)

Slice(tokens, from, next) == SubSeq(tokens, from, next - 1)
=============================================================================
