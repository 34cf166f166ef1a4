------------------------------- MODULE IpText -------------------------------
(***************************************************************************)
(* Finding and replacing an address in text (src/core/utils.py):           *)
(* is_ip_text_match, contains_ip_text_boundary, and the loop of            *)
(* replace_ip_text_boundary, one turn per step.  The handlers rely on two  *)
(* things: what contains finds, replace replaces (websocket, HTTP bodies), *)
(* and after replace, contains finds nothing (the check for addresses that *)
(* remain, at the end of the HTTP and other handlers).                     *)
(*                                                                         *)
(* Characters stand for their classes: digits, other token characters, the *)
(* separator of the address ("." in text, "," in FTP commands), others.    *)
(***************************************************************************)
EXTENDS Integers, SequencesExt

CONSTANTS
  Digits, Letters, Others,   \* the characters of payloads, but for separators
  MaxLength,                 \* bounds the payloads
  OldAddress, NewAddress     \* separator -> the characters of the address

Separators == {".", ","}     \* boundary_bytes: IP_TEXT_ or IP_COMMA_BOUNDARY_BYTES
Characters(s) == Digits \cup Letters \cup Others \cup {s}
TokenCharacters == Digits \cup Letters

\* An address has only digits and separators, starts and ends with a digit, and
\* has a digit on one side of each place.
IsAddress(address, s) ==
  /\ address \in Seq(Digits \cup {s}) /\ Len(address) >= 2
  /\ address[1] \in Digits /\ Last(address) \in Digits
  /\ \A i \in 1 .. Len(address) - 1 : address[i] \in Digits \/ address[i + 1] \in Digits

ASSUME AddressAssumption ==
  \A s \in Separators : IsAddress(OldAddress[s], s) /\ IsAddress(NewAddress[s], s)
ASSUME LengthAssumption == MaxLength \in Nat

VARIABLES
  payload,
  separator,   \* which rule is used
  pos,         \* the place the search goes on from
  out,
  changed,
  done

text_vars == <<payload, separator, pos, out, changed, done>>

old == OldAddress[separator]
new == NewAddress[separator]

-----------------------------------------------------------------------------
\* The places where the address is found in a text, at or behind a place.
Occurrences(text, from) ==
  {n \in from .. Len(text) - Len(old) + 1 : SubSeq(text, n, n + Len(old) - 1) = old}

\* is_ip_text_match, with the rule for commas
IsCommaMatch(text, start) ==
  LET right == start + Len(old)
      boundary == Digits \cup {","}
  IN  /\ start > 1 => text[start - 1] \notin boundary
      /\ right <= Len(text) => text[right] \notin boundary

\* A dot may follow if it ends a sentence.
IsDottedMatch(text, start) ==
  LET right == start + Len(old) IN
  /\ start > 1 => text[start - 1] \notin TokenCharacters \cup {"."}
  /\ right <= Len(text) =>
       /\ text[right] \notin TokenCharacters
       /\ text[right] = "." /\ right < Len(text) => text[right + 1] \notin TokenCharacters

IsMatch(text, start) ==
  IF separator = "," THEN IsCommaMatch(text, start) ELSE IsDottedMatch(text, start)

ContainsFirstOnly(text) ==
  \E n \in Occurrences(text, 1) :
    IsMatch(text, n) /\ \A m \in Occurrences(text, 1) : n <= m
ContainsMatch(text) == \E n \in Occurrences(text, 1) : IsMatch(text, n)

-----------------------------------------------------------------------------
TextInit ==
  /\ separator \in Separators
  /\ payload \in UNION {[1 .. n -> Characters(separator)] : n \in 0 .. MaxLength}
  /\ pos = 1 /\ out = << >> /\ changed = FALSE /\ done = FALSE

LastFound == CHOOSE n \in Occurrences(payload, pos) : \A m \in Occurrences(payload, pos) : n >= m
NextFound == CHOOSE n \in Occurrences(payload, pos) : \A m \in Occurrences(payload, pos) : n <= m

\* Where the search goes on after an occurrence.
AtNextCharacter(match) == match + 1
Behind(match) == match + Len(old)

Replace ==
  /\ ~done /\ Occurrences(payload, pos) # {}
  /\ IsMatch(payload, NextFound)
  /\ out' = out \o SubSeq(payload, pos, NextFound - 1) \o new
  /\ pos' = Behind(NextFound)
  /\ changed' = TRUE
  /\ UNCHANGED <<payload, separator, done>>

Keep ==
  /\ ~done /\ Occurrences(payload, pos) # {}
  /\ ~IsMatch(payload, NextFound)
  /\ out' = out \o SubSeq(payload, pos, Behind(NextFound) - 1)
  /\ pos' = Behind(NextFound)
  /\ UNCHANGED <<payload, separator, changed, done>>

Finish ==
  /\ ~done /\ Occurrences(payload, pos) = {}
  /\ out' = out \o SubSeq(payload, pos, Len(payload))
  /\ done' = TRUE
  /\ UNCHANGED <<payload, separator, pos, changed>>

TextNext == Replace \/ Keep \/ Finish

TextSpec == TextInit /\ [][TextNext]_text_vars

-----------------------------------------------------------------------------
(***************************************************************************)
(* The loop replaces what the rule says and nothing else, although it goes *)
(* on behind an occurrence that does not match, where another one may      *)
(* begin inside it (1.1.1.1.1).                                            *)
(***************************************************************************)
Matches == {n \in Occurrences(payload, 1) : IsMatch(payload, n)}

ReplacesTheMatches ==
  done =>
    out = FlattenSeq([n \in DOMAIN payload |->
            IF n \in Matches THEN new
            ELSE IF \E m \in Matches : m < n /\ n < m + Len(old) THEN << >>
            ELSE <<payload[n]>>])

(***************************************************************************)
(* Finding and replacing agree: a text is changed if and only if           *)
(* contains_ip_text_boundary has found the address in it (handlers ask the *)
(* one and then do the other), and nothing remains to be found, so the     *)
(* check of rewrite_http1_stream_safe and other handlers never rejects     *)
(* what was replaced everywhere: a new address makes no old one with the   *)
(* text around it.                                                         *)
(***************************************************************************)
FindingAgreesWithReplacing ==
  done => /\ changed = ContainsMatch(payload)
          /\ ~ContainsMatch(out)
=============================================================================
