---------------------------- MODULE Utils_proofs ----------------------------
(***************************************************************************)
(* Proofs about the two loops of src/core/utils.py.                        *)
(*                                                                         *)
(* MapOffsetLoop, for every edit list: map_offset returns what             *)
(* EditMap!MapOffset says, and that is where the kept bytes of the old     *)
(* stream are.                                                             *)
(*                                                                         *)
(* IpText, for any address, any alphabet and any text: what                *)
(* contains_ip_text_boundary finds is replaced, and then it finds nothing; *)
(* and what is replaced is what the rule names, and nothing else.          *)
(***************************************************************************)
EXTENDS MapOffsetLoop, IpText, Coordinates_proofs, SequenceTheorems, WellFoundedInduction

-----------------------------------------------------------------------------
(***************************************************************************)
(* map_offset.  The inductive invariant: the edits before "round" are      *)
(* passed, and what the loop added up is the distance of the two           *)
(* coordinates behind the last of them.  The sum telescopes because        *)
(* between two edits both streams have the same bytes.                     *)
(***************************************************************************)
LoopInv ==
  /\ input \in Inputs
  /\ round \in 1 .. Len(edits) + 1
  /\ \A j \in 1 .. round - 1 : edits[j].end <= offset
  /\ delta = Delta(round - 1, edits)
  /\ LoopComputesMapOffset

LEMMA InputFacts ==
  ASSUME input \in Inputs
  PROVE  /\ edits \in Seq(Edit) /\ Len(edits) \in Nat
         /\ offset \in Nat
         /\ IsEditList(edits, input.old_len, NewLen(edits, input.old_len))
         /\ \A i \in 1 .. Len(edits) :
              /\ edits[i].start \in Nat /\ edits[i].end \in Nat
              /\ edits[i].new_start \in Nat /\ edits[i].new_end \in Nat
              /\ edits[i].start <= edits[i].end
              /\ edits[i].new_start <= edits[i].new_end
<1>1. IsEditList(edits, input.old_len, NewLen(edits, input.old_len)) /\ offset \in Nat
  BY InputsAssumption DEF edits, offset
<1> QED BY <1>1, EditListFacts

LEMMA LoopInit == Init => LoopInv
<1> SUFFICES ASSUME Init PROVE LoopInv
  OBVIOUS
<1>1. Len(edits) \in Nat
  BY InputFacts DEF Init
<1>2. LoopComputesMapOffset
  BY DEF Init, LoopComputesMapOffset
<1> QED BY <1>1, <1>2 DEF Init, LoopInv, Delta

LEMMA LoopStep == LoopInv /\ [Next]_vars => LoopInv'
<1> SUFFICES ASSUME LoopInv, [Next]_vars PROVE LoopInv'
  OBVIOUS
<1> USE DEF LoopInv
<1>1. CASE PassEdit
  <2>1. round \in 1 .. Len(edits) /\ edits' = edits /\ offset' = offset /\ Len(edits) \in Nat
    BY <1>1, InputFacts DEF PassEdit, InLoop, edits, offset
  <2>2. round' \in 1 .. Len(edits') + 1 /\ round' - 1 = round
    BY <2>1, <1>1 DEF PassEdit
  <2>3. \A j \in 1 .. round' - 1 : edits'[j].end <= offset'
    <3> SUFFICES ASSUME NEW j \in 1 .. round PROVE edits[j].end <= offset
      BY <2>1, <2>2
    <3>1. CASE j = round
      BY <3>1, <2>1, <1>1, InputFacts DEF PassEdit
    <3>2. CASE j # round
      BY <3>2, <2>1
    <3> QED BY <3>1, <3>2
  <2>4. delta' = Delta(round, edits)
    <3>1. delta' = delta + ((edits[round].new_end - edits[round].new_start)
                            - (edits[round].end - edits[round].start))
      <4>1. /\ delta \in Int
            /\ edits[round].new_end \in Nat /\ edits[round].new_start \in Nat
            /\ edits[round].end \in Nat /\ edits[round].start \in Nat
        <5>1. Delta(round - 1, edits) \in Int
          BY <2>1, InputFacts DEF Delta
        <5> QED BY <5>1, <2>1, InputFacts
      <4> QED BY <4>1, <1>1 DEF PassEdit, GrowthOf, Replacement, Replaced
    <3>2. delta = edits[round].new_start - edits[round].start
      <4>1. round - 1 \in 0 .. Len(edits) - 1 /\ (round - 1) + 1 = round
        BY <2>1
      <4> QED BY <4>1, InputFacts, DeltaOfNext
    <3>3. /\ edits[round].new_end \in Nat /\ edits[round].new_start \in Nat
          /\ edits[round].end \in Nat /\ edits[round].start \in Nat
      BY <2>1, InputFacts
    <3>4. ASSUME NEW d, d = edits[round].new_start - edits[round].start
          PROVE  d + ((edits[round].new_end - edits[round].new_start)
                      - (edits[round].end - edits[round].start))
                   = edits[round].new_end - edits[round].end
      <4> HIDE DEF LoopInv
      <4> QED BY <3>3, <3>4
    <3>5. delta' = edits[round].new_end - edits[round].end
      BY <3>1, <3>2, <3>4
    <3> QED BY <3>5, <2>1 DEF Delta
  <2>5. LoopComputesMapOffset'
    BY <1>1 DEF PassEdit, InLoop, LoopComputesMapOffset, NoResult
  <2> QED BY <2>1, <2>2, <2>3, <2>4, <2>5, <1>1 DEF PassEdit
<1>2. CASE LandInEdit
  <2>1. /\ round \in 1 .. Len(edits) /\ Len(edits) \in Nat
        /\ edits' = edits /\ offset' = offset
    BY <1>2, InputFacts DEF LandInEdit, InLoop, edits, offset
  <2> DEFINE i == round - 1
  <2>2. i \in 0 .. Len(edits) /\ i < Len(edits) /\ i + 1 = round
    BY <2>1
  <2>3. Passed(offset, edits) = i
    <3>1. \A j \in 1 .. i : edits[j].end <= offset
      OBVIOUS
    <3>2. i < Len(edits) => offset < edits[i + 1].end
      BY <2>2, <1>2 DEF LandInEdit
    <3> HIDE DEF i
    <3> QED BY <2>2, <3>1, <3>2, PassedIsUnique, InputFacts
  <2>4. edits[round].start <= offset /\ edits[round].start \in Nat /\ offset \in Nat
    BY <1>2, <2>1, InputFacts DEF LandInEdit
  <2>5. result' = MapOffset(offset, edits)
    BY <1>2, <2>2, <2>3, <2>4 DEF LandInEdit, MapOffset, Replacement
  <2> QED BY <2>1, <2>5, <1>2 DEF LandInEdit, LoopComputesMapOffset
<1>3. CASE LandBehindEdits
  <2>1. /\ edits' = edits /\ offset' = offset /\ Len(edits) \in Nat
    BY <1>3, InputFacts DEF LandBehindEdits, edits, offset
  <2> DEFINE i == round - 1
  <2>2. i \in 0 .. Len(edits) /\ i + 1 = round
    BY <2>1
  <2>3. i < Len(edits) => /\ offset < edits[round].start
                          /\ edits[round].start \in Nat /\ edits[round].end \in Nat
                          /\ offset \in Nat
                          /\ edits[round].start <= edits[round].end
    BY <1>3, <2>1, <2>2, InputFacts DEF LandBehindEdits
  <2>4. Passed(offset, edits) = i
    <3>1. \A j \in 1 .. i : edits[j].end <= offset
      OBVIOUS
    <3>2. i < Len(edits) => offset < edits[i + 1].end
      BY <2>2, <2>3
    <3> HIDE DEF i
    <3> QED BY <2>2, <3>1, <3>2, PassedIsUnique, InputFacts
  <2>5. ~(i < Len(edits) /\ edits[i + 1].start <= offset)
    BY <2>2, <2>3
  <2>6. result' = MapOffset(offset, edits)
    BY <1>3, <2>4, <2>5 DEF LandBehindEdits, MapOffset
  <2> QED BY <2>1, <2>6, <1>3 DEF LandBehindEdits, LoopComputesMapOffset
<1>4. CASE UNCHANGED vars
  BY <1>4 DEF vars, edits, offset, LoopComputesMapOffset
<1> QED BY <1>1, <1>2, <1>3, <1>4 DEF Next

(***************************************************************************)
(* map_offset returns the coordinate the opcodes of difflib define: the    *)
(* loop's sum of growths is the shift behind the last passed edit.         *)
(***************************************************************************)
THEOREM LoopIsMapOffset == Spec => []LoopComputesMapOffset
<1>1. LoopInv => LoopComputesMapOffset
  BY DEF LoopInv
<1> QED BY <1>1, LoopInit, LoopStep, PTL DEF Spec

(***************************************************************************)
(* map_offset takes every kept byte of a flow to the same byte of the      *)
(* rewritten stream.                                                       *)
(***************************************************************************)
THEOREM KeptBytesStay == Spec => []KeptBytesAreFound
<1>1. LoopInv => KeptBytesAreFound
  <2> SUFFICES ASSUME LoopInv, result # NoResult, offset < input.old_len, KeptByte(offset)
               PROVE  /\ result + 1 \in DOMAIN NewStream(edits, input.old_len)
                      /\ NewStream(edits, input.old_len)[result + 1] = <<"old", offset>>
    BY DEF KeptBytesAreFound
  <2>1. input \in Inputs /\ result = MapOffset(offset, edits)
    BY DEF LoopInv, LoopComputesMapOffset
  <2>2. input.old_len \in Nat
    BY <2>1, InputsAssumption
  <2>3. /\ MapOffset(offset, edits) + 1 \in DOMAIN NewStream(edits, input.old_len)
        /\ NewStream(edits, input.old_len)[MapOffset(offset, edits) + 1] = <<"old", offset>>
    BY <2>1, <2>2, InputFacts, KeptByteIsFound DEF KeptByte
  <2> QED BY <2>1, <2>3
<1> QED BY <1>1, LoopInit, LoopStep, PTL DEF Spec

(***************************************************************************)
(* map_offset keeps the order of the offsets of a flow and takes the end   *)
(* of the old stream, where its FIN points, to the end of the new one.     *)
(***************************************************************************)
THEOREM OrderStays == Spec => []OrderIsKept
<1>1. LoopInv => OrderIsKept
  <2> SUFFICES ASSUME LoopInv, result # NoResult PROVE OrderIsKept
    BY DEF OrderIsKept
  <2>1. input \in Inputs /\ result = MapOffset(offset, edits)
    BY DEF LoopInv, LoopComputesMapOffset
  <2>2. /\ input.old_len \in Nat /\ offset \in Nat
        /\ IsEditList(edits, input.old_len, NewLen(edits, input.old_len))
    BY <2>1, InputsAssumption, InputFacts
  <2>3. ASSUME NEW p \in 0 .. input.old_len
        PROVE  /\ p <= offset => MapOffset(p, edits) <= result
               /\ p >= offset => MapOffset(p, edits) >= result
    <3>1. p \in Nat
      BY <2>2
    <3>2. p <= offset => MapOffset(p, edits) <= MapOffset(offset, edits)
      BY <2>2, <3>1, MapOffsetIsMonotonic
    <3>3. offset <= p => MapOffset(offset, edits) <= MapOffset(p, edits)
      BY <2>2, <3>1, MapOffsetIsMonotonic
    <3>4. MapOffset(p, edits) \in Int /\ MapOffset(offset, edits) \in Int
      BY <2>2, <3>1, MapOffsetType
    <3> QED BY <2>1, <2>2, <3>1, <3>2, <3>3, <3>4
  <2>4. offset = input.old_len => result = Len(NewStream(edits, input.old_len))
    BY <2>1, <2>2, EndLandsAtEnd
  <2> QED BY <2>3, <2>4 DEF OrderIsKept
<1> QED BY <1>1, LoopInit, LoopStep, PTL DEF Spec

-----------------------------------------------------------------------------
(***************************************************************************)
(* replace_ip_text_boundary.  The rule and the text stay, and the search   *)
(* goes forward.                                                           *)
(***************************************************************************)
TextTypeOK ==
  /\ separator \in Separators
  /\ payload \in Seq(Characters(separator))
  /\ pos \in Nat \ {0}
  /\ changed \in BOOLEAN /\ done \in BOOLEAN

\* What is behind pos was dealt with: it was replaced if it was a match.
PassedMatches == {n \in Matches : n < pos}

TextInv ==
  /\ TextTypeOK
  /\ changed <=> PassedMatches # {}
  /\ done => Occurrences(payload, pos) = {}

-----------------------------------------------------------------------------
LEMMA OldIsAddress ==
  ASSUME separator \in Separators
  PROVE  /\ old \in Seq(Digits \cup {separator})
         /\ Len(old) \in Nat /\ Len(old) >= 2
         /\ \A i \in 1 .. Len(old) : old[i] \in Digits \cup {separator}
<1>1. IsAddress(old, separator)
  BY AddressAssumption DEF old
<1>2. QED
  BY <1>1, LenProperties, ElementOfSeq DEF IsAddress

\* An occurrence consists of digits and separators.
LEMMA OccurrenceCharacters ==
  ASSUME TextTypeOK, NEW n \in Occurrences(payload, 1), NEW i \in n .. n + Len(old) - 1
  PROVE  payload[i] \in Digits \cup {separator}
<1>1. Len(old) \in Nat /\ Len(payload) \in Nat
  BY OldIsAddress, LenProperties DEF TextTypeOK
<1>2. n \in Nat /\ 1 <= n /\ n + Len(old) - 1 <= Len(payload)
  BY <1>1 DEF Occurrences
<1>3. SubSeq(payload, n, n + Len(old) - 1) = old
  BY DEF Occurrences
<1>4. \A k \in n .. n + Len(old) - 1 : payload[k] \in Characters(separator)
  BY <1>1, <1>2, ElementOfSeq DEF TextTypeOK
<1>5. SubSeq(payload, n, n + Len(old) - 1)[i - n + 1] = payload[i]
  BY <1>1, <1>2, <1>4, SubSeqProperties
<1>6. i - n + 1 \in 1 .. Len(old)
  BY <1>1, <1>2
<1>7. QED
  BY <1>3, <1>5, <1>6, OldIsAddress DEF TextTypeOK

\* No match begins inside of an occurrence, be it a match or not: the
\* character in front of it belongs to an address.
LEMMA NoMatchInside ==
  ASSUME TextTypeOK, NEW n \in Occurrences(payload, 1), NEW m \in Matches, n < m
  PROVE  n + Len(old) <= m
<1>1. Len(old) \in Nat /\ Len(payload) \in Nat
  BY OldIsAddress, LenProperties DEF TextTypeOK
<1>2. n \in Nat /\ m \in Nat /\ 1 <= n
  BY <1>1 DEF Occurrences, Matches
<1>3. SUFFICES ASSUME m < n + Len(old)
               PROVE  FALSE
  BY <1>1, <1>2
<1>4. payload[m - 1] \in Digits \cup {separator}
  BY <1>1, <1>2, <1>3, OccurrenceCharacters
<1>5. IsMatch(payload, m) /\ m > 1
  BY <1>2 DEF Matches
<1>6. CASE separator = ","
  BY <1>4, <1>5, <1>6 DEF IsMatch, IsCommaMatch
<1>7. CASE separator = "."
  BY <1>4, <1>5, <1>7 DEF IsMatch, IsDottedMatch, TokenCharacters
<1>8. QED
  BY <1>6, <1>7 DEF TextTypeOK, Separators

\* find returns the first occurrence.
LEMMA FirstIsFound ==
  ASSUME TextTypeOK, Occurrences(payload, pos) # {}
  PROVE  /\ NextFound \in Occurrences(payload, pos)
         /\ \A m \in Occurrences(payload, pos) : NextFound <= m
         /\ NextFound \in Nat /\ NextFound >= pos
         /\ NextFound \in Occurrences(payload, 1)
<1>1. Len(old) \in Nat /\ Len(payload) \in Nat
  BY OldIsAddress, LenProperties DEF TextTypeOK
<1>2. Occurrences(payload, pos) \subseteq Nat
  BY <1>1 DEF Occurrences, TextTypeOK
<1>3. \E n \in Occurrences(payload, pos) : \A m \in Occurrences(payload, pos) : n <= m
  BY <1>2, LeastElement
<1>4. /\ NextFound \in Occurrences(payload, pos)
      /\ \A m \in Occurrences(payload, pos) : NextFound <= m
  BY <1>3 DEF NextFound
<1>5. NextFound >= pos /\ NextFound \in Nat
  BY <1>1, <1>4 DEF Occurrences, TextTypeOK
<1>6. NextFound \in Occurrences(payload, 1)
  BY <1>1, <1>4, <1>5 DEF Occurrences, TextTypeOK
<1>7. QED
  BY <1>4, <1>5, <1>6

-----------------------------------------------------------------------------
LEMMA TextInitInv ==
  ASSUME TextInit
  PROVE  TextInv
<1>1. payload \in Seq(Characters(separator))
  <2>1. PICK n \in 0 .. MaxLength : payload \in [1 .. n -> Characters(separator)]
    BY DEF TextInit
  <2>2. n \in Nat
    BY LengthAssumption
  <2>3. QED
    BY <2>1, <2>2, SeqDef
<1>2. TextTypeOK
  <2>1. separator \in Separators /\ changed \in BOOLEAN /\ done \in BOOLEAN
    BY Zenon DEF TextInit
  <2>2. pos \in Nat \ {0}
    BY DEF TextInit
  <2>3. QED
    BY <1>1, <2>1, <2>2 DEF TextTypeOK
<1>3. Len(old) \in Nat /\ Len(payload) \in Nat
  BY <1>2, OldIsAddress, LenProperties DEF TextTypeOK
<1>4. PassedMatches = {}
  <2>1. pos = 1
    BY DEF TextInit
  <2>2. ASSUME NEW n \in Matches
        PROVE  n \in Nat /\ n >= 1
    BY <1>3 DEF Matches, Occurrences
  <2>3. QED
    BY <2>1, <2>2 DEF PassedMatches
<1>5. QED
  BY <1>2, <1>4 DEF TextInit, TextInv

\* What is passed by going on behind the next occurrence: that one, if it is
\* a match, and no other match.
LEMMA Passing ==
  ASSUME TextInv, Occurrences(payload, pos) # {}, UNCHANGED <<payload, separator>>,
         pos' = Behind(NextFound)
  PROVE  /\ pos' \in Nat \ {0}
         /\ PassedMatches' =
              IF IsMatch(payload, NextFound) THEN PassedMatches \cup {NextFound}
              ELSE PassedMatches
<1>1. TextTypeOK
  BY DEF TextInv
<1>2. Len(old) \in Nat /\ Len(old) >= 2 /\ Len(payload) \in Nat
  BY <1>1, OldIsAddress, LenProperties DEF TextTypeOK
<1>3. /\ NextFound \in Nat /\ NextFound >= pos /\ NextFound \in Occurrences(payload, 1)
      /\ \A m \in Occurrences(payload, pos) : NextFound <= m
  BY <1>1, FirstIsFound
<1>4. pos' = NextFound + Len(old)
  BY DEF Behind
<1>5. old' = old
  BY DEF old
<1>6. Matches' = Matches
  BY <1>5 DEF Matches, Occurrences, IsMatch, IsCommaMatch, IsDottedMatch
<1>7. pos \in Nat \ {0}
  BY <1>1 DEF TextTypeOK
<1>8. Matches \subseteq Nat
  BY <1>2 DEF Matches, Occurrences
<1>9. ASSUME NEW m \in Matches
      PROVE  m < pos' <=> m < pos \/ m = NextFound
  <2>1. CASE m < pos
    BY <1>2, <1>3, <1>4, <1>7, <1>8, <2>1
  <2>2. CASE m >= pos
    <3>1. m \in Occurrences(payload, pos)
      BY <1>2, <1>7, <2>2 DEF Matches, Occurrences
    <3>2. NextFound <= m
      BY <1>3, <3>1
    <3>3. m = NextFound \/ NextFound + Len(old) <= m
      BY <1>1, <1>3, <1>8, <3>2, NoMatchInside
    <3>4. QED
      BY <1>2, <1>3, <1>4, <1>7, <1>8, <2>2, <3>3
  <2>3. QED
    BY <1>7, <1>8, <2>1, <2>2
<1>10. NextFound \in Matches <=> IsMatch(payload, NextFound)
  BY <1>3 DEF Matches
<1>11. PassedMatches' = {m \in Matches : m < pos'}
  BY <1>6 DEF PassedMatches
<1>12. ASSUME IsMatch(payload, NextFound)
       PROVE  PassedMatches' = PassedMatches \cup {NextFound}
  <2>1. \A m : m \in PassedMatches' <=> m \in PassedMatches \cup {NextFound}
    BY <1>9, <1>10, <1>11, <1>12 DEF PassedMatches
  <2>2. QED
    BY <2>1
<1>13. ASSUME ~IsMatch(payload, NextFound)
       PROVE  PassedMatches' = PassedMatches
  <2>1. \A m : m \in PassedMatches' <=> m \in PassedMatches
    BY <1>9, <1>10, <1>11, <1>13 DEF PassedMatches
  <2>2. QED
    BY <2>1
<1>14. QED
  BY <1>2, <1>3, <1>4, <1>12, <1>13

LEMMA TextNextInv ==
  ASSUME TextInv, [TextNext]_text_vars
  PROVE  TextInv'
<1>1. CASE Replace
  <2>1. /\ pos' \in Nat \ {0}
        /\ PassedMatches' = PassedMatches \cup {NextFound}
    BY <1>1, Passing DEF Replace
  <2>2. TextTypeOK'
    BY <1>1, <2>1 DEF TextInv, TextTypeOK, Replace
  <2>3. QED
    BY <1>1, <2>1, <2>2 DEF TextInv, Replace
<1>2. CASE Keep
  <2>1. /\ pos' \in Nat \ {0}
        /\ PassedMatches' = PassedMatches
    BY <1>2, Passing DEF Keep
  <2>2. TextTypeOK'
    BY <1>2, <2>1 DEF TextInv, TextTypeOK, Keep
  <2>3. QED
    BY <1>2, <2>1, <2>2 DEF TextInv, Keep
<1>3. CASE Finish \/ UNCHANGED text_vars
  <2>1. UNCHANGED <<payload, separator, pos, changed>>
    BY <1>3 DEF Finish, text_vars
  <2>2. old' = old
    BY <2>1 DEF old
  <2>3. PassedMatches' = PassedMatches
    <3>1. Matches' = Matches
      BY <2>1, <2>2 DEF Matches, Occurrences, IsMatch, IsCommaMatch, IsDottedMatch
    <3>2. QED
      BY <2>1, <3>1 DEF PassedMatches
  <2>4. Occurrences(payload, pos)' = Occurrences(payload, pos)
    BY <2>1, <2>2 DEF Occurrences
  <2>5. TextTypeOK'
    BY <1>3, <2>1 DEF TextInv, TextTypeOK, Finish, text_vars
  <2>6. (done => Occurrences(payload, pos) = {})'
    BY <1>3, <2>4 DEF TextInv, Finish, text_vars
  <2>7. QED
    BY <2>1, <2>3, <2>5, <2>6 DEF TextInv
<1>4. QED
  BY <1>1, <1>2, <1>3 DEF TextNext

(***************************************************************************)
(* replace_ip_text_boundary changes a text if and only if                  *)
(* contains_ip_text_boundary finds the address in it: the first half of    *)
(* FindingAgreesWithReplacing.  The loop goes on behind an occurrence that *)
(* is no match, and loses no match by that.                                *)
(***************************************************************************)
THEOREM FoundIsChanged ==
  TextSpec => [](done => changed = ContainsMatch(payload))
<1>1. ASSUME TextInv
      PROVE  done => changed = ContainsMatch(payload)
  <2>1. SUFFICES ASSUME done
                 PROVE  changed = ContainsMatch(payload)
    OBVIOUS
  <2>2. Len(old) \in Nat /\ Len(payload) \in Nat /\ pos \in Nat \ {0}
    BY <1>1, OldIsAddress, LenProperties DEF TextInv, TextTypeOK
  <2>3. Occurrences(payload, pos) = {}
    BY <1>1, <2>1 DEF TextInv
  <2>4. ASSUME NEW n \in Matches
        PROVE  n < pos
    <3>1. n \in Nat /\ n \in Occurrences(payload, 1)
      BY <2>2 DEF Matches, Occurrences
    <3>2. n \in Occurrences(payload, pos) \/ n < pos
      BY <2>2, <3>1 DEF Occurrences
    <3>3. QED
      BY <2>3, <3>2
  <2>5. PassedMatches = Matches
    BY <2>4 DEF PassedMatches
  <2>6. changed <=> Matches # {}
    BY <1>1, <2>5 DEF TextInv
  <2>7. ContainsMatch(payload) <=> Matches # {}
    BY DEF ContainsMatch, Matches
  <2>8. changed \in BOOLEAN /\ ContainsMatch(payload) \in BOOLEAN
    BY <1>1 DEF TextInv, TextTypeOK, ContainsMatch
  <2>9. QED
    BY <2>6, <2>7, <2>8
<1>2. QED
  BY <1>1, TextInitInv, TextNextInv, PTL DEF TextSpec

-----------------------------------------------------------------------------
(***************************************************************************)
(* Nothing remains.  Whole is the text as it would be if the rest of it    *)
(* were appended as it is; the invariant says that it has no match up to   *)
(* the end of out.                                                         *)
(***************************************************************************)
Whole == out \o SubSeq(payload, pos, Len(payload))

OccursAt(text, n) ==
  /\ n \in Nat \ {0} /\ n + Len(old) - 1 <= Len(text)
  /\ \A k \in 1 .. Len(old) : text[n + k - 1] = old[k]

MatchesAt(text, n) == OccursAt(text, n) /\ IsMatch(text, n)

\* What was written or passed last is the end of an address.
EndsWithAddress ==
  /\ pos <= Len(payload) + 1
  /\ pos = 1 => out = << >>
  /\ pos > 1 => /\ Len(out) > 0 /\ out[Len(out)] \in Digits
                /\ payload[pos - 1] \in Digits

NothingRemainsInv ==
  /\ TextTypeOK
  /\ out \in Seq(Characters(separator))
  /\ ~done => EndsWithAddress /\ \A n \in 1 .. Len(out) : ~MatchesAt(Whole, n)
  /\ done => ~ContainsMatch(out)

AddressesDiffer == \A s \in Separators : OldAddress[s] # NewAddress[s]

AddressCharacters == Digits \cup {separator}

-----------------------------------------------------------------------------
\* An address, and what follows a character of it that is no digit.
LEMMA AddressFacts ==
  ASSUME separator \in Separators, NEW address, address \in {old, new}
  PROVE  /\ address \in Seq(AddressCharacters)
         /\ Len(address) \in Nat /\ Len(address) >= 2
         /\ \A i \in 1 .. Len(address) : address[i] \in AddressCharacters
         /\ address[1] \in Digits /\ address[Len(address)] \in Digits
         /\ \A i \in 1 .. Len(address) :
              address[i] \notin Digits => i < Len(address) /\ address[i + 1] \in Digits
<1>1. IsAddress(address, separator)
  BY AddressAssumption DEF old, new
<1>2. address \in Seq(AddressCharacters)
  BY <1>1 DEF IsAddress, AddressCharacters
<1>3. Len(address) \in Nat /\ Len(address) >= 2
  BY <1>1, <1>2, LenProperties DEF IsAddress
<1>4. address[1] \in Digits /\ address[Len(address)] \in Digits
  BY <1>1 DEF IsAddress, Last
<1>5. \A i \in 1 .. Len(address) : address[i] \in AddressCharacters
  BY <1>2, ElementOfSeq
<1>6. ASSUME NEW i \in 1 .. Len(address), address[i] \notin Digits
      PROVE  i < Len(address) /\ address[i + 1] \in Digits
  <2>1. i # Len(address)
    BY <1>4, <1>6
  <2>2. i \in 1 .. Len(address) - 1
    BY <1>3, <2>1
  <2>3. QED
    BY <1>1, <1>3, <1>6, <2>2 DEF IsAddress
<1>7. QED
  BY <1>2, <1>3, <1>4, <1>5, <1>6

\* No character of an address stands in front of a match.
LEMMA LeftRule ==
  ASSUME separator \in Separators, NEW text, NEW n \in Nat, n > 1, IsMatch(text, n)
  PROVE  text[n - 1] \notin AddressCharacters
<1>1. CASE separator = ","
  BY <1>1 DEF IsMatch, IsCommaMatch, AddressCharacters
<1>2. CASE separator = "."
  BY <1>2 DEF IsMatch, IsDottedMatch, AddressCharacters, TokenCharacters
<1>3. QED
  BY <1>1, <1>2 DEF Separators

\* No address goes on behind a match.
LEMMA RightRule ==
  ASSUME separator \in Separators, NEW text, Len(text) \in Nat, NEW n \in Nat,
         n + Len(old) <= Len(text), IsMatch(text, n),
         text[n + Len(old)] \in AddressCharacters
  PROVE  /\ text[n + Len(old)] \notin Digits
         /\ n + Len(old) < Len(text) => text[n + Len(old) + 1] \notin Digits
<1>1. CASE separator = ","
  BY <1>1 DEF IsMatch, IsCommaMatch, AddressCharacters
<1>2. CASE separator = "."
  <2>1. text[n + Len(old)] \notin TokenCharacters
    BY <1>2 DEF IsMatch, IsDottedMatch
  <2>2. text[n + Len(old)] = "."
    BY <1>2, <2>1 DEF AddressCharacters, TokenCharacters
  <2>3. n + Len(old) < Len(text) => text[n + Len(old) + 1] \notin TokenCharacters
    BY <1>2, <2>2 DEF IsMatch, IsDottedMatch
  <2>4. QED
    BY <2>1, <2>3 DEF TokenCharacters
<1>3. QED
  BY <1>1, <1>2 DEF Separators

\* Whether an occurrence is a match depends on what is around it.
LEMMA SameSurroundings ==
  ASSUME separator \in Separators,
         NEW text, Len(text) \in Nat, NEW other, Len(other) \in Nat,
         NEW n \in Nat, NEW m \in Nat,
         n > 1 => m > 1 /\ other[m - 1] = text[n - 1],
         n + Len(old) <= Len(text) =>
           m + Len(old) <= Len(other) /\ other[m + Len(old)] = text[n + Len(old)],
         n + Len(old) < Len(text) =>
           /\ m + Len(old) < Len(other)
           /\ \/ other[m + Len(old) + 1] = text[n + Len(old) + 1]
              \/ other[m + Len(old) + 1] \in Digits,
         IsMatch(other, m)
  PROVE  IsMatch(text, n)
<1>1. Len(old) \in Nat
  BY OldIsAddress
<1>2. CASE separator = ","
  BY <1>1, <1>2 DEF IsMatch, IsCommaMatch
<1>3. CASE separator = "."
  <2>1. n > 1 => text[n - 1] \notin TokenCharacters \cup {"."}
    BY <1>3 DEF IsMatch, IsDottedMatch
  <2>2. ASSUME n + Len(old) <= Len(text)
        PROVE  /\ text[n + Len(old)] \notin TokenCharacters
               /\ text[n + Len(old)] = "." /\ n + Len(old) < Len(text) =>
                    text[n + Len(old) + 1] \notin TokenCharacters
    <3>1. other[m + Len(old)] \notin TokenCharacters
      BY <1>3, <2>2 DEF IsMatch, IsDottedMatch
    <3>2. other[m + Len(old)] = "." /\ m + Len(old) < Len(other) =>
            other[m + Len(old) + 1] \notin TokenCharacters
      BY <1>3, <2>2 DEF IsMatch, IsDottedMatch
    <3>3. QED
      BY <2>2, <3>1, <3>2 DEF TokenCharacters
  <2>3. QED
    BY <1>3, <2>1, <2>2 DEF IsMatch, IsDottedMatch
<1>4. QED
  BY <1>2, <1>3 DEF Separators

\* Occurrences is made of the places of OccursAt.
LEMMA OccurrencesAreAt ==
  ASSUME separator \in Separators, NEW S, NEW text \in Seq(S), NEW from \in Nat \ {0}, NEW n
  PROVE  n \in Occurrences(text, from) <=> OccursAt(text, n) /\ n >= from
<1>1. Len(old) \in Nat /\ Len(old) >= 2 /\ Len(text) \in Nat
  BY OldIsAddress, LenProperties
<1>2. n \in from .. Len(text) - Len(old) + 1
        <=> n \in Nat \ {0} /\ n + Len(old) - 1 <= Len(text) /\ n >= from
  BY <1>1
<1>3. ASSUME n \in Nat \ {0}, n + Len(old) - 1 <= Len(text)
      PROVE  SubSeq(text, n, n + Len(old) - 1) = old
               <=> \A k \in 1 .. Len(old) : text[n + k - 1] = old[k]
  <2>1. \A k \in n .. n + Len(old) - 1 : text[k] \in S
    BY <1>1, <1>3, ElementOfSeq
  <2> DEFINE part == SubSeq(text, n, n + Len(old) - 1)
  <2>2. part \in Seq(S) /\ Len(part) = Len(old) /\ \A k \in 1 .. Len(old) : part[k] = text[n + k - 1]
    <3>1. PICK last, size : last = n + Len(old) - 1 /\ size = last - n + 1
      OBVIOUS
    <3>2. last \in Int /\ n <= last /\ size = Len(old)
      BY <1>1, <1>3, <3>1
    <3>3. /\ SubSeq(text, n, last) \in Seq(S)
          /\ Len(SubSeq(text, n, last)) = last - n + 1
          /\ \A k \in 1 .. last - n + 1 : SubSeq(text, n, last)[k] = text[n + k - 1]
      BY <1>3, <2>1, <3>1, <3>2, SubSeqProperties
    <3>4. part = SubSeq(text, n, last)
      BY <3>1
    <3>5. QED
      BY <3>1, <3>2, <3>3, <3>4, Zenon
  <2>3. old \in Seq(S \cup AddressCharacters) /\ part \in Seq(S \cup AddressCharacters)
    BY <2>2, AddressFacts, SeqMonotonic
  <2>4. (\A k \in 1 .. Len(old) : part[k] = old[k]) => part = old
    BY <2>2, <2>3, SeqEqual
  <2>5. QED
    BY <2>2, <2>4
<1>4. QED
  BY <1>2, <1>3 DEF Occurrences, OccursAt

LEMMA ContainsIsAt ==
  ASSUME separator \in Separators, NEW S, NEW text \in Seq(S)
  PROVE  ContainsMatch(text) <=> \E n \in 1 .. Len(text) : MatchesAt(text, n)
<1>1. Len(old) \in Nat /\ Len(old) >= 2 /\ Len(text) \in Nat
  BY OldIsAddress, LenProperties
<1>2. \A n : n \in Occurrences(text, 1) <=> OccursAt(text, n) /\ n >= 1
  BY OccurrencesAreAt
<1>3. \A n : OccursAt(text, n) => n \in 1 .. Len(text)
  BY <1>1 DEF OccursAt
<1>4. QED
  BY <1>2, <1>3 DEF ContainsMatch, MatchesAt

\* A text, then a part of the payload.
WithPart(head, from, last) == head \o SubSeq(payload, from, last)

IsWithPart(text, head, from, last) ==
  /\ Len(text) = Len(head) + last - from + 1
  /\ \A i \in 1 .. Len(head) : text[i] = head[i]
  /\ \A k \in from .. last : text[Len(head) + k - from + 1] = payload[k]

LEMMA Appended ==
  ASSUME NEW S, NEW head \in Seq(S), payload \in Seq(S),
         NEW from \in Nat \ {0}, NEW last \in Int, from <= last + 1, last <= Len(payload)
  PROVE  /\ WithPart(head, from, last) \in Seq(S)
         /\ IsWithPart(WithPart(head, from, last), head, from, last)
<1> DEFINE part == SubSeq(payload, from, last)
           text == WithPart(head, from, last)
<1>1. Len(head) \in Nat /\ Len(payload) \in Nat
  BY LenProperties
<1>2. \A k \in from .. last : payload[k] \in S
  BY <1>1, ElementOfSeq
<1>3. /\ part \in Seq(S)
      /\ Len(part) = IF from <= last THEN last - from + 1 ELSE 0
      /\ \A k \in 1 .. last - from + 1 : part[k] = payload[from + k - 1]
  BY <1>2, SubSeqProperties
<1>4. Len(part) = last - from + 1
  BY <1>3
<1>5. /\ text \in Seq(S) /\ Len(text) = Len(head) + Len(part)
      /\ \A i \in 1 .. Len(head) + Len(part) :
           text[i] = IF i <= Len(head) THEN head[i] ELSE part[i - Len(head)]
  BY <1>3, ConcatProperties DEF WithPart
<1> HIDE DEF text, part
<1>6. ASSUME NEW k \in from .. last
      PROVE  text[Len(head) + k - from + 1] = payload[k]
  <2> DEFINE i == k - from + 1
  <2>1. i \in 1 .. last - from + 1 /\ from + i - 1 = k
    OBVIOUS
  <2>2. part[i] = payload[k]
    BY <1>3, <2>1
  <2>3. text[Len(head) + i] = part[i]
    BY <1>1, <1>4, <1>5, <2>1
  <2>4. Len(head) + i = Len(head) + k - from + 1
    BY <1>1
  <2>5. QED
    BY <2>2, <2>3, <2>4
<1>7. QED
  BY <1>1, <1>4, <1>5, <1>6 DEF text, IsWithPart

\* A text and two parts of the payload in a row are a text and one part.
LEMMA SameCharacters ==
  ASSUME NEW head, NEW copied, NEW whole, NEW text, Len(head) \in Nat,
         NEW from \in Int, NEW next \in Int, NEW last \in Int, from <= next, next <= last + 1,
         IsWithPart(whole, head, from, last),
         IsWithPart(copied, head, from, next - 1), IsWithPart(text, copied, next, last)
  PROVE  /\ Len(text) \in Nat /\ Len(text) = Len(whole)
         /\ \A i \in 1 .. Len(text) : text[i] = whole[i]
<1>1. PICK h, c, before : h = Len(head) /\ c = Len(copied) /\ before = next - 1
  OBVIOUS
<1>2. c = h + before - from + 1 /\ Len(whole) = h + last - from + 1 /\ Len(text) = c + last - next + 1
  BY <1>1 DEF IsWithPart
<1>3. h \in Nat /\ before \in Int /\ c \in Int /\ h <= c /\ before <= last
  BY <1>1, <1>2
<1>4. Len(text) \in Nat /\ Len(text) = Len(whole)
  BY <1>1, <1>2, <1>3
<1>5. \A i \in 1 .. h : whole[i] = head[i]
  BY <1>1 DEF IsWithPart
<1>6. \A i \in 1 .. h : copied[i] = head[i]
  BY <1>1 DEF IsWithPart
<1>7. \A i \in 1 .. c : text[i] = copied[i]
  BY <1>1 DEF IsWithPart
<1>8. \A k \in from .. last : whole[h + k - from + 1] = payload[k]
  BY <1>1 DEF IsWithPart
<1>9. \A k \in from .. before : copied[h + k - from + 1] = payload[k]
  BY <1>1 DEF IsWithPart
<1>10. \A k \in next .. last : text[c + k - next + 1] = payload[k]
  BY <1>1 DEF IsWithPart
<1>11. ASSUME NEW i \in 1 .. Len(text)
       PROVE  text[i] = whole[i]
  <2>1. i \in Int /\ 1 <= i /\ i <= c + last - next + 1
    BY <1>2, <1>4
  <2>2. CASE i <= h
    <3>1. i \in 1 .. h /\ i \in 1 .. c
      BY <1>3, <2>1, <2>2
    <3>2. text[i] = copied[i]
      BY <1>7, <3>1
    <3>3. copied[i] = head[i]
      BY <1>6, <3>1
    <3>4. whole[i] = head[i]
      BY <1>5, <3>1
    <3>5. QED
      BY <3>2, <3>3, <3>4
  <2>3. CASE h < i /\ i <= c
    <3>1. PICK k : k = i - h + from - 1
      OBVIOUS
    <3>2. k \in from .. before /\ k \in from .. last /\ i \in 1 .. c /\ h + k - from + 1 = i
      BY <1>2, <1>3, <2>1, <2>3, <3>1
    <3>3. whole[h + k - from + 1] = payload[k]
      BY <1>8, <3>2
    <3>4. copied[h + k - from + 1] = payload[k]
      BY <1>9, <3>2
    <3>5. text[i] = copied[i]
      BY <1>7, <3>2
    <3>6. QED
      BY <3>2, <3>3, <3>4, <3>5
  <2>4. CASE c < i
    <3>1. PICK k : k = i - c + next - 1
      OBVIOUS
    <3>2. /\ k \in next .. last /\ k \in from .. last
          /\ c + k - next + 1 = i /\ h + k - from + 1 = i
      BY <1>1, <1>2, <1>3, <2>1, <2>4, <3>1
    <3>3. whole[h + k - from + 1] = payload[k]
      BY <1>8, <3>2
    <3>4. text[c + k - next + 1] = payload[k]
      BY <1>10, <3>2
    <3>5. QED
      BY <3>2, <3>3, <3>4
  <2>5. QED
    BY <1>3, <2>1, <2>2, <2>3, <2>4
<1>12. QED
  BY <1>4, <1>11

\* The payload from two places on, with what is between them.
LEMMA Split ==
  ASSUME NEW S, NEW head \in Seq(S), payload \in Seq(S), NEW from \in Nat \ {0},
         NEW next \in Nat \ {0}, from <= next, next <= Len(payload) + 1
  PROVE  WithPart(head, from, Len(payload))
           = WithPart(WithPart(head, from, next - 1), next, Len(payload))
<1> DEFINE last == Len(payload)
           before == next - 1
           whole == WithPart(head, from, last)
           copied == WithPart(head, from, before)
           text == WithPart(copied, next, last)
<1>1. Len(payload) \in Nat /\ Len(head) \in Nat
  BY LenProperties
<1>2. /\ last \in Int /\ from <= last + 1 /\ next <= last + 1 /\ last <= Len(payload)
      /\ before \in Int /\ from <= before + 1 /\ before <= Len(payload)
      /\ before <= last /\ before = next - 1
  BY <1>1
<1> HIDE DEF last, before
<1>3. whole \in Seq(S) /\ IsWithPart(whole, head, from, last)
  BY <1>2, Appended
<1>4. copied \in Seq(S) /\ IsWithPart(copied, head, from, before)
  BY <1>2, Appended
<1> HIDE DEF copied
<1>5. text \in Seq(S) /\ IsWithPart(text, copied, next, last)
  BY <1>2, <1>4, Appended
<1> HIDE DEF text, whole
<1>6. Len(text) = Len(whole) /\ \A i \in 1 .. Len(text) : text[i] = whole[i]
  BY <1>1, <1>2, <1>3, <1>4, <1>5, SameCharacters
<1>7. text = whole
  BY <1>3, <1>5, <1>6, SeqEqual
<1>8. QED
  BY <1>7 DEF text, whole, copied, last, before

\* The characters of Whole.
LEMMA WholeIs ==
  ASSUME NothingRemainsInv, ~done
  PROVE  /\ Whole \in Seq(Characters(separator))
         /\ Len(out) \in Nat /\ Len(payload) \in Nat /\ Len(Whole) \in Nat
         /\ Len(Whole) = Len(out) + Len(payload) - pos + 1
         /\ \A i \in 1 .. Len(out) : Whole[i] = out[i]
         /\ \A k \in pos .. Len(payload) : Whole[Len(out) + k - pos + 1] = payload[k]
<1>1. Len(out) \in Nat /\ Len(payload) \in Nat /\ pos \in Nat \ {0} /\ pos <= Len(payload) + 1
  BY LenProperties DEF NothingRemainsInv, TextTypeOK, EndsWithAddress
<1> DEFINE last == Len(payload)
<1>2. last \in Int /\ last <= Len(payload) /\ pos <= last + 1
  BY <1>1
<1>3. Whole = WithPart(out, pos, last)
  BY DEF Whole, WithPart
<1> HIDE DEF last
<1>4. Whole \in Seq(Characters(separator)) /\ IsWithPart(Whole, out, pos, last)
  BY <1>1, <1>2, <1>3, Appended DEF NothingRemainsInv, TextTypeOK
<1>5. QED
  BY <1>1, <1>4 DEF last, IsWithPart

\* An occurrence behind out is one in the payload, and the other way round.
LEMMA ShiftedOccurrence ==
  ASSUME NothingRemainsInv, ~done, NEW n \in Nat, n > Len(out), OccursAt(Whole, n)
  PROVE  pos + n - Len(out) - 1 \in Occurrences(payload, pos)
<1> DEFINE place == pos + n - Len(out) - 1
<1>1. Len(old) \in Nat /\ Len(old) >= 2 /\ pos \in Nat \ {0}
  BY OldIsAddress DEF NothingRemainsInv, TextTypeOK
<1>2. /\ Len(out) \in Nat /\ Len(payload) \in Nat
      /\ Len(Whole) = Len(out) + Len(payload) - pos + 1
      /\ \A k \in pos .. Len(payload) : Whole[Len(out) + k - pos + 1] = payload[k]
  BY WholeIs
<1>3. place \in Nat \ {0} /\ place >= pos /\ place + Len(old) - 1 <= Len(payload)
  BY <1>1, <1>2 DEF OccursAt
<1>4. ASSUME NEW k \in 1 .. Len(old)
      PROVE  payload[place + k - 1] = old[k]
  <2>1. place + k - 1 \in pos .. Len(payload)
    BY <1>1, <1>2, <1>3
  <2>2. Len(out) + (place + k - 1) - pos + 1 = n + k - 1
    BY <1>1, <1>2
  <2>3. Whole[n + k - 1] = payload[place + k - 1]
    BY <1>2, <2>1, <2>2
  <2>4. QED
    BY <2>3 DEF OccursAt
<1>5. OccursAt(payload, place)
  BY <1>3, <1>4 DEF OccursAt
<1>6. QED
  BY <1>1, <1>3, <1>5, OccurrencesAreAt DEF NothingRemainsInv, TextTypeOK

-----------------------------------------------------------------------------
LEMMA FinishLeavesNothing ==
  ASSUME NothingRemainsInv, Finish
  PROVE  NothingRemainsInv'
<1>1. out' = Whole /\ old' = old
  BY DEF Finish, Whole, old
<1>2. Whole \in Seq(Characters(separator))
  BY WholeIs DEF Finish
<1>3. ASSUME NEW n \in 1 .. Len(Whole), MatchesAt(Whole, n)
      PROVE  FALSE
  <2>1. CASE n <= Len(out)
    BY <1>3, <2>1, WholeIs DEF NothingRemainsInv, Finish
  <2>2. CASE n > Len(out)
    BY <1>3, <2>2, ShiftedOccurrence, WholeIs DEF MatchesAt, Finish
  <2>3. QED
    BY <2>1, <2>2, WholeIs DEF Finish
<1>4. ~ContainsMatch(Whole)
  BY <1>2, <1>3, ContainsIsAt DEF NothingRemainsInv, TextTypeOK
<1>5. ContainsMatch(out)' = ContainsMatch(Whole)
  BY <1>1 DEF ContainsMatch, Occurrences, IsMatch, IsCommaMatch, IsDottedMatch, Finish
<1>6. TextTypeOK'
  BY DEF NothingRemainsInv, TextTypeOK, Finish
<1>7. QED
  BY <1>1, <1>2, <1>4, <1>5, <1>6 DEF NothingRemainsInv, Finish

\* The next occurrence, and the characters of it.
LEMMA NextFoundIs ==
  ASSUME TextTypeOK, Occurrences(payload, pos) # {}
  PROVE  /\ NextFound \in Nat /\ NextFound >= pos
         /\ NextFound + Len(old) - 1 <= Len(payload)
         /\ \A k \in 1 .. Len(old) : payload[NextFound + k - 1] = old[k]
         /\ \A m \in Occurrences(payload, pos) : NextFound <= m
<1>1. NextFound \in Occurrences(payload, 1) /\ NextFound \in Nat /\ NextFound >= pos
  BY FirstIsFound
<1>2. OccursAt(payload, NextFound)
  BY <1>1, OccurrencesAreAt DEF TextTypeOK
<1>3. QED
  BY <1>1, <1>2, FirstIsFound DEF OccursAt

\* Both ways of going on leave pos behind the end of an address.
LEMMA BehindIs ==
  ASSUME NothingRemainsInv, ~done, Occurrences(payload, pos) # {}
  PROVE  /\ Behind(NextFound) \in Nat \ {0} /\ Behind(NextFound) > 1
         /\ Behind(NextFound) <= Len(payload) + 1
         /\ payload[Behind(NextFound) - 1] \in Digits
         /\ Behind(NextFound) = NextFound + Len(old)
<1>1. TextTypeOK
  BY DEF NothingRemainsInv
<1>2. Len(old) \in Nat /\ Len(old) >= 2 /\ old[Len(old)] \in Digits
  BY <1>1, AddressFacts DEF TextTypeOK
<1>3. Len(payload) \in Nat /\ pos \in Nat \ {0}
  BY <1>1, LenProperties DEF TextTypeOK
<1>4. /\ NextFound \in Nat /\ NextFound >= pos
      /\ NextFound + Len(old) - 1 <= Len(payload)
      /\ payload[NextFound + Len(old) - 1] = old[Len(old)]
  BY <1>1, <1>2, NextFoundIs
<1>5. QED
  BY <1>2, <1>3, <1>4 DEF Behind

\* A text that was copied to out has no match: an occurrence that is passed is
\* none, and no match begins inside of it.
LEMMA KeepLeavesNothing ==
  ASSUME NothingRemainsInv, Keep
  PROVE  NothingRemainsInv'
<1>0. PICK found, next : found = NextFound /\ next = Behind(NextFound)
  OBVIOUS
<1>1. TextTypeOK /\ ~done /\ EndsWithAddress /\ Occurrences(payload, pos) # {}
  BY DEF NothingRemainsInv, Keep
<1>2. /\ Len(old) \in Nat /\ Len(old) >= 2
      /\ \A k \in 1 .. Len(old) : old[k] \in AddressCharacters
  BY <1>1, AddressFacts DEF TextTypeOK
<1>3. /\ next \in Nat \ {0} /\ next > 1 /\ next <= Len(payload) + 1
      /\ payload[next - 1] \in Digits /\ next = found + Len(old)
  BY <1>0, <1>1, BehindIs
<1>4. /\ found \in Nat /\ found >= pos /\ pos \in Nat \ {0}
      /\ \A k \in 1 .. Len(old) : payload[found + k - 1] = old[k]
      /\ \A m \in Occurrences(payload, pos) : found <= m
  BY <1>0, <1>1, NextFoundIs DEF TextTypeOK
<1>5. /\ Whole \in Seq(Characters(separator))
      /\ Len(out) \in Nat /\ Len(payload) \in Nat /\ Len(Whole) \in Nat
      /\ Len(Whole) = Len(out) + Len(payload) - pos + 1
      /\ \A i \in 1 .. Len(out) : Whole[i] = out[i]
      /\ \A k \in pos .. Len(payload) : Whole[Len(out) + k - pos + 1] = payload[k]
  BY <1>1, WholeIs
<1>sizes. /\ next \in Int /\ found \in Int /\ pos \in Int /\ Len(out) \in Int
          /\ 0 <= Len(out) /\ 1 <= pos /\ pos <= found
  BY <1>3, <1>4, <1>5
<1>6. /\ out' = out \o SubSeq(payload, pos, next - 1) /\ pos' = next
      /\ UNCHANGED <<payload, separator, changed, done>> /\ old' = old
  BY <1>0 DEF Keep, old
<1>7. /\ out' \in Seq(Characters(separator))
      /\ Len(out') = Len(out) + next - pos
      /\ \A i \in 1 .. Len(out) : out'[i] = out[i]
      /\ \A k \in pos .. next - 1 : out'[Len(out) + k - pos + 1] = payload[k]
  <2>1. payload \in Seq(Characters(separator)) /\ out \in Seq(Characters(separator))
    BY <1>1 DEF NothingRemainsInv, TextTypeOK
  <2> DEFINE before == next - 1
             text == out'
  <2>2. /\ before \in Int /\ pos <= before + 1 /\ before <= Len(payload)
        /\ before - pos + 1 = next - pos /\ text = WithPart(out, pos, before)
    BY <1>2, <1>3, <1>4, <1>5, <1>6 DEF WithPart
  <2> HIDE DEF before, text
  <2>3. text \in Seq(Characters(separator)) /\ IsWithPart(text, out, pos, before)
    BY <1>4, <2>1, <2>2, Appended
  <2>4. Len(out) + before - pos + 1 = Len(out) + next - pos
    BY <1>3, <1>4, <1>5 DEF before
  <2>5. QED
    BY <2>3, <2>4 DEF text, before, IsWithPart
<1>8. TextTypeOK'
  BY <1>1, <1>3, <1>6 DEF TextTypeOK
<1>9. EndsWithAddress'
  <2>1. out'[Len(out')] = payload[next - 1]
    <3>1. next - 1 \in pos .. next - 1
      BY <1>2, <1>3, <1>4
    <3>2. Len(out) + (next - 1) - pos + 1 = Len(out')
      BY <1>3, <1>4, <1>5, <1>7
    <3>3. QED
      BY <1>7, <3>1, <3>2
  <2>2. Len(out') > 0
    BY <1>2, <1>3, <1>4, <1>5, <1>7
  <2>3. pos' = next /\ payload' = payload /\ out'[Len(out')] \in Digits
    BY <1>3, <1>6, <2>1
  <2>4. pos' <= Len(payload') + 1 /\ pos' > 1 /\ pos' # 1 /\ payload'[pos' - 1] \in Digits
    BY <1>3, <2>3
  <2>5. QED
    BY <2>2, <2>3, <2>4, Zenon DEF EndsWithAddress
<1>10. Whole' = Whole
  <2>1. payload \in Seq(Characters(separator)) /\ out \in Seq(Characters(separator))
        /\ next \in Nat /\ pos <= next
    BY <1>1, <1>2, <1>3, <1>4 DEF NothingRemainsInv, TextTypeOK
  <2>2. Whole = (out \o SubSeq(payload, pos, next - 1)) \o SubSeq(payload, next, Len(payload))
    BY <1>3, <1>4, <2>1, Split DEF Whole, WithPart
  <2>3. QED
    BY <1>6, <2>2 DEF Whole
<1>11. ASSUME NEW n \in 1 .. Len(out'), MatchesAt(Whole, n)
       PROVE  FALSE
  <2>1. CASE n <= Len(out)
    BY <1>1, <1>11, <2>1 DEF NothingRemainsInv
  <2>2. CASE n > Len(out)
    <3> DEFINE place == pos + n - Len(out) - 1
    <3>1. place \in Occurrences(payload, pos)
      BY <1>1, <1>11, <2>2, ShiftedOccurrence DEF MatchesAt
    <3>number. n \in Nat /\ n <= Len(out) + next - pos
      <4>1. Len(out') \in Int
        BY <1>7, <1>sizes
      <4>2. QED
        BY <1>7, <4>1
    <3>2. place \in Nat /\ found <= place /\ place < next /\ place >= pos
      <4>1. found <= place
        BY <1>4, <3>1
      <4>2. place \in Int /\ place < next /\ place >= pos
        BY <1>sizes, <2>2, <3>number
      <4>3. QED
        BY <1>sizes, <4>1, <4>2
    <3>3. IsMatch(Whole, n)
      BY <1>11 DEF MatchesAt
    <3>4. CASE place = pos /\ pos > 1
      <4>1. n = Len(out) + 1 /\ Len(out) > 0 /\ Whole[n - 1] \in Digits
        BY <1>1, <1>4, <1>5, <3>4 DEF EndsWithAddress
      <4>2. QED
        BY <1>1, <3>3, <4>1, LeftRule DEF TextTypeOK, AddressCharacters
    <3>5. CASE place > found
      <4>1. place - 1 \in pos .. Len(payload) /\ Len(out) + (place - 1) - pos + 1 = n - 1
        <5>1. next <= Len(payload) + 1 /\ found >= pos /\ found \in Nat
          BY <1>3, <1>4
        <5>2. QED
          BY <1>sizes, <3>2, <3>5, <3>number, <5>1
      <4>2. Whole[n - 1] = payload[place - 1]
        BY <1>5, <4>1
      <4>3. place - found \in 1 .. Len(old) /\ found + (place - found) - 1 = place - 1
        BY <1>2, <1>3, <1>4, <3>2, <3>5
      <4>4. payload[place - 1] = old[place - found]
        BY <1>4, <4>3
      <4>5. Whole[n - 1] \in AddressCharacters
        BY <1>2, <4>2, <4>3, <4>4
      <4>6. n > 1 /\ n \in Nat
        BY <1>4, <1>5, <3>2, <3>5
      <4>7. QED
        BY <1>1, <3>3, <4>5, <4>6, LeftRule DEF TextTypeOK
    <3>6. CASE place = found /\ (place > pos \/ pos = 1)
      <4>1. ASSUME place > 1
            PROVE  n > 1 /\ Whole[n - 1] = payload[place - 1]
        <5>1. place > pos
          BY <3>6, <4>1
        <5>2. place - 1 \in pos .. Len(payload) /\ Len(out) + (place - 1) - pos + 1 = n - 1
          BY <1>3, <1>4, <1>5, <3>2, <5>1
        <5>3. QED
          BY <1>4, <1>5, <5>1, <5>2
      <4>2. ASSUME place + Len(old) <= Len(payload)
            PROVE  /\ n + Len(old) <= Len(Whole)
                   /\ Whole[n + Len(old)] = payload[place + Len(old)]
        <5>1. /\ place + Len(old) \in pos .. Len(payload)
              /\ Len(out) + (place + Len(old)) - pos + 1 = n + Len(old)
          BY <1>2, <1>4, <1>5, <3>2, <3>number, <4>2
        <5>2. QED
          BY <1>2, <1>4, <1>5, <3>number, <5>1
      <4>3. ASSUME place + Len(old) < Len(payload)
            PROVE  /\ n + Len(old) < Len(Whole)
                   /\ Whole[n + Len(old) + 1] = payload[place + Len(old) + 1]
        <5>1. /\ place + Len(old) + 1 \in pos .. Len(payload)
              /\ Len(out) + (place + Len(old) + 1) - pos + 1 = n + Len(old) + 1
              /\ n + Len(old) < Len(Whole)
          BY <1>2, <1>4, <1>5, <3>2, <3>number, <4>3
        <5> DEFINE k == place + Len(old) + 1
        <5> HIDE DEF k
        <5>2. Whole[Len(out) + k - pos + 1] = payload[k]
          BY <1>5, <5>1 DEF k
        <5>3. QED
          BY <5>1, <5>2 DEF k
      <4>4. IsMatch(payload, place)
        <5> HIDE DEF place
        <5>1. n \in Nat
          BY <1>5
        <5>2. QED
          BY <1>1, <1>5, <3>2, <3>3, <4>1, <4>2, <4>3, <5>1, SameSurroundings DEF TextTypeOK
      <4>5. QED
        BY <1>0, <3>6, <4>4 DEF Keep
    <3>7. QED
      BY <1>4, <3>2, <3>4, <3>5, <3>6
  <2>3. QED
    BY <1>5, <1>7, <2>1, <2>2
<1>12. \A n : MatchesAt(Whole, n)' <=> MatchesAt(Whole, n)
  BY <1>6, <1>10 DEF MatchesAt, OccursAt, IsMatch, IsCommaMatch, IsDottedMatch
<1>13. QED
  BY <1>1, <1>6, <1>7, <1>8, <1>9, <1>11, <1>12 DEF NothingRemainsInv

\* The text when the next occurrence is replaced: the same up to place a, then
\* the new address, then the rest of the payload.
IsReplaced(text, a) ==
  /\ a = Len(out) + NextFound - pos
  /\ Len(text) = a + Len(new) + Len(payload) - Behind(NextFound) + 1
  /\ \A i \in 1 .. a : text[i] = Whole[i]
  /\ \A i \in 1 .. Len(new) : text[a + i] = new[i]
  /\ \A k \in Behind(NextFound) .. Len(payload) :
       text[a + Len(new) + k - Behind(NextFound) + 1] = payload[k]

\* A new address makes no match with the text around it.
LEMMA ReplacedHasNoMatch ==
  ASSUME NothingRemainsInv, ~done, Occurrences(payload, pos) # {},
         IsMatch(payload, NextFound), AddressesDiffer,
         NEW text, NEW a, IsReplaced(text, a),
         NEW n \in Nat \ {0}, n <= a + Len(new), MatchesAt(text, n)
  PROVE  FALSE
<1>0. PICK found, next, L, P, l, w :
        /\ found = NextFound /\ next = Behind(NextFound)
        /\ L = Len(out) /\ P = Len(payload) /\ l = Len(old) /\ w = Len(new)
  OBVIOUS
<1>1. /\ TextTypeOK /\ separator \in Separators /\ pos \in Nat \ {0}
      /\ EndsWithAddress /\ IsMatch(payload, found)
  BY <1>0 DEF NothingRemainsInv, TextTypeOK
<1>2. /\ l \in Nat /\ l >= 2 /\ old[1] \in Digits
      /\ \A k \in 1 .. l : old[k] \in AddressCharacters
      /\ \A k \in 1 .. l :
           old[k] \notin Digits => k < l /\ old[k + 1] \in Digits
  BY <1>0, <1>1, AddressFacts
<1>3. /\ w \in Nat /\ w >= 2 /\ new[1] \in Digits
      /\ \A k \in 1 .. w : new[k] \in AddressCharacters
      /\ \A k \in 1 .. w :
           new[k] \notin Digits => k < w /\ new[k + 1] \in Digits
  BY <1>0, <1>1, AddressFacts
<1>4. /\ found \in Nat /\ found >= pos /\ next = found + l
      /\ next <= P + 1 /\ next \in Nat
      /\ \A k \in 1 .. l : payload[found + k - 1] = old[k]
      /\ \A m \in Occurrences(payload, pos) : found <= m
  BY <1>0, <1>1, BehindIs, NextFoundIs
<1>5. /\ L \in Nat /\ P \in Nat /\ Len(Whole) \in Nat
      /\ Len(Whole) = L + P - pos + 1
      /\ \A i \in 1 .. L : Whole[i] = out[i]
      /\ \A k \in pos .. P : Whole[L + k - pos + 1] = payload[k]
  BY <1>0, WholeIs
<1>6. /\ a = L + found - pos
      /\ Len(text) = a + w + P - next + 1
      /\ \A i \in 1 .. a : text[i] = Whole[i]
      /\ \A i \in 1 .. w : text[a + i] = new[i]
      /\ \A k \in next .. P : text[a + w + k - next + 1] = payload[k]
  BY <1>0 DEF IsReplaced
<1>7. /\ Len(text) \in Int /\ a \in Int /\ next \in Int /\ found \in Int /\ pos \in Int
      /\ L \in Int /\ P \in Int /\ l \in Int /\ w \in Int /\ n \in Int
      /\ a = L + found - pos /\ next = found + l /\ Len(text) = a + w + P - next + 1
      /\ Len(Whole) = L + P - pos + 1
      /\ 0 <= L /\ 2 <= l /\ 2 <= w /\ 1 <= pos /\ pos <= found /\ next <= P + 1
      /\ 1 <= n /\ n <= a + w
  <2>1. /\ next \in Int /\ found \in Int /\ pos \in Int /\ n \in Int
        /\ 1 <= n /\ n <= a + w /\ 1 <= pos /\ pos <= found /\ next <= P + 1
    BY <1>0, <1>1, <1>4
  <2>2. L \in Int /\ P \in Int /\ l \in Int /\ w \in Int /\ 0 <= L /\ 2 <= l /\ 2 <= w
    BY <1>2, <1>3, <1>5
  <2>3. a = L + found - pos
    BY <1>6
  <2>4. a \in Int
    BY <2>1, <2>2, <2>3
  <2>5. Len(text) = a + w + P - next + 1
    BY <1>6
  <2>6. Len(text) \in Int
    BY <2>1, <2>2, <2>4, <2>5
  <2>7. next = found + l
    BY <1>4
  <2>8. Len(Whole) = L + P - pos + 1
    BY <1>5
  <2>9. QED
    BY <2>1, <2>2, <2>3, <2>4, <2>5, <2>6, <2>7, <2>8
<1>8. /\ n + l - 1 <= Len(text) /\ IsMatch(text, n)
      /\ \A k \in 1 .. l : text[n + k - 1] = old[k]
  BY <1>0 DEF MatchesAt, OccursAt
<1>bounds. n + l - 1 <= Len(text) /\ a \in Nat /\ Len(text) \in Nat /\ L <= a /\ a < Len(Whole)
  <2>1. a \in Nat /\ L <= a /\ a < Len(Whole)
    BY <1>7
  <2>2. Len(text) \in Nat
    BY <1>7
  <2>3. QED
    BY <1>8, <2>1, <2>2
<1>9. ASSUME a > 0
      PROVE  text[a] \notin AddressCharacters
  <2>1. CASE found > pos
    <3>1. found - 1 \in pos .. P /\ L + (found - 1) - pos + 1 = a
      BY <1>7, <2>1
    <3>2. Whole[a] = payload[found - 1]
      BY <1>5, <3>1
    <3>3. payload[found - 1] \notin AddressCharacters
      BY <1>1, <1>4, <2>1, LeftRule
    <3>4. a \in 1 .. a
      BY <1>7, <1>9
    <3>5. QED
      BY <1>6, <3>2, <3>3, <3>4
  <2>2. CASE found = pos
    <3>1. L > 0
      BY <1>7, <1>9, <2>2
    <3>2. pos > 1
      <4>1. pos # 1
        BY <1>0, <1>1, <3>1 DEF EndsWithAddress
      <4>2. QED
        BY <1>1, <4>1
    <3>3. payload[pos - 1] \in Digits
      BY <1>1, <3>2 DEF EndsWithAddress
    <3>4. payload[pos - 1] \notin AddressCharacters
      BY <1>1, <2>2, <3>2, LeftRule
    <3>5. QED
      BY <3>3, <3>4 DEF AddressCharacters
  <2>3. QED
    BY <1>7, <2>1, <2>2
<1>10. CASE n > a + 1
  <2>1. n - 1 - a \in 1 .. w /\ a + (n - 1 - a) = n - 1
    BY <1>7, <1>10
  <2>2. text[n - 1] \in AddressCharacters
    BY <1>3, <1>6, <2>1
  <2>3. n > 1 /\ n \in Nat
    BY <1>7, <1>10
  <2>4. QED
    BY <1>1, <1>8, <2>2, <2>3, LeftRule
<1>11. CASE n = a + 1
  <2>1. \A k \in 1 .. l : text[a + k] = old[k]
    <3>1. ASSUME NEW k \in 1 .. l
          PROVE  text[a + k] = old[k]
      <4>1. n + k - 1 = a + k
        BY <1>7, <1>11
      <4>2. QED
        BY <1>8, <4>1
    <3>2. QED
      BY <3>1
  <2>2. CASE w = l
    <3>1. \A k \in 1 .. l : old[k] = new[k]
      BY <1>6, <2>1, <2>2
    <3>2. old \in Seq(AddressCharacters) /\ new \in Seq(AddressCharacters)
      BY <1>1, AddressFacts
    <3>3. old = new
      BY <1>0, <2>2, <3>1, <3>2, SeqEqual
    <3>4. QED
      BY <1>1, <3>3 DEF AddressesDiffer, old, new
  <2>3. CASE w > l
    <3> DEFINE i == l + 1
    <3>1. i \in 1 .. w /\ a + i = n + l /\ n + l <= Len(text)
      BY <1>7, <1>11, <2>3
    <3>2. text[n + l] = new[i]
      BY <1>6, <3>1
    <3>3. new[i] \in AddressCharacters
      BY <1>3, <3>1
    <3>4. /\ new[i] \notin Digits
          /\ n + l < Len(text) => text[n + l + 1] \notin Digits
      BY <1>0, <1>1, <1>7, <1>bounds, <1>8, <3>1, <3>2, <3>3, RightRule
    <3>5. i < w /\ new[i + 1] \in Digits
      BY <1>3, <3>1, <3>4
    <3>6. i + 1 \in 1 .. w /\ a + (i + 1) = n + l + 1 /\ n + l < Len(text)
      BY <1>7, <1>11, <2>3, <3>5
    <3>7. text[a + (i + 1)] = new[i + 1]
      BY <1>6, <3>6
    <3>8. QED
      BY <3>4, <3>5, <3>6, <3>7
  <2>4. CASE w < l
    <3> DEFINE i == w + 1
    <3>1. i \in 1 .. l /\ next \in next .. P /\ a + i = a + w + next - next + 1
      BY <1>7, <1>bounds, <1>11, <2>4
    <3>2. text[a + w + next - next + 1] = payload[next]
      BY <1>6, <3>1
    <3>3. text[a + i] = old[i]
      BY <2>1, <3>1
    <3>4. payload[found + l] = old[i] /\ old[i] \in AddressCharacters
      BY <1>2, <1>4, <3>1, <3>2, <3>3
    <3>5. found + l <= P
      BY <1>4, <3>1
    <3>6. /\ old[i] \notin Digits
          /\ found + l < P => payload[found + l + 1] \notin Digits
      BY <1>1, <1>4, <1>5, <3>4, <3>5, <1>0, RightRule
    <3>7. i < l /\ old[i + 1] \in Digits
      BY <1>2, <3>1, <3>6
    <3>8. /\ i + 1 \in 1 .. l /\ next + 1 \in next .. P
          /\ a + (i + 1) = a + w + (next + 1) - next + 1
      BY <1>7, <1>bounds, <1>11, <2>4, <3>7
    <3>9. text[a + w + (next + 1) - next + 1] = payload[next + 1]
      BY <1>6, <3>8
    <3>10. text[a + (i + 1)] = old[i + 1]
      BY <2>1, <3>8
    <3>11. payload[found + l + 1] \in Digits
      BY <1>4, <3>7, <3>8, <3>9, <3>10
    <3>12. found + l < P
      BY <1>7, <3>8
    <3>13. QED
      BY <3>6, <3>11, <3>12
  <2>5. QED
    BY <1>7, <2>2, <2>3, <2>4
<1>12. CASE n <= a /\ a <= n + l - 1
  <2>1. a - n + 1 \in 1 .. l /\ n + (a - n + 1) - 1 = a /\ a > 0
    BY <1>7, <1>12
  <2>2. text[a] = old[a - n + 1]
    BY <1>8, <2>1
  <2>3. QED
    BY <1>2, <1>9, <2>1, <2>2
<1>13. CASE n + l <= a
  <2>1. ASSUME NEW k \in 1 .. l
        PROVE  Whole[n + k - 1] = old[k]
    <3>1. n + k - 1 \in 1 .. a
      BY <1>7, <1>bounds, <1>13
    <3>2. QED
      BY <1>6, <1>8, <3>1
  <2>2. n + l - 1 <= Len(Whole)
    BY <1>7, <1>13
  <2>3. OccursAt(Whole, n)
    BY <1>0, <2>1, <2>2 DEF OccursAt
  <2>4. n > 1 => text[n - 1] = Whole[n - 1]
    <3>1. n > 1 => n - 1 \in 1 .. a
      BY <1>7, <1>bounds, <1>13
    <3>2. QED
      BY <1>6, <3>1
  <2>5. n + l <= Len(text) /\ text[n + l] = Whole[n + l]
    <3>1. n + l \in 1 .. a /\ n + l <= Len(text)
      BY <1>7, <1>13
    <3>2. QED
      BY <1>6, <3>1
  <2>6. /\ n + l < Len(text)
        /\ \/ text[n + l + 1] = Whole[n + l + 1]
           \/ text[n + l + 1] \in Digits
    <3>1. n + l < Len(text)
      BY <1>7, <1>13
    <3>2. CASE n + l < a
      <4>1. n + l + 1 \in 1 .. a
        BY <1>7, <3>2
      <4>2. QED
        BY <1>6, <3>1, <4>1
    <3>3. CASE n + l = a
      <4>1. 1 \in 1 .. w /\ n + l + 1 = a + 1
        BY <1>7, <3>3
      <4>2. text[a + 1] = new[1]
        BY <1>6, <4>1
      <4>3. QED
        BY <1>3, <3>1, <4>1, <4>2
    <3>4. QED
      BY <1>7, <1>13, <3>2, <3>3
  <2>7. IsMatch(Whole, n)
    BY <1>1, <1>0, <1>5, <1>7, <1>bounds, <1>8, <2>4, <2>5, <2>6, SameSurroundings
  <2>8. CASE n <= L
    BY <1>0, <1>7, <2>3, <2>7, <2>8 DEF NothingRemainsInv, MatchesAt
  <2>9. CASE n > L
    <3>1. pos + n - L - 1 \in Occurrences(payload, pos)
      BY <1>0, <2>3, <2>9, ShiftedOccurrence
    <3>2. found <= pos + n - L - 1
      BY <1>4, <3>1
    <3>3. QED
      BY <1>7, <1>13, <2>9, <3>2
  <2>10. QED
    BY <1>7, <2>8, <2>9
<1>14. QED
  BY <1>7, <1>10, <1>11, <1>12, <1>13

\* Replacing an occurrence changes Whole as IsReplaced says.
LEMMA ReplaceLeavesNothing ==
  ASSUME NothingRemainsInv, Replace, AddressesDiffer
  PROVE  NothingRemainsInv'
<1>0. PICK found, next, a, before :
        /\ found = NextFound /\ next = Behind(NextFound)
        /\ a = Len(out) + found - pos /\ before = found - 1
  OBVIOUS
<1>1. /\ TextTypeOK /\ ~done /\ EndsWithAddress /\ Occurrences(payload, pos) # {}
      /\ separator \in Separators /\ payload \in Seq(Characters(separator))
      /\ out \in Seq(Characters(separator)) /\ pos \in Nat \ {0}
      /\ IsMatch(payload, found)
  BY <1>0 DEF NothingRemainsInv, Replace, TextTypeOK
<1>2. Len(old) \in Nat /\ Len(old) >= 2
  BY <1>1, AddressFacts
<1>3. /\ Len(new) \in Nat /\ Len(new) >= 2 /\ new[Len(new)] \in Digits
      /\ new \in Seq(AddressCharacters)
  BY <1>1, AddressFacts
<1>4. /\ next \in Nat \ {0} /\ next > 1 /\ next <= Len(payload) + 1
      /\ payload[next - 1] \in Digits /\ next = found + Len(old)
      /\ found \in Nat /\ found >= pos
  BY <1>0, <1>1, BehindIs, NextFoundIs
<1>5. /\ Len(out) \in Nat /\ Len(payload) \in Nat
      /\ \A i \in 1 .. Len(out) : Whole[i] = out[i]
      /\ \A k \in pos .. Len(payload) : Whole[Len(out) + k - pos + 1] = payload[k]
  BY <1>1, WholeIs
<1>6. /\ before \in Int /\ pos <= before + 1 /\ before <= Len(payload)
      /\ a \in Nat /\ a = Len(out) + before - pos + 1 /\ Len(out) <= a
  <2>1. /\ pos \in Nat /\ found \in Nat /\ found >= pos /\ Len(old) \in Nat /\ Len(old) >= 2
        /\ next <= Len(payload) + 1 /\ next = found + Len(old)
    BY <1>1, <1>2, <1>4
  <2>2. Len(out) \in Nat /\ Len(payload) \in Nat
    BY <1>5
  <2>3. a = Len(out) + found - pos /\ before = found - 1
    BY <1>0
  <2>4. QED
    BY <2>1, <2>2, <2>3
<1>7. new \in Seq(Characters(separator))
  <2>1. AddressCharacters \subseteq Characters(separator)
    BY DEF AddressCharacters, Characters
  <2>2. QED
    BY <1>3, <2>1, SeqMonotonic
<1> DEFINE head == WithPart(out, pos, before)
           joined == head \o new
<1>8. /\ out' = joined /\ pos' = next
      /\ UNCHANGED <<payload, separator, done>> /\ changed' = TRUE
      /\ old' = old /\ new' = new
  BY <1>0 DEF Replace, old, new, WithPart
<1>9. head \in Seq(Characters(separator)) /\ IsWithPart(head, out, pos, before)
  BY <1>1, <1>6, Appended
<1>10. /\ Len(head) = a
       /\ \A i \in 1 .. Len(out) : head[i] = out[i]
       /\ \A k \in pos .. before : head[Len(out) + k - pos + 1] = payload[k]
  BY <1>6, <1>9 DEF IsWithPart
<1> HIDE DEF head
<1>11. /\ joined \in Seq(Characters(separator))
       /\ Len(joined) = a + Len(new)
       /\ \A i \in 1 .. a + Len(new) : joined[i] = IF i <= a THEN head[i] ELSE new[i - a]
  BY <1>7, <1>9, <1>10, ConcatProperties
<1> HIDE DEF joined
<1>12. /\ \A i \in 1 .. a : joined[i] = head[i]
       /\ \A i \in 1 .. Len(new) : joined[a + i] = new[i]
  <2>1. a \in Nat /\ Len(new) \in Nat
    BY <1>3, <1>6
  <2>2. ASSUME NEW i \in 1 .. a
        PROVE  joined[i] = head[i]
    BY <1>11, <2>1
  <2>3. ASSUME NEW i \in 1 .. Len(new)
        PROVE  joined[a + i] = new[i]
    <3>1. a + i \in 1 .. a + Len(new) /\ ~(a + i <= a) /\ (a + i) - a = i
      BY <2>1
    <3>2. QED
      BY <1>11, <3>1
  <2>4. QED
    BY <2>2, <2>3
<1>13. PICK text, last : text = WithPart(joined, next, last) /\ last = Len(payload)
  OBVIOUS
<1>14. Whole' = text
  BY <1>8, <1>13 DEF Whole, WithPart
<1>15. text \in Seq(Characters(separator)) /\ IsWithPart(text, joined, next, last)
  <2>1. last \in Int /\ next <= last + 1 /\ last <= Len(payload)
    BY <1>4, <1>5, <1>13
  <2>2. QED
    BY <1>1, <1>4, <1>11, <1>13, <2>1, Appended
<1>16. IsReplaced(text, a)
  <2>1. Len(text) = a + Len(new) + Len(payload) - next + 1
    BY <1>11, <1>13, <1>15 DEF IsWithPart
  <2>2. \A i \in 1 .. a + Len(new) : text[i] = joined[i]
    BY <1>11, <1>15 DEF IsWithPart
  <2>3. \A k \in next .. Len(payload) : text[a + Len(new) + k - next + 1] = payload[k]
    BY <1>11, <1>13, <1>15 DEF IsWithPart
  <2>4. ASSUME NEW i \in 1 .. a
        PROVE  text[i] = Whole[i]
    <3>1. text[i] = head[i]
      <4>1. i \in 1 .. a + Len(new)
        BY <1>3, <1>6
      <4>2. QED
        BY <1>12, <2>2, <4>1
    <3>2. CASE i <= Len(out)
      BY <1>5, <1>6, <1>10, <3>1, <3>2
    <3>3. CASE i > Len(out)
      <4> DEFINE k == i - Len(out) + pos - 1
      <4>1. /\ k \in pos .. before /\ k \in pos .. Len(payload)
            /\ Len(out) + k - pos + 1 = i
        BY <1>1, <1>5, <1>6, <3>3
      <4> HIDE DEF k
      <4>2. head[i] = payload[k] /\ Whole[i] = payload[k]
        BY <1>5, <1>10, <4>1
      <4>3. QED
        BY <3>1, <4>2
    <3>4. QED
      BY <1>5, <1>6, <3>2, <3>3
  <2>5. ASSUME NEW i \in 1 .. Len(new)
        PROVE  text[a + i] = new[i]
    <3>1. a + i \in 1 .. a + Len(new)
      BY <1>3, <1>6
    <3>2. QED
      BY <1>12, <2>2, <3>1
  <2>6. QED
    BY <1>0, <2>1, <2>3, <2>4, <2>5 DEF IsReplaced
<1>17. ASSUME NEW n \in 1 .. Len(joined), MatchesAt(text, n)
       PROVE  FALSE
  <2>1. n \in Nat \ {0} /\ n <= a + Len(new)
    BY <1>3, <1>6, <1>11
  <2>2. QED
    BY <1>0, <1>1, <1>16, <1>17, <2>1, ReplacedHasNoMatch
<1>18. \A n : MatchesAt(Whole, n)' <=> MatchesAt(text, n)
  BY <1>8, <1>14 DEF MatchesAt, OccursAt, IsMatch, IsCommaMatch, IsDottedMatch
<1>19. TextTypeOK'
  BY <1>1, <1>4, <1>8 DEF TextTypeOK
<1>20. EndsWithAddress'
  <2>1. joined[Len(joined)] \in Digits /\ Len(joined) > 0
    <3>1. Len(new) \in 1 .. Len(new)
      BY <1>3
    <3>2. joined[a + Len(new)] = new[Len(new)]
      BY <1>12, <3>1
    <3>3. QED
      BY <1>3, <1>6, <1>11, <3>2
  <2>2. /\ pos' <= Len(payload') + 1 /\ pos' > 1 /\ pos' # 1
        /\ payload'[pos' - 1] \in Digits
    BY <1>4, <1>8
  <2>3. out'[Len(out')] \in Digits /\ Len(out') > 0
    BY <1>8, <2>1
  <2>4. QED
    BY <2>2, <2>3, Zenon DEF EndsWithAddress
<1>21. QED
  BY <1>1, <1>8, <1>11, <1>17, <1>18, <1>19, <1>20 DEF NothingRemainsInv

-----------------------------------------------------------------------------
LEMMA NothingRemainsInit ==
  ASSUME TextInit
  PROVE  NothingRemainsInv
<1>1. TextTypeOK
  BY TextInitInv DEF TextInv
<1>2. pos = 1 /\ out = << >> /\ ~done
  BY DEF TextInit
<1>3. Len(payload) \in Nat
  BY <1>1, LenProperties DEF TextTypeOK
<1>4. EndsWithAddress
  BY <1>2, <1>3 DEF EndsWithAddress
<1>5. out \in Seq(Characters(separator)) /\ Len(out) = 0
  BY <1>2
<1>6. QED
  BY <1>1, <1>2, <1>4, <1>5 DEF NothingRemainsInv

LEMMA NothingRemainsStep ==
  ASSUME NothingRemainsInv, [TextNext]_text_vars, AddressesDiffer
  PROVE  NothingRemainsInv'
<1>1. CASE Replace
  BY <1>1, ReplaceLeavesNothing
<1>2. CASE Keep
  BY <1>2, KeepLeavesNothing
<1>3. CASE Finish
  BY <1>3, FinishLeavesNothing
<1>4. CASE UNCHANGED text_vars
  <2>1. UNCHANGED <<payload, separator, pos, out, changed, done>>
    BY <1>4 DEF text_vars
  <2>2. old' = old
    BY <2>1 DEF old
  <2>3. TextTypeOK' /\ (EndsWithAddress <=> EndsWithAddress')
    BY <2>1 DEF NothingRemainsInv, TextTypeOK, EndsWithAddress
  <2>4. Whole' = Whole
    BY <2>1 DEF Whole
  <2>5. \A n : MatchesAt(Whole, n)' <=> MatchesAt(Whole, n)
    BY <2>1, <2>2, <2>4 DEF MatchesAt, OccursAt, IsMatch, IsCommaMatch, IsDottedMatch
  <2>6. ContainsMatch(out)' <=> ContainsMatch(out)
    BY <2>1, <2>2 DEF ContainsMatch, Occurrences, IsMatch, IsCommaMatch, IsDottedMatch
  <2>7. QED
    BY <2>1, <2>3, <2>5, <2>6 DEF NothingRemainsInv
<1>5. QED
  BY <1>1, <1>2, <1>3, <1>4 DEF TextNext

(***************************************************************************)
(* What contains_ip_text_boundary finds, replace_ip_text_boundary changes, *)
(* and afterwards it finds nothing, for every text and every two different *)
(* addresses: a check for addresses that remain cannot fail because of the *)
(* text around a replaced one.                                             *)
(***************************************************************************)
THEOREM FindingAgrees ==
  ASSUME AddressesDiffer
  PROVE  TextSpec => []FindingAgreesWithReplacing
<1>1. ASSUME NothingRemainsInv
      PROVE  done => ~ContainsMatch(out)
  BY <1>1 DEF NothingRemainsInv
<1>2. ASSUME NothingRemainsInv, [TextNext]_text_vars
      PROVE  NothingRemainsInv'
  BY <1>2, NothingRemainsStep
<1>3. TextSpec => [](done => ~ContainsMatch(out))
  BY <1>1, <1>2, NothingRemainsInit, PTL DEF TextSpec
<1>4. (done => changed = ContainsMatch(payload)) /\ (done => ~ContainsMatch(out))
        => FindingAgreesWithReplacing
  BY DEF FindingAgreesWithReplacing
<1>5. QED
  BY <1>3, <1>4, FoundIsChanged, PTL
-----------------------------------------------------------------------------
(***************************************************************************)
(* What becomes of each place of the payload, and what becomes of a part   *)
(* that has no match, or of one inside of a match.                         *)
(***************************************************************************)
IsInside(n) == \E m \in Matches : m < n /\ n < m + Len(old)

Parts ==
  [n \in DOMAIN payload |-> IF n \in Matches THEN new
                            ELSE IF IsInside(n) THEN << >> ELSE <<payload[n]>>]

Written(n) == Flattened(Parts, n)

LEMMA PartsType ==
  ASSUME TextTypeOK
  PROVE  /\ Parts \in Seq(Seq(Characters(separator))) /\ Len(Parts) = Len(payload)
         /\ Len(payload) \in Nat /\ DOMAIN payload = 1 .. Len(payload)
<1>1. payload \in Seq(Characters(separator)) /\ separator \in Separators
  BY DEF TextTypeOK
<1>2. Len(payload) \in Nat /\ DOMAIN payload = 1 .. Len(payload)
  BY <1>1, LenProperties
<1>3. new \in Seq(Characters(separator))
  <2>1. new \in Seq(Digits \cup {separator})
    BY <1>1, AddressAssumption DEF IsAddress, new
  <2>2. Digits \cup {separator} \subseteq Characters(separator)
    BY DEF Characters
  <2> QED BY <2>1, <2>2, SeqMonotonic
<1>4. ASSUME NEW n \in 1 .. Len(payload)
      PROVE  Parts[n] \in Seq(Characters(separator))
  <2>1. payload[n] \in Characters(separator)
    BY <1>1, <1>2, <1>4, ElementOfSeq
  <2>2. <<payload[n]>> \in Seq(Characters(separator)) /\ << >> \in Seq(Characters(separator))
    BY <2>1
  <2>3. Parts[n] \in {new, << >>, <<payload[n]>>}
    BY <1>2 DEF Parts
  <2> QED BY <1>3, <2>2, <2>3
<1>5. Parts = [n \in 1 .. Len(payload) |-> Parts[n]]
  BY <1>2 DEF Parts
<1>6. Parts \in [1 .. Len(payload) -> Seq(Characters(separator))]
  BY <1>4, <1>5
<1>7. Parts \in Seq(Seq(Characters(separator))) /\ Len(Parts) = Len(payload)
  BY <1>2, <1>5, <1>6, SeqDef, LenProperties
<1> QED BY <1>2, <1>7

LEMMA WrittenStep ==
  ASSUME TextTypeOK, NEW n \in 1 .. Len(payload)
  PROVE  /\ Written(n) \in Seq(Characters(separator))
         /\ Written(n - 1) \in Seq(Characters(separator))
         /\ Written(n) = Written(n - 1) \o Parts[n]
<1>1. /\ Parts \in Seq(Seq(Characters(separator))) /\ Len(Parts) = Len(payload)
      /\ Len(payload) \in Nat
  BY PartsType
<1>2. n \in 1 .. Len(Parts) /\ n \in 0 .. Len(Parts) /\ n - 1 \in 0 .. Len(Parts)
  BY <1>1
<1>3. Flattened(Parts, n - 1) \in Seq(Characters(separator))
  BY <1>1, <1>2, FlattenedType
<1>4. Flattened(Parts, n) \in Seq(Characters(separator))
  BY <1>1, <1>2, FlattenedType
<1> QED BY <1>1, <1>2, <1>3, <1>4, FlattenedStep DEF Written

LEMMA WrittenType ==
  ASSUME TextTypeOK, NEW n \in 0 .. Len(payload)
  PROVE  Written(n) \in Seq(Characters(separator))
<1>1. /\ Parts \in Seq(Seq(Characters(separator))) /\ Len(Parts) = Len(payload)
  BY PartsType
<1> QED BY <1>1, FlattenedType DEF Written

\* One more character of a part.
LEMMA LongerPart ==
  ASSUME TextTypeOK, NEW from \in Nat \ {0}, NEW last \in Nat,
         from <= last, last <= Len(payload)
  PROVE  /\ SubSeq(payload, from, last - 1) \in Seq(Characters(separator))
         /\ SubSeq(payload, from, last) = SubSeq(payload, from, last - 1) \o <<payload[last]>>
<1>1. payload \in Seq(Characters(separator)) /\ Len(payload) \in Nat
  BY LenProperties DEF TextTypeOK
<1>2. PICK l \in Nat : l = last - 1
  <2>1. last - 1 \in Nat
    OBVIOUS
  <2> QED BY <2>1
<1>3. /\ from \in 1 .. Len(payload) + 1 /\ l \in from - 1 .. Len(payload)
      /\ last \in l .. Len(payload) /\ l + 1 = last /\ last \in 1 .. Len(payload)
  BY <1>1, <1>2
<1>4. SubSeq(payload, from, l) \o SubSeq(payload, last, last) = SubSeq(payload, from, last)
  BY <1>1, <1>3, ConcatAdjacentSubSeq
<1>5. SubSeq(payload, last, last) = <<payload[last]>>
  <2>1. SubSeq(payload, last, last) = [i \in 1 .. 1 |-> payload[last + i - 1]]
    BY <1>1, <1>3
  <2>2. \A i \in 1 .. 1 : last + i - 1 = last
    OBVIOUS
  <2> QED BY <2>1, <2>2
<1>6. SubSeq(payload, from, l) \in Seq(Characters(separator))
  BY <1>1, <1>3, SubSeqProperties
<1> QED BY <1>2, <1>4, <1>5, <1>6

\* Places that belong to no match stay.
LEMMA CopiedPart ==
  ASSUME TextTypeOK, NEW from \in Nat \ {0}, NEW to \in Nat, from <= to + 1, to <= Len(payload),
         \A n \in from .. to : n \notin Matches /\ ~IsInside(n)
  PROVE  Written(to) = Written(from - 1) \o SubSeq(payload, from, to)
<1> DEFINE T == {m \in from - 1 .. to :
                   Written(m) # Written(from - 1) \o SubSeq(payload, from, m)}
<1> SUFFICES ASSUME T # {} PROVE FALSE
  <2>1. to \in from - 1 .. to
    OBVIOUS
  <2> QED BY <2>1
<1>1. PICK m \in T : \A k \in T : m <= k
  <2>1. T \subseteq Nat
    OBVIOUS
  <2> HIDE DEF T
  <2> QED BY <2>1, LeastElement
<1>2. m \in from - 1 .. to /\ Written(m) # Written(from - 1) \o SubSeq(payload, from, m)
  OBVIOUS
<1>3. Len(payload) \in Nat /\ DOMAIN payload = 1 .. Len(payload) /\ m \in Nat
      /\ payload \in Seq(Characters(separator))
  BY <1>2, PartsType DEF TextTypeOK
<1>4. Written(from - 1) \in Seq(Characters(separator))
  BY <1>3, WrittenType
<1>5. m # from - 1
  <2>1. SubSeq(payload, from, from - 1) = << >>
    BY <1>3
  <2>2. Written(from - 1) = Written(from - 1) \o << >>
    BY <1>4, ConcatEmptySeq
  <2> QED BY <1>2, <2>1, <2>2
<1>6. m \in from .. to /\ m \in 1 .. Len(payload) /\ m - 1 \in from - 1 .. to
  BY <1>2, <1>3, <1>5
<1>7. m - 1 \notin T
  <2> HIDE DEF T
  <2> QED BY <1>1, <1>3
<1>8. Written(m - 1) = Written(from - 1) \o SubSeq(payload, from, m - 1)
  BY <1>6, <1>7
<1> HIDE DEF T
<1>9. Parts[m] = <<payload[m]>>
  BY <1>3, <1>6 DEF Parts
<1>10. Written(m) = (Written(from - 1) \o SubSeq(payload, from, m - 1)) \o <<payload[m]>>
  BY <1>6, <1>8, <1>9, WrittenStep
<1>11. /\ SubSeq(payload, from, m - 1) \in Seq(Characters(separator))
       /\ SubSeq(payload, from, m) = SubSeq(payload, from, m - 1) \o <<payload[m]>>
  BY <1>3, <1>6, LongerPart
<1>12. payload[m] \in Characters(separator)
  BY <1>3, <1>6, ElementOfSeq, LenProperties
<1>13. <<payload[m]>> \in Seq(Characters(separator))
  BY <1>12
<1>14. Written(m) = Written(from - 1) \o (SubSeq(payload, from, m - 1) \o <<payload[m]>>)
  <2>1. PICK a \in Seq(Characters(separator)), b \in Seq(Characters(separator)),
             c \in Seq(Characters(separator)) :
          a = Written(from - 1) /\ b = SubSeq(payload, from, m - 1) /\ c = <<payload[m]>>
    BY <1>4, <1>11, <1>13
  <2>2. (a \o b) \o c = a \o (b \o c)
    BY ConcatAssociative
  <2> QED BY <1>10, <2>1, <2>2
<1> QED BY <1>2, <1>11, <1>14

\* Places inside of a match leave nothing.
LEMMA SkippedPart ==
  ASSUME TextTypeOK, NEW from \in Nat, NEW to \in Nat, from <= to, to <= Len(payload),
         \A n \in from + 1 .. to : n \notin Matches /\ IsInside(n)
  PROVE  Written(to) = Written(from)
<1> DEFINE T == {m \in from .. to : Written(m) # Written(from)}
<1> SUFFICES ASSUME T # {} PROVE FALSE
  <2>1. to \in from .. to
    OBVIOUS
  <2> QED BY <2>1
<1>1. PICK m \in T : \A k \in T : m <= k
  <2>1. T \subseteq Nat
    OBVIOUS
  <2> HIDE DEF T
  <2> QED BY <2>1, LeastElement
<1>2. m \in from .. to /\ Written(m) # Written(from)
  OBVIOUS
<1>3. Len(payload) \in Nat /\ DOMAIN payload = 1 .. Len(payload) /\ m \in Nat /\ m # from
  BY <1>2, PartsType
<1>4. m \in from + 1 .. to /\ m \in 1 .. Len(payload) /\ m - 1 \in from .. to
  BY <1>2, <1>3
<1>5. Written(m - 1) = Written(from)
  BY <1>1, <1>4
<1> HIDE DEF T
<1>6. Parts[m] = << >>
  BY <1>3, <1>4 DEF Parts
<1>7. Written(m) = Written(m - 1) \o << >> /\ Written(m - 1) \in Seq(Characters(separator))
  BY <1>4, <1>6, WrittenStep
<1>8. Written(m) = Written(m - 1)
  BY <1>7, ConcatEmptySeq
<1> QED BY <1>2, <1>5, <1>8

-----------------------------------------------------------------------------
(***************************************************************************)
(* The inductive invariant: what is behind pos has been written as it has  *)
(* to be, and pos is not inside of a match.                                *)
(***************************************************************************)
PlacesInv ==
  /\ TextInv
  /\ \A m \in PassedMatches : m + Len(old) <= pos
  /\ pos <= Len(payload) + 1
  /\ ~done => out = Written(pos - 1)
  /\ done => out = Written(Len(payload))

LEMMA PlacesInit ==
  ASSUME TextInit
  PROVE  PlacesInv
<1>1. TextInv /\ PassedMatches = {}
  <2>1. TextInv
    BY TextInitInv
  <2> QED BY <2>1, Zenon DEF TextInit, TextInv
<1>2. pos = 1 /\ out = << >> /\ ~done
  BY DEF TextInit
<1>3. Len(payload) \in Nat
  BY <1>1, PartsType DEF TextInv
<1>4. Written(pos - 1) = << >>
  BY <1>2 DEF Written, Flattened
<1> QED BY <1>1, <1>2, <1>3, <1>4 DEF PlacesInv

\* Between pos and the next occurrence no match begins or goes on.
LEMMA NoMatchBefore ==
  ASSUME PlacesInv, NEW n \in Nat, pos <= n, n <= Len(payload),
         \A m \in Occurrences(payload, pos) : n < m
  PROVE  n \notin Matches /\ ~IsInside(n)
<1>1. /\ Len(old) \in Nat /\ Len(payload) \in Nat /\ pos \in Nat \ {0}
      /\ \A m \in PassedMatches : m + Len(old) <= pos
  BY OldIsAddress, LenProperties DEF PlacesInv, TextInv, TextTypeOK
<1>2. ASSUME NEW m \in Matches, m <= n
      PROVE  m + Len(old) <= n
  <2>1. m \in Nat /\ m \in Occurrences(payload, 1)
    BY <1>1 DEF Matches, Occurrences
  <2>2. m < pos
    <3>1. m >= pos => m \in Occurrences(payload, pos)
      BY <1>1, <2>1 DEF Occurrences
    <3> QED BY <1>1, <1>2, <2>1, <3>1
  <2>3. m \in PassedMatches
    BY <2>2 DEF PassedMatches
  <2>4. m + Len(old) <= pos
    BY <1>1, <2>3
  <2> QED BY <1>1, <2>1, <2>4
<1>3. Matches \subseteq Nat /\ Len(old) >= 2
  BY <1>1, OldIsAddress DEF Matches, Occurrences, PlacesInv, TextInv, TextTypeOK
<1> QED BY <1>1, <1>2, <1>3 DEF IsInside

\* What is before the next occurrence is copied.
LEMMA CopiedBefore ==
  ASSUME PlacesInv, ~done, NEW to \in Nat, pos <= to + 1, to <= Len(payload),
         \A m \in Occurrences(payload, pos) : to < m
  PROVE  Written(to) = out \o SubSeq(payload, pos, to)
<1>1. /\ TextTypeOK /\ pos \in Nat \ {0} /\ Len(payload) \in Nat /\ Len(old) \in Nat
      /\ out = Written(pos - 1)
  BY PartsType, OldIsAddress DEF PlacesInv, TextInv, TextTypeOK
<1>2. ASSUME NEW n \in pos .. to PROVE n \notin Matches /\ ~IsInside(n)
  <2>1. n \in Nat /\ pos <= n /\ n <= Len(payload)
    BY <1>1
  <2>2. \A m \in Occurrences(payload, pos) : n < m
    BY <1>1 DEF Occurrences
  <2> QED BY <2>1, <2>2, NoMatchBefore
<1> QED BY <1>1, <1>2, CopiedPart

LEMMA PassedKeep ==
  ASSUME PlacesInv, ~done, Occurrences(payload, pos) # {}, UNCHANGED <<payload, separator>>,
         pos' = Behind(NextFound)
  PROVE  /\ \A m \in PassedMatches' : m + Len(old') <= pos'
         /\ pos' <= Len(payload') + 1 /\ pos' = NextFound + Len(old)
         /\ Written(pos - 1)' = Written(NextFound + Len(old) - 1)
<1>1. /\ TextInv /\ TextTypeOK /\ pos \in Nat \ {0} /\ Len(payload) \in Nat
      /\ \A m \in PassedMatches : m + Len(old) <= pos
  BY PartsType DEF PlacesInv, TextInv, TextTypeOK
<1>2. Len(old) \in Nat /\ Len(old) >= 2
  BY <1>1, OldIsAddress DEF TextTypeOK
<1>3. /\ NextFound \in Nat /\ NextFound >= pos /\ NextFound \in Occurrences(payload, 1)
  BY <1>1, FirstIsFound
<1>4. pos' = NextFound + Len(old) /\ old' = old /\ new' = new
  BY DEF Behind, old, new
<1>5. NextFound + Len(old) - 1 <= Len(payload)
  BY <1>1, <1>2, <1>3 DEF Occurrences
<1>6. PassedMatches' \subseteq PassedMatches \cup {NextFound}
  BY <1>1, Passing
<1>7. PassedMatches \subseteq Nat
  BY <1>1, <1>2 DEF PassedMatches, Matches, Occurrences
<1>8. \A m \in PassedMatches' : m + Len(old) <= pos'
  BY <1>1, <1>2, <1>3, <1>4, <1>6, <1>7
<1>9. Matches' = Matches
  BY <1>4 DEF Matches, Occurrences, IsMatch, IsCommaMatch, IsDottedMatch
<1>10. Parts' = Parts
  BY <1>4, <1>9 DEF Parts, IsInside
<1>11. Written(pos - 1)' = Written(NextFound + Len(old) - 1)
  <2>1. pos' - 1 = NextFound + Len(old) - 1
    BY <1>2, <1>3, <1>4
  <2> QED BY <1>10, <2>1, Zenon DEF Written
<1>12. pos' <= Len(payload') + 1
  BY <1>1, <1>2, <1>3, <1>4, <1>5
<1> QED BY <1>4, <1>8, <1>11, <1>12

\* In front of an occurrence there is no other one.
LEMMA BeforeFound ==
  ASSUME PlacesInv, ~done, Occurrences(payload, pos) # {}
  PROVE  /\ NextFound \in Nat /\ NextFound >= pos /\ pos \in Nat \ {0}
         /\ Len(old) \in Nat /\ Len(old) >= 2 /\ Len(payload) \in Nat
         /\ NextFound + Len(old) - 1 <= Len(payload)
         /\ NextFound \in Occurrences(payload, 1)
         /\ Written(NextFound - 1) = out \o SubSeq(payload, pos, NextFound - 1)
<1>1. TextTypeOK /\ pos \in Nat \ {0} /\ Len(payload) \in Nat
  BY PartsType DEF PlacesInv, TextInv, TextTypeOK
<1>2. Len(old) \in Nat /\ Len(old) >= 2
  BY <1>1, OldIsAddress DEF TextTypeOK
<1>3. /\ NextFound \in Nat /\ NextFound >= pos /\ NextFound \in Occurrences(payload, 1)
      /\ \A m \in Occurrences(payload, pos) : NextFound <= m
  BY <1>1, FirstIsFound
<1>4. NextFound + Len(old) - 1 <= Len(payload)
  BY <1>1, <1>2, <1>3 DEF Occurrences
<1>5. /\ NextFound - 1 \in Nat /\ pos <= (NextFound - 1) + 1 /\ NextFound - 1 <= Len(payload)
  BY <1>1, <1>2, <1>3, <1>4
<1>6. \A m \in Occurrences(payload, pos) : NextFound - 1 < m
  <2>1. \A m \in Occurrences(payload, pos) : m \in Nat
    BY <1>1, <1>2 DEF Occurrences
  <2> QED BY <1>3, <2>1
<1>7. Written(NextFound - 1) = out \o SubSeq(payload, pos, NextFound - 1)
  BY <1>5, <1>6, CopiedBefore
<1> QED BY <1>1, <1>2, <1>3, <1>4, <1>7

LEMMA PlacesReplace ==
  ASSUME PlacesInv, Replace
  PROVE  PlacesInv'
<1>1. /\ ~done /\ Occurrences(payload, pos) # {} /\ IsMatch(payload, NextFound)
      /\ out' = out \o SubSeq(payload, pos, NextFound - 1) \o new
      /\ pos' = Behind(NextFound) /\ UNCHANGED <<payload, separator, done>>
  BY DEF Replace
<1>2. TextInv' /\ TextTypeOK
  BY TextNextInv DEF PlacesInv, TextNext, TextInv
<1>3. /\ \A m \in PassedMatches' : m + Len(old') <= pos'
      /\ pos' <= Len(payload') + 1 /\ pos' = NextFound + Len(old)
      /\ Written(pos - 1)' = Written(NextFound + Len(old) - 1)
  BY <1>1, PassedKeep
<1>4. /\ NextFound \in Nat /\ NextFound >= pos /\ pos \in Nat \ {0}
      /\ Len(old) \in Nat /\ Len(old) >= 2 /\ Len(payload) \in Nat
      /\ NextFound + Len(old) - 1 <= Len(payload)
      /\ NextFound \in Occurrences(payload, 1)
      /\ Written(NextFound - 1) = out \o SubSeq(payload, pos, NextFound - 1)
  BY <1>1, BeforeFound
<1>5. NextFound \in Matches
  BY <1>1, <1>4 DEF Matches
<1>6. NextFound \in 1 .. Len(payload)
  BY <1>4
<1>7. Parts[NextFound] = new
  <2>1. NextFound \in DOMAIN payload
    BY <1>2, <1>6, PartsType
  <2> QED BY <1>5, <2>1 DEF Parts
<1>8. Written(NextFound) = out'
  BY <1>1, <1>2, <1>4, <1>6, <1>7, WrittenStep
<1>9. ASSUME NEW n \in NextFound + 1 .. NextFound + Len(old) - 1
      PROVE  n \notin Matches /\ IsInside(n)
  <2>1. n \notin Matches
    <3>1. n \in Matches => NextFound + Len(old) <= n
      BY <1>2, <1>4, NoMatchInside
    <3> QED BY <1>4, <3>1
  <2>2. NextFound < n /\ n < NextFound + Len(old)
    BY <1>4
  <2> QED BY <1>5, <2>1, <2>2 DEF IsInside
<1>10. Written(NextFound + Len(old) - 1) = Written(NextFound)
  <2>1. PICK to \in Nat : to = NextFound + Len(old) - 1
    <3>1. NextFound + Len(old) - 1 \in Nat
      BY <1>4
    <3> QED BY <3>1
  <2>2. NextFound <= to /\ to <= Len(payload)
    BY <1>4, <2>1
  <2> QED BY <1>2, <1>4, <1>9, <2>1, <2>2, SkippedPart
<1>11. out' = Written(pos - 1)'
  BY <1>3, <1>8, <1>10
<1> QED BY <1>1, <1>2, <1>3, <1>11 DEF PlacesInv

LEMMA PlacesKeep ==
  ASSUME PlacesInv, Keep
  PROVE  PlacesInv'
<1>1. /\ ~done /\ Occurrences(payload, pos) # {} /\ ~IsMatch(payload, NextFound)
      /\ out' = out \o SubSeq(payload, pos, Behind(NextFound) - 1)
      /\ pos' = Behind(NextFound) /\ UNCHANGED <<payload, separator, done>>
  BY DEF Keep
<1>2. TextInv' /\ TextTypeOK
  BY TextNextInv DEF PlacesInv, TextNext, TextInv
<1>3. /\ \A m \in PassedMatches' : m + Len(old') <= pos'
      /\ pos' <= Len(payload') + 1 /\ pos' = NextFound + Len(old)
      /\ Written(pos - 1)' = Written(NextFound + Len(old) - 1)
  BY <1>1, PassedKeep
<1>4. /\ NextFound \in Nat /\ NextFound >= pos /\ pos \in Nat \ {0}
      /\ Len(old) \in Nat /\ Len(old) >= 2 /\ Len(payload) \in Nat
      /\ NextFound + Len(old) - 1 <= Len(payload)
      /\ NextFound \in Occurrences(payload, 1)
  BY <1>1, BeforeFound
<1>5. /\ \A m \in PassedMatches : m + Len(old) <= pos
      /\ out = Written(pos - 1)
  BY <1>1 DEF PlacesInv
<1>6. ASSUME NEW m \in Matches PROVE m + Len(old) <= pos \/ NextFound + Len(old) <= m
  <2>1. m \in Nat /\ m \in Occurrences(payload, 1)
    BY <1>4 DEF Matches, Occurrences
  <2>2. CASE m < pos
    BY <1>5, <2>2 DEF PassedMatches
  <2>3. CASE m >= pos
    <3>1. m \in Occurrences(payload, pos)
      BY <1>4, <2>1, <2>3 DEF Occurrences
    <3>2. NextFound <= m
      BY <1>1, <1>2, <3>1, FirstIsFound
    <3>3. m # NextFound
      BY <1>1 DEF Matches
    <3>4. NextFound < m
      BY <1>4, <2>1, <3>2, <3>3
    <3> QED BY <1>2, <1>4, <3>4, NoMatchInside
  <2> QED BY <1>4, <2>1, <2>2, <2>3
<1>7. ASSUME NEW n \in pos .. NextFound + Len(old) - 1
      PROVE  n \notin Matches /\ ~IsInside(n)
  <2>1. Matches \subseteq Nat
    BY <1>4 DEF Matches, Occurrences
  <2> QED BY <1>4, <1>6, <2>1 DEF IsInside
<1>8. PICK to \in Nat : to = NextFound + Len(old) - 1
  <2>1. NextFound + Len(old) - 1 \in Nat
    BY <1>4
  <2> QED BY <2>1
<1>9. pos <= to + 1 /\ to <= Len(payload) /\ pos' - 1 = to
  BY <1>3, <1>4, <1>8
<1>10. Written(to) = Written(pos - 1) \o SubSeq(payload, pos, to)
  BY <1>2, <1>4, <1>7, <1>8, <1>9, CopiedPart
<1>11. out' = Written(pos - 1)'
  BY <1>1, <1>3, <1>5, <1>8, <1>9, <1>10
<1> QED BY <1>1, <1>2, <1>3, <1>11 DEF PlacesInv

LEMMA PlacesFinish ==
  ASSUME PlacesInv, Finish \/ UNCHANGED text_vars
  PROVE  PlacesInv'
<1>1. UNCHANGED <<payload, separator, pos>>
  BY DEF Finish, text_vars
<1>2. TextInv' /\ TextTypeOK
  BY TextNextInv DEF PlacesInv, TextNext, TextInv
<1>3. old' = old /\ new' = new
  BY <1>1 DEF old, new
<1>4. Matches' = Matches
  BY <1>1, <1>3 DEF Matches, Occurrences, IsMatch, IsCommaMatch, IsDottedMatch
<1>5. Parts' = Parts /\ PassedMatches' = PassedMatches
  BY <1>1, <1>3, <1>4 DEF Parts, IsInside, PassedMatches
<1>6. Written(pos - 1)' = Written(pos - 1) /\ Written(Len(payload))' = Written(Len(payload))
  BY <1>1, <1>5 DEF Written
<1>7. CASE Finish
  <2>1. /\ ~done /\ done' /\ Occurrences(payload, pos) = {}
        /\ out' = out \o SubSeq(payload, pos, Len(payload))
    BY <1>7 DEF Finish
  <2>2. Len(payload) \in Nat /\ pos \in Nat \ {0} /\ pos <= Len(payload) + 1
    BY <1>2, PartsType DEF PlacesInv, TextTypeOK
  <2>3. Written(Len(payload)) = out \o SubSeq(payload, pos, Len(payload))
    <3>1. PICK to \in Nat : to = Len(payload)
      BY <2>2
    <3>2. pos <= to + 1 /\ to <= Len(payload) /\ \A m \in Occurrences(payload, pos) : to < m
      BY <2>1, <2>2, <3>1
    <3>3. Written(to) = out \o SubSeq(payload, pos, to)
      BY <2>1, <3>2, CopiedBefore
    <3> QED BY <3>1, <3>3
  <2>4. out' = Written(Len(payload))'
    BY <1>1, <1>6, <2>1, <2>3
  <2> QED BY <1>1, <1>2, <1>3, <1>5, <2>1, <2>4 DEF PlacesInv
<1>8. CASE UNCHANGED text_vars
  <2>1. out' = out /\ done' = done
    BY <1>8 DEF text_vars
  <2> QED BY <1>1, <1>2, <1>3, <1>5, <1>6, <2>1 DEF PlacesInv
<1> QED BY <1>7, <1>8

(***************************************************************************)
(* replace_ip_text_boundary replaces the occurrences that the rule of      *)
(* is_ip_text_match accepts, and copies everything else, although its loop *)
(* goes on behind an occurrence that is no match: for any two addresses    *)
(* and texts of any length over any alphabet.                              *)
(***************************************************************************)
THEOREM MatchesAreReplaced == TextSpec => []ReplacesTheMatches
<1>1. TextInit => PlacesInv
  BY PlacesInit
<1>2. PlacesInv /\ [TextNext]_text_vars => PlacesInv'
  BY PlacesReplace, PlacesKeep, PlacesFinish DEF TextNext
<1>3. PlacesInv => ReplacesTheMatches
  <2> SUFFICES ASSUME PlacesInv, done PROVE out = FlattenSeq(Parts)
    BY DEF ReplacesTheMatches, Parts, IsInside
  <2>1. /\ TextTypeOK /\ out = Written(Len(payload))
    BY DEF PlacesInv, TextInv
  <2>2. Parts \in Seq(Seq(Characters(separator))) /\ Len(Parts) = Len(payload)
    BY <2>1, PartsType
  <2> QED BY <2>1, <2>2, FlattenedAll DEF Written
<1> QED BY <1>1, <1>2, <1>3, PTL DEF TextSpec
=============================================================================
