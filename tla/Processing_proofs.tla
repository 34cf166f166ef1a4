-------------------------- MODULE Processing_proofs --------------------------
(***************************************************************************)
(* Proofs about what happens to one file and to all of them.               *)
(*                                                                         *)
(* Pipeline, for any numbers of datagrams, flows and segments: its         *)
(* invariant, and that it implements the safety part of FlowRewriting.     *)
(*                                                                         *)
(* Batch, for any captures, any number of invocations, and a clock that    *)
(* may run as long as it likes.                                            *)
(***************************************************************************)
EXTENDS Pipeline, Batch, FiniteSetTheorems, SequenceTheorems, TLAPS

LEMMA Ranges ==
  /\ Flow \subseteq Unit /\ Unit \subseteq Nat
  /\ \A u : u \in Unit <=> u \in Nat /\ 1 <= u /\ u <= Datagrams + Flows
  /\ \A u : u \in Flow <=> u \in Nat /\ Datagrams < u /\ u <= Datagrams + Flows
  /\ \A s : s \in Segment <=> s \in Nat /\ 1 <= s /\ s <= Segments
  /\ 1 \in Segment
BY SizeAssumption DEF Unit, Flow, Segment

LEMMA InitStructure ==
  ASSUME Init
  PROVE  StructureInv
<1>1. TypeOK
  BY SizeAssumption DEF Init, TypeOK, Decisions
<1>2. DecidedInOrder
  BY Ranges, SizeAssumption DEF Init, DecidedInOrder
<1>3. RoutedOnce
  BY Ranges DEF Init, RoutedOnce, Rewritten
<1>4. SegmentsAreWritten
  BY DEF Init, SegmentsAreWritten, WrittenSoFar
<1>5. QED
  BY <1>1, <1>2, <1>3, <1>4 DEF StructureInv

\* The pass over the flows is at a flow that is still open.
LEMMA StreamsAreFlows ==
  ASSUME TypeOK, DecidedInOrder, AtStream
  PROVE  unit \in Flow /\ decision[unit] = "open"
BY Ranges, SizeAssumption DEF TypeOK, DecidedInOrder, AtStream

LEMMA TypeIsKept ==
  ASSUME StructureInv, Next
  PROVE  TypeOK'
<1> USE Ranges, SizeAssumption DEF StructureInv
<1>1. CASE KeepDatagram
  BY <1>1 DEF TypeOK, KeepDatagram, AtDatagram, Decide, Decisions
<1>2. CASE RefuseDatagram
  BY <1>2 DEF TypeOK, RefuseDatagram, AtDatagram, Decide, Decisions
<1>3. CASE RewriteDatagram
  BY <1>3 DEF TypeOK, RewriteDatagram, AtDatagram, Decide, Decisions
<1>4. CASE EndOfDatagrams
  BY <1>4 DEF TypeOK, EndOfDatagrams
<1>5. CASE KeepStream
  BY <1>5 DEF TypeOK, KeepStream, AtStream, Decide, Decisions
<1>6. CASE RefuseStream
  BY <1>6 DEF TypeOK, RefuseStream, AtStream, Decide, Decisions
<1>7. CASE FailStream
  BY <1>7 DEF TypeOK, FailStream, AtStream, Decide, Decisions
<1>8. CASE RewriteStream
  <2>1. unit \in Flow
    BY <1>8, StreamsAreFlows DEF RewriteStream
  <2>2. PICK wide \in SUBSET Segment : outgrown' = [outgrown EXCEPT ![unit] = wide]
    BY <1>8 DEF RewriteStream
  <2>3. outgrown' \in [Flow -> SUBSET Segment]
    BY <2>1, <2>2 DEF TypeOK
  <2>4. merged_flows' \in SUBSET Flow /\ preserve_flows' \in SUBSET Flow
    <3>1. \/ preserve_flows' = preserve_flows \cup {unit} /\ UNCHANGED merged_flows
          \/ merged_flows' = merged_flows \cup {unit} /\ UNCHANGED preserve_flows
      BY <1>8 DEF RewriteStream
    <3>2. QED
      BY <2>1, <3>1 DEF TypeOK
  <2>5. decision' \in [Unit -> Decisions]
    BY <1>8 DEF TypeOK, RewriteStream, Decide, Decisions
  <2>6. unit' \in 1 .. Datagrams + Flows + 1
    BY <1>8, <2>1 DEF TypeOK, RewriteStream
  <2>7. QED
    BY <1>8, <2>3, <2>4, <2>5, <2>6 DEF TypeOK, RewriteStream
<1>9. CASE EndOfStreams
  BY <1>9 DEF TypeOK, EndOfStreams
<1>10. CASE PreserveSegment
  BY <1>10 DEF TypeOK, PreserveSegment, InPreserve
<1>11. CASE Degrade
  BY <1>11 DEF TypeOK, Degrade, InPreserve
<1>12. CASE EndOfSegments
  BY <1>12 DEF TypeOK, EndOfSegments, InPreserve
<1>13. CASE SkipInPreserve
  BY <1>13 DEF TypeOK, SkipInPreserve
<1>14. CASE EndOfPreserve
  BY <1>14 DEF TypeOK, EndOfPreserve
<1>15. CASE MergeFlow
  BY <1>15 DEF TypeOK, MergeFlow
<1>16. CASE SkipInMerge
  BY <1>16 DEF TypeOK, SkipInMerge
<1>17. CASE EndOfMerge
  BY <1>17 DEF TypeOK, EndOfMerge
<1>18. CASE AdjustNumbers
  BY <1>18 DEF TypeOK, AdjustNumbers
<1>19. CASE WriteFile
  BY <1>19 DEF TypeOK, WriteFile
<1>20. CASE LoseFile
  BY <1>20 DEF TypeOK, LoseFile
<1>21. QED
  BY <1>1, <1>2, <1>3, <1>4, <1>5, <1>6, <1>7, <1>8, <1>9, <1>10, <1>11, <1>12,
     <1>13, <1>14, <1>15, <1>16, <1>17, <1>18, <1>19, <1>20 DEF Next

\* The units are decided on in their order.
LEMMA OrderIsKept ==
  ASSUME StructureInv, Next
  PROVE  DecidedInOrder'
<1> USE Ranges, SizeAssumption DEF StructureInv, TypeOK, DecidedInOrder
<1>1. CASE KeepDatagram
  BY <1>1 DEF KeepDatagram, AtDatagram, Decide
<1>2. CASE RefuseDatagram
  BY <1>2 DEF RefuseDatagram, AtDatagram, Decide
<1>3. CASE RewriteDatagram
  BY <1>3 DEF RewriteDatagram, AtDatagram, Decide
<1>4. CASE EndOfDatagrams
  BY <1>4 DEF EndOfDatagrams
<1>5. CASE KeepStream
  BY <1>5 DEF KeepStream, AtStream, Decide
<1>6. CASE RefuseStream
  BY <1>6 DEF RefuseStream, AtStream, Decide
<1>7. CASE FailStream
  BY <1>7 DEF FailStream, AtStream, Decide
<1>8. CASE RewriteStream
  BY <1>8 DEF RewriteStream, AtStream, Decide
<1>9. CASE EndOfStreams
  BY <1>9 DEF EndOfStreams
<1>10. CASE PreserveSegment
  BY <1>10 DEF PreserveSegment, InPreserve
<1>11. CASE Degrade
  BY <1>11 DEF Degrade, InPreserve
<1>12. CASE EndOfSegments
  BY <1>12 DEF EndOfSegments, InPreserve
<1>13. CASE SkipInPreserve
  BY <1>13 DEF SkipInPreserve
<1>14. CASE EndOfPreserve
  BY <1>14 DEF EndOfPreserve
<1>15. CASE MergeFlow
  BY <1>15 DEF MergeFlow
<1>16. CASE SkipInMerge
  BY <1>16 DEF SkipInMerge
<1>17. CASE EndOfMerge
  BY <1>17 DEF EndOfMerge
<1>18. CASE AdjustNumbers
  BY <1>18 DEF AdjustNumbers
<1>19. CASE WriteFile
  BY <1>19 DEF WriteFile
<1>20. CASE LoseFile
  BY <1>20 DEF LoseFile, AtDatagram, AtStream
<1>21. QED
  BY <1>1, <1>2, <1>3, <1>4, <1>5, <1>6, <1>7, <1>8, <1>9, <1>10, <1>11, <1>12,
     <1>13, <1>14, <1>15, <1>16, <1>17, <1>18, <1>19, <1>20 DEF Next

\* A flow that is rewritten is written back in one way.
LEMMA RoutingIsKept ==
  ASSUME StructureInv, Next
  PROVE  RoutedOnce'
<1> USE Ranges, SizeAssumption DEF StructureInv, TypeOK, RoutedOnce, Rewritten
<1>1. CASE KeepDatagram
  BY <1>1 DEF KeepDatagram, AtDatagram, Decide
<1>2. CASE RefuseDatagram
  BY <1>2 DEF RefuseDatagram, AtDatagram, Decide
<1>3. CASE RewriteDatagram
  BY <1>3 DEF RewriteDatagram, AtDatagram, Decide
<1>4. CASE EndOfDatagrams
  BY <1>4 DEF EndOfDatagrams
<1>5. CASE KeepStream
  <2>1. unit \in Flow /\ decision[unit] = "open"
    BY <1>5, StreamsAreFlows DEF KeepStream
  <2>2. QED
    BY <1>5, <2>1 DEF KeepStream, Decide
<1>6. CASE RefuseStream
  <2>1. unit \in Flow /\ decision[unit] = "open"
    BY <1>6, StreamsAreFlows DEF RefuseStream
  <2>2. QED
    BY <1>6, <2>1 DEF RefuseStream, Decide
<1>7. CASE FailStream
  <2>1. unit \in Flow /\ decision[unit] = "open"
    BY <1>7, StreamsAreFlows DEF FailStream
  <2>2. QED
    BY <1>7, <2>1 DEF FailStream, Decide
<1>8. CASE RewriteStream
  <2>1. unit \in Flow /\ decision[unit] = "open"
    BY <1>8, StreamsAreFlows DEF RewriteStream
  <2>2. QED
    BY <1>8, <2>1 DEF RewriteStream, Decide
<1>9. CASE EndOfStreams
  BY <1>9 DEF EndOfStreams
<1>10. CASE PreserveSegment
  BY <1>10 DEF PreserveSegment, InPreserve
<1>11. CASE Degrade
  BY <1>11 DEF Degrade, InPreserve
<1>12. CASE EndOfSegments
  BY <1>12 DEF EndOfSegments, InPreserve
<1>13. CASE SkipInPreserve
  BY <1>13 DEF SkipInPreserve
<1>14. CASE EndOfPreserve
  BY <1>14 DEF EndOfPreserve
<1>15. CASE MergeFlow
  BY <1>15 DEF MergeFlow
<1>16. CASE SkipInMerge
  BY <1>16 DEF SkipInMerge
<1>17. CASE EndOfMerge
  BY <1>17 DEF EndOfMerge
<1>18. CASE AdjustNumbers
  BY <1>18 DEF AdjustNumbers
<1>19. CASE WriteFile
  BY <1>19 DEF WriteFile
<1>20. CASE LoseFile
  BY <1>20 DEF LoseFile, AtDatagram, AtStream
<1>21. QED
  BY <1>1, <1>2, <1>3, <1>4, <1>5, <1>6, <1>7, <1>8, <1>9, <1>10, <1>11, <1>12,
     <1>13, <1>14, <1>15, <1>16, <1>17, <1>18, <1>19, <1>20 DEF Next

\* What is written goes along with the loops of steps 3 and 4.
LEMMA SegmentsAreKept ==
  ASSUME StructureInv, Next
  PROVE  SegmentsAreWritten'
<1> USE Ranges, SizeAssumption
    DEF StructureInv, TypeOK, DecidedInOrder, RoutedOnce, SegmentsAreWritten, WrittenSoFar
<1>1. CASE KeepDatagram
  BY <1>1 DEF KeepDatagram, AtDatagram, Decide
<1>2. CASE RefuseDatagram
  BY <1>2 DEF RefuseDatagram, AtDatagram, Decide
<1>3. CASE RewriteDatagram
  BY <1>3 DEF RewriteDatagram, AtDatagram, Decide
<1>4. CASE EndOfDatagrams
  BY <1>4 DEF EndOfDatagrams
<1>5. CASE KeepStream
  BY <1>5 DEF KeepStream, AtStream
<1>6. CASE RefuseStream
  BY <1>6 DEF RefuseStream, AtStream
<1>7. CASE FailStream
  BY <1>7 DEF FailStream, AtStream
<1>8. CASE RewriteStream
  BY <1>8 DEF RewriteStream, AtStream
<1>9. CASE EndOfStreams
  BY <1>9 DEF EndOfStreams
<1>10. CASE PreserveSegment
  <2>1. /\ unit \in Flow /\ segment \in Segment
        /\ phase = "preserve" /\ phase' = "preserve"
        /\ unit' = unit /\ segment' = segment + 1
        /\ merged_flows' = merged_flows /\ preserve_flows' = preserve_flows
        /\ unit \in preserve_flows /\ unit \notin merged_flows
    BY <1>10 DEF PreserveSegment, InPreserve
  <2>2. written[unit] = 1 .. segment - 1
    BY <2>1
  <2>3. written'[unit] = 1 .. segment' - 1
    <3>1. written'[unit] = written[unit] \cup {segment}
      BY <1>10, <2>1 DEF PreserveSegment
    <3>2. (1 .. segment - 1) \cup {segment} = 1 .. segment' - 1
      BY <2>1, SMTT(30)
    <3>3. QED
      BY <2>2, <3>1, <3>2
  <2>4. ASSUME NEW f \in Flow, f # unit
        PROVE  written'[f] = written[f] /\ WrittenSoFar(f)' = WrittenSoFar(f)
    BY <1>10, <2>1, <2>4 DEF PreserveSegment
  <2>5. ASSUME NEW f \in Flow, f = unit
        PROVE  WrittenSoFar(f)' = 1 .. segment' - 1
    BY <2>1, <2>5
  <2>6. ASSUME NEW f \in Flow
        PROVE  \/ written'[f] = WrittenSoFar(f)'
               \/ f \in merged_flows' /\ phase' = "preserve" /\ f < unit'
    <3>1. CASE f = unit
      <4> HIDE DEF WrittenSoFar
      <4>1. QED
        BY <2>1, <2>3, <2>5, <3>1
    <3>2. CASE f # unit
      <4> HIDE DEF WrittenSoFar
      <4>1. QED
        BY <2>1, <2>4, <3>2
    <3>3. QED
      BY <3>1, <3>2
  <2>7. QED
    <3> HIDE DEF WrittenSoFar
    <3>1. QED
      BY <2>1, <2>6
<1>11. CASE Degrade
  <2>1. /\ unit \in Flow
        /\ phase = "preserve" /\ phase' = "preserve"
        /\ unit' = unit + 1 /\ segment' = 1 /\ written' = written
        /\ merged_flows' = merged_flows \cup {unit}
        /\ preserve_flows' = preserve_flows \ {unit}
    BY <1>11 DEF Degrade, InPreserve
  <2>2. ASSUME NEW f \in Flow, f # unit
        PROVE  WrittenSoFar(f)' = WrittenSoFar(f)
    BY <2>1, <2>2
  <2>3. ASSUME NEW f \in Flow
        PROVE  \/ written'[f] = WrittenSoFar(f)'
               \/ f \in merged_flows' /\ phase' = "preserve" /\ f < unit'
    <3> HIDE DEF WrittenSoFar
    <3>1. QED
      BY <2>1, <2>2
  <2>4. QED
    <3> HIDE DEF WrittenSoFar
    <3>1. QED
      BY <2>1, <2>3
<1>12. CASE EndOfSegments
  <2>1. /\ unit \in Flow /\ segment = Segments + 1
        /\ phase = "preserve" /\ phase' = "preserve"
        /\ unit' = unit + 1 /\ segment' = 1 /\ written' = written
        /\ merged_flows' = merged_flows /\ preserve_flows' = preserve_flows
        /\ unit \in preserve_flows /\ unit \notin merged_flows
    BY <1>12 DEF EndOfSegments, InPreserve
  <2>2. ASSUME NEW f \in Flow, f = unit
        PROVE  written[f] = Segment /\ WrittenSoFar(f)' = Segment
    BY <2>1, <2>2 DEF Segment
  <2>3. ASSUME NEW f \in Flow, f # unit
        PROVE  WrittenSoFar(f)' = WrittenSoFar(f)
    BY <2>1, <2>3
  <2>4. ASSUME NEW f \in Flow
        PROVE  \/ written'[f] = WrittenSoFar(f)'
               \/ f \in merged_flows' /\ phase' = "preserve" /\ f < unit'
    <3> HIDE DEF WrittenSoFar
    <3>1. QED
      BY <2>1, <2>2, <2>3
  <2>5. QED
    <3> HIDE DEF WrittenSoFar
    <3>1. QED
      BY <2>1, <2>4
<1>13. CASE SkipInPreserve
  BY <1>13 DEF SkipInPreserve
<1>14. CASE EndOfPreserve
  <2>1. /\ phase = "preserve" /\ phase' = "merge"
        /\ unit' = Datagrams + 1 /\ segment' = 1 /\ written' = written
        /\ merged_flows' = merged_flows /\ preserve_flows' = preserve_flows
        /\ \A f \in Flow : f < unit /\ f >= unit'
    BY <1>14 DEF EndOfPreserve
  <2>2. ASSUME NEW f \in Flow, f \notin merged_flows
        PROVE  written'[f] = WrittenSoFar(f)'
    BY <2>1, <2>2
  <2>3. QED
    <3> HIDE DEF WrittenSoFar
    <3>1. QED
      BY <2>1, <2>2
<1>15. CASE MergeFlow
  <2>1. /\ unit \in Flow
        /\ phase = "merge" /\ phase' = "merge"
        /\ unit' = unit + 1 /\ segment' = segment
        /\ merged_flows' = merged_flows /\ preserve_flows' = preserve_flows
        /\ unit \in merged_flows /\ unit \notin preserve_flows
    BY <1>15 DEF MergeFlow
  <2>2. ASSUME NEW f \in Flow, f = unit
        PROVE  written'[f] = Segment /\ WrittenSoFar(f)' = Segment
    BY <1>15, <2>1, <2>2 DEF MergeFlow
  <2>3. ASSUME NEW f \in Flow, f # unit
        PROVE  written'[f] = written[f] /\ WrittenSoFar(f)' = WrittenSoFar(f)
    BY <1>15, <2>1, <2>3 DEF MergeFlow
  <2>4. ASSUME NEW f \in Flow
        PROVE  \/ written'[f] = WrittenSoFar(f)'
               \/ f \in merged_flows' /\ phase' = "merge" /\ f >= unit'
    <3> HIDE DEF WrittenSoFar
    <3>1. QED
      BY <2>1, <2>2, <2>3
  <2>5. QED
    <3> HIDE DEF WrittenSoFar
    <3>1. QED
      BY <2>1, <2>4
<1>16. CASE SkipInMerge
  BY <1>16 DEF SkipInMerge
<1>17. CASE EndOfMerge
  BY <1>17 DEF EndOfMerge
<1>18. CASE AdjustNumbers
  BY <1>18 DEF AdjustNumbers
<1>19. CASE WriteFile
  BY <1>19 DEF WriteFile
<1>20. CASE LoseFile
  BY <1>20 DEF LoseFile, AtDatagram, AtStream
<1>21. QED
  BY <1>1, <1>2, <1>3, <1>4, <1>5, <1>6, <1>7, <1>8, <1>9, <1>10, <1>11, <1>12,
     <1>13, <1>14, <1>15, <1>16, <1>17, <1>18, <1>19, <1>20 DEF Next

THEOREM StructureIsKept == Spec => []StructureInv
<1>1. Init => StructureInv
  BY InitStructure
<1>2. ASSUME StructureInv, [Next]_vars
      PROVE  StructureInv'
  <2>1. CASE Next
    BY <1>2, <2>1, TypeIsKept, OrderIsKept, RoutingIsKept, SegmentsAreKept DEF StructureInv
  <2>2. CASE UNCHANGED vars
    BY <1>2, <2>2 DEF vars, StructureInv, TypeOK, DecidedInOrder, RoutedOnce, Rewritten,
                      SegmentsAreWritten, WrittenSoFar
  <2>3. QED
    BY <1>2, <2>1, <2>2
<1>3. QED
  BY <1>1, <1>2, PTL DEF Spec

-----------------------------------------------------------------------------
(***************************************************************************)
(* The counters.                                                           *)
(***************************************************************************)
LEMMA UnitsAreFinite ==
  ASSUME NEW S \in SUBSET Unit
  PROVE  IsFiniteSet(S) /\ Cardinality(S) \in Nat
<1>1. IsFiniteSet(Unit)
  BY FS_Interval, SizeAssumption DEF Unit
<1>2. IsFiniteSet(S)
  BY <1>1, FS_Subset
<1>3. QED
  BY <1>2, FS_CardinalityType

\* One more.
LEMMA CountOneMore ==
  ASSUME NEW S \in SUBSET Unit, NEW u, u \notin S
  PROVE  Cardinality(S \cup {u}) = Cardinality(S) + 1
BY UnitsAreFinite, FS_AddElement

Failed == {u \in Unit : decision[u] = "failed"}

\* A step decides on a unit that was open, or leaves all decisions.
LEMMA FailuresAreCounted ==
  ASSUME StructureInv, Next, failures = Cardinality(Failed)
  PROVE  failures' = Cardinality(Failed')
<1> USE Ranges, SizeAssumption
<1>1. CASE RefuseDatagram \/ FailStream
  <2>1. unit \in Unit /\ decision[unit] = "open"
    BY <1>1 DEF RefuseDatagram, FailStream, AtDatagram, AtStream, StructureInv, TypeOK,
                DecidedInOrder
  <2>2. failures' = failures + 1 /\ Failed' = Failed \cup {unit}
    BY <1>1, <2>1 DEF RefuseDatagram, FailStream, Decide, Failed, StructureInv, TypeOK
  <2>3. unit \notin Failed
    BY <2>1 DEF Failed
  <2>4. QED
    BY <2>2, <2>3, CountOneMore DEF Failed
<1>2. CASE KeepDatagram \/ RewriteDatagram \/ KeepStream \/ RefuseStream \/ RewriteStream
  <2>1. unit \in Unit /\ decision[unit] = "open"
    BY <1>2 DEF KeepDatagram, RewriteDatagram, KeepStream, RefuseStream, RewriteStream,
                AtDatagram, AtStream, StructureInv, TypeOK, DecidedInOrder
  <2>2. \E d \in Decisions \ {"failed"} : decision' = [decision EXCEPT ![unit] = d]
    BY <1>2 DEF KeepDatagram, RewriteDatagram, KeepStream, RefuseStream, RewriteStream,
                Decide, Decisions
  <2>3. Failed' = Failed
    BY <2>1, <2>2 DEF Failed, StructureInv, TypeOK
  <2>4. failures' = failures
    BY <1>2 DEF KeepDatagram, RewriteDatagram, KeepStream, RefuseStream, RewriteStream
  <2>5. QED
    BY <2>3, <2>4
<1>3. CASE UNCHANGED <<decision, failures>>
  BY <1>3 DEF Failed
<1>4. QED
  BY <1>1, <1>2, <1>3 DEF Next, EndOfDatagrams, EndOfStreams, PreserveSegment, Degrade,
       EndOfSegments, SkipInPreserve, EndOfPreserve, MergeFlow, SkipInMerge, EndOfMerge,
       AdjustNumbers, WriteFile, LoseFile

\* A flow is counted when it is finished, behind those that are.
LEMMA FlowsAreCounted ==
  ASSUME StructureInv, Next, phase # "lost" => tcp_stream_changed = Cardinality(Counted)
  PROVE  phase' # "lost" => tcp_stream_changed' = Cardinality(Counted')
<1> USE Ranges, SizeAssumption
<1>1. CASE EndOfSegments
  <2>1. /\ unit \in preserve_flows /\ phase = "preserve" /\ unit \in Flow
        /\ phase' = phase /\ unit' = unit + 1 /\ preserve_flows' = preserve_flows
    BY <1>1 DEF EndOfSegments, InPreserve, StructureInv, TypeOK
  <2>2. Counted' = Counted \cup {unit} /\ unit \notin Counted
    BY <2>1 DEF Counted, StructureInv, TypeOK
  <2>3. Counted \in SUBSET Unit
    BY <2>1 DEF Counted, StructureInv, TypeOK
  <2>4. QED
    BY <1>1, <2>1, <2>2, <2>3, CountOneMore DEF EndOfSegments
<1>2. CASE MergeFlow
  <2>1. /\ unit \in merged_flows /\ phase = "merge" /\ unit \in Flow
        /\ unit \notin preserve_flows
        /\ phase' = phase /\ unit' = unit + 1
        /\ merged_flows' = merged_flows /\ preserve_flows' = preserve_flows
    BY <1>2 DEF MergeFlow, StructureInv, TypeOK, RoutedOnce
  <2>2. Counted' = Counted \cup {unit} /\ unit \notin Counted
    BY <2>1 DEF Counted, StructureInv, TypeOK
  <2>3. Counted \in SUBSET Unit
    BY <2>1 DEF Counted, StructureInv, TypeOK
  <2>4. QED
    BY <1>2, <2>1, <2>2, <2>3, CountOneMore DEF MergeFlow
<1>3. CASE Degrade
  <2>1. Counted' = Counted
    BY <1>3 DEF Degrade, InPreserve, Counted, StructureInv, TypeOK, RoutedOnce
  <2>2. QED
    BY <1>3, <2>1 DEF Degrade, InPreserve
<1>4. CASE SkipInPreserve
  BY <1>4 DEF SkipInPreserve, Counted, StructureInv, TypeOK
<1>5. CASE SkipInMerge
  <2>1. Counted' = Counted
    BY <1>5 DEF SkipInMerge, Counted, StructureInv, TypeOK, RoutedOnce
  <2>2. QED
    BY <1>5, <2>1 DEF SkipInMerge
<1>6. CASE EndOfStreams
  <2>1. Counted = {}
    BY <1>6 DEF EndOfStreams, Counted
  <2>2. Counted' = {}
    <3>1. CASE merged_flows \cup preserve_flows = {}
      BY <1>6, <3>1 DEF EndOfStreams, Counted, Rewritten, StructureInv, RoutedOnce
    <3>2. CASE merged_flows \cup preserve_flows # {}
      BY <1>6, <3>2 DEF EndOfStreams, Counted, StructureInv, TypeOK
    <3>3. QED
      BY <3>1, <3>2
  <2>3. QED
    BY <1>6, <2>1, <2>2 DEF EndOfStreams
<1>7. CASE EndOfPreserve
  <2>1. Counted' = Counted
    BY <1>7 DEF EndOfPreserve, Counted, StructureInv, TypeOK, DecidedInOrder
  <2>2. QED
    BY <1>7, <2>1 DEF EndOfPreserve
<1>8. CASE EndOfMerge
  <2>1. Counted' = Counted
    BY <1>8 DEF EndOfMerge, Counted, Rewritten, StructureInv, TypeOK, DecidedInOrder,
                RoutedOnce
  <2>2. QED
    BY <1>8, <2>1 DEF EndOfMerge
<1>9. CASE PreserveSegment \/ AdjustNumbers \/ WriteFile
  BY <1>9 DEF PreserveSegment, InPreserve, AdjustNumbers, WriteFile, Counted, Rewritten
<1>10. CASE LoseFile
  BY <1>10 DEF LoseFile
<1>11. CASE \/ KeepDatagram \/ RefuseDatagram \/ RewriteDatagram \/ EndOfDatagrams
            \/ KeepStream \/ RefuseStream \/ FailStream \/ RewriteStream
  BY <1>11 DEF KeepDatagram, RefuseDatagram, RewriteDatagram, EndOfDatagrams, KeepStream,
       RefuseStream, FailStream, RewriteStream, AtDatagram, AtStream, Counted
<1>12. QED
  BY <1>1, <1>2, <1>3, <1>4, <1>5, <1>6, <1>7, <1>8, <1>9, <1>10, <1>11 DEF Next

(***************************************************************************)
(* The invariant of the runs: decisions, routes and what is written agree  *)
(* with the loops of rewrite_tcp_pass, and the counters with the decisions.*)
(***************************************************************************)
THEOREM PipelineIsSound == Spec => []PipelineInv
<1>1. Init => PipelineInv
  <2>1. ASSUME Init
        PROVE  CountersInv
    BY <2>1, FS_EmptySet DEF Init, CountersInv, Counted
  <2>2. QED
    BY <2>1, InitStructure DEF PipelineInv
<1>2. ASSUME PipelineInv, [Next]_vars
      PROVE  PipelineInv'
  <2>1. CASE Next
    <3>1. StructureInv'
      BY <1>2, <2>1, TypeIsKept, OrderIsKept, RoutingIsKept, SegmentsAreKept
         DEF PipelineInv, StructureInv
    <3>2. CountersInv'
      BY <1>2, <2>1, FailuresAreCounted, FlowsAreCounted DEF PipelineInv, CountersInv, Failed
    <3>3. QED
      BY <3>1, <3>2 DEF PipelineInv
  <2>2. CASE UNCHANGED vars
    BY <1>2, <2>2 DEF vars, PipelineInv, StructureInv, TypeOK, DecidedInOrder, RoutedOnce,
         Rewritten, SegmentsAreWritten, WrittenSoFar, CountersInv, Counted
  <2>3. QED
    BY <1>2, <2>1, <2>2
<1>3. QED
  BY <1>1, <1>2, PTL DEF Spec

-----------------------------------------------------------------------------
(***************************************************************************)
(* Pipeline implements FlowRewriting, fairness aside.                      *)
(***************************************************************************)
LEMMA InitRefines ==
  ASSUME Init
  PROVE  Promise!Init
BY DEF Init, Promise!Init, Fate, Emitted

Fates == [u \in Unit |-> Fate(decision[u])]
Contents == [u \in Unit |-> IF phase = "written" THEN Emitted(u) ELSE "nothing"]
File == IF phase \in {"written", "lost"} THEN phase ELSE "open"

\* A handler has done its work, or not: its unit, and no other, is decided on.
LEMMA DecisionsRefine ==
  ASSUME StructureInv,
         KeepDatagram \/ RefuseDatagram \/ RewriteDatagram \/
         KeepStream \/ RefuseStream \/ FailStream \/ RewriteStream
  PROVE  Promise!Next
<1>1. /\ unit \in Unit /\ decision[unit] = "open"
      /\ phase \in {"datagrams", "streams"} /\ phase' = phase
  BY Ranges, SizeAssumption
     DEF KeepDatagram, RefuseDatagram, RewriteDatagram, KeepStream, RefuseStream, FailStream,
         RewriteStream, AtDatagram, AtStream, StructureInv, TypeOK, DecidedInOrder
<1>2. PICK d \in Decisions \ {"open"} : decision' = [decision EXCEPT ![unit] = d]
  BY DEF KeepDatagram, RefuseDatagram, RewriteDatagram, KeepStream, RefuseStream, FailStream,
         RewriteStream, Decide, Decisions
<1>3. Fate(d) \in {"captured", "rewritten"} /\ Fate("open") = "open"
  BY DEF Fate, Decisions
<1>4. Fates' = [Fates EXCEPT ![unit] = Fate(d)] /\ Fates[unit] = "open"
  BY <1>1, <1>2, <1>3 DEF Fates, StructureInv, TypeOK
<1>5. File = "open" /\ File' = "open" /\ Contents' = Contents
  BY <1>1 DEF File, Contents
<1>6. Promise!Decide(unit)
  BY <1>1, <1>3, <1>4, <1>5 DEF Promise!Decide, Promise!Fates, Fates, File, Contents
<1>7. QED
  BY <1>1, <1>6 DEF Promise!Next

\* What is written is what was decided: all flows are whole by then.
LEMMA WritingRefines ==
  ASSUME StructureInv, WriteFile
  PROVE  Promise!Next
<1>1. /\ phase = "write" /\ phase' = "written"
      /\ UNCHANGED <<decision, written>>
  BY DEF WriteFile
<1>2. ASSUME NEW u \in Unit
      PROVE  decision[u] # "open" /\ decision[u] \in Decisions
  BY <1>1 DEF StructureInv, TypeOK, DecidedInOrder
<1>3. ASSUME NEW u \in Flow
      PROVE  written[u] = IF decision[u] = "rewritten" THEN Segment ELSE {}
  BY <1>1 DEF StructureInv, RoutedOnce, Rewritten, SegmentsAreWritten, WrittenSoFar
<1>4. ASSUME NEW u \in Unit
      PROVE  Emitted(u) = Fate(decision[u])
  BY <1>2, <1>3, <1>4, Ranges DEF Emitted, Fate, Decisions
<1>5. Contents' = Fates /\ Fates' = Fates /\ File = "open" /\ File' = "written"
  <2>1. ASSUME NEW u \in Unit
        PROVE  Emitted(u)' = Emitted(u)
    BY <1>1 DEF Emitted
  <2>2. QED
    BY <1>1, <1>4, <2>1 DEF Contents, Fates, File
<1>6. \A u \in Unit : Fates[u] # "open"
  BY <1>2 DEF Fates, Fate, Decisions
<1>7. QED
  BY <1>5, <1>6 DEF Promise!Next, Promise!Write, Fates, Contents, File

\* The file is given up.
LEMMA LosingRefines ==
  ASSUME StructureInv, LoseFile
  PROVE  Promise!Next
<1>1. phase \notin {"written", "lost"} /\ phase' = "lost" /\ decision' = decision
  BY DEF LoseFile, AtDatagram, AtStream
<1>2. QED
  BY <1>1 DEF Promise!Next, Promise!Lose

\* The other steps cannot be seen in what is promised.
LEMMA OtherStepsStutter ==
  ASSUME UNCHANGED decision, phase' = phase \/ {phase, phase'} \cap {"written", "lost"} = {},
         phase = "written" => UNCHANGED written
  PROVE  UNCHANGED Promise!vars
<1>1. Fates' = Fates
  BY DEF Fates, Fate
<1>2. File' = File
  BY DEF File
<1>3. Contents' = Contents
  <2>1. CASE phase = "written" /\ phase' = "written"
    <3>1. ASSUME NEW u \in Unit
          PROVE  Emitted(u)' = Emitted(u)
      BY <2>1 DEF Emitted
    <3>2. QED
      BY <2>1, <3>1 DEF Contents
  <2>2. CASE phase # "written" /\ phase' # "written"
    BY <2>2 DEF Contents
  <2>3. QED
    BY <2>1, <2>2
<1>4. QED
  BY <1>1, <1>2, <1>3 DEF Promise!vars, Fates, File, Contents

(***************************************************************************)
(* An error in one unit leaves that unit as it was captured and touches no *)
(* other one, no flow is written in part, and a file is either written as  *)
(* a whole or given up.                                                    *)
(***************************************************************************)
THEOREM PipelineImplementsPromise == Spec => Promise!SafeSpec
<1>1. Init => Promise!Init
  BY InitRefines
<1>2. ASSUME StructureInv, [Next]_vars
      PROVE  [Promise!Next]_(Promise!vars)
  <2>1. CASE KeepDatagram \/ RefuseDatagram \/ RewriteDatagram \/
             KeepStream \/ RefuseStream \/ FailStream \/ RewriteStream
    BY <1>2, <2>1, DecisionsRefine
  <2>2. CASE WriteFile
    BY <1>2, <2>2, WritingRefines
  <2>3. CASE LoseFile
    BY <1>2, <2>3, LosingRefines
  <2>4. CASE \/ EndOfDatagrams \/ EndOfStreams \/ PreserveSegment \/ Degrade
             \/ EndOfSegments \/ SkipInPreserve \/ EndOfPreserve \/ MergeFlow
             \/ SkipInMerge \/ EndOfMerge \/ AdjustNumbers
    <3>1. /\ UNCHANGED decision
          /\ {phase, phase'} \cap {"written", "lost"} = {}
      BY <2>4 DEF EndOfDatagrams, EndOfStreams, PreserveSegment, Degrade, EndOfSegments,
           SkipInPreserve, EndOfPreserve, MergeFlow, SkipInMerge, EndOfMerge, AdjustNumbers,
           InPreserve
    <3>2. QED
      BY <3>1, OtherStepsStutter
  <2>5. CASE UNCHANGED vars
    BY <2>5, OtherStepsStutter DEF vars
  <2>6. QED
    BY <1>2, <2>1, <2>2, <2>3, <2>4, <2>5 DEF Next
<1>3. QED
  BY <1>1, <1>2, StructureIsKept, PTL DEF Spec, Promise!SafeSpec

-----------------------------------------------------------------------------
\* All invocations are given the same output directory.
OneOutputDir == \A d, e \in OutputDirs : d = e

\* The output of a capture that is begun at a time
OutputOf(p, time) == Path(args.dir \o p.dir, Append(p.stem, time), "pcap")
Outputs(p) == {OutputOf(p, time) : time \in Nat}

-----------------------------------------------------------------------------
(***************************************************************************)
(* The inductive invariant of the batch.  BatchTypeOK and the properties   *)
(* do not say how an output got its name; that is what keeps it apart from *)
(* captures and from the outputs of others.                                *)
(***************************************************************************)
FilesArePresent ==
  /\ IsFiniteSet(DOMAIN content)
  /\ Inputs \subseteq DOMAIN content
  /\ \A o \in DOMAIN content :
       /\ content[o] = [from |-> content[o].from, whole |-> content[o].whole]
       /\ \/ o \in Inputs /\ content[o].from = NoFile
          \/ \E p \in Inputs : o \in Outputs(p) /\ content[o].from = p

ArgumentsAreRight ==
  /\ now \in 0 .. MaxTime /\ invocations \in 0 .. MaxInvocations
  /\ running \in BOOLEAN /\ killed \in BOOLEAN /\ opened \in BOOLEAN
  /\ args \in [dir : OutputDirs, fail_fast : BOOLEAN]

\* What is being processed is a capture, and its output is named after it.
CapturesAreProcessed ==
  /\ files \in Seq(Inputs)
  /\ output # NoFile => files # << >> /\ output \in Outputs(Head(files))
  /\ opened =>
       /\ output # NoFile /\ output \in DOMAIN content
       /\ content[output].from = Head(files)

\* A file that is not complete is being written, or was left behind.
LeftoversAreKnown ==
  /\ abandoned \subseteq DOMAIN content
  /\ ~running /\ opened => output \in abandoned

LastOutputsAreKept ==
  /\ DOMAIN last \subseteq Inputs
  /\ \A p \in DOMAIN last :
       /\ last[p] \in DOMAIN content /\ last[p] \in Outputs(p)
       /\ content[last[p]].from \in Inputs /\ AreTwins(content[last[p]].from, p)
       /\ content[last[p]].whole \/ last[p] \in abandoned \/ (opened /\ last[p] = output)

IInv ==
  /\ FilesArePresent
  /\ ArgumentsAreRight
  /\ CapturesAreProcessed
  /\ LeftoversAreKnown
  /\ LastOutputsAreKept

-----------------------------------------------------------------------------
(***************************************************************************)
(* Names.                                                                  *)
(***************************************************************************)
LEMMA InputsAreCaptures ==
  ASSUME NEW p \in Inputs
  PROVE  /\ p.dir \in Seq(STRING) /\ p.stem \in Seq(STRING)
         /\ p.suffix \in CaptureSuffixes /\ p # NoFile
BY InputsAssumption DEF CaptureSuffixes, NoFile, Path

LEMMA AppendIsInjective ==
  ASSUME NEW S, NEW s \in Seq(S), NEW t \in Seq(S), NEW m, NEW n, Append(s, m) = Append(t, n)
  PROVE  s = t
<1> DEFINE T == S \cup {m, n}
<1>1. s \in Seq(T) /\ t \in Seq(T)
  BY SeqMonotonic
<1>2. Len(s) = Len(t)
  <2>1. Len(Append(s, m)) = Len(s) + 1 /\ Len(Append(t, n)) = Len(t) + 1
    BY <1>1, AppendProperties
  <2>2. QED
    BY <2>1, <1>1, LenProperties
<1>3. ASSUME NEW i \in 1 .. Len(s)
      PROVE  s[i] = t[i]
  <2>1. Append(s, m)[i] = s[i] /\ Append(t, n)[i] = t[i]
    BY <1>1, <1>2, AppendProperties, LenProperties
  <2>2. QED
    BY <2>1
<1>4. QED
  BY <1>1, <1>2, <1>3, SeqEqual

\* Outputs of the same name belong to twins.
LEMMA NamesTellTwins ==
  ASSUME ArgumentsAreRight, NEW p \in Inputs, NEW q \in Inputs, NEW o,
         o \in Outputs(p), o \in Outputs(q)
  PROVE  AreTwins(p, q)
<1>1. PICK t \in Nat : o = OutputOf(p, t)
  BY DEF Outputs
<1>2. PICK u \in Nat : o = OutputOf(q, u)
  BY DEF Outputs
<1>3. args.dir \o p.dir = args.dir \o q.dir /\ Append(p.stem, t) = Append(q.stem, u)
  <2>1. o.dir = args.dir \o p.dir /\ o.stem = Append(p.stem, t)
    BY <1>1 DEF OutputOf, Path
  <2>2. o.dir = args.dir \o q.dir /\ o.stem = Append(q.stem, u)
    BY <1>2 DEF OutputOf, Path
  <2>3. QED
    BY <2>1, <2>2
<1>4. args.dir \in Seq(STRING)
  BY OutputDirsAssumption DEF ArgumentsAreRight
<1>5. p.dir = q.dir
  BY <1>3, <1>4, InputsAreCaptures, ConcatSimplifications, Zenon
<1>6. p.stem = q.stem
  BY <1>3, InputsAreCaptures, AppendIsInjective
<1>7. QED
  BY <1>5, <1>6 DEF AreTwins

\* No output is listed: it lies below the output directory.
LEMMA OutputsAreBelow ==
  ASSUME NEW dir \in Seq(STRING), NEW p \in Inputs
  PROVE  IsPrefix(dir, dir \o p.dir)
<1>1. p.dir \in Seq(STRING)
  BY InputsAreCaptures
<1>2. Len(dir) <= Len(dir \o p.dir)
  BY <1>1, ConcatProperties, LenProperties
<1>3. SubSeq(dir \o p.dir, 1, Len(dir)) = SubSeq(dir, 1, Len(dir))
  <2>1. CASE dir = << >>
    BY <2>1, SubSeqEmpty, EmptySeq
  <2>2. CASE dir # << >>
    <3>1. Len(dir) \in Nat \ {0}
      BY <2>2, EmptySeq
    <3>2. QED
      BY <1>1, <3>1, SubSeqOfConcat1
  <2>3. QED
    BY <2>1, <2>2
<1>4. QED
  BY <1>2, <1>3 DEF IsPrefix

\* SetToSeq lists elements of its set.
LEMMA SetToSeqLists ==
  ASSUME NEW S, IsFiniteSet(S)
  PROVE  SetToSeq(S) \in Seq(S)
<1>1. Cardinality(S) \in Nat /\ ExistsBijection(1 .. Cardinality(S), S)
  BY FS_CardinalityType
<1>2. \E f \in [1 .. Cardinality(S) -> S] : IsInjective(f)
  BY <1>1 DEF ExistsBijection, Bijection, Injection, IsInjective
<1>3. SetToSeq(S) \in [1 .. Cardinality(S) -> S]
  BY <1>2 DEF SetToSeq
<1>4. QED
  BY <1>1, <1>3, SeqDef

-----------------------------------------------------------------------------
(***************************************************************************)
(* It holds at first, and every step keeps it.                             *)
(***************************************************************************)
LEMMA InitInv ==
  ASSUME BatchInit
  PROVE  IInv
<1>1. FilesArePresent
  BY InputsAssumption DEF BatchInit, FilesArePresent
<1>2. ArgumentsAreRight
  <2>1. now \in 0 .. MaxTime /\ invocations \in 0 .. MaxInvocations
    BY BoundsAssumption DEF BatchInit
  <2>2. QED
    BY <2>1 DEF BatchInit, ArgumentsAreRight
<1>3. CapturesAreProcessed
  BY EmptySeq DEF BatchInit, CapturesAreProcessed
<1>4. LeftoversAreKnown
  BY DEF BatchInit, LeftoversAreKnown
<1>5. LastOutputsAreKept
  <2>1. DOMAIN last = {}
    BY DEF BatchInit
  <2>2. QED
    BY <2>1 DEF LastOutputsAreKept
<1>6. QED
  BY <1>1, <1>2, <1>3, <1>4, <1>5 DEF IInv

\* Outputs keep their names as long as the output directory is the same.
LEMMA NamesAreKept ==
  ASSUME args'.dir = args.dir, NEW p
  PROVE  Outputs(p)' = Outputs(p)
BY DEF Outputs, OutputOf

\* What is listed are captures, not outputs.
LEMMA InvokeLists ==
  ASSUME OneOutputDir, FilesArePresent, ArgumentsAreRight, NEW dir \in OutputDirs
  PROVE  SetToSeq(Files(dir)) \in Seq(Inputs)
<1>1. dir = args.dir /\ dir \in Seq(STRING)
  BY OutputDirsAssumption DEF OneOutputDir, ArgumentsAreRight
<1>2. ASSUME NEW o \in Files(dir)
      PROVE  o \in Inputs
  <2>1. o \in DOMAIN content /\ ~IsPrefix(dir, o.dir)
    BY DEF Files
  <2>2. ASSUME NEW p \in Inputs, o \in Outputs(p)
        PROVE  FALSE
    <3>1. PICK t \in Nat : o = OutputOf(p, t)
      BY <2>2 DEF Outputs
    <3>2. o.dir = dir \o p.dir
      BY <1>1, <3>1 DEF OutputOf, Path
    <3>3. QED
      BY <1>1, <2>1, <3>2, OutputsAreBelow
  <2>3. QED
    BY <2>1, <2>2 DEF FilesArePresent
<1>3. IsFiniteSet(Files(dir))
  <2>1. Files(dir) \subseteq DOMAIN content
    BY DEF Files
  <2>2. QED
    BY <2>1, FS_Subset DEF FilesArePresent
<1>4. SetToSeq(Files(dir)) \in Seq(Files(dir))
  BY <1>3, SetToSeqLists
<1>5. QED
  BY <1>2, <1>4, SeqMonotonic

LEMMA InvokeKeeps ==
  ASSUME OneOutputDir, IInv, Invoke
  PROVE  IInv'
<1>1. PICK dir \in OutputDirs, fail_fast \in BOOLEAN :
        args' = [dir |-> dir, fail_fast |-> fail_fast] /\ files' = SetToSeq(Files(dir))
  BY DEF Invoke
<1>2. args'.dir = args.dir
  BY <1>1 DEF OneOutputDir, IInv, ArgumentsAreRight
<1>3. \A p : Outputs(p)' = Outputs(p)
  BY <1>2, NamesAreKept
<1>4. FilesArePresent'
  BY <1>3 DEF IInv, FilesArePresent, Invoke
<1>5. ArgumentsAreRight'
  <2>1. invocations' \in 0 .. MaxInvocations
    BY BoundsAssumption DEF IInv, ArgumentsAreRight, Invoke
  <2>2. args' \in [dir : OutputDirs, fail_fast : BOOLEAN]
    BY <1>1
  <2>3. QED
    BY <2>1, <2>2 DEF IInv, ArgumentsAreRight, Invoke
<1>6. CapturesAreProcessed'
  BY <1>1, InvokeLists DEF IInv, CapturesAreProcessed, Invoke
<1>7. LeftoversAreKnown'
  BY DEF IInv, LeftoversAreKnown, Invoke
<1>8. LastOutputsAreKept'
  BY <1>3 DEF IInv, LastOutputsAreKept, LeftoversAreKnown, Invoke
<1>9. QED
  BY <1>4, <1>5, <1>6, <1>7, <1>8 DEF IInv

LEMMA StartFileKeeps ==
  ASSUME IInv, StartFile
  PROVE  IInv'
<1>1. \A p : Outputs(p)' = Outputs(p)
  BY NamesAreKept DEF StartFile
<1>2. FilesArePresent'
  BY <1>1 DEF IInv, FilesArePresent, StartFile
<1>3. ArgumentsAreRight'
  BY DEF IInv, ArgumentsAreRight, StartFile
<1>4. CapturesAreProcessed'
  <2>1. now \in Nat
    BY BoundsAssumption DEF IInv, ArgumentsAreRight
  <2>2. output' \in Outputs(Head(files))
    BY <2>1 DEF StartFile, OutputPath, Outputs, OutputOf
  <2>3. ~opened
    BY DEF IInv, CapturesAreProcessed, StartFile
  <2>4. QED
    BY <1>1, <2>2, <2>3 DEF IInv, CapturesAreProcessed, StartFile
<1>5. LeftoversAreKnown'
  BY DEF IInv, LeftoversAreKnown, StartFile
<1>6. LastOutputsAreKept'
  BY <1>1 DEF IInv, LastOutputsAreKept, CapturesAreProcessed, StartFile
<1>7. QED
  BY <1>2, <1>3, <1>4, <1>5, <1>6 DEF IInv

\* The file that is opened is the output of its capture, and no other file
\* changes; a file of that name belonged to a twin.
LEMMA OpenOutputKeeps ==
  ASSUME IInv, OpenOutput
  PROVE  IInv'
<1> DEFINE capture == Head(files)
<1>1. \A p : Outputs(p)' = Outputs(p)
  BY NamesAreKept DEF OpenOutput
<1>2. capture \in Inputs /\ output \in Outputs(capture)
  BY HeadTailProperties DEF IInv, CapturesAreProcessed, OpenOutput
<1>3. /\ DOMAIN content' = DOMAIN content \cup {output}
      /\ content'[output] = [from |-> capture, whole |-> FALSE]
      /\ \A o \in DOMAIN content \ {output} : content'[o] = content[o]
  BY DEF OpenOutput, With
<1>4. FilesArePresent'
  <2>1. IsFiniteSet(DOMAIN content')
    BY <1>3, FS_AddElement DEF IInv, FilesArePresent
  <2>2. ASSUME NEW o \in DOMAIN content'
        PROVE  /\ content'[o] = [from |-> content'[o].from, whole |-> content'[o].whole]
               /\ \/ o \in Inputs /\ content'[o].from = NoFile
                  \/ \E p \in Inputs : o \in Outputs(p) /\ content'[o].from = p
    <3>1. CASE o = output
      BY <1>2, <1>3, <3>1
    <3>2. CASE o # output
      BY <1>3, <3>2 DEF IInv, FilesArePresent
    <3>3. QED
      BY <3>1, <3>2
  <2>3. QED
    BY <1>1, <1>3, <2>1, <2>2 DEF IInv, FilesArePresent
<1>5. ArgumentsAreRight'
  BY DEF IInv, ArgumentsAreRight, OpenOutput
<1>6. CapturesAreProcessed'
  BY <1>1, <1>3 DEF IInv, CapturesAreProcessed, OpenOutput
<1>7. LeftoversAreKnown'
  BY <1>3 DEF IInv, LeftoversAreKnown, OpenOutput
<1>8. LastOutputsAreKept'
  <2>1. ASSUME NEW p \in DOMAIN last
        PROVE  /\ last[p] \in DOMAIN content' /\ last[p] \in Outputs(p)
               /\ content'[last[p]].from \in Inputs /\ AreTwins(content'[last[p]].from, p)
               /\ content'[last[p]].whole \/ last[p] \in abandoned \/ last[p] = output
    <3>1. CASE last[p] = output
      <4>1. AreTwins(capture, p)
        BY <1>2, <3>1, NamesTellTwins DEF IInv, LastOutputsAreKept
      <4>2. QED
        BY <1>2, <1>3, <3>1, <4>1 DEF IInv, LastOutputsAreKept
    <3>2. CASE last[p] # output
      BY <1>3, <3>2 DEF IInv, LastOutputsAreKept
    <3>3. QED
      BY <3>1, <3>2
  <2>2. QED
    BY <1>1, <2>1 DEF IInv, LastOutputsAreKept, OpenOutput
<1>9. QED
  BY <1>4, <1>5, <1>6, <1>7, <1>8 DEF IInv

\* The file is complete, and the output of its capture.
LEMMA EndFileKeeps ==
  ASSUME IInv, EndFile
  PROVE  IInv'
<1> DEFINE capture == Head(files)
<1>1. \A p : Outputs(p)' = Outputs(p)
  BY NamesAreKept DEF EndFile
<1>2. /\ files # << >> /\ output # NoFile /\ opened
      /\ output \in DOMAIN content /\ content[output].from = capture
      /\ output \in Outputs(capture)
  BY DEF IInv, CapturesAreProcessed, EndFile
<1>3. capture \in Inputs /\ files' \in Seq(Inputs)
  BY <1>2, HeadTailProperties DEF IInv, CapturesAreProcessed, EndFile, NextFile
<1>4. /\ DOMAIN content' = DOMAIN content
      /\ content'[output] = [from |-> capture, whole |-> TRUE]
      /\ \A o \in DOMAIN content \ {output} : content'[o] = content[o]
  <2>1. content[output] = [from |-> content[output].from, whole |-> content[output].whole]
    BY <1>2 DEF IInv, FilesArePresent
  <2>2. content' = [content EXCEPT ![output].whole = TRUE]
    BY DEF EndFile
  <2>3. content'[output] = [content[output] EXCEPT !.whole = TRUE]
    BY <1>2, <2>2
  <2>4. content'[output] = [from |-> capture, whole |-> TRUE]
    BY <1>2, <2>1, <2>3
  <2>5. QED
    BY <2>2, <2>4
<1>5. FilesArePresent'
  <2>1. ASSUME NEW o \in DOMAIN content
        PROVE  /\ content'[o] = [from |-> content'[o].from, whole |-> content'[o].whole]
               /\ \/ o \in Inputs /\ content'[o].from = NoFile
                  \/ \E p \in Inputs : o \in Outputs(p) /\ content'[o].from = p
    <3>1. CASE o = output
      BY <1>2, <1>3, <1>4, <3>1
    <3>2. CASE o # output
      BY <1>4, <3>2 DEF IInv, FilesArePresent
    <3>3. QED
      BY <3>1, <3>2
  <2>2. QED
    BY <1>1, <1>4, <2>1 DEF IInv, FilesArePresent
<1>6. ArgumentsAreRight'
  BY DEF IInv, ArgumentsAreRight, EndFile, NextFile
<1>7. CapturesAreProcessed'
  BY <1>3 DEF CapturesAreProcessed, EndFile, NextFile
<1>8. LeftoversAreKnown'
  BY <1>4 DEF IInv, LeftoversAreKnown, EndFile, NextFile
<1>9. LastOutputsAreKept'
  <2>1. /\ DOMAIN last' = DOMAIN last \cup {capture}
        /\ last'[capture] = output
        /\ \A p \in DOMAIN last \ {capture} : last'[p] = last[p]
    BY DEF EndFile, With
  <2>2. ASSUME NEW p \in DOMAIN last'
        PROVE  /\ last'[p] \in DOMAIN content /\ last'[p] \in Outputs(p)
               /\ content'[last'[p]].from \in Inputs /\ AreTwins(content'[last'[p]].from, p)
               /\ content'[last'[p]].whole \/ last'[p] \in abandoned
    <3>1. CASE p = capture
      BY <1>2, <1>3, <1>4, <2>1, <3>1 DEF AreTwins
    <3>2. CASE p # capture /\ last[p] = output
      <4>1. p \in DOMAIN last /\ last'[p] = output /\ output \in Outputs(p) /\ p \in Inputs
        BY <2>1, <3>2 DEF IInv, LastOutputsAreKept
      <4>2. AreTwins(capture, p)
        BY <1>2, <1>3, <4>1, NamesTellTwins DEF IInv
      <4>3. QED
        BY <1>2, <1>3, <1>4, <4>1, <4>2
    <3>3. CASE p # capture /\ last[p] # output
      BY <1>4, <2>1, <3>3 DEF IInv, LastOutputsAreKept
    <3>4. QED
      BY <3>1, <3>2, <3>3
  <2>3. DOMAIN last' \subseteq Inputs
    BY <1>3, <2>1 DEF IInv, LastOutputsAreKept
  <2>4. QED
    BY <1>1, <1>4, <2>2, <2>3 DEF LastOutputsAreKept, EndFile
<1>10. QED
  BY <1>5, <1>6, <1>7, <1>8, <1>9 DEF IInv

LEMMA FailFileKeeps ==
  ASSUME IInv, FailFile
  PROVE  IInv'
<1>1. \A p : Outputs(p)' = Outputs(p)
  BY NamesAreKept DEF FailFile
<1>2. FilesArePresent'
  BY <1>1 DEF IInv, FilesArePresent, FailFile
<1>3. ArgumentsAreRight'
  BY DEF IInv, ArgumentsAreRight, FailFile, NextFile, GoesOn
<1>4. CapturesAreProcessed'
  <2>1. files' \in Seq(Inputs)
    BY HeadTailProperties DEF IInv, CapturesAreProcessed, FailFile, NextFile
  <2>2. QED
    BY <2>1 DEF CapturesAreProcessed, FailFile, NextFile
<1>5. LeftoversAreKnown'
  BY DEF IInv, LeftoversAreKnown, CapturesAreProcessed, FailFile, NextFile
<1>6. LastOutputsAreKept'
  BY <1>1 DEF IInv, LastOutputsAreKept, FailFile
<1>7. QED
  BY <1>2, <1>3, <1>4, <1>5, <1>6 DEF IInv

LEMMA KillKeeps ==
  ASSUME IInv, Kill
  PROVE  IInv'
<1>1. \A p : Outputs(p)' = Outputs(p)
  BY NamesAreKept DEF Kill
<1>2. FilesArePresent'
  BY <1>1 DEF IInv, FilesArePresent, Kill
<1>3. ArgumentsAreRight'
  BY DEF IInv, ArgumentsAreRight, Kill
<1>4. CapturesAreProcessed'
  BY <1>1 DEF IInv, CapturesAreProcessed, Kill
<1>5. LeftoversAreKnown'
  BY DEF IInv, LeftoversAreKnown, CapturesAreProcessed, Kill
<1>6. LastOutputsAreKept'
  BY <1>1 DEF IInv, LastOutputsAreKept, Kill
<1>7. QED
  BY <1>2, <1>3, <1>4, <1>5, <1>6 DEF IInv

\* Steps that touch no file and no list.
LEMMA OthersKeep ==
  ASSUME IInv, EndBatch \/ Tick \/ UNCHANGED batchVars
  PROVE  IInv'
<1> USE DEF EndBatch, Tick, batchVars
<1>1. UNCHANGED <<content, args, files, output, opened, last, abandoned>>
  OBVIOUS
<1>2. \A p : Outputs(p)' = Outputs(p)
  BY <1>1, NamesAreKept
<1>3. FilesArePresent'
  BY <1>1, <1>2 DEF IInv, FilesArePresent
<1>4. ArgumentsAreRight'
  <2>1. now' \in 0 .. MaxTime /\ invocations' \in 0 .. MaxInvocations
    BY BoundsAssumption DEF IInv, ArgumentsAreRight
  <2>2. running' \in BOOLEAN /\ killed' \in BOOLEAN /\ opened' \in BOOLEAN
    BY DEF IInv, ArgumentsAreRight
  <2>3. QED
    BY <1>1, <2>1, <2>2 DEF IInv, ArgumentsAreRight
<1>5. CapturesAreProcessed'
  BY <1>1, <1>2 DEF IInv, CapturesAreProcessed
<1>6. LeftoversAreKnown'
  <2>1. CASE EndBatch
    BY <1>1, <2>1 DEF IInv, LeftoversAreKnown, CapturesAreProcessed
  <2>2. CASE Tick \/ UNCHANGED batchVars
    BY <1>1, <2>2 DEF IInv, LeftoversAreKnown
  <2>3. QED
    BY <2>1, <2>2
<1>7. LastOutputsAreKept'
  BY <1>1, <1>2 DEF IInv, LastOutputsAreKept
<1>8. QED
  BY <1>3, <1>4, <1>5, <1>6, <1>7 DEF IInv

LEMMA NextKeeps ==
  ASSUME OneOutputDir, IInv, [BatchNext]_batchVars
  PROVE  IInv'
BY InvokeKeeps, StartFileKeeps, OpenOutputKeeps, EndFileKeeps, FailFileKeeps, KillKeeps,
   OthersKeep DEF BatchNext, Step

-----------------------------------------------------------------------------
(***************************************************************************)
(* The invariant of the batch, see Batch: no invocation, killed or not,    *)
(* leaves anything behind that a later one with the same output directory  *)
(* takes for a capture.                                                    *)
(***************************************************************************)
THEOREM OutputsAreNoCaptures ==
  ASSUME OneOutputDir
  PROVE  BatchSpec => []BatchInv
<1>1. ASSUME IInv
      PROVE  BatchInv
  <2>1. OutputsAreMadeFromCaptures
    BY <1>1 DEF IInv, FilesArePresent, OutputsAreMadeFromCaptures
  <2>2. Range(files) \subseteq DOMAIN content
    BY <1>1, LenProperties DEF IInv, FilesArePresent, CapturesAreProcessed, Range
  <2>3. BatchTypeOK
    BY <1>1, <2>1, <2>2
    DEF BatchTypeOK, IInv, FilesArePresent, ArgumentsAreRight, CapturesAreProcessed,
        LeftoversAreKnown, LastOutputsAreKept, OutputsAreMadeFromCaptures
  <2>4. QED
    BY <2>1, <2>3 DEF BatchInv
<1>2. QED
  BY <1>1, InitInv, NextKeeps, PTL DEF BatchSpec

(***************************************************************************)
(* The output of a capture is only lost to a twin, and incomplete only     *)
(* while the twin is written or where it was abandoned: whatever fails, is *)
(* killed, or happens in the same second.                                  *)
(***************************************************************************)
THEOREM OutputsAreSafe ==
  ASSUME OneOutputDir
  PROVE  BatchSpec => []OutputsAreOnlyLostToTwins
<1>1. ASSUME IInv
      PROVE  OutputsAreOnlyLostToTwins
  BY <1>1 DEF IInv, LastOutputsAreKept, OutputsAreOnlyLostToTwins
<1>2. QED
  BY <1>1, InitInv, NextKeeps, PTL DEF BatchSpec
=============================================================================
