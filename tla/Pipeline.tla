------------------------------ MODULE Pipeline ------------------------------
(***************************************************************************)
(* One capture on its way through src/core/pipeline.py: the packet-level   *)
(* pass over UDP datagrams, rewrite_tcp_pass with its five steps, and the  *)
(* output.  What a handler does is the environment's choice: it changes    *)
(* its payload or not, refuses it, or raises an exception, in detect or in *)
(* rewrite; the model follows the exception through the handlers of        *)
(* exceptions: the dispatcher (src/core/dispatcher.py), rewrite_tcp_pass   *)
(* and process_directory.                                                  *)
(*                                                                         *)
(* Units are numbered in the order they are treated in: the datagrams as   *)
(* they were captured, then the flows, sorted by their first packets.  A   *)
(* flow is carried by segments; what becomes of sequence numbers is the    *)
(* subject of module Resegment.                                            *)
(***************************************************************************)
EXTENDS Naturals, FiniteSets

CONSTANTS
  Datagrams, Flows,   \* their numbers
  Segments            \* the number of primary segments of a flow

ASSUME SizeAssumption ==
  /\ Datagrams \in Nat /\ Flows \in Nat
  /\ Segments \in Nat \ {0}

Unit == 1 .. Datagrams + Flows
Flow == Datagrams + 1 .. Datagrams + Flows
Segment == 1 .. Segments

(***************************************************************************)
(* Exceptions, one for each of the ways they are treated:                  *)
(*   ValueError    also AttributeError, IndexError and TypeError           *)
(*   OSError       also EOFError                                           *)
(*   struct.error  also RecursionError, and whatever nobody expects        *)
(***************************************************************************)
Exceptions ==
  {"RewriteError", "ValueError", "zlib.error", "KeyError", "OSError", "struct.error"}

\* Where a handler is called, and what is caught there: in HandlerDispatcher
\* by _select_handler and by _rewrite_with_handler; the HTTP entry point is
\* called without a dispatcher.
Caught ==
  [detect |-> {"RewriteError", "ValueError"},
   rewrite |-> {"RewriteError", "ValueError", "zlib.error", "OSError"},
   http |-> {}]

Escapes(e, site) == e \in Exceptions \ Caught[site]

\* The except clauses of rewrite_tcp_pass.
CaughtByPass == {"RewriteError", "ValueError", "zlib.error", "KeyError"}

-----------------------------------------------------------------------------
VARIABLES
  phase,            \* how far the file is
  unit,             \* the unit the loop of the phase is at
  segment,          \* the segment resegment_preserve is at
  decision,         \* unit -> what came of its handler
  merged_flows,
  preserve_flows,
  outgrown,         \* flow -> segments whose new payload exceeds their packet
  written,          \* flow -> segments that have their new payload
  failures,         \* of stats
  tcp_stream_changed

vars == <<phase, unit, segment, decision, merged_flows, preserve_flows, outgrown,
          written, failures, tcp_stream_changed>>

Decisions == {"open", "unchanged", "refused", "failed", "rewritten"}

TypeOK ==
  /\ phase \in {"datagrams", "streams", "preserve", "merge", "adjust", "write",
                "written", "lost"}
  /\ unit \in 1 .. Datagrams + Flows + 1
  /\ segment \in 1 .. Segments + 1
  /\ decision \in [Unit -> Decisions]
  /\ merged_flows \in SUBSET Flow
  /\ preserve_flows \in SUBSET Flow
  /\ outgrown \in [Flow -> SUBSET Segment]
  /\ written \in [Flow -> SUBSET Segment]
  /\ failures \in Nat
  /\ tcp_stream_changed \in Nat

Init ==
  /\ phase = "datagrams"
  /\ unit = 1
  /\ segment = 1
  /\ decision = [u \in Unit |-> "open"]
  /\ merged_flows = {}
  /\ preserve_flows = {}
  /\ outgrown = [f \in Flow |-> {}]
  /\ written = [f \in Flow |-> {}]
  /\ failures = 0
  /\ tcp_stream_changed = 0

Decide(d) == decision' = [decision EXCEPT ![unit] = d]

-----------------------------------------------------------------------------
(***************************************************************************)
(* rewrite_l2_l3_udp_pass: rewrite_udp_packet of each datagram.            *)
(***************************************************************************)
AtDatagram == phase = "datagrams" /\ unit <= Datagrams

\* The payload is the same, or the datagram is a fragment and is skipped.
KeepDatagram ==
  /\ AtDatagram /\ Decide("unchanged")
  /\ unit' = unit + 1
  /\ UNCHANGED <<phase, segment, merged_flows, preserve_flows, outgrown, written,
                 failures, tcp_stream_changed>>

\* The handler refuses, or what it returns is longer than a frame (65507
\* bytes for a datagram that was reassembled): it is counted as a failure.
RefuseDatagram ==
  /\ AtDatagram /\ Decide("failed")
  /\ failures' = failures + 1
  /\ unit' = unit + 1
  /\ UNCHANGED <<phase, segment, merged_flows, preserve_flows, outgrown, written,
                 tcp_stream_changed>>

RewriteDatagram ==
  /\ AtDatagram /\ Decide("rewritten")
  /\ unit' = unit + 1
  /\ UNCHANGED <<phase, segment, merged_flows, preserve_flows, outgrown, written,
                 failures, tcp_stream_changed>>

EndOfDatagrams ==
  /\ phase = "datagrams" /\ unit > Datagrams
  /\ phase' = "streams"
  /\ UNCHANGED <<unit, segment, decision, merged_flows, preserve_flows, outgrown,
                 written, failures, tcp_stream_changed>>

-----------------------------------------------------------------------------
(***************************************************************************)
(* Step 2 of rewrite_tcp_pass: rewrite_tcp_stream of each flow.            *)
(***************************************************************************)
AtStream == phase = "streams" /\ unit <= Datagrams + Flows

KeepStream ==
  /\ AtStream /\ Decide("unchanged")
  /\ unit' = unit + 1
  /\ UNCHANGED <<phase, segment, merged_flows, preserve_flows, outgrown, written,
                 failures, tcp_stream_changed>>

\* The result is not ok: the handler says so, or the dispatcher has caught
\* an exception.  It is logged and not counted.
RefuseStream ==
  /\ AtStream /\ Decide("refused")
  /\ unit' = unit + 1
  /\ UNCHANGED <<phase, segment, merged_flows, preserve_flows, outgrown, written,
                 failures, tcp_stream_changed>>

\* An exception reaches the pass.
FailStream ==
  /\ AtStream /\ Decide("failed")
  /\ \E e \in CaughtByPass, site \in DOMAIN Caught : Escapes(e, site)
  /\ failures' = failures + 1
  /\ unit' = unit + 1
  /\ UNCHANGED <<phase, segment, merged_flows, preserve_flows, outgrown, written,
                 tcp_stream_changed>>

\* preserve_boundaries of a changed flow: HTTP is merged; otherwise the class
\* of the handler says so, unless its result says something else (None: "unset").
KeepsBoundaries(http, class_merges, result_merges) ==
  /\ ~http
  /\ IF result_merges = "unset" THEN ~class_merges ELSE result_merges = "no"

RewriteStream ==
  /\ AtStream /\ Decide("rewritten")
  /\ \E http, class_merges \in BOOLEAN, result_merges \in {"unset", "yes", "no"} :
       IF KeepsBoundaries(http, class_merges, result_merges)
       THEN /\ preserve_flows' = preserve_flows \cup {unit}
            /\ UNCHANGED merged_flows
       ELSE /\ merged_flows' = merged_flows \cup {unit}
            /\ UNCHANGED preserve_flows
  /\ \E wide \in SUBSET Segment : outgrown' = [outgrown EXCEPT ![unit] = wide]
  /\ unit' = unit + 1
  /\ UNCHANGED <<phase, segment, written, failures, tcp_stream_changed>>

\* "if not plan.modified_flows: return"
EndOfStreams ==
  /\ phase = "streams" /\ unit > Datagrams + Flows
  /\ phase' = IF merged_flows \cup preserve_flows = {} THEN "write" ELSE "preserve"
  /\ unit' = Datagrams + 1
  /\ UNCHANGED <<segment, decision, merged_flows, preserve_flows, outgrown, written,
                 failures, tcp_stream_changed>>

-----------------------------------------------------------------------------
(***************************************************************************)
(* Step 3: resegment_preserve, segment by segment.                         *)
(***************************************************************************)
InPreserve == phase = "preserve" /\ unit \in preserve_flows

PreserveSegment ==
  /\ InPreserve /\ segment <= Segments /\ segment \notin outgrown[unit]
  /\ written' = [written EXCEPT ![unit] = @ \cup {segment}]
  /\ segment' = segment + 1
  /\ UNCHANGED <<phase, unit, decision, merged_flows, preserve_flows, outgrown,
                 failures, tcp_stream_changed>>

\* The segment outgrows its packet: the flow is left to the next step.
DegradeAndForget ==
  /\ InPreserve /\ segment <= Segments /\ segment \in outgrown[unit]
  /\ preserve_flows' = preserve_flows \ {unit}
  /\ unit' = unit + 1
  /\ segment' = 1
  /\ UNCHANGED <<phase, decision, merged_flows, outgrown, written, failures,
                 tcp_stream_changed>>

DegradeAndCount ==
  /\ InPreserve /\ segment <= Segments /\ segment \in outgrown[unit]
  /\ merged_flows' = merged_flows \cup {unit}
  /\ preserve_flows' = preserve_flows \ {unit}
  /\ tcp_stream_changed' = tcp_stream_changed + 1
  /\ unit' = unit + 1
  /\ segment' = 1
  /\ UNCHANGED <<phase, decision, outgrown, written, failures>>

Degrade ==
  /\ InPreserve /\ segment <= Segments /\ segment \in outgrown[unit]
  /\ merged_flows' = merged_flows \cup {unit}
  /\ preserve_flows' = preserve_flows \ {unit}
  /\ unit' = unit + 1
  /\ segment' = 1
  /\ UNCHANGED <<phase, decision, outgrown, written, failures, tcp_stream_changed>>

EndOfSegments ==
  /\ InPreserve /\ segment > Segments
  /\ tcp_stream_changed' = tcp_stream_changed + 1
  /\ unit' = unit + 1
  /\ segment' = 1
  /\ UNCHANGED <<phase, decision, merged_flows, preserve_flows, outgrown, written,
                 failures>>

SkipInPreserve ==
  /\ phase = "preserve" /\ unit \in Flow \ preserve_flows
  /\ unit' = unit + 1
  /\ UNCHANGED <<phase, segment, decision, merged_flows, preserve_flows, outgrown,
                 written, failures, tcp_stream_changed>>

EndOfPreserve ==
  /\ phase = "preserve" /\ unit \notin Flow
  /\ phase' = "merge"
  /\ unit' = Datagrams + 1
  /\ UNCHANGED <<segment, decision, merged_flows, preserve_flows, outgrown, written,
                 failures, tcp_stream_changed>>

-----------------------------------------------------------------------------
(***************************************************************************)
(* Step 4: resegment_tcp_flows writes each of its flows.  Degraded flows   *)
(* come last in the code; the order does not matter to what is modelled.   *)
(***************************************************************************)
MergeFlow ==
  /\ phase = "merge" /\ unit \in merged_flows
  /\ written' = [written EXCEPT ![unit] = Segment]
  /\ tcp_stream_changed' = tcp_stream_changed + 1
  /\ unit' = unit + 1
  /\ UNCHANGED <<phase, segment, decision, merged_flows, preserve_flows, outgrown,
                 failures>>

SkipInMerge ==
  /\ phase = "merge" /\ unit \in Flow \ merged_flows
  /\ unit' = unit + 1
  /\ UNCHANGED <<phase, segment, decision, merged_flows, preserve_flows, outgrown,
                 written, failures, tcp_stream_changed>>

EndOfMerge ==
  /\ phase = "merge" /\ unit \notin Flow
  /\ phase' = "adjust"
  /\ UNCHANGED <<unit, segment, decision, merged_flows, preserve_flows, outgrown,
                 written, failures, tcp_stream_changed>>

\* Step 5, apply_tcp_sequence_adjustments.
AdjustNumbers ==
  /\ phase = "adjust"
  /\ phase' = "write"
  /\ UNCHANGED <<unit, segment, decision, merged_flows, preserve_flows, outgrown,
                 written, failures, tcp_stream_changed>>

\* build_output_packets and the rest of process_pcap_file.
WriteFile ==
  /\ phase = "write"
  /\ phase' = "written"
  /\ UNCHANGED <<unit, segment, decision, merged_flows, preserve_flows, outgrown,
                 written, failures, tcp_stream_changed>>

-----------------------------------------------------------------------------
(***************************************************************************)
(* An exception that reaches process_directory ends the file: one of a UDP *)
(* handler that the dispatcher does not catch, one of a flow that the pass *)
(* does not catch, or one in the later steps.                              *)
(***************************************************************************)
LoseFile ==
  /\ \/ AtDatagram /\ \E e \in Exceptions, site \in {"detect", "rewrite"} : Escapes(e, site)
     \/ AtStream /\ \E e \in Exceptions \ CaughtByPass, site \in DOMAIN Caught : Escapes(e, site)
     \/ phase \in {"preserve", "merge", "adjust", "write"}
  /\ phase' = "lost"
  /\ UNCHANGED <<unit, segment, decision, merged_flows, preserve_flows, outgrown,
                 written, failures, tcp_stream_changed>>

Next ==
  \/ KeepDatagram \/ RefuseDatagram \/ RewriteDatagram \/ EndOfDatagrams
  \/ KeepStream \/ RefuseStream \/ FailStream \/ RewriteStream \/ EndOfStreams
  \/ PreserveSegment \/ Degrade \/ EndOfSegments \/ SkipInPreserve \/ EndOfPreserve
  \/ MergeFlow \/ SkipInMerge \/ EndOfMerge
  \/ AdjustNumbers \/ WriteFile \/ LoseFile

\* The program runs on until it has written the file or given it up.
Spec == Init /\ [][Next]_vars /\ WF_vars(Next)

-----------------------------------------------------------------------------
(***************************************************************************)
(* Structure: who has been decided on, which flows are written back which  *)
(* way, and how much of them has been written.                             *)
(***************************************************************************)
Rewritten == {f \in Flow : decision[f] = "rewritten"}

DecidedInOrder ==
  /\ phase = "datagrams" => unit <= Datagrams + 1
  /\ phase \in {"streams", "preserve", "merge"} => unit > Datagrams
  /\ phase \in {"datagrams", "streams"} => \A u \in Unit : decision[u] = "open" <=> u >= unit
  /\ phase \notin {"datagrams", "streams", "lost"} => \A u \in Unit : decision[u] # "open"

RoutedOnce ==
  /\ merged_flows \cap preserve_flows = {}
  /\ merged_flows \cup preserve_flows = Rewritten

\* Segments of a flow that are written while step 3 or 4 is at some place.
WrittenSoFar(f) ==
  CASE phase = "preserve" /\ f \in preserve_flows ->
         IF f < unit THEN Segment ELSE IF f = unit THEN 1 .. segment - 1 ELSE {}
    [] phase \in {"merge", "adjust", "write", "written"} /\ f \in preserve_flows -> Segment
    [] phase = "merge" /\ f \in merged_flows /\ f < unit -> Segment
    [] phase \in {"adjust", "write", "written"} /\ f \in merged_flows -> Segment
    [] OTHER -> {}

SegmentsAreWritten ==
  /\ phase \in {"datagrams", "streams", "merge"} => segment = 1
  /\ phase = "preserve" /\ unit \notin preserve_flows => segment = 1
  /\ phase # "lost" =>
       \A f \in Flow :
         \/ written[f] = WrittenSoFar(f)
         \/ /\ f \in merged_flows   \* some were written before it was degraded
            /\ \/ phase = "preserve" /\ f < unit
               \/ phase = "merge" /\ f >= unit

StructureInv == TypeOK /\ DecidedInOrder /\ RoutedOnce /\ SegmentsAreWritten

(***************************************************************************)
(* stats: each unit whose handler failed counts as one failure, and a      *)
(* stream that is refused does not; each flow that was rewritten counts    *)
(* once by the end of step 4, also if it was degraded in between.          *)
(***************************************************************************)
Counted ==
  CASE phase = "preserve" -> {f \in preserve_flows : f < unit}
    [] phase = "merge" -> preserve_flows \cup {f \in merged_flows : f < unit}
    [] phase \in {"adjust", "write", "written"} -> Rewritten
    [] OTHER -> {}

CountersInv ==
  /\ failures = Cardinality({u \in Unit : decision[u] = "failed"})
  /\ phase # "lost" => tcp_stream_changed = Cardinality(Counted)

PipelineInv == StructureInv /\ CountersInv

-----------------------------------------------------------------------------
(***************************************************************************)
(* The mapping to what is promised: a flow is in the output as it was      *)
(* captured if none of its segments was written, and rewritten if all      *)
(* were; anything between is neither.                                      *)
(***************************************************************************)
Fate(d) ==
  CASE d \in {"unchanged", "refused", "failed"} -> "captured"
    [] d \in {"open", "rewritten"} -> d

Emitted(u) ==
  IF u \notin Flow THEN Fate(decision[u])
  ELSE IF written[u] = Segment THEN "rewritten"
  ELSE IF written[u] = {} THEN "captured"
  ELSE "torn"

Promise ==
  INSTANCE FlowRewriting WITH
    fate <- [u \in Unit |-> Fate(decision[u])],
    file <- IF phase \in {"written", "lost"} THEN phase ELSE "open",
    content <- [u \in Unit |-> IF phase = "written" THEN Emitted(u) ELSE "nothing"]

(***************************************************************************)
(* The pipeline implements FlowRewriting: an error in one flow leaves that *)
(* flow as it was captured and touches no other one, no flow is written in *)
(* part, although resegment_preserve gives up in the middle of one, and    *)
(* every file is written or given up in the end.                           *)
(***************************************************************************)
KeepsPromise == Promise!Spec
=============================================================================
