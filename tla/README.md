# A TLA+ model of pcap_rewrite

pcap_rewrite replaces one IPv4 address by another in capture files: in headers,
in the payloads of many protocols, and in everything that depends on the length
of a payload (TCP sequence numbers, ACKs, SACK blocks, IP fragments, length
fields). This directory specifies the parts of it that keep state or depend on an
order, checks them with TLC on small instances, and proves the central ones for
every instance with TLAPS.

All references `src/...` are to the source of the program.

## 1. The system

A run of the program (`src/main.py`) lists the captures below a directory and
rewrites them one after the other. One file is read into a list of packets, goes
through the passes of `src/core/pipeline.py`, and is written under a new name:

    reassemble fragments          core/fragments.py    FragmentManager.reassemble
    ARP, IPv4, ICMP, UDP          core/pipeline.py     rewrite_l2_l3_udp_pass
    TCP: generations              core/flow.py         assign_tcp_generations
         streams                  core/flow.py         build_stream_state
         handlers, one per flow   protocols/*.py       through core/dispatcher.py
         keep boundaries          core/resegment.py    resegment_preserve
         or cut anew              core/resegment.py    resegment_tcp_flows
         map SEQ, ACK and SACK    core/resegment.py    apply_tcp_sequence_adjustments
    cut into fragments again      core/fragments.py    FragmentManager.refragment
    write                         main.py

Nothing runs concurrently inside the program. What is hard is that it meets
histories it did not make: captures in any order, with repetitions, losses,
reused ports and IP ids, cut off at any place. It has to infer from them what the
endpoints knew, and its own passes change the data the later passes read.

| Component | State | Operations | What makes it correct | Module |
|---|---|---|---|---|
| Sequence numbers (`core/utils.py`) | none | `seq_add`, `seq_offset` | inverse to each other on half the ring | SeqSpace |
| Connection generations (`core/flow.py`) | per endpoint pair: generation, reset; per direction: ended, last end | one packet | a connection is neither split nor merged with another; nothing of an old one survives | TcpGenerations, TcpConversations |
| Stream reassembly (`core/flow.py`) | base, buffer, segments | one payload | the stream does not depend on capture order; primaries cover it | StreamReassembly |
| Edit lists (`core/utils.py`) | none | `compute_edits`, `map_offset` | kept bytes are found where the map says; order is kept | EditMap, MapOffsetLoop |
| Re-segmentation (`core/resegment.py`, `core/pipeline.py`) | packets and a plan: new SEQs, deletions, overridden ACKs, insertions | preserve, degrade, fill, clone, remap, adjust, build the output | what is sent is the new stream, once and completely; ACKs follow data | Resegment |
| Fragments (`core/fragments.py`) | groups, blocked keys, completed fragments, records; slots | reassemble, rewrite, refragment | no datagram is made up, none is lost, rewritten packets can be put together | Fragments |
| PostgreSQL (`protocols/postgresql.py`) | queue of result formats, shared by both directions | one message | text and only text is rewritten; nothing is missed silently | PostgreSQL |
| HTTP/1.x, WebSocket (`protocols/http1.py`, `websocket.py`) | methods, upgrade, compression, shared by both directions | one message, one sequence of frames | messages are framed, lengths are true, nothing is missed silently | HttpConnection |
| Text replacement (`core/utils.py`) | none | find, replace | replace and find agree; nothing remains | IpText |
| Batch (`main.py`) | files, writer | one file | outputs are not taken for captures, and are not lost; a failure stops nothing | Batch |
| Pipeline of one file (`core/pipeline.py`) | per flow: decision, route, segments written; counters | one datagram, one flow, one segment | a failing flow is left as it was, and no other; flows are written as a whole and counted once | Pipeline, FlowRewriting |
| Dispatcher (`core/dispatcher.py`) | none | detect, rewrite | one handler owns a stream, and what it accepts is right | Dispatcher, Payload, StreamHandler |
| MySQL, Redis, TLS SNI, MongoDB | loop over messages | one message | every length follows the text, at any depth; all or nothing | MySQL, Redis, TlsSni, MongoDB |
| SOCKS5 (`protocols/socks5.py`) | buffer, position | one handshake message, the tunnel | as above; the inner protocol goes to its own handler | Socks5 |
| FTP, SMTP, Telnet; handlers that refuse | none | one stream | replace or refuse | Dispatcher |
| DNS, DHCP, ARP, IPv4, ICMP, QUIC, DTLS | none | one packet | replacement (IpText) | not modelled |
| Command line, statistics, logging | counters | - | two counters: Pipeline | else not modelled |

The components meet in data structures, not in calls back and forth: the packet
list is rewritten in place by every pass; a `TcpStreamState` goes from
reassembly to the handler and on to re-segmentation; a `tcp_state` dictionary is
shared by the handlers of the two directions of a connection; the fragment
records of the first pass are used by the last.

`PROJECT.json` lists the hazards of this code line by line, with the property that
covers each one, or why none does.

## 2. The modules

### SeqSpace
The ring of sequence numbers. `SeqHalf` stands for `TCP_SEQ_HALF` (2^31): TLC walks
rings of 16 or 32 numbers, the theorems hold for every even ring. Numbers are
always taken modulo `TcpSeqMod`, as in the code.

### TcpGenerations, TcpConversations
`TcpGenerations` is the loop of `assign_tcp_generations`. One step is one packet;
the variables have the names of the code's dictionaries and sets (`generations`,
`reset_pairs`, `ended_directions`, `last_seq_end_by_direction`). `Round` has one
disjunct for each reason to open a generation (SYN without ACK, data after a FIN or
RST that is no retransmission, a jump of the sequence number) and one for staying.
The packets are arbitrary.

`TcpConversations` composes it with endpoints: connections that begin with or
without a captured SYN, send, repeat, close and reset. The endpoints' variables are
the truth which the capture hides; every packet they send is one `Round`. Its
header lists what is assumed of a capture; these are the limits of a heuristic that
looks at sequence numbers only, and under them the theorems of section 4 hold.
`newest_end` and `unannounced` exist for these assumptions: a connection whose SYN was not
captured has to be told from the newest data of the *pair*, which two connections without
data may lie behind, and it has to show data before it shows a FIN. With two connections
a pair neither matters; a third one makes them necessary (section 4).

### StreamReassembly
`build_stream_state`. The search for the base takes one step per payload in capture
order, the sorted loop one step per payload, its inner loop included. A byte that is
not filled is `Hole`, which is no byte, so a model of a hole cannot be confused
with data, as the code's zero byte could be.

### EditMap, MapOffsetLoop, EditLists
`EditMap` has the edit list as difflib makes it (`IsEditList`: ordered, separated by
kept bytes, with the lengths of both streams), the closed form of `map_offset` and
the two streams as sequences of byte names: `<<"old", p>>` is the byte at offset `p`
of the old stream. `MapOffsetLoop` is the loop of `map_offset`, round by round; it
is what ties the closed form to the code. The new stream is defined from the edits'
new coordinates, which `map_offset` never reads, so `KeptBytesAreFound` relates two
independent definitions. `EditLists` enumerates edit lists for TLC.

### Resegment
Steps 3 to 5 of `rewrite_tcp_pass` and `build_output_packets` for the two directions of
one connection. `phase` is the place in the code: `preserve` (`resegment_preserve`),
`fill` (`resegment_tcp_flow`), `remap` (`remap_retransmissions`), `adjusted`
(`apply_tcp_sequence_adjustments`), `done`. The plan (`packet_new_seq`,
`deleted_indices`, `ack_overrides`, `insert_after`) has the fields of `TcpRewritePlan` and
`TcpStreamState`. One step writes, deletes or clones one segment, and in the end one packet
goes to the output; `todo` is the set of packets a loop still has to visit, in the order of
the stream (`IsNextInStream`) or of the capture (`IsNextInCapture`). What the flows look
like before is an input (`IsInput`) in the terms of StreamReassembly and EditMap. `IsOrdinary`
says of which inputs the results of section 4 hold; every input of the run is one.
Payloads are sequences of byte names, so "the right byte at the right SEQ" can be
stated without looking at values.

### Fragments
`reassemble`, what the passes do to the packets in between (`Rewrite`: any length,
deletion and clones, as Resegment plans them), and `refragment`. Groups, blocked keys,
completed fragments and records are the manager's dictionaries. A cell of payload
remembers the datagram it comes from, and the first cell the length its transport
header declares.

### PostgreSQL
A client and a server talk (external: what the protocol allows, bounded); then the
handler rewrites the two captured streams as wholes, in the order of their first packets,
message by message. `queue` and `current` are `PG_RESULT_FORMAT_QUEUE` and
`PG_CURRENT_RESULT_FORMATS`. A row remembers which formats it was sent in; the handler
does not look at that.

### HttpConnection
The same shape: two streams of cells (heads, bodies, chunks, frames), rewritten one after
the other by `rewrite_http1_stream_safe` and `rewrite_websocket_frames`, with the state both
share (`methods`, `pending`, `established`, `deflate`). A cell has a size, which changes when
an address is replaced, and a declared length, which has to follow.
What the two sides may have sent is an assumption on the constant `Conversations` (`IsConversation`): messages
as HTTP/1.x frames them (`IsComplete`), answers in the order of the requests, `HEAD` answered without a body, frames
behind a switch of protocols and nowhere else, masked by the client and by nobody else, and a message that the capture
cuts (`IsCut`) only at the end. It is the independent definition that the handler's framing is compared with.

### IpText
`is_ip_text_match`, `contains_ip_text_boundary` and the loop of
`replace_ip_text_boundary` over texts of character classes.

### FlowRewriting, Pipeline
`FlowRewriting` is the promise: each unit (a UDP datagram, or one direction of a TCP
connection) is decided on once and as a whole, and the output holds every unit as it was
decided on, or there is no output. It knows nothing of steps, routes or exceptions.

`Pipeline` is `rewrite_udp_packet` for each datagram, the five steps of `rewrite_tcp_pass`
and the end of `process_pcap_file`. A handler may do anything: change its payload or not,
refuse, or raise one of six kinds of exceptions, which the model follows through the
except clauses of the dispatcher, of `rewrite_tcp_pass` and of `process_directory`
(`Caught`, `CaughtByPass`). `merged_flows` and `preserve_flows` are the dictionaries of the
code, `segment` is the loop of `resegment_preserve`, which may give up in the middle of a
flow, and `failures` and `tcp_stream_changed` are counters of `stats`. `Fate` and `Emitted`
map its state to the promise; a flow of which only some segments are written is `"torn"`,
which the promise does not know.

### Payload, StreamHandler, Dispatcher
`Payload` says what a handler sees: tokens for fields, lengths counted in tokens, a new
address that is longer than the old one. `StreamHandler` is the state of one call of
`rewrite` and what all of its loops share. `Dispatcher` asks the handlers of
`TCP_DISPATCHER` one by one (`Own`, `AskNext`), gives the stream to the first that detects it,
and has the handlers that do not parse. `MySQL`, `Redis`, `Socks5`, `TlsSni` and `MongoDB`
are the ones that do: one step is one round of the loop over messages, and what is nested in
a message is read by operators that give the set of its readings, which is empty where the
code raises `RewriteError`. A tunnel starts the dispatcher anew with the rest of the stream
(`prefix` keeps what is in front of it). Types of BSON elements that are laid out alike are one.

### Batch
`process_directory` over several invocations. Paths are directories, stems and suffixes,
since `output_path_for` and `iter_pcap_files` look at these. Files fail anywhere,
invocations are killed anywhere, and the clock of seconds that names the outputs may
stand still or advance.

## 3. The runs

There are twelve runs, ten that pass and two that show a disagreement with what the code says of
itself. Every bound is a CONSTANT in the `.cfg` or a named set in the MC module.

| Run | Question | Bounds |
|---|---|---|
| `MCTcpConversations` | Are connections kept whole and apart? Is the loop's memory ever stale? | one pair, 3 connections, 4 captured packets, 2 bytes a direction, ring of 16; starts that wrap, that are shared by consecutive connections, and that are far apart |
| `MCTcpConversationsRepeats` (violation) | The same, if any segment may be repeated | the same, 2 connections and 5 packets |
| `MCStreamReassembly` | Is the stream independent of capture order? | up to 3 payloads out of 19 (all pieces up to 3 bytes of a 4-byte stream that wraps, right or corrupted, and one beyond half the ring) |
| `MCUtils` | Does the loop of `map_offset` compute the map? Do finding and replacing agree? | streams up to 5 bytes, up to 2 edits, replacements up to 3 bytes, every offset up to one past the end; all texts up to 8 characters, both boundary rules |
| `MCResegment` | Is a stream sent completely, once, and acknowledged, merged or in its own packets? What if it is degraded while the other one is merged? | merged: streams of 4 and 1 bytes, up to 4 packets of any kind in any order, or up to 5 in a regular order, packets of 2 or 3 bytes, replacements up to 3; kept: up to 4 packets with FIN, SACK and answers; all 20 interleavings of 3 packets a side with two changes in one stream and one in the other |
| `MCFragments` | Are datagrams put together and cut again? | up to 6 fragments out of pools of two datagrams, with repeats and losses; five lengths or numbers of clones per protocol |
| `MCPostgreSQL` | Is text, and only text, rewritten? | 4 client messages of 10 kinds, rows with and without the address in 2 columns, errors, both capture orders |
| `MCHttpConnection` | Are messages framed, lengths true, addresses gone? | 3 exchanges of 8 kinds or an upgrade behind 2, up to 2 cells cut off at the end |
| `MCHttpConnectionDeclined` (violation) | The same, if the server declines the compression the client offers | 2 exchanges |
| `MCPipeline` | Does the pipeline keep the promise, whatever its handlers do? | 2 datagrams, 3 flows of 2 segments |
| `MCDispatcher` | Does the right handler own a stream, and is what it accepts right? | about 11,200 streams of up to 3 messages, documents nested up to and beyond 2 levels, every handshake in front of every inner protocol, domains up to 3 tokens, and the streams cut at every place |
| `MCBatch` | Are outputs safe, and does a failure stop the rest? | 3 captures of one stem, 2 invocations, 2 seconds |

Why the bounds are enough to be interesting: every action and every branch of every action is
taken in a passing run, and for each property `PROJECT.json` names a small, plausible
change of the code's definition that makes TLC report exactly this property within the same
bounds. The rings are small, but every comparison with a half or a quarter of the ring is
met with equality, one more and one less.

All runs say `CHECK_DEADLOCK FALSE`: a program that has written its file stops.

### What the properties say

Each module has one invariant that holds in every state and joins the type invariant with what no
intermediate state may break (`IInv`, `ReassemblyInv`, `PlanInv`, `FragmentInv`, `PostgreSQLInv`, `HttpInv`,
`BatchInv`, `PipelineInv`, `HandlerInv`); the other properties speak of results.

*Generations.* `ConnectionsAreWhole` and `ConnectionsAreApart`: data packets have the same
generation exactly when they belong to the same connection. `IInv`: what the loop remembers of a
pair is what the packets of the current generation imply, and nothing else (`NoStaleState`), and
generations run forward.
`OnlyRetransmissionsAfterReset`: a data packet behind a RST of its own generation starts
before the end of something that was sent in that generation.

*Reassembly.* `BaseIsEarliest`, `FirstPayloadWins`, `PrimariesCoverStream`,
`ConflictsAreSeen` and, in `ReassemblyInv`, `EachByteCountsOnce`: the result is a function of the
set of payloads, stated without the loop. `EachByteCountsOnce` counts the contributions of
all segments as a set of pairs, and holds while the loop runs, not only behind it.

*Re-segmentation.* `NewStreamsAreEmitted`: the output carries the new stream and nothing else
(`EmittedBytesAreNewStream`, a receiver never meets a conflict, and `EveryNewByteIsEmitted`, nothing
is lost), with retransmissions, clones, degraded flows and two rewritten directions.
`FinClosesStream` and `AcksAreRight` (made of `AcksFollowData`,
`AcknowledgementsReachEnd`, `FinIsAcknowledged` and `SackIsMapped`): the output is a conversation two
TCP endpoints could have had. For merged streams that is true of regular captures only
(section 5). `PlanInv`: the plan is well formed, and nothing is planned behind a packet that is
deleted, where `build_output_packets` would not look (`InsertAnchorsStay`).

*Fragments.* `FragmentInv` (the records fit together, and `DatagramsAreWhole`), `CompleteDatagramsAreReassembled`, `DropsAreRepeats`,
`NoOldFragments` for the way in; `RewrittenPacketsAreReadable`, `ClonesFollowInOrder`,
`EqualLengthsKeepShape` for the way out.

*Handlers.* `PostgreSQLInv` (with `OnlyTextIsRewritten`), `TextRowsAreRewritten`, `HttpInv` (with
`MessagesAreFramed`), `LengthsStayTrue`, `SupportedFlowsAreRewritten`, and for both protocols
`NothingIsMissedSilently`: a stream that is written has no old address left that the protocol
shows; what cannot be rewritten is reported.

*Text.* `ReplacesTheMatches`: the loop replaces exactly the occurrences a declarative definition
names. `FindingAgreesWithReplacing`: what is found is changed, and a text without a match is not.

*Pipeline.* `KeepsPromise` is the refinement, with liveness: every file is written or given up.
`PipelineInv`: who is decided on, which way a flow is written, how much of it has been, and that
the counters count each failing unit and each rewritten flow once, a degraded one included.

*Streams.* `AcceptedStreamsAreRight` compares the output with the stream a peer with the new
address would have sent, which the MC module encodes independently of the handlers. Each stream has
one of three promises. A whole stream of a supported kind is `rewritten`. Of some parts the documents contradict
each other (a MySQL packet that is no query, an IPv6 address in SOCKS5, cut packets of both): such a part
is `kept` as it is while the rest is rewritten, or the stream is refused. Any other stream, cut or
malformed as it may be, is `clean` of the address as text if it is accepted (but for TLS, section 5). Packed addresses
in the last kind are not looked for: protocols of text, and those that only refuse, search for text.
`HandlerInv` has what
`rewrite_tcp_stream` relies on, and `EveryStreamIsDecided` that no length in a capture makes a loop
stand still.

*Batch.* `BatchInv` (with `OutputsAreMadeFromCaptures`), `OutputsAreOnlyLostToTwins`, and
`FailuresStopNoBatch`: every file that is listed has its turn.

### Fairness
`Batch` assumes `WF_vars(Step)`, the program's own steps, and `Pipeline` and `Dispatcher` assume
`WF_vars(Next)`, since all of their steps are the program's. The program is one thread without
waiting, so as long as it is not killed it goes on. In `Batch`, `Kill`, `Tick` and `Invoke`,
which belong to the world, have no fairness, and a killed invocation never has to be
started again. The other modules state safety only: their loops run over finite lists, and
every step consumes an element.

## 4. The proofs

The theorems are in the modules `*_proofs`. They hold for every value of the constants that
satisfies the named assumptions: any even ring, any endpoints and packets, any number of
payloads, edit lists of any length, any fragments of any datagrams, any number of flows and segments,
any captures and invocations, texts, sessions and conversations of any length.

**Coordinates_proofs.** `OffsetOfAdd` and `AddOfOffset`: `seq_offset` and `seq_add` undo each other.
The lemmas `SeqSubLinear` and `SeqAddLinear` remove the remainder from the arithmetic (both
arguments are on the ring, so one case distinction replaces it); everything else about
sequence numbers cites them. The lemmas about edit lists, `map_offset`, the two streams and `FlattenSeq` are
here too.

**TcpConversations_proofs, generations.** `Invariance`, and from it `TypeCorrect`, `StateIsNeverStale`, `GenerationsNeverReturn` and
`NoFreshDataAfterReset`. The inductive invariant is
`IInv == TypeOK /\ NoFutureGeneration /\ NoStaleState /\ GenerationsInOrder`. `NoStaleState` alone
is not inductive: it speaks of the packets of the *current* generation, and when the generation
advances, an older packet with the new number would become current. `NoFutureGeneration`, no
packet has a generation its pair has not reached, excludes that. `NoFreshDataAfterReset`
follows step by step: a packet that stays in a generation that was reset did not count as data
after the end, so its gap is that of a retransmission, and `SeqEndsAreCurrent` names the packet
of the same generation it repeats.

**TcpConversations_proofs, connections.** `NoConnectionIsSplit` and `NoConnectionsAreMerged`, from `ConversationInvariance`: the
loop recovers the connections that real endpoints have, for any number of pairs, of connections of a pair and of
packets, any window below `ReuseGap` and any ring. The hypothesis `RepeatAny = FALSE` is the
assumption of the passing run; without it the statement is false (section 5). The inductive invariant `ConvInv`
says of each pair that the loop has either *recovered* its present connection (its flags, ends and generation
are the truth: `FlagsMatch`, `EndsMatch`, `PacketsMatch`) or *waits* for data of one that joined without a SYN,
and that this data, whichever side sends it first, opens a generation (`MustAdvance`). Each action of an endpoint is a
lemma; `SendStep` is the one that leaves the waiting state. The first attempt at this proof failed for
a good reason: `Waits` was not preserved when a third connection followed one that had sent nothing on one
side, and TLC, given three connections, showed two of them merged. The capture was assumed to tell too
little, and `newest_end` and `unannounced` now say what it has to tell.

**Reassembly_proofs, streams.** `BaseFound`: if all numbers lie in half a ring, seen from some anchor,
the search ends at the one nearest to the anchor; `HalfRingOrder` makes the code's comparison
an order there, and the invariant `BaseInv` says that the base so far is the least of the payloads
looked at. `FirstWriterDecides` and `PrimariesSuffice` rest on `FillInv`: the byte at a
position is that of the first written payload that covers it, the written payloads are all before the
pending ones in the sorting order, and a position is filled if and only if a written primary
covers it. `CountsAreExact` and `CounterIsReliable` rest on `CountInv`, which adds finiteness and the counters: a payload
contributes as many pairs as it fills positions (`CountWrite`, by the disjoint union of what was filled
and what is fresh), and the counter of conflicts grows if and only if the payload disagrees with a
byte that is already there (`ConflictMeansDisagreement`).

**Reassembly_proofs, fragments.** `FragmentsTypeCorrect` holds of every capture; of the way in, three theorems say what
`reassemble` promises, each under what a receiver relies on as well, since IP ids come around:

* `PacketsAreDatagrams`, if keys are free (`KeysAreFree`): when a fragment is visited, nothing of another datagram waits under its key.
  A group that passes `completion_error` tiles the datagram from its first byte to its last (`TilesCover`). What
  `_assemble` lays there, the recursive `laid` of the model, agrees with the datagram wherever a
  fragment was laid (`LaidIsRight`, by a least counterexample, since a fragment may start behind the end and lengthen
  the bytes), so the two are equal (`WholeDatagram`);
* `DroppedFragmentsAreRepeats`, if equal fragments with equal keys are of one datagram (`TellsApart`). `CompletedInv` leads
  from each entry of `_completed_fragments` to a captured fragment that has a slot;
* `NoOldFragmentsAreWritten`, if keys are free, a datagram is cut in one way (`OneCut`), and a key is used for another
  datagram only behind the last fragment of the one before (`KeysChangeHands`). A fragment in the file would
  have been visited before its datagram was complete, or after. The first kind is in the group, or its key or its
  datagram is given up (`LeftInv`); the second is known by its place and bytes until its key changes hands (`KnownInv`).
  Neither is left as it was captured (`NothingLeftInv`), and only what is left so, or is new, is written (`OutputInv`).

For the way out, `ClonesKeepTheirOrder` holds of every capture and every rewriting. `TodoInv`: `output_packets` has the pieces of a
packet in the order re-segmentation chose, and its slots with growing ordinals, because a group is in capture order
(`SlotOrderInv`). `SendInv` says that four things follow each other, packet by packet: what is written, the fragments that
wait for slots, what is deferred, and the pieces still to be visited. The first two are only compared while a slot is left;
the last slot is known by its ordinal, and none of the packet comes behind it.

`DistinctKeysSuffice` joins the first three for captures that use no IP id twice. The inductive invariants are `GroupingInv` (what is not
visited is as captured, groups hold captured fragments of their key, every other packet is accounted for by
a record) and `OutputInv`; the captures of `MCFragments` satisfy the premises. The order of the fragments, repeats
and losses are free in all of these theorems, and overlaps wherever `OneCut` is not asked for.

**Utils_proofs, offsets.** `LoopIsMapOffset`: the accumulated `delta` is the difference of the two
coordinates behind the last passed edit; `Passed`, a CHOOSE, is unique by the order of the edits.
`KeptBytesStay`: the edits passed by an offset and the replacements completed before its image
are the same ones. `OrderStays`: `map_offset` is monotonic and takes the end to the end.

**Resegment_proofs.** `PlanIsWellFormed` holds of every input: its invariant `BaseInv` has the type
invariant, and that packets keep their direction, that a flow waits in one queue and once, and that
the loops visit segments of the flow at work only. `PlanHolds` and `OutputCarriesNewStreams` hold of
*ordinary* flows, for any number of packets, bytes and edits and any capacities. `IsOrdinary` asks for
a new stream not longer than half the ring, for an old one captured without a gap and, of a flow that is to
keep its packets, for what section 5 shows the code to need: no retransmissions, nothing inserted in front of
the first byte, and no packet emptied before one that outgrows its capacity. Order, repetition and overlap of the
packets of a merged flow are free. The inductive invariant `OrdinaryInv` says

* of a flow that has not had its turn: its segments are as captured, or a degraded attempt has left some
  that carry the new stream already; none is deleted, and nothing is inserted (`FreshInv`, `MergeOK`);
* of the flow at work: every byte of the new stream below `cursor` is held by a primary that was filled or by a
  clone (`FillInv`), and once `cursor` is at the end, every byte is, whatever becomes of the
  retransmissions (`RemapInv`); of a flow that keeps its packets, that what is behind has its new payload (`KeptInv`);
* of a flow that is done (`SettledOK`): each segment that stays was rewritten or needs no change, and every byte is held;
* of the packets behind step 5 (`AdjustedOK`): each carries what the new stream has at its SEQ.

What makes it more than bookkeeping is that each part has to survive the work on the *other* flow:
`OthersStay` shows that a step touches only packets of its own flow and packets without payload, which
is why no packet may be emptied and then taken for an ACK. `PiecesCarry`, `SegmentsCover` and `NewPayloadHits` tie pieces,
old segments and `map_offset` together: neighbouring segments map to neighbouring parts of the new
stream, so the images of the primaries leave no gap.

`FinsCloseTheirStreams` is about ordinary flows whose FINs come last (`FinsComeLast`): a FIN was captured behind the last
byte of its stream, on a packet of its own, any number of times, or on the last segment that had new
bytes, and the stream was not emptied. A flow whose segments are all deleted does lose its FIN; the handlers
leave no stream empty. The invariant `FlagsInv` follows the places of a FIN, a packet or one inserted
behind it. Until a flow is closed, its segments have the flags they came with
(`FlagsWait`); while it is filled, what was written last ends at `cursor` (`FlagsFillInv`), so that the
place `CloseFlow` moves the FIN to is the end of the stream, whether it is a filled packet (`FinOnFilled`) or an inserted one
(`FinOnInserted`); from then on there is one place, at the end (`OneFin`, `FinsAtEnd`), which retransmissions neither
take nor double, since none has the flag (`RetransmissionsHaveNoFin`). `WrittenFins` counts from there: the FINs of the
output are as many as the packets behind `todo` that bear one.

**Processing_proofs, one file.** `StructureIsKept`: `StructureInv` is inductive. `SegmentsAreWritten` carries it: which
segments of a flow are written is a function of the place in the loops, but for a flow that was degraded,
of which any may be written until step 4 has reached it. `PipelineIsSound` adds the counters, with
cardinalities of sets that grow by one element a step (`Counted`). `PipelineImplementsPromise`: the
initial state maps to the initial state of `FlowRewriting`, the steps that decide on a unit to `Decide`,
`WriteFile` to `Write` (by `SegmentsAreWritten` nothing is torn then), `LoseFile` to `Lose`, and
all others to a stutter. TLC checks the same with liveness.

**Processing_proofs, the batch.** `OutputsAreNoCaptures` and `OutputsAreSafe`, under the hypothesis that all invocations have the
same output directory (`OneOutputDir`), for any finite set of captures. Neither property is inductive, since they
do not say how a file got its name. `IInv` does (`FilesArePresent`): a file is a capture or is named after
one (`Outputs`); what has such a name lies below the output directory and is not listed (`OutputsAreBelow`,
`InvokeLists`), and two captures that share such a name are twins (`NamesTellTwins`, by the cancellation of
sequences). `LastOutputsAreKept` and `LeftoversAreKnown` follow the incomplete file through failures and kills.

**Utils_proofs, text.** `FindingAgrees`: for any two different addresses (the code does not refuse equal ones;
then nothing changes and the old address remains) and any text. An address is taken to consist of digits
and separators, with a digit at both ends and no two separators in a row (`IsAddress`), which
`validate_ipv4` ensures. The first half rests on `NoMatchInside`: the loop goes on behind an occurrence that
is no match, and skips no match by that. The second half is the invariant `NothingRemainsInv`:
in `Whole`, the output so far with the rest of the payload, no match begins within the output.
`ReplacedHasNoMatch` is the step that matters: an occurrence of the old address that touches the new one has
a character of an address before or behind it, or is the new address; one that does not was there before.
`MatchesAreReplaced` needs no difference of the addresses. Its invariant `PlacesInv` says that the output is
the definition applied to what is behind `pos`, and that `pos` is not inside of a match. The definition flattens one
piece per place; `Flattened` takes it apart at its last piece, with the existence of the recursive function
by a least counterexample (`FlatteningExists`). `CopiedPart` and `SkippedPart` are the two kinds of places
a step passes: `NoMatchBefore` the found occurrence, and those an address covers.

**PostgreSQL_proofs.** `TypeCorrect` and `NothingIsMissed` hold of any session, with any number of messages
and rows. The first (`ShapeInv`) has what `current_result_formats` relies on: the formats in use are the head
of the queue. The second (`MissedInv`) says that what is behind `pos` was replaced where it had the address,
or the stream is rejected. `OnlyTextColumns` and `TextRowsAreKept` are about *plain* sessions. `IsPlain` asks
for what the run has too, and section 5 says why: what is bound is executed once and at once, no Bind asks for
text by an empty list, nothing is closed or suspended. Both need to know that the head of the queue belongs to the row at
work, although queue and row come from different streams. The inductive invariant `PlainInv` has three parts:

* `Conversation(of)`, built while the two sides talk: the function `of`, of which the invariant says that
  there is one, names the client's message that each message of the server answers. It is
  monotonic, a row has the formats its `Opener` chose, nothing but a ReadyForQuery follows the end of
  a result, and before the first ReadyForQuery every earlier message has had its result;
* `Lists(lo, hi)`: the queue is what the Binds and queries among the client's messages `lo` to `hi` chose, in their
  order. `hi` is where the client's stream was left, and `lo` is behind the last result that has ended (`EndedBelow`);
* `ServerAtWork` and `ClientAtWork`: which of the two holds at the place of the work. Behind a ReadyForQuery, or if the
  server's packets are captured first, the queue is empty, and a row with the address is refused.

`OpenerIsFirst` joins them: of a row that is at work, everything that opens a result in front of its opener lies before
`lo`, so `HeadIsFirst` finds its formats at the head.

**HttpConnection_proofs.** `KnownMessagesAreFramed`, `KnownAddressesAreReplaced` and `KnownFlowsAreRewritten`, for any
conversation, of any length. Two conditions are stated in the theorems. The client's side is captured first, and every request
is known (`RequestsAreKnown`: captured whole, in a coding that can be decoded), because behind a request that
is replaced without being parsed the queue of methods is out of step; the run checks cut requests too, which only end a
stream. And for the last two, where compression was offered nobody shows the address in a data frame without it
(`OffersAreAccepted`): the handler passes such frames unread (section 5), which is why `MCHttpConnectionDeclined` fails. None
of the properties is inductive. `IInv` adds what ties the shared state to the streams:

* `QueueInv`: the methods in the queue are those of the requests that were read (`Asked`) and not answered yet,
  counted by cardinalities (`NumberOf`, `Answered`). So `MustNotHaveBody`, which looks at the head of the queue, agrees
  with `HasNoBody`, which looks for the request of that number in the other stream (`QueueAgrees`);
* `BoundaryInv`: the place of the work is the beginning of a message or of a frame. It holds again behind a message
  because a body that is found has the length that was sent, and a body that was cut is an error (`Framing`);
* `FlagsInv`: the handler reads frames exactly where there are frames (`OnlyFrames`): behind a switch in the server's stream,
  which it has read by then, and behind the request for one in the client's, where it has to go by `pending`;
* `OutputInv`: what has an address still is a frame that was in the stream, a control frame or a compressed one.

`MessageTaken`, `HeadInFront` and `RestStep` are shared by the actions; the longest part is `QueueInv` over one answer
(`MessageKeepsQueueOfServer`), where the queue and the count of answers both move, or neither, for an interim answer.

Model-checked only: `LengthsStayTrue` of HttpConnection, which adds up sizes by a fold (induction over data); `AcksAreRight` of Resegment, which holds of regular captures only
(section 5); of Fragments, that nothing is lost (`CompleteDatagramsAreReassembled`: lengths added up over a
set) and what a receiver makes of the output (`RewrittenPacketsAreReadable`, `EqualLengthsKeepShape`: subsequences by `SelectSeq`, sums); the
other handlers and Dispatcher; and liveness, which is out of the
prover's reach, as are ENABLED and induction over data.

## 5. Known deviations

Where the code disagrees with its own comments or documentation, the passing runs leave out what leads
there, and say so. Two of the disagreements are runs of their own:

* **A repeated segment behind a FIN splits a connection** (`MCTcpConversationsRepeats`,
  `src/core/flow.py:99`). The last end of a direction is set by retransmissions too and moves
  backwards; the second of two repeated segments then looks like fresh data. The passing run has
  `RepeatAny = FALSE`.
* **A declined permessage-deflate hides text frames** (`MCHttpConnectionDeclined`,
  `src/protocols/http1.py:469`). The client's offer sets the flag, and an answer without the extension
  does not reset it: masked text frames are passed on with the old address, without an error. The
  passing run has handshakes that agree.

The others were found in the same way, by widening one assumption of a passing run:

| Where | What happens | Kept out by |
|---|---|---|
| `src/core/resegment.py:237` | An ACK in the window behind a packet gets the end of that packet, also if earlier bytes are captured later (the docs: an ACK acknowledges data received, `src/README.md:394`) | `InOrder` |
| `src/core/resegment.py:237` | The ACK of a FIN is overridden with the end of the data, and nobody acknowledges the FIN | `AckKinds` has no FIN |
| `src/core/resegment.py:296` | When a packet is deleted, a delayed ACK that covers it and all before it goes too | `IsPrompt` |
| `src/core/resegment.py:462` | An ACK that is overridden keeps its SACK blocks in old coordinates (`src/README.md:396`) | SACK only where packets are kept |
| `src/core/resegment.py:468` | A data packet of the other side acknowledges bytes that have moved to a later packet | `AckKinds` has pure ACKs |
| `src/core/resegment.py:316` | Bytes inserted in front of a stream belong to no packet if boundaries are preserved | `InsertsAtStart`, `IsOrdinary` |
| `src/core/resegment.py:506` | Retransmissions of a stream that keeps its packets keep the old bytes (`src/README.md:400`) | `NoRepeats`, `IsOrdinary` |
| `src/core/resegment.py:396` | A retransmission with FIN that is cut into pieces loses the FIN | `FinsAgree`, one FIN |
| `src/core/resegment.py:328` | A flow is degraded after one of its packets was emptied: the packet is taken for a pure ACK of the other direction, which may delete it | `TwoChanges`, `IsOrdinary` |
| `src/core/fragments.py:161` | After a restarted group the key is blocked, so later datagrams of this IP id are not rewritten | `TidyCaptures` |
| `src/core/fragments.py:153` | A fragment of a later datagram with the same id, offset and bytes is dropped as a repeat | the datagrams differ |
| `src/core/fragments.py:256` | ACKs cloned to stand between clones of a fragmented packet are written before all of them | `ClonesFollowInOrder` is about data |
| `src/protocols/postgresql.py:116` | Behind a simple query, rows of a pipelined Bind are taken for text | no Bind that asks for text only by an empty list, `OnceEach` |
| `src/protocols/postgresql.py:300` | A suspended portal does not end its result; a client's Close ends one | `Answers`, `SessionKinds` |
| `src/protocols/postgresql.py:304` | The ReadyForQuery of the login clears the formats of all queries: text rows of a session captured from its start are refused | `IsPipeline` |
| `src/protocols/postgresql.py:297` | A client's Describe is parsed as a row, and the client's stream is refused | `IsPipeline` |
| `src/protocols/http1.py:739` | Behind a body that cannot be decoded, later messages are replaced without their lengths | `EndsTalk` |
| `src/protocols/http1.py:753` | An unmasked control frame with the address keeps its whole stream from being rewritten | `SupportedFlowsAreRewritten` says so |
| `src/core/pipeline.py:173` | If the server's direction is captured first, no request method is known for its answers | `FirstFlows` |
| `src/protocols/socks5.py:115` | A greeting that offers method 0 before 1, 3 or 4 (`05 02 00 01`) is read as a request and takes the bytes behind it with it; the address in there stays (the docstring at line 35: a greeting is skipped) | `Greetings` |
| `src/protocols/socks5.py:48` | The username/password exchange begins with 1, so everything behind it is a tunnel, and a domain is replaced without its length | of no such handshake it is promised that it is `rewritten` |
| `src/protocols/socks5.py:56` | What the tunnel says about segment boundaries overwrites that the handshake has changed its length (the comment at line 65) | `HandlerInv` asks for handshakes alone |
| `src/protocols/mysql.py:108` | A row whose first column has three bytes is taken for a query, and its inner lengths stay | no rows in the run |
| `src/protocols/mysql.py:125` | A packet with the address that is no query or not whole refuses the whole stream, as the docstring at line 11 and `src/协议IP替换汇总.md:16` say; the docstring at lines 68 and 69 and `src/README.md:249` say it is kept and the rest rewritten | what is promised of such streams, `kept`, is either of the two |
| `src/protocols/socks5.py:178` | An IPv6 address, or a message that is cut, with the address refuses the whole stream, as the docstring at line 9 and `src/README.md:270` say; lines 39, 171 and 204 say it is skipped | `kept`, as before |
| `src/protocols/socks5.py:119` | A request with an unknown type of address is read as a greeting and a tunnel, and the address in it is replaced; line 9 says refused, line 40 skipped | no such request in the run |
| `src/protocols/mongodb.py:158` | Packed addresses are replaced in binary data of any subtype; `src/README.md:237` says of subtype 0, the docstring at line 7 that such data is refused | binary data of subtype 0 in the run |
| `src/protocols/postgresql.py:291` | Rows, Parse, Bind and the startup message are rewritten, as the docstring at line 5 says; `src/README.md:256` names Query only, and `src/协议IP替换汇总.md:17` has any other message with the address refused | `TextRowsAreRewritten` follows the docstring |
| `src/protocols/tls_sni.py:60` | An address outside of a server name passes silently in other records, messages and extensions; the docstring at line 5 and `src/README.md:220` say refused | `owner = "tls"` |
| `src/protocols/tls_sni.py:29` | A stream that is cut inside of its first record is not recognised, and replaced without its lengths | of such streams `clean` is promised only |
| `src/protocols/known_text.py:3` | Of the banners it names, POP3 and IMAP ones begin as RESP does and go to Redis, FTP and SMTP ones to their own handlers; only SSH is refused here | `Banner` is SSH's |
| `src/protocols/redis_resp.py:35` | A RESP integer is not searched for the address | integers are numbers |
| `src/core/resegment.py:514` | `stats.tcp_packets_changed` does not count the packets of flows that keep their boundaries | this counter is left out |
| `src/core/pipeline.py:122` | An upgraded WebSocket stream is merged as HTTP; `src/README.md:431` says its boundaries are kept | boundaries are a free choice in Pipeline |

Two more follow from the documented behaviour: an output directory other than the one used before makes
the earlier outputs captures (`src/README.md:427`), and `x.pcap` and `x.pcapng` of one directory overwrite
each other's output in the same second (`OutputsAreOnlyLostToTwins` calls them twins).

## 6. What is not modelled

* Values: header fields, checksums, time stamps, IP ids of clones, codings, SQL, names. They are
  computed per packet and no later step depends on them, but for the IP ids: a clone of a fragmented
  packet gets the next id, which another packet may have.
* Packets without room for payload, SYN and RST packets, and streams that become empty, in Resegment.
* A TCP stream cut in the middle of a frame, the packet-level HTTP handler, parameters of Bind.
* The rules `general_replace_payload` guesses by; whether four bytes are an address is a free choice.
* Protocols over UDP, ARP and ICMP: one packet, no state, parsed by scapy. Pipeline has datagrams with
  any outcome.
* That IPv4 headers are rewritten before flows are collected, so that flows of the old and of the new
  address between the same ports become one, and fragments that could not be put together in
  `assign_tcp_generations`.
* Argument parsing, logging, and the counters other than the two in Pipeline.

## 7. Plan

Done: the inventory; all modules of section 2 with their runs; the proofs of section 4.

What would add most next:

1. An abstract specification of re-segmentation, "each direction's new stream is sent, and every ACK
   follows its data", implemented by Resegment for regular captures, and the same for fragments
   ("what goes in as a datagram comes out as one").
2. A proof that a rewritten packet can be put together again (`RewrittenPacketsAreReadable`): which fragments
   a slot takes, over the whole of `todo`.
3. Two fragmented packets whose clones want the same IP ids, and fragments in generations.
4. DNS and DHCP as units of Dispatcher, with `UDP_DISPATCHER`.
