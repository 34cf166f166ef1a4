---------------------------- MODULE MCResegment ----------------------------
(***************************************************************************)
(* Captures of one connection, built from the packets a client and a       *)
(* server may send.  The client's stream has four bytes in two segments,   *)
(* the server's two bytes in two segments.                                 *)
(***************************************************************************)
EXTENDS Resegment, EditLists

CONSTANTS
  Capacities,   \* the bytes a packet of a merged stream may carry
  Narrow,       \* and a packet of a stream that is degraded
  Longest       \* bounds a replacement in the client's stream

ClientLen == 4
ServerLen == 2

\* The client's numbers wrap around within its stream.
ClientBase == TcpSeqMod - 2
ServerBase == 5

FromClient(from, to, ack, fin) ==
  [dir |-> "client", seq |-> SeqAdd(ClientBase, from), ack |-> SeqAdd(ServerBase, ack),
   data |-> Slice(OldStream(ClientLen), from, to), psh |-> TRUE, fin |-> fin,
   sack |-> << >>]

FromServer(from, to, ack, sack) ==
  [dir |-> "server", seq |-> SeqAdd(ServerBase, from), ack |-> SeqAdd(ClientBase, ack),
   data |-> Slice(OldStream(ServerLen), from, to), psh |-> FALSE, fin |-> FALSE,
   sack |-> [n \in DOMAIN sack |-> SeqAdd(ClientBase, sack[n])]]

FirstHalf == FromClient(0, 2, 0, FALSE)
Middle == FromClient(1, 3, 0, FALSE)
SecondHalf == FromClient(2, 4, 0, FALSE)
LastHalf == FromClient(2, 4, 0, TRUE)
Fin == FromClient(4, 4, 0, TRUE)
AckOfNothing == FromServer(0, 0, 0, << >>)
AckOfFirst == FromServer(0, 0, 2, << >>)
AckOfSecond == FromServer(0, 0, 4, << >>)
AckOfFin == FromServer(0, 0, 5, << >>)
SackOfSecond == FromServer(0, 0, 0, <<2, 4>>)
AnswerToFirst == FromServer(0, 1, 2, << >>)
AnswerToSecond == FromServer(0, 1, 4, << >>)

(***************************************************************************)
(* The captures of at most n packets of some kinds: both halves of the     *)
(* client's stream are there, at most one packet has a FIN, the server     *)
(* answers at most once, and acknowledges what the client has sent without *)
(* a gap.                                                                  *)
(***************************************************************************)
Sent(capture, i, some) == \E j \in 1 .. i - 1 : capture[j] \in some

Acknowledgeable(capture, i, ack) ==
  /\ ack >= 2 => Sent(capture, i, {FirstHalf})
  /\ ack >= 4 => Sent(capture, i, {SecondHalf, LastHalf})
  /\ ack >= 5 => Sent(capture, i, {LastHalf, Fin})

IsAnswer(packet) == packet.dir = "server" /\ packet.data # << >>

IsWhole(capture) ==
  /\ FirstHalf \in Range(capture) /\ Range(capture) \cap {SecondHalf, LastHalf} # {}
  /\ Cardinality({i \in DOMAIN capture : capture[i].fin}) <= 1
  /\ Cardinality({i \in DOMAIN capture : IsAnswer(capture[i])}) <= 1
  /\ \A i \in DOMAIN capture :
       /\ capture[i].dir = "server" =>
            Acknowledgeable(capture, i, SeqOffset(capture[i].ack, ClientBase))
       /\ capture[i] = SackOfSecond => Sent(capture, i, {SecondHalf, LastHalf})

Captures(kinds, max) ==
  UNION {{c \in [1 .. n -> kinds] : IsWhole(c)} : n \in 2 .. max}

\* The state of a flow: how long it was, what was changed and how to go on.
Flow(len, edits, handling) == [len |-> len, edits |-> edits, handling |-> handling]

InputOf(capture, size, client, server) ==
  LET Of(d) == IF d = "client" THEN client ELSE server IN
  [packets |-> capture,
   capacity |-> [i \in DOMAIN capture |-> size],
   base_seq |-> [d \in Directions |-> IF d = "client" THEN ClientBase ELSE ServerBase],
   old_len |-> [d \in Directions |-> Of(d).len],
   edits |-> [d \in Directions |-> Of(d).edits],
   handling |-> [d \in Directions |-> Of(d).handling]]

\* Only the client's stream has changed.  The answer is the server's first byte.
Quiet(capture) ==
  Flow(IF \E i \in DOMAIN capture : IsAnswer(capture[i]) THEN 1 ELSE 0, << >>, "unchanged")

\* No handler leaves nothing of a stream.
Changes == {edits \in SingleEdits(ClientLen, Longest) : NewLen(edits, ClientLen) > 0}

\* The client's flow alone is written back, in packets of some sizes.
InputsOf(captures, sizes, changes, handling) ==
  {InputOf(capture, size, Flow(ClientLen, edits, handling), Quiet(capture)) :
     capture \in captures, size \in sizes, edits \in changes}

InsertsAtStart(edits) == edits[1].start = 0 /\ edits[1].end = 0

\* Every byte is captured once.
NoRepeats(capture) ==
  Cardinality({i \in DOMAIN capture : capture[i].dir = "client" /\ capture[i].data # << >>}) = 2

-----------------------------------------------------------------------------
(***************************************************************************)
(* The client's stream is merged.                                          *)
(***************************************************************************)
\* A retransmission has the FIN that the first copy had.
FinsAgree(capture) == ~({SecondHalf, LastHalf} \subseteq Range(capture))

\* What is sent first is captured first.
InOrder(capture) == capture[1] = FirstHalf

\* If all is acknowledged, the first segment is acknowledged at once.
IsPrompt(capture) == AckOfSecond \in Range(capture) => capture[2] = AckOfFirst

AnyKinds == {FirstHalf, Middle, SecondHalf, LastHalf, Fin, AckOfFirst, AckOfSecond,
             AnswerToSecond}
AckKinds == {FirstHalf, SecondHalf, AckOfNothing, AckOfFirst, AckOfSecond}

AckCaptures(max) == {c \in Captures(AckKinds, max) : InOrder(c) /\ IsPrompt(c) /\ NoRepeats(c)}

MergedInputs ==
  InputsOf({c \in Captures(AnyKinds, 4) : FinsAgree(c)} \cup AckCaptures(5),
           Capacities, Changes, "merge")

-----------------------------------------------------------------------------
(***************************************************************************)
(* The client's stream keeps its packets, which hold all that it may grow  *)
(* to.  No two packets of a capture are the same.                          *)
(***************************************************************************)
PreserveKinds == {FirstHalf, SecondHalf, LastHalf, Fin, AckOfFirst, AckOfSecond, AckOfFin,
                  SackOfSecond, AnswerToFirst}
PreservedScenes ==
  {[capture |-> c, size |-> ClientLen + Longest, server |-> Quiet(c)] :
     c \in {d \in Captures(PreserveKinds, 4) : NoRepeats(d) /\ IsInjective(d)}}

OneChange == {e \in Changes : ~InsertsAtStart(e)}

(***************************************************************************)
(* Both streams have changed.  The client's flow is written back segment   *)
(* by segment until a segment outgrows its packet.  Each side sends its    *)
(* two segments and an ACK, and every packet acknowledges what the side    *)
(* has seen.  The first half is not emptied; the server's first byte is    *)
(* deleted or replaced by three.                                           *)
(***************************************************************************)
ClientSends == <<<<0, 2>>, <<2, 4>>, <<4, 4>>>>
ServerSends == <<<<0, 1>>, <<1, 2>>, <<2, 2>>>>

Interleaved(servers) ==
  [i \in 1 .. 6 |->
     LET s == Cardinality(servers \cap 1 .. i)
         c == i - s
         SeenOf(sends, n) == IF n = 0 THEN 0 ELSE sends[n][2]
     IN  IF i \in servers
         THEN FromServer(ServerSends[s][1], ServerSends[s][2], SeenOf(ClientSends, c), << >>)
         ELSE FromClient(ClientSends[c][1], ClientSends[c][2], SeenOf(ServerSends, s), FALSE)]

BothCaptures == {Interleaved(servers) : servers \in kSubset(3, 1 .. 6)}

DegradedScenes ==
  {[capture |-> c, size |-> size, server |-> Flow(ServerLen, answer, "merge")] :
     c \in BothCaptures, size \in {Narrow},
     answer \in {e \in SingleEdits(ServerLen, 3) :
                  e[1].start = 0 /\ e[1].end = 1 /\ NewLen(e, ServerLen) \in {1, 4}}}

TwoChanges ==
  {e \in DoubleEdits(ClientLen, Longest) :
     ~InsertsAtStart(e) /\ MapOffset(0, e) # MapOffset(2, e)}

\* One change if the server's flow is quiet, two if both are rewritten.
PreservedInputs ==
  {InputOf(case[1].capture, case[1].size, Flow(ClientLen, case[2], "preserve"), case[1].server) :
     case \in {<<scene, edits>> \in
                (PreservedScenes \cup DegradedScenes) \X (OneChange \cup TwoChanges) :
              Len(edits) = IF scene.server.handling = "merge" THEN 2 ELSE 1}}

Scenes == [merged |-> MergedInputs, preserved |-> PreservedInputs]

-----------------------------------------------------------------------------
IsRegular ==
  LET c == input.packets IN
  /\ input.handling["client"] = "merge"
  /\ Range(c) \subseteq AckKinds /\ InOrder(c) /\ IsPrompt(c) /\ NoRepeats(c)

AllIsPreserved == "merge" \notin Range(input.handling)

(***************************************************************************)
(* ACKs are right, see AcksFollowData and AcknowledgementsReachEnd in      *)
(* Resegment: those of a merged stream if they are pure ACKs without       *)
(* delay, and the stream is captured in order, without repetition or FIN:  *)
(* then clones and overrides of resegment_tcp_flow agree with what has     *)
(* been written.  As long as every packet keeps its boundaries, all ACKs   *)
(* are mapped by the edits, up to the end and the FIN behind it, and SACK  *)
(* blocks are moved with them (README, "ACK mapping" and "SACK").          *)
(***************************************************************************)
AcksAreRight ==
  /\ IsRegular \/ AllIsPreserved => AcksFollowData /\ AcknowledgementsReachEnd
  /\ AllIsPreserved => FinIsAcknowledged /\ SackIsMapped
=============================================================================
