--------------------------- MODULE HttpConnection ---------------------------
(***************************************************************************)
(* rewrite_http1_stream_safe (src/protocols/http1.py) on the two           *)
(* directions of one connection, and rewrite_websocket_frames              *)
(* (src/protocols/websocket.py), to which it hands a stream after an       *)
(* upgrade.  Where a response ends depends on its request, and where       *)
(* frames begin depends on the answer of the server: the two directions    *)
(* are rewritten one after the other and tell each other by tcp_state.     *)
(*                                                                         *)
(* A stream is a sequence of cells: heads, pieces of bodies, chunks, last  *)
(* chunks with their trailers, frames.  Each cell has size 1 until it is   *)
(* rewritten, and "of" numbers the messages.  Names, values and codings    *)
(* are left out, but for one coding that cannot be decoded ("opaque": br   *)
(* or zstd without their modules), whose bodies do not show the address.   *)
(***************************************************************************)
EXTENDS Integers, FiniteSetsExt, SequencesExt

CONSTANTS
  Conversations,  \* what the two sides may have sent: direction -> cells
  FirstFlows,     \* which direction may be captured first
  Growth          \* how much longer the new address is

ASSUME GrowthAssumption == Growth \in Nat
ASSUME FirstFlowsAssumption == FirstFlows \subseteq {"client", "server"}

Methods == {"GET", "HEAD", "POST"}
Statuses == {"100", "101", "200", "204"}
Framings == {"none", "length", "chunked"}
Offers == {"no", "plain", "deflate"}    \* an upgrade to a websocket, with permessage-deflate
Codings == {"identity", "opaque"}

Requests ==
  [cell : {"request"}, of : Nat, method : Methods, framing : Framings, length : Nat,
   ws : Offers, coding : Codings, size : Nat, ip : BOOLEAN]
Responses ==
  [cell : {"response"}, of : Nat, status : Statuses, framing : Framings, length : Nat,
   ws : Offers, coding : Codings, size : Nat, ip : BOOLEAN]
Pieces == [cell : {"body", "last"}, of : Nat, size : Nat, ip : BOOLEAN]
Chunks == [cell : {"chunk"}, of : Nat, length : Nat, size : Nat, ip : BOOLEAN]
Frames ==
  [cell : {"frame"}, of : Nat, opcode : {"text", "binary", "control"}, fin : BOOLEAN,
   masked : BOOLEAN, deflated : BOOLEAN, length : Nat, size : Nat, ip : BOOLEAN]
Cells == Requests \cup Responses \cup Pieces \cup Chunks \cup Frames

Request(of, method, framing, length, ws, ip) ==
  [cell |-> "request", of |-> of, method |-> method, framing |-> framing, length |-> length,
   ws |-> ws, coding |-> "identity", size |-> 1, ip |-> ip]
Response(of, status, framing, length, ws, ip) ==
  [cell |-> "response", of |-> of, status |-> status, framing |-> framing, length |-> length,
   ws |-> ws, coding |-> "identity", size |-> 1, ip |-> ip]
Piece(of, ip) == [cell |-> "body", of |-> of, size |-> 1, ip |-> ip]
Chunk(of, ip) == [cell |-> "chunk", of |-> of, length |-> 1, size |-> 1, ip |-> ip]
LastChunk(of, ip) == [cell |-> "last", of |-> of, size |-> 1, ip |-> ip]

\* What a frame shows: an address in plain text if it is neither masked nor deflated.
Frame(of, opcode, fin, masked, deflated, ip) ==
  [cell |-> "frame", of |-> of, opcode |-> opcode, fin |-> fin, masked |-> masked,
   deflated |-> deflated, length |-> 1, size |-> 1, ip |-> ip]

-----------------------------------------------------------------------------
(***************************************************************************)
(* What two HTTP peers may have sent.  A message is a head and what comes  *)
(* up to the next head or frame; it is complete, or the stream ends in it. *)
(* The final answers follow in the order of the requests.                  *)
(***************************************************************************)
IsHead(cell) == cell.cell \in {"request", "response"}
Begins(cell) == IsHead(cell) \/ cell.cell = "frame"
MessageEnd(cells, n) == Min({m \in n .. Len(cells) : m < Len(cells) => Begins(cells[m + 1])})

IsInterim(head) == head.status \in {"100", "101"}
AsksForWebSocket(head) == head.ws # "no"
IsSwitch(head) == head.cell = "response" /\ head.status = "101" /\ AsksForWebSocket(head)

RequestsUpTo(cells, n) == {m \in 1 .. n : cells[m].cell = "request"}
AnswersUpTo(cells, n) == {m \in 1 .. n : cells[m].cell = "response" /\ ~IsInterim(cells[m])}

AnswersHead(talk, n) ==
  \E m \in DOMAIN talk["client"] :
    /\ talk["client"][m].cell = "request" /\ talk["client"][m].method = "HEAD"
    /\ Cardinality(RequestsUpTo(talk["client"], m)) = Cardinality(AnswersUpTo(talk["server"], n))

HasNoBody(talk, d, n) ==
  LET head == talk[d][n] IN
  IF head.cell = "request" THEN head.framing = "none"
  ELSE IsInterim(head) \/ head.status = "204" \/ AnswersHead(talk, n)

\* All of the message was captured.
IsComplete(talk, d, n) ==
  LET head == talk[d][n]
      end == MessageEnd(talk[d], n)
      Behind(kind, last) == \A m \in n + 1 .. last : talk[d][m].cell = kind
  IN
    IF HasNoBody(talk, d, n) THEN end = n
    ELSE \/ head.framing = "none" /\ end = Len(talk[d])
         \/ head.framing = "length" /\ end = n + head.length /\ Behind("body", end)
         \/ /\ head.framing = "chunked" /\ end > n
            /\ Behind("chunk", end - 1) /\ talk[d][end].cell = "last"

IsCut(talk, d, n) ==
  LET head == talk[d][n]
      end == MessageEnd(talk[d], n)
  IN
    /\ ~HasNoBody(talk, d, n) /\ end = Len(talk[d])
    /\ \/ head.framing = "length" /\ end < n + head.length
       \/ head.framing = "chunked" /\ \A m \in n + 1 .. end : talk[d][m].cell = "chunk"

\* Behind the switch, and only there, both sides send frames.
MayOpenFrames(cell) == IsSwitch(cell) \/ (cell.cell = "request" /\ AsksForWebSocket(cell))

FramesFollowSwitch(cells) ==
  /\ \A n \in DOMAIN cells : cells[n].cell = "frame" =>
       /\ \E m \in 1 .. n - 1 : MayOpenFrames(cells[m])
       /\ \A m \in n .. Len(cells) : cells[m].cell = "frame"
  /\ \A n \in DOMAIN cells : IsSwitch(cells[n]) =>
       \A m \in n + 1 .. Len(cells) : cells[m].cell = "frame"

IsConversation(talk) ==
  /\ talk \in [{"client", "server"} -> Seq(Cells)]
  /\ \A d \in {"client", "server"} : \A n \in DOMAIN talk[d] :
       /\ n = 1 => IsHead(talk[d][n])
       /\ IsHead(talk[d][n]) =>
            /\ talk[d][n].cell = IF d = "client" THEN "request" ELSE "response"
            /\ IsComplete(talk, d, n) \/ IsCut(talk, d, n)
       /\ talk[d][n].cell = "frame" => (talk[d][n].masked <=> d = "client")
  /\ \A d \in {"client", "server"} : FramesFollowSwitch(talk[d])

ASSUME ConversationsAssumption == \A talk \in Conversations : IsConversation(talk)

-----------------------------------------------------------------------------
VARIABLES
  stream,      \* direction -> the cells of old_stream
  flows,       \* the directions still to be rewritten
  pos,         \* the cells of the first of them that are behind
  methods,     \* http_request_methods
  pending,     \* websocket_pending
  established, \* websocket_established
  deflate,     \* websocket_permessage_deflate
  output,      \* direction -> new_stream
  rejected,    \* the directions that are left as they are
  spans        \* history: direction -> what was taken for a message, frames or a tail

state == <<methods, pending, established, deflate>>
vars == <<stream, flows, pos, state, output, rejected, spans>>

Directions == {"client", "server"}
Opposite(d) == CHOOSE e \in Directions : e # d
FlowOf(d) == IF stream[d] = << >> THEN << >> ELSE <<d>>    \* a side that sent nothing has none

Init ==
  /\ stream \in Conversations
  /\ \E d \in FirstFlows : flows = FlowOf(d) \o FlowOf(Opposite(d))
  /\ pos = 0
  /\ methods = << >> /\ pending = FALSE /\ established = FALSE /\ deflate = FALSE
  /\ output = [d \in Directions |-> << >>]
  /\ rejected = {}
  /\ spans = [d \in Directions |-> {}]

flow == Head(flows)
Rest == SubSeq(stream[flow], pos + 1, Len(stream[flow]))
AtHead == Rest[1].cell \in {"request", "response"}    \* looks_like_http1

-----------------------------------------------------------------------------
(***************************************************************************)
(* replace_one_http1_message: where the message ends, and the new message. *)
(***************************************************************************)
\* http_response_must_not_have_body
MustNotHaveBodyByStatus(head) == IsInterim(head) \/ head.status = "204"
MustNotHaveBody(head) ==
  IsInterim(head) \/ head.status = "204" \/ (methods # << >> /\ Head(methods) = "HEAD")

HowFramed(head) ==
  IF head.cell = "response" /\ MustNotHaveBody(head) THEN "no_body"
  ELSE IF head.framing = "none" THEN IF head.cell = "request" THEN "no_body" ELSE "close"
  ELSE head.framing

\* The chunks in front, up to and with the last one; none if there is no last one.
ChunkedBody(cells) ==
  LET ends == {n \in DOMAIN cells : /\ cells[n].cell = "last"
                                    /\ \A m \in 1 .. n - 1 : cells[m].cell = "chunk"}
  IN  IF ends = {} THEN 0 ELSE Max(ends)

\* The body behind a head, or an error.
BodyLength(head, cells) ==
  CASE HowFramed(head) = "no_body" -> 0
    [] HowFramed(head) = "length" -> head.length
    [] HowFramed(head) = "chunked" -> ChunkedBody(cells)
    [] HowFramed(head) = "close" -> Len(cells)

IsError(head, cells) ==
  \/ HowFramed(head) = "length" /\ head.length > Len(cells)
  \/ HowFramed(head) = "chunked" /\ ChunkedBody(cells) = 0
  \/ HowFramed(head) # "no_body" /\ head.coding = "opaque"

Replaced(cell) == IF cell.ip THEN [cell EXCEPT !.ip = FALSE, !.size = @ + Growth] ELSE cell
ReplacedAll(cells) == [n \in DOMAIN cells |-> Replaced(cells[n])]
SizeOf(cells) == FoldLeft(LAMBDA sum, cell : sum + cell.size, 0, cells)
HasIp(cells) == \E n \in DOMAIN cells : cells[n].ip

\* A body of another length becomes one chunk; one without changes stays.
NewChunks(cells) ==
  LET chunks == SubSeq(cells, 1, Len(cells) - 1)
      size == SizeOf(ReplacedAll(chunks))
  IN  IF HasIp(chunks) /\ size # SizeOf(chunks)
      THEN <<[chunks[1] EXCEPT !.ip = FALSE, !.size = size, !.length = size],
             Replaced(Last(cells))>>
      ELSE ReplacedAll(cells)

NewMessageOfOldLength(head, body) == <<Replaced(head)>> \o ReplacedAll(body)

NewMessage(head, body) ==
  CASE HowFramed(head) = "chunked" -> <<Replaced(head)>> \o NewChunks(body)
    [] HowFramed(head) = "length" ->
         <<[Replaced(head) EXCEPT !.length = SizeOf(ReplacedAll(body))]>> \o ReplacedAll(body)
    [] OTHER -> <<Replaced(head)>> \o ReplacedAll(body)

-----------------------------------------------------------------------------
(***************************************************************************)
(* What a message does to the state of the connection.                     *)
(***************************************************************************)
\* finish_http_response
MethodsAfter(head) ==
  IF IsInterim(head) \/ methods = << >> THEN methods ELSE Tail(methods)

PendingAfter(head) ==
  IF IsSwitch(head) THEN FALSE
  ELSE pending \/ (head.cell = "request" /\ AsksForWebSocket(head))

Remember(head) ==
  /\ methods' = IF head.cell = "request" THEN Append(methods, head.method) ELSE MethodsAfter(head)
  /\ pending' = PendingAfter(head)
  /\ established' = (established \/ IsSwitch(head))
  /\ deflate' = (deflate \/ (/\ head.ws = "deflate"
                             /\ head.cell = "request" \/ IsSwitch(head)))

Span(kind, length) == [kind |-> kind, from |-> pos + 1, to |-> pos + length]
Emit(kind, length, cells) ==
  /\ output' = [output EXCEPT ![flow] = @ \o cells]
  /\ spans' = [spans EXCEPT ![flow] = @ \cup {Span(kind, length)}]
  /\ pos' = pos + length
  /\ UNCHANGED <<stream, flows>>

-----------------------------------------------------------------------------
(***************************************************************************)
(* rewrite_http1_stream_safe, one turn of its loop per step.               *)
(***************************************************************************)
Turn == flows # << >> /\ Rest # << >>
AsFrames == established \/ (pending /\ ~AtHead)

RewriteMessage ==
  /\ Turn /\ ~AsFrames /\ AtHead
  /\ LET head == Rest[1]
         length == BodyLength(head, Tail(Rest))
     IN
       /\ ~IsError(head, Tail(Rest))
       /\ Remember(head)
       /\ Emit("message", 1 + length, NewMessage(head, SubSeq(Rest, 2, 1 + length)))
  /\ UNCHANGED rejected

\* What shows the address in the bytes of a stream.
ShowsIp(cell) == cell.ip /\ ~(cell.cell = "frame" /\ (cell.masked \/ cell.deflated))
AnyShowsIp(cells) == \E n \in DOMAIN cells : ShowsIp(cells[n])

\* general_replace_payload on the rest of the stream
ReplaceTail ==
  /\ Turn /\ ~AsFrames
  /\ AtHead => IsError(Rest[1], Tail(Rest))
  /\ Emit("tail", Len(Rest), [n \in DOMAIN Rest |-> IF ShowsIp(Rest[n]) THEN Replaced(Rest[n])
                                                   ELSE Rest[n]])
  /\ UNCHANGED <<state, rejected>>

\* A frame whose address cannot be replaced, as far as the handler sees the address.
IsControl(frame) == frame.opcode = "control"
Unsupported(frame) ==
  \/ frame.deflated    \* RSV1
  \/ frame.ip /\ ~IsControl(frame) /\ (~frame.fin \/ frame.opcode # "text")

\* What is not a frame at all: the first byte of a head has RSV bits.
IsFrameErrorOrNoText(cell) ==
  cell.cell # "frame" \/ cell.opcode # "text" \/ Unsupported(cell)
IsFrameError(cell) == cell.cell # "frame" \/ Unsupported(cell)

NewFrameUnlessMasked(frame) ==
  IF IsControl(frame) \/ frame.masked THEN frame
  ELSE [Replaced(frame) EXCEPT !.length = Replaced(frame).size]
NewFrame(frame) ==
  IF IsControl(frame) THEN frame
  ELSE [Replaced(frame) EXCEPT !.length = Replaced(frame).size]

RewriteFrames ==
  /\ Turn /\ AsFrames /\ ~deflate
  /\ \A n \in DOMAIN Rest : ~IsFrameError(Rest[n])
  /\ Emit("frames", Len(Rest), [n \in DOMAIN Rest |-> NewFrame(Rest[n])])
  /\ UNCHANGED <<state, rejected>>

PassDeflated ==
  /\ Turn /\ AsFrames /\ deflate /\ ~AnyShowsIp(Rest)
  /\ Emit("frames", Len(Rest), Rest)
  /\ UNCHANGED <<state, rejected>>

\* An exception: rewrite_tcp_pass keeps the stream.
RejectFrames ==
  /\ Turn /\ AsFrames
  /\ IF deflate THEN AnyShowsIp(Rest) ELSE \E n \in DOMAIN Rest : IsFrameError(Rest[n])
  /\ rejected' = rejected \cup {flow}
  /\ output' = [output EXCEPT ![flow] = stream[flow]]
  /\ flows' = Tail(flows) /\ pos' = 0
  /\ UNCHANGED <<stream, state, spans>>

\* A stream that still shows the old address is not used.
EndFlow ==
  /\ flows # << >> /\ Rest = << >>
  /\ IF AnyShowsIp(output[flow])
     THEN /\ rejected' = rejected \cup {flow}
          /\ output' = [output EXCEPT ![flow] = stream[flow]]
     ELSE UNCHANGED <<rejected, output>>
  /\ flows' = Tail(flows) /\ pos' = 0
  /\ UNCHANGED <<stream, state, spans>>

Next ==
  \/ RewriteMessage \/ ReplaceTail
  \/ RewriteFrames \/ PassDeflated \/ RejectFrames
  \/ EndFlow

Spec == Init /\ [][Next]_vars

-----------------------------------------------------------------------------
\* The queue has methods only, and the answer ends what the request for an upgrade began.
TypeOK ==
  /\ flows \in Seq(Directions) /\ Len(flows) <= 2
  /\ pos \in Nat /\ flows # << >> => pos <= Len(stream[flow])
  /\ methods \in Seq({"GET", "HEAD", "POST"})
  /\ {pending, established, deflate} \subseteq BOOLEAN
  /\ ~(pending /\ established)
  /\ rejected \subseteq Directions

Done(d) == d \notin Range(flows)

(***************************************************************************)
(* Everything taken for a message is one of the messages that were sent,   *)
(* from its head to its end, although the length in the answer to a HEAD   *)
(* request is not that of a body; only frames are taken for frames; and    *)
(* only a message that is not complete, or that cannot be decoded, is      *)
(* replaced without being parsed.                                          *)
(***************************************************************************)
MessagesAreFramed ==
  \A d \in Directions : \A s \in spans[d] :
    CASE s.kind = "message" ->
           IsHead(stream[d][s.from]) /\ s.to = MessageEnd(stream[d], s.from)
      [] s.kind = "frames" -> \A n \in s.from .. s.to : stream[d][n].cell = "frame"
      [] s.kind = "tail" ->
           /\ IsHead(stream[d][s.from])
           /\ IsComplete(stream, d, s.from) => stream[d][s.from].coding = "opaque"

(***************************************************************************)
(* In what is written, every message that was captured as a whole declares *)
(* the length it has (src/README.md, HTTP/1.x: read the body, replace,     *)
(* update Content-Length): the length of the body, of each chunk, of each  *)
(* frame.                                                                  *)
(***************************************************************************)
IsWhole(d, of) ==
  \A n \in DOMAIN stream[d] :
    stream[d][n].of = of /\ IsHead(stream[d][n]) => IsComplete(stream, d, n)

LengthsStayTrue ==
  \A d \in Directions : Done(d) =>
    \A n \in DOMAIN output[d] :
      LET cell == output[d][n]
          body == SelectSeq(output[d], LAMBDA c : c.of = cell.of /\ c.cell = "body")
      IN  IsWhole(d, cell.of) =>
            /\ cell.cell \in {"chunk", "frame"} => cell.length = cell.size
            /\ cell.cell \in {"request", "response"} /\ cell.framing = "length" /\ body # << >>
                 => cell.length = SizeOf(body)

(***************************************************************************)
(* A stream that is not rejected has the old address nowhere where a       *)
(* reader of the protocol finds it in plain: in a head, in a body, in a    *)
(* text frame, masked or not (src/README.md, WebSocket).                   *)
(***************************************************************************)
NothingIsMissedSilently ==
  \A d \in Directions : Done(d) /\ d \notin rejected =>
    \A n \in DOMAIN output[d] :
      LET cell == output[d][n] IN
      cell.ip => cell.cell = "frame" /\ (IsControl(cell) \/ cell.deflated)

(***************************************************************************)
(* A stream whose addresses are all where they can be replaced is not      *)
(* rejected: in heads, bodies, chunks and unfragmented text frames without *)
(* compression (src/README.md, WebSocket), whatever was requested before   *)
(* and whatever the capture has lost of the end.  A control frame with the *)
(* address stays as it is, and if it is not masked its stream is rejected. *)
(***************************************************************************)
SupportedFlowsAreRewritten ==
  \A d \in rejected : \E n \in DOMAIN stream[d] :
    /\ stream[d][n].cell = "frame"
    /\ Unsupported(stream[d][n]) \/ (IsControl(stream[d][n]) /\ ShowsIp(stream[d][n]))

(***************************************************************************)
(* In every state the shared state is that of one connection, and every    *)
(* message has been framed as it was sent.                                 *)
(***************************************************************************)
HttpInv == TypeOK /\ MessagesAreFramed
=============================================================================
