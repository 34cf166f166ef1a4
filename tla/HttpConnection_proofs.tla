----------------------- MODULE HttpConnection_proofs -----------------------
(***************************************************************************)
(* Proofs about HttpConnection for any conversation: where messages begin  *)
(* and end is where the peers meant it, as long as the capture begins with *)
(* the client's side and has every request; and then no address is missed  *)
(* in silence, and no stream is given up that could be rewritten.          *)
(***************************************************************************)
EXTENDS HttpConnection, FiniteSetTheorems, SequenceTheorems, WellFoundedInduction, TLAPS

Client == stream["client"]
Server == stream["server"]

\* Every request was captured as a whole, in a coding that can be decoded.
RequestsAreKnown ==
  \A n \in DOMAIN Client : IsHead(Client[n]) =>
    IsComplete(stream, "client", n) /\ Client[n].coding # "opaque"

\* Where compression was offered, no side shows the address in a data frame that is
\* not compressed.
OffersAreAccepted ==
  (\E d \in Directions : \E n \in DOMAIN stream[d] :
     IsHead(stream[d][n]) /\ stream[d][n].ws = "deflate")
  => \A d \in Directions : \A n \in DOMAIN stream[d] :
       stream[d][n].cell = "frame" /\ stream[d][n].ip
         => IsControl(stream[d][n]) \/ stream[d][n].deflated

-----------------------------------------------------------------------------
(***************************************************************************)
(* Facts about cells and about where a message ends.                       *)
(***************************************************************************)
LessThan == {pair \in Nat \X Nat : pair[1] < pair[2]}

\* A non-empty set of naturals has a least element.
LEMMA LeastElement ==
  ASSUME NEW T, T \subseteq Nat, T # {}
  PROVE  \E x \in T : \A y \in T : x <= y
<1>1. IsWellFoundedOn(LessThan, Nat)
  BY NatLessThanWellFounded DEF OpToRel, LessThan
<1>2. PICK x \in T : \A y \in T : ~ (<<y, x>> \in LessThan)
  BY <1>1, WFMin
<1>3. ASSUME NEW y \in T PROVE x <= y
  <2>1. x \in Nat /\ y \in Nat
    OBVIOUS
  <2>2. ~ (y < x)
    BY <1>2, <2>1 DEF LessThan
  <2> QED BY <2>1, <2>2
<1> QED BY <1>3

LEMMA CellFacts ==
  ASSUME NEW cell \in Cells
  PROVE  /\ cell.cell \in {"request", "response", "body", "last", "chunk", "frame"}
         /\ cell.ip \in BOOLEAN
         /\ ~Replaced(cell).ip
         /\ Replaced(cell).cell = cell.cell
         /\ cell.cell = "request" => cell \in Requests
         /\ cell.cell = "response" => cell \in Responses
         /\ cell.cell = "chunk" => cell \in Chunks
         /\ cell.cell = "frame" => cell \in Frames
<1>1. CASE cell \in Requests BY <1>1 DEF Requests, Replaced
<1>2. CASE cell \in Responses BY <1>2 DEF Responses, Replaced
<1>3. CASE cell \in Pieces BY <1>3 DEF Pieces, Replaced
<1>4. CASE cell \in Chunks BY <1>4 DEF Chunks, Replaced
<1>5. CASE cell \in Frames BY <1>5 DEF Frames, Replaced
<1> QED BY <1>1, <1>2, <1>3, <1>4, <1>5 DEF Cells

LEMMA HeadFacts ==
  ASSUME NEW cell \in Cells, IsHead(cell)
  PROVE  /\ cell.framing \in Framings /\ cell.length \in Nat /\ cell.ws \in Offers
         /\ cell.cell = "request" => cell.method \in Methods
         /\ cell.cell = "response" => cell.status \in Statuses
         /\ \A length : LET c == [Replaced(cell) EXCEPT !.length = length] IN
                          ~c.ip /\ c.cell = cell.cell
         /\ cell.cell # "frame"
<1>1. CASE cell \in Requests BY <1>1 DEF Requests, Replaced
<1>2. CASE cell \in Responses BY <1>2 DEF Responses, Replaced
<1> QED BY <1>1, <1>2, CellFacts DEF IsHead

LEMMA ChunkFacts ==
  ASSUME NEW cell \in Cells, cell.cell = "chunk", NEW size
  PROVE  ~[cell EXCEPT !.ip = FALSE, !.size = size, !.length = size].ip
<1>1. cell \in Chunks
  BY CellFacts
<1> QED BY <1>1 DEF Chunks

LEMMA MessageEndFacts ==
  ASSUME NEW cells \in Seq(Cells), NEW n \in 1 .. Len(cells)
  PROVE  LET end == MessageEnd(cells, n) IN
         /\ end \in n .. Len(cells)
         /\ end < Len(cells) => Begins(cells[end + 1])
         /\ \A m \in n + 1 .. end : ~Begins(cells[m])
<1> DEFINE ends == {m \in n .. Len(cells) : m < Len(cells) => Begins(cells[m + 1])}
           end == MessageEnd(cells, n)
<1>1. Len(cells) \in Nat /\ Len(cells) \in ends /\ ends \subseteq Nat
  OBVIOUS
<1>2. \E x \in ends : \A y \in ends : x <= y
  <2> HIDE DEF ends
  <2> QED BY <1>1, LeastElement
<1>3. end \in ends /\ \A y \in ends : end <= y
  <2>1. end = Min(ends)
    BY DEF MessageEnd
  <2> HIDE DEF ends, end
  <2> QED BY <1>2, <2>1 DEF Min
<1>4. ASSUME NEW m \in n + 1 .. end PROVE ~Begins(cells[m])
  <2>1. m - 1 \in n .. Len(cells) /\ m - 1 < Len(cells) /\ (m - 1) + 1 = m /\ ~(end <= m - 1)
    BY <1>1, <1>3
  <2>2. m - 1 \notin ends
    BY <1>3, <2>1
  <2> QED BY <2>1, <2>2
<1> QED BY <1>1, <1>3, <1>4

-----------------------------------------------------------------------------
(***************************************************************************)
(* The message at the head of what is left.                                *)
(***************************************************************************)
\* What is left of a stream, and where its cells are.
LEMMA RestFacts ==
  ASSUME NEW cells \in Seq(Cells), NEW p \in 0 .. Len(cells)
  PROVE  LET rest == SubSeq(cells, p + 1, Len(cells)) IN
         /\ rest \in Seq(Cells) /\ Len(rest) = Len(cells) - p
         /\ \A k \in 1 .. Len(cells) - p : rest[k] = cells[p + k]
         /\ rest = << >> <=> p = Len(cells)
         /\ p < Len(cells) =>
              /\ Tail(rest) \in Seq(Cells)
              /\ Len(Tail(rest)) = Len(cells) - p - 1
              /\ \A k \in 1 .. Len(cells) - p - 1 : Tail(rest)[k] = cells[p + 1 + k]
<1> DEFINE rest == SubSeq(cells, p + 1, Len(cells))
<1>0. Len(cells) \in Nat
  OBVIOUS
<1>1. /\ rest \in Seq(Cells) /\ Len(rest) = Len(cells) - p
      /\ \A k \in 1 .. Len(cells) - p : rest[k] = cells[p + k]
  <2>1. CASE p = Len(cells)
    <3>1. rest = << >>
      BY <1>0, <2>1
    <3> QED BY <1>0, <2>1, <3>1
  <2>2. CASE p < Len(cells)
    <3>1. p + 1 \in 1 .. Len(cells) + 1 /\ Len(cells) \in p .. Len(cells)
      BY <1>0, <2>2
    <3>2. \A k \in p + 1 .. Len(cells) : cells[k] \in Cells
      BY <1>0
    <3> QED BY <1>0, <2>2, <3>1, <3>2
  <2> QED BY <1>0, <2>1, <2>2
<1>2. rest = << >> <=> p = Len(cells)
  <2> HIDE DEF rest
  <2> QED BY <1>0, <1>1
<1>3. ASSUME p < Len(cells)
      PROVE  /\ Tail(rest) \in Seq(Cells)
             /\ Len(Tail(rest)) = Len(cells) - p - 1
             /\ \A k \in 1 .. Len(cells) - p - 1 : Tail(rest)[k] = cells[p + 1 + k]
  <2>1. rest # << >>
    BY <1>0, <1>2, <1>3
  <2> HIDE DEF rest
  <2>2. Tail(rest) \in Seq(Cells) /\ Len(Tail(rest)) = Len(rest) - 1
    BY <1>1, <2>1
  <2>3. \A k \in 1 .. Len(rest) - 1 : Tail(rest)[k] = rest[k + 1]
    BY <1>1, <2>1
  <2>4. ASSUME NEW k \in 1 .. Len(cells) - p - 1 PROVE Tail(rest)[k] = cells[p + 1 + k]
    <3>1. k + 1 \in 1 .. Len(cells) - p /\ p + (k + 1) = p + 1 + k
      BY <1>0, <1>3
    <3> QED BY <1>1, <2>3, <2>4, <3>1
  <2> QED BY <1>1, <2>2, <2>4
<1> QED BY <1>1, <1>2, <1>3

\* The state agrees with the conversation about a head without a body.
Agrees(d, n) ==
  stream[d][n].cell = "response" => (MustNotHaveBody(stream[d][n]) <=> HasNoBody(stream, d, n))

(***************************************************************************)
(* If the last method of the queue is that of the request, the body that   *)
(* is found is the one that was sent, and no complete body is missed.      *)
(***************************************************************************)
LEMMA Framing ==
  ASSUME NEW d \in Directions, stream[d] \in Seq(Cells),
         NEW n \in 1 .. Len(stream[d]), IsHead(stream[d][n]),
         IsComplete(stream, d, n) \/ IsCut(stream, d, n),
         Agrees(d, n),
         NEW cells \in Seq(Cells), Len(cells) = Len(stream[d]) - n,
         \A k \in 1 .. Len(cells) : cells[k] = stream[d][n + k]
  PROVE  LET head == stream[d][n]
             end == MessageEnd(stream[d], n)
         IN
         /\ ~IsError(head, cells) =>
              IsComplete(stream, d, n) /\ BodyLength(head, cells) = end - n
         /\ IsError(head, cells) /\ IsComplete(stream, d, n) => head.coding = "opaque"
<1> DEFINE head == stream[d][n]
           end == MessageEnd(stream[d], n)
           lasts == {k \in DOMAIN cells : /\ cells[k].cell = "last"
                                          /\ \A m \in 1 .. k - 1 : cells[m].cell = "chunk"}
<1>0. /\ Len(stream[d]) \in Nat /\ head \in Cells /\ n \in Nat
      /\ end \in n .. Len(stream[d])
  BY MessageEndFacts
<1>1. /\ head.framing \in Framings /\ head.length \in Nat
      /\ head.cell \in {"request", "response"}
  BY <1>0, HeadFacts DEF IsHead
<1>2. HowFramed(head) = "no_body" <=> HasNoBody(stream, d, n)
  <2>1. CASE head.cell = "request"
    BY <2>1, <1>1 DEF HowFramed, HasNoBody, Framings
  <2>2. CASE head.cell = "response"
    <3>1. MustNotHaveBody(head) <=> HasNoBody(stream, d, n)
      BY <2>2 DEF Agrees
    <3> QED BY <2>2, <3>1, <1>1 DEF HowFramed, Framings
  <2> QED BY <1>1, <2>1, <2>2
<1>3. HowFramed(head) = "close" => ~HasNoBody(stream, d, n) /\ head.framing = "none"
  BY <1>1, <1>2 DEF HowFramed, Framings
<1>4. HowFramed(head) = "length" => ~HasNoBody(stream, d, n) /\ head.framing = "length"
  BY <1>1, <1>2 DEF HowFramed, Framings
<1>5. HowFramed(head) = "chunked" => ~HasNoBody(stream, d, n) /\ head.framing = "chunked"
  BY <1>1, <1>2 DEF HowFramed, Framings
<1>6. HowFramed(head) \in {"no_body", "close", "length", "chunked"}
  BY <1>1 DEF HowFramed, Framings
<1>7. /\ HowFramed(head) = "no_body" => BodyLength(head, cells) = 0
      /\ HowFramed(head) = "length" => BodyLength(head, cells) = head.length
      /\ HowFramed(head) = "chunked" => BodyLength(head, cells) = ChunkedBody(cells)
      /\ HowFramed(head) = "close" => BodyLength(head, cells) = Len(cells)
  BY <1>6 DEF BodyLength
<1>8. ASSUME head.framing = "chunked", ~HasNoBody(stream, d, n), IsComplete(stream, d, n)
      PROVE  ChunkedBody(cells) = end - n /\ end > n
  <2>1. /\ end > n /\ stream[d][end].cell = "last"
        /\ \A m \in n + 1 .. end - 1 : stream[d][m].cell = "chunk"
    BY <1>8 DEF IsComplete
  <2>2. end - n \in 1 .. Len(cells) /\ DOMAIN cells = 1 .. Len(cells)
    BY <1>0, <2>1
  <2>3. end - n \in lasts
    <3>1. cells[end - n].cell = "last"
      BY <1>0, <2>1, <2>2
    <3>2. ASSUME NEW m \in 1 .. (end - n) - 1 PROVE cells[m].cell = "chunk"
      <4>1. m \in 1 .. Len(cells) /\ n + m \in n + 1 .. end - 1
        <5>1. Len(stream[d]) \in Nat /\ n \in Nat /\ end - n \in 1 .. Len(cells) /\ end \in Int
          BY <1>0, <2>2
        <5> HIDE DEF lasts, end, head
        <5>2. Len(cells) \in Int /\ m \in Int /\ 1 <= m /\ m <= (end - n) - 1
          BY <5>1
        <5>3. m \in 1 .. Len(cells)
          BY <5>1, <5>2
        <5>4. n + m \in n + 1 .. end - 1
          BY <5>1, <5>2
        <5> QED BY <5>3, <5>4
      <4> QED BY <4>1, <2>1
    <3> QED BY <2>2, <3>1, <3>2
  <2>4. ASSUME NEW k \in lasts PROVE k = end - n
    <3>1. k \in 1 .. Len(cells) /\ cells[k].cell = "last"
          /\ \A m \in 1 .. k - 1 : cells[m].cell = "chunk"
      BY <2>2
    <3>2. cells[end - n].cell = "last" /\ \A m \in 1 .. (end - n) - 1 : cells[m].cell = "chunk"
      BY <2>3
    <3>3. end - n \in Nat /\ k \in Nat /\ 1 <= k
      BY <2>2, <3>1
    <3> HIDE DEF lasts, end
    <3>4. k < end - n => cells[k].cell = "chunk"
      <4>1. k < end - n => k \in 1 .. (end - n) - 1
        BY <3>3
      <4> QED BY <3>2, <4>1, Zenon
    <3>5. end - n < k => cells[end - n].cell = "chunk"
      BY <2>2, <3>1, <3>3
    <3> QED BY <3>1, <3>2, <3>3, <3>4, <3>5
  <2>5. lasts = {end - n}
    <3> HIDE DEF lasts
    <3> QED BY <2>3, <2>4
  <2>6. Max({end - n}) = end - n
    BY <1>0 DEF Max
  <2>7. ChunkedBody(cells) = IF lasts = {} THEN 0 ELSE Max(lasts)
    BY DEF ChunkedBody
  <2> HIDE DEF lasts, end
  <2> QED BY <2>1, <2>5, <2>6, <2>7
<1>9. ASSUME head.framing = "chunked", IsCut(stream, d, n)
      PROVE  ChunkedBody(cells) = 0
  <2>1. end = Len(stream[d]) /\ \A m \in n + 1 .. end : stream[d][m].cell = "chunk"
    BY <1>9 DEF IsCut
  <2>2. ASSUME NEW k \in DOMAIN cells PROVE cells[k].cell = "chunk"
    <3>1. k \in 1 .. Len(cells) /\ n + k \in n + 1 .. end
      BY <1>0, <2>1
    <3> QED BY <3>1, <2>1
  <2>3. lasts = {}
    BY <2>2
  <2> QED BY <2>3 DEF ChunkedBody
<1>10. ASSUME head.framing = "length", IsCut(stream, d, n)
       PROVE  head.length > Len(cells)
  BY <1>0, <1>1, <1>10 DEF IsCut
<1>11. ASSUME IsComplete(stream, d, n)
       PROVE  /\ BodyLength(head, cells) = end - n
              /\ HowFramed(head) = "length" => ~(head.length > Len(cells))
              /\ HowFramed(head) = "chunked" => ChunkedBody(cells) # 0
  <2>1. CASE HowFramed(head) = "no_body"
    <3>1. end = n
      BY <2>1, <1>2, <1>11 DEF IsComplete
    <3> QED BY <2>1, <3>1, <1>0, <1>7
  <2>2. CASE HowFramed(head) = "close"
    <3>1. end = Len(stream[d])
      BY <2>2, <1>3, <1>11 DEF IsComplete
    <3> QED BY <2>2, <3>1, <1>0, <1>7
  <2>3. CASE HowFramed(head) = "length"
    <3>1. end = n + head.length
      BY <2>3, <1>4, <1>11 DEF IsComplete
    <3> QED BY <2>3, <3>1, <1>0, <1>1, <1>7
  <2>4. CASE HowFramed(head) = "chunked"
    <3>1. ChunkedBody(cells) = end - n /\ end > n
      BY <2>4, <1>5, <1>8, <1>11
    <3> QED BY <2>4, <3>1, <1>0, <1>7
  <2> QED BY <1>6, <2>1, <2>2, <2>3, <2>4
<1>12. ASSUME IsCut(stream, d, n) PROVE IsError(head, cells)
  <2>1. ~HasNoBody(stream, d, n) /\ head.framing \in {"length", "chunked"}
    BY <1>12 DEF IsCut
  <2>2. HowFramed(head) = head.framing
    BY <2>1, <1>2, <1>1, <1>3, <1>4, <1>5, <1>6
  <2> QED BY <2>1, <2>2, <1>9, <1>10, <1>12 DEF IsError
<1>13. ASSUME IsError(head, cells), IsComplete(stream, d, n) PROVE head.coding = "opaque"
  BY <1>11, <1>13 DEF IsError
<1> HIDE DEF end, head
<1>14. ASSUME ~IsError(head, cells)
       PROVE  IsComplete(stream, d, n) /\ BodyLength(head, cells) = end - n
  BY <1>11, <1>12, <1>14
<1> QED BY <1>13, <1>14 DEF head, end

-----------------------------------------------------------------------------
(***************************************************************************)
(* The inductive invariant.  What was read of the client's side, and what  *)
(* of the server's was answered, determine the queue of the methods.       *)
(***************************************************************************)
FlowsInv ==
  /\ flows \in {<<"client", "server">>, <<"client">>, <<"server">>, << >>}
  /\ pos \in Nat
  /\ flows # << >> => pos <= Len(stream[Head(flows)])
  /\ rejected \subseteq Directions
  /\ \A d \in rejected : Done(d)

InClient == flows # << >> /\ flow = "client"
InServer == flows # << >> /\ flow = "server"

\* The next cell begins something, and frames begin only behind a switch.
BoundaryInv ==
  flows # << >> /\ pos < Len(stream[flow]) => Begins(stream[flow][pos + 1])

FlagsInv ==
  /\ {pending, established, deflate} \subseteq BOOLEAN
  /\ ~(pending /\ established)
  /\ InClient => /\ ~established
                 /\ \A m \in 1 .. pos : MayOpenFrames(Client[m]) => pending
  /\ InServer /\ pos < Len(Server) =>
       (established <=> \E m \in 1 .. pos : IsSwitch(Server[m]))
  /\ deflate => \E d \in Directions : \E m \in DOMAIN stream[d] :
                  IsHead(stream[d][m]) /\ stream[d][m].ws = "deflate"

Asked == RequestsUpTo(Client, IF InClient THEN pos ELSE Len(Client))
NumberOf(m) == Cardinality(RequestsUpTo(Client, m))
Answered == IF InServer THEN Cardinality(AnswersUpTo(Server, pos)) ELSE 0

QueueInv ==
  /\ methods \in Seq(Methods)
  /\ InClient => Len(methods) = Cardinality(Asked)
  /\ InClient \/ (InServer /\ pos < Len(Server)) =>
       /\ \A m \in Asked : NumberOf(m) > Answered =>
            /\ NumberOf(m) - Answered <= Len(methods)
            /\ methods[NumberOf(m) - Answered] = Client[m].method
       /\ \A k \in 1 .. Len(methods) : \E m \in Asked :
            NumberOf(m) = k + Answered /\ Client[m].method = methods[k]

\* What still has the address is as it was, and none of it could have been replaced.
Remains(cells, cell) ==
  /\ cell.cell = "frame" /\ (IsControl(cell) \/ cell.deflated)
  /\ \E m \in DOMAIN cells : cells[m] = cell

OutputInv ==
  /\ \A d \in Directions : \E S : output[d] \in Seq(S)
  /\ OffersAreAccepted =>
       /\ \A d \in Directions \ rejected : \A n \in DOMAIN output[d] :
            output[d][n].ip \in BOOLEAN /\ (output[d][n].ip => Remains(stream[d], output[d][n]))
       /\ SupportedFlowsAreRewritten

IInv ==
  /\ stream \in Conversations
  /\ output = [d \in Directions |-> output[d]] /\ spans = [d \in Directions |-> spans[d]]
  /\ FlowsInv /\ BoundaryInv /\ FlagsInv /\ QueueInv /\ MessagesAreFramed /\ OutputInv

-----------------------------------------------------------------------------
(***************************************************************************)
(* Facts about a conversation.                                             *)
(***************************************************************************)
LEMMA ConversationFacts ==
  ASSUME stream \in Conversations
  PROVE  /\ \A d \in Directions :
              /\ stream[d] \in Seq(Cells)
              /\ FramesFollowSwitch(stream[d])
              /\ \A n \in 1 .. Len(stream[d]) :
                   /\ stream[d][n] \in Cells
                   /\ n = 1 => IsHead(stream[d][n])
                   /\ IsHead(stream[d][n]) =>
                        /\ stream[d][n].cell = IF d = "client" THEN "request" ELSE "response"
                        /\ IsComplete(stream, d, n) \/ IsCut(stream, d, n)
                   /\ stream[d][n].cell = "frame" => (stream[d][n].masked <=> d = "client")
         /\ Client \in Seq(Cells) /\ Server \in Seq(Cells)
<1>1. IsConversation(stream)
  BY ConversationsAssumption
<1>2. \A d \in Directions : stream[d] \in Seq(Cells) /\ DOMAIN stream[d] = 1 .. Len(stream[d])
  BY <1>1 DEF IsConversation, Directions
<1>3. \A d \in Directions : \A n \in 1 .. Len(stream[d]) : stream[d][n] \in Cells
  BY <1>2
<1>4. \A d \in Directions : FramesFollowSwitch(stream[d])
  BY <1>1 DEF IsConversation, Directions
<1>5. \A d \in Directions : \A n \in DOMAIN stream[d] :
        /\ n = 1 => IsHead(stream[d][n])
        /\ IsHead(stream[d][n]) =>
             /\ stream[d][n].cell = IF d = "client" THEN "request" ELSE "response"
             /\ IsComplete(stream, d, n) \/ IsCut(stream, d, n)
        /\ stream[d][n].cell = "frame" => (stream[d][n].masked <=> d = "client")
  BY <1>1 DEF IsConversation, Directions
<1> QED BY <1>2, <1>3, <1>4, <1>5 DEF Client, Server, Directions

LEMMA HeadKinds ==
  ASSUME stream \in Conversations, NEW d \in Directions, NEW n \in 1 .. Len(stream[d]),
         IsHead(stream[d][n])
  PROVE  /\ stream[d][n] \in Cells
         /\ d = "client" => stream[d][n].cell = "request"
         /\ d = "server" => stream[d][n].cell = "response"
         /\ IsComplete(stream, d, n) \/ IsCut(stream, d, n)
<1>1. /\ stream[d][n] \in Cells
      /\ stream[d][n].cell = IF d = "client" THEN "request" ELSE "response"
      /\ IsComplete(stream, d, n) \/ IsCut(stream, d, n)
  BY ConversationFacts
<1> QED BY <1>1

LEMMA SwitchFacts ==
  ASSUME NEW cells \in Seq(Cells), FramesFollowSwitch(cells)
  PROVE  /\ \A n \in 1 .. Len(cells) : cells[n].cell = "frame" =>
              /\ \E m \in 1 .. n - 1 : MayOpenFrames(cells[m])
              /\ \A m \in n .. Len(cells) : cells[m].cell = "frame"
         /\ \A n \in 1 .. Len(cells) : IsSwitch(cells[n]) =>
              \A m \in n + 1 .. Len(cells) : cells[m].cell = "frame"
<1>1. DOMAIN cells = 1 .. Len(cells)
  OBVIOUS
<1> QED BY <1>1 DEF FramesFollowSwitch

\* The sets that are counted are finite; a message adds its head, or nothing.
LEMMA Counting ==
  ASSUME NEW cells \in Seq(Cells), NEW p \in 0 .. Len(cells)
  PROVE  /\ IsFiniteSet(RequestsUpTo(cells, p)) /\ IsFiniteSet(AnswersUpTo(cells, p))
         /\ Cardinality(RequestsUpTo(cells, p)) \in Nat
         /\ Cardinality(AnswersUpTo(cells, p)) \in Nat
<1>1. RequestsUpTo(cells, p) \subseteq 1 .. p /\ AnswersUpTo(cells, p) \subseteq 1 .. p
  BY DEF RequestsUpTo, AnswersUpTo
<1>2. IsFiniteSet(1 .. p)
  BY FS_Interval
<1> QED BY <1>1, <1>2, FS_Subset, FS_CardinalityType

LEMMA CountingOneMore ==
  ASSUME NEW cells \in Seq(Cells), NEW p \in 0 .. Len(cells), NEW q \in p + 1 .. Len(cells),
         \A m \in p + 2 .. q : ~IsHead(cells[m])
  PROVE  /\ cells[p + 1].cell = "request" =>
              /\ RequestsUpTo(cells, q) = RequestsUpTo(cells, p) \cup {p + 1}
              /\ RequestsUpTo(cells, p + 1) = RequestsUpTo(cells, q)
              /\ Cardinality(RequestsUpTo(cells, q)) = Cardinality(RequestsUpTo(cells, p)) + 1
         /\ cells[p + 1].cell # "request" => RequestsUpTo(cells, q) = RequestsUpTo(cells, p)
         /\ cells[p + 1].cell = "response" /\ ~IsInterim(cells[p + 1]) =>
              /\ AnswersUpTo(cells, p + 1) = AnswersUpTo(cells, q)
              /\ Cardinality(AnswersUpTo(cells, q)) = Cardinality(AnswersUpTo(cells, p)) + 1
         /\ ~(cells[p + 1].cell = "response" /\ ~IsInterim(cells[p + 1])) =>
              AnswersUpTo(cells, q) = AnswersUpTo(cells, p)
<1>1. \A m \in p + 2 .. q : cells[m].cell # "request" /\ cells[m].cell # "response"
  BY DEF IsHead
<1>2. p \in Nat /\ q \in Nat /\ p < q /\ Len(cells) \in Nat
  OBVIOUS
<1>3. \A m \in Int : m \in 1 .. q <=> m \in 1 .. p \/ m = p + 1 \/ m \in p + 2 .. q
  BY <1>2
<1>4. \A m \in Int : m \in 1 .. p + 1 <=> m \in 1 .. p \/ m = p + 1
  BY <1>2
<1>5. ASSUME cells[p + 1].cell = "request"
      PROVE  /\ RequestsUpTo(cells, q) = RequestsUpTo(cells, p) \cup {p + 1}
             /\ RequestsUpTo(cells, p + 1) = RequestsUpTo(cells, p) \cup {p + 1}
  BY <1>1, <1>2, <1>3, <1>4, <1>5 DEF RequestsUpTo
<1>6. ASSUME cells[p + 1].cell = "response", ~IsInterim(cells[p + 1])
      PROVE  /\ AnswersUpTo(cells, q) = AnswersUpTo(cells, p) \cup {p + 1}
             /\ AnswersUpTo(cells, p + 1) = AnswersUpTo(cells, p) \cup {p + 1}
  BY <1>1, <1>2, <1>3, <1>4, <1>6 DEF AnswersUpTo
<1>7. p + 1 \notin RequestsUpTo(cells, p) /\ p + 1 \notin AnswersUpTo(cells, p)
  BY <1>2 DEF RequestsUpTo, AnswersUpTo
<1>8. /\ Cardinality(RequestsUpTo(cells, p) \cup {p + 1}) = Cardinality(RequestsUpTo(cells, p)) + 1
      /\ Cardinality(AnswersUpTo(cells, p) \cup {p + 1}) = Cardinality(AnswersUpTo(cells, p)) + 1
  BY <1>7, Counting, FS_AddElement
<1>9. cells[p + 1].cell # "request" => RequestsUpTo(cells, q) = RequestsUpTo(cells, p)
  BY <1>1, <1>2, <1>3 DEF RequestsUpTo
<1>10. ~(cells[p + 1].cell = "response" /\ ~IsInterim(cells[p + 1])) =>
         AnswersUpTo(cells, q) = AnswersUpTo(cells, p)
  BY <1>1, <1>2, <1>3 DEF AnswersUpTo
<1> QED BY <1>5, <1>6, <1>8, <1>9, <1>10

\* Cells that are no heads are not counted.
LEMMA CountingNoMore ==
  ASSUME NEW cells \in Seq(Cells), NEW p \in 0 .. Len(cells),
         \A m \in p + 1 .. Len(cells) : ~IsHead(cells[m])
  PROVE  /\ RequestsUpTo(cells, Len(cells)) = RequestsUpTo(cells, p)
         /\ AnswersUpTo(cells, Len(cells)) = AnswersUpTo(cells, p)
<1>1. \A m \in p + 1 .. Len(cells) : cells[m].cell # "request" /\ cells[m].cell # "response"
  BY DEF IsHead
<1>2. p \in Nat /\ p <= Len(cells) /\ Len(cells) \in Nat
  OBVIOUS
<1>3. \A m \in Int : m \in 1 .. Len(cells) <=> m \in 1 .. p \/ m \in p + 1 .. Len(cells)
  BY <1>2
<1> QED BY <1>1, <1>2, <1>3 DEF RequestsUpTo, AnswersUpTo

\* Where a flow stands.
LEMMA Here ==
  ASSUME IInv, flows # << >>
  PROVE  /\ flow \in Directions /\ (InClient <=> flow = "client") /\ (InServer <=> flow = "server")
         /\ InClient \/ InServer
         /\ stream[flow] \in Seq(Cells) /\ pos \in 0 .. Len(stream[flow])
         /\ Rest \in Seq(Cells) /\ Len(Rest) = Len(stream[flow]) - pos
         /\ \A k \in 1 .. Len(stream[flow]) - pos : Rest[k] = stream[flow][pos + k]
         /\ Rest = << >> <=> pos = Len(stream[flow])
         /\ Rest # << >> =>
              /\ pos + 1 \in 1 .. Len(stream[flow]) /\ pos < Len(stream[flow])
              /\ Rest[1] = stream[flow][pos + 1] /\ Begins(Rest[1])
              /\ Tail(Rest) \in Seq(Cells) /\ Len(Tail(Rest)) = Len(stream[flow]) - (pos + 1)
              /\ \A k \in 1 .. Len(Tail(Rest)) : Tail(Rest)[k] = stream[flow][pos + 1 + k]
<1>1. /\ flow \in Directions /\ (InClient <=> flow = "client") /\ (InServer <=> flow = "server")
      /\ InClient \/ InServer
  BY DEF IInv, FlowsInv, flow, InClient, InServer, Directions
<1>2. stream[flow] \in Seq(Cells) /\ Len(stream[flow]) \in Nat
  BY <1>1, ConversationFacts DEF IInv
<1>3. pos \in 0 .. Len(stream[flow])
  BY <1>2 DEF IInv, FlowsInv, flow
<1>4. Rest = SubSeq(stream[flow], pos + 1, Len(stream[flow]))
  BY DEF Rest
<1>5. pos < Len(stream[flow]) => Begins(stream[flow][pos + 1])
  BY DEF IInv, BoundaryInv
<1> DEFINE cells == stream[flow]
<1>6. cells \in Seq(Cells) /\ pos \in 0 .. Len(cells) /\ Rest = SubSeq(cells, pos + 1, Len(cells))
  BY <1>2, <1>3, <1>4
<1> HIDE DEF cells
<1>7. /\ Rest \in Seq(Cells) /\ Len(Rest) = Len(cells) - pos
      /\ \A k \in 1 .. Len(cells) - pos : Rest[k] = cells[pos + k]
      /\ Rest = << >> <=> pos = Len(cells)
      /\ pos < Len(cells) =>
           /\ Tail(Rest) \in Seq(Cells)
           /\ Len(Tail(Rest)) = Len(cells) - pos - 1
           /\ \A k \in 1 .. Len(cells) - pos - 1 : Tail(Rest)[k] = cells[pos + 1 + k]
  BY <1>6, RestFacts
<1>8. ASSUME Rest # << >>
      PROVE  /\ pos + 1 \in 1 .. Len(cells) /\ pos < Len(cells)
             /\ Rest[1] = cells[pos + 1]
             /\ Len(Tail(Rest)) = Len(cells) - (pos + 1)
  BY <1>6, <1>7, <1>8
<1> QED BY <1>1, <1>2, <1>3, <1>5, <1>7, <1>8 DEF cells

\* Behind an upgrade there are frames only, and before it none.
LEMMA OnlyFrames ==
  ASSUME IInv, Turn
  PROVE  /\ AsFrames => \A n \in 1 .. Len(Rest) : Rest[n].cell = "frame"
         /\ ~AsFrames => AtHead
<1>0. flows # << >> /\ Rest # << >>
  BY DEF Turn
<1>1. stream \in Conversations /\ FlagsInv
  BY DEF IInv
<1>2. /\ flow \in Directions /\ (InClient \/ InServer)
      /\ InClient => flow = "client" /\ stream[flow] = Client
      /\ InServer => flow = "server" /\ stream[flow] = Server
      /\ stream[flow] \in Seq(Cells) /\ pos \in 0 .. Len(stream[flow]) /\ pos + 1 \in 1 .. Len(stream[flow])
      /\ pos < Len(stream[flow])
      /\ Len(Rest) = Len(stream[flow]) - pos
      /\ \A k \in 1 .. Len(stream[flow]) - pos : Rest[k] = stream[flow][pos + k]
      /\ Rest[1] = stream[flow][pos + 1] /\ Begins(Rest[1])
  BY <1>0, Here DEF Client, Server
<1>3. /\ \A n \in 1 .. Len(stream[flow]) : stream[flow][n].cell = "frame" =>
           /\ \E m \in 1 .. n - 1 : MayOpenFrames(stream[flow][m])
           /\ \A m \in n .. Len(stream[flow]) : stream[flow][m].cell = "frame"
      /\ \A n \in 1 .. Len(stream[flow]) : IsSwitch(stream[flow][n]) =>
           \A m \in n + 1 .. Len(stream[flow]) : stream[flow][m].cell = "frame"
  <2>1. FramesFollowSwitch(stream[flow])
    BY <1>1, <1>2, ConversationFacts
  <2> QED BY <1>2, <2>1, SwitchFacts
<1>4. ASSUME Rest[1].cell = "frame", NEW n \in 1 .. Len(Rest) PROVE Rest[n].cell = "frame"
  <2>1. \A m \in pos + 1 .. Len(stream[flow]) : stream[flow][m].cell = "frame"
    BY <1>2, <1>3, <1>4
  <2>2. n \in 1 .. Len(stream[flow]) - pos /\ pos + n \in pos + 1 .. Len(stream[flow])
    BY <1>2
  <2> QED BY <1>2, <2>1, <2>2
<1>5. AtHead \/ Rest[1].cell = "frame"
  BY <1>2 DEF AtHead, Begins, IsHead
<1>6. ASSUME established PROVE \A n \in 1 .. Len(Rest) : Rest[n].cell = "frame"
  <2>1. InServer
    BY <1>1, <1>2, <1>6 DEF FlagsInv
  <2>2. PICK m \in 1 .. pos : IsSwitch(Server[m])
    BY <1>1, <1>2, <1>6, <2>1 DEF FlagsInv
  <2>3. m \in 1 .. Len(stream[flow]) /\ IsSwitch(stream[flow][m])
    BY <1>2, <2>1, <2>2
  <2>4. \A k \in m + 1 .. Len(stream[flow]) : stream[flow][k].cell = "frame"
    BY <1>3, <2>3
  <2> QED BY <1>2, <2>3, <2>4
<1>7. ASSUME ~AsFrames PROVE AtHead
  <2>1. SUFFICES ASSUME Rest[1].cell = "frame" PROVE AsFrames
    BY <1>5, <1>7
  <2>2. PICK m \in 1 .. (pos + 1) - 1 : MayOpenFrames(stream[flow][m])
    BY <1>2, <1>3, <2>1
  <2>3. m \in 1 .. pos /\ m \in 1 .. Len(stream[flow])
    BY <1>2, <2>2
  <2>4. ~AtHead
    BY <2>1 DEF AtHead
  <2>5. CASE InClient
    <3>1. pending
      BY <1>1, <1>2, <2>2, <2>3, <2>5 DEF FlagsInv
    <3> QED BY <3>1, <2>4 DEF AsFrames
  <2>6. CASE InServer
    <3>1. stream[flow][m].cell # "request"
      <4>1. flow = "server"
        BY <1>2, <2>6
      <4>2. IsHead(stream[flow][m]) => stream[flow][m].cell = "response"
        BY <1>1, <1>2, <2>3, <4>1, HeadKinds
      <4> QED BY <4>2 DEF IsHead
    <3>2. IsSwitch(Server[m])
      BY <1>2, <2>2, <2>6, <3>1 DEF MayOpenFrames
    <3>3. established
      BY <1>1, <1>2, <2>3, <2>6, <3>2 DEF FlagsInv
    <3> QED BY <3>3 DEF AsFrames
  <2> QED BY <1>2, <2>5, <2>6
<1>8. AsFrames => \A n \in 1 .. Len(Rest) : Rest[n].cell = "frame"
  BY <1>4, <1>5, <1>6 DEF AsFrames
<1> QED BY <1>7, <1>8

\* The queue says whether an answer has a body.
LEMMA QueueAgrees ==
  ASSUME IInv, Turn, AtHead
  PROVE  Agrees(flow, pos + 1)
<1> DEFINE n == pos + 1
           head == stream[flow][n]
<1>0. flows # << >> /\ Rest # << >>
  BY DEF Turn
<1>1. /\ flow \in Directions /\ (InServer <=> flow = "server") /\ (InClient <=> flow = "client")
      /\ n \in 1 .. Len(stream[flow]) /\ pos < Len(stream[flow]) /\ pos \in 0 .. Len(stream[flow])
      /\ Rest[1] = head
  BY <1>0, Here
<1>2. IsHead(head)
  BY <1>1 DEF AtHead, IsHead
<1>3. stream \in Conversations /\ QueueInv
  BY DEF IInv
<1>4. SUFFICES ASSUME head.cell = "response", ~IsInterim(head), head.status # "204"
               PROVE  (methods # << >> /\ Head(methods) = "HEAD") <=> AnswersHead(stream, n)
  <2>1. ASSUME head.cell = "response", IsInterim(head) \/ head.status = "204"
        PROVE  MustNotHaveBody(head) /\ HasNoBody(stream, flow, n)
    BY <2>1 DEF MustNotHaveBody, HasNoBody
  <2>2. ASSUME head.cell = "response", ~IsInterim(head), head.status # "204"
        PROVE  /\ MustNotHaveBody(head) <=> methods # << >> /\ Head(methods) = "HEAD"
               /\ HasNoBody(stream, flow, n) <=> AnswersHead(stream, n)
    BY <2>2 DEF MustNotHaveBody, HasNoBody
  <2> HIDE DEF head, n
  <2>3. Agrees(flow, n) <=>
          (head.cell = "response" => (MustNotHaveBody(head) <=> HasNoBody(stream, flow, n)))
    BY DEF Agrees, head
  <2>4. Agrees(flow, n)
    BY <1>4, <2>1, <2>2, <2>3
  <2> QED BY <2>4 DEF n
<1>5. flow = "server" /\ InServer /\ Server = stream[flow] /\ pos < Len(Server) /\ ~InClient
  <2>1. flow # "client"
    BY <1>1, <1>2, <1>3, <1>4, HeadKinds
  <2> QED BY <1>1, <2>1 DEF Directions, Server
<1>6. Client \in Seq(Cells) /\ Server \in Seq(Cells) /\ DOMAIN Client = 1 .. Len(Client)
  BY <1>3, ConversationFacts
<1>7. /\ Answered = Cardinality(AnswersUpTo(Server, pos)) /\ Answered \in Nat
      /\ Asked = RequestsUpTo(Client, Len(Client))
      /\ Cardinality(AnswersUpTo(Server, n)) = Answered + 1
  <2>1. pos \in 0 .. Len(Server) /\ n \in pos + 1 .. Len(Server)
    BY <1>1, <1>5
  <2>2. \A m \in pos + 2 .. n : ~IsHead(Server[m])
    BY <2>1
  <2>3. Cardinality(AnswersUpTo(Server, n)) = Cardinality(AnswersUpTo(Server, pos)) + 1
    BY <1>4, <1>5, <1>6, <2>1, <2>2, CountingOneMore
  <2> QED BY <1>5, <1>6, <2>1, <2>3, Counting DEF Answered, Asked
<1>8. /\ methods \in Seq(Methods)
      /\ \A m \in Asked : NumberOf(m) > Answered =>
           /\ NumberOf(m) - Answered <= Len(methods)
           /\ methods[NumberOf(m) - Answered] = Client[m].method
      /\ \A k \in 1 .. Len(methods) : \E m \in Asked :
           NumberOf(m) = k + Answered /\ Client[m].method = methods[k]
  BY <1>3, <1>5 DEF QueueInv
<1>9. ASSUME methods # << >>, Head(methods) = "HEAD" PROVE AnswersHead(stream, n)
  <2>1. 1 \in 1 .. Len(methods) /\ methods[1] = "HEAD"
    BY <1>8, <1>9
  <2>2. PICK m \in Asked : NumberOf(m) = 1 + Answered /\ Client[m].method = methods[1]
    BY <1>8, <2>1
  <2>3. m \in DOMAIN Client /\ Client[m].cell = "request"
    BY <1>6, <1>7 DEF RequestsUpTo
  <2>4. /\ Client[m].method = "HEAD"
        /\ Cardinality(RequestsUpTo(Client, m)) = Cardinality(AnswersUpTo(Server, n))
    BY <1>7, <2>1, <2>2 DEF NumberOf
  <2> QED BY <2>3, <2>4 DEF AnswersHead, Client, Server
<1>10. ASSUME AnswersHead(stream, n) PROVE methods # << >> /\ Head(methods) = "HEAD"
  <2>1. PICK m \in DOMAIN Client :
          /\ Client[m].cell = "request" /\ Client[m].method = "HEAD"
          /\ Cardinality(RequestsUpTo(Client, m)) = Cardinality(AnswersUpTo(Server, n))
    BY <1>10 DEF AnswersHead, Client, Server
  <2>2. m \in Asked /\ NumberOf(m) = Answered + 1
    BY <1>6, <1>7, <2>1 DEF RequestsUpTo, NumberOf
  <2>3. NumberOf(m) > Answered /\ NumberOf(m) - Answered = 1
    BY <1>7, <2>2
  <2>4. 1 <= Len(methods) /\ methods[1] = "HEAD"
    BY <1>8, <2>1, <2>2, <2>3
  <2> QED BY <1>8, <2>4
<1> QED BY <1>9, <1>10

-----------------------------------------------------------------------------
(***************************************************************************)
(* What is written.                                                        *)
(***************************************************************************)
Quiet(cells) == (\E S : cells \in Seq(S)) /\ \A k \in 1 .. Len(cells) : cells[k].ip = FALSE

LEMMA Joining ==
  ASSUME NEW s, NEW t, NEW S, NEW T, s \in Seq(S), t \in Seq(T)
  PROVE  /\ s \o t \in Seq(S \cup T) /\ Len(s \o t) = Len(s) + Len(t)
         /\ \A k \in 1 .. Len(s) : (s \o t)[k] = s[k]
         /\ \A k \in Len(s) + 1 .. Len(s) + Len(t) : (s \o t)[k] = t[k - Len(s)]
<1>1. s \in Seq(S \cup T) /\ t \in Seq(S \cup T)
  OBVIOUS
<1> QED BY <1>1

LEMMA QuietJoin ==
  ASSUME NEW s, NEW t, Quiet(s), Quiet(t)
  PROVE  Quiet(s \o t)
<1>1. PICK S : s \in Seq(S)
  BY DEF Quiet
<1>2. PICK T : t \in Seq(T)
  BY DEF Quiet
<1>3. /\ s \o t \in Seq(S \cup T) /\ Len(s \o t) = Len(s) + Len(t)
      /\ \A k \in 1 .. Len(s) : (s \o t)[k] = s[k]
      /\ \A k \in Len(s) + 1 .. Len(s) + Len(t) : (s \o t)[k] = t[k - Len(s)]
  BY <1>1, <1>2, Joining
<1>4. ASSUME NEW k \in 1 .. Len(s \o t) PROVE (s \o t)[k].ip = FALSE
  <2>0. Len(s) \in Nat /\ Len(t) \in Nat
    BY <1>1, <1>2
  <2>1. CASE k \in 1 .. Len(s)
    BY <1>3, <2>1 DEF Quiet
  <2>2. CASE k \in Len(s) + 1 .. Len(s) + Len(t)
    <3>1. k - Len(s) \in 1 .. Len(t)
      BY <2>0, <2>2
    <3> QED BY <1>3, <2>2, <3>1 DEF Quiet
  <2>3. k \in 1 .. Len(s) + Len(t)
    BY <1>3
  <2>4. k \in 1 .. Len(s) \/ k \in Len(s) + 1 .. Len(s) + Len(t)
    BY <2>0, <2>3
  <2> QED BY <2>1, <2>2, <2>4
<1> QED BY <1>3, <1>4 DEF Quiet

LEMMA QuietOne ==
  ASSUME NEW cell, cell.ip = FALSE
  PROVE  Quiet(<<cell>>)
<1>1. <<cell>> \in Seq({cell}) /\ Len(<<cell>>) = 1 /\ <<cell>>[1] = cell
  OBVIOUS
<1> DEFINE one == <<cell>>
<1> HIDE DEF one
<1>2. one \in Seq({cell}) /\ \A k \in 1 .. Len(one) : one[k].ip = FALSE
  BY <1>1 DEF one
<1>3. Quiet(one)
  BY <1>2 DEF Quiet
<1> QED BY <1>3 DEF one

LEMMA QuietAll ==
  ASSUME NEW cells \in Seq(Cells)
  PROVE  Quiet(ReplacedAll(cells))
<1>1. /\ ReplacedAll(cells) = [n \in 1 .. Len(cells) |-> Replaced(cells[n])]
      /\ Len(cells) \in Nat
  BY DEF ReplacedAll
<1> DEFINE new == [n \in 1 .. Len(cells) |-> Replaced(cells[n])]
           S == {Replaced(cells[n]) : n \in 1 .. Len(cells)}
<1>2. new \in Seq(S) /\ Len(new) = Len(cells)
  BY <1>1
<1>3. ASSUME NEW k \in 1 .. Len(cells) PROVE new[k].ip = FALSE
  <2>1. cells[k] \in Cells
    OBVIOUS
  <2>2. cells[k].ip \in BOOLEAN /\ (cells[k] \in Requests \/ cells[k] \in Responses
          \/ cells[k] \in Pieces \/ cells[k] \in Chunks \/ cells[k] \in Frames)
    BY <2>1, CellFacts DEF Cells
  <2>3. Replaced(cells[k]).ip = FALSE
    BY <2>2 DEF Replaced, Requests, Responses, Pieces, Chunks, Frames
  <2> QED BY <2>3
<1> HIDE DEF new, S
<1>4. Quiet(new)
  BY <1>2, <1>3 DEF Quiet
<1> QED BY <1>1, <1>4 DEF new

LEMMA NewMessageIsQuiet ==
  ASSUME NEW head \in Cells, IsHead(head), NEW body \in Seq(Cells),
         HowFramed(head) \in {"no_body", "close", "length", "chunked"}
  PROVE  Quiet(NewMessage(head, body))
<1>1. Quiet(<<Replaced(head)>>)
  <2>1. Replaced(head).ip = FALSE
    BY HeadFacts DEF Replaced, IsHead, Cells, Requests, Responses, Pieces, Chunks, Frames
  <2> QED BY <2>1, QuietOne
<1>2. Quiet(ReplacedAll(body))
  BY QuietAll
<1>3. CASE HowFramed(head) = "length"
  <2> DEFINE size == SizeOf(ReplacedAll(body))
             new == [Replaced(head) EXCEPT !.length = size]
  <2>1. new.ip = FALSE
    <3>1. head \in Requests \/ head \in Responses
      BY CellFacts DEF IsHead
    <3> HIDE DEF size
    <3>2. CASE head \in Requests BY <3>2 DEF Requests, Replaced
    <3>3. CASE head \in Responses BY <3>3 DEF Responses, Replaced
    <3> QED BY <3>1, <3>2, <3>3
  <2>2. NewMessage(head, body) = <<new>> \o ReplacedAll(body)
    BY <1>3 DEF NewMessage
  <2> HIDE DEF new
  <2> QED BY <1>2, <2>1, <2>2, QuietOne, QuietJoin
<1>4. CASE HowFramed(head) = "chunked"
  <2>1. Quiet(NewChunks(body))
    <3> DEFINE chunks == SubSeq(body, 1, Len(body) - 1)
               size == SizeOf(ReplacedAll(chunks))
               first == [chunks[1] EXCEPT !.ip = FALSE, !.size = size, !.length = size]
    <3>1. SUFFICES ASSUME HasIp(chunks)
                   PROVE  Quiet(<<first, Replaced(Last(body))>>)
      BY <1>2 DEF NewChunks
    <3>2. Len(body) > 1 /\ Len(body) \in Nat
      <4>1. PICK n \in DOMAIN chunks : chunks[n].ip
        BY <3>1 DEF HasIp
      <4> QED BY <4>1
    <3>3. chunks[1] = body[1] /\ body[1] \in Cells /\ body[Len(body)] \in Cells
      BY <3>2
    <3>4. first.ip = FALSE
      <4> HIDE DEF size
      <4>1. CASE body[1] \in Requests BY <3>3, <4>1 DEF Requests
      <4>2. CASE body[1] \in Responses BY <3>3, <4>2 DEF Responses
      <4>3. CASE body[1] \in Pieces BY <3>3, <4>3 DEF Pieces
      <4>4. CASE body[1] \in Chunks BY <3>3, <4>4 DEF Chunks
      <4>5. CASE body[1] \in Frames BY <3>3, <4>5 DEF Frames
      <4> QED BY <3>3, <4>1, <4>2, <4>3, <4>4, <4>5 DEF Cells
    <3>5. Replaced(Last(body)).ip = FALSE
      <4>1. Last(body) \in Cells
        BY <3>3 DEF Last
      <4> QED BY <4>1, CellFacts DEF Replaced, Cells, Requests, Responses, Pieces, Chunks, Frames
    <3> DEFINE second == Replaced(Last(body))
    <3> HIDE DEF first, second
    <3>6. <<first, second>> = <<first>> \o <<second>>
      OBVIOUS
    <3>7. Quiet(<<first>>) /\ Quiet(<<second>>)
      BY <3>4, <3>5, QuietOne DEF second
    <3>8. Quiet(<<first, second>>)
      BY <3>6, <3>7, QuietJoin
    <3> QED BY <3>8 DEF second
  <2>2. NewMessage(head, body) = <<Replaced(head)>> \o NewChunks(body)
    BY <1>4 DEF NewMessage
  <2> QED BY <1>1, <2>1, <2>2, QuietJoin
<1>5. CASE HowFramed(head) \in {"no_body", "close"}
  <2>1. NewMessage(head, body) = <<Replaced(head)>> \o ReplacedAll(body)
    BY <1>5 DEF NewMessage
  <2> QED BY <1>1, <1>2, <2>1, QuietJoin
<1> QED BY <1>3, <1>4, <1>5

\* What is emitted has the address only where it cannot be replaced.
Presentable(cells) ==
  /\ \E S : cells \in Seq(S)
  /\ OffersAreAccepted => \A k \in 1 .. Len(cells) :
       cells[k].ip \in BOOLEAN /\ (cells[k].ip => Remains(stream[flow], cells[k]))

LEMMA EmitOutput ==
  ASSUME IInv, flows # << >>, NEW cells, Presentable(cells),
         output' = [output EXCEPT ![flow] = @ \o cells],
         stream' = stream, rejected' = rejected
  PROVE  /\ OutputInv'
         /\ output' = [d \in Directions |-> output'[d]]
<1>1. flow \in Directions
  BY Here
<1>2. output = [d \in Directions |-> output[d]] /\ OutputInv
  BY DEF IInv
<1>3. /\ output' = [d \in Directions |-> output'[d]]
      /\ output'[flow] = output[flow] \o cells
      /\ \A d \in Directions : d # flow => output'[d] = output[d]
  BY <1>1, <1>2
<1>4. PICK S : output[flow] \in Seq(S)
  BY <1>1, <1>2 DEF OutputInv
<1>5. PICK T : cells \in Seq(T)
  BY DEF Presentable
<1>6. /\ output[flow] \o cells \in Seq(S \cup T)
      /\ Len(output[flow] \o cells) = Len(output[flow]) + Len(cells)
      /\ \A k \in 1 .. Len(output[flow]) : (output[flow] \o cells)[k] = output[flow][k]
      /\ \A k \in Len(output[flow]) + 1 .. Len(output[flow]) + Len(cells) :
           (output[flow] \o cells)[k] = cells[k - Len(output[flow])]
  BY <1>4, <1>5, Joining
<1>7. \A d \in Directions : \E U : output'[d] \in Seq(U)
  <2>1. \A d \in Directions : d # flow => \E U : output'[d] \in Seq(U)
    BY <1>2, <1>3 DEF OutputInv
  <2>2. output'[flow] \in Seq(S \cup T)
    BY <1>3, <1>6
  <2> QED BY <2>1, <2>2
<1>8. OffersAreAccepted' <=> OffersAreAccepted
  BY DEF OffersAreAccepted
<1>9. SupportedFlowsAreRewritten' <=> SupportedFlowsAreRewritten
  BY DEF SupportedFlowsAreRewritten
<1>11. ASSUME OffersAreAccepted, NEW d \in Directions \ rejected, NEW n \in DOMAIN output'[d]
       PROVE  output'[d][n].ip \in BOOLEAN /\ (output'[d][n].ip => Remains(stream[d], output'[d][n]))
  <2>1. CASE d # flow
    <3>1. output'[d] = output[d]
      BY <1>3, <2>1
    <3> QED BY <1>2, <1>11, <3>1 DEF OutputInv
  <2>2. CASE d = flow
    <3>0. Len(output[flow]) \in Nat /\ Len(cells) \in Nat
      BY <1>4, <1>5
    <3>1. n \in 1 .. Len(output[flow]) + Len(cells)
      BY <1>3, <1>6, <2>2
    <3>2. CASE n \in 1 .. Len(output[flow])
      <4>1. output'[d][n] = output[d][n] /\ n \in DOMAIN output[d]
        BY <1>3, <1>4, <1>6, <2>2, <3>2
      <4> QED BY <1>2, <1>11, <4>1 DEF OutputInv
    <3>3. CASE n \in Len(output[flow]) + 1 .. Len(output[flow]) + Len(cells)
      <4>1. /\ output'[d][n] = cells[n - Len(output[flow])]
            /\ n - Len(output[flow]) \in 1 .. Len(cells)
        BY <1>3, <1>6, <2>2, <3>0, <3>3
      <4> QED BY <1>11, <2>2, <4>1 DEF Presentable
    <3>4. n \in 1 .. Len(output[flow]) \/ n \in Len(output[flow]) + 1 .. Len(output[flow]) + Len(cells)
      BY <3>0, <3>1
    <3> QED BY <3>2, <3>3, <3>4
  <2> QED BY <2>1, <2>2
<1>12. ASSUME OffersAreAccepted'
       PROVE  /\ \A d \in Directions \ rejected' : \A n \in DOMAIN output'[d] :
                   /\ output'[d][n].ip \in BOOLEAN
                   /\ output'[d][n].ip => Remains(stream'[d], output'[d][n])
              /\ SupportedFlowsAreRewritten'
  <2>1. OffersAreAccepted
    BY <1>8, <1>12
  <2>2. SupportedFlowsAreRewritten'
    BY <1>2, <1>9, <2>1 DEF OutputInv
  <2> QED BY <1>11, <2>1, <2>2
<1>13. OutputInv'
  BY <1>7, <1>12 DEF OutputInv
<1> QED BY <1>3, <1>13

LEMMA QuietIsPresentable ==
  ASSUME NEW cells, Quiet(cells)
  PROVE  Presentable(cells)
BY DEF Quiet, Presentable

-----------------------------------------------------------------------------
(***************************************************************************)
(* RewriteMessage takes the message that begins here, to its end.          *)
(***************************************************************************)
Here1 == pos + 1
HeadHere == stream[flow][Here1]
EndHere == MessageEnd(stream[flow], Here1)

\* The head in front, and what IsError and BodyLength make of it.
LEMMA HeadInFront ==
  ASSUME IInv, Turn, AtHead
  PROVE  /\ flow \in Directions /\ stream[flow] \in Seq(Cells) /\ pos \in 0 .. Len(stream[flow])
         /\ Here1 \in 1 .. Len(stream[flow]) /\ pos < Len(stream[flow])
         /\ Rest[1] = HeadHere /\ HeadHere \in Cells /\ IsHead(HeadHere)
         /\ EndHere \in Here1 .. Len(stream[flow])
         /\ EndHere < Len(stream[flow]) => Begins(stream[flow][EndHere + 1])
         /\ \A m \in pos + 2 .. EndHere : ~IsHead(stream[flow][m])
         /\ InClient => HeadHere.cell = "request"
         /\ InServer => HeadHere.cell = "response"
         /\ ~IsError(Rest[1], Tail(Rest)) =>
              /\ IsComplete(stream, flow, Here1)
              /\ 1 + BodyLength(Rest[1], Tail(Rest)) = EndHere - pos
         /\ IsError(Rest[1], Tail(Rest)) /\ IsComplete(stream, flow, Here1) =>
              HeadHere.coding = "opaque"
<1>1. /\ flow \in Directions /\ (InServer <=> flow = "server") /\ (InClient <=> flow = "client")
      /\ Here1 \in 1 .. Len(stream[flow]) /\ pos < Len(stream[flow]) /\ pos \in 0 .. Len(stream[flow])
      /\ Rest[1] = HeadHere /\ stream[flow] \in Seq(Cells)
      /\ Tail(Rest) \in Seq(Cells) /\ Len(Tail(Rest)) = Len(stream[flow]) - Here1
      /\ \A k \in 1 .. Len(Tail(Rest)) : Tail(Rest)[k] = stream[flow][Here1 + k]
  BY Here DEF Turn, Here1, HeadHere
<1>2. IsHead(HeadHere)
  BY <1>1 DEF AtHead, IsHead
<1>3. /\ HeadHere \in Cells
      /\ IsComplete(stream, flow, Here1) \/ IsCut(stream, flow, Here1)
      /\ InClient => HeadHere.cell = "request"
      /\ InServer => HeadHere.cell = "response"
  BY <1>1, <1>2, HeadKinds DEF HeadHere, IInv
<1>4. /\ EndHere \in Here1 .. Len(stream[flow])
      /\ EndHere < Len(stream[flow]) => Begins(stream[flow][EndHere + 1])
      /\ \A m \in Here1 + 1 .. EndHere : ~Begins(stream[flow][m])
  BY <1>1, MessageEndFacts DEF EndHere
<1>5. \A m \in pos + 2 .. EndHere : ~IsHead(stream[flow][m])
  <2>1. Here1 + 1 = pos + 2
    BY <1>1 DEF Here1
  <2> QED BY <1>4, <2>1 DEF Begins
<1>6. Agrees(flow, Here1)
  BY QueueAgrees DEF Here1
<1> DEFINE cells == Tail(Rest)
<1>8. /\ cells \in Seq(Cells) /\ Len(cells) = Len(stream[flow]) - Here1
      /\ \A k \in 1 .. Len(cells) : cells[k] = stream[flow][Here1 + k]
  BY <1>1
<1> HIDE DEF cells
<1>9. /\ ~IsError(HeadHere, cells) =>
           IsComplete(stream, flow, Here1) /\ BodyLength(HeadHere, cells) = EndHere - Here1
      /\ IsError(HeadHere, cells) /\ IsComplete(stream, flow, Here1) =>
           HeadHere.coding = "opaque"
  BY <1>1, <1>2, <1>3, <1>6, <1>8, Framing DEF HeadHere, EndHere
<1>10. ~IsError(HeadHere, cells) => 1 + BodyLength(HeadHere, cells) = EndHere - pos
  BY <1>1, <1>4, <1>9 DEF Here1
<1> QED BY <1>1, <1>2, <1>3, <1>4, <1>5, <1>9, <1>10 DEF cells

LEMMA HowFramedType ==
  ASSUME NEW head \in Cells, IsHead(head)
  PROVE  HowFramed(head) \in {"no_body", "close", "length", "chunked"}
BY HeadFacts DEF HowFramed, Framings, IsHead

LEMMA MessageTaken ==
  ASSUME IInv, RewriteMessage
  PROVE  /\ Turn /\ AtHead /\ Remember(HeadHere)
         /\ IsComplete(stream, flow, Here1)
         /\ pos' = EndHere /\ stream' = stream /\ flows' = flows /\ rejected' = rejected
         /\ spans' = [spans EXCEPT ![flow] =
                        @ \cup {[kind |-> "message", from |-> Here1, to |-> EndHere]}]
         /\ \E cells : /\ Presentable(cells)
                       /\ output' = [output EXCEPT ![flow] = @ \o cells]
<1> DEFINE length == BodyLength(Rest[1], Tail(Rest))
           body == SubSeq(Rest, 2, 1 + length)
<1>1. /\ Turn /\ ~AsFrames /\ AtHead
      /\ ~IsError(Rest[1], Tail(Rest)) /\ Remember(Rest[1])
      /\ Emit("message", 1 + length, NewMessage(Rest[1], body))
      /\ rejected' = rejected
  BY DEF RewriteMessage
<1>2. /\ flow \in Directions /\ pos \in 0 .. Len(stream[flow]) /\ stream[flow] \in Seq(Cells)
      /\ Rest[1] = HeadHere /\ HeadHere \in Cells /\ IsHead(HeadHere)
      /\ EndHere \in Here1 .. Len(stream[flow])
      /\ IsComplete(stream, flow, Here1)
      /\ 1 + length = EndHere - pos
  BY <1>1, HeadInFront
<1>3. pos + (1 + length) = EndHere
  <2> HIDE DEF length
  <2> QED BY <1>2
<1>4. /\ pos' = EndHere /\ stream' = stream /\ flows' = flows
      /\ spans' = [spans EXCEPT ![flow] =
                     @ \cup {[kind |-> "message", from |-> Here1, to |-> EndHere]}]
      /\ output' = [output EXCEPT ![flow] = @ \o NewMessage(HeadHere, body)]
  <2> HIDE DEF length, body
  <2> QED BY <1>1, <1>2, <1>3 DEF Emit, Span, Here1
<1>5. body \in Seq(Cells)
  <2>1. Rest \in Seq(Cells) /\ Len(Rest) = Len(stream[flow]) - pos
    BY <1>1, Here DEF Turn
  <2>2. 1 + length \in 1 .. Len(Rest)
    <3> HIDE DEF length
    <3> QED BY <1>2, <2>1 DEF Here1
  <2>3. \A k \in 1 .. Len(Rest) : Rest[k] \in Cells
    BY <2>1
  <2> HIDE DEF length
  <2> QED BY <2>1, <2>2, <2>3
<1> HIDE DEF body
<1>6. Presentable(NewMessage(HeadHere, body))
  BY <1>2, <1>5, HowFramedType, NewMessageIsQuiet, QuietIsPresentable
<1> QED BY <1>1, <1>2, <1>4, <1>6

LEMMA SameFlow ==
  ASSUME stream' = stream, flows' = flows
  PROVE  /\ flow' = flow /\ (InClient' <=> InClient) /\ (InServer' <=> InServer)
         /\ Client' = Client /\ Server' = Server
         /\ \A d : Done(d)' <=> Done(d)
         /\ RequestsAreKnown' <=> RequestsAreKnown
BY DEF flow, InClient, InServer, Client, Server, Done, RequestsAreKnown

LEMMA MovesOn ==
  ASSUME IInv, flows # << >>, stream' = stream, flows' = flows, rejected' = rejected,
         pos' \in pos .. Len(stream[flow]),
         pos' < Len(stream[flow]) => Begins(stream[flow][pos' + 1])
  PROVE  FlowsInv' /\ BoundaryInv'
<1>1. /\ flow' = flow /\ \A d : Done(d)' <=> Done(d)
  BY SameFlow
<1>2. FlowsInv /\ pos \in Nat /\ flow \in Directions /\ Len(stream[flow]) \in Nat
  BY Here DEF IInv, FlowsInv
<1>3. BoundaryInv'
  BY <1>1 DEF BoundaryInv
<1>4. FlowsInv'
  BY <1>1, <1>2 DEF FlowsInv, flow
<1> QED BY <1>3, <1>4

\* A span that is of one of the three kinds can be added.
LEMMA SpanAdded ==
  ASSUME IInv, flows # << >>, stream' = stream, NEW s,
         spans' = [spans EXCEPT ![flow] = @ \cup {s}],
         CASE s.kind = "message" ->
                IsHead(stream[flow][s.from]) /\ s.to = MessageEnd(stream[flow], s.from)
           [] s.kind = "frames" -> \A n \in s.from .. s.to : stream[flow][n].cell = "frame"
           [] s.kind = "tail" ->
                /\ IsHead(stream[flow][s.from])
                /\ IsComplete(stream, flow, s.from) => stream[flow][s.from].coding = "opaque"
  PROVE  MessagesAreFramed' /\ spans' = [d \in Directions |-> spans'[d]]
<1>1. flow \in Directions /\ spans = [d \in Directions |-> spans[d]] /\ MessagesAreFramed
  BY Here DEF IInv
<1>2. /\ spans' = [d \in Directions |-> spans'[d]]
      /\ \A d \in Directions : \A t \in spans'[d] : t \in spans[d] \/ (d = flow /\ t = s)
  BY <1>1
<1> DEFINE Framed(d, t) ==
      CASE t.kind = "message" ->
             IsHead(stream[d][t.from]) /\ t.to = MessageEnd(stream[d], t.from)
        [] t.kind = "frames" -> \A n \in t.from .. t.to : stream[d][n].cell = "frame"
        [] t.kind = "tail" ->
             /\ IsHead(stream[d][t.from])
             /\ IsComplete(stream, d, t.from) => stream[d][t.from].coding = "opaque"
<1>3. \A d \in Directions : \A t \in spans[d] : Framed(d, t)
  BY <1>1 DEF MessagesAreFramed
<1>4. Framed(flow, s)
  OBVIOUS
<1>6. MessagesAreFramed' <=> \A d \in Directions : \A t \in spans'[d] : Framed(d, t)
  BY DEF MessagesAreFramed
<1> HIDE DEF Framed
<1>5. \A d \in Directions : \A t \in spans'[d] : Framed(d, t)
  BY <1>2, <1>3, <1>4
<1> QED BY <1>2, <1>5, <1>6

-----------------------------------------------------------------------------
(***************************************************************************)
(* A message keeps the queue of the methods: a request is added at its     *)
(* end, and a final answer takes one from its head.                        *)
(***************************************************************************)
LEMMA MessageKeepsQueueOfClient ==
  ASSUME IInv, RewriteMessage, InClient
  PROVE  QueueInv'
<1>1. /\ Turn /\ AtHead /\ Remember(HeadHere)
      /\ pos' = EndHere /\ stream' = stream /\ flows' = flows
  BY MessageTaken
<1>2. /\ stream[flow] = Client /\ Client \in Seq(Cells) /\ pos \in 0 .. Len(Client)
      /\ HeadHere \in Cells /\ IsHead(HeadHere) /\ HeadHere.cell = "request"
      /\ HeadHere = Client[pos + 1] /\ pos < Len(Client)
      /\ EndHere \in pos + 1 .. Len(Client)
      /\ \A m \in pos + 2 .. EndHere : ~IsHead(Client[m])
      /\ ~InServer
  BY <1>1, HeadInFront DEF InClient, InServer, Client, Here1, HeadHere
<1>3. InClient' /\ ~InServer' /\ Client' = Client /\ Server' = Server
  BY <1>1, <1>2, SameFlow
<1>4. /\ methods \in Seq(Methods) /\ Len(methods) = Cardinality(Asked)
      /\ \A m \in Asked : NumberOf(m) > Answered =>
           /\ NumberOf(m) - Answered <= Len(methods)
           /\ methods[NumberOf(m) - Answered] = Client[m].method
      /\ \A k \in 1 .. Len(methods) : \E m \in Asked :
           NumberOf(m) = k + Answered /\ Client[m].method = methods[k]
  BY DEF IInv, QueueInv
<1>5. /\ Asked = RequestsUpTo(Client, pos) /\ Answered = 0
      /\ Asked' = RequestsUpTo(Client, EndHere) /\ Answered' = 0
  BY <1>1, <1>2, <1>3 DEF Asked, Answered
<1>6. /\ Asked' = Asked \cup {pos + 1}
      /\ RequestsUpTo(Client, pos + 1) = Asked'
      /\ Cardinality(Asked') = Cardinality(Asked) + 1
  BY <1>2, <1>5, CountingOneMore
<1>7. methods' = Append(methods, HeadHere.method) /\ HeadHere.method \in Methods
  BY <1>1, <1>2, HeadFacts DEF Remember
<1>8. /\ methods' \in Seq(Methods) /\ Len(methods') = Len(methods) + 1 /\ Len(methods) \in Nat
      /\ \A k \in 1 .. Len(methods) : methods'[k] = methods[k]
      /\ methods'[Len(methods) + 1] = HeadHere.method
  BY <1>4, <1>7
<1>9. NumberOf(pos + 1) = Len(methods) + 1
  BY <1>4, <1>6 DEF NumberOf
<1>10. \A m \in Asked : NumberOf(m) \in Nat
  <2>1. \A m \in Asked : m \in 0 .. Len(Client)
    BY <1>2, <1>5 DEF RequestsUpTo
  <2> QED BY <1>2, <2>1, Counting DEF NumberOf
<1>11. \A m : NumberOf(m)' = NumberOf(m)
  BY <1>3 DEF NumberOf
<1>12. ASSUME NEW m \in Asked', NumberOf(m) > 0
       PROVE  /\ NumberOf(m) <= Len(methods')
              /\ methods'[NumberOf(m)] = Client[m].method
  <2>1. CASE m \in Asked
    <3>1. NumberOf(m) \in 1 .. Len(methods) /\ methods[NumberOf(m)] = Client[m].method
      BY <1>4, <1>5, <1>8, <1>10, <1>12, <2>1
    <3> QED BY <1>8, <3>1
  <2>2. CASE m = pos + 1
    BY <1>2, <1>8, <1>9, <2>2
  <2> QED BY <1>6, <2>1, <2>2
<1>13. ASSUME NEW k \in 1 .. Len(methods')
       PROVE  \E m \in Asked' : NumberOf(m) = k /\ Client[m].method = methods'[k]
  <2>1. CASE k \in 1 .. Len(methods)
    <3>1. PICK m \in Asked : NumberOf(m) = k + Answered /\ Client[m].method = methods[k]
      BY <1>4, <2>1
    <3> QED BY <1>5, <1>6, <1>8, <2>1, <3>1
  <2>2. CASE k = Len(methods) + 1
    BY <1>2, <1>6, <1>8, <1>9, <2>2
  <2> QED BY <1>8, <2>1, <2>2
<1>14. \A m \in Asked' : NumberOf(m) \in Nat
  BY <1>6, <1>8, <1>9, <1>10
<1>15. /\ \A m \in Asked' : NumberOf(m)' > Answered' =>
            /\ NumberOf(m)' - Answered' <= Len(methods')
            /\ methods'[NumberOf(m)' - Answered'] = Client'[m].method
       /\ \A k \in 1 .. Len(methods') : \E m \in Asked' :
            NumberOf(m)' = k + Answered' /\ Client'[m].method = methods'[k]
  BY <1>3, <1>5, <1>11, <1>12, <1>13, <1>14
<1>16. Len(methods') = Cardinality(Asked')
  BY <1>4, <1>6, <1>8
<1> QED BY <1>3, <1>8, <1>15, <1>16 DEF QueueInv

LEMMA MessageKeepsQueueOfServer ==
  ASSUME IInv, RewriteMessage, InServer
  PROVE  QueueInv'
<1>1. /\ Turn /\ AtHead /\ Remember(HeadHere)
      /\ pos' = EndHere /\ stream' = stream /\ flows' = flows
  BY MessageTaken
<1>2. /\ stream[flow] = Server /\ Server \in Seq(Cells) /\ pos \in 0 .. Len(Server)
      /\ HeadHere \in Cells /\ IsHead(HeadHere) /\ HeadHere.cell = "response"
      /\ HeadHere = Server[pos + 1] /\ pos < Len(Server)
      /\ EndHere \in pos + 1 .. Len(Server)
      /\ \A m \in pos + 2 .. EndHere : ~IsHead(Server[m])
      /\ ~InClient
  BY <1>1, HeadInFront DEF InClient, InServer, Server, Here1, HeadHere
<1>3. InServer' /\ ~InClient' /\ Client' = Client /\ Server' = Server
  BY <1>1, <1>2, SameFlow
<1>4. /\ methods \in Seq(Methods)
      /\ \A m \in Asked : NumberOf(m) > Answered =>
           /\ NumberOf(m) - Answered <= Len(methods)
           /\ methods[NumberOf(m) - Answered] = Client[m].method
      /\ \A k \in 1 .. Len(methods) : \E m \in Asked :
           NumberOf(m) = k + Answered /\ Client[m].method = methods[k]
  BY <1>2 DEF IInv, QueueInv
<1>5. /\ Answered = Cardinality(AnswersUpTo(Server, pos))
      /\ Answered' = Cardinality(AnswersUpTo(Server, EndHere))
      /\ Answered \in Nat /\ Asked' = Asked /\ Asked = RequestsUpTo(Client, Len(Client))
  <2>1. Cardinality(AnswersUpTo(Server, pos)) \in Nat
    BY <1>2, Counting
  <2> QED BY <1>1, <1>2, <1>3, <2>1 DEF Asked, Answered
<1>6. Client \in Seq(Cells)
  BY ConversationFacts DEF IInv
<1>7. \A m \in Asked : NumberOf(m) \in Nat
  <2>1. \A m \in Asked : m \in 0 .. Len(Client)
    BY <1>5, <1>6 DEF RequestsUpTo
  <2> QED BY <1>6, <2>1, Counting DEF NumberOf
<1>8. \A m : NumberOf(m)' = NumberOf(m)
  BY <1>3 DEF NumberOf
<1>9. /\ methods' = MethodsAfter(HeadHere)
      /\ IsInterim(HeadHere) => Answered' = Answered
      /\ ~IsInterim(HeadHere) => Answered' = Answered + 1
  <2>1. methods' = MethodsAfter(HeadHere)
    BY <1>1, <1>2 DEF Remember
  <2>2. ~IsInterim(HeadHere) =>
          Cardinality(AnswersUpTo(Server, EndHere)) = Cardinality(AnswersUpTo(Server, pos)) + 1
    BY <1>2, CountingOneMore
  <2>3. IsInterim(HeadHere) => AnswersUpTo(Server, EndHere) = AnswersUpTo(Server, pos)
    BY <1>2, CountingOneMore
  <2> QED BY <1>5, <2>1, <2>2, <2>3
<1>10. /\ methods' \in Seq(Methods)
       /\ \A m \in Asked : NumberOf(m) > Answered' =>
            /\ NumberOf(m) - Answered' <= Len(methods')
            /\ methods'[NumberOf(m) - Answered'] = Client[m].method
       /\ \A k \in 1 .. Len(methods') : \E m \in Asked :
            NumberOf(m) = k + Answered' /\ Client[m].method = methods'[k]
  <2>1. CASE IsInterim(HeadHere)
    BY <1>4, <1>9, <2>1 DEF MethodsAfter
  <2>2. CASE ~IsInterim(HeadHere) /\ methods = << >>
    <3>1. methods' = methods /\ Answered' = Answered + 1 /\ Len(methods) = 0
      BY <1>9, <2>2 DEF MethodsAfter
    <3>2. \A m \in Asked : ~(NumberOf(m) > Answered)
      BY <1>4, <1>5, <1>7, <3>1
    <3>3. \A m \in Asked : ~(NumberOf(m) > Answered')
      BY <1>5, <1>7, <3>1, <3>2
    <3> QED BY <1>4, <3>1, <3>3
  <2>3. CASE ~IsInterim(HeadHere) /\ methods # << >>
    <3>1. methods' = Tail(methods) /\ Answered' = Answered + 1
      BY <1>9, <2>3 DEF MethodsAfter
    <3>2. /\ methods' \in Seq(Methods) /\ Len(methods') = Len(methods) - 1 /\ Len(methods) \in Nat
          /\ \A k \in 1 .. Len(methods) - 1 : methods'[k] = methods[k + 1]
      BY <1>4, <2>3, <3>1
    <3>3. ASSUME NEW m \in Asked, NumberOf(m) > Answered'
          PROVE  /\ NumberOf(m) - Answered' <= Len(methods')
                 /\ methods'[NumberOf(m) - Answered'] = Client[m].method
      <4>1. /\ NumberOf(m) > Answered
            /\ NumberOf(m) - Answered' \in 1 .. Len(methods) - 1
            /\ (NumberOf(m) - Answered') + 1 = NumberOf(m) - Answered
        BY <1>4, <1>5, <1>7, <3>1, <3>2, <3>3
      <4>2. methods[NumberOf(m) - Answered] = Client[m].method
        BY <1>4, <4>1
      <4> DEFINE k == NumberOf(m) - Answered'
      <4>3. k \in 1 .. Len(methods) - 1 /\ methods[k + 1] = Client[m].method
        BY <4>1, <4>2
      <4> HIDE DEF k
      <4>4. k <= Len(methods') /\ methods'[k] = Client[m].method
        BY <3>2, <4>3
      <4> QED BY <4>4 DEF k
    <3>4. ASSUME NEW k \in 1 .. Len(methods')
          PROVE  \E m \in Asked : NumberOf(m) = k + Answered' /\ Client[m].method = methods'[k]
      <4>1. k + 1 \in 1 .. Len(methods) /\ methods'[k] = methods[k + 1]
        BY <3>2
      <4>2. PICK m \in Asked : NumberOf(m) = (k + 1) + Answered /\ Client[m].method = methods[k + 1]
        BY <1>4, <4>1
      <4>3. (k + 1) + Answered = k + Answered'
        BY <1>5, <3>1, <4>1
      <4> QED BY <4>1, <4>2, <4>3
    <3> QED BY <3>2, <3>3, <3>4
  <2> QED BY <2>1, <2>2, <2>3
<1>11. /\ \A m \in Asked' : NumberOf(m)' > Answered' =>
            /\ NumberOf(m)' - Answered' <= Len(methods')
            /\ methods'[NumberOf(m)' - Answered'] = Client'[m].method
       /\ \A k \in 1 .. Len(methods') : \E m \in Asked' :
            NumberOf(m)' = k + Answered' /\ Client'[m].method = methods'[k]
  BY <1>3, <1>5, <1>8, <1>10
<1> QED BY <1>3, <1>10, <1>11 DEF QueueInv

LEMMA MessageKeepsFlags ==
  ASSUME IInv, RewriteMessage
  PROVE  FlagsInv'
<1>1. /\ Turn /\ AtHead /\ Remember(HeadHere)
      /\ pos' = EndHere /\ stream' = stream /\ flows' = flows
  BY MessageTaken
<1>2. /\ flow \in Directions /\ stream[flow] \in Seq(Cells) /\ pos \in 0 .. Len(stream[flow])
      /\ HeadHere = stream[flow][pos + 1] /\ pos < Len(stream[flow])
      /\ HeadHere \in Cells /\ IsHead(HeadHere)
      /\ EndHere \in pos + 1 .. Len(stream[flow])
      /\ \A m \in pos + 2 .. EndHere : ~IsHead(stream[flow][m])
      /\ InClient => HeadHere.cell = "request" /\ stream[flow] = Client /\ ~InServer
      /\ InServer => HeadHere.cell = "response" /\ stream[flow] = Server /\ ~InClient
      /\ InClient \/ InServer
  BY <1>1, HeadInFront, Here DEF InClient, InServer, Client, Server, Here1, HeadHere, Turn
<1>3. /\ (InClient' <=> InClient) /\ (InServer' <=> InServer)
      /\ Client' = Client /\ Server' = Server
  BY <1>1, SameFlow
<1>4. FlagsInv /\ ~established
  BY <1>1 DEF IInv, RewriteMessage, AsFrames
<1>5. /\ pending' = PendingAfter(HeadHere)
      /\ established' = (established \/ IsSwitch(HeadHere))
      /\ deflate' = (deflate \/ (/\ HeadHere.ws = "deflate"
                                 /\ HeadHere.cell = "request" \/ IsSwitch(HeadHere)))
  BY <1>1 DEF Remember
<1>6. /\ {pending', established', deflate'} \subseteq BOOLEAN
      /\ ~(pending' /\ established')
  BY <1>4, <1>5 DEF PendingAfter, FlagsInv, IsSwitch, AsksForWebSocket
<1>7. \A m \in 1 .. EndHere : m \in 1 .. pos \/ m = pos + 1 \/ m \in pos + 2 .. EndHere
  BY <1>2
<1>8. ASSUME InClient
      PROVE  ~established' /\ \A m \in 1 .. EndHere : MayOpenFrames(Client[m]) => pending'
  <2>1. ~IsSwitch(HeadHere) /\ HeadHere.cell = "request"
    BY <1>2, <1>8 DEF IsSwitch
  <2>2. pending' = (pending \/ AsksForWebSocket(HeadHere)) /\ ~established'
    BY <1>4, <1>5, <2>1 DEF PendingAfter
  <2>3. ASSUME NEW m \in 1 .. EndHere, MayOpenFrames(Client[m]) PROVE pending'
    <3>1. CASE m \in 1 .. pos
      BY <1>4, <1>8, <2>2, <2>3, <3>1 DEF FlagsInv
    <3>2. CASE m = pos + 1
      BY <1>2, <1>8, <2>1, <2>2, <2>3, <3>2 DEF MayOpenFrames
    <3>3. CASE m \in pos + 2 .. EndHere
      <4>1. ~IsHead(Client[m])
        BY <1>2, <1>8, <3>3
      <4> QED BY <2>3, <4>1 DEF MayOpenFrames, IsSwitch, IsHead
    <3> QED BY <1>7, <3>1, <3>2, <3>3
  <2> QED BY <2>2, <2>3
<1>9. ASSUME InServer
      PROVE  established' <=> \E m \in 1 .. EndHere : IsSwitch(Server[m])
  <2>1. \A m \in 1 .. pos : ~IsSwitch(Server[m])
    BY <1>2, <1>4, <1>9 DEF FlagsInv
  <2>2. \A m \in pos + 2 .. EndHere : ~IsSwitch(Server[m])
    BY <1>2, <1>9 DEF IsHead, IsSwitch
  <2>3. pos + 1 \in 1 .. EndHere /\ HeadHere = Server[pos + 1]
    BY <1>2, <1>9
  <2>4. established' <=> IsSwitch(HeadHere)
    BY <1>4, <1>5
  <2> QED BY <1>7, <2>1, <2>2, <2>3, <2>4
<1>10. ASSUME deflate'
       PROVE  \E d \in Directions : \E m \in DOMAIN stream[d] :
                IsHead(stream[d][m]) /\ stream[d][m].ws = "deflate"
  <2>1. CASE deflate
    BY <1>4, <2>1 DEF FlagsInv
  <2>2. CASE ~deflate
    <3>1. HeadHere.ws = "deflate"
      BY <1>5, <1>10, <2>2
    <3>2. pos + 1 \in DOMAIN stream[flow]
      BY <1>2
    <3> QED BY <1>2, <3>1, <3>2
  <2> QED BY <2>1, <2>2
<1>11. /\ InClient' => /\ ~established'
                       /\ \A m \in 1 .. pos' : MayOpenFrames(Client'[m]) => pending'
       /\ InServer' /\ pos' < Len(Server') =>
            (established' <=> \E m \in 1 .. pos' : IsSwitch(Server'[m]))
       /\ deflate' => \E d \in Directions : \E m \in DOMAIN stream'[d] :
                        IsHead(stream'[d][m]) /\ stream'[d][m].ws = "deflate"
  BY <1>1, <1>3, <1>8, <1>9, <1>10
<1> QED BY <1>6, <1>11 DEF FlagsInv

LEMMA MessageStep ==
  ASSUME IInv, RewriteMessage
  PROVE  IInv'
<1>1. /\ Turn /\ AtHead /\ IsComplete(stream, flow, Here1)
      /\ pos' = EndHere /\ stream' = stream /\ flows' = flows /\ rejected' = rejected
      /\ spans' = [spans EXCEPT ![flow] =
                     @ \cup {[kind |-> "message", from |-> Here1, to |-> EndHere]}]
  BY MessageTaken
<1>2. flows # << >>
  BY <1>1 DEF Turn
<1>3. /\ Here1 \in 1 .. Len(stream[flow]) /\ IsHead(HeadHere) /\ pos \in 0 .. Len(stream[flow])
      /\ EndHere \in Here1 .. Len(stream[flow])
      /\ EndHere < Len(stream[flow]) => Begins(stream[flow][EndHere + 1])
      /\ InClient \/ InServer
  BY <1>1, <1>2, HeadInFront, Here
<1>4. FlowsInv' /\ BoundaryInv'
  <2>1. pos' \in pos .. Len(stream[flow])
    BY <1>1, <1>3 DEF Here1
  <2> QED BY <1>1, <1>2, <1>3, <2>1, MovesOn
<1>5. MessagesAreFramed' /\ spans' = [d \in Directions |-> spans'[d]]
  BY <1>1, <1>2, <1>3, SpanAdded DEF HeadHere, EndHere
<1>6. OutputInv' /\ output' = [d \in Directions |-> output'[d]]
  <2>1. PICK cells : Presentable(cells) /\ output' = [output EXCEPT ![flow] = @ \o cells]
    BY MessageTaken
  <2> QED BY <1>1, <1>2, <2>1, EmitOutput
<1>7. QueueInv' /\ FlagsInv'
  BY <1>3, MessageKeepsQueueOfClient, MessageKeepsQueueOfServer, MessageKeepsFlags
<1>8. stream' \in Conversations
  BY <1>1 DEF IInv
<1> QED BY <1>4, <1>5, <1>6, <1>7, <1>8 DEF IInv

-----------------------------------------------------------------------------
(***************************************************************************)
(* The other steps take all that is left, and leave the shared state.      *)
(***************************************************************************)
LEMMA StateKept ==
  ASSUME IInv, Turn, stream' = stream, flows' = flows, UNCHANGED state,
         pos' = Len(stream[flow]),
         InServer \/ \A m \in pos + 1 .. Len(stream[flow]) : stream[flow][m].cell = "frame"
  PROVE  QueueInv' /\ FlagsInv'
<1>1. /\ InClient \/ InServer
      /\ InClient => stream[flow] = Client /\ ~InServer
      /\ InServer => stream[flow] = Server /\ ~InClient
      /\ stream[flow] \in Seq(Cells) /\ pos \in 0 .. Len(stream[flow]) /\ pos < Len(stream[flow])
  BY Here DEF Turn, Client, Server, InClient, InServer
<1>2. /\ (InClient' <=> InClient) /\ (InServer' <=> InServer)
      /\ Client' = Client /\ Server' = Server
  BY SameFlow
<1>3. /\ methods' = methods /\ pending' = pending /\ established' = established
      /\ deflate' = deflate
  BY DEF state
<1>4. QueueInv /\ FlagsInv
  BY DEF IInv
<1>5. ASSUME InServer PROVE QueueInv' /\ FlagsInv'
  <2>1. InServer' /\ ~InClient' /\ ~(pos' < Len(Server'))
    BY <1>1, <1>2, <1>5
  <2>2. QueueInv'
    BY <1>3, <1>4, <2>1 DEF QueueInv
  <2>3. FlagsInv'
    BY <1>3, <1>4, <2>1 DEF FlagsInv
  <2> QED BY <2>2, <2>3
<1>6. ASSUME InClient PROVE QueueInv' /\ FlagsInv'
  <2>1. InClient' /\ ~InServer' /\ ~InServer /\ stream[flow] = Client
    BY <1>1, <1>2, <1>6
  <2>2. \A m \in pos + 1 .. Len(Client) : Client[m].cell = "frame"
    BY <2>1
  <2>3. \A m \in pos + 1 .. Len(Client) : ~IsHead(Client[m])
    BY <2>2 DEF IsHead
  <2>4. RequestsUpTo(Client, Len(Client)) = RequestsUpTo(Client, pos)
    BY <1>1, <2>1, <2>3, CountingNoMore
  <2>5. Asked' = Asked /\ Answered' = Answered
    BY <1>2, <1>6, <2>1, <2>4 DEF Asked, Answered
  <2>6. \A m : NumberOf(m)' = NumberOf(m)
    BY <1>2 DEF NumberOf
  <2>7. QueueInv'
    BY <1>2, <1>3, <1>4, <1>6, <2>1, <2>5, <2>6 DEF QueueInv
  <2>8. ASSUME NEW m \in 1 .. Len(Client), MayOpenFrames(Client[m]) PROVE pending
    <3>1. m \in 1 .. pos \/ m \in pos + 1 .. Len(Client)
      BY <1>1, <2>1
    <3>2. Client[m].cell # "frame"
      BY <2>8 DEF MayOpenFrames, IsSwitch
    <3>3. m \in 1 .. pos
      BY <2>2, <3>1, <3>2
    <3> QED BY <1>4, <1>6, <2>8, <3>3 DEF FlagsInv
  <2>9. FlagsInv'
    <3>1. ~established' /\ \A m \in 1 .. pos' : MayOpenFrames(Client'[m]) => pending'
      BY <1>2, <1>3, <1>4, <1>6, <2>1, <2>8 DEF FlagsInv
    <3>2. /\ {pending', established', deflate'} \subseteq BOOLEAN
          /\ ~(pending' /\ established')
      BY <1>3, <1>4 DEF FlagsInv
    <3>3. deflate' => \E d \in Directions : \E m \in DOMAIN stream'[d] :
                        IsHead(stream'[d][m]) /\ stream'[d][m].ws = "deflate"
      BY <1>3, <1>4 DEF FlagsInv
    <3> QED BY <2>1, <3>1, <3>2, <3>3 DEF FlagsInv
  <2> QED BY <2>7, <2>9
<1> QED BY <1>1, <1>5, <1>6

\* All that is left is emitted.
LEMMA RestStep ==
  ASSUME IInv, Turn, NEW kind, NEW cells, Presentable(cells),
         Emit(kind, Len(Rest), cells), UNCHANGED <<state, rejected>>,
         \/ /\ kind = "frames"
            /\ \A n \in 1 .. Len(Rest) : Rest[n].cell = "frame"
         \/ /\ kind = "tail" /\ InServer /\ AtHead
            /\ IsComplete(stream, flow, pos + 1) => Rest[1].coding = "opaque"
  PROVE  IInv'
<1>1. /\ flow \in Directions /\ flows # << >> /\ (InClient \/ InServer)
      /\ stream[flow] \in Seq(Cells) /\ pos \in 0 .. Len(stream[flow]) /\ pos < Len(stream[flow])
      /\ Len(Rest) = Len(stream[flow]) - pos
      /\ \A k \in 1 .. Len(stream[flow]) - pos : Rest[k] = stream[flow][pos + k]
      /\ Rest[1] = stream[flow][pos + 1]
  BY Here DEF Turn
<1> DEFINE s == [kind |-> kind, from |-> pos + 1, to |-> pos + Len(Rest)]
<1>2. /\ pos' = Len(stream[flow]) /\ stream' = stream /\ flows' = flows /\ rejected' = rejected
      /\ UNCHANGED state
      /\ output' = [output EXCEPT ![flow] = @ \o cells]
      /\ spans' = [spans EXCEPT ![flow] = @ \cup {s}]
  BY <1>1 DEF Emit, Span
<1>3. ASSUME \A n \in 1 .. Len(Rest) : Rest[n].cell = "frame",
             NEW m \in pos + 1 .. Len(stream[flow])
      PROVE  stream[flow][m].cell = "frame"
  <2>1. m - pos \in 1 .. Len(Rest) /\ pos + (m - pos) = m
    BY <1>1
  <2> QED BY <1>1, <1>3, <2>1
<1>4. QueueInv' /\ FlagsInv'
  BY <1>1, <1>2, <1>3, StateKept
<1>5. FlowsInv' /\ BoundaryInv'
  BY <1>1, <1>2, MovesOn
<1>6. OutputInv' /\ output' = [d \in Directions |-> output'[d]]
  BY <1>1, <1>2, EmitOutput
<1>7. MessagesAreFramed' /\ spans' = [d \in Directions |-> spans'[d]]
  <2>1. CASE kind = "frames" /\ \A n \in 1 .. Len(Rest) : Rest[n].cell = "frame"
    <3>1. /\ s.kind = "frames" /\ s.from = pos + 1 /\ s.to = Len(stream[flow])
      BY <1>1, <2>1
    <3>2. \A n \in s.from .. s.to : stream[flow][n].cell = "frame"
      BY <1>3, <2>1, <3>1
    <3> HIDE DEF s
    <3> QED BY <1>1, <1>2, <3>1, <3>2, SpanAdded
  <2>2. CASE /\ kind = "tail" /\ InServer /\ AtHead
             /\ IsComplete(stream, flow, pos + 1) => Rest[1].coding = "opaque"
    <3>1. s.kind = "tail" /\ s.from = pos + 1
      BY <2>2
    <3>2. IsHead(stream[flow][s.from])
      BY <1>1, <2>2, <3>1 DEF AtHead, IsHead
    <3>3. IsComplete(stream, flow, s.from) => stream[flow][s.from].coding = "opaque"
      BY <1>1, <2>2, <3>1
    <3> HIDE DEF s
    <3> QED BY <1>1, <1>2, <3>1, <3>2, <3>3, SpanAdded
  <2> QED BY <2>1, <2>2
<1>8. stream' \in Conversations
  BY <1>2 DEF IInv
<1> QED BY <1>4, <1>5, <1>6, <1>7, <1>8 DEF IInv

\* Cells that are made of the cells that are left, one of each.
LEMMA CellByCell ==
  ASSUME IInv, Turn, NEW cells, cells = [n \in DOMAIN Rest |-> cells[n]],
         \A n \in 1 .. Len(Rest) :
           OffersAreAccepted =>
             /\ cells[n].ip \in BOOLEAN
             /\ cells[n].ip => /\ cells[n] = Rest[n] /\ Rest[n].cell = "frame"
                               /\ IsControl(Rest[n]) \/ Rest[n].deflated
  PROVE  Presentable(cells)
<1>1. /\ stream[flow] \in Seq(Cells) /\ pos \in 0 .. Len(stream[flow])
      /\ Rest \in Seq(Cells) /\ Len(Rest) = Len(stream[flow]) - pos
      /\ \A k \in 1 .. Len(stream[flow]) - pos : Rest[k] = stream[flow][pos + k]
  BY Here DEF Turn
<1>2. DOMAIN Rest = 1 .. Len(Rest) /\ Len(Rest) \in Nat
  BY <1>1
<1>3. cells = [n \in 1 .. Len(Rest) |-> cells[n]]
  BY <1>2
<1>4. cells \in Seq({cells[n] : n \in 1 .. Len(Rest)}) /\ Len(cells) = Len(Rest)
  BY <1>2, <1>3
<1>5. ASSUME OffersAreAccepted, NEW k \in 1 .. Len(cells), cells[k].ip
      PROVE  Remains(stream[flow], cells[k])
  <2>1. cells[k] = Rest[k] /\ Rest[k].cell = "frame" /\ (IsControl(Rest[k]) \/ Rest[k].deflated)
    BY <1>4, <1>5
  <2>2. Rest[k] = stream[flow][pos + k] /\ pos + k \in DOMAIN stream[flow]
    BY <1>1, <1>4
  <2> QED BY <2>1, <2>2 DEF Remains
<1> QED BY <1>4, <1>5 DEF Presentable

\* What is known of each cell that is left.
LEMMA RestCells ==
  ASSUME IInv, Turn, NEW n \in 1 .. Len(Rest)
  PROVE  /\ Rest[n] \in Cells
         /\ Rest[n].cell = "frame" => Rest[n] \in Frames /\ (Rest[n].masked <=> flow = "client")
         /\ OffersAreAccepted /\ deflate /\ Rest[n].cell = "frame" /\ Rest[n].ip =>
              IsControl(Rest[n]) \/ Rest[n].deflated
<1>1. /\ flow \in Directions /\ stream[flow] \in Seq(Cells) /\ pos \in 0 .. Len(stream[flow])
      /\ Len(Rest) = Len(stream[flow]) - pos
      /\ \A k \in 1 .. Len(stream[flow]) - pos : Rest[k] = stream[flow][pos + k]
  BY Here DEF Turn
<1>2. Rest[n] = stream[flow][pos + n] /\ pos + n \in 1 .. Len(stream[flow])
  BY <1>1
<1>3. Rest[n] \in Cells
  BY <1>1, <1>2
<1>4. Rest[n].cell = "frame" => (Rest[n].masked <=> flow = "client")
  BY <1>1, <1>2, ConversationFacts DEF IInv
<1>5. ASSUME OffersAreAccepted, deflate, Rest[n].cell = "frame", Rest[n].ip
      PROVE  IsControl(Rest[n]) \/ Rest[n].deflated
  <2>1. \E d \in Directions : \E m \in DOMAIN stream[d] :
          IsHead(stream[d][m]) /\ stream[d][m].ws = "deflate"
    BY <1>5 DEF IInv, FlagsInv
  <2>2. pos + n \in DOMAIN stream[flow]
    BY <1>1, <1>2
  <2> QED BY <1>1, <1>2, <1>5, <2>1, <2>2 DEF OffersAreAccepted
<1> QED BY <1>3, <1>4, <1>5, CellFacts

LEMMA TailStep ==
  ASSUME IInv, RequestsAreKnown, ReplaceTail
  PROVE  IInv'
<1> DEFINE cells == [n \in DOMAIN Rest |-> IF ShowsIp(Rest[n]) THEN Replaced(Rest[n])
                                           ELSE Rest[n]]
<1>1. /\ Turn /\ ~AsFrames /\ (AtHead => IsError(Rest[1], Tail(Rest)))
      /\ Emit("tail", Len(Rest), cells) /\ UNCHANGED <<state, rejected>>
  BY DEF ReplaceTail
<1>2. AtHead /\ Turn
  BY <1>1, OnlyFrames
<1>3. /\ IsComplete(stream, flow, pos + 1) => Rest[1].coding = "opaque"
      /\ InClient \/ InServer
      /\ pos + 1 \in 1 .. Len(stream[flow]) /\ IsHead(stream[flow][pos + 1])
      /\ Rest[1] = stream[flow][pos + 1] /\ stream[flow] \in Seq(Cells)
  BY <1>1, <1>2, HeadInFront, Here DEF Here1, HeadHere, Turn
<1>4. InServer /\ flow = "server"
  <2>1. ASSUME InClient PROVE FALSE
    <3>1. stream[flow] = Client /\ DOMAIN Client = 1 .. Len(Client) /\ flow = "client"
      BY <1>3, <2>1 DEF InClient, Client
    <3>2. IsComplete(stream, "client", pos + 1) /\ Rest[1].coding # "opaque"
      BY <1>3, <3>1 DEF RequestsAreKnown
    <3> QED BY <1>3, <3>1, <3>2
  <2> QED BY <1>3, <2>1 DEF InServer
<1>5. Rest \in Seq(Cells)
  BY <1>2, Here DEF Turn
<1>6. ASSUME NEW n \in 1 .. Len(Rest)
      PROVE  /\ cells[n].ip \in BOOLEAN
             /\ cells[n].ip => /\ cells[n] = Rest[n] /\ Rest[n].cell = "frame"
                               /\ IsControl(Rest[n]) \/ Rest[n].deflated
  <2>1. Rest[n] \in Cells /\ n \in DOMAIN Rest
    BY <1>2, <1>5, RestCells
  <2>2. CASE ShowsIp(Rest[n])
    <3>1. cells[n] = Replaced(Rest[n])
      BY <2>1, <2>2
    <3>2. Replaced(Rest[n]).ip = FALSE
      BY <2>1 DEF Replaced, Cells, Requests, Responses, Pieces, Chunks, Frames
    <3> HIDE DEF cells
    <3> QED BY <3>1, <3>2
  <2>3. CASE ~ShowsIp(Rest[n])
    <3>1. cells[n] = Rest[n]
      BY <2>1, <2>3
    <3>2. Rest[n].ip \in BOOLEAN
      BY <2>1, CellFacts
    <3>3. ASSUME Rest[n].ip PROVE Rest[n].cell = "frame" /\ Rest[n].deflated
      <4>1. Rest[n].cell = "frame" /\ (Rest[n].masked \/ Rest[n].deflated)
        BY <2>3, <3>3 DEF ShowsIp
      <4>2. ~Rest[n].masked
        BY <1>2, <1>4, <4>1, RestCells
      <4> QED BY <4>1, <4>2
    <3> HIDE DEF cells
    <3> QED BY <3>1, <3>2, <3>3
  <2> QED BY <2>2, <2>3
<1>7. cells = [n \in DOMAIN Rest |-> cells[n]]
  OBVIOUS
<1> HIDE DEF cells
<1>8. Presentable(cells)
  BY <1>2, <1>6, <1>7, CellByCell
<1> QED BY <1>1, <1>2, <1>3, <1>4, <1>8, RestStep

LEMMA FramesStep ==
  ASSUME IInv, RewriteFrames
  PROVE  IInv'
<1> DEFINE cells == [n \in DOMAIN Rest |-> NewFrame(Rest[n])]
<1>1. /\ Turn /\ AsFrames /\ Emit("frames", Len(Rest), cells) /\ UNCHANGED <<state, rejected>>
  BY DEF RewriteFrames
<1>2. \A n \in 1 .. Len(Rest) : Rest[n].cell = "frame"
  BY <1>1, OnlyFrames
<1>3. Rest \in Seq(Cells)
  BY <1>1, Here DEF Turn
<1>4. ASSUME NEW n \in 1 .. Len(Rest)
      PROVE  /\ cells[n].ip \in BOOLEAN
             /\ cells[n].ip => /\ cells[n] = Rest[n] /\ Rest[n].cell = "frame"
                               /\ IsControl(Rest[n]) \/ Rest[n].deflated
  <2>1. Rest[n] \in Frames /\ cells[n] = NewFrame(Rest[n])
    BY <1>1, <1>2, <1>3, RestCells
  <2> HIDE DEF cells
  <2>2. CASE IsControl(Rest[n])
    BY <1>2, <2>1, <2>2 DEF NewFrame, Frames
  <2>3. CASE ~IsControl(Rest[n])
    <3>1. [Replaced(Rest[n]) EXCEPT !.length = Replaced(Rest[n]).size].ip = FALSE
      BY <2>1 DEF Replaced, Frames
    <3> QED BY <2>1, <2>3, <3>1 DEF NewFrame
  <2> QED BY <2>2, <2>3
<1>5. cells = [n \in DOMAIN Rest |-> cells[n]]
  OBVIOUS
<1> HIDE DEF cells
<1>6. Presentable(cells)
  BY <1>1, <1>4, <1>5, CellByCell
<1> QED BY <1>1, <1>2, <1>6, RestStep

LEMMA DeflatedStep ==
  ASSUME IInv, PassDeflated
  PROVE  IInv'
<1>1. /\ Turn /\ AsFrames /\ deflate /\ Emit("frames", Len(Rest), Rest)
      /\ UNCHANGED <<state, rejected>>
  BY DEF PassDeflated
<1>2. \A n \in 1 .. Len(Rest) : Rest[n].cell = "frame"
  BY <1>1, OnlyFrames
<1>3. Rest \in Seq(Cells)
  BY <1>1, Here DEF Turn
<1>4. ASSUME NEW n \in 1 .. Len(Rest), OffersAreAccepted
      PROVE  /\ Rest[n].ip \in BOOLEAN
             /\ Rest[n].ip => /\ Rest[n].cell = "frame"
                              /\ IsControl(Rest[n]) \/ Rest[n].deflated
  <2>1. Rest[n] \in Cells
    BY <1>1, RestCells
  <2> QED BY <1>1, <1>2, <1>4, <2>1, CellFacts, RestCells
<1>5. Rest = [n \in DOMAIN Rest |-> Rest[n]]
  BY <1>3
<1>6. Presentable(Rest)
  BY <1>1, <1>4, <1>5, CellByCell
<1> QED BY <1>1, <1>2, <1>6, RestStep

-----------------------------------------------------------------------------
(***************************************************************************)
(* The end of a flow: the next one starts with the queue as it is.         *)
(***************************************************************************)
LEMMA ShortQueues ==
  ASSUME NEW x, NEW y
  PROVE  /\ Tail(<<x, y>>) = <<y>> /\ Tail(<<x>>) = << >>
         /\ Range(<<x, y>>) = {x, y} /\ Range(<<x>>) = {x} /\ Range(<< >>) = {}
         /\ Head(<<x, y>>) = x /\ Head(<<x>>) = x
<1>1. Tail(<<x, y>>) = <<y>>
  OBVIOUS
<1>2. Tail(<<x>>) = << >>
  OBVIOUS
<1>3. Range(<<x, y>>) = {x, y}
  <2>1. DOMAIN <<x, y>> = {1, 2} /\ <<x, y>>[1] = x /\ <<x, y>>[2] = y
    OBVIOUS
  <2> DEFINE s == <<x, y>>
  <2> HIDE DEF s
  <2>2. DOMAIN s = {1, 2} /\ s[1] = x /\ s[2] = y
    BY <2>1 DEF s
  <2>3. Range(s) = {x, y}
    BY <2>2 DEF Range
  <2> QED BY <2>3 DEF s
<1>4. Range(<<x>>) = {x} /\ Range(<< >>) = {}
  BY DEF Range
<1>5. Head(<<x, y>>) = x /\ Head(<<x>>) = x
  OBVIOUS
<1> QED BY <1>1, <1>2, <1>3, <1>4, <1>5

LEMMA NextFlow ==
  ASSUME IInv, flows # << >>, stream' = stream, flows' = Tail(flows), pos' = 0,
         UNCHANGED state, rejected' \in {rejected, rejected \cup {flow}},
         \A m \in pos + 1 .. Len(stream[flow]) : stream[flow][m].cell = "frame"
  PROVE  FlowsInv' /\ BoundaryInv' /\ FlagsInv' /\ QueueInv'
<1>1. /\ flow \in Directions
      /\ flows \in {<<"client", "server">>, <<"client">>, <<"server">>}
      /\ rejected \subseteq Directions /\ \A d \in rejected : Done(d)
      /\ QueueInv /\ FlagsInv
  BY Here DEF IInv, FlowsInv
<1>2. /\ InClient => /\ stream[flow] = Client /\ ~InServer
                     /\ stream[flow] \in Seq(Cells) /\ pos \in 0 .. Len(stream[flow])
      /\ Client \in Seq(Cells) /\ Server \in Seq(Cells)
      /\ stream["client"] \in Seq(Cells) /\ stream["server"] \in Seq(Cells)
  BY Here, ConversationFacts DEF InClient, InServer, Client, Server, IInv
<1>3. /\ flows = <<"client", "server">> => flows' = <<"server">>
      /\ flows \in {<<"client">>, <<"server">>} => flows' = << >>
  <2>1. Tail(<<"client", "server">>) = <<"server">>
    BY ShortQueues
  <2>2. Tail(<<"client">>) = << >> /\ Tail(<<"server">>) = << >>
    BY ShortQueues
  <2>3. flows' = Tail(flows)
    OBVIOUS
  <2> QED BY <2>1, <2>2, <2>3
<1>4. /\ \A d : Done(d) => d \notin Range(flows')
      /\ flow \notin Range(flows')
  <2>1. CASE flows = <<"client", "server">>
    <3>1. flows' = <<"server">> /\ flow = "client"
      BY <1>3, <2>1 DEF flow
    <3>2. Range(flows) = {"client", "server"} /\ Range(flows') = {"server"}
      BY <2>1, <3>1, ShortQueues
    <3> QED BY <3>1, <3>2 DEF Done
  <2>2. CASE flows \in {<<"client">>, <<"server">>}
    <3>1. flows' = << >>
      BY <1>3, <2>2
    <3>2. Range(flows') = {}
      BY <3>1, ShortQueues
    <3> QED BY <3>2
  <2> QED BY <1>1, <2>1, <2>2
<1>5. Len(Client) \in Nat /\ Len(Server) \in Nat
  BY <1>2
<1>6. FlowsInv'
  <2>1. flows' \in {<<"client", "server">>, <<"client">>, <<"server">>, << >>}
    BY <1>1, <1>3
  <2>2. flows' # << >> => pos' <= Len(stream'[Head(flows')])
    <3>1. flows' # << >> => Head(flows') = "server"
      BY <1>1, <1>3
    <3> QED BY <1>5, <3>1 DEF Server
  <2>3. rejected' \subseteq Directions /\ \A d \in rejected' : Done(d)'
    <3>1. \A d : Done(d)' <=> d \notin Range(flows')
      BY DEF Done
    <3> QED BY <1>1, <1>4, <3>1
  <2> QED BY <2>1, <2>2, <2>3 DEF FlowsInv
<1>7. /\ methods' = methods /\ pending' = pending /\ established' = established
      /\ deflate' = deflate
  BY DEF state
<1>8. ~InClient' /\ Client' = Client /\ Server' = Server
  BY <1>1, <1>3 DEF InClient, flow, Client, Server
<1>9. InServer' => InClient /\ flow' = "server" /\ flows = <<"client", "server">>
  BY <1>1, <1>3 DEF InClient, InServer, flow
<1>10. BoundaryInv'
  <2>1. SUFFICES ASSUME flows' # << >>, pos' < Len(stream'[flow'])
                 PROVE  Begins(stream'[flow'][pos' + 1])
    BY DEF BoundaryInv
  <2>2. flow' = "server"
    BY <1>1, <1>3, <2>1 DEF flow
  <2>3. 1 \in 1 .. Len(stream["server"])
    BY <1>5, <2>1, <2>2 DEF Server
  <2>4. IsHead(stream["server"][1])
    BY <2>3, ConversationFacts DEF IInv, Directions
  <2> QED BY <2>2, <2>4 DEF Begins
<1>11. FlagsInv'
  <2>1. ASSUME InServer'
        PROVE  established' <=> \E m \in 1 .. pos' : IsSwitch(Server'[m])
    <3>1. ~established'
      BY <1>1, <1>7, <1>9, <2>1 DEF FlagsInv
    <3>2. 1 .. pos' = {}
      OBVIOUS
    <3> QED BY <3>1, <3>2
  <2>2. deflate' => \E d \in Directions : \E m \in DOMAIN stream'[d] :
                      IsHead(stream'[d][m]) /\ stream'[d][m].ws = "deflate"
    BY <1>1, <1>7 DEF FlagsInv
  <2>3. /\ {pending', established', deflate'} \subseteq BOOLEAN
        /\ ~(pending' /\ established')
    BY <1>1, <1>7 DEF FlagsInv
  <2> QED BY <1>8, <2>1, <2>2, <2>3 DEF FlagsInv
<1>12. QueueInv'
  <2>1. CASE ~InServer'
    BY <1>1, <1>7, <1>8, <2>1 DEF QueueInv
  <2>2. CASE InServer'
    <3>1. InClient /\ ~InServer /\ stream[flow] = Client /\ pos \in 0 .. Len(Client)
      BY <1>2, <1>9, <2>2
    <3>2. \A m \in pos + 1 .. Len(Client) : ~IsHead(Client[m])
      BY <3>1 DEF IsHead
    <3>3. RequestsUpTo(Client, Len(Client)) = RequestsUpTo(Client, pos)
      BY <1>2, <3>1, <3>2, CountingNoMore
    <3>4. Cardinality(AnswersUpTo(Server, 0)) = 0
      <4>1. AnswersUpTo(Server, 0) = {}
        BY DEF AnswersUpTo
      <4> QED BY <4>1, FS_EmptySet
    <3>5. Asked' = Asked /\ Answered = 0 /\ Answered' = 0
      BY <1>8, <2>2, <3>1, <3>3, <3>4 DEF Asked, Answered
    <3>6. \A m : NumberOf(m)' = NumberOf(m)
      BY <1>8 DEF NumberOf
    <3> QED BY <1>1, <1>7, <1>8, <2>2, <3>1, <3>5, <3>6 DEF QueueInv
  <2> QED BY <2>1, <2>2
<1> QED BY <1>6, <1>10, <1>11, <1>12

\* A frame because of which the stream of a direction is left as it is.
Refusable(d, n) ==
  /\ stream[d][n].cell = "frame"
  /\ Unsupported(stream[d][n]) \/ (IsControl(stream[d][n]) /\ ShowsIp(stream[d][n]))

LEMMA Rejecting ==
  ASSUME IInv, flows # << >>, stream' = stream, rejected' = rejected \cup {flow},
         output' = [output EXCEPT ![flow] = stream[flow]],
         OffersAreAccepted => \E n \in DOMAIN stream[flow] : Refusable(flow, n)
  PROVE  OutputInv' /\ output' = [d \in Directions |-> output'[d]]
<1>1. flow \in Directions /\ stream[flow] \in Seq(Cells)
  BY Here
<1>2. output = [d \in Directions |-> output[d]] /\ OutputInv
  BY DEF IInv
<1>3. /\ output' = [d \in Directions |-> output'[d]]
      /\ output'[flow] = stream[flow]
      /\ \A d \in Directions : d # flow => output'[d] = output[d]
  BY <1>1, <1>2
<1>4. \A d \in Directions : \E S : output'[d] \in Seq(S)
  <2>1. \A d \in Directions : d # flow => \E S : output'[d] \in Seq(S)
    BY <1>2, <1>3 DEF OutputInv
  <2> QED BY <1>1, <1>3, <2>1
<1>5. ASSUME OffersAreAccepted'
      PROVE  /\ \A d \in Directions \ rejected' : \A n \in DOMAIN output'[d] :
                  /\ output'[d][n].ip \in BOOLEAN
                  /\ output'[d][n].ip => Remains(stream'[d], output'[d][n])
             /\ SupportedFlowsAreRewritten'
  <2>1. OffersAreAccepted
    BY <1>5 DEF OffersAreAccepted
  <2>2. /\ \A d \in Directions \ rejected : \A n \in DOMAIN output[d] :
             /\ output[d][n].ip \in BOOLEAN
             /\ output[d][n].ip => Remains(stream[d], output[d][n])
        /\ \A d \in rejected : \E n \in DOMAIN stream[d] : Refusable(d, n)
    BY <1>2, <2>1 DEF OutputInv, SupportedFlowsAreRewritten, Refusable
  <2>3. \A d \in rejected' : \E n \in DOMAIN stream[d] : Refusable(d, n)
    BY <2>1, <2>2
  <2>4. SupportedFlowsAreRewritten'
    BY <2>3 DEF SupportedFlowsAreRewritten, Refusable
  <2>5. \A d \in Directions \ rejected' : d \in Directions \ rejected /\ output'[d] = output[d]
    BY <1>3
  <2> QED BY <2>2, <2>4, <2>5
<1>6. OutputInv'
  BY <1>4, <1>5 DEF OutputInv
<1> QED BY <1>3, <1>6

LEMMA SpansStay ==
  ASSUME MessagesAreFramed, stream' = stream, spans' = spans
  PROVE  MessagesAreFramed'
<1> DEFINE Framed(d, s, talk) ==
      CASE s.kind = "message" ->
             IsHead(talk[d][s.from]) /\ s.to = MessageEnd(talk[d], s.from)
        [] s.kind = "frames" -> \A n \in s.from .. s.to : talk[d][n].cell = "frame"
        [] s.kind = "tail" ->
             /\ IsHead(talk[d][s.from])
             /\ IsComplete(talk, d, s.from) => talk[d][s.from].coding = "opaque"
<1>1. \A d \in Directions : \A s \in spans[d] : Framed(d, s, stream)
  BY Zenon DEF MessagesAreFramed
<1>2. \A d \in Directions : \A s \in spans'[d] : Framed(d, s, stream')
  <2> HIDE DEF Framed
  <2> QED BY <1>1
<1> QED BY <1>2, Zenon DEF MessagesAreFramed

LEMMA RejectStep ==
  ASSUME IInv, RejectFrames
  PROVE  IInv'
<1>1. /\ Turn /\ AsFrames
      /\ IF deflate THEN AnyShowsIp(Rest) ELSE \E n \in DOMAIN Rest : IsFrameError(Rest[n])
      /\ rejected' = rejected \cup {flow} /\ output' = [output EXCEPT ![flow] = stream[flow]]
      /\ flows' = Tail(flows) /\ pos' = 0 /\ stream' = stream /\ spans' = spans
      /\ UNCHANGED state
  BY DEF RejectFrames
<1>2. /\ flows # << >> /\ stream[flow] \in Seq(Cells) /\ pos \in 0 .. Len(stream[flow])
      /\ Rest \in Seq(Cells) /\ Len(Rest) = Len(stream[flow]) - pos
      /\ \A k \in 1 .. Len(stream[flow]) - pos : Rest[k] = stream[flow][pos + k]
  BY <1>1, Here DEF Turn
<1>3. \A n \in 1 .. Len(Rest) : Rest[n].cell = "frame"
  BY <1>1, OnlyFrames
<1>4. ASSUME NEW m \in pos + 1 .. Len(stream[flow]) PROVE stream[flow][m].cell = "frame"
  <2>1. m - pos \in 1 .. Len(Rest) /\ pos + (m - pos) = m
    BY <1>2
  <2> QED BY <1>2, <1>3, <2>1
<1>5. FlowsInv' /\ BoundaryInv' /\ FlagsInv' /\ QueueInv'
  BY <1>1, <1>2, <1>4, NextFlow
<1>6. ASSUME OffersAreAccepted PROVE \E n \in DOMAIN stream[flow] : Refusable(flow, n)
  <2>1. ASSUME NEW k \in 1 .. Len(Rest),
               Unsupported(Rest[k]) \/ (IsControl(Rest[k]) /\ ShowsIp(Rest[k]))
        PROVE  \E n \in DOMAIN stream[flow] : Refusable(flow, n)
    <3>1. pos + k \in DOMAIN stream[flow] /\ Rest[k] = stream[flow][pos + k]
      BY <1>2
    <3>2. Refusable(flow, pos + k)
      BY <1>3, <2>1, <3>1 DEF Refusable
    <3> QED BY <3>1, <3>2
  <2>2. CASE ~deflate
    <3>1. PICK k \in 1 .. Len(Rest) : IsFrameError(Rest[k])
      BY <1>1, <1>2, <2>2
    <3>2. Unsupported(Rest[k])
      BY <1>3, <3>1 DEF IsFrameError
    <3> QED BY <2>1, <3>2
  <2>3. CASE deflate
    <3>1. PICK k \in 1 .. Len(Rest) : ShowsIp(Rest[k])
      BY <1>1, <1>2, <2>3 DEF AnyShowsIp
    <3>2. IsControl(Rest[k]) \/ Rest[k].deflated
      BY <1>1, <1>3, <1>6, <2>3, <3>1, RestCells DEF ShowsIp
    <3>3. IsControl(Rest[k])
      BY <1>3, <3>1, <3>2 DEF ShowsIp
    <3> QED BY <2>1, <3>1, <3>3
  <2> QED BY <2>2, <2>3
<1>7. OutputInv' /\ output' = [d \in Directions |-> output'[d]]
  BY <1>1, <1>2, <1>6, Rejecting
<1>8. MessagesAreFramed' /\ spans' = [d \in Directions |-> spans'[d]] /\ stream' \in Conversations
  BY <1>1, SpansStay DEF IInv
<1> QED BY <1>5, <1>7, <1>8 DEF IInv

LEMMA EndFlowStep ==
  ASSUME IInv, EndFlow
  PROVE  IInv'
<1>1. /\ flows # << >> /\ Rest = << >>
      /\ flows' = Tail(flows) /\ pos' = 0 /\ stream' = stream /\ spans' = spans
      /\ UNCHANGED state
  BY DEF EndFlow
<1>2. /\ flow \in Directions /\ stream[flow] \in Seq(Cells) /\ pos = Len(stream[flow])
  BY <1>1, Here
<1>3. rejected' \in {rejected, rejected \cup {flow}}
  BY DEF EndFlow
<1>4. FlowsInv' /\ BoundaryInv' /\ FlagsInv' /\ QueueInv'
  <2>1. \A m \in pos + 1 .. Len(stream[flow]) : stream[flow][m].cell = "frame"
    BY <1>2
  <2> QED BY <1>1, <1>3, <2>1, NextFlow
<1>5. OutputInv' /\ output' = [d \in Directions |-> output'[d]]
  <2>1. CASE ~AnyShowsIp(output[flow])
    <3>1. rejected' = rejected /\ output' = output
      BY <2>1 DEF EndFlow
    <3>2. OffersAreAccepted' => OffersAreAccepted
      BY <1>1 DEF OffersAreAccepted
    <3>3. SupportedFlowsAreRewritten => SupportedFlowsAreRewritten'
      BY <1>1, <3>1 DEF SupportedFlowsAreRewritten
    <3> QED BY <1>1, <3>1, <3>2, <3>3 DEF IInv, OutputInv
  <2>2. CASE AnyShowsIp(output[flow])
    <3>1. rejected' = rejected \cup {flow} /\ output' = [output EXCEPT ![flow] = stream[flow]]
      BY <2>2 DEF EndFlow
    <3>2. ASSUME OffersAreAccepted PROVE \E n \in DOMAIN stream[flow] : Refusable(flow, n)
      <4>1. flow \in Directions \ rejected
        <5>1. flow \in Range(flows)
          <6>1. flows \in {<<"client", "server">>, <<"client">>, <<"server">>}
            BY <1>1 DEF IInv, FlowsInv
          <6>2. /\ Range(<<"client", "server">>) = {"client", "server"}
                /\ Head(<<"client", "server">>) = "client"
            BY ShortQueues
          <6>3. Range(<<"client">>) = {"client"} /\ Head(<<"client">>) = "client"
            BY ShortQueues
          <6>4. Range(<<"server">>) = {"server"} /\ Head(<<"server">>) = "server"
            BY ShortQueues
          <6> QED BY <6>1, <6>2, <6>3, <6>4 DEF flow
        <5> QED BY <1>2, <5>1 DEF IInv, FlowsInv, Done
      <4>2. PICK k \in DOMAIN output[flow] : ShowsIp(output[flow][k])
        BY <2>2 DEF AnyShowsIp
      <4>3. Remains(stream[flow], output[flow][k])
        BY <3>2, <4>1, <4>2 DEF IInv, OutputInv, ShowsIp
      <4>4. PICK m \in DOMAIN stream[flow] : stream[flow][m] = output[flow][k]
        BY <4>3 DEF Remains
      <4>5. stream[flow][m].cell = "frame" /\ IsControl(stream[flow][m]) /\ ShowsIp(stream[flow][m])
        BY <4>2, <4>3, <4>4 DEF Remains, ShowsIp
      <4> QED BY <4>5 DEF Refusable
    <3> QED BY <1>1, <3>1, <3>2, Rejecting
  <2> QED BY <2>1, <2>2
<1>6. MessagesAreFramed' /\ spans' = [d \in Directions |-> spans'[d]] /\ stream' \in Conversations
  BY <1>1, SpansStay DEF IInv
<1> QED BY <1>4, <1>5, <1>6 DEF IInv

LEMMA StutterStep ==
  ASSUME IInv, UNCHANGED vars
  PROVE  IInv'
<1>1. /\ stream' = stream /\ flows' = flows /\ pos' = pos /\ output' = output
      /\ rejected' = rejected /\ spans' = spans /\ methods' = methods /\ pending' = pending
      /\ established' = established /\ deflate' = deflate
  BY DEF vars, state
<1>2. flow' = flow /\ Client' = Client /\ Server' = Server
  BY <1>1 DEF flow, Client, Server
<1>3. InClient' = InClient /\ InServer' = InServer
  BY <1>1, <1>2 DEF InClient, InServer
<1>4. Asked' = Asked /\ Answered' = Answered /\ \A m : NumberOf(m)' = NumberOf(m)
  BY <1>1, <1>2, <1>3 DEF Asked, Answered, NumberOf
<1>5. FlowsInv' /\ BoundaryInv' /\ FlagsInv'
  BY <1>1, <1>2, <1>3 DEF IInv, FlowsInv, BoundaryInv, FlagsInv, Done
<1>6. QueueInv'
  BY <1>1, <1>2, <1>3, <1>4 DEF IInv, QueueInv
<1>7. MessagesAreFramed'
  BY <1>1, SpansStay DEF IInv
<1>8. OutputInv'
  BY <1>1 DEF IInv, OutputInv, OffersAreAccepted, SupportedFlowsAreRewritten
<1> QED BY <1>1, <1>5, <1>6, <1>7, <1>8 DEF IInv

-----------------------------------------------------------------------------
(***************************************************************************)
(* The capture begins with the client's side.                              *)
(***************************************************************************)

LEMMA InitialInv ==
  ASSUME FirstFlows \subseteq {"client"}, Init
  PROVE  IInv
<1>0. /\ stream \in Conversations /\ pos = 0
      /\ methods = << >> /\ pending = FALSE /\ established = FALSE /\ deflate = FALSE
      /\ output = [d \in Directions |-> << >>] /\ rejected = {}
      /\ spans = [d \in Directions |-> {}]
  BY DEF Init
<1>1. /\ flows \in {<<"client", "server">>, <<"client">>, <<"server">>, << >>}
      /\ flows = <<"server">> => stream["client"] = << >>
  <2>1. PICK d \in FirstFlows : flows = FlowOf(d) \o FlowOf(Opposite(d))
    BY DEF Init
  <2>2. d = "client" /\ Opposite(d) = "server"
    BY <2>1 DEF Opposite, Directions
  <2>3. FlowOf("client") \in {<<"client">>, << >>} /\ FlowOf("server") \in {<<"server">>, << >>}
    BY DEF FlowOf
  <2>4. <<"client">> \o <<"server">> = <<"client", "server">>
    <3> DEFINE c == <<"client">>
               s == <<"server">>
    <3>1. c \in Seq(Directions) /\ s \in Seq(Directions) /\ Len(c) = 1 /\ Len(s) = 1
          /\ c[1] = "client" /\ s[1] = "server"
      BY DEF Directions
    <3> HIDE DEF c, s
    <3>2. c \o s \in Seq(Directions) /\ Len(c \o s) = 2
          /\ (c \o s)[1] = "client" /\ (c \o s)[2] = "server"
      <4>1. /\ c \o s \in Seq(Directions \cup Directions)
            /\ Len(c \o s) = Len(c) + Len(s)
            /\ \A k \in 1 .. Len(c) : (c \o s)[k] = c[k]
            /\ \A k \in Len(c) + 1 .. Len(c) + Len(s) : (c \o s)[k] = s[k - Len(c)]
        BY <3>1, Joining, ZenonT(30)
      <4>2. Directions \cup Directions = Directions
        OBVIOUS
      <4>3. Len(c \o s) = 2 /\ (c \o s)[1] = c[1] /\ (c \o s)[2] = s[2 - 1] /\ 2 - 1 = 1
        <5> DEFINE both == c \o s
        <5> HIDE DEF both
        <5>1. /\ Len(both) = Len(c) + Len(s)
              /\ \A k \in 1 .. Len(c) : both[k] = c[k]
              /\ \A k \in Len(c) + 1 .. Len(c) + Len(s) : both[k] = s[k - Len(c)]
          BY <4>1 DEF both
        <5>2. Len(both) = 2 /\ both[1] = c[1] /\ both[2] = s[2 - 1] /\ 2 - 1 = 1
          BY <3>1, <5>1
        <5> QED BY <5>2 DEF both
      <4> QED BY <3>1, <4>1, <4>2, <4>3, Zenon
    <3> DEFINE both == c \o s
    <3> HIDE DEF both
    <3>3. both \in Seq(Directions) /\ Len(both) = 2 /\ both[1] = "client" /\ both[2] = "server"
      BY <3>2 DEF both
    <3>4. both = <<"client", "server">>
      BY <3>3
    <3> QED BY <3>4 DEF both, c, s
  <2>5. \A x : <<x>> \o << >> = <<x>> /\ << >> \o <<x>> = <<x>>
    OBVIOUS
  <2>6. << >> \o << >> = << >>
    OBVIOUS
  <2>7. CASE stream["client"] = << >>
    <3>1. FlowOf("client") = << >>
      BY <2>7 DEF FlowOf
    <3>2. flows \in {<<"server">>, << >>}
      BY <2>1, <2>2, <2>3, <2>5, <2>6, <3>1
    <3> QED BY <2>7, <3>2
  <2>8. CASE stream["client"] # << >>
    <3>1. FlowOf("client") = <<"client">>
      BY <2>8 DEF FlowOf
    <3>2. flows \in {<<"client", "server">>, <<"client">>}
      BY <2>1, <2>2, <2>3, <2>4, <2>5, <3>1
    <3>3. <<"client", "server">> # <<"server">> /\ <<"client">> # <<"server">>
      OBVIOUS
    <3> QED BY <3>2, <3>3
  <2> QED BY <2>7, <2>8
<1>2. flows # << >> => flow \in Directions
  BY <1>1, ShortQueues DEF flow, Directions
<1>3. FlowsInv
  <2>1. flows # << >> => Len(stream[flow]) \in Nat
    BY <1>0, <1>2, ConversationFacts
  <2> QED BY <1>0, <1>1, <2>1 DEF FlowsInv, flow
<1>4. BoundaryInv
  <2>1. ASSUME flows # << >>, 0 < Len(stream[flow]) PROVE IsHead(stream[flow][1])
    <3>1. 1 \in 1 .. Len(stream[flow])
      BY <1>0, <1>2, <2>1, ConversationFacts
    <3> QED BY <1>0, <1>2, <2>1, <3>1, ConversationFacts
  <2> QED BY <1>0, <2>1 DEF BoundaryInv, Begins
<1>5. FlagsInv
  <2>1. 1 .. pos = {}
    BY <1>0
  <2> QED BY <1>0, <2>1 DEF FlagsInv
<1>6. QueueInv
  <2>1. ASSUME InClient \/ (InServer /\ pos < Len(Server)) PROVE Asked = {}
    <3>1. CASE InClient
      BY <1>0, <3>1 DEF Asked, RequestsUpTo
    <3>2. CASE InServer /\ ~InClient
      <4>1. Len(Client) = 0
        BY <1>1, <3>2 DEF InServer, InClient, Client, flow
      <4> QED BY <3>2, <4>1 DEF Asked, RequestsUpTo
    <3> QED BY <2>1, <3>1, <3>2
  <2>2. Cardinality({}) = 0
    BY FS_EmptySet
  <2>3. methods \in Seq(Methods) /\ Len(methods) = 0 /\ 1 .. Len(methods) = {}
    BY <1>0
  <2> QED BY <2>1, <2>2, <2>3 DEF QueueInv
<1>7. MessagesAreFramed
  BY <1>0 DEF MessagesAreFramed
<1>8. OutputInv
  <2>1. \A d \in Directions : output[d] = << >> /\ output[d] \in Seq({})
    BY <1>0
  <2> QED BY <1>0, <2>1 DEF OutputInv, SupportedFlowsAreRewritten
<1> QED BY <1>0, <1>3, <1>4, <1>5, <1>6, <1>7, <1>8 DEF IInv

-----------------------------------------------------------------------------
(***************************************************************************)
(* Every step keeps the invariant, and the properties follow from it.      *)
(***************************************************************************)
KnownInv == RequestsAreKnown => IInv

LEMMA KnownStep ==
  ASSUME KnownInv, [Next]_vars
  PROVE  KnownInv'
<1>1. stream' = stream
  BY DEF Next, RewriteMessage, ReplaceTail, RewriteFrames, PassDeflated, RejectFrames, EndFlow,
         Emit, vars
<1>2. SUFFICES ASSUME RequestsAreKnown, IInv PROVE IInv'
  BY <1>1 DEF KnownInv, RequestsAreKnown, Client
<1>3. CASE RewriteMessage BY <1>2, <1>3, MessageStep
<1>4. CASE ReplaceTail BY <1>2, <1>4, TailStep
<1>5. CASE RewriteFrames BY <1>2, <1>5, FramesStep
<1>6. CASE PassDeflated BY <1>2, <1>6, DeflatedStep
<1>7. CASE RejectFrames BY <1>2, <1>7, RejectStep
<1>8. CASE EndFlow BY <1>2, <1>8, EndFlowStep
<1>9. CASE UNCHANGED vars BY <1>2, <1>9, StutterStep
<1> QED BY <1>3, <1>4, <1>5, <1>6, <1>7, <1>8, <1>9 DEF Next

LEMMA HttpInvHolds ==
  ASSUME IInv
  PROVE  HttpInv
<1>1. FlowsInv /\ FlagsInv /\ QueueInv /\ MessagesAreFramed
  BY DEF IInv
<1>2. "client" \in Directions /\ "server" \in Directions
  BY DEF Directions
<1>3. flows \in Seq(Directions) /\ Len(flows) <= 2
  <2>1. CASE flows = <<"client", "server">> BY <1>2, <2>1
  <2>2. CASE flows = <<"client">> BY <1>2, <2>2
  <2>3. CASE flows = <<"server">> BY <1>2, <2>3
  <2>4. CASE flows = << >> BY <2>4
  <2> QED BY <1>1, <2>1, <2>2, <2>3, <2>4 DEF FlowsInv
<1>4. methods \in Seq({"GET", "HEAD", "POST"})
  BY <1>1 DEF QueueInv, Methods
<1>5. TypeOK
  BY <1>1, <1>3, <1>4 DEF TypeOK, FlowsInv, FlagsInv, flow
<1> QED BY <1>1, <1>5 DEF HttpInv

LEMMA SilenceAndSupport ==
  ASSUME IInv, OffersAreAccepted
  PROVE  NothingIsMissedSilently /\ SupportedFlowsAreRewritten
<1>1. /\ \A d \in Directions \ rejected : \A n \in DOMAIN output[d] :
           output[d][n].ip => Remains(stream[d], output[d][n])
      /\ SupportedFlowsAreRewritten
  BY DEF IInv, OutputInv
<1> QED BY <1>1 DEF NothingIsMissedSilently, Remains

(***************************************************************************)
(* If the capture begins with the client's side and every request is       *)
(* known, every message of any conversation of HTTP peers is framed as it  *)
(* was sent, pipelined or not, across interim answers, answers to HEAD and *)
(* the upgrade to a websocket.                                             *)
(***************************************************************************)
THEOREM KnownMessagesAreFramed ==
  FirstFlows \subseteq {"client"} => (Spec => [](RequestsAreKnown => HttpInv))
<1> SUFFICES ASSUME FirstFlows \subseteq {"client"}
             PROVE  Spec => [](RequestsAreKnown => HttpInv)
  OBVIOUS
<1>1. Init => KnownInv
  BY InitialInv DEF KnownInv
<1>2. KnownInv /\ [Next]_vars => KnownInv'
  BY KnownStep
<1>3. KnownInv => (RequestsAreKnown => HttpInv)
  BY HttpInvHolds DEF KnownInv
<1> QED BY <1>1, <1>2, <1>3, PTL DEF Spec

(***************************************************************************)
(* And if no side shows the address in a frame without compression after   *)
(* compression was offered, no stream that is used has an address left     *)
(* where it could have been replaced.                                      *)
(***************************************************************************)
THEOREM KnownAddressesAreReplaced ==
  FirstFlows \subseteq {"client"} =>
    (Spec => [](RequestsAreKnown /\ OffersAreAccepted => NothingIsMissedSilently))
<1> SUFFICES ASSUME FirstFlows \subseteq {"client"}
             PROVE  Spec => [](RequestsAreKnown /\ OffersAreAccepted => NothingIsMissedSilently)
  OBVIOUS
<1>1. Init => KnownInv
  BY InitialInv DEF KnownInv
<1>2. KnownInv /\ [Next]_vars => KnownInv'
  BY KnownStep
<1>3. KnownInv => (RequestsAreKnown /\ OffersAreAccepted => NothingIsMissedSilently)
  BY SilenceAndSupport DEF KnownInv
<1> QED BY <1>1, <1>2, <1>3, PTL DEF Spec

\* And no stream is left as it is without a frame that could not be rewritten.
THEOREM KnownFlowsAreRewritten ==
  FirstFlows \subseteq {"client"} =>
    (Spec => [](RequestsAreKnown /\ OffersAreAccepted => SupportedFlowsAreRewritten))
<1> SUFFICES ASSUME FirstFlows \subseteq {"client"}
             PROVE  Spec => [](RequestsAreKnown /\ OffersAreAccepted => SupportedFlowsAreRewritten)
  OBVIOUS
<1>1. Init => KnownInv
  BY InitialInv DEF KnownInv
<1>2. KnownInv /\ [Next]_vars => KnownInv'
  BY KnownStep
<1>3. KnownInv => (RequestsAreKnown /\ OffersAreAccepted => SupportedFlowsAreRewritten)
  BY SilenceAndSupport DEF KnownInv
<1> QED BY <1>1, <1>2, <1>3, PTL DEF Spec

=============================================================================
