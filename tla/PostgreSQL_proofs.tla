------------------------- MODULE PostgreSQL_proofs -------------------------
(***************************************************************************)
(* Proofs about PostgreSQL for any number of messages and rows: what the   *)
(* handler keeps is consistent, and no stream is written with the address  *)
(* in a row; and, for sessions of the kind the run has, the formats at the *)
(* head of the queue are those of the row that is rewritten.               *)
(***************************************************************************)
EXTENDS PostgreSQL, SequenceTheorems, TLAPS

Client == stream["client"]
Server == stream["server"]

-----------------------------------------------------------------------------
(***************************************************************************)
(* Which flows are still to be rewritten depends on the phase.  Only a row *)
(* has the address.                                                        *)
(***************************************************************************)
FlowsInv ==
  /\ phase = "talk" => flows = <<first, Opposite(first)>>
  /\ phase = "rewrite" => flows \in {<<first, Opposite(first)>>, <<Opposite(first)>>}
  /\ phase = "done" => flows = << >>

SendersInv ==
  /\ \A n \in 1 .. Len(Client) : Client[n] \in ClientKinds
  /\ \A n \in 1 .. Len(Server) :
       /\ Server[n].type \notin {"B", "Q"}
       /\ Server[n].type # "D" => Server[n].ips = {}

ShapeInv ==
  /\ TypeOK /\ FlowsInv /\ SendersInv
  /\ stream = [d \in Directions |-> stream[d]]
  /\ changed = [d \in Directions |-> changed[d]]
  /\ phase = "talk" => pos = 0 /\ queue = << >> /\ current = NoFormats
                       /\ rejected = {} /\ changed = [d \in Directions |-> {}]

LEMMA Opposites ==
  /\ Opposite("client") = "server" /\ Opposite("server") = "client"
  /\ Directions = {"client", "server"}
<1>1. \A d, e \in Directions : e # d => Opposite(d) = e
  BY DEF Opposite, Directions
<1> QED BY <1>1 DEF Directions

LEMMA FormatFacts ==
  /\ NoFormats \notin FormatLists /\ AllText \in FormatLists
  /\ AllText # NoFormats
  /\ \A type \in ClientTypes \cup ServerTypes : Message(type) \in Messages /\ Message(type).ips = {}
                          /\ Message(type).type = type
  /\ \A formats \in FormatLists :
       /\ Bind(formats) \in Messages /\ Bind(formats).ips = {} /\ Bind(formats).type = "B"
       /\ Bind(formats).formats = formats
  /\ \A formats \in FormatLists \cup {NoFormats}, ips \in SUBSET Columns :
       /\ Row(formats, ips) \in Messages /\ Row(formats, ips).type = "D"
       /\ Row(formats, ips).formats = formats
<1>1. NoFormats \notin FormatLists /\ AllText \in FormatLists /\ AllText # NoFormats
  BY DEF NoFormats, FormatLists, AllText, Text, Binary, Unknown
<1>2. \A type \in ClientTypes \cup ServerTypes : Message(type) \in Messages /\ Message(type).ips = {}
                          /\ Message(type).type = type
  BY DEF Message, Messages, ClientTypes, ServerTypes
<1>3. \A formats \in FormatLists :
       /\ Bind(formats) \in Messages /\ Bind(formats).ips = {} /\ Bind(formats).type = "B"
       /\ Bind(formats).formats = formats
  BY DEF Message, Messages, Bind, ClientTypes, ServerTypes
<1>4. \A formats \in FormatLists \cup {NoFormats}, ips \in SUBSET Columns :
       /\ Row(formats, ips) \in Messages /\ Row(formats, ips).type = "D"
       /\ Row(formats, ips).formats = formats
  BY DEF Messages, Row, ClientTypes, ServerTypes
<1> QED BY <1>1, <1>2, <1>3, <1>4

\* What the client sends is a Bind with its formats, or has a type only.
LEMMA ClientKindsAre ==
  ASSUME NEW m \in ClientKinds
  PROVE  /\ m \in Messages /\ m.ips = {}
         /\ m.type = "B" => m.formats \in FormatLists /\ m = Bind(m.formats)
         /\ m.type \in {"B", "startup", "ssl", "Q", "P", "D", "E", "C", "S"}
         /\ m.type = "C" => m = Message("C")
<1>1. m \in ClientMessages
  BY ClientKindsAssumption
<1>2. CASE m \in {Bind(formats) : formats \in FormatLists}
  BY <1>2, FormatFacts
<1>3. CASE m \in {Message(type) : type \in ClientTypes}
  BY <1>3, FormatFacts DEF ClientTypes
<1> QED BY <1>1, <1>2, <1>3 DEF ClientMessages

(***************************************************************************)
(* What an answer is made of: rows of the formats in force, and then one   *)
(* message that ends them.                                                 *)
(***************************************************************************)
LEMMA ResultsAre ==
  ASSUME NEW formats \in FormatLists, NEW ends \in SUBSET {"C", "s", "I", "E"},
         NEW result \in Results(formats, ends)
  PROVE  /\ result \in Seq(Messages) /\ Len(result) \in Nat \ {0}
         /\ result[Len(result)].type \in ends /\ result[Len(result)].ips = {}
         /\ \A k \in 1 .. Len(result) - 1 : result[k].type = "D" /\ result[k].formats = formats
<1>0. PICK rows \in UNION {[1 .. n -> {Row(formats, ips) : ips \in SUBSET Columns}] : n \in 0 .. MaxRows},
           end \in ends : result = rows \o <<Message(end)>>
  BY DEF Results
<1>1. PICK n \in 0 .. MaxRows : rows \in [1 .. n -> {Row(formats, ips) : ips \in SUBSET Columns}]
  OBVIOUS
<1>2. n \in Nat
  BY BoundsAssumption
<1>3. rows \in Seq(Messages) /\ Len(rows) = n
      /\ \A k \in 1 .. n : rows[k].type = "D" /\ rows[k].formats = formats
  <2>1. \A k \in 1 .. n : rows[k] \in Messages /\ rows[k].type = "D" /\ rows[k].formats = formats
    BY <1>1, FormatFacts
  <2>2. rows \in [1 .. n -> Messages]
    BY <1>1, <2>1
  <2> QED BY <1>2, <2>1, <2>2, SeqDef, LenProperties
<1>4. <<Message(end)>> \in Seq(Messages) /\ Len(<<Message(end)>>) = 1
      /\ <<Message(end)>>[1] = Message(end) /\ Message(end).ips = {} /\ Message(end).type = end
  BY FormatFacts DEF ServerTypes
<1>5. /\ rows \o <<Message(end)>> \in Seq(Messages)
      /\ Len(rows \o <<Message(end)>>) = n + 1
      /\ \A k \in 1 .. n + 1 : (rows \o <<Message(end)>>)[k] =
                                 IF k <= n THEN rows[k] ELSE <<Message(end)>>[k - n]
  BY <1>3, <1>4, ConcatProperties
<1> HIDE DEF Message
<1>6. Len(result) = n + 1 /\ result[n + 1] = Message(end) /\ result \in Seq(Messages)
  BY <1>0, <1>2, <1>4, <1>5
<1>7. ASSUME NEW k \in 1 .. n
      PROVE  result[k].type = "D" /\ result[k].formats = formats
  BY <1>0, <1>2, <1>3, <1>5
<1> QED BY <1>2, <1>4, <1>6, <1>7

\* The answer to message m, by its type.
QueryIsAnswered(answer) ==
  /\ Len(answer) >= 2 /\ answer[Len(answer)].type = "Z"
  /\ answer[Len(answer) - 1].type \in Answers \cap {"C", "E"}
  /\ \A k \in 1 .. Len(answer) - 2 : answer[k].type = "D" /\ answer[k].formats = AllText

ExecuteIsAnswered(answer) ==
  /\ answer[Len(answer)].type \in Answers \cup {"E"}
  /\ \A k \in 1 .. Len(answer) - 1 : answer[k].type = "D" /\ answer[k].formats = portal

OtherIsAnswered(m, answer) ==
  /\ Len(answer) = 1
  /\ answer[1].type = IF m.type = "ssl" THEN "N"
                      ELSE IF m.type \in {"startup", "S"} THEN "Z"
                      ELSE IF answer[1].type = "E" /\ "E" \in Answers THEN "E"
                      ELSE "1"

OnlyRowsHaveIps(answer) ==
  \A k \in 1 .. Len(answer) :
    answer[k].type \notin {"B", "Q"} /\ (answer[k].type # "D" => answer[k].ips = {})

IsAnswer(m, answer) ==
  /\ answer \in Seq(Messages) /\ Len(answer) \in Nat \ {0} /\ OnlyRowsHaveIps(answer)
  /\ m.type = "Q" => QueryIsAnswered(answer)
  /\ m.type = "E" => ExecuteIsAnswered(answer)
  /\ m.type \notin {"Q", "E"} => OtherIsAnswered(m, answer)

LEMMA AnswersAre ==
  ASSUME NEW m \in ClientKinds, portal \in FormatLists \cup {NoFormats},
         NEW answer \in AnswersTo(m)
  PROVE  IsAnswer(m, answer)
<1>1. m.type \in {"B", "startup", "ssl", "Q", "P", "D", "E", "C", "S"}
  BY ClientKindsAre
<1>single. ASSUME NEW type \in ServerTypes
           PROVE  /\ <<Message(type)>> \in Seq(Messages) /\ Len(<<Message(type)>>) = 1
                  /\ <<Message(type)>>[1].type = type /\ <<Message(type)>>[1].ips = {}
  BY FormatFacts
<1>2. CASE m.type = "Q"
  <2>1. PICK result \in Results(AllText, Answers \cap {"C", "E"}) :
          answer = result \o <<Message("Z")>>
    BY <1>2 DEF AnswersTo
  <2>2. /\ result \in Seq(Messages) /\ Len(result) \in Nat \ {0}
        /\ result[Len(result)].type \in Answers \cap {"C", "E"}
        /\ result[Len(result)].ips = {}
        /\ \A k \in 1 .. Len(result) - 1 : result[k].type = "D" /\ result[k].formats = AllText
    BY ResultsAre, FormatFacts
  <2>3. "Z" \in ServerTypes
    BY DEF ServerTypes
  <2>4. PICK last : last = <<Message("Z")>>
    OBVIOUS
  <2>5. last \in Seq(Messages) /\ Len(last) = 1 /\ last[1].type = "Z" /\ last[1].ips = {}
    BY <1>single, <2>3, <2>4
  <2>6. /\ answer \in Seq(Messages) /\ Len(answer) = Len(result) + 1
        /\ \A k \in 1 .. Len(result) + 1 :
             answer[k] = IF k <= Len(result) THEN result[k] ELSE last[k - Len(result)]
    BY <2>1, <2>2, <2>4, <2>5, ConcatProperties
  <2>7. answer[Len(answer)] = last[1] /\ answer[Len(answer) - 1] = result[Len(result)]
    BY <2>2, <2>5, <2>6
  <2>8. \A k \in 1 .. Len(answer) - 2 : answer[k].type = "D" /\ answer[k].formats = AllText
    BY <2>2, <2>6
  <2>9. \A k \in 1 .. Len(answer) :
          answer[k].type \notin {"B", "Q"} /\ (answer[k].type # "D" => answer[k].ips = {})
    BY <2>2, <2>5, <2>6
  <2>10. QueryIsAnswered(answer)
    BY <2>2, <2>5, <2>6, <2>7, <2>8 DEF QueryIsAnswered
  <2> QED BY <1>2, <2>2, <2>6, <2>9, <2>10 DEF IsAnswer, OnlyRowsHaveIps
<1>3. CASE m.type = "E" /\ portal # NoFormats
  <2>1. answer \in Results(portal, Answers) /\ portal \in FormatLists
    BY <1>3 DEF AnswersTo
  <2>2. Answers \in SUBSET {"C", "s", "I", "E"}
    BY AnswersAssumption
  <2>3. /\ answer \in Seq(Messages) /\ Len(answer) \in Nat \ {0}
        /\ answer[Len(answer)].type \in Answers /\ answer[Len(answer)].ips = {}
        /\ \A k \in 1 .. Len(answer) - 1 : answer[k].type = "D" /\ answer[k].formats = portal
    BY <2>1, <2>2, ResultsAre
  <2>4. \A k \in 1 .. Len(answer) :
          answer[k].type \notin {"B", "Q"} /\ (answer[k].type # "D" => answer[k].ips = {})
    BY <2>2, <2>3
  <2> QED BY <1>3, <2>3, <2>4 DEF IsAnswer, OnlyRowsHaveIps, ExecuteIsAnswered
<1>4. CASE m.type = "E" /\ portal = NoFormats
  <2>1. answer = <<Message("E")>> /\ "E" \in ServerTypes
    BY <1>4 DEF AnswersTo, ServerTypes
  <2>2. answer \in Seq(Messages) /\ Len(answer) = 1 /\ answer[1].type = "E" /\ answer[1].ips = {}
    BY <2>1, <1>single
  <2> QED BY <1>4, <2>2 DEF IsAnswer, OnlyRowsHaveIps, ExecuteIsAnswered
<1>5. CASE m.type \notin {"Q", "E"}
  <2>1. PICK type : /\ answer = <<Message(type)>>
                    /\ \/ m.type = "ssl" /\ type = "N"
                       \/ m.type \in {"startup", "S"} /\ type = "Z"
                       \/ m.type \in {"P", "B", "D", "C"} /\ type = "1"
                       \/ m.type \in {"P", "B", "D", "C"} /\ type = "E" /\ "E" \in Answers
    BY <1>1, <1>5 DEF AnswersTo
  <2>2. type \in ServerTypes
    BY <2>1 DEF ServerTypes
  <2>3. answer \in Seq(Messages) /\ Len(answer) = 1 /\ answer[1].type = type /\ answer[1].ips = {}
    BY <2>1, <2>2, <1>single
  <2> QED BY <1>5, <2>1, <2>3 DEF IsAnswer, OnlyRowsHaveIps, OtherIsAnswered
<1> QED BY <1>2, <1>3, <1>4, <1>5

-----------------------------------------------------------------------------
\* What a step may rely on: the flow at work, its message, and its formats.
LEMMA AtWork ==
  ASSUME ShapeInv, phase = "rewrite"
  PROVE  /\ flow \in Directions /\ flows # << >> /\ Len(stream[flow]) \in Nat
         /\ stream[flow] \in Seq(Messages) /\ pos \in 0 .. Len(stream[flow])
         /\ \/ flow = first /\ Tail(flows) = <<Opposite(first)>>
            \/ flow = Opposite(first) /\ Tail(flows) = << >>
         /\ pos < Len(stream[flow]) =>
              /\ This \in Messages /\ This = stream[flow][pos + 1]
              /\ This.ips \in SUBSET Columns
              /\ This.type = "B" => This.formats \in FormatLists
<1>1. first \in Directions /\ Opposite(first) \in Directions
  BY Opposites DEF ShapeInv, TypeOK
<1>2. /\ flow \in Directions /\ flows # << >>
      /\ \/ flow = first /\ Tail(flows) = <<Opposite(first)>>
         \/ flow = Opposite(first) /\ Tail(flows) = << >>
  <2>1. PICK other \in Directions : other = Opposite(first)
    BY <1>1
  <2>2. flows = <<first, other>> \/ flows = <<other>>
    BY <2>1 DEF ShapeInv, FlowsInv
  <2>3. Head(<<first, other>>) = first /\ Tail(<<first, other>>) = <<other>>
        /\ Head(<<other>>) = other /\ Tail(<<other>>) = << >>
        /\ <<first, other>> # << >> /\ <<other>> # << >>
    OBVIOUS
  <2>4. CASE flows = <<first, other>>
    BY <1>1, <2>1, <2>3, <2>4 DEF flow
  <2>5. CASE flows = <<other>>
    BY <1>1, <2>1, <2>3, <2>5 DEF flow
  <2> QED BY <2>2, <2>4, <2>5
<1>3. stream[flow] \in Seq(Messages) /\ pos \in 0 .. Len(stream[flow])
  BY <1>2 DEF ShapeInv, TypeOK
<1>4. Len(stream[flow]) \in Nat
  BY <1>3, LenProperties
<1>5. ASSUME pos < Len(stream[flow])
      PROVE  /\ This \in Messages /\ This = stream[flow][pos + 1]
             /\ This.type = "B" => This.formats \in FormatLists
  <2>1. pos + 1 \in 1 .. Len(stream[flow])
    BY <1>3, <1>4, <1>5
  <2>2. This \in Messages /\ This = stream[flow][pos + 1]
    BY <1>3, <2>1, ElementOfSeq DEF This
  <2>3. CASE flow = "client"
    <3>1. This \in ClientKinds
      BY <2>1, <2>2, <2>3 DEF ShapeInv, SendersInv, Client
    <3> QED BY <2>2, <3>1, ClientKindsAre
  <2>4. CASE flow = "server"
    BY <2>1, <2>2, <2>4 DEF ShapeInv, SendersInv, Server
  <2> QED BY <1>2, <2>3, <2>4 DEF Directions
<1>6. \A m \in Messages : m.ips \in SUBSET Columns
  BY DEF Messages
<1> QED BY <1>2, <1>3, <1>4, <1>5, <1>6

LEMMA CurrentIs ==
  ASSUME TypeOK
  PROVE  /\ CurrentFormats \in FormatLists \cup {NoFormats}
         /\ CurrentFormats # NoFormats => queue # << >> /\ CurrentFormats = Head(queue)
         /\ CurrentFormats = NoFormats => queue = << >>
<1>1. queue # << >> => Head(queue) \in FormatLists
  BY HeadTailProperties DEF TypeOK
<1> QED BY <1>1, FormatFacts DEF CurrentFormats, TypeOK

\* A step on a message keeps ShapeInv if it keeps what the message may change.
LEMMA MessageKeepsShape ==
  ASSUME ShapeInv, phase = "rewrite", UNCHANGED <<phase, talk, flows>>,
         pos' \in 0 .. Len(stream[flow]),
         queue' \in Seq(FormatLists), current' \in FormatLists \cup {NoFormats},
         current' # NoFormats => queue' # << >> /\ current' = Head(queue'),
         rejected' \subseteq Directions,
         changed' = [d \in Directions |-> changed'[d]],
         \A d \in Directions : changed'[d] \subseteq (1 .. Len(stream[d])) \X Columns
  PROVE  ShapeInv'
<1>1. stream' = stream /\ seen' = seen /\ portal' = portal /\ failed' = failed
      /\ first' = first /\ flow' = flow /\ phase' = phase /\ flows' = flows
  BY DEF talk, flow
<1>2. TypeOK'
  BY <1>1 DEF ShapeInv, TypeOK
<1>3. FlowsInv' /\ SendersInv'
  BY <1>1 DEF ShapeInv, FlowsInv, SendersInv, Client, Server
<1> QED BY <1>1, <1>2, <1>3 DEF ShapeInv

LEMMA RejectIs ==
  ASSUME ShapeInv, phase = "rewrite", Reject
  PROVE  /\ UNCHANGED <<phase, talk, flows>> /\ pos' \in 0 .. Len(stream[flow])
         /\ rejected' \subseteq Directions
         /\ changed' = [d \in Directions |-> changed'[d]]
         /\ \A d \in Directions : changed'[d] = IF d = flow THEN {} ELSE changed[d]
         /\ \A d \in Directions : changed'[d] \subseteq (1 .. Len(stream[d])) \X Columns
<1>1. \A d \in Directions : changed'[d] = IF d = flow THEN {} ELSE changed[d]
  BY AtWork DEF Reject, ShapeInv
<1>2. changed' = [d \in Directions |-> changed'[d]]
  BY AtWork DEF Reject, ShapeInv
<1>3. rejected' \subseteq Directions /\ pos' \in 0 .. Len(stream[flow])
  BY AtWork DEF Reject, ShapeInv, TypeOK
<1>4. UNCHANGED <<phase, talk, flows>>
  BY DEF Reject
<1>5. \A d \in Directions : changed[d] \subseteq (1 .. Len(stream[d])) \X Columns
  BY DEF ShapeInv, TypeOK
<1>6. \A d \in Directions : changed'[d] \subseteq (1 .. Len(stream[d])) \X Columns
  BY <1>1, <1>5
<1> QED BY <1>1, <1>2, <1>3, <1>4, <1>6

-----------------------------------------------------------------------------
LEMMA ShapeInit == Init => ShapeInv
<1> SUFFICES ASSUME Init PROVE ShapeInv
  OBVIOUS
<1>1. first \in Directions /\ Opposite(first) \in Directions
  BY FirstFlowsAssumption, Opposites DEF Init
<1>2. PICK other \in Directions : other = Opposite(first)
  BY <1>1
<1>3. <<first, other>> \in Seq(Directions) /\ <<first, other>> # << >>
      /\ Head(<<first, other>>) = first
  BY <1>1
<1>4. flows \in Seq(Directions) /\ flow \in Directions
  BY <1>1, <1>2, <1>3 DEF Init, flow
<1>5. \A d \in Directions : stream[d] = << >> /\ changed[d] = {}
  BY DEF Init
<1>6. << >> \in Seq(Messages) /\ Len(<< >>) = 0 /\ << >> \in Seq(FormatLists)
  OBVIOUS
<1>7. TypeOK
  <2>1. stream["client"] = << >> /\ pos = 0 /\ Len(stream[flow]) = 0 /\ seen = 0
    BY <1>4, <1>5, <1>6, Opposites DEF Init
  <2>2. seen \in 0 .. Len(stream["client"]) /\ pos \in 0 .. Len(stream[flow])
    BY <1>6, <2>1
  <2>3. phase = "talk" /\ portal = NoFormats /\ failed = FALSE /\ queue = << >>
        /\ current = NoFormats /\ rejected = {}
    BY DEF Init
  <2> QED BY <1>1, <1>4, <1>5, <1>6, <2>2, <2>3 DEF TypeOK
<1>8. SendersInv
  BY <1>5, <1>6, Opposites DEF SendersInv, Client, Server
<1> QED BY <1>7, <1>8 DEF Init, ShapeInv, FlowsInv

\* The conversation only adds to the streams.
LEMMA SendsShape ==
  ASSUME ShapeInv, ClientSends
  PROVE  ShapeInv'
<1>1. PICK m \in ClientKinds : stream' = [stream EXCEPT !["client"] = Append(@, m)]
  BY DEF ClientSends
<1>2. /\ Client \in Seq(Messages) /\ Server \in Seq(Messages)
      /\ Len(Client) \in Nat /\ Len(Server) \in Nat /\ m \in Messages
  BY ClientKindsAre, Opposites, LenProperties DEF ShapeInv, TypeOK, Client, Server
<1>3. /\ Client' = Append(Client, m) /\ Server' = Server
      /\ stream' = [d \in Directions |-> stream'[d]]
      /\ stream'["client"] = Client' /\ stream'["server"] = Server'
  BY <1>1, Opposites DEF ShapeInv, Client, Server
<1>4. /\ Client' \in Seq(Messages) /\ Len(Client') = Len(Client) + 1
      /\ \A n \in 1 .. Len(Client) : Client'[n] = Client[n]
      /\ Client'[Len(Client) + 1] = m
  BY <1>2, <1>3, AppendProperties
<1>5. /\ UNCHANGED <<phase, seen, portal, failed, first, flows, pos, queue, current, rejected, changed>>
      /\ phase = "talk"
  BY DEF ClientSends
<1>6. pos = 0 /\ changed = [d \in Directions |-> {}]
  BY <1>5 DEF ShapeInv
<1>7. \A d \in Directions : stream'[d] \in Seq(Messages) /\ Len(stream'[d]) \in Nat
  <2>1. Client' \in Seq(Messages) /\ Server' \in Seq(Messages)
        /\ Len(Client') \in Nat /\ Len(Server') \in Nat
    BY <1>2, <1>3, <1>4
  <2> QED BY <1>3, <2>1, Opposites
<1>8. flow' = flow /\ flow \in Directions
  <2>1. first \in Directions /\ Opposite(first) \in Directions
    BY Opposites DEF ShapeInv, TypeOK
  <2>2. Head(<<first, Opposite(first)>>) = first
    BY <2>1
  <2> QED BY <1>5, <2>1, <2>2 DEF flow, ShapeInv, FlowsInv
<1>9. seen' \in 0 .. Len(Client')
  BY <1>2, <1>4, <1>5 DEF ShapeInv, TypeOK, Client
<1>10. TypeOK'
  BY <1>3, <1>5, <1>6, <1>7, <1>8, <1>9 DEF ShapeInv, TypeOK
<1>11. SendersInv'
  BY <1>2, <1>3, <1>4 DEF ShapeInv, SendersInv
<1> QED BY <1>3, <1>5, <1>10, <1>11 DEF ShapeInv, FlowsInv

\* The server answers a message, or skips it.
LEMMA AnswerIs ==
  ASSUME ShapeInv, ServerAnswers
  PROVE  \E m \in ClientKinds, answer \in Seq(Messages) :
           /\ seen + 1 \in 1 .. Len(Client) /\ m = Client[seen + 1]
           /\ IF failed /\ m.type # "S" THEN answer = << >> ELSE answer \in AnswersTo(m)
           /\ stream' = [stream EXCEPT !["server"] = @ \o answer]
           /\ Client' = Client /\ Server' = Server \o answer
           /\ failed' = IF answer = << >> THEN failed
                        ELSE m.type # "Q" /\ answer[Len(answer)].type = "E"
           /\ portal' = IF m.type = "B" /\ ~failed THEN m.formats ELSE portal
           /\ OnlyRowsHaveIps(answer)
<1>1. seen + 1 \in 1 .. Len(Client)
  <2>1. Client \in Seq(Messages) /\ seen \in 0 .. Len(Client)
    BY Opposites DEF ShapeInv, TypeOK, Client
  <2>2. Len(Client) \in Nat
    BY <2>1, LenProperties
  <2> QED BY <2>1, <2>2 DEF ServerAnswers, Client
<1>2. PICK m \in ClientKinds : m = Client[seen + 1]
  BY <1>1 DEF ShapeInv, SendersInv
<1>3. PICK answer \in IF failed /\ m.type # "S" THEN {<< >>} ELSE AnswersTo(m) :
        /\ stream' = [stream EXCEPT !["server"] = @ \o answer]
        /\ failed' = IF answer = << >> THEN failed
                     ELSE m.type # "Q" /\ Last(answer).type = "E"
  BY <1>2 DEF ServerAnswers, Client
<1>4. portal' = IF m.type = "B" /\ ~failed THEN m.formats ELSE portal
  BY <1>2 DEF ServerAnswers, Client
<1>5. answer \in Seq(Messages) /\ OnlyRowsHaveIps(answer)
  <2>1. CASE failed /\ m.type # "S"
    <3>1. answer = << >> /\ Len(answer) = 0
      BY <1>3, <2>1
    <3> QED BY <3>1 DEF OnlyRowsHaveIps
  <2>2. CASE ~(failed /\ m.type # "S")
    <3>1. answer \in AnswersTo(m) /\ portal \in FormatLists \cup {NoFormats}
      BY <1>3, <2>2 DEF ShapeInv, TypeOK
    <3> QED BY <3>1, AnswersAre DEF IsAnswer
  <2> QED BY <2>1, <2>2
<1>6. Client' = Client /\ Server' = Server \o answer
  BY <1>3, Opposites DEF ShapeInv, Client, Server
<1>7. IF failed /\ m.type # "S" THEN answer = << >> ELSE answer \in AnswersTo(m)
  BY <1>3
<1>8. failed' = IF answer = << >> THEN failed
                ELSE m.type # "Q" /\ answer[Len(answer)].type = "E"
  BY <1>3 DEF Last
<1> QED BY <1>1, <1>2, <1>3, <1>4, <1>5, <1>6, <1>7, <1>8

\* In the conversation nothing is rewritten, and the flow at work is the first.
LEMMA TalkFacts ==
  ASSUME ShapeInv, phase = "talk"
  PROVE  /\ pos = 0 /\ changed = [d \in Directions |-> {}]
         /\ flow = first /\ first \in Directions
         /\ Client \in Seq(Messages) /\ Server \in Seq(Messages)
         /\ Len(Client) \in Nat /\ Len(Server) \in Nat
<1>1. first \in Directions /\ Opposite(first) \in Directions
  BY Opposites DEF ShapeInv, TypeOK
<1>2. Head(<<first, Opposite(first)>>) = first
  BY <1>1
<1>3. flow = first
  BY <1>2 DEF flow, ShapeInv, FlowsInv
<1>4. Client \in Seq(Messages) /\ Server \in Seq(Messages)
  BY Opposites DEF ShapeInv, TypeOK, Client, Server
<1> QED BY <1>1, <1>3, <1>4, LenProperties DEF ShapeInv

LEMMA AnswersShape ==
  ASSUME ShapeInv, ServerAnswers
  PROVE  ShapeInv'
<1>1. PICK m \in ClientKinds, answer \in Seq(Messages) :
        /\ seen + 1 \in 1 .. Len(Client) /\ m = Client[seen + 1]
        /\ stream' = [stream EXCEPT !["server"] = @ \o answer]
        /\ Client' = Client /\ Server' = Server \o answer
        /\ failed' = IF answer = << >> THEN failed
                     ELSE m.type # "Q" /\ answer[Len(answer)].type = "E"
        /\ portal' = IF m.type = "B" /\ ~failed THEN m.formats ELSE portal
        /\ \A k \in 1 .. Len(answer) :
             answer[k].type \notin {"B", "Q"} /\ (answer[k].type # "D" => answer[k].ips = {})
  BY AnswerIs DEF OnlyRowsHaveIps
<1>2. phase = "talk" /\ seen' = seen + 1
      /\ UNCHANGED <<phase, first, flows, pos, queue, current, rejected, changed>>
  BY DEF ServerAnswers
<1>3. /\ pos = 0 /\ changed = [d \in Directions |-> {}] /\ flow = first /\ first \in Directions
      /\ Client \in Seq(Messages) /\ Server \in Seq(Messages)
      /\ Len(Client) \in Nat /\ Len(Server) \in Nat
  BY <1>2, TalkFacts
<1>4. Len(answer) \in Nat
  BY LenProperties
<1>5. /\ Server' \in Seq(Messages) /\ Len(Server') = Len(Server) + Len(answer)
      /\ \A n \in 1 .. Len(Server) + Len(answer) :
           Server'[n] = IF n <= Len(Server) THEN Server[n] ELSE answer[n - Len(Server)]
  BY <1>1, <1>3, ConcatProperties
<1>6. /\ stream' = [d \in Directions |-> stream'[d]]
      /\ stream'["client"] = Client' /\ stream'["server"] = Server'
  BY <1>1, Opposites DEF ShapeInv, Client, Server
<1>7. \A d \in Directions : stream'[d] \in Seq(Messages) /\ Len(stream'[d]) \in Nat
  <2>1. Client' \in Seq(Messages) /\ Len(Client') \in Nat /\ Len(Server') \in Nat
    BY <1>1, <1>3, <1>4, <1>5
  <2> QED BY <1>5, <1>6, <2>1, Opposites
<1>8. flow' = flow
  BY <1>2 DEF flow
<1>9. portal' \in FormatLists \cup {NoFormats} /\ failed' \in BOOLEAN
  BY <1>1, ClientKindsAre DEF ShapeInv, TypeOK
<1>10. seen' \in 0 .. Len(Client')
  BY <1>1, <1>2, <1>3 DEF ShapeInv, TypeOK
<1>11. TypeOK'
  BY <1>2, <1>3, <1>6, <1>7, <1>8, <1>9, <1>10 DEF ShapeInv, TypeOK
<1>12. SendersInv'
  <2>1. \A n \in 1 .. Len(Client') : Client'[n] \in ClientKinds
    BY <1>1 DEF ShapeInv, SendersInv
  <2>2. ASSUME NEW n \in 1 .. Len(Server')
        PROVE  Server'[n].type \notin {"B", "Q"} /\ (Server'[n].type # "D" => Server'[n].ips = {})
    <3>1. CASE n <= Len(Server)
      BY <1>3, <1>4, <1>5, <3>1 DEF ShapeInv, SendersInv
    <3>2. CASE n > Len(Server)
      <4>1. n - Len(Server) \in 1 .. Len(answer) /\ Server'[n] = answer[n - Len(Server)]
        BY <1>3, <1>4, <1>5, <3>2
      <4> QED BY <1>1, <4>1
    <3> QED BY <1>3, <1>4, <1>5, <3>1, <3>2
  <2> QED BY <2>1, <2>2 DEF SendersInv
<1> QED BY <1>2, <1>6, <1>11, <1>12 DEF ShapeInv, FlowsInv

LEMMA BeginShape ==
  ASSUME ShapeInv, BeginRewrite
  PROVE  ShapeInv'
<1>1. phase = "talk" /\ phase' = "rewrite"
      /\ UNCHANGED <<talk, flows, pos, queue, current, rejected, changed>>
  BY DEF BeginRewrite
<1>2. flow' = flow
  BY <1>1 DEF flow
<1>3. TypeOK'
  BY <1>1, <1>2 DEF ShapeInv, TypeOK, talk
<1>4. SendersInv'
  BY <1>1 DEF ShapeInv, SendersInv, Client, Server, talk
<1> QED BY <1>1, <1>3, <1>4 DEF ShapeInv, FlowsInv, talk

LEMMA NextFlowShape ==
  ASSUME ShapeInv, NextFlow
  PROVE  ShapeInv'
<1>1. /\ phase = "rewrite" /\ flows' = Tail(flows) /\ pos' = 0
      /\ phase' = IF Tail(flows) = << >> THEN "done" ELSE phase
      /\ UNCHANGED <<talk, queue, current, rejected, changed>>
  BY DEF NextFlow
<1>2. first \in Directions /\ Opposite(first) \in Directions
  BY Opposites DEF ShapeInv, TypeOK
<1>3. Tail(flows) = <<Opposite(first)>> \/ Tail(flows) = << >>
  BY <1>1, AtWork
<1>4. PICK other \in Directions : other = Opposite(first)
  BY <1>2
<1>5. <<other>> # << >> /\ Head(<<other>>) = other /\ <<other>> \in Seq(Directions)
      /\ << >> \in Seq(Directions)
  OBVIOUS
<1>6. first' = first /\ stream' = stream
  BY <1>1 DEF talk
<1>7. FlowsInv' /\ flows' \in Seq(Directions)
  BY <1>1, <1>3, <1>4, <1>5, <1>6 DEF FlowsInv
<1>8. phase' = "done" \/ pos' \in 0 .. Len(stream'[flow'])
  <2>1. CASE Tail(flows) = << >>
    BY <1>1, <2>1
  <2>2. CASE Tail(flows) = <<Opposite(first)>>
    <3>1. flow' = other
      BY <1>1, <1>4, <1>5, <2>2 DEF flow
    <3>2. Len(stream[other]) \in Nat
      BY LenProperties DEF ShapeInv, TypeOK
    <3> QED BY <1>1, <1>6, <3>1, <3>2
  <2> QED BY <1>3, <2>1, <2>2
<1>9. TypeOK'
  BY <1>1, <1>7, <1>8 DEF ShapeInv, TypeOK, talk
<1>10. SendersInv'
  BY <1>6 DEF ShapeInv, SendersInv, Client, Server
<1> QED BY <1>1, <1>6, <1>7, <1>9, <1>10 DEF ShapeInv

LEMMA MessageSteps ==
  ASSUME ShapeInv,
         \/ RewriteQuery \/ RewriteBind \/ RewriteRow \/ RewriteDescribe
         \/ FinishResult \/ FinishQuery \/ PassMessage \/ PassTail
  PROVE  ShapeInv'
<1>0. /\ phase = "rewrite" /\ pos < Len(stream[flow])
  BY DEF RewriteQuery, RewriteBind, RewriteRow, RewriteDescribe, FinishResult, FinishQuery,
         PassMessage, PassTail, AtMessage
<1>1. /\ flow \in Directions /\ Len(stream[flow]) \in Nat /\ pos \in 0 .. Len(stream[flow])
      /\ This \in Messages /\ This.ips \in SUBSET Columns
      /\ This.type = "B" => This.formats \in FormatLists
  BY <1>0, AtWork
<1>2. /\ queue \in Seq(FormatLists) /\ current \in FormatLists \cup {NoFormats}
      /\ current # NoFormats => queue # << >> /\ current = Head(queue)
      /\ rejected \subseteq Directions
      /\ changed = [d \in Directions |-> changed[d]]
      /\ \A d \in Directions : changed[d] \subseteq (1 .. Len(stream[d])) \X Columns
  BY DEF ShapeInv, TypeOK
<1>3. ASSUME Advance
      PROVE  UNCHANGED <<phase, talk, flows>> /\ pos' \in 0 .. Len(stream[flow])
  BY <1>0, <1>1, <1>3 DEF Advance
<1>4. ASSUME NEW formats \in FormatLists, queue' = Append(queue, formats),
             Advance, UNCHANGED <<current, rejected, changed>>
      PROVE  ShapeInv'
  <2>1. queue' \in Seq(FormatLists) /\ queue' # << >>
        /\ (queue # << >> => Head(queue') = Head(queue))
    BY <1>2, <1>4, AppendProperties, HeadTailAppend
  <2> QED BY <1>0, <1>2, <1>3, <1>4, <2>1, MessageKeepsShape
<1>5. CASE RewriteQuery
  BY <1>4, <1>5, FormatFacts DEF RewriteQuery, Remember
<1>6. CASE RewriteBind
  BY <1>1, <1>4, <1>6 DEF RewriteBind, Remember, AtMessage, This
<1>7. CurrentFormats \in FormatLists \cup {NoFormats}
      /\ (CurrentFormats # NoFormats => queue # << >> /\ CurrentFormats = Head(queue))
  BY CurrentIs DEF ShapeInv
<1>8. ASSUME Reject, UNCHANGED queue, current' = CurrentFormats \/ current' = current
      PROVE  ShapeInv'
  BY <1>0, <1>2, <1>7, <1>8, RejectIs, MessageKeepsShape
<1>9. CASE RewriteRow
  <2>1. current' = CurrentFormats /\ UNCHANGED queue
    BY <1>9 DEF RewriteRow
  <2>2. CASE Reject
    BY <1>8, <2>1, <2>2
  <2>3. CASE /\ changed' = [changed EXCEPT ![flow] = @ \cup ({pos + 1} \X This.ips)]
             /\ Advance /\ UNCHANGED rejected
    <3>1. pos + 1 \in 1 .. Len(stream[flow])
      BY <1>0, <1>1
    <3>2. {pos + 1} \X This.ips \subseteq (1 .. Len(stream[flow])) \X Columns
      BY <1>1, <3>1
    <3>3. /\ \A d \in Directions : changed'[d] = IF d = flow
               THEN changed[d] \cup ({pos + 1} \X This.ips) ELSE changed[d]
          /\ changed' = [d \in Directions |-> changed'[d]]
      BY <1>1, <1>2, <2>3
    <3>4. \A d \in Directions : changed'[d] \subseteq (1 .. Len(stream[d])) \X Columns
      BY <1>2, <3>2, <3>3
    <3> QED BY <1>0, <1>2, <1>3, <1>7, <2>1, <2>3, <3>3, <3>4, MessageKeepsShape
  <2> QED BY <1>9, <2>2, <2>3 DEF RewriteRow
<1>10. CASE RewriteDescribe
  BY <1>8, <1>10 DEF RewriteDescribe
<1>11. CASE FinishResult
  <2>1. CASE CurrentFormats = AllText
    BY <1>0, <1>2, <1>3, <1>11, <2>1, MessageKeepsShape DEF FinishResult
  <2>2. CASE CurrentFormats # AllText
    <3>1. current' = NoFormats /\ queue' = IF queue = << >> THEN queue ELSE Tail(queue)
      BY <1>11, <2>2 DEF FinishResult
    <3>2. queue' \in Seq(FormatLists)
      BY <1>2, <3>1, HeadTailProperties
    <3> QED BY <1>0, <1>2, <1>3, <1>11, <3>1, <3>2, MessageKeepsShape DEF FinishResult
  <2> QED BY <2>1, <2>2
<1>12. CASE FinishQuery
  <2>1. queue' = << >> /\ current' = NoFormats /\ << >> \in Seq(FormatLists)
    BY <1>12 DEF FinishQuery
  <2> QED BY <1>0, <1>2, <1>3, <1>12, <2>1, MessageKeepsShape DEF FinishQuery
<1>13. CASE PassMessage
  BY <1>0, <1>2, <1>3, <1>13, MessageKeepsShape DEF PassMessage
<1>14. CASE PassTail
  <2>1. CASE Reject
    BY <1>8, <1>14, <2>1 DEF PassTail
  <2>2. CASE pos' = Len(stream[flow]) /\ UNCHANGED <<phase, talk, flows, rejected, changed>>
    <3>1. pos' \in 0 .. Len(stream[flow])
      BY <1>1, <2>2
    <3> QED BY <1>0, <1>2, <1>14, <2>2, <3>1, MessageKeepsShape DEF PassTail
  <2> QED BY <1>14, <2>1, <2>2 DEF PassTail
<1> QED BY <1>5, <1>6, <1>9, <1>10, <1>11, <1>12, <1>13, <1>14

LEMMA ShapeStep == ShapeInv /\ [Next]_vars => ShapeInv'
<1> SUFFICES ASSUME ShapeInv, [Next]_vars PROVE ShapeInv'
  OBVIOUS
<1>1. CASE UNCHANGED vars
  <2>1. TypeOK'
    BY <1>1 DEF ShapeInv, TypeOK, vars, talk, flow
  <2>2. FlowsInv' /\ SendersInv'
    BY <1>1 DEF ShapeInv, FlowsInv, SendersInv, Client, Server, vars, talk
  <2> QED BY <1>1, <2>1, <2>2 DEF ShapeInv, vars, talk
<1>2. CASE Next
  BY <1>2, SendsShape, AnswersShape, BeginShape, NextFlowShape, MessageSteps DEF Next
<1> QED BY <1>1, <1>2

(***************************************************************************)
(* Of every state: the formats in use are the head of the queue (what      *)
(* current_result_formats relies on), for any kind of session.             *)
(***************************************************************************)
THEOREM TypeCorrect == Spec => []TypeOK
<1>1. ShapeInv => TypeOK
  BY DEF ShapeInv
<1> QED BY <1>1, ShapeInit, ShapeStep, PTL DEF Spec

-----------------------------------------------------------------------------
(***************************************************************************)
(* What is behind the place in the server's stream has been replaced where *)
(* it had the address, unless the stream is rejected.                      *)
(***************************************************************************)
IsHandled(n) == {n} \X Server[n].ips \subseteq changed["server"]

PassedInv ==
  /\ phase = "rewrite" /\ flow = "server" /\ "server" \notin rejected =>
       \A n \in 1 .. pos : IsHandled(n)
  /\ NothingIsMissedSilently

MissedInv == ShapeInv /\ PassedInv

LEMMA HasNoIpIsHandled ==
  ASSUME NEW n, Server[n].ips = {}
  PROVE  IsHandled(n)
BY DEF IsHandled

\* The steps on the server's messages.
LEMMA ServerMessagePassed ==
  ASSUME MissedInv, phase = "rewrite", pos < Len(stream[flow]), flow = "server",
         "server" \notin rejected, UNCHANGED <<phase, talk, flows>>,
         \/ "server" \in rejected'
         \/ /\ changed["server"] \subseteq changed'["server"]
            /\ \A n \in pos + 1 .. pos' :
                 Server[n].ips = {} \/ {n} \X Server[n].ips \subseteq changed'["server"]
  PROVE  PassedInv'
<1>1. stream' = stream /\ Server' = Server /\ flow' = flow /\ phase' = phase /\ flows' = flows
  BY DEF talk, Server, flow
<1>2. "server" \in Range(flows) /\ "server" \in Range(flows')
  <2>1. flows \in Seq(Directions) /\ flows # << >>
    BY AtWork DEF MissedInv, ShapeInv, TypeOK
  <2>2. 1 \in DOMAIN flows /\ flows[1] = "server"
    BY <2>1 DEF flow
  <2> QED BY <1>1, <2>2 DEF Range
<1>3. ASSUME "server" \notin rejected', NEW n \in 1 .. pos'
      PROVE  IsHandled(n)'
  <2>1. pos \in Int
    BY AtWork DEF MissedInv
  <2>2. CASE n \in 1 .. pos
    BY <1>1, <1>3, <2>2 DEF MissedInv, PassedInv, IsHandled
  <2>3. CASE n \notin 1 .. pos
    <3>1. n \in pos + 1 .. pos'
      BY <2>1, <2>3
    <3> QED BY <1>1, <1>3, <3>1 DEF IsHandled
  <2> QED BY <2>2, <2>3
<1> QED BY <1>1, <1>2, <1>3 DEF PassedInv, NothingIsMissedSilently

LEMMA ServerRejectedPassed ==
  ASSUME MissedInv, phase = "rewrite", flow = "server", "server" \in rejected,
         UNCHANGED <<phase, talk, flows>>, "server" \in rejected'
  PROVE  PassedInv'
BY DEF PassedInv, NothingIsMissedSilently

\* The steps on the client's messages.
LEMMA ClientMessagePassed ==
  ASSUME MissedInv, phase = "rewrite", flow # "server",
         UNCHANGED <<phase, talk, flows>>, changed'["server"] = changed["server"],
         rejected \subseteq rejected'
  PROVE  PassedInv'
<1>1. stream' = stream /\ Server' = Server /\ flow' = flow /\ phase' = phase /\ flows' = flows
  BY DEF talk, Server, flow
<1> QED BY <1>1 DEF MissedInv, PassedInv, NothingIsMissedSilently, IsHandled, Server

LEMMA MessagesPassed ==
  ASSUME MissedInv,
         \/ RewriteQuery \/ RewriteBind \/ RewriteRow \/ RewriteDescribe
         \/ FinishResult \/ FinishQuery \/ PassMessage \/ PassTail
  PROVE  PassedInv'
<1>0. /\ phase = "rewrite" /\ pos < Len(stream[flow])
  BY DEF RewriteQuery, RewriteBind, RewriteRow, RewriteDescribe, FinishResult, FinishQuery,
         PassMessage, PassTail, AtMessage
<1>1. /\ flow \in Directions /\ Len(stream[flow]) \in Nat /\ pos \in 0 .. Len(stream[flow])
      /\ This = stream[flow][pos + 1] /\ ShapeInv
  BY <1>0, AtWork DEF MissedInv
<1>2. flow = "server" => This = Server[pos + 1] /\ pos + 1 \in 1 .. Len(Server)
  BY <1>0, <1>1 DEF Server
<1>3. flow = "server" /\ This.type # "D" => Server[pos + 1].ips = {}
  BY <1>1, <1>2 DEF ShapeInv, SendersInv
<1>4. ASSUME UNCHANGED <<phase, talk, flows>>,
             \/ "server" \in rejected'
             \/ /\ changed["server"] \subseteq changed'["server"]
                /\ \A n \in pos + 1 .. pos' :
                     Server[n].ips = {} \/ {n} \X Server[n].ips \subseteq changed'["server"],
             rejected \subseteq rejected', flow = "server"
      PROVE  PassedInv'
  <2>1. CASE "server" \in rejected
    BY <1>0, <1>4, <2>1, ServerRejectedPassed
  <2>2. CASE "server" \notin rejected
    BY <1>0, <1>4, <2>2, ServerMessagePassed
  <2> QED BY <2>1, <2>2
<1>5. ASSUME Reject
      PROVE  PassedInv'
  <2>1. /\ UNCHANGED <<phase, talk, flows>> /\ rejected' = rejected \cup {flow}
        /\ changed'["server"] = IF flow = "server" THEN {} ELSE changed["server"]
    BY <1>0, <1>1, <1>5, RejectIs, Opposites DEF Reject
  <2> QED BY <1>0, <1>4, <2>1, ClientMessagePassed
<1>6. ASSUME Advance, This.type # "D" \/ flow # "server", UNCHANGED <<rejected, changed>>
      PROVE  PassedInv'
  <2>1. UNCHANGED <<phase, talk, flows>> /\ pos' = pos + 1
    BY <1>6 DEF Advance
  <2>2. CASE flow = "server"
    <3>1. \A n \in pos + 1 .. pos' : Server[n].ips = {}
      BY <1>1, <1>3, <1>6, <2>1, <2>2
    <3> QED BY <1>4, <1>6, <2>1, <2>2, <3>1
  <2>3. CASE flow # "server"
    BY <1>0, <1>6, <2>1, <2>3, ClientMessagePassed
  <2> QED BY <2>2, <2>3
<1>7. CASE RewriteQuery
  BY <1>6, <1>7 DEF RewriteQuery, AtMessage, This
<1>8. CASE RewriteBind
  BY <1>6, <1>8 DEF RewriteBind, AtMessage, This
<1>9. CASE RewriteRow
  <2>1. CASE Reject
    BY <1>5, <2>1
  <2>2. CASE /\ changed' = [changed EXCEPT ![flow] = @ \cup ({pos + 1} \X This.ips)]
             /\ Advance /\ UNCHANGED rejected
    <3>1. flow = "server" /\ UNCHANGED <<phase, talk, flows>> /\ pos' = pos + 1
      BY <1>9, <2>2 DEF RewriteRow, Advance
    <3>2. changed'["server"] = changed["server"] \cup ({pos + 1} \X This.ips)
      BY <1>1, <2>2, <3>1 DEF ShapeInv
    <3>3. \A n \in pos + 1 .. pos' : n = pos + 1
      BY <1>1, <3>1
    <3>4. \A n \in pos + 1 .. pos' : {n} \X Server[n].ips \subseteq changed'["server"]
      BY <1>2, <3>1, <3>2, <3>3
    <3> QED BY <1>4, <2>2, <3>1, <3>2, <3>4
  <2> QED BY <1>9, <2>1, <2>2 DEF RewriteRow
<1>10. CASE RewriteDescribe
  BY <1>5, <1>10 DEF RewriteDescribe
<1>11. CASE FinishResult
  BY <1>6, <1>11 DEF FinishResult, AtMessage, This
<1>12. CASE FinishQuery
  BY <1>6, <1>12 DEF FinishQuery, AtMessage, This
<1>13. CASE PassMessage
  BY <1>6, <1>13 DEF PassMessage, AtMessage, This
<1>14. CASE PassTail
  <2>1. CASE Reject
    BY <1>5, <2>1
  <2>2. CASE /\ NoneHasIp(SubSeq(stream[flow], pos + 2, Len(stream[flow])))
             /\ pos' = Len(stream[flow]) /\ UNCHANGED <<phase, talk, flows, rejected, changed>>
    <3>1. CASE flow # "server"
      BY <1>0, <2>2, <3>1, ClientMessagePassed
    <3>2. CASE flow = "server"
      <4>1. Server \in Seq(Messages) /\ Len(Server) \in Nat /\ pos \in Nat /\ stream[flow] = Server
        BY <1>1, <3>2, LenProperties, AtWork, <1>0 DEF Server
      <4> DEFINE rest == SubSeq(Server, pos + 2, Len(Server))
      <4>2. ASSUME NEW n \in pos + 2 .. Len(Server)
            PROVE  Server[n].ips = {}
        <5>1. /\ rest \in Seq(Messages) /\ Len(rest) = Len(Server) - (pos + 2) + 1
              /\ \A k \in 1 .. Len(Server) - (pos + 2) + 1 : rest[k] = Server[pos + 2 + k - 1]
          <6>1. pos + 2 \in Int /\ pos + 2 <= Len(Server)
                /\ \A k \in pos + 2 .. Len(Server) : Server[k] \in Messages
            BY <4>1, <4>2, ElementOfSeq
          <6> QED BY <4>1, <6>1, SubSeqProperties
        <5>2. n - (pos + 1) \in 1 .. Len(Server) - (pos + 2) + 1
              /\ pos + 2 + (n - (pos + 1)) - 1 = n
          BY <4>1, <4>2
        <5>3. \A k \in 1 .. Len(rest) : rest[k].ips = {}
          BY <2>2, <4>1, <5>1, LenProperties DEF NoneHasIp
        <5> QED BY <5>1, <5>2, <5>3
      <4>3. Server[pos + 1].ips = {}
        BY <1>3, <1>14, <3>2 DEF PassTail, AtMessage, This
      <4>4. \A n \in pos + 1 .. pos' : n = pos + 1 \/ n \in pos + 2 .. Len(Server)
        BY <2>2, <4>1
      <4> QED BY <1>4, <2>2, <3>2, <4>2, <4>3, <4>4
    <3> QED BY <3>1, <3>2
  <2> QED BY <1>14, <2>1, <2>2 DEF PassTail
<1> QED BY <1>7, <1>8, <1>9, <1>10, <1>11, <1>12, <1>13, <1>14

LEMMA MissedStep == MissedInv /\ [Next]_vars => MissedInv'
<1> SUFFICES ASSUME MissedInv, [Next]_vars PROVE MissedInv'
  OBVIOUS
<1>1. ShapeInv' /\ ShapeInv
  BY ShapeStep DEF MissedInv
<1>2. CASE UNCHANGED vars
  BY <1>1, <1>2 DEF MissedInv, PassedInv, NothingIsMissedSilently, IsHandled, Server, vars, talk, flow
<1>3. CASE ClientSends \/ ServerAnswers
  BY <1>1, <1>3 DEF ClientSends, ServerAnswers, MissedInv, PassedInv, NothingIsMissedSilently
<1>4. CASE BeginRewrite
  <2>1. phase = "talk" /\ pos' = 0 /\ flows' = flows /\ flows = <<first, Opposite(first)>>
        /\ first \in Directions
    BY <1>1, <1>4 DEF BeginRewrite, ShapeInv, FlowsInv, TypeOK
  <2>2. flows = <<"client", "server">> \/ flows = <<"server", "client">>
    BY <2>1, Opposites
  <2>3. "server" \in Range(flows')
    BY <2>1, <2>2 DEF Range
  <2> QED BY <1>1, <2>1, <2>3 DEF MissedInv, PassedInv, NothingIsMissedSilently
<1>5. CASE NextFlow
  <2>1. /\ phase = "rewrite" /\ pos = Len(stream[flow]) /\ flows' = Tail(flows) /\ pos' = 0
        /\ UNCHANGED <<talk, rejected, changed>>
    BY <1>5 DEF NextFlow
  <2>2. stream' = stream /\ Server' = Server
    BY <2>1 DEF talk, Server
  <2>3. "server" \notin rejected /\ "server" \notin Range(flows') =>
          \A n \in 1 .. Len(Server) : IsHandled(n)
    <3>1. CASE flow = "server"
      BY <1>1, <2>1, <3>1 DEF MissedInv, PassedInv, Server
    <3>2. CASE flow = "client" /\ flow = first
      <4>1. Tail(flows) = <<"server">>
        <5>1. flow = first /\ Tail(flows) = <<Opposite(first)>>
          BY <1>1, <2>1, <3>2, AtWork, Opposites
        <5> QED BY <3>2, <5>1, Opposites
      <4>2. 1 \in DOMAIN <<"server">> /\ <<"server">>[1] = "server"
        OBVIOUS
      <4>3. "server" \in Range(flows')
        BY <2>1, <4>1, <4>2 DEF Range
      <4> QED BY <4>3
    <3>3. CASE flow = "client" /\ flow # first
      <4>1. first = "server" /\ flows = <<"client">>
        BY <1>1, <2>1, <3>3, Opposites DEF ShapeInv, TypeOK, FlowsInv, flow
      <4>2. "server" \notin Range(flows)
        BY <4>1 DEF Range
      <4>3. Len(Server) \in Nat /\ DOMAIN Server = 1 .. Len(Server)
        BY <1>1, Opposites, LenProperties DEF ShapeInv, TypeOK, Server
      <4> QED BY <2>1, <4>2, <4>3 DEF MissedInv, PassedInv, NothingIsMissedSilently, IsHandled, Server
    <3> QED BY <1>1, <2>1, <3>1, <3>2, <3>3, AtWork, Opposites
  <2>4. \A n : IsHandled(n)' <=> IsHandled(n)
    BY <2>1, <2>2 DEF IsHandled
  <2>5. DOMAIN Server' = 1 .. Len(Server)
    BY <1>1, <2>2, Opposites, LenProperties DEF ShapeInv, TypeOK, Server
  <2>6. NothingIsMissedSilently'
    BY <2>1, <2>2, <2>3, <2>4, <2>5 DEF NothingIsMissedSilently, IsHandled, Server
  <2>7. \A n \in 1 .. pos' : IsHandled(n)'
    BY <2>1
  <2> QED BY <1>1, <2>6, <2>7 DEF MissedInv, PassedInv
<1>6. CASE \/ RewriteQuery \/ RewriteBind \/ RewriteRow \/ RewriteDescribe
           \/ FinishResult \/ FinishQuery \/ PassMessage \/ PassTail
  BY <1>1, <1>6, MessagesPassed DEF MissedInv
<1> QED BY <1>2, <1>3, <1>4, <1>5, <1>6 DEF Next

(***************************************************************************)
(* A stream of the server that is written has the old address in no row,   *)
(* whatever the two sides have sent and in whichever order they are        *)
(* captured: rewrite_data_row_body refuses what it cannot place.           *)
(***************************************************************************)
THEOREM NothingIsMissed == Spec => []NothingIsMissedSilently
<1>1. Init => MissedInv
  BY ShapeInit DEF Init, MissedInv, PassedInv, NothingIsMissedSilently
<1>2. MissedInv => NothingIsMissedSilently
  BY DEF MissedInv, PassedInv
<1> QED BY <1>1, <1>2, MissedStep, PTL DEF Spec

-----------------------------------------------------------------------------
(***************************************************************************)
(* Sessions in which the handler can know which formats a row has: what is *)
(* bound is executed once and at once, no Bind asks for text only by an    *)
(* empty list, no statement is closed, and no result is suspended.         *)
(***************************************************************************)
IsPlain ==
  /\ OnceEach
  /\ Bind(AllText) \notin ClientKinds /\ Message("C") \notin ClientKinds
  /\ Answers \subseteq {"C", "E"}

\* A Query or a Bind opens a result; what it chooses, and what opened the one of message c.
Opens(c) == Client[c].type \in {"Q", "B"}
Chosen(c) == IF Client[c].type = "Q" THEN AllText ELSE Client[c].formats
Opener(c) == IF Client[c].type = "Q" THEN c ELSE c - 1

\* There is no ReadyForQuery yet, which forgets all formats.
Clean(n) == \A m \in 1 .. n : Server[m].type # "Z"

ClientOrder ==
  \A n \in 1 .. Len(Client) :
    /\ Client[n].type = "E" => n > 1 /\ Client[n - 1].type = "B"
    /\ Client[n].type = "B" /\ n < Len(Client) => Client[n + 1].type = "E"

(***************************************************************************)
(* The server's message n answers the client's message of[n].              *)
(***************************************************************************)
InOrder(of) ==
  /\ of \in [1 .. Len(Server) -> 1 .. seen]
  /\ \A m, n \in 1 .. Len(Server) : m < n => of[m] <= of[n]

RowsAre(of) ==
  \A n \in 1 .. Len(Server) : Server[n].type = "D" =>
    /\ Client[of[n]].type \in {"Q", "E"}
    /\ Server[n].formats = Chosen(Opener(of[n]))

EndsAre(of) ==
  \A n \in 1 .. Len(Server) : Server[n].type = "C" =>
    /\ Client[of[n]].type \in {"Q", "E"}
    /\ \A m \in n + 1 .. Len(Server) :
         of[m] > of[n] \/ (Client[of[n]].type = "Q" /\ Server[m].type = "Z")

\* Message c has had its result before n, unless it has none.
IsAnswered(of, c, n) ==
  /\ Client[c].type # "Q"
  /\ Client[c].type = "E" => \E m \in 1 .. n - 1 : Server[m].type = "C" /\ of[m] = c

AnsweredBefore(of) ==
  \A n \in 1 .. Len(Server) : Server[n].type \in {"D", "C"} /\ Clean(n - 1) =>
    \A c \in 1 .. of[n] - 1 : IsAnswered(of, c, n)

AnsweredNow(of) ==
  Clean(Len(Server)) /\ ~failed => \A c \in 1 .. seen : IsAnswered(of, c, Len(Server) + 1)

PortalIs == ~failed /\ seen > 0 /\ Client[seen].type = "B" => portal = Client[seen].formats

\* Without Query, Sync and startup there is no ReadyForQuery, and no answer to a request for SSL.
PipelineIs == IsPipeline => \A n \in 1 .. Len(Server) : Server[n].type \notin {"Z", "N"}

Conversation(of) ==
  InOrder(of) /\ RowsAre(of) /\ EndsAre(of) /\ AnsweredBefore(of) /\ AnsweredNow(of)

(***************************************************************************)
(* The queue lists what opened results among the client's messages from lo *)
(* to hi.                                                                  *)
(***************************************************************************)
ListsAt(at, lo, hi) ==
  /\ \A j \in 1 .. Len(queue) : Opens(at[j]) /\ queue[j] = Chosen(at[j])
  /\ \A i, j \in 1 .. Len(queue) : i < j => at[i] < at[j]
  /\ \A c \in lo .. hi : Opens(c) => \E j \in 1 .. Len(queue) : at[j] = c

Lists(lo, hi) == \E at \in [1 .. Len(queue) -> lo .. hi] : ListsAt(at, lo, hi)

ClientAtWork ==
  phase = "rewrite" /\ first = "client" /\ flow = "client" =>
    /\ \E hi \in 0 .. Len(Client) :
         /\ Lists(1, hi)
         /\ pos < Len(Client) \/ "client" \notin rejected => hi = pos
    /\ IsPipeline => "client" \notin rejected

\* The results that have ended are those in front of lo.
EndedBelow(of, lo) ==
  /\ \A m \in 1 .. pos : Server[m].type = "C" /\ Client[of[m]].type = "E" => of[m] < lo
  /\ lo > 1 => \E m \in 1 .. pos :
                 Server[m].type = "C" /\ of[m] = lo - 1 /\ Client[of[m]].type = "E"

ServerAtWork(of) ==
  phase = "rewrite" /\ flow = "server" /\ pos < Len(Server) =>
    IF first = "client" /\ Clean(pos)
    THEN \E lo \in Nat \ {0}, hi \in 0 .. Len(Client) :
           /\ Lists(lo, hi)
           /\ IsPipeline => hi = Len(Client)
           /\ EndedBelow(of, lo)
    ELSE queue = << >>

TextIsKept ==
  first = "client" /\ IsPipeline /\ phase # "talk" /\ AllIpsAreText => "server" \notin rejected

PlainInv ==
  /\ ClientOrder /\ PortalIs /\ PipelineIs /\ ClientAtWork
  /\ OnlyTextIsRewritten /\ TextIsKept
  /\ \E of \in [1 .. Len(Server) -> 1 .. seen] : Conversation(of) /\ ServerAtWork(of)

-----------------------------------------------------------------------------
\* The conversation so far depends on what the server has seen of the client.
LEMMA ConversationStays ==
  ASSUME ShapeInv, ClientOrder, NEW of, Conversation(of),
         seen' = seen, failed' = failed, Server' = Server,
         \A c \in 1 .. Len(Client) : Client'[c] = Client[c]
  PROVE  Conversation(of)'
<1>1. /\ seen \in 0 .. Len(Client) /\ Len(Client) \in Nat /\ Len(Server) \in Nat
  <2>1. Client \in Seq(Messages) /\ Server \in Seq(Messages)
    BY Opposites DEF ShapeInv, TypeOK, Client, Server
  <2> QED BY <2>1, LenProperties DEF ShapeInv, TypeOK, Client
<1>2. \A c \in 1 .. seen : c \in 1 .. Len(Client) /\ Client'[c] = Client[c]
  BY <1>1
<1>3. InOrder(of)'
  BY DEF Conversation, InOrder
<1>4. \A n \in 1 .. Len(Server) : of[n] \in 1 .. seen /\ of[n] \in 1 .. Len(Client)
                                   /\ Client'[of[n]] = Client[of[n]]
  BY <1>2 DEF Conversation, InOrder
<1>5. RowsAre(of)'
  <2> SUFFICES ASSUME NEW n \in 1 .. Len(Server), Server[n].type = "D"
               PROVE  /\ Client'[of[n]].type \in {"Q", "E"}
                      /\ Server[n].formats = Chosen(Opener(of[n]))'
    BY DEF RowsAre
  <2>1. Client[of[n]].type \in {"Q", "E"} /\ Server[n].formats = Chosen(Opener(of[n]))
    BY DEF Conversation, RowsAre
  <2>2. PICK c : c = Opener(of[n])
    OBVIOUS
  <2>3. c \in 1 .. Len(Client)
    BY <1>1, <1>4, <2>1, <2>2 DEF Opener, ClientOrder
  <2>4. Opener(of[n])' = c
    BY <1>4, <2>2 DEF Opener
  <2> QED BY <1>4, <2>1, <2>2, <2>3, <2>4 DEF Chosen
<1>6. EndsAre(of)'
  BY <1>4 DEF Conversation, EndsAre
<1>7. \A n : Clean(n)' <=> Clean(n)
  BY DEF Clean
<1>8. \A c \in 1 .. seen : \A n : IsAnswered(of, c, n)' <=> IsAnswered(of, c, n)
  BY <1>2 DEF IsAnswered
<1>9. AnsweredBefore(of)'
  <2> SUFFICES ASSUME NEW n \in 1 .. Len(Server), Server[n].type \in {"D", "C"}, Clean(n - 1),
                      NEW c \in 1 .. of[n] - 1
               PROVE  IsAnswered(of, c, n)'
    BY <1>7 DEF AnsweredBefore
  <2>1. IsAnswered(of, c, n)
    BY DEF Conversation, AnsweredBefore
  <2>2. c \in 1 .. seen
    BY <1>1, <1>4
  <2> QED BY <1>8, <2>1, <2>2
<1>10. AnsweredNow(of)'
  BY <1>7, <1>8 DEF Conversation, AnsweredNow
<1> QED BY <1>3, <1>5, <1>6, <1>9, <1>10 DEF Conversation

LEMMA SendsConversation ==
  ASSUME IsPlain, ShapeInv, PlainInv, ClientSends
  PROVE  PlainInv'
<1>1. PICK m \in ClientKinds :
        /\ OnceEach => (m.type = "E") = (stream["client"] # << >>
                                         /\ Last(stream["client"]).type = "B")
        /\ stream' = [stream EXCEPT !["client"] = Append(@, m)]
  BY DEF ClientSends
<1>2. /\ UNCHANGED <<phase, seen, portal, failed, first, flows, pos, queue, current, rejected, changed>>
      /\ phase = "talk"
  BY DEF ClientSends
<1>3. /\ Client \in Seq(Messages) /\ Server \in Seq(Messages)
      /\ Len(Client) \in Nat /\ Len(Server) \in Nat /\ m \in Messages
      /\ seen \in 0 .. Len(Client)
  BY <1>2, ClientKindsAre, TalkFacts DEF ShapeInv, TypeOK, Client
<1>4. Client' = Append(Client, m) /\ Server' = Server
  BY <1>1, Opposites DEF ShapeInv, Client, Server
<1>5. /\ Client' \in Seq(Messages) /\ Len(Client') = Len(Client) + 1
      /\ \A c \in 1 .. Len(Client) : Client'[c] = Client[c]
      /\ Client'[Len(Client) + 1] = m
  BY <1>3, <1>4, AppendProperties
<1>6. (m.type = "E") = (Len(Client) > 0 /\ Client[Len(Client)].type = "B")
  <2>1. Client # << >> <=> Len(Client) > 0
    BY <1>3
  <2> QED BY <1>1, <2>1 DEF IsPlain, Client, Last
<1>7. ClientOrder'
  <2> SUFFICES ASSUME NEW n \in 1 .. Len(Client) + 1
               PROVE  /\ Client'[n].type = "E" => n > 1 /\ Client'[n - 1].type = "B"
                      /\ Client'[n].type = "B" /\ n < Len(Client) + 1 => Client'[n + 1].type = "E"
    BY <1>5 DEF ClientOrder
  <2>1. CASE n = Len(Client) + 1
    <3>1. Client'[n] = m /\ n - 1 = Len(Client)
      BY <1>3, <1>5, <2>1
    <3>2. Len(Client) > 0 => Client'[n - 1] = Client[Len(Client)]
      BY <1>3, <1>5, <3>1
    <3> QED BY <1>3, <1>6, <2>1, <3>1, <3>2
  <2>2. CASE n < Len(Client)
    <3>1. Client'[n] = Client[n] /\ Client'[n + 1] = Client[n + 1] /\ n \in 1 .. Len(Client)
      BY <1>3, <1>5, <2>2
    <3>2. n > 1 => Client'[n - 1] = Client[n - 1]
      BY <1>3, <1>5, <2>2
    <3> QED BY <2>2, <3>1, <3>2 DEF PlainInv, ClientOrder
  <2>3. CASE n = Len(Client)
    <3>1. Client'[n] = Client[n] /\ Client'[n + 1] = m /\ n \in 1 .. Len(Client) /\ Len(Client) > 0
      BY <1>3, <1>5, <2>3
    <3>2. n > 1 => Client'[n - 1] = Client[n - 1]
      BY <1>3, <1>5, <2>3
    <3> QED BY <1>6, <2>3, <3>1, <3>2 DEF PlainInv, ClientOrder
  <2> QED BY <1>3, <2>1, <2>2, <2>3
<1>8. PortalIs'
  <2>1. seen > 0 => Client'[seen] = Client[seen]
    BY <1>3, <1>5
  <2> QED BY <1>2, <2>1 DEF PlainInv, PortalIs
<1>9. PipelineIs'
  <2>1. IsPipeline' => IsPipeline
    <3>1. DOMAIN Client = 1 .. Len(Client) /\ DOMAIN Client' = 1 .. Len(Client) + 1
      BY <1>3, <1>5
    <3>2. ASSUME NEW n \in DOMAIN Client, IsPipeline'
          PROVE  Client[n].type \in {"P", "B", "E"}
      <4>1. n \in DOMAIN Client' /\ Client'[n] = Client[n]
        BY <1>3, <1>5, <3>1, <3>2
      <4> QED BY <3>2, <4>1 DEF IsPipeline, Client
    <3> QED BY <3>2 DEF IsPipeline, Client
  <2> QED BY <1>4, <2>1 DEF PlainInv, PipelineIs
<1>10. PICK of \in [1 .. Len(Server) -> 1 .. seen] : Conversation(of)
  BY DEF PlainInv
<1>11. Conversation(of)'
  BY <1>2, <1>4, <1>5, <1>10, ConversationStays DEF PlainInv
<1>12. changed'["server"] = {}
  BY <1>2, TalkFacts, Opposites
<1>13. ServerAtWork(of)' /\ ClientAtWork' /\ OnlyTextIsRewritten' /\ TextIsKept'
  BY <1>2, <1>12 DEF ServerAtWork, ClientAtWork, OnlyTextIsRewritten, TextIsKept
<1>14. of \in [1 .. Len(Server') -> 1 .. seen']
  BY <1>2, <1>4, <1>10
<1> QED BY <1>7, <1>8, <1>9, <1>11, <1>13, <1>14 DEF PlainInv

\* In a plain session, a result ends by CommandComplete or by an error.
IsPlainAnswer(m, answer) ==
  /\ \A k \in 1 .. Len(answer) : answer[k].type \in {"D", "C"} => m.type \in {"Q", "E"}
  /\ \A k \in 1 .. Len(answer) : answer[k].type = "D" =>
       answer[k].formats = IF m.type = "Q" THEN AllText ELSE portal
  /\ \A k \in 1 .. Len(answer) : answer[k].type = "C" =>
       \A j \in k + 1 .. Len(answer) : m.type = "Q" /\ answer[j].type = "Z"
  /\ m.type \in {"Q", "S", "startup"} => \E k \in 1 .. Len(answer) : answer[k].type = "Z"
  /\ m.type = "E" => answer[Len(answer)].type \in {"C", "E"}
  /\ m.type \in {"P", "B", "E"} => \A k \in 1 .. Len(answer) : answer[k].type \notin {"Z", "N"}

LEMMA PlainAnswers ==
  ASSUME IsPlain, NEW m \in ClientKinds, portal \in FormatLists \cup {NoFormats},
         NEW answer \in AnswersTo(m)
  PROVE  /\ answer \in Seq(Messages) /\ Len(answer) \in Nat \ {0}
         /\ IsPlainAnswer(m, answer)
<1>1. m.type \in {"B", "startup", "ssl", "Q", "P", "D", "E", "C", "S"}
  BY ClientKindsAre
<1>2. IsAnswer(m, answer)
  BY AnswersAre
<1> PICK size : size = Len(answer)
  OBVIOUS
<1>3. Answers \subseteq {"C", "E"}
  BY DEF IsPlain
<1>typed. answer \in Seq(Messages) /\ size \in Nat \ {0} /\ Len(answer) = size
  BY <1>2 DEF IsAnswer
<1>4. CASE m.type = "Q"
  <2>0. QueryIsAnswered(answer)
    BY <1>2, <1>4 DEF IsAnswer
  <2>1. \A k \in 1 .. size : k \in 1 .. size - 2 \/ k = size - 1 \/ k = size
    BY <1>typed, <1>4, <2>0 DEF QueryIsAnswered
  <2>2. size - 1 \in 1 .. size /\ size \in 1 .. size
    BY <1>typed, <1>4, <2>0 DEF QueryIsAnswered
  <2>3. answer[size].type = "Z" /\ answer[size - 1].type \in {"C", "E"}
        /\ \A k \in 1 .. size - 2 : answer[k].type = "D" /\ answer[k].formats = AllText
    BY <1>typed, <1>4, <2>0 DEF QueryIsAnswered
  <2>4. ASSUME NEW k \in 1 .. size, answer[k].type = "C", NEW j \in k + 1 .. size
        PROVE  answer[j].type = "Z"
    <3>1. k = size - 1 \/ k = size
      BY <2>1, <2>3, <2>4
    <3>2. j = size
      BY <1>typed, <2>4, <3>1
    <3> QED BY <2>3, <3>2
  <2>5. \A k \in 1 .. size : answer[k].type = "D" => answer[k].formats = AllText
    BY <2>1, <2>3
  <2> QED BY <1>typed, <1>4, <2>0, <2>2, <2>3, <2>4, <2>5 DEF IsPlainAnswer
<1>5. CASE m.type = "E"
  <2>0. ExecuteIsAnswered(answer)
    BY <1>2, <1>5 DEF IsAnswer
  <2>1. \A k \in 1 .. size : k \in 1 .. size - 1 \/ k = size
    BY <1>typed
  <2>2. answer[size].type \in {"C", "E"}
        /\ \A k \in 1 .. size - 1 : answer[k].type = "D" /\ answer[k].formats = portal
    BY <1>typed, <2>0, <1>3 DEF ExecuteIsAnswered
  <2>3. ASSUME NEW k \in 1 .. size, answer[k].type = "C", NEW j \in k + 1 .. size
        PROVE  FALSE
    <3>1. k = size
      BY <2>1, <2>2, <2>3
    <3> QED BY <1>typed, <2>3, <3>1
  <2>4. \A k \in 1 .. size : answer[k].type = "D" => answer[k].formats = portal
    BY <2>1, <2>2
  <2>5. \A k \in 1 .. size : answer[k].type \notin {"Z", "N"}
    BY <2>1, <2>2
  <2> QED BY <1>typed, <1>5, <2>0, <2>2, <2>3, <2>4, <2>5 DEF IsPlainAnswer
<1>6. CASE m.type \notin {"Q", "E"}
  <2>0. OtherIsAnswered(m, answer)
    BY <1>2, <1>6 DEF IsAnswer
  <2>1. size = 1 /\ \A k \in 1 .. size : k = 1
    BY <1>typed, <1>6, <2>0 DEF OtherIsAnswered
  <2>2. answer[1].type \notin {"D", "C"}
    BY <1>typed, <1>6, <2>0 DEF OtherIsAnswered
  <2>3. m.type \in {"S", "startup"} => answer[1].type = "Z"
    BY <1>typed, <1>6, <2>0 DEF OtherIsAnswered
  <2>4. m.type \in {"P", "B"} => answer[1].type \notin {"Z", "N"}
    BY <1>typed, <1>6, <2>0 DEF OtherIsAnswered
  <2> QED BY <1>typed, <1>6, <2>0, <2>1, <2>2, <2>3, <2>4 DEF IsPlainAnswer
<1> QED BY <1>4, <1>5, <1>6

\* The messages of an answer answer the message that was read.
Extended(of, length) == [n \in 1 .. length |-> IF n <= Len(Server) THEN of[n] ELSE seen + 1]

LEMMA AnswersConversation ==
  ASSUME IsPlain, ShapeInv, PlainInv, ServerAnswers
  PROVE  PlainInv'
<1>1. PICK m \in ClientKinds, answer \in Seq(Messages) :
        /\ seen + 1 \in 1 .. Len(Client) /\ m = Client[seen + 1]
        /\ IF failed /\ m.type # "S" THEN answer = << >> ELSE answer \in AnswersTo(m)
        /\ Client' = Client /\ Server' = Server \o answer
        /\ failed' = IF answer = << >> THEN failed
                     ELSE m.type # "Q" /\ answer[Len(answer)].type = "E"
        /\ portal' = IF m.type = "B" /\ ~failed THEN m.formats ELSE portal
  BY AnswerIs
<1>2. phase = "talk" /\ seen' = seen + 1 /\ first' = first
      /\ UNCHANGED <<phase, flows, pos, queue, current, rejected, changed>>
  BY DEF ServerAnswers
<1>3. PICK L, A : L = Len(Server) /\ A = Len(answer)
  OBVIOUS
<1>4. /\ Client \in Seq(Messages) /\ Server \in Seq(Messages)
      /\ L \in Nat /\ A \in Nat /\ seen \in Nat /\ Len(Client) \in Nat
      /\ portal \in FormatLists \cup {NoFormats}
  BY <1>2, <1>3, TalkFacts, LenProperties DEF ShapeInv, TypeOK
<1>5. /\ Len(Server') = L + A
      /\ \A n \in 1 .. L : Server'[n] = Server[n]
      /\ \A k \in 1 .. A : Server'[L + k] = answer[k]
  <2>1. /\ Len(Server') = L + A
        /\ \A n \in 1 .. L + A : Server'[n] = IF n <= L THEN Server[n] ELSE answer[n - L]
    BY <1>1, <1>3, <1>4, ConcatProperties
  <2>2. \A k \in 1 .. A : L + k \in 1 .. L + A /\ ~(L + k <= L) /\ (L + k) - L = k
    BY <1>4
  <2>3. \A n \in 1 .. L : n \in 1 .. L + A /\ n <= L
    BY <1>4
  <2> QED BY <2>1, <2>2, <2>3
<1>split. \A n \in 1 .. L + A : n \in 1 .. L \/ \E k \in 1 .. A : n = L + k
  <2>1. ASSUME NEW n \in 1 .. L + A, n \notin 1 .. L
        PROVE  n - L \in 1 .. A /\ n = L + (n - L)
    BY <1>4, <2>1
  <2> QED BY <2>1
<1>6. PICK old \in [1 .. L -> 1 .. seen] : Conversation(old)
  BY <1>3 DEF PlainInv
<1>7. PICK of : of = Extended(old, L + A)
  OBVIOUS
<1>8. /\ of \in [1 .. L + A -> 1 .. seen + 1]
      /\ \A n \in 1 .. L : of[n] = old[n] /\ old[n] \in 1 .. seen
      /\ \A k \in 1 .. A : of[L + k] = seen + 1
  <2>1. \A n \in 1 .. L : n \in 1 .. L + A /\ n <= L /\ old[n] \in 1 .. seen
    BY <1>4, <1>6
  <2>2. \A k \in 1 .. A : L + k \in 1 .. L + A /\ ~(L + k <= L)
    BY <1>4
  <2>3. \A n \in 1 .. L + A : of[n] = IF n <= L THEN old[n] ELSE seen + 1
    BY <1>3, <1>7 DEF Extended
  <2>4. \A n \in 1 .. L + A : of[n] \in 1 .. seen + 1
    <3>1. 1 .. seen \subseteq 1 .. seen + 1 /\ seen + 1 \in 1 .. seen + 1
      BY <1>4
    <3> QED BY <1>split, <2>1, <2>2, <2>3, <3>1
  <2>5. of \in [1 .. L + A -> 1 .. seen + 1]
    BY <1>3, <1>7, <2>4 DEF Extended
  <2> QED BY <2>1, <2>2, <2>3, <2>5
<1>9. /\ \A k \in 1 .. A : answer[k].type \in {"D", "C"} => m.type \in {"Q", "E"} /\ ~failed
      /\ \A k \in 1 .. A : answer[k].type = "D" =>
           answer[k].formats = IF m.type = "Q" THEN AllText ELSE portal
      /\ \A k \in 1 .. A : answer[k].type = "C" =>
           \A j \in k + 1 .. A : m.type = "Q" /\ answer[j].type = "Z"
      /\ m.type \in {"P", "B", "E"} => \A k \in 1 .. A : answer[k].type \notin {"Z", "N"}
      /\ A # 0 => /\ m.type \in {"Q", "S", "startup"} => \E k \in 1 .. A : answer[k].type = "Z"
                  /\ m.type = "E" => answer[A].type \in {"C", "E"}
                  /\ failed' = (m.type # "Q" /\ answer[A].type = "E")
      /\ A = 0 => failed /\ failed'
  <2>1. CASE failed /\ m.type # "S"
    <3>1. answer = << >> /\ A = 0
      BY <1>1, <1>3, <2>1
    <3> QED BY <1>1, <2>1, <3>1
  <2>2. CASE ~(failed /\ m.type # "S")
    <3>1. answer \in AnswersTo(m)
      BY <1>1, <2>2
    <3>2. A # 0 /\ answer # << >>
      <4>1. A \in Nat \ {0}
        BY <1>3, <1>4, <3>1, PlainAnswers
      <4> QED BY <1>3, <4>1
    <3>3. m.type \in {"Q", "E"} => ~failed
      BY <2>2
    <3>4. /\ \A k \in 1 .. A : answer[k].type \in {"D", "C"} => m.type \in {"Q", "E"}
          /\ \A k \in 1 .. A : answer[k].type = "D" =>
               answer[k].formats = IF m.type = "Q" THEN AllText ELSE portal
          /\ \A k \in 1 .. A : answer[k].type = "C" =>
               \A j \in k + 1 .. A : m.type = "Q" /\ answer[j].type = "Z"
          /\ m.type \in {"Q", "S", "startup"} => \E k \in 1 .. A : answer[k].type = "Z"
          /\ m.type = "E" => answer[A].type \in {"C", "E"}
          /\ m.type \in {"P", "B", "E"} => \A k \in 1 .. A : answer[k].type \notin {"Z", "N"}
      <4>1. IsPlainAnswer(m, answer)
        BY <1>4, <3>1, PlainAnswers
      <4> QED BY <1>3, <4>1 DEF IsPlainAnswer
    <3>5. failed' = (m.type # "Q" /\ answer[A].type = "E")
      BY <1>1, <1>3, <3>2
    <3> QED BY <3>2, <3>3, <3>4, <3>5
  <2> QED BY <2>1, <2>2
<1>10. \A c : /\ Client'[c] = Client[c]
              /\ Opener(c)' = Opener(c) /\ Chosen(c)' = Chosen(c)
              /\ Chosen(Opener(c))' = Chosen(Opener(c))
  BY <1>1 DEF Chosen, Opener
<1>11. InOrder(of)'
  <2>1. \A i, j \in 1 .. L + A : i < j => of[i] <= of[j]
    <3> SUFFICES ASSUME NEW i \in 1 .. L + A, NEW j \in 1 .. L + A, i < j
                 PROVE  of[i] <= of[j]
      OBVIOUS
    <3>1. CASE j \in 1 .. L
      <4>1. i \in 1 .. L
        BY <1>4, <3>1
      <4> QED BY <1>3, <1>6, <1>8, <3>1, <4>1 DEF Conversation, InOrder
    <3>2. CASE j \notin 1 .. L
      <4>1. of[j] = seen + 1
        BY <1>split, <1>8, <3>2
      <4>2. of[i] \in 1 .. seen + 1
        BY <1>8
      <4> QED BY <1>4, <4>1, <4>2
    <3> QED BY <3>1, <3>2
  <2> QED BY <1>2, <1>5, <1>8, <2>1 DEF InOrder
<1>12. RowsAre(of)'
  <2> SUFFICES ASSUME NEW n \in 1 .. L + A, Server'[n].type = "D"
               PROVE  /\ Client[of[n]].type \in {"Q", "E"}
                      /\ Server'[n].formats = Chosen(Opener(of[n]))
    BY <1>5, <1>10 DEF RowsAre
  <2>1. CASE n \in 1 .. L
    BY <1>3, <1>5, <1>6, <1>8, <2>1 DEF Conversation, RowsAre
  <2>2. ASSUME NEW k \in 1 .. A, n = L + k
        PROVE  /\ Client[of[n]].type \in {"Q", "E"}
               /\ Server'[n].formats = Chosen(Opener(of[n]))
    <3>1. /\ Server'[n] = answer[k] /\ of[n] = seen + 1 /\ Client[of[n]] = m
          /\ m.type \in {"Q", "E"} /\ ~failed
          /\ answer[k].formats = IF m.type = "Q" THEN AllText ELSE portal
      BY <1>1, <1>5, <1>8, <1>9, <2>2
    <3>2. CASE m.type = "Q"
      BY <3>1, <3>2 DEF Chosen, Opener
    <3>3. CASE m.type = "E"
      <4>1. seen + 1 > 1 /\ Client[(seen + 1) - 1].type = "B"
        BY <1>1, <3>3 DEF PlainInv, ClientOrder
      <4>2. (seen + 1) - 1 = seen /\ seen > 0
        BY <1>4, <4>1
      <4>3. portal = Client[seen].formats
        BY <3>1, <4>1, <4>2 DEF PlainInv, PortalIs
      <4>4. Chosen(Opener(of[n])) = Client[seen].formats
        BY <3>1, <3>3, <4>1, <4>2 DEF Chosen, Opener
      <4> QED BY <3>1, <3>3, <4>3, <4>4
    <3> QED BY <3>1, <3>2, <3>3
  <2> QED BY <1>split, <2>1, <2>2
<1>13. EndsAre(of)'
  <2> SUFFICES ASSUME NEW n \in 1 .. L + A, Server'[n].type = "C"
               PROVE  /\ Client[of[n]].type \in {"Q", "E"}
                      /\ \A j \in n + 1 .. L + A :
                           of[j] > of[n] \/ (Client[of[n]].type = "Q" /\ Server'[j].type = "Z")
    BY <1>5, <1>10 DEF EndsAre
  <2>1. CASE n \in 1 .. L
    <3>1. /\ Server[n].type = "C" /\ of[n] = old[n] /\ old[n] \in 1 .. seen
          /\ Client[old[n]].type \in {"Q", "E"}
          /\ \A j \in n + 1 .. L :
               old[j] > old[n] \/ (Client[old[n]].type = "Q" /\ Server[j].type = "Z")
      BY <1>3, <1>5, <1>6, <1>8, <2>1 DEF Conversation, EndsAre
    <3>2. ASSUME NEW j \in n + 1 .. L + A
          PROVE  of[j] > of[n] \/ (Client[of[n]].type = "Q" /\ Server'[j].type = "Z")
      <4>1. j \in 1 .. L + A
        BY <1>4
      <4>2. CASE j \in 1 .. L
        <5>1. j \in n + 1 .. L
          BY <1>4, <4>2
        <5> QED BY <1>5, <1>8, <3>1, <4>2, <5>1
      <4>3. CASE j \notin 1 .. L
        <5>1. of[j] = seen + 1
          BY <1>split, <1>8, <4>1, <4>3
        <5> QED BY <1>4, <3>1, <5>1
      <4> QED BY <4>2, <4>3
    <3> QED BY <3>1, <3>2
  <2>2. ASSUME NEW k \in 1 .. A, n = L + k
        PROVE  /\ Client[of[n]].type \in {"Q", "E"}
               /\ \A j \in n + 1 .. L + A :
                    of[j] > of[n] \/ (Client[of[n]].type = "Q" /\ Server'[j].type = "Z")
    <3>1. /\ Server'[n] = answer[k] /\ of[n] = seen + 1 /\ Client[of[n]] = m
          /\ m.type \in {"Q", "E"}
          /\ \A j \in k + 1 .. A : m.type = "Q" /\ answer[j].type = "Z"
      BY <1>1, <1>5, <1>8, <1>9, <2>2
    <3>2. ASSUME NEW j \in n + 1 .. L + A
          PROVE  m.type = "Q" /\ Server'[j].type = "Z"
      <4>1. j - L \in k + 1 .. A /\ j - L \in 1 .. A /\ j = L + (j - L)
        BY <1>4, <2>2
      <4> QED BY <1>5, <3>1, <4>1
    <3> QED BY <3>1, <3>2
  <2> QED BY <1>split, <2>1, <2>2
<1>14. \A n \in 0 .. L + A : Clean(n)' => \A j \in 1 .. n : Server'[j].type # "Z"
  BY DEF Clean
<1>15. \A n \in 0 .. L : Clean(n)' => Clean(n)
  <2> SUFFICES ASSUME NEW n \in 0 .. L, Clean(n)', NEW j \in 1 .. n
               PROVE  Server[j].type # "Z"
    BY DEF Clean
  <2>1. j \in 1 .. L
    BY <1>4
  <2> QED BY <1>5, <2>1 DEF Clean
<1>16. \A n \in L .. L + A : Clean(n)' => Clean(L)
  <2> SUFFICES ASSUME NEW n \in L .. L + A, Clean(n)', NEW j \in 1 .. L
               PROVE  Server[j].type # "Z"
    BY DEF Clean
  <2>1. j \in 1 .. n
    BY <1>4
  <2> QED BY <1>5, <2>1 DEF Clean
<1>17. ASSUME NEW c, NEW i \in 1 .. L + 1, NEW n \in i .. L + A + 1, IsAnswered(old, c, i)
       PROVE  IsAnswered(of, c, n)'
  <2>1. Client'[c].type # "Q"
    BY <1>1, <1>17 DEF IsAnswered
  <2>2. ASSUME Client'[c].type = "E"
        PROVE  \E j \in 1 .. n - 1 : Server'[j].type = "C" /\ of[j] = c
    <3>1. PICK j \in 1 .. i - 1 : Server[j].type = "C" /\ old[j] = c
      BY <1>1, <1>17, <2>2 DEF IsAnswered
    <3>2. j \in 1 .. L /\ j \in 1 .. n - 1
      BY <1>4
    <3> QED BY <1>5, <1>8, <3>1, <3>2
  <2> QED BY <2>1, <2>2 DEF IsAnswered
<1>18. AnsweredBefore(of)'
  <2> SUFFICES ASSUME NEW n \in 1 .. L + A, Server'[n].type \in {"D", "C"}, Clean(n - 1)',
                      NEW c \in 1 .. of[n] - 1
               PROVE  IsAnswered(of, c, n)'
    BY <1>5 DEF AnsweredBefore
  <2>1. CASE n \in 1 .. L
    <3>1. n - 1 \in 0 .. L /\ n \in 1 .. L + 1 /\ n \in n .. L + A + 1
      BY <1>4, <2>1
    <3>2. IsAnswered(old, c, n)
      BY <1>3, <1>5, <1>6, <1>8, <1>15, <2>1, <3>1 DEF Conversation, AnsweredBefore
    <3> QED BY <1>17, <3>1, <3>2
  <2>2. ASSUME NEW k \in 1 .. A, n = L + k
        PROVE  IsAnswered(of, c, n)'
    <3>1. ~failed /\ c \in 1 .. seen
      <4>1. Server'[n] = answer[k] /\ of[n] = seen + 1
        BY <1>5, <1>8, <2>2
      <4>2. ~failed
        BY <1>9, <4>1
      <4> QED BY <1>4, <4>1, <4>2
    <3>2. n - 1 \in L .. L + A /\ n \in L + 1 .. L + A + 1 /\ L + 1 \in 1 .. L + 1
      BY <1>4, <2>2
    <3>3. IsAnswered(old, c, L + 1)
      BY <1>3, <1>6, <1>16, <3>1, <3>2 DEF Conversation, AnsweredNow
    <3> QED BY <1>17, <3>2, <3>3
  <2> QED BY <1>split, <2>1, <2>2
<1>19. AnsweredNow(of)'
  <2> SUFFICES ASSUME Clean(L + A)', ~failed', NEW c \in 1 .. seen + 1
               PROVE  IsAnswered(of, c, L + A + 1)'
    BY <1>2, <1>5 DEF AnsweredNow
  <2>1. A # 0 /\ A \in 1 .. A /\ L + A \in 1 .. L + A
    BY <1>4, <1>9
  <2>2. \A k \in 1 .. A : answer[k].type # "Z"
    <3>1. \A k \in 1 .. A : L + k \in 1 .. L + A
      BY <1>4
    <3>2. L + A \in 0 .. L + A
      BY <1>4
    <3> QED BY <1>5, <1>14, <3>1, <3>2
  <2>3. m.type \notin {"Q", "S", "startup"}
    BY <1>9, <2>1, <2>2
  <2>4. ~failed
    BY <1>1, <1>3, <2>1, <2>3
  <2>5. CASE c \in 1 .. seen
    <3>1. L + A \in L .. L + A /\ L + A + 1 \in L + 1 .. L + A + 1 /\ L + 1 \in 1 .. L + 1
      BY <1>4
    <3>2. IsAnswered(old, c, L + 1)
      BY <1>3, <1>6, <1>16, <2>4, <2>5, <3>1 DEF Conversation, AnsweredNow
    <3> QED BY <1>17, <3>1, <3>2
  <2>6. CASE c = seen + 1
    <3>1. Client'[c] = m
      BY <1>1, <2>6
    <3>2. ASSUME m.type = "E"
          PROVE  Server'[L + A].type = "C" /\ of[L + A] = c /\ L + A \in 1 .. (L + A + 1) - 1
      <4>1. Server'[L + A] = answer[A] /\ of[L + A] = c
        BY <1>5, <1>8, <2>1, <2>6
      <4>2. answer[A].type = "C"
        BY <1>9, <2>1, <3>2
      <4>3. L + A \in 1 .. (L + A + 1) - 1
        BY <1>4, <2>1
      <4> QED BY <4>1, <4>2, <4>3
    <3> QED BY <2>3, <3>1, <3>2 DEF IsAnswered
  <2> QED BY <1>4, <2>5, <2>6
<1>20. PortalIs'
  <2> SUFFICES ASSUME ~failed', Client[seen + 1].type = "B"
               PROVE  portal' = Client[seen + 1].formats
    BY <1>1, <1>2 DEF PortalIs
  <2>1. ~failed
    BY <1>1
  <2> QED BY <1>1, <2>1
<1>21. PipelineIs'
  <2> SUFFICES ASSUME IsPipeline', NEW n \in 1 .. L + A
               PROVE  Server'[n].type \notin {"Z", "N"}
    BY <1>5 DEF PipelineIs
  <2>1. IsPipeline
    BY <1>1 DEF IsPipeline, Client
  <2>2. m.type \in {"P", "B", "E"}
    <3>1. seen + 1 \in DOMAIN Client
      BY <1>1, <1>4
    <3> QED BY <1>1, <2>1, <3>1 DEF IsPipeline, Client
  <2>3. \A j \in 1 .. L : Server[j].type \notin {"Z", "N"}
    BY <1>3, <2>1 DEF PlainInv, PipelineIs
  <2> QED BY <1>split, <1>5, <1>9, <2>2, <2>3
<1>22. ClientOrder'
  BY <1>1 DEF PlainInv, ClientOrder
<1>23. changed'["server"] = {}
  BY <1>2, TalkFacts, Opposites
<1>24. ServerAtWork(of)' /\ ClientAtWork' /\ OnlyTextIsRewritten' /\ TextIsKept'
  BY <1>2, <1>23 DEF ServerAtWork, ClientAtWork, OnlyTextIsRewritten, TextIsKept
<1>25. of \in [1 .. Len(Server') -> 1 .. seen']
  BY <1>2, <1>5, <1>8
<1>26. Conversation(of)'
  BY <1>11, <1>12, <1>13, <1>18, <1>19 DEF Conversation
<1> QED BY <1>20, <1>21, <1>22, <1>24, <1>25, <1>26 DEF PlainInv

-----------------------------------------------------------------------------
(***************************************************************************)
(* The queue.                                                              *)
(***************************************************************************)
LEMMA ListsAppend ==
  ASSUME TypeOK, UNCHANGED stream, NEW hi \in Nat, Lists(1, hi), Opens(hi + 1),
         Chosen(hi + 1) \in FormatLists, queue' = Append(queue, Chosen(hi + 1))
  PROVE  Lists(1, hi + 1)'
<1>1. PICK at \in [1 .. Len(queue) -> 1 .. hi] : ListsAt(at, 1, hi)
  BY DEF Lists
<1>2. PICK size : size = Len(queue)
  OBVIOUS
<1>3. queue \in Seq(FormatLists) /\ size \in Nat
  BY <1>2, LenProperties DEF TypeOK
<1>4. /\ Len(queue') = size + 1 /\ queue'[size + 1] = Chosen(hi + 1)
      /\ \A j \in 1 .. size : queue'[j] = queue[j]
  BY <1>2, <1>3, AppendProperties
<1>5. PICK new : new = [j \in 1 .. size + 1 |-> IF j = size + 1 THEN hi + 1 ELSE at[j]]
  OBVIOUS
<1>6. \A j \in 1 .. size + 1 : j = size + 1 \/ (j \in 1 .. size /\ j # size + 1)
  BY <1>3
<1>7. \A j \in 1 .. size : j \in 1 .. size + 1 /\ j # size + 1
  BY <1>3
<1>8. /\ new[size + 1] = hi + 1
      /\ \A j \in 1 .. size : new[j] = at[j] /\ at[j] \in 1 .. hi
  <2>1. size + 1 \in 1 .. size + 1
    BY <1>3
  <2> QED BY <1>1, <1>2, <1>5, <1>7, <2>1
<1>9. new \in [1 .. size + 1 -> 1 .. hi + 1]
  <2>1. hi + 1 \in 1 .. hi + 1 /\ 1 .. hi \subseteq 1 .. hi + 1
    OBVIOUS
  <2> QED BY <1>5, <1>6, <1>8, <2>1
<1>10. \A c : Opens(c)' = Opens(c) /\ Chosen(c)' = Chosen(c)
  BY DEF Opens, Chosen, Client
<1>11. \A j \in 1 .. size + 1 : Opens(new[j]) /\ queue'[j] = Chosen(new[j])
  BY <1>1, <1>2, <1>4, <1>6, <1>8 DEF ListsAt
<1>12. ASSUME NEW i \in 1 .. size + 1, NEW j \in 1 .. size + 1, i < j
       PROVE  new[i] < new[j]
  <2>1. i \in 1 .. size
    BY <1>3, <1>12
  <2>2. CASE j \in 1 .. size
    BY <1>1, <1>2, <1>8, <1>12, <2>1, <2>2 DEF ListsAt
  <2>3. CASE j = size + 1
    <3>1. at[i] \in 1 .. hi /\ new[i] = at[i] /\ new[j] = hi + 1
      BY <1>8, <2>1, <2>3
    <3> QED BY <3>1
  <2> QED BY <1>6, <2>2, <2>3
<1>13. ASSUME NEW c \in 1 .. hi + 1, Opens(c)
       PROVE  \E j \in 1 .. size + 1 : new[j] = c
  <2>1. CASE c = hi + 1
    <3>1. size + 1 \in 1 .. size + 1
      BY <1>3
    <3> QED BY <1>8, <2>1, <3>1
  <2>2. CASE c # hi + 1
    <3>1. c \in 1 .. hi
      BY <2>2
    <3>2. PICK j \in 1 .. size : at[j] = c
      BY <1>1, <1>2, <1>13, <3>1 DEF ListsAt
    <3> QED BY <1>7, <1>8, <3>2
  <2> QED BY <2>1, <2>2
<1>14. ListsAt(new, 1, hi + 1)'
  BY <1>4, <1>10, <1>11, <1>12, <1>13 DEF ListsAt
<1> QED BY <1>4, <1>9, <1>14 DEF Lists

LEMMA ListsSkip ==
  ASSUME UNCHANGED <<stream, queue>>, NEW hi \in Nat, Lists(1, hi), ~Opens(hi + 1)
  PROVE  Lists(1, hi + 1)'
<1>1. PICK at \in [1 .. Len(queue) -> 1 .. hi] : ListsAt(at, 1, hi)
  BY DEF Lists
<1>2. \A c : Opens(c)' = Opens(c) /\ Chosen(c)' = Chosen(c)
  BY DEF Opens, Chosen, Client
<1>3. \A c \in 1 .. hi + 1 : c = hi + 1 \/ c \in 1 .. hi
  OBVIOUS
<1>4. ListsAt(at, 1, hi + 1)
  BY <1>1, <1>3 DEF ListsAt
<1>5. ListsAt(at, 1, hi + 1)'
  BY <1>2, <1>4 DEF ListsAt
<1>6. at \in [1 .. Len(queue) -> 1 .. hi + 1]
  <2>1. 1 .. hi \subseteq 1 .. hi + 1
    OBVIOUS
  <2> QED BY <2>1
<1> QED BY <1>5, <1>6 DEF Lists

\* What is listed does not depend on anything else.
LEMMA ListsStay ==
  ASSUME UNCHANGED <<stream, queue>>, NEW lo, NEW hi, Lists(lo, hi)
  PROVE  Lists(lo, hi)'
BY DEF Lists, ListsAt, Opens, Chosen, Client

LEMMA NothingIsListed ==
  ASSUME NEW lo, NEW hi, queue = << >>, \A c \in lo .. hi : ~Opens(c)
  PROVE  Lists(lo, hi)
<1>1. Len(queue) = 0
  OBVIOUS
<1>2. PICK at : at = [j \in 1 .. 0 |-> lo]
  OBVIOUS
<1>3. at \in [1 .. 0 -> lo .. hi] /\ \A j \in 1 .. 0 : FALSE
  BY <1>2
<1> QED BY <1>1, <1>3 DEF Lists, ListsAt

\* The head of the queue is what the first of the messages chose that opens a result.
LEMMA HeadIsFirst ==
  ASSUME TypeOK, NEW lo \in Nat, NEW hi \in Nat, Lists(lo, hi),
         NEW c \in Nat, lo <= c, \A i \in lo .. c - 1 : ~Opens(i), Opens(c)
  PROVE  /\ c <= hi => queue # << >> /\ Head(queue) = Chosen(c)
         /\ c > hi => queue = << >>
<1>1. PICK at \in [1 .. Len(queue) -> lo .. hi] : ListsAt(at, lo, hi)
  BY DEF Lists
<1>2. queue \in Seq(FormatLists) /\ Len(queue) \in Nat
  BY LenProperties DEF TypeOK
<1>3. \A j \in 1 .. Len(queue) : at[j] \in lo .. hi /\ Opens(at[j]) /\ at[j] >= c
  <2> SUFFICES ASSUME NEW j \in 1 .. Len(queue)
               PROVE  at[j] \in lo .. hi /\ Opens(at[j]) /\ at[j] >= c
    OBVIOUS
  <2>1. at[j] \in lo .. hi /\ Opens(at[j])
    BY <1>1 DEF ListsAt
  <2> QED BY <2>1
<1>4. ASSUME c <= hi
      PROVE  queue # << >> /\ Head(queue) = Chosen(c)
  <2>1. PICK j \in 1 .. Len(queue) : at[j] = c
    BY <1>1, <1>4 DEF ListsAt
  <2>2. 1 \in 1 .. Len(queue)
    BY <1>2
  <2>3. j = 1
    <3>1. SUFFICES ASSUME j # 1 PROVE FALSE
      OBVIOUS
    <3>2. 1 < j
      BY <1>2, <3>1
    <3>3. at[1] < at[j]
      BY <1>1, <2>2, <3>2 DEF ListsAt
    <3>4. at[1] >= c /\ at[1] \in Int
      BY <1>3, <2>2
    <3> QED BY <2>1, <3>3, <3>4
  <2>4. queue[1] = Chosen(c)
    BY <1>1, <2>1, <2>2, <2>3 DEF ListsAt
  <2>5. queue # << >>
    BY <1>2, <2>2
  <2> QED BY <1>2, <2>4, <2>5
<1>5. ASSUME c > hi, queue # << >>
      PROVE  FALSE
  <2>1. 1 \in 1 .. Len(queue)
    BY <1>2, <1>5
  <2> QED BY <1>3, <1>5, <2>1
<1> QED BY <1>4, <1>5

\* When its result has ended, the rest of the queue lists the messages behind.
LEMMA TailListsRest ==
  ASSUME TypeOK, UNCHANGED stream, NEW lo \in Nat, NEW hi \in Nat, Lists(lo, hi),
         NEW c \in Nat, lo <= c, \A i \in lo .. c - 1 : ~Opens(i), Opens(c), ~Opens(c + 1),
         queue' = IF queue = << >> THEN queue ELSE Tail(queue)
  PROVE  Lists(c + 2, hi)'
<1>0. \A i : Opens(i)' = Opens(i) /\ Chosen(i)' = Chosen(i)
  BY DEF Opens, Chosen, Client
<1>1. CASE c > hi
  <2>1. queue' = << >>
    BY <1>1, HeadIsFirst
  <2>2. \A i \in c + 2 .. hi : FALSE
    BY <1>1
  <2>3. Len(queue') = 0
    <3>1. Len(<< >>) = 0
      OBVIOUS
    <3> QED BY <2>1, <3>1, Zenon
  <2>4. PICK at : at = [j \in 1 .. 0 |-> lo]
    OBVIOUS
  <2>5. at \in [1 .. 0 -> c + 2 .. hi] /\ \A j \in 1 .. 0 : FALSE
    BY <2>4
  <2>6. ListsAt(at, c + 2, hi)'
    BY <2>2, <2>3, <2>5 DEF ListsAt
  <2> QED BY <2>3, <2>5, <2>6 DEF Lists
<1>2. CASE c <= hi
  <2>1. queue # << >> /\ Head(queue) = Chosen(c)
    BY <1>2, HeadIsFirst
  <2>2. PICK at \in [1 .. Len(queue) -> lo .. hi] : ListsAt(at, lo, hi)
    BY DEF Lists
  <2>3. PICK size : size = Len(queue)
    OBVIOUS
  <2>4. size \in Nat /\ size > 0 /\ queue \in Seq(FormatLists)
    BY <2>1, <2>3, LenProperties DEF TypeOK
  <2>5. /\ queue' = Tail(queue) /\ Len(queue') = size - 1
        /\ \A j \in 1 .. size - 1 : queue'[j] = queue[j + 1]
    BY <2>1, <2>3, <2>4, HeadTailProperties
  <2>6. \A j \in 1 .. size : at[j] \in lo .. hi /\ Opens(at[j]) /\ queue[j] = Chosen(at[j])
    BY <2>2, <2>3 DEF ListsAt
  <2>7. \A i, j \in 1 .. size : i < j => at[i] < at[j]
    BY <2>2, <2>3 DEF ListsAt
  <2>8. \A j \in 1 .. size : at[j] >= c
    <3> SUFFICES ASSUME NEW j \in 1 .. size
                 PROVE  at[j] >= c
      OBVIOUS
    <3>1. at[j] \in lo .. hi /\ Opens(at[j])
      BY <2>6
    <3> QED BY <3>1
  <2>9. \A j \in 1 .. size - 1 : j + 1 \in 1 .. size /\ at[j + 1] \in c + 2 .. hi
    <3> SUFFICES ASSUME NEW j \in 1 .. size - 1
                 PROVE  j + 1 \in 1 .. size /\ at[j + 1] \in c + 2 .. hi
      OBVIOUS
    <3>1. j + 1 \in 1 .. size /\ 1 \in 1 .. size /\ 1 < j + 1
      BY <2>4
    <3>2. at[1] < at[j + 1] /\ at[1] >= c
      BY <2>7, <2>8, <3>1
    <3>3. at[j + 1] \in lo .. hi /\ at[j + 1] # c + 1 /\ at[1] \in lo .. hi
      BY <2>6, <3>1
    <3> QED BY <3>1, <3>2, <3>3
  <2>10. PICK new : new = [j \in 1 .. size - 1 |-> at[j + 1]]
    OBVIOUS
  <2>11. new \in [1 .. size - 1 -> c + 2 .. hi] /\ \A j \in 1 .. size - 1 : new[j] = at[j + 1]
    BY <2>9, <2>10
  <2>12. \A j \in 1 .. size - 1 : Opens(new[j]) /\ queue'[j] = Chosen(new[j])
    BY <2>5, <2>6, <2>9, <2>11
  <2>13. ASSUME NEW i \in 1 .. size - 1, NEW j \in 1 .. size - 1, i < j
         PROVE  new[i] < new[j]
    <3>1. i + 1 < j + 1
      BY <2>13
    <3> QED BY <2>7, <2>9, <2>11, <3>1
  <2>14. ASSUME NEW i \in c + 2 .. hi, Opens(i)
         PROVE  \E j \in 1 .. size - 1 : new[j] = i
    <3>1. i \in lo .. hi /\ c \in lo .. hi /\ i # c
      BY <1>2
    <3>2. PICK j \in 1 .. size : at[j] = i
      BY <2>2, <2>3, <2>14, <3>1 DEF ListsAt
    <3>3. j # 1
      <4>1. PICK k \in 1 .. size : at[k] = c
        BY <2>2, <2>3, <3>1 DEF ListsAt
      <4>2. k < j \/ k = j \/ j < k
        OBVIOUS
      <4>3. CASE j < k
        BY <2>7, <3>1, <3>2, <4>1, <4>3
      <4>4. CASE k < j
        BY <4>4
      <4>5. CASE k = j
        BY <3>1, <3>2, <4>1, <4>5
      <4> QED BY <4>2, <4>3, <4>4, <4>5
    <3>4. j - 1 \in 1 .. size - 1 /\ (j - 1) + 1 = j
      BY <2>4, <3>3
    <3> QED BY <2>11, <3>2, <3>4
  <2>15. ListsAt(new, c + 2, hi)'
    BY <1>0, <2>5, <2>12, <2>13, <2>14 DEF ListsAt
  <2> QED BY <2>5, <2>11, <2>15 DEF Lists
<1> QED BY <1>1, <1>2

-----------------------------------------------------------------------------
(***************************************************************************)
(* The server's message at work is answered by the message that opened its *)
(* result: all the results in front have ended.                            *)
(***************************************************************************)
LEMMA OpenerIsFirst ==
  ASSUME IsPlain, ShapeInv, ClientOrder, NEW of, Conversation(of),
         pos \in Nat, NEW n \in 1 .. Len(Server), n = pos + 1, Clean(pos),
         Server[n].type \in {"D", "C"},
         NEW lo \in Nat \ {0}, EndedBelow(of, lo),
         NEW c, c = of[n]
  PROVE  /\ c \in 1 .. Len(Client) /\ Client[c].type \in {"Q", "E"}
         /\ Opener(c) \in Nat /\ lo <= Opener(c) /\ Opener(c) \in 1 .. Len(Client)
         /\ Opens(Opener(c)) /\ \A i \in lo .. Opener(c) - 1 : ~Opens(i)
         /\ Chosen(Opener(c)) \in FormatLists
         /\ Chosen(Opener(c)) = AllText <=> Client[c].type = "Q"
         /\ Client[c].type = "E" => Opener(c) = c - 1
<1>1. /\ Client \in Seq(Messages) /\ Server \in Seq(Messages)
      /\ Len(Client) \in Nat /\ Len(Server) \in Nat /\ seen \in 0 .. Len(Client)
  <2>1. Client \in Seq(Messages) /\ Server \in Seq(Messages)
    BY Opposites DEF ShapeInv, TypeOK, Client, Server
  <2> QED BY <2>1, LenProperties DEF ShapeInv, TypeOK, Client
<1>2. n - 1 = pos /\ n \in Nat
  OBVIOUS
<1>3. c \in 1 .. seen /\ c \in 1 .. Len(Client) /\ c \in Nat
  BY <1>1 DEF Conversation, InOrder
<1>4. Client[c].type \in {"Q", "E"}
  BY DEF Conversation, RowsAre, EndsAre
<1>5. \A i \in 1 .. c - 1 : IsAnswered(of, i, n)
  BY <1>2 DEF Conversation, AnsweredBefore
<1>6. \A i \in 1 .. c - 1 : Client[i].type = "E" => i < lo
  <2> SUFFICES ASSUME NEW i \in 1 .. c - 1, Client[i].type = "E"
               PROVE  i < lo
    OBVIOUS
  <2>1. PICK m \in 1 .. n - 1 : Server[m].type = "C" /\ of[m] = i
    BY <1>5 DEF IsAnswered
  <2> QED BY <1>2, <2>1 DEF EndedBelow
<1>7. c >= lo
  <2>1. CASE lo = 1
    BY <1>3, <2>1
  <2>2. CASE lo > 1
    <3>1. PICK m \in 1 .. pos : Server[m].type = "C" /\ of[m] = lo - 1 /\ Client[of[m]].type = "E"
      BY <2>2 DEF EndedBelow
    <3>2. m \in 1 .. Len(Server) /\ n \in m + 1 .. Len(Server)
      BY <1>1, <1>2
    <3>3. of[n] > of[m]
      BY <3>1, <3>2 DEF Conversation, EndsAre
    <3> QED BY <1>3, <3>1, <3>3
  <2> QED BY <2>1, <2>2
<1>8. \A i \in lo .. c - 1 : i \in 1 .. c - 1 /\ Client[i].type \notin {"Q", "E"}
  <2> SUFFICES ASSUME NEW i \in lo .. c - 1
               PROVE  i \in 1 .. c - 1 /\ Client[i].type \notin {"Q", "E"}
    OBVIOUS
  <2>1. i \in 1 .. c - 1 /\ ~(i < lo)
    BY <1>3
  <2> QED BY <1>5, <1>6, <2>1 DEF IsAnswered
<1>9. \A i \in lo .. c - 1 : Client[i].type = "B" => Client[i + 1].type = "E"
  <2> SUFFICES ASSUME NEW i \in lo .. c - 1, Client[i].type = "B"
               PROVE  Client[i + 1].type = "E"
    OBVIOUS
  <2>1. i \in 1 .. Len(Client) /\ i < Len(Client)
    BY <1>1, <1>3
  <2> QED BY <2>1 DEF ClientOrder
<1>10. ASSUME NEW i \in lo .. c - 1, Opens(i)
       PROVE  i = c - 1 /\ Client[c].type = "E"
  <2>1. Client[i].type = "B" /\ Client[i + 1].type = "E"
    BY <1>8, <1>9, <1>10 DEF Opens
  <2>2. CASE i + 1 = c
    BY <1>3, <2>1, <2>2
  <2>3. CASE i + 1 # c
    <3>1. i + 1 \in lo .. c - 1
      BY <1>3, <2>3
    <3> QED BY <1>8, <2>1, <3>1
  <2> QED BY <2>2, <2>3
<1>11. \A i \in 1 .. Len(Client) : Client[i].type = "B" =>
         Client[i].formats \in FormatLists /\ Client[i].formats # AllText
  <2> SUFFICES ASSUME NEW i \in 1 .. Len(Client), Client[i].type = "B"
               PROVE  Client[i].formats \in FormatLists /\ Client[i].formats # AllText
    OBVIOUS
  <2>1. PICK m \in ClientKinds : m = Client[i]
    BY DEF ShapeInv, SendersInv
  <2>2. m.formats \in FormatLists /\ m = Bind(m.formats)
    BY <2>1, ClientKindsAre
  <2>3. m.formats # AllText
    BY <2>2 DEF IsPlain
  <2> QED BY <2>1, <2>2, <2>3
<1>12. CASE Client[c].type = "Q"
  <2>1. Opener(c) = c /\ Opens(c) /\ Chosen(c) = AllText
    BY <1>12 DEF Opener, Opens, Chosen
  <2>2. \A i \in lo .. c - 1 : ~Opens(i)
    BY <1>10, <1>12
  <2> QED BY <1>3, <1>4, <1>7, <1>12, <2>1, <2>2, FormatFacts
<1>13. CASE Client[c].type = "E"
  <2>1. c > 1 /\ Client[c - 1].type = "B"
    BY <1>3, <1>13 DEF ClientOrder
  <2>2. Opener(c) = c - 1 /\ c - 1 \in 1 .. Len(Client) /\ c - 1 \in Nat
    BY <1>3, <1>13, <2>1 DEF Opener
  <2>3. Opens(c - 1) /\ Chosen(c - 1) = Client[c - 1].formats
    BY <2>1 DEF Opens, Chosen
  <2>4. lo <= c - 1
    <3>1. SUFFICES ASSUME lo = c PROVE FALSE
      BY <1>3, <1>7
    <3>2. PICK m \in 1 .. pos : Server[m].type = "C" /\ of[m] = lo - 1 /\ Client[of[m]].type = "E"
      BY <2>1, <3>1 DEF EndedBelow
    <3> QED BY <2>1, <3>1, <3>2
  <2>5. \A i \in lo .. (c - 1) - 1 : ~Opens(i)
    <3>1. \A i \in lo .. (c - 1) - 1 : i \in lo .. c - 1 /\ i # c - 1
      BY <1>3
    <3> QED BY <1>10, <3>1
  <2>6. Client[c - 1].formats \in FormatLists /\ Client[c - 1].formats # AllText
    BY <1>11, <2>1, <2>2
  <2> QED BY <1>3, <1>13, <2>2, <2>3, <2>4, <2>5, <2>6
<1> QED BY <1>4, <1>12, <1>13

\* So the formats in use are those that the message chose, or none are known.
LEMMA FormatsInUse ==
  ASSUME TypeOK, NEW lo \in Nat \ {0}, NEW hi \in Nat, Lists(lo, hi),
         NEW o \in Nat, lo <= o, \A i \in lo .. o - 1 : ~Opens(i), Opens(o),
         Chosen(o) \in FormatLists
  PROVE  CurrentFormats = IF o <= hi THEN Chosen(o) ELSE NoFormats
<1>1. CASE o <= hi
  <2>1. queue # << >> /\ Head(queue) = Chosen(o)
    BY <1>1, HeadIsFirst
  <2> QED BY <1>1, <2>1, CurrentIs
<1>2. CASE o > hi
  <2>1. queue = << >>
    BY <1>2, HeadIsFirst
  <2> QED BY <1>2, <2>1, CurrentIs
<1> QED BY <1>1, <1>2

\* What is a text column for result_column_format is one.
LEMMA TextColumns ==
  ASSUME NEW row, NEW column
  PROVE  /\ ColumnFormat(NoFormats, column) # Text
         /\ ColumnFormat(row.formats, column) = Text <=> IsTextColumn(row, column)
<1>1. NoFormats # AllText /\ Len(NoFormats) = 1 /\ NoFormats[1] = Unknown /\ Unknown # Text
  BY DEF NoFormats, AllText, Unknown, Text
<1>2. ColumnFormat(NoFormats, column) # Text
  BY <1>1 DEF ColumnFormat
<1> QED BY <1>2 DEF ColumnFormat, IsTextColumn

LEMMA RowFormats ==
  ASSUME IsPlain, ShapeInv, PlainInv, phase = "rewrite", flow = "server",
         pos < Len(Server), Server[pos + 1].type = "D"
  PROVE  /\ CurrentFormats \in {NoFormats, Server[pos + 1].formats}
         /\ first = "client" /\ IsPipeline => CurrentFormats = Server[pos + 1].formats
<1>1. /\ Client \in Seq(Messages) /\ Server \in Seq(Messages)
      /\ Len(Client) \in Nat /\ Len(Server) \in Nat /\ pos \in Nat /\ TypeOK
  <2>1. Client \in Seq(Messages) /\ Server \in Seq(Messages)
    BY Opposites DEF ShapeInv, TypeOK, Client, Server
  <2> QED BY <2>1, LenProperties, AtWork DEF ShapeInv
<1>2. PICK n \in 1 .. Len(Server) : n = pos + 1
  BY <1>1
<1>3. PICK of \in [1 .. Len(Server) -> 1 .. seen] : Conversation(of) /\ ServerAtWork(of)
  BY DEF PlainInv
<1>4. CASE first = "client" /\ Clean(pos)
  <2>1. PICK lo \in Nat \ {0}, hi \in 0 .. Len(Client) :
          Lists(lo, hi) /\ (IsPipeline => hi = Len(Client)) /\ EndedBelow(of, lo)
    BY <1>3, <1>4 DEF ServerAtWork
  <2>2. PICK c, o : c = of[n] /\ o = Opener(c)
    OBVIOUS
  <2>3. /\ Client[c].type \in {"Q", "E"}
        /\ o \in Nat /\ lo <= o /\ o \in 1 .. Len(Client)
        /\ Opens(o) /\ Chosen(o) \in FormatLists
        /\ \A i \in lo .. o - 1 : ~Opens(i)
    BY <1>1, <1>2, <1>3, <1>4, <2>1, <2>2, OpenerIsFirst DEF PlainInv
  <2>4. CurrentFormats = IF o <= hi THEN Chosen(o) ELSE NoFormats
    <3>1. lo \in Nat \ {0} /\ hi \in Nat /\ TypeOK /\ Lists(lo, hi)
      BY <1>1, <2>1
    <3> QED BY <2>3, <3>1, FormatsInUse, Zenon
  <2>5. Server[n].formats = Chosen(o)
    BY <1>2, <1>3, <2>2 DEF Conversation, RowsAre
  <2>6. IsPipeline => o <= hi
    BY <2>1, <2>3
  <2> QED BY <1>2, <2>4, <2>5, <2>6
<1>5. CASE ~(first = "client" /\ Clean(pos))
  <2>1. queue = << >>
    BY <1>3, <1>5 DEF ServerAtWork
  <2>2. IsPipeline => Clean(pos)
    <3>1. \A m \in 1 .. pos : m \in 1 .. Len(Server)
      BY <1>1
    <3> QED BY <3>1 DEF PlainInv, PipelineIs, Clean
  <2> QED BY <1>1, <1>5, <2>1, <2>2, CurrentIs
<1> QED BY <1>4, <1>5

\* A step that is not of the conversation changes what is rewritten only.
LEMMA RewriteKeepsPlain ==
  ASSUME ShapeInv, PlainInv, UNCHANGED talk,
         ClientAtWork', OnlyTextIsRewritten', TextIsKept',
         \A of : Conversation(of) /\ ServerAtWork(of) => ServerAtWork(of)'
  PROVE  PlainInv'
<1>1. /\ stream' = stream /\ seen' = seen /\ failed' = failed /\ portal' = portal
      /\ Client' = Client /\ Server' = Server
  BY DEF talk, Client, Server
<1>2. PICK of \in [1 .. Len(Server) -> 1 .. seen] : Conversation(of) /\ ServerAtWork(of)
  BY DEF PlainInv
<1>3. Conversation(of)'
  BY <1>1, <1>2, ConversationStays DEF PlainInv
<1>4. of \in [1 .. Len(Server') -> 1 .. seen']
  BY <1>1, <1>2
<1>5. ClientOrder' /\ PortalIs' /\ PipelineIs'
  BY <1>1 DEF PlainInv, ClientOrder, PortalIs, PipelineIs, IsPipeline
<1> QED BY <1>2, <1>3, <1>4, <1>5 DEF PlainInv

LEMMA ServerRejects ==
  ASSUME ShapeInv, PlainInv, phase = "rewrite", flow = "server", Reject,
         ~(first = "client" /\ IsPipeline /\ AllIpsAreText)
  PROVE  PlainInv'
<1>1. /\ UNCHANGED <<phase, talk, flows>> /\ pos' = Len(stream[flow])
      /\ \A d \in Directions : changed'[d] = IF d = flow THEN {} ELSE changed[d]
  BY RejectIs DEF Reject
<1>2. flow' = flow /\ stream' = stream /\ first' = first /\ changed'["server"] = {}
      /\ Server' = Server /\ pos' = Len(Server) /\ Len(Server) \in Nat
  BY <1>1, AtWork, Opposites DEF talk, flow, Server
<1>3. OnlyTextIsRewritten' /\ ClientAtWork'
  BY <1>2 DEF OnlyTextIsRewritten, ClientAtWork
<1>4. TextIsKept'
  BY <1>2 DEF TextIsKept, IsPipeline, AllIpsAreText
<1>5. \A of : ServerAtWork(of)'
  BY <1>2 DEF ServerAtWork
<1> QED BY <1>1, <1>3, <1>4, <1>5, RewriteKeepsPlain

\* The queue after a message of the server that is not the last.
LEMMA AtWorkNext ==
  ASSUME ShapeInv, phase = "rewrite", flow = "server", pos < Len(Server),
         UNCHANGED <<phase, talk, flows>>, pos' = pos + 1, Server[pos + 1].type # "Z", NEW of,
         first = "client" /\ Clean(pos) =>
           \E lo \in Nat \ {0}, hi \in 0 .. Len(Client) :
             Lists(lo, hi)' /\ (IsPipeline => hi = Len(Client)) /\ EndedBelow(of, lo)',
         ~(first = "client" /\ Clean(pos)) => queue' = << >>
  PROVE  ServerAtWork(of)'
<1>1. Server \in Seq(Messages) /\ Len(Server) \in Nat /\ pos \in Nat
  BY AtWork DEF Server
<1>2. stream' = stream /\ first' = first /\ Client' = Client /\ Server' = Server
  BY DEF talk, Client, Server
<1>3. PICK n : n = pos + 1
  OBVIOUS
<1>4. Clean(n)' <=> Clean(pos)
  <2>1. \A m \in 1 .. n : m \in 1 .. pos \/ m = n
    BY <1>1, <1>3
  <2>2. \A m \in 1 .. pos : m \in 1 .. n
    BY <1>1, <1>3
  <2>3. Server[n].type # "Z"
    BY <1>3
  <2> QED BY <1>2, <2>1, <2>2, <2>3 DEF Clean
<1>5. Clean(pos)' <=> Clean(n)'
  BY <1>3 DEF Clean
<1>6. IsPipeline' <=> IsPipeline
  BY <1>2 DEF IsPipeline
<1> QED BY <1>2, <1>4, <1>5, <1>6 DEF ServerAtWork

LEMMA QueueStays ==
  ASSUME ShapeInv, phase = "rewrite", flow = "server", pos < Len(Server),
         UNCHANGED <<phase, talk, flows, queue>>, pos' = pos + 1,
         Server[pos + 1].type \notin {"C", "Z"},
         NEW of, ServerAtWork(of)
  PROVE  ServerAtWork(of)'
<1>1. Server \in Seq(Messages) /\ Len(Server) \in Nat /\ pos \in Nat
  BY AtWork DEF Server
<1>2. stream' = stream /\ Client' = Client /\ Server' = Server
  BY DEF talk, Client, Server
<1>3. ASSUME first = "client", Clean(pos)
      PROVE  \E lo \in Nat \ {0}, hi \in 0 .. Len(Client) :
               Lists(lo, hi)' /\ (IsPipeline => hi = Len(Client)) /\ EndedBelow(of, lo)'
  <2>1. PICK lo \in Nat \ {0}, hi \in 0 .. Len(Client) :
          Lists(lo, hi) /\ (IsPipeline => hi = Len(Client)) /\ EndedBelow(of, lo)
    BY <1>3 DEF ServerAtWork
  <2>2. Lists(lo, hi)'
    BY <1>2, <2>1, ListsStay
  <2>3. EndedBelow(of, lo)'
    <3>1. \A m \in 1 .. pos' : m \in 1 .. pos \/ Server[m].type # "C"
      BY <1>1
    <3>2. \A m \in 1 .. pos : m \in 1 .. pos'
      BY <1>1
    <3> QED BY <1>2, <2>1, <3>1, <3>2 DEF EndedBelow, Client
  <2> QED BY <2>1, <2>2, <2>3
<1>4. ~(first = "client" /\ Clean(pos)) => queue' = << >>
  BY DEF ServerAtWork
<1> QED BY <1>3, <1>4, AtWorkNext

LEMMA RowPlain ==
  ASSUME IsPlain, ShapeInv, PlainInv, RewriteRow
  PROVE  PlainInv'
<1>1. /\ phase = "rewrite" /\ flow = "server" /\ pos < Len(Server)
      /\ Server[pos + 1].type = "D" /\ This = Server[pos + 1]
      /\ current' = CurrentFormats /\ UNCHANGED queue
  BY DEF RewriteRow, AtMessage, This, Server
<1>2. Server \in Seq(Messages) /\ Len(Server) \in Nat /\ pos \in Nat
  BY <1>1, AtWork DEF Server
<1>3. PICK n \in 1 .. Len(Server) : n = pos + 1
  BY <1>1, <1>2
<1>4. /\ CurrentFormats \in {NoFormats, Server[n].formats}
      /\ first = "client" /\ IsPipeline => CurrentFormats = Server[n].formats
  BY <1>1, <1>3, RowFormats
<1>5. CASE \A column \in This.ips : ColumnFormat(CurrentFormats, column) = Text
  <2>1. /\ changed' = [changed EXCEPT ![flow] = @ \cup ({n} \X This.ips)]
        /\ UNCHANGED <<phase, talk, flows, rejected>> /\ pos' = n
    BY <1>3, <1>5 DEF RewriteRow, Advance
  <2>2. /\ flow' = flow /\ stream' = stream /\ first' = first /\ Server' = Server
        /\ changed'["server"] = changed["server"] \cup ({n} \X Server[n].ips)
    BY <1>1, <1>3, <2>1, Opposites DEF talk, flow, Server, ShapeInv
  <2>3. \A column \in Server[n].ips : IsTextColumn(Server[n], column)
    <3> SUFFICES ASSUME NEW column \in Server[n].ips
                 PROVE  IsTextColumn(Server[n], column)
      OBVIOUS
    <3>1. ColumnFormat(CurrentFormats, column) = Text
      BY <1>1, <1>3, <1>5
    <3>2. CurrentFormats # NoFormats
      BY <3>1, TextColumns
    <3>3. ColumnFormat(Server[n].formats, column) = Text
      BY <1>4, <3>1, <3>2
    <3> QED BY <3>3, TextColumns
  <2>4. OnlyTextIsRewritten'
    <3> SUFFICES ASSUME NEW at \in changed'["server"]
                 PROVE  IsTextColumn(Server[at[1]], at[2])
      BY <2>2 DEF OnlyTextIsRewritten, Server
    <3>1. CASE at \in changed["server"]
      BY <3>1 DEF PlainInv, OnlyTextIsRewritten, Server
    <3>2. CASE at \in {n} \X Server[n].ips
      BY <2>3, <3>2
    <3> QED BY <2>2, <3>1, <3>2
  <2>5. ClientAtWork'
    BY <1>1, <2>2 DEF ClientAtWork
  <2>6. TextIsKept'
    BY <2>1, <2>2 DEF PlainInv, TextIsKept, IsPipeline, AllIpsAreText
  <2>7. ASSUME NEW of, Conversation(of), ServerAtWork(of)
        PROVE  ServerAtWork(of)'
    BY <1>1, <1>3, <2>1, <2>7, QueueStays
  <2> QED BY <2>1, <2>4, <2>5, <2>6, <2>7, RewriteKeepsPlain
<1>6. CASE ~\A column \in This.ips : ColumnFormat(CurrentFormats, column) = Text
  <2>1. Reject
    BY <1>6 DEF RewriteRow
  <2>2. ~(first = "client" /\ IsPipeline /\ AllIpsAreText)
    <3> SUFFICES ASSUME first = "client", IsPipeline, AllIpsAreText
                 PROVE  FALSE
      OBVIOUS
    <3>1. n \in DOMAIN stream["server"]
      BY <1>2 DEF Server
    <3>2. \A column \in Server[n].ips : IsTextColumn(Server[n], column)
      BY <3>1 DEF AllIpsAreText, Server
    <3>3. \A column \in Server[n].ips : ColumnFormat(CurrentFormats, column) = Text
      BY <1>4, <3>2, TextColumns
    <3> QED BY <1>1, <1>3, <1>6, <3>3
  <2> QED BY <1>1, <2>1, <2>2, ServerRejects
<1> QED BY <1>5, <1>6

LEMMA ServerAdvances ==
  ASSUME ShapeInv, PlainInv, phase = "rewrite", flow = "server",
         UNCHANGED <<phase, talk, flows, rejected, changed>>,
         \A of : Conversation(of) /\ ServerAtWork(of) => ServerAtWork(of)'
  PROVE  PlainInv'
<1>1. flow' = flow /\ stream' = stream /\ first' = first /\ changed' = changed
      /\ rejected' = rejected /\ phase' = phase
  BY DEF talk, flow
<1>2. OnlyTextIsRewritten' /\ ClientAtWork'
  BY <1>1 DEF PlainInv, OnlyTextIsRewritten, ClientAtWork
<1>3. TextIsKept'
  BY <1>1 DEF PlainInv, TextIsKept, IsPipeline, AllIpsAreText
<1> QED BY <1>2, <1>3, RewriteKeepsPlain

LEMMA ServerPasses ==
  ASSUME IsPlain, ShapeInv, PlainInv, PassMessage, flow = "server"
  PROVE  PlainInv'
<1>1. /\ phase = "rewrite" /\ pos < Len(Server) /\ Server[pos + 1].type \notin {"C", "Z"}
      /\ UNCHANGED <<phase, talk, flows, rejected, changed, queue>> /\ pos' = pos + 1
  BY DEF PassMessage, AtMessage, Advance, Server
<1> QED BY <1>1, QueueStays, ServerAdvances

LEMMA ServerPassesTail ==
  ASSUME IsPlain, ShapeInv, PlainInv, PassTail
  PROVE  PlainInv'
<1>1. /\ phase = "rewrite" /\ pos < Len(stream[flow]) /\ stream[flow][pos + 1].type = "N"
  BY DEF PassTail, AtMessage
<1>2. /\ flow \in Directions /\ stream[flow] \in Seq(Messages) /\ Len(stream[flow]) \in Nat
      /\ pos \in Nat
  BY <1>1, AtWork
<1>3. PICK n \in 1 .. Len(stream[flow]) : n = pos + 1
  BY <1>1, <1>2
<1>4. flow = "server"
  <2>1. SUFFICES ASSUME flow = "client" PROVE FALSE
    BY <1>2 DEF Directions
  <2>2. Client[n] \in ClientKinds /\ Client[n].type = "N"
    BY <1>1, <1>3, <2>1 DEF ShapeInv, SendersInv, Client
  <2> QED BY <2>2, ClientKindsAre
<1>5. CASE Reject
  <2>1. n \in 1 .. Len(Server) /\ Server[n].type = "N"
    BY <1>1, <1>3, <1>4 DEF Server
  <2>2. ~IsPipeline
    BY <2>1 DEF PlainInv, PipelineIs
  <2> QED BY <1>1, <1>4, <1>5, <2>2, ServerRejects
<1>6. CASE pos' = Len(stream[flow]) /\ UNCHANGED <<phase, talk, flows, rejected, changed>>
  <2>1. pos' = Len(Server) /\ Len(Server) \in Nat /\ Server' = Server
    BY <1>2, <1>4, <1>6 DEF talk, Server
  <2>2. \A of : ServerAtWork(of)'
    BY <2>1 DEF ServerAtWork
  <2> QED BY <1>1, <1>4, <1>6, <2>2, ServerAdvances
<1> QED BY <1>5, <1>6 DEF PassTail

LEMMA ServerForgets ==
  ASSUME IsPlain, ShapeInv, PlainInv, FinishQuery
  PROVE  PlainInv'
<1>1. /\ phase = "rewrite" /\ pos < Len(stream[flow]) /\ stream[flow][pos + 1].type = "Z"
      /\ UNCHANGED <<phase, talk, flows, rejected, changed>> /\ pos' = pos + 1 /\ queue' = << >>
  BY DEF FinishQuery, AtMessage, Advance
<1>2. /\ flow \in Directions /\ stream[flow] \in Seq(Messages) /\ Len(stream[flow]) \in Nat
      /\ pos \in Nat
  BY <1>1, AtWork
<1>3. PICK n \in 1 .. Len(stream[flow]) : n = pos + 1
  BY <1>1, <1>2
<1>4. flow = "server"
  <2>1. SUFFICES ASSUME flow = "client" PROVE FALSE
    BY <1>2 DEF Directions
  <2>2. Client[n] \in ClientKinds /\ Client[n].type = "Z"
    BY <1>1, <1>3, <2>1 DEF ShapeInv, SendersInv, Client
  <2> QED BY <2>2, ClientKindsAre
<1>5. ~Clean(pos)'
  <2>1. n \in 1 .. pos' /\ Server'[n].type = "Z"
    BY <1>1, <1>2, <1>3, <1>4 DEF talk, Server
  <2> QED BY <2>1 DEF Clean
<1>6. \A of : ServerAtWork(of)'
  BY <1>1, <1>5 DEF ServerAtWork
<1> QED BY <1>1, <1>4, <1>6, ServerAdvances

\* CommandComplete: the formats of a Bind are used up, those of a Query stay.
LEMMA ServerEnds ==
  ASSUME IsPlain, ShapeInv, PlainInv, FinishResult
  PROVE  PlainInv'
<1>1. /\ phase = "rewrite" /\ pos < Len(stream[flow]) /\ stream[flow][pos + 1].type = "C"
      /\ UNCHANGED <<phase, talk, flows, rejected, changed>> /\ pos' = pos + 1
      /\ queue' = IF CurrentFormats = AllText \/ queue = << >> THEN queue ELSE Tail(queue)
  BY DEF FinishResult, AtMessage, Advance
<1>2. /\ flow \in Directions /\ stream[flow] \in Seq(Messages) /\ Len(stream[flow]) \in Nat
      /\ pos \in Nat /\ TypeOK /\ Client \in Seq(Messages) /\ Len(Client) \in Nat
  BY <1>1, AtWork, Opposites, LenProperties DEF ShapeInv, TypeOK, Client
<1>3. PICK n \in 1 .. Len(stream[flow]) : n = pos + 1
  BY <1>1, <1>2
<1>4. flow = "server"
  <2>1. SUFFICES ASSUME flow = "client" PROVE FALSE
    BY <1>2 DEF Directions
  <2>2. Client[n] \in ClientKinds /\ Client[n].type = "C"
    BY <1>1, <1>3, <2>1 DEF ShapeInv, SendersInv, Client
  <2> QED BY <2>2, ClientKindsAre DEF IsPlain
<1>5. n \in 1 .. Len(Server) /\ Server[n].type = "C" /\ pos < Len(Server) /\ Len(Server) \in Nat
  BY <1>1, <1>2, <1>3, <1>4 DEF Server
<1>6. stream' = stream /\ Client' = Client /\ Server' = Server
  BY <1>1 DEF talk, Client, Server
<1>7. ASSUME NEW of, Conversation(of), ServerAtWork(of), first = "client", Clean(pos)
      PROVE  \E lo \in Nat \ {0}, hi \in 0 .. Len(Client) :
               Lists(lo, hi)' /\ (IsPipeline => hi = Len(Client)) /\ EndedBelow(of, lo)'
  <2>1. PICK lo \in Nat \ {0}, hi \in 0 .. Len(Client) :
          Lists(lo, hi) /\ (IsPipeline => hi = Len(Client)) /\ EndedBelow(of, lo)
    BY <1>1, <1>4, <1>5, <1>7 DEF ServerAtWork
  <2>2. PICK c, o : c = of[n] /\ o = Opener(c)
    OBVIOUS
  <2>3. /\ c \in 1 .. Len(Client) /\ Client[c].type \in {"Q", "E"}
        /\ o \in Nat /\ lo <= o
        /\ Opens(o) /\ Chosen(o) \in FormatLists
        /\ Chosen(o) = AllText <=> Client[c].type = "Q"
        /\ Client[c].type = "E" => o = c - 1
        /\ \A i \in lo .. o - 1 : ~Opens(i)
    BY <1>2, <1>3, <1>5, <1>7, <2>1, <2>2, OpenerIsFirst DEF PlainInv
  <2>4. hi \in Nat /\ lo \in Nat
    BY <1>2
  <2>5. CurrentFormats = IF o <= hi THEN Chosen(o) ELSE NoFormats
    BY <1>2, <2>1, <2>3, <2>4, FormatsInUse, Zenon
  <2>6. \A m \in 1 .. pos' : m \in 1 .. pos \/ m = n
    BY <1>1, <1>2, <1>3
  <2>7. \A m \in 1 .. pos : m \in 1 .. pos'
    BY <1>1, <1>2, <1>3
  <2>8. CASE Client[c].type = "Q"
    <3>1. queue' = queue
      <4>1. CASE o <= hi
        BY <1>1, <2>3, <2>5, <2>8, <4>1
      <4>2. CASE ~(o <= hi)
        <5>1. CurrentFormats = NoFormats
          BY <2>5, <4>2
        <5> QED BY <1>1, <1>2, <5>1, CurrentIs
      <4> QED BY <4>1, <4>2
    <3>2. Lists(lo, hi)'
      BY <1>6, <2>1, <3>1, ListsStay
    <3>3. EndedBelow(of, lo)'
      BY <1>6, <2>1, <2>2, <2>6, <2>7, <2>8 DEF EndedBelow, Client
    <3> QED BY <2>1, <3>2, <3>3
  <2>9. CASE Client[c].type = "E"
    <3>1. CurrentFormats # AllText
      BY <2>3, <2>5, <2>9, FormatFacts
    <3>2. o + 1 = c /\ o + 2 = c + 1
      BY <2>3, <2>9
    <3>3. ~Opens(o + 1)
      BY <2>9, <3>2 DEF Opens
    <3>4. queue' = IF queue = << >> THEN queue ELSE Tail(queue)
      BY <1>1, <3>1
    <3>5. Lists(o + 2, hi)'
      BY <1>2, <1>6, <2>1, <2>3, <2>4, <3>3, <3>4, TailListsRest, Zenon
    <3>6. \A m \in 1 .. pos : of[m] <= c
      BY <1>2, <1>3, <1>5, <1>7, <2>2 DEF Conversation, InOrder
    <3>7. \A m \in 1 .. pos' : of[m] < c + 1
      <4>1. \A m \in 1 .. pos : of[m] \in Nat
        BY <1>2, <1>3, <1>5, <1>7 DEF Conversation, InOrder
      <4> QED BY <2>2, <2>3, <2>6, <3>6, <4>1
    <3>8. n \in 1 .. pos' /\ of[n] = (c + 1) - 1
      BY <1>1, <1>2, <1>3, <2>2, <2>3
    <3>9. EndedBelow(of, c + 1)'
      BY <1>5, <1>6, <2>2, <2>9, <3>7, <3>8 DEF EndedBelow, Client
    <3>10. c + 1 \in Nat \ {0}
      BY <2>3
    <3> QED BY <2>1, <3>2, <3>5, <3>9, <3>10
  <2> QED BY <2>3, <2>8, <2>9
<1>8. ASSUME NEW of, Conversation(of), ServerAtWork(of), ~(first = "client" /\ Clean(pos))
      PROVE  queue' = << >>
  BY <1>1, <1>4, <1>5, <1>8 DEF ServerAtWork
<1>9. ASSUME NEW of, Conversation(of), ServerAtWork(of)
      PROVE  ServerAtWork(of)'
  <2>1. Server[pos + 1].type # "Z"
    BY <1>3, <1>5
  <2>2. ~(first = "client" /\ Clean(pos)) => queue' = << >>
    BY <1>8, <1>9
  <2>3. first = "client" /\ Clean(pos) =>
          \E lo \in Nat \ {0}, hi \in 0 .. Len(Client) :
            Lists(lo, hi)' /\ (IsPipeline => hi = Len(Client)) /\ EndedBelow(of, lo)'
    BY <1>7, <1>9
  <2> QED BY <1>1, <1>4, <1>5, <2>1, <2>2, <2>3, AtWorkNext
<1> QED BY <1>1, <1>4, <1>9, ServerAdvances

-----------------------------------------------------------------------------
\* The steps on the client's messages.
LEMMA ClientAdvances ==
  ASSUME ShapeInv, PlainInv, phase = "rewrite", flow = "client", pos < Len(Client),
         UNCHANGED <<phase, talk, flows, rejected, changed>>, pos' = pos + 1,
         NEW old \in Nat, old = pos, Lists(1, old) => Lists(1, old + 1)'
  PROVE  PlainInv'
<1>1. flow' = flow /\ stream' = stream /\ first' = first /\ changed' = changed
      /\ rejected' = rejected /\ phase' = phase /\ Client' = Client
  BY DEF talk, flow, Client
<1>2. OnlyTextIsRewritten' /\ (\A of : ServerAtWork(of)')
  BY <1>1 DEF PlainInv, OnlyTextIsRewritten, ServerAtWork
<1>3. TextIsKept' /\ (IsPipeline' <=> IsPipeline)
  BY <1>1 DEF PlainInv, TextIsKept, IsPipeline, AllIpsAreText
<1>4. Len(Client) \in Nat /\ pos \in Nat
  BY AtWork DEF Client
<1>5. ASSUME first = "client"
      PROVE  Lists(1, old + 1)' /\ old + 1 \in 0 .. Len(Client)
             /\ (IsPipeline => "client" \notin rejected)
  BY <1>4, <1>5 DEF PlainInv, ClientAtWork
<1>6. ClientAtWork'
  BY <1>1, <1>3, <1>5 DEF ClientAtWork
<1> QED BY <1>2, <1>3, <1>6, RewriteKeepsPlain

\* A Describe: the client's stream is left as it is, and the queue as far as it is.
LEMMA ClientRejects ==
  ASSUME ShapeInv, PlainInv, RewriteDescribe
  PROVE  PlainInv'
<1>1. /\ phase = "rewrite" /\ flow = "client" /\ pos < Len(Client)
      /\ Client[pos + 1].type = "D" /\ Reject /\ UNCHANGED queue
  BY DEF RewriteDescribe, AtMessage, Client
<1>2. /\ UNCHANGED <<phase, talk, flows>> /\ rejected' = rejected \cup {"client"}
      /\ changed'["server"] = changed["server"] /\ pos' = Len(Client)
  BY <1>1, RejectIs, Opposites DEF Reject, Client
<1>3. flow' = flow /\ stream' = stream /\ first' = first /\ phase' = phase /\ Client' = Client
  BY <1>2 DEF talk, flow, Client
<1>4. Client \in Seq(Messages) /\ Len(Client) \in Nat /\ pos \in Nat
  BY <1>1, AtWork DEF Client
<1>5. ~IsPipeline /\ ~IsPipeline'
  <2>1. PICK n \in 1 .. Len(Client) : n = pos + 1
    BY <1>1, <1>4
  <2>2. n \in DOMAIN stream["client"] /\ stream["client"][n].type = "D"
    BY <1>1, <1>4, <2>1 DEF Client
  <2> QED BY <1>3, <2>2 DEF IsPipeline
<1>6. OnlyTextIsRewritten' /\ TextIsKept' /\ (\A of : ServerAtWork(of)')
  BY <1>1, <1>2, <1>3, <1>5 DEF PlainInv, OnlyTextIsRewritten, TextIsKept, ServerAtWork
<1>7. ASSUME first = "client"
      PROVE  \E hi \in 0 .. Len(Client) : Lists(1, hi)'
  BY <1>1, <1>3, <1>7, ListsStay DEF PlainInv, ClientAtWork
<1>8. ClientAtWork'
  BY <1>2, <1>3, <1>5, <1>7 DEF ClientAtWork
<1> QED BY <1>2, <1>6, <1>8, RewriteKeepsPlain

LEMMA ClientPasses ==
  ASSUME ShapeInv, PlainInv, flow = "client", RewriteQuery \/ RewriteBind \/ PassMessage
  PROVE  PlainInv'
<1>1. /\ phase = "rewrite" /\ pos < Len(Client)
      /\ UNCHANGED <<phase, talk, flows, rejected, changed>> /\ pos' = pos + 1
      /\ stream' = stream
  BY DEF RewriteQuery, RewriteBind, PassMessage, AtMessage, Advance, Client, talk
<1>2. Client \in Seq(Messages) /\ Len(Client) \in Nat /\ pos \in Nat /\ TypeOK
  BY <1>1, AtWork DEF Client, ShapeInv
<1>3. PICK old \in Nat : old = pos
  BY <1>2
<1>4. /\ Client[old + 1] = This
      /\ This.type = "B" => This.formats \in FormatLists
  BY <1>1, <1>3, AtWork DEF This, Client
<1>5. ASSUME This.type \in {"Q", "B"}, queue' = Append(queue, Chosen(old + 1))
      PROVE  PlainInv'
  <2>1. Opens(old + 1) /\ Chosen(old + 1) \in FormatLists
    BY <1>4, <1>5, FormatFacts DEF Opens, Chosen
  <2>2. Lists(1, old) => Lists(1, old + 1)'
    BY <1>1, <1>2, <1>5, <2>1, ListsAppend
  <2> QED BY <1>1, <1>3, <2>2, ClientAdvances
<1>6. CASE RewriteQuery
  <2>1. This.type = "Q" /\ queue' = Append(queue, AllText)
    BY <1>6 DEF RewriteQuery, AtMessage, This, Remember
  <2>2. Chosen(old + 1) = AllText
    BY <1>4, <2>1 DEF Chosen
  <2> QED BY <1>5, <2>1, <2>2
<1>7. CASE RewriteBind
  <2>1. This.type = "B" /\ queue' = Append(queue, This.formats)
    BY <1>7 DEF RewriteBind, AtMessage, This, Remember
  <2>2. Chosen(old + 1) = This.formats
    BY <1>4, <2>1 DEF Chosen
  <2> QED BY <1>5, <2>1, <2>2
<1>8. CASE PassMessage
  <2>1. This.type \notin {"Q", "B"} /\ UNCHANGED queue
    BY <1>8 DEF PassMessage, AtMessage, This
  <2>2. ~Opens(old + 1)
    BY <1>4, <2>1 DEF Opens
  <2>3. Lists(1, old) => Lists(1, old + 1)'
    BY <1>1, <1>2, <2>1, <2>2, ListsSkip
  <2> QED BY <1>1, <1>3, <2>3, ClientAdvances
<1> QED BY <1>6, <1>7, <1>8

\* The server sends neither a Query nor a Bind.
LEMMA ServerOpensNothing ==
  ASSUME ShapeInv, RewriteQuery \/ RewriteBind
  PROVE  flow = "client"
<1>1. /\ phase = "rewrite" /\ pos < Len(stream[flow]) /\ stream[flow][pos + 1].type \in {"B", "Q"}
  BY DEF RewriteQuery, RewriteBind, AtMessage
<1>2. flow \in Directions /\ Len(stream[flow]) \in Nat /\ pos \in Nat
  BY <1>1, AtWork
<1>3. PICK n \in 1 .. Len(stream[flow]) : n = pos + 1
  BY <1>1, <1>2
<1>4. flow # "server"
  BY <1>1, <1>3 DEF ShapeInv, SendersInv, Server
<1> QED BY <1>2, <1>4 DEF Directions

-----------------------------------------------------------------------------
\* The steps between the messages.
LEMMA BeginPlain ==
  ASSUME ShapeInv, PlainInv, BeginRewrite
  PROVE  PlainInv'
<1>1. /\ phase = "talk" /\ UNCHANGED <<talk, flows, pos, queue, current, rejected, changed>>
      /\ stream' = stream /\ first' = first /\ flow' = flow
  BY DEF BeginRewrite, talk, flow
<1>2. /\ pos' = 0 /\ queue' = << >> /\ rejected' = {} /\ flow' = first
      /\ Len(Client) \in Nat /\ Client' = Client
  BY <1>1, TalkFacts DEF ShapeInv, Client
<1>3. Lists(1, 0)' /\ 0 \in 0 .. Len(Client)
  <2>1. \A c \in 1 .. 0 : FALSE
    OBVIOUS
  <2>2. Len(queue') = 0
    <3>1. Len(<< >>) = 0
      OBVIOUS
    <3> QED BY <1>2, <3>1, Zenon
  <2>3. PICK at : at = [j \in 1 .. 0 |-> 1]
    OBVIOUS
  <2>4. at \in [1 .. 0 -> 1 .. 0] /\ \A j \in 1 .. 0 : FALSE
    BY <2>3
  <2>5. ListsAt(at, 1, 0)'
    BY <2>1, <2>2, <2>4 DEF ListsAt
  <2>6. at \in [1 .. Len(queue') -> 1 .. 0]
    BY <2>2, <2>4
  <2>7. Lists(1, 0)'
    BY <2>5, <2>6 DEF Lists
  <2> QED BY <1>2, <2>7
<1>4. ClientAtWork' /\ TextIsKept'
  BY <1>2, <1>3 DEF ClientAtWork, TextIsKept
<1>5. OnlyTextIsRewritten'
  BY <1>1 DEF PlainInv, OnlyTextIsRewritten
<1>6. \A of : ServerAtWork(of)'
  BY <1>1, <1>2 DEF ServerAtWork
<1> QED BY <1>1, <1>4, <1>5, <1>6, RewriteKeepsPlain

LEMMA NextFlowPlain ==
  ASSUME ShapeInv, PlainInv, NextFlow
  PROVE  PlainInv'
<1>1. /\ phase = "rewrite" /\ pos = Len(stream[flow]) /\ pos' = 0 /\ flows' = Tail(flows)
      /\ phase' = IF Tail(flows) = << >> THEN "done" ELSE phase
      /\ UNCHANGED <<talk, queue, current, rejected, changed>>
      /\ stream' = stream /\ first' = first /\ Client' = Client /\ Server' = Server
  BY DEF NextFlow, talk, Client, Server
<1>2. /\ first \in Directions
      /\ \/ flow = first /\ Tail(flows) = <<Opposite(first)>>
         \/ flow = Opposite(first) /\ Tail(flows) = << >>
  BY <1>1, AtWork DEF ShapeInv, TypeOK
<1>3. TextIsKept' /\ OnlyTextIsRewritten'
  BY <1>1 DEF PlainInv, TextIsKept, OnlyTextIsRewritten, IsPipeline, AllIpsAreText
<1>4. CASE flow = first /\ Tail(flows) = <<Opposite(first)>>
  <2>1. flow' = Opposite(first)
    <3>1. \A d : Head(<<d>>) = d
      OBVIOUS
    <3> QED BY <1>1, <1>4, <3>1 DEF flow
  <2>2. ClientAtWork'
    BY <1>1, <2>1, Opposites DEF ClientAtWork
  <2>3. CASE first = "server"
    <3>1. \A of : ServerAtWork(of)'
      BY <2>1, <2>3, Opposites DEF ServerAtWork
    <3> QED BY <1>1, <1>3, <2>2, <3>1, RewriteKeepsPlain
  <2>4. CASE first = "client"
    <3>1. PICK hi \in 0 .. Len(Client) :
            /\ Lists(1, hi)
            /\ pos < Len(Client) \/ "client" \notin rejected => hi = pos
      BY <1>1, <1>4, <2>4 DEF PlainInv, ClientAtWork
    <3>2. IsPipeline => hi = Len(Client)
      BY <1>1, <1>4, <2>4, <3>1 DEF PlainInv, ClientAtWork, Client
    <3>3. Lists(1, hi)'
      BY <1>1, <3>1, ListsStay
    <3>4. \A of : EndedBelow(of, 1)'
      BY <1>1 DEF EndedBelow
    <3>5. IsPipeline' <=> IsPipeline
      BY <1>1 DEF IsPipeline
    <3>6. Clean(0)' /\ (Clean(pos)' <=> Clean(0)')
      BY <1>1 DEF Clean
    <3>7. \A of : ServerAtWork(of)'
      <4> SUFFICES ASSUME NEW of
                   PROVE  ServerAtWork(of)'
        OBVIOUS
      <4>1. 1 \in Nat \ {0} /\ hi \in 0 .. Len(Client')
        BY <1>1
      <4> QED BY <1>1, <2>4, <3>2, <3>3, <3>4, <3>5, <3>6, <4>1 DEF ServerAtWork
    <3> QED BY <1>1, <1>3, <2>2, <3>7, RewriteKeepsPlain
  <2> QED BY <1>2, <2>3, <2>4 DEF Directions
<1>5. CASE flow = Opposite(first) /\ Tail(flows) = << >>
  <2>1. phase' = "done"
    BY <1>1, <1>5
  <2>2. ClientAtWork' /\ (\A of : ServerAtWork(of)')
    BY <2>1 DEF ClientAtWork, ServerAtWork
  <2> QED BY <1>1, <1>3, <2>2, RewriteKeepsPlain
<1> QED BY <1>2, <1>4, <1>5

LEMMA NothingPlain ==
  ASSUME ShapeInv, PlainInv, UNCHANGED vars
  PROVE  PlainInv'
<1>1. /\ UNCHANGED <<phase, talk, flows, pos, queue, rejected, changed>>
      /\ stream' = stream /\ first' = first /\ flow' = flow /\ pos' = pos /\ rejected' = rejected
      /\ Client' = Client /\ Server' = Server /\ queue' = queue /\ changed' = changed
  BY DEF vars, talk, flow, Client, Server
<1>2. \A c : Opens(c)' = Opens(c) /\ Chosen(c)' = Chosen(c)
  BY <1>1 DEF Opens, Chosen
<1>3. \A lo, hi : Lists(lo, hi)' <=> Lists(lo, hi)
  BY <1>1, <1>2 DEF Lists, ListsAt
<1>4. IsPipeline' <=> IsPipeline
  BY <1>1 DEF IsPipeline
<1>5. ClientAtWork'
  BY <1>1, <1>3, <1>4 DEF PlainInv, ClientAtWork
<1>6. TextIsKept' /\ OnlyTextIsRewritten'
  BY <1>1 DEF PlainInv, TextIsKept, OnlyTextIsRewritten, IsPipeline, AllIpsAreText
<1>7. ASSUME NEW of, ServerAtWork(of)
      PROVE  ServerAtWork(of)'
  <2>1. \A lo : EndedBelow(of, lo)' <=> EndedBelow(of, lo)
    BY <1>1 DEF EndedBelow
  <2>2. Clean(pos)' <=> Clean(pos)
    BY <1>1 DEF Clean
  <2> QED BY <1>1, <1>3, <1>4, <1>7, <2>1, <2>2 DEF ServerAtWork
<1> QED BY <1>1, <1>5, <1>6, <1>7, RewriteKeepsPlain

LEMMA PlainStep == IsPlain /\ ShapeInv /\ PlainInv /\ [Next]_vars => PlainInv'
<1> SUFFICES ASSUME IsPlain, ShapeInv, PlainInv, [Next]_vars PROVE PlainInv'
  OBVIOUS
<1>1. CASE UNCHANGED vars
  BY <1>1, NothingPlain
<1>2. CASE ClientSends \/ ServerAnswers
  BY <1>2, SendsConversation, AnswersConversation
<1>3. CASE BeginRewrite \/ NextFlow
  BY <1>3, BeginPlain, NextFlowPlain
<1>4. CASE RewriteQuery \/ RewriteBind
  BY <1>4, ServerOpensNothing, ClientPasses
<1>5. CASE RewriteRow \/ RewriteDescribe
  BY <1>5, RowPlain, ClientRejects
<1>6. CASE FinishResult \/ FinishQuery \/ PassTail
  BY <1>6, ServerEnds, ServerForgets, ServerPassesTail
<1>7. CASE PassMessage
  <2>1. flow \in Directions
    BY <1>7, AtWork DEF PassMessage, AtMessage
  <2> QED BY <1>7, <2>1, ServerPasses, ClientPasses DEF Directions
<1> QED BY <1>1, <1>2, <1>3, <1>4, <1>5, <1>6, <1>7 DEF Next

LEMMA PlainInit == Init => PlainInv
<1> SUFFICES ASSUME Init PROVE PlainInv
  OBVIOUS
<1>1. /\ Len(Client) = 0 /\ Len(Server) = 0 /\ seen = 0 /\ phase = "talk"
      /\ changed["server"] = {}
  BY Opposites DEF Init, Client, Server
<1>2. ClientOrder /\ PortalIs /\ PipelineIs
  BY <1>1 DEF ClientOrder, PortalIs, PipelineIs
<1>3. ClientAtWork /\ OnlyTextIsRewritten /\ TextIsKept
  BY <1>1 DEF ClientAtWork, OnlyTextIsRewritten, TextIsKept
<1>4. PICK of : of = [n \in 1 .. 0 |-> 1]
  OBVIOUS
<1>5. of \in [1 .. Len(Server) -> 1 .. seen] /\ \A n \in 1 .. 0 : FALSE
  BY <1>1, <1>4
<1>6. ServerAtWork(of)
  BY <1>1 DEF ServerAtWork
<1>7. InOrder(of) /\ RowsAre(of) /\ EndsAre(of) /\ AnsweredBefore(of) /\ AnsweredNow(of)
  BY <1>1, <1>5 DEF InOrder, RowsAre, EndsAre, AnsweredBefore, AnsweredNow
<1> QED BY <1>2, <1>3, <1>5, <1>6, <1>7 DEF PlainInv, Conversation

(***************************************************************************)
(* In plain sessions no binary column is rewritten: the head of the queue  *)
(* (current_result_formats) is what the query of the row at work chose, or *)
(* nothing is known of it.                                                 *)
(***************************************************************************)
THEOREM OnlyTextColumns ==
  ASSUME IsPlain
  PROVE  Spec => []PostgreSQLInv
<1>1. Init => ShapeInv /\ PlainInv
  BY ShapeInit, PlainInit
<1>2. ShapeInv /\ PlainInv /\ [Next]_vars => (ShapeInv /\ PlainInv)'
  BY ShapeStep, PlainStep
<1>3. ShapeInv /\ PlainInv => PostgreSQLInv
  BY DEF ShapeInv, PlainInv, PostgreSQLInv
<1> QED BY <1>1, <1>2, <1>3, PTL DEF Spec

(***************************************************************************)
(* And the rows of one pipeline that have the address in text columns only *)
(* are rewritten: of each of them the formats are known.                   *)
(***************************************************************************)
THEOREM TextRowsAreKept ==
  ASSUME IsPlain
  PROVE  Spec => []TextRowsAreRewritten
<1>1. Init => ShapeInv /\ PlainInv
  BY ShapeInit, PlainInit
<1>2. ShapeInv /\ PlainInv /\ [Next]_vars => (ShapeInv /\ PlainInv)'
  BY ShapeStep, PlainStep
<1>3. ShapeInv /\ PlainInv => TextRowsAreRewritten
  BY DEF PlainInv, TextIsKept, TextRowsAreRewritten
<1> QED BY <1>1, <1>2, <1>3, PTL DEF Spec
=============================================================================
