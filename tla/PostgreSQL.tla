----------------------------- MODULE PostgreSQL -----------------------------
(***************************************************************************)
(* PostgreSQLHandler (src/protocols/postgresql.py) on the two directions   *)
(* of one connection.  Rows do not say whether a column is text or binary; *)
(* the query they answer chose it, and it is in the other direction.  The  *)
(* handler keeps the choices in a queue of the connection's shared state   *)
(* (tcp_state), appends to it while it rewrites the client's stream, and   *)
(* takes from it while it rewrites the server's.  Each stream is rewritten *)
(* as a whole, one after the other.                                        *)
(*                                                                         *)
(* Of a message the model keeps the type byte, the formats a Bind chooses, *)
(* and where a row has the old address.  No other message has it.  A row   *)
(* has two columns.  Lengths, names and SQL are left out.                  *)
(***************************************************************************)
EXTENDS Integers, FiniteSets, SequencesExt

CONSTANTS
  ClientKinds,   \* what the client may send, see ClientMessages
  Answers,       \* how the server may end what it answers, see EndOfResult
  MaxMessages,   \* bounds the client's stream
  MaxRows,       \* bounds the rows of a result
  OnceEach,      \* whether the client executes what it binds, once and at once
  FirstFlows     \* which direction may be captured first

Columns == 1 .. 2
Text == 0
Binary == 1
Unknown == 2

\* Result formats: one for each column, or one for all.
AllText == << >>        \* PG_ALL_TEXT_FORMATS
NoFormats == <<Unknown>>  \* None
FormatLists == {AllText} \cup {<<f>> : f \in {Text, Binary}} \cup ({Text, Binary} \X {Text, Binary})

Message(type) == [type |-> type, formats |-> NoFormats, ips |-> {}]
Bind(formats) == [Message("B") EXCEPT !.formats = formats]

\* The formats of a row are history: the row itself does not have them.
Row(formats, ips) == [type |-> "D", formats |-> formats, ips |-> ips]

(***************************************************************************)
(* The type bytes of the protocol: D is Describe and DataRow, C is Close   *)
(* and CommandComplete, E is Execute and ErrorResponse, S is Sync.         *)
(***************************************************************************)
ClientTypes == {"startup", "ssl", "Q", "P", "D", "E", "C", "S"}    \* and B
ServerTypes == {"N", "Z", "1", "D", "C", "s", "I", "E"}
Messages == [type : ClientTypes \cup {"B"} \cup ServerTypes,
             formats : FormatLists \cup {NoFormats}, ips : SUBSET Columns]

ClientMessages == {Bind(formats) : formats \in FormatLists}
                    \cup {Message(type) : type \in ClientTypes}

ASSUME ClientKindsAssumption == ClientKinds \subseteq ClientMessages
ASSUME AnswersAssumption == Answers \subseteq {"C", "s", "I", "E"}
ASSUME BoundsAssumption == MaxMessages \in Nat /\ MaxRows \in Nat
ASSUME OnceEachAssumption == OnceEach \in BOOLEAN
ASSUME FirstFlowsAssumption == FirstFlows \subseteq {"client", "server"}

VARIABLES
  phase,      \* "talk" while the packets are captured, then "rewrite", "done"
  stream,     \* direction -> the messages it sent
  seen,       \* how many of the client's messages the server has answered
  portal,     \* the formats of what was bound last
  failed,     \* the server skips everything up to the next Sync
  first,      \* history: the direction that is captured first
  flows,      \* the directions to be rewritten, the one at work first
  pos,        \* the messages of it that are rewritten
  queue,      \* PG_RESULT_FORMAT_QUEUE of the connection
  current,    \* PG_CURRENT_RESULT_FORMATS, or NoFormats
  rejected,   \* the directions that are left as they are
  changed     \* direction -> the columns rewritten, as <<message, column>>

talk == <<stream, seen, portal, failed, first>>
vars == <<phase, talk, flows, pos, queue, current, rejected, changed>>

Directions == {"client", "server"}
Opposite(d) == CHOOSE e \in Directions : e # d

Init ==
  /\ phase = "talk"
  /\ stream = [d \in Directions |-> << >>]
  /\ seen = 0 /\ portal = NoFormats /\ failed = FALSE
  /\ first \in FirstFlows
  /\ flows = <<first, Opposite(first)>>
  /\ pos = 0
  /\ queue = << >> /\ current = NoFormats
  /\ rejected = {}
  /\ changed = [d \in Directions |-> {}]

-----------------------------------------------------------------------------
(***************************************************************************)
(* The conversation (external): the server answers in order, and after an  *)
(* error skips to the next Sync.                                           *)
(***************************************************************************)
ClientSends ==
  /\ phase = "talk" /\ Len(stream["client"]) < MaxMessages
  /\ \E m \in ClientKinds :
       /\ m.type \in {"startup", "ssl"} => stream["client"] = << >>
       /\ OnceEach => (m.type = "E") = (stream["client"] # << >>
                                        /\ Last(stream["client"]).type = "B")
       /\ stream' = [stream EXCEPT !["client"] = Append(@, m)]
  /\ UNCHANGED <<phase, seen, portal, failed, first, flows, pos, queue, current, rejected, changed>>

Results(formats, ends) ==
  {rows \o <<Message(end)>> :
     rows \in UNION {[1 .. n -> {Row(formats, ips) : ips \in SUBSET Columns}] : n \in 0 .. MaxRows},
     end \in ends}

AnswersTo(m) ==
  CASE m.type = "ssl" -> {<<Message("N")>>}
    [] m.type \in {"startup", "S"} -> {<<Message("Z")>>}
    [] m.type = "Q" ->
         {result \o <<Message("Z")>> : result \in Results(AllText, Answers \cap {"C", "E"})}
    [] m.type = "E" /\ portal # NoFormats -> Results(portal, Answers)
    [] m.type = "E" /\ portal = NoFormats -> {<<Message("E")>>}
    [] m.type = "B" -> {<<Message(type)>> : type \in {"1"} \cup (Answers \cap {"E"})}
    [] OTHER -> {<<Message("1")>>}

ServerAnswers ==
  /\ phase = "talk" /\ seen < Len(stream["client"])
  /\ LET m == stream["client"][seen + 1] IN
       /\ \E answer \in IF failed /\ m.type # "S" THEN {<< >>} ELSE AnswersTo(m) :
            /\ stream' = [stream EXCEPT !["server"] = @ \o answer]
            /\ failed' = IF answer = << >> THEN failed
                         ELSE m.type # "Q" /\ Last(answer).type = "E"
       /\ portal' = IF m.type = "B" /\ ~failed THEN m.formats ELSE portal
  /\ seen' = seen + 1
  /\ UNCHANGED <<phase, first, flows, pos, queue, current, rejected, changed>>

BeginRewrite ==
  /\ phase = "talk" /\ seen = Len(stream["client"])
  /\ phase' = "rewrite"
  /\ UNCHANGED <<talk, flows, pos, queue, current, rejected, changed>>

-----------------------------------------------------------------------------
(***************************************************************************)
(* PostgreSQLHandler.rewrite, one message per step.  The state it leaves   *)
(* stays when the flow is rejected.                                        *)
(***************************************************************************)
flow == Head(flows)

AtMessage(types) ==
  /\ phase = "rewrite" /\ pos < Len(stream[flow])
  /\ stream[flow][pos + 1].type \in types

This == stream[flow][pos + 1]
Advance == pos' = pos + 1 /\ UNCHANGED <<phase, talk, flows>>

\* A RewriteError: the stream is left as it is.
Reject ==
  /\ pos' = Len(stream[flow])
  /\ rejected' = rejected \cup {flow}
  /\ changed' = [changed EXCEPT ![flow] = {}]
  /\ UNCHANGED <<phase, talk, flows>>

\* remember_result_formats
RememberOnce(formats) == IF formats \in Range(queue) THEN queue ELSE Append(queue, formats)
Remember(formats) == Append(queue, formats)

RewriteQuery ==
  /\ AtMessage({"Q"})
  /\ queue' = Remember(AllText)
  /\ Advance /\ UNCHANGED <<current, rejected, changed>>

RewriteBind ==
  /\ AtMessage({"B"})
  /\ queue' = Remember(This.formats)
  /\ Advance /\ UNCHANGED <<current, rejected, changed>>

\* current_result_formats, which stays until the result ends.
LatestFormats ==
  IF current # NoFormats THEN current
  ELSE IF queue # << >> THEN Last(queue) ELSE NoFormats

CurrentFormats ==
  IF current # NoFormats THEN current
  ELSE IF queue # << >> THEN Head(queue) ELSE NoFormats

\* result_column_format
ColumnFormat(formats, column) ==
  IF formats = AllText THEN Text
  ELSE IF Len(formats) = 1 THEN formats[1]
  ELSE formats[column]

RewriteRow ==
  /\ AtMessage({"D"}) /\ flow = "server"
  /\ current' = CurrentFormats
  /\ IF \A column \in This.ips : ColumnFormat(CurrentFormats, column) = Text
     THEN /\ changed' = [changed EXCEPT ![flow] = @ \cup ({pos + 1} \X This.ips)]
          /\ Advance /\ UNCHANGED rejected
     ELSE Reject
  /\ UNCHANGED queue

\* What is read as the number of columns is far too large for the body.
RewriteDescribe ==
  /\ AtMessage({"D"}) /\ flow = "client"
  /\ current' = CurrentFormats
  /\ Reject
  /\ UNCHANGED queue

\* finish_current_result: formats of a Simple Query are kept for its next result.
FinishResult ==
  /\ AtMessage({"C"})
  /\ IF CurrentFormats = AllText THEN UNCHANGED <<queue, current>>
     ELSE /\ current' = NoFormats
          /\ queue' = IF queue = << >> THEN queue ELSE Tail(queue)
  /\ Advance /\ UNCHANGED <<rejected, changed>>

\* finish_current_result with force.
FinishQuery ==
  /\ AtMessage({"Z"})
  /\ current' = NoFormats /\ queue' = << >>
  /\ Advance /\ UNCHANGED <<rejected, changed>>

PassMessage ==
  /\ AtMessage({"startup", "ssl", "P", "E", "S", "1", "s", "I"})
  /\ Advance /\ UNCHANGED <<queue, current, rejected, changed>>

\* The one byte that answers an SSL request is read as the type of a message that
\* never ends: the rest is passed on, or rejected when it has the address.
HasNoIp(messages) == messages = << >> \/ Head(messages).ips = {}
NoneHasIp(messages) == \A n \in DOMAIN messages : messages[n].ips = {}

PassTail ==
  /\ AtMessage({"N"})
  /\ IF NoneHasIp(SubSeq(stream[flow], pos + 2, Len(stream[flow])))
     THEN pos' = Len(stream[flow]) /\ UNCHANGED <<phase, talk, flows, rejected, changed>>
     ELSE Reject
  /\ UNCHANGED <<queue, current>>

\* rewrite_tcp_pass goes on with the other direction.
NextFlow ==
  /\ phase = "rewrite" /\ pos = Len(stream[flow])
  /\ flows' = Tail(flows)
  /\ phase' = IF Tail(flows) = << >> THEN "done" ELSE phase
  /\ pos' = 0
  /\ UNCHANGED <<talk, queue, current, rejected, changed>>

Next ==
  \/ ClientSends \/ ServerAnswers \/ BeginRewrite
  \/ RewriteQuery \/ RewriteBind \/ RewriteRow \/ RewriteDescribe
  \/ FinishResult \/ FinishQuery \/ PassMessage \/ PassTail \/ NextFlow

Spec == Init /\ [][Next]_vars

-----------------------------------------------------------------------------
\* The queue holds what was chosen; formats in use come from it.
TypeOK ==
  /\ phase \in {"talk", "rewrite", "done"}
  /\ \A d \in Directions : stream[d] \in Seq(Messages)
  /\ seen \in 0 .. Len(stream["client"])
  /\ portal \in FormatLists \cup {NoFormats} /\ failed \in BOOLEAN
  /\ first \in Directions /\ flows \in Seq(Directions)
  /\ phase = "done" \/ pos \in 0 .. Len(stream[flow])
  /\ queue \in Seq(FormatLists) /\ current \in FormatLists \cup {NoFormats}
  /\ current # NoFormats => queue # << >> /\ current = Head(queue)
  /\ rejected \subseteq Directions
  /\ \A d \in Directions : changed[d] \subseteq (1 .. Len(stream[d])) \X Columns

\* What the query chose for a column of a row.
IsTextColumn(row, column) ==
  row.formats = AllText \/ row.formats[IF Len(row.formats) = 1 THEN 1 ELSE column] = Text

(***************************************************************************)
(* Only a column that the query asked for as text is rewritten (docstring  *)
(* of rewrite_data_row_body: binary result columns are not destroyed), in  *)
(* whichever order queries, results and errors follow each other.          *)
(***************************************************************************)
OnlyTextIsRewritten ==
  \A at \in changed["server"] : IsTextColumn(stream["server"][at[1]], at[2])

(***************************************************************************)
(* A stream that is written has the old address nowhere (docstring of the  *)
(* module: what has the address and cannot be rewritten safely is rejected *)
(* so that nothing is missed silently).                                    *)
(***************************************************************************)
NothingIsMissedSilently ==
  phase # "talk" /\ "server" \notin Range(flows) /\ "server" \notin rejected =>
    \A n \in DOMAIN stream["server"] : {n} \X stream["server"][n].ips \subseteq changed["server"]

(***************************************************************************)
(* Rows with the address in text columns only are rewritten (docstring of  *)
(* the module: text values of DataRow are supported; the other documents   *)
(* name queries only: README, known deviations) if all the client has sent *)
(* is one pipeline of the extended protocol and its packets are captured   *)
(* first: the formats are known, and no ReadyForQuery clears them.         *)
(***************************************************************************)
IsPipeline == \A n \in DOMAIN stream["client"] : stream["client"][n].type \in {"P", "B", "E"}

AllIpsAreText ==
  \A n \in DOMAIN stream["server"] : \A column \in stream["server"][n].ips :
    IsTextColumn(stream["server"][n], column)

TextRowsAreRewritten ==
  (phase = "done" /\ first = "client" /\ IsPipeline /\ AllIpsAreText)
    => "server" \notin rejected

(***************************************************************************)
(* In every state the formats in use are the head of the queue, and no     *)
(* binary column has been rewritten.                                       *)
(***************************************************************************)
PostgreSQLInv == TypeOK /\ OnlyTextIsRewritten
=============================================================================
