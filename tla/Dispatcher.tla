----------------------------- MODULE Dispatcher -----------------------------
(***************************************************************************)
(* src/core/dispatcher.py with the handlers of TCP_DISPATCHER              *)
(* (src/protocols/__init__.py): the first handler that detects a stream    *)
(* owns it and rewrites it, alone.  SOCKS5 hands what runs through its     *)
(* tunnel to the dispatcher again.  Handlers that share a state between    *)
(* the directions of a connection (WebSocket, HTTP, PostgreSQL) are        *)
(* modules of their own; no stream here is one of theirs, nor DNS.         *)
(***************************************************************************)
EXTENDS MySQL, Redis, Socks5, TlsSni, MongoDB

CONSTANT Streams   \* records [port, payload, promise, expected]

VARIABLES
  stream,
  asked      \* the handler whose detect is called next

vars == <<stream, asked, reading, loop, outcome, tunnel>>

Handlers ==
  <<"tls", "http2", "mongodb", "mysql", "redis", "socks5", "ftp", "smtp", "telnet", "rdp",
    "known_text", "raw">>

\* What text and binary protocols are recognised by on a port of no protocol
Preface == 130       \* of HTTP/2
FtpCommand == 131
SmtpCommand == 132
Iac == 133           \* of Telnet
Tpkt == 134          \* of RDP
Banner == 135        \* of SSH; those of POP3 and IMAP begin as RESP elements do
HttpLine == 136      \* a request or a status line

Init ==
  /\ stream \in Streams
  /\ payload = stream.payload
  /\ asked = 1 /\ owner = "none" /\ outcome = "open"
  /\ pos = 1 /\ out = << >> /\ missed = FALSE /\ open = 0
  /\ prefix = << >> /\ in_tunnel = FALSE /\ merge = "unset"

-----------------------------------------------------------------------------
(***************************************************************************)
(* detect.  A port decides, or the payload.                                *)
(***************************************************************************)
OnPort(handler) == stream.port = handler
Begins(token) == Head(payload) = token

Detects(handler) ==
  CASE handler = "tls" -> LooksLikeTls
    [] handler = "http2" -> Begins(Preface)
    [] handler = "mongodb" -> OnPort("mongodb") \/ LooksLikeMongo
    [] handler = "mysql" -> OnPort("mysql") \/ LooksLikeMySQL
    [] handler = "redis" -> OnPort("redis") \/ Head(payload) \in TypeBytes
    [] handler = "socks5" ->
         /\ ~in_tunnel
         /\ Len(payload) >= 2
         /\ OnPort("socks5") \/ (Begins(Version) /\ Len(payload) >= 3)
    [] handler = "ftp" -> OnPort("ftp") \/ (Begins(FtpCommand) /\ ~OnPort("smtp"))
    [] handler = "smtp" -> OnPort("smtp") \/ Begins(SmtpCommand)
    [] handler = "telnet" -> OnPort("telnet") \/ Iac \in Range(payload)
    [] handler = "rdp" -> OnPort("rdp") \/ Begins(Tpkt)
    [] handler = "known_text" -> Begins(Banner)
    [] handler = "raw" -> TRUE

Unowned == owner = "none" /\ outcome = "open"
IsTunnelledHttp == in_tunnel /\ Begins(HttpLine)

Own ==
  /\ Unowned /\ ~IsTunnelledHttp /\ Detects(Handlers[asked])
  /\ owner' = Handlers[asked]
  /\ asked' = 1
  /\ UNCHANGED <<payload, loop, outcome, tunnel>>

AskNext ==
  /\ Unowned /\ ~IsTunnelledHttp /\ ~Detects(Handlers[asked])
  /\ asked' = asked + 1
  /\ UNCHANGED <<reading, loop, outcome, tunnel>>

-----------------------------------------------------------------------------
(***************************************************************************)
(* rewrite of the handlers that do not parse.                              *)
(***************************************************************************)
ReturnAll(tokens) ==
  /\ out' = tokens /\ pos' = Len(payload) + 1
  /\ outcome' = "ok"
  /\ UNCHANGED <<missed, open>>

\* FTP also writes addresses with commas.
FtpText == Replaced(ReplaceIp(payload), OldComma, NewComma)

ReplaceText ==
  /\ outcome = "open" /\ owner \in {"ftp", "smtp", "telnet"}
  /\ ReturnAll(IF owner = "ftp" THEN FtpText ELSE ReplaceIp(payload))
  /\ UNCHANGED <<reading, tunnel>>

\* Whether four bytes are an address is guessed from what is around them.
ReplaceRaw ==
  /\ Working("raw")
  /\ \E binary \in BOOLEAN :
       ReturnAll(IF binary THEN Replaced(ReplaceIp(payload), OldBinary, <<NewBinary>>)
                 ELSE ReplaceIp(payload))
  /\ UNCHANGED <<reading, tunnel>>

RefuseAddresses ==
  /\ outcome = "open" /\ owner \in {"http2", "rdp", "known_text"}
  /\ FailUnlessClean
  /\ UNCHANGED tunnel

\* rewrite_http1_stream_safe, see HttpConnection
RewriteHttp ==
  /\ Unowned /\ IsTunnelledHttp
  /\ owner' = "http"
  /\ \/ ReturnAll(ReplaceIp(payload))
     \/ /\ outcome' = "refused"
        /\ UNCHANGED loop
  /\ UNCHANGED <<payload, tunnel>>

Dispatch == Own \/ AskNext

Handle ==
  \/ /\ MySQLNext \/ RedisNext \/ TlsNext \/ MongoNext
     /\ UNCHANGED tunnel
  \/ Socks5Next
  \/ ReplaceText \/ ReplaceRaw \/ RefuseAddresses \/ RewriteHttp

Next ==
  \/ Dispatch /\ UNCHANGED stream
  \/ Handle /\ UNCHANGED <<stream, asked>>

\* A handler runs until it returns.
Spec == Init /\ [][Next]_vars /\ WF_vars(Next)

-----------------------------------------------------------------------------
\* What rewrite_tcp_stream gets.
Output == IF outcome = "ok" THEN prefix \o out ELSE stream.payload

\* preserve_boundaries: the result of SOCKS5 says, or the class of the handler.
MergesByClass == owner \in {"mongodb", "raw", "http"}
KeepsBoundaries ==
  IF in_tunnel THEN ~MergesByClass /\ Len(out) = Len(payload)
  ELSE IF merge = "unset" THEN ~MergesByClass
  ELSE merge = "no"

(***************************************************************************)
(* Types, and what rewrite_tcp_stream may rely on: what is returned stands *)
(* for all of the payload, and a SOCKS5 handshake that changes its length  *)
(* does not keep the boundaries of segments.  A handshake in front of a    *)
(* tunnel is an exception: README, known deviations.                       *)
(***************************************************************************)
HandlerInv ==
  /\ owner \in Range(Handlers) \cup {"none", "http"}
  /\ asked \in DOMAIN Handlers
  /\ outcome \in {"open", "ok", "refused"}
  /\ pos \in 1 .. Len(payload) + 1
  /\ missed \in BOOLEAN /\ open \in Nat /\ in_tunnel \in BOOLEAN
  /\ merge \in {"unset", "yes", "no"}
  /\ outcome = "ok" => pos = Len(payload) + 1
  /\ outcome = "ok" /\ owner = "socks5" /\ Len(out) # Len(payload) => ~KeepsBoundaries

(***************************************************************************)
(* What is promised of a stream:                                           *)
(*   rewritten  it is accepted, and becomes what a peer with the new       *)
(*              address would have sent, with every length, at any depth,  *)
(*              true;                                                      *)
(*   kept       it has a part that the documents say is kept as it is, and *)
(*              elsewhere that it is refused: it is refused, or becomes    *)
(*              what such a peer would have sent but for that part;        *)
(*   clean      cut, malformed, or nobody's: if it is accepted, it has no  *)
(*              address left in it as text.                                *)
(* TLS lets addresses pass outside of a ClientHello: README, known         *)
(* deviations.  A packed address counts in the first two promises only.    *)
(***************************************************************************)
LeavesNoText == stream.promise # "kept" /\ owner # "tls"

AcceptedStreamsAreRight ==
  outcome # "open" =>
    /\ stream.promise = "rewritten" => outcome = "ok"
    /\ outcome = "ok" /\ stream.promise # "clean" => Output = stream.expected
    /\ outcome = "ok" /\ LeavesNoText => ~HasIp(Output)

(***************************************************************************)
(* No payload, whole, cut or malformed, keeps a handler busy for ever: the *)
(* loops advance, and each stream comes to a result.                       *)
(***************************************************************************)
EveryStreamIsDecided == <>(outcome # "open")
=============================================================================
