-------------------------- MODULE MCHttpConnection --------------------------
(***************************************************************************)
(* Conversations of a few requests, which may be sent before the one in    *)
(* front is answered, with their answers, and then, if the last of them    *)
(* switched to a websocket, a few frames of each side.                     *)
(***************************************************************************)
EXTENDS HttpConnection

CONSTANTS
  MaxExchanges,  \* bounds the requests, the upgrade being one of them
  Exchanges,     \* what one request and its answer may be
  Handshakes,    \* an upgrade: what is offered, what is agreed to
  PlainFrames,   \* the frames that are sent if no compression is agreed to
  MaxCut         \* bounds the cells at the end of a stream that were not captured

Both(client, server) == [client |-> client, server |-> server]

\* An exchange is a function of its number, which the cells carry.
Get(of, answer) == Both(<<Request(of, "GET", "none", 0, "no", TRUE)>>, answer)
Post(of, answer) ==
  Both(<<Request(of, "POST", "length", 2, "no", FALSE), Piece(of, TRUE), Piece(of, TRUE)>>, answer)
Upload(of, answer) ==
  Both(<<Request(of, "POST", "chunked", 0, "no", FALSE), Chunk(of, FALSE), Chunk(of, TRUE),
         LastChunk(of, FALSE)>>, answer)
HeadOf(of) ==
  Both(<<Request(of, "HEAD", "none", 0, "no", FALSE)>>,
       <<Response(of, "200", "length", 1, "no", FALSE)>>)

Sized(of) == <<Response(of, "200", "length", 1, "no", TRUE), Piece(of, TRUE)>>
Empty(of) == <<Response(of, "204", "length", 0, "no", FALSE)>>
\* An interim answer is a message of its own.
Continue(of) == <<Response(of + 100, "100", "none", 0, "no", FALSE)>>
Chunked(of) ==
  <<Response(of, "200", "chunked", 0, "no", FALSE), Chunk(of, TRUE), Chunk(of, FALSE),
    LastChunk(of, TRUE)>>
Opaque(of) ==
  <<[Response(of, "200", "length", 1, "no", FALSE) EXCEPT !.coding = "opaque"], Piece(of, FALSE)>>
UntilClose(of) == <<Response(of, "200", "none", 0, "no", FALSE), Piece(of, TRUE), Piece(of, FALSE)>>

Exchange(name, of) ==
  CASE name = "get" -> Get(of, Sized(of))
    [] name = "get chunked" -> Get(of, Chunked(of))
    [] name = "get opaque" -> Get(of, Opaque(of))
    [] name = "get until close" -> Get(of, UntilClose(of))
    [] name = "head" -> HeadOf(of)
    [] name = "post" -> Post(of, Continue(of) \o Sized(of))
    [] name = "upload" -> Upload(of, Empty(of))
    [] name = "refused" ->
         Both(<<Request(of, "GET", "none", 0, "plain", FALSE)>>, Sized(of))

\* Only the last answer can go on until the connection is closed.  Behind one that
\* cannot be decoded nothing is parsed.
EndsTalk(name) == name \in {"get until close", "get opaque"}
Talks ==
  {names \in UNION {[1 .. n -> Exchanges] : n \in 0 .. MaxExchanges} :
     \A n \in 1 .. Len(names) - 1 : ~EndsTalk(names[n])}

Upgrade(handshake) ==
  Both(<<Request(50, "GET", "none", 0, handshake[1], FALSE)>>,
       <<Response(50, "101", "none", 0, handshake[2], TRUE)>>)

TextFrame(masked, ip) == Frame(60, "text", TRUE, masked, FALSE, ip)
Fragment(masked) == Frame(61, "text", FALSE, masked, FALSE, TRUE)
BinaryFrame(masked, ip) == Frame(62, "binary", TRUE, masked, FALSE, ip)
ControlFrame(masked, ip) == Frame(63, "control", TRUE, masked, FALSE, ip)
DeflatedFrame(masked) == Frame(64, "text", TRUE, masked, TRUE, TRUE)

\* Sequences of frames, masked if they are the client's.
Texts(masked) == {<< >>, <<TextFrame(masked, TRUE)>>,
                  <<ControlFrame(masked, FALSE), TextFrame(masked, TRUE)>>,
                  <<TextFrame(masked, TRUE), BinaryFrame(masked, FALSE)>>}
Odd(masked) == {<<TextFrame(masked, TRUE), Fragment(masked)>>,
                <<ControlFrame(masked, TRUE), TextFrame(masked, TRUE)>>,
                <<BinaryFrame(masked, TRUE)>>}
Deflated(masked) == {<< >>, <<DeflatedFrame(masked)>>,
                     <<ControlFrame(masked, FALSE), DeflatedFrame(masked)>>}

TextsAndOdd == [masked \in BOOLEAN |-> Texts(masked) \cup Odd(masked)]

FramesUnder(agreed, masked) ==
  IF agreed = "deflate" THEN Deflated(masked) ELSE PlainFrames[masked]

TalkCells(names, d) == FlattenSeq([n \in DOMAIN names |-> Exchange(names[n], n)[d]])

Whole ==
  {[d \in Directions |-> TalkCells(names, d)] : names \in Talks}
  \cup
  UNION {{[client |-> TalkCells(names, "client") \o Upgrade(handshake)["client"] \o sent,
           server |-> TalkCells(names, "server") \o Upgrade(handshake)["server"] \o answered] :
            names \in {talk \in Talks : /\ Len(talk) < MaxExchanges
                                       /\ \A n \in DOMAIN talk : ~EndsTalk(talk[n])},
            sent \in FramesUnder(handshake[2], TRUE),
            answered \in FramesUnder(handshake[2], FALSE)} :
         handshake \in Handshakes}

\* The end of what the server sent may not have been captured.
Captured ==
  {[talk EXCEPT !["server"] = SubSeq(@, 1, Len(@) - cut)] : talk \in Whole, cut \in 0 .. MaxCut}

FairHandshakes == {<<"plain", "plain">>, <<"deflate", "deflate">>}
DeclinedHandshakes == {<<"deflate", "plain">>}
=============================================================================
