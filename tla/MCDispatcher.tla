---------------------------- MODULE MCDispatcher ----------------------------
(***************************************************************************)
(* Dispatcher with the streams of each protocol: whole messages, in their  *)
(* encodings before and after the address has been replaced, and the same  *)
(* streams cut at every place.                                             *)
(***************************************************************************)
EXTENDS Dispatcher

Texts == {<< >>, <<Text>>, <<OldIp>>, <<Text, OldIp>>, <<OldIp, Text>>}
Names == {<<Text>>, <<OldIp>>}

\* A part of a message with the old and with the new address.
Both(text) == [old |-> text, new |-> ReplaceIp(text)]
Same(tokens) == [old |-> tokens, new |-> tokens]
Made(Enc(_), part) == [old |-> Enc(part.old), new |-> Enc(part.new)]
Joined(parts) ==
  [old |-> FlattenSeq([i \in DOMAIN parts |-> parts[i].old]),
   new |-> FlattenSeq([i \in DOMAIN parts |-> parts[i].new])]
Pair(first, second) == Joined(<<first, second>>)

Promised(port, promise, part) ==
  [port |-> port, payload |-> part.old, promise |-> promise, expected |-> part.new]
Stream(port, part) == Promised(port, "rewritten", part)
Kept(port, part) == Promised(port, "kept", part)
Odd(port, tokens) == Promised(port, "clean", Same(tokens))

Cuts(parts) ==
  UNION {{Same(SubSeq(part.old, 1, n)) : n \in 1 .. Len(part.old) - 1} : part \in parts}
CutStreams(port, parts) == {Odd(port, cut.old) : cut \in Cuts(parts)}

UpTo(set, length) == UNION {[1 .. n -> set] : n \in 1 .. length}

-----------------------------------------------------------------------------
(***************************************************************************)
(* MySQL.  Packets that are no query or not whole are kept as they are by  *)
(* the docstring of rewrite, and refused by that of the module if they     *)
(* have the address.  A packet of length 0 ends what can be parsed.        *)
(***************************************************************************)
Ping == 14
Query(text) == Made(LAMBDA t : <<Len(t) + 1, 0, ComQuery>> \o t, Both(text))
Other(text) == Same(<<Len(text) + 1, 0, Ping>> \o text)
Empty == Same(<<0, 0>>)
Queries == {Query(t) : t \in Texts}
MySQLPackets == Queries \cup {Other(<< >>), Other(<<Text>>)}
MySQLQueries == {Pair(q, p) : q \in Queries, p \in MySQLPackets}

OtherPackets == {Other(<<OldIp>>), Other(<<Text, OldIp>>)}
MySQLTails == Cuts(MySQLPackets) \cup {Empty} \cup {Same(Empty.old \o p.old) : p \in MySQLPackets}
MySQLLoose ==
  {Joined(s) : s \in UpTo(MySQLPackets \cup OtherPackets, 2) \ UpTo(MySQLPackets, 2)}
    \cup MySQLTails
    \cup {Pair(p, t) : p \in MySQLPackets \cup OtherPackets, t \in MySQLTails}

MySQLStreams ==
  {Stream("mysql", Joined(s)) : s \in UpTo(MySQLPackets, 3)}
    \cup {Stream("none", part) : part \in MySQLQueries}
    \cup {Kept("mysql", part) : part \in MySQLLoose}
    \cup {Kept("none", Pair(q, t)) : q \in Queries, t \in OtherPackets \cup MySQLTails}
    \cup CutStreams("none", Queries)

-----------------------------------------------------------------------------
\* Redis
LineOf(type, text) == Made(LAMBDA t : <<type>> \o t \o <<CrLf>>, Both(text))
BulkOf(text) == Made(LAMBDA t : <<Bulk, Len(t), CrLf>> \o t \o <<CrLf>>, Both(text))
ArrayOf(elements) == Pair(Same(<<Array, Len(elements), CrLf>>), Joined(elements))

RedisSimple ==
  {LineOf(Simple, <<Text>>), LineOf(ErrorLine, <<Text, OldIp>>), LineOf(Number, <<7>>),
   LineOf(Bulk, <<Null>>), LineOf(Array, <<Null>>)}
    \cup {BulkOf(t) : t \in {<< >>, <<OldIp>>, <<OldIp, CrLf>>}}
RedisArrays == {ArrayOf(s) : s \in {<< >>} \cup UpTo(RedisSimple, 2)}
RedisNested == {ArrayOf(<<ArrayOf(<<a>>), b>>) : a, b \in RedisSimple}
RedisParts ==
  RedisArrays \cup RedisNested \cup {Joined(s) : s \in UpTo(RedisSimple, 3)}
    \cup {Pair(a, b) : a \in RedisArrays, b \in RedisSimple}

RedisStreams ==
  {Stream("none", part) : part \in RedisParts}
    \cup CutStreams("redis", RedisArrays \cup RedisNested)
    \cup {Odd("redis", p) :
            p \in {<<Text>>, <<OldIp>>, <<Bulk, Negative, CrLf, OldIp>>, <<Array, Text, CrLf>>,
                   <<Bulk, 1, CrLf, OldIp, Text, CrLf>>, <<Array, Negative, CrLf>>}}

-----------------------------------------------------------------------------
\* TLS
Block(type, part) == Made(LAMBDA t : <<type, Len(t)>> \o t, part)
Sized(part) == Made(LAMBDA t : <<Len(t)>> \o t, part)

HostNames == {Block(HostName, Both(t)) : t \in {<<Text>>, <<OldIp>>, <<OldIp, Text>>}}
NameLists == {Sized(Joined(s)) : s \in UpTo(HostNames, 2)}
Extensions ==
  {Block(ServerName, list) : list \in NameLists} \cup {Block(51, Same(<<Text>>))}
\* The session id, the cipher suites and the compression methods in front
Hello(extensions) ==
  Block(ClientHello, Pair(Same(<<9, 1, 9, 2, 9, 9, 1, 0>>), Sized(Joined(extensions))))
Hellos == {Hello(s) : s \in UpTo(Extensions, 2)}
ServerHello == Block(2, Same(<<Text, 9>>))
Finished == Block(23, Same(<<Text>>))

SmallHellos == {Hello(<<e>>) : e \in Extensions}
TlsParts ==
  {Block(Handshake, h) : h \in Hellos}
    \cup {Pair(Block(Handshake, Pair(h, g)), Finished) :
            h \in SmallHellos, g \in SmallHellos \cup {ServerHello}}

\* Addresses outside of a name, and lengths that do not fit
OddHellos ==
  {<<1, 11, 9, 1, OldIp, 2, 9, 9, 1, 0, 2, 51, 0>>, <<1, 9, 9, 0, 0, 0, 3, 0, 1, 0, OldIp>>,
   <<1, 8, 9, 0, 0, 0, 3, 51, 1, OldIp>>, <<1, 4, 9, 0, 0, OldIp>>, <<2, 1, OldIp>>,
   <<1, 9, 9, 0, 0, 0, 4, 0, 2, 3, OldIp>>, <<1, 3, OldIp>>}

TlsStreams ==
  {Stream("none", part) : part \in TlsParts}
    \cup CutStreams("none", {Block(Handshake, h) : h \in SmallHellos})
    \cup {Odd("none", <<Handshake, Len(h)>> \o h) : h \in OddHellos}
    \cup {Odd("none", <<23, 1, OldIp>>), Odd("none", <<20, 0>>)}

-----------------------------------------------------------------------------
\* MongoDB
Terminated(part) == Pair(part, Same(<<0>>))
DocumentOfParts(elements) == Made(LAMBDA t : <<Len(t) + 2>> \o t \o <<0>>, Joined(elements))
Element(type, name, value) == Joined(<<Same(<<type>>), Terminated(Both(name)), value>>)
StringPart(text) == Sized(Terminated(Both(text)))
BlobPart(blob) ==
  Made(LAMBDA t : <<Len(t), 0>> \o t,
       [old |-> blob, new |-> IF blob = <<OldBinary>> THEN <<NewBinary>> ELSE blob])
CodePart(text, scope) ==
  Made(LAMBDA t : <<Len(t) + 1>> \o t, Pair(StringPart(text), scope))

Leaves ==
  {Element(String, name, StringPart(text)) : name \in Names, text \in Texts}
    \cup {Element(BinaryData, <<Text>>, BlobPart(blob)) :
            blob \in {<< >>, <<OldBinary>>, <<Text, Text>>}}
    \cup {Element(Regex, <<Text>>, Pair(Terminated(Both(a)), Terminated(Both(b)))) :
            a, b \in Names}
    \cup {Element(DBPointer, <<Text>>, Pair(StringPart(<<OldIp>>), Same(<<7>>))),
          Element(Fixed, <<OldIp>>, Same(<<7>>)), Element(NoValue, <<Text>>, Same(<< >>))}
FewLeaves ==
  {Element(String, <<Text>>, StringPart(<<OldIp>>)), Element(Fixed, <<OldIp>>, Same(<<7>>)),
   Element(BinaryData, <<Text>>, BlobPart(<<OldBinary>>))}
FlatDocuments == {DocumentOfParts(s) : s \in {<< >>} \cup UpTo(Leaves, 1)}
FewDocuments == {DocumentOfParts(s) : s \in {<< >>} \cup UpTo(FewLeaves, 1)}
NestedDocuments ==
  {DocumentOfParts(<<Element(Document, name, d), e>>) :
     name \in Names, d \in FlatDocuments, e \in FewLeaves}
    \cup {DocumentOfParts(<<Element(CodeWithScope, <<Text>>, CodePart(text, d)), e>>) :
            text \in Texts, d \in FewDocuments, e \in FewLeaves}
    \cup {DocumentOfParts(<<Element(Document, <<Text>>,
            DocumentOfParts(<<Element(Document, <<OldIp>>, d)>>))>>) : d \in FewDocuments}

Message(opcode, body) == Made(LAMBDA t : <<Len(t) + 2, opcode>> \o t, body)
FieldParts(kind) ==
  CASE kind = "fixed" -> {Same(<<7>>)}
    [] kind = "name" -> {Terminated(Both(<<OldIp>>))}
    [] kind = "document" -> FewDocuments
    [] kind = "option" -> {Same(<< >>)} \cup FewDocuments
    [] kind = "documents" -> {Joined(s) : s \in {<< >>} \cup UpTo(FewDocuments, 2)}

RECURSIVE Bodies(_)
Bodies(kinds) ==
  IF kinds = << >> THEN {Same(<< >>)}
  ELSE {Pair(f, b) : f \in FieldParts(Head(kinds)), b \in Bodies(Tail(kinds))}

SequencePart(name, documents) ==
  Pair(Same(<<1>>),
       Made(LAMBDA t : <<Len(t) + 1>> \o t, Pair(Terminated(Both(name)), documents)))
FewSections ==
  {Pair(Same(<<0>>), d) : d \in FewDocuments}
    \cup {SequencePart(n, d) : n \in Names, d \in FieldParts("documents")}
Deeper(d) == DocumentOfParts(<<Element(Document, <<Text>>, d)>>)
MsgBodies ==
  {Pair(Same(<<4, 0>>), d) : d \in FlatDocuments \cup NestedDocuments}
    \cup {Joined(<<Same(<<4>>), a, b>>) : a, b \in FewSections}
    \cup {Same(<<1, 0>> \o <<2, 0>> \o <<9>>)}

MongoParts ==
  {Message(OpMsg, b) : b \in MsgBodies} \cup {Message(Opaque, Same(<<Text>>))}
    \cup UNION {{Message(opcode, b) : b \in Bodies(Layout[opcode])} : opcode \in DOMAIN Layout}
SmallMongoParts ==
  {Message(OpMsg, Pair(Same(<<4, 0>>), d)) : d \in FewDocuments}
    \cup {Message(OpMsg, Pair(Same(<<4>>), s)) : s \in FewSections}
    \cup {Message(OpMsg, Same(<< >>)), Message(Opaque, Same(<<OldIp>>))}

\* An address under a checksum, in binary data, and lengths that do not fit
OddBodies ==
  {<<1, 0, 6, 2, Text, 0, 2, OldIp, 0, 0, 9>>, <<4, 0, 8, 5, Text, 0, 1, 0, OldIp, 0>>,
   <<4, 9, OldIp>>, <<4, 0, 9, OldIp, 0>>, <<4, 0, 2, 9>>, <<4, 1, 1, OldIp>>, <<4>>,
   <<4, 0, 7, 2, Text, 0, 3, OldIp, 0>>, <<4, 0, 5, 99, OldIp, 0, 0>>,
   <<4, 0, 6, 15, Text, 0, 4, 0>>, <<4, 0, 7, 15, OldIp, 0, 5, 0, 0>>}

MongoStreams ==
  {Stream("none", part) : part \in MongoParts}
    \cup {Stream("mongodb", Pair(a, Message(77, b))) :
            a \in {Message(OpMsg, Pair(Same(<<4>>), s)) : s \in FewSections},
            b \in Bodies(Layout[77])}
    \cup CutStreams("mongodb", SmallMongoParts)
    \cup {Odd("none", Message(OpMsg, Pair(Same(<<4, 0>>), Deeper(d))).old) :
            d \in NestedDocuments}
    \cup {Odd("mongodb", <<Len(b) + 2, OpMsg>> \o b) : b \in OddBodies}

-----------------------------------------------------------------------------
\* Protocols of text, those that are refused, and what nobody recognises
Replacing == {FtpCommand, SmtpCommand, Iac}
Refusing == {Preface, Tpkt, Banner}
TextBodies == UpTo({Text, OldIp, OldComma, OldBinary}, 2) \ {<<OldIp, OldIp>>}
Commas(text) == Replaced(ReplaceIp(text), OldComma, NewComma)

TextStreams ==
  {Stream(port, Pair(Same(<<first>>),
     [old |-> b, new |-> IF port = "ftp" \/ (port # "smtp" /\ first = FtpCommand)
                         THEN Commas(b) ELSE ReplaceIp(b)])) :
     port \in {"none", "ftp", "smtp", "telnet"}, first \in Replacing, b \in TextBodies}
    \cup {Odd("none", <<first>> \o b) : first \in Refusing \cup {Text}, b \in TextBodies}
    \cup {Odd("rdp", b) : b \in TextBodies}
    \cup {Stream("none", Same(<<first, Text>>)) : first \in Refusing}

-----------------------------------------------------------------------------
(***************************************************************************)
(* SOCKS5.  A greeting offers no method 0 in front of a 1, 3 or 4: it      *)
(* would be read as a request (README, known deviations).  What is cut, or *)
(* has another type of address, is skipped by the docstring of rewrite and *)
(* refused by that of the module if it has the address.                    *)
(***************************************************************************)
PortOf == 99
Request(command, type, address) ==
  Joined(<<Same(<<Version, command, 0, type>>), address, Same(<<PortOf>>)>>)
Addressed(command) ==
  {Request(command, IPv4, Same(<<9>>)), Request(command, IPv6, Same(<<9>>)),
   Request(command, IPv4, [old |-> <<OldBinary>>, new |-> <<NewBinary>>])}
    \cup {Request(command, Domain, Sized(Both(t))) : t \in Texts}

Greetings == {Same(<<Version, 1, 0>>), Same(<<Version, 2, 0, 2>>), Same(<<Version, 2, 2, 0>>)}
\* Method 2 is answered with a status, <<1, 0>>.
Selections == {Same(<<Version, 0>>), Same(<<Version, 2, 1, 0>>)}
Handshakes ==
  {Pair(g, r) : g \in Greetings, r \in Addressed(1)}
    \cup {Pair(s, r) : s \in Selections, r \in Addressed(0)}

\* What runs through a tunnel: other protocols, and HTTP.
Tunnelled ==
  MySQLQueries \cup RedisSimple \cup {ArrayOf(<<a>>) : a \in RedisSimple}
    \cup {Block(Handshake, h) : h \in SmallHellos}
    \cup {Message(OpMsg, Pair(Same(<<4, 0>>), d)) : d \in FlatDocuments}
OddTunnelled ==
  {<<HttpLine>> \o b : b \in TextBodies} \cup {<<Banner, OldIp>>, <<Text, OldIp>>, <<20, 0>>}
    \cup {<<1, 1, Text, 1, OldIp>> \o r.old : r \in Addressed(1)}

LongDomain == <<Text, OldIp, Text>>
OddRequest == Request(1, Domain, Sized(Both(LongDomain)))
RequestsWithIPv6 == {Request(1, IPv6, Same(<<a>>)) : a \in {OldIp, OldBinary}}
Socks5Loose ==
  {Pair(g, r) : g \in Greetings, r \in RequestsWithIPv6 \cup Cuts(Addressed(1))}
    \cup {Pair(s, r) : s \in Selections, r \in Cuts(Addressed(0))}
    \cup {Joined(<<g, r, h>>) : g \in Greetings, r \in RequestsWithIPv6, h \in Addressed(1)}

Socks5Streams ==
  {Stream("socks5", part) : part \in Handshakes \cup Greetings}
    \cup {Stream("none", part) : part \in Handshakes}
    \cup {Stream("socks5", Pair(h, t)) : h \in Handshakes, t \in Tunnelled}
    \cup {Kept("socks5", part) : part \in Socks5Loose}
    \cup CutStreams("socks5", Greetings \cup Selections)
    \cup {Odd("socks5", h.old \o t) : h \in Greetings \cup Handshakes, t \in OddTunnelled}
    \cup {Odd("socks5", g.old \o OddRequest.old) : g \in Greetings}

AllStreams ==
  MySQLStreams \cup RedisStreams \cup TlsStreams \cup MongoStreams \cup TextStreams
    \cup Socks5Streams
=============================================================================
