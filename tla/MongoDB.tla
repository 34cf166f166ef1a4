------------------------------- MODULE MongoDB -------------------------------
(***************************************************************************)
(* src/protocols/mongodb.py: messages <<length, opcode>> \o body, where a  *)
(* body is a list of fields, strings and BSON documents, whose lengths are *)
(* nested in each other.  A document is <<length>> \o elements \o <<0>>,   *)
(* an element <<type>> \o name \o <<0>> \o value.  Flags and other fixed   *)
(* fields next to each other are one token.                                *)
(***************************************************************************)
EXTENDS StreamHandler

CONSTANT MaxBsonDepth   \* 50

ASSUME MaxBsonDepthAssumption == MaxBsonDepth \in Nat

\* Element types
String == 2
Document == 3       \* also arrays
BinaryData == 5
Regex == 11
DBPointer == 12
NoValue == 10       \* null, undefined, minimum and maximum key
CodeWithScope == 15
Fixed == 16         \* numbers, dates, identifiers

\* Message types, with the layout of their bodies
OpMsg == 70
Opaque == 71        \* OP_COMPRESSED and OP_KILL_CURSORS
Layout ==
  [opcode \in 72 .. 79 |->
     CASE opcode = 72 -> <<"fixed", "name", "fixed", "document", "option">>   \* OP_QUERY
       [] opcode = 73 -> <<"fixed", "documents">>                             \* OP_REPLY
       [] opcode = 74 -> <<"fixed", "name", "documents">>                     \* OP_INSERT
       [] opcode = 75 -> <<"fixed", "name", "fixed", "document", "document">> \* OP_UPDATE
       [] opcode = 76 -> <<"fixed", "name", "fixed", "document">>             \* OP_DELETE
       [] opcode = 77 -> <<"fixed", "name", "fixed">>                         \* OP_GET_MORE
       [] opcode = 78 -> <<"name", "name", "documents">>                      \* OP_COMMAND
       [] opcode = 79 -> <<"documents">>]                                     \* OP_COMMANDREPLY
Opcodes == {OpMsg, Opaque} \cup DOMAIN Layout

(***************************************************************************)
(* Parsers read data from a place on and return the set of their readings, *)
(* which are the rewritten tokens and the place behind: one reading, or    *)
(* none if the code raises RewriteError.                                   *)
(***************************************************************************)
Read(tokens, next) == [tokens |-> tokens, next |-> next]

\* One parser after the other; the second one starts where the first one ends.
Then(firsts, Second(_)) ==
  UNION {{Read(first.tokens \o second.tokens, second.next) : second \in Second(first.next)} :
           first \in firsts}

\* size tokens as they are, up to the limit
FixedField(data, at, size, limit) ==
  IF at + size > limit THEN {} ELSE {Read(Slice(data, at, at + size), at + size)}

\* replace_cstring
Name(data, at, limit) ==
  LET ends == {n \in at .. limit - 1 : data[n] = 0} IN
  {Read(ReplaceIp(Slice(data, at, end)) \o <<0>>, end + 1) :
     end \in {n \in ends : \A m \in ends : n <= m}}

\* rewrite_bson_string: the length counts the closing zero
StringOf(new) == <<Len(new) + 1>> \o new \o <<0>>

StringValue(data, at, limit) ==
  IF at >= limit THEN {}
  ELSE {Read(StringOf(ReplaceIp(Slice(data, at + 1, end - 1))), end) :
          end \in {n \in at + 2 .. limit : n = at + 1 + data[at] /\ data[n - 1] = 0}}

\* A packed address alone is replaced, anything else with an address is refused.
NewBlobs(blob) ==
  IF blob = <<OldBinary>> THEN {<<NewBinary>>}
  ELSE IF HasIp(blob) \/ HasBinary(blob) THEN {} ELSE {blob}

Binary(data, at, limit) ==
  IF at + 1 >= limit \/ at + 2 + data[at] > limit THEN {}
  ELSE LET end == at + 2 + data[at] IN
       {Read(Slice(data, at, at + 2) \o blob, end) : blob \in NewBlobs(Slice(data, at + 2, end))}

RECURSIVE DocumentValue(_, _, _)
RECURSIVE Elements(_, _, _, _)
RECURSIVE Documents(_, _)

\* rewrite_bson_value
Code(data, at, end, depth) ==
  LET parts == Then(StringValue(data, at + 1, end), LAMBDA n : DocumentValue(data, n, depth)) IN
  {Read(<<Len(code.tokens) + 1>> \o code.tokens, end) : code \in {p \in parts : p.next = end}}

Value(type, data, at, limit, depth) ==
  CASE type = String -> StringValue(data, at, limit)
    [] type = Document -> DocumentValue(data, at, depth + 1)
    [] type = BinaryData -> Binary(data, at, limit)
    [] type = Regex -> Then(Name(data, at, limit), LAMBDA n : Name(data, n, limit))
    [] type = DBPointer ->
         Then(StringValue(data, at, limit), LAMBDA n : FixedField(data, n, 1, limit))
    [] type = CodeWithScope ->
         IF at >= limit THEN {}
         ELSE UNION {Code(data, at, end, depth + 1) :
                       end \in {at + data[at]} \cap (at + 5 .. limit)}
    [] type = Fixed -> FixedField(data, at, 1, limit)
    [] type = NoValue -> {Read(<< >>, at)}
    [] OTHER -> {}

\* The elements from a place on, up to the zero that closes the document.
Elements(data, at, end, depth) ==
  IF at >= end - 1 THEN {Read(<< >>, end)}
  ELSE Then(Then(Then({Read(<<data[at]>>, at + 1)},
                      LAMBDA n : Name(data, n, end)),
                 LAMBDA n : Value(data[at], data, n, end, depth)),
            LAMBDA n : Elements(data, n, end, depth))

\* rewrite_bson_document: its limit is the end of the data, not of the document around
DocumentOfOldLength(length, elements) == <<length>> \o elements \o <<0>>
DocumentOf(length, elements) == <<Len(elements) + 2>> \o elements \o <<0>>

DocumentValue(data, at, depth) ==
  IF depth > MaxBsonDepth \/ at > Len(data) THEN {}
  ELSE UNION {{Read(DocumentOf(data[at], elements.tokens), end) :
                 elements \in Elements(data, at + 1, end, depth)} :
                end \in {n \in at + 2 .. Len(data) + 1 : n = at + data[at] /\ data[n - 1] = 0}}

TopDocument(data, at) == DocumentValue(data, at, 0)

\* rewrite_docs_until_end
Documents(data, at) ==
  IF at > Len(data) THEN {Read(<< >>, at)}
  ELSE Then(TopDocument(data, at), LAMBDA n : Documents(data, n))

-----------------------------------------------------------------------------
(***************************************************************************)
(* The bodies.                                                             *)
(***************************************************************************)
Field(kind, data, at) ==
  CASE kind = "fixed" -> FixedField(data, at, 1, Len(data) + 1)
    [] kind = "name" -> Name(data, at, Len(data) + 1)
    [] kind = "document" -> TopDocument(data, at)
    [] kind = "documents" -> Documents(data, at)
    [] kind = "option" -> IF at > Len(data) THEN {Read(<< >>, at)} ELSE TopDocument(data, at)

RECURSIVE Fields(_, _, _)
Fields(kinds, data, at) ==
  IF kinds # << >>
  THEN Then(Field(Head(kinds), data, at), LAMBDA n : Fields(Tail(kinds), data, n))
  ELSE IF at = Len(data) + 1 THEN {Read(<< >>, at)} ELSE {}

\* OP_MSG: <<flags>> \o sections, each <<0>> \o document or
\* <<1, size>> \o identifier \o documents; other kinds end the parsing.
SectionOfOldSize(size, body) == <<1, size>> \o body
SectionOf(size, body) == <<1, Len(body) + 1>> \o body

Sequence(data, at) ==
  IF at > Len(data) \/ data[at] < 2 \/ at + data[at] > Len(data) + 1 THEN {}
  ELSE LET end == at + data[at]
           section == SubSeq(data, 1, end - 1)
       IN  {Read(SectionOf(data[at], body.tokens), end) :
              body \in Then(Name(section, at + 1, end), LAMBDA n : Documents(section, n))}

\* A checksum, a compressed body, an unknown section: nothing can be changed.
Untouched(data, at) ==
  IF HasIp(Slice(data, at, Len(data) + 1)) THEN {}
  ELSE {Read(Slice(data, at, Len(data) + 1), Len(data) + 1)}

Section(data, at) ==
  CASE data[at] = 0 -> Then({Read(<<0>>, at + 1)}, LAMBDA n : TopDocument(data, n))
    [] data[at] = 1 -> Sequence(data, at + 1)
    [] OTHER -> Untouched(data, at)

RECURSIVE Sections(_, _)
Sections(data, at) ==
  IF at > Len(data) THEN {Read(<< >>, at)}
  ELSE Then(Section(data, at), LAMBDA n : Sections(data, n))

HasChecksum(flags) == flags = 1

NewBody(opcode, body) ==
  CASE opcode \in DOMAIN Layout -> Fields(Layout[opcode], body, 1)
    [] opcode = OpMsg ->
         IF body = << >> THEN {}
         ELSE IF HasChecksum(body[1]) THEN Untouched(body, 1)
         ELSE Then({Read(<<body[1]>>, 2)}, LAMBDA n : Sections(body, n))
    [] OTHER -> Untouched(body, 1)

-----------------------------------------------------------------------------
MessageEnd == pos + payload[pos]
MessageIsWhole ==
  /\ pos + 1 <= Len(payload)
  /\ payload[pos] >= 2 /\ MessageEnd <= Len(payload) + 1

Opcode == payload[pos + 1]
\* The result is checked for an address that remains.
NewBodies ==
  {body \in NewBody(Opcode, Slice(payload, pos + 2, MessageEnd)) : ~HasIp(body.tokens)}

LooksLikeMongo ==
  /\ Len(payload) >= 2 /\ payload[1] \in 2 .. Len(payload) /\ payload[2] \in Opcodes

MongoMessage ==
  /\ Working("mongodb") /\ ~AtEnd /\ MessageIsWhole
  /\ \E body \in NewBodies :
       Emit(MessageEnd, <<Len(body.tokens) + 2, Opcode>> \o body.tokens)
  /\ UNCHANGED <<reading, missed, open, outcome>>

MongoTailForever ==
  /\ Working("mongodb") /\ ~AtEnd /\ ~MessageIsWhole /\ ~HasIp(Rest)
  /\ UNCHANGED <<reading, loop, outcome>>

MongoTail ==
  /\ Working("mongodb") /\ ~AtEnd /\ ~MessageIsWhole /\ ~HasIp(Rest)
  /\ CopyRest
  /\ UNCHANGED <<reading, missed, open, outcome>>

MongoFail ==
  /\ Working("mongodb") /\ ~AtEnd
  /\ \/ MessageIsWhole /\ NewBodies = {}
     \/ ~MessageIsWhole /\ HasIp(Rest)
  /\ FailUnlessClean

MongoReturn == Working("mongodb") /\ AtEnd /\ Accept

MongoNext == MongoMessage \/ MongoTail \/ MongoFail \/ MongoReturn
=============================================================================
