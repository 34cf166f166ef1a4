------------------------------- MODULE TlsSni -------------------------------
(***************************************************************************)
(* src/protocols/tls_sni.py: records, handshake messages, extensions and   *)
(* server names are lists of <<type, length>> \o data, nested in each      *)
(* other; the version of a record is part of its type.  A ClientHello is   *)
(*   <<head>> \o session id \o cipher suites \o compression \o extensions, *)
(* each but the head with its length in front.                             *)
(***************************************************************************)
EXTENDS StreamHandler

ContentTypes == 20 .. 23
Handshake == 22
ClientHello == 1
ServerName == 0      \* of extensions
HostName == 0        \* of names

(***************************************************************************)
(* What is parsed or rewritten comes as the set of its results: one, or    *)
(* none if the code raises RewriteError.                                   *)
(***************************************************************************)

\* The entries of a block, if they fill it.
RECURSIVE Entries(_)
Entries(block) ==
  IF block = << >> THEN {<< >>}
  ELSE IF Len(block) < 2 \/ 2 + block[2] > Len(block) THEN {}
  ELSE {<<[type |-> block[1], data |-> SubSeq(block, 3, 2 + block[2])]>> \o others :
          others \in Entries(SubSeq(block, 3 + block[2], Len(block)))}

EntryOfOldLength(entry, data) == <<entry.type, Len(entry.data)>> \o data
Entry(entry, data) == <<entry.type, Len(data)>> \o data

\* Rewrites the entries of one type that hold an address.
Rewrite(block, type, NewData(_)) ==
  LET New(entry) ==
        IF entry.type = type /\ HasIp(entry.data) THEN NewData(entry.data) ELSE {entry.data}
      Add(blocks, entry) ==
        {before \o Entry(entry, data) : before \in blocks, data \in New(entry)}
  IN  UNION {FoldLeft(Add, {<< >>}, entries) : entries \in Entries(block)}

\* replace_in_server_name_list, replace_in_sni_extension, replace_in_extensions
NewNames(names) == Rewrite(names, HostName, LAMBDA name : {ReplaceIp(name)})

NewNameList(data) ==
  IF data = << >> \/ data[1] # Len(data) - 1 THEN {}
  ELSE {<<Len(names)>> \o names : names \in NewNames(Tail(data))}

NewExtensions(block) == Rewrite(block, ServerName, NewNameList)

\* replace_in_client_hello: an address in front of the extensions is refused.
FieldEnd(body, start) ==
  IF start > Len(body) THEN start + 1 ELSE start + 1 + body[start]

NewClientHello(body) ==
  LET cipher_suites == FieldEnd(body, 2)
      compression == FieldEnd(body, cipher_suites)
      extensions == FieldEnd(body, compression)
  IN  IF \/ extensions > Len(body)
         \/ FieldEnd(body, extensions) # Len(body) + 1
         \/ HasIp(Slice(body, 1, extensions))
      THEN {}
      ELSE {Slice(body, 1, extensions) \o <<Len(new)>> \o new :
              new \in NewExtensions(SubSeq(body, extensions + 1, Len(body)))}

\* replace_in_handshake_records
NewHandshake(body) == Rewrite(body, ClientHello, NewClientHello)

-----------------------------------------------------------------------------
LooksLikeTls ==
  /\ payload # << >>
  /\ \E records \in Entries(payload) :
       \A i \in DOMAIN records :
         records[i].type \in ContentTypes /\ records[i].data # << >>

RecordEnd == pos + 2 + payload[pos + 1]
RecordBody == Slice(payload, pos + 2, RecordEnd)
HasHello == payload[pos] = Handshake /\ HasIp(RecordBody)

\* Records that are no handshake pass as they are, with an address or without.
TlsRecord ==
  /\ Working("tls") /\ ~AtEnd
  /\ \/ ~HasHello /\ Copy(RecordEnd)
     \/ /\ HasHello
        /\ \E body \in NewHandshake(RecordBody) :
             Emit(RecordEnd, <<Handshake, Len(body)>> \o body)
  /\ UNCHANGED <<reading, missed, open, outcome>>

TlsFail ==
  /\ Working("tls") /\ ~AtEnd /\ HasHello /\ NewHandshake(RecordBody) = {}
  /\ Refuse

TlsReturn == Working("tls") /\ AtEnd /\ Accept

TlsNext == TlsRecord \/ TlsFail \/ TlsReturn
=============================================================================
