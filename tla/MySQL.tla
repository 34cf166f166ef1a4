-------------------------------- MODULE MySQL --------------------------------
(***************************************************************************)
(* src/protocols/mysql.py: a stream of packets <<length, sequence id>> \o  *)
(* body, where a body is a command followed by its arguments.  Only the    *)
(* text of COM_QUERY is rewritten.                                         *)
(***************************************************************************)
EXTENDS StreamHandler

ComQuery == 3

\* An address outside of the queries refuses the stream, at its end.
PacketEnd == pos + 2 + payload[pos]
PacketIsWhole ==
  /\ pos + 1 <= Len(payload)
  /\ payload[pos] > 0 /\ PacketEnd <= Len(payload) + 1

LooksLikeMySQL ==
  /\ Len(payload) >= 3 /\ payload[1] + 2 <= Len(payload) /\ payload[3] = ComQuery

QueryPacketOfOldLength(sql) == <<payload[pos], payload[pos + 1], ComQuery>> \o sql
QueryPacket(sql) == <<Len(sql) + 1, payload[pos + 1], ComQuery>> \o sql

MySQLQuery ==
  /\ Working("mysql") /\ ~AtEnd /\ PacketIsWhole /\ payload[pos + 2] = ComQuery
  /\ Emit(PacketEnd, QueryPacket(ReplaceIp(Slice(payload, pos + 3, PacketEnd))))
  /\ UNCHANGED <<reading, missed, open, outcome>>

MySQLOther ==
  /\ Working("mysql") /\ ~AtEnd /\ PacketIsWhole /\ payload[pos + 2] # ComQuery
  /\ missed' = (missed \/ HasIp(Slice(payload, pos + 2, PacketEnd)))
  /\ Copy(PacketEnd)
  /\ UNCHANGED <<reading, open, outcome>>

\* An empty or cut packet ends the parsing.
MySQLTail ==
  /\ Working("mysql") /\ ~AtEnd /\ ~PacketIsWhole
  /\ missed' = (missed \/ HasIp(Rest))
  /\ CopyRest
  /\ UNCHANGED <<reading, open, outcome>>

MySQLReturn ==
  /\ Working("mysql") /\ AtEnd
  /\ IF missed THEN Refuse ELSE Accept

MySQLNext == MySQLQuery \/ MySQLOther \/ MySQLTail \/ MySQLReturn
=============================================================================
