-------------------------------- MODULE Redis --------------------------------
(***************************************************************************)
(* src/protocols/redis_resp.py: RESP elements, one after the other.  The   *)
(* recursion over arrays is unrolled: open counts the elements that the    *)
(* arrays read so far still miss, at any depth.                            *)
(***************************************************************************)
EXTENDS StreamHandler

Simple == 120        \* "+"
ErrorLine == 121     \* "-"
Number == 122        \* ":"
Bulk == 123          \* "$"
Array == 124         \* "*"
TypeBytes == {Simple, ErrorLine, Number, Bulk, Array}

\* Numbers below zero: -1 and the others.
Null == 97
Negative == 98

\* Where the line that begins behind the prefix ends; 0 if it does not.
LineEnd ==
  LET ends == {n \in pos + 1 .. Len(payload) : payload[n] = CrLf}
  IN  IF ends = {} THEN 0 ELSE CHOOSE n \in ends : \A m \in ends : n <= m
HasLine == LineEnd > 0
Line == Slice(payload, pos + 1, LineEnd)

\* A length or a count is a line of one number.
HasNumber == HasLine /\ Len(Line) = 1 /\ Line[1] < OldIp
NumberRead == Line[1]
HasLength == HasNumber /\ NumberRead \notin {Null, Negative}

BulkEnd == LineEnd + NumberRead + 1    \* its line end
BulkIsWhole == BulkEnd <= Len(payload) /\ payload[BulkEnd] = CrLf

\* One of the elements that are missing has been read, count others are announced.
Announce(count) == open' = (IF open > 0 THEN open - 1 ELSE 0) + count

AtElement(prefixes) == Working("redis") /\ ~AtEnd /\ payload[pos] \in prefixes

NewLine(line) == <<payload[pos]>> \o line \o <<CrLf>>
NewBulkOfOldLength(data) == <<Bulk, NumberRead, CrLf>> \o data \o <<CrLf>>
NewBulk(data) == <<Bulk, Len(data), CrLf>> \o data \o <<CrLf>>

RedisText ==
  /\ AtElement({Simple, ErrorLine}) /\ HasLine
  /\ Emit(LineEnd + 1, NewLine(ReplaceIp(Line)))
  /\ Announce(0)
  /\ UNCHANGED <<reading, missed, outcome>>

RedisBulk ==
  /\ AtElement({Bulk}) /\ HasLength /\ BulkIsWhole
  /\ Emit(BulkEnd + 1, NewBulk(ReplaceIp(Slice(payload, LineEnd + 1, BulkEnd))))
  /\ Announce(0)
  /\ UNCHANGED <<reading, missed, outcome>>

\* Integers, null strings and null arrays
RedisNoText ==
  /\ \/ AtElement({Number}) /\ HasLine
     \/ AtElement({Bulk, Array}) /\ HasNumber /\ NumberRead = Null
  /\ Copy(LineEnd + 1)
  /\ Announce(0)
  /\ UNCHANGED <<reading, missed, outcome>>

RedisArray ==
  /\ AtElement({Array}) /\ HasLength
  /\ Copy(LineEnd + 1)
  /\ Announce(NumberRead)
  /\ UNCHANGED <<reading, missed, outcome>>

CannotParse ==
  \/ AtEnd /\ open > 0
  \/ ~AtEnd /\ payload[pos] \notin TypeBytes
  \/ AtElement({Simple, ErrorLine, Number}) /\ ~HasLine
  \/ AtElement({Bulk, Array}) /\ (HasNumber => NumberRead = Negative)
  \/ AtElement({Bulk}) /\ HasLength /\ ~BulkIsWhole

RedisFail == Working("redis") /\ CannotParse /\ FailUnlessClean

RedisReturn == Working("redis") /\ AtEnd /\ open = 0 /\ Accept

RedisNext ==
  RedisText \/ RedisBulk \/ RedisNoText \/ RedisArray \/ RedisFail \/ RedisReturn
=============================================================================
