---------------------------- MODULE StreamHandler ----------------------------
(***************************************************************************)
(* The state of a handler's rewrite method: each handler walks over its    *)
(* payload from message to message, copies or rewrites them, and returns a *)
(* RewriteResult (src/core/context.py) or raises RewriteError, which the   *)
(* dispatcher turns into a refusal.  Its changed is left out: rewrite_tcp_  *)
(* stream compares the streams, too.                                       *)
(***************************************************************************)
EXTENDS Payload

VARIABLES
  owner,       \* the handler that has detected the payload, or "none"
  payload,     \* what it was given
  pos,         \* the next token to be read
  out,         \* what it has written
  missed,      \* an address was seen where it cannot be replaced
  open,        \* Redis: the elements that are still to come in arrays
  outcome      \* "open", then result.ok: "ok" or "refused"

reading == <<owner, payload>>
loop == <<pos, out, missed, open>>

AtEnd == pos > Len(payload)
Rest == SubSeq(payload, pos, Len(payload))
Working(handler) == owner = handler /\ outcome = "open"

\* A message is done: tokens stand for it in the output.
Emit(next, tokens) ==
  /\ out' = out \o tokens
  /\ pos' = next

Copy(next) == Emit(next, Slice(payload, pos, next))
CopyRest == Copy(Len(payload) + 1)

Return(result) ==
  /\ outcome' = result
  /\ UNCHANGED <<reading, loop>>

Accept == Return("ok")
Refuse == Return("refused")

\* The payload is returned as it is.
ReturnUnparsed ==
  /\ outcome' = "ok"
  /\ out' = payload /\ pos' = Len(payload) + 1
  /\ UNCHANGED <<reading, missed, open>>

\* "except RewriteError" in Redis and MongoDB: no address, no harm.
FailUnlessClean == IF HasIp(payload) THEN Refuse ELSE ReturnUnparsed
=============================================================================
