------------------------------- MODULE Socks5 -------------------------------
(***************************************************************************)
(* src/protocols/socks5.py: the messages of the handshake, and what runs   *)
(* through the tunnel behind them, which another handler rewrites.         *)
(*   greeting    <<5, n>> \o methods                                       *)
(*   selection   <<5, method>>                                             *)
(*   request     <<5, command, 0, type>> \o address \o <<port>>            *)
(*   reply       likewise                                                  *)
(* An address is one token (IPv4, IPv6), or a length and that many tokens. *)
(***************************************************************************)
EXTENDS StreamHandler

CONSTANT MaxDomain   \* the longest domain name, 255 bytes

ASSUME MaxDomainAssumption == MaxDomain \in Nat

VARIABLES
  prefix,      \* handshake in front of a tunnel, as it was rewritten
  in_tunnel,
  merge        \* requires_stream_merge: "unset" (None), "yes" or "no"

tunnel == <<prefix, in_tunnel, merge>>

Version == 5
IPv4 == 1
Domain == 3
IPv6 == 4

AtMessage == Working("socks5") /\ ~AtEnd /\ payload[pos] = Version

\* The third byte of a greeting with several methods may be 0 as well.
IsRequest ==
  /\ Len(payload) >= pos + 3
  /\ payload[pos + 2] = 0 /\ payload[pos + 3] \in {IPv4, Domain, IPv6}
AddressType == payload[pos + 3]

\* Where the message behind a request begins, if the length is there.
DomainLength == payload[pos + 4]
HasAddressLength == AddressType = Domain => Len(payload) >= pos + 4
RequestEnd == pos + 6 + IF AddressType = Domain THEN DomainLength ELSE 0
RequestIsWhole == HasAddressLength /\ RequestEnd <= Len(payload) + 1

AtRequest(type) == AtMessage /\ IsRequest /\ RequestIsWhole /\ AddressType = type

RequestHead == Slice(payload, pos, pos + 4)
Port == payload[RequestEnd - 1]

RewriteIPv4 ==
  /\ AtRequest(IPv4)
  /\ Emit(RequestEnd, RequestHead \o
       <<IF payload[pos + 4] = OldBinary THEN NewBinary ELSE payload[pos + 4], Port>>)
  /\ UNCHANGED <<reading, missed, open, outcome, tunnel>>

NewDomain == ReplaceIp(Slice(payload, pos + 5, RequestEnd - 1))

DomainOfOldLength(name) == <<DomainLength>> \o name
DomainOf(name) == <<Len(name)>> \o name

RewriteDomainInPlace ==
  /\ AtRequest(Domain) /\ Len(NewDomain) <= MaxDomain
  /\ Emit(RequestEnd, RequestHead \o DomainOf(NewDomain) \o <<Port>>)
  /\ UNCHANGED <<reading, missed, open, outcome, tunnel>>

\* Once the length of the stream has changed, a change asks for merging.
RewriteDomain ==
  /\ AtRequest(Domain) /\ Len(NewDomain) <= MaxDomain
  /\ Emit(RequestEnd, RequestHead \o DomainOf(NewDomain) \o <<Port>>)
  /\ merge' = IF NewDomain # Slice(payload, pos + 5, RequestEnd - 1) /\ Len(out') # pos' - 1
              THEN "yes" ELSE merge
  /\ UNCHANGED <<reading, missed, open, outcome, prefix, in_tunnel>>

RefuseLongDomain ==
  /\ AtRequest(Domain) /\ Len(NewDomain) > MaxDomain
  /\ Refuse /\ UNCHANGED tunnel

PassIPv6 ==
  /\ AtRequest(IPv6)
  /\ \/ /\ HasIp(Slice(payload, pos, RequestEnd))
        /\ Refuse
     \/ /\ ~HasIp(Slice(payload, pos, RequestEnd))
        /\ Copy(RequestEnd)
        /\ UNCHANGED <<reading, missed, open, outcome>>
  /\ UNCHANGED tunnel

PassCutRequest ==
  /\ AtMessage /\ IsRequest /\ ~RequestIsWhole
  /\ \/ HasIp(Rest) /\ Refuse
     \/ ~HasIp(Rest) /\ CopyRest /\ UNCHANGED <<reading, missed, open, outcome>>
  /\ UNCHANGED tunnel

GreetingEnd == pos + 2 + payload[pos + 1]
IsGreeting ==
  /\ Len(payload) >= pos + 1
  /\ payload[pos + 1] # 0 /\ GreetingEnd <= Len(payload) + 1

SkipGreeting ==
  /\ AtMessage /\ ~IsRequest /\ IsGreeting
  /\ Copy(GreetingEnd)
  /\ UNCHANGED <<reading, missed, open, outcome, tunnel>>

SkipMethodSelection ==
  /\ AtMessage /\ ~IsRequest /\ ~IsGreeting /\ Len(payload) >= pos + 1
  /\ Copy(pos + 2)
  /\ UNCHANGED <<reading, missed, open, outcome, tunnel>>

\* The version byte is all there is.
KeepLastByte ==
  /\ AtMessage /\ Len(payload) = pos
  /\ CopyRest
  /\ UNCHANGED <<reading, missed, open, outcome, tunnel>>

Socks5Return == Working("socks5") /\ AtEnd /\ Accept /\ UNCHANGED tunnel

(***************************************************************************)
(* What is no SOCKS5 message is handed to the dispatcher, SOCKS5 excluded. *)
(* Its result decides on merging, for all of the stream.                   *)
(***************************************************************************)
EnterTunnel ==
  /\ Working("socks5") /\ ~AtEnd /\ payload[pos] # Version
  /\ prefix' = out /\ in_tunnel' = TRUE
  /\ payload' = Rest /\ pos' = 1 /\ out' = << >>
  /\ owner' = "none"
  /\ UNCHANGED <<missed, open, outcome, merge>>

Socks5Next ==
  \/ RewriteIPv4 \/ RewriteDomain \/ RefuseLongDomain \/ PassIPv6 \/ PassCutRequest
  \/ SkipGreeting \/ SkipMethodSelection \/ KeepLastByte \/ Socks5Return \/ EnterTunnel
=============================================================================
