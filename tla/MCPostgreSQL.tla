---------------------------- MODULE MCPostgreSQL ----------------------------
(***************************************************************************)
(* Sessions of a client that starts, queries both ways, and ends its       *)
(* pipelines with a Sync, or not within the capture.                       *)
(***************************************************************************)
EXTENDS PostgreSQL

Binds == {Bind(<<Text>>), Bind(<<Binary>>), Bind(<<Text, Binary>>)}
SessionKinds == Binds \cup {Message(type) : type \in {"startup", "ssl", "Q", "P", "D", "E", "S"}}
=============================================================================
