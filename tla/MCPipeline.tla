----------------------------- MODULE MCPipeline -----------------------------
(***************************************************************************)
(* Two datagrams and three flows of two segments: flows that are degraded, *)
(* merged, kept and failing side by side, in every order.                  *)
(***************************************************************************)
EXTENDS Pipeline
=============================================================================
