------------------------------- MODULE MCBatch ------------------------------
(***************************************************************************)
(* Two captures of one name but for the suffix, one of that name in a      *)
(* directory below, and an output directory below the input directory.     *)
(* Two invocations, so that the second one meets the outputs of the first, *)
(* and two seconds, so that outputs do and do not collide.                 *)
(***************************************************************************)
EXTENDS Batch

Captures ==
  {Path(<< >>, <<"x">>, "pcap"), Path(<< >>, <<"x">>, "pcapng"), Path(<<"a">>, <<"x">>, "pcap")}
Below == {<<"iprewrite_output">>}
=============================================================================
