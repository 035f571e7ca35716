-------------------------- MODULE MCStreamPipeline --------------------------
(* Instances for TLC: two viewers and no fault, so that every takeover is   *)
(* seen, and one viewer with as many faults as it has attempts.             *)
EXTENDS StreamPipeline

TakeoversOrFaults == {<<2, 0>>, <<1, 2>>}
=============================================================================
