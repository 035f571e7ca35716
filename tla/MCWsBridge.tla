----------------------------- MODULE MCWsBridge -----------------------------
(* WsBridge with two sockets, a short ladder and short sessions.           *)
EXTENDS WsBridge

CONSTANTS s1, s2

TwoSockets == {s1, s2}
=============================================================================
