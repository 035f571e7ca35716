-------------------------- MODULE MCLauncherQueue --------------------------
(* Instances for TLC: two clicks and the server's test, with the accidents  *)
(* spread over several scopes.                                              *)
EXTENDS LauncherQueue

Scope(clicks, logons, deaths, restarts, faults, probes) ==
  [clicks |-> clicks, logons |-> logons, deaths |-> deaths, restarts |-> restarts,
   faults |-> faults, probes |-> probes]

TheScopes == {Scope(2, 1, 0, 0, 0, 0), Scope(1, 1, 0, 0, 0, 1), Scope(1, 2, 0, 0, 1, 0),
              Scope(1, 1, 1, 1, 0, 0)}
=============================================================================
