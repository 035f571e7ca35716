---------------------------- MODULE MCAutoLogin ----------------------------
(* Instances for TLC: two launches of any kind over a store that is empty  *)
(* or holds what an earlier run left.                                      *)
EXTENDS AutoLogin

Scope(kinds, lost, aged, restarts, domain, generic) ==
  [kinds |-> kinds, lost |-> lost, aged |-> aged, restarts |-> restarts,
   store |-> [domain |-> domain, generic |-> generic]]

TheScopes == {Scope(<<"auto", "auto">>, 0, 0, 0, "none", "stale"),
              Scope(<<"auto", "fix">>, 1, 1, 1, "none", "stale"),
              Scope(<<"link", "auto">>, 0, 1, 0, "stale", "none"),
              Scope(<<"auto", "check">>, 0, 1, 1, "none", "none")}
=============================================================================
