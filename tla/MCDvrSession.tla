---------------------------- MODULE MCDvrSession ----------------------------
(* Instances for TLC: each trades some of the events, the operator's actions *)
(* and the failures for the others.                                         *)
EXTENDS DvrSession

Scope(s, e, a, f) == [starts |-> s, events |-> e, acts |-> a, faults |-> f]

EventsOrSessions ==
  {Scope(1, 3, 0, 0), Scope(1, 2, 1, 0), Scope(1, 1, 2, 0), Scope(1, 2, 0, 1), Scope(1, 1, 1, 1),
   Scope(2, 1, 1, 0), Scope(2, 0, 2, 0)}
=============================================================================
