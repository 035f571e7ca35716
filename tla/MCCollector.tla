----------------------------- MODULE MCCollector -----------------------------
(* Instances for TLC: the runner's jobs, the operator's clicks, the second    *)
(* tab and the failures, some of each at a time.                             *)
EXTENDS Collector

Scope(j, b, t, c, o, r, q, e) ==
  [jobs |-> j, batch |-> b, taps |-> t, clears |-> c, theirs |-> o, reloads |-> r, quota |-> q, errors |-> e]

SomeOfEach ==
  {Scope(2, 2, 0, 0, 0, 0, FALSE, {}), Scope(1, 3, 0, 0, 0, 0, FALSE, {"refused", "down"}),
   Scope(1, 2, 1, 0, 0, 0, FALSE, {}), Scope(1, 2, 0, 1, 0, 1, TRUE, {}),
   Scope(0, 0, 3, 0, 0, 0, FALSE, {}), Scope(0, 0, 2, 0, 0, 1, FALSE, {}),
   Scope(0, 0, 1, 0, 2, 0, TRUE, {})}

\* The Collector's own button, one on the search page, the instrumented save.
TheHost == [refresh |-> "collector", submit |-> "search", save |-> "search"]
TheTaps == <<"tap1", "tap2", "tap3">>
TheButtons == <<"save", "refresh", "submit">>
==============================================================================
