------------------------- MODULE MirrorWatcherProofs -------------------------
(***************************************************************************)
(* MirrorWatcher's two invariants, for any files, folders, switches, deaths *)
(* and lost answers.  IInv of module MirrorWatcher is inductive; it has two *)
(* halves, which different steps disturb: what server and watcher believe   *)
(* about the mirror (CopiesOK, OptOutOK, OptInOK), and the account of the   *)
(* uploads (CopiesCounted, AttemptsOK).                                     *)
(***************************************************************************)
EXTENDS MirrorWatcher, Integers, FiniteSetTheorems, TLAPS

Policy == CopiesOK /\ OptOutOK /\ OptInOK
Ledger == CopiesCounted /\ AttemptsOK

\* Where the watcher is while it has no queue.
Early == {"started", "top", "optOut", "flush", "scan", "gate", "sleep", "saveOptIn", "saveOptOut",
          "saveFlush"}

-----------------------------------------------------------------------------
\* What is written for an opt-in, an opt-out and a flush is a configuration.
LEMMA CfgTypes ==
  ASSUME NEW c \in Cfgs
  PROVE  /\ OptIn(c) \in Cfgs /\ OptIn(c).host /\ OptIn(c).mirror
         /\ OptOut(c) \in Cfgs /\ ~OptOut(c).host
         /\ [c EXCEPT !.mirror = TRUE] \in Cfgs /\ [c EXCEPT !.mirror = TRUE].mirror
         /\ [c EXCEPT !.mirror = TRUE].host = c.host
         /\ c.host \in BOOLEAN /\ c.mirror \in BOOLEAN /\ c.marker \in BOOLEAN
  BY DEF OptIn, OptOut, Cfgs

LEMMA IdleType ==
  /\ Idle.op = "none" /\ Idle.step = "none"
  /\ ~Idle.cfg.host
  /\ Idle \in [op : {"none", "enable", "disable"}, step : {"none", "write", "flag"}, cfg : Cfgs]
  BY DEF Idle, Cfgs

LEMMA SpendType ==
  ASSUME TypeOK, NEW what \in {"acts", "changes", "deaths", "losses"}, Spend(what)
  PROVE  left' \in Bounds
<1>1. left \in Bounds /\ left[what] - 1 \in Nat
  BY DEF TypeOK, Bounds, Spend
<1>2. QED
  BY <1>1 DEF Spend, Bounds

\* The roots of a file are finitely many, and no more than there are roots.
LEMMA RootsFinite ==
  ASSUME NEW f \in Files, NEW B
  PROVE  /\ Cardinality(Under[f]) \in Nat /\ Cardinality(Roots) \in Nat
         /\ Cardinality(Under[f] \ B) \in Nat
         /\ Cardinality(Under[f] \ B) <= Cardinality(Under[f])
         /\ Cardinality(Under[f]) <= Cardinality(Roots)
<1>1. IsFiniteSet(Roots) /\ Under[f] \in SUBSET Roots
  BY MirrorAssumption
<1>2. IsFiniteSet(Under[f]) /\ Cardinality(Under[f]) <= Cardinality(Roots)
  BY <1>1, FS_Subset
<1>3. (Under[f] \ B) \in SUBSET Under[f]
  OBVIOUS
<1>4. IsFiniteSet(Under[f] \ B) /\ Cardinality(Under[f] \ B) <= Cardinality(Under[f])
  BY <1>2, <1>3, FS_Subset
<1>5. QED
  BY <1>1, <1>2, <1>4, FS_CardinalityType

-----------------------------------------------------------------------------
\* Steps of the scan and of the uploads leave both copies and the flags alone.
LEMMA PolicyFrame ==
  ASSUME Policy, UNCHANGED <<disk, flags, request, decided, quiet, cfg, lapsed>>,
         \/ pc' = pc /\ current' = current
         \/ /\ pc \notin {"sleep", "off", "top", "saveOptOut"}
            /\ pc' = "sending" => Under[current'] \cap AutoRoots # {} \/ cfg.host
  PROVE  Policy'
<1>1. CopiesOK'
  <2>1. \A c \in {disk', cfg', request'.cfg} : c.host => c.mirror
    BY DEF Policy, CopiesOK
  <2>2. pc' = "sending" => Under[current'] \cap AutoRoots # {} \/ cfg.host
    BY DEF Policy, CopiesOK, AutoPath
  <2>3. /\ request'.op = "none" <=> request'.step = "none"
        /\ request'.op = "none" => request' = Idle
    BY DEF Policy, CopiesOK
  <2>4. QED
    BY <2>1, <2>2, <2>3 DEF CopiesOK, AutoPath, Idle
<1>2. OptOutOK'
  BY DEF Policy, OptOutOK, OutStands, Out
<1>3. OptInOK'
  BY DEF Policy, OptInOK, Enabled
<1>4. QED
  BY <1>1, <1>2, <1>3 DEF Policy

\* Steps of the server and of the flags leave the account alone.
LEMMA LedgerFrame ==
  ASSUME TypeOK, Ledger, UNCHANGED <<queue, current, attempts, terminal, doneVars, accepted, lost>>,
         pc' = pc \/ (pc \in Early /\ pc' \in Early)
  PROVE  Ledger'
<1>1. CopiesCounted'
  BY DEF Ledger, CopiesCounted, One, doneVars, Early
<1>2. AttemptsOK'
  BY DEF Ledger, AttemptsOK, doneVars, Early
<1>3. QED
  BY <1>1, <1>2 DEF Ledger

\* Types of everything but the copies, the flags, the routes and the watcher's
\* place.
LEMMA TypeFrame ==
  ASSUME TypeOK, UNCHANGED <<fullPass, busy, queue, current, ledgerVars, doneVars, fileVars>>,
         disk' \in Cfgs /\ cfg' \in Cfgs, flags' \subseteq {"enable", "disable", "flush"},
         request' \in [op : {"none", "enable", "disable"}, step : {"none", "write", "flag"},
                       cfg : Cfgs],
         \/ pc' = pc
         \/ pc' \in Early \cup {"off", "upload", "saveDone"} /\ pc \notin {"sending", "sent"},
         quiet' \in BOOLEAN, lapsed' \in BOOLEAN,
         decided' \in {"none", "enable", "disable"}, left' \in Bounds
  PROVE  TypeOK'
<1>1. /\ fullPass' = fullPass /\ busy' = busy /\ queue' = queue /\ current' = current
      /\ stable' = stable /\ enqueued' = enqueued /\ attempts' = attempts /\ waiting' = waiting
      /\ terminal' = terminal /\ doneMap' = doneMap /\ doneFile' = doneFile /\ size' = size
      /\ accepted' = accepted /\ lost' = lost
  BY DEF ledgerVars, doneVars, fileVars
<1>2. fullPass' \in BOOLEAN
  BY <1>1 DEF TypeOK
<1>3. QED
  BY <1>1, <1>2 DEF TypeOK, Early

-----------------------------------------------------------------------------
\* The routes.
LEMMA RouteReadsStep ==
  ASSUME IInv, NEW op \in {"enable", "disable"}, RouteReads(op)
  PROVE  IInv'
<1>1. /\ TypeOK /\ Policy /\ Ledger /\ disk \in Cfgs /\ cfg \in Cfgs
      /\ flags \subseteq {"enable", "disable", "flush"} /\ lapsed \in BOOLEAN
      /\ decided \in {"none", "enable", "disable"}
  BY DEF IInv, TypeOK, Policy, Ledger
<1>2. /\ request = Idle /\ request' = [op |-> op, step |-> "write", cfg |-> disk]
      /\ quiet' = (pc = "sleep" /\ cfg = disk /\ flags \cap {"enable", "disable"} = {})
      /\ disk' = disk /\ flags' = flags /\ decided' = decided /\ cfg' = cfg /\ pc' = pc
      /\ lapsed' = lapsed
      /\ UNCHANGED <<scanVars, ledgerVars, doneVars, fileVars>>
  BY DEF RouteReads
<1>3. /\ left' \in Bounds /\ quiet' \in BOOLEAN
      /\ request' \in [op : {"none", "enable", "disable"}, step : {"none", "write", "flag"},
                       cfg : Cfgs]
      /\ request'.op = op /\ request'.step = "write" /\ request'.cfg = disk
  BY <1>1, <1>2, SpendType DEF RouteReads
<1>4. TypeOK'
  <2>1. UNCHANGED <<fullPass, busy, queue, current, ledgerVars, doneVars, fileVars>>
    BY <1>2 DEF scanVars
  <2>2. flags' \subseteq {"enable", "disable", "flush"} /\ disk' \in Cfgs /\ cfg' \in Cfgs
    BY <1>1, <1>2
  <2>3. /\ quiet' \in BOOLEAN /\ lapsed' \in BOOLEAN /\ left' \in Bounds /\ pc' = pc
        /\ decided' \in {"none", "enable", "disable"}
        /\ request' \in [op : {"none", "enable", "disable"}, step : {"none", "write", "flag"},
                        cfg : Cfgs]
    BY <1>1, <1>2, <1>3
  <2>4. QED
    BY <1>1, <2>1, <2>2, <2>3, TypeFrame
<1>5. CopiesOK'
  BY <1>1, <1>2, <1>3 DEF Policy, CopiesOK, scanVars, AutoPath
<1>6. OptOutOK'
  BY <1>1, <1>2, <1>3, IdleType DEF Policy, OptOutOK, OutStands, Out
<1>7. OptInOK'
  BY <1>2, <1>3 DEF OptInOK, Enabled
<1>8. Ledger'
  BY <1>1, <1>2, LedgerFrame DEF scanVars, ledgerVars, fileVars
<1>9. QED
  BY <1>4, <1>5, <1>6, <1>7, <1>8 DEF IInv, Ledger

LEMMA RouteWritesStep ==
  ASSUME IInv, RouteWrites
  PROVE  IInv'
<1>1. /\ TypeOK /\ Policy /\ Ledger /\ disk \in Cfgs /\ cfg \in Cfgs
      /\ flags \subseteq {"enable", "disable", "flush"} /\ lapsed \in BOOLEAN /\ quiet \in BOOLEAN
      /\ request \in [op : {"none", "enable", "disable"}, step : {"none", "write", "flag"},
                      cfg : Cfgs]
      /\ decided \in {"none", "enable", "disable"} /\ left \in Bounds
  BY DEF IInv, TypeOK, Policy, Ledger
<1>2. /\ request.step = "write" /\ request' = [request EXCEPT !.step = "flag"]
      /\ disk' = IF request.op = "enable" THEN OptIn(request.cfg) ELSE OptOut(request.cfg)
      /\ flags' = flags /\ decided' = decided /\ cfg' = cfg /\ pc' = pc /\ quiet' = quiet
      /\ lapsed' = lapsed /\ left' = left
      /\ UNCHANGED <<scanVars, ledgerVars, doneVars, fileVars>>
  BY DEF RouteWrites
<1>3. /\ request' \in [op : {"none", "enable", "disable"}, step : {"none", "write", "flag"},
                       cfg : Cfgs]
      /\ request'.op = request.op /\ request'.step = "flag" /\ request'.cfg = request.cfg
      /\ request.op \in {"enable", "disable"} /\ request.cfg \in Cfgs
  BY <1>1, <1>2 DEF Policy, CopiesOK
<1>4. /\ disk' \in Cfgs
      /\ request.op = "enable" => disk'.host /\ disk'.mirror
      /\ request.op = "disable" => ~disk'.host
  BY <1>2, <1>3, CfgTypes
<1>5. TypeOK'
  <2>1. UNCHANGED <<fullPass, busy, queue, current, ledgerVars, doneVars, fileVars>>
    BY <1>2 DEF scanVars
  <2>2. flags' \subseteq {"enable", "disable", "flush"} /\ disk' \in Cfgs /\ cfg' \in Cfgs
    BY <1>1, <1>2, <1>4
  <2>3. QED
    BY <1>1, <1>2, <1>3, <2>1, <2>2, TypeFrame
<1>6. CopiesOK'
  BY <1>1, <1>2, <1>3, <1>4 DEF Policy, CopiesOK, scanVars, AutoPath
<1>7. OptOutOK'
  BY <1>1, <1>2, <1>3, <1>4 DEF Policy, OptOutOK, OutStands, Out
<1>8. OptInOK'
  BY <1>1, <1>2, <1>3, <1>4 DEF Policy, OptInOK, Enabled
<1>9. Ledger'
  BY <1>1, <1>2, LedgerFrame DEF scanVars, ledgerVars, fileVars
<1>10. QED
  BY <1>5, <1>6, <1>7, <1>8, <1>9 DEF IInv, Ledger

LEMMA RouteAnswersStep ==
  ASSUME IInv, RouteAnswers
  PROVE  IInv'
<1>1. /\ TypeOK /\ Policy /\ Ledger /\ disk \in Cfgs /\ cfg \in Cfgs
      /\ flags \subseteq {"enable", "disable", "flush"} /\ lapsed \in BOOLEAN /\ quiet \in BOOLEAN
      /\ request \in [op : {"none", "enable", "disable"}, step : {"none", "write", "flag"},
                      cfg : Cfgs]
      /\ decided \in {"none", "enable", "disable"} /\ left \in Bounds
  BY DEF IInv, TypeOK, Policy, Ledger
<1>2. /\ request.step = "flag" /\ request' = Idle /\ decided' = request.op
      /\ flags' = flags \cup FlagsOf(request)
      /\ disk' = disk /\ cfg' = cfg /\ pc' = pc /\ quiet' = quiet
      /\ lapsed' = lapsed /\ left' = left
      /\ UNCHANGED <<scanVars, ledgerVars, doneVars, fileVars>>
  BY DEF RouteAnswers
<1>3. /\ request.op \in {"enable", "disable"} /\ request.cfg \in Cfgs
      /\ request.cfg.host => request.cfg.mirror
  BY <1>1, <1>2 DEF Policy, CopiesOK
<1>4. /\ FlagsOf(request) \subseteq {"enable", "disable", "flush"}
      /\ request.op = "enable" =>
           /\ "disable" \notin FlagsOf(request)
           /\ "enable" \in FlagsOf(request) \/ Enabled(request.cfg)
      /\ request.op = "disable" => "disable" \in FlagsOf(request) \/ ~request.cfg.host
  BY <1>3 DEF FlagsOf, Enabled
<1>5. TypeOK'
  <2>1. flags' \subseteq {"enable", "disable", "flush"} /\ decided' \in {"none", "enable", "disable"}
    BY <1>1, <1>2, <1>4
  <2>2. UNCHANGED <<fullPass, busy, queue, current, ledgerVars, doneVars, fileVars>>
    BY <1>2 DEF scanVars
  <2>3. QED
    BY <1>1, <1>2, <2>1, <2>2, IdleType, TypeFrame
<1>6. CopiesOK'
  BY <1>1, <1>2, IdleType DEF Policy, CopiesOK, scanVars, AutoPath
<1>7. OptOutOK'
  BY <1>1, <1>2, <1>3, <1>4, IdleType DEF Policy, OptOutOK, OutStands, Out
<1>8. OptInOK'
  BY <1>1, <1>2, <1>3, <1>4, IdleType DEF Policy, OptInOK, Enabled
<1>9. Ledger'
  BY <1>1, <1>2, LedgerFrame DEF scanVars, ledgerVars, fileVars
<1>10. QED
  BY <1>5, <1>6, <1>7, <1>8, <1>9 DEF IInv, Ledger

LEMMA FlushRouteStep ==
  ASSUME IInv, FlushRoute
  PROVE  IInv'
<1>1. /\ TypeOK /\ Policy /\ Ledger /\ disk \in Cfgs /\ cfg \in Cfgs
      /\ flags \subseteq {"enable", "disable", "flush"} /\ lapsed \in BOOLEAN /\ quiet \in BOOLEAN
      /\ request \in [op : {"none", "enable", "disable"}, step : {"none", "write", "flag"},
                      cfg : Cfgs]
      /\ decided \in {"none", "enable", "disable"}
  BY DEF IInv, TypeOK, Policy, Ledger
<1>2. /\ request = Idle /\ request' = request /\ decided' = decided /\ flags' = flags \cup {"flush"}
      /\ disk' = disk /\ cfg' = cfg /\ pc' = pc /\ quiet' = quiet /\ lapsed' = lapsed
      /\ UNCHANGED <<scanVars, ledgerVars, doneVars, fileVars>>
  BY DEF FlushRoute, serverVars
<1>3. left' \in Bounds
  BY <1>1, SpendType DEF FlushRoute
<1>4. TypeOK'
  <2>1. UNCHANGED <<fullPass, busy, queue, current, ledgerVars, doneVars, fileVars>>
    BY <1>2 DEF scanVars
  <2>2. flags' \subseteq {"enable", "disable", "flush"} /\ disk' \in Cfgs /\ cfg' \in Cfgs
    BY <1>1, <1>2
  <2>3. /\ quiet' \in BOOLEAN /\ lapsed' \in BOOLEAN /\ left' \in Bounds /\ pc' = pc
        /\ decided' \in {"none", "enable", "disable"}
        /\ request' \in [op : {"none", "enable", "disable"}, step : {"none", "write", "flag"},
                        cfg : Cfgs]
    BY <1>1, <1>2, <1>3
  <2>4. QED
    BY <1>1, <2>1, <2>2, <2>3, TypeFrame
<1>5. CopiesOK'
  BY <1>1, <1>2 DEF Policy, CopiesOK, scanVars, AutoPath
<1>6. OptOutOK'
  BY <1>1, <1>2 DEF Policy, OptOutOK, OutStands, Out
<1>7. OptInOK'
  BY <1>1, <1>2, IdleType DEF Policy, OptInOK, Enabled
<1>8. Ledger'
  BY <1>1, <1>2, LedgerFrame DEF scanVars, ledgerVars, fileVars
<1>9. QED
  BY <1>4, <1>5, <1>6, <1>7, <1>8 DEF IInv, Ledger
-----------------------------------------------------------------------------
\* The watcher starts, wakes up, and takes the flags.  What these steps have in
\* common.
LEMMA TakeFrame ==
  ASSUME IInv, UNCHANGED <<scanVars, ledgerVars, doneVars, fileVars, request, decided>>,
         disk' \in {disk, cfg}, cfg' \in {disk, cfg, OptOut(cfg)}, flags' \subseteq flags,
         quiet' \in {quiet, (quiet /\ request = Idle)}, lapsed' = lapsed, left' = left,
         pc \in Early /\ pc' \in Early, OptOutOK', OptInOK'
  PROVE  IInv'
<1>1. /\ TypeOK /\ Policy /\ Ledger /\ disk \in Cfgs /\ cfg \in Cfgs
      /\ flags \subseteq {"enable", "disable", "flush"} /\ lapsed \in BOOLEAN /\ quiet \in BOOLEAN
      /\ request \in [op : {"none", "enable", "disable"}, step : {"none", "write", "flag"},
                      cfg : Cfgs]
      /\ decided \in {"none", "enable", "disable"} /\ left \in Bounds
  BY DEF IInv, TypeOK, Policy, Ledger
<1>2. disk' \in Cfgs /\ cfg' \in Cfgs
  <2>1. OptOut(cfg) \in Cfgs
    BY <1>1, CfgTypes
  <2>2. QED
    BY <1>1, <2>1
<1>3. flags' \subseteq {"enable", "disable", "flush"}
  BY <1>1
<1>4. quiet' \in BOOLEAN /\ lapsed' \in BOOLEAN
  BY <1>1
<1>5. TypeOK'
  <2>1. UNCHANGED <<fullPass, busy, queue, current, ledgerVars, doneVars, fileVars>>
    BY DEF scanVars
  <2>2. pc \notin {"sending", "sent"}
    BY DEF Early
  <2>3. /\ decided' \in {"none", "enable", "disable"} /\ left' \in Bounds
        /\ request' \in [op : {"none", "enable", "disable"}, step : {"none", "write", "flag"},
                         cfg : Cfgs]
    BY <1>1
  <2>4. QED
    BY <1>1, <1>2, <1>3, <1>4, <2>1, <2>2, <2>3, TypeFrame
<1>6. CopiesOK'
  <2>1. ~OptOut(cfg).host
    BY <1>1, CfgTypes
  <2>2. \A c \in {disk', cfg', request'.cfg} : c.host => c.mirror
    BY <1>1, <2>1 DEF Policy, CopiesOK
  <2>3. pc' # "sending"
    BY DEF Early
  <2>4. QED
    BY <1>1, <2>2, <2>3 DEF Policy, CopiesOK, Idle
<1>7. Ledger'
  BY <1>1, LedgerFrame DEF scanVars, ledgerVars, fileVars
<1>8. QED
  BY <1>5, <1>6, <1>7 DEF IInv, Ledger

LEMMA StampStep ==
  ASSUME IInv, Stamp
  PROVE  IInv'
<1>1. /\ pc = "started" /\ pc' = "top" /\ disk' \in {disk, cfg} /\ cfg' = cfg /\ flags' = flags
      /\ request' = request /\ decided' = decided /\ quiet' = quiet /\ lapsed' = lapsed
      /\ left' = left /\ UNCHANGED <<scanVars, ledgerVars, doneVars, fileVars>>
  BY DEF Stamp, serverVars
<1>2. OptOutOK'
  BY <1>1 DEF IInv, OptOutOK, OutStands, Out
<1>3. OptInOK'
  BY <1>1, IdleType DEF IInv, CopiesOK, OptInOK, Enabled
<1>4. QED
  BY <1>1, <1>2, <1>3, TakeFrame DEF Early

LEMMA TakeOptInStep ==
  ASSUME IInv, TakeOptIn
  PROVE  IInv'
<1>1. /\ pc = "top" /\ pc' \in {"saveOptIn", "optOut"} /\ disk' = disk
      /\ IF "enable" \in flags THEN flags' = flags \ {"enable"} /\ cfg' = disk
                               ELSE flags' = flags /\ cfg' = cfg
      /\ request' = request /\ decided' = decided /\ quiet' = quiet /\ lapsed' = lapsed
      /\ left' = left /\ UNCHANGED <<scanVars, ledgerVars, doneVars, fileVars>>
  BY DEF TakeOptIn, serverVars
<1>2. OptOutOK'
  BY <1>1 DEF IInv, OptOutOK, OutStands, Out
<1>3. OptInOK'
  BY <1>1 DEF IInv, OptInOK, Enabled
<1>4. QED
  BY <1>1, <1>2, <1>3, TakeFrame DEF Early

LEMMA TakeOptOutStep ==
  ASSUME IInv, TakeOptOut
  PROVE  IInv'
<1>1. /\ pc = "optOut" /\ disk' = disk
      /\ IF "disable" \in flags
         THEN flags' = flags \ {"disable"} /\ cfg' = OptOut(cfg) /\ pc' = "saveOptOut"
         ELSE flags' = flags /\ cfg' = cfg /\ pc' = "flush"
      /\ request' = request /\ decided' = decided /\ quiet' = quiet /\ lapsed' = lapsed
      /\ left' = left /\ UNCHANGED <<scanVars, ledgerVars, doneVars, fileVars>>
  BY DEF TakeOptOut, serverVars
<1>2. ~OptOut(cfg).host
  BY CfgTypes DEF IInv, TypeOK
<1>3. OptOutOK'
  BY <1>1, <1>2 DEF IInv, OptOutOK, OutStands, Out
<1>4. OptInOK'
  BY <1>1 DEF IInv, OptInOK, Enabled
<1>5. QED
  BY <1>1, <1>3, <1>4, TakeFrame DEF Early

LEMMA WakeStep ==
  ASSUME IInv, Wake
  PROVE  IInv'
<1>1. /\ pc = "sleep" /\ pc' = "top" /\ disk' = disk /\ cfg' = cfg /\ flags' = flags
      /\ request' = request /\ decided' = decided /\ quiet' = (quiet /\ request = Idle)
      /\ lapsed' = lapsed /\ left' = left
      /\ UNCHANGED <<scanVars, ledgerVars, doneVars, fileVars>>
  BY DEF Wake
<1>2. OptOutOK'
  BY <1>1 DEF IInv, OptOutOK, OutStands, Out
<1>3. OptInOK'
  BY <1>1, IdleType DEF IInv, OptInOK, Enabled
<1>4. QED
  BY <1>1, <1>2, <1>3, TakeFrame DEF Early

LEMMA SaveStep ==
  ASSUME IInv, Save
  PROVE  IInv'
<1>1. /\ pc \in {"saveOptIn", "saveOptOut", "saveFlush", "saveDone"} /\ disk' = cfg /\ cfg' = cfg
      /\ pc' = AfterSave(pc) /\ flags' = flags
      /\ request' = request /\ decided' = decided /\ quiet' = quiet /\ lapsed' = lapsed
      /\ left' = left /\ UNCHANGED <<scanVars, ledgerVars, doneVars, fileVars>>
  BY DEF Save, serverVars
<1>2. pc' \in {"optOut", "flush", "scan", "upload"} /\ (pc = "saveDone" <=> pc' = "upload")
  BY <1>1 DEF AfterSave
<1>3. OptOutOK'
  BY <1>1, <1>2 DEF IInv, OptOutOK, OutStands, Out
<1>4. OptInOK'
  BY <1>1, <1>2 DEF IInv, OptInOK, Enabled
<1>5. CASE pc # "saveDone"
  BY <1>1, <1>2, <1>3, <1>4, <1>5, TakeFrame DEF Early
<1>6. CASE pc = "saveDone"
  <2>1. /\ TypeOK /\ Policy /\ Ledger /\ disk' \in Cfgs /\ cfg' \in Cfgs
        /\ flags' \subseteq {"enable", "disable", "flush"}
        /\ decided' \in {"none", "enable", "disable"} /\ left' \in Bounds
        /\ request' \in [op : {"none", "enable", "disable"}, step : {"none", "write", "flag"},
                         cfg : Cfgs]
    BY <1>1 DEF IInv, TypeOK, Policy, Ledger
  <2>2. quiet' \in BOOLEAN /\ lapsed' \in BOOLEAN
    BY <1>1 DEF IInv, TypeOK
  <2>3. UNCHANGED <<fullPass, busy, queue, current, ledgerVars, doneVars, fileVars>>
    BY <1>1 DEF scanVars
  <2>4. pc' \in Early \cup {"off", "upload", "saveDone"} /\ pc \notin {"sending", "sent"}
    BY <1>2, <1>6
  <2>5. TypeOK'
    BY <2>1, <2>2, <2>3, <2>4, TypeFrame
  <2>6. CopiesOK'
    BY <1>1, <1>2, <1>6, <2>1 DEF Policy, CopiesOK, Idle
  <2>7. CopiesCounted'
    BY <1>1, <1>2, <1>6, <2>1 DEF Ledger, CopiesCounted, One, doneVars, scanVars, fileVars
  <2>8. AttemptsOK'
    BY <1>1, <1>2, <1>6, <2>1 DEF Ledger, AttemptsOK, doneVars, scanVars, ledgerVars
  <2>9. QED
    BY <1>3, <1>4, <2>5, <2>6, <2>7, <2>8 DEF IInv
<1>7. QED
  BY <1>5, <1>6

\* The watcher that starts knows what the file of uploads says, and has no queue.
LEMMA StartStep ==
  ASSUME IInv, Start
  PROVE  IInv'
<1>1. /\ TypeOK /\ Policy /\ Ledger /\ disk \in Cfgs
      /\ flags \subseteq {"enable", "disable", "flush"} /\ lapsed \in BOOLEAN /\ quiet \in BOOLEAN
      /\ request \in [op : {"none", "enable", "disable"}, step : {"none", "write", "flag"},
                      cfg : Cfgs]
      /\ decided \in {"none", "enable", "disable"} /\ left \in Bounds
  BY DEF IInv, TypeOK, Policy, Ledger
<1>2. /\ pc = "off" /\ pc' = "started" /\ cfg' = disk /\ doneMap' = doneFile /\ doneFile' = doneFile
      /\ quiet' = (quiet /\ request = Idle) /\ disk' = disk /\ flags' = flags /\ request' = request
      /\ decided' = decided /\ lapsed' = lapsed /\ left' = left
      /\ fullPass' = fullPass /\ busy' = busy /\ queue' = queue /\ current' = current
      /\ stable' = stable /\ enqueued' = enqueued /\ attempts' = attempts /\ waiting' = waiting
      /\ terminal' = terminal /\ size' = size /\ accepted' = accepted /\ lost' = lost
  BY DEF Start, scanVars, ledgerVars, fileVars
<1>3. quiet' \in BOOLEAN /\ lapsed' \in BOOLEAN /\ fullPass' \in BOOLEAN
  BY <1>1, <1>2 DEF TypeOK
<1>4. TypeOK'
  BY <1>1, <1>2, <1>3 DEF TypeOK
<1>5. CopiesOK'
  BY <1>1, <1>2 DEF Policy, CopiesOK, Idle
<1>6. OptOutOK'
  BY <1>1, <1>2 DEF Policy, OptOutOK, OutStands, Out
<1>7. OptInOK'
  BY <1>1, <1>2, IdleType DEF Policy, OptInOK, Enabled
<1>8. CopiesCounted'
  BY <1>1, <1>2 DEF Ledger, CopiesCounted, One
<1>9. AttemptsOK'
  BY <1>1, <1>2, MirrorAssumption DEF Ledger, AttemptsOK
<1>10. QED
  BY <1>4, <1>5, <1>6, <1>7, <1>8, <1>9 DEF IInv

\* A flush forgets sightings, records and verdicts, and turns the switch on, but
\* no host.
LEMMA TakeFlushStep ==
  ASSUME IInv, TakeFlush
  PROVE  IInv'
<1>1. /\ TypeOK /\ Policy /\ Ledger /\ disk \in Cfgs /\ cfg \in Cfgs
      /\ flags \subseteq {"enable", "disable", "flush"} /\ lapsed \in BOOLEAN /\ quiet \in BOOLEAN
      /\ attempts \in [Files -> Nat]
      /\ stable \in [Files -> [size : 0..MaxSize, aged : BOOLEAN]]
      /\ enqueued \subseteq Files /\ waiting \subseteq Files /\ terminal \subseteq Files
  BY DEF IInv, TypeOK, Policy, Ledger
<1>2. /\ pc = "flush" /\ pc' \in {"scan", "saveFlush"} /\ disk' = disk
      /\ fullPass' = ("flush" \in flags) /\ flags' = flags \ {"flush"}
      /\ cfg' = cfg \/ cfg' = [cfg EXCEPT !.mirror = TRUE]
      /\ ForgetLedger \/ UNCHANGED ledgerVars
      /\ request' = request /\ decided' = decided /\ quiet' = quiet /\ lapsed' = lapsed
      /\ left' = left /\ busy' = busy /\ queue' = queue /\ current' = current
      /\ doneMap' = doneMap /\ doneFile' = doneFile /\ size' = size /\ accepted' = accepted
      /\ lost' = lost
  BY DEF TakeFlush, serverVars, doneVars, fileVars
<1>3. /\ cfg' \in Cfgs /\ cfg'.host = cfg.host /\ (cfg.mirror => cfg'.mirror)
      /\ (cfg.host => cfg'.mirror)
  <2>1. cfg.host => cfg.mirror
    BY <1>1 DEF Policy, CopiesOK
  <2>2. CASE cfg' = cfg
    BY <1>1, <2>1, <2>2
  <2>3. CASE cfg' = [cfg EXCEPT !.mirror = TRUE]
    BY <1>1, <2>3, CfgTypes
  <2>4. QED
    BY <1>2, <2>2, <2>3
<1>4. /\ attempts' \in [Files -> Nat]
      /\ stable' \in [Files -> [size : 0..MaxSize, aged : BOOLEAN]]
      /\ enqueued' \subseteq Files /\ waiting' \subseteq Files /\ terminal' \subseteq Files
  <2>1. CASE ForgetLedger
    BY <2>1, MirrorAssumption DEF ForgetLedger, NoEntry
  <2>2. CASE UNCHANGED ledgerVars
    BY <1>1, <2>2 DEF ledgerVars
  <2>3. QED
    BY <1>2, <2>1, <2>2
<1>5. quiet' \in BOOLEAN /\ lapsed' \in BOOLEAN /\ fullPass' \in BOOLEAN
  BY <1>1, <1>2
<1>6. TypeOK'
  BY <1>1, <1>2, <1>3, <1>4, <1>5 DEF TypeOK
<1>7. CopiesOK'
  BY <1>1, <1>2, <1>3 DEF Policy, CopiesOK, Idle
<1>8. OptOutOK'
  BY <1>1, <1>2, <1>3 DEF Policy, OptOutOK, OutStands, Out
<1>9. OptInOK'
  BY <1>1, <1>2, <1>3 DEF Policy, OptInOK, Enabled
<1>10. CopiesCounted'
  BY <1>1, <1>2 DEF Ledger, CopiesCounted, One
<1>11. AttemptsOK'
  <2>1. CASE ForgetLedger
    <3>1. \A f \in Files : attempts'[f] = 0
      BY <2>1 DEF ForgetLedger
    <3>2. QED
      BY <1>2, <3>1, MirrorAssumption DEF AttemptsOK
  <2>2. CASE UNCHANGED ledgerVars
    BY <1>1, <1>2, <2>2 DEF Ledger, AttemptsOK, ledgerVars
  <2>3. QED
    BY <1>2, <2>1, <2>2
<1>12. QED
  BY <1>6, <1>7, <1>8, <1>9, <1>10, <1>11 DEF IInv

\* A death forgets everything; an upload it interrupts is one the watcher does
\* not learn of.
LEMMA DieStep ==
  ASSUME IInv, Die
  PROVE  IInv'
<1>1. /\ TypeOK /\ Policy /\ Ledger /\ disk \in Cfgs
      /\ lapsed \in BOOLEAN /\ quiet \in BOOLEAN
      /\ accepted \in [Files -> Nat] /\ lost \in [Files -> Nat]
      /\ pc \in {"sending", "sent"} => current \in Files
      /\ pc \notin {"sending", "sent"} => current = NoFile
  BY DEF IInv, TypeOK, Policy, Ledger
<1>2. /\ pc # "off" /\ pc' = "off" /\ lapsed' = (lapsed \/ pc = "saveOptOut") /\ cfg' = disk
      /\ fullPass' = FALSE /\ busy' = {} /\ current' = NoFile /\ queue' = [f \in Files |-> 0]
      /\ ForgetLedger /\ doneMap' = {} /\ disk' = disk /\ flags' = flags /\ request' = request
      /\ decided' = decided /\ quiet' = quiet /\ doneFile' = doneFile /\ size' = size
  BY DEF Die, serverVars
<1>3. left' \in Bounds
  BY <1>1, SpendType DEF Die
<1>4. /\ accepted' \in [Files -> Nat] /\ lost' \in [Files -> Nat]
      /\ \A f \in Files :
           \/ accepted'[f] = accepted[f] /\ lost'[f] = lost[f] /\ ~(pc = "sent" /\ f = current)
           \/ accepted'[f] = accepted[f] + 1 /\ lost'[f] = lost[f] + 1 /\ ~(pc = "sent" /\ f = current)
           \/ accepted'[f] = accepted[f] /\ lost'[f] = lost[f] + 1 /\ pc = "sent" /\ f = current
  <2>1. CASE /\ pc = "sending" /\ accepted' = [accepted EXCEPT ![current] = @ + 1]
             /\ lost' = [lost EXCEPT ![current] = @ + 1]
    BY <1>1, <2>1
  <2>2. CASE pc = "sent" /\ lost' = [lost EXCEPT ![current] = @ + 1] /\ UNCHANGED accepted
    BY <1>1, <2>2
  <2>3. CASE pc # "sent" /\ UNCHANGED <<accepted, lost>>
    BY <1>1, <2>3
  <2>4. QED
    BY <2>1, <2>2, <2>3 DEF Die
<1>5. /\ attempts' \in [Files -> Nat] /\ \A f \in Files : attempts'[f] = 0
      /\ stable' \in [Files -> [size : 0..MaxSize, aged : BOOLEAN]]
      /\ enqueued' \subseteq Files /\ waiting' \subseteq Files /\ terminal' \subseteq Files
  BY <1>2, MirrorAssumption DEF ForgetLedger, NoEntry
<1>6. quiet' \in BOOLEAN /\ lapsed' \in BOOLEAN /\ fullPass' \in BOOLEAN
  BY <1>1, <1>2
<1>7. queue' \in [Files -> 0..Cardinality(Roots)]
  <2>1. Cardinality(Roots) \in Nat
    BY MirrorAssumption, FS_CardinalityType
  <2>2. 0 \in 0..Cardinality(Roots)
    BY <2>1
  <2>3. QED
    BY <1>2, <2>2
<1>8. TypeOK'
  BY <1>1, <1>2, <1>3, <1>4, <1>5, <1>6, <1>7 DEF TypeOK
<1>9. CopiesOK'
  BY <1>1, <1>2 DEF Policy, CopiesOK, Idle
<1>10. OptOutOK'
  BY <1>1, <1>2 DEF Policy, OptOutOK, OutStands, Out
<1>11. OptInOK'
  BY <1>1, <1>2 DEF Policy, OptInOK, Enabled
<1>12. CopiesCounted'
  <2>1. SUFFICES ASSUME NEW f \in Files
                 PROVE  /\ queue'[f] + One(current' = f) <= Cardinality(Under[f])
                        /\ f \notin doneFile => accepted'[f] = lost'[f] + One(pc' = "sent" /\ current' = f)
                        /\ f \in doneFile =>
                             accepted'[f] + queue'[f] + One(pc' = "sending" /\ current' = f)
                               <= Cardinality(Under[f]) + lost'[f]
    BY <1>2 DEF CopiesCounted
  <2>2. /\ queue'[f] = 0 /\ One(current' = f) = 0 /\ One(pc' = "sent" /\ current' = f) = 0
        /\ One(pc' = "sending" /\ current' = f) = 0
    BY <1>2, MirrorAssumption DEF One
  <2>3. Cardinality(Under[f]) \in Nat
    BY RootsFinite
  <2>4. f \notin doneFile => accepted[f] = lost[f] + One(pc = "sent" /\ current = f)
    BY <1>1 DEF Ledger, CopiesCounted
  <2>5. f \in doneFile => accepted[f] + queue[f] + One(pc = "sending" /\ current = f)
                            <= Cardinality(Under[f]) + lost[f]
    BY <1>1 DEF Ledger, CopiesCounted
  <2>6. /\ queue[f] \in Nat /\ One(pc = "sending" /\ current = f) \in Nat
        /\ accepted[f] \in Nat /\ lost[f] \in Nat
    BY <1>1, RootsFinite DEF TypeOK, One
  <2>7. f \notin doneFile => accepted'[f] = lost'[f]
    BY <1>4, <2>4, <2>6 DEF One
  <2>8. f \in doneFile => accepted'[f] <= Cardinality(Under[f]) + lost'[f]
    BY <1>4, <2>3, <2>5, <2>6
  <2>9. QED
    BY <1>4, <2>2, <2>3, <2>7, <2>8
<1>13. AttemptsOK'
  BY <1>2, <1>5, MirrorAssumption DEF AttemptsOK
<1>14. QED
  BY <1>8, <1>9, <1>10, <1>11, <1>12, <1>13 DEF IInv
-----------------------------------------------------------------------------
\* What the steps of a scan and of the upload loop have in common.
LEMMA WorkFrame ==
  ASSUME IInv, UNCHANGED <<disk, flags, serverVars, cfg, lapsed>>,
         \/ pc' = pc /\ current' = current
         \/ /\ pc \in {"scan", "gate", "upload", "sending", "sent"}
            /\ pc' \in {"gate", "upload", "sleep", "sending", "sent", "saveDone"}
            /\ pc' = "sending" => Under[current'] \cap AutoRoots # {} \/ cfg.host,
         fullPass' \in BOOLEAN, busy' \subseteq Roots, queue' \in [Files -> 0..Cardinality(Roots)],
         current' \in Files \cup {NoFile}, (current' # NoFile) <=> pc' \in {"sending", "sent"},
         stable' \in [Files -> [size : 0..MaxSize, aged : BOOLEAN]],
         enqueued' \subseteq Files, waiting' \subseteq Files, terminal' \subseteq Files,
         attempts' \in [Files -> Nat], accepted' \in [Files -> Nat], lost' \in [Files -> Nat],
         doneMap' \subseteq Files, doneFile' \subseteq Files, size' \in [Files -> 0..MaxSize],
         left' \in Bounds, Ledger'
  PROVE  IInv'
<1>1. /\ disk' = disk /\ flags' = flags /\ request' = request /\ decided' = decided
      /\ quiet' = quiet /\ cfg' = cfg /\ lapsed' = lapsed
  BY DEF serverVars
<1>2. quiet' \in BOOLEAN /\ lapsed' \in BOOLEAN
  BY <1>1 DEF IInv, TypeOK
<1>3. pc' \in {"off", "started", "top", "optOut", "flush", "scan", "gate", "upload", "sending",
               "sent", "sleep", "saveOptIn", "saveOptOut", "saveFlush", "saveDone"}
  BY DEF IInv, TypeOK
<1>4. TypeOK'
  BY <1>1, <1>2, <1>3 DEF IInv, TypeOK
<1>5. Policy'
  <2>1. Policy
    BY DEF IInv, Policy
  <2>2. UNCHANGED <<disk, flags, request, decided, quiet, cfg, lapsed>>
    BY <1>1
  <2>3. \/ pc' = pc /\ current' = current
        \/ /\ pc \notin {"sleep", "off", "top", "saveOptOut"}
           /\ pc' = "sending" => Under[current'] \cap AutoRoots # {} \/ cfg.host
    OBVIOUS
  <2>4. QED
    BY <2>1, <2>2, <2>3, PolicyFrame
<1>6. QED
  BY <1>4, <1>5 DEF IInv, Policy, Ledger

\* The types WorkFrame asks for, of what a step leaves alone.
LEMMA WorkTypes ==
  ASSUME IInv
  PROVE  /\ TypeOK /\ Ledger
         /\ fullPass \in BOOLEAN /\ busy \subseteq Roots /\ queue \in [Files -> 0..Cardinality(Roots)]
         /\ current \in Files \cup {NoFile} /\ (current # NoFile <=> pc \in {"sending", "sent"})
         /\ stable \in [Files -> [size : 0..MaxSize, aged : BOOLEAN]]
         /\ enqueued \subseteq Files /\ waiting \subseteq Files /\ terminal \subseteq Files
         /\ attempts \in [Files -> Nat] /\ accepted \in [Files -> Nat] /\ lost \in [Files -> Nat]
         /\ doneMap \subseteq Files /\ doneFile \subseteq Files /\ size \in [Files -> 0..MaxSize]
         /\ left \in Bounds
         /\ Cardinality(Roots) \in Nat /\ \A f \in Files : queue[f] \in Nat
         /\ \A f \in Files : Cardinality(Under[f]) \in Nat
<1>1. Cardinality(Roots) \in Nat
  BY MirrorAssumption, FS_CardinalityType
<1>2. \A f \in Files : Cardinality(Under[f]) \in Nat
  BY RootsFinite
<1>3. QED
  BY <1>1, <1>2 DEF IInv, TypeOK, Ledger

LEMMA FindBusyStep ==
  ASSUME IInv, FindBusy
  PROVE  IInv'
<1>1. /\ pc = "scan" /\ pc' = "gate" /\ busy' \subseteq Roots
      /\ UNCHANGED <<disk, flags, serverVars, cfg, lapsed>>
      /\ fullPass' = fullPass /\ queue' = queue /\ current' = current
      /\ UNCHANGED <<ledgerVars, doneVars, fileVars, left>>
  BY DEF FindBusy
<1>2. /\ stable' = stable /\ enqueued' = enqueued /\ attempts' = attempts /\ waiting' = waiting
      /\ terminal' = terminal /\ doneMap' = doneMap /\ doneFile' = doneFile /\ size' = size
      /\ accepted' = accepted /\ lost' = lost /\ left' = left
  BY <1>1 DEF ledgerVars, doneVars, fileVars
<1>3. Ledger'
  BY <1>1, <1>2, WorkTypes, LedgerFrame DEF Early, doneVars
<1>4. fullPass' \in BOOLEAN
  BY <1>1, WorkTypes
<1>5. QED
  BY <1>1, <1>2, <1>3, <1>4, WorkTypes, WorkFrame

\* A file that is known as uploaded does not get into the queue, one that is not
\* gets there once for every root that is not busy.
LEMMA GateStep ==
  ASSUME IInv, Gate
  PROVE  IInv'
<1> DEFINE passed == {f \in Candidates : Passes(f)}
           sighted == {f \in Candidates \ passed : stable[f].size # size[f]}
           sent == {f \in passed : cfg.mirror \/ AutoPath(f)}
<1>1. /\ pc = "gate" /\ enqueued' = enqueued \cup passed
      /\ stable' = [f \in Files |-> IF f \in sighted THEN [size |-> size[f], aged |-> FALSE]
                                    ELSE stable[f]]
      /\ queue' = [f \in Files |-> IF f \in sent THEN Cardinality(Under[f] \ busy) ELSE 0]
      /\ pc' = IF sent = {} THEN "sleep" ELSE "upload"
      /\ fullPass' = FALSE /\ busy' = {}
      /\ UNCHANGED <<disk, flags, serverVars, cfg, lapsed>>
      /\ current' = current /\ attempts' = attempts /\ waiting' = waiting /\ terminal' = terminal
      /\ doneMap' = doneMap /\ doneFile' = doneFile /\ size' = size /\ accepted' = accepted
      /\ lost' = lost /\ left' = left
  BY DEF Gate, doneVars, fileVars
<1>2. passed \subseteq Files /\ sent \subseteq Files /\ \A f \in sent : f \notin doneMap
  BY DEF Candidates
<1> HIDE DEF passed, sent
<1>3. stable' \in [Files -> [size : 0..MaxSize, aged : BOOLEAN]]
  <2>1. \A f \in Files : [size |-> size[f], aged |-> FALSE] \in [size : 0..MaxSize, aged : BOOLEAN]
    BY WorkTypes
  <2>2. \A f \in Files : stable[f] \in [size : 0..MaxSize, aged : BOOLEAN]
    BY WorkTypes
  <2> HIDE DEF sighted
  <2>3. QED
    BY <1>1, <2>1, <2>2
<1>4. \A f \in Files : /\ queue'[f] \in Nat /\ queue'[f] <= Cardinality(Under[f])
                       /\ queue'[f] <= Cardinality(Roots)
                       /\ f \in doneMap => queue'[f] = 0
  <2>1. SUFFICES ASSUME NEW f \in Files
                 PROVE  /\ queue'[f] \in Nat /\ queue'[f] <= Cardinality(Under[f])
                        /\ queue'[f] <= Cardinality(Roots)
                        /\ f \in doneMap => queue'[f] = 0
    OBVIOUS
  <2>2. queue'[f] = IF f \in sent THEN Cardinality(Under[f] \ busy) ELSE 0
    BY <1>1
  <2>3. /\ Cardinality(Under[f]) \in Nat /\ Cardinality(Roots) \in Nat
        /\ Cardinality(Under[f] \ busy) \in Nat
        /\ Cardinality(Under[f] \ busy) <= Cardinality(Under[f])
        /\ Cardinality(Under[f]) <= Cardinality(Roots)
    BY RootsFinite
  <2>4. QED
    BY <1>2, <2>2, <2>3
<1>5. queue' \in [Files -> 0..Cardinality(Roots)]
  <2>1. \A f \in Files : queue'[f] \in 0..Cardinality(Roots)
    BY <1>4, WorkTypes
  <2>2. QED
    BY <1>1, <2>1
<1>6. current = NoFile /\ NoFile \notin Files
  BY <1>1, WorkTypes, MirrorAssumption
<1>7. CopiesCounted'
  <2>1. doneMap = doneFile
    BY <1>1, WorkTypes DEF Ledger, CopiesCounted
  <2>2. pc' = "sleep" => \A f \in Files : queue'[f] = 0
    BY <1>1
  <2>3. SUFFICES ASSUME NEW f \in Files
                 PROVE  /\ queue'[f] + One(current' = f) <= Cardinality(Under[f])
                        /\ f \notin doneFile => accepted[f] = lost[f] + One(pc' = "sent" /\ current' = f)
                        /\ f \in doneFile =>
                             accepted[f] + queue'[f] + One(pc' = "sending" /\ current' = f)
                               <= Cardinality(Under[f]) + lost[f]
    BY <1>1, <2>1, <2>2 DEF CopiesCounted
  <2>4. One(current' = f) = 0 /\ One(pc' = "sent" /\ current' = f) = 0
        /\ One(pc' = "sending" /\ current' = f) = 0
    BY <1>1, <1>6 DEF One
  <2>5. /\ f \notin doneFile => accepted[f] = lost[f] + One(pc = "sent" /\ current = f)
        /\ f \in doneFile => accepted[f] + queue[f] + One(pc = "sending" /\ current = f)
                               <= Cardinality(Under[f]) + lost[f]
    BY WorkTypes DEF Ledger, CopiesCounted
  <2>6. /\ queue[f] = 0 /\ One(pc = "sent" /\ current = f) = 0
        /\ One(pc = "sending" /\ current = f) = 0
    BY <1>1, <1>6, WorkTypes DEF Ledger, CopiesCounted, One
  <2>7. accepted[f] \in Nat /\ lost[f] \in Nat /\ Cardinality(Under[f]) \in Nat
    BY WorkTypes
  <2>8. QED
    BY <1>4, <2>1, <2>4, <2>5, <2>6, <2>7
<1>8. AttemptsOK'
  BY <1>1, WorkTypes DEF Ledger, AttemptsOK
<1>9. pc' \in {"sleep", "upload"} /\ enqueued' \subseteq Files /\ fullPass' \in BOOLEAN
      /\ busy' \subseteq Roots
  BY <1>1, <1>2, WorkTypes
<1>10. QED
  BY <1>1, <1>3, <1>5, <1>6, <1>7, <1>8, <1>9, WorkTypes, WorkFrame DEF Ledger

\* Whatever becomes of it, the file leaves the queue or takes its place there
\* with it to the host.
LEMMA TakeStep ==
  ASSUME IInv, NEW f \in Files, Take(f)
  PROVE  IInv'
<1>1. /\ pc = "upload" /\ queue[f] > 0 /\ queue' = [queue EXCEPT ![f] = @ - 1]
      /\ UNCHANGED <<disk, flags, serverVars, cfg, lapsed>>
      /\ fullPass' = fullPass /\ busy' = busy /\ stable' = stable /\ enqueued' = enqueued
      /\ waiting' = waiting /\ doneMap' = doneMap /\ doneFile' = doneFile /\ size' = size
      /\ accepted' = accepted /\ lost' = lost /\ left' = left
  BY DEF Take, doneVars, fileVars
<1>2. current = NoFile /\ NoFile \notin Files
  BY <1>1, WorkTypes, MirrorAssumption
<1>3. /\ queue' \in [Files -> 0..Cardinality(Roots)] /\ queue'[f] = queue[f] - 1
      /\ \A g \in Files \ {f} : queue'[g] = queue[g]
  <2>1. queue[f] - 1 \in 0..Cardinality(Roots)
    BY <1>1, WorkTypes
  <2>2. QED
    BY <1>1, <2>1, WorkTypes
<1>4. \/ /\ pc' = pc /\ current' = current /\ attempts' = attempts
         /\ terminal' = terminal \/ terminal' = terminal \cup {f}
      \/ /\ pc' = pc /\ current' = current /\ terminal' = terminal \cup {f}
         /\ f \notin terminal /\ attempts' = [attempts EXCEPT ![f] = @ + 1]
      \/ /\ pc' = "sending" /\ current' = f /\ attempts' = attempts /\ terminal' = terminal
         /\ f \notin terminal
         /\ Under[f] \cap AutoRoots # {} \/ cfg.host
  BY DEF Take, AutoPath
<1>5. CopiesCounted'
  <2>1. pc' \in {"upload", "sending"} /\ (pc' = "sending" <=> current' = f)
        /\ (current' = NoFile \/ current' = f)
    BY <1>1, <1>2, <1>4
  <2>2. SUFFICES ASSUME NEW g \in Files
                 PROVE  /\ queue'[g] + One(current' = g) <= Cardinality(Under[g])
                        /\ g \notin doneFile => accepted[g] = lost[g] + One(pc' = "sent" /\ current' = g)
                        /\ g \in doneFile =>
                             accepted[g] + queue'[g] + One(pc' = "sending" /\ current' = g)
                               <= Cardinality(Under[g]) + lost[g]
    <3>1. doneMap = doneFile
      BY <1>1, WorkTypes DEF Ledger, CopiesCounted
    <3>2. QED
      BY <1>1, <2>1, <3>1 DEF CopiesCounted
  <2>3. /\ queue'[g] + One(current' = g) <= queue[g]
        /\ queue'[g] + One(pc' = "sending" /\ current' = g) <= queue[g]
        /\ queue'[g] \in Nat /\ One(current' = g) \in Nat
        /\ One(pc' = "sending" /\ current' = g) \in Nat
    BY <1>1, <1>2, <1>3, <2>1, WorkTypes DEF One
  <2>4. One(pc' = "sent" /\ current' = g) = 0 /\ One(pc = "sent" /\ current = g) = 0
        /\ One(pc = "sending" /\ current = g) = 0 /\ One(current = g) = 0
    BY <1>1, <1>2, <2>1 DEF One
  <2>5. /\ queue[g] + One(current = g) <= Cardinality(Under[g])
        /\ g \notin doneFile => accepted[g] = lost[g] + One(pc = "sent" /\ current = g)
        /\ g \in doneFile => accepted[g] + queue[g] + One(pc = "sending" /\ current = g)
                               <= Cardinality(Under[g]) + lost[g]
    BY WorkTypes DEF Ledger, CopiesCounted
  <2>6. /\ accepted[g] \in Nat /\ lost[g] \in Nat /\ queue[g] \in Nat
        /\ Cardinality(Under[g]) \in Nat
    BY WorkTypes
  <2>7. QED
    BY <2>3, <2>4, <2>5, <2>6
<1>6. AttemptsOK' /\ attempts' \in [Files -> Nat] /\ terminal' \subseteq Files
  <2>1. attempts' \in [Files -> Nat] /\ terminal' \subseteq Files
    BY <1>4, WorkTypes
  <2>2. f \notin doneMap /\ f \notin terminal => attempts[f] + 1 <= MaxAttempts
    BY <1>1, WorkTypes, MirrorAssumption DEF Ledger, AttemptsOK
  <2>3. \A g \in Files : g \notin doneMap =>
          /\ attempts'[g] <= MaxAttempts
          /\ g \notin terminal' => attempts'[g] < MaxAttempts
    <3>1. \A g \in Files : g \notin doneMap =>
            attempts[g] <= MaxAttempts /\ (g \notin terminal => attempts[g] < MaxAttempts)
      BY <1>1, WorkTypes DEF Ledger, AttemptsOK
    <3>2. QED
      BY <1>4, <2>2, <3>1, WorkTypes
  <2>4. pc' # "off" /\ (pc' = "sending" => current' \notin terminal')
    BY <1>1, <1>4
  <2>5. QED
    BY <1>1, <2>1, <2>3, <2>4 DEF AttemptsOK
<1>7. fullPass' \in BOOLEAN
  BY <1>1, WorkTypes
<1>8. /\ current' \in Files \cup {NoFile} /\ ((current' # NoFile) <=> pc' \in {"sending", "sent"})
      /\ \/ pc' = pc /\ current' = current
         \/ pc' = "sending" /\ (Under[current'] \cap AutoRoots # {} \/ cfg.host)
  BY <1>1, <1>2, <1>4
<1>9. QED
  BY <1>1, <1>3, <1>5, <1>6, <1>7, <1>8, WorkTypes, WorkFrame DEF Ledger

LEMMA AcceptedStep ==
  ASSUME IInv, Accepted
  PROVE  IInv'
<1>1. /\ pc = "sending" /\ pc' = "sent" /\ accepted' = [accepted EXCEPT ![current] = @ + 1]
      /\ attempts' = [attempts EXCEPT ![current] = @ + 1]
      /\ UNCHANGED <<disk, flags, serverVars, cfg, lapsed>>
      /\ fullPass' = fullPass /\ busy' = busy /\ queue' = queue /\ current' = current
      /\ stable' = stable /\ enqueued' = enqueued /\ waiting' = waiting /\ terminal' = terminal
      /\ doneMap' = doneMap /\ doneFile' = doneFile /\ size' = size /\ lost' = lost /\ left' = left
  BY DEF Accepted, Recorded, scanVars, doneVars
<1>2. current \in Files
  BY <1>1, WorkTypes
<1>3. /\ accepted' \in [Files -> Nat] /\ attempts' \in [Files -> Nat]
      /\ \A f \in Files : accepted'[f] = accepted[f] + One(current = f)
      /\ \A f \in Files : attempts'[f] = IF f = current THEN attempts[f] + 1 ELSE attempts[f]
  BY <1>1, <1>2, WorkTypes DEF One
<1>4. CopiesCounted'
  <2>1. \A f \in Files : /\ One(pc' = "sent" /\ current' = f) = One(current = f)
                         /\ One(pc = "sending" /\ current = f) = One(current = f)
                         /\ One(pc = "sent" /\ current = f) = 0
                         /\ One(pc' = "sending" /\ current' = f) = 0
                         /\ One(current' = f) = One(current = f) /\ One(current = f) \in Nat
    BY <1>1 DEF One
  <2>2. \A f \in Files : /\ accepted[f] \in Nat /\ lost[f] \in Nat /\ queue[f] \in Nat
                         /\ Cardinality(Under[f]) \in Nat
    BY WorkTypes
  <2>3. \A f \in Files :
          /\ queue[f] + One(current = f) <= Cardinality(Under[f])
          /\ f \notin doneFile => accepted[f] = lost[f]
          /\ f \in doneFile => accepted[f] + queue[f] + One(current = f)
                                 <= Cardinality(Under[f]) + lost[f]
    BY <2>1, <2>2, WorkTypes DEF Ledger, CopiesCounted
  <2>4. \A f \in Files :
          /\ f \notin doneFile => accepted'[f] = lost[f] + One(current = f)
          /\ f \in doneFile => accepted'[f] + queue[f] + 0 <= Cardinality(Under[f]) + lost[f]
    BY <1>3, <2>1, <2>2, <2>3
  <2>5. doneMap = doneFile
    BY <1>1, WorkTypes DEF Ledger, CopiesCounted
  <2>6. QED
    BY <1>1, <2>1, <2>3, <2>4, <2>5 DEF CopiesCounted
<1>5. AttemptsOK'
  <2>1. current \notin doneMap => attempts[current] < MaxAttempts
    BY <1>1, <1>2, WorkTypes DEF Ledger, AttemptsOK
  <2>2. QED
    BY <1>1, <1>2, <1>3, <2>1, WorkTypes, MirrorAssumption DEF Ledger, AttemptsOK
<1>6. fullPass' \in BOOLEAN
  BY <1>1, WorkTypes
<1>7. QED
  BY <1>1, <1>2, <1>3, <1>4, <1>5, <1>6, WorkTypes, WorkFrame DEF Ledger
LEMMA FailedStep ==
  ASSUME IInv, Failed
  PROVE  IInv'
<1>1. /\ pc = "sending" /\ pc' = "upload" /\ current' = NoFile
      /\ attempts' = [attempts EXCEPT ![current] = @ + 1]
      /\ UNCHANGED <<disk, flags, serverVars, cfg, lapsed>>
      /\ fullPass' = fullPass /\ busy' = busy /\ queue' = queue
      /\ stable' = stable /\ enqueued' = enqueued
      /\ doneMap' = doneMap /\ doneFile' = doneFile /\ size' = size
  BY DEF Failed, Recorded, doneVars
<1>2. current \in Files /\ NoFile \notin Files
  BY <1>1, WorkTypes, MirrorAssumption
<1>3. /\ attempts' \in [Files -> Nat]
      /\ \A f \in Files : attempts'[f] = IF f = current THEN attempts[f] + 1 ELSE attempts[f]
  BY <1>1, <1>2, WorkTypes
<1>4. /\ left' \in Bounds /\ accepted' \in [Files -> Nat] /\ lost' \in [Files -> Nat]
      /\ \A f \in Files : \/ accepted'[f] = accepted[f] /\ lost'[f] = lost[f]
                          \/ accepted'[f] = accepted[f] + 1 /\ lost'[f] = lost[f] + 1
  <2>1. CASE UNCHANGED <<accepted, lost, left>>
    BY <2>1, WorkTypes
  <2>2. CASE /\ Spend("losses") /\ accepted' = [accepted EXCEPT ![current] = @ + 1]
             /\ lost' = [lost EXCEPT ![current] = @ + 1]
    <3>1. left' \in Bounds
      BY <2>2, WorkTypes, SpendType
    <3>2. QED
      BY <1>2, <2>2, <3>1, WorkTypes
  <2>3. QED
    BY <2>1, <2>2 DEF Failed
<1>5. /\ waiting' \subseteq Files /\ terminal' \subseteq Files
      /\ \/ terminal' = terminal \cup {current}
         \/ terminal' = terminal /\ AttemptNo(current) < MaxAttempts
  <2>1. CASE terminal' = terminal \cup {current} /\ UNCHANGED waiting
    BY <1>2, <2>1, WorkTypes
  <2>2. CASE IF AttemptNo(current) < MaxAttempts
             THEN waiting' = waiting \cup {current} /\ UNCHANGED terminal
             ELSE terminal' = terminal \cup {current} /\ UNCHANGED waiting
    BY <1>2, <2>2, WorkTypes
  <2>3. QED
    BY <2>1, <2>2 DEF Failed
<1>6. CopiesCounted'
  <2>1. \A f \in Files : /\ One(pc' = "sent" /\ current' = f) = 0
                         /\ One(pc' = "sending" /\ current' = f) = 0
                         /\ One(current' = f) = 0
                         /\ One(pc = "sent" /\ current = f) = 0
                         /\ One(pc = "sending" /\ current = f) \in Nat /\ One(current = f) \in Nat
    BY <1>1, <1>2 DEF One
  <2>2. \A f \in Files : /\ accepted[f] \in Nat /\ lost[f] \in Nat /\ queue[f] \in Nat
                         /\ Cardinality(Under[f]) \in Nat
    BY WorkTypes
  <2>3. doneMap = doneFile
    BY <1>1, WorkTypes DEF Ledger, CopiesCounted
  <2>4. \A f \in Files :
          /\ queue[f] + One(current = f) <= Cardinality(Under[f])
          /\ f \notin doneFile => accepted[f] = lost[f] + One(pc = "sent" /\ current = f)
          /\ f \in doneFile => accepted[f] + queue[f] + One(pc = "sending" /\ current = f)
                                 <= Cardinality(Under[f]) + lost[f]
    BY WorkTypes DEF Ledger, CopiesCounted
  <2>5. \A f \in Files :
          /\ queue[f] + 0 <= Cardinality(Under[f])
          /\ f \notin doneFile => accepted'[f] = lost'[f] + 0
          /\ f \in doneFile => accepted'[f] + queue[f] + 0 <= Cardinality(Under[f]) + lost'[f]
    BY <1>4, <2>1, <2>2, <2>4
  <2>6. QED
    BY <1>1, <2>1, <2>3, <2>5 DEF CopiesCounted
<1>7. AttemptsOK'
  <2>1. \A f \in Files : f \notin doneMap =>
          attempts[f] <= MaxAttempts /\ (f \notin terminal => attempts[f] < MaxAttempts)
    BY <1>1, WorkTypes DEF Ledger, AttemptsOK
  <2>2. current \notin terminal
    BY <1>1, WorkTypes DEF Ledger, AttemptsOK
  <2>3. AttemptNo(current) < MaxAttempts => attempts[current] + 1 < MaxAttempts
    BY <1>2, WorkTypes, MirrorAssumption DEF AttemptNo
  <2>4. current \notin doneMap => attempts[current] + 1 <= MaxAttempts
    BY <1>2, <2>1, <2>2, WorkTypes, MirrorAssumption
  <2>5. \A f \in Files : f \notin doneMap =>
          attempts'[f] <= MaxAttempts /\ (f \notin terminal' => attempts'[f] < MaxAttempts)
    BY <1>3, <1>5, <2>1, <2>3, <2>4
  <2>6. QED
    BY <1>1, <2>5 DEF AttemptsOK
<1>8. fullPass' \in BOOLEAN
  BY <1>1, WorkTypes
<1>9. QED
  BY <1>1, <1>3, <1>4, <1>5, <1>6, <1>7, <1>8, WorkTypes, WorkFrame DEF Ledger

\* The first copy the watcher learns of makes the file known: what is left of it
\* in the queue is all that may still follow.
LEMMA RecordDoneStep ==
  ASSUME IInv, RecordDone
  PROVE  IInv'
<1>1. /\ pc = "sent" /\ pc' = "saveDone" /\ current' = NoFile
      /\ doneFile' = doneFile \cup {current} /\ doneMap' = doneMap \cup {current}
      /\ UNCHANGED <<disk, flags, serverVars, cfg, lapsed>>
      /\ fullPass' = fullPass /\ busy' = busy /\ queue' = queue
      /\ stable' = stable /\ enqueued' = enqueued /\ attempts' = attempts /\ waiting' = waiting
      /\ terminal' = terminal /\ size' = size /\ accepted' = accepted /\ lost' = lost
      /\ left' = left
  BY DEF RecordDone, ledgerVars, fileVars
<1>2. current \in Files /\ NoFile \notin Files
  BY <1>1, WorkTypes, MirrorAssumption
<1>3. CopiesCounted'
  <2>1. \A f \in Files : /\ One(pc' = "sent" /\ current' = f) = 0
                         /\ One(pc' = "sending" /\ current' = f) = 0
                         /\ One(current' = f) = 0
                         /\ One(pc = "sent" /\ current = f) = One(current = f)
                         /\ One(pc = "sending" /\ current = f) = 0 /\ One(current = f) \in Nat
                         /\ f # current => One(current = f) = 0
    BY <1>1, <1>2 DEF One
  <2>2. \A f \in Files : /\ accepted[f] \in Nat /\ lost[f] \in Nat /\ queue[f] \in Nat
                         /\ Cardinality(Under[f]) \in Nat
    BY WorkTypes
  <2>3. doneMap = doneFile
    BY <1>1, WorkTypes DEF Ledger, CopiesCounted
  <2>4. \A f \in Files :
          /\ queue[f] + One(current = f) <= Cardinality(Under[f])
          /\ f \notin doneFile => accepted[f] = lost[f] + One(current = f)
          /\ f \in doneFile => accepted[f] + queue[f] <= Cardinality(Under[f]) + lost[f]
    BY <2>1, <2>2, WorkTypes DEF Ledger, CopiesCounted
  <2>5. \A f \in Files :
          /\ queue[f] + 0 <= Cardinality(Under[f])
          /\ f \notin doneFile' => accepted[f] = lost[f] + 0
          /\ f \in doneFile' => accepted[f] + queue[f] + 0 <= Cardinality(Under[f]) + lost[f]
    BY <1>1, <2>1, <2>2, <2>4
  <2>6. QED
    BY <1>1, <2>1, <2>3, <2>5 DEF CopiesCounted
<1>4. AttemptsOK'
  BY <1>1, WorkTypes DEF Ledger, AttemptsOK
<1>5. fullPass' \in BOOLEAN /\ doneMap' \subseteq Files /\ doneFile' \subseteq Files
  BY <1>1, <1>2, WorkTypes
<1>6. QED
  BY <1>1, <1>3, <1>4, <1>5, WorkTypes, WorkFrame DEF Ledger

LEMMA EndPassStep ==
  ASSUME IInv, EndPass
  PROVE  IInv'
<1>1. /\ pc = "upload" /\ pc' = "sleep" /\ \A f \in Files : queue[f] = 0
      /\ UNCHANGED <<disk, flags, serverVars, cfg, lapsed>>
      /\ fullPass' = fullPass /\ busy' = busy /\ queue' = queue /\ current' = current
      /\ stable' = stable /\ enqueued' = enqueued /\ attempts' = attempts /\ waiting' = waiting
      /\ terminal' = terminal /\ doneMap' = doneMap /\ doneFile' = doneFile /\ size' = size
      /\ accepted' = accepted /\ lost' = lost /\ left' = left
  BY DEF EndPass, scanVars, ledgerVars, doneVars, fileVars
<1>2. CopiesCounted'
  BY <1>1, WorkTypes DEF Ledger, CopiesCounted, One
<1>3. AttemptsOK'
  BY <1>1, WorkTypes DEF Ledger, AttemptsOK
<1>4. fullPass' \in BOOLEAN
  BY <1>1, WorkTypes
<1>5. QED
  BY <1>1, <1>2, <1>3, <1>4, WorkTypes, WorkFrame DEF Ledger

\* Time and the operator's files; and nothing at all.
LEMMA OutsideStep ==
  ASSUME IInv,
         \/ \E f \in Files : Ages(f) \/ BackoffEnds(f) \/ Change(f)
         \/ UNCHANGED vars
  PROVE  IInv'
<1>1. /\ UNCHANGED <<disk, flags, serverVars, cfg, lapsed>>
      /\ pc' = pc /\ fullPass' = fullPass /\ busy' = busy /\ queue' = queue /\ current' = current
      /\ enqueued' = enqueued /\ attempts' = attempts
      /\ terminal' = terminal /\ doneMap' = doneMap /\ doneFile' = doneFile
      /\ accepted' = accepted /\ lost' = lost
  BY DEF Ages, BackoffEnds, Change, vars, serverVars, scanVars, ledgerVars, doneVars, fileVars
<1>2. /\ stable' \in [Files -> [size : 0..MaxSize, aged : BOOLEAN]] /\ waiting' \subseteq Files
      /\ size' \in [Files -> 0..MaxSize] /\ left' \in Bounds
  <2>1. ASSUME NEW f \in Files, Ages(f)
        PROVE  /\ stable' \in [Files -> [size : 0..MaxSize, aged : BOOLEAN]]
               /\ waiting' = waiting /\ size' = size /\ left' = left
    <3>1. stable' = [stable EXCEPT ![f].aged = TRUE]
      BY <2>1 DEF Ages
    <3>2. stable[f] \in [size : 0..MaxSize, aged : BOOLEAN]
      BY WorkTypes
    <3>3. [stable[f] EXCEPT !.aged = TRUE] \in [size : 0..MaxSize, aged : BOOLEAN]
      BY <3>2
    <3>4. QED
      BY <2>1, <3>1, <3>3, WorkTypes DEF Ages, fileVars
  <2>2. ASSUME NEW f \in Files, BackoffEnds(f)
        PROVE  stable' = stable /\ waiting' \subseteq Files /\ size' = size /\ left' = left
    BY <2>2, WorkTypes DEF BackoffEnds, fileVars
  <2>3. ASSUME NEW f \in Files, Change(f)
        PROVE  /\ stable' = stable /\ waiting' = waiting
               /\ size' \in [Files -> 0..MaxSize] /\ left' \in Bounds
    BY <2>3, WorkTypes, SpendType DEF Change, ledgerVars
  <2>4. CASE UNCHANGED vars
    BY <2>4, WorkTypes DEF vars, ledgerVars, fileVars
  <2>5. QED
    BY <2>1, <2>2, <2>3, <2>4, WorkTypes
<1>3. Ledger'
  <2>1. UNCHANGED <<queue, current, attempts, terminal, doneVars, accepted, lost>>
    BY <1>1 DEF doneVars
  <2>2. QED
    BY <1>1, <2>1, WorkTypes, LedgerFrame
<1>4. fullPass' \in BOOLEAN
  BY <1>1, WorkTypes
<1>5. QED
  BY <1>1, <1>2, <1>3, <1>4, WorkTypes, WorkFrame

-----------------------------------------------------------------------------
LEMMA InitIInv == Init => IInv
<1> SUFFICES ASSUME Init
             PROVE  IInv
  OBVIOUS
<1> USE MirrorAssumption
<1>1. /\ left \in Bounds /\ disk = [mirror |-> left.on, host |-> left.on, marker |-> FALSE]
      /\ flags = {} /\ request = Idle /\ cfg = disk /\ pc = "off" /\ fullPass = FALSE /\ busy = {}
      /\ current = NoFile /\ queue = [f \in Files |-> 0] /\ stable = [f \in Files |-> NoEntry]
      /\ enqueued = {} /\ waiting = {} /\ terminal = {} /\ attempts = [f \in Files |-> 0]
      /\ doneMap = {} /\ doneFile = {}
      /\ size = [f \in Files |-> IF f \in left.present THEN 1 ELSE 0]
      /\ accepted = [f \in Files |-> 0] /\ decided = "none" /\ quiet = FALSE /\ lapsed = FALSE
      /\ lost = [f \in Files |-> 0]
  BY DEF Init
<1>2. disk \in Cfgs /\ cfg \in Cfgs /\ (disk.host => disk.mirror)
  <2>1. left.on \in BOOLEAN
    BY <1>1 DEF Bounds
  <2>2. QED
    BY <1>1, <2>1 DEF Cfgs
<1>3. Cardinality(Roots) \in Nat /\ \A f \in Files : Cardinality(Under[f]) \in Nat
  BY RootsFinite, FS_CardinalityType
<1>4. TypeOK
  <2>1. queue \in [Files -> 0..Cardinality(Roots)]
    <3>1. 0 \in 0..Cardinality(Roots)
      BY <1>3
    <3>2. QED
      BY <1>1, <3>1
  <2>2. stable \in [Files -> [size : 0..MaxSize, aged : BOOLEAN]]
    BY <1>1 DEF NoEntry
  <2>3. size \in [Files -> 0..MaxSize]
    BY <1>1
  <2>4. /\ attempts \in [Files -> Nat] /\ accepted \in [Files -> Nat] /\ lost \in [Files -> Nat]
    BY <1>1
  <2>5. QED
    BY <1>1, <1>2, <2>1, <2>2, <2>3, <2>4, IdleType DEF TypeOK
<1>5. CopiesOK
  BY <1>1, <1>2, IdleType DEF CopiesOK
<1>6. OptOutOK
  BY <1>1, <1>2, IdleType DEF OptOutOK, OutStands, Out
<1>7. OptInOK
  BY <1>1 DEF OptInOK
<1>8. CopiesCounted
  BY <1>1, <1>3 DEF CopiesCounted, One
<1>9. AttemptsOK
  BY <1>1 DEF AttemptsOK
<1>10. QED
  BY <1>4, <1>5, <1>6, <1>7, <1>8, <1>9 DEF IInv

LEMMA NextIInv == IInv /\ [Next]_vars => IInv'
<1> SUFFICES ASSUME IInv, [Next]_vars
             PROVE  IInv'
  OBVIOUS
<1>1. CASE Server
  BY <1>1, RouteReadsStep, RouteWritesStep, RouteAnswersStep, FlushRouteStep DEF Server
<1>2. CASE Start \/ Die
  BY <1>2, StartStep, DieStep
<1>3. CASE Watcher
  BY <1>3, StampStep, TakeOptInStep, TakeOptOutStep, TakeFlushStep, SaveStep, FindBusyStep, GateStep,
     AcceptedStep, FailedStep, RecordDoneStep, EndPassStep, WakeStep, TakeStep DEF Watcher
<1>4. CASE (\E f \in Files : Ages(f) \/ BackoffEnds(f) \/ Change(f)) \/ UNCHANGED vars
  BY <1>4, OutsideStep
<1>5. QED
  BY <1>1, <1>2, <1>3, <1>4 DEF Next

\* IInv holds of every state the server and the watcher can reach together.
THEOREM MirrorInvariance == Spec => []IInv
<1>1. Init => IInv
  BY InitIInv
<1>2. IInv /\ [Next]_vars => IInv'
  BY NextIInv
<1>3. QED
  BY <1>1, <1>2, PTL DEF Spec

\* The operator's decision about the mirror prevails, although server and
\* watcher both write config.json back whole: after an answered opt-out nothing
\* outside Downloads is sent once no flag is left, and an opt-in that met a
\* sleeping watcher takes effect.
THEOREM DecisionsPrevail == Spec => []DecisionsApplied
<1>1. IInv => DecisionsApplied
  <2>1. SUFFICES ASSUME IInv
                 PROVE  DecisionsApplied
    OBVIOUS
  <2>2. ASSUME decided = "disable", Settled, ~lapsed
        PROVE  ~cfg.host
    BY <2>1, <2>2, IdleType DEF IInv, Settled, OptOutOK, OutStands, Out
  <2>3. pc = "sending" => AutoPath(current) \/ cfg.host
    BY <2>1 DEF IInv, CopiesOK
  <2>4. ASSUME decided = "enable", Settled, quiet
        PROVE  Enabled(cfg)
    BY <2>1, <2>4, IdleType DEF IInv, Settled, OptInOK
  <2>5. QED
    BY <2>2, <2>3, <2>4 DEF DecisionsApplied, Enabled
<1>2. QED
  BY <1>1, MirrorInvariance, PTL

\* The host holds no more copies of a file than there are roots above it and
\* uploads the watcher could not learn of, and no file that is not known as
\* uploaded has used up more attempts than the policy grants.
THEOREM TriesAreBounded == Spec => []TriesBounded
<1>1. IInv => TriesBounded
  <2>1. SUFFICES ASSUME IInv
                 PROVE  TriesBounded
    OBVIOUS
  <2>2. SUFFICES ASSUME NEW f \in Files
                 PROVE  accepted[f] <= Cardinality(Under[f]) + lost[f]
    BY <2>1 DEF TriesBounded, IInv, AttemptsOK
  <2>3. /\ accepted[f] \in Nat /\ lost[f] \in Nat /\ queue[f] \in Nat
        /\ Cardinality(Under[f]) \in Nat
    BY <2>1, WorkTypes
  <2>4. /\ One(pc = "sent" /\ current = f) <= One(current = f)
        /\ One(pc = "sent" /\ current = f) \in Nat /\ One(current = f) \in Nat
        /\ One(pc = "sending" /\ current = f) \in Nat
    BY DEF One
  <2>5. /\ queue[f] + One(current = f) <= Cardinality(Under[f])
        /\ f \notin doneFile => accepted[f] = lost[f] + One(pc = "sent" /\ current = f)
        /\ f \in doneFile => accepted[f] + queue[f] + One(pc = "sending" /\ current = f)
                               <= Cardinality(Under[f]) + lost[f]
    BY <2>1 DEF IInv, CopiesCounted
  <2>6. QED
    BY <2>3, <2>4, <2>5
<1>2. QED
  BY <1>1, MirrorInvariance, PTL
=============================================================================
