---------------------------- MODULE MirrorWatcher ----------------------------
(***************************************************************************)
(* The mirror watcher (payloads/ghrdp-watcher.ps1) with the upload policy  *)
(* of ghrdp-mirror.ps1 and the server's routes that steer it.  A process   *)
(* of its own scans folders every ten seconds and sends what it finds to a *)
(* file host.  Files below Downloads go always, the others only after an   *)
(* opt-in, by the dispatch that started the runner or by the dashboard.    *)
(* Server and watcher share config.json, which the watcher reads once and  *)
(* writes back whole, and three flag files.                                *)
(*                                                                         *)
(* Left out: contents, encryption and the lane without it, in which a file *)
(* that has vanished leaves the queue without a verdict; reads that meet a *)
(* half-written config.json; hidden.flag and emergency.flag, which nothing *)
(* in the repository writes; files the filters skip; the link check.       *)
(***************************************************************************)
EXTENDS Naturals, FiniteSets

CONSTANTS Files,        \* files that pass the filters for junk, size and hidden names
          Roots,        \* the folders that are scanned
          AutoRoots,    \* those of the Downloads family
          Under,        \* the roots above a file: roots may be nested
          NoFile,
          MaxSize,      \* bound: sizes of a file
          MaxAttempts,  \* F46MaxAttempts (5 in the code)
          Scopes        \* bounds: the runner starts with the mirror on, files present at first,
                        \* operator's acts, changes of files, deaths, lost answers of the host

Bounds == [on : BOOLEAN, present : SUBSET Files, acts : Nat, changes : Nat, deaths : Nat,
           losses : Nat]

ASSUME MirrorAssumption ==
  /\ AutoRoots \subseteq Roots /\ IsFiniteSet(Roots)
  /\ Under \in [Files -> SUBSET Roots \ {{}}]
  /\ NoFile \notin Files
  /\ MaxSize \in Nat \ {0} /\ MaxAttempts \in Nat \ {0}
  /\ Scopes \subseteq Bounds

VARIABLES disk,      \* config.json: master switch, first host enabled, runtime marker
          flags,     \* flag files
          request,   \* the route the server is executing
          cfg,       \* the watcher's own copy of the configuration
          pc,        \* where the watcher is
          fullPass,  \* this pass ignores the stability gate
          busy,      \* roots with a growing file, as this scan found them
          queue,     \* how often a file stands in this scan's upload queue
          current,   \* the file being sent
          stable,    \* size and age of the last sighting, NoEntry before the first
          enqueued,  \* files that passed the gate
          attempts,  \* attempts recorded for a file
          waiting,   \* files whose backoff window is open
          terminal,  \* files that failed for good
          doneMap,   \* files the watcher knows as uploaded
          doneFile,  \* the same in mirror-done.txt
          size,      \* the files themselves, 0 where there is none
          accepted,  \* copies of a file the host has
          decided,   \* history: what the operator was last answered
          quiet,     \* history: the last decision met a sleeping watcher with the same cfg
          lapsed,    \* history: the watcher died with an opt-out taken and not saved
          lost,      \* history: uploads of a file of which the watcher did not learn
          left       \* what may still happen

fileVars   == <<size, accepted, lost>>
ledgerVars == <<stable, enqueued, attempts, waiting, terminal>>
doneVars   == <<doneMap, doneFile>>
scanVars   == <<fullPass, busy, queue, current>>
serverVars == <<request, decided, quiet>>
vars == <<disk, flags, serverVars, cfg, pc, scanVars, ledgerVars, doneVars, fileVars, lapsed,
          left>>

Cfgs == [mirror : BOOLEAN, host : BOOLEAN, marker : BOOLEAN]
NoEntry == [size |-> 0, aged |-> FALSE]
Idle == [op |-> "none", step |-> "none", cfg |-> [mirror |-> FALSE, host |-> FALSE, marker |-> FALSE]]

(* Test-F51AutoUploadPath: below Downloads. *)
AutoPath(f) == Under[f] \cap AutoRoots # {}

(* Test-F49MirrorEnabled: the master switch and an enabled host. *)
Enabled(c) == c.mirror /\ c.host

Init ==
  /\ left \in Scopes
  /\ disk = [mirror |-> left.on, host |-> left.on, marker |-> FALSE]
  /\ flags = {} /\ request = Idle
  /\ cfg = disk /\ pc = "off"
  /\ fullPass = FALSE /\ busy = {} /\ current = NoFile
  /\ queue = [f \in Files |-> 0]
  /\ stable = [f \in Files |-> NoEntry]
  /\ enqueued = {} /\ waiting = {} /\ terminal = {}
  /\ attempts = [f \in Files |-> 0]
  /\ doneMap = {} /\ doneFile = {}
  /\ size = [f \in Files |-> IF f \in left.present THEN 1 ELSE 0]
  /\ accepted = [f \in Files |-> 0]
  /\ decided = "none" /\ quiet = FALSE /\ lapsed = FALSE
  /\ lost = [f \in Files |-> 0]

Spend(what) == left[what] > 0 /\ left' = [left EXCEPT ![what] = @ - 1]

-----------------------------------------------------------------------------
(* The server's routes.  Each reads config.json, writes it back whole and    *)
(* leaves flags; the watcher may take steps in between.                     *)

(* Set-F49RuntimeOptIn *)
OptIn(c) == [mirror |-> TRUE, host |-> TRUE, marker |-> TRUE]

\* mutant: the master switch alone is turned off
OptOutOfSwitch(c) == [c EXCEPT !.mirror = FALSE]

(* Clear-F49RuntimeOptIn *)
OptOut(c) == [mirror |-> FALSE, host |-> FALSE, marker |-> FALSE]

RouteReads(op) ==
  /\ request = Idle /\ Spend("acts")
  /\ request' = [op |-> op, step |-> "write", cfg |-> disk]
  /\ quiet' = (pc = "sleep" /\ cfg = disk /\ flags \cap {"enable", "disable"} = {})
  /\ UNCHANGED <<disk, flags, decided, cfg, pc, scanVars, ledgerVars, doneVars, fileVars, lapsed>>

RouteWrites ==
  /\ request.step = "write"
  /\ disk' = IF request.op = "enable" THEN OptIn(request.cfg) ELSE OptOut(request.cfg)
  /\ request' = [request EXCEPT !.step = "flag"]
  /\ UNCHANGED <<flags, decided, quiet, cfg, pc, scanVars, ledgerVars, doneVars, fileVars, lapsed,
                 left>>

(* A flag is left only when the route changed something; an opt-in asks for  *)
(* a flush as well.                                                         *)
FlagsOf(r) ==
  IF r.op = "enable"
  THEN {"flush"} \cup (IF Enabled(r.cfg) /\ r.cfg.marker THEN {} ELSE {"enable"})
  ELSE IF Enabled(r.cfg) THEN {"disable"} ELSE {}

RouteAnswers ==
  /\ request.step = "flag"
  /\ flags' = flags \cup FlagsOf(request)
  /\ decided' = request.op
  /\ request' = Idle
  /\ UNCHANGED <<disk, quiet, cfg, pc, scanVars, ledgerVars, doneVars, fileVars, lapsed, left>>

FlushRoute ==
  /\ request = Idle /\ Spend("acts")
  /\ flags' = flags \cup {"flush"}
  /\ UNCHANGED <<disk, serverVars, cfg, pc, scanVars, ledgerVars, doneVars, fileVars, lapsed>>

-----------------------------------------------------------------------------
(* The watcher starts, ends and dies.                                        *)

(* Sightings, records and verdicts are in memory only. *)
ForgetLedger ==
  /\ stable' = [f \in Files |-> NoEntry]
  /\ attempts' = [f \in Files |-> 0]
  /\ enqueued' = {} /\ waiting' = {} /\ terminal' = {}

(* config.json and mirror-done.txt are read. *)
Start ==
  /\ pc = "off" /\ pc' = "started"
  /\ cfg' = disk
  /\ doneMap' = doneFile
  /\ quiet' = (quiet /\ request = Idle)
  /\ UNCHANGED <<disk, flags, request, decided, scanVars, ledgerVars, doneFile, fileVars, lapsed,
                 left>>

(* The first watcher of a runner stamps the session, the address it looked   *)
(* up and a key into the configuration it read; a later one has them.       *)
Stamp ==
  /\ pc = "started" /\ pc' = "top"
  /\ \/ disk' = cfg
     \/ UNCHANGED disk
  /\ UNCHANGED <<flags, serverVars, cfg, scanVars, ledgerVars, doneVars, fileVars, lapsed, left>>

(* The process dies, or reaches its time limit after a pass, and its memory  *)
(* is gone; an upload under way may have reached the host.                  *)
Die ==
  /\ pc # "off" /\ Spend("deaths")
  /\ pc' = "off"
  /\ lapsed' = (lapsed \/ pc = "saveOptOut")
  /\ cfg' = disk /\ fullPass' = FALSE /\ busy' = {} /\ current' = NoFile
  /\ queue' = [f \in Files |-> 0]
  /\ ForgetLedger
  /\ doneMap' = {}
  /\ \/ pc = "sending" /\ accepted' = [accepted EXCEPT ![current] = @ + 1]
                       /\ lost' = [lost EXCEPT ![current] = @ + 1]
     \/ pc = "sent" /\ lost' = [lost EXCEPT ![current] = @ + 1] /\ UNCHANGED accepted
     \/ pc # "sent" /\ UNCHANGED <<accepted, lost>>
  /\ UNCHANGED <<disk, flags, serverVars, doneFile, size>>

-----------------------------------------------------------------------------
(* The flags, at the top of a pass, in this order whatever the order of the  *)
(* clicks.                                                                  *)

(* mirror-enable.flag: the watcher reads config.json again. *)
TakeOptIn ==
  /\ pc = "top"
  /\ IF "enable" \in flags
     THEN flags' = flags \ {"enable"} /\ cfg' = disk /\ pc' = "saveOptIn"
     ELSE pc' = "optOut" /\ UNCHANGED <<flags, cfg>>
  /\ UNCHANGED <<disk, serverVars, scanVars, ledgerVars, doneVars, fileVars, lapsed, left>>

(* mirror-disable.flag: applied to the watcher's own copy. *)
TakeOptOut ==
  /\ pc = "optOut"
  /\ IF "disable" \in flags
     THEN flags' = flags \ {"disable"} /\ cfg' = OptOut(cfg) /\ pc' = "saveOptOut"
     ELSE pc' = "flush" /\ UNCHANGED <<flags, cfg>>
  /\ UNCHANGED <<disk, serverVars, scanVars, ledgerVars, doneVars, fileVars, lapsed, left>>

(* flush.flag: the ledger begins anew, and the master switch goes on. *)
TakeFlush ==
  /\ pc = "flush"
  /\ fullPass' = ("flush" \in flags)
  /\ IF "flush" \in flags
     THEN /\ flags' = flags \ {"flush"}
          /\ ForgetLedger
          /\ cfg' = [cfg EXCEPT !.mirror = TRUE]
          /\ pc' = IF cfg.mirror THEN "scan" ELSE "saveFlush"
     ELSE pc' = "scan" /\ UNCHANGED <<flags, cfg, ledgerVars>>
  /\ UNCHANGED <<disk, serverVars, busy, queue, current, doneVars, fileVars, lapsed, left>>

AfterSave(p) ==
  CASE p = "saveOptIn" -> "optOut" [] p = "saveOptOut" -> "flush"
    [] p = "saveFlush" -> "scan"   [] p = "saveDone" -> "upload"

(* Save-MirrorCfg: the watcher's copy replaces config.json. *)
Save ==
  /\ pc \in {"saveOptIn", "saveOptOut", "saveFlush", "saveDone"}
  /\ disk' = cfg
  /\ pc' = AfterSave(pc)
  /\ UNCHANGED <<flags, serverVars, cfg, scanVars, ledgerVars, doneVars, fileVars, lapsed, left>>

-----------------------------------------------------------------------------
(* The scan: one walk to find growing files, a second to fill the queue.     *)

Exists(f) == size[f] > 0

(* A file whose size is not that of its last recorded sighting. *)
Growing(f) == Exists(f) /\ stable[f] # NoEntry /\ stable[f].size # size[f]

(* A growing file makes its folder and all above it busy, up to the root. *)
FindBusy ==
  /\ pc = "scan" /\ pc' = "gate"
  /\ busy' = {r \in Roots : \E f \in Files : r \in Under[f] /\ Growing(f)}
  /\ UNCHANGED <<disk, flags, serverVars, cfg, fullPass, queue, current, ledgerVars, doneVars,
                 fileVars, lapsed, left>>

\* mutant: what was uploaded is not looked up
CandidatesAgain == {f \in Files : Exists(f) /\ f \notin terminal /\ Under[f] \ busy # {}}

(* Files the second walk looks at under a root that is not busy. *)
Candidates ==
  {f \in Files : Exists(f) /\ f \notin doneMap \cup terminal /\ Under[f] \ busy # {}}

(* The stability gate: two sightings of one size, fifteen seconds apart. *)
Passes(f) ==
  \/ f \in enqueued \/ fullPass
  \/ stable[f].aged /\ stable[f].size = size[f]

(* A file below several roots stands in the queue once for each of them. *)
Gate ==
  LET passed == {f \in Candidates : Passes(f)}
      sighted == {f \in Candidates \ passed : stable[f].size # size[f]}
      sent == {f \in passed : cfg.mirror \/ AutoPath(f)}
  IN /\ pc = "gate"
     /\ enqueued' = enqueued \cup passed
     /\ stable' = [f \in Files |-> IF f \in sighted THEN [size |-> size[f], aged |-> FALSE]
                                   ELSE stable[f]]
     /\ queue' = [f \in Files |-> IF f \in sent THEN Cardinality(Under[f] \ busy) ELSE 0]
     /\ pc' = IF sent = {} THEN "sleep" ELSE "upload"
     /\ fullPass' = FALSE /\ busy' = {}
     /\ UNCHANGED <<disk, flags, serverVars, cfg, current, attempts, waiting, terminal, doneVars,
                    fileVars, lapsed, left>>

-----------------------------------------------------------------------------
(* The upload loop over the queue. *)

(* The file is skipped when it failed for good or its backoff window is      *)
(* open, fails when it has vanished or no host is enabled for it, and is     *)
(* sent otherwise.  Downloads have a host of their own.                     *)
Take(f) ==
  /\ pc = "upload" /\ queue[f] > 0
  /\ queue' = [queue EXCEPT ![f] = @ - 1]
  /\ \/ /\ f \in terminal \cup waiting
        /\ UNCHANGED <<pc, current, attempts, terminal>>
     \/ /\ f \notin terminal \cup waiting
        /\ ~Exists(f)
        /\ terminal' = terminal \cup {f}
        /\ UNCHANGED <<pc, current, attempts>>
     \/ /\ f \notin terminal \cup waiting
        /\ Exists(f) /\ ~AutoPath(f) /\ ~cfg.host
        /\ terminal' = terminal \cup {f}
        /\ attempts' = [attempts EXCEPT ![f] = @ + 1]
        /\ UNCHANGED <<pc, current>>
     \/ /\ f \notin terminal \cup waiting
        /\ Exists(f) /\ (AutoPath(f) \/ cfg.host)
        /\ pc' = "sending" /\ current' = f
        /\ UNCHANGED <<attempts, terminal>>
  /\ UNCHANGED <<disk, flags, serverVars, cfg, fullPass, busy, stable, enqueued, waiting, doneVars,
                 fileVars, lapsed, left>>

\* mutant: a failed attempt leaves no record
RecordedNot(f) == attempts

(* Every answer leaves a record, which is what counts attempts. *)
Recorded(f) == [attempts EXCEPT ![f] = @ + 1]

(* The host took the file and the watcher knows. *)
Accepted ==
  /\ pc = "sending" /\ pc' = "sent"
  /\ accepted' = [accepted EXCEPT ![current] = @ + 1]
  /\ attempts' = Recorded(current)
  /\ UNCHANGED <<disk, flags, serverVars, cfg, scanVars, stable, enqueued, waiting, terminal,
                 doneVars, size, lost, lapsed, left>>

(* The number of the next attempt counts what is recorded, and an absent     *)
(* record counts as one.                                                    *)
AttemptNo(f) == 1 + (IF attempts[f] = 0 THEN 1 ELSE attempts[f])

(* A refusal or a defect is final; a failure of the network or of the host   *)
(* is retried after a delay, MaxAttempts attempts in all.                   *)
Failed ==
  /\ pc = "sending" /\ pc' = "upload" /\ current' = NoFile
  /\ attempts' = Recorded(current)
  /\ \/ /\ terminal' = terminal \cup {current}
        /\ UNCHANGED <<waiting, accepted, lost, left>>
     \/ /\ IF AttemptNo(current) < MaxAttempts
           THEN waiting' = waiting \cup {current} /\ UNCHANGED terminal
           ELSE terminal' = terminal \cup {current} /\ UNCHANGED waiting
        /\ \/ /\ Spend("losses")
              /\ accepted' = [accepted EXCEPT ![current] = @ + 1]
              /\ lost' = [lost EXCEPT ![current] = @ + 1]
           \/ UNCHANGED <<accepted, lost, left>>
  /\ UNCHANGED <<disk, flags, serverVars, cfg, fullPass, busy, queue, stable, enqueued, doneVars,
                 size, lapsed>>

(* The done row is appended; config.json is saved next. *)
RecordDone ==
  /\ pc = "sent" /\ pc' = "saveDone"
  /\ doneFile' = doneFile \cup {current}
  /\ doneMap' = doneMap \cup {current}
  /\ current' = NoFile
  /\ UNCHANGED <<disk, flags, serverVars, cfg, fullPass, busy, queue, ledgerVars, fileVars, lapsed,
                 left>>

EndPass ==
  /\ pc = "upload" /\ pc' = "sleep"
  /\ \A f \in Files : queue[f] = 0
  /\ UNCHANGED <<disk, flags, serverVars, cfg, scanVars, ledgerVars, doneVars, fileVars, lapsed,
                 left>>

Wake ==
  /\ pc = "sleep" /\ pc' = "top"
  /\ quiet' = (quiet /\ request = Idle)
  /\ UNCHANGED <<disk, flags, request, decided, cfg, scanVars, ledgerVars, doneVars, fileVars,
                 lapsed, left>>

-----------------------------------------------------------------------------
(* Time and the operator's files. *)

(* Fifteen seconds have passed since the last recorded sighting. *)
Ages(f) ==
  /\ stable[f] # NoEntry /\ ~stable[f].aged
  /\ stable' = [stable EXCEPT ![f].aged = TRUE]
  /\ UNCHANGED <<disk, flags, serverVars, cfg, pc, scanVars, enqueued, attempts, waiting, terminal,
                 doneVars, fileVars, lapsed, left>>

BackoffEnds(f) ==
  /\ f \in waiting
  /\ waiting' = waiting \ {f}
  /\ UNCHANGED <<disk, flags, serverVars, cfg, pc, scanVars, stable, enqueued, attempts, terminal,
                 doneVars, fileVars, lapsed, left>>

(* A file appears, changes or goes. *)
Change(f) ==
  /\ Spend("changes")
  /\ \E n \in 0..MaxSize : n # size[f] /\ size' = [size EXCEPT ![f] = n]
  /\ UNCHANGED <<disk, flags, serverVars, cfg, pc, scanVars, ledgerVars, doneVars, accepted, lost,
                 lapsed>>

-----------------------------------------------------------------------------
Watcher ==
  \/ Stamp \/ TakeOptIn \/ TakeOptOut \/ TakeFlush \/ Save \/ FindBusy \/ Gate
  \/ Accepted \/ Failed \/ RecordDone \/ EndPass \/ Wake
  \/ \E f \in Files : Take(f)

Server ==
  \/ \E op \in {"enable", "disable"} : RouteReads(op)
  \/ RouteWrites \/ RouteAnswers \/ FlushRoute

Next ==
  \/ Server \/ Start \/ Watcher \/ Die
  \/ \E f \in Files : Ages(f) \/ BackoffEnds(f) \/ Change(f)

(* The watcher goes on while it lives and is started again when it does not  *)
(* (the logon task, the dashboard, the server's supervisor); time passes.    *)
Spec ==
  /\ Init /\ [][Next]_vars
  /\ WF_vars(Watcher) /\ WF_vars(Start)
  /\ \A f \in Files : WF_vars(Ages(f)) /\ WF_vars(BackoffEnds(f))

-----------------------------------------------------------------------------
(* Every variable has its type, and a file is in flight only while sending. *)
TypeOK ==
  /\ disk \in Cfgs /\ cfg \in Cfgs
  /\ flags \subseteq {"enable", "disable", "flush"}
  /\ request \in [op : {"none", "enable", "disable"}, step : {"none", "write", "flag"}, cfg : Cfgs]
  /\ pc \in {"off", "started", "top", "optOut", "flush", "scan", "gate", "upload", "sending",
             "sent", "sleep", "saveOptIn", "saveOptOut", "saveFlush", "saveDone"}
  /\ fullPass \in BOOLEAN /\ quiet \in BOOLEAN /\ lapsed \in BOOLEAN
  /\ busy \subseteq Roots
  /\ queue \in [Files -> 0..Cardinality(Roots)]
  /\ current \in Files \cup {NoFile}
  /\ (current # NoFile) <=> pc \in {"sending", "sent"}
  /\ stable \in [Files -> [size : 0..MaxSize, aged : BOOLEAN]]
  /\ enqueued \subseteq Files /\ waiting \subseteq Files /\ terminal \subseteq Files
  /\ attempts \in [Files -> Nat] /\ accepted \in [Files -> Nat] /\ lost \in [Files -> Nat]
  /\ doneMap \subseteq Files /\ doneFile \subseteq Files
  /\ size \in [Files -> 0..MaxSize]
  /\ decided \in {"none", "enable", "disable"}
  /\ left \in Bounds

(* The operator's last answer has been taken notice of: no route is being    *)
(* executed, and the watcher has run through the flags.                     *)
Settled ==
  request = Idle /\ flags \cap {"enable", "disable"} = {} /\ pc \notin {"off", "started"}

(* An opt-out that was answered holds, although config.json has two writers  *)
(* who never read before they write: once its flag is taken, no file outside *)
(* Downloads is sent (unless the watcher died before it had saved).  An      *)
(* opt-in holds if it met a sleeping watcher whose copy was that of the file. *)
DecisionsApplied ==
  /\ decided = "disable" /\ Settled /\ ~lapsed
       => ~Enabled(cfg) /\ (pc = "sending" => AutoPath(current))
  /\ decided = "enable" /\ Settled /\ quiet => Enabled(cfg)

(* Deaths, lost answers, flushes and changes of the file notwithstanding, a   *)
(* file is stored no more often than it has roots, but for the uploads the   *)
(* watcher could not learn of; and no file is tried more often than the      *)
(* policy says.  With it the types.                                         *)
TriesBounded ==
  /\ TypeOK
  /\ \A f \in Files :
       /\ accepted[f] <= Cardinality(Under[f]) + lost[f]
       /\ f \notin doneMap => attempts[f] <= MaxAttempts

(* A file below Downloads that stays is uploaded or reported as failed, if   *)
(* in the end no file below its roots differs from its recorded sighting.    *)
DownloadsSettle ==
  \A f \in Files : AutoPath(f) =>
    (<>[](Exists(f) /\ \A g \in Files : Under[g] \cap Under[f] # {} => ~Growing(g))
       => <>(f \in doneMap \cup terminal))
-----------------------------------------------------------------------------
(***************************************************************************)
(* The inductive invariant.                                                *)
(***************************************************************************)
(* A route is being executed or not, an enabled host comes with the switch,  *)
(* and the copy that let a file be sent is still the copy.                  *)
CopiesOK ==
  /\ request.op = "none" <=> request.step = "none"
  /\ request.op = "none" => request = Idle
  /\ \A c \in {disk, cfg, request.cfg} : c.host => c.mirror
  /\ pc = "sending" => AutoPath(current) \/ cfg.host

(* The opt-out is still to be taken, or it is in the watcher's copy and in   *)
(* the file, or saved there next.                                           *)
Out == "disable" \in flags \/ (~cfg.host /\ (~disk.host \/ pc = "saveOptOut"))

(* Decided, or found to be so by the route that is to decide it. *)
OutStands ==
  \/ request.op = "disable" /\ ~request.cfg.host
  \/ decided = "disable" /\ ~(request.op = "enable" /\ request.step = "flag")

(* Because a route that finds the mirror off leaves no flag, the watcher's   *)
(* copy must not say it is on.                                              *)
OptOutOK ==
  ~lapsed =>
    /\ request.op # "disable" => disk.host \/ ~cfg.host \/ "disable" \in flags
    /\ OutStands => Out

(* An opt-in that met a sleeping watcher: it sleeps or is dead until the      *)
(* answer, and wakes up to take the flag before it saves.                    *)
OptInOK ==
  /\ quiet /\ request.op = "enable" =>
       /\ pc \in {"sleep", "off"} /\ flags \cap {"enable", "disable"} = {}
       /\ Enabled(request.cfg) => Enabled(cfg) \/ pc = "off"
       /\ request.step = "flag" => Enabled(disk)
  /\ quiet /\ request.op = "none" /\ decided = "enable" =>
       /\ Enabled(disk) /\ "disable" \notin flags
       /\ Enabled(cfg) \/ pc = "off" \/ ("enable" \in flags /\ pc \in {"sleep", "top"})

One(b) == IF b THEN 1 ELSE 0

(* What the host has of a file that is not known as uploaded was lost, but    *)
(* for the copy just sent; one that is known comes from one scan's queue.     *)
CopiesCounted ==
  /\ pc # "off" => doneMap = doneFile
  /\ pc = "off" => doneMap = {}
  /\ pc \notin {"upload", "sending", "sent", "saveDone"} => \A f \in Files : queue[f] = 0
  /\ \A f \in Files :
       /\ queue[f] + One(current = f) <= Cardinality(Under[f])
       /\ f \notin doneFile => accepted[f] = lost[f] + One(pc = "sent" /\ current = f)
       /\ f \in doneFile =>
            accepted[f] + queue[f] + One(pc = "sending" /\ current = f)
              <= Cardinality(Under[f]) + lost[f]

(* A file that is neither known nor given up has an attempt left. *)
AttemptsOK ==
  /\ \A f \in Files : f \notin doneMap =>
       /\ attempts[f] <= MaxAttempts
       /\ f \notin terminal /\ ~(pc = "sent" /\ current = f) => attempts[f] < MaxAttempts
  /\ pc = "off" => \A f \in Files : attempts[f] = 0
  /\ pc = "sending" => current \notin terminal

IInv == TypeOK /\ CopiesOK /\ OptOutOK /\ OptInOK /\ CopiesCounted /\ AttemptsOK
=============================================================================
