---------------------------- MODULE LauncherQueue ----------------------------
(***************************************************************************)
(* Mirror mode: a click on a result opens the link in the dashboard's own  *)
(* browser and queues it for the remote session.  The page (openMirrored,  *)
(* lib/launchUrl.ts) posts a job and gives up after three seconds; the     *)
(* server's one thread writes the job as a file; the launcher service      *)
(* (payloads/ghrdp-rdp-launcher.ps1) lists the files every half second,    *)
(* runs and removes them.  The launcher is a scheduled task that starts    *)
(* when somebody logs on; a watch of the server's sees to it as well.      *)
(*                                                                         *)
(* Left out: the checks of links and folders, which page, route and        *)
(* launcher all make; the modes that open a folder or show a message,      *)
(* which run like links; the text and the size of the log.                 *)
(***************************************************************************)
EXTENDS Naturals, Sequences, FiniteSets

CONSTANTS MaxClicks,  \* bound: clicks on results
          Probe,      \* the job of the server's own test, which opens nothing
          NoClick,
          MaxHits,    \* accepted jobs per minute and token (60 in the code)
          MaxJobs,    \* bound: job files ever created
          Scopes      \* bounds: clicks, logons, deaths of the launcher, restarts of the
                      \* server, calls that fail, tests

Clicks == 1..MaxClicks

Bounds == [clicks : Nat, logons : Nat, deaths : Nat, restarts : Nat, faults : Nat, probes : Nat]

ASSUME LauncherAssumption ==
  /\ MaxClicks \in Nat /\ Probe \notin Clicks /\ NoClick \notin Clicks \cup {Probe}
  /\ MaxHits \in Nat \ {0} /\ MaxJobs \in Nat \ {0}
  /\ Scopes \subseteq Bounds

Jobs == 1..MaxJobs   \* in the order in which their files are created

VARIABLES page,        \* each click: not yet, waiting for the answer, or the toast it got
          backlog,     \* requests the server has not read yet
          serving,     \* what the server's thread is doing
          created,     \* job files created so far
          owner,       \* the click a job belongs to, or the test
          file,        \* job files: none, empty (created or half written), whole
          hits,        \* accepted jobs of the last minute
          launcher,    \* where the launcher is
          todo,        \* the rest of its listing
          got,         \* what it read from the first of them
          beat,        \* the heartbeat file is younger than 30 s
          log,         \* what launcher.log says of a job
          opened,      \* jobs opened in the session, in order
          kept,        \* history: how often a job was opened and its file not removed
          user,        \* somebody is logged on
          recent,      \* the event log holds a logon of the last half hour
          registered,  \* the launcher's task exists
          trigger,     \* the scheduler is about to start it for a logon
          watch,       \* the server's logon watch
          died,        \* history: the launcher died, other than by a logoff, since the logon
          missed,      \* history: the watch's start of the task failed and it stopped
          left         \* what may still happen

pageVars    == <<page, backlog>>
queueVars   == <<created, owner, file>>
serverVars  == <<serving, hits>>
runVars     == <<log, opened, kept>>
serviceVars == <<launcher, todo, got>>
sessionVars == <<user, recent, registered, trigger, watch, died, missed>>
vars == <<pageVars, serverVars, queueVars, serviceVars, beat, runVars, sessionVars, left>>

Idle == [who |-> NoClick, job |-> 0, stage |-> "idle"]

Init ==
  /\ left \in Scopes
  /\ page = [c \in Clicks |-> "no"] /\ backlog = {}
  /\ serving = Idle /\ hits = 0
  /\ created = 0 /\ owner = [j \in Jobs |-> NoClick] /\ file = [j \in Jobs |-> "none"]
  /\ launcher = "off" /\ todo = <<>> /\ got = "none" /\ beat = FALSE
  /\ log = [j \in Jobs |-> {}] /\ opened = <<>> /\ kept = [j \in Jobs |-> 0]
  /\ user = FALSE /\ recent = FALSE /\ trigger = FALSE /\ watch = "off" /\ died = FALSE
  /\ missed = FALSE
  /\ registered \in BOOLEAN

Spend(what) == left[what] > 0 /\ left' = [left EXCEPT ![what] = @ - 1]

(* A call that works, or one of the few that fail. *)
Works(ok) == IF ok THEN UNCHANGED left ELSE Spend("faults")

-----------------------------------------------------------------------------
(* The page.  The local half is one synchronous call before the request.    *)

Click(c) ==
  /\ page[c] = "no" /\ (c > 1 => page[c - 1] # "no") /\ Spend("clicks")
  /\ page' = [page EXCEPT ![c] = "waiting"]
  /\ backlog' = backlog \cup {c}
  /\ UNCHANGED <<serverVars, queueVars, serviceVars, beat, runVars, sessionVars>>

Told(c, toast) == IF page[c] = "waiting" THEN [page EXCEPT ![c] = toast] ELSE page

(* The three seconds are over; the request stays where it is. *)
TimesOut(c) ==
  /\ page[c] = "waiting"
  /\ page' = Told(c, "timeout")
  /\ UNCHANGED <<backlog, serverVars, queueVars, serviceVars, beat, runVars, sessionVars, left>>

(* A request given up may be lost before the server reads it. *)
Drop(c) ==
  /\ c \in backlog /\ page[c] = "timeout"
  /\ backlog' = backlog \ {c}
  /\ UNCHANGED <<page, serverVars, queueVars, serviceVars, beat, runVars, sessionVars, left>>

-----------------------------------------------------------------------------
(* The server's thread: one request at a time, the next one waits.          *)

(* File.WriteAllText creates the file, writes it and closes it.  Meanwhile   *)
(* others may read the file and may not delete it.                          *)
HandleOpen(j) == serving.job = j /\ serving.stage \in {"write", "close"}

CreateFile(who) ==
  /\ created < MaxJobs
  /\ created' = created + 1
  /\ owner' = [owner EXCEPT ![created + 1] = who]
  /\ file' = [file EXCEPT ![created + 1] = "empty"]
  /\ serving' = [who |-> who, job |-> created + 1, stage |-> "write"]

Full(n) == n >= MaxHits

(* POST /api/launcher/queue: too many (429), no folder to write to (503), or *)
(* a file of a name of its own.                                             *)
QueueRoute(c) ==
  /\ serving = Idle /\ c \in backlog
  /\ backlog' = backlog \ {c}
  /\ \/ /\ Full(hits)
        /\ page' = Told(c, "refused")
        /\ UNCHANGED <<serving, queueVars, left>>
     \/ /\ ~Full(hits) /\ Spend("faults")
        /\ page' = Told(c, "refused")
        /\ UNCHANGED <<serving, queueVars>>
     \/ /\ ~Full(hits) /\ CreateFile(c)
        /\ UNCHANGED <<page, left>>
  /\ UNCHANGED <<hits, serviceVars, beat, runVars, sessionVars>>

Writes ==
  /\ serving.stage = "write"
  /\ \E ok \in BOOLEAN :
       /\ Works(ok)
       /\ file' = IF ok THEN [file EXCEPT ![serving.job] =
                                IF @ = "empty" THEN "whole" ELSE @]
                  ELSE file
       /\ serving' = [serving EXCEPT !.stage = IF ok THEN "close" ELSE "refuse"]
  /\ UNCHANGED <<pageVars, hits, created, owner, serviceVars, beat, runVars, sessionVars>>

(* The accepted job takes a slot of the minute; the test takes none. *)
Closes ==
  /\ serving.stage = "close"
  /\ serving' = [serving EXCEPT !.stage = IF serving.who = Probe THEN "look" ELSE "answer"]
  /\ hits' = IF serving.who = Probe THEN hits ELSE hits + 1
  /\ UNCHANGED <<pageVars, queueVars, serviceVars, beat, runVars, sessionVars, left>>

\* mutant: the failed write is not caught, and the answer is the same
AnswerAlways(stage) == "mirrored"

Answer(stage) == IF stage = "answer" THEN "mirrored" ELSE "refused"

Answers ==
  /\ serving.stage \in {"answer", "refuse"}
  /\ page' = IF serving.who = Probe THEN page ELSE Told(serving.who, Answer(serving.stage))
  /\ serving' = Idle
  /\ UNCHANGED <<backlog, hits, queueVars, serviceVars, beat, runVars, sessionVars, left>>

HitExpires ==
  /\ hits > 0 /\ hits' = hits - 1
  /\ UNCHANGED <<pageVars, serving, queueVars, serviceVars, beat, runVars, sessionVars, left>>

(* Get-F91LauncherHealth starts the logon watch, once per server process. *)
StartWatch == watch' = IF watch = "off" THEN "polling" ELSE watch

Health ==
  /\ serving = Idle /\ watch = "off"
  /\ StartWatch
  /\ UNCHANGED <<pageVars, serverVars, queueVars, serviceVars, beat, runVars, user, recent,
                 registered, trigger, died, missed, left>>

(* The self test queues a job that opens nothing, while the heartbeat is     *)
(* young, and looks for up to eight seconds whether its file is gone.       *)
SelfTest ==
  /\ serving = Idle /\ Spend("probes")
  /\ StartWatch
  /\ IF beat THEN CreateFile(Probe) ELSE UNCHANGED <<serving, queueVars>>
  /\ UNCHANGED <<pageVars, hits, serviceVars, beat, runVars, user, recent, registered, trigger,
                 died, missed>>

ProbeEnds ==
  /\ serving.stage = "look"
  /\ file' = [file EXCEPT ![serving.job] = "none"]
  /\ serving' = Idle
  /\ UNCHANGED <<pageVars, hits, created, owner, serviceVars, beat, runVars, sessionVars, left>>

(* A new server process knows no minute and has no watch; the requests of    *)
(* the old one fail.                                                        *)
ServerRestarts ==
  /\ Spend("restarts")
  /\ serving' = Idle /\ hits' = 0 /\ watch' = "off"
  /\ backlog' = {}
  /\ page' = [c \in Clicks |-> Told(c, "timeout")[c]]
  /\ UNCHANGED <<queueVars, serviceVars, beat, runVars, user, recent, registered, trigger,
                 died, missed>>

-----------------------------------------------------------------------------
(* The launcher's loop.                                                     *)

OnDisk == {j \in Jobs : file[j] # "none"}

\* mutant: Get-ChildItem's own order, by the names, which are random
AnyOrder(S) ==
  [n \in 1..Cardinality(S) |-> CHOOSE j \in S : Cardinality({i \in S : i >= j}) = n]

(* Sort-Object CreationTime *)
InOrder(S) ==
  [n \in 1..Cardinality(S) |-> CHOOSE j \in S : Cardinality({i \in S : i <= j}) = n]

(* The half second of sleep outlasts the writing of a file it has met.      *)
Lists ==
  /\ launcher = "list"
  /\ \A j \in Jobs : HandleOpen(j) => log[j] = {}
  /\ todo' = InOrder(OnDisk)
  /\ launcher' = IF OnDisk = {} THEN "beat" ELSE "read"
  /\ UNCHANGED <<pageVars, serverVars, queueVars, got, beat, runVars, sessionVars, left>>

(* A file that is empty, half written or gone gives no job. *)
Reads ==
  /\ launcher = "read"
  /\ got' = IF file[Head(todo)] = "whole" THEN "job" ELSE "nothing"
  /\ launcher' = "run"
  /\ UNCHANGED <<pageVars, serverVars, queueVars, todo, beat, runVars, sessionVars, left>>

Logs(j, what) == log' = [log EXCEPT ![j] = @ \cup {what}]

(* Invoke-F91Job: what is no job is refused, a browser that does not start   *)
(* is an error, and either way the loop goes on to remove the file.         *)
Runs ==
  /\ launcher = "run"
  /\ LET j == Head(todo) IN
       \/ /\ got = "nothing" /\ Logs(j, "refused") /\ UNCHANGED <<opened, left>>
       \/ /\ got = "job" /\ owner[j] = Probe /\ Logs(j, "ok") /\ UNCHANGED <<opened, left>>
       \/ /\ got = "job" /\ owner[j] # Probe
          /\ \E ok \in BOOLEAN :
               /\ Works(ok)
               /\ opened' = IF ok THEN Append(opened, j) ELSE opened
               /\ Logs(j, IF ok THEN "ok" ELSE "err")
  /\ launcher' = "remove"
  /\ UNCHANGED <<pageVars, serverVars, queueVars, todo, got, beat, kept, sessionVars>>

(* Remove-Item fails silently while the server has the file open. *)
Removes ==
  /\ launcher = "remove"
  /\ LET j == Head(todo) IN
       /\ file' = IF HandleOpen(j) THEN file ELSE [file EXCEPT ![j] = "none"]
       /\ kept' = IF HandleOpen(j) /\ got = "job" THEN [kept EXCEPT ![j] = @ + 1] ELSE kept
  /\ todo' = Tail(todo) /\ got' = "none"
  /\ launcher' = IF Len(todo) = 1 THEN "beat" ELSE "read"
  /\ UNCHANGED <<pageVars, serverVars, created, owner, beat, log, opened, sessionVars, left>>

(* The heartbeat, every ten seconds at most, and the sleep. *)
Beats ==
  /\ launcher = "beat"
  /\ beat' = TRUE
  /\ launcher' = "list"
  /\ UNCHANGED <<pageVars, serverVars, queueVars, todo, got, runVars, sessionVars, left>>

BeatAges ==
  /\ beat /\ launcher = "off" /\ beat' = FALSE
  /\ UNCHANGED <<pageVars, serverVars, queueVars, serviceVars, runVars, sessionVars, left>>

LauncherStep == Lists \/ Reads \/ Runs \/ Removes \/ Beats

(* A process that ends runs no finally block. *)
Dies ==
  /\ launcher' = "off" /\ todo' = <<>> /\ got' = "none"
  /\ kept' = IF launcher = "remove" /\ got = "job"
             THEN [kept EXCEPT ![Head(todo)] = @ + 1] ELSE kept

LauncherDies ==
  /\ launcher # "off" /\ Spend("deaths") /\ Dies
  /\ died' = TRUE
  /\ UNCHANGED <<pageVars, serverVars, queueVars, beat, log, opened, user, recent, registered,
                 trigger, watch, missed>>

-----------------------------------------------------------------------------
(* The session, the task scheduler and the logon watch.                     *)

Starts == launcher' = "list" /\ UNCHANGED <<todo, got>>

Logon ==
  /\ ~user /\ Spend("logons")
  /\ user' = TRUE /\ recent' = TRUE /\ trigger' = registered
  /\ died' = FALSE /\ missed' = FALSE
  /\ UNCHANGED <<pageVars, serverVars, queueVars, serviceVars, beat, runVars, registered, watch>>

Logoff ==
  /\ user /\ user' = FALSE /\ trigger' = FALSE /\ Dies
  /\ UNCHANGED <<pageVars, serverVars, queueVars, beat, log, opened, recent, registered, watch,
                 died, missed, left>>

(* The task's trigger; a second instance is not started. *)
TaskStarts ==
  /\ trigger /\ trigger' = FALSE
  /\ IF launcher = "off" THEN Starts ELSE UNCHANGED serviceVars
  /\ UNCHANGED <<pageVars, serverVars, queueVars, beat, runVars, user, recent, registered, watch,
                 died, missed, left>>

(* The scheduler may start a task again that failed. *)
TaskRestarts ==
  /\ died /\ registered /\ user /\ launcher = "off"
  /\ Starts
  /\ UNCHANGED <<pageVars, serverVars, queueVars, beat, runVars, sessionVars, left>>

\* mutant: the watch registers the task and leaves the start to the next logon
NoStart(started) == UNCHANGED serviceVars

(* Start-ScheduledTask or schtasks /Run: neither starts a task that does not *)
(* exist, and when both fail nobody is told.                                *)
StartTask(started) ==
  IF started /\ user /\ registered' /\ launcher = "off" THEN Starts ELSE UNCHANGED serviceVars

(* One poll that finds a logon: register the task if it is missing, start    *)
(* it, note in launcher-autostart.json that it was started and stop.  Both   *)
(* may fail without a word; when the note cannot be written the watch goes  *)
(* on.                                                                      *)
WatchFires ==
  /\ watch = "polling" /\ recent
  /\ \E ok, started, noted \in BOOLEAN :
       /\ Works(ok /\ started /\ noted)
       /\ registered' = (registered \/ ok)
       /\ StartTask(started)
       /\ watch' = IF noted THEN "done" ELSE "polling"
       /\ missed' = (missed \/ (noted /\ ~started))
  /\ UNCHANGED <<pageVars, serverVars, queueVars, beat, runVars, user, recent, trigger, died>>

(* The watch looks every ten seconds: only without it does an event age unseen. *)
EventAges ==
  /\ recent /\ watch # "polling" /\ recent' = FALSE
  /\ UNCHANGED <<pageVars, serverVars, queueVars, serviceVars, beat, runVars, user, registered,
                 trigger, watch, died, missed, left>>

-----------------------------------------------------------------------------
ServerStep == (\E c \in Clicks : QueueRoute(c)) \/ Writes \/ Closes \/ Answers \/ ProbeEnds

Next ==
  \/ \E c \in Clicks : Click(c) \/ TimesOut(c) \/ Drop(c)
  \/ ServerStep \/ HitExpires \/ Health \/ SelfTest \/ ServerRestarts
  \/ LauncherStep \/ BeatAges \/ LauncherDies
  \/ Logon \/ Logoff \/ TaskStarts \/ TaskRestarts \/ WatchFires \/ EventAges

(* Timers run, the server answers what it began, some page asks for the      *)
(* health of the server every minute, the scheduler, the watch and the       *)
(* launcher's loop go on.  Nobody has to click, to log on or to restart.    *)
Fairness ==
  /\ \A c \in Clicks : WF_vars(TimesOut(c))
  /\ WF_vars(Writes \/ Closes \/ Answers \/ ProbeEnds) /\ WF_vars(Health)
  /\ WF_vars(TaskStarts) /\ WF_vars(WatchFires) /\ WF_vars(LauncherStep)

Spec == Init /\ [][Next]_vars /\ Fairness

-----------------------------------------------------------------------------
(* Every variable has its type, and a job has a file only once created. *)
TypeOK ==
  /\ page \in [Clicks -> {"no", "waiting", "mirrored", "refused", "timeout"}]
  /\ backlog \subseteq Clicks
  /\ serving \in [who : Clicks \cup {Probe, NoClick}, job : 0..MaxJobs,
                  stage : {"idle", "write", "close", "answer", "refuse", "look"}]
  /\ hits \in 0..MaxHits
  /\ created \in 0..MaxJobs
  /\ owner \in [Jobs -> Clicks \cup {Probe, NoClick}]
  /\ file \in [Jobs -> {"none", "empty", "whole"}]
  /\ \A j \in Jobs : owner[j] = NoClick <=> j > created
  /\ launcher \in {"off", "list", "read", "run", "remove", "beat"}
  /\ todo \in Seq(Jobs) /\ got \in {"none", "job", "nothing"}
  /\ launcher \in {"read", "run", "remove"} => todo # <<>>
  /\ log \in [Jobs -> SUBSET {"ok", "err", "refused"}]
  /\ opened \in Seq(Jobs) /\ kept \in [Jobs -> Nat]
  /\ watch \in {"off", "polling", "done"}
  /\ beat \in BOOLEAN /\ user \in BOOLEAN /\ recent \in BOOLEAN
  /\ registered \in BOOLEAN /\ trigger \in BOOLEAN
  /\ died \in BOOLEAN /\ missed \in BOOLEAN
  /\ left \in Bounds

(* Where a job stands among those that were opened. *)
Opened(j) == {n \in 1..Len(opened) : opened[n] = j}

LoggedBeforeGone ==
  \A j \in 1..created : file[j] = "none" /\ owner[j] # Probe => log[j] # {}

MirroredIsQueued ==
  \A c \in Clicks : page[c] = "mirrored" =>
    \E j \in 1..created : owner[j] = c /\ (file[j] = "whole" \/ log[j] # {})

RefusedStaysShut ==
  \A j \in 1..created : owner[j] \in Clicks =>
    /\ page[owner[j]] = "refused" => Opened(j) = {}
    /\ "ok" \in log[j] => Opened(j) # {}

(* Deaths, restarts and half-written files notwithstanding, every click is   *)
(* accounted for: a job leaves the queue only with a line in the log, what   *)
(* the page calls mirrored is in the queue whole or in the log, what it      *)
(* calls refused is never opened, and what the log calls ok was opened.     *)
(* With it the types.                                                       *)
ClicksAccountedFor ==
  TypeOK /\ LoggedBeforeGone /\ MirroredIsQueued /\ RefusedStaysShut

(* The session opens links in the order in which the server took them, and   *)
(* none again, unless its file could not be removed or the launcher died     *)
(* before it removed it.                                                    *)
OpenedInOrder ==
  /\ \A m, n \in 1..Len(opened) : m <= n => opened[m] <= opened[n]
  /\ \A j \in Jobs : Cardinality(Opened(j)) <= 1 + kept[j]

(* A logon brings the launcher, unless it died since or the watch gave up or *)
(* came too late, which the watch may do only when the task is missing or    *)
(* its own start of it failed; the launcher empties the queue while it runs; *)
(* and every click gets its toast.                                          *)
NothingWaitsForever ==
  /\ user ~> \/ launcher # "off" \/ ~user \/ died
             \/ (~registered \/ missed) /\ (watch = "done" \/ ~recent)
  /\ \A j \in Jobs : file[j] # "none" ~> (file[j] = "none" \/ launcher = "off")
  /\ \A c \in Clicks : page[c] = "waiting" ~> page[c] # "waiting"

(* What launcher-autostart.json says, by its comment: the watch notes that   *)
(* it started the launcher only when somebody logged on has it. The code     *)
(* does not keep that. (ghrdp-server.ps1:2070-2073, :2113)                  *)
NoteIsTrue ==
  [][watch = "polling" /\ watch' = "done" /\ user => launcher' # "off"]_vars
-----------------------------------------------------------------------------
(***************************************************************************)
(* The inductive invariant.                                                *)
(***************************************************************************)
(* What the server is doing: it serves the job created last, whose file     *)
(* stays while it is open, and whose click has no answer yet.               *)
ServingOK ==
  /\ serving.stage # "idle" =>
       /\ serving.job = created /\ created > 0 /\ owner[created] = serving.who
       /\ serving.who \in Clicks => page[serving.who] # "refused"
  /\ serving.stage \in {"write", "close"} =>
       file[serving.job] # "none" /\ (serving.who # Probe => hits < MaxHits)
  /\ serving.stage = "close" => file[serving.job] = "whole"
  /\ serving.stage = "answer" => file[serving.job] = "whole" \/ log[serving.job] # {}
  /\ serving.stage = "look" => serving.who = Probe

(* A click has one job at most, and none before its request is read.        *)
OwnersOK ==
  /\ \A c \in backlog : page[c] \in {"waiting", "timeout"}
  /\ \A c \in Clicks : c \in backlog \/ page[c] = "no" => \A j \in Jobs : owner[j] # c
  /\ \A i, j \in Jobs : owner[i] = owner[j] /\ owner[i] \in Clicks => i = j

(* The launcher is at job j. *)
Handling(j) == launcher \in {"run", "remove"} /\ Head(todo) = j

(* Job j is not written yet, or never will be. *)
Unwritten(j) ==
  \/ serving.job = j /\ serving.stage \in {"write", "refuse"}
  \/ owner[j] \in Clicks /\ page[owner[j]] = "refused"

UnwrittenOK ==
  \A j \in Jobs : Unwritten(j) =>
    file[j] # "whole" /\ Opened(j) = {} /\ (Handling(j) => got # "job")

(* The listing is in order; what is on disk is listed or newer; and jobs     *)
(* still to come have neither a file nor a line in the log.                  *)
TodoOK ==
  /\ \A m, n \in 1..Len(todo) : m < n => todo[m] < todo[n]
  /\ \A n \in 1..Len(todo) : todo[n] <= created
  /\ \A j \in Jobs : log[j] # {} => j <= created
  /\ \A j \in Jobs : file[j] # "none" => j <= created
  /\ \A j \in Jobs : file[j] # "none" =>
       (\E n \in 1..Len(todo) : todo[n] = j) \/ (\A n \in 1..Len(todo) : todo[n] < j)
  /\ \A j \in Jobs : Handling(j) =>
       /\ got = "job" /\ owner[j] # Probe => file[j] # "none"
       /\ launcher = "remove" => log[j] # {}

(* Nothing on disk is older than what was opened; a job that was opened and  *)
(* is still on disk is being removed, or could not be.                      *)
OpenedOK ==
  /\ \A m, n \in 1..Len(opened) : m <= n => opened[m] <= opened[n]
  /\ \A n \in 1..Len(opened) : opened[n] <= created
  /\ \A n \in 1..Len(opened), j \in Jobs : file[j] # "none" => opened[n] <= j
  /\ \A j \in Jobs :
       Cardinality(Opened(j)) <=
         kept[j] + (IF file[j] = "none" \/ (launcher = "remove" /\ got = "job" /\ Head(todo) = j)
                    THEN 1 ELSE 0)

IInv ==
  /\ TypeOK /\ LoggedBeforeGone /\ MirroredIsQueued /\ RefusedStaysShut
  /\ ServingOK /\ OwnersOK /\ UnwrittenOK /\ TodoOK /\ OpenedOK
=============================================================================
