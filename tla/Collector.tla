------------------------------ MODULE Collector ------------------------------
(***************************************************************************)
(* The Collector of operator actions: src/lib/collectorAgent.ts (the        *)
(* persisted row store, the fetch observer, instrumentButton and the         *)
(* "Click now" runner), src/lib/globalClickCapture.ts (one observation       *)
(* window per real click), and the controls of src/pages/Collector.tsx.      *)
(*                                                                         *)
(* Four actors share the page: the runner, which really clicks buttons on    *)
(* the page their host renders, one click at a time; an instrumented        *)
(* handler (AddSiteQuick's save) that probes, acts, probes and records; the   *)
(* operator's own clicks, each with a window that wraps window.fetch and      *)
(* window.open; and a second tab writing the same localStorage key.          *)
(* What a request carries, the verdicts' wording and the DOM signature are   *)
(* left out; background polls, never counted by anybody, are too.            *)
(***************************************************************************)
EXTENDS Naturals, FiniteSetsExt, SequencesExt

CONSTANTS
  Host,          \* [button -> the page that renders it], "any" for a global one
  Instrumented,  \* buttons whose handler runs through instrumentButton
  AllButtons,    \* KNOWN_BUTTONS in order
  Home,          \* the Collector page
  Jobs,          \* runs started from the Collector page
  TapOrder,      \* names of the operator's clicks, in the order they happen
  MaxActions,    \* MAX_ACTIONS: rows kept
  ErrorLimit,    \* IDENTICAL_ERROR_LIMIT
  Scopes         \* bounds of a run: [jobs, batch (buttons in it), taps, clears,
                 \* theirs, reloads, quota, errors (signatures of failed clicks)]


Nobody == "nobody"
Operator == "operator"
NoError == "no error"
Pages == ({Home} \cup {Host[b] : b \in DOMAIN Host}) \ {"any"}
F101 == "f101"                    \* the permanent fetch observer's layer
Popups == "popups"                \* the runner's window.open counter
Taps == Range(TapOrder)
Sigs == UNION {s.errors : s \in Scopes}
Allowances ==
  [jobs : Nat, batch : 0..Len(AllButtons), taps : Nat, clears : Nat, theirs : Nat, reloads : Nat,
   quota : BOOLEAN, errors : SUBSET Sigs]

ASSUME CollectorAssumption ==
  /\ MaxActions \in Nat \ {0} /\ ErrorLimit \in Nat \ {0}
  /\ AllButtons \in Seq(DOMAIN Host) /\ Instrumented \subseteq DOMAIN Host
  /\ Home # "any"
  /\ Scopes \subseteq Allowances

\* The names of the actors differ.
ASSUME CollectorNames ==
  /\ {Nobody, Operator} \cap Jobs = {} /\ Jobs \cap Taps = {} /\ "save" \notin Jobs \cup Taps
  /\ {F101, Popups} \cap Taps = {} /\ Nobody \notin DOMAIN Host

VARIABLES
  left,      \* what the bounds still allow
  route,     \* location.hash
  rows,      \* the store's actions
  minted,    \* row ids used
  persisted, \* the list in localStorage
  err,       \* persistError is shown
  born,      \* row ids used before this page was loaded
  tab,       \* the other tab: its rows, whether it ever wrote, and the
             \* storage events on their way
  job,       \* [Jobs -> a Click now, or a batch]
  chain,     \* clickChain: jobs whose click is queued, the head's is running
  click,     \* [Jobs -> the click in progress]
  cap,       \* activeCapture: the job whose click folds records
  save,      \* the instrumented handler in progress
  flights,   \* requests in flight that somebody waits for
  fetchers,  \* window.fetch: its layers, the outermost last, and whether
             \* the permanent observer was ever installed (observerInstalled)
  openers,   \* layers of window.open
  win        \* [tap -> its observation window]

store == <<rows, minted, persisted, err, born, tab>>
runner == <<job, chain, click, cap>>
collectorVars == <<left, route, store, runner, save, flights, fetchers, openers, win>>

NoClick == [phase |-> "none", origin |-> Home, nested |-> {}, saved |-> <<>>, late |-> FALSE]
NoJob == [st |-> "idle", returns |-> TRUE, todo |-> <<>>, origin |-> Home,
          sig |-> NoError, streak |-> 0, records |-> <<>>, aborted |-> FALSE]
NoSave == [phase |-> "none", by |-> Nobody, button |-> Nobody, late |-> FALSE]
NoWindow == [st |-> "none", row |-> 0]

CollectorInit ==
  /\ left \in Scopes
  /\ route = Home /\ rows = <<>> /\ minted = 0 /\ persisted = <<>> /\ err = FALSE /\ born = 0
  /\ tab = [rows |-> <<>>, wrote |-> FALSE, toUs |-> FALSE, toThem |-> FALSE]
  /\ job = [j \in Jobs |-> NoJob] /\ click = [j \in Jobs |-> NoClick]
  /\ chain = <<>> /\ cap = Nobody /\ save = NoSave /\ flights = {}
  /\ fetchers = [armed |-> FALSE, layers |-> <<>>] /\ openers = <<>> /\ win = [w \in Taps |-> NoWindow]

Spend(what) == left[what] > 0 /\ left' = [left EXCEPT ![what] = @ - 1]

------------------------------------------------------------------------------
(* The store: zustand persist over localStorage.                            *)

LastN(s, n) == SubSeq(s, IF Len(s) > n THEN Len(s) - n + 1 ELSE 1, Len(s))

\* addAction
RowsWith(row) == Append(LastN(rows, MaxActions - 1), row)

\* updateAction: an unknown id changes nothing.
RowsClosed(id) ==
  [i \in DOMAIN rows |-> IF rows[i].id = id THEN [rows[i] EXCEPT !.open = FALSE] ELSE rows[i]]

\* Is a second tab open?
TwoTabs == left.theirs > 0 \/ tab.wrote

Halvings == {2, 4, 8, 16, 32, 64, 128}

\* A write of the list: it fits; it is slimmed and halved until it fits; or
\* it is refused, and the old copy stays.  A list equal to the stored one
\* always fits, and tells no other tab.
Write(list) ==
  /\ \/ persisted' = list
     \/ /\ left.quota /\ list # persisted
        /\ \/ \E parts \in Halvings : persisted' = LastN(list, Len(list) \div parts)
           \/ UNCHANGED persisted
  /\ tab' = [tab EXCEPT !.toThem = @ \/ (TwoTabs /\ persisted' # persisted)]

\* mutant: a failed write is swallowed
PutSilently(list) == rows' = list /\ Write(list) /\ err' = FALSE

\* Every set() of the store writes; only the recorders then copy what the
\* write said into persistError (syncPersistError, whose own set() writes
\* again but never takes the error back in the same step).
Put(list) == rows' = list /\ Write(list) /\ err' = (persisted' # list)
Touch == Write(rows) /\ UNCHANGED <<rows, minted, err, born>>

\* clearActions
Clear ==
  /\ route = Home /\ rows # <<>> /\ Spend("clears")
  /\ Put(<<>>)
  /\ UNCHANGED <<route, minted, born, runner, save, flights, fetchers, openers, win>>

\* Another tab records a row; the storage event re-hydrates this one.
TheyRecord ==
  /\ Spend("theirs")
  /\ minted' = minted + 1
  /\ tab' = [tab EXCEPT !.rows = Append(LastN(@, MaxActions - 1),
                                        [id |-> minted', src |-> "theirs", open |-> FALSE,
                                         button |-> Nobody, late |-> FALSE, nested |-> {}]),
                        !.toUs = TRUE, !.wrote = TRUE]
  /\ persisted' = tab'.rows
  /\ UNCHANGED <<route, rows, err, born, runner, save, flights, fetchers, openers, win>>

TheyRehydrate ==
  /\ tab.toThem
  /\ tab' = [tab EXCEPT !.rows = persisted, !.toThem = FALSE]
  /\ UNCHANGED <<left, route, rows, minted, persisted, err, born, runner, save, flights, fetchers,
                 openers, win>>

Rehydrate ==
  /\ tab.toUs
  /\ rows' = persisted
  /\ tab' = [tab EXCEPT !.toUs = FALSE]
  /\ UNCHANGED <<left, route, minted, persisted, err, born, runner, save, flights, fetchers,
                 openers, win>>

\* logButtonAction: while a clicked button is observed every record is folded
\* into its row, otherwise it becomes a row.
Record(row, clicks) ==
  /\ minted' = row.id /\ UNCHANGED born
  /\ IF cap # Nobody
     THEN /\ click' = [clicks EXCEPT ![cap].nested = @ \cup {row.src}]
          /\ UNCHANGED <<rows, persisted, err, tab>>
     ELSE click' = clicks /\ Put(RowsWith(row))

NewRow(src, button) == [id |-> minted + 1, src |-> src, open |-> src = "global",
                        button |-> button, late |-> FALSE, nested |-> {}]

------------------------------------------------------------------------------
(* The layers of window.fetch and window.open.                              *)

\* installFetchObserver: once per page, over whatever is there.
Observed(chained) ==
  IF chained.armed THEN chained ELSE [armed |-> TRUE, layers |-> Append(chained.layers, F101)]
Wrapped(chained, w) == [chained EXCEPT !.layers = Append(@, w)]

\* mutant: a window puts back what it found, whatever was wrapped since
ReleasedAlways(layers, w) ==
  IF w \in Range(layers) THEN SubSeq(layers, 1, (CHOOSE i \in DOMAIN layers : layers[i] = w) - 1)
  ELSE layers

\* A released window takes its layer off only while it is the outermost.
Released(layers, w) == IF layers # <<>> /\ Last(layers) = w THEN Front(layers) ELSE layers

\* The clicks being observed: a request issued now is one of theirs, one
\* issued before the mark never is.  An ordinary request issued while no
\* click is observed is nobody's, and left out.
Observing == {j \in Jobs : click[j].phase = "observing"}
Flight(who, probe, watchers) == [who |-> who, probe |-> probe, after |-> watchers]
Waited(requests) == {f \in requests : f.after # {} \/ f.who = "save"}

\* closeCapture, when the ten seconds are over
CloseWindow(w) ==
  /\ win[w].st = "open"
  /\ win' = [win EXCEPT ![w].st = "closed"]
  /\ fetchers' = [fetchers EXCEPT !.layers = Released(@, w)] /\ openers' = Released(openers, w)
  /\ Put(RowsClosed(win[w].row))
  /\ UNCHANGED <<left, route, minted, born, runner, save, flights>>

------------------------------------------------------------------------------
(* The instrumented handler: pre-probes, the action's request, post-probes, *)
(* the record.                                                              *)

OnPage(b) == Host[b] \in {route, "any"}

\* The save button is disabled while a save is in progress.
SaveStarted(by, button, watchers) ==
  /\ save.phase = "none" /\ button \in Instrumented /\ OnPage(button)
  /\ save' = [phase |-> "pre", by |-> by, button |-> button, late |-> FALSE]
  /\ flights' = flights \cup {Flight("save", TRUE, watchers)}

SaveAnswered(f) ==
  /\ f \in flights /\ f.who = "save"
  /\ \/ /\ save.phase \in {"pre", "act"}
        /\ save' = [save EXCEPT !.phase = IF @ = "pre" THEN "act" ELSE "post"]
        /\ flights' = (flights \ {f}) \cup {Flight("save", save.phase = "act", Observing)}
        /\ UNCHANGED <<store, click>>
     \/ /\ save.phase = "post"
        /\ save' = NoSave /\ flights' = flights \ {f}
        /\ Record([NewRow(IF save.by = Operator THEN "by hand" ELSE "own", save.button)
                     EXCEPT !.late = save.late], click)
  /\ UNCHANGED <<left, route, job, chain, cap, fetchers, openers, win>>

\* Any other request is answered, or fails.
Answered(f) ==
  /\ f \in flights /\ f.who # "save"
  /\ flights' = flights \ {f}
  /\ UNCHANGED <<left, route, store, runner, save, fetchers, openers, win>>

------------------------------------------------------------------------------
(* The operator on the page.                                                *)

\* A trusted click on a control outside the Collector: the row, the window,
\* then the control's own handler, which may issue a request, save, or move
\* to another page.
Tap(w) ==
  /\ Spend("taps")
  /\ win[w].st = "none"
  /\ \A i, k \in DOMAIN TapOrder : TapOrder[k] = w /\ i < k => win[TapOrder[i]].st # "none"
  /\ Record(NewRow("global", Nobody), click)
  /\ win' = [win EXCEPT ![w] = [st |-> "open", row |-> minted']]
  /\ openers' = Append(openers, w)
  /\ \/ fetchers' = Wrapped(fetchers, w) /\ UNCHANGED <<route, save, flights>>
     \/ /\ fetchers' = Wrapped(fetchers, w)
        /\ flights' = Waited(flights \cup {Flight(w, FALSE, Observing)})
        /\ UNCHANGED <<route, save>>
     \/ /\ \E b \in Instrumented : SaveStarted(Operator, b, Observing)
        /\ fetchers' = Observed(Wrapped(fetchers, w))
        /\ UNCHANGED route
     \/ /\ fetchers' = Wrapped(fetchers, w)
        /\ route' \in Pages \ {route}
        /\ UNCHANGED <<save, flights>>
  /\ UNCHANGED <<job, chain, cap>>

\* Opening the Collector arms the observer.
OpenCollector ==
  /\ fetchers' = Observed(fetchers) /\ fetchers' # fetchers
  /\ route = Home
  /\ UNCHANGED <<left, route, store, runner, save, flights, openers, win>>

------------------------------------------------------------------------------
(* The runner.                                                              *)

\* setRunning(...): the store says which button is being clicked, except
\* while a finished click returns to its page.  Between two queued clicks
\* nothing but the next one runs.
Busy == chain # <<>> /\ click[Head(chain)].phase # "back"

Start(j, todo, returns) ==
  /\ job[j].st = "idle" /\ route = Home /\ Spend("jobs")
  /\ job' = [job EXCEPT ![j] = [NoJob EXCEPT !.st = IF todo = <<>> THEN "home" ELSE "running",
                                             !.todo = todo, !.returns = returns,
                                             !.origin = route]]
  /\ chain' = IF todo = <<>> THEN chain ELSE Append(chain, j)
  /\ IF returns THEN UNCHANGED store ELSE Touch
  /\ UNCHANGED <<route, click, cap, save, flights, fetchers, openers, win>>

ClickNow(j) == ~Busy /\ \E b \in Range(AllButtons) : Start(j, <<b>>, TRUE)
ClickAll(j) == ~Busy /\ Start(j, SubSeq(AllButtons, 1, left.batch), FALSE)

\* Replay is offered whenever the page is mounted anew: the distinct buttons
\* of the recorded rows, in the order they were first clicked.
FirstOf ==
  {i \in DOMAIN rows : /\ rows[i].button \in DOMAIN Host
                       /\ \A k \in 1..(i - 1) : rows[k].button # rows[i].button}
ReplayAll(j) ==
  /\ rows # <<>>
  /\ \E order \in [1..Cardinality(FirstOf) -> FirstOf] :
       /\ \A i, k \in DOMAIN order : i < k => order[i] < order[k]
       /\ Start(j, [i \in DOMAIN order |-> rows[order[i]].button], FALSE)

Button(j) == Head(job[j].todo)

\* runClick: to the button's host page unless it is on screen.
Begin(j) ==
  /\ chain # <<>> /\ j = Head(chain) /\ click[j].phase = "none"
  /\ click' = [click EXCEPT ![j] = [NoClick EXCEPT !.phase = "finding", !.origin = route]]
  /\ route' = IF OnPage(Button(j)) THEN route ELSE Host[Button(j)]
  /\ fetchers' = Observed(fetchers)
  /\ Touch
  /\ UNCHANGED <<left, job, chain, cap, save, flights, openers, win>>

\* After the precondition steps the button is found enabled; or the wait
\* ends with none, or a disabled one.
Found(j) ==
  /\ click[j].phase = "finding"
  /\ \/ /\ OnPage(Button(j)) /\ ~(Button(j) \in Instrumented /\ save.phase # "none")
        /\ click' = [click EXCEPT ![j].phase = "pre"]
     \/ click' = [click EXCEPT ![j].phase = "missing"]
  /\ Touch
  /\ UNCHANGED <<left, route, job, chain, cap, save, flights, fetchers, openers, win>>

\* The real click, after the pre-probes: the mark, the capture, the popup
\* counter over window.open, and the button's handler, if the button is
\* still on the page.
Press(j) ==
  /\ click[j].phase = "pre"
  /\ click' = [click EXCEPT ![j].phase = "observing", ![j].saved = openers]
  /\ cap' = j
  /\ openers' = Append(openers, Popups)
  /\ \/ UNCHANGED <<save, flights>>
     \/ /\ OnPage(Button(j)) /\ Button(j) \notin Instrumented
        /\ flights' = flights \cup {Flight(j, FALSE, Observing \cup {j})}
        /\ UNCHANGED save
     \/ SaveStarted(j, Button(j), Observing \cup {j})
  /\ Touch
  /\ UNCHANGED <<left, route, job, chain, fetchers, win>>

\* What the click sent and is not answered yet.
\* mutant: probes are not waited for
OutstandingApp(j) == {f \in flights : j \in f.after /\ ~f.probe}
Outstanding(j) == {f \in flights : j \in f.after}

\* mutant: no maxWaitMs
EndWhenAnswered(j) ==
  /\ Outstanding(j) = {}
  /\ click[j].phase = "observing"
  /\ click' = [click EXCEPT ![j].phase = "post", ![j].late = Outstanding(j) # {}]
  /\ save' = IF save.by = j /\ Outstanding(j) # {} THEN [save EXCEPT !.late = TRUE] ELSE save
  /\ cap' = Nobody
  /\ openers' = click[j].saved
  /\ flights' = Waited({[f EXCEPT !.after = @ \ {j}] : f \in flights})
  /\ Touch
  /\ UNCHANGED <<left, route, job, chain, fetchers, win>>

\* The observation ends when nothing the click sent is in flight, or at
\* maxWaitMs; the popup counter puts back what it found in window.open.
End(j) ==
  /\ click[j].phase = "observing"
  /\ click' = [click EXCEPT ![j].phase = "post", ![j].late = Outstanding(j) # {}]
  /\ save' = IF save.by = j /\ Outstanding(j) # {} THEN [save EXCEPT !.late = TRUE] ELSE save
  /\ cap' = Nobody
  /\ openers' = click[j].saved
  /\ flights' = Waited({[f EXCEPT !.after = @ \ {j}] : f \in flights})
  /\ Touch
  /\ UNCHANGED <<left, route, job, chain, fetchers, win>>

\* clickAllKnownButtons: the streak of identical errors after one more click
Streak(j, sig) ==
  IF sig = NoError THEN 0 ELSE IF sig = job[j].sig THEN job[j].streak + 1 ELSE 1

\* The click's promise resolves: its job goes on to the next button, behind
\* the clicks queued meanwhile, or ends.
Resolved(j, sig) ==
  LET streak == Streak(j, sig)
      abort == ~job[j].returns /\ streak >= ErrorLimit
      todo == Tail(job[j].todo)
      st == IF job[j].returns THEN "done" ELSE IF abort \/ todo = <<>> THEN "home" ELSE "running"
      records == IF job[j].returns THEN <<>> ELSE Append(job[j].records, sig)
  IN /\ job' = [job EXCEPT ![j] = [job[j] EXCEPT !.st = st, !.todo = todo, !.sig = sig,
                                                 !.streak = streak, !.aborted = abort,
                                                 !.records = records]]
     /\ chain' = Tail(chain) \o (IF st = "running" THEN <<j>> ELSE <<>>)

\* The verdict (only a batch looks at its error) and the row, then the finally
\* block: a Click now goes back to the page it started from.
Log(j) ==
  /\ click[j].phase \in {"missing", "post"}
  /\ \E sig \in (IF job[j].returns THEN {} ELSE left.errors) \cup {NoError} :
       LET row == [NewRow("click", Button(j)) EXCEPT !.late = click[j].late,
                                                     !.nested = click[j].nested]
           back == job[j].returns /\ route # click[j].origin
       IN /\ Record(row, [click EXCEPT ![j] = IF back THEN [@ EXCEPT !.phase = "back"]
                                              ELSE NoClick])
          /\ route' = IF back THEN click[j].origin ELSE route
          /\ IF back THEN UNCHANGED <<job, chain>> ELSE Resolved(j, sig)
  /\ UNCHANGED <<left, cap, save, flights, fetchers, openers, win>>

Back(j) ==
  /\ click[j].phase = "back"
  /\ click' = [click EXCEPT ![j] = NoClick]
  /\ Resolved(j, NoError)
  /\ Touch
  /\ UNCHANGED <<left, route, cap, save, flights, fetchers, openers, win>>

\* A batch goes back to the page it started from, without queueing for it;
\* the click it had made to wait has started by then.
BatchEnds(j) ==
  /\ job[j].st = "home"
  /\ chain # <<>> => click[Head(chain)].phase # "none"
  /\ job' = [job EXCEPT ![j] = [NoJob EXCEPT !.st = "done"]]
  /\ route' = job[j].origin
  /\ Touch
  /\ UNCHANGED <<left, chain, click, cap, save, flights, fetchers, openers, win>>

\* The page is reloaded: only the stored rows survive.
ReloadPage ==
  /\ Spend("reloads")
  /\ rows' = persisted /\ err' = FALSE /\ born' = minted /\ tab' = [tab EXCEPT !.toUs = FALSE]
  /\ job' = [j \in Jobs |-> IF job[j].st = "idle" THEN NoJob ELSE [NoJob EXCEPT !.st = "done"]]
  /\ click' = [j \in Jobs |-> NoClick]
  /\ chain' = <<>> /\ cap' = Nobody /\ save' = NoSave /\ flights' = {}
  /\ fetchers' = [armed |-> FALSE, layers |-> <<>>] /\ openers' = <<>>
  /\ win' = [w \in Taps |-> IF win[w].st = "open" THEN [win[w] EXCEPT !.st = "closed"]
                            ELSE win[w]]
  /\ UNCHANGED <<route, minted, persisted>>

------------------------------------------------------------------------------
RunnerStep(j) == Begin(j) \/ Found(j) \/ Press(j) \/ End(j) \/ Log(j) \/ Back(j) \/ BatchEnds(j)

CollectorNext ==
  \/ \E j \in Jobs : ClickNow(j) \/ ClickAll(j) \/ ReplayAll(j) \/ RunnerStep(j)
  \/ \E f \in flights : SaveAnswered(f) \/ Answered(f)
  \/ \E w \in Taps : Tap(w) \/ CloseWindow(w)
  \/ OpenCollector \/ Clear \/ TheyRecord \/ TheyRehydrate \/ Rehydrate \/ ReloadPage

\* Timers run and probes are aborted after 2.5 s; an ordinary request may
\* stay unanswered for ever, and nobody is obliged to click.
CollectorFairness ==
  /\ \A j \in Jobs : WF_collectorVars(RunnerStep(j))
  /\ \A w \in Taps : WF_collectorVars(CloseWindow(w))
  /\ WF_collectorVars(Rehydrate)

CollectorSpec == CollectorInit /\ [][CollectorNext]_collectorVars /\ CollectorFairness

------------------------------------------------------------------------------
Rows == [id : Nat, src : {"click", "own", "by hand", "global", "theirs"}, open : BOOLEAN,
         button : DOMAIN Host \cup {Nobody}, late : BOOLEAN,
         nested : SUBSET {"click", "own", "by hand", "global"}]

\* The shape of the state: rows never exceed their cap, and at most one
\* click folds records.
CollectorTypeOK ==
  /\ route \in Pages
  /\ \A list \in {rows, persisted, tab.rows} : list \in Seq(Rows) /\ Len(list) <= MaxActions
  /\ \A j \in Jobs :
       /\ job[j].st \in {"idle", "running", "home", "done"}
       /\ click[j].phase \in {"none", "finding", "missing", "pre", "observing", "post", "back"}
       /\ click[j].phase = "observing" <=> cap = j
  /\ cap \in Jobs \cup {Nobody}
  /\ save.phase \in {"none", "pre", "act", "post"}
  /\ \A f \in flights : f.who \in {"save"} \cup Jobs \cup Taps /\ f.after \subseteq Jobs
  /\ Range(fetchers.layers) \subseteq Taps \cup {F101} /\ Range(openers) \subseteq Taps \cup {Popups}

\* Once installed the observer of every request stays in the chain of
\* window.fetch, and the layer of an observation window stays as long as the
\* window is open, in whatever order windows are released around them; the
\* popup counter never outlives the click it counts for.  With it the types.
LayersKept ==
  /\ CollectorTypeOK
  /\ fetchers.armed => F101 \in Range(fetchers.layers)
  /\ \A w \in Taps : win[w].st = "open" => w \in Range(fetchers.layers)
  /\ Popups \in Range(openers) => Observing # {}

\* Clicks and their records: the record of the handler a Click now clicked
\* stands alone only when the observation had timed out; and a batch stops
\* exactly when its last ErrorLimit clicks failed the same way.
ClicksToldApart ==
  /\ \A i \in DOMAIN rows : rows[i].src = "own" => rows[i].late
  /\ \A j \in Jobs :
       ~job[j].returns /\ job[j].records # <<>> =>
         LET last == LastN(job[j].records, ErrorLimit)
         IN job[j].aborted <=> Len(last) = ErrorLimit /\ Cardinality(Range(last)) = 1
                               /\ last[1] # NoError

\* What is on screen is what is stored, or the error says it is not, and
\* both tabs agree once the storage events are delivered; and a row still
\* capturing has its window open, unless an earlier page or the other tab
\* wrote it.
StoreTellsTheTruth ==
  /\ ~tab.toUs /\ ~tab.toThem => (TwoTabs => tab.rows = persisted) /\ (rows = persisted \/ err)
  /\ \A i \in DOMAIN rows :
       rows[i].open => \/ \E w \in Taps : win[w].st = "open" /\ win[w].row = rows[i].id
                       \/ rows[i].id <= born \/ tab.wrote

\* Every run started from the page ends, and every observation window
\* closes, whatever requests stay unanswered.
EverythingEnds ==
  /\ \A j \in Jobs : job[j].st \in {"running", "home"} ~> job[j].st \in {"idle", "done"}
  /\ \A w \in Taps : win[w].st = "open" ~> win[w].st # "open"
------------------------------------------------------------------------------
(* The inductive invariant. *)

Errors == Sigs \cup {NoError}

JobStates ==
  [st : {"idle", "running", "home", "done"}, returns : BOOLEAN, todo : Seq(DOMAIN Host),
   origin : Pages, sig : Errors, streak : Nat, records : Seq(Errors), aborted : BOOLEAN]
ClickStates ==
  [phase : {"none", "finding", "missing", "pre", "observing", "post", "back"}, origin : Pages,
   nested : SUBSET {"click", "own", "by hand", "global"}, saved : Seq(Taps), late : BOOLEAN]
SaveStates ==
  [phase : {"none", "pre", "act", "post"}, by : Jobs \cup {Operator, Nobody},
   button : DOMAIN Host \cup {Nobody}, late : BOOLEAN]
Requests == [who : {"save"} \cup Jobs \cup Taps, probe : BOOLEAN, after : SUBSET Jobs]

\* A batch that goes on is not at the limit yet; the streak is what its
\* records end with.
StreakOK(r) ==
  /\ r.streak <= Len(r.records)
  /\ \A k \in DOMAIN r.records :
       k > Len(r.records) - r.streak => r.records[k] = r.sig /\ r.sig # NoError
  /\ r.streak < Len(r.records) =>
       r.records[Len(r.records) - r.streak] # r.sig \/ r.sig = NoError
  /\ r.sig = IF r.records = <<>> THEN NoError ELSE Last(r.records)
  /\ r.sig # NoError => r.streak > 0
  /\ r.aborted <=> r.streak >= ErrorLimit
  /\ r.aborted => r.st # "running"

\* The click in progress is the first in the chain, where each job is once.
ChainOK ==
  /\ job \in [Jobs -> JobStates] /\ chain \in Seq(Jobs)
  /\ \A i, k \in DOMAIN chain : chain[i] = chain[k] => i = k
  /\ \A i \in DOMAIN chain : job[chain[i]].st = "running" /\ job[chain[i]].todo # <<>>
  /\ \A j \in Jobs : ~job[j].returns => StreakOK(job[j])

ClicksOK ==
  /\ route \in Pages /\ click \in [Jobs -> ClickStates]
  /\ \A j \in Jobs : click[j].phase # "none" => chain # <<>> /\ j = Head(chain)
  /\ cap \in Jobs \cup {Nobody}
  /\ \A j \in Jobs : click[j].phase = "observing" <=> cap = j

\* One request of the handler at a time; while the click that started it has
\* not outwaited it, that click waits for it.
SaveOK ==
  /\ save \in SaveStates /\ flights \subseteq Requests
  /\ save.phase # "none" => save.by # Nobody /\ save.button \in DOMAIN Host
  /\ \A f \in flights : f.who = "save" =>
       /\ save.phase # "none"
       /\ \A g \in flights : g.who = "save" => g = f
       /\ save.by \in Jobs /\ ~save.late => cap = save.by /\ save.by \in f.after
  /\ save.phase # "none" => \E f \in flights : f.who = "save"

LayersOK ==
  /\ fetchers \in [armed : BOOLEAN, layers : Seq(Taps \cup {F101})]
  /\ openers \in Seq(Taps \cup {Popups})
  /\ win \in [Taps -> [st : {"none", "open", "closed"}, row : Nat]]
  /\ fetchers.armed => F101 \in Range(fetchers.layers)
  /\ \A w \in Taps : win[w].st = "open" => w \in Range(fetchers.layers)
  /\ Popups \in Range(openers) => cap # Nobody

\* Rows with a used id, those of a handler that was clicked with the mark of
\* a click that timed out.
Written(n) == {r \in Rows : r.id <= n /\ (r.src = "own" => r.late)}

Capped(list, n) == list \in Seq(Written(n)) /\ Len(list) <= MaxActions

ListsOK ==
  /\ left \in Allowances /\ minted \in Nat /\ born \in Nat /\ err \in BOOLEAN
  /\ tab \in [rows : Seq(Rows), wrote : BOOLEAN, toUs : BOOLEAN, toThem : BOOLEAN]
  /\ Capped(rows, minted) /\ Capped(persisted, minted) /\ Capped(tab.rows, minted)
  /\ tab.toUs => tab.wrote
  /\ ~tab.toThem => (TwoTabs => tab.rows = persisted)
  /\ ~tab.toUs => rows = persisted \/ err

OpenRowsOK ==
  \A i \in DOMAIN rows :
    rows[i].open => \/ \E w \in Taps : win[w].st = "open" /\ win[w].row = rows[i].id
                    \/ rows[i].id <= born \/ tab.wrote

CollectorInv == ChainOK /\ ClicksOK /\ SaveOK /\ LayersOK /\ ListsOK /\ OpenRowsOK
=============================================================================
