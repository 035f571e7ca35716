# Formal models of the GHRDP Mission Control dashboard

The repository turns a GitHub Actions Windows runner into a remote desktop with
a web dashboard in front of it. These TLA+ modules describe the parts of it
whose correctness depends on the order in which things happen: the page's
queues and asynchronous stores, its recorders, its socket to the runner, the
runner's one-threaded server, the desktop stream's goroutines, and the files that
two processes rewrite. TLC checks each
part on small instances; TLAPS proves the main safety results for every size.

Every definition is a translation of code (`PROJECT.json`, `map`, names the
lines). Paths below are relative to the repository, which sits in `src/`.

## Contents

1. [The system](#1-the-system)
2. [How the modules are organised](#2-how-the-modules-are-organised)
3. [The modules, one by one](#3-the-modules-one-by-one)
4. [Runs, bounds and fairness](#4-runs-bounds-and-fairness)
5. [What is proved](#5-what-is-proved)
6. [Where the code and its words disagree](#6-where-the-code-and-its-words-disagree)
7. [What is not modelled](#7-what-is-not-modelled)
8. [Plan](#8-plan)

## 1. The system

Three kinds of process take part.

* **The page** (`src/`, React and TypeScript): one JavaScript thread. Concurrency
  comes from `await`: between a request and its answer the user clicks, timers
  fire and other answers arrive. A reload loses memory but not `localStorage` or
  IndexedDB.
* **The dashboard server** (`payloads/ghrdp-server.ps1`): one PowerShell thread
  that accepts a connection, serves it to the end and goes back to accept.
  Periodic work runs between two connections.
* **Workers on the runner**: the upload worker of the Explorer
  (`payloads/ghrdp-fx.ps1`), the mirror watcher (`ghrdp-watcher.ps1`), the desktop
  stream (`ghrdp-webrtc`, Go), gateways and launchers. They share files with the
  server, mostly without locks.

| Component | State it keeps | Operations | Talks to | What is hard |
|---|---|---|---|---|
| Explorer operation queue (`lib/explorer/queue.ts`) | job list, `running` flag, copy in localStorage | enqueue, run, cancel, retry, clear, progress, reload | transport (HTTP) | re-entrant `run()`, cancel during an await, reload in the middle of a job, storage that throws |
| Federated search session (`stores/searchStore.ts`) | generation, searchId, phase, cursor, rows | submit, poll, cancel, interval | `/api/search` routes, whose searches live in server memory | late and reordered answers, overlapping polls, server restart |
| Live patch channel (`lib/livePatch/`) | armed flag, toggles, audit log, applied ids, IndexedDB log | frame arrives, decide, apply, read log, rollback | WebSocket bridge, feature toggles | two awaits (signature, log), duplicates, reload |
| Polling and WebSocket bridge (`hooks/useDashboardPolling.ts`) | socket handle, `connecting`, attempts, timers, live/dead pill, last ping | connect, handlers, reset, watchdog, reconnect, unmount | server's `/ws` | many callers of connect, half-open sockets, timers that outlive their socket |
| Server accept loop and sessions (`ghrdp-server.ps1`) | backlog, session in progress, age of the logon scan | accept, serve, session loop, scan | everything in the page | one thread: a session blocks all else |
| Explorer upload queue (`ghrdp-fx.ps1`) | queue file, index file, worker's copies | upload route, index routes, worker step, restart | file host | two processes rewriting whole files, crash in a transfer |
| Telemetry and session stores | run identity, phase, progress | set/merge from polls and frames | bridge | stale answers, server frames taken for progress |
| WebRTC desktop stream (Go) | active viewer, restart counter, capture device and the global that points to it, encoder and its channel | new viewer, restart, frame flow, tear down | ffmpeg, DXGI | goroutines around bounded buffers, a device two pipelines want and release through an unprotected global |
| Mirror watcher and policy (`ghrdp-watcher.ps1`, `ghrdp-mirror.ps1`) | its copy of `config.json`, stability records, attempt ledger, done map | scan, stability gate, upload, opt-in, opt-out, flush | host, server (flag files, `config.json`) | two writers of one configuration, crash between answer and record, files that grow |
| Watcher supervision | liveness from a heartbeat file | start ladder | watcher, schtasks | several starters, silent failures |
| Launcher queue (`lib/launchUrl.ts`, `ghrdp-server.ps1`, `ghrdp-rdp-launcher.ps1`) | job files, heartbeat, minute of accepted jobs, logon watch | mirror a click, queue, run and remove a job, self test, start at logon | page, server, launcher, Task Scheduler | files shared without locks, a client that gives up before the one thread answers, death between opening and removing, several starters |
| One-click login (`stores/sessionStore.ts`, ticket routes, `ghrdp-rdp-launcher.cs`) | tickets and beacon chain in the server's memory, two entries in Windows' credential store, note and cards of the page | click, issue, redeem, replace the entry, prompt, start mstsc, beacon, poll | page, server, the operator's PC | single use under timeouts and retries, two launchers on one store, a page that only hears beacons |
| Explorer undo, trash, selection | undo stack, trash list | push, undo, purge | operation queue | undo against operations already sent |
| DVR session recorder (`lib/dvr.ts`, `lib/dvr/`) | event ring, session meta, timeline, screenshots, their copies in IndexedDB | record, take a screenshot, persist, sweep, delete, stop | page, IndexedDB | late database, captures that end out of order, budgets, a page that goes |
| Collector (`lib/collectorAgent.ts`, `lib/globalClickCapture.ts`) | persisted rows, chain of clicks, capture in progress, wrappers of `fetch` and `open` | click now, batch, replay, record, observe, clear | every page, localStorage, other tabs | wrappers released in any order, records of the wrong click, quota |
| DVR export, replay viewer; registry, boundaries, toggles, watchdog | latches in memory | convert, retry | page | re-entry |
| Custom sources, downloads, link opening, launchers, gateways, diagnosis, worker.js, sw.js, provisioning, UI | little or none of their own | – | – | see section 7 |

What makes each of the modelled components correct is stated as properties in
section 3. `PROJECT.json` lists every component with its status, and under
`hazards` the places where the code can go wrong in ways a test would hardly
reach, each with the properties that watch it.

How they meet: the bridge (`WsBridge`) is composed with the server's thread
(`AcceptLoop`), since what the page sees depends on what that thread is busy
with. Frames the bridge receives are the deliveries of `LivePatch`. The search
routes and the upload routes run on the same thread; their modules contain those
routes as steps of their own, because a route is served to its end and only the
order of whole routes matters there. The Explorer page sends its operations
through `OpQueue`, uploads among them, whose server side is `FxUploadQueue`. The
operator's clicks pass through the windows of `Collector`, and each of their rows is
an event of `DvrSession`'s ring. `StreamPipeline` shares nothing with the rest but the
runner's screen. `LauncherQueue` holds its own picture of the server's thread, which has to be busy
writing a file while the launcher reads the directory. `AutoLogin` needs of the server only whole routes, as the
search and upload modules do.

## 2. How the modules are organised

| Module | Role |
|---|---|
| `SerialExecutor` | abstract: one operation of one job at a time, in order; a job is done when all its operations are |
| `OpQueue` | the operation queue, its storage and reloads |
| `PageQueuesProofs` | TLAPS: every safety property of `OpQueue`, and that it implements `SerialExecutor` (the mapping is in `OpQueue`); every safety property of `Collector` |
| `MCOpQueue` | instance for TLC |
| `SearchSession`, `MCSearchSession` | the search store with the server's three routes |
| `PageSessionsProofs` | TLAPS: types of `SearchSession`, and what its page shows of late answers; what `DvrSession` keeps, in memory and stored |
| `LivePatch`, `MCLivePatch` | patches, audit log, rollback |
| `LivePatchProofs` | TLAPS: types, the truth of the audit log, what rollbacks and merges respect |
| `AcceptLoop` | the server's thread |
| `WsBridge`, `MCWsBridge` | EXTENDS `AcceptLoop`: the page's socket against it |
| `FxUploadQueue`, `MCFxUploadQueue` | the upload queue's two writers |
| `FxUploadQueueProofs` | TLAPS: types, the truth of upload claims, and the promises kept while nothing overlaps |
| `StreamPipeline`, `MCStreamPipeline` | the desktop stream: viewers, supervisor, desktop duplication, capture, encoder, sender |
| `RunnerLinkProofs` | TLAPS: types of `WsBridge`, and that its banner is true; types of `StreamPipeline`, that one viewer is watched and who keeps the screen |
| `DvrSession`, `MCDvrSession` | the session recorder over IndexedDB's transactions |
| `Collector`, `MCCollector` | the click runner, the click windows and the persisted rows |
| `MirrorWatcher`, `MCMirrorWatcher` | the mirror watcher against the server's routes that steer it |
| `MirrorWatcherProofs` | TLAPS: decisions prevail, copies and attempts are bounded |
| `AutoLogin`, `MCAutoLogin` | a click that logs the operator's PC on: page, server, launchers, credential store |
| `AutoLoginProofs` | TLAPS: tickets, credentials and what the page says of them |
| `LauncherQueue`, `MCLauncherQueue` | a click mirrored to the session: page, server's thread, job files, launcher, logon watch |
| `LauncherQueueProofs` | TLAPS: clicks are accounted for and opened in order |

Each component module has its constants with a named assumption, one action per
handler, its type invariant (in the newer modules a part of a safety invariant), its safety, action and liveness properties, and, where
something is proved, the inductive invariant `IInv` at its end. Three proof modules speak of
two components each; of those two, one has names of its own for what every module has
(`StreamInit`, `StreamSpec`, `StreamTypeOK`, `StreamInv` in `StreamPipeline`, likewise `Dvr…` in
`DvrSession` and `Collector…` in `Collector`). Operators marked `mutant:`
are wrong variants of the definition that follows them. They are used by no
action; replacing the right definition by one of them must break a property, which
shows that the property depends on that piece of code.

Variables marked as history in a module record what happened for the properties
and never influence a guard, apart from the counters behind the bounds.

## 3. The modules, one by one

### OpQueue – `src/lib/explorer/queue.ts`, `queueStore.ts`

JavaScript runs to the next `await`, so an action is what happens from one event to
the next `await`.

| Code | Model |
|---|---|
| `this.jobs` | `jobs`: job number to status, operations, attempts, progress |
| `this.running` | `running` |
| where an activation of `run()` is suspended | `loop[l]`: idle, between jobs, or waiting for operation `op` of job `id` |
| localStorage | `stored` |
| `enqueue`, `cancel`, `retry`, `clearFinished` | `Enqueue`, `Cancel`, `Retry`, `ClearFinished`; enqueue and retry include the call of `run()` |
| the Refresh command | `Refresh` |
| `run()` up to its first await / after `runJob` returns | `Run` / `NextJob` |
| `runJob()` after an operation's answer | `OpOk`, `OpFailed` |
| progress callback | `Progress` |
| page reload, `rehydrateJobs` | `Reload`, `Rehydrated` |
| `emit()` | `Persist`: the list is stored, or the write throws |

`DrainedByOne`: one activation drains and the flag says so (`OneDrain`), and a queued
job has a drain coming (`NoStrandedJob`). `AckedInOrder`: no operation is sent before its
predecessor was acknowledged (`OpsInOrder`), and a job shown as done was acknowledged in
full (`DoneMeansAcked`). `BoundedAttempts`: runs of a job are limited. `DecisionsAreKept`: only the list
limit takes pending work out (`PendingIsKept`), and a cancel of a job that is not in
flight is final (`IdleCancelSticks`). `PendingSettles`: no job is starved. `ImplementsSerialExecutor`:
the refinement.

Left out: two tabs that share localStorage, a transport that rejects
instead of answering not-ok, and fractions of progress other than 0 and 1.

### SearchSession – `src/stores/searchStore.ts`, `/api/search` of the server

A search is named by the generation that created it. `calls` are the requests in
flight, each sent, then answered by a route or failed, then handled by the code after
the `await`; two may be in flight and are answered in any order. `ServeCreate`,
`ServeStatus` and `ServeCancel` are the routes, `ServerRestart` empties the server's
memory. `Submit`, `SubmitShort`, `Poll` and `Cancel` are the parts of the store's
functions before the await, `CreateReply`, `PollReply`, `CancelReply` the parts
after it, with the generation checks the code has, and without the one it lacks.

`PageIsCurrent`: a late answer never makes an old search current (`SearchIdCurrent`),
what is shown is a prefix of the current search's rows (`RowsInServerOrder`), a finished
search is not blank (`CompleteShowsRows`), and a page that says "searching" has something
to ask about (`LiveIsPolled`). `PageIsTold`: what the
server has settled reaches the page (`PageLearns`), and the cancel button comes back
(`CancelReturns`).

### LivePatch – `src/lib/livePatch/`

A frame arrives (`Arrive`), waits for its signature check, is decided and applied
(`Decide`), and its row is written to IndexedDB later (`Write`). The Settings panel
reads the log once per page (`OpenPanel`, `ReadLog`, `MergeLog`); `Rollback` may wait
for that read and `RollbackReturns` ends the lock of the button. `Arm`,
`OperatorToggle` and `Reload` happen at any time, a reload also between a decision or a
rollback and the write of its row, which is then lost. Reads and writes of IndexedDB may
fail. A signature is valid or not.

Two histories bound what can be promised. `lost` becomes true when the storage fails or a
reload cuts off the marker of a rollback; `early` when a rollback was made while the log
was being read.

`LogTellsTheTruth`: overlapping deliveries of one patch apply it once, until the page is
reloaded or the log is full (`AppliedOnceOnAPage`); unless `lost` or `early`, the rollback
button offers exactly the sections with a patch in view that was not undone
(`PlanIsOutstanding`); and unless `lost`, the log on screen and the stored one agree, up to
the rows under way (`LogsAgree`). `PastIsRespected`: unless `lost`, a rollback leaves the
operator's own switches alone (`RollbackTouchesPatched`), and whatever fails, merging the
stored log into the one on screen loses no row of a view that is not full
(`RowsNeverVanish`).

Left out: `forgetAuditLog` (nothing in the application calls it), two tabs, the
contents of keys.

### AcceptLoop and WsBridge – `ghrdp-server.ps1`, `useDashboardPolling.ts`

The server's thread takes the head of the backlog. An HTTP request is one step; a
socket session occupies the thread until the browser goes, stays silent too long,
or the session reaches its age limit. Time is counted in half minutes
(`HalfMinute`), and the logon scan (`Scan`) is the periodic task that has to wait.
`Break` makes a connection half-open: neither end is told.

The page has `ws`, `connecting`, `attempt`, a retry timer and what the pill shows.
`Starter` is the interval that connects when nothing else does; `TimerFires` the
retry timer; `OnOpen`, `OnMessage`, `OnClose`, `OnError` the handlers;
`TokenChanged`, `NonceWatcher` and `Watchdog` the callers of `resetWs()`; `Unmount`
the cleanup. `Ask` and `Answer` are an HTTP poll that waits for the thread.

`BannerIsTrue`: never two sockets at the server (`OneSocket`), the watchdog does not
kill a socket on which frames arrive (`HealthyNotDropped`), and "disconnected" is true
when shown (`DeadMeansDown`). `NobodyIsStranded`: a lost link comes back (`Recovers`) or
is reported (`LossIsReported`), a half-open socket is noticed (`HalfOpenNoticed`), an
unmounted page leaves no socket (`CleanedUp`), and no request waits for ever behind a
session (`EveryoneServed`).

Left out: what frames carry (the heartbeat that lands in `setProgress` is recorded as
a hazard) and the other polls, each of which overwrites fields of its own.

### FxUploadQueue – `payloads/ghrdp-fx.ps1`

The queue and the index are files that the server's routes and the detached worker
each read whole and write back whole. A request is therefore two steps
(`UploadRouteReads`/`UploadRouteSaves`, `OpRouteReads`/`OpRouteSaves`), a worker's
step three (`StepReads`, `StepSends`, `StepSaves`): the transfer of up to two minutes
lies between its read and its write. A write may fail (`RouteFails`; the fallback of
the atomic write removes the old file first), the worker may die (`WorkerCrash`) and
the server restart (`ServerRestart`, which starts a worker unless it takes the old
one for alive).

`contract` says whether the host contract of `ghrdp-mirror.ps1` resolves in the
worker. As the worker is spawned it does not, and every job fails without a
transfer; both cases are modelled, so that the results do not depend on that defect.

`overlapped` (history) becomes true when a route's request and a worker's step
overlap. `PromisesKept` (`AcceptedKeptAlone`, `TransfersBounded`, `OpsKept`) says what
holds as long as it is false; `UploadedIsReal` and `TypeOK` hold even when it is true;
`JobsSettle` is the liveness side.

Abstracted: an index entry is its host state, whether it is trashed and how often it
was moved; the backoff of a retry is not timed (the first due job is a
nondeterministic choice among the jobs that may be due); an index write that throws
leaves the old index.

### StreamPipeline – `payloads/ghrdp-webrtc/`

| Code | Model |
|---|---|
| `activeCancel`, the viewers' contexts | `active`, `cancelled` |
| `handleWS` up to the peer connection / its state changes / its end | `Connect` / `PeerConnected` / `Leave` |
| `supervisePipeline` | `sup`, `tries`; `Backoff`, `Return` |
| a run of `runCapturePipeline` | `phase[r]`: `Encode`, `Tick`, `GuardTrip`, `LoopSeesDone`, `Write`, `Close` (`enc.close()`), `LeaveRun` |
| desktop duplication, which Windows gives to one owner per process | `device` |
| the global `dxgi`, which no lock protects | `dxgi` |
| `initDXGI`: duplicate the output / store the capturer / log its size | `Duplicate` / `Stores` / `LogsSize` |
| `closeDXGI`: ask for nil / release the duplication / set to nil | `CheckNil` / `Release` / `Clear` |
| the benchmark goroutine, once per process | `bench`; `Benchmark` |
| a nil dereference, after which `run-server.cmd` starts a new process | `Panic` |
| ffmpeg, its input and output pipes | `ff`, `frames` |
| `readLoop` with the access unit it holds back | `held`, `reader`; `Read`, `ReadEof` |
| `outCh` | `chan` |
| the sender goroutine | `sender`; `Send`, `SenderEnds`, `SenderSeesDone` |

A run is named by its viewer and attempt, so pipelines of several viewers and the
remains of earlier attempts exist at once. `took` holds the runs that
deferred `closeDXGI`; the history variable `wiped` those whose capturer the close of another
run set to nil: it releases the duplication (`capture_dxgi_windows.go:301`) before it
clears the global (`:304`), and a new viewer's run can duplicate the desktop and store its capturer in
between. Such a run goes on with GDI, finds nil in its own close (`:295`) and keeps the
duplication until the process ends, so that every later viewer gets GDI; or it reads the
global without asking (`main.go:404`, or inside `captureDXGI`, as the benchmark may too) and takes
the process down. All of that is reachable in the run.

`OneCapture`: besides the types, of all viewers at most one is not cancelled (`OneWatched`), and a run that is over keeps
the duplication in that one case only (`DeviceHeld`). `TornDown`: once a viewer is
cancelled its supervisor ends, and the ffmpeg of its runs too. This is where the ring of
buffers matters: the loop waits for ffmpeg, ffmpeg for
the reader, and the reader must never wait for the sender. `StreamGoesOn`: while a pipeline
streams, frames go out again and again (`FramesFlow`), and a failed pipeline of a viewer
who stays is started again or has been given up (`PipelineBack`).

Read and not checked: what of the capturer a close releases after the duplication (device,
context), which a wipe can leave behind or release for another run; a sender that ended on a write error leaves a loop that drops
frames for ever without a restart; a capture error in mid-stream is skipped each time;
the access unit held back goes out with the next one; the reader's last, blocking send
can outlive its pipeline; `liveEncoder` and `liveMode` may be overwritten by the pipeline
that is leaving; a superseded viewer is not told and keeps sending input. What a frame
holds, input and statistics are left out.

### DvrSession – `src/lib/dvr.ts`, `src/lib/dvr/`

The ring (`ring`, `seq`, `recording`) takes an event (`Push`) and hands it to the
session's recorder, which counts it, appends it to the session's timeline, starts a
screenshot for a click and schedules a write of the meta. `captures` are the
screenshots under way, `Captured` and `CaptureFails` what follows their `await`. `txs` is
the queue of IndexedDB transactions: `Ready` lets those with a store in common
run in the order of their creation, as IndexedDB does, so that a transaction the code
issues in a later callback (`ListShots` then `Delete`) is overtaken by others.
`Opened` is the database's late answer, perhaps after `Uninstall`; `PageHide`, `Hidden`
and `PageGone` are the page's end; `TxFails` any failing transaction with what the code
does then.

`WithinBounds`: no session is charged more than its budget, though captures overlap
(`BudgetKept`), and what the ring still has of a session, its timeline has too
(`TimelineHoldsRing`).
`StoredStays`: the stored meta of a session never goes back (`MetaForward`), and
a stored screenshot goes only by deletion of its session (`ShotsKept`). `Saved`: what
was counted is stored in the end, as long as the recorder runs, the database is open
and nothing fails.

Read and not checked: a session stopped from the debug HUD is never marked as ended
(`DebugHUD.tsx`), so retention keeps it for ever, and its last two seconds of counts are
lost; a database that opens after the stop stays open; `deleteSession` ("Delete a session
AND its shots", `storage.ts:123`) leaves screenshots saved between its two transactions,
and a session still recording is back with its next write; the retry on a full
disk drops the very screenshot it was to save; a deleted screenshot's bytes stay charged;
pausing the ring does not pause the mutation recorder. `persistNow` has no caller but
tests.

### Collector – `src/lib/collectorAgent.ts`, `globalClickCapture.ts`, `src/pages/Collector.tsx`

`Start` is a Click now, a batch or a replay; `chain` the promise chain that lets one
click run at a time; a click goes through `Begin` (to the button's page), `Found`,
`Press` (the real click, after which records are folded), `End` (nothing in flight, or
`maxWaitMs`), `Log` and `Back`. `save` is the one handler instrumented with
`instrumentButton`: a probe, the request, a probe, the record. `Tap` is the operator's own click with
its window of ten seconds (`CloseWindow`), `ReloadPage` a reload, after which only the
stored rows (`persisted`) are left. `fetchers` and `openers` are the layers around
`window.fetch` and `window.open`. `Put` and `Touch` are the store's two kinds of `set()`:
either writes the rows to localStorage (`Write`: kept, halved or refused when the quota
is reached), only the first copies the outcome into `persistError`. The other tab is
external (`TheyRecord`, `TheyRehydrate`, `Rehydrate`).

`LayersKept`: the permanent observer and every open window stay in the chain, in
whatever order the others are released. `ClicksToldApart`: a record of the clicked
handler stands alone only if the observation had timed out, and a batch stops exactly
after its limit of equal errors. `StoreTellsTheTruth`: what is on screen is stored or
the error says so, tabs agree once their events are delivered, and a row is "capturing"
only while its window is open. `EverythingEnds`: a run ends and a window closes even if
requests are never answered.

Read and not checked: the popup counter puts back the `window.open` it found, so a
window opened meanwhile loses its layer; any record that ends while a click is
observed is folded into that click, the operator's own included (the comment at
`collectorAgent.ts:394` speaks of the component's own), and a later update of such a row is
lost; overlapping windows each record the same request; a window released while not
outermost leaves its dead wrapper for the life of the page; a batch navigates home
outside the chain and may move the page under another click; of two tabs that write at
the same time one loses its row, and a closed row can come back as "capturing", as it does
after a reload; `setRunning` writes without looking at the outcome. Background polls,
requests nobody waits for, the 500 ms filter of repeated clicks and the removal of the
capture (tests only) are left out.

### MirrorWatcher – `payloads/ghrdp-watcher.ps1`, `ghrdp-mirror.ps1`, `/api/mirror` and `/flush`

| Code | Model |
|---|---|
| `config.json` / the watcher's `$cfg`: master switch, first host, runtime marker | `disk` / `cfg` |
| `mirror-enable.flag`, `mirror-disable.flag`, `flush.flag` | `flags` |
| a route between its read, its write and its flag | `request`; `RouteReads`, `RouteWrites`, `RouteAnswers` |
| where the watcher is in its loop | `pc`; `Start`, `Stamp`, `TakeOptIn`, `TakeOptOut`, `TakeFlush`, `FindBusy`, `Gate`, `Take`, `Accepted`, `Failed`, `RecordDone`, `EndPass`, `Wake`, and `Save` for each `Save-MirrorCfg` |
| `GhrdpStable`, `$enqueued`, `$mirrorAttempts`, `$mirrorNextAt`, `$mirrorTerminal` | `stable`, `enqueued`, `attempts`, `waiting`, `terminal` |
| `$doneMap` / `mirror-done.txt` | `doneMap` / `doneFile` |
| the watched files, the host | `size`, `accepted` |
| death, time limit | `Die`: all but the files is forgotten |

Roots may be nested: a file has all the roots above it (`Under`), makes all of them
busy when it grows, and stands in the queue once for each. Time is two facts: a
sighting is fifteen seconds old (`Ages`), a delay is over (`BackoffEnds`).

`DecisionsApplied`: an answered opt-out holds once its flag is taken, unless the
watcher died before it saved; an opt-in holds if it met a sleeping watcher. This is
the hazard of the module: neither writer of `config.json` reads before it writes.
`TriesBounded`: over deaths, lost answers, flushes and changes a file is stored no more
often than it has roots, but for the uploads the watcher could not know of, and is
tried no more often than the policy says. `DownloadsSettle`: a download that stays is
uploaded or reported as failed, if in the end none of the files below its roots
differs from its recorded sighting. Without that condition
it does not hold, section 6.

Read and not checked: an opt-in is lost if the watcher saves its old copy between the
route's write and its own reading of the file (the comment at `ghrdp-watcher.ps1:446`
says that "no read-modify-write race" is possible), or if an opt-out's flag still lies
there, which is taken second; clicked again, it may find itself "already enabled" on disk and
leave no flag. A watcher that dies with an opt-out taken and not saved comes back with
what another save left. A flag that cannot be written is not retried, the next click
finds nothing changed. `/flush` without an opt-in turns the master switch on with
no host, so that files outside Downloads fail for good. The watcher takes over neither
`encryptMode` nor the key from the disk when it takes an opt-in. A file under two roots is sent twice,
though "ONE attempt per scan" is promised (`MIRROR-HOSTS.md:54`). The first attempt is
numbered 2, since `@($null)` counts one. `TriesBounded` counts all this in.

Left out: encryption, and with it the lane without encryption, in which a vanished file leaves
the queue without a verdict; reads that meet a half-written `config.json`; the filters
for junk, size and hidden names (`Files` are those that pass); the link check; the rows
of progress; `hidden.flag` and `emergency.flag`, which nothing in the repository writes.

### LauncherQueue – `lib/launchUrl.ts`, the queue route, `ghrdp-rdp-launcher.ps1`

| Code | Model |
|---|---|
| `openMirrored` / its 3 s limit / its toast | `Click` / `TimesOut` / `Told` |
| requests the one thread has not read | `backlog`; `Drop` loses one its page has given up |
| `POST /api/launcher/queue` | `QueueRoute` (refuses or creates the file), `Writes`, `Closes`, `Answers` |
| `File.WriteAllText` | `file[j]`: none, empty, whole; `HandleOpen`: still open, so readable and not removable |
| `$script:F91QueueRate` | `hits`, `Full`, `HitExpires` |
| the self test's NOOP job | `SelfTest`, `ProbeEnds` |
| the launcher's loop | `launcher`, `todo`, `got`; `Lists`, `Reads`, `Runs`, `Removes`, `Beats` |
| `launcher.log`, browsers started | `log`, `opened` |
| logon watch | `watch`; `Health` starts it, `WatchFires` with `StartTask`; `missed` notes that it stopped after a start that failed |
| session and Task Scheduler (external) | `Logon`, `Logoff`, `TaskStarts`, `TaskRestarts`, `LauncherDies` |

Jobs are numbered in the order of their files. `kept` counts how often a job was opened
and its file could not be removed; `died` remembers a death since the logon.

`ClicksAccountedFor`: a job leaves the queue only with a line in the log; what the page
calls mirrored is in the queue whole or in the log; what it calls refused is never
opened; what the log calls ok was opened. `OpenedInOrder`: links open in the order in which the
server took them, and twice only where removing the file failed or the launcher died before it.
`NothingWaitsForever`: a logon brings the launcher, a launcher that runs empties the queue,
and every click gets its toast. A logged-on user stays without a launcher only if it died,
or if the watch has given up while the task is not registered or could not be started, or if the
logon was too old when the watch began. `NoteIsTrue` is what the comment over the watch says of
its note; it is false (section 6).

Read and not checked: "Mirrored to RDP ✓" only says that the job was queued; a job read
while its file is still empty is removed with a REFUSED line, although the page is
answered 200 a moment later; a click that was told "queue-timeout" may open in the session
when the server comes round to it; `Test-F91QueueJob` refuses an empty
link before the line that would allow one for a download (`ghrdp-server.ps1:2036`, `:2044`). The
fence on links and folders, the modes that open a folder or show a message, and the size of the log are
left out.

### AutoLogin – `stores/sessionStore.ts`, the ticket and beacon routes, `ghrdp-rdp-launcher.cs`

| Code | Model |
|---|---|
| `fireAutoLogin`, `fireFixReconnect` around the await of the ticket | `Click`, then `TicketRefused`, `DispatchAuto`, `DispatchFix` |
| `fireRunCheck`; a link without a ticket | `OpenLink` |
| `/api/rdp-token`, `Use-RdpTicket`, `/api/rdp-creds` | `IssueTicket`, `UseRdpTicket`, `RdpCreds`; `TicketAges` |
| `/api/handler-hello`: last beacon and chain | `srv.last`, `srv.card`, `srv.started`; `HandlerHello` |
| poll of the native status | `NativeStatus`, `SetNativeStatus`, `PollFails` |
| `Main`, `DoWork`, `RecredStep` | `Main`, `DoWork`, `Redeem`, `Fallback`, `Retry`, `Decide` |
| `RedeemAndStoreStep` | `Redeem` up to the request, `RedeemTimesOut` or the answer in `RdpCreds`, `PurgeStaleTermsvr`, `CredWrite` |
| `CmdkeyStep`, `HasCredEntry` | `Prompt`, `Verify`, `Missing` |
| `MstscStep` | `Mstsc` |
| TERMSRV entries of the host, domain and generic | `store` |
| the logon (external) | `Logon` |

One process runs per link, so launches overlap, and both use one credential store.
A request waits in `inbox` until the server reads it, perhaps after the launcher has
given it up; an answer may be lost. Time is a choice: a ticket gets older than a minute, a
beacon is or is not within the ten seconds the page allows before a click.

`TicketsPayOnce`: whatever times out, is retried or comes late, the credential is handed out
at most once per click, and a launcher writes only what was handed out for its click.
`CredentialsAreReal`: no silent start of mstsc without an entry, and after a redemption the
store holds this run's password and no older one beside it, even if deletions failed
(unless another launcher has purged in between). `PageTellsTheTruth`: "launcher beacon received" and
"credential stored" rest on launchers that ran, and the card is exact while no beacon is
lost, the server lives and launches do not overlap. `EndsInSight`: an invoked launcher reaches
mstsc or a box on the screen, a beacon that counts reaches the note, a refused password
reaches the offer to fix it.

Read and not checked: a retry after a lost answer cannot succeed, since the ticket is consumed
before the answer (`ghrdp-server.ps1:839`), so it helps only where the first request did not
arrive. A password typed in the prompt never makes the card say "credential stored", and a RUN CHECK
after a good launch takes it back, as its "invoked" begins a new attempt. The watch for beacons is never disarmed: the note of a later,
refused click is overwritten by "launcher beacon received" at the next poll. "every exit path
below writes a visible reason" (`sessionStore.ts:189`) holds of `fireAutoLogin` only; `fireFixReconnect` returns
in silence. Two further differences are in section 6.

Left out: argument and address checks, the binding of a ticket to a PC, beacons that change nothing
here (`rdp-written`, `purged`), a beacon that arrives after the five seconds it is waited for,
the telescope, the contents and deletion of the `.rdp` file, the other checks of the dispatch card.
`Logon` comes after the beacon of its launch; in the code it may come up to two seconds before.

## 4. Runs, bounds and fairness

| Run | Instance | What it shows |
|---|---|---|
| `queue` | 2 activations, 3 jobs of up to 2 operations, limit 2, 2 attempts, 1 retry, 1 reload; 326,559 states | all properties of `OpQueue`, and that it implements `SerialExecutor` |
| `search` | 2 generations, 2 requests in flight, pages of 1 row, 2 rows, 1 server restart; about 99,000 states | all properties of `SearchSession` |
| `patch` | 3 patches for 2 sections, a log of 3 rows, 2 deliveries, 2 rollbacks, 1 operator's switch, 1 reload, storage that may fail; 1,807,104 states, about a minute | all properties of `LivePatch` |
| `bridge` | 2 socket names, idle limit 1 and life 2 half minutes, ladder of 1, 1 fault, 1 reset; 115,662 states | all properties of `WsBridge` |
| `fx_uploads` | 2 files, 2 jobs, 2 attempts, 1 index operation, 1 fault; 509,624 states | all properties of `FxUploadQueue` |
| `fx_lost_job` | the same without index operations and faults | counterexample |
| `stream` | 2 viewers without faults, or 1 viewer with 2 faults; 2 attempts, a channel of 2, pipes of 1, 2 frames inside ffmpeg; 128,305 states, two to three minutes | all properties of `StreamPipeline` |
| `dvr` | 1 or 2 sessions, up to 3 events, 2 acts of the operator, 1 failure; a budget of 3 with screenshots of 1 and 2, ring and timeline of 2, 1 screenshot kept, 3 transactions under way; 119,205 states | all properties of `DvrSession` |
| `collector` | seven mixes of 2 jobs, batches of up to 3 of the 3 buttons, 3 clicks of the operator, a clear, 2 rows of another tab, a reload, a full disk, 2 kinds of error; 3 rows, abort after 2 errors; about 42,000 states | all properties of `Collector` |
| `mirror` | decisions about a file on the desktop, and the life of downloads, one of them below two roots, in ten mixes of 3 acts of the operator, 2 changes, 1 death, 1 lost answer; 3 attempts; 574,634 states | all properties of `MirrorWatcher` |
| `launcher` | 2 clicks; or 1 click with a self test, with 2 logons and a failed call, or with a death of the launcher and a restart of the server; 2 job files, 1 accepted job per minute; about 195,000 states | all properties of `LauncherQueue` |
| `autologin` | 2 launches in four mixes of auto-login, fix, check and link, with a lost beacon, an aged ticket or a restart of the server, over a store that is empty or holds a stale entry of either kind; 205,002 states | all properties of `AutoLogin` |

Why the bounds are enough for what is asked:

* *Queue.* A third job overflows a list of two while another job is in flight; a
  second operation is needed for order and for a cancel between two operations; two
  attempts separate the first failure from the last; one retry and one reload show
  every way to get another run. Two activations are what a missing guard would need.
  The run has storage that works, because `PendingIsKept` asks for it; that a job
  shown as done was acknowledged although writes fail and a reload brings back a list of
  any age is part of the theorem `Ordering`.
* *Search.* Two generations make answers stale, two requests make them reorder, two
  pages of one row make a cursor that can be applied twice.
* *Patches.* Two patches of one section are the least with which a plan can be
  wrong, the third belongs to another section. Two deliveries and two rollbacks overflow a
  log of three, which still holds two patches and the marker after them. One reload brings
  the log back, at any point of a delivery, a write or a rollback.
* *Bridge.* A page holds one socket and can leave one behind; two names are
  reused. The ladder and the half minutes are shortened, with the order
  idle limit < life kept. `MaxScanAge` caps a counter.
* *Uploads.* Two jobs let one overtake the other, two attempts separate a retry
  from a failure, one fault is what each "alone" property forbids or allows for.
* *Stream.* Two viewers are a takeover, and enough for a close that clears the capturer of the
  other; the restart of one viewer's own pipeline cannot meet its close. A channel of two is refused room at one, so it can be both short of room and
  full. With fewer than two frames inside ffmpeg a reader that waits would do no harm.
  Two attempts are a restart and a giving up. Takeovers and faults are explored in
  separate scopes of one run.
* *Recorder.* Two screenshots overlap in a budget that holds either but not both of the
  larger; two sessions are an old one to sweep or delete beside a live one. The scopes of
  the run trade events, acts and failures against one another.
* *Collector.* Two jobs share the chain, three windows can be released in every order,
  three equal errors exceed a limit of two, and a fourth row overflows a list of three.

* *Mirror.* Two acts are a decision and its opposite, a third repeats one. Two changes
  let a file grow twice or go and come back, one death and one lost answer are what
  the bounds on copies allow for, three attempts separate the first from the last (with two
  there is no retry, as the first is numbered 2). The scopes trade acts, changes, deaths and losses
  against one another.
* *Launcher.* Two clicks have an order and exceed a limit of one per minute; a file that
  is met empty, or met whole and open, needs one. A second logon meets a watch that has stopped.

* *Login.* Two launches are what a race for the store, a stale beacon and a card of the wrong attempt
  need; each launch retries at most once by itself. A stale generic entry is what a purge has to find, one aged ticket
  and one restart make a fresh ticket invalid in both ways. The scopes trade faults against kinds of launch.

`CHECK_DEADLOCK FALSE` appears where the system may stop: when all upload jobs are made and
the worker is dead, when the last viewer has left the stream, when the bounds on events of the
recorder, on clicks of the Collector, on clicks and logons of the launcher or on launches of the login are used up.

Fairness, always the weakest that the code gives a reason for:

* `OpQueue`: weak fairness of each drain. A microtask runs, and the transport answers
  or times out. Nothing says that a user retries or that a reload is followed by
  a call of `run()`.
* `SearchSession`: a request in flight is answered or fails, an answer in hand is
  handled (weak); the interval's poll is strongly fair, because a request in
  flight blocks `pollOnce` on and off while the interval fires for ever.
* `WsBridge`: the page's intervals run and time passes for them, the browser
  delivers a socket's end or opening, the server's thread goes on. A stopped server
  need not come back, a retry timer need not beat the starter, and no frame need be
  sent. `HalfMinute` waits for a 101 answer that is on its way (`Delivered`): a
  handshake takes less than half a minute.
* `FxUploadQueue`: weak fairness of the worker's step, for as long as the worker
  lives: it loops every five seconds. Nothing says that a dead worker is
  started again.
* `StreamPipeline`: goroutines that can go on do, and the screen changes again and again.
  Viewers, crashes, guard trips, write errors and the benchmark's steps are not promised.
* `DvrSession`: the timer of a scheduled write fires and the database answers; events,
  the operator, failures and the end of a capture are not promised.
* `Collector`: the runner's steps are driven by timers (waits have deadlines, probes are
  aborted after 2.5 s), a window closes by its timer, a storage event is delivered. An
  ordinary request may stay unanswered for ever.
* `MirrorWatcher`: the watcher goes on while it lives, and a dead one is started again (the
  logon task, the dashboard, the server's supervisor); time passes. The operator, changes
  of files and deaths are not promised, nor that the host ever accepts.
* `LauncherQueue`: the 3 s timer fires, the server finishes what it began, some page asks
  for the launcher's health (`F92VersionGate.tsx` runs the self test once a minute), the scheduler acts
  on a logon, the watch polls, the launcher's loop goes on while it lives. Clicks, logons,
  restarts after a failure, and that the server gets to a new request, are not promised.
* `AutoLogin`: a fetch ends, one way or the other; the page polls again and again and some
  answers arrive (strong, as single polls fail); the waits of a launcher have limits (8 s for
  the redemption, 5 s for a beacon, 180 s for the prompt). Clicks, a registered protocol,
  what the operator types, closing of boxes and the answer to a redemption are not promised.
* `LivePatch` has no liveness property: no handler waits for another.

## 5. What is proved

Proofs hold for every value of the constants under the named assumption of the module
(natural or positive bounds, finite sets of files and roots, at least one activation, names
of actors that differ). Those assumptions are checked by TLC in each run. Every theorem
`Spec => []P` follows from an inductive invariant (`IInv`, `StreamInv`, `DvrInv`,
`CollectorInv`) that the component's module states: the initial states satisfy it, every step
keeps it, and it implies `P`. Hardly one of the properties is inductive alone; what each needs
besides is the content of the proof.

| Module | Theorems | States for every size |
|---|---|---|
| `PageQueuesProofs` | `TypeCorrect`, `MutualExclusion`, `Ordering`, `AttemptsBounded`, `DecisionsKept`, `Refinement` | all properties of `OpQueue` but the liveness one |
| | `LayersStay`, `ToldApart`, `TruthTold` | `LayersKept`, `ClicksToldApart`, `StoreTellsTheTruth` of `Collector` |
| `PageSessionsProofs` | `SearchTypeCorrect`, `PageStaysCurrent` | `TypeOK`, `PageIsCurrent` of `SearchSession` |
| | `BoundsHold`, `StoresHold` | `WithinBounds`, `StoredStays` of `DvrSession` |
| `RunnerLinkProofs` | `BridgeTypeCorrect`, `BannerHolds` | `TypeOK`, `BannerIsTrue` of `WsBridge` |
| | `CapturedOnce` | `OneCapture`, the types among it, of `StreamPipeline` |
| `LivePatchProofs` | `PatchTypeCorrect`, `LogIsTrue`, `PastKept` | `TypeOK`, `LogTellsTheTruth`, `PastIsRespected` |
| `FxUploadQueueProofs` | `FxTypeCorrect`, `UploadClaimsAreTrue`, `PromisesHold` | `TypeOK`, `UploadedIsReal`, `PromisesKept` |
| `MirrorWatcherProofs` | `DecisionsPrevail`, `TriesAreBounded` | `DecisionsApplied`, `TriesBounded` |
| `LauncherQueueProofs` | `ClicksKept`, `OrderKept` | `ClicksAccountedFor`, `OpenedInOrder` |
| `AutoLoginProofs` | `PaidOnce`, `CredentialsHeld`, `PageIsTrue` | `TicketsPayOnce`, `CredentialsAreReal`, `PageTellsTheTruth` |

**OpQueue.** A reload replaces the list in memory by the stored one, and a failed write
leaves the stored one behind, so `ListOK` has to hold of both lists. A drain that waits
for an operation writes to the list when it resumes, so `CallOK` records what it may rely
on: the job's number was given out, its number of operations has not changed, and all
operations before the one in flight were acknowledged. `OneDrain` is needed in full, since
a second drain could complete a job under the first. Acknowledgements only accumulate,
which carries `ListOK` over a step that acknowledges.

`Refinement`: the abstract executor sees the operation in flight and the jobs that are
done. An answer maps to `Acknowledge` or `GiveUp`, a reload to `GiveUp` if an operation
was in flight, and everything else, the edits of the list with its trim and its failed
writes included, to `Arrange` or a stutter; because by `CallOK` and `OneDrain` there is at
most one operation in flight and it is the next of its job. `DecisionsKept` assumes
storage that works (a failed write followed by a reload does lose pending work) and needs
`KeepInv` besides: what is stored is the list, or what a reload has just made of the
stored one, and neither outgrows the limit. That the cut of a list leaves no more than the
limit is shown by an injection from the jobs it keeps.

**SearchSession.** A request of the current search was sent with a cursor that the rows
shown have reached by now, since rows are only added; so a page of rows extends what is
shown without a gap or a repetition, however late or often it arrives. A request of an
older search is stopped by its generation, but for the one place where the code has no
check (section 6), which touches the phase and not the rows. `OneCreate` and
`BlankIsAsked` say why a finished search is not blank: the answer that finished it came
with rows, or another request for them is under way.

**LivePatch.** Let the story be the stored log followed by the rows under way. While
nothing is `lost`, the view is the end of the story (`ViewOK`) and reaches back as far as
the rows to be written, so no row comes to the log that the view has forgotten before.
What was read is the beginning of the story at the time of the reading, of which only rows
trimmed since are missing (`Continues`); what the live rows add to it is exactly what came
after, hence the merge is again an end of the story. `MarksOK` says of the story what the
plan reads from the view: patches without a marker after them are outstanding, and those
with a marker within the reach of a view are not; the second is what an early rollback
breaks. `KeysOK`, kind and number tell rows apart, makes the merge drop the right rows,
and bounds the length of a log by the number of deliveries and rollbacks, so that on a log
that is not full no applied id is forgotten. `Unfound` takes the k-th of the rows not
found by their rank; that ranks are 1 to the number of those rows and in their order is a
lemma about finite sets of numbers.

**FxUploadQueue.** Either process may write back any copy it holds, however old. So what
is true of a file must be true of each copy of it (`ListOK` and `IndexOK` of the file, of
the route's copy and of the worker's copy). It stays true of a copy nobody touches because
it mentions only things that grow, the jobs made, the copies on the host and the
operations done; this is the lemma `ListGrows` with its companion for the index. A job
becomes a success, or an entry uploaded, only in the step in which the host's count for
that job grows (`StepSendsStep`). Loss of a job, on the other hand, is possible, see
`fx_lost_job`; hence no theorem that accepted jobs stay.

`PromisesHold` is about behaviours up to the first overlap. There, one of the two is idle,
and the copies that the other holds are the files' own but for what it is about to change
(`RouteHolds`, `WorkerHolds`). A job that waits has used no more transfers than its
retries tell and one per fault, where a transfer that is not recorded yet counts as a
fault to come (`QueueTallied`).

**WsBridge.** A socket in use is the one the hook holds (`InUseIsHeld`), so a close that the
hook hears of leaves none, and "disconnected" is true; the handlers of a socket that was let
go find themselves replaced. What waits in the backlog waits once and is not open
(`BacklogOK`), so nothing flows on a connection before the server's thread takes it, and a
silence that ends in the watchdog's reset was one.

**StreamPipeline.** Sockets are opened one after another, and the step that opens one cancels
the one before (`OlderCancelled`). The device passes only to a run that had not begun. That it
comes back needs to know what `closeDXGI` will find: `CapturerOK` says that until its close
a run which stored its capturer holds the device, and that the global points to that capturer or
is nil, and nil only because another run's close wiped it. So a run whose close finds nil is
one of `wiped`, and one whose close finds a capturer releases its own. The death of the process
(`Panic`) leaves no holder.

**MirrorWatcher.** For decisions: while the file says off, the watcher's copy does, or the
flag that will tell it is there, or it saves that next (`Out`). The difficult case is a
route that finds the mirror off already and leaves no flag: `OptOutOK` says that then the
watcher's copy cannot say it is on, unless the watcher died before it saved. For an
opt-in, `quiet` remembers that the watcher slept, and it takes the flag before its first
write. For copies: of a file that is not known as uploaded the host holds only copies
whose answer was lost, and the one just sent; of one that is known, the copies and what is
left of the scan's queue stay within the roots above it (`CopiesCounted`). For attempts: a
file that is neither known nor given up has one left (`AttemptsOK`).

**LauncherQueue.** The launcher works through a sorted listing that the server outdates
while it does. `TodoOK`: what is on disk is in the listing or newer than all of it.
`OpenedOK`: nothing on disk is older than what was opened, and a job that was opened and
is still on disk is being removed or has been counted in `kept`. A job whose file was not
written, because the server is still at it or gave up, is not opened (`UnwrittenOK`),
which makes the page's "refused" true. That the sorted listing of a set is one is shown by
ranks.

**AutoLogin.** A ticket that was paid for is gone, and no second one is issued for a
click, so late requests find nothing (`LaunchOK`). The launcher notes a generic entry
before it deletes (`twin`) and overwrites what a failed deletion left. A poll under way
may tell the page something later than it was true, so what is said of the page is said of
the poll and of the server's memory too (`PageOK`). If launches never overlapped, the one
at work is the newest, and the chain of beacons is its own.

**DvrSession.** For the budget: the screenshots stored and those whose write is still
queued are all charged for (`ChargesOK`), so overlapping captures cannot spend the same
bytes twice, and a write that fails only leaves bytes charged. For the timeline: ring and
timeline are runs of consecutive numbers that end with the last entry, and a timeline that
does not reach back to the session's beginning is as long as it may be, which is no shorter
than the ring (`ListsAligned`). For the stored metas: the writes of a session run in the
order in which they were issued and a meta in memory only grows, so along the stored meta,
the queued ones and the one in memory nothing goes back (`MetasInOrder`). For the
screenshots: a key is used once, so no queued write or drop names the place of a stored
screenshot (`KeysUsedOnce`). `Bytes` is a sum over a finite set, a fold of the library along an
order the library does not tell; that it is one number, and loses the size of what is
removed, is proved by looking at a smallest set for which the claim fails.

**Collector.** The click in progress is the first of the chain, where every job is once
(`ChainOK`, `ClicksOK`); so there is one capture, one popup counter, and whoever begins a
capture finds none. A save that a click started is waited for by that click or is marked
late when the observation ends (`SaveOK`); therefore its record finds the capture open or is
late. A window's layer is removed only from the top, so nobody else's layer goes with it
(`ReleasedKeeps`). A list equal to the stored one always fits; so a `set()` that does not look
at the outcome cannot make screen and storage differ without the error being up already
(`WriteDoes`, `TouchKept`). A batch's streak is what its records end with, and the record
before the streak is another one (`StreakOK`), which makes "stopped" and "the last
`ErrorLimit` records are equal" the same.

**Only model-checked.** All liveness properties, since they rest on fairness and ENABLED,
which the prover does not reason about: `PendingSettles`, `PageIsTold`,
`NobodyIsStranded`, `JobsSettle`, `TornDown`, `StreamGoesOn`, `Saved`,
`EverythingEnds`, `DownloadsSettle`, `NothingWaitsForever`, `EndsInSight`. Every safety and
every action property of the passing runs has its theorem. `AcceptedKept` of `fx_lost_job` is
false.

## 6. Where the code and its words disagree

One run ends in a counterexample of a statement found in the repository.

* `fx_lost_job` – a "durable queue" owned by one process (`ghrdp-fx.ps1:1417`): the route
  writes it too, and the worker's older copy overwrites a job that was answered 202
  (`ghrdp-fx.ps1:1361`).

Seven more were met while modelling and have no run of their own. The logon watch of the launcher
"registers GHRDP-Launcher if missing and starts it immediately, then writes
launcher-autostart.json (autoStarted=true) so /api/launcher/health can prove it"
(`ghrdp-server.ps1:2070`): failures of `schtasks /Create` (`:2110`), of `Start-ScheduledTask` and of
`schtasks /Run` (`:2113`) are swallowed, the note is written all the same and the watch stops.
`NoteIsTrue` of `LauncherQueue` states what is meant; added to the properties of
`Launcher.cfg`, TLC finds it violated in four states.
"Stale responses are rejected" (`searchStore.ts:6`): the answer to a cancel is not checked
against the generation (`searchStore.ts:348`), so it marks a search submitted since as
cancelled, and stops its polling. `CancelledMeansAsked` of `SearchSession` states what is
meant; added to the invariants of `Search.cfg`, TLC finds it violated. "Any file that
lands in the Downloads root … is queued for mirror upload automatically"
(`MIRROR-HOSTS.md:333`): a file whose size differs from its recorded one makes its folder
and all above it busy (`ghrdp-watcher.ps1:533`), and the files of a busy folder are left
(`:560`) before a new size would be recorded (`:566`). A download that changes once after
it was seen blocks its root until a flush or a new watcher, which is why `DownloadsSettle`
has its condition. "Cancellation is cooperative between ops" (`queue.ts:112`): a cancel
that lands while an operation is in flight is overwritten when that operation fails
(`queue.ts:201`), and the job runs again; `IdleCancelSticks` therefore speaks of jobs that
are not in flight. "The verdict is never older than ~30s" (`ghrdp-server.ps1:9470`): a
socket session keeps the server's thread for up to half an hour (`ghrdp-server.ps1:2288`);
`Scan` and its age are still in `AcceptLoop`. A delivered-again frame is "never a second
application" (`patchCore.js:235`): the applied ids are empty after a reload until Settings
has been opened (`channel.ts:138`), hence the words "on a page" in `AppliedOnceOnAPage`.
"maxPipelineRestarts bounds consecutive failures" (`main.go:330`): the counter is never
reset by a run that streamed (`main.go:344`), so the tenth failure of a long connection
ends it, and `PipelineBack` allows for that.

Six more were met while modelling `LivePatch` and proving about it. They are reproducible
there, and most explain a condition of a property in section 3. A frame whose signature
is being checked is applied although the operator disarms meanwhile. A rollback of a
section patched twice restores the value of the first patch. The applied ids are not
emptied by a rollback, but a row that the limit removes takes its id with it: after a
merge or a rollback on a full log, a patch can be applied again on the same page. A
rollback during the first read of the log undoes only what the view has by then, and its
marker lands above the earlier patches that the read brings: they stay in force and can no
longer be rolled back (`early`). A reload before the marker is stored brings the
rolled-back patches up as in force, and offers to roll them back again, over switches the
operator has moved since (`lost`); so does a write of the marker that fails. A row that
was not stored when the page was reloaded is gone, and with it the way to roll its patch
back. The first needs a frame within the two minutes it is valid, the second two patches
of one section, the third a log of 200 rows; the others need a click or a reload within
the time of one IndexedDB request. Two were met in `AutoLogin`. "the caller must NOT go
straight to mstsc" when "a prompt ran and closed with nothing stored"
(`ghrdp-rdp-launcher.cs:1078`): `HasCredEntry` asks for any entry of the host, so after a
prompt that was closed a stale entry counts as stored (`:1119`) and mstsc starts without a
word with the old password; `CredentialsAreReal` therefore asks only for an entry unless
this launch wrote it. "a beacon newer than the click proves the exe handler ran"
(`sessionStore.ts:119`): a beacon up to ten seconds older is taken too (`:125`).

What was read in the newer modules without becoming a property is in section 3.

## 7. What is not modelled

* *Rendering, formatting, logging*: no property is about them.
* *Signature schemes and tokens*: a frame is valid or not. The cryptography is the
  browser's.
* *Provisioning and CI* (`scripts/`, `.github/`): run once and in sequence, against
  Windows and GitHub.
* *Downloads* (qBittorrent, aria2): the state is in those programs.
* *Gateways, diagnosis, the launcher's telescope*: a process or a pure
  function per call, with almost no state between two calls.
* *The other HTTP routes*: they answer from files and keep nothing.
* *Watcher supervision*: in `MirrorWatcher` it is the fairness of `Start`. schtasks.exe
  that fails does not throw, so the second way of starting the watcher is taken for done
  (`ghrdp-server.ps1:9391`). Which files failed for good, and when the others may be tried
  again, is in memory only (`ghrdp-watcher.ps1:410`): a restart tries them all again, and
  the bound on attempts in `TriesBounded` is one per life of the watcher.
  The mutex that keeps watchers single is `Local\` (`ghrdp-watcher.ps1:326`), so one per
  Windows session: a watcher of the logon task and one of another session can both run,
  where `main.yml:4560` counts on the second to exit. `MirrorWatcher` has one watcher.
* *The Explorer page* (undo, trash, clipboard, selection) works on rows of
  `fixture.json`, whose ids the runner's index does not hold, so that the runner skips
  what the queue sends, and the transport counts an answer with skipped ids as "ok"
  (`transport.ts:105`); `OpQueue` begins where the page hands over. Read and left out: Undo
  takes the record off the stack before it knows whether the inverse applies
  (`FileExplorer.tsx:167`); the inverse of mkdir and mkfile has no entries and is refused
  as an empty selection, and that of a copy deletes the source row (`ops.ts:156`);
  Refresh resets the rows and keeps the undo stack; Restore in the Trash view makes a row
  with the id of the trash entry, not of the file. A model of the page as it stands would
  need an exception for each of these in every property worth stating.
* *Telemetry stores*: `setProgress` takes frames without progress for progress
  (`useDashboardPolling.ts:249`), and `nativeLost` is never taken back
  (`sessionStore.ts:143`).
* *The launch ladder* (`/api/launch`, four tiers): one-shot attempts, and no page reaches
  it any more but for the self test.
* *The rest* (run identity, boundaries): within reach, and planned.

## 8. Plan

Models, in order of what goes wrong most expensively:

1. `WatcherSupervisor`, composed with `MirrorWatcher`: heartbeat and start ladder, so that
   `Start` is no longer fair by assumption.
2. `Telemetry`: run identity and the progress lane, composed with the frames of
   `WsBridge`.
3. `OpQueue` with two tabs on one storage; undo and trash on top of it once the page
   works on rows of the runner's index.
4. Small latches and pure functions: chrome boundary, quality watchdog, replay,
   custom sources, rate limit of `worker.js`.

Shallower properties of the present runs make room where the new ones need it.

Proofs: the present modules have none outstanding but liveness, which is out of the prover's
reach. A new module comes with its inductive invariant and its theorems; where it is composed
with a present one (`WatcherSupervisor`), the steps it adds to that one are to be shown to
keep its `IInv`.
