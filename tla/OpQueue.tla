------------------------------ MODULE OpQueue -------------------------------
(***************************************************************************)
(* The File Explorer's durable operation queue: OperationQueue in          *)
(* src/lib/explorer/queue.ts, driven by the store in queueStore.ts.        *)
(*                                                                         *)
(* A job is a list of file operations.  run() drains the queue one job at  *)
(* a time and one operation at a time; every operation is awaited, so user *)
(* events (enqueue, cancel, retry, clearFinished), progress callbacks and  *)
(* page reloads interleave with the drain.  Every change is written to     *)
(* localStorage, from which a reload rebuilds the list.                    *)
(*                                                                         *)
(* Jobs are numbered in the order they are enqueued, which is the order of *)
(* the array, so the array is a function from the numbers of the jobs it   *)
(* holds to their records.  What the operations do to files is left to the *)
(* transport; the model keeps which of them the transport acknowledged.    *)
(***************************************************************************)
EXTENDS Naturals, FiniteSets

CONSTANTS
  Loops,          \* activations of run() that may exist at the same time
  QUEUE_LIMIT,    \* entries the array keeps
  MaxAttempts,    \* QUEUE_MAX_ATTEMPTS
  MaxOps,         \* bound: operations of one job
  MaxJobs,        \* bound: jobs ever enqueued
  MaxExtra,       \* bound: retries and interrupted runs of one job
  MaxReloads,     \* bound: page reloads
  StorageMayFail  \* localStorage.setItem may throw (private mode, quota)

ASSUME OpQueueAssumption ==
  /\ Loops # {}
  /\ QUEUE_LIMIT \in Nat \ {0}
  /\ MaxAttempts \in Nat \ {0}
  /\ MaxOps \in Nat \ {0}
  /\ MaxJobs \in Nat
  /\ MaxExtra \in Nat
  /\ MaxReloads \in Nat
  /\ StorageMayFail \in BOOLEAN

VARIABLES
  jobs,      \* the array: job number -> [st, ops, att, prog, extra]
  running,   \* the re-entrancy flag of run()
  loop,      \* where each activation of run() is
  stored,    \* the copy in localStorage
  lastId,    \* number of the last job enqueued
  acked,     \* <<job, op>> pairs the transport has answered "ok" (history)
  reloads,   \* page reloads so far
  idleBoot   \* a reload happened and nothing has called run() since (history)

vars == <<jobs, running, loop, stored, lastId, acked, reloads, idleBoot>>

Status == {"queued", "running", "done", "failed", "cancelled"}

\* prog counts finished operations; extra is a history field: how many times
\* the job was given another run by retry() or by a reload that cut it off.
Job == [st : Status, ops : 1..MaxOps, att : Nat, prog : 0..MaxOps, extra : Nat]

LoopState == [pc : {"idle", "loop", "call"}, id : Nat, ops : 0..MaxOps, op : 0..MaxOps]

Idle == [pc |-> "idle", id |-> 0, ops |-> 0, op |-> 0]
AtLoop == [pc |-> "loop", id |-> 0, ops |-> 0, op |-> 0]
Call(j, n, i) == [pc |-> "call", id |-> j, ops |-> n, op |-> i]

NoJobs == [j \in {} |-> 0]

Started(r) == [r EXCEPT !.st = "running", !.att = @ + 1]
Again(r) == [r EXCEPT !.st = "queued", !.extra = @ + 1]

Pending(js) == {j \in DOMAIN js : js[j].st \in {"queued", "running"}}
Queued(js) == {j \in DOMAIN js : js[j].st = "queued"}

\* slice(-QUEUE_LIMIT): the newest entries.
Newest(S) == {j \in S : Cardinality({k \in S : k > j}) < QUEUE_LIMIT}

Keep(js, S) == [j \in S |-> js[j]]

\* update(): nothing happens when the job is no longer in the array.
SetStatus(js, j, s) == IF j \in DOMAIN js THEN [js EXCEPT ![j].st = s] ELSE js
SetProg(js, j, p) == IF j \in DOMAIN js THEN [js EXCEPT ![j].prog = p] ELSE js

\* emit(): every change is persisted, unless the write throws.
Persist == stored' = jobs' \/ (StorageMayFail /\ stored' = stored)

RehydratedWithoutRunning(js) ==  \* mutant: a job cut off by the reload is lost
  Keep(js, {j \in Newest(DOMAIN js) : js[j].st # "running"})
\* rehydrateJobs(): what was running is queued again.
Rehydrated(js) ==
  [j \in Newest(DOMAIN js) |->
     IF js[j].st = "running" THEN Again(js[j]) ELSE js[j]]

AfterFailureLate(job) ==  \* mutant: off by one
  IF job.att > MaxAttempts THEN "failed" ELSE "queued"

\* A failed operation uses up the attempt: the job is retried or given up.
AfterFailure(job) == IF job.att >= MaxAttempts THEN "failed" ELSE "queued"

-----------------------------------------------------------------------------
Init ==
  /\ jobs = NoJobs
  /\ running = FALSE
  /\ loop = [l \in Loops |-> Idle]
  /\ stored = NoJobs
  /\ lastId = 0
  /\ acked = {}
  /\ reloads = 0
  /\ idleBoot = FALSE

StartResumed(js, l) ==  \* mutant: resumes after the progress shown
  \E j \in Queued(js) :
    LET next == IF js[j].prog < js[j].ops THEN js[j].prog + 1 ELSE js[j].ops IN
    /\ \A k \in Queued(js) : j <= k
    /\ jobs' = [js EXCEPT ![j] = Started(@)]
    /\ loop' = [loop EXCEPT ![l] = Call(j, js[j].ops, next)]
StartUncounted(js, l) ==  \* mutant: the attempt is not counted
  \E j \in Queued(js) :
    /\ \A k \in Queued(js) : j <= k
    /\ jobs' = [js EXCEPT ![j].st = "running"]
    /\ loop' = [loop EXCEPT ![l] = Call(j, js[j].ops, 1)]

\* The body of run()'s for loop up to the first await: take the oldest queued
\* job of js, count the attempt and send its first operation.
StartOldest(js, l) ==
  \E j \in Queued(js) :
    /\ \A k \in Queued(js) : j <= k
    /\ jobs' = [js EXCEPT ![j] = Started(@)]
    /\ loop' = [loop EXCEPT ![l] = Call(j, js[j].ops, 1)]

RunReentrant(js) ==  \* mutant: the re-entrancy guard is missing
  /\ idleBoot' = FALSE
  /\ \/ Queued(js) = {} /\ jobs' = js /\ UNCHANGED <<running, loop>>
     \/ running' = TRUE /\ \E l \in Loops : loop[l] = Idle /\ StartOldest(js, l)
  /\ Persist

\* run(), called when the array is js: a no-op while another activation drains.
Run(js) ==
  /\ idleBoot' = FALSE
  /\ \/ /\ running \/ Queued(js) = {}
        /\ jobs' = js
        /\ UNCHANGED <<running, loop>>
     \/ /\ ~running
        /\ running' = TRUE
        /\ \E l \in Loops : loop[l] = Idle /\ StartOldest(js, l)
  /\ Persist

Enqueue(n) ==
  /\ lastId < MaxJobs
  /\ lastId' = lastId + 1
  /\ LET new == [st |-> "queued", ops |-> n, att |-> 0, prog |-> 0, extra |-> 0]
         all == [j \in DOMAIN jobs \cup {lastId + 1} |->
                   IF j = lastId + 1 THEN new ELSE jobs[j]]
     IN Run(Keep(all, Newest(DOMAIN all)))
  /\ UNCHANGED <<acked, reloads>>

\* The Refresh command and the store's run().
Refresh ==
  /\ Run(jobs)
  /\ UNCHANGED <<lastId, acked, reloads>>

Cancel(j) ==
  /\ j \in DOMAIN jobs
  /\ jobs[j].st # "done"
  /\ jobs' = SetStatus(jobs, j, "cancelled")
  /\ Persist
  /\ UNCHANGED <<running, loop, lastId, acked, reloads, idleBoot>>

RetryWithoutRun(j) ==  \* mutant: the job is queued, the drain not started
  /\ j \in DOMAIN jobs
  /\ jobs[j].st = "failed"
  /\ jobs[j].extra < MaxExtra
  /\ jobs' = SetProg([jobs EXCEPT ![j] = Again(@)], j, 0)
  /\ Persist
  /\ UNCHANGED <<running, loop, lastId, acked, reloads, idleBoot>>

Retry(j) ==
  /\ j \in DOMAIN jobs
  /\ jobs[j].st = "failed"
  /\ jobs[j].extra < MaxExtra
  /\ Run(SetProg([jobs EXCEPT ![j] = Again(@)], j, 0))
  /\ UNCHANGED <<lastId, acked, reloads>>

ClearFinished ==
  /\ jobs' = Keep(jobs, {j \in DOMAIN jobs : jobs[j].st \in {"queued", "running", "failed"}})
  /\ Persist
  /\ UNCHANGED <<running, loop, lastId, acked, reloads, idleBoot>>

\* The drain resumes after runJob() returned.
NextJob(l) ==
  /\ loop[l] = AtLoop
  /\ \/ StartOldest(jobs, l) /\ UNCHANGED running /\ Persist
     \/ /\ Queued(jobs) = {}
        /\ loop' = [loop EXCEPT ![l] = Idle]
        /\ running' = FALSE
        /\ UNCHANGED <<jobs, stored>>
  /\ UNCHANGED <<lastId, acked, reloads, idleBoot>>

ProgressOfNext(l, f) ==  \* mutant: the operation counted as finished already
  /\ loop[l].pc = "call"
  /\ loop[l].id \in DOMAIN jobs
  /\ jobs' = SetProg(jobs, loop[l].id, loop[l].op + f)
  /\ Persist
  /\ UNCHANGED <<running, loop, lastId, acked, reloads, idleBoot>>

\* The transport reports a fraction of the operation in flight.
Progress(l, f) ==
  /\ loop[l].pc = "call"
  /\ loop[l].id \in DOMAIN jobs
  /\ jobs' = SetProg(jobs, loop[l].id, loop[l].op - 1 + f)
  /\ Persist
  /\ UNCHANGED <<running, loop, lastId, acked, reloads, idleBoot>>

\* May runJob() go on with this job after an operation?
GoesOn(js, j) == j \in DOMAIN js /\ js[j].st \notin {"cancelled", "done"}

OpOk(l) ==
  LET j == loop[l].id
      i == loop[l].op
      js == SetProg(jobs, j, i)
  IN /\ loop[l].pc = "call"
     /\ acked' = acked \cup {<<j, i>>}
     /\ \/ /\ i < loop[l].ops
           /\ jobs' = js
           /\ loop' = [loop EXCEPT ![l] =
                         IF GoesOn(js, j) THEN [@ EXCEPT !.op = i + 1] ELSE AtLoop]
        \/ /\ i = loop[l].ops
           /\ jobs' = IF j \in DOMAIN js /\ js[j].st = "cancelled"
                      THEN js
                      ELSE SetStatus(js, j, "done")
           /\ loop' = [loop EXCEPT ![l] = AtLoop]
     /\ Persist
     /\ UNCHANGED <<running, lastId, reloads, idleBoot>>

\* A failed operation ends the run; the status is written whatever it was.
OpFailed(l) ==
  LET j == loop[l].id
      js == SetProg(jobs, j, loop[l].op - 1)
  IN /\ loop[l].pc = "call"
     /\ jobs' = IF j \in DOMAIN js
                THEN SetStatus(js, j, AfterFailure(js[j]))
                ELSE js
     /\ loop' = [loop EXCEPT ![l] = AtLoop]
     /\ Persist
     /\ UNCHANGED <<running, lastId, acked, reloads, idleBoot>>

\* The page is reloaded: memory is lost, the list comes back from storage.
Reload ==
  /\ reloads < MaxReloads
  /\ reloads' = reloads + 1
  /\ jobs' = Rehydrated(stored)
  /\ running' = FALSE
  /\ loop' = [l \in Loops |-> Idle]
  /\ idleBoot' = TRUE
  /\ UNCHANGED <<stored, lastId, acked>>

Drain(l) == NextJob(l) \/ OpOk(l) \/ OpFailed(l)

Next ==
  \/ \E n \in 1..MaxOps : Enqueue(n)
  \/ \E j \in DOMAIN jobs : Cancel(j) \/ Retry(j)
  \/ ClearFinished
  \/ Refresh
  \/ \E l \in Loops : Drain(l) \/ \E f \in {0, 1} : Progress(l, f)
  \/ Reload

Spec == Init /\ [][Next]_vars

\* A microtask that is due runs, and every request is answered or times out.
Fairness == \A l \in Loops : WF_vars(Drain(l))

FairSpec == Spec /\ Fairness

-----------------------------------------------------------------------------
IsList(js, last) ==
  /\ DOMAIN js \subseteq 1..last
  /\ js \in [DOMAIN js -> Job]

TypeOK ==
  /\ lastId \in 0..MaxJobs
  /\ IsList(jobs, lastId)
  /\ IsList(stored, lastId)
  /\ running \in BOOLEAN
  /\ loop \in [Loops -> LoopState]
  /\ acked \subseteq Nat \X (1..MaxOps)
  /\ reloads \in 0..MaxReloads
  /\ idleBoot \in BOOLEAN

\* "One job runs at a time" (queue.ts, OperationQueue): however enqueue, retry,
\* Refresh and reloads interleave, only one activation of run() is ever
\* draining, and the flag run() tests says exactly whether there is one.
OneDrain ==
  /\ \A l, m \in Loops : loop[l] # Idle /\ loop[m] # Idle => l = m
  /\ running <=> \E l \in Loops : loop[l] # Idle

\* Operations of a job are sent in order and none before its predecessor was
\* answered "ok", also when the job was cancelled, dropped or re-queued
\* between two operations.
OpsInOrder ==
  \A l \in Loops : loop[l].pc = "call" =>
    \A i \in 1..(loop[l].op - 1) : <<loop[l].id, i>> \in acked

\* A job shown as done has had every one of its operations answered "ok",
\* whatever cancels, retries, failed writes and reloads it went through.
DoneMeansAcked ==
  \A j \in DOMAIN jobs : jobs[j].st = "done" =>
    \A i \in 1..jobs[j].ops : <<j, i>> \in acked

\* "Failures retry up to maxAttempts": a job gets MaxAttempts runs, and one
\* more only for each retry() and each run a reload cut off; a job that is
\* queued still has one left.
BoundedAttempts ==
  \A j \in DOMAIN jobs :
    /\ jobs[j].att <= MaxAttempts + jobs[j].extra
    /\ jobs[j].st = "queued" => jobs[j].att < MaxAttempts + jobs[j].extra

\* Queued work is never stranded: a queued job has an activation of run()
\* that will find it, except after a reload, when nothing has called run() yet.
NoStrandedJob == Queued(jobs) # {} => running \/ idleBoot

\* The two sides of run()'s guard: never two drains, never none when work waits.
DrainedByOne == OneDrain /\ NoStrandedJob

\* What was sent and what is shown as done rest on acknowledged operations.
AckedInOrder == OpsInOrder /\ DoneMeansAcked

PendingStays ==
  \A j \in Pending(jobs) :
    \/ j \in DOMAIN jobs'
    \/ lastId' # lastId /\ Cardinality(DOMAIN jobs) = QUEUE_LIMIT

CancelStays ==
  \A j \in DOMAIN jobs :
    /\ jobs[j].st = "cancelled"
    /\ \A l \in Loops : loop[l].id # j
    /\ j \in DOMAIN jobs'
    => jobs'[j].st = "cancelled"

\* Pending work leaves the list only when an enqueue overflows QUEUE_LIMIT or
\* the operator cancels it; a reload ("a reload keeps the pending work"), a
\* retry and clearFinished() never lose it.  Needs storage that works.
PendingIsKept == [][PendingStays]_vars

\* A cancelled job that is not in flight stays cancelled until it is cleared.
\* Needs storage that works.
IdleCancelSticks == [][CancelStays]_vars

\* What was decided of a job is not forgotten: neither that it has to run nor
\* that it must not.
DecisionsAreKept == PendingIsKept /\ IdleCancelSticks

\* Head-of-line jobs do not starve the rest: pending work is worked off unless
\* a reload stops the drain.
PendingSettles ==
  \A j \in 1..MaxJobs :
    (j \in Pending(jobs) /\ running) ~> (j \notin Pending(jobs) \/ idleBoot)

-----------------------------------------------------------------------------
InFlight(lp) == {l \in Loops : lp[l].pc = "call"}

\* The operation with the transport: what the draining activation sent.
Sending(lp) ==
  IF InFlight(lp) = {} THEN <<0, 0>>
  ELSE LET l == CHOOSE l \in InFlight(lp) : TRUE IN <<lp[l].id, lp[l].op>>

DoneJobs(js) == {<<j, js[j].ops>> : j \in {k \in DOMAIN js : js[k].st = "done"}}

Serial == INSTANCE SerialExecutor WITH exec <- Sending(loop), done <- DoneJobs(jobs)

\* The queue implements the serial executor: one operation of one job at a time,
\* in order, and a job listed as done had all its operations answered "ok".
ImplementsSerialExecutor == Serial!Spec

-----------------------------------------------------------------------------
\* The inductive invariant: the same facts about the list in memory and the
\* list in storage (a reload swaps them), and what a suspended drain may rely
\* on about the job it works on.
ListOK(js, last, ack) ==
  /\ IsList(js, last)
  /\ \A j \in DOMAIN js :
       /\ js[j].att <= MaxAttempts + js[j].extra
       /\ js[j].st = "queued" => js[j].att < MaxAttempts + js[j].extra
       /\ js[j].st = "done" => \A i \in 1..js[j].ops : <<j, i>> \in ack

CallOK(c, js, last, ack) ==
  c.pc = "call" =>
    /\ c.id \in 1..last
    /\ c.ops \in 1..MaxOps
    /\ c.op \in 1..c.ops
    /\ c.id \in DOMAIN js => js[c.id].ops = c.ops
    /\ \A i \in 1..(c.op - 1) : <<c.id, i>> \in ack

IInv ==
  /\ TypeOK
  /\ ListOK(jobs, lastId, acked)
  /\ ListOK(stored, lastId, acked)
  /\ \A l \in Loops : CallOK(loop[l], jobs, lastId, acked)
  /\ OneDrain
  /\ NoStrandedJob

\* The list in storage is the one in memory, or the one it was rebuilt from.
StoredIsCurrent == stored = jobs \/ jobs = Rehydrated(stored)

\* What keeps decisions when storage works: the list never outgrows its limit,
\* so a reload, which cuts it to the limit, cuts nothing.
KeepInv ==
  /\ IInv
  /\ Cardinality(DOMAIN jobs) <= QUEUE_LIMIT
  /\ Cardinality(DOMAIN stored) <= QUEUE_LIMIT
  /\ StorageMayFail \/ StoredIsCurrent
=============================================================================
