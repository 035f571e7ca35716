---------------------------- MODULE FxUploadQueue ----------------------------
(***************************************************************************)
(* The Explorer's upload queue (payloads/ghrdp-fx.ps1): two files, the     *)
(* queue and the index, that two processes read, change and write back     *)
(* whole, without a lock.  The server handles POST /api/fx/upload and      *)
(* /api/fx/op on its one thread; a detached worker takes one step every    *)
(* five seconds.                                                           *)
(*                                                                         *)
(* Every read-modify-write is two steps here, the read and the write, and  *)
(* the worker's has a third, the transfer in between.  A job that failed   *)
(* before may still be in its backoff when the worker looks for one; that  *)
(* the backoff ends and that the worker's loop goes on is its fairness.    *)
(* A job's "uploading" never reaches the file.  The tag and pin operations *)
(* change a field of the index entry as trash and restore do, and an       *)
(* operation names one file; a move never goes back to an earlier path, so *)
(* it always gives a new id.  An index write that throws leaves the old    *)
(* index; that the same fallback may lose it is modelled for the queue.    *)
(* Reading during such a fallback, when there is no file, is left out.     *)
(***************************************************************************)
EXTENDS Naturals, Sequences, FiniteSets, SequencesExt

CONSTANTS
  Files,        \* files of the index
  MaxAttempts,  \* FxUploadMaxRetries, F46MaxAttempts
  MaxJobs,      \* bound: jobs made
  MaxOps,       \* bound: index operations
  MaxFaults     \* bound: failed writes, worker crashes and server restarts

ASSUME FxAssumption ==
  /\ IsFiniteSet(Files)
  /\ MaxAttempts \in Nat \ {0}
  /\ {MaxJobs, MaxOps, MaxFaults} \subseteq Nat

VARIABLES
  queue,       \* fx-upload-queue.json: a sequence of jobs
  index,       \* fx-index.json: an entry per file
  route,       \* the request the server is handling, with the copy it read
  worker,      \* the worker's step, with the copies it read
  workerUp,    \* the worker's process is alive
  contract,    \* Send-F46GofileUpload resolves in the worker's process
  ops, faults, \* counters of the bounds
  made,        \* made[n]: the file of the n-th job (history; bound MaxJobs)
  accepted,    \* jobs answered 202 (history)
  attempts,    \* attempts[n]: transfers of job n begun (history)
  copies,      \* copies[n]: copies the host has from job n (history)
  answered,    \* answered[f]: the entry as the answered operations left it (history)
  overlapped   \* a worker's step and a request were under way together (history)

files == <<queue, index>>
history == <<accepted, attempts, copies, answered, overlapped>>
bounds == <<ops, faults, made>>
vars == <<files, route, worker, workerUp, contract, bounds, history>>

\* A job names a file by an id, which changes when the file is moved.
Job == [n : 1..MaxJobs, file : Files, moves : 0..MaxOps,
        status : {"queued", "success", "failed"}, retries : 0..MaxAttempts]
NewFxUploadJob(n, f, idx) ==
  [n |-> n, file |-> f, moves |-> idx[f].moves, status |-> "queued", retries |-> 0]

Entry == [moves : 0..MaxOps, trashed : BOOLEAN, gofile : {"none", "uploaded"}]
Fresh == [f \in Files |-> [moves |-> 0, trashed |-> FALSE, gofile |-> "none"]]
KnownId(job, idx) == idx[job.file].moves = job.moves

NoRoute == [pc |-> "idle", jobs |-> <<>>, new |-> {}, index |-> Fresh]
NoStep == [pc |-> "idle", jobs |-> <<>>, at |-> 0, index |-> Fresh]

\* Save-FxJsonAtomic that throws: before the old file is touched, or after
\* its fallback has deleted it.
Damaged == {queue, <<>>}

-----------------------------------------------------------------------------
Init ==
  /\ queue = <<>> /\ index = Fresh
  /\ route = NoRoute /\ worker = NoStep /\ workerUp = TRUE
  /\ contract \in BOOLEAN
  /\ ops = 0 /\ faults = 0 /\ made = <<>>
  /\ accepted = {}
  /\ attempts = [n \in 1..MaxJobs |-> 0] /\ copies = [n \in 1..MaxJobs |-> 0]
  /\ answered = Fresh
  /\ overlapped = FALSE

(* The server. *)

Begun == overlapped' = (overlapped \/ worker.pc # "idle")

WithJobsOnly(found, jobs) == jobs  \* mutant: the jobs read before are left out
WithJobs(found, jobs) == found \o jobs

\* Invoke-FxUploadRoute up to its write: the known ids it names get a job each.
UploadRouteReads(fs) ==
  LET order == SetToSeq(fs)
      jobs == [i \in DOMAIN order |-> NewFxUploadJob(Len(made) + i, order[i], index)]
  IN
  /\ route.pc = "idle"
  /\ fs # {} /\ Len(made) + Cardinality(fs) <= MaxJobs
  /\ route' = [NoRoute EXCEPT !.pc = "upload", !.jobs = WithJobs(queue, jobs),
                              !.new = {jobs[i].n : i \in DOMAIN jobs}]
  /\ made' = made \o order
  /\ Begun
  /\ UNCHANGED <<files, worker, workerUp, contract, ops, faults, accepted, attempts, copies, answered>>

\* Save-FxUploadQueue and the 202.
UploadRouteSaves ==
  /\ route.pc = "upload"
  /\ queue' = route.jobs
  /\ accepted' = accepted \cup route.new
  /\ route' = NoRoute
  /\ UNCHANGED <<index, worker, workerUp, contract, bounds, attempts, copies, answered, overlapped>>

Operated(op, e) ==
  CASE op = "trash" -> [e EXCEPT !.trashed = TRUE]
    [] op = "restore" -> [e EXCEPT !.trashed = FALSE]
    [] op = "move" -> [e EXCEPT !.moves = @ + 1]

\* Invoke-FxOpRoute up to its write; one that changes nothing is not written.
OpRouteReads(op, f) ==
  /\ route.pc = "idle"
  /\ ops < MaxOps
  /\ Operated(op, index[f]) # index[f]
  /\ ops' = ops + 1
  /\ route' = [NoRoute EXCEPT !.pc = "op", !.index = [index EXCEPT ![f] = Operated(op, @)]]
  /\ Begun
  /\ UNCHANGED <<files, worker, workerUp, contract, made, faults, accepted, attempts, copies, answered>>

OpRouteSaves ==
  /\ route.pc = "op"
  /\ index' = route.index
  /\ answered' = route.index
  /\ route' = NoRoute
  /\ UNCHANGED <<queue, worker, workerUp, contract, bounds, accepted, attempts, copies, overlapped>>

\* Either write throws: 500.
RouteFails ==
  /\ route.pc # "idle" /\ faults < MaxFaults
  /\ faults' = faults + 1
  /\ \/ route.pc = "upload" /\ queue' \in Damaged /\ UNCHANGED index
     \/ route.pc = "op" /\ UNCHANGED files
  /\ route' = NoRoute
  /\ UNCHANGED <<worker, workerUp, contract, made, ops, history>>

\* The server is started anew.  Start-FxUploadWorker leaves alone a worker
\* whose recorded process is alive, or whose number another process has now.
ServerRestart ==
  /\ faults < MaxFaults
  /\ faults' = faults + 1
  /\ route' = NoRoute
  /\ workerUp' \in {TRUE, workerUp}
  /\ UNCHANGED <<files, worker, contract, made, ops, history>>

-----------------------------------------------------------------------------
(* The worker: Invoke-FxUploadStep. *)

Waiting(job) == job.status = "queued"

\* The first due job: one that never failed is due.
MayTake(i) ==
  /\ Waiting(queue[i])
  /\ \A j \in 1..(i - 1) : Waiting(queue[j]) => queue[j].retries > 0

FailedJob(job) == [job EXCEPT !.status = "failed"]

StepReadsUnsaved(i, readable) ==  \* mutant: an unknown id returns before the write
  /\ workerUp /\ worker.pc = "idle"
  /\ MayTake(i)
  /\ readable /\ KnownId(queue[i], index)
  /\ worker' = [pc |-> "send", jobs |-> queue, at |-> i, index |-> index]
  /\ overlapped' = (overlapped \/ route.pc # "idle")
  /\ UNCHANGED <<files, route, workerUp, contract, bounds, accepted, attempts, copies, answered>>

\* Up to the transfer.  readable: the index can be read and the file is there.
StepReads(i, readable) ==
  /\ workerUp /\ worker.pc = "idle"
  /\ MayTake(i)
  /\ worker' = IF readable /\ KnownId(queue[i], index)
               THEN [pc |-> "send", jobs |-> queue, at |-> i, index |-> index]
               ELSE [pc |-> "save", jobs |-> [queue EXCEPT ![i] = FailedJob(@)], at |-> i, index |-> index]
  /\ overlapped' = (overlapped \/ route.pc # "idle")
  /\ UNCHANGED <<files, route, workerUp, contract, bounds, accepted, attempts, copies, answered>>

\* The job after an attempt.  Only transient phases are tried again.
AfterAttemptLate(job, result) ==  \* mutant: one attempt too many
  CASE result = "ok" -> [job EXCEPT !.status = "success"]
    [] result = "transient" /\ job.retries < MaxAttempts -> [job EXCEPT !.retries = @ + 1]
    [] OTHER -> FailedJob([job EXCEPT !.retries = @ + 1])
AfterAttempt(job, result) ==
  CASE result = "ok" -> [job EXCEPT !.status = "success"]
    [] result = "transient" /\ job.retries + 1 < MaxAttempts -> [job EXCEPT !.retries = @ + 1]
    [] OTHER -> FailedJob([job EXCEPT !.retries = @ + 1])

MarkedAnyway(idx, f, result) ==  \* mutant: a failure is stamped as a success
  [idx EXCEPT ![f].gofile = "uploaded"]
Marked(idx, f, result) ==
  IF result = "ok" THEN [idx EXCEPT ![f].gofile = "uploaded"] ELSE idx

\* Send-FxGofileUpload: without the shared contract there is no transfer, and
\* phase "parse".
Results == IF contract THEN {"ok", "transient", "terminal"} ELSE {"terminal"}

\* The transfer ends and the index is written, whole; a throw is swallowed.
StepSends(result) ==
  LET job == worker.jobs[worker.at] IN
  /\ workerUp /\ worker.pc = "send"
  /\ result \in Results
  /\ attempts' = IF contract THEN [attempts EXCEPT ![job.n] = @ + 1] ELSE attempts
  /\ copies' = IF result = "ok" THEN [copies EXCEPT ![job.n] = @ + 1] ELSE copies
  /\ \/ index' = Marked(worker.index, job.file, result) /\ UNCHANGED faults
     \/ faults < MaxFaults /\ faults' = faults + 1 /\ UNCHANGED index
  /\ worker' = [worker EXCEPT !.pc = "save", !.jobs[worker.at] = AfterAttempt(job, result)]
  /\ UNCHANGED <<queue, route, workerUp, contract, made, ops, accepted, answered, overlapped>>

\* The queue is written, whole; a throw is swallowed.
StepSaves ==
  /\ workerUp /\ worker.pc = "save"
  /\ \/ queue' = worker.jobs /\ UNCHANGED faults
     \/ faults < MaxFaults /\ faults' = faults + 1 /\ queue' \in Damaged
  /\ worker' = NoStep
  /\ UNCHANGED <<index, route, workerUp, contract, made, ops, history>>

\* The worker's process is killed; the host may have the file by then.
WorkerCrash ==
  /\ workerUp /\ faults < MaxFaults
  /\ faults' = faults + 1
  /\ workerUp' = FALSE /\ worker' = NoStep
  /\ \/ UNCHANGED <<attempts, copies>>
     \/ /\ worker.pc = "send" /\ contract
        /\ LET job == worker.jobs[worker.at] IN
             /\ attempts' = [attempts EXCEPT ![job.n] = @ + 1]
             /\ \/ UNCHANGED copies
                \/ copies' = [copies EXCEPT ![job.n] = @ + 1]
  /\ UNCHANGED <<files, route, contract, made, ops, accepted, answered, overlapped>>

UploadStep ==
  \/ \E i \in DOMAIN queue, readable \in BOOLEAN : StepReads(i, readable)
  \/ \E result \in {"ok", "transient", "terminal"} : StepSends(result)
  \/ StepSaves

Next ==
  \/ \E fs \in SUBSET Files : UploadRouteReads(fs)
  \/ UploadRouteSaves
  \/ \E op \in {"trash", "restore", "move"}, f \in Files : OpRouteReads(op, f)
  \/ OpRouteSaves
  \/ RouteFails
  \/ ServerRestart
  \/ UploadStep
  \/ WorkerCrash

Spec == Init /\ [][Next]_vars

\* The worker's loop goes on while its process lives.
FairSpec == Spec /\ WF_vars(UploadStep)

-----------------------------------------------------------------------------
TypeOK ==
  /\ queue \in Seq(Job) /\ Len(queue) <= MaxJobs
  /\ index \in [Files -> Entry] /\ answered \in [Files -> Entry]
  /\ route \in [pc : {"idle", "upload", "op"}, jobs : Seq(Job), new : SUBSET (1..MaxJobs), index : [Files -> Entry]]
  /\ worker \in [pc : {"idle", "send", "save"}, jobs : Seq(Job), at : 0..MaxJobs, index : [Files -> Entry]]
  /\ workerUp \in BOOLEAN /\ contract \in BOOLEAN /\ overlapped \in BOOLEAN
  /\ accepted \subseteq DOMAIN made
  /\ made \in Seq(Files)
  /\ attempts \in [1..MaxJobs -> Nat] /\ copies \in [1..MaxJobs -> Nat]

JobsOf(s) == {s[i].n : i \in DOMAIN s}

\* "durable queue": a job answered 202 stays in the queue's file.
AcceptedKept == accepted \subseteq JobsOf(queue)

\* A worker's step and a request that overlap are the only way to lose an
\* accepted job when no write fails: neither a crash in a transfer nor a
\* restart of the server loses one.
AcceptedKeptAlone == ~overlapped /\ faults = 0 => AcceptedKept

\* A job is sent at most as often as the retry limit allows, and the host gets
\* one copy of it; each fault between a transfer and the write that records it
\* costs at most one more.
TransfersBounded ==
  ~overlapped => \A n \in 1..MaxJobs :
    attempts[n] <= MaxAttempts + faults /\ copies[n] <= 1 + faults

\* Whatever overlaps or fails, the index shows a host copy only of a file
\* that the host has, and the queue a success only of one that it got.
UploadedIsReal ==
  /\ \A f \in Files : index[f].gofile = "uploaded" => \E n \in DOMAIN made : made[n] = f /\ copies[n] > 0
  /\ \A i \in DOMAIN queue : queue[i].status = "success" => copies[queue[i].n] > 0

\* An answered trash, restore or move stays in the index, also when uploads
\* rewrite the index, as long as none of them overlapped.
OpsKept ==
  ~overlapped => \A f \in Files :
    index[f].moves = answered[f].moves /\ index[f].trashed = answered[f].trashed

\* Without an overlap of the worker's step and a request the two files keep
\* what was promised: accepted jobs, answered operations, and no job is sent
\* more often than allowed.
PromisesKept == AcceptedKeptAlone /\ OpsKept /\ TransfersBounded

\* A queued job does not wait for ever for its turn or its retries, unless
\* the worker died and no restart of the server brought it back.
JobsSettle ==
  \A n \in 1..MaxJobs :
    (\E i \in DOMAIN queue : queue[i].n = n /\ Waiting(queue[i]))
      ~> (~workerUp \/ ~\E i \in DOMAIN queue : queue[i].n = n /\ Waiting(queue[i]))

-----------------------------------------------------------------------------
\* The inductive invariant.  Either process may write back any copy it holds,
\* however old, so what is said of a file has to hold of every copy of it; it
\* does, because jobs made (m), copies on the host (c) and operations (k) only grow.
JobOK(job, m, c) ==
  /\ job.n \in DOMAIN m /\ job.file = m[job.n]
  /\ job.status = "queued" => job.retries < MaxAttempts
  /\ job.status = "success" => c[job.n] > 0

ListOK(jobs, m, c) ==
  /\ jobs \in Seq(Job) /\ Len(jobs) <= Len(m)
  /\ \A i \in DOMAIN jobs : JobOK(jobs[i], m, c)

IndexOK(idx, m, c, k) ==
  /\ idx \in [Files -> Entry]
  /\ \A f \in Files : idx[f].moves <= k
  /\ \A f \in Files : idx[f].gofile = "uploaded" => \E n \in DOMAIN m : m[n] = f /\ c[n] > 0

SendOK ==
  worker.pc = "send" =>
    /\ worker.at \in DOMAIN worker.jobs
    /\ worker.jobs[worker.at].status = "queued"

IInv ==
  /\ TypeOK
  /\ ops \in 0..MaxOps /\ faults \in 0..MaxFaults /\ Len(made) <= MaxJobs
  /\ ListOK(queue, made, copies) /\ ListOK(route.jobs, made, copies) /\ ListOK(worker.jobs, made, copies)
  /\ IndexOK(index, made, copies, ops)
  /\ IndexOK(route.index, made, copies, ops)
  /\ IndexOK(worker.index, made, copies, ops)
  /\ route.new \subseteq DOMAIN made
  /\ SendOK
\* What holds on top of that as long as the worker's step and a request have not
\* overlapped: one of them at most holds copies, and these are the files' own
\* but for what it is about to change.  A waiting job has used no more transfers
\* than its retries tell, and one for every fault.
Tallied(job, a, c, more) ==
  Waiting(job) => a[job.n] <= job.retries + more /\ c[job.n] <= more

Distinct(jobs) == \A i, j \in DOMAIN jobs : jobs[i].n = jobs[j].n => i = j

QueueTallied ==
  /\ Distinct(queue)
  /\ \A i \in DOMAIN queue :
       Tallied(queue[i], attempts, copies, IF worker.pc = "save" /\ i = worker.at THEN faults + 1 ELSE faults)

RouteHolds ==
  route.pc = "upload" =>
    /\ Distinct(route.jobs)
    /\ JobsOf(queue) \cup route.new \subseteq JobsOf(route.jobs)
    /\ \A i \in DOMAIN route.jobs : Tallied(route.jobs[i], attempts, copies, faults)

WorkerHolds ==
  worker.pc # "idle" =>
    /\ worker.at \in DOMAIN queue /\ DOMAIN worker.jobs = DOMAIN queue
    /\ \A i \in DOMAIN queue :
         worker.jobs[i].n = queue[i].n /\ Tallied(worker.jobs[i], attempts, copies, faults)
    /\ worker.pc = "send" => worker.index = index

UnmadeUnsent == \A n \in (1..MaxJobs) \ DOMAIN made : attempts[n] = 0 /\ copies[n] = 0

Alone ==
  /\ route.pc = "idle" \/ worker.pc = "idle"
  /\ QueueTallied /\ RouteHolds /\ WorkerHolds /\ UnmadeUnsent
  /\ PromisesKept

AloneInv == ~overlapped => Alone
=============================================================================
