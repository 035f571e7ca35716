-------------------------- MODULE PageQueuesProofs --------------------------
(***************************************************************************)
(* The invariants of the two queues the page works off by itself: the      *)
(* Explorer's operations (OpQueue) and the Collector's clicks (Collector). *)
(* Each has an inductive invariant of its own, stated in its module.       *)
(***************************************************************************)
EXTENDS OpQueue, Collector, FiniteSetTheorems, TLAPS

-----------------------------------------------------------------------------
(***************************************************************************)
(* OpQueue, for every number of jobs, operations, attempts, retries and    *)
(* reloads, with working and with failing storage.                         *)
(* The argument: IInv of module OpQueue is inductive.  Every step that     *)
(* changes the list is one of a few changes of a list (ListOK is kept by   *)
(* each, whether the list is the one in memory or the one in storage), and *)
(* the flag run() tests keeps the drains down to one.  With it, each step  *)
(* maps to a step or a stutter of SerialExecutor; and with storage that    *)
(* works, what is stored is the list, so that a reload loses nothing.      *)
(***************************************************************************)
\* What the two updates of a single entry do.
LEMMA StartedEntry ==
  ASSUME NEW r \in Job
  PROVE  /\ Started(r) \in Job
         /\ Started(r).st = "running"
         /\ Started(r).att = r.att + 1
         /\ Started(r).extra = r.extra
         /\ Started(r).ops = r.ops
<1>1. [r EXCEPT !.st = "running"] \in Job
  BY DEF Job, Status
<1>2. \A q \in Job : [q EXCEPT !.att = @ + 1] \in Job
  BY DEF Job
<1>3. Started(r) = [[r EXCEPT !.st = "running"] EXCEPT !.att = @ + 1]
  BY DEF Started, Job
<1>4. Started(r) \in Job
  BY <1>1, <1>2, <1>3
<1>5. QED
  BY <1>4 DEF Started, Job

LEMMA AgainEntry ==
  ASSUME NEW r \in Job
  PROVE  /\ Again(r) \in Job
         /\ Again(r).st = "queued"
         /\ Again(r).att = r.att
         /\ Again(r).extra = r.extra + 1
         /\ Again(r).ops = r.ops
<1>1. [r EXCEPT !.st = "queued"] \in Job
  BY DEF Job, Status
<1>2. \A q \in Job : [q EXCEPT !.extra = @ + 1] \in Job
  BY DEF Job
<1>3. Again(r) = [[r EXCEPT !.st = "queued"] EXCEPT !.extra = @ + 1]
  BY DEF Again, Job
<1>4. Again(r) \in Job
  BY <1>1, <1>2, <1>3
<1>5. QED
  BY <1>4 DEF Again, Job

\* A list stays good when acknowledgements and job numbers only grow.
LEMMA ListGrows ==
  ASSUME NEW js, NEW n \in Nat, NEW m \in Nat, n <= m, NEW ack, NEW ack2,
         ack \subseteq ack2, ListOK(js, n, ack)
  PROVE  ListOK(js, m, ack2)
  BY DEF ListOK, IsList

\* slice() and filter() keep a list good.
LEMMA KeepOK ==
  ASSUME NEW js, NEW n \in Nat, NEW ack, ListOK(js, n, ack),
         NEW S \in SUBSET DOMAIN js
  PROVE  ListOK(Keep(js, S), n, ack)
  BY DEF ListOK, IsList, Keep

\* Cancelling an entry keeps a list good.
LEMMA CancelOK ==
  ASSUME NEW js, NEW n \in Nat, NEW ack, ListOK(js, n, ack), NEW j
  PROVE  ListOK(SetStatus(js, j, "cancelled"), n, ack)
  BY DEF ListOK, IsList, SetStatus, Job, Status

\* Writing progress keeps a list good.
LEMMA ProgOK ==
  ASSUME NEW js, NEW n \in Nat, NEW ack, ListOK(js, n, ack), NEW j,
         NEW p \in 0..MaxOps
  PROVE  ListOK(SetProg(js, j, p), n, ack)
  BY OpQueueAssumption DEF ListOK, IsList, SetProg, Job, Status

\* A reload keeps a list good: the run it cuts off is one more run allowed.
LEMMA RehydratedOK ==
  ASSUME NEW js, NEW n \in Nat, NEW ack, ListOK(js, n, ack)
  PROVE  ListOK(Rehydrated(js), n, ack)
<1>1. Newest(DOMAIN js) \subseteq DOMAIN js
  BY DEF Newest
<1>2. ASSUME NEW j \in DOMAIN js
      PROVE  /\ Again(js[j]) \in Job
             /\ Again(js[j]).st = "queued"
             /\ Again(js[j]).att = js[j].att
             /\ Again(js[j]).extra = js[j].extra + 1
  BY AgainEntry DEF ListOK, IsList
<1>3. ASSUME NEW j \in DOMAIN js
      PROVE  /\ js[j] \in Job
             /\ js[j].att \in Nat
             /\ js[j].extra \in Nat
             /\ js[j].att <= MaxAttempts + js[j].extra
  BY DEF ListOK, IsList, Job
<1>4. Rehydrated(js) \in [Newest(DOMAIN js) -> Job]
  BY <1>1, <1>2, <1>3 DEF Rehydrated
<1>5. QED
  BY <1>1, <1>2, <1>3, <1>4, OpQueueAssumption DEF ListOK, IsList, Rehydrated

\* Marking an entry done keeps a list good once each of its operations is
\* acknowledged.
LEMMA DoneOK ==
  ASSUME NEW js, NEW n \in Nat, NEW ack, ListOK(js, n, ack), NEW j,
         j \in DOMAIN js => \A i \in 1..js[j].ops : <<j, i>> \in ack
  PROVE  ListOK(SetStatus(js, j, "done"), n, ack)
<1>1. CASE j \notin DOMAIN js
  BY <1>1 DEF SetStatus
<1>2. CASE j \in DOMAIN js
  <2> DEFINE new == [js EXCEPT ![j].st = "done"]
  <2>1. SetStatus(js, j, "done") = new
    BY <1>2 DEF SetStatus
  <2>2. js[j] \in Job
    BY <1>2 DEF ListOK, IsList
  <2>3. /\ new[j] \in Job
        /\ new[j].st = "done"
        /\ new[j].att = js[j].att
        /\ new[j].extra = js[j].extra
        /\ new[j].ops = js[j].ops
    BY <1>2, <2>2 DEF Job, Status
  <2>4. DOMAIN new = DOMAIN js /\ \A k \in DOMAIN js : k # j => new[k] = js[k]
    OBVIOUS
  <2>5. IsList(new, n)
    BY <2>3, <2>4 DEF ListOK, IsList
  <2> HIDE DEF new
  <2>6. QED
    BY <2>1, <2>3, <2>4, <2>5 DEF ListOK
<1>3. QED
  BY <1>1, <1>2

\* Starting a queued job uses up the attempt it still has.
LEMMA StartOK ==
  ASSUME NEW js, NEW n \in Nat, NEW ack, ListOK(js, n, ack), NEW j \in Queued(js)
  PROVE  ListOK([js EXCEPT ![j] = Started(@)], n, ack)
<1>1. /\ Started(js[j]) \in Job
      /\ Started(js[j]).st = "running"
      /\ Started(js[j]).att = js[j].att + 1
      /\ Started(js[j]).extra = js[j].extra
  BY StartedEntry DEF ListOK, IsList, Queued
<1>2. js[j].att \in Nat /\ js[j].extra \in Nat /\ js[j].att < MaxAttempts + js[j].extra
  BY DEF ListOK, IsList, Queued, Job
<1>3. QED
  BY <1>1, <1>2, OpQueueAssumption DEF ListOK, IsList, Queued

\* After a failure the job has an attempt left, or is given up.
LEMMA FailureOK ==
  ASSUME NEW js, NEW n \in Nat, NEW ack, ListOK(js, n, ack), NEW j \in DOMAIN js
  PROVE  ListOK(SetStatus(js, j, AfterFailure(js[j])), n, ack)
  BY OpQueueAssumption DEF ListOK, IsList, SetStatus, AfterFailure, Job, Status

\* retry() queues a failed job with one more run allowed.
LEMMA AgainOK ==
  ASSUME NEW js, NEW n \in Nat, NEW ack, ListOK(js, n, ack), NEW j \in DOMAIN js
  PROVE  ListOK([js EXCEPT ![j] = Again(@)], n, ack)
<1>1. /\ Again(js[j]) \in Job
      /\ Again(js[j]).st = "queued"
      /\ Again(js[j]).att = js[j].att
      /\ Again(js[j]).extra = js[j].extra + 1
  BY AgainEntry DEF ListOK, IsList
<1>2. /\ js[j].att \in Nat
      /\ js[j].extra \in Nat
      /\ js[j].att <= MaxAttempts + js[j].extra
  BY DEF ListOK, IsList, Job
<1>3. QED
  BY <1>1, <1>2, OpQueueAssumption DEF ListOK, IsList

-----------------------------------------------------------------------------
\* A reading of the invariant: the flag is down exactly when all drains are idle.
LEMMA IdleWhenNotRunning ==
  ASSUME IInv, ~running, NEW l \in Loops
  PROVE  loop[l] = Idle
  BY DEF IInv, OneDrain

\* run() on a good list keeps the invariant, whoever calls it.
LEMMA RunStep ==
  ASSUME IInv, NEW js,
         lastId' \in lastId..MaxJobs, acked' = acked, reloads' = reloads,
         ListOK(js, lastId', acked),
         \A l \in Loops : loop[l].pc = "call" /\ loop[l].id \in DOMAIN js
                           => js[loop[l].id].ops = loop[l].ops,
         Run(js)
  PROVE  IInv'
<1> USE OpQueueAssumption
<1>1. lastId \in Nat /\ lastId' \in Nat /\ lastId <= lastId'
  BY DEF IInv, TypeOK
<1>2. ListOK(stored, lastId', acked')
  BY <1>1, ListGrows DEF IInv
<1>3. CASE jobs' = js /\ UNCHANGED <<running, loop>> /\ (running \/ Queued(js) = {})
  <2>1. ListOK(jobs', lastId', acked') /\ ListOK(stored', lastId', acked')
    BY <1>2, <1>3 DEF Run, Persist
  <2>2. \A l \in Loops : CallOK(loop'[l], jobs', lastId', acked')
    BY <1>1, <1>3 DEF IInv, CallOK
  <2>3. OneDrain' /\ NoStrandedJob'
    BY <1>3 DEF IInv, OneDrain, NoStrandedJob
  <2>4. TypeOK'
    <3>1. running' \in BOOLEAN /\ idleBoot' \in BOOLEAN
      BY <1>3 DEF IInv, TypeOK, Run
    <3>2. lastId' \in 0..MaxJobs /\ IsList(jobs, lastId)' /\ IsList(stored, lastId)'
      BY <1>1, <2>1 DEF ListOK
    <3>3. QED
      BY <1>3, <3>1, <3>2 DEF IInv, TypeOK
  <2>5. QED
    BY <2>1, <2>2, <2>3, <2>4 DEF IInv
<1>4. CASE /\ ~running
           /\ running' = TRUE
           /\ \E l \in Loops : loop[l] = Idle /\ StartOldest(js, l)
  <2>1. PICK l \in Loops, j \in Queued(js) :
          /\ jobs' = [js EXCEPT ![j] = Started(@)]
          /\ loop' = [loop EXCEPT ![l] = Call(j, js[j].ops, 1)]
    BY <1>4 DEF StartOldest
  <2>2. j \in 1..lastId' /\ js[j] \in Job /\ j \in DOMAIN js
    BY DEF Queued, ListOK, IsList
  <2>3. ListOK(jobs', lastId', acked') /\ ListOK(stored', lastId', acked')
    <3>1. ListOK([js EXCEPT ![j] = Started(@)], lastId', acked)
      BY <1>1, StartOK
    <3>2. stored' = jobs' \/ stored' = stored
      BY DEF Run, Persist
    <3>3. QED
      BY <1>2, <2>1, <3>1, <3>2
  <2>4. js[j].ops \in 1..MaxOps
    BY <2>2 DEF Job
  <2>5. loop' \in [Loops -> LoopState]
    BY <1>1, <2>1, <2>2, <2>4 DEF IInv, TypeOK, LoopState, Call
  <2>6. \A m \in Loops : m # l => loop'[m] = Idle
    BY <1>4, <2>1, IdleWhenNotRunning DEF IInv, TypeOK
  <2>7. loop'[l] = Call(j, js[j].ops, 1)
    BY <2>1 DEF IInv, TypeOK
  <2>8. jobs'[j].ops = js[j].ops
    BY <2>1, <2>2, StartedEntry
  <2>9. \A m \in Loops : CallOK(loop'[m], jobs', lastId', acked')
    BY <2>2, <2>4, <2>6, <2>7, <2>8 DEF CallOK, Idle, Call
  <2>10. OneDrain' /\ NoStrandedJob'
    BY <1>4, <2>6, <2>7 DEF OneDrain, NoStrandedJob, Idle, Call
  <2>11. TypeOK'
    <3>1. running' \in BOOLEAN /\ idleBoot' \in BOOLEAN
      BY <1>4 DEF IInv, TypeOK, Run
    <3>2. lastId' \in 0..MaxJobs /\ IsList(jobs, lastId)' /\ IsList(stored, lastId)'
      BY <1>1, <2>3 DEF ListOK
    <3>3. QED
      BY <1>4, <2>5, <3>1, <3>2 DEF IInv, TypeOK
  <2>12. QED
    BY <2>3, <2>9, <2>10, <2>11 DEF IInv
<1>5. QED
  BY <1>3, <1>4 DEF Run

\* A change of the list alone keeps the invariant if it queues nothing and
\* leaves the operations of every entry alone.
LEMMA ListStep ==
  ASSUME IInv, ListOK(jobs', lastId, acked), Persist,
         UNCHANGED <<running, loop, lastId, acked, reloads, idleBoot>>,
         \A j \in DOMAIN jobs' : j \in DOMAIN jobs /\ jobs'[j].ops = jobs[j].ops,
         Queued(jobs') \subseteq Queued(jobs)
  PROVE  IInv'
<1>1. ListOK(stored', lastId, acked)
  BY DEF IInv, Persist
<1>2. \A l \in Loops : CallOK(loop'[l], jobs', lastId', acked')
  BY DEF IInv, CallOK
<1>3. OneDrain'
  BY DEF IInv, OneDrain
<1>4. NoStrandedJob'
  BY DEF IInv, NoStrandedJob
<1>5. TypeOK'
  BY <1>1 DEF IInv, TypeOK, ListOK
<1>6. QED
  BY <1>1, <1>2, <1>3, <1>4, <1>5 DEF IInv

\* A step of the drain l that ends its work on a job keeps the invariant.
LEMMA ReturnStep ==
  ASSUME IInv, NEW l \in Loops, loop[l].pc = "call",
         ListOK(jobs', lastId, acked'), Persist,
         acked \subseteq acked', acked' \subseteq (Nat \X (1..MaxOps)),
         loop' = [loop EXCEPT ![l] = AtLoop],
         UNCHANGED <<running, lastId, reloads, idleBoot>>
  PROVE  IInv'
<1>1. ListOK(stored', lastId, acked')
  BY ListGrows DEF IInv, TypeOK, Persist
<1>2. /\ loop' \in [Loops -> LoopState]
      /\ loop'[l] = AtLoop
      /\ \A m \in Loops : m # l => loop'[m] = loop[m]
  BY OpQueueAssumption DEF IInv, TypeOK, AtLoop, LoopState
<1>3. running /\ \A m \in Loops : m # l => loop[m] = Idle
  BY DEF IInv, OneDrain, Idle
<1>4. \A m \in Loops : CallOK(loop'[m], jobs', lastId', acked')
  BY <1>2, <1>3 DEF CallOK, AtLoop, Idle
<1>5. OneDrain'
  BY <1>2, <1>3 DEF OneDrain, AtLoop, Idle
<1>6. NoStrandedJob'
  BY <1>3 DEF NoStrandedJob
<1>7. TypeOK'
  BY <1>1, <1>2 DEF IInv, TypeOK, ListOK
<1>8. QED
  BY <1>1, <1>4, <1>5, <1>6, <1>7 DEF IInv

\* The drain going on to the next job, or ending, keeps the invariant.
LEMMA NextJobStep ==
  ASSUME IInv, NEW l \in Loops, NextJob(l)
  PROVE  IInv'
<1> USE OpQueueAssumption
<1>1. loop[l] = AtLoop /\ lastId \in Nat
  BY DEF NextJob, IInv, TypeOK
<1>2. running /\ \A m \in Loops : m # l => loop[m] = Idle
  BY <1>1 DEF IInv, OneDrain, Idle, AtLoop
<1>3. CASE StartOldest(jobs, l) /\ UNCHANGED running /\ Persist
  <2>1. PICK j \in Queued(jobs) :
          /\ jobs' = [jobs EXCEPT ![j] = Started(@)]
          /\ loop' = [loop EXCEPT ![l] = Call(j, jobs[j].ops, 1)]
    BY <1>3 DEF StartOldest
  <2>2. j \in 1..lastId /\ jobs[j] \in Job /\ j \in DOMAIN jobs
    BY DEF Queued, IInv, TypeOK, IsList
  <2>3. ListOK(jobs', lastId, acked) /\ ListOK(stored', lastId, acked)
    <3>1. ListOK([jobs EXCEPT ![j] = Started(@)], lastId, acked)
      BY <1>1, StartOK DEF IInv
    <3>2. stored' = jobs' \/ stored' = stored
      BY <1>3 DEF Persist
    <3>3. QED
      BY <2>1, <3>1, <3>2 DEF IInv
  <2>4. jobs[j].ops \in 1..MaxOps
    BY <2>2 DEF Job
  <2>5. /\ loop' \in [Loops -> LoopState]
        /\ loop'[l] = Call(j, jobs[j].ops, 1)
        /\ \A m \in Loops : m # l => loop'[m] = Idle
    BY <1>1, <1>2, <2>1, <2>2, <2>4 DEF IInv, TypeOK, LoopState, Call
  <2>6. jobs'[j].ops = jobs[j].ops
    BY <2>1, <2>2, StartedEntry
  <2>7. \A m \in Loops : CallOK(loop'[m], jobs', lastId, acked)
    BY <2>2, <2>4, <2>5, <2>6 DEF CallOK, Idle, Call
  <2>8. UNCHANGED <<running, lastId, acked, reloads, idleBoot>>
    BY <1>3 DEF NextJob
  <2>9. OneDrain' /\ NoStrandedJob'
    BY <1>2, <2>5, <2>8 DEF OneDrain, NoStrandedJob, Idle, Call
  <2>10. TypeOK'
    BY <2>3, <2>5, <2>8 DEF IInv, TypeOK, ListOK
  <2>11. QED
    BY <2>3, <2>7, <2>8, <2>9, <2>10 DEF IInv
<1>4. CASE /\ Queued(jobs) = {}
           /\ loop' = [loop EXCEPT ![l] = Idle]
           /\ running' = FALSE
           /\ UNCHANGED <<jobs, stored>>
  <2>1. /\ loop' \in [Loops -> LoopState]
        /\ \A m \in Loops : loop'[m] = Idle
    BY <1>2, <1>4 DEF IInv, TypeOK, LoopState, Idle
  <2>2. UNCHANGED <<lastId, acked, reloads, idleBoot>>
    BY DEF NextJob
  <2>3. \A m \in Loops : CallOK(loop'[m], jobs', lastId', acked')
    BY <2>1 DEF CallOK, Idle
  <2>4. OneDrain' /\ NoStrandedJob'
    BY <1>4, <2>1 DEF OneDrain, NoStrandedJob
  <2>5. TypeOK'
    BY <1>4, <2>1, <2>2 DEF IInv, TypeOK
  <2>6. QED
    BY <1>4, <2>2, <2>3, <2>4, <2>5 DEF IInv
<1>5. QED
  BY <1>3, <1>4 DEF NextJob

\* An operation answered "ok" keeps the invariant: the job goes on to the next
\* operation, stops because it was cancelled or dropped, or is done.
LEMMA OpOkStep ==
  ASSUME IInv, NEW l \in Loops, OpOk(l)
  PROVE  IInv'
<1> DEFINE j == loop[l].id
           i == loop[l].op
           js == SetProg(jobs, j, i)
<1> USE OpQueueAssumption
<1>1. /\ loop[l].pc = "call" /\ lastId \in Nat
      /\ j \in 1..lastId
      /\ loop[l].ops \in 1..MaxOps
      /\ i \in 1..loop[l].ops
      /\ j \in DOMAIN jobs => jobs[j].ops = loop[l].ops
      /\ \A k \in 1..(i - 1) : <<j, k>> \in acked
  BY DEF OpOk, IInv, CallOK, TypeOK
<1>2. /\ acked' = acked \cup {<<j, i>>}
      /\ acked' \subseteq (Nat \X (1..MaxOps))
      /\ \A k \in 1..i : <<j, k>> \in acked'
      /\ UNCHANGED <<running, lastId, reloads, idleBoot>>
  BY <1>1 DEF OpOk, IInv, TypeOK
<1>3. ListOK(js, lastId, acked')
  <2>1. ListOK(jobs, lastId, acked')
    BY <1>1, <1>2, ListGrows DEF IInv
  <2>2. QED
    BY <1>1, <2>1, ProgOK
<1>4. /\ DOMAIN js = DOMAIN jobs
      /\ \A k \in DOMAIN js : js[k].ops = jobs[k].ops /\ js[k].st = jobs[k].st
  BY DEF SetProg, IInv, TypeOK, IsList, Job
<1>5. CASE i < loop[l].ops /\ GoesOn(js, j)
  <2>1. jobs' = js /\ loop' = [loop EXCEPT ![l] = [@ EXCEPT !.op = i + 1]] /\ Persist
    BY <1>1, <1>5 DEF OpOk
  <2>2. ListOK(stored', lastId, acked')
    BY <1>1, <1>2, <1>3, <2>1, ListGrows DEF IInv, Persist
  <2>3. loop[l] \in LoopState
    BY DEF IInv, TypeOK
  <2>4. /\ loop'[l].pc = "call" /\ loop'[l].id = j
        /\ loop'[l].ops = loop[l].ops /\ loop'[l].op = i + 1
        /\ loop'[l] \in LoopState
    BY <1>1, <1>5, <2>1, <2>3 DEF IInv, TypeOK, LoopState
  <2>5. running /\ \A m \in Loops : m # l => loop[m] = Idle
    BY <1>1 DEF IInv, OneDrain, Idle
  <2>6. /\ loop' \in [Loops -> LoopState]
        /\ \A m \in Loops : m # l => loop'[m] = Idle
    BY <2>1, <2>4, <2>5 DEF IInv, TypeOK
  <2>7. CallOK(loop'[l], jobs', lastId', acked')
    BY <1>1, <1>2, <1>4, <1>5, <2>1, <2>4 DEF CallOK
  <2>8. \A m \in Loops : CallOK(loop'[m], jobs', lastId', acked')
    BY <2>6, <2>7 DEF CallOK, Idle
  <2>9. OneDrain' /\ NoStrandedJob'
    BY <1>2, <2>4, <2>5, <2>6 DEF OneDrain, NoStrandedJob, Idle
  <2>10. TypeOK'
    BY <1>2, <1>3, <2>1, <2>2, <2>6 DEF IInv, TypeOK, ListOK
  <2>11. QED
    BY <1>2, <1>3, <2>1, <2>2, <2>8, <2>9, <2>10 DEF IInv
<1>6. CASE i < loop[l].ops /\ ~GoesOn(js, j)
  <2>1. jobs' = js /\ loop' = [loop EXCEPT ![l] = AtLoop] /\ Persist
    BY <1>1, <1>6 DEF OpOk
  <2>2. QED
    BY <1>1, <1>2, <1>3, <2>1, ReturnStep
<1>7. CASE i = loop[l].ops
  <2>1. loop' = [loop EXCEPT ![l] = AtLoop] /\ Persist
    BY <1>1, <1>7 DEF OpOk
  <2>2. ListOK(SetStatus(js, j, "done"), lastId, acked')
    BY <1>1, <1>2, <1>3, <1>4, <1>7, DoneOK
  <2>3. ListOK(jobs', lastId, acked')
    BY <1>1, <1>3, <1>7, <2>2 DEF OpOk
  <2>4. QED
    BY <1>1, <1>2, <2>1, <2>3, ReturnStep
<1>8. QED
  BY <1>1, <1>5, <1>6, <1>7

\* A failed operation keeps the invariant: the status it writes is one the
\* attempts allow, whatever status it overwrites.
LEMMA OpFailedStep ==
  ASSUME IInv, NEW l \in Loops, OpFailed(l)
  PROVE  IInv'
<1> DEFINE j == loop[l].id
           js == SetProg(jobs, j, loop[l].op - 1)
<1> USE OpQueueAssumption
<1>1. /\ loop[l].pc = "call" /\ lastId \in Nat
      /\ loop[l].op - 1 \in 0..MaxOps
      /\ loop' = [loop EXCEPT ![l] = AtLoop]
      /\ UNCHANGED <<running, lastId, acked, reloads, idleBoot>>
      /\ Persist
      /\ acked \subseteq (Nat \X (1..MaxOps))
  BY DEF OpFailed, IInv, CallOK, TypeOK
<1>2. ListOK(js, lastId, acked)
  BY <1>1, ProgOK DEF IInv
<1>3. CASE j \in DOMAIN js
  <2>1. jobs' = SetStatus(js, j, AfterFailure(js[j]))
    BY <1>3 DEF OpFailed
  <2>2. ListOK(jobs', lastId, acked)
    BY <1>1, <1>2, <1>3, <2>1, FailureOK
  <2>3. QED
    BY <1>1, <2>2, ReturnStep
<1>4. CASE j \notin DOMAIN js
  <2>1. jobs' = js
    BY <1>4 DEF OpFailed
  <2>2. QED
    BY <1>1, <1>2, <2>1, ReturnStep
<1>5. QED
  BY <1>3, <1>4

LEMMA CancelStep ==
  ASSUME IInv, NEW j, Cancel(j)
  PROVE  IInv'
<1>1. ListOK(jobs', lastId, acked)
  BY CancelOK DEF Cancel, IInv, TypeOK
<1>2. \A k \in DOMAIN jobs' : k \in DOMAIN jobs /\ jobs'[k].ops = jobs[k].ops
  BY DEF Cancel, SetStatus, IInv, TypeOK, IsList, Job
<1>3. Queued(jobs') \subseteq Queued(jobs)
  BY DEF Cancel, SetStatus, Queued, IInv, TypeOK, IsList, Job
<1>4. QED
  BY <1>1, <1>2, <1>3, ListStep DEF Cancel

LEMMA ClearFinishedStep ==
  ASSUME IInv, ClearFinished
  PROVE  IInv'
<1>1. ListOK(jobs', lastId, acked)
  BY KeepOK DEF ClearFinished, IInv, TypeOK
<1>2. \A k \in DOMAIN jobs' : k \in DOMAIN jobs /\ jobs'[k] = jobs[k]
  BY DEF ClearFinished, Keep
<1>3. Queued(jobs') \subseteq Queued(jobs)
  BY <1>2 DEF Queued
<1>4. QED
  BY <1>1, <1>2, <1>3, ListStep DEF ClearFinished

LEMMA ProgressStep ==
  ASSUME IInv, NEW l \in Loops, NEW f \in {0, 1}, Progress(l, f)
  PROVE  IInv'
<1>1. loop[l].op - 1 + f \in 0..MaxOps
  BY OpQueueAssumption DEF Progress, IInv, CallOK, TypeOK
<1>2. ListOK(jobs', lastId, acked)
  BY <1>1, ProgOK DEF Progress, IInv, TypeOK
<1>3. /\ \A k \in DOMAIN jobs' : k \in DOMAIN jobs /\ jobs'[k].ops = jobs[k].ops
      /\ Queued(jobs') \subseteq Queued(jobs)
  BY DEF Progress, SetProg, Queued, IInv, TypeOK, IsList, Job
<1>4. QED
  BY <1>2, <1>3, ListStep DEF Progress

LEMMA EnqueueStep ==
  ASSUME IInv, NEW n \in 1..MaxOps, Enqueue(n)
  PROVE  IInv'
<1> DEFINE new == [st |-> "queued", ops |-> n, att |-> 0, prog |-> 0, extra |-> 0]
           all == [j \in DOMAIN jobs \cup {lastId + 1} |->
                     IF j = lastId + 1 THEN new ELSE jobs[j]]
           js == Keep(all, Newest(DOMAIN all))
<1> USE OpQueueAssumption
<1>1. lastId \in Nat /\ lastId' = lastId + 1 /\ lastId' \in lastId..MaxJobs
  BY DEF Enqueue, IInv, TypeOK
<1>2. new \in Job
  BY DEF Job, Status
<1>3. ListOK(jobs, lastId + 1, acked)
  BY <1>1, ListGrows DEF IInv
<1>4. ListOK(all, lastId', acked)
  BY <1>1, <1>2, <1>3 DEF ListOK, IsList
<1>5. Newest(DOMAIN all) \subseteq DOMAIN all
  BY DEF Newest
<1>6. ListOK(js, lastId', acked)
  <2> HIDE DEF all
  <2>1. QED
    BY <1>1, <1>4, <1>5, KeepOK
<1>7. \A k \in DOMAIN js : k \in 1..lastId => k \in DOMAIN jobs /\ js[k] = jobs[k]
  BY <1>1, <1>5 DEF Keep
<1>8. \A l \in Loops : loop[l].pc = "call" /\ loop[l].id \in DOMAIN js
                        => js[loop[l].id].ops = loop[l].ops
  BY <1>7 DEF IInv, CallOK
<1>9. Run(js) /\ acked' = acked /\ reloads' = reloads
  BY DEF Enqueue
<1>10. QED
  <2> HIDE DEF js
  <2>1. QED
    BY <1>1, <1>6, <1>8, <1>9, RunStep

LEMMA RetryStep ==
  ASSUME IInv, NEW j, Retry(j)
  PROVE  IInv'
<1> DEFINE again == [jobs EXCEPT ![j] = Again(@)]
           js == SetProg(again, j, 0)
<1>1. j \in DOMAIN jobs /\ lastId \in Nat /\ lastId' \in lastId..MaxJobs
  BY OpQueueAssumption DEF Retry, IInv, TypeOK
<1>2. ListOK(again, lastId, acked)
  BY <1>1, AgainOK DEF IInv
<1>3. ListOK(js, lastId', acked)
  <2> HIDE DEF again
  <2>1. QED
    BY <1>1, <1>2, ProgOK, OpQueueAssumption DEF Retry
<1>4. \A k \in DOMAIN js : k \in DOMAIN jobs /\ js[k].ops = jobs[k].ops
  <2>1. again \in [DOMAIN jobs -> Job]
    BY <1>2 DEF ListOK, IsList
  <2>2. \A k \in DOMAIN jobs : again[k].ops = jobs[k].ops
    BY <1>1, AgainEntry DEF IInv, TypeOK, IsList
  <2>3. DOMAIN js = DOMAIN jobs /\ \A k \in DOMAIN jobs : js[k].ops = again[k].ops
    <3> HIDE DEF again
    <3>1. QED
      BY <2>1 DEF SetProg, Job
  <2>4. QED
    BY <2>2, <2>3
<1>5. \A l \in Loops : loop[l].pc = "call" /\ loop[l].id \in DOMAIN js
                        => js[loop[l].id].ops = loop[l].ops
  BY <1>4 DEF IInv, CallOK
<1>6. Run(js) /\ acked' = acked /\ reloads' = reloads
  BY DEF Retry
<1>7. QED
  <2> HIDE DEF js
  <2>1. QED
    BY <1>1, <1>3, <1>5, <1>6, RunStep

LEMMA RefreshStep ==
  ASSUME IInv, Refresh
  PROVE  IInv'
<1>1. lastId' \in lastId..MaxJobs /\ ListOK(jobs, lastId', acked)
  BY OpQueueAssumption DEF Refresh, IInv, TypeOK
<1>2. QED
  BY <1>1, RunStep DEF Refresh, IInv, CallOK

LEMMA ReloadStep ==
  ASSUME IInv, Reload
  PROVE  IInv'
<1>1. ListOK(jobs', lastId, acked)
  BY RehydratedOK DEF Reload, IInv, TypeOK
<1>2. /\ loop' \in [Loops -> LoopState]
      /\ \A l \in Loops : loop'[l] = Idle
  BY OpQueueAssumption DEF Reload, LoopState, Idle
<1>3. \A l \in Loops : CallOK(loop'[l], jobs', lastId', acked')
  BY <1>2 DEF CallOK, Idle
<1>4. OneDrain' /\ NoStrandedJob'
  BY <1>2 DEF Reload, OneDrain, NoStrandedJob
<1>5. TypeOK'
  <2>1. running' \in BOOLEAN /\ idleBoot' \in BOOLEAN
    BY DEF Reload
  <2>2. reloads' \in 0..MaxReloads /\ IsList(jobs', lastId)
    BY <1>1, OpQueueAssumption DEF Reload, IInv, TypeOK, ListOK
  <2>3. QED
    BY <1>2, <2>1, <2>2 DEF Reload, IInv, TypeOK
<1>6. QED
  BY <1>1, <1>3, <1>4, <1>5 DEF Reload, IInv

-----------------------------------------------------------------------------
LEMMA InitIInv == Init => IInv
<1> SUFFICES ASSUME Init PROVE IInv
  OBVIOUS
<1>1. /\ lastId = 0 /\ jobs = NoJobs /\ stored = NoJobs /\ reloads = 0
      /\ acked = {} /\ loop = [l \in Loops |-> Idle]
  BY DEF Init
<1>2. ListOK(jobs, lastId, acked) /\ ListOK(stored, lastId, acked)
  BY <1>1 DEF ListOK, IsList, NoJobs
<1>3. loop \in [Loops -> LoopState] /\ \A l \in Loops : loop[l] = Idle
  BY <1>1, OpQueueAssumption DEF LoopState, Idle
<1>4. running \in BOOLEAN /\ idleBoot \in BOOLEAN
  BY DEF Init
<1>5. TypeOK
  BY <1>1, <1>2, <1>3, <1>4, OpQueueAssumption DEF TypeOK, ListOK
<1>6. \A l \in Loops : CallOK(loop[l], jobs, lastId, acked)
  BY <1>3 DEF CallOK, Idle
<1>7. OneDrain /\ NoStrandedJob
  BY <1>1, <1>3 DEF OneDrain, NoStrandedJob, Queued, NoJobs, Init
<1>8. QED
  BY <1>2, <1>5, <1>6, <1>7 DEF IInv

LEMMA NextIInv == IInv /\ [Next]_vars => IInv'
<1> SUFFICES ASSUME IInv, [Next]_vars PROVE IInv'
  OBVIOUS
<1>1. CASE \E n \in 1..MaxOps : Enqueue(n)
  BY <1>1, EnqueueStep
<1>2. CASE \E j \in DOMAIN jobs : Cancel(j) \/ Retry(j)
  BY <1>2, CancelStep, RetryStep
<1>3. CASE ClearFinished
  BY <1>3, ClearFinishedStep
<1>4. CASE Refresh
  BY <1>4, RefreshStep
<1>5. CASE \E l \in Loops : Drain(l)
  BY <1>5, NextJobStep, OpOkStep, OpFailedStep DEF Drain
<1>6. CASE \E l \in Loops : \E f \in {0, 1} : Progress(l, f)
  BY <1>6, ProgressStep
<1>7. CASE Reload
  BY <1>7, ReloadStep
<1>8. CASE UNCHANGED vars
  BY <1>8 DEF vars, IInv, TypeOK, OneDrain, NoStrandedJob
<1>9. QED
  BY <1>1, <1>2, <1>3, <1>4, <1>5, <1>6, <1>7, <1>8 DEF Next

\* IInv holds in every reachable state.
THEOREM Invariance == Spec => []IInv
<1>1. QED
  BY InitIInv, NextIInv, PTL DEF Spec

\* Every variable keeps its type.
THEOREM TypeCorrect == Spec => []TypeOK
<1>1. IInv => TypeOK
  BY DEF IInv
<1>2. QED
  BY <1>1, Invariance, PTL

\* One activation of run() drains at a time, and a queued job has it coming.
THEOREM MutualExclusion == Spec => []DrainedByOne
<1>1. IInv => DrainedByOne
  BY DEF IInv, DrainedByOne
<1>2. QED
  BY <1>1, Invariance, PTL

\* Operations of a job are sent in order, each after its predecessor's "ok", and
\* "done" is never shown for a job with an operation that was not acknowledged.
THEOREM Ordering == Spec => []AckedInOrder
<1>1. IInv => OpsInOrder
  BY DEF IInv, CallOK, OpsInOrder
<1>2. IInv => DoneMeansAcked
  BY DEF IInv, ListOK, DoneMeansAcked
<1>3. IInv => AckedInOrder
  BY <1>1, <1>2 DEF AckedInOrder
<1>4. QED
  BY <1>3, Invariance, PTL

\* Attempts are bounded by maxAttempts plus the retries and cut-off runs.
THEOREM AttemptsBounded == Spec => []BoundedAttempts
<1>1. IInv => BoundedAttempts
  BY DEF IInv, ListOK, BoundedAttempts
<1>2. QED
  BY <1>1, Invariance, PTL

-----------------------------------------------------------------------------
\* The queue implements SerialExecutor.

\* Nothing is sent when no drain waits for an answer.
LEMMA NothingSent ==
  ASSUME NEW lp, \A l \in Loops : lp[l].pc # "call"
  PROVE  Sending(lp) = <<0, 0>>
  BY DEF Sending, InFlight

\* What is sent is the operation of the one drain that waits for an answer.
LEMMA OneSent ==
  ASSUME NEW lp, NEW l \in Loops, lp[l].pc = "call",
         \A m \in Loops : lp[m].pc = "call" => m = l
  PROVE  Sending(lp) = <<lp[l].id, lp[l].op>>
<1>1. InFlight(lp) = {l}
  BY DEF InFlight
<1>2. (CHOOSE m \in InFlight(lp) : TRUE) = l
  BY <1>1
<1>3. QED
  BY <1>1, <1>2 DEF Sending

\* The one activation that is not idle is the one that acts.
LEMMA OthersIdle ==
  ASSUME IInv, NEW l \in Loops, loop[l].pc # "idle", NEW m \in Loops, m # l
  PROVE  loop[m] = Idle
  BY DEF IInv, OneDrain, Idle

\* The jobs listed as done are complete.
LEMMA ListedComplete ==
  ASSUME IInv'
  PROVE  Serial!Complete
  BY DEF IInv, ListOK, DoneJobs, Serial!Complete

\* A step that leaves the drains alone arranges the list.
LEMMA ListArranges ==
  ASSUME IInv', loop' = loop, acked' = acked
  PROVE  Serial!Arrange
  BY ListedComplete DEF Serial!Arrange

\* A drain that starts a job, none having been under way, arranges the list.
LEMMA StartArranges ==
  ASSUME IInv, IInv', NEW js, NEW l \in Loops, StartOldest(js, l),
         Queued(js) \subseteq Nat \ {0}, acked' = acked,
         \A m \in Loops : loop[m].pc # "call"
  PROVE  Serial!Arrange
<1>1. PICK j \in Queued(js) : loop' = [loop EXCEPT ![l] = Call(j, js[j].ops, 1)]
  BY DEF StartOldest
<1>2. /\ loop'[l].pc = "call" /\ loop'[l].id = j /\ loop'[l].op = 1
      /\ \A m \in Loops : m # l => loop'[m] = loop[m]
  BY <1>1 DEF IInv, TypeOK, Call
<1>3. Sending(loop') = <<j, 1>>
  BY <1>2, OneSent
<1>4. Sending(loop) = <<0, 0>>
  BY NothingSent
<1>5. QED
  BY <1>3, <1>4, ListedComplete DEF Serial!Arrange, Serial!NoOp

\* run() starts a job or leaves the drains alone.
LEMMA RunArranges ==
  ASSUME IInv, IInv', NEW js, Run(js), Queued(js) \subseteq Nat \ {0}, acked' = acked
  PROVE  Serial!Arrange
<1>1. CASE UNCHANGED loop
  BY <1>1, ListArranges
<1>2. CASE ~running /\ \E l \in Loops : StartOldest(js, l)
  <2>1. \A m \in Loops : loop[m].pc # "call"
    BY <1>2, IdleWhenNotRunning DEF Idle
  <2>2. QED
    BY <1>2, <2>1, StartArranges
<1>3. QED
  BY <1>1, <1>2 DEF Run

LEMMA NextJobArranges ==
  ASSUME IInv, IInv', NEW l \in Loops, NextJob(l)
  PROVE  Serial!Arrange
<1>1. acked' = acked /\ \A m \in Loops : loop[m].pc # "call"
  BY OthersIdle DEF NextJob, AtLoop, Idle
<1>2. CASE StartOldest(jobs, l)
  <2>1. Queued(jobs) \subseteq Nat \ {0}
    BY DEF Queued, IInv, TypeOK, IsList
  <2>2. QED
    BY <1>1, <1>2, <2>1, StartArranges
<1>3. CASE loop' = [loop EXCEPT ![l] = Idle]
  <2>1. \A m \in Loops : loop'[m].pc # "call"
    BY <1>1, <1>3 DEF Idle, IInv, TypeOK
  <2>2. Sending(loop') = Sending(loop)
    BY <1>1, <2>1, NothingSent
  <2>3. QED
    BY <1>1, <2>2, ListedComplete DEF Serial!Arrange
<1>4. QED
  BY <1>2, <1>3 DEF NextJob

\* What is with the transport while drain l waits for it, and after it returned.
LEMMA SentByDrain ==
  ASSUME IInv, NEW l \in Loops, loop[l].pc = "call"
  PROVE  /\ Sending(loop) = <<loop[l].id, loop[l].op>>
         /\ Sending(loop) # <<0, 0>>
         /\ loop' = [loop EXCEPT ![l] = AtLoop] => Sending(loop') = <<0, 0>>
<1>1. /\ \A m \in Loops : m # l => loop[m] = Idle
      /\ loop[l].id \in Nat \ {0}
      /\ loop \in [Loops -> LoopState]
  BY OthersIdle DEF IInv, CallOK, TypeOK
<1>2. Sending(loop) = <<loop[l].id, loop[l].op>>
  BY <1>1, OneSent DEF Idle
<1>3. ASSUME loop' = [loop EXCEPT ![l] = AtLoop]
      PROVE  Sending(loop') = <<0, 0>>
  <2>1. \A m \in Loops : loop'[m].pc # "call"
    BY <1>1, <1>3 DEF AtLoop, Idle
  <2>2. QED
    BY <2>1, NothingSent
<1>4. QED
  BY <1>1, <1>2, <1>3

LEMMA OpOkAcknowledges ==
  ASSUME IInv, IInv', NEW l \in Loops, OpOk(l)
  PROVE  Serial!Acknowledge
<1> DEFINE j == loop[l].id
           i == loop[l].op
<1>1. loop[l].pc = "call" /\ acked' = acked \cup {<<j, i>>}
  BY DEF OpOk
<1>2. Sending(loop) = <<j, i>> /\ Sending(loop) # <<0, 0>>
  BY <1>1, SentByDrain
<1>3. CASE loop' = [loop EXCEPT ![l] = AtLoop]
  <2>1. Sending(loop') = <<0, 0>>
    BY <1>1, <1>3, SentByDrain
  <2>2. QED
    BY <1>1, <1>2, <2>1, ListedComplete DEF Serial!Acknowledge, Serial!NoOp
<1>4. CASE loop' = [loop EXCEPT ![l] = [@ EXCEPT !.op = i + 1]]
  <2>1. loop \in [Loops -> LoopState] /\ \A m \in Loops : m # l => loop[m] = Idle
    BY <1>1, OthersIdle DEF IInv, TypeOK
  <2>2. loop[l] \in LoopState
    BY <2>1
  <2>3. loop'[l] = [loop[l] EXCEPT !.op = i + 1]
    BY <1>4, <2>1
  <2>4. loop'[l].pc = "call" /\ loop'[l].id = j /\ loop'[l].op = i + 1
    BY <1>1, <2>2, <2>3 DEF LoopState
  <2>5. \A m \in Loops : m # l => loop'[m] = Idle
    BY <1>4, <2>1
  <2>6. Sending(loop') = <<j, i + 1>>
    BY <2>4, <2>5, OneSent DEF Idle
  <2>7. QED
    BY <1>1, <1>2, <2>6, ListedComplete DEF Serial!Acknowledge, Serial!NoOp
<1>5. QED
  BY <1>3, <1>4 DEF OpOk

LEMMA OpFailedGivesUp ==
  ASSUME IInv, IInv', NEW l \in Loops, OpFailed(l)
  PROVE  Serial!GiveUp
<1>1. loop[l].pc = "call" /\ acked' = acked /\ loop' = [loop EXCEPT ![l] = AtLoop]
  BY DEF OpFailed
<1>2. QED
  BY <1>1, SentByDrain, ListedComplete DEF Serial!GiveUp, Serial!NoOp

LEMMA ReloadGivesUp ==
  ASSUME IInv, IInv', Reload
  PROVE  Serial!Arrange \/ Serial!GiveUp
<1>1. acked' = acked /\ \A l \in Loops : loop'[l].pc # "call"
  BY DEF Reload, Idle
<1>2. Sending(loop') = <<0, 0>>
  BY <1>1, NothingSent
<1>3. QED
  BY <1>1, <1>2, ListedComplete DEF Serial!Arrange, Serial!GiveUp, Serial!NoOp

LEMMA EnqueueArranges ==
  ASSUME IInv, IInv', NEW n \in 1..MaxOps, Enqueue(n)
  PROVE  Serial!Arrange
<1> DEFINE new == [st |-> "queued", ops |-> n, att |-> 0, prog |-> 0, extra |-> 0]
           all == [j \in DOMAIN jobs \cup {lastId + 1} |->
                     IF j = lastId + 1 THEN new ELSE jobs[j]]
           js == Keep(all, Newest(DOMAIN all))
<1>1. Run(js) /\ acked' = acked
  BY DEF Enqueue
<1>2. DOMAIN js \subseteq DOMAIN jobs \cup {lastId + 1}
  BY DEF Keep, Newest
<1>3. DOMAIN jobs \subseteq 1..lastId /\ lastId \in Nat
  BY DEF IInv, TypeOK, IsList
<1> HIDE DEF js
<1>4. Queued(js) \subseteq Nat \ {0}
  BY <1>2, <1>3 DEF Queued
<1>5. QED
  BY <1>1, <1>4, RunArranges

LEMMA RetryArranges ==
  ASSUME IInv, IInv', NEW j, Retry(j)
  PROVE  Serial!Arrange
<1> DEFINE js == SetProg([jobs EXCEPT ![j] = Again(@)], j, 0)
<1>1. Run(js) /\ acked' = acked
  BY DEF Retry
<1>2. DOMAIN js = DOMAIN jobs
  BY DEF SetProg
<1>3. DOMAIN jobs \subseteq 1..lastId /\ lastId \in Nat
  BY DEF IInv, TypeOK, IsList
<1> HIDE DEF js
<1>4. Queued(js) \subseteq Nat \ {0}
  BY <1>2, <1>3 DEF Queued
<1>5. QED
  BY <1>1, <1>4, RunArranges

LEMMA RefreshArranges ==
  ASSUME IInv, IInv', Refresh
  PROVE  Serial!Arrange
<1>1. Queued(jobs) \subseteq Nat \ {0}
  BY DEF Queued, IInv, TypeOK, IsList
<1>2. QED
  BY <1>1, RunArranges DEF Refresh

\* Every step of the queue is a step of the serial executor, or none.
LEMMA StepRefines ==
  ASSUME IInv, IInv', [Next]_vars
  PROVE  [Serial!Next]_(Serial!vars)
<1>1. CASE \E n \in 1..MaxOps : Enqueue(n)
  BY <1>1, EnqueueArranges DEF Serial!Next
<1>2. CASE \E j \in DOMAIN jobs : Retry(j)
  BY <1>2, RetryArranges DEF Serial!Next
<1>3. CASE Refresh
  BY <1>3, RefreshArranges DEF Serial!Next
<1>4. CASE \E j \in DOMAIN jobs : Cancel(j)
  BY <1>4, ListArranges DEF Cancel, Serial!Next
<1>5. CASE ClearFinished
  BY <1>5, ListArranges DEF ClearFinished, Serial!Next
<1>6. CASE \E l \in Loops, f \in {0, 1} : Progress(l, f)
  BY <1>6, ListArranges DEF Progress, Serial!Next
<1>7. CASE \E l \in Loops : Drain(l)
  BY <1>7, NextJobArranges, OpOkAcknowledges, OpFailedGivesUp DEF Drain, Serial!Next
<1>8. CASE Reload
  BY <1>8, ReloadGivesUp DEF Serial!Next
<1>9. CASE UNCHANGED vars
  BY <1>9 DEF vars, Serial!vars
<1>10. QED
  BY <1>1, <1>2, <1>3, <1>4, <1>5, <1>6, <1>7, <1>8, <1>9 DEF Next

LEMMA InitRefines ==
  ASSUME Init
  PROVE  Serial!Init
<1>1. \A l \in Loops : loop[l].pc # "call"
  BY DEF Init, Idle
<1>2. Sending(loop) = <<0, 0>>
  BY <1>1, NothingSent
<1>3. DoneJobs(jobs) = {}
  BY DEF Init, DoneJobs, NoJobs
<1>4. QED
  BY <1>2, <1>3 DEF Init, Serial!Init, Serial!NoOp

\* The queue, with its list, its storage, its retries, its cancels and its
\* reloads, does what SerialExecutor promises.
THEOREM Refinement == Spec => ImplementsSerialExecutor
<1>1. Init => Serial!Init
  BY InitRefines
<1>2. IInv /\ IInv' /\ [Next]_vars => [Serial!Next]_(Serial!vars)
  BY StepRefines
<1>3. QED
  BY <1>1, <1>2, Invariance, PTL DEF Spec, ImplementsSerialExecutor, Serial!Spec

-----------------------------------------------------------------------------
\* Decisions are kept when storage works.

\* slice(-QUEUE_LIMIT) leaves at most QUEUE_LIMIT entries: an entry is told from
\* the others by how many newer ones there are.
LEMMA NewestFits ==
  ASSUME NEW S \in SUBSET Nat, IsFiniteSet(S)
  PROVE  Cardinality(Newest(S)) <= QUEUE_LIMIT
<1> DEFINE Newer(j) == {k \in S : k > j}
           N == Newest(S)
           T == 0..(QUEUE_LIMIT - 1)
           rank == [j \in N |-> Cardinality(Newer(j))]
<1> USE OpQueueAssumption
<1>1. \A j \in N : IsFiniteSet(Newer(j)) /\ Cardinality(Newer(j)) \in Nat
  BY FS_Subset, FS_CardinalityType
<1>2. rank \in [N -> T]
  <2>1. \A j \in N : Cardinality(Newer(j)) < QUEUE_LIMIT
    BY DEF Newest
  <2>2. \A j \in N : Cardinality(Newer(j)) \in T
    <3> HIDE DEF Newer, N
    <3>1. QED
      BY <1>1, <2>1
  <2>3. QED
    BY <2>2
<1>3. ASSUME NEW i \in N, NEW j \in N, i < j
      PROVE  rank[i] # rank[j]
  <2>1. i \in Nat /\ j \in Nat /\ j \in S
    BY DEF Newest
  <2>2. Newer(j) \in SUBSET Newer(i)
    <3>1. \A k \in S : k > j => k > i
      BY <1>3, <2>1
    <3>2. QED
      BY <3>1
  <2>3. j \in Newer(i) /\ j \notin Newer(j)
    BY <1>3, <2>1
  <2>4. Cardinality(Newer(i)) = Cardinality(Newer(j)) => Newer(i) = Newer(j)
    <3> HIDE DEF Newer
    <3>1. QED
      BY <1>1, <2>2, FS_Subset
  <2>5. QED
    BY <2>3, <2>4
<1>4. rank \in Injection(N, T)
  <2>1. \A i, j \in N : rank[i] = rank[j] => i = j
    <3>1. N \subseteq Nat
      BY DEF Newest
    <3>2. \A i, j \in Nat : i < j \/ j < i \/ i = j
      OBVIOUS
    <3> HIDE DEF rank, N
    <3>3. QED
      BY <1>3, <3>1, <3>2
  <2>2. QED
    BY <1>2, <2>1 DEF Injection, IsInjective
<1>5. IsFiniteSet(T) /\ Cardinality(T) = QUEUE_LIMIT
  BY FS_Interval
<1>6. QED
  <2> HIDE DEF rank, N, T
  <2>1. Cardinality(N) <= Cardinality(T)
    BY <1>4, <1>5, FS_Injection
  <2>2. QED
    BY <1>5, <2>1 DEF N

\* slice(-QUEUE_LIMIT) of a list that fits is the list.
LEMMA NewestOfFitting ==
  ASSUME NEW S \in SUBSET Nat, IsFiniteSet(S), Cardinality(S) <= QUEUE_LIMIT
  PROVE  Newest(S) = S
<1>1. SUFFICES ASSUME NEW j \in S
               PROVE  Cardinality({k \in S : k > j}) < QUEUE_LIMIT
  BY DEF Newest
<1> DEFINE Newer == {k \in S : k > j}
<1>2. Newer \in SUBSET (S \ {j})
  OBVIOUS
<1>3. IsFiniteSet(S \ {j}) /\ Cardinality(S \ {j}) = Cardinality(S) - 1
  BY FS_RemoveElement
<1>4. Cardinality(Newer) <= Cardinality(S \ {j}) /\ IsFiniteSet(Newer)
  <2> HIDE DEF Newer
  <2>1. QED
    BY <1>2, <1>3, FS_Subset
<1>5. Cardinality(Newer) \in Nat /\ Cardinality(S) \in Nat
  BY <1>4, FS_CardinalityType
<1>6. QED
  BY <1>3, <1>4, <1>5, OpQueueAssumption

\* Lists are finite sets of numbered entries.
LEMMA ListFinite ==
  ASSUME IInv
  PROVE  /\ DOMAIN jobs \in SUBSET Nat /\ IsFiniteSet(DOMAIN jobs)
         /\ DOMAIN stored \in SUBSET Nat /\ IsFiniteSet(DOMAIN stored)
         /\ Cardinality(DOMAIN jobs) \in Nat
<1>1. lastId \in Nat /\ DOMAIN jobs \subseteq 1..lastId /\ DOMAIN stored \subseteq 1..lastId
  BY DEF IInv, TypeOK, IsList
<1>2. IsFiniteSet(1..lastId)
  BY <1>1, FS_Interval
<1>3. QED
  BY <1>1, <1>2, FS_Subset, FS_CardinalityType

\* run() starts a queued entry at most and takes none away.
LEMMA RunKeeps ==
  ASSUME NEW js, Run(js)
  PROVE  /\ DOMAIN jobs' = DOMAIN js
         /\ \A j \in DOMAIN js : js[j].st = "cancelled" => jobs'[j].st = "cancelled"
<1>1. jobs' = js \/ \E j \in Queued(js) : jobs' = [js EXCEPT ![j] = Started(@)]
  BY DEF Run, StartOldest
<1>2. QED
  BY <1>1 DEF Queued

\* A list that does not grow still fits.
LEMMA KeepsByDomain ==
  ASSUME KeepInv, IInv', DOMAIN jobs' \subseteq DOMAIN jobs, Persist
  PROVE  KeepInv'
<1>1. DOMAIN jobs \in SUBSET Nat /\ IsFiniteSet(DOMAIN jobs)
  BY ListFinite DEF KeepInv
<1>2. Cardinality(DOMAIN jobs') <= Cardinality(DOMAIN jobs) /\ IsFiniteSet(DOMAIN jobs')
  BY <1>1, FS_Subset
<1>3. Cardinality(DOMAIN jobs') \in Nat /\ Cardinality(DOMAIN jobs) \in Nat
  BY <1>1, <1>2, FS_CardinalityType
<1>4. Cardinality(DOMAIN jobs') <= QUEUE_LIMIT
  BY <1>2, <1>3, OpQueueAssumption DEF KeepInv
<1>5. QED
  BY <1>4 DEF KeepInv, Persist, StoredIsCurrent

LEMMA EnqueueDomain ==
  ASSUME IInv, NEW n \in 1..MaxOps, Enqueue(n)
  PROVE  /\ Persist
         /\ DOMAIN jobs' = Newest(DOMAIN jobs \cup {lastId + 1})
         /\ \A j \in DOMAIN jobs : j \in DOMAIN jobs' /\ jobs[j].st = "cancelled"
                                     => jobs'[j].st = "cancelled"
<1> DEFINE new == [st |-> "queued", ops |-> n, att |-> 0, prog |-> 0, extra |-> 0]
           all == [j \in DOMAIN jobs \cup {lastId + 1} |->
                     IF j = lastId + 1 THEN new ELSE jobs[j]]
           js == Keep(all, Newest(DOMAIN all))
<1>1. Run(js)
  BY DEF Enqueue
<1>2. DOMAIN js = Newest(DOMAIN jobs \cup {lastId + 1})
  BY DEF Keep
<1>3. \A j \in DOMAIN js : j \in DOMAIN jobs => js[j] = jobs[j]
  <2>1. \A j \in DOMAIN jobs : j # lastId + 1
    BY DEF IInv, TypeOK, IsList
  <2>2. DOMAIN js \subseteq DOMAIN all
    BY DEF Keep, Newest
  <2>3. QED
    BY <2>1, <2>2 DEF Keep
<1> HIDE DEF js
<1>4. QED
  BY <1>1, <1>2, <1>3, RunKeeps DEF Run

\* The steps that add no entry.
Edits ==
  \/ \E j \in DOMAIN jobs : Cancel(j) \/ Retry(j)
  \/ ClearFinished
  \/ Refresh
  \/ \E l \in Loops : Drain(l) \/ \E f \in {0, 1} : Progress(l, f)

LEMMA RetryKeeps ==
  ASSUME IInv, NEW j, Retry(j)
  PROVE  /\ Persist
         /\ DOMAIN jobs' = DOMAIN jobs
         /\ \A k \in DOMAIN jobs : jobs[k].st = "cancelled" => jobs'[k].st = "cancelled"
<1> DEFINE again == [jobs EXCEPT ![j] = Again(@)]
           js == SetProg(again, j, 0)
<1>1. Run(js) /\ Persist
  BY DEF Retry, Run
<1>2. DOMAIN js = DOMAIN jobs
  BY DEF SetProg
<1>3. \A k \in DOMAIN jobs : k # j => js[k] = jobs[k]
  BY DEF SetProg
<1>4. jobs[j].st = "failed"
  BY DEF Retry
<1> HIDE DEF js
<1>5. QED
  BY <1>1, <1>2, <1>3, <1>4, RunKeeps

LEMMA DrainKeeps ==
  ASSUME IInv, NEW l \in Loops, Drain(l) \/ \E f \in {0, 1} : Progress(l, f)
  PROVE  /\ DOMAIN jobs' = DOMAIN jobs
         /\ Persist \/ UNCHANGED <<jobs, stored>>
         /\ \A j \in DOMAIN jobs : jobs[j].st = "cancelled" /\ loop[l].id # j
                                    => jobs'[j].st = "cancelled"
<1>1. CASE NextJob(l)
  <2>1. jobs' = jobs \/ \E j \in Queued(jobs) : jobs' = [jobs EXCEPT ![j] = Started(@)]
    BY <1>1 DEF NextJob, StartOldest
  <2>2. QED
    BY <1>1, <2>1 DEF NextJob, Queued
<1>2. CASE OpOk(l)
  <2>1. /\ DOMAIN jobs' = DOMAIN jobs
        /\ \A j \in DOMAIN jobs : loop[l].id # j => jobs'[j] = jobs[j]
    BY <1>2 DEF OpOk, SetProg, SetStatus
  <2>2. QED
    BY <1>2, <2>1 DEF OpOk
<1>3. CASE OpFailed(l)
  <2>1. /\ DOMAIN jobs' = DOMAIN jobs
        /\ \A j \in DOMAIN jobs : loop[l].id # j => jobs'[j] = jobs[j]
    BY <1>3 DEF OpFailed, SetProg, SetStatus
  <2>2. QED
    BY <1>3, <2>1 DEF OpFailed
<1>4. CASE \E f \in {0, 1} : Progress(l, f)
  <2>1. /\ DOMAIN jobs' = DOMAIN jobs
        /\ \A j \in DOMAIN jobs : loop[l].id # j => jobs'[j] = jobs[j]
    BY <1>4 DEF Progress, SetProg
  <2>2. QED
    BY <1>4, <2>1 DEF Progress
<1>5. QED
  BY <1>1, <1>2, <1>3, <1>4 DEF Drain

\* An edit adds no entry, takes away no pending one, and cancelled entries that
\* are not in flight stay cancelled.
LEMMA EditsKeep ==
  ASSUME IInv, Edits
  PROVE  /\ DOMAIN jobs' \subseteq DOMAIN jobs
         /\ Persist \/ UNCHANGED <<jobs, stored>>
         /\ PendingStays
         /\ CancelStays
<1>1. CASE \E j \in DOMAIN jobs : Cancel(j)
  BY <1>1 DEF Cancel, SetStatus, PendingStays, CancelStays, Pending
<1>2. CASE \E j \in DOMAIN jobs : Retry(j)
  BY <1>2, RetryKeeps DEF PendingStays, CancelStays, Pending
<1>3. CASE ClearFinished
  BY <1>3 DEF ClearFinished, Keep, PendingStays, CancelStays, Pending
<1>4. CASE Refresh
  BY <1>4, RunKeeps DEF Refresh, Run, PendingStays, CancelStays, Pending
<1>5. CASE \E l \in Loops : Drain(l) \/ \E f \in {0, 1} : Progress(l, f)
  BY <1>5, DrainKeeps DEF PendingStays, CancelStays, Pending
<1>6. QED
  BY <1>1, <1>2, <1>3, <1>4, <1>5 DEF Edits

\* A list that fits loses nothing in a reload.
LEMMA RehydratedSame ==
  ASSUME KeepInv
  PROVE  /\ DOMAIN Rehydrated(stored) = DOMAIN stored
         /\ \A j \in DOMAIN stored : stored[j].st = "cancelled"
                                       => Rehydrated(stored)[j].st = "cancelled"
<1>1. Newest(DOMAIN stored) = DOMAIN stored
  BY ListFinite, NewestOfFitting DEF KeepInv
<1>2. QED
  BY <1>1 DEF Rehydrated

LEMMA ReloadKeeps ==
  ASSUME KeepInv, ~StorageMayFail, Reload
  PROVE  PendingStays /\ CancelStays
<1>1. jobs' = Rehydrated(stored)
  BY DEF Reload
<1>2. CASE stored = jobs
  BY <1>1, <1>2, RehydratedSame DEF PendingStays, CancelStays, Pending
<1>3. CASE jobs = Rehydrated(stored)
  BY <1>1, <1>3 DEF PendingStays, CancelStays, Pending
<1>4. QED
  BY <1>2, <1>3 DEF KeepInv, StoredIsCurrent

LEMMA EnqueueKeeps ==
  ASSUME KeepInv, NEW n \in 1..MaxOps, Enqueue(n)
  PROVE  PendingStays /\ CancelStays
<1>1. IInv
  BY DEF KeepInv
<1>2. CancelStays
  BY <1>1, EnqueueDomain DEF CancelStays
<1>3. lastId' # lastId
  BY <1>1 DEF Enqueue, IInv, TypeOK
<1>4. CASE Cardinality(DOMAIN jobs) = QUEUE_LIMIT
  BY <1>2, <1>3, <1>4 DEF PendingStays
<1>5. CASE Cardinality(DOMAIN jobs) # QUEUE_LIMIT
  <2> DEFINE S == DOMAIN jobs \cup {lastId + 1}
  <2>1. lastId + 1 \in Nat /\ DOMAIN jobs \in SUBSET Nat /\ IsFiniteSet(DOMAIN jobs)
    BY <1>1, ListFinite DEF IInv, TypeOK
  <2>2. IsFiniteSet(S) /\ Cardinality(S) <= Cardinality(DOMAIN jobs) + 1
    BY <2>1, FS_AddElement, FS_CardinalityType
  <2>3. Cardinality(S) <= QUEUE_LIMIT
    <3>1. Cardinality(S) \in Nat /\ Cardinality(DOMAIN jobs) \in Nat
      BY <2>1, <2>2, FS_CardinalityType
    <3> HIDE DEF S
    <3>2. QED
      BY <1>5, <2>2, <3>1, OpQueueAssumption DEF KeepInv
  <2>4. Newest(S) = S
    BY <2>1, <2>2, <2>3, NewestOfFitting
  <2>5. DOMAIN jobs \subseteq DOMAIN jobs'
    BY <1>1, <2>4, EnqueueDomain
  <2>6. QED
    BY <1>2, <2>5 DEF PendingStays, Pending
<1>6. QED
  BY <1>4, <1>5

LEMMA EnqueueFits ==
  ASSUME KeepInv, IInv', NEW n \in 1..MaxOps, Enqueue(n)
  PROVE  KeepInv'
<1>1. IInv
  BY DEF KeepInv
<1> DEFINE S == DOMAIN jobs \cup {lastId + 1}
<1>2. S \in SUBSET Nat /\ IsFiniteSet(S)
  BY <1>1, ListFinite, FS_AddElement DEF IInv, TypeOK
<1>3. Cardinality(DOMAIN jobs') <= QUEUE_LIMIT
  <2>1. DOMAIN jobs' = Newest(S)
    BY <1>1, EnqueueDomain
  <2> HIDE DEF S
  <2>2. QED
    BY <1>2, <2>1, NewestFits
<1>4. Persist
  BY <1>1, EnqueueDomain
<1>5. QED
  BY <1>3, <1>4 DEF KeepInv, Persist, StoredIsCurrent

LEMMA ReloadFits ==
  ASSUME KeepInv, IInv', Reload
  PROVE  KeepInv'
<1>1. jobs' = Rehydrated(stored) /\ stored' = stored
  BY DEF Reload
<1>2. DOMAIN jobs' = DOMAIN stored
  BY <1>1, RehydratedSame
<1>3. QED
  BY <1>1, <1>2 DEF KeepInv, StoredIsCurrent

LEMMA NextKeepInv ==
  ASSUME KeepInv, [Next]_vars
  PROVE  KeepInv'
<1>1. IInv /\ IInv'
  BY NextIInv DEF KeepInv
<1>2. CASE \E n \in 1..MaxOps : Enqueue(n)
  BY <1>1, <1>2, EnqueueFits
<1>3. CASE Edits
  <2>1. DOMAIN jobs' \subseteq DOMAIN jobs /\ (Persist \/ UNCHANGED <<jobs, stored>>)
    BY <1>1, <1>3, EditsKeep
  <2>2. CASE Persist
    BY <1>1, <2>1, <2>2, KeepsByDomain
  <2>3. CASE UNCHANGED <<jobs, stored>>
    BY <1>1, <2>3 DEF KeepInv, StoredIsCurrent
  <2>4. QED
    BY <2>1, <2>2, <2>3
<1>4. CASE Reload
  BY <1>1, <1>4, ReloadFits
<1>5. CASE UNCHANGED vars
  BY <1>1, <1>5 DEF vars, KeepInv, StoredIsCurrent
<1>6. QED
  BY <1>2, <1>3, <1>4, <1>5 DEF Next, Edits

LEMMA InitKeepInv ==
  ASSUME Init
  PROVE  KeepInv
<1>1. DOMAIN jobs = {} /\ jobs = stored
  BY DEF Init, NoJobs
<1>2. Cardinality(DOMAIN jobs) = 0
  BY <1>1, FS_EmptySet
<1>3. QED
  BY <1>1, <1>2, InitIInv, OpQueueAssumption DEF KeepInv, StoredIsCurrent

\* With storage that works, the list limit alone takes pending work out of the
\* list, and the cancel of a job that is not in flight is final, over any number
\* of reloads.
THEOREM DecisionsKept == StorageMayFail = FALSE => (Spec => DecisionsAreKept)
<1> SUFFICES ASSUME StorageMayFail = FALSE PROVE Spec => DecisionsAreKept
  OBVIOUS
<1>1. Init => KeepInv
  BY InitKeepInv
<1>2. KeepInv /\ [Next]_vars => KeepInv'
  BY NextKeepInv
<1>3. KeepInv /\ [Next]_vars => [PendingStays /\ CancelStays]_vars
  BY EnqueueKeeps, EditsKeep, ReloadKeeps DEF Next, Edits, KeepInv
<1>4. QED
  BY <1>1, <1>2, <1>3, PTL DEF Spec, DecisionsAreKept, PendingIsKept, IdleCancelSticks

-----------------------------------------------------------------------------
(***************************************************************************)
(* Collector, for every number of jobs, buttons, clicks of the operator,   *)
(* rows of the other tab, failed writes and reloads.  The argument:        *)
(* CollectorInv is inductive.  One click is in progress, the first of the  *)
(* chain, so the popup counter and the capture have one owner; the save a  *)
(* click started is waited for by that click or marked late (SaveOK), so   *)
(* its record is folded or late; a window's layer goes only from the top;  *)
(* every write leaves the stored list equal to the one on screen or shows  *)
(* the error (WriteDoes); and a batch's streak is what its records end     *)
(* with (StreakOK).                                                        *)
(***************************************************************************)
\* The last n members of a sequence.
LEMMA LastNKeeps ==
  ASSUME NEW S, NEW q \in Seq(S), NEW n \in Nat
  PROVE  /\ LastN(q, n) \in Seq(S)
         /\ Len(LastN(q, n)) = IF Len(q) > n THEN n ELSE Len(q)
         /\ \A k \in 1..Len(LastN(q, n)) :
              /\ Len(q) - Len(LastN(q, n)) + k \in 1..Len(q)
              /\ LastN(q, n)[k] = q[Len(q) - Len(LastN(q, n)) + k]
<1>1. Len(q) \in Nat
  OBVIOUS
<1>2. CASE Len(q) > n
  <2> DEFINE w == SubSeq(q, Len(q) - n + 1, Len(q))
  <2>1. LastN(q, n) = w
    BY <1>2 DEF LastN
  <2>2. w \in Seq(S) /\ Len(w) = n /\ \A k \in 1..n : w[k] = q[Len(q) - n + k]
    BY <1>1, <1>2
  <2> HIDE DEF w
  <2>3. \A k \in 1..n : Len(q) - n + k \in 1..Len(q)
    BY <1>1, <1>2
  <2>4. QED
    BY <1>2, <2>1, <2>2, <2>3
<1>3. CASE ~(Len(q) > n)
  <2>1. LastN(q, n) = SubSeq(q, 1, Len(q))
    BY <1>3 DEF LastN
  <2>2. SubSeq(q, 1, Len(q)) = q
    OBVIOUS
  <2>3. \A k \in 1..Len(q) : Len(q) - Len(q) + k = k
    BY <1>1
  <2>4. QED
    BY <1>1, <1>3, <2>1, <2>2, <2>3
<1>4. QED
  BY <1>2, <1>3

LEMMA SeqRetyped ==
  ASSUME NEW S, NEW T, NEW q \in Seq(S), \A k \in 1..Len(q) : q[k] \in T
  PROVE  q \in Seq(T)
  OBVIOUS

\* A list with one more row, the oldest making room.
LEMMA AppendLast ==
  ASSUME NEW S, NEW q \in Seq(S), NEW r \in S
  PROVE  LET w == Append(LastN(q, MaxActions - 1), r)
         IN  /\ w \in Seq(S) /\ Len(w) <= MaxActions
             /\ \A k \in DOMAIN w : w[k] = r \/ \E i \in DOMAIN q : w[k] = q[i]
<1> DEFINE a == LastN(q, MaxActions - 1)
           w == Append(a, r)
<1>1. MaxActions - 1 \in Nat
  BY CollectorAssumption
<1>2. /\ a \in Seq(S) /\ Len(a) <= MaxActions - 1 /\ Len(a) \in Nat
      /\ \A k \in 1..Len(a) : Len(q) - Len(a) + k \in 1..Len(q) /\ a[k] = q[Len(q) - Len(a) + k]
  BY <1>1, LastNKeeps
<1> HIDE DEF a
<1>3. /\ w \in Seq(S) /\ Len(w) = Len(a) + 1 /\ DOMAIN w = 1..(Len(a) + 1)
      /\ w[Len(a) + 1] = r /\ \A k \in 1..Len(a) : w[k] = a[k]
  BY <1>2
<1>4. \A k \in DOMAIN w : w[k] = r \/ \E i \in DOMAIN q : w[k] = q[i]
  <2>1. SUFFICES ASSUME NEW k \in DOMAIN w PROVE w[k] = r \/ \E i \in DOMAIN q : w[k] = q[i]
    OBVIOUS
  <2>2. CASE k \in 1..Len(a)
    <3>1. Len(q) - Len(a) + k \in DOMAIN q /\ w[k] = q[Len(q) - Len(a) + k]
      BY <1>2, <1>3, <2>2
    <3>2. QED
      BY <3>1
  <2>3. CASE k = Len(a) + 1
    BY <1>3, <2>3
  <2>4. QED
    BY <1>2, <1>3, <2>2, <2>3
<1>5. Len(w) <= MaxActions
  BY <1>1, <1>2, <1>3, CollectorAssumption
<1> HIDE DEF w
<1>6. QED
  BY <1>3, <1>4, <1>5 DEF w, a

-----------------------------------------------------------------------------
(***************************************************************************)
(* The lists of rows.                                                      *)
(***************************************************************************)
LEMMA WrittenMore ==
  ASSUME NEW m \in Nat, NEW n \in Nat, m <= n
  PROVE  Written(m) \subseteq Written(n)
<1>1. \A r \in Rows : r.id \in Nat
  BY DEF Rows
<1>2. QED
  BY <1>1 DEF Written

LEMMA CappedMore ==
  ASSUME NEW m \in Nat, NEW n \in Nat, m <= n, NEW list, Capped(list, m)
  PROVE  Capped(list, n)
<1>1. Written(m) \subseteq Written(n)
  BY WrittenMore
<1>2. list \in Seq(Written(m)) /\ Len(list) <= MaxActions
  BY DEF Capped
<1>3. \A k \in 1..Len(list) : list[k] \in Written(n)
  BY <1>1, <1>2
<1>4. QED
  BY <1>2, <1>3, SeqRetyped DEF Capped

LEMMA CappedRows ==
  ASSUME NEW n, NEW list, Capped(list, n)
  PROVE  list \in Seq(Rows)
<1>1. list \in Seq(Written(n)) /\ \A k \in 1..Len(list) : list[k] \in Rows
  BY DEF Capped, Written
<1>2. QED
  BY <1>1, SeqRetyped

LEMMA CappedEmpty ==
  ASSUME NEW n
  PROVE  Capped(<<>>, n)
<1>1. <<>> \in Seq(Written(n)) /\ Len(<<>>) = 0
  OBVIOUS
<1>2. QED
  BY <1>1, CollectorAssumption DEF Capped

\* What one more action leaves of the bounds.
LEMMA SpentIs ==
  ASSUME left \in Allowances
  PROVE  /\ Spend("jobs") => left' \in Allowances /\ left'.theirs = left.theirs
         /\ Spend("taps") => left' \in Allowances /\ left'.theirs = left.theirs
         /\ Spend("clears") => left' \in Allowances /\ left'.theirs = left.theirs
         /\ Spend("reloads") => left' \in Allowances /\ left'.theirs = left.theirs
         /\ Spend("theirs") => left' \in Allowances /\ left.theirs > 0
<1>1. Spend("jobs") => left' \in Allowances /\ left'.theirs = left.theirs
  BY DEF Spend, Allowances
<1>2. Spend("taps") => left' \in Allowances /\ left'.theirs = left.theirs
  BY DEF Spend, Allowances
<1>3. Spend("clears") => left' \in Allowances /\ left'.theirs = left.theirs
  BY SMTT(60) DEF Spend, Allowances
<1>4. Spend("reloads") => left' \in Allowances /\ left'.theirs = left.theirs
  BY DEF Spend, Allowances
<1>5. Spend("theirs") => left' \in Allowances /\ left.theirs > 0
  BY DEF Spend, Allowances
<1>6. QED
  BY <1>1, <1>2, <1>3, <1>4, <1>5

\* What a write of a list does to the stored one and the other tab.
LEMMA WriteDoes ==
  ASSUME ListsOK, NEW n \in Nat, NEW list, Capped(list, n), Capped(persisted, n), Write(list)
  PROVE  /\ Capped(persisted', n)
         /\ list = persisted => persisted' = persisted
         /\ tab' \in [rows : Seq(Rows), wrote : BOOLEAN, toUs : BOOLEAN, toThem : BOOLEAN]
         /\ tab'.rows = tab.rows /\ tab'.wrote = tab.wrote /\ tab'.toUs = tab.toUs
         /\ tab'.toThem <=> tab.toThem \/ (TwoTabs /\ persisted' # persisted)
<1>1. Capped(persisted', n)
  <2>1. CASE persisted' = list
    BY <2>1
  <2>2. CASE \E parts \in Halvings : persisted' = LastN(list, Len(list) \div parts)
    <3>1. PICK parts \in Halvings : persisted' = LastN(list, Len(list) \div parts)
      BY <2>2
    <3>2. list \in Seq(Written(n)) /\ Len(list) \in Nat /\ Len(list) <= MaxActions
      BY DEF Capped
    <3>3. Len(list) \div parts \in Nat
      BY <3>1, <3>2 DEF Halvings
    <3>4. persisted' \in Seq(Written(n)) /\ Len(persisted') <= Len(list)
      <4> DEFINE m == Len(list) \div parts
      <4>1. m \in Nat
        BY <3>3
      <4> HIDE DEF m
      <4>2. LastN(list, m) \in Seq(Written(n)) /\ Len(LastN(list, m)) <= Len(list)
        BY <3>2, <4>1, LastNKeeps
      <4>3. QED
        BY <3>1, <4>2 DEF m
    <3>5. QED
      BY <3>2, <3>4, CollectorAssumption DEF Capped
  <2>3. CASE persisted' = persisted
    BY <2>3
  <2>4. QED
    BY <2>1, <2>2, <2>3 DEF Write
<1>2. list = persisted => persisted' = persisted
  BY DEF Write
<1> DEFINE b == tab.toThem \/ (TwoTabs /\ persisted' # persisted)
<1>3. tab' = [tab EXCEPT !.toThem = b]
  BY Zenon DEF Write
<1>4. tab \in [rows : Seq(Rows), wrote : BOOLEAN, toUs : BOOLEAN, toThem : BOOLEAN]
  BY DEF ListsOK
<1>5. b \in BOOLEAN
  BY Zenon
<1>6. /\ tab' \in [rows : Seq(Rows), wrote : BOOLEAN, toUs : BOOLEAN, toThem : BOOLEAN]
      /\ tab'.rows = tab.rows /\ tab'.wrote = tab.wrote /\ tab'.toUs = tab.toUs /\ tab'.toThem = b
  <2> HIDE DEF b
  <2>1. QED
    BY <1>3, <1>4, <1>5
<1>7. QED
  BY <1>1, <1>2, <1>6

\* Every set() of the store that is written keeps the lists in order.
LEMMA SetKept ==
  ASSUME ListsOK, left' \in Allowances, left'.theirs = left.theirs,
         minted' \in Nat, minted <= minted', born' \in Nat, err' \in BOOLEAN,
         Capped(rows', minted'), Write(rows'),
         ~tab.toUs => rows' = persisted' \/ err'
  PROVE  ListsOK' /\ tab'.wrote = tab.wrote
<1>1. minted \in Nat /\ Capped(persisted, minted) /\ Capped(tab.rows, minted)
  BY DEF ListsOK
<1>2. Capped(persisted, minted') /\ Capped(tab.rows, minted')
  BY <1>1, CappedMore
<1>3. /\ Capped(persisted', minted')
      /\ tab' \in [rows : Seq(Rows), wrote : BOOLEAN, toUs : BOOLEAN, toThem : BOOLEAN]
      /\ tab'.rows = tab.rows /\ tab'.wrote = tab.wrote /\ tab'.toUs = tab.toUs
      /\ tab'.toThem <=> tab.toThem \/ (TwoTabs /\ persisted' # persisted)
  BY <1>2, WriteDoes
<1>4. TwoTabs' <=> TwoTabs
  BY <1>3 DEF TwoTabs
<1>5. ~tab'.toThem => (TwoTabs' => tab'.rows = persisted')
  BY <1>3, <1>4 DEF ListsOK
<1>6. tab'.toUs => tab'.wrote
  BY <1>3 DEF ListsOK
<1>7. ~tab'.toUs => rows' = persisted' \/ err'
  BY <1>3
<1>8. Capped(rows, minted)' /\ Capped(persisted, minted)' /\ Capped(tab.rows, minted)'
  BY <1>2, <1>3 DEF Capped, Written
<1>9. ListsOK'
  BY <1>3, <1>5, <1>6, <1>7, <1>8 DEF ListsOK, Allowances
<1>10. QED
  BY <1>3, <1>9

LEMMA PutKept ==
  ASSUME ListsOK, left' \in Allowances, left'.theirs = left.theirs,
         minted' \in Nat, minted <= minted', UNCHANGED born, NEW list, Capped(list, minted'), Put(list)
  PROVE  ListsOK' /\ tab'.wrote = tab.wrote /\ rows' = list
<1>1. rows' = list /\ Write(rows') /\ (err' <=> persisted' # list) /\ err' \in BOOLEAN
  BY Zenon DEF Put
<1>2. born' \in Nat
  BY DEF ListsOK
<1>3. ~tab.toUs => rows' = persisted' \/ err'
  BY <1>1
<1>4. QED
  BY <1>1, <1>2, <1>3, SetKept

LEMMA TouchKept ==
  ASSUME ListsOK, left' \in Allowances, left'.theirs = left.theirs, Touch
  PROVE  ListsOK' /\ tab'.wrote = tab.wrote /\ UNCHANGED <<rows, minted, born>>
<1>1. Write(rows') /\ UNCHANGED <<rows, minted, err, born>>
  BY DEF Touch
<1>2. /\ minted \in Nat
      /\ born \in Nat
      /\ err \in BOOLEAN
      /\ Capped(rows, minted)
      /\ Capped(persisted, minted)
  BY DEF ListsOK
<1>3. rows = persisted => persisted' = persisted
  BY <1>1, <1>2, WriteDoes
<1>4. ~tab.toUs => rows' = persisted' \/ err'
  BY <1>1, <1>3 DEF ListsOK
<1>5. Capped(rows', minted') /\ minted <= minted'
  BY <1>1, <1>2
<1>6. QED
  BY <1>1, <1>2, <1>4, <1>5, SetKept

LEMMA ListsSame ==
  ASSUME ListsOK, left' \in Allowances, left'.theirs = left.theirs,
         UNCHANGED <<rows, persisted, err, tab, born>>,
         minted' \in Nat, minted <= minted'
  PROVE  ListsOK'
<1>1. Capped(rows, minted') /\ Capped(persisted, minted') /\ Capped(tab.rows, minted')
  BY CappedMore DEF ListsOK
<1>2. Capped(rows, minted)' /\ Capped(persisted, minted)' /\ Capped(tab.rows, minted)'
  BY <1>1 DEF Capped, Written
<1>3. QED
  BY <1>2 DEF ListsOK, TwoTabs, Allowances

\* A record is folded into the observed click's or becomes a row.
LEMMA RecordKept ==
  ASSUME ListsOK, left' \in Allowances, left'.theirs = left.theirs,
         NEW row \in Rows, row.id = minted + 1, cap = Nobody => (row.src = "own" => row.late),
         NEW clicks, Record(row, clicks)
  PROVE  /\ ListsOK' /\ tab'.wrote = tab.wrote /\ UNCHANGED born /\ minted' = minted + 1
         /\ \A k \in DOMAIN rows' :
              (cap = Nobody /\ rows'[k] = row) \/ \E i \in DOMAIN rows : rows'[k] = rows[i]
<1>1. minted \in Nat /\ minted' = minted + 1 /\ UNCHANGED born
  BY DEF Record, ListsOK
<1>2. minted' \in Nat /\ minted <= minted'
  BY <1>1
<1>3. CASE cap # Nobody
  <2>1. UNCHANGED <<rows, persisted, err, tab>>
    BY <1>3 DEF Record
  <2>2. ListsOK'
    BY <1>1, <1>2, <2>1, ListsSame
  <2>3. QED
    BY <1>1, <2>1, <2>2
<1>4. CASE cap = Nobody
  <2> DEFINE q == RowsWith(row)
  <2>1. Capped(rows, minted')
    BY <1>1, <1>2, CappedMore DEF ListsOK
  <2>2. row \in Written(minted') /\ rows \in Seq(Written(minted'))
    <3>1. row.id <= minted' /\ (row.src = "own" => row.late)
      BY <1>1, <1>2, <1>4
    <3>2. QED
      BY <2>1, <3>1 DEF Capped, Written
  <2>3. /\ q \in Seq(Written(minted')) /\ Len(q) <= MaxActions
        /\ \A k \in DOMAIN q : q[k] = row \/ \E i \in DOMAIN rows : q[k] = rows[i]
    BY <2>2, AppendLast DEF RowsWith
  <2>4. Put(q)
    BY <1>4 DEF Record
  <2> HIDE DEF q
  <2>5. Capped(q, minted')
    BY <2>3 DEF Capped
  <2>6. ListsOK' /\ tab'.wrote = tab.wrote /\ rows' = q
    BY <1>1, <1>2, <2>4, <2>5, PutKept
  <2>7. QED
    BY <1>1, <1>4, <2>3, <2>6
<1>5. QED
  BY <1>3, <1>4

\* Rows that were open stay accounted for while their windows stay.
LEMMA OpenRowsCarry ==
  ASSUME OpenRowsOK, UNCHANGED born, tab.wrote => tab'.wrote,
         \A k \in DOMAIN rows' : rows'[k].open => \E i \in DOMAIN rows : rows'[k] = rows[i],
         \A k \in DOMAIN rows', w \in Taps :
           rows'[k].open /\ win[w].st = "open" /\ win[w].row = rows'[k].id =>
             win'[w].st = "open" /\ win'[w].row = rows'[k].id
  PROVE  OpenRowsOK'
<1>1. SUFFICES ASSUME NEW k \in DOMAIN rows', rows'[k].open
               PROVE  \/ \E w \in Taps : win'[w].st = "open" /\ win'[w].row = rows'[k].id
                      \/ rows'[k].id <= born' \/ tab'.wrote
  BY DEF OpenRowsOK
<1>2. PICK i \in DOMAIN rows : rows'[k] = rows[i]
  BY <1>1
<1>3. QED
  BY <1>1, <1>2 DEF OpenRowsOK

-----------------------------------------------------------------------------
(***************************************************************************)
(* What a step leaves alone.                                               *)
(***************************************************************************)
LEMMA Stays ==
  ASSUME CollectorInv
  PROVE  /\ UNCHANGED <<job, chain>> => ChainOK'
         /\ UNCHANGED <<route, chain, click, cap>> => ClicksOK'
         /\ UNCHANGED <<save, flights, cap>> => SaveOK'
         /\ UNCHANGED <<fetchers, openers, win, cap>> => LayersOK'
         /\ UNCHANGED <<left, store>> => ListsOK'
         /\ UNCHANGED <<store, win>> => OpenRowsOK'
<1>1. UNCHANGED <<job, chain>> => ChainOK'
  BY DEF CollectorInv, ChainOK
<1>2. UNCHANGED <<route, chain, click, cap>> => ClicksOK'
  BY DEF CollectorInv, ClicksOK
<1>3. UNCHANGED <<save, flights, cap>> => SaveOK'
  BY DEF CollectorInv, SaveOK
<1>4. UNCHANGED <<fetchers, openers, win, cap>> => LayersOK'
  BY DEF CollectorInv, LayersOK
<1>5. UNCHANGED <<left, store>> => ListsOK'
  BY DEF CollectorInv, ListsOK, Capped, Written, TwoTabs, store
<1>6. UNCHANGED <<store, win>> => OpenRowsOK'
  BY DEF CollectorInv, OpenRowsOK, store
<1>7. QED
  BY <1>1, <1>2, <1>3, <1>4, <1>5, <1>6

\* A click that is not being observed, in progress, means that none is.
LEMMA NoneObserved ==
  ASSUME ClicksOK, NEW j \in Jobs, click[j].phase \notin {"none", "observing"}
  PROVE  cap = Nobody /\ Observing = {} /\ chain # <<>> /\ j = Head(chain)
<1>1. chain # <<>> /\ j = Head(chain)
  BY DEF ClicksOK
<1>2. ASSUME NEW k \in Jobs, click[k].phase = "observing" PROVE FALSE
  BY <1>1, <1>2 DEF ClicksOK
<1>3. QED
  BY <1>1, <1>2 DEF ClicksOK, Observing

LEMMA ObservedIs ==
  ASSUME ClicksOK
  PROVE  Observing \subseteq Jobs /\ Observing = {j \in Jobs : cap = j}
  BY DEF ClicksOK, Observing

-----------------------------------------------------------------------------
(***************************************************************************)
(* The store and the other tab.                                            *)
(***************************************************************************)
LEMMA ClearStep ==
  ASSUME CollectorInv, Clear
  PROVE  CollectorInv'
<1>1. left' \in Allowances /\ left'.theirs = left.theirs
  BY SpentIs DEF CollectorInv, ListsOK, Clear
<1>2. /\ Capped(<<>>, minted')
      /\ minted' \in Nat
      /\ minted <= minted'
      /\ UNCHANGED <<minted, born>>
      /\ Put(<<>>)
  BY CappedEmpty DEF CollectorInv, ListsOK, Clear
<1>3. ListsOK' /\ rows' = <<>>
  BY <1>1, <1>2, PutKept DEF CollectorInv
<1>4. OpenRowsOK'
  BY <1>3 DEF OpenRowsOK
<1>5. ChainOK' /\ ClicksOK' /\ SaveOK' /\ LayersOK'
  BY Stays DEF Clear, runner
<1>6. QED
  BY <1>3, <1>4, <1>5 DEF CollectorInv

LEMMA TheyRecordStep ==
  ASSUME CollectorInv, TheyRecord
  PROVE  CollectorInv'
<1>1. left' \in Allowances
  BY SpentIs DEF CollectorInv, ListsOK, TheyRecord
<1>2. minted \in Nat /\ minted' = minted + 1 /\ minted' \in Nat /\ minted <= minted'
  BY DEF TheyRecord, CollectorInv, ListsOK
<1> DEFINE row == [id |-> minted', src |-> "theirs", open |-> FALSE,
                   button |-> Nobody, late |-> FALSE, nested |-> {}]
           q == Append(LastN(tab.rows, MaxActions - 1), row)
<1>3. row \in Written(minted')
  BY <1>2 DEF Written, Rows
<1>4. tab' = [tab EXCEPT !.rows = q, !.toUs = TRUE, !.wrote = TRUE] /\ persisted' = tab'.rows
  BY DEF TheyRecord
<1>5. Capped(tab.rows, minted') /\ Capped(rows, minted')
  BY <1>2, CappedMore DEF CollectorInv, ListsOK
<1> HIDE DEF row
<1>6. q \in Seq(Written(minted')) /\ Len(q) <= MaxActions
  BY <1>3, <1>5, AppendLast DEF Capped
<1> HIDE DEF q
<1>7. Capped(q, minted') /\ q \in Seq(Rows)
  BY <1>6, CappedRows DEF Capped
<1>8. /\ tab' \in [rows : Seq(Rows), wrote : BOOLEAN, toUs : BOOLEAN, toThem : BOOLEAN]
      /\ tab'.rows = q /\ tab'.wrote /\ tab'.toUs /\ persisted' = q
  BY <1>4, <1>7 DEF CollectorInv, ListsOK
<1>9. UNCHANGED <<rows, err, born>>
  BY DEF TheyRecord
<1>10. Capped(rows, minted)' /\ Capped(persisted, minted)' /\ Capped(tab.rows, minted)'
  BY <1>5, <1>7, <1>8, <1>9 DEF Capped, Written
<1>11. ListsOK'
  BY <1>1, <1>2, <1>8, <1>9, <1>10 DEF CollectorInv, ListsOK, Allowances
<1>12. OpenRowsOK'
  BY <1>8 DEF OpenRowsOK
<1>13. ChainOK' /\ ClicksOK' /\ SaveOK' /\ LayersOK'
  BY Stays DEF TheyRecord, runner
<1>14. QED
  BY <1>11, <1>12, <1>13 DEF CollectorInv

LEMMA TheyRehydrateStep ==
  ASSUME CollectorInv, TheyRehydrate
  PROVE  CollectorInv'
<1>1. /\ UNCHANGED <<left, rows, minted, persisted, err, born>>
      /\ tab' = [tab EXCEPT !.rows = persisted, !.toThem = FALSE]
  BY DEF TheyRehydrate
<1>2. /\ left \in Allowances /\ minted \in Nat /\ born \in Nat /\ err \in BOOLEAN
      /\ tab \in [rows : Seq(Rows), wrote : BOOLEAN, toUs : BOOLEAN, toThem : BOOLEAN]
      /\ Capped(rows, minted) /\ Capped(persisted, minted)
      /\ tab.toUs => tab.wrote
      /\ ~tab.toUs => rows = persisted \/ err
  BY DEF CollectorInv, ListsOK
<1>3. persisted \in Seq(Rows)
  BY <1>2, CappedRows
<1>4. /\ tab' \in [rows : Seq(Rows), wrote : BOOLEAN, toUs : BOOLEAN, toThem : BOOLEAN]
      /\ tab'.rows = persisted /\ tab'.wrote = tab.wrote /\ tab'.toUs = tab.toUs
  BY <1>1, <1>2, <1>3
<1>5. Capped(rows, minted)' /\ Capped(persisted, minted)' /\ Capped(tab.rows, minted)'
  BY <1>1, <1>2, <1>4 DEF Capped, Written
<1>6. ListsOK'
  BY <1>1, <1>2, <1>4, <1>5 DEF ListsOK, Allowances
<1>7. OpenRowsOK'
  BY <1>1, <1>4, OpenRowsCarry DEF CollectorInv, TheyRehydrate
<1>8. ChainOK' /\ ClicksOK' /\ SaveOK' /\ LayersOK'
  BY Stays DEF TheyRehydrate, runner
<1>9. QED
  BY <1>6, <1>7, <1>8 DEF CollectorInv

LEMMA RehydrateStep ==
  ASSUME CollectorInv, Rehydrate
  PROVE  CollectorInv'
<1>1. /\ UNCHANGED <<left, minted, persisted, err, born>>
      /\ rows' = persisted
      /\ tab' = [tab EXCEPT !.toUs = FALSE]
  BY DEF Rehydrate
<1>2. /\ left \in Allowances /\ minted \in Nat /\ born \in Nat /\ err \in BOOLEAN
      /\ tab \in [rows : Seq(Rows), wrote : BOOLEAN, toUs : BOOLEAN, toThem : BOOLEAN]
      /\ Capped(persisted, minted) /\ Capped(tab.rows, minted)
      /\ tab.toUs => tab.wrote
      /\ ~tab.toThem => (TwoTabs => tab.rows = persisted)
  BY DEF CollectorInv, ListsOK
<1>3. /\ tab' \in [rows : Seq(Rows), wrote : BOOLEAN, toUs : BOOLEAN, toThem : BOOLEAN]
      /\ tab'.rows = tab.rows
      /\ tab'.wrote = tab.wrote
      /\ tab'.toUs = FALSE
      /\ tab'.toThem = tab.toThem
  BY <1>1, <1>2
<1>4. Capped(rows, minted)' /\ Capped(persisted, minted)' /\ Capped(tab.rows, minted)'
  BY <1>1, <1>2, <1>3 DEF Capped, Written
<1>5. ListsOK'
  BY <1>1, <1>2, <1>3, <1>4 DEF ListsOK, TwoTabs, Allowances
<1>6. OpenRowsOK'
  <2>1. tab'.wrote
    BY <1>2, <1>3 DEF Rehydrate
  <2>2. QED
    BY <2>1 DEF OpenRowsOK
<1>7. ChainOK' /\ ClicksOK' /\ SaveOK' /\ LayersOK'
  BY Stays DEF Rehydrate, runner
<1>8. QED
  BY <1>5, <1>6, <1>7 DEF CollectorInv

-----------------------------------------------------------------------------
(***************************************************************************)
(* The layers of window.fetch and window.open, and the windows.            *)
(***************************************************************************)
LEMMA LayerOnTop ==
  ASSUME NEW S, NEW q \in Seq(S), NEW x \in S
  PROVE  Append(q, x) \in Seq(S) /\ Range(Append(q, x)) = Range(q) \cup {x}
<1> DEFINE w == Append(q, x)
<1>1. /\ w \in Seq(S) /\ DOMAIN w = 1..(Len(q) + 1) /\ DOMAIN q = 1..Len(q) /\ Len(q) \in Nat
      /\ w[Len(q) + 1] = x /\ \A k \in 1..Len(q) : w[k] = q[k]
  OBVIOUS
<1> HIDE DEF w
<1>2. \A y \in Range(w) : y \in Range(q) \cup {x}
  <2>1. SUFFICES ASSUME NEW k \in DOMAIN w PROVE w[k] \in Range(q) \cup {x}
    BY DEF Range
  <2>2. CASE k \in 1..Len(q)
    BY <1>1, <2>2 DEF Range
  <2>3. CASE k = Len(q) + 1
    BY <1>1, <2>3
  <2>4. QED
    BY <1>1, <2>2, <2>3
<1>3. \A y \in Range(q) : y \in Range(w)
  <2>1. SUFFICES ASSUME NEW k \in DOMAIN q PROVE q[k] \in Range(w)
    BY DEF Range
  <2>2. k \in DOMAIN w /\ w[k] = q[k]
    BY <1>1
  <2>3. QED
    BY <2>2 DEF Range
<1>4. x \in Range(w)
  <2>1. Len(q) + 1 \in DOMAIN w
    BY <1>1
  <2>2. QED
    BY <1>1, <2>1 DEF Range
<1>5. Range(w) = Range(q) \cup {x}
  BY <1>2, <1>3, <1>4
<1>6. QED
  BY <1>1, <1>5 DEF w

\* Only the layer of the released window goes.
LEMMA ReleasedKeeps ==
  ASSUME NEW S, NEW q \in Seq(S), NEW w
  PROVE  /\ Released(q, w) \in Seq(S) /\ Range(Released(q, w)) \subseteq Range(q)
         /\ \A x \in Range(q) : x # w => x \in Range(Released(q, w))
<1>1. CASE q # <<>> /\ Last(q) = w
  <2> DEFINE f == Front(q)
  <2>1. Released(q, w) = f
    BY <1>1 DEF Released
  <2>2. Len(q) \in Nat \ {0} /\ DOMAIN q = 1..Len(q) /\ q[Len(q)] = w
    BY <1>1 DEF Last
  <2>3. f \in Seq(S) /\ DOMAIN f = 1..(Len(q) - 1) /\ \A k \in 1..(Len(q) - 1) : f[k] = q[k]
    BY <2>2 DEF Front
  <2> HIDE DEF f
  <2>4. Range(f) \subseteq Range(q)
    <3>1. \A k \in DOMAIN f : k \in DOMAIN q /\ f[k] = q[k]
      BY <2>2, <2>3
    <3>2. QED
      BY <3>1 DEF Range
  <2>5. \A x \in Range(q) : x # w => x \in Range(f)
    <3>1. SUFFICES ASSUME NEW k \in DOMAIN q, q[k] # w PROVE q[k] \in Range(f)
      BY DEF Range
    <3>2. k \in DOMAIN f /\ f[k] = q[k]
      BY <2>2, <2>3, <3>1
    <3>3. QED
      BY <3>2 DEF Range
  <2>6. QED
    BY <2>1, <2>3, <2>4, <2>5
<1>2. CASE ~(q # <<>> /\ Last(q) = w)
  <2>1. Released(q, w) = q
    BY <1>2 DEF Released
  <2>2. QED
    BY <2>1
<1>3. QED
  BY <1>1, <1>2

LEMMA ObservedKeeps ==
  ASSUME NEW S, NEW f \in [armed : BOOLEAN, layers : Seq(S)], F101 \in S,
         f.armed => F101 \in Range(f.layers)
  PROVE  /\ Observed(f) \in [armed : BOOLEAN, layers : Seq(S)]
         /\ F101 \in Range(Observed(f).layers)
         /\ Range(f.layers) \subseteq Range(Observed(f).layers)
<1>1. CASE f.armed
  BY <1>1 DEF Observed
<1>2. CASE ~f.armed
  <2>1. Observed(f) = [armed |-> TRUE, layers |-> Append(f.layers, F101)]
    BY <1>2 DEF Observed
  <2>2. /\ Append(f.layers, F101) \in Seq(S)
        /\ Range(Append(f.layers, F101)) = Range(f.layers) \cup {F101}
    BY LayerOnTop
  <2>3. QED
    BY <2>1, <2>2
<1>3. QED
  BY <1>1, <1>2

LEMMA OpenCollectorStep ==
  ASSUME CollectorInv, OpenCollector
  PROVE  CollectorInv'
<1>1. LayersOK'
  <2>1. fetchers' = Observed(fetchers) /\ UNCHANGED <<openers, win, cap>>
    BY DEF OpenCollector, runner
  <2>2. /\ fetchers \in [armed : BOOLEAN, layers : Seq(Taps \cup {F101})]
        /\ (fetchers.armed => F101 \in Range(fetchers.layers))
    BY DEF CollectorInv, LayersOK
  <2>3. /\ fetchers' \in [armed : BOOLEAN, layers : Seq(Taps \cup {F101})]
        /\ F101 \in Range(fetchers'.layers)
        /\ Range(fetchers.layers) \subseteq Range(fetchers'.layers)
    BY <2>1, <2>2, ObservedKeeps
  <2>4. QED
    BY <2>1, <2>3 DEF CollectorInv, LayersOK
<1>2. ChainOK' /\ ClicksOK' /\ SaveOK' /\ ListsOK' /\ OpenRowsOK'
  BY Stays DEF OpenCollector, runner
<1>3. QED
  BY <1>1, <1>2 DEF CollectorInv

\* updateAction closes the rows with the id and leaves the others.
LEMMA RowsClosedAre ==
  ASSUME NEW n, NEW id, Capped(rows, n)
  PROVE  /\ Capped(RowsClosed(id), n) /\ DOMAIN RowsClosed(id) = DOMAIN rows
         /\ \A k \in DOMAIN rows :
              RowsClosed(id)[k].open => RowsClosed(id)[k] = rows[k] /\ rows[k].id # id
<1> DEFINE q == RowsClosed(id)
<1>1. /\ rows \in Seq(Written(n))
      /\ Len(rows) <= MaxActions
      /\ Len(rows) \in Nat
      /\ DOMAIN rows = 1..Len(rows)
  BY DEF Capped
<1>2. \A k \in DOMAIN rows : q[k] = IF rows[k].id = id THEN [rows[k] EXCEPT !.open = FALSE] ELSE rows[k]
  BY DEF RowsClosed
<1>3. \A k \in DOMAIN rows : q[k] \in Written(n)
  <2>1. SUFFICES ASSUME NEW k \in DOMAIN rows PROVE q[k] \in Written(n)
    OBVIOUS
  <2>2. rows[k] \in Written(n)
    BY <1>1
  <2>3. [rows[k] EXCEPT !.open = FALSE] \in Written(n)
    BY <2>2 DEF Written, Rows
  <2>4. QED
    BY <1>2, <2>2, <2>3
<1>4. q \in Seq(Written(n)) /\ Len(q) = Len(rows) /\ DOMAIN q = DOMAIN rows
  <2>1. q = [k \in 1..Len(rows) |-> q[k]]
    BY <1>1 DEF RowsClosed
  <2> HIDE DEF q
  <2>2. \A k \in 1..Len(rows) : q[k] \in Written(n)
    BY <1>1, <1>3
  <2>3. /\ [k \in 1..Len(rows) |-> q[k]] \in Seq(Written(n))
        /\ Len([k \in 1..Len(rows) |-> q[k]]) = Len(rows)
    BY <1>1, <2>2
  <2>4. QED
    BY <1>1, <2>1, <2>3
<1>5. \A k \in DOMAIN rows : q[k].open => q[k] = rows[k] /\ rows[k].id # id
  <2>1. SUFFICES ASSUME NEW k \in DOMAIN rows, q[k].open PROVE q[k] = rows[k] /\ rows[k].id # id
    OBVIOUS
  <2>2. CASE rows[k].id = id
    <3>1. rows[k] \in Rows
      BY <1>1 DEF Written
    <3>2. ~q[k].open
      BY <1>2, <2>2, <3>1 DEF Rows
    <3>3. QED
      BY <2>1, <3>2
  <2>3. CASE rows[k].id # id
    BY <1>2, <2>3
  <2>4. QED
    BY <2>2, <2>3
<1> HIDE DEF q
<1>6. Capped(q, n)
  BY <1>1, <1>4 DEF Capped
<1>7. QED
  BY <1>4, <1>5, <1>6 DEF q

LEMMA CloseWindowStep ==
  ASSUME CollectorInv, NEW w \in Taps, CloseWindow(w)
  PROVE  CollectorInv'
<1>1. /\ win[w].st = "open" /\ win' = [win EXCEPT ![w].st = "closed"]
      /\ fetchers' = [fetchers EXCEPT !.layers = Released(@, w)] /\ openers' = Released(openers, w)
      /\ Put(RowsClosed(win[w].row))
      /\ UNCHANGED <<left, route, minted, born, runner, save, flights>>
  BY DEF CloseWindow
<1> DEFINE q == RowsClosed(win[w].row)
<1>2. /\ Capped(q, minted) /\ DOMAIN q = DOMAIN rows
      /\ \A k \in DOMAIN rows : q[k].open => q[k] = rows[k] /\ rows[k].id # win[w].row
  BY RowsClosedAre DEF CollectorInv, ListsOK
<1>3. Put(q)
  BY <1>1
<1> HIDE DEF q
<1>4. ListsOK' /\ tab'.wrote = tab.wrote /\ rows' = q
  <2>1. left \in Allowances /\ minted \in Nat
    BY DEF CollectorInv, ListsOK
  <2>2. /\ Capped(q, minted')
        /\ minted <= minted'
        /\ minted' \in Nat
        /\ left' \in Allowances
        /\ left'.theirs = left.theirs
    BY <1>1, <1>2, <2>1
  <2>3. QED
    BY <1>1, <1>3, <2>2, PutKept DEF CollectorInv
<1>5. win \in [Taps -> [st : {"none", "open", "closed"}, row : Nat]]
  BY DEF CollectorInv, LayersOK
<1>6. OpenRowsOK'
  <2>1. \A v \in Taps : v # w => win'[v] = win[v]
    BY <1>1, <1>5
  <2>2. \A k \in DOMAIN rows', v \in Taps :
           rows'[k].open /\ win[v].st = "open" /\ win[v].row = rows'[k].id =>
             win'[v].st = "open" /\ win'[v].row = rows'[k].id
    BY <1>2, <1>4, <2>1
  <2>3. \A k \in DOMAIN rows' : rows'[k].open => \E i \in DOMAIN rows : rows'[k] = rows[i]
    BY <1>2, <1>4
  <2>4. QED
    BY <1>1, <1>4, <2>2, <2>3, OpenRowsCarry DEF CollectorInv
<1>7. LayersOK'
  <2>1. /\ fetchers \in [armed : BOOLEAN, layers : Seq(Taps \cup {F101})]
        /\ openers \in Seq(Taps \cup {Popups})
        /\ fetchers.armed => F101 \in Range(fetchers.layers)
        /\ \A v \in Taps : win[v].st = "open" => v \in Range(fetchers.layers)
        /\ Popups \in Range(openers) => cap # Nobody
    BY DEF CollectorInv, LayersOK
  <2>2. /\ Released(fetchers.layers, w) \in Seq(Taps \cup {F101})
        /\ \A x \in Range(fetchers.layers) : x # w => x \in Range(Released(fetchers.layers, w))
    BY <2>1, ReleasedKeeps
  <2>3. openers' \in Seq(Taps \cup {Popups}) /\ Range(openers') \subseteq Range(openers)
    BY <1>1, <2>1, ReleasedKeeps
  <2>4. /\ fetchers' \in [armed : BOOLEAN, layers : Seq(Taps \cup {F101})]
        /\ fetchers'.armed = fetchers.armed /\ fetchers'.layers = Released(fetchers.layers, w)
    BY <1>1, <2>1, <2>2
  <2>5. F101 # w
    BY CollectorNames
  <2>6. win' \in [Taps -> [st : {"none", "open", "closed"}, row : Nat]] /\ win'[w].st = "closed"
        /\ \A v \in Taps : v # w => win'[v] = win[v]
    BY <1>1, <1>5
  <2>7. cap' = cap
    BY <1>1 DEF runner
  <2>8. QED
    BY <2>1, <2>2, <2>3, <2>4, <2>5, <2>6, <2>7 DEF LayersOK
<1>8. ChainOK' /\ ClicksOK' /\ SaveOK'
  BY <1>1, Stays DEF runner
<1>9. QED
  BY <1>4, <1>6, <1>7, <1>8 DEF CollectorInv

-----------------------------------------------------------------------------
(***************************************************************************)
(* The instrumented handler and the requests.                              *)
(***************************************************************************)
LEMMA RowTyped ==
  ASSUME NEW id \in Nat, NEW src \in {"click", "own", "by hand", "global", "theirs"},
         NEW b \in DOMAIN Host \cup {Nobody}
  PROVE  [id |-> id, src |-> src, open |-> FALSE, button |-> b, late |-> FALSE, nested |-> {}] \in Rows
BY DEF Rows

\* A record folded into a click leaves every click where it is.
LEMMA FoldKept ==
  ASSUME ClicksOK, NEW clicks, clicks \in [Jobs -> ClickStates],
         NEW row \in Rows, row.src # "theirs", Record(row, clicks)
  PROVE  click' \in [Jobs -> ClickStates] /\ \A j \in Jobs : click'[j].phase = clicks[j].phase
<1>1. CASE cap = Nobody
  <2>1. click' = clicks
    BY <1>1 DEF Record
  <2>2. QED
    BY <2>1
<1>2. CASE cap # Nobody
  <2>1. cap \in Jobs
    BY <1>2 DEF ClicksOK
  <2>2. click' = [clicks EXCEPT ![cap].nested = @ \cup {row.src}]
    BY <1>2 DEF Record
  <2> DEFINE c == [clicks[cap] EXCEPT !.nested = @ \cup {row.src}]
  <2>3. clicks[cap] \in ClickStates
    BY <2>1
  <2>4. c \in ClickStates /\ c.phase = clicks[cap].phase
    <3>1. row.src \in {"click", "own", "by hand", "global"}
      BY DEF Rows
    <3>2. QED
      BY <2>3, <3>1 DEF ClickStates
  <2>5. click' = [clicks EXCEPT ![cap] = c]
    BY <2>2
  <2> HIDE DEF c
  <2>6. QED
    BY <2>1, <2>4, <2>5
<1>3. QED
  BY <1>1, <1>2

\* ClicksOK looks at where the clicks are.
LEMMA ClicksCarry ==
  ASSUME ClicksOK, route' \in Pages, click' \in [Jobs -> ClickStates],
         \A j \in Jobs : click'[j].phase = click[j].phase, UNCHANGED <<chain, cap>>
  PROVE  ClicksOK'
BY DEF ClicksOK

LEMMA SaveStartedKept ==
  ASSUME SaveOK, NEW by \in Jobs \cup {Operator}, NEW button, NEW watchers \in SUBSET Jobs,
         SaveStarted(by, button, watchers), by \in Jobs => cap' = by /\ by \in watchers
  PROVE  SaveOK'
<1> DEFINE g == Flight("save", TRUE, watchers)
<1>1. /\ save.phase = "none" /\ button \in DOMAIN Host
      /\ save' = [phase |-> "pre", by |-> by, button |-> button, late |-> FALSE]
      /\ flights' = flights \cup {g}
  BY CollectorAssumption DEF SaveStarted
<1>2. g \in Requests /\ g.who = "save" /\ g.after = watchers
  BY DEF Flight, Requests
<1>3. \A f \in flights : f.who # "save"
  BY <1>1 DEF SaveOK
<1> HIDE DEF g
<1>4. by # Nobody
  BY CollectorNames DEF Nobody, Operator
<1>5. save' \in SaveStates /\ save'.phase = "pre" /\ save'.by = by /\ save'.button = button
  BY <1>1 DEF SaveStates
<1>6. flights' \subseteq Requests
  BY <1>1, <1>2 DEF SaveOK
<1>7. \A f \in flights' : f.who = "save" => f = g
  BY <1>1, <1>3
<1>8. QED
  BY <1>1, <1>2, <1>4, <1>5, <1>6, <1>7 DEF SaveOK

\* Other requests come and go; a click that begins finds no other observed.
LEMMA SaveCarries ==
  ASSUME SaveOK, UNCHANGED save, cap' = cap \/ cap = Nobody, flights' \subseteq Requests,
         \A f \in flights' : f.who = "save" => f \in flights,
         \A f \in flights : f.who = "save" => f \in flights'
  PROVE  SaveOK'
<1>1. \A f \in flights : f.who = "save" /\ save.by \in Jobs /\ ~save.late => cap # Nobody
  BY CollectorNames DEF SaveOK
<1>2. \A f \in flights' : f.who = "save" =>
         /\ save'.phase # "none"
         /\ \A g \in flights' : g.who = "save" => g = f
         /\ save'.by \in Jobs /\ ~save'.late => cap' = save'.by /\ save'.by \in f.after
  BY <1>1 DEF SaveOK
<1>3. QED
  BY <1>2 DEF SaveOK

LEMMA SaveAnsweredStep ==
  ASSUME CollectorInv, NEW f \in flights, SaveAnswered(f)
  PROVE  CollectorInv'
<1>1. f.who = "save" /\ UNCHANGED <<left, route, job, chain, cap, fetchers, openers, win>>
  BY DEF SaveAnswered
<1>2. /\ save \in SaveStates /\ flights \subseteq Requests /\ save.phase # "none"
      /\ save.by # Nobody /\ save.button \in DOMAIN Host
      /\ \A g \in flights : g.who = "save" => g = f
      /\ save.by \in Jobs /\ ~save.late => cap = save.by /\ save.by \in f.after
  BY <1>1 DEF CollectorInv, SaveOK
<1>3. ChainOK' /\ LayersOK'
  BY <1>1, Stays
<1>4. CASE /\ save.phase \in {"pre", "act"}
           /\ save' = [save EXCEPT !.phase = IF @ = "pre" THEN "act" ELSE "post"]
           /\ flights' = (flights \ {f}) \cup {Flight("save", save.phase = "act", Observing)}
           /\ UNCHANGED <<store, click>>
  <2> DEFINE h == Flight("save", save.phase = "act", Observing)
  <2>1. Observing \subseteq Jobs /\ Observing = {j \in Jobs : cap = j}
    BY ObservedIs DEF CollectorInv
  <2>2. h \in Requests /\ h.who = "save" /\ h.after = Observing
    <3>1. (save.phase = "act") \in BOOLEAN
      OBVIOUS
    <3>2. QED
      BY <2>1, <3>1 DEF Flight, Requests
  <2>3. flights' = (flights \ {f}) \cup {h}
    BY <1>4
  <2> HIDE DEF h
  <2>4. /\ save' \in SaveStates /\ save'.phase # "none" /\ save'.by = save.by
        /\ save'.button = save.button /\ save'.late = save.late
    BY <1>2, <1>4 DEF SaveStates
  <2>5. flights' \subseteq Requests /\ h \in flights' /\ \A g \in flights' : g.who = "save" => g = h
    BY <1>2, <2>2, <2>3
  <2>6. save.by \in Jobs /\ ~save.late => cap' = save.by /\ save.by \in h.after
    BY <1>1, <1>2, <2>1, <2>2
  <2>7. SaveOK'
    BY <1>2, <2>2, <2>4, <2>5, <2>6 DEF SaveOK
  <2>8. ClicksOK' /\ ListsOK' /\ OpenRowsOK'
    BY <1>1, <1>4, Stays
  <2>9. QED
    BY <1>3, <2>7, <2>8 DEF CollectorInv
<1>5. CASE /\ save' = NoSave /\ flights' = flights \ {f}
           /\ Record([NewRow(IF save.by = Operator THEN "by hand" ELSE "own", save.button)
                        EXCEPT !.late = save.late], click)
  <2> DEFINE src == IF save.by = Operator THEN "by hand" ELSE "own"
             row == [NewRow(src, save.button) EXCEPT !.late = save.late]
  <2>1. SaveOK'
    <3>1. save' \in SaveStates /\ save'.phase = "none"
      BY <1>5 DEF NoSave, SaveStates
    <3>2. flights' \subseteq Requests /\ \A g \in flights' : g.who # "save"
      BY <1>2, <1>5
    <3>3. QED
      BY <3>1, <3>2 DEF SaveOK
  <2>2. minted \in Nat
    BY DEF CollectorInv, ListsOK
  <2>3. src \in {"own", "by hand"} /\ save.late \in BOOLEAN
    BY <1>2 DEF SaveStates
  <2>4. src = "own" => save.by \in Jobs
    BY <1>2 DEF SaveStates
  <2> HIDE DEF src
  <2>5. row \in Rows /\ row.id = minted + 1 /\ row.src = src /\ ~row.open /\ row.late = save.late
    <3> DEFINE fresh == [id |-> minted + 1, src |-> src, open |-> FALSE,
                         button |-> save.button, late |-> FALSE, nested |-> {}]
    <3>1. src # "global"
      BY <2>3
    <3>2. NewRow(src, save.button) = fresh
      BY <3>1 DEF NewRow
    <3>3. fresh \in Rows /\ fresh.id = minted + 1 /\ fresh.src = src /\ ~fresh.open
      <4>1. src \in {"click", "own", "by hand", "global", "theirs"}
        BY <2>3
      <4>2. fresh.open = FALSE /\ fresh.id = minted + 1 /\ fresh.src = src
        OBVIOUS
      <4>3. fresh \in Rows
        <5>1. minted + 1 \in Nat /\ save.button \in DOMAIN Host \cup {Nobody}
          BY <1>2, <2>2
        <5>2. QED
          BY <4>1, <5>1, RowTyped
      <4>4. QED
        BY <4>2, <4>3
    <3>4. row = [fresh EXCEPT !.late = save.late]
      BY <3>2
    <3> HIDE DEF fresh, row
    <3>5. QED
      BY <2>3, <3>3, <3>4 DEF Rows
  <2>6. cap = Nobody => (row.src = "own" => row.late)
    BY <1>2, <2>4, <2>5, CollectorNames
  <2>7. Record(row, click)
    BY <1>5 DEF src
  <2>8. left' \in Allowances /\ left'.theirs = left.theirs
    BY <1>1 DEF CollectorInv, ListsOK
  <2>9. row.src # "theirs"
    BY <2>3, <2>5
  <2> HIDE DEF row
  <2>10. /\ ListsOK' /\ tab'.wrote = tab.wrote /\ UNCHANGED born
         /\ \A k \in DOMAIN rows' :
              (cap = Nobody /\ rows'[k] = row) \/ \E i \in DOMAIN rows : rows'[k] = rows[i]
    BY <2>5, <2>6, <2>7, <2>8, RecordKept DEF CollectorInv
  <2>11. OpenRowsOK'
    BY <1>1, <2>5, <2>10, OpenRowsCarry DEF CollectorInv
  <2>12. ClicksOK'
    <3>1. click \in [Jobs -> ClickStates] /\ route \in Pages
      BY DEF CollectorInv, ClicksOK
    <3>2. click' \in [Jobs -> ClickStates] /\ \A j \in Jobs : click'[j].phase = click[j].phase
      <4>1. ClicksOK
        BY DEF CollectorInv
      <4>2. QED
        BY <2>5, <2>7, <2>9, <3>1, <4>1, FoldKept
    <3>3. QED
      BY <1>1, <3>1, <3>2, ClicksCarry DEF CollectorInv
  <2>13. QED
    BY <1>3, <2>1, <2>10, <2>11, <2>12 DEF CollectorInv
<1>6. QED
  BY <1>4, <1>5 DEF SaveAnswered

LEMMA AnsweredStep ==
  ASSUME CollectorInv, NEW f \in flights, Answered(f)
  PROVE  CollectorInv'
<1>1. /\ f.who # "save" /\ flights' = flights \ {f}
      /\ UNCHANGED <<left, route, store, runner, save, fetchers, openers, win>>
  BY DEF Answered
<1>2. flights \subseteq Requests
  BY DEF CollectorInv, SaveOK
<1>3. SaveOK'
  BY <1>1, <1>2, SaveCarries DEF CollectorInv, runner
<1>4. ChainOK' /\ ClicksOK' /\ LayersOK' /\ ListsOK' /\ OpenRowsOK'
  BY <1>1, Stays DEF runner
<1>5. QED
  BY <1>3, <1>4 DEF CollectorInv

-----------------------------------------------------------------------------
(***************************************************************************)
(* The operator on the page.                                               *)
(***************************************************************************)
LEMMA TapStep ==
  ASSUME CollectorInv, NEW w \in Taps, Tap(w)
  PROVE  CollectorInv'
<1> DEFINE row == NewRow("global", Nobody)
<1>1. /\ Spend("taps") /\ win[w].st = "none" /\ Record(row, click)
      /\ win' = [win EXCEPT ![w] = [st |-> "open", row |-> minted']]
      /\ openers' = Append(openers, w)
      /\ fetchers' \in {Wrapped(fetchers, w), Observed(Wrapped(fetchers, w))}
      /\ route' \in Pages
      /\ UNCHANGED <<job, chain, cap>>
  BY DEF Tap, CollectorInv, ClicksOK
<1>2. left' \in Allowances /\ left'.theirs = left.theirs
  BY <1>1, SpentIs DEF CollectorInv, ListsOK
<1>3. row \in Rows /\ row.id = minted + 1 /\ row.src = "global"
  <2>1. row = [id |-> minted + 1, src |-> "global", open |-> TRUE, button |-> Nobody,
               late |-> FALSE, nested |-> {}]
    BY DEF NewRow
  <2>2. minted \in Nat
    BY DEF CollectorInv, ListsOK
  <2> HIDE DEF row
  <2>3. QED
    BY <2>1, <2>2 DEF Rows
<1> HIDE DEF row
<1>4. /\ ListsOK' /\ tab'.wrote = tab.wrote /\ UNCHANGED born /\ minted' = minted + 1
      /\ \A k \in DOMAIN rows' :
           (cap = Nobody /\ rows'[k] = row) \/ \E i \in DOMAIN rows : rows'[k] = rows[i]
  BY <1>1, <1>2, <1>3, RecordKept DEF CollectorInv
<1>5. /\ win \in [Taps -> [st : {"none", "open", "closed"}, row : Nat]]
      /\ openers \in Seq(Taps \cup {Popups})
      /\ fetchers \in [armed : BOOLEAN, layers : Seq(Taps \cup {F101})]
      /\ fetchers.armed => F101 \in Range(fetchers.layers)
      /\ \A v \in Taps : win[v].st = "open" => v \in Range(fetchers.layers)
      /\ Popups \in Range(openers) => cap # Nobody
  BY DEF CollectorInv, LayersOK
<1>6. /\ win' \in [Taps -> [st : {"none", "open", "closed"}, row : Nat]]
      /\ win'[w].st = "open" /\ win'[w].row = minted' /\ \A v \in Taps : v # w => win'[v] = win[v]
  <2>1. minted' \in Nat
    BY <1>4 DEF ListsOK
  <2>2. QED
    BY <1>1, <1>5, <2>1
<1>7. OpenRowsOK'
  <2>1. SUFFICES ASSUME NEW k \in DOMAIN rows', rows'[k].open
                 PROVE  \/ \E v \in Taps : win'[v].st = "open" /\ win'[v].row = rows'[k].id
                        \/ rows'[k].id <= born' \/ tab'.wrote
    BY DEF OpenRowsOK
  <2>2. CASE rows'[k] = row
    BY <1>3, <1>4, <1>6, <2>2
  <2>3. CASE \E i \in DOMAIN rows : rows'[k] = rows[i]
    <3>1. PICK i \in DOMAIN rows : rows'[k] = rows[i]
      BY <2>3
    <3>2. \/ \E v \in Taps : win[v].st = "open" /\ win[v].row = rows[i].id
          \/ rows[i].id <= born \/ tab.wrote
      BY <2>1, <3>1 DEF CollectorInv, OpenRowsOK
    <3>3. CASE \E v \in Taps : win[v].st = "open" /\ win[v].row = rows[i].id
      <4>1. PICK v \in Taps : win[v].st = "open" /\ win[v].row = rows[i].id
        BY <3>3
      <4>2. v # w
        BY <1>1, <4>1
      <4>3. QED
        BY <1>6, <3>1, <4>1, <4>2
    <3>4. QED
      BY <1>4, <3>1, <3>2, <3>3
  <2>4. QED
    BY <1>4, <2>2, <2>3
<1>8. LayersOK'
  <2> DEFINE over == Wrapped(fetchers, w)
  <2>1. /\ over \in [armed : BOOLEAN, layers : Seq(Taps \cup {F101})] /\ over.armed = fetchers.armed
        /\ Range(over.layers) = Range(fetchers.layers) \cup {w}
    <3>1. /\ Append(fetchers.layers, w) \in Seq(Taps \cup {F101})
          /\ Range(Append(fetchers.layers, w)) = Range(fetchers.layers) \cup {w}
      BY <1>5, LayerOnTop
    <3>2. QED
      BY <1>5, <3>1 DEF Wrapped
  <2> HIDE DEF over
  <2>2. /\ Observed(over) \in [armed : BOOLEAN, layers : Seq(Taps \cup {F101})]
        /\ F101 \in Range(Observed(over).layers)
        /\ Range(over.layers) \subseteq Range(Observed(over).layers)
    <3>1. over.armed => F101 \in Range(over.layers)
      BY <1>5, <2>1
    <3> DEFINE S == Taps \cup {F101}
    <3>2. over \in [armed : BOOLEAN, layers : Seq(S)] /\ F101 \in S
      BY <2>1
    <3> HIDE DEF S
    <3>3. /\ Observed(over) \in [armed : BOOLEAN, layers : Seq(S)]
          /\ F101 \in Range(Observed(over).layers)
          /\ Range(over.layers) \subseteq Range(Observed(over).layers)
      BY <3>1, <3>2, ObservedKeeps
    <3>4. QED
      BY <3>3 DEF S
  <2>3. fetchers' = over \/ fetchers' = Observed(over)
    BY <1>1 DEF over
  <2>4. /\ fetchers' \in [armed : BOOLEAN, layers : Seq(Taps \cup {F101})]
        /\ fetchers'.armed => F101 \in Range(fetchers'.layers)
        /\ Range(over.layers) \subseteq Range(fetchers'.layers)
    BY <1>5, <2>1, <2>2, <2>3
  <2>5. openers' \in Seq(Taps \cup {Popups}) /\ Range(openers') = Range(openers) \cup {w}
    <3> DEFINE S == Taps \cup {Popups}
    <3>1. openers \in Seq(S) /\ w \in S
      BY <1>5
    <3> HIDE DEF S
    <3>2. Append(openers, w) \in Seq(S) /\ Range(Append(openers, w)) = Range(openers) \cup {w}
      BY <3>1, LayerOnTop
    <3>3. QED
      BY <1>1, <3>2 DEF S
  <2>6. Popups # w
    BY CollectorNames
  <2>7. QED
    BY <1>1, <1>5, <1>6, <2>1, <2>4, <2>5, <2>6 DEF LayersOK
<1>9. ClicksOK'
  <2>1. click \in [Jobs -> ClickStates] /\ row.src # "theirs"
    BY <1>3 DEF CollectorInv, ClicksOK
  <2>2. click' \in [Jobs -> ClickStates] /\ \A j \in Jobs : click'[j].phase = click[j].phase
    <3>1. ClicksOK
      BY DEF CollectorInv
    <3>2. QED
      BY <1>1, <1>3, <2>1, <3>1, FoldKept
  <2>3. QED
    BY <1>1, <2>2, ClicksCarry DEF CollectorInv
<1>10. SaveOK'
  <2>1. Observing \subseteq Jobs /\ flights \subseteq Requests
    BY ObservedIs DEF CollectorInv, SaveOK
  <2>2. CASE UNCHANGED <<save, flights>>
    BY <1>1, <2>1, <2>2, SaveCarries DEF CollectorInv
  <2>3. CASE flights' = Waited(flights \cup {Flight(w, FALSE, Observing)}) /\ UNCHANGED save
    <3> DEFINE g == Flight(w, FALSE, Observing)
    <3>1. g \in Requests /\ g.who # "save"
      BY <2>1, CollectorNames DEF Flight, Requests
    <3>2. flights' = {f \in flights \cup {g} : f.after # {} \/ f.who = "save"}
      BY <2>3 DEF Waited
    <3> HIDE DEF g
    <3>3. QED
      BY <1>1, <2>1, <2>3, <3>1, <3>2, SaveCarries DEF CollectorInv
  <2>4. CASE \E b \in Instrumented : SaveStarted(Operator, b, Observing)
    <3>1. Operator \notin Jobs
      BY CollectorNames
    <3>2. QED
      BY <2>1, <2>4, <3>1, SaveStartedKept DEF CollectorInv
  <2>5. QED
    BY <2>2, <2>3, <2>4 DEF Tap
<1>11. ChainOK'
  BY <1>1, Stays
<1>12. QED
  BY <1>4, <1>7, <1>8, <1>9, <1>10, <1>11 DEF CollectorInv

-----------------------------------------------------------------------------
(***************************************************************************)
(* The runner.                                                             *)
(***************************************************************************)
LEMMA NoJobTyped ==
  NoJob \in JobStates /\ NoJob.returns = TRUE /\ NoJob.todo = <<>> /\ NoJob.records = <<>>
  /\ NoClick \in ClickStates /\ NoClick.phase = "none" /\ Home \in Pages
<1>1. Home \in Pages
  BY CollectorAssumption DEF Pages
<1>2. <<>> \in Seq(DOMAIN Host) /\ <<>> \in Seq(Errors) /\ <<>> \in Seq(Taps) /\ NoError \in Errors
  BY DEF Errors
<1>3. NoJob \in JobStates
  BY <1>1, <1>2 DEF NoJob, JobStates
<1>4. NoClick \in ClickStates
  BY <1>1, <1>2 DEF NoClick, ClickStates
<1>5. QED
  BY <1>1, <1>3, <1>4 DEF NoJob, NoClick

\* A job that is started joins the end of the chain.
LEMMA StartStep ==
  ASSUME CollectorInv, NEW j \in Jobs, NEW todo \in Seq(DOMAIN Host), NEW returns \in BOOLEAN,
         Start(j, todo, returns)
  PROVE  CollectorInv'
<1> DEFINE r == [NoJob EXCEPT !.st = IF todo = <<>> THEN "home" ELSE "running",
                              !.todo = todo, !.returns = returns, !.origin = route]
<1>1. /\ job[j].st = "idle" /\ Spend("jobs") /\ job' = [job EXCEPT ![j] = r]
      /\ chain' = IF todo = <<>> THEN chain ELSE Append(chain, j)
      /\ UNCHANGED store \/ Touch
      /\ UNCHANGED <<route, click, cap, save, flights, fetchers, openers, win>>
  BY DEF Start
<1>2. route \in Pages /\ job \in [Jobs -> JobStates] /\ chain \in Seq(Jobs)
  BY DEF CollectorInv, ClicksOK, ChainOK
<1>3. /\ r \in JobStates /\ r.todo = todo /\ r.records = <<>> /\ r.sig = NoError
      /\ r.streak = 0 /\ r.aborted = FALSE /\ (todo # <<>> => r.st = "running")
  <2> DEFINE st == IF todo = <<>> THEN "home" ELSE "running"
  <2>1. st \in {"home", "running"} /\ (todo # <<>> => st = "running")
    OBVIOUS
  <2>2. /\ NoJob.records = <<>> /\ NoJob.sig = NoError /\ NoJob.streak = 0 /\ NoJob.aborted = FALSE
        /\ NoJob \in JobStates
    BY NoJobTyped DEF NoJob
  <2> HIDE DEF st
  <2>3. r = [NoJob EXCEPT !.st = st, !.todo = todo, !.returns = returns, !.origin = route]
    BY DEF st
  <2> HIDE DEF r
  <2>4. QED
    BY <1>2, <2>1, <2>2, <2>3 DEF JobStates
<1> HIDE DEF r
<1>4. job' \in [Jobs -> JobStates] /\ job'[j] = r /\ \A i \in Jobs : i # j => job'[i] = job[i]
  BY <1>1, <1>2, <1>3
<1>5. \A i \in DOMAIN chain : chain[i] \in Jobs /\ chain[i] # j
  BY <1>1, <1>2 DEF CollectorInv, ChainOK
<1>6. StreakOK(r)
  <2>1. Len(r.records) = 0 /\ DOMAIN r.records = {}
    <3>1. Len(<<>>) = 0 /\ DOMAIN <<>> = {}
      OBVIOUS
    <3>2. QED
      BY <1>3, <3>1
  <2>2. ~(r.streak >= ErrorLimit)
    BY <1>3, CollectorAssumption
  <2>3. QED
    BY <1>3, <2>1, <2>2 DEF StreakOK
<1>7. \A i \in Jobs : ~job'[i].returns => StreakOK(job'[i])
  BY <1>4, <1>6 DEF CollectorInv, ChainOK
<1>8. /\ chain' \in Seq(Jobs) /\ \A i, k \in DOMAIN chain' : chain'[i] = chain'[k] => i = k
      /\ \A i \in DOMAIN chain' : job'[chain'[i]].st = "running" /\ job'[chain'[i]].todo # <<>>
      /\ chain # <<>> => chain' # <<>> /\ Head(chain') = Head(chain)
  <2>1. CASE todo = <<>>
    BY <1>1, <1>2, <1>4, <1>5, <2>1 DEF CollectorInv, ChainOK
  <2>2. CASE todo # <<>>
    <3>1. /\ chain' \in Seq(Jobs) /\ DOMAIN chain' = 1..(Len(chain) + 1) /\ Len(chain) \in Nat
          /\ DOMAIN chain = 1..Len(chain) /\ chain'[Len(chain) + 1] = j
          /\ \A k \in 1..Len(chain) : chain'[k] = chain[k]
      BY <1>1, <1>2, <2>2
    <3>2. \A i \in DOMAIN chain' : i \in DOMAIN chain \/ i = Len(chain) + 1
      BY <3>1
    <3>3. \A i, k \in DOMAIN chain' : chain'[i] = chain'[k] => i = k
      BY <1>5, <3>1, <3>2 DEF CollectorInv, ChainOK
    <3>4. \A i \in DOMAIN chain' : job'[chain'[i]].st = "running" /\ job'[chain'[i]].todo # <<>>
      BY <1>3, <1>4, <1>5, <2>2, <3>1, <3>2 DEF CollectorInv, ChainOK
    <3>5. chain # <<>> => chain' # <<>> /\ Head(chain') = Head(chain)
      BY <1>1, <1>2, <2>2
    <3>6. QED
      BY <3>1, <3>3, <3>4, <3>5
  <2>3. QED
    BY <2>1, <2>2
<1>9. ChainOK'
  BY <1>4, <1>7, <1>8 DEF ChainOK
<1>10. ClicksOK'
  BY <1>1, <1>8 DEF CollectorInv, ClicksOK
<1>11. left' \in Allowances /\ left'.theirs = left.theirs
  BY <1>1, SpentIs DEF CollectorInv, ListsOK
<1>12. ListsOK' /\ tab'.wrote = tab.wrote /\ UNCHANGED <<rows, minted, born>>
  <2>1. CASE UNCHANGED store
    <3>1. UNCHANGED <<rows, persisted, err, tab, born, minted>>
      BY <2>1 DEF store
    <3>2. minted \in Nat
      BY DEF CollectorInv, ListsOK
    <3>3. minted' \in Nat /\ minted <= minted'
      BY <3>1, <3>2
    <3>4. QED
      BY <1>11, <3>1, <3>3, ListsSame DEF CollectorInv
  <2>2. CASE Touch
    BY <1>11, <2>2, TouchKept DEF CollectorInv
  <2>3. QED
    BY <1>1, <2>1, <2>2
<1>13. OpenRowsOK'
  BY <1>1, <1>12, OpenRowsCarry DEF CollectorInv
<1>14. SaveOK' /\ LayersOK'
  BY <1>1, Stays
<1>15. QED
  BY <1>9, <1>10, <1>12, <1>13, <1>14 DEF CollectorInv

LEMMA ClickNowStep ==
  ASSUME CollectorInv, NEW j \in Jobs, ClickNow(j)
  PROVE  CollectorInv'
<1>1. PICK b \in Range(AllButtons) : Start(j, <<b>>, TRUE)
  BY DEF ClickNow
<1>2. b \in DOMAIN Host
  BY <1>1, CollectorAssumption DEF Range
<1>3. <<b>> \in Seq(DOMAIN Host)
  BY <1>2
<1>4. QED
  BY <1>1, <1>3, StartStep

LEMMA ClickAllStep ==
  ASSUME CollectorInv, NEW j \in Jobs, ClickAll(j)
  PROVE  CollectorInv'
<1> DEFINE todo == SubSeq(AllButtons, 1, left.batch)
<1>1. todo \in Seq(DOMAIN Host)
  <2>1. left.batch \in 0..Len(AllButtons) /\ AllButtons \in Seq(DOMAIN Host)
    BY CollectorAssumption DEF CollectorInv, ListsOK, Allowances
  <2>2. QED
    BY <2>1
<1>2. Start(j, todo, FALSE)
  BY DEF ClickAll
<1> HIDE DEF todo
<1>3. QED
  BY <1>1, <1>2, StartStep

LEMMA ReplayAllStep ==
  ASSUME CollectorInv, NEW j \in Jobs, ReplayAll(j)
  PROVE  CollectorInv'
<1>1. PICK order \in [1..Cardinality(FirstOf) -> FirstOf] :
        Start(j, [i \in DOMAIN order |-> rows[order[i]].button], FALSE)
  BY DEF ReplayAll
<1> DEFINE n == Cardinality(FirstOf)
           todo == [i \in DOMAIN order |-> rows[order[i]].button]
<1>2. n \in Nat
  <2>1. rows \in Seq(Rows)
    BY CappedRows DEF CollectorInv, ListsOK
  <2>2. FirstOf \subseteq 1..Len(rows) /\ Len(rows) \in Nat
    BY <2>1 DEF FirstOf
  <2>3. IsFiniteSet(1..Len(rows))
    BY <2>2, FS_Interval
  <2>4. QED
    BY <2>2, <2>3, FS_Subset, FS_CardinalityType
<1>3. \A i \in FirstOf : rows[i].button \in DOMAIN Host
  BY DEF FirstOf
<1>4. DOMAIN order = 1..n /\ \A i \in 1..n : order[i] \in FirstOf
  BY <1>1
<1>5. todo \in Seq(DOMAIN Host)
  <2>1. todo = [i \in 1..n |-> todo[i]] /\ \A i \in 1..n : todo[i] \in DOMAIN Host
    BY <1>3, <1>4
  <2> HIDE DEF todo, n
  <2>2. [i \in 1..n |-> todo[i]] \in Seq(DOMAIN Host)
    BY <1>2, <2>1
  <2>3. QED
    BY <2>1, <2>2
<1>6. Start(j, todo, FALSE)
  BY <1>1
<1> HIDE DEF todo
<1>7. QED
  BY <1>5, <1>6, StartStep

\* What a step of the running click that writes the store keeps.
LEMMA TouchedStep ==
  ASSUME CollectorInv, Touch, UNCHANGED <<left, win>>
  PROVE  ListsOK' /\ OpenRowsOK'
<1>1. left' \in Allowances /\ left'.theirs = left.theirs
  BY DEF CollectorInv, ListsOK
<1>2. ListsOK' /\ tab'.wrote = tab.wrote /\ UNCHANGED <<rows, minted, born>>
  BY <1>1, TouchKept DEF CollectorInv
<1>3. QED
  BY <1>2, OpenRowsCarry DEF CollectorInv

LEMMA ButtonTyped ==
  ASSUME CollectorInv, NEW j \in Jobs, chain # <<>>, j = Head(chain)
  PROVE  Button(j) \in DOMAIN Host /\ job[j].todo \in Seq(DOMAIN Host) /\ job[j].todo # <<>>
<1>1. chain \in Seq(Jobs) /\ job[j] \in JobStates
  BY DEF CollectorInv, ChainOK
<1>2. 1 \in DOMAIN chain /\ j = chain[1]
  BY <1>1
<1>3. job[j].todo # <<>> /\ job[j].todo \in Seq(DOMAIN Host)
  BY <1>1, <1>2 DEF CollectorInv, ChainOK, JobStates
<1>4. QED
  BY <1>3 DEF Button

LEMMA BeginStep ==
  ASSUME CollectorInv, NEW j \in Jobs, Begin(j)
  PROVE  CollectorInv'
<1> DEFINE c == [NoClick EXCEPT !.phase = "finding", !.origin = route]
<1>1. /\ chain # <<>>
      /\ j = Head(chain)
      /\ click[j].phase = "none"
      /\ click' = [click EXCEPT ![j] = c]
      /\ route' = IF OnPage(Button(j)) THEN route ELSE Host[Button(j)]
      /\ fetchers' = Observed(fetchers) /\ Touch
      /\ UNCHANGED <<left, job, chain, cap, save, flights, openers, win>>
  BY DEF Begin
<1>2. route \in Pages /\ click \in [Jobs -> ClickStates]
  BY DEF CollectorInv, ClicksOK
<1>3. c \in ClickStates /\ c.phase = "finding"
  BY <1>2, NoJobTyped DEF ClickStates
<1> HIDE DEF c
<1>4. route' \in Pages
  <2>1. Button(j) \in DOMAIN Host
    BY <1>1, ButtonTyped
  <2>2. CASE OnPage(Button(j))
    BY <1>1, <1>2, <2>2
  <2>3. CASE ~OnPage(Button(j))
    <3>1. Host[Button(j)] # "any"
      BY <2>3 DEF OnPage
    <3>2. QED
      BY <1>1, <2>1, <2>3, <3>1 DEF Pages
  <2>4. QED
    BY <2>2, <2>3
<1>5. click' \in [Jobs -> ClickStates] /\ click'[j] = c /\ \A i \in Jobs : i # j => click'[i] = click[i]
  BY <1>1, <1>2, <1>3
<1>6. ClicksOK'
  BY <1>1, <1>3, <1>4, <1>5 DEF CollectorInv, ClicksOK
<1>7. LayersOK'
  <2>1. /\ fetchers \in [armed : BOOLEAN, layers : Seq(Taps \cup {F101})]
        /\ (fetchers.armed => F101 \in Range(fetchers.layers))
    BY DEF CollectorInv, LayersOK
  <2>2. /\ fetchers' \in [armed : BOOLEAN, layers : Seq(Taps \cup {F101})]
        /\ F101 \in Range(fetchers'.layers)
        /\ Range(fetchers.layers) \subseteq Range(fetchers'.layers)
    BY <1>1, <2>1, ObservedKeeps
  <2>3. QED
    BY <1>1, <2>2 DEF CollectorInv, LayersOK
<1>8. ChainOK' /\ SaveOK' /\ ListsOK' /\ OpenRowsOK'
  BY <1>1, Stays, TouchedStep
<1>9. QED
  BY <1>6, <1>7, <1>8 DEF CollectorInv

LEMMA FoundStep ==
  ASSUME CollectorInv, NEW j \in Jobs, Found(j)
  PROVE  CollectorInv'
<1>1. PICK p \in {"pre", "missing"} : click' = [click EXCEPT ![j].phase = p]
  BY DEF Found
<1>2. /\ click[j].phase = "finding" /\ Touch
      /\ UNCHANGED <<left, route, job, chain, cap, save, flights, fetchers, openers, win>>
  BY DEF Found
<1>3. click \in [Jobs -> ClickStates]
  BY DEF CollectorInv, ClicksOK
<1>4. /\ click' \in [Jobs -> ClickStates] /\ click'[j].phase = p
      /\ \A i \in Jobs : i # j => click'[i] = click[i]
  <2> DEFINE c == [click[j] EXCEPT !.phase = p]
  <2>1. c \in ClickStates /\ c.phase = p
    BY <1>3 DEF ClickStates
  <2>2. click' = [click EXCEPT ![j] = c]
    BY <1>1
  <2> HIDE DEF c
  <2>3. QED
    BY <1>3, <2>1, <2>2
<1>5. ClicksOK'
  BY <1>1, <1>2, <1>4 DEF CollectorInv, ClicksOK
<1>6. ChainOK' /\ SaveOK' /\ LayersOK' /\ ListsOK' /\ OpenRowsOK'
  BY <1>2, Stays, TouchedStep
<1>7. QED
  BY <1>5, <1>6 DEF CollectorInv

LEMMA PressStep ==
  ASSUME CollectorInv, NEW j \in Jobs, Press(j)
  PROVE  CollectorInv'
<1>1. /\ click[j].phase = "pre"
      /\ click' = [click EXCEPT ![j].phase = "observing", ![j].saved = openers]
      /\ cap' = j /\ openers' = Append(openers, Popups) /\ Touch
      /\ UNCHANGED <<left, route, job, chain, fetchers, win>>
  BY DEF Press
<1>2. cap = Nobody /\ Observing = {} /\ chain # <<>> /\ j = Head(chain)
  BY <1>1, NoneObserved DEF CollectorInv
<1>3. openers \in Seq(Taps \cup {Popups}) /\ Popups \notin Range(openers)
  BY <1>2 DEF CollectorInv, LayersOK
<1>4. openers \in Seq(Taps)
  <2>1. \A k \in 1..Len(openers) : openers[k] \in Taps
    <3>1. SUFFICES ASSUME NEW k \in 1..Len(openers) PROVE openers[k] \in Taps
      OBVIOUS
    <3>2. k \in DOMAIN openers /\ openers[k] \in Taps \cup {Popups}
      BY <1>3
    <3>3. openers[k] \in Range(openers)
      BY <3>2 DEF Range
    <3>4. QED
      BY <1>3, <3>2, <3>3
  <2>2. QED
    BY <1>3, <2>1, SeqRetyped
<1>5. click \in [Jobs -> ClickStates]
  BY DEF CollectorInv, ClicksOK
<1>6. /\ click' \in [Jobs -> ClickStates] /\ click'[j].phase = "observing"
      /\ \A i \in Jobs : i # j => click'[i] = click[i]
  <2> DEFINE c == [click[j] EXCEPT !.phase = "observing", !.saved = openers]
  <2>1. c \in ClickStates /\ c.phase = "observing"
    BY <1>4, <1>5 DEF ClickStates
  <2>2. click' = [click EXCEPT ![j] = c]
    BY <1>1
  <2> HIDE DEF c
  <2>3. QED
    BY <1>5, <2>1, <2>2
<1>7. ClicksOK'
  <2>1. \A i \in Jobs : i # j => click[i].phase # "observing"
    BY <1>2, CollectorNames DEF CollectorInv, ClicksOK
  <2>2. \A i \in Jobs : click'[i].phase = "observing" <=> cap' = i
    BY <1>1, <1>6, <2>1
  <2>3. \A i \in Jobs : click'[i].phase # "none" => chain' # <<>> /\ i = Head(chain')
    BY <1>1, <1>2, <1>6 DEF CollectorInv, ClicksOK
  <2>4. QED
    BY <1>1, <1>6, <2>2, <2>3 DEF CollectorInv, ClicksOK
<1>8. SaveOK'
  <2>1. flights \subseteq Requests
    BY DEF CollectorInv, SaveOK
  <2>2. CASE UNCHANGED <<save, flights>>
    BY <1>2, <2>1, <2>2, SaveCarries DEF CollectorInv
  <2>3. CASE flights' = flights \cup {Flight(j, FALSE, Observing \cup {j})} /\ UNCHANGED save
    <3> DEFINE g == Flight(j, FALSE, Observing \cup {j})
    <3>1. g \in Requests /\ g.who # "save"
      BY <1>2, CollectorNames DEF Flight, Requests
    <3>2. flights' = flights \cup {g}
      BY <2>3
    <3> HIDE DEF g
    <3>3. flights' \subseteq Requests /\ \A f \in flights' : f.who = "save" => f \in flights
      BY <2>1, <3>1, <3>2
    <3>4. QED
      BY <1>2, <2>3, <3>2, <3>3, SaveCarries DEF CollectorInv
  <2>4. CASE SaveStarted(j, Button(j), Observing \cup {j})
    <3> DEFINE watchers == Observing \cup {j}
    <3>1. watchers \in SUBSET Jobs /\ j \in watchers
      BY <1>2
    <3>2. SaveStarted(j, Button(j), watchers)
      BY <2>4
    <3> HIDE DEF watchers
    <3>3. QED
      BY <1>1, <3>1, <3>2, SaveStartedKept DEF CollectorInv
  <2>5. QED
    BY <2>2, <2>3, <2>4 DEF Press
<1>9. LayersOK'
  <2> DEFINE S == Taps \cup {Popups}
  <2>1. openers \in Seq(S) /\ Popups \in S
    BY <1>3
  <2> HIDE DEF S
  <2>2. Append(openers, Popups) \in Seq(S)
    BY <2>1, LayerOnTop
  <2>3. openers' \in Seq(Taps \cup {Popups}) /\ cap' # Nobody
    BY <1>1, <2>2, CollectorNames DEF S
  <2>4. QED
    BY <1>1, <2>3 DEF CollectorInv, LayersOK
<1>10. ChainOK' /\ ListsOK' /\ OpenRowsOK'
  BY <1>1, Stays, TouchedStep
<1>11. QED
  BY <1>7, <1>8, <1>9, <1>10 DEF CollectorInv

\* The observation ends: a save it did not wait out is late from then on.
LEMMA EndStep ==
  ASSUME CollectorInv, NEW j \in Jobs, End(j)
  PROVE  CollectorInv'
<1> DEFINE late == Outstanding(j) # {}
           un(f) == [f EXCEPT !.after = @ \ {j}]
<1>1. /\ click[j].phase = "observing"
      /\ click' = [click EXCEPT ![j].phase = "post", ![j].late = late]
      /\ save' = IF save.by = j /\ late THEN [save EXCEPT !.late = TRUE] ELSE save
      /\ cap' = Nobody /\ openers' = click[j].saved
      /\ flights' = {f \in {un(g) : g \in flights} : f.after # {} \/ f.who = "save"}
      /\ Touch /\ UNCHANGED <<left, route, job, chain, fetchers, win>>
  BY DEF End, Waited
<1>2. cap = j /\ chain # <<>> /\ j = Head(chain) /\ click \in [Jobs -> ClickStates]
  BY <1>1 DEF CollectorInv, ClicksOK
<1>3. late \in BOOLEAN
  OBVIOUS
<1>4. ClicksOK'
  <2> DEFINE c == [click[j] EXCEPT !.phase = "post", !.late = late]
  <2>1. c \in ClickStates /\ c.phase = "post"
    <3> HIDE DEF late
    <3>1. QED
      BY <1>2, <1>3 DEF ClickStates
  <2>2. click' = [click EXCEPT ![j] = c]
    BY <1>1
  <2> HIDE DEF c, late
  <2>3. /\ click' \in [Jobs -> ClickStates] /\ click'[j].phase = "post"
        /\ \A i \in Jobs : i # j => click'[i] = click[i]
    BY <1>2, <2>1, <2>2
  <2>4. \A i \in Jobs : click'[i].phase # "observing" /\ cap' # i
    BY <1>1, <1>2, <2>3, CollectorNames DEF CollectorInv, ClicksOK
  <2>5. \A i \in Jobs : click'[i].phase # "none" => chain' # <<>> /\ i = Head(chain')
    BY <1>1, <1>2, <2>3 DEF CollectorInv, ClicksOK
  <2>6. QED
    BY <1>1, <2>3, <2>4, <2>5 DEF CollectorInv, ClicksOK
<1>5. SaveOK'
  <2>1. flights \subseteq Requests /\ save \in SaveStates
    BY DEF CollectorInv, SaveOK
  <2>2. \A g \in flights : un(g) \in Requests /\ un(g).who = g.who
    BY <2>1 DEF Requests
  <2> HIDE DEF un
  <2>3. /\ flights' \subseteq Requests
        /\ \A f \in flights' : \E g \in flights : f = un(g) /\ f.who = g.who
        /\ \A g \in flights : g.who = "save" => un(g) \in flights' /\ un(g).who = "save"
    BY <1>1, <2>2
  <2>4. save' \in SaveStates /\ save'.phase = save.phase /\ save'.by = save.by
        /\ save'.button = save.button /\ (save.late => save'.late)
        /\ (save.by = j /\ late => save'.late)
    <3> HIDE DEF late
    <3>1. CASE save.by = j /\ late
      BY <1>1, <2>1, <3>1 DEF SaveStates
    <3>2. CASE ~(save.by = j /\ late)
      BY <1>1, <2>1, <3>2
    <3>3. QED
      BY <3>1, <3>2
  <2>5. ASSUME NEW g \in flights, g.who = "save", save'.by \in Jobs, ~save'.late PROVE FALSE
    <3>1. cap = save.by /\ save.by \in g.after
      BY <2>4, <2>5 DEF CollectorInv, SaveOK
    <3>2. g \in Outstanding(j)
      BY <1>2, <3>1 DEF Outstanding
    <3>3. late
      BY <3>2
    <3> HIDE DEF late
    <3>4. QED
      BY <1>2, <2>4, <2>5, <3>1, <3>3
  <2>6. \A f \in flights' : f.who = "save" =>
          /\ save'.phase # "none"
          /\ \A h \in flights' : h.who = "save" => h = f
          /\ save'.by \in Jobs /\ ~save'.late => cap' = save'.by /\ save'.by \in f.after
    <3>1. SUFFICES ASSUME NEW f \in flights', f.who = "save"
                   PROVE  /\ save'.phase # "none"
                          /\ \A h \in flights' : h.who = "save" => h = f
                          /\ ~(save'.by \in Jobs /\ ~save'.late)
      OBVIOUS
    <3>2. PICK g \in flights : f = un(g) /\ g.who = "save"
      BY <2>3, <3>1
    <3>3. save.phase # "none" /\ \A i \in flights : i.who = "save" => i = g
      BY <3>2 DEF CollectorInv, SaveOK
    <3>4. \A h \in flights' : h.who = "save" => h = f
      BY <2>3, <3>2, <3>3
    <3>5. QED
      BY <2>4, <2>5, <3>2, <3>3, <3>4
  <2>7. save'.phase # "none" => \E f \in flights' : f.who = "save"
    BY <2>3, <2>4 DEF CollectorInv, SaveOK
  <2>8. save'.phase # "none" => save'.by # Nobody /\ save'.button \in DOMAIN Host
    BY <2>4 DEF CollectorInv, SaveOK
  <2>9. QED
    BY <2>3, <2>4, <2>6, <2>7, <2>8 DEF SaveOK
<1>6. LayersOK'
  <2>1. openers' \in Seq(Taps)
    BY <1>1, <1>2 DEF ClickStates
  <2>2. \A k \in 1..Len(openers') : openers'[k] \in Taps
    BY <2>1
  <2>3. openers' \in Seq(Taps \cup {Popups}) /\ Popups \notin Range(openers')
    <3>1. Popups \notin Taps
      BY CollectorNames
    <3>2. Popups \notin Range(openers')
      BY <2>1, <2>2, <3>1 DEF Range
    <3>3. openers' \in Seq(Taps \cup {Popups})
      <4> DEFINE S == Taps \cup {Popups}
      <4>1. \A k \in 1..Len(openers') : openers'[k] \in S
        BY <2>2
      <4> HIDE DEF S
      <4>2. openers' \in Seq(S)
        BY <2>1, <4>1, SeqRetyped
      <4>3. QED
        BY <4>2 DEF S
    <3>4. QED
      BY <3>2, <3>3
  <2>4. QED
    BY <1>1, <2>3 DEF CollectorInv, LayersOK
<1>7. ChainOK' /\ ListsOK' /\ OpenRowsOK'
  BY <1>1, Stays, TouchedStep
<1>8. QED
  BY <1>4, <1>5, <1>6, <1>7 DEF CollectorInv

LEMMA TailTyped ==
  ASSUME NEW S, NEW q \in Seq(S), q # <<>>
  PROVE  Tail(q) \in Seq(S)
  OBVIOUS

\* One more click of a batch.
LEMMA StreakStep ==
  ASSUME NEW a \in JobStates, NEW b \in JobStates, NEW sig \in Errors, StreakOK(a),
         b.records = Append(a.records, sig), b.sig = sig,
         b.streak = (IF sig = NoError THEN 0 ELSE IF sig = a.sig THEN a.streak + 1 ELSE 1),
         b.aborted <=> b.streak >= ErrorLimit, b.aborted => b.st # "running"
  PROVE  StreakOK(b)
<1> DEFINE n == Len(a.records)
<1>1. a.records \in Seq(Errors) /\ n \in Nat /\ a.streak \in Nat /\ b.streak \in Nat
  BY DEF JobStates
<1>2. /\ Len(b.records) = n + 1 /\ DOMAIN b.records = 1..(n + 1) /\ DOMAIN a.records = 1..n
      /\ b.records[n + 1] = sig /\ \A k \in 1..n : b.records[k] = a.records[k]
  BY <1>1
<1>3. b.records # <<>> /\ Last(b.records) = sig
  BY <1>1, <1>2 DEF Last
<1>4. n > 0 => a.sig = a.records[n]
  BY <1>1 DEF StreakOK, Last
<1>5. /\ a.streak <= n
      /\ \A k \in 1..n : k > n - a.streak => a.records[k] = a.sig /\ a.sig # NoError
      /\ a.streak < n => a.records[n - a.streak] # a.sig \/ a.sig = NoError
  BY <1>2 DEF StreakOK
<1> HIDE DEF n
<1>6. /\ b.streak <= n + 1
      /\ \A k \in 1..(n + 1) : k > (n + 1) - b.streak => b.records[k] = sig /\ sig # NoError
      /\ b.streak < n + 1 => b.records[(n + 1) - b.streak] # sig \/ sig = NoError
      /\ sig # NoError => b.streak > 0
  <2>1. CASE sig = NoError
    <3>1. b.streak = 0
      BY <2>1
    <3>2. QED
      BY <1>1, <2>1, <3>1
  <2>2. CASE sig # NoError /\ sig = a.sig
    <3>1. b.streak = a.streak + 1 /\ (n + 1) - b.streak = n - a.streak
      BY <1>1, <2>2
    <3>2. \A k \in 1..(n + 1) : k > (n + 1) - b.streak => b.records[k] = sig
      <4>1. SUFFICES ASSUME NEW k \in 1..(n + 1), k > n - a.streak PROVE b.records[k] = sig
        BY <3>1
      <4>2. k \in 1..n \/ k = n + 1
        BY <1>1
      <4>3. QED
        BY <1>2, <1>5, <2>2, <4>1, <4>2
    <3>3. b.streak < n + 1 => b.records[(n + 1) - b.streak] # sig
      <4>0. b.streak < n + 1 => a.streak < n
        BY <1>1, <3>1
      <4>1. SUFFICES ASSUME a.streak < n PROVE b.records[n - a.streak] # sig
        BY <3>1, <4>0, Zenon
      <4>2. n - a.streak \in 1..n
        BY <1>1, <4>1
      <4>3. QED
        BY <1>2, <1>5, <2>2, <4>1, <4>2
    <3>4. b.streak <= n + 1 /\ b.streak > 0
      BY <1>1, <1>5, <3>1
    <3>5. QED
      BY <2>2, <3>2, <3>3, <3>4, Zenon
  <2>3. CASE sig # NoError /\ sig # a.sig
    <3>1. b.streak = 1 /\ (n + 1) - b.streak = n
      BY <1>1, <2>3
    <3>2. \A k \in 1..(n + 1) : k > n => k = n + 1
      BY <1>1
    <3>3. n > 0 => n \in 1..n
      BY <1>1
    <3>4. b.streak < n + 1 => b.records[n] # sig
      BY <1>1, <1>2, <1>4, <2>3, <3>1, <3>3
    <3>5. QED
      BY <1>1, <1>2, <2>3, <3>1, <3>2, <3>4
  <2>4. QED
    BY <2>1, <2>2, <2>3
<1> DEFINE m == n + 1
<1>7. Len(b.records) = m /\ DOMAIN b.records = 1..m
  BY <1>2
<1>8. /\ b.streak <= m
      /\ \A k \in 1..m : k > m - b.streak => b.records[k] = b.sig /\ b.sig # NoError
      /\ b.streak < m => b.records[m - b.streak] # b.sig \/ b.sig = NoError
      /\ b.sig # NoError => b.streak > 0
  BY <1>6
<1> HIDE DEF m
<1>9. b.sig = IF b.records = <<>> THEN NoError ELSE Last(b.records)
  BY <1>3
<1>10. QED
  BY <1>7, <1>8, <1>9, Zenon DEF StreakOK

\* The click's job leaves the head of the chain, and joins its end unless it
\* is over.
LEMMA ResolvedKeeps ==
  ASSUME CollectorInv, NEW j \in Jobs, chain # <<>>, j = Head(chain), NEW sig \in Errors,
         Resolved(j, sig)
  PROVE  ChainOK'
<1> DEFINE streak == Streak(j, sig)
           abort == ~job[j].returns /\ streak >= ErrorLimit
           todo == Tail(job[j].todo)
           st == IF job[j].returns THEN "done" ELSE IF abort \/ todo = <<>> THEN "home" ELSE "running"
           records == IF job[j].returns THEN <<>> ELSE Append(job[j].records, sig)
           r == [job[j] EXCEPT !.st = st, !.todo = todo, !.sig = sig, !.streak = streak,
                               !.aborted = abort, !.records = records]
<1>1. job \in [Jobs -> JobStates] /\ chain \in Seq(Jobs) /\ job[j] \in JobStates
  <2>1. ChainOK
    BY DEF CollectorInv
  <2>2. job \in [Jobs -> JobStates] /\ chain \in Seq(Jobs)
    BY <2>1 DEF ChainOK
  <2> HIDE DEF r
  <2>3. QED
    BY <2>2
<1>2. job' = [job EXCEPT ![j] = r] /\ chain' = Tail(chain) \o (IF st = "running" THEN <<j>> ELSE <<>>)
  BY Zenon DEF Resolved
<1>3. /\ streak \in Nat
      /\ streak = IF sig = NoError THEN 0 ELSE IF sig = job[j].sig THEN job[j].streak + 1 ELSE 1
  BY <1>1 DEF Streak, JobStates
<1>4. todo \in Seq(DOMAIN Host)
  <2>1. job[j].todo \in Seq(DOMAIN Host) /\ job[j].todo # <<>>
    BY ButtonTyped
  <2>2. QED
    BY <2>1, TailTyped
<1>5. abort \in BOOLEAN /\ st \in {"running", "home", "done"}
  OBVIOUS
<1>6. records \in Seq(Errors) /\ (~job[j].returns => records = Append(job[j].records, sig))
  BY <1>1 DEF JobStates
<1>7. /\ st = "running" => todo # <<>> /\ ~abort
      /\ ~job[j].returns => (abort <=> streak >= ErrorLimit)
  OBVIOUS
<1> HIDE DEF streak, abort, todo, st, records
<1>8. /\ r \in JobStates /\ r.st = st /\ r.todo = todo /\ r.sig = sig /\ r.streak = streak
      /\ r.aborted = abort /\ r.records = records /\ r.returns = job[j].returns
  BY <1>1, <1>3, <1>4, <1>5, <1>6 DEF JobStates
<1> HIDE DEF r
<1>9. job' \in [Jobs -> JobStates] /\ job'[j] = r /\ \A i \in Jobs : i # j => job'[i] = job[i]
  BY <1>1, <1>2, <1>8
<1>10. ~r.returns => StreakOK(r)
  <2>1. SUFFICES ASSUME ~job[j].returns PROVE StreakOK(r)
    BY <1>8
  <2>2. StreakOK(job[j])
    BY <2>1 DEF CollectorInv, ChainOK
  <2>3. r.records = Append(job[j].records, sig) /\ r.sig = sig
    BY <1>6, <1>8, <2>1
  <2>4. r.streak = IF sig = NoError THEN 0 ELSE IF sig = job[j].sig THEN job[j].streak + 1 ELSE 1
    BY <1>3, <1>8
  <2>5. r.aborted <=> r.streak >= ErrorLimit
    BY <1>7, <1>8, <2>1
  <2>6. r.aborted => r.st # "running"
    BY <1>7, <1>8
  <2>7. QED
    BY <1>1, <1>8, <2>2, <2>3, <2>4, <2>5, <2>6, StreakStep
<1>11. /\ Len(chain) \in Nat \ {0} /\ DOMAIN chain = 1..Len(chain) /\ chain[1] = j
       /\ Tail(chain) \in Seq(Jobs) /\ Len(Tail(chain)) = Len(chain) - 1
       /\ \A k \in 1..(Len(chain) - 1) : Tail(chain)[k] = chain[k + 1]
  BY <1>1
<1> DEFINE t == Tail(chain)
           n == Len(chain) - 1
<1>12. /\ t \in Seq(Jobs) /\ Len(t) = n /\ n \in Nat
       /\ \A k \in 1..n : t[k] = chain[k + 1] /\ k + 1 \in DOMAIN chain /\ t[k] # j /\ t[k] \in Jobs
       /\ \A i, k \in 1..n : t[i] = t[k] => i = k
  <2>1. \A k \in 1..n : k + 1 \in DOMAIN chain /\ k + 1 # 1 /\ 1 \in DOMAIN chain
    BY <1>11
  <2>2. \A k \in 1..n : t[k] # j
    BY <1>11, <2>1 DEF CollectorInv, ChainOK
  <2>3. \A i, k \in 1..n : t[i] = t[k] => i = k
    <3>1. SUFFICES ASSUME NEW i \in 1..n, NEW k \in 1..n, t[i] = t[k] PROVE i = k
      OBVIOUS
    <3>2. i + 1 \in DOMAIN chain /\ k + 1 \in DOMAIN chain /\ chain[i + 1] = chain[k + 1]
      BY <1>11, <2>1, <3>1
    <3>3. \A a, b \in DOMAIN chain : chain[a] = chain[b] => a = b
      BY DEF CollectorInv, ChainOK
    <3>4. i + 1 = k + 1
      BY <3>2, <3>3, Zenon
    <3>5. QED
      BY <3>4
  <2>4. n \in Nat /\ \A k \in 1..n : t[k] \in Jobs
    BY <1>11
  <2>5. QED
    BY <1>11, <2>1, <2>2, <2>3, <2>4
<1>13. chain' = t \o (IF st = "running" THEN <<j>> ELSE <<>>)
  BY <1>2
<1> HIDE DEF t, n
<1>14. \A k \in 1..n : job'[t[k]].st = "running" /\ job'[t[k]].todo # <<>>
  BY <1>9, <1>12 DEF CollectorInv, ChainOK
<1>15. /\ chain' \in Seq(Jobs) /\ \A i, k \in DOMAIN chain' : chain'[i] = chain'[k] => i = k
       /\ \A i \in DOMAIN chain' : job'[chain'[i]].st = "running" /\ job'[chain'[i]].todo # <<>>
  <2>1. CASE st = "running"
    <3>1. chain' = Append(t, j)
      BY <1>12, <1>13, <2>1
    <3>2. /\ chain' \in Seq(Jobs) /\ DOMAIN chain' = 1..(n + 1) /\ chain'[n + 1] = j
          /\ \A k \in 1..n : chain'[k] = t[k]
      BY <1>12, <3>1
    <3>3. \A i \in DOMAIN chain' : i \in 1..n \/ i = n + 1
      BY <1>12, <3>2
    <3>4. \A i, k \in DOMAIN chain' : chain'[i] = chain'[k] => i = k
      BY <1>12, <3>2, <3>3
    <3>5. \A i \in DOMAIN chain' : job'[chain'[i]].st = "running" /\ job'[chain'[i]].todo # <<>>
      BY <1>7, <1>8, <1>9, <1>14, <2>1, <3>2, <3>3
    <3>6. QED
      BY <3>2, <3>4, <3>5
  <2>2. CASE st # "running"
    <3>1. chain' = t
      BY <1>12, <1>13, <2>2
    <3>2. DOMAIN chain' = 1..n
      BY <1>12, <3>1
    <3>3. QED
      BY <1>12, <1>14, <3>1, <3>2
  <2>3. QED
    BY <2>1, <2>2
<1>16. \A i \in Jobs : ~job'[i].returns => StreakOK(job'[i])
  BY <1>9, <1>10 DEF CollectorInv, ChainOK
<1>17. QED
  BY <1>9, <1>15, <1>16 DEF ChainOK

\* The click in progress goes back, or is over and its job goes on.
LEMMA ClickOver ==
  ASSUME CollectorInv, NEW j \in Jobs, chain # <<>>, j = Head(chain), cap = Nobody, UNCHANGED cap,
         NEW c \in ClickStates, click' = [click EXCEPT ![j] = c], route' \in Pages,
         c.phase = "none" \/ (c.phase = "back" /\ UNCHANGED chain)
  PROVE  ClicksOK'
<1>1. click \in [Jobs -> ClickStates] /\ \A i \in Jobs : i # j => click[i].phase = "none"
  BY DEF CollectorInv, ClicksOK
<1>2. /\ click' \in [Jobs -> ClickStates] /\ click'[j] = c
      /\ \A i \in Jobs : i # j => click'[i].phase = "none"
  BY <1>1
<1>3. \A i \in Jobs : click'[i].phase # "observing" /\ cap' # i
  BY <1>2, CollectorNames
<1>4. \A i \in Jobs : click'[i].phase # "none" => chain' # <<>> /\ i = Head(chain')
  BY <1>2
<1>5. QED
  BY <1>2, <1>3, <1>4 DEF ClicksOK

LEMMA LogStep ==
  ASSUME CollectorInv, NEW j \in Jobs, Log(j)
  PROVE  CollectorInv'
<1> DEFINE row == [NewRow("click", Button(j)) EXCEPT !.late = click[j].late, !.nested = click[j].nested]
           back == job[j].returns /\ route # click[j].origin
           c == IF back THEN [click[j] EXCEPT !.phase = "back"] ELSE NoClick
<1>1. PICK sig \in (IF job[j].returns THEN {} ELSE left.errors) \cup {NoError} :
        /\ Record(row, [click EXCEPT ![j] = c])
        /\ route' = IF back THEN click[j].origin ELSE route
        /\ IF back THEN UNCHANGED <<job, chain>> ELSE Resolved(j, sig)
  BY DEF Log
<1>2. /\ click[j].phase \in {"missing", "post"}
      /\ UNCHANGED <<left, cap, save, flights, fetchers, openers, win>>
  BY DEF Log
<1>3. cap = Nobody /\ chain # <<>> /\ j = Head(chain)
  BY <1>2, NoneObserved DEF CollectorInv
<1>4. click[j] \in ClickStates /\ route \in Pages /\ left \in Allowances /\ minted \in Nat
  BY DEF CollectorInv, ClicksOK, ListsOK
<1>5. sig \in Errors
  BY <1>1, <1>4 DEF Allowances, Errors
<1>6. c \in ClickStates /\ (back => c.phase = "back") /\ (~back => c.phase = "none")
  BY <1>4, NoJobTyped DEF ClickStates
<1>7. row \in Rows /\ row.id = minted + 1 /\ row.src = "click" /\ ~row.open
  <2> DEFINE fresh == [id |-> minted + 1, src |-> "click", open |-> FALSE,
                       button |-> Button(j), late |-> FALSE, nested |-> {}]
  <2>1. NewRow("click", Button(j)) = fresh
    BY DEF NewRow
  <2>2. fresh \in Rows /\ fresh.id = minted + 1 /\ fresh.src = "click" /\ fresh.open = FALSE
    <3>1. Button(j) \in DOMAIN Host \cup {Nobody} /\ minted + 1 \in Nat
      BY <1>3, <1>4, ButtonTyped
    <3>2. fresh \in Rows
      BY <3>1, RowTyped
    <3>3. QED
      BY <3>2
  <2>3. row = [fresh EXCEPT !.late = click[j].late, !.nested = click[j].nested]
    BY <2>1
  <2>4. /\ click[j].late \in BOOLEAN
        /\ click[j].nested \in SUBSET {"click", "own", "by hand", "global"}
    BY <1>4 DEF ClickStates
  <2> HIDE DEF fresh, row
  <2>5. QED
    BY <2>2, <2>3, <2>4 DEF Rows
<1>8. route' \in Pages
  BY <1>1, <1>4 DEF ClickStates
<1>9. click' = [click EXCEPT ![j] = c]
  BY <1>1, <1>3 DEF Record
<1>10. ClicksOK'
  <2>1. c.phase = "none" \/ (c.phase = "back" /\ UNCHANGED chain)
    BY <1>1, <1>6
  <2> HIDE DEF c
  <2>2. UNCHANGED cap
    BY <1>2
  <2>3. QED
    BY <1>3, <1>6, <1>8, <1>9, <2>1, <2>2, ClickOver
<1>11. ChainOK'
  <2>1. CASE back
    BY <1>1, <2>1, Stays
  <2>2. CASE ~back
    BY <1>1, <1>3, <1>5, <2>2, ResolvedKeeps
  <2>3. QED
    BY <2>1, <2>2
<1> DEFINE clicks == [click EXCEPT ![j] = c]
<1>12. Record(row, clicks) /\ (cap = Nobody => (row.src = "own" => row.late))
  BY <1>1, <1>7
<1> HIDE DEF row, clicks, c, back
<1>13. /\ ListsOK' /\ tab'.wrote = tab.wrote /\ UNCHANGED born
       /\ \A k \in DOMAIN rows' :
            (cap = Nobody /\ rows'[k] = row) \/ \E i \in DOMAIN rows : rows'[k] = rows[i]
  <2>1. left' \in Allowances /\ left'.theirs = left.theirs
    BY <1>2, <1>4
  <2>2. ListsOK
    BY DEF CollectorInv
  <2>3. QED
    BY <1>7, <1>12, <2>1, <2>2, RecordKept
<1>14. OpenRowsOK'
  <2>1. \A k \in DOMAIN rows' : rows'[k].open => \E i \in DOMAIN rows : rows'[k] = rows[i]
    BY <1>7, <1>13
  <2>2. QED
    BY <1>2, <1>13, <2>1, OpenRowsCarry DEF CollectorInv
<1>15. SaveOK' /\ LayersOK'
  BY <1>2, Stays
<1>16. QED
  BY <1>10, <1>11, <1>13, <1>14, <1>15 DEF CollectorInv

LEMMA BackStep ==
  ASSUME CollectorInv, NEW j \in Jobs, Back(j)
  PROVE  CollectorInv'
<1>1. /\ click[j].phase = "back" /\ click' = [click EXCEPT ![j] = NoClick]
      /\ Resolved(j, NoError) /\ Touch
      /\ UNCHANGED <<left, route, cap, save, flights, fetchers, openers, win>>
  BY DEF Back
<1>2. cap = Nobody /\ chain # <<>> /\ j = Head(chain)
  BY <1>1, NoneObserved DEF CollectorInv
<1>3. ChainOK'
  <2>1. NoError \in Errors
    BY DEF Errors
  <2>2. QED
    BY <1>1, <1>2, <2>1, ResolvedKeeps
<1>4. ClicksOK'
  <2>1. route' \in Pages /\ NoClick \in ClickStates /\ NoClick.phase = "none"
    BY <1>1, NoJobTyped DEF CollectorInv, ClicksOK
  <2>2. UNCHANGED cap
    BY <1>1
  <2>3. QED
    BY <1>1, <1>2, <2>1, <2>2, ClickOver
<1>5. SaveOK' /\ LayersOK' /\ ListsOK' /\ OpenRowsOK'
  BY <1>1, Stays, TouchedStep
<1>6. QED
  BY <1>3, <1>4, <1>5 DEF CollectorInv

LEMMA BatchEndsStep ==
  ASSUME CollectorInv, NEW j \in Jobs, BatchEnds(j)
  PROVE  CollectorInv'
<1> DEFINE r == [NoJob EXCEPT !.st = "done"]
<1>1. /\ job[j].st = "home" /\ job' = [job EXCEPT ![j] = r] /\ route' = job[j].origin /\ Touch
      /\ UNCHANGED <<left, chain, click, cap, save, flights, fetchers, openers, win>>
  BY DEF BatchEnds
<1>2. r \in JobStates /\ r.returns = TRUE
  BY NoJobTyped DEF JobStates
<1> HIDE DEF r
<1>3. job \in [Jobs -> JobStates] /\ chain \in Seq(Jobs)
  BY DEF CollectorInv, ChainOK
<1>4. job' \in [Jobs -> JobStates] /\ job'[j] = r /\ \A i \in Jobs : i # j => job'[i] = job[i]
  BY <1>1, <1>2, <1>3
<1>5. ChainOK'
  <2>1. \A i \in DOMAIN chain : chain[i] \in Jobs /\ chain[i] # j
    BY <1>1, <1>3 DEF CollectorInv, ChainOK
  <2>2. \A i \in DOMAIN chain : job'[chain[i]].st = "running" /\ job'[chain[i]].todo # <<>>
    BY <1>4, <2>1 DEF CollectorInv, ChainOK
  <2>3. \A i \in Jobs : ~job'[i].returns => StreakOK(job'[i])
    BY <1>2, <1>4 DEF CollectorInv, ChainOK
  <2>4. QED
    BY <1>1, <1>4, <2>2, <2>3 DEF CollectorInv, ChainOK
<1>6. ClicksOK'
  <2>1. route' \in Pages
    BY <1>1, <1>3 DEF JobStates
  <2>2. QED
    BY <1>1, <2>1 DEF CollectorInv, ClicksOK
<1>7. SaveOK' /\ LayersOK' /\ ListsOK' /\ OpenRowsOK'
  BY <1>1, Stays, TouchedStep
<1>8. QED
  BY <1>5, <1>6, <1>7 DEF CollectorInv

LEMMA ReloadPageStep ==
  ASSUME CollectorInv, ReloadPage
  PROVE  CollectorInv'
<1>1. /\ Spend("reloads") /\ rows' = persisted /\ err' = FALSE /\ born' = minted
      /\ tab' = [tab EXCEPT !.toUs = FALSE]
      /\ job' = [j \in Jobs |-> IF job[j].st = "idle" THEN NoJob ELSE [NoJob EXCEPT !.st = "done"]]
      /\ click' = [j \in Jobs |-> NoClick]
      /\ chain' = <<>> /\ cap' = Nobody /\ save' = NoSave /\ flights' = {}
      /\ fetchers' = [armed |-> FALSE, layers |-> <<>>] /\ openers' = <<>>
      /\ win' = [w \in Taps |-> IF win[w].st = "open" THEN [win[w] EXCEPT !.st = "closed"]
                                ELSE win[w]]
      /\ UNCHANGED <<route, minted, persisted>>
  BY DEF ReloadPage
<1>2. chain' \in Seq(Jobs) /\ DOMAIN chain' = {}
  <2>1. <<>> \in Seq(Jobs) /\ DOMAIN <<>> = {}
    OBVIOUS
  <2>2. QED
    BY <1>1, <2>1
<1>3. ChainOK'
  <2> DEFINE r == [NoJob EXCEPT !.st = "done"]
  <2>1. r \in JobStates /\ r.returns = TRUE /\ NoJob \in JobStates /\ NoJob.returns = TRUE
    BY NoJobTyped DEF JobStates
  <2> HIDE DEF r
  <2>2. job' = [j \in Jobs |-> IF job[j].st = "idle" THEN NoJob ELSE r]
    BY <1>1 DEF r
  <2>3. job' \in [Jobs -> JobStates] /\ \A j \in Jobs : job'[j].returns
    BY <2>1, <2>2
  <2>4. QED
    BY <1>2, <2>3 DEF ChainOK
<1>4. ClicksOK'
  <2>1. click' \in [Jobs -> ClickStates] /\ \A j \in Jobs : click'[j].phase = "none" /\ cap' # j
    BY <1>1, NoJobTyped, CollectorNames
  <2>2. QED
    BY <1>1, <2>1 DEF CollectorInv, ClicksOK
<1>5. SaveOK'
  <2>1. NoSave \in SaveStates /\ NoSave.phase = "none"
    BY DEF NoSave, SaveStates
  <2>2. QED
    BY <1>1, <2>1 DEF SaveOK
<1>6. LayersOK'
  <2>1. /\ fetchers' \in [armed : BOOLEAN, layers : Seq(Taps \cup {F101})] /\ ~fetchers'.armed
    <3>1. <<>> \in Seq(Taps \cup {F101})
      OBVIOUS
    <3>2. QED
      BY <1>1, <3>1
  <2>2. openers' \in Seq(Taps \cup {Popups}) /\ Range(openers') = {}
    <3>1. <<>> \in Seq(Taps \cup {Popups}) /\ DOMAIN <<>> = {}
      OBVIOUS
    <3>2. QED
      BY <1>1, <3>1 DEF Range
  <2>3. /\ win' \in [Taps -> [st : {"none", "open", "closed"}, row : Nat]]
        /\ \A w \in Taps : win'[w].st # "open"
    <3>1. win \in [Taps -> [st : {"none", "open", "closed"}, row : Nat]]
      BY DEF CollectorInv, LayersOK
    <3>2. \A w \in Taps : [win[w] EXCEPT !.st = "closed"] \in [st : {"none", "open", "closed"}, row : Nat]
      BY <3>1
    <3>3. \A w \in Taps : win'[w] \in [st : {"none", "open", "closed"}, row : Nat] /\ win'[w].st # "open"
      BY <1>1, <3>1, <3>2
    <3>4. QED
      BY <1>1, <3>3
  <2>4. QED
    BY <2>1, <2>2, <2>3 DEF LayersOK
<1>7. ListsOK'
  <2>1. left' \in Allowances /\ left'.theirs = left.theirs
    BY <1>1, SpentIs DEF CollectorInv, ListsOK
  <2>2. /\ minted \in Nat
        /\ tab \in [rows : Seq(Rows), wrote : BOOLEAN, toUs : BOOLEAN, toThem : BOOLEAN]
        /\ Capped(persisted, minted) /\ Capped(tab.rows, minted)
        /\ ~tab.toThem => (TwoTabs => tab.rows = persisted)
    BY DEF CollectorInv, ListsOK
  <2>3. /\ tab' \in [rows : Seq(Rows), wrote : BOOLEAN, toUs : BOOLEAN, toThem : BOOLEAN]
        /\ tab'.rows = tab.rows
        /\ tab'.wrote = tab.wrote
        /\ tab'.toUs = FALSE
        /\ tab'.toThem = tab.toThem
    BY <1>1, <2>2
  <2>4. Capped(rows, minted)' /\ Capped(persisted, minted)' /\ Capped(tab.rows, minted)'
    BY <1>1, <2>2, <2>3 DEF Capped, Written
  <2>5. TwoTabs' <=> TwoTabs
    BY <2>1, <2>3 DEF TwoTabs
  <2>6. QED
    BY <1>1, <2>1, <2>2, <2>3, <2>4, <2>5 DEF ListsOK, Allowances
<1>8. OpenRowsOK'
  <2>1. Capped(persisted, minted)
    BY DEF CollectorInv, ListsOK
  <2>2. \A i \in 1..Len(persisted) : persisted[i].id <= minted
    BY <2>1 DEF Capped, Written
  <2>3. DOMAIN persisted = 1..Len(persisted)
    BY <2>1 DEF Capped
  <2>4. QED
    BY <1>1, <2>2, <2>3 DEF OpenRowsOK
<1>9. QED
  BY <1>3, <1>4, <1>5, <1>6, <1>7, <1>8 DEF CollectorInv

-----------------------------------------------------------------------------
(***************************************************************************)
(* The Collector as a whole.                                               *)
(***************************************************************************)
LEMMA CollectorStarts ==
  ASSUME CollectorInit
  PROVE  CollectorInv
<1>1. /\ left \in Scopes /\ route = Home /\ rows = <<>> /\ minted = 0 /\ persisted = <<>>
      /\ err = FALSE /\ born = 0
      /\ tab = [rows |-> <<>>, wrote |-> FALSE, toUs |-> FALSE, toThem |-> FALSE]
      /\ job = [j \in Jobs |-> NoJob] /\ click = [j \in Jobs |-> NoClick]
      /\ chain = <<>> /\ cap = Nobody /\ save = NoSave /\ flights = {}
      /\ fetchers = [armed |-> FALSE, layers |-> <<>>] /\ openers = <<>>
      /\ win = [w \in Taps |-> NoWindow]
  BY DEF CollectorInit
<1>2. DOMAIN <<>> = {} /\ <<>> \in Seq(Jobs) /\ <<>> \in Seq(Rows) /\ <<>> \in Seq(Taps \cup {F101})
      /\ <<>> \in Seq(Taps \cup {Popups})
  OBVIOUS
<1>3. ChainOK
  <2>1. job \in [Jobs -> JobStates] /\ \A j \in Jobs : job[j].returns
    BY <1>1, NoJobTyped
  <2>2. chain \in Seq(Jobs) /\ DOMAIN chain = {}
    BY <1>1, <1>2
  <2>3. QED
    BY <2>1, <2>2 DEF ChainOK
<1>4. ClicksOK
  <2>1. click \in [Jobs -> ClickStates] /\ \A j \in Jobs : click[j].phase = "none" /\ cap # j
    BY <1>1, NoJobTyped, CollectorNames
  <2>2. QED
    BY <1>1, <2>1, NoJobTyped DEF ClicksOK
<1>5. SaveOK
  <2>1. NoSave \in SaveStates /\ NoSave.phase = "none"
    BY DEF NoSave, SaveStates
  <2>2. QED
    BY <1>1, <2>1 DEF SaveOK
<1>6. LayersOK
  <2>1. fetchers \in [armed : BOOLEAN, layers : Seq(Taps \cup {F101})] /\ ~fetchers.armed
    BY <1>1, <1>2
  <2>2. openers \in Seq(Taps \cup {Popups}) /\ Range(openers) = {}
    BY <1>1, <1>2 DEF Range
  <2>3. /\ win \in [Taps -> [st : {"none", "open", "closed"}, row : Nat]]
        /\ \A w \in Taps : win[w].st # "open"
    BY <1>1 DEF NoWindow
  <2>4. QED
    BY <2>1, <2>2, <2>3 DEF LayersOK
<1>7. ListsOK
  <2>1. left \in Allowances
    BY <1>1, CollectorAssumption
  <2>2. /\ tab \in [rows : Seq(Rows), wrote : BOOLEAN, toUs : BOOLEAN, toThem : BOOLEAN]
        /\ tab.rows = <<>> /\ tab.toUs = FALSE
    BY <1>1, <1>2
  <2>3. Capped(rows, minted) /\ Capped(persisted, minted) /\ Capped(tab.rows, minted)
    BY <1>1, <2>2, CappedEmpty
  <2>4. QED
    BY <1>1, <2>1, <2>2, <2>3 DEF ListsOK
<1>8. OpenRowsOK
  BY <1>1, <1>2 DEF OpenRowsOK
<1>9. QED
  BY <1>3, <1>4, <1>5, <1>6, <1>7, <1>8 DEF CollectorInv

LEMMA CollectorSteps ==
  ASSUME CollectorInv, [CollectorNext]_collectorVars
  PROVE  CollectorInv'
<1>1. CASE UNCHANGED collectorVars
  BY <1>1, Stays DEF collectorVars, runner, CollectorInv
<1>2. ASSUME NEW j \in Jobs, ClickNow(j) \/ ClickAll(j) \/ ReplayAll(j) \/ RunnerStep(j)
      PROVE  CollectorInv'
  BY <1>2, ClickNowStep, ClickAllStep, ReplayAllStep, BeginStep, FoundStep, PressStep, EndStep,
     LogStep, BackStep, BatchEndsStep DEF RunnerStep
<1>3. ASSUME NEW f \in flights, SaveAnswered(f) \/ Answered(f)
      PROVE  CollectorInv'
  BY <1>3, SaveAnsweredStep, AnsweredStep
<1>4. ASSUME NEW w \in Taps, Tap(w) \/ CloseWindow(w)
      PROVE  CollectorInv'
  BY <1>4, TapStep, CloseWindowStep
<1>5. CASE OpenCollector \/ Clear \/ TheyRecord \/ TheyRehydrate \/ Rehydrate \/ ReloadPage
  BY <1>5, OpenCollectorStep, ClearStep, TheyRecordStep, TheyRehydrateStep, RehydrateStep,
     ReloadPageStep
<1>6. QED
  BY <1>1, <1>2, <1>3, <1>4, <1>5 DEF CollectorNext

\* The invariant of module Collector is inductive.
THEOREM CollectorInvariance == CollectorSpec => []CollectorInv
<1>1. CollectorInit => CollectorInv
  BY CollectorStarts
<1>2. CollectorInv /\ [CollectorNext]_collectorVars => CollectorInv'
  BY CollectorSteps
<1>3. QED
  BY <1>1, <1>2, PTL DEF CollectorSpec

LEMMA CollectorTyped ==
  ASSUME CollectorInv
  PROVE  CollectorTypeOK
<1>1. route \in Pages /\ cap \in Jobs \cup {Nobody}
  BY DEF CollectorInv, ClicksOK
<1>2. \A list \in {rows, persisted, tab.rows} : list \in Seq(Rows) /\ Len(list) <= MaxActions
  <2>1. Capped(rows, minted) /\ Capped(persisted, minted) /\ Capped(tab.rows, minted)
    BY DEF CollectorInv, ListsOK
  <2>2. rows \in Seq(Rows) /\ persisted \in Seq(Rows) /\ tab.rows \in Seq(Rows)
    BY <2>1, CappedRows
  <2>3. QED
    BY <2>1, <2>2 DEF Capped
<1>3. \A j \in Jobs :
        /\ job[j].st \in {"idle", "running", "home", "done"}
        /\ click[j].phase \in {"none", "finding", "missing", "pre", "observing", "post", "back"}
        /\ click[j].phase = "observing" <=> cap = j
  <2>1. job \in [Jobs -> JobStates] /\ click \in [Jobs -> ClickStates]
    BY DEF CollectorInv, ChainOK, ClicksOK
  <2>2. QED
    BY <2>1 DEF JobStates, ClickStates, CollectorInv, ClicksOK
<1>4. save.phase \in {"none", "pre", "act", "post"}
  BY DEF CollectorInv, SaveOK, SaveStates
<1>5. \A f \in flights : f.who \in {"save"} \cup Jobs \cup Taps /\ f.after \subseteq Jobs
  <2>1. flights \subseteq Requests
    BY DEF CollectorInv, SaveOK
  <2>2. QED
    BY <2>1 DEF Requests
<1>6. /\ Range(fetchers.layers) \subseteq Taps \cup {F101}
      /\ Range(openers) \subseteq Taps \cup {Popups}
  <2>1. fetchers.layers \in Seq(Taps \cup {F101}) /\ openers \in Seq(Taps \cup {Popups})
    BY DEF CollectorInv, LayersOK
  <2>2. \A k \in DOMAIN fetchers.layers : fetchers.layers[k] \in Taps \cup {F101}
    BY <2>1
  <2>3. \A k \in DOMAIN openers : openers[k] \in Taps \cup {Popups}
    BY <2>1
  <2>4. QED
    BY <2>2, <2>3 DEF Range
<1>7. QED
  BY <1>1, <1>2, <1>3, <1>4, <1>5, <1>6 DEF CollectorTypeOK

\* The observer of every request and the layers of the open windows stay in the
\* chain of window.fetch, in whatever order windows are released; the popup
\* counter is there only while a click is observed.  With it every type.
THEOREM LayersStay == CollectorSpec => []LayersKept
<1>1. CollectorInv => LayersKept
  <2>1. SUFFICES ASSUME CollectorInv PROVE LayersKept
    OBVIOUS
  <2>2. Popups \in Range(openers) => Observing # {}
    BY <2>1 DEF CollectorInv, LayersOK, ClicksOK, Observing
  <2>3. QED
    BY <2>1, <2>2, CollectorTyped DEF LayersKept, CollectorInv, LayersOK
<1>2. QED
  BY <1>1, CollectorInvariance, PTL

\* The members of a sequence are finitely many.
LEMMA RangeFinite ==
  ASSUME NEW S, NEW q \in Seq(S)
  PROVE  IsFiniteSet(Range(q))
<1> DEFINE D == 1..Len(q)
<1>1. Len(q) \in Nat /\ q \in [D -> S] /\ DOMAIN q = D
  OBVIOUS
<1>2. IsFiniteSet(D)
  BY <1>1, FS_Interval
<1> HIDE DEF D
<1>3. q \in Surjection(D, Range(q))
  BY <1>1 DEF Surjection, Range
<1>4. QED
  BY <1>2, <1>3, FS_Surjection

\* A batch has stopped when its last ErrorLimit clicks failed the same way, and
\* only then.
LEMMA StoppedByErrors ==
  ASSUME NEW r \in JobStates, StreakOK(r), r.records # <<>>
  PROVE  LET last == LastN(r.records, ErrorLimit)
         IN  r.aborted <=> Len(last) = ErrorLimit /\ Cardinality(Range(last)) = 1
                           /\ last[1] # NoError
<1> DEFINE n == Len(r.records)
           last == LastN(r.records, ErrorLimit)
           m == Len(last)
<1>1. r.records \in Seq(Errors) /\ n \in Nat \ {0} /\ r.streak \in Nat /\ ErrorLimit \in Nat \ {0}
  BY CollectorAssumption DEF JobStates
<1>2. /\ last \in Seq(Errors) /\ m = (IF n > ErrorLimit THEN ErrorLimit ELSE n)
      /\ \A k \in 1..m : n - m + k \in 1..n /\ last[k] = r.records[n - m + k]
  BY <1>1, LastNKeeps
<1>3. m \in Nat /\ m <= n /\ DOMAIN last = 1..m /\ DOMAIN r.records = 1..n
  BY <1>1, <1>2
<1>4. /\ r.streak <= n
      /\ \A k \in 1..n : k > n - r.streak => r.records[k] = r.sig /\ r.sig # NoError
      /\ r.streak < n => r.records[n - r.streak] # r.sig \/ r.sig = NoError
      /\ r.sig = r.records[n]
      /\ r.aborted <=> r.streak >= ErrorLimit
  BY <1>3 DEF StreakOK, Last
<1>5. IsFiniteSet(Range(last))
  BY <1>2, RangeFinite
<1> HIDE DEF last, n, m
<1>6. ASSUME r.streak >= ErrorLimit
      PROVE  m = ErrorLimit /\ Cardinality(Range(last)) = 1 /\ last[1] # NoError
  <2>1. m = ErrorLimit
    BY <1>1, <1>2, <1>4, <1>6
  <2>2. \A k \in 1..m : last[k] = r.sig /\ r.sig # NoError
    <3>1. SUFFICES ASSUME NEW k \in 1..m PROVE last[k] = r.sig /\ r.sig # NoError
      OBVIOUS
    <3>2. n - m + k \in 1..n /\ last[k] = r.records[n - m + k]
      BY <1>2
    <3>3. n - m + k > n - r.streak
      BY <1>1, <1>3, <1>6, <2>1
    <3>4. QED
      BY <1>4, <3>2, <3>3
  <2>3. 1 \in 1..m
    BY <1>1, <2>1
  <2>4. Range(last) = {r.sig}
    BY <1>3, <2>2, <2>3 DEF Range
  <2>5. QED
    BY <2>1, <2>2, <2>3, <2>4, FS_Singleton
<1>7. ASSUME m = ErrorLimit, Cardinality(Range(last)) = 1, last[1] # NoError
      PROVE  r.streak >= ErrorLimit
  <2>1. PICK x : Range(last) = {x}
    BY <1>5, <1>7, FS_Singleton
  <2>2. \A k \in 1..m : last[k] = x
    BY <1>3, <2>1 DEF Range
  <2>3. 1 \in 1..m /\ m \in 1..m /\ n - m + m = n
    BY <1>1, <1>3, <1>7
  <2>4. r.sig = x /\ x # NoError
    BY <1>2, <1>4, <1>7, <2>2, <2>3
  <2>5. SUFFICES ASSUME r.streak < ErrorLimit PROVE FALSE
    BY <1>1
  <2>6. m - r.streak \in 1..m /\ n - m + (m - r.streak) = n - r.streak /\ r.streak < n
    BY <1>1, <1>3, <1>7, <2>5
  <2>7. r.records[n - r.streak] = x
    BY <1>2, <2>2, <2>6
  <2>8. QED
    BY <1>4, <2>4, <2>6, <2>7
<1>8. r.aborted <=> m = ErrorLimit /\ Cardinality(Range(last)) = 1 /\ last[1] # NoError
  BY <1>4, <1>6, <1>7
<1>9. QED
  BY <1>8 DEF last, m

\* What a clicked handler records folds into the click unless the observation
\* had timed out, and a batch stops exactly when its last ErrorLimit clicks
\* failed the same way.
THEOREM ToldApart == CollectorSpec => []ClicksToldApart
<1>1. CollectorInv => ClicksToldApart
  <2>1. SUFFICES ASSUME CollectorInv PROVE ClicksToldApart
    OBVIOUS
  <2>2. \A i \in DOMAIN rows : rows[i].src = "own" => rows[i].late
    <3>1. rows \in Seq(Written(minted))
      BY <2>1 DEF CollectorInv, ListsOK, Capped
    <3>2. \A i \in DOMAIN rows : rows[i] \in Written(minted)
      BY <3>1
    <3>3. QED
      BY <3>2 DEF Written
  <2>3. ASSUME NEW j \in Jobs, ~job[j].returns, job[j].records # <<>>
        PROVE  LET last == LastN(job[j].records, ErrorLimit)
               IN  job[j].aborted <=> Len(last) = ErrorLimit /\ Cardinality(Range(last)) = 1
                                      /\ last[1] # NoError
    <3>1. job[j] \in JobStates /\ StreakOK(job[j])
      BY <2>1, <2>3 DEF CollectorInv, ChainOK
    <3>2. QED
      BY <2>3, <3>1, StoppedByErrors
  <2>4. QED
    BY <2>2, <2>3 DEF ClicksToldApart
<1>2. QED
  BY <1>1, CollectorInvariance, PTL

\* What is on screen is what is stored, or the error says it is not; once the
\* storage events are delivered both tabs agree; and an open row has its window,
\* over any number of writes that fail, reloads and rows of the other tab.
THEOREM TruthTold == CollectorSpec => []StoreTellsTheTruth
<1>1. CollectorInv => StoreTellsTheTruth
  BY DEF CollectorInv, ListsOK, OpenRowsOK, StoreTellsTheTruth
<1>2. QED
  BY <1>1, CollectorInvariance, PTL
=============================================================================
