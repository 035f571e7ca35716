------------------------ MODULE FxUploadQueueProofs -------------------------
(***************************************************************************)
(* What the upload queue guarantees although its two writers take no lock, *)
(* for every number of files, jobs, attempts, operations and faults.       *)
(* First, however steps overlap, what the two files say of a finished      *)
(* upload is true: IInv of module FxUploadQueue is inductive, since each   *)
(* copy of a file that a process may still write back satisfies what the   *)
(* file does, and goes on doing so while jobs, copies and operations grow  *)
(* in number.  Then, as long as no steps overlap, what is promised: with   *)
(* one process idle, the copies the other holds are the files' own.        *)
(***************************************************************************)
EXTENDS FxUploadQueue, FiniteSetTheorems, SequenceTheorems, TLAPS

\* Jobs made and copies on the host between two states.
Grows(m, m2, c, c2) ==
  /\ m \in Seq(Files) /\ m2 \in Seq(Files) /\ Len(m) <= Len(m2)
  /\ \A n \in DOMAIN m : m2[n] = m[n]
  /\ Len(m2) <= MaxJobs
  /\ c \in [1..MaxJobs -> Nat] /\ c2 \in [1..MaxJobs -> Nat]
  /\ \A n \in 1..MaxJobs : c[n] <= c2[n]

\* A copy of the queue that was right stays right.
LEMMA ListGrows ==
  ASSUME NEW m, NEW m2, NEW c, NEW c2, Grows(m, m2, c, c2),
         NEW jobs, ListOK(jobs, m, c)
  PROVE  ListOK(jobs, m2, c2)
<1>1. Len(m) \in Nat /\ Len(m2) \in Nat /\ DOMAIN m = 1..Len(m) /\ DOMAIN m2 = 1..Len(m2)
  BY DEF Grows
<1>2. DOMAIN m \subseteq DOMAIN m2 /\ DOMAIN m2 \subseteq 1..MaxJobs
  BY <1>1, FxAssumption DEF Grows
<1>3. jobs \in Seq(Job) /\ Len(jobs) <= Len(m2)
  BY <1>1 DEF ListOK, Grows
<1>4. ASSUME NEW i \in DOMAIN jobs
      PROVE  JobOK(jobs[i], m2, c2)
  <2>1. JobOK(jobs[i], m, c)
    BY DEF ListOK
  <2>2. jobs[i].n \in DOMAIN m2 /\ jobs[i].file = m2[jobs[i].n]
    BY <2>1, <1>2 DEF JobOK, Grows
  <2>3. c[jobs[i].n] \in Nat /\ c2[jobs[i].n] \in Nat /\ c[jobs[i].n] <= c2[jobs[i].n]
    BY <2>2, <1>2 DEF Grows
  <2>4. QED
    BY <2>1, <2>2, <2>3 DEF JobOK
<1>5. QED
  BY <1>3, <1>4 DEF ListOK

\* A copy of the index that was right stays right.
LEMMA IndexGrows ==
  ASSUME NEW m, NEW m2, NEW c, NEW c2, Grows(m, m2, c, c2),
         NEW k \in Nat, NEW k2 \in Nat, k <= k2,
         NEW idx, IndexOK(idx, m, c, k)
  PROVE  IndexOK(idx, m2, c2, k2)
<1>1. Len(m) \in Nat /\ Len(m2) \in Nat /\ DOMAIN m = 1..Len(m) /\ DOMAIN m2 = 1..Len(m2)
  BY DEF Grows
<1>2. DOMAIN m \subseteq DOMAIN m2 /\ DOMAIN m2 \subseteq 1..MaxJobs
  BY <1>1, FxAssumption DEF Grows
<1>3. idx \in [Files -> Entry]
  BY DEF IndexOK
<1>4. ASSUME NEW f \in Files
      PROVE  idx[f].moves <= k2
  <2>1. idx[f].moves \in Nat
    BY <1>3, FxAssumption DEF Entry
  <2>2. QED
    BY <2>1 DEF IndexOK
<1>5. ASSUME NEW f \in Files, idx[f].gofile = "uploaded"
      PROVE  \E n \in DOMAIN m2 : m2[n] = f /\ c2[n] > 0
  <2>1. PICK n \in DOMAIN m : m[n] = f /\ c[n] > 0
    BY <1>5 DEF IndexOK
  <2>2. n \in DOMAIN m2 /\ n \in 1..MaxJobs /\ m2[n] = f
    BY <2>1, <1>2 DEF Grows
  <2>3. c[n] \in Nat /\ c2[n] \in Nat /\ c[n] <= c2[n]
    BY <2>2 DEF Grows
  <2>4. QED
    BY <2>1, <2>2, <2>3
<1>6. QED
  BY <1>3, <1>4, <1>5 DEF IndexOK

\* A copy that is written back or kept, when nothing else changes.
LEMMA Still ==
  ASSUME IInv, UNCHANGED <<made, copies>>
  PROVE  Grows(made, made', copies, copies')
<1>1. made \in Seq(Files) /\ copies \in [1..MaxJobs -> Nat] /\ Len(made) <= MaxJobs
  BY DEF IInv, TypeOK
<1>2. made' = made /\ copies' = copies
  OBVIOUS
<1>3. Len(made) \in Nat
  BY <1>1
<1>4. \A n \in 1..MaxJobs : copies[n] \in Nat
  BY <1>1
<1>5. QED
  BY <1>1, <1>2, <1>3, <1>4 DEF Grows

\* SetToSeq() lists a finite set, each element once.
LEMMA SetToSeqLists ==
  ASSUME NEW S, IsFiniteSet(S)
  PROVE  SetToSeq(S) \in Seq(S) /\ Len(SetToSeq(S)) = Cardinality(S)
<1>1. Cardinality(S) \in Nat /\ ExistsBijection(1..Cardinality(S), S)
  BY FS_CardinalityType
<1>2. \E f \in [1..Cardinality(S) -> S] : IsInjective(f)
  BY <1>1 DEF ExistsBijection, Bijection, Injection, IsInjective
<1>3. SetToSeq(S) \in [1..Cardinality(S) -> S]
  BY <1>2 DEF SetToSeq
<1>4. QED
  BY <1>1, <1>3

LEMMA Constants ==
  MaxJobs \in Nat /\ MaxOps \in Nat /\ MaxFaults \in Nat /\ MaxAttempts \in Nat /\ MaxAttempts > 0
  BY FxAssumption

\* Empty copies are right.
LEMMA NoCopy ==
  ASSUME NEW m \in Seq(Files), NEW c, NEW k \in Nat
  PROVE  ListOK(<<>>, m, c) /\ IndexOK(Fresh, m, c, k)
<1>1. ListOK(<<>>, m, c)
  <2>1. Len(m) \in Nat
    OBVIOUS
  <2>2. <<>> \in Seq(Job) /\ Len(<<>>) = 0 /\ DOMAIN <<>> = {}
    OBVIOUS
  <2>3. QED
    BY <2>1, <2>2 DEF ListOK
<1>2. IndexOK(Fresh, m, c, k)
  <2>1. 0 \in 0..MaxOps /\ 0 <= k
    BY Constants
  <2>2. Fresh \in [Files -> Entry]
    BY <2>1 DEF Fresh, Entry
  <2>3. \A f \in Files : Fresh[f].moves = 0 /\ Fresh[f].gofile = "none"
    BY DEF Fresh
  <2>4. QED
    BY <2>1, <2>2, <2>3 DEF IndexOK
<1>3. QED
  BY <1>1, <1>2

\* All copies stay right while the histories grow.
LEMMA CopiesStay ==
  ASSUME IInv, Grows(made, made', copies, copies'), ops' \in Nat, ops <= ops'
  PROVE  /\ ListOK(queue, made', copies')
         /\ ListOK(route.jobs, made', copies')
         /\ ListOK(worker.jobs, made', copies')
         /\ IndexOK(index, made', copies', ops')
         /\ IndexOK(route.index, made', copies', ops')
         /\ IndexOK(worker.index, made', copies', ops')
<1>1. ops \in Nat
  BY Constants DEF IInv
<1>2. /\ ListOK(queue, made, copies)
      /\ ListOK(route.jobs, made, copies)
      /\ ListOK(worker.jobs, made, copies)
  BY DEF IInv
<1>3. /\ IndexOK(index, made, copies, ops)
      /\ IndexOK(route.index, made, copies, ops)
      /\ IndexOK(worker.index, made, copies, ops)
  BY DEF IInv
<1>4. QED
  BY <1>1, <1>2, <1>3, ListGrows, IndexGrows

\* The parts of the invariant that a step has to be shown to keep.
LEMMA Assembled ==
  ASSUME ListOK(queue', made', copies'), ListOK(route'.jobs, made', copies'),
         ListOK(worker'.jobs, made', copies'),
         IndexOK(index', made', copies', ops'), IndexOK(route'.index, made', copies', ops'),
         IndexOK(worker'.index, made', copies', ops'),
         route' \in [pc : {"idle", "upload", "op"}, jobs : Seq(Job), new : SUBSET (1..MaxJobs), index : [Files -> Entry]],
         worker' \in [pc : {"idle", "send", "save"}, jobs : Seq(Job), at : 0..MaxJobs, index : [Files -> Entry]],
         workerUp' \in BOOLEAN, contract' \in BOOLEAN, overlapped' \in BOOLEAN,
         answered' \in [Files -> Entry], accepted' \subseteq DOMAIN made',
         made' \in Seq(Files), Len(made') <= MaxJobs,
         attempts' \in [1..MaxJobs -> Nat], copies' \in [1..MaxJobs -> Nat],
         ops' \in 0..MaxOps, faults' \in 0..MaxFaults,
         route'.new \subseteq DOMAIN made', SendOK'
  PROVE  IInv'
<1>1. queue' \in Seq(Job) /\ Len(queue') <= Len(made') /\ index' \in [Files -> Entry]
  BY DEF ListOK, IndexOK
<1>2. Len(queue') \in Nat /\ Len(made') \in Nat
  BY <1>1
<1>3. Len(queue') <= MaxJobs
  BY <1>1, <1>2, Constants
<1>4. TypeOK'
  BY <1>1, <1>3 DEF TypeOK
<1>5. QED
  BY <1>4 DEF IInv

LEMMA NothingInHand ==
  /\ NoRoute \in [pc : {"idle", "upload", "op"}, jobs : Seq(Job), new : SUBSET (1..MaxJobs), index : [Files -> Entry]]
  /\ NoStep \in [pc : {"idle", "send", "save"}, jobs : Seq(Job), at : 0..MaxJobs, index : [Files -> Entry]]
<1>1. Fresh \in [Files -> Entry]
  <2>1. 0 \in 0..MaxOps
    BY Constants
  <2>2. QED
    BY <2>1 DEF Fresh, Entry
<1>2. <<>> \in Seq(Job) /\ {} \in SUBSET (1..MaxJobs) /\ 0 \in 0..MaxJobs
  BY Constants
<1>3. QED
  BY <1>1, <1>2 DEF NoRoute, NoStep

LEMMA InitIInv == Init => IInv
<1> SUFFICES ASSUME Init PROVE IInv
  OBVIOUS
<1>1. /\ made = <<>> /\ <<>> \in Seq(Files) /\ Len(<<>>) = 0 /\ DOMAIN <<>> = {}
      /\ ops = 0 /\ 0 \in Nat
  BY DEF Init
<1>2. ListOK(<<>>, made, copies) /\ IndexOK(Fresh, made, copies, ops)
  BY <1>1, NoCopy
<1>3. /\ ListOK(queue, made, copies) /\ ListOK(route.jobs, made, copies) /\ ListOK(worker.jobs, made, copies)
      /\ IndexOK(index, made, copies, ops)
      /\ IndexOK(route.index, made, copies, ops)
      /\ IndexOK(worker.index, made, copies, ops)
  BY <1>2 DEF Init, NoRoute, NoStep
<1>4. SendOK
  BY DEF Init, NoStep, SendOK
<1>5. route.new \subseteq DOMAIN made
  BY DEF Init, NoRoute
<1>6. ops \in 0..MaxOps /\ faults \in 0..MaxFaults /\ Len(made) <= MaxJobs
  BY <1>1, Constants DEF Init
<1>7. attempts \in [1..MaxJobs -> Nat] /\ copies \in [1..MaxJobs -> Nat]
  BY DEF Init
<1>8. TypeOK
  <2>1. queue \in Seq(Job) /\ Len(queue) <= MaxJobs
    BY Constants DEF Init
  <2>2. Fresh \in [Files -> Entry]
    BY <1>2 DEF IndexOK
  <2>3. workerUp \in BOOLEAN /\ contract \in BOOLEAN /\ overlapped \in BOOLEAN
    BY DEF Init
  <2>4. QED
    BY <1>1, <1>7, <2>1, <2>2, <2>3, NothingInHand DEF Init, TypeOK
<1>9. QED
  BY <1>3, <1>4, <1>5, <1>6, <1>8 DEF IInv

\* Steps of the server's two routes that end one: what they write is what they
\* hold, and they hold nothing afterwards.
LEMMA RouteEnds ==
  ASSUME IInv, route' = NoRoute, UNCHANGED <<worker, contract, made, ops, attempts, copies>>,
         queue' \in {queue, route.jobs, <<>>}, index' \in {index, route.index},
         workerUp' \in BOOLEAN, overlapped' \in BOOLEAN,
         answered' \in {answered, route.index}, accepted' \subseteq DOMAIN made,
         faults' \in 0..MaxFaults
  PROVE  IInv'
<1>1. made \in Seq(Files) /\ ops \in Nat
  BY Constants DEF IInv, TypeOK
<1>2. Grows(made, made', copies, copies')
  BY Still
<1>3. /\ ListOK(queue, made', copies')
      /\ ListOK(route.jobs, made', copies')
      /\ ListOK(worker.jobs, made', copies')
      /\ IndexOK(index, made', copies', ops')
      /\ IndexOK(route.index, made', copies', ops')
      /\ IndexOK(worker.index, made', copies', ops')
  BY <1>1, <1>2, CopiesStay
<1>4. ListOK(<<>>, made', copies') /\ IndexOK(Fresh, made', copies', ops')
  BY <1>1, NoCopy
<1>5. ListOK(queue', made', copies') /\ IndexOK(index', made', copies', ops')
  BY <1>3, <1>4
<1>6. /\ ListOK(route'.jobs, made', copies') /\ IndexOK(route'.index, made', copies', ops')
      /\ route'.new \subseteq DOMAIN made'
  BY <1>4 DEF NoRoute
<1>7. ListOK(worker'.jobs, made', copies') /\ IndexOK(worker'.index, made', copies', ops')
  BY <1>3
<1>8. SendOK'
  BY DEF IInv, SendOK
<1>9. answered' \in [Files -> Entry]
  BY DEF IInv, TypeOK
<1>10. /\ worker' \in [pc : {"idle", "send", "save"}, jobs : Seq(Job), at : 0..MaxJobs, index : [Files -> Entry]]
       /\ contract' \in BOOLEAN /\ made' \in Seq(Files) /\ Len(made') <= MaxJobs
       /\ attempts' \in [1..MaxJobs -> Nat] /\ copies' \in [1..MaxJobs -> Nat] /\ ops' \in 0..MaxOps
  BY DEF IInv, TypeOK
<1>11. QED
  BY <1>5, <1>6, <1>7, <1>8, <1>9, <1>10, NothingInHand, Assembled

LEMMA RouteEndsAll ==
  ASSUME IInv, UploadRouteSaves \/ OpRouteSaves \/ RouteFails \/ ServerRestart
  PROVE  IInv'
<1>0. /\ workerUp \in BOOLEAN /\ overlapped \in BOOLEAN /\ accepted \subseteq DOMAIN made
      /\ faults \in 0..MaxFaults /\ route.new \subseteq DOMAIN made
  BY DEF IInv, TypeOK
<1>1. CASE UploadRouteSaves
  BY <1>0, <1>1, RouteEnds DEF UploadRouteSaves, bounds
<1>2. CASE OpRouteSaves
  BY <1>0, <1>2, RouteEnds DEF OpRouteSaves, bounds
<1>3. CASE RouteFails
  <2>1. queue' \in {queue, <<>>} /\ index' = index
    BY <1>3 DEF RouteFails, Damaged, files
  <2>2. faults' \in 0..MaxFaults
    BY <1>0, <1>3, Constants DEF RouteFails
  <2>3. QED
    BY <1>0, <1>3, <2>1, <2>2, RouteEnds DEF RouteFails, history
<1>4. CASE ServerRestart
  <2>1. workerUp' \in BOOLEAN
    BY <1>0, <1>4 DEF ServerRestart
  <2>2. faults' \in 0..MaxFaults
    BY <1>0, <1>4, Constants DEF ServerRestart
  <2>3. QED
    BY <1>0, <1>4, <2>1, <2>2, RouteEnds DEF ServerRestart, files, history
<1>5. QED
  BY <1>1, <1>2, <1>3, <1>4

\* An index operation changes one entry of the copy it has read.
LEMMA OpRouteReadsStep ==
  ASSUME IInv, NEW op \in {"trash", "restore", "move"}, NEW f \in Files, OpRouteReads(op, f)
  PROVE  IInv'
<1> DEFINE new == [index EXCEPT ![f] = Operated(op, @)]
<1>1. made \in Seq(Files) /\ ops \in Nat /\ ops < MaxOps /\ ops' = ops + 1
  BY Constants DEF IInv, TypeOK, OpRouteReads
<1>2. Grows(made, made', copies, copies')
  BY Still DEF OpRouteReads
<1>3. /\ ListOK(queue, made', copies')
      /\ ListOK(worker.jobs, made', copies')
      /\ IndexOK(index, made', copies', ops')
      /\ IndexOK(worker.index, made', copies', ops')
  BY <1>1, <1>2, CopiesStay
<1>4. IndexOK(index, made', copies', ops) /\ index[f] \in Entry /\ index[f].moves <= ops
  <2>1. made' = made /\ copies' = copies
    BY DEF OpRouteReads, history, files
  <2>2. QED
    BY <2>1 DEF IInv, IndexOK
<1>5. /\ Operated(op, index[f]) \in Entry
      /\ Operated(op, index[f]).moves <= ops'
      /\ Operated(op, index[f]).gofile = index[f].gofile
  <2>1. index[f].moves \in 0..MaxOps /\ index[f].moves <= ops'
    <3>1. index[f].moves \in 0..MaxOps
      BY <1>4 DEF Entry
    <3>2. QED
      BY <1>1, <1>4, <3>1, Constants
  <2>2. CASE op = "trash"
    <3>1. Operated(op, index[f]) = [index[f] EXCEPT !.trashed = TRUE]
      BY <2>2 DEF Operated
    <3>2. [index[f] EXCEPT !.trashed = TRUE] \in Entry
      BY <1>4 DEF Entry
    <3>3. [index[f] EXCEPT !.trashed = TRUE].moves = index[f].moves /\ [index[f] EXCEPT !.trashed = TRUE].gofile = index[f].gofile
      BY <1>4 DEF Entry
    <3>4. QED
      BY <2>1, <3>1, <3>2, <3>3
  <2>3. CASE op = "restore"
    <3>1. Operated(op, index[f]) = [index[f] EXCEPT !.trashed = FALSE]
      BY <2>3 DEF Operated
    <3>2. [index[f] EXCEPT !.trashed = FALSE] \in Entry
      BY <1>4 DEF Entry
    <3>3. [index[f] EXCEPT !.trashed = FALSE].moves = index[f].moves /\ [index[f] EXCEPT !.trashed = FALSE].gofile = index[f].gofile
      BY <1>4 DEF Entry
    <3>4. QED
      BY <2>1, <3>1, <3>2, <3>3
  <2>4. CASE op = "move"
    <3>1. Operated(op, index[f]) = [index[f] EXCEPT !.moves = @ + 1]
      BY <2>4 DEF Operated
    <3>2. index[f].moves + 1 \in 0..MaxOps /\ index[f].moves + 1 <= ops'
      BY <1>1, <1>4, <2>1, Constants
    <3>3. QED
      BY <1>4, <3>1, <3>2 DEF Entry
  <2>5. QED
    BY <2>2, <2>3, <2>4
<1>6. IndexOK(new, made', copies', ops')
  <2>1. new \in [Files -> Entry]
    BY <1>3, <1>5 DEF IndexOK
  <2>2. \A g \in Files : new[g].moves <= ops'
    BY <1>3, <1>5 DEF IndexOK
  <2>3. \A g \in Files : new[g].gofile = index[g].gofile
    BY <1>3, <1>5 DEF IndexOK
  <2>4. QED
    BY <1>3, <2>1, <2>2, <2>3 DEF IndexOK
<1>7. /\ route'.jobs = <<>> /\ route'.new = {} /\ route'.index = new /\ route'.pc = "op"
      /\ route' = [pc |-> "op", jobs |-> <<>>, new |-> {}, index |-> new]
  BY DEF OpRouteReads, NoRoute
<1>8. ListOK(<<>>, made', copies')
  <2>1. made' \in Seq(Files)
    BY <1>1, <1>2 DEF Grows
  <2>2. QED
    BY <1>1, <2>1, NoCopy
<1>9. route' \in [pc : {"idle", "upload", "op"}, jobs : Seq(Job), new : SUBSET (1..MaxJobs), index : [Files -> Entry]]
  BY <1>6, <1>7, <1>8 DEF IndexOK, ListOK
<1>10. UNCHANGED <<queue, index, worker, workerUp, contract, made, faults, accepted, attempts, copies, answered>>
  BY DEF OpRouteReads, files
<1>11. SendOK'
  BY <1>10 DEF IInv, SendOK
<1>12. /\ worker' \in [pc : {"idle", "send", "save"}, jobs : Seq(Job), at : 0..MaxJobs, index : [Files -> Entry]]
       /\ workerUp' \in BOOLEAN /\ contract' \in BOOLEAN /\ answered' \in [Files -> Entry]
       /\ accepted' \subseteq DOMAIN made' /\ made' \in Seq(Files) /\ Len(made') <= MaxJobs
       /\ attempts' \in [1..MaxJobs -> Nat] /\ copies' \in [1..MaxJobs -> Nat] /\ faults' \in 0..MaxFaults
  BY <1>10 DEF IInv, TypeOK
<1>13. overlapped' \in BOOLEAN
  BY DEF OpRouteReads, Begun, IInv, TypeOK
<1>14. ops' \in 0..MaxOps
  BY <1>1, Constants
<1>15. /\ ListOK(queue', made', copies') /\ ListOK(route'.jobs, made', copies') /\ ListOK(worker'.jobs, made', copies')
       /\ IndexOK(index', made', copies', ops') /\ IndexOK(route'.index, made', copies', ops')
       /\ IndexOK(worker'.index, made', copies', ops') /\ route'.new \subseteq DOMAIN made'
  BY <1>3, <1>6, <1>7, <1>8, <1>10
<1>16. QED
  BY <1>9, <1>11, <1>12, <1>13, <1>14, <1>15, Assembled

\* The worker's last write: its copy, or nothing, or an emptied file.
LEMMA StepSavesStep ==
  ASSUME IInv, StepSaves
  PROVE  IInv'
<1>1. made \in Seq(Files) /\ ops \in Nat
  BY Constants DEF IInv, TypeOK
<1>2. UNCHANGED <<index, route, workerUp, contract, made, ops, accepted, attempts, copies, answered, overlapped>>
  BY DEF StepSaves, history
<1>3. Grows(made, made', copies, copies')
  BY <1>2, Still
<1>4. /\ ListOK(queue, made', copies')
      /\ ListOK(route.jobs, made', copies')
      /\ ListOK(worker.jobs, made', copies')
      /\ IndexOK(index, made', copies', ops')
      /\ IndexOK(route.index, made', copies', ops')
      /\ IndexOK(worker.index, made', copies', ops')
  BY <1>1, <1>2, <1>3, CopiesStay
<1>5. ListOK(<<>>, made', copies') /\ IndexOK(Fresh, made', copies', ops')
  BY <1>1, <1>2, NoCopy
<1>6. queue' \in {queue, worker.jobs, <<>>}
  BY DEF StepSaves, Damaged
<1>7. faults' \in 0..MaxFaults
  BY Constants DEF IInv, StepSaves
<1>8. worker' = NoStep
  BY DEF StepSaves
<1>9. ListOK(queue', made', copies') /\ ListOK(worker'.jobs, made', copies') /\ IndexOK(worker'.index, made', copies', ops')
  BY <1>4, <1>5, <1>6, <1>8 DEF NoStep
<1>10. SendOK'
  BY <1>8 DEF SendOK, NoStep
<1>11. /\ route' \in [pc : {"idle", "upload", "op"}, jobs : Seq(Job), new : SUBSET (1..MaxJobs), index : [Files -> Entry]]
       /\ workerUp' \in BOOLEAN /\ contract' \in BOOLEAN /\ overlapped' \in BOOLEAN
       /\ answered' \in [Files -> Entry] /\ accepted' \subseteq DOMAIN made'
       /\ made' \in Seq(Files) /\ Len(made') <= MaxJobs
       /\ attempts' \in [1..MaxJobs -> Nat] /\ copies' \in [1..MaxJobs -> Nat]
       /\ ops' \in 0..MaxOps /\ route'.new \subseteq DOMAIN made'
  BY <1>2 DEF IInv, TypeOK
<1>12. /\ IndexOK(index', made', copies', ops') /\ IndexOK(route'.index, made', copies', ops')
       /\ ListOK(route'.jobs, made', copies')
  BY <1>2, <1>4
<1>13. QED
  BY <1>7, <1>8, <1>9, <1>10, <1>11, <1>12, NothingInHand, Assembled

\* New jobs are numbered on from the jobs made so far.
LEMMA NewJobs ==
  ASSUME IInv, NEW order \in Seq(Files), Len(made) + Len(order) <= MaxJobs,
         NEW c \in [1..MaxJobs -> Nat]
  PROVE  LET jobs == [i \in DOMAIN order |-> NewFxUploadJob(Len(made) + i, order[i], index)] IN
         /\ jobs \in Seq(Job) /\ Len(jobs) = Len(order) /\ DOMAIN jobs = 1..Len(order)
         /\ \A i \in 1..Len(order) : jobs[i].n = Len(made) + i /\ JobOK(jobs[i], made \o order, c)
<1> DEFINE jobs == [i \in DOMAIN order |-> NewFxUploadJob(Len(made) + i, order[i], index)]
<1>1. made \in Seq(Files) /\ Len(made) \in Nat /\ Len(order) \in Nat /\ DOMAIN order = 1..Len(order)
  BY DEF IInv, TypeOK
<1>2. /\ made \o order \in Seq(Files) /\ Len(made \o order) = Len(made) + Len(order)
      /\ \A i \in 1..Len(order) : (made \o order)[Len(made) + i] = order[i]
  BY <1>1
<1>3. ASSUME NEW i \in 1..Len(order)
      PROVE  /\ jobs[i] \in Job /\ jobs[i].n = Len(made) + i
             /\ JobOK(jobs[i], made \o order, c)
  <2>1. order[i] \in Files /\ Len(made) + i \in 1..MaxJobs /\ Len(made) + i \in DOMAIN (made \o order)
    BY <1>1, <1>2, Constants
  <2>2. index[order[i]].moves \in 0..MaxOps
    BY <2>1 DEF IInv, IndexOK, Entry
  <2>3. jobs[i] = [n |-> Len(made) + i, file |-> order[i], moves |-> index[order[i]].moves,
                   status |-> "queued", retries |-> 0]
    BY <1>1 DEF NewFxUploadJob
  <2>4. 0 \in 0..MaxAttempts
    BY Constants
  <2>5. jobs[i] \in Job
    BY <2>1, <2>2, <2>3, <2>4 DEF Job
  <2>6. JobOK(jobs[i], made \o order, c)
    <3>1. jobs[i].n = Len(made) + i /\ jobs[i].file = order[i] /\ jobs[i].status = "queued" /\ jobs[i].retries = 0
      BY <2>3
    <3>2. QED
      BY <1>2, <2>1, <3>1, Constants, Zenon DEF JobOK
  <2>7. QED
    BY <2>3, <2>5, <2>6
<1>4. jobs \in Seq(Job) /\ Len(jobs) = Len(order) /\ DOMAIN jobs = 1..Len(order)
  <2>1. jobs \in [1..Len(order) -> Job]
    BY <1>1, <1>3
  <2>2. QED
    BY <1>1, <2>1
<1>5. QED
  BY <1>3, <1>4

\* The upload route appends to the copy it has read.
LEMMA UploadRouteReadsStep ==
  ASSUME IInv, NEW fs \in SUBSET Files, UploadRouteReads(fs)
  PROVE  IInv'
<1> DEFINE order == SetToSeq(fs)
           jobs == [i \in DOMAIN order |-> NewFxUploadJob(Len(made) + i, order[i], index)]
<1>1. made \in Seq(Files) /\ Len(made) \in Nat /\ ops \in Nat /\ copies \in [1..MaxJobs -> Nat]
  BY Constants DEF IInv, TypeOK
<1>2. order \in Seq(Files) /\ Len(order) \in Nat /\ Len(order) = Cardinality(fs)
  <2>1. IsFiniteSet(fs)
    BY FS_Subset, FxAssumption
  <2>2. order \in Seq(fs) /\ Len(order) = Cardinality(fs)
    BY <2>1, SetToSeqLists
  <2>3. order \in Seq(Files)
    BY <2>2, SeqMonotonic
  <2>4. QED
    BY <2>2, <2>3
<1>3. Len(made) + Len(order) <= MaxJobs
  BY <1>2 DEF UploadRouteReads
<1>4. /\ made' = made \o order
      /\ UNCHANGED <<queue, index, worker, workerUp, contract, ops, faults, accepted, attempts, copies, answered>>
  BY DEF UploadRouteReads, files
<1>5. made' \in Seq(Files) /\ Len(made') = Len(made) + Len(order) /\ \A n \in DOMAIN made : made'[n] = made[n]
  <2>1. made \o order \in Seq(Files) /\ Len(made \o order) = Len(made) + Len(order)
    BY <1>1, <1>2, ConcatProperties, Zenon
  <2>2. DOMAIN made = 1..Len(made)
    BY <1>1
  <2>3. \A n \in 1..(Len(made) + Len(order)) :
          (made \o order)[n] = IF n <= Len(made) THEN made[n] ELSE order[n - Len(made)]
    BY <1>1, <1>2, ConcatProperties, Zenon
  <2>4. ASSUME NEW n \in DOMAIN made
        PROVE  (made \o order)[n] = made[n]
    <3>1. n \in 1..(Len(made) + Len(order)) /\ n <= Len(made)
      BY <1>1, <1>2, <2>2
    <3>2. QED
      BY <2>3, <3>1
  <2>5. QED
    BY <1>4, <2>1, <2>4
<1>6. Grows(made, made', copies, copies')
  <2>1. \A n \in 1..MaxJobs : copies[n] \in Nat
    BY <1>1
  <2>2. QED
    BY <1>1, <1>2, <1>3, <1>4, <1>5, <2>1 DEF Grows
<1>7. /\ ListOK(queue, made', copies')
      /\ ListOK(worker.jobs, made', copies')
      /\ IndexOK(index, made', copies', ops')
      /\ IndexOK(worker.index, made', copies', ops')
  BY <1>1, <1>4, <1>6, CopiesStay
<1>8. /\ jobs \in Seq(Job) /\ Len(jobs) = Len(order) /\ DOMAIN jobs = 1..Len(order)
      /\ \A i \in 1..Len(order) : jobs[i].n = Len(made) + i /\ JobOK(jobs[i], made', copies')
  BY <1>1, <1>2, <1>3, <1>4, NewJobs
<1>9. route' = [pc |-> "upload", jobs |-> queue \o jobs, new |-> {jobs[i].n : i \in DOMAIN jobs}, index |-> Fresh]
  BY DEF UploadRouteReads, NoRoute, WithJobs
<1>. HIDE DEF jobs, order
<1>10. ListOK(queue \o jobs, made', copies')
  <2>1. queue \in Seq(Job) /\ Len(queue) \in Nat /\ Len(queue) <= Len(made)
    BY DEF IInv, ListOK
  <2>2. /\ queue \o jobs \in Seq(Job) /\ Len(queue \o jobs) = Len(queue) + Len(jobs)
        /\ \A i \in 1..(Len(queue) + Len(jobs)) :
             (queue \o jobs)[i] = IF i <= Len(queue) THEN queue[i] ELSE jobs[i - Len(queue)]
    <3>1. queue \in Seq(Job) /\ jobs \in Seq(Job)
      BY <1>8, <2>1
    <3>2. queue \o jobs \in Seq(Job)
      BY <3>1, ConcatProperties, Zenon
    <3>3. Len(queue \o jobs) = Len(queue) + Len(jobs)
      BY <3>1, ConcatProperties, Zenon
    <3>4. \A i \in 1..(Len(queue) + Len(jobs)) :
            (queue \o jobs)[i] = IF i <= Len(queue) THEN queue[i] ELSE jobs[i - Len(queue)]
      BY <3>1, ConcatProperties, Zenon
    <3>5. QED
      BY <3>2, <3>3, <3>4
  <2>3. Len(queue \o jobs) <= Len(made')
    BY <1>1, <1>2, <1>5, <1>8, <2>1, <2>2
  <2>4. ASSUME NEW i \in DOMAIN (queue \o jobs)
        PROVE  JobOK((queue \o jobs)[i], made', copies')
    <3>1. i \in 1..(Len(queue) + Len(order))
      BY <1>8, <2>2
    <3>2. CASE i <= Len(queue)
      <4>1. i \in DOMAIN queue /\ (queue \o jobs)[i] = queue[i]
        BY <1>8, <2>1, <2>2, <3>1, <3>2
      <4>2. QED
        BY <1>7, <4>1 DEF ListOK
    <3>3. CASE ~(i <= Len(queue))
      <4>1. i - Len(queue) \in 1..Len(order) /\ (queue \o jobs)[i] = jobs[i - Len(queue)]
        BY <1>2, <1>8, <2>1, <2>2, <3>1, <3>3
      <4>2. QED
        BY <1>8, <4>1
    <3>4. QED
      BY <3>2, <3>3
  <2>5. QED
    BY <2>2, <2>3, <2>4 DEF ListOK
<1>11. route'.new \subseteq DOMAIN made' /\ DOMAIN made' \subseteq 1..MaxJobs
  <2>1. DOMAIN made' = 1..(Len(made) + Len(order))
    BY <1>5
  <2>2. \A i \in 1..Len(order) : Len(made) + i \in DOMAIN made'
    BY <1>1, <1>2, <2>1
  <2>3. DOMAIN made' \subseteq 1..MaxJobs
    BY <1>1, <1>2, <1>3, <2>1, Constants
  <2>4. QED
    BY <1>8, <1>9, <2>2, <2>3
<1>12. ListOK(route'.jobs, made', copies') /\ IndexOK(route'.index, made', copies', ops')
  BY <1>1, <1>4, <1>5, <1>9, <1>10, NoCopy
<1>13. route' \in [pc : {"idle", "upload", "op"}, jobs : Seq(Job), new : SUBSET (1..MaxJobs), index : [Files -> Entry]]
  <2>1. route'.jobs \in Seq(Job) /\ route'.index \in [Files -> Entry]
    BY <1>12 DEF ListOK, IndexOK
  <2>2. QED
    BY <1>9, <1>11, <2>1
<1>14. SendOK'
  BY <1>4 DEF IInv, SendOK
<1>15. /\ worker' \in [pc : {"idle", "send", "save"}, jobs : Seq(Job), at : 0..MaxJobs, index : [Files -> Entry]]
       /\ workerUp' \in BOOLEAN /\ contract' \in BOOLEAN /\ answered' \in [Files -> Entry]
       /\ attempts' \in [1..MaxJobs -> Nat] /\ copies' \in [1..MaxJobs -> Nat]
       /\ ops' \in 0..MaxOps /\ faults' \in 0..MaxFaults
  BY <1>4 DEF IInv, TypeOK
<1>16. accepted' \subseteq DOMAIN made'
  <2>1. DOMAIN made \subseteq DOMAIN made'
    BY <1>1, <1>2, <1>5
  <2>2. QED
    BY <1>4, <2>1 DEF IInv, TypeOK
<1>17. overlapped' \in BOOLEAN
  BY DEF UploadRouteReads, Begun, IInv, TypeOK
<1>18. Len(made') <= MaxJobs
  BY <1>3, <1>5
<1>19. /\ ListOK(queue', made', copies') /\ ListOK(worker'.jobs, made', copies')
       /\ IndexOK(index', made', copies', ops') /\ IndexOK(worker'.index, made', copies', ops')
  BY <1>4, <1>7
<1>20. QED
  BY <1>5, <1>11, <1>12, <1>13, <1>14, <1>15, <1>16, <1>17, <1>18, <1>19, Assembled

\* One job of a copy replaced by the same job after a step.
LEMMA JobReplaced ==
  ASSUME NEW jobs, NEW m \in Seq(Files), NEW c, ListOK(jobs, m, c), NEW i \in DOMAIN jobs,
         NEW job \in Job, JobOK(job, m, c)
  PROVE  ListOK([jobs EXCEPT ![i] = job], m, c)
<1>1. jobs \in Seq(Job) /\ Len(jobs) <= Len(m) /\ i \in 1..Len(jobs)
  BY DEF ListOK
<1>2. [jobs EXCEPT ![i] = job] \in Seq(Job) /\ Len([jobs EXCEPT ![i] = job]) = Len(jobs)
  BY <1>1
<1>3. ASSUME NEW k \in DOMAIN [jobs EXCEPT ![i] = job]
      PROVE  JobOK([jobs EXCEPT ![i] = job][k], m, c)
  <2>1. k \in DOMAIN jobs /\ JobOK(jobs[k], m, c)
    BY DEF ListOK
  <2>2. CASE k = i
    BY <2>2
  <2>3. CASE k # i
    BY <2>1, <2>3
  <2>4. QED
    BY <2>2, <2>3
<1>4. QED
  BY <1>1, <1>2, <1>3 DEF ListOK

\* The worker reads both files; a job it cannot send is failed in its copy.
LEMMA StepReadsStep ==
  ASSUME IInv, NEW i \in DOMAIN queue, NEW readable \in BOOLEAN, StepReads(i, readable)
  PROVE  IInv'
<1> DEFINE failed == [queue EXCEPT ![i] = FailedJob(@)]
<1>1. made \in Seq(Files) /\ ops \in Nat
  BY Constants DEF IInv, TypeOK
<1>2. UNCHANGED <<queue, index, route, workerUp, contract, ops, faults, made, accepted, attempts, copies, answered>>
  BY DEF StepReads, files, bounds
<1>3. Grows(made, made', copies, copies')
  BY <1>2, Still
<1>4. /\ ListOK(queue, made', copies')
      /\ ListOK(route.jobs, made', copies')
      /\ IndexOK(index, made', copies', ops')
      /\ IndexOK(route.index, made', copies', ops')
  BY <1>1, <1>2, <1>3, CopiesStay
<1>5. queue[i] \in Job /\ queue[i].status = "queued" /\ JobOK(queue[i], made', copies')
  BY <1>4 DEF ListOK, StepReads, MayTake, Waiting
<1>6. ListOK(failed, made', copies')
  <2>1. FailedJob(queue[i]) \in Job
    BY <1>5 DEF FailedJob, Job
  <2>2. /\ FailedJob(queue[i]).n = queue[i].n /\ FailedJob(queue[i]).file = queue[i].file
        /\ FailedJob(queue[i]).status = "failed"
    BY <1>5 DEF FailedJob, Job
  <2>3. JobOK(FailedJob(queue[i]), made', copies')
    BY <1>5, <2>2 DEF JobOK
  <2>4. made' \in Seq(Files)
    BY <1>1, <1>2
  <2>5. QED
    BY <1>4, <2>1, <2>3, <2>4, JobReplaced
<1>7. i \in 0..MaxJobs /\ i \in DOMAIN queue
  <2>1. i \in 1..Len(queue) /\ Len(queue) \in Nat /\ Len(queue) <= MaxJobs
    BY DEF IInv, TypeOK
  <2>2. QED
    BY <2>1, Constants
<1>8. \/ worker' = [pc |-> "send", jobs |-> queue, at |-> i, index |-> index]
      \/ worker' = [pc |-> "save", jobs |-> failed, at |-> i, index |-> index]
  BY DEF StepReads
<1>9. ListOK(worker'.jobs, made', copies') /\ IndexOK(worker'.index, made', copies', ops') /\ worker'.at = i
  <2>1. CASE worker' = [pc |-> "send", jobs |-> queue, at |-> i, index |-> index]
    BY <1>4, <2>1
  <2>2. CASE worker' = [pc |-> "save", jobs |-> failed, at |-> i, index |-> index]
    BY <1>4, <1>6, <2>2
  <2>3. QED
    BY <1>8, <2>1, <2>2
<1>10. worker' \in [pc : {"idle", "send", "save"}, jobs : Seq(Job), at : 0..MaxJobs, index : [Files -> Entry]]
  <2>1. queue \in Seq(Job) /\ failed \in Seq(Job) /\ index \in [Files -> Entry]
    BY <1>4, <1>6 DEF ListOK, IndexOK
  <2>. HIDE DEF failed
  <2>2. QED
    BY <1>7, <1>8, <2>1
<1>11. SendOK'
  <2>1. CASE worker' = [pc |-> "send", jobs |-> queue, at |-> i, index |-> index]
    BY <1>5, <1>7, <2>1 DEF SendOK
  <2>2. CASE worker' = [pc |-> "save", jobs |-> failed, at |-> i, index |-> index]
    BY <2>2 DEF SendOK
  <2>3. QED
    BY <1>8, <2>1, <2>2
<1>12. overlapped' \in BOOLEAN
  BY DEF StepReads, IInv, TypeOK
<1>13. /\ route' \in [pc : {"idle", "upload", "op"}, jobs : Seq(Job), new : SUBSET (1..MaxJobs), index : [Files -> Entry]]
       /\ workerUp' \in BOOLEAN /\ contract' \in BOOLEAN
       /\ answered' \in [Files -> Entry] /\ accepted' \subseteq DOMAIN made'
       /\ made' \in Seq(Files) /\ Len(made') <= MaxJobs
       /\ attempts' \in [1..MaxJobs -> Nat] /\ copies' \in [1..MaxJobs -> Nat]
       /\ ops' \in 0..MaxOps /\ faults' \in 0..MaxFaults /\ route'.new \subseteq DOMAIN made'
  BY <1>2 DEF IInv, TypeOK
<1>14. /\ ListOK(queue', made', copies') /\ ListOK(route'.jobs, made', copies')
       /\ IndexOK(index', made', copies', ops') /\ IndexOK(route'.index, made', copies', ops')
  BY <1>2, <1>4
<1>15. QED
  BY <1>9, <1>10, <1>11, <1>12, <1>13, <1>14, Assembled

\* One more, or as many.
Counted(f, n) == [f EXCEPT ![n] = @ + 1]

LEMMA CountedGrows ==
  ASSUME NEW f \in [1..MaxJobs -> Nat], NEW n \in 1..MaxJobs
  PROVE  /\ Counted(f, n) \in [1..MaxJobs -> Nat]
         /\ Counted(f, n)[n] > 0
         /\ \A k \in 1..MaxJobs : f[k] <= Counted(f, n)[k]
<1>1. f[n] \in Nat /\ \A k \in 1..MaxJobs : f[k] \in Nat
  OBVIOUS
<1>2. \A k \in 1..MaxJobs : Counted(f, n)[k] = IF k = n THEN f[k] + 1 ELSE f[k]
  BY DEF Counted
<1>3. Counted(f, n) \in [1..MaxJobs -> Nat]
  BY <1>1 DEF Counted
<1>4. QED
  BY <1>1, <1>2, <1>3

\* The job a sending worker is at.
LEMMA SentJob ==
  ASSUME IInv, worker.pc = "send"
  PROVE  /\ worker.at \in DOMAIN worker.jobs
         /\ worker.jobs[worker.at] \in Job
         /\ worker.jobs[worker.at].status = "queued"
         /\ JobOK(worker.jobs[worker.at], made, copies)
         /\ worker.jobs[worker.at].n \in 1..MaxJobs
<1>1. worker.at \in DOMAIN worker.jobs /\ worker.jobs[worker.at].status = "queued"
  BY DEF IInv, SendOK
<1>2. worker.jobs[worker.at] \in Job /\ JobOK(worker.jobs[worker.at], made, copies)
  BY <1>1 DEF IInv, ListOK
<1>3. QED
  BY <1>1, <1>2 DEF Job

\* A killed worker: what it held is gone, the host may have the file.
LEMMA WorkerCrashStep ==
  ASSUME IInv, WorkerCrash
  PROVE  IInv'
<1>1. made \in Seq(Files) /\ ops \in Nat /\ copies \in [1..MaxJobs -> Nat] /\ attempts \in [1..MaxJobs -> Nat]
  BY Constants DEF IInv, TypeOK
<1>2. /\ UNCHANGED <<queue, index, route, contract, made, ops, accepted, answered, overlapped>>
      /\ worker' = NoStep /\ workerUp' = FALSE
  BY DEF WorkerCrash, files
<1>3. /\ attempts' \in [1..MaxJobs -> Nat] /\ copies' \in [1..MaxJobs -> Nat]
      /\ \A n \in 1..MaxJobs : copies[n] <= copies'[n]
  <2>1. \A n \in 1..MaxJobs : copies[n] \in Nat
    BY <1>1
  <2>2. CASE UNCHANGED <<attempts, copies>>
    BY <1>1, <2>1, <2>2
  <2>3. CASE /\ worker.pc = "send"
             /\ attempts' = Counted(attempts, worker.jobs[worker.at].n)
             /\ UNCHANGED copies \/ copies' = Counted(copies, worker.jobs[worker.at].n)
    <3>1. worker.jobs[worker.at].n \in 1..MaxJobs
      BY <2>3, SentJob
    <3>2. attempts' \in [1..MaxJobs -> Nat]
      BY <1>1, <2>3, <3>1, CountedGrows
    <3>3. CASE UNCHANGED copies
      BY <1>1, <2>1, <3>2, <3>3
    <3>4. CASE copies' = Counted(copies, worker.jobs[worker.at].n)
      BY <1>1, <3>1, <3>2, <3>4, CountedGrows
    <3>5. QED
      BY <2>3, <3>3, <3>4
  <2>4. QED
    BY <2>2, <2>3 DEF WorkerCrash, Counted
<1>4. Grows(made, made', copies, copies')
  <2>1. Len(made) \in Nat /\ Len(made) <= MaxJobs
    BY <1>1 DEF IInv
  <2>2. QED
    BY <1>1, <1>2, <1>3, <2>1 DEF Grows
<1>5. /\ ListOK(queue, made', copies')
      /\ ListOK(route.jobs, made', copies')
      /\ IndexOK(index, made', copies', ops')
      /\ IndexOK(route.index, made', copies', ops')
  BY <1>1, <1>2, <1>4, CopiesStay
<1>6. ListOK(worker'.jobs, made', copies') /\ IndexOK(worker'.index, made', copies', ops')
  BY <1>1, <1>2, NoCopy DEF NoStep
<1>7. SendOK'
  BY <1>2 DEF SendOK, NoStep
<1>8. faults' \in 0..MaxFaults
  BY Constants DEF IInv, WorkerCrash
<1>9. /\ route' \in [pc : {"idle", "upload", "op"}, jobs : Seq(Job), new : SUBSET (1..MaxJobs), index : [Files -> Entry]]
      /\ contract' \in BOOLEAN /\ overlapped' \in BOOLEAN
      /\ answered' \in [Files -> Entry] /\ accepted' \subseteq DOMAIN made'
      /\ made' \in Seq(Files) /\ Len(made') <= MaxJobs
      /\ ops' \in 0..MaxOps /\ route'.new \subseteq DOMAIN made'
  BY <1>2 DEF IInv, TypeOK
<1>10. workerUp' \in BOOLEAN
  BY <1>2
<1>11. /\ ListOK(queue', made', copies') /\ ListOK(route'.jobs, made', copies')
       /\ IndexOK(index', made', copies', ops') /\ IndexOK(route'.index, made', copies', ops')
  BY <1>2, <1>5
<1>12. QED
  BY <1>2, <1>3, <1>6, <1>7, <1>8, <1>9, <1>10, <1>11, NothingInHand, Assembled

\* The job after an attempt is right if the host got it when it says so.
LEMMA AttemptedJob ==
  ASSUME NEW job \in Job, job.status = "queued", NEW m, NEW c, JobOK(job, m, c),
         NEW result \in {"ok", "transient", "terminal"}, result = "ok" => c[job.n] > 0
  PROVE  AfterAttempt(job, result) \in Job /\ JobOK(AfterAttempt(job, result), m, c)
<1>1. job.retries \in 0..MaxAttempts /\ job.retries < MaxAttempts
  BY DEF Job, JobOK
<1>2. job.retries + 1 \in 0..MaxAttempts
  BY <1>1, Constants
<1>3. CASE result = "ok"
  <2>1. AfterAttempt(job, result) = [job EXCEPT !.status = "success"]
    BY <1>3 DEF AfterAttempt
  <2>2. QED
    BY <1>3, <2>1 DEF Job, JobOK
<1>4. CASE result = "transient" /\ job.retries + 1 < MaxAttempts
  <2>1. AfterAttempt(job, result) = [job EXCEPT !.retries = @ + 1]
    BY <1>4 DEF AfterAttempt
  <2>2. AfterAttempt(job, result) \in Job
    BY <1>2, <2>1 DEF Job
  <2>3. /\ AfterAttempt(job, result).n = job.n /\ AfterAttempt(job, result).file = job.file
        /\ AfterAttempt(job, result).status = "queued" /\ AfterAttempt(job, result).retries = job.retries + 1
    BY <2>1 DEF Job
  <2>4. QED
    BY <1>4, <2>2, <2>3 DEF JobOK
<1>5. CASE result # "ok" /\ ~(result = "transient" /\ job.retries + 1 < MaxAttempts)
  <2>1. AfterAttempt(job, result) = FailedJob([job EXCEPT !.retries = @ + 1])
    BY <1>5 DEF AfterAttempt
  <2>2. [job EXCEPT !.retries = @ + 1] \in Job
    BY <1>2 DEF Job
  <2>3. FailedJob([job EXCEPT !.retries = @ + 1]) \in Job
    BY <2>2 DEF FailedJob, Job
  <2>4. /\ AfterAttempt(job, result).n = job.n /\ AfterAttempt(job, result).file = job.file
        /\ AfterAttempt(job, result).status = "failed"
    BY <2>1, <2>2 DEF FailedJob, Job
  <2>5. QED
    BY <2>1, <2>3, <2>4 DEF JobOK
<1>6. QED
  BY <1>3, <1>4, <1>5

\* The worker's copy of the index after an attempt: a mark is made on the file
\* the host has got, whatever else has become of the file since the copy was read.
LEMMA MarkedIndex ==
  ASSUME NEW idx, NEW m, NEW c, NEW k \in Nat, IndexOK(idx, m, c, k),
         NEW job \in Job, JobOK(job, m, c), NEW result, result = "ok" => c[job.n] > 0
  PROVE  IndexOK(Marked(idx, job.file, result), m, c, k)
<1>1. CASE result # "ok"
  BY <1>1 DEF Marked
<1>2. CASE result = "ok"
  <2> DEFINE new == [idx EXCEPT ![job.file].gofile = "uploaded"]
  <2>1. idx \in [Files -> Entry] /\ job.file \in Files /\ idx[job.file] \in Entry
    BY DEF IndexOK, Job
  <2>2. [idx[job.file] EXCEPT !.gofile = "uploaded"] \in Entry
    BY <2>1 DEF Entry
  <2>3. new \in [Files -> Entry]
    BY <2>1, <2>2
  <2>4. \A f \in Files : new[f].moves = idx[f].moves
    BY <2>1 DEF Entry
  <2>5. \A f \in Files : f # job.file => new[f].gofile = idx[f].gofile
    BY <2>1
  <2>6. job.n \in DOMAIN m /\ m[job.n] = job.file /\ c[job.n] > 0
    BY <1>2 DEF JobOK
  <2>7. IndexOK(new, m, c, k)
    BY <2>3, <2>4, <2>5, <2>6 DEF IndexOK
  <2>8. QED
    BY <1>2, <2>7 DEF Marked
<1>3. QED
  BY <1>1, <1>2

\* The transfer and the write of the index.
LEMMA StepSendsStep ==
  ASSUME IInv, NEW result \in {"ok", "transient", "terminal"}, StepSends(result)
  PROVE  IInv'
<1> DEFINE job == worker.jobs[worker.at]
           sent == [worker.jobs EXCEPT ![worker.at] = AfterAttempt(job, result)]
<1>1. /\ made \in Seq(Files) /\ ops \in Nat /\ copies \in [1..MaxJobs -> Nat]
      /\ attempts \in [1..MaxJobs -> Nat] /\ contract \in BOOLEAN
  BY Constants DEF IInv, TypeOK
<1>2. /\ UNCHANGED <<queue, route, workerUp, contract, made, ops, accepted, answered, overlapped>>
      /\ worker.pc = "send"
  BY DEF StepSends
<1>3. /\ worker.at \in DOMAIN worker.jobs /\ job \in Job /\ job.status = "queued"
      /\ JobOK(job, made, copies) /\ job.n \in 1..MaxJobs
  BY <1>2, SentJob
<1>4. /\ copies' \in [1..MaxJobs -> Nat] /\ \A n \in 1..MaxJobs : copies[n] <= copies'[n]
      /\ result = "ok" => copies'[job.n] > 0
  <2>1. \A n \in 1..MaxJobs : copies[n] \in Nat
    BY <1>1
  <2>2. copies' = IF result = "ok" THEN Counted(copies, job.n) ELSE copies
    BY DEF StepSends, Counted
  <2>. HIDE DEF job
  <2>3. CASE result # "ok"
    <3>1. copies' = copies
      BY <2>2, <2>3
    <3>2. \A n \in 1..MaxJobs : copies[n] <= copies[n]
      BY <2>1
    <3>3. QED
      BY <1>1, <2>3, <3>1, <3>2, Zenon
  <2>4. CASE result = "ok"
    <3>1. copies' = Counted(copies, job.n)
      BY <2>2, <2>4
    <3>2. job.n \in 1..MaxJobs
      BY <1>3
    <3>3. /\ Counted(copies, job.n) \in [1..MaxJobs -> Nat]
          /\ \A n \in 1..MaxJobs : copies[n] <= Counted(copies, job.n)[n]
          /\ Counted(copies, job.n)[job.n] > 0
      BY <1>1, <3>2, CountedGrows
    <3>4. QED
      BY <3>1, <3>3, Zenon
  <2>5. QED
    BY <2>3, <2>4, Zenon
<1>5. attempts' \in [1..MaxJobs -> Nat]
  <2>1. attempts' = IF contract THEN Counted(attempts, job.n) ELSE attempts
    BY DEF StepSends, Counted
  <2>. HIDE DEF job
  <2>2. QED
    BY <1>1, <1>3, <2>1, CountedGrows
<1>6. Grows(made, made', copies, copies')
  <2>1. Len(made) \in Nat /\ Len(made) <= MaxJobs
    BY <1>1 DEF IInv
  <2>2. QED
    BY <1>1, <1>2, <1>4, <2>1 DEF Grows
<1>7. /\ ListOK(queue, made', copies')
      /\ ListOK(route.jobs, made', copies')
      /\ ListOK(worker.jobs, made', copies')
      /\ IndexOK(index, made', copies', ops')
      /\ IndexOK(route.index, made', copies', ops')
      /\ IndexOK(worker.index, made', copies', ops')
  BY <1>1, <1>2, <1>6, CopiesStay
<1>8. JobOK(job, made', copies')
  BY <1>3, <1>7 DEF ListOK
<1>9. ListOK(sent, made', copies')
  <2>1. AfterAttempt(job, result) \in Job /\ JobOK(AfterAttempt(job, result), made', copies')
    BY <1>3, <1>4, <1>8, AttemptedJob
  <2>2. made' \in Seq(Files)
    BY <1>1, <1>2
  <2>. HIDE DEF job
  <2>3. QED
    BY <1>3, <1>7, <2>1, <2>2, JobReplaced
<1>10. IndexOK(index', made', copies', ops')
  <2>1. IndexOK(Marked(worker.index, job.file, result), made', copies', ops')
    BY <1>1, <1>2, <1>3, <1>4, <1>7, <1>8, MarkedIndex
  <2>2. index' = Marked(worker.index, job.file, result) \/ index' = index
    BY DEF StepSends
  <2>3. QED
    BY <1>7, <2>1, <2>2
<1>11. worker' = [[worker EXCEPT !.pc = "save"] EXCEPT !.jobs = sent]
  BY DEF StepSends, IInv, TypeOK
<1>. HIDE DEF sent
<1>12. worker \in [pc : {"idle", "send", "save"}, jobs : Seq(Job), at : 0..MaxJobs, index : [Files -> Entry]]
  BY DEF IInv, TypeOK
<1>13. worker'.pc = "save" /\ worker'.jobs = sent /\ worker'.index = worker.index
  BY <1>11, <1>12
<1>14. worker' \in [pc : {"idle", "send", "save"}, jobs : Seq(Job), at : 0..MaxJobs, index : [Files -> Entry]]
  <2>1. sent \in Seq(Job)
    BY <1>9 DEF ListOK
  <2>2. QED
    BY <1>11, <1>12, <2>1
<1>15. ListOK(worker'.jobs, made', copies') /\ IndexOK(worker'.index, made', copies', ops') /\ SendOK'
  BY <1>7, <1>9, <1>13 DEF SendOK
<1>16. faults' \in 0..MaxFaults
  BY Constants DEF IInv, StepSends
<1>17. /\ route' \in [pc : {"idle", "upload", "op"}, jobs : Seq(Job), new : SUBSET (1..MaxJobs), index : [Files -> Entry]]
       /\ workerUp' \in BOOLEAN /\ contract' \in BOOLEAN /\ overlapped' \in BOOLEAN
       /\ answered' \in [Files -> Entry] /\ accepted' \subseteq DOMAIN made'
       /\ made' \in Seq(Files) /\ Len(made') <= MaxJobs
       /\ ops' \in 0..MaxOps /\ route'.new \subseteq DOMAIN made'
  BY <1>2 DEF IInv, TypeOK
<1>18. ListOK(queue', made', copies') /\ ListOK(route'.jobs, made', copies') /\ IndexOK(route'.index, made', copies', ops')
  BY <1>2, <1>7
<1>19. QED
  BY <1>4, <1>5, <1>10, <1>14, <1>15, <1>16, <1>17, <1>18, Assembled

LEMMA NextIInv == IInv /\ [Next]_vars => IInv'
<1> SUFFICES ASSUME IInv, [Next]_vars PROVE IInv'
  OBVIOUS
<1>1. ASSUME NEW fs \in SUBSET Files, UploadRouteReads(fs) PROVE IInv'
  BY <1>1, UploadRouteReadsStep
<1>2. ASSUME NEW op \in {"trash", "restore", "move"}, NEW f \in Files, OpRouteReads(op, f) PROVE IInv'
  BY <1>2, OpRouteReadsStep
<1>3. CASE UploadRouteSaves \/ OpRouteSaves \/ RouteFails \/ ServerRestart
  BY <1>3, RouteEndsAll
<1>4. ASSUME NEW i \in DOMAIN queue, NEW readable \in BOOLEAN, StepReads(i, readable) PROVE IInv'
  BY <1>4, StepReadsStep
<1>5. ASSUME NEW result \in {"ok", "transient", "terminal"}, StepSends(result) PROVE IInv'
  BY <1>5, StepSendsStep
<1>6. CASE StepSaves
  BY <1>6, StepSavesStep
<1>7. CASE WorkerCrash
  BY <1>7, WorkerCrashStep
<1>8. CASE UNCHANGED vars
  BY <1>8 DEF vars, files, bounds, history, IInv, TypeOK, SendOK
<1>9. QED
  BY <1>1, <1>2, <1>3, <1>4, <1>5, <1>6, <1>7, <1>8 DEF Next, UploadStep

-----------------------------------------------------------------------------
\* The inductive invariant holds of every behaviour.
THEOREM FxInvariance == Spec => []IInv
<1>1. IInv /\ [Next]_vars => IInv'
  BY NextIInv
<1>2. QED
  BY InitIInv, <1>1, PTL DEF Spec

\* Every variable keeps its type: among others, retries stay within the limit
\* and no copy of the queue outgrows the jobs made.
THEOREM FxTypeCorrect == Spec => []TypeOK
<1>1. IInv => TypeOK
  BY DEF IInv
<1>2. QED
  BY FxInvariance, <1>1, PTL

\* Whatever steps of the two processes overlap, whichever writes fail and
\* whenever a process is killed, neither file ever claims an upload that the
\* host does not have.
THEOREM UploadClaimsAreTrue == Spec => []UploadedIsReal
<1>1. IInv => UploadedIsReal
  <2> SUFFICES ASSUME IInv PROVE UploadedIsReal
    OBVIOUS
  <2>1. \A f \in Files : index[f].gofile = "uploaded" => \E n \in DOMAIN made : made[n] = f /\ copies[n] > 0
    BY DEF IInv, IndexOK
  <2>2. \A i \in DOMAIN queue : queue[i].status = "success" => copies[queue[i].n] > 0
    BY DEF IInv, ListOK, JobOK
  <2>3. QED
    BY <2>1, <2>2 DEF UploadedIsReal
<1>2. QED
  BY FxInvariance, <1>1, PTL
-----------------------------------------------------------------------------
(***************************************************************************)
(* What is promised as long as the worker's step and a request have not    *)
(* overlapped.  Each lemma below shows that one step keeps Alone, and      *)
(* assumes that the step leaves no overlap behind.                         *)
(***************************************************************************)
LEMMA Held ==
  ASSUME IInv
  PROVE  /\ DOMAIN made = 1..Len(made) /\ Len(made) \in Nat /\ DOMAIN made \subseteq 1..MaxJobs
         /\ attempts \in [1..MaxJobs -> Nat] /\ copies \in [1..MaxJobs -> Nat]
         /\ faults \in Nat /\ MaxAttempts \in Nat
         /\ queue \in Seq(Job) /\ route.jobs \in Seq(Job) /\ worker.jobs \in Seq(Job)
         /\ \A i \in DOMAIN queue : queue[i] \in Job /\ queue[i].n \in DOMAIN made
         /\ \A i \in DOMAIN route.jobs : route.jobs[i] \in Job /\ route.jobs[i].n \in DOMAIN made
         /\ \A i \in DOMAIN worker.jobs : worker.jobs[i] \in Job /\ worker.jobs[i].n \in DOMAIN made
<1>1. made \in Seq(Files) /\ Len(made) <= MaxJobs
  BY DEF IInv, TypeOK
<1>2. DOMAIN made = 1..Len(made) /\ Len(made) \in Nat /\ DOMAIN made \subseteq 1..MaxJobs
  BY <1>1, Constants
<1>3. attempts \in [1..MaxJobs -> Nat] /\ copies \in [1..MaxJobs -> Nat]
  BY DEF IInv, TypeOK
<1>4. faults \in Nat
  BY Constants DEF IInv
<1>5. queue \in Seq(Job) /\ route.jobs \in Seq(Job) /\ worker.jobs \in Seq(Job)
  BY DEF IInv, ListOK
<1>6. \A i \in DOMAIN queue : queue[i] \in Job /\ queue[i].n \in DOMAIN made
  BY <1>5 DEF IInv, ListOK, JobOK
<1>7. \A i \in DOMAIN route.jobs : route.jobs[i] \in Job /\ route.jobs[i].n \in DOMAIN made
  BY <1>5 DEF IInv, ListOK, JobOK
<1>8. \A i \in DOMAIN worker.jobs : worker.jobs[i] \in Job /\ worker.jobs[i].n \in DOMAIN made
  BY <1>5 DEF IInv, ListOK, JobOK
<1>9. QED
  BY <1>2, <1>3, <1>4, <1>5, <1>6, <1>7, <1>8, Constants

\* More faults allow more transfers.
LEMMA TallyMore ==
  ASSUME NEW job \in Job, NEW a \in [1..MaxJobs -> Nat], NEW c \in [1..MaxJobs -> Nat],
         NEW k \in Nat, NEW k2 \in Nat, k <= k2, Tallied(job, a, c, k)
  PROVE  Tallied(job, a, c, k2)
<1>1. job.n \in 1..MaxJobs /\ job.retries \in Nat
  BY Constants DEF Job
<1>2. a[job.n] \in Nat /\ c[job.n] \in Nat
  BY <1>1
<1>3. QED
  BY <1>1, <1>2 DEF Tallied

\* A transfer more is covered by a fault more.
LEMMA TallySent ==
  ASSUME NEW job \in Job, NEW a \in [1..MaxJobs -> Nat], NEW c \in [1..MaxJobs -> Nat],
         NEW a2 \in [1..MaxJobs -> Nat], NEW c2 \in [1..MaxJobs -> Nat],
         \A n \in 1..MaxJobs : a2[n] <= a[n] + 1 /\ c2[n] <= c[n] + 1,
         NEW k \in Nat, Tallied(job, a, c, k)
  PROVE  Tallied(job, a2, c2, k + 1)
<1>1. job.n \in 1..MaxJobs /\ job.retries \in Nat
  BY Constants DEF Job
<1>2. a[job.n] \in Nat /\ c[job.n] \in Nat /\ a2[job.n] \in Nat /\ c2[job.n] \in Nat
  BY <1>1
<1>3. a2[job.n] <= a[job.n] + 1 /\ c2[job.n] <= c[job.n] + 1
  BY <1>1
<1>4. QED
  BY <1>1, <1>2, <1>3, SMTT(60) DEF Tallied

\* What the tally says of one job is not changed by transfers of another.
LEMMA TallyApart ==
  ASSUME NEW job \in Job, NEW a, NEW c, NEW a2, NEW c2, NEW k,
         a2[job.n] = a[job.n], c2[job.n] = c[job.n], Tallied(job, a, c, k)
  PROVE  Tallied(job, a2, c2, k)
BY DEF Tallied

LEMMA BoundsLast ==
  ASSUME IInv, TransfersBounded, ~overlapped, UNCHANGED <<attempts, copies>>,
         faults' \in Nat, faults <= faults'
  PROVE  TransfersBounded'
<1>1. \A n \in 1..MaxJobs : attempts[n] <= MaxAttempts + faults /\ copies[n] <= 1 + faults
  BY DEF TransfersBounded
<1>2. \A n \in 1..MaxJobs : attempts[n] \in Nat /\ copies[n] \in Nat
  BY Held
<1>3. \A n \in 1..MaxJobs : attempts[n] <= MaxAttempts + faults' /\ copies[n] <= 1 + faults'
  BY <1>1, <1>2, Held
<1>4. QED
  BY <1>3 DEF TransfersBounded

LEMMA OneMore ==
  ASSUME NEW a \in Nat, NEW b \in Nat, a <= b
  PROVE  a + 1 \in Nat /\ b + 1 \in Nat /\ a + 1 <= b + 1 /\ a <= b + 1
OBVIOUS

\* A queue that stays, or is lost, keeps its tally while faults grow, as
\* long as the worker holds no unsaved result, or drops it for a fault.
LEMMA QueueLasts ==
  ASSUME IInv, QueueTallied, UNCHANGED <<attempts, copies>>, queue' \in {queue, <<>>},
         faults' \in Nat, faults <= faults',
         \/ UNCHANGED worker
         \/ worker.pc # "save"
         \/ worker'.pc # "save" /\ faults' = faults + 1
  PROVE  QueueTallied'
<1>1. CASE queue' = <<>>
  BY <1>1 DEF QueueTallied, Distinct
<1>2. CASE queue' = queue
  <2>1. Distinct(queue')
    BY <1>2 DEF QueueTallied
  <2>2. ASSUME NEW i \in DOMAIN queue
        PROVE  Tallied(queue[i], attempts, copies,
                       IF worker'.pc = "save" /\ i = worker'.at THEN faults' + 1 ELSE faults')
    <3>1. PICK k :
            /\ k = IF worker.pc = "save" /\ i = worker.at THEN faults + 1 ELSE faults
            /\ Tallied(queue[i], attempts, copies, k)
      BY DEF QueueTallied
    <3>2. PICK k2 :
            k2 = IF worker'.pc = "save" /\ i = worker'.at THEN faults' + 1 ELSE faults'
      OBVIOUS
    <3>3. k \in Nat /\ k2 \in Nat /\ k <= k2
      <4>1. faults \in Nat
        BY Held
      <4>2. CASE UNCHANGED worker
        <5>1. worker' = worker
          BY <4>2
        <5>2. CASE worker.pc = "save" /\ i = worker.at
          <6>1. k = faults + 1
            BY <3>1, <5>2
          <6>2. k2 = faults' + 1
            BY <3>2, <5>1, <5>2
          <6>3. QED
            BY <4>1, <6>1, <6>2, OneMore
        <5>3. CASE ~(worker.pc = "save" /\ i = worker.at)
          <6>1. k = faults
            BY <3>1, <5>3
          <6>2. k2 = faults'
            BY <3>2, <5>1, <5>3
          <6>3. QED
            BY <4>1, <6>1, <6>2
        <5>4. QED
          BY <5>2, <5>3
      <4>3. CASE worker.pc # "save"
        <5>1. k = faults /\ (k2 = faults' \/ k2 = faults' + 1)
          BY <3>1, <3>2, <4>3
        <5>2. QED
          BY <4>1, <5>1, OneMore
      <4>4. CASE worker'.pc # "save" /\ faults' = faults + 1
        <5>1. k2 = faults' /\ (k = faults \/ k = faults + 1)
          BY <3>1, <3>2, <4>4
        <5>2. QED
          BY <4>1, <4>4, <5>1
      <4>5. QED
        BY <4>2, <4>3, <4>4
    <3>4. queue[i] \in Job /\ attempts \in [1..MaxJobs -> Nat] /\ copies \in [1..MaxJobs -> Nat]
      BY Held
    <3>5. Tallied(queue[i], attempts, copies, k2)
      BY <3>1, <3>3, <3>4, TallyMore
    <3>6. QED
      BY <3>2, <3>5
  <2>3. QED
    BY <1>2, <2>1, <2>2 DEF QueueTallied
<1>3. QED
  BY <1>1, <1>2
\* The steps of the server that end a request, with the worker idle, and those
\* that have none.
LEMMA OpRouteReadsAlone ==
  ASSUME IInv, Alone, ~overlapped', NEW op, NEW f, OpRouteReads(op, f)
  PROVE  Alone'
<1>1. /\ UNCHANGED <<queue, index, worker, made, faults, accepted, attempts, copies, answered>>
      /\ route'.pc = "op"
  BY DEF OpRouteReads, NoRoute, files
<1>2. worker.pc = "idle" /\ ~overlapped
  BY DEF OpRouteReads, Begun
<1>3. QueueTallied' /\ WorkerHolds' /\ UnmadeUnsent'
  BY <1>1 DEF Alone, QueueTallied, WorkerHolds, UnmadeUnsent
<1>4. PromisesKept'
  BY <1>1, <1>2 DEF Alone, PromisesKept, AcceptedKeptAlone, AcceptedKept, OpsKept, TransfersBounded
<1>5. RouteHolds'
  BY <1>1 DEF RouteHolds
<1>6. QED
  BY <1>1, <1>2, <1>3, <1>4, <1>5 DEF Alone

LEMMA UploadRouteSavesAlone ==
  ASSUME IInv, Alone, ~overlapped', UploadRouteSaves
  PROVE  Alone'
<1>1. /\ UNCHANGED <<index, worker, made, faults, attempts, copies, answered, overlapped>>
      /\ route.pc = "upload" /\ queue' = route.jobs /\ accepted' = accepted \cup route.new
      /\ route'.pc = "idle"
  BY DEF UploadRouteSaves, NoRoute, bounds
<1>2. worker.pc = "idle" /\ worker'.pc = "idle" /\ ~overlapped
  BY <1>1 DEF Alone
<1>3. QueueTallied'
  BY <1>1, <1>2 DEF Alone, RouteHolds, QueueTallied
<1>4. WorkerHolds' /\ RouteHolds'
  BY <1>1, <1>2 DEF WorkerHolds, RouteHolds
<1>5. UnmadeUnsent'
  BY <1>1 DEF Alone, UnmadeUnsent
<1>6. AcceptedKeptAlone'
  <2>1. JobsOf(queue') = JobsOf(route.jobs)
    BY <1>1
  <2>2. JobsOf(queue) \cup route.new \subseteq JobsOf(route.jobs)
    BY <1>1 DEF Alone, RouteHolds
  <2>3. faults = 0 => accepted \subseteq JobsOf(queue)
    BY <1>2 DEF Alone, PromisesKept, AcceptedKeptAlone, AcceptedKept
  <2>4. faults' = 0 => accepted' \subseteq JobsOf(queue')
    BY <1>1, <2>1, <2>2, <2>3
  <2>5. QED
    BY <2>4 DEF AcceptedKeptAlone, AcceptedKept
<1>7. OpsKept' /\ TransfersBounded'
  BY <1>1, <1>2 DEF Alone, PromisesKept, OpsKept, TransfersBounded
<1>8. QED
  BY <1>1, <1>3, <1>4, <1>5, <1>6, <1>7 DEF Alone, PromisesKept

LEMMA OpRouteSavesAlone ==
  ASSUME IInv, Alone, ~overlapped', OpRouteSaves
  PROVE  Alone'
<1>1. /\ UNCHANGED <<queue, worker, made, faults, accepted, attempts, copies, overlapped>>
      /\ route.pc = "op" /\ route'.pc = "idle" /\ index' = answered'
  BY DEF OpRouteSaves, NoRoute, bounds
<1>2. worker.pc = "idle" /\ worker'.pc = "idle" /\ ~overlapped
  BY <1>1 DEF Alone
<1>3. QueueTallied' /\ UnmadeUnsent'
  BY <1>1 DEF Alone, QueueTallied, UnmadeUnsent
<1>4. WorkerHolds' /\ RouteHolds'
  BY <1>1, <1>2 DEF WorkerHolds, RouteHolds
<1>5. OpsKept'
  BY <1>1 DEF OpsKept
<1>6. AcceptedKeptAlone' /\ TransfersBounded'
  BY <1>1, <1>2 DEF Alone, PromisesKept, AcceptedKeptAlone, AcceptedKept, TransfersBounded
<1>7. QED
  BY <1>1, <1>3, <1>4, <1>5, <1>6 DEF Alone, PromisesKept

\* A request that fails, or whose server goes, costs a fault.
LEMMA RouteGone ==
  ASSUME IInv, Alone, ~overlapped,
         UNCHANGED <<index, worker, made, accepted, attempts, copies, answered, overlapped>>,
         faults' = faults + 1, route'.pc = "idle",
         queue' = queue \/ (worker.pc = "idle" /\ queue' = <<>>)
  PROVE  Alone'
<1>1. faults \in Nat /\ faults' \in Nat /\ faults <= faults' /\ faults' # 0
  BY Held
<1>2. QueueTallied'
  <2>1. queue' \in {queue, <<>>} /\ UNCHANGED worker /\ UNCHANGED <<attempts, copies>>
    OBVIOUS
  <2>2. QueueTallied
    BY DEF Alone
  <2>3. QED
    BY <1>1, <2>1, <2>2, QueueLasts
<1>3. RouteHolds'
  BY DEF RouteHolds
<1>4. UnmadeUnsent'
  BY DEF Alone, UnmadeUnsent
<1>5. WorkerHolds'
  <2>1. CASE worker.pc = "idle"
    BY <2>1 DEF WorkerHolds
  <2>2. CASE worker.pc # "idle"
    <3>1. /\ worker.at \in DOMAIN queue /\ DOMAIN worker.jobs = DOMAIN queue
          /\ \A i \in DOMAIN queue :
               worker.jobs[i].n = queue[i].n /\ Tallied(worker.jobs[i], attempts, copies, faults)
          /\ worker.pc = "send" => worker.index = index
      BY <2>2 DEF Alone, WorkerHolds
    <3>2. queue' = queue /\ worker' = worker /\ attempts' = attempts /\ copies' = copies /\ index' = index
      BY <2>2
    <3>3. \A i \in DOMAIN queue : Tallied(worker.jobs[i], attempts, copies, faults')
      BY <1>1, <3>1, Held, TallyMore
    <3>4. QED
      BY <3>1, <3>2, <3>3 DEF WorkerHolds
  <2>3. QED
    BY <2>1, <2>2
<1>6. TransfersBounded'
  <2>1. TransfersBounded /\ UNCHANGED <<attempts, copies>>
    BY DEF Alone, PromisesKept
  <2>2. QED
    BY <1>1, <2>1, BoundsLast
<1>7. AcceptedKeptAlone' /\ OpsKept'
  BY <1>1 DEF Alone, PromisesKept, AcceptedKeptAlone, OpsKept
<1>8. QED
  BY <1>2, <1>3, <1>4, <1>5, <1>6, <1>7 DEF Alone, PromisesKept

LEMMA RouteGoneAlone ==
  ASSUME IInv, Alone, ~overlapped', RouteFails \/ ServerRestart
  PROVE  Alone'
<1>1. CASE RouteFails
  <2>1. /\ UNCHANGED <<index, worker, made, accepted, attempts, copies, answered, overlapped>>
        /\ faults' = faults + 1 /\ route'.pc = "idle" /\ route.pc # "idle"
        /\ queue' \in {queue, <<>>}
    BY <1>1 DEF RouteFails, Damaged, NoRoute, files, history
  <2>2. worker.pc = "idle"
    BY <2>1 DEF Alone
  <2>3. QED
    BY <2>1, <2>2, RouteGone
<1>2. CASE ServerRestart
  <2>1. /\ UNCHANGED <<queue, index, worker, made, accepted, attempts, copies, answered, overlapped>>
        /\ faults' = faults + 1 /\ route'.pc = "idle"
    BY <1>2 DEF ServerRestart, NoRoute, files, history
  <2>2. QED
    BY <2>1, RouteGone
<1>3. QED
  BY <1>1, <1>2
LEMMA StepReadsAlone ==
  ASSUME IInv, Alone, ~overlapped', NEW i \in DOMAIN queue, NEW readable \in BOOLEAN,
         StepReads(i, readable)
  PROVE  Alone'
<1>1. UNCHANGED <<queue, index, route, made, faults, accepted, attempts, copies, answered>>
  BY DEF StepReads, files, bounds
<1>2. ~overlapped /\ route.pc = "idle" /\ worker.pc = "idle"
  BY DEF StepReads
<1>3. \/ worker' = [pc |-> "send", jobs |-> queue, at |-> i, index |-> index]
      \/ worker' = [pc |-> "save", jobs |-> [queue EXCEPT ![i] = FailedJob(@)], at |-> i, index |-> index]
  BY DEF StepReads
<1>4. QueueTallied'
  <2>1. /\ QueueTallied /\ UNCHANGED <<attempts, copies>> /\ queue' \in {queue, <<>>}
        /\ faults' \in Nat /\ faults <= faults' /\ worker.pc # "save"
    BY <1>1, <1>2, Held DEF Alone
  <2>2. QED
    BY <2>1, QueueLasts
<1>5. WorkerHolds'
  <2>1. worker'.pc # "idle" /\ worker'.at = i /\ worker'.index = index
    BY <1>3
  <2>2. \A j \in DOMAIN queue : Tallied(queue[j], attempts, copies, faults)
    BY <1>2 DEF Alone, QueueTallied
  <2>3. DOMAIN worker'.jobs = DOMAIN queue
    BY <1>3, Held
  <2>4. ASSUME NEW j \in DOMAIN queue
        PROVE  worker'.jobs[j].n = queue[j].n /\ Tallied(worker'.jobs[j], attempts, copies, faults)
    <3>1. worker'.jobs[j] = queue[j] \/ worker'.jobs[j] = FailedJob(queue[j])
      BY <1>3, Held
    <3>2. CASE worker'.jobs[j] = queue[j]
      BY <2>2, <3>2
    <3>3. CASE worker'.jobs[j] = FailedJob(queue[j])
      <4>1. queue[j] \in Job
        BY Held
      <4>2. FailedJob(queue[j]).status = "failed" /\ FailedJob(queue[j]).n = queue[j].n
        BY <4>1 DEF FailedJob, Job
      <4>3. QED
        BY <3>3, <4>2 DEF Tallied, Waiting
    <3>4. QED
      BY <3>1, <3>2, <3>3
  <2>5. QED
    BY <1>1, <2>1, <2>3, <2>4 DEF WorkerHolds
<1>6. RouteHolds' /\ UnmadeUnsent'
  BY <1>1, <1>2 DEF Alone, RouteHolds, UnmadeUnsent
<1>7. PromisesKept'
  BY <1>1, <1>2 DEF Alone, PromisesKept, AcceptedKeptAlone, AcceptedKept, OpsKept, TransfersBounded
<1>8. QED
  BY <1>1, <1>2, <1>4, <1>5, <1>6, <1>7 DEF Alone

LEMMA StepSavesAlone ==
  ASSUME IInv, Alone, ~overlapped', StepSaves
  PROVE  Alone'
<1>1. /\ UNCHANGED <<index, route, made, accepted, attempts, copies, answered, overlapped>>
      /\ worker.pc = "save" /\ worker'.pc = "idle"
      /\ \/ queue' = worker.jobs /\ faults' = faults
         \/ faults' = faults + 1 /\ queue' \in {queue, <<>>}
  BY DEF StepSaves, NoStep, Damaged, history
<1>2. ~overlapped /\ route.pc = "idle"
  BY <1>1 DEF Alone
<1>3. faults \in Nat /\ faults' \in Nat /\ faults <= faults'
  BY <1>1, Held
<1>4. /\ DOMAIN worker.jobs = DOMAIN queue
      /\ \A i \in DOMAIN queue :
           worker.jobs[i].n = queue[i].n /\ Tallied(worker.jobs[i], attempts, copies, faults)
  BY <1>1 DEF Alone, WorkerHolds
<1>5. QueueTallied'
  <2>1. CASE queue' = worker.jobs /\ faults' = faults
    <3>1. Distinct(worker.jobs)
      BY <1>4 DEF Alone, QueueTallied, Distinct
    <3>2. QED
      BY <1>1, <1>4, <2>1, <3>1 DEF QueueTallied
  <2>2. CASE faults' = faults + 1 /\ queue' \in {queue, <<>>}
    <3>1. QueueTallied /\ UNCHANGED <<attempts, copies>> /\ worker'.pc # "save"
      BY <1>1 DEF Alone
    <3>2. QED
      BY <1>3, <2>2, <3>1, QueueLasts
  <2>3. QED
    BY <1>1, <2>1, <2>2
<1>6. WorkerHolds' /\ RouteHolds' /\ UnmadeUnsent'
  BY <1>1, <1>2 DEF Alone, WorkerHolds, RouteHolds, UnmadeUnsent
<1>7. AcceptedKeptAlone'
  <2>1. CASE queue' = worker.jobs /\ faults' = faults
    <3>1. JobsOf(worker.jobs) = JobsOf(queue)
      BY <1>4 DEF JobsOf
    <3>2. faults = 0 => accepted \subseteq JobsOf(queue)
      BY <1>2 DEF Alone, PromisesKept, AcceptedKeptAlone, AcceptedKept
    <3>3. JobsOf(queue') = JobsOf(worker.jobs)
      BY <2>1
    <3>4. faults' = 0 => accepted' \subseteq JobsOf(queue')
      BY <1>1, <2>1, <3>1, <3>2, <3>3
    <3>5. QED
      BY <3>4 DEF AcceptedKeptAlone, AcceptedKept
  <2>2. CASE faults' = faults + 1 /\ queue' \in {queue, <<>>}
    <3>1. faults' # 0
      BY <1>3, <2>2
    <3>2. QED
      BY <3>1 DEF AcceptedKeptAlone
  <2>3. QED
    BY <1>1, <2>1, <2>2
<1>8. OpsKept'
  BY <1>1, <1>2 DEF Alone, PromisesKept, OpsKept
<1>9. TransfersBounded'
  <2>1. TransfersBounded /\ UNCHANGED <<attempts, copies>>
    BY <1>1 DEF Alone, PromisesKept
  <2>2. QED
    BY <1>2, <1>3, <2>1, BoundsLast
<1>10. QED
  BY <1>1, <1>5, <1>6, <1>7, <1>8, <1>9 DEF Alone, PromisesKept
\* A transfer counts for one job that was made, and at most once.
LEMMA OneTransfer ==
  ASSUME IInv, NEW n \in 1..MaxJobs,
         attempts' = attempts \/ attempts' = [attempts EXCEPT ![n] = @ + 1],
         copies' = copies \/ copies' = [copies EXCEPT ![n] = @ + 1]
  PROVE  /\ attempts' \in [1..MaxJobs -> Nat] /\ copies' \in [1..MaxJobs -> Nat]
         /\ \A m \in 1..MaxJobs : attempts'[m] <= attempts[m] + 1 /\ copies'[m] <= copies[m] + 1
         /\ \A m \in (1..MaxJobs) \ {n} : attempts'[m] = attempts[m] /\ copies'[m] = copies[m]
<1>1. attempts \in [1..MaxJobs -> Nat] /\ copies \in [1..MaxJobs -> Nat]
  BY Held
<1>2. attempts[n] \in Nat /\ copies[n] \in Nat
  BY <1>1
<1>3. attempts' \in [1..MaxJobs -> Nat] /\ copies' \in [1..MaxJobs -> Nat]
  BY <1>1, <1>2
<1>4. \A m \in 1..MaxJobs : attempts'[m] <= attempts[m] + 1
  <2>1. \A m \in 1..MaxJobs : attempts[m] \in Nat /\ (attempts'[m] = attempts[m] \/ attempts'[m] = attempts[m] + 1)
    BY <1>1
  <2>2. QED
    BY <2>1
<1>5. \A m \in 1..MaxJobs : copies'[m] <= copies[m] + 1
  <2>1. \A m \in 1..MaxJobs : copies[m] \in Nat /\ (copies'[m] = copies[m] \/ copies'[m] = copies[m] + 1)
    BY <1>1
  <2>2. QED
    BY <2>1
<1>6. \A m \in (1..MaxJobs) \ {n} : attempts'[m] = attempts[m] /\ copies'[m] = copies[m]
  BY <1>1
<1>7. QED
  BY <1>3, <1>4, <1>5, <1>6

LEMMA WorkerCrashAlone ==
  ASSUME IInv, Alone, ~overlapped', WorkerCrash
  PROVE  Alone'
<1>1. /\ UNCHANGED <<queue, index, route, made, accepted, answered, overlapped>>
      /\ worker'.pc = "idle" /\ faults' = faults + 1
  BY DEF WorkerCrash, NoStep, files
<1>2. faults \in Nat /\ faults' \in Nat /\ faults <= faults' /\ faults' # 0
  BY <1>1, Held
<1>3. WorkerHolds'
  BY <1>1 DEF WorkerHolds
<1>4. AcceptedKeptAlone' /\ OpsKept'
  BY <1>1, <1>2 DEF Alone, PromisesKept, AcceptedKeptAlone, OpsKept
<1>5. CASE UNCHANGED <<attempts, copies>>
  <2>1. QueueTallied'
    <3>1. QueueTallied /\ queue' \in {queue, <<>>} /\ worker'.pc # "save"
      BY <1>1 DEF Alone
    <3>2. QED
      BY <1>1, <1>2, <1>5, <3>1, QueueLasts
  <2>2. RouteHolds'
    <3>1. \A i \in DOMAIN route.jobs :
            Tallied(route.jobs[i], attempts, copies, faults) => Tallied(route.jobs[i], attempts, copies, faults')
      BY <1>2, Held, TallyMore
    <3>2. QED
      BY <1>1, <1>5, <3>1 DEF Alone, RouteHolds
  <2>3. TransfersBounded'
    <3>1. TransfersBounded
      BY DEF Alone, PromisesKept
    <3>2. QED
      BY <1>1, <1>2, <1>5, <3>1, BoundsLast
  <2>4. UnmadeUnsent'
    BY <1>1, <1>5 DEF Alone, UnmadeUnsent
  <2>5. QED
    BY <1>1, <1>3, <1>4, <2>1, <2>2, <2>3, <2>4 DEF Alone, PromisesKept
<1>6. CASE ~UNCHANGED <<attempts, copies>>
  <2>1. PICK n \in DOMAIN made :
          /\ worker.pc = "send"
          /\ attempts' = [attempts EXCEPT ![n] = @ + 1]
          /\ copies' = copies \/ copies' = [copies EXCEPT ![n] = @ + 1]
    <3>1. worker.pc = "send" /\ worker.at \in DOMAIN worker.jobs
      BY <1>6 DEF WorkerCrash, IInv, SendOK
    <3>2. worker.jobs[worker.at].n \in DOMAIN made
      BY <3>1, Held
    <3>3. QED
      BY <1>6, <3>1, <3>2 DEF WorkerCrash
  <2>2. n \in 1..MaxJobs
    BY Held
  <2>3. /\ attempts' \in [1..MaxJobs -> Nat] /\ copies' \in [1..MaxJobs -> Nat]
        /\ \A m \in 1..MaxJobs : attempts'[m] <= attempts[m] + 1 /\ copies'[m] <= copies[m] + 1
        /\ \A m \in (1..MaxJobs) \ {n} : attempts'[m] = attempts[m] /\ copies'[m] = copies[m]
    BY <2>1, <2>2, OneTransfer
  <2>4. QueueTallied'
    <3>1. Distinct(queue) /\ \A i \in DOMAIN queue : Tallied(queue[i], attempts, copies, faults)
      BY <2>1 DEF Alone, QueueTallied
    <3>2. ASSUME NEW i \in DOMAIN queue PROVE Tallied(queue[i], attempts', copies', faults + 1)
      <4>1. queue[i] \in Job /\ attempts \in [1..MaxJobs -> Nat] /\ copies \in [1..MaxJobs -> Nat]
        BY Held
      <4>2. QED
        BY <1>2, <2>3, <3>1, <4>1, TallySent
    <3>3. QED
      BY <1>1, <3>1, <3>2 DEF QueueTallied
  <2>5. RouteHolds'
    BY <1>1, <2>1 DEF Alone, RouteHolds
  <2>6. UnmadeUnsent'
    BY <1>1, <2>3 DEF Alone, UnmadeUnsent
  <2>7. TransfersBounded'
    <3>1. \A m \in 1..MaxJobs : attempts[m] <= MaxAttempts + faults /\ copies[m] <= 1 + faults
      BY <1>1 DEF Alone, PromisesKept, TransfersBounded
    <3>2. \A m \in 1..MaxJobs : attempts[m] \in Nat /\ copies[m] \in Nat /\ attempts'[m] \in Nat /\ copies'[m] \in Nat
      BY <2>3, Held
    <3>3. MaxAttempts \in Nat
      BY Constants
    <3>4. \A m \in 1..MaxJobs : attempts'[m] <= MaxAttempts + (faults + 1) /\ copies'[m] <= 1 + (faults + 1)
      BY <1>2, <2>3, <3>1, <3>2, <3>3
    <3>5. QED
      BY <1>1, <3>4 DEF TransfersBounded
  <2>8. QED
    BY <1>1, <1>3, <1>4, <2>4, <2>5, <2>6, <2>7 DEF Alone, PromisesKept
<1>7. QED
  BY <1>5, <1>6

LEMMA StepSendsAlone ==
  ASSUME IInv, Alone, ~overlapped', NEW result \in {"ok", "transient", "terminal"}, StepSends(result)
  PROVE  Alone'
<1>1. PICK at, job :
        /\ at = worker.at /\ job = worker.jobs[at]
        /\ at \in DOMAIN worker.jobs /\ job \in Job /\ job.n \in DOMAIN made /\ job.n \in 1..MaxJobs
        /\ job.status = "queued" /\ job.retries < MaxAttempts /\ job.file \in Files
  <2>1. worker.at \in DOMAIN worker.jobs /\ worker.jobs[worker.at].status = "queued"
    BY DEF StepSends, IInv, SendOK
  <2>2. JobOK(worker.jobs[worker.at], made, copies)
    BY <2>1 DEF IInv, ListOK
  <2>3. worker.jobs[worker.at] \in Job /\ worker.jobs[worker.at].n \in DOMAIN made
    BY <2>1, Held
  <2>4. worker.jobs[worker.at].n \in 1..MaxJobs /\ worker.jobs[worker.at].file \in Files
    BY <2>3 DEF Job
  <2>5. QED
    BY <2>1, <2>2, <2>3, <2>4 DEF JobOK
<1>2. /\ UNCHANGED <<queue, route, made, accepted, answered, overlapped>>
      /\ worker.pc = "send"
      /\ attempts' = attempts \/ attempts' = [attempts EXCEPT ![job.n] = @ + 1]
      /\ copies' = (IF result = "ok" THEN [copies EXCEPT ![job.n] = @ + 1] ELSE copies)
      /\ faults' = faults \/ faults' = faults + 1
      /\ index' = index \/ index' = Marked(worker.index, job.file, result)
  BY <1>1 DEF StepSends
<1>3. /\ worker'.pc = "save" /\ worker'.at = at
      /\ worker'.jobs = [worker.jobs EXCEPT ![at] = AfterAttempt(job, result)]
  <2>1. worker \in [pc : {"idle", "send", "save"}, jobs : Seq(Job), at : 0..MaxJobs, index : [Files -> Entry]]
    BY DEF IInv, TypeOK
  <2>2. worker' = [worker EXCEPT !.pc = "save", !.jobs[at] = AfterAttempt(job, result)]
    BY <1>1 DEF StepSends
  <2>3. QED
    BY <1>1, <2>1, <2>2
<1>4. ~overlapped /\ route.pc = "idle"
  BY <1>2 DEF Alone
<1>5. faults \in Nat /\ faults' \in Nat /\ faults <= faults'
  BY <1>2, Held, SMTT(60)
<1>6. /\ attempts \in [1..MaxJobs -> Nat] /\ copies \in [1..MaxJobs -> Nat]
      /\ attempts' \in [1..MaxJobs -> Nat] /\ copies' \in [1..MaxJobs -> Nat]
      /\ \A m \in 1..MaxJobs : attempts'[m] <= attempts[m] + 1 /\ copies'[m] <= copies[m] + 1
      /\ \A m \in (1..MaxJobs) \ {job.n} : attempts'[m] = attempts[m] /\ copies'[m] = copies[m]
  BY <1>1, <1>2, OneTransfer, Held, ZenonT(60)
<1>7. /\ at \in DOMAIN queue /\ DOMAIN worker.jobs = DOMAIN queue
      /\ \A i \in DOMAIN queue :
           worker.jobs[i].n = queue[i].n /\ Tallied(worker.jobs[i], attempts, copies, faults)
      /\ worker.index = index
      /\ Distinct(queue) /\ \A i \in DOMAIN queue : Tallied(queue[i], attempts, copies, faults)
  BY <1>1, <1>2 DEF Alone, WorkerHolds, QueueTallied
<1>8. \A i \in DOMAIN queue : i # at => queue[i].n \in (1..MaxJobs) \ {job.n}
  <2>1. \A i \in DOMAIN queue : queue[i].n \in 1..MaxJobs
    BY Held
  <2>2. job.n = queue[at].n
    BY <1>1, <1>7
  <2>3. QED
    BY <1>7, <2>1, <2>2 DEF Distinct
<1>9. attempts[job.n] <= job.retries + faults /\ copies[job.n] <= faults
  BY <1>1, <1>7 DEF Tallied, Waiting
<1>10. QueueTallied'
  <2>1. ASSUME NEW i \in DOMAIN queue, i # at
        PROVE  Tallied(queue[i], attempts', copies', faults')
    <3>1. queue[i] \in Job
      BY Held
    <3>2. Tallied(queue[i], attempts', copies', faults)
      <4>1. attempts'[queue[i].n] = attempts[queue[i].n] /\ copies'[queue[i].n] = copies[queue[i].n]
        BY <1>6, <1>8, <2>1
      <4>2. Tallied(queue[i], attempts, copies, faults)
        BY <1>7
      <4>3. QED
        BY <3>1, <4>1, <4>2, TallyApart
    <3>3. QED
      BY <1>5, <1>6, <3>1, <3>2, TallyMore
  <2>2. Tallied(queue[at], attempts', copies', faults' + 1)
    <3>1. queue[at] \in Job
      BY <1>7, Held
    <3>2. Tallied(queue[at], attempts', copies', faults + 1)
      BY <1>5, <1>6, <1>7, <3>1, TallySent
    <3>3. faults + 1 \in Nat /\ faults' + 1 \in Nat /\ faults + 1 <= faults' + 1
      BY <1>5, OneMore
    <3>4. QED
      BY <1>6, <3>1, <3>2, <3>3, TallyMore
  <2>3. QED
    BY <1>2, <1>3, <1>7, <2>1, <2>2 DEF QueueTallied
<1>11. WorkerHolds'
  <2>1. DOMAIN worker'.jobs = DOMAIN queue
    BY <1>3, <1>7, Held
  <2>2. ASSUME NEW i \in DOMAIN queue, i # at
        PROVE  worker'.jobs[i].n = queue[i].n /\ Tallied(worker'.jobs[i], attempts', copies', faults')
    <3>1. worker'.jobs[i] = worker.jobs[i] /\ worker.jobs[i] \in Job
      BY <1>3, <1>7, <2>2, Held
    <3>2. worker.jobs[i].n = queue[i].n /\ Tallied(worker.jobs[i], attempts, copies, faults)
      BY <1>7
    <3>3. Tallied(worker.jobs[i], attempts', copies', faults)
      <4>1. attempts'[queue[i].n] = attempts[queue[i].n] /\ copies'[queue[i].n] = copies[queue[i].n]
        BY <1>6, <1>8, <2>2
      <4>2. QED
        BY <3>1, <3>2, <4>1, TallyApart
    <3>4. Tallied(worker.jobs[i], attempts', copies', faults')
      BY <1>5, <1>6, <3>1, <3>3, TallyMore
    <3>5. QED
      BY <3>1, <3>2, <3>4
  <2>3. worker'.jobs[at].n = queue[at].n /\ Tallied(worker'.jobs[at], attempts', copies', faults')
    <3>1. worker'.jobs[at] = AfterAttempt(job, result)
      BY <1>1, <1>3, Held
    <3>2. AfterAttempt(job, result).n = job.n
      BY <1>1 DEF AfterAttempt, FailedJob, Job
    <3>3. Waiting(AfterAttempt(job, result)) =>
            result = "transient" /\ AfterAttempt(job, result).retries = job.retries + 1
      BY <1>1 DEF AfterAttempt, FailedJob, Waiting, Job
    <3>4. ASSUME result = "transient"
          PROVE  attempts'[job.n] <= (job.retries + 1) + faults' /\ copies'[job.n] <= faults'
      <4>1. job.retries \in Nat /\ attempts[job.n] \in Nat /\ attempts'[job.n] \in Nat /\ copies[job.n] \in Nat
        BY <1>1, <1>6, Constants DEF Job
      <4>2. copies' = copies /\ attempts'[job.n] <= attempts[job.n] + 1
        BY <1>1, <1>2, <1>6, <3>4
      <4>3. QED
        BY <1>5, <1>9, <4>1, <4>2
    <3>5. Tallied(AfterAttempt(job, result), attempts', copies', faults')
      BY <3>2, <3>3, <3>4 DEF Tallied
    <3>6. QED
      BY <1>1, <1>7, <3>1, <3>2, <3>5
  <2>4. QED
    BY <1>2, <1>3, <1>7, <2>1, <2>2, <2>3 DEF WorkerHolds
<1>12. RouteHolds' /\ UnmadeUnsent'
  <2>1. RouteHolds'
    BY <1>2, <1>4, SMTT(60) DEF RouteHolds
  <2>2. UnmadeUnsent'
    BY <1>1, <1>2, <1>6 DEF Alone, UnmadeUnsent
  <2>3. QED
    BY <2>1, <2>2
<1>13. AcceptedKeptAlone'
  BY <1>2, <1>4, <1>5 DEF Alone, PromisesKept, AcceptedKeptAlone, AcceptedKept
<1>14. OpsKept'
  <2>1. \A f \in Files : index[f].moves = answered[f].moves /\ index[f].trashed = answered[f].trashed
    BY <1>4 DEF Alone, PromisesKept, OpsKept
  <2>2. \A f \in Files : index'[f].moves = index[f].moves /\ index'[f].trashed = index[f].trashed
    <3>1. index \in [Files -> Entry]
      BY DEF IInv, TypeOK
    <3>2. ASSUME NEW f \in Files
          PROVE  /\ [index EXCEPT ![job.file].gofile = "uploaded"][f].moves = index[f].moves
                 /\ [index EXCEPT ![job.file].gofile = "uploaded"][f].trashed = index[f].trashed
      BY <1>1, <3>1 DEF Entry
    <3>3. index' = index \/ index' = [index EXCEPT ![job.file].gofile = "uploaded"]
      BY <1>2, <1>7 DEF Marked
    <3>4. QED
      BY <3>2, <3>3
  <2>3. QED
    BY <1>2, <2>1, <2>2 DEF OpsKept
<1>15. TransfersBounded'
  <2>1. ASSUME NEW m \in 1..MaxJobs
        PROVE  attempts'[m] <= MaxAttempts + faults' /\ copies'[m] <= 1 + faults'
    <3>1. attempts[m] \in Nat /\ copies[m] \in Nat /\ attempts'[m] \in Nat /\ copies'[m] \in Nat
      BY <1>6
    <3>2. MaxAttempts \in Nat
      BY Constants
    <3>3. CASE m = job.n
      <4>1. job.retries \in Nat
        BY <1>1, Constants DEF Job
      <4>2. attempts'[m] <= attempts[m] + 1 /\ copies'[m] <= copies[m] + 1
        BY <1>6
      <4>3. attempts[m] <= job.retries + faults /\ copies[m] <= faults /\ job.retries + 1 <= MaxAttempts
        BY <1>1, <1>9, <3>2, <3>3, <4>1
      <4>4. QED
        BY <1>5, <3>1, <3>2, <4>1, <4>2, <4>3
    <3>4. CASE m # job.n
      <4>1. attempts'[m] = attempts[m] /\ copies'[m] = copies[m]
        BY <1>6, <3>4
      <4>2. attempts[m] <= MaxAttempts + faults /\ copies[m] <= 1 + faults
        BY <1>4 DEF Alone, PromisesKept, TransfersBounded
      <4>3. QED
        BY <1>5, <3>1, <3>2, <4>1, <4>2
    <3>5. QED
      BY <3>3, <3>4
  <2>2. QED
    BY <2>1 DEF TransfersBounded
<1>16. QED
  BY <1>2, <1>4, <1>10, <1>11, <1>12, <1>13, <1>14, <1>15 DEF Alone, PromisesKept
LEMMA UploadRouteReadsAlone ==
  ASSUME IInv, Alone, ~overlapped', NEW fs \in SUBSET Files, UploadRouteReads(fs)
  PROVE  Alone'
<1> DEFINE order == SetToSeq(fs)
           jobs == [i \in DOMAIN order |-> NewFxUploadJob(Len(made) + i, order[i], index)]
<1>1. order \in Seq(Files) /\ Len(order) \in Nat /\ Len(order) = Cardinality(fs)
  <2>1. IsFiniteSet(fs)
    BY FS_Subset, FxAssumption
  <2>2. order \in Seq(fs) /\ Len(order) = Cardinality(fs)
    BY <2>1, SetToSeqLists
  <2>3. order \in Seq(Files)
    BY <2>2, SeqMonotonic
  <2>4. QED
    BY <2>2, <2>3
<1>2. /\ UNCHANGED <<queue, index, worker, faults, accepted, attempts, copies, answered>>
      /\ made' = made \o order /\ Len(made) + Len(order) <= MaxJobs
  BY <1>1 DEF UploadRouteReads, files
<1>3. ~overlapped /\ worker.pc = "idle" /\ worker'.pc = "idle"
  BY <1>2 DEF UploadRouteReads, Begun
<1>4. /\ jobs \in Seq(Job) /\ Len(jobs) = Len(order) /\ DOMAIN jobs = 1..Len(order)
      /\ \A i \in 1..Len(order) : jobs[i].n = Len(made) + i
  BY <1>1, <1>2, NewJobs, Held
<1>5. \A i \in 1..Len(order) : jobs[i].status = "queued" /\ jobs[i].retries = 0
  BY <1>4 DEF NewFxUploadJob
<1>6. /\ route'.pc = "upload" /\ route'.jobs = queue \o jobs
      /\ route'.new = {jobs[i].n : i \in DOMAIN jobs}
  BY DEF UploadRouteReads, NoRoute, WithJobs
<1>. HIDE DEF jobs, order
<1>7. /\ made \in Seq(Files) /\ Len(made) \in Nat /\ DOMAIN made = 1..Len(made)
      /\ queue \in Seq(Job) /\ Len(queue) \in Nat /\ DOMAIN queue = 1..Len(queue)
      /\ faults \in Nat
      /\ \A i \in DOMAIN queue : queue[i].n \in 1..Len(made)
  <2>1. made \in Seq(Files) /\ queue \in Seq(Job)
    BY DEF IInv, TypeOK
  <2>2. QED
    BY <2>1, Held
<1>8. /\ DOMAIN (queue \o jobs) = 1..(Len(queue) + Len(order))
      /\ \A i \in 1..Len(queue) : (queue \o jobs)[i] = queue[i]
      /\ \A i \in 1..Len(order) : (queue \o jobs)[Len(queue) + i] = jobs[i]
  <2>1. /\ queue \o jobs \in Seq(Job) /\ Len(queue \o jobs) = Len(queue) + Len(jobs)
        /\ \A i \in 1..(Len(queue) + Len(jobs)) :
             (queue \o jobs)[i] = IF i <= Len(queue) THEN queue[i] ELSE jobs[i - Len(queue)]
    BY <1>4, <1>7, ConcatProperties, ZenonT(60)
  <2>2. DOMAIN (queue \o jobs) = 1..(Len(queue) + Len(order))
    BY <1>1, <1>4, <1>7, <2>1
  <2>3. ASSUME NEW i \in 1..Len(queue)
        PROVE  (queue \o jobs)[i] = queue[i]
    <3>1. i \in 1..(Len(queue) + Len(jobs)) /\ i <= Len(queue)
      BY <1>1, <1>4, <1>7
    <3>2. QED
      BY <2>1, <3>1
  <2>4. ASSUME NEW i \in 1..Len(order)
        PROVE  (queue \o jobs)[Len(queue) + i] = jobs[i]
    <3>1. /\ Len(queue) + i \in 1..(Len(queue) + Len(jobs)) /\ ~(Len(queue) + i <= Len(queue))
          /\ (Len(queue) + i) - Len(queue) = i
      BY <1>1, <1>4, <1>7
    <3>2. QED
      BY <2>1, <3>1
  <2>5. QED
    BY <2>2, <2>3, <2>4
\* Each job of the copy is one of the file's or a new one.
<1>9. ASSUME NEW i \in DOMAIN (queue \o jobs)
      PROVE  \/ i \in 1..Len(queue) /\ (queue \o jobs)[i] = queue[i] /\ (queue \o jobs)[i].n <= Len(made)
             \/ \E j \in 1..Len(order) :
                  i = Len(queue) + j /\ (queue \o jobs)[i] = jobs[j] /\ (queue \o jobs)[i].n = Len(made) + j
  <2>1. CASE i <= Len(queue)
    <3>1. i \in 1..Len(queue) /\ (queue \o jobs)[i] = queue[i]
      BY <1>1, <1>7, <1>8, <2>1
    <3>2. queue[i].n \in 1..Len(made)
      BY <1>7, <3>1
    <3>3. QED
      BY <1>7, <3>1, <3>2
  <2>2. CASE ~(i <= Len(queue))
    <3>1. i - Len(queue) \in 1..Len(order) /\ i = Len(queue) + (i - Len(queue))
      BY <1>1, <1>7, <1>8, <2>2
    <3>2. QED
      BY <1>4, <1>8, <3>1
  <2>3. QED
    BY <2>1, <2>2
<1>10. RouteHolds'
  <2>1. Distinct(queue \o jobs)
    <3>1. ASSUME NEW i \in DOMAIN (queue \o jobs), NEW k \in DOMAIN (queue \o jobs),
                 (queue \o jobs)[i].n = (queue \o jobs)[k].n
          PROVE  i = k
      <4>1. CASE i \in 1..Len(queue) /\ k \in 1..Len(queue)
        <5>1. (queue \o jobs)[i] = queue[i] /\ (queue \o jobs)[k] = queue[k]
          BY <1>8, <4>1
        <5>2. QED
          BY <1>7, <3>1, <4>1, <5>1 DEF Alone, QueueTallied, Distinct
      <4>2. CASE ~(i \in 1..Len(queue)) \/ ~(k \in 1..Len(queue))
        <5>1. \/ (queue \o jobs)[i].n \in 1..Len(made) /\ i \in 1..Len(queue)
              \/ \E j \in 1..Len(order) : i = Len(queue) + j /\ (queue \o jobs)[i].n = Len(made) + j
          BY <1>7, <1>8, <1>9
        <5>2. \/ (queue \o jobs)[k].n \in 1..Len(made) /\ k \in 1..Len(queue)
              \/ \E j \in 1..Len(order) : k = Len(queue) + j /\ (queue \o jobs)[k].n = Len(made) + j
          BY <1>7, <1>8, <1>9
        <5>3. QED
          BY <1>1, <1>7, <3>1, <4>2, <5>1, <5>2, SMTT(60)
      <4>3. QED
        BY <4>1, <4>2
    <3>2. QED
      BY <3>1 DEF Distinct
  <2>2. JobsOf(queue) \cup route'.new \subseteq JobsOf(queue \o jobs)
    <3>1. ASSUME NEW i \in DOMAIN queue PROVE queue[i].n \in JobsOf(queue \o jobs)
      <4>1. i \in DOMAIN (queue \o jobs) /\ (queue \o jobs)[i] = queue[i]
        BY <1>1, <1>7, <1>8
      <4>2. QED
        BY <4>1 DEF JobsOf
    <3>2. ASSUME NEW i \in DOMAIN jobs PROVE jobs[i].n \in JobsOf(queue \o jobs)
      <4>1. Len(queue) + i \in DOMAIN (queue \o jobs) /\ (queue \o jobs)[Len(queue) + i] = jobs[i]
        BY <1>1, <1>4, <1>7, <1>8
      <4>2. QED
        BY <4>1 DEF JobsOf
    <3>3. QED
      BY <1>6, <3>1, <3>2 DEF JobsOf
  <2>3. ASSUME NEW i \in DOMAIN (queue \o jobs)
        PROVE  Tallied((queue \o jobs)[i], attempts, copies, faults)
    <3>1. CASE i \in 1..Len(queue)
      <4>1. Tallied(queue[i], attempts, copies, faults)
        BY <1>3, <1>7, <3>1 DEF Alone, QueueTallied
      <4>2. QED
        BY <1>8, <3>1, <4>1
    <3>2. CASE ~(i \in 1..Len(queue))
      <4>1. PICK j \in 1..Len(order) : (queue \o jobs)[i] = jobs[j]
        BY <1>9, <3>2
      <4>2. jobs[j].n \in (1..MaxJobs) \ DOMAIN made
        <5>1. Len(made) + j \in 1..MaxJobs /\ ~(Len(made) + j <= Len(made))
          BY <1>1, <1>2, <1>7, Constants
        <5>2. jobs[j].n = Len(made) + j
          BY <1>4
        <5>3. QED
          BY <1>7, <5>1, <5>2
      <4>3. attempts[jobs[j].n] = 0 /\ copies[jobs[j].n] = 0
        BY <4>2 DEF Alone, UnmadeUnsent
      <4>4. Tallied(jobs[j], attempts, copies, faults)
        BY <1>5, <1>7, <4>3 DEF Tallied
      <4>5. QED
        BY <4>1, <4>4
    <3>3. QED
      BY <3>1, <3>2
  <2>4. QED
    BY <1>2, <1>6, <2>1, <2>2, <2>3 DEF RouteHolds
<1>11. QueueTallied' /\ WorkerHolds'
  BY <1>2, <1>3 DEF Alone, QueueTallied, WorkerHolds
<1>12. UnmadeUnsent'
  <2>1. DOMAIN made \subseteq DOMAIN made'
    <3>1. Len(made \o order) = Len(made) + Len(order) /\ DOMAIN (made \o order) = 1..(Len(made) + Len(order))
      <4>1. made \o order \in Seq(Files) /\ Len(made \o order) = Len(made) + Len(order)
        BY <1>1, <1>7, ConcatProperties, Zenon
      <4>2. QED
        BY <4>1
    <3>2. QED
      BY <1>1, <1>2, <1>7, <3>1
  <2>2. QED
    BY <1>2, <2>1 DEF Alone, UnmadeUnsent
<1>13. PromisesKept'
  BY <1>2, <1>3 DEF Alone, PromisesKept, AcceptedKeptAlone, AcceptedKept, OpsKept, TransfersBounded
<1>14. QED
  BY <1>3, <1>10, <1>11, <1>12, <1>13 DEF Alone

LEMMA InitAlone == Init => Alone
<1> SUFFICES ASSUME Init PROVE Alone
  OBVIOUS
<1>1. /\ queue = <<>> /\ DOMAIN queue = {} /\ route.pc = "idle" /\ worker.pc = "idle"
      /\ accepted = {} /\ index = Fresh /\ answered = Fresh /\ faults = 0
      /\ \A n \in 1..MaxJobs : attempts[n] = 0 /\ copies[n] = 0
  BY DEF Init, NoRoute, NoStep
<1>2. QueueTallied /\ RouteHolds /\ WorkerHolds /\ UnmadeUnsent
  BY <1>1 DEF QueueTallied, Distinct, RouteHolds, WorkerHolds, UnmadeUnsent
<1>3. TransfersBounded
  BY <1>1, Constants DEF TransfersBounded
<1>4. AcceptedKeptAlone /\ OpsKept
  BY <1>1 DEF AcceptedKeptAlone, AcceptedKept, OpsKept
<1>5. QED
  BY <1>1, <1>2, <1>3, <1>4 DEF Alone, PromisesKept

LEMMA NextAlone == IInv /\ AloneInv /\ [Next]_vars => AloneInv'
<1> SUFFICES ASSUME IInv, AloneInv, [Next]_vars, ~overlapped' PROVE Alone'
  BY DEF AloneInv
<1>1. ~overlapped
  <2>1. ASSUME Next PROVE overlapped' = overlapped \/ overlapped' = (overlapped \/ worker.pc # "idle")
                          \/ overlapped' = (overlapped \/ route.pc # "idle")
    BY <2>1, ZenonT(60) DEF Next, UploadStep, UploadRouteReads, UploadRouteSaves, OpRouteReads, OpRouteSaves, RouteFails,
         ServerRestart, StepReads, StepSends, StepSaves, WorkerCrash, Begun, history
  <2>2. CASE UNCHANGED vars
    BY <2>2 DEF vars, history
  <2>3. QED
    BY <2>1, <2>2
<1>2. Alone
  BY <1>1 DEF AloneInv
<1>3. ASSUME NEW fs \in SUBSET Files, UploadRouteReads(fs) PROVE Alone'
  BY <1>2, <1>3, UploadRouteReadsAlone
<1>4. CASE UploadRouteSaves
  BY <1>2, <1>4, UploadRouteSavesAlone
<1>5. ASSUME NEW op \in {"trash", "restore", "move"}, NEW f \in Files, OpRouteReads(op, f) PROVE Alone'
  BY <1>2, <1>5, OpRouteReadsAlone
<1>6. CASE OpRouteSaves
  BY <1>2, <1>6, OpRouteSavesAlone
<1>7. CASE RouteFails \/ ServerRestart
  BY <1>2, <1>7, RouteGoneAlone
<1>8. ASSUME NEW i \in DOMAIN queue, NEW readable \in BOOLEAN, StepReads(i, readable) PROVE Alone'
  BY <1>2, <1>8, StepReadsAlone
<1>9. ASSUME NEW result \in {"ok", "transient", "terminal"}, StepSends(result) PROVE Alone'
  BY <1>2, <1>9, StepSendsAlone
<1>10. CASE StepSaves
  BY <1>2, <1>10, StepSavesAlone
<1>11. CASE WorkerCrash
  BY <1>2, <1>11, WorkerCrashAlone
<1>12. CASE UNCHANGED vars
  <2>1. UNCHANGED <<queue, index, route, worker, made, faults, accepted, attempts, copies, answered, overlapped>>
    BY <1>12 DEF vars, files, bounds, history
  <2>2. QueueTallied' /\ RouteHolds' /\ WorkerHolds' /\ UnmadeUnsent'
    BY <1>2, <2>1 DEF Alone, QueueTallied, RouteHolds, WorkerHolds, UnmadeUnsent
  <2>3. PromisesKept'
    BY <1>2, <2>1 DEF Alone, PromisesKept, AcceptedKeptAlone, AcceptedKept, OpsKept, TransfersBounded
  <2>4. QED
    BY <1>2, <2>1, <2>2, <2>3 DEF Alone
<1>13. QED
  BY <1>3, <1>4, <1>5, <1>6, <1>7, <1>8, <1>9, <1>10, <1>11, <1>12 DEF Next, UploadStep

\* As long as the worker's step and a request have not overlapped, no accepted
\* job is lost unless a write failed, answered operations stay in the index,
\* and no job is sent more often than its retries and the faults allow:
\* for any number of files, jobs, operations, retries, crashes and restarts.
THEOREM PromisesHold == Spec => []PromisesKept
<1>1. Init => IInv /\ AloneInv
  BY InitIInv, InitAlone DEF AloneInv
<1>2. IInv /\ AloneInv /\ [Next]_vars => IInv' /\ AloneInv'
  BY NextIInv, NextAlone
<1>3. AloneInv => PromisesKept
  BY DEF AloneInv, Alone, PromisesKept, AcceptedKeptAlone, OpsKept, TransfersBounded
<1>4. QED
  BY <1>1, <1>2, <1>3, PTL DEF Spec
=============================================================================
