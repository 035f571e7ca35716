------------------------------ MODULE LivePatch ------------------------------
(***************************************************************************)
(* The Live Patch channel: src/lib/livePatch/channel.ts with the decisions *)
(* of patchCore.js, the IndexedDB audit log of audit.ts and the toggle map *)
(* of featureToggles.ts.                                                   *)
(*                                                                         *)
(* A patch frame that arrives while the channel is armed waits for its     *)
(* signature check and is then decided, applied and logged in one step;    *)
(* the durable copy of the log entry is written later.  Settings loads the *)
(* durable log when its panel mounts, and rolls patches back with one      *)
(* click, which reloads the page.  Arrivals, checks, writes, the panel,    *)
(* the operator's own switches and reloads interleave.                     *)
(*                                                                         *)
(* A delivery is numbered; the number stands for its row's seenAt.  A      *)
(* patch id has one content, the feature it names and the value it sets.   *)
(* Writing a row and trimming the durable log are two transactions in the  *)
(* code and one step here: nothing between them reads the log untrimmed,   *)
(* and an interrupted trim is made up for by the next write.               *)
(***************************************************************************)
EXTENDS Naturals, Sequences, FiniteSets, SequencesExt

CONSTANTS
  Features,         \* sections with a toggle
  Patches,          \* patch ids
  Feature,          \* Feature[p]: the section patch p names
  Value,            \* Value[p]: "off" or "on"
  MaxRowsKept,      \* PATCH_AUDIT_MAX_ROWS
  MaxDeliveries,    \* bound: patch frames delivered
  MaxRollbacks,     \* bound: rollbacks
  MaxOperator,      \* bound: changes of the operator's own switches
  MaxReloads,       \* bound: page reloads
  StorageMayFail    \* an IndexedDB write may fail

ASSUME LivePatchAssumption ==
  /\ Feature \in [Patches -> Features]
  /\ Value \in [Patches -> {"on", "off"}]
  /\ MaxRowsKept \in Nat \ {0}
  /\ {MaxDeliveries, MaxRollbacks, MaxOperator, MaxReloads} \subseteq Nat
  /\ StorageMayFail \in BOOLEAN

VARIABLES
  armed,        \* the channel is armed
  toggles,      \* HUD_TOGGLES_KEY: section -> "on" or "off"
  rows,         \* the live view of the log
  appliedIds,   \* ids a redelivery of which is a duplicate
  primed,       \* primeAudit() was called on this page
  reading,      \* its read: "none", "sent" or the rows it found
  durable,      \* the log in IndexedDB
  writes,       \* rows on their way there, in order
  checking,     \* deliveries whose signature is being checked
  rollingBack,  \* the rollback button is busy: marker not written yet
  deliveries, rollbacks, operator, reloads,  \* counters of the bounds
  times,        \* times[p]: how often patch p was applied (history)
  outstanding,  \* deliveries applied and covered by no rollback yet (history)
  early,        \* a rollback was made while the log was being read (history)
  lost          \* storage failed, or a reload cut off a rollback's marker (history)

page == <<rows, appliedIds, primed, reading, writes, checking, rollingBack>>
bounds == <<deliveries, rollbacks, operator, reloads>>
applications == <<times, outstanding>>
mishaps == <<early, lost>>
vars == <<armed, toggles, page, durable, bounds, applications, mishaps>>

\* A log row: a decision about delivery n of patch id, or rollback number n.
PatchRow(n, p, v, prev) == [kind |-> "patch", n |-> n, id |-> p, verdict |-> v, prev |-> prev]
RollbackRow(n) == [kind |-> "rollback", n |-> n, id |-> "", verdict |-> "applied", prev |-> ""]
Row == [kind : {"patch"}, n : Nat, id : Patches,
        verdict : {"applied", "rejected", "duplicate"}, prev : {"on", "off", ""}]
       \cup {RollbackRow(n) : n \in 1..MaxRollbacks}

\* trimAuditRows: the newest rows.
Trimmed(s) == IF Len(s) <= MaxRowsKept THEN s
              ELSE SubSeq(s, Len(s) - MaxRowsKept + 1, Len(s))

Applied(r) == r.kind = "patch" /\ r.verdict = "applied"

IdsOfAll(s) == {r.id : r \in {x \in ToSet(s) : x.verdict = "applied"}}  \* mutant: markers counted

\* appliedPatchIds.
IdsOf(s) == {r.id : r \in {x \in ToSet(s) : Applied(x)}}

PendingWithoutCut(s) ==  \* mutant: a rollback marker does not stop the plan
  {i \in DOMAIN s : Applied(s[i])}
\* The rows a rollback undoes: applied, and after the newest marker.
Pending(s) ==
  {i \in DOMAIN s : Applied(s[i]) /\ \A j \in i..Len(s) : s[j].kind # "rollback"}

RowFeature(r) == Feature[r.id]

\* rollbackPlan: per feature, the value before its newest pending patch.
PlannedFeatures(s) == {RowFeature(s[i]) : i \in Pending(s)}
Planned(s, f) ==
  LET mine == {i \in Pending(s) : RowFeature(s[i]) = f}
      newest == CHOOSE i \in mine : \A j \in mine : j <= i
  IN IF s[newest].prev = "off" THEN "off" ELSE "on"

-----------------------------------------------------------------------------
Init ==
  /\ armed = FALSE
  /\ toggles \in [Features -> {"on", "off"}]
  /\ rows = <<>> /\ appliedIds = {} /\ primed = FALSE
  /\ reading = [state |-> "none", found |-> <<>>]
  /\ durable = <<>> /\ writes = <<>>
  /\ checking = {} /\ rollingBack = FALSE
  /\ deliveries = 0 /\ rollbacks = 0 /\ operator = 0 /\ reloads = 0
  /\ times = [p \in Patches |-> 0]
  /\ outstanding = {}
  /\ early = FALSE /\ lost = FALSE

\* setLivePatchArmed.
Arm ==
  /\ armed' = ~armed
  /\ UNCHANGED <<toggles, page, durable, bounds, applications, mishaps>>

\* setFeatureToggle from the HUD.
OperatorToggle(f) ==
  /\ operator < MaxOperator
  /\ operator' = operator + 1
  /\ toggles' = [toggles EXCEPT ![f] = IF @ = "on" THEN "off" ELSE "on"]
  /\ UNCHANGED <<armed, page, durable, deliveries, rollbacks, reloads, applications, mishaps>>

\* ingestPatchFrame up to its await.  good: the frame's structure, clocks and
\* signature are valid and its scheme is the one this build trusts.  A frame
\* that arrives disarmed does nothing.
Arrive(p, good) ==
  /\ deliveries < MaxDeliveries
  /\ deliveries' = deliveries + 1
  /\ checking' = IF armed THEN checking \cup {[n |-> deliveries + 1, id |-> p, good |-> good]}
                 ELSE checking
  /\ UNCHANGED <<armed, toggles, rows, appliedIds, primed, reading, writes, rollingBack,
                 durable, rollbacks, operator, reloads, applications, mishaps>>

\* decidePatch, decidePatchV2: made after the await.
Verdict(d) ==
  CASE ~d.good -> "rejected"
    [] d.good /\ d.id \in appliedIds -> "duplicate"
    [] d.good /\ d.id \notin appliedIds -> "applied"

\* remember(), and appendAuditRow() on its way.
Log(row) == rows' = Trimmed(Append(rows, row)) /\ writes' = Append(writes, row)

Apply(d) ==
  LET f == Feature[d.id] IN
  /\ Verdict(d) = "applied"
  /\ toggles' = [toggles EXCEPT ![f] = Value[d.id]]
  /\ Log(PatchRow(d.n, d.id, "applied", toggles[f]))
  /\ appliedIds' = appliedIds \cup {d.id}
  /\ times' = [times EXCEPT ![d.id] = @ + 1]
  /\ outstanding' = outstanding \cup {d.n}

Refuse(d) ==
  /\ Verdict(d) # "applied"
  /\ Log(PatchRow(d.n, d.id, Verdict(d), ""))
  /\ UNCHANGED <<toggles, appliedIds, applications>>

\* The rest of ingestPatchFrame.
Decide(d) ==
  /\ checking' = checking \ {d}
  /\ Apply(d) \/ Refuse(d)
  /\ UNCHANGED <<armed, primed, reading, durable, rollingBack, bounds, mishaps>>

\* appendAuditRow: the oldest pending write is stored, or fails.
Write ==
  /\ writes # <<>>
  /\ writes' = Tail(writes)
  /\ \/ durable' = Trimmed(Append(durable, Head(writes))) /\ UNCHANGED lost
     \/ StorageMayFail /\ lost' = TRUE /\ UNCHANGED durable
  /\ UNCHANGED <<armed, toggles, rows, appliedIds, primed, reading, checking, rollingBack, bounds,
                 applications, early>>

\* The Settings panel mounts: primeAudit() up to its await.
OpenPanel ==
  /\ ~primed
  /\ primed' = TRUE
  /\ reading' = [state |-> "sent", found |-> <<>>]
  /\ UNCHANGED <<armed, toggles, rows, appliedIds, durable, writes, checking, rollingBack, bounds,
                 applications, mishaps>>

\* listAudit() reads the durable log; if that fails, the page never reads it.
ReadLog ==
  /\ reading.state = "sent"
  /\ \/ reading' = [state |-> "read", found |-> durable] /\ UNCHANGED lost
     \/ StorageMayFail /\ lost' = TRUE /\ reading' = [state |-> "none", found |-> <<>>]
  /\ UNCHANGED <<armed, toggles, rows, appliedIds, primed, durable, writes, checking, rollingBack, bounds,
                 applications, early>>

MergedLiveFirst(found) ==  \* mutant: the durable rows land after the live ones
  LET isNew(r) == r \notin ToSet(rows) IN Trimmed(rows \o SelectSeq(found, isNew))

\* The live rows that were not found, in their order.
Unfound(found) ==
  LET new == {i \in DOMAIN rows : rows[i] \notin ToSet(found)} IN
  [k \in 1..Cardinality(new) |-> rows[CHOOSE i \in new : Cardinality({j \in new : j <= i}) = k]]

\* What was found, then the live rows it lacks.
Merged(found) == Trimmed(found \o Unfound(found))

\* The rest of primeAudit().  Nothing the application does changes primeToken
\* while a read is in flight, so a read is never discarded on its page.
MergeLog ==
  /\ reading.state = "read"
  /\ reading' = [state |-> "none", found |-> <<>>]
  /\ rows' = Merged(reading.found)
  /\ appliedIds' = IdsOf(Merged(reading.found))
  /\ UNCHANGED <<armed, toggles, primed, durable, writes, checking, rollingBack, bounds, applications, mishaps>>

\* rollbackLivePatches up to the write of its marker.  The button is on the
\* panel, so primeAudit() was called: it returns at once, its read in flight
\* or not.  Nothing happens when the plan is empty.
Rollback ==
  /\ rollbacks < MaxRollbacks
  /\ primed /\ ~rollingBack
  /\ Pending(rows) # {}
  /\ rollbacks' = rollbacks + 1
  /\ rollingBack' = TRUE
  /\ toggles' = [f \in Features |->
       IF f \in PlannedFeatures(rows) THEN Planned(rows, f) ELSE toggles[f]]
  /\ Log(RollbackRow(rollbacks + 1))
  /\ appliedIds' = IdsOf(rows')
  /\ outstanding' = outstanding \ {rows[i].n : i \in Pending(rows)}
  /\ early' = (early \/ reading.state # "none")
  /\ UNCHANGED <<armed, primed, reading, durable, checking, deliveries, operator, reloads, times, lost>>

NewPage ==
  /\ rows' = <<>> /\ appliedIds' = {} /\ primed' = FALSE
  /\ reading' = [state |-> "none", found |-> <<>>]
  /\ writes' = <<>> /\ checking' = {} /\ rollingBack' = FALSE

\* The page reloads: the operator's doing, or requestPatchReload().  Writes
\* that have not landed are lost; localStorage and IndexedDB stay.
Reload ==
  /\ reloads < MaxReloads
  /\ reloads' = reloads + 1
  /\ NewPage
  /\ lost' = (lost \/ \E r \in ToSet(writes) : r.kind = "rollback")
  /\ UNCHANGED <<armed, toggles, durable, deliveries, rollbacks, operator, applications, early>>

\* The marker is written and the host refuses the reload.
RollbackReturns ==
  /\ rollingBack
  /\ RollbackRow(rollbacks) \notin ToSet(writes)
  /\ rollingBack' = FALSE
  /\ UNCHANGED <<armed, toggles, rows, appliedIds, primed, reading, writes, checking, durable, bounds,
                 applications, mishaps>>

Next ==
  \/ Arm
  \/ \E f \in Features : OperatorToggle(f)
  \/ \E p \in Patches, good \in BOOLEAN : Arrive(p, good)
  \/ \E d \in checking : Decide(d)
  \/ Write \/ OpenPanel \/ ReadLog \/ MergeLog
  \/ Rollback \/ RollbackReturns \/ Reload

Spec == Init /\ [][Next]_vars

-----------------------------------------------------------------------------
TypeOK ==
  /\ armed \in BOOLEAN /\ primed \in BOOLEAN /\ rollingBack \in BOOLEAN
  /\ toggles \in [Features -> {"on", "off"}]
  /\ rows \in Seq(Row) /\ durable \in Seq(Row) /\ writes \in Seq(Row)
  /\ Len(rows) <= MaxRowsKept /\ Len(durable) <= MaxRowsKept
  /\ appliedIds \subseteq Patches
  /\ reading \in [state : {"none", "sent", "read"}, found : Seq(Row)]
  /\ checking \subseteq [n : 1..deliveries, id : Patches, good : BOOLEAN]
  /\ outstanding \subseteq 1..deliveries
  /\ times \in [Patches -> Nat]
  /\ early \in BOOLEAN /\ lost \in BOOLEAN

\* A frame delivered again is a duplicate, never a second application, although
\* deliveries overlap in the signature check. decidePatch promises it for good;
\* the code keeps it until the page is reloaded or the log is full.
AppliedOnceOnAPage ==
  reloads = 0 /\ deliveries + rollbacks <= MaxRowsKept => \A p \in Patches : times[p] <= 1

OutstandingFeatures ==
  {RowFeature(rows[i]) : i \in {j \in DOMAIN rows : Applied(rows[j]) /\ rows[j].n \in outstanding}}

\* The rollback button offers exactly the sections that patches changed, as far
\* as the view reaches, and no rollback has undone yet, also after the log was
\* read back on a new page; unless a rollback did not wait for that reading, or
\* its marker never got into the durable log.
PlanIsOutstanding == ~early /\ ~lost => PlannedFeatures(rows) = OutstandingFeatures

\* "A second click cannot undo the operator's own switches": a rollback moves
\* no section but those with a patch that no rollback has undone, unless a
\* marker was lost.
RollbackTouchesPatched ==
  [][rollbacks' # rollbacks /\ ~lost =>
       \A f \in Features : toggles'[f] # toggles[f] => f \in OutstandingFeatures]_vars

\* "Merge, never replace": on one page, a row the operator was shown leaves the
\* view only because the view is full.
RowsNeverVanish ==
  [][reloads' = reloads => ToSet(rows) \subseteq ToSet(rows') \/ Len(rows') = MaxRowsKept]_vars

\* What has happened is kept: a rollback undoes patches and nothing else, and no
\* read of the stored log hides a decision.
PastIsRespected == RollbackTouchesPatched /\ RowsNeverVanish

\* Once the panel has read the log, the view and the durable log tell the same
\* story in the same order, up to the writes under way, as long as storage works.
LogsAgree ==
  ~lost /\ primed /\ reading.state = "none" => rows = Trimmed(durable \o writes)

\* The audit log is what everything else is decided from: it holds every
\* patch once on a page, the view agrees with what is durable, and the plan
\* read from it is what patches have left in force.
LogTellsTheTruth == LogsAgree /\ PlanIsOutstanding /\ AppliedOnceOnAPage
-----------------------------------------------------------------------------
\* The inductive invariant.  The story is the durable log with the rows on
\* their way to it; the view is its end, and what was read from the durable log
\* is what the story began with when it was read.
Least(a, b) == IF a <= b THEN a ELSE b

\* The last n elements.
Ends(s, n) == [i \in 1..n |-> s[Len(s) - n + i]]

Story == durable \o writes

Loaded == primed /\ reading.state = "none"

\* The view reaches at least as far back as the rows still to be written, and as
\* far as the log's limit once the log was read.
ViewOK ==
  ~lost =>
    /\ Len(rows) <= Len(Story) /\ rows = Ends(Story, Len(rows))
    /\ Least(Len(writes), MaxRowsKept) <= Len(rows)
    /\ Loaded => Len(rows) = Least(Len(Story), MaxRowsKept)

\* The last m rows of the story came after the reading; of what was read only
\* rows that were trimmed since are missing before them.
Continues(found, m) ==
  LET old == Len(Story) - m IN
  /\ Least(m, MaxRowsKept) <= Len(rows)
  /\ old <= Len(found)
  /\ \A i \in 1..old : Story[i] = found[Len(found) - old + i]
  /\ old < Len(found) => Len(durable) = MaxRowsKept
  /\ \A i \in (old + 1)..Len(Story) : Story[i] \notin ToSet(found)

FoundOK ==
  ~lost /\ reading.state = "read" => \E m \in 0..Len(Story) : Continues(reading.found, m)

\* A patch without a marker after it is outstanding; one that a marker within the
\* reach of a view follows is not.
MarksOK ==
  ~lost =>
    /\ \A i \in DOMAIN Story :
         Applied(Story[i]) /\ (\A j \in i..Len(Story) : Story[j].kind # "rollback")
           => Story[i].n \in outstanding
    /\ ~early => \A i, j \in DOMAIN Story :
         i < j /\ j - i < MaxRowsKept /\ Applied(Story[i]) /\ Story[j].kind = "rollback"
           => Story[i].n \notin outstanding

\* All rows there are.
Everywhere == ToSet(rows) \cup ToSet(durable) \cup ToSet(writes) \cup ToSet(reading.found)

\* Kind and number tell a row; a delivery that is being checked has none.
KeysOK ==
  /\ IsInjective(rows) /\ IsInjective(reading.found)
  /\ IsInjective(durable) /\ IsInjective(writes) /\ ToSet(durable) \cap ToSet(writes) = {}
  /\ \A r \in Everywhere :
       r.n \in 1..(IF r.kind = "patch" THEN deliveries ELSE rollbacks)
  /\ \A r \in Everywhere, d \in checking : r.kind = "patch" => r.n # d.n
  /\ \A r, q \in Everywhere : r.kind = q.kind /\ r.n = q.n => r = q
  /\ \A d, c \in checking : d.n = c.n => d = c

\* Nothing that the view shows as applied is applied again; and on the first page
\* the view shows all that was applied, until the log is full.
OnceOK ==
  /\ IdsOf(rows) \subseteq appliedIds
  /\ reloads = 0 /\ deliveries + rollbacks <= MaxRowsKept =>
       \A p \in Patches : times[p] = 0 \/ (times[p] = 1 /\ p \in IdsOf(rows))

IInv ==
  /\ TypeOK /\ {deliveries, rollbacks, reloads, operator} \subseteq Nat
  /\ rollbacks <= MaxRollbacks
  /\ ViewOK /\ FoundOK /\ MarksOK /\ KeysOK /\ OnceOK
=============================================================================
