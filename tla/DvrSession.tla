----------------------------- MODULE DvrSession -----------------------------
(***************************************************************************)
(* The session recorder (lib/dvr.ts, lib/dvr/session.ts, storage.ts).       *)
(* Clicks, settles and route changes enter a short ring; while Full DVR is  *)
(* on, the ring's subscriber also keeps a timeline and counts them, and     *)
(* takes a screenshot of every click.  Counts and screenshots are written   *)
(* to an IndexedDB database that opens in the background, the counts two    *)
(* seconds after the first change not yet written.  The operator stops and  *)
(* starts the recorder from the debug HUD, and deletes stored sessions, the *)
(* one being recorded included; the page can go away at any moment.         *)
(*                                                                         *)
(* A session's meta is abstracted to the number of events counted, the      *)
(* bytes charged and the end mark, an entry to its seq, a screenshot to its *)
(* key and size.                                                            *)
(***************************************************************************)
EXTENDS Naturals, FiniteSetsExt, SequencesExt

CONSTANTS MaxSessions,  \* bound: sessions started
          NoRow,        \* the database has no row for the session
          Budget,       \* DVR_SESSION_BUDGET_BYTES
          ShotSizes,    \* sizes a screenshot can have
          ShotCap,      \* SHOT_SESSION_CAP
          RingCap,      \* DVR_MAX_ENTRIES
          TimelineCap,  \* SESSION_TIMELINE_CAP
          MaxEvents,    \* bound: events
          MaxTxs,       \* bound: transactions of the database under way
          DvrScopes     \* bounds, each [sessions, events, actions of the
                        \* operator, failures]

ASSUME DvrAssumption ==
  /\ MaxSessions \in Nat /\ Budget \in Nat /\ ShotSizes \subseteq Nat \ {0}
  /\ ShotCap \in Nat \ {0} /\ RingCap \in Nat \ {0} /\ TimelineCap \in Nat
  /\ TimelineCap >= RingCap   \* 500 and 200 in the code
  /\ MaxEvents \in Nat /\ MaxTxs \in Nat
  /\ DvrScopes \subseteq [starts : 0..MaxSessions, events : 0..MaxEvents, acts : Nat, faults : Nat]

VARIABLES recording,  \* the ring takes entries
          ring,       \* seqs of the entries in the ring
          seq,        \* seq of the last entry
          handle,     \* the session being recorded, 0 for none
          started,    \* sessions started so far
          since,      \* seq of the last entry before the present session
          db,         \* the session's connection to the database
          meta,       \* its meta in memory
          timeline,   \* its entries
          captures,   \* screenshots being taken: the event count at their click
          shots,      \* keys of its screenshots in memory
          shotSeq,    \* key of its last screenshot
          timer,      \* persistTimer is set
          txs,        \* transactions under way, in the order of their creation
          metas,      \* the sessions store
          pics,       \* the shots store: <<session, key, bytes>>
          failures,   \* history: transactions and opens that failed
          allowed     \* what the bounds still allow

ringVars  == <<recording, ring, seq>>
runVars   == <<handle, started, since>>
memVars   == <<meta, timeline, shots, shotSeq>>
storeVars == <<metas, pics>>
dvrVars == <<ringVars, runVars, db, memVars, captures, timer, txs, storeVars, failures, allowed>>

Sessions == 1..MaxSessions

NewMeta == [n |-> 0, bytes |-> 0, ended |-> FALSE]

DvrInit ==
  /\ recording = TRUE /\ ring = <<>> /\ seq = 0
  /\ handle = 0 /\ started = 0 /\ since = 0
  /\ db = [s \in Sessions |-> "none"]
  /\ meta = [s \in Sessions |-> NewMeta]
  /\ timeline = [s \in Sessions |-> <<>>]
  /\ captures = [s \in Sessions |-> {}]
  /\ shots = [s \in Sessions |-> <<>>]
  /\ shotSeq = [s \in Sessions |-> 0]
  /\ timer = [s \in Sessions |-> FALSE]
  /\ txs = <<>>
  /\ metas = [s \in Sessions |-> NoRow]
  /\ pics = {}
  /\ failures = 0
  /\ allowed \in DvrScopes

Event == allowed.events > 0 /\ allowed' = [allowed EXCEPT !.events = @ - 1]
Act   == allowed.acts > 0 /\ allowed' = [allowed EXCEPT !.acts = @ - 1]
Fault ==
  /\ allowed.faults > 0 /\ allowed' = [allowed EXCEPT !.faults = @ - 1]
  /\ failures' = failures + 1

-----------------------------------------------------------------------------
(* Transactions.  IndexedDB runs those with a store in common in the order  *)
(* of their creation, unless both only read.                                *)

PutMeta(s, m)       == [op |-> "putMeta", s |-> s, meta |-> m]
PutShot(s, pic)     == [op |-> "putShot", s |-> s, pic |-> pic]
DropShot(s, pic)    == [op |-> "dropShot", s |-> s, pic |-> pic]
ListMetas           == [op |-> "listMetas"]
ListShots(s, rest)  == [op |-> "listShots", s |-> s, rest |-> rest]
Delete(s, found, rest) ==
  [op |-> "delete", s |-> s, found |-> found, rest |-> rest]

Stores(tx) ==
  CASE tx.op \in {"putMeta", "listMetas"} -> {"sessions"}
    [] tx.op = "delete" -> {"sessions", "shots"}
    [] OTHER -> {"shots"}

Reads(tx) == tx.op \in {"listMetas", "listShots"}

Ready(i) ==
  \A j \in 1..i-1 :
    \/ Stores(txs[j]) \cap Stores(txs[i]) = {}
    \/ Reads(txs[j]) /\ Reads(txs[i])

(* Transaction i has ended and the code goes on with further ones. *)
Ended(i, further) == txs' = RemoveAt(txs, i) \o further

(* persistMeta: nothing is written before the database is open. *)
Persist(s, m) == IF db[s] = "open" THEN <<PutMeta(s, m)>> ELSE <<>>

Issue(further) == Len(txs) + Len(further) <= MaxTxs /\ txs' = txs \o further

-----------------------------------------------------------------------------
(* The recorder's life: installDvrFull. *)

Install ==
  /\ handle = 0 /\ allowed.starts > started
  /\ started' = started + 1
  /\ handle' = started + 1
  /\ since' = seq
  /\ db' = [db EXCEPT ![started + 1] = "opening"]
  /\ UNCHANGED <<ringVars, memVars, captures, timer, txs, storeVars, failures, allowed>>

(* The database opens, perhaps after the recorder was stopped: old sessions *)
(* are swept and the meta is written.                                       *)
Opened(s) ==
  /\ db[s] = "opening"
  /\ \/ /\ db' = [db EXCEPT ![s] = "open"]
        /\ Issue(<<ListMetas, PutMeta(s, meta[s])>>)
        /\ UNCHANGED <<failures, allowed>>
     \/ /\ db' = [db EXCEPT ![s] = "failed"]
        /\ Fault
        /\ UNCHANGED txs
  /\ UNCHANGED <<ringVars, runVars, memVars, captures, timer, storeVars>>

(* The HUD's stop: listeners go, the timer is cleared, an open database is   *)
(* closed.  Nothing is written and no end is marked.                        *)
Uninstall ==
  /\ handle # 0 /\ Act
  /\ handle' = 0
  /\ timer' = [timer EXCEPT ![handle] = FALSE]
  /\ db' = [db EXCEPT ![handle] = IF @ = "open" THEN "closed" ELSE @]
  /\ UNCHANGED <<ringVars, started, since, memVars, captures, txs, storeVars, failures>>

(* The page is hidden. *)
Hidden ==
  /\ handle # 0 /\ Act
  /\ Issue(Persist(handle, meta[handle]))
  /\ UNCHANGED <<ringVars, runVars, db, memVars, captures, timer, storeVars, failures>>

(* pagehide; the page may come back from the browser's cache. *)
PageHide ==
  /\ handle # 0 /\ Act
  /\ meta' = [meta EXCEPT ![handle].ended = TRUE]
  /\ Issue(Persist(handle, meta'[handle]))
  /\ UNCHANGED <<ringVars, runVars, db, timeline, shots, shotSeq, captures, timer,
                 storeVars, failures>>

(* The page is closed or crashes, with every transaction under way. *)
PageGone ==
  /\ handle # 0 /\ Act
  /\ recording' = TRUE /\ ring' = <<>> /\ seq' = 0
  /\ handle' = 0 /\ since' = 0
  /\ db' = [s \in Sessions |-> IF db[s] = "none" THEN "none" ELSE "closed"]
  /\ timeline' = [s \in Sessions |-> <<>>]
  /\ shots' = [s \in Sessions |-> <<>>]
  /\ captures' = [s \in Sessions |-> {}]
  /\ timer' = [s \in Sessions |-> FALSE]
  /\ txs' = <<>>
  /\ UNCHANGED <<started, meta, shotSeq, storeVars, failures>>

-----------------------------------------------------------------------------
(* Events *)

(* The last n members of a sequence: the newest win. *)
Newest(s, n) == IF Len(s) > n THEN SubSeq(s, Len(s) - n + 1, Len(s)) ELSE s

(* The timeline with entry e, the oldest entry making room. *)
TimelineWith(s, e) ==
  (IF Len(timeline[s]) < TimelineCap THEN timeline[s] ELSE Tail(timeline[s])) \o <<e>>

(* The ring with entry e, less those out of its time window or over its cap. *)
RingWith(e, old) == Newest(SubSeq(ring, old + 1, Len(ring)) \o <<e>>, RingCap)

\* mutant: a change while a write is under way is taken to be part of it
SchedulePersistUnlessWriting(s) ==
  timer' = [timer EXCEPT ![s] =
              @ \/ ~\E i \in DOMAIN txs : txs[i].op = "putMeta" /\ txs[i].s = s]

(* A change of the meta is written two seconds later, unless it will be. *)
SchedulePersist(s) == timer' = [timer EXCEPT ![s] = TRUE]

(* push: the ring takes the entry, and then its subscriber does, which also  *)
(* starts a screenshot when it is a click.                                  *)
Push(click) ==
  /\ recording /\ Event
  /\ seq' = seq + 1
  /\ \E old \in 0..Len(ring) : ring' = RingWith(seq + 1, old)
  /\ IF handle = 0
     THEN UNCHANGED <<meta, timeline, captures, timer>>
     ELSE /\ timeline' = [timeline EXCEPT ![handle] = TimelineWith(handle, seq + 1)]
          /\ meta' = [meta EXCEPT ![handle].n = @ + 1]
          /\ captures' = IF click THEN [captures EXCEPT ![handle] = @ \cup {meta'[handle].n}]
                                  ELSE captures
          /\ SchedulePersist(handle)
  /\ UNCHANGED <<recording, runVars, db, shots, shotSeq, txs, storeVars, failures>>

(* The mutation recorder hands over a batch; it does not pause with the ring. *)
Batch ==
  /\ handle # 0 /\ Event
  /\ meta' = [meta EXCEPT ![handle].n = @ + 1]
  /\ SchedulePersist(handle)
  /\ UNCHANGED <<ringVars, runVars, db, timeline, shots, shotSeq, captures, txs, storeVars,
                 failures>>

(* Pause and resume; clear. *)
SetRecording ==
  /\ Act
  /\ recording' = ~recording
  /\ UNCHANGED <<ring, seq, runVars, db, memVars, captures, timer, txs, storeVars, failures>>

ClearRing ==
  /\ ring # <<>> /\ Act
  /\ ring' = <<>>
  /\ UNCHANGED <<recording, seq, runVars, db, memVars, captures, timer, txs, storeVars, failures>>

PersistTimer(s) ==
  /\ timer[s]
  /\ timer' = [timer EXCEPT ![s] = FALSE]
  /\ Issue(Persist(s, meta[s]))
  /\ UNCHANGED <<ringVars, runVars, db, memVars, captures, storeVars, failures, allowed>>

-----------------------------------------------------------------------------
(* Screenshots: takeShot after its await. *)

\* mutant: the budget is checked without the screenshot to be added
SessionBudgetOkBefore(s, b) == meta[s].bytes < Budget

SessionBudgetOk(s, b) == meta[s].bytes + b <= Budget

\* mutant: the key is the length of the list with the new screenshot, cut at its cap
NextKeyByLength(s) == IF Len(shots[s]) < ShotCap THEN Len(shots[s]) + 1 ELSE ShotCap

NextKey(s) == shotSeq[s] + 1

Charged(s, b) == [meta[s] EXCEPT !.bytes = @ + b]

(* The capture failed, or its picture does not pass the checks. *)
CaptureFails(s) ==
  /\ \E atClick \in captures[s] : captures' = [captures EXCEPT ![s] = @ \ {atClick}]
  /\ UNCHANGED <<ringVars, runVars, db, memVars, timer, txs, storeVars, failures, allowed>>

(* The picture is there: it takes a key, is skipped when it does not fit,    *)
(* and otherwise is kept, charged and, with the database open, written.     *)
(* The recorder may have been stopped meanwhile.                            *)
Captured(s) ==
  \E atClick \in captures[s], b \in ShotSizes :
    /\ captures' = [captures EXCEPT ![s] = @ \ {atClick}]
    /\ shotSeq' = [shotSeq EXCEPT ![s] = @ + 1]
    /\ IF ~SessionBudgetOk(s, b)
       THEN UNCHANGED <<meta, shots, timer, txs>>
       ELSE /\ shots' = [shots EXCEPT ![s] = Newest(Append(@, NextKey(s)), ShotCap)]
            /\ meta' = [meta EXCEPT ![s] = Charged(s, b)]
            /\ SchedulePersist(s)
            /\ Issue(IF db[s] = "open" THEN <<PutShot(s, <<s, NextKey(s), b>>)>> ELSE <<>>)
    /\ UNCHANGED <<ringVars, runVars, db, timeline, storeVars, failures, allowed>>

-----------------------------------------------------------------------------
(* The database answers. *)

MetaPut(i) ==
  /\ txs[i].op = "putMeta" /\ Ready(i)
  /\ metas' = [metas EXCEPT ![txs[i].s] = txs[i].meta]
  /\ Ended(i, <<>>)
  /\ UNCHANGED <<ringVars, runVars, db, memVars, captures, timer, pics, failures, allowed>>

SamePlace(p, q) == p[1] = q[1] /\ p[2] = q[2]

(* A put replaces what has the same key; then the meta is cut to the budget. *)
ShotPut(i) ==
  /\ txs[i].op = "putShot" /\ Ready(i)
  /\ pics' = {p \in pics : ~SamePlace(p, txs[i].pic)} \cup {txs[i].pic}
  /\ meta' = [meta EXCEPT ![txs[i].s].bytes = IF @ > Budget THEN Budget ELSE @]
  /\ Ended(i, <<>>)
  /\ UNCHANGED <<ringVars, runVars, db, timeline, shots, shotSeq, captures, timer, metas,
                 failures, allowed>>

ShotDropped(i) ==
  /\ txs[i].op = "dropShot" /\ Ready(i)
  /\ pics' = {p \in pics : ~SamePlace(p, txs[i].pic)}
  /\ Ended(i, <<>>)
  /\ UNCHANGED <<ringVars, runVars, db, memVars, captures, timer, metas, failures, allowed>>

(* The sweep goes on with the next session it has to delete. *)
Sweep(rest) ==
  IF rest = {} THEN <<>> ELSE <<ListShots(Min(rest), rest \ {Min(rest)})>>

(* pruneByRetention: of the sessions with an end mark those that are over 30 *)
(* days old, any but the one being recorded.                                *)
MetasListed(i) ==
  /\ txs[i].op = "listMetas" /\ Ready(i)
  /\ \E expired \in SUBSET {s \in Sessions \ {handle} : metas[s] # NoRow /\ metas[s].ended} :
       Ended(i, Sweep(expired))
  /\ UNCHANGED <<ringVars, runVars, db, memVars, captures, timer, storeVars, failures, allowed>>

PicsOf(s) == {p \in pics : p[1] = s}

ShotsListed(i) ==
  /\ txs[i].op = "listShots" /\ Ready(i)
  /\ Ended(i, <<Delete(txs[i].s, PicsOf(txs[i].s), txs[i].rest)>>)
  /\ UNCHANGED <<ringVars, runVars, db, memVars, captures, timer, storeVars, failures, allowed>>

Deleted(i) ==
  /\ txs[i].op = "delete" /\ Ready(i)
  /\ metas' = [metas EXCEPT ![txs[i].s] = NoRow]
  /\ pics' = pics \ txs[i].found
  /\ Ended(i, Sweep(txs[i].rest))
  /\ UNCHANGED <<ringVars, runVars, db, memVars, captures, timer, failures, allowed>>

(* What follows a failure: a screenshot refused for want of room is dropped  *)
(* when the session has no room for it twice; a delete goes on without the  *)
(* list of screenshots; a sweep goes on with the next session.              *)
AfterFailure(tx) ==
  CASE tx.op = "putShot" /\ meta[tx.s].bytes + tx.pic[3] > Budget -> <<DropShot(tx.s, tx.pic)>>
    [] tx.op = "listShots" -> <<Delete(tx.s, {}, tx.rest)>>
    [] tx.op = "delete" -> Sweep(tx.rest)
    [] OTHER -> <<>>

TxFails(i) ==
  /\ Ready(i) /\ Fault
  /\ \/ Ended(i, AfterFailure(txs[i]))
     \/ txs[i].op = "putShot" /\ Ended(i, <<>>)   \* not for want of room
  /\ UNCHANGED <<ringVars, runVars, db, memVars, captures, timer, storeVars>>

(* deleteStoredSession: the operator deletes a session of the list. *)
DeleteStored(s) ==
  /\ metas[s] # NoRow /\ Act
  /\ Issue(<<ListShots(s, {})>>)
  /\ UNCHANGED <<ringVars, runVars, db, memVars, captures, timer, storeVars, failures>>

-----------------------------------------------------------------------------
OperatorActs == Uninstall \/ Hidden \/ PageHide \/ PageGone \/ SetRecording \/ ClearRing

DbAnswers(i) ==
  \/ MetaPut(i) \/ ShotPut(i) \/ ShotDropped(i)
  \/ MetasListed(i) \/ ShotsListed(i) \/ Deleted(i)

DvrNext ==
  \/ Install \/ OperatorActs \/ Batch
  \/ \E click \in BOOLEAN : Push(click)
  \/ \E s \in Sessions :
       Opened(s) \/ CaptureFails(s) \/ Captured(s) \/ PersistTimer(s) \/ DeleteStored(s)
  \/ \E i \in DOMAIN txs : DbAnswers(i) \/ TxFails(i)

(* Timers fire and the database answers.  Events, the operator, failures and *)
(* the end of a capture are not promised.                                   *)
DvrFairness ==
  /\ \A s \in Sessions : WF_dvrVars(PersistTimer(s))
  /\ WF_dvrVars(\E i \in DOMAIN txs : DbAnswers(i))

DvrSpec == DvrInit /\ [][DvrNext]_dvrVars /\ DvrFairness
-----------------------------------------------------------------------------
(* Properties *)

Metas == [n : Nat, bytes : Nat, ended : BOOLEAN]

(* Every variable has its type, and the three lists stay below their caps.   *)
DvrTypeOK ==
  /\ recording \in BOOLEAN /\ seq \in Nat
  /\ ring \in Seq(1..seq) /\ Len(ring) <= RingCap
  /\ handle \in 0..started /\ started \in 0..MaxSessions /\ since \in 0..seq
  /\ db \in [Sessions -> {"none", "opening", "failed", "open", "closed"}]
  /\ meta \in [Sessions -> Metas]
  /\ \A s \in Sessions :
       /\ timeline[s] \in Seq(1..seq) /\ Len(timeline[s]) <= TimelineCap
       /\ Len(shots[s]) <= ShotCap
       /\ captures[s] \subseteq 1..MaxEvents
  /\ shotSeq \in [Sessions -> Nat]
  /\ timer \in [Sessions -> BOOLEAN]
  /\ metas \in [Sessions -> Metas \cup {NoRow}]
  /\ pics \subseteq Sessions \X Nat \X ShotSizes

(* What a set of screenshots takes up. *)
Bytes(shotSet) == MapThenSumSet(LAMBDA p : p[3], shotSet)

(* The screenshots stored for a session are within its budget and within    *)
(* what its meta charges, whatever captures overlap, fail or come late.     *)
(* (sessionBudgetOk in takeShot, session.ts:116)                            *)
BudgetKept ==
  \A s \in Sessions :
    /\ Bytes(PicsOf(s)) <= meta[s].bytes
    /\ meta[s].bytes <= Budget

(* What the ring holds since the session began is in the session's timeline: *)
(* the file that Export writes never lacks a click that Copy would show.    *)
(* (push hands every entry on, dvr.ts:139-153; the two caps)                *)
TimelineHoldsRing ==
  handle # 0 =>
    \A e \in ToSet(ring) : e > since => e \in ToSet(timeline[handle])

(* The recorder's bounds cut off nothing they should keep and let nothing    *)
(* grow past them.  With it the types.                                      *)
WithinBounds == DvrTypeOK /\ BudgetKept /\ TimelineHoldsRing

(* A stored meta never goes back: no write of older counts lands on newer   *)
(* ones, whichever of the five places that persist the meta started it.     *)
MetaForward ==
  [][ \A s \in Sessions :
        metas[s] # NoRow /\ metas'[s] # NoRow =>
          /\ metas'[s].n >= metas[s].n
          /\ metas'[s].bytes >= metas[s].bytes
          /\ metas[s].ended => metas'[s].ended ]_metas

(* A stored screenshot goes only with its session: none is overwritten by a  *)
(* later one, and the way out of a full disk drops none that was stored.    *)
(* (the keys of takeShot; saveShots, storage.ts:181-206)                    *)
ShotsKept ==
  [][ \A p \in pics : p \in pics' \/ metas'[p[1]] = NoRow ]_pics

(* What the database holds of a session stays until the session is deleted.  *)
StoredStays == MetaForward /\ ShotsKept

(* While a session is recorded and nothing fails, the stored meta catches up *)
(* with the one in memory.                                                  *)
(* (schedulePersist, session.ts:89-95)                                      *)
Saved ==
  \A s \in Sessions :
    \A k \in 1..MaxEvents :
      (handle = s /\ db[s] = "open" /\ metas[s] # NoRow /\ metas[s].n < k /\ meta[s].n = k)
        ~> \/ handle # s \/ failures > 0
           \/ metas[s] = NoRow \/ metas[s].n >= k
-----------------------------------------------------------------------------
(* The inductive invariant. *)

Pics == Sessions \X Nat \X ShotSizes

Txs ==
  [op : {"putMeta"}, s : Sessions, meta : Metas]
    \cup [op : {"putShot", "dropShot"}, s : Sessions, pic : Pics]
    \cup [op : {"listMetas"}]
    \cup [op : {"listShots"}, s : Sessions, rest : SUBSET Sessions]
    \cup [op : {"delete"}, s : Sessions, found : SUBSET Pics, rest : SUBSET Sessions]

Shot(tx) == tx.op \in {"putShot", "dropShot"}

(* Types, and what bounds the counters. *)
StateOK ==
  /\ DvrTypeOK
  /\ allowed \in [starts : 0..MaxSessions, events : 0..MaxEvents, acts : Nat, faults : Nat]
  /\ started <= allowed.starts
  /\ \A s \in Sessions : meta[s].n + allowed.events <= MaxEvents
  /\ timeline \in [Sessions -> Seq(Nat)] /\ shots \in [Sessions -> Seq(Nat)]
  /\ captures \in [Sessions -> SUBSET Nat]
  /\ txs \in Seq(Txs)

(* A transaction touches screenshots of its own session only. *)
TxsOK ==
  \A i \in DOMAIN txs :
    /\ Shot(txs[i]) => txs[i].pic[1] = txs[i].s
    /\ txs[i].op = "delete" => \A p \in txs[i].found : p[1] = txs[i].s

(* The ring holds the last entries, and the present session's timeline the   *)
(* last ones since it began, as many as fit.                                *)
ListsAligned ==
  /\ \A k \in DOMAIN ring : ring[k] = seq - Len(ring) + k
  /\ \A s \in Sessions : s > started => timeline[s] = <<>>
  /\ handle # 0 =>
       /\ \A k \in DOMAIN timeline[handle] :
             timeline[handle][k] = seq - Len(timeline[handle]) + k
       /\ Len(timeline[handle]) \in {TimelineCap, seq - since}

(* What is charged for: the screenshots stored and those on their way. *)
Claimed(s) ==
  PicsOf(s) \cup {txs[i].pic : i \in {j \in DOMAIN txs : txs[j].op = "putShot" /\ txs[j].s = s}}

ChargesOK ==
  /\ IsFiniteSet(pics)
  /\ \A s \in Sessions : Bytes(Claimed(s)) <= meta[s].bytes /\ meta[s].bytes <= Budget

(* Meta m is not later than meta k. *)
Until(m, k) == m.n <= k.n /\ m.bytes <= k.bytes /\ (m.ended => k.ended)

(* The metas of a session are stored in the order in which they were taken. *)
MetasInOrder ==
  /\ \A s \in Sessions : metas[s] # NoRow => Until(metas[s], meta[s])
  /\ \A i \in DOMAIN txs : txs[i].op = "putMeta" =>
       /\ Until(txs[i].meta, meta[txs[i].s])
       /\ metas[txs[i].s] # NoRow => Until(metas[txs[i].s], txs[i].meta)
  /\ \A i, j \in DOMAIN txs :
       i < j /\ txs[i].op = "putMeta" /\ txs[j].op = "putMeta" /\ txs[i].s = txs[j].s =>
         Until(txs[i].meta, txs[j].meta)

(* Keys are used once: a transaction about a screenshot has a key of its own, *)
(* which no stored one has.                                                 *)
KeysUsedOnce ==
  /\ \A p \in pics : p[2] <= shotSeq[p[1]]
  /\ \A i \in DOMAIN txs : Shot(txs[i]) =>
       /\ txs[i].pic[2] <= shotSeq[txs[i].s]
       /\ \A p \in pics : ~SamePlace(p, txs[i].pic)
       /\ \A j \in DOMAIN txs :
            i # j /\ Shot(txs[j]) => ~SamePlace(txs[j].pic, txs[i].pic)

DvrInv ==
  StateOK /\ TxsOK /\ ListsAligned /\ ChargesOK /\ MetasInOrder /\ KeysUsedOnce
=============================================================================
