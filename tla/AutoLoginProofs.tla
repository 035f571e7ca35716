--------------------------- MODULE AutoLoginProofs ---------------------------
(***************************************************************************)
(* AutoLogin's three invariants, for any number of launches, of lost       *)
(* beacons, of tickets that get old and of restarts of the server.  The    *)
(* argument: IInv of module AutoLogin is inductive.  A step concerns one   *)
(* launch; the lemmas first say what Goto, Beacon and Fallback do, then    *)
(* that a step of a launcher at work that touches nothing else keeps IInv, *)
(* and then take the actions one by one.                                   *)
(***************************************************************************)
EXTENDS AutoLogin, TLAPS

\* The launches but l are as before.
Others(l) == \A k \in Launches \ {l} : launch'[k] = launch[k]

\* Of what the server has heard only the last beacon and the start of mstsc change.
Quiet ==
  /\ srv' \in SrvType /\ srv'.last \in {"new", srv.last}
  /\ srv'.card = srv.card /\ srv'.auth = srv.auth
  /\ left' \in Bounds /\ marred' \in BOOLEAN /\ (marred => marred')

\* Beacon after which an attempt begins anew or the credential counts as stored.
Loud == {"invoked", "redeemed", "credwrite-ok"}

-----------------------------------------------------------------------------
\* A launch goes on: its payment and its write stay, and it forgets the rest
\* only when it is over.
LEMMA GotoEffect ==
  ASSUME TypeOK, NEW l \in Launches, NEW pc \in Pcs, Goto(l, pc)
  PROVE  /\ launch' \in [Launches -> LaunchType] /\ Others(l)
         /\ launch'[l].pc = pc /\ launch'[l].paid = launch[l].paid
         /\ launch'[l].wrote = launch[l].wrote /\ launch'[l].native = launch[l].native
         /\ pc \notin Over => /\ launch'[l].twin = launch[l].twin
                              /\ launch'[l].robbed = launch[l].robbed
<1> DEFINE old == launch[l]
           gone == [Asleep EXCEPT !.pc = pc, !.native = old.native, !.wrote = old.wrote,
                                  !.paid = old.paid]
           on == [old EXCEPT !.pc = pc]
<1>1. old \in LaunchType /\ launch \in [Launches -> LaunchType]
  BY DEF TypeOK
<1>2. Asleep \in LaunchType /\ ~Asleep.robbed /\ ~Asleep.twin
  BY DEF Asleep, LaunchType, Pcs
<1>3. /\ gone.pc = pc /\ gone.paid = old.paid /\ gone.wrote = old.wrote
      /\ gone.native = old.native
  BY <1>2 DEF LaunchType
<1>4. gone \in LaunchType
  <2> DEFINE g1 == [Asleep EXCEPT !.pc = pc]
             g2 == [g1 EXCEPT !.native = old.native]
             g3 == [g2 EXCEPT !.wrote = old.wrote]
             g4 == [g3 EXCEPT !.paid = old.paid]
  <2>1. g1 \in LaunchType
    BY <1>2 DEF LaunchType
  <2> HIDE DEF g1
  <2>2. g2 \in LaunchType
    BY <1>1, <2>1 DEF LaunchType
  <2> HIDE DEF g2
  <2>3. g3 \in LaunchType
    BY <1>1, <2>2 DEF LaunchType
  <2> HIDE DEF g3
  <2>4. g4 \in LaunchType
    BY <1>1, <2>3 DEF LaunchType
  <2>5. gone = g4
    BY DEF g1, g2, g3
  <2>6. QED
    BY <2>4, <2>5
<1>5. on \in LaunchType
  BY <1>1 DEF LaunchType
<1>6. /\ on.pc = pc /\ on.paid = old.paid /\ on.wrote = old.wrote /\ on.native = old.native
      /\ on.twin = old.twin /\ on.robbed = old.robbed
  BY <1>1 DEF LaunchType
<1>7. launch' = [launch EXCEPT ![l] = IF pc \in Over THEN gone ELSE on]
  BY DEF Goto
<1> HIDE DEF gone, on
<1>8. launch'[l] = IF pc \in Over THEN gone ELSE on
  BY <1>1, <1>7
<1>9. launch' \in [Launches -> LaunchType] /\ Others(l)
  BY <1>1, <1>4, <1>5, <1>7 DEF Others
<1>10. CASE pc \in Over
  <2>1. launch'[l] = gone
    BY <1>8, <1>10
  <2>2. QED
    BY <1>3, <1>9, <1>10, <2>1
<1>11. CASE pc \notin Over
  <2>1. launch'[l] = on
    BY <1>8, <1>11
  <2>2. QED
    BY <1>6, <1>9, <2>1
<1>12. QED
  BY <1>10, <1>11

\* A beacon arrives or is lost.
LEMMA BeaconEffect ==
  ASSUME TypeOK, NEW l \in Launches, NEW beacon, Beacon(l, beacon)
  PROVE  /\ srv' \in SrvType /\ srv'.last \in {"new", srv.last} /\ srv'.auth = srv.auth
         /\ left' \in Bounds /\ marred' \in BOOLEAN /\ (marred => marred')
         /\ srv'.card = Card(srv.card, beacon) \/ (srv'.card = srv.card /\ marred')
<1>1. srv \in SrvType /\ left \in Bounds /\ marred \in BOOLEAN
  BY DEF TypeOK
<1>2. CASE HandlerHello(l, beacon) /\ UNCHANGED leftVars
  <2>1. PICK near \in BOOLEAN :
          srv' = [srv EXCEPT !.last = "new", !.card = Card(@, beacon),
                             !.started = IF beacon = "mstsc-started" THEN l ELSE @,
                             !.near = IF beacon = "mstsc-started" THEN near ELSE @]
    BY <1>2 DEF HandlerHello
  <2>2. Card(srv.card, beacon) \in BOOLEAN
    BY <1>1 DEF Card, SrvType
  <2> DEFINE card == Card(srv.card, beacon)
             started == IF beacon = "mstsc-started" THEN l ELSE srv.started
             near1 == IF beacon = "mstsc-started" THEN near ELSE srv.near
  <2>3. started \in Launches \cup {None} /\ near1 \in BOOLEAN
    BY <1>1 DEF SrvType
  <2>4. srv' = [srv EXCEPT !.last = "new", !.card = card, !.started = started, !.near = near1]
    BY <2>1
  <2> HIDE DEF card, started, near1
  <2>5. card \in BOOLEAN
    BY <2>2 DEF card
  <2>6. srv' = [last |-> "new", card |-> card, started |-> started, auth |-> srv.auth,
                near |-> near1]
    BY <1>1, <2>4 DEF SrvType
  <2>7. srv' \in SrvType
    BY <1>1, <2>3, <2>5, <2>6 DEF SrvType
  <2>8. QED
    BY <1>1, <1>2, <2>6, <2>7 DEF leftVars, card
<1>3. CASE left.lost > 0 /\ left' = [left EXCEPT !.lost = @ - 1] /\ marred' = TRUE /\ UNCHANGED srv
  <2>1. left.lost - 1 \in Nat
    BY <1>1, <1>3 DEF Bounds
  <2>2. left' \in Bounds
    BY <1>1, <1>3, <2>1 DEF Bounds
  <2>3. QED
    BY <1>1, <1>3, <2>2
<1>4. QED
  BY <1>2, <1>3 DEF Beacon

\* A beacon that begins no attempt and stores nothing.
LEMMA QuietBeacon ==
  ASSUME TypeOK, NEW l \in Launches, NEW beacon, beacon \notin Loud, Beacon(l, beacon)
  PROVE  Quiet
<1>1. Card(srv.card, beacon) = srv.card
  BY DEF Card, Loud
<1>2. QED
  BY <1>1, BeaconEffect DEF Quiet

\* No beacon at all.
LEMMA NoBeacon ==
  ASSUME TypeOK, UNCHANGED <<srv, leftVars>>
  PROVE  Quiet
  BY DEF TypeOK, Quiet, leftVars

\* A box ends the launch.
LEMMA BoxedEffect ==
  ASSUME TypeOK, NEW l \in Launches, NEW beacon, beacon \notin Loud, Boxed(l, beacon)
  PROVE  Goto(l, "box") /\ Quiet
  BY QuietBeacon DEF Boxed

\* A launch tries once more.
LEMMA RetryEffect ==
  ASSUME TypeOK, NEW l \in Launches, Retry(l)
  PROVE  /\ launch' \in [Launches -> LaunchType] /\ Others(l)
         /\ launch'[l].pc = "redeem" /\ launch'[l].paid = launch[l].paid
         /\ launch'[l].wrote = launch[l].wrote
<1> DEFINE old == launch[l]
           new == [old EXCEPT !.pc = "redeem", !.tries = 1]
<1>1. old \in LaunchType /\ launch \in [Launches -> LaunchType]
  BY DEF TypeOK
<1>2. new.pc = "redeem" /\ new.paid = old.paid /\ new.wrote = old.wrote
  BY <1>1 DEF LaunchType
<1>3. new \in LaunchType
  <2> DEFINE mid == [old EXCEPT !.pc = "redeem"]
  <2>1. mid \in LaunchType
    BY <1>1 DEF LaunchType, Pcs
  <2>2. new = [mid EXCEPT !.tries = 1]
    OBVIOUS
  <2> HIDE DEF mid, new
  <2>3. QED
    BY <2>1, <2>2 DEF LaunchType
<1>4. launch' = [launch EXCEPT ![l] = new]
  BY DEF Retry
<1> HIDE DEF new
<1>5. launch'[l] = new /\ launch' \in [Launches -> LaunchType] /\ Others(l)
  BY <1>1, <1>3, <1>4 DEF Others
<1>6. QED
  BY <1>2, <1>5

\* Nothing could be tried any more: mstsc asks.
LEMMA DecideEffect ==
  ASSUME TypeOK, NEW l \in Launches, Decide(l)
  PROVE  /\ launch' \in [Launches -> LaunchType] /\ Others(l)
         /\ launch'[l].pc = "mstsc" /\ launch'[l].paid = launch[l].paid
         /\ launch'[l].wrote = launch[l].wrote /\ launch'[l].native
<1> DEFINE old == launch[l]
           new == [old EXCEPT !.pc = "mstsc", !.native = TRUE]
<1>1. old \in LaunchType /\ launch \in [Launches -> LaunchType]
  BY DEF TypeOK
<1>2. new.pc = "mstsc" /\ new.paid = old.paid /\ new.wrote = old.wrote /\ new.native
  BY <1>1 DEF LaunchType
<1>3. new \in LaunchType
  BY <1>1 DEF LaunchType, Pcs
<1>4. launch' = [launch EXCEPT ![l] = new]
  BY DEF Decide, CredentialFallbackDecision
<1> HIDE DEF new
<1>5. launch'[l] = new /\ launch' \in [Launches -> LaunchType] /\ Others(l)
  BY <1>1, <1>3, <1>4 DEF Others
<1>6. QED
  BY <1>2, <1>5

\* After a redemption that failed, mstsc starts without a prompt only over an entry.
LEMMA FallbackEffect ==
  ASSUME TypeOK, NEW l \in Launches, Fallback(l)
  PROVE  /\ launch' \in [Launches -> LaunchType] /\ Others(l) /\ Quiet
         /\ launch'[l].pc \in {"redeem", "prompt", "mstsc"}
         /\ launch'[l].paid = launch[l].paid /\ launch'[l].wrote = launch[l].wrote
         /\ launch'[l].pc = "mstsc" => launch'[l].native \/ HasCredEntry
<1>1. CASE launch[l].tries = 1
  BY <1>1, DecideEffect, NoBeacon DEF Fallback
<1>2. CASE launch[l].tries # 1
  <2>1. Quiet
    BY <1>2, QuietBeacon DEF Fallback, Loud
  <2>2. CASE launch[l].kind = "fix"
    BY <1>2, <2>1, <2>2, RetryEffect DEF Fallback
  <2>3. CASE launch[l].kind # "fix"
    <3>1. PICK pc \in {"mstsc", "prompt"} : Goto(l, pc) /\ (pc = "mstsc" => HasCredEntry)
      BY <1>2, <2>3 DEF Fallback
    <3>2. pc \in Pcs
      BY DEF Pcs
    <3>3. QED
      BY <2>1, <3>1, <3>2, GotoEffect
  <2>4. QED
    BY <2>2, <2>3
<1>3. QED
  BY <1>1, <1>2

-----------------------------------------------------------------------------
\* What the page may say does not change while no launch stores, starts or is over.
LEMMA PageStill ==
  ASSUME IInv, Quiet, UNCHANGED <<page, poll, historyVars>>,
         \A k \in Launches : launch'[k].wrote = launch[k].wrote,
         \A k \in Launches : launch[k].pc = "over" => launch'[k].pc = "over",
         \A k \in Launches : AtWork(k)' => AtWork(k)
  PROVE  PageOK'
<1>1. \A k \in Launches : launch'[k].wrote = launch[k].wrote
  OBVIOUS
<1>2. \A k \in Launches : launch[k].pc = "over" => launch'[k].pc = "over"
  OBVIOUS
<1>3. \A k \in Launches : AtWork(k)' => AtWork(k)
  OBVIOUS
<1>4. /\ page' = page /\ poll' = poll /\ newest' = newest /\ overlap' = overlap
      /\ newest \in Launches \cup {None}
  BY DEF historyVars, IInv, TypeOK
<1>5. /\ srv'.last \in {"new", srv.last} /\ srv'.card = srv.card /\ srv'.auth = srv.auth
      /\ (marred => marred')
  BY DEF Quiet
<1>6. page'.note = "answered" => page'.armed
  BY <1>4 DEF IInv, PageOK
<1>7. page'.note = "answered" \/ poll'.last = "new" => srv'.last = "new" \/ marred'
  BY <1>4, <1>5 DEF IInv, PageOK
<1>8. page'.card \/ poll'.card \/ srv'.card => \E k \in Launches : launch'[k].wrote
  BY <1>1, <1>4, <1>5 DEF IInv, PageOK
<1>9. page'.fix \/ poll'.fix \/ srv'.auth # "none" => \E k \in Launches : launch'[k].pc = "over"
  BY <1>2, <1>4, <1>5 DEF IInv, PageOK
<1>10. ~overlap' => \A k \in Launches : AtWork(k)' => k = newest'
  BY <1>3, <1>4 DEF IInv, PageOK
<1>11. ~(overlap' \/ marred') => (srv'.card <=> newest' # None /\ launch'[newest'].wrote)
  <2>1. ~(overlap' \/ marred') => (srv.card <=> newest # None /\ launch[newest].wrote)
    BY <1>4, <1>5 DEF IInv, PageOK
  <2>2. newest # None => launch'[newest].wrote = launch[newest].wrote
    BY <1>1, <1>4
  <2>3. QED
    BY <1>4, <1>5, <2>1, <2>2
<1>12. QED
  BY <1>6, <1>7, <1>8, <1>9, <1>10, <1>11 DEF PageOK, AtWork

\* A launcher at work that goes on in silence.
LEMMA PageKept ==
  ASSUME IInv, NEW l \in Launches, AtWork(l), Others(l), Quiet,
         launch'[l].wrote = launch[l].wrote, UNCHANGED <<page, poll, historyVars>>
  PROVE  PageOK'
<1>1. \A k \in Launches : launch'[k].wrote = launch[k].wrote
  BY DEF Others
<1>2. \A k \in Launches : launch[k].pc = "over" => launch'[k].pc = "over"
  BY DEF Others, AtWork
<1>3. \A k \in Launches : AtWork(k)' => AtWork(k)
  BY DEF Others, AtWork
<1>4. QED
  BY <1>1, <1>2, <1>3, PageStill

\* A launch l that keeps its payment; the store and the tickets may change.
LEMMA LaunchesOK ==
  ASSUME IInv, NEW l \in Launches, Others(l),
         LaunchOK(launch'[l], ticket'[l], store'),
         \A k \in Launches \ {l} :
           LaunchOK(launch[k], ticket[k], store) => LaunchOK(launch[k], ticket'[k], store')
  PROVE  \A k \in Launches : LaunchOK(launch'[k], ticket'[k], store')
<1>1. SUFFICES ASSUME NEW k \in Launches, k # l
               PROVE  LaunchOK(launch'[k], ticket'[k], store')
  OBVIOUS
<1>2. LaunchOK(launch[k], ticket[k], store)
  BY DEF IInv
<1>3. launch'[k] = launch[k]
  BY <1>1 DEF Others
<1>4. QED
  BY <1>1, <1>2, <1>3

\* A step of a launcher at work that is seen in its own launch only.
LEMMA WorkStep ==
  ASSUME IInv, NEW l \in Launches, AtWork(l), Others(l), Quiet,
         launch' \in [Launches -> LaunchType],
         launch'[l].wrote = launch[l].wrote,
         LaunchOK(launch'[l], ticket'[l], store'),
         \A k \in Launches \ {l} :
           LaunchOK(launch[k], ticket[k], store) => LaunchOK(launch[k], ticket'[k], store'),
         ticket' \in [Launches -> {"none", "young", "old"}],
         inbox' \in Seq([who : Launches, try : 0..1]), store' \in StoreType,
         UNCHANGED <<page, poll, historyVars>>
  PROVE  IInv'
<1>1. TypeOK'
  BY DEF IInv, TypeOK, Quiet, historyVars
<1>2. \A k \in Launches : LaunchOK(launch'[k], ticket'[k], store')
  BY LaunchesOK
<1>3. PageOK'
  BY PageKept
<1>4. QED
  BY <1>1, <1>2, <1>3 DEF IInv

\* The same when nothing but the launch and its request changes.
LEMMA PlainStep ==
  ASSUME IInv, NEW l \in Launches, AtWork(l), Others(l), Quiet,
         launch' \in [Launches -> LaunchType],
         launch'[l].wrote = launch[l].wrote, launch'[l].paid = launch[l].paid,
         launch'[l].pc \notin {"idle", "asking", "purge", "write"},
         launch[l].pc # "mstsc",
         launch'[l].pc = "mstsc" => launch'[l].native \/ HasCredEntry,
         inbox' \in Seq([who : Launches, try : 0..1]),
         UNCHANGED <<ticket, store, page, poll, historyVars>>
  PROVE  IInv'
<1>1. LaunchOK(launch[l], ticket[l], store)
  BY DEF IInv
<1>2. launch[l].pc \notin Over
  BY DEF AtWork, Over
<1>3. LaunchOK(launch'[l], ticket'[l], store')
  BY <1>1, <1>2 DEF LaunchOK, HasCredEntry
<1>4. /\ ticket' = ticket /\ store' = store /\ store \in StoreType
      /\ ticket \in [Launches -> {"none", "young", "old"}]
  BY DEF IInv, TypeOK
<1>5. QED
  BY <1>3, <1>4, WorkStep

-----------------------------------------------------------------------------
LEMMA DoWorkStep ==
  ASSUME IInv, NEW l \in Launches, DoWork(l)
  PROVE  IInv'
<1>1. TypeOK /\ "box" \in Pcs /\ "redeem" \in Pcs
  BY DEF IInv, Pcs
<1>2. PICK pc \in {"box", "redeem"} : Goto(l, pc) /\ Quiet
  BY <1>1, BoxedEffect, NoBeacon DEF DoWork, Loud
<1>3. AtWork(l) /\ launch[l].pc = "guard" /\ inbox' = inbox
  BY DEF DoWork, AtWork
<1>4. UNCHANGED <<ticket, store, page, poll, historyVars>> /\ inbox' = inbox
  BY DEF DoWork
<1>5. inbox' \in Seq([who : Launches, try : 0..1])
  BY <1>1, <1>4 DEF TypeOK
<1>6. QED
  BY <1>1, <1>2, <1>3, <1>4, <1>5, GotoEffect, PlainStep

LEMMA RedeemStep ==
  ASSUME IInv, NEW l \in Launches, Redeem(l)
  PROVE  IInv'
<1>1. TypeOK /\ "box" \in Pcs /\ "waiting" \in Pcs
  BY DEF IInv, Pcs
<1>2. AtWork(l) /\ launch[l].pc = "redeem" /\ UNCHANGED <<ticket, store, page, poll, historyVars>>
  BY DEF Redeem, AtWork
<1>3. inbox' \in Seq([who : Launches, try : 0..1])
  <2>1. launch[l].tries \in 0..1 /\ inbox \in Seq([who : Launches, try : 0..1])
    BY <1>1 DEF TypeOK, LaunchType
  <2>2. [who |-> l, try |-> launch[l].tries] \in [who : Launches, try : 0..1]
    BY <2>1
  <2>3. Append(inbox, [who |-> l, try |-> launch[l].tries]) \in Seq([who : Launches, try : 0..1])
    BY <2>1, <2>2
  <2>4. QED
    BY <2>1, <2>3 DEF Redeem
<1>4. CASE Goto(l, "waiting") /\ UNCHANGED <<srv, leftVars>>
  BY <1>1, <1>2, <1>3, <1>4, GotoEffect, NoBeacon, PlainStep
<1>5. CASE Fallback(l)
  BY <1>1, <1>2, <1>3, <1>5, FallbackEffect, PlainStep
<1>6. CASE Boxed(l, "launcher-error")
  <2>1. Goto(l, "box") /\ Quiet
    BY <1>1, <1>6, BoxedEffect DEF Loud
  <2>2. QED
    BY <1>1, <1>2, <1>3, <2>1, GotoEffect, PlainStep
<1>7. QED
  BY <1>4, <1>5, <1>6 DEF Redeem

LEMMA RedeemTimesOutStep ==
  ASSUME IInv, NEW l \in Launches, RedeemTimesOut(l)
  PROVE  IInv'
<1>1. TypeOK /\ "box" \in Pcs /\ inbox' \in Seq([who : Launches, try : 0..1])
  BY DEF IInv, TypeOK, Pcs, RedeemTimesOut
<1>2. AtWork(l) /\ launch[l].pc = "waiting" /\ UNCHANGED <<ticket, store, page, poll, historyVars>>
  BY DEF RedeemTimesOut, TimedOut, AtWork
<1>3. CASE Fallback(l)
  BY <1>1, <1>2, <1>3, FallbackEffect, PlainStep
<1>4. CASE Boxed(l, "launcher-error")
  <2>1. Goto(l, "box") /\ Quiet
    BY <1>1, <1>4, BoxedEffect DEF Loud
  <2>2. QED
    BY <1>1, <1>2, <2>1, GotoEffect, PlainStep
<1>5. QED
  BY <1>3, <1>4 DEF RedeemTimesOut

LEMMA VerifyStep ==
  ASSUME IInv, NEW l \in Launches, Verify(l)
  PROVE  IInv'
<1>1. TypeOK /\ "mstsc" \in Pcs /\ "missing" \in Pcs /\ inbox' \in Seq([who : Launches, try : 0..1])
  BY DEF IInv, TypeOK, Pcs, Verify
<1>2. AtWork(l) /\ launch[l].pc = "verify" /\ UNCHANGED <<ticket, store, page, poll, historyVars>>
  BY DEF Verify, AtWork
<1>3. Quiet
  BY <1>1, QuietBeacon DEF Verify, Loud
<1>4. PICK pc \in {"mstsc", "missing"} : Goto(l, pc) /\ (pc = "mstsc" => HasCredEntry)
  BY DEF Verify
<1>5. QED
  BY <1>1, <1>2, <1>3, <1>4, GotoEffect, PlainStep

LEMMA MissingStep ==
  ASSUME IInv, NEW l \in Launches, Missing(l)
  PROVE  IInv'
<1>1. TypeOK /\ inbox' \in Seq([who : Launches, try : 0..1])
  BY DEF IInv, TypeOK, Missing
<1>2. /\ AtWork(l) /\ launch[l].pc = "missing" /\ UNCHANGED <<srv, leftVars>>
      /\ UNCHANGED <<ticket, store, page, poll, historyVars>>
  BY DEF Missing, AtWork
<1>3. Quiet
  BY <1>1, <1>2, NoBeacon
<1>4. CASE Retry(l)
  BY <1>1, <1>2, <1>3, <1>4, RetryEffect, PlainStep
<1>5. CASE Decide(l)
  BY <1>1, <1>2, <1>3, <1>5, DecideEffect, PlainStep
<1>6. QED
  BY <1>4, <1>5 DEF Missing

LEMMA MstscStep ==
  ASSUME IInv, NEW l \in Launches, Mstsc(l)
  PROVE  IInv'
<1>1. TypeOK /\ "box" \in Pcs /\ "running" \in Pcs
  BY DEF IInv, Pcs
<1>2. PICK pc \in {"box", "running"} : Goto(l, pc) /\ Quiet
  <2>1. CASE Boxed(l, "launcher-error")
    BY <1>1, <2>1, BoxedEffect DEF Loud
  <2>2. CASE Goto(l, "running") /\ Beacon(l, "mstsc-started")
    BY <1>1, <2>2, QuietBeacon DEF Loud
  <2>3. QED
    BY <2>1, <2>2 DEF Mstsc
<1>3. AtWork(l) /\ UNCHANGED <<ticket, inbox, store, page, poll, historyVars>>
  BY DEF Mstsc, AtWork
<1>4. LaunchOK(launch[l], ticket[l], store)
  BY DEF IInv
<1>5. LaunchOK(launch'[l], ticket'[l], store')
  BY <1>1, <1>2, <1>3, <1>4, GotoEffect DEF LaunchOK, Over
<1>6. QED
  BY <1>1, <1>2, <1>3, <1>5, GotoEffect, WorkStep DEF TypeOK

\* What is typed at a prompt hides nothing and brings nothing old back.
LEMMA PromptStep ==
  ASSUME IInv, NEW l \in Launches, Prompt(l)
  PROVE  IInv'
<1>1. TypeOK /\ "box" \in Pcs /\ "verify" \in Pcs /\ store \in StoreType
  BY DEF IInv, TypeOK, Pcs
<1>2. PICK pc \in {"box", "verify"} : Goto(l, pc)
  BY DEF Prompt
<1>3. /\ AtWork(l) /\ launch[l].pc = "prompt" /\ UNCHANGED <<srv, leftVars>>
      /\ UNCHANGED <<ticket, inbox, page, poll, historyVars>>
  BY DEF Prompt, AtWork
<1>4. store' = store \/ \E typed \in {"fresh", "wrong"} : store' = [store EXCEPT !.generic = typed]
  BY DEF Prompt
<1>5. store' \in StoreType
  BY <1>1, <1>4 DEF StoreType
<1>6. store' = store \/ (store'.domain = store.domain /\ store'.generic \in {"fresh", "wrong"})
  BY <1>1, <1>4 DEF StoreType
<1>7. \A k \in Launches :
        LaunchOK(launch[k], ticket[k], store) => LaunchOK(launch[k], ticket'[k], store')
  BY <1>3, <1>6 DEF LaunchOK
<1>8. LaunchOK(launch[l], ticket[l], store)
  BY DEF IInv
<1>9. LaunchOK(launch'[l], ticket'[l], store')
  BY <1>1, <1>2, <1>3, <1>8, GotoEffect DEF LaunchOK, Over
<1>10. Quiet
  BY <1>1, <1>3, NoBeacon
<1>11. QED
  BY <1>1, <1>2, <1>3, <1>5, <1>7, <1>9, <1>10, GotoEffect, WorkStep DEF TypeOK

\* Deletions take the ground from under every launcher that is about to start
\* mstsc, and leave of an earlier run only what the launcher will write over.
LEMMA PurgeStep ==
  ASSUME IInv, NEW l \in Launches, PurgeStaleTermsvr(l)
  PROVE  IInv'
<1> DEFINE mine == [launch[l] EXCEPT !.pc = "write", !.twin = store.generic # "none"]
           robbed(k) == [launch[k] EXCEPT !.robbed = TRUE]
<1>1. /\ TypeOK /\ store \in StoreType /\ launch \in [Launches -> LaunchType]
      /\ \A k \in Launches : launch[k] \in LaunchType
  BY DEF IInv, TypeOK
<1>2. /\ launch[l].pc = "purge" /\ store' \in Deletions
      /\ UNCHANGED <<ticket, inbox, srv, page, poll, leftVars, historyVars>>
      /\ launch' = [k \in Launches |-> IF k = l THEN mine
                                       ELSE IF launch[k].pc = "mstsc" THEN robbed(k) ELSE launch[k]]
  BY DEF PurgeStaleTermsvr
<1>3. mine \in LaunchType
  <2> DEFINE mid == [launch[l] EXCEPT !.pc = "write"]
  <2>1. mid \in LaunchType
    BY <1>1 DEF LaunchType, Pcs
  <2>2. mine = [mid EXCEPT !.twin = store.generic # "none"]
    OBVIOUS
  <2>3. (store.generic # "none") \in BOOLEAN
    OBVIOUS
  <2> HIDE DEF mid, mine
  <2>4. QED
    BY <2>1, <2>2, <2>3 DEF LaunchType
<1>4. /\ mine.pc = "write" /\ mine.wrote = launch[l].wrote /\ mine.paid = launch[l].paid
      /\ mine.twin = (store.generic # "none")
  BY <1>1 DEF LaunchType
<1>5. \A k \in Launches :
        /\ robbed(k) \in LaunchType /\ robbed(k).pc = launch[k].pc /\ robbed(k).robbed
        /\ robbed(k).wrote = launch[k].wrote /\ robbed(k).paid = launch[k].paid
  BY <1>1 DEF LaunchType
<1> HIDE DEF mine, robbed
<1>6. launch'[l] = mine
  BY <1>2
<1>7. \A k \in Launches \ {l} :
        launch'[k] = IF launch[k].pc = "mstsc" THEN robbed(k) ELSE launch[k]
  BY <1>2
<1>8. launch' \in [Launches -> LaunchType]
  BY <1>1, <1>2, <1>3, <1>5
<1>9. store' \in StoreType /\ store'.generic \in {"none", store.generic}
  BY <1>1, <1>2 DEF Deletions, StoreType
<1>10. TypeOK'
  BY <1>1, <1>2, <1>8, <1>9 DEF TypeOK, leftVars, historyVars
<1>11. LaunchOK(launch'[l], ticket'[l], store')
  <2>1. LaunchOK(launch[l], ticket[l], store)
    BY DEF IInv
  <2>2. QED
    BY <1>2, <1>4, <1>6, <1>9, <2>1 DEF LaunchOK, Over
<1>12. \A k \in Launches \ {l} : LaunchOK(launch'[k], ticket'[k], store')
  <2>1. SUFFICES ASSUME NEW k \in Launches \ {l}
                 PROVE  LaunchOK(launch'[k], ticket'[k], store')
    OBVIOUS
  <2>2. LaunchOK(launch[k], ticket[k], store)
    BY DEF IInv
  <2>3. CASE launch[k].pc = "mstsc"
    BY <1>2, <1>5, <1>7, <2>2, <2>3 DEF LaunchOK
  <2>4. CASE launch[k].pc # "mstsc"
    BY <1>2, <1>7, <1>9, <2>2, <2>4 DEF LaunchOK
  <2>5. QED
    BY <2>3, <2>4
<1>13. PageOK'
  <2>1. \A k \in Launches : launch'[k].wrote = launch[k].wrote
    BY <1>4, <1>5, <1>6, <1>7
  <2>2. \A k \in Launches : launch[k].pc = "over" => launch'[k].pc = "over"
    BY <1>2, <1>5, <1>6, <1>7
  <2>3. \A k \in Launches : AtWork(k)' => AtWork(k)
    BY <1>2, <1>5, <1>6, <1>7 DEF AtWork
  <2>4. Quiet
    BY <1>1, <1>2, NoBeacon
  <2>5. QED
    BY <1>2, <2>1, <2>2, <2>3, <2>4, PageStill
<1>14. QED
  BY <1>10, <1>11, <1>12, <1>13 DEF IInv

\* The write takes effect as a whole, or fails and ends the launch.
LEMMA CredWriteStep ==
  ASSUME IInv, NEW l \in Launches, CredWrite(l)
  PROVE  IInv'
<1>1. /\ TypeOK /\ store \in StoreType /\ launch \in [Launches -> LaunchType]
      /\ launch[l] \in LaunchType /\ "box" \in Pcs
  BY DEF IInv, TypeOK, Pcs
<1>2. /\ AtWork(l) /\ launch[l].pc = "write"
      /\ UNCHANGED <<ticket, inbox, page, poll, historyVars>>
  BY DEF CredWrite, AtWork
<1>3. LaunchOK(launch[l], ticket[l], store)
  BY DEF IInv
<1>4. CASE /\ store' = Written(l)
           /\ launch' = [launch EXCEPT ![l].pc = "mstsc", ![l].wrote = TRUE]
           /\ Beacon(l, "credwrite-ok")
  <2> DEFINE mid == [launch[l] EXCEPT !.pc = "mstsc"]
             new == [mid EXCEPT !.wrote = TRUE]
  <2>1. mid \in LaunchType /\ mid.pc = "mstsc" /\ mid.paid = launch[l].paid
    BY <1>1 DEF LaunchType, Pcs
  <2>2. launch' = [launch EXCEPT ![l] = new]
    BY <1>4
  <2> HIDE DEF mid
  <2>3. new \in LaunchType /\ new.pc = "mstsc" /\ new.paid = launch[l].paid /\ new.wrote
    BY <2>1 DEF LaunchType
  <2> HIDE DEF new
  <2>4. launch' \in [Launches -> LaunchType] /\ launch'[l] = new /\ Others(l)
    BY <1>1, <2>2, <2>3 DEF Others
  <2>5. /\ store' \in StoreType /\ store'.domain = "fresh"
        /\ store'.generic = IF launch[l].twin THEN "fresh" ELSE store.generic
    BY <1>1, <1>4 DEF Written, StoreType
  <2>6. LaunchOK(launch'[l], ticket'[l], store')
    BY <1>2, <1>3, <2>3, <2>4, <2>5 DEF LaunchOK, Over
  <2>7. \A k \in Launches \ {l} :
          LaunchOK(launch[k], ticket[k], store) => LaunchOK(launch[k], ticket'[k], store')
    BY <1>2, <2>5 DEF LaunchOK
  <2>8. \A k \in Launches : LaunchOK(launch'[k], ticket'[k], store')
    BY <2>4, <2>6, <2>7, LaunchesOK
  <2>9. /\ srv' \in SrvType /\ srv'.last \in {"new", srv.last} /\ srv'.auth = srv.auth
        /\ left' \in Bounds /\ marred' \in BOOLEAN /\ (marred => marred')
        /\ srv'.card \/ (srv'.card = srv.card /\ marred')
    BY <1>1, <1>4, BeaconEffect DEF Card
  <2>10. TypeOK'
    BY <1>1, <1>2, <2>4, <2>5, <2>9 DEF TypeOK, historyVars
  <2>11. PageOK'
    <3>1. launch'[l].wrote /\ (srv.card => srv'.card)
      BY <2>3, <2>4, <2>9
    <3>2. \A k \in Launches : launch[k].pc = "over" => launch'[k].pc = "over"
      BY <1>2, <2>4 DEF Others
    <3>3. \A k \in Launches : AtWork(k)' => AtWork(k)
      BY <1>2, <2>4 DEF Others, AtWork
    <3>4. page' = page /\ poll' = poll /\ newest' = newest /\ overlap' = overlap
      BY <1>2 DEF historyVars
    <3>5. page.note = "answered" => page.armed
      BY DEF IInv, PageOK
    <3>6. page.note = "answered" \/ poll.last = "new" => srv'.last = "new" \/ marred'
      BY <2>9 DEF IInv, PageOK
    <3>7. page.fix \/ poll.fix \/ srv'.auth # "none" => \E k \in Launches : launch'[k].pc = "over"
      BY <2>9, <3>2 DEF IInv, PageOK
    <3>8. ~overlap => l = newest /\ \A k \in Launches : AtWork(k)' => k = newest
      BY <1>2, <3>3 DEF IInv, PageOK
    <3>9. ~(overlap \/ marred') => (srv'.card <=> newest # None /\ launch'[newest].wrote)
      BY <2>9, <3>1, <3>8 DEF Launches, None
    <3>10. QED
      BY <3>1, <3>4, <3>5, <3>6, <3>7, <3>8, <3>9 DEF PageOK, AtWork
  <2>12. QED
    BY <2>8, <2>10, <2>11 DEF IInv
<1>5. CASE /\ store' \in {store} \cup (IF launch[l].twin THEN {[store EXCEPT !.domain = "fresh"]} ELSE {})
           /\ Boxed(l, "credwrite-failed")
  <2>1. Goto(l, "box") /\ Quiet
    BY <1>1, <1>5, BoxedEffect DEF Loud
  <2>2. /\ store' \in StoreType /\ store'.generic = store.generic
        /\ store'.domain \in {store.domain, "fresh"}
    BY <1>1, <1>5 DEF StoreType
  <2>3. LaunchOK(launch'[l], ticket'[l], store')
    BY <1>1, <1>2, <1>3, <2>1, GotoEffect DEF LaunchOK, Over
  <2>4. \A k \in Launches \ {l} :
          LaunchOK(launch[k], ticket[k], store) => LaunchOK(launch[k], ticket'[k], store')
    BY <1>2, <2>2 DEF LaunchOK
  <2>5. QED
    BY <1>1, <1>2, <2>1, <2>2, <2>3, <2>4, GotoEffect, WorkStep DEF TypeOK
<1>6. QED
  BY <1>4, <1>5 DEF CredWrite

\* An attempt begins, and the launcher it belongs to has stored nothing yet.
LEMMA PageAnew ==
  ASSUME IInv, NEW l \in Launches, NEW beacon \in {"invoked", "redeemed"}, Beacon(l, beacon),
         UNCHANGED <<page, poll>>, ~launch'[l].wrote, overlap => overlap',
         ~overlap' => newest' = l /\ \A k \in Launches : AtWork(k)' => k = l,
         \A k \in Launches : launch'[k].wrote = launch[k].wrote,
         \A k \in Launches : launch[k].pc = "over" => launch'[k].pc = "over"
  PROVE  PageOK'
<1>1. /\ srv'.last \in {"new", srv.last} /\ srv'.auth = srv.auth /\ (marred => marred')
      /\ ~srv'.card \/ (srv'.card = srv.card /\ marred')
  BY BeaconEffect DEF IInv, Card
<1>2. page'.note = "answered" => page'.armed
  BY DEF IInv, PageOK
<1>3. page'.note = "answered" \/ poll'.last = "new" => srv'.last = "new" \/ marred'
  BY <1>1 DEF IInv, PageOK
<1>4. page'.card \/ poll'.card \/ srv'.card => \E k \in Launches : launch'[k].wrote
  BY <1>1 DEF IInv, PageOK
<1>5. page'.fix \/ poll'.fix \/ srv'.auth # "none" => \E k \in Launches : launch'[k].pc = "over"
  BY <1>1 DEF IInv, PageOK
<1>6. ~overlap' => \A k \in Launches : AtWork(k)' => k = newest'
  OBVIOUS
<1>7. ~(overlap' \/ marred') => (srv'.card <=> newest' # None /\ launch'[newest'].wrote)
  BY <1>1
<1>8. QED
  BY <1>2, <1>3, <1>4, <1>5, <1>6, <1>7 DEF PageOK, AtWork

\* A launcher that is invoked has stored nothing; one that finds another at work overlaps.
LEMMA MainStep ==
  ASSUME IInv, NEW l \in Launches, Main(l)
  PROVE  IInv'
<1>1. TypeOK /\ "guard" \in Pcs
  BY DEF IInv, Pcs
<1>2. /\ launch[l].pc = "dispatched" /\ Goto(l, "guard") /\ Beacon(l, "invoked") /\ newest' = l
      /\ overlap' = (overlap \/ \E k \in Launches \ {l} : AtWork(k))
      /\ UNCHANGED <<ticket, inbox, store, page, poll>>
  BY DEF Main
<1>3. /\ launch' \in [Launches -> LaunchType] /\ Others(l) /\ launch'[l].pc = "guard"
      /\ launch'[l].paid = launch[l].paid /\ launch'[l].wrote = launch[l].wrote
  BY <1>1, <1>2, GotoEffect
<1>4. LaunchOK(launch[l], ticket[l], store)
  BY DEF IInv
<1>5. LaunchOK(launch'[l], ticket'[l], store') /\ ~launch'[l].wrote
  BY <1>2, <1>3, <1>4 DEF LaunchOK, Over
<1>6. \A k \in Launches : LaunchOK(launch'[k], ticket'[k], store')
  BY <1>2, <1>3, <1>5, LaunchesOK
<1>7. overlap' \in BOOLEAN
  BY <1>2
<1>8. srv' \in SrvType /\ left' \in Bounds /\ marred' \in BOOLEAN
  BY <1>1, <1>2, BeaconEffect
<1>9. TypeOK'
  BY <1>1, <1>2, <1>3, <1>7, <1>8 DEF TypeOK
<1>10. PageOK'
  <2>1. \A k \in Launches : launch'[k].wrote = launch[k].wrote
    BY <1>3 DEF Others
  <2>2. \A k \in Launches : launch[k].pc = "over" => launch'[k].pc = "over"
    BY <1>2, <1>3 DEF Others
  <2>3. \A k \in Launches \ {l} : AtWork(k)' => AtWork(k)
    BY <1>3 DEF Others, AtWork
  <2>4. ~overlap' => newest' = l /\ \A k \in Launches : AtWork(k)' => k = l
    BY <1>2, <2>3
  <2>5. overlap => overlap'
    BY <1>2
  <2>6. QED
    BY <1>2, <1>5, <2>1, <2>2, <2>4, <2>5, PageAnew
<1>11. QED
  BY <1>6, <1>9, <1>10 DEF IInv

-----------------------------------------------------------------------------
\* The first element of a sequence and the rest.
LEMMA HeadAndTail ==
  ASSUME NEW S, NEW q \in Seq(S), q # <<>>
  PROVE  Head(q) \in S /\ Tail(q) \in Seq(S)
  OBVIOUS

\* A ticket presented is gone, so no answer can pay for it again.
LEMMA RdpCredsStep ==
  ASSUME IInv, RdpCreds
  PROVE  IInv'
<1> DEFINE l == Head(inbox).who
           good == ticket[l] = "young"
           waits == launch[l].pc = "waiting" /\ launch[l].tries = Head(inbox).try
           paid == [launch[l] EXCEPT !.paid = @ + 1]
<1>1. /\ TypeOK /\ launch \in [Launches -> LaunchType] /\ "box" \in Pcs
      /\ ticket \in [Launches -> {"none", "young", "old"}] /\ store \in StoreType
      /\ inbox \in Seq([who : Launches, try : 0..1])
  BY DEF IInv, TypeOK, Pcs
<1>2. /\ inbox # <<>> /\ inbox' = Tail(inbox) /\ ticket' = UseRdpTicket(l)
      /\ UNCHANGED <<store, page, poll, historyVars>>
      /\ \/ UNCHANGED <<launch, srv, leftVars>>
         \/ good /\ launch' = [launch EXCEPT ![l].paid = @ + 1] /\ UNCHANGED <<srv, leftVars>>
         \/ waits /\ good /\ Redeemed(l)
         \/ waits /\ good /\ Boxed(l, "launcher-error")
         \/ waits /\ ~good /\ Fallback(l)
  BY DEF RdpCreds
<1>3. Head(inbox) \in [who : Launches, try : 0..1] /\ inbox' \in Seq([who : Launches, try : 0..1])
  BY <1>1, <1>2, HeadAndTail
<1>4. l \in Launches
  BY <1>3
<1>5. launch[l] \in LaunchType
  BY <1>1, <1>4
<1>6. paid \in LaunchType /\ paid.pc = launch[l].pc /\ paid.paid = launch[l].paid + 1
      /\ paid.wrote = launch[l].wrote /\ paid.native = launch[l].native
      /\ paid.robbed = launch[l].robbed /\ paid.twin = launch[l].twin
  BY <1>5 DEF LaunchType
<1> HIDE DEF l, paid
<1>7. /\ ticket' \in [Launches -> {"none", "young", "old"}] /\ ticket'[l] = "none"
      /\ \A k \in Launches \ {l} : ticket'[k] = ticket[k]
  BY <1>1, <1>2, <1>4 DEF UseRdpTicket
<1>8. LaunchOK(launch[l], ticket[l], store)
  BY <1>4 DEF IInv
<1>9. LaunchOK(launch[l], ticket'[l], store)
  BY <1>7, <1>8 DEF LaunchOK
<1>10. \A k \in Launches \ {l} :
         LaunchOK(launch[k], ticket[k], store) => LaunchOK(launch[k], ticket'[k], store')
  BY <1>2, <1>7
<1>11. waits => AtWork(l)
  BY DEF AtWork
<1>12. CASE UNCHANGED <<launch, srv, leftVars>>
  <2>1. TypeOK'
    BY <1>1, <1>2, <1>3, <1>7, <1>12 DEF TypeOK, leftVars, historyVars
  <2>2. \A k \in Launches : LaunchOK(launch'[k], ticket'[k], store')
    BY <1>2, <1>9, <1>10, <1>12 DEF IInv
  <2>3. PageOK'
    <3>1. Quiet
      BY <1>1, <1>12, NoBeacon
    <3>2. QED
      BY <1>2, <1>12, <3>1, PageStill DEF AtWork
  <2>4. QED
    BY <2>1, <2>2, <2>3 DEF IInv
<1>13. ASSUME good, launch' = [launch EXCEPT ![l].paid = @ + 1], UNCHANGED <<srv, leftVars>>
       PROVE  IInv'
  <2>1. launch' = [launch EXCEPT ![l] = paid]
    BY <1>13 DEF paid
  <2>2. launch' \in [Launches -> LaunchType] /\ launch'[l] = paid /\ Others(l)
    BY <1>1, <1>4, <1>6, <2>1 DEF Others
  <2>3. TypeOK'
    BY <1>1, <1>2, <1>3, <1>7, <1>13, <2>2 DEF TypeOK, leftVars, historyVars
  <2>4. launch[l].paid = 0
    BY <1>5, <1>8, <1>13 DEF LaunchOK, LaunchType
  <2>5. LaunchOK(launch'[l], ticket'[l], store')
    BY <1>2, <1>6, <1>7, <1>8, <1>13, <2>2, <2>4 DEF LaunchOK
  <2>6. \A k \in Launches : LaunchOK(launch'[k], ticket'[k], store')
    BY <1>4, <1>10, <2>2, <2>5, LaunchesOK
  <2>7. PageOK'
    <3>1. Quiet
      BY <1>1, <1>13, NoBeacon
    <3>2. \A k \in Launches : launch'[k].wrote = launch[k].wrote /\ launch'[k].pc = launch[k].pc
      BY <1>6, <2>2 DEF Others
    <3>3. \A k \in Launches : AtWork(k)' => AtWork(k)
      BY <3>2 DEF AtWork
    <3>4. QED
      BY <1>2, <3>1, <3>2, <3>3, PageStill
  <2>8. QED
    BY <2>3, <2>6, <2>7 DEF IInv
<1>14. ASSUME waits, good, Redeemed(l)
       PROVE  IInv'
  <2> DEFINE new == [paid EXCEPT !.pc = "purge"]
  <2>1. launch' = [launch EXCEPT ![l] = new] /\ Beacon(l, "redeemed")
    BY <1>14 DEF Redeemed, paid
  <2>2. new \in LaunchType /\ new.pc = "purge" /\ new.paid = paid.paid /\ new.wrote = paid.wrote
    BY <1>6 DEF LaunchType, Pcs
  <2> HIDE DEF new
  <2>3. launch' \in [Launches -> LaunchType] /\ launch'[l] = new /\ Others(l)
    BY <1>1, <1>4, <2>1, <2>2 DEF Others
  <2>4. launch[l].paid = 0 /\ ~launch[l].wrote
    BY <1>5, <1>8, <1>14 DEF LaunchOK, LaunchType, Over
  <2>5. LaunchOK(launch'[l], ticket'[l], store') /\ ~launch'[l].wrote
    BY <1>6, <1>7, <2>2, <2>3, <2>4 DEF LaunchOK
  <2>6. \A k \in Launches : LaunchOK(launch'[k], ticket'[k], store')
    BY <1>4, <1>10, <2>3, <2>5, LaunchesOK
  <2>7. srv' \in SrvType /\ left' \in Bounds /\ marred' \in BOOLEAN
    BY <1>1, <1>4, <2>1, BeaconEffect
  <2>8. TypeOK'
    BY <1>1, <1>2, <1>3, <1>7, <2>3, <2>7 DEF TypeOK, historyVars
  <2>9. PageOK'
    <3>1. \A k \in Launches : launch'[k].wrote = launch[k].wrote
      BY <1>6, <2>2, <2>3 DEF Others
    <3>2. \A k \in Launches : launch[k].pc = "over" => launch'[k].pc = "over"
      BY <1>14, <2>3 DEF Others
    <3>3. \A k \in Launches : AtWork(k)' => AtWork(k)
      BY <1>14, <2>3 DEF Others, AtWork
    <3>4. newest' = newest /\ overlap' = overlap
      BY <1>2 DEF historyVars
    <3>5. ~overlap' => newest' = l /\ \A k \in Launches : AtWork(k)' => k = l
      BY <1>4, <1>11, <1>14, <3>3, <3>4 DEF IInv, PageOK
    <3>6. QED
      BY <1>2, <1>4, <2>1, <2>5, <3>1, <3>2, <3>4, <3>5, PageAnew
  <2>10. QED
    BY <2>6, <2>8, <2>9 DEF IInv
<1>15. ASSUME waits, Boxed(l, "launcher-error")
       PROVE  IInv'
  <2>1. Goto(l, "box") /\ Quiet
    BY <1>1, <1>4, <1>15, BoxedEffect DEF Loud
  <2>2. /\ launch' \in [Launches -> LaunchType] /\ Others(l) /\ launch'[l].pc = "box"
        /\ launch'[l].paid = launch[l].paid /\ launch'[l].wrote = launch[l].wrote
    BY <1>1, <1>4, <2>1, GotoEffect
  <2>3. LaunchOK(launch'[l], ticket'[l], store')
    BY <1>2, <1>9, <2>2 DEF LaunchOK, Over
  <2>4. QED
    BY <1>1, <1>2, <1>3, <1>4, <1>7, <1>10, <1>11, <1>15, <2>1, <2>2, <2>3, WorkStep
<1>16. ASSUME waits, Fallback(l)
       PROVE  IInv'
  <2>1. /\ launch' \in [Launches -> LaunchType] /\ Others(l) /\ Quiet
        /\ launch'[l].pc \in {"redeem", "prompt", "mstsc"}
        /\ launch'[l].paid = launch[l].paid /\ launch'[l].wrote = launch[l].wrote
        /\ launch'[l].pc = "mstsc" => launch'[l].native \/ HasCredEntry
    BY <1>1, <1>4, <1>16, FallbackEffect
  <2>2. LaunchOK(launch'[l], ticket'[l], store')
    BY <1>2, <1>9, <1>16, <2>1 DEF LaunchOK, Over, HasCredEntry
  <2>3. QED
    BY <1>1, <1>2, <1>3, <1>4, <1>7, <1>10, <1>11, <1>16, <2>1, <2>2, WorkStep
<1>17. QED
  BY <1>2, <1>12, <1>13, <1>14, <1>15, <1>16

-----------------------------------------------------------------------------
\* A launch that is not invoked yet goes on in the browser, unseen by the server.
LEMMA BrowserStep ==
  ASSUME IInv, NEW l \in Launches,
         launch[l].pc \in {"idle", "asking", "issued"}, Others(l),
         launch' \in [Launches -> LaunchType],
         launch'[l].pc \in {"asking", "issued", "refused", "dispatched"},
         launch'[l].paid = launch[l].paid, launch'[l].wrote = launch[l].wrote,
         launch'[l].pc = "asking" => launch[l].pc = "idle" /\ UNCHANGED ticket,
         ticket' \in [Launches -> {"none", "young", "old"}],
         \A k \in Launches \ {l} : ticket'[k] \in {"none", ticket[k]},
         ticket'[l] # ticket[l] => launch[l].pc = "asking",
         Quiet, UNCHANGED <<inbox, store, page, poll, historyVars>>
  PROVE  IInv'
<1>1. LaunchOK(launch[l], ticket[l], store)
  BY DEF IInv
<1>2. LaunchOK(launch'[l], ticket'[l], store')
  BY <1>1 DEF LaunchOK, Over
<1>3. \A k \in Launches \ {l} :
        LaunchOK(launch[k], ticket[k], store) => LaunchOK(launch[k], ticket'[k], store')
  BY DEF LaunchOK
<1>4. \A k \in Launches : LaunchOK(launch'[k], ticket'[k], store')
  BY <1>2, <1>3, LaunchesOK
<1>5. TypeOK'
  BY DEF IInv, TypeOK, Quiet, historyVars
<1>6. PageOK'
  <2>1. \A k \in Launches : launch'[k].wrote = launch[k].wrote
    BY DEF Others
  <2>2. \A k \in Launches : launch[k].pc = "over" => launch'[k].pc = "over"
    BY DEF Others
  <2>3. \A k \in Launches : AtWork(k)' => AtWork(k)
    BY DEF Others, AtWork
  <2>4. QED
    BY <2>1, <2>2, <2>3, PageStill
<1>7. QED
  BY <1>4, <1>5, <1>6 DEF IInv

LEMMA ClickSteps ==
  ASSUME IInv, NEW l \in Launches, NEW kind \in Kinds, Click(l, kind) \/ OpenLink(l, kind)
  PROVE  IInv'
<1> PICK pc \in {"asking", "dispatched"} :
      launch' = [launch EXCEPT ![l].pc = pc, ![l].kind = kind]
  BY DEF Click, OpenLink
<1> DEFINE mid == [launch[l] EXCEPT !.pc = pc]
           new == [mid EXCEPT !.kind = kind]
<1>1. /\ TypeOK /\ launch \in [Launches -> LaunchType] /\ launch[l] \in LaunchType
      /\ launch[l].pc = "idle"
      /\ UNCHANGED <<ticket, inbox, store, srv, page, poll, leftVars, historyVars>>
  BY DEF IInv, TypeOK, Click, OpenLink, Turn
<1>2. /\ mid \in LaunchType /\ mid.pc = pc /\ mid.paid = launch[l].paid
      /\ mid.wrote = launch[l].wrote
  BY <1>1 DEF LaunchType, Pcs
<1>3. launch' = [launch EXCEPT ![l] = new]
  OBVIOUS
<1> HIDE DEF mid
<1>4. new \in LaunchType /\ new.pc = pc /\ new.paid = launch[l].paid /\ new.wrote = launch[l].wrote
  BY <1>2 DEF LaunchType
<1> HIDE DEF new
<1>5. launch' \in [Launches -> LaunchType] /\ launch'[l] = new /\ Others(l)
  BY <1>1, <1>3, <1>4 DEF Others
<1>6. Quiet
  BY <1>1, NoBeacon
<1>7. QED
  BY <1>1, <1>4, <1>5, <1>6, BrowserStep DEF TypeOK

LEMMA IssueTicketStep ==
  ASSUME IInv, NEW l \in Launches, IssueTicket(l)
  PROVE  IInv'
<1>1. /\ TypeOK /\ "issued" \in Pcs /\ launch[l].pc = "asking" /\ Goto(l, "issued")
      /\ UNCHANGED <<inbox, store, srv, page, poll, leftVars, historyVars>>
      /\ ticket \in [Launches -> {"none", "young", "old"}]
  BY DEF IInv, TypeOK, IssueTicket, Pcs
<1>2. /\ ticket' \in [Launches -> {"none", "young", "old"}]
      /\ \A k \in Launches \ {l} : ticket'[k] \in {"none", ticket[k]}
  BY <1>1 DEF IssueTicket
<1>3. Quiet
  BY <1>1, NoBeacon
<1>4. QED
  BY <1>1, <1>2, <1>3, GotoEffect, BrowserStep

LEMMA DispatchFixStep ==
  ASSUME IInv, NEW l \in Launches, DispatchFix(l)
  PROVE  IInv'
<1>1. /\ TypeOK /\ "dispatched" \in Pcs /\ launch[l].pc = "issued" /\ Goto(l, "dispatched")
      /\ UNCHANGED <<ticket, inbox, store, srv, page, poll, leftVars, historyVars>>
      /\ ticket \in [Launches -> {"none", "young", "old"}]
  BY DEF IInv, TypeOK, DispatchFix, Pcs
<1>2. Quiet
  BY <1>1, NoBeacon
<1>3. QED
  BY <1>1, <1>2, GotoEffect, BrowserStep

\* The page's note changes with a click: it does not say that a beacon came.
LEMMA NoteSteps ==
  ASSUME IInv, NEW l \in Launches, TicketRefused(l) \/ DispatchAuto(l)
  PROVE  IInv'
<1>1. /\ TypeOK /\ "dispatched" \in Pcs /\ "refused" \in Pcs
      /\ launch[l].pc \in {"asking", "issued"} /\ UNCHANGED <<ticket, inbox, store, leftVars, historyVars>>
      /\ page \in [note : {"none", "refused", "dispatched", "answered"}, armed : BOOLEAN,
                   card : BOOLEAN, fix : BOOLEAN]
      /\ poll \in [last : {"none", "old", "new"}, card : BOOLEAN, fix : BOOLEAN, sent : BOOLEAN]
      /\ srv \in SrvType
  BY DEF IInv, TypeOK, TicketRefused, DispatchAuto, Pcs
<1>2. PICK pc \in {"dispatched", "refused"} : Goto(l, pc)
  BY DEF TicketRefused, DispatchAuto
<1>3. /\ launch' \in [Launches -> LaunchType] /\ Others(l) /\ launch'[l].pc = pc
      /\ launch'[l].paid = launch[l].paid /\ launch'[l].wrote = launch[l].wrote
  BY <1>1, <1>2, GotoEffect
<1>4. /\ page' \in [note : {"none", "refused", "dispatched", "answered"}, armed : BOOLEAN,
                    card : BOOLEAN, fix : BOOLEAN]
      /\ page'.card = page.card /\ page'.fix = page.fix
      /\ page'.note = "answered" => page.note = "answered" /\ UNCHANGED <<srv, poll>>
      /\ page.armed => page'.armed
  BY <1>1 DEF TicketRefused, DispatchAuto
<1>5. /\ srv' \in SrvType /\ srv'.card = srv.card /\ srv'.auth = srv.auth
      /\ poll' \in [last : {"none", "old", "new"}, card : BOOLEAN, fix : BOOLEAN, sent : BOOLEAN]
      /\ poll'.card = poll.card /\ poll'.fix = poll.fix
      /\ poll'.last = "new" => poll.last = "new" /\ (srv.last = "new" => srv'.last = "new")
  <2>1. CASE UNCHANGED <<srv, poll>>
    BY <1>1, <2>1
  <2>2. CASE ArmHelloWatch
    <3>1. PICK last \in Aged(srv.last, "new") :
            /\ srv' = [srv EXCEPT !.last = last]
            /\ \E seen \in Aged(poll.last, last) : poll' = [poll EXCEPT !.last = seen]
      BY <2>2 DEF ArmHelloWatch
    <3>2. last \in {"none", "old", "new"} /\ (last = "new" => srv.last = "new")
      BY <3>1 DEF Aged
    <3>3. PICK seen \in Aged(poll.last, last) : poll' = [poll EXCEPT !.last = seen]
      BY <3>1
    <3>4. seen \in {"none", "old", "new"} /\ (seen = "new" => poll.last = "new" /\ last = "new")
      BY <3>3 DEF Aged
    <3>5. /\ srv' \in SrvType /\ srv'.card = srv.card /\ srv'.auth = srv.auth /\ srv'.last = last
      BY <1>1, <3>1, <3>2 DEF SrvType
    <3>6. /\ poll' \in [last : {"none", "old", "new"}, card : BOOLEAN, fix : BOOLEAN, sent : BOOLEAN]
          /\ poll'.card = poll.card /\ poll'.fix = poll.fix /\ poll'.last = seen
      BY <1>1, <3>3, <3>4
    <3>7. QED
      BY <3>2, <3>4, <3>5, <3>6
  <2>3. QED
    BY <2>1, <2>2 DEF TicketRefused, DispatchAuto
<1>6. TypeOK'
  BY <1>1, <1>3, <1>4, <1>5 DEF TypeOK, leftVars, historyVars
<1>7. \A k \in Launches : LaunchOK(launch'[k], ticket'[k], store')
  <2>1. LaunchOK(launch[l], ticket[l], store)
    BY DEF IInv
  <2>2. LaunchOK(launch'[l], ticket'[l], store')
    BY <1>1, <1>3, <2>1 DEF LaunchOK, Over
  <2>3. QED
    BY <1>1, <1>3, <2>2, LaunchesOK
<1>8. PageOK'
  <2>1. marred' = marred /\ newest' = newest /\ overlap' = overlap /\ newest \in Launches \cup {None}
    BY <1>1 DEF leftVars, historyVars, TypeOK
  <2>2. \A k \in Launches : launch'[k].wrote = launch[k].wrote
    BY <1>3 DEF Others
  <2>3. \A k \in Launches : launch[k].pc = "over" => launch'[k].pc = "over"
    BY <1>1, <1>3 DEF Others
  <2>4. \A k \in Launches : AtWork(k)' => AtWork(k)
    BY <1>3 DEF Others, AtWork
  <2>5. page'.note = "answered" => page'.armed
    BY <1>4 DEF IInv, PageOK
  <2>6. page'.note = "answered" \/ poll'.last = "new" => srv'.last = "new" \/ marred'
    BY <1>4, <1>5, <2>1 DEF IInv, PageOK
  <2>7. page'.card \/ poll'.card \/ srv'.card => \E k \in Launches : launch'[k].wrote
    BY <1>4, <1>5, <2>2 DEF IInv, PageOK
  <2>8. page'.fix \/ poll'.fix \/ srv'.auth # "none" => \E k \in Launches : launch'[k].pc = "over"
    BY <1>4, <1>5, <2>3 DEF IInv, PageOK
  <2>9. ~overlap' => \A k \in Launches : AtWork(k)' => k = newest'
    BY <2>1, <2>4 DEF IInv, PageOK
  <2>10. ~(overlap' \/ marred') => (srv'.card <=> newest' # None /\ launch'[newest'].wrote)
    <3>1. newest # None => launch'[newest].wrote = launch[newest].wrote
      BY <2>1, <2>2
    <3>2. QED
      BY <1>5, <2>1, <3>1 DEF IInv, PageOK
  <2>11. QED
    BY <2>5, <2>6, <2>7, <2>8, <2>9, <2>10 DEF PageOK, AtWork
<1>9. QED
  BY <1>6, <1>7, <1>8 DEF IInv

\* Windows accepts or refuses a password: the launch is over.
LEMMA LogonStep ==
  ASSUME IInv, NEW l \in Launches, Logon(l)
  PROVE  IInv'
<1>1. /\ TypeOK /\ "over" \in Pcs /\ launch[l].pc = "running" /\ Goto(l, "over") /\ srv \in SrvType
      /\ UNCHANGED <<ticket, inbox, store, page, poll, leftVars, historyVars>>
  BY DEF IInv, TypeOK, Logon, Pcs
<1>2. /\ launch' \in [Launches -> LaunchType] /\ Others(l) /\ launch'[l].pc = "over"
      /\ launch'[l].paid = launch[l].paid /\ launch'[l].wrote = launch[l].wrote
  BY <1>1, GotoEffect
<1>3. PICK auth \in {"success", "failed"}, near \in BOOLEAN :
        srv' = [srv EXCEPT !.auth = auth, !.near = near]
  BY DEF Logon
<1>4. srv' \in SrvType /\ srv'.last = srv.last /\ srv'.card = srv.card
  BY <1>1, <1>3 DEF SrvType
<1>5. TypeOK'
  BY <1>1, <1>2, <1>4 DEF TypeOK, leftVars, historyVars
<1>6. \A k \in Launches : LaunchOK(launch'[k], ticket'[k], store')
  <2>1. LaunchOK(launch[l], ticket[l], store)
    BY DEF IInv
  <2>2. LaunchOK(launch'[l], ticket'[l], store')
    BY <1>1, <1>2, <2>1 DEF LaunchOK, Over
  <2>3. QED
    BY <1>1, <1>2, <2>2, LaunchesOK
<1>7. PageOK'
  <2>1. marred' = marred /\ newest' = newest /\ overlap' = overlap /\ newest \in Launches \cup {None}
    BY <1>1 DEF leftVars, historyVars, TypeOK
  <2>2. \A k \in Launches : launch'[k].wrote = launch[k].wrote
    BY <1>2 DEF Others
  <2>3. \A k \in Launches : AtWork(k)' => AtWork(k)
    BY <1>2 DEF Others, AtWork
  <2>4. /\ page'.note = "answered" => page'.armed
        /\ page'.note = "answered" \/ poll'.last = "new" => srv'.last = "new" \/ marred'
    BY <1>1, <1>4, <2>1 DEF IInv, PageOK
  <2>5. page'.card \/ poll'.card \/ srv'.card => \E k \in Launches : launch'[k].wrote
    BY <1>1, <1>4, <2>2 DEF IInv, PageOK
  <2>6. \E k \in Launches : launch'[k].pc = "over"
    BY <1>2
  <2>7. ~overlap' => \A k \in Launches : AtWork(k)' => k = newest'
    BY <2>1, <2>3 DEF IInv, PageOK
  <2>8. ~(overlap' \/ marred') => (srv'.card <=> newest' # None /\ launch'[newest'].wrote)
    <3>1. newest # None => launch'[newest].wrote = launch[newest].wrote
      BY <2>1, <2>2
    <3>2. QED
      BY <1>4, <2>1, <3>1 DEF IInv, PageOK
  <2>9. QED
    BY <2>4, <2>5, <2>6, <2>7, <2>8 DEF PageOK, AtWork
<1>8. QED
  BY <1>5, <1>6, <1>7 DEF IInv

-----------------------------------------------------------------------------
\* The server answers a poll, and the page believes it.
LEMMA PollSteps ==
  ASSUME IInv, NativeStatus \/ SetNativeStatus \/ PollFails
  PROVE  IInv'
<1> DEFINE Polls == [last : {"none", "old", "new"}, card : BOOLEAN, fix : BOOLEAN, sent : BOOLEAN]
           Pages == [note : {"none", "refused", "dispatched", "answered"}, armed : BOOLEAN,
                     card : BOOLEAN, fix : BOOLEAN]
<1>1. /\ TypeOK /\ srv \in SrvType /\ poll \in Polls /\ page \in Pages
      /\ UNCHANGED <<launch, ticket, inbox, store, srv, leftVars, historyVars>>
  BY DEF IInv, TypeOK, NativeStatus, SetNativeStatus, PollFails
<1>2. NoPoll \in Polls /\ NoPoll.last = "none" /\ ~NoPoll.card /\ ~NoPoll.fix
  BY DEF NoPoll
<1>3. /\ poll' \in Polls
      /\ poll'.last = "new" => srv.last = "new"  \/ poll.last = "new"
      /\ poll'.card => srv.card \/ poll.card
      /\ poll'.fix => srv.auth # "none" \/ poll.fix
  <2>1. CASE NativeStatus
    <3>1. RecoveryDecision \in BOOLEAN /\ (RecoveryDecision => srv.auth # "none")
      BY <1>1 DEF RecoveryDecision, SrvType
    <3>2. poll' = [last |-> srv.last, card |-> srv.card, fix |-> RecoveryDecision, sent |-> TRUE]
      BY <2>1 DEF NativeStatus
    <3>3. srv.last \in {"none", "old", "new"} /\ srv.card \in BOOLEAN
      BY <1>1 DEF SrvType
    <3>4. poll' \in Polls
      BY <3>1, <3>2, <3>3
    <3>5. QED
      BY <3>1, <3>2, <3>4
  <2>2. CASE poll' = NoPoll
    BY <1>2, <2>2
  <2>3. QED
    BY <2>1, <2>2 DEF SetNativeStatus, PollFails
<1>4. /\ page' \in Pages
      /\ page'.note = "answered" => page.note = "answered" \/ (page.armed /\ poll.last = "new")
      /\ page'.armed = page.armed
      /\ page'.card => page.card \/ poll.card
      /\ page'.fix => page.fix \/ poll.fix
  <2>1. CASE SetNativeStatus
    <3> DEFINE note == IF BeaconCounts(poll.last) THEN "answered" ELSE page.note
    <3>1. page' = [page EXCEPT !.note = note, !.card = poll.card, !.fix = poll.fix]
      BY <2>1 DEF SetNativeStatus
    <3>2. /\ note \in {"none", "refused", "dispatched", "answered"}
          /\ note = "answered" => page.note = "answered" \/ (page.armed /\ poll.last = "new")
      BY <1>1 DEF BeaconCounts
    <3> HIDE DEF note
    <3>3. page' = [note |-> note, armed |-> page.armed, card |-> poll.card, fix |-> poll.fix]
      BY <1>1, <3>1
    <3>4. page' \in Pages
      BY <1>1, <3>2, <3>3
    <3>5. QED
      BY <3>2, <3>3, <3>4
  <2>2. CASE page' = page
    BY <1>1, <2>2
  <2>3. QED
    BY <2>1, <2>2 DEF NativeStatus, PollFails
<1>5. TypeOK'
  BY <1>1, <1>3, <1>4 DEF TypeOK, leftVars, historyVars
<1>6. PageOK'
  BY <1>1, <1>3, <1>4 DEF IInv, PageOK, AtWork, leftVars, historyVars
<1>7. QED
  BY <1>1, <1>5, <1>6 DEF IInv

LEMMA TicketAgesStep ==
  ASSUME IInv, NEW l \in Launches, TicketAges(l)
  PROVE  IInv'
<1>1. /\ TypeOK /\ ticket[l] = "young" /\ ticket' = [ticket EXCEPT ![l] = "old"]
      /\ left.aged > 0 /\ left' = [left EXCEPT !.aged = @ - 1] /\ UNCHANGED marred
      /\ UNCHANGED <<launch, inbox, store, srv, page, poll, historyVars>>
      /\ left \in Bounds /\ ticket \in [Launches -> {"none", "young", "old"}]
  BY DEF IInv, TypeOK, TicketAges
<1>2. left' \in Bounds
  <2>1. left.aged - 1 \in Nat
    BY <1>1 DEF Bounds
  <2>2. QED
    BY <1>1, <2>1 DEF Bounds
<1>3. TypeOK'
  BY <1>1, <1>2 DEF TypeOK, historyVars
<1>4. \A k \in Launches : LaunchOK(launch[k], ticket'[k], store)
  BY <1>1 DEF IInv, LaunchOK
<1>5. PageOK'
  BY <1>1 DEF IInv, PageOK, AtWork, historyVars
<1>6. QED
  BY <1>1, <1>3, <1>4, <1>5 DEF IInv

LEMMA ServerRestartsStep ==
  ASSUME IInv, ServerRestarts
  PROVE  IInv'
<1>1. /\ TypeOK /\ left.restarts > 0 /\ left' = [left EXCEPT !.restarts = @ - 1] /\ marred'
      /\ ticket' = [l \in Launches |-> "none"] /\ inbox' = <<>>
      /\ srv' = [srv EXCEPT !.last = "none", !.card = FALSE, !.started = None]
      /\ UNCHANGED <<launch, store, page, poll, historyVars>>
      /\ left \in Bounds /\ srv \in SrvType /\ marred' = TRUE
  BY DEF IInv, TypeOK, ServerRestarts
<1>2. left' \in Bounds
  <2>1. left.restarts - 1 \in Nat
    BY <1>1 DEF Bounds
  <2>2. QED
    BY <1>1, <2>1 DEF Bounds
<1>3. srv' \in SrvType /\ ~srv'.card /\ srv'.auth = srv.auth
  <2> DEFINE s1 == [srv EXCEPT !.last = "none"]
             s2 == [s1 EXCEPT !.card = FALSE]
             s3 == [s2 EXCEPT !.started = None]
  <2>1. s1 \in SrvType /\ s1.auth = srv.auth
    BY <1>1 DEF SrvType
  <2>2. srv' = s3
    BY <1>1
  <2> HIDE DEF s1
  <2>3. s2 \in SrvType /\ s2.auth = srv.auth /\ ~s2.card
    BY <2>1 DEF SrvType
  <2> HIDE DEF s2
  <2>4. s3 \in SrvType /\ s3.auth = srv.auth /\ ~s3.card
    BY <2>3 DEF SrvType
  <2> HIDE DEF s3
  <2>5. QED
    BY <2>2, <2>4
<1>4. inbox' \in Seq([who : Launches, try : 0..1])
  <2>1. <<>> \in Seq([who : Launches, try : 0..1])
    OBVIOUS
  <2>2. QED
    BY <1>1, <2>1
<1>5. ticket' \in [Launches -> {"none", "young", "old"}]
  BY <1>1
<1>6. TypeOK'
  BY <1>1, <1>2, <1>3, <1>4, <1>5 DEF TypeOK, historyVars
<1>7. \A k \in Launches : LaunchOK(launch[k], ticket'[k], store)
  BY <1>1 DEF IInv, LaunchOK
<1>8. PageOK'
  BY <1>1, <1>3 DEF IInv, PageOK, AtWork, historyVars
<1>9. QED
  BY <1>1, <1>6, <1>7, <1>8 DEF IInv

-----------------------------------------------------------------------------
LEMMA InitIInv ==
  ASSUME Init
  PROVE  IInv
<1>1. left \in Bounds /\ store = left.store
  BY AutoLoginAssumption DEF Init
<1>2. store \in StoreType
  BY <1>1 DEF Bounds, StoreType
<1>3. Asleep \in LaunchType
  BY DEF Asleep, LaunchType, Pcs
<1>4. launch \in [Launches -> LaunchType] /\ \A l \in Launches : launch[l] = Asleep
  BY <1>3 DEF Init
<1>5. ticket \in [Launches -> {"none", "young", "old"}] /\ \A l \in Launches : ticket[l] = "none"
  BY DEF Init
<1>6. <<>> \in Seq([who : Launches, try : 0..1])
  OBVIOUS
<1>7. srv \in SrvType
  BY DEF Init, SrvType
<1>8. page \in [note : {"none", "refused", "dispatched", "answered"}, armed : BOOLEAN,
                card : BOOLEAN, fix : BOOLEAN]
  BY DEF Init
<1>9. poll \in [last : {"none", "old", "new"}, card : BOOLEAN, fix : BOOLEAN, sent : BOOLEAN]
  BY DEF Init, NoPoll
<1>10. TypeOK
  BY <1>1, <1>2, <1>4, <1>5, <1>6, <1>7, <1>8, <1>9 DEF Init, TypeOK
<1>11. \A l \in Launches : LaunchOK(launch[l], ticket[l], store)
  BY <1>4, <1>5 DEF LaunchOK, Asleep, Over
<1>12. PageOK
  BY <1>4 DEF Init, PageOK, NoPoll, Asleep, AtWork
<1>13. QED
  BY <1>10, <1>11, <1>12 DEF IInv

LEMMA NextIInv ==
  ASSUME IInv, [Next]_vars
  PROVE  IInv'
<1>1. ASSUME NEW l \in Launches,
             \/ \E kind \in Kinds : Click(l, kind) \/ OpenLink(l, kind)
             \/ IssueTicket(l) \/ TicketRefused(l) \/ DispatchAuto(l) \/ DispatchFix(l)
             \/ TicketAges(l) \/ Main(l) \/ LauncherStep(l) \/ Missing(l) \/ Logon(l)
      PROVE  IInv'
  <2>1. CASE \E kind \in Kinds : Click(l, kind) \/ OpenLink(l, kind)
    BY <2>1, ClickSteps
  <2>2. CASE IssueTicket(l) \/ TicketRefused(l) \/ DispatchAuto(l) \/ DispatchFix(l)
    BY <2>2, IssueTicketStep, NoteSteps, DispatchFixStep
  <2>3. CASE TicketAges(l) \/ Main(l) \/ Missing(l) \/ Logon(l)
    BY <2>3, TicketAgesStep, MainStep, MissingStep, LogonStep
  <2>4. CASE LauncherStep(l)
    BY <2>4, DoWorkStep, RedeemStep, RedeemTimesOutStep, PurgeStep, CredWriteStep, PromptStep,
       VerifyStep, MstscStep DEF LauncherStep
  <2>5. QED
    BY <1>1, <2>1, <2>2, <2>3, <2>4
<1>2. CASE NativeStatus \/ SetNativeStatus \/ PollFails
  BY <1>2, PollSteps
<1>3. CASE RdpCreds \/ ServerRestarts
  BY <1>3, RdpCredsStep, ServerRestartsStep
<1>4. CASE UNCHANGED vars
  BY <1>4 DEF vars, leftVars, historyVars, IInv, TypeOK, PageOK, AtWork
<1>5. QED
  BY <1>1, <1>2, <1>3, <1>4 DEF Next

\* IInv holds in every reachable state.
THEOREM AutoLoginInvariance == Spec => []IInv
<1>1. Init => IInv
  BY InitIInv
<1>2. IInv /\ [Next]_vars => IInv'
  BY NextIInv
<1>3. QED
  BY <1>1, <1>2, PTL DEF Spec

\* A ticket is paid for at most once, however redemptions time out, are
\* retried or arrive late, and what is written was paid for.
THEOREM PaidOnce == Spec => []TicketsPayOnce
<1>1. IInv => TicketsPayOnce
  BY DEF IInv, LaunchOK, TicketsPayOnce
<1>2. QED
  BY <1>1, AutoLoginInvariance, PTL

\* Windows holds an entry for the host, after a redemption this run's and none
\* of an earlier run, when mstsc is started without a prompt and undisturbed.
THEOREM CredentialsHeld == Spec => []CredentialsAreReal
<1>1. IInv => CredentialsAreReal
  BY DEF IInv, LaunchOK, CredentialsAreReal, HasCredEntry
<1>2. QED
  BY <1>1, AutoLoginInvariance, PTL

\* The page says of launchers, credentials and refused passwords only what was.
THEOREM PageIsTrue == Spec => []PageTellsTheTruth
<1>1. IInv => PageTellsTheTruth
  BY DEF IInv, PageOK, PageTellsTheTruth
<1>2. QED
  BY <1>1, AutoLoginInvariance, PTL
=============================================================================
