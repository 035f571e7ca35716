---------------------------- MODULE SearchSession ----------------------------
(***************************************************************************)
(* A federated search: the page's store (src/stores/searchStore.ts) and    *)
(* the three routes of the server it talks to (/api/search, .../status and *)
(* .../cancel in payloads/ghrdp-server.ps1).                               *)
(*                                                                         *)
(* Every request is an awaited fetch, so a request, its answer and the     *)
(* user's next click interleave freely; answers may overtake one another,  *)
(* get lost, or find that the server was restarted.  The server handles    *)
(* one request at a time, and a search's fan-out runs inside the request   *)
(* that creates it.                                                        *)
(*                                                                         *)
(* A submitted search is named by its queryGeneration: the store creates   *)
(* at most one server search per generation, so the number also stands for *)
(* the searchId.  Row i of a search is the i-th entry of its resultOrder.  *)
(***************************************************************************)
EXTENDS Naturals, Sequences, FiniteSets

CONSTANTS
  Calls,        \* bound: requests in flight at one time
  Adapters,     \* sources a search may ask for
  Served,       \* the sources this server build has a helper for
  PageSize,     \* rows of one status answer
  MaxRows,      \* bound: rows of one search
  MaxGen,       \* bound: searches submitted
  MaxRestarts   \* bound: server restarts

ASSUME SearchAssumption ==
  /\ Calls # {} /\ Adapters # {} /\ Served \subseteq Adapters
  /\ PageSize \in Nat \ {0}
  /\ MaxRows \in Nat /\ MaxGen \in Nat /\ MaxRestarts \in Nat

VARIABLES
  gen,         \* queryGeneration
  sid,         \* searchId of the store; 0 while there is none
  phase,       \* phase shown
  cancelling,  \* a cancel was clicked and is not answered yet
  cursor,      \* cursor of the next page
  shown,       \* the store's resultOrder: <<search, row>> pairs
  calls,       \* the requests in flight
  searches,    \* the server's F56dSearchMap: search -> record
  asked,       \* searches the user clicked cancel for (history)
  restarts     \* server restarts so far

store == <<gen, sid, phase, cancelling, cursor, shown>>
server == <<searches, restarts>>
vars == <<store, calls, server, asked>>

Live == {"queued", "running", "partial"}
Phases == Live \cup {"idle", "complete", "empty", "failed", "cancelled"}
Statuses == {"absent", "queued", "complete", "empty", "failed", "cancelled"}

\* A request; ok, phase, upto and next describe its answer.
Call == [kind : {"none", "create", "status", "cancel"}, gen : 0..MaxGen,
         cursor : 0..MaxRows, answered : BOOLEAN, ok : BOOLEAN,
         phase : Phases, upto : 0..MaxRows, next : 0..MaxRows]

NoCall == [kind |-> "none", gen |-> 0, cursor |-> 0, answered |-> FALSE,
           ok |-> FALSE, phase |-> "idle", upto |-> 0, next |-> 0]
Request(k, g, cur) == [NoCall EXCEPT !.kind = k, !.gen = g, !.cursor = cur]

Search == [status : [Adapters -> Statuses], rows : 0..MaxRows, cancelled : BOOLEAN]

Lesser(a, b) == IF a < b THEN a ELSE b

-----------------------------------------------------------------------------
\* The server.

Ran(s) == {a \in Adapters : s.status[a] \notin {"absent", "queued"}}
FailedAdapters(s) == {a \in Adapters : s.status[a] = "failed"}

\* Get-F70SearchPhase.
SearchPhase(s) ==
  CASE s.cancelled -> "cancelled"
    [] ~s.cancelled /\ s.rows > 0 -> "complete"
    [] ~s.cancelled /\ s.rows = 0 /\ Ran(s) = {} -> "running"
    [] ~s.cancelled /\ s.rows = 0 /\ Ran(s) # {} ->
         IF FailedAdapters(s) = Ran(s) THEN "failed" ELSE "empty"

\* The searches a create request may leave behind: a source without a helper
\* stays queued, the others have answered; rows come from complete sources.
NewSearch(s) ==
  /\ s.cancelled = FALSE
  /\ \E a \in Adapters : s.status[a] # "absent"
  /\ \A a \in Adapters : s.status[a] = "queued" <=> (s.status[a] # "absent" /\ a \notin Served)
  /\ \A a \in Adapters : s.status[a] # "cancelled"
  /\ s.rows > 0 <=> \E a \in Adapters : s.status[a] = "complete"

SearchCancelled(s) ==
  [s EXCEPT !.cancelled = TRUE,
            !.status = [a \in Adapters |->
               IF @[a] \in {"absent", "complete", "empty"} THEN @[a] ELSE "cancelled"]]

Init ==
  /\ gen = 0 /\ sid = 0 /\ phase = "idle" /\ cancelling = FALSE
  /\ cursor = 0 /\ shown = <<>>
  /\ calls = [c \in Calls |-> NoCall]
  /\ searches = [g \in {} |-> 0] /\ restarts = 0
  /\ asked = {}

Sent(c, k) == calls[c].kind = k /\ ~calls[c].answered

Answer(c, ph, upto, next) ==
  calls' = [calls EXCEPT ![c].answered = TRUE, ![c].ok = TRUE,
                         ![c].phase = ph, ![c].upto = upto, ![c].next = next]

\* POST /api/search.
ServeCreate(c) ==
  /\ Sent(c, "create")
  /\ \E s \in {t \in Search : NewSearch(t)} :
       /\ searches' = [g \in DOMAIN searches \cup {calls[c].gen} |->
                         IF g = calls[c].gen THEN s ELSE searches[g]]
       /\ Answer(c, SearchPhase(s), 0, 0)
  /\ UNCHANGED <<store, restarts, asked>>

\* GET /api/search/status: one page from the cursor; no cursor after the last.
ServeStatus(c) ==
  /\ Sent(c, "status")
  /\ calls[c].gen \in DOMAIN searches
  /\ LET s == searches[calls[c].gen]
         upto == Lesser(calls[c].cursor + PageSize, s.rows)
     IN Answer(c, SearchPhase(s), upto, IF upto < s.rows THEN upto ELSE 0)
  /\ UNCHANGED <<store, server, asked>>

\* POST /api/search/cancel: idempotent.
ServeCancel(c) ==
  /\ Sent(c, "cancel")
  /\ calls[c].gen \in DOMAIN searches
  /\ searches' = [searches EXCEPT ![calls[c].gen] = SearchCancelled(@)]
  /\ Answer(c, "cancelled", 0, 0)
  /\ UNCHANGED <<store, restarts, asked>>

\* The call fails for the page: refused, lost on the way there or back, or
\* about a search a restarted server does not know.
Fail(c) ==
  /\ calls[c].kind # "none"
  /\ ~(calls[c].answered /\ ~calls[c].ok)
  /\ calls' = [calls EXCEPT ![c].answered = TRUE, ![c].ok = FALSE]
  /\ UNCHANGED <<store, server, asked>>

\* The search map lives in the memory of the server process.
ServerRestart ==
  /\ restarts < MaxRestarts
  /\ restarts' = restarts + 1
  /\ searches' = [g \in {} |-> 0]
  /\ UNCHANGED <<store, calls, asked>>

-----------------------------------------------------------------------------
\* The page.

Send(c, call) == calls[c].kind = "none" /\ calls' = [calls EXCEPT ![c] = call]
Done(c) == calls' = [calls EXCEPT ![c] = NoCall]
Answered(c, k) == calls[c].kind = k /\ calls[c].answered
Current(c) == calls[c].gen = gen

\* submit(): everything of the previous search is dropped before the request.
Submit(c) ==
  /\ gen < MaxGen
  /\ gen' = gen + 1
  /\ sid' = 0 /\ phase' = "queued" /\ cancelling' = FALSE
  /\ cursor' = 0 /\ shown' = <<>>
  /\ Send(c, Request("create", gen + 1, 0))
  /\ UNCHANGED <<server, asked>>

SubmitShortNoPhase ==  \* mutant: a short query leaves no phase
  /\ phase' = ""
  /\ UNCHANGED <<gen, sid, cancelling, cursor, shown, calls, server, asked>>

\* submit() of fewer than three characters: a hint, and the phase is idle.
SubmitShort ==
  /\ phase' = "idle"
  /\ UNCHANGED <<gen, sid, cancelling, cursor, shown, calls, server, asked>>

Drop(c) == Done(c) /\ UNCHANGED <<store, server, asked>>

\* The guard of pollOnce().
MayPoll(s, ph, flag) == s # 0 /\ ~flag /\ ph # "cancelled"

CreateFailed(c) ==
  /\ ~calls[c].ok
  /\ phase' = "failed"
  /\ Done(c)
  /\ UNCHANGED <<gen, sid, cancelling, cursor, shown, server, asked>>

\* The search is accepted; the first status request follows at once.
CreateOk(c) ==
  /\ calls[c].ok
  /\ sid' = calls[c].gen
  /\ phase' = calls[c].phase
  /\ IF MayPoll(sid', phase', cancelling)
     THEN calls' = [calls EXCEPT ![c] = Request("status", gen, cursor)]
     ELSE Done(c)
  /\ UNCHANGED <<gen, cancelling, cursor, shown, server, asked>>

\* The rest of submit() after its await.
CreateReply(c) ==
  /\ Answered(c, "create")
  /\ \/ ~Current(c) /\ Drop(c)
     \/ Current(c) /\ (CreateFailed(c) \/ CreateOk(c))

PollQueuedOnly(c) ==  \* mutant: a search the server calls running is not polled
  /\ phase = "queued"
  /\ MayPoll(sid, phase, cancelling)
  /\ Send(c, Request("status", gen, cursor))
  /\ UNCHANGED <<store, server, asked>>

\* The page's interval calls pollOnce() while the search is live.
Poll(c) ==
  /\ phase \in Live
  /\ MayPoll(sid, phase, cancelling)
  /\ Send(c, Request("status", gen, cursor))
  /\ UNCHANGED <<store, server, asked>>

Page(c) == [i \in 1..(calls[c].upto - calls[c].cursor) |-> <<calls[c].gen, calls[c].cursor + i>>]

\* The rows of a page at the positions P, in the order of the page.
RowsAt(page, P) ==
  [k \in 1..Cardinality(P) |->
     page[CHOOSE i \in P : Cardinality({h \in P : h < i}) = k - 1]]

\* Rows already known are not listed again.
Merged(old, page) ==
  old \o RowsAt(page, {i \in DOMAIN page : \A k \in DOMAIN old : old[k] # page[i]})

PollFailed(c) ==
  /\ ~calls[c].ok
  /\ phase' = "failed"
  /\ Done(c)
  /\ UNCHANGED <<gen, sid, cancelling, cursor, shown, server, asked>>

PollOk(c) ==
  /\ calls[c].ok
  /\ phase' = calls[c].phase
  /\ shown' = Merged(shown, Page(c))
  /\ cursor' = calls[c].next
  /\ Done(c)
  /\ UNCHANGED <<gen, sid, cancelling, server, asked>>

PollReplyUnchecked(c) ==  \* mutant: no generation check after the await
  Answered(c, "status") /\ (PollFailed(c) \/ PollOk(c))

\* The rest of pollOnce() after its await.
PollReply(c) ==
  /\ Answered(c, "status")
  /\ \/ ~Current(c) /\ Drop(c)
     \/ Current(c) /\ (PollFailed(c) \/ PollOk(c))

\* cancelSearch(); its button is enabled while the search is live.
Cancel(c) ==
  /\ phase \in Live
  /\ sid # 0 /\ ~cancelling
  /\ cancelling' = TRUE
  /\ asked' = asked \cup {gen}
  /\ Send(c, Request("cancel", sid, 0))
  /\ UNCHANGED <<gen, sid, phase, cursor, shown, server>>

\* The rest of cancelSearch() after its await: whatever is submitted by now.
CancelReply(c) ==
  /\ Answered(c, "cancel")
  /\ phase' = IF calls[c].ok THEN "cancelled" ELSE phase
  /\ cancelling' = FALSE
  /\ Done(c)
  /\ UNCHANGED <<gen, sid, cursor, shown, server, asked>>

-----------------------------------------------------------------------------
Serve(c) == ServeCreate(c) \/ ServeStatus(c) \/ ServeCancel(c)
Resume(c) == CreateReply(c) \/ PollReply(c) \/ CancelReply(c)

Next ==
  \/ \E c \in Calls : Submit(c) \/ Poll(c) \/ Cancel(c) \/ Serve(c) \/ Fail(c) \/ Resume(c)
  \/ SubmitShort
  \/ ServerRestart

Spec == Init /\ [][Next]_vars

\* Every request is answered or fails, every answer is handled, and the
\* interval keeps ticking: a cancel in flight blocks pollOnce(), but a user
\* does not keep one in flight at every tick.
Fairness ==
  /\ \A c \in Calls : WF_vars(Serve(c) \/ Fail(c)) /\ WF_vars(Resume(c))
  /\ SF_vars(\E c \in Calls : Poll(c))

FairSpec == Spec /\ Fairness

-----------------------------------------------------------------------------
TypeOK ==
  /\ gen \in 0..MaxGen
  /\ sid \in 0..MaxGen
  /\ phase \in Phases
  /\ cancelling \in BOOLEAN
  /\ cursor \in 0..MaxRows
  /\ shown \in Seq((1..MaxGen) \X (1..MaxRows))
  /\ calls \in [Calls -> Call]
  /\ DOMAIN searches \subseteq 1..gen
  /\ \A g \in DOMAIN searches : searches[g] \in Search
  /\ asked \subseteq 1..gen
  /\ restarts \in 0..MaxRestarts

\* The page polls and cancels the search it shows: however late the answer to
\* an earlier submit arrives, it never becomes the current searchId.
SearchIdCurrent == sid # 0 => sid = gen

\* The rows shown are the first rows of the current search in the server's
\* order, each once, whichever status answers arrive, twice or out of order.
RowsInServerOrder == \A i \in DOMAIN shown : shown[i] = <<gen, i>>

InFlight(k) == {c \in Calls : calls[c].kind = k}
Quiet == \A c \in Calls : calls[c].kind = "none"

\* A finished search is not blank: when nothing is in flight any more and the
\* phase is complete (so the interval has stopped), rows are on the page.
CompleteShowsRows == Quiet /\ phase = "complete" => shown # <<>>

\* A page that says "searching" is never abandoned: its create request is in
\* flight, or there is a searchId for the interval to ask about.
LiveIsPolled ==
  phase \in Live => sid = gen \/ \E c \in InFlight("create") : Current(c)

\* The page belongs to the current search alone, its id and all its rows, and
\* is not dead: not one that still says "searching" with nothing to ask about,
\* nor a blank one that says "complete".
PageIsCurrent ==
  /\ SearchIdCurrent /\ RowsInServerOrder
  /\ LiveIsPolled /\ CompleteShowsRows

\* What the store's header says of stale responses: the page shows "cancelled"
\* only for a search the user cancelled.  It does not hold of this code: the
\* answer to a cancel is applied without a look at the generation.
CancelledMeansAsked == phase = "cancelled" => gen \in asked

\* What the server has settled, by an answer or by a cancel, the page learns,
\* even when older answers arrive in between (unless it is asked something new).
Settled(g) == g \in DOMAIN searches /\ SearchPhase(searches[g]) # "running"
PageLearns ==
  \A g \in 1..MaxGen :
    (gen = g /\ Settled(g) /\ phase \in Live) ~> (gen # g \/ phase \notin Live)
\* A cancel that was clicked is always answered: the button comes back.
CancelReturns == cancelling ~> ~cancelling

\* The page is told in the end what became of its search and of a cancel.
PageIsTold == PageLearns /\ CancelReturns

-----------------------------------------------------------------------------
\* The inductive invariant.  A request belongs to a search that was submitted,
\* and one of the current search finds the store as it left it, or further on.
CallOK(r, g, s, busy, n) ==
  r.kind # "none" =>
    /\ r.gen \in 1..g
    /\ r.gen = g /\ r.kind = "create" => s = 0 /\ ~busy
    /\ r.gen = g /\ r.kind = "status" => s = g /\ r.cursor <= n
    /\ r.kind = "status" /\ r.answered /\ r.ok =>
         /\ r.next <= r.upto
         /\ r.phase = "complete" => r.upto > 0

CallsOK == \A c \in Calls : CallOK(calls[c], gen, sid, cancelling, Len(shown))

\* A search is created once.
OneCreate ==
  \A c, d \in InFlight("create") : Current(c) /\ Current(d) => c = d

\* While the page is blank although complete, its rows are being asked for.
BlankIsAsked ==
  phase = "complete" /\ shown = <<>> => \E c \in InFlight("status") : Current(c)

IInv ==
  /\ TypeOK
  /\ CallsOK
  /\ cursor <= Len(shown)
  /\ SearchIdCurrent /\ RowsInServerOrder /\ LiveIsPolled
  /\ OneCreate /\ BlankIsAsked
=============================================================================
