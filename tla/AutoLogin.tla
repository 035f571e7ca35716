------------------------------ MODULE AutoLogin ------------------------------
(***************************************************************************)
(* WINDOWS AUTO-LOGIN and FIX & RECONNECT: a click asks the server for a   *)
(* ticket that is good once and for a minute, and opens a ghrdp:// link    *)
(* with it (stores/sessionStore.ts).  The launcher on the operator's PC    *)
(* (payloads/ghrdp-rdp-launcher.cs), one process per link, exchanges the   *)
(* ticket for the credential, replaces what Windows stores for the host,   *)
(* and starts mstsc; at each step it posts a beacon.  What the page tells  *)
(* the operator comes from the beacons, by way of polls.                   *)
(*                                                                         *)
(* Time is a choice: a ticket ages, and whether a beacon is less than ten  *)
(* seconds older than a click is chosen when the click arms the watch.     *)
(* Left out: what addresses, names and source checks decide; beacons that  *)
(* change nothing here; the telescope of a launch, which stores nothing    *)
(* and blocks nothing; the other four checks of the dispatch card.         *)
(***************************************************************************)
EXTENDS Naturals, Sequences

CONSTANTS MaxLaunches,  \* bound: clicks and links
          Scopes        \* bounds: what is clicked or opened, in this order; beacons that
                        \* do not arrive; tickets that get old; restarts of the server;
                        \* what Windows holds for the host to begin with

Launches == 1..MaxLaunches
None == 0

(* The page's two clicks, its RUN CHECK, and a ghrdp link without a ticket. *)
Kinds == {"auto", "fix", "check", "link"}

Bounds == [kinds : Seq(Kinds), lost : Nat, aged : Nat, restarts : Nat,
           store : [domain : {"none", "stale"}, generic : {"none", "stale"}]]

ASSUME AutoLoginAssumption ==
  /\ MaxLaunches \in Nat \ {0}
  /\ Scopes \subseteq Bounds /\ \A s \in Scopes : Len(s.kinds) <= MaxLaunches

VARIABLES launch,    \* each launch, from the click to the end of its process
          ticket,    \* the server's tickets, one per click: none, young, old
          inbox,     \* redemptions that the server has not read yet
          store,     \* the two entries Windows can hold for the host
          srv,       \* what the server has heard and seen
          page,      \* what the page shows
          poll,      \* the status poll under way: what the server answered
          left,      \* what may still happen
          marred,    \* history: a beacon was lost or the server restarted
          newest,    \* history: the launcher invoked last
          overlap    \* history: two launchers were at work at once

leftVars    == <<left, marred>>
historyVars == <<newest, overlap>>
vars == <<launch, ticket, inbox, store, srv, page, poll, leftVars, historyVars>>

Asleep == [pc |-> "idle", kind |-> "none", tries |-> 0, native |-> FALSE, twin |-> FALSE,
           wrote |-> FALSE, paid |-> 0, robbed |-> FALSE]

NoPoll == [last |-> "none", card |-> FALSE, fix |-> FALSE, sent |-> FALSE]

Init ==
  /\ launch = [l \in Launches |-> Asleep] /\ newest = None /\ overlap = FALSE /\ marred = FALSE
  /\ ticket = [l \in Launches |-> "none"] /\ inbox = <<>>
  /\ left \in Scopes /\ store = left.store
  /\ srv = [last |-> "none", card |-> FALSE, started |-> None, auth |-> "none", near |-> FALSE]
  /\ page = [note |-> "none", armed |-> FALSE, card |-> FALSE, fix |-> FALSE]
  /\ poll = NoPoll

HasTicket(l) == launch[l].kind \in {"auto", "fix"}

HasCredEntry == store.domain # "none" \/ store.generic # "none"

(* A launch that is over is told by how it ended. *)
Over == {"refused", "box", "running", "over"}

Goto(l, pc) ==
  launch' = [launch EXCEPT ![l] =
    IF pc \in Over
    THEN [Asleep EXCEPT !.pc = pc, !.native = launch[l].native, !.wrote = launch[l].wrote,
                        !.paid = launch[l].paid]
    ELSE [@ EXCEPT !.pc = pc]]

(***************************************************************************)
(* Beacons.                                                                *)
(***************************************************************************)
(* liveDispatchStatus(): the last attempt begins at the last "invoked" or  *)
(* "redeemed", and the credential counts as stored once it says so.        *)
Card(before, beacon) ==
  CASE beacon \in {"invoked", "redeemed"} -> FALSE
    [] beacon = "credwrite-ok" -> TRUE
    [] OTHER -> before

(* POST /api/handler-hello: the beacon joins the chain and is the last one. *)
HandlerHello(l, beacon) ==
  \E near \in BOOLEAN :
    srv' = [srv EXCEPT !.last = "new", !.card = Card(@, beacon),
                       !.started = IF beacon = "mstsc-started" THEN l ELSE @,
                       !.near = IF beacon = "mstsc-started" THEN near ELSE @]

(* HelloBounded(): the launcher goes on whether the beacon arrived or not. *)
Beacon(l, beacon) ==
  \/ HandlerHello(l, beacon) /\ UNCHANGED leftVars
  \/ left.lost > 0 /\ left' = [left EXCEPT !.lost = @ - 1] /\ marred' = TRUE /\ UNCHANGED srv

(* recoveryDecision(): the host refused the password within two minutes of *)
(* the last start of mstsc.                                                *)
RecoveryDecision == srv.auth = "failed" /\ srv.started # None /\ srv.near

(***************************************************************************)
(* The page.                                                               *)
(***************************************************************************)
Turn(l, kind) ==
  /\ l <= Len(left.kinds) /\ left.kinds[l] = kind
  /\ launch[l].pc = "idle" /\ \A k \in 1..(l - 1) : launch[k].pc # "idle"

(* fireAutoLogin() and fireFixReconnect() up to the await of the ticket.   *)
Click(l, kind) ==
  /\ Turn(l, kind) /\ kind \in {"auto", "fix"} /\ (kind = "fix" => page.fix)
  /\ launch' = [launch EXCEPT ![l].pc = "asking", ![l].kind = kind]
  /\ UNCHANGED <<ticket, inbox, store, srv, page, poll, leftVars, historyVars>>

(* fireRunCheck(), or a link without a ticket opened by hand. *)
OpenLink(l, kind) ==
  /\ Turn(l, kind) /\ kind \in {"check", "link"}
  /\ launch' = [launch EXCEPT ![l].pc = "dispatched", ![l].kind = kind]
  /\ UNCHANGED <<ticket, inbox, store, srv, page, poll, leftVars, historyVars>>

(* POST /api/rdp-token: old tickets go, a new one is issued. *)
IssueTicket(l) ==
  /\ launch[l].pc = "asking"
  /\ ticket' = [k \in Launches |-> IF k = l THEN "young"
                                   ELSE IF ticket[k] = "old" THEN "none" ELSE ticket[k]]
  /\ Goto(l, "issued")
  /\ UNCHANGED <<inbox, store, srv, page, poll, leftVars, historyVars>>

(* postRdpToken() failed, before or after the server issued a ticket.  Only *)
(* the auto-login says so.                                                  *)
TicketRefused(l) ==
  /\ launch[l].pc \in {"asking", "issued"}
  /\ Goto(l, "refused")
  /\ page' = [page EXCEPT !.note = IF launch[l].kind = "auto" THEN "refused" ELSE @]
  /\ UNCHANGED <<ticket, inbox, store, srv, poll, leftVars, historyVars>>

(* Which beacons are at most ten seconds older than this click. *)
Aged(last, bound) ==
  IF last = "new" /\ bound = "new" THEN {"old", "new"} ELSE {IF last = "none" THEN "none" ELSE "old"}

ArmHelloWatch ==
  \E last \in Aged(srv.last, "new") :
    /\ srv' = [srv EXCEPT !.last = last]
    /\ \E seen \in Aged(poll.last, last) : poll' = [poll EXCEPT !.last = seen]

(* The rest of fireAutoLogin(): the link, the note, the watch. *)
DispatchAuto(l) ==
  /\ launch[l].pc = "issued" /\ launch[l].kind = "auto"
  /\ Goto(l, "dispatched")
  /\ page' = [page EXCEPT !.note = "dispatched", !.armed = TRUE]
  /\ ArmHelloWatch
  /\ UNCHANGED <<ticket, inbox, store, leftVars, historyVars>>

(* The rest of fireFixReconnect(): no note, no watch. *)
DispatchFix(l) ==
  /\ launch[l].pc = "issued" /\ launch[l].kind = "fix"
  /\ Goto(l, "dispatched")
  /\ UNCHANGED <<ticket, inbox, store, srv, page, poll, leftVars, historyVars>>

(* GET /api/native-status.  A poll that can change nothing is left out. *)
NativeStatus ==
  /\ ~poll.sent
  /\ \/ page.card # srv.card \/ page.fix # RecoveryDecision
     \/ srv.last = "new" /\ ~(page.armed /\ page.note = "answered")
  /\ poll' = [last |-> srv.last, card |-> srv.card, fix |-> RecoveryDecision, sent |-> TRUE]
  /\ UNCHANGED <<launch, ticket, inbox, store, srv, page, leftVars, historyVars>>

\* mutant: the time of the beacon is not compared with the time of the click
AnyBeacon(last) == page.armed /\ last # "none"

(* A beacon that is not older than the click, give or take ten seconds. *)
BeaconCounts(last) == page.armed /\ last = "new"

SetNativeStatus ==
  /\ poll.sent
  /\ page' = [page EXCEPT !.note = IF BeaconCounts(poll.last) THEN "answered" ELSE @,
                          !.card = poll.card, !.fix = poll.fix]
  /\ poll' = NoPoll
  /\ UNCHANGED <<launch, ticket, inbox, store, srv, leftVars, historyVars>>

PollFails ==
  /\ poll.sent /\ poll' = NoPoll
  /\ UNCHANGED <<launch, ticket, inbox, store, srv, page, leftVars, historyVars>>

(***************************************************************************)
(* The server.                                                             *)
(***************************************************************************)
\* mutant: the ticket is removed only when it is too old
KeptTicket(l) == [ticket EXCEPT ![l] = IF @ = "old" THEN "none" ELSE @]

(* Use-RdpTicket: the ticket is gone before anything is answered. *)
UseRdpTicket(l) == [ticket EXCEPT ![l] = "none"]

(* Tickets that nobody will present any more need not age. *)
TicketAges(l) ==
  /\ ticket[l] = "young" /\ (launch[l].pc \in Over => \E i \in DOMAIN inbox : inbox[i].who = l)
  /\ left.aged > 0 /\ left' = [left EXCEPT !.aged = @ - 1] /\ UNCHANGED marred
  /\ ticket' = [ticket EXCEPT ![l] = "old"]
  /\ UNCHANGED <<launch, inbox, store, srv, page, poll, historyVars>>

(* Tickets and chain are in memory; the file of the last beacon is removed *)
(* at every start.                                                         *)
ServerRestarts ==
  /\ left.restarts > 0 /\ left' = [left EXCEPT !.restarts = @ - 1] /\ marred' = TRUE
  /\ ticket' = [l \in Launches |-> "none"] /\ inbox' = <<>>
  /\ srv' = [srv EXCEPT !.last = "none", !.card = FALSE, !.started = None]
  /\ UNCHANGED <<launch, store, page, poll, historyVars>>

(***************************************************************************)
(* The launcher.                                                           *)
(***************************************************************************)
AtWork(l) == launch[l].pc \in {"guard", "redeem", "waiting", "purge", "write", "prompt",
                               "verify", "missing", "mstsc"}

(* Main(): the first beacon, before any work. *)
Main(l) ==
  /\ launch[l].pc = "dispatched" /\ Goto(l, "guard")
  /\ Beacon(l, "invoked")
  /\ newest' = l /\ overlap' = (overlap \/ \E k \in Launches \ {l} : AtWork(k))
  /\ UNCHANGED <<ticket, inbox, store, page, poll>>

Boxed(l, beacon) == Goto(l, "box") /\ Beacon(l, beacon)

(* DoWork(): RUN CHECK shows its box, and a name that does not resolve to  *)
(* the tailnet ends the launch.                                            *)
DoWork(l) ==
  /\ launch[l].pc = "guard"
  /\ \/ launch[l].kind = "check" /\ Boxed(l, "check-shown")
     \/ launch[l].kind # "check" /\ Boxed(l, "client-dns-off")
     \/ launch[l].kind # "check" /\ Goto(l, "redeem") /\ UNCHANGED <<srv, leftVars>>
  /\ UNCHANGED <<ticket, inbox, store, page, poll, historyVars>>

CredentialFallbackDecision(retryOk) == IF retryOk THEN "mstsc" ELSE "native-prompt"

(* Nothing is stored, and what could be tried has been. *)
Decide(l) ==
  launch' = [launch EXCEPT ![l].pc = "mstsc",
                           ![l].native = CredentialFallbackDecision(FALSE) = "native-prompt"]

Retry(l) == launch' = [launch EXCEPT ![l].pc = "redeem", ![l].tries = 1]

(* RedeemAndStore() returned a reason: a recovery retries once; a first    *)
(* launch asks for the password, unless it came without a ticket and finds *)
(* an entry.                                                               *)
Fallback(l) ==
  IF launch[l].tries = 1 THEN Decide(l) /\ UNCHANGED <<srv, leftVars>>
  ELSE /\ Beacon(l, "fallback-cmdkey")
       /\ IF launch[l].kind = "fix" THEN Retry(l)
          ELSE Goto(l, IF ~HasTicket(l) /\ HasCredEntry THEN "mstsc" ELSE "prompt")

(* RedeemAndStoreStep() up to the request. *)
Redeem(l) ==
  /\ launch[l].pc = "redeem"
  /\ \/ HasTicket(l) /\ Goto(l, "waiting") /\ inbox' = Append(inbox, [who |-> l, try |-> launch[l].tries])
        /\ UNCHANGED <<srv, leftVars>>
     \/ Fallback(l) /\ UNCHANGED inbox   \* no ticket, or the host cannot be reached
     \/ HasTicket(l) /\ Boxed(l, "launcher-error") /\ UNCHANGED inbox   \* no such name
  /\ UNCHANGED <<ticket, store, page, poll, historyVars>>

\* mutant: a redemption without a time limit
NoTimeout(l) == FALSE

(* Eight seconds without an answer count as unreachable, half an answer as *)
(* an error.                                                               *)
TimedOut(l) == launch[l].pc = "waiting"

RedeemTimesOut(l) ==
  /\ TimedOut(l)
  /\ Fallback(l) \/ Boxed(l, "launcher-error")
  /\ UNCHANGED <<ticket, inbox, store, page, poll, historyVars>>

(* The answer to a redemption reaches the launcher that still waits for it. *)
Redeemed(l) ==
  /\ launch' = [launch EXCEPT ![l].pc = "purge", ![l].paid = @ + 1]
  /\ Beacon(l, "redeemed")

(* POST /api/rdp-creds, and what follows in the launcher.  An answer may   *)
(* come too late or not at all; the ticket is used up all the same.        *)
RdpCreds ==
  /\ inbox # <<>> /\ inbox' = Tail(inbox)
  /\ LET l == Head(inbox).who
         good == ticket[l] = "young"
         waits == launch[l].pc = "waiting" /\ launch[l].tries = Head(inbox).try IN
     /\ ticket' = UseRdpTicket(l)
     /\ \/ UNCHANGED <<launch, srv, leftVars>>
        \/ good /\ launch' = [launch EXCEPT ![l].paid = @ + 1] /\ UNCHANGED <<srv, leftVars>>
        \/ waits /\ good /\ Redeemed(l)
        \/ waits /\ good /\ Boxed(l, "launcher-error")   \* no credential is configured
        \/ waits /\ ~good /\ Fallback(l)
  /\ UNCHANGED <<store, page, poll, historyVars>>

(***************************************************************************)
(* The credential store.                                                   *)
(***************************************************************************)
(* CredDelete of an entry works, or fails without a word. *)
Deletions == [domain : {"none", store.domain}, generic : {"none", store.generic}]

(* WriteCredential(), first half: is there a generic twin?  Then every     *)
(* entry of the host is deleted, under the eyes of other launchers.        *)
PurgeStaleTermsvr(l) ==
  /\ launch[l].pc = "purge"
  /\ store' \in Deletions
  /\ launch' = [k \in Launches |->
                  IF k = l THEN [launch[k] EXCEPT !.pc = "write", !.twin = store.generic # "none"]
                  ELSE IF launch[k].pc = "mstsc" THEN [launch[k] EXCEPT !.robbed = TRUE]
                  ELSE launch[k]]
  /\ UNCHANGED <<ticket, inbox, srv, page, poll, leftVars, historyVars>>

\* mutant: the generic twin is not written again
DomainOnly(l) == [store EXCEPT !.domain = "fresh"]

(* The domain entry, and the twin if there was one. *)
Written(l) == [store EXCEPT !.domain = "fresh", !.generic = IF launch[l].twin THEN "fresh" ELSE @]

(* WriteCredential(), second half: either write can fail, which ends the   *)
(* launch.                                                                 *)
CredWrite(l) ==
  /\ launch[l].pc = "write"
  /\ \/ /\ store' = Written(l)
        /\ launch' = [launch EXCEPT ![l].pc = "mstsc", ![l].wrote = TRUE]
        /\ Beacon(l, "credwrite-ok")
     \/ /\ store' \in {store} \cup (IF launch[l].twin THEN {[store EXCEPT !.domain = "fresh"]} ELSE {})
        /\ Boxed(l, "credwrite-failed")
  /\ UNCHANGED <<ticket, inbox, page, poll, historyVars>>

(* CmdkeyStep(): the operator types a password, the right one or another,  *)
(* or closes the prompt; after three minutes it is closed for him.         *)
Prompt(l) ==
  /\ launch[l].pc = "prompt"
  /\ \/ \E typed \in {"fresh", "wrong"} : store' = [store EXCEPT !.generic = typed] /\ Goto(l, "verify")
     \/ UNCHANGED store /\ Goto(l, "verify")
     \/ UNCHANGED store /\ Goto(l, "box")
  /\ UNCHANGED <<ticket, inbox, srv, page, poll, leftVars, historyVars>>

(* The prompt is over: any entry for the host counts, however old it is. *)
Verify(l) ==
  /\ launch[l].pc = "verify"
  /\ Goto(l, IF HasCredEntry THEN "mstsc" ELSE "missing")
  /\ Beacon(l, "cmdkey-stored")
  /\ UNCHANGED <<ticket, inbox, store, page, poll, historyVars>>

(* The operator closes the box that says so; then the one retry. *)
Missing(l) ==
  /\ launch[l].pc = "missing"
  /\ IF HasTicket(l) THEN Retry(l) ELSE Decide(l)
  /\ UNCHANGED <<ticket, inbox, store, srv, page, poll, leftVars, historyVars>>

(* MstscStep(): the file is written and read back, mstsc is started and    *)
(* stays for two seconds; or one of these fails.                           *)
Mstsc(l) ==
  /\ launch[l].pc = "mstsc"
  /\ \/ Boxed(l, "launcher-error")
     \/ Goto(l, "running") /\ Beacon(l, "mstsc-started")
  /\ UNCHANGED <<ticket, inbox, store, page, poll, historyVars>>

(* External: Windows logs on with an entry it holds, or with what is typed. *)
Logon(l) ==
  /\ launch[l].pc = "running" /\ Goto(l, "over")
  /\ \E used \in {store.domain, store.generic, "fresh", "wrong"}, near \in BOOLEAN :
       /\ (used \in {"fresh", "wrong"} \ {store.domain, store.generic}) => (launch[l].native \/ ~HasCredEntry)
       /\ used # "none"
       /\ srv' = [srv EXCEPT !.auth = IF used = "fresh" THEN "success" ELSE "failed",
                             !.near = IF srv.started = l /\ ~launch[l].native THEN TRUE ELSE near]
  /\ UNCHANGED <<ticket, inbox, store, page, poll, leftVars, historyVars>>

LauncherStep(l) ==
  \/ DoWork(l) \/ Redeem(l) \/ RedeemTimesOut(l) \/ PurgeStaleTermsvr(l) \/ CredWrite(l)
  \/ Prompt(l) \/ Verify(l) \/ Mstsc(l)

Next ==
  \/ \E l \in Launches :
       \/ \E kind \in Kinds : Click(l, kind) \/ OpenLink(l, kind)
       \/ IssueTicket(l) \/ TicketRefused(l) \/ DispatchAuto(l) \/ DispatchFix(l)
       \/ TicketAges(l) \/ Main(l) \/ LauncherStep(l) \/ Missing(l) \/ Logon(l)
  \/ NativeStatus \/ SetNativeStatus \/ PollFails \/ RdpCreds \/ ServerRestarts

(* A fetch ends, one way or the other; the page polls again and again, and *)
(* some of the answers arrive; a launcher's waits have limits.  Nobody     *)
(* promises clicks, a registered protocol, the operator's doing, or the    *)
(* answer to a redemption.                                                 *)
Fairness ==
  /\ \A l \in Launches :
       WF_vars(TicketRefused(l) \/ DispatchAuto(l) \/ DispatchFix(l)) /\ WF_vars(LauncherStep(l))
  /\ WF_vars(NativeStatus) /\ SF_vars(SetNativeStatus)

Spec == Init /\ [][Next]_vars /\ Fairness

-----------------------------------------------------------------------------
Pcs == {"idle", "asking", "issued", "refused", "dispatched", "guard", "redeem", "waiting",
        "purge", "write", "prompt", "verify", "missing", "mstsc", "running", "box", "over"}

LaunchType == [pc : Pcs, kind : Kinds \cup {"none"}, tries : 0..1, native : BOOLEAN,
               twin : BOOLEAN, wrote : BOOLEAN, paid : Nat, robbed : BOOLEAN]

StoreType == [domain : {"none", "stale", "fresh"}, generic : {"none", "stale", "fresh", "wrong"}]

SrvType == [last : {"none", "old", "new"}, card : BOOLEAN, started : Launches \cup {None},
            auth : {"none", "failed", "success"}, near : BOOLEAN]

(* Every variable has its type. *)
TypeOK ==
  /\ launch \in [Launches -> LaunchType]
  /\ ticket \in [Launches -> {"none", "young", "old"}]
  /\ inbox \in Seq([who : Launches, try : 0..1])
  /\ store \in StoreType
  /\ srv \in SrvType
  /\ page \in [note : {"none", "refused", "dispatched", "answered"}, armed : BOOLEAN,
               card : BOOLEAN, fix : BOOLEAN]
  /\ poll \in [last : {"none", "old", "new"}, card : BOOLEAN, fix : BOOLEAN, sent : BOOLEAN]
  /\ left \in Bounds
  /\ newest \in Launches \cup {None} /\ overlap \in BOOLEAN /\ marred \in BOOLEAN

(* One ticket, one payment: whatever times out, is retried or arrives late, *)
(* the server hands out the credential at most once per click, and a        *)
(* launcher writes only what was handed out for its own click.  With it the *)
(* types.                                                                   *)
TicketsPayOnce ==
  /\ TypeOK
  /\ \A l \in Launches : launch[l].paid <= 1 /\ (launch[l].wrote => launch[l].paid = 1)

(* When mstsc is about to be started without a prompt of its own, and no   *)
(* other launcher has purged in between, Windows holds an entry for the    *)
(* host; and after a redemption it holds this run's password and nothing   *)
(* of an earlier run, even if deletions failed.                            *)
CredentialsAreReal ==
  \A l \in Launches : (launch[l].pc = "mstsc" /\ ~launch[l].native /\ ~launch[l].robbed) =>
    IF launch[l].wrote THEN store.domain = "fresh" /\ store.generic # "stale" ELSE HasCredEntry

(* What the page says of a launcher it cannot see: "beacon received" rests *)
(* on a beacon of a launcher that ran since the click, or ten seconds      *)
(* before it, which the server still has unless it was restarted;          *)
(* "credential stored" was true of some launch, and is exactly             *)
(* the truth about the last one as long as no beacon is lost, the server   *)
(* is not restarted and launches do not overlap.                           *)
PageTellsTheTruth ==
  /\ page.note = "answered" => page.armed /\ (srv.last = "new" \/ marred)
  /\ page.card \/ poll.card \/ srv.card => \E l \in Launches : launch[l].wrote
  /\ page.fix => \E l \in Launches : launch[l].pc = "over"
  /\ ~(overlap \/ marred) =>
       (srv.card <=> newest # None /\ launch[newest].wrote)

(* Nothing ends in silence: a launcher that was invoked gets to mstsc or   *)
(* to a box on the screen, whatever the network and the server do; a       *)
(* beacon that counts reaches the page's note; and a refused password      *)
(* reaches the page's offer to fix it.                                     *)
EndsInSight ==
  /\ \A l \in Launches :
       AtWork(l) ~> launch[l].pc \in {"missing", "box", "running", "over"}
  /\ BeaconCounts(srv.last) ~> (page.note = "answered" \/ ~BeaconCounts(srv.last))
  /\ RecoveryDecision ~> (page.fix \/ ~RecoveryDecision)
-----------------------------------------------------------------------------
(***************************************************************************)
(* The inductive invariant.                                                *)
(***************************************************************************)
(* One launch r, its ticket t and the store s: a ticket that was paid for  *)
(* is gone, and none is issued twice for a click; the launcher that is     *)
(* about to write was paid, and remembers every entry of an earlier run    *)
(* that its deletions may have left; and CredentialsAreReal.               *)
LaunchOK(r, t, s) ==
  /\ r.paid <= 1 /\ (r.paid = 1 => t = "none")
  /\ r.pc \in {"idle", "asking"} => r.paid = 0 /\ t = "none"
  /\ r.pc \in {"purge", "write"} => r.paid = 1
  /\ r.wrote => r.paid = 1 /\ r.pc \in Over \cup {"mstsc"}
  /\ r.pc = "write" => r.twin \/ s.generic # "stale"
  /\ (r.pc = "mstsc" /\ ~r.native /\ ~r.robbed) =>
       IF r.wrote THEN s.domain = "fresh" /\ s.generic # "stale"
       ELSE s.domain # "none" \/ s.generic # "none"

(* A poll under way tells what the page may come to tell, and launchers    *)
(* that do not overlap are the newest one.                                 *)
PageOK ==
  /\ page.note = "answered" => page.armed
  /\ page.note = "answered" \/ poll.last = "new" => srv.last = "new" \/ marred
  /\ page.card \/ poll.card \/ srv.card => \E l \in Launches : launch[l].wrote
  /\ page.fix \/ poll.fix \/ srv.auth # "none" => \E l \in Launches : launch[l].pc = "over"
  /\ ~overlap => \A l \in Launches : AtWork(l) => l = newest
  /\ ~(overlap \/ marred) => (srv.card <=> newest # None /\ launch[newest].wrote)

IInv == TypeOK /\ (\A l \in Launches : LaunchOK(launch[l], ticket[l], store)) /\ PageOK
=============================================================================
