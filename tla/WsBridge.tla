------------------------------ MODULE WsBridge ------------------------------
(***************************************************************************)
(* The dashboard's WebSocket bridge and progress asking,                     *)
(* src/hooks/useDashboardPolling.ts, against the server's accept loop.     *)
(*                                                                         *)
(* connectWs() is called by a retry timer, by the delayed call at the end  *)
(* of resetWs() and by a starter every five seconds; resetWs() by the      *)
(* Reconnect button, by a token written in another tab and by the          *)
(* keepalive watchdog.  The browser calls the handlers of a socket when    *)
(* the wire gives it something to tell, and the hook may be unmounted at   *)
(* any moment.  ws, wsConnecting and wsAttempt are variables of the hook;  *)
(* live, dead, lastPing and the Reconnect nonce are in telemetryStore.ts.  *)
(***************************************************************************)
EXTENDS AcceptLoop, FiniteSets

CONSTANTS
  Ladder,      \* RECONNECT_LADDER.length
  MaxResets    \* bound: token changes and clicks on Reconnect

ASSUME WsBridgeAssumption == Ladder \in Nat /\ MaxResets \in Nat

VARIABLES
  browser,     \* readyState of each socket ("none": no such object)
  alive,       \* the hook is mounted
  ws,          \* the socket the hook holds
  connecting,  \* wsConnecting
  attempt,     \* wsAttempt; larger values than Ladder + 1 are not told apart
  timer,       \* a setTimeout(connectWs) is pending
  live,        \* wsLive
  dead,        \* wsDead
  lastPing,    \* wsLastPingAt: null, within WS_PING_TIMEOUT_MS, or older
  nonce,       \* wsReconnectNonce differs from the one last seen
  asking,      \* an /api/progress request is out
  resets       \* resets asked for so far

hook == <<alive, ws, connecting, attempt, timer>>
store == <<live, dead, lastPing, nonce>>
vars == <<serverVars, browser, hook, store, asking, resets>>

TypeOK ==
  /\ AcceptLoopTypeOK
  /\ browser \in [Sockets -> {"none", "connecting", "open", "closing"}]
  /\ ws \in Sockets \union {NoSocket}
  /\ attempt \in 0..(Ladder + 1)
  /\ lastPing \in {"null", "recent", "old"}
  /\ {alive, connecting, timer, live, dead, nonce, asking} \subseteq BOOLEAN
  /\ resets \in 0..MaxResets

Init ==
  /\ AcceptLoopInit
  /\ browser = [s \in Sockets |-> "none"]
  /\ alive = TRUE
  /\ ws = NoSocket
  /\ connecting = FALSE
  /\ attempt = 0
  /\ timer = FALSE
  /\ live = FALSE
  /\ dead = FALSE
  /\ lastPing = "null"
  /\ nonce = FALSE
  /\ asking = FALSE
  /\ resets = 0

InUse(s) == browser[s] \in {"connecting", "open"}
HasOpen == \E s \in Sockets : browser[s] = "open"

(***************************************************************************)
(* connectWs                                                               *)
(***************************************************************************)
MayConnectAnyway ==   \* mutant: a socket in hand does not stop it
  alive /\ ~connecting
MayConnect == alive /\ ws = NoSocket /\ ~connecting

\* new WebSocket(): the name of a socket nobody knows any more is used again.
Construct(s) ==
  /\ browser[s] = "none"
  /\ serving # s
  /\ \A i \in DOMAIN backlog : backlog[i] # s
  /\ browser' = [browser EXCEPT ![s] = "connecting"]
  /\ broken' = [broken EXCEPT ![s] = FALSE]
  /\ conn' = [conn EXCEPT ![s] = IF up THEN "queued" ELSE "gone"]
  /\ backlog' = IF up THEN Append(backlog, s) ELSE backlog
  /\ UNCHANGED <<live, faults>>

Dial(s) == Construct(s) /\ ws' = s /\ connecting' = TRUE /\ UNCHANGED attempt

Throw ==
  /\ Fails
  /\ live' = FALSE
  /\ UNCHANGED <<browser, broken, conn, backlog, ws, connecting, attempt>>

ConnectWs ==
  /\ (\E s \in Sockets : Dial(s)) \/ Throw
  /\ UNCHANGED <<up, thread, alive, dead, lastPing, nonce, asking, resets>>

Starter == MayConnect /\ ConnectWs /\ UNCHANGED timer

TimerFires ==
  /\ timer
  /\ timer' = FALSE
  /\ \/ MayConnect /\ ConnectWs
     \/ ~MayConnect /\ UNCHANGED <<serverVars, browser, alive, ws, connecting, attempt, store, asking, resets>>

(***************************************************************************)
(* The handlers of a socket.                                               *)
(***************************************************************************)
Opened(s) ==
  /\ browser[s] = "connecting"
  /\ conn[s] = "up"
  /\ ~broken[s]
  /\ browser' = [browser EXCEPT ![s] = "open"]
  /\ attempt' = 0
  /\ connecting' = FALSE
  /\ live' = TRUE
  /\ UNCHANGED <<serverVars, alive, ws, timer, nonce, asking, resets>>

OnOpen(s) == Opened(s) /\ lastPing' = "recent" /\ dead' = FALSE

\* Any frame moves the keepalive clock.  What else it carries (progress, a live
\* patch) goes to other components.
OnMessage(s) ==
  /\ browser[s] = "open"
  /\ Flowing(s)
  /\ lastPing' = "recent"
  /\ UNCHANGED <<serverVars, browser, hook, live, dead, nonce, asking, resets>>

\* The browser learns that the socket is over: the wire tells, close() was
\* called, or an unanswered handshake timed out.
Over(s) ==
  \/ InUse(s) /\ conn[s] = "gone" /\ ~broken[s]
  \/ browser[s] = "connecting" /\ broken[s]
  \/ browser[s] = "closing"

\* A failed try: counted, and retried later.  resetWs() detaches onclose, so this
\* happens for the socket the hook holds only.
Failed ==
  /\ connecting' = FALSE
  /\ attempt' = Cap(attempt + 1, Ladder + 1)
  /\ dead' = (dead \/ attempt' > Ladder)
  /\ timer' = TRUE

Closed(s) ==
  /\ Over(s)
  /\ browser' = [browser EXCEPT ![s] = "none"]
  /\ IF s = ws THEN Failed ELSE UNCHANGED <<connecting, attempt, dead, timer>>
  /\ UNCHANGED <<serverVars, alive, lastPing, nonce, asking, resets>>

OnCloseKeepingHandle(s) ==   \* mutant: ws is not released
  Closed(s) /\ live' = (live /\ s # ws) /\ UNCHANGED ws
OnClose(s) ==
  Closed(s) /\ ws' = (IF s = ws THEN NoSocket ELSE ws) /\ live' = (live /\ s # ws)

\* onerror comes before the close of a failed handshake, also of an abandoned one.
OnError(s) ==
  /\ browser[s] \in {"connecting", "closing"}
  /\ Over(s)
  /\ connecting
  /\ connecting' = FALSE
  /\ UNCHANGED <<serverVars, browser, alive, ws, attempt, timer, store, asking, resets>>

(***************************************************************************)
(* resetWs and its callers.                                                *)
(***************************************************************************)
\* close(): an open socket says goodbye, a handshake is cut off.
HangUp(s) ==
  /\ browser' = [browser EXCEPT ![s] = "closing"]
  /\ IF browser[s] = "open" /\ conn[s] = "up" /\ ~broken[s]
     THEN conn' = [conn EXCEPT ![s] = "bye"] /\ UNCHANGED broken
     ELSE broken' = [broken EXCEPT ![s] = TRUE] /\ UNCHANGED conn

HangUpIfAny == IF ws \in Sockets THEN HangUp(ws) ELSE UNCHANGED <<browser, conn, broken>>

ResetWs ==
  /\ HangUpIfAny
  /\ ws' = NoSocket
  /\ connecting' = FALSE
  /\ attempt' = 0
  /\ dead' = FALSE
  /\ timer' = TRUE
  /\ UNCHANGED <<up, backlog, thread, faults, alive, live, lastPing, asking>>

TokenChanged ==
  /\ alive
  /\ resets < MaxResets
  /\ resets' = resets + 1
  /\ ResetWs
  /\ UNCHANGED nonce

\* The operator's Reconnect button, shown while dead.
RequestReconnect ==
  /\ alive
  /\ dead
  /\ resets < MaxResets
  /\ resets' = resets + 1
  /\ nonce' = TRUE
  /\ dead' = FALSE
  /\ UNCHANGED <<serverVars, browser, hook, live, lastPing, asking>>

NonceWatcher ==
  /\ alive
  /\ nonce
  /\ nonce' = FALSE
  /\ ResetWs
  /\ UNCHANGED resets

WatchdogDue == ws \in Sockets /\ browser[ws] = "open" /\ lastPing = "old"

Watchdog ==
  /\ alive
  /\ WatchdogDue
  /\ ResetWs
  /\ UNCHANGED <<nonce, resets>>

\* WS_PING_TIMEOUT_MS pass without a frame.
Quiet ==
  /\ lastPing = "recent"
  /\ ~(ws \in Sockets /\ Flowing(ws))
  /\ lastPing' = "old"
  /\ UNCHANGED <<serverVars, browser, hook, live, dead, nonce, asking, resets>>

\* The timer of the last onclose is cleared; a call delayed by resetWs() and the
\* timers of earlier closes stay.
Unmount ==
  /\ alive
  /\ alive' = FALSE
  /\ timer' \in {timer, FALSE}
  /\ HangUpIfAny
  /\ UNCHANGED <<up, backlog, thread, faults, ws, connecting, attempt, store, asking, resets>>

(***************************************************************************)
(* The progress asking, and the server's steps as the page sees them.        *)
(***************************************************************************)
Ask ==
  /\ alive
  /\ up
  /\ ~asking
  /\ asking' = TRUE
  /\ backlog' = Append(backlog, Rest)
  /\ UNCHANGED <<up, conn, broken, thread, faults, browser, hook, store, resets>>

Answer ==
  /\ TakeRest
  /\ asking' = FALSE
  /\ UNCHANGED <<browser, hook, store, resets>>

ServerStops ==
  /\ Stop
  /\ asking' = FALSE
  /\ UNCHANGED <<browser, hook, store, resets>>

\* A 101 answer that can reach the browser reaches it within half a minute.
Delivered == \A s \in Sockets : ~(browser[s] = "connecting" /\ conn[s] = "up" /\ ~broken[s])

ServerStep ==
  /\ \/ \E s \in Sockets : TakeSocket(s)
     \/ EndSession
     \/ Scan
     \/ Delivered /\ HalfMinute
  /\ UNCHANGED <<browser, hook, store, asking, resets>>

Mishap ==
  /\ \/ \E s \in Sockets : Break(s) \/ Drop(s)
     \/ Start
  /\ UNCHANGED <<browser, hook, store, asking, resets>>

Next ==
  \/ Starter \/ TimerFires
  \/ \E s \in Sockets : OnOpen(s) \/ OnMessage(s) \/ OnError(s) \/ OnClose(s)
  \/ TokenChanged \/ RequestReconnect \/ NonceWatcher \/ Watchdog \/ Quiet \/ Unmount
  \/ Ask \/ Answer
  \/ ServerStep \/ ServerStops \/ Mishap

Spec == Init /\ [][Next]_vars

\* The page's intervals run and time passes for them, the browser delivers what
\* a socket has to tell, and the server's thread goes on.  Nothing says that a
\* stopped server is started again, that a reset or an answer is asked for, that
\* a frame is sent or that a retry timer comes before the starter.
Intervals == Starter \/ NonceWatcher \/ Watchdog \/ Quiet

Fairness ==
  /\ WF_vars(Intervals)
  /\ \A s \in Sockets : WF_vars(OnOpen(s) \/ OnClose(s))
  /\ WF_vars(ServerStep \/ Answer)

FairSpec == Spec /\ Fairness

(***************************************************************************)
(* Safety                                                                  *)
(***************************************************************************)
\* However timers, the starter, resets and closes interleave, the page never has
\* two sockets at the server, which could serve only one of them.
OneSocket == Cardinality({s \in Sockets : InUse(s)}) <= 1

\* The watchdog never takes away a socket on which frames arrive, in particular
\* not one that has just replaced a silent one.
HealthyNotDropped == WatchdogDue => ~Flowing(ws)

\* "disconnected" is shown only while there is no socket, and never together
\* with "live".
DeadMeansDown == dead => ~HasOpen /\ ~live

\* What the page does and says about the socket agrees with the socket.
BannerIsTrue == OneSocket /\ HealthyNotDropped /\ DeadMeansDown

(***************************************************************************)
(* Liveness                                                                *)
(***************************************************************************)
\* Whatever happened before, a page whose server stays up gets its socket, and
\* gets it back each time a session ends.
Recovers == <>[](up /\ alive) => []<>(live /\ HasOpen)

\* A server that stays away is reported to the operator, and stays reported.
LossIsReported == <>[](~up /\ alive) => <>[]dead

\* A half-open socket is noticed and given up although no event announces it.
HalfOpenNoticed ==
  \A s \in Sockets : (alive /\ ws = s /\ broken[s]) ~> (ws # s \/ ~alive)

\* After the hook is unmounted its sockets end and no timer brings one back.
CleanedUp == ~alive ~> [](\A s \in Sockets : ~InUse(s))

\* Whatever the server and the network do, the page ends in the state the
\* operator has to see: connected again, reported down, or without a socket
\* once it is left.
LinkSettles == Recovers /\ LossIsReported /\ HalfOpenNoticed /\ CleanedUp

\* No socket session keeps the server's one thread for ever: a waiting request
\* is served.
EveryoneServed == asking ~> ~asking

\* The page gets its link or is told, and its requests are served: the two wait
\* for one thread and never for each other for good.
NobodyIsStranded == LinkSettles /\ EveryoneServed
-----------------------------------------------------------------------------
(***************************************************************************)
(* The inductive invariant.                                                *)
(***************************************************************************)
\* A socket that is connecting or open is the one the hook holds.
InUseIsHeld == \A s \in Sockets : InUse(s) => s = ws

\* A connection waits once at most, and before it is served nothing passes on it.
BacklogOK ==
  /\ \A i, j \in DOMAIN backlog : backlog[i] \in Sockets /\ backlog[i] = backlog[j] => i = j
  /\ \A i \in DOMAIN backlog : backlog[i] \in Sockets =>
       conn[backlog[i]] \in {"queued", "gone"} /\ browser[backlog[i]] # "open"

IInv == TypeOK /\ InUseIsHeld /\ BacklogOK /\ HealthyNotDropped /\ DeadMeansDown
=============================================================================
