-------------------------- MODULE RunnerLinkProofs --------------------------
(***************************************************************************)
(* The page's two links to the runner: the dashboard's WebSocket bridge    *)
(* (module WsBridge) and the desktop stream (module StreamPipeline).  They *)
(* share this module and no variable.  The invariants hold for every       *)
(* number of sockets, viewers, restarts and faults, and every size of the  *)
(* buffers.                                                                *)
(*                                                                         *)
(* WsBridge: IInv is inductive.  A socket in use is the one the hook       *)
(* holds, so a close of that one leaves none; and what waits in the        *)
(* backlog is not open, so taking it never makes a silent socket flow.     *)
(*                                                                         *)
(* StreamPipeline: StreamInv is inductive.  A socket is only opened in the *)
(* step that cancels the one before.  The device passes only to a run that *)
(* had not begun, and CapturerOK keeps track of who releases it: a run     *)
(* that returns without releasing it found the global nil, which only the  *)
(* close of another run can have done since this run stored its capturer.  *)
(***************************************************************************)
EXTENDS WsBridge, StreamPipeline, FiniteSetTheorems, TLAPS

-----------------------------------------------------------------------------
(***************************************************************************)
(* The backlog.                                                            *)
(***************************************************************************)
\* A connection that does not wait yet can be queued at the end.
LEMMA QueuedAtEnd ==
  ASSUME BacklogOK, backlog \in Seq(Sockets \union {Rest}),
         NEW c \in Sockets \union {Rest},
         \A i \in DOMAIN backlog : c \in Sockets => backlog[i] # c,
         backlog' = Append(backlog, c),
         \A s \in Sockets : s # c => conn'[s] = conn[s] /\ browser'[s] = browser[s],
         c \in Sockets => conn'[c] \in {"queued", "gone"} /\ browser'[c] # "open"
  PROVE  BacklogOK' /\ backlog' \in Seq(Sockets \union {Rest})
<1>1. /\ Len(backlog') = Len(backlog) + 1
      /\ \A i \in DOMAIN backlog : backlog'[i] = backlog[i]
      /\ backlog'[Len(backlog) + 1] = c
      /\ DOMAIN backlog = 1..Len(backlog) /\ DOMAIN backlog' = 1..Len(backlog')
      /\ Len(backlog) \in Nat
      /\ backlog' \in Seq(Sockets \union {Rest})
  OBVIOUS
<1>2. \A i \in DOMAIN backlog' : i \in DOMAIN backlog \/ i = Len(backlog) + 1
  BY <1>1
<1>3. \A i, j \in DOMAIN backlog' : backlog'[i] \in Sockets /\ backlog'[i] = backlog'[j] => i = j
  BY <1>1, <1>2 DEF BacklogOK
<1>4. \A i \in DOMAIN backlog' : backlog'[i] \in Sockets =>
        conn'[backlog'[i]] \in {"queued", "gone"} /\ browser'[backlog'[i]] # "open"
  <2>1. SUFFICES ASSUME NEW i \in DOMAIN backlog', backlog'[i] \in Sockets
                 PROVE  conn'[backlog'[i]] \in {"queued", "gone"} /\ browser'[backlog'[i]] # "open"
    OBVIOUS
  <2>2. CASE i \in DOMAIN backlog
    BY <1>1, <2>1, <2>2 DEF BacklogOK
  <2>3. CASE i = Len(backlog) + 1
    BY <1>1, <2>1, <2>3
  <2>4. QED
    BY <1>2, <2>2, <2>3
<1>5. QED
  BY <1>1, <1>3, <1>4 DEF BacklogOK

\* The oldest connection is taken off, and does not wait any more.
LEMMA TakenOff ==
  ASSUME BacklogOK, backlog \in Seq(Sockets \union {Rest}),
         NEW c, NextIs(c), backlog' = Tail(backlog), browser' = browser,
         \A s \in Sockets : s # c => conn'[s] = conn[s]
  PROVE  BacklogOK' /\ backlog' \in Seq(Sockets \union {Rest})
<1>1. /\ backlog # <<>> /\ backlog[1] = c
      /\ Len(backlog) \in Nat \ {0}
      /\ Len(backlog') = Len(backlog) - 1
      /\ \A i \in 1..Len(backlog') : backlog'[i] = backlog[i + 1]
      /\ DOMAIN backlog = 1..Len(backlog) /\ DOMAIN backlog' = 1..Len(backlog')
      /\ backlog' \in Seq(Sockets \union {Rest})
  BY DEF NextIs
<1>2. \A i \in DOMAIN backlog' : i + 1 \in DOMAIN backlog /\ i \in Nat /\ backlog'[i] = backlog[i + 1]
  BY <1>1
<1>3. \A i, j \in DOMAIN backlog' : backlog'[i] \in Sockets /\ backlog'[i] = backlog'[j] => i = j
  <2>1. SUFFICES ASSUME NEW i \in DOMAIN backlog', NEW j \in DOMAIN backlog',
                        backlog'[i] \in Sockets, backlog'[i] = backlog'[j]
                 PROVE  i = j
    OBVIOUS
  <2>2. i + 1 = j + 1
    BY <1>2, <2>1 DEF BacklogOK
  <2>3. QED
    BY <1>2, <2>2
<1>4. \A i \in DOMAIN backlog' : backlog'[i] \in Sockets =>
        conn'[backlog'[i]] \in {"queued", "gone"} /\ browser'[backlog'[i]] # "open"
  <2>1. SUFFICES ASSUME NEW i \in DOMAIN backlog', backlog'[i] \in Sockets
                 PROVE  conn'[backlog'[i]] \in {"queued", "gone"} /\ browser'[backlog'[i]] # "open"
    OBVIOUS
  <2>2. backlog[i + 1] # c
    BY <1>1, <1>2, <2>1 DEF BacklogOK
  <2>3. QED
    BY <1>2, <2>1, <2>2 DEF BacklogOK
<1>5. QED
  BY <1>1, <1>3, <1>4 DEF BacklogOK

\* The backlog stays, and no connection in it is served or opened.
LEMMA BacklogStays ==
  ASSUME BacklogOK, backlog' = backlog,
         \A s \in Sockets : (\E i \in DOMAIN backlog : backlog[i] = s) =>
           /\ conn'[s] = conn[s] \/ conn'[s] \in {"queued", "gone"}
           /\ browser'[s] = browser[s] \/ browser'[s] # "open"
  PROVE  BacklogOK'
  BY DEF BacklogOK

\* What the thread takes next comes from the backlog.
LEMMA NextWaits ==
  ASSUME BacklogOK, backlog \in Seq(Sockets \union {Rest}), NEW s \in Sockets, NextIs(s)
  PROVE  conn[s] \in {"queued", "gone"} /\ browser[s] # "open"
<1>1. 1 \in DOMAIN backlog /\ backlog[1] = s
  BY DEF NextIs
<1>2. QED
  BY <1>1 DEF BacklogOK

-----------------------------------------------------------------------------
(***************************************************************************)
(* The page's steps.                                                       *)
(***************************************************************************)
LEMMA BridgeInit == Init => IInv
<1>1. SUFFICES ASSUME Init PROVE IInv
  OBVIOUS
<1>2. TypeOK
  <2>1. AcceptLoopTypeOK
    BY <1>1, AcceptLoopAssumption DEF Init, AcceptLoopInit, AcceptLoopTypeOK, Conn
  <2>2. {alive, connecting, timer, live, dead, nonce, asking} \subseteq BOOLEAN
    BY <1>1 DEF Init
  <2>3. attempt \in 0..(Ladder + 1) /\ resets \in 0..MaxResets
    BY <1>1, WsBridgeAssumption DEF Init
  <2>4. QED
    BY <1>1, <2>1, <2>2, <2>3 DEF Init, TypeOK
<1>3. InUseIsHeld /\ BacklogOK /\ HealthyNotDropped /\ DeadMeansDown
  BY <1>1 DEF Init, AcceptLoopInit, InUseIsHeld, InUse, BacklogOK, HealthyNotDropped, WatchdogDue, DeadMeansDown
<1>4. QED
  BY <1>2, <1>3 DEF IInv

\* A bounded counter stays a number up to its bound.
LEMMA CapInBound ==
  ASSUME NEW n \in Nat, NEW limit \in Nat
  PROVE  Cap(n, limit) \in 0..limit
  BY DEF Cap

LEMMA FailsTypes ==
  ASSUME TypeOK, Fails
  PROVE  faults' \in 0..MaxFaults
  BY AcceptLoopAssumption DEF TypeOK, AcceptLoopTypeOK, Fails

LEMMA ConnectStep ==
  ASSUME IInv, MayConnect, ConnectWs, timer' \in BOOLEAN
  PROVE  IInv'
<1>1. CASE \E s \in Sockets : Dial(s)
  <2>1. PICK s \in Sockets : Dial(s)
    BY <1>1
  <2> USE <2>1 DEF Dial, Construct, ConnectWs, MayConnect
  <2>2. TypeOK' /\ BacklogOK'
    <3>1. CASE up
      <4>1. \A q \in Sockets : q # s => conn'[q] = conn[q] /\ browser'[q] = browser[q]
        BY DEF IInv, TypeOK, AcceptLoopTypeOK
      <4>2. conn'[s] = "queued" /\ browser'[s] = "connecting"
        BY <3>1 DEF IInv, TypeOK, AcceptLoopTypeOK
      <4>3. BacklogOK' /\ backlog' \in Seq(Sockets \union {Rest})
        BY <3>1, <4>1, <4>2, QueuedAtEnd DEF IInv, TypeOK, AcceptLoopTypeOK
      <4>4. QED
        BY <4>3 DEF IInv, TypeOK, AcceptLoopTypeOK, thread, Conn
    <3>2. CASE ~up
      BY <3>2, BacklogStays DEF IInv, TypeOK, AcceptLoopTypeOK, thread, Conn
    <3>3. QED
      BY <3>1, <3>2
  <2>3. InUseIsHeld'
    BY AcceptLoopAssumption DEF IInv, TypeOK, InUseIsHeld, InUse
  <2>4. HealthyNotDropped' /\ DeadMeansDown'
    BY DEF IInv, TypeOK, HealthyNotDropped, WatchdogDue, DeadMeansDown, HasOpen
  <2>5. QED
    BY <2>2, <2>3, <2>4 DEF IInv
<1>2. CASE Throw
  <2> USE <1>2 DEF Throw, ConnectWs
  <2>1. TypeOK'
    BY FailsTypes DEF IInv, TypeOK, AcceptLoopTypeOK, thread
  <2>2. BacklogOK' /\ InUseIsHeld'
    BY DEF IInv, BacklogOK, InUseIsHeld, InUse
  <2>3. HealthyNotDropped' /\ DeadMeansDown'
    BY DEF IInv, HealthyNotDropped, WatchdogDue, DeadMeansDown, HasOpen, Flowing, thread
  <2>4. QED
    BY <2>1, <2>2, <2>3 DEF IInv
<1>3. QED
  BY <1>1, <1>2 DEF ConnectWs

LEMMA StarterStep ==
  ASSUME IInv, Starter
  PROVE  IInv'
  BY ConnectStep DEF Starter, IInv, TypeOK

LEMMA TimerStep ==
  ASSUME IInv, TimerFires
  PROVE  IInv'
<1>1. CASE MayConnect /\ ConnectWs
  BY <1>1, ConnectStep DEF TimerFires
<1>2. CASE ~MayConnect /\ UNCHANGED <<serverVars, browser, alive, ws, connecting, attempt, store, asking, resets>>
  BY <1>2 DEF TimerFires, serverVars, wire, thread, store, IInv, TypeOK, AcceptLoopTypeOK, BacklogOK,
              InUseIsHeld, InUse, HealthyNotDropped, WatchdogDue, Flowing, DeadMeansDown, HasOpen
<1>3. QED
  BY <1>1, <1>2 DEF TimerFires

LEMMA OnOpenStep ==
  ASSUME IInv, NEW s \in Sockets, OnOpen(s)
  PROVE  IInv'
<1> USE DEF OnOpen, Opened
<1>1. TypeOK'
  <2>1. attempt' \in 0..(Ladder + 1)
    BY WsBridgeAssumption
  <2>2. QED
    BY <2>1 DEF IInv, TypeOK, AcceptLoopTypeOK, serverVars, wire, thread
<1>2. BacklogOK'
  BY BacklogStays DEF IInv, TypeOK, BacklogOK, serverVars, wire
<1>3. InUseIsHeld'
  BY DEF IInv, TypeOK, InUseIsHeld, InUse
<1>4. HealthyNotDropped' /\ DeadMeansDown'
  BY DEF HealthyNotDropped, WatchdogDue, DeadMeansDown
<1>5. QED
  BY <1>1, <1>2, <1>3, <1>4 DEF IInv

LEMMA OnMessageStep ==
  ASSUME IInv, NEW s \in Sockets, OnMessage(s)
  PROVE  IInv'
<1> USE DEF OnMessage, hook
<1>1. TypeOK'
  BY DEF IInv, TypeOK, AcceptLoopTypeOK, serverVars, wire, thread
<1>2. BacklogOK' /\ InUseIsHeld'
  BY DEF IInv, BacklogOK, InUseIsHeld, InUse, serverVars, wire
<1>3. HealthyNotDropped' /\ DeadMeansDown'
  BY DEF IInv, HealthyNotDropped, WatchdogDue, DeadMeansDown, HasOpen
<1>4. QED
  BY <1>1, <1>2, <1>3 DEF IInv

\* The held socket that closes was the only one in use.
LEMMA OnCloseStep ==
  ASSUME IInv, NEW s \in Sockets, OnClose(s)
  PROVE  IInv'
<1> USE DEF OnClose, Closed
<1>1. TypeOK'
  <2>1. Cap(attempt + 1, Ladder + 1) \in 0..(Ladder + 1)
    BY CapInBound, WsBridgeAssumption DEF IInv, TypeOK
  <2>2. attempt' \in 0..(Ladder + 1) /\ {connecting', dead', timer', live'} \subseteq BOOLEAN
    <3>1. CASE s = ws
      BY <2>1, <3>1 DEF Failed, IInv, TypeOK
    <3>2. CASE s # ws
      BY <3>2 DEF IInv, TypeOK
    <3>3. QED
      BY <3>1, <3>2
  <2>3. browser' \in [Sockets -> {"none", "connecting", "open", "closing"}]
    BY DEF IInv, TypeOK
  <2>4. QED
    BY <2>2, <2>3 DEF IInv, TypeOK, AcceptLoopTypeOK, serverVars, wire, thread
<1>2. BacklogOK'
  BY BacklogStays DEF IInv, TypeOK, serverVars, wire
<1>3. \A q \in Sockets : browser'[q] = (IF q = s THEN "none" ELSE browser[q])
  BY DEF IInv, TypeOK
<1>4. InUseIsHeld'
  BY <1>3 DEF IInv, InUseIsHeld, InUse
<1>5. HealthyNotDropped'
  <2>1. ws' \in Sockets => ws' = ws /\ ws # s
    BY AcceptLoopAssumption
  <2>2. QED
    BY <1>3, <2>1 DEF IInv, HealthyNotDropped, WatchdogDue, Flowing, serverVars, wire, thread
<1>6. DeadMeansDown'
  <2>1. CASE s = ws
    BY <1>3, <1>4, <2>1, AcceptLoopAssumption DEF DeadMeansDown, HasOpen, InUseIsHeld, InUse
  <2>2. CASE s # ws
    <3>1. dead' = dead /\ (live' => live)
      BY <2>2
    <3>2. HasOpen' => HasOpen
      BY <1>3 DEF HasOpen
    <3>3. QED
      BY <3>1, <3>2 DEF IInv, DeadMeansDown
  <2>3. QED
    BY <2>1, <2>2
<1>7. QED
  BY <1>1, <1>2, <1>4, <1>5, <1>6 DEF IInv

LEMMA OnErrorStep ==
  ASSUME IInv, NEW s \in Sockets, OnError(s)
  PROVE  IInv'
<1> USE DEF OnError, store
<1>1. TypeOK'
  BY DEF IInv, TypeOK, AcceptLoopTypeOK, serverVars, wire, thread
<1>2. BacklogOK' /\ InUseIsHeld'
  BY DEF IInv, BacklogOK, InUseIsHeld, InUse, serverVars, wire
<1>3. HealthyNotDropped' /\ DeadMeansDown'
  BY DEF IInv, HealthyNotDropped, WatchdogDue, Flowing, DeadMeansDown, HasOpen, serverVars, wire, thread
<1>4. QED
  BY <1>1, <1>2, <1>3 DEF IInv

\* close() of the held socket leaves no socket in use.
LEMMA HangUpFacts ==
  ASSUME IInv, HangUpIfAny, UNCHANGED backlog
  PROVE  /\ \A s \in Sockets : ~(browser'[s] \in {"connecting", "open"})
         /\ browser' \in [Sockets -> {"none", "connecting", "open", "closing"}]
         /\ conn' \in [Sockets -> Conn] /\ broken' \in [Sockets -> BOOLEAN]
         /\ BacklogOK'
<1>1. CASE ws \in Sockets
  <2>1. HangUp(ws)
    BY <1>1 DEF HangUpIfAny
  <2>2. \A s \in Sockets : browser'[s] = IF s = ws THEN "closing" ELSE browser[s]
    BY <2>1 DEF HangUp, IInv, TypeOK
  <2>3. \A s \in Sockets : ~(browser'[s] \in {"connecting", "open"})
    BY <2>2 DEF IInv, InUseIsHeld, InUse
  <2>4. browser' \in [Sockets -> {"none", "connecting", "open", "closing"}]
    BY <2>1 DEF HangUp, IInv, TypeOK
  <2>5. conn' \in [Sockets -> Conn] /\ broken' \in [Sockets -> BOOLEAN]
    BY <2>1 DEF HangUp, IInv, TypeOK, AcceptLoopTypeOK, Conn
  <2>6. \A s \in Sockets : conn'[s] = conn[s] \/ browser[s] = "open"
    BY <2>1 DEF HangUp, IInv, TypeOK, AcceptLoopTypeOK
  <2>7. BacklogOK'
    BY <2>3, <2>6, BacklogStays DEF IInv, BacklogOK
  <2>8. QED
    BY <2>3, <2>4, <2>5, <2>7
<1>2. CASE ws \notin Sockets
  <2>1. UNCHANGED <<browser, conn, broken>>
    BY <1>2 DEF HangUpIfAny
  <2>2. \A s \in Sockets : ~(browser'[s] \in {"connecting", "open"})
    BY <1>2, <2>1 DEF IInv, InUseIsHeld, InUse
  <2>3. QED
    BY <2>1, <2>2 DEF IInv, TypeOK, AcceptLoopTypeOK, BacklogOK
<1>3. QED
  BY <1>1, <1>2

\* resetWs() leaves the hook without a socket in use, whoever calls it.
LEMMA ResetStep ==
  ASSUME IInv, ResetWs, resets' \in 0..MaxResets, nonce' \in BOOLEAN
  PROVE  IInv'
<1> USE DEF ResetWs
<1>1. /\ \A s \in Sockets : ~(browser'[s] \in {"connecting", "open"})
      /\ browser' \in [Sockets -> {"none", "connecting", "open", "closing"}]
      /\ conn' \in [Sockets -> Conn] /\ broken' \in [Sockets -> BOOLEAN]
      /\ BacklogOK'
  BY HangUpFacts
<1>2. AcceptLoopTypeOK'
  BY <1>1 DEF IInv, TypeOK, AcceptLoopTypeOK, thread
<1>3. attempt' \in 0..(Ladder + 1)
  BY WsBridgeAssumption
<1>4. TypeOK'
  BY <1>1, <1>2, <1>3 DEF IInv, TypeOK
<1>5. InUseIsHeld'
  BY <1>1 DEF InUseIsHeld, InUse
<1>6. HealthyNotDropped' /\ DeadMeansDown'
  BY AcceptLoopAssumption DEF HealthyNotDropped, WatchdogDue, DeadMeansDown
<1>7. QED
  BY <1>1, <1>4, <1>5, <1>6 DEF IInv

LEMMA MoreResets ==
  ASSUME TypeOK, resets < MaxResets
  PROVE  resets + 1 \in 0..MaxResets
  BY WsBridgeAssumption DEF TypeOK

LEMMA ResetCallers ==
  ASSUME IInv, TokenChanged \/ NonceWatcher \/ Watchdog
  PROVE  IInv'
<1>1. CASE TokenChanged
  BY <1>1, ResetStep, MoreResets DEF TokenChanged, IInv, TypeOK
<1>2. CASE NonceWatcher
  <2>1. nonce' \in BOOLEAN
    BY <1>2 DEF NonceWatcher
  <2>2. QED
    BY <1>2, <2>1, ResetStep DEF NonceWatcher, IInv, TypeOK
<1>3. CASE Watchdog
  BY <1>3, ResetStep DEF Watchdog, IInv, TypeOK
<1>4. QED
  BY <1>1, <1>2, <1>3

LEMMA RequestReconnectStep ==
  ASSUME IInv, RequestReconnect
  PROVE  IInv'
<1> USE DEF RequestReconnect, hook
<1>1. resets' \in 0..MaxResets
  BY MoreResets DEF IInv
<1>2. TypeOK'
  BY <1>1 DEF IInv, TypeOK, AcceptLoopTypeOK, serverVars, wire, thread
<1>3. BacklogOK' /\ InUseIsHeld'
  BY DEF IInv, BacklogOK, InUseIsHeld, InUse, serverVars, wire
<1>4. HealthyNotDropped' /\ DeadMeansDown'
  BY DEF IInv, HealthyNotDropped, WatchdogDue, Flowing, DeadMeansDown, serverVars, wire, thread
<1>5. QED
  BY <1>2, <1>3, <1>4 DEF IInv

\* Only a socket on which nothing flows goes quiet.
LEMMA QuietStep ==
  ASSUME IInv, Quiet
  PROVE  IInv'
<1> USE DEF Quiet, hook
<1>1. TypeOK'
  BY DEF IInv, TypeOK, AcceptLoopTypeOK, serverVars, wire, thread
<1>2. BacklogOK' /\ InUseIsHeld'
  BY DEF IInv, BacklogOK, InUseIsHeld, InUse, serverVars, wire
<1>3. HealthyNotDropped' /\ DeadMeansDown'
  BY DEF IInv, HealthyNotDropped, WatchdogDue, Flowing, DeadMeansDown, HasOpen, serverVars, wire, thread
<1>4. QED
  BY <1>1, <1>2, <1>3 DEF IInv

LEMMA UnmountStep ==
  ASSUME IInv, Unmount
  PROVE  IInv'
<1> USE DEF Unmount, store
<1>1. /\ \A s \in Sockets : ~(browser'[s] \in {"connecting", "open"})
      /\ browser' \in [Sockets -> {"none", "connecting", "open", "closing"}]
      /\ conn' \in [Sockets -> Conn] /\ broken' \in [Sockets -> BOOLEAN]
      /\ BacklogOK'
  BY HangUpFacts
<1>2. AcceptLoopTypeOK'
  BY <1>1 DEF IInv, TypeOK, AcceptLoopTypeOK, thread
<1>3. {alive', connecting', timer', live', dead', nonce', asking'} \subseteq BOOLEAN
  BY DEF IInv, TypeOK
<1>4. TypeOK'
  BY <1>1, <1>2, <1>3 DEF IInv, TypeOK
<1>5. InUseIsHeld'
  BY <1>1 DEF InUseIsHeld, InUse
<1>6. HealthyNotDropped' /\ DeadMeansDown'
  BY <1>1 DEF IInv, HealthyNotDropped, WatchdogDue, DeadMeansDown, HasOpen
<1>7. QED
  BY <1>1, <1>4, <1>5, <1>6 DEF IInv

-----------------------------------------------------------------------------
(***************************************************************************)
(* The progress asking, the server's steps and what goes wrong around it.  *)
(***************************************************************************)
LEMMA AskStep ==
  ASSUME IInv, Ask
  PROVE  IInv'
<1> USE DEF Ask, hook, store, thread
<1>1. BacklogOK' /\ backlog' \in Seq(Sockets \union {Rest})
  BY QueuedAtEnd, AcceptLoopAssumption DEF IInv, TypeOK, AcceptLoopTypeOK
<1>2. TypeOK'
  BY <1>1 DEF IInv, TypeOK, AcceptLoopTypeOK
<1>3. InUseIsHeld' /\ HealthyNotDropped' /\ DeadMeansDown'
  BY DEF IInv, InUseIsHeld, InUse, HealthyNotDropped, WatchdogDue, Flowing, DeadMeansDown, HasOpen
<1>4. QED
  BY <1>1, <1>2, <1>3 DEF IInv

LEMMA AnswerStep ==
  ASSUME IInv, Answer
  PROVE  IInv'
<1> USE DEF Answer, TakeRest, hook, store, thread
<1>1. BacklogOK' /\ backlog' \in Seq(Sockets \union {Rest})
  BY TakenOff DEF IInv, TypeOK, AcceptLoopTypeOK
<1>2. TypeOK'
  BY <1>1 DEF IInv, TypeOK, AcceptLoopTypeOK
<1>3. InUseIsHeld' /\ HealthyNotDropped' /\ DeadMeansDown'
  BY DEF IInv, InUseIsHeld, InUse, HealthyNotDropped, WatchdogDue, Flowing, DeadMeansDown, HasOpen
<1>4. QED
  BY <1>1, <1>2, <1>3 DEF IInv

\* What a step of the server or of the network must keep when the page does
\* not move: nothing starts to flow on a socket that was opened before.
LEMMA PageStands ==
  ASSUME IInv, UNCHANGED <<browser, hook, live, dead, lastPing, nonce, resets>>, asking' \in BOOLEAN,
         AcceptLoopTypeOK', BacklogOK',
         \A s \in Sockets : Flowing(s)' => Flowing(s) \/ browser[s] # "open"
  PROVE  IInv'
<1> USE DEF hook
<1>1. TypeOK'
  BY DEF IInv, TypeOK
<1>2. InUseIsHeld' /\ DeadMeansDown'
  BY DEF IInv, InUseIsHeld, InUse, DeadMeansDown, HasOpen
<1>3. HealthyNotDropped'
  BY DEF IInv, HealthyNotDropped, WatchdogDue
<1>4. QED
  BY <1>1, <1>2, <1>3 DEF IInv

LEMMA ServerStopsStep ==
  ASSUME IInv, ServerStops
  PROVE  IInv'
<1> USE DEF ServerStops, Stop, store
<1>1. AcceptLoopTypeOK'
  <2>1. conn' \in [Sockets -> Conn]
    BY DEF Conn, IInv, TypeOK, AcceptLoopTypeOK
  <2>2. faults' \in 0..MaxFaults
    BY FailsTypes DEF IInv
  <2>3. sessAge' \in 0..LifeTicks /\ silent' \in 0..IdleTicks
    BY AcceptLoopAssumption
  <2>4. backlog' \in Seq(Sockets \union {Rest})
    OBVIOUS
  <2>5. QED
    BY <2>1, <2>2, <2>3, <2>4 DEF IInv, TypeOK, AcceptLoopTypeOK
<1>2. BacklogOK'
  BY DEF BacklogOK
<1>3. QED
  BY <1>1, <1>2, PageStands, AcceptLoopAssumption DEF Flowing, hook

LEMMA TakeSocketStep ==
  ASSUME IInv, NEW s \in Sockets, TakeSocket(s), UNCHANGED <<browser, hook, store, asking, resets>>
  PROVE  IInv'
<1> USE DEF TakeSocket, store
<1>1. \A q \in Sockets : q # s => conn'[q] = conn[q]
  BY DEF IInv, TypeOK, AcceptLoopTypeOK
<1>2. BacklogOK' /\ backlog' \in Seq(Sockets \union {Rest})
  BY <1>1, TakenOff DEF IInv, TypeOK, AcceptLoopTypeOK
<1>3. conn' \in [Sockets -> Conn]
  BY DEF IInv, TypeOK, AcceptLoopTypeOK, Conn
<1>4. sessAge' \in 0..LifeTicks /\ silent' \in 0..IdleTicks /\ serving' \in Sockets \union {NoSocket}
  BY AcceptLoopAssumption DEF IInv, TypeOK, AcceptLoopTypeOK
<1>5. faults' \in 0..MaxFaults
  BY FailsTypes DEF IInv, TypeOK, AcceptLoopTypeOK
<1>6. AcceptLoopTypeOK'
  BY <1>2, <1>3, <1>4, <1>5 DEF IInv, TypeOK, AcceptLoopTypeOK
<1>7. browser[s] # "open"
  BY NextWaits DEF IInv, TypeOK, AcceptLoopTypeOK
<1>8. \A q \in Sockets : Flowing(q)' => Flowing(q) \/ q = s
  BY <1>1 DEF Flowing
<1>9. QED
  BY <1>2, <1>6, <1>7, <1>8, PageStands DEF IInv, TypeOK, hook

LEMMA EndSessionStep ==
  ASSUME IInv, EndSession, UNCHANGED <<browser, hook, store, asking, resets>>
  PROVE  IInv'
<1> USE DEF EndSession, store
<1>1. serving \in Sockets /\ conn' \in [Sockets -> Conn]
  BY DEF IInv, TypeOK, AcceptLoopTypeOK, Conn
<1>2. sessAge' \in 0..LifeTicks /\ silent' \in 0..IdleTicks
  BY AcceptLoopAssumption
<1>3. AcceptLoopTypeOK'
  BY <1>1, <1>2 DEF IInv, TypeOK, AcceptLoopTypeOK
<1>4. \A q \in Sockets : conn'[q] = conn[q] \/ conn'[q] = "gone"
  BY <1>1 DEF IInv, TypeOK, AcceptLoopTypeOK
<1>5. BacklogOK'
  BY <1>4, BacklogStays DEF IInv
<1>6. QED
  BY <1>3, <1>5, PageStands, AcceptLoopAssumption DEF IInv, TypeOK, Flowing, hook

\* The loop's other steps leave the wires and the session in service alone.
LEMMA IdleSteps ==
  ASSUME IInv, Scan \/ HalfMinute \/ Start, UNCHANGED <<browser, hook, store, asking, resets>>
  PROVE  IInv'
<1> USE DEF store, wire
<1>1. conn' = conn /\ broken' = broken /\ backlog' = backlog /\ serving' = serving /\ faults' = faults
      /\ up' \in BOOLEAN
  BY DEF Scan, HalfMinute, Start, IInv, TypeOK, AcceptLoopTypeOK
<1>2. sessAge' \in 0..LifeTicks
  <2>1. Cap(sessAge + 1, LifeTicks) \in 0..LifeTicks
    <3>1. sessAge + 1 \in Nat /\ LifeTicks \in Nat
      BY AcceptLoopAssumption DEF IInv, TypeOK, AcceptLoopTypeOK
    <3>2. QED
      BY <3>1, CapInBound
  <2>2. QED
    BY <2>1 DEF Scan, HalfMinute, Start, IInv, TypeOK, AcceptLoopTypeOK
<1>3. silent' \in 0..IdleTicks
  BY AcceptLoopAssumption DEF Scan, HalfMinute, Start, Expired, IInv, TypeOK, AcceptLoopTypeOK
<1>4. scanAge' \in 0..MaxScanAge
  <2>1. Cap(scanAge + 1, MaxScanAge) \in 0..MaxScanAge
    <3>1. scanAge + 1 \in Nat /\ MaxScanAge \in Nat
      BY AcceptLoopAssumption DEF IInv, TypeOK, AcceptLoopTypeOK
    <3>2. QED
      BY <3>1, CapInBound
  <2>2. QED
    BY <2>1, AcceptLoopAssumption DEF Scan, HalfMinute, Start
<1>5. AcceptLoopTypeOK'
  BY <1>1, <1>2, <1>3, <1>4 DEF IInv, TypeOK, AcceptLoopTypeOK
<1>6. BacklogOK'
  BY <1>1 DEF IInv, BacklogOK
<1>7. QED
  BY <1>1, <1>5, <1>6, PageStands DEF IInv, TypeOK, Flowing, hook

LEMMA LinkFails ==
  ASSUME IInv, NEW s \in Sockets, Break(s) \/ Drop(s), UNCHANGED <<browser, hook, store, asking, resets>>
  PROVE  IInv'
<1> USE DEF Break, Drop, store, thread
<1>1. faults' \in 0..MaxFaults
  BY FailsTypes DEF IInv
<1>2. AcceptLoopTypeOK'
  BY <1>1 DEF IInv, TypeOK, AcceptLoopTypeOK, Conn
<1>3. \A q \in Sockets : (conn'[q] = conn[q] \/ conn'[q] = "gone") /\ (broken[q] => broken'[q])
  BY DEF IInv, TypeOK, AcceptLoopTypeOK
<1>4. BacklogOK'
  BY <1>3, BacklogStays DEF IInv
<1>5. \A q \in Sockets : Flowing(q)' => Flowing(q)
  BY <1>3 DEF Flowing
<1>6. QED
  BY <1>2, <1>4, <1>5, PageStands DEF IInv, TypeOK, hook

-----------------------------------------------------------------------------
LEMMA BridgeNext ==
  ASSUME IInv, [Next]_vars
  PROVE  IInv'
<1>1. CASE Starter \/ TimerFires
  BY <1>1, StarterStep, TimerStep
<1>2. CASE \E s \in Sockets : OnOpen(s) \/ OnMessage(s) \/ OnError(s) \/ OnClose(s)
  BY <1>2, OnOpenStep, OnMessageStep, OnErrorStep, OnCloseStep
<1>3. CASE TokenChanged \/ RequestReconnect \/ NonceWatcher \/ Watchdog \/ Quiet \/ Unmount
  BY <1>3, ResetCallers, RequestReconnectStep, QuietStep, UnmountStep
<1>4. CASE Ask \/ Answer \/ ServerStops
  BY <1>4, AskStep, AnswerStep, ServerStopsStep
<1>5. CASE ServerStep
  BY <1>5, TakeSocketStep, EndSessionStep, IdleSteps DEF ServerStep
<1>6. CASE Mishap
  BY <1>6, LinkFails, IdleSteps DEF Mishap
<1>7. CASE UNCHANGED vars
  BY <1>7, PageStands DEF vars, serverVars, wire, thread, store, IInv, TypeOK, AcceptLoopTypeOK, BacklogOK, Flowing
<1>8. QED
  BY <1>1, <1>2, <1>3, <1>4, <1>5, <1>6, <1>7 DEF Next

\* IInv holds in every reachable state.
THEOREM BridgeInvariance == Spec => []IInv
<1>1. IInv /\ [Next]_vars => IInv'
  BY BridgeNext
<1>2. QED
  BY BridgeInit, <1>1, PTL DEF Spec

\* Every variable of the page and of the server's thread keeps its type: the
\* counters stay within their bounds.
THEOREM BridgeTypeCorrect == Spec => []TypeOK
<1>1. IInv => TypeOK
  BY DEF IInv
<1>2. QED
  BY <1>1, BridgeInvariance, PTL

\* What the page does and says about its socket agrees with the socket, for every
\* number of sockets, of failures and of resets: it has one socket in use, does
\* not take away one on which frames arrive, and shows "disconnected" only while
\* none is open.
THEOREM BannerHolds == Spec => []BannerIsTrue
<1>1. IInv => BannerIsTrue
  <2>1. SUFFICES ASSUME IInv PROVE BannerIsTrue
    OBVIOUS
  <2>2. {s \in Sockets : InUse(s)} \subseteq {ws}
    BY <2>1 DEF IInv, InUseIsHeld
  <2>3. IsFiniteSet({ws}) /\ Cardinality({ws}) = 1
    BY FS_Singleton
  <2>4. Cardinality({s \in Sockets : InUse(s)}) <= 1
    BY <2>2, <2>3, FS_Subset
  <2>5. QED
    BY <2>1, <2>4 DEF IInv, BannerIsTrue, OneSocket
<1>2. QED
  BY <1>1, BridgeInvariance, PTL
-----------------------------------------------------------------------------
(***************************************************************************)
(* StreamPipeline.                                                         *)
(***************************************************************************)
\* The present run of a supervisor is a run.
LEMMA CurrentIsRun ==
  ASSUME StreamInv, NEW v \in Viewers
  PROVE  Current(v) \in Runs /\ Current(v)[1] = v
  BY DEF StreamInv, StreamTypeOK, Current, Runs

\* The owner of a run is a viewer.
LEMMA RunHasViewer ==
  ASSUME NEW r \in Runs
  PROVE  r[1] \in Viewers
  BY DEF Runs

\* A fault takes one from the bound.
LEMMA FaultLeft ==
  ASSUME StreamInv, Fault
  PROVE  left' \in (0..MaxViewers) \X Nat
<1>1. PICK a \in 0..MaxViewers, b \in Nat : left = <<a, b>>
  BY DEF StreamInv, StreamTypeOK
<1>2. left' = <<a, b - 1>> /\ b > 0
  BY <1>1 DEF Fault
<1>3. QED
  BY <1>2

\* Return() counts an attempt only while one is left.
LEMMA ReturnTypes ==
  ASSUME StreamInv, NEW r \in Runs, Return(r)
  PROVE  /\ sup' \in [Viewers -> {"none", "backoff", "run", "ended", "gaveup"}]
         /\ tries' \in [Viewers -> 0..MaxRestarts-1]
         /\ phase' \in [Runs -> InPipeline \cup {"none", "end"}]
         /\ \A q \in Runs : q # r => phase'[q] = phase[q]
<1>1. r[1] \in Viewers
  BY RunHasViewer
<1>2. AfterRun(r[1]) \in {"ended", "gaveup", "backoff"}
  BY DEF AfterRun
<1>3. AfterRun(r[1]) = "backoff" => tries[r[1]] + 1 # MaxRestarts
  BY DEF AfterRun
<1>4. tries[r[1]] \in 0..MaxRestarts-1
  BY <1>1 DEF StreamInv, StreamTypeOK
<1>5. AfterRun(r[1]) = "backoff" => tries[r[1]] + 1 \in 0..MaxRestarts-1
  BY <1>3, <1>4, StreamAssumption
<1>6. sup' \in [Viewers -> {"none", "backoff", "run", "ended", "gaveup"}]
  BY <1>1, <1>2 DEF Return, StreamInv, StreamTypeOK
<1>7. tries' \in [Viewers -> 0..MaxRestarts-1]
  BY <1>1, <1>4, <1>5 DEF Return, StreamInv, StreamTypeOK
<1>8. /\ phase' \in [Runs -> InPipeline \cup {"none", "end"}]
      /\ \A q \in Runs : q # r => phase'[q] = phase[q]
  BY DEF Return, StreamInv, StreamTypeOK
<1>9. QED
  BY <1>6, <1>7, <1>8

\* The death of the process leaves no run and no holder of the device.
LEMMA PanicStep ==
  ASSUME StreamInv, Panic
  PROVE  StreamInv'
<1> USE StreamAssumption
<1>1. /\ link' \in [Viewers -> {"new", "signalling", "peer", "gone"}]
      /\ \A v \in Viewers : link'[v] # "new" => link[v] # "new"
  BY DEF Panic, AllEnd, StreamInv, StreamTypeOK
<1>2. /\ cancelled' \in [Viewers -> BOOLEAN]
      /\ \A v \in Viewers : cancelled'[v] <=> link[v] # "new"
  BY DEF Panic
<1>3. sup' \in [Viewers -> {"none", "backoff", "run", "ended", "gaveup"}]
  BY DEF Panic, AllEnd, StreamInv, StreamTypeOK
<1>4. /\ phase' \in [Runs -> InPipeline \cup {"none", "end"}]
      /\ \A r \in Runs : phase'[r] \in {"none", "end"}
  <2>1. phase' = [r \in Runs |-> IF phase[r] \in {"new", "none"} THEN phase[r] ELSE "end"]
    BY DEF Panic, AllEnd, StreamInv, StreamTypeOK
  <2>2. \A r \in Runs : phase[r] # "new"
    BY DEF StreamInv, StreamTypeOK, InPipeline, HasDevice
  <2>3. QED
    BY <2>1, <2>2
<1>5. /\ ff' \in [Runs -> {"none", "up", "exited"}]
      /\ reader' \in [Runs -> {"none", "reading", "done"}]
      /\ sender' \in [Runs -> {"none", "sending", "failed", "done"}]
  BY DEF Panic, AllEnd, StreamInv, StreamTypeOK
<1>6. /\ frames' \in [Runs -> 0..EncQueue+PipeCap]
      /\ held' \in [Runs -> 0..1]
      /\ chan' \in [Runs -> 0..ChanCap]
  BY DEF Panic
<1>7. /\ device' = NoRun /\ dxgi' = NoRun /\ took' = {} /\ wiped' = {} /\ bench' = "off"
      /\ active' = active /\ tries' = tries /\ left' = left
  BY DEF Panic
<1>8. StreamTypeOK'
  BY <1>1, <1>2, <1>3, <1>4, <1>5, <1>6, <1>7 DEF StreamInv, StreamTypeOK
<1>9. OlderCancelled'
  BY <1>1, <1>2, <1>7 DEF StreamInv, OlderCancelled
<1>10. DeviceHeld' /\ CapturerOK'
  BY <1>4, <1>7 DEF DeviceHeld, CapturerOK
<1>11. QED
  BY <1>8, <1>9, <1>10 DEF StreamInv

-----------------------------------------------------------------------------
LEMMA ViewerConnects ==
  ASSUME StreamInv, NEW v \in Viewers, Connect(v)
  PROVE  StreamInv'
<1> USE StreamAssumption
<1>1. /\ v = active + 1 /\ active' = v /\ active \in 0..MaxViewers
      /\ UNCHANGED <<sup, tries, phase, ff, frames, held, chan, reader, sender>>
      /\ UNCHANGED <<device, dxgi, took, wiped, bench>>
  BY DEF Connect, supVars, encVars, devVars, StreamInv, StreamTypeOK
<1>2. active' \in 0..MaxViewers
  BY <1>1 DEF Viewers
<1>3. left' \in (0..MaxViewers) \X Nat
  <2>1. PICK a \in 0..MaxViewers, b \in Nat : left = <<a, b>>
    BY DEF StreamInv, StreamTypeOK
  <2>2. left' = <<a - 1, b>> /\ a > 0
    BY <2>1 DEF Connect
  <2>3. QED
    BY <2>2
<1>4. CancelBefore(v) \in [Viewers -> BOOLEAN]
  BY DEF CancelBefore, StreamInv, StreamTypeOK
<1>5. \A w \in Viewers : CancelBefore(v)[w] <=> cancelled[w] \/ w = active
  BY <1>1 DEF CancelBefore, Viewers, StreamInv, StreamTypeOK
<1>6. /\ link' \in [Viewers -> {"new", "signalling", "peer", "gone"}]
      /\ \A w \in Viewers : w # v => link'[w] = link[w]
  BY DEF Connect, StreamInv, StreamTypeOK
<1>7. /\ cancelled' \in [Viewers -> BOOLEAN]
      /\ \A w \in Viewers : w # v => (cancelled'[w] <=> cancelled[w] \/ w = active)
  BY <1>4, <1>5 DEF Connect
<1>8. StreamTypeOK'
  BY <1>1, <1>2, <1>3, <1>6, <1>7 DEF StreamInv, StreamTypeOK
<1>9. OlderCancelled'
  <2>1. SUFFICES ASSUME NEW w \in Viewers, link'[w] # "new"
                 PROVE  w <= v /\ (w # v => cancelled'[w])
    BY <1>1 DEF OlderCancelled
  <2>2. CASE w # v
    <3>1. link[w] # "new"
      BY <1>6, <2>1, <2>2
    <3>2. w <= active /\ (w # active => cancelled[w])
      BY <3>1 DEF StreamInv, OlderCancelled
    <3>3. QED
      BY <1>1, <1>7, <2>2, <3>2 DEF Viewers
  <2>3. QED
    BY <2>2 DEF Viewers
<1>10. DeviceHeld' /\ CapturerOK'
  BY <1>1 DEF StreamInv, DeviceHeld, CapturerOK
<1>11. QED
  BY <1>8, <1>9, <1>10 DEF StreamInv

LEMMA PeerConnectedStep ==
  ASSUME StreamInv, NEW v \in Viewers, PeerConnected(v)
  PROVE  StreamInv'
<1>1. StreamTypeOK'
  BY DEF PeerConnected, encVars, devVars, StreamInv, StreamTypeOK
<1>2. OlderCancelled'
  BY DEF PeerConnected, StreamInv, StreamTypeOK, OlderCancelled
<1>3. DeviceHeld' /\ CapturerOK'
  BY DEF PeerConnected, devVars, StreamInv, DeviceHeld, CapturerOK
<1>4. QED
  BY <1>1, <1>2, <1>3 DEF StreamInv

LEMMA LeaveStep ==
  ASSUME StreamInv, NEW v \in Viewers, Leave(v)
  PROVE  StreamInv'
<1>1. StreamTypeOK'
  BY DEF Leave, supVars, encVars, devVars, StreamInv, StreamTypeOK
<1>2. OlderCancelled'
  BY DEF Leave, StreamInv, StreamTypeOK, OlderCancelled
<1>3. DeviceHeld' /\ CapturerOK'
  BY DEF Leave, devVars, StreamInv, DeviceHeld, CapturerOK
<1>4. QED
  BY <1>1, <1>2, <1>3 DEF StreamInv

LEMMA BackoffStep ==
  ASSUME StreamInv, NEW v \in Viewers, Backoff(v)
  PROVE  StreamInv'
<1>1. StreamTypeOK'
  BY DEF Backoff, viewerVars, encVars, devVars, StreamInv, StreamTypeOK
<1>2. OlderCancelled' /\ DeviceHeld' /\ CapturerOK'
  BY DEF Backoff, viewerVars, devVars, StreamInv, OlderCancelled, DeviceHeld, CapturerOK
<1>3. QED
  BY <1>1, <1>2 DEF StreamInv

-----------------------------------------------------------------------------
(***************************************************************************)
(* The desktop duplication.                                                *)
(***************************************************************************)
\* NoRun is no run.
LEMMA RunIsNotNil ==
  ASSUME NEW r \in Runs
  PROVE  r # NoRun
<1>1. r \in Nat \X Nat
  BY StreamAssumption DEF Runs, Viewers
<1>2. QED
  BY <1>1, StreamAssumption

\* What is still to show of a step that leaves the viewers alone.
LEMMA DeviceSteps ==
  ASSUME StreamInv, StreamTypeOK', UNCHANGED viewerVars, DeviceHeld', CapturerOK'
  PROVE  StreamInv'
  BY DEF viewerVars, StreamInv, OlderCancelled

\* A run between initDXGI and closeDXGI moves on, and the device stays with it.
LEMMA CapturerStays ==
  ASSUME StreamInv, NEW r \in Runs, NEW p \in HasDevice \ {"init"},
         phase[r] \in HasDevice \ {"init"},
         p \in {"stored", "check", "release"} => r \in took,
         phase' = [phase EXCEPT ![r] = p],
         UNCHANGED <<device, dxgi, took, wiped>>
  PROVE  DeviceHeld' /\ CapturerOK'
<1>1. \A q \in Runs : phase'[q] = IF q = r THEN p ELSE phase[q]
  BY DEF StreamInv, StreamTypeOK
<1>2. DeviceHeld'
  BY <1>1, RunIsNotNil DEF StreamInv, StreamTypeOK, DeviceHeld
<1>3. CapturerOK'
  <2>1. device # NoRun => phase'[device] = "init" \/ device \in took \cup wiped
    BY <1>1 DEF StreamInv, StreamTypeOK, CapturerOK
  <2>2. \A q \in Runs : /\ phase'[q] = "init" => device = q
                        /\ phase'[q] \in {"stored", "check", "release"} => q \in took
    BY <1>1 DEF StreamInv, CapturerOK
  <2>3. \A q \in took \cup wiped : phase'[q] \notin {"none", "init"}
    BY <1>1 DEF StreamInv, StreamTypeOK, CapturerOK, HasDevice
  <2>4. \A q \in took :
          phase'[q] \in HasDevice => device = q /\ (dxgi = q \/ (dxgi = NoRun /\ q \in wiped))
    BY <1>1 DEF StreamInv, StreamTypeOK, CapturerOK, HasDevice
  <2>5. dxgi \in took \cup {NoRun}
    BY DEF StreamInv, CapturerOK
  <2>6. QED
    BY <2>1, <2>2, <2>3, <2>4, <2>5 DEF CapturerOK
<1>4. QED
  BY <1>2, <1>3

\* A run returns that does not hold the device, or whose capturer was wiped.
LEMMA CapturerLeft ==
  ASSUME StreamInv, NEW r \in Runs, Return(r), phase[r] # "init",
         device # r \/ r \in wiped, dxgi # r,
         took' \in {took, took \ {r}},
         UNCHANGED <<device, dxgi, wiped>>
  PROVE  DeviceHeld' /\ CapturerOK'
<1>1. \A q \in Runs : phase'[q] = IF q = r THEN "end" ELSE phase[q]
  BY DEF Return, StreamInv, StreamTypeOK
<1>2. DeviceHeld'
  BY <1>1 DEF StreamInv, StreamTypeOK, DeviceHeld
<1>3. CapturerOK'
  BY <1>1 DEF StreamInv, StreamTypeOK, CapturerOK, HasDevice
<1>4. QED
  BY <1>2, <1>3

\* LeaveRun(): closeDXGI was deferred, or the run never had the device.
LEMMA CapturerLeaves ==
  ASSUME StreamInv, NEW r \in Runs, LeaveRun(r), phase[r] \in {"encode", "close"},
         UNCHANGED <<device, dxgi, took, wiped>>
  PROVE  /\ DeviceHeld' /\ CapturerOK'
         /\ sup' \in [Viewers -> {"none", "backoff", "run", "ended", "gaveup"}]
         /\ tries' \in [Viewers -> 0..MaxRestarts-1]
         /\ phase' \in [Runs -> InPipeline \cup {"none", "end"}]
<1>1. CASE r \in took
  <2>1. phase' = [phase EXCEPT ![r] = "check"] /\ UNCHANGED supVars
    BY <1>1 DEF LeaveRun
  <2>2. "check" \in HasDevice \ {"init"} /\ phase[r] \in HasDevice \ {"init"}
    BY DEF HasDevice
  <2>3. DeviceHeld' /\ CapturerOK'
    BY <1>1, <2>1, <2>2, CapturerStays
  <2>4. QED
    BY <2>1, <2>3 DEF supVars, StreamInv, StreamTypeOK, InPipeline, HasDevice
<1>2. CASE r \notin took
  <2>1. Return(r)
    BY <1>2 DEF LeaveRun
  <2>2. (device # r \/ r \in wiped) /\ dxgi # r
    BY <1>2, RunIsNotNil DEF StreamInv, CapturerOK
  <2>3. DeviceHeld' /\ CapturerOK'
    BY <2>1, <2>2, CapturerLeft
  <2>4. QED
    BY <2>1, <2>3, ReturnTypes
<1>3. QED
  BY <1>1, <1>2

LEMMA SupervisorStarts ==
  ASSUME StreamInv, NEW v \in Viewers, Duplicate(v)
  PROVE  StreamInv'
<1> DEFINE r == Current(v)
<1>1. r \in Runs
  BY CurrentIsRun
<1>2. /\ phase[r] = "none"
      /\ UNCHANGED <<viewerVars, supVars, encVars, dxgi, took, wiped, bench, left>>
      /\ \/ device = NoRun /\ device' = r /\ phase' = [phase EXCEPT ![r] = "init"]
         \/ device' = device /\ phase' = [phase EXCEPT ![r] = "encode"]
  BY DEF Duplicate
<1> HIDE DEF r
<1>3. r \notin took /\ r \notin wiped /\ device # r
  BY <1>1, <1>2, RunIsNotNil DEF StreamInv, CapturerOK
<1>4. StreamTypeOK'
  BY <1>1, <1>2 DEF viewerVars, supVars, encVars, StreamInv, StreamTypeOK, InPipeline, HasDevice
<1>5. CASE device = NoRun /\ device' = r /\ phase' = [phase EXCEPT ![r] = "init"]
  <2>1. \A q \in Runs : phase'[q] = IF q = r THEN "init" ELSE phase[q]
    BY <1>5 DEF StreamInv, StreamTypeOK
  <2>2. \A q \in Runs : phase[q] # "init" /\ (q \in took => phase[q] \notin HasDevice)
    BY <1>5, RunIsNotNil DEF StreamInv, CapturerOK
  <2>3. DeviceHeld'
    BY <1>1, <1>5, <2>1 DEF DeviceHeld, HasDevice
  <2>4. CapturerOK'
    BY <1>1, <1>2, <1>3, <1>5, <2>1, <2>2 DEF StreamInv, StreamTypeOK, CapturerOK
  <2>5. QED
    BY <1>2, <1>4, <2>3, <2>4, DeviceSteps
<1>6. CASE device' = device /\ phase' = [phase EXCEPT ![r] = "encode"]
  <2>1. \A q \in Runs : phase'[q] = IF q = r THEN "encode" ELSE phase[q]
    BY <1>6 DEF StreamInv, StreamTypeOK
  <2>2. DeviceHeld'
    BY <1>2, <1>3, <1>6, <2>1 DEF StreamInv, StreamTypeOK, DeviceHeld
  <2>3. CapturerOK'
    BY <1>2, <1>3, <1>6, <2>1 DEF StreamInv, StreamTypeOK, CapturerOK
  <2>4. QED
    BY <1>2, <1>4, <2>2, <2>3, DeviceSteps
<1>7. QED
  BY <1>2, <1>5, <1>6

LEMMA StoresStep ==
  ASSUME StreamInv, NEW r \in Runs, Stores(r)
  PROVE  StreamInv'
<1>1. /\ phase[r] = "init" /\ UNCHANGED <<viewerVars, supVars, encVars, wiped, bench>>
      /\ device = r /\ r \notin took
  BY DEF Stores, StreamInv, CapturerOK
<1>2. \A q \in Runs : q # r => phase[q] # "init" /\ (q \in took => phase[q] \notin HasDevice)
  BY <1>1 DEF StreamInv, CapturerOK
<1>3. CASE /\ dxgi' = r /\ took' = took \cup {r} /\ phase' = [phase EXCEPT ![r] = "stored"]
           /\ UNCHANGED <<device, left>>
  <2>1. \A q \in Runs : phase'[q] = IF q = r THEN "stored" ELSE phase[q]
    BY <1>3 DEF StreamInv, StreamTypeOK
  <2>2. StreamTypeOK'
    BY <1>1, <1>3 DEF viewerVars, supVars, encVars, StreamInv, StreamTypeOK, InPipeline, HasDevice
  <2>3. DeviceHeld'
    BY <1>1, <1>3, <2>1 DEF DeviceHeld, HasDevice
  <2>4. CapturerOK'
    BY <1>1, <1>2, <1>3, <2>1 DEF StreamInv, StreamTypeOK, CapturerOK
  <2>5. QED
    BY <1>1, <2>2, <2>3, <2>4, DeviceSteps
<1>4. CASE /\ Fault /\ device' = NoRun /\ phase' = [phase EXCEPT ![r] = "encode"]
           /\ UNCHANGED <<dxgi, took>>
  <2>1. \A q \in Runs : phase'[q] = IF q = r THEN "encode" ELSE phase[q]
    BY <1>4 DEF StreamInv, StreamTypeOK
  <2>2. left' \in (0..MaxViewers) \X Nat
    BY <1>4, FaultLeft
  <2>3. StreamTypeOK'
    BY <1>1, <1>4, <2>2
    DEF viewerVars, supVars, encVars, StreamInv, StreamTypeOK, InPipeline, HasDevice
  <2>4. DeviceHeld'
    BY <1>4 DEF DeviceHeld
  <2>5. CapturerOK'
    BY <1>1, <1>2, <1>4, <2>1 DEF StreamInv, StreamTypeOK, CapturerOK
  <2>6. QED
    BY <1>1, <2>3, <2>4, <2>5, DeviceSteps
<1>5. QED
  BY <1>3, <1>4 DEF Stores

LEMMA EncodeStep ==
  ASSUME StreamInv, NEW r \in Runs, Encode(r)
  PROVE  StreamInv'
<1>1. /\ phase[r] = "encode" /\ UNCHANGED <<viewerVars, device, dxgi, took, wiped>>
      /\ bench' \in {"off", "gdi", "dxgi"}
  BY DEF Encode, StreamInv, StreamTypeOK
<1>2. left' \in (0..MaxViewers) \X Nat
  BY FaultLeft DEF Encode, StreamInv, StreamTypeOK
<1>3. CASE /\ ff' = [ff EXCEPT ![r] = "up"]
           /\ reader' = [reader EXCEPT ![r] = "reading"]
           /\ sender' = [sender EXCEPT ![r] = "sending"]
           /\ \/ phase' = [phase EXCEPT ![r] = "write"]
              \/ phase' = [phase EXCEPT ![r] = "close"]
           /\ UNCHANGED <<supVars, frames, held, chan>>
  <2>1. /\ "write" \in HasDevice \ {"init"} /\ "close" \in HasDevice \ {"init"}
        /\ phase[r] \in HasDevice \ {"init"}
    BY <1>1 DEF HasDevice
  <2>2. DeviceHeld' /\ CapturerOK'
    BY <1>1, <1>3, <2>1, CapturerStays
  <2>3. phase' \in [Runs -> InPipeline \cup {"none", "end"}]
    BY <1>3, <2>1 DEF StreamInv, StreamTypeOK, InPipeline
  <2>4. StreamTypeOK'
    BY <1>1, <1>2, <1>3, <2>3 DEF viewerVars, supVars, StreamInv, StreamTypeOK
  <2>5. QED
    BY <1>1, <2>2, <2>4, DeviceSteps
<1>4. CASE Fault /\ LeaveRun(r) /\ UNCHANGED encVars
  <2>1. /\ DeviceHeld' /\ CapturerOK'
        /\ sup' \in [Viewers -> {"none", "backoff", "run", "ended", "gaveup"}]
        /\ tries' \in [Viewers -> 0..MaxRestarts-1]
        /\ phase' \in [Runs -> InPipeline \cup {"none", "end"}]
    BY <1>1, <1>4, CapturerLeaves
  <2>2. StreamTypeOK'
    BY <1>1, <1>2, <1>4, <2>1 DEF viewerVars, encVars, StreamInv, StreamTypeOK
  <2>3. QED
    BY <1>1, <2>1, <2>2, DeviceSteps
<1>5. QED
  BY <1>3, <1>4 DEF Encode

LEMMA CloseStep ==
  ASSUME StreamInv, NEW r \in Runs, Close(r)
  PROVE  StreamInv'
<1>1. /\ LeaveRun(r) /\ phase[r] = "close"
      /\ ff' = [ff EXCEPT ![r] = "exited"] /\ frames' = [frames EXCEPT ![r] = 0]
      /\ UNCHANGED <<viewerVars, held, chan, reader, sender, devVars, left>>
  BY DEF Close
<1>2. UNCHANGED <<device, dxgi, took, wiped, bench>>
  BY <1>1 DEF devVars
<1>3. frames' \in [Runs -> 0..EncQueue+PipeCap]
  BY <1>1, StreamAssumption DEF StreamInv, StreamTypeOK
<1>4. /\ DeviceHeld' /\ CapturerOK'
      /\ sup' \in [Viewers -> {"none", "backoff", "run", "ended", "gaveup"}]
      /\ tries' \in [Viewers -> 0..MaxRestarts-1]
      /\ phase' \in [Runs -> InPipeline \cup {"none", "end"}]
  BY <1>1, <1>2, CapturerLeaves
<1>5. StreamTypeOK'
  BY <1>1, <1>2, <1>3, <1>4 DEF viewerVars, StreamInv, StreamTypeOK
<1>6. QED
  BY <1>1, <1>4, <1>5, DeviceSteps

LEMMA CheckNilStep ==
  ASSUME StreamInv, NEW r \in Runs, CheckNil(r)
  PROVE  StreamInv'
<1>1. /\ phase[r] = "check"
      /\ UNCHANGED <<viewerVars, encVars, device, dxgi, wiped, bench, left>>
      /\ r \in took /\ device = r /\ (dxgi = r \/ (dxgi = NoRun /\ r \in wiped))
  BY DEF CheckNil, StreamInv, CapturerOK, HasDevice
<1>2. CASE dxgi = NoRun /\ Return(r) /\ took' = took \ {r}
  <2>1. r \in wiped /\ dxgi # r
    BY <1>1, <1>2, RunIsNotNil
  <2>2. DeviceHeld' /\ CapturerOK'
    BY <1>1, <1>2, <2>1, CapturerLeft
  <2>3. StreamTypeOK'
    BY <1>1, <1>2, ReturnTypes DEF viewerVars, encVars, StreamInv, StreamTypeOK
  <2>4. QED
    BY <1>1, <2>2, <2>3, DeviceSteps
<1>3. CASE phase' = [phase EXCEPT ![r] = "release"] /\ UNCHANGED <<supVars, took>>
  <2>1. "release" \in HasDevice \ {"init"} /\ phase[r] \in HasDevice \ {"init"}
    BY <1>1 DEF HasDevice
  <2>2. DeviceHeld' /\ CapturerOK'
    BY <1>1, <1>3, <2>1, CapturerStays
  <2>3. StreamTypeOK'
    BY <1>1, <1>3
    DEF viewerVars, supVars, encVars, StreamInv, StreamTypeOK, InPipeline, HasDevice
  <2>4. QED
    BY <1>1, <2>2, <2>3, DeviceSteps
<1>4. QED
  BY <1>2, <1>3 DEF CheckNil

LEMMA ReleaseStep ==
  ASSUME StreamInv, NEW r \in Runs, Release(r)
  PROVE  StreamInv'
<1>1. CASE Panic
  BY <1>1, PanicStep
<1>2. CASE /\ dxgi # NoRun
           /\ device' = IF device = dxgi THEN NoRun ELSE device
           /\ phase' = [phase EXCEPT ![r] = "clear"]
           /\ UNCHANGED <<viewerVars, supVars, encVars, dxgi, took, wiped, bench, left>>
  <2>1. r \in took /\ device = r /\ dxgi = r /\ device' = NoRun
    BY <1>2 DEF Release, StreamInv, CapturerOK, HasDevice
  <2>2. \A q \in Runs : q # r => phase[q] # "init" /\ (q \in took => phase[q] \notin HasDevice)
    BY <2>1 DEF StreamInv, CapturerOK
  <2>3. \A q \in Runs : phase'[q] = IF q = r THEN "clear" ELSE phase[q]
    BY <1>2 DEF StreamInv, StreamTypeOK
  <2>4. StreamTypeOK'
    BY <1>2, <2>1
    DEF viewerVars, supVars, encVars, StreamInv, StreamTypeOK, InPipeline
  <2>5. DeviceHeld'
    BY <2>1 DEF DeviceHeld
  <2>6. CapturerOK'
    BY <1>2, <2>1, <2>2, <2>3 DEF StreamInv, StreamTypeOK, CapturerOK, HasDevice
  <2>7. QED
    BY <1>2, <2>4, <2>5, <2>6, DeviceSteps
<1>3. QED
  BY <1>1, <1>2 DEF Release

\* Clear() notes whose capturer it took away besides its own.
LEMMA ClearStep ==
  ASSUME StreamInv, NEW r \in Runs, Clear(r)
  PROVE  StreamInv'
<1>1. CASE Panic
  BY <1>1, PanicStep
<1>2. CASE /\ dxgi' = NoRun /\ wiped' = wiped \cup ({dxgi} \ {r, NoRun}) /\ Return(r)
           /\ took' = took \ {r}
           /\ UNCHANGED <<viewerVars, encVars, device, bench, left>>
  <2>1. phase[r] = "clear"
    BY DEF Clear
  <2>2. \A q \in Runs : phase'[q] = IF q = r THEN "end" ELSE phase[q]
    BY <1>2 DEF Return, StreamInv, StreamTypeOK
  <2>3. device = r => r \in wiped
    BY <2>1, RunIsNotNil DEF StreamInv, DeviceHeld, HasDevice
  <2>4. wiped' \subseteq Runs /\ dxgi' \in Runs \cup {NoRun}
    BY <1>2 DEF StreamInv, StreamTypeOK
  <2>5. StreamTypeOK'
    BY <1>2, <2>4, ReturnTypes DEF viewerVars, encVars, StreamInv, StreamTypeOK
  <2>6. DeviceHeld'
    BY <1>2, <2>2, <2>3 DEF StreamInv, StreamTypeOK, DeviceHeld
  <2>7. CapturerOK'
    <3>1. device # NoRun => phase'[device] = "init" \/ device \in took' \cup wiped'
      BY <1>2, <2>1, <2>2, <2>3 DEF StreamInv, StreamTypeOK, CapturerOK
    <3>2. \A q \in Runs : /\ phase'[q] = "init" => device' = q
                          /\ phase'[q] \in {"stored", "check", "release"} => q \in took'
      BY <1>2, <2>2 DEF StreamInv, CapturerOK
    <3>3. \A q \in took' \cup wiped' : phase'[q] \notin {"none", "init"}
      <4>1. took' \cup wiped' \subseteq took \cup wiped
        BY <1>2 DEF StreamInv, CapturerOK
      <4>2. \A q \in took \cup wiped : q \in Runs /\ phase[q] \notin {"none", "init"}
        BY DEF StreamInv, StreamTypeOK, CapturerOK
      <4>3. QED
        BY <2>2, <4>1, <4>2
    <3>4. ASSUME NEW q \in took', phase'[q] \in HasDevice
          PROVE  device' = q /\ q \in wiped'
      <4>1. q \in took /\ q \in Runs /\ q # r /\ q # NoRun
        BY <1>2, RunIsNotNil DEF StreamInv, StreamTypeOK
      <4>2. device = q /\ (dxgi = q \/ q \in wiped)
        BY <2>2, <3>4, <4>1 DEF StreamInv, CapturerOK
      <4>3. QED
        BY <1>2, <4>1, <4>2
    <3>5. QED
      BY <1>2, <3>1, <3>2, <3>3, <3>4 DEF CapturerOK
  <2>8. QED
    BY <1>2, <2>5, <2>6, <2>7, DeviceSteps
<1>3. QED
  BY <1>1, <1>2 DEF Clear

LEMMA BenchmarkStep ==
  ASSUME StreamInv, Benchmark
  PROVE  StreamInv'
<1>1. CASE Panic
  BY <1>1, PanicStep
<1>2. CASE /\ bench' = "dxgi"
           /\ UNCHANGED <<viewerVars, supVars, phase, encVars, device, dxgi, took, wiped, left>>
  <2>1. StreamTypeOK'
    BY <1>2 DEF viewerVars, supVars, encVars, StreamInv, StreamTypeOK
  <2>2. DeviceHeld' /\ CapturerOK'
    BY <1>2 DEF StreamInv, DeviceHeld, CapturerOK
  <2>3. QED
    BY <1>2, <2>1, <2>2, DeviceSteps
<1>3. QED
  BY <1>1, <1>2 DEF Benchmark

-----------------------------------------------------------------------------
\* The capture loop of a run moving on within the pipeline.
LEMMA LoopMoves ==
  ASSUME StreamInv, NEW r \in Runs, NEW p \in {"encode", "loop", "write", "close"},
         phase[r] \in HasDevice \ {"init"}, phase' = [phase EXCEPT ![r] = p],
         frames' \in [Runs -> 0..EncQueue+PipeCap],
         UNCHANGED <<viewerVars, supVars, ff, held, chan, reader, sender, devVars>>,
         UNCHANGED left \/ Fault
  PROVE  StreamInv'
<1>1. left' \in (0..MaxViewers) \X Nat
  BY FaultLeft DEF StreamInv, StreamTypeOK
<1>2. p \in HasDevice \ {"init"} /\ p \in InPipeline /\ UNCHANGED <<device, dxgi, took, wiped, bench>>
  BY DEF HasDevice, InPipeline, devVars
<1>3. StreamTypeOK'
  BY <1>1, <1>2 DEF viewerVars, supVars, StreamInv, StreamTypeOK
<1>4. DeviceHeld' /\ CapturerOK'
  BY <1>2, CapturerStays
<1>5. QED
  BY <1>3, <1>4, DeviceSteps

LEMMA LoopSteps ==
  ASSUME StreamInv, NEW r \in Runs,
         LogsSize(r) \/ Tick(r) \/ GuardTrip(r) \/ LoopSeesDone(r) \/ Write(r)
  PROVE  StreamInv'
<1>1. frames \in [Runs -> 0..EncQueue+PipeCap]
  BY DEF StreamInv, StreamTypeOK
<1>2. {"stored", "loop", "write"} \subseteq HasDevice \ {"init"}
  BY DEF HasDevice
<1>3. CASE Tick(r)
  BY <1>1, <1>2, <1>3, LoopMoves DEF Tick, encVars
<1>4. CASE GuardTrip(r)
  BY <1>1, <1>2, <1>4, LoopMoves DEF GuardTrip, encVars
<1>5. CASE LoopSeesDone(r)
  BY <1>1, <1>2, <1>5, LoopMoves DEF LoopSeesDone, encVars
<1>6. CASE Write(r)
  <2>1. frames' \in [Runs -> 0..EncQueue+PipeCap]
    BY <1>1, <1>6, StreamAssumption DEF Write
  <2>2. QED
    BY <1>2, <1>6, <2>1, LoopMoves DEF Write
<1>7. CASE LogsSize(r)
  BY <1>1, <1>2, <1>7, LoopMoves, PanicStep DEF LogsSize, encVars
<1>8. QED
  BY <1>3, <1>4, <1>5, <1>6, <1>7

\* Steps of ffmpeg, of the reader and of the sender touch neither the viewers
\* nor the capture loops.
LEMMA EncoderStep ==
  ASSUME StreamInv, UNCHANGED <<viewerVars, supVars, phase, devVars>>,
         ff' \in [Runs -> {"none", "up", "exited"}],
         frames' \in [Runs -> 0..EncQueue+PipeCap],
         held' \in [Runs -> 0..1],
         chan' \in [Runs -> 0..ChanCap],
         reader' \in [Runs -> {"none", "reading", "done"}],
         sender' \in [Runs -> {"none", "sending", "failed", "done"}],
         UNCHANGED left \/ Fault
  PROVE  StreamInv'
<1>1. left' \in (0..MaxViewers) \X Nat
  BY FaultLeft DEF StreamInv, StreamTypeOK
<1>2. StreamTypeOK'
  BY <1>1 DEF viewerVars, supVars, devVars, StreamInv, StreamTypeOK
<1>3. DeviceHeld' /\ CapturerOK'
  BY DEF devVars, StreamInv, DeviceHeld, CapturerOK
<1>4. QED
  BY <1>2, <1>3, DeviceSteps

LEMMA FfmpegCrashStep ==
  ASSUME StreamInv, NEW r \in Runs, FfmpegCrash(r)
  PROVE  StreamInv'
  BY EncoderStep DEF FfmpegCrash, StreamInv, StreamTypeOK

LEMMA ReaderSteps ==
  ASSUME StreamInv, NEW r \in Runs, ReaderStep(r)
  PROVE  StreamInv'
<1>1. /\ frames[r] \in 0..EncQueue+PipeCap /\ held[r] \in 0..1 /\ chan[r] \in 0..ChanCap
      /\ frames \in [Runs -> 0..EncQueue+PipeCap] /\ held \in [Runs -> 0..1]
      /\ chan \in [Runs -> 0..ChanCap]
      /\ reader \in [Runs -> {"none", "reading", "done"}]
      /\ ff \in [Runs -> {"none", "up", "exited"}]
      /\ sender \in [Runs -> {"none", "sending", "failed", "done"}]
  BY DEF StreamInv, StreamTypeOK
<1>2. CASE Read(r)
  <2>1. frames' \in [Runs -> 0..EncQueue+PipeCap]
    BY <1>1, <1>2, StreamAssumption DEF Read
  <2>2. held' \in [Runs -> 0..1]
    BY <1>1, <1>2 DEF Read
  <2>3. chan' \in [Runs -> 0..ChanCap]
    BY <1>1, <1>2, StreamAssumption DEF Read
  <2>4. QED
    BY <1>1, <1>2, <2>1, <2>2, <2>3, EncoderStep DEF Read
<1>3. CASE ReadEof(r)
  <2>1. held' \in [Runs -> 0..1]
    BY <1>1, <1>3 DEF ReadEof
  <2>2. chan' \in [Runs -> 0..ChanCap]
    BY <1>1, <1>3, StreamAssumption DEF ReadEof
  <2>3. reader' \in [Runs -> {"none", "reading", "done"}]
    BY <1>1, <1>3 DEF ReadEof
  <2>4. QED
    BY <1>1, <1>3, <2>1, <2>2, <2>3, EncoderStep DEF ReadEof
<1>4. QED
  BY <1>2, <1>3 DEF ReaderStep

LEMMA SenderSteps ==
  ASSUME StreamInv, NEW r \in Runs, SenderStep(r)
  PROVE  StreamInv'
<1>1. /\ frames \in [Runs -> 0..EncQueue+PipeCap] /\ held \in [Runs -> 0..1]
      /\ chan \in [Runs -> 0..ChanCap] /\ chan[r] \in 0..ChanCap
      /\ reader \in [Runs -> {"none", "reading", "done"}]
      /\ ff \in [Runs -> {"none", "up", "exited"}]
      /\ sender \in [Runs -> {"none", "sending", "failed", "done"}]
  BY DEF StreamInv, StreamTypeOK
<1>2. sender' \in [Runs -> {"none", "sending", "failed", "done"}]
  BY <1>1 DEF SenderStep, Send, SenderEnds, SenderSeesDone
<1>3. CASE Send(r)
  <2>1. chan' \in [Runs -> 0..ChanCap]
    BY <1>1, <1>3, StreamAssumption DEF Send
  <2>2. QED
    BY <1>1, <1>2, <1>3, <2>1, EncoderStep DEF Send
<1>4. CASE SenderEnds(r) \/ SenderSeesDone(r)
  BY <1>1, <1>2, <1>4, EncoderStep DEF SenderEnds, SenderSeesDone
<1>5. QED
  BY <1>3, <1>4 DEF SenderStep

-----------------------------------------------------------------------------
LEMMA InitStreamInv ==
  ASSUME StreamInit
  PROVE  StreamInv
<1> USE StreamAssumption
<1>1. /\ left \in (0..MaxViewers) \X Nat /\ active \in 0..MaxViewers
      /\ device = NoRun /\ dxgi = NoRun /\ took = {} /\ wiped = {} /\ bench = "off"
  BY DEF StreamInit
<1>2. /\ link \in [Viewers -> {"new", "signalling", "peer", "gone"}]
      /\ cancelled \in [Viewers -> BOOLEAN]
      /\ sup \in [Viewers -> {"none", "backoff", "run", "ended", "gaveup"}]
      /\ tries \in [Viewers -> 0..MaxRestarts-1]
  BY DEF StreamInit
<1>3. /\ phase \in [Runs -> InPipeline \cup {"none", "end"}]
      /\ ff \in [Runs -> {"none", "up", "exited"}]
      /\ reader \in [Runs -> {"none", "reading", "done"}]
      /\ sender \in [Runs -> {"none", "sending", "failed", "done"}]
  BY DEF StreamInit
<1>4. /\ frames \in [Runs -> 0..EncQueue+PipeCap]
      /\ held \in [Runs -> 0..1]
      /\ chan \in [Runs -> 0..ChanCap]
  BY DEF StreamInit
<1>5. StreamTypeOK
  BY <1>1, <1>2, <1>3, <1>4 DEF StreamTypeOK
<1>6. OlderCancelled /\ DeviceHeld /\ CapturerOK
  BY DEF StreamInit, OlderCancelled, DeviceHeld, CapturerOK
<1>7. QED
  BY <1>5, <1>6 DEF StreamInv

LEMMA NextStreamInv ==
  ASSUME StreamInv, [StreamNext]_streamVars
  PROVE  StreamInv'
<1>1. CASE \E v \in Viewers : ViewerStep(v)
  BY <1>1, ViewerConnects, PeerConnectedStep, LeaveStep DEF ViewerStep
<1>2. CASE \E v \in Viewers : SupervisorStep(v)
  BY <1>2, BackoffStep, SupervisorStarts DEF SupervisorStep
<1>3. CASE \E r \in Runs : LoopStep(r)
  BY <1>3, StoresStep, EncodeStep, LoopSteps, CloseStep, CheckNilStep, ReleaseStep, ClearStep
  DEF LoopStep
<1>4. CASE \E r \in Runs : FfmpegCrash(r) \/ ReaderStep(r) \/ SenderStep(r)
  BY <1>4, FfmpegCrashStep, ReaderSteps, SenderSteps
<1>5. CASE Benchmark
  BY <1>5, BenchmarkStep
<1>6. CASE UNCHANGED streamVars
  BY <1>6 DEF streamVars, viewerVars, supVars, encVars, devVars, StreamInv, StreamTypeOK,
              OlderCancelled, DeviceHeld, CapturerOK
<1>7. QED
  BY <1>1, <1>2, <1>3, <1>4, <1>5, <1>6 DEF StreamNext

\* StreamInv holds in every reachable state.
THEOREM StreamInvariance == StreamSpec => []StreamInv
<1>1. StreamInit => StreamInv
  BY InitStreamInv
<1>2. StreamInv /\ [StreamNext]_streamVars => StreamInv'
  BY NextStreamInv
<1>3. QED
  BY <1>1, <1>2, PTL DEF StreamSpec

\* Every variable keeps its type, the channel and the pipe their capacity, and no
\* more attempts are made than allowed; and
\* the desktop is captured for one viewer, over any number of takeovers, crashes
\* and restarts, however the close of one run, the start of another and the
\* benchmark come in between one another: a run that is over keeps the device
\* only if another run's close cleared its capturer out of the global.
THEOREM CapturedOnce == StreamSpec => []OneCapture
<1>1. StreamInv => OneWatched
  <2>1. SUFFICES ASSUME StreamInv, NEW v \in Viewers, NEW w \in Viewers,
                        link[v] # "new", link[w] # "new", ~cancelled[v], ~cancelled[w]
                 PROVE  v = w
    BY DEF OneWatched
  <2>2. v = active /\ w = active
    BY <2>1 DEF StreamInv, OlderCancelled
  <2>3. QED
    BY <2>2
<1>2. StreamInv => OneCapture
  BY <1>1 DEF StreamInv, OneCapture
<1>3. QED
  BY <1>2, StreamInvariance, PTL
=============================================================================
