----------------------------- MODULE AcceptLoop -----------------------------
(***************************************************************************)
(* The dashboard server's thread, payloads/ghrdp-server.ps1: one accept    *)
(* loop that handles one connection at a time, to its end, and between     *)
(* connections runs its periodic work, the logon scan among it.            *)
(*                                                                         *)
(* A /ws upgrade is handled on that same thread: it answers 101 and then   *)
(* stays with its socket, sending a heartbeat every two seconds, until the *)
(* browser's close frame arrives, the browser has been silent for          *)
(* F99WsIdleTimeoutSec or F99WsMaxLifetimeSec have passed.  Connections    *)
(* that come meanwhile wait in the listener's backlog.                     *)
(*                                                                         *)
(* Time passes in half minutes, and only while the thread is in a session  *)
(* or has nothing to do: what it can do at once it does at once.           *)
(***************************************************************************)
EXTENDS Naturals, Sequences, SequencesExt

CONSTANTS
  Sockets,     \* WebSocket objects the page can have at one time
  Rest,        \* an HTTP request, the progress lane's
  NoSocket,
  IdleTicks,   \* F99WsIdleTimeoutSec, in half minutes
  LifeTicks,   \* F99WsMaxLifetimeSec, in half minutes (scaled down)
  MaxScanAge,  \* bound: verdicts older than this are not told apart
  MaxFaults    \* bound: failures of the network, refusals, server stops and throws

ASSUME AcceptLoopAssumption ==
  /\ Rest \notin Sockets
  /\ NoSocket \notin Sockets
  /\ NoSocket # Rest
  /\ IdleTicks \in Nat \ {0}
  /\ LifeTicks \in Nat \ {0}
  /\ MaxScanAge \in Nat \ {0}
  /\ MaxFaults \in Nat

VARIABLES
  up,        \* the server listens
  conn,      \* the wire of each socket
  broken,    \* nothing passes on this wire any more, and neither end is told
  backlog,   \* connections the server has not accepted, oldest first
  serving,   \* the socket whose session the thread is in
  sessAge,   \* age of that session
  silent,    \* how long it has heard nothing from the browser
  scanAge,   \* age of the logon verdict
  faults     \* failures so far

wire == <<up, conn, broken, backlog>>
thread == <<serving, sessAge, silent, scanAge>>
serverVars == <<wire, thread, faults>>

ScanDue == 1   \* F28IntervalSec, in half minutes

Conn == {"none", "queued", "up", "bye", "gone"}

AcceptLoopTypeOK ==
  /\ up \in BOOLEAN
  /\ conn \in [Sockets -> Conn]
  /\ broken \in [Sockets -> BOOLEAN]
  /\ backlog \in Seq(Sockets \union {Rest})
  /\ serving \in Sockets \union {NoSocket}
  /\ sessAge \in 0..LifeTicks
  /\ silent \in 0..IdleTicks
  /\ scanAge \in 0..MaxScanAge
  /\ faults \in 0..MaxFaults

AcceptLoopInit ==
  /\ up = TRUE
  /\ conn = [s \in Sockets |-> "none"]
  /\ broken = [s \in Sockets |-> FALSE]
  /\ backlog = <<>>
  /\ serving = NoSocket
  /\ sessAge = 0
  /\ silent = 0
  /\ scanAge = 0
  /\ faults = 0

Cap(n, limit) == IF n < limit THEN n ELSE limit

Fails == faults < MaxFaults /\ faults' = faults + 1

\* Frames of the server reach the browser.
Flowing(s) == serving = s /\ conn[s] = "up" /\ ~broken[s]

\* The loop looks for bytes to read only: a peer that vanishes without a close
\* frame is never noticed, and failed writes are swallowed.
Unheard(s) == broken[s] \/ conn[s] = "gone"

ByeArrived(s) == conn[s] = "bye" /\ ~broken[s]

ExpiredByAge ==   \* mutant: no idle timeout
  sessAge >= LifeTicks
Expired == silent >= IdleTicks \/ sessAge >= LifeTicks

(***************************************************************************)
(* The loop's steps.                                                       *)
(***************************************************************************)
NextIs(c) == serving = NoSocket /\ backlog # <<>> /\ Head(backlog) = c

\* Any other request: read, answered and closed before the next one.
TakeRest ==
  /\ NextIs(Rest)
  /\ backlog' = Tail(backlog)
  /\ UNCHANGED <<up, conn, broken, thread, faults>>

\* Invoke-F99WebSocketUpgrade up to the 101 answer.  A browser that has hung up
\* while it waited is not noticed: its request is there to be read.
TakeSocket(s) ==
  /\ NextIs(s)
  /\ backlog' = Tail(backlog)
  /\ IF conn[s] = "gone"
     THEN UNCHANGED <<conn, serving, sessAge, silent, faults>>
     ELSE \/ /\ conn' = [conn EXCEPT ![s] = IF @ = "queued" THEN "up" ELSE @]
             /\ serving' = s
             /\ sessAge' = 0
             /\ silent' = 0
             /\ UNCHANGED faults
          \/ /\ Fails   \* 401: no token, or not the token
             /\ conn' = [conn EXCEPT ![s] = "gone"]
             /\ UNCHANGED <<serving, sessAge, silent>>
  /\ UNCHANGED <<up, broken, scanAge>>

EndSession ==
  /\ serving # NoSocket
  /\ ByeArrived(serving) \/ Expired
  /\ conn' = [conn EXCEPT ![serving] = "gone"]
  /\ serving' = NoSocket
  /\ sessAge' = 0
  /\ silent' = 0
  /\ UNCHANGED <<up, broken, backlog, scanAge, faults>>

\* Update-RdpLogonAuthLast, when no connection is pending.
Scan ==
  /\ up
  /\ serving = NoSocket
  /\ backlog = <<>>
  /\ scanAge >= ScanDue
  /\ scanAge' = 0
  /\ UNCHANGED <<wire, serving, sessAge, silent, faults>>

HalfMinute ==
  /\ up
  /\ IF serving = NoSocket
     THEN /\ backlog = <<>>
          /\ scanAge < ScanDue
          /\ UNCHANGED <<sessAge, silent>>
     ELSE /\ ~ByeArrived(serving)
          /\ ~Expired
          /\ sessAge' = Cap(sessAge + 1, LifeTicks)
          /\ silent' = IF Unheard(serving) THEN silent + 1 ELSE 0
  /\ scanAge' = Cap(scanAge + 1, MaxScanAge)
  /\ UNCHANGED <<wire, serving, faults>>

(***************************************************************************)
(* What can go wrong around it.                                            *)
(***************************************************************************)
\* The link goes dead under an established socket.
Break(s) ==
  /\ Fails
  /\ conn[s] = "up"
  /\ ~broken[s]
  /\ broken' = [broken EXCEPT ![s] = TRUE]
  /\ UNCHANGED <<up, conn, backlog, thread>>

\* The connection is reset: the browser is told, the session loop is not.
Drop(s) ==
  /\ Fails
  /\ conn[s] \in {"queued", "up"}
  /\ ~broken[s]
  /\ conn' = [conn EXCEPT ![s] = "gone"]
  /\ UNCHANGED <<up, broken, backlog, thread>>

\* The server's process ends and its connections with it.
Stop ==
  /\ Fails
  /\ up
  /\ up' = FALSE
  /\ conn' = [s \in Sockets |-> IF conn[s] = "none" THEN "none" ELSE "gone"]
  /\ backlog' = <<>>
  /\ serving' = NoSocket
  /\ sessAge' = 0
  /\ silent' = 0
  /\ UNCHANGED <<broken, scanAge>>

Start ==
  /\ ~up
  /\ up' = TRUE
  /\ scanAge' = 0
  /\ UNCHANGED <<conn, broken, backlog, serving, sessAge, silent, faults>>
=============================================================================
