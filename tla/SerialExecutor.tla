--------------------------- MODULE SerialExecutor ---------------------------
(***************************************************************************)
(* What the operation queue promises its users: at most one operation is   *)
(* with the transport, operations of a job go out in order, and a job is   *)
(* reported done only when all its operations were acknowledged.  How jobs *)
(* are listed, persisted, retried and cancelled is left open.              *)
(***************************************************************************)
EXTENDS Naturals

VARIABLES
  exec,   \* the operation with the transport, <<job, op>>, or NoOp
  acked,  \* operations acknowledged so far
  done    \* <<job, number of operations>> of the jobs reported done

vars == <<exec, acked, done>>

NoOp == <<0, 0>>

Complete == \A d \in done' : \A i \in 1..d[2] : <<d[1], i>> \in acked'

Init == exec = NoOp /\ acked = {} /\ done = {}

\* The users change the list; a job may be started.
Arrange ==
  /\ exec' = exec \/ (exec = NoOp /\ exec'[1] # 0 /\ exec' = <<exec'[1], 1>>)
  /\ acked' = acked
  /\ Complete

Acknowledge ==
  /\ exec # NoOp
  /\ acked' = acked \cup {exec}
  /\ exec' \in {NoOp, <<exec[1], exec[2] + 1>>}
  /\ Complete

\* The operation failed, or the page that sent it is gone.
GiveUp ==
  /\ exec # NoOp
  /\ exec' = NoOp
  /\ acked' = acked
  /\ Complete

Next == Arrange \/ Acknowledge \/ GiveUp

Spec == Init /\ [][Next]_vars
=============================================================================
