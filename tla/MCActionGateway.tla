--------------------------- MODULE MCActionGateway ---------------------------
(* The control plane against time: the gateway with the same write in two    *)
(* threads, delivered before staleDispatchMs or never (ActionGateway), and   *)
(* beside it two runs of one thread that one runtime serves (RunTransport).  *)
(* They share no state; `focus` is the one that moves.                       *)
EXTENDS ActionGateway, RunTransport, TLC

CONSTANTS w1, w2, u1, u2, t1, t2, write, p1,        \* of the gateway
          r1, r2, t3, rt1,                          \* of the runs
          Focuses

VARIABLE focus

TwoWrites == {w1, w2}
TwoRuns == {u1, u2}
InOwnRuns == [w \in Requests |-> IF w = w1 THEN u1 ELSE u2]
OwnThreads == [u \in TwoRuns |-> IF u = u1 THEN t1 ELSE t2]
OneAction == {write}
TheWrite == [w \in Requests |-> write]
SamePayload == [w \in Requests |-> p1]

ThreadRuns == {r1, r2}
OneThread == {t3}
InOneThread == [r \in ThreadRuns |-> t3]
OneRuntime == {rt1}
AllServed == OneRuntime \X ThreadRuns
HostEvents == RuntimeEvent \ {"run.paused", "run.cancelled"}

-----------------------------------------------------------------------------
controlVars == <<focus, vars, gatewayVars>>

\* Whatever does not move stays as it starts, and has nothing to be fair to.
ControlInit ==
  /\ focus \in Focuses
  /\ Init /\ GatewayInit
  /\ focus = "runs" => policy = [a \in Actions |-> "ALLOW"]

GatewayMoves == focus = "gateway" /\ GatewayNext /\ UNCHANGED <<focus, vars>>
ThreadMoves == focus = "runs" /\ Next /\ UNCHANGED <<focus, gatewayVars>>

ControlSpec == ControlInit /\ [][GatewayMoves \/ ThreadMoves]_controlVars

ControlFairSpec == ControlSpec /\ Fairness /\ GatewayFairness
=============================================================================
