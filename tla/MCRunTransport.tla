--------------------------- MODULE MCRunTransport ---------------------------
(* The control plane in depth, for safety: what it stores about one run that *)
(* two runtimes serve (RunTransport), and beside it the gateway with two     *)
(* different writes of one action in one run, where anything may arrive late *)
(* (ActionGateway).  They share no state; `focus` is the one that moves.     *)
EXTENDS RunTransport, ActionGateway, TLC

CONSTANTS r1, t1, rt1, rt2,             \* the run, its thread, two runtimes
          w1, w2, u1, t2, write, p1, p2 \* the gateway's requests, run, thread, action, payloads

VARIABLE focus

OneRun == {r1}
OneThread == {t1}
BothRuntimes == {rt1, rt2}
AllServed == Runtimes \X Runs
InOneThread == [r \in Runs |-> t1]

\* What apps/agent-runtime emits: never run.paused (the control plane pauses a
\* run itself) nor run.cancelled.
HostEvents == RuntimeEvent \ {"run.paused", "run.cancelled"}

Symmetry == Permutations(Runtimes) \cup Permutations(Steps) \cup Permutations(Approvals)

TwoWrites == {w1, w2}
OneWriter == {u1}
OneAction == {write}
WritesOfOne == [w \in TwoWrites |-> u1]
WriterThread == [u \in OneWriter |-> t2]
TheWrite == [w \in TwoWrites |-> write]
OwnPayloads == [w \in TwoWrites |-> IF w = w1 THEN p1 ELSE p2]

-----------------------------------------------------------------------------
controlVars == <<focus, vars, gatewayVars>>

\* Whatever does not move stays as it starts.
ControlInit ==
  /\ focus \in {"runs", "gateway"}
  /\ Init /\ GatewayInit
  /\ focus = "runs" => policy = [a \in OneAction |-> "ALLOW"]

RunMoves == focus = "runs" /\ Next /\ UNCHANGED <<focus, gatewayVars>>
GatewayMoves == focus = "gateway" /\ GatewayNext /\ UNCHANGED <<focus, vars>>

ControlSpec == ControlInit /\ [][RunMoves \/ GatewayMoves]_controlVars
=============================================================================
