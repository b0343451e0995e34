--------------------------- MODULE ActionGateway ---------------------------
(***************************************************************************)
(* The Action Gateway of the control plane (action-gateway.ts,             *)
(* action-reconciliation.ts, ADR 0012, ADR 0036): how a governed action a   *)
(* runtime asks for is decided, approved, re-authorized, sent to an         *)
(* external system through a connector and closed.                          *)
(*                                                                         *)
(* A dispatch is two database transactions with a call to the outside in    *)
(* between.  The call lives in the memory of the control plane's process,   *)
(* which may stop, and in the external system, which may answer late, not   *)
(* at all, or after applying the write.  Runs are kept as coarse as the     *)
(* gateway sees them; RunTransport has the rest of them.                    *)
(***************************************************************************)
EXTENDS RunLifecycle, Naturals

CONSTANTS Requests,            \* action request ids (unique per tool call)
          ActionRuns, RunOf,   \* their runs, the run each belongs to
          ActionThread,        \* the thread of each run
          Actions, ActionOf,   \* action names, the one each request asks for
          PayloadOf,           \* digest of each request's parameters
          Writes,              \* the requests whose action has effect 'write'
          Late                 \* a suspended process or a slow network may
                               \* deliver after staleDispatchMs

ASSUME GatewayAssumption ==
  /\ RunOf \in [Requests -> ActionRuns]
  /\ ActionOf \in [Requests -> Actions]
  /\ Writes \subseteq Requests
  /\ Late \in BOOLEAN
  /\ None \notin {"REFUSED", "FAILED", "UNKNOWN", "INTERRUPTED"}

VARIABLES act,      \* [Requests -> its rows, its call and what it did outside]
          run,      \* [ActionRuns -> status of the run]
          policy    \* [Actions -> what evaluateActionPolicy would say now]

gatewayVars == <<act, run, policy>>

Outcome == {"ALLOW", "REQUIRE_APPROVAL", "DENY"}

\* One request: its row in agent_action_requests (decision), in approvals (due
\* once expires_at has passed), in agent_action_executions (code: the error_code
\* by what it says of the outcome; stale once started_at + staleDispatchMs has
\* passed) and in agent_action_reconciliations; the call of the process that
\* dispatches it; how often it was sent and what the external system did.
ActRecord ==
  [decision: {"NONE", "ALLOWED", "DENIED", "APPROVAL_REQUIRED"},
   approval: {"NONE", "PENDING", "APPROVED", "REJECTED", "EXPIRED"}, due: BOOLEAN,
   exec: {"NONE", "DISPATCHING", "SUCCEEDED", "FAILED"},
   code: {None, "REFUSED", "FAILED", "UNKNOWN", "INTERRUPTED"}, stale: BOOLEAN,
   recon: {"NONE", "REQUIRED", "APPLIED", "NOT_APPLIED"},
   call: {"NONE", "READY", "SENT", "OK", "FAILED", "UNKNOWN"},
   sends: Nat, world: {"untouched", "possible", "applied", "refused"}]

NotAsked ==
  [decision |-> "NONE", approval |-> "NONE", due |-> FALSE, exec |-> "NONE",
   code |-> None, stale |-> FALSE, recon |-> "NONE", call |-> "NONE",
   sends |-> 0, world |-> "untouched"]

GatewayInit ==
  /\ act = [w \in Requests |-> NotAsked]
  /\ run = [u \in ActionRuns |-> "NONE"]
  /\ policy \in [Actions -> Outcome]

PutRequest(w, x) == act' = [act EXCEPT ![w] = x]

-----------------------------------------------------------------------------
(* What blocks a write: an open reconciliation of its action in the same    *)
(* thread, or of the same payload anywhere in the organization.             *)

Alike(w, v) == /\ ActionOf[w] = ActionOf[v]
               /\ \/ ActionThread[RunOf[w]] = ActionThread[RunOf[v]]
                  \/ PayloadOf[w] = PayloadOf[v]

Blocks(w) == \E v \in Requests : act[v].recon = "REQUIRED" /\ Alike(w, v)

-----------------------------------------------------------------------------
(* Runs, administrators and the passage of time.                            *)

\* createRun, and the claim that starts the run.
StartRun(u) ==
  /\ run[u] = "NONE"
  /\ \A v \in ActionRuns : ActionThread[v] = ActionThread[u] => run[v] \notin ActiveRun
  /\ run' = [run EXCEPT ![u] = "RUNNING"]
  /\ UNCHANGED <<act, policy>>

\* A released run is claimed again and goes on.
ResumeRun(u) == /\ run[u] = "QUEUED"
                /\ run' = [run EXCEPT ![u] = "RUNNING"]
                /\ UNCHANGED <<act, policy>>

\* It completes, fails, is cancelled or reaped: its requests stay as they are.
EndRun(u) == /\ run[u] \in ActiveRun
             /\ run' = [run EXCEPT ![u] = "CANCELLED"]
             /\ UNCHANGED <<act, policy>>

\* An administrator sets or clears the organization's override.
SetPolicy(a, outcome) == /\ policy[a] # outcome
                         /\ policy' = [policy EXCEPT ![a] = outcome]
                         /\ UNCHANGED <<act, run>>

\* The deadline of an approval passes; nothing reads it once the action was sent.
DeadlinePasses(w) ==
  /\ ~act[w].due
  /\ act[w].approval = "PENDING" \/ (act[w].approval = "APPROVED" /\ act[w].exec = "NONE")
  /\ PutRequest(w, [act[w] EXCEPT !.due = TRUE])
  /\ UNCHANGED <<run, policy>>

-----------------------------------------------------------------------------
(* Decisions.                                                               *)

\* assess: the evaluated policy, or a denial for anything it cannot verify
\* (manifest, blueprint, tool, parameters, connection, scope, change set).
Assessments(w) == {policy[ActionOf[w]], "DENY"}

Verdict(w, outcome) ==
  IF outcome # "DENY" /\ w \in Writes /\ Blocks(w) THEN "DENY" ELSE outcome

\* decide: a request already decided is answered from its row.
Decide(w, outcome) ==
  LET verdict == Verdict(w, outcome) IN
  /\ run[RunOf[w]] = "RUNNING"
  /\ act[w].decision = "NONE"
  /\ outcome \in Assessments(w)
  /\ \/ /\ verdict = "REQUIRE_APPROVAL"
        /\ PutRequest(w, [act[w] EXCEPT !.decision = "APPROVAL_REQUIRED", !.approval = "PENDING"])
        /\ run' = [run EXCEPT ![RunOf[w]] = "WAITING_FOR_APPROVAL"]
     \/ /\ verdict # "REQUIRE_APPROVAL"
        /\ PutRequest(w, [act[w] EXCEPT !.decision = IF verdict = "ALLOW" THEN "ALLOWED" ELSE "DENIED"])
        /\ UNCHANGED run
  /\ UNCHANGED policy

Waiting(w) == run[RunOf[w]] = "WAITING_FOR_APPROVAL"

\* decideApproval: the sweep before it is a transaction of its own
\* (ExpireDueActions), so the deadline may have passed in between.
ApproveAction(w) ==
  /\ act[w].approval = "PENDING"
  /\ PutRequest(w, [act[w] EXCEPT !.approval = "APPROVED"])
  /\ run' = IF Waiting(w) THEN [run EXCEPT ![RunOf[w]] = "QUEUED"] ELSE run
  /\ UNCHANGED policy

RejectAction(w) ==
  /\ act[w].approval = "PENDING"
  /\ PutRequest(w, [act[w] EXCEPT !.approval = "REJECTED"])
  /\ run' = IF Waiting(w) THEN [run EXCEPT ![RunOf[w]] = "CANCELLED"] ELSE run
  /\ UNCHANGED policy

\* expireDue: pending approvals past their deadline expire and the runs that
\* wait for them are cancelled.
Lapsing == {w \in Requests : act[w].approval = "PENDING" /\ act[w].due}
SweptAct == [w \in Requests |-> IF w \in Lapsing
                                  THEN [act[w] EXCEPT !.approval = "EXPIRED"]
                                  ELSE act[w]]
SweptRun == [u \in ActionRuns |-> IF \E w \in Lapsing : RunOf[w] = u /\ Waiting(w)
                                    THEN "CANCELLED"
                                    ELSE run[u]]

ExpireDueActions == /\ Lapsing # {}
                    /\ act' = SweptAct /\ run' = SweptRun
                    /\ UNCHANGED policy

-----------------------------------------------------------------------------
(* Execution: commit to one dispatch, call the connector, record.           *)

\* Faulty: the write is closed as if it had failed.
InterruptedAsFailed(w, x) == [x EXCEPT !.exec = "FAILED", !.code = "FAILED"]
\* interrupt: a write must then be reconciled, a read has simply failed.
Interrupted(w, x) ==
  [x EXCEPT !.exec = "FAILED", !.code = "INTERRUPTED",
            !.recon = IF w \in Writes THEN "REQUIRED" ELSE @]

\* Faulty: an approval counts for ever.
ApprovedEver(w) ==
  \/ act[w].decision = "ALLOWED" /\ policy[ActionOf[w]] = "ALLOW"
  \/ /\ act[w].decision = "APPROVAL_REQUIRED" /\ act[w].approval = "APPROVED"
     /\ policy[ActionOf[w]] # "DENY"
\* prepareExecution's re-authorization: the decision, the approval and its
\* deadline, and the policy as it is now.
Authorized(w) ==
  \/ act[w].decision = "ALLOWED" /\ policy[ActionOf[w]] = "ALLOW"
  \/ /\ act[w].decision = "APPROVAL_REQUIRED"
     /\ act[w].approval = "APPROVED" /\ ~act[w].due
     /\ policy[ActionOf[w]] # "DENY"

\* Faulty: whether a write is blocked was checked when it was decided.
MayDispatchOnce(w) == Authorized(w)
MayDispatch(w) == Authorized(w) /\ (w \in Writes => ~Blocks(w))

Working(w) == run[RunOf[w]] = "RUNNING" /\ act[w].decision # "NONE"

\* Faulty: an existing execution is not looked up.
UnexecutedAlways(w) == TRUE
Unexecuted(w) == act[w].exec = "NONE"

\* The three ways prepareExecution ends with a change, each after expireDue in
\* the same transaction.  (While a dispatch is not stale it throws; a closed
\* execution is answered from its row.)
PrepareInterrupt(w) ==
  /\ Working(w)
  /\ act[w].exec = "DISPATCHING" /\ act[w].stale
  /\ act' = [SweptAct EXCEPT ![w] = Interrupted(w, @)]
  /\ run' = SweptRun /\ UNCHANGED policy

\* Also when the connection, the secret or the approved change set is gone.
PrepareRefuse(w) ==
  /\ Working(w) /\ Unexecuted(w)
  /\ act' = [SweptAct EXCEPT ![w].exec = "FAILED", ![w].code = "REFUSED"]
  /\ run' = SweptRun /\ UNCHANGED policy

PrepareDispatch(w) ==
  /\ Working(w) /\ Unexecuted(w) /\ MayDispatch(w)
  /\ act' = [SweptAct EXCEPT ![w].exec = "DISPATCHING", ![w].call = "READY"]
  /\ run' = SweptRun /\ UNCHANGED policy

\* dispatch: the connector's first request that anybody could see the effect of.
Send(w) ==
  /\ act[w].call = "READY"
  /\ PutRequest(w, [act[w] EXCEPT !.call = "SENT", !.sends = @ + 1,
                                  !.world = IF w \in Writes THEN "possible" ELSE @])
  /\ UNCHANGED <<run, policy>>

\* The external system applies a write, or refuses or never receives it.
Land(w, outcome) ==
  /\ act[w].world = "possible" /\ outcome \in {"applied", "refused"}
  /\ PutRequest(w, [act[w] EXCEPT !.world = outcome])
  /\ UNCHANGED <<run, policy>>

\* Faulty: every failure of a write is reported as a plain failure.
OutcomesTrusting(w) ==
  {o \in {"OK", "FAILED", "UNKNOWN"} :
     /\ o = "OK" => act[w].call = "SENT" /\ (w \in Writes => act[w].world = "applied")
     /\ o = "UNKNOWN" => FALSE}
\* What dispatch may come to: success when the answer says so; a failure when
\* the provider refused, or before anything visible was sent; otherwise a write
\* is unknown, whatever the external system made of it, and a read has failed.
Outcomes(w) ==
  {o \in {"OK", "FAILED", "UNKNOWN"} :
     /\ o = "OK" => act[w].call = "SENT" /\ (w \in Writes => act[w].world = "applied")
     /\ o = "FAILED" /\ w \in Writes => act[w].world \in {"untouched", "refused"}
     /\ o = "UNKNOWN" => w \in Writes}

Answer(w, outcome) ==
  /\ act[w].call \in {"READY", "SENT"} /\ outcome \in Outcomes(w)
  /\ PutRequest(w, [act[w] EXCEPT !.call = outcome])
  /\ UNCHANGED <<run, policy>>

\* completeExecution: a row that was closed as interrupted meanwhile stands.
Recorded(w, x) ==
  CASE x.exec # "DISPATCHING" -> [x EXCEPT !.call = "NONE"]
    [] x.exec = "DISPATCHING" /\ x.call = "OK" -> [x EXCEPT !.exec = "SUCCEEDED", !.call = "NONE"]
    [] x.exec = "DISPATCHING" /\ x.call = "FAILED" ->
         [x EXCEPT !.exec = "FAILED", !.code = "FAILED", !.call = "NONE"]
    [] OTHER -> [x EXCEPT !.exec = "FAILED", !.code = "UNKNOWN", !.recon = "REQUIRED",
                          !.call = "NONE"]

Complete(w) == /\ act[w].call \in {"OK", "FAILED", "UNKNOWN"}
               /\ PutRequest(w, Recorded(w, act[w]))
               /\ UNCHANGED <<run, policy>>

\* The process stops, or the database cannot be reached to record the outcome.
LoseCall(w) == /\ act[w].call # "NONE"
               /\ PutRequest(w, [act[w] EXCEPT !.call = "NONE"])
               /\ UNCHANGED <<run, policy>>

-----------------------------------------------------------------------------
(* Closing what nobody will record, and reconciliation.                     *)

\* The connector's time limit ends before staleDispatchMs does, so unless Late
\* the call is over and what it sent has arrived or died.
CallIsOver(w) == act[w].call \notin {"READY", "SENT"} /\ act[w].world # "possible"
\* Faulty: staleDispatchMs does not outlast the connector's time limit.
MayBeStaleEarly(w) == act[w].exec = "DISPATCHING" /\ ~act[w].stale
MayBeStale(w) == act[w].exec = "DISPATCHING" /\ ~act[w].stale /\ (Late \/ CallIsOver(w))

GoStale(w) == /\ MayBeStale(w)
              /\ PutRequest(w, [act[w] EXCEPT !.stale = TRUE])
              /\ UNCHANGED <<run, policy>>

\* Faulty: only dispatches of active runs are looked for.
AbandonedOfActive ==
  {w \in Requests : act[w].exec = "DISPATCHING" /\ act[w].stale /\ run[RunOf[w]] \in ActiveRun}
AbandonedDispatches == {w \in Requests : act[w].exec = "DISPATCHING" /\ act[w].stale}

\* reconcileInterrupted, from the API process's timer.
SweepInterrupted ==
  /\ AbandonedDispatches # {}
  /\ act' = [w \in Requests |-> IF w \in AbandonedDispatches
                                  THEN Interrupted(w, act[w])
                                  ELSE act[w]]
  /\ UNCHANGED <<run, policy>>

\* An administrator looks at the external system and says what it shows.
Resolve(w) ==
  /\ act[w].recon = "REQUIRED"
  /\ Late \/ act[w].world # "possible"
  /\ PutRequest(w, [act[w] EXCEPT !.recon = IF act[w].world = "applied" THEN "APPLIED"
                                            ELSE "NOT_APPLIED"])
  /\ UNCHANGED <<run, policy>>

-----------------------------------------------------------------------------

GatewayNext ==
  \/ \E u \in ActionRuns : StartRun(u) \/ ResumeRun(u) \/ EndRun(u)
  \/ \E a \in Actions, outcome \in Outcome : SetPolicy(a, outcome)
  \/ ExpireDueActions \/ SweepInterrupted
  \/ \E w \in Requests :
       \/ \E outcome \in Outcome : Decide(w, outcome)
       \/ DeadlinePasses(w) \/ ApproveAction(w) \/ RejectAction(w)
       \/ PrepareInterrupt(w) \/ PrepareRefuse(w) \/ PrepareDispatch(w)
       \/ Send(w) \/ Complete(w) \/ LoseCall(w)
       \/ \E outcome \in {"applied", "refused"} : Land(w, outcome)
       \/ \E outcome \in {"OK", "FAILED", "UNKNOWN"} : Answer(w, outcome)
       \/ GoStale(w) \/ Resolve(w)

GatewaySpec == GatewayInit /\ [][GatewayNext]_gatewayVars

\* Fairness: a connector call ends by its time limit, requests on the network
\* arrive or die, time passes, and the API process's timer fires (server.ts).
GatewayFairness ==
  /\ WF_gatewayVars(SweepInterrupted)
  /\ \A w \in Requests :
       /\ WF_gatewayVars(GoStale(w))
       /\ WF_gatewayVars(\E outcome \in {"OK", "FAILED", "UNKNOWN"} : Answer(w, outcome))
       /\ WF_gatewayVars(\E outcome \in {"applied", "refused"} : Land(w, outcome))

GatewayFairSpec == GatewaySpec /\ GatewayFairness

-----------------------------------------------------------------------------
(* Properties.                                                              *)

GatewayTypeOK ==
  /\ act \in [Requests -> ActRecord]
  /\ run \in [ActionRuns -> RunStatus \cup {"NONE"}]
  /\ policy \in [Actions -> Outcome]

\* "executes control-plane-owned actions exactly once": however often execution
\* is asked for, and whoever closed it, a request reaches the connector once,
\* and only after it was decided, allowed or approved.
SingleDispatch ==
  \A w \in Requests :
    /\ act[w].sends <= 1
    /\ act[w].sends = 1 => act[w].exec \in {"DISPATCHING", "SUCCEEDED", "FAILED"}
    /\ act[w].decision \in {"NONE", "DENIED"} \/ act[w].approval \in {"PENDING", "REJECTED", "EXPIRED"} =>
         act[w].sends = 0 /\ act[w].call = "NONE"

IsUnknown(x) == x.exec = "FAILED" /\ x.code \in {"UNKNOWN", "INTERRUPTED"}

\* What the runtime is told of a write is true of the external system, now and
\* later: a write reported done is there, one reported failed is not and is not
\* on its way.
HonestOutcome ==
  \A w \in Writes :
    /\ act[w].exec = "SUCCEEDED" => act[w].world = "applied"
    /\ act[w].exec = "FAILED" /\ ~IsUnknown(act[w]) =>
         act[w].world \in {"untouched", "refused"} /\ act[w].call = "NONE"

\* Every write whose outcome nobody knows, and no other, is put before an
\* administrator.
UnknownIsReconciled ==
  \A w \in Requests : act[w].recon # "NONE" <=> w \in Writes /\ IsUnknown(act[w])

\* What is stored of a request agrees with the external system and with what is asked of people.
OutcomesSound == GatewayTypeOK /\ HonestOutcome /\ UnknownIsReconciled

\* "further writes of that action are refused": no write is sent while one like
\* it waits for a person, also when it was decided or approved long before.
NoWriteWhileRequired ==
  [][\A w, v \in Writes :
       act[w].exec = "NONE" /\ act'[w].exec = "DISPATCHING" /\ Alike(w, v) =>
         act[v].recon # "REQUIRED"]_gatewayVars

\* The gate is closed by whatever happened since the decision: an approval past
\* its deadline, a stricter policy, a run that no longer runs.
GateAtDispatch ==
  [][\A w \in Requests :
       act[w].exec # "DISPATCHING" /\ act'[w].exec = "DISPATCHING" =>
         /\ run[RunOf[w]] = "RUNNING" /\ policy[ActionOf[w]] # "DENY"
         /\ act[w].decision = "ALLOWED" => policy[ActionOf[w]] = "ALLOW"
         /\ act[w].decision # "ALLOWED" => act[w].approval = "APPROVED" /\ ~act[w].due]_gatewayVars

\* What a runtime was told and what a person recorded is never changed, not even
\* by the answer of a call that outlived its own interruption.
OutcomeStands ==
  [][\A w \in Requests :
       /\ act[w].exec \in {"SUCCEEDED", "FAILED"} =>
            act'[w].exec = act[w].exec /\ act'[w].code = act[w].code
       /\ act[w].recon \in {"APPLIED", "NOT_APPLIED"} => act'[w].recon = act[w].recon]_gatewayVars

\* Where nothing is delivered after staleDispatchMs, a write a person recorded
\* as not applied is not applied later (so repeating it cannot double it).
ResolutionStands ==
  \A w \in Writes : act[w].recon = "NOT_APPLIED" => act[w].world # "applied" /\ act[w].call # "READY"

\* The parts above are not inductive by themselves: where the call is, what it
\* sent and what the rows say determine one another.
ActInv(w, x) ==
  /\ x.decision = "NONE" => x.exec = "NONE"
  /\ x.decision \in {"NONE", "ALLOWED", "DENIED"} => x.approval = "NONE"
  /\ x.decision = "DENIED" \/ x.approval \in {"PENDING", "REJECTED", "EXPIRED"} =>
       x.exec = "NONE" \/ (x.exec = "FAILED" /\ x.code = "REFUSED")
  \* the execution row against the call and the outside
  /\ x.exec = "NONE" \/ x.code = "REFUSED" =>
       x.recon = "NONE" /\ x.call = "NONE" /\ x.sends = 0 /\ x.world = "untouched" /\ ~x.stale
  /\ x.exec \in {"NONE", "DISPATCHING", "SUCCEEDED"} => x.code = None /\ x.recon = "NONE"
  /\ x.exec = "FAILED" => x.code # None
  /\ x.exec = "SUCCEEDED" => x.call = "NONE" /\ (w \in Writes => x.world = "applied")
  /\ x.code = "FAILED" => /\ x.call = "NONE" /\ x.recon = "NONE"
                          /\ w \in Writes => x.world \in {"untouched", "refused"}
  /\ x.code = "UNKNOWN" => x.call = "NONE" /\ w \in Writes
  /\ x.code \in {"UNKNOWN", "INTERRUPTED"} => (x.recon # "NONE" <=> w \in Writes)
  \* the call against the outside
  /\ x.sends <= 1
  /\ x.call = "READY" => x.sends = 0
  /\ x.sends = 0 \/ w \notin Writes => x.world = "untouched"
  /\ w \in Writes => /\ x.call = "OK" => x.world = "applied"
                     /\ x.call = "FAILED" => x.world \in {"untouched", "refused"}
  /\ x.call = "UNKNOWN" => w \in Writes
  \* on time: nothing is under way once the dispatch was given up
  /\ ~Late => /\ x.stale \/ x.code = "INTERRUPTED" =>
                   x.call \notin {"READY", "SENT"} /\ x.world # "possible"
              /\ x.recon \in {"APPLIED", "NOT_APPLIED"} => x.world # "possible"
              /\ x.recon = "NOT_APPLIED" => x.world # "applied"

GatewayInductive == \A w \in Requests : ActInv(w, act[w])

\* "so its run is told the outcome is unknown instead of waiting for ever".
DispatchCloses ==
  \A w \in Requests : (act[w].exec = "DISPATCHING") ~> (act[w].exec \in {"SUCCEEDED", "FAILED"})

\* The gateway keeps the promise of GovernedWrites.
Told(x) == CASE x.exec = "SUCCEEDED" -> "succeeded"
             [] IsUnknown(x) -> "unknown"
             [] x.exec = "FAILED" /\ ~IsUnknown(x) -> "failed"
             [] OTHER -> "nothing"
Ruling(x) == CASE x.recon = "APPLIED" -> "applied"
               [] x.recon = "NOT_APPLIED" -> "absent"
               [] OTHER -> "none"

Promise == INSTANCE GovernedWrites WITH
             told <- [w \in Writes |-> Told(act[w])],
             world <- [w \in Writes |-> act[w].world],
             verdict <- [w \in Writes |-> Ruling(act[w])]

\* Every step of the gateway is one of the promise or changes nothing it names.
KeepsPromise == Promise!GWSpec

\* What docs/failure-handling.md says of a write the control plane stopped
\* sending: no write like it is sent until an administrator has checked.
Unsettled(w) == \/ act[w].recon = "REQUIRED"
                \/ act[w].exec = "DISPATCHING" /\ act[w].call = "NONE" /\ act[w].sends > 0
NoRepeatOfUnsettled ==
  [][\A w, v \in Writes :
       act[w].exec = "NONE" /\ act'[w].exec = "DISPATCHING" /\ Alike(w, v) => ~Unsettled(v)]_gatewayVars
=============================================================================
