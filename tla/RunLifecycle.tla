---------------------------- MODULE RunLifecycle ----------------------------
(***************************************************************************)
(* The run and step state machines of packages/contracts/src/             *)
(* run-lifecycle.ts (ADR 0008), shared by the control plane and the        *)
(* runtimes.  Pure operators: the modules that keep state use them.        *)
(***************************************************************************)
EXTENDS Absent   \* None is the absent status reason (null in the code)

RunStatus == {"QUEUED", "RUNNING", "WAITING_FOR_APPROVAL",
              "COMPLETED", "FAILED", "CANCELLED"}

TerminalRun == {"COMPLETED", "FAILED", "CANCELLED"}

ActiveRun == {"QUEUED", "RUNNING", "WAITING_FOR_APPROVAL"}

StepStatus == {"PENDING", "RUNNING", "WAITING_FOR_APPROVAL",
               "COMPLETED", "FAILED", "SKIPPED", "CANCELLED"}

OpenStep == {"PENDING", "RUNNING", "WAITING_FOR_APPROVAL"}

\* Every legal run transition, whoever performs it.
RunTransitions ==
  {<<"QUEUED", "RUNNING">>, <<"QUEUED", "CANCELLED">>,
   <<"RUNNING", "WAITING_FOR_APPROVAL">>, <<"RUNNING", "COMPLETED">>,
   <<"RUNNING", "FAILED">>, <<"RUNNING", "CANCELLED">>,
   <<"WAITING_FOR_APPROVAL", "QUEUED">>, <<"WAITING_FOR_APPROVAL", "FAILED">>,
   <<"WAITING_FOR_APPROVAL", "CANCELLED">>}

StepTransitions ==
  {<<"PENDING", "RUNNING">>, <<"PENDING", "WAITING_FOR_APPROVAL">>,
   <<"PENDING", "SKIPPED">>, <<"PENDING", "CANCELLED">>,
   <<"RUNNING", "WAITING_FOR_APPROVAL">>, <<"RUNNING", "COMPLETED">>,
   <<"RUNNING", "FAILED">>, <<"RUNNING", "CANCELLED">>,
   <<"WAITING_FOR_APPROVAL", "PENDING">>, <<"WAITING_FOR_APPROVAL", "FAILED">>,
   <<"WAITING_FOR_APPROVAL", "CANCELLED">>}

CanTransitionRun(from, to) == <<from, to>> \in RunTransitions
CanTransitionStep(from, to) == <<from, to>> \in StepTransitions

\* The events a runtime may emit.  "other" stands for those that only need a
\* running run and move nothing: agent.*, model.*, tool.*, artifact.created.
RuntimeEvent == {"run.started", "run.paused", "run.resumed", "run.completed",
                 "run.failed", "run.cancelled", "step.started",
                 "step.completed", "step.failed", "other"}

\* The status an event moves a run to, before the legality check.
EventTarget(type) ==
  CASE type = "run.paused"    -> "WAITING_FOR_APPROVAL"
    [] type = "run.completed" -> "COMPLETED"
    [] type = "run.failed"    -> "FAILED"
    [] type = "run.cancelled" -> "CANCELLED"
    [] OTHER                  -> "RUNNING"

\* decideRuntimeEvent: is the event legal for a run in this status?
\* "QUEUED with reason null" is a run nobody has started; "QUEUED with
\* APPROVAL_GRANTED" one that a human decision released.
Accepts(status, reason, type) ==
  /\ status \notin TerminalRun
  /\ CASE type = "run.started"  -> status = "QUEUED" /\ reason = None
       [] type = "run.resumed"  -> status = "QUEUED" /\ reason = "APPROVAL_GRANTED"
       [] type \in {"run.paused", "run.completed"} -> status = "RUNNING"
       [] type \in {"run.failed", "run.cancelled"} ->
            CanTransitionRun(status, EventTarget(type))
       [] OTHER                 -> status = "RUNNING"
=============================================================================
