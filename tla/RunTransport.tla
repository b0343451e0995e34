---------------------------- MODULE RunTransport ----------------------------
(***************************************************************************)
(* The control plane's side of the runtime transport: what it stores about *)
(* a run, its lease, its checkpoint and its approvals, and every           *)
(* transaction that changes it (runtime-transport-service.ts,              *)
(* run-checkpoints.ts, execution-service.ts).                              *)
(*                                                                         *)
(* Each database transaction is SERIALIZABLE and is one action here.  The  *)
(* runtimes are not modelled in this module: an authenticated runtime may  *)
(* send any request at any time, in any order and more than once, so a     *)
(* crashed, stalled or restarted runtime, a delayed message and a message  *)
(* sent by an earlier session are all among the behaviours.                *)
(*                                                                         *)
(* All that is stored about one run is one record, so a transaction is a   *)
(* function from records to records applied to the runs it touches.        *)
(***************************************************************************)
EXTENDS RunLifecycle, Integers, FiniteSets

CONSTANTS Runs, Threads, ThreadOf,   \* the runs and the thread of each
          Runtimes, NoRuntime,       \* runtime identities
          Serves,                    \* <<runtime, run>>: tenant and profile match
          Steps, NoStep, Approvals, NoApproval,
          RuntimeEvents,             \* what the deployed runtimes emit
          AnyApproval,               \* they name any granted approval in run.resumed
          MAX_RUN_RECOVERIES,
          \* bounds of the instance
          MaxSequence, MaxSession, MaxCheckpoint

ASSUME TransportAssumption ==
  /\ ThreadOf \in [Runs -> Threads]
  /\ NoRuntime \notin Runtimes
  /\ NoStep \notin Steps
  /\ Serves \subseteq Runtimes \X Runs
  /\ RuntimeEvents \subseteq RuntimeEvent
  /\ AnyApproval \in BOOLEAN
  /\ MAX_RUN_RECOVERIES \in Nat
  /\ NoApproval \notin Approvals
  /\ MaxSequence \in Nat /\ MaxSession \in Nat /\ MaxCheckpoint \in Nat
  /\ None \notin {"APPROVAL_GRANTED", "APPROVAL_REQUIRED", "APPROVAL_REJECTED",
                  "APPROVAL_EXPIRED", "CANCELLED_BY_EMPLOYEE", "RUNTIME_LOST",
                  "RUNTIME_RECOVERY_EXHAUSTED", "MANIFEST_INVALID", "RUNTIME"}

VARIABLES db,           \* [Runs -> what is stored about the run]
          nextSession,  \* the next lease session (randomUUID in the code)
          poll          \* the transaction each runtime's claim request did last

vars == <<db, nextSession, poll>>

Reason == {None, "APPROVAL_GRANTED", "APPROVAL_REQUIRED", "APPROVAL_REJECTED",
           "APPROVAL_EXPIRED", "CANCELLED_BY_EMPLOYEE", "RUNTIME_LOST",
           "RUNTIME_RECOVERY_EXHAUSTED", "MANIFEST_INVALID", "RUNTIME"}

\* How long ago the lease was last renewed, as the code tells the cases apart:
\* 0 just now, 1 more than COMMAND_REDELIVERY_MS, 2 more than RUNTIME_LEASE_MS
\* (expired), 3 more than RUN_RECOVERY_WINDOW_MS past both the expiry and the
\* run's last change.
Age == {0, 1, 2, 3}

\* One run: its row in agent_runs (runtime_sequence is seq), its steps, its
\* approvals (latest is the one approved last: ORDER BY decided_at DESC; overdue
\* are the pending ones whose expires_at has passed), its row in agent_run_leases (delivered is the approval named by last_command),
\* the session its run.started named, and its newest checkpoint (version,
\* session that wrote it, event sequence it is bound to; the one before it is
\* kept but never read).
RunRecord ==
  [status: RunStatus \cup {"NONE"}, reason: Reason, seq: Nat,
   step: [Steps -> StepStatus \cup {"NONE"}],
   approval: [Approvals -> {"NONE", "PENDING", "APPROVED", "REJECTED", "EXPIRED"}],
   approvalStep: [Approvals -> Steps \cup {NoStep}],
   latest: Approvals \cup {NoApproval}, overdue: SUBSET Approvals,
   lease: {"NONE", "ACTIVE", "CLOSED"}, runtime: Runtimes \cup {NoRuntime},
   session: Nat, age: Age,
   delivered: Approvals \cup {NoApproval}, recoveries: Nat,
   startedBy: Nat, ckpt: Nat, ckptSession: Nat, ckptSeq: Nat]

Absent ==
  [status |-> "NONE", reason |-> None, seq |-> 0,
   step |-> [s \in Steps |-> "NONE"],
   approval |-> [a \in Approvals |-> "NONE"],
   approvalStep |-> [a \in Approvals |-> NoStep], latest |-> NoApproval,
   overdue |-> {}, lease |-> "NONE", runtime |-> NoRuntime, session |-> 0, age |-> 0,
   delivered |-> NoApproval, recoveries |-> 0,
   startedBy |-> 0, ckpt |-> 0, ckptSession |-> 0, ckptSeq |-> 0]

Init == /\ db = [r \in Runs |-> Absent]
        /\ nextSession = 1
        /\ poll = [rt \in Runtimes |-> "idle"]

-----------------------------------------------------------------------------
(* What one transaction does to the record x of one run.                   *)

Granted(x) == x.status = "QUEUED" /\ x.reason = "APPROVAL_GRANTED"
Unstarted(x) == x.status = "QUEUED" /\ x.reason = None
Terminal(x) == x.status \in TerminalRun
Expired(x) == x.lease = "ACTIVE" /\ x.age >= 2
\* Faulty: the candidates of a take-over without the lease_expires_at test.
AbandonedAnyAge(x) == x.lease = "ACTIVE" /\ (x.status = "RUNNING" \/ Granted(x))
Abandoned(x) == Expired(x) /\ (x.status = "RUNNING" \/ Granted(x))

Touch(x) == IF x.lease = "ACTIVE" THEN [x EXCEPT !.age = 0] ELSE x
Close(x) == IF x.lease = "ACTIVE" THEN [x EXCEPT !.lease = "CLOSED"] ELSE x
\* agent_runs.updated_at moves: the recovery window starts again.
Updated(x) == IF x.age = 3 THEN [x EXCEPT !.age = 2] ELSE x

\* transitionRun to a terminal status: the run's checkpoints go in the same
\* transaction (onRunStopped).
Stop(x, status, why) ==
  [x EXCEPT !.status = status, !.reason = why,
            !.ckpt = 0, !.ckptSession = 0, !.ckptSeq = 0]

\* cancelRun closes every step still open, then the run.
Cancel(x, why) ==
  [Stop(x, "CANCELLED", why) EXCEPT
     !.step = [s \in Steps |-> IF x.step[s] \in OpenStep THEN "CANCELLED" ELSE x.step[s]]]

Abandon(x, why) == Close(Cancel(x, why))

\* Faulty: a granted run is never given up.
ReapedRunning(x) ==
  IF Abandoned(x) /\ x.status = "RUNNING" /\ (x.age = 3 \/ x.ckpt = 0)
    THEN Abandon(x, "RUNTIME_LOST")
    ELSE x

\* reapAbandoned for one run.
Reaped(x) ==
  IF Abandoned(x) /\ (x.age = 3 \/ (x.status = "RUNNING" /\ x.ckpt = 0))
    THEN Abandon(x, "RUNTIME_LOST")
    ELSE x

\* Pending approvals past their deadline (status='PENDING' AND expires_at<=now).
Due(x) == {a \in x.overdue : x.approval[a] = "PENDING"}

\* Faulty: the approval expires, its run does not notice.
LapsedOnly(x) ==
  [x EXCEPT !.approval = [a \in Approvals |-> IF a \in Due(x) THEN "EXPIRED" ELSE @[a]]]

DueExpired(x) ==
  [x EXCEPT !.approval = [a \in Approvals |-> IF a \in Due(x) THEN "EXPIRED" ELSE x.approval[a]],
            !.overdue = {}]

\* expireDue for one run.
Lapsed(x) ==
  IF Due(x) = {} THEN x
  ELSE IF x.status = "WAITING_FOR_APPROVAL" THEN Cancel(DueExpired(x), "APPROVAL_EXPIRED")
  ELSE DueExpired(x)

-----------------------------------------------------------------------------
(* The claim transaction.  A runtime's visit to one run either answers with *)
(* a command or changes the run and goes on; bad holds the runs whose       *)
(* manifest can no longer be verified.                                       *)

RecoveriesSpent(x) == x.recoveries >= MAX_RUN_RECOVERIES

Served(rt, r) == <<rt, r>> \in Serves

\* takeOver answers with a command when the run can be handed on.
CanTakeOver(r, x, bad) ==
  /\ x.ckpt > 0
  /\ x.status = "RUNNING" => ~RecoveriesSpent(x)
  /\ r \notin bad
  /\ Granted(x) => x.latest # NoApproval

\* Faulty: the run is handed on with the session of the runtime that had it.
TakeOverSameSession(rt, r, x, bad) ==
  IF x.ckpt = 0 THEN x
  ELSE IF x.status = "RUNNING" /\ RecoveriesSpent(x)
    THEN Abandon(x, "RUNTIME_RECOVERY_EXHAUSTED")
  ELSE IF r \in bad THEN Abandon(x, "MANIFEST_INVALID")
  ELSE IF CanTakeOver(r, x, bad)
    THEN [x EXCEPT !.runtime = rt, !.age = 0,
                   !.delivered = IF x.status = "RUNNING" THEN NoApproval ELSE x.latest,
                   !.recoveries = IF x.status = "RUNNING" THEN @ + 1 ELSE @]
  ELSE x

TakeOver(rt, r, x, bad) ==
  IF x.ckpt = 0 THEN x
  ELSE IF x.status = "RUNNING" /\ RecoveriesSpent(x)
    THEN Abandon(x, "RUNTIME_RECOVERY_EXHAUSTED")
  ELSE IF r \in bad THEN Abandon(x, "MANIFEST_INVALID")
  ELSE IF CanTakeOver(r, x, bad)
    THEN [x EXCEPT !.runtime = rt, !.session = nextSession, !.age = 0,
                   !.delivered = IF x.status = "RUNNING" THEN NoApproval ELSE x.latest,
                   !.recoveries = IF x.status = "RUNNING" THEN @ + 1 ELSE @]
  ELSE x

\* The command a held run is answered with ("none": the loop goes on).
HeldAnswer(rt, r, x, bad) ==
  CASE x.status = "CANCELLED" -> "run.cancel"
    [] Served(rt, r) /\ x.status = "RUNNING" /\ x.age >= 2 /\ CanTakeOver(r, x, bad) -> "run.recover"
    [] Served(rt, r) /\ Granted(x) /\ x.latest # NoApproval
         /\ (x.delivered # x.latest \/ x.age >= 1) -> "run.resume"
    [] Served(rt, r) /\ Unstarted(x) /\ x.age >= 1 /\ r \notin bad -> "run.submit"
    [] OTHER -> "none"

HeldVisit(rt, r, x, bad) ==
  CASE Terminal(x) -> Close(x)
    [] Served(rt, r) /\ x.status = "RUNNING" /\ x.age >= 2 -> TakeOver(rt, r, x, bad)
    [] HeldAnswer(rt, r, x, bad) = "run.resume" ->
         [x EXCEPT !.age = 0, !.delivered = x.latest]
    [] Served(rt, r) /\ Unstarted(x) /\ x.age >= 1 ->
         IF r \in bad THEN Abandon(x, "MANIFEST_INVALID")
         ELSE [x EXCEPT !.age = 0, !.delivered = NoApproval]
    [] OTHER -> x

\* claimQueued: a run nobody started, unleased or with an expired lease.
Claimable(x) == Unstarted(x) /\ x.seq = 0 /\ (x.lease = "NONE" \/ Expired(x))

QueueVisit(rt, r, x, bad) ==
  IF r \in bad THEN Abandon(x, "MANIFEST_INVALID")
  ELSE [x EXCEPT !.lease = "ACTIVE", !.runtime = rt, !.session = nextSession,
                 !.age = 0, !.delivered = NoApproval]

-----------------------------------------------------------------------------
(* Employees, approvers and the passage of time.                           *)

Put(r, x) == db' = [db EXCEPT ![r] = x]

\* createRun: a thread has at most one active run.
CreateRun(r) ==
  /\ db[r].status = "NONE"
  /\ \A q \in Runs : ThreadOf[q] = ThreadOf[r] => db[q].status \notin ActiveRun
  /\ Put(r, [db[r] EXCEPT !.status = "QUEUED"])
  /\ UNCHANGED <<nextSession, poll>>

\* cancelOwnRun: the lease stays, so that its holder is sent run.cancel.
CancelOwnRun(r) ==
  /\ db[r].status \in ActiveRun
  /\ Put(r, Cancel(db[r], "CANCELLED_BY_EMPLOYEE"))
  /\ UNCHANGED <<nextSession, poll>>

\* The step an approval paused goes on or ends with the decision, if it still
\* waits for it.
WaitingStepTo(x, a, status) ==
  [s \in Steps |-> IF s = x.approvalStep[a] /\ x.step[s] = "WAITING_FOR_APPROVAL"
                     THEN status ELSE x.step[s]]

\* onApprovalDecided.  A decision on an approval whose run is no longer waiting
\* is recorded and moves nothing else; rejection closes only the waiting step.
\* Faulty: a late approval releases whatever run it belongs to.
ApprovedLate(x, a) ==
  [x EXCEPT !.approval[a] = "APPROVED", !.latest = a, !.status = "QUEUED",
            !.reason = "APPROVAL_GRANTED", !.step = WaitingStepTo(x, a, "PENDING")]
\* Faulty: the run is released, its step still waits.
ApprovedRunOnly(x, a) ==
  LET y == [x EXCEPT !.approval[a] = "APPROVED", !.latest = a]
  IN IF x.status # "WAITING_FOR_APPROVAL" THEN y
     ELSE Updated([y EXCEPT !.status = "QUEUED", !.reason = "APPROVAL_GRANTED"])
Approved(x, a) ==
  LET y == [x EXCEPT !.approval[a] = "APPROVED", !.latest = a, !.overdue = @ \ {a}]
  IN IF x.status # "WAITING_FOR_APPROVAL" THEN y
     ELSE Updated([y EXCEPT !.status = "QUEUED", !.reason = "APPROVAL_GRANTED",
                            !.step = WaitingStepTo(x, a, "PENDING")])

Rejected(x, a) ==
  LET y == [x EXCEPT !.approval[a] = "REJECTED", !.overdue = @ \ {a}]
  IN IF x.status # "WAITING_FOR_APPROVAL" THEN y
     ELSE [Stop(y, "CANCELLED", "APPROVAL_REJECTED") EXCEPT
             !.step = WaitingStepTo(x, a, "CANCELLED")]

\* decideApproval.  The expireDue it calls first is a transaction of its own
\* (ExpireDue), so a deadline may pass between the two.
Approve(r, a) == /\ db[r].approval[a] = "PENDING"
                 /\ Put(r, Approved(db[r], a))
                 /\ UNCHANGED <<nextSession, poll>>

Reject(r, a) == /\ db[r].approval[a] = "PENDING"
                /\ Put(r, Rejected(db[r], a))
                /\ UNCHANGED <<nextSession, poll>>

\* The deadline of a pending approval passes.  Nothing happens to its run then:
\* "called lazily wherever approvals are read, decided or executed".
Deadline(r, a) ==
  /\ db[r].approval[a] = "PENDING" /\ a \notin db[r].overdue
  /\ Put(r, [db[r] EXCEPT !.overdue = @ \cup {a}])
  /\ UNCHANGED <<nextSession, poll>>

\* expireDue for a person or a runtime who asks about approvals: all that are
\* due in one organization, in one transaction; due are the runs concerned.
ExpireDue(due) ==
  /\ due # {} /\ \A r \in due : Due(db[r]) # {}
  /\ db' = [r \in Runs |-> IF r \in due THEN Lapsed(db[r]) ELSE db[r]]
  /\ UNCHANGED <<nextSession, poll>>

\* Time passes and nothing renews the lease.
Tick(r) ==
  /\ db[r].lease = "ACTIVE" /\ db[r].age < 3
  /\ Put(r, [db[r] EXCEPT !.age = @ + 1])
  /\ UNCHANGED <<nextSession, poll>>

-----------------------------------------------------------------------------
(* Housekeeping and claims.                                                 *)

ReapAll == db' = [r \in Runs |-> Reaped(db[r])]

\* The API process's own timer.
Housekeeping ==
  /\ ReapAll
  /\ UNCHANGED <<nextSession, poll>>

\* claim: first the expiry, for every organization, then the reaper, each
\* committed on its own, and only then the transaction that looks for a command.
ClaimExpire(rt) ==
  /\ poll[rt] = "idle"
  /\ db' = [r \in Runs |-> Lapsed(db[r])]
  /\ poll' = [poll EXCEPT ![rt] = "expired"]
  /\ UNCHANGED nextSession

ClaimReap(rt) ==
  /\ poll[rt] = "expired"
  /\ ReapAll
  /\ poll' = [poll EXCEPT ![rt] = "reaped"]
  /\ UNCHANGED nextSession

HeldBy(rt) == {r \in Runs : db[r].lease = "ACTIVE" /\ db[r].runtime = rt}

\* The three loops of the claim transaction, each over the runs left by the
\* one before it when none of its visits answered.
AfterHeld(rt, seen, bad) ==
  [r \in Runs |-> IF r \in seen
                    THEN HeldVisit(rt, r, db[r], bad)
                    ELSE db[r]]

AbandonedFor(rt, d) == {r \in Runs : Served(rt, r) /\ Abandoned(d[r])}

AfterAbandoned(rt, d, seen, bad) ==
  [r \in Runs |-> IF r \in seen THEN TakeOver(rt, r, d[r], bad) ELSE d[r]]

ClaimableFor(rt, d) == {r \in Runs : Served(rt, r) /\ Claimable(d[r])}

AfterQueued(rt, d, seen, bad) ==
  [r \in Runs |-> IF r \in seen THEN QueueVisit(rt, r, d[r], bad) ELSE d[r]]

\* Faulty: an answer does not end the loop.
SilentNoReturn(rt, bad) == HeldBy(rt)
SilentHeld(rt, bad) ==
  {r \in HeldBy(rt) : HeldAnswer(rt, r, db[r], bad) = "none"}

ClaimStep(rt) == poll[rt] = "reaped" /\ poll' = [poll EXCEPT ![rt] = "idle"]

\* A run the runtime holds is answered; before are the held runs seen first.
ClaimHeld(rt, r, before, bad, command) ==
  /\ r \in HeldBy(rt)
  /\ command # "none" /\ HeldAnswer(rt, r, db[r], bad) = command
  /\ before \subseteq SilentHeld(rt, bad)
  /\ command = "run.recover" => nextSession < MaxSession
  /\ db' = AfterHeld(rt, before \cup {r}, bad)
  /\ nextSession' = IF command = "run.recover" THEN nextSession + 1 ELSE nextSession

\* claimAbandoned: another runtime's run, or its own, is handed on.
ClaimAbandoned(rt, r, before, bad) ==
  LET d == AfterHeld(rt, HeldBy(rt), bad)
  IN /\ HeldBy(rt) = SilentHeld(rt, bad)
     /\ r \in AbandonedFor(rt, d) /\ CanTakeOver(r, d[r], bad)
     /\ before \subseteq {q \in AbandonedFor(rt, d) : ~CanTakeOver(q, d[q], bad)}
     /\ nextSession < MaxSession
     /\ db' = AfterAbandoned(rt, d, before \cup {r}, bad)
     /\ nextSession' = nextSession + 1

\* claimQueued: a fresh run, or one whose first holder never started it.
ClaimQueued(rt, r, before, bad) ==
  LET d == AfterHeld(rt, HeldBy(rt), bad)
      e == AfterAbandoned(rt, d, AbandonedFor(rt, d), bad)
  IN /\ HeldBy(rt) = SilentHeld(rt, bad)
     /\ \A q \in AbandonedFor(rt, d) : ~CanTakeOver(q, d[q], bad)
     /\ r \in ClaimableFor(rt, e) \ bad
     /\ before \subseteq ClaimableFor(rt, e) \cap bad
     /\ nextSession < MaxSession
     /\ db' = AfterQueued(rt, e, before \cup {r}, bad)
     /\ nextSession' = nextSession + 1

\* 204: no command; what the loops changed on the way is kept.
ClaimNothing(rt, bad) ==
  LET d == AfterHeld(rt, HeldBy(rt), bad)
      e == AfterAbandoned(rt, d, AbandonedFor(rt, d), bad)
  IN /\ HeldBy(rt) = SilentHeld(rt, bad)
     /\ \A q \in AbandonedFor(rt, d) : ~CanTakeOver(q, d[q], bad)
     /\ ClaimableFor(rt, e) \subseteq bad
     /\ db' = AfterQueued(rt, e, ClaimableFor(rt, e), bad)
     /\ UNCHANGED nextSession

Claim(rt) ==
  /\ ClaimStep(rt)
  /\ \E bad \in SUBSET Runs :
    \/ \E r \in Runs, before \in SUBSET Runs :
         \/ \E command \in {"run.cancel", "run.recover", "run.resume", "run.submit"} :
              ClaimHeld(rt, r, before, bad, command)
         \/ ClaimAbandoned(rt, r, before, bad)
         \/ ClaimQueued(rt, r, before, bad)
    \/ ClaimNothing(rt, bad)

\* The API process restarts: claims in progress are gone, the database is not.
RestartApi ==
  /\ \E rt \in Runtimes : poll[rt] # "idle"
  /\ poll' = [rt \in Runtimes |-> "idle"]
  /\ UNCHANGED <<db, nextSession>>

-----------------------------------------------------------------------------
(* Requests of a runtime about a run whose lease names it.                  *)

\* ownedLease: by runtime identity, not by session.
Owns(rt, r) == db[r].lease # "NONE" /\ db[r].runtime = rt /\ Served(rt, r)

Heartbeat(rt, named) ==
  /\ named \cap HeldBy(rt) # {}
  /\ db' = [r \in Runs |-> IF r \in named \cap HeldBy(rt) THEN Touch(db[r]) ELSE db[r]]
  /\ UNCHANGED <<nextSession, poll>>

\* What an accepted event does to the run and its steps; the step that the
\* approval a paused starts again with run.resumed.
ResumeStep(x, a) ==
  [s \in Steps |-> IF s = x.approvalStep[a] /\ x.step[s] = "PENDING"
                     THEN "RUNNING" ELSE x.step[s]]

EventEffect(x, type, s, session, a) ==
  LET y == [x EXCEPT !.seq = @ + 1]
  IN CASE type = "step.started"   -> [y EXCEPT !.step[s] = "RUNNING"]
       [] type = "step.completed" -> [y EXCEPT !.step[s] = "COMPLETED"]
       [] type = "step.failed"    -> [y EXCEPT !.step[s] = "FAILED"]
       [] type = "run.started"    -> [y EXCEPT !.status = "RUNNING", !.reason = None,
                                               !.startedBy = session]
       [] type = "run.resumed"    -> [y EXCEPT !.status = "RUNNING", !.reason = None,
                                               !.step = ResumeStep(x, a)]
       [] type = "run.paused"     -> [y EXCEPT !.status = EventTarget(type), !.reason = "RUNTIME"]
       [] type = "other"          -> y
       [] OTHER                   -> Stop(y, EventTarget(type), "RUNTIME")

\* The step an event names must fit: a new one, or one the event may close.
StepFits(x, type, s) ==
  CASE type = "step.started"   -> s \in Steps /\ x.step[s] = "NONE"
    [] type = "step.completed" -> s \in Steps /\ CanTransitionStep(x.step[s], "COMPLETED")
    [] type = "step.failed"    -> s \in Steps /\ CanTransitionStep(x.step[s], "FAILED")
    [] OTHER                   -> s = NoStep

\* After a recorded event the lease is renewed, or closed with the run.
Renew(x) == IF Terminal(x) THEN Close(x) ELSE Touch(x)

\* ingest of a new event: the next in sequence, from the lease's holder.  Only
\* run.started carries the session, and only there is it compared; run.resumed
\* must name a granted approval of the run.
MayIngest(x, type, s, session, a) ==
  /\ type = "run.started" => session = x.session
  /\ Accepts(x.status, x.reason, type)
  /\ type = "run.resumed" => a \in Approvals /\ x.approval[a] = "APPROVED"
  /\ StepFits(x, type, s)

Ingest(rt, r, type, s, session, a) ==
  /\ Owns(rt, r)
  /\ MayIngest(db[r], type, s, session, a)
  /\ db[r].seq < MaxSequence
  /\ Put(r, Renew(EventEffect(db[r], type, s, session, a)))
  /\ UNCHANGED <<nextSession, poll>>

\* ingest of an event recorded before: nothing is recorded, the lease is renewed
\* or closed.  The first event of a run is its run.started, whose session is
\* compared again.
IngestDuplicate(rt, r) ==
  /\ Owns(rt, r) /\ db[r].seq > 0
  /\ db[r].seq = 1 => db[r].startedBy = db[r].session
  /\ Put(r, Renew(db[r]))
  /\ UNCHANGED <<nextSession, poll>>

\* requestAction decided APPROVAL_REQUIRED: approval, step and run together
\* (decide, pauseForApproval).  The other decisions leave the run as it is.
MayPause(x, s, a) ==
  /\ x.lease = "ACTIVE" /\ x.status = "RUNNING" /\ x.step[s] = "RUNNING"
  /\ x.approval[a] = "NONE"

Paused(x, s, a) ==
  Updated([x EXCEPT !.approval[a] = "PENDING", !.approvalStep[a] = s,
                    !.step[s] = "WAITING_FOR_APPROVAL",
                    !.status = "WAITING_FOR_APPROVAL", !.reason = "APPROVAL_REQUIRED"])

PauseForApproval(rt, r, s, a) ==
  /\ Owns(rt, r) /\ MayPause(db[r], s, a)
  /\ Put(r, Paused(db[r], s, a))
  /\ UNCHANGED <<nextSession, poll>>

\* af_checkpoint_next_version: checkpoints of a run are numbered without a gap.
NextVersion(x, version) == version = x.ckpt + 1

\* saveCheckpoint: the lease's session, the next version, no event sequence the
\* run has not reached.
\* Faulty: the fence of the lease session is missing.
SavesAnySession(x, session, version, sequence) ==
  /\ x.lease = "ACTIVE" /\ x.status \in {"RUNNING", "WAITING_FOR_APPROVAL"}
  /\ sequence <= x.seq /\ version = x.ckpt + 1
\* Faulty: bound to events that are not recorded yet.
SavesAhead(x, session, version, sequence) ==
  /\ x.lease = "ACTIVE" /\ x.status \in {"RUNNING", "WAITING_FOR_APPROVAL"}
  /\ session = x.session /\ version = x.ckpt + 1
MaySave(x, session, version, sequence) ==
  /\ x.lease = "ACTIVE" /\ x.status \in {"RUNNING", "WAITING_FOR_APPROVAL"}
  /\ session = x.session
  /\ sequence <= x.seq
  /\ NextVersion(x, version)

Saved(x, session, version, sequence) ==
  Touch([x EXCEPT !.ckpt = version, !.ckptSession = session, !.ckptSeq = sequence])

SaveCheckpoint(rt, r, session, version, sequence) ==
  /\ Owns(rt, r) /\ MaySave(db[r], session, version, sequence)
  /\ version <= MaxCheckpoint
  /\ Put(r, Saved(db[r], session, version, sequence))
  /\ UNCHANGED <<nextSession, poll>>

\* The approval a request names.  The control plane accepts, in run.resumed, any
\* granted approval of the run; the deployed runtime names that of the command it
\* answers, which is the latest one.
Named(x) == IF AnyApproval THEN Approvals \cup {NoApproval} ELSE {x.latest}

\* Only run.started carries a session, only run.resumed an approval.
Carries(type, session, a) ==
  /\ type # "run.started" => session = 1
  /\ type # "run.resumed" /\ AnyApproval => a = NoApproval

RuntimeRequest(rt) ==
  \/ \E named \in SUBSET Runs : Heartbeat(rt, named)
  \/ \E r \in Runs :
       \/ \E type \in RuntimeEvents, s \in Steps \cup {NoStep},
            session \in 1..MaxSession, a \in Named(db[r]) :
              Carries(type, session, a) /\ Ingest(rt, r, type, s, session, a)
       \/ IngestDuplicate(rt, r)
       \/ \E s \in Steps, a \in Approvals : PauseForApproval(rt, r, s, a)
       \/ \E session \in 1..MaxSession, version \in 1..MaxCheckpoint,
            sequence \in 0..MaxSequence : SaveCheckpoint(rt, r, session, version, sequence)

Next ==
  \/ \E r \in Runs : CreateRun(r) \/ CancelOwnRun(r) \/ Tick(r)
  \/ \E r \in Runs, a \in Approvals : Approve(r, a) \/ Reject(r, a) \/ Deadline(r, a)
  \/ \E due \in SUBSET Runs : ExpireDue(due)
  \/ Housekeeping
  \/ \E rt \in Runtimes : ClaimExpire(rt) \/ ClaimReap(rt) \/ Claim(rt) \/ RuntimeRequest(rt)
  \/ RestartApi

Spec == Init /\ [][Next]_vars

\* Fairness: time passes, for leases and for deadlines, and the API process's
\* timer fires (server.ts), which reaps.  Nothing makes anybody poll or ask.
Fairness ==
  /\ WF_vars(Housekeeping)
  /\ \A r \in Runs : WF_vars(Tick(r)) /\ \A a \in Approvals : WF_vars(Deadline(r, a))

FairSpec == Spec /\ Fairness

-----------------------------------------------------------------------------
(* Properties.                                                             *)

TypeOK == /\ db \in [Runs -> RunRecord]
          /\ \A r \in Runs : db[r].recoveries <= MAX_RUN_RECOVERIES
          /\ nextSession \in Nat \ {0}
          /\ poll \in [Runtimes -> {"idle", "expired", "reaped"}]

Pending(x) == {a \in Approvals : x.approval[a] = "PENDING"}

\* What the stored parts of one run must say together.
\* A run executes only when every approval ever asked for it was granted; it
\* waits for exactly one, whose step waits with it.  (pauseForApproval and
\* onApprovalDecided; "a runtime can never release WAITING_FOR_APPROVAL".)
GateHolds(x) ==
  /\ x.status \in {"RUNNING", "QUEUED"} =>
       \A a \in Approvals : x.approval[a] \in {"NONE", "APPROVED"}
  /\ x.status = "WAITING_FOR_APPROVAL" =>
       \E a \in Approvals :
         /\ Pending(x) = {a}
         /\ \A b \in Approvals \ {a} : x.approval[b] \in {"NONE", "APPROVED"}
         /\ x.approvalStep[a] \in Steps
         /\ x.step[x.approvalStep[a]] = "WAITING_FOR_APPROVAL"

\* A run released by an approval can always be resumed: the approval that
\* released it is the latest, its step is pending, and somebody holds a lease
\* (claim's `if (!approval) continue` never leaves it behind).
ReleasedIsResumable(x) ==
  Granted(x) => /\ x.latest # NoApproval /\ x.approval[x.latest] = "APPROVED"
                /\ x.approvalStep[x.latest] \in Steps
                /\ x.step[x.approvalStep[x.latest]] = "PENDING"
                /\ x.lease = "ACTIVE"

\* No step outside a pause is pending or waiting: what a runtime finds open
\* when it works on a running run is running.  The step that was approved stays
\* pending when the run is resumed in the name of an earlier approval.
NoStepLeftPaused(x) ==
  /\ x.status = "RUNNING" \/ Granted(x) => \A s \in Steps : x.step[s] # "WAITING_FOR_APPROVAL"
  /\ x.status \in {"RUNNING", "WAITING_FOR_APPROVAL"} /\ ~AnyApproval =>
       \A s \in Steps : x.step[s] # "PENDING"
  /\ x.status = "QUEUED" /\ ~Granted(x) => \A s \in Steps : x.step[s] = "NONE"

\* A lease closes only with its run, and nothing of the run's conversation is
\* kept after it ended (ADR 0032: all checkpoints are deleted).
EndIsClean(x) ==
  /\ x.lease = "CLOSED" => Terminal(x)
  /\ x.ckpt > 0 => x.status \in ActiveRun /\ x.lease = "ACTIVE" /\ x.seq > 0

\* A checkpoint never runs ahead of the recorded history, so whoever is handed
\* the run can continue from it (runtime-host.ts refuses one that is ahead).
CheckpointFits(x) ==
  /\ x.ckptSeq <= x.seq
  /\ x.ckptSession <= x.session
  /\ x.ckpt > 0 => x.ckptSession > 0

\* A cancellation by the control plane leaves no step open.  (Rejection closes
\* only the step that waited, a runtime's own end of a run none.)
CancelClosesSteps(x) ==
  x.status = "CANCELLED" /\ x.reason \notin {"APPROVAL_REJECTED", "RUNTIME"} =>
    \A s \in Steps : x.step[s] \notin OpenStep

ApprovalGate == \A r \in Runs : GateHolds(db[r])
Resumable == \A r \in Runs : ReleasedIsResumable(db[r])
StepsFollowRun == \A r \in Runs : NoStepLeftPaused(db[r])
CleanEnd == \A r \in Runs : EndIsClean(db[r])
CheckpointWithinHistory == \A r \in Runs : CheckpointFits(db[r])
CancelledStepsClosed == \A r \in Runs : CancelClosesSteps(db[r])

\* What the stored parts of a run say together, at every moment of every interleaving.
RunsSound == TypeOK /\ ApprovalGate /\ Resumable /\ StepsFollowRun /\ CleanEnd /\ CancelledStepsClosed

\* The parts above are not inductive by themselves: a run nobody started has no
\* history, approvals or checkpoint yet, one at work has a lease and a history,
\* and a session is never ahead of the sessions handed out.
RunInv(x) ==
  /\ GateHolds(x) /\ ReleasedIsResumable(x) /\ NoStepLeftPaused(x)
  /\ EndIsClean(x) /\ CheckpointFits(x)
  /\ x.status = "QUEUED" => x.reason \in {None, "APPROVAL_GRANTED"}
  /\ x.status = "NONE" => x.reason = None /\ x.lease = "NONE" /\ x.step = [s \in Steps |-> "NONE"]
  /\ x.status = "NONE" \/ Unstarted(x) =>
       x.seq = 0 /\ x.ckpt = 0 /\ \A a \in Approvals : x.approval[a] = "NONE"
  /\ x.status \in {"RUNNING", "WAITING_FOR_APPROVAL"} => x.lease = "ACTIVE" /\ x.seq > 0
  /\ x.lease # "NONE" => x.session > 0
  /\ x.status = "WAITING_FOR_APPROVAL" =>
       \A a \in Pending(x), s \in Steps : x.step[s] = "WAITING_FOR_APPROVAL" => s = x.approvalStep[a]
  /\ Granted(x) /\ ~AnyApproval =>
       \A s \in Steps : x.step[s] = "PENDING" => s = x.approvalStep[x.latest]

Inductive == \A r \in Runs : RunInv(db[r]) /\ db[r].session < nextSession

\* createRun against everything that re-activates a run: one active run per
\* thread, so no two runs edit the same workspace (ADR 0008).
OneActiveRunPerThread ==
  \A r, q \in Runs :
    r # q /\ ThreadOf[r] = ThreadOf[q] => ~(db[r].status \in ActiveRun /\ db[q].status \in ActiveRun)

\* A run changes hands only when its lease was free or had expired, a running
\* one only with a checkpoint to continue from, at most MAX_RUN_RECOVERIES
\* times, and always under a session never used before.
HandOver ==
  [][\A r \in Runs :
       db'[r].session # db[r].session =>
         /\ db[r].lease = "NONE" \/ Expired(db[r])
         /\ db'[r].session >= nextSession
         /\ db[r].status = "RUNNING" =>
              /\ db[r].ckpt > 0
              /\ db'[r].recoveries = db[r].recoveries + 1
              /\ db'[r].recoveries <= MAX_RUN_RECOVERIES]_db

\* The fence of ADR 0032: checkpoints advance by one, under the session that
\* holds the lease now, and never again under one the run was taken from.
CheckpointFence ==
  [][\A r \in Runs :
       db'[r].ckpt # db[r].ckpt /\ db'[r].ckpt # 0 =>
         /\ db'[r].ckpt = db[r].ckpt + 1
         /\ db'[r].ckptSession = db[r].session /\ db'[r].session = db[r].session
         /\ db'[r].ckptSession >= db[r].ckptSession]_db

\* An ended run is immutable: status, history and steps; its lease can only
\* close.  Every other change of status is one of RunTransitions, and only a
\* granted approval takes a run out of WAITING_FOR_APPROVAL alive.
LawfulRuns ==
  [][\A r \in Runs :
       LET x == db[r] y == db'[r] IN
       /\ Terminal(x) => /\ y.status = x.status /\ y.reason = x.reason /\ y.seq = x.seq
                         /\ y.step = x.step /\ y.session = x.session
                         /\ y.lease # x.lease => x.lease = "ACTIVE" /\ y.lease = "CLOSED"
       /\ x.status # y.status /\ x.status # "NONE" => CanTransitionRun(x.status, y.status)
       /\ x.status = "WAITING_FOR_APPROVAL" /\ y.status = "QUEUED" =>
            \E a \in Pending(x) : y.approval[a] = "APPROVED"]_db

\* A claim answers with one command, so it uses up at most one: the leases it
\* renews, hands over or closes on a cancelled run are one run's.  A command
\* marked delivered that no response carries would be lost (claim's loops).
OneCommandPerClaim ==
  [][(\E rt \in Runtimes : poll[rt] = "reaped" /\ poll'[rt] = "idle") =>
       Cardinality({r \in Runs :
         LET x == db[r] y == db'[r] IN
         \/ y.session # x.session
         \/ y.lease = "ACTIVE" /\ y.age < x.age
         \/ x.status = "CANCELLED" /\ y.lease # x.lease}) <= 1]_vars

\* No run is abandoned for ever: one whose holder stopped signalling is handed
\* on, renewed by its holder after all, or ended by the reaper.
AbandonedResolved == \A r \in Runs : Abandoned(db[r]) ~> ~Abandoned(db[r])

\* "A paused run with no answer is still ended by approval expiry" (ADR 0032),
\* whatever its own runtime does: as long as some runtime goes on polling, since
\* no timer expires approvals.
SomebodyPolls == []<><<\E rt \in Runtimes : ClaimExpire(rt)>>_vars

PauseResolved ==
  SomebodyPolls =>
    \A r \in Runs : (db[r].status = "WAITING_FOR_APPROVAL") ~> (db[r].status # "WAITING_FOR_APPROVAL")
=============================================================================
