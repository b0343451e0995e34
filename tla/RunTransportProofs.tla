------------------------- MODULE RunTransportProofs -------------------------
(***************************************************************************)
(* Theorems about RunTransport, for every set of runs, runtimes, steps and *)
(* approvals and every bound.  A transaction applies one function to the   *)
(* record of each run it touches, so every argument has two halves: what   *)
(* the function does to one record (the lemmas), and that every action     *)
(* applies such functions (the theorems).                                  *)
(***************************************************************************)
EXTENDS RunTransport, FiniteSetTheorems, TLAPS

-----------------------------------------------------------------------------
(* Types: what each function on records returns.                           *)

\* A session may be written by the runtime into the record: any positive number.
LEMMA TouchType == ASSUME NEW x \in RunRecord PROVE Touch(x) \in RunRecord
  BY DEF Touch, RunRecord, Age

LEMMA CloseType == ASSUME NEW x \in RunRecord PROVE Close(x) \in RunRecord
  BY DEF Close, RunRecord

LEMMA UpdatedType == ASSUME NEW x \in RunRecord PROVE Updated(x) \in RunRecord
  BY DEF Updated, RunRecord, Age

LEMMA StopType ==
  ASSUME NEW x \in RunRecord, NEW status \in TerminalRun, NEW why \in Reason
  PROVE  Stop(x, status, why) \in RunRecord
  BY DEF Stop, RunRecord, TerminalRun, RunStatus

LEMMA CancelType ==
  ASSUME NEW x \in RunRecord, NEW why \in Reason
  PROVE  Cancel(x, why) \in RunRecord
<1>1. Stop(x, "CANCELLED", why) \in RunRecord
  BY StopType DEF TerminalRun
<1>2. [s \in Steps |-> IF x.step[s] \in OpenStep THEN "CANCELLED" ELSE x.step[s]]
        \in [Steps -> StepStatus \cup {"NONE"}]
  BY DEF RunRecord, StepStatus
<1> QED BY <1>1, <1>2 DEF Cancel, RunRecord

LEMMA CancelFacts ==
  ASSUME NEW x \in RunRecord, NEW why \in Reason
  PROVE  /\ Cancel(x, why).status = "CANCELLED" /\ Cancel(x, why).reason = why
         /\ Cancel(x, why).ckpt = 0 /\ Cancel(x, why).ckptSeq = 0
         /\ Cancel(x, why).ckptSession = 0 /\ Cancel(x, why).lease = x.lease
         /\ Cancel(x, why).session = x.session
         /\ \A s \in Steps : Cancel(x, why).step[s] \notin OpenStep
<1>1. /\ Cancel(x, why).status = "CANCELLED" /\ Cancel(x, why).reason = why
      /\ Cancel(x, why).ckpt = 0 /\ Cancel(x, why).ckptSeq = 0
      /\ Cancel(x, why).ckptSession = 0 /\ Cancel(x, why).lease = x.lease
      /\ Cancel(x, why).session = x.session
  BY DEF Cancel, Stop, RunRecord
<1>2. Cancel(x, why).step = [s \in Steps |-> IF x.step[s] \in OpenStep THEN "CANCELLED" ELSE x.step[s]]
  BY DEF Cancel, Stop, RunRecord
<1> QED BY <1>1, <1>2 DEF OpenStep

LEMMA AbandonType ==
  ASSUME NEW x \in RunRecord, NEW why \in Reason
  PROVE  Abandon(x, why) \in RunRecord
  BY CancelType, CloseType DEF Abandon

LEMMA ReapedType == ASSUME NEW x \in RunRecord PROVE Reaped(x) \in RunRecord
  BY AbandonType DEF Reaped, Reason

\* Of a record only the approvals that are due change.
LEMMA DueExpiredType ==
  ASSUME NEW x \in RunRecord
  PROVE  /\ DueExpired(x) \in RunRecord
         /\ DueExpired(x).status = x.status /\ DueExpired(x).reason = x.reason
         /\ DueExpired(x).seq = x.seq /\ DueExpired(x).step = x.step
         /\ DueExpired(x).lease = x.lease /\ DueExpired(x).session = x.session
         /\ DueExpired(x).latest = x.latest /\ DueExpired(x).recoveries = x.recoveries
         /\ DueExpired(x).ckpt = x.ckpt /\ DueExpired(x).ckptSeq = x.ckptSeq
         /\ DueExpired(x).ckptSession = x.ckptSession
<1> DEFINE f == [a \in Approvals |-> IF a \in Due(x) THEN "EXPIRED" ELSE x.approval[a]]
<1>1. f \in [Approvals -> {"NONE", "PENDING", "APPROVED", "REJECTED", "EXPIRED"}]
  BY DEF RunRecord
<1>2. DueExpired(x) = [x EXCEPT !.approval = f, !.overdue = {}]
  BY DEF DueExpired
<1> HIDE DEF f
<1> DEFINE y == [x EXCEPT !.approval = f]
<1>6. y \in RunRecord
  BY <1>1 DEF RunRecord
<1>3. DueExpired(x) \in RunRecord
  <2>1. DueExpired(x) = [y EXCEPT !.overdue = {}]
    BY <1>2
  <2> HIDE DEF y
  <2> QED BY <1>6, <2>1 DEF RunRecord
<1>4. /\ DueExpired(x).status = x.status /\ DueExpired(x).reason = x.reason
      /\ DueExpired(x).seq = x.seq /\ DueExpired(x).step = x.step
      /\ DueExpired(x).lease = x.lease /\ DueExpired(x).session = x.session
  BY <1>2 DEF RunRecord
<1>5. /\ DueExpired(x).latest = x.latest /\ DueExpired(x).recoveries = x.recoveries
      /\ DueExpired(x).ckpt = x.ckpt /\ DueExpired(x).ckptSeq = x.ckptSeq
      /\ DueExpired(x).ckptSession = x.ckptSession
  BY <1>2 DEF RunRecord
<1> QED BY <1>3, <1>4, <1>5

LEMMA LapsedType == ASSUME NEW x \in RunRecord PROVE Lapsed(x) \in RunRecord
<1>1. DueExpired(x) \in RunRecord
  BY DueExpiredType
<1>2. Cancel(DueExpired(x), "APPROVAL_EXPIRED") \in RunRecord
  BY <1>1, CancelType DEF Reason
<1> QED BY <1>1, <1>2 DEF Lapsed

LEMMA DueIsPending ==
  ASSUME NEW x \in RunRecord, NEW a \in Due(x)
  PROVE  a \in Approvals /\ x.approval[a] = "PENDING"
  BY DEF Due, RunRecord

LEMMA TakeOverType ==
  ASSUME NEW rt \in Runtimes, NEW r, NEW x \in RunRecord, NEW bad, nextSession \in Nat
  PROVE  TakeOver(rt, r, x, bad) \in RunRecord
<1>1. Abandon(x, "RUNTIME_RECOVERY_EXHAUSTED") \in RunRecord
  BY AbandonType DEF Reason
<1>2. Abandon(x, "MANIFEST_INVALID") \in RunRecord
  BY AbandonType DEF Reason
<1>3. CASE CanTakeOver(r, x, bad)
  <2> DEFINE given == IF x.status = "RUNNING" THEN NoApproval ELSE x.latest
             count == IF x.status = "RUNNING" THEN x.recoveries + 1 ELSE x.recoveries
             z == [x EXCEPT !.runtime = rt, !.session = nextSession, !.age = 0,
                            !.delivered = given, !.recoveries = count]
  <2>1. count \in Nat
    BY DEF RunRecord
  <2>2. given \in Approvals \cup {NoApproval}
    BY DEF RunRecord
  <2>3. z \in RunRecord
    <3> HIDE DEF given, count
    <3> QED BY <2>1, <2>2 DEF RunRecord, Age
  <2> QED BY <1>1, <1>2, <1>3, <2>3 DEF TakeOver
<1>4. CASE ~CanTakeOver(r, x, bad)
  BY <1>1, <1>2, <1>4 DEF TakeOver
<1> QED BY <1>3, <1>4

LEMMA HeldVisitType ==
  ASSUME NEW rt \in Runtimes, NEW r, NEW x \in RunRecord, NEW bad, nextSession \in Nat
  PROVE  HeldVisit(rt, r, x, bad) \in RunRecord
<1>1. Abandon(x, "MANIFEST_INVALID") \in RunRecord
  BY AbandonType DEF Reason
<1>2. [x EXCEPT !.age = 0, !.delivered = x.latest] \in RunRecord
  BY DEF RunRecord, Age
<1>3. [x EXCEPT !.age = 0, !.delivered = NoApproval] \in RunRecord
  BY DEF RunRecord, Age
<1> QED BY <1>1, <1>2, <1>3, CloseType, TakeOverType DEF HeldVisit

LEMMA QueueVisitType ==
  ASSUME NEW rt \in Runtimes, NEW r, NEW x \in RunRecord, NEW bad, nextSession \in Nat
  PROVE  QueueVisit(rt, r, x, bad) \in RunRecord
<1>1. Abandon(x, "MANIFEST_INVALID") \in RunRecord
  BY AbandonType DEF Reason
<1>2. [x EXCEPT !.lease = "ACTIVE", !.runtime = rt, !.session = nextSession,
                !.age = 0, !.delivered = NoApproval] \in RunRecord
  BY DEF RunRecord, Age
<1> QED BY <1>1, <1>2 DEF QueueVisit

LEMMA WaitingStepType ==
  ASSUME NEW x \in RunRecord, NEW a \in Approvals, NEW status \in StepStatus
  PROVE  WaitingStepTo(x, a, status) \in [Steps -> StepStatus \cup {"NONE"}]
  BY DEF WaitingStepTo, RunRecord

LEMMA ApprovedType ==
  ASSUME NEW x \in RunRecord, NEW a \in Approvals
  PROVE  Approved(x, a) \in RunRecord
<1> DEFINE y == [x EXCEPT !.approval[a] = "APPROVED", !.latest = a, !.overdue = @ \ {a}]
           z == [y EXCEPT !.status = "QUEUED", !.reason = "APPROVAL_GRANTED",
                          !.step = WaitingStepTo(x, a, "PENDING")]
<1>1. y \in RunRecord
  BY DEF RunRecord
<1>2. WaitingStepTo(x, a, "PENDING") \in [Steps -> StepStatus \cup {"NONE"}]
  BY WaitingStepType DEF StepStatus
<1>3. z \in RunRecord
  <2> HIDE DEF y
  <2> QED BY <1>1, <1>2 DEF RunRecord, RunStatus, Reason
<1>4. Updated(z) \in RunRecord
  BY <1>3, UpdatedType
<1> QED BY <1>1, <1>4 DEF Approved

LEMMA RejectedType ==
  ASSUME NEW x \in RunRecord, NEW a \in Approvals
  PROVE  Rejected(x, a) \in RunRecord
<1> DEFINE y == [x EXCEPT !.approval[a] = "REJECTED", !.overdue = @ \ {a}]
           z == Stop(y, "CANCELLED", "APPROVAL_REJECTED")
<1>1. y \in RunRecord
  BY DEF RunRecord
<1>2. WaitingStepTo(x, a, "CANCELLED") \in [Steps -> StepStatus \cup {"NONE"}]
  BY WaitingStepType DEF StepStatus
<1>3. z \in RunRecord
  BY <1>1, StopType DEF TerminalRun, Reason
<1>4. [z EXCEPT !.step = WaitingStepTo(x, a, "CANCELLED")] \in RunRecord
  <2> HIDE DEF z
  <2> QED BY <1>2, <1>3 DEF RunRecord
<1> QED BY <1>1, <1>4 DEF Rejected

LEMMA EventEffectType ==
  ASSUME NEW x \in RunRecord, NEW type \in RuntimeEvent, NEW s, NEW session \in Nat,
         NEW a, MayIngest(x, type, s, session, a)
  PROVE  EventEffect(x, type, s, session, a) \in RunRecord
<1> DEFINE y == [x EXCEPT !.seq = @ + 1]
<1>1. y \in RunRecord
  BY DEF RunRecord
<1>2. ASSUME NEW status \in StepStatus, s \in Steps
      PROVE  [y EXCEPT !.step[s] = status] \in RunRecord
  <2> HIDE DEF y
  <2> QED BY <1>1, <1>2 DEF RunRecord
<1>3. CASE type \in {"step.started", "step.completed", "step.failed"}
  <2>1. s \in Steps
    BY <1>3 DEF MayIngest, StepFits
  <2> HIDE DEF y
  <2> QED BY <1>2, <1>3, <2>1 DEF EventEffect, StepStatus, y
<1>4. CASE type = "run.started"
  <2>1. [y EXCEPT !.status = "RUNNING", !.reason = None, !.startedBy = session] \in RunRecord
    <3> HIDE DEF y
    <3> QED BY <1>1 DEF RunRecord, RunStatus, Reason
  <2> QED BY <1>4, <2>1 DEF EventEffect
<1>5. CASE type = "run.resumed"
  <2>1. ResumeStep(x, a) \in [Steps -> StepStatus \cup {"NONE"}]
    BY DEF ResumeStep, RunRecord, StepStatus
  <2>2. [y EXCEPT !.status = "RUNNING", !.reason = None, !.step = ResumeStep(x, a)] \in RunRecord
    <3> HIDE DEF y
    <3> QED BY <1>1, <2>1 DEF RunRecord, RunStatus, Reason
  <2> QED BY <1>5, <2>2 DEF EventEffect
<1>6. CASE type = "run.paused"
  <2>1. [y EXCEPT !.status = "WAITING_FOR_APPROVAL", !.reason = "RUNTIME"] \in RunRecord
    <3> HIDE DEF y
    <3> QED BY <1>1 DEF RunRecord, RunStatus, Reason
  <2> QED BY <1>6, <2>1 DEF EventEffect, EventTarget
<1>7. CASE type = "other"
  BY <1>1, <1>7 DEF EventEffect
<1>8. CASE type \in {"run.completed", "run.failed", "run.cancelled"}
  <2>1. EventTarget(type) \in TerminalRun
    BY <1>8 DEF EventTarget, TerminalRun
  <2>2. Stop(y, EventTarget(type), "RUNTIME") \in RunRecord
    BY <1>1, <2>1, StopType DEF Reason
  <2>3. EventEffect(x, type, s, session, a) = Stop(y, EventTarget(type), "RUNTIME")
    BY <1>8 DEF EventEffect
  <2> QED BY <2>2, <2>3
<1> QED BY <1>3, <1>4, <1>5, <1>6, <1>7, <1>8 DEF RuntimeEvent

LEMMA RenewType == ASSUME NEW x \in RunRecord PROVE Renew(x) \in RunRecord
  BY TouchType, CloseType DEF Renew

LEMMA PausedType ==
  ASSUME NEW x \in RunRecord, NEW s \in Steps, NEW a \in Approvals
  PROVE  Paused(x, s, a) \in RunRecord
<1> DEFINE y == [x EXCEPT !.approval[a] = "PENDING", !.approvalStep[a] = s]
           z == [y EXCEPT !.step[s] = "WAITING_FOR_APPROVAL",
                          !.status = "WAITING_FOR_APPROVAL", !.reason = "APPROVAL_REQUIRED"]
<1>1. y \in RunRecord
  BY DEF RunRecord
<1>2. z \in RunRecord
  <2> HIDE DEF y
  <2> QED BY <1>1 DEF RunRecord, RunStatus, StepStatus, Reason
<1>3. Paused(x, s, a) = Updated(z)
  BY DEF Paused, RunRecord
<1> QED BY <1>2, <1>3, UpdatedType

LEMMA SavedType ==
  ASSUME NEW x \in RunRecord, NEW session \in Nat, NEW version \in Nat, NEW sequence \in Nat
  PROVE  Saved(x, session, version, sequence) \in RunRecord
<1>1. [x EXCEPT !.ckpt = version, !.ckptSession = session, !.ckptSeq = sequence] \in RunRecord
  BY DEF RunRecord
<1> QED BY <1>1, TouchType DEF Saved

-----------------------------------------------------------------------------
(* What a step of the system does to one run.                              *)

\* The three visits a claim can pay to a run, one after the other.
HeldPass(x, y) ==
  \/ y = x
  \/ /\ x.lease = "ACTIVE"
     /\ \E rt \in Runtimes, r \in Runs, bad \in SUBSET Runs : y = HeldVisit(rt, r, x, bad)

TakePass(x, y) ==
  \/ y = x
  \/ /\ Abandoned(x)
     /\ \E rt \in Runtimes, r \in Runs, bad \in SUBSET Runs : y = TakeOver(rt, r, x, bad)

QueuePass(x, y) ==
  \/ y = x
  \/ /\ Claimable(x)
     /\ \E rt \in Runtimes, r \in Runs, bad \in SUBSET Runs : y = QueueVisit(rt, r, x, bad)

ClaimPass(x, y) ==
  \E d, e \in RunRecord : HeldPass(x, d) /\ TakePass(d, e) /\ QueuePass(e, y)

DecisionMade(x, y) ==
  \E a \in Approvals :
    /\ x.approval[a] = "PENDING"
    /\ y = Approved(x, a) \/ y = Rejected(x, a) \/ (a \in Due(x) /\ y = Lapsed(x))

Request(x, y) ==
  /\ x.lease # "NONE"
  /\ \/ y = Touch(x)
     \/ \E type \in RuntimeEvents, s \in Steps \cup {NoStep}, session \in Nat, a \in Named(x) :
          /\ MayIngest(x, type, s, session, a)
          /\ y = Renew(EventEffect(x, type, s, session, a))
     \/ x.seq > 0 /\ y = Renew(x)
     \/ \E s \in Steps, a \in Approvals : MayPause(x, s, a) /\ y = Paused(x, s, a)
     \/ \E session, version, sequence \in Nat :
          MaySave(x, session, version, sequence) /\ y = Saved(x, session, version, sequence)

Created(x, y) == /\ x.status = "NONE" /\ y = [x EXCEPT !.status = "QUEUED"]
                 /\ \E r \in Runs : x = db[r] /\ CreateRun(r)
CancelledByOwner(x, y) == x.status \in ActiveRun /\ y = Cancel(x, "CANCELLED_BY_EMPLOYEE")
Late(x, y) == \E a \in Approvals : y = [x EXCEPT !.overdue = @ \cup {a}]
Aged(x, y) == x.lease = "ACTIVE" /\ x.age < 3 /\ y = [x EXCEPT !.age = @ + 1]

RecordStep(x, y) ==
  \/ y = x \/ Created(x, y) \/ CancelledByOwner(x, y) \/ DecisionMade(x, y)
  \/ Late(x, y) \/ Aged(x, y) \/ y = Reaped(x) \/ ClaimPass(x, y) \/ Request(x, y)

LEMMA HeldPassType ==
  ASSUME NEW x \in RunRecord, NEW y, HeldPass(x, y), nextSession \in Nat
  PROVE  y \in RunRecord
  BY HeldVisitType DEF HeldPass

LEMMA TakePassType ==
  ASSUME NEW x \in RunRecord, NEW y, TakePass(x, y), nextSession \in Nat
  PROVE  y \in RunRecord
  BY TakeOverType DEF TakePass

LEMMA QueuePassType ==
  ASSUME NEW x \in RunRecord, NEW y, QueuePass(x, y), nextSession \in Nat
  PROVE  y \in RunRecord
  BY QueueVisitType DEF QueuePass

\* A record step keeps the type of the record.
LEMMA RecordStepType ==
  ASSUME NEW x \in RunRecord, NEW y, RecordStep(x, y), nextSession \in Nat
  PROVE  y \in RunRecord
<1>1. CASE Created(x, y)
  BY <1>1 DEF Created, RunRecord, RunStatus
<1>2. CASE CancelledByOwner(x, y)
  BY <1>2, CancelType DEF CancelledByOwner, Reason
<1>3. CASE DecisionMade(x, y)
  BY <1>3, ApprovedType, RejectedType, LapsedType DEF DecisionMade
<1>8. CASE Late(x, y)
  BY <1>8 DEF Late, RunRecord
<1>4. CASE Aged(x, y)
  <2>1. x.age + 1 \in Age
    BY <1>4 DEF Aged, RunRecord, Age
  <2> QED BY <1>4, <2>1 DEF Aged, RunRecord
<1>5. CASE y = Reaped(x)
  BY <1>5, ReapedType
<1>6. CASE ClaimPass(x, y)
  BY <1>6, QueuePassType DEF ClaimPass
<1>7. CASE Request(x, y)
  <2>1. ASSUME NEW type \in RuntimeEvents, NEW s \in Steps \cup {NoStep}, NEW session \in Nat,
               NEW a \in Named(x), MayIngest(x, type, s, session, a)
        PROVE  Renew(EventEffect(x, type, s, session, a)) \in RunRecord
    <3>1. type \in RuntimeEvent
      BY TransportAssumption
    <3> QED BY <2>1, <3>1, EventEffectType, RenewType
  <2> QED BY <1>7, <2>1, TouchType, RenewType, PausedType, SavedType DEF Request
<1> QED BY <1>1, <1>2, <1>3, <1>4, <1>5, <1>6, <1>7, <1>8 DEF RecordStep

LEMMA AfterHeldPass ==
  ASSUME db \in [Runs -> RunRecord], nextSession \in Nat,
         NEW rt \in Runtimes, NEW seen \in SUBSET HeldBy(rt), NEW bad \in SUBSET Runs
  PROVE  /\ AfterHeld(rt, seen, bad) \in [Runs -> RunRecord]
         /\ \A r \in Runs : HeldPass(db[r], AfterHeld(rt, seen, bad)[r])
<1> SUFFICES ASSUME NEW r \in Runs
             PROVE  /\ AfterHeld(rt, seen, bad)[r] \in RunRecord
                    /\ HeldPass(db[r], AfterHeld(rt, seen, bad)[r])
  BY DEF AfterHeld
<1>1. CASE r \in seen
  <2>1. db[r].lease = "ACTIVE"
    BY <1>1 DEF HeldBy
  <2>2. AfterHeld(rt, seen, bad)[r] = HeldVisit(rt, r, db[r], bad)
    BY <1>1 DEF AfterHeld
  <2>3. HeldPass(db[r], AfterHeld(rt, seen, bad)[r])
    BY <2>1, <2>2 DEF HeldPass
  <2> QED BY <2>3, HeldPassType
<1>2. CASE r \notin seen
  BY <1>2 DEF AfterHeld, HeldPass
<1> QED BY <1>1, <1>2

LEMMA AfterAbandonedPass ==
  ASSUME NEW d \in [Runs -> RunRecord], nextSession \in Nat,
         NEW rt \in Runtimes, NEW seen \in SUBSET AbandonedFor(rt, d), NEW bad \in SUBSET Runs
  PROVE  /\ AfterAbandoned(rt, d, seen, bad) \in [Runs -> RunRecord]
         /\ \A r \in Runs : TakePass(d[r], AfterAbandoned(rt, d, seen, bad)[r])
<1> SUFFICES ASSUME NEW r \in Runs
             PROVE  /\ AfterAbandoned(rt, d, seen, bad)[r] \in RunRecord
                    /\ TakePass(d[r], AfterAbandoned(rt, d, seen, bad)[r])
  BY DEF AfterAbandoned
<1>1. CASE r \in seen
  <2>1. Abandoned(d[r])
    BY <1>1 DEF AbandonedFor
  <2>2. AfterAbandoned(rt, d, seen, bad)[r] = TakeOver(rt, r, d[r], bad)
    BY <1>1 DEF AfterAbandoned
  <2>3. TakePass(d[r], AfterAbandoned(rt, d, seen, bad)[r])
    BY <2>1, <2>2 DEF TakePass
  <2> QED BY <2>3, TakePassType
<1>2. CASE r \notin seen
  BY <1>2 DEF AfterAbandoned, TakePass
<1> QED BY <1>1, <1>2

LEMMA AfterQueuedPass ==
  ASSUME NEW d \in [Runs -> RunRecord], nextSession \in Nat,
         NEW rt \in Runtimes, NEW seen \in SUBSET ClaimableFor(rt, d), NEW bad \in SUBSET Runs
  PROVE  /\ AfterQueued(rt, d, seen, bad) \in [Runs -> RunRecord]
         /\ \A r \in Runs : QueuePass(d[r], AfterQueued(rt, d, seen, bad)[r])
<1> SUFFICES ASSUME NEW r \in Runs
             PROVE  /\ AfterQueued(rt, d, seen, bad)[r] \in RunRecord
                    /\ QueuePass(d[r], AfterQueued(rt, d, seen, bad)[r])
  BY DEF AfterQueued
<1>1. CASE r \in seen
  <2>1. Claimable(d[r])
    BY <1>1 DEF ClaimableFor
  <2>2. AfterQueued(rt, d, seen, bad)[r] = QueueVisit(rt, r, d[r], bad)
    BY <1>1 DEF AfterQueued
  <2>3. QueuePass(d[r], AfterQueued(rt, d, seen, bad)[r])
    BY <2>1, <2>2 DEF QueuePass
  <2> QED BY <2>3, QueuePassType
<1>2. CASE r \notin seen
  BY <1>2 DEF AfterQueued, QueuePass
<1> QED BY <1>1, <1>2

\* Only a visit that answers with a command hands the run to a new session.
LEMMA AbandonSession ==
  ASSUME NEW x \in RunRecord, NEW why PROVE Abandon(x, why).session = x.session
  BY DEF Abandon, Cancel, Stop, Close, RunRecord

LEMMA TakeOverSession ==
  ASSUME NEW rt, NEW r, NEW x \in RunRecord, NEW bad
  PROVE  /\ TakeOver(rt, r, x, bad).session \in {x.session, nextSession}
         /\ ~CanTakeOver(r, x, bad) => TakeOver(rt, r, x, bad).session = x.session
<1>1. CASE CanTakeOver(r, x, bad)
  BY <1>1, AbandonSession DEF TakeOver, CanTakeOver, RunRecord
<1>2. CASE ~CanTakeOver(r, x, bad)
  BY <1>2, AbandonSession DEF TakeOver
<1> QED BY <1>1, <1>2

LEMMA HeldVisitSession ==
  ASSUME NEW rt, NEW r, NEW x \in RunRecord, NEW bad
  PROVE  /\ HeldVisit(rt, r, x, bad).session \in {x.session, nextSession}
         /\ HeldAnswer(rt, r, x, bad) # "run.recover" =>
              HeldVisit(rt, r, x, bad).session = x.session
<1> DEFINE v == HeldVisit(rt, r, x, bad)
<1>1. CASE Terminal(x)
  <2>1. HeldAnswer(rt, r, x, bad) # "run.resume"
    BY <1>1 DEF HeldAnswer, Terminal, TerminalRun, Granted, Unstarted
  <2>2. v = Close(x)
    BY <1>1, <2>1 DEF HeldVisit, Terminal, TerminalRun, Unstarted
  <2> QED BY <2>2 DEF Close, RunRecord
<1>2. CASE ~Terminal(x) /\ Served(rt, r) /\ x.status = "RUNNING" /\ x.age >= 2
  <2>1. v = TakeOver(rt, r, x, bad)
    <3>1. HeldAnswer(rt, r, x, bad) # "run.resume"
      BY <1>2 DEF HeldAnswer, Granted, Unstarted
    <3> QED BY <1>2, <3>1 DEF HeldVisit, Unstarted
  <2>2. CanTakeOver(r, x, bad) => HeldAnswer(rt, r, x, bad) = "run.recover"
    BY <1>2 DEF HeldAnswer, Granted, Unstarted
  <2> QED BY <2>1, <2>2, TakeOverSession
<1>3. CASE ~Terminal(x) /\ ~(Served(rt, r) /\ x.status = "RUNNING" /\ x.age >= 2)
  <2>1. /\ [x EXCEPT !.age = 0, !.delivered = x.latest].session = x.session
        /\ [x EXCEPT !.age = 0, !.delivered = NoApproval].session = x.session
    BY DEF RunRecord
  <2>2. v \in {x, Abandon(x, "MANIFEST_INVALID"), [x EXCEPT !.age = 0, !.delivered = x.latest],
               [x EXCEPT !.age = 0, !.delivered = NoApproval]}
    BY <1>3 DEF HeldVisit
  <2> QED BY <2>1, <2>2, AbandonSession
<1> QED BY <1>1, <1>2, <1>3

\* What a step may do to the sessions: a run changes hands with the one session
\* the step uses up.
SessionStep(x, y) ==
  \/ y.session = x.session
  \/ y.session = nextSession /\ nextSession' = nextSession + 1

\* Every step of the system is a record step of every run.
RecordsShape ==
  /\ db' \in [Runs -> RunRecord]
  /\ nextSession' \in {nextSession, nextSession + 1}
  /\ \A r \in Runs : RecordStep(db[r], db'[r]) /\ SessionStep(db[r], db'[r])

\* A claim visits the runs it passes and does nothing else to them.
ClaimsShape == RecordsShape /\ \A r \in Runs : ClaimPass(db[r], db'[r])

StepShape == RecordsShape /\ poll' \in [Runtimes -> {"idle", "expired", "reaped"}]

\* A step that applies a function to the record of one run.
LEMMA PutShape ==
  ASSUME TypeOK, NEW r \in Runs, NEW y, Put(r, y), RecordStep(db[r], y), y.session = db[r].session,
         nextSession' = nextSession, poll' = poll
  PROVE  StepShape
<1>1. y \in RunRecord
  BY RecordStepType DEF TypeOK
<1>2. \A q \in Runs : db'[q] = IF q = r THEN y ELSE db[q]
  BY DEF Put, TypeOK
<1>3. \A q \in Runs : RecordStep(db[q], db'[q]) /\ SessionStep(db[q], db'[q])
  BY <1>2 DEF RecordStep, SessionStep
<1> QED BY <1>1, <1>3 DEF Put, TypeOK, StepShape, RecordsShape

LEMMA ReapShape ==
  ASSUME TypeOK, ReapAll
  PROVE  /\ db' \in [Runs -> RunRecord]
         /\ \A r \in Runs : RecordStep(db[r], db'[r]) /\ SessionStep(db[r], db'[r])
<1> SUFFICES ASSUME NEW r \in Runs
             PROVE  /\ db'[r] \in RunRecord
                    /\ RecordStep(db[r], db'[r]) /\ SessionStep(db[r], db'[r])
  BY DEF ReapAll
<1>1. db[r] \in RunRecord /\ db'[r] = Reaped(db[r])
  BY DEF TypeOK, ReapAll
<1>2. Reaped(db[r]).session = db[r].session
  BY <1>1, AbandonSession DEF Reaped
<1>3. RecordStep(db[r], Reaped(db[r]))
  BY DEF RecordStep
<1> QED BY <1>1, <1>2, <1>3, ReapedType DEF SessionStep

LEMMA SilentHeldSession ==
  ASSUME TypeOK, NEW rt \in Runtimes, NEW bad \in SUBSET Runs, HeldBy(rt) = SilentHeld(rt, bad),
         NEW q \in Runs
  PROVE  AfterHeld(rt, HeldBy(rt), bad)[q].session = db[q].session
<1>1. CASE q \in HeldBy(rt)
  <2>1. HeldAnswer(rt, q, db[q], bad) = "none"
    BY <1>1 DEF SilentHeld
  <2>2. AfterHeld(rt, HeldBy(rt), bad)[q] = HeldVisit(rt, q, db[q], bad)
    BY <1>1 DEF AfterHeld
  <2>3. db[q] \in RunRecord
    BY DEF TypeOK
  <2> QED BY <2>1, <2>2, <2>3, HeldVisitSession
<1>2. CASE q \notin HeldBy(rt)
  BY <1>2 DEF AfterHeld
<1> QED BY <1>1, <1>2

LEMMA ClaimHeldShape ==
  ASSUME TypeOK, NEW rt \in Runtimes, NEW r \in Runs, NEW before \in SUBSET Runs, NEW bad \in SUBSET Runs,
         NEW command, ClaimHeld(rt, r, before, bad, command)
  PROVE  ClaimsShape
<1> DEFINE seen == before \cup {r}
<1>1. seen \in SUBSET HeldBy(rt) /\ db' = AfterHeld(rt, seen, bad)
  BY DEF ClaimHeld, SilentHeld
<1>2. /\ db' \in [Runs -> RunRecord]
      /\ \A q \in Runs : HeldPass(db[q], db'[q])
  BY <1>1, AfterHeldPass DEF TypeOK
<1>3. ASSUME NEW q \in Runs PROVE ClaimPass(db[q], db'[q]) /\ RecordStep(db[q], db'[q])
  <2>1. HeldPass(db[q], db'[q]) /\ TakePass(db'[q], db'[q]) /\ QueuePass(db'[q], db'[q])
    BY <1>2 DEF TakePass, QueuePass
  <2>2. ClaimPass(db[q], db'[q])
    BY <1>2, <2>1 DEF ClaimPass
  <2> QED BY <2>2 DEF RecordStep
<1>4. ASSUME NEW q \in Runs PROVE SessionStep(db[q], db'[q])
  <2>1. CASE q \in seen
    <3>1. db'[q] = HeldVisit(rt, q, db[q], bad)
      BY <1>1, <2>1 DEF AfterHeld
    <3>2. HeldAnswer(rt, q, db[q], bad) = "run.recover" => nextSession' = nextSession + 1
      BY <2>1 DEF ClaimHeld, SilentHeld
    <3>3. db[q] \in RunRecord
      BY DEF TypeOK
    <3> QED BY <3>1, <3>2, <3>3, HeldVisitSession DEF SessionStep
  <2>2. CASE q \notin seen
    BY <1>1, <2>2 DEF AfterHeld, SessionStep
  <2> QED BY <2>1, <2>2
<1> QED BY <1>2, <1>3, <1>4 DEF ClaimsShape, RecordsShape, ClaimHeld, TypeOK

LEMMA ClaimAbandonedShape ==
  ASSUME TypeOK, NEW rt \in Runtimes, NEW r \in Runs, NEW before \in SUBSET Runs, NEW bad \in SUBSET Runs,
         ClaimAbandoned(rt, r, before, bad)
  PROVE  ClaimsShape
<1> DEFINE d == AfterHeld(rt, HeldBy(rt), bad)
           seen == before \cup {r}
<1>1. /\ HeldBy(rt) = SilentHeld(rt, bad)
      /\ seen \in SUBSET AbandonedFor(rt, d)
      /\ \A q \in before : ~CanTakeOver(q, d[q], bad)
      /\ db' = AfterAbandoned(rt, d, seen, bad)
      /\ nextSession' = nextSession + 1
  BY DEF ClaimAbandoned
<1>2. /\ d \in [Runs -> RunRecord]
      /\ \A q \in Runs : HeldPass(db[q], d[q])
  BY AfterHeldPass DEF TypeOK
<1>3. /\ db' \in [Runs -> RunRecord]
      /\ \A q \in Runs : TakePass(d[q], db'[q])
  <2> HIDE DEF d, seen
  <2> QED BY <1>1, <1>2, AfterAbandonedPass DEF TypeOK
<1>4. ASSUME NEW q \in Runs PROVE ClaimPass(db[q], db'[q]) /\ RecordStep(db[q], db'[q])
  <2>1. HeldPass(db[q], d[q]) /\ TakePass(d[q], db'[q]) /\ QueuePass(db'[q], db'[q])
    BY <1>2, <1>3 DEF QueuePass
  <2> HIDE DEF d
  <2>2. ClaimPass(db[q], db'[q])
    BY <1>2, <1>3, <2>1 DEF ClaimPass
  <2> QED BY <2>2 DEF RecordStep
<1>5. ASSUME NEW q \in Runs PROVE d[q].session = db[q].session
  BY <1>1, SilentHeldSession
<1>6. ASSUME NEW q \in Runs PROVE SessionStep(db[q], db'[q])
  <2> HIDE DEF d
  <2>1. CASE q \in seen
    <3>1. db'[q] = TakeOver(rt, q, d[q], bad)
      BY <1>1, <2>1 DEF AfterAbandoned
    <3>2. d[q] \in RunRecord
      BY <1>2
    <3> QED BY <1>1, <1>5, <3>1, <3>2, TakeOverSession DEF SessionStep
  <2>2. CASE q \notin seen
    BY <1>1, <1>5, <2>2 DEF AfterAbandoned, SessionStep
  <2> QED BY <2>1, <2>2
<1> QED BY <1>1, <1>3, <1>4, <1>6 DEF ClaimsShape, RecordsShape, ClaimAbandoned, TypeOK

\* The runs left by the two loops that answered nothing, as the third finds them.
LEMMA QuietLoops ==
  ASSUME TypeOK, NEW rt \in Runtimes, NEW bad \in SUBSET Runs, HeldBy(rt) = SilentHeld(rt, bad),
         NEW d, d = AfterHeld(rt, HeldBy(rt), bad),
         NEW e, e = AfterAbandoned(rt, d, AbandonedFor(rt, d), bad),
         \A q \in AbandonedFor(rt, d) : ~CanTakeOver(q, d[q], bad)
  PROVE  /\ d \in [Runs -> RunRecord] /\ e \in [Runs -> RunRecord]
         /\ \A q \in Runs : /\ HeldPass(db[q], d[q]) /\ TakePass(d[q], e[q])
                             /\ e[q].session = db[q].session
<1>1. /\ d \in [Runs -> RunRecord]
      /\ \A q \in Runs : HeldPass(db[q], d[q])
  BY AfterHeldPass DEF TypeOK
<1>2. /\ e \in [Runs -> RunRecord]
      /\ \A q \in Runs : TakePass(d[q], e[q])
  BY <1>1, AfterAbandonedPass DEF TypeOK
<1>3. ASSUME NEW q \in Runs PROVE e[q].session = db[q].session
  <2>1. d[q].session = db[q].session
    BY SilentHeldSession
  <2>2. CASE q \in AbandonedFor(rt, d)
    <3>1. e[q] = TakeOver(rt, q, d[q], bad)
      BY <2>2 DEF AfterAbandoned
    <3>2. d[q] \in RunRecord /\ ~CanTakeOver(q, d[q], bad)
      BY <1>1, <2>2
    <3> QED BY <2>1, <3>1, <3>2, TakeOverSession
  <2>3. CASE q \notin AbandonedFor(rt, d)
    BY <2>1, <2>3 DEF AfterAbandoned
  <2> QED BY <2>2, <2>3
<1> QED BY <1>1, <1>2, <1>3

LEMMA QueueLoopShape ==
  ASSUME TypeOK, NEW rt \in Runtimes, NEW bad \in SUBSET Runs, NEW d, NEW e, NEW seen,
         d = AfterHeld(rt, HeldBy(rt), bad), e = AfterAbandoned(rt, d, AbandonedFor(rt, d), bad),
         HeldBy(rt) = SilentHeld(rt, bad),
         \A q \in AbandonedFor(rt, d) : ~CanTakeOver(q, d[q], bad),
         seen \in SUBSET ClaimableFor(rt, e),
         nextSession' = nextSession => seen \subseteq bad,
         nextSession' \in {nextSession, nextSession + 1},
         db' = AfterQueued(rt, e, seen, bad)
  PROVE  ClaimsShape
<1>1. nextSession \in Nat
  BY DEF TypeOK
<1>2. /\ HeldBy(rt) = SilentHeld(rt, bad)
      /\ seen \in SUBSET ClaimableFor(rt, e)
      /\ nextSession' = nextSession => seen \subseteq bad
      /\ nextSession' \in {nextSession, nextSession + 1}
      /\ db' = AfterQueued(rt, e, seen, bad)
  OBVIOUS
<1>3. /\ d \in [Runs -> RunRecord] /\ e \in [Runs -> RunRecord]
      /\ \A q \in Runs : /\ HeldPass(db[q], d[q]) /\ TakePass(d[q], e[q])
                          /\ e[q].session = db[q].session
  BY QuietLoops
<1>4. /\ db' \in [Runs -> RunRecord]
      /\ \A q \in Runs : QueuePass(e[q], db'[q])
  <2>1. /\ AfterQueued(rt, e, seen, bad) \in [Runs -> RunRecord]
        /\ \A q \in Runs : QueuePass(e[q], AfterQueued(rt, e, seen, bad)[q])
    <3>1. e \in [Runs -> RunRecord] /\ seen \in SUBSET ClaimableFor(rt, e)
      BY <1>2, <1>3
    <3> QED BY ONLY <1>1, <3>1, AfterQueuedPass, rt \in Runtimes, bad \in SUBSET Runs
  <2> QED BY <1>2, <2>1
<1>5. ASSUME NEW q \in Runs PROVE ClaimPass(db[q], db'[q]) /\ RecordStep(db[q], db'[q])
  <2>1. ClaimPass(db[q], db'[q])
    BY <1>3, <1>4 DEF ClaimPass
  <2> QED BY <2>1 DEF RecordStep
<1>6. ASSUME NEW q \in Runs PROVE SessionStep(db[q], db'[q])
  <2>1. CASE q \in seen
    <3>1. db'[q] = QueueVisit(rt, q, e[q], bad)
      BY <1>2, <2>1 DEF AfterQueued
    <3>2. CASE q \in bad
      BY <1>3, <3>1, <3>2, AbandonSession DEF QueueVisit, SessionStep
    <3>3. CASE q \notin bad
      <4>1. nextSession' = nextSession + 1
        BY <1>2, <2>1, <3>3
      <4>2. db'[q].session = nextSession
        BY <1>3, <3>1, <3>3 DEF QueueVisit, RunRecord
      <4> QED BY <4>1, <4>2 DEF SessionStep
    <3> QED BY <3>2, <3>3
  <2>2. CASE q \notin seen
    BY <1>2, <1>3, <2>2 DEF AfterQueued, SessionStep
  <2> QED BY <2>1, <2>2
<1> QED BY <1>2, <1>4, <1>5, <1>6 DEF ClaimsShape, RecordsShape

LEMMA ClaimQueuedShape ==
  ASSUME TypeOK, NEW rt \in Runtimes, NEW r \in Runs, NEW before \in SUBSET Runs, NEW bad \in SUBSET Runs,
         ClaimQueued(rt, r, before, bad)
  PROVE  ClaimsShape
<1> DEFINE d == AfterHeld(rt, HeldBy(rt), bad)
           e == AfterAbandoned(rt, d, AbandonedFor(rt, d), bad)
<1>1. /\ HeldBy(rt) = SilentHeld(rt, bad)
      /\ \A q \in AbandonedFor(rt, d) : ~CanTakeOver(q, d[q], bad)
      /\ before \cup {r} \in SUBSET ClaimableFor(rt, e)
      /\ nextSession' # nextSession /\ nextSession' = nextSession + 1
      /\ db' = AfterQueued(rt, e, before \cup {r}, bad)
  BY DEF ClaimQueued, TypeOK
<1> HIDE DEF d, e
<1> QED BY <1>1, QueueLoopShape DEF d, e

LEMMA ClaimNothingShape ==
  ASSUME TypeOK, NEW rt \in Runtimes, NEW bad \in SUBSET Runs, ClaimNothing(rt, bad)
  PROVE  ClaimsShape
<1> DEFINE d == AfterHeld(rt, HeldBy(rt), bad)
           e == AfterAbandoned(rt, d, AbandonedFor(rt, d), bad)
<1>1. /\ HeldBy(rt) = SilentHeld(rt, bad)
      /\ \A q \in AbandonedFor(rt, d) : ~CanTakeOver(q, d[q], bad)
      /\ ClaimableFor(rt, e) \subseteq bad
      /\ nextSession' = nextSession
      /\ db' = AfterQueued(rt, e, ClaimableFor(rt, e), bad)
  BY DEF ClaimNothing
<1> HIDE DEF d, e
<1> QED BY <1>1, QueueLoopShape DEF d, e

LEMMA RequestShape ==
  ASSUME TypeOK, NEW rt \in Runtimes, RuntimeRequest(rt)
  PROVE  StepShape
<1> USE DEF TypeOK
<1>1. ASSUME NEW named \in SUBSET Runs, Heartbeat(rt, named)
      PROVE  StepShape
  <2>1. ASSUME NEW r \in Runs
        PROVE  /\ db'[r] \in RunRecord
               /\ RecordStep(db[r], db'[r]) /\ SessionStep(db[r], db'[r])
    <3>1. CASE r \in named \cap HeldBy(rt)
      <4>1. db'[r] = Touch(db[r]) /\ db[r].lease # "NONE" /\ db[r] \in RunRecord
        BY <1>1, <3>1 DEF Heartbeat, HeldBy
      <4>2. Touch(db[r]).session = db[r].session
        BY <4>1 DEF Touch, RunRecord
      <4> QED BY <4>1, <4>2, TouchType DEF RecordStep, Request, SessionStep
    <3>2. CASE r \notin named \cap HeldBy(rt)
      BY <1>1, <3>2 DEF Heartbeat, RecordStep, SessionStep
    <3> QED BY <3>1, <3>2
  <2>2. db' \in [Runs -> RunRecord]
    BY <1>1, <2>1 DEF Heartbeat
  <2> QED BY <1>1, <2>1, <2>2 DEF Heartbeat, StepShape, RecordsShape
<1>2. ASSUME NEW r \in Runs, Owns(rt, r) PROVE db[r] \in RunRecord /\ db[r].lease # "NONE"
  BY <1>2 DEF Owns
<1>3. ASSUME NEW r \in Runs, NEW type \in RuntimeEvents, NEW s \in Steps \cup {NoStep},
             NEW session \in 1..MaxSession, NEW a \in Named(db[r]), Ingest(rt, r, type, s, session, a)
      PROVE  StepShape
  <2> DEFINE x == db[r]
             y == Renew(EventEffect(x, type, s, session, a))
  <2>1. Owns(rt, r) /\ MayIngest(x, type, s, session, a) /\ Put(r, y)
        /\ nextSession' = nextSession /\ poll' = poll
    BY <1>3 DEF Ingest
  <2>2. session \in Nat /\ type \in RuntimeEvent
    BY TransportAssumption
  <2>3. Request(x, y)
    BY <1>2, <2>1, <2>2 DEF Request
  <2>4. EventEffect(x, type, s, session, a) \in RunRecord
    BY <1>2, <2>1, <2>2, EventEffectType
  <2>5. EventEffect(x, type, s, session, a).session = x.session
    BY <1>2, <2>1 DEF EventEffect, Stop, RunRecord
  <2>6. y.session = x.session
    BY <2>4, <2>5 DEF Renew, Close, Touch, RunRecord
  <2>7. RecordStep(x, y)
    BY <2>3 DEF RecordStep
  <2> HIDE DEF y
  <2> QED BY <2>1, <2>6, <2>7, PutShape
<1>4. ASSUME NEW r \in Runs, IngestDuplicate(rt, r)
      PROVE  StepShape
  <2>1. Owns(rt, r) /\ db[r].seq > 0 /\ Put(r, Renew(db[r])) /\ nextSession' = nextSession /\ poll' = poll
    BY <1>4 DEF IngestDuplicate
  <2>2. RecordStep(db[r], Renew(db[r]))
    BY <1>2, <2>1 DEF RecordStep, Request
  <2>3. Renew(db[r]).session = db[r].session
    BY <1>2, <2>1 DEF Renew, Close, Touch, RunRecord
  <2> QED BY <2>1, <2>2, <2>3, PutShape
<1>5. ASSUME NEW r \in Runs, NEW s \in Steps, NEW a \in Approvals, PauseForApproval(rt, r, s, a)
      PROVE  StepShape
  <2>1. Owns(rt, r) /\ MayPause(db[r], s, a) /\ Put(r, Paused(db[r], s, a))
        /\ nextSession' = nextSession /\ poll' = poll
    BY <1>5 DEF PauseForApproval
  <2>2. RecordStep(db[r], Paused(db[r], s, a))
    BY <1>2, <2>1 DEF RecordStep, Request
  <2>3. Paused(db[r], s, a).session = db[r].session
    BY <1>2, <2>1 DEF Paused, Updated, RunRecord
  <2> QED BY <2>1, <2>2, <2>3, PutShape
<1>6. ASSUME NEW r \in Runs, NEW session \in 1..MaxSession, NEW version \in 1..MaxCheckpoint,
             NEW sequence \in 0..MaxSequence, SaveCheckpoint(rt, r, session, version, sequence)
      PROVE  StepShape
  <2>1. Owns(rt, r) /\ MaySave(db[r], session, version, sequence)
        /\ Put(r, Saved(db[r], session, version, sequence)) /\ nextSession' = nextSession /\ poll' = poll
    BY <1>6 DEF SaveCheckpoint
  <2>2. session \in Nat /\ version \in Nat /\ sequence \in Nat
    BY TransportAssumption
  <2>3. RecordStep(db[r], Saved(db[r], session, version, sequence))
    BY <1>2, <2>1, <2>2 DEF RecordStep, Request
  <2>4. Saved(db[r], session, version, sequence).session = db[r].session
    BY <1>2, <2>1 DEF Saved, Touch, RunRecord
  <2> QED BY <2>1, <2>3, <2>4, PutShape
<1> QED BY <1>1, <1>3, <1>4, <1>5, <1>6 DEF RuntimeRequest

\* The lemma the invariants are proved from: whatever Next does, it does to each
\* run by a record step.
LEMMA NextShape ==
  ASSUME TypeOK, Next
  PROVE  StepShape
<1> USE DEF TypeOK
<1>1. ASSUME NEW r \in Runs, CreateRun(r) PROVE StepShape
  <2> DEFINE y == [db[r] EXCEPT !.status = "QUEUED"]
  <2>1. db[r].status = "NONE" /\ y.session = db[r].session
    BY <1>1 DEF CreateRun, RunRecord
  <2>2. RecordStep(db[r], y)
    BY <1>1, <2>1 DEF RecordStep, Created
  <2> HIDE DEF y
  <2> QED BY <1>1, <2>1, <2>2, PutShape DEF CreateRun, y
<1>2. ASSUME NEW r \in Runs, CancelOwnRun(r) PROVE StepShape
  <2> DEFINE y == Cancel(db[r], "CANCELLED_BY_EMPLOYEE")
  <2>1. RecordStep(db[r], y)
    BY <1>2 DEF CancelOwnRun, RecordStep, CancelledByOwner
  <2>2. y.session = db[r].session
    BY DEF Cancel, Stop, RunRecord
  <2> QED BY <1>2, <2>1, <2>2, PutShape DEF CancelOwnRun
<1>3. ASSUME NEW r \in Runs, Tick(r) PROVE StepShape
  <2> DEFINE y == [db[r] EXCEPT !.age = @ + 1]
  <2>1. RecordStep(db[r], y) /\ y.session = db[r].session
    BY <1>3 DEF Tick, RecordStep, Aged, RunRecord
  <2> QED BY <1>3, <2>1, PutShape DEF Tick
<1>4. ASSUME NEW r \in Runs, NEW a \in Approvals, Approve(r, a) PROVE StepShape
  <2>1. RecordStep(db[r], Approved(db[r], a))
    BY <1>4 DEF Approve, RecordStep, DecisionMade
  <2>2. Approved(db[r], a).session = db[r].session
    BY DEF Approved, Updated, RunRecord
  <2> QED BY <1>4, <2>1, <2>2, PutShape DEF Approve
<1>5. ASSUME NEW r \in Runs, NEW a \in Approvals, Reject(r, a) PROVE StepShape
  <2>1. RecordStep(db[r], Rejected(db[r], a))
    BY <1>5 DEF Reject, RecordStep, DecisionMade
  <2>2. Rejected(db[r], a).session = db[r].session
    BY DEF Rejected, Stop, RunRecord
  <2> QED BY <1>5, <2>1, <2>2, PutShape DEF Reject
<1>11. ASSUME NEW r \in Runs, NEW a \in Approvals, Deadline(r, a) PROVE StepShape
  <2> DEFINE y == [db[r] EXCEPT !.overdue = @ \cup {a}]
  <2>1. y.session = db[r].session
    BY DEF RunRecord
  <2>2. Late(db[r], y)
    BY DEF Late
  <2>3. RecordStep(db[r], y)
    BY <2>2 DEF RecordStep
  <2> QED BY <1>11, <2>1, <2>3, PutShape DEF Deadline
<1>12. ASSUME NEW r \in Runs
       PROVE  RecordStep(db[r], Lapsed(db[r])) /\ SessionStep(db[r], Lapsed(db[r]))
  <2>1. Lapsed(db[r]).session = db[r].session
    BY DueExpiredType, CancelFacts DEF Lapsed, Reason
  <2>2. CASE Due(db[r]) = {}
    BY <2>1, <2>2 DEF Lapsed, RecordStep, SessionStep
  <2>3. ASSUME NEW a \in Due(db[r]) PROVE DecisionMade(db[r], Lapsed(db[r]))
    BY <2>3, DueIsPending DEF DecisionMade
  <2> QED BY <2>1, <2>2, <2>3 DEF RecordStep, SessionStep
<1>6. ASSUME NEW due \in SUBSET Runs, ExpireDue(due) PROVE StepShape
  <2>1. ASSUME NEW r \in Runs
        PROVE  /\ db'[r] \in RunRecord
               /\ RecordStep(db[r], db'[r]) /\ SessionStep(db[r], db'[r])
    <3>1. db'[r] = IF r \in due THEN Lapsed(db[r]) ELSE db[r]
      BY <1>6 DEF ExpireDue
    <3> QED BY <1>12, <3>1, LapsedType DEF RecordStep, SessionStep
  <2>2. db' \in [Runs -> RunRecord]
    BY <1>6, <2>1 DEF ExpireDue
  <2> QED BY <1>6, <2>1, <2>2 DEF ExpireDue, StepShape, RecordsShape
<1>13. ASSUME NEW rt \in Runtimes, ClaimExpire(rt) PROVE StepShape
  <2>1. ASSUME NEW r \in Runs
        PROVE  /\ db'[r] \in RunRecord
               /\ RecordStep(db[r], db'[r]) /\ SessionStep(db[r], db'[r])
    BY <1>12, <1>13, LapsedType DEF ClaimExpire
  <2>2. db' \in [Runs -> RunRecord]
    BY <1>13, <2>1 DEF ClaimExpire
  <2> QED BY <1>13, <2>1, <2>2 DEF ClaimExpire, StepShape, RecordsShape
<1>7. ASSUME Housekeeping PROVE StepShape
  BY <1>7, ReapShape DEF Housekeeping, StepShape, RecordsShape
<1>8. ASSUME NEW rt \in Runtimes, ClaimReap(rt) PROVE StepShape
  BY <1>8, ReapShape DEF ClaimReap, StepShape, RecordsShape
<1>9. ASSUME NEW rt \in Runtimes, Claim(rt) PROVE StepShape
  <2>1. RecordsShape
    BY <1>9, ClaimHeldShape, ClaimAbandonedShape, ClaimQueuedShape, ClaimNothingShape DEF Claim, ClaimsShape
  <2> QED BY <1>9, <2>1 DEF Claim, ClaimStep, StepShape
<1>10. ASSUME RestartApi PROVE StepShape
  BY <1>10 DEF RestartApi, StepShape, RecordsShape, RecordStep, SessionStep
<1> QED BY <1>1, <1>2, <1>3, <1>4, <1>5, <1>6, <1>7, <1>8, <1>9, <1>10,
       <1>11, <1>13, RequestShape DEF Next
-----------------------------------------------------------------------------
(* The type invariant, and with it the bound on recoveries.                *)

\* The records of a run in use and of one that is being ended: what closes,
\* cancels or renews a run counts no recovery.
LEMMA RecoveriesKept ==
  ASSUME NEW x \in RunRecord
  PROVE  /\ Touch(x).recoveries = x.recoveries
         /\ Close(x).recoveries = x.recoveries
         /\ Updated(x).recoveries = x.recoveries
         /\ Renew(x).recoveries = x.recoveries
         /\ \A status, why : Stop(x, status, why).recoveries = x.recoveries
         /\ \A why : Cancel(x, why).recoveries = x.recoveries
         /\ \A why \in Reason : Abandon(x, why).recoveries = x.recoveries
<1>1. /\ Touch(x).recoveries = x.recoveries
      /\ Close(x).recoveries = x.recoveries
      /\ Updated(x).recoveries = x.recoveries
  BY DEF Touch, Close, Updated, RunRecord
<1>2. \A status, why : Stop(x, status, why).recoveries = x.recoveries
  BY DEF Stop, RunRecord
<1>3. \A why : Cancel(x, why).recoveries = x.recoveries
  BY DEF Cancel, Stop, RunRecord
<1>4. ASSUME NEW why \in Reason PROVE Abandon(x, why).recoveries = x.recoveries
  <2> DEFINE c == Cancel(x, why)
  <2>1. c \in RunRecord /\ c.recoveries = x.recoveries
    BY <1>3, CancelType
  <2> HIDE DEF c
  <2>2. Close(c).recoveries = c.recoveries
    BY <2>1 DEF Close, RunRecord
  <2> QED BY <2>1, <2>2 DEF Abandon, c
<1> QED BY <1>1, <1>2, <1>3, <1>4 DEF Renew

\* Only a take-over of a running run counts one, and it asks for room first.
LEMMA TakeOverRecoveries ==
  ASSUME NEW rt \in Runtimes, NEW r \in Runs, NEW bad \in SUBSET Runs, NEW x \in RunRecord,
         x.recoveries <= MAX_RUN_RECOVERIES
  PROVE  TakeOver(rt, r, x, bad).recoveries <= MAX_RUN_RECOVERIES
<1>1. /\ Abandon(x, "RUNTIME_RECOVERY_EXHAUSTED").recoveries = x.recoveries
      /\ Abandon(x, "MANIFEST_INVALID").recoveries = x.recoveries
  BY RecoveriesKept DEF Reason
<1>2. CASE CanTakeOver(r, x, bad) /\ x.status = "RUNNING"
  <2>1. x.recoveries + 1 <= MAX_RUN_RECOVERIES
    BY <1>2, TransportAssumption DEF CanTakeOver, RecoveriesSpent, RunRecord
  <2>2. TakeOver(rt, r, x, bad).recoveries = x.recoveries + 1
    BY <1>2 DEF TakeOver, CanTakeOver, RecoveriesSpent, RunRecord
  <2> QED BY <2>1, <2>2
<1>3. CASE CanTakeOver(r, x, bad) /\ x.status # "RUNNING"
  <2>1. TakeOver(rt, r, x, bad).recoveries = x.recoveries
    BY <1>3 DEF TakeOver, CanTakeOver, RunRecord
  <2> QED BY <2>1
<1>4. CASE ~CanTakeOver(r, x, bad)
  BY <1>1, <1>4 DEF TakeOver
<1> QED BY <1>2, <1>3, <1>4

LEMMA HeldVisitRecoveries ==
  ASSUME NEW rt \in Runtimes, NEW r \in Runs, NEW bad \in SUBSET Runs, NEW x \in RunRecord,
         x.recoveries <= MAX_RUN_RECOVERIES
  PROVE  HeldVisit(rt, r, x, bad).recoveries <= MAX_RUN_RECOVERIES
<1>1. /\ Close(x).recoveries = x.recoveries
      /\ Abandon(x, "MANIFEST_INVALID").recoveries = x.recoveries
      /\ [x EXCEPT !.age = 0, !.delivered = x.latest].recoveries = x.recoveries
      /\ [x EXCEPT !.age = 0, !.delivered = NoApproval].recoveries = x.recoveries
  BY RecoveriesKept DEF Reason, RunRecord
<1>2. TakeOver(rt, r, x, bad).recoveries <= MAX_RUN_RECOVERIES
  BY TakeOverRecoveries
<1> QED BY <1>1, <1>2 DEF HeldVisit

LEMMA QueueVisitRecoveries ==
  ASSUME NEW rt \in Runtimes, NEW r \in Runs, NEW bad \in SUBSET Runs, NEW x \in RunRecord
  PROVE  QueueVisit(rt, r, x, bad).recoveries = x.recoveries
<1>1. /\ Abandon(x, "MANIFEST_INVALID").recoveries = x.recoveries
      /\ [x EXCEPT !.lease = "ACTIVE", !.runtime = rt, !.session = nextSession,
                   !.age = 0, !.delivered = NoApproval].recoveries = x.recoveries
  BY RecoveriesKept DEF Reason, RunRecord
<1> QED BY <1>1 DEF QueueVisit

LEMMA DecisionRecoveries ==
  ASSUME NEW x \in RunRecord, NEW y, DecisionMade(x, y)
  PROVE  y.recoveries = x.recoveries
<1>1. ASSUME NEW a \in Approvals PROVE Approved(x, a).recoveries = x.recoveries
  BY DEF Approved, Updated, RunRecord
<1>2. ASSUME NEW a \in Approvals PROVE Rejected(x, a).recoveries = x.recoveries
  BY DEF Rejected, Stop, RunRecord
<1>3. Lapsed(x).recoveries = x.recoveries
  BY DueExpiredType, RecoveriesKept DEF Lapsed
<1> QED BY <1>1, <1>2, <1>3 DEF DecisionMade

LEMMA RequestRecoveries ==
  ASSUME NEW x \in RunRecord, NEW y, Request(x, y)
  PROVE  y.recoveries = x.recoveries
<1>1. ASSUME NEW type \in RuntimeEvents, NEW s \in Steps \cup {NoStep}, NEW session \in Nat,
             NEW a \in Named(x), MayIngest(x, type, s, session, a)
      PROVE  Renew(EventEffect(x, type, s, session, a)).recoveries = x.recoveries
  <2> DEFINE z == EventEffect(x, type, s, session, a)
  <2>1. z \in RunRecord
    BY <1>1, EventEffectType, TransportAssumption
  <2>2. z.recoveries = x.recoveries
    BY DEF EventEffect, Stop, RunRecord
  <2> HIDE DEF z
  <2> QED BY <2>1, <2>2, RecoveriesKept DEF z
<1>2. ASSUME NEW s \in Steps, NEW a \in Approvals PROVE Paused(x, s, a).recoveries = x.recoveries
  BY DEF Paused, Updated, RunRecord
<1>3. ASSUME NEW session \in Nat, NEW version \in Nat, NEW sequence \in Nat
      PROVE  Saved(x, session, version, sequence).recoveries = x.recoveries
  BY DEF Saved, Touch, RunRecord
<1>4. Touch(x).recoveries = x.recoveries /\ Renew(x).recoveries = x.recoveries
  BY RecoveriesKept
<1> QED BY <1>1, <1>2, <1>3, <1>4 DEF Request

LEMMA RecoveriesBounded ==
  ASSUME NEW x \in RunRecord, NEW y, RecordStep(x, y), nextSession \in Nat,
         x.recoveries <= MAX_RUN_RECOVERIES
  PROVE  y.recoveries <= MAX_RUN_RECOVERIES
<1>1. CASE Created(x, y) \/ Aged(x, y) \/ Late(x, y)
  BY <1>1 DEF Created, Aged, Late, RunRecord
<1>2. CASE CancelledByOwner(x, y) \/ y = Reaped(x)
  <2>1. /\ Cancel(x, "CANCELLED_BY_EMPLOYEE").recoveries = x.recoveries
        /\ Abandon(x, "RUNTIME_LOST").recoveries = x.recoveries
    BY RecoveriesKept DEF Reason
  <2> QED BY <1>2, <2>1 DEF CancelledByOwner, Reaped
<1>3. CASE DecisionMade(x, y) \/ Request(x, y)
  BY <1>3, DecisionRecoveries, RequestRecoveries
<1>4. CASE ClaimPass(x, y)
  <2>1. PICK d \in RunRecord, e \in RunRecord : HeldPass(x, d) /\ TakePass(d, e) /\ QueuePass(e, y)
    BY <1>4 DEF ClaimPass
  <2>2. d.recoveries <= MAX_RUN_RECOVERIES
    BY <2>1, HeldVisitRecoveries DEF HeldPass
  <2>3. e.recoveries <= MAX_RUN_RECOVERIES
    BY <2>1, <2>2, TakeOverRecoveries DEF TakePass
  <2> QED BY <2>1, <2>3, QueueVisitRecoveries DEF QueuePass
<1> QED BY <1>1, <1>2, <1>3, <1>4 DEF RecordStep

\* One step keeps every record well typed and inside the bound.
LEMMA TypeStep ==
  ASSUME TypeOK, [Next]_vars
  PROVE  TypeOK'
<1>1. CASE Next
  <2>1. StepShape
    BY <1>1, NextShape
  <2>2. ASSUME NEW r \in Runs PROVE db'[r].recoveries <= MAX_RUN_RECOVERIES
    BY <2>1, RecoveriesBounded DEF StepShape, RecordsShape, TypeOK
  <2>3. nextSession' \in Nat \ {0}
    BY <2>1 DEF StepShape, RecordsShape, TypeOK
  <2> QED BY <2>1, <2>2, <2>3 DEF StepShape, RecordsShape, TypeOK
<1>2. CASE UNCHANGED vars
  BY <1>2 DEF vars, TypeOK
<1> QED BY <1>1, <1>2

LEMMA TypeInit ==
  ASSUME Init
  PROVE  TypeOK
<1>1. Absent \in RunRecord
  BY DEF Absent, RunRecord, RunStatus, StepStatus, Reason, Age
<1>2. Absent.recoveries <= MAX_RUN_RECOVERIES
  BY TransportAssumption DEF Absent
<1> QED BY <1>1, <1>2 DEF Init, TypeOK

\* Whatever runtimes, employees and approvers send, and in whatever order, what
\* is stored stays well formed, and no run is recovered more than
\* MAX_RUN_RECOVERIES times (takeOver's bound).
THEOREM TypeCorrect == Spec => []TypeOK
<1> QED BY TypeInit, TypeStep, PTL DEF Spec

-----------------------------------------------------------------------------
(* The invariant of one run.  RunInv is what makes the parts inductive; it  *)
(* is kept by every record step, so also by a claim's three visits.         *)

\* Everything that ends a run, and everything about a run that has ended.
LEMMA EndedInv ==
  ASSUME NEW y \in RunRecord, Terminal(y), y.ckpt = 0, CheckpointFits(y),
         y.lease # "NONE" => y.session > 0
  PROVE  RunInv(y)
<1>1. /\ y.status \notin ActiveRun \cup {"NONE"}
      /\ y.status \notin {"QUEUED", "RUNNING", "WAITING_FOR_APPROVAL"}
      /\ ~Granted(y) /\ ~Unstarted(y)
  BY DEF Terminal, TerminalRun, ActiveRun, Granted, Unstarted
<1>2. GateHolds(y) /\ ReleasedIsResumable(y) /\ NoStepLeftPaused(y) /\ EndIsClean(y)
  BY <1>1 DEF GateHolds, ReleasedIsResumable, NoStepLeftPaused, EndIsClean
<1> QED BY <1>1, <1>2 DEF RunInv

\* What renews a lease or hands it on: the run itself stays as it is.
LEMMA FrameInv ==
  ASSUME NEW x \in RunRecord, NEW y \in RunRecord, RunInv(x),
         y.status = x.status, y.reason = x.reason, y.seq = x.seq, y.step = x.step,
         y.approval = x.approval, y.approvalStep = x.approvalStep, y.latest = x.latest,
         y.lease = x.lease, y.ckpt = x.ckpt, y.ckptSeq = x.ckptSeq,
         y.ckptSession = x.ckptSession, x.session <= y.session
  PROVE  RunInv(y)
<1>1. /\ Granted(y) = Granted(x) /\ Unstarted(y) = Unstarted(x) /\ Terminal(y) = Terminal(x)
      /\ Pending(y) = Pending(x)
  BY DEF Granted, Unstarted, Terminal, Pending
<1>2. GateHolds(y)
  BY <1>1 DEF GateHolds, RunInv
<1>3. ReleasedIsResumable(y) /\ NoStepLeftPaused(y) /\ EndIsClean(y)
  BY <1>1 DEF ReleasedIsResumable, NoStepLeftPaused, EndIsClean, RunInv
<1>4. CheckpointFits(y)
  BY DEF CheckpointFits, RunInv, RunRecord
<1>5. y.lease # "NONE" => y.session > 0
  BY DEF RunInv, RunRecord
<1> QED BY <1>1, <1>2, <1>3, <1>4, <1>5 DEF RunInv

LEMMA TouchInv == ASSUME NEW x \in RunRecord, RunInv(x) PROVE RunInv(Touch(x))
<1>1. CASE x.lease = "ACTIVE"
  <2>1. Touch(x) \in RunRecord
    BY TouchType
  <2> QED BY <1>1, <2>1, FrameInv DEF Touch, RunRecord
<1>2. CASE x.lease # "ACTIVE"
  BY <1>2 DEF Touch
<1> QED BY <1>1, <1>2

LEMMA UpdatedInv == ASSUME NEW x \in RunRecord, RunInv(x) PROVE RunInv(Updated(x))
<1>1. CASE x.age = 3
  <2>1. Updated(x) \in RunRecord
    BY UpdatedType
  <2> QED BY <1>1, <2>1, FrameInv DEF Updated, RunRecord
<1>2. CASE x.age # 3
  BY <1>2 DEF Updated
<1> QED BY <1>1, <1>2

\* Ending a run in any of the code's ways: the checkpoints go with it.
LEMMA StopInv ==
  ASSUME NEW x \in RunRecord, RunInv(x), NEW y \in RunRecord, y.status \in TerminalRun,
         y.ckpt = 0, y.ckptSeq = 0, y.ckptSession = 0, y.session = x.session,
         (x.lease = "NONE") <=> (y.lease = "NONE")
  PROVE  RunInv(y)
<1>1. CheckpointFits(y)
  BY DEF CheckpointFits, RunRecord
<1>2. y.lease # "NONE" => y.session > 0
  BY DEF RunInv
<1> QED BY <1>1, <1>2, EndedInv DEF Terminal

LEMMA CancelInv ==
  ASSUME NEW x \in RunRecord, RunInv(x), NEW why \in Reason
  PROVE  RunInv(Cancel(x, why)) /\ RunInv(Abandon(x, why))
<1> DEFINE c == Cancel(x, why)
<1>1. c \in RunRecord /\ Abandon(x, why) \in RunRecord
  BY CancelType, AbandonType
<1>2. /\ c.status \in TerminalRun /\ c.ckpt = 0 /\ c.ckptSeq = 0 /\ c.ckptSession = 0
      /\ c.session = x.session /\ c.lease = x.lease
  BY DEF Cancel, Stop, RunRecord, TerminalRun
<1>3. RunInv(c)
  BY <1>1, <1>2, StopInv
<1> HIDE DEF c
<1>4. /\ Close(c).status = c.status /\ Close(c).ckpt = c.ckpt /\ Close(c).ckptSeq = c.ckptSeq
      /\ Close(c).ckptSession = c.ckptSession /\ Close(c).session = c.session
      /\ (Close(c).lease = "NONE" <=> c.lease = "NONE")
  BY <1>1 DEF Close, RunRecord
<1>5. RunInv(Close(c))
  BY <1>1, <1>2, <1>4, CloseType, StopInv
<1> QED BY <1>3, <1>5 DEF c, Abandon

LEMMA CloseInv ==
  ASSUME NEW x \in RunRecord, RunInv(x), Terminal(x)
  PROVE  RunInv(Close(x))
<1>1. x.ckpt = 0
  BY DEF RunInv, EndIsClean, Terminal, TerminalRun, ActiveRun, RunRecord
<1>2. /\ Close(x).status = x.status /\ Close(x).ckpt = x.ckpt /\ Close(x).ckptSeq = x.ckptSeq
      /\ Close(x).ckptSession = x.ckptSession /\ Close(x).session = x.session
      /\ Close(x).seq = x.seq /\ (Close(x).lease = "NONE" <=> x.lease = "NONE")
  BY DEF Close, RunRecord
<1>3. CheckpointFits(Close(x)) /\ Terminal(Close(x))
  BY <1>1, <1>2 DEF RunInv, CheckpointFits, Terminal
<1>4. Close(x).lease # "NONE" => Close(x).session > 0
  BY <1>2 DEF RunInv
<1> QED BY <1>1, <1>2, <1>3, <1>4, CloseType, EndedInv

LEMMA RenewInv == ASSUME NEW x \in RunRecord, RunInv(x) PROVE RunInv(Renew(x))
  BY CloseInv, TouchInv DEF Renew

\* An approval can be pending only while its run waits for it, or has ended.
LEMMA PendingStatus ==
  ASSUME NEW x \in RunRecord, RunInv(x), NEW a \in Approvals, x.approval[a] = "PENDING"
  PROVE  x.status = "WAITING_FOR_APPROVAL" \/ Terminal(x)
<1>1. x.status \notin {"NONE", "QUEUED", "RUNNING"}
  BY DEF RunInv, GateHolds
<1> QED BY <1>1 DEF RunRecord, RunStatus, Terminal, TerminalRun

LEMMA TakeOverInv ==
  ASSUME NEW rt \in Runtimes, NEW r \in Runs, NEW bad \in SUBSET Runs, NEW x \in RunRecord,
         RunInv(x), nextSession \in Nat, x.session <= nextSession, 0 < nextSession
  PROVE  RunInv(TakeOver(rt, r, x, bad))
<1>1. /\ RunInv(Abandon(x, "RUNTIME_RECOVERY_EXHAUSTED"))
      /\ RunInv(Abandon(x, "MANIFEST_INVALID"))
  BY CancelInv DEF Reason
<1>2. CASE CanTakeOver(r, x, bad)
  <2> DEFINE y == TakeOver(rt, r, x, bad)
  <2>1. y \in RunRecord
    BY TakeOverType
  <2>2. /\ y.status = x.status /\ y.reason = x.reason /\ y.seq = x.seq /\ y.step = x.step
        /\ y.approval = x.approval /\ y.approvalStep = x.approvalStep /\ y.latest = x.latest
        /\ y.lease = x.lease /\ y.ckpt = x.ckpt /\ y.ckptSeq = x.ckptSeq
        /\ y.ckptSession = x.ckptSession /\ y.session = nextSession
    BY <1>2 DEF TakeOver, CanTakeOver, RunRecord
  <2>3. x.session <= y.session
    BY <2>2 DEF RunRecord
  <2> HIDE DEF y
  <2> QED BY <2>1, <2>2, <2>3, FrameInv DEF y
<1>3. CASE ~CanTakeOver(r, x, bad)
  BY <1>1, <1>3 DEF TakeOver
<1> QED BY <1>2, <1>3

LEMMA HeldVisitInv ==
  ASSUME NEW rt \in Runtimes, NEW r \in Runs, NEW bad \in SUBSET Runs, NEW x \in RunRecord,
         RunInv(x), nextSession \in Nat, x.session <= nextSession, 0 < nextSession
  PROVE  RunInv(HeldVisit(rt, r, x, bad))
<1>1. RunInv(Abandon(x, "MANIFEST_INVALID"))
  BY CancelInv DEF Reason
<1> DEFINE renewed(given) == [x EXCEPT !.age = 0, !.delivered = given]
<1>2. ASSUME NEW given \in Approvals \cup {NoApproval}
      PROVE  RunInv(renewed(given))
  <2> DEFINE y == [x EXCEPT !.age = 0, !.delivered = given]
  <2>1. y \in RunRecord
    BY DEF RunRecord, Age
  <2>2. /\ y.status = x.status /\ y.reason = x.reason /\ y.seq = x.seq /\ y.step = x.step
        /\ y.approval = x.approval /\ y.approvalStep = x.approvalStep /\ y.latest = x.latest
        /\ y.lease = x.lease /\ y.ckpt = x.ckpt /\ y.ckptSeq = x.ckptSeq
        /\ y.ckptSession = x.ckptSession /\ y.session = x.session /\ x.session <= x.session
    BY DEF RunRecord
  <2> HIDE DEF y
  <2> QED BY <2>1, <2>2, FrameInv DEF y
<1>3. x.latest \in Approvals \cup {NoApproval}
  BY DEF RunRecord
<1>4. RunInv(TakeOver(rt, r, x, bad))
  BY TakeOverInv
<1>5. \/ HeldVisit(rt, r, x, bad) = x
      \/ Terminal(x) /\ HeldVisit(rt, r, x, bad) = Close(x)
      \/ HeldVisit(rt, r, x, bad) = TakeOver(rt, r, x, bad)
      \/ HeldVisit(rt, r, x, bad) = renewed(x.latest)
      \/ HeldVisit(rt, r, x, bad) = renewed(NoApproval)
      \/ HeldVisit(rt, r, x, bad) = Abandon(x, "MANIFEST_INVALID")
  BY DEF HeldVisit
<1> HIDE DEF renewed
<1>6. RunInv(renewed(x.latest)) /\ RunInv(renewed(NoApproval))
  BY <1>2, <1>3
<1>7. Terminal(x) => RunInv(Close(x))
  BY CloseInv
<1> QED BY <1>1, <1>4, <1>5, <1>6, <1>7

LEMMA QueueVisitInv ==
  ASSUME NEW rt \in Runtimes, NEW r \in Runs, NEW bad \in SUBSET Runs, NEW x \in RunRecord,
         RunInv(x), Claimable(x), nextSession \in Nat, x.session <= nextSession, 0 < nextSession
  PROVE  RunInv(QueueVisit(rt, r, x, bad))
<1>1. RunInv(Abandon(x, "MANIFEST_INVALID"))
  BY CancelInv DEF Reason
<1> DEFINE y == [x EXCEPT !.lease = "ACTIVE", !.runtime = rt, !.session = nextSession,
                          !.age = 0, !.delivered = NoApproval]
<1>2. y \in RunRecord
  BY DEF RunRecord, Age
<1>3. /\ y.status = "QUEUED" /\ y.reason = None /\ y.seq = x.seq /\ y.step = x.step
      /\ y.approval = x.approval /\ y.lease = "ACTIVE" /\ y.ckpt = x.ckpt
      /\ y.ckptSeq = x.ckptSeq /\ y.ckptSession = x.ckptSession /\ y.session = nextSession
      /\ x.status = "QUEUED" /\ x.reason = None
  BY DEF Claimable, Unstarted, RunRecord
<1>4. ~Granted(y) /\ Unstarted(y) /\ ~Granted(x) /\ Unstarted(x)
  BY <1>3, TransportAssumption DEF Granted, Unstarted
<1> HIDE DEF y
<1>5. GateHolds(y) /\ NoStepLeftPaused(y) /\ ReleasedIsResumable(y)
  BY <1>3, <1>4 DEF GateHolds, NoStepLeftPaused, ReleasedIsResumable, RunInv
<1>6. EndIsClean(y) /\ CheckpointFits(y)
  BY <1>2, <1>3, <1>4 DEF EndIsClean, CheckpointFits, RunInv, RunRecord
<1>7. nextSession > 0
  BY DEF RunRecord
<1>8. RunInv(y)
  BY <1>2, <1>3, <1>4, <1>5, <1>6, <1>7 DEF RunInv
<1> QED BY <1>1, <1>8 DEF QueueVisit, y

LEMMA ClaimPassInv ==
  ASSUME NEW x \in RunRecord, NEW y, RunInv(x), nextSession \in Nat,
         x.session <= nextSession, 0 < nextSession, ClaimPass(x, y)
  PROVE  RunInv(y)
<1>1. PICK d \in RunRecord, e \in RunRecord : HeldPass(x, d) /\ TakePass(d, e) /\ QueuePass(e, y)
  BY DEF ClaimPass
<1>2. RunInv(d) /\ d.session <= nextSession
  BY <1>1, HeldVisitInv, HeldVisitSession DEF HeldPass
<1>3. RunInv(e) /\ e.session <= nextSession
  BY <1>1, <1>2, TakeOverInv, TakeOverSession DEF TakePass
<1> QED BY <1>1, <1>3, QueueVisitInv DEF QueuePass

\* The decision of the approval a run waits for releases it, or ends it; that of
\* any other finds a run that has ended and moves nothing but the approval.
LEMMA LateDecisionInv ==
  ASSUME NEW x \in RunRecord, RunInv(x), Terminal(x), NEW y \in RunRecord,
         y.status = x.status, y.seq = x.seq, y.lease = x.lease, y.session = x.session,
         y.ckpt = x.ckpt, y.ckptSeq = x.ckptSeq, y.ckptSession = x.ckptSession
  PROVE  RunInv(y)
<1>1. x.ckpt = 0
  BY DEF RunInv, EndIsClean, Terminal, TerminalRun, ActiveRun, RunRecord
<1>2. Terminal(y) /\ CheckpointFits(y) /\ (y.lease # "NONE" => y.session > 0)
  BY DEF Terminal, CheckpointFits, RunInv
<1> QED BY <1>1, <1>2, EndedInv

LEMMA ApprovedInv ==
  ASSUME NEW x \in RunRecord, RunInv(x), NEW a \in Approvals, x.approval[a] = "PENDING"
  PROVE  RunInv(Approved(x, a))
<1> DEFINE y == [x EXCEPT !.approval[a] = "APPROVED", !.latest = a, !.overdue = @ \ {a}]
           z == [y EXCEPT !.status = "QUEUED", !.reason = "APPROVAL_GRANTED",
                          !.step = WaitingStepTo(x, a, "PENDING")]
<1>1. y \in RunRecord
  BY DEF RunRecord
<1>2. CASE x.status # "WAITING_FOR_APPROVAL"
  <2>1. Terminal(x)
    BY <1>2, PendingStatus
  <2>2. RunInv(y)
    BY <1>1, <2>1, LateDecisionInv DEF RunRecord
  <2> QED BY <1>2, <2>2 DEF Approved
<1>3. CASE x.status = "WAITING_FOR_APPROVAL"
  <2>1. /\ Pending(x) = {a}
        /\ \A b \in Approvals \ {a} : x.approval[b] \in {"NONE", "APPROVED"}
        /\ x.approvalStep[a] \in Steps
        /\ x.step[x.approvalStep[a]] = "WAITING_FOR_APPROVAL"
    <3>1. a \in Pending(x)
      BY DEF Pending
    <3> QED BY <1>3, <3>1 DEF RunInv, GateHolds
  <2>2. \A s \in Steps : /\ ~AnyApproval => x.step[s] # "PENDING"
                         /\ x.step[s] = "WAITING_FOR_APPROVAL" <=> s = x.approvalStep[a]
    BY <1>3, <2>1 DEF RunInv, NoStepLeftPaused
  <2>3. /\ WaitingStepTo(x, a, "PENDING")[x.approvalStep[a]] = "PENDING"
        /\ \A s \in Steps :
             /\ WaitingStepTo(x, a, "PENDING")[s] # "WAITING_FOR_APPROVAL"
             /\ WaitingStepTo(x, a, "PENDING")[s] = "PENDING" /\ ~AnyApproval => s = x.approvalStep[a]
    BY <2>1, <2>2 DEF WaitingStepTo
  <2>4. WaitingStepTo(x, a, "PENDING") \in [Steps -> StepStatus \cup {"NONE"}]
    BY WaitingStepType DEF StepStatus
  <2>5. z \in RunRecord
    <3> HIDE DEF y
    <3> QED BY <1>1, <2>4 DEF RunRecord, RunStatus, Reason
  <2>6. /\ z.status = "QUEUED" /\ z.reason = "APPROVAL_GRANTED" /\ z.latest = a
        /\ z.step = WaitingStepTo(x, a, "PENDING") /\ z.approvalStep = x.approvalStep
        /\ z.lease = x.lease /\ z.session = x.session /\ z.seq = x.seq /\ z.ckpt = x.ckpt
        /\ z.ckptSeq = x.ckptSeq /\ z.ckptSession = x.ckptSession
        /\ z.approval = [x.approval EXCEPT ![a] = "APPROVED"]
    BY DEF RunRecord
  <2>7. /\ z.approval[a] = "APPROVED"
        /\ \A b \in Approvals : z.approval[b] \in {"NONE", "APPROVED"}
    BY <2>1, <2>6 DEF RunRecord
  <2> HIDE DEF z
  <2>8. Granted(z) /\ ~Unstarted(z) /\ ~Terminal(z) /\ z.status \in ActiveRun
    BY <2>6, TransportAssumption DEF Granted, Unstarted, Terminal, TerminalRun, ActiveRun
  <2>9. /\ x.lease = "ACTIVE" /\ x.seq > 0 /\ CheckpointFits(x)
        /\ (x.ckpt > 0 => x.seq > 0) /\ (x.lease # "NONE" => x.session > 0)
    BY <1>3 DEF RunInv
  <2>10. GateHolds(z) /\ ReleasedIsResumable(z) /\ NoStepLeftPaused(z)
    <3>1. GateHolds(z)
      BY <2>6, <2>7 DEF GateHolds
    <3>2. ReleasedIsResumable(z)
      <4>1. z.latest \in Approvals /\ z.latest # NoApproval
        BY <2>6, TransportAssumption
      <4>2. z.approvalStep[z.latest] \in Steps /\ z.step[z.approvalStep[z.latest]] = "PENDING"
        BY <2>1, <2>3, <2>6
      <4> QED BY <2>6, <2>7, <2>9, <4>1, <4>2 DEF ReleasedIsResumable
    <3>3. NoStepLeftPaused(z)
      BY <2>3, <2>6, <2>8 DEF NoStepLeftPaused
    <3> QED BY <3>1, <3>2, <3>3
  <2>11. EndIsClean(z) /\ CheckpointFits(z)
    BY <2>6, <2>8, <2>9 DEF EndIsClean, CheckpointFits
  <2>12. RunInv(z)
    BY <2>3, <2>6, <2>8, <2>9, <2>10, <2>11 DEF RunInv
  <2>13. RunInv(Updated(z))
    BY <2>5, <2>12, UpdatedInv
  <2> QED BY <1>3, <2>13 DEF Approved, z
<1> QED BY <1>2, <1>3

LEMMA RejectedInv ==
  ASSUME NEW x \in RunRecord, RunInv(x), NEW a \in Approvals, x.approval[a] = "PENDING"
  PROVE  RunInv(Rejected(x, a))
<1> DEFINE y == Rejected(x, a)
<1>1. y \in RunRecord
  BY RejectedType
<1>2. CASE x.status # "WAITING_FOR_APPROVAL"
  <2>1. Terminal(x)
    BY <1>2, PendingStatus
  <2>2. /\ y.status = x.status /\ y.seq = x.seq /\ y.lease = x.lease /\ y.session = x.session
        /\ y.ckpt = x.ckpt /\ y.ckptSeq = x.ckptSeq /\ y.ckptSession = x.ckptSession
    BY <1>2 DEF Rejected, RunRecord
  <2> QED BY <1>1, <2>1, <2>2, LateDecisionInv
<1>3. CASE x.status = "WAITING_FOR_APPROVAL"
  <2>1. /\ y.status \in TerminalRun /\ y.ckpt = 0 /\ y.ckptSeq = 0 /\ y.ckptSession = 0
        /\ y.session = x.session /\ y.lease = x.lease
    BY <1>3 DEF Rejected, Stop, RunRecord, TerminalRun
  <2> QED BY <1>1, <2>1, StopInv
<1> QED BY <1>2, <1>3

LEMMA LapsedInv ==
  ASSUME NEW x \in RunRecord, RunInv(x), NEW a \in Approvals, a \in Due(x)
  PROVE  RunInv(Lapsed(x))
<1> DEFINE y == Lapsed(x)
<1>1. y \in RunRecord
  BY LapsedType
<1>2. CASE x.status # "WAITING_FOR_APPROVAL"
  <2>1. Terminal(x)
    BY <1>2, DueIsPending, PendingStatus
  <2>2. /\ y.status = x.status /\ y.seq = x.seq /\ y.lease = x.lease /\ y.session = x.session
        /\ y.ckpt = x.ckpt /\ y.ckptSeq = x.ckptSeq /\ y.ckptSession = x.ckptSession
    BY <1>2, DueExpiredType DEF Lapsed
  <2> QED BY <1>1, <2>1, <2>2, LateDecisionInv
<1>3. CASE x.status = "WAITING_FOR_APPROVAL"
  <2>1. /\ y.status \in TerminalRun /\ y.ckpt = 0 /\ y.ckptSeq = 0 /\ y.ckptSession = 0
        /\ y.session = x.session /\ y.lease = x.lease
    BY <1>3, DueExpiredType, CancelFacts DEF Lapsed, TerminalRun, Reason
  <2> QED BY <1>1, <2>1, StopInv
<1> QED BY <1>2, <1>3

LEMMA PausedInv ==
  ASSUME NEW x \in RunRecord, RunInv(x), NEW s \in Steps, NEW a \in Approvals, MayPause(x, s, a)
  PROVE  RunInv(Paused(x, s, a))
<1> DEFINE z == [x EXCEPT !.approval[a] = "PENDING", !.approvalStep[a] = s,
                          !.step[s] = "WAITING_FOR_APPROVAL",
                          !.status = "WAITING_FOR_APPROVAL", !.reason = "APPROVAL_REQUIRED"]
<1>1. z \in RunRecord
  BY DEF RunRecord, RunStatus, StepStatus, Reason
<1>2. /\ z.status = "WAITING_FOR_APPROVAL" /\ z.lease = x.lease /\ z.session = x.session
      /\ z.seq = x.seq /\ z.ckpt = x.ckpt /\ z.ckptSeq = x.ckptSeq
      /\ z.ckptSession = x.ckptSession
      /\ z.approval = [x.approval EXCEPT ![a] = "PENDING"]
      /\ z.approvalStep = [x.approvalStep EXCEPT ![a] = s]
      /\ z.step = [x.step EXCEPT ![s] = "WAITING_FOR_APPROVAL"]
  BY DEF RunRecord
<1>3. /\ x.status = "RUNNING" /\ x.lease = "ACTIVE" /\ x.seq > 0 /\ CheckpointFits(x)
      /\ x.session > 0
      /\ \A b \in Approvals : x.approval[b] \in {"NONE", "APPROVED"}
      /\ \A q \in Steps : /\ x.step[q] # "WAITING_FOR_APPROVAL"
                          /\ ~AnyApproval => x.step[q] # "PENDING"
  BY DEF MayPause, RunInv, GateHolds, NoStepLeftPaused
<1>4. /\ z.approval[a] = "PENDING" /\ z.approvalStep[a] = s
      /\ \A b \in Approvals \ {a} : z.approval[b] \in {"NONE", "APPROVED"}
      /\ \A q \in Steps : /\ ~AnyApproval => z.step[q] # "PENDING"
                          /\ z.step[q] = "WAITING_FOR_APPROVAL" <=> q = s
  BY <1>2, <1>3 DEF RunRecord
<1> HIDE DEF z
<1>5. Pending(z) = {a}
  BY <1>4 DEF Pending
<1>6. ~Granted(z) /\ ~Unstarted(z) /\ ~Terminal(z) /\ z.status \in ActiveRun
  BY <1>2 DEF Granted, Unstarted, Terminal, TerminalRun, ActiveRun
<1>7. GateHolds(z)
  BY <1>2, <1>4, <1>5 DEF GateHolds
<1>8. ReleasedIsResumable(z) /\ NoStepLeftPaused(z)
  BY <1>2, <1>4, <1>6 DEF ReleasedIsResumable, NoStepLeftPaused
<1>9. EndIsClean(z) /\ CheckpointFits(z)
  BY <1>2, <1>3, <1>6 DEF EndIsClean, CheckpointFits
<1>10. RunInv(z)
  BY <1>2, <1>3, <1>4, <1>5, <1>6, <1>7, <1>8, <1>9 DEF RunInv
<1>11. Paused(x, s, a) = Updated(z)
  BY DEF Paused, z
<1> QED BY <1>1, <1>10, <1>11, UpdatedInv

LEMMA SavedInv ==
  ASSUME NEW x \in RunRecord, RunInv(x), NEW session \in Nat, NEW version \in Nat,
         NEW sequence \in Nat, MaySave(x, session, version, sequence)
  PROVE  RunInv(Saved(x, session, version, sequence))
<1> DEFINE z == [x EXCEPT !.ckpt = version, !.ckptSession = session, !.ckptSeq = sequence]
<1>1. z \in RunRecord
  BY DEF RunRecord
<1>2. /\ z.status = x.status /\ z.reason = x.reason /\ z.seq = x.seq /\ z.step = x.step
      /\ z.approval = x.approval /\ z.approvalStep = x.approvalStep /\ z.latest = x.latest
      /\ z.lease = x.lease /\ z.session = x.session
      /\ z.ckpt = version /\ z.ckptSession = session /\ z.ckptSeq = sequence
  BY DEF RunRecord
<1>3. /\ x.status \in {"RUNNING", "WAITING_FOR_APPROVAL"} /\ x.lease = "ACTIVE" /\ x.seq > 0
      /\ x.session > 0 /\ session = x.session /\ sequence <= x.seq
  BY DEF MaySave, NextVersion, RunInv
<1> HIDE DEF z
<1>4. /\ Granted(z) = Granted(x) /\ Unstarted(z) = Unstarted(x) /\ Terminal(z) = Terminal(x)
      /\ Pending(z) = Pending(x) /\ ~Unstarted(z) /\ z.status \in ActiveRun
  BY <1>2, <1>3 DEF Granted, Unstarted, Terminal, Pending, ActiveRun
<1>5. GateHolds(z)
  BY <1>2, <1>4 DEF GateHolds, RunInv
<1>6. ReleasedIsResumable(z) /\ NoStepLeftPaused(z)
  BY <1>2, <1>4 DEF ReleasedIsResumable, NoStepLeftPaused, RunInv
<1>7. EndIsClean(z) /\ CheckpointFits(z)
  BY <1>2, <1>3, <1>4 DEF EndIsClean, CheckpointFits, RunRecord
<1>8. RunInv(z)
  BY <1>2, <1>3, <1>4, <1>5, <1>6, <1>7 DEF RunInv
<1> QED BY <1>1, <1>8, TouchInv DEF Saved, z

\* A new event: its effect depends on the kind, each legal in one status only.
LEMMA RunningInv ==
  ASSUME NEW x \in RunRecord, RunInv(x), x.lease = "ACTIVE", x.session > 0, NEW z \in RunRecord,
         z.status = "RUNNING", z.reason = None \/ z.reason = x.reason, z.seq = x.seq + 1,
         z.lease = x.lease, z.session = x.session, z.ckpt = x.ckpt, z.ckptSeq = x.ckptSeq,
         z.ckptSession = x.ckptSession, z.approval = x.approval,
         \A a \in Approvals : x.approval[a] \in {"NONE", "APPROVED"},
         \A q \in Steps : /\ z.step[q] # "WAITING_FOR_APPROVAL"
                          /\ ~AnyApproval => z.step[q] # "PENDING"
  PROVE  RunInv(z)
<1>1. ~Granted(z) /\ ~Unstarted(z) /\ ~Terminal(z) /\ z.status \in ActiveRun
  BY DEF Granted, Unstarted, Terminal, TerminalRun, ActiveRun
<1>5. NoStepLeftPaused(z)
  BY <1>1 DEF NoStepLeftPaused
<1>2. GateHolds(z) /\ ReleasedIsResumable(z) /\ NoStepLeftPaused(z)
  BY <1>1, <1>5 DEF GateHolds, ReleasedIsResumable
<1>3. z.seq > 0 /\ CheckpointFits(z)
  BY DEF CheckpointFits, RunInv, RunRecord
<1>4. EndIsClean(z)
  BY <1>1, <1>3 DEF EndIsClean
<1> QED BY <1>1, <1>2, <1>3, <1>4 DEF RunInv

LEMMA EventInv ==
  ASSUME NEW x \in RunRecord, RunInv(x), x.lease # "NONE", "run.paused" \notin RuntimeEvents,
         NEW type \in RuntimeEvents, NEW s \in Steps \cup {NoStep}, NEW session \in Nat,
         NEW a \in Named(x), MayIngest(x, type, s, session, a)
  PROVE  RunInv(EventEffect(x, type, s, session, a))
<1> DEFINE z == EventEffect(x, type, s, session, a)
<1>1. z \in RunRecord
  BY EventEffectType, TransportAssumption
<1>2. x.session > 0 /\ ~Terminal(x) /\ x.lease = "ACTIVE"
  <2>1. ~Terminal(x)
    BY DEF MayIngest, Accepts, Terminal
  <2> QED BY <2>1 DEF RunInv, EndIsClean, RunRecord
<1>3. CASE type \in {"step.started", "step.completed", "step.failed", "other"}
  <2>1. x.status = "RUNNING"
    BY <1>3 DEF MayIngest, Accepts
  <2>2. /\ \A b \in Approvals : x.approval[b] \in {"NONE", "APPROVED"}
        /\ \A q \in Steps : /\ x.step[q] # "WAITING_FOR_APPROVAL"
                            /\ ~AnyApproval => x.step[q] # "PENDING"
    BY <2>1 DEF RunInv, GateHolds, NoStepLeftPaused
  <2>3. /\ z.status = "RUNNING" /\ z.reason = x.reason /\ z.seq = x.seq + 1
        /\ z.lease = x.lease /\ z.session = x.session /\ z.ckpt = x.ckpt
        /\ z.ckptSeq = x.ckptSeq /\ z.ckptSession = x.ckptSession /\ z.approval = x.approval
    BY <1>3, <2>1 DEF EventEffect, RunRecord
  <2>4. \A q \in Steps : z.step[q] \in {x.step[q], "RUNNING", "COMPLETED", "FAILED"}
    BY <1>3 DEF EventEffect, RunRecord
  <2> HIDE DEF z
  <2> QED BY <1>1, <1>2, <2>2, <2>3, <2>4, RunningInv DEF z
<1>4. CASE type = "run.started"
  <2>1. Unstarted(x)
    BY <1>4 DEF MayIngest, Accepts, Unstarted
  <2>2. /\ \A b \in Approvals : x.approval[b] \in {"NONE", "APPROVED"}
        /\ \A q \in Steps : x.step[q] = "NONE"
    BY <2>1, TransportAssumption DEF RunInv, NoStepLeftPaused, Unstarted, Granted
  <2>3. /\ z.status = "RUNNING" /\ z.reason = None /\ z.seq = x.seq + 1
        /\ z.lease = x.lease /\ z.session = x.session /\ z.ckpt = x.ckpt
        /\ z.ckptSeq = x.ckptSeq /\ z.ckptSession = x.ckptSession /\ z.approval = x.approval
        /\ z.step = x.step
    BY <1>4 DEF EventEffect, RunRecord
  <2> HIDE DEF z
  <2> QED BY <1>1, <1>2, <2>2, <2>3, RunningInv DEF z
<1>5. CASE type = "run.resumed"
  <2>1. Granted(x)
    BY <1>5 DEF MayIngest, Accepts, Granted
  <2>2. /\ \A b \in Approvals : x.approval[b] \in {"NONE", "APPROVED"}
        /\ \A q \in Steps : /\ x.step[q] # "WAITING_FOR_APPROVAL"
                            /\ x.step[q] = "PENDING" /\ ~AnyApproval => q = x.approvalStep[x.latest]
    BY <2>1 DEF RunInv, GateHolds, NoStepLeftPaused, Granted
  <2>3. /\ z.status = "RUNNING" /\ z.reason = None /\ z.seq = x.seq + 1
        /\ z.lease = x.lease /\ z.session = x.session /\ z.ckpt = x.ckpt
        /\ z.ckptSeq = x.ckptSeq /\ z.ckptSession = x.ckptSession /\ z.approval = x.approval
        /\ z.step = ResumeStep(x, a)
    BY <1>5 DEF EventEffect, RunRecord
  <2>4. \A q \in Steps : /\ ResumeStep(x, a)[q] # "WAITING_FOR_APPROVAL"
                         /\ ~AnyApproval => ResumeStep(x, a)[q] # "PENDING"
    BY <2>2 DEF ResumeStep, Named
  <2> HIDE DEF z
  <2> QED BY <1>1, <1>2, <2>2, <2>3, <2>4, RunningInv DEF z
<1>6. CASE type \in {"run.completed", "run.failed", "run.cancelled"}
  <2>1. /\ z.status \in TerminalRun /\ z.ckpt = 0 /\ z.ckptSeq = 0 /\ z.ckptSession = 0
        /\ z.session = x.session /\ z.lease = x.lease
    BY <1>6 DEF EventEffect, Stop, EventTarget, TerminalRun, RunRecord
  <2> HIDE DEF z
  <2> QED BY <1>1, <2>1, StopInv DEF z
<1>7. type \in RuntimeEvent \ {"run.paused"}
  BY TransportAssumption
<1> QED BY <1>3, <1>4, <1>5, <1>6, <1>7 DEF RuntimeEvent

LEMMA RequestInv ==
  ASSUME NEW x \in RunRecord, RunInv(x), NEW y, Request(x, y), "run.paused" \notin RuntimeEvents
  PROVE  RunInv(y)
<1>1. ASSUME NEW type \in RuntimeEvents, NEW s \in Steps \cup {NoStep}, NEW session \in Nat,
             NEW a \in Named(x), MayIngest(x, type, s, session, a), x.lease # "NONE"
      PROVE  RunInv(Renew(EventEffect(x, type, s, session, a)))
  <2> DEFINE z == EventEffect(x, type, s, session, a)
  <2>1. z \in RunRecord
    BY <1>1, EventEffectType, TransportAssumption
  <2>2. RunInv(z)
    BY <1>1, EventInv
  <2> HIDE DEF z
  <2> QED BY <2>1, <2>2, RenewInv DEF z
<1> QED BY <1>1, TouchInv, RenewInv, PausedInv, SavedInv DEF Request

\* Whatever a step does to a run keeps the invariant of that run.
LEMMA RecordStepInv ==
  ASSUME NEW x \in RunRecord, RunInv(x), NEW y, RecordStep(x, y), "run.paused" \notin RuntimeEvents,
         nextSession \in Nat, x.session < nextSession
  PROVE  RunInv(y)
<1>1. CASE Created(x, y)
  <2>1. /\ y \in RunRecord /\ y.status = "QUEUED" /\ y.reason = x.reason /\ y.seq = x.seq
        /\ y.step = x.step /\ y.approval = x.approval /\ y.lease = x.lease /\ y.ckpt = x.ckpt
        /\ y.ckptSeq = x.ckptSeq /\ y.ckptSession = x.ckptSession /\ y.session = x.session
        /\ x.status = "NONE"
    BY <1>1 DEF Created, RunRecord, RunStatus
  <2>2. /\ x.reason = None /\ x.lease = "NONE" /\ x.seq = 0 /\ x.ckpt = 0 /\ CheckpointFits(x)
        /\ (\A a \in Approvals : x.approval[a] = "NONE") /\ (\A s \in Steps : x.step[s] = "NONE")
    BY <2>1 DEF RunInv
  <2>3. ~Granted(y) /\ Unstarted(y)
    BY <2>1, <2>2, TransportAssumption DEF Granted, Unstarted
  <2>4. GateHolds(y) /\ ReleasedIsResumable(y) /\ NoStepLeftPaused(y)
    BY <2>1, <2>2, <2>3 DEF GateHolds, ReleasedIsResumable, NoStepLeftPaused
  <2>5. EndIsClean(y) /\ CheckpointFits(y)
    BY <2>1, <2>2 DEF EndIsClean, CheckpointFits
  <2> QED BY <2>1, <2>2, <2>3, <2>4, <2>5 DEF RunInv
<1>2. CASE CancelledByOwner(x, y)
  BY <1>2, CancelInv DEF CancelledByOwner, Reason
<1>3. CASE DecisionMade(x, y)
  BY <1>3, ApprovedInv, RejectedInv, LapsedInv DEF DecisionMade
<1>4. CASE Aged(x, y) \/ Late(x, y)
  <2>1. y \in RunRecord
    BY <1>4, RecordStepType DEF RecordStep
  <2>2. /\ y.status = x.status /\ y.reason = x.reason /\ y.seq = x.seq /\ y.step = x.step
        /\ y.approval = x.approval /\ y.approvalStep = x.approvalStep /\ y.latest = x.latest
        /\ y.lease = x.lease /\ y.ckpt = x.ckpt /\ y.ckptSeq = x.ckptSeq
        /\ y.ckptSession = x.ckptSession /\ y.session = x.session /\ x.session <= x.session
    BY <1>4 DEF Aged, Late, RunRecord
  <2> QED BY <2>1, <2>2, FrameInv
<1>5. CASE y = Reaped(x)
  BY <1>5, CancelInv DEF Reaped, Reason
<1>6. CASE ClaimPass(x, y)
  BY <1>6, ClaimPassInv DEF RunRecord
<1>7. CASE Request(x, y)
  BY <1>7, RequestInv
<1> QED BY <1>1, <1>2, <1>3, <1>4, <1>5, <1>6, <1>7 DEF RecordStep

LEMMA InductiveInit ==
  ASSUME Init
  PROVE  Inductive
<1>1. ~Granted(Absent) /\ ~Unstarted(Absent) /\ ~Terminal(Absent)
  BY DEF Absent, Granted, Unstarted, Terminal, TerminalRun
<1>2. GateHolds(Absent) /\ ReleasedIsResumable(Absent) /\ NoStepLeftPaused(Absent)
      /\ EndIsClean(Absent) /\ CheckpointFits(Absent)
  BY <1>1 DEF Absent, GateHolds, ReleasedIsResumable, NoStepLeftPaused, EndIsClean, CheckpointFits
<1>3. RunInv(Absent) /\ Absent.session < 1
  BY <1>1, <1>2 DEF RunInv, Absent
<1> QED BY <1>3 DEF Init, Inductive

LEMMA InductiveStep ==
  ASSUME TypeOK, Inductive, [Next]_vars, "run.paused" \notin RuntimeEvents
  PROVE  Inductive'
<1>1. CASE Next
  <2>1. StepShape
    BY <1>1, NextShape
  <2>2. ASSUME NEW r \in Runs PROVE RunInv(db'[r])
    BY <2>1, RecordStepInv DEF StepShape, RecordsShape, TypeOK, Inductive
  <2>3. ASSUME NEW r \in Runs PROVE db'[r].session < nextSession'
    <3>1. db[r].session \in Nat /\ db[r].session < nextSession /\ nextSession \in Nat
      BY DEF TypeOK, Inductive, RunRecord
    <3>2. SessionStep(db[r], db'[r]) /\ nextSession' \in {nextSession, nextSession + 1}
      BY <2>1 DEF StepShape, RecordsShape
    <3> QED BY <3>1, <3>2 DEF SessionStep
  <2> QED BY <2>2, <2>3 DEF Inductive, RunInv, GateHolds, ReleasedIsResumable, NoStepLeftPaused,
             EndIsClean, CheckpointFits, Granted, Unstarted, Terminal, Pending
<1>2. CASE UNCHANGED vars
  BY <1>2 DEF vars, Inductive
<1> QED BY <1>1, <1>2

\* For runtimes that leave pausing to the control plane, the invariant of every
\* run holds in every reachable state.
THEOREM RunsInvariant ==
  ASSUME "run.paused" \notin RuntimeEvents
  PROVE  Spec => []Inductive
<1>1. Init => TypeOK /\ Inductive
  BY TypeInit, InductiveInit
<1>2. TypeOK /\ Inductive /\ [Next]_vars => (TypeOK /\ Inductive)'
  BY TypeStep, InductiveStep
<1> QED BY <1>1, <1>2, PTL DEF Spec

\* A run executes only when every approval ever asked for it was granted, and
\* waits for exactly one (pauseForApproval, onApprovalDecided): no sequence of
\* requests, expiries and hand-overs lets a runtime release its own pause.
THEOREM ApprovalGateHolds ==
  ASSUME "run.paused" \notin RuntimeEvents
  PROVE  Spec => []ApprovalGate
<1>1. Inductive => ApprovalGate
  BY DEF Inductive, RunInv, ApprovalGate
<1> QED BY <1>1, RunsInvariant, PTL

\* A run an approval released can be resumed: its step waits to go on, the
\* approval claim looks for exists, and the lease it is delivered on is open.
THEOREM ResumableHolds ==
  ASSUME "run.paused" \notin RuntimeEvents
  PROVE  Spec => []Resumable
<1>1. Inductive => Resumable
  BY DEF Inductive, RunInv, Resumable
<1> QED BY <1>1, RunsInvariant, PTL

\* Steps never contradict their run: none waits or is pending while it runs.
THEOREM StepsFollowRunHolds ==
  ASSUME "run.paused" \notin RuntimeEvents
  PROVE  Spec => []StepsFollowRun
<1>1. Inductive => StepsFollowRun
  BY DEF Inductive, RunInv, StepsFollowRun
<1> QED BY <1>1, RunsInvariant, PTL

\* Checkpoints live exactly as long as an active run under an open lease, and
\* none runs ahead of the history that was recorded, so a take-over can always
\* continue from it (saveCheckpoint, onRunStopped).
THEOREM CheckpointsSound ==
  ASSUME "run.paused" \notin RuntimeEvents
  PROVE  Spec => [](CleanEnd /\ CheckpointWithinHistory)
<1>1. Inductive => CleanEnd /\ CheckpointWithinHistory
  BY DEF Inductive, RunInv, CleanEnd, CheckpointWithinHistory
<1> QED BY <1>1, RunsInvariant, PTL

-----------------------------------------------------------------------------
(***************************************************************************)
(* What a step may never do to a run, for every set of runs, runtimes,     *)
(* steps and approvals: the laws of run-lifecycle.ts across every          *)
(* transaction, the fence of the checkpoints, how a run changes hands, and *)
(* one active run per thread.  Each is a fact about the record steps       *)
(* above; the one work-saving lemma is that of a claim's three loops at    *)
(* most one does anything to a given run.                                  *)
(***************************************************************************)

(* What a claim does to one run.                                           *)

\* The run itself is as it was: what changed is who holds it.
SameWork(x, y) ==
  /\ y.status = x.status /\ y.reason = x.reason /\ y.seq = x.seq /\ y.step = x.step
  /\ y.ckpt = x.ckpt /\ y.ckptSession = x.ckptSession

SameApprovals(x, y) == y.approval = x.approval /\ y.latest = x.latest

GivenUp(x, y) ==
  /\ x.status \in {"QUEUED", "RUNNING"}
  /\ \E why \in Reason \ {"APPROVAL_REJECTED", "RUNTIME"} : y = Abandon(x, why)

\* The command is sent again to the runtime that holds the run.
SentAgain(x, y) ==
  /\ x.status = "QUEUED" /\ SameWork(x, y) /\ SameApprovals(x, y)
  /\ y.lease = x.lease /\ y.age = 0 /\ y.session = x.session /\ y.runtime = x.runtime

HandedOn(x, y) ==
  /\ x.status \in {"QUEUED", "RUNNING"} /\ SameWork(x, y) /\ SameApprovals(x, y)
  /\ x.lease = "NONE" \/ Expired(x)
  /\ y.lease = "ACTIVE" /\ y.age = 0 /\ y.session = nextSession
  /\ x.status = "RUNNING" => /\ x.ckpt > 0 /\ y.recoveries = x.recoveries + 1
                             /\ y.recoveries <= MAX_RUN_RECOVERIES

Visit(x, y) ==
  y = x \/ (Terminal(x) /\ y = Close(x)) \/ GivenUp(x, y) \/ SentAgain(x, y) \/ HandedOn(x, y)

LEMMA TakeOverVisit ==
  ASSUME NEW x \in RunRecord, NEW rt \in Runtimes, NEW r \in Runs, NEW bad \in SUBSET Runs,
         nextSession \in Nat, x.status = "RUNNING" \/ Granted(x), Expired(x)
  PROVE  /\ Visit(x, TakeOver(rt, r, x, bad))
         /\ TakeOver(rt, r, x, bad) # x =>
              /\ ~Abandoned(TakeOver(rt, r, x, bad))
              /\ ~Claimable(TakeOver(rt, r, x, bad))
<1> DEFINE y == TakeOver(rt, r, x, bad)
<1>1. x.status \in {"QUEUED", "RUNNING"}
  BY DEF Granted
<1>2. ASSUME NEW why \in Reason \ {"APPROVAL_REJECTED", "RUNTIME"}, y = Abandon(x, why)
      PROVE  Visit(x, y) /\ ~Abandoned(y) /\ ~Claimable(y)
  <2>1. Abandon(x, why).status = "CANCELLED"
    <3>1. Cancel(x, why) \in RunRecord /\ Cancel(x, why).status = "CANCELLED"
      BY CancelType, CancelFacts
    <3> QED BY <3>1 DEF Abandon, Close, RunRecord
  <2>2. ~Abandoned(y) /\ ~Claimable(y)
    BY <1>2, <2>1 DEF Abandoned, Claimable, Granted, Unstarted
  <2> QED BY <1>1, <1>2, <2>2 DEF Visit, GivenUp
<1>3. CASE CanTakeOver(r, x, bad)
  <2> DEFINE given == IF x.status = "RUNNING" THEN NoApproval ELSE x.latest
             count == IF x.status = "RUNNING" THEN x.recoveries + 1 ELSE x.recoveries
             z == [x EXCEPT !.runtime = rt, !.session = nextSession, !.age = 0,
                            !.delivered = given, !.recoveries = count]
  <2>1. x.ckpt > 0 /\ (x.status = "RUNNING" => ~RecoveriesSpent(x)) /\ r \notin bad
    BY <1>3 DEF CanTakeOver
  <2>2. y = z
    BY <1>3, <2>1, TransportAssumption DEF TakeOver, RunRecord
  <2>3. /\ SameWork(x, z) /\ SameApprovals(x, z) /\ z.lease = x.lease /\ z.age = 0 /\ z.session = nextSession
        /\ z.recoveries = count
    BY DEF SameWork, SameApprovals, RunRecord
  <2>4. x.status = "RUNNING" => x.recoveries + 1 <= MAX_RUN_RECOVERIES
    BY <2>1, TransportAssumption DEF RecoveriesSpent, RunRecord
  <2>5. x.lease = "ACTIVE"
    BY DEF Expired
  <2> HIDE DEF z
  <2>6. HandedOn(x, y)
    BY <1>1, <2>1, <2>2, <2>3, <2>4, <2>5 DEF HandedOn
  <2>7. ~Abandoned(y) /\ ~Claimable(y)
    BY <2>2, <2>3, <2>5 DEF Abandoned, Claimable, Expired
  <2> QED BY <2>6, <2>7 DEF Visit
<1>4. CASE ~CanTakeOver(r, x, bad)
  <2>1. y \in {x, Abandon(x, "RUNTIME_RECOVERY_EXHAUSTED"), Abandon(x, "MANIFEST_INVALID")}
    BY <1>4 DEF TakeOver
  <2>2. {"RUNTIME_RECOVERY_EXHAUSTED", "MANIFEST_INVALID"} \subseteq Reason \ {"APPROVAL_REJECTED", "RUNTIME"}
    BY DEF Reason
  <2> QED BY <1>2, <2>1, <2>2 DEF Visit
<1> QED BY <1>3, <1>4

LEMMA AbandonEnds ==
  ASSUME NEW x \in RunRecord, NEW why \in Reason
  PROVE  /\ Abandon(x, why).status = "CANCELLED" /\ Abandon(x, why).reason = why
         /\ Abandon(x, why).ckpt = 0 /\ Abandon(x, why).session = x.session
         /\ \A s \in Steps : Abandon(x, why).step[s] \notin OpenStep
<1> DEFINE c == Cancel(x, why)
<1>1. /\ c \in RunRecord /\ c.status = "CANCELLED" /\ c.reason = why /\ c.ckpt = 0
      /\ c.session = x.session /\ \A s \in Steps : c.step[s] \notin OpenStep
  BY CancelType, CancelFacts
<1>2. \A s \in Steps : c.step[s] \notin OpenStep
  BY <1>1
<1> HIDE DEF c
<1>3. /\ Close(c).status = c.status /\ Close(c).reason = c.reason /\ Close(c).ckpt = c.ckpt
      /\ Close(c).session = c.session /\ Close(c).step = c.step
  BY <1>1 DEF Close, RunRecord
<1> QED BY <1>1, <1>2, <1>3 DEF Abandon, c

LEMMA HeldPassVisit ==
  ASSUME NEW x \in RunRecord, NEW y, HeldPass(x, y), nextSession \in Nat
  PROVE  Visit(x, y) /\ (y # x => ~Abandoned(y) /\ ~Claimable(y))
<1> SUFFICES ASSUME x.lease = "ACTIVE", NEW rt \in Runtimes, NEW r \in Runs, NEW bad \in SUBSET Runs,
                    y = HeldVisit(rt, r, x, bad)
             PROVE  Visit(x, y) /\ (y # x => ~Abandoned(y) /\ ~Claimable(y))
  BY DEF HeldPass, Visit
<1>1. CASE Terminal(x)
  <2>1. HeldAnswer(rt, r, x, bad) # "run.resume"
    BY <1>1 DEF HeldAnswer, Terminal, TerminalRun, Granted, Unstarted
  <2>2. y = Close(x)
    BY <1>1, <2>1 DEF HeldVisit, Terminal, TerminalRun, Unstarted
  <2>3. y.status = x.status
    BY <2>2 DEF Close, RunRecord
  <2> QED BY <1>1, <2>2, <2>3 DEF Visit, Abandoned, Claimable, Granted, Unstarted, Terminal, TerminalRun
<1>2. CASE ~Terminal(x) /\ Served(rt, r) /\ x.status = "RUNNING" /\ x.age >= 2
  <2>1. y = TakeOver(rt, r, x, bad)
    <3>1. HeldAnswer(rt, r, x, bad) # "run.resume"
      BY <1>2 DEF HeldAnswer, Granted, Unstarted
    <3> QED BY <1>2, <3>1 DEF HeldVisit, Unstarted
  <2> QED BY <1>2, <2>1, TakeOverVisit DEF Expired
<1>3. CASE ~Terminal(x) /\ ~(Served(rt, r) /\ x.status = "RUNNING" /\ x.age >= 2)
  <2>1. CASE HeldAnswer(rt, r, x, bad) = "run.resume"
    <3>1. Granted(x)
      BY <2>1 DEF HeldAnswer
    <3>2. y = [x EXCEPT !.age = 0, !.delivered = x.latest]
      BY <1>3, <2>1, <3>1, TransportAssumption DEF HeldVisit, Granted, Unstarted
    <3>3. SentAgain(x, y) /\ y.lease = "ACTIVE"
      BY <3>1, <3>2 DEF SentAgain, SameWork, SameApprovals, Granted, RunRecord
    <3> QED BY <3>3 DEF Visit, SentAgain, Abandoned, Claimable, Expired
  <2>2. CASE HeldAnswer(rt, r, x, bad) # "run.resume" /\ Unstarted(x) /\ Served(rt, r) /\ x.age >= 1 /\ r \notin bad
    <3>1. y = [x EXCEPT !.age = 0, !.delivered = NoApproval]
      BY <1>3, <2>2 DEF HeldVisit, Unstarted
    <3>2. SentAgain(x, y) /\ y.lease = "ACTIVE"
      BY <2>2, <3>1 DEF SentAgain, SameWork, SameApprovals, Unstarted, RunRecord
    <3> QED BY <3>2 DEF Visit, SentAgain, Abandoned, Claimable, Expired
  <2>3. CASE HeldAnswer(rt, r, x, bad) # "run.resume" /\ Unstarted(x) /\ Served(rt, r) /\ x.age >= 1 /\ r \in bad
    <3>1. y = Abandon(x, "MANIFEST_INVALID") /\ "MANIFEST_INVALID" \in Reason \ {"APPROVAL_REJECTED", "RUNTIME"}
      BY <1>3, <2>3 DEF HeldVisit, Unstarted, Reason
    <3>2. y.status = "CANCELLED"
      BY <3>1, AbandonEnds
    <3>3. GivenUp(x, y)
      BY <2>3, <3>1 DEF GivenUp, Unstarted
    <3> QED BY <3>2, <3>3 DEF Visit, Abandoned, Claimable, Granted, Unstarted
  <2>4. CASE HeldAnswer(rt, r, x, bad) # "run.resume" /\ ~(Unstarted(x) /\ Served(rt, r) /\ x.age >= 1)
    BY <1>3, <2>4 DEF HeldVisit, Visit
  <2> QED BY <2>1, <2>2, <2>3, <2>4
<1> QED BY <1>1, <1>2, <1>3

LEMMA TakePassVisit ==
  ASSUME NEW x \in RunRecord, NEW y, TakePass(x, y), nextSession \in Nat
  PROVE  Visit(x, y) /\ (y # x => ~Claimable(y))
  BY TakeOverVisit DEF TakePass, Abandoned, Visit

LEMMA QueuePassVisit ==
  ASSUME NEW x \in RunRecord, NEW y, QueuePass(x, y), nextSession \in Nat
  PROVE  Visit(x, y)
<1> SUFFICES ASSUME Claimable(x), NEW rt \in Runtimes, NEW r \in Runs, NEW bad \in SUBSET Runs,
                    y = QueueVisit(rt, r, x, bad)
             PROVE  Visit(x, y)
  BY DEF QueuePass, Visit
<1>1. x.status = "QUEUED" /\ (x.lease = "NONE" \/ Expired(x))
  BY DEF Claimable, Unstarted
<1>2. CASE r \in bad
  <2>1. "MANIFEST_INVALID" \in Reason \ {"APPROVAL_REJECTED", "RUNTIME"}
    BY DEF Reason
  <2> QED BY <1>1, <1>2, <2>1 DEF QueueVisit, Visit, GivenUp
<1>3. CASE r \notin bad
  <2>1. y = [x EXCEPT !.lease = "ACTIVE", !.runtime = rt, !.session = nextSession,
                      !.age = 0, !.delivered = NoApproval]
    BY <1>3 DEF QueueVisit
  <2>2. HandedOn(x, y)
    BY <1>1, <2>1 DEF HandedOn, SameWork, SameApprovals, RunRecord
  <2> QED BY <2>2 DEF Visit
<1> QED BY <1>2, <1>3

\* Of a claim's three loops at most one changes a given run: what one of them
\* changed is no longer a candidate of the next.
LEMMA ClaimVisit ==
  ASSUME NEW x \in RunRecord, NEW y, ClaimPass(x, y), nextSession \in Nat
  PROVE  Visit(x, y)
<1>1. PICK d \in RunRecord, e \in RunRecord : HeldPass(x, d) /\ TakePass(d, e) /\ QueuePass(e, y)
  BY DEF ClaimPass
<1>2. CASE d = x /\ e = d
  BY <1>1, <1>2, QueuePassVisit
<1>3. CASE d = x /\ e # d
  <2>1. Visit(x, e) /\ ~Claimable(e)
    BY <1>1, <1>3, TakePassVisit
  <2> QED BY <1>1, <2>1 DEF QueuePass
<1>4. CASE d # x
  <2>1. Visit(x, d) /\ ~Abandoned(d) /\ ~Claimable(d)
    BY <1>1, <1>4, HeldPassVisit
  <2> QED BY <1>1, <2>1 DEF TakePass, QueuePass
<1> QED BY <1>2, <1>3, <1>4
-----------------------------------------------------------------------------
(* The laws of one step.                                                   *)

\* The body of LawfulRuns, for the record of one run.
LawfulStep(x, y) ==
  /\ Terminal(x) => /\ y.status = x.status /\ y.reason = x.reason /\ y.seq = x.seq
                    /\ y.step = x.step /\ y.session = x.session
                    /\ y.lease # x.lease => x.lease = "ACTIVE" /\ y.lease = "CLOSED"
  /\ x.status # y.status /\ x.status # "NONE" => CanTransitionRun(x.status, y.status)
  /\ x.status = "WAITING_FOR_APPROVAL" /\ y.status = "QUEUED" =>
       \E a \in Pending(x) : y.approval[a] = "APPROVED"

\* The record is the same in all that the laws speak of.
Untouched(x, y) == SameWork(x, y) /\ y.session = x.session /\ y.lease = x.lease

\* What a step may do to the checkpoint: nothing, delete it, or add the next one.
CheckpointStep(x, y) ==
  \/ y.ckpt = x.ckpt
  \/ y.ckpt = 0
  \/ y.ckpt = x.ckpt + 1 /\ y.ckptSession = x.session /\ y.session = x.session

Step(x, y) ==
  /\ LawfulStep(x, y)
  /\ CancelClosesSteps(x) => CancelClosesSteps(y)
  /\ CheckpointStep(x, y)

LEMMA UntouchedStep ==
  ASSUME NEW x, NEW y, Untouched(x, y) PROVE Step(x, y)
  BY DEF Untouched, SameWork, Step, LawfulStep, CancelClosesSteps, CheckpointStep

\* A cancellation by the control plane of a run that was active.
LEMMA CancelledStep ==
  ASSUME NEW x, NEW y, x.status \in ActiveRun, y.status = "CANCELLED", y.ckpt = 0,
         \A s \in Steps : y.step[s] \notin OpenStep
  PROVE  Step(x, y)
<1>1. ~Terminal(x) /\ CanTransitionRun(x.status, y.status)
  BY DEF ActiveRun, Terminal, TerminalRun, CanTransitionRun, RunTransitions
<1> QED BY <1>1 DEF Step, LawfulStep, CancelClosesSteps, CheckpointStep

LEMMA VisitStep ==
  ASSUME NEW x \in RunRecord, NEW y, Visit(x, y)
  PROVE  Step(x, y)
<1>1. CASE y = x
  BY <1>1, UntouchedStep DEF Untouched, SameWork
<1>2. CASE Terminal(x) /\ y = Close(x)
  <2>1. /\ SameWork(x, y) /\ y.session = x.session
        /\ y.lease # x.lease => x.lease = "ACTIVE" /\ y.lease = "CLOSED"
    BY <1>2 DEF Close, SameWork, RunRecord
  <2> QED BY <1>2, <2>1 DEF Step, LawfulStep, CancelClosesSteps, CheckpointStep, SameWork, Terminal, TerminalRun
<1>3. CASE GivenUp(x, y)
  BY <1>3, AbandonEnds, CancelledStep DEF GivenUp, ActiveRun
<1>4. CASE SentAgain(x, y)
  BY <1>4, UntouchedStep DEF SentAgain, Untouched
<1>5. CASE HandedOn(x, y)
  <2>1. ~Terminal(x) /\ SameWork(x, y) /\ x.status # "WAITING_FOR_APPROVAL"
    BY <1>5 DEF HandedOn, Terminal, TerminalRun
  <2> QED BY <2>1 DEF Step, LawfulStep, CancelClosesSteps, CheckpointStep, SameWork
<1> QED BY <1>1, <1>2, <1>3, <1>4, <1>5 DEF Visit

LEMMA DecisionStep ==
  ASSUME NEW x \in RunRecord, NEW y, DecisionMade(x, y)
  PROVE  Step(x, y) /\ y.session = x.session
<1>1. PICK a \in Approvals : /\ x.approval[a] = "PENDING"
                             /\ \/ y = Approved(x, a) \/ y = Rejected(x, a)
                                \/ a \in Due(x) /\ y = Lapsed(x)
  BY DEF DecisionMade
<1>2. CASE x.status # "WAITING_FOR_APPROVAL"
  <2>1. Untouched(x, y)
    <3>1. CASE y = Approved(x, a)
      BY <1>2, <3>1 DEF Approved, Untouched, SameWork, RunRecord
    <3>2. CASE y = Rejected(x, a)
      BY <1>2, <3>2 DEF Rejected, Untouched, SameWork, RunRecord
    <3>3. CASE y = Lapsed(x)
      BY <1>2, <3>3, DueExpiredType DEF Lapsed, Untouched, SameWork
    <3> QED BY <1>1, <3>1, <3>2, <3>3
  <2> QED BY <2>1, UntouchedStep DEF Untouched
<1>3. CASE x.status = "WAITING_FOR_APPROVAL" /\ y = Approved(x, a)
  <2>1. /\ y.status = "QUEUED" /\ y.reason = "APPROVAL_GRANTED" /\ y.approval[a] = "APPROVED"
        /\ y.ckpt = x.ckpt /\ y.session = x.session
    <3> DEFINE v == [x EXCEPT !.approval[a] = "APPROVED", !.latest = a, !.overdue = @ \ {a}]
               w == [v EXCEPT !.status = "QUEUED", !.reason = "APPROVAL_GRANTED",
                              !.step = WaitingStepTo(x, a, "PENDING")]
    <3>1. /\ w.status = "QUEUED" /\ w.reason = "APPROVAL_GRANTED" /\ w.approval[a] = "APPROVED"
          /\ w.ckpt = x.ckpt /\ w.session = x.session
      BY DEF RunRecord
    <3>2. y = Updated(w)
      BY <1>3 DEF Approved
    <3>3. w \in RunRecord
      <4>1. v \in RunRecord /\ WaitingStepTo(x, a, "PENDING") \in [Steps -> StepStatus \cup {"NONE"}]
        BY WaitingStepType DEF RunRecord, StepStatus
      <4> HIDE DEF v
      <4> QED BY <4>1 DEF RunRecord, RunStatus, Reason
    <3> HIDE DEF w
    <3> QED BY <3>1, <3>2, <3>3 DEF Updated, RunRecord
  <2>2. ~Terminal(x) /\ CanTransitionRun(x.status, y.status)
    BY <1>3, <2>1 DEF Terminal, TerminalRun, CanTransitionRun, RunTransitions
  <2>3. a \in Pending(x)
    BY <1>1 DEF Pending
  <2> QED BY <2>1, <2>2, <2>3 DEF Step, LawfulStep, CancelClosesSteps, CheckpointStep
<1>4. CASE x.status = "WAITING_FOR_APPROVAL" /\ y = Rejected(x, a)
  <2>1. y.status = "CANCELLED" /\ y.reason = "APPROVAL_REJECTED" /\ y.ckpt = 0 /\ y.session = x.session
    <3> DEFINE v == [x EXCEPT !.approval[a] = "REJECTED", !.overdue = @ \ {a}]
    <3>1. v \in RunRecord /\ v.session = x.session
      BY DEF RunRecord
    <3>2. y = [Stop(v, "CANCELLED", "APPROVAL_REJECTED") EXCEPT !.step = WaitingStepTo(x, a, "CANCELLED")]
      BY <1>4 DEF Rejected
    <3> HIDE DEF v
    <3> QED BY <3>1, <3>2 DEF Stop, RunRecord
  <2>2. ~Terminal(x) /\ CanTransitionRun(x.status, y.status)
    BY <1>4, <2>1 DEF Terminal, TerminalRun, CanTransitionRun, RunTransitions
  <2> QED BY <2>1, <2>2 DEF Step, LawfulStep, CancelClosesSteps, CheckpointStep
<1>5. CASE x.status = "WAITING_FOR_APPROVAL" /\ a \in Due(x) /\ y = Lapsed(x)
  <2> DEFINE z == DueExpired(x)
  <2>1. z \in RunRecord /\ z.session = x.session
    BY DueExpiredType
  <2>2. y = Cancel(z, "APPROVAL_EXPIRED")
    BY <1>5 DEF Lapsed
  <2> HIDE DEF z
  <2>3. /\ y.status = "CANCELLED" /\ y.ckpt = 0 /\ y.session = x.session
        /\ \A s \in Steps : y.step[s] \notin OpenStep
    BY <2>1, <2>2, CancelFacts DEF Reason
  <2> QED BY <1>5, <2>3, CancelledStep DEF ActiveRun
<1> QED BY <1>1, <1>2, <1>3, <1>4, <1>5

\* An event is only accepted of a run that has not ended.
LEMMA EventStep ==
  ASSUME NEW x \in RunRecord, NEW type \in RuntimeEvents, NEW s, NEW session \in Nat, NEW a,
         MayIngest(x, type, s, session, a)
  PROVE  LET y == Renew(EventEffect(x, type, s, session, a)) IN Step(x, y) /\ y.session = x.session
<1> DEFINE z == EventEffect(x, type, s, session, a)
           y == Renew(z)
<1>1. ~Terminal(x) /\ Accepts(x.status, x.reason, type) /\ type \in RuntimeEvent
  BY TransportAssumption DEF MayIngest, Accepts, Terminal
<1>2. z \in RunRecord
  BY <1>1, EventEffectType
<1>3. /\ z.session = x.session /\ (z.ckpt = x.ckpt \/ z.ckpt = 0)
      /\ z.status # x.status => CanTransitionRun(x.status, z.status)
      /\ z.status = "CANCELLED" => z.reason = "RUNTIME"
      /\ ~(x.status = "WAITING_FOR_APPROVAL" /\ z.status = "QUEUED")
  <2>1. CASE type \in {"step.started", "step.completed", "step.failed", "other"}
    <3>1. x.status = "RUNNING"
      BY <1>1, <2>1 DEF Accepts
    <3>2. z.session = x.session /\ z.ckpt = x.ckpt /\ z.status = x.status
      BY <2>1 DEF EventEffect, RunRecord
    <3> QED BY <3>1, <3>2
  <2>2. CASE type \in {"run.started", "run.resumed"}
    <3>1. x.status = "QUEUED"
      BY <1>1, <2>2 DEF Accepts
    <3>2. z.session = x.session /\ z.ckpt = x.ckpt /\ z.status = "RUNNING"
      BY <2>2 DEF EventEffect, RunRecord
    <3> QED BY <3>1, <3>2 DEF CanTransitionRun, RunTransitions
  <2>3. CASE type = "run.paused"
    <3>1. x.status = "RUNNING"
      BY <1>1, <2>3 DEF Accepts
    <3>2. z.session = x.session /\ z.ckpt = x.ckpt /\ z.status = "WAITING_FOR_APPROVAL"
      BY <2>3 DEF EventEffect, EventTarget, RunRecord
    <3> QED BY <3>1, <3>2 DEF CanTransitionRun, RunTransitions
  <2>4. CASE type \in {"run.completed", "run.failed", "run.cancelled"}
    <3>1. CanTransitionRun(x.status, EventTarget(type)) /\ EventTarget(type) # "QUEUED"
      BY <1>1, <2>4 DEF Accepts, EventTarget, CanTransitionRun, RunTransitions
    <3>2. z.session = x.session /\ z.ckpt = 0 /\ z.status = EventTarget(type) /\ z.reason = "RUNTIME"
      BY <2>4 DEF EventEffect, Stop, RunRecord
    <3> QED BY <3>1, <3>2
  <2> QED BY <1>1, <2>1, <2>2, <2>3, <2>4 DEF RuntimeEvent
<1>4. /\ y.session = z.session /\ y.ckpt = z.ckpt /\ y.status = z.status /\ y.reason = z.reason
  <2> HIDE DEF z
  <2> QED BY <1>2 DEF Renew, Touch, Close, RunRecord
<1> HIDE DEF z, y
<1>5. Step(x, y) /\ y.session = x.session
  BY <1>1, <1>3, <1>4 DEF Step, LawfulStep, CancelClosesSteps, CheckpointStep
<1> QED BY <1>5 DEF y, z

LEMMA RequestStep ==
  ASSUME NEW x \in RunRecord, NEW y, Request(x, y)
  PROVE  Step(x, y) /\ y.session = x.session
<1>1. CASE y = Touch(x)
  <2>1. Untouched(x, y)
    BY <1>1 DEF Touch, Untouched, SameWork, RunRecord
  <2> QED BY <2>1, UntouchedStep DEF Untouched
<1>2. CASE \E type \in RuntimeEvents, s \in Steps \cup {NoStep}, session \in Nat, a \in Named(x) :
             /\ MayIngest(x, type, s, session, a)
             /\ y = Renew(EventEffect(x, type, s, session, a))
  BY <1>2, EventStep
<1>3. CASE y = Renew(x)
  <2>1. CASE Terminal(x)
    <3>1. Visit(x, y) /\ y.session = x.session
      BY <1>3, <2>1 DEF Renew, Visit, Close, RunRecord
    <3> QED BY <3>1, VisitStep
  <2>2. CASE ~Terminal(x)
    BY <1>1, <1>3, <2>2 DEF Renew, Touch, Untouched, SameWork, RunRecord, Step, LawfulStep,
       CancelClosesSteps, CheckpointStep
  <2> QED BY <2>1, <2>2
<1>4. CASE \E s \in Steps, a \in Approvals : MayPause(x, s, a) /\ y = Paused(x, s, a)
  <2>1. /\ x.status = "RUNNING" /\ y.status = "WAITING_FOR_APPROVAL"
        /\ y.ckpt = x.ckpt /\ y.session = x.session
    BY <1>4 DEF MayPause, Paused, Updated, RunRecord
  <2> QED BY <2>1 DEF Step, LawfulStep, CancelClosesSteps, CheckpointStep, Terminal, TerminalRun,
             CanTransitionRun, RunTransitions
<1>5. CASE \E session, version, sequence \in Nat :
             MaySave(x, session, version, sequence) /\ y = Saved(x, session, version, sequence)
  <2>1. /\ x.status \in {"RUNNING", "WAITING_FOR_APPROVAL"} /\ y.status = x.status
        /\ y.ckpt = x.ckpt + 1 /\ y.ckptSession = x.session /\ y.session = x.session
    BY <1>5 DEF MaySave, NextVersion, Saved, Touch, RunRecord
  <2> QED BY <2>1 DEF Step, LawfulStep, CancelClosesSteps, CheckpointStep, Terminal, TerminalRun
<1> QED BY <1>1, <1>2, <1>3, <1>4, <1>5 DEF Request

\* What a step of the system that is no claim does to a run.
LEMMA OtherStep ==
  ASSUME NEW x \in RunRecord, NEW y, RecordStep(x, y), ~ClaimPass(x, y)
  PROVE  Step(x, y) /\ y.session = x.session
<1>1. CASE y = x
  BY <1>1, UntouchedStep DEF Untouched, SameWork
<1>2. CASE Created(x, y)
  <2>1. x.status = "NONE" /\ y.status = "QUEUED" /\ y.ckpt = x.ckpt /\ y.session = x.session
    BY <1>2 DEF Created, RunRecord
  <2> QED BY <2>1 DEF Step, LawfulStep, CancelClosesSteps, CheckpointStep, Terminal, TerminalRun
<1>3. CASE CancelledByOwner(x, y)
  <2>1. /\ y.status = "CANCELLED" /\ y.ckpt = 0 /\ y.session = x.session /\ x.status \in ActiveRun
        /\ \A s \in Steps : y.step[s] \notin OpenStep
    BY <1>3, CancelFacts DEF CancelledByOwner, Reason
  <2> QED BY <2>1, CancelledStep
<1>4. CASE DecisionMade(x, y)
  BY <1>4, DecisionStep
<1>5. CASE Aged(x, y) \/ Late(x, y)
  <2>1. Untouched(x, y)
    BY <1>5 DEF Aged, Late, Untouched, SameWork, RunRecord
  <2> QED BY <2>1, UntouchedStep DEF Untouched
<1>6. CASE y = Reaped(x) /\ y # x
  <2>1. GivenUp(x, y)
    BY <1>6 DEF Reaped, Abandoned, Granted, GivenUp, Reason
  <2>2. y.session = x.session
    BY <2>1, AbandonEnds DEF GivenUp
  <2> QED BY <2>1, <2>2, VisitStep DEF Visit
<1>7. CASE Request(x, y)
  BY <1>7, RequestStep
<1> QED BY <1>1, <1>2, <1>3, <1>4, <1>5, <1>6, <1>7 DEF RecordStep

LEMMA EveryStep ==
  ASSUME NEW x \in RunRecord, NEW y, RecordStep(x, y), nextSession \in Nat
  PROVE  Step(x, y)
  BY ClaimVisit, VisitStep, OtherStep

\* The ended runs of the system are immutable, every change of status is one of
\* RunTransitions, and no step but a decision releases a waiting run
\* (transitionRun, decideRuntimeEvent, onApprovalDecided), whatever is sent and
\* whatever the runtimes emit.
THEOREM LawfulRunsHold == Spec => LawfulRuns
<1>1. ASSUME TypeOK, [Next]_vars, NEW r \in Runs PROVE LawfulStep(db[r], db'[r])
  <2>1. CASE Next
    <3>1. StepShape
      BY <1>1, <2>1, NextShape
    <3> QED BY <1>1, <3>1, EveryStep DEF StepShape, RecordsShape, TypeOK, Step
  <2>2. CASE UNCHANGED vars
    <3>1. Untouched(db[r], db'[r])
      BY <2>2 DEF vars, Untouched, SameWork
    <3> QED BY <3>1, UntouchedStep DEF Step
  <2> QED BY <1>1, <2>1, <2>2
<1>2. TypeOK /\ [Next]_vars =>
        [\A r \in Runs :
           LET x == db[r] y == db'[r] IN
           /\ Terminal(x) => /\ y.status = x.status /\ y.reason = x.reason /\ y.seq = x.seq
                             /\ y.step = x.step /\ y.session = x.session
                             /\ y.lease # x.lease => x.lease = "ACTIVE" /\ y.lease = "CLOSED"
           /\ x.status # y.status /\ x.status # "NONE" => CanTransitionRun(x.status, y.status)
           /\ x.status = "WAITING_FOR_APPROVAL" /\ y.status = "QUEUED" =>
                \E a \in Pending(x) : y.approval[a] = "APPROVED"]_db
  BY <1>1 DEF LawfulStep
<1> QED BY <1>2, TypeCorrect, PTL DEF Spec, LawfulRuns

\* A cancellation by the control plane (cancelRun) leaves no step open, and no
\* later message opens one again.
THEOREM CancelledStepsClosedHolds == Spec => []CancelledStepsClosed
<1>1. Init => CancelledStepsClosed
  BY DEF Init, Absent, CancelledStepsClosed, CancelClosesSteps
<1>2. ASSUME TypeOK, CancelledStepsClosed, [Next]_vars PROVE CancelledStepsClosed'
  <2>1. CASE Next
    <3>1. StepShape
      BY <1>2, <2>1, NextShape
    <3>2. ASSUME NEW r \in Runs PROVE CancelClosesSteps(db'[r])
      BY <1>2, <3>1, EveryStep DEF StepShape, RecordsShape, TypeOK, Step, CancelledStepsClosed
    <3> QED BY <3>2 DEF CancelledStepsClosed, CancelClosesSteps
  <2>2. CASE UNCHANGED vars
    BY <1>2, <2>2 DEF vars, CancelledStepsClosed, CancelClosesSteps
  <2> QED BY <1>2, <2>1, <2>2
<1> QED BY <1>1, <1>2, TypeCorrect, PTL DEF Spec

\* All that the stored parts of a run say together, in every reachable state.
THEOREM RunsSoundHolds ==
  ASSUME "run.paused" \notin RuntimeEvents
  PROVE  Spec => []RunsSound
<1>1. TypeOK /\ Inductive /\ CancelledStepsClosed => RunsSound
  BY DEF Inductive, RunInv, RunsSound, ApprovalGate, Resumable, StepsFollowRun, CleanEnd
<1> QED BY <1>1, TypeCorrect, RunsInvariant, CancelledStepsClosedHolds, PTL

-----------------------------------------------------------------------------
(* Hand-overs and checkpoints.                                             *)

\* A run changes hands only when nobody held it or its lease had expired, a
\* running one with a checkpoint and within MAX_RUN_RECOVERIES, and under a
\* session no runtime was ever given (claimAbandoned, takeOver, claimQueued).
THEOREM HandOverHolds == Spec => HandOver
<1>1. ASSUME TypeOK, [Next]_vars, NEW r \in Runs, db'[r].session # db[r].session
      PROVE  /\ db[r].lease = "NONE" \/ Expired(db[r])
             /\ db'[r].session >= nextSession
             /\ db[r].status = "RUNNING" =>
                  /\ db[r].ckpt > 0
                  /\ db'[r].recoveries = db[r].recoveries + 1
                  /\ db'[r].recoveries <= MAX_RUN_RECOVERIES
  <2>1. Next /\ StepShape
    BY <1>1, NextShape DEF vars
  <2>2. ClaimPass(db[r], db'[r]) /\ db[r] \in RunRecord /\ nextSession \in Nat
    BY <1>1, <2>1, OtherStep DEF StepShape, RecordsShape, TypeOK
  <2>3. Visit(db[r], db'[r])
    BY <2>2, ClaimVisit
  <2>4. HandedOn(db[r], db'[r])
    <3>1. ~(db'[r] = Close(db[r]))
      BY <1>1, <2>2 DEF Close, RunRecord
    <3>2. ~GivenUp(db[r], db'[r])
      BY <1>1, <2>2, AbandonEnds DEF GivenUp
    <3> QED BY <1>1, <2>3, <3>1, <3>2 DEF Visit, SentAgain
  <2> QED BY <2>2, <2>4 DEF HandedOn
<1>2. TypeOK /\ [Next]_vars =>
        [\A r \in Runs :
           db'[r].session # db[r].session =>
             /\ db[r].lease = "NONE" \/ Expired(db[r])
             /\ db'[r].session >= nextSession
             /\ db[r].status = "RUNNING" =>
                  /\ db[r].ckpt > 0
                  /\ db'[r].recoveries = db[r].recoveries + 1
                  /\ db'[r].recoveries <= MAX_RUN_RECOVERIES]_db
  BY <1>1
<1> QED BY <1>2, TypeCorrect, PTL DEF Spec, HandOver

\* The fence of ADR 0032: a checkpoint is followed only by the next one, written
\* under the session that holds the lease, which is never an earlier one
\* (saveCheckpoint).
THEOREM CheckpointFenceHolds ==
  ASSUME "run.paused" \notin RuntimeEvents
  PROVE  Spec => CheckpointFence
<1>1. ASSUME TypeOK, Inductive, [Next]_vars, NEW r \in Runs,
             db'[r].ckpt # db[r].ckpt, db'[r].ckpt # 0
      PROVE  /\ db'[r].ckpt = db[r].ckpt + 1
             /\ db'[r].ckptSession = db[r].session /\ db'[r].session = db[r].session
             /\ db'[r].ckptSession >= db[r].ckptSession
  <2>1. Next /\ StepShape
    BY <1>1, NextShape DEF vars
  <2>2. CheckpointStep(db[r], db'[r])
    BY <1>1, <2>1, EveryStep DEF StepShape, RecordsShape, TypeOK, Step
  <2>3. db[r].ckptSession <= db[r].session /\ db[r].session \in Nat /\ db[r].ckptSession \in Nat
    BY <1>1 DEF Inductive, RunInv, CheckpointFits, TypeOK, RunRecord
  <2> QED BY <1>1, <2>2, <2>3 DEF CheckpointStep
<1>2. TypeOK /\ Inductive /\ [Next]_vars =>
        [\A r \in Runs :
           db'[r].ckpt # db[r].ckpt /\ db'[r].ckpt # 0 =>
             /\ db'[r].ckpt = db[r].ckpt + 1
             /\ db'[r].ckptSession = db[r].session /\ db'[r].session = db[r].session
             /\ db'[r].ckptSession >= db[r].ckptSession]_db
  BY <1>1
<1> QED BY <1>2, TypeCorrect, RunsInvariant, PTL DEF Spec, CheckpointFence

-----------------------------------------------------------------------------
(* One active run per thread.                                              *)

\* A run that was not created yet is left alone by everything but its creation.
LEMMA UncreatedStep ==
  ASSUME NEW x \in RunRecord, NEW y, RecordStep(x, y), nextSession \in Nat, x.status = "NONE"
  PROVE  y.status = "NONE" \/ Created(x, y)
<1>1. /\ ~Terminal(x) /\ ~Granted(x) /\ ~Unstarted(x)
      /\ x.status \notin ActiveRun /\ x.status \notin {"QUEUED", "RUNNING", "WAITING_FOR_APPROVAL"}
  BY DEF Terminal, TerminalRun, Granted, Unstarted, ActiveRun
<1>2. CASE DecisionMade(x, y)
  <2>1. ASSUME NEW a \in Approvals PROVE Approved(x, a).status = "NONE" /\ Rejected(x, a).status = "NONE"
    BY <1>1 DEF Approved, Rejected, RunRecord
  <2>2. Lapsed(x).status = "NONE"
    BY <1>1, DueExpiredType DEF Lapsed
  <2> QED BY <1>2, <2>1, <2>2 DEF DecisionMade
<1>3. CASE ClaimPass(x, y)
  <2>1. Visit(x, y)
    BY <1>3, ClaimVisit
  <2> QED BY <1>1, <2>1 DEF Visit, GivenUp, SentAgain, HandedOn
<1>4. CASE Request(x, y)
  <2>1. ASSUME NEW type \in RuntimeEvents, NEW s, NEW session, NEW a PROVE ~MayIngest(x, type, s, session, a)
    BY <1>1 DEF MayIngest, Accepts, CanTransitionRun, RunTransitions
  <2>2. y = Touch(x) \/ y = Renew(x)
    BY <1>1, <1>4, <2>1 DEF Request, MayPause, MaySave, NextVersion
  <2> QED BY <2>2 DEF Renew, Touch, Close, RunRecord
<1>5. CASE Late(x, y) \/ Aged(x, y)
  BY <1>5 DEF Late, Aged, RunRecord
<1>6. CASE CancelledByOwner(x, y) \/ y = Reaped(x)
  BY <1>1, <1>6 DEF CancelledByOwner, Reaped, Abandoned
<1> QED BY <1>2, <1>3, <1>4, <1>5, <1>6 DEF RecordStep

\* Nothing but createRun makes a run active: what ended never starts again.
LEMMA OnlyCreationActivates ==
  ASSUME TypeOK, [Next]_vars, NEW r \in Runs,
         db[r].status \notin ActiveRun, db'[r].status \in ActiveRun
  PROVE  CreateRun(r)
<1>1. Next /\ StepShape
  BY NextShape DEF vars
<1>2. db[r] \in RunRecord /\ RecordStep(db[r], db'[r]) /\ nextSession \in Nat
  BY <1>1 DEF StepShape, RecordsShape, TypeOK
<1>3. db[r].status = "NONE"
  <2>1. Terminal(db[r]) => db'[r].status = db[r].status
    BY <1>2, EveryStep DEF Step, LawfulStep
  <2> QED BY <1>2, <2>1 DEF RunRecord, RunStatus, Terminal, TerminalRun, ActiveRun
<1>4. Created(db[r], db'[r])
  BY <1>2, <1>3, UncreatedStep DEF ActiveRun
<1>5. PICK q \in Runs : db[r] = db[q] /\ CreateRun(q)
  BY <1>4 DEF Created
<1>6. q = r
  BY <1>5 DEF CreateRun, Put, TypeOK
<1> QED BY <1>5, <1>6
\* One active run per thread (ADR 0008), although requests, approvals, expiries,
\* claims and the reaper move runs meanwhile: createRun's check is enough.
THEOREM OneActiveRunPerThreadHolds == Spec => []OneActiveRunPerThread
<1>1. Init => OneActiveRunPerThread
  BY DEF Init, Absent, OneActiveRunPerThread, ActiveRun
<1>2. ASSUME TypeOK, OneActiveRunPerThread, [Next]_vars PROVE OneActiveRunPerThread'
  <2>1. ASSUME NEW r \in Runs, NEW q \in Runs, r # q, ThreadOf[r] = ThreadOf[q],
               db'[r].status \in ActiveRun, db'[q].status \in ActiveRun,
               db[r].status \notin ActiveRun
        PROVE  FALSE
    <3>1. CreateRun(r)
      BY <1>2, <2>1, OnlyCreationActivates
    <3>2. db[q].status \notin ActiveRun /\ db'[q] = db[q]
      BY <2>1, <3>1 DEF CreateRun, Put, TypeOK
    <3> QED BY <2>1, <3>2
  <2>2. SUFFICES ASSUME NEW r \in Runs, NEW q \in Runs, r # q, ThreadOf[r] = ThreadOf[q],
                        db'[r].status \in ActiveRun, db'[q].status \in ActiveRun
                 PROVE  FALSE
    BY DEF OneActiveRunPerThread
  <2>3. CASE db[r].status \in ActiveRun /\ db[q].status \in ActiveRun
    BY <1>2, <2>2, <2>3 DEF OneActiveRunPerThread
  <2> QED BY <2>1, <2>2, <2>3
<1> QED BY <1>1, <1>2, TypeCorrect, PTL DEF Spec
-----------------------------------------------------------------------------
(* One command per claim.                                                  *)

\* A visit that answers nothing: the loop goes on to the next run.
SilentVisit(x, y) ==
  y = x \/ (Terminal(x) /\ x.status # "CANCELLED" /\ y = Close(x)) \/ GivenUp(x, y)

\* What only a visit that answers with a command does to a run.
Commanded(x, y) ==
  \/ y.session # x.session
  \/ y.lease = "ACTIVE" /\ y.age < x.age
  \/ x.status = "CANCELLED" /\ y.lease # x.lease

LEMMA SilentIsNoCommand ==
  ASSUME NEW x \in RunRecord, NEW y, SilentVisit(x, y)
  PROVE  /\ ~Commanded(x, y)
         /\ y # x => ~Abandoned(y) /\ ~Claimable(y)
<1>1. CASE y = x
  BY <1>1 DEF Commanded, RunRecord, Age
<1>2. CASE Terminal(x) /\ x.status # "CANCELLED" /\ y = Close(x)
  <2>1. /\ y.session = x.session /\ y.status = x.status /\ y.age = x.age
        /\ y.lease # "ACTIVE"
    BY <1>2 DEF Close, RunRecord
  <2> QED BY <1>2, <2>1 DEF Commanded, Abandoned, Claimable, Granted, Unstarted, Terminal, TerminalRun
<1>3. CASE GivenUp(x, y)
  <2>1. PICK why \in Reason \ {"APPROVAL_REJECTED", "RUNTIME"} : y = Abandon(x, why)
    BY <1>3 DEF GivenUp
  <2>2. y.status = "CANCELLED" /\ y.session = x.session
    BY <2>1, AbandonEnds
  <2>3. y.lease # "ACTIVE"
    BY <2>1, CancelType DEF Abandon, Close, RunRecord
  <2>4. x.status # "CANCELLED"
    BY <1>3 DEF GivenUp
  <2> QED BY <2>2, <2>3, <2>4 DEF Commanded, Abandoned, Claimable, Granted, Unstarted
<1> QED BY <1>1, <1>2, <1>3 DEF SilentVisit

LEMMA RefusedTakeOver ==
  ASSUME NEW x \in RunRecord, NEW rt, NEW r, NEW bad,
         x.status \in {"QUEUED", "RUNNING"}, ~CanTakeOver(r, x, bad)
  PROVE  SilentVisit(x, TakeOver(rt, r, x, bad))
<1>1. TakeOver(rt, r, x, bad) \in {x, Abandon(x, "RUNTIME_RECOVERY_EXHAUSTED"), Abandon(x, "MANIFEST_INVALID")}
  BY DEF TakeOver
<1>2. {"RUNTIME_RECOVERY_EXHAUSTED", "MANIFEST_INVALID"} \subseteq Reason \ {"APPROVAL_REJECTED", "RUNTIME"}
  BY DEF Reason
<1> QED BY <1>1, <1>2 DEF SilentVisit, GivenUp

LEMMA SilentHeldVisit ==
  ASSUME NEW x \in RunRecord, NEW rt, NEW r, NEW bad, HeldAnswer(rt, r, x, bad) = "none"
  PROVE  SilentVisit(x, HeldVisit(rt, r, x, bad))
<1> DEFINE y == HeldVisit(rt, r, x, bad)
<1>1. CASE Terminal(x)
  <2>1. x.status # "CANCELLED"
    BY DEF HeldAnswer
  <2>2. y = Close(x)
    BY <1>1 DEF HeldVisit, Terminal, TerminalRun, Unstarted
  <2> QED BY <1>1, <2>1, <2>2 DEF SilentVisit
<1>2. CASE ~Terminal(x) /\ Served(rt, r) /\ x.status = "RUNNING" /\ x.age >= 2
  <2>1. y = TakeOver(rt, r, x, bad)
    BY <1>2 DEF HeldVisit, Unstarted
  <2>2. ~CanTakeOver(r, x, bad)
    BY <1>2 DEF HeldAnswer, Granted, Unstarted
  <2> QED BY <1>2, <2>1, <2>2, RefusedTakeOver
<1>3. CASE ~Terminal(x) /\ ~(Served(rt, r) /\ x.status = "RUNNING" /\ x.age >= 2)
  <2>1. CASE Served(rt, r) /\ Unstarted(x) /\ x.age >= 1
    <3>1. r \in bad
      BY <1>3, <2>1, TransportAssumption DEF HeldAnswer, Granted, Unstarted
    <3>2. y = Abandon(x, "MANIFEST_INVALID") /\ "MANIFEST_INVALID" \in Reason \ {"APPROVAL_REJECTED", "RUNTIME"}
      BY <1>3, <2>1, <3>1 DEF HeldVisit, Unstarted, Reason
    <3> QED BY <2>1, <3>2 DEF SilentVisit, GivenUp, Unstarted
  <2>2. CASE ~(Served(rt, r) /\ Unstarted(x) /\ x.age >= 1)
    BY <1>3, <2>2 DEF HeldVisit, SilentVisit
  <2> QED BY <2>1, <2>2
<1> QED BY <1>1, <1>2, <1>3

\* The first loop without an answer, and the second after it.
LEMMA SilentFirst ==
  ASSUME TypeOK, NEW rt \in Runtimes, NEW bad \in SUBSET Runs,
         NEW seen \in SUBSET SilentHeld(rt, bad), NEW q \in Runs
  PROVE  SilentVisit(db[q], AfterHeld(rt, seen, bad)[q])
<1>1. CASE q \in seen
  <2>1. HeldAnswer(rt, q, db[q], bad) = "none" /\ db[q] \in RunRecord
    BY <1>1 DEF SilentHeld, TypeOK
  <2>2. AfterHeld(rt, seen, bad)[q] = HeldVisit(rt, q, db[q], bad)
    BY <1>1 DEF AfterHeld
  <2> QED BY <2>1, <2>2, SilentHeldVisit
<1>2. CASE q \notin seen
  BY <1>2 DEF AfterHeld, SilentVisit
<1> QED BY <1>1, <1>2

LEMMA SilentSecond ==
  ASSUME TypeOK, NEW rt \in Runtimes, NEW bad \in SUBSET Runs, NEW d, NEW seen,
         d = AfterHeld(rt, HeldBy(rt), bad), HeldBy(rt) = SilentHeld(rt, bad),
         seen \subseteq {p \in AbandonedFor(rt, d) : ~CanTakeOver(p, d[p], bad)}, NEW q \in Runs
  PROVE  SilentVisit(db[q], AfterAbandoned(rt, d, seen, bad)[q])
<1>1. SilentVisit(db[q], d[q]) /\ db[q] \in RunRecord
  BY SilentFirst DEF TypeOK
<1>2. CASE q \in seen
  <2>1. Abandoned(d[q]) /\ ~CanTakeOver(q, d[q], bad)
    BY <1>2 DEF AbandonedFor
  <2>2. d[q] = db[q]
    BY <1>1, <2>1, SilentIsNoCommand
  <2>3. db[q].status \in {"QUEUED", "RUNNING"}
    BY <2>1, <2>2 DEF Abandoned, Granted
  <2>4. AfterAbandoned(rt, d, seen, bad)[q] = TakeOver(rt, q, d[q], bad)
    BY <1>2 DEF AfterAbandoned
  <2> QED BY <1>1, <2>1, <2>2, <2>3, <2>4, RefusedTakeOver
<1>3. CASE q \notin seen
  BY <1>1, <1>3 DEF AfterAbandoned
<1> QED BY <1>2, <1>3

LEMMA SilentThird ==
  ASSUME TypeOK, NEW rt \in Runtimes, NEW bad \in SUBSET Runs, NEW e, NEW seen \in SUBSET Runs, NEW q \in Runs,
         SilentVisit(db[q], e[q]), q \in seen => q \in bad /\ Claimable(e[q])
  PROVE  SilentVisit(db[q], AfterQueued(rt, e, seen, bad)[q])
<1>1. CASE q \in seen
  <2>1. e[q] = db[q] /\ db[q].status = "QUEUED"
    BY <1>1, SilentIsNoCommand DEF Claimable, Unstarted, TypeOK
  <2>2. AfterQueued(rt, e, seen, bad)[q] = Abandon(db[q], "MANIFEST_INVALID")
    BY <1>1, <2>1 DEF AfterQueued, QueueVisit
  <2>3. "MANIFEST_INVALID" \in Reason \ {"APPROVAL_REJECTED", "RUNTIME"}
    BY DEF Reason
  <2> QED BY <2>1, <2>2, <2>3 DEF SilentVisit, GivenUp
<1>2. CASE q \notin seen
  BY <1>2 DEF AfterQueued
<1> QED BY <1>1, <1>2

\* The loops of a claim are silent for every run but the one it answers about.
LEMMA ClaimSilent ==
  ASSUME TypeOK, NEW rt \in Runtimes, Claim(rt)
  PROVE  \E r \in Runs \cup {NoRuntime} : \A q \in Runs \ {r} : SilentVisit(db[q], db'[q])
<1>1. PICK bad \in SUBSET Runs :
        \/ \E r \in Runs, before \in SUBSET Runs :
             \/ \E command \in {"run.cancel", "run.recover", "run.resume", "run.submit"} :
                  ClaimHeld(rt, r, before, bad, command)
             \/ ClaimAbandoned(rt, r, before, bad)
             \/ ClaimQueued(rt, r, before, bad)
        \/ ClaimNothing(rt, bad)
  BY DEF Claim
<1> DEFINE d == AfterHeld(rt, HeldBy(rt), bad)
           e == AfterAbandoned(rt, d, AbandonedFor(rt, d), bad)
<1>2. ASSUME NEW r \in Runs, NEW before \in SUBSET Runs, NEW command, ClaimHeld(rt, r, before, bad, command)
      PROVE  \A q \in Runs \ {r} : SilentVisit(db[q], db'[q])
  <2> TAKE q \in Runs \ {r}
  <2>1. SilentVisit(db[q], AfterHeld(rt, before, bad)[q])
    BY <1>2, SilentFirst DEF ClaimHeld
  <2>2. db'[q] = AfterHeld(rt, before, bad)[q]
    BY <1>2 DEF ClaimHeld, AfterHeld
  <2> QED BY <2>1, <2>2
<1>3. ASSUME NEW r \in Runs, NEW before \in SUBSET Runs, ClaimAbandoned(rt, r, before, bad)
      PROVE  \A q \in Runs \ {r} : SilentVisit(db[q], db'[q])
  <2> TAKE q \in Runs \ {r}
  <2>1. /\ HeldBy(rt) = SilentHeld(rt, bad)
        /\ before \subseteq {p \in AbandonedFor(rt, d) : ~CanTakeOver(p, d[p], bad)}
        /\ db' = AfterAbandoned(rt, d, before \cup {r}, bad)
    BY <1>3 DEF ClaimAbandoned
  <2> HIDE DEF d
  <2>2. SilentVisit(db[q], AfterAbandoned(rt, d, before, bad)[q])
    BY <2>1, SilentSecond DEF d
  <2>3. db'[q] = AfterAbandoned(rt, d, before, bad)[q]
    BY <2>1 DEF AfterAbandoned
  <2> QED BY <2>2, <2>3
<1>4. ASSUME HeldBy(rt) = SilentHeld(rt, bad),
             \A p \in AbandonedFor(rt, d) : ~CanTakeOver(p, d[p], bad), NEW q \in Runs
      PROVE  SilentVisit(db[q], e[q])
  <2> HIDE DEF d
  <2> QED BY <1>4, SilentSecond DEF d
<1>5. ASSUME NEW r \in Runs, NEW before \in SUBSET Runs, ClaimQueued(rt, r, before, bad)
      PROVE  \A q \in Runs \ {r} : SilentVisit(db[q], db'[q])
  <2> TAKE q \in Runs \ {r}
  <2>1. /\ HeldBy(rt) = SilentHeld(rt, bad)
        /\ \A p \in AbandonedFor(rt, d) : ~CanTakeOver(p, d[p], bad)
        /\ before \subseteq ClaimableFor(rt, e) \cap bad
        /\ db' = AfterQueued(rt, e, before \cup {r}, bad)
    BY <1>5 DEF ClaimQueued
  <2>2. SilentVisit(db[q], e[q])
    BY <1>4, <2>1
  <2> HIDE DEF d, e
  <2>3. SilentVisit(db[q], AfterQueued(rt, e, before, bad)[q])
    BY <2>1, <2>2, SilentThird DEF ClaimableFor
  <2>4. db'[q] = AfterQueued(rt, e, before, bad)[q]
    BY <2>1 DEF AfterQueued
  <2> QED BY <2>3, <2>4
<1>6. ASSUME ClaimNothing(rt, bad), NEW q \in Runs
      PROVE  SilentVisit(db[q], db'[q])
  <2>1. /\ HeldBy(rt) = SilentHeld(rt, bad)
        /\ \A p \in AbandonedFor(rt, d) : ~CanTakeOver(p, d[p], bad)
        /\ ClaimableFor(rt, e) \subseteq bad
        /\ db' = AfterQueued(rt, e, ClaimableFor(rt, e), bad)
    BY <1>6 DEF ClaimNothing
  <2>2. SilentVisit(db[q], e[q])
    BY <1>4, <2>1
  <2> HIDE DEF d, e
  <2>3. ClaimableFor(rt, e) \in SUBSET Runs /\ \A p \in ClaimableFor(rt, e) : p \in bad /\ Claimable(e[p])
    BY <2>1 DEF ClaimableFor
  <2> QED BY <2>1, <2>2, <2>3, SilentThird
<1> QED BY <1>1, <1>2, <1>3, <1>5, <1>6

\* A claim renews, hands over or closes the lease of one run at most, so no
\* command is marked as delivered that the response does not carry (claim).
THEOREM OneCommandPerClaimHolds == Spec => OneCommandPerClaim
<1> DEFINE carried == {r \in Runs : LET x == db[r] y == db'[r] IN
                         \/ y.session # x.session
                         \/ y.lease = "ACTIVE" /\ y.age < x.age
                         \/ x.status = "CANCELLED" /\ y.lease # x.lease}
<1>1. carried = {r \in Runs : Commanded(db[r], db'[r])}
  BY DEF Commanded
<1>2. ASSUME TypeOK, [Next]_vars, NEW rt \in Runtimes, poll[rt] = "reaped", poll'[rt] = "idle"
      PROVE  Cardinality(carried) <= 1
  <2>1. \E r \in Runs \cup {NoRuntime} : \A q \in Runs \ {r} : ~Commanded(db[q], db'[q])
    <3>1. CASE \E p \in Runtimes : Claim(p)
      <4>1. PICK p \in Runtimes : Claim(p)
        BY <3>1
      <4>2. PICK r \in Runs \cup {NoRuntime} : \A q \in Runs \ {r} : SilentVisit(db[q], db'[q])
        BY <1>2, <4>1, ClaimSilent
      <4>3. \A q \in Runs : db[q] \in RunRecord
        BY <1>2 DEF TypeOK
      <4> QED BY <4>2, <4>3, SilentIsNoCommand
    <3>2. CASE UNCHANGED db
      <4>1. \A q \in Runs : db[q] \in RunRecord /\ SilentVisit(db[q], db'[q])
        BY <1>2, <3>2 DEF TypeOK, SilentVisit
      <4> QED BY <4>1, SilentIsNoCommand
    <3>3. UNCHANGED db \/ \E p \in Runtimes : Claim(p)
      <4>1. ASSUME NEW p \in Runtimes, ClaimReap(p) PROVE FALSE
        BY <1>2, <4>1 DEF ClaimReap, TypeOK
      <4>3. ASSUME NEW p \in Runtimes, ClaimExpire(p) PROVE FALSE
        BY <1>2, <4>3 DEF ClaimExpire, TypeOK
      <4>2. ASSUME NEW p \in Runtimes, RuntimeRequest(p) PROVE FALSE
        BY <1>2, <4>2 DEF RuntimeRequest, Heartbeat, Ingest, IngestDuplicate, PauseForApproval, SaveCheckpoint
      <4> QED BY <1>2, <4>1, <4>2, <4>3 DEF Next, vars, CreateRun, CancelOwnRun, Tick, Approve, Reject,
                 Deadline, ExpireDue, Housekeeping, RestartApi
    <3> QED BY <3>1, <3>2, <3>3
  <2>2. PICK r \in Runs \cup {NoRuntime} : \A q \in Runs \ {r} : ~Commanded(db[q], db'[q])
    BY <2>1
  <2>3. carried \subseteq {r}
    BY <1>1, <2>2
  <2> HIDE DEF carried
  <2>4. IsFiniteSet({r}) /\ Cardinality({r}) = 1
    BY FS_Singleton
  <2> QED BY <2>3, <2>4, FS_Subset, FS_CardinalityType
<1>3. TypeOK /\ [Next]_vars =>
        [(\E rt \in Runtimes : poll[rt] = "reaped" /\ poll'[rt] = "idle") =>
           Cardinality(carried) <= 1]_vars
  BY <1>2
<1> QED BY <1>3, TypeCorrect, PTL DEF Spec, OneCommandPerClaim
=============================================================================
