------------------------ MODULE ActionGatewayProofs ------------------------
(***************************************************************************)
(* Proofs about ActionGateway, for any requests, runs, threads, actions    *)
(* and payloads, whether or not anything is delivered late.  The first     *)
(* part says what each transaction does to one request's record; the       *)
(* second that every step keeps ActInv for every record; the last that     *)
(* every step is one of GovernedWrites or changes nothing it names.        *)
(***************************************************************************)
EXTENDS ActionGateway, TLAPS

Good(w, x) == x \in ActRecord /\ ActInv(w, x)

-----------------------------------------------------------------------------
(* One record at a time.                                                    *)

\* A request nobody has asked for is consistent.
LEMMA NotAskedGood == ASSUME NEW w \in Requests PROVE Good(w, NotAsked)
  BY GatewayAssumption DEF Good, NotAsked, ActRecord, ActInv

\* The deadline of an approval passes (DeadlinePasses).
LEMMA DeadlineGood ==
  ASSUME NEW w \in Requests, NEW x, Good(w, x)
  PROVE  Good(w, [x EXCEPT !.due = TRUE])
<1> DEFINE y == [x EXCEPT !.due = TRUE]
<1>1. /\ y \in ActRecord
      /\ y.decision = x.decision /\ y.approval = x.approval /\ y.exec = x.exec /\ y.code = x.code
      /\ y.stale = x.stale /\ y.recon = x.recon /\ y.call = x.call /\ y.sends = x.sends /\ y.world = x.world
  BY DEF Good, ActRecord
<1> HIDE DEF y
<1>2. ActInv(w, y)  BY <1>1 DEF Good, ActInv
<1> QED  BY <1>1, <1>2 DEF Good, y

\* A request is decided (Decide).
LEMMA DecideGood ==
  ASSUME NEW w \in Requests, NEW x, Good(w, x), x.decision = "NONE",
         NEW d \in {"ALLOWED", "DENIED"}
  PROVE  /\ Good(w, [x EXCEPT !.decision = d])
         /\ Good(w, [x EXCEPT !.decision = "APPROVAL_REQUIRED", !.approval = "PENDING"])
<1> DEFINE y == [x EXCEPT !.decision = d]
           z == [x EXCEPT !.decision = "APPROVAL_REQUIRED", !.approval = "PENDING"]
<1>1. /\ y \in ActRecord
      /\ y.decision = d /\ y.approval = x.approval /\ y.exec = x.exec /\ y.code = x.code
      /\ y.stale = x.stale /\ y.recon = x.recon /\ y.call = x.call /\ y.sends = x.sends /\ y.world = x.world
  BY DEF Good, ActRecord
<1>2. /\ z \in ActRecord
      /\ z.decision = "APPROVAL_REQUIRED" /\ z.approval = "PENDING" /\ z.exec = x.exec /\ z.code = x.code
      /\ z.stale = x.stale /\ z.recon = x.recon /\ z.call = x.call /\ z.sends = x.sends /\ z.world = x.world
  BY DEF Good, ActRecord
<1> HIDE DEF y, z
<1>3. ActInv(w, y)  BY <1>1 DEF Good, ActInv
<1>4. ActInv(w, z)  BY <1>2 DEF Good, ActInv
<1> QED  BY <1>1, <1>2, <1>3, <1>4 DEF Good, y, z

\* A pending approval is decided or expires (ApproveAction, RejectAction, ExpireDueActions).
LEMMA ApprovalGood ==
  ASSUME NEW w \in Requests, NEW x, Good(w, x), x.approval = "PENDING",
         NEW a \in {"APPROVED", "REJECTED", "EXPIRED"}
  PROVE  Good(w, [x EXCEPT !.approval = a])
<1> DEFINE y == [x EXCEPT !.approval = a]
<1>1. /\ y \in ActRecord
      /\ y.decision = x.decision /\ y.approval = a /\ y.exec = x.exec /\ y.code = x.code
      /\ y.stale = x.stale /\ y.recon = x.recon /\ y.call = x.call /\ y.sends = x.sends /\ y.world = x.world
  BY DEF Good, ActRecord
<1> HIDE DEF y
<1>2. ActInv(w, y)  BY <1>1 DEF Good, ActInv
<1> QED  BY <1>1, <1>2 DEF Good, y

\* A dispatch is given up as interrupted (PrepareInterrupt, SweepInterrupted).
LEMMA InterruptedGood ==
  ASSUME NEW w \in Requests, NEW x, Good(w, x), x.exec = "DISPATCHING", x.stale
  PROVE  Good(w, Interrupted(w, x))
<1> DEFINE y == Interrupted(w, x)
<1>1. /\ y \in ActRecord
      /\ y.decision = x.decision /\ y.approval = x.approval /\ y.exec = "FAILED" /\ y.code = "INTERRUPTED"
      /\ y.stale = x.stale /\ y.call = x.call /\ y.sends = x.sends /\ y.world = x.world
      /\ y.recon = IF w \in Writes THEN "REQUIRED" ELSE x.recon
  BY DEF Good, ActRecord, Interrupted
<1> HIDE DEF y
<1>2. ActInv(w, y)  BY <1>1, GatewayAssumption DEF Good, ActInv
<1> QED  BY <1>1, <1>2 DEF Good, y

\* Execution is refused (PrepareRefuse) or committed to (PrepareDispatch).
LEMMA PreparedGood ==
  ASSUME NEW w \in Requests, NEW x, Good(w, x), x.exec = "NONE", x.decision # "NONE"
  PROVE  /\ Good(w, [x EXCEPT !.exec = "FAILED", !.code = "REFUSED"])
         /\ x.decision # "DENIED" /\ x.approval \notin {"PENDING", "REJECTED", "EXPIRED"} =>
              Good(w, [x EXCEPT !.exec = "DISPATCHING", !.call = "READY"])
<1> DEFINE y == [x EXCEPT !.exec = "FAILED", !.code = "REFUSED"]
           z == [x EXCEPT !.exec = "DISPATCHING", !.call = "READY"]
<1>1. /\ y \in ActRecord
      /\ y.decision = x.decision /\ y.approval = x.approval /\ y.exec = "FAILED" /\ y.code = "REFUSED"
      /\ y.stale = x.stale /\ y.recon = x.recon /\ y.call = x.call /\ y.sends = x.sends /\ y.world = x.world
  BY DEF Good, ActRecord
<1>2. /\ z \in ActRecord
      /\ z.decision = x.decision /\ z.approval = x.approval /\ z.exec = "DISPATCHING" /\ z.code = x.code
      /\ z.stale = x.stale /\ z.recon = x.recon /\ z.call = "READY" /\ z.sends = x.sends /\ z.world = x.world
  BY DEF Good, ActRecord
<1> HIDE DEF y, z
<1>3. ActInv(w, y)  BY <1>1, GatewayAssumption DEF Good, ActInv
<1>4. x.decision # "DENIED" /\ x.approval \notin {"PENDING", "REJECTED", "EXPIRED"} => ActInv(w, z)
  BY <1>2, GatewayAssumption DEF Good, ActInv
<1> QED  BY <1>1, <1>2, <1>3, <1>4 DEF Good, y, z

\* The connector's request leaves (Send).
LEMMA SendGood ==
  ASSUME NEW w \in Requests, NEW x, Good(w, x), x.call = "READY"
  PROVE  Good(w, [x EXCEPT !.call = "SENT", !.sends = @ + 1,
                           !.world = IF w \in Writes THEN "possible" ELSE @])
<1> DEFINE world == IF w \in Writes THEN "possible" ELSE x.world
           y == [x EXCEPT !.call = "SENT", !.sends = @ + 1, !.world = IF w \in Writes THEN "possible" ELSE @]
<1>1. /\ x \in ActRecord
      /\ x.call = "READY" /\ x.sends = 0 /\ x.world = "untouched"
      /\ x.code \in {None, "REFUSED", "FAILED", "UNKNOWN", "INTERRUPTED"}
      /\ x.exec \in {"NONE", "DISPATCHING", "SUCCEEDED", "FAILED"}
  BY DEF Good, ActRecord, ActInv
<1>2. /\ world \in {"possible", "untouched"} /\ x.sends + 1 = 1
      /\ y = [x EXCEPT !.call = "SENT", !.sends = 1, !.world = world]
  BY <1>1 DEF ActRecord
<1> HIDE DEF y, world
<1>3. /\ y \in ActRecord
      /\ y.decision = x.decision /\ y.approval = x.approval /\ y.exec = x.exec /\ y.code = x.code
      /\ y.stale = x.stale /\ y.recon = x.recon /\ y.call = "SENT" /\ y.sends = 1 /\ y.world = world
  BY <1>1, <1>2 DEF ActRecord
<1>4. w \notin Writes => world = "untouched"  BY <1>1 DEF world
<1>5. /\ x.exec \notin {"NONE", "SUCCEEDED"} /\ x.code \in {None, "INTERRUPTED"}
      /\ ~Late => ~x.stale /\ x.code = None /\ x.recon = "NONE"
  BY <1>1, GatewayAssumption DEF Good, ActInv
<1>6. ActInv(w, y)
  BY <1>1, <1>3, <1>2, <1>4, <1>5, GatewayAssumption DEF Good, ActInv
<1> QED  BY <1>3, <1>6 DEF Good, y

\* The external system has the write or never will (Land).
LEMMA LandGood ==
  ASSUME NEW w \in Requests, NEW x, Good(w, x), x.world = "possible",
         NEW o \in {"applied", "refused"}
  PROVE  Good(w, [x EXCEPT !.world = o])
<1> DEFINE y == [x EXCEPT !.world = o]
<1>1. /\ y \in ActRecord
      /\ y.decision = x.decision /\ y.approval = x.approval /\ y.exec = x.exec /\ y.code = x.code
      /\ y.stale = x.stale /\ y.recon = x.recon /\ y.call = x.call /\ y.sends = x.sends /\ y.world = o
  BY DEF Good, ActRecord
<1> HIDE DEF y
<1>2. ActInv(w, y)  BY <1>1, GatewayAssumption DEF Good, ActInv
<1> QED  BY <1>1, <1>2 DEF Good, y

\* The connector call ends (Answer).
LEMMA AnswerGood ==
  ASSUME NEW w \in Requests, NEW x, Good(w, x), x.call \in {"READY", "SENT"},
         NEW o \in {"OK", "FAILED", "UNKNOWN"},
         o = "OK" => x.call = "SENT" /\ (w \in Writes => x.world = "applied"),
         o = "FAILED" /\ w \in Writes => x.world \in {"untouched", "refused"},
         o = "UNKNOWN" => w \in Writes
  PROVE  Good(w, [x EXCEPT !.call = o])
<1> DEFINE y == [x EXCEPT !.call = o]
<1>1. /\ y \in ActRecord
      /\ y.decision = x.decision /\ y.approval = x.approval /\ y.exec = x.exec /\ y.code = x.code
      /\ y.stale = x.stale /\ y.recon = x.recon /\ y.call = o /\ y.sends = x.sends /\ y.world = x.world
  BY DEF Good, ActRecord
<1> HIDE DEF y
<1>2. ActInv(w, y)  BY <1>1, GatewayAssumption DEF Good, ActInv
<1> QED  BY <1>1, <1>2 DEF Good, y

\* The process that made the call is gone (LoseCall).
LEMMA LoseGood ==
  ASSUME NEW w \in Requests, NEW x, Good(w, x)
  PROVE  Good(w, [x EXCEPT !.call = "NONE"])
<1> DEFINE y == [x EXCEPT !.call = "NONE"]
<1>1. /\ y \in ActRecord
      /\ y.decision = x.decision /\ y.approval = x.approval /\ y.exec = x.exec /\ y.code = x.code
      /\ y.stale = x.stale /\ y.recon = x.recon /\ y.call = "NONE" /\ y.sends = x.sends /\ y.world = x.world
  BY DEF Good, ActRecord
<1> HIDE DEF y
<1>2. ActInv(w, y)  BY <1>1, GatewayAssumption DEF Good, ActInv
<1> QED  BY <1>1, <1>2 DEF Good, y

\* staleDispatchMs passes (GoStale).
LEMMA StaleGood ==
  ASSUME NEW w \in Requests, NEW x, Good(w, x), x.exec = "DISPATCHING",
         Late \/ (x.call \notin {"READY", "SENT"} /\ x.world # "possible")
  PROVE  Good(w, [x EXCEPT !.stale = TRUE])
<1> DEFINE y == [x EXCEPT !.stale = TRUE]
<1>1. /\ y \in ActRecord
      /\ y.decision = x.decision /\ y.approval = x.approval /\ y.exec = x.exec /\ y.code = x.code
      /\ y.stale = TRUE /\ y.recon = x.recon /\ y.call = x.call /\ y.sends = x.sends /\ y.world = x.world
  BY DEF Good, ActRecord
<1> HIDE DEF y
<1>2. ActInv(w, y)  BY <1>1, GatewayAssumption DEF Good, ActInv
<1> QED  BY <1>1, <1>2 DEF Good, y

\* An administrator records what the external system shows (Resolve).
LEMMA ResolveGood ==
  ASSUME NEW w \in Requests, NEW x, Good(w, x), x.recon = "REQUIRED",
         Late \/ x.world # "possible"
  PROVE  Good(w, [x EXCEPT !.recon = IF x.world = "applied" THEN "APPLIED" ELSE "NOT_APPLIED"])
<1> DEFINE y == [x EXCEPT !.recon = IF x.world = "applied" THEN "APPLIED" ELSE "NOT_APPLIED"]
<1>1. /\ y \in ActRecord
      /\ y.decision = x.decision /\ y.approval = x.approval /\ y.exec = x.exec /\ y.code = x.code
      /\ y.stale = x.stale /\ y.recon = (IF x.world = "applied" THEN "APPLIED" ELSE "NOT_APPLIED") /\ y.call = x.call /\ y.sends = x.sends /\ y.world = x.world
  BY DEF Good, ActRecord
<1> HIDE DEF y
<1>2. ActInv(w, y)  BY <1>1, GatewayAssumption DEF Good, ActInv
<1> QED  BY <1>1, <1>2 DEF Good, y

\* The outcome of a dispatch is recorded, or found recorded (Complete).
LEMMA RecordedGood ==
  ASSUME NEW w \in Requests, NEW x, Good(w, x), x.call \in {"OK", "FAILED", "UNKNOWN"}
  PROVE  Good(w, Recorded(w, x))
<1> DEFINE y == Recorded(w, x)
<1>1. CASE x.exec # "DISPATCHING"
  <2>1. y = [x EXCEPT !.call = "NONE"]  BY <1>1 DEF Recorded
  <2> QED  BY <2>1, LoseGood
<1>2. CASE x.exec = "DISPATCHING" /\ x.call = "OK"
  <2>1. /\ y \in ActRecord
        /\ y.decision = x.decision /\ y.approval = x.approval /\ y.exec = "SUCCEEDED" /\ y.code = x.code
        /\ y.stale = x.stale /\ y.recon = x.recon /\ y.call = "NONE" /\ y.sends = x.sends /\ y.world = x.world
    BY <1>2 DEF Good, ActRecord, Recorded
  <2> HIDE DEF y
  <2>2. ActInv(w, y)  BY <1>2, <2>1, GatewayAssumption DEF Good, ActInv
  <2> QED  BY <2>1, <2>2 DEF Good, y
<1>3. CASE x.exec = "DISPATCHING" /\ x.call = "FAILED"
  <2>1. /\ y \in ActRecord
        /\ y.decision = x.decision /\ y.approval = x.approval /\ y.exec = "FAILED" /\ y.code = "FAILED"
        /\ y.stale = x.stale /\ y.recon = x.recon /\ y.call = "NONE" /\ y.sends = x.sends /\ y.world = x.world
    BY <1>3 DEF Good, ActRecord, Recorded
  <2> HIDE DEF y
  <2>2. ActInv(w, y)  BY <1>3, <2>1, GatewayAssumption DEF Good, ActInv
  <2> QED  BY <2>1, <2>2 DEF Good, y
<1>4. CASE x.exec = "DISPATCHING" /\ x.call = "UNKNOWN"
  <2>1. /\ y \in ActRecord
        /\ y.decision = x.decision /\ y.approval = x.approval /\ y.exec = "FAILED" /\ y.code = "UNKNOWN"
        /\ y.stale = x.stale /\ y.recon = "REQUIRED" /\ y.call = "NONE" /\ y.sends = x.sends /\ y.world = x.world
    BY <1>4 DEF Good, ActRecord, Recorded
  <2> HIDE DEF y
  <2>2. ActInv(w, y)  BY <1>4, <2>1, GatewayAssumption DEF Good, ActInv
  <2> QED  BY <2>1, <2>2 DEF Good, y
<1> QED  BY <1>1, <1>2, <1>3, <1>4

-----------------------------------------------------------------------------
(* All records: every step keeps GatewayTypeOK and GatewayInductive.                      *)

Sound == GatewayTypeOK /\ GatewayInductive

\* Replacing one record by a good one leaves every record good.
LEMMA PutGood ==
  ASSUME act \in [Requests -> ActRecord], GatewayInductive, NEW w \in Requests, NEW y, Good(w, y), PutRequest(w, y)
  PROVE  act' \in [Requests -> ActRecord] /\ GatewayInductive'
<1>1. act' = [act EXCEPT ![w] = y] /\ y \in ActRecord  BY DEF PutRequest, Good
<1>2. act' \in [Requests -> ActRecord]  BY <1>1
<1>3. ASSUME NEW v \in Requests PROVE ActInv(v, act'[v])
  <2>1. CASE v = w  BY <1>1, <2>1 DEF Good
  <2>2. CASE v # w
    <3>1. act'[v] = act[v]  BY <1>1, <2>2
    <3> QED  BY <3>1 DEF GatewayInductive
  <2> QED  BY <2>1, <2>2
<1> QED  BY <1>2, <1>3 DEF GatewayInductive

\* What expireDue leaves of each request: nothing but its approval moves, and
\* only from PENDING.
LEMMA SweepGood ==
  ASSUME Sound
  PROVE  /\ SweptAct \in [Requests -> ActRecord]
         /\ SweptRun \in [ActionRuns -> RunStatus \cup {"NONE"}]
         /\ \A v \in Requests :
              /\ Good(v, SweptAct[v])
              /\ SweptAct[v] = act[v] \/ (act[v].approval = "PENDING" /\ SweptAct[v].approval = "EXPIRED")
              /\ SweptAct[v].exec = act[v].exec /\ SweptAct[v].code = act[v].code
              /\ SweptAct[v].recon = act[v].recon /\ SweptAct[v].world = act[v].world
              /\ SweptAct[v].decision = act[v].decision /\ SweptAct[v].stale = act[v].stale
              /\ SweptAct[v].call = act[v].call
<1>1. ASSUME NEW v \in Requests
      PROVE  /\ Good(v, SweptAct[v])
             /\ SweptAct[v] = act[v] \/ (act[v].approval = "PENDING" /\ SweptAct[v].approval = "EXPIRED")
             /\ SweptAct[v].exec = act[v].exec /\ SweptAct[v].code = act[v].code
             /\ SweptAct[v].recon = act[v].recon /\ SweptAct[v].world = act[v].world
             /\ SweptAct[v].decision = act[v].decision /\ SweptAct[v].stale = act[v].stale
             /\ SweptAct[v].call = act[v].call
  <2>1. Good(v, act[v]) /\ act[v] \in ActRecord  BY DEF Sound, GatewayTypeOK, GatewayInductive, Good
  <2>2. CASE v \in Lapsing
    <3>1. SweptAct[v] = [act[v] EXCEPT !.approval = "EXPIRED"] /\ act[v].approval = "PENDING"
      BY <2>2 DEF SweptAct, Lapsing
    <3>2. \A a \in {"APPROVED", "REJECTED", "EXPIRED"} : Good(v, [act[v] EXCEPT !.approval = a])
      BY <2>1, <3>1, ApprovalGood
    <3>3. Good(v, SweptAct[v])  BY <3>1, <3>2
    <3> QED  BY <2>1, <3>1, <3>3 DEF ActRecord
  <2>3. CASE v \notin Lapsing
    <3>1. SweptAct[v] = act[v]  BY <2>3 DEF SweptAct
    <3> QED  BY <2>1, <3>1
  <2> QED  BY <2>2, <2>3
<1>2. SweptAct \in [Requests -> ActRecord]
  <2>1. SweptAct = [v \in Requests |-> SweptAct[v]]  BY DEF SweptAct
  <2>2. \A v \in Requests : SweptAct[v] \in ActRecord  BY <1>1 DEF Good
  <2> QED  BY <2>1, <2>2
<1>3. SweptRun \in [ActionRuns -> RunStatus \cup {"NONE"}]
  BY DEF SweptRun, RunStatus, Sound, GatewayTypeOK
<1> QED  BY <1>1, <1>2, <1>3

\* Replacing one record of a swept state by a good one.
LEMMA SweptPutGood ==
  ASSUME Sound, NEW w \in Requests, NEW y, Good(w, y), act' = [SweptAct EXCEPT ![w] = y], run' = SweptRun
  PROVE  act' \in [Requests -> ActRecord] /\ GatewayInductive' /\ run' \in [ActionRuns -> RunStatus \cup {"NONE"}]
<1>1. SweptAct \in [Requests -> ActRecord] /\ y \in ActRecord  BY SweepGood DEF Good
<1>2. act' \in [Requests -> ActRecord]  BY <1>1
<1>3. ASSUME NEW v \in Requests PROVE ActInv(v, act'[v])
  <2>1. CASE v = w  BY <1>1, <2>1 DEF Good
  <2>2. CASE v # w
    <3>1. act'[v] = SweptAct[v]  BY <1>1, <2>2
    <3> QED  BY <3>1, SweepGood DEF Good
  <2> QED  BY <2>1, <2>2
<1> QED  BY <1>2, <1>3, SweepGood DEF GatewayInductive

\* Dispatch is committed to only for a request decided and, where it must be,
\* approved.
LEMMA AuthorizedRequest ==
  ASSUME Sound, NEW w \in Requests, MayDispatch(w)
  PROVE  act[w].decision \notin {"NONE", "DENIED"} /\ act[w].approval \notin {"PENDING", "REJECTED", "EXPIRED"}
<1>1. ActInv(w, act[w])  BY DEF Sound, GatewayInductive
<1> QED  BY <1>1 DEF MayDispatch, Authorized, ActInv

\* A step of the run transport's side: runs, policies, decisions, approvals.
LEMMA DecisionStepSound ==
  ASSUME Sound, NEW w \in Requests,
         \/ \E outcome \in Outcome : Decide(w, outcome)
         \/ DeadlinePasses(w) \/ ApproveAction(w) \/ RejectAction(w)
  PROVE  Sound'
<1> DEFINE x == act[w]
<1>1. /\ act \in [Requests -> ActRecord] /\ run \in [ActionRuns -> RunStatus \cup {"NONE"}]
      /\ policy \in [Actions -> Outcome] /\ GatewayInductive /\ Good(w, x) /\ RunOf[w] \in ActionRuns
  BY GatewayAssumption DEF Sound, GatewayTypeOK, GatewayInductive, Good
<1>2. ASSUME NEW outcome \in Outcome, Decide(w, outcome) PROVE Sound'
  <2>1. policy' = policy /\ x.decision = "NONE"  BY <1>2 DEF Decide
  <2>2. run' \in [ActionRuns -> RunStatus \cup {"NONE"}]  BY <1>1, <1>2 DEF Decide, RunStatus
  <2>3. \E y : Good(w, y) /\ PutRequest(w, y)
    BY <1>1, <1>2, <2>1, DecideGood DEF Decide
  <2>4. act' \in [Requests -> ActRecord] /\ GatewayInductive'  BY <1>1, <2>3, PutGood
  <2> QED  BY <1>1, <2>1, <2>2, <2>4 DEF Sound, GatewayTypeOK
<1>3. CASE DeadlinePasses(w)
  <2>1. act' \in [Requests -> ActRecord] /\ GatewayInductive'
    BY <1>1, <1>3, PutGood, DeadlineGood DEF DeadlinePasses
  <2> QED  BY <1>1, <1>3, <2>1 DEF Sound, GatewayTypeOK, DeadlinePasses
<1>4. CASE ApproveAction(w)
  <2>1. act' \in [Requests -> ActRecord] /\ GatewayInductive'
    BY <1>1, <1>4, PutGood, ApprovalGood DEF ApproveAction
  <2>2. run' \in [ActionRuns -> RunStatus \cup {"NONE"}]  BY <1>1, <1>4 DEF ApproveAction, RunStatus
  <2> QED  BY <1>1, <1>4, <2>1, <2>2 DEF Sound, GatewayTypeOK, ApproveAction
<1>5. CASE RejectAction(w)
  <2>1. act' \in [Requests -> ActRecord] /\ GatewayInductive'
    BY <1>1, <1>5, PutGood, ApprovalGood DEF RejectAction
  <2>2. run' \in [ActionRuns -> RunStatus \cup {"NONE"}]  BY <1>1, <1>5 DEF RejectAction, RunStatus
  <2> QED  BY <1>1, <1>5, <2>1, <2>2 DEF Sound, GatewayTypeOK, RejectAction
<1> QED  BY <1>2, <1>3, <1>4, <1>5

\* A step of prepareExecution.
LEMMA PrepareStepSound ==
  ASSUME Sound, NEW w \in Requests, PrepareInterrupt(w) \/ PrepareRefuse(w) \/ PrepareDispatch(w)
  PROVE  Sound'
<1> DEFINE x == SweptAct[w]
<1>1. /\ policy \in [Actions -> Outcome] /\ policy' = policy /\ run' = SweptRun
      /\ act[w].decision # "NONE"
  BY DEF Sound, GatewayTypeOK, PrepareInterrupt, PrepareRefuse, PrepareDispatch, Working
<1>2. /\ SweptAct \in [Requests -> ActRecord] /\ Good(w, x) /\ x \in ActRecord
      /\ x.exec = act[w].exec /\ x.decision = act[w].decision /\ x.stale = act[w].stale
      /\ x = act[w] \/ (act[w].approval = "PENDING" /\ x.approval = "EXPIRED")
  BY SweepGood DEF Good
<1>3. CASE PrepareInterrupt(w)
  <2>1. Good(w, Interrupted(w, x))  BY <1>2, <1>3, InterruptedGood DEF PrepareInterrupt
  <2>2. act' = [SweptAct EXCEPT ![w] = Interrupted(w, x)]  BY <1>2, <1>3 DEF PrepareInterrupt
  <2> QED  BY <1>1, <2>1, <2>2, SweptPutGood DEF Sound, GatewayTypeOK
<1>4. CASE PrepareRefuse(w)
  <2>1. Good(w, [x EXCEPT !.exec = "FAILED", !.code = "REFUSED"])
    BY <1>1, <1>2, <1>4, PreparedGood DEF PrepareRefuse, Unexecuted
  <2>2. act' = [SweptAct EXCEPT ![w] = [x EXCEPT !.exec = "FAILED", !.code = "REFUSED"]]
    BY <1>2, <1>4 DEF PrepareRefuse
  <2> QED  BY <1>1, <2>1, <2>2, SweptPutGood DEF Sound, GatewayTypeOK
<1>5. CASE PrepareDispatch(w)
  <2>1. x.decision # "DENIED" /\ x.approval \notin {"PENDING", "REJECTED", "EXPIRED"}
    BY <1>2, <1>5, AuthorizedRequest DEF PrepareDispatch
  <2>2. Good(w, [x EXCEPT !.exec = "DISPATCHING", !.call = "READY"])
    BY <1>1, <1>2, <1>5, <2>1, PreparedGood DEF PrepareDispatch, Unexecuted
  <2>3. act' = [SweptAct EXCEPT ![w] = [x EXCEPT !.exec = "DISPATCHING", !.call = "READY"]]
    BY <1>2, <1>5 DEF PrepareDispatch
  <2> QED  BY <1>1, <2>2, <2>3, SweptPutGood DEF Sound, GatewayTypeOK
<1> QED  BY <1>3, <1>4, <1>5

CallStep(w) ==
  \/ Send(w) \/ Complete(w) \/ LoseCall(w) \/ GoStale(w) \/ Resolve(w)
  \/ \E outcome \in {"applied", "refused"} : Land(w, outcome)
  \/ \E outcome \in {"OK", "FAILED", "UNKNOWN"} : Answer(w, outcome)

\* A step of the call, of the external system, of time or of an administrator.
LEMMA CallStepSound ==
  ASSUME Sound, NEW w \in Requests, CallStep(w)
  PROVE  Sound'
<1> DEFINE x == act[w]
<1>1. /\ act \in [Requests -> ActRecord] /\ GatewayInductive /\ Good(w, x)
  BY DEF Sound, GatewayTypeOK, GatewayInductive, Good
<1>2. /\ run \in [ActionRuns -> RunStatus \cup {"NONE"}] /\ policy \in [Actions -> Outcome]
      /\ run' = run /\ policy' = policy
  BY DEF Sound, GatewayTypeOK, CallStep, Send, Complete, LoseCall, GoStale, Resolve, Land, Answer
<1>3. SUFFICES \E y : Good(w, y) /\ PutRequest(w, y)
  BY <1>1, <1>2, PutGood DEF Sound, GatewayTypeOK
<1>4. CASE Send(w)  BY <1>1, <1>4, SendGood DEF Send
<1>5. CASE Complete(w)  BY <1>1, <1>5, RecordedGood DEF Complete
<1>6. CASE LoseCall(w)  BY <1>1, <1>6, LoseGood DEF LoseCall
<1>7. CASE GoStale(w)  BY <1>1, <1>7, StaleGood DEF GoStale, MayBeStale, CallIsOver
<1>8. CASE Resolve(w)  BY <1>1, <1>8, ResolveGood DEF Resolve
<1>9. ASSUME NEW outcome \in {"applied", "refused"}, Land(w, outcome) PROVE \E y : Good(w, y) /\ PutRequest(w, y)
  BY <1>1, <1>9, LandGood DEF Land
<1>10. ASSUME NEW outcome \in {"OK", "FAILED", "UNKNOWN"}, Answer(w, outcome)
       PROVE  \E y : Good(w, y) /\ PutRequest(w, y)
  <2>1. /\ x.call \in {"READY", "SENT"}
        /\ outcome = "OK" => x.call = "SENT" /\ (w \in Writes => x.world = "applied")
        /\ outcome = "FAILED" /\ w \in Writes => x.world \in {"untouched", "refused"}
        /\ outcome = "UNKNOWN" => w \in Writes
    BY <1>10 DEF Answer, Outcomes
  <2>2. Good(w, [x EXCEPT !.call = outcome])  BY <1>1, <2>1, AnswerGood
  <2> QED  BY <1>10, <2>2 DEF Answer
<1> QED  BY <1>4, <1>5, <1>6, <1>7, <1>8, <1>9, <1>10 DEF CallStep

\* The sweep of abandoned dispatches.
LEMMA SweepInterruptedSound == ASSUME Sound, SweepInterrupted PROVE Sound'
<1>1. ASSUME NEW v \in Requests PROVE Good(v, act'[v])
  <2>1. Good(v, act[v])  BY DEF Sound, GatewayTypeOK, GatewayInductive, Good
  <2>2. CASE v \in AbandonedDispatches
    <3>1. act[v].exec = "DISPATCHING" /\ act[v].stale  BY <2>2 DEF AbandonedDispatches
    <3>2. act'[v] = Interrupted(v, act[v])  BY <2>2 DEF SweepInterrupted
    <3> QED  BY <2>1, <3>1, <3>2, InterruptedGood
  <2>3. CASE v \notin AbandonedDispatches
    <3>1. act'[v] = act[v]  BY <2>3 DEF SweepInterrupted
    <3> QED  BY <2>1, <3>1
  <2> QED  BY <2>2, <2>3
<1>2. act' = [v \in Requests |-> act'[v]] /\ run' = run /\ policy' = policy
  BY DEF SweepInterrupted
<1> QED  BY <1>1, <1>2 DEF Sound, GatewayTypeOK, GatewayInductive, Good

\* Every step keeps all records well formed and consistent.
LEMMA StepSound == Sound /\ [GatewayNext]_gatewayVars => Sound'
<1> SUFFICES ASSUME Sound, [GatewayNext]_gatewayVars PROVE Sound'
  OBVIOUS
<1>1. ASSUME NEW u \in ActionRuns, StartRun(u) \/ ResumeRun(u) \/ EndRun(u) PROVE Sound'
  <2>1. act' = act /\ policy' = policy  BY <1>1 DEF StartRun, ResumeRun, EndRun
  <2>2. run' \in [ActionRuns -> RunStatus \cup {"NONE"}]
    BY <1>1 DEF StartRun, ResumeRun, EndRun, Sound, GatewayTypeOK, RunStatus
  <2> QED  BY <2>1, <2>2 DEF Sound, GatewayTypeOK, GatewayInductive
<1>2. ASSUME NEW a \in Actions, NEW outcome \in Outcome, SetPolicy(a, outcome) PROVE Sound'
  BY <1>2 DEF SetPolicy, Sound, GatewayTypeOK, GatewayInductive
<1>3. CASE ExpireDueActions
  BY <1>3, SweepGood DEF ExpireDueActions, Sound, GatewayTypeOK, GatewayInductive, Good
<1>4. CASE SweepInterrupted  BY <1>4, SweepInterruptedSound
<1>5. ASSUME NEW w \in Requests,
             (\E outcome \in Outcome : Decide(w, outcome)) \/ DeadlinePasses(w) \/ ApproveAction(w) \/ RejectAction(w)
      PROVE Sound'
  BY <1>5, DecisionStepSound
<1>6. ASSUME NEW w \in Requests, PrepareInterrupt(w) \/ PrepareRefuse(w) \/ PrepareDispatch(w)
      PROVE Sound'
  BY <1>6, PrepareStepSound
<1>7. ASSUME NEW w \in Requests, CallStep(w) PROVE Sound'
  BY <1>7, CallStepSound
<1>8. CASE UNCHANGED gatewayVars
  BY <1>8 DEF gatewayVars, Sound, GatewayTypeOK, GatewayInductive
<1> QED  BY <1>1, <1>2, <1>3, <1>4, <1>5, <1>6, <1>7, <1>8 DEF GatewayNext, CallStep

\* Nothing has been asked for at first.
LEMMA InitSound == GatewayInit => Sound
  BY NotAskedGood DEF GatewayInit, Sound, GatewayTypeOK, GatewayInductive, Good, RunStatus

\* All of the above along every behaviour: the rows, the call and the outside
\* fit one another, whatever stops, is lost or arrives late.
THEOREM GatewaySound == GatewaySpec => []GatewayInductive
<1>1. GatewaySpec => []Sound  BY InitSound, StepSound, PTL DEF GatewaySpec
<1>2. Sound => GatewayInductive  BY DEF Sound
<1> QED  BY <1>1, <1>2, PTL

-----------------------------------------------------------------------------
(* The state properties.                                                    *)

\* The stored rows, runs and policies keep the shape the schema gives them.
THEOREM GatewayTypeCorrect == GatewaySpec => []GatewayTypeOK
<1>1. GatewaySpec => []Sound  BY InitSound, StepSound, PTL DEF GatewaySpec
<1>2. Sound => GatewayTypeOK  BY DEF Sound
<1> QED  BY <1>1, <1>2, PTL

\* A request reaches the connector at most once, and never without having been
\* allowed or approved (action-gateway.ts, ADR 0012).
THEOREM SingleDispatchHolds == GatewaySpec => []SingleDispatch
<1>1. GatewaySpec => []Sound  BY InitSound, StepSound, PTL DEF GatewaySpec
<1>2. Sound => SingleDispatch
  <2> SUFFICES ASSUME Sound, NEW w \in Requests
               PROVE  /\ act[w].sends <= 1
                      /\ act[w].sends = 1 => act[w].exec \in {"DISPATCHING", "SUCCEEDED", "FAILED"}
                      /\ act[w].decision \in {"NONE", "DENIED"}
                           \/ act[w].approval \in {"PENDING", "REJECTED", "EXPIRED"} =>
                           act[w].sends = 0 /\ act[w].call = "NONE"
    BY DEF SingleDispatch
  <2>1. ActInv(w, act[w]) /\ act[w] \in ActRecord  BY DEF Sound, GatewayTypeOK, GatewayInductive
  <2>2. act[w].exec \in {"NONE", "DISPATCHING", "SUCCEEDED", "FAILED"}  BY <2>1 DEF ActRecord
  <2> QED  BY <2>1, <2>2 DEF ActInv
<1> QED  BY <1>1, <1>2, PTL

\* What a runtime is told of a write is true of the external system, whatever
\* was lost in between.
THEOREM HonestOutcomeHolds == GatewaySpec => []HonestOutcome
<1>1. GatewaySpec => []Sound  BY InitSound, StepSound, PTL DEF GatewaySpec
<1>2. Sound => HonestOutcome
  <2> SUFFICES ASSUME Sound, NEW w \in Writes
               PROVE  /\ act[w].exec = "SUCCEEDED" => act[w].world = "applied"
                      /\ act[w].exec = "FAILED" /\ ~IsUnknown(act[w]) =>
                           act[w].world \in {"untouched", "refused"} /\ act[w].call = "NONE"
    BY DEF HonestOutcome
  <2>1. w \in Requests /\ ActInv(w, act[w]) /\ act[w] \in ActRecord
    BY GatewayAssumption DEF Sound, GatewayTypeOK, GatewayInductive
  <2>2. act[w].code \in {None, "REFUSED", "FAILED", "UNKNOWN", "INTERRUPTED"}  BY <2>1 DEF ActRecord
  <2> QED  BY <2>1, <2>2 DEF ActInv, IsUnknown
<1> QED  BY <1>1, <1>2, PTL

\* An administrator is asked about every write whose outcome nobody knows, and
\* about nothing else.
THEOREM UnknownIsReconciledHolds == GatewaySpec => []UnknownIsReconciled
<1>1. GatewaySpec => []Sound  BY InitSound, StepSound, PTL DEF GatewaySpec
<1>2. Sound => UnknownIsReconciled
  <2> SUFFICES ASSUME Sound, NEW w \in Requests
               PROVE  act[w].recon # "NONE" <=> w \in Writes /\ IsUnknown(act[w])
    BY DEF UnknownIsReconciled
  <2>1. ActInv(w, act[w]) /\ act[w] \in ActRecord  BY DEF Sound, GatewayTypeOK, GatewayInductive
  <2>2. /\ act[w].code \in {None, "REFUSED", "FAILED", "UNKNOWN", "INTERRUPTED"}
        /\ act[w].exec \in {"NONE", "DISPATCHING", "SUCCEEDED", "FAILED"}
    BY <2>1 DEF ActRecord
  <2> QED  BY <2>1, <2>2, GatewayAssumption DEF ActInv, IsUnknown
<1> QED  BY <1>1, <1>2, PTL

\* What the run checks as one invariant: whatever a run was told is what happened, and a person
\* is asked about every write of which nobody knows, under well-formed records.
THEOREM GatewayOutcomesSound == GatewaySpec => []OutcomesSound
<1>1. GatewayTypeOK /\ HonestOutcome /\ UnknownIsReconciled <=> OutcomesSound  BY DEF OutcomesSound
<1> QED  BY <1>1, GatewayTypeCorrect, HonestOutcomeHolds, UnknownIsReconciledHolds, PTL

\* When nothing is delivered after staleDispatchMs, an administrator's "not
\* applied" stays true.
THEOREM ResolutionStandsOnTime == ASSUME ~Late PROVE GatewaySpec => []ResolutionStands
<1>1. GatewaySpec => []Sound  BY InitSound, StepSound, PTL DEF GatewaySpec
<1>2. Sound => ResolutionStands
  <2> SUFFICES ASSUME Sound, NEW w \in Writes, act[w].recon = "NOT_APPLIED"
               PROVE  act[w].world # "applied" /\ act[w].call # "READY"
    BY DEF ResolutionStands
  <2>1. w \in Requests /\ ActInv(w, act[w]) /\ act[w] \in ActRecord
    BY GatewayAssumption DEF Sound, GatewayTypeOK, GatewayInductive
  <2>2. /\ act[w].code \in {None, "REFUSED", "FAILED", "UNKNOWN", "INTERRUPTED"}
        /\ act[w].exec \in {"NONE", "DISPATCHING", "SUCCEEDED", "FAILED"}
    BY <2>1 DEF ActRecord
  <2> QED  BY <2>1, <2>2, GatewayAssumption DEF ActInv
<1> QED  BY <1>1, <1>2, PTL

-----------------------------------------------------------------------------
(* What a step does to the parts of a record that others rely on.           *)

SameOutcome(x, y) == y.exec = x.exec /\ y.code = x.code /\ y.recon = x.recon

\* The outcome of a request moves only where its execution is prepared, given
\* up, recorded or reconciled.
LEMMA StillUnless ==
  ASSUME Sound, GatewayNext, NEW v \in Requests,
         ~(PrepareInterrupt(v) \/ PrepareRefuse(v) \/ PrepareDispatch(v) \/ Complete(v) \/ Resolve(v)),
         ~(SweepInterrupted /\ v \in AbandonedDispatches)
  PROVE  SameOutcome(act[v], act'[v])
<1>1. act \in [Requests -> ActRecord] /\ act[v] \in ActRecord  BY DEF Sound, GatewayTypeOK
<1>2. ASSUME act' = act PROVE SameOutcome(act[v], act'[v])  BY <1>2 DEF SameOutcome
<1>3. CASE ExpireDueActions  BY <1>3, SweepGood DEF ExpireDueActions, SameOutcome
<1>4. CASE SweepInterrupted
  <2>1. act'[v] = act[v]  BY <1>4 DEF SweepInterrupted
  <2> QED  BY <2>1 DEF SameOutcome
<1>5. ASSUME NEW w \in Requests, NEW y, PutRequest(w, y), SameOutcome(act[w], y)
      PROVE  SameOutcome(act[v], act'[v])
  <2>1. CASE v = w  BY <1>1, <1>5, <2>1 DEF PutRequest
  <2>2. CASE v # w
    <3>1. act'[v] = act[v]  BY <1>1, <1>5, <2>2 DEF PutRequest
    <3> QED  BY <3>1 DEF SameOutcome
  <2> QED  BY <2>1, <2>2
<1>6. ASSUME NEW w \in Requests, NEW y, PutRequest(w, y), v # w
      PROVE  SameOutcome(act[v], act'[v])
  BY <1>1, <1>6 DEF PutRequest, SameOutcome
<1>7. ASSUME NEW w \in Requests, PrepareInterrupt(w) \/ PrepareRefuse(w) \/ PrepareDispatch(w)
      PROVE  SameOutcome(act[v], act'[v])
  <2>1. v # w  BY <1>7
  <2>2. SweptAct \in [Requests -> ActRecord] /\ SameOutcome(act[v], SweptAct[v])
    BY SweepGood DEF SameOutcome
  <2>3. act'[v] = SweptAct[v]
    BY <1>7, <2>1, <2>2 DEF PrepareInterrupt, PrepareRefuse, PrepareDispatch
  <2> QED  BY <2>2, <2>3
<1>8. ASSUME NEW w \in Requests, Complete(w) \/ Resolve(w) PROVE SameOutcome(act[v], act'[v])
  BY <1>6, <1>8 DEF Complete, Resolve
<1>9. ASSUME NEW w \in Requests,
             \/ \E outcome \in Outcome : Decide(w, outcome)
             \/ DeadlinePasses(w) \/ ApproveAction(w) \/ RejectAction(w) \/ Send(w) \/ LoseCall(w) \/ GoStale(w)
             \/ \E outcome \in {"applied", "refused"} : Land(w, outcome)
             \/ \E outcome \in {"OK", "FAILED", "UNKNOWN"} : Answer(w, outcome)
      PROVE  SameOutcome(act[v], act'[v])
  <2>1. act[w] \in ActRecord  BY <1>1
  <2>2. ASSUME NEW outcome \in Outcome, Decide(w, outcome) PROVE SameOutcome(act[v], act'[v])
    <3> DEFINE y == [act[w] EXCEPT !.decision = "APPROVAL_REQUIRED", !.approval = "PENDING"]
               z == [act[w] EXCEPT !.decision =
                       IF Verdict(w, outcome) = "ALLOW" THEN "ALLOWED" ELSE "DENIED"]
    <3>1. PutRequest(w, y) \/ PutRequest(w, z)  BY <2>2 DEF Decide
    <3>2. SameOutcome(act[w], y) /\ SameOutcome(act[w], z)  BY <2>1 DEF ActRecord, SameOutcome
    <3> HIDE DEF y, z
    <3> QED  BY <1>5, <3>1, <3>2
  <2>3. CASE DeadlinePasses(w)
    <3> DEFINE y == [act[w] EXCEPT !.due = TRUE]
    <3>1. PutRequest(w, y)  BY <2>3 DEF DeadlinePasses
    <3>2. SameOutcome(act[w], y)  BY <2>1 DEF ActRecord, SameOutcome
    <3> QED  BY <1>5, <3>1, <3>2
  <2>4. CASE ApproveAction(w)
    <3> DEFINE y == [act[w] EXCEPT !.approval = "APPROVED"]
    <3>1. PutRequest(w, y)  BY <2>4 DEF ApproveAction
    <3>2. SameOutcome(act[w], y)  BY <2>1 DEF ActRecord, SameOutcome
    <3> QED  BY <1>5, <3>1, <3>2
  <2>5. CASE RejectAction(w)
    <3> DEFINE y == [act[w] EXCEPT !.approval = "REJECTED"]
    <3>1. PutRequest(w, y)  BY <2>5 DEF RejectAction
    <3>2. SameOutcome(act[w], y)  BY <2>1 DEF ActRecord, SameOutcome
    <3> QED  BY <1>5, <3>1, <3>2
  <2>6. CASE Send(w)
    <3> DEFINE y == [act[w] EXCEPT !.call = "SENT", !.sends = @ + 1,
                                  !.world = IF w \in Writes THEN "possible" ELSE @]
    <3>1. PutRequest(w, y)  BY <2>6 DEF Send
    <3>2. SameOutcome(act[w], y)  BY <2>1 DEF ActRecord, SameOutcome
    <3> QED  BY <1>5, <3>1, <3>2
  <2>7. CASE LoseCall(w)
    <3> DEFINE y == [act[w] EXCEPT !.call = "NONE"]
    <3>1. PutRequest(w, y)  BY <2>7 DEF LoseCall
    <3>2. SameOutcome(act[w], y)  BY <2>1 DEF ActRecord, SameOutcome
    <3> QED  BY <1>5, <3>1, <3>2
  <2>8. CASE GoStale(w)
    <3> DEFINE y == [act[w] EXCEPT !.stale = TRUE]
    <3>1. PutRequest(w, y)  BY <2>8 DEF GoStale
    <3>2. SameOutcome(act[w], y)  BY <2>1 DEF ActRecord, SameOutcome
    <3> QED  BY <1>5, <3>1, <3>2
  <2>9. ASSUME NEW outcome, Land(w, outcome) \/ Answer(w, outcome) PROVE SameOutcome(act[v], act'[v])
    <3> DEFINE y == [act[w] EXCEPT !.world = outcome]
               z == [act[w] EXCEPT !.call = outcome]
    <3>1. PutRequest(w, y) \/ PutRequest(w, z)  BY <2>9 DEF Land, Answer
    <3>2. SameOutcome(act[w], y) /\ SameOutcome(act[w], z)  BY <2>1 DEF ActRecord, SameOutcome
    <3> HIDE DEF y, z
    <3> QED  BY <1>5, <3>1, <3>2
  <2> QED  BY <1>9, <2>2, <2>3, <2>4, <2>5, <2>6, <2>7, <2>8, <2>9
<1> QED  BY <1>2, <1>3, <1>4, <1>7, <1>8, <1>9 DEF GatewayNext, StartRun, ResumeRun, EndRun, SetPolicy

\* A dispatch is committed to by PrepareDispatch and by nothing else.
LEMMA OnlyPrepareDispatches ==
  ASSUME Sound, GatewayNext, NEW w \in Requests, act[w].exec # "DISPATCHING", act'[w].exec = "DISPATCHING"
  PROVE  PrepareDispatch(w)
<1>1. act \in [Requests -> ActRecord] /\ act[w] \in ActRecord
      /\ SweptAct \in [Requests -> ActRecord] /\ SweptAct[w] \in ActRecord
  BY SweepGood DEF Sound, GatewayTypeOK
<1>2. CASE PrepareInterrupt(w)  BY <1>2 DEF PrepareInterrupt
<1>3. CASE PrepareRefuse(w)
  <2>1. act'[w].exec = "FAILED"  BY <1>1, <1>3 DEF PrepareRefuse, ActRecord
  <2> QED  BY <2>1
<1>4. CASE Complete(w)
  <2>1. act'[w] = Recorded(w, act[w])  BY <1>1, <1>4 DEF Complete, PutRequest
  <2>2. Recorded(w, act[w]).exec # "DISPATCHING"  BY <1>1 DEF Recorded, ActRecord
  <2> QED  BY <2>1, <2>2
<1>5. CASE Resolve(w)
  <2>1. act'[w].exec = act[w].exec  BY <1>1, <1>5 DEF Resolve, PutRequest, ActRecord
  <2> QED  BY <2>1
<1>6. CASE SweepInterrupted /\ w \in AbandonedDispatches  BY <1>6 DEF AbandonedDispatches
<1>7. CASE SameOutcome(act[w], act'[w])  BY <1>7 DEF SameOutcome
<1> QED  BY <1>2, <1>3, <1>4, <1>5, <1>6, <1>7, StillUnless

\* No write is committed to while one like it waits for a person (ADR 0036).
THEOREM NoWriteWhileRequiredHolds == GatewaySpec => NoWriteWhileRequired
<1>1. GatewaySpec => []Sound  BY InitSound, StepSound, PTL DEF GatewaySpec
<1>2. Sound /\ [GatewayNext]_gatewayVars =>
        [\A w, v \in Writes :
           act[w].exec = "NONE" /\ act'[w].exec = "DISPATCHING" /\ Alike(w, v) =>
             act[v].recon # "REQUIRED"]_gatewayVars
  <2> SUFFICES ASSUME Sound, GatewayNext, NEW w \in Writes, NEW v \in Writes,
                      act[w].exec = "NONE", act'[w].exec = "DISPATCHING", Alike(w, v)
               PROVE  act[v].recon # "REQUIRED"
    OBVIOUS
  <2>1. w \in Requests /\ v \in Requests  BY GatewayAssumption
  <2>2. PrepareDispatch(w)  BY <2>1, OnlyPrepareDispatches
  <2> QED  BY <2>1, <2>2 DEF PrepareDispatch, MayDispatch, Blocks
<1> QED  BY <1>1, <1>2, PTL DEF GatewaySpec, NoWriteWhileRequired

\* Every dispatch passes the gate as it stands at that moment.
THEOREM GateAtDispatchHolds == GatewaySpec => GateAtDispatch
<1>1. GatewaySpec => []Sound  BY InitSound, StepSound, PTL DEF GatewaySpec
<1>2. Sound /\ [GatewayNext]_gatewayVars =>
        [\A w \in Requests :
           act[w].exec # "DISPATCHING" /\ act'[w].exec = "DISPATCHING" =>
             /\ run[RunOf[w]] = "RUNNING" /\ policy[ActionOf[w]] # "DENY"
             /\ act[w].decision = "ALLOWED" => policy[ActionOf[w]] = "ALLOW"
             /\ act[w].decision # "ALLOWED" => act[w].approval = "APPROVED" /\ ~act[w].due]_gatewayVars
  <2> SUFFICES ASSUME Sound, GatewayNext, NEW w \in Requests,
                      act[w].exec # "DISPATCHING", act'[w].exec = "DISPATCHING"
               PROVE  /\ run[RunOf[w]] = "RUNNING" /\ policy[ActionOf[w]] # "DENY"
                      /\ act[w].decision = "ALLOWED" => policy[ActionOf[w]] = "ALLOW"
                      /\ act[w].decision # "ALLOWED" => act[w].approval = "APPROVED" /\ ~act[w].due
    OBVIOUS
  <2>1. PrepareDispatch(w)  BY OnlyPrepareDispatches
  <2> QED  BY <2>1 DEF PrepareDispatch, Working, MayDispatch, Authorized
<1> QED  BY <1>1, <1>2, PTL DEF GatewaySpec, GateAtDispatch

\* An outcome told and a reconciliation resolved stand for ever.
THEOREM OutcomeStandsHolds == GatewaySpec => OutcomeStands
<1>1. GatewaySpec => []Sound  BY InitSound, StepSound, PTL DEF GatewaySpec
<1>2. Sound /\ [GatewayNext]_gatewayVars =>
        [\A w \in Requests :
           /\ act[w].exec \in {"SUCCEEDED", "FAILED"} =>
                act'[w].exec = act[w].exec /\ act'[w].code = act[w].code
           /\ act[w].recon \in {"APPLIED", "NOT_APPLIED"} => act'[w].recon = act[w].recon]_gatewayVars
  <2> SUFFICES ASSUME Sound, GatewayNext, NEW w \in Requests
               PROVE  /\ act[w].exec \in {"SUCCEEDED", "FAILED"} =>
                           act'[w].exec = act[w].exec /\ act'[w].code = act[w].code
                      /\ act[w].recon \in {"APPLIED", "NOT_APPLIED"} => act'[w].recon = act[w].recon
    OBVIOUS
  <2>1. /\ act \in [Requests -> ActRecord] /\ act[w] \in ActRecord /\ ActInv(w, act[w])
        /\ act[w].exec \in {"NONE", "DISPATCHING"} => act[w].recon = "NONE"
    BY DEF Sound, GatewayTypeOK, GatewayInductive, ActInv
  <2>2. CASE act[w].exec \in {"NONE", "DISPATCHING"}  BY <2>1, <2>2
  <2>3. CASE act[w].exec \in {"SUCCEEDED", "FAILED"}
    <3>1. CASE Complete(w)
      <4>1. act'[w] = [act[w] EXCEPT !.call = "NONE"]
        BY <2>1, <2>3, <3>1 DEF Complete, PutRequest, Recorded
      <4> QED  BY <2>1, <4>1 DEF ActRecord
    <3>2. CASE Resolve(w)
      <4>1. act'[w].exec = act[w].exec /\ act'[w].code = act[w].code /\ act[w].recon = "REQUIRED"
        BY <2>1, <3>2 DEF Resolve, PutRequest, ActRecord
      <4> QED  BY <4>1
    <3>3. CASE SameOutcome(act[w], act'[w])  BY <3>3 DEF SameOutcome
    <3>4. /\ ~PrepareInterrupt(w) /\ ~PrepareRefuse(w) /\ ~PrepareDispatch(w)
          /\ w \notin AbandonedDispatches
      BY <2>3 DEF PrepareInterrupt, PrepareRefuse, PrepareDispatch, Unexecuted, AbandonedDispatches
    <3>5. CASE ~Complete(w) /\ ~Resolve(w)  BY <3>3, <3>4, <3>5, StillUnless
    <3> QED  BY <3>1, <3>2, <3>5
  <2> QED  BY <2>1, <2>2, <2>3 DEF ActRecord
<1> QED  BY <1>1, <1>2, PTL DEF GatewaySpec, OutcomeStands

-----------------------------------------------------------------------------
(* Refinement: the gateway keeps the promise of GovernedWrites.             *)

\* What GovernedWrites sees of a record.
SameView(x, y) == Told(y) = Told(x) /\ y.world = x.world /\ Ruling(y) = Ruling(x)

\* Nothing it sees changes.
LEMMA ViewFrame ==
  ASSUME \A w \in Writes : SameView(act[w], act'[w])
  PROVE  UNCHANGED Promise!gwVars
  BY DEF SameView, Promise!gwVars

\* Only an outcome and the world are seen.
LEMMA SameOutcomeView ==
  ASSUME NEW x, NEW y, SameOutcome(x, y), y.world = x.world
  PROVE  SameView(x, y)
  BY DEF SameOutcome, SameView, Told, Ruling, IsUnknown

\* Nothing but the outcomes of S moved: the requesters of S were told them.
LEMMA TellStep ==
  ASSUME NEW S \in SUBSET Writes, NEW o \in {"succeeded", "failed", "unknown"},
         \A w \in S : /\ Told(act[w]) = "nothing" /\ Told(act'[w]) = o
                      /\ o = "succeeded" => act[w].world = "applied"
                      /\ o = "failed" => act[w].world \in {"untouched", "refused"}
                      /\ act'[w].world = act[w].world /\ Ruling(act'[w]) = Ruling(act[w]),
         \A w \in Writes \ S : SameView(act[w], act'[w])
  PROVE  Promise!GWNext
<1>1. Promise!Tell(S, o)  BY DEF Promise!Tell, SameView
<1> QED  BY <1>1 DEF Promise!GWNext, Promise!Telling

\* The same for one requester.
LEMMA TellOneStep ==
  ASSUME NEW w \in Writes, NEW o \in {"succeeded", "failed", "unknown"},
         Told(act[w]) = "nothing", Told(act'[w]) = o,
         o = "succeeded" => act[w].world = "applied",
         o = "failed" => act[w].world \in {"untouched", "refused"},
         act'[w].world = act[w].world, Ruling(act'[w]) = Ruling(act[w]),
         \A v \in Writes \ {w} : SameView(act[v], act'[v])
  PROVE  Promise!GWNext
<1>1. {w} \in SUBSET Writes  OBVIOUS
<1>2. \A v \in {w} : /\ Told(act[v]) = "nothing" /\ Told(act'[v]) = o
                     /\ o = "succeeded" => act[v].world = "applied"
                     /\ o = "failed" => act[v].world \in {"untouched", "refused"}
                     /\ act'[v].world = act[v].world /\ Ruling(act'[v]) = Ruling(act[v])
  OBVIOUS
<1> QED  BY ONLY <1>1, <1>2, \A v \in Writes \ {w} : SameView(act[v], act'[v]), TellStep,
                 o \in {"succeeded", "failed", "unknown"}

\* A request is sent, or the external system settles it.
LEMMA WorldStep ==
  ASSUME NEW w \in Writes, NEW o \in {"possible", "applied", "refused"},
         \/ o = "possible" /\ act[w].world = "untouched"
              /\ (Told(act[w]) = "nothing" \/ (Late /\ Told(act[w]) = "unknown"))
         \/ o \in {"applied", "refused"} /\ act[w].world = "possible"
              /\ (Late \/ Ruling(act[w]) = "none"),
         act'[w].world = o, Told(act'[w]) = Told(act[w]), Ruling(act'[w]) = Ruling(act[w]),
         \A v \in Writes \ {w} : SameView(act[v], act'[v])
  PROVE  Promise!GWNext
<1>1. Promise!Attempt(w) \/ Promise!Settle(w)
  BY DEF Promise!Attempt, Promise!Settle, SameView
<1> QED  BY <1>1 DEF Promise!GWNext

\* A person records what the external system shows.
LEMMA ReconcileStep ==
  ASSUME NEW w \in Writes,
         Told(act[w]) = "unknown", Ruling(act[w]) = "none", Late \/ act[w].world # "possible",
         Ruling(act'[w]) = IF act[w].world = "applied" THEN "applied" ELSE "absent",
         Told(act'[w]) = Told(act[w]), act'[w].world = act[w].world,
         \A v \in Writes \ {w} : SameView(act[v], act'[v])
  PROVE  Promise!GWNext
<1>1. Promise!Reconcile(w)  BY DEF Promise!Reconcile, SameView
<1> QED  BY <1>1 DEF Promise!GWNext

Refines == [Promise!GWNext]_(Promise!gwVars)

\* Decisions and time are not seen.
LEMMA DecisionRefines ==
  ASSUME Sound, NEW w \in Requests,
         \/ \E outcome \in Outcome : Decide(w, outcome)
         \/ DeadlinePasses(w) \/ ApproveAction(w) \/ RejectAction(w) \/ LoseCall(w) \/ GoStale(w)
         \/ \E outcome \in {"OK", "FAILED", "UNKNOWN"} : Answer(w, outcome)
  PROVE  Refines
<1>1. act \in [Requests -> ActRecord] /\ act[w] \in ActRecord  BY DEF Sound, GatewayTypeOK
<1>2. ASSUME NEW y, PutRequest(w, y), SameOutcome(act[w], y), y.world = act[w].world PROVE Refines
  <2>1. act' = [act EXCEPT ![w] = y]  BY <1>2 DEF PutRequest
  <2>2. ASSUME NEW v \in Requests PROVE SameView(act[v], act'[v])
    <3>1. CASE v = w  BY <1>1, <1>2, <2>1, <3>1, SameOutcomeView
    <3>2. CASE v # w
      <4>1. act'[v] = act[v]  BY <1>1, <2>1, <3>2
      <4> QED  BY <4>1 DEF SameView
    <3> QED  BY <3>1, <3>2
  <2> QED  BY <2>2, ViewFrame, GatewayAssumption DEF Refines
<1>3. ASSUME NEW outcome \in Outcome, Decide(w, outcome) PROVE Refines
  <2> DEFINE y == [act[w] EXCEPT !.decision = "APPROVAL_REQUIRED", !.approval = "PENDING"]
             z == [act[w] EXCEPT !.decision =
                     IF Verdict(w, outcome) = "ALLOW" THEN "ALLOWED" ELSE "DENIED"]
  <2>1. PutRequest(w, y) \/ PutRequest(w, z)  BY <1>3 DEF Decide
  <2>2. /\ SameOutcome(act[w], y) /\ y.world = act[w].world
        /\ SameOutcome(act[w], z) /\ z.world = act[w].world
    BY <1>1 DEF ActRecord, SameOutcome
  <2> HIDE DEF y, z
  <2> QED  BY <1>2, <2>1, <2>2
<1>4. CASE DeadlinePasses(w)
  <2> DEFINE y == [act[w] EXCEPT !.due = TRUE]
  <2>1. PutRequest(w, y)  BY <1>4 DEF DeadlinePasses
  <2>2. SameOutcome(act[w], y) /\ y.world = act[w].world  BY <1>1 DEF ActRecord, SameOutcome
  <2> HIDE DEF y
  <2> QED  BY <1>2, <2>1, <2>2
<1>5. CASE ApproveAction(w)
  <2> DEFINE y == [act[w] EXCEPT !.approval = "APPROVED"]
  <2>1. PutRequest(w, y)  BY <1>5 DEF ApproveAction
  <2>2. SameOutcome(act[w], y) /\ y.world = act[w].world  BY <1>1 DEF ActRecord, SameOutcome
  <2> HIDE DEF y
  <2> QED  BY <1>2, <2>1, <2>2
<1>6. CASE RejectAction(w)
  <2> DEFINE y == [act[w] EXCEPT !.approval = "REJECTED"]
  <2>1. PutRequest(w, y)  BY <1>6 DEF RejectAction
  <2>2. SameOutcome(act[w], y) /\ y.world = act[w].world  BY <1>1 DEF ActRecord, SameOutcome
  <2> HIDE DEF y
  <2> QED  BY <1>2, <2>1, <2>2
<1>7. CASE LoseCall(w)
  <2> DEFINE y == [act[w] EXCEPT !.call = "NONE"]
  <2>1. PutRequest(w, y)  BY <1>7 DEF LoseCall
  <2>2. SameOutcome(act[w], y) /\ y.world = act[w].world  BY <1>1 DEF ActRecord, SameOutcome
  <2> HIDE DEF y
  <2> QED  BY <1>2, <2>1, <2>2
<1>8. CASE GoStale(w)
  <2> DEFINE y == [act[w] EXCEPT !.stale = TRUE]
  <2>1. PutRequest(w, y)  BY <1>8 DEF GoStale
  <2>2. SameOutcome(act[w], y) /\ y.world = act[w].world  BY <1>1 DEF ActRecord, SameOutcome
  <2> HIDE DEF y
  <2> QED  BY <1>2, <2>1, <2>2
<1>9. ASSUME NEW outcome, Answer(w, outcome) PROVE Refines
  <2> DEFINE y == [act[w] EXCEPT !.call = outcome]
  <2>1. PutRequest(w, y)  BY <1>9 DEF Answer
  <2>2. SameOutcome(act[w], y) /\ y.world = act[w].world  BY <1>1 DEF ActRecord, SameOutcome
  <2> HIDE DEF y
  <2> QED  BY <1>2, <2>1, <2>2
<1> QED  BY <1>3, <1>4, <1>5, <1>6, <1>7, <1>8, <1>9

\* A preparation is seen only where it closes the execution.
LEMMA PrepareRefines ==
  ASSUME Sound, NEW w \in Requests, PrepareInterrupt(w) \/ PrepareRefuse(w) \/ PrepareDispatch(w)
  PROVE  Refines
<1> DEFINE x == SweptAct[w]
<1>1. SweptAct \in [Requests -> ActRecord] /\ x \in ActRecord  BY SweepGood
<1>2. /\ SameOutcome(act[w], x) /\ x.world = act[w].world /\ Good(w, x)
      /\ x.exec \in {"NONE", "DISPATCHING"} => x.code = None /\ x.recon = "NONE"
      /\ x.exec = "NONE" => x.world = "untouched"
  <2>1. SameOutcome(act[w], x) /\ x.world = act[w].world /\ Good(w, x)
    BY SweepGood DEF SameOutcome
  <2> QED  BY <2>1 DEF Good, ActInv
<1>3. ASSUME NEW v \in Requests, v # w PROVE SameView(act[v], act'[v])
  <2>1. act'[v] = SweptAct[v]
    BY <1>1, <1>3 DEF PrepareInterrupt, PrepareRefuse, PrepareDispatch
  <2>2. SameOutcome(act[v], act'[v]) /\ act'[v].world = act[v].world
    BY <2>1, SweepGood DEF SameOutcome
  <2> QED  BY <2>2, SameOutcomeView
<1> HIDE DEF x
<1>4. CASE PrepareInterrupt(w)
  <2>1. act'[w] = Interrupted(w, x)  BY <1>1, <1>4 DEF PrepareInterrupt, x
  <2>2. /\ act'[w].exec = "FAILED" /\ act'[w].code = "INTERRUPTED" /\ act'[w].world = x.world
        /\ act'[w].recon = IF w \in Writes THEN "REQUIRED" ELSE x.recon
    BY <1>1, <2>1 DEF Interrupted, ActRecord
  <2>3. /\ act[w].exec = "DISPATCHING" /\ act[w].recon = "NONE"
    BY <1>2, <1>4 DEF PrepareInterrupt, SameOutcome
  <2>4. Told(act[w]) = "nothing" /\ Told(act'[w]) = "unknown" /\ Ruling(act'[w]) = Ruling(act[w])
    BY <1>2, <2>2, <2>3 DEF Told, Ruling, IsUnknown, SameOutcome
  <2>5. CASE w \in Writes
    <3>1. Promise!GWNext
      BY <1>2, <1>3, <2>2, <2>4, <2>5, TellOneStep, GatewayAssumption
    <3> QED  BY <3>1 DEF Refines
  <2>6. CASE w \notin Writes  BY <1>3, <2>6, ViewFrame, GatewayAssumption DEF Refines
  <2> QED  BY <2>5, <2>6
<1>5. CASE PrepareRefuse(w)
  <2>1. act'[w] = [x EXCEPT !.exec = "FAILED", !.code = "REFUSED"]
    BY <1>1, <1>5 DEF PrepareRefuse, x
  <2>2. act'[w].exec = "FAILED" /\ act'[w].code = "REFUSED" /\ act'[w].world = x.world /\ act'[w].recon = x.recon
    BY <1>1, <2>1 DEF ActRecord
  <2>3. act[w].exec = "NONE" /\ act[w].recon = x.recon /\ act[w].world = "untouched"
    BY <1>2, <1>5 DEF PrepareRefuse, Unexecuted, SameOutcome
  <2>4. Told(act[w]) = "nothing" /\ Told(act'[w]) = "failed" /\ Ruling(act'[w]) = Ruling(act[w])
    BY <2>2, <2>3 DEF Told, Ruling, IsUnknown
  <2>5. CASE w \in Writes
    <3>1. Promise!GWNext
      BY <1>2, <1>3, <2>2, <2>3, <2>4, <2>5, TellOneStep, GatewayAssumption
    <3> QED  BY <3>1 DEF Refines
  <2>6. CASE w \notin Writes  BY <1>3, <2>6, ViewFrame, GatewayAssumption DEF Refines
  <2> QED  BY <2>5, <2>6
<1>6. CASE PrepareDispatch(w)
  <2>1. act'[w] = [x EXCEPT !.exec = "DISPATCHING", !.call = "READY"]
    BY <1>1, <1>6 DEF PrepareDispatch, x
  <2>2. act'[w].exec = "DISPATCHING" /\ act'[w].world = x.world /\ act'[w].recon = x.recon
    BY <1>1, <2>1 DEF ActRecord
  <2>3. act[w].exec = "NONE" /\ act[w].recon = x.recon
    BY <1>2, <1>6 DEF PrepareDispatch, Unexecuted, SameOutcome
  <2>4. SameView(act[w], act'[w])
    BY <1>2, <2>2, <2>3 DEF Told, Ruling, IsUnknown, SameView
  <2> QED  BY <1>3, <2>4, ViewFrame, GatewayAssumption DEF Refines
<1> QED  BY <1>4, <1>5, <1>6

\* Sending, landing, recording and reconciling are what the promise is about.
LEMMA CallRefines ==
  ASSUME Sound, NEW w \in Requests,
         Send(w) \/ Complete(w) \/ Resolve(w) \/ \E o \in {"applied", "refused"} : Land(w, o)
  PROVE  Refines
<1> DEFINE x == act[w]
<1>1. /\ act \in [Requests -> ActRecord] /\ x \in ActRecord /\ ActInv(w, x)
      /\ x.exec \in {"NONE", "DISPATCHING", "SUCCEEDED", "FAILED"}
      /\ x.code \in {None, "REFUSED", "FAILED", "UNKNOWN", "INTERRUPTED"}
  BY DEF Sound, GatewayTypeOK, GatewayInductive, ActRecord
<1>2. ASSUME NEW v \in Requests, v # w PROVE SameView(act[v], act'[v])
  <2>1. act'[v] = act[v]  BY <1>1, <1>2 DEF Send, Complete, Resolve, Land, PutRequest
  <2> QED  BY <2>1 DEF SameView
<1>3. CASE Send(w)
  <2>1. /\ act'[w].exec = x.exec /\ act'[w].code = x.code /\ act'[w].recon = x.recon
        /\ act'[w].world = IF w \in Writes THEN "possible" ELSE x.world
    BY <1>1, <1>3 DEF Send, PutRequest, ActRecord
  <2>2. /\ x.world = "untouched" /\ x.exec \notin {"NONE", "SUCCEEDED"}
        /\ x.code \in {None, "INTERRUPTED"} /\ (x.code = None => x.exec = "DISPATCHING")
        /\ ~Late => x.code = None
    BY <1>1, <1>3, GatewayAssumption DEF ActInv, Send
  <2>3. Told(act'[w]) = Told(x) /\ Ruling(act'[w]) = Ruling(x)
    BY <2>1 DEF Told, Ruling, IsUnknown
  <2>4. Told(x) = "nothing" \/ (Late /\ Told(x) = "unknown")
    BY <1>1, <2>2, GatewayAssumption DEF Told, IsUnknown
  <2>5. CASE w \in Writes
    <3>1. act'[w].world = "possible"  BY <2>1, <2>5
    <3>2. Promise!GWNext  BY <1>2, <2>2, <2>3, <2>4, <2>5, <3>1, WorldStep, GatewayAssumption
    <3> QED  BY <3>2 DEF Refines
  <2>6. CASE w \notin Writes  BY <1>2, <2>6, ViewFrame, GatewayAssumption DEF Refines
  <2> QED  BY <2>5, <2>6
<1>4. ASSUME NEW o \in {"applied", "refused"}, Land(w, o) PROVE Refines
  <2>1. /\ act'[w].exec = x.exec /\ act'[w].code = x.code /\ act'[w].recon = x.recon
        /\ act'[w].world = o /\ x.world = "possible"
    BY <1>1, <1>4 DEF Land, PutRequest, ActRecord
  <2>2. Told(act'[w]) = Told(x) /\ Ruling(act'[w]) = Ruling(x)
    BY <2>1 DEF Told, Ruling, IsUnknown
  <2>3. w \in Writes /\ (Late \/ Ruling(x) = "none")
    BY <1>1, <2>1 DEF ActInv, Ruling
  <2>4. Promise!GWNext  BY <1>2, <2>1, <2>2, <2>3, WorldStep, GatewayAssumption
  <2> QED  BY <2>4 DEF Refines
<1>5. CASE Resolve(w)
  <2>1. /\ act'[w].exec = x.exec /\ act'[w].code = x.code /\ act'[w].world = x.world
        /\ act'[w].recon = (IF x.world = "applied" THEN "APPLIED" ELSE "NOT_APPLIED")
        /\ x.recon = "REQUIRED" /\ (Late \/ x.world # "possible")
    BY <1>1, <1>5 DEF Resolve, PutRequest, ActRecord
  <2>2. Told(act'[w]) = Told(x)  BY <2>1 DEF Told, IsUnknown
  <2>3. /\ Ruling(x) = "none"
        /\ Ruling(act'[w]) = IF x.world = "applied" THEN "applied" ELSE "absent"
    BY <2>1 DEF Ruling
  <2>4. w \in Writes /\ Told(x) = "unknown"
    BY <1>1, <2>1, GatewayAssumption DEF ActInv, Told, IsUnknown
  <2>5. Promise!GWNext  BY <1>2, <2>1, <2>2, <2>3, <2>4, ReconcileStep, GatewayAssumption
  <2> QED  BY <2>5 DEF Refines
<1>6. CASE Complete(w)
  <2> DEFINE y == Recorded(w, x)
  <2>1. act'[w] = y /\ x.call \in {"OK", "FAILED", "UNKNOWN"}
    BY <1>1, <1>6 DEF Complete, PutRequest
  <2>2. CASE x.exec # "DISPATCHING"
    <3>1. y = [x EXCEPT !.call = "NONE"]  BY <2>2 DEF Recorded
    <3>2. SameOutcome(x, y) /\ y.world = x.world  BY <1>1, <3>1 DEF ActRecord, SameOutcome
    <3>3. SameView(act[w], act'[w])  BY <2>1, <3>2, SameOutcomeView
    <3> QED  BY <1>2, <3>3, ViewFrame, GatewayAssumption DEF Refines
  <2>3. CASE x.exec = "DISPATCHING"
    <3>1. x.code = None /\ x.recon = "NONE" /\ Told(x) = "nothing" /\ Ruling(x) = "none"
      BY <1>1, <2>3 DEF ActInv, Told, Ruling, IsUnknown
    <3>2. y.world = x.world /\ Ruling(y) = "none"
      BY <1>1, <2>1, <2>3, <3>1 DEF Recorded, ActRecord, Ruling
    <3>3. PICK o \in {"succeeded", "failed", "unknown"} :
            /\ Told(y) = o
            /\ w \in Writes => /\ o = "succeeded" => x.world = "applied"
                               /\ o = "failed" => x.world \in {"untouched", "refused"}
      <4>1. CASE x.call = "OK"
        <5>1. y.exec = "SUCCEEDED"  BY <1>1, <2>3, <4>1 DEF Recorded, ActRecord
        <5>2. Told(y) = "succeeded"  BY <5>1 DEF Told, IsUnknown
        <5> QED  BY <1>1, <4>1, <5>2 DEF ActInv
      <4>2. CASE x.call = "FAILED"
        <5>1. y.exec = "FAILED" /\ y.code = "FAILED"  BY <1>1, <2>3, <4>2 DEF Recorded, ActRecord
        <5>2. Told(y) = "failed"  BY <5>1 DEF Told, IsUnknown
        <5> QED  BY <1>1, <4>2, <5>2 DEF ActInv
      <4>3. CASE x.call = "UNKNOWN"
        <5>1. y.exec = "FAILED" /\ y.code = "UNKNOWN"  BY <1>1, <2>3, <4>3 DEF Recorded, ActRecord
        <5>2. Told(y) = "unknown"  BY <5>1 DEF Told, IsUnknown
        <5> QED  BY <5>2
      <4> QED  BY <2>1, <4>1, <4>2, <4>3
    <3> HIDE DEF y
    <3>4. CASE w \in Writes
      <4>1. Promise!GWNext
        BY <1>2, <2>1, <3>1, <3>2, <3>3, <3>4, TellOneStep, GatewayAssumption
      <4> QED  BY <4>1 DEF Refines
    <3>5. CASE w \notin Writes  BY <1>2, <3>5, ViewFrame, GatewayAssumption DEF Refines
    <3> QED  BY <3>4, <3>5
  <2> QED  BY <2>2, <2>3
<1> QED  BY <1>3, <1>4, <1>5, <1>6

\* The sweep tells the requesters of every abandoned write that nobody knows.
LEMMA SweepRefines == ASSUME Sound, SweepInterrupted PROVE Refines
<1> DEFINE S == AbandonedDispatches \cap Writes
<1>1. act \in [Requests -> ActRecord] /\ Writes \subseteq Requests /\ S \in SUBSET Writes
  BY GatewayAssumption DEF Sound, GatewayTypeOK
<1>2. ASSUME NEW w \in S
      PROVE  /\ Told(act[w]) = "nothing" /\ Told(act'[w]) = "unknown"
             /\ act'[w].world = act[w].world /\ Ruling(act'[w]) = Ruling(act[w])
  <2>1. w \in Requests /\ act[w] \in ActRecord /\ ActInv(w, act[w]) /\ act[w].exec = "DISPATCHING"
        /\ act[w].recon = "NONE" /\ w \in Writes
    BY <1>1, <1>2 DEF Sound, GatewayInductive, AbandonedDispatches, ActInv
  <2>2. act'[w] = Interrupted(w, act[w])  BY <1>2, <2>1 DEF SweepInterrupted
  <2>3. /\ act'[w].exec = "FAILED" /\ act'[w].code = "INTERRUPTED" /\ act'[w].world = act[w].world
        /\ act'[w].recon = "REQUIRED"
    BY <2>1, <2>2 DEF Interrupted, ActRecord
  <2> QED  BY <2>1, <2>3 DEF Told, Ruling, IsUnknown
<1>3. ASSUME NEW w \in Writes \ S PROVE SameView(act[w], act'[w])
  <2>1. act'[w] = act[w]  BY <1>1, <1>3 DEF SweepInterrupted
  <2> QED  BY <2>1 DEF SameView
<1> HIDE DEF S
<1>4. Promise!GWNext  BY <1>1, <1>2, <1>3, TellStep
<1> QED  BY <1>4 DEF Refines

\* Every step of the gateway is a step of the promise or is not seen.
LEMMA StepRefines == Sound /\ [GatewayNext]_gatewayVars => Refines
<1> SUFFICES ASSUME Sound, [GatewayNext]_gatewayVars PROVE Refines
  OBVIOUS
<1>1. ASSUME act' = act PROVE Refines
  BY <1>1, ViewFrame DEF Refines, SameView
<1>2. CASE ExpireDueActions
  <2>1. ASSUME NEW w \in Requests PROVE SameView(act[w], act'[w])
    <3>1. SameOutcome(act[w], act'[w]) /\ act'[w].world = act[w].world
      BY <1>2, SweepGood DEF ExpireDueActions, SameOutcome
    <3> QED  BY <3>1, SameOutcomeView
  <2> QED  BY <2>1, ViewFrame, GatewayAssumption DEF Refines
<1>3. CASE SweepInterrupted  BY <1>3, SweepRefines
<1>4. ASSUME NEW w \in Requests,
             \/ \E outcome \in Outcome : Decide(w, outcome)
             \/ DeadlinePasses(w) \/ ApproveAction(w) \/ RejectAction(w) \/ LoseCall(w) \/ GoStale(w)
             \/ \E outcome \in {"OK", "FAILED", "UNKNOWN"} : Answer(w, outcome)
      PROVE  Refines
  BY <1>4, DecisionRefines
<1>5. ASSUME NEW w \in Requests, PrepareInterrupt(w) \/ PrepareRefuse(w) \/ PrepareDispatch(w)
      PROVE Refines
  BY <1>5, PrepareRefines
<1>6. ASSUME NEW w \in Requests,
             Send(w) \/ Complete(w) \/ Resolve(w) \/ \E o \in {"applied", "refused"} : Land(w, o)
      PROVE Refines
  BY <1>6, CallRefines
<1>7. CASE UNCHANGED gatewayVars  BY <1>1, <1>7 DEF gatewayVars
<1> QED  BY <1>1, <1>2, <1>3, <1>4, <1>5, <1>6, <1>7
      DEF GatewayNext, StartRun, ResumeRun, EndRun, SetPolicy

\* The gateway implements GovernedWrites: writes are attempted at most once, and
\* nobody is told anything of them that is not true or does not stay true.
THEOREM PromiseKept == GatewaySpec => KeepsPromise
<1>1. GatewayInit => Promise!GWInit
  BY GatewayAssumption DEF GatewayInit, NotAsked, Promise!GWInit, Told, Ruling, IsUnknown
<1>2. Sound /\ [GatewayNext]_gatewayVars => [Promise!GWNext]_(Promise!gwVars)  BY StepRefines DEF Refines
<1>3. GatewaySpec => []Sound  BY InitSound, StepSound, PTL DEF GatewaySpec
<1> QED  BY <1>1, <1>2, <1>3, PTL DEF GatewaySpec, KeepsPromise, Promise!GWSpec
=============================================================================
