-------------------------- MODULE ExecutionGrants --------------------------
(* Execution grants and the execution runtime that uses them.  The control   *)
(* plane issues at most one signed grant for an action request, after asking *)
(* the policy again.  The execution runtime verifies the grant, claims it in *)
(* its database, runs the operation in the workspace of the thread and       *)
(* stores the response.  It may stop between any two of its writes and       *)
(* recovers from its database before it serves again.                        *)
(*                                                                           *)
(* A grant is named by its request.  `ops` is the memory of the process; the *)
(* grants, workspaces and pending credentials are its database; `dir` and    *)
(* `tree` are the file system.                                               *)
EXTENDS Absent, Integers, FiniteSets

CONSTANTS
  Requests,
  Threads,
  Thread,           \* of a request
  Target,           \* the path a request checks out into, or writes below
  Paths,
  Checkouts,        \* requests for git.checkout; the others write a file
  Private,          \* requests whose repository needs a brokered credential
  Decision,         \* how a request was decided when it was made
  MaxCrashes,         \* how often the process crashes
  MaxThrows         \* how often an operation ends with an unexpected exception

ASSUME GrantAssumption ==
  /\ Thread \in [Requests -> Threads]
  /\ Target \in [Requests -> Paths] /\ Checkouts \subseteq Requests
  /\ Decision \in [Requests -> {"ALLOWED", "DENIED", "APPROVAL_REQUIRED"}]
  /\ Private \subseteq Checkouts
  /\ MaxCrashes \in Nat /\ MaxThrows \in Nat

\* The strings that stand for rows, answers and outcomes.
Words == {"PENDING", "APPROVED", "REJECTED", "PLAIN", "CUT", "RUNNING", "READY", "IN_USE", "LOST", "SUCCEEDED",
          "FAILED", "CREDENTIAL_REFUSED", "WORKSPACE_LOST", "OPERATION_INTERRUPTED"}
ASSUME GrantNames == None \notin Requests \cup Words

VARIABLES
  policy,           \* the outcome of the policy as it is now
  approval,         \* the approval of each request that needs one
  due,              \* approvals whose expires_at has passed
  grant,            \* None, or whether the grant ends no later than the approval
  late,             \* grants whose expires_at has passed
  mode,             \* "down", "starting" (recover) or "serving"
  ops,              \* operations of this process
  claims,           \* the grants table: None, "RUNNING", or the stored response
  bound,            \* claims that name their request and workspace
  workspace,        \* the row of each thread's workspace, or None
  pending,          \* pending_credentials
  discarded,        \* the pending credential recover() is working on, or None
  dir,              \* the workspace directory of each thread: "none", "there", "gone"
  tree,             \* what is checked out at each path: None, or by whom and whether whole
  starts,           \* history: how often the provider was started, up to 2
  answers,          \* history: the responses a request was answered with
  crashes, throws

planeVars == <<policy, approval, due, grant, late>>
diskVars == <<dir, tree>>
tableVars == <<claims, bound, workspace, pending>>
grantVars == <<planeVars, mode, ops, tableVars, discarded, diskVars, starts, answers, crashes, throws>>

Op(q, at) == [request |-> q, at |-> at]
Busy(t) == \E o \in ops : Thread[o.request] = t
Move(o, at) == ops' = (ops \ {o}) \cup {[o EXCEPT !.at = at]}
At(o, at) == mode = "serving" /\ o.at = at
Partial(q) == [by |-> q, whole |-> FALSE]
Whole(q) == [by |-> q, whole |-> TRUE]

GrantInit ==
  /\ policy = "ALLOW"
  /\ approval = [q \in Requests |-> IF Decision[q] = "APPROVAL_REQUIRED" THEN "PENDING" ELSE None]
  /\ due = {} /\ late = {} /\ grant = [q \in Requests |-> None]
  /\ mode = "serving" /\ ops = {}
  /\ claims = [q \in Requests |-> None] /\ bound = {} /\ pending = {} /\ discarded = None
  /\ workspace = [t \in Threads |-> None]
  /\ dir = [t \in Threads |-> "none"]
  /\ tree = [t \in Threads |-> [p \in Paths |-> None]]
  /\ starts = [q \in Requests |-> 0] /\ answers = [q \in Requests |-> {}]
  /\ crashes = 0 /\ throws = 0

(***************************************************************************)
(* The control plane                                                       *)
(***************************************************************************)
runtimeVars == <<mode, ops, tableVars, discarded, diskVars, starts, answers, crashes, throws>>

ChangePolicy ==
  /\ policy' \in {"ALLOW", "REQUIRE_APPROVAL", "DENY"} \ {policy}
  /\ UNCHANGED <<approval, due, grant, late, runtimeVars>>

DecideRequest(q) ==
  /\ approval[q] = "PENDING" /\ q \notin due
  /\ \E d \in {"APPROVED", "REJECTED"} : approval' = [approval EXCEPT ![q] = d]
  /\ UNCHANGED <<policy, due, grant, late, runtimeVars>>

\* The deadline of an approval; a grant that was cut to it ends as well.
ApprovalEnds(q) ==
  /\ approval[q] # None /\ q \notin due
  /\ due' = due \cup {q}
  /\ late' = IF grant[q] = "CUT" THEN late \cup {q} ELSE late
  /\ UNCHANGED <<policy, approval, grant, runtimeVars>>

\* Ten minutes after it was issued.
GrantEnds(q) ==
  /\ grant[q] # None /\ q \notin late
  /\ late' = late \cup {q}
  /\ UNCHANGED <<policy, approval, due, grant, runtimeVars>>

Grantable(q) ==
  /\ Decision[q] # "DENIED"
  /\ Decision[q] = "APPROVAL_REQUIRED" => approval[q] = "APPROVED" /\ q \notin due
  /\ policy # "DENY"
  /\ policy = "REQUIRE_APPROVAL" => Decision[q] # "ALLOWED"

\* Faulty: every grant lasts ten minutes.
IssueUncut(q) ==
  /\ grant[q] = None /\ Grantable(q)
  /\ grant' = [grant EXCEPT ![q] = "PLAIN"]
  /\ UNCHANGED <<policy, approval, due, late, runtimeVars>>

\* The first answer; expireDue() runs in the same transaction and rolls back
\* with a refusal.  A repeat is answered with the stored grant until it ends.
IssueGrant(q) ==
  /\ grant[q] = None /\ Grantable(q)
  /\ grant' = [grant EXCEPT ![q] = IF approval[q] = None THEN "PLAIN" ELSE "CUT"]
  /\ UNCHANGED <<policy, approval, due, late, runtimeVars>>

(***************************************************************************)
(* execute(): verify, busy, claim                                          *)
(***************************************************************************)
Verified(q) == grant[q] # None /\ q \notin late

\* Anybody who was given the grant may send it, any number of times.
Claim(q) ==
  /\ mode = "serving" /\ Verified(q) /\ ~Busy(Thread[q])
  /\ claims[q] = None
  /\ claims' = [claims EXCEPT ![q] = "RUNNING"]
  /\ ops' = ops \cup {Op(q, "claimed")}
  /\ UNCHANGED <<planeVars, mode, bound, workspace, pending, discarded, diskVars, starts, answers, crashes, throws>>

\* A repeat of a finished one; a repeat of one that is claimed is refused.
Replay(q) ==
  /\ mode = "serving" /\ Verified(q) /\ ~Busy(Thread[q])
  /\ claims[q] \notin {None, "RUNNING"}
  /\ answers' = [answers EXCEPT ![q] = @ \cup {claims[q]}]
  /\ UNCHANGED <<planeVars, mode, ops, tableVars, discarded, diskVars, starts, crashes, throws>>

(***************************************************************************)
(* run()                                                                   *)
(***************************************************************************)
\* The workspace is looked up: lost, there, or registered now.
Lost(t) == workspace[t] # None /\ (workspace[t] = "LOST" \/ dir[t] # "there")

Open(o) ==
  LET t == Thread[o.request] IN
  /\ At(o, "claimed")
  /\ \/ /\ Lost(t)
        /\ workspace' = [workspace EXCEPT ![t] = "LOST"]
        /\ Move(o, "WORKSPACE_LOST")
     \/ /\ ~Lost(t) /\ workspace[t] # None
        /\ Move(o, "opened")
        /\ UNCHANGED workspace
     \/ /\ workspace[t] = None
        /\ workspace' = [workspace EXCEPT ![t] = "READY"]
        /\ Move(o, "registered")
  /\ UNCHANGED <<planeVars, mode, claims, bound, pending, discarded, diskVars, starts, answers, crashes, throws>>

MakeDirectory(o) ==
  /\ At(o, "registered")
  /\ dir' = [dir EXCEPT ![Thread[o.request]] = "there"]
  /\ Move(o, "opened")
  /\ UNCHANGED <<planeVars, mode, tableVars, discarded, tree, starts, answers, crashes, throws>>

Bind(o) ==
  /\ At(o, "opened")
  /\ bound' = bound \cup {o.request}
  /\ Move(o, "bound")
  /\ UNCHANGED <<planeVars, mode, claims, workspace, pending, discarded, diskVars, starts, answers, crashes, throws>>

InUse(o) ==
  /\ At(o, "bound")
  /\ workspace' = [workspace EXCEPT ![Thread[o.request]] = "IN_USE"]
  /\ Move(o, IF o.request \in Private THEN "credential" ELSE "ready")
  /\ UNCHANGED <<planeVars, mode, claims, bound, pending, discarded, diskVars, starts, answers, crashes, throws>>

\* Recorded before the lease is redeemed.
RecordPending(o) ==
  /\ At(o, "credential")
  /\ pending' = pending \cup {o.request}
  /\ Move(o, "redeeming")
  /\ UNCHANGED <<planeVars, mode, claims, bound, workspace, discarded, diskVars, starts, answers, crashes, throws>>

\* The control plane answers with the credential or refuses it.
Redeem(o) ==
  /\ At(o, "redeeming")
  /\ \E at \in {"ready", "CREDENTIAL_REFUSED"} : Move(o, at)
  /\ UNCHANGED <<planeVars, mode, tableVars, discarded, diskVars, starts, answers, crashes, throws>>

Started(q) == starts' = [starts EXCEPT ![q] = IF @ < 2 THEN @ + 1 ELSE @]
SetTree(q, x) == tree' = [tree EXCEPT ![Thread[q]][Target[q]] = x]
Found(q) == tree[Thread[q]][Target[q]]

\* The provider: a checkout refuses a path that exists; a write makes the
\* directories it needs and has its effect at once.
Start(o) ==
  LET q == o.request
      there == dir[Thread[q]] = "there" IN
  /\ At(o, "ready")
  /\ \/ /\ q \in Checkouts /\ there /\ Found(q) = None
        /\ Started(q) /\ SetTree(q, Partial(q)) /\ Move(o, "cloning")
     \/ /\ q \notin Checkouts /\ there
        /\ Started(q) /\ SetTree(q, IF Found(q) = None THEN Whole(q) ELSE Found(q))
        /\ Move(o, "SUCCEEDED")
     \/ /\ q \in Checkouts => ~there \/ Found(q) # None
        /\ Move(o, "FAILED")
        /\ UNCHANGED <<tree, starts>>
  /\ UNCHANGED <<planeVars, mode, tableVars, discarded, dir, answers, crashes, throws>>

\* git clone ends; a clone that failed, timed out or was cancelled is discarded.
Clone(o) ==
  LET q == o.request IN
  /\ At(o, "cloning")
  /\ \/ dir[Thread[q]] = "there" /\ SetTree(q, Whole(q)) /\ Move(o, "SUCCEEDED")
     \/ SetTree(q, None) /\ Move(o, "FAILED")
  /\ UNCHANGED <<planeVars, mode, tableVars, discarded, dir, starts, answers, crashes, throws>>

Outcomes == {"SUCCEEDED", "FAILED", "CREDENTIAL_REFUSED"}

\* The finally of run(): the lease is released, the record goes, READY again.
Close(o) ==
  /\ mode = "serving" /\ o.at \in Outcomes /\ o.request \in bound /\ workspace[Thread[o.request]] = "IN_USE"
  /\ pending' = pending \ {o.request}
  /\ workspace' = [workspace EXCEPT ![Thread[o.request]] = "READY"]
  /\ UNCHANGED <<planeVars, mode, ops, claims, bound, discarded, diskVars, starts, answers, crashes, throws>>

Closed(o) ==
  \/ o.at = "WORKSPACE_LOST"
  \/ o.at \in Outcomes /\ workspace[Thread[o.request]] = "READY" /\ o.request \notin pending

\* completeGrant, only over RUNNING.
Completed(q, response) ==
  claims' = IF claims[q] = "RUNNING" THEN [claims EXCEPT ![q] = response] ELSE claims

\* The response is stored; then the workspace is free and the answer is sent, or
\* lost with the connection.
Respond(o) ==
  /\ mode = "serving" /\ Closed(o)
  /\ Completed(o.request, o.at)
  /\ ops' = ops \ {o}
  /\ \E sent \in BOOLEAN :
       answers' = IF sent THEN [answers EXCEPT ![o.request] = @ \cup {o.at}] ELSE answers
  /\ UNCHANGED <<planeVars, mode, bound, workspace, pending, discarded, diskVars, starts, crashes, throws>>

\* An unexpected exception after the operation was bound (an answer that breaks
\* off, evidence that cannot be written): the finally runs, the grant stays RUNNING.
Throw(o) ==
  /\ mode = "serving" /\ throws < MaxThrows /\ throws' = throws + 1
  /\ o.at \in {"redeeming", "SUCCEEDED"} /\ workspace[Thread[o.request]] = "IN_USE"
  /\ pending' = pending \ {o.request}
  /\ workspace' = [workspace EXCEPT ![Thread[o.request]] = "READY"]
  /\ ops' = ops \ {o}
  /\ UNCHANGED <<planeVars, mode, claims, bound, discarded, diskVars, starts, answers, crashes>>

(***************************************************************************)
(* Stops and recovery                                                      *)
(***************************************************************************)
Crash ==
  /\ mode # "down" /\ crashes < MaxCrashes /\ crashes' = crashes + 1
  /\ mode' = "down" /\ ops' = {} /\ discarded' = None
  /\ UNCHANGED <<planeVars, tableVars, diskVars, starts, answers, throws>>

\* Somebody or something removes the directory of a workspace.
LoseDirectory(t) ==
  /\ dir[t] = "there"
  /\ dir' = [dir EXCEPT ![t] = "gone"]
  /\ tree' = [tree EXCEPT ![t] = [p \in Paths |-> None]]
  /\ UNCHANGED <<planeVars, mode, ops, tableVars, discarded, starts, answers, crashes, throws>>

Restart ==
  /\ mode = "down" /\ mode' = "starting"
  /\ UNCHANGED <<planeVars, ops, tableVars, discarded, diskVars, starts, answers, crashes, throws>>

\* recover(), first loop: the directory of a pending credential is removed ...
Discard(q) ==
  /\ mode = "starting" /\ discarded = None /\ q \in pending
  /\ SetTree(q, None)
  /\ discarded' = q
  /\ UNCHANGED <<planeVars, mode, ops, tableVars, dir, starts, answers, crashes, throws>>

\* ... the lease released and the grant closed ...
CloseInterrupted ==
  /\ mode = "starting" /\ discarded # None /\ claims[discarded] = "RUNNING"
  /\ Completed(discarded, "OPERATION_INTERRUPTED")
  /\ UNCHANGED <<planeVars, mode, ops, bound, workspace, pending, discarded, diskVars, starts, answers, crashes, throws>>

\* ... and the record forgotten.
ClearPending ==
  /\ mode = "starting" /\ discarded # None /\ claims[discarded] # "RUNNING"
  /\ pending' = pending \ {discarded} /\ discarded' = None
  /\ UNCHANGED <<planeVars, mode, ops, claims, bound, workspace, diskVars, starts, answers, crashes, throws>>

\* Faulty: every unfinished grant is forgotten.
ReleaseUnfinished(q) ==
  /\ mode = "starting" /\ pending = {} /\ claims[q] = "RUNNING"
  /\ claims' = [claims EXCEPT ![q] = None]
  /\ UNCHANGED <<planeVars, mode, ops, bound, workspace, pending, discarded, diskVars, starts, answers, crashes, throws>>

\* Second loop: a grant under which nothing had started stays usable, any other
\* is closed.
CloseUnfinished(q) ==
  /\ mode = "starting" /\ pending = {} /\ claims[q] = "RUNNING"
  /\ \/ /\ q \notin bound
        /\ claims' = [claims EXCEPT ![q] = None]
        /\ UNCHANGED workspace
     \/ /\ q \in bound
        /\ Completed(q, "OPERATION_INTERRUPTED")
        /\ workspace' = [workspace EXCEPT ![Thread[q]] = "READY"]
  /\ UNCHANGED <<planeVars, mode, ops, bound, pending, discarded, diskVars, starts, answers, crashes, throws>>

\* Faulty: serves after the first loop.
ServeSoon ==
  /\ mode = "starting" /\ pending = {} /\ mode' = "serving"
  /\ UNCHANGED <<planeVars, ops, tableVars, discarded, diskVars, starts, answers, crashes, throws>>

Serve ==
  /\ mode = "starting" /\ pending = {} /\ \A q \in Requests : claims[q] # "RUNNING"
  /\ mode' = "serving"
  /\ UNCHANGED <<planeVars, ops, tableVars, discarded, diskVars, starts, answers, crashes, throws>>

-----------------------------------------------------------------------------
Plane ==
  \/ ChangePolicy
  \/ \E q \in Requests : DecideRequest(q) \/ ApprovalEnds(q) \/ GrantEnds(q) \/ IssueGrant(q)

Work(o) ==
  \/ Open(o) \/ MakeDirectory(o) \/ Bind(o) \/ InUse(o) \/ RecordPending(o) \/ Redeem(o)
  \/ Start(o) \/ Clone(o) \/ Close(o) \/ Respond(o)

Recover ==
  \/ Restart \/ CloseInterrupted \/ ClearPending \/ Serve
  \/ \E q \in Requests : Discard(q) \/ CloseUnfinished(q)

GrantNext ==
  \/ Plane
  \/ \E q \in Requests : Claim(q) \/ Replay(q)
  \/ \E o \in ops : Work(o) \/ Throw(o)
  \/ Recover \/ Crash
  \/ \E t \in Threads : LoseDirectory(t)

GrantSpec == GrantInit /\ [][GrantNext]_grantVars

\* The process is started again when it stopped and goes on with what it has:
\* the provider and the control plane answer within their timeouts.
GrantFairness ==
  /\ WF_grantVars(Recover)
  /\ WF_grantVars(\E o \in ops : Work(o))

-----------------------------------------------------------------------------
Responses == Outcomes \cup {"WORKSPACE_LOST", "OPERATION_INTERRUPTED"}
Places == {"claimed", "registered", "opened", "bound", "credential", "redeeming", "ready", "cloning"}

\* Types, and at most one operation in a workspace, always one that is claimed.
GrantTypeOK ==
  /\ policy \in {"ALLOW", "REQUIRE_APPROVAL", "DENY"}
  /\ approval \in [Requests -> {None, "PENDING", "APPROVED", "REJECTED"}]
  /\ due \subseteq Requests /\ late \subseteq Requests /\ pending \subseteq Private
  /\ grant \in [Requests -> {None, "PLAIN", "CUT"}]
  /\ mode \in {"down", "starting", "serving"}
  /\ ops \subseteq [request : Requests, at : Places \cup Outcomes \cup {"WORKSPACE_LOST"}]
  /\ claims \in [Requests -> {None, "RUNNING"} \cup Responses] /\ bound \subseteq Requests
  /\ workspace \in [Threads -> {None, "READY", "IN_USE", "LOST"}]
  /\ discarded \in pending \cup {None}
  /\ dir \in [Threads -> {"none", "there", "gone"}]
  /\ tree \in [Threads -> [Paths -> {None} \cup [by : Requests, whole : BOOLEAN]]]
  /\ starts \in [Requests -> 0..2] /\ answers \in [Requests -> SUBSET Responses]
  /\ crashes \in 0..MaxCrashes /\ throws \in 0..MaxThrows

\* One operation at a time in a workspace, however often grants are sent again,
\* and what runs holds a claim that is not yet answered.
OneAtATime ==
  /\ \A o, p \in ops : Thread[o.request] = Thread[p.request] => o = p
  /\ \A o \in ops : claims[o.request] = "RUNNING"

\* A grant is used once: whatever is repeated and wherever the process crashes, the
\* provider is not started twice for one request.
StartedOnce == \A q \in Requests : starts[q] < 2

\* Whoever sends a grant again is told what the first one was told.
AnswersAgree == \A q \in Requests :
  /\ Cardinality(answers[q]) < 2
  /\ claims[q] \in Responses => answers[q] \subseteq {claims[q]}

\* A claim that nobody works on, which makes every repeat "in use", does not
\* outlive the process that made it: only an exception leaves one.
ClaimsAlive ==
  mode = "serving" =>
    Cardinality({q \in Requests : claims[q] = "RUNNING" /\ ~\E o \in ops : o.request = q}) <= throws

\* Once serving, a checkout that did not finish is left only where no credential
\* was involved; the answer to that one tells to check the workspace.
NoPartialLeft ==
  mode = "serving" => \A t \in Threads : \A p \in Paths :
    LET x == tree[t][p] IN
    x # None /\ ~x.whole => \/ Op(x.by, "cloning") \in ops
                            \/ x.by \notin Private /\ claims[x.by] = "OPERATION_INTERRUPTED"

\* What is recorded of grants is what was done under them, crashes and repeats included.
GrantsSound == GrantTypeOK /\ OneAtATime /\ StartedOnce /\ AnswersAgree /\ ClaimsAlive /\ NoPartialLeft

\* A lost workspace is never made again, and an operation that has to be approved
\* is claimed only while its approval is in force.
NeverRemade == [][\A t \in Threads : dir[t] = "gone" => dir'[t] = "gone"]_grantVars
ClaimedInForce ==
  [][\A q \in Requests :
       claims[q] = None /\ claims'[q] = "RUNNING" /\ Decision[q] = "APPROVAL_REQUIRED" =>
         approval[q] = "APPROVED" /\ q \notin due]_grantVars

\* Both, whoever sends which grant again and whatever is decided meanwhile.
ClaimsKept == NeverRemade /\ ClaimedInForce

\* A claimed grant was closed or is usable again, unless an exception left it.
ClaimsEnded == \A q \in Requests : claims[q] = "RUNNING" => throws > 0

\* What a comment says of recovery, that it discards the partial checkout of an
\* operation that never finished: what another operation finished stays.
FinishedKept ==
  [][\A t \in Threads : \A p \in Paths :
       LET x == tree[t][p] IN
       x # None /\ dir'[t] # "gone" =>
         (claims[x.by] = "SUCCEEDED" => tree'[t][p] = x)]_grantVars
=============================================================================
