------------------------------ MODULE Desktop -------------------------------
(* The employee's application (employee-desktop/src/app/app.ts).  Everything  *)
(* it does waits for answers that arrive in any order, while the employee goes *)
(* on: a submission picks its agent between two answers, a conversation that  *)
(* is opened sets the agent when it is loaded, and a run is followed by asking *)
(* again after each answer until it ends.                                    *)
EXTENDS Absent, Naturals, Sequences

CONSTANTS
  Agents, Generic,     \* agents assigned to the employee, those without the QA workflow
  MaxTasks,            \* bound: tasks submitted
  MaxClicks,           \* bound: what else the employee does
  MaxPolls             \* bound: requests of run details at a time

ASSUME DesktopAssumption ==
  /\ Generic \subseteq Agents /\ None \notin Agents
  /\ {MaxTasks, MaxClicks, MaxPolls} \subseteq Nat

VARIABLES
  talks, agentRuns,    \* at the control plane: conversations, and their runs
  manifest, selected,  \* verifiedManifest, selectedAgentId
  activeConversation, opening, \* the one shown, selectConversation under way
  followed, detail,    \* followedRunId, runDetail
  timer, polls,        \* followTimer, refreshRun and cancelRun under way
  task, using,         \* submit, useAssignedAgent
  tasks, clicks,       \* how many there were
  lost, cut            \* a refresh failed; a timer of another run was cleared

deskVars == <<talks, agentRuns, manifest, selected, activeConversation, opening, followed, detail,
              timer, polls, task, using, tasks, clicks, lost, cut>>

NoTask == [stage |-> "none", talk |-> 0, agent |-> None, run |-> 0]
NoPoll == [at |-> "free", run |-> 0, saw |-> None]
Slots == 1..MaxPolls
Submitting == task.stage # "none"
genericAgent == manifest \in Generic

TaskStages == {"none", "creating", "posting", "starting", "preparing", "opening", "listing", "following"}

AgentRunStatuses == {"queued", "running", "ended"}

DeskTypeOK ==
  /\ talks \in Seq(Agents)
  /\ agentRuns \in Seq([talk : DOMAIN talks, agent : Agents \union {None}, status : AgentRunStatuses])
  /\ manifest \in Agents \union {None} /\ {selected, using} \subseteq Agents \union {None}
  /\ activeConversation \in {0} \union DOMAIN talks /\ opening \subseteq DOMAIN talks
  /\ followed \in {0} \union DOMAIN agentRuns
  /\ detail = None \/ detail \in [run : DOMAIN agentRuns, status : AgentRunStatuses]
  /\ timer \in {0} \union Slots
  /\ \A p \in Slots : polls[p].at \in {"free", "asking", "reloading", "waiting", "cancelling"}
  /\ task.stage \in TaskStages
  /\ tasks \in 0..MaxTasks /\ clicks \in 0..MaxClicks /\ {lost, cut} \subseteq BOOLEAN

\* The employee has a conversation with one of the agents.
DeskInit ==
  /\ talks \in {<<a>> : a \in Agents} /\ agentRuns = <<>>
  /\ manifest = None /\ selected \in Agents \ Generic
  /\ activeConversation = 0 /\ opening = {}
  /\ followed = 0 /\ detail = None /\ timer = 0 /\ polls = [p \in Slots |-> NoPoll]
  /\ task = NoTask /\ using = None /\ tasks = 0 /\ clicks = 0 /\ lost = FALSE /\ cut = FALSE

ServerUntouched == UNCHANGED <<talks, agentRuns>>
AgentUntouched == UNCHANGED <<manifest, selected>>
FollowUntouched == UNCHANGED <<followed, detail, timer, polls, lost, cut>>
TaskUntouched == UNCHANGED <<task, tasks>>
Click == clicks < MaxClicks /\ clicks' = clicks + 1

-----------------------------------------------------------------------------
(* stopFollowing, and followRun; cleared is the timer that will not fire.     *)
Cleared(t) == IF t = 0 THEN polls ELSE [polls EXCEPT ![t] = NoPoll]
stopFollowing ==
  /\ polls' = Cleared(timer) /\ timer' = 0 /\ followed' = 0 /\ detail' = None
  /\ UNCHANGED <<lost, cut>>
leaveIfOther(c) == IF activeConversation # c THEN stopFollowing ELSE FollowUntouched

followRun(r) ==
  /\ \E p \in Slots :
       /\ Cleared(timer)[p] = NoPoll
       /\ polls' = [Cleared(timer) EXCEPT ![p] = [at |-> "asking", run |-> r, saw |-> None]]
  /\ timer' = 0 /\ followed' = r /\ detail' = None /\ lost' = FALSE /\ UNCHANGED cut

(* A submission waits for the first answer about the run it follows.          *)
TaskGoesOn == task' = IF task.stage = "following" /\ followed = task.run THEN NoTask ELSE task

(* refreshRun: an answer about a run that is followed no more is dropped; the *)
(* conversation is loaded again when the run changed.                        *)
SetTimer(p, saw) ==
  IF saw = "ended" THEN polls' = [polls EXCEPT ![p] = NoPoll] /\ UNCHANGED timer
  ELSE polls' = [polls EXCEPT ![p].at = "waiting", ![p].saw = None] /\ timer' = p

EndsTaskOf(p) == IF task.stage = "following" /\ polls[p].run = task.run THEN task' = NoTask ELSE UNCHANGED task

DetailArrives(p) ==
  /\ polls[p].at = "asking"
  /\ LET r == polls[p].run
         saw == agentRuns[r].status
     IN  IF followed # r
         THEN polls' = [polls EXCEPT ![p] = NoPoll] /\ UNCHANGED <<detail, timer>> /\ EndsTaskOf(p)
         ELSE /\ detail' = [run |-> r, status |-> saw]
              /\ IF detail # None /\ detail.status # saw /\ activeConversation # 0
                 THEN polls' = [polls EXCEPT ![p].at = "reloading", ![p].saw = saw] /\ UNCHANGED <<timer, task>>
                 ELSE SetTimer(p, saw) /\ EndsTaskOf(p)
  /\ UNCHANGED <<activeConversation, opening, followed, using, tasks, clicks, lost, cut>>
  /\ ServerUntouched /\ AgentUntouched

DetailFails(p) ==
  /\ polls[p].at = "asking"
  /\ polls' = [polls EXCEPT ![p] = NoPoll]
  /\ lost' = (lost \/ followed = polls[p].run)
  /\ EndsTaskOf(p)
  /\ UNCHANGED <<activeConversation, opening, followed, detail, timer, using, tasks, clicks, cut>>
  /\ ServerUntouched /\ AgentUntouched

(* reloadConversation, whether it is answered or not: the timer is set        *)
(* without looking whether the run is still followed.                        *)
Reloaded(p) ==
  /\ polls[p].at = "reloading"
  /\ SetTimer(p, polls[p].saw)
  /\ EndsTaskOf(p)
  /\ UNCHANGED <<activeConversation, opening, followed, detail, using, tasks, clicks, lost, cut>>
  /\ ServerUntouched /\ AgentUntouched

TimerFires(p) ==
  /\ polls[p].at = "waiting"
  /\ polls' = [polls EXCEPT ![p].at = "asking"] /\ timer' = 0
  /\ UNCHANGED <<activeConversation, opening, followed, detail, using, clicks, lost, cut>>
  /\ ServerUntouched /\ AgentUntouched /\ TaskUntouched

(* cancelRun: the run it named when it was clicked, the timer it finds when   *)
(* the answer is there.                                                      *)
cancelShownRun(p) ==
  /\ detail # None /\ detail.status # "ended" /\ followed # 0
  /\ polls[p] = NoPoll /\ Click
  /\ polls' = [polls EXCEPT ![p] = [at |-> "cancelling", run |-> followed, saw |-> None]]
  /\ UNCHANGED <<activeConversation, opening, followed, detail, timer, using, lost, cut>>
  /\ ServerUntouched /\ AgentUntouched /\ TaskUntouched

CancelAnswered(p) ==
  /\ polls[p].at = "cancelling"
  /\ LET r == polls[p].run
     IN  /\ agentRuns' \in {agentRuns, [agentRuns EXCEPT ![r].status = "ended"]}
         /\ cut' = (cut \/ (timer # 0 /\ polls[timer].run # r))
         /\ polls' = [Cleared(timer) EXCEPT ![p] = [at |-> "asking", run |-> r, saw |-> None]]
  /\ timer' = 0
  /\ UNCHANGED <<talks, activeConversation, opening, followed, detail, using, clicks, lost>>
  /\ AgentUntouched /\ TaskUntouched

-----------------------------------------------------------------------------
(* startNewConversation and selectConversation: at any time.                 *)
startNewConversation ==
  /\ activeConversation # 0 /\ Click
  /\ stopFollowing /\ activeConversation' = 0
  /\ UNCHANGED <<opening, using>> /\ ServerUntouched /\ AgentUntouched /\ TaskUntouched

selectConversation(c) ==
  /\ c \notin opening /\ Click
  /\ leaveIfOther(c) /\ opening' = opening \union {c}
  /\ UNCHANGED <<activeConversation, using>> /\ ServerUntouched /\ AgentUntouched /\ TaskUntouched

(* It is loaded and its agent's manifest verified; or nothing changes.        *)
Shows(c) == manifest' = talks[c] /\ selected' = talks[c] /\ activeConversation' = c
Untouched == AgentUntouched /\ UNCHANGED activeConversation

Opened(c) ==
  /\ c \in opening /\ opening' = opening \ {c}
  /\ Shows(c) \/ Untouched
  /\ UNCHANGED <<using, clicks>> /\ ServerUntouched /\ FollowUntouched /\ TaskUntouched

useAssignedAgent(a) ==
  /\ ~Submitting /\ using = None /\ using' = a /\ Click
  /\ UNCHANGED <<activeConversation, opening>>
  /\ ServerUntouched /\ AgentUntouched /\ FollowUntouched /\ TaskUntouched

AgentVerified ==
  /\ using # None /\ using' = None
  /\ \/ manifest' = using /\ selected' = using /\ activeConversation' = 0 /\ stopFollowing
     \/ Untouched /\ FollowUntouched
  /\ UNCHANGED <<opening, clicks>> /\ ServerUntouched /\ TaskUntouched

-----------------------------------------------------------------------------
(* submit, from answer to answer; each may fail, which ends it.               *)
submit ==
  /\ ~Submitting /\ using = None /\ selected # None /\ tasks < MaxTasks
  /\ tasks' = tasks + 1
  /\ task' = IF activeConversation = 0 THEN [NoTask EXCEPT !.stage = "creating", !.agent = selected]
             ELSE [NoTask EXCEPT !.stage = "posting", !.talk = activeConversation]
  /\ UNCHANGED <<activeConversation, opening, using, clicks>>
  /\ ServerUntouched /\ AgentUntouched /\ FollowUntouched

TaskFails ==
  /\ Submitting /\ task.stage \notin {"opening", "following"}
  /\ task' = NoTask
  /\ UNCHANGED <<activeConversation, opening, using, tasks, clicks>>
  /\ ServerUntouched /\ AgentUntouched /\ FollowUntouched

ConversationMade ==
  /\ task.stage = "creating"
  /\ talks' = Append(talks, task.agent)
  /\ activeConversation' = Len(talks')
  /\ task' = [task EXCEPT !.stage = "posting", !.talk = Len(talks')]
  /\ UNCHANGED <<agentRuns, opening, using, tasks, clicks>> /\ AgentUntouched /\ FollowUntouched

\* The agent is read when the message is posted, not when the task was begun.
MessagePosted ==
  /\ task.stage = "posting"
  /\ task' = IF genericAgent THEN [task EXCEPT !.stage = "starting", !.agent = selected]
             ELSE [task EXCEPT !.stage = "preparing"]
  /\ UNCHANGED <<activeConversation, opening, using, tasks, clicks>>
  /\ ServerUntouched /\ AgentUntouched /\ FollowUntouched

ThreadIsFree(c) == \A r \in DOMAIN agentRuns : agentRuns[r].talk = c => agentRuns[r].status = "ended"

(* The control plane starts a run of the conversation's agent only; the answer *)
(* may be lost.                                                              *)
Started(agent) ==
  /\ agentRuns' = Append(agentRuns, [talk |-> task.talk, agent |-> agent, status |-> "queued"])
  /\ \/ /\ task' = [task EXCEPT !.stage = "opening", !.run = IF agent = None THEN 0 ELSE Len(agentRuns')]
        /\ leaveIfOther(task.talk)
     \/ task' = NoTask /\ FollowUntouched
  /\ UNCHANGED <<talks, activeConversation, opening, using, tasks, clicks>> /\ AgentUntouched

RunStarted ==
  /\ task.stage = "starting"
  /\ talks[task.talk] = task.agent /\ ThreadIsFree(task.talk)
  /\ Started(task.agent)

(* POST /api/qa/runs: a generic run when the agent offers the workflow and    *)
(* the deployment runs it, otherwise a plan.                                 *)
QaPrepared ==
  /\ task.stage = "preparing"
  /\ \/ talks[task.talk] \notin Generic /\ ThreadIsFree(task.talk) /\ Started(talks[task.talk])
     \/ Started(None)

TaskOpened ==
  /\ task.stage = "opening"
  /\ Shows(task.talk) \/ Untouched
  /\ task' = [task EXCEPT !.stage = "listing"]
  /\ UNCHANGED <<opening, using, tasks, clicks>> /\ ServerUntouched /\ FollowUntouched

TaskListed ==
  /\ task.stage = "listing"
  /\ IF task.run = 0 THEN task' = NoTask /\ FollowUntouched
     ELSE task' = [task EXCEPT !.stage = "following"] /\ followRun(task.run)
  /\ UNCHANGED <<activeConversation, opening, using, tasks, clicks>> /\ ServerUntouched /\ AgentUntouched

-----------------------------------------------------------------------------
(* The run goes on at the control plane.                                     *)
RunMoves(r) ==
  /\ agentRuns[r].status # "ended"
  /\ \E s \in {"running", "ended"} \ {agentRuns[r].status} :
       agentRuns' = [agentRuns EXCEPT ![r].status = s]
  /\ UNCHANGED <<talks, activeConversation, opening, using, clicks>>
  /\ AgentUntouched /\ FollowUntouched /\ TaskUntouched

TaskStep ==
  \/ TaskFails \/ ConversationMade \/ MessagePosted \/ RunStarted \/ QaPrepared
  \/ TaskOpened \/ TaskListed
PollStep(p) == DetailArrives(p) \/ DetailFails(p) \/ Reloaded(p) \/ TimerFires(p) \/ CancelAnswered(p)

DeskNext ==
  \/ TaskStep \/ AgentVerified \/ submit \/ startNewConversation
  \/ \E p \in Slots : PollStep(p) \/ cancelShownRun(p)
  \/ \E c \in DOMAIN talks : selectConversation(c) \/ Opened(c)
  \/ \E a \in Agents : useAssignedAgent(a)
  \/ \E r \in DOMAIN agentRuns : RunMoves(r)

\* Fairness: every request is answered or fails, and timers fire.
DeskFairness == WF_deskVars(TaskStep) /\ \A p \in Slots : WF_deskVars(PollStep(p))
DeskSpec == DeskInit /\ [][DeskNext]_deskVars /\ DeskFairness

-----------------------------------------------------------------------------
(* Whatever was opened while a task was submitted, a run is of the agent of   *)
(* the conversation it is in: the late choice of the client is not trusted.   *)
RunsInPlace == \A r \in DOMAIN agentRuns : agentRuns[r].agent \in {talks[agentRuns[r].talk], None}

(* The run on the screen, which Cancel would cancel, is the one followed, and *)
(* no answer about an earlier one replaces it.                               *)
DetailIsFollowed == detail # None => detail.run = followed

DesktopSound == DeskTypeOK /\ RunsInPlace /\ DetailIsFollowed

(* A submission comes to an end, and the employee can submit again.          *)
TasksEnd == Submitting ~> ~Submitting

(* "Follow a generic run until it ends": its end is shown, unless a refresh   *)
(* failed, or the cancellation of an earlier run was answered late and        *)
(* cleared the timer of this one.                                            *)
FollowsToEnd ==
  \A r \in 1..MaxTasks :
    (r = followed /\ agentRuns[r].status = "ended")
      ~> (followed # r \/ lost \/ cut \/ (detail # None /\ detail.status = "ended"))
=============================================================================
