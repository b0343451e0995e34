--------------------------- MODULE Conversations ----------------------------
(* Conversations, the threads and runs started in them, and what is posted    *)
(* back (database.ts, execution/execution-service.ts, app.ts).  A run is      *)
(* generic, and moved by a runtime, or the record of a legacy QA run, which   *)
(* executes nothing and only waits for its decision.  What RunTransport says  *)
(* of leases is left out: here a runtime takes a step whenever the status     *)
(* allows it.  Every method is one transaction.                               *)
EXTENDS RunLifecycle, Naturals, Sequences, FiniteSets

CONSTANTS
  Chats,        \* conversations
  MaxRuns,      \* bound: rows of agent_runs
  MaxAsks       \* bound: approvals a generic run asks for

VARIABLES
  open,         \* conversations that exist
  chat,         \* [Chats -> what agents said in it, in order]
  thread,       \* rows of agent_threads: the conversation of each, or None
  recent,       \* [threads -> their places by updated_at, the latest last]
  agentRun,     \* rows of agent_runs, each with its approval
  qa,           \* rows of qa_runs: [legacy run -> status]
  owed          \* legacy runs whose request has still to post its message

talkVars == <<open, chat, thread, recent, agentRun, qa, owed>>

ASSUME TalkBounds == MaxRuns \in Nat /\ MaxAsks \in Nat
ASSUME TalkNames == None \notin Chats \union {"APPROVAL_GRANTED", "APPROVAL_REJECTED"}

AllRuns == 1..Len(agentRun)
AllThreads == 1..Len(thread)
Decided == {"APPROVED", "REJECTED"}
RunRow == [thread : Nat, legacy : BOOLEAN, status : RunStatus,
        reason : {None, "APPROVAL_REQUIRED", "APPROVAL_GRANTED", "APPROVAL_REJECTED",
                  "APPROVAL_EXPIRED", "FAILURE", "CANCELLATION"},
        approval : {None, "PENDING", "EXPIRED"} \union Decided, late : BOOLEAN, asks : 0..MaxAsks]
Message == [about : Nat, what : {"queued", "prepared", "waiting", "outcome"}]

TalkTypeOK ==
  /\ open \subseteq Chats
  /\ chat \in [Chats -> Seq(Message)]
  /\ thread \in Seq(Chats \union {None})
  /\ recent \in [AllThreads -> AllThreads] /\ \A t, u \in AllThreads : recent[t] = recent[u] => t = u
  /\ agentRun \in Seq(RunRow)
  /\ DOMAIN qa = {r \in AllRuns : agentRun[r].legacy}
  /\ \A r \in DOMAIN qa : qa[r] \in {"AWAITING_APPROVAL", "READY", "REJECTED"}
  /\ owed \subseteq DOMAIN qa

TalkInit ==
  /\ open = {}
  /\ chat = [c \in Chats |-> <<>>]
  /\ thread = <<>>
  /\ recent = <<>>
  /\ agentRun = <<>>
  /\ qa = <<>>
  /\ owed = {}

-----------------------------------------------------------------------------
Busy(t) == \E r \in AllRuns : agentRun[r].thread = t /\ agentRun[r].status \in ActiveRun

ThreadsOf(c) == {t \in AllThreads : thread[t] = c}
Latest(ts) == {t \in ts : \A u \in ts : recent[u] <= recent[t]}

insertRun(t, legacy) ==
  [thread |-> t, legacy |-> legacy, status |-> "QUEUED", reason |-> None,
   approval |-> None, late |-> FALSE, asks |-> 0]

(* A run of thread t, inserted as `row`; t may be the next thread.            *)
insertThread(c) == thread' = Append(thread, c)
Touched(t) ==
  LET at == IF t \in AllThreads THEN recent[t] ELSE Len(thread')
  IN recent' = [u \in 1..Len(thread') |->
       IF u = t THEN Len(thread') ELSE IF recent[u] > at THEN recent[u] - 1 ELSE recent[u]]
Place(t, c, row) ==
  /\ Len(agentRun) < MaxRuns
  /\ IF t \in AllThreads THEN UNCHANGED thread ELSE insertThread(c)
  /\ Touched(t)
  /\ agentRun' = Append(agentRun, row)
NewThread == Len(thread) + 1

\* Faulty: whether the thread is free is not looked at.
AnyThread(c) == IF ThreadsOf(c) = {} THEN {NewThread} ELSE Latest(ThreadsOf(c))

(* The thread of a generic run: the latest of the conversation, if it is free.*)
conversationThread(c) ==
  IF ThreadsOf(c) = {} THEN {NewThread} ELSE {t \in Latest(ThreadsOf(c)) : ~Busy(t)}

(* The thread of a legacy run: the latest of them that is free, or a new one. *)
threadForConversation(c) ==
  LET idle == {t \in ThreadsOf(c) : ~Busy(t)}
  IN IF idle = {} THEN {NewThread} ELSE Latest(idle)

(* addMessage, by an agent.                                                   *)
Says(c, r, what) == chat' = [chat EXCEPT ![c] = Append(@, [about |-> r, what |-> what])]

(* syncConversation: to the conversation of the agentRun's thread, if it has one;  *)
(* never of a legacy run.                                                     *)
ChatOf(r) == thread[agentRun[r].thread]
syncConversation(r, what) ==
  IF ChatOf(r) = None \/ agentRun[r].legacy THEN UNCHANGED chat ELSE Says(ChatOf(r), r, what)

-----------------------------------------------------------------------------
createConversation(c) ==
  /\ c \notin open
  /\ open' = open \union {c}
  /\ UNCHANGED <<chat, thread, recent, agentRun, qa, owed>>

(* createRun in a conversation, in a thread it names, or in one of its own.   *)
createRunIn(c) ==
  /\ c \in open
  /\ \E t \in conversationThread(c) : Place(t, c, insertRun(t, FALSE))
  /\ UNCHANGED <<open, chat, qa, owed>>

createRunOf(t) ==
  /\ ~Busy(t) /\ Len(agentRun) < MaxRuns
  /\ agentRun' = Append(agentRun, insertRun(t, FALSE))
  /\ UNCHANGED <<open, chat, thread, recent, qa, owed>>

createRun ==
  /\ Place(NewThread, None, insertRun(NewThread, FALSE))
  /\ UNCHANGED <<open, chat, qa, owed>>

(* POST /api/qa/runs, with the generic runtime and without it.  Which path is *)
(* taken depends on the agent and on a flag that a deployment may change.     *)
createGenericQaRun(c) ==
  /\ c \in open
  /\ \E t \in conversationThread(c) : Place(t, c, insertRun(t, FALSE))
  /\ Says(c, Len(agentRun) + 1, "queued")
  /\ UNCHANGED <<open, qa, owed>>

recordLegacyQaRun(t) ==
  [insertRun(t, TRUE) EXCEPT !.status = "WAITING_FOR_APPROVAL", !.reason = "APPROVAL_REQUIRED",
                             !.approval = "PENDING"]

createQaRun(c) ==
  /\ c \in open
  /\ \E t \in threadForConversation(c) : Place(t, c, recordLegacyQaRun(t))
  /\ qa' = [r \in DOMAIN qa \union {Len(agentRun) + 1} |->
              IF r \in DOMAIN qa THEN qa[r] ELSE "AWAITING_APPROVAL"]
  /\ owed' = owed \union {Len(agentRun) + 1}
  /\ UNCHANGED <<open, chat>>

(* The request posts its message in a transaction of its own, if it lives.    *)
Posts(r) ==
  /\ Says(ChatOf(r), r, "prepared")
  /\ owed' = owed \ {r}
  /\ UNCHANGED <<open, thread, recent, agentRun, qa>>

Stops(r) ==
  /\ owed' = owed \ {r}
  /\ UNCHANGED <<open, chat, thread, recent, agentRun, qa>>

-----------------------------------------------------------------------------
(* transitionRun: illegal moves throw, and nothing of the transaction stays.  *)
transitionRun(r, to, reason, approval) ==
  /\ agentRun[r].status = to \/ CanTransitionRun(agentRun[r].status, to)
  /\ agentRun' = [agentRun EXCEPT ![r].status = to, ![r].reason = reason, ![r].approval = approval]

(* A runtime starts or resumes a generic run; no runtime has the legacy       *)
(* profile.                                                                   *)
RunStarts(r) ==
  /\ ~agentRun[r].legacy /\ agentRun[r].status = "QUEUED"
  /\ transitionRun(r, "RUNNING", None, agentRun[r].approval)
  /\ UNCHANGED <<open, chat, thread, recent, qa, owed>>

pauseForApproval(r) ==
  /\ agentRun[r].status = "RUNNING" /\ agentRun[r].asks < MaxAsks
  /\ agentRun' = [agentRun EXCEPT ![r] =
       [agentRun[r] EXCEPT !.status = "WAITING_FOR_APPROVAL", !.asks = agentRun[r].asks + 1,
                !.reason = "APPROVAL_REQUIRED", !.approval = "PENDING", !.late = FALSE]]
  /\ syncConversation(r, "waiting")
  /\ UNCHANGED <<open, thread, recent, qa, owed>>

(* recordRuntimeEvent, for the events that end a run: they come before its    *)
(* start or while it waits too, where decideRuntimeEvent accepts them.        *)
recordRuntimeEvent(r, type) ==
  /\ ~agentRun[r].legacy /\ Accepts(agentRun[r].status, agentRun[r].reason, type)
  /\ transitionRun(r, EventTarget(type),
       CASE type = "run.completed" -> None [] type = "run.failed" -> "FAILURE"
         [] OTHER -> "CANCELLATION", agentRun[r].approval)
  /\ syncConversation(r, "outcome")
  /\ UNCHANGED <<open, thread, recent, qa, owed>>

(* cancelRun: by its owner, or by the control plane that gives it up.         *)
cancelRun(r) ==
  /\ CanTransitionRun(agentRun[r].status, "CANCELLED")
  /\ transitionRun(r, "CANCELLED", "CANCELLATION", agentRun[r].approval)
  /\ syncConversation(r, "outcome")
  /\ UNCHANGED <<open, thread, recent, qa, owed>>

(* expireDue and onApprovalExpired: only a waiting run is cancelled with it.  *)
expireDue(r) ==
  /\ agentRun[r].approval = "PENDING" /\ agentRun[r].late
  /\ IF agentRun[r].status = "WAITING_FOR_APPROVAL"
     THEN /\ transitionRun(r, "CANCELLED", "APPROVAL_EXPIRED", "EXPIRED")
          /\ syncConversation(r, "outcome")
     ELSE /\ agentRun' = [agentRun EXCEPT ![r].approval = "EXPIRED"]
          /\ UNCHANGED chat
  /\ UNCHANGED <<open, thread, recent, qa, owed>>

(* onApprovalDecided: a run that waits no more is left; a rejection is not    *)
(* posted to the conversation.                                                *)
onApprovalDecided(r, decision) ==
  IF agentRun[r].status # "WAITING_FOR_APPROVAL" THEN agentRun' = [agentRun EXCEPT ![r].approval = decision]
  ELSE IF decision = "APPROVED" THEN transitionRun(r, "QUEUED", "APPROVAL_GRANTED", decision)
  ELSE transitionRun(r, "CANCELLED", "APPROVAL_REJECTED", decision)

(* decideApproval: what is due has expired first.                             *)
decideApproval(r, decision) ==
  /\ agentRun[r].approval = "PENDING" /\ ~agentRun[r].late
  /\ onApprovalDecided(r, decision)
  /\ qa' = IF agentRun[r].legacy
           THEN [qa EXCEPT ![r] = IF decision = "APPROVED" THEN "READY" ELSE "REJECTED"] ELSE qa
  /\ UNCHANGED <<open, chat, thread, recent, owed>>

(* Only the approvals of generic runs have a deadline.                        *)
FallsDue(r) ==
  /\ ~agentRun[r].legacy /\ agentRun[r].approval = "PENDING" /\ ~agentRun[r].late
  /\ agentRun' = [agentRun EXCEPT ![r].late = TRUE]
  /\ UNCHANGED <<open, chat, thread, recent, qa, owed>>

TalkNext ==
  \/ createRun
  \/ \E c \in Chats : \/ createConversation(c) \/ createRunIn(c)
                      \/ createGenericQaRun(c) \/ createQaRun(c)
  \/ \E t \in AllThreads : createRunOf(t)
  \/ \E r \in owed : Posts(r) \/ Stops(r)
  \/ \E r \in AllRuns :
       \/ RunStarts(r) \/ pauseForApproval(r) \/ cancelRun(r) \/ expireDue(r) \/ FallsDue(r)
       \/ \E type \in {"run.completed", "run.failed", "run.cancelled"} : recordRuntimeEvent(r, type)
       \/ \E decision \in Decided : decideApproval(r, decision)

TalkSpec == TalkInit /\ [][TalkNext]_talkVars

-----------------------------------------------------------------------------
(* "A thread has at most one active run", whichever of the four ways of       *)
(* starting one put it there.                                                 *)
OneActiveRun ==
  \A r, s \in AllRuns :
    agentRun[r].thread = agentRun[s].thread /\ agentRun[r].status \in ActiveRun /\ agentRun[s].status \in ActiveRun => r = s

(* The two records of a legacy QA run agree with its approval and with each   *)
(* other, also when the run was cancelled first; it never executes.           *)
LegacyAgrees ==
  \A r \in DOMAIN qa :
    /\ agentRun[r].approval = CASE qa[r] = "AWAITING_APPROVAL" -> "PENDING" [] qa[r] = "READY" -> "APPROVED"
                           [] OTHER -> "REJECTED"
    /\ \/ agentRun[r].status = "WAITING_FOR_APPROVAL" /\ qa[r] = "AWAITING_APPROVAL"
       \/ agentRun[r].status = "QUEUED" /\ agentRun[r].reason = "APPROVAL_GRANTED" /\ qa[r] = "READY"
       \/ agentRun[r].status = "CANCELLED" /\ (agentRun[r].reason = "APPROVAL_REJECTED" => qa[r] = "REJECTED")

(* A run that waits has an approval to wait for, and one that was released    *)
(* was released by a person.                                                  *)
ReleasedByPerson ==
  \A r \in AllRuns :
    /\ agentRun[r].status = "WAITING_FOR_APPROVAL" => agentRun[r].approval = "PENDING"
    /\ agentRun[r].reason = "APPROVAL_GRANTED" => agentRun[r].approval = "APPROVED"

(* "The control plane mirrors approval requests, completion summaries,        *)
(* failures and cancellations into the conversation": a generic run is spoken *)
(* of in its own conversation only, each request once, its outcome once, last,*)
(* and not before it ended.  A cancellation by a rejected approval is the     *)
(* exception: nothing is posted for it.                                       *)
About(c, r, what) == Cardinality({i \in DOMAIN chat[c] : chat[c][i] = [about |-> r, what |-> what]})
OutcomesTold ==
  \A r \in AllRuns, c \in Chats :
    /\ c # ChatOf(r) => \A i \in DOMAIN chat[c] : chat[c][i].about # r
    /\ ~agentRun[r].legacy /\ c = ChatOf(r) =>
         /\ About(c, r, "waiting") = agentRun[r].asks
         /\ About(c, r, "outcome") =
              IF agentRun[r].status \in TerminalRun /\ agentRun[r].reason # "APPROVAL_REJECTED" THEN 1 ELSE 0
         /\ \A i, j \in DOMAIN chat[c] :
              i < j /\ chat[c][i] = [about |-> r, what |-> "outcome"] => chat[c][j].about # r

ConversationsSound ==
  TalkTypeOK /\ OneActiveRun /\ LegacyAgrees /\ ReleasedByPerson /\ OutcomesTold
=============================================================================
