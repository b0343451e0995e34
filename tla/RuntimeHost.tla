---------------------------- MODULE RuntimeHost ----------------------------
(***************************************************************************)
(* The processes that execute runs (apps/agent-runtime: runtime-host.ts,   *)
(* native-kernel.ts, checkpoints.ts) against the control plane's side of   *)
(* the transport, which is RunTransport.                                   *)
(*                                                                         *)
(* A process carries out one program per run, and every step of it is one  *)
(* request.  A request may take effect and its answer be lost, in which    *)
(* case the process repeats it; it may be refused, or stay unanswered      *)
(* until the process gives up; the process may crash, or stall for longer  *)
(* than a lease while another one is given the run.  Events carry the      *)
(* identity of the process, not its session; checkpoints carry both.       *)
(***************************************************************************)
EXTENDS RunTransport

CONSTANTS Hosts, IdentityOf,     \* processes and the runtime identity of each
          Requests, NoRequest,   \* ids of action requests (randomUUID in the code)
          MaxCalls               \* tool calls of a run: the kernel's maxTurns

ASSUME HostAssumption ==
  /\ IdentityOf \in [Hosts -> Runtimes]
  /\ NoRequest \notin Requests
  /\ MaxCalls \in Nat

VARIABLES mem,    \* [Runs -> [Hosts -> what the process remembers of the run]]
          saved,  \* [Runs -> the kernel state in the run's newest checkpoint]
          gate    \* [Runs -> [Requests -> what the control plane recorded of it]]

hostVars == <<mem, saved, gate>>
allVars == <<db, nextSession, poll, mem, saved, gate>>

\* NativeKernelState: how many tool calls are over, and whether the model, a
\* tool call or the rest of a tool call comes next.  The last one (inFlight)
\* names the step, the request and, once known, the approval.
KernelState ==
  [call: 0..MaxCalls, phase: {"model", "tool", "fly"}, step: Steps \cup {NoStep},
   request: Requests \cup {NoRequest}, approval: Approvals \cup {NoApproval}]

\* Where a process is in the program of a run: the request it makes next.
Place == {"idle", "start", "saveStart", "model", "saveTurn", "tool", "stepStart", "saveFly",
          "ask", "savePause", "saveCarry", "act", "stepDone", "stepFail", "saveResult",
          "completing", "failing", "mismatch", "load", "resumed", "orphans"}

\* session, seq and version are the lease session, event sequence and
\* checkpoint version the process counts on; sent says that the control plane
\* has recorded the event it is about to repeat; approval and open come with
\* the command.
Memory ==
  [pc: Place, session: Nat, seq: Nat, version: Nat, sent: BOOLEAN, aborted: BOOLEAN,
   recovers: BOOLEAN, approval: Approvals \cup {NoApproval}, open: SUBSET Steps,
   orphans: SUBSET Steps, work: KernelState]

Fresh == [call |-> 0, phase |-> "model", step |-> NoStep, request |-> NoRequest,
          approval |-> NoApproval]

Idle == [pc |-> "idle", session |-> 0, seq |-> 0, version |-> 0, sent |-> FALSE,
         aborted |-> FALSE, recovers |-> FALSE, approval |-> NoApproval, open |-> {},
         orphans |-> {}, work |-> Fresh]

Unasked == [call |-> 0, decision |-> "NONE", approval |-> NoApproval, done |-> FALSE]

HostInit == /\ Init
            /\ mem = [r \in Runs |-> [h \in Hosts |-> Idle]]
            /\ saved = [r \in Runs |-> Fresh]
            /\ gate = [r \in Runs |-> [q \in Requests |-> Unasked]]

Active(h, r) == mem[r][h].pc # "idle"

Keep(h, r, m) == mem' = [mem EXCEPT ![r][h] = IF m.pc = "idle" THEN Idle ELSE m]
At(m, place) == [m EXCEPT !.pc = place]

\* The newest checkpoint goes with its run (onRunStopped).
Forget == saved' = [r \in Runs |-> IF db'[r].ckpt = 0 THEN Fresh ELSE saved[r]]

\* The kernel failed: finish() reports it, unless the run was taken away.
Failed(m) == IF m.aborted THEN Idle ELSE At(m, "failing")

-----------------------------------------------------------------------------
(* Events and checkpoints.                                                 *)

\* RunEvents.emit: the event after m.seq, sent again under the same id while
\* no answer comes; failed is what a refusal, or five lost answers, lead to.
Emit(h, r, type, s, next, failed) ==
  LET m == mem[r][h]
      rt == IdentityOf[h]
      acked == [next EXCEPT !.seq = m.seq + 1, !.sent = FALSE]
  IN \/ /\ ~m.sent /\ m.seq = db[r].seq
        /\ Ingest(rt, r, type, s, m.session, m.approval)
        /\ Keep(h, r, acked) \/ Keep(h, r, [m EXCEPT !.sent = TRUE])
        /\ Forget /\ UNCHANGED gate
     \/ /\ m.sent /\ IngestDuplicate(rt, r)
        /\ Keep(h, r, acked)
        /\ UNCHANGED <<saved, gate>>
     \/ /\ Keep(h, r, [failed EXCEPT !.sent = FALSE])
        /\ UNCHANGED <<db, nextSession, poll, saved, gate>>

\* RuntimeHost.checkpoint: a conflict means that another process was given the
\* run, and this one stops without a word; it also meets one that repeats a
\* save whose answer was lost.
Checkpoint(h, r, next, unavailable) ==
  LET m == mem[r][h]
      rt == IdentityOf[h]
      version == m.version + 1
  IN \/ /\ SaveCheckpoint(rt, r, m.session, version, m.seq)
        /\ saved' = [saved EXCEPT ![r] = next.work]
        /\ Keep(h, r, [next EXCEPT !.version = version]) \/ UNCHANGED mem
        /\ UNCHANGED gate
     \/ /\ ~(Owns(rt, r) /\ MaySave(db[r], m.session, version, m.seq))
        /\ Keep(h, r, Idle)
        /\ UNCHANGED <<db, nextSession, poll, saved, gate>>
     \/ /\ Keep(h, r, unavailable)
        /\ UNCHANGED <<db, nextSession, poll, saved, gate>>

\* A step inside the process.
Local(h, r, m) == Keep(h, r, m) /\ UNCHANGED <<db, nextSession, poll, saved, gate>>

-----------------------------------------------------------------------------
(* Commands.                                                               *)

\* pollOnce with the command a claim answered with: run.cancel stops the run;
\* any other command for a run that is still being executed is dropped.
Received(m, x, command) ==
  IF command = "run.cancel"
    THEN IF m.pc = "idle" THEN m ELSE [m EXCEPT !.aborted = TRUE]
  ELSE IF m.pc # "idle" THEN m
  ELSE [Idle EXCEPT
         !.pc = IF command = "run.submit" THEN "start" ELSE "load",
         !.session = x.session, !.seq = x.seq,
         !.recovers = (command = "run.recover"),
         !.approval = IF command = "run.resume" THEN x.latest ELSE NoApproval,
         !.open = IF command = "run.recover"
                    THEN {s \in Steps : x.step[s] \in OpenStep} ELSE {}]

\* The answer of a claim, received or lost.
Answered(h, r, command) ==
  /\ Forget /\ UNCHANGED gate
  /\ UNCHANGED mem \/ Keep(h, r, Received(mem[r][h], db'[r], command))

\* The claim's expiry and its reaper are transactions of their own: ExpireDue
\* and Housekeeping at any time.
Poll(h) ==
  LET rt == IdentityOf[h]
  IN /\ \E bad \in SUBSET Runs :
          \/ \E r \in Runs, before \in SUBSET Runs :
               \/ \E command \in {"run.cancel", "run.recover", "run.resume", "run.submit"} :
                    /\ ClaimHeld(rt, r, before, bad, command)
                    /\ Answered(h, r, command)
               \/ /\ ClaimAbandoned(rt, r, before, bad)
                  /\ Answered(h, r, IF db'[r].status = "RUNNING" THEN "run.recover" ELSE "run.resume")
               \/ /\ ClaimQueued(rt, r, before, bad)
                  /\ Answered(h, r, "run.submit")
          \/ ClaimNothing(rt, bad) /\ Forget /\ UNCHANGED <<mem, gate>>
     /\ UNCHANGED poll

\* Faulty: it names every run it was ever given, executing it or not.
HeartbeatForAll(h) ==
  /\ Heartbeat(IdentityOf[h], Runs)
  /\ UNCHANGED <<mem, saved, gate>>

\* heartbeatOnce: runs the control plane no longer knows as held are stopped.
HostHeartbeat(h) ==
  LET rt == IdentityOf[h]
      named == {r \in Runs : Active(h, r)}
      lost == named \ HeldBy(rt)
  IN /\ named # {}
     /\ IF named \cap HeldBy(rt) # {}
          THEN Heartbeat(rt, named)
          ELSE UNCHANGED <<db, nextSession, poll>>
     /\ UNCHANGED <<saved, gate>>
     /\ \/ UNCHANGED mem
        \/ mem' = [r \in Runs |->
                     IF r \in lost THEN [mem[r] EXCEPT ![h].aborted = TRUE] ELSE mem[r]]

\* The process dies, or is restarted.
Crash(h) ==
  /\ \E r \in Runs : Active(h, r)
  /\ mem' = [r \in Runs |-> [mem[r] EXCEPT ![h] = Idle]]
  /\ UNCHANGED <<db, nextSession, poll, saved, gate>>

-----------------------------------------------------------------------------
(* submit and continue.                                                    *)

\* submit: run.started; then the kernel's first checkpoint, or run.failed when
\* the manifest does not verify.
Start(h, r) ==
  LET m == mem[r][h] IN
  /\ m.pc = "start"
  /\ \E place \in {"saveStart", "failing"} : Emit(h, r, "run.started", NoStep, At(m, place), Idle)

SaveStart(h, r) ==
  LET m == mem[r][h] IN
  m.pc = "saveStart" /\ Checkpoint(h, r, At(m, "model"), Failed(m))

\* A resumption concerns the call in flight; afterwards it is forgotten.
Onwards(m, place) ==
  [At(m, place) EXCEPT !.recovers = FALSE, !.approval = NoApproval, !.open = {}]

\* NativeKernel.resume: where the kernel goes on from its state.  A call whose
\* step ended at the control plane is over, its output lost.
Entered(m) ==
  LET w == m.work IN
  IF m.approval # NoApproval /\ (w.phase # "fly" \/ w.approval \notin {NoApproval, m.approval})
    THEN IF m.aborted THEN Idle ELSE At(m, "mismatch")
  ELSE IF m.aborted THEN Idle
  ELSE IF w.phase # "fly" THEN Onwards(m, w.phase)
  ELSE IF m.recovers /\ w.step \notin m.open THEN At(m, "saveResult")
  ELSE At(m, IF w.approval = NoApproval THEN "ask" ELSE "act")

\* readCheckpoint: any run that is not over and whose lease is this runtime's.
Readable(rt, r) == Owns(rt, r) /\ db[r].lease = "ACTIVE" /\ db[r].status \in ActiveRun

\* Faulty: the checkpoint is only given out while the run is RUNNING.
LoadRunning(h, r) ==
  LET m == mem[r][h]
      x == db[r]
      loaded == [m EXCEPT !.version = x.ckpt, !.work = saved[r],
                          !.orphans = m.open \ {saved[r].step}]
      onwards == IF m.approval # NoApproval THEN "resumed" ELSE "orphans"
  IN /\ m.pc = "load"
     /\ \/ /\ Owns(IdentityOf[h], r) /\ x.lease = "ACTIVE" /\ x.status = "RUNNING"
           /\ x.ckpt > 0 /\ x.ckptSeq <= m.seq
           /\ Local(h, r, At(loaded, onwards))
        \/ Local(h, r, Idle)

\* Faulty: steps only another process knows of are left as they are.
LoadNoOrphans(h, r) ==
  LET m == mem[r][h]
      x == db[r]
      loaded == [m EXCEPT !.version = x.ckpt, !.work = saved[r]]
      onwards == IF m.approval # NoApproval THEN "resumed" ELSE "orphans"
  IN /\ m.pc = "load"
     /\ \/ /\ Readable(IdentityOf[h], r)
           /\ x.ckpt > 0 /\ x.ckptSeq <= m.seq
           /\ Local(h, r, At(loaded, onwards))
        \/ Local(h, r, Idle)

\* continue: the newest checkpoint.  Without one, or with one ahead of the
\* history the command told, the run fails; so it does when the manifest no
\* longer verifies.
Load(h, r) ==
  LET m == mem[r][h]
      x == db[r]
      usable == x.ckpt > 0 /\ x.ckptSeq <= m.seq
      loaded == [m EXCEPT !.version = x.ckpt, !.work = saved[r],
                          !.orphans = m.open \ {saved[r].step}]
      onwards == IF m.approval # NoApproval THEN "resumed" ELSE "orphans"
  IN /\ m.pc = "load"
     /\ \/ /\ Readable(IdentityOf[h], r)
           /\ \/ usable /\ Local(h, r, At(loaded, onwards))
              \/ m.approval = NoApproval /\ Local(h, r, At(m, "failing"))
              \/ m.approval # NoApproval /\ Local(h, r, [At(m, "resumed") EXCEPT !.work = Fresh])
        \/ Local(h, r, Idle)

Resume(h, r) ==
  LET m == mem[r][h]
      next == IF m.version = 0 THEN At(m, "failing") ELSE Entered(m)
  IN m.pc = "resumed" /\ Emit(h, r, "run.resumed", NoStep, next, Idle)

\* Steps left open by another process that the checkpoint does not name.
FailOrphan(h, r) ==
  LET m == mem[r][h] IN
  /\ m.pc = "orphans"
  /\ \/ m.orphans = {} /\ Local(h, r, Entered(m))
     \/ /\ m.orphans # {}
        /\ LET s == CHOOSE s \in m.orphans : TRUE
           IN Emit(h, r, "step.failed", s, [m EXCEPT !.orphans = @ \ {s}], Idle)

-----------------------------------------------------------------------------
(* The kernel's loop.                                                      *)

\* A model turn ends the run, asks for a tool call or fails.  (Its own step opens
\* and closes within the turn; its events are left out.)
ModelTurn(h, r) ==
  LET m == mem[r][h] IN
  /\ m.pc = "model"
  /\ IF m.aborted THEN Local(h, r, Idle)
     ELSE \/ Local(h, r, At(m, "completing"))
          \/ Local(h, r, At(m, "failing"))
          \/ m.work.call < MaxCalls /\ Local(h, r, [At(m, "saveTurn") EXCEPT !.work.phase = "tool"])

SaveTurn(h, r) ==
  LET m == mem[r][h] IN
  m.pc = "saveTurn" /\ Checkpoint(h, r, At(m, "tool"), Failed(m))

\* The identifiers of a tool call are fixed before anything is asked.
BeginCall(h, r) ==
  LET m == mem[r][h] IN
  /\ m.pc = "tool"
  /\ \E s \in Steps, q \in Requests :
       /\ db[r].step[s] = "NONE" /\ gate[r][q] = Unasked
       /\ \A k \in Hosts : mem[r][k].work.step # s /\ mem[r][k].work.request # q
       /\ db[r].ckpt > 0 => saved[r].request # q
       /\ Local(h, r, [At(m, "stepStart") EXCEPT !.work.step = s, !.work.request = q])

\* Faulty: the request is made before its identifiers are saved.
StartStepUnsaved(h, r) ==
  LET m == mem[r][h] IN
  /\ m.pc = "stepStart"
  /\ Emit(h, r, "step.started", m.work.step, [At(m, "ask") EXCEPT !.work.phase = "fly"], Failed(m))

\* runTool: the step starts; an unknown tool or an invalid input fails it.
StartStep(h, r) ==
  LET m == mem[r][h] IN
  /\ m.pc = "stepStart"
  /\ \/ Emit(h, r, "step.started", m.work.step, [At(m, "saveFly") EXCEPT !.work.phase = "fly"], Failed(m))
     \/ Emit(h, r, "step.started", m.work.step, At(m, "stepFail"), Failed(m))

SaveFly(h, r) ==
  LET m == mem[r][h] IN
  m.pc = "saveFly" /\ Checkpoint(h, r, At(m, "ask"), Failed(m))

\* What the kernel does with the decision on its request: a pause that is the
\* one it was resumed by is over.
Decided(m, g) ==
  IF g.decision = "ALLOWED" THEN At(m, "act")
  ELSE IF g.decision = "DENIED" THEN At(m, "stepFail")
  ELSE IF g.approval = m.approval THEN [At(m, "saveCarry") EXCEPT !.work.approval = g.approval]
  ELSE IF m.aborted THEN Idle
  ELSE [At(m, "savePause") EXCEPT !.work.approval = g.approval]

\* runningStep: what the control plane asks of the run before it decides or
\* executes.
StepRuns(rt, r, s) ==
  Owns(rt, r) /\ db[r].lease = "ACTIVE" /\ db[r].status = "RUNNING" /\ s \in Steps /\ db[r].step[s] = "RUNNING"

\* requestAction: a known request gets its stored decision; a new one is
\* decided, and an approval pauses the run in the same transaction.
Ask(h, r) ==
  LET m == mem[r][h]
      q == m.work.request
      rt == IdentityOf[h]
      told(g) == Keep(h, r, Decided(m, g)) \/ UNCHANGED mem
      record(g) == gate' = [gate EXCEPT ![r][q] = g]
  IN /\ m.pc = "ask"
     /\ \/ /\ gate[r][q].decision # "NONE" /\ Owns(rt, r)
           /\ told(gate[r][q])
           /\ UNCHANGED <<db, nextSession, poll, saved, gate>>
        \/ /\ gate[r][q].decision = "NONE" /\ StepRuns(rt, r, m.work.step)
           /\ \E decision \in {"ALLOWED", "DENIED"} :
                LET g == [Unasked EXCEPT !.call = m.work.call, !.decision = decision]
                IN record(g) /\ told(g)
           /\ UNCHANGED <<db, nextSession, poll, saved>>
        \/ /\ gate[r][q].decision = "NONE"
           /\ \E a \in Approvals :
                LET g == [Unasked EXCEPT !.call = m.work.call, !.decision = "APPROVAL", !.approval = a]
                IN PauseForApproval(rt, r, m.work.step, a) /\ record(g) /\ told(g)
           /\ UNCHANGED saved
        \/ Local(h, r, Failed(m))

\* finish() of a paused run: whatever happens to this save, the process is
\* done with the run.
SavePause(h, r) ==
  LET m == mem[r][h] IN
  m.pc = "savePause" /\ Checkpoint(h, r, [Idle EXCEPT !.work = m.work], Idle)

SaveCarry(h, r) ==
  LET m == mem[r][h] IN
  m.pc = "saveCarry" /\ Checkpoint(h, r, At(m, "act"), Failed(m))

Released(r, g) ==
  \/ g.decision = "ALLOWED"
  \/ g.decision = "APPROVAL" /\ db[r].approval[g.approval] = "APPROVED"

\* executeAction: performed once (ActionGateway), answered again from its
\* record; refused, failed or unanswered it is a failed tool call.
Act(h, r) ==
  LET m == mem[r][h]
      q == m.work.request
      rt == IdentityOf[h]
  IN /\ m.pc = "act"
     /\ \/ /\ StepRuns(rt, r, m.work.step) /\ Released(r, gate[r][q])
           /\ gate' = [gate EXCEPT ![r][q].done = TRUE]
           /\ Keep(h, r, At(m, "stepDone")) \/ UNCHANGED mem
           /\ UNCHANGED <<db, nextSession, poll, saved>>
        \/ Local(h, r, IF m.aborted THEN Idle ELSE At(m, "stepFail"))

\* A step.completed that is not accepted makes the call a failed one.
FinishStep(h, r) ==
  LET m == mem[r][h] IN
  /\ m.pc = "stepDone"
  /\ Emit(h, r, "step.completed", m.work.step, At(m, "saveResult"),
          IF m.aborted THEN Idle ELSE At(m, "stepFail"))

FailStep(h, r) ==
  LET m == mem[r][h] IN
  m.pc = "stepFail" /\ Emit(h, r, "step.failed", m.work.step, At(m, "saveResult"), Failed(m))

SaveResult(h, r) ==
  LET m == mem[r][h]
      next == [Onwards(m, "model") EXCEPT !.work = [Fresh EXCEPT !.call = m.work.call + 1]]
  IN m.pc = "saveResult" /\ Checkpoint(h, r, next, Failed(m))

\* finish() of a completed or failed run.
Finish(h, r) ==
  LET m == mem[r][h] IN
  \/ m.pc = "completing" /\ Emit(h, r, "run.completed", NoStep, Idle, Idle)
  \/ m.pc \in {"failing", "mismatch"} /\ Emit(h, r, "run.failed", NoStep, Idle, Idle)

Execute(h, r) ==
  \/ Start(h, r) \/ SaveStart(h, r) \/ Load(h, r) \/ Resume(h, r) \/ FailOrphan(h, r)
  \/ ModelTurn(h, r) \/ SaveTurn(h, r) \/ BeginCall(h, r) \/ StartStep(h, r) \/ SaveFly(h, r)
  \/ Ask(h, r) \/ SavePause(h, r) \/ SaveCarry(h, r) \/ Act(h, r)
  \/ FinishStep(h, r) \/ FailStep(h, r) \/ SaveResult(h, r) \/ Finish(h, r)

-----------------------------------------------------------------------------
Quietly == Forget /\ UNCHANGED <<mem, gate>>

ControlPlane ==
  /\ \/ \E r \in Runs : CreateRun(r) \/ CancelOwnRun(r) \/ Tick(r)
     \/ \E r \in Runs, a \in Approvals : Approve(r, a) \/ Reject(r, a) \/ Deadline(r, a)
     \/ \E due \in SUBSET Runs : ExpireDue(due)
     \/ Housekeeping
  /\ Quietly

HostNext ==
  \/ ControlPlane
  \/ \E h \in Hosts : \/ Poll(h) \/ HostHeartbeat(h) \/ Crash(h)
                      \/ \E r \in Runs : Execute(h, r)

-----------------------------------------------------------------------------
(* Properties.                                                             *)

Decision == [call: 0..MaxCalls, decision: {"NONE", "ALLOWED", "DENIED", "APPROVAL"},
             approval: Approvals \cup {NoApproval}, done: BOOLEAN]

HostTypeOK == /\ TypeOK
              /\ mem \in [Runs -> [Hosts -> Memory]]
              /\ saved \in [Runs -> KernelState]
              /\ gate \in [Runs -> [Requests -> Decision]]

\* A tool call asks for one action, whoever continues the run: "a runtime that
\* continues the run repeats the same requests and gets the recorded answers,
\* not second effects" (native-kernel.ts 17-21).
OneRequestPerCall ==
  \A r \in Runs, p, q \in Requests :
    p # q /\ gate[r][p].decision # "NONE" /\ gate[r][q].decision # "NONE" =>
      gate[r][p].call # gate[r][q].call

\* A run that completed has no step left open, also when several processes
\* worked on it (continue fails the steps no checkpoint accounts for).
CompletedStepsClosed ==
  \A r \in Runs : db[r].status = "COMPLETED" => \A s \in Steps : db[r].step[s] \notin OpenStep

\* Two processes never work for the session that holds the lease.
OneWorkerPerSession ==
  \A r \in Runs, h, k \in Hosts :
    h # k /\ Active(h, r) /\ Active(k, r) =>
      ~(mem[r][h].session = db[r].session /\ mem[r][k].session = db[r].session)

\* A run released by an approval always finds the call that waits for it.
ApprovalFindsItsCall == \A h \in Hosts, r \in Runs : mem[r][h].pc # "mismatch"

\* What every process that ever worked on a run leaves behind.  The processes
\* resume a run in the name of its latest approval, so also no step stays pending.
HostSound == HostTypeOK /\ CompletedStepsClosed /\ ApprovalFindsItsCall /\ StepsFollowRun

HostSpec == HostInit /\ [][HostNext]_allVars

\* A run that is being executed does not stay so: its process ends it or
\* pauses it, or what the process left behind is continued or given up, however
\* often answers are lost and processes crash.
RunSettles == \A r \in Runs : db[r].status = "RUNNING" ~> db[r].status # "RUNNING"

\* A run that was cancelled, failed or given up is not executed for ever, also
\* when the run.cancel for it was lost: its process learns it from a refusal.
LostWorkEnds ==
  \A h \in Hosts, r \in Runs : Active(h, r) /\ Terminal(db[r]) ~> ~Active(h, r)

\* A run released by an approval is resumed or ended, also when run.resume was
\* lost or came while the process still had the run (pollOnce drops it then).
ReleasedMovesOn == \A r \in Runs : Granted(db[r]) ~> ~Granted(db[r])

\* What a lost run.cancel or run.resume leaves behind comes to an end.
LossesMend == LostWorkEnds /\ ReleasedMovesOn

\* A process goes on with its program and time passes.  Processes crash and
\* answers get lost, but not always: the poll loop, the load of a checkpoint and
\* run.resumed are repeated and get through some time.
CommandArrives(h, r) == Poll(h) /\ mem'[r][h].pc # mem[r][h].pc
LoadArrives(h, r) == Load(h, r) /\ mem'[r][h].pc # "idle"
ResumeArrives(h, r) == Resume(h, r) /\ db'[r].seq # db[r].seq

HostFairSpec ==
  /\ HostSpec
  /\ WF_allVars(Housekeeping /\ Quietly)
  /\ \A r \in Runs :
       /\ WF_allVars(Tick(r) /\ Quietly)
       /\ \A h \in Hosts : /\ WF_allVars(Execute(h, r))
                            /\ SF_allVars(CommandArrives(h, r))
                            /\ SF_allVars(LoadArrives(h, r))
                            /\ SF_allVars(ResumeArrives(h, r))
=============================================================================
