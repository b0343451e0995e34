------------------------------ MODULE HostProofs ------------------------------
(***************************************************************************)
(* What processes and the control plane keep of a run between them, for    *)
(* every set of runs, processes, steps, requests and approvals: one        *)
(* request per tool call, one worker per session, no step left open by a   *)
(* completed run, and a call to continue for every release.                *)
(*                                                                         *)
(* The invariant relates what is stored of a run to the memory of each     *)
(* process alone; a process that is current (it works for the session that *)
(* holds the lease) or abreast (nothing was recorded since it last heard)  *)
(* knows more than one that is neither.  A step acts on one run by one     *)
(* process: the others see what it did to the record.                      *)
(***************************************************************************)
EXTENDS RunTransportProofs, RuntimeHost

-----------------------------------------------------------------------------
(* What a process knows.  Everything is said of the record x of one run, of *)
(* the kernel state v in its newest checkpoint, of the decisions g recorded *)
(* about it, and of the memory m of one process.                            *)

\* Every process has a runtime identity of its own.
OwnIdentity == \A h, k \in Hosts : IdentityOf[h] = IdentityOf[k] => h = k

OpenSteps(x) == {s \in Steps : x.step[s] \in OpenStep}

\* The number of events of the run that the process knows to be recorded.
Base(m) == IF m.sent THEN m.seq + 1 ELSE m.seq

Working(m) == m.pc # "idle"
Current(x, m) == Working(m) /\ m.session = x.session
\* Nothing was recorded since the process last heard of the run.
Abreast(x, m) == Working(m) /\ Base(m) = x.seq /\ x.status \in ActiveRun

SameCall(v, w) == v.phase = "fly" /\ v.call = w.call /\ v.step = w.step /\ v.request = w.request

WorkShape(w) ==
  /\ w.phase # "model" => w.call < MaxCalls
  /\ w.phase = "model" => w.step = NoStep /\ w.request = NoRequest
  /\ w.phase # "fly" => w.approval = NoApproval

\* A kernel state as checkpoints hold it, between two parts of a call.
SavedShape(w) ==
  /\ WorkShape(w)
  /\ w.phase = "tool" => w.step = NoStep /\ w.request = NoRequest
  /\ w.phase = "fly" => w.step \in Steps /\ w.request \in Requests

\* The places at which a call is in flight and its checkpoint was written.
Flying == {"ask", "savePause", "saveCarry", "act", "stepDone"}
InCall == Flying \cup {"stepStart", "saveFly", "stepFail", "saveResult"}

\* The places at which the next request is an event.
Telling == {"start", "resumed", "orphans", "stepStart", "stepDone", "stepFail",
            "completing", "failing", "mismatch"}

MemoryShape(m) ==
  /\ WorkShape(m.work)
  /\ m.pc \in {"start", "saveStart"} => m.work = Fresh /\ m.version = 0
  /\ m.pc = "load" => m.version = 0 /\ (m.recovers <=> m.approval = NoApproval)
  /\ m.pc \in {"resumed", "orphans", "saveTurn", "tool"} => SavedShape(m.work)
  /\ m.pc = "resumed" => ~m.recovers /\ m.approval # NoApproval
  /\ m.pc = "orphans" => m.recovers /\ m.approval = NoApproval /\ m.version > 0
  /\ m.pc \in {"model", "completing"} => m.work.phase = "model"
  /\ m.pc \in {"saveTurn", "tool", "stepStart"} => m.work.phase = "tool"
  /\ m.pc \in Flying \cup {"saveFly"} => m.work.phase = "fly"
  /\ m.pc \in {"stepFail", "saveResult"} => m.work.phase # "model"
  /\ m.pc \in InCall => m.work.step \in Steps /\ m.work.request \in Requests
  /\ m.pc \in {"saveFly", "ask"} => m.work.approval = NoApproval
  /\ m.sent => m.pc \in Telling
  /\ m.sent /\ m.pc = "orphans" => m.orphans # {}

\* A process that told the control plane of a release has found its call.
FindsCall(m) ==
  /\ m.pc # "mismatch"
  /\ m.pc = "resumed" /\ m.sent /\ m.version > 0 =>
       m.work.phase = "fly" /\ m.work.approval \in {NoApproval, m.approval}

\* Only the process of the lease's session can be current, and it is in step
\* with the history until an event of its own is refused.
HoldsLease(h, x, m) ==
  Working(m) => /\ x.lease # "NONE" /\ m.session <= x.session
                /\ m.session = x.session => x.runtime = IdentityOf[h]
InStep(x, m) ==
  /\ Working(m) => Base(m) <= x.seq
  /\ Current(x, m) /\ (m.pc \in {"failing", "stepFail"} => m.sent) => Base(m) = x.seq

\* The steps a process accounts for.
Known(m) ==
  CASE m.pc = "stepStart" -> IF m.sent THEN {m.work.step} ELSE {}
    [] m.pc \in {"stepDone", "stepFail"} -> IF m.sent THEN {} ELSE {m.work.step}
    [] m.pc \in {"saveFly", "ask", "savePause", "saveCarry", "act"} -> {m.work.step}
    [] m.pc = "load" -> IF m.recovers THEN m.open ELSE Steps
    [] m.pc = "resumed" -> IF m.version > 0 THEN {m.work.step} ELSE Steps
    [] m.pc = "orphans" -> {m.work.step} \cup
                             (IF m.sent THEN m.orphans \ {CHOOSE s \in m.orphans : TRUE} ELSE m.orphans)
    [] m.pc = "failing" -> Steps
    [] OTHER -> {}

\* No step is open that a process which is abreast does not account for.
KnowsSteps(x, m) ==
  Abreast(x, m) =>
    /\ OpenSteps(x) \subseteq Known(m)
    /\ m.recovers /\ m.pc \in {"load", "orphans"} => OpenSteps(x) \subseteq m.open

\* A process resumed by an approval, before it says so.
KnowsRelease(x, v, m) ==
  Abreast(x, m) /\ ~m.sent /\ (m.pc = "resumed" \/ (m.pc = "load" /\ ~m.recovers)) =>
    /\ Granted(x) /\ m.approval = x.latest
    /\ m.pc = "resumed" /\ m.version > 0 => x.ckpt > 0 /\ m.work = v

\* What the current process goes on from is the newest checkpoint.
KnowsCheckpoint(x, v, m) ==
  Current(x, m) /\ m.version = x.ckpt /\ x.ckpt > 0 =>
    /\ m.pc \in {"model", "saveTurn"} => v.phase = "model" /\ v.call = m.work.call
    /\ m.pc \in {"tool", "stepStart", "saveFly"} => v.phase = "tool" /\ v.call = m.work.call
    /\ m.pc \in Flying => SameCall(v, m.work)
    /\ m.pc \in {"stepFail", "saveResult"} =>
         v.call = m.work.call /\ (v.phase = "tool" \/ SameCall(v, m.work))
    /\ m.pc \in {"resumed", "orphans"} => v = m.work

InFlight(m) ==
  \/ m.pc \in Flying
  \/ m.pc \in {"resumed", "orphans"} /\ m.version > 0 /\ m.work.phase = "fly"

\* The step of the call was started and is not saved yet.
StartedStep(m) == m.pc = "saveFly" \/ (m.pc = "stepStart" /\ m.sent)

\* A call in flight anywhere is the saved one, or one that is decided or over.
CallAccounted(x, v, g, m) ==
  LET w == m.work IN
  /\ InFlight(m) =>
       /\ x.status \in ActiveRun => x.ckpt > 0
       /\ x.ckpt > 0 => w.call < v.call \/ SameCall(v, w)
       /\ x.ckpt > 0 /\ w.call < v.call =>
            g[w.request].decision # "NONE" \/ x.step[w.step] \notin OpenStep
  /\ InFlight(m) \/ StartedStep(m) \/ m.pc \in {"stepFail", "saveResult"} => x.step[w.step] # "NONE"

\* A process that is abreast and between two calls sees no call in flight saved.
BetweenCalls(x, v, m) ==
  Abreast(x, m) /\ x.ckpt > 0 /\ (\/ m.pc \in {"model", "saveTurn", "tool"}
                                  \/ m.pc = "stepStart" /\ ~m.sent
                                  \/ m.pc = "orphans" /\ m.work.phase # "fly") =>
    v.phase # "fly"

KnowsDecision(g, m) ==
  m.pc \in {"savePause", "saveCarry"} =>
    g[m.work.request].decision = "APPROVAL" /\ g[m.work.request].approval = m.work.approval

Fits(h, x, v, g, m) ==
  /\ MemoryShape(m) /\ FindsCall(m) /\ HoldsLease(h, x, m) /\ InStep(x, m)
  /\ KnowsSteps(x, m) /\ KnowsRelease(x, v, m) /\ KnowsCheckpoint(x, v, m)
  /\ CallAccounted(x, v, g, m) /\ BetweenCalls(x, v, m) /\ KnowsDecision(g, m)

\* The process that started a step last is the only one to know of it.
Alone(x, m, n) == Current(x, m) /\ StartedStep(m) /\ Working(n) => Base(n) < x.seq

-----------------------------------------------------------------------------
(* What is stored about one run.                                            *)

\* Decided requests belong to calls that are over, or to the one saved in
\* flight; without a checkpoint nothing was asked yet.
RequestsSaved(x, v, g) ==
  \A q \in Requests : g[q].decision # "NONE" =>
    /\ x.ckpt > 0 => g[q].call < v.call \/ (g[q].call = v.call /\ v.phase = "fly" /\ v.request = q)
    /\ x.ckpt = 0 => x.status \notin ActiveRun \cup {"NONE"}

OneEach(g) ==
  \A p, q \in Requests :
    p # q /\ g[p].decision # "NONE" /\ g[q].decision # "NONE" => g[p].call # g[q].call

\* While a call is saved in flight, its step is the only one that can be open.
SavedCallOpen(x, v) ==
  x.ckpt > 0 /\ v.phase = "fly" => OpenSteps(x) \subseteq {v.step} /\ x.step[v.step] # "NONE"

\* A run waits for, and is released by, the approval of the saved call.
WaitsForSaved(x, v, g) ==
  x.status = "WAITING_FOR_APPROVAL" \/ Granted(x) =>
    /\ x.ckpt > 0 /\ v.phase = "fly" /\ v.step \in OpenSteps(x)
    /\ g[v.request].decision = "APPROVAL"
    /\ x.status = "WAITING_FOR_APPROVAL" => g[v.request].approval \in Pending(x)
    /\ Granted(x) => g[v.request].approval = x.latest

SavedApproval(x, v, g) ==
  x.ckpt > 0 /\ v.phase = "fly" /\ v.approval # NoApproval =>
    g[v.request].decision = "APPROVAL" /\ g[v.request].approval = v.approval

ClosedWhenCompleted(x) == x.status = "COMPLETED" => OpenSteps(x) = {}

Stored(x, v, g) ==
  /\ x.ckpt = 0 => v = Fresh
  /\ SavedShape(v) /\ RequestsSaved(x, v, g) /\ OneEach(g) /\ SavedCallOpen(x, v)
  /\ WaitsForSaved(x, v, g) /\ SavedApproval(x, v, g) /\ ClosedWhenCompleted(x)

Together(r) ==
  /\ Stored(db[r], saved[r], gate[r])
  /\ \A h \in Hosts : Fits(h, db[r], saved[r], gate[r], mem[r][h])
  /\ \A h, k \in Hosts : h # k => Alone(db[r], mem[r][h], mem[r][k])

HostInv ==
  HostTypeOK /\ Inductive /\ \A r \in Runs : Together(r)
-----------------------------------------------------------------------------
(* What the control plane does to a run while its processes stay as they    *)
(* are.                                                                     *)

Gently(x, y) ==
  /\ y.seq = x.seq
  /\ x.lease # "NONE" => y.lease # "NONE"
  /\ x.session <= y.session
  /\ y.session = x.session /\ x.lease # "NONE" => y.runtime = x.runtime
  /\ y.ckpt = x.ckpt \/ y.ckpt = 0
  /\ y.status \in ActiveRun => /\ x.lease # "NONE" => x.status \in ActiveRun
                               /\ y.ckpt = x.ckpt /\ OpenSteps(y) = OpenSteps(x)
  /\ OpenSteps(y) \subseteq OpenSteps(x)
  /\ \A s \in Steps : x.step[s] # "NONE" => y.step[s] # "NONE"
  /\ Granted(x) /\ y.status \in ActiveRun => Granted(y) /\ y.latest = x.latest

\* The newest checkpoint goes with its run.
Left(y, v) == IF y.ckpt = 0 THEN Fresh ELSE v

LEMMA InFlightShape ==
  ASSUME NEW m, MemoryShape(m), InFlight(m)
  PROVE  m.work.step \in Steps /\ m.work.request \in Requests /\ m.work.phase = "fly" /\ Working(m)
  BY DEF MemoryShape, InFlight, SavedShape, InCall, Flying, Working

LEMMA GentlyFits ==
  ASSUME NEW x \in RunRecord, NEW y \in RunRecord, Gently(x, y), NEW v, NEW g, NEW h,
         NEW m \in Memory, Fits(h, x, v, g, m)
  PROVE  Fits(h, y, Left(y, v), g, m)
<1>1. /\ m.session \in Nat /\ m.seq \in Nat /\ x.session \in Nat /\ y.session \in Nat
      /\ x.seq \in Nat /\ y.seq \in Nat /\ x.ckpt \in Nat /\ y.ckpt \in Nat
  BY DEF Memory, RunRecord
<1>2. HoldsLease(h, y, m)
  BY <1>1 DEF Fits, HoldsLease, Gently
<1>3. Current(y, m) => Current(x, m)
  BY <1>1 DEF Fits, HoldsLease, Gently, Current
<1>4. Abreast(y, m) => Abreast(x, m) /\ y.ckpt = x.ckpt /\ OpenSteps(y) = OpenSteps(x)
  BY DEF Fits, HoldsLease, Gently, Abreast
<1>5. InStep(y, m)
  BY <1>3 DEF Fits, InStep, Gently
<1>6. KnowsSteps(y, m)
  BY <1>4 DEF Fits, KnowsSteps
<1>7. KnowsRelease(y, Left(y, v), m)
  <2> SUFFICES ASSUME Abreast(y, m), ~m.sent, m.pc = "resumed" \/ (m.pc = "load" /\ ~m.recovers)
               PROVE  /\ Granted(y) /\ m.approval = y.latest
                      /\ m.pc = "resumed" /\ m.version > 0 => y.ckpt > 0 /\ m.work = Left(y, v)
    BY DEF KnowsRelease
  <2>1. /\ Granted(x) /\ m.approval = x.latest
        /\ m.pc = "resumed" /\ m.version > 0 => x.ckpt > 0 /\ m.work = v
    BY <1>4 DEF Fits, KnowsRelease
  <2>2. y.status \in ActiveRun
    BY DEF Abreast
  <2> QED BY <1>1, <1>4, <2>1, <2>2 DEF Gently, Left
<1>8. KnowsCheckpoint(y, Left(y, v), m)
  <2> SUFFICES ASSUME Current(y, m), m.version = y.ckpt, y.ckpt > 0
               PROVE  KnowsCheckpoint(y, Left(y, v), m)
    BY DEF KnowsCheckpoint
  <2>1. Current(x, m) /\ m.version = x.ckpt /\ x.ckpt > 0 /\ Left(y, v) = v
    BY <1>1, <1>3 DEF Gently, Left
  <2> QED BY <2>1 DEF Fits, KnowsCheckpoint
<1>9. CallAccounted(y, Left(y, v), g, m)
  <2> DEFINE w == m.work
  <2>1. ASSUME InFlight(m) \/ StartedStep(m) \/ m.pc \in {"stepFail", "saveResult"}
        PROVE  w.step \in Steps /\ y.step[w.step] # "NONE"
    <3>1. w.step \in Steps
      BY <2>1, InFlightShape DEF Fits, MemoryShape, InCall, StartedStep
    <3>2. x.step[w.step] # "NONE"
      BY <2>1 DEF Fits, CallAccounted
    <3> QED BY <3>1, <3>2 DEF Gently
  <2>2. ASSUME InFlight(m), y.status \in ActiveRun
        PROVE  y.ckpt > 0
    <3>1. Working(m) /\ x.lease # "NONE"
      BY <2>2, InFlightShape DEF Fits, HoldsLease
    <3> QED BY <2>2, <3>1 DEF Fits, CallAccounted, Gently
  <2>3. ASSUME InFlight(m), y.ckpt > 0
        PROVE  /\ w.call < Left(y, v).call \/ SameCall(Left(y, v), w)
               /\ w.call < Left(y, v).call => g[w.request].decision # "NONE" \/ y.step[w.step] \notin OpenStep
    <3>1. x.ckpt > 0 /\ Left(y, v) = v
      BY <1>1, <2>3 DEF Gently, Left
    <3>2. /\ w.call < v.call \/ SameCall(v, w)
          /\ w.call < v.call => g[w.request].decision # "NONE" \/ x.step[w.step] \notin OpenStep
      BY <2>3, <3>1 DEF Fits, CallAccounted
    <3>3. x.step[w.step] \notin OpenStep => y.step[w.step] \notin OpenStep
      BY <2>1, <2>3 DEF Gently, OpenSteps
    <3> QED BY <3>1, <3>2, <3>3
  <2> QED BY <2>1, <2>2, <2>3 DEF CallAccounted
<1>10. BetweenCalls(y, Left(y, v), m)
  BY <1>4 DEF Fits, BetweenCalls, Left
<1> QED BY <1>2, <1>5, <1>6, <1>7, <1>8, <1>9, <1>10 DEF Fits

\* The control plane completes no run and asks nobody for an approval by itself.
Calmly(x, y) ==
  /\ Gently(x, y)
  /\ y.status = "COMPLETED" => x.status = "COMPLETED"
  /\ y.status = "WAITING_FOR_APPROVAL" => x.status = "WAITING_FOR_APPROVAL" /\ Pending(y) = Pending(x)
  /\ Granted(y) => \/ Granted(x) /\ y.latest = x.latest
                   \/ x.status = "WAITING_FOR_APPROVAL" /\ y.latest \in Pending(x)
  /\ y.status \in ActiveRun \cup {"NONE"} => x.status \in ActiveRun \cup {"NONE"}
  /\ y.ckpt # x.ckpt => Terminal(y)

LEMMA CalmlyStored ==
  ASSUME NEW x \in RunRecord, NEW y \in RunRecord, Calmly(x, y), RunInv(x), NEW v \in KernelState, NEW g,
         g \in [Requests -> Decision], Stored(x, v, g)
  PROVE  Stored(y, Left(y, v), g)
<1>1. x.ckpt \in Nat /\ y.ckpt \in Nat /\ (y.ckpt > 0 => x.ckpt > 0 /\ x.ckpt = y.ckpt /\ Left(y, v) = v)
  BY DEF RunRecord, Calmly, Gently, Left
<1>2. SavedShape(Fresh) /\ SavedShape(Left(y, v))
  BY DEF Stored, SavedShape, WorkShape, Fresh, Left
<1>3. RequestsSaved(y, Left(y, v), g)
  <2> SUFFICES ASSUME NEW q \in Requests, g[q].decision # "NONE"
               PROVE  /\ y.ckpt > 0 => \/ g[q].call < Left(y, v).call
                                       \/ g[q].call = Left(y, v).call /\ Left(y, v).phase = "fly" /\ Left(y, v).request = q
                      /\ y.ckpt = 0 => y.status \notin ActiveRun \cup {"NONE"}
    BY DEF RequestsSaved
  <2>1. /\ x.ckpt > 0 => g[q].call < v.call \/ (g[q].call = v.call /\ v.phase = "fly" /\ v.request = q)
        /\ x.ckpt = 0 => x.status \notin ActiveRun \cup {"NONE"}
    BY DEF Stored, RequestsSaved
  <2>2. y.ckpt = 0 => y.status \notin ActiveRun \cup {"NONE"}
    <3>1. CASE x.ckpt = 0
      BY <2>1, <3>1 DEF Calmly
    <3>2. CASE x.ckpt # 0
      BY <1>1, <3>2 DEF Calmly, Terminal, TerminalRun, ActiveRun
    <3> QED BY <3>1, <3>2
  <2> QED BY <1>1, <2>1, <2>2
<1>4. OneEach(g)
  BY DEF Stored
<1>5. SavedCallOpen(y, Left(y, v))
  <2> SUFFICES ASSUME y.ckpt > 0, Left(y, v).phase = "fly"
               PROVE  OpenSteps(y) \subseteq {Left(y, v).step} /\ y.step[Left(y, v).step] # "NONE"
    BY DEF SavedCallOpen
  <2>1. Left(y, v) = v /\ OpenSteps(x) \subseteq {v.step} /\ x.step[v.step] # "NONE" /\ v.step \in Steps
    BY <1>1 DEF Stored, SavedCallOpen, SavedShape
  <2> QED BY <2>1 DEF Calmly, Gently
<1>6. WaitsForSaved(y, Left(y, v), g)
  <2> SUFFICES ASSUME y.status = "WAITING_FOR_APPROVAL" \/ Granted(y)
               PROVE  WaitsForSaved(y, Left(y, v), g)
    BY DEF WaitsForSaved
  <2>1. y.status \in ActiveRun
    BY DEF Granted, ActiveRun
  <2>2. x.status = "WAITING_FOR_APPROVAL" \/ Granted(x)
    BY DEF Calmly
  <2>3. /\ x.ckpt > 0 /\ v.phase = "fly" /\ v.step \in OpenSteps(x)
        /\ g[v.request].decision = "APPROVAL"
        /\ x.status = "WAITING_FOR_APPROVAL" => g[v.request].approval \in Pending(x)
        /\ Granted(x) => g[v.request].approval = x.latest
    BY <2>2 DEF Stored, WaitsForSaved
  <2>4. x.lease # "NONE"
    BY <2>3 DEF RunInv, EndIsClean
  <2>5. y.ckpt = x.ckpt /\ OpenSteps(y) = OpenSteps(x) /\ Left(y, v) = v
    BY <1>1, <2>1, <2>3 DEF Calmly, Gently, Left
  <2>6. y.status = "WAITING_FOR_APPROVAL" => g[v.request].approval \in Pending(y)
    BY <2>3 DEF Calmly
  <2>7. Granted(y) => g[v.request].approval = y.latest
    <3>1. CASE Granted(x)
      BY <2>3, <3>1 DEF Calmly, Granted
    <3>2. CASE x.status = "WAITING_FOR_APPROVAL"
      <4>1. PICK a \in Approvals : Pending(x) = {a}
        BY <3>2 DEF RunInv, GateHolds
      <4> QED BY <2>3, <3>2, <4>1 DEF Calmly, Granted
    <3> QED BY <2>2, <3>1, <3>2
  <2> QED BY <2>3, <2>5, <2>6, <2>7 DEF WaitsForSaved
<1>7. SavedApproval(y, Left(y, v), g)
  BY <1>1 DEF Stored, SavedApproval
<1>8. ClosedWhenCompleted(y)
  BY DEF Stored, ClosedWhenCompleted, Calmly, Gently
<1>9. y.ckpt = 0 => Left(y, v) = Fresh
  BY DEF Left
<1> QED BY <1>2, <1>3, <1>4, <1>5, <1>6, <1>7, <1>8, <1>9 DEF Stored

LEMMA SameRunCalm ==
  ASSUME NEW x \in RunRecord, NEW y \in RunRecord,
         y.status = x.status, y.reason = x.reason, y.seq = x.seq, y.step = x.step, y.ckpt = x.ckpt,
         y.approval = x.approval, y.latest = x.latest, x.lease # "NONE" => y.lease # "NONE",
         x.session < y.session \/ (y.session = x.session /\ y.runtime = x.runtime)
  PROVE  Calmly(x, y)
<1>1. x.session \in Nat /\ y.session \in Nat
  BY DEF RunRecord
<1>2. Granted(y) = Granted(x) /\ OpenSteps(y) = OpenSteps(x) /\ Pending(y) = Pending(x)
  BY DEF Granted, OpenSteps, Pending
<1>3. x.session <= y.session /\ (y.session = x.session /\ x.lease # "NONE" => y.runtime = x.runtime)
  BY <1>1
<1>4. Gently(x, y)
  BY <1>2, <1>3 DEF Gently
<1> QED BY <1>2, <1>4 DEF Calmly

\* The end of a run that somebody works on, by cancellation, expiry or loss.
LEMMA EndedCalm ==
  ASSUME NEW x \in RunRecord, NEW y \in RunRecord, y.status = "CANCELLED", y.ckpt = 0,
         y.seq = x.seq, y.session = x.session, y.runtime = x.runtime,
         x.lease # "NONE" => y.lease # "NONE",
         \A s \in Steps : y.step[s] = x.step[s] \/ y.step[s] = "CANCELLED"
  PROVE  Calmly(x, y)
<1>1. x.session \in Nat /\ ~Granted(y) /\ Terminal(y) /\ y.status \notin ActiveRun \cup {"NONE"}
  BY DEF RunRecord, Granted, Terminal, TerminalRun, ActiveRun
<1>2. OpenSteps(y) \subseteq OpenSteps(x) /\ \A s \in Steps : x.step[s] # "NONE" => y.step[s] # "NONE"
  BY DEF OpenSteps, OpenStep
<1> QED BY <1>1, <1>2 DEF Calmly, Gently

LEMMA CancelCalm ==
  ASSUME NEW x \in RunRecord, NEW why \in Reason
  PROVE  Calmly(x, Cancel(x, why)) /\ Calmly(x, Abandon(x, why))
<1> DEFINE c == Cancel(x, why)
<1>1. c \in RunRecord /\ Abandon(x, why) \in RunRecord
  BY CancelType, AbandonType
<1>2. /\ c.status = "CANCELLED" /\ c.ckpt = 0 /\ c.seq = x.seq /\ c.session = x.session
      /\ c.runtime = x.runtime /\ c.lease = x.lease
      /\ c.step = [s \in Steps |-> IF x.step[s] \in OpenStep THEN "CANCELLED" ELSE x.step[s]]
  BY DEF Cancel, Stop, RunRecord
<1>3. \A s \in Steps : c.step[s] = x.step[s] \/ c.step[s] = "CANCELLED"
  BY <1>2
<1>4. Calmly(x, c)
  <2> HIDE DEF c
  <2> QED BY <1>1, <1>2, <1>3, EndedCalm
<1> HIDE DEF c
<1>5. /\ Close(c).status = "CANCELLED" /\ Close(c).ckpt = 0 /\ Close(c).seq = x.seq
      /\ Close(c).session = x.session /\ Close(c).runtime = x.runtime /\ Close(c).step = c.step
      /\ x.lease # "NONE" => Close(c).lease # "NONE"
  BY <1>1, <1>2 DEF Close, RunRecord
<1>6. Abandon(x, why) = Close(c)
  BY DEF Abandon, c
<1>7. Calmly(x, Abandon(x, why))
  BY <1>1, <1>3, <1>5, <1>6, EndedCalm
<1> QED BY <1>4, <1>7 DEF c

LEMMA RenewCalm ==
  ASSUME NEW x \in RunRecord
  PROVE  Calmly(x, Touch(x)) /\ Calmly(x, Close(x)) /\ Calmly(x, Renew(x)) /\ Calmly(x, x)
<1>1. Touch(x) \in RunRecord /\ Close(x) \in RunRecord
  BY TouchType, CloseType
<1>2. Calmly(x, Touch(x))
  <2>1. /\ Touch(x).status = x.status /\ Touch(x).reason = x.reason /\ Touch(x).seq = x.seq
        /\ Touch(x).step = x.step /\ Touch(x).ckpt = x.ckpt /\ Touch(x).approval = x.approval
        /\ Touch(x).latest = x.latest /\ Touch(x).lease = x.lease /\ Touch(x).session = x.session
        /\ Touch(x).runtime = x.runtime
    BY DEF Touch, RunRecord
  <2> QED BY <1>1, <2>1, SameRunCalm
<1>3. Calmly(x, Close(x))
  <2>1. /\ Close(x).status = x.status /\ Close(x).reason = x.reason /\ Close(x).seq = x.seq
        /\ Close(x).step = x.step /\ Close(x).ckpt = x.ckpt /\ Close(x).approval = x.approval
        /\ Close(x).latest = x.latest /\ (x.lease # "NONE" => Close(x).lease # "NONE")
        /\ Close(x).session = x.session /\ Close(x).runtime = x.runtime
    BY DEF Close, RunRecord
  <2> QED BY <1>1, <2>1, SameRunCalm
<1> QED BY <1>2, <1>3, SameRunCalm DEF Renew

LEMMA VisitCalm ==
  ASSUME NEW x \in RunRecord, NEW y \in RunRecord, Visit(x, y), nextSession \in Nat, x.session < nextSession
  PROVE  Calmly(x, y)
<1>1. CASE y = x \/ (Terminal(x) /\ y = Close(x))
  BY <1>1, RenewCalm
<1>2. CASE GivenUp(x, y)
  BY <1>2, CancelCalm DEF GivenUp
<1>3. CASE SentAgain(x, y)
  BY <1>3, SameRunCalm DEF SentAgain, SameWork, SameApprovals
<1>4. CASE HandedOn(x, y)
  BY <1>4, SameRunCalm DEF HandedOn, SameWork, SameApprovals
<1> QED BY <1>1, <1>2, <1>3, <1>4 DEF Visit

LEMMA DecisionCalm ==
  ASSUME NEW x \in RunRecord, NEW y \in RunRecord, RunInv(x), DecisionMade(x, y)
  PROVE  Calmly(x, y)
<1>1. PICK a \in Approvals : /\ x.approval[a] = "PENDING"
                             /\ \/ y = Approved(x, a) \/ y = Rejected(x, a)
                                \/ a \in Due(x) /\ y = Lapsed(x)
  BY DEF DecisionMade
<1>2. x.status = "WAITING_FOR_APPROVAL" \/ Terminal(x)
  BY <1>1, PendingStatus
<1>3. CASE Terminal(x)
  <2>1. x.status # "WAITING_FOR_APPROVAL"
    BY <1>3 DEF Terminal, TerminalRun
  <2>2. /\ y.status = x.status /\ y.seq = x.seq /\ y.step = x.step /\ y.ckpt = x.ckpt
        /\ y.lease = x.lease /\ y.session = x.session /\ y.runtime = x.runtime
    <3>1. CASE y = Approved(x, a)
      BY <2>1, <3>1 DEF Approved, RunRecord
    <3>2. CASE y = Rejected(x, a)
      BY <2>1, <3>2 DEF Rejected, RunRecord
    <3>3. CASE y = Lapsed(x)
      <4>1. y = x \/ y = DueExpired(x)
        BY <2>1, <3>3 DEF Lapsed
      <4>2. DueExpired(x).runtime = x.runtime
        BY DEF DueExpired, RunRecord
      <4> QED BY <4>1, <4>2, DueExpiredType
    <3> QED BY <1>1, <3>1, <3>2, <3>3
  <2>3. y.status \notin ActiveRun \cup {"NONE"} /\ ~Granted(y) /\ x.session \in Nat /\ OpenSteps(y) = OpenSteps(x)
    BY <1>3, <2>2 DEF Terminal, TerminalRun, ActiveRun, Granted, RunRecord, OpenSteps
  <2> QED BY <2>1, <2>2, <2>3 DEF Calmly, Gently
<1>4. CASE x.status = "WAITING_FOR_APPROVAL" /\ y = Approved(x, a)
  <2> DEFINE w == WaitingStepTo(x, a, "PENDING")
             u == [x EXCEPT !.approval[a] = "APPROVED", !.latest = a, !.overdue = @ \ {a}]
             z == [u EXCEPT !.status = "QUEUED", !.reason = "APPROVAL_GRANTED", !.step = w]
  <2>1. w \in [Steps -> StepStatus \cup {"NONE"}]
    BY WaitingStepType DEF StepStatus
  <2>2. u \in RunRecord /\ u.seq = x.seq /\ u.ckpt = x.ckpt /\ u.lease = x.lease
        /\ u.session = x.session /\ u.runtime = x.runtime /\ u.latest = a
    BY DEF RunRecord
  <2>3. z \in RunRecord /\ z.status = "QUEUED" /\ z.reason = "APPROVAL_GRANTED" /\ z.step = w
        /\ z.seq = x.seq /\ z.ckpt = x.ckpt /\ z.lease = x.lease
        /\ z.session = x.session /\ z.runtime = x.runtime /\ z.latest = a
    <3> HIDE DEF w, u
    <3> QED BY <2>1, <2>2 DEF RunRecord, RunStatus, Reason
  <2>4. y = Updated(z)
    BY <1>4 DEF Approved
  <2> HIDE DEF z
  <2>5. /\ y.status = "QUEUED" /\ y.reason = "APPROVAL_GRANTED" /\ y.step = w
        /\ y.seq = x.seq /\ y.ckpt = x.ckpt /\ y.lease = x.lease
        /\ y.session = x.session /\ y.runtime = x.runtime /\ y.latest = a
    BY <2>3, <2>4 DEF Updated, RunRecord
  <2>6. \A s \in Steps : y.step[s] = x.step[s] \/ (x.step[s] = "WAITING_FOR_APPROVAL" /\ y.step[s] = "PENDING")
    BY <2>5 DEF WaitingStepTo
  <2> HIDE DEF w
  <2>7. OpenSteps(y) = OpenSteps(x) /\ \A s \in Steps : x.step[s] # "NONE" => y.step[s] # "NONE"
    BY <2>6 DEF OpenSteps, OpenStep
  <2>8. a \in Pending(x) /\ ~Granted(x) /\ x.status \in ActiveRun /\ x.session \in Nat
    BY <1>1, <1>4 DEF Pending, Granted, ActiveRun, RunRecord
  <2> QED BY <1>4, <2>5, <2>7, <2>8 DEF Calmly, Gently
<1>5. CASE x.status = "WAITING_FOR_APPROVAL" /\ y = Rejected(x, a)
  <2> DEFINE w == WaitingStepTo(x, a, "CANCELLED")
             u == [x EXCEPT !.approval[a] = "REJECTED", !.overdue = @ \ {a}]
  <2>1. u \in RunRecord /\ u.seq = x.seq /\ u.lease = x.lease /\ u.session = x.session /\ u.runtime = x.runtime
    BY DEF RunRecord
  <2>2. y = [Stop(u, "CANCELLED", "APPROVAL_REJECTED") EXCEPT !.step = w]
    BY <1>5 DEF Rejected
  <2>3. \A s \in Steps : w[s] = x.step[s] \/ w[s] = "CANCELLED"
    BY DEF WaitingStepTo
  <2> HIDE DEF u, w
  <2>4. /\ y.status = "CANCELLED" /\ y.ckpt = 0 /\ y.seq = x.seq /\ y.lease = x.lease
        /\ y.session = x.session /\ y.runtime = x.runtime /\ y.step = w
    BY <2>1, <2>2 DEF Stop, RunRecord
  <2> QED BY <2>3, <2>4, EndedCalm
<1>6. CASE x.status = "WAITING_FOR_APPROVAL" /\ a \in Due(x) /\ y = Lapsed(x)
  <2>1. PICK z \in RunRecord : z = DueExpired(x)
    BY DueExpiredType
  <2>2. y = Cancel(z, "APPROVAL_EXPIRED")
    BY <1>6, <2>1 DEF Lapsed
  <2>3. /\ z.session = x.session /\ z.seq = x.seq /\ z.lease = x.lease /\ z.step = x.step
        /\ z.runtime = x.runtime
    BY <2>1, DueExpiredType DEF DueExpired, RunRecord
  <2>4. /\ y.status = "CANCELLED" /\ y.ckpt = 0 /\ y.seq = z.seq /\ y.lease = z.lease
        /\ y.session = z.session /\ y.runtime = z.runtime
    BY ONLY <2>2, z \in RunRecord DEF Cancel, Stop, RunRecord
  <2>5. y.step = [s \in Steps |-> IF z.step[s] \in OpenStep THEN "CANCELLED" ELSE z.step[s]]
    BY ONLY <2>2, z \in RunRecord DEF Cancel, Stop, RunRecord
  <2>6. \A s \in Steps : y.step[s] = z.step[s] \/ y.step[s] = "CANCELLED"
    BY <2>5
  <2> QED BY <2>3, <2>4, <2>6, EndedCalm
<1> QED BY <1>1, <1>2, <1>3, <1>4, <1>5, <1>6

\* The steps of the control plane by itself, and what a claim or a heartbeat
\* does to the record of a run.
Environment(x, y) ==
  \/ y = x \/ Created(x, y) \/ CancelledByOwner(x, y) \/ DecisionMade(x, y)
  \/ Late(x, y) \/ Aged(x, y) \/ y = Reaped(x) \/ ClaimPass(x, y) \/ y = Touch(x)

LEMMA EnvironmentCalm ==
  ASSUME NEW x \in RunRecord, NEW y \in RunRecord, RunInv(x), nextSession \in Nat,
         x.session < nextSession, Environment(x, y)
  PROVE  Calmly(x, y)
<1>1. CASE y = x \/ y = Touch(x)
  BY <1>1, RenewCalm
<1>2. CASE Created(x, y)
  <2>1. /\ y.status = "QUEUED" /\ y.reason = x.reason /\ y.seq = x.seq /\ y.step = x.step
        /\ y.ckpt = x.ckpt /\ y.lease = x.lease /\ y.session = x.session /\ y.runtime = x.runtime
        /\ x.status = "NONE"
    BY <1>2 DEF Created, RunRecord
  <2>2. x.lease = "NONE" /\ x.reason = None /\ x.session \in Nat
    BY <2>1 DEF RunInv, RunRecord
  <2>3. ~Granted(y) /\ ~Granted(x) /\ OpenSteps(y) = OpenSteps(x)
    BY <2>1, <2>2, TransportAssumption DEF Granted, OpenSteps
  <2> QED BY <2>1, <2>2, <2>3 DEF Calmly, Gently, ActiveRun
<1>3. CASE CancelledByOwner(x, y)
  BY <1>3, CancelCalm DEF CancelledByOwner, Reason
<1>4. CASE DecisionMade(x, y)
  BY <1>4, DecisionCalm
<1>5. CASE Aged(x, y)
  <2>1. /\ y.status = x.status /\ y.reason = x.reason /\ y.seq = x.seq
        /\ y.step = x.step /\ y.ckpt = x.ckpt /\ y.approval = x.approval
        /\ y.latest = x.latest /\ y.lease = x.lease /\ y.session = x.session /\ y.runtime = x.runtime
    BY <1>5 DEF Aged, RunRecord
  <2> QED BY <2>1, SameRunCalm
<1>6. CASE y = Reaped(x)
  BY <1>6, CancelCalm, RenewCalm DEF Reaped, Reason
<1>7. CASE ClaimPass(x, y)
  BY <1>7, ClaimVisit, VisitCalm
<1>8. CASE Late(x, y)
  <2>1. /\ y.status = x.status /\ y.reason = x.reason /\ y.seq = x.seq
        /\ y.step = x.step /\ y.ckpt = x.ckpt /\ y.approval = x.approval
        /\ y.latest = x.latest /\ y.lease = x.lease /\ y.session = x.session /\ y.runtime = x.runtime
    BY <1>8 DEF Late, RunRecord
  <2> QED BY <2>1, SameRunCalm
<1> QED BY <1>1, <1>2, <1>3, <1>4, <1>5, <1>6, <1>7, <1>8 DEF Environment

-----------------------------------------------------------------------------
(* Processes that do nothing about a run, are told to stop, or stop.        *)

Still(m, n) == n \in {m, [m EXCEPT !.aborted = TRUE], Idle}

LEMMA IdleFits ==
  ASSUME NEW h, NEW x, NEW v, NEW g
  PROVE  Fits(h, x, v, g, Idle) /\ Idle \in Memory
<1>1. /\ Idle.pc = "idle" /\ Idle.version = 0 /\ Idle.sent = FALSE /\ Idle.work = Fresh
      /\ Fresh.phase = "model" /\ Fresh.step = NoStep /\ Fresh.request = NoRequest
      /\ Fresh.approval = NoApproval /\ Fresh.call = 0
  BY DEF Idle, Fresh
<1>2. ~Working(Idle) /\ ~InFlight(Idle) /\ ~StartedStep(Idle)
  BY <1>1 DEF Working, InFlight, StartedStep, Flying
<1>3. MemoryShape(Idle)
  BY <1>1 DEF MemoryShape, WorkShape, InCall, Flying
<1>4. FindsCall(Idle) /\ HoldsLease(h, x, Idle) /\ InStep(x, Idle) /\ KnowsSteps(x, Idle)
      /\ KnowsRelease(x, v, Idle)
  BY <1>1, <1>2 DEF FindsCall, HoldsLease, InStep, KnowsSteps, KnowsRelease, Abreast, Current
<1>5. KnowsCheckpoint(x, v, Idle) /\ CallAccounted(x, v, g, Idle) /\ BetweenCalls(x, v, Idle)
      /\ KnowsDecision(g, Idle)
  BY <1>1, <1>2 DEF KnowsCheckpoint, CallAccounted, BetweenCalls, KnowsDecision, Abreast, Current
<1>6. Idle \in Memory
  <2>1. Fresh \in KernelState
    BY HostAssumption DEF Fresh, KernelState
  <2> QED BY <2>1 DEF Idle, Memory, Place
<1> QED BY <1>3, <1>4, <1>5, <1>6 DEF Fits

LEMMA AbortedFits ==
  ASSUME NEW h, NEW x, NEW v, NEW g, NEW m \in Memory, NEW n, n = [m EXCEPT !.aborted = TRUE],
         Fits(h, x, v, g, m)
  PROVE  Fits(h, x, v, g, n) /\ n \in Memory
<1>1. /\ n \in Memory /\ n.pc = m.pc /\ n.session = m.session /\ n.seq = m.seq /\ n.version = m.version
      /\ n.sent = m.sent /\ n.recovers = m.recovers /\ n.approval = m.approval /\ n.open = m.open
      /\ n.orphans = m.orphans /\ n.work = m.work
  BY DEF Memory
<1>2. /\ Base(n) = Base(m) /\ Working(n) = Working(m) /\ Current(x, n) = Current(x, m)
      /\ Abreast(x, n) = Abreast(x, m) /\ Known(n) = Known(m) /\ InFlight(n) = InFlight(m)
      /\ StartedStep(n) = StartedStep(m)
  BY <1>1 DEF Base, Working, Current, Abreast, Known, InFlight, StartedStep
<1>3. MemoryShape(n) /\ FindsCall(n) /\ HoldsLease(h, x, n) /\ InStep(x, n)
  BY <1>1, <1>2 DEF Fits, MemoryShape, FindsCall, HoldsLease, InStep
<1>4. KnowsSteps(x, n) /\ KnowsRelease(x, v, n) /\ KnowsCheckpoint(x, v, n)
  BY <1>1, <1>2 DEF Fits, KnowsSteps, KnowsRelease, KnowsCheckpoint
<1>5. CallAccounted(x, v, g, n) /\ BetweenCalls(x, v, n) /\ KnowsDecision(g, n)
  BY <1>1, <1>2 DEF Fits, CallAccounted, BetweenCalls, KnowsDecision
<1> QED BY <1>1, <1>3, <1>4, <1>5 DEF Fits

LEMMA StillFits ==
  ASSUME NEW h, NEW x, NEW v, NEW g, NEW m \in Memory, NEW n, Still(m, n), Fits(h, x, v, g, m)
  PROVE  /\ Fits(h, x, v, g, n) /\ n \in Memory
         /\ Working(n) => /\ Working(m) /\ n.session = m.session /\ Base(n) = Base(m)
                          /\ StartedStep(n) = StartedStep(m)
<1>1. CASE n = m
  BY <1>1
<1>2. CASE n = [m EXCEPT !.aborted = TRUE]
  <2>1. n.pc = m.pc /\ n.session = m.session /\ n.seq = m.seq /\ n.sent = m.sent
    BY <1>2 DEF Memory
  <2> QED BY <1>2, <2>1, AbortedFits DEF Working, Base, StartedStep
<1>3. CASE n = Idle
  BY <1>3, IdleFits DEF Working, Idle
<1> QED BY <1>1, <1>2, <1>3 DEF Still

LEMMA GentlyAlone ==
  ASSUME NEW x \in RunRecord, NEW y \in RunRecord, Gently(x, y), NEW h, NEW m \in Memory,
         NEW n, HoldsLease(h, x, m), Alone(x, m, n)
  PROVE  Alone(y, m, n)
<1>1. m.session \in Nat /\ x.session \in Nat /\ y.session \in Nat
  BY DEF Memory, RunRecord
<1>2. Current(y, m) => Current(x, m)
  BY <1>1 DEF HoldsLease, Gently, Current
<1> QED BY <1>2 DEF Alone, Gently

LEMMA RunCalm ==
  ASSUME HostInv, NEW r \in Runs, db'[r] \in RunRecord, Calmly(db[r], db'[r]),
         saved'[r] = Left(db'[r], saved[r]), gate'[r] = gate[r],
         \A h \in Hosts : Still(mem[r][h], mem'[r][h])
  PROVE  Together(r)' /\ \A h \in Hosts : mem'[r][h] \in Memory
<1>1. /\ db[r] \in RunRecord /\ saved[r] \in KernelState /\ gate[r] \in [Requests -> Decision]
      /\ \A h \in Hosts : mem[r][h] \in Memory
      /\ RunInv(db[r]) /\ Together(r)
  BY DEF HostInv, HostTypeOK, TypeOK, Inductive
<1>2. PICK x \in RunRecord, y \in RunRecord, v \in KernelState, g \in [Requests -> Decision] :
        x = db[r] /\ y = db'[r] /\ v = saved[r] /\ g = gate[r]
  BY <1>1
<1>3. Stored(y, Left(y, v), g)
  BY <1>1, <1>2, CalmlyStored DEF Together
<1>4. ASSUME NEW h \in Hosts
      PROVE  Fits(h, y, Left(y, v), g, mem[r][h])
  BY <1>1, <1>2, GentlyFits DEF Together, Calmly
<1>5. ASSUME NEW h \in Hosts
      PROVE  /\ Fits(h, y, Left(y, v), g, mem'[r][h]) /\ mem'[r][h] \in Memory
             /\ Working(mem'[r][h]) => /\ Working(mem[r][h]) /\ mem'[r][h].session = mem[r][h].session
                                       /\ Base(mem'[r][h]) = Base(mem[r][h])
                                       /\ StartedStep(mem'[r][h]) = StartedStep(mem[r][h])
  BY <1>1, <1>4, StillFits
<1>6. ASSUME NEW h \in Hosts, NEW k \in Hosts, h # k
      PROVE  Alone(y, mem'[r][h], mem'[r][k])
  <2>1. Alone(y, mem[r][h], mem[r][k])
    BY <1>1, <1>2, <1>6, GentlyAlone DEF Together, Calmly, Fits
  <2> QED BY <2>1, <1>5 DEF Alone, Current
<1>7. saved'[r] = Left(y, v) /\ gate'[r] = g
  BY <1>2
<1> QED BY <1>2, <1>3, <1>5, <1>6, <1>7 DEF Together

-----------------------------------------------------------------------------
(* Events.                                                                  *)

\* The events a process sends.
KernelEvent == {"run.started", "run.resumed", "run.completed", "run.failed",
                "step.started", "step.completed", "step.failed"}

\* What an event of a process does to the record, for the other processes.
Heard(x, y) ==
  /\ x.status \in ActiveRun /\ y.seq = x.seq + 1
  /\ y.session = x.session /\ y.runtime = x.runtime /\ (x.lease # "NONE" => y.lease # "NONE")
  /\ y.status \in {"RUNNING", "COMPLETED", "FAILED"}
  /\ y.ckpt = IF y.status = "RUNNING" THEN x.ckpt ELSE 0
  /\ \A s \in Steps : x.step[s] # "NONE" => y.step[s] # "NONE"
  /\ \A s \in Steps : x.step[s] # "NONE" /\ x.step[s] \notin OpenStep => y.step[s] \notin OpenStep

\* What it does to the steps that are open.
StepsMove(x, y, type, s) ==
  CASE type = "step.started" -> /\ s \in Steps /\ y.step[s] # "NONE"
                                /\ OpenSteps(y) = OpenSteps(x) \cup {s}
    [] type \in {"step.completed", "step.failed"} -> s \in Steps /\ OpenSteps(y) = OpenSteps(x) \ {s}
    [] OTHER -> OpenSteps(y) = OpenSteps(x)

RunMoves(y, type) ==
  y.status = CASE type = "run.completed" -> "COMPLETED"
               [] type = "run.failed" -> "FAILED"
               [] OTHER -> "RUNNING"

LEMMA RenewSame ==
  ASSUME NEW z \in RunRecord
  PROVE  /\ Renew(z) \in RunRecord /\ Renew(z).status = z.status /\ Renew(z).seq = z.seq
         /\ Renew(z).session = z.session /\ Renew(z).runtime = z.runtime /\ Renew(z).ckpt = z.ckpt
         /\ Renew(z).step = z.step /\ (z.lease # "NONE" => Renew(z).lease # "NONE")
<1>1. Renew(z) \in RunRecord
  BY RenewType
<1> QED BY <1>1 DEF Renew, Close, Touch, RunRecord

LEMMA EventHeard ==
  ASSUME NEW x \in RunRecord, NEW type \in KernelEvent, KernelEvent \subseteq RuntimeEvents, NEW s,
         NEW session \in Nat, NEW a, MayIngest(x, type, s, session, a), NEW y,
         y = Renew(EventEffect(x, type, s, session, a))
  PROVE  y \in RunRecord /\ Heard(x, y) /\ StepsMove(x, y, type, s) /\ RunMoves(y, type)
<1>1. Accepts(x.status, x.reason, type) /\ StepFits(x, type, s) /\ type \in RuntimeEvent
  BY TransportAssumption DEF MayIngest
<1>2. PICK z \in RunRecord : z = EventEffect(x, type, s, session, a)
  BY <1>1, EventEffectType
<1>3. /\ y \in RunRecord /\ y.status = z.status /\ y.seq = z.seq /\ y.session = z.session
      /\ y.runtime = z.runtime /\ y.ckpt = z.ckpt /\ y.step = z.step /\ (z.lease # "NONE" => y.lease # "NONE")
  BY <1>2, RenewSame
<1>4. CASE type \in {"step.started", "step.completed", "step.failed"}
  <2> DEFINE to == CASE type = "step.started" -> "RUNNING" [] type = "step.completed" -> "COMPLETED" [] OTHER -> "FAILED"
  <2>1. x.status = "RUNNING" /\ s \in Steps
    BY <1>1, <1>4 DEF Accepts, StepFits
  <2>2. z = [[x EXCEPT !.seq = @ + 1] EXCEPT !.step[s] = to]
    BY <1>2, <1>4 DEF EventEffect
  <2>3. /\ z.status = x.status /\ z.seq = x.seq + 1 /\ z.session = x.session /\ z.runtime = x.runtime
        /\ z.lease = x.lease /\ z.ckpt = x.ckpt /\ z.step = [x.step EXCEPT ![s] = to]
    BY <2>1, <2>2 DEF RunRecord
  <2>4. x.step \in [Steps -> StepStatus \cup {"NONE"}]
    BY DEF RunRecord
  <2>5. z.step[s] = to /\ \A p \in Steps \ {s} : z.step[p] = x.step[p]
    BY <2>1, <2>3, <2>4
  <2>6. CASE type = "step.started"
    <3>1. x.step[s] = "NONE" /\ to = "RUNNING"
      BY <1>1, <2>6 DEF StepFits
    <3>2. OpenSteps(y) = OpenSteps(x) \cup {s}
      BY <1>3, <2>1, <2>5, <3>1 DEF OpenSteps, OpenStep
    <3> QED BY <1>3, <2>1, <2>3, <2>5, <2>6, <3>1, <3>2 DEF Heard, StepsMove, RunMoves, ActiveRun
  <2>7. CASE type # "step.started"
    <3>1. to \in {"COMPLETED", "FAILED"} /\ to \notin OpenStep
      BY <1>4, <2>7 DEF OpenStep
    <3>2. OpenSteps(y) = OpenSteps(x) \ {s}
      BY <1>3, <2>1, <2>5, <3>1 DEF OpenSteps
    <3>3. /\ \A p \in Steps : x.step[p] # "NONE" => y.step[p] # "NONE"
          /\ \A p \in Steps : x.step[p] # "NONE" /\ x.step[p] \notin OpenStep => y.step[p] \notin OpenStep
      BY <1>3, <2>5, <3>1
    <3>4. Heard(x, y)
      BY <1>3, <2>1, <2>3, <3>3 DEF Heard, ActiveRun
    <3> QED BY <1>3, <1>4, <2>1, <2>3, <2>7, <3>2, <3>4 DEF StepsMove, RunMoves
  <2> QED BY <2>6, <2>7
<1>5. CASE type = "run.started"
  <2>1. x.status = "QUEUED"
    BY <1>1, <1>5 DEF Accepts
  <2>2. /\ z.status = "RUNNING" /\ z.seq = x.seq + 1 /\ z.session = x.session /\ z.runtime = x.runtime
        /\ z.lease = x.lease /\ z.ckpt = x.ckpt /\ z.step = x.step
    BY <1>2, <1>5 DEF EventEffect, RunRecord
  <2> QED BY <1>3, <1>5, <2>1, <2>2 DEF Heard, StepsMove, RunMoves, ActiveRun, OpenSteps
<1>6. CASE type = "run.resumed"
  <2>1. x.status = "QUEUED"
    BY <1>1, <1>6 DEF Accepts
  <2>2. /\ z.status = "RUNNING" /\ z.seq = x.seq + 1 /\ z.session = x.session /\ z.runtime = x.runtime
        /\ z.lease = x.lease /\ z.ckpt = x.ckpt /\ z.step = ResumeStep(x, a)
    BY <1>2, <1>6 DEF EventEffect, RunRecord
  <2>3. \A p \in Steps : y.step[p] = x.step[p] \/ (x.step[p] = "PENDING" /\ y.step[p] = "RUNNING")
    BY <1>3, <2>2 DEF ResumeStep
  <2>4. OpenSteps(y) = OpenSteps(x)
    BY <2>3 DEF OpenSteps, OpenStep
  <2>5. Heard(x, y)
    BY <1>3, <2>1, <2>2, <2>3 DEF Heard, ActiveRun, OpenStep
  <2> QED BY <1>3, <1>6, <2>2, <2>4, <2>5 DEF StepsMove, RunMoves
<1>7. CASE type \in {"run.completed", "run.failed"}
  <2> DEFINE to == IF type = "run.completed" THEN "COMPLETED" ELSE "FAILED"
  <2>1. x.status \in ActiveRun
    BY <1>1, <1>7 DEF Accepts, TerminalRun, ActiveRun, CanTransitionRun, RunTransitions, EventTarget
  <2>2. z = Stop([x EXCEPT !.seq = @ + 1], to, "RUNTIME")
    BY <1>2, <1>7 DEF EventEffect, EventTarget
  <2>3. /\ z.status = to /\ z.seq = x.seq + 1 /\ z.session = x.session /\ z.runtime = x.runtime
        /\ z.lease = x.lease /\ z.ckpt = 0 /\ z.step = x.step
    BY <2>2 DEF Stop, RunRecord
  <2> QED BY <1>3, <1>7, <2>1, <2>3 DEF Heard, StepsMove, RunMoves, OpenSteps
<1> QED BY <1>4, <1>5, <1>6, <1>7 DEF KernelEvent

\* The call a process is in stays accounted for, whoever is heard.
LEMMA CallStays ==
  ASSUME NEW x \in RunRecord, NEW y \in RunRecord, Heard(x, y), NEW v, NEW g,
         NEW n \in Memory, MemoryShape(n), CallAccounted(x, v, g, n)
  PROVE  CallAccounted(y, Left(y, v), g, n)
<1> DEFINE w == n.work
<1>1. x.ckpt \in Nat /\ y.ckpt \in Nat
  BY DEF RunRecord
<1>2. ASSUME InFlight(n) \/ StartedStep(n) \/ n.pc \in {"stepFail", "saveResult"}
      PROVE  w.step \in Steps /\ x.step[w.step] # "NONE" /\ y.step[w.step] # "NONE"
  <2>1. w.step \in Steps
    BY <1>2, InFlightShape DEF MemoryShape, InCall, StartedStep
  <2>2. x.step[w.step] # "NONE"
    BY <1>2 DEF CallAccounted
  <2> QED BY <2>1, <2>2 DEF Heard
<1>3. ASSUME InFlight(n), y.status \in ActiveRun
      PROVE  y.ckpt > 0
  BY <1>1, <1>3 DEF Heard, CallAccounted, ActiveRun
<1>4. ASSUME InFlight(n), y.ckpt > 0
      PROVE  /\ w.call < Left(y, v).call \/ SameCall(Left(y, v), w)
             /\ w.call < Left(y, v).call => g[w.request].decision # "NONE" \/ y.step[w.step] \notin OpenStep
  <2>1. x.ckpt > 0 /\ Left(y, v) = v
    BY <1>1, <1>4 DEF Heard, Left
  <2>2. /\ w.call < v.call \/ SameCall(v, w)
        /\ w.call < v.call => g[w.request].decision # "NONE" \/ x.step[w.step] \notin OpenStep
    BY <1>4, <2>1 DEF CallAccounted
  <2>3. x.step[w.step] \notin OpenStep => y.step[w.step] \notin OpenStep
    BY <1>2, <1>4 DEF Heard
  <2> QED BY <2>1, <2>2, <2>3
<1> QED BY <1>2, <1>3, <1>4 DEF CallAccounted

\* Another process than the one that was heard knows less than before, and
\* nothing that is wrong.
LEMMA OthersHear ==
  ASSUME OwnIdentity, NEW x \in RunRecord, NEW y \in RunRecord, Heard(x, y), NEW v, NEW g,
         NEW h \in Hosts, NEW k \in Hosts, h # k, x.runtime = IdentityOf[h],
         NEW n \in Memory, Fits(k, x, v, g, n)
  PROVE  /\ Fits(k, y, Left(y, v), g, n)
         /\ ~Current(y, n) /\ (Working(n) => Base(n) < y.seq)
<1>1. /\ n.session \in Nat /\ n.seq \in Nat /\ x.session \in Nat /\ y.session \in Nat
      /\ x.seq \in Nat /\ y.seq \in Nat /\ x.ckpt \in Nat /\ y.ckpt \in Nat
  BY DEF Memory, RunRecord
<1>2. Base(n) \in Nat
  BY <1>1 DEF Base
<1>3. HoldsLease(k, y, n)
  BY DEF Fits, HoldsLease, Heard
<1>4. ~Current(y, n)
  BY <1>3 DEF HoldsLease, Current, OwnIdentity, Heard
<1>5. Working(n) => Base(n) < y.seq
  BY <1>1, <1>2 DEF Fits, InStep, Heard
<1>6. ~Abreast(y, n)
  BY <1>1, <1>2, <1>5 DEF Abreast
<1>7. InStep(y, n)
  BY <1>1, <1>2, <1>4, <1>5 DEF InStep
<1>8. KnowsSteps(y, n) /\ KnowsRelease(y, Left(y, v), n) /\ BetweenCalls(y, Left(y, v), n)
  BY <1>6 DEF KnowsSteps, KnowsRelease, BetweenCalls
<1>9. KnowsCheckpoint(y, Left(y, v), n)
  BY <1>4 DEF KnowsCheckpoint
<1>10. CallAccounted(y, Left(y, v), g, n)
  BY CallStays DEF Fits
<1> QED BY <1>3, <1>4, <1>5, <1>7, <1>8, <1>9, <1>10 DEF Fits

-----------------------------------------------------------------------------
(* What a process makes of its own requests, the record being given.        *)

Gates == [Requests -> Decision]

Follows(h, x, v, g, m, n) ==
  /\ n \in Memory /\ Fits(h, x, v, g, n)
  /\ Working(n) => /\ Working(m) /\ n.session = m.session /\ Base(n) <= Base(m)
                   /\ StartedStep(n) => StartedStep(m)

LEMMA IdleFollows ==
  ASSUME NEW h, NEW x, NEW v, NEW g, NEW m
  PROVE  Follows(h, x, v, g, m, Idle)
  BY IdleFits DEF Follows, Working, Idle

LEMMA AloneFollows ==
  ASSUME NEW h, NEW x \in RunRecord, NEW v, NEW g, NEW m \in Memory, NEW n,
         Follows(h, x, v, g, m, n), NEW k \in Memory
  PROVE  /\ Alone(x, m, k) => Alone(x, n, k)
         /\ Alone(x, k, m) => Alone(x, k, n)
<1>1. n \in Memory /\ m.seq \in Nat /\ n.seq \in Nat /\ x.seq \in Nat
  BY DEF Follows, Memory, RunRecord
<1>2. Base(m) \in Nat /\ Base(n) \in Nat
  BY <1>1 DEF Base
<1> QED BY <1>1, <1>2 DEF Follows, Alone, Current

\* A process that goes on in step with what it knew.
LEMMA MovesOn ==
  ASSUME NEW h, NEW x \in RunRecord, NEW v, NEW g, NEW m \in Memory, NEW n \in Memory,
         Fits(h, x, v, g, m), Working(m), n.session = m.session, Base(n) = Base(m),
         n.pc \notin {"idle", "mismatch", "load", "resumed", "orphans"},
         (m.pc \in {"failing", "stepFail"} => m.sent) \/ (n.pc \in {"failing", "stepFail"} /\ ~n.sent),
         MemoryShape(n), StartedStep(n) => StartedStep(m),
         Abreast(x, m) => OpenSteps(x) \subseteq Known(n),
         KnowsCheckpoint(x, v, n), CallAccounted(x, v, g, n), BetweenCalls(x, v, n), KnowsDecision(g, n)
  PROVE  Follows(h, x, v, g, m, n)
<1>1. Working(n) /\ Base(m) \in Nat
  BY DEF Working, Base, Memory
<1>2. HoldsLease(h, x, n)
  BY DEF Fits, HoldsLease
<1>3. InStep(x, n)
  BY <1>1 DEF Fits, InStep, Current
<1>4. Abreast(x, n) = Abreast(x, m)
  BY <1>1 DEF Abreast
<1>5. KnowsSteps(x, n) /\ KnowsRelease(x, v, n) /\ FindsCall(n)
  BY <1>4 DEF KnowsSteps, KnowsRelease, FindsCall
<1>6. Fits(h, x, v, g, n)
  BY <1>2, <1>3, <1>5 DEF Fits
<1> QED BY <1>1, <1>6 DEF Follows

\* Giving up: the process reports that the run failed.
LEMMA FailingFollows ==
  ASSUME NEW h, NEW x \in RunRecord, NEW v, NEW g, NEW m \in Memory, NEW n \in Memory,
         Fits(h, x, v, g, m), Working(m), n.pc = "failing", n.session = m.session, Base(n) <= Base(m),
         ~n.sent, n.work = m.work
  PROVE  Follows(h, x, v, g, m, n)
<1>1. x.seq \in Nat /\ Base(n) \in Nat /\ Base(m) \in Nat /\ Base(m) <= x.seq
  BY DEF Memory, RunRecord, Base, Fits, InStep
<1>2. MemoryShape(n)
  BY DEF Fits, MemoryShape, InCall, Flying, Telling
<1>3. HoldsLease(h, x, n) /\ InStep(x, n) /\ FindsCall(n) /\ Base(m) \in Nat
  BY <1>1 DEF Fits, HoldsLease, InStep, FindsCall, Working, Base
<1>4. KnowsSteps(x, n) /\ KnowsRelease(x, v, n)
  BY DEF KnowsSteps, KnowsRelease, Known, OpenSteps
<1>5. ~InFlight(n) /\ ~StartedStep(n)
  BY DEF InFlight, StartedStep, Flying
<1>6. KnowsCheckpoint(x, v, n) /\ CallAccounted(x, v, g, n) /\ BetweenCalls(x, v, n) /\ KnowsDecision(g, n)
  BY <1>5 DEF KnowsCheckpoint, CallAccounted, BetweenCalls, KnowsDecision, Flying
<1> QED BY <1>1, <1>2, <1>3, <1>4, <1>5, <1>6 DEF Fits, Follows

\* A tool call that failed, or whose completion was refused, fails its step.
LEMMA StepFailFollows ==
  ASSUME NEW h, NEW x \in RunRecord, NEW v, NEW g, NEW m \in Memory, NEW n \in Memory,
         Fits(h, x, v, g, m), m.pc \in {"ask", "act", "stepDone"}, n.pc = "stepFail", n.session = m.session,
         n.seq = m.seq, n.version = m.version, ~n.sent, n.work = m.work
  PROVE  Follows(h, x, v, g, m, n)
<1>1. /\ m.seq \in Nat /\ x.seq \in Nat /\ Base(n) = m.seq /\ Base(n) <= Base(m) /\ Base(m) <= x.seq
      /\ Base(m) \in Nat
  BY DEF Memory, RunRecord, Base, Fits, InStep, Working
<1>2. MemoryShape(n)
  BY DEF Fits, MemoryShape, InCall, Flying, Telling
<1>3. HoldsLease(h, x, n) /\ InStep(x, n) /\ FindsCall(n)
  BY <1>1 DEF Fits, HoldsLease, InStep, FindsCall, Working
<1>4. Abreast(x, n) => Abreast(x, m) /\ ~m.sent
  BY <1>1 DEF Abreast, Base, Working
<1>5. KnowsSteps(x, n) /\ KnowsRelease(x, v, n)
  BY <1>4 DEF Fits, KnowsSteps, KnowsRelease, Known
<1>6. ~InFlight(n) /\ ~StartedStep(n) /\ InFlight(m)
  BY DEF InFlight, StartedStep, Flying
<1>7. KnowsCheckpoint(x, v, n)
  <2> SUFFICES ASSUME Current(x, n), n.version = x.ckpt, x.ckpt > 0
               PROVE  v.call = n.work.call /\ SameCall(v, n.work)
    BY DEF KnowsCheckpoint, Flying
  <2>1. Current(x, m)
    BY DEF Current, Working
  <2> QED BY <2>1 DEF Fits, KnowsCheckpoint, Flying, SameCall
<1>8. CallAccounted(x, v, g, n) /\ BetweenCalls(x, v, n) /\ KnowsDecision(g, n)
  BY <1>6 DEF Fits, CallAccounted, BetweenCalls, KnowsDecision
<1>9. Working(m)
  BY DEF Working
<1> QED BY <1>1, <1>2, <1>3, <1>5, <1>6, <1>7, <1>8, <1>9 DEF Fits, Follows

\* Where a resumed or recovered kernel enters the saved call.
LEMMA EntersCall ==
  ASSUME NEW h, NEW x \in RunRecord, NEW v, NEW g, NEW m \in Memory, NEW n \in Memory,
         Fits(h, x, v, g, m), m.version > 0, m.work.phase = "fly",
         m.pc = "resumed" \/ (m.pc = "orphans" /\ m.orphans = {} /\ ~m.sent),
         n.pc \in {"ask", "act", "saveResult"}, n.pc = "ask" => m.work.approval = NoApproval,
         n.pc = "saveResult" => m.pc = "orphans" /\ m.work.step \notin m.open,
         n.work = m.work, n.version = m.version, n.session = m.session, ~n.sent, Base(n) = Base(m)
  PROVE  Follows(h, x, v, g, m, n)
<1>1. InFlight(m) /\ Working(m) /\ ~StartedStep(n)
  BY DEF InFlight, Working, StartedStep
<1>2. m.work.step \in Steps /\ m.work.request \in Requests
  BY <1>1, InFlightShape DEF Fits
<1>3. MemoryShape(n)
  BY <1>2 DEF Fits, MemoryShape, SavedShape, InCall, Flying
<1>4. Abreast(x, m) => OpenSteps(x) \subseteq Known(n)
  <2> SUFFICES ASSUME Abreast(x, m)
               PROVE  OpenSteps(x) \subseteq Known(n)
    OBVIOUS
  <2>1. OpenSteps(x) \subseteq Known(m) /\ (m.pc = "orphans" => OpenSteps(x) \subseteq m.open)
    BY DEF Fits, KnowsSteps, MemoryShape
  <2>2. Known(m) = {m.work.step}
    BY DEF Known
  <2>3. Known(n) = IF n.pc = "saveResult" THEN {} ELSE {m.work.step}
    BY DEF Known
  <2> QED BY <2>1, <2>2, <2>3
<1>5. KnowsCheckpoint(x, v, n)
  <2> SUFFICES ASSUME Current(x, n), n.version = x.ckpt, x.ckpt > 0
               PROVE  v.call = n.work.call /\ SameCall(v, n.work)
    BY DEF KnowsCheckpoint, Flying
  <2>1. Current(x, m)
    BY <1>1 DEF Current
  <2>2. v = m.work
    BY <2>1 DEF Fits, KnowsCheckpoint
  <2> QED BY <2>2 DEF SameCall
<1>6. CallAccounted(x, v, g, n)
  BY <1>1 DEF Fits, CallAccounted, InFlight, Flying
<1>7. BetweenCalls(x, v, n) /\ KnowsDecision(g, n)
  BY DEF BetweenCalls, KnowsDecision
<1> QED BY <1>1, <1>3, <1>4, <1>5, <1>6, <1>7, MovesOn

\* run.started is recorded: the kernel saves its first checkpoint.
LEMMA StartFollows ==
  ASSUME NEW h, NEW x \in RunRecord, NEW v, NEW g, NEW m \in Memory, NEW n \in Memory,
         Fits(h, x, v, g, m), m.pc = "start", n.pc = "saveStart",
         n.work = m.work, n.version = m.version, n.session = m.session, ~n.sent, Base(n) = Base(m)
  PROVE  Follows(h, x, v, g, m, n)
<1>1. Working(m) /\ ~StartedStep(n) /\ ~InFlight(n)
  BY DEF InFlight, Working, StartedStep, Flying
<1>2. MemoryShape(n)
  BY DEF Fits, MemoryShape, InCall, Flying
<1>3. Abreast(x, m) => OpenSteps(x) \subseteq Known(n)
  BY DEF Fits, KnowsSteps, Known
<1>4. KnowsCheckpoint(x, v, n) /\ CallAccounted(x, v, g, n) /\ BetweenCalls(x, v, n) /\ KnowsDecision(g, n)
  BY <1>1 DEF KnowsCheckpoint, CallAccounted, BetweenCalls, KnowsDecision, Flying
<1> QED BY <1>1, <1>2, <1>3, <1>4, MovesOn

\* The failure of one step that nobody else accounts for is recorded.
LEMMA OrphanFollows ==
  ASSUME NEW h, NEW x \in RunRecord, NEW v, NEW g, NEW m \in Memory, NEW n \in Memory,
         Fits(h, x, v, g, m), m.pc = "orphans", m.sent, n.pc = "orphans",
         n.orphans = m.orphans \ {CHOOSE s \in m.orphans : TRUE},
         n.work = m.work, n.version = m.version, n.session = m.session, ~n.sent, Base(n) = Base(m),
         n.recovers <=> m.recovers, n.approval = m.approval, n.open = m.open
  PROVE  Follows(h, x, v, g, m, n)
<1>1. /\ Working(m) /\ Working(n) /\ ~StartedStep(n) /\ (InFlight(n) <=> InFlight(m))
      /\ Current(x, n) = Current(x, m) /\ Abreast(x, n) = Abreast(x, m)
  BY DEF InFlight, Working, StartedStep, Flying, Current, Abreast
<1>2. Base(m) \in Nat
  BY DEF Base, Memory
<1>3. MemoryShape(n)
  BY DEF Fits, MemoryShape, InCall, Flying
<1>4. HoldsLease(h, x, n) /\ InStep(x, n) /\ FindsCall(n)
  BY <1>1 DEF Fits, HoldsLease, InStep, FindsCall
<1>5. KnowsSteps(x, n)
  <2>1. Known(n) = Known(m)
    BY DEF Known
  <2> QED BY <1>1, <2>1 DEF Fits, KnowsSteps
<1>6. KnowsRelease(x, v, n) /\ KnowsDecision(g, n)
  BY DEF KnowsRelease, KnowsDecision
<1>7. KnowsCheckpoint(x, v, n)
  BY <1>1 DEF Fits, KnowsCheckpoint, Flying
<1>8. CallAccounted(x, v, g, n)
  BY <1>1 DEF Fits, CallAccounted
<1>9. BetweenCalls(x, v, n)
  BY <1>1 DEF Fits, BetweenCalls
<1> QED BY <1>1, <1>2, <1>3, <1>4, <1>5, <1>6, <1>7, <1>8, <1>9 DEF Fits, Follows

\* step.started is recorded: the call is saved, or its step failed.
LEMMA StepFollows ==
  ASSUME NEW h, NEW x \in RunRecord, NEW v, NEW g, NEW m \in Memory, NEW n \in Memory,
         Fits(h, x, v, g, m), m.pc = "stepStart", m.sent,
         \/ n.pc = "saveFly" /\ n.work = [m.work EXCEPT !.phase = "fly"]
         \/ n.pc = "stepFail" /\ n.work = m.work,
         n.version = m.version, n.session = m.session, ~n.sent, Base(n) = Base(m)
  PROVE  Follows(h, x, v, g, m, n)
<1>1. Working(m) /\ StartedStep(m) /\ ~InFlight(n) /\ m.work \in KernelState
  BY DEF InFlight, Working, StartedStep, Flying, Memory
<1>2. /\ n.work.call = m.work.call /\ n.work.step = m.work.step /\ n.work.request = m.work.request
      /\ n.work.approval = m.work.approval
      /\ n.work.phase = IF n.pc = "saveFly" THEN "fly" ELSE m.work.phase
  BY <1>1 DEF KernelState
<1>3. MemoryShape(n)
  BY <1>2 DEF Fits, MemoryShape, WorkShape, InCall, Flying, Telling
<1>4. Abreast(x, m) => OpenSteps(x) \subseteq Known(n)
  BY <1>2 DEF Fits, KnowsSteps, Known
<1>5. KnowsCheckpoint(x, v, n)
  BY <1>1, <1>2 DEF Fits, KnowsCheckpoint, Flying, Current, Working
<1>6. CallAccounted(x, v, g, n)
  BY <1>1, <1>2 DEF Fits, CallAccounted
<1>7. BetweenCalls(x, v, n) /\ KnowsDecision(g, n)
  BY DEF BetweenCalls, KnowsDecision
<1> QED BY <1>1, <1>3, <1>4, <1>5, <1>6, <1>7, MovesOn

\* The step of a call ended: its result is saved.
LEMMA EndFollows ==
  ASSUME NEW h, NEW x \in RunRecord, NEW v, NEW g, NEW m \in Memory, NEW n \in Memory,
         Fits(h, x, v, g, m), m.pc \in {"stepDone", "stepFail"}, m.sent, n.pc = "saveResult",
         n.work = m.work, n.version = m.version, n.session = m.session, ~n.sent, Base(n) = Base(m)
  PROVE  Follows(h, x, v, g, m, n)
<1>1. Working(m) /\ ~StartedStep(n) /\ ~InFlight(n)
  BY DEF InFlight, Working, StartedStep, Flying
<1>2. MemoryShape(n)
  BY DEF Fits, MemoryShape, InCall, Flying
<1>3. Abreast(x, m) => OpenSteps(x) \subseteq Known(n)
  BY DEF Fits, KnowsSteps, Known
<1>4. KnowsCheckpoint(x, v, n)
  <2> SUFFICES ASSUME Current(x, n), n.version = x.ckpt, x.ckpt > 0
               PROVE  v.call = n.work.call /\ (v.phase = "tool" \/ SameCall(v, n.work))
    BY DEF KnowsCheckpoint, Flying
  <2>1. Current(x, m)
    BY <1>1 DEF Current
  <2> QED BY <2>1 DEF Fits, KnowsCheckpoint, Flying, SameCall
<1>5. CallAccounted(x, v, g, n)
  BY <1>1 DEF Fits, CallAccounted, InFlight, Flying
<1>6. BetweenCalls(x, v, n) /\ KnowsDecision(g, n)
  BY DEF BetweenCalls, KnowsDecision
<1> QED BY <1>1, <1>2, <1>3, <1>4, <1>5, <1>6, MovesOn

-----------------------------------------------------------------------------
(* The process whose event is recorded.                                     *)

\* The event a process sends at each place.
Tells(m, type, s) ==
  \/ m.pc = "start" /\ type = "run.started"
  \/ m.pc = "resumed" /\ type = "run.resumed"
  \/ m.pc = "orphans" /\ m.orphans # {} /\ type = "step.failed" /\ s = CHOOSE p \in m.orphans : TRUE
  \/ m.pc = "stepStart" /\ type = "step.started" /\ s = m.work.step
  \/ m.pc = "stepDone" /\ type = "step.completed" /\ s = m.work.step
  \/ m.pc = "stepFail" /\ type = "step.failed" /\ s = m.work.step
  \/ m.pc = "completing" /\ type = "run.completed"
  \/ m.pc \in {"failing", "mismatch"} /\ type = "run.failed"

LEMMA TellsAbreast ==
  ASSUME NEW x \in RunRecord, NEW m \in Memory, NEW type, NEW s, Tells(m, type, s),
         x.status \in ActiveRun, ~m.sent, m.seq = x.seq
  PROVE  Working(m) /\ Abreast(x, m) /\ m.pc \in Telling /\ type \in KernelEvent
  BY DEF Tells, Working, Abreast, Base, Telling, KernelEvent

\* The approval a process names is the one that released the run, and the
\* call it was asked for is the one the process continues.
LEMMA ReleaseFound ==
  ASSUME NEW x \in RunRecord, NEW v, NEW g, NEW m, Stored(x, v, g), KnowsRelease(x, v, m), Abreast(x, m),
         ~m.sent, m.pc = "resumed"
  PROVE  /\ m.approval = x.latest
         /\ m.version > 0 => m.work.phase = "fly" /\ m.work.approval \in {NoApproval, m.approval}
<1>1. Granted(x) /\ m.approval = x.latest /\ (m.version > 0 => m.work = v)
  BY DEF KnowsRelease
<1>2. x.ckpt > 0 /\ v.phase = "fly" /\ g[v.request].approval = x.latest
  BY <1>1 DEF Stored, WaitsForSaved
<1>3. v.approval \in {NoApproval, x.latest}
  BY <1>2 DEF Stored, SavedApproval
<1> QED BY <1>1, <1>2, <1>3

LEMMA SpeakerHears ==
  ASSUME NEW h, NEW x \in RunRecord, NEW y \in RunRecord, NEW v, NEW g, NEW type, NEW s, NEW m \in Memory,
         Heard(x, y), StepsMove(x, y, type, s), RunMoves(y, type), Tells(m, type, s), Stored(x, v, g),
         Fits(h, x, v, g, m), ~m.sent, m.seq = x.seq, NEW n, n = [m EXCEPT !.sent = TRUE]
  PROVE  Fits(h, y, Left(y, v), g, n) /\ n \in Memory
<1>1. /\ n \in Memory /\ n.pc = m.pc /\ n.session = m.session /\ n.seq = m.seq /\ n.version = m.version
      /\ n.sent = TRUE /\ n.recovers = m.recovers /\ n.approval = m.approval /\ n.open = m.open
      /\ n.orphans = m.orphans /\ n.work = m.work
  BY DEF Memory
<1>2. x.status \in ActiveRun /\ x.ckpt \in Nat /\ y.ckpt \in Nat /\ x.seq \in Nat /\ y.seq = x.seq + 1
  BY DEF Heard, RunRecord
<1>3. Working(m) /\ Abreast(x, m) /\ m.pc \in Telling
  BY <1>2, TellsAbreast
<1>4. Working(n) /\ Base(n) = y.seq
  BY <1>1, <1>2, <1>3 DEF Working, Base
<1>5. MemoryShape(n)
  BY <1>1, <1>3 DEF Fits, MemoryShape, Tells
<1>6. FindsCall(n)
  BY <1>1, <1>3, ReleaseFound DEF Fits, FindsCall
<1>7. HoldsLease(h, y, n) /\ InStep(y, n)
  BY <1>1, <1>2, <1>4 DEF Fits, HoldsLease, InStep, Heard, Working
<1>8. KnowsSteps(y, n)
  <2> SUFFICES ASSUME Abreast(y, n)
               PROVE  /\ OpenSteps(y) \subseteq Known(n)
                      /\ n.recovers /\ n.pc \in {"load", "orphans"} => OpenSteps(y) \subseteq n.open
    BY DEF KnowsSteps
  <2>1. OpenSteps(x) \subseteq Known(m) /\ (m.recovers /\ m.pc \in {"load", "orphans"} => OpenSteps(x) \subseteq m.open)
    BY <1>3 DEF Fits, KnowsSteps
  <2>2. y.status = "RUNNING"
    BY DEF Abreast, Heard, ActiveRun
  <2>3. CASE m.pc \in {"start", "resumed"}
    <3>1. OpenSteps(y) = OpenSteps(x)
      BY <2>3 DEF Tells, StepsMove
    <3>2. Known(n) = Known(m)
      BY <1>1, <2>3 DEF Known
    <3> QED BY <1>1, <2>1, <2>3, <3>1, <3>2
  <2>4. CASE m.pc = "orphans"
    <3>1. OpenSteps(y) = OpenSteps(x) \ {CHOOSE p \in m.orphans : TRUE}
      BY <2>4 DEF Tells, StepsMove
    <3>2. Known(n) = {m.work.step} \cup (m.orphans \ {CHOOSE p \in m.orphans : TRUE})
      BY <1>1, <2>4 DEF Known
    <3>3. Known(m) = {m.work.step} \cup m.orphans
      BY <2>4 DEF Known
    <3> QED BY <1>1, <2>1, <2>4, <3>1, <3>2, <3>3
  <2>5. CASE m.pc = "stepStart"
    <3>1. OpenSteps(y) = OpenSteps(x) \cup {m.work.step}
      BY <2>5 DEF Tells, StepsMove
    <3>2. Known(n) = {m.work.step} /\ Known(m) = {}
      BY <1>1, <2>5 DEF Known
    <3> QED BY <1>1, <2>1, <2>5, <3>1, <3>2
  <2>6. CASE m.pc \in {"stepDone", "stepFail"}
    <3>1. OpenSteps(y) = OpenSteps(x) \ {m.work.step}
      BY <2>6 DEF Tells, StepsMove
    <3>2. Known(n) = {} /\ Known(m) = {m.work.step}
      BY <1>1, <2>6 DEF Known
    <3> QED BY <1>1, <2>1, <2>6, <3>1, <3>2
  <2>7. m.pc \notin {"completing", "failing", "mismatch"}
    BY <2>2 DEF Tells, RunMoves
  <2> QED BY <1>3, <2>3, <2>4, <2>5, <2>6, <2>7 DEF Telling
<1>9. KnowsRelease(y, Left(y, v), n)
  BY <1>1 DEF KnowsRelease
<1>10. KnowsCheckpoint(y, Left(y, v), n)
  <2> SUFFICES ASSUME Current(y, n), n.version = y.ckpt, y.ckpt > 0
               PROVE  KnowsCheckpoint(y, Left(y, v), n)
    BY DEF KnowsCheckpoint
  <2>1. Current(x, m) /\ y.ckpt = x.ckpt /\ x.ckpt > 0 /\ Left(y, v) = v
    BY <1>1, <1>2, <1>3 DEF Current, Heard, Left
  <2> QED BY <1>1, <2>1 DEF Fits, KnowsCheckpoint
<1>11. CallAccounted(y, Left(y, v), g, n)
  <2>1. CallAccounted(y, Left(y, v), g, m)
    BY CallStays DEF Fits
  <2>2. CASE m.pc = "stepStart"
    <3>1. y.step[m.work.step] # "NONE"
      BY <2>2 DEF Tells, StepsMove
    <3>2. ~InFlight(n)
      BY <1>1, <2>2 DEF InFlight, Flying
    <3> QED BY <1>1, <3>1, <3>2 DEF CallAccounted
  <2>3. CASE m.pc # "stepStart"
    <3>1. InFlight(n) = InFlight(m) /\ StartedStep(n) = StartedStep(m)
      BY <1>1, <2>3 DEF InFlight, StartedStep
    <3> QED BY <1>1, <2>1, <3>1 DEF CallAccounted
  <2> QED BY <2>2, <2>3
<1>12. BetweenCalls(y, Left(y, v), n)
  BY <1>1, <1>2, <1>3 DEF Fits, BetweenCalls, Heard, Left, Telling
<1>13. KnowsDecision(g, n)
  BY <1>1 DEF Fits, KnowsDecision
<1> QED BY <1>1, <1>5, <1>6, <1>7, <1>8, <1>9, <1>10, <1>11, <1>12, <1>13 DEF Fits

LEMMA HeardStored ==
  ASSUME NEW h, NEW x \in RunRecord, NEW y \in RunRecord, NEW v, NEW g, NEW type, NEW s, NEW m \in Memory,
         Heard(x, y), StepsMove(x, y, type, s), RunMoves(y, type), Tells(m, type, s), Stored(x, v, g),
         Fits(h, x, v, g, m), ~m.sent, m.seq = x.seq
  PROVE  Stored(y, Left(y, v), g)
<1>1. /\ x.ckpt \in Nat /\ y.ckpt \in Nat /\ x.status \in ActiveRun
      /\ y.ckpt > 0 => x.ckpt = y.ckpt /\ Left(y, v) = v
      /\ y.status \in ActiveRun => y.ckpt = x.ckpt
  BY DEF RunRecord, Heard, Left, ActiveRun
<1>2. SavedShape(Left(y, v))
  BY DEF Stored, SavedShape, WorkShape, Fresh, Left
<1>3. RequestsSaved(y, Left(y, v), g)
  <2>1. y.status # "NONE"
    BY DEF Heard
  <2> QED BY <1>1, <2>1 DEF Stored, RequestsSaved
<1>4. OneEach(g)
  BY DEF Stored
<1>5. Working(m) /\ Abreast(x, m)
  BY <1>1, TellsAbreast
<1>6. SavedCallOpen(y, Left(y, v))
  <2> SUFFICES ASSUME y.ckpt > 0, v.phase = "fly"
               PROVE  OpenSteps(y) \subseteq {v.step} /\ y.step[v.step] # "NONE"
    BY <1>1 DEF SavedCallOpen
  <2>1. x.ckpt > 0 /\ v.step \in Steps /\ OpenSteps(x) \subseteq {v.step} /\ x.step[v.step] # "NONE"
    BY <1>1 DEF Stored, SavedShape, SavedCallOpen
  <2>2. m.pc # "stepStart"
    BY <1>5, <2>1 DEF Fits, BetweenCalls
  <2>3. OpenSteps(y) \subseteq OpenSteps(x)
    BY <2>2 DEF Tells, StepsMove
  <2> QED BY <2>1, <2>3 DEF Heard
<1>7. WaitsForSaved(y, Left(y, v), g)
  BY DEF WaitsForSaved, Heard, Granted
<1>8. SavedApproval(y, Left(y, v), g)
  BY <1>1 DEF Stored, SavedApproval
<1>9. ClosedWhenCompleted(y)
  <2> SUFFICES ASSUME y.status = "COMPLETED"
               PROVE  OpenSteps(y) = {}
    BY DEF ClosedWhenCompleted
  <2>1. type = "run.completed"
    BY DEF RunMoves
  <2>2. m.pc = "completing" /\ OpenSteps(y) = OpenSteps(x)
    BY <2>1 DEF Tells, StepsMove
  <2>3. OpenSteps(x) \subseteq Known(m) /\ Known(m) = {}
    BY <1>5, <2>2 DEF Fits, KnowsSteps, Known
  <2> QED BY <2>2, <2>3
<1>10. y.ckpt = 0 => Left(y, v) = Fresh
  BY DEF Left
<1> QED BY <1>2, <1>3, <1>4, <1>6, <1>7, <1>8, <1>9, <1>10 DEF Stored

-----------------------------------------------------------------------------
(* Steps of one process on one run.                                         *)

Kept(n) == IF n.pc = "idle" THEN Idle ELSE n
Told(m) == [m EXCEPT !.sent = TRUE]
Acked(m, next) == Kept([next EXCEPT !.seq = m.seq + 1, !.sent = FALSE])
Unsent(failed) == Kept([failed EXCEPT !.sent = FALSE])

\* What a step leaves behind.
HostStep ==
  /\ RecordsShape /\ poll' \in [Runtimes -> {"idle", "expired", "reaped"}]
  /\ mem' \in [Runs -> [Hosts -> Memory]]
  /\ saved' \in [Runs -> KernelState]
  /\ gate' \in [Runs -> Gates]
  /\ \A r \in Runs : Together(r)'

LEMMA HostTypes ==
  ASSUME HostInv, NEW r \in Runs
  PROVE  /\ db[r] \in RunRecord /\ saved[r] \in KernelState /\ gate[r] \in Gates
         /\ \A h \in Hosts : mem[r][h] \in Memory
         /\ mem[r] \in [Hosts -> Memory]
         /\ RunInv(db[r]) /\ db[r].session < nextSession /\ nextSession \in Nat
         /\ Stored(db[r], saved[r], gate[r])
         /\ \A h \in Hosts : Fits(h, db[r], saved[r], gate[r], mem[r][h])
         /\ \A h, k \in Hosts : h # k => Alone(db[r], mem[r][h], mem[r][k])
  BY DEF HostInv, HostTypeOK, TypeOK, Inductive, Together, Gates

LEMMA OthersStay ==
  ASSUME HostInv, NEW q \in Runs, db'[q] = db[q], saved'[q] \in {saved[q], Left(db[q], saved[q])},
         gate'[q] = gate[q], mem'[q] = mem[q]
  PROVE  Together(q)' /\ saved'[q] = saved[q]
<1>1. Together(q) /\ Left(db[q], saved[q]) = saved[q]
  BY HostTypes DEF Left, HostInv, Stored
<1> QED BY <1>1 DEF Together

\* One transaction of process h about run r.
LEMMA Transaction ==
  ASSUME HostInv, NEW r \in Runs, NEW h \in Hosts, NEW y \in RunRecord, NEW w \in KernelState,
         NEW f \in Gates, NEW n \in Memory,
         Put(r, y), RecordStep(db[r], y), y.session = db[r].session, nextSession' = nextSession, poll' = poll,
         mem' = [mem EXCEPT ![r][h] = n], gate' = [gate EXCEPT ![r] = f],
         saved' \in [Runs -> KernelState], saved'[r] = w,
         \A q \in Runs \ {r} : saved'[q] \in {saved[q], Left(db[q], saved[q])},
         Stored(y, w, f), Fits(h, y, w, f, n),
         \A k \in Hosts \ {h} : /\ Fits(k, y, w, f, mem[r][k])
                                /\ Alone(y, n, mem[r][k]) /\ Alone(y, mem[r][k], n),
         \A j, k \in Hosts \ {h} : j # k => Alone(y, mem[r][j], mem[r][k])
  PROVE  HostStep
<1>1. /\ TypeOK /\ mem \in [Runs -> [Hosts -> Memory]] /\ gate \in [Runs -> Gates]
  BY DEF HostInv, HostTypeOK, Gates
<1>2. StepShape
  BY <1>1, PutShape
<1>3. /\ mem' \in [Runs -> [Hosts -> Memory]] /\ gate' \in [Runs -> Gates]
      /\ mem'[r][h] = n /\ \A k \in Hosts \ {h} : mem'[r][k] = mem[r][k]
      /\ gate'[r] = f /\ db'[r] = y
      /\ \A q \in Runs \ {r} : mem'[q] = mem[q] /\ gate'[q] = gate[q] /\ db'[q] = db[q]
  BY <1>1 DEF Put, TypeOK
<1>4. ASSUME NEW q \in Runs \ {r} PROVE Together(q)'
  BY <1>3, OthersStay
<1>5. Together(r)'
  <2>1. Stored(db'[r], saved'[r], gate'[r])
    BY <1>3
  <2>2. ASSUME NEW k \in Hosts PROVE Fits(k, db'[r], saved'[r], gate'[r], mem'[r][k])
    <3>1. CASE k = h
      BY <1>3, <3>1
    <3>2. CASE k # h
      BY <1>3, <3>2
    <3> QED BY <3>1, <3>2
  <2>3. ASSUME NEW j \in Hosts, NEW k \in Hosts, j # k PROVE Alone(db'[r], mem'[r][j], mem'[r][k])
    <3>1. CASE j = h
      BY <1>3, <2>3, <3>1
    <3>2. CASE k = h
      BY <1>3, <2>3, <3>2
    <3>3. CASE j # h /\ k # h
      BY <1>3, <2>3, <3>3
    <3> QED BY <3>1, <3>2, <3>3
  <2> QED BY <2>1, <2>2, <2>3 DEF Together
<1> QED BY <1>2, <1>3, <1>4, <1>5 DEF HostStep, StepShape

\* A step inside the process, or an answer without effect.
LEMMA LocalStep ==
  ASSUME HostInv, NEW r \in Runs, NEW h \in Hosts, NEW n,
         Follows(h, db[r], saved[r], gate[r], mem[r][h], n),
         mem' = [mem EXCEPT ![r][h] = n], UNCHANGED <<db, nextSession, poll, saved, gate>>
  PROVE  HostStep
<1>1. /\ TypeOK /\ saved \in [Runs -> KernelState] /\ gate \in [Runs -> Gates] /\ n \in Memory
  BY DEF HostInv, HostTypeOK, Gates, Follows
<1>2. Put(r, db[r]) /\ gate' = [gate EXCEPT ![r] = gate[r]] /\ RecordStep(db[r], db[r])
  BY <1>1 DEF Put, TypeOK, RecordStep
<1>3. ASSUME NEW k \in Hosts \ {h}
      PROVE  /\ Fits(k, db[r], saved[r], gate[r], mem[r][k])
             /\ Alone(db[r], n, mem[r][k]) /\ Alone(db[r], mem[r][k], n)
  <2>1. /\ Alone(db[r], mem[r][h], mem[r][k]) /\ Alone(db[r], mem[r][k], mem[r][h])
        /\ mem[r][h] \in Memory /\ mem[r][k] \in Memory /\ db[r] \in RunRecord
    BY HostTypes
  <2> QED BY <2>1, HostTypes, AloneFollows
<1>4. \A j, k \in Hosts \ {h} : j # k => Alone(db[r], mem[r][j], mem[r][k])
  BY HostTypes
<1>5. Fits(h, db[r], saved[r], gate[r], n) /\ Stored(db[r], saved[r], gate[r])
  BY HostTypes DEF Follows
<1>6. PICK y \in RunRecord, w \in KernelState, f \in Gates : y = db[r] /\ w = saved[r] /\ f = gate[r]
  BY HostTypes
<1>7. /\ Put(r, y) /\ RecordStep(db[r], y) /\ y.session = db[r].session
      /\ nextSession' = nextSession /\ poll' = poll /\ gate' = [gate EXCEPT ![r] = f]
      /\ saved' \in [Runs -> KernelState] /\ saved'[r] = w
      /\ \A q \in Runs \ {r} : saved'[q] \in {saved[q], Left(db[q], saved[q])}
  BY <1>1, <1>2, <1>6
<1>8. /\ Stored(y, w, f) /\ Fits(h, y, w, f, n)
      /\ \A k \in Hosts \ {h} : /\ Fits(k, y, w, f, mem[r][k])
                                /\ Alone(y, n, mem[r][k]) /\ Alone(y, mem[r][k], n)
      /\ \A j, k \in Hosts \ {h} : j # k => Alone(y, mem[r][j], mem[r][k])
  BY <1>3, <1>4, <1>5, <1>6
<1>9. PICK l \in Memory : l = n
  BY <1>1
<1> QED BY <1>7, <1>8, <1>9, Transaction

LEMMA SameEvent ==
  ASSUME NEW x, NEW type, NEW s, NEW session, NEW a, NEW b, MayIngest(x, type, s, session, a),
         type = "run.resumed" => a = b
  PROVE  /\ MayIngest(x, type, s, session, b) /\ s \in Steps \cup {NoStep}
         /\ EventEffect(x, type, s, session, b) = EventEffect(x, type, s, session, a)
<1>1. MayIngest(x, type, s, session, b)
  BY DEF MayIngest
<1>2. StepFits(x, type, s)
  BY DEF MayIngest
<1>3. s \in Steps \cup {NoStep}
  <2>1. CASE type \in {"step.started", "step.completed", "step.failed"}
    BY <1>2, <2>1 DEF StepFits
  <2>2. CASE type \notin {"step.started", "step.completed", "step.failed"}
    BY <1>2, <2>2 DEF StepFits
  <2> QED BY <2>1, <2>2
<1>4. EventEffect(x, type, s, session, b) = EventEffect(x, type, s, session, a)
  <2>1. CASE type = "run.resumed"
    BY <2>1
  <2>2. CASE type # "run.resumed"
    <3> DEFINE z == [x EXCEPT !.seq = @ + 1]
    <3>1. ASSUME NEW c
          PROVE  EventEffect(x, type, s, session, c) =
                   CASE type = "step.started"   -> [z EXCEPT !.step[s] = "RUNNING"]
                     [] type = "step.completed" -> [z EXCEPT !.step[s] = "COMPLETED"]
                     [] type = "step.failed"    -> [z EXCEPT !.step[s] = "FAILED"]
                     [] type = "run.started"    -> [z EXCEPT !.status = "RUNNING", !.reason = None,
                                                             !.startedBy = session]
                     [] type = "run.paused"     -> [z EXCEPT !.status = EventTarget(type), !.reason = "RUNTIME"]
                     [] type = "other"          -> z
                     [] OTHER                   -> Stop(z, EventTarget(type), "RUNTIME")
      BY <2>2 DEF EventEffect
    <3> QED BY <3>1
  <2> QED BY <2>1, <2>2
<1> QED BY <1>1, <1>3, <1>4

\* RunEvents.emit keeps the invariant when the process rightly goes on, from
\* an event that was recorded as well as from one that was not.
LEMMA EmitKeeps ==
  ASSUME OwnIdentity, KernelEvent \subseteq RuntimeEvents, HostInv, NEW r \in Runs, NEW h \in Hosts,
         NEW type, NEW s, NEW next, NEW failed, Emit(h, r, type, s, next, failed),
         NEW m \in Memory, m = mem[r][h], Tells(m, type, s),
         NEW told, told = Told(m), NEW acked, acked = Acked(m, next),
         \A x \in RunRecord, v \in KernelState, g \in Gates :
           Fits(h, x, v, g, told) => Follows(h, x, v, g, told, acked),
         Follows(h, db[r], saved[r], gate[r], m, Unsent(failed))
  PROVE  HostStep
<1>1. PICK x \in RunRecord, v \in KernelState, g \in Gates :
        /\ x = db[r] /\ v = saved[r] /\ g = gate[r] /\ RunInv(x) /\ x.session < nextSession
        /\ Stored(x, v, g) /\ Fits(h, x, v, g, m)
        /\ \A k \in Hosts : mem[r][k] \in Memory /\ Fits(k, x, v, g, mem[r][k])
        /\ \A j, k \in Hosts : j # k => Alone(x, mem[r][j], mem[r][k])
  BY HostTypes
<1>2. TypeOK /\ saved \in [Runs -> KernelState] /\ gate \in [Runs -> Gates] /\ m.session \in Nat
  BY DEF HostInv, HostTypeOK, Gates, Memory
<1>3. CASE /\ ~m.sent /\ m.seq = db[r].seq
           /\ Ingest(IdentityOf[h], r, type, s, m.session, m.approval)
           /\ Keep(h, r, [next EXCEPT !.seq = m.seq + 1, !.sent = FALSE]) \/ Keep(h, r, told)
           /\ Forget /\ UNCHANGED gate
  <2>1. PICK y : y = Renew(EventEffect(x, type, s, m.session, m.approval))
    OBVIOUS
  <2>2. /\ Owns(IdentityOf[h], r) /\ MayIngest(x, type, s, m.session, m.approval) /\ Put(r, y)
        /\ nextSession' = nextSession /\ poll' = poll
    BY <1>1, <1>3, <2>1 DEF Ingest
  <2>3. type \in KernelEvent
    BY DEF Tells, KernelEvent
  <2>4. y \in RunRecord /\ Heard(x, y) /\ StepsMove(x, y, type, s) /\ RunMoves(y, type)
    BY <1>2, <2>1, <2>2, <2>3, EventHeard
  <2>5. ~m.sent /\ m.seq = x.seq /\ x.status \in ActiveRun /\ Abreast(x, m)
    BY <1>1, <1>3, <2>4, TellsAbreast DEF Heard
  <2>6. type = "run.resumed" => m.approval = x.latest
    BY <1>1, <2>5, ReleaseFound DEF Tells, Fits
  <2>7. RecordStep(x, y)
    <3>1. /\ MayIngest(x, type, s, m.session, x.latest) /\ s \in Steps \cup {NoStep}
          /\ y = Renew(EventEffect(x, type, s, m.session, x.latest))
      BY <2>1, <2>2, <2>6, SameEvent
    <3>2. x.lease # "NONE" /\ type \in RuntimeEvents
      BY <1>1, <2>2, <2>3 DEF Owns
    <3>3. x.latest \in Named(x)
      BY DEF Named, RunRecord
    <3> QED BY <1>2, <3>1, <3>2, <3>3 DEF RecordStep, Request
  <2>8. PICK w \in KernelState : w = Left(y, v)
    <3>1. Fresh \in KernelState
      BY HostAssumption DEF Fresh, KernelState
    <3> QED BY <3>1 DEF Left
  <2>9. Stored(y, w, g)
    BY <1>1, <2>4, <2>5, <2>8, HeardStored
  <2>10. Fits(h, y, w, g, told) /\ told \in Memory
    BY <1>1, <2>4, <2>5, <2>8, SpeakerHears DEF Told
  <2>11. PICK n \in Memory : /\ n \in {told, acked} /\ Fits(h, y, w, g, n) /\ mem' = [mem EXCEPT ![r][h] = n]
    <3>1. Follows(h, y, w, g, told, acked)
      BY <2>4, <2>10
    <3>2. CASE Keep(h, r, told)
      <4>1. Kept(told) = told
        BY DEF Kept, Told, Tells, Memory
      <4> QED BY <2>10, <3>2, <4>1 DEF Keep, Kept
    <3>3. CASE Keep(h, r, [next EXCEPT !.seq = m.seq + 1, !.sent = FALSE])
      BY <3>1, <3>3 DEF Keep, Kept, Acked, Follows
    <3> QED BY <1>3, <3>2, <3>3
  <2>12. ASSUME NEW k \in Hosts \ {h}
         PROVE  /\ Fits(k, y, w, g, mem[r][k])
                /\ Alone(y, n, mem[r][k]) /\ Alone(y, mem[r][k], n)
                /\ \A j \in Hosts : Alone(y, mem[r][k], mem[r][j])
    <3>1. x.runtime = IdentityOf[h]
      BY <1>1, <2>2 DEF Owns
    <3>2. /\ Fits(k, y, w, g, mem[r][k]) /\ ~Current(y, mem[r][k])
          /\ Working(mem[r][k]) => Base(mem[r][k]) < y.seq
      BY <1>1, <2>4, <2>8, <3>1, OthersHear
    <3> QED BY <3>2 DEF Alone
  <2>13. /\ gate' = [gate EXCEPT ![r] = g] /\ saved' \in [Runs -> KernelState] /\ saved'[r] = w
         /\ \A q \in Runs \ {r} : saved'[q] \in {saved[q], Left(db[q], saved[q])}
    <3>1. /\ saved' = [q \in Runs |-> Left(db'[q], saved[q])] /\ gate' = gate
          /\ db'[r] = y /\ \A q \in Runs \ {r} : db'[q] = db[q]
      BY <1>2, <1>3, <2>2 DEF Forget, Left, Put, TypeOK
    <3>2. Fresh \in KernelState
      BY HostAssumption DEF Fresh, KernelState
    <3>3. \A q \in Runs : Left(db'[q], saved[q]) \in KernelState
      BY <1>2, <3>2 DEF Left
    <3> QED BY <1>1, <1>2, <2>8, <3>1, <3>3
  <2>14. Put(r, y) /\ RecordStep(db[r], y) /\ y.session = db[r].session
    BY <1>1, <2>2, <2>4, <2>7 DEF Heard
  <2> QED BY <2>2, <2>4, <2>9, <2>11, <2>12, <2>13, <2>14, Transaction
<1>4. CASE /\ m.sent /\ IngestDuplicate(IdentityOf[h], r)
           /\ Keep(h, r, [next EXCEPT !.seq = m.seq + 1, !.sent = FALSE])
           /\ UNCHANGED <<saved, gate>>
  <2>1. PICK y \in RunRecord : y = Renew(x)
    BY RenewType
  <2>2. /\ Put(r, y) /\ nextSession' = nextSession /\ poll' = poll /\ x.lease # "NONE" /\ x.seq > 0
    BY <1>1, <1>4, <2>1 DEF IngestDuplicate, Owns
  <2>3. Calmly(x, y) /\ y.session = x.session /\ y.ckpt = x.ckpt
    BY <2>1, RenewCalm, RenewSame
  <2>4. RecordStep(x, y)
    BY <2>1, <2>2 DEF RecordStep, Request
  <2>5. Left(y, v) = v
    BY <1>1, <2>3 DEF Left, Stored
  <2>6. Stored(y, v, g)
    BY <1>1, <2>3, <2>5, CalmlyStored DEF Gates
  <2>7. ASSUME NEW k \in Hosts PROVE Fits(k, y, v, g, mem[r][k])
    BY <1>1, <2>3, <2>5, GentlyFits DEF Calmly
  <2>8. told = m
    BY <1>4 DEF Memory, Told
  <2>9. Follows(h, y, v, g, m, acked)
    <3>1. Fits(h, y, v, g, told)
      BY <2>7, <2>8
    <3>2. y \in RunRecord /\ v \in KernelState /\ g \in Gates
      OBVIOUS
    <3>3. Follows(h, y, v, g, told, acked)
      BY <3>1, <3>2
    <3> QED BY <2>8, <3>3
  <2>10. ASSUME NEW j \in Hosts, NEW k \in Hosts, j # k PROVE Alone(y, mem[r][j], mem[r][k])
    BY <1>1, <2>3, <2>10, GentlyAlone DEF Calmly, Fits
  <2>11. ASSUME NEW k \in Hosts \ {h}
         PROVE  /\ Fits(k, y, v, g, mem[r][k])
                /\ Alone(y, acked, mem[r][k]) /\ Alone(y, mem[r][k], acked)
    BY <1>1, <2>7, <2>9, <2>10, AloneFollows
  <2>12. mem' = [mem EXCEPT ![r][h] = acked] /\ gate' = [gate EXCEPT ![r] = g]
    BY <1>1, <1>2, <1>4 DEF Keep, Kept, Acked
  <2>13. acked \in Memory /\ Fits(h, y, v, g, acked)
    BY <2>9 DEF Follows
  <2>14. Put(r, y) /\ RecordStep(db[r], y) /\ y.session = db[r].session
    BY <1>1, <2>2, <2>3, <2>4
  <2>15. /\ saved' \in [Runs -> KernelState] /\ saved'[r] = v
         /\ \A q \in Runs \ {r} : saved'[q] \in {saved[q], Left(db[q], saved[q])}
    BY <1>1, <1>2, <1>4
  <2>16. \A j, k \in Hosts \ {h} : j # k => Alone(y, mem[r][j], mem[r][k])
    BY <2>10
  <2>17. g \in Gates /\ v \in KernelState /\ nextSession' = nextSession /\ poll' = poll
    BY <2>2
  <2>18. PICK n \in Memory : /\ mem' = [mem EXCEPT ![r][h] = n] /\ Fits(h, y, v, g, n)
                             /\ \A k \in Hosts \ {h} : Alone(y, n, mem[r][k]) /\ Alone(y, mem[r][k], n)
    BY <2>11, <2>12, <2>13
  <2> QED BY <2>6, <2>11, <2>12, <2>14, <2>15, <2>16, <2>17, <2>18, Transaction
<1>5. CASE /\ Keep(h, r, [failed EXCEPT !.sent = FALSE])
           /\ UNCHANGED <<db, nextSession, poll, saved, gate>>
  BY <1>1, <1>5, LocalStep DEF Keep, Kept, Unsent
<1> QED BY <1>3, <1>4, <1>5 DEF Emit, Told

-----------------------------------------------------------------------------
(* What becomes of the memory of a process.                                 *)

LEMMA KeptAs ==
  ASSUME NEW n
  PROVE  /\ n.pc # "idle" => Kept(n) = n
         /\ n.pc = "idle" => Kept(n) = Idle
  BY DEF Kept

LEMMA AtPlace ==
  ASSUME NEW m \in Memory, NEW place \in Place, NEW n, n = At(m, place)
  PROVE  /\ n \in Memory /\ n.pc = place /\ n.session = m.session /\ n.seq = m.seq
         /\ n.version = m.version /\ n.sent = m.sent /\ n.aborted = m.aborted
         /\ (n.recovers <=> m.recovers) /\ n.approval = m.approval /\ n.open = m.open
         /\ n.orphans = m.orphans /\ n.work = m.work
  BY DEF At, Memory

LEMMA ToldOnly ==
  ASSUME NEW m \in Memory, NEW told, told = Told(m)
  PROVE  /\ told \in Memory /\ told.pc = m.pc /\ told.session = m.session /\ told.seq = m.seq
         /\ told.version = m.version /\ told.sent /\ (told.recovers <=> m.recovers)
         /\ told.approval = m.approval /\ told.open = m.open /\ told.orphans = m.orphans
         /\ told.work = m.work
  BY DEF Told, Memory

LEMMA AckedOnly ==
  ASSUME NEW m \in Memory, NEW next \in Memory, next.pc # "idle",
         NEW told, told = Told(m), NEW n, n = Acked(m, next)
  PROVE  /\ n \in Memory /\ n.pc = next.pc /\ n.session = next.session
         /\ n.version = next.version /\ ~n.sent /\ (n.recovers <=> next.recovers)
         /\ n.approval = next.approval /\ n.open = next.open /\ n.orphans = next.orphans
         /\ n.work = next.work /\ Base(n) = Base(told) /\ Base(n) <= Base(told)
<1>1. PICK e \in Nat : e = m.seq + 1
  BY DEF Memory
<1>2. PICK l : l = [next EXCEPT !.seq = e, !.sent = FALSE]
  OBVIOUS
<1>3. /\ l \in Memory /\ l.pc = next.pc /\ l.session = next.session /\ l.seq = e
      /\ l.version = next.version /\ ~l.sent /\ (l.recovers <=> next.recovers)
      /\ l.approval = next.approval /\ l.open = next.open /\ l.orphans = next.orphans
      /\ l.work = next.work
  BY <1>2 DEF Memory
<1>4. n = l
  BY <1>1, <1>2, <1>3 DEF Acked, Kept
<1>5. Base(told) = e
  BY <1>1, ToldOnly DEF Base
<1> QED BY <1>3, <1>4, <1>5 DEF Base

LEMMA UnsentOnly ==
  ASSUME NEW failed \in Memory, failed.pc # "idle", NEW n, n = Unsent(failed)
  PROVE  /\ n \in Memory /\ n.pc = failed.pc /\ n.session = failed.session /\ n.seq = failed.seq
         /\ n.version = failed.version /\ ~n.sent /\ n.work = failed.work /\ Base(n) = failed.seq
<1>1. PICK l : l = [failed EXCEPT !.sent = FALSE]
  OBVIOUS
<1>2. /\ l \in Memory /\ l.pc = failed.pc /\ l.session = failed.session /\ l.seq = failed.seq
      /\ l.version = failed.version /\ ~l.sent /\ l.work = failed.work
  BY <1>1 DEF Memory
<1>3. n = l
  BY <1>1, <1>2 DEF Unsent, Kept
<1> QED BY <1>2, <1>3 DEF Base

LEMMA IdleKept ==
  ASSUME NEW m
  PROVE  Kept(Idle) = Idle /\ Unsent(Idle) = Idle /\ Acked(m, Idle) = Idle
  BY DEF Kept, Unsent, Acked, Idle

\* A process that stops, or says that the run failed.
LEMMA FailedFollows ==
  ASSUME NEW h, NEW x \in RunRecord, NEW v, NEW g, NEW m \in Memory, Fits(h, x, v, g, m), Working(m)
  PROVE  /\ Follows(h, x, v, g, m, Unsent(Failed(m)))
         /\ ~m.sent => Follows(h, x, v, g, m, Kept(Failed(m)))
<1>1. CASE m.aborted
  BY <1>1, IdleFollows, IdleKept DEF Failed
<1>2. CASE ~m.aborted
  <2>1. PICK l : l = At(m, "failing")
    OBVIOUS
  <2>2. /\ l \in Memory /\ l.pc = "failing" /\ l.session = m.session /\ l.seq = m.seq
        /\ l.sent = m.sent /\ l.work = m.work
    BY <2>1, AtPlace DEF Place
  <2>3. Failed(m) = l
    BY <1>2, <2>1 DEF Failed
  <2>4. m.seq \in Nat /\ m.seq <= Base(m)
    BY DEF Memory, Base
  <2>5. Follows(h, x, v, g, m, Unsent(l))
    <3>1. PICK n : n = Unsent(l)
      OBVIOUS
    <3>2. /\ n \in Memory /\ n.pc = "failing" /\ n.session = m.session /\ Base(n) = m.seq
          /\ ~n.sent /\ n.work = m.work
      BY <2>2, <3>1, UnsentOnly
    <3> QED BY <2>4, <3>1, <3>2, FailingFollows
  <2>6. ASSUME ~m.sent PROVE Follows(h, x, v, g, m, Kept(l))
    <3>1. Kept(l) = l /\ Base(l) = m.seq
      BY <2>2, <2>6, KeptAs DEF Base
    <3> QED BY <2>2, <2>4, <2>6, <3>1, FailingFollows
  <2> QED BY <2>3, <2>5, <2>6
<1> QED BY <1>1, <1>2

LEMMA LocalKeeps ==
  ASSUME HostInv, NEW r \in Runs, NEW h \in Hosts, NEW n, Local(h, r, n),
         Follows(h, db[r], saved[r], gate[r], mem[r][h], Kept(n))
  PROVE  HostStep
<1>1. mem' = [mem EXCEPT ![r][h] = Kept(n)] /\ UNCHANGED <<db, nextSession, poll, saved, gate>>
  BY DEF Local, Keep, Kept
<1> QED BY <1>1, LocalStep

-----------------------------------------------------------------------------
(* Events, one by one.                                                      *)

LEMMA StartKeeps ==
  ASSUME OwnIdentity, KernelEvent \subseteq RuntimeEvents, HostInv, NEW r \in Runs, NEW h \in Hosts, Start(h, r)
  PROVE  HostStep
<1>1. PICK m \in Memory, place \in {"saveStart", "failing"} :
        /\ m = mem[r][h] /\ m.pc = "start" /\ Emit(h, r, "run.started", NoStep, At(m, place), Idle)
  BY HostTypes DEF Start
<1>2. PICK told, next, acked : told = Told(m) /\ next = At(m, place) /\ acked = Acked(m, next)
  OBVIOUS
<1>3. /\ next \in Memory /\ next.pc = place /\ next.session = m.session /\ next.version = m.version
      /\ next.work = m.work
  BY <1>2, AtPlace DEF Place
<1>4. /\ told \in Memory /\ told.pc = "start" /\ told.session = m.session /\ told.version = m.version
      /\ told.work = m.work /\ Working(told)
  BY <1>1, <1>2, ToldOnly DEF Working
<1>5. /\ acked \in Memory /\ acked.pc = place /\ acked.session = m.session /\ acked.version = m.version
      /\ acked.work = m.work /\ ~acked.sent /\ Base(acked) = Base(told) /\ Base(acked) <= Base(told)
  BY <1>2, <1>3, AckedOnly
<1>6. ASSUME NEW x \in RunRecord, NEW v \in KernelState, NEW g \in Gates, Fits(h, x, v, g, told)
      PROVE  Follows(h, x, v, g, told, acked)
  BY <1>4, <1>5, <1>6, StartFollows, FailingFollows
<1>7. Tells(m, "run.started", NoStep)
  BY <1>1 DEF Tells
<1>8. Follows(h, db[r], saved[r], gate[r], m, Unsent(Idle))
  BY IdleFollows, IdleKept
<1>9. Emit(h, r, "run.started", NoStep, next, Idle)
  BY <1>1, <1>2
<1> QED BY <1>1, <1>2, <1>6, <1>7, <1>8, <1>9, EmitKeeps

LEMMA ResumeKeeps ==
  ASSUME OwnIdentity, KernelEvent \subseteq RuntimeEvents, HostInv, NEW r \in Runs, NEW h \in Hosts, Resume(h, r)
  PROVE  HostStep
<1>1. PICK m \in Memory :
        /\ m = mem[r][h] /\ m.pc = "resumed" 
        /\ Emit(h, r, "run.resumed", NoStep,
                IF m.version = 0 THEN At(m, "failing") ELSE Entered(m), Idle)
  BY HostTypes DEF Resume
<1>2. PICK told, next, acked : /\ told = Told(m) /\ acked = Acked(m, next)
                               /\ next = IF m.version = 0 THEN At(m, "failing") ELSE Entered(m)
  OBVIOUS
<1>3. /\ told \in Memory /\ told.pc = "resumed" /\ told.session = m.session /\ told.version = m.version
      /\ told.work = m.work /\ told.sent /\ (told.recovers <=> m.recovers) /\ told.approval = m.approval
      /\ Working(told) /\ m.version \in Nat
  BY <1>1, <1>2, ToldOnly DEF Working, Memory
<1>4. ASSUME NEW x \in RunRecord, NEW v \in KernelState, NEW g \in Gates, Fits(h, x, v, g, told)
      PROVE  Follows(h, x, v, g, told, acked)
  <2>1. ~m.recovers /\ m.approval # NoApproval
    BY <1>3, <1>4 DEF Fits, MemoryShape
  <2>2. CASE m.version = 0
    <3>1. next = At(m, "failing")
      BY <1>2, <2>2
    <3>2. next \in Memory /\ next.pc = "failing" /\ next.session = m.session /\ next.work = m.work
      BY <3>1, AtPlace DEF Place
    <3>3. /\ acked \in Memory /\ acked.pc = "failing" /\ acked.session = m.session
          /\ acked.work = m.work /\ ~acked.sent /\ Base(acked) <= Base(told)
      BY <1>2, <3>2, AckedOnly
    <3> QED BY <1>3, <1>4, <3>3, FailingFollows
  <2>3. CASE m.version > 0
    <3>1. m.work.phase = "fly" /\ m.work.approval \in {NoApproval, m.approval}
      BY <1>3, <1>4, <2>3 DEF Fits, FindsCall
    <3>2. CASE m.aborted
      <4>1. next = Idle
        BY <1>2, <2>3, <3>1, <3>2 DEF Entered
      <4> QED BY <1>2, <4>1, IdleKept, IdleFollows
    <3>3. CASE ~m.aborted
      <4>1. PICK place \in {"ask", "act"} : next = At(m, place) /\ (place = "ask" => m.work.approval = NoApproval)
        BY <1>2, <2>1, <2>3, <3>1, <3>3 DEF Entered
      <4>2. /\ next \in Memory /\ next.pc = place /\ next.session = m.session /\ next.version = m.version
            /\ next.work = m.work
        BY <4>1, AtPlace DEF Place
      <4>3. /\ acked \in Memory /\ acked.pc = place /\ acked.session = m.session /\ acked.version = m.version
            /\ acked.work = m.work /\ ~acked.sent /\ Base(acked) = Base(told)
        BY <1>2, <4>2, AckedOnly
      <4> QED BY <1>3, <1>4, <2>3, <3>1, <4>1, <4>3, EntersCall
    <3> QED BY <3>2, <3>3
  <2> QED BY <1>3, <2>2, <2>3
<1>5. Tells(m, "run.resumed", NoStep) /\ Emit(h, r, "run.resumed", NoStep, next, Idle)
  BY <1>1, <1>2 DEF Tells
<1>6. Follows(h, db[r], saved[r], gate[r], m, Unsent(Idle))
  BY IdleFollows, IdleKept
<1> QED BY <1>1, <1>2, <1>4, <1>5, <1>6, EmitKeeps

\* Where a recovering process goes on once no step is left that nobody
\* accounts for.
LEMMA EnteredFollows ==
  ASSUME NEW h, NEW x \in RunRecord, NEW v, NEW g, NEW m \in Memory, Fits(h, x, v, g, m),
         m.pc = "orphans", m.orphans = {}
  PROVE  Follows(h, x, v, g, m, Kept(Entered(m)))
<1>1. /\ m.recovers /\ m.approval = NoApproval /\ m.version > 0 /\ SavedShape(m.work) /\ ~m.sent
      /\ Working(m) /\ m.work \in KernelState
  BY DEF Fits, MemoryShape, Working, Memory
<1>2. CASE m.aborted
  <2>1. Entered(m) = Idle
    BY <1>1, <1>2 DEF Entered
  <2> QED BY <2>1, IdleKept, IdleFollows
<1>3. CASE ~m.aborted /\ m.work.phase # "fly"
  <2>1. PICK n : n = Onwards(m, m.work.phase)
    OBVIOUS
  <2>2. Entered(m) = n /\ m.work.phase \in {"model", "tool"}
    BY <1>1, <1>3, <2>1 DEF Entered, KernelState
  <2>3. PICK l : l = At(m, m.work.phase)
    OBVIOUS
  <2>4. /\ l \in Memory /\ l.pc = m.work.phase /\ l.session = m.session /\ l.seq = m.seq
        /\ l.version = m.version /\ l.sent = m.sent /\ l.work = m.work
    BY <2>2, <2>3, AtPlace DEF Place
  <2>5. n = [l EXCEPT !.recovers = FALSE, !.approval = NoApproval, !.open = {}]
    BY <2>1, <2>3 DEF Onwards
  <2>6. /\ n \in Memory /\ n.pc = m.work.phase /\ n.session = m.session /\ n.seq = m.seq
        /\ n.version = m.version /\ ~n.sent /\ n.work = m.work
    BY <1>1, <2>4, <2>5 DEF Memory
  <2>7. Base(n) = Base(m) /\ ~StartedStep(n) /\ ~InFlight(n)
    BY <1>1, <2>2, <2>6 DEF Base, StartedStep, InFlight, Flying
  <2>8. MemoryShape(n)
    BY <1>1, <2>2, <2>6 DEF MemoryShape, SavedShape, InCall, Flying
  <2>9. Abreast(x, m) => OpenSteps(x) \subseteq Known(n)
    <3> SUFFICES ASSUME Abreast(x, m) PROVE OpenSteps(x) = {}
      BY <2>2, <2>6 DEF Known
    <3>1. OpenSteps(x) \subseteq Known(m) /\ Known(m) = {m.work.step}
      BY <1>1 DEF Fits, KnowsSteps, Known
    <3>2. m.work.step = NoStep
      BY <1>1, <2>2 DEF SavedShape, WorkShape
    <3> QED BY <3>1, <3>2, TransportAssumption DEF OpenSteps
  <2>10. KnowsCheckpoint(x, v, n)
    <3> SUFFICES ASSUME Current(x, n), n.version = x.ckpt, x.ckpt > 0
                 PROVE  v = m.work
      BY <2>2, <2>6 DEF KnowsCheckpoint, Flying
    <3>1. Current(x, m)
      BY <1>1, <2>6 DEF Current
    <3> QED BY <2>6, <3>1 DEF Fits, KnowsCheckpoint
  <2>11. CallAccounted(x, v, g, n) /\ KnowsDecision(g, n)
    BY <2>2, <2>6, <2>7 DEF CallAccounted, KnowsDecision
  <2>12. BetweenCalls(x, v, n)
    <3> SUFFICES ASSUME Abreast(x, n), x.ckpt > 0 PROVE v.phase # "fly"
      BY DEF BetweenCalls
    <3>1. Abreast(x, m)
      BY <1>1, <2>7 DEF Abreast
    <3> QED BY <1>3, <3>1 DEF Fits, BetweenCalls
  <2>13. Follows(h, x, v, g, m, n)
    BY <1>1, <2>2, <2>6, <2>7, <2>8, <2>9, <2>10, <2>11, <2>12, MovesOn
  <2>14. Kept(n) = n
    BY <2>2, <2>6, KeptAs
  <2> QED BY <2>2, <2>13, <2>14
<1>4. CASE ~m.aborted /\ m.work.phase = "fly"
  <2>1. PICK place \in {"ask", "act", "saveResult"} :
          /\ Entered(m) = At(m, place) /\ (place = "ask" => m.work.approval = NoApproval)
          /\ place = "saveResult" => m.work.step \notin m.open
    BY <1>1, <1>4 DEF Entered
  <2>2. PICK n : n = At(m, place)
    OBVIOUS
  <2>3. /\ n \in Memory /\ n.pc = place /\ n.session = m.session /\ n.version = m.version /\ n.seq = m.seq
        /\ ~n.sent /\ n.work = m.work
    BY <1>1, <2>2, AtPlace DEF Place
  <2>4. Base(n) = Base(m)
    BY <1>1, <2>3 DEF Base
  <2>5. Kept(n) = n
    BY <2>3, KeptAs
  <2>6. Follows(h, x, v, g, m, n)
    BY <1>1, <1>4, <2>1, <2>3, <2>4, EntersCall
  <2> QED BY <2>1, <2>2, <2>5, <2>6
<1> QED BY <1>2, <1>3, <1>4

LEMMA FailOrphanKeeps ==
  ASSUME OwnIdentity, KernelEvent \subseteq RuntimeEvents, HostInv, NEW r \in Runs, NEW h \in Hosts, FailOrphan(h, r)
  PROVE  HostStep
<1>1. PICK m \in Memory : m = mem[r][h] /\ m.pc = "orphans" /\ Fits(h, db[r], saved[r], gate[r], m)
  BY HostTypes DEF FailOrphan
<1>2. CASE m.orphans = {} /\ Local(h, r, Entered(m))
  <2>1. Follows(h, db[r], saved[r], gate[r], m, Kept(Entered(m)))
    BY <1>1, <1>2, EnteredFollows, HostTypes
  <2> QED BY <1>1, <1>2, <2>1, LocalKeeps
<1>3. ASSUME m.orphans # {}, NEW s, s = CHOOSE p \in m.orphans : TRUE,
             Emit(h, r, "step.failed", s, [m EXCEPT !.orphans = @ \ {s}], Idle)
      PROVE  HostStep
  <2>1. PICK next : next = [m EXCEPT !.orphans = @ \ {s}]
    OBVIOUS
  <2>0. PICK told, acked : told = Told(m) /\ acked = Acked(m, next)
    OBVIOUS
  <2>2. /\ next \in Memory /\ next.pc = "orphans" /\ next.session = m.session /\ next.version = m.version
        /\ next.work = m.work /\ next.orphans = m.orphans \ {s} /\ (next.recovers <=> m.recovers)
        /\ next.approval = m.approval /\ next.open = m.open
    BY <1>1, <2>1 DEF Memory
  <2>3. /\ told \in Memory /\ told.pc = "orphans" /\ told.session = m.session /\ told.version = m.version
        /\ told.work = m.work /\ told.sent /\ told.orphans = m.orphans /\ (told.recovers <=> m.recovers)
        /\ told.approval = m.approval /\ told.open = m.open
    BY <1>1, <2>0, ToldOnly
  <2>4. /\ acked \in Memory /\ acked.pc = "orphans" /\ acked.session = m.session /\ acked.version = m.version
        /\ acked.work = m.work /\ ~acked.sent /\ Base(acked) = Base(told) /\ acked.orphans = next.orphans
        /\ (acked.recovers <=> next.recovers) /\ acked.approval = m.approval /\ acked.open = m.open
    BY <2>2, <2>0, AckedOnly
  <2>5. acked.orphans = told.orphans \ {CHOOSE p \in told.orphans : TRUE} /\ (acked.recovers <=> told.recovers)
    BY <1>3, <2>2, <2>3, <2>4
  <2>6. ASSUME NEW x \in RunRecord, NEW v \in KernelState, NEW g \in Gates, Fits(h, x, v, g, told)
        PROVE  Follows(h, x, v, g, told, acked)
    BY <2>3, <2>4, <2>5, <2>6, OrphanFollows
  <2>7. Tells(m, "step.failed", s)
    BY <1>1, <1>3 DEF Tells
  <2>8. Follows(h, db[r], saved[r], gate[r], m, Unsent(Idle))
    BY IdleFollows, IdleKept
  <2>9. Emit(h, r, "step.failed", s, next, Idle)
    BY <1>3, <2>1
  <2> QED BY <1>1, <2>0, <2>6, <2>7, <2>8, <2>9, EmitKeeps
<1> QED BY <1>1, <1>2, <1>3 DEF FailOrphan

LEMMA StartStepKeeps ==
  ASSUME OwnIdentity, KernelEvent \subseteq RuntimeEvents, HostInv, NEW r \in Runs, NEW h \in Hosts, StartStep(h, r)
  PROVE  HostStep
<1>1. PICK m \in Memory : m = mem[r][h] /\ m.pc = "stepStart" /\ Fits(h, db[r], saved[r], gate[r], m)
  BY HostTypes DEF StartStep
<1>2. PICK next : /\ Emit(h, r, "step.started", m.work.step, next, Failed(m))
                  /\ \/ next = [At(m, "saveFly") EXCEPT !.work.phase = "fly"]
                     \/ next = At(m, "stepFail")
  BY <1>1 DEF StartStep
<1>3. PICK told, acked : told = Told(m) /\ acked = Acked(m, next)
  OBVIOUS
<1>4. /\ next \in Memory /\ next.session = m.session /\ next.version = m.version
      /\ \/ next.pc = "saveFly" /\ next.work = [m.work EXCEPT !.phase = "fly"]
         \/ next.pc = "stepFail" /\ next.work = m.work
  <2>1. CASE next = At(m, "stepFail")
    BY <2>1, AtPlace DEF Place
  <2>2. CASE next = [At(m, "saveFly") EXCEPT !.work.phase = "fly"]
    <3>1. PICK l : l = At(m, "saveFly")
      OBVIOUS
    <3>2. l \in Memory /\ l.pc = "saveFly" /\ l.session = m.session /\ l.version = m.version /\ l.work = m.work
      BY <3>1, AtPlace DEF Place
    <3>3. next = [l EXCEPT !.work = [l.work EXCEPT !.phase = "fly"]]
      BY <2>2, <3>1, <3>2 DEF Memory
    <3>4. [l.work EXCEPT !.phase = "fly"] \in KernelState
      BY <3>2 DEF Memory, KernelState
    <3> QED BY <3>2, <3>3, <3>4 DEF Memory
  <2> QED BY <1>2, <2>1, <2>2
<1>5. /\ told \in Memory /\ told.pc = "stepStart" /\ told.session = m.session /\ told.version = m.version
      /\ told.work = m.work /\ told.sent
  BY <1>1, <1>3, ToldOnly
<1>6. /\ acked \in Memory /\ acked.pc = next.pc /\ acked.session = m.session /\ acked.version = m.version
      /\ acked.work = next.work /\ ~acked.sent /\ Base(acked) = Base(told)
  BY <1>3, <1>4, AckedOnly
<1>7. ASSUME NEW x \in RunRecord, NEW v \in KernelState, NEW g \in Gates, Fits(h, x, v, g, told)
      PROVE  Follows(h, x, v, g, told, acked)
  BY <1>4, <1>5, <1>6, <1>7, StepFollows
<1>8. Tells(m, "step.started", m.work.step) /\ Working(m)
  BY <1>1 DEF Tells, Working
<1>9. Follows(h, db[r], saved[r], gate[r], m, Unsent(Failed(m)))
  BY <1>1, <1>8, FailedFollows, HostTypes
<1> QED BY <1>1, <1>2, <1>3, <1>7, <1>8, <1>9, EmitKeeps

\* Both ends of a tool call's step.
LEMMA EndKeeps ==
  ASSUME OwnIdentity, KernelEvent \subseteq RuntimeEvents, HostInv, NEW r \in Runs, NEW h \in Hosts,
         NEW m \in Memory, m = mem[r][h], NEW type, NEW failed,
         \/ m.pc = "stepDone" /\ type = "step.completed"
         \/ m.pc = "stepFail" /\ type = "step.failed",
         Emit(h, r, type, m.work.step, At(m, "saveResult"), failed),
         Follows(h, db[r], saved[r], gate[r], m, Unsent(failed))
  PROVE  HostStep
<1>1. PICK next : next = At(m, "saveResult")
  OBVIOUS
<1>2. PICK told, acked : told = Told(m) /\ acked = Acked(m, next)
  OBVIOUS
<1>3. /\ next \in Memory /\ next.pc = "saveResult" /\ next.session = m.session /\ next.version = m.version
      /\ next.work = m.work
  BY <1>1, AtPlace DEF Place
<1>4. /\ told \in Memory /\ told.pc = m.pc /\ told.session = m.session /\ told.version = m.version
      /\ told.work = m.work /\ told.sent
  BY <1>2, ToldOnly
<1>5. /\ acked \in Memory /\ acked.pc = "saveResult" /\ acked.session = m.session /\ acked.version = m.version
      /\ acked.work = m.work /\ ~acked.sent /\ Base(acked) = Base(told)
  BY <1>2, <1>3, AckedOnly
<1>6. ASSUME NEW x \in RunRecord, NEW v \in KernelState, NEW g \in Gates, Fits(h, x, v, g, told)
      PROVE  Follows(h, x, v, g, told, acked)
  BY <1>4, <1>5, <1>6, EndFollows
<1>7. Tells(m, type, m.work.step)
  BY DEF Tells
<1>8. Emit(h, r, type, m.work.step, next, failed)
  BY <1>1
<1> QED BY <1>2, <1>6, <1>7, <1>8, EmitKeeps

LEMMA FinishStepKeeps ==
  ASSUME OwnIdentity, KernelEvent \subseteq RuntimeEvents, HostInv, NEW r \in Runs, NEW h \in Hosts, FinishStep(h, r)
  PROVE  HostStep
<1>0. PICK m \in Memory : m = mem[r][h] /\ m.pc = "stepDone" /\ Fits(h, db[r], saved[r], gate[r], m)
  BY HostTypes DEF FinishStep
<1>1. PICK failed : /\ failed = IF m.aborted THEN Idle ELSE At(m, "stepFail")
                    /\ Emit(h, r, "step.completed", m.work.step, At(m, "saveResult"), failed)
  BY <1>0 DEF FinishStep
<1>2. CASE m.aborted
  <2>1. Follows(h, db[r], saved[r], gate[r], m, Unsent(failed))
    BY <1>1, <1>2, IdleFollows, IdleKept
  <2> QED BY <1>0, <1>1, <2>1, EndKeeps
<1>3. CASE ~m.aborted
  <2>1. failed = At(m, "stepFail")
    BY <1>1, <1>3
  <2>2. /\ failed \in Memory /\ failed.pc = "stepFail" /\ failed.session = m.session /\ failed.seq = m.seq
        /\ failed.version = m.version /\ failed.work = m.work
    BY <2>1, AtPlace DEF Place
  <2>3. PICK n : n = Unsent(failed)
    OBVIOUS
  <2>4. /\ n \in Memory /\ n.pc = "stepFail" /\ n.session = m.session /\ n.seq = m.seq
        /\ n.version = m.version /\ ~n.sent /\ n.work = m.work
    BY <2>2, <2>3, UnsentOnly
  <2>5. Follows(h, db[r], saved[r], gate[r], m, n)
    BY <1>0, <2>4, StepFailFollows, HostTypes
  <2> QED BY <1>0, <1>1, <2>3, <2>5, EndKeeps
<1> QED BY <1>2, <1>3

LEMMA FailStepKeeps ==
  ASSUME OwnIdentity, KernelEvent \subseteq RuntimeEvents, HostInv, NEW r \in Runs, NEW h \in Hosts, FailStep(h, r)
  PROVE  HostStep
<1>1. PICK m \in Memory :
        /\ m = mem[r][h] /\ m.pc = "stepFail" /\ Fits(h, db[r], saved[r], gate[r], m)
        /\ Emit(h, r, "step.failed", m.work.step, At(m, "saveResult"), Failed(m))
  BY HostTypes DEF FailStep
<1>2. Working(m)
  BY <1>1 DEF Working
<1>3. Follows(h, db[r], saved[r], gate[r], m, Unsent(Failed(m)))
  BY <1>1, <1>2, FailedFollows, HostTypes
<1> QED BY <1>1, <1>3, EndKeeps

LEMMA FinishKeeps ==
  ASSUME OwnIdentity, KernelEvent \subseteq RuntimeEvents, HostInv, NEW r \in Runs, NEW h \in Hosts, Finish(h, r)
  PROVE  HostStep
<1>0. PICK m \in Memory : m = mem[r][h]
  BY HostTypes
<1>1. PICK type : /\ Emit(h, r, type, NoStep, Idle, Idle)
                  /\ \/ m.pc = "completing" /\ type = "run.completed"
                     \/ m.pc \in {"failing", "mismatch"} /\ type = "run.failed"
  BY <1>0 DEF Finish
<1>2. PICK told, acked : told = Told(m) /\ acked = Acked(m, Idle)
  OBVIOUS
<1>3. acked = Idle
  BY <1>2, IdleKept
<1>4. ASSUME NEW x \in RunRecord, NEW v \in KernelState, NEW g \in Gates, Fits(h, x, v, g, told)
      PROVE  Follows(h, x, v, g, told, acked)
  BY <1>3, IdleFollows
<1>5. Tells(m, type, NoStep)
  BY <1>1 DEF Tells
<1>6. Follows(h, db[r], saved[r], gate[r], m, Unsent(Idle))
  BY IdleFollows, IdleKept
<1> QED BY <1>0, <1>1, <1>2, <1>4, <1>5, <1>6, EmitKeeps

-----------------------------------------------------------------------------
(* Steps inside a process.                                                  *)

LEMMA LoadedFollows ==
  ASSUME NEW h, NEW x \in RunRecord, NEW v \in KernelState, NEW g, NEW m \in Memory, Fits(h, x, v, g, m),
         Stored(x, v, g), m.pc = "load", x.ckpt > 0, NEW n,
         n = At([m EXCEPT !.version = x.ckpt, !.work = v, !.orphans = m.open \ {v.step}],
                IF m.approval # NoApproval THEN "resumed" ELSE "orphans")
  PROVE  Follows(h, x, v, g, m, n)
<1>1. /\ m.version = 0 /\ (m.recovers <=> m.approval = NoApproval) /\ ~m.sent /\ Working(m) /\ SavedShape(v)
  BY DEF Fits, MemoryShape, Telling, Working, Stored
<1>2. PICK l : l = [m EXCEPT !.version = x.ckpt, !.work = v, !.orphans = m.open \ {v.step}]
  OBVIOUS
<1>3. /\ l \in Memory /\ l.session = m.session /\ l.seq = m.seq /\ l.version = x.ckpt
      /\ l.sent = m.sent /\ (l.recovers <=> m.recovers) /\ l.approval = m.approval /\ l.open = m.open
      /\ l.orphans = m.open \ {v.step} /\ l.work = v
  BY <1>2 DEF Memory, RunRecord
<1>4. PICK place \in {"resumed", "orphans"} : /\ n = At(l, place)
                                              /\ place = "resumed" <=> m.approval # NoApproval
  BY <1>2
<1>5. /\ n \in Memory /\ n.pc = place /\ n.session = m.session /\ n.seq = m.seq /\ n.version = x.ckpt
      /\ ~n.sent /\ (n.recovers <=> m.recovers) /\ n.approval = m.approval /\ n.open = m.open
      /\ n.orphans = m.open \ {v.step} /\ n.work = v
  BY <1>1, <1>3, <1>4, AtPlace DEF Place
<1>6. Base(n) = Base(m) /\ Base(m) \in Nat /\ Working(n) /\ ~StartedStep(n)
  BY <1>1, <1>5 DEF Base, Working, StartedStep, Memory
<1>7. Current(x, n) = Current(x, m) /\ Abreast(x, n) = Abreast(x, m)
  BY <1>1, <1>5, <1>6 DEF Current, Abreast
<1>8. MemoryShape(n)
  BY <1>1, <1>4, <1>5 DEF MemoryShape, SavedShape, InCall, Flying
<1>9. FindsCall(n) /\ HoldsLease(h, x, n) /\ InStep(x, n) /\ KnowsDecision(g, n)
  BY <1>1, <1>4, <1>5, <1>6, <1>7 DEF Fits, FindsCall, HoldsLease, InStep, KnowsDecision
<1>10. ASSUME Abreast(x, m), place = "resumed"
       PROVE  Granted(x) /\ m.approval = x.latest /\ v.phase = "fly" /\ OpenSteps(x) \subseteq {v.step}
  <2>1. Granted(x) /\ m.approval = x.latest
    BY <1>1, <1>4, <1>10 DEF Fits, KnowsRelease
  <2>2. v.phase = "fly"
    BY <2>1 DEF Stored, WaitsForSaved
  <2> QED BY <2>1, <2>2 DEF Stored, SavedCallOpen
<1>11. KnowsSteps(x, n)
  <2> SUFFICES ASSUME Abreast(x, m)
               PROVE  /\ OpenSteps(x) \subseteq Known(n)
                      /\ n.recovers /\ n.pc \in {"load", "orphans"} => OpenSteps(x) \subseteq n.open
    BY <1>7 DEF KnowsSteps
  <2>1. m.recovers => OpenSteps(x) \subseteq m.open
    BY DEF Fits, KnowsSteps
  <2>2. CASE place = "resumed"
    <3>1. Known(n) = {v.step}
      BY <1>5, <2>2 DEF Known
    <3> QED BY <1>5, <1>10, <2>2, <3>1
  <2>3. CASE place = "orphans"
    <3>1. Known(n) = {v.step} \cup (m.open \ {v.step})
      BY <1>5, <2>3 DEF Known
    <3> QED BY <1>1, <1>4, <1>5, <2>1, <2>3, <3>1
  <2> QED BY <2>2, <2>3
<1>12. KnowsRelease(x, v, n)
  BY <1>4, <1>5, <1>7, <1>10 DEF KnowsRelease
<1>13. KnowsCheckpoint(x, v, n)
  BY <1>4, <1>5 DEF KnowsCheckpoint, Flying
<1>14. CallAccounted(x, v, g, n)
  <2>1. v.call \in Nat /\ ~(v.call < v.call)
    BY HostAssumption DEF KernelState
  <2>2. InFlight(n) => v.phase = "fly"
    BY <1>4, <1>5 DEF InFlight, Flying
  <2>3. v.phase = "fly" => SameCall(v, v) /\ x.step[v.step] # "NONE"
    BY DEF SameCall, Stored, SavedCallOpen
  <2> QED BY <1>4, <1>5, <1>6, <2>1, <2>2, <2>3 DEF CallAccounted
<1>15. BetweenCalls(x, v, n)
  BY <1>4, <1>5 DEF BetweenCalls
<1> QED BY <1>1, <1>5, <1>6, <1>8, <1>9, <1>11, <1>12, <1>13, <1>14, <1>15 DEF Fits, Follows

\* run.resume without a checkpoint: the process says so, and fails the run.
LEMMA UnloadedFollows ==
  ASSUME NEW h, NEW x \in RunRecord, NEW v, NEW g, NEW m \in Memory, Fits(h, x, v, g, m),
         m.pc = "load", m.approval # NoApproval, NEW n, n = [At(m, "resumed") EXCEPT !.work = Fresh]
  PROVE  Follows(h, x, v, g, m, n)
<1>1. m.version = 0 /\ ~m.recovers /\ ~m.sent /\ Working(m)
  BY DEF Fits, MemoryShape, Telling, Working
<1>2. PICK l : l = At(m, "resumed")
  OBVIOUS
<1>3. /\ l \in Memory /\ l.pc = "resumed" /\ l.session = m.session /\ l.seq = m.seq /\ l.version = 0
      /\ ~l.sent /\ ~l.recovers /\ l.approval = m.approval
  BY <1>1, <1>2, AtPlace DEF Place
<1>4. Fresh \in KernelState /\ Idle.work = Fresh
  BY IdleFits DEF Memory, Idle
<1>5. /\ n \in Memory /\ n.pc = "resumed" /\ n.session = m.session /\ n.seq = m.seq /\ n.version = 0
      /\ ~n.sent /\ ~n.recovers /\ n.approval = m.approval /\ n.work = Fresh
  BY <1>2, <1>3, <1>4 DEF Memory
<1>6. Base(n) = Base(m) /\ Base(m) \in Nat /\ Working(n) /\ ~StartedStep(n) /\ ~InFlight(n)
  BY <1>1, <1>5 DEF Base, Working, StartedStep, InFlight, Flying, Memory
<1>7. Current(x, n) = Current(x, m) /\ Abreast(x, n) = Abreast(x, m)
  BY <1>1, <1>5, <1>6 DEF Current, Abreast
<1>8. MemoryShape(n)
  BY <1>5 DEF MemoryShape, SavedShape, WorkShape, InCall, Flying, Fresh
<1>9. FindsCall(n) /\ HoldsLease(h, x, n) /\ InStep(x, n) /\ KnowsDecision(g, n)
  BY <1>1, <1>5, <1>6, <1>7 DEF Fits, FindsCall, HoldsLease, InStep, KnowsDecision
<1>10. KnowsSteps(x, n) /\ BetweenCalls(x, v, n)
  BY <1>5 DEF KnowsSteps, Known, OpenSteps, BetweenCalls
<1>11. KnowsRelease(x, v, n)
  BY <1>1, <1>5, <1>7 DEF Fits, KnowsRelease
<1>12. KnowsCheckpoint(x, v, n)
  BY <1>5 DEF KnowsCheckpoint
<1>13. CallAccounted(x, v, g, n)
  BY <1>5, <1>6 DEF CallAccounted
<1> QED BY <1>1, <1>5, <1>6, <1>8, <1>9, <1>10, <1>11, <1>12, <1>13 DEF Fits, Follows

LEMMA LoadKeeps ==
  ASSUME HostInv, NEW r \in Runs, NEW h \in Hosts, Load(h, r)
  PROVE  HostStep
<1>1. PICK m \in Memory : m = mem[r][h] /\ m.pc = "load" /\ Fits(h, db[r], saved[r], gate[r], m)
  BY HostTypes DEF Load
<1>2. /\ ~m.sent /\ Working(m) /\ db[r] \in RunRecord /\ saved[r] \in KernelState
      /\ Stored(db[r], saved[r], gate[r])
  BY <1>1, HostTypes DEF Fits, MemoryShape, Telling, Working
<1>3. CASE Local(h, r, Idle)
  BY <1>3, IdleKept, IdleFollows, LocalKeeps
<1>4. CASE m.approval = NoApproval /\ Local(h, r, At(m, "failing"))
  <2>1. PICK n : n = At(m, "failing")
    OBVIOUS
  <2>2. /\ n \in Memory /\ n.pc = "failing" /\ n.session = m.session /\ n.seq = m.seq
        /\ ~n.sent /\ n.work = m.work
    BY <1>2, <2>1, AtPlace DEF Place
  <2>3. Base(n) <= Base(m) /\ Kept(n) = n
    BY <1>2, <2>2, KeptAs DEF Base, Memory
  <2>4. Follows(h, db[r], saved[r], gate[r], m, n)
    BY <1>1, <1>2, <2>2, <2>3, FailingFollows
  <2> QED BY <1>1, <1>4, <2>1, <2>3, <2>4, LocalKeeps
<1>5. CASE m.approval # NoApproval /\ Local(h, r, [At(m, "resumed") EXCEPT !.work = Fresh])
  <2>1. PICK n : n = [At(m, "resumed") EXCEPT !.work = Fresh]
    OBVIOUS
  <2>2. Follows(h, db[r], saved[r], gate[r], m, n)
    BY <1>1, <1>2, <1>5, <2>1, UnloadedFollows
  <2>3. n.pc = "resumed"
    BY <2>1 DEF At, Memory
  <2>4. Kept(n) = n
    BY <2>3, KeptAs
  <2> QED BY <1>1, <1>5, <2>1, <2>2, <2>4, LocalKeeps
<1>6. ASSUME db[r].ckpt > 0, NEW n,
             n = At([m EXCEPT !.version = db[r].ckpt, !.work = saved[r], !.orphans = m.open \ {saved[r].step}],
                    IF m.approval # NoApproval THEN "resumed" ELSE "orphans"),
             Local(h, r, n)
      PROVE  HostStep
  <2>1. Follows(h, db[r], saved[r], gate[r], m, n)
    BY <1>1, <1>2, <1>6, LoadedFollows
  <2>2. n.pc # "idle"
    BY <1>6 DEF At, Memory
  <2>3. Kept(n) = n
    BY <2>2, KeptAs
  <2> QED BY <1>1, <1>6, <2>1, <2>3, LocalKeeps
<1> QED BY <1>1, <1>3, <1>4, <1>5, <1>6 DEF Load

LEMMA TurnFollows ==
  ASSUME NEW h, NEW x \in RunRecord, NEW v, NEW g, NEW m \in Memory, NEW n \in Memory, Fits(h, x, v, g, m),
         m.pc = "model", n.pc \in {"completing", "saveTurn"}, n.session = m.session, n.seq = m.seq,
         n.version = m.version, n.sent <=> m.sent,
         n.work = IF n.pc = "saveTurn" THEN [m.work EXCEPT !.phase = "tool"] ELSE m.work,
         n.pc = "saveTurn" => m.work.call < MaxCalls
  PROVE  Follows(h, x, v, g, m, n)
<1>1. ~m.sent /\ Working(m) /\ m.work.phase = "model" /\ WorkShape(m.work) /\ m.work \in KernelState
  BY DEF Fits, MemoryShape, Telling, Working, Memory
<1>2. /\ n.work.call = m.work.call /\ n.work.step = m.work.step /\ n.work.request = m.work.request
      /\ n.work.approval = m.work.approval
      /\ n.work.phase = IF n.pc = "saveTurn" THEN "tool" ELSE "model"
  BY <1>1 DEF KernelState
<1>3. Base(n) = Base(m) /\ ~StartedStep(n) /\ ~InFlight(n)
  BY <1>1 DEF Base, StartedStep, InFlight, Flying
<1>4. MemoryShape(n)
  BY <1>1, <1>2 DEF MemoryShape, SavedShape, WorkShape, InCall, Flying
<1>5. Abreast(x, m) => OpenSteps(x) \subseteq Known(n)
  BY DEF Fits, KnowsSteps, Known
<1>6. KnowsCheckpoint(x, v, n)
  BY <1>1, <1>2 DEF Fits, KnowsCheckpoint, Flying, Current
<1>7. CallAccounted(x, v, g, n) /\ KnowsDecision(g, n)
  BY <1>3 DEF CallAccounted, KnowsDecision
<1>8. BetweenCalls(x, v, n)
  BY <1>1, <1>3 DEF Fits, BetweenCalls, Abreast
<1> QED BY <1>1, <1>3, <1>4, <1>5, <1>6, <1>7, <1>8, MovesOn

LEMMA ModelTurnKeeps ==
  ASSUME HostInv, NEW r \in Runs, NEW h \in Hosts, ModelTurn(h, r)
  PROVE  HostStep
<1>1. PICK m \in Memory : m = mem[r][h] /\ m.pc = "model" /\ Fits(h, db[r], saved[r], gate[r], m)
  BY HostTypes DEF ModelTurn
<1>2. ~m.sent /\ Working(m) /\ db[r] \in RunRecord
  BY <1>1, HostTypes DEF Fits, MemoryShape, Telling, Working
<1>3. CASE Local(h, r, Idle)
  BY <1>3, IdleKept, IdleFollows, LocalKeeps
<1>4. CASE Local(h, r, At(m, "failing"))
  <2>1. PICK n : n = At(m, "failing")
    OBVIOUS
  <2>2. /\ n \in Memory /\ n.pc = "failing" /\ n.session = m.session /\ n.seq = m.seq
        /\ ~n.sent /\ n.work = m.work
    BY <1>2, <2>1, AtPlace DEF Place
  <2>3. Base(n) <= Base(m) /\ Kept(n) = n
    BY <1>2, <2>2, KeptAs DEF Base, Memory
  <2>4. Follows(h, db[r], saved[r], gate[r], m, n)
    BY <1>1, <1>2, <2>2, <2>3, FailingFollows
  <2> QED BY <1>1, <1>4, <2>1, <2>3, <2>4, LocalKeeps
<1>5. CASE Local(h, r, At(m, "completing"))
  <2>1. PICK n : n = At(m, "completing")
    OBVIOUS
  <2>2. /\ n \in Memory /\ n.pc = "completing" /\ n.session = m.session /\ n.seq = m.seq
        /\ n.version = m.version /\ (n.sent <=> m.sent) /\ n.work = m.work
    BY <2>1, AtPlace DEF Place
  <2>3. Kept(n) = n
    BY <2>2, KeptAs
  <2>4. Follows(h, db[r], saved[r], gate[r], m, n)
    BY <1>1, <1>2, <2>2, TurnFollows
  <2> QED BY <1>1, <1>5, <2>1, <2>3, <2>4, LocalKeeps
<1>6. CASE m.work.call < MaxCalls /\ Local(h, r, [At(m, "saveTurn") EXCEPT !.work.phase = "tool"])
  <2>1. PICK n : n = [At(m, "saveTurn") EXCEPT !.work.phase = "tool"]
    OBVIOUS
  <2>2. PICK l : l = At(m, "saveTurn")
    OBVIOUS
  <2>3. /\ l \in Memory /\ l.pc = "saveTurn" /\ l.session = m.session /\ l.seq = m.seq
        /\ l.version = m.version /\ (l.sent <=> m.sent) /\ l.work = m.work
    BY <2>2, AtPlace DEF Place
  <2>4. n = [l EXCEPT !.work = [l.work EXCEPT !.phase = "tool"]]
    BY <2>1, <2>2, <2>3 DEF Memory
  <2>5. [l.work EXCEPT !.phase = "tool"] \in KernelState
    BY <2>3 DEF Memory, KernelState
  <2>6. /\ n \in Memory /\ n.pc = "saveTurn" /\ n.session = m.session /\ n.seq = m.seq
        /\ n.version = m.version /\ (n.sent <=> m.sent) /\ n.work = [m.work EXCEPT !.phase = "tool"]
    BY <2>3, <2>4, <2>5 DEF Memory
  <2>7. Kept(n) = n
    BY <2>6, KeptAs
  <2>8. Follows(h, db[r], saved[r], gate[r], m, n)
    BY <1>1, <1>2, <1>6, <2>6, TurnFollows
  <2> QED BY <1>1, <1>6, <2>1, <2>7, <2>8, LocalKeeps
<1> QED BY <1>1, <1>3, <1>4, <1>5, <1>6 DEF ModelTurn

LEMMA BeginCallKeeps ==
  ASSUME HostInv, NEW r \in Runs, NEW h \in Hosts, BeginCall(h, r)
  PROVE  HostStep
<1>1. PICK m \in Memory : m = mem[r][h] /\ m.pc = "tool" /\ Fits(h, db[r], saved[r], gate[r], m)
  BY HostTypes DEF BeginCall
<1>2. PICK s \in Steps, q \in Requests :
        Local(h, r, [At(m, "stepStart") EXCEPT !.work.step = s, !.work.request = q])
  BY <1>1 DEF BeginCall
<1>3. PICK n : n = [At(m, "stepStart") EXCEPT !.work.step = s, !.work.request = q]
  OBVIOUS
<1>4. PICK l : l = At(m, "stepStart")
  OBVIOUS
<1>5. /\ l \in Memory /\ l.pc = "stepStart" /\ l.session = m.session /\ l.seq = m.seq
      /\ l.version = m.version /\ (l.sent <=> m.sent) /\ l.work = m.work
  BY <1>4, AtPlace DEF Place
<1>6. PICK w : w = [m.work EXCEPT !.step = s, !.request = q]
  OBVIOUS
<1>7. /\ w \in KernelState /\ w.call = m.work.call /\ w.phase = m.work.phase /\ w.approval = m.work.approval
      /\ w.step = s /\ w.request = q
  BY <1>6 DEF Memory, KernelState
<1>8. n = [l EXCEPT !.work = w]
  BY <1>3, <1>4, <1>5, <1>6 DEF Memory, KernelState
<1>9. /\ n \in Memory /\ n.pc = "stepStart" /\ n.session = m.session /\ n.seq = m.seq
      /\ n.version = m.version /\ (n.sent <=> m.sent) /\ n.work = w
  BY <1>5, <1>7, <1>8 DEF Memory
<1>10. ~m.sent /\ Working(m) /\ m.work.phase = "tool" /\ WorkShape(m.work) /\ db[r] \in RunRecord
  BY <1>1, HostTypes DEF Fits, MemoryShape, Telling, Working
<1>11. Base(n) = Base(m) /\ ~StartedStep(n) /\ ~InFlight(n)
  BY <1>9, <1>10 DEF Base, StartedStep, InFlight, Flying
<1>12. MemoryShape(n)
  BY <1>7, <1>9, <1>10 DEF MemoryShape, WorkShape, InCall, Flying
<1>13. Abreast(db[r], m) => OpenSteps(db[r]) \subseteq Known(n)
  BY <1>1, <1>9, <1>10 DEF Fits, KnowsSteps, Known
<1>14. KnowsCheckpoint(db[r], saved[r], n)
  BY <1>1, <1>7, <1>9, <1>10 DEF Fits, KnowsCheckpoint, Flying, Current
<1>15. CallAccounted(db[r], saved[r], gate[r], n) /\ KnowsDecision(gate[r], n)
  BY <1>9, <1>11 DEF CallAccounted, KnowsDecision
<1>16. BetweenCalls(db[r], saved[r], n)
  BY <1>1, <1>9, <1>10, <1>11 DEF Fits, BetweenCalls, Abreast
<1>17. Follows(h, db[r], saved[r], gate[r], m, n)
  BY <1>1, <1>9, <1>10, <1>11, <1>12, <1>13, <1>14, <1>15, <1>16, MovesOn
<1>18. Kept(n) = n
  BY <1>9, KeptAs
<1> QED BY <1>1, <1>2, <1>3, <1>17, <1>18, LocalKeeps

-----------------------------------------------------------------------------
(* Asking for an action, and performing it.                                 *)

StillDecided(g, f) ==
  \A q \in Requests :
    g[q].decision # "NONE" => f[q].decision = g[q].decision /\ f[q].approval = g[q].approval

LEMMA DecidedFits ==
  ASSUME NEW h, NEW x, NEW v, NEW g, NEW f, StillDecided(g, f), NEW m, Fits(h, x, v, g, m)
  PROVE  Fits(h, x, v, f, m)
<1>1. CallAccounted(x, v, f, m)
  <2>1. InFlight(m) => m.work.request \in Requests
    BY InFlightShape DEF Fits
  <2> QED BY <2>1 DEF Fits, CallAccounted, StillDecided
<1>2. KnowsDecision(f, m)
  <2>1. m.pc \in {"savePause", "saveCarry"} => m.work.request \in Requests
    BY DEF Fits, MemoryShape, InCall, Flying
  <2> QED BY <2>1 DEF Fits, KnowsDecision, StillDecided
<1> QED BY <1>1, <1>2 DEF Fits

\* What a process does with the decision on its request.
LEMMA DecidedFollows ==
  ASSUME NEW h, NEW x \in RunRecord, NEW v, NEW g \in Gates, NEW m \in Memory, Fits(h, x, v, g, m),
         m.pc = "ask", NEW d, d = g[m.work.request], d.decision # "NONE"
  PROVE  Follows(h, x, v, g, m, Kept(Decided(m, d)))
<1>1. /\ ~m.sent /\ Working(m) /\ m.work.phase = "fly" /\ m.work.step \in Steps /\ m.work.request \in Requests
      /\ m.work \in KernelState /\ WorkShape(m.work)
  BY DEF Fits, MemoryShape, Telling, InCall, Flying, Working, Memory
<1>2. d \in Decision
  BY <1>1 DEF Gates
<1>3. CASE d.decision = "DENIED"
  <2>1. Decided(m, d) = At(m, "stepFail")
    BY <1>3 DEF Decided
  <2>2. PICK n : n = At(m, "stepFail")
    OBVIOUS
  <2>3. /\ n \in Memory /\ n.pc = "stepFail" /\ n.session = m.session /\ n.seq = m.seq
        /\ n.version = m.version /\ ~n.sent /\ n.work = m.work
    BY <1>1, <2>2, AtPlace DEF Place
  <2>4. Follows(h, x, v, g, m, n) /\ Kept(n) = n
    BY <2>3, StepFailFollows, KeptAs
  <2> QED BY <2>1, <2>2, <2>4
<1>4. ASSUME NEW n \in Memory, n.pc \in {"act", "saveCarry", "savePause"}, n.session = m.session,
             n.seq = m.seq, n.version = m.version, ~n.sent,
             n.work.call = m.work.call, n.work.phase = "fly", n.work.step = m.work.step,
             n.work.request = m.work.request,
             n.pc # "act" => d.decision = "APPROVAL" /\ n.work.approval = d.approval
      PROVE  Follows(h, x, v, g, m, n)
  <2>1. Base(n) = Base(m) /\ ~StartedStep(n) /\ InFlight(m)
    BY <1>1, <1>4 DEF Base, StartedStep, InFlight, Flying
  <2>2. MemoryShape(n)
    BY <1>1, <1>4 DEF MemoryShape, WorkShape, InCall, Flying
  <2>3. Abreast(x, m) => OpenSteps(x) \subseteq Known(n)
    BY <1>1, <1>4 DEF Fits, KnowsSteps, Known
  <2>4. KnowsCheckpoint(x, v, n)
    BY <1>1, <1>4 DEF Fits, KnowsCheckpoint, Flying, Current, SameCall
  <2>5. CallAccounted(x, v, g, n)
    BY <1>1, <1>4, <2>1 DEF Fits, CallAccounted, SameCall
  <2>6. BetweenCalls(x, v, n)
    BY <1>4 DEF BetweenCalls
  <2>7. KnowsDecision(g, n)
    BY <1>4 DEF KnowsDecision
  <2> QED BY <1>1, <1>4, <2>1, <2>2, <2>3, <2>4, <2>5, <2>6, <2>7, MovesOn
<1>5. CASE d.decision = "ALLOWED"
  <2>1. PICK n : n = At(m, "act")
    OBVIOUS
  <2>2. /\ n \in Memory /\ n.pc = "act" /\ n.session = m.session /\ n.seq = m.seq
        /\ n.version = m.version /\ ~n.sent /\ n.work = m.work
    BY <1>1, <2>1, AtPlace DEF Place
  <2>3. Decided(m, d) = n
    BY <1>5, <2>1 DEF Decided
  <2> QED BY <1>1, <1>4, <2>2, <2>3, KeptAs
<1>6. ASSUME d.decision = "APPROVAL", NEW place \in {"saveCarry", "savePause"},
             NEW n, n = [At(m, place) EXCEPT !.work.approval = d.approval]
      PROVE  Follows(h, x, v, g, m, Kept(n))
  <2>1. PICK l : l = At(m, place)
    OBVIOUS
  <2>2. /\ l \in Memory /\ l.pc = place /\ l.session = m.session /\ l.seq = m.seq
        /\ l.version = m.version /\ ~l.sent /\ l.work = m.work
    BY <1>1, <2>1, AtPlace DEF Place
  <2>3. PICK w : w = [m.work EXCEPT !.approval = d.approval]
    OBVIOUS
  <2>4. /\ w \in KernelState /\ w.call = m.work.call /\ w.phase = "fly" /\ w.step = m.work.step
        /\ w.request = m.work.request /\ w.approval = d.approval
    BY <1>1, <1>2, <2>3 DEF KernelState, Decision
  <2>5. n = [l EXCEPT !.work = w]
    BY <1>6, <2>1, <2>2, <2>3 DEF Memory
  <2>6. /\ n \in Memory /\ n.pc = place /\ n.session = m.session /\ n.seq = m.seq
        /\ n.version = m.version /\ ~n.sent /\ n.work = w
    BY <2>2, <2>4, <2>5 DEF Memory
  <2>7. Follows(h, x, v, g, m, n)
    BY <1>4, <1>6, <2>4, <2>6
  <2> QED BY <1>6, <2>6, <2>7, KeptAs
<1>7. CASE d.decision = "APPROVAL"
  <2>1. \/ Decided(m, d) = Idle
        \/ \E place \in {"saveCarry", "savePause"} :
             Decided(m, d) = [At(m, place) EXCEPT !.work.approval = d.approval]
    BY <1>7 DEF Decided
  <2> QED BY <1>6, <1>7, <2>1, IdleFollows, IdleKept
<1> QED BY <1>2, <1>3, <1>5, <1>7 DEF Decision

LEMMA PausedFacts ==
  ASSUME NEW x \in RunRecord, NEW s \in Steps, NEW a \in Approvals, MayPause(x, s, a), NEW y, y = Paused(x, s, a)
  PROVE  /\ y \in RunRecord /\ y.status = "WAITING_FOR_APPROVAL" /\ y.seq = x.seq /\ y.ckpt = x.ckpt
         /\ y.lease = x.lease /\ y.session = x.session /\ y.runtime = x.runtime
         /\ a \in Pending(y) /\ s \in OpenSteps(y) /\ OpenSteps(y) = OpenSteps(x)
         /\ Gently(x, y)
<1>1. y \in RunRecord
  BY PausedType
<1>2. PICK u \in RunRecord : u = [x EXCEPT !.approval[a] = "PENDING", !.approvalStep[a] = s]
  <2>1. [x EXCEPT !.approval[a] = "PENDING", !.approvalStep[a] = s] \in RunRecord
    BY DEF RunRecord
  <2> QED BY <2>1
<1>3. /\ u.approval[a] = "PENDING" /\ u.seq = x.seq /\ u.ckpt = x.ckpt /\ u.lease = x.lease
      /\ u.session = x.session /\ u.runtime = x.runtime /\ u.step = x.step
  BY <1>2 DEF RunRecord
<1>4. PICK z : z = [u EXCEPT !.step[s] = "WAITING_FOR_APPROVAL",
                             !.status = "WAITING_FOR_APPROVAL", !.reason = "APPROVAL_REQUIRED"]
  OBVIOUS
<1>5. /\ z.status = "WAITING_FOR_APPROVAL" /\ z.approval[a] = "PENDING" /\ z.seq = x.seq /\ z.ckpt = x.ckpt
      /\ z.lease = x.lease /\ z.session = x.session /\ z.runtime = x.runtime
      /\ z.step = [x.step EXCEPT ![s] = "WAITING_FOR_APPROVAL"] /\ z \in RunRecord
  BY <1>3, <1>4 DEF RunRecord, RunStatus, StepStatus, Reason
<1>6. y = Updated(z)
  BY <1>2, <1>4 DEF Paused, RunRecord
<1>7. /\ y.status = "WAITING_FOR_APPROVAL" /\ y.approval[a] = "PENDING" /\ y.seq = x.seq /\ y.ckpt = x.ckpt
      /\ y.lease = x.lease /\ y.session = x.session /\ y.runtime = x.runtime
      /\ y.step = [x.step EXCEPT ![s] = "WAITING_FOR_APPROVAL"]
  BY <1>5, <1>6 DEF Updated, RunRecord
<1>8. x.status = "RUNNING" /\ x.step[s] = "RUNNING" /\ x.step \in [Steps -> StepStatus \cup {"NONE"}]
  BY DEF MayPause, RunRecord
<1>9. y.step[s] = "WAITING_FOR_APPROVAL" /\ \A p \in Steps \ {s} : y.step[p] = x.step[p]
  BY <1>7, <1>8
<1>10. OpenSteps(y) = OpenSteps(x) /\ s \in OpenSteps(y) /\ \A p \in Steps : x.step[p] # "NONE" => y.step[p] # "NONE"
  BY <1>8, <1>9 DEF OpenSteps, OpenStep
<1>11. ~Granted(x) /\ x.session \in Nat /\ x.session <= y.session
  BY <1>7, <1>8 DEF Granted, RunRecord
<1>12. Gently(x, y)
  BY <1>7, <1>8, <1>10, <1>11 DEF Gently, ActiveRun
<1> QED BY <1>1, <1>7, <1>10, <1>12 DEF Pending

\* The asking process and its request, once the request is decided.
LEMMA AskTransaction ==
  ASSUME HostInv, NEW r \in Runs, NEW h \in Hosts, NEW m \in Memory, m = mem[r][h], m.pc = "ask",
         NEW y \in RunRecord, Put(r, y), RecordStep(db[r], y), Gently(db[r], y), y.session = db[r].session,
         y.ckpt = db[r].ckpt, nextSession' = nextSession, poll' = poll, saved' = saved,
         NEW d \in Decision, d.decision # "NONE", gate[r][m.work.request].decision = "NONE",
         NEW f \in Gates, f[m.work.request] = d,
         \A p \in Requests \ {m.work.request} : f[p] = gate[r][p], Stored(y, saved[r], f),
         gate' = [gate EXCEPT ![r] = f],
         Keep(h, r, Decided(m, d)) \/ UNCHANGED mem
  PROVE  HostStep
<1>1. PICK x \in RunRecord, v \in KernelState, g \in Gates :
        /\ x = db[r] /\ v = saved[r] /\ g = gate[r]
        /\ Stored(x, v, g) /\ Fits(h, x, v, g, m)
        /\ \A k \in Hosts : mem[r][k] \in Memory /\ Fits(k, x, v, g, mem[r][k])
        /\ \A j, k \in Hosts : j # k => Alone(x, mem[r][j], mem[r][k])
  BY HostTypes
<1>2. gate \in [Runs -> Gates] /\ saved \in [Runs -> KernelState] /\ mem \in [Runs -> [Hosts -> Memory]]
  BY DEF HostInv, HostTypeOK, Gates
<1>3. m.work.request \in Requests
  BY <1>1 DEF Fits, MemoryShape, InCall, Flying
<1>4. PICK q \in Requests : q = m.work.request
  BY <1>3
<1>6. f[q] = d /\ \A p \in Requests \ {q} : f[p] = g[p]
  BY <1>1, <1>4
<1>7. StillDecided(g, f)
  BY <1>1, <1>4, <1>6 DEF StillDecided
<1>8. Left(y, v) = v
  BY <1>1 DEF Left, Stored
<1>9. ASSUME NEW k \in Hosts PROVE Fits(k, y, v, f, mem[r][k])
  <2>1. Fits(k, y, v, g, mem[r][k])
    BY <1>1, <1>8, GentlyFits
  <2> QED BY <1>7, <2>1, DecidedFits
<1>10. ASSUME NEW j \in Hosts, NEW k \in Hosts, j # k PROVE Alone(y, mem[r][j], mem[r][k])
  BY <1>1, <1>10, GentlyAlone DEF Fits
<1>11. Follows(h, y, v, f, m, Kept(Decided(m, d)))
  BY <1>4, <1>6, <1>9, DecidedFollows
<1>12. Stored(y, v, f)
  BY <1>1
<1>13. /\ gate' = [gate EXCEPT ![r] = f] /\ saved' \in [Runs -> KernelState] /\ saved'[r] = v
       /\ \A p \in Runs \ {r} : saved'[p] \in {saved[p], Left(db[p], saved[p])}
  BY <1>1, <1>2
<1>14. PICK n \in Memory : /\ mem' = [mem EXCEPT ![r][h] = n] /\ Fits(h, y, v, f, n)
                           /\ \A k \in Hosts \ {h} : Alone(y, n, mem[r][k]) /\ Alone(y, mem[r][k], n)
  <2>1. CASE UNCHANGED mem
    <3>1. mem' = [mem EXCEPT ![r][h] = m]
      BY <1>2, <2>1
    <3> QED BY <1>9, <1>10, <3>1
  <2>2. CASE Keep(h, r, Decided(m, d))
    <3>1. PICK n : n = Kept(Decided(m, d))
      OBVIOUS
    <3>2. mem' = [mem EXCEPT ![r][h] = n] /\ n \in Memory /\ Fits(h, y, v, f, n)
      BY <1>11, <2>2, <3>1 DEF Keep, Kept, Follows
    <3>3. \A k \in Hosts \ {h} : Alone(y, n, mem[r][k]) /\ Alone(y, mem[r][k], n)
      BY <1>1, <1>10, <1>11, <3>1, AloneFollows
    <3> QED BY <3>2, <3>3
  <2> QED BY <2>1, <2>2
<1>15. /\ \A k \in Hosts \ {h} : Fits(k, y, v, f, mem[r][k])
       /\ \A j, k \in Hosts \ {h} : j # k => Alone(y, mem[r][j], mem[r][k])
  BY <1>9, <1>10
<1> QED BY <1>12, <1>13, <1>14, <1>15, Transaction

\* While the step of a call runs and its request is undecided, the call is the
\* saved one.
LEMMA UndecidedIsSaved ==
  ASSUME NEW h, NEW x \in RunRecord, NEW v, NEW g, NEW m \in Memory, Fits(h, x, v, g, m), m.pc = "ask",
         x.status = "RUNNING", x.step[m.work.step] = "RUNNING", g[m.work.request].decision = "NONE"
  PROVE  x.ckpt > 0 /\ SameCall(v, m.work)
  BY DEF Fits, CallAccounted, InFlight, Flying, ActiveRun, OpenStep

\* The decision on the saved call's request is stored with the run.
LEMMA DecisionStored ==
  ASSUME NEW x \in RunRecord, NEW y \in RunRecord, NEW v \in KernelState, NEW g \in Gates, NEW w \in KernelState,
         Stored(x, v, g), x.ckpt > 0, SameCall(v, w), w.request \in Requests,
         g[w.request].decision = "NONE", y.ckpt = x.ckpt, OpenSteps(y) = OpenSteps(x),
         \A s \in Steps : x.step[s] # "NONE" => y.step[s] # "NONE",
         NEW d \in Decision, d.call = w.call, d.decision # "NONE",
         y.status \in {"RUNNING", "WAITING_FOR_APPROVAL"},
         y.status = "WAITING_FOR_APPROVAL" =>
           d.decision = "APPROVAL" /\ d.approval \in Pending(y) /\ v.step \in OpenSteps(y),
         NEW f, f = [g EXCEPT ![w.request] = d]
  PROVE  Stored(y, v, f)
<1>1. PICK q \in Requests : q = w.request
  OBVIOUS
<1>2. f[q] = d /\ \A p \in Requests \ {q} : f[p] = g[p]
  BY <1>1 DEF Gates
<1>3. v.phase = "fly" /\ v.call = w.call /\ v.request = q /\ v.call \in Nat
  BY <1>1, HostAssumption DEF SameCall, KernelState
<1>4. ASSUME NEW p \in Requests \ {q}, g[p].decision # "NONE"
      PROVE  g[p].call < v.call
  BY <1>3, <1>4 DEF Stored, RequestsSaved
<1>5. RequestsSaved(y, v, f)
  <2> SUFFICES ASSUME NEW p \in Requests, f[p].decision # "NONE"
               PROVE  f[p].call < v.call \/ (f[p].call = v.call /\ v.phase = "fly" /\ v.request = p)
    BY DEF RequestsSaved, RunRecord
  <2> QED BY <1>2, <1>3, <1>4
<1>6. OneEach(f)
  <2> SUFFICES ASSUME NEW p1 \in Requests, NEW p2 \in Requests, p1 # p2,
                      f[p1].decision # "NONE", f[p2].decision # "NONE"
               PROVE  f[p1].call # f[p2].call
    BY DEF OneEach
  <2>1. \A p \in Requests : g[p].call \in Nat
    BY HostAssumption DEF Gates, Decision
  <2>2. CASE p1 # q /\ p2 # q
    BY <1>2, <2>2 DEF Stored, OneEach
  <2>3. CASE p1 = q
    BY <1>2, <1>3, <1>4, <2>1, <2>3
  <2>4. CASE p2 = q
    BY <1>2, <1>3, <1>4, <2>1, <2>4
  <2> QED BY <2>2, <2>3, <2>4
<1>7. SavedCallOpen(y, v)
  <2>1. v.step \in Steps /\ OpenSteps(x) \subseteq {v.step} /\ x.step[v.step] # "NONE"
    BY <1>3 DEF Stored, SavedShape, SavedCallOpen
  <2> QED BY <2>1 DEF SavedCallOpen
<1>8. WaitsForSaved(y, v, f)
  <2> SUFFICES ASSUME y.status = "WAITING_FOR_APPROVAL" PROVE WaitsForSaved(y, v, f)
    BY DEF WaitsForSaved, Granted
  <2> QED BY <1>2, <1>3 DEF WaitsForSaved, Granted
<1>9. SavedApproval(y, v, f)
  BY <1>1, <1>3 DEF Stored, SavedApproval
<1>10. y.ckpt > 0 /\ y.ckpt # 0 /\ ClosedWhenCompleted(y) /\ SavedShape(v)
  BY DEF ClosedWhenCompleted, Stored
<1> QED BY <1>5, <1>6, <1>7, <1>8, <1>9, <1>10 DEF Stored

LEMMA StaysFollows ==
  ASSUME NEW h, NEW x, NEW v, NEW g, NEW m \in Memory, Fits(h, x, v, g, m)
  PROVE  Follows(h, x, v, g, m, m)
<1>1. Base(m) \in Nat
  BY DEF Base, Memory
<1> QED BY <1>1 DEF Follows

\* Ask: a known request changes nothing at the control plane; a new one is
\* decided there, alone or together with the pause of the run.
LEMMA AskKeeps ==
  ASSUME HostInv, NEW r \in Runs, NEW h \in Hosts, Ask(h, r)
  PROVE  HostStep
<1>1. PICK x \in RunRecord, v \in KernelState, g \in Gates :
        /\ x = db[r] /\ v = saved[r] /\ g = gate[r] /\ RunInv(x) /\ Stored(x, v, g)
  BY HostTypes
<1>2. PICK m \in Memory : m = mem[r][h] /\ Fits(h, x, v, g, m) /\ m.pc = "ask"
  BY <1>1, HostTypes DEF Ask
<1>3. /\ ~m.sent /\ Working(m) /\ m.work.step \in Steps /\ m.work.request \in Requests
      /\ m.work \in KernelState /\ m.work.call \in 0..MaxCalls
  BY <1>2 DEF Fits, MemoryShape, Telling, InCall, Flying, Working, Memory, KernelState
<1>4. PICK q \in Requests, s \in Steps : q = m.work.request /\ s = m.work.step
  BY <1>3
<1>5. ASSUME Local(h, r, Failed(m)) PROVE HostStep
  BY <1>1, <1>2, <1>3, <1>5, FailedFollows, LocalKeeps
<1>6. ASSUME g[q].decision # "NONE", Keep(h, r, Decided(m, g[q])) \/ UNCHANGED mem,
             UNCHANGED <<db, nextSession, poll, saved, gate>>
      PROVE  HostStep
  <2>1. PICK n : n \in {m, Kept(Decided(m, g[q]))} /\ mem' = [mem EXCEPT ![r][h] = n]
    <3>1. CASE UNCHANGED mem
      <4>1. mem' = [mem EXCEPT ![r][h] = m]
        BY <1>2, <3>1 DEF HostInv, HostTypeOK
      <4> QED BY <4>1
    <3>2. CASE Keep(h, r, Decided(m, g[q]))
      BY <3>2 DEF Keep, Kept
    <3> QED BY <1>6, <3>1, <3>2
  <2>2. Follows(h, x, v, g, m, n)
    <3>1. Follows(h, x, v, g, m, Kept(Decided(m, g[q])))
      BY <1>2, <1>4, <1>6, DecidedFollows
    <3>2. Follows(h, x, v, g, m, m)
      BY <1>2, StaysFollows
    <3> QED BY <2>1, <3>1, <3>2
  <2> QED BY <1>1, <1>2, <1>6, <2>1, <2>2, LocalStep
<1>7. ASSUME g[q].decision = "NONE", x.status = "RUNNING", x.step[s] = "RUNNING",
             NEW y \in RunRecord, Put(r, y), RecordStep(x, y), Gently(x, y), y.session = x.session,
             y.ckpt = x.ckpt, OpenSteps(y) = OpenSteps(x), y.status \in {"RUNNING", "WAITING_FOR_APPROVAL"},
             \A p \in Steps : x.step[p] # "NONE" => y.step[p] # "NONE",
             nextSession' = nextSession, poll' = poll, saved' = saved,
             NEW d \in Decision, d.decision # "NONE", d.call = m.work.call,
             y.status = "WAITING_FOR_APPROVAL" =>
               d.decision = "APPROVAL" /\ d.approval \in Pending(y) /\ s \in OpenSteps(y),
             gate' = [gate EXCEPT ![r][q] = d], Keep(h, r, Decided(m, d)) \/ UNCHANGED mem
      PROVE  HostStep
  <2>1. x.ckpt > 0 /\ SameCall(v, m.work) /\ v.step = s
    BY <1>2, <1>4, <1>7, UndecidedIsSaved DEF SameCall
  <2>2. PICK f \in Gates : f = [g EXCEPT ![q] = d]
    BY <1>7 DEF Gates
  <2>3. Stored(y, v, f)
    BY <1>1, <1>3, <1>4, <1>7, <2>1, <2>2, DecisionStored
  <2>4. /\ gate' = [gate EXCEPT ![r] = f] /\ Stored(y, saved[r], f)
        /\ f[m.work.request] = d /\ \A p \in Requests \ {m.work.request} : f[p] = gate[r][p]
    <3>1. gate' = [gate EXCEPT ![r] = f]
      BY <1>1, <1>7, <2>2
    <3>2. f[q] = d /\ \A p \in Requests \ {q} : f[p] = g[p]
      BY <2>2 DEF Gates
    <3> QED BY <1>1, <1>4, <2>3, <3>1, <3>2
  <2>5. /\ m = mem[r][h] /\ m.pc = "ask" /\ RecordStep(db[r], y) /\ Gently(db[r], y)
        /\ y.session = db[r].session /\ y.ckpt = db[r].ckpt
        /\ gate[r][m.work.request].decision = "NONE"
    BY <1>1, <1>2, <1>4, <1>7
  <2>6. /\ y \in RunRecord /\ Put(r, y) /\ nextSession' = nextSession /\ poll' = poll /\ saved' = saved
        /\ d \in Decision /\ d.decision # "NONE" /\ (Keep(h, r, Decided(m, d)) \/ UNCHANGED mem)
    BY <1>7
  <2> QED BY <2>4, <2>5, <2>6, AskTransaction
<1>8. ASSUME g[q].decision = "NONE", StepRuns(IdentityOf[h], r, s), NEW decision \in {"ALLOWED", "DENIED"},
             NEW d, d = [Unasked EXCEPT !.call = m.work.call, !.decision = decision],
             gate' = [gate EXCEPT ![r][q] = d], Keep(h, r, Decided(m, d)) \/ UNCHANGED mem,
             UNCHANGED <<db, nextSession, poll, saved>>
      PROVE  HostStep
  <2>1. d \in Decision /\ d.decision # "NONE" /\ d.call = m.work.call
    BY <1>3, <1>8 DEF Unasked, Decision
  <2>2. x.status = "RUNNING" /\ x.step[s] = "RUNNING"
    BY <1>1, <1>8 DEF StepRuns
  <2>3. Gently(x, x) /\ RecordStep(x, x)
    BY RenewCalm DEF Calmly, RecordStep
  <2>4. Put(r, x)
    BY <1>1, <1>8 DEF Put, HostInv, HostTypeOK, TypeOK
  <2> QED BY <1>7, <1>8, <2>1, <2>2, <2>3, <2>4
<1>9. ASSUME g[q].decision = "NONE", NEW a \in Approvals, PauseForApproval(IdentityOf[h], r, s, a),
             NEW d, d = [Unasked EXCEPT !.call = m.work.call, !.decision = "APPROVAL", !.approval = a],
             gate' = [gate EXCEPT ![r][q] = d], Keep(h, r, Decided(m, d)) \/ UNCHANGED mem,
             UNCHANGED saved
      PROVE  HostStep
  <2>1. d \in Decision /\ d.decision = "APPROVAL" /\ d.call = m.work.call /\ d.approval = a
    BY <1>3, <1>9 DEF Unasked, Decision
  <2>2. PICK y : y = Paused(x, s, a)
    OBVIOUS
  <2>3. /\ MayPause(x, s, a) /\ x.lease # "NONE" /\ Put(r, y) /\ nextSession' = nextSession /\ poll' = poll
        /\ x.status = "RUNNING" /\ x.step[s] = "RUNNING"
    BY <1>1, <1>9, <2>2 DEF PauseForApproval, Owns, MayPause
  <2>4. /\ y \in RunRecord /\ y.status = "WAITING_FOR_APPROVAL" /\ y.ckpt = x.ckpt /\ y.session = x.session
        /\ a \in Pending(y) /\ s \in OpenSteps(y) /\ OpenSteps(y) = OpenSteps(x) /\ Gently(x, y)
    BY <2>2, <2>3, PausedFacts
  <2>5. RecordStep(x, y)
    BY <2>2, <2>3 DEF RecordStep, Request
  <2>6. \A p \in Steps : x.step[p] # "NONE" => y.step[p] # "NONE"
    BY <2>4 DEF Gently
  <2> QED BY <1>7, <1>9, <2>1, <2>3, <2>4, <2>5, <2>6
<1>10. PICK rt : rt = IdentityOf[h]
  OBVIOUS
<1>11. \/ /\ g[q].decision # "NONE"
          /\ Keep(h, r, Decided(m, g[q])) \/ UNCHANGED mem
          /\ UNCHANGED <<db, nextSession, poll, saved, gate>>
       \/ /\ g[q].decision = "NONE" /\ StepRuns(rt, r, s)
          /\ \E decision \in {"ALLOWED", "DENIED"} :
               \E d : /\ d = [Unasked EXCEPT !.call = m.work.call, !.decision = decision]
                      /\ gate' = [gate EXCEPT ![r][q] = d] /\ (Keep(h, r, Decided(m, d)) \/ UNCHANGED mem)
          /\ UNCHANGED <<db, nextSession, poll, saved>>
       \/ /\ g[q].decision = "NONE"
          /\ \E a \in Approvals :
               \E d : /\ d = [Unasked EXCEPT !.call = m.work.call, !.decision = "APPROVAL", !.approval = a]
                      /\ PauseForApproval(rt, r, s, a)
                      /\ gate' = [gate EXCEPT ![r][q] = d] /\ (Keep(h, r, Decided(m, d)) \/ UNCHANGED mem)
          /\ UNCHANGED saved
       \/ Local(h, r, Failed(m))
  BY <1>1, <1>2, <1>4, <1>10 DEF Ask
<1> QED BY <1>5, <1>6, <1>8, <1>9, <1>10, <1>11

\* Act: only what was performed is recorded.
LEMMA PerformedStored ==
  ASSUME NEW x, NEW v \in KernelState, NEW g \in Gates, Stored(x, v, g), NEW q \in Requests,
         NEW f, f = [g EXCEPT ![q].done = TRUE]
  PROVE  f \in Gates /\ Stored(x, v, f) /\ StillDecided(g, f)
<1>1. g[q] \in Decision
  BY DEF Gates
<1>2. PICK d : d = [g[q] EXCEPT !.done = TRUE]
  OBVIOUS
<1>3. d \in Decision /\ d.call = g[q].call /\ d.decision = g[q].decision /\ d.approval = g[q].approval
  BY <1>1, <1>2 DEF Decision
<1>4. f \in Gates /\ f[q] = d /\ \A p \in Requests \ {q} : f[p] = g[p]
  BY <1>2, <1>3 DEF Gates
<1>5. \A p \in Requests : f[p].call = g[p].call /\ f[p].decision = g[p].decision /\ f[p].approval = g[p].approval
  BY <1>3, <1>4
<1>6. RequestsSaved(x, v, f) /\ OneEach(f)
  BY <1>5 DEF Stored, RequestsSaved, OneEach
<1>7. v.phase = "fly" => v.request \in Requests
  BY DEF Stored, SavedShape
<1>8. WaitsForSaved(x, v, f) /\ SavedApproval(x, v, f)
  BY <1>5, <1>7 DEF Stored, WaitsForSaved, SavedApproval
<1> QED BY <1>4, <1>5, <1>6, <1>8 DEF Stored, StillDecided

LEMMA ActKeeps ==
  ASSUME HostInv, NEW r \in Runs, NEW h \in Hosts, Act(h, r)
  PROVE  HostStep
<1>1. PICK x \in RunRecord, v \in KernelState, g \in Gates :
        /\ x = db[r] /\ v = saved[r] /\ g = gate[r] /\ Stored(x, v, g)
        /\ \A k \in Hosts : mem[r][k] \in Memory /\ Fits(k, x, v, g, mem[r][k])
        /\ \A j, k \in Hosts : j # k => Alone(x, mem[r][j], mem[r][k])
  BY HostTypes
<1>2. PICK m \in Memory : m = mem[r][h] /\ Fits(h, x, v, g, m) /\ m.pc = "act"
  BY <1>1 DEF Act
<1>3. /\ ~m.sent /\ Working(m) /\ m.work.step \in Steps /\ m.work.request \in Requests
      /\ m.work \in KernelState /\ m.work.phase = "fly" /\ WorkShape(m.work)
  BY <1>2 DEF Fits, MemoryShape, Telling, InCall, Flying, Working, Memory
<1>4. PICK q \in Requests : q = m.work.request
  BY <1>3
<1>5. PICK l, e : l = At(m, "stepDone") /\ e = At(m, "stepFail")
  OBVIOUS
<1>6. /\ l \in Memory /\ l.pc = "stepDone" /\ l.session = m.session /\ l.seq = m.seq
      /\ l.version = m.version /\ ~l.sent /\ l.work = m.work
  BY <1>3, <1>5, AtPlace DEF Place
<1>7. /\ e \in Memory /\ e.pc = "stepFail" /\ e.session = m.session /\ e.seq = m.seq
      /\ e.version = m.version /\ ~e.sent /\ e.work = m.work
  BY <1>3, <1>5, AtPlace DEF Place
<1>8. CASE Local(h, r, IF m.aborted THEN Idle ELSE e)
  <2>1. Follows(h, x, v, g, m, Kept(IF m.aborted THEN Idle ELSE e))
    <3>1. Follows(h, x, v, g, m, e) /\ Kept(e) = e
      BY <1>2, <1>3, <1>7, StepFailFollows, KeptAs
    <3> QED BY <3>1, <1>2, IdleFollows, IdleKept
  <2> QED BY <1>1, <1>2, <1>8, <2>1, LocalKeeps
<1>9. CASE /\ gate' = [gate EXCEPT ![r][q].done = TRUE]
           /\ Keep(h, r, l) \/ UNCHANGED mem
           /\ UNCHANGED <<db, nextSession, poll, saved>>
  <2>1. PICK f : f = [g EXCEPT ![q].done = TRUE]
    OBVIOUS
  <2>2. f \in Gates /\ Stored(x, v, f) /\ StillDecided(g, f)
    BY <1>1, <2>1, PerformedStored
  <2>3. ASSUME NEW k \in Hosts PROVE Fits(k, x, v, f, mem[r][k])
    BY <1>1, <2>2, DecidedFits
  <2>4. Fits(h, x, v, f, m)
    BY <1>2, <2>3
  <2>5. Follows(h, x, v, f, m, l)
    <3>1. Base(l) = Base(m) /\ ~StartedStep(l) /\ InFlight(m)
      BY <1>2, <1>3, <1>6 DEF Base, StartedStep, InFlight, Flying
    <3>2. MemoryShape(l)
      BY <1>3, <1>6 DEF MemoryShape, WorkShape, InCall, Flying
    <3>3. Abreast(x, m) => OpenSteps(x) \subseteq Known(l)
      BY <1>2, <1>3, <1>6, <2>4 DEF Fits, KnowsSteps, Known
    <3>4. KnowsCheckpoint(x, v, l)
      BY <1>2, <1>6, <2>4 DEF Fits, KnowsCheckpoint, Flying, Current, Working
    <3>5. CallAccounted(x, v, f, l)
      BY <1>6, <2>4, <3>1 DEF Fits, CallAccounted
    <3>6. BetweenCalls(x, v, l) /\ KnowsDecision(f, l)
      BY <1>6 DEF BetweenCalls, KnowsDecision
    <3> QED BY <1>2, <1>3, <1>6, <2>4, <3>1, <3>2, <3>3, <3>4, <3>5, <3>6, MovesOn
  <2>6. Follows(h, x, v, f, m, m)
    BY <2>4, StaysFollows
  <2>7. PICK n : n \in {m, l} /\ mem' = [mem EXCEPT ![r][h] = n]
    <3>1. CASE UNCHANGED mem
      <4>1. mem' = [mem EXCEPT ![r][h] = m]
        BY <1>2, <3>1 DEF HostInv, HostTypeOK
      <4> QED BY <4>1
    <3>2. CASE Keep(h, r, l)
      BY <1>6, <3>2 DEF Keep
    <3> QED BY <1>9, <3>1, <3>2
  <2>8. n \in Memory /\ Follows(h, x, v, f, m, n)
    BY <1>6, <2>5, <2>6, <2>7
  <2>9. ASSUME NEW k \in Hosts \ {h} PROVE Alone(x, n, mem[r][k]) /\ Alone(x, mem[r][k], n)
    BY <1>1, <1>2, <2>8, AloneFollows
  <2>10. Put(r, x) /\ RecordStep(db[r], x) /\ nextSession' = nextSession /\ poll' = poll
    BY <1>1, <1>9 DEF Put, RecordStep, HostInv, HostTypeOK, TypeOK
  <2>11. /\ gate' = [gate EXCEPT ![r] = f] /\ saved' \in [Runs -> KernelState] /\ saved'[r] = v
         /\ \A p \in Runs \ {r} : saved'[p] \in {saved[p], Left(db[p], saved[p])}
    BY <1>1, <1>9, <2>1 DEF HostInv, HostTypeOK
  <2>12. Fits(h, x, v, f, n)
    BY <2>8 DEF Follows
  <2>13. PICK o \in Memory : o = n
    BY <2>8
  <2> QED BY <1>1, <2>2, <2>3, <2>7, <2>9, <2>10, <2>11, <2>12, <2>13, Transaction
<1> QED BY <1>1, <1>2, <1>4, <1>5, <1>8, <1>9 DEF Act

-----------------------------------------------------------------------------
(* Checkpoints.                                                             *)

SavePlaces == {"saveStart", "saveTurn", "saveFly", "savePause", "saveCarry", "saveResult"}

\* The version of its next checkpoint.
NextOf(m) == m.version + 1

\* The kernel state w that m saves goes on from the saved one.
SavesOn(x, v, g, m, w) ==
  /\ w \in KernelState /\ SavedShape(w)
  /\ v.call <= w.call
  /\ v.phase = "fly" => SameCall(w, v) \/ (v.call < w.call /\ v.step \notin OpenSteps(x))
  /\ w.phase = "fly" => /\ OpenSteps(x) \subseteq {w.step} /\ x.step[w.step] # "NONE"
                        /\ StartedStep(m) \/ v.phase = "fly"
  /\ w.phase = "fly" /\ w.approval # NoApproval =>
       g[w.request].decision = "APPROVAL" /\ g[w.request].approval = w.approval
  /\ InFlight(m) => w = m.work
  /\ m.pc = "saveTurn" => w.phase # "fly"

\* The process n after the answer.
GoesOn(m, n, w, version) ==
  \/ n = Idle
  \/ /\ n \in Memory /\ n.pc \in {"model", "tool", "ask", "act"} /\ n.session = m.session /\ n.seq = m.seq
     /\ n.version = version /\ ~n.sent /\ n.work = w /\ MemoryShape(n)
     /\ n.pc \in {"model", "tool"} => Known(m) = {}

\* What a save needs of the record, and does to it.
SaveOf(x, y, m) ==
  /\ x.status \in {"RUNNING", "WAITING_FOR_APPROVAL"} /\ m.session = x.session /\ m.version = x.ckpt
  /\ y.ckpt = x.ckpt + 1 /\ y.status = x.status /\ y.seq = x.seq /\ y.step = x.step
  /\ y.approval = x.approval /\ x.lease # "NONE" /\ y.lease # "NONE"
  /\ y.session = x.session /\ y.runtime = x.runtime

LEMMA SaveFacts ==
  ASSUME NEW x \in RunRecord, NEW m \in Memory, NEW version \in Nat, version = m.version + 1,
         MaySave(x, m.session, version, m.seq), NEW y, y = Saved(x, m.session, version, m.seq)
  PROVE  y \in RunRecord /\ SaveOf(x, y, m) /\ y.ckpt = version /\ RecordStep(x, y)
<1>1. m.session \in Nat /\ m.seq \in Nat /\ m.version \in Nat /\ x.ckpt \in Nat
  BY DEF Memory, RunRecord
<1>2. /\ x.lease = "ACTIVE" /\ x.status \in {"RUNNING", "WAITING_FOR_APPROVAL"} /\ m.session = x.session
      /\ version = x.ckpt + 1
  BY DEF MaySave, NextVersion
<1>3. PICK z : z = [x EXCEPT !.ckpt = version, !.ckptSession = m.session, !.ckptSeq = m.seq]
  OBVIOUS
<1>4. /\ z \in RunRecord /\ z.ckpt = version /\ z.status = x.status /\ z.seq = x.seq /\ z.step = x.step
      /\ z.approval = x.approval /\ z.lease = "ACTIVE" /\ z.session = x.session /\ z.runtime = x.runtime
  BY <1>1, <1>2, <1>3 DEF RunRecord
<1>5. y = Touch(z)
  BY <1>3 DEF Saved
<1>6. /\ y \in RunRecord /\ y.ckpt = version /\ y.status = x.status /\ y.seq = x.seq /\ y.step = x.step
      /\ y.approval = x.approval /\ y.lease = "ACTIVE" /\ y.session = x.session /\ y.runtime = x.runtime
  <2>1. y \in RunRecord
    BY <1>4, <1>5, TouchType
  <2>2. y = [z EXCEPT !.age = 0]
    BY <1>4, <1>5 DEF Touch
  <2>3. /\ y.ckpt = z.ckpt /\ y.status = z.status /\ y.seq = z.seq /\ y.step = z.step
        /\ y.approval = z.approval /\ y.lease = z.lease /\ y.session = z.session /\ y.runtime = z.runtime
    <3>1. z \in RunRecord
      BY <1>4
    <3> QED BY ONLY <2>2, <3>1 DEF RunRecord
  <2> QED BY <1>4, <2>1, <2>3
<1>7. RecordStep(x, y)
  <2>1. x.lease # "NONE"
    BY <1>2
  <2> QED BY <1>1, <2>1 DEF RecordStep, Request
<1>8. m.version = x.ckpt
  BY <1>1, <1>2
<1> QED BY <1>2, <1>6, <1>7, <1>8 DEF SaveOf

LEMMA SaveSees ==
  ASSUME NEW x \in RunRecord, NEW y \in RunRecord, NEW m \in Memory, SaveOf(x, y, m)
  PROVE  /\ ~Granted(x) /\ ~Granted(y) /\ OpenSteps(y) = OpenSteps(x) /\ Pending(y) = Pending(x)
         /\ x.status \in ActiveRun /\ y.status \in ActiveRun /\ y.ckpt > 0 /\ y.ckpt # m.version
         /\ \A n : Current(y, n) = Current(x, n) /\ Abreast(y, n) = Abreast(x, n)
  BY DEF SaveOf, Granted, OpenSteps, Pending, ActiveRun, Current, Abreast, RunRecord

LEMMA SaverAbreast ==
  ASSUME NEW h, NEW x \in RunRecord, NEW v, NEW g, NEW m \in Memory, Fits(h, x, v, g, m), m.pc \in SavePlaces,
         x.status \in {"RUNNING", "WAITING_FOR_APPROVAL"}, m.session = x.session
  PROVE  /\ Working(m) /\ ~m.sent /\ Current(x, m) /\ Abreast(x, m) /\ m.seq = x.seq
         /\ OpenSteps(x) \subseteq Known(m)
<1>1. Working(m) /\ ~m.sent /\ Current(x, m) /\ m.pc \notin {"failing", "stepFail"}
  BY DEF Fits, MemoryShape, Telling, SavePlaces, Working, Current
<1>2. Base(m) = x.seq /\ Base(m) = m.seq
  BY <1>1 DEF Fits, InStep, Base
<1>3. Abreast(x, m)
  BY <1>1, <1>2 DEF Abreast, ActiveRun
<1> QED BY <1>1, <1>2, <1>3 DEF Fits, KnowsSteps

LEMMA SaveStored ==
  ASSUME NEW x \in RunRecord, NEW y \in RunRecord, NEW m \in Memory, SaveOf(x, y, m), NEW v \in KernelState,
         NEW g \in Gates, Stored(x, v, g), NEW w, SavesOn(x, v, g, m, w)
  PROVE  Stored(y, w, g)
<1>1. /\ ~Granted(y) /\ ~Granted(x) /\ OpenSteps(y) = OpenSteps(x) /\ Pending(y) = Pending(x)
      /\ x.status \in ActiveRun /\ y.ckpt > 0 /\ y.ckpt # 0 /\ y.step = x.step /\ y.status = x.status
      /\ x.ckpt \in Nat
  <2>1. y.ckpt \in Nat /\ x.ckpt \in Nat /\ y.step = x.step /\ y.status = x.status
    BY DEF RunRecord, SaveOf
  <2> QED BY <2>1, SaveSees
<1>2. v.call \in Nat /\ w.call \in Nat /\ \A q \in Requests : g[q].call \in Nat
  BY HostAssumption DEF SavesOn, KernelState, Gates, Decision
<1>3. RequestsSaved(y, w, g)
  <2> SUFFICES ASSUME NEW q \in Requests, g[q].decision # "NONE"
               PROVE  g[q].call < w.call \/ (g[q].call = w.call /\ w.phase = "fly" /\ w.request = q)
    BY <1>1 DEF RequestsSaved
  <2>1. g[q].call < v.call \/ (g[q].call = v.call /\ v.phase = "fly" /\ v.request = q)
    <3>1. x.ckpt # 0
      BY <1>1 DEF Stored, RequestsSaved
    <3> QED BY <1>1, <3>1 DEF Stored, RequestsSaved
  <2> QED BY <1>2, <2>1 DEF SavesOn, SameCall
<1>4. SavedCallOpen(y, w)
  BY <1>1 DEF SavesOn, SavedCallOpen
<1>5. WaitsForSaved(y, w, g)
  <2> SUFFICES ASSUME y.status = "WAITING_FOR_APPROVAL" PROVE WaitsForSaved(y, w, g)
    BY <1>1 DEF WaitsForSaved
  <2>1. /\ v.phase = "fly" /\ v.step \in OpenSteps(x) /\ g[v.request].decision = "APPROVAL"
        /\ g[v.request].approval \in Pending(x)
    BY <1>1 DEF Stored, WaitsForSaved
  <2>2. SameCall(w, v)
    BY <2>1 DEF SavesOn
  <2> QED BY <1>1, <2>1, <2>2 DEF WaitsForSaved, SameCall
<1>6. SavedApproval(y, w, g)
  BY DEF SavesOn, SavedApproval
<1>7. ClosedWhenCompleted(y)
  BY DEF SaveOf, ClosedWhenCompleted
<1> QED BY <1>1, <1>3, <1>4, <1>5, <1>6, <1>7 DEF Stored, SavesOn

\* The other processes: none of them is current.
LEMMA SaveOther ==
  ASSUME OwnIdentity, NEW x \in RunRecord, NEW y \in RunRecord, NEW m \in Memory, SaveOf(x, y, m),
         NEW v \in KernelState, NEW g \in Gates, Stored(x, v, g), NEW w, SavesOn(x, v, g, m, w),
         NEW h \in Hosts, NEW k \in Hosts, h # k, x.runtime = IdentityOf[h], Working(m),
         NEW n \in Memory, Fits(k, x, v, g, n), Alone(x, m, n)
  PROVE  Fits(k, y, w, g, n) /\ ~Current(y, n) /\ Alone(y, m, n)
<1>1. /\ ~Granted(y) /\ ~Granted(x) /\ OpenSteps(y) = OpenSteps(x)
      /\ x.status \in ActiveRun /\ y.status \in ActiveRun /\ y.ckpt > 0
      /\ Current(y, n) = Current(x, n) /\ Abreast(y, n) = Abreast(x, n) /\ Current(y, m) = Current(x, m)
  BY SaveSees
<1>2. y.step = x.step /\ y.seq = x.seq /\ y.session = x.session /\ y.lease # "NONE" /\ y.runtime = x.runtime
  BY DEF SaveOf
<1>3. ~Current(x, n)
  BY DEF OwnIdentity, Fits, HoldsLease, Current
<1>4. HoldsLease(k, y, n) /\ InStep(y, n) /\ KnowsSteps(y, n)
  BY <1>1, <1>2 DEF Fits, HoldsLease, InStep, KnowsSteps
<1>5. KnowsRelease(y, w, n) /\ KnowsCheckpoint(y, w, n)
  BY <1>1, <1>3 DEF Fits, KnowsRelease, KnowsCheckpoint
<1>6. CallAccounted(y, w, g, n)
  <2>1. v.call \in Nat /\ w.call \in Nat /\ n.work.call \in Nat
    BY HostAssumption DEF SavesOn, KernelState, Memory
  <2>2. ASSUME InFlight(n)
        PROVE  /\ n.work.call < w.call \/ SameCall(w, n.work)
               /\ n.work.call < w.call => g[n.work.request].decision # "NONE" \/ x.step[n.work.step] \notin OpenStep
    <3>1. /\ n.work.call < v.call \/ SameCall(v, n.work)
          /\ n.work.call < v.call => g[n.work.request].decision # "NONE" \/ x.step[n.work.step] \notin OpenStep
          /\ n.work.step \in Steps
      BY <1>1, <2>2, InFlightShape DEF Fits, CallAccounted
    <3>2. CASE n.work.call < v.call
      BY <2>1, <3>1, <3>2 DEF SavesOn
    <3>3. CASE SameCall(v, n.work)
      <4>1. CASE SameCall(w, v)
        BY <2>1, <3>3, <4>1 DEF SameCall
      <4>2. CASE v.call < w.call /\ v.step \notin OpenSteps(x)
        BY <2>1, <3>1, <3>3, <4>2 DEF SameCall, OpenSteps
      <4> QED BY <3>3, <4>1, <4>2 DEF SameCall, SavesOn
    <3> QED BY <3>1, <3>2, <3>3
  <2> QED BY <1>1, <1>2, <2>2 DEF Fits, CallAccounted
<1>7. BetweenCalls(y, w, n)
  <2> SUFFICES ASSUME Abreast(x, n), w.phase = "fly",
                      \/ n.pc \in {"model", "saveTurn", "tool"}
                      \/ n.pc = "stepStart" /\ ~n.sent
                      \/ n.pc = "orphans" /\ n.work.phase # "fly"
               PROVE  FALSE
    BY <1>1 DEF BetweenCalls
  <2>1. CASE StartedStep(m)
    <3>1. Current(x, m) /\ Working(n) /\ Base(n) = x.seq /\ x.seq \in Nat
      BY DEF SaveOf, Current, Abreast, RunRecord
    <3> QED BY <2>1, <3>1 DEF Alone
  <2>2. CASE v.phase = "fly"
    <3>1. x.ckpt > 0
      BY <2>2 DEF Stored, Fresh, RunRecord
    <3> QED BY <2>2, <3>1 DEF Fits, BetweenCalls
  <2> QED BY <2>1, <2>2 DEF SavesOn
<1>8. Alone(y, m, n)
  BY <1>1, <1>2 DEF Alone
<1> QED BY <1>1, <1>3, <1>4, <1>5, <1>6, <1>7, <1>8 DEF Fits

\* The saving process itself, without an answer and with one.
LEMMA SaveUnanswered ==
  ASSUME NEW h, NEW x \in RunRecord, NEW y \in RunRecord, NEW m \in Memory, SaveOf(x, y, m), m.pc \in SavePlaces,
         NEW v, NEW g, Fits(h, x, v, g, m), NEW w, SavesOn(x, v, g, m, w)
  PROVE  Fits(h, y, w, g, m)
<1>1. /\ OpenSteps(y) = OpenSteps(x) /\ y.ckpt > 0 /\ y.ckpt # m.version
      /\ Current(y, m) = Current(x, m) /\ Abreast(y, m) = Abreast(x, m)
  BY SaveSees
<1>2. y.step = x.step /\ y.seq = x.seq /\ y.session = x.session /\ y.lease # "NONE" /\ y.runtime = x.runtime
  BY DEF SaveOf
<1>3. HoldsLease(h, y, m) /\ InStep(y, m) /\ KnowsSteps(y, m)
  BY <1>1, <1>2 DEF Fits, HoldsLease, InStep, KnowsSteps
<1>4. KnowsRelease(y, w, m) /\ KnowsCheckpoint(y, w, m)
  BY <1>1 DEF SavePlaces, KnowsRelease, KnowsCheckpoint
<1>5. CallAccounted(y, w, g, m)
  <2>1. InFlight(m) => w = m.work /\ w.phase = "fly" /\ w.call \in Nat
    BY InFlightShape, HostAssumption DEF Fits, SavesOn, KernelState
  <2> QED BY <1>1, <1>2, <2>1 DEF Fits, CallAccounted, SameCall
<1>6. BetweenCalls(y, w, m)
  BY DEF BetweenCalls, SavesOn, SavePlaces
<1> QED BY <1>3, <1>4, <1>5, <1>6 DEF Fits

LEMMA SaveAnswered ==
  ASSUME NEW h, NEW x \in RunRecord, NEW y \in RunRecord, NEW m \in Memory, SaveOf(x, y, m), m.pc \in SavePlaces,
         NEW v, NEW g, Fits(h, x, v, g, m), NEW w, SavesOn(x, v, g, m, w), NEW n, GoesOn(m, n, w, y.ckpt)
  PROVE  Fits(h, y, w, g, n) /\ n \in Memory /\ ~StartedStep(n)
<1>1. CASE n = Idle
  BY <1>1, IdleFits DEF StartedStep, Idle
<1>2. CASE n # Idle
  <2>1. /\ n \in Memory /\ n.pc \in {"model", "tool", "ask", "act"} /\ n.session = m.session /\ n.seq = m.seq
        /\ n.version = y.ckpt /\ ~n.sent /\ n.work = w /\ MemoryShape(n)
        /\ n.pc \in {"model", "tool"} => Known(m) = {}
    BY <1>2 DEF GoesOn
  <2>2. /\ OpenSteps(y) = OpenSteps(x) /\ y.ckpt > 0
    BY SaveSees
  <2>3. y.step = x.step /\ y.seq = x.seq /\ y.session = x.session /\ y.lease # "NONE" /\ y.runtime = x.runtime
    BY DEF SaveOf
  <2>4. Working(m) /\ m.seq = x.seq /\ OpenSteps(x) \subseteq Known(m) /\ m.session = x.session
    BY SaverAbreast DEF SaveOf
  <2>5. Working(n) /\ Base(n) = y.seq /\ y.seq \in Nat
    BY <2>1, <2>3, <2>4 DEF Working, Base, RunRecord
  <2>6. HoldsLease(h, y, n)
    BY <2>1, <2>3, <2>4 DEF Fits, HoldsLease
  <2>7. InStep(y, n)
    BY <2>5 DEF InStep
  <2>8. (n.pc = "model" => w.phase = "model") /\ (n.pc = "tool" => w.phase = "tool")
        /\ (n.pc \in {"ask", "act"} => w.phase = "fly")
    BY <2>1 DEF MemoryShape, Flying
  <2>9. KnowsSteps(y, n)
    <3>1. n.pc \in {"ask", "act"} => Known(n) = {w.step}
      BY <2>1 DEF Known
    <3> QED BY <2>1, <2>2, <2>4, <2>8, <3>1 DEF KnowsSteps, SavesOn
  <2>10. KnowsRelease(y, w, n) /\ FindsCall(n) /\ KnowsDecision(g, n)
    BY <2>1 DEF KnowsRelease, FindsCall, KnowsDecision
  <2>11. KnowsCheckpoint(y, w, n)
    BY <2>1, <2>8 DEF KnowsCheckpoint, Flying, SameCall
  <2>12. w.call \in Nat
    BY HostAssumption DEF SavesOn, KernelState
  <2>13. ~StartedStep(n) /\ (InFlight(n) => n.pc \in {"ask", "act"})
    BY <2>1 DEF StartedStep, InFlight, Flying
  <2>14. CallAccounted(y, w, g, n)
    BY <2>1, <2>2, <2>3, <2>8, <2>12, <2>13 DEF CallAccounted, SameCall, SavesOn
  <2>15. BetweenCalls(y, w, n)
    BY <2>1, <2>8 DEF BetweenCalls
  <2> QED BY <2>1, <2>6, <2>7, <2>9, <2>10, <2>11, <2>13, <2>14, <2>15 DEF Fits
<1> QED BY <1>1, <1>2

LEMMA SaveKeeps ==
  ASSUME OwnIdentity, HostInv, NEW r \in Runs, NEW h \in Hosts, NEW m \in Memory, m = mem[r][h], m.pc \in SavePlaces,
         NEW next, NEW unavailable, Checkpoint(h, r, next, unavailable),
         Follows(h, db[r], saved[r], gate[r], m, Kept(unavailable)),
         NEW version \in Nat, version = NextOf(m), NEW w, w = next.work,
         NEW n, n = Kept([next EXCEPT !.version = version]),
         MaySave(db[r], m.session, version, m.seq) =>
           SavesOn(db[r], saved[r], gate[r], m, w) /\ GoesOn(m, n, w, version)
  PROVE  HostStep
<1>1. PICK x \in RunRecord, v \in KernelState, g \in Gates :
        /\ x = db[r] /\ v = saved[r] /\ g = gate[r] /\ Stored(x, v, g)
        /\ \A k \in Hosts : mem[r][k] \in Memory /\ Fits(k, x, v, g, mem[r][k])
        /\ \A j, k \in Hosts : j # k => Alone(x, mem[r][j], mem[r][k])
  BY HostTypes
<1>2. saved \in [Runs -> KernelState] /\ mem \in [Runs -> [Hosts -> Memory]] /\ gate \in [Runs -> Gates]
  BY DEF HostInv, HostTypeOK, Gates
<1>3. Fits(h, x, v, g, m) /\ Working(m)
  BY <1>1 DEF SavePlaces, Working
<1>4. CASE /\ SaveCheckpoint(IdentityOf[h], r, m.session, version, m.seq)
           /\ saved' = [saved EXCEPT ![r] = w]
           /\ (mem' = [mem EXCEPT ![r][h] = n]) \/ UNCHANGED mem
           /\ UNCHANGED gate
  <2>1. PICK y : y = Saved(x, m.session, version, m.seq)
    OBVIOUS
  <2>2. /\ x.runtime = IdentityOf[h] /\ MaySave(x, m.session, version, m.seq)
        /\ Put(r, y) /\ nextSession' = nextSession /\ poll' = poll
    BY <1>1, <1>4, <2>1 DEF SaveCheckpoint, Owns
  <2>3. y \in RunRecord /\ SaveOf(x, y, m) /\ y.ckpt = version /\ RecordStep(x, y)
    BY <2>1, <2>2, SaveFacts DEF NextOf
  <2>4. SavesOn(x, v, g, m, w) /\ GoesOn(m, n, w, y.ckpt) /\ w \in KernelState
    BY <1>1, <2>2, <2>3 DEF SavesOn
  <2>5. Stored(y, w, g)
    BY <1>1, <2>3, <2>4, SaveStored
  <2>6. Fits(h, y, w, g, m)
    BY <1>3, <2>3, <2>4, SaveUnanswered
  <2>7. Fits(h, y, w, g, n) /\ n \in Memory /\ ~StartedStep(n)
    BY <1>3, <2>3, <2>4, SaveAnswered
  <2>8. ASSUME NEW k \in Hosts \ {h}
        PROVE  /\ Fits(k, y, w, g, mem[r][k]) /\ ~Current(y, mem[r][k]) /\ Alone(y, m, mem[r][k])
    BY <1>1, <1>3, <2>2, <2>3, <2>4, SaveOther
  <2>9. PICK o \in Memory : o \in {m, n} /\ mem' = [mem EXCEPT ![r][h] = o]
    <3>1. CASE UNCHANGED mem
      <4>1. mem' = [mem EXCEPT ![r][h] = m]
        BY <1>2, <3>1
      <4> QED BY <4>1
    <3> QED BY <1>4, <2>7, <3>1
  <2>10. Fits(h, y, w, g, o)
    BY <2>6, <2>7, <2>9
  <2>11. ASSUME NEW k \in Hosts \ {h}
         PROVE  Alone(y, o, mem[r][k]) /\ Alone(y, mem[r][k], o)
    BY <2>7, <2>8, <2>9 DEF Alone
  <2>12. \A j, k \in Hosts \ {h} : j # k => Alone(y, mem[r][j], mem[r][k])
    BY <2>8 DEF Alone
  <2>13. /\ gate' = [gate EXCEPT ![r] = g] /\ saved' \in [Runs -> KernelState] /\ saved'[r] = w
         /\ \A q \in Runs \ {r} : saved'[q] \in {saved[q], Left(db[q], saved[q])}
    BY <1>1, <1>2, <1>4, <2>4
  <2>14. y.session = db[r].session /\ RecordStep(db[r], y)
    BY <1>1, <2>3 DEF SaveOf
  <2>15. PICK u \in KernelState : u = w
    BY <2>4
  <2> QED BY <2>2, <2>3, <2>5, <2>8, <2>9, <2>10, <2>11, <2>12, <2>13, <2>14, <2>15, Transaction
<1>5. CASE Keep(h, r, Idle) /\ UNCHANGED <<db, nextSession, poll, saved, gate>>
  <2>1. Local(h, r, Idle) /\ Follows(h, db[r], saved[r], gate[r], mem[r][h], Kept(Idle))
    BY <1>5, IdleFollows, IdleKept DEF Local
  <2> QED BY <2>1, LocalKeeps
<1>6. CASE Keep(h, r, unavailable) /\ UNCHANGED <<db, nextSession, poll, saved, gate>>
  <2>1. Local(h, r, unavailable) /\ Follows(h, db[r], saved[r], gate[r], mem[r][h], Kept(unavailable))
    BY <1>6 DEF Local
  <2> QED BY <2>1, LocalKeeps
<1>7. Keep(h, r, [next EXCEPT !.version = version]) <=> mem' = [mem EXCEPT ![r][h] = n]
  BY DEF Keep, Kept
<1> QED BY <1>4, <1>5, <1>6, <1>7 DEF Checkpoint, NextOf

KnowsOpen(x, m) == OpenSteps(x) \subseteq Known(m)

\* What a process that may save knows.
LEMMA SaverKnows ==
  ASSUME NEW h, NEW x \in RunRecord, NEW v \in KernelState, NEW g \in Gates, Stored(x, v, g),
         NEW m \in Memory, Fits(h, x, v, g, m), m.pc \in SavePlaces,
         NEW version \in Nat, version = NextOf(m), MaySave(x, m.session, version, m.seq)
  PROVE  /\ KnowsOpen(x, m) /\ (x.ckpt > 0 \/ v = Fresh)
         /\ m.version = x.ckpt /\ Current(x, m) /\ x.status \in ActiveRun
         /\ v.call \in Nat /\ m.work.call \in Nat
<1>1. PICK y : y = Saved(x, m.session, version, m.seq)
  OBVIOUS
<1>2. SaveOf(x, y, m)
  BY <1>1, SaveFacts DEF NextOf
<1>3. Current(x, m) /\ OpenSteps(x) \subseteq Known(m)
  BY <1>2, SaverAbreast DEF SaveOf
<1>4. x.ckpt > 0 \/ v = Fresh
  BY DEF Stored, RunRecord
<1> QED BY <1>2, <1>3, <1>4, HostAssumption DEF KnowsOpen, SaveOf, ActiveRun, KernelState, Memory

\* The process after a save that was answered.
LEMMA SaveTaken ==
  ASSUME NEW m \in Memory, ~m.sent, NEW place \in {"model", "tool", "ask", "act"}, MemoryShape(At(m, place)),
         place \in {"model", "tool"} => Known(m) = {},
         NEW version \in Nat, NEW n, n = Kept([At(m, place) EXCEPT !.version = version])
  PROVE  GoesOn(m, n, m.work, version) /\ At(m, place).work = m.work
<1>1. PICK l : l = At(m, place)
  OBVIOUS
<1>2. /\ l \in Memory /\ l.pc = place /\ l.session = m.session /\ l.seq = m.seq
      /\ ~l.sent /\ (l.recovers <=> m.recovers) /\ l.approval = m.approval /\ l.open = m.open
      /\ l.orphans = m.orphans /\ l.work = m.work /\ MemoryShape(l)
  BY <1>1, AtPlace DEF Place
<1>3. PICK k : k = [l EXCEPT !.version = version]
  OBVIOUS
<1>4. /\ k \in Memory /\ k.pc = place /\ k.session = m.session /\ k.seq = m.seq /\ k.version = version
      /\ ~k.sent /\ (k.recovers <=> l.recovers) /\ k.approval = m.approval /\ k.open = m.open
      /\ k.orphans = m.orphans /\ k.work = m.work
  BY <1>2, <1>3 DEF Memory
<1>5. n = k
  BY <1>1, <1>3, <1>4 DEF Kept
<1>6. MemoryShape(k)
  BY <1>2, <1>4 DEF MemoryShape, InCall, Flying, Telling
<1> QED BY <1>1, <1>2, <1>4, <1>5, <1>6 DEF GoesOn

LEMMA SaveStartKeeps ==
  ASSUME OwnIdentity, HostInv, NEW r \in Runs, NEW h \in Hosts, SaveStart(h, r)
  PROVE  HostStep
<1>1. PICK x \in RunRecord, v \in KernelState, g \in Gates :
        x = db[r] /\ v = saved[r] /\ g = gate[r] /\ Stored(x, v, g)
  BY HostTypes
<1>2. PICK m \in Memory : /\ m = mem[r][h] /\ m.pc = "saveStart" /\ Fits(h, x, v, g, m)
                          /\ Checkpoint(h, r, At(m, "model"), Failed(m))
  BY <1>1, HostTypes DEF SaveStart
<1>3. PICK version \in Nat : version = NextOf(m)
  BY DEF Memory, NextOf
<1>4. ~m.sent /\ Working(m) /\ m.work = Fresh /\ MemoryShape(At(m, "model"))
  <2>1. ~m.sent /\ Working(m) /\ m.work = Fresh
    BY <1>2 DEF Fits, MemoryShape, Telling, Working
  <2>2. PICK l : l = At(m, "model")
    OBVIOUS
  <2>3. l.pc = "model" /\ ~l.sent /\ l.work = m.work
    BY <2>1, <2>2, AtPlace DEF Place
  <2>4. MemoryShape(l)
    BY <1>2, <2>1, <2>3 DEF Fits, MemoryShape, InCall, Flying, Fresh
  <2> QED BY <2>1, <2>2, <2>4
<1>5. PICK n : n = Kept([At(m, "model") EXCEPT !.version = version])
  OBVIOUS
<1>6. GoesOn(m, n, m.work, version) /\ At(m, "model").work = m.work
  <2>1. Known(m) = {}
    BY <1>2 DEF Known
  <2> QED BY <1>4, <1>5, <2>1, SaveTaken
<1>7. ASSUME MaySave(x, m.session, version, m.seq) PROVE SavesOn(x, v, g, m, m.work)
  <2>1. v = Fresh
    <3>1. m.version = 0 /\ m.pc \in SavePlaces
      BY <1>2 DEF Fits, MemoryShape, SavePlaces
    <3>2. m.version = x.ckpt /\ (x.ckpt > 0 \/ v = Fresh)
      BY <1>1, <1>2, <1>3, <1>7, <3>1, SaverKnows
    <3> QED BY <3>1, <3>2
  <2>2. Fresh \in KernelState /\ SavedShape(Fresh) /\ Fresh.call = 0 /\ Fresh.phase = "model"
    BY HostAssumption DEF Fresh, KernelState, SavedShape, WorkShape
  <2>3. ~InFlight(m)
    BY <1>2 DEF InFlight, Flying
  <2> QED BY <1>2, <1>4, <2>1, <2>2, <2>3 DEF SavesOn
<1>8. Follows(h, x, v, g, m, Kept(Failed(m)))
  BY <1>2, <1>4, FailedFollows
<1>9. m.pc \in SavePlaces
  BY <1>2 DEF SavePlaces
<1>10. PICK w : w = m.work
  OBVIOUS
<1> QED BY <1>1, <1>2, <1>3, <1>5, <1>6, <1>7, <1>8, <1>9, <1>10, SaveKeeps

LEMMA SaveTurnKeeps ==
  ASSUME OwnIdentity, HostInv, NEW r \in Runs, NEW h \in Hosts, SaveTurn(h, r)
  PROVE  HostStep
<1>1. PICK x \in RunRecord, v \in KernelState, g \in Gates :
        x = db[r] /\ v = saved[r] /\ g = gate[r] /\ Stored(x, v, g)
  BY HostTypes
<1>2. PICK m \in Memory : /\ m = mem[r][h] /\ m.pc = "saveTurn" /\ Fits(h, x, v, g, m)
                          /\ Checkpoint(h, r, At(m, "tool"), Failed(m))
  BY <1>1, HostTypes DEF SaveTurn
<1>3. PICK version \in Nat : version = NextOf(m)
  BY DEF Memory, NextOf
<1>4. /\ ~m.sent /\ Working(m) /\ m.work.phase = "tool" /\ SavedShape(m.work) /\ m.work \in KernelState
      /\ m.pc \in SavePlaces
  BY <1>2 DEF Fits, MemoryShape, Telling, Working, Memory, SavePlaces
<1>5. MemoryShape(At(m, "tool"))
  <2>1. PICK l : l = At(m, "tool")
    OBVIOUS
  <2>2. l.pc = "tool" /\ ~l.sent /\ l.work = m.work
    BY <1>4, <2>1, AtPlace DEF Place
  <2>3. MemoryShape(l)
    BY <1>4, <2>2 DEF MemoryShape, InCall, Flying, SavedShape
  <2> QED BY <2>1, <2>3
<1>6. PICK n, w : n = Kept([At(m, "tool") EXCEPT !.version = version]) /\ w = m.work
  OBVIOUS
<1>7. GoesOn(m, n, w, version) /\ At(m, "tool").work = w
  <2>1. Known(m) = {}
    BY <1>2 DEF Known
  <2> QED BY <1>4, <1>5, <1>6, <2>1, SaveTaken
<1>8. ASSUME MaySave(x, m.session, version, m.seq) PROVE SavesOn(x, v, g, m, w)
  <2>1. /\ (x.ckpt > 0 \/ v = Fresh) /\ m.version = x.ckpt /\ Current(x, m)
        /\ v.call \in Nat /\ m.work.call \in Nat
    BY <1>1, <1>2, <1>3, <1>4, <1>8, SaverKnows
  <2>2. v.phase = "model" /\ v.call <= m.work.call
    <3>1. CASE x.ckpt > 0
      BY <1>2, <2>1, <3>1 DEF Fits, KnowsCheckpoint
    <3>2. CASE v = Fresh
      BY <2>1, <3>2 DEF Fresh
    <3> QED BY <2>1, <3>1, <3>2
  <2>3. ~InFlight(m)
    BY <1>2 DEF InFlight, Flying
  <2> QED BY <1>4, <1>6, <2>2, <2>3 DEF SavesOn
<1>9. Follows(h, x, v, g, m, Kept(Failed(m)))
  BY <1>2, <1>4, FailedFollows
<1> QED BY <1>1, <1>2, <1>3, <1>4, <1>6, <1>7, <1>8, <1>9, SaveKeeps

\* The identifiers of the call are saved before anything is asked.
LEMMA SaveFlyKeeps ==
  ASSUME OwnIdentity, HostInv, NEW r \in Runs, NEW h \in Hosts, SaveFly(h, r)
  PROVE  HostStep
<1>1. PICK x \in RunRecord, v \in KernelState, g \in Gates :
        x = db[r] /\ v = saved[r] /\ g = gate[r] /\ Stored(x, v, g)
  BY HostTypes
<1>2. PICK m \in Memory : /\ m = mem[r][h] /\ m.pc = "saveFly" /\ Fits(h, x, v, g, m)
                          /\ Checkpoint(h, r, At(m, "ask"), Failed(m))
  BY <1>1, HostTypes DEF SaveFly
<1>3. PICK version \in Nat : version = NextOf(m)
  BY DEF Memory, NextOf
<1>4. /\ ~m.sent /\ Working(m) /\ m.work.phase = "fly" /\ WorkShape(m.work) /\ m.work \in KernelState
      /\ m.work.step \in Steps /\ m.work.request \in Requests /\ m.work.approval = NoApproval
      /\ m.pc \in SavePlaces
  BY <1>2 DEF Fits, MemoryShape, Telling, Working, Memory, SavePlaces, InCall
<1>5. MemoryShape(At(m, "ask"))
  <2>1. PICK l : l = At(m, "ask")
    OBVIOUS
  <2>2. l.pc = "ask" /\ ~l.sent /\ l.work = m.work
    BY <1>4, <2>1, AtPlace DEF Place
  <2>3. MemoryShape(l)
    BY <1>4, <2>2 DEF MemoryShape, InCall, Flying
  <2> QED BY <2>1, <2>3
<1>6. PICK n, w : n = Kept([At(m, "ask") EXCEPT !.version = version]) /\ w = m.work
  OBVIOUS
<1>7. GoesOn(m, n, w, version) /\ At(m, "ask").work = w
  BY <1>4, <1>5, <1>6, SaveTaken
<1>8. ASSUME MaySave(x, m.session, version, m.seq) PROVE SavesOn(x, v, g, m, w)
  <2>1. /\ (x.ckpt > 0 \/ v = Fresh) /\ m.version = x.ckpt /\ Current(x, m)
        /\ v.call \in Nat /\ m.work.call \in Nat /\ KnowsOpen(x, m)
    BY <1>1, <1>2, <1>3, <1>4, <1>8, SaverKnows
  <2>2. v.phase # "fly" /\ v.call <= m.work.call
    <3>1. CASE x.ckpt > 0
      BY <1>2, <2>1, <3>1 DEF Fits, KnowsCheckpoint
    <3>2. CASE v = Fresh
      BY <2>1, <3>2 DEF Fresh
    <3> QED BY <2>1, <3>1, <3>2
  <2>3. ~InFlight(m) /\ StartedStep(m) /\ Known(m) = {m.work.step}
    BY <1>2 DEF InFlight, Flying, StartedStep, Known
  <2>4. x.step[m.work.step] # "NONE"
    BY <1>2, <2>3 DEF Fits, CallAccounted
  <2>5. SavedShape(m.work)
    BY <1>4 DEF SavedShape
  <2> QED BY <1>2, <1>4, <1>6, <2>1, <2>2, <2>3, <2>4, <2>5 DEF SavesOn, KnowsOpen
<1>9. Follows(h, x, v, g, m, Kept(Failed(m)))
  BY <1>2, <1>4, FailedFollows
<1> QED BY <1>1, <1>2, <1>3, <1>4, <1>6, <1>7, <1>8, <1>9, SaveKeeps

\* The approval a call waits for, or was released by, is saved with it.
LEMMA ApprovalSavesOn ==
  ASSUME NEW h, NEW x \in RunRecord, NEW v \in KernelState, NEW g \in Gates, Stored(x, v, g),
         NEW m \in Memory, Fits(h, x, v, g, m), m.pc \in {"savePause", "saveCarry"},
         NEW version \in Nat, version = NextOf(m), MaySave(x, m.session, version, m.seq)
  PROVE  SavesOn(x, v, g, m, m.work)
<1>1. /\ m.pc \in SavePlaces /\ InFlight(m) /\ m.pc \in Flying /\ m.work \in KernelState
      /\ m.work.phase = "fly" /\ WorkShape(m.work) /\ m.work.step \in Steps /\ m.work.request \in Requests
  BY DEF Fits, MemoryShape, Memory, SavePlaces, InCall, Flying, InFlight
<1>2. /\ m.version = x.ckpt /\ Current(x, m) /\ x.status \in ActiveRun
      /\ v.call \in Nat /\ m.work.call \in Nat
  BY <1>1, SaverKnows
<1>3. x.ckpt > 0
  BY <1>1, <1>2 DEF Fits, CallAccounted
<1>4. SameCall(v, m.work)
  BY <1>1, <1>2, <1>3 DEF Fits, KnowsCheckpoint
<1>5. OpenSteps(x) \subseteq {v.step} /\ x.step[v.step] # "NONE"
  BY <1>3, <1>4 DEF Stored, SavedCallOpen, SameCall
<1>6. SavedShape(m.work)
  BY <1>1 DEF SavedShape
<1>7. g[m.work.request].decision = "APPROVAL" /\ g[m.work.request].approval = m.work.approval
  BY DEF Fits, KnowsDecision
<1> QED BY <1>1, <1>2, <1>4, <1>5, <1>6, <1>7 DEF SavesOn, SameCall

LEMMA SavePauseKeeps ==
  ASSUME OwnIdentity, HostInv, NEW r \in Runs, NEW h \in Hosts, SavePause(h, r)
  PROVE  HostStep
<1>1. PICK x \in RunRecord, v \in KernelState, g \in Gates :
        x = db[r] /\ v = saved[r] /\ g = gate[r] /\ Stored(x, v, g)
  BY HostTypes
<1>2. PICK m \in Memory : /\ m = mem[r][h] /\ m.pc = "savePause" /\ Fits(h, x, v, g, m)
                          /\ Checkpoint(h, r, [Idle EXCEPT !.work = m.work], Idle)
  BY <1>1, HostTypes DEF SavePause
<1>3. PICK version \in Nat : version = NextOf(m)
  BY DEF Memory, NextOf
<1>4. PICK next : next = [Idle EXCEPT !.work = m.work]
  OBVIOUS
<1>5. PICK n : n = Kept([next EXCEPT !.version = version])
  OBVIOUS
<1>6. next.work = m.work /\ n = Idle
  BY <1>4, <1>5 DEF Kept, Idle
<1>7. PICK w : w = m.work
  OBVIOUS
<1>8. ASSUME MaySave(x, m.session, version, m.seq) PROVE SavesOn(x, v, g, m, w)
  BY <1>1, <1>2, <1>3, <1>7, <1>8, ApprovalSavesOn
<1>9. GoesOn(m, n, w, version) /\ m.pc \in SavePlaces /\ Follows(h, x, v, g, m, Kept(Idle))
  BY <1>2, <1>6, IdleFollows, IdleKept DEF GoesOn, SavePlaces
<1>10. Checkpoint(h, r, next, Idle) /\ w = next.work
  BY <1>2, <1>4, <1>6, <1>7
<1> QED BY <1>1, <1>2, <1>3, <1>5, <1>8, <1>9, <1>10, SaveKeeps

LEMMA SaveCarryKeeps ==
  ASSUME OwnIdentity, HostInv, NEW r \in Runs, NEW h \in Hosts, SaveCarry(h, r)
  PROVE  HostStep
<1>1. PICK x \in RunRecord, v \in KernelState, g \in Gates :
        x = db[r] /\ v = saved[r] /\ g = gate[r] /\ Stored(x, v, g)
  BY HostTypes
<1>2. PICK m \in Memory : /\ m = mem[r][h] /\ m.pc = "saveCarry" /\ Fits(h, x, v, g, m)
                          /\ Checkpoint(h, r, At(m, "act"), Failed(m))
  BY <1>1, HostTypes DEF SaveCarry
<1>3. PICK version \in Nat : version = NextOf(m)
  BY DEF Memory, NextOf
<1>4. /\ ~m.sent /\ Working(m) /\ m.work.phase = "fly" /\ WorkShape(m.work)
      /\ m.work.step \in Steps /\ m.work.request \in Requests /\ m.pc \in SavePlaces
  BY <1>2 DEF Fits, MemoryShape, Telling, Working, SavePlaces, InCall, Flying
<1>5. MemoryShape(At(m, "act"))
  <2>1. PICK l : l = At(m, "act")
    OBVIOUS
  <2>2. l.pc = "act" /\ ~l.sent /\ l.work = m.work
    BY <1>4, <2>1, AtPlace DEF Place
  <2>3. MemoryShape(l)
    BY <1>4, <2>2 DEF MemoryShape, InCall, Flying
  <2> QED BY <2>1, <2>3
<1>6. PICK n, w : n = Kept([At(m, "act") EXCEPT !.version = version]) /\ w = m.work
  OBVIOUS
<1>7. GoesOn(m, n, w, version) /\ At(m, "act").work = w
  BY <1>4, <1>5, <1>6, SaveTaken
<1>8. ASSUME MaySave(x, m.session, version, m.seq) PROVE SavesOn(x, v, g, m, w)
  BY <1>1, <1>2, <1>3, <1>6, <1>8, ApprovalSavesOn
<1>9. Follows(h, x, v, g, m, Kept(Failed(m)))
  BY <1>2, <1>4, FailedFollows
<1> QED BY <1>1, <1>2, <1>3, <1>4, <1>6, <1>7, <1>8, <1>9, SaveKeeps

\* The call is over.
LEMMA SaveResultKeeps ==
  ASSUME OwnIdentity, HostInv, NEW r \in Runs, NEW h \in Hosts, SaveResult(h, r)
  PROVE  HostStep
<1>1. PICK x \in RunRecord, v \in KernelState, g \in Gates :
        x = db[r] /\ v = saved[r] /\ g = gate[r] /\ Stored(x, v, g)
  BY HostTypes
<1>2. PICK m \in Memory :
        /\ m = mem[r][h] /\ m.pc = "saveResult" /\ Fits(h, x, v, g, m)
        /\ Checkpoint(h, r, [Onwards(m, "model") EXCEPT !.work = [Fresh EXCEPT !.call = m.work.call + 1]], Failed(m))
  BY <1>1, HostTypes DEF SaveResult
<1>3. PICK version \in Nat : version = NextOf(m)
  BY DEF Memory, NextOf
<1>4. /\ ~m.sent /\ Working(m) /\ m.work.call < MaxCalls /\ m.work \in KernelState /\ m.pc \in SavePlaces
      /\ m.work.call \in Nat
  BY <1>2, HostAssumption DEF Fits, MemoryShape, WorkShape, Telling, Working, SavePlaces, Memory, KernelState
<1>5. PICK over \in Nat : over = m.work.call + 1
  BY <1>4
<1>6. PICK w : w = [Fresh EXCEPT !.call = over]
  OBVIOUS
<1>7. /\ w \in KernelState /\ w.call = over /\ w.phase = "model" /\ w.step = NoStep
      /\ w.request = NoRequest /\ w.approval = NoApproval
  BY <1>4, <1>5, <1>6, HostAssumption DEF Fresh, KernelState
<1>8. PICK next : next = [Onwards(m, "model") EXCEPT !.work = w]
  OBVIOUS
<1>9. /\ next \in Memory /\ next.pc = "model" /\ next.session = m.session /\ next.seq = m.seq
      /\ next.version = m.version /\ ~next.sent /\ next.work = w
  <2>1. PICK l : l = At(m, "model")
    OBVIOUS
  <2>2. /\ l \in Memory /\ l.pc = "model" /\ l.session = m.session /\ l.seq = m.seq
        /\ l.version = m.version /\ ~l.sent
    BY <1>4, <2>1, AtPlace DEF Place
  <2>3. next = [[l EXCEPT !.recovers = FALSE, !.approval = NoApproval, !.open = {}] EXCEPT !.work = w]
    BY <1>8, <2>1 DEF Onwards
  <2> QED BY <1>7, <2>2, <2>3 DEF Memory
<1>10. PICK n : n = Kept([next EXCEPT !.version = version])
  OBVIOUS
<1>11. GoesOn(m, n, w, version)
  <2>1. PICK k : k = [next EXCEPT !.version = version]
    OBVIOUS
  <2>2. /\ k \in Memory /\ k.pc = "model" /\ k.session = m.session /\ k.seq = m.seq
        /\ k.version = version /\ ~k.sent /\ k.work = w
    BY <1>9, <2>1 DEF Memory
  <2>3. n = k
    BY <1>10, <2>1, <2>2, KeptAs
  <2>4. MemoryShape(k)
    BY <1>7, <2>2 DEF MemoryShape, WorkShape, InCall, Flying, Telling
  <2>5. Known(m) = {}
    BY <1>2 DEF Known
  <2> QED BY <2>2, <2>3, <2>4, <2>5 DEF GoesOn
<1>12. ASSUME MaySave(x, m.session, version, m.seq) PROVE SavesOn(x, v, g, m, w)
  <2>1. /\ (x.ckpt > 0 \/ v = Fresh) /\ m.version = x.ckpt /\ Current(x, m)
        /\ v.call \in Nat /\ KnowsOpen(x, m)
    BY <1>1, <1>2, <1>3, <1>4, <1>12, SaverKnows
  <2>2. v.call < over
    <3>1. CASE x.ckpt > 0
      <4>1. v.call = m.work.call
        BY <1>2, <2>1, <3>1 DEF Fits, KnowsCheckpoint
      <4> QED BY <1>4, <1>5, <4>1
    <3>2. CASE v = Fresh
      BY <1>4, <1>5, <3>2 DEF Fresh
    <3> QED BY <2>1, <3>1, <3>2
  <2>3. ~InFlight(m) /\ OpenSteps(x) = {}
    BY <1>2, <2>1 DEF InFlight, Flying, Known, KnowsOpen
  <2>4. SavedShape(w)
    BY <1>7 DEF SavedShape, WorkShape
  <2> QED BY <1>2, <1>7, <2>1, <2>2, <2>3, <2>4 DEF SavesOn
<1>13. Follows(h, x, v, g, m, Kept(Failed(m)))
  BY <1>2, <1>4, FailedFollows
<1>14. Checkpoint(h, r, next, Failed(m)) /\ w = next.work
  BY <1>2, <1>5, <1>6, <1>8, <1>9
<1> QED BY <1>1, <1>2, <1>3, <1>4, <1>10, <1>11, <1>12, <1>13, <1>14, SaveKeeps

-----------------------------------------------------------------------------
(* Steps in which no process goes on with its program.                      *)

LEMMA QuietRuns ==
  ASSUME HostInv, RecordsShape, poll' = poll, Forget, gate' = gate,
         mem' \in [Runs -> [Hosts -> Memory]],
         \A r \in Runs : Environment(db[r], db'[r]),
         \A r \in Runs : \A h \in Hosts : Still(mem[r][h], mem'[r][h])
  PROVE  HostStep
<1>1. Fresh \in KernelState
  BY HostAssumption DEF Fresh, KernelState
<1>2. /\ saved \in [Runs -> KernelState] /\ gate \in [Runs -> Gates]
      /\ poll \in [Runtimes -> {"idle", "expired", "reaped"}]
  BY DEF HostInv, HostTypeOK, TypeOK, Gates
<1>3. /\ saved' \in [Runs -> KernelState]
      /\ \A r \in Runs : saved'[r] = Left(db'[r], saved[r])
  BY <1>1, <1>2 DEF Forget, Left
<1>4. ASSUME NEW r \in Runs PROVE Together(r)'
  <2>1. db[r] \in RunRecord /\ db'[r] \in RunRecord /\ RunInv(db[r])
        /\ nextSession \in Nat /\ db[r].session < nextSession
    BY HostTypes DEF RecordsShape
  <2>2. Environment(db[r], db'[r]) /\ \A h \in Hosts : Still(mem[r][h], mem'[r][h])
    OBVIOUS
  <2>3. Calmly(db[r], db'[r])
    BY <2>1, <2>2, EnvironmentCalm
  <2>4. saved'[r] = Left(db'[r], saved[r]) /\ gate'[r] = gate[r]
    BY <1>3
  <2> QED BY <2>1, <2>2, <2>3, <2>4, RunCalm
<1> QED BY <1>2, <1>3, <1>4 DEF HostStep

\* What happens to the record of one run happens to no other.
LEMMA PutEnvironment ==
  ASSUME TypeOK, NEW r \in Runs, NEW y, Put(r, y), Environment(db[r], y)
  PROVE  \A q \in Runs : Environment(db[q], db'[q])
<1> SUFFICES ASSUME NEW q \in Runs PROVE Environment(db[q], db'[q])
  OBVIOUS
<1>1. CASE q = r
  BY <1>1 DEF Put, TypeOK
<1>2. CASE q # r
  <2>1. db'[q] = db[q]
    BY <1>2 DEF Put, TypeOK
  <2> QED BY <2>1 DEF Environment
<1> QED BY <1>1, <1>2

LEMMA ControlPlaneShape ==
  ASSUME TypeOK, ControlPlane
  PROVE  /\ RecordsShape /\ poll' = poll
         /\ \A r \in Runs : Environment(db[r], db'[r])
<1>1. ASSUME NEW r \in Runs, CreateRun(r) \/ CancelOwnRun(r) \/ Tick(r)
      PROVE  Next /\ poll' = poll /\ \A q \in Runs : Environment(db[q], db'[q])
  <2>1. CASE CreateRun(r)
    <3>1. Created(db[r], [db[r] EXCEPT !.status = "QUEUED"])
      BY <2>1 DEF Created, CreateRun
    <3> QED BY <2>1, <3>1, PutEnvironment DEF CreateRun, Environment, Next
  <2>2. CASE CancelOwnRun(r)
    <3>1. CancelledByOwner(db[r], Cancel(db[r], "CANCELLED_BY_EMPLOYEE"))
      BY <2>2 DEF CancelledByOwner, CancelOwnRun
    <3> QED BY <2>2, <3>1, PutEnvironment DEF CancelOwnRun, Environment, Next
  <2>3. CASE Tick(r)
    <3>1. Aged(db[r], [db[r] EXCEPT !.age = @ + 1])
      BY <2>3 DEF Aged, Tick
    <3> QED BY <2>3, <3>1, PutEnvironment DEF Tick, Environment, Next
  <2> QED BY <1>1, <2>1, <2>2, <2>3
<1>2. ASSUME NEW r \in Runs, NEW a \in Approvals, Approve(r, a) \/ Reject(r, a)
      PROVE  Next /\ poll' = poll /\ \A q \in Runs : Environment(db[q], db'[q])
  <2>1. CASE Approve(r, a)
    <3>1. DecisionMade(db[r], Approved(db[r], a))
      BY <2>1 DEF DecisionMade, Approve
    <3> QED BY <2>1, <3>1, PutEnvironment DEF Approve, Environment, Next
  <2>2. CASE Reject(r, a)
    <3>1. DecisionMade(db[r], Rejected(db[r], a))
      BY <2>2 DEF DecisionMade, Reject
    <3> QED BY <2>2, <3>1, PutEnvironment DEF Reject, Environment, Next
  <2> QED BY <1>2, <2>1, <2>2
<1>3. ASSUME NEW due \in SUBSET Runs, ExpireDue(due)
      PROVE  Next /\ poll' = poll /\ \A q \in Runs : Environment(db[q], db'[q])
  <2>1. ASSUME NEW q \in Runs PROVE Environment(db[q], db'[q])
    <3>1. db'[q] = IF q \in due THEN Lapsed(db[q]) ELSE db[q]
      BY <1>3 DEF ExpireDue
    <3>2. q \in due => DecisionMade(db[q], Lapsed(db[q]))
      <4>1. db[q] \in RunRecord
        BY DEF TypeOK
      <4>2. SUFFICES ASSUME q \in due PROVE DecisionMade(db[q], Lapsed(db[q]))
        OBVIOUS
      <4>3. PICK a : a \in Due(db[q])
        BY <1>3, <4>2 DEF ExpireDue
      <4> QED BY <4>1, <4>3, DueIsPending DEF DecisionMade
    <3> QED BY <3>1, <3>2 DEF Environment
  <2> QED BY <1>3, <2>1 DEF ExpireDue, Next
<1>4. ASSUME Housekeeping
      PROVE  Next /\ poll' = poll /\ \A q \in Runs : Environment(db[q], db'[q])
  <2>1. \A q \in Runs : db'[q] = Reaped(db[q])
    BY <1>4 DEF Housekeeping, ReapAll
  <2> QED BY <1>4, <2>1 DEF Housekeeping, Environment, Next
<1>5. ASSUME NEW r \in Runs, NEW a \in Approvals, Deadline(r, a)
      PROVE  Next /\ poll' = poll /\ \A q \in Runs : Environment(db[q], db'[q])
  <2>1. Late(db[r], [db[r] EXCEPT !.overdue = @ \cup {a}])
    BY DEF Late
  <2> QED BY <1>5, <2>1, PutEnvironment DEF Deadline, Environment, Next
<1> QED BY <1>1, <1>2, <1>3, <1>4, <1>5, NextShape DEF ControlPlane, StepShape

LEMMA ControlPlaneKeeps ==
  ASSUME HostInv, ControlPlane
  PROVE  HostStep
<1>1. TypeOK /\ mem \in [Runs -> [Hosts -> Memory]]
  BY DEF HostInv, HostTypeOK
<1>2. Forget /\ mem' = mem /\ gate' = gate
  BY DEF ControlPlane, Quietly
<1>3. \A r \in Runs : \A h \in Hosts : Still(mem[r][h], mem'[r][h])
  BY <1>2 DEF Still
<1> QED BY <1>1, <1>2, <1>3, ControlPlaneShape, QuietRuns

LEMMA CrashKeeps ==
  ASSUME HostInv, NEW h \in Hosts, Crash(h)
  PROVE  HostStep
<1>1. /\ TypeOK /\ mem \in [Runs -> [Hosts -> Memory]] /\ saved \in [Runs -> KernelState]
  BY DEF HostInv, HostTypeOK
<1>2. /\ db' = db /\ nextSession' = nextSession /\ poll' = poll /\ saved' = saved /\ gate' = gate
      /\ mem' = [r \in Runs |-> [mem[r] EXCEPT ![h] = Idle]]
  BY DEF Crash
<1>3. \A r \in Runs : db'[r].ckpt = 0 => saved[r] = Fresh
  BY <1>2, HostTypes DEF Stored
<1>4. Forget
  BY <1>1, <1>2, <1>3 DEF Forget
<1>5. ASSUME NEW r \in Runs, NEW k \in Hosts
      PROVE  mem'[r][k] \in Memory /\ Still(mem[r][k], mem'[r][k])
  <2>1. mem[r] \in [Hosts -> Memory] /\ mem'[r] = [mem[r] EXCEPT ![h] = Idle]
    BY <1>1, <1>2
  <2>2. mem'[r][k] \in {mem[r][k], Idle}
    BY <2>1
  <2> QED BY <2>1, <2>2, IdleFits DEF Still
<1>6. mem' \in [Runs -> [Hosts -> Memory]]
  <2>1. ASSUME NEW r \in Runs PROVE mem'[r] \in [Hosts -> Memory]
    <3>1. mem[r] \in [Hosts -> Memory] /\ mem'[r] = [mem[r] EXCEPT ![h] = Idle] /\ Idle \in Memory
      BY <1>1, <1>2, IdleFits
    <3> QED BY <3>1
  <2> QED BY <1>2, <2>1
<1>7. RecordsShape /\ \A r \in Runs : Environment(db[r], db'[r])
  BY <1>1, <1>2 DEF RecordsShape, TypeOK, RecordStep, SessionStep, Environment
<1> QED BY <1>2, <1>4, <1>5, <1>6, <1>7, QuietRuns

LEMMA HostHeartbeatKeeps ==
  ASSUME HostInv, NEW h \in Hosts, HostHeartbeat(h)
  PROVE  HostStep
<1>1. /\ TypeOK /\ mem \in [Runs -> [Hosts -> Memory]] /\ saved \in [Runs -> KernelState]
      /\ db \in [Runs -> RunRecord]
  BY DEF HostInv, HostTypeOK, TypeOK
<1> DEFINE rt == IdentityOf[h]
           named == {r \in Runs : Active(h, r)}
           lost == named \ HeldBy(rt)
<1>2. /\ named \subseteq Runs
      /\ IF named \cap HeldBy(rt) # {}
           THEN Heartbeat(rt, named) ELSE UNCHANGED <<db, nextSession, poll>>
      /\ \/ mem' = mem
         \/ mem' = [r \in Runs |->
                      IF r \in lost THEN [mem[r] EXCEPT ![h].aborted = TRUE] ELSE mem[r]]
      /\ saved' = saved /\ gate' = gate
  BY DEF HostHeartbeat
<1> HIDE DEF rt, named, lost
<1>3. ASSUME NEW r \in Runs
      PROVE  /\ db'[r] \in {db[r], Touch(db[r])}
             /\ db'[r] # db[r] => db[r].lease # "NONE"
  BY <1>2 DEF Heartbeat, HeldBy
<1>4. poll' = poll /\ nextSession' = nextSession /\ db' \in [Runs -> RunRecord]
  BY <1>1, <1>2, <1>3, TouchType DEF Heartbeat
<1>5. ASSUME NEW r \in Runs
      PROVE  /\ Environment(db[r], db'[r]) /\ RecordStep(db[r], db'[r]) /\ SessionStep(db[r], db'[r])
             /\ db'[r].ckpt = db[r].ckpt
  <2>1. db[r] \in RunRecord /\ Touch(db[r]).session = db[r].session /\ Touch(db[r]).ckpt = db[r].ckpt
    BY <1>1 DEF Touch, RunRecord
  <2> QED BY <1>3, <2>1 DEF Environment, RecordStep, Request, SessionStep
<1>6. Forget
  <2>1. \A r \in Runs : db'[r].ckpt = 0 => saved[r] = Fresh
    BY <1>5, HostTypes DEF Stored
  <2> QED BY <1>1, <1>2, <2>1 DEF Forget
<1>7. ASSUME NEW r \in Runs
      PROVE  mem'[r] \in [Hosts -> Memory] /\ \A k \in Hosts : Still(mem[r][k], mem'[r][k])
  <2>1. mem[r] \in [Hosts -> Memory]
    BY <1>1
  <2>2. PICK e : e = [mem[r][h] EXCEPT !.aborted = TRUE]
    OBVIOUS
  <2>3. e \in Memory
    BY <2>1, <2>2 DEF Memory
  <2>4. mem'[r] = mem[r] \/ mem'[r] = [mem[r] EXCEPT ![h] = e]
    BY <1>2, <2>2
  <2>5. ASSUME NEW k \in Hosts PROVE mem'[r][k] = mem[r][k] \/ (k = h /\ mem'[r][k] = e)
    BY <2>1, <2>4
  <2> QED BY <2>1, <2>2, <2>3, <2>4, <2>5 DEF Still
<1>8. mem' \in [Runs -> [Hosts -> Memory]]
  BY <1>1, <1>2, <1>7
<1>9. RecordsShape
  BY <1>4, <1>5 DEF RecordsShape
<1> QED BY <1>2, <1>4, <1>5, <1>6, <1>7, <1>8, <1>9, QuietRuns

-----------------------------------------------------------------------------
(* Commands.                                                                *)

Command == {"run.cancel", "run.recover", "run.resume", "run.submit"}

\* What a claim that answers with a command tells of the run, other than that
\* it was cancelled.
Given(rt, y, command) ==
  /\ y.lease # "NONE" /\ y.runtime = rt
  /\ command = "run.submit" => Unstarted(y)
  /\ command = "run.recover" => y.status = "RUNNING"
  /\ command = "run.resume" => Granted(y) /\ y.latest # NoApproval

LEMMA TakenOver ==
  ASSUME NEW rt, NEW r, NEW x \in RunRecord, NEW bad, CanTakeOver(r, x, bad),
         NEW y, y = TakeOver(rt, r, x, bad)
  PROVE  /\ y.lease = x.lease /\ y.runtime = rt /\ y.status = x.status /\ y.reason = x.reason
         /\ y.latest = x.latest
<1> DEFINE given == IF x.status = "RUNNING" THEN NoApproval ELSE x.latest
           count == IF x.status = "RUNNING" THEN x.recoveries + 1 ELSE x.recoveries
           z == [x EXCEPT !.runtime = rt, !.session = nextSession, !.age = 0,
                          !.delivered = given, !.recoveries = count]
<1>1. x.ckpt # 0 /\ (x.status = "RUNNING" => ~RecoveriesSpent(x)) /\ r \notin bad
  BY DEF CanTakeOver, RunRecord
<1>2. y = z
  BY <1>1 DEF TakeOver
<1>3. z.lease = x.lease /\ z.runtime = rt /\ z.status = x.status /\ z.reason = x.reason /\ z.latest = x.latest
  BY DEF RunRecord
<1> QED BY <1>2, <1>3

LEMMA ClaimHeldGives ==
  ASSUME TypeOK, NEW rt \in Runtimes, NEW r \in Runs, NEW before \in SUBSET Runs, NEW bad \in SUBSET Runs,
         NEW command \in Command \ {"run.cancel"}, ClaimHeld(rt, r, before, bad, command)
  PROVE  Given(rt, db'[r], command)
<1>1. PICK x \in RunRecord : x = db[r]
  BY DEF TypeOK
<1>2. PICK y : y = HeldVisit(rt, r, x, bad)
  OBVIOUS
<1>3. /\ x.lease = "ACTIVE" /\ x.runtime = rt /\ HeldAnswer(rt, r, x, bad) = command /\ db'[r] = y
  BY <1>1, <1>2 DEF ClaimHeld, HeldBy, AfterHeld
<1>4. command \in {"run.recover", "run.resume", "run.submit"}
  BY DEF Command
<1>5. CASE command = "run.recover"
  <2>1. x.status = "RUNNING" /\ Served(rt, r) /\ x.age >= 2 /\ CanTakeOver(r, x, bad)
    BY <1>3, <1>5 DEF HeldAnswer
  <2>2. ~Terminal(x) /\ ~Unstarted(x) /\ ~Granted(x)
    BY <2>1 DEF Terminal, TerminalRun, Unstarted, Granted
  <2>3. y = TakeOver(rt, r, x, bad)
    BY <1>2, <1>3, <1>5, <2>1, <2>2 DEF HeldVisit
  <2>4. y.lease = x.lease /\ y.runtime = rt /\ y.status = x.status
    BY <2>1, <2>3, TakenOver
  <2> QED BY <1>3, <1>5, <2>1, <2>4 DEF Given
<1>6. CASE command = "run.resume"
  <2>1. Granted(x) /\ x.latest # NoApproval
    BY <1>3, <1>6 DEF HeldAnswer
  <2>2. ~Terminal(x) /\ ~Unstarted(x) /\ x.status # "RUNNING"
    BY <2>1, TransportAssumption DEF Terminal, TerminalRun, Unstarted, Granted
  <2>3. y = [x EXCEPT !.age = 0, !.delivered = x.latest]
    BY <1>2, <1>3, <1>6, <2>2 DEF HeldVisit
  <2>4. y.lease = x.lease /\ y.runtime = x.runtime /\ y.status = x.status /\ y.reason = x.reason /\ y.latest = x.latest
    BY <2>3 DEF RunRecord
  <2> QED BY <1>3, <1>6, <2>1, <2>4 DEF Given, Granted
<1>7. CASE command = "run.submit"
  <2>1. Unstarted(x) /\ x.age >= 1 /\ r \notin bad /\ Served(rt, r)
    BY <1>3, <1>7 DEF HeldAnswer
  <2>2. ~Terminal(x) /\ x.status # "RUNNING"
    BY <2>1 DEF Terminal, TerminalRun, Unstarted
  <2>3. y = [x EXCEPT !.age = 0, !.delivered = NoApproval]
    BY <1>2, <1>3, <1>7, <2>1, <2>2 DEF HeldVisit
  <2>4. y.lease = x.lease /\ y.runtime = x.runtime /\ y.status = x.status /\ y.reason = x.reason
    BY <2>3 DEF RunRecord
  <2> QED BY <1>3, <1>7, <2>1, <2>4 DEF Given, Unstarted
<1> QED BY <1>4, <1>5, <1>6, <1>7

LEMMA ClaimAbandonedGives ==
  ASSUME TypeOK, NEW rt \in Runtimes, NEW r \in Runs, NEW before \in SUBSET Runs, NEW bad \in SUBSET Runs,
         ClaimAbandoned(rt, r, before, bad)
  PROVE  Given(rt, db'[r], IF db'[r].status = "RUNNING" THEN "run.recover" ELSE "run.resume")
<1> DEFINE d == AfterHeld(rt, HeldBy(rt), bad)
           seen == before \cup {r}
<1>1. /\ d \in [Runs -> RunRecord]
      /\ db' = AfterAbandoned(rt, d, seen, bad)
      /\ r \in AbandonedFor(rt, d) /\ CanTakeOver(r, d[r], bad)
  BY AfterHeldPass DEF TypeOK, ClaimAbandoned
<1> HIDE DEF d
<1>2. PICK x \in RunRecord : x = d[r]
  BY <1>1
<1>3. /\ db'[r] = TakeOver(rt, r, x, bad) /\ CanTakeOver(r, x, bad) /\ Abandoned(x)
  BY <1>1, <1>2 DEF AfterAbandoned, AbandonedFor
<1>4. /\ x.lease = "ACTIVE" /\ (x.status = "RUNNING" \/ Granted(x))
      /\ Granted(x) => x.latest # NoApproval
  BY <1>3 DEF Abandoned, Expired, CanTakeOver
<1>5. PICK y : y = db'[r]
  OBVIOUS
<1>6. y.lease = x.lease /\ y.runtime = rt /\ y.status = x.status /\ y.reason = x.reason /\ y.latest = x.latest
  BY <1>3, <1>5, TakenOver
<1>7. Given(rt, y, IF y.status = "RUNNING" THEN "run.recover" ELSE "run.resume")
  BY <1>4, <1>6 DEF Given, Granted
<1> QED BY <1>5, <1>7

LEMMA ClaimQueuedGives ==
  ASSUME TypeOK, NEW rt \in Runtimes, NEW r \in Runs, NEW before \in SUBSET Runs, NEW bad \in SUBSET Runs,
         ClaimQueued(rt, r, before, bad)
  PROVE  Given(rt, db'[r], "run.submit")
<1> DEFINE d == AfterHeld(rt, HeldBy(rt), bad)
           e == AfterAbandoned(rt, d, AbandonedFor(rt, d), bad)
<1>1. /\ HeldBy(rt) = SilentHeld(rt, bad)
      /\ \A q \in AbandonedFor(rt, d) : ~CanTakeOver(q, d[q], bad)
      /\ r \in ClaimableFor(rt, e) /\ r \notin bad
      /\ db' = AfterQueued(rt, e, before \cup {r}, bad)
  BY DEF ClaimQueued
<1>2. e \in [Runs -> RunRecord]
  <2> HIDE DEF d, e
  <2> QED BY <1>1, QuietLoops DEF d, e
<1> HIDE DEF d, e
<1>3. PICK x \in RunRecord : x = e[r]
  BY <1>2
<1>4. PICK y : y = db'[r]
  OBVIOUS
<1>5. Unstarted(x) /\ y = [x EXCEPT !.lease = "ACTIVE", !.runtime = rt, !.session = nextSession,
                                    !.age = 0, !.delivered = NoApproval]
  BY <1>1, <1>3, <1>4 DEF ClaimableFor, Claimable, AfterQueued, QueueVisit
<1>6. y.lease = "ACTIVE" /\ y.runtime = rt /\ y.status = x.status /\ y.reason = x.reason
  BY <1>5 DEF RunRecord
<1>7. Given(rt, y, "run.submit")
  BY <1>5, <1>6 DEF Given, Unstarted
<1> QED BY <1>4, <1>7

\* A process without the run begins with what the command tells it.
LEMMA ReceivedFits ==
  ASSUME NEW h \in Hosts, NEW rt, rt = IdentityOf[h], NEW y \in RunRecord, RunInv(y), NEW v, NEW g,
         NEW m, m.pc = "idle", NEW command \in Command, command # "run.cancel", Given(rt, y, command),
         NEW n, n = Received(m, y, command)
  PROVE  /\ n \in Memory /\ Fits(h, y, v, g, n) /\ n.pc # "idle"
         /\ n.session = y.session /\ ~StartedStep(n)
<1>1. command \in {"run.recover", "run.resume", "run.submit"}
  BY DEF Command
<1>2. n = [Idle EXCEPT
            !.pc = IF command = "run.submit" THEN "start" ELSE "load",
            !.session = y.session, !.seq = y.seq,
            !.recovers = (command = "run.recover"),
            !.approval = IF command = "run.resume" THEN y.latest ELSE NoApproval,
            !.open = IF command = "run.recover"
                       THEN {s \in Steps : y.step[s] \in OpenStep} ELSE {}]
  BY <1>1 DEF Received
<1>3. Idle \in Memory
  BY IdleFits
<1>4. /\ n.pc = (IF command = "run.submit" THEN "start" ELSE "load")
      /\ n.session = y.session /\ n.seq = y.seq
      /\ n.recovers <=> command = "run.recover"
      /\ n.approval = (IF command = "run.resume" THEN y.latest ELSE NoApproval)
      /\ n.open = (IF command = "run.recover" THEN OpenSteps(y) ELSE {})
      /\ n.version = 0 /\ ~n.sent /\ n.work = Fresh
  BY <1>2 DEF Idle, OpenSteps
<1>5. n \in Memory
  <2> DEFINE place == IF command = "run.submit" THEN "start" ELSE "load"
             recovers == command = "run.recover"
             approval == IF command = "run.resume" THEN y.latest ELSE NoApproval
             open == IF command = "run.recover" THEN {s \in Steps : y.step[s] \in OpenStep} ELSE {}
  <2>1. /\ place \in Place /\ recovers \in BOOLEAN /\ approval \in Approvals \cup {NoApproval}
        /\ open \in SUBSET Steps /\ y.session \in Nat /\ y.seq \in Nat
    BY DEF Place, RunRecord
  <2>2. n = [Idle EXCEPT !.pc = place, !.session = y.session, !.seq = y.seq,
                         !.recovers = recovers, !.approval = approval, !.open = open]
    BY <1>2
  <2> HIDE DEF place, recovers, approval, open
  <2> QED BY <1>3, <2>1, <2>2 DEF Memory
<1>6. /\ Fresh.phase = "model" /\ Fresh.step = NoStep /\ Fresh.request = NoRequest
      /\ Fresh.approval = NoApproval /\ Fresh.call = 0
  BY DEF Fresh
<1>7. /\ Working(n) /\ ~InFlight(n) /\ ~StartedStep(n) /\ Base(n) = y.seq
  BY <1>1, <1>4 DEF Working, InFlight, StartedStep, Flying, Base
<1>8. MemoryShape(n)
  BY <1>1, <1>4, <1>6 DEF MemoryShape, WorkShape, InCall, Flying, Given
<1>9. FindsCall(n) /\ InStep(y, n) /\ HoldsLease(h, y, n)
  BY <1>1, <1>4, <1>7 DEF FindsCall, InStep, HoldsLease, Given, Current, RunRecord
<1>10. KnowsSteps(y, n)
  <2>1. CASE command = "run.submit"
    <3>1. \A s \in Steps : y.step[s] = "NONE"
      BY <2>1, TransportAssumption DEF Given, Unstarted, Granted, RunInv, NoStepLeftPaused
    <3>2. OpenSteps(y) = {}
      BY <3>1 DEF OpenSteps, OpenStep
    <3> QED BY <1>4, <2>1, <3>2 DEF KnowsSteps
  <2>2. CASE command # "run.submit"
    <3>1. n.pc = "load" /\ (n.recovers => n.open = OpenSteps(y)) /\ OpenSteps(y) \subseteq Steps
      BY <1>4, <2>2 DEF OpenSteps
    <3>2. Known(n) = IF n.recovers THEN n.open ELSE Steps
      BY <3>1 DEF Known
    <3> QED BY <3>1, <3>2 DEF KnowsSteps
  <2> QED BY <2>1, <2>2
<1>11. KnowsRelease(y, v, n)
  BY <1>1, <1>4 DEF KnowsRelease, Given
<1>12. KnowsCheckpoint(y, v, n) /\ CallAccounted(y, v, g, n) /\ BetweenCalls(y, v, n) /\ KnowsDecision(g, n)
  BY <1>1, <1>4, <1>7 DEF KnowsCheckpoint, CallAccounted, BetweenCalls, KnowsDecision, Flying
<1> QED BY <1>4, <1>5, <1>7, <1>8, <1>9, <1>10, <1>11, <1>12 DEF Fits, Working

\* A claim that answers about a run starts one process on it: none other works
\* for the session the record names then.
LEMMA ClaimedRun ==
  ASSUME OwnIdentity, HostInv, NEW r \in Runs, NEW h \in Hosts,
         db'[r] \in RunRecord, Calmly(db[r], db'[r]), RunInv(db'[r]),
         NEW command \in Command \ {"run.cancel"}, Given(IdentityOf[h], db'[r], command),
         mem[r][h].pc = "idle", NEW n, n = Received(mem[r][h], db'[r], command),
         mem'[r] = [mem[r] EXCEPT ![h] = n],
         saved'[r] = Left(db'[r], saved[r]), gate'[r] = gate[r]
  PROVE  Together(r)' /\ mem'[r] \in [Hosts -> Memory]
<1>1. /\ db[r] \in RunRecord /\ saved[r] \in KernelState /\ gate[r] \in Gates
      /\ \A k \in Hosts : mem[r][k] \in Memory
      /\ mem[r] \in [Hosts -> Memory] /\ RunInv(db[r])
      /\ Stored(db[r], saved[r], gate[r])
      /\ \A k \in Hosts : Fits(k, db[r], saved[r], gate[r], mem[r][k])
      /\ \A j, k \in Hosts : j # k => Alone(db[r], mem[r][j], mem[r][k])
  BY HostTypes
<1>2. PICK x \in RunRecord, y \in RunRecord, v \in KernelState, g \in Gates :
        x = db[r] /\ y = db'[r] /\ v = saved[r] /\ g = gate[r]
  BY <1>1
<1>3. Stored(y, Left(y, v), g)
  BY <1>1, <1>2, CalmlyStored DEF Gates
<1>4. /\ n \in Memory /\ Fits(h, y, Left(y, v), g, n) /\ n.pc # "idle"
      /\ n.session = y.session /\ ~StartedStep(n)
  <2>1. PICK m : m = mem[r][h]
    OBVIOUS
  <2>2. PICK w, rt : w = Left(y, v) /\ rt = IdentityOf[h]
    OBVIOUS
  <2>3. /\ h \in Hosts /\ rt = IdentityOf[h]
        /\ y \in RunRecord /\ RunInv(y) /\ m.pc = "idle" /\ command \in Command /\ command # "run.cancel"
        /\ Given(rt, y, command) /\ n = Received(m, y, command)
    BY <1>2, <2>1, <2>2
  <2>4. /\ n \in Memory /\ Fits(h, y, w, g, n) /\ n.pc # "idle"
        /\ n.session = y.session /\ ~StartedStep(n)
    BY ONLY <2>3, ReceivedFits
  <2> QED BY <2>2, <2>4
<1>5. ASSUME NEW k \in Hosts
      PROVE  Fits(k, y, Left(y, v), g, mem[r][k])
  BY <1>1, <1>2, GentlyFits DEF Calmly
<1>6. mem'[r][h] = n /\ \A k \in Hosts \ {h} : mem'[r][k] = mem[r][k]
  BY <1>1
<1>7. ASSUME NEW k \in Hosts
      PROVE  Fits(k, y, Left(y, v), g, mem'[r][k])
  <2>1. CASE k = h
    BY <1>4, <1>6, <2>1
  <2>2. CASE k # h
    BY <1>5, <1>6, <2>2
  <2> QED BY <2>1, <2>2
<1>8. ASSUME NEW j \in Hosts, NEW k \in Hosts, j # k
      PROVE  Alone(y, mem'[r][j], mem'[r][k])
  <2>1. CASE j = h
    BY <1>4, <1>6, <2>1 DEF Alone
  <2>2. CASE j # h
    <3>1. mem'[r][j] = mem[r][j]
      BY <1>6, <2>2
    <3>2. CASE k = h
      <4>1. y.runtime = IdentityOf[h]
        BY <1>2 DEF Given
      <4>2. ~Current(y, mem[r][j])
        BY <1>5, <2>2, <4>1 DEF Fits, HoldsLease, Current, OwnIdentity
      <4> QED BY <3>1, <4>2 DEF Alone
    <3>3. CASE k # h
      <4>1. Alone(x, mem[r][j], mem[r][k])
        BY <1>1, <1>2, <1>8
      <4>2. Alone(y, mem[r][j], mem[r][k])
        BY <1>1, <1>2, <4>1, GentlyAlone DEF Calmly, Fits
      <4> QED BY <1>6, <3>1, <3>3, <4>2
    <3> QED BY <3>2, <3>3
  <2> QED BY <2>1, <2>2
<1>9. saved'[r] = Left(y, v) /\ gate'[r] = g
  BY <1>2
<1>10. mem'[r] \in [Hosts -> Memory]
  BY <1>1, <1>4
<1> QED BY <1>2, <1>3, <1>7, <1>8, <1>9, <1>10 DEF Together

\* The answer of a claim, received, dropped or lost.
LEMMA AnsweredKeeps ==
  ASSUME OwnIdentity, "run.paused" \notin RuntimeEvents, HostInv, ClaimsShape, poll' = poll,
         NEW h \in Hosts, NEW r \in Runs, NEW command \in Command, Answered(h, r, command),
         command # "run.cancel" => Given(IdentityOf[h], db'[r], command)
  PROVE  HostStep
<1>1. /\ mem \in [Runs -> [Hosts -> Memory]] /\ saved \in [Runs -> KernelState]
      /\ gate \in [Runs -> Gates] /\ poll \in [Runtimes -> {"idle", "expired", "reaped"}]
  BY DEF HostInv, HostTypeOK, TypeOK, Gates
<1>2. RecordsShape /\ \A q \in Runs : Environment(db[q], db'[q])
  BY DEF ClaimsShape, Environment
<1>3. Forget /\ gate' = gate
  BY DEF Answered
<1>4. CASE mem' = mem
  BY <1>1, <1>2, <1>3, <1>4, QuietRuns DEF Still
<1>5. ASSUME NEW n, n = Received(mem[r][h], db'[r], command),
             mem' = [mem EXCEPT ![r][h] = Kept(n)]
      PROVE  HostStep
  <2>1. PICK m \in Memory : m = mem[r][h]
    BY <1>1
  <2>2. CASE command = "run.cancel" \/ m.pc # "idle"
    <3>1. Still(m, Kept(n))
      <4>1. n \in {m, [m EXCEPT !.aborted = TRUE]}
        BY <1>5, <2>1, <2>2 DEF Received
      <4> QED BY <4>1 DEF Kept, Still
    <3>2. Kept(n) \in Memory
      BY <2>1, <3>1, AbortedFits, IdleFits DEF Still, Memory
    <3>3. mem' \in [Runs -> [Hosts -> Memory]]
      BY <1>1, <1>5, <3>2
    <3>4. ASSUME NEW q \in Runs, NEW k \in Hosts PROVE Still(mem[q][k], mem'[q][k])
      <4>1. mem'[q][k] = mem[q][k] \/ (q = r /\ k = h /\ mem'[q][k] = Kept(n))
        BY <1>1, <1>5
      <4> QED BY <2>1, <3>1, <4>1 DEF Still
    <3> QED BY <1>2, <1>3, <3>3, <3>4, QuietRuns
  <2>3. CASE command # "run.cancel" /\ m.pc = "idle"
    <3>1. RunInv(db[r]) /\ db[r] \in RunRecord /\ nextSession \in Nat /\ db[r].session < nextSession
      BY HostTypes
    <3>2. db'[r] \in RunRecord /\ RecordStep(db[r], db'[r]) /\ Environment(db[r], db'[r])
      BY <1>2 DEF RecordsShape
    <3>3. RunInv(db'[r]) /\ Calmly(db[r], db'[r])
      BY <3>1, <3>2, RecordStepInv, EnvironmentCalm
    <3>4. n.pc # "idle" /\ n \in Memory
      <4>1. PICK y, rt, v, g : y = db'[r] /\ rt = IdentityOf[h] /\ v = saved[r] /\ g = gate[r]
        OBVIOUS
      <4>2. /\ h \in Hosts /\ rt = IdentityOf[h]
            /\ y \in RunRecord /\ RunInv(y) /\ m.pc = "idle" /\ command \in Command /\ command # "run.cancel"
            /\ Given(rt, y, command) /\ n = Received(m, y, command)
        BY <1>5, <2>1, <2>3, <3>2, <3>3, <4>1
      <4> QED BY ONLY <4>2, ReceivedFits
    <3>5. mem' = [mem EXCEPT ![r][h] = n]
      BY <1>5, <3>4 DEF Kept
    <3>6. mem'[r] = [mem[r] EXCEPT ![h] = n] /\ \A q \in Runs \ {r} : mem'[q] = mem[q]
      BY <1>1, <3>5
    <3>7. Fresh \in KernelState
      BY HostAssumption DEF Fresh, KernelState
    <3>8. /\ saved' \in [Runs -> KernelState]
          /\ \A q \in Runs : saved'[q] = Left(db'[q], saved[q])
      BY <1>1, <1>3, <3>7 DEF Forget, Left
    <3>9. Together(r)' /\ mem'[r] \in [Hosts -> Memory]
      BY <1>3, <1>5, <2>1, <2>3, <3>2, <3>3, <3>6, <3>8, ClaimedRun
    <3>10. ASSUME NEW q \in Runs \ {r} PROVE Together(q)'
      <4>1. /\ db[q] \in RunRecord /\ RunInv(db[q]) /\ nextSession \in Nat /\ db[q].session < nextSession
            /\ db'[q] \in RunRecord /\ Environment(db[q], db'[q])
        BY <1>2, HostTypes DEF RecordsShape
      <4>2. Calmly(db[q], db'[q])
        BY <4>1, EnvironmentCalm
      <4>3. \A k \in Hosts : Still(mem[q][k], mem'[q][k])
        BY <3>6 DEF Still
      <4>4. saved'[q] = Left(db'[q], saved[q]) /\ gate'[q] = gate[q]
        BY <1>3, <3>8
      <4> QED BY <4>1, <4>2, <4>3, <4>4, RunCalm
    <3>11. mem' \in [Runs -> [Hosts -> Memory]]
      BY <1>1, <3>4, <3>5
    <3> QED BY <1>1, <1>2, <1>3, <3>8, <3>9, <3>10, <3>11 DEF HostStep
  <2> QED BY <2>2, <2>3
<1> QED BY <1>4, <1>5 DEF Answered, Keep, Kept

\* The claim that looks for a command and finds none.
LEMMA PollKeeps ==
  ASSUME OwnIdentity, "run.paused" \notin RuntimeEvents, HostInv, NEW h \in Hosts, Poll(h)
  PROVE  HostStep
<1>1. PICK rt \in Runtimes : rt = IdentityOf[h]
  BY HostAssumption
<1>2. TypeOK /\ poll' = poll
  BY DEF HostInv, HostTypeOK, Poll
<1>3. ASSUME NEW bad \in SUBSET Runs, NEW r \in Runs, NEW before \in SUBSET Runs, NEW command \in Command,
             ClaimHeld(rt, r, before, bad, command), Answered(h, r, command)
      PROVE  HostStep
  <2>1. ClaimsShape
    BY <1>2, <1>3, ClaimHeldShape
  <2>2. command # "run.cancel" => Given(IdentityOf[h], db'[r], command)
    BY <1>1, <1>2, <1>3, ClaimHeldGives
  <2> QED BY <1>2, <1>3, <2>1, <2>2, AnsweredKeeps
<1>4. ASSUME NEW bad \in SUBSET Runs, NEW r \in Runs, NEW before \in SUBSET Runs,
             ClaimAbandoned(rt, r, before, bad),
             Answered(h, r, IF db'[r].status = "RUNNING" THEN "run.recover" ELSE "run.resume")
      PROVE  HostStep
  <2>1. PICK command : command = IF db'[r].status = "RUNNING" THEN "run.recover" ELSE "run.resume"
    OBVIOUS
  <2>2. command \in Command
    BY <2>1 DEF Command
  <2>3. ClaimsShape /\ Given(IdentityOf[h], db'[r], command)
    BY <1>1, <1>2, <1>4, <2>1, ClaimAbandonedShape, ClaimAbandonedGives
  <2>4. Answered(h, r, command)
    BY <1>4, <2>1
  <2> QED BY <1>2, <2>2, <2>3, <2>4, AnsweredKeeps
<1>5. ASSUME NEW bad \in SUBSET Runs, NEW r \in Runs, NEW before \in SUBSET Runs,
             ClaimQueued(rt, r, before, bad), Answered(h, r, "run.submit")
      PROVE  HostStep
  <2>1. ClaimsShape /\ Given(IdentityOf[h], db'[r], "run.submit")
    BY <1>1, <1>2, <1>5, ClaimQueuedShape, ClaimQueuedGives
  <2> QED BY <1>2, <1>5, <2>1, AnsweredKeeps DEF Command
<1>6. ASSUME NEW bad \in SUBSET Runs, ClaimNothing(rt, bad), Forget, UNCHANGED <<mem, gate>>
      PROVE  HostStep
  <2>1. RecordsShape /\ \A q \in Runs : Environment(db[q], db'[q])
    BY <1>2, <1>6, ClaimNothingShape DEF ClaimsShape, Environment
  <2>2. mem \in [Runs -> [Hosts -> Memory]]
    BY DEF HostInv, HostTypeOK
  <2> QED BY <1>2, <1>6, <2>1, <2>2, QuietRuns DEF Still
<1> QED BY <1>1, <1>3, <1>4, <1>5, <1>6 DEF Poll, Command

-----------------------------------------------------------------------------
(* The invariant and what it says.                                          *)

LEMMA HostInitial ==
  ASSUME HostInit
  PROVE  HostInv
<1>1. TypeOK /\ Inductive
  BY TypeInit, InductiveInit DEF HostInit
<1>2. Fresh \in KernelState /\ Idle \in Memory /\ Unasked \in Decision
  BY HostAssumption, IdleFits DEF Fresh, KernelState, Unasked, Decision
<1>3. HostTypeOK
  BY <1>1, <1>2 DEF HostInit, HostTypeOK
<1>4. ASSUME NEW r \in Runs PROVE Together(r)
  <2>1. /\ db[r] = Absent /\ saved[r] = Fresh /\ (\A h \in Hosts : mem[r][h] = Idle)
        /\ \A q \in Requests : gate[r][q] = Unasked
    BY <1>4 DEF HostInit, Init
  <2>2. Absent.status = "NONE" /\ Absent.ckpt = 0
    BY DEF Absent
  <2>3. Stored(db[r], saved[r], gate[r])
    <3>1. \A q \in Requests : gate[r][q].decision = "NONE"
      BY <2>1 DEF Unasked
    <3>2. RequestsSaved(Absent, Fresh, gate[r]) /\ OneEach(gate[r])
      BY <3>1 DEF RequestsSaved, OneEach
    <3>3. SavedShape(Fresh)
      BY DEF SavedShape, WorkShape, Fresh
    <3>4. /\ SavedCallOpen(Absent, Fresh) /\ WaitsForSaved(Absent, Fresh, gate[r])
          /\ SavedApproval(Absent, Fresh, gate[r]) /\ ClosedWhenCompleted(Absent)
      BY <2>2 DEF SavedCallOpen, WaitsForSaved, SavedApproval, ClosedWhenCompleted, Granted
    <3> QED BY <2>1, <3>2, <3>3, <3>4 DEF Stored
  <2>4. \A h \in Hosts : Fits(h, db[r], saved[r], gate[r], mem[r][h])
    BY <2>1, IdleFits
  <2>5. \A h, k \in Hosts : Alone(db[r], mem[r][h], mem[r][k])
    BY <2>1 DEF Alone, Working, Idle
  <2> QED BY <2>3, <2>4, <2>5 DEF Together
<1> QED BY <1>1, <1>3, <1>4 DEF HostInv

\* What a step leaves behind is the invariant.
LEMMA HostStepInv ==
  ASSUME "run.paused" \notin RuntimeEvents, HostInv, HostStep
  PROVE  HostInv'
<1>1. TypeOK /\ Inductive
  BY DEF HostInv, HostTypeOK
<1>2. /\ db' \in [Runs -> RunRecord] /\ nextSession' \in {nextSession, nextSession + 1}
      /\ \A r \in Runs : RecordStep(db[r], db'[r]) /\ SessionStep(db[r], db'[r])
  BY DEF HostStep, RecordsShape
<1>3. ASSUME NEW r \in Runs
      PROVE  db'[r].recoveries <= MAX_RUN_RECOVERIES /\ RunInv(db'[r])
  BY <1>1, <1>2, RecoveriesBounded, RecordStepInv DEF TypeOK, Inductive
<1>4. nextSession' \in Nat \ {0}
  BY <1>1, <1>2 DEF TypeOK
<1>5. ASSUME NEW r \in Runs PROVE db'[r].session < nextSession'
  <2>1. db[r].session \in Nat /\ db[r].session < nextSession /\ nextSession \in Nat
    BY <1>1 DEF TypeOK, Inductive, RunRecord
  <2> QED BY <1>2, <2>1 DEF SessionStep
<1>6. TypeOK'
  BY <1>2, <1>3, <1>4 DEF HostStep, TypeOK
<1>7. Inductive'
  BY <1>3, <1>5 DEF Inductive, RunInv, GateHolds, ReleasedIsResumable, NoStepLeftPaused,
                    EndIsClean, CheckpointFits, Granted, Unstarted, Terminal, Pending
<1>8. HostTypeOK'
  BY <1>6 DEF HostStep, HostTypeOK, Gates
<1> QED BY <1>7, <1>8 DEF HostInv, HostStep

LEMMA ExecuteKeeps ==
  ASSUME OwnIdentity, KernelEvent \subseteq RuntimeEvents, HostInv,
         NEW h \in Hosts, NEW r \in Runs, Execute(h, r)
  PROVE  HostStep
<1>1. CASE Start(h, r) \/ Resume(h, r) \/ FailOrphan(h, r) \/ StartStep(h, r)
           \/ FinishStep(h, r) \/ FailStep(h, r) \/ Finish(h, r)
  BY <1>1, StartKeeps, ResumeKeeps, FailOrphanKeeps, StartStepKeeps, FinishStepKeeps, FailStepKeeps,
     FinishKeeps
<1>2. CASE Load(h, r) \/ ModelTurn(h, r) \/ BeginCall(h, r) \/ Ask(h, r) \/ Act(h, r)
  BY <1>2, LoadKeeps, ModelTurnKeeps, BeginCallKeeps, AskKeeps, ActKeeps
<1>3. CASE SaveStart(h, r) \/ SaveTurn(h, r) \/ SaveFly(h, r) \/ SavePause(h, r) \/ SaveCarry(h, r)
           \/ SaveResult(h, r)
  BY <1>3, SaveStartKeeps, SaveTurnKeeps, SaveFlyKeeps, SavePauseKeeps, SaveCarryKeeps, SaveResultKeeps
<1> QED BY <1>1, <1>2, <1>3 DEF Execute

LEMMA HostNextInv ==
  ASSUME OwnIdentity, KernelEvent \subseteq RuntimeEvents, "run.paused" \notin RuntimeEvents,
         HostInv, [HostNext]_allVars
  PROVE  HostInv'
<1>1. CASE ControlPlane
  BY <1>1, ControlPlaneKeeps, HostStepInv
<1>2. ASSUME NEW h \in Hosts, Poll(h) \/ HostHeartbeat(h) \/ Crash(h) PROVE HostInv'
  BY <1>2, PollKeeps, HostHeartbeatKeeps, CrashKeeps, HostStepInv
<1>3. ASSUME NEW h \in Hosts, NEW r \in Runs, Execute(h, r) PROVE HostInv'
  BY <1>3, ExecuteKeeps, HostStepInv
<1>4. CASE UNCHANGED allVars
  <2>1. /\ db' = db /\ nextSession' = nextSession /\ poll' = poll
        /\ mem' = mem /\ saved' = saved /\ gate' = gate
    BY <1>4 DEF allVars
  <2>2. HostTypeOK' /\ Inductive'
    BY <2>1 DEF HostInv, HostTypeOK, TypeOK, Inductive
  <2>3. ASSUME NEW r \in Runs PROVE Together(r)'
    BY <2>1 DEF HostInv, Together
  <2> QED BY <2>2, <2>3 DEF HostInv
<1> QED BY <1>1, <1>2, <1>3, <1>4 DEF HostNext

\* What is stored of a run, the decisions recorded about it and the memory of
\* every process that ever worked on it fit together in every reachable state,
\* whatever is lost, repeated, taken over or restarted.
THEOREM HostInvariant ==
  ASSUME OwnIdentity, KernelEvent \subseteq RuntimeEvents, "run.paused" \notin RuntimeEvents
  PROVE  HostSpec => []HostInv
<1>1. HostInit => HostInv
  BY HostInitial
<1>2. HostInv /\ [HostNext]_allVars => HostInv'
  BY HostNextInv
<1> QED BY <1>1, <1>2, PTL DEF HostSpec

\* A completed run has no step left open, though several processes may have
\* worked on it, a release always finds the call that waits for it, and the
\* steps of a run fit its status (runtime-host.ts continue, native-kernel.ts resume).
THEOREM HostSoundHolds ==
  ASSUME OwnIdentity, KernelEvent \subseteq RuntimeEvents, "run.paused" \notin RuntimeEvents
  PROVE  HostSpec => []HostSound
<1>1. ASSUME HostInv PROVE HostSound
  <2>1. HostTypeOK
    BY <1>1 DEF HostInv
  <2>2. CompletedStepsClosed
    <3>1. \A r \in Runs : ClosedWhenCompleted(db[r])
      BY <1>1, HostTypes DEF Stored
    <3> QED BY <3>1 DEF CompletedStepsClosed, ClosedWhenCompleted, OpenSteps
  <2>3. ApprovalFindsItsCall
    BY <1>1, HostTypes DEF ApprovalFindsItsCall, Fits, FindsCall
  <2>4. StepsFollowRun
    <3>1. \A r \in Runs : RunInv(db[r])
      BY <1>1, HostTypes
    <3>2. \A r \in Runs : NoStepLeftPaused(db[r])
      BY <3>1, Zenon DEF RunInv
    <3> QED BY <3>2 DEF StepsFollowRun
  <2> QED BY <2>1, <2>2, <2>3, <2>4 DEF HostSound
<1> QED BY <1>1, HostInvariant, PTL

\* A tool call asks for one action, however often its process crashes and
\* whoever continues the run: the request is fixed in a checkpoint before it is
\* made (native-kernel.ts 17-21).
THEOREM OneRequestPerCallHolds ==
  ASSUME OwnIdentity, KernelEvent \subseteq RuntimeEvents, "run.paused" \notin RuntimeEvents
  PROVE  HostSpec => []OneRequestPerCall
<1>1. ASSUME HostInv PROVE OneRequestPerCall
  <2>1. \A r \in Runs : OneEach(gate[r])
    BY <1>1, HostTypes DEF Stored
  <2> QED BY <2>1 DEF OneRequestPerCall, OneEach
<1> QED BY <1>1, HostInvariant, PTL

\* Two processes never work for the session that holds the lease, whatever a
\* stalled one still believes.
THEOREM OneWorkerPerSessionHolds ==
  ASSUME OwnIdentity, KernelEvent \subseteq RuntimeEvents, "run.paused" \notin RuntimeEvents
  PROVE  HostSpec => []OneWorkerPerSession
<1>1. ASSUME HostInv PROVE OneWorkerPerSession
  <2> SUFFICES ASSUME NEW r \in Runs, NEW h \in Hosts, NEW k \in Hosts, h # k,
                      Active(h, r), Active(k, r),
                      mem[r][h].session = db[r].session, mem[r][k].session = db[r].session
               PROVE  FALSE
    BY DEF OneWorkerPerSession
  <2>1. HoldsLease(h, db[r], mem[r][h]) /\ HoldsLease(k, db[r], mem[r][k])
    BY <1>1, HostTypes DEF Fits
  <2>2. db[r].runtime = IdentityOf[h] /\ db[r].runtime = IdentityOf[k]
    BY <2>1 DEF HoldsLease, Working, Active
  <2> QED BY <2>2 DEF OwnIdentity
<1> QED BY <1>1, HostInvariant, PTL
=============================================================================
