\* One run in depth: two runtimes, two sessions, one recovery, two steps, two approvals;
\* and two different writes of one action in one run, where anything may arrive late.
SPECIFICATION ControlSpec
CONSTANTS
  None = None
  r1 = r1
  t1 = t1
  rt1 = rt1
  rt2 = rt2
  w1 = w1
  w2 = w2
  u1 = u1
  t2 = t2
  write = write
  p1 = p1
  p2 = p2
  Runs <- OneRun
  Threads <- OneThread
  ThreadOf <- InOneThread
  Runtimes <- BothRuntimes
  NoRuntime = NoRuntime
  Serves <- AllServed
  Steps = {s1, s2}
  NoStep = NoStep
  Approvals = {a1, a2}
  NoApproval = NoApproval
  RuntimeEvents <- HostEvents
  AnyApproval = TRUE
  MAX_RUN_RECOVERIES = 1
  MaxSequence = 5
  MaxSession = 3
  MaxCheckpoint = 2
  Requests <- TwoWrites
  ActionRuns <- OneWriter
  RunOf <- WritesOfOne
  ActionThread <- WriterThread
  Actions <- OneAction
  ActionOf <- TheWrite
  PayloadOf <- OwnPayloads
  Writes <- TwoWrites
  Late = TRUE
SYMMETRY Symmetry
INVARIANTS
  RunsSound
  CheckpointWithinHistory
  OutcomesSound
  SingleDispatch
PROPERTIES
  HandOver
  CheckpointFence
  LawfulRuns
  NoWriteWhileRequired
  GateAtDispatch
  KeepsPromise
CHECK_DEADLOCK FALSE
