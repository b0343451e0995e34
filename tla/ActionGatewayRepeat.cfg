\* The same write in two threads while the control plane stops and restarts.
SPECIFICATION ControlSpec
CONSTANTS
  None = None
  w1 = w1
  w2 = w2
  u1 = u1
  u2 = u2
  t1 = t1
  t2 = t2
  write = write
  p1 = p1
  r1 = r1
  r2 = r2
  t3 = t3
  rt1 = rt1
  Focuses = {"gateway"}
  Requests <- TwoWrites
  ActionRuns <- TwoRuns
  RunOf <- InOwnRuns
  ActionThread <- OwnThreads
  Actions <- OneAction
  ActionOf <- TheWrite
  PayloadOf <- SamePayload
  Writes <- TwoWrites
  Late = FALSE
  Runs <- ThreadRuns
  Threads <- OneThread
  ThreadOf <- InOneThread
  Runtimes <- OneRuntime
  NoRuntime = NoRuntime
  Serves <- AllServed
  Steps = {s1}
  NoStep = NoStep
  Approvals = {a1}
  NoApproval = NoApproval
  RuntimeEvents <- HostEvents
  AnyApproval = TRUE
  MAX_RUN_RECOVERIES = 1
  MaxSequence = 2
  MaxSession = 3
  MaxCheckpoint = 1
PROPERTIES
  NoRepeatOfUnsettled
CHECK_DEADLOCK FALSE
