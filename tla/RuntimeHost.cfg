\* One run, two processes of two runtime identities.
SPECIFICATION HostSpec
CONSTANTS
  None = None
  r1 = r1
  t1 = t1
  rt1 = rt1
  rt2 = rt2
  h1 = h1
  h2 = h2
  Runs <- OneRun
  Threads <- OneThread
  ThreadOf <- InOneThread
  Runtimes <- BothRuntimes
  NoRuntime = NoRuntime
  Serves <- AllServed
  Steps = {s1, s2}
  NoStep = NoStep
  Approvals = {a1}
  NoApproval = NoApproval
  RuntimeEvents <- HostEvents
  AnyApproval = FALSE
  MAX_RUN_RECOVERIES = 1
  Hosts <- TwoHosts
  IdentityOf <- OwnIdentities
  Requests = {q1, q2}
  NoRequest = NoRequest
  MaxCalls = 1
  MaxSequence = 7
  MaxSession = 3
  MaxCheckpoint = 6
SYMMETRY HostSymmetry
INVARIANTS
  HostSound
  OneRequestPerCall
  OneWorkerPerSession
CHECK_DEADLOCK FALSE
