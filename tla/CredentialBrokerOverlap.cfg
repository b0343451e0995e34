\* A lease may end while its token is being minted.
SPECIFICATION FairSpec
CHECK_DEADLOCK FALSE
CONSTANTS
  l1 = l1
  l2 = l2
  u1 = u1
  u2 = u2
  x1 = x1
  x2 = x2
  Leases <- OneLease
  Runs <- OneRun
  RunOf <- InOneRun
  Runtimes <- OneRuntime
  NoRuntime = NoRuntime
  Minting <- OneLease
  Replays = FALSE
  Overlaps = TRUE
  Restarts = FALSE
PROPERTIES
  TokenEndsWithLease
