------------------------- MODULE MCCredentialBroker -------------------------
(* Small instances of CredentialBroker: checkouts l1 and l2 of one run or of  *)
(* two, the first with a minted token.                                        *)
EXTENDS CredentialBroker, TLC

CONSTANTS l1, l2, u1, u2, x1, x2

OneLease == {l1}
TwoLeases == {l1, l2}
OneRun == {u1}
TwoRuns == {u1, u2}
InOneRun == [l \in Leases |-> u1]
InOwnRuns == [l \in Leases |-> IF l = l1 THEN u1 ELSE u2]
OneRuntime == {x1}
TwoRuntimes == {x1, x2}
=============================================================================
