---------------------------- MODULE MCRuntimeHost ----------------------------
(* One run and two processes.                                              *)
EXTENDS RuntimeHost, TLC

CONSTANTS r1, t1, rt1, rt2, h1, h2

OneRun == {r1}
OneThread == {t1}
InOneThread == [r \in Runs |-> t1]
BothRuntimes == {rt1, rt2}
OneRuntime == {rt1}
AllServed == Runtimes \X Runs
TwoHosts == {h1, h2}
OneHost == {h1}
OwnIdentities == [h \in Hosts |-> IF h = h1 THEN rt1 ELSE rt2]
SharedIdentity == [h \in Hosts |-> rt1]
HostEvents == RuntimeEvent \ {"run.paused", "run.cancelled"}
\* Requests are alike, and so are the two processes with their identities.
Swapped == (h1 :> h2) @@ (h2 :> h1) @@ (rt1 :> rt2) @@ (rt2 :> rt1)
HostSymmetry == Permutations(Requests) \cup {Swapped} \cup
                {Swapped @@ f : f \in Permutations(Requests)}
=============================================================================
