--------------------------- MODULE GovernedWrites ---------------------------
(***************************************************************************)
(* What the Action Gateway promises about governed writes, without saying  *)
(* how (ADR 0005, ADR 0012, ADR 0036).                                      *)
(*                                                                         *)
(* A write is attempted at most once.  What its requester is told is never *)
(* taken back and never wrong: "succeeded" only of a write the external    *)
(* system has, "failed" only of one it does not have and will never get.   *)
(* When neither is known the requester is told "unknown", and what an      *)
(* administrator then records is what the external system shows.           *)
(*                                                                         *)
(* Late says whether a request may still reach the external system after   *)
(* its write was given up as unknown.                                       *)
(***************************************************************************)
CONSTANTS Writes, Late

VARIABLES told,     \* [Writes -> what the requester has been told]
          world,    \* [Writes -> what the external system has of it]
          verdict   \* [Writes -> what an administrator recorded]

gwVars == <<told, world, verdict>>

Telling == {"nothing", "succeeded", "failed", "unknown"}

GWInit == /\ told = [w \in Writes |-> "nothing"]
          /\ world = [w \in Writes |-> "untouched"]
          /\ verdict = [w \in Writes |-> "none"]

\* A request that may change the external system leaves the platform.
Attempt(w) ==
  /\ world[w] = "untouched"
  /\ told[w] = "nothing" \/ (Late /\ told[w] = "unknown")
  /\ world' = [world EXCEPT ![w] = "possible"]
  /\ UNCHANGED <<told, verdict>>

\* The external system applies it, refuses it or never receives it.
Settle(w) ==
  /\ world[w] = "possible"
  /\ Late \/ verdict[w] = "none"
  /\ \E outcome \in {"applied", "refused"} : world' = [world EXCEPT ![w] = outcome]
  /\ UNCHANGED <<told, verdict>>

\* Requesters learn outcomes, several at once when they are unknown.
Tell(S, outcome) ==
  /\ \A w \in S : /\ told[w] = "nothing"
                  /\ outcome = "succeeded" => world[w] = "applied"
                  /\ outcome = "failed" => world[w] \in {"untouched", "refused"}
  /\ told' = [w \in Writes |-> IF w \in S THEN outcome ELSE told[w]]
  /\ UNCHANGED <<world, verdict>>

\* A person records what the external system shows, once.
Reconcile(w) ==
  /\ told[w] = "unknown" /\ verdict[w] = "none"
  /\ Late \/ world[w] # "possible"
  /\ verdict' = [verdict EXCEPT ![w] = IF world[w] = "applied" THEN "applied" ELSE "absent"]
  /\ UNCHANGED <<told, world>>

GWNext ==
  \/ \E w \in Writes : Attempt(w) \/ Settle(w) \/ Reconcile(w)
  \/ \E S \in SUBSET Writes, outcome \in Telling \ {"nothing"} : Tell(S, outcome)

GWSpec == GWInit /\ [][GWNext]_gwVars
=============================================================================
