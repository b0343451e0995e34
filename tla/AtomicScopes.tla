---------------------------- MODULE AtomicScopes ----------------------------
(***************************************************************************)
(* What a scope of the store is to the rest of the control plane: however  *)
(* often it is run, on whatever connections, its work is kept at one       *)
(* moment or never.  Its caller is told once.  "returned" is told at that  *)
(* moment, and then the effects that were to follow it do; "failed" only of *)
(* work that is not kept and never will be; "unknown" may be told of both. *)
(***************************************************************************)
EXTENDS Naturals

CONSTANT Scopes

VARIABLES kept,      \* [Scopes -> how often its work was kept]
          followed,  \* [Scopes -> how often its effects followed]
          told       \* [Scopes -> what its caller was told]

asVars == <<kept, followed, told>>

ASInit ==
  /\ kept = [s \in Scopes |-> 0] /\ followed = [s \in Scopes |-> 0]
  /\ told = [s \in Scopes |-> "nothing"]

Open(s) == told[s] = "nothing"

\* It is kept, and nobody was there to hear of it.
Keep(s) ==
  /\ Open(s) /\ kept[s] = 0
  /\ kept' = [kept EXCEPT ![s] = 1]
  /\ UNCHANGED <<followed, told>>

Return(s) ==
  /\ Open(s) /\ kept[s] = 0
  /\ kept' = [kept EXCEPT ![s] = 1] /\ followed' = [followed EXCEPT ![s] = 1]
  /\ told' = [told EXCEPT ![s] = "returned"]

Throw(s, outcome) ==
  /\ Open(s) /\ (outcome = "failed" => kept[s] = 0)
  /\ told' = [told EXCEPT ![s] = outcome]
  /\ UNCHANGED <<kept, followed>>

ASNext ==
  \E s \in Scopes :
    Keep(s) \/ Return(s) \/ \E outcome \in {"failed", "unknown"} : Throw(s, outcome)

ASSpec == ASInit /\ [][ASNext]_asVars
=============================================================================
