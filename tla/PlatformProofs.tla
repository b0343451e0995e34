--------------------------- MODULE PlatformProofs ---------------------------
(***************************************************************************)
(* Theorems about components of the platform that need nothing of each     *)
(* other: CredentialBroker, SecretUse, Store and Sandbox, in this order.    *)
(***************************************************************************)
EXTENDS CredentialBroker, SecretUse, Store, Sandbox, SequenceTheorems, TLAPS

(***************************************************************************)
(* Theorems about CredentialBroker, for any leases, runs and runtimes.  The *)
(* first part says what each transaction does to one lease; the second      *)
(* that every step keeps every lease good and no stopped run with a live    *)
(* one.                                                                     *)
(***************************************************************************)
Good(x) == x \in LeaseRecord /\ LeaseInv(x)

-----------------------------------------------------------------------------
(* One lease at a time.                                                     *)

\* A lease that does not exist or was just issued has no token (Issue).
LEMMA IssueGood ==
  /\ Good(Unissued)
  /\ Good([Unissued EXCEPT !.status = "ISSUED"])
<1> DEFINE y == [Unissued EXCEPT !.status = "ISSUED"]
<1>1. Unissued \in LeaseRecord /\ y \in LeaseRecord
  BY DEF LeaseRecord, Unissued, Live
<1>2. LeaseInv(Unissued)  BY DEF LeaseInv, Unissued, Ended
<1>3. LeaseInv(y)  BY DEF LeaseInv, Unissued, Ended
<1> QED  BY <1>1, <1>2, <1>3 DEF Good

\* Time passes (Deadline).
LEMMA DeadlineGood ==
  ASSUME NEW x, Good(x)
  PROVE  Good([x EXCEPT !.due = TRUE])
  BY DEF Good, LeaseInv, LeaseRecord

\* A lease is ended and its token is to be withdrawn, or only the latter (Revoke,
\* StopRun, ExpireDue).
LEMMA EndGood ==
  ASSUME NEW x, Good(x), NEW status \in Ended
  PROVE  /\ Good([End(x, status) EXCEPT !.ending = TRUE])
         /\ Good([x EXCEPT !.ending = TRUE])
         /\ Good(Withdrawn(End(x, status)))
<1>1. Good([End(x, status) EXCEPT !.ending = TRUE])
  BY DEF Good, LeaseInv, LeaseRecord, End, Live, Ended
<1>2. Good([x EXCEPT !.ending = TRUE])
  BY DEF Good, LeaseInv, LeaseRecord
<1>3. Good(Withdrawn(End(x, status)))
  <2> DEFINE z == End(x, status)
  <2>1. /\ z \in LeaseRecord /\ z.status \in {x.status, status}
        /\ z.redemptions = x.redemptions /\ z.issuing = x.issuing /\ z.token = x.token
        /\ z.outstanding = x.outstanding /\ z.recall = x.recall /\ z.astray = x.astray
        /\ z.outstanding = x.outstanding /\ z.recall = x.recall
        /\ x.status \in {"NONE", "ISSUED"} => z.status # "NONE" \/ x.status = "NONE"
        /\ z.status \in {"NONE", "ISSUED"} => x.status = z.status
    BY DEF Good, LeaseRecord, End, Live, Ended
  <2> HIDE DEF z
  <2>2. Withdrawn(z) \in LeaseRecord  BY <2>1 DEF LeaseRecord, Withdrawn
  <2>3. LET w == Withdrawn(z)
        IN  /\ w.status = z.status /\ w.redemptions = z.redemptions /\ w.issuing = z.issuing
            /\ w.token = z.token /\ ~w.ending /\ ~w.outstanding
            /\ w.recall <=> z.recall \/ z.outstanding
            /\ w.astray <=> z.astray \/ (z.issuing /\ z.status \in Ended)
    BY <2>1 DEF LeaseRecord, Withdrawn
  <2>4. LeaseInv(Withdrawn(z))
    BY <2>1, <2>3 DEF Good, LeaseInv
  <2> QED  BY <2>2, <2>4 DEF Good, z
<1> QED  BY <1>1, <1>2, <1>3

\* A lease is ended by its redeemer (Release).
LEMMA ReleasedGood ==
  ASSUME NEW x, Good(x)
  PROVE  Good(Released(x))
  BY DEF Good, LeaseInv, LeaseRecord, Released, Live, Ended

\* A lease without a token is refused, or one that was used (RedeemRefused).
LEMMA RefusedGood ==
  ASSUME NEW x, Good(x)
  PROVE  /\ \A status \in Ended : x.status = "ISSUED" => Good(End(x, status))
         /\ Good(Replayed(x)) /\ (Replayed(x).status \in Live => x.status \in Live)
<1>1. \A status \in Ended : x.status = "ISSUED" => Good(End(x, status))
  BY DEF Good, LeaseInv, LeaseRecord, End, Live, Ended
<1>2. Replayed(x) \in LeaseRecord /\ (Replayed(x).status \in Live => x.status \in Live)
  BY DEF Good, LeaseRecord, End, Replayed, Live, Ended
<1>3. CASE x.status \in {"REDEEMED", "ISSUED"}
  <2>1. LeaseInv(Replayed(x))
    BY <1>3 DEF Good, LeaseInv, LeaseRecord, End, Replayed, Live, Ended
  <2> QED  BY <1>1, <1>2, <2>1 DEF Good
<1>4. CASE x.status \notin {"REDEEMED", "ISSUED"}
  <2>1. Replayed(x) = x
    BY <1>4 DEF Good, LeaseRecord, End, Replayed, Live
  <2> QED  BY <1>1, <1>2, <2>1
<1> QED  BY <1>3, <1>4

\* A lease is redeemed (Redeem).
LEMMA RedeemGood ==
  ASSUME NEW x, Good(x), x.status = "ISSUED", NEW rt \in Runtimes
  PROVE  Good([x EXCEPT !.status = "REDEEMED", !.redeemedBy = rt,
                        !.redemptions = @ + 1, !.issuing = TRUE])
<1> DEFINE y == [x EXCEPT !.status = "REDEEMED", !.redeemedBy = rt,
                          !.redemptions = @ + 1, !.issuing = TRUE]
<1>1. x.redemptions = 0 /\ x.token = "none"
  BY DEF Good, LeaseInv, LeaseRecord
<1>2. /\ y = [x EXCEPT !.status = "REDEEMED", !.redeemedBy = rt, !.redemptions = 1, !.issuing = TRUE]
      /\ x \in LeaseRecord
  BY <1>1 DEF Good
<1> HIDE DEF y
<1>3. /\ y \in LeaseRecord /\ y.status = "REDEEMED" /\ y.redemptions = 1 /\ y.token = x.token
      /\ y.outstanding = x.outstanding /\ y.recall = x.recall
  BY <1>2 DEF LeaseRecord, Live
<1>4. LeaseInv(y)  BY <1>1, <1>3 DEF Good, LeaseInv, Ended
<1> QED  BY <1>3, <1>4 DEF Good, y

\* The provider answers, or fails (Mint, MintFails).
LEMMA MintGood ==
  ASSUME NEW x, Good(x), x.issuing
  PROVE  /\ Good([x EXCEPT !.issuing = FALSE, !.token = "live", !.outstanding = TRUE])
         /\ Good([x EXCEPT !.issuing = FALSE])
         /\ Good([End(x, "REVOKED") EXCEPT !.issuing = FALSE, !.ending = TRUE])
<1>1. Good([x EXCEPT !.issuing = FALSE])
  BY DEF Good, LeaseInv, LeaseRecord
<1>2. Good([End(x, "REVOKED") EXCEPT !.issuing = FALSE, !.ending = TRUE])
  BY DEF Good, LeaseInv, LeaseRecord, End, Live, Ended
<1>3. Good([x EXCEPT !.issuing = FALSE, !.token = "live", !.outstanding = TRUE])
  BY DEF Good, LeaseInv, LeaseRecord, Ended
<1> QED  BY <1>1, <1>2, <1>3

\* What withdraw() and the provider do about an ended lease (Withdraw, Recall).
LEMMA WithdrawGood ==
  ASSUME NEW x, Good(x)
  PROVE  /\ Good(Withdrawn(x))
         /\ x.recall => Good([x EXCEPT !.recall = FALSE, !.token = "withdrawn"])
  BY DEF Good, LeaseInv, LeaseRecord, Withdrawn, Live, Ended

\* A restart forgets what the process knew of a lease (Restart).
LEMMA RestartGood ==
  ASSUME NEW x, Good(x)
  PROVE  Good([x EXCEPT !.issuing = FALSE, !.outstanding = FALSE, !.ending = FALSE,
                        !.recall = FALSE, !.astray = @ \/ x.token = "live"])
  BY DEF Good, LeaseInv, LeaseRecord

-----------------------------------------------------------------------------
(* Every step.                                                              *)

AllGood == lease \in [Leases -> LeaseRecord] /\ \A l \in Leases : Good(lease[l])

LEMMA InitInductive == Init => Inductive
<1> SUFFICES ASSUME Init PROVE Inductive
  OBVIOUS
<1>1. AllGood  BY IssueGood DEF Init, AllGood, Good
<1>2. NoLeaseOfStoppedRun  BY DEF Init, NoLeaseOfStoppedRun, Unissued, Live
<1> QED  BY <1>1, <1>2 DEF Init, Inductive, AllGood, Good, TypeOK

\* A step that changes one lease, and makes it live only for a running run.
LEMMA PutKeeps ==
  ASSUME Inductive, NEW l \in Leases, NEW y, Put(l, y), Good(y), UNCHANGED <<run, active>>,
         y.status \in Live => lease[l].status \in Live \/ RunningRun(l)
  PROVE  Inductive'
<1>1. /\ lease' \in [Leases -> LeaseRecord]
      /\ \A m \in Leases : lease'[m] = IF m = l THEN y ELSE lease[m]
  BY DEF Put, Inductive, TypeOK, Good
<1>2. \A m \in Leases : LeaseInv(lease'[m])
  BY <1>1 DEF Inductive, Good
<1>3. NoLeaseOfStoppedRun'
  BY <1>1 DEF Inductive, NoLeaseOfStoppedRun, RunningRun
<1> QED  BY <1>1, <1>2, <1>3 DEF Inductive, TypeOK

\* Only a live lease becomes live, whatever ends or is withdrawn.
LEMMA EndStatus ==
  ASSUME NEW x, Good(x), NEW status \in Ended
  PROVE  /\ End(x, status).status \notin Live
         /\ [End(x, status) EXCEPT !.ending = TRUE].status \notin Live
         /\ Withdrawn(End(x, status)).status \notin Live
  BY DEF Good, LeaseRecord, End, Live, Ended, Withdrawn

LEMMA SameStatus ==
  ASSUME NEW x, Good(x)
  PROVE  /\ Withdrawn(x).status = x.status
         /\ [x EXCEPT !.ending = TRUE].status = x.status
         /\ Released(x).status \in Live => x.status \in Live
  BY DEF Good, LeaseRecord, Live, Ended, Withdrawn, Released

\* The run of no live lease stops (StopRun), or the transaction is rolled back.
LEMMA StopRunKeeps ==
  ASSUME Inductive, NEW u \in Runs, StopRun(u) \/ StopRunFails(u)
  PROVE  Inductive'
<1>1. ASSUME NEW l \in Leases PROVE Good(lease[l])
  BY DEF Inductive, TypeOK, Good
<1>2. CASE StopRun(u)
  <2> DEFINE ended(l) == Withdrawn(End(lease[l], "REVOKED"))
  <2>1. /\ lease' = [l \in Leases |-> IF OfRun(l, u) THEN ended(l) ELSE lease[l]]
        /\ \A l \in Leases : OfRun(l, u) => MayEnd(lease[l])
        /\ run' = [run EXCEPT ![u] = "STOPPED"] /\ active' = active
    BY <1>2 DEF StopRun
  <2>2. \A l \in Leases : OfRun(l, u) => Good(ended(l)) /\ ended(l).status \notin Live
    BY <1>1, <2>1, EndGood, EndStatus DEF Ended
  <2> HIDE DEF ended
  <2>3. \A l \in Leases : Good(lease'[l])
    BY <1>1, <2>1, <2>2
  <2>4. \A l \in Leases :
          lease'[l].status \in Live => lease[l].status \in Live /\ ~OfRun(l, u)
    BY <2>1, <2>2
  <2>5. lease' \in [Leases -> LeaseRecord] /\ \A l \in Leases : LeaseInv(lease'[l])
    BY <2>1, <2>3 DEF Good
  <2>6. NoLeaseOfStoppedRun'
    BY <2>1, <2>4, BrokerAssumption DEF Inductive, TypeOK, NoLeaseOfStoppedRun, OfRun
  <2>7. run' \in [Runs -> {"RUNNING", "WAITING", "STOPPED"}]
    BY <2>1 DEF Inductive, TypeOK
  <2> QED  BY <2>1, <2>5, <2>6, <2>7 DEF Inductive, TypeOK
<1>3. CASE StopRunFails(u)
  <2>1. ASSUME NEW l \in Leases
        PROVE  Good(lease'[l]) /\ lease'[l].status = lease[l].status
    <3>1. lease'[l] = IF OfRun(l, u) THEN Withdrawn(lease[l]) ELSE lease[l]
      BY <1>3 DEF StopRunFails
    <3> QED  BY <1>1, <3>1, WithdrawGood, SameStatus
  <2>2. lease' \in [Leases -> LeaseRecord]
    <3>1. lease' = [l \in Leases |-> IF OfRun(l, u) THEN Withdrawn(lease[l]) ELSE lease[l]]
      BY <1>3 DEF StopRunFails
    <3> QED  BY <2>1, <3>1 DEF Good
  <2>3. NoLeaseOfStoppedRun'
    BY <1>3, <2>1 DEF StopRunFails, Inductive, NoLeaseOfStoppedRun
  <2> QED  BY <1>3, <2>1, <2>2, <2>3 DEF StopRunFails, Inductive, TypeOK, Good
<1> QED  BY <1>2, <1>3

\* All overdue leases expire (ExpireDue), or the process restarts (Restart).
LEMMA ExpireDueKeeps ==
  ASSUME Inductive, ExpireDue
  PROVE  Inductive'
<1>1. ASSUME NEW l \in Leases
      PROVE  Good(lease'[l]) /\ (lease'[l].status \in Live => lease[l].status \in Live)
  <2>1. Good(lease[l]) /\ lease'[l] = IF Overdue(l) THEN Expired(lease[l]) ELSE lease[l]
    BY DEF Inductive, TypeOK, Good, ExpireDue
  <2>2. CASE Overdue(l)
    <3>1. MayEnd(lease[l])  BY <2>2 DEF ExpireDue
    <3>2. Good(Expired(lease[l]))  BY <2>1, <3>1, EndGood DEF Expired, Ended
    <3> QED  BY <2>1, <2>2, <3>2 DEF Overdue
  <2>3. CASE ~Overdue(l)  BY <2>1, <2>3
  <2> QED  BY <2>2, <2>3
<1>2. lease' \in [Leases -> LeaseRecord]
  <2>1. lease' = [l \in Leases |-> IF Overdue(l) THEN Expired(lease[l]) ELSE lease[l]]
    BY DEF ExpireDue
  <2> QED  BY <1>1, <2>1 DEF Good
<1>3. NoLeaseOfStoppedRun'
  BY <1>1 DEF ExpireDue, Inductive, NoLeaseOfStoppedRun
<1> QED  BY <1>1, <1>2, <1>3 DEF ExpireDue, Inductive, TypeOK, Good

LEMMA RestartKeeps ==
  ASSUME Inductive, Restart
  PROVE  Inductive'
<1>1. ASSUME NEW l \in Leases
      PROVE  Good(lease'[l]) /\ lease'[l].status = lease[l].status
  <2>1. /\ Good(lease[l]) /\ Restarts
        /\ lease'[l] = [lease[l] EXCEPT !.issuing = FALSE, !.outstanding = FALSE,
                                        !.ending = FALSE, !.recall = FALSE,
                                        !.astray = @ \/ lease[l].token = "live"]
    BY DEF Inductive, TypeOK, Good, Restart
  <2>2. Good(lease'[l])  BY <2>1, RestartGood
  <2>3. lease'[l].status = lease[l].status  BY <2>1 DEF Good, LeaseRecord
  <2> QED  BY <2>2, <2>3
<1>2. lease' \in [Leases -> LeaseRecord]
  <2>1. lease' = [l \in Leases |-> [lease[l] EXCEPT !.issuing = FALSE, !.outstanding = FALSE,
                                                    !.ending = FALSE, !.recall = FALSE,
                                                    !.astray = @ \/ lease[l].token = "live"]]
    BY DEF Restart
  <2> QED  BY <1>1, <2>1 DEF Good
<1>3. NoLeaseOfStoppedRun'
  BY <1>1 DEF Restart, Inductive, NoLeaseOfStoppedRun
<1> QED  BY <1>1, <1>2, <1>3 DEF Restart, Inductive, TypeOK, Good

\* A step of one lease.
LEMMA LeaseStepKeeps ==
  ASSUME Inductive, NEW l \in Leases,
         \/ Deadline(l) \/ Issue(l) \/ RedeemRefused(l) \/ Revoke(l)
         \/ Mint(l) \/ MintFails(l) \/ Withdraw(l) \/ Recall(l)
         \/ \E rt \in Runtimes : Redeem(rt, l) \/ Release(rt, l)
  PROVE  Inductive'
<1> DEFINE x == lease[l]
<1>1. Good(x) /\ x \in LeaseRecord  BY DEF Inductive, TypeOK, Good
<1>2. CASE Deadline(l)
  <2>1. [x EXCEPT !.due = TRUE].status = x.status  BY <1>1 DEF LeaseRecord
  <2> QED  BY <1>1, <1>2, <2>1, DeadlineGood, PutKeeps DEF Deadline
<1>3. CASE Issue(l)
  BY <1>3, IssueGood, PutKeeps DEF Issue
<1>4. CASE RedeemRefused(l)
  <2>1. CASE Put(l, Replayed(x))
    BY <1>1, <1>4, <2>1, RefusedGood, PutKeeps DEF RedeemRefused
  <2>2. CASE \E status \in Ended : x.status = "ISSUED" /\ Put(l, End(x, status))
    <3>1. PICK status \in Ended : x.status = "ISSUED" /\ Put(l, End(x, status))
      BY <2>2
    <3>2. Good(End(x, status)) /\ End(x, status).status \notin Live
      BY <1>1, <3>1, RefusedGood, EndStatus
    <3> QED  BY <1>4, <3>1, <3>2, PutKeeps DEF RedeemRefused
  <2> QED  BY <1>4, <2>1, <2>2 DEF RedeemRefused, Ended
<1>5. CASE Revoke(l)
  <2>1. PICK y \in {x, End(x, "REVOKED")} : Put(l, [y EXCEPT !.ending = TRUE])
    BY <1>5 DEF Revoke
  <2>2. Good([y EXCEPT !.ending = TRUE])
    BY <1>1, <1>5, <2>1, EndGood DEF Revoke, Ended
  <2>3. [y EXCEPT !.ending = TRUE].status \in Live => x.status \in Live
    BY <1>1, <1>5, <2>1, EndStatus, SameStatus DEF Revoke, Ended
  <2> QED  BY <1>5, <2>1, <2>2, <2>3, PutKeeps DEF Revoke
<1>6. CASE Mint(l)
  <2> DEFINE y == [x EXCEPT !.issuing = FALSE, !.token = "live", !.outstanding = TRUE]
             z == [x EXCEPT !.issuing = FALSE]
  <2>1. /\ x.issuing /\ UNCHANGED <<run, active>>
        /\ Put(l, y) \/ Put(l, z)
    BY <1>6 DEF Mint
  <2>2. y.status = x.status /\ z.status = x.status  BY <1>1 DEF LeaseRecord
  <2>3. Good(y) /\ Good(z)  BY <1>1, <2>1, MintGood
  <2> HIDE DEF y, z
  <2> QED  BY <2>1, <2>2, <2>3, PutKeeps
<1>7. CASE MintFails(l)
  <2> DEFINE y == [End(x, "REVOKED") EXCEPT !.issuing = FALSE, !.ending = TRUE]
  <2>1. x.issuing /\ UNCHANGED <<run, active>> /\ Put(l, y)  BY <1>7 DEF MintFails
  <2>2. Good(y)  BY <1>1, <2>1, MintGood
  <2>3. y.status \in Live => x.status \in Live  BY <1>1 DEF LeaseRecord, End, Live, Ended
  <2> HIDE DEF y
  <2> QED  BY <2>1, <2>2, <2>3, PutKeeps
<1>8. CASE Withdraw(l)
  BY <1>1, <1>8, WithdrawGood, SameStatus, PutKeeps DEF Withdraw
<1>9. CASE Recall(l)
  <2> DEFINE y == [x EXCEPT !.recall = FALSE, !.token = "withdrawn"]
  <2>1. x.recall /\ UNCHANGED <<run, active>> /\ Put(l, y)  BY <1>9 DEF Recall
  <2>2. Good(y) /\ y.status = x.status  BY <1>1, <2>1, WithdrawGood DEF LeaseRecord
  <2> HIDE DEF y
  <2> QED  BY <2>1, <2>2, PutKeeps
<1>10. ASSUME NEW rt \in Runtimes, Redeem(rt, l) PROVE Inductive'
  <2> DEFINE y == [x EXCEPT !.status = "REDEEMED", !.redeemedBy = rt,
                            !.redemptions = @ + 1, !.issuing = TRUE]
  <2>1. x.status = "ISSUED" /\ UNCHANGED <<run, active>> /\ Put(l, y)
    BY <1>10 DEF Redeem, Redeemable
  <2>2. Good(y)  BY <1>1, <2>1, RedeemGood
  <2> HIDE DEF y
  <2> QED  BY <2>1, <2>2, PutKeeps DEF Live
<1>11. ASSUME NEW rt \in Runtimes, Release(rt, l) PROVE Inductive'
  <2>1. UNCHANGED <<run, active>> /\ Put(l, Released(x))  BY <1>11 DEF Release
  <2>2. Good(Released(x)) /\ (Released(x).status \in Live => x.status \in Live)
    BY <1>1, <2>1, ReleasedGood, SameStatus
  <2> QED  BY <2>1, <2>2, PutKeeps
<1> QED  BY <1>2, <1>3, <1>4, <1>5, <1>6, <1>7, <1>8, <1>9, <1>10, <1>11

LEMMA StepInductive == Inductive /\ [Next]_vars => Inductive'
<1> SUFFICES ASSUME Inductive, [Next]_vars PROVE Inductive'
  OBVIOUS
<1>1. ASSUME NEW u \in Runs, PauseRun(u) \/ ResumeRun(u)
      PROVE  Inductive'
  <2>1. /\ UNCHANGED <<lease, active>> /\ run[u] # "STOPPED"
        /\ run' = [run EXCEPT ![u] = "WAITING"] \/ run' = [run EXCEPT ![u] = "RUNNING"]
    BY <1>1 DEF PauseRun, ResumeRun
  <2>2. NoLeaseOfStoppedRun'
    BY <2>1, BrokerAssumption DEF Inductive, TypeOK, NoLeaseOfStoppedRun
  <2>3. run' \in [Runs -> {"RUNNING", "WAITING", "STOPPED"}]
    BY <2>1 DEF Inductive, TypeOK
  <2> QED  BY <2>1, <2>2, <2>3 DEF Inductive, TypeOK
<1>2. CASE DisableConnection
  BY <1>2 DEF DisableConnection, Inductive, TypeOK, NoLeaseOfStoppedRun
<1>3. CASE UNCHANGED vars
  BY <1>3 DEF vars, Inductive, TypeOK, NoLeaseOfStoppedRun
<1>4. ASSUME NEW l \in Leases,
             \/ Deadline(l) \/ Issue(l) \/ RedeemRefused(l) \/ Revoke(l)
             \/ Mint(l) \/ MintFails(l) \/ Withdraw(l) \/ Recall(l)
             \/ \E rt \in Runtimes : Redeem(rt, l) \/ Release(rt, l)
      PROVE  Inductive'
  BY <1>4, LeaseStepKeeps
<1> QED  BY <1>1, <1>2, <1>3, <1>4, StopRunKeeps, ExpireDueKeeps, RestartKeeps DEF Next, Handled

-----------------------------------------------------------------------------
(* Theorems.                                                                *)

LEMMA AlwaysInductive == Spec => []Inductive
  BY InitInductive, StepInductive, PTL DEF Spec

\* Lease rows are well formed.
THEOREM BrokerTypeCorrect == Spec => []TypeOK
<1>1. Inductive => TypeOK  BY DEF Inductive
<1> QED  BY <1>1, AlwaysInductive, PTL

\* However its grant is presented, and across restarts, a lease yields one
\* credential (redeem).
THEOREM SingleUseHolds == Spec => []SingleUse
<1>1. Inductive => SingleUse  BY DEF Inductive, LeaseInv, SingleUse
<1> QED  BY <1>1, AlwaysInductive, PTL

\* A stopped run has no live lease (revokeForRun).
THEOREM NoLeaseOfStoppedRunHolds == Spec => []NoLeaseOfStoppedRun
<1>1. Inductive => NoLeaseOfStoppedRun  BY DEF Inductive
<1> QED  BY <1>1, AlwaysInductive, PTL

\* What the run checks as one invariant: well-formed leases, one credential from each, and no
\* live lease of a run that stopped, whatever is repeated and whoever restarts.
THEOREM BrokerLeasesSound == Spec => []LeasesSound
<1>1. TypeOK /\ SingleUse /\ NoLeaseOfStoppedRun <=> LeasesSound  BY DEF LeasesSound
<1> QED  BY <1>1, BrokerTypeCorrect, SingleUseHolds, NoLeaseOfStoppedRunHolds, PTL

\* The live token of an ended lease is on its way out, however its end overlapped the minting,
\* unless withdraw() came before the token, a replay ended the lease or the process was
\* restarted (withdraw, redeem).
THEOREM EndedIsRecalledHolds == Spec => []EndedIsRecalled
<1>1. Inductive => EndedIsRecalled
  BY DEF Inductive, LeaseInv, EndedIsRecalled
<1> QED  BY <1>1, AlwaysInductive, PTL

\* Whatever is done to a lease that ended, its status stays.
LEMMA EndedLease ==
  ASSUME NEW x, Good(x), x.status \in Ended
  PROVE  /\ \A status : End(x, status) = x
         /\ Released(x).status = x.status
         /\ Expired(x).status = x.status
         /\ Withdrawn(x).status = x.status
         /\ [x EXCEPT !.ending = TRUE].status = x.status
         /\ [x EXCEPT !.due = TRUE].status = x.status
         /\ [x EXCEPT !.issuing = FALSE].status = x.status
         /\ [x EXCEPT !.issuing = FALSE, !.ending = TRUE].status = x.status
         /\ [x EXCEPT !.issuing = FALSE, !.token = "live", !.outstanding = TRUE].status = x.status
         /\ [x EXCEPT !.recall = FALSE, !.token = "withdrawn"].status = x.status
         /\ Replayed(x).status = x.status
         /\ [x EXCEPT !.issuing = FALSE, !.outstanding = FALSE, !.ending = FALSE,
                      !.recall = FALSE, !.astray = @ \/ x.token = "live"].status = x.status
  BY DEF Good, LeaseRecord, End, Live, Ended, Released, Expired, Withdrawn, Replayed

\* An ended lease stays as it ended, whatever arrives late (release, redeem,
\* revoke, revokeForRun, expireDue).
THEOREM EndedStaysHolds == Spec => EndedStays
<1> DEFINE Stays == \A l \in Leases :
                      lease[l].status \in Ended => lease'[l].status = lease[l].status
<1>1. ASSUME Inductive, Next PROVE Stays
  <2> SUFFICES ASSUME NEW l \in Leases, lease[l].status \in Ended
               PROVE  lease'[l].status = lease[l].status
    OBVIOUS
  <2>1. /\ Good(lease[l]) /\ lease[l].status \notin {"NONE", "ISSUED", "REDEEMED"}
        /\ lease \in [Leases -> LeaseRecord]
    BY <1>1 DEF Inductive, TypeOK, Good, Ended
  <2>2. CASE lease' = lease
    BY <2>2
  <2>3. ASSUME NEW u \in Runs, StopRun(u) \/ StopRunFails(u)
        PROVE  lease'[l].status = lease[l].status
    BY <2>1, <2>3, EndedLease DEF StopRun, StopRunFails
  <2>4. CASE ExpireDue
    BY <2>1, <2>4, EndedLease DEF ExpireDue
  <2>5. CASE Restart
    BY <2>1, <2>5, EndedLease DEF Restart
  <2>6. ASSUME NEW m \in Leases, NEW y, Put(m, y), m # l
        PROVE  lease'[l].status = lease[l].status
    BY <2>1, <2>6 DEF Put
  <2>7. ASSUME NEW y, Put(l, y), y.status = lease[l].status
        PROVE  lease'[l].status = lease[l].status
    BY <2>1, <2>7 DEF Put
  <2>8. CASE Deadline(l)       BY <2>1, <2>7, <2>8, EndedLease DEF Deadline
  <2>9. CASE RedeemRefused(l)  BY <2>1, <2>7, <2>9, EndedLease DEF RedeemRefused
  <2>10. CASE Revoke(l)
    <3>1. Put(l, [lease[l] EXCEPT !.ending = TRUE])
      BY <2>1, <2>10, EndedLease DEF Revoke
    <3> QED  BY <2>1, <2>7, <3>1, EndedLease
  <2>11. CASE Mint(l)          BY <2>1, <2>7, <2>11, EndedLease DEF Mint
  <2>12. CASE MintFails(l)
    <3>1. End(lease[l], "REVOKED") = lease[l]  BY <2>1, EndedLease
    <3>2. Put(l, [lease[l] EXCEPT !.issuing = FALSE, !.ending = TRUE])
      BY <2>12, <3>1 DEF MintFails
    <3> QED  BY <2>1, <2>7, <3>2, EndedLease
  <2>13. CASE Withdraw(l)      BY <2>1, <2>7, <2>13, EndedLease DEF Withdraw
  <2>14. CASE Recall(l)        BY <2>1, <2>7, <2>14, EndedLease DEF Recall
  <2>15. ASSUME NEW rt \in Runtimes, Release(rt, l)
         PROVE  lease'[l].status = lease[l].status
    BY <2>1, <2>7, <2>15, EndedLease DEF Release
  <2>16. ~Issue(l) /\ \A rt \in Runtimes : ~Redeem(rt, l)
    BY <2>1 DEF Issue, Redeem, Redeemable
  <2>17. ASSUME NEW m \in Leases, m # l,
                \/ Deadline(m) \/ Issue(m) \/ RedeemRefused(m) \/ Revoke(m)
                \/ Mint(m) \/ MintFails(m) \/ Withdraw(m) \/ Recall(m)
                \/ \E rt \in Runtimes : Redeem(rt, m) \/ Release(rt, m)
         PROVE  lease'[l].status = lease[l].status
    <3>1. \E y : Put(m, y)
      BY <2>17 DEF Deadline, Issue, RedeemRefused, Revoke, Mint, MintFails, Withdraw, Recall,
                   Redeem, Release
    <3> QED  BY <2>6, <2>17, <3>1
  <2>18. CASE DisableConnection \/ \E u \in Runs : PauseRun(u) \/ ResumeRun(u)
    BY <2>2, <2>18 DEF DisableConnection, PauseRun, ResumeRun
  <2> QED
    BY <1>1, <2>3, <2>4, <2>5, <2>8, <2>9, <2>10, <2>11, <2>12, <2>13, <2>14, <2>15,
       <2>16, <2>17, <2>18 DEF Next, Handled
<1>2. Inductive /\ [Next]_vars => [Stays]_vars  BY <1>1
<1> HIDE DEF Stays
<1>3. Spec => [][Stays]_vars  BY <1>2, AlwaysInductive, PTL DEF Spec
<1> QED  BY <1>3 DEF EndedStays, Stays

(***************************************************************************)
(* Theorems about SecretUse, for every set of places, secrets, requests    *)
(* and pages.  What makes the parts inductive is that a request which      *)
(* holds a lease is one for a host, whose connections never change their   *)
(* secret, and that a call settles only what it had reserved.              *)
(***************************************************************************)

\* What is known of a request at each step.
CallFits(c, x) ==
  /\ x.step = "idle" => x.leased = 0
  /\ x.leased # 0 =>
       /\ PlaceKind[PlaceOf[c]] = "host"
       /\ x.leased \in Connections /\ connection[x.leased].place = PlaceOf[c]
       /\ x.from # 0 => x.from = x.leased /\ x.ref = connection[x.leased].ref
  /\ x.step \in {"calling", "settling"} => x.reservation = "RESERVED"
  /\ x.step \notin {"settling", "over"} => ~x.used
  /\ x.used => x.reservation \in {"RESERVED", "SETTLED"}

CallersFit == \A c \in Callers : CallFits(c, caller[c])

SecretsInductive == SecretTypeOK /\ OneActivePlace /\ CallersFit

LEMMA SecretsInductiveInit == ASSUME SecretInit PROVE SecretsInductive
<1>1. Idle \in Caller
  BY DEF Idle, Caller
<1>2. connection \in Seq(Connection) /\ Len(connection) = 0
  BY DEF SecretInit
<1>3. SecretTypeOK
  BY <1>1, <1>2, SecretAssumption DEF SecretInit, SecretTypeOK
<1>4. OneActivePlace
  BY <1>2 DEF OneActivePlace, Connections
<1>5. CallersFit
  BY DEF SecretInit, CallersFit, CallFits, Idle
<1> QED BY <1>3, <1>4, <1>5 DEF SecretsInductive

-----------------------------------------------------------------------------
(* Requests.                                                               *)

LEMMA CallerStep ==
  ASSUME SecretsInductive, NEW c \in Callers, NEW x \in Caller, CallerGoes(c, x), CallFits(c, x)
  PROVE  SecretsInductive'
<1>1. connection' = connection /\ form' = form /\ caller' = [caller EXCEPT ![c] = x]
  BY DEF CallerGoes
<1>2. Connections' = Connections
  BY <1>1 DEF Connections
<1>3. caller \in [Callers -> Caller] /\ caller' \in [Callers -> Caller]
  BY <1>1 DEF SecretsInductive, SecretTypeOK
<1>4. SecretTypeOK'
  BY <1>1, <1>2, <1>3 DEF SecretsInductive, SecretTypeOK
<1>5. OneActivePlace'
  BY <1>1, <1>2 DEF SecretsInductive, OneActivePlace
<1>6. ASSUME NEW d \in Callers PROVE CallFits(d, caller[d])'
  <2>1. CallFits(d, caller'[d])
    BY <1>1, <1>3 DEF SecretsInductive, CallersFit
  <2> QED BY <1>1, <1>2, <2>1 DEF CallFits
<1> QED BY <1>4, <1>5, <1>6 DEF SecretsInductive, CallersFit

\* A request that is refused ends with what it has.
LEMMA RefusedStep ==
  ASSUME SecretsInductive, NEW c \in Callers, Refused(c) PROVE SecretsInductive'
<1> DEFINE x == [caller[c] EXCEPT !.step = "over"]
<1>1. caller[c] \in Caller /\ CallFits(c, caller[c])
  BY DEF SecretsInductive, SecretTypeOK, CallersFit
<1>2. x \in Caller /\ CallFits(c, x)
  BY <1>1 DEF Caller, CallFits
<1> QED BY <1>2, CallerStep DEF Refused

\* Reading a connection: of its own place, and by a lease of the leased one.
LEMMA ReadsStep ==
  ASSUME SecretsInductive, NEW c \in Callers, NEW i \in Connections, Reads(c, i),
         caller[c].step \in {"idle", "leased"}, caller[c].leased \in {0, i}
  PROVE  SecretsInductive'
<1> DEFINE x == [caller[c] EXCEPT !.step = "resolving", !.from = i, !.ref = connection[i].ref]
<1>1. caller[c] \in Caller /\ CallFits(c, caller[c])
  BY DEF SecretsInductive, SecretTypeOK, CallersFit
<1>2. i \in Nat /\ connection[i] \in Connection
  BY DEF SecretsInductive, SecretTypeOK, Connections
<1>3. x \in Caller
  BY <1>1, <1>2 DEF Caller, Connection
<1>4. CallFits(c, x)
  BY <1>1 DEF Caller, CallFits
<1> QED BY <1>3, <1>4, CallerStep DEF Reads

LEMMA LeaseStep ==
  ASSUME SecretsInductive, NEW c \in Callers, leaseForCheckout(c) PROVE SecretsInductive'
<1>1. PICK i \in forRepository(c) : CallerGoes(c, [Idle EXCEPT !.step = "leased", !.leased = i])
  BY DEF leaseForCheckout
<1> DEFINE x == [Idle EXCEPT !.step = "leased", !.leased = i]
<1>2. i \in Connections /\ connection[i].place = PlaceOf[c] /\ i \in Nat
  BY <1>1 DEF forRepository, ActiveOf, Of, Connections
<1>3. x \in Caller
  BY <1>2 DEF Idle, Caller
<1>4. CallFits(c, x)
  BY <1>2 DEF leaseForCheckout, Idle, CallFits
<1> QED BY <1>1, <1>3, <1>4, CallerStep

LEMMA RedeemStep ==
  ASSUME SecretsInductive, NEW c \in Callers, redeem(c) PROVE SecretsInductive'
<1>1. CASE Refused(c)
  BY <1>1, RefusedStep
<1>2. CASE forRepository(c) = {caller[c].leased} /\ Reads(c, caller[c].leased)
  <2>1. caller[c].leased \in Connections
    BY <1>2 DEF forRepository, ActiveOf, Of
  <2> QED BY <1>2, <2>1, ReadsStep DEF redeem, CallerAt
<1> QED BY <1>1, <1>2 DEF redeem

LEMMA ReadActiveStep ==
  ASSUME SecretsInductive, NEW c \in Callers, ReadActive(c) PROVE SecretsInductive'
<1>1. CASE Refused(c)
  BY <1>1, RefusedStep
<1>2. ASSUME NEW i \in ActiveOf(PlaceOf[c]), Reads(c, i) PROVE SecretsInductive'
  <2>1. i \in Connections
    BY DEF ActiveOf, Of
  <2>2. caller[c].step = "idle" /\ caller[c].leased = 0
    BY DEF ReadActive, CallerAt, SecretsInductive, CallersFit, CallFits
  <2> QED BY <1>2, <2>1, <2>2, ReadsStep
<1> QED BY <1>1, <1>2 DEF ReadActive

\* The steps of a request after its connection was read.
LEMMA CallStep ==
  ASSUME SecretsInductive, NEW c \in Callers,
         resolve(c) \/ reserve(c) \/ Answers(c) \/ AnswersError(c) \/ NoAnswer(c) \/ settle(c) \/ Ends(c)
  PROVE  SecretsInductive'
<1> DEFINE y == caller[c]
<1>1. y \in Caller /\ CallFits(c, y)
  BY DEF SecretsInductive, SecretTypeOK, CallersFit
<1>2. ASSUME y.step = "resolving", CallerGoes(c, [y EXCEPT !.step = "given"]) PROVE SecretsInductive'
  <2>1. [y EXCEPT !.step = "given"] \in Caller /\ CallFits(c, [y EXCEPT !.step = "given"])
    BY <1>1, <1>2 DEF Caller, CallFits
  <2> QED BY <1>2, <2>1, CallerStep
<1>3. ASSUME y.step = "given", CallerGoes(c, [y EXCEPT !.step = "calling", !.reservation = "RESERVED"])
      PROVE  SecretsInductive'
  <2> DEFINE x == [y EXCEPT !.step = "calling", !.reservation = "RESERVED"]
  <2>1. x \in Caller /\ CallFits(c, x)
    BY <1>1, <1>3 DEF Caller, CallFits
  <2> QED BY <1>3, <2>1, CallerStep
<1>4. ASSUME y.step = "calling", CallerGoes(c, [y EXCEPT !.step = "settling", !.used = TRUE])
      PROVE  SecretsInductive'
  <2> DEFINE x == [y EXCEPT !.step = "settling", !.used = TRUE]
  <2>1. x \in Caller /\ CallFits(c, x)
    BY <1>1, <1>4 DEF Caller, CallFits
  <2> QED BY <1>4, <2>1, CallerStep
<1>5. ASSUME y.step = "calling", CallerGoes(c, [y EXCEPT !.step = "settling"])
      PROVE  SecretsInductive'
  <2> DEFINE x == [y EXCEPT !.step = "settling"]
  <2>1. x \in Caller /\ CallFits(c, x)
    BY <1>1, <1>5 DEF Caller, CallFits
  <2> QED BY <1>5, <2>1, CallerStep
<1>6. ASSUME NEW used \in BOOLEAN, y.step = "calling",
             CallerGoes(c, [y EXCEPT !.step = "over", !.used = used])
      PROVE  SecretsInductive'
  <2> DEFINE x == [y EXCEPT !.step = "over", !.used = used]
  <2>1. x \in Caller
    BY <1>1 DEF Caller
  <2>2. CallFits(c, x)
    BY <1>1, <1>6 DEF Caller, CallFits
  <2> QED BY <1>6, <2>1, <2>2, CallerStep
<1>7. ASSUME NEW end \in {"SETTLED", "SETTLED_AT_NOTHING"}, y.used => end = "SETTLED",
             CallerGoes(c, [y EXCEPT !.step = "over", !.reservation = end])
      PROVE  SecretsInductive'
  <2> DEFINE x == [y EXCEPT !.step = "over", !.reservation = end]
  <2>1. x \in Caller /\ CallFits(c, x)
    BY <1>1, <1>7 DEF Caller, CallFits
  <2> QED BY <1>7, <2>1, CallerStep
<1>8. ASSUME CallerGoes(c, Idle) PROVE SecretsInductive'
  <2>1. Idle \in Caller /\ CallFits(c, Idle)
    BY DEF Idle, Caller, CallFits
  <2> QED BY <1>8, <2>1, CallerStep
<1>9. CASE resolve(c)
  BY <1>2, <1>9, RefusedStep DEF resolve, CallerAt
<1>10. CASE reserve(c)
  BY <1>3, <1>10, RefusedStep DEF reserve, CallerAt
<1>11. CASE Answers(c) \/ AnswersError(c) \/ NoAnswer(c)
  BY <1>4, <1>5, <1>6, <1>11 DEF Answers, AnswersError, NoAnswer, CallerAt
<1>12. CASE settle(c)
  BY <1>7, <1>12, RefusedStep DEF settle
<1>13. CASE Ends(c)
  BY <1>8, <1>13 DEF Ends
<1> QED BY <1>9, <1>10, <1>11, <1>12, <1>13

-----------------------------------------------------------------------------
(* Connections.                                                            *)

\* What no change of the connections takes from a request.
LEMMA ConnectionsMove ==
  ASSUME SecretsInductive, caller' = caller, Connections \subseteq Connections',
         \A i \in Connections :
           /\ connection'[i].place = connection[i].place
           /\ PlaceKind[connection[i].place] = "host" => connection'[i].ref = connection[i].ref
  PROVE  CallersFit'
<1> SUFFICES ASSUME NEW c \in Callers PROVE CallFits(c, caller[c])'
  BY DEF CallersFit
<1>1. CallFits(c, caller[c])
  BY DEF SecretsInductive, CallersFit
<1> QED BY <1>1 DEF CallFits

LEMMA InsertStep ==
  ASSUME SecretsInductive, NEW place \in Places, NEW ref \in References, NEW allows \in SUBSET Callers,
         Insert(place, ref, allows),
         \A i \in Connections : connection[i].place = place =>
           connection[i].status = "DISABLED" /\ PlaceKind[place] # "model"
  PROVE  SecretsInductive'
<1> DEFINE row == [place |-> place, ref |-> ref, allows |-> allows, status |-> "ACTIVE", version |-> 1]
           n == Len(connection)
<1>1. /\ connection \in Seq(Connection) /\ n \in Nat /\ n < MaxConnections
      /\ connection' = Append(connection, row) /\ form' = form /\ caller' = caller
  BY DEF Insert, SecretsInductive, SecretTypeOK
<1>2. row \in Connection
  BY SecretAssumption DEF Connection
<1> HIDE DEF row
<1>3. /\ connection' \in Seq(Connection) /\ Len(connection') = n + 1
      /\ \A i \in 1..n : connection'[i] = connection[i]
      /\ connection'[n + 1] = row
  BY <1>1, <1>2
<1>4. Connections = 1..n /\ Connections' = 1..(n + 1)
  BY <1>3 DEF Connections
<1>5. Connections \subseteq Connections'
  BY <1>1, <1>4
<1>6. SecretTypeOK'
  BY <1>1, <1>3, <1>5, SecretAssumption DEF SecretsInductive, SecretTypeOK
<1>7. OneActivePlace'
  <2> SUFFICES ASSUME NEW i \in 1..(n + 1), NEW j \in 1..(n + 1),
                      connection'[i].place = connection'[j].place,
                      "DISABLED" \notin {connection'[i].status, connection'[j].status}
                        \/ PlaceKind[connection'[i].place] = "model",
                      i # j
               PROVE  FALSE
    BY <1>4 DEF OneActivePlace
  <2>1. row.place = place
    BY DEF row
  <2>2. CASE i \in 1..n /\ j \in 1..n
    BY <1>3, <1>4, <2>2 DEF SecretsInductive, OneActivePlace
  <2>3. CASE i \in 1..n /\ j = n + 1
    BY <1>3, <1>4, <2>1, <2>3
  <2>4. CASE j \in 1..n /\ i = n + 1
    BY <1>3, <1>4, <2>1, <2>4
  <2> QED BY <1>1, <2>2, <2>3, <2>4
<1>8. CallersFit'
  BY <1>1, <1>3, <1>4, <1>5, ConnectionsMove
<1> QED BY <1>6, <1>7, <1>8 DEF SecretsInductive

\* A row is disabled, or that of a model provider set again.
LEMMA ChangeStep ==
  ASSUME SecretsInductive, NEW f \in Forms, form[f] # None, NEW status \in {"ACTIVE", "DISABLED"},
         NEW ref \in References, Change(f, status, ref),
         \/ status = "DISABLED" /\ ref = connection[form[f].of].ref
         \/ PlaceKind[connection[form[f].of].place] = "model"
  PROVE  SecretsInductive'
<1> DEFINE k == form[f].of
           row == [connection[k] EXCEPT !.status = status, !.ref = ref, !.version = @ + 1]
<1>1. k \in Connections /\ connection \in Seq(Connection)
  BY DEF SecretsInductive, SecretTypeOK
<1>2. connection[k] \in Connection
  BY <1>1 DEF Connections
<1>3. connection' = [connection EXCEPT ![k] = row] /\ form' = form /\ caller' = caller
  BY <1>1, <1>2 DEF Change, Connection
<1>4. /\ row \in Connection /\ row.place = connection[k].place /\ row.status = status /\ row.ref = ref
  <2>1. connection[k].version < MaxChanges
    BY DEF Change
  <2>2. connection[k].version + 1 \in 1..MaxChanges
    BY <1>2, <2>1, SecretAssumption DEF Connection
  <2> HIDE DEF k
  <2> QED BY <1>2, <2>2 DEF Connection
<1> HIDE DEF row
<1>5. /\ connection' \in Seq(Connection) /\ Len(connection') = Len(connection)
      /\ \A i \in Connections : connection'[i] = IF i = k THEN row ELSE connection[i]
  BY <1>1, <1>3, <1>4 DEF Connections
<1>6. Connections' = Connections
  BY <1>5 DEF Connections
<1>7. SecretTypeOK'
  BY <1>3, <1>5, <1>6 DEF SecretsInductive, SecretTypeOK
<1>8. OneActivePlace'
  <2> SUFFICES ASSUME NEW i \in Connections, NEW j \in Connections,
                      connection'[i].place = connection'[j].place,
                      "DISABLED" \notin {connection'[i].status, connection'[j].status}
                        \/ PlaceKind[connection'[i].place] = "model"
               PROVE  i = j
    BY <1>6 DEF OneActivePlace
  <2>1. /\ connection'[i].place = connection[i].place
        /\ connection'[j].place = connection[j].place
    BY <1>4, <1>5
  <2>2. \/ "DISABLED" \notin {connection[i].status, connection[j].status}
        \/ PlaceKind[connection[i].place] = "model"
    BY <1>4, <1>5, <2>1
  <2> QED BY <2>1, <2>2 DEF SecretsInductive, OneActivePlace
<1>9. CallersFit'
  BY <1>3, <1>4, <1>5, <1>6, ConnectionsMove
<1> QED BY <1>7, <1>8, <1>9 DEF SecretsInductive

LEMMA OpenFormStep ==
  ASSUME SecretsInductive, NEW f \in Forms, NEW i \in Connections, OpenForm(f, i) PROVE SecretsInductive'
<1>1. connection' = connection /\ caller' = caller /\ Connections' = Connections
  BY DEF OpenForm, Connections
<1>2. [of |-> i, version |-> connection[i].version] \in [of : Connections, version : 1..MaxChanges]
  <2>1. connection[i] \in Connection
    BY DEF SecretsInductive, SecretTypeOK, Connections
  <2> QED BY <2>1 DEF Connection
<1>3. SecretTypeOK'
  BY <1>1, <1>2 DEF OpenForm, SecretsInductive, SecretTypeOK
<1>4. OneActivePlace'
  BY <1>1 DEF SecretsInductive, OneActivePlace
<1>5. CallersFit'
  BY <1>1, ConnectionsMove
<1> QED BY <1>3, <1>4, <1>5 DEF SecretsInductive

LEMMA SecretsInductiveStep ==
  ASSUME SecretsInductive, [SecretNext]_secretVars PROVE SecretsInductive'
<1>1. ASSUME NEW p \in Places, NEW r \in References, NEW allows \in SUBSET CallersAt(p), create(p, r, allows)
      PROVE  SecretsInductive'
  <2>1. \A i \in Connections : connection[i].place = p => connection[i].status = "DISABLED"
    <3> TAKE i \in Connections
    <3>1. connection[i] \in Connection
      BY DEF SecretsInductive, SecretTypeOK, Connections
    <3>2. ~(connection[i].place = p /\ connection[i].status = "ACTIVE")
      BY <1>1 DEF create, ActiveOf, Of
    <3> QED BY <3>1, <3>2 DEF Connection
  <2>2. allows \in SUBSET Callers
    BY DEF CallersAt
  <2> QED BY <1>1, <2>1, <2>2, InsertStep DEF create
<1>2. ASSUME NEW p \in Places, NEW r \in References, setFirst(p, r) PROVE SecretsInductive'
  <2>1. \A i \in Connections : connection[i].place # p
    BY <1>2 DEF setFirst, Of
  <2>2. CallersAt(p) \in SUBSET Callers
    BY DEF CallersAt
  <2> QED BY <1>2, <2>1, <2>2, InsertStep DEF setFirst
<1>3. ASSUME NEW f \in Forms, disable(f) PROVE SecretsInductive'
  <2>1. form[f] # None /\ Change(f, "DISABLED", connection[form[f].of].ref)
    BY <1>3 DEF disable, AsShown
  <2>2. connection[form[f].of] \in Connection
    BY <2>1 DEF SecretsInductive, SecretTypeOK, Connections
  <2>3. connection[form[f].of].ref \in References
    BY <2>2 DEF Connection
  <2> QED BY <2>1, <2>3, ChangeStep
<1>4. ASSUME NEW f \in Forms, NEW r \in References, setAgain(f, r) PROVE SecretsInductive'
  BY <1>4, ChangeStep DEF setAgain, AsShown
<1>5. CASE UNCHANGED secretVars
  <2>1. connection' = connection /\ form' = form /\ caller' = caller /\ Connections' = Connections
    BY <1>5 DEF secretVars, Connections
  <2> QED BY <2>1 DEF SecretsInductive, SecretTypeOK, OneActivePlace, CallersFit, CallFits
<1> QED BY <1>1, <1>2, <1>3, <1>4, <1>5, OpenFormStep, LeaseStep, RedeemStep, ReadActiveStep, CallStep
        DEF SecretNext

THEOREM SecretsInvariant == SecretSpec => []SecretsInductive
<1> QED BY SecretsInductiveInit, SecretsInductiveStep, PTL DEF SecretSpec

\* A place has one active connection; a checkout gets the secret of the
\* connection its lease was issued under or none, whatever administrators change
\* in between; and tokens that were used are counted, whichever answer is lost
\* (credential-broker.ts redeem, connector-service.ts create, model-gateway.ts).
THEOREM SecretsSoundHolds == SecretSpec => []SecretsSound
<1>1. SecretsInductive => SecretsSound
  BY DEF SecretsInductive, SecretsSound, CallersFit, CallFits, LeaseKeepsConnection, UsedIsCounted
<1> QED BY <1>1, SecretsInvariant, PTL

\* A connection changes one version at a time and as somebody saw it, and only a
\* model provider's gets another secret.
THEOREM ConnectionStepsHold == SecretSpec => ConnectionSteps
<1>1. ASSUME SecretsInductive, [SecretNext]_secretVars, NEW k \in Connections, connection'[k] # connection[k]
      PROVE  /\ connection'[k].version = connection[k].version + 1
             /\ \E f \in Forms : form[f] = [of |-> k, version |-> connection[k].version]
             /\ PlaceKind[connection[k].place] # "model" =>
                  connection[k].status = "ACTIVE" /\ connection'[k].ref = connection[k].ref
  <2>1. connection[k] \in Connection /\ connection \in Seq(Connection)
    BY <1>1 DEF SecretsInductive, SecretTypeOK, Connections
  <2>2. ASSUME NEW f \in Forms, NEW status, NEW ref, Change(f, status, ref), AsShown(f)
        PROVE  /\ form[f] = [of |-> k, version |-> connection[k].version]
               /\ form[f].of = k /\ connection'[k].ref = ref
               /\ connection'[k].version = connection[k].version + 1
    <3>1. form[f] \in [of : Connections, version : 1..MaxChanges]
      BY <1>1, <2>2 DEF AsShown, SecretsInductive, SecretTypeOK
    <3>2. connection' = [connection EXCEPT ![form[f].of].status = status, ![form[f].of].ref = ref,
                                           ![form[f].of].version = @ + 1]
      BY <2>2 DEF Change
    <3>3. form[f].of = k
      BY <1>1, <2>1, <3>1, <3>2 DEF Connections
    <3> QED BY <2>1, <2>2, <3>1, <3>2, <3>3 DEF AsShown, Connection, Connections
  <2>3. ASSUME NEW place, NEW ref, NEW allows, Insert(place, ref, allows) PROVE FALSE
    BY <1>1, <2>1, <2>3 DEF Insert, Connections
  <2>4. ASSUME NEW c \in Callers, NEW x, CallerGoes(c, x) PROVE FALSE
    BY <1>1, <2>4 DEF CallerGoes
  <2>5. PICK f \in Forms : disable(f) \/ \E r \in References : setAgain(f, r)
    BY <1>1, <2>3, <2>4 DEF SecretNext, secretVars, create, setFirst, OpenForm, leaseForCheckout, redeem,
       Reads, Refused, ReadActive, resolve, reserve, Answers, AnswersError, NoAnswer, settle, Ends
  <2>6. CASE disable(f)
    <3>1. /\ AsShown(f) /\ connection[form[f].of].status = "ACTIVE"
          /\ Change(f, "DISABLED", connection[form[f].of].ref)
      BY <2>6 DEF disable
    <3>2. /\ form[f] = [of |-> k, version |-> connection[k].version]
          /\ form[f].of = k /\ connection'[k].ref = connection[form[f].of].ref
          /\ connection'[k].version = connection[k].version + 1
      BY <2>2, <3>1
    <3> QED BY <3>1, <3>2
  <2>7. CASE \E r \in References : setAgain(f, r)
    <3>1. PICK r \in References : setAgain(f, r)
      BY <2>7
    <3>2. AsShown(f) /\ PlaceKind[connection[form[f].of].place] = "model" /\ Change(f, "ACTIVE", r)
      BY <3>1 DEF setAgain
    <3>3. /\ form[f] = [of |-> k, version |-> connection[k].version] /\ form[f].of = k
          /\ connection'[k].version = connection[k].version + 1
      BY <2>2, <3>2
    <3> QED BY <3>2, <3>3
  <2> QED BY <2>5, <2>6, <2>7
<1>2. SecretsInductive /\ [SecretNext]_secretVars =>
        [\A i \in Connections : connection'[i] # connection[i] =>
           /\ connection'[i].version = connection[i].version + 1
           /\ \E f \in Forms : form[f] = [of |-> i, version |-> connection[i].version]
           /\ PlaceKind[connection[i].place] # "model" =>
                connection[i].status = "ACTIVE" /\ connection'[i].ref = connection[i].ref]_secretVars
  BY <1>1
<1> QED BY <1>2, SecretsInvariant, PTL DEF SecretSpec, ConnectionSteps

(***************************************************************************)
(* Theorems about Store, for every number of scopes, connections and       *)
(* releases.  A scope that has a connection is the only one that has it,   *)
(* and until its COMMIT nothing it did is kept: that is what makes a retry *)
(* safe, and why an error under COMMIT must not be retried.  A release     *)
(* applies what is pending only to a schema that is a prefix of its own.   *)
(***************************************************************************)

Holds(x) == x.step \in {"begun", "working", "committing", "undoing"}

\* What is known of a scope at each step.
ScopeFits(x) ==
  /\ x.on # None <=> Holds(x)
  /\ x.step \in {"idle", "connecting", "begun", "working", "committing"} => x.kept = 0
  /\ x.step = "committing" => x.effects = 1
  /\ IF x.step = "returned" THEN x.kept = 1 /\ x.ran = 1 ELSE x.ran = 0
  /\ x.kept <= 1
  /\ x.kept = 1 => x.step = "returned" \/ x.error = "unknown"
  /\ x.attempt <= MAX_ATTEMPTS + x.reconnects

ClientsFit ==
  /\ \A w \in Works : work[w].on # None => client[work[w].on].used
  /\ \A v, w \in Works : work[v].on = work[w].on /\ work[v].on # None => v = w
  /\ \A k \in Clients : ~client[k].used => ~client[k].transaction

MigrationsFit ==
  /\ \A s, t \in Starters : {starter[s], starter[t]} \subseteq {"locked", "applied"} => s = t
  /\ \A s \in Starters : starter[s] = "applied" => IsPrefixOf(schema, Migrations[s])
  /\ SchemaWhole

StoreInductive == StoreTypeOK /\ (\A w \in Works : ScopeFits(work[w])) /\ ClientsFit /\ MigrationsFit

LEMMA StoreInductiveInit == ASSUME StoreInit PROVE StoreInductive
<1>1. StoreTypeOK
  BY StoreAssumption DEF StoreInit, StoreTypeOK, Work, Fresh
<1>2. \A w \in Works : ScopeFits(work[w])
  BY StoreAssumption DEF StoreInit, ScopeFits, Holds
<1>3. ClientsFit
  BY DEF StoreInit, ClientsFit, Fresh
<1>4. MigrationsFit
  BY DEF StoreInit, MigrationsFit, SchemaWhole
<1> QED BY <1>1, <1>2, <1>3, <1>4 DEF StoreInductive

-----------------------------------------------------------------------------
(* Transactions.                                                           *)

Client == [used : BOOLEAN, alive : BOOLEAN, transaction : BOOLEAN]

\* A step of one scope that leaves the pool's books as they are: it keeps the
\* connection it has, and what changes of the connections is not who uses them.
LEMMA ScopeStep ==
  ASSUME StoreInductive, NEW w \in Works, NEW x \in Work, Become(w, x), ScopeFits(x), x.on = work[w].on,
         client' \in [Clients -> Client],
         \A k \in Clients : /\ client'[k].used = client[k].used
                            /\ client'[k].transaction => client[k].transaction \/ k = work[w].on,
         schema' = schema, starter' = starter
  PROVE  StoreInductive'
<1>1. work \in [Works -> Work] /\ work' = [work EXCEPT ![w] = x]
  BY DEF Become, StoreInductive, StoreTypeOK
<1>2. StoreTypeOK'
  BY <1>1 DEF StoreInductive, StoreTypeOK, Client
<1>3. \A v \in Works : ScopeFits(work'[v]) /\ work'[v].on = work[v].on
  BY <1>1 DEF StoreInductive
<1>4. \A v \in Works : work[v].on # None => work[v].on \in Clients
  BY <1>1 DEF Work
<1>5. ClientsFit'
  <2>1. \A v \in Works : work'[v].on # None => client'[work'[v].on].used
    BY <1>3, <1>4 DEF StoreInductive, ClientsFit
  <2>2. \A u, v \in Works : work'[u].on = work'[v].on /\ work'[u].on # None => u = v
    BY <1>3 DEF StoreInductive, ClientsFit
  <2>3. \A k \in Clients : ~client'[k].used => ~client'[k].transaction
    <3> TAKE k \in Clients
    <3> SUFFICES ASSUME ~client'[k].used PROVE ~client'[k].transaction
      OBVIOUS
    <3>1. ~client[k].used /\ ~client[k].transaction /\ k # work[w].on
      BY StoreAssumption DEF StoreInductive, ClientsFit
    <3> QED BY <3>1
  <2> QED BY <2>1, <2>2, <2>3 DEF ClientsFit
<1>6. MigrationsFit'
  BY DEF StoreInductive, MigrationsFit, SchemaWhole, IsPrefixOf
<1> QED BY <1>2, <1>3, <1>5, <1>6 DEF StoreInductive, ScopeFits, Holds

\* A step after which the scope has no connection, and the one it had is back.
LEMMA ReleaseStep ==
  ASSUME StoreInductive, NEW w \in Works, NEW x \in Work, Become(w, x), ScopeFits(x), x.on = None,
         work[w].on # None, BackInPool(w), schema' = schema, starter' = starter
  PROVE  StoreInductive'
<1>1. work \in [Works -> Work] /\ work' = [work EXCEPT ![w] = x] /\ client \in [Clients -> Client]
  BY DEF Become, StoreInductive, StoreTypeOK, Client
<1>2. \A v \in Works : work[v].on # None => work[v].on \in Clients
  BY <1>1 DEF Work
<1>3. client' = [client EXCEPT ![work[w].on] = Fresh] /\ Fresh \in Client
  BY DEF BackInPool, Fresh, Client
<1>4. StoreTypeOK'
  BY <1>1, <1>3 DEF StoreInductive, StoreTypeOK, Client
<1>5. \A v \in Works : ScopeFits(work'[v])
  BY <1>1 DEF StoreInductive
<1>6. ClientsFit'
  BY <1>1, <1>2, <1>3 DEF StoreInductive, ClientsFit, Fresh
<1>7. MigrationsFit'
  BY DEF StoreInductive, MigrationsFit, SchemaWhole, IsPrefixOf
<1> QED BY <1>4, <1>5, <1>6, <1>7 DEF StoreInductive, ScopeFits, Holds

LEMMA ConnectStep ==
  ASSUME StoreInductive, NEW w \in Works, Connect(w) PROVE StoreInductive'
<1>1. PICK k \in Clients :
        /\ ~client[k].used /\ client' = [client EXCEPT ![k].used = TRUE]
        /\ Become(w, [work[w] EXCEPT !.step = "begun", !.on = k, !.effects = 0])
  BY DEF Connect
<1> DEFINE x == [work[w] EXCEPT !.step = "begun", !.on = k, !.effects = 0]
<1>2. /\ work \in [Works -> Work] /\ client \in [Clients -> Client] /\ work[w] \in Work
      /\ work[w].step = "connecting" /\ ScopeFits(work[w]) /\ k # None
  BY StoreAssumption DEF StoreInductive, StoreTypeOK, Client, Connect, WorkAt
<1>3. x \in Work /\ x.on = k
  <2>1. k \in Clients \cup {None} /\ 0 \in 0..1
    OBVIOUS
  <2> QED BY <1>2, <2>1 DEF Work
<1>4. ScopeFits(x)
  BY <1>2 DEF ScopeFits, Holds, Work
<1> HIDE DEF x
<1>5. work' = [work EXCEPT ![w] = x]
  BY <1>1 DEF Become, x
<1>6. schema' = schema /\ starter' = starter
  BY DEF Connect, PoolUnchanged
<1>7. StoreTypeOK'
  BY <1>1, <1>2, <1>3, <1>5, <1>6 DEF StoreInductive, StoreTypeOK, Client
<1>8. \A v \in Works : ScopeFits(work'[v])
  BY <1>2, <1>4, <1>5 DEF StoreInductive
<1>9. ClientsFit'
  <2>1. \A v \in Works : work[v].on # None => work[v].on \in Clients /\ work[v].on # k
    BY <1>1, <1>2 DEF StoreInductive, ClientsFit, Work
  <2>2. \A j \in Clients : client'[j].used = (client[j].used \/ j = k)
                         /\ client'[j].transaction = client[j].transaction
    BY <1>1, <1>2 DEF Client
  <2> QED BY <1>2, <1>3, <1>5, <2>1, <2>2 DEF StoreInductive, ClientsFit
<1>10. MigrationsFit'
  BY <1>6 DEF StoreInductive, MigrationsFit, SchemaWhole, IsPrefixOf
<1> QED BY <1>7, <1>8, <1>9, <1>10 DEF StoreInductive, ScopeFits, Holds

\* The steps of a scope that leave it its connection, or without one.
LEMMA PlainStep ==
  ASSUME StoreInductive, NEW w \in Works,
         Scoped(w) \/ ConnectFails(w) \/ Queries(w) \/ Retry(w) \/ GiveUp(w)
  PROVE  StoreInductive'
<1> DEFINE y == work[w]
<1>1. y \in Work /\ ScopeFits(y) /\ client \in [Clients -> Client]
  BY DEF StoreInductive, StoreTypeOK, Client
<1>2. client' = client /\ schema' = schema /\ starter' = starter
  BY DEF Scoped, ConnectFails, Queries, Retry, GiveUp, PoolUnchanged
<1>3. ASSUME NEW x \in Work, Become(w, x), ScopeFits(x), x.on = y.on PROVE StoreInductive'
  BY <1>1, <1>2, <1>3, ScopeStep
<1>4. CASE Scoped(w)
  <2> DEFINE x == [y EXCEPT !.step = "connecting"]
  <2>1. x \in Work /\ ScopeFits(x) /\ x.on = y.on
    BY <1>1, <1>4 DEF Scoped, WorkAt, Work, ScopeFits, Holds
  <2> QED BY <1>3, <1>4, <2>1 DEF Scoped
<1>5. CASE ConnectFails(w)
  <2>1. PICK error \in {"own", "connection"} : Become(w, [y EXCEPT !.step = "failing", !.error = error])
    BY <1>5 DEF ConnectFails
  <2> DEFINE x == [y EXCEPT !.step = "failing", !.error = error]
  <2>2. y.step = "connecting"
    BY <1>5 DEF ConnectFails, WorkAt
  <2>3. x \in Work /\ x.on = y.on
    BY <1>1 DEF Work
  <2>4. ScopeFits(x)
    BY <1>1, <2>2 DEF Work, ScopeFits, Holds
  <2> QED BY <1>3, <2>1, <2>3, <2>4
<1>6. CASE Queries(w)
  <2>0. y.step = "working"
    BY <1>6 DEF Queries, WorkAt
  <2>1. CASE Become(w, [y EXCEPT !.step = "committing", !.effects = 1])
    <3> DEFINE x == [y EXCEPT !.step = "committing", !.effects = 1]
    <3>1. x \in Work /\ x.on = y.on
      <4>1. 1 \in 0..1
        OBVIOUS
      <4> QED BY <1>1, <4>1 DEF Work
    <3>2. ScopeFits(x)
      BY <1>1, <2>0 DEF Work, ScopeFits, Holds
    <3> QED BY <1>3, <2>1, <3>1, <3>2
  <2>2. ASSUME NEW error \in {"connection", "serialization", "own"}, Throws(w, error) PROVE StoreInductive'
    <3> DEFINE x == [y EXCEPT !.step = "undoing", !.error = error]
    <3>1. x \in Work /\ x.on = y.on
      BY <1>1 DEF Work
    <3>2. ScopeFits(x)
      BY <1>1, <2>0 DEF Work, ScopeFits, Holds
    <3> QED BY <1>3, <2>2, <3>1, <3>2 DEF Throws
  <2> QED BY <1>6, <2>1, <2>2 DEF Queries
<1>7. CASE Retry(w)
  <2> DEFINE n == IF y.error = "serialization" THEN y.reconnects ELSE y.reconnects + 1
             x == [y EXCEPT !.step = "connecting", !.error = None, !.attempt = @ + 1, !.reconnects = n]
  <2>1. /\ y.step = "failing" /\ y.error \in {"serialization", "connection"}
        /\ y.error = "serialization" => y.attempt < MAX_ATTEMPTS
        /\ y.error = "connection" => y.reconnects < MaxReconnects
    BY <1>7 DEF Retry, Again, WorkAt
  <2>2. n \in 0..MaxReconnects /\ y.attempt + 1 \in Nat
    BY <1>1, <2>1, StoreAssumption DEF Work
  <2>3. y.attempt + 1 <= MAX_ATTEMPTS + n
    BY <1>1, <2>1, StoreAssumption DEF Work, ScopeFits
  <2> HIDE DEF n
  <2>4. x \in Work /\ x.on = y.on
    BY <1>1, <2>2 DEF Work
  <2>5. ScopeFits(x)
    BY <1>1, <2>1, <2>3 DEF Work, ScopeFits, Holds
  <2>6. Become(w, x)
    BY <1>7 DEF Retry, n
  <2> QED BY <1>3, <2>4, <2>5, <2>6
<1>8. CASE GiveUp(w)
  <2> DEFINE x == [y EXCEPT !.step = "threw"]
  <2>1. x \in Work /\ ScopeFits(x) /\ x.on = y.on
    BY <1>1, <1>8 DEF GiveUp, WorkAt, Work, ScopeFits, Holds
  <2> QED BY <1>3, <1>8, <2>1 DEF GiveUp
<1> QED BY <1>4, <1>5, <1>6, <1>7, <1>8

\* The steps of a scope that has a connection.
LEMMA HoldingStep ==
  ASSUME StoreInductive, NEW w \in Works, Begin(w) \/ CommitRefused(w) \/ CommitLost(w)
  PROVE  StoreInductive'
<1> DEFINE y == work[w]
<1>1. y \in Work /\ ScopeFits(y) /\ client \in [Clients -> Client] /\ y.on \in Clients
  BY StoreAssumption DEF StoreInductive, StoreTypeOK, Client, Begin, CommitRefused, CommitLost, WorkAt, ScopeFits, Holds, Work
<1>2. schema' = schema /\ starter' = starter
  BY DEF Begin, CommitRefused, CommitLost, PoolUnchanged
<1>3. ASSUME NEW x \in Work, Become(w, x), ScopeFits(x), x.on = y.on, client' \in [Clients -> Client],
             \A k \in Clients : /\ client'[k].used = client[k].used
                                /\ client'[k].transaction => client[k].transaction \/ k = y.on
      PROVE  StoreInductive'
  BY <1>2, <1>3, ScopeStep
<1>4. ASSUME NEW error \in {"connection", "serialization"}, Throws(w, error), y.kept = 0,
             Holds(y), y.step # "returned", client' \in [Clients -> Client],
             \A k \in Clients : /\ client'[k].used = client[k].used
                                /\ client'[k].transaction => client[k].transaction
      PROVE  StoreInductive'
  <2> DEFINE x == [y EXCEPT !.step = "undoing", !.error = error]
  <2>1. x \in Work /\ x.on = y.on
    BY <1>1, <1>4 DEF Work
  <2>2. ScopeFits(x)
    BY <1>1, <1>4 DEF Work, ScopeFits, Holds
  <2> QED BY <1>3, <1>4, <2>1, <2>2 DEF Throws
<1>5. CASE Begin(w)
  <2>1. y.step = "begun" /\ y.kept = 0
    BY <1>1, <1>5 DEF Begin, WorkAt, ScopeFits, Work
  <2>2. CASE Throws(w, "connection") /\ client' = client
    BY <1>1, <1>4, <2>1, <2>2 DEF Holds
  <2>3. CASE client' = [client EXCEPT ![y.on].transaction = TRUE] /\ Become(w, [y EXCEPT !.step = "working"])
    <3> DEFINE x == [y EXCEPT !.step = "working"]
    <3>1. x \in Work /\ ScopeFits(x) /\ x.on = y.on
      BY <1>1, <2>1 DEF Work, ScopeFits, Holds
    <3>2. /\ client' \in [Clients -> Client]
          /\ \A k \in Clients : /\ client'[k].used = client[k].used
                                /\ client'[k].transaction => client[k].transaction \/ k = y.on
      BY <1>1, <2>3 DEF Client
    <3> QED BY <1>3, <2>3, <3>1, <3>2
  <2> QED BY <1>5, <2>2, <2>3 DEF Begin
<1>6. CASE CommitRefused(w)
  <2>1. y.step = "committing" /\ y.kept = 0 /\ Holds(y)
    BY <1>1, <1>6 DEF CommitRefused, WorkAt, ScopeFits, Holds, Work
  <2>2. /\ client' \in [Clients -> Client]
        /\ \A k \in Clients : /\ client'[k].used = client[k].used
                              /\ client'[k].transaction => client[k].transaction
    BY <1>1, <1>6 DEF CommitRefused, Client
  <2> QED BY <1>4, <1>6, <2>1, <2>2 DEF CommitRefused
<1>7. CASE CommitLost(w)
  <2>1. y.step = "committing" /\ y.kept = 0
    BY <1>1, <1>7 DEF CommitLost, WorkAt, ScopeFits, Work
  <2>2. PICK done \in {0, 1} : Become(w, [y EXCEPT !.step = "undoing", !.error = "unknown", !.kept = @ + done])
    BY <1>7 DEF CommitLost
  <2> DEFINE x == [y EXCEPT !.step = "undoing", !.error = "unknown", !.kept = @ + done]
  <2>3. x \in Work /\ x.on = y.on
    <3>1. y.kept + done \in Nat
      BY <2>1
    <3> QED BY <1>1, <3>1 DEF Work
  <2>4. ScopeFits(x)
    BY <1>1, <2>1 DEF Work, ScopeFits, Holds
  <2>5. /\ client' \in [Clients -> Client]
        /\ \A k \in Clients : /\ client'[k].used = client[k].used
                              /\ client'[k].transaction => client[k].transaction \/ k = y.on
    BY <1>1, <1>7, ZenonT(40) DEF CommitLost, Client
  <2> QED BY <1>3, <2>2, <2>3, <2>4, <2>5
<1> QED BY <1>5, <1>6, <1>7

LEMMA CommitStep ==
  ASSUME StoreInductive, NEW w \in Works, Commit(w) PROVE StoreInductive'
<1> DEFINE y == work[w]
           x == [y EXCEPT !.step = "returned", !.on = None, !.kept = @ + 1, !.ran = @ + y.effects]
<1>1. y \in Work /\ ScopeFits(y) /\ y.step = "committing" /\ y.on # None
  BY DEF StoreInductive, StoreTypeOK, Commit, WorkAt, ScopeFits, Holds
<1>2. y.kept = 0 /\ y.ran = 0 /\ y.effects = 1
  BY <1>1 DEF ScopeFits, Work
<1>3. x \in Work /\ x.on = None
  <2>1. y.kept + 1 \in Nat /\ y.ran + y.effects \in Nat /\ None \in Clients \cup {None}
    BY <1>2
  <2> QED BY <1>1, <2>1 DEF Work
<1>4. ScopeFits(x)
  BY <1>1, <1>2 DEF Work, ScopeFits, Holds
<1>5. Become(w, x) /\ BackInPool(w) /\ schema' = schema /\ starter' = starter
  BY DEF Commit, PoolUnchanged
<1> HIDE DEF x
<1> QED BY <1>1, <1>3, <1>4, <1>5, ReleaseStep

LEMMA RollbackStep ==
  ASSUME StoreInductive, NEW w \in Works, Rollback(w) PROVE StoreInductive'
<1> DEFINE y == work[w]
           x == [y EXCEPT !.step = "failing", !.on = None]
<1>1. y \in Work /\ ScopeFits(y) /\ y.step = "undoing" /\ y.on # None
  BY DEF StoreInductive, StoreTypeOK, Rollback, WorkAt, ScopeFits, Holds
<1>2. x \in Work /\ x.on = None
  BY <1>1 DEF Work
<1>3. ScopeFits(x)
  BY <1>1 DEF Work, ScopeFits, Holds
<1>4. Become(w, x) /\ BackInPool(w) /\ schema' = schema /\ starter' = starter
  BY DEF Rollback, PoolUnchanged
<1> HIDE DEF x
<1> QED BY <1>1, <1>2, <1>3, <1>4, ReleaseStep

LEMMA PoolStep ==
  ASSUME StoreInductive, (\E k \in Clients : Lose(k) \/ Replace(k)) \/ Close
  PROVE  StoreInductive'
<1>1. work' = work /\ schema' = schema /\ starter' = starter /\ client \in [Clients -> Client]
  BY DEF Lose, Replace, Close, PoolUnchanged, StoreInductive, StoreTypeOK, Client
<1>2. /\ client' \in [Clients -> Client]
      /\ \A k \in Clients : client'[k].used = client[k].used /\ (client'[k].transaction => client[k].transaction)
  <2>1. ASSUME NEW k \in Clients, Lose(k)
        PROVE  /\ client' \in [Clients -> Client]
               /\ \A j \in Clients : client'[j].used = client[j].used /\ (client'[j].transaction => client[j].transaction)
    BY <1>1, <2>1 DEF Lose, Client
  <2>2. ASSUME NEW k \in Clients, Replace(k)
        PROVE  /\ client' \in [Clients -> Client]
               /\ \A j \in Clients : client'[j].used = client[j].used /\ (client'[j].transaction => client[j].transaction)
    BY <1>1, <2>2 DEF Replace, Fresh, Client
  <2>3. CASE Close
    BY <1>1, <2>3 DEF Close
  <2> QED BY <2>1, <2>2, <2>3
<1>3. StoreTypeOK'
  BY <1>1, <1>2 DEF StoreInductive, StoreTypeOK, Client
<1>4. \A w \in Works : work[w].on # None => work[w].on \in Clients
  BY DEF StoreInductive, StoreTypeOK, Work
<1>5. ClientsFit'
  BY <1>1, <1>2, <1>4 DEF StoreInductive, ClientsFit
<1> QED BY <1>1, <1>3, <1>5 DEF StoreInductive, ScopeFits, Holds, MigrationsFit, SchemaWhole, IsPrefixOf

-----------------------------------------------------------------------------
(* Migrations.                                                             *)

\* What is pending completes a schema that is a prefix of the release's own.
LEMMA PendingCompletes ==
  ASSUME NEW S, NEW s \in Seq(S), NEW t \in Seq(S), IsPrefixOf(s, t)
  PROVE  s \o SubSeq(t, Len(s) + 1, Len(t)) = t
<1> DEFINE m == Len(s) + 1
           n == Len(t)
           u == SubSeq(t, m, n)
<1>1. Len(s) \in Nat /\ n \in Nat /\ Len(s) <= n /\ m \in Int /\ n \in Int
  BY DEF IsPrefixOf
<1>2. \A i \in m..n : t[i] \in S
  <2> TAKE i \in m..n
  <2>1. i \in 1..Len(t)
    BY <1>1
  <2> QED BY <2>1, ElementOfSeq
<1>3. /\ u \in Seq(S) /\ Len(u) = n - Len(s)
      /\ \A i \in 1..(n - Len(s)) : u[i] = t[Len(s) + i]
  <2>1. /\ u \in Seq(S) /\ Len(u) = IF m <= n THEN n - m + 1 ELSE 0
        /\ \A i \in 1..(n - m + 1) : u[i] = t[m + i - 1]
    <3> HIDE DEF m, n
    <3> QED BY <1>1, <1>2, SubSeqProperties
  <2>2. n - m + 1 = n - Len(s) /\ (m <= n \/ n - Len(s) = 0)
    BY <1>1
  <2>3. \A i \in 1..(n - Len(s)) : m + i - 1 = Len(s) + i
    BY <1>1
  <2> HIDE DEF m, n, u
  <2> QED BY <2>1, <2>2, <2>3
<1> HIDE DEF u
<1>4. /\ s \o u \in Seq(S) /\ Len(s \o u) = n
      /\ \A i \in 1..n : (s \o u)[i] = IF i <= Len(s) THEN s[i] ELSE u[i - Len(s)]
  <2>1. Len(s) + Len(u) = n
    BY <1>1, <1>3
  <2> QED BY <1>3, <2>1, ConcatProperties
<1>5. \A i \in 1..n : (s \o u)[i] = t[i]
  <2> TAKE i \in 1..n
  <2>1. CASE i <= Len(s)
    <3>1. i \in 1..Len(s)
      BY <1>1, <2>1
    <3> QED BY <1>4, <2>1, <3>1 DEF IsPrefixOf
  <2>2. CASE ~(i <= Len(s))
    <3>1. i - Len(s) \in 1..(n - Len(s)) /\ Len(s) + (i - Len(s)) = i
      BY <1>1, <2>2
    <3> QED BY <1>3, <1>4, <2>2, <3>1
  <2> QED BY <2>1, <2>2
<1>6. s \o u = t
  BY <1>4, <1>5, SeqEqual
<1> QED BY <1>6 DEF u

LEMMA PrefixTransitive ==
  ASSUME NEW S, NEW s \in Seq(S), NEW t \in Seq(S), NEW u \in Seq(S), IsPrefixOf(s, t), IsPrefixOf(t, u)
  PROVE  IsPrefixOf(s, u)
<1>1. Len(s) \in Nat /\ Len(t) \in Nat /\ Len(u) \in Nat
  OBVIOUS
<1> QED BY <1>1 DEF IsPrefixOf

\* A step of one process that leaves the schema as it is.
LEMMA StarterStep ==
  ASSUME StoreInductive, NEW s \in Starters, NEW from, NEW to \in {"down", "waiting", "locked", "applied", "checking", "serving", "refused"},
         Move(s, from, to), schema' = schema,
         to = "locked" => Holding = {},
         to = "applied" => from = "locked" /\ IsPrefixOf(schema, Migrations[s]),
         to = "serving" => schema = Migrations[s]
  PROVE  StoreInductive'
<1>1. /\ starter[s] = from /\ starter' = [starter EXCEPT ![s] = to] /\ work' = work /\ client' = client
      /\ starter \in [Starters -> {"down", "waiting", "locked", "applied", "checking", "serving", "refused"}]
  BY DEF Move, StoreInductive, StoreTypeOK
<1>2. StoreTypeOK'
  BY <1>1 DEF StoreInductive, StoreTypeOK
<1>3. \A u, v \in Starters : {starter'[u], starter'[v]} \subseteq {"locked", "applied"} => u = v
  BY <1>1 DEF StoreInductive, MigrationsFit, Holding
<1>4. \A u \in Starters : starter'[u] = "applied" => IsPrefixOf(schema, Migrations[u])
  BY <1>1 DEF StoreInductive, MigrationsFit
<1>5. SchemaWhole'
  <2>1. schema \in Seq(Checksums)
    BY DEF StoreInductive, StoreTypeOK
  <2>2. IsPrefixOf(schema, schema)
    BY <2>1 DEF IsPrefixOf
  <2>3. \A u \in Starters : starter'[u] = "serving" => IsPrefixOf(Migrations[u], schema)
    BY <1>1, <2>2 DEF StoreInductive, MigrationsFit, SchemaWhole
  <2> QED BY <2>3 DEF StoreInductive, MigrationsFit, SchemaWhole, IsPrefixOf
<1>6. MigrationsFit'
  BY <1>3, <1>4, <1>5 DEF MigrationsFit, IsPrefixOf
<1> QED BY <1>1, <1>2, <1>6 DEF StoreInductive, ScopeFits, Holds, ClientsFit

LEMMA CommitMigrationsStep ==
  ASSUME StoreInductive, NEW s \in Starters, CommitMigrations(s) PROVE StoreInductive'
<1>1. /\ starter[s] = "applied" /\ starter' = [starter EXCEPT ![s] = "checking"]
      /\ work' = work /\ client' = client /\ schema' = schema \o Pending(s)
      /\ starter \in [Starters -> {"down", "waiting", "locked", "applied", "checking", "serving", "refused"}]
  BY DEF CommitMigrations, Move, StoreInductive, StoreTypeOK
<1>2. schema \in Seq(Checksums) /\ \A u \in Starters : Migrations[u] \in Seq(Checksums)
  BY StoreAssumption DEF StoreInductive, StoreTypeOK
<1>3. IsPrefixOf(schema, Migrations[s])
  BY <1>1 DEF StoreInductive, MigrationsFit
<1>4. schema' = Migrations[s]
  BY <1>1, <1>2, <1>3, PendingCompletes DEF Pending
<1>5. StoreTypeOK'
  BY <1>1, <1>2, <1>4 DEF StoreInductive, StoreTypeOK
<1>6. \A u \in Starters : starter'[u] \notin {"locked", "applied"}
  <2> TAKE u \in Starters
  <2>1. CASE u = s
    BY <1>1, <2>1
  <2>2. CASE u # s
    BY <1>1, <2>2 DEF StoreInductive, MigrationsFit
  <2> QED BY <2>1, <2>2
<1>7. \A u \in Starters : starter'[u] = "serving" => IsPrefixOf(Migrations[u], schema')
  <2> SUFFICES ASSUME NEW u \in Starters, starter'[u] = "serving" PROVE IsPrefixOf(Migrations[u], Migrations[s])
    BY <1>4
  <2>1. IsPrefixOf(Migrations[u], schema)
    BY <1>1 DEF StoreInductive, MigrationsFit, SchemaWhole
  <2> QED BY <1>2, <1>3, <2>1, PrefixTransitive
<1>8. MigrationsFit'
  BY <1>4, <1>6, <1>7 DEF MigrationsFit, SchemaWhole, IsPrefixOf
<1> QED BY <1>1, <1>5, <1>8 DEF StoreInductive, ScopeFits, Holds, ClientsFit

LEMMA MigrationsStep ==
  ASSUME StoreInductive, MigrationsNext PROVE StoreInductive'
<1>1. PICK s \in Starters :
        \/ StarterBegins(s) \/ Lock(s) \/ Apply(s) \/ CommitMigrations(s) \/ Refuse(s)
        \/ StartFails(s) \/ assertSchemaCurrent(s)
  BY DEF MigrationsNext
<1>2. CASE StarterBegins(s)
  BY <1>2, StarterStep DEF StarterBegins
<1>3. CASE Lock(s)
  BY <1>3, StarterStep DEF Lock
<1>4. CASE Apply(s)
  BY <1>4, StarterStep DEF Apply
<1>5. CASE Refuse(s)
  BY <1>5, StarterStep DEF Refuse
<1>6. CASE StartFails(s)
  BY <1>6, StarterStep DEF StartFails
<1>7. CASE assertSchemaCurrent(s)
  <2> DEFINE to == IF schema = Migrations[s] THEN "serving" ELSE "refused"
  <2>1. Move(s, "checking", to) /\ schema' = schema /\ to \in {"serving", "refused"}
        /\ (to = "serving" => schema = Migrations[s])
    BY <1>7 DEF assertSchemaCurrent
  <2> HIDE DEF to
  <2> QED BY <2>1, StarterStep
<1> QED BY <1>1, <1>2, <1>3, <1>4, <1>5, <1>6, <1>7, CommitMigrationsStep

-----------------------------------------------------------------------------
LEMMA StoreInductiveStep ==
  ASSUME StoreInductive, [StoreNext]_storeVars PROVE StoreInductive'
<1>1. CASE TransactionsNext
  BY <1>1, PlainStep, ConnectStep, HoldingStep, CommitStep, RollbackStep, PoolStep DEF TransactionsNext
<1>2. CASE MigrationsNext
  BY <1>2, MigrationsStep
<1>3. CASE UNCHANGED storeVars
  BY <1>3 DEF storeVars, StoreInductive, StoreTypeOK, ScopeFits, Holds, ClientsFit, MigrationsFit, SchemaWhole, IsPrefixOf
<1> QED BY <1>1, <1>2, <1>3 DEF StoreNext

\* What a scope does is kept at most once, retries are bounded, connections go
\* back clean, and the schema is always that of a whole release with all that a
\* serving process needs: for any losses of connections, failed commits and
\* releases that start at once (pg-store.ts, migrate.ts).
THEOREM StoreSoundHolds == StoreSpec => []StoreSound
<1>1. StoreInductive => StoreSound
  <2> SUFFICES ASSUME StoreInductive PROVE StoreSound
    OBVIOUS
  <2>1. KeptOnce
    BY DEF StoreInductive, KeptOnce, ScopeFits, WorkAt
  <2>2. PoolClean
    BY StoreAssumption DEF StoreInductive, PoolClean, ClientsFit
  <2>3. RetriesBounded
    <3> SUFFICES ASSUME NEW w \in Works PROVE work[w].attempt <= MAX_ATTEMPTS + MaxReconnects
      BY DEF RetriesBounded
    <3>1. work[w] \in Work /\ ScopeFits(work[w])
      BY DEF StoreInductive, StoreTypeOK
    <3> QED BY <3>1, StoreAssumption DEF Work, ScopeFits
  <2> QED BY <2>1, <2>2, <2>3 DEF StoreInductive, StoreSound, MigrationsFit
<1> QED BY <1>1, StoreInductiveInit, StoreInductiveStep, PTL DEF StoreSpec

-----------------------------------------------------------------------------
(* Store implements AtomicScopes: whatever is lost, repeated and given up   *)
(* between them, a scope's caller sees one step.                            *)

Seen(x) == <<x.kept, x.ran, ScopeTold(x)>>

\* A step that one scope takes is a step of the abstract scope, or none.
LEMMA ScopeRefines ==
  ASSUME work \in [Works -> Work], NEW w \in Works, NEW x, Become(w, x),
         \/ Seen(x) = Seen(work[w])
         \/ /\ Seen(work[w]) = <<0, 0, "nothing">>
            /\ Seen(x) \in {<<1, 0, "nothing">>, <<1, 1, "returned">>}
         \/ /\ ScopeTold(work[w]) = "nothing" /\ x.kept = work[w].kept /\ x.ran = work[w].ran
            /\ ScopeTold(x) = "unknown" \/ (ScopeTold(x) = "failed" /\ x.kept = 0)
  PROVE  [Atomic!ASNext]_(Atomic!asVars)
<1> DEFINE kept == [v \in Works |-> work[v].kept]
           ran == [v \in Works |-> work[v].ran]
           told == [v \in Works |-> ScopeTold(work[v])]
<1>1. \A v \in Works : work'[v] = IF v = w THEN x ELSE work[v]
  BY DEF Become
<1>2. /\ kept' = [kept EXCEPT ![w] = x.kept] /\ ran' = [ran EXCEPT ![w] = x.ran]
      /\ told' = [told EXCEPT ![w] = ScopeTold(x)]
  <2>1. /\ kept' = [v \in Works |-> work'[v].kept] /\ ran' = [v \in Works |-> work'[v].ran]
        /\ told' = [v \in Works |-> ScopeTold(work'[v])]
    BY DEF ScopeTold
  <2>2. \A v \in Works : /\ work'[v].kept = (IF v = w THEN x.kept ELSE work[v].kept)
                         /\ work'[v].ran = (IF v = w THEN x.ran ELSE work[v].ran)
                         /\ ScopeTold(work'[v]) = IF v = w THEN ScopeTold(x) ELSE ScopeTold(work[v])
    BY <1>1
  <2> QED BY <2>1, <2>2
<1>3. kept[w] = work[w].kept /\ ran[w] = work[w].ran /\ told[w] = ScopeTold(work[w])
  OBVIOUS
<1>4. /\ kept = [kept EXCEPT ![w] = kept[w]] /\ ran = [ran EXCEPT ![w] = ran[w]]
      /\ told = [told EXCEPT ![w] = told[w]]
  OBVIOUS
<1>5. CASE Seen(x) = Seen(work[w])
  <2>1. UNCHANGED <<kept, ran, told>>
    BY <1>2, <1>3, <1>4, <1>5 DEF Seen
  <2> QED BY <2>1 DEF Atomic!asVars
<1>6. CASE Seen(work[w]) = <<0, 0, "nothing">> /\ Seen(x) = <<1, 0, "nothing">>
  <2>1. Atomic!Keep(w)
    BY <1>2, <1>3, <1>4, <1>6 DEF Seen, Atomic!Keep, Atomic!Open
  <2> QED BY <2>1 DEF Atomic!ASNext
<1>7. CASE Seen(work[w]) = <<0, 0, "nothing">> /\ Seen(x) = <<1, 1, "returned">>
  <2>1. Atomic!Return(w)
    BY <1>2, <1>3, <1>7 DEF Seen, Atomic!Return, Atomic!Open
  <2> QED BY <2>1 DEF Atomic!ASNext
<1>8. CASE /\ ScopeTold(work[w]) = "nothing" /\ x.kept = work[w].kept /\ x.ran = work[w].ran
           /\ ScopeTold(x) = "unknown" \/ (ScopeTold(x) = "failed" /\ x.kept = 0)
  <2>1. PICK outcome \in {"failed", "unknown"} : ScopeTold(x) = outcome /\ (outcome = "failed" => x.kept = 0)
    BY <1>8
  <2>2. Atomic!Throw(w, outcome)
    BY <1>2, <1>3, <1>4, <1>8, <2>1 DEF Atomic!Throw, Atomic!Open
  <2> QED BY <2>2 DEF Atomic!ASNext
<1> QED BY <1>5, <1>6, <1>7, <1>8

\* Every step of a scope is one of these: its work is kept by its COMMIT alone,
\* which is not tried again once it may have been carried out.
LEMMA WorkRefines ==
  ASSUME StoreInductive, NEW w \in Works,
         \/ Scoped(w) \/ Connect(w) \/ ConnectFails(w) \/ Begin(w) \/ Queries(w) \/ Commit(w)
         \/ CommitRefused(w) \/ CommitLost(w) \/ Rollback(w) \/ Retry(w) \/ GiveUp(w)
  PROVE  [Atomic!ASNext]_(Atomic!asVars)
<1> DEFINE y == work[w]
<1>1. y \in Work /\ work \in [Works -> Work]
  BY DEF StoreInductive, StoreTypeOK
<1>2. /\ y.step \in {"idle", "connecting", "begun", "working", "committing"} => y.kept = 0
      /\ y.step # "returned" => y.ran = 0
      /\ y.step = "committing" => y.effects = 1
      /\ y.kept \in {0, 1} /\ (y.kept = 1 => y.step = "returned" \/ y.error = "unknown")
  <2>1. ScopeFits(y) /\ y.kept \in Nat
    BY <1>1 DEF StoreInductive, Work
  <2> QED BY <2>1 DEF ScopeFits
<1>3. ASSUME NEW x, Become(w, x), x.kept = y.kept, x.ran = y.ran,
             y.step \notin {"returned", "threw"}, x.step \notin {"returned", "threw"}
      PROVE  [Atomic!ASNext]_(Atomic!asVars)
  <2>1. Seen(x) = Seen(y)
    BY <1>3 DEF Seen, ScopeTold
  <2> QED BY <1>1, <1>3, <2>1, ScopeRefines
<1>4. ASSUME NEW error, Throws(w, error), y.step \notin {"returned", "threw"}
      PROVE  [Atomic!ASNext]_(Atomic!asVars)
  <2> DEFINE x == [y EXCEPT !.step = "undoing", !.error = error]
  <2>1. x.kept = y.kept /\ x.ran = y.ran /\ x.step = "undoing"
    BY <1>1 DEF Work
  <2> QED BY <1>3, <1>4, <2>1 DEF Throws
<1>5. CASE Scoped(w)
  <2> DEFINE x == [y EXCEPT !.step = "connecting"]
  <2>1. x.kept = y.kept /\ x.ran = y.ran /\ x.step = "connecting" /\ y.step = "idle"
    BY <1>1, <1>5 DEF Scoped, WorkAt, Work
  <2> QED BY <1>3, <1>5, <2>1 DEF Scoped
<1>6. CASE Connect(w)
  <2>1. PICK k \in Clients : Become(w, [work[w] EXCEPT !.step = "begun", !.on = k, !.effects = 0])
    BY ONLY <1>6, Zenon DEF Connect
  <2> DEFINE x == [y EXCEPT !.step = "begun", !.on = k, !.effects = 0]
  <2>2. y.step = "connecting"
    BY ONLY <1>6 DEF Connect, WorkAt
  <2>3. x.kept = y.kept /\ x.ran = y.ran /\ x.step = "begun"
    BY <1>1 DEF Work
  <2> QED BY <1>3, <2>1, <2>2, <2>3
<1>7. CASE ConnectFails(w)
  <2>1. PICK error \in {"own", "connection"} : Become(w, [y EXCEPT !.step = "failing", !.error = error])
    BY <1>7 DEF ConnectFails
  <2> DEFINE x == [y EXCEPT !.step = "failing", !.error = error]
  <2>2. x.kept = y.kept /\ x.ran = y.ran /\ x.step = "failing" /\ y.step = "connecting"
    BY <1>1, <1>7 DEF ConnectFails, WorkAt, Work
  <2> QED BY <1>3, <2>1, <2>2
<1>8. CASE Begin(w)
  <2>1. y.step = "begun"
    BY <1>8 DEF Begin, WorkAt
  <2>2. CASE Become(w, [y EXCEPT !.step = "working"])
    <3> DEFINE x == [y EXCEPT !.step = "working"]
    <3>1. x.kept = y.kept /\ x.ran = y.ran /\ x.step = "working"
      BY <1>1 DEF Work
    <3> QED BY <1>3, <2>1, <2>2, <3>1
  <2> QED BY <1>4, <1>8, <2>1, <2>2 DEF Begin
<1>9. CASE Queries(w)
  <2>1. y.step = "working"
    BY <1>9 DEF Queries, WorkAt
  <2>2. CASE Become(w, [y EXCEPT !.step = "committing", !.effects = 1])
    <3> DEFINE x == [y EXCEPT !.step = "committing", !.effects = 1]
    <3>1. x.kept = y.kept /\ x.ran = y.ran /\ x.step = "committing"
      BY <1>1 DEF Work
    <3> QED BY <1>3, <2>1, <2>2, <3>1
  <2> QED BY <1>4, <1>9, <2>1, <2>2 DEF Queries
<1>10. CASE CommitRefused(w)
  BY <1>4, <1>10 DEF CommitRefused, WorkAt
<1>11. CASE Rollback(w)
  <2> DEFINE x == [y EXCEPT !.step = "failing", !.on = None]
  <2>1. x.kept = y.kept /\ x.ran = y.ran /\ x.step = "failing" /\ y.step = "undoing"
    BY <1>1, <1>11 DEF Rollback, WorkAt, Work
  <2> QED BY <1>3, <1>11, <2>1 DEF Rollback
<1>12. CASE Retry(w)
  <2> DEFINE n == IF y.error = "serialization" THEN y.reconnects ELSE y.reconnects + 1
             x == [y EXCEPT !.step = "connecting", !.error = None, !.attempt = @ + 1, !.reconnects = n]
  <2>1. Become(w, x) /\ y.step = "failing"
    BY <1>12 DEF Retry, WorkAt
  <2> HIDE DEF n
  <2>2. x.kept = y.kept /\ x.ran = y.ran /\ x.step = "connecting"
    BY <1>1 DEF Work
  <2> QED BY <1>3, <2>1, <2>2
<1>13. CASE Commit(w)
  <2> DEFINE x == [y EXCEPT !.step = "returned", !.on = None, !.kept = @ + 1, !.ran = @ + y.effects]
  <2>1. y.step = "committing" /\ x.step = "returned" /\ x.kept = y.kept + 1 /\ x.ran = y.ran + y.effects
    BY <1>1, <1>13 DEF Commit, WorkAt, Work
  <2>2. Become(w, x)
    BY <1>13 DEF Commit
  <2> HIDE DEF x
  <2>3. Seen(y) = <<0, 0, "nothing">> /\ Seen(x) = <<1, 1, "returned">>
    BY <1>2, <2>1 DEF Seen, ScopeTold
  <2> QED BY <1>1, <2>2, <2>3, ScopeRefines
<1>14. CASE CommitLost(w)
  <2>1. PICK done \in {0, 1} : Become(w, [y EXCEPT !.step = "undoing", !.error = "unknown", !.kept = @ + done])
    BY ONLY <1>14 DEF CommitLost
  <2> DEFINE x == [y EXCEPT !.step = "undoing", !.error = "unknown", !.kept = @ + done]
  <2>2. y.step = "committing"
    BY ONLY <1>14 DEF CommitLost, WorkAt
  <2>3. x.step = "undoing" /\ x.ran = y.ran /\ x.kept = y.kept + done
    BY <1>1 DEF Work
  <2> HIDE DEF x
  <2>4. Seen(y) = <<0, 0, "nothing">> /\ Seen(x) \in {<<0, 0, "nothing">>, <<1, 0, "nothing">>}
    BY <1>2, <2>2, <2>3 DEF Seen, ScopeTold
  <2>5. Become(w, x)
    BY <2>1 DEF x
  <2> QED BY <1>1, <2>4, <2>5, ScopeRefines
<1>15. CASE GiveUp(w)
  <2> DEFINE x == [y EXCEPT !.step = "threw"]
  <2>1. y.step = "failing" /\ x.step = "threw" /\ x.kept = y.kept /\ x.ran = y.ran /\ x.error = y.error
    BY <1>1, <1>15 DEF GiveUp, WorkAt, Work
  <2>2. Become(w, x)
    BY <1>15 DEF GiveUp
  <2> HIDE DEF x
  <2>3. ScopeTold(y) = "nothing" /\ (ScopeTold(x) = "unknown" \/ (ScopeTold(x) = "failed" /\ x.kept = 0))
    BY <1>2, <2>1 DEF ScopeTold
  <2> QED BY <1>1, <2>1, <2>2, <2>3, ScopeRefines
<1> QED BY <1>5, <1>6, <1>7, <1>8, <1>9, <1>10, <1>11, <1>12, <1>13, <1>14, <1>15

LEMMA StoreRefines ==
  ASSUME StoreInductive, [StoreNext]_storeVars PROVE [Atomic!ASNext]_(Atomic!asVars)
<1>2. CASE UNCHANGED work
  BY <1>2 DEF Atomic!asVars, ScopeTold
<1>3. CASE TransactionsNext
  <2>1. ASSUME NEW k \in Clients, Lose(k) \/ Replace(k) PROVE UNCHANGED work
    BY <2>1 DEF Lose, Replace
  <2>2. Close => UNCHANGED work
    BY DEF Close
  <2> QED BY <1>2, <1>3, <2>1, <2>2, WorkRefines DEF TransactionsNext
<1>4. CASE MigrationsNext
  <2>1. UNCHANGED work
    BY <1>4 DEF MigrationsNext, StarterBegins, Lock, Apply, CommitMigrations, Refuse, StartFails,
       assertSchemaCurrent, Move
  <2> QED BY <1>2, <2>1
<1>5. CASE UNCHANGED storeVars
  BY <1>2, <1>5 DEF storeVars
<1> QED BY <1>3, <1>4, <1>5 DEF StoreNext

\* The store implements AtomicScopes: a scope is kept at one moment or never,
\* its caller is told that it returned at that moment and then its effects
\* follow, and is told of a plain failure only when nothing is kept or ever will
\* be (pg-store.ts): what the other modules take for one step is one.
THEOREM ScopesAtomicHolds == StoreSpec => ScopesAtomic
<1>1. StoreInit => Atomic!ASInit
  BY DEF StoreInit, Atomic!ASInit, ScopeTold
<1>2. StoreInductive /\ [StoreNext]_storeVars => [Atomic!ASNext]_(Atomic!asVars)
  BY StoreRefines
<1>3. StoreSpec => []StoreInductive
  BY StoreInductiveInit, StoreInductiveStep, PTL DEF StoreSpec
<1> QED BY <1>1, <1>2, <1>3, PTL DEF StoreSpec, ScopesAtomic, Atomic!ASSpec

(***************************************************************************)
(* Theorems about Sandbox, for every number of operations and every set of *)
(* hosts, grants and configurations.  The argument follows one operation:  *)
(* each stage knows what may exist of it, a proxy has exactly the hosts of  *)
(* its operation's grant, and a removal that did not fail stays done,      *)
(* because only what is still there can create anything.                   *)
(***************************************************************************)

StartStages == {"asked", "network", "proxy", "connect", "ready", "start"}
Ending == {"removeSandbox", "removeProxy", "removeNetwork", "removeScratch", "ended"}
Sandboxes == {None, "none", "internal", "bridge"}
Mishaps == [failures : 0..MaxFailures, crashes : 0..MaxSandboxCrashes]
AskedFrom(o) == {h \in Hosts : <<o, h>> \in tried}

\* What is known of an operation and of what exists of it, stage by stage.
OperationFits(o) ==
  /\ op[o].at \in Stages => ~Refuses(o)
  /\ op[o].at \in {"network", "proxy", "connect", "ready"} => Proxied(o)
  /\ sandbox[o] = "bridge" => op[o].hosts # {} /\ ~options.proxy /\ options.unrestricted
  /\ proxy[o] \in Proxies => proxy[o].hosts = op[o].hosts /\ Proxied(o) /\ proxy[o].log = AskedFrom(o)
  /\ o \in networks => Proxied(o)
  /\ op[o].at \in StartStages => sandbox[o] = None /\ o \notin scratch /\ AskedFrom(o) = {}
  /\ op[o].at \in {"asked", "network", "proxy"} => proxy[o] = None
  /\ op[o].at \in {"asked", "network"} => o \notin networks
  /\ op[o].at = "connect" => proxy[o] \in Proxies
  /\ op[o].outcome = "SUCCEEDED" => sandbox[o] = None /\ op[o].at \notin StartStages \cup {"running"}
  /\ op[o].outcome = "SUCCEEDED" /\ op[o].at \in Ending /\ Proxied(o) => op[o].evidence \in {{}, AskedFrom(o)}
  /\ ~op[o].unclean =>
       /\ op[o].at \in {"removeProxy", "removeNetwork", "removeScratch", "ended"} => sandbox[o] = None
       /\ op[o].at \in {"removeNetwork", "removeScratch", "ended"} => proxy[o] = None
       /\ op[o].at \in {"removeScratch", "ended"} => o \notin networks
       /\ op[o].at = "ended" => o \notin scratch

Permitted(x) ==
  \/ x[2] \in op[x[1]].hosts /\ x[3] = "public"
  \/ op[x[1]].hosts # {} /\ ~options.proxy /\ options.unrestricted

Typed ==
  /\ options \in Options
  /\ op \in [Operations -> OperationRecord]
  /\ sandbox \in [Operations -> Sandboxes]
  /\ proxy \in [Operations -> Proxies \cup {None}]
  /\ networks \subseteq Operations /\ scratch \subseteq Scratching
  /\ reached \subseteq Operations \X Hosts \X Address
  /\ tried \subseteq Operations \X Hosts
  /\ mishaps \in Mishaps

SandboxInductive == Typed /\ (\A o \in Operations : OperationFits(o)) /\ Confined

LEMMA SandboxInductiveInit == ASSUME SandboxInit PROVE SandboxInductive
<1>1. \A o \in Operations : \E hosts \in Granted : op[o] = NewOperation(hosts)
  BY DEF SandboxInit
<1>2. \A o \in Operations : op[o] \in OperationRecord /\ op[o].at = "asked" /\ op[o].outcome = None
  <2> TAKE o \in Operations
  <2>1. PICK hosts \in Granted : op[o] = NewOperation(hosts)
    BY <1>1
  <2> QED BY <2>1 DEF NewOperation, OperationRecord
<1>3. op \in [Operations -> OperationRecord]
  BY <1>2 DEF SandboxInit
<1>4. Typed
  BY <1>3, SandboxAssumption DEF SandboxInit, Typed, Sandboxes, Mishaps
<1>5. ASSUME NEW o \in Operations PROVE OperationFits(o)
  <2>1. op[o].at = "asked" /\ op[o].outcome # "SUCCEEDED" /\ sandbox[o] = None /\ None # "bridge" /\ proxy[o] = None
    BY <1>2, SandboxAssumption DEF SandboxInit, Outcomes
  <2>3. None \in Proxies => FALSE
    BY SandboxAssumption
  <2>2. networks = {} /\ scratch = {} /\ AskedFrom(o) = {}
    BY DEF SandboxInit, AskedFrom
  <2> QED BY <2>1, <2>2, <2>3 DEF OperationFits, Stages, StartStages, Ending
<1>6. Confined
  BY DEF SandboxInit, Confined
<1> QED BY <1>4, <1>5, <1>6 DEF SandboxInductive

-----------------------------------------------------------------------------
(* Steps of one operation.                                                 *)

\* op' differs at o only, and there as given.
Goes(o, at, outcome, evidence, unclean) ==
  /\ op' \in [Operations -> OperationRecord]
  /\ \A q \in Operations \ {o} : op'[q] = op[q]
  /\ op'[o].hosts = op[o].hosts /\ op'[o].at = at /\ op'[o].outcome = outcome
  /\ op'[o].evidence = evidence /\ op'[o].unclean = unclean

LEMMA OpGoesOn ==
  ASSUME Typed, NEW o \in Operations, NEW at \in {"asked", "ended", "crashed"} \cup Stages, OpGoes(o, at)
  PROVE  Goes(o, at, op[o].outcome, op[o].evidence, op[o].unclean)
<1>1. op \in [Operations -> OperationRecord] /\ op' = [op EXCEPT ![o].at = at]
  BY DEF Typed, OpGoes
<1> QED BY <1>1 DEF Goes, OperationRecord

LEMMA OpThrown ==
  ASSUME Typed, NEW o \in Operations, OpThrows(o)
  PROVE  Goes(o, "removeSandbox", "FAILED", op[o].evidence, op[o].unclean)
<1>1. op \in [Operations -> OperationRecord]
  BY DEF Typed
<1>2. op' = [op EXCEPT ![o] = [op[o] EXCEPT !.at = "removeSandbox", !.outcome = "FAILED"]]
  BY <1>1 DEF OpThrows
<1>3. [op[o] EXCEPT !.at = "removeSandbox", !.outcome = "FAILED"] \in OperationRecord
  BY <1>1 DEF OperationRecord, Stages, Outcomes
<1> QED BY <1>1, <1>2, <1>3 DEF Goes, OperationRecord

LEMMA OpFinished ==
  ASSUME Typed, NEW o \in Operations, NEW outcome \in Outcomes, Finished(o, outcome)
  PROVE  Goes(o, IF Proxied(o) THEN "logs" ELSE "removeSandbox", outcome, op[o].evidence, op[o].unclean)
<1> DEFINE at == IF Proxied(o) THEN "logs" ELSE "removeSandbox"
           x == [op[o] EXCEPT !.at = at, !.outcome = outcome]
<1>1. op \in [Operations -> OperationRecord] /\ at \in {"asked", "ended", "crashed"} \cup Stages
  BY DEF Typed, Stages
<1>2. op' = [op EXCEPT ![o] = x]
  BY <1>1 DEF Finished
<1> HIDE DEF at
<1>3. x \in OperationRecord /\ x.hosts = op[o].hosts /\ x.at = at /\ x.outcome = outcome
      /\ x.evidence = op[o].evidence /\ x.unclean = op[o].unclean
  BY <1>1 DEF OperationRecord
<1> HIDE DEF x
<1> QED BY <1>1, <1>2, <1>3 DEF Goes, at

\* What a step of one operation has to keep.
LEMMA StepOf ==
  ASSUME SandboxInductive, NEW o \in Operations, Typed', options' = options,
         op'[o].hosts = op[o].hosts,
         \A q \in Operations \ {o} :
           /\ op'[q] = op[q] /\ sandbox'[q] = sandbox[q] /\ proxy'[q] = proxy[q]
           /\ q \in networks' <=> q \in networks
           /\ q \in scratch' <=> q \in scratch
           /\ \A h \in Hosts : <<q, h>> \in tried' <=> <<q, h>> \in tried,
         OperationFits(o)', \A r \in reached' : r \in reached \/ Permitted(r)
  PROVE  SandboxInductive'
<1>1. ASSUME NEW q \in Operations \ {o} PROVE OperationFits(q)'
  <2>1. OperationFits(q) /\ op'[q] = op[q] /\ sandbox'[q] = sandbox[q] /\ proxy'[q] = proxy[q]
        /\ (q \in networks' <=> q \in networks) /\ (q \in scratch' <=> q \in scratch)
    BY <1>1 DEF SandboxInductive
  <2>2. AskedFrom(q)' = AskedFrom(q)
    BY <1>1 DEF AskedFrom
  <2>3. (Proxied(q)' <=> Proxied(q)) /\ (Refuses(q)' <=> Refuses(q))
    BY <2>1 DEF Proxied, Refuses
  <2> QED BY <2>1, <2>2, <2>3 DEF OperationFits
<1>2. \A q \in Operations : OperationFits(q)'
  BY <1>1
<1>3. \A q \in Operations : op'[q].hosts = op[q].hosts
  OBVIOUS
<1>4. Confined'
  <2> SUFFICES ASSUME NEW r \in reached' PROVE Permitted(r)'
    BY DEF Confined, Permitted
  <2>1. r[1] \in Operations
    BY DEF Typed
  <2>2. Permitted(r)
    BY DEF SandboxInductive, Confined, Permitted
  <2> QED BY <1>3, <2>1, <2>2 DEF Permitted
<1> QED BY <1>2, <1>4 DEF SandboxInductive

\* Most steps reach nothing and ask nothing.
LEMMA QuietStep ==
  ASSUME SandboxInductive, NEW o \in Operations,
         UNCHANGED <<options, reached, tried>>,
         op' \in [Operations -> OperationRecord], op'[o].hosts = op[o].hosts,
         sandbox' \in [Operations -> Sandboxes], proxy' \in [Operations -> Proxies \cup {None}],
         networks' \in {networks, networks \cup {o}, networks \ {o}},
         scratch' \in {scratch, scratch \cup ({o} \cap Scratching), scratch \ {o}},
         mishaps' \in Mishaps,
         \A q \in Operations \ {o} : op'[q] = op[q] /\ sandbox'[q] = sandbox[q] /\ proxy'[q] = proxy[q],
         OperationFits(o)'
  PROVE  SandboxInductive'
<1>1. Typed'
  BY DEF SandboxInductive, Typed
<1>2. \A q \in Operations \ {o} : (q \in networks' <=> q \in networks) /\ (q \in scratch' <=> q \in scratch)
  OBVIOUS
<1> QED BY <1>1, <1>2, StepOf

LEMMA MishapsGo == ASSUME Typed, Fine \/ Fails PROVE mishaps' \in Mishaps
  BY SandboxAssumption DEF Typed, Fine, Fails, Mishaps

LEMMA SameAsked == ASSUME tried' = tried, NEW o PROVE AskedFrom(o)' = AskedFrom(o)
  BY DEF AskedFrom

-----------------------------------------------------------------------------
LEMMA ExecuteStep ==
  ASSUME SandboxInductive, NEW o \in Operations, execute(o) PROVE SandboxInductive'
<1>1. Typed /\ OperationFits(o) /\ op[o].at = "asked" /\ op \in [Operations -> OperationRecord]
  BY DEF SandboxInductive, Typed, execute
<1>2. UNCHANGED <<options, sandbox, proxy, networks, scratch, reached, tried, mishaps>>
  BY DEF execute
<1>3. \E at, outcome : /\ Goes(o, at, outcome, op[o].evidence, op[o].unclean)
                       /\ \/ at = "ended" /\ outcome = "DENIED"
                          \/ at = "network" /\ outcome = op[o].outcome /\ Proxied(o) /\ ~Refuses(o)
                          \/ at = "start" /\ outcome = op[o].outcome /\ ~Refuses(o)
  <2>1. CASE Refuses(o)
    <3> DEFINE x == [op[o] EXCEPT !.at = "ended", !.outcome = "DENIED"]
    <3>1. op' = [op EXCEPT ![o] = x] /\ x \in OperationRecord
      BY <1>1, <2>1, ZenonT(40) DEF execute, OperationRecord, Outcomes
    <3>2. Goes(o, "ended", "DENIED", op[o].evidence, op[o].unclean)
      BY <1>1, <3>1 DEF Goes, OperationRecord
    <3> QED BY <3>2
  <2>2. CASE ~Refuses(o) /\ Proxied(o)
    <3>1. OpGoes(o, "network")
      BY <2>2 DEF execute
    <3> QED BY <1>1, <2>2, <3>1, OpGoesOn DEF Stages
  <2>3. CASE ~Refuses(o) /\ ~Proxied(o)
    <3>1. OpGoes(o, "start")
      BY <2>3 DEF execute
    <3> QED BY <1>1, <2>3, <3>1, OpGoesOn DEF Stages
  <2> QED BY <2>1, <2>2, <2>3
<1>4. (Proxied(o)' <=> Proxied(o)) /\ (Refuses(o)' <=> Refuses(o)) /\ AskedFrom(o)' = AskedFrom(o)
  BY <1>2, <1>3, SameAsked DEF Goes, Proxied, Refuses
<1>5. OperationFits(o)'
  BY <1>1, <1>2, <1>3, <1>4, SandboxAssumption DEF Goes, OperationFits, StartStages, Ending, Stages, Outcomes
<1> QED BY <1>1, <1>2, <1>3, <1>5, QuietStep DEF Goes, Typed

\* Steps after which the operation fails, its state as it was but for one thing.
LEMMA CreateNetworkStep ==
  ASSUME SandboxInductive, NEW o \in Operations, CreateNetwork(o) PROVE SandboxInductive'
<1>1. Typed /\ OperationFits(o) /\ op[o].at = "network"
  BY DEF SandboxInductive, CreateNetwork
<1>2. /\ UNCHANGED <<options, sandbox, proxy, scratch, reached, tried>>
      /\ networks' \in {networks, networks \cup {o}}
      /\ mishaps' \in Mishaps
  BY <1>1, MishapsGo DEF CreateNetwork
<1>3. \E at, outcome : /\ Goes(o, at, outcome, op[o].evidence, op[o].unclean)
                       /\ \/ at = "proxy" /\ outcome = op[o].outcome
                          \/ at = "removeSandbox" /\ outcome = "FAILED"
  BY <1>1, OpGoesOn, OpThrown DEF CreateNetwork, Stages
<1>4. (Proxied(o)' <=> Proxied(o)) /\ (Refuses(o)' <=> Refuses(o)) /\ AskedFrom(o)' = AskedFrom(o)
  BY <1>2, <1>3, SameAsked DEF Goes, Proxied, Refuses
<1>5. OperationFits(o)'
  BY <1>1, <1>2, <1>3, <1>4 DEF Goes, OperationFits, StartStages, Ending, Stages
<1> QED BY <1>1, <1>2, <1>3, <1>5, QuietStep DEF Goes, Typed

LEMMA StartProxyStep ==
  ASSUME SandboxInductive, NEW o \in Operations, StartProxy(o) PROVE SandboxInductive'
<1> DEFINE p == [hosts |-> op[o].hosts, joined |-> FALSE, ready |-> FALSE, log |-> {}]
<1>1. Typed /\ OperationFits(o) /\ op[o].at = "proxy"
  BY DEF SandboxInductive, StartProxy
<1>2. UNCHANGED <<options, sandbox, networks, scratch, reached, tried>> /\ mishaps' \in Mishaps
  BY <1>1, MishapsGo DEF StartProxy
<1>3. p \in Proxies /\ p.hosts = op[o].hosts /\ p.log = {}
  BY <1>1 DEF Typed, OperationRecord, Proxies
<1>4. \/ proxy' = [proxy EXCEPT ![o] = p] /\ OpGoes(o, "connect")
      \/ proxy' \in {proxy, [proxy EXCEPT ![o] = p]} /\ OpThrows(o)
  BY DEF StartProxy
<1> HIDE DEF p
<1>5. \E at, outcome : /\ Goes(o, at, outcome, op[o].evidence, op[o].unclean)
                       /\ \/ at = "connect" /\ outcome = op[o].outcome /\ proxy' = [proxy EXCEPT ![o] = p]
                          \/ at = "removeSandbox" /\ outcome = "FAILED" /\ proxy' \in {proxy, [proxy EXCEPT ![o] = p]}
  BY <1>1, <1>4, OpGoesOn, OpThrown DEF Stages
<1>6. /\ proxy' \in [Operations -> Proxies \cup {None}]
      /\ \A q \in Operations \ {o} : proxy'[q] = proxy[q]
      /\ proxy'[o] \in {proxy[o], p} /\ (proxy' = [proxy EXCEPT ![o] = p] => proxy'[o] = p)
  BY <1>1, <1>3, <1>4 DEF Typed
<1>7. (Proxied(o)' <=> Proxied(o)) /\ (Refuses(o)' <=> Refuses(o)) /\ AskedFrom(o)' = AskedFrom(o)
  BY <1>2, <1>5, SameAsked DEF Goes, Proxied, Refuses
<1>8. OperationFits(o)'
  BY <1>1, <1>2, <1>3, <1>5, <1>6, <1>7 DEF Goes, OperationFits, StartStages, Ending, Stages
<1> QED BY <1>1, <1>2, <1>5, <1>6, <1>8, QuietStep DEF Goes, Typed

\* A change of the proxy that leaves its hosts and its log.
ProxyGoes(o) ==
  /\ proxy' \in [Operations -> Proxies \cup {None}]
  /\ \A q \in Operations \ {o} : proxy'[q] = proxy[q]
  /\ proxy'[o] \in Proxies /\ proxy'[o].hosts = proxy[o].hosts /\ proxy'[o].log = proxy[o].log

LEMMA ConnectProxyStep ==
  ASSUME SandboxInductive, NEW o \in Operations, ConnectProxy(o) PROVE SandboxInductive'
<1>1. Typed /\ OperationFits(o) /\ op[o].at = "connect" /\ proxy[o] \in Proxies
  BY DEF SandboxInductive, ConnectProxy, OperationFits
<1>2. UNCHANGED <<options, sandbox, networks, scratch, reached, tried>> /\ mishaps' \in Mishaps
  BY <1>1, MishapsGo DEF ConnectProxy
<1>3. proxy' = proxy \/ proxy' = [proxy EXCEPT ![o].joined = TRUE]
  BY DEF ConnectProxy
<1>4. ProxyGoes(o)
  <2>1. CASE proxy' = proxy
    BY <1>1, <2>1 DEF ProxyGoes, Typed
  <2>2. CASE proxy' = [proxy EXCEPT ![o].joined = TRUE]
    <3> DEFINE p == [proxy[o] EXCEPT !.joined = TRUE]
    <3>1. p \in Proxies /\ p.hosts = proxy[o].hosts /\ p.log = proxy[o].log
      BY <1>1 DEF Proxies
    <3>2. proxy \in [Operations -> Proxies \cup {None}] /\ proxy' = [proxy EXCEPT ![o] = p]
      BY <1>1, <2>2 DEF Typed
    <3> HIDE DEF p
    <3> QED BY <3>1, <3>2 DEF ProxyGoes
  <2> QED BY <1>3, <2>1, <2>2
<1>5. \E at, outcome : /\ Goes(o, at, outcome, op[o].evidence, op[o].unclean)
                       /\ \/ at = "ready" /\ outcome = op[o].outcome
                          \/ at = "removeSandbox" /\ outcome = "FAILED"
  BY <1>1, OpGoesOn, OpThrown DEF ConnectProxy, Stages
<1>6. (Proxied(o)' <=> Proxied(o)) /\ (Refuses(o)' <=> Refuses(o)) /\ AskedFrom(o)' = AskedFrom(o)
  BY <1>2, <1>5, SameAsked DEF Goes, Proxied, Refuses
<1>7. OperationFits(o)'
  BY <1>1, <1>2, <1>4, <1>5, <1>6 DEF Goes, ProxyGoes, OperationFits, StartStages, Ending, Stages
<1> QED BY <1>1, <1>2, <1>4, <1>5, <1>7, QuietStep DEF Goes, ProxyGoes, Typed

\* Of the proxy only `ready` changes.
LEMMA ProxyListensStep ==
  ASSUME SandboxInductive, NEW o \in Operations, ProxyListens(o) PROVE SandboxInductive'
<1> DEFINE p == [proxy[o] EXCEPT !.ready = TRUE]
<1>1. Typed /\ OperationFits(o) /\ proxy \in [Operations -> Proxies \cup {None}] /\ proxy[o] \in Proxies
  BY DEF SandboxInductive, Typed, ProxyListens
<1>2. UNCHANGED <<options, op, sandbox, networks, scratch, reached, tried, mishaps>>
      /\ proxy' = [proxy EXCEPT ![o] = p]
  BY <1>1 DEF ProxyListens
<1>3. p \in Proxies /\ p.hosts = proxy[o].hosts /\ p.log = proxy[o].log
  BY <1>1 DEF Proxies
<1> HIDE DEF p
<1>4. (Proxied(o)' <=> Proxied(o)) /\ (Refuses(o)' <=> Refuses(o)) /\ AskedFrom(o)' = AskedFrom(o)
  BY <1>2, SameAsked DEF Proxied, Refuses
<1>5. op[o].at \notin {"asked", "network", "proxy"} /\ (op[o].at \in {"removeNetwork", "removeScratch", "ended"} => op[o].unclean)
  BY <1>1, SandboxAssumption DEF OperationFits
<1>6. OperationFits(o)'
  BY <1>1, <1>2, <1>3, <1>4, <1>5 DEF OperationFits
<1> QED BY <1>1, <1>2, <1>3, <1>6, QuietStep DEF Typed

LEMMA AwaitProxyStep ==
  ASSUME SandboxInductive, NEW o \in Operations, AwaitProxy(o) PROVE SandboxInductive'
<1>1. Typed /\ OperationFits(o) /\ op[o].at = "ready"
  BY DEF SandboxInductive, AwaitProxy
<1>2. UNCHANGED <<options, sandbox, proxy, networks, scratch, reached, tried, mishaps>>
  BY DEF AwaitProxy
<1>3. \E at, outcome : /\ Goes(o, at, outcome, op[o].evidence, op[o].unclean)
                       /\ \/ at = "start" /\ outcome = op[o].outcome
                          \/ at = "removeSandbox" /\ outcome = "FAILED"
  BY <1>1, OpGoesOn, OpThrown DEF AwaitProxy, Stages
<1>4. (Proxied(o)' <=> Proxied(o)) /\ (Refuses(o)' <=> Refuses(o)) /\ AskedFrom(o)' = AskedFrom(o)
  BY <1>2, <1>3, SameAsked DEF Goes, Proxied, Refuses
<1>5. OperationFits(o)'
  BY <1>1, <1>2, <1>3, <1>4 DEF Goes, OperationFits, StartStages, Ending, Stages
<1> QED BY <1>1, <1>2, <1>3, <1>5, QuietStep DEF Goes, Typed

LEMMA StartSandboxStep ==
  ASSUME SandboxInductive, NEW o \in Operations, StartSandbox(o) PROVE SandboxInductive'
<1>1. Typed /\ OperationFits(o) /\ op[o].at = "start" /\ ~Refuses(o) /\ sandbox \in [Operations -> Sandboxes]
      /\ op[o].outcome # "SUCCEEDED"
  BY DEF SandboxInductive, Typed, StartSandbox, OperationFits, Stages, StartStages
<1>2. UNCHANGED <<options, proxy, networks, scratch, reached, tried>> /\ mishaps' \in Mishaps
  BY <1>1, MishapsGo DEF StartSandbox
<1>3. \E at, outcome : /\ Goes(o, at, outcome, op[o].evidence, op[o].unclean)
                       /\ \/ at = "running" /\ outcome = op[o].outcome /\ sandbox' = [sandbox EXCEPT ![o] = Network(o)]
                          \/ at \in {"logs", "removeSandbox"} /\ outcome = "FAILED" /\ sandbox' = sandbox
  <2>1. CASE sandbox' = [sandbox EXCEPT ![o] = Network(o)] /\ OpGoes(o, "running")
    BY <1>1, <2>1, OpGoesOn DEF Stages
  <2>2. CASE sandbox' = sandbox /\ Finished(o, "FAILED")
    <3>1. Goes(o, IF Proxied(o) THEN "logs" ELSE "removeSandbox", "FAILED", op[o].evidence, op[o].unclean)
      BY <1>1, <2>2, OpFinished DEF Outcomes
    <3> QED BY <2>2, <3>1
  <2>3. CASE sandbox' = sandbox /\ OpThrows(o)
    BY <1>1, <2>3, OpThrown
  <2> QED BY <2>1, <2>2, <2>3 DEF StartSandbox
<1>4. Network(o) \in Sandboxes /\ (Network(o) = "bridge" => op[o].hosts # {} /\ ~options.proxy /\ options.unrestricted)
  BY <1>1 DEF Network, Sandboxes, Refuses
<1>5. /\ sandbox' \in [Operations -> Sandboxes]
      /\ \A q \in Operations \ {o} : sandbox'[q] = sandbox[q]
      /\ sandbox'[o] \in {sandbox[o], Network(o)} /\ (sandbox' = sandbox => sandbox'[o] = sandbox[o])
  BY <1>1, <1>3, <1>4
<1>6. (Proxied(o)' <=> Proxied(o)) /\ (Refuses(o)' <=> Refuses(o)) /\ AskedFrom(o)' = AskedFrom(o)
  BY <1>2, <1>3, SameAsked DEF Goes, Proxied, Refuses
<1>7. OperationFits(o)'
  BY <1>1, <1>2, <1>3, <1>4, <1>5, <1>6 DEF Goes, OperationFits, StartStages, Ending, Stages
<1> QED BY <1>1, <1>2, <1>3, <1>5, <1>7, QuietStep DEF Goes, Typed

LEMMA SandboxExitsStep ==
  ASSUME SandboxInductive, NEW o \in Operations, SandboxExits(o) PROVE SandboxInductive'
<1>1. Typed /\ OperationFits(o) /\ sandbox[o] # None /\ sandbox \in [Operations -> Sandboxes]
      /\ op[o].outcome # "SUCCEEDED" /\ op[o].at \notin StartStages
  BY DEF SandboxInductive, Typed, SandboxExits, OperationFits
<1>2. UNCHANGED <<options, proxy, networks, scratch, reached, tried, mishaps>>
      /\ sandbox' = [sandbox EXCEPT ![o] = None]
  BY DEF SandboxExits
<1>3. \/ Goes(o, op[o].at, op[o].outcome, op[o].evidence, op[o].unclean)
      \/ \E at, outcome : /\ Goes(o, at, outcome, op[o].evidence, op[o].unclean)
                          /\ outcome \in {"SUCCEEDED", "FAILED"}
                          /\ at = IF Proxied(o) THEN "logs" ELSE "removeSandbox"
                          /\ op[o].at = "running"
  <2>1. CASE op[o].at = "running"
    <3>1. PICK outcome \in {"SUCCEEDED", "FAILED"} : Finished(o, outcome)
      BY <2>1 DEF SandboxExits
    <3>2. Goes(o, IF Proxied(o) THEN "logs" ELSE "removeSandbox", outcome, op[o].evidence, op[o].unclean)
      BY <1>1, <3>1, OpFinished DEF Outcomes
    <3> QED BY <2>1, <3>2
  <2>2. CASE op[o].at # "running"
    BY <1>1, <2>2 DEF SandboxExits, Goes, Typed
  <2> QED BY <2>1, <2>2
<1>4. (Proxied(o)' <=> Proxied(o)) /\ (Refuses(o)' <=> Refuses(o)) /\ AskedFrom(o)' = AskedFrom(o)
  BY <1>2, <1>3, SameAsked DEF Goes, Proxied, Refuses
<1>5. sandbox' \in [Operations -> Sandboxes] /\ sandbox'[o] = None /\ \A q \in Operations \ {o} : sandbox'[q] = sandbox[q]
  BY <1>1, <1>2 DEF Sandboxes
<1>6. OperationFits(o)'
  BY <1>1, <1>2, <1>3, <1>4, <1>5, SandboxAssumption DEF Goes, OperationFits, StartStages, Ending, Stages
<1> QED BY <1>1, <1>2, <1>3, <1>5, <1>6, QuietStep DEF Goes, Typed

\* TimesOut and Aborts: the container goes on.
LEMMA KilledStep ==
  ASSUME SandboxInductive, NEW o \in Operations, TimesOut(o) \/ Aborts(o) PROVE SandboxInductive'
<1>1. Typed /\ OperationFits(o) /\ op \in [Operations -> OperationRecord]
  BY DEF SandboxInductive, Typed
<1>2. UNCHANGED <<options, sandbox, proxy, networks, scratch, reached, tried, mishaps>>
  BY DEF TimesOut, Aborts
<1>3. \/ Goes(o, op[o].at, op[o].outcome, op[o].evidence, op[o].unclean)
      \/ \E at, outcome : /\ Goes(o, at, outcome, op[o].evidence, op[o].unclean)
                          /\ outcome \in {"TIMED_OUT", "FAILED"}
                          /\ at \in {"logs", "removeSandbox"}
                          /\ op[o].at = "running"
  <2>1. CASE TimesOut(o)
    <3>1. Goes(o, IF Proxied(o) THEN "logs" ELSE "removeSandbox", "TIMED_OUT", op[o].evidence, op[o].unclean)
      BY <1>1, <2>1, OpFinished DEF TimesOut, Outcomes
    <3> QED BY <2>1, <3>1 DEF TimesOut
  <2>2. CASE Aborts(o) /\ op[o].at = "running"
    <3> DEFINE at == IF Proxied(o) THEN "logs" ELSE "removeSandbox"
               x == [op[o] EXCEPT !.aborted = TRUE, !.outcome = "FAILED", !.at = at]
    <3>1. op' = [op EXCEPT ![o] = x] /\ at \in {"logs", "removeSandbox"}
      BY <1>1, <2>2 DEF Aborts
    <3> HIDE DEF at
    <3>2. x \in OperationRecord /\ x.hosts = op[o].hosts /\ x.at = at /\ x.outcome = "FAILED"
          /\ x.evidence = op[o].evidence /\ x.unclean = op[o].unclean
      BY <1>1, <3>1 DEF OperationRecord, Stages, Outcomes
    <3> HIDE DEF x
    <3>3. Goes(o, at, "FAILED", op[o].evidence, op[o].unclean)
      BY <1>1, <3>1, <3>2 DEF Goes
    <3> QED BY <2>2, <3>1, <3>3
  <2>3. CASE Aborts(o) /\ op[o].at # "running"
    <3> DEFINE x == [op[o] EXCEPT !.aborted = TRUE]
    <3>1. op' = [op EXCEPT ![o] = x]
      BY <1>1, <2>3 DEF Aborts
    <3>2. x \in OperationRecord /\ x.hosts = op[o].hosts /\ x.at = op[o].at /\ x.outcome = op[o].outcome
          /\ x.evidence = op[o].evidence /\ x.unclean = op[o].unclean
      BY <1>1 DEF OperationRecord
    <3> HIDE DEF x
    <3> QED BY <1>1, <3>1, <3>2 DEF Goes
  <2> QED BY <2>1, <2>2, <2>3
<1>4. (Proxied(o)' <=> Proxied(o)) /\ (Refuses(o)' <=> Refuses(o)) /\ AskedFrom(o)' = AskedFrom(o)
  BY <1>2, <1>3, SameAsked DEF Goes, Proxied, Refuses
<1>5. OperationFits(o)'
  BY <1>1, <1>2, <1>3, <1>4 DEF Goes, OperationFits, StartStages, Ending, Stages
<1> QED BY <1>1, <1>2, <1>3, <1>5, QuietStep DEF Goes, Typed

LEMMA SandboxWritesStep ==
  ASSUME SandboxInductive, NEW o \in Operations, SandboxWrites(o) PROVE SandboxInductive'
<1>1. Typed /\ OperationFits(o) /\ sandbox[o] # None
  BY DEF SandboxInductive, SandboxWrites
<1>2. UNCHANGED <<options, op, sandbox, proxy, networks, reached, tried, mishaps>>
      /\ scratch' = scratch \cup ({o} \cap Scratching)
  BY DEF SandboxWrites
<1>3. (Proxied(o)' <=> Proxied(o)) /\ (Refuses(o)' <=> Refuses(o)) /\ AskedFrom(o)' = AskedFrom(o)
  BY <1>2, SameAsked DEF Proxied, Refuses
<1>4. OperationFits(o)'
  BY <1>1, <1>2, <1>3 DEF OperationFits
<1> QED BY <1>1, <1>2, <1>4, QuietStep DEF Typed

-----------------------------------------------------------------------------
(* Evidence and cleanup.                                                   *)

LEMMA ReadLogsStep ==
  ASSUME SandboxInductive, NEW o \in Operations, ReadLogs(o) PROVE SandboxInductive'
<1>1. Typed /\ OperationFits(o) /\ op[o].at = "logs" /\ op \in [Operations -> OperationRecord]
      /\ proxy[o] \in Proxies \cup {None}
  BY DEF SandboxInductive, Typed, ReadLogs
<1>2. UNCHANGED <<options, sandbox, proxy, networks, scratch, reached, tried>> /\ mishaps' \in Mishaps
  BY <1>1, MishapsGo DEF ReadLogs
<1>3. PICK evidence : /\ evidence = {} \/ (proxy[o] \in Proxies /\ evidence = proxy[o].log)
                      /\ op' = [op EXCEPT ![o].at = "removeSandbox", ![o].evidence = evidence]
  <2> DEFINE read == IF proxy[o] = None THEN {} ELSE proxy[o].log
  <2>1. CASE op' = [op EXCEPT ![o].at = "removeSandbox", ![o].evidence = {}]
    <3> WITNESS {}
    <3> QED BY <2>1
  <2>2. CASE op' = [op EXCEPT ![o].at = "removeSandbox", ![o].evidence = read]
    <3>1. read = {} \/ (proxy[o] \in Proxies /\ read = proxy[o].log)
      BY <1>1
    <3> HIDE DEF read
    <3> WITNESS read
    <3> QED BY <2>2, <3>1
  <2> QED BY <2>1, <2>2 DEF ReadLogs
<1>4. evidence \in {{}, AskedFrom(o)} /\ evidence \in SUBSET Hosts
  BY <1>1, <1>3 DEF OperationFits, AskedFrom
<1>5. Goes(o, "removeSandbox", op[o].outcome, evidence, op[o].unclean)
  <2> DEFINE x == [op[o] EXCEPT !.at = "removeSandbox", !.evidence = evidence]
  <2>1. op' = [op EXCEPT ![o] = x]
    BY <1>1, <1>3
  <2>2. x \in OperationRecord /\ x.hosts = op[o].hosts /\ x.at = "removeSandbox" /\ x.outcome = op[o].outcome
        /\ x.evidence = evidence /\ x.unclean = op[o].unclean
    BY <1>1, <1>4 DEF OperationRecord, Stages
  <2> HIDE DEF x
  <2> QED BY <1>1, <2>1, <2>2 DEF Goes
<1>6. (Proxied(o)' <=> Proxied(o)) /\ (Refuses(o)' <=> Refuses(o)) /\ AskedFrom(o)' = AskedFrom(o)
  BY <1>2, <1>5, SameAsked DEF Goes, Proxied, Refuses
<1>7. OperationFits(o)'
  BY <1>1, <1>2, <1>4, <1>5, <1>6 DEF Goes, OperationFits, StartStages, Ending, Stages
<1> QED BY <1>1, <1>2, <1>5, <1>7, QuietStep DEF Goes, Typed

\* A removal that failed marks the operation unclean.
LEMMA OpLeaves ==
  ASSUME Typed, NEW o \in Operations, NEW at \in {"asked", "ended", "crashed"} \cup Stages, Leaves(o, at)
  PROVE  Goes(o, at, op[o].outcome, op[o].evidence, TRUE)
<1> DEFINE x == [op[o] EXCEPT !.at = at, !.unclean = TRUE]
<1>1. op \in [Operations -> OperationRecord] /\ op' = [op EXCEPT ![o] = x]
  BY DEF Typed, Leaves
<1>2. x \in OperationRecord /\ x.hosts = op[o].hosts /\ x.at = at /\ x.outcome = op[o].outcome
      /\ x.evidence = op[o].evidence /\ x.unclean = TRUE
  BY <1>1 DEF OperationRecord
<1> HIDE DEF x
<1> QED BY <1>1, <1>2 DEF Goes

LEMMA RemoveSandboxStep ==
  ASSUME SandboxInductive, NEW o \in Operations, RemoveSandbox(o) PROVE SandboxInductive'
<1> DEFINE at == AfterSandbox(o)
<1>0. at = "removeProxy" \/ (at = "removeScratch" /\ ~Proxied(o))
  BY DEF AfterSandbox
<1>1. Typed /\ OperationFits(o) /\ op[o].at = "removeSandbox" /\ sandbox \in [Operations -> Sandboxes]
      /\ proxy[o] \in Proxies \cup {None}
  BY DEF SandboxInductive, Typed, RemoveSandbox
<1>2. UNCHANGED <<options, proxy, networks, scratch, reached, tried>> /\ mishaps' \in Mishaps
  BY <1>1, MishapsGo DEF RemoveSandbox, Cleans, Leaves
<1>3. \/ Goes(o, at, op[o].outcome, op[o].evidence, op[o].unclean) /\ sandbox' = [sandbox EXCEPT ![o] = None]
      \/ Goes(o, at, op[o].outcome, op[o].evidence, TRUE) /\ sandbox' = sandbox
  <2>1. at \in Stages
    BY <1>0 DEF Stages
  <2>2. \/ sandbox' = [sandbox EXCEPT ![o] = None] /\ OpGoes(o, at)
        \/ sandbox' = sandbox /\ Leaves(o, at)
    BY DEF RemoveSandbox, Cleans
  <2> HIDE DEF at
  <2> QED BY <1>1, <2>1, <2>2, OpGoesOn, OpLeaves
<1> HIDE DEF at
<1>4. (Proxied(o)' <=> Proxied(o)) /\ (Refuses(o)' <=> Refuses(o)) /\ AskedFrom(o)' = AskedFrom(o)
  BY <1>2, <1>3, SameAsked DEF Goes, Proxied, Refuses
<1>5. /\ sandbox' \in [Operations -> Sandboxes]
      /\ \A q \in Operations \ {o} : sandbox'[q] = sandbox[q]
      /\ sandbox'[o] = None \/ (sandbox'[o] = sandbox[o] /\ sandbox' = sandbox)
  <2>1. sandbox' = sandbox \/ sandbox' = [sandbox EXCEPT ![o] = None]
    BY <1>3
  <2> QED BY <1>1, <2>1 DEF Sandboxes
<1>6. OperationFits(o)'
  BY <1>0, <1>1, <1>2, <1>3, <1>4, <1>5, SandboxAssumption DEF Goes, OperationFits, StartStages, Ending, Stages
<1> QED BY <1>1, <1>2, <1>3, <1>5, <1>6, QuietStep DEF Goes, Typed

LEMMA RemoveProxyStep ==
  ASSUME SandboxInductive, NEW o \in Operations, RemoveProxy(o) PROVE SandboxInductive'
<1>1. Typed /\ OperationFits(o) /\ op[o].at = "removeProxy" /\ proxy \in [Operations -> Proxies \cup {None}]
  BY DEF SandboxInductive, Typed, RemoveProxy
<1>2. UNCHANGED <<options, sandbox, networks, scratch, reached, tried>> /\ mishaps' \in Mishaps
  BY <1>1, MishapsGo DEF RemoveProxy, Cleans, Leaves
<1>3. \/ Goes(o, "removeNetwork", op[o].outcome, op[o].evidence, op[o].unclean) /\ proxy' = [proxy EXCEPT ![o] = None]
      \/ Goes(o, "removeNetwork", op[o].outcome, op[o].evidence, TRUE) /\ proxy' = proxy
  BY <1>1, OpGoesOn, OpLeaves DEF RemoveProxy, Cleans, Stages
<1>4. (Proxied(o)' <=> Proxied(o)) /\ (Refuses(o)' <=> Refuses(o)) /\ AskedFrom(o)' = AskedFrom(o)
  BY <1>2, <1>3, SameAsked DEF Goes, Proxied, Refuses
<1>5. /\ proxy' \in [Operations -> Proxies \cup {None}]
      /\ \A q \in Operations \ {o} : proxy'[q] = proxy[q]
      /\ proxy'[o] = None \/ (proxy'[o] = proxy[o] /\ proxy' = proxy)
  <2>1. proxy' = proxy \/ proxy' = [proxy EXCEPT ![o] = None]
    BY <1>3
  <2> QED BY <1>1, <2>1
<1>6. OperationFits(o)'
  BY <1>1, <1>2, <1>3, <1>4, <1>5, SandboxAssumption DEF Goes, OperationFits, StartStages, Ending, Stages
<1> QED BY <1>1, <1>2, <1>3, <1>5, <1>6, QuietStep DEF Goes, Typed

LEMMA RemoveNetworkStep ==
  ASSUME SandboxInductive, NEW o \in Operations, RemoveNetwork(o) PROVE SandboxInductive'
<1>1. Typed /\ OperationFits(o) /\ op[o].at = "removeNetwork"
  BY DEF SandboxInductive, Typed, RemoveNetwork
<1>2. UNCHANGED <<options, sandbox, proxy, scratch, reached, tried>> /\ mishaps' \in Mishaps
  BY <1>1, MishapsGo DEF RemoveNetwork, Cleans, Leaves
<1>3. InUse(o) => op[o].unclean
  BY <1>1, SandboxAssumption DEF OperationFits, InUse
<1>4. \/ Goes(o, "removeScratch", op[o].outcome, op[o].evidence, op[o].unclean) /\ networks' = networks \ {o}
      \/ Goes(o, "removeScratch", op[o].outcome, op[o].evidence, op[o].unclean) /\ networks' = networks /\ InUse(o)
      \/ Goes(o, "removeScratch", op[o].outcome, op[o].evidence, TRUE) /\ networks' = networks
  BY <1>1, OpGoesOn, OpLeaves DEF RemoveNetwork, Cleans, Stages
<1>5. (Proxied(o)' <=> Proxied(o)) /\ (Refuses(o)' <=> Refuses(o)) /\ AskedFrom(o)' = AskedFrom(o)
  BY <1>2, <1>4, SameAsked DEF Goes, Proxied, Refuses
<1>6. OperationFits(o)'
  BY <1>1, <1>2, <1>3, <1>4, <1>5, SandboxAssumption DEF Goes, OperationFits, StartStages, Ending, Stages
<1> QED BY <1>1, <1>2, <1>4, <1>6, QuietStep DEF Goes, Typed

LEMMA RemoveScratchStep ==
  ASSUME SandboxInductive, NEW o \in Operations, RemoveScratch(o) PROVE SandboxInductive'
<1>1. Typed /\ OperationFits(o) /\ op[o].at = "removeScratch"
  BY DEF SandboxInductive, Typed, RemoveScratch
<1>2. UNCHANGED <<options, sandbox, proxy, networks, reached, tried>> /\ mishaps' \in Mishaps
  BY <1>1, MishapsGo DEF RemoveScratch, Cleans, Leaves
<1>3. \/ Goes(o, "ended", op[o].outcome, op[o].evidence, op[o].unclean) /\ scratch' = scratch \ {o}
      \/ Goes(o, "ended", op[o].outcome, op[o].evidence, TRUE) /\ scratch' = scratch
  BY <1>1, OpGoesOn, OpLeaves DEF RemoveScratch, Cleans
<1>4. (Proxied(o)' <=> Proxied(o)) /\ (Refuses(o)' <=> Refuses(o)) /\ AskedFrom(o)' = AskedFrom(o)
  BY <1>2, <1>3, SameAsked DEF Goes, Proxied, Refuses
<1>5. OperationFits(o)'
  BY <1>1, <1>2, <1>3, <1>4 DEF Goes, OperationFits, StartStages, Ending, Stages
<1> QED BY <1>1, <1>2, <1>3, <1>5, QuietStep DEF Goes, Typed

-----------------------------------------------------------------------------
\* A sandbox asks for a host: its proxy connects it to public addresses of hosts of
\* the grant, the bridge to anything.
LEMMA RequestStep ==
  ASSUME SandboxInductive, NEW o \in Operations, NEW host \in Hosts,
         NEW addresses \in (SUBSET Address) \ {{}}, Request(o, host, addresses)
  PROVE  SandboxInductive'
<1>1. Typed /\ OperationFits(o) /\ sandbox[o] # None /\ proxy \in [Operations -> Proxies \cup {None}]
  BY SandboxAssumption DEF SandboxInductive, Typed, Request
<1>2. UNCHANGED <<options, op, sandbox, networks, scratch, mishaps>>
  BY DEF Request
<1>3. \A a \in addresses : a \in Address /\ ("internal" \notin addresses => a = "public")
  BY DEF Address
<1>4. (Proxied(o)' <=> Proxied(o)) /\ (Refuses(o)' <=> Refuses(o))
  BY <1>2 DEF Proxied, Refuses
<1>5. op[o].at \notin StartStages /\ op[o].outcome # "SUCCEEDED"
  BY <1>1 DEF OperationFits
<1>6. CASE sandbox[o] = "bridge" /\ reached' = reached \cup {<<o, host, a>> : a \in addresses} /\ UNCHANGED <<proxy, tried>>
  <2>1. Typed'
    BY <1>1, <1>2, <1>3, <1>6 DEF Typed
  <2>2. AskedFrom(o)' = AskedFrom(o)
    BY <1>6, SameAsked
  <2>3. OperationFits(o)'
    BY <1>1, <1>2, <1>4, <1>6, <2>2 DEF OperationFits
  <2>4. \A r \in reached' : r \in reached \/ Permitted(r)
    BY <1>1, <1>6 DEF OperationFits, Permitted
  <2> QED BY <1>2, <1>6, <2>1, <2>3, <2>4, StepOf
<1>7. CASE /\ proxy[o] # None
           /\ tried' = tried \cup {<<o, host>>}
           /\ proxy' = [proxy EXCEPT ![o].log = @ \cup {host}]
           /\ \/ ProxyAccepts(proxy[o], host, addresses) /\ \E a \in addresses : reached' = reached \cup {<<o, host, a>>}
              \/ reached' = reached
  <2> DEFINE p == [proxy[o] EXCEPT !.log = proxy[o].log \cup {host}]
  <2>1. proxy[o] \in Proxies /\ proxy[o].hosts = op[o].hosts /\ Proxied(o) /\ proxy[o].log = AskedFrom(o)
    BY <1>1, <1>7 DEF OperationFits
  <2>2. p \in Proxies /\ p.hosts = op[o].hosts /\ p.log = AskedFrom(o) \cup {host}
    BY <2>1 DEF Proxies
  <2>3. proxy' = [proxy EXCEPT ![o] = p]
    BY <1>1, <1>7, <2>1
  <2> HIDE DEF p
  <2>4. /\ proxy' \in [Operations -> Proxies \cup {None}] /\ proxy'[o] = p
        /\ \A q \in Operations \ {o} : proxy'[q] = proxy[q]
    BY <1>1, <2>2, <2>3
  <2>5. AskedFrom(o)' = AskedFrom(o) \cup {host} /\ tried' \subseteq Operations \X Hosts
        /\ \A q \in Operations \ {o}, h \in Hosts : <<q, h>> \in tried' <=> <<q, h>> \in tried
    BY <1>1, <1>7 DEF AskedFrom, Typed
  <2>6. /\ reached' \subseteq Operations \X Hosts \X Address
        /\ \A r \in reached' : r \in reached \/ Permitted(r)
    <3>1. CASE reached' = reached
      BY <1>1, <3>1 DEF Typed
    <3>2. CASE ProxyAccepts(proxy[o], host, addresses) /\ \E a \in addresses : reached' = reached \cup {<<o, host, a>>}
      BY <1>1, <1>3, <2>1, <3>2 DEF Typed, ProxyAccepts, Permitted
    <3> QED BY <1>7, <3>1, <3>2
  <2>7. Typed'
    BY <1>1, <1>2, <2>4, <2>5, <2>6 DEF Typed
  <2>8. /\ proxy[o] # None /\ op[o].at \notin {"asked", "network", "proxy"}
        /\ op[o].at \in {"removeNetwork", "removeScratch", "ended"} => op[o].unclean
    BY <1>1, <1>5, <1>7 DEF OperationFits, StartStages
  <2>9. OperationFits(o)'
    BY <1>1, <1>2, <1>4, <1>5, <2>1, <2>2, <2>4, <2>5, <2>8 DEF OperationFits, StartStages
  <2> QED BY <1>2, <2>4, <2>5, <2>6, <2>7, <2>9, StepOf
<1> QED BY <1>6, <1>7 DEF Request

\* A crash of the runtime leaves everything of its operations where it is.
LEMMA CrashStep ==
  ASSUME SandboxInductive, RuntimeCrashes PROVE SandboxInductive'
<1>1. Typed /\ op \in [Operations -> OperationRecord]
  BY DEF SandboxInductive, Typed
<1>2. UNCHANGED <<options, sandbox, proxy, networks, scratch, reached, tried>>
  BY DEF RuntimeCrashes
<1>3. \A o \in Operations :
        /\ op'[o] \in OperationRecord /\ op'[o].hosts = op[o].hosts /\ op'[o].outcome = op[o].outcome
        /\ op'[o] = op[o] \/ op'[o].at = "crashed"
  <2> TAKE o \in Operations
  <2>1. op'[o] = IF op[o].at \in Stages THEN [op[o] EXCEPT !.at = "crashed"] ELSE op[o]
    BY DEF RuntimeCrashes
  <2> QED BY <1>1, <2>1 DEF OperationRecord
<1>4. op' \in [Operations -> OperationRecord]
  BY <1>3 DEF RuntimeCrashes
<1>5. mishaps' \in Mishaps
  BY <1>1, SandboxAssumption DEF RuntimeCrashes, Typed, Mishaps
<1>6. Typed'
  BY <1>1, <1>2, <1>4, <1>5 DEF Typed
<1>7. ASSUME NEW o \in Operations PROVE OperationFits(o)'
  <2>1. (Proxied(o)' <=> Proxied(o)) /\ (Refuses(o)' <=> Refuses(o)) /\ AskedFrom(o)' = AskedFrom(o) /\ OperationFits(o)
    BY <1>2, <1>3, SameAsked DEF Proxied, Refuses, SandboxInductive
  <2>2. CASE op'[o] = op[o]
    BY <1>2, <2>1, <2>2 DEF OperationFits
  <2>3. CASE op'[o].at = "crashed"
    BY <1>2, <1>3, <2>1, <2>3 DEF OperationFits, StartStages, Ending, Stages
  <2> QED BY <1>3, <2>2, <2>3
<1>8. Confined'
  <2> SUFFICES ASSUME NEW r \in reached' PROVE Permitted(r)'
    BY DEF Confined, Permitted
  <2>1. r \in reached /\ r[1] \in Operations /\ Permitted(r)
    BY <1>1, <1>2 DEF Typed, SandboxInductive, Confined, Permitted
  <2> QED BY <1>2, <1>3, <2>1 DEF Permitted
<1> QED BY <1>6, <1>7, <1>8 DEF SandboxInductive

LEMMA SandboxInductiveStep ==
  ASSUME SandboxInductive, [SandboxNext]_sandboxVars PROVE SandboxInductive'
<1>1. CASE \E o \in Operations : RuntimeSteps(o)
  BY <1>1, CreateNetworkStep, StartProxyStep, ConnectProxyStep, AwaitProxyStep, StartSandboxStep, KilledStep,
     ReadLogsStep, RemoveSandboxStep, RemoveProxyStep, RemoveNetworkStep, RemoveScratchStep DEF RuntimeSteps
<1>2. CASE \E o \in Operations : execute(o) \/ ProxyListens(o) \/ SandboxExits(o) \/ Aborts(o) \/ SandboxWrites(o)
  BY <1>2, ExecuteStep, ProxyListensStep, SandboxExitsStep, KilledStep, SandboxWritesStep
<1>3. CASE \E o \in Operations, host \in Hosts, addresses \in (SUBSET Address) \ {{}} : Request(o, host, addresses)
  BY <1>3, RequestStep
<1>4. CASE UNCHANGED sandboxVars
  <2>1. Typed' /\ Confined'
    BY <1>4 DEF sandboxVars, SandboxInductive, Typed, Confined
  <2>2. ASSUME NEW o \in Operations PROVE OperationFits(o)'
    <3>1. (Proxied(o)' <=> Proxied(o)) /\ (Refuses(o)' <=> Refuses(o)) /\ AskedFrom(o)' = AskedFrom(o) /\ OperationFits(o)
      BY <1>4, SameAsked DEF sandboxVars, Proxied, Refuses, SandboxInductive
    <3> QED BY <1>4, <3>1 DEF sandboxVars, OperationFits
  <2> QED BY <2>1, <2>2 DEF SandboxInductive
<1> QED BY <1>1, <1>2, <1>3, <1>4, CrashStep DEF SandboxNext

LEMMA InductiveSound == ASSUME SandboxInductive PROVE SandboxSound
<1>1. Typed /\ Confined /\ \A o \in Operations : OperationFits(o)
  BY DEF SandboxInductive
<1>2. SandboxTypeOK
  BY <1>1, SandboxAssumption DEF Typed, SandboxTypeOK, Sandboxes, Mishaps
<1>3. NothingLeft
  BY <1>1 DEF NothingLeft, OperationFits
<1>4. EvidenceComplete
  BY <1>1 DEF EvidenceComplete, OperationFits, Ending, AskedFrom
<1> QED BY <1>1, <1>2, <1>3, <1>4 DEF SandboxSound

\* No repository code reaches what its grant does not name, an operation that is over
\* has left nothing behind unless a cleanup command failed, and its evidence names all
\* that its sandbox asked for: whatever fails, times out, is aborted or crashes, in any
\* number of operations (container-execution-provider.ts, egress-proxy-session.ts).
THEOREM SandboxSoundHolds == SandboxSpec => []SandboxSound
  BY SandboxInductiveInit, SandboxInductiveStep, InductiveSound, PTL DEF SandboxSpec
=============================================================================
