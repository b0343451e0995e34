-------------------------- MODULE CredentialBroker --------------------------
(***************************************************************************)
(* Repository credential leases (credential-broker.ts, ADR 0031).           *)
(*                                                                         *)
(* A lease is issued with the signed grant of one checkout, redeemed once   *)
(* by an execution runtime that presents the grant, and ends by release,    *)
(* revocation or expiry.  Redemption commits first; only then is the token  *)
(* minted at the provider, and how to withdraw it is remembered in the      *)
(* memory of the process (the map `outstanding`).  Ending a lease commits   *)
(* first too, and then withdraws whatever is remembered.                    *)
(*                                                                         *)
(* Each transaction is one action; what a process does between them, and    *)
(* its calls to the provider, are actions of their own.  Requests of the    *)
(* execution runtimes arrive at any time or never.                          *)
(***************************************************************************)
EXTENDS Naturals, FiniteSets

CONSTANTS Leases, Runs, RunOf,   \* the checkouts and the run each belongs to
          Runtimes, NoRuntime,   \* execution runtime identities
          Minting,               \* leases whose connection mints tokens (github_app)
          \* what the environment may do
          Replays,     \* a lease may be presented again after its redemption
          Overlaps,    \* a lease may end while its token is being minted
          Restarts     \* the API process may restart

ASSUME BrokerAssumption ==
  /\ RunOf \in [Leases -> Runs]
  /\ NoRuntime \notin Runtimes
  /\ Minting \subseteq Leases
  /\ {Replays, Overlaps, Restarts} \subseteq BOOLEAN

VARIABLES lease,     \* [Leases -> the row and what a process does for it]
          run,       \* [Runs -> status of the run and its lease, as redeem tells it apart]
          active     \* whether the connection is ACTIVE

vars == <<lease, run, active>>

Live == {"ISSUED", "REDEEMED"}
Ended == {"RELEASED", "REVOKED", "EXPIRED"}

\* due: expires_at has passed.  issuing: the redeeming process waits for the
\* secret or the provider.  token: at the provider.  outstanding: the process
\* remembers how to withdraw it.  ending: the lease ended and withdraw() has
\* yet to run.  recall: the provider is being asked to withdraw the token.
\* astray: history, what would have withdrawn the token came too early, was left
\* out or was forgotten.
LeaseRecord ==
  [status: {"NONE"} \cup Live \cup Ended, redeemedBy: Runtimes \cup {NoRuntime},
   due: BOOLEAN, redemptions: Nat, issuing: BOOLEAN,
   token: {"none", "live", "withdrawn"},
   outstanding: BOOLEAN, ending: BOOLEAN, recall: BOOLEAN, astray: BOOLEAN]

Unissued == [status |-> "NONE", redeemedBy |-> NoRuntime, due |-> FALSE, redemptions |-> 0,
             issuing |-> FALSE, token |-> "none",
             outstanding |-> FALSE, ending |-> FALSE, recall |-> FALSE, astray |-> FALSE]

Init == /\ lease = [l \in Leases |-> Unissued]
        /\ run = [u \in Runs |-> "RUNNING"]
        /\ active = TRUE

Put(l, x) == lease' = [lease EXCEPT ![l] = x]
RunningRun(l) == run[RunOf[l]] = "RUNNING"
MayEnd(x) == Overlaps \/ ~x.issuing

-----------------------------------------------------------------------------
(* Environment.                                                            *)

\* The run pauses for an approval, goes on, or stops without this connection
\* being asked; an administrator disables the connection, which is for good.
PauseRun(u) == /\ run[u] = "RUNNING" /\ run' = [run EXCEPT ![u] = "WAITING"]
               /\ UNCHANGED <<lease, active>>
ResumeRun(u) == /\ run[u] = "WAITING" /\ run' = [run EXCEPT ![u] = "RUNNING"]
                /\ UNCHANGED <<lease, active>>
DisableConnection == active /\ active' = FALSE /\ UNCHANGED <<lease, run>>

Deadline(l) == /\ lease[l].status # "NONE" /\ ~lease[l].due
               /\ Put(l, [lease[l] EXCEPT !.due = TRUE])
               /\ UNCHANGED <<run, active>>

-----------------------------------------------------------------------------
(* Transactions.                                                           *)

\* leaseForCheckout, in the transaction that signs the grant.
Issue(l) ==
  /\ lease[l].status = "NONE" /\ RunningRun(l) /\ active
  /\ Put(l, [Unissued EXCEPT !.status = "ISSUED"])
  /\ UNCHANGED <<run, active>>

\* transition(): only a live lease ends.
End(x, status) == IF x.status \in Live THEN [x EXCEPT !.status = status] ELSE x

\* redeem accepted.
\* Faulty: a lease redeemed before is accepted again.
RedeemableAgain(l) == lease[l].status \in Live /\ ~lease[l].due /\ RunningRun(l) /\ active
Redeemable(l) == lease[l].status = "ISSUED" /\ ~lease[l].due /\ RunningRun(l) /\ active

\* The presentation of a redeemed lease is a replay, whatever becomes of it.
Redeem(rt, l) ==
  /\ Redeemable(l)
  /\ lease[l].status = "REDEEMED" => Replays
  /\ Put(l, [lease[l] EXCEPT !.status = "REDEEMED", !.redeemedBy = rt,
                             !.redemptions = @ + 1, !.issuing = TRUE])
  /\ UNCHANGED <<run, active>>

\* A lease that was used ends without withdraw().
Replayed(x) == [End(x, "REVOKED") EXCEPT !.astray = @ \/ x.status = "REDEEMED"]

\* redeem refused, in the order of its checks: used before, expired, run or
\* connection no longer active.  Nothing is withdrawn here.
RedeemRefused(l) ==
  /\ lease[l].status # "NONE"
  /\ \/ /\ lease[l].status \in {"REDEEMED", "RELEASED"} /\ Replays /\ MayEnd(lease[l])
        /\ Put(l, Replayed(lease[l]))
     \/ /\ lease[l].status = "ISSUED" /\ lease[l].due
        /\ Put(l, End(lease[l], "EXPIRED"))
     \/ /\ lease[l].status = "ISSUED" /\ ~lease[l].due /\ ~(RunningRun(l) /\ active)
        /\ Put(l, End(lease[l], "REVOKED"))
  /\ UNCHANGED <<run, active>>

\* release by the runtime that redeemed it; on an ended lease it only withdraws.
\* Faulty: the status of the row is not looked at.
ReleasedAlways(x) == [x EXCEPT !.status = "RELEASED", !.ending = TRUE]
\* Faulty: withdraw() is not called.
ReleasedOnly(x) == IF x.status = "REDEEMED" THEN [x EXCEPT !.status = "RELEASED"] ELSE x
Released(x) == [IF x.status = "REDEEMED" THEN [x EXCEPT !.status = "RELEASED"] ELSE x
                EXCEPT !.ending = TRUE]

Release(rt, l) ==
  /\ lease[l].redeemedBy = rt /\ MayEnd(lease[l])
  /\ Put(l, Released(lease[l]))
  /\ UNCHANGED <<run, active>>

\* revoke by an administrator; refused or failed, it runs withdraw() all the same.
Revoke(l) ==
  /\ lease[l].status # "NONE" /\ MayEnd(lease[l])
  /\ \E x \in {lease[l], End(lease[l], "REVOKED")} : Put(l, [x EXCEPT !.ending = TRUE])
  /\ UNCHANGED <<run, active>>

\* The synchronous part of withdraw(): the entry leaves the map.  While the token
\* of an ended lease is still being minted there is none yet.
Withdrawn(x) == [x EXCEPT !.ending = FALSE, !.outstanding = FALSE,
                          !.recall = @ \/ x.outstanding,
                          !.astray = @ \/ (x.issuing /\ x.status \in Ended)]

\* revokeForRun, in the transaction that stops the run (onRunStopped); it calls
\* withdraw() before that transaction has committed.
OfRun(l, u) == RunOf[l] = u /\ lease[l].status \in Live

StopRun(u) ==
  /\ run[u] # "STOPPED"
  /\ \A l \in Leases : OfRun(l, u) => MayEnd(lease[l])
  /\ run' = [run EXCEPT ![u] = "STOPPED"]
  /\ lease' = [l \in Leases |-> IF OfRun(l, u) THEN Withdrawn(End(lease[l], "REVOKED"))
                                ELSE lease[l]]
  /\ UNCHANGED active

\* The same transaction rolled back: what withdraw() took is gone all the same.
StopRunFails(u) ==
  /\ run[u] # "STOPPED"
  /\ \E l \in Leases : OfRun(l, u) /\ lease[l].outstanding
  /\ lease' = [l \in Leases |-> IF OfRun(l, u) THEN Withdrawn(lease[l]) ELSE lease[l]]
  /\ UNCHANGED <<run, active>>

\* expireDue, whenever a runtime polls.
\* Faulty: only leases nobody redeemed.
OverdueUnused(l) == lease[l].status = "ISSUED" /\ lease[l].due
Overdue(l) == lease[l].status \in Live /\ lease[l].due

\* Faulty: withdraw() is not called.
ExpiredOnly(x) == End(x, "EXPIRED")
Expired(x) == [End(x, "EXPIRED") EXCEPT !.ending = TRUE]

ExpireDue ==
  /\ \E l \in Leases : Overdue(l)
  /\ \A l \in Leases : Overdue(l) => MayEnd(lease[l])
  /\ lease' = [l \in Leases |-> IF Overdue(l) THEN Expired(lease[l]) ELSE lease[l]]
  /\ UNCHANGED <<run, active>>

-----------------------------------------------------------------------------
(* What the process does outside transactions.                             *)

\* The provider answered: the token is remembered and handed to the runtime,
\* whether or not it still waits for it.
Mint(l) ==
  /\ lease[l].issuing
  /\ Put(l, IF l \in Minting
            THEN [lease[l] EXCEPT !.issuing = FALSE, !.token = "live", !.outstanding = TRUE]
            ELSE [lease[l] EXCEPT !.issuing = FALSE])
  /\ UNCHANGED <<run, active>>

\* The secret or the provider is unavailable, or the token too broad (and then
\* withdrawn by the issuer): revokeLease.
MintFails(l) ==
  /\ lease[l].issuing
  /\ Put(l, [End(lease[l], "REVOKED") EXCEPT !.issuing = FALSE, !.ending = TRUE])
  /\ UNCHANGED <<run, active>>

Withdraw(l) == /\ lease[l].ending
               /\ Put(l, Withdrawn(lease[l]))
               /\ UNCHANGED <<run, active>>

Recall(l) == /\ lease[l].recall
             /\ Put(l, [lease[l] EXCEPT !.recall = FALSE, !.token = "withdrawn"])
             /\ UNCHANGED <<run, active>>

\* A restart forgets redemptions under way and every token to withdraw.
Restart ==
  /\ Restarts
  /\ lease' = [l \in Leases |-> [lease[l] EXCEPT !.issuing = FALSE, !.outstanding = FALSE,
                                                 !.ending = FALSE, !.recall = FALSE,
                                                 !.astray = @ \/ lease[l].token = "live"]]
  /\ UNCHANGED <<run, active>>

\* What the API process does while it runs.
Handled ==
  \/ \E u \in Runs : PauseRun(u) \/ ResumeRun(u) \/ StopRun(u) \/ StopRunFails(u)
  \/ \E l \in Leases :
       \/ Deadline(l) \/ Issue(l) \/ RedeemRefused(l) \/ Revoke(l)
       \/ Mint(l) \/ MintFails(l) \/ Withdraw(l) \/ Recall(l)
       \/ \E rt \in Runtimes : Redeem(rt, l) \/ Release(rt, l)
  \/ DisableConnection \/ ExpireDue

Next == Handled \/ Restart

Spec == Init /\ [][Next]_vars

\* Fairness: time passes, runtimes poll (claim calls expireDue), a process goes
\* on with what it began, and the provider answers.  Nothing is assumed of the
\* execution runtimes: a release may be lost; the process does not restart.
LeaseFairness ==
  /\ WF_vars(ExpireDue)
  /\ \A l \in Leases :
       /\ WF_vars(Deadline(l)) /\ WF_vars(Withdraw(l)) /\ WF_vars(Recall(l))
       /\ WF_vars(Mint(l) \/ MintFails(l))

FairSpec == Init /\ [][Handled]_vars /\ LeaseFairness

-----------------------------------------------------------------------------
(* Properties.                                                             *)

TypeOK == /\ lease \in [Leases -> LeaseRecord]
          /\ run \in [Runs -> {"RUNNING", "WAITING", "STOPPED"}]
          /\ active \in BOOLEAN

\* "One-use": however often and by whomever its grant is presented, and across
\* restarts, a lease yields one credential (redeem).
SingleUse == \A l \in Leases : lease[l].redemptions <= 1

\* Revocable "when the run stops": no live lease belongs to a stopped run,
\* though leases are issued, redeemed and ended concurrently with the stop.
NoLeaseOfStoppedRun ==
  \A l \in Leases : lease[l].status \in Live => run[RunOf[l]] # "STOPPED"

\* What the rows of the leases say together with their runs, whoever redeems, ends or repeats.
LeasesSound == TypeOK /\ SingleUse /\ NoLeaseOfStoppedRun

\* A lease that ended stays as it ended: a late release does not make a revoked
\* or expired lease look released, nor a replay a released one look revoked.
EndedStays ==
  [][\A l \in Leases : lease[l].status \in Ended => lease'[l].status = lease[l].status]_vars

\* A lease that ended is followed by the withdrawal of its token, whichever of
\* release, revocation, stop and expiry ended it and however they overlap with the
\* minting, unless withdraw() ran before the token had arrived, a replay ended the
\* lease (redeem), or the process was restarted.
EndedIsRecalled ==
  \A l \in Leases :
    lease[l].status \in Ended /\ lease[l].token = "live" /\ ~lease[l].astray =>
      lease[l].recall \/ (lease[l].ending /\ lease[l].outstanding)

\* "Mints an installation token [...] and revokes it when the lease ends."
TokenEndsWithLease ==
  \A l \in Leases :
    (lease[l].status \in Ended /\ lease[l].token = "live") ~> (lease[l].token # "live")

\* "Short-lived": every lease ends, also when nobody redeems or releases it.
LeaseEnds == \A l \in Leases : (lease[l].status \in Live) ~> (lease[l].status \in Ended)

-----------------------------------------------------------------------------
(* What makes them inductive, of one lease.                                 *)

LeaseInv(x) ==
  /\ x.redemptions <= 1
  /\ x.status \in {"NONE", "ISSUED"} => x.redemptions = 0
  /\ x.issuing => x.token = "none" /\ x.redemptions = 1
  /\ x.token # "none" => x.redemptions = 1
  /\ x.outstanding => x.token = "live" /\ ~x.recall
  /\ x.recall => x.token = "live"
  /\ x.token = "live" => x.outstanding \/ x.recall \/ x.astray
  /\ x.status \in Ended /\ (x.outstanding \/ x.issuing) => x.ending \/ x.astray

Inductive == TypeOK /\ NoLeaseOfStoppedRun /\ \A l \in Leases : LeaseInv(lease[l])
=============================================================================
