----------------------------- MODULE MCServices -----------------------------
(* The services that share nothing with each other but the database, checked *)
(* side by side: `focus` is the one whose processes move, the others stay as *)
(* they start.  What a service promises under its fairness holds as it would *)
(* alone, since only the service in focus has actions that are enabled.      *)
EXTENDS ModelSpending, AlertWebhooks, ArtifactStore, ExecutionGrants,
        OrganizationStructure, TenantDomainCache, CatalogVersions, AgentProvisioning, TLC

CONSTANTS
  c1, c2, r1,                                          \* ModelSpending
  h1, a1, e1, w1, w2,                                  \* AlertWebhooks
  x1, x2,                                              \* ArtifactStore
  q1, q2, t1, path1,                                   \* ExecutionGrants
  fam1, fam2, dis1, role1, lev1, u1, u2, u3, p1, p2, emp1, emp2,   \* OrganizationStructure
  host1, host2, org1, k1, k2,                          \* TenantDomainCache
  v1, v2, m1, m2,                                      \* CatalogVersions
  i1, b1, ask1, ann, ben, eve,                         \* AgentProvisioning
  Focuses                                              \* the services a run is about

VARIABLE focus

(* ModelSpending *)
MCCallRun == [c \in Calls |-> r1]
MCCallInput == [c \in Calls |-> IF c = c2 THEN 2 ELSE 1]
MCCallAsked == [c \in Calls |-> 3]
MCPrices == {[input |-> 3, output |-> 7], [input |-> 2, output |-> 0]}
Limits(month_, run, monthCost, runCost) ==
  ("MONTHLY" :> month_) @@ ("RUN" :> run) @@ ("MONTHLY_COST" :> monthCost) @@ ("RUN_COST" :> runCost)
MCBudgets == {
  [limit |-> Limits(6, 5, None, None), currency |-> "USD", thresholds |-> {80}],
  [limit |-> Limits(None, None, 4, 2), currency |-> "EUR", thresholds |-> {50}]}
MCUsages == {<<0, 0>>, <<1, 1>>, <<2, 4>>}

(* ExecutionGrants: a credentialed checkout, and a write below it that needs an approval *)
MCThread == [q \in Requests |-> t1]
MCTarget == [q \in Requests |-> path1]
MCDecision == [q \in Requests |-> IF q = q2 THEN "APPROVAL_REQUIRED" ELSE "ALLOWED"]

(* OrganizationStructure: what stands at first, and which records are worked on *)
MCKind ==
  (fam1 :> "families") @@ (fam2 :> "families") @@ (dis1 :> "disciplines") @@ (role1 :> "roles")
  @@ (lev1 :> "levels") @@ (u1 :> "units") @@ (u2 :> "units") @@ (u3 :> "units")
  @@ (p1 :> "positions") @@ (p2 :> "positions")
Nothing == [r \in Records |-> None]
Jobs ==
  (fam1 :> New(<<>>)) @@ (lev1 :> New(<<>>)) @@ (dis1 :> New([family |-> fam1]))
  @@ (role1 :> New([family |-> fam1, discipline |-> dis1]))
Seat(unit) == New([unit |-> unit, role |-> role1, level |-> lev1, reportsTo |-> None])
Root == New([parent |-> None])
Admin == [status |-> "active", access |-> "active"]
Board == (emp1 :> Admin) @@ (emp2 :> Admin)
Stands(more) == Jobs @@ (u1 :> Root) @@ more @@ Nothing
MCSituations == {
  [records |-> Nothing, people |-> Board, open |-> {}],
  [records |-> Nothing, people |-> Board, open |-> {fam1, fam2, dis1, role1}],
  [records |-> Stands(<<>>), people |-> Board, open |-> {u1, u2, u3}],
  [records |-> Stands((u2 :> Root) @@ (p1 :> Seat(u1))), people |-> Board, open |-> {role1, u2, p1}],
  [records |-> Stands(p1 :> Seat(u1)), people |-> Board, open |-> {u1, p1, p2}],
  [records |-> Stands((p1 :> Seat(u1)) @@ (p2 :> Seat(u1))), people |-> Board, open |-> {p1, emp1, emp2}],
  [records |-> Stands(u2 :> Root), people |-> (emp1 :> Admin) @@ (emp2 :> None), open |-> {u1, u2, emp2}]}

(* AgentProvisioning: one administrator, and two requests under one request id *)
MCBodies == {[installation |-> i1, version |-> 1, recipients |-> {ben, eve}],
             [installation |-> i1, version |-> 1, recipients |-> {eve}]}
MCFirstRoles == [p \in People |-> IF p = ann THEN "ADMIN" ELSE "EMPLOYEE"]

-----------------------------------------------------------------------------
vars == <<focus, spendingVars, webhookVars, artifactVars, grantVars, orgVars, domainVars,
          catalogVars, agentVars>>

Init ==
  /\ focus \in Focuses
  /\ SpendingInit /\ WebhookInit /\ ArtifactInit /\ GrantInit
  /\ OrgInit /\ DomainInit /\ CatalogInit /\ AgentsInit
  /\ focus = "organization" <=> open # {}
  /\ focus # "catalog" => registered = Shipped

SpendingMoves ==
  /\ focus = "spending" /\ SpendingNext
  /\ UNCHANGED <<focus, webhookVars, artifactVars, grantVars, orgVars,
                 domainVars, catalogVars, agentVars>>

WebhookMoves ==
  /\ focus = "webhooks" /\ WebhookNext
  /\ UNCHANGED <<focus, spendingVars, artifactVars, grantVars, orgVars,
                 domainVars, catalogVars, agentVars>>

ArtifactMoves ==
  /\ focus = "artifacts" /\ ArtifactNext
  /\ UNCHANGED <<focus, spendingVars, webhookVars, grantVars, orgVars,
                 domainVars, catalogVars, agentVars>>

GrantMoves ==
  /\ focus = "grants" /\ GrantNext
  /\ UNCHANGED <<focus, spendingVars, webhookVars, artifactVars, orgVars,
                 domainVars, catalogVars, agentVars>>

OrgMoves ==
  /\ focus = "organization" /\ OrgNext
  /\ UNCHANGED <<focus, spendingVars, webhookVars, artifactVars, grantVars,
                 domainVars, catalogVars, agentVars>>

DomainMoves ==
  /\ focus = "domains" /\ DomainNext
  /\ UNCHANGED <<focus, spendingVars, webhookVars, artifactVars, grantVars,
                 orgVars, catalogVars, agentVars>>

CatalogMoves ==
  /\ focus = "catalog" /\ CatalogNext
  /\ UNCHANGED <<focus, spendingVars, webhookVars, artifactVars, grantVars,
                 orgVars, domainVars, agentVars>>

AgentsMoves ==
  /\ focus = "agents" /\ AgentsNext
  /\ UNCHANGED <<focus, spendingVars, webhookVars, artifactVars, grantVars,
                 orgVars, domainVars, catalogVars>>

Next ==
  \/ SpendingMoves \/ WebhookMoves \/ ArtifactMoves \/ GrantMoves
  \/ OrgMoves \/ DomainMoves \/ CatalogMoves \/ AgentsMoves

\* Every service has the fairness of its own specification.  Out of focus, nothing it is fair
\* about is ever enabled: it has no work at first.
Spec == Init /\ [][Next]_vars /\ WebhookFairness /\ ArtifactFairness /\ GrantFairness /\ DomainFairness

\* What the records of the organization, of its domains, of its catalog and of its agents say.
DirectorySound == StructureSound /\ DomainsSound /\ CatalogSound /\ AgentsSound

\* What a step of a service may never do.
ServiceSteps ==
  /\ GrantsFit /\ SettledOnce /\ DeliveriesProgress /\ KeptUnlessOvertaken /\ RowsForward
  /\ ClaimsKept /\ AgentSteps

\* Deliveries, removals, claims of grants and answers of the domain cache do not stay open, due
\* or wrong: since an instance bounds what can start them, each ends if all are over again and
\* again.
ServicesSettle == []<>(DeliveriesSettled /\ NothingDue /\ ClaimsEnded /\ AnswersFresh)
=============================================================================
