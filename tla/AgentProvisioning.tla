--------------------------- MODULE AgentProvisioning ---------------------------
(* How agents come to be: installations of a catalog blueprint, batches of    *)
(* agents an administrator creates from them, and agents an employee asks for *)
(* and somebody else decides about (catalog/installation-service.ts,          *)
(* database.ts createAssignedAgents, requestProvisioning, decideProvisioning).*)
(* Every operation is one serializable transaction; what happens between them *)
(* is that answers are lost, forms grow old and people come and go.           *)
EXTENDS Absent, Naturals, Sequences, FiniteSets, SequencesExt

CONSTANTS
  People, FirstRoles,
  Installations, InstallationNames,
  BlueprintVersions,
  Batches,          \* request ids of createAssignedAgents
  Bodies,           \* what they may ask for: [installation, version, recipients]
  Askings,          \* ids of provisioning requests
  MaxRowVersion,    \* bound: edits of an installation
  MaxAgents         \* bound: agents

VARIABLES
  roles,            \* [People -> [role, active]]
  installations,    \* [Installations -> row or None]
  console,          \* [Installations -> the row a form was opened on, or None]
  batches,          \* [Batches -> row of admin_agent_batches or None]
  answered,         \* answers to createAssignedAgents that reached a console
  askings,          \* [Askings -> provisioning request or None]
  agents            \* the agents, in the order they were inserted

agentVars == <<roles, installations, console, batches, answered, askings, agents>>

Person == [role : {"ADMIN", "EMPLOYEE"}, active : BOOLEAN]
Installation == [name : InstallationNames, version : BlueprintVersions,
                 status : {"ACTIVE", "RETIRED"}, row : 1..MaxRowVersion]
Indexes == SUBSET (1..MaxAgents)
Batch == [by : People, body : Bodies, result : Indexes]
Given == [request : Batches, by : People, body : Bodies, result : Indexes]
Asking == [employee : People, version : BlueprintVersions,
           status : {"PENDING", "APPROVED", "REJECTED"}, decidedBy : People \union {None}]
Agent == [origin : Batches \union Askings, employee : People,
          installation : Installations \union {None}, version : BlueprintVersions]

ASSUME PeopleTyped ==
  /\ FirstRoles \in [People -> {"ADMIN", "EMPLOYEE"}] /\ None \notin People
  /\ MaxRowVersion \in Nat \ {0} /\ MaxAgents \in Nat
ASSUME RequestsTyped ==
  /\ \A body \in Bodies :
       /\ body.installation \in Installations \union {None} /\ body.version \in BlueprintVersions
       /\ body.recipients \subseteq People /\ IsFiniteSet(body.recipients)
  /\ Batches \intersect Askings = {}
  /\ None \notin Installation /\ None \notin Batch /\ None \notin Asking

AgentsTypeOK ==
  /\ roles \in [People -> Person]
  /\ installations \in [Installations -> Installation \union {None}]
  /\ console \in [Installations -> Installation \union {None}]
  /\ batches \in [Batches -> Batch \union {None}]
  /\ answered \subseteq Given
  /\ askings \in [Askings -> Asking \union {None}]
  /\ agents \in Seq(Agent) /\ Len(agents) <= MaxAgents

AgentsInit ==
  /\ roles = [p \in People |-> [role |-> FirstRoles[p], active |-> TRUE]]
  /\ installations = [i \in Installations |-> None]
  /\ console = [i \in Installations |-> None]
  /\ batches = [b \in Batches |-> None]
  /\ answered = {}
  /\ askings = [q \in Askings |-> None]
  /\ agents = <<>>

IsAdmin(p) == roles[p] = [role |-> "ADMIN", active |-> TRUE]
IsEmployee(p) == roles[p] = [role |-> "EMPLOYEE", active |-> TRUE]

(* A name is taken only by an active installation. *)
NameFree(n) ==
  \A i \in Installations : installations[i] # None /\ installations[i].status = "ACTIVE" =>
    installations[i].name # n

(* A member leaves, or the operator's identity file makes an employee an      *)
(* administrator (syncIdentities).                                            *)
Leave(p) ==
  /\ roles[p].active
  /\ roles' = [roles EXCEPT ![p].active = FALSE]
  /\ UNCHANGED <<installations, console, batches, answered, askings, agents>>

Promote(p) ==
  /\ IsEmployee(p)
  /\ roles' = [roles EXCEPT ![p].role = "ADMIN"]
  /\ UNCHANGED <<installations, console, batches, answered, askings, agents>>

(* InstallationService.create *)
CreateInstallation(p, i, n, v) ==
  /\ IsAdmin(p) /\ installations[i] = None /\ NameFree(n)
  /\ installations' = [installations EXCEPT
       ![i] = [name |-> n, version |-> v, status |-> "ACTIVE", row |-> 1]]
  /\ UNCHANGED <<roles, console, batches, answered, askings, agents>>

(* An administrator opens a form on what the installation is now. *)
OpenInstallation(p, i) ==
  /\ IsAdmin(p) /\ installations[i] # None /\ console[i] # installations[i]
  /\ console' = [console EXCEPT ![i] = installations[i]]
  /\ UNCHANGED <<roles, installations, batches, answered, askings, agents>>

(* update and retire change the row only as the administrator saw it. *)
Editable(p, i) ==
  /\ IsAdmin(p) /\ console[i] # None
  /\ installations[i].status = "ACTIVE"
  /\ installations[i].row = console[i].row

UpdateInstallation(p, i, n, v) ==
  /\ Editable(p, i)
  /\ n # installations[i].name => NameFree(n)
  /\ installations[i].row < MaxRowVersion
  /\ installations' = [installations EXCEPT
       ![i] = [@ EXCEPT !.name = n, !.version = v, !.row = installations[i].row + 1]]
  /\ UNCHANGED <<roles, console, batches, answered, askings, agents>>

RetireInstallation(p, i) ==
  /\ Editable(p, i)
  /\ installations[i].row < MaxRowVersion
  /\ installations' = [installations EXCEPT
       ![i] = [@ EXCEPT !.status = "RETIRED", !.row = installations[i].row + 1]]
  /\ UNCHANGED <<roles, console, batches, answered, askings, agents>>

(* Agents come from an active installation, at the version asked for. *)
Installed(body) ==
  body.installation # None =>
    /\ installations[body.installation] # None
    /\ installations[body.installation].status = "ACTIVE"
    /\ installations[body.installation].version = body.version

Members(set) == SetToSeq(set)
NewAgents(b, body) ==
  [k \in 1..Cardinality(body.recipients) |->
     [origin |-> b, employee |-> Members(body.recipients)[k],
      installation |-> body.installation, version |-> body.version]]

(* An answer is on its way: it arrives, or it is lost and the administrator   *)
(* may repeat the request.                                                    *)
Answers(b, p, body, result) ==
  answered' \in {answered,
    answered \union {[request |-> b, by |-> p, body |-> body, result |-> result]}}

(* createAssignedAgents of a new request: all recipients or none. *)
CreateAgents(p, b, body) ==
  /\ IsAdmin(p) /\ batches[b] = None
  /\ Installed(body)
  /\ \A e \in body.recipients : IsEmployee(e)
  /\ Len(agents) + Cardinality(body.recipients) <= MaxAgents
  /\ agents' = agents \o NewAgents(b, body)
  /\ LET result == (Len(agents) + 1)..Len(agents')
     IN  /\ batches' = [batches EXCEPT ![b] = [by |-> p, body |-> body, result |-> result]]
         /\ Answers(b, p, body, result)
  /\ UNCHANGED <<roles, installations, console, askings>>

(* A request is the same if the same administrator asks for the same. *)
Replayed(p, b, body) ==
  /\ batches[b] # None
  /\ batches[b].by = p /\ batches[b].body = body

(* createAssignedAgents of a request that was answered before: the same       *)
(* answer, before the installation or the recipients are looked at.           *)
RepeatAnswer(p, b, body) ==
  /\ IsAdmin(p) /\ Replayed(p, b, body)
  /\ Answers(b, p, body, batches[b].result)
  /\ UNCHANGED <<roles, installations, console, batches, askings, agents>>

(* requestProvisioning looks at the role and not at the membership, which may *)
(* have ended since the request came in.                                      *)
AskFor(p, q, v) ==
  /\ roles[p].role = "EMPLOYEE" /\ askings[q] = None
  /\ askings' = [askings EXCEPT
       ![q] = [employee |-> p, version |-> v, status |-> "PENDING", decidedBy |-> None]]
  /\ UNCHANGED <<roles, installations, console, batches, answered, agents>>

(* A request is decided once, and not by the one who asked. *)
Decidable(p, q) ==
  /\ askings[q] # None /\ askings[q].status = "PENDING"
  /\ askings[q].employee # p

(* decideProvisioning: an approval makes the agent in the same transaction,   *)
(* which looks at the request only, not at who decides.                       *)
Decide(p, q, decision) ==
  /\ Decidable(p, q)
  /\ decision = "APPROVED" => Len(agents) < MaxAgents
  /\ askings' = [askings EXCEPT ![q] = [@ EXCEPT !.status = decision, !.decidedBy = p]]
  /\ agents' = IF decision = "APPROVED"
       THEN Append(agents, [origin |-> q, employee |-> askings[q].employee,
                            installation |-> None, version |-> askings[q].version])
       ELSE agents
  /\ UNCHANGED <<roles, installations, console, batches, answered>>

AgentsNext ==
  \E p \in People :
    \/ Leave(p) \/ Promote(p)
    \/ \E i \in Installations :
         \/ OpenInstallation(p, i) \/ RetireInstallation(p, i)
         \/ \E n \in InstallationNames, v \in BlueprintVersions :
              CreateInstallation(p, i, n, v) \/ UpdateInstallation(p, i, n, v)
    \/ \E b \in Batches, body \in Bodies :
         CreateAgents(p, b, body) \/ RepeatAnswer(p, b, body)
    \/ \E q \in Askings :
         \/ \E v \in BlueprintVersions : AskFor(p, q, v)
         \/ \E decision \in {"APPROVED", "REJECTED"} : Decide(p, q, decision)

AgentsSpec == AgentsInit /\ [][AgentsNext]_agentVars

(* However often a batch is sent, by whoever and with whatever else in it:    *)
(* every answer lists exactly the agents the request made, one for each       *)
(* recipient that was asked for (createAssignedAgents, admin_agent_batches).  *)
BatchMadeOnce ==
  \A x \in answered :
    /\ x.result = {k \in 1..Len(agents) : agents[k].origin = x.request}
    /\ \A e \in People : Cardinality({k \in x.result : agents[k].employee = e})
                           = IF e \in x.body.recipients THEN 1 ELSE 0

(* An approved request has one agent, for the one who asked; any other has    *)
(* none, and nobody decides about their own, even after becoming an           *)
(* administrator (decideProvisioning).                                        *)
DecidedOnce ==
  \A q \in Askings : askings[q] # None =>
    /\ Cardinality({k \in 1..Len(agents) : agents[k].origin = q})
         = IF askings[q].status = "APPROVED" THEN 1 ELSE 0
    /\ askings[q].decidedBy # askings[q].employee

(* An installation changes only as the administrator who changes it saw it,   *)
(* and not after it is retired (installation-service.ts update, retire).      *)
NothingOverwritten ==
  [][\A i \in Installations :
       installations[i] # None /\ installations'[i] # installations[i] =>
         /\ installations[i].status = "ACTIVE"
         /\ console[i] = installations[i]]_agentVars

(* New agents are of the version the active installation has at that moment,  *)
(* whatever the console showed (createAssignedAgents, agents_installation_scope). *)
AgentsAsInstalled ==
  [][\A k \in (Len(agents) + 1)..Len(agents') :
       LET i == agents'[k].installation
       IN  i # None => /\ installations[i].status = "ACTIVE"
                       /\ installations[i].version = agents'[k].version]_agentVars

(* Every agent was asked for once, by a batch or by an employee.              *)
AgentsSound == AgentsTypeOK /\ BatchMadeOnce /\ DecidedOnce

(* Nothing changes that an administrator did not see as it was.               *)
AgentSteps == NothingOverwritten /\ AgentsAsInstalled
=============================================================================
