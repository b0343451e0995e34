# Formal model of the employee-agent platform

TLA+ modules for the parts of this repository where a wrong interleaving, a lost answer, a
restart or a stale page would do harm, the configurations that check them with TLC on small
instances, and proofs that TLAPS checks for every value of the constants.

- [1 The system](#1-the-system): its parts, their state, how they interact
- [2 Modules](#2-modules) and what they stand for in the code
- [3 Runs](#3-runs): what each one asks, its bounds, the fairness it assumes
- [4 Proofs](#4-proofs): what is proved, from what, along which argument
- [5 Findings](#5-findings)
- [6 What is not modelled](#6-what-is-not-modelled)
- [7 What is left](#7-what-is-left)

Paths are relative to `src/`; `control-plane-api/` stands for `apps/control-plane-api/src/`.

## 1 The system

The platform lets organizations give employees software agents. A control plane keeps all
durable state in PostgreSQL; agent runtimes do the work and reach the control plane only through
signed requests; execution runtimes run commands in sandboxes under single-use grants the control
plane signs; people use a web console and a desktop application.

```
 employee-desktop, control-plane-web ──HTTP──▶ control-plane-api ──▶ PostgreSQL
                                                ▲   ▲    │
           agent-runtime (poll: claim, events, ─┘   │    └──▶ Jira, GitHub, vault, webhooks,
           checkpoints, actions, model tokens)      │         object store
                 │ signed grant                     │ redeem / release credentials
                 └────────▶ execution-runtime ──────┘
```

**One transaction is one step.** Every service method that changes state runs in one
`PgStore.tenant` or `PgStore.platform` transaction at SERIALIZABLE isolation, run again on a
serialization failure (`control-plane-api/db/pg-store.ts` 330–394; `Store` is about that loop
itself, and implements `AtomicScopes`, which says that it is one step). A transaction therefore appears in the other models as one atomic action. What is *not*
atomic is what the models are about: several transactions of one request, calls to other systems
between two transactions, two processes, two runtimes, two tabs, and time.

| Component | State | Operations | What is hard | What makes it correct |
| --- | --- | --- | --- | --- |
| Runtime transport (`runtime/runtime-transport-service.ts`, `runtime/run-checkpoints.ts`) | lease per run: holder, session, expiry, last command, recoveries; newest checkpoints | claim, heartbeat, ingest, saveCheckpoint, takeOver, reapAbandoned | expiry races renewal, takeover and reaper; requests of a stale session; three transactions per claim | one holder at a time; a run changes hands only when abandoned, with a checkpoint, boundedly often; stale sessions cannot advance a checkpoint; abandoned runs are resolved |
| Run records (`execution/execution-service.ts`, `packages/contracts/src/run-lifecycle.ts`) | run status and reason, steps, event history, approvals of a run | createRun, cancelRun, onApprovalDecided, onApprovalExpired, recordRuntimeEvent | decisions and cancellations arrive at any moment, events twice or late | no release without the approval; terminal is terminal; steps agree with their run; one active run per thread |
| Conversations (`database.ts`, `execution/`, `app.ts`) | conversations, threads, messages, legacy QA runs | create, post, mirror outcomes, decide | a run's row and its conversation's messages are written in different transactions | each outcome is told once; a legacy run is released by a person only |
| Action gateway (`actions/action-gateway.ts`) with policies, registry and connectors | request with its decision, approval, execution row | decide, prepareExecution, dispatch, completeExecution, expireDue, reconcileInterrupted | the external call is between two transactions; processes stop; answers are lost; policy and approvals change meanwhile | at most one dispatch; true outcomes; unknown means a person is asked; the gate as of the dispatch |
| Reconciliation (`actions/action-reconciliation.ts`) | one row per write of unknown outcome | require, blocks, resolve | a resolution while the call is still under way; the same write from another thread | no write while one is open; a resolution stands |
| Agent runtime host (`apps/agent-runtime/src/runtime-host.ts`), kernel (`kernel/native-kernel.ts`) | active runs in memory, checkpoint versions; conversation and in-flight tool call | poll loop, execute, resume, save; turns, tool calls | crashes, lost answers, repeated commands, taking over its own runs; a crash between a side effect and the next checkpoint | a tool call asks for an action once, whatever is repeated; one worker per session; lost work is found again |
| Execution runtime (`apps/execution-runtime/src/`) | SQLite: grants, workspaces, pending credentials; directories | execute, recover | a crash in the middle of an operation; a repeated request | a grant is used once; a repeat gets the stored answer; nothing partial is left |
| Sandbox providers, egress proxy (`apps/execution-runtime/src/`, ADR 0016) | containers, networks, scratch directories, access log | execute, time-outs, aborts, cleanup | a docker command that fails with effect; containers outlive their clients | a sandbox reaches granted hosts only; what ends cleanly leaves nothing behind |
| Credential broker (`credentials/credential-broker.ts`) | lease per checkout, provider tokens in memory | leaseForCheckout, redeem, release, revoke, expireDue | the provider is called after the redeeming transaction | redeemed once, only by the runtime and grant it was made for; ended leases have no live token |
| Secrets, connections (`connector-service.ts`, `source-control-connections.ts`, `model-credentials.ts`, `secret-broker.ts`) | connection rows with versions | create, set, disable, resolve, model calls | a connection is replaced between its reading and the resolution of its secret | one active connection per place; a lease's connection keeps its secret |
| Model spending (`spending/`) | reservations, limits, prices, alerts | reserve, settle, setBudget, prices | concurrent reservations, late and repeated settlements, lowered limits | never grants beyond a limit; settled once at the reserved price; each alert once |
| Artifacts (`artifacts/`) | object rows and bytes in a store | upload, register, retrieve, enforceRetention | bytes and rows change in different steps | registered bytes exist until they expire; deleted rows have no bytes (unless a removal is overtaken, see 5) |
| Alert webhooks (`webhooks/`) | deliveries with attempts | enqueue, dispatchDue, attempt | a process stops between claim and outcome | delivered at least once or failed after the last attempt; one live sender |
| Organization, tenancy, jobs (`organization/`, `database.ts`) | units, job records, employees, seats | administrative changes with versions | lost updates, cyclic units, archived parents | trees stay trees; active refers to active; an administrator remains |
| Tenant domain cache, catalog reload | in-memory copies, notification channel | resolve, reload, notifications | a load that overlaps a change; a feed that falls silent | nothing stale is kept after its notification, nor longer than its time |
| Installations and agents (`catalog/installation-service.ts`, `database.ts`) | installations, batches, requests, agents | create, retire, batches with a request id, decisions | repeated batches, forms grown old, people who leave | a batch is carried out once; nobody decides about himself |
| Sessions, sign-in (`auth.ts`, `database.ts`) | accounts, memberships, links, sessions; login transactions, cookies | invite, accept, reset, switch, sign in and out, directory sync | a password rotated during a sign-in; repeated callbacks; two tabs of a browser | a session has a membership behind it; a login is used once, in its browser |
| Store (`db/pg-store.ts`, `db/migrate.ts`) | connections, scopes, schema_migrations | transactions, retry, migration at start | COMMIT whose answer is lost; releases that migrate at once | kept at most once; a clean pool; a whole schema |
| Web console (`apps/control-plane-web`), desktop (`apps/employee-desktop`), session (`packages/web-auth`) | lists, forms, edits; conversations, followed runs; the session shown | load, save, follow, sign in | answers in any order, a page left meanwhile | no later save undoes another's unseen; every run shown is followed; the page shows the cookie's session |
| Policy engine, manifests, quality history, contracts, operations, readiness, telemetry | little or none | evaluate, report | precedence of rules | see 6 |

How the components interact, as far as the models go:

- A **claim** is three transactions: `reapAbandoned`, `expireDue`, and the claim itself, which
  visits the runs the runtime holds, then abandoned runs, then queued ones, and stops at the first
  command it answers with. `RuntimeHost` puts the processes that claim beside this transport.
- A **governed action** is requested (decide), perhaps approved by a person, then executed by
  three steps: `prepareExecution` commits to a single dispatch, `dispatch` calls the external
  system outside any transaction, `completeExecution` records what came back. The run's row is
  read in the first and, through the runtime's own events, moves independently.
- An **operation in a workspace** needs a grant (`ExecutionGrants`), runs in a sandbox (`Sandbox`)
  and, for a private repository, redeems a credential (`CredentialBroker`), which names a connection
  (`SecretUse`).
- The API process's timer (`server.ts` 28–34) runs the reaper and closes interrupted dispatches
  every 60 seconds. Nothing on a timer expires approvals: that is done by whatever reads, decides or
  executes them, and by every poll of a runtime, which runs the reaper too.
- Notifications of PostgreSQL (`ChangeListener`) tell API instances that a domain or the catalog
  changed.

## 2 Modules

| Module | Models | Kind |
| --- | --- | --- |
| `Absent` | the value of a NULL column and of an absent field | constant |
| `RunLifecycle` | `run-lifecycle.ts`: statuses, transitions, which event is accepted when | constants and operators |
| `RunTransport` | runtime transport, checkpoints and run records of the control plane | state machine |
| `RuntimeHost` | the processes that execute runs; extends `RunTransport` | composition |
| `GovernedWrites` | what the gateway promises about writes | abstract specification |
| `ActionGateway` | gateway, approvals of actions, reconciliation; connectors external | state machine, implements `GovernedWrites` |
| `CredentialBroker` | repository credential leases and their provider tokens; the provider external | state machine |
| `SecretUse` | connections and the requests that use their secrets | state machine |
| `Accounts` | accounts, memberships, private links, sessions in password mode | state machine |
| `SignIn` | sign-in with Google: login transactions, cookies, the directory | state machine |
| `Conversations` | conversations, their threads, runs and messages, legacy QA runs | state machine |
| `AtomicScopes` | what a transaction is to whoever runs it | abstract specification |
| `Store` | transactions on pooled connections; migrations | state machine, implements `AtomicScopes` |
| `Sandbox` | operations in containers with their egress proxy | state machine |
| `ConsolePages` | the pages of the administrators' console | state machine |
| `Desktop` | the employees' application | state machine |
| `WebSession` | the session both clients hold | state machine |
| `ModelSpending` | reservations, budgets, prices, alerts | state machine |
| `AlertWebhooks` | delivery of alerts | state machine |
| `ArtifactStore` | artifacts and their bytes | state machine |
| `ExecutionGrants` | grants, and the execution runtime that uses them | state machine |
| `OrganizationStructure` | units, job records, employees and their seats | state machine |
| `ChangeListener` | one subscription to a notification channel | instantiated twice |
| `TenantDomainCache` | which organization a host belongs to, remembered | state machine over `ChangeListener` |
| `CatalogVersions` | blueprint versions served from memory | state machine over `ChangeListener` |
| `AgentProvisioning` | installations, batches of agents, requests for agents | state machine |
| `MCPlatform` | leases, accounts, sign-in, conversations, secrets, store, sandbox, clients side by side | composition and instance |
| `MCServices` | spending, webhooks, artifacts, grants, organization, domains, catalog, agents side by side | composition and instance |
| `MCRunTransport`, `MCActionGateway` | one run in depth beside the gateway where anything may be late; the gateway on time beside two runs of a thread | compositions and instances |
| `MCRuntimeHost`, `MCCredentialBroker` | instances for TLC | |
| `RunTransportProofs` | theorems about `RunTransport` | proofs |
| `ActionGatewayProofs` | theorems about `ActionGateway` | proofs |
| `HostProofs` | theorems about `RuntimeHost` | proofs |
| `PlatformProofs` | theorems about `CredentialBroker`, `SecretUse`, `Store`, `Sandbox` | proofs |
| `SessionProofs` | theorems about `Accounts`, `SignIn`, `Conversations` and their part of `MCPlatform` | proofs |
| `ClientProofs` | theorems about `WebSession`, `Desktop`, `ConsolePages`, and about the steps of `MCPlatform`; extends the two above | proofs |
| `ServiceProofs` | theorems about `ModelSpending`, `AlertWebhooks`, `ArtifactStore`, `ExecutionGrants` | proofs |
| `DirectoryProofs` | theorems about `OrganizationStructure`, `TenantDomainCache`, `CatalogVersions`, `AgentProvisioning`, and about `MCServices` | proofs |

**Compositions with a focus.** The components of `MCPlatform`, those of `MCServices`, and the gateway
and the runs in `MCRunTransport` and `MCActionGateway`, share no state. Each composition has a variable `focus`, chosen at first:
the component in focus moves, the others stay as they start. One run then checks them all without multiplying their states. Safety
loses nothing, as an invariant of one component mentions no other. Liveness loses nothing
either: out of focus a component stays at its initial state, where no action it is fair about is
enabled, so its fairness says nothing and its promise holds.

### RunTransport

All that is stored about one run is one record `db[r]`: its row in `agent_runs` (`status`,
`reason`, `seq`), its steps and approvals, its row in `agent_run_leases` (`lease`, `runtime`,
`session`, `age`, `delivered`, `recoveries`) and its newest checkpoint. A transaction is a function
from records to records applied to the runs it touches, which is also what makes the proofs
local. `nextSession` stands for `randomUUID()`, `poll` for the transaction of a claim that is next.

| Action | Code |
| --- | --- |
| `CreateRun`, `CancelOwnRun` | `createRun`, `cancelOwnRun` and `cancelRun` |
| `Approve`, `Reject`, `Deadline`, `ExpireDue` | `onApprovalDecided`; a deadline passes; `expireDue` for whoever asks, with `onApprovalExpired` |
| `ClaimExpire`, `ClaimReap`, `Claim` | `claim`: due approvals, the reaper, then held, abandoned and queued runs |
| `Heartbeat` | `heartbeat` |
| `Ingest`, `IngestDuplicate` | `ingest` and `recordRuntimeEvent` |
| `PauseForApproval` | `pauseForApproval` inside `requestAction` |
| `SaveCheckpoint` | `storeCheckpoint` and `RunCheckpoints.append` |
| `Housekeeping` | `reapAbandoned` from the timer |
| `Tick`, `RestartApi` | time passing as leases see it; a restart forgets claims under way |

A deadline that passes changes nothing: the approval is `overdue` until some request looks at it. The
event `run.resumed` may name any granted approval of the run (`AnyApproval`), as the code accepts
it; the hosts of this repository always name the latest (`AnyApproval = FALSE` in `RuntimeHost`'s runs).

*The runtimes are not modelled here.* An authenticated runtime may send any request at any time,
in any order, twice, with any session it may know. Crashed, stalled and restarted runtimes and
delayed messages are all among these behaviours, so the safety properties hold whatever the
runtimes do. The one thing assumed of them is in `RuntimeEvents`: the hosts in this repository
never send `run.paused`, the control plane pauses runs itself.

*Time* is the age of a lease in four classes, exactly the distinctions the code makes: fresh,
older than `COMMAND_REDELIVERY_MS`, expired (`RUNTIME_LEASE_MS`), and past `RUN_RECOVERY_WINDOW_MS`
since both expiry and the run's last change. `Tick` moves one run from a class to the next.

*Left out:* query limits of 20 and 50 rows; manifests (their validity is a free choice at each
takeover and start); version 1 runs of the legacy QA agent; conversations, titles, telemetry,
audit. A claim's visiting order is over-approximated: any set of runs may have been visited before
the one it answers for.

### ActionGateway

One record per request: the decision; its approval and whether the deadline has passed; the
execution row (`exec`, `code`, and `stale` once older than `staleDispatchMs`); the reconciliation;
the call in the memory of the process that dispatches (`call`); how often anything was sent; and
what the external system made of it (`world`), which no code reads. `run` is the status of the run
as far as the gateway tells it apart, `policy` what an action now requires.

| Action | Code |
| --- | --- |
| `Decide` | `decide` with `pauseForApproval` |
| `ApproveAction`, `RejectAction`, `ExpireDueActions` | decision of an approval, `expireDue` |
| `PrepareInterrupt`, `PrepareRefuse`, `PrepareDispatch` | the three ways `prepareExecution` ends, each after the `expireDue` of the same transaction |
| `Send`, `Answer`, `LoseCall` | `dispatch`: the call, what it returns or throws, the process stopping |
| `Land` | the external system: applies or refuses what was sent |
| `Complete` | `completeExecution` |
| `GoStale`, `SweepInterrupted` | `staleDispatchMs` passing, `reconcileInterrupted` |
| `Resolve` | an administrator's resolution |
| `SetPolicy`, `DeadlinePasses`, `StartRun`, `ResumeRun`, `EndRun` | the environment of the gateway |

`Late` says whether a process that was suspended, or a slow network, may still deliver after
`staleDispatchMs`. The code bounds a call by an `AbortSignal` of 30 s and calls a dispatch stale
after 60 s, which excludes it for a process that is running; a process suspended in between is not
excluded. Both cases are checked, and a property that needs `~Late` says so.

*Left out:* evaluation of policies, connections, scopes and manifests is one nondeterministic
verdict (what the policy of the action says, or a denial), and a dispatch may always be refused,
as a missing secret, an inactive connection or a changed change set does; the sweep's limit of 100
rows; requests and responses of the connectors. GitHub's publish, which makes several
requests, counts as sent with its first one. An external answer in the 400s is taken to mean that
nothing was applied, as the connectors take it. The administrator resolves truthfully.

`GovernedWrites` states the promise: a write is attempted at most once, what its requester is told
is never wrong and never taken back, and what nobody knows is told as unknown and settled by a
person.

### CredentialBroker

One record per lease: its row (`status`, `redeemedBy`, `due` once `expires_at` has passed), how often
it was redeemed, what the process does for it (`issuing`: it waits for the secret or the provider;
`outstanding`: it remembers how to withdraw the token; `ending`: `withdraw()` is about to run;
`recall`: the provider is being asked), the `token` at the provider, and whether what should have
withdrawn it came too early, was left out or was forgotten (`astray`, a history). `run` says whether redemption
finds the run at work, `active` whether the connection is.

| Action | Code |
| --- | --- |
| `Issue` | `leaseForCheckout`, in the transaction that signs the grant |
| `Redeem`, `RedeemRefused` | the transaction of `redeem` |
| `Mint`, `MintFails` | what follows it: secret, issuer, `outstanding`, or `revokeLease` |
| `Release`, `Revoke` | `release`, `revoke`; refused, they still run `withdraw()` |
| `StopRun`, `StopRunFails` | `revokeForRun` from `onRunStopped`, and its transaction rolled back |
| `ExpireDue` | `expireDue`, called whenever a runtime polls |
| `Withdraw`, `Recall` | `withdraw()`: the entry leaves the map, the provider answers |
| `Restart` | the process restarts and forgets what it remembered |
| `PauseRun`, `ResumeRun`, `DisableConnection`, `Deadline` | the environment |

Three constants say what the environment may do: `Replays` (a grant is presented again after its
redemption), `Overlaps` (a lease may end while its token is being minted), `Restarts`.

*Left out:* the checks that a grant belongs to its lease (signature, digest, organization, role),
which one grant per lease leaves nothing to go wrong in; secrets of `static_token` connections, which
nothing can withdraw (leases outside `Minting`). Taken of the provider: a mint that fails left
no token, and a withdrawal it is asked for takes effect; GitHub's own expiry after an hour is not
counted as withdrawal. One instance of the control plane: a second one would not know the first
one's `outstanding`.

### RuntimeHost

Processes (`Hosts`) with their runtime identities, beside the control plane of `RunTransport`.
`mem[h, r]` is what a process remembers of a run: the place in its program (`pc`), the session,
sequence and checkpoint version it counts on, whether the event it repeats is already recorded
(`sent`), and the kernel's state (`work`: calls made, what comes next, the step, request and
approval in flight). `saved[r]` is the kernel state in the newest checkpoint, `gate[r]` what the
control plane has recorded of each action request.

| Action | Code |
| --- | --- |
| `Poll`, `HostHeartbeat` | the poll loop and the timer of `runtime-host.ts`, with a claim's three transactions |
| `Start`, `SaveStart` | `execute` |
| `Load`, `LoadRunning`, `LoadNoOrphans`, `FailOrphan`, `Resume` | `resume`: the checkpoint, steps nobody finished, `run.resumed` |
| `ModelTurn`, `SaveTurn`, `BeginCall`, `StartStep`, `SaveFly` | a turn of the kernel, checkpointed before and after |
| `Ask`, `SavePause`, `SaveCarry`, `Act` | an action request, the pause for its approval, its execution |
| `FinishStep`, `FailStep`, `SaveResult`, `Finish` | what follows |
| `Crash` | the process stops and forgets |
| `Quietly` with the actions of `RunTransport` | the control plane and people go on |

Every request may take effect and its answer be lost, be refused, or stay unanswered; the same
event is then sent again under its id. *Left out:* budgets, protocol versions, the model's answers
(a run is a sequence of at most `MaxCalls` tool calls), workflows (the same sequence).

### Accounts

A member is an employee with an account, a membership and a status; a link is a row of
`invitations`, `password_resets` or `account_link_invitations`; a session is a row of `auth_sessions`;
`cookie[b]` is what a browser holds and `request[b]` where its request stands. Each method of
the database is one action (`CreateEmployee`, `insertInvitation`, `inviteExistingEmployee`,
`issueMemberLink`, `acceptInvitation`, `resetPassword`, `acceptAccountLink`, `disableMember`,
`suspendMembership`, ...); a sign-in, a switch and a link accepted by a signed-in account are several
(`findPasswordAccount`, `Recheck`, `createAccountSession`, `Answered` or `Lost`). Passwords are
versions. *Left out:* wrong passwords and their throttle, the text of
invitations.

### SignIn

Google mode: a login is a row of `login_transactions`, whose number stands for its binding, state,
nonce and verifier; `jar` is the cookie jar of a browser, which its tabs share; `visit[t]` where a
tab's request stands; `directory` what the process read when it started. Actions: `createLogin`,
`LoginBegun`, `Callback`, `exchange`, `ExchangeFails`, `findPasswordIdentity` (application
passwords), `DropOld`, `createSession`, `SignInAnswered`, `VisitLost`, `SignOut`, `TenMinutesLater`,
`RowExpires`, `syncIdentities` (a restart with another directory).

### Conversations

`agentRun` holds generic runs, moved by a runtime in whatever order their status allows, and
records of legacy QA runs, which execute nothing; `chat` is what agents said in a conversation,
`thread` the conversation of each thread, `qa` the legacy table; `owed` names legacy runs whose request
has still to post its message, in a transaction of its own; `recent` ranks threads by `updated_at`,
which picks the thread a new run joins. Actions: `createConversation`, `createRun`, `createRunIn`, `createRunOf`,
`createGenericQaRun`, `createQaRun`, `pauseForApproval`, `decideApproval`, `expireDue`, `cancelRun`,
`recordRuntimeEvent`, `Posts`; a process that stops before it posts is `Stops`.

### SecretUse

Rows of the three tables of connections, administrators' forms with the version they show, and
callers: a checkout that leases a connection and redeems it later, a connector call, a model call
with its reservation. Actions: `create`, `setFirst`, `setAgain`, `disable`, `OpenForm`, then
`leaseForCheckout`, `redeem`, `ReadActive`, `resolve`, `reserve`, `Answers`, `AnswersError`,
`NoAnswer`, `settle`, `Ends`. *External:* the vault and the providers.

### Store

`work[w]` is one outermost scope: connecting, begun, working, committing, undoing, with its attempt, its
reconnects and how often what it did was kept; `client[k]` a pooled connection; `schema` and
`starter` the migrations and the API processes that start. Actions: `Scoped`, `Connect`, `Begin`,
`Queries`, `Commit`, `CommitRefused` (serialization failure), `CommitLost` (the answer is lost, kept
or not), `Rollback`, `Retry`, `GiveUp`, `Lose`, `Replace`, `Close`; `Lock`, `Apply`,
`CommitMigrations`, `Refuse`, `assertSchemaCurrent`.
Seen as `AtomicScopes`, a scope is how often its work was kept, how often what was to follow its
commit did, and what its caller was told: `ScopeTold` makes every lost connection "unknown", because
which of them were lost under COMMIT is known to the store alone (`commitUnknown`).

### Sandbox

One operation after another: `op[o]` is its stage and grant, beside it the container, the proxy,
the networks and scratch directories docker has, and two histories: what sandboxes asked for
(`tried`) and what they were connected to (`reached`). Each docker command is a step and may fail with
or without effect; a client killed for a timeout leaves its container running; `RuntimeCrashes`
loses the operation and no container. *Left out:* arguments and limits of containers, the
parsing of the proxy.

### ConsolePages

Twenty-one pages, each a record of what its class does with an answer (`takes`, `asks`, `fills`,
`waits`) and of the calls it makes (`from`, `checked`, `changes`, `after`). The steps are the same for
all: `Load`, `ListAnswered`, `ListArrives`, `Edit`, `Choose`, `Send`, `Carries` or `Declines` at the
control plane, `Made` or `NotMade` at the page, `ChangedElsewhere` by another administrator; and
`Fill`, `CreateAgents`, `CarriesBatch`, `BatchMade` for batches of agents with their request id.

### Desktop

`submit` is a chain of requests (`task.stage`), `selectConversation` and `useAssignedAgent` wait for
answers, and a run is followed by polls (`polls`, `timer`). Signals of the component have their names.
`lost` and `cut` remember that a refresh failed or that a late answer of `cancelRun` cleared the
timer of another run.

### WebSession

`app` holds the signals of `AuthSession`, `held` what the browser's cookie names, `sent` the request
under way at each place that may wait. `crossed` remembers that the answer of the first load was read
before the cookie last changed.

### ModelSpending

Calls with their reservation, the budget's versions, prices in versions, months, alerts. Actions:
`Reserve`, `Deny`, `Settle`, `RunStops`, `SetBudget`, `SetPrice`, `RemovePrice`, `MonthTurns`. Arithmetic is
as in the code: costs are rounded up, a reservation shrinks its output to what is left.

### AlertWebhooks

`deliveries` with status, attempts and what they wait for (due, a retry, the end of a lease);
`flights`, the attempts in the memory of a process. Actions: `AddHook`, `SetHookStatus`,
`TestHook`, `RaiseAlert`, `ClaimDue`, `Send`, `RecordOutcome`, `FallsDue`, `Stall` (the lease ends
under a slow process), `Interrupt`.

### ArtifactStore

The row, the bytes, uploads and checks under way, removals under way, what the store lost or
altered, and two histories: which artifacts a removal has `selected`, and which of those were put or
registered after that (`overtaken`). Actions: `Keep`, `Put`, `KeepStored`, `UploadFails`; `AuthorizeDirect`, `DirectPut`, `ReadBack`,
`DirectStored`, `DirectRefused`; `RegisterArtifact`; `ListDue`, `DeleteBytes`, `MarkDeleted`,
`RemovalFails`; `Retrieve`; `Ages`, `Expires`; `Tamper`. Nothing ends an upload when its row turns a day
old, so a registration may overtake a removal; what holds all the same excepts `overtaken`.

### ExecutionGrants

The control plane decides, asks the policy again and issues one grant per request; the execution
runtime verifies it, claims it in SQLite, works in the directory of the thread (`Open`,
`MakeDirectory`, `Bind`, `RecordPending`, `Redeem`, `Start`, `Clone`, `Close`), stores its
response and repeats it for the same grant (`Replay`). `Crash` may come between any two writes, and
`Recover` runs before it serves again; `Throw` is an exception inside an operation.

### OrganizationStructure, AgentProvisioning

Versioned rows and the transactions over them, with the triggers and indexes of the baseline
migration as guards. `form` and `console` are what an administrator has open; refused
requests are stuttering steps.

### ChangeListener, TenantDomainCache, CatalogVersions

`ChangeListener` is the connection that listens: attached, live, silent without knowing it, lost. The
cache has entries with an age and lookups under way, each of the current generation or of one a
notification ended; the catalog has one load at a time, a flag that asks for another, and
listings that wait for it.

## 3 Runs

| Run | Configuration | Instance | Distinct states |
| --- | --- | --- | --- |
| control_plane | `RunTransport.cfg` | 1 run, 2 runtimes, 2 steps, 2 approvals, 3 sessions, 1 recovery; 2 writes of one run, anything may arrive late | 623 802 |
| control_plane_live | `ActionGatewayOnTime.cfg` | 2 runs in one thread, 1 runtime; the same write in 2 threads, nothing late; fairness | 332 979 |
| gateway_repeat | `ActionGatewayRepeat.cfg` | the same write in 2 threads | violation, see 5 |
| credential_overlap | `CredentialBrokerOverlap.cfg` | 1 lease, `Overlaps` only, fairness | violation, see 5 |
| runtime_host | `RuntimeHost.cfg` | 1 run of one tool call, 2 processes with identities of their own | 525 101 |
| runtime_host_live | `RuntimeHostLive.cfg` | 1 run, 1 process that crashes and restarts, fairness | 69 765 |
| platform | `Platform.cfg` | every component of `MCPlatform` in turn | 1 680 544 |
| platform_live | `PlatformLive.cfg` | those with fairness, in a quiet environment | 121 288 |
| stale_session | `PlatformRotation.cfg` | accounts only | violation, see 5 |
| services | `Services.cfg` | every component of `MCServices` in turn, fairness | 598 219 |
| services_checkouts | `ServicesCheckouts.cfg` | 2 checkouts of one thread into one path | violation, see 5 |
| services_overtaken | `ServicesOvertaken.cfg` | artifacts only | violation, see 5 |

**What they show.** A property named `...Sound` is the conjunction of a type invariant and the
invariants of its module, each with a comment of its own.

*control_plane*, the runs: `RunsSound`: a run executes only with all its approvals granted (`ApprovalGate`); one
released by an approval can always be resumed (`Resumable`); steps agree with their run
(`StepsFollowRun`); leases and checkpoints end with the run (`CleanEnd`); cancelling leaves no step
open (`CancelledStepsClosed`). A checkpoint never runs ahead of the recorded history
(`CheckpointWithinHistory`); a run changes hands only when its lease was free or had expired, under
a fresh session, with a checkpoint and within the bound of recoveries (`HandOver`); checkpoints
advance by one and only under the current session (`CheckpointFence`); ended runs are immutable
and nothing but a granted approval releases a pause (`LawfulRuns`). *control_plane_live*, the runs: no release,
takeover or creation leaves two active runs in a thread (`OneActiveRunPerThread`), a claim that
walks over several runs uses up one command (`OneCommandPerClaim`); an abandoned run is handed on or
ended (`AbandonedResolved`); a paused run ends its pause as long as some runtime polls, which is the
premise of the property and not a fairness of the run (`PauseResolved`).

*control_plane*, the gateway: `OutcomesSound`: what a run is told is true, and exactly the unknown writes have a
reconciliation; an outcome is never replaced. Nothing is sent twice (`SingleDispatch`); no write is
committed while a reconciliation is open (`NoWriteWhileRequired`); dispatch goes through policy,
approval and deadline as they stand then (`GateAtDispatch`); and all together the gateway implements
`GovernedWrites` (`KeepsPromise`). *control_plane_live*, the gateway: a write recorded as not applied is not
applied afterwards (`ResolutionStands`), and every dispatch is closed, also when its process stopped
and its run ended (`DispatchCloses`).

*runtime_host*: whatever is lost, repeated or crashes between a call's checkpoints, a tool call asks
for an action under one request (`OneRequestPerCall`); two processes never work under one session
(`OneWorkerPerSession`); a call counted as over has left no step open, and an approval that was
granted finds the call it was asked for, and no step waits while its run executes (`HostSound`).
Processes have identities of their own here; two processes of one identity are told apart by their
session alone, which `CheckpointFence` is about, in *control_plane*. *runtime_host_live*: a running run stops running
(`RunSettles`), and lost commands do no lasting harm (`LossesMend`).

*platform*: `LeasesSound`: a lease yields one credential, a stopped run has no live one. `EndedIsRecalled`:
however a lease ended and whatever overlapped, its token is being withdrawn, unless `withdraw()` came
before the token, a replay ended the lease, or a restart forgot it.
`SessionsSound`: a session has an active membership behind it (`SessionsBacked`), a member has one
open link (`OneOpenLink`), an account one identity; with Google, a session is of the login that
began in its browser (`SessionOfItsLogin`) and of somebody in the directory (`SessionsListed`).
`ConversationsSound`: one active run per thread, a legacy run agrees with its QA row, is released
by a person only, and every outcome that is told is told once. `SecretsSound`: one active
connection per place, a lease's connection keeps its secret, a secret that was used was counted.
`StoreSound`: what a scope did is kept at most once and if it returned, the pool holds no open
transaction, retries are bounded, a schema is a prefix of one release's migrations. `SandboxSound`: a
sandbox reaches granted hosts through its proxy only; an operation that ended cleanly left nothing
behind; the evidence of one that succeeded through the proxy names all it asked for, or nothing if the
log could not be read (of what fails, the code reports no more than it happens to have). `ClientsSound`: the console's pages show what their list
last asked for, and a change of their own; the employees' application shows the run it follows, and
a run is of its conversation's agent; the session on the page is the cookie's. `PlatformSteps`:
ended leases keep their end, access comes by a link or an administrator, connections change as their
versions say, no edit undoes another's. *platform_live*: without replays, overlaps and restarts every token ends with its lease
(`TokenEndsWithLease`); leases, scopes, operations and submissions end, runs are followed to their end (`PlatformSettles`);
and `Store` implements `AtomicScopes` (`ScopesAtomic`): what is run several times on several
connections, and may be lost at every step, is to its caller one step that happens once or not at all.

*services*: `SpendingSound`: costs are at the reserved price, every threshold that was passed has its
alert, one currency; `WebhooksSound`: one live sender per delivery, a delivery stays open while it is
tried, and is tried `MAX_ATTEMPTS` times and once for each interruption at most (`AttemptsBounded`); `ArtifactsSound`: registered bytes exist, deleted rows have none, alarms are true, of
every artifact that did not overtake its removal; `GrantsSound`: one
operation at a time in a thread, started once, answers agree, an open claim has somebody working on
it, nothing partial is left; `DirectorySound`: the structure stays a structure, the cache and the catalog
keep nothing stale, agents come from one batch or decision. `ServiceSteps`: reservations fit every
limit (`GrantsFit`), settlements are final (`SettledOnce`), deliveries progress, registered artifacts
stay until they are due (`KeptUnlessOvertaken`), rows move forward, claims are neither remade nor made without a grant in force, agents and
decisions stay. `ServicesSettle`: deliveries, removals, claims and stale answers come to an end.

**Bounds.** `MaxSequence` (events of a run), `MaxSession` (leases handed out), `MaxCheckpoint`
(versions) and `MAX_RUN_RECOVERIES` bound the counters of a run. Three sessions are a start, a
takeover and another one refused by the recovery bound of one; two checkpoint versions let a stale
session compete with a new one; five events are a start, two steps started, a resumption and an end. Two
runs are what a claim tells apart from one: a held or abandoned run, and a queued one. The gateway
needs two requests for the blocking rules, of the same or different payloads, and no counter at all. One
tool call (`MaxCalls`) with two requests lets a repeated call try to ask twice.

*platform*: `MaxLinks` 3 (an invitation, a reset, and one that replaces another), two members of one
account and two session rows, so that a switch and a revoked session meet; `MaxPassword` 2; two
conversations with `MaxRuns` 2 and `MaxAsks` 1; `MaxConnections` 2 and `MaxChanges` 3 (a connection, its
replacement, another replacement under an old form); `MAX_ATTEMPTS` 3 (the code has 8:
the first attempt, one between and the last are told apart), `MaxReconnects` 1,
`MaxLosses` 2; four API processes that start, of releases that extend or contradict each other;
grants with and without a host and every option of the provider, `MaxFailures` 2, `MaxSandboxCrashes`
1; `MaxLoads` 3, `MaxVersions` 3 and `MaxEdits` 3 on each of the 21 pages; two agents, `MaxTasks` 2,
`MaxPolls` 2, `MaxClicks` 1; two subjects, two tabs in one browser or two, `GoogleRows` 2, `MaxLogins`
2, `MaxHashes` 1; three actors. *services*: two calls of one run, two budgets that replace each other,
two prices, two months; one webhook and its alert and test event, two processes, `MAX_ATTEMPTS` 2
(the code has 6), `MaxStops` 1; two artifacts, one under legal hold, `MaxTampers` 1, and `MaxUnderWay` 2 uploads,
permissions, checks and reads at once, which is what an overlap needs (an EPHEMERAL artifact, whose
time ends with the day itself, is covered by the proofs alone); two requests of one
thread, `MaxCrashes` 1, `MaxThrows` 1; seven situations of an organization, `MaxPeriods` 2; two hosts,
`MaxCommits` 2, two lookups at a time; one version of the catalog and two listings; one
installation edited twice (`MaxRowVersion` 3), `MaxAgents` 2.

Symmetry is used in the safety runs that check no liveness: runtimes, steps and approvals, requests of a
host together with the swap of its processes.

**Deadlock.** `CHECK_DEADLOCK FALSE` stands where the bounded instance really may stop: every run
has ended and no bounded counter can move, every request has been closed.

**Fairness.** `RunTransport!FairSpec` assumes that time passes (`Tick`), that the API process's
timer fires (`Housekeeping`, `server.ts` 28–34). Nothing is assumed of the runtimes: abandoned runs are
resolved even if all of them crash. Nothing is assumed of the expiry of approvals either, for which the code
has no timer: `PauseResolved` has polling runtimes as its premise (`SomebodyPolls`), and without it TLC
finds a run that waits for ever. `ActionGateway!FairSpec` assumes
that time passes (`GoStale`), that the sweep of the timer runs (`SweepInterrupted`), that a call
under way is answered or times out (`Answer`) and that what is on the network arrives (`Land`).
`CredentialBroker` assumes that time passes (`Deadline`), that some runtime keeps polling
(`ExpireDue`, `runtime/runtime-routes.ts` 93–97), that the secret store and the provider answer or
time out (`Mint`, `MintFails`, `Recall`) and that a process goes on with what it began (`Withdraw`).
Nothing is assumed of the execution runtimes: a release may never come. `HostFairSpec` lets a
process go on with its program and time pass, and lets the repeated requests of the poll loop, of the
load of a checkpoint and of `run.resumed` get through some time (strong fairness: answers are not
lost for ever). The store's scopes go on and find a connection again; an execution runtime goes on with
its operation; the desktop's timers fire and its requests are answered or fail. Webhook processes
keep dispatching, send and record what they hold, and leases end; retention passes again and
again and the object store does not fail for ever; an execution runtime recovers and works; entries
of the domain cache grow old. Failures, crashes and losses are bounded in number, not excluded.

Every property was also checked against a seeded defect of a mapped definition (`PROJECT.json`
"mutants"; the definitions marked "Faulty"), such as a takeover that skips the expiry test or a
completion that ignores an execution already closed: TLC finds each property violated.

## 4 Proofs

TLAPS checks the theorems for every value of the constants: any number of runs, threads,
runtimes, requests, leases, members, connections, pages, artifacts and so on, under the named
assumptions of the modules, which say no more than that bounds are numbers, that names of
different kinds differ and that functions are defined where they are used. Where a theorem needs
more, its statement has the hypothesis. Each safety property rests on an invariant that is
inductive; every one was first checked with TLC on the instances above.

**RunTransportProofs.** `RunInv(x)` strengthens the invariants for one record: a run
nobody started has no history, one at work has a lease and a history, the only waiting step is the
pending approval's, the only pending step the latest approval's. `Inductive` says this of every run,
with sessions below `nextSession`. A transaction is a function on records, so there is one lemma per
function (`TouchInv`, `CancelInv`, `TakeOverInv`, `ApprovedInv`, `EventInv`, ...), and the loops of a claim
are covered by one shape: each record is left alone, visited, or taken over. The second half adds the
action properties: what each function may do to a record (`LawfulRuns`, `HandOver`, `CheckpointFence`),
that a claim visits a run once and that a silent visit uses up no command, and that every way of
becoming active looks at the other runs of the thread. `RunsSound`, `CheckpointWithinHistory` and `CheckpointFence` assume
`"run.paused" \notin RuntimeEvents`: a runtime that announced a pause itself would have a waiting run
with no approval to end it. The hosts of this repository never do, the control plane pauses runs.

**HostProofs.** `Inductive` says nothing of what processes remember, so `HostInv` adds, for each run, what
is stored (`Stored`: a decided request belongs to a call that is over or to the one the newest
checkpoint has in flight, each call has one request) and how the memory of one process fits the
record (`Fits`). A process is *current* if it works for the session that holds the lease, *abreast* if
nothing was recorded since it last heard of the run. Whatever a process is, its memory has the shape
of its place in the program (`MemoryShape`); an abreast one knows the open steps (`KnowsSteps`), a
current one the newest checkpoint (`KnowsCheckpoint`), and the call it is in is accounted for
(`CallAccounted`). `Alone` says that two processes are never both current. The proof splits a step in
what it does to the record, which is all the other processes see of it (`EnvironmentCalm`,
`OthersHear`), and what its own process learns (`EmitKeeps`, `SaveTaken`, `AskKeeps`, ...). The theorems assume that
processes have runtime identities of their own (`OwnIdentity`: ADR 0011, 21,
gives each runtime a key pair of its own, `docs/runtime-protocol.md` 111 a registered identity), that the control plane takes the events the kernel
sends, and `"run.paused" \notin RuntimeEvents` as above. Writing the proof showed a `CASE` in `RuntimeHost`
and one in `ConsolePages` whose guards overlap, which TLC resolves by order and TLA+ does not; both
are now nested conditions.

**ActionGatewayProofs.** `ActInv(w, x)` relates the decision, the approval, the execution row, the
process that dispatches, what was sent and the external system's state of one request. One lemma
for each transaction shows that it keeps the record good (`DecideGood`, `PreparedGood`, `SendGood`,
`RecordedGood`, ...); `PutGood` and `SweepGood` lift this to the whole state. Invariants follow at
once; for the action properties `OnlyPrepareDispatches` singles out the one action that commits a
dispatch. `PromiseKept` is the refinement: every step tells, sends, lands or resolves something in
`GovernedWrites`, or changes none of its variables. `ResolutionStandsOnTime` assumes `~Late`.

**PlatformProofs.** *Leases*: `LeaseInv(x)` relates the row of a lease, the process and the token: what
was never redeemed has no token, and a live token is remembered, being recalled or astray; one that is
remembered or still being minted after its lease ended has `withdraw()` yet to come, or is astray. One lemma per transaction (`EndGood`,
`RedeemGood`, `MintGood`, ...), `PutKeeps` for the steps of one lease, a lemma each for those over
several. They assume nothing of the environment: `EndedIsRecalledHolds` names the three
ways in which a token survives its lease, and says that there is no fourth. *Secrets*: a host's connection that any caller has leased never changes its
secret, so what `redeem` resolves is what the lease was issued for. *Store*: `ScopeFits` and
`ClientsFit` say of each stage of a scope what its connection and its attempt are (nothing is kept
before COMMIT is sent, and after a lost answer nothing runs again). From them `ScopesAtomicHolds`, the
refinement: every step of a scope leaves what is seen of it alone, except a COMMIT that is answered (the
abstract `Return`), one that is carried out unheard (`Keep`), and the error that ends it (`Throw`), which
is a plain failure only if nothing was kept. It is why the other modules may take a transaction for
one action. `MigrationsFit` says that what a starter
is about to apply completes a prefix, under the lock. *Sandbox*: `OperationFits` says of each stage
of the setup and of the cleanup what exists in docker, and that every request a container makes is
answered through the network it is in.

**SessionProofs.** *Accounts*: the strengthening says that links have a membership behind them and
that an account that had a password never loses it. *Sign-in*: `VisitFits`, `Alone`, `JarsFit` and `RowsFit`
say that a login is in use by one request at a time, is closed by the first and belongs to the browser
that began it; the directory changes only when the API restarts, which ends every request.
*Conversations*: every run has a thread and every message is about a run that exists; one lemma for
a row that changes (`RowStep`), one for a run that is placed (`PlaceStep`), counting lemmas for what is
appended (`TimesAppend`, `ToldMore`, `ToldOther`), and `TouchedFits`: the ranks of threads stay a
permutation. In `MCPlatform` each step is a step of one component or leaves it alone, which carries
the theorems to the composition.

**ClientProofs.** *Session*: `ShownIsHeld` is not inductive as it stands, since an answer to initialize is
older than the cookie it is compared with. `StartFits` says that until the cookie changes such an
answer is of the actor the cookie names, `GuardedFits` what the other requests can be answered with,
`ReadyForItsRole` that a page is ready only for an actor that fits. *Desktop*: `FollowFits` says that what
is on the screen is of the run followed and that every poll, timer and cancellation under way is about a
run there is; `TaskFits` and `ChoiceFits` that a submission refers to conversations and runs that exist, and
keeps its conversation once it has one. The control plane only grows (`Grows`), so a step of it
leaves what the client holds good. *Console*: the
twenty-one pages differ in data, so the proof first shows what they have in common
(`Manners`: which answers a page takes; `CallOf`: a call that changes fields compares versions, one that renews
a form does so from the form), and reads no page definition after that. `PagesInductive` then has one
part per concern. `PageRowsFit`: a row that anyone holds has an older version than the record, or
fields no older than another administrator's last change; this is why comparing versions is enough.
`LoadsFit`: lists under way are told apart by their revision, and if the page compares nothing there is
only one; a list of what was asked for is on the screen, on its way, or known to be missing.
`OwnFits`: a list the page will show was read after its own last change; on the pages that take one list at
a time this holds because they are busy until the list is back. `CallStands`: a call under way is one the page
makes, and has the row it needs. `RenewFits`: a form that only takes the new version of the record
(the profile) has fields of the version it was compared with. `BatchesFit`: each edit of the
settings has one attempt at most, the pending one if it is the present edit. `AskedAgain` is the one
lemma about asking for a list, used by every step that does. `NothingUndoneHolds` follows: only a call that
compared versions raises the fields and leaves another administrator's. Prices are outside it, in
the property as in the code. `ClientsSoundHold` and `PlatformStepsHold` carry the theorems to
`MCPlatform`, as above. The proofs needed the constants of the three modules to be what every instance gives
(`PagesAssumption`, `PageValues`, `DesktopAssumption`, `SessionAssumption`): bounds are numbers, pages are
among those defined, there is a filter and a setting, and `None` is not a record.

**ServiceProofs.** *Webhooks*: the attempt number names the sender; every sender but the latest
needed an interruption, which bounds how many there are; `Counted` bounds the attempts, with room for
one more while another may be taken. *Artifacts*: what holds of the bytes holds of every artifact the
store kept and no removal overtook (`overtaken`, see 5): bytes are missing only of what a removal has selected,
and what it selected is due or deleted. *Spending*: sums over any finite number of calls,
by well-founded minimum over finite subsets; `GrantsFit` includes the rounding of the row that is
added. *Grants*: an operation holds its claim; a partial checkout is always explained by an operation
at work, by a pending record, or by a crash; claims that stay RUNNING are no more than the
exceptions.

**DirectoryProofs.** *Organization*: nothing that stands refers to what does not stand (`RefsExist`), and
what is active refers to what is active, so what a transaction looks at is all that its change could
break. No ring (`NoRing`) is said of sets: every set of records of one tree has a member whose record
above is outside it. That says it without a path, so a new edge is refuted with the set of what is
below it. The theorem is about any sound start (`SituationAssumption`): active records that refer to
one another as the triggers want it, and an administrator. *Domains*: a commit that the feed may
still miss leaves the listener not caught up, and catching up forgets everything; `OwnVerificationSeen`
needs that whoever is told of a verification has had that host forgotten. *Catalog*: what is in memory
together with what the load under way has read holds all that was heard of, and all that a listing
waiting for this load may not miss. *Agents*: what a batch has made are the agents with its origin, and
every answer on its way is the row's; a form is of the installation as it is, or older by its row
version. In `MCServices` a service out of focus stands still, which gives `DirectorySound` and
`ServiceSteps`. Writing these proofs changed how the models say some things, not what
they say: the entries of the domain cache are removed one by one as `Map.delete` does, and an
assumption names what each instance has to give.

**Only model-checked.** All liveness, which under fairness is beyond the prover
(`AbandonedResolved`, `PauseResolved`, `DispatchCloses`, `RunSettles`, `LossesMend`,
`TokenEndsWithLease`, `PlatformSettles`, `ServicesSettle`). Every invariant and every action property
that a passing run checks is stated by a theorem.
## 5 Findings

**A write can be repeated while its first dispatch is still open** (`gateway_repeat`,
`NoRepeatOfUnsettled`). `docs/failure-handling.md` 25–32 says of a write during which "the control
plane stopped while it was sending one" that "the platform does not guess and does not send it
again", and that writes of that action are refused "for that exact payload anywhere in the
organization". `blocks()` (`actions/action-reconciliation.ts` 76–95) looks only at rows in state
REQUIRED. After a process stopped, the execution stays DISPATCHING until it is stale and swept,
one to two minutes later; in between, the same write requested in another thread is dispatched. TLC's trace has nine
steps: request, commit, send, the process stops, the external system applies it, and the same for
the second request. The single request itself is never repeated: `SingleDispatch` is proved.

**A lease that ends while its token is minted leaves the token live** (`credential_overlap`,
`TokenEndsWithLease`). ADR 0031 (`docs/adr/`, 72–74) has redemption mint an installation token that
the platform "revokes [...] when the lease ends". `redeem` registers the withdrawal only after the
provider answered (`credentials/credential-broker.ts` 259); a release, revocation, stop or expiry in
between finds nothing to withdraw, and nothing comes back to it. The plainest way there is a
cancelled checkout: the client aborts its redemption and releases at once
(`apps/execution-runtime/src/execution-service.ts` 386–393). In the other cases the runtime's own
release, when it arrives, still withdraws the token. GitHub's expiry after an hour limits the harm.

**A password rotated during a sign-in leaves a session of the old one** (`stale_session`,
`NoStaleSession`). The comment at `control-plane-api/auth.ts` 322 says the hash is read again
"so concurrent revocation/rotation cannot issue a stale session". The session is stored later, in a
transaction that reads the membership and not the hash (`database.ts` 1075–1096); a reset committed between
the two deletes the sessions there are (935–943), and not the one that follows. A membership revoked in
that window is refused, as `SessionsBacked` shows.

**Retention can remove what a run has just registered** (`services_overtaken`, `KeptUntilDue`). The
comment at `artifacts/artifact-service.ts` 725–726 has `enforceRetention` remove "the bytes of artifacts
whose retention ended and of uploads no run registered". It selects the rows first and removes them
one by one; `remove` (749–784) reads a row again but goes on unless it is DELETED, and `registered`
(560–594) does not ask how old a row is. A run that registers an upload more than a day after it was reserved,
between the selection and the removal, loses the bytes at once, with the reason NEVER_REGISTERED. Every
other artifact is kept: `KeptUnlessOvertaken` is checked and proved.

**Recovery can remove a finished checkout** (`services_checkouts`, `FinishedKept`). The comment at
`apps/execution-runtime/src/execution-service.ts` 171–173 says that recovery is to "discard the partial
checkout of every credentialed operation that never finished". The pending record of a credentialed
checkout is written before the provider is called (291–299); that the path exists already is found
only afterwards (`providers/local-provider.ts` 212–214). A second checkout to a path that is taken,
which `test/execution-runtime.spec.ts` 183–184 shows to be an input the runtime meets and refuses,
therefore leaves a record that names the first one's directory if the process stops in between;
`recover()` deletes that directory and keeps the workspace READY.

Observations of the same kind that have no run of their own, because no text of the repository says
otherwise or because only an environment beyond the instance meets them:

*Control plane.*
- A second presentation of a grant revokes the lease without running `withdraw()`
  (`credential-broker.ts` 183), and `expireDue` passes a REVOKED lease by, so the token waits for the
  first runtime's release. With `Replays = TRUE` TLC refutes `TokenEndsWithLease` when that is lost.
- ADR 0032 (73) says that after a takeover "the previous session can no longer send events";
  `ownedLease` (`runtime-transport-service.ts` 993) asks who the runtime is and not which session it
  sends in, so an old process of the same identity can still send some.
- A checkpoint save whose answer was lost is repeated and refused (`run-checkpoints.ts` 51,
  `runtime-host.ts` 475), and the host stops as if the run were another's; the run is then taken over.
- With three or more interruptions a webhook delivery can reach the table's CHECK on attempts.
- An upload that overtakes the removal of its row can also leave bytes behind a row marked deleted, or
  be registered without bytes (`BytesBehindRow` and `DeletedBytesGone` except `overtaken`).
- `run.resumed` is accepted with any granted approval of the run (`execution-service.ts` 501–514), where the
  comment says that the runtime "must name the approval that released the run"; the approved step then
  stays PENDING (`StepsFollowRun` excepts it under `AnyApproval`). The hosts of this repository name the
  latest.
- "The delivery fails after six attempts" (ADR 0024, 50): an attempt that was interrupted is not
  counted back, so a delivery can have a seventh (`AttemptsBounded`).
- `migrate.ts` 46–49 speaks of one transaction each; all pending migrations share one.
- The retry counter of a transaction is shared by serialization failures and lost connections.
- `setMembershipStatus` to active activates a pending linked membership without its link
  (`docs/diy-organization-platform.md` 118–119).
- `acceptInvitation` of an employee deactivated meanwhile gives an active membership of an inactive
  employee.
- A failing Google callback clears the cookie of a newer login begun in another tab.
- A cancelled legacy run is not mirrored when its approval was rejected (ADR 0014, 44–45); an approved
  one stays QUEUED, and blocks generic runs of its thread until it is cancelled.
- A failed reload of the catalog is not repeated until somebody lists it.

*Execution runtime.*
- A crash between `createWorkspace` and `mkdir` leaves a workspace LOST for ever; `recover` sets other LOST
  rows READY again; an exception leaves its grant RUNNING until a restart.
- An abort signalled before `docker run` starts is not seen by the client; what a crash or a failed
  cleanup leaves is never removed; the egress log is read before a timed-out sandbox is removed, so
  evidence may miss destinations, although `withEgress` speaks of "every destination it tried".

*Clients.*
- A late answer of `cancelRun` clears the timer of a run followed since (`app.ts` 297), which then is
  shown and not followed (`cut` in `Desktop`; compare ADR 0014, 46). After a failed submission the
  conversation and the selected agent may disagree; a run started while another conversation was
  selected may be posted there, and one followed late may be shown there.
- In the console, a refresh of the organization's profile that was under way while it was saved shows
  the old fields under the new version, so the next save takes the change back (`mine` in
  `ConsolePages` knows); lists without a guard can show an older answer; a reload after a change is
  skipped while another is under way; a page that changed the kind of record while its save was
  answered edits the record under another kind.
- In the session, a late first load overwrites a newer sign-in (`crossed` in `WebSession`), a late 401
  ends a fresh session, and after a lost answer to an accepted link the page keeps the used token until
  it is loaded again. Two tabs share one cookie: a switch in one leaves the other showing the old
  organization.

## 6 What is not modelled

`PROJECT.json` lists every component with its status and what was left out of it.

- *Pure functions over large documents*: manifests, their signatures and validity, catalog bundles,
  the policy engine's rules. Where a state machine uses their verdict, it is a choice.
- *No protocol of their own*: quality history, contracts and parsers, operations and readiness
  checks, telemetry, the import of an old SQLite database, listings, pages and reports.
- *Below the level of a step*: HTTP routing, formatting, limits of queries and batches, timing other
  than the classes a guard tells apart, the arguments of containers, requests to providers.
- *External*, modelled by how the code uses them: PostgreSQL's serializable transactions and
  notifications, the object store, docker, the vault, Google, GitHub, Jira, model providers, endpoints
  of webhooks.
- One instance of the control plane where it keeps state in memory (`CredentialBroker`, `SignIn`); several
  where they meet in the database (`AlertWebhooks`, `Store`, `TenantDomainCache`, `CatalogVersions`).

## 7 What is left

The state machines and their runs are complete as far as section 6 says. Every safety property
the passing runs check is proved: without hypotheses but for `RunsSound`,
`CheckpointWithinHistory`, `CheckpointFence` and the hosts' without a `run.paused` of the runtime's own, the hosts' under `OwnIdentity` too,
and `ResolutionStands` without late deliveries (section 4). What excepts a case says so itself: `overtaken`
artifacts, `astray` tokens.
Liveness stays with TLC on the instances of section 3. What a change of the code would need first:
its line in the module, the run of that module, then the lemma of the action that changed; the
other lemmas of a proof do not mention it.
