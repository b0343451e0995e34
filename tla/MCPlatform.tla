----------------------------- MODULE MCPlatform -----------------------------
(* What the platform does around its runs, checked side by side: credential  *)
(* leases, accounts, sign-in, conversations, secrets, the store, the sandboxes*)
(* and the two clients share no state.  `focus` is the one that moves, the others    *)
(* stay as they start; what one promises under its fairness it promises      *)
(* alone.                                                                    *)
EXTENDS MCCredentialBroker, Accounts, Conversations, SecretUse, Store, Sandbox, ConsolePages, Desktop, SignIn, WebSession

CONSTANTS
  member1, member2, account1, row1, row2, browser1,    \* Accounts
  chat1, chat2,                                 \* Conversations
  git1, gpt1, ref1, ref2, checkout1, call1, form1,     \* SecretUse
  scope1, scope2, client1,                             \* Store
  old1, old2, other, new,                              \* its migrations
  op1, npm, elsewhere,                                 \* Sandbox
  filter1, filter2, settings1, settings2,              \* ConsolePages
  qaAgent, assistant,                                  \* Desktop
  tab1, tab2, here, there, ana, ben, cookie1, cookie2, \* SignIn
  actor1, actor2, actor3, ours, others,                \* WebSession
  PlatformFocuses

VARIABLE focus

(* Accounts: one person in two organizations *)
MCAccountOf == [m \in Members |-> account1]
MCOrgOf == [m \in Members |-> m]

(* SecretUse: a checkout and a model call *)
MCPlaceKind == (git1 :> "host") @@ (gpt1 :> "model")
MCPlaceOf == (checkout1 :> git1) @@ (call1 :> gpt1)

(* Store: releases of one line of development, and a rewritten migration *)
MCMigrations ==
  (old1 :> <<"a">>) @@ (old2 :> <<"a", "b">>) @@ (other :> <<"A", "b", "c">>)
  @@ (new :> <<"a", "b", "c">>)
MCChecksums == {"a", "b", "c", "A"}

(* Sandbox *)
MCGranted == {{}, {npm}}
MCOptions == [proxy : BOOLEAN, unrestricted : BOOLEAN]

(* SignIn: two tabs of one browser, or of two *)
MCPlacements == {(tab1 :> here) @@ (tab2 :> here), (tab1 :> here) @@ (tab2 :> there)}

(* WebSession: an account with two memberships, and another one *)
MCPersonOf == (actor1 :> ours) @@ (actor2 :> ours) @@ (actor3 :> others)

-----------------------------------------------------------------------------
platformVars == <<focus, vars, accountVars, talkVars, secretVars, storeVars, sandboxVars, pageVars, deskVars,
                  signInVars, webVars>>

PlatformInit ==
  /\ focus \in PlatformFocuses
  /\ Init /\ AccountsInit /\ TalkInit /\ SecretInit /\ StoreInit /\ SandboxInit
  /\ PagesInit /\ DeskInit /\ SignInInit /\ WebInit
  /\ focus # "sandbox" => options.proxy /\ options.unrestricted /\ \A o \in Operations : op[o].hosts = {}
  /\ focus # "pages" => page = "setup"
  /\ focus # "desktop" => talks = <<qaAgent>>
  /\ focus # "signin" => browserOf[tab2] = here

LeaseMoves ==
  /\ focus = "leases" /\ Next
  /\ UNCHANGED <<focus, accountVars, talkVars, secretVars, storeVars, sandboxVars, pageVars, deskVars,
                 signInVars, webVars>>

AccountMoves ==
  /\ focus = "accounts" /\ AccountsNext
  /\ UNCHANGED <<focus, vars, talkVars, secretVars, storeVars, sandboxVars, pageVars, deskVars,
                 signInVars, webVars>>

TalkMoves ==
  /\ focus = "conversations" /\ TalkNext
  /\ UNCHANGED <<focus, vars, accountVars, secretVars, storeVars, sandboxVars, pageVars, deskVars,
                 signInVars, webVars>>

SecretMoves ==
  /\ focus = "secrets" /\ SecretNext
  /\ UNCHANGED <<focus, vars, accountVars, talkVars, storeVars, sandboxVars, pageVars, deskVars,
                 signInVars, webVars>>

TransactionMoves ==
  /\ focus = "transactions" /\ TransactionsNext
  /\ UNCHANGED <<focus, vars, accountVars, talkVars, secretVars, sandboxVars, pageVars, deskVars,
                 signInVars, webVars>>

MigrationMoves ==
  /\ focus = "migrations" /\ MigrationsNext
  /\ UNCHANGED <<focus, vars, accountVars, talkVars, secretVars, sandboxVars, pageVars, deskVars,
                 signInVars, webVars>>

SandboxMoves ==
  /\ focus = "sandbox" /\ SandboxNext
  /\ UNCHANGED <<focus, vars, accountVars, talkVars, secretVars, storeVars, pageVars, deskVars,
                 signInVars, webVars>>

PageMoves ==
  /\ focus = "pages" /\ PagesNext
  /\ UNCHANGED <<focus, vars, accountVars, talkVars, secretVars, storeVars, sandboxVars, deskVars,
                 signInVars, webVars>>

DeskMoves ==
  /\ focus = "desktop" /\ DeskNext
  /\ UNCHANGED <<focus, vars, accountVars, talkVars, secretVars, storeVars, sandboxVars, pageVars,
                 signInVars, webVars>>

SignInMoves ==
  /\ focus = "signin" /\ SignInNext
  /\ UNCHANGED <<focus, vars, accountVars, talkVars, secretVars, storeVars, sandboxVars, pageVars, deskVars,
                 webVars>>

WebMoves ==
  /\ focus = "session" /\ WebNext
  /\ UNCHANGED <<focus, vars, accountVars, talkVars, secretVars, storeVars, sandboxVars, pageVars, deskVars,
                 signInVars>>

PlatformNext ==
  \/ LeaseMoves \/ AccountMoves \/ TalkMoves \/ SecretMoves
  \/ TransactionMoves \/ MigrationMoves \/ SandboxMoves
  \/ PageMoves \/ DeskMoves \/ SignInMoves \/ WebMoves

PlatformSpec == PlatformInit /\ [][PlatformNext]_platformVars

PlatformFairSpec ==
  /\ PlatformSpec
  /\ LeaseFairness /\ StoreFairness /\ SandboxFairness /\ DeskFairness

\* Sessions of passwords and links, and of Google sign-in.
SessionsSound == AccountsSound /\ SignInSound

\* The console's pages, the employees' application, and the session both hold.
ClientsSound == PagesSound /\ DesktopSound /\ WebSessionSound

\* What a step of one of them may never do.
PlatformSteps == EndedStays /\ AccessByLink /\ ConnectionSteps /\ NothingUndone

\* Leases, scopes of the store, operations in a sandbox and an employee's submissions
\* come to an end, and a run is followed to its end.
PlatformSettles == LeaseEnds /\ ScopesEnd /\ OperationsEnd /\ TasksEnd /\ FollowsToEnd
=============================================================================
