------------------------------ MODULE Accounts ------------------------------
(* Accounts, memberships, the private links that open them, and sessions in   *)
(* password mode (database.ts, auth.ts, organization/tenancy-service.ts).     *)
(* An account is a row of users, found by its e-mail address; a member is an  *)
(* employee with a membership in one organization.  Each method of the        *)
(* database is one transaction; a request to sign in, to switch or to link    *)
(* makes several, and anything may be committed between them.                 *)
EXTENDS Absent, Naturals, Sequences, FiniteSets

CONSTANTS
  Members,          \* employees
  AccountOf, OrgOf, \* [Members -> ...]: whose e-mail address, in which organization
  MaxLinks,         \* bound: private links issued
  SessionRows,         \* rows of auth_sessions
  Browsers,
  MaxPassword       \* bound: passwords an account has had

\* employee_user_per_tenant
ASSUME AccountsAssumption ==
  \A m, n \in Members : AccountOf[m] = AccountOf[n] /\ OrgOf[m] = OrgOf[n] => m = n
ASSUME AccountBounds == MaxLinks \in Nat /\ MaxPassword \in Nat \ {0}

VARIABLES
  member,           \* [Members -> row or None]
  password,         \* [accounts -> which password is stored; 0: none]
  link,             \* rows of invitations, password_resets and account_link_invitations, as issued
  session,          \* [SessionRows -> row or None]
  cookie,           \* [Browsers -> the session its cookie names, or None]
  request           \* [Browsers -> where its request stands, or None]

accountVars == <<member, password, link, session, cookie, request>>

Links == 1..Len(link)
AllAccounts == {AccountOf[m] : m \in Members}
Member == [status : {"none", "pending", "active", "suspended"}, works : BOOLEAN,
           identity : {"none", "off", "on"}]
Link == [kind : {"activate", "reset", "link"}, for : Members, open : BOOLEAN, late : BOOLEAN]
Session == [for : Members, password : 1..MaxPassword]
RequestRecord == [step : {"hashing", "checked", "open", "drop"}, for : Members,
            password : 1..MaxPassword, to : SessionRows \union {None}]
ASSUME AccountNames == None \notin Member \union Session \union RequestRecord

AccountsTypeOK ==
  /\ member \in [Members -> Member \union {None}]
  /\ password \in [AllAccounts -> 0..MaxPassword]
  /\ link \in Seq(Link) /\ Len(link) <= MaxLinks
  /\ session \in [SessionRows -> Session \union {None}]
  /\ cookie \in [Browsers -> SessionRows \union {None}]
  /\ request \in [Browsers -> RequestRecord \union {None}]

AccountsInit ==
  /\ member = [m \in Members |-> None]
  /\ password = [a \in AllAccounts |-> 0]
  /\ link = <<>>
  /\ session = [s \in SessionRows |-> None]
  /\ cookie = [b \in Browsers |-> None]
  /\ request = [b \in Browsers |-> None]

-----------------------------------------------------------------------------
Account(m) == AccountOf[m]
Has(m) == member[m] # None

(* An account with a password: an invitation links to it.                     *)
activeAccount(m) == password[Account(m)] # 0

(* An account somebody was invited under.                                     *)
accountByEmail(m) == \E n \in Members : Account(n) = Account(m) /\ Has(n) /\ member[n].status # "none"

(* What a session or a sign-in needs: membership and employment are active.   *)
accountMembership(m) == Has(m) /\ member[m].status = "active" /\ member[m].works

LinkOpens(t, kind) == link[t].kind = kind /\ link[t].open /\ ~link[t].late

(* UPDATE ... SET consumed = 1 WHERE employee_id = ?, on the tables of kinds. *)
Spent(m, kinds) ==
  [t \in Links |-> IF link[t].for = m /\ link[t].kind \in kinds
                   THEN [link[t] EXCEPT !.open = FALSE] ELSE link[t]]
Issued(links, kind, m) ==
  Append(links, [kind |-> kind, for |-> m, open |-> TRUE, late |-> FALSE])

(* Sessions of the member's account in the member's organization.             *)
revokeSessions(m) == [s \in SessionRows |-> IF session[s] # None /\ session[s].for = m THEN None ELSE session[s]]

(* A new password ends every session of the account, in every organization.   *)
SessionsAfterReset(m) ==
  [s \in SessionRows |-> IF session[s] # None /\ Account(session[s].for) = Account(m)
                      THEN None ELSE session[s]]

-----------------------------------------------------------------------------
(* createEmployee: an employee without access.                                *)
CreateEmployee(m) ==
  /\ ~Has(m)
  /\ member' = [member EXCEPT ![m] = [status |-> "none", works |-> TRUE, identity |-> "none"]]
  /\ UNCHANGED <<password, link, session, cookie, request>>

(* ensureAccount: the membership an invitation makes is pending.  An account  *)
(* that has a password keeps its identity, and is asked for consent.          *)
ensureAccount(m) ==
  /\ Len(link) < MaxLinks
  /\ activeAccount(m) \/ ~accountByEmail(m)
  /\ member' = [member EXCEPT ![m] = [status |-> "pending", works |-> TRUE,
                  identity |-> IF activeAccount(m) THEN "none" ELSE "off"]]
  /\ link' = Issued(link, IF activeAccount(m) THEN "link" ELSE "activate", m)
  /\ UNCHANGED <<password, session, cookie, request>>

insertInvitation(m) == ~Has(m) /\ ensureAccount(m)

inviteExistingEmployee(m) ==
  Has(m) /\ member[m].status = "none" /\ member[m].works /\ ensureAccount(m)

(* The identity opens whatever the membership is; only a pending one becomes  *)
(* active.                                                                    *)
Activated(m) ==
  [member[m] EXCEPT !.identity = "on", !.status = IF @ = "pending" THEN "active" ELSE @]

acceptInvitation(t) ==
  /\ LinkOpens(t, "activate")
  /\ LET m == link[t].for IN
     /\ password[Account(m)] = 0   \* the primary keys of both credential tables
     /\ member' = [member EXCEPT ![m] = Activated(m)]
     /\ password' = [password EXCEPT ![Account(m)] = 1]
     /\ link' = Spent(m, {"activate"})
  /\ UNCHANGED <<session, cookie, request>>

(* disableMember: an open link to an account is left, for a membership that   *)
(* is not pending any more.                                                   *)
disableMember(m) ==
  /\ Has(m) /\ member[m].status # "none"
  /\ member' = [member EXCEPT ![m].status = "suspended",
                              ![m].identity = IF @ = "none" THEN @ ELSE "off"]
  /\ session' = revokeSessions(m)
  /\ link' = Spent(m, {"activate", "reset"})
  /\ UNCHANGED <<password, cookie, request>>

(* issueMemberLink: only members with an identity of their own, one purpose   *)
(* for those who have a password and one for those who do not.                *)
enabled(m) == member[m].status # "suspended" /\ member[m].works /\ member[m].identity = "on"
MayIssue(m, kind) ==
  IF kind = "reset" THEN enabled(m) /\ activeAccount(m)
  ELSE /\ ~enabled(m) /\ ~activeAccount(m)
       /\ \E t \in Links : link[t].for = m /\ link[t].kind = "activate" /\ link[t].open

issueMemberLink(m, kind) ==
  /\ Has(m) /\ member[m].identity # "none" /\ Len(link) < MaxLinks
  /\ MayIssue(m, kind)
  /\ link' = Issued(Spent(m, {kind}), kind, m)
  /\ UNCHANGED <<member, password, session, cookie, request>>

resetPassword(t) ==
  /\ LinkOpens(t, "reset")
  /\ LET m == link[t].for IN
     /\ member[m].identity = "on" /\ member[m].status = "active" /\ activeAccount(m)
     /\ password[Account(m)] < MaxPassword
     /\ password' = [password EXCEPT ![Account(m)] = @ + 1]
     /\ link' = Spent(m, {"reset"})
     /\ session' = SessionsAfterReset(m)
  /\ UNCHANGED <<member, cookie, request>>

(* setMembershipStatus *)
suspendMembership(m) ==
  /\ Has(m) /\ member[m].status # "none"
  /\ session' = revokeSessions(m)
  /\ member' = [member EXCEPT ![m].status = "suspended"]
  /\ UNCHANGED <<password, link, cookie, request>>

reactivateMembership(m) ==
  /\ Has(m) /\ member[m].status # "none"
  /\ member[m].works /\ activeAccount(m)
  /\ member' = [member EXCEPT ![m].status = "active",
                              ![m].identity = IF @ = "off" THEN "on" ELSE @]
  /\ UNCHANGED <<password, link, session, cookie, request>>

(* updateEmployee: a membership that is pending stays pending.                *)
deactivateEmployee(m) ==
  /\ Has(m) /\ member[m].works
  /\ session' = revokeSessions(m)
  /\ member' = [member EXCEPT ![m].works = FALSE,
                              ![m].status = IF @ = "active" THEN "suspended" ELSE @]
  /\ UNCHANGED <<password, link, cookie, request>>

reactivateEmployee(m) ==
  /\ Has(m) /\ ~member[m].works
  /\ member' = [member EXCEPT ![m].works = TRUE]
  /\ UNCHANGED <<password, link, session, cookie, request>>

-----------------------------------------------------------------------------
(* Requests of a browser.  Its cookie names a session that may be gone.       *)
Signed(b) ==
  /\ cookie[b] # None /\ session[cookie[b]] # None
  /\ accountMembership(session[cookie[b]].for)

RequestAt(b, step) == request[b] # None /\ request[b].step = step
Free == {s \in SessionRows : session[s] = None /\ \A b \in Browsers :
           cookie[b] # s /\ (request[b] # None => request[b].to # s)}
NewSession == CHOOSE s \in Free : TRUE

(* Sign-in reads the stored hash, and the password given fits it.             *)
findPasswordAccount(b, m) ==
  /\ request[b] = None
  /\ accountMembership(m) /\ activeAccount(m)
  /\ request' = [request EXCEPT ![b] = [step |-> "hashing", for |-> m,
                   password |-> password[Account(m)], to |-> None]]
  /\ UNCHANGED <<member, password, link, session, cookie>>

(* After hashing it reads again, and the browser's old session goes.          *)
Recheck(b) ==
  /\ RequestAt(b, "hashing")
  /\ accountMembership(request[b].for)
  /\ password[Account(request[b].for)] = request[b].password
  /\ session' = IF cookie[b] = None THEN session ELSE [session EXCEPT ![cookie[b]] = None]
  /\ request' = [request EXCEPT ![b].step = "checked"]
  /\ UNCHANGED <<member, password, link, cookie>>

\* Faulty: the membership is the one read before hashing.
CreateUnchecked(b) ==
  /\ request[b] # None /\ request[b].step \in {"checked", "open"} /\ Free # {}
  /\ session' = [session EXCEPT ![NewSession] = [for |-> request[b].for, password |-> request[b].password]]
  /\ request' = [request EXCEPT ![b].to = NewSession, ![b].step = "drop"]
  /\ UNCHANGED <<member, password, link, cookie>>

(* createAccountSession reads the membership in the transaction that inserts. *)
createAccountSession(b) ==
  /\ request[b] # None /\ request[b].step \in {"checked", "open"} /\ Free # {}
  /\ accountMembership(request[b].for)
  /\ session' = [session EXCEPT ![NewSession] = [for |-> request[b].for, password |-> request[b].password]]
  /\ request' = [request EXCEPT ![b].to = NewSession, ![b].step = "drop"]
  /\ UNCHANGED <<member, password, link, cookie>>

(* /api/auth/switch: to another membership of the session's account.          *)
Switch(b, m) ==
  /\ request[b] = None /\ Signed(b)
  /\ Account(m) = Account(session[cookie[b]].for) /\ accountMembership(m)
  /\ request' = [request EXCEPT ![b] = [step |-> "open", for |-> m,
                   password |-> session[cookie[b]].password, to |-> None]]
  /\ UNCHANGED <<member, password, link, session, cookie>>

(* acceptAccountLink: by the account the link was made for, while pending.    *)
acceptAccountLink(b, t) ==
  /\ request[b] = None /\ Signed(b) /\ LinkOpens(t, "link")
  /\ LET m == link[t].for IN
     /\ Account(m) = Account(session[cookie[b]].for)
     /\ member[m].status = "pending" /\ member[m].works
     /\ member' = [member EXCEPT ![m].status = "active"]
     /\ request' = [request EXCEPT ![b] = [step |-> "open", for |-> m,
                      password |-> session[cookie[b]].password, to |-> None]]
  /\ link' = [link EXCEPT ![t].open = FALSE]
  /\ UNCHANGED <<password, session, cookie>>

(* The old session goes, and the answer brings the new cookie.                *)
Answered(b) ==
  /\ RequestAt(b, "drop")
  /\ session' = IF cookie[b] = None THEN session ELSE [session EXCEPT ![cookie[b]] = None]
  /\ cookie' = [cookie EXCEPT ![b] = request[b].to]
  /\ request' = [request EXCEPT ![b] = None]
  /\ UNCHANGED <<member, password, link>>

(* The request fails, or its answer is lost; what it committed stays.         *)
Lost(b) ==
  /\ request[b] # None
  /\ request' = [request EXCEPT ![b] = None]
  /\ UNCHANGED <<member, password, link, session, cookie>>

LogOut(b) ==
  /\ cookie[b] # None /\ request[b] = None
  /\ session' = [session EXCEPT ![cookie[b]] = None]
  /\ cookie' = [cookie EXCEPT ![b] = None]
  /\ UNCHANGED <<member, password, link, request>>

(* Links and sessions expire; an expired session is deleted by the next one.  *)
LinkExpires(t) ==
  /\ link[t].open /\ ~link[t].late
  /\ link' = [link EXCEPT ![t].late = TRUE]
  /\ UNCHANGED <<member, password, session, cookie, request>>

SessionExpires(s) ==
  /\ session[s] # None
  /\ session' = [session EXCEPT ![s] = None]
  /\ UNCHANGED <<member, password, link, cookie, request>>

AccountsNext ==
  \/ \E m \in Members :
       \/ CreateEmployee(m) \/ disableMember(m) \/ suspendMembership(m) \/ reactivateMembership(m)
       \/ deactivateEmployee(m) \/ reactivateEmployee(m)
       \/ insertInvitation(m) \/ inviteExistingEmployee(m)
       \/ \E kind \in {"activate", "reset"} : issueMemberLink(m, kind)
       \/ \E b \in Browsers : findPasswordAccount(b, m) \/ Switch(b, m)
  \/ \E t \in Links :
       \/ acceptInvitation(t) \/ resetPassword(t) \/ LinkExpires(t)
       \/ \E b \in Browsers : acceptAccountLink(b, t)
  \/ \E b \in Browsers :
       Recheck(b) \/ createAccountSession(b) \/ Answered(b) \/ Lost(b) \/ LogOut(b)
  \/ \E s \in SessionRows : SessionExpires(s)

AccountsSpec == AccountsInit /\ [][AccountsNext]_accountVars

-----------------------------------------------------------------------------
(* No session is stored for a member without access, whatever was suspended,  *)
(* disabled or deactivated while its request was being answered.              *)
SessionsBacked == \A s \in SessionRows : session[s] # None => accountMembership(session[s].for)

(* "Reissue invitation [...] invalidates the previous one."                   *)
OneOpenLink ==
  \A t, u \in Links :
    link[t].open /\ link[u].open /\ link[t].for = link[u].for /\ link[t].kind = link[u].kind => t = u

(* One member of an account has the identity its password came with; others   *)
(* were linked to it: accounts are never joined by their e-mail address.      *)
OneIdentity ==
  \A m, n \in Members :
    Has(m) /\ Has(n) /\ Account(m) = Account(n)
      /\ member[m].identity # "none" /\ member[n].identity # "none" => m = n

(* "Recheck after async hashing so concurrent revocation/rotation cannot issue *)
(* a stale session" (auth.ts): every stored session is of the password its     *)
(* account has now.  The recheck and the insert are two transactions, and      *)
(* resetPassword can be committed between them.                                *)
NoStaleSession ==
  \A s \in SessionRows :
    session[s] # None => session[s].password = password[Account(session[s].for)]

AccountsSound == AccountsTypeOK /\ SessionsBacked /\ OneOpenLink /\ OneIdentity

(* A password changes only by a link of its own purpose that is open, in time *)
(* and used up by it, and leaves no session of the account; "recovery never   *)
(* re-enables a disabled identity": only an administrator lets a suspended    *)
(* member in again; no link opens a second time.                              *)
AccessByLink ==
  [][/\ \A a \in AllAccounts : password'[a] # password[a] =>
          /\ \E t \in Links : /\ LinkOpens(t, IF password[a] = 0 THEN "activate" ELSE "reset")
                              /\ Account(link[t].for) = a /\ ~link'[t].open
          /\ \A s \in SessionRows : session'[s] # None => Account(session'[s].for) # a
     /\ \A m \in Members : Has(m) /\ member[m].status = "suspended" /\ member'[m].status = "active" =>
          reactivateMembership(m)
     /\ \A t \in Links : ~link[t].open => link'[t] = link[t]]_accountVars
=============================================================================
