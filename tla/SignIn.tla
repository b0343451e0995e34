-------------------------------- MODULE SignIn --------------------------------
(* Sign-in with Google (auth.ts, database.ts, google-workspace mode): login   *)
(* transactions bound to the browser that began them, callbacks that may be   *)
(* repeated, reordered or opened in another browser, sign-in with an          *)
(* application password beside them, and the operator's directory, which is   *)
(* read when the one process of the API starts.                               *)
(* A login is a row of login_transactions: its number stands for the binding, *)
(* the state, the nonce and the verifier drawn for it.                        *)
EXTENDS Absent, Naturals, Sequences, FiniteSets

CONSTANTS
  Subjects,         \* accounts of the Google Workspace
  Passworded,       \* those who have an application password at first
  Tabs, Placements, \* tabs, and in which browsers they may be: functions on Tabs
  GoogleRows,       \* rows of auth_sessions
  MaxLogins,        \* bound: login transactions begun and starts of the API after the first
  MaxHashes         \* bound: application passwords a subject has had

VARIABLES
  browserOf,        \* [Tabs -> browser]: whose cookies each of them sends
  directory,        \* [Subjects -> entry]: identities and password_credentials
  login,            \* login_transactions, as they were begun
  spentCodes,       \* authorization codes Google has exchanged: <<login, subject>>
  googleSession,    \* [GoogleRows -> row or None]
  jar,              \* [browsers -> what its cookies name]
  visit,            \* [Tabs -> where its request stands, or None]
  syncs             \* starts of the API after the first

signInVars == <<browserOf, directory, login, spentCodes, googleSession, jar, visit, syncs>>

AllBrowsers == UNION {{f[t] : t \in Tabs} : f \in Placements}
Logins == 1..Len(login)
Entry == [listed : BOOLEAN, hash : 0..MaxHashes]   \* 0: no application password
Login == [by : AllBrowsers, open : BOOLEAN]
GoogleSession == [subject : Subjects, hash : 0..MaxHashes, by : AllBrowsers, login : 0..MaxLogins]
Visit == [step : {"begun", "exchange", "drop", "store", "signed", "failed"},
          login : 0..MaxLogins, code : (1..MaxLogins) \X Subjects \union {None},
          subject : Subjects \union {None},
          old : GoogleRows \union {None}, to : GoogleRows \union {None}]
ASSUME SignInBounds == MaxLogins \in Nat /\ MaxHashes \in Nat \ {0}
ASSUME SignInNames == None \notin Subjects \union GoogleSession \union Visit

SignInTypeOK ==
  /\ browserOf \in Placements
  /\ directory \in [Subjects -> Entry]
  /\ login \in Seq(Login) /\ Len(login) <= MaxLogins
  /\ spentCodes \subseteq Logins \X Subjects
  /\ googleSession \in [GoogleRows -> GoogleSession \union {None}]
  /\ jar \in [AllBrowsers -> [login : 0..MaxLogins, session : GoogleRows \union {None}]]
  /\ visit \in [Tabs -> Visit \union {None}]
  /\ syncs \in 0..MaxLogins

SignInInit ==
  /\ browserOf \in Placements
  /\ directory = [s \in Subjects |-> [listed |-> TRUE, hash |-> IF s \in Passworded THEN 1 ELSE 0]]
  /\ login = <<>> /\ spentCodes = {}
  /\ googleSession = [r \in GoogleRows |-> None]
  /\ jar = [b \in AllBrowsers |-> [login |-> 0, session |-> None]]
  /\ visit = [t \in Tabs |-> None]
  /\ syncs = 0

-----------------------------------------------------------------------------
JarOf(t) == jar[browserOf[t]]
VisitAt(t, step) == visit[t] # None /\ visit[t].step = step
Visited(step) ==
  [step |-> step, login |-> 0, code |-> None, subject |-> None, old |-> None, to |-> None]

Gone(l) == [login EXCEPT ![l].open = FALSE]
WithoutRow(r) == IF r = None THEN googleSession ELSE [googleSession EXCEPT ![r] = None]
findIdentity(s) == directory[s].listed
UnusedRows ==
  {r \in GoogleRows : googleSession[r] = None /\ \A t \in Tabs :
     JarOf(t).session # r /\ (visit[t] # None => r \notin {visit[t].to, visit[t].old})}

(* /api/auth/login discards the transaction the browser's cookie names and    *)
(* creates one, which nobody can ask for before the answer brings its cookie. *)
createLogin(t) ==
  /\ visit[t] = None /\ Len(login) + syncs < MaxLogins
  /\ login' = Append(IF JarOf(t).login = 0 THEN login ELSE Gone(JarOf(t).login),
                     [by |-> browserOf[t], open |-> TRUE])
  /\ visit' = [visit EXCEPT ![t] = [Visited("begun") EXCEPT !.login = Len(login) + 1]]
  /\ UNCHANGED <<browserOf, directory, spentCodes, googleSession, jar, syncs>>

LoginBegun(t) ==
  /\ VisitAt(t, "begun")
  /\ jar' = [jar EXCEPT ![browserOf[t]].login = visit[t].login]
  /\ visit' = [visit EXCEPT ![t] = None]
  /\ UNCHANGED <<browserOf, directory, login, spentCodes, googleSession, syncs>>

-----------------------------------------------------------------------------
(* The row is deleted by the statement that reads it.                         *)
consumeLogin(l) == IF l = 0 THEN login ELSE Gone(l)

\* Faulty: the login is found by the state of the redirect.
CallbackByState(t, c) ==
  /\ visit[t] = None
  /\ login' = consumeLogin(c[1])
  /\ visit' = [visit EXCEPT ![t] =
       IF login[c[1]].open
       THEN [Visited("exchange") EXCEPT !.login = c[1], !.code = c, !.old = JarOf(t).session]
       ELSE Visited("failed")]
  /\ UNCHANGED <<browserOf, directory, spentCodes, googleSession, jar, syncs>>

(* /api/auth/callback, opened in any tab with the state of any login and a    *)
(* code Google gave any subject for it, however often: only the login the     *)
(* browser's cookie names is consumed, and it is whatever comes of it.        *)
Callback(t, c) ==
  /\ visit[t] = None
  /\ LET l == JarOf(t).login IN
     /\ login' = consumeLogin(l)
     /\ visit' = [visit EXCEPT ![t] =
          IF l # 0 /\ login[l].open /\ c[1] = l
          THEN [Visited("exchange") EXCEPT !.login = l, !.code = c, !.old = JarOf(t).session]
          ELSE Visited("failed")]
  /\ UNCHANGED <<browserOf, directory, spentCodes, googleSession, jar, syncs>>

(* GoogleSignIn.exchange: Google takes a code once, with the verifier of its  *)
(* login; the token it answers with carries that login's nonce and subject.   *)
(* findIdentity reads what changes only when the API starts.                  *)
exchange(t) ==
  /\ VisitAt(t, "exchange")
  /\ visit[t].code \notin spentCodes /\ visit[t].code[1] = visit[t].login
  /\ spentCodes' = spentCodes \union {visit[t].code}
  /\ LET s == visit[t].code[2] IN
     visit' = [visit EXCEPT ![t] =
       IF findIdentity(s)
       THEN [@ EXCEPT !.step = "drop", !.code = None, !.subject = s]
       ELSE Visited("failed")]
  /\ UNCHANGED <<browserOf, directory, login, googleSession, jar, syncs>>

(* It refuses, answers too late, or the answer is lost after the code is used.*)
ExchangeFails(t) ==
  /\ VisitAt(t, "exchange")
  /\ spentCodes' \in {spentCodes, spentCodes \union {visit[t].code}}
  /\ visit' = [visit EXCEPT ![t] = Visited("failed")]
  /\ UNCHANGED <<browserOf, directory, login, googleSession, jar, syncs>>

(* /api/auth/password reads the same entry before and after hashing.          *)
findPasswordIdentity(t, s) ==
  /\ visit[t] = None /\ findIdentity(s) /\ directory[s].hash # 0
  /\ visit' = [visit EXCEPT ![t] = [Visited("drop") EXCEPT !.subject = s, !.old = JarOf(t).session]]
  /\ UNCHANGED <<browserOf, directory, login, spentCodes, googleSession, jar, syncs>>

(* deleteSession of the session the request came with, then createSession,    *)
(* which asks for nothing any more.                                           *)
DropOld(t) ==
  /\ VisitAt(t, "drop")
  /\ googleSession' = WithoutRow(visit[t].old)
  /\ visit' = [visit EXCEPT ![t].step = "store", ![t].old = None]
  /\ UNCHANGED <<browserOf, directory, login, spentCodes, jar, syncs>>

createSession(t) ==
  /\ VisitAt(t, "store") /\ UnusedRows # {}
  /\ LET r == CHOOSE x \in UnusedRows : TRUE IN
     /\ googleSession' = [googleSession EXCEPT ![r] =
          [subject |-> visit[t].subject, hash |-> directory[visit[t].subject].hash,
           by |-> browserOf[t], login |-> visit[t].login]]
     /\ visit' = [visit EXCEPT ![t].step = "signed", ![t].to = r]
  /\ UNCHANGED <<browserOf, directory, login, spentCodes, jar, syncs>>

(* The answer; a callback's, good or bad, clears the login cookie.            *)
SignInAnswered(t) ==
  /\ visit[t] # None /\ visit[t].step \in {"signed", "failed"}
  /\ LET b == browserOf[t] IN
     jar' = [jar EXCEPT ![b].login = IF visit[t].step = "failed" \/ visit[t].login # 0 THEN 0 ELSE @,
                        ![b].session = IF visit[t].step = "signed" THEN visit[t].to ELSE @]
  /\ visit' = [visit EXCEPT ![t] = None]
  /\ UNCHANGED <<browserOf, directory, login, spentCodes, googleSession, syncs>>

(* The answer is lost: what was committed stays.                              *)
VisitLost(t) ==
  /\ visit[t] # None
  /\ visit' = [visit EXCEPT ![t] = None]
  /\ UNCHANGED <<browserOf, directory, login, spentCodes, googleSession, jar, syncs>>

SignOut(t) ==
  /\ visit[t] = None /\ JarOf(t).session # None
  /\ googleSession' = WithoutRow(JarOf(t).session)
  /\ jar' = [jar EXCEPT ![browserOf[t]].session = None]
  /\ UNCHANGED <<browserOf, directory, login, spentCodes, visit, syncs>>

(* Ten minutes later it is not there any more.                                *)
TenMinutesLater(l) ==
  /\ login[l].open
  /\ login' = Gone(l)
  /\ UNCHANGED <<browserOf, directory, spentCodes, googleSession, jar, visit, syncs>>

(* Eight hours later.                                                         *)
RowExpires(r) ==
  /\ googleSession[r] # None
  /\ googleSession' = WithoutRow(r)
  /\ UNCHANGED <<browserOf, directory, login, spentCodes, jar, visit, syncs>>

-----------------------------------------------------------------------------
\* Faulty: a new hash ends the sessions opened with the old password only.
EndedByPasswordOnly(r, entries) ==
  LET g == googleSession[r] IN
  g # None /\ (~entries[g.subject].listed \/ (g.login = 0 /\ entries[g.subject].hash # g.hash))

(* Sessions of subjects that left the directory or whose hash differs.        *)
EndedBy(r, entries) ==
  LET s == googleSession[r] IN
  s # None /\ (~entries[s.subject].listed \/ entries[s.subject].hash # directory[s.subject].hash)

(* The API stops, its requests with it, and reads a directory in which one    *)
(* subject was changed before it serves again (syncIdentityDirectory).  The   *)
(* hash of a subject that is not listed stays as it was.                      *)
syncIdentities(s, entry) ==
  LET entries == [directory EXCEPT ![s] = IF entry.listed THEN entry ELSE [@ EXCEPT !.listed = FALSE]] IN
  /\ Len(login) + syncs < MaxLogins /\ entries # directory /\ syncs' = syncs + 1
  /\ directory' = entries
  /\ googleSession' = [r \in GoogleRows |-> IF EndedBy(r, entries) THEN None ELSE googleSession[r]]
  /\ visit' = [t \in Tabs |-> None]
  /\ UNCHANGED <<browserOf, login, spentCodes, jar>>

SignInNext ==
  \/ \E t \in Tabs :
       \/ createLogin(t) \/ LoginBegun(t)
       \/ \E c \in Logins \X Subjects : Callback(t, c)
       \/ exchange(t) \/ ExchangeFails(t)
       \/ \E s \in Subjects : findPasswordIdentity(t, s)
       \/ DropOld(t) \/ createSession(t)
       \/ SignInAnswered(t) \/ VisitLost(t) \/ SignOut(t)
  \/ \E l \in Logins : TenMinutesLater(l)
  \/ \E r \in GoogleRows : RowExpires(r)
  \/ \E s \in Subjects, entry \in Entry : syncIdentities(s, entry)

SignInSpec == SignInInit /\ [][SignInNext]_signInVars

-----------------------------------------------------------------------------
(* "Login transactions [...] can be consumed only once. A random HttpOnly     *)
(* browser cookie binds state, nonce, and PKCE verifier to the initiating     *)
(* browser": a login gives at most one session, for a subject that was        *)
(* authorized for it, in the browser that began it.                           *)
SessionOfItsLogin ==
  /\ \A r, q \in GoogleRows :
       googleSession[r] # None /\ googleSession[q] # None /\ googleSession[r].login = googleSession[q].login
         => r = q \/ googleSession[r].login = 0
  /\ \A r \in GoogleRows : googleSession[r] # None /\ googleSession[r].login # 0 =>
       LET g == googleSession[r] IN
       login[g.login].by = g.by /\ ~login[g.login].open /\ <<g.login, g.subject>> \in spentCodes

(* "Changing or removing passwordHash and restarting revokes that account's   *)
(* existing sessions, including Google-issued application sessions. Removing  *)
(* a directory member disables both methods."                                 *)
SessionsListed ==
  \A r \in GoogleRows : googleSession[r] # None =>
    LET g == googleSession[r] IN directory[g.subject].listed /\ directory[g.subject].hash = g.hash

SignInSound == SignInTypeOK /\ SessionOfItsLogin /\ SessionsListed
=============================================================================
