------------------------------ MODULE WebSession ------------------------------
(* The session as the two web applications hold it (packages/web-auth): what  *)
(* a page shows of it, the session the browser's cookie names, and the        *)
(* requests between them, which the API handles and which are answered in any *)
(* order, or fail.  Sign-in is with a password.                               *)
EXTENDS Absent, FiniteSets

CONSTANTS
  Actors,           \* employees, each in an organization
  PersonOf,         \* [Actors -> account]
  Fitting,          \* those with the role of this application
  Invited           \* the actor that a private link adds to its account

ASSUME SessionAssumption == Invited \in Actors /\ None \notin Actors

VARIABLES
  app,              \* the signals of AuthSession
  held,             \* the actor of the session the cookie names, or None
  offered,          \* whether the link is still open
  sent,             \* [Waits -> the request under way there, or None]
  crossed           \* the start's answer was read before the cookie last changed

webVars == <<app, held, offered, sent, crossed>>

\* initialize; what signingIn guards; signOut; a request of the open application.
Waits == {"start", "guarded", "signOut", "api"}
App == [config : BOOLEAN, actor : Actors \union {None}, ready : BOOLEAN, signingIn : BOOLEAN,
        linkToken : BOOLEAN, activationToken : BOOLEAN, linkPreview : BOOLEAN]
SentRequest == [step : {"config", "asked", "answered", "loading"},
                what : {"session", "password", "switch", "link", "activate", "logout", "call"},
                for : Actors \union {None}, answer : Actors \union {None}]

WebTypeOK ==
  /\ app \in App /\ held \in Actors \union {None} /\ offered \in BOOLEAN /\ crossed \in BOOLEAN
  /\ sent \in [Waits -> SentRequest \union {None}]

AskedFor(what, for) == [step |-> "asked", what |-> what, for |-> for, answer |-> None]
OpenedPage(link, activation) ==
  [config |-> FALSE, actor |-> None, ready |-> FALSE, signingIn |-> FALSE,
   linkToken |-> link, activationToken |-> activation, linkPreview |-> FALSE]
Starting == [s \in Waits |-> IF s = "start" THEN [AskedFor("session", None) EXCEPT !.step = "config"] ELSE None]

WebInit ==
  /\ app = OpenedPage(FALSE, FALSE) /\ held = None /\ offered = TRUE
  /\ sent = Starting /\ crossed = FALSE

-----------------------------------------------------------------------------
Shell == app.ready /\ ~app.linkToken
Panel == ~Shell /\ app.config /\ ~app.activationToken
SentAt(s, step) == sent[s] # None /\ sent[s].step = step
Sends(s, what, for) == sent[s] = None /\ sent' = [sent EXCEPT ![s] = AskedFor(what, for)]
Joined(a) == a # Invited \/ ~offered

(* The page is opened again, perhaps by a private link, whose token is taken  *)
(* out of the address: what it held and waited for is gone.                   *)
Open(link, activation) ==
  /\ ~(link /\ activation)
  /\ app' = OpenedPage(link, activation) /\ sent' = Starting /\ crossed' = FALSE
  /\ UNCHANGED <<held, offered>>

(* initialize asks for the session once it knows the configuration, unless    *)
(* the page was opened to set a password.                                     *)
Configured ==
  /\ SentAt("start", "config")
  /\ app' = [app EXCEPT !.config = TRUE]
  /\ sent' = [sent EXCEPT !["start"] = IF app.activationToken THEN None ELSE AskedFor("session", None)]
  /\ UNCHANGED <<held, offered, crossed>>

Guarded(what, for) ==
  /\ ~app.signingIn /\ app' = [app EXCEPT !.signingIn = TRUE]
  /\ Sends("guarded", what, for)
  /\ UNCHANGED <<held, offered, crossed>>

signInWithPassword(a) ==
  Panel /\ (~app.linkToken \/ app.actor = None) /\ Joined(a) /\ Guarded("password", a)
acceptLink ==
  Panel /\ app.linkToken /\ app.actor # None /\ app.linkPreview /\ Guarded("link", Invited)
switchOrganization(a) ==
  app.actor \notin {None, a} /\ (Shell \/ Panel) /\ Guarded("switch", a)
activate == app.activationToken /\ Guarded("activate", None)

signOut ==
  /\ app.actor # None /\ Sends("signOut", "logout", None)
  /\ UNCHANGED <<app, held, offered, crossed>>
CallApi ==
  /\ Shell /\ Sends("api", "call", None)
  /\ UNCHANGED <<app, held, offered, crossed>>

-----------------------------------------------------------------------------
(* The API: a switch or a link needs a session of the account; a new session  *)
(* replaces the old one at once, the cookie comes with the answer.            *)
SameAccount(a) == held # None /\ PersonOf[held] = PersonOf[a]
MayOpen(r) ==
  CASE r.what = "switch" -> SameAccount(r.for) /\ Joined(r.for)
    [] r.what = "link" -> SameAccount(r.for) /\ offered
    [] OTHER -> r.what = "password"

Handle(s) ==
  /\ SentAt(s, "asked")
  /\ LET r == sent[s]  opens == MayOpen(r) IN
     /\ sent' = [sent EXCEPT ![s].step = "answered",
          ![s].answer = CASE opens -> r.for [] r.what \in {"session", "call"} -> held [] OTHER -> None]
     /\ held' = IF opens \/ r.what = "logout" THEN None ELSE held
     /\ offered' = (offered /\ ~(opens /\ r.what = "link"))
  /\ UNCHANGED <<app, crossed>>

(* The session expires, or its membership is suspended.                       *)
HeldEnds == held # None /\ held' = None /\ UNCHANGED <<app, offered, sent, crossed>>

-----------------------------------------------------------------------------
Fits(a) == a \in Fitting
Done(s) == sent' = [sent EXCEPT ![s] = None]

(* What is shown of an actor: a link is confirmed first.                      *)
ShowsActor(a) == [app EXCEPT !.actor = a, !.ready = Fits(a) /\ ~app.linkToken]

(* The session there already was.                                             *)
SessionKnown ==
  /\ SentAt("start", "answered")
  /\ IF sent["start"].answer = None THEN app' = app /\ Done("start")
     ELSE app' = ShowsActor(sent["start"].answer) /\ sent' = [sent EXCEPT !["start"].step = "loading"]
  /\ UNCHANGED <<held, offered, crossed>>

(* A sign-in, an accepted link or a switch brings the cookie; acceptLink      *)
(* gives up the token, and a switch does not ask about it.                    *)
SignedIn ==
  /\ SentAt("guarded", "answered") /\ sent["guarded"].answer # None
  /\ LET a == sent["guarded"].answer  what == sent["guarded"].what IN
     /\ app' = CASE what = "password" -> ShowsActor(a)
                 [] what = "link" -> [ShowsActor(a) EXCEPT !.linkToken = FALSE, !.linkPreview = FALSE,
                                                      !.ready = Fits(a)]
                 [] what = "switch" -> [ShowsActor(a) EXCEPT !.ready = Fits(a), !.signingIn = FALSE]
     /\ held' = a
     /\ sent' = [sent EXCEPT !["guarded"] = IF what = "switch" THEN None ELSE [@ EXCEPT !.step = "loading"]]
  /\ crossed' = SentAt("start", "answered")
  /\ UNCHANGED offered

(* loadMemberships and loadLinkPreview, which may fail.                       *)
Loaded(s) ==
  /\ SentAt(s, "loading")
  /\ \E preview \in {app.linkPreview, app.linkPreview \/ (app.linkToken /\ app.actor # None)} :
       app' = [app EXCEPT !.linkPreview = preview, !.signingIn = IF s = "guarded" THEN FALSE ELSE @]
  /\ Done(s)
  /\ UNCHANGED <<held, offered, crossed>>

(* The password is set, and nobody is signed in by it.                        *)
PasswordSet ==
  /\ SentAt("guarded", "answered") /\ sent["guarded"].what = "activate"
  /\ app' = [app EXCEPT !.activationToken = FALSE, !.signingIn = FALSE]
  /\ Done("guarded")
  /\ UNCHANGED <<held, offered, crossed>>

SignedOut ==
  /\ SentAt("signOut", "answered")
  /\ app' = [app EXCEPT !.ready = FALSE, !.actor = None]
  /\ held' = None /\ Done("signOut")
  /\ crossed' = (crossed \/ SentAt("start", "answered"))
  /\ UNCHANGED offered

\* Faulty: the application stays open.
Forgets == [app EXCEPT !.actor = None]

(* expire, by authInterceptor, of whatever is shown by then.                  *)
expire == [app EXCEPT !.ready = FALSE, !.actor = None]

ApiAnswered ==
  /\ SentAt("api", "answered")
  /\ app' = IF sent["api"].answer = None THEN expire ELSE app
  /\ Done("api")
  /\ UNCHANGED <<held, offered, crossed>>

(* Refused, or the answer is lost.                                            *)
FailsAt(s) ==
  /\ sent[s] # None /\ sent[s].step \in {"config", "asked", "answered"}
  /\ app' = IF s = "guarded" THEN [app EXCEPT !.signingIn = FALSE] ELSE app
  /\ Done(s)
  /\ UNCHANGED <<held, offered, crossed>>

WebNext ==
  \/ \E link, activation \in BOOLEAN : Open(link, activation)
  \/ Configured \/ acceptLink \/ activate \/ signOut \/ CallApi
  \/ \E a \in Actors : signInWithPassword(a) \/ switchOrganization(a)
  \/ \E s \in Waits : Handle(s) \/ FailsAt(s) \/ Loaded(s)
  \/ HeldEnds \/ SessionKnown \/ SignedIn \/ PasswordSet \/ SignedOut \/ ApiAnswered

-----------------------------------------------------------------------------
(* The application is open only to an actor with its role, whatever was       *)
(* answered in whatever order.                                                *)
OpenToItsRole == Shell => app.actor # None /\ Fits(app.actor)

(* The actor shown is the one requests act for, or they are refused; only an  *)
(* answer to initialize that is older than the cookie may show another one.   *)
ShownIsHeld == app.actor # None /\ held # None /\ ~crossed => held = app.actor

WebSessionSound == WebTypeOK /\ OpenToItsRole /\ ShownIsHeld
=============================================================================
