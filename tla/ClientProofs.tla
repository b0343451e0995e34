---------------------------- MODULE ClientProofs ----------------------------
(***************************************************************************)
(* Theorems about the two clients: WebSession, Desktop and ConsolePages,   *)
(* each in a part of its own, and the platform they are in.                *)
(***************************************************************************)
EXTENDS SessionProofs, PlatformProofs

(***************************************************************************)
(* WebSession.  An answer to initialize is of the session the cookie names *)
(* unless the cookie changed since, and only a request that opens a        *)
(* session is answered with one.                                           *)
(***************************************************************************)
ReadyForItsRole == app.ready => app.actor \in Actors /\ Fits(app.actor)

StartFits ==
  /\ sent["start"] # None => sent["start"].what = "session"
  /\ SentAt("start", "answered") /\ ~crossed /\ held # None /\ sent["start"].answer # None
       => held = sent["start"].answer

GuardedFits ==
  sent["guarded"] # None =>
    /\ sent["guarded"].what \in {"password", "switch", "link", "activate"}
    /\ sent["guarded"].answer # None => sent["guarded"].what # "activate"

WebInductive == WebTypeOK /\ ShownIsHeld /\ ReadyForItsRole /\ StartFits /\ GuardedFits

LEMMA StartingFits ==
  /\ Starting \in [Waits -> SentRequest \union {None}]
  /\ Starting["start"] # None => Starting["start"].what = "session" /\ Starting["start"].step = "config"
  /\ Starting["guarded"] = None
<1>1. [AskedFor("session", None) EXCEPT !.step = "config"]
        = [step |-> "config", what |-> "session", for |-> None, answer |-> None]
  BY DEF AskedFor
<1>2. [step |-> "config", what |-> "session", for |-> None, answer |-> None] \in SentRequest
  BY DEF SentRequest
<1> QED BY <1>1, <1>2 DEF Starting, Waits

LEMMA WebInductiveInit == ASSUME WebInit PROVE WebInductive
<1>1. app \in App /\ ~app.ready /\ app.actor = None
  BY DEF WebInit, OpenedPage, App
<1> QED
  BY <1>1, StartingFits
  DEF WebInit, WebInductive, WebTypeOK, ShownIsHeld, ReadyForItsRole, StartFits, GuardedFits, SentAt

-----------------------------------------------------------------------------
\* A request that is asked at a place where none was.
LEMMA SendsStep ==
  ASSUME WebInductive, NEW s \in Waits \ {"start"},
         NEW what \in {"password", "switch", "link", "activate", "logout", "call"},
         NEW for \in Actors \union {None}, Sends(s, what, for),
         s = "guarded" => what \in {"password", "switch", "link", "activate"},
         app' \in App, app'.actor = app.actor, app'.ready = app.ready, UNCHANGED <<held, offered, crossed>>
  PROVE  WebInductive'
<1>1. AskedFor(what, for) \in SentRequest /\ AskedFor(what, for).what = what /\ AskedFor(what, for).answer = None
  BY DEF AskedFor, SentRequest
<1>2. sent \in [Waits -> SentRequest \union {None}] /\ "start" \in Waits /\ "guarded" \in Waits
  BY DEF WebInductive, WebTypeOK, Waits
<1>3. /\ sent' \in [Waits -> SentRequest \union {None}] /\ sent'["start"] = sent["start"]
      /\ sent'["guarded"] = IF s = "guarded" THEN AskedFor(what, for) ELSE sent["guarded"]
  BY <1>1, <1>2 DEF Sends
<1>4. WebTypeOK'
  BY <1>3 DEF WebInductive, WebTypeOK
<1>5. StartFits' /\ GuardedFits'
  BY <1>1, <1>3 DEF WebInductive, StartFits, GuardedFits, SentAt
<1> QED BY <1>4, <1>5 DEF WebInductive, ShownIsHeld, ReadyForItsRole

LEMMA AskingSteps ==
  ASSUME WebInductive,
         \/ acceptLink \/ activate \/ signOut \/ CallApi
         \/ \E a \in Actors : signInWithPassword(a) \/ switchOrganization(a)
  PROVE  WebInductive'
<1>1. app \in App /\ {"guarded", "signOut", "api"} \subseteq Waits \ {"start"} /\ Invited \in Actors
  BY SessionAssumption DEF WebInductive, WebTypeOK, Waits
<1>2. ASSUME NEW what \in {"password", "switch", "link", "activate"}, NEW for \in Actors \union {None}, Guarded(what, for)
      PROVE  WebInductive'
  <2>1. app' \in App /\ app'.actor = app.actor /\ app'.ready = app.ready
    BY <1>1, <1>2 DEF Guarded, App
  <2> QED BY <1>1, <1>2, <2>1, SendsStep DEF Guarded
<1>3. CASE acceptLink \/ activate \/ \E a \in Actors : signInWithPassword(a) \/ switchOrganization(a)
  BY <1>1, <1>2, <1>3 DEF acceptLink, activate, signInWithPassword, switchOrganization
<1>4. CASE signOut \/ CallApi
  BY <1>1, <1>4, SendsStep DEF signOut, CallApi
<1> QED BY <1>3, <1>4

LEMMA OpenPageStep ==
  ASSUME WebInductive, NEW byLink \in BOOLEAN, NEW byMail \in BOOLEAN, Open(byLink, byMail)
  PROVE  WebInductive'
<1>1. app' \in App /\ ~app'.ready /\ app'.actor = None
  BY DEF Open, OpenedPage, App
<1>2. sent' = Starting /\ crossed' = FALSE /\ held' = held /\ offered' = offered
  BY DEF Open
<1>3. WebTypeOK'
  BY <1>1, <1>2, StartingFits DEF WebInductive, WebTypeOK
<1>4. StartFits'
  BY <1>2, StartingFits DEF StartFits, SentAt
<1>5. GuardedFits'
  BY <1>2, StartingFits DEF GuardedFits
<1>6. ShownIsHeld'
  BY <1>1 DEF ShownIsHeld
<1>7. ReadyForItsRole'
  BY <1>1 DEF ReadyForItsRole
<1> QED BY <1>3, <1>4, <1>5, <1>6, <1>7 DEF WebInductive

\* A place where nothing is under way any more.
LEMMA DoneStep ==
  ASSUME WebTypeOK, NEW s \in Waits, Done(s)
  PROVE  /\ sent' \in [Waits -> SentRequest \union {None}] /\ sent'[s] = None
         /\ \A t \in Waits \ {s} : sent'[t] = sent[t]
  BY DEF WebTypeOK, Done

\* A request that goes on to its next step, with the answer it has or gets.
LEMMA NextOfRequest ==
  ASSUME WebTypeOK, NEW s \in Waits, NEW r \in SentRequest, sent' = [sent EXCEPT ![s] = r]
  PROVE  /\ sent' \in [Waits -> SentRequest \union {None}] /\ sent'[s] = r
         /\ \A t \in Waits \ {s} : sent'[t] = sent[t]
  BY DEF WebTypeOK

LEMMA ConfiguredStep == ASSUME WebInductive, Configured PROVE WebInductive'
<1>1. "start" \in Waits /\ "guarded" \in Waits \ {"start"} /\ WebTypeOK
  BY DEF WebInductive, Waits
<1>2. AskedFor("session", None) \in SentRequest /\ AskedFor("session", None).what = "session"
      /\ AskedFor("session", None).answer = None
  BY DEF AskedFor, SentRequest
<1>3. /\ sent' \in [Waits -> SentRequest \union {None}] /\ sent'["guarded"] = sent["guarded"]
      /\ sent'["start"] \in {None, AskedFor("session", None)}
  BY <1>1, <1>2 DEF Configured, WebTypeOK
<1>4. app' \in App /\ app'.actor = app.actor /\ app'.ready = app.ready /\ UNCHANGED <<held, offered, crossed>>
  BY <1>1 DEF Configured, WebTypeOK, App
<1>5. StartFits' /\ GuardedFits'
  BY <1>2, <1>3 DEF WebInductive, StartFits, GuardedFits, SentAt
<1> QED BY <1>3, <1>4, <1>5 DEF WebInductive, WebTypeOK, ShownIsHeld, ReadyForItsRole

\* Whatever the API does, the cookie's session stays or ends.
LEMMA HandleStep == ASSUME WebInductive, NEW s \in Waits, Handle(s) PROVE WebInductive'
<1> DEFINE r == sent[s]
           opens == MayOpen(r)
           answer == CASE opens -> r.for [] r.what \in {"session", "call"} -> held [] OTHER -> None
           x == [r EXCEPT !.step = "answered", !.answer = answer]
<1>1. WebTypeOK /\ r \in SentRequest /\ held \in Actors \union {None}
  BY DEF WebInductive, WebTypeOK, Handle, SentAt
<1>2. answer \in Actors \union {None}
  BY <1>1 DEF SentRequest
<1>3. opens => r.what \in {"switch", "link", "password"}
  BY <1>1 DEF MayOpen
<1>4. r.what \in {"session", "call"} => answer = held
  BY <1>3
<1>5. r.what = "activate" => answer = None
  BY <1>3
<1>6. sent' = [sent EXCEPT ![s].step = "answered", ![s].answer = answer]
  BY DEF Handle
<1>7. /\ held' = IF opens \/ r.what = "logout" THEN None ELSE held
      /\ offered' \in BOOLEAN /\ app' = app /\ crossed' = crossed
  BY <1>1 DEF Handle, WebTypeOK
<1> HIDE DEF answer
<1>8. x \in SentRequest /\ x.what = r.what /\ x.answer = answer
  BY <1>1, <1>2 DEF SentRequest
<1>9. /\ sent' \in [Waits -> SentRequest \union {None}] /\ sent'[s] = x
      /\ \A t \in Waits \ {s} : sent'[t] = sent[t]
  <2>1. sent' = [sent EXCEPT ![s] = x]
    BY <1>1, <1>6 DEF WebTypeOK
  <2> HIDE DEF x, opens
  <2> QED BY <1>1, <1>8, <2>1, NextOfRequest
<1> HIDE DEF x, opens
<1>10. WebTypeOK'
  BY <1>1, <1>7, <1>9 DEF WebTypeOK
<1>11. StartFits'
  <2>1. CASE s = "start"
    <3>1. r.what = "session" /\ answer = held /\ held' = held
      BY <1>1, <1>3, <1>4, <1>7, <2>1 DEF WebInductive, StartFits, Handle, SentAt
    <3> QED BY <1>8, <1>9, <2>1, <3>1 DEF StartFits, SentAt
  <2>2. CASE s # "start"
    BY <1>7, <1>9, <2>2 DEF WebInductive, StartFits, SentAt, Waits
  <2> QED BY <2>1, <2>2
<1>12. GuardedFits'
  <2>1. CASE s = "guarded"
    BY <1>5, <1>8, <1>9, <2>1 DEF WebInductive, GuardedFits, Handle, SentAt
  <2>2. CASE s # "guarded"
    BY <1>9, <2>2 DEF WebInductive, GuardedFits, Waits
  <2> QED BY <2>1, <2>2
<1> QED BY <1>7, <1>10, <1>11, <1>12 DEF WebInductive, ShownIsHeld, ReadyForItsRole

LEMMA HeldEndsStep == ASSUME WebInductive, HeldEnds PROVE WebInductive'
  BY DEF HeldEnds, WebInductive, WebTypeOK, ShownIsHeld, ReadyForItsRole, StartFits, GuardedFits, SentAt

-----------------------------------------------------------------------------
\* The application shows an actor.
LEMMA ShownActor ==
  ASSUME WebInductive, NEW a \in Actors
  PROVE  /\ ShowsActor(a) \in App /\ ShowsActor(a).actor = a /\ (ShowsActor(a).ready => Fits(a))
         /\ ShowsActor(a).linkToken = app.linkToken
  BY DEF WebInductive, WebTypeOK, ShowsActor, App, Fits

LEMMA SessionKnownStep == ASSUME WebInductive, SessionKnown PROVE WebInductive'
<1> DEFINE r == sent["start"]
<1>1. WebTypeOK /\ r \in SentRequest /\ "start" \in Waits /\ "guarded" \in Waits \ {"start"} /\ UNCHANGED <<held, offered, crossed>>
  BY DEF WebInductive, WebTypeOK, SessionKnown, SentAt, Waits
<1>2. CASE r.answer = None
  <2>1. Done("start") /\ app' = app
    BY <1>2 DEF SessionKnown
  <2>2. /\ sent' \in [Waits -> SentRequest \union {None}] /\ sent'["start"] = None
        /\ sent'["guarded"] = sent["guarded"]
    BY <1>1, <2>1, DoneStep
  <2> QED
    BY <1>1, <2>1, <2>2
    DEF WebInductive, WebTypeOK, ShownIsHeld, ReadyForItsRole, StartFits, GuardedFits, SentAt
<1>3. CASE r.answer # None
  <2>1. r.answer \in Actors /\ app' = ShowsActor(r.answer)
    BY <1>1, <1>3 DEF SessionKnown, SentRequest
  <2>2. app' \in App /\ app'.actor = r.answer /\ (app'.ready => Fits(r.answer))
    BY <2>1, ShownActor
  <2>3. PICK x : x = [r EXCEPT !.step = "loading"]
    OBVIOUS
  <2>4. x \in SentRequest /\ x.what = r.what /\ x.step = "loading"
    BY <1>1, <2>3 DEF SentRequest
  <2>5. sent' = [sent EXCEPT !["start"] = x]
    BY <1>1, <1>3, <2>3 DEF SessionKnown, WebTypeOK
  <2>6. /\ sent' \in [Waits -> SentRequest \union {None}] /\ sent'["start"] = x
        /\ sent'["guarded"] = sent["guarded"]
    BY <1>1, <2>4, <2>5, NextOfRequest
  <2>7. r.what = "session" /\ (~crossed /\ held # None => held = r.answer)
    BY <1>1, <1>3 DEF WebInductive, StartFits, SessionKnown, SentAt
  <2>8. StartFits' /\ GuardedFits'
    BY <1>1, <2>4, <2>6, <2>7 DEF WebInductive, StartFits, GuardedFits, SentAt
  <2> QED
    BY <1>1, <2>1, <2>2, <2>6, <2>7, <2>8 DEF WebInductive, WebTypeOK, ShownIsHeld, ReadyForItsRole
<1> QED BY <1>2, <1>3

LEMMA SignedInStep == ASSUME WebInductive, SignedIn PROVE WebInductive'
<1> DEFINE r == sent["guarded"]
<1>1. WebTypeOK /\ r \in SentRequest /\ "guarded" \in Waits /\ "start" \in Waits \ {"guarded"} /\ offered' = offered
  BY DEF WebInductive, WebTypeOK, SignedIn, SentAt, Waits
<1>2. r.answer \in Actors /\ r.what \in {"password", "switch", "link"}
  BY <1>1 DEF WebInductive, GuardedFits, SignedIn, SentAt, SentRequest
<1>3. PICK a \in Actors : a = r.answer
  BY <1>2
<1>4. held' = a /\ crossed' = SentAt("start", "answered")
  BY <1>3 DEF SignedIn
<1>5. ShowsActor(a) \in App /\ ShowsActor(a).actor = a /\ (ShowsActor(a).ready => Fits(a))
  BY ShownActor
<1>6. app' \in App /\ app'.actor = a /\ (app'.ready => Fits(a))
  <2>0. PICK y \in App : y = ShowsActor(a)
    BY <1>5
  <2>00. PICK fits \in BOOLEAN : fits = Fits(a)
    <3>1. Fits(a) \in BOOLEAN
      BY DEF Fits
    <3> QED BY ONLY <3>1, Zenon
  <2>1. CASE r.what = "password"
    BY <1>3, <1>5, <2>1 DEF SignedIn
  <2>2. CASE r.what = "link"
    <3>1. app' = [y EXCEPT !.linkToken = FALSE, !.linkPreview = FALSE, !.ready = fits]
      BY <1>3, <2>0, <2>00, <2>2 DEF SignedIn
    <3>2. app' \in App /\ app'.ready = fits /\ app'.actor = y.actor
      BY <3>1 DEF App
    <3> QED BY <1>5, <2>0, <2>00, <3>2
  <2>3. CASE r.what = "switch"
    <3>1. app' = [y EXCEPT !.ready = fits, !.signingIn = FALSE]
      BY <1>3, <2>0, <2>00, <2>3 DEF SignedIn
    <3>2. app' \in App /\ app'.ready = fits /\ app'.actor = y.actor
      BY <3>1 DEF App
    <3> QED BY <1>5, <2>0, <2>00, <3>2
  <2> QED BY <1>2, <2>1, <2>2, <2>3
<1>7. PICK x : x = [r EXCEPT !.step = "loading"]
  OBVIOUS
<1>8. x \in SentRequest /\ x.what = r.what /\ x.answer = r.answer
  BY <1>1, <1>7 DEF SentRequest
<1>9. /\ sent' \in [Waits -> SentRequest \union {None}] /\ sent'["start"] = sent["start"]
      /\ sent'["guarded"] \in {None, x}
  <2>1. sent' = [sent EXCEPT !["guarded"] = IF r.what = "switch" THEN None ELSE x]
    BY <1>1, <1>7 DEF SignedIn, WebTypeOK
  <2> QED BY <1>1, <1>8, <2>1 DEF WebTypeOK
<1>10. WebTypeOK'
  BY <1>1, <1>4, <1>6, <1>9 DEF WebTypeOK, SentAt
<1>11. StartFits' /\ GuardedFits'
  BY <1>2, <1>4, <1>8, <1>9 DEF WebInductive, StartFits, GuardedFits, SentAt
<1>12. ShownIsHeld' /\ ReadyForItsRole'
  BY <1>4, <1>6 DEF ShownIsHeld, ReadyForItsRole
<1> QED BY <1>10, <1>11, <1>12 DEF WebInductive

\* What a request leaves when it is over: the others go on.
LEMMA OverStep ==
  ASSUME WebInductive, NEW s \in Waits, Done(s), app' \in App, held' \in {held, None}, UNCHANGED <<offered, crossed>>,
         \/ app'.actor = app.actor /\ app'.ready = app.ready
         \/ app'.actor = None /\ ~app'.ready
  PROVE  WebInductive'
<1>1. /\ sent' \in [Waits -> SentRequest \union {None}]
      /\ \A t \in Waits : sent'[t] \in {sent[t], None}
  BY DoneStep DEF WebInductive
<1>2. "start" \in Waits /\ "guarded" \in Waits
  BY DEF Waits
<1>3. WebTypeOK'
  BY <1>1 DEF WebInductive, WebTypeOK
<1>4. StartFits' /\ GuardedFits'
  BY <1>1, <1>2 DEF WebInductive, StartFits, GuardedFits, SentAt
<1>5. ShownIsHeld' /\ ReadyForItsRole'
  BY DEF WebInductive, ShownIsHeld, ReadyForItsRole
<1> QED BY <1>3, <1>4, <1>5 DEF WebInductive

LEMMA OverSteps ==
  ASSUME WebInductive,
         PasswordSet \/ ApiAnswered \/ \E s \in Waits : FailsAt(s) \/ Loaded(s)
  PROVE  WebInductive'
<1>1. app \in App /\ "guarded" \in Waits /\ "api" \in Waits
  BY DEF WebInductive, WebTypeOK, Waits
<1>2. CASE PasswordSet
  <2>1. app' \in App /\ app'.actor = app.actor /\ app'.ready = app.ready
    BY <1>1, <1>2 DEF PasswordSet, App
  <2> QED BY <1>1, <1>2, <2>1, OverStep DEF PasswordSet
<1>3. CASE ApiAnswered
  <2>1. app' \in App /\ (app' = app \/ (app'.actor = None /\ ~app'.ready))
    BY <1>1, <1>3 DEF ApiAnswered, expire, App
  <2> QED BY <1>1, <1>3, <2>1, OverStep DEF ApiAnswered
<1>4. ASSUME NEW s \in Waits, FailsAt(s) PROVE WebInductive'
  <2>1. app' \in App /\ app'.actor = app.actor /\ app'.ready = app.ready
    BY <1>1, <1>4 DEF FailsAt, App
  <2> QED BY <1>4, <2>1, OverStep DEF FailsAt
<1>5. ASSUME NEW s \in Waits, Loaded(s) PROVE WebInductive'
  <2>1. PICK preview \in {app.linkPreview, app.linkPreview \/ (app.linkToken /\ app.actor # None)} :
          app' = [app EXCEPT !.linkPreview = preview, !.signingIn = IF s = "guarded" THEN FALSE ELSE @]
    BY <1>5 DEF Loaded
  <2>2. preview \in BOOLEAN
    BY <1>1, <2>1 DEF App
  <2>3. app' \in App /\ app'.actor = app.actor /\ app'.ready = app.ready
    BY <1>1, <2>1, <2>2 DEF App
  <2> QED BY <1>5, <2>3, OverStep DEF Loaded
<1> QED BY <1>2, <1>3, <1>4, <1>5

LEMMA SignedOutStep == ASSUME WebInductive, SignedOut PROVE WebInductive'
<1>1. app' \in App /\ app'.actor = None /\ ~app'.ready
  BY DEF SignedOut, WebInductive, WebTypeOK, App
<1>2. "signOut" \in Waits /\ "start" \in Waits \ {"signOut"} /\ "guarded" \in Waits \ {"signOut"}
  BY DEF Waits
<1>3. /\ sent' \in [Waits -> SentRequest \union {None}]
      /\ sent'["start"] = sent["start"] /\ sent'["guarded"] = sent["guarded"]
  BY <1>2, DoneStep DEF SignedOut, WebInductive
<1>4. held' = None /\ offered' = offered /\ crossed' \in BOOLEAN
  BY DEF SignedOut, WebInductive, WebTypeOK, SentAt
<1>5. WebTypeOK'
  BY <1>1, <1>3, <1>4 DEF WebInductive, WebTypeOK
<1>6. StartFits' /\ GuardedFits'
  BY <1>3, <1>4 DEF WebInductive, StartFits, GuardedFits, SentAt
<1>7. ShownIsHeld' /\ ReadyForItsRole'
  BY <1>1 DEF ShownIsHeld, ReadyForItsRole
<1> QED BY <1>5, <1>6, <1>7 DEF WebInductive

LEMMA WebInductiveStep == ASSUME WebInductive, [WebNext]_webVars PROVE WebInductive'
<1>1. CASE WebNext
  BY <1>1, OpenPageStep, ConfiguredStep, AskingSteps, HandleStep, HeldEndsStep, SessionKnownStep, SignedInStep,
     OverSteps, SignedOutStep DEF WebNext
<1>2. CASE UNCHANGED webVars
  BY <1>2 DEF webVars, WebInductive, WebTypeOK, ShownIsHeld, ReadyForItsRole, StartFits, GuardedFits, SentAt
<1> QED BY <1>1, <1>2

\* For any employees, roles and memberships of an account, and whatever is answered in
\* whatever order: the application is open only to an actor with its role, and what it
\* shows is the actor its requests act for, unless an answer to initialize is older than
\* the cookie (packages/web-auth auth-session.ts).
THEOREM WebSessionSoundHolds == WebInit /\ [][WebNext]_webVars => []WebSessionSound
<1>1. WebInductive => WebSessionSound
  BY SessionAssumption
  DEF WebInductive, WebSessionSound, ReadyForItsRole, OpenToItsRole, Shell
<1> QED BY <1>1, WebInductiveInit, WebInductiveStep, PTL

(***************************************************************************)
(* Desktop.  The control plane's rows only grow, so what the application   *)
(* holds of them stays good; a request under way is about a run there is,  *)
(* and a submission that has its conversation keeps it.                    *)
(***************************************************************************)
RunRecord == [talk : DOMAIN talks, agent : Agents \union {None}, status : AgentRunStatuses]
Poll ==
  [at : {"free", "asking", "reloading", "waiting", "cancelling"}, run : {0} \union DOMAIN agentRuns,
   saw : AgentRunStatuses \union {None}]
TaskRecord ==
  [stage : TaskStages, talk : {0} \union DOMAIN talks, agent : Agents \union {None},
   run : {0} \union DOMAIN agentRuns]

ServerFits == talks \in Seq(Agents) /\ agentRuns \in Seq(RunRecord) /\ RunsInPlace

ChoiceFits ==
  /\ manifest \in Agents \union {None} /\ selected \in Agents \union {None} /\ using \in Agents \union {None}
  /\ activeConversation \in {0} \union DOMAIN talks /\ opening \subseteq DOMAIN talks
  /\ clicks \in 0..MaxClicks

FollowFits ==
  /\ followed \in {0} \union DOMAIN agentRuns
  /\ detail = None \/ (detail \in [run : DOMAIN agentRuns, status : AgentRunStatuses] /\ detail.run = followed)
  /\ timer \in {0} \union Slots
  /\ polls \in [Slots -> Poll] /\ \A p \in Slots : polls[p].at # "free" => polls[p].run # 0
  /\ lost \in BOOLEAN /\ cut \in BOOLEAN

TaskFits ==
  /\ task \in TaskRecord /\ tasks \in 0..MaxTasks
  /\ task.stage = "creating" => task.agent \in Agents
  /\ task.stage \in {"posting", "starting", "preparing", "opening", "listing"} => task.talk # 0

DeskInductive == ServerFits /\ ChoiceFits /\ FollowFits /\ TaskFits

\* What a growing control plane leaves as it was.
Grows == DOMAIN talks \subseteq DOMAIN talks' /\ DOMAIN agentRuns \subseteq DOMAIN agentRuns'

LEMMA DeskSound == ASSUME DeskInductive PROVE DesktopSound
<1>1. DeskTypeOK
  BY DEF DeskInductive, ServerFits, ChoiceFits, FollowFits, TaskFits, DeskTypeOK, RunRecord, Poll, TaskRecord
<1>2. RunsInPlace /\ DetailIsFollowed
  BY DEF DeskInductive, ServerFits, FollowFits, DetailIsFollowed
<1> QED BY <1>1, <1>2 DEF DesktopSound

LEMMA NoneUnderWay ==
  /\ NoTask \in TaskRecord /\ NoTask.stage = "none"
  /\ NoPoll \in Poll /\ NoPoll.at = "free"
  BY DEF NoTask, NoPoll, TaskRecord, Poll, TaskStages

LEMMA DeskInductiveInit == ASSUME DeskInit PROVE DeskInductive
<1>1. PICK a \in Agents : talks = <<a>>
  BY DEF DeskInit
<1>2. talks \in Seq(Agents) /\ agentRuns \in Seq(RunRecord) /\ DOMAIN agentRuns = {}
  BY <1>1 DEF DeskInit
<1>3. ServerFits
  BY <1>2 DEF ServerFits, RunsInPlace
<1>4. {MaxTasks, MaxClicks, MaxPolls} \subseteq Nat
  BY DesktopAssumption
<1>5. ChoiceFits
  BY <1>4 DEF DeskInit, ChoiceFits
<1>6. FollowFits
  BY NoneUnderWay DEF DeskInit, FollowFits
<1>7. TaskFits
  BY <1>4, NoneUnderWay DEF DeskInit, TaskFits
<1> QED BY <1>3, <1>5, <1>6, <1>7 DEF DeskInductive

\* What is known of the rows.
LEMMA ServerTypes ==
  ASSUME ServerFits
  PROVE  /\ Len(talks) \in Nat /\ DOMAIN talks = 1..Len(talks) /\ \A c \in DOMAIN talks : talks[c] \in Agents
         /\ Len(agentRuns) \in Nat /\ DOMAIN agentRuns = 1..Len(agentRuns)
         /\ \A r \in DOMAIN agentRuns : agentRuns[r] \in RunRecord /\ agentRuns[r].agent \in {talks[agentRuns[r].talk], None}
<1>1. talks \in Seq(Agents) /\ agentRuns \in Seq(RunRecord) /\ RunsInPlace
  BY DEF ServerFits
<1>2. Len(talks) \in Nat /\ DOMAIN talks = 1..Len(talks) /\ Len(agentRuns) \in Nat /\ DOMAIN agentRuns = 1..Len(agentRuns)
  BY <1>1, LenProperties
<1>3. \A c \in DOMAIN talks : talks[c] \in Agents
  BY <1>1, <1>2, ElementOfSeq
<1>4. \A r \in DOMAIN agentRuns : agentRuns[r] \in RunRecord
  BY <1>1, <1>2, ElementOfSeq
<1> QED BY <1>1, <1>2, <1>3, <1>4 DEF RunsInPlace

LEMMA ServerStays ==
  ASSUME ServerFits, ServerUntouched PROVE ServerFits' /\ Grows
<1>1. talks' = talks /\ agentRuns' = agentRuns
  BY DEF ServerUntouched
<1>2. RunRecord' = RunRecord
  BY <1>1 DEF RunRecord
<1> QED BY <1>1, <1>2 DEF ServerFits, RunsInPlace, Grows

LEMMA ChoiceStays ==
  ASSUME ChoiceFits, Grows, AgentUntouched, UNCHANGED <<activeConversation, opening, using>>, clicks' \in 0..MaxClicks
  PROVE  ChoiceFits'
  BY DEF ChoiceFits, Grows, AgentUntouched

LEMMA TaskStays ==
  ASSUME TaskFits, Grows, TaskUntouched PROVE TaskFits'
<1>1. TaskRecord \subseteq TaskRecord'
  BY DEF Grows, TaskRecord
<1>2. task \in TaskRecord' /\ task' = task /\ tasks' = tasks
  BY <1>1 DEF TaskFits, TaskUntouched
<1> QED BY <1>2 DEF TaskFits

LEMMA PollsGrow == ASSUME Grows PROVE Poll \subseteq Poll'
  BY DEF Grows, Poll

\* What a step of a client does with one request and the timer.
LEMMA FollowMoves ==
  ASSUME FollowFits, Grows, followed' \in {0} \union DOMAIN agentRuns',
         \/ detail' = None
         \/ detail' = detail /\ followed' = followed
         \/ detail' \in [run : DOMAIN agentRuns', status : AgentRunStatuses] /\ detail'.run = followed',
         timer' \in {0} \union Slots, lost' \in BOOLEAN, cut' \in BOOLEAN,
         DOMAIN polls' = Slots, polls' = [p \in Slots |-> polls'[p]],
         \A p \in Slots : \/ polls'[p] \in {polls[p], NoPoll}
                          \/ polls'[p] \in Poll' /\ polls'[p].run # 0
  PROVE  FollowFits'
<1>1. \A p \in Slots : polls'[p] \in Poll' /\ (polls'[p].at # "free" => polls'[p].run # 0)
  <2> TAKE p \in Slots
  <2>1. polls[p] \in Poll' /\ (polls[p].at # "free" => polls[p].run # 0)
    BY PollsGrow DEF FollowFits
  <2>2. NoPoll \in Poll' /\ NoPoll.at = "free"
    BY PollsGrow, NoneUnderWay
  <2> QED BY <2>1, <2>2
<1>2. polls' \in [Slots -> Poll']
  BY <1>1
<1>3. Slots' = Slots
  BY DEF Slots
<1>4. \/ detail' = None
      \/ detail' \in [run : DOMAIN agentRuns', status : AgentRunStatuses] /\ detail'.run = followed'
  BY DEF FollowFits, Grows
<1> QED BY <1>1, <1>2, <1>3, <1>4 DEF FollowFits

LEMMA FollowStays == ASSUME FollowFits, Grows, FollowUntouched PROVE FollowFits'
<1>1. UNCHANGED <<followed, detail, timer, polls, lost, cut>>
  BY DEF FollowUntouched
<1>2. polls \in [Slots -> Poll] /\ polls' = [p \in Slots |-> polls'[p]] /\ DOMAIN polls' = Slots
  BY <1>1 DEF FollowFits
<1>3. followed' \in {0} \union DOMAIN agentRuns'
  BY <1>1 DEF FollowFits, Grows
<1>4. timer' \in {0} \union Slots /\ lost' \in BOOLEAN /\ cut' \in BOOLEAN
  BY <1>1 DEF FollowFits
<1> QED BY <1>1, <1>2, <1>3, <1>4, FollowMoves

LEMMA ClearedPolls ==
  ASSUME FollowFits, NEW t \in {0} \union Slots
  PROVE  Cleared(t) \in [Slots -> Poll] /\ \A p \in Slots : Cleared(t)[p] \in {polls[p], NoPoll}
  BY NoneUnderWay DEF FollowFits, Cleared

LEMMA FollowStops == ASSUME FollowFits, Grows, stopFollowing PROVE FollowFits'
<1>1. /\ polls' = Cleared(timer) /\ timer' = 0 /\ followed' = 0 /\ detail' = None /\ UNCHANGED <<lost, cut>>
      /\ timer \in {0} \union Slots
  BY DEF stopFollowing, FollowFits
<1>2. polls' \in [Slots -> Poll] /\ \A p \in Slots : polls'[p] \in {polls[p], NoPoll}
  BY <1>1, ClearedPolls
<1>3. polls' = [p \in Slots |-> polls'[p]] /\ DOMAIN polls' = Slots
  BY <1>2
<1>4. lost' \in BOOLEAN /\ cut' \in BOOLEAN
  BY <1>1 DEF FollowFits
<1> QED BY <1>1, <1>2, <1>3, <1>4, FollowMoves

LEMMA FollowLeaves == ASSUME FollowFits, Grows, NEW c, leaveIfOther(c) PROVE FollowFits'
  BY FollowStops, FollowStays DEF leaveIfOther

LEMMA FollowRun ==
  ASSUME FollowFits, Grows, NEW r \in DOMAIN agentRuns', r # 0, followRun(r) PROVE FollowFits'
<1>1. PICK p \in Slots : polls' = [Cleared(timer) EXCEPT ![p] = [at |-> "asking", run |-> r, saw |-> None]]
  BY DEF followRun
<1>2. timer' = 0 /\ followed' = r /\ detail' = None /\ lost' = FALSE /\ cut' = cut /\ timer \in {0} \union Slots
      /\ cut \in BOOLEAN
  BY DEF followRun, FollowFits
<1>3. Cleared(timer) \in [Slots -> Poll] /\ \A q \in Slots : Cleared(timer)[q] \in {polls[q], NoPoll}
  BY <1>2, ClearedPolls
<1>4. PICK x : x = [at |-> "asking", run |-> r, saw |-> None]
  OBVIOUS
<1>5. x \in Poll' /\ x.run # 0
  BY <1>4 DEF Poll
<1>6. DOMAIN polls' = Slots /\ polls' = [q \in Slots |-> polls'[q]]
      /\ \A q \in Slots : polls'[q] = IF q = p THEN x ELSE Cleared(timer)[q]
  BY <1>1, <1>3, <1>4
<1>7. \A q \in Slots : polls'[q] \in {polls[q], NoPoll} \/ (polls'[q] \in Poll' /\ polls'[q].run # 0)
  BY <1>3, <1>5, <1>6
<1> QED BY <1>2, <1>6, <1>7, FollowMoves

-----------------------------------------------------------------------------
(* Requests about runs.                                                    *)

\* The submission that waits for an answer stays or is over.
LEMMA TaskEnds == ASSUME TaskFits, Grows, NEW p, EndsTaskOf(p), UNCHANGED tasks PROVE TaskFits'
<1>1. CASE task' = task
  BY <1>1, TaskStays DEF TaskUntouched
<1>2. CASE task' = NoTask
  <2>1. NoTask \in TaskRecord' /\ NoTask.stage = "none"
    BY <1>2 DEF NoTask, TaskRecord, TaskStages
  <2> QED BY <1>2, <2>1 DEF TaskFits
<1> QED BY <1>1, <1>2 DEF EndsTaskOf

\* One request goes on; the others stay as they are.
LEMMA OnePoll ==
  ASSUME FollowFits, Grows, NEW p \in Slots, NEW x, polls' = [polls EXCEPT ![p] = x],
         x = NoPoll \/ (x \in Poll' /\ x.run # 0),
         followed' = followed,
         \/ detail' = detail
         \/ detail' \in [run : DOMAIN agentRuns', status : AgentRunStatuses] /\ detail'.run = followed',
         timer' \in {0} \union Slots, lost' \in BOOLEAN, cut' \in BOOLEAN
  PROVE  FollowFits'
<1>1. polls \in [Slots -> Poll] /\ followed' \in {0} \union DOMAIN agentRuns'
  BY DEF FollowFits, Grows
<1>2. DOMAIN polls' = Slots /\ polls' = [q \in Slots |-> polls'[q]]
      /\ \A q \in Slots : polls'[q] = IF q = p THEN x ELSE polls[q]
  BY <1>1
<1>3. \A q \in Slots : polls'[q] \in {polls[q], NoPoll} \/ (polls'[q] \in Poll' /\ polls'[q].run # 0)
  BY <1>2
<1> QED BY <1>1, <1>2, <1>3, FollowMoves

\* The parts a request leaves alone.
LEMMA PollLeaves ==
  ASSUME DeskInductive, UNCHANGED <<activeConversation, opening, using, clicks>>, ServerUntouched, AgentUntouched
  PROVE  Grows /\ ServerFits' /\ ChoiceFits'
<1>1. Grows /\ ServerFits' /\ clicks' \in 0..MaxClicks
  BY ServerStays DEF DeskInductive, ChoiceFits
<1> QED BY <1>1, ChoiceStays DEF DeskInductive

LEMMA TimerSet ==
  ASSUME FollowFits, Grows, UNCHANGED agentRuns, NEW p \in Slots, polls[p].at # "free", NEW saw, SetTimer(p, saw),
         UNCHANGED <<followed, lost, cut>>,
         \/ detail' = detail
         \/ detail' \in [run : DOMAIN agentRuns', status : AgentRunStatuses] /\ detail'.run = followed'
  PROVE  FollowFits'
<1>1. timer \in {0} \union Slots /\ lost' \in BOOLEAN /\ cut' \in BOOLEAN /\ polls \in [Slots -> Poll] /\ polls[p].run # 0
  BY DEF FollowFits
<1>2. CASE polls' = [polls EXCEPT ![p] = NoPoll] /\ UNCHANGED timer
  BY <1>1, <1>2, OnePoll
<1>3. CASE polls' = [polls EXCEPT ![p].at = "waiting", ![p].saw = None] /\ timer' = p
  <2>1. PICK x : x = [polls[p] EXCEPT !.at = "waiting", !.saw = None]
    OBVIOUS
  <2>2. x \in Poll /\ x.run # 0
    BY <1>1, <2>1 DEF Poll
  <2>3. polls' = [polls EXCEPT ![p] = x]
    BY <1>1, <1>3, <2>1
  <2>4. x \in Poll'
    BY <2>2, PollsGrow
  <2> QED BY <1>1, <1>3, <2>2, <2>3, <2>4, OnePoll
<1> QED BY <1>2, <1>3 DEF SetTimer

LEMMA DetailArrivesStep ==
  ASSUME DeskInductive, NEW p \in Slots, DetailArrives(p) PROVE DeskInductive'
<1> DEFINE r == polls[p].run
           saw == agentRuns[r].status
<1>1. Grows /\ ServerFits' /\ ChoiceFits' /\ agentRuns' = agentRuns
  BY PollLeaves DEF DetailArrives, ServerUntouched
<1>2. FollowFits /\ TaskFits /\ polls \in [Slots -> Poll] /\ polls[p].at = "asking" /\ r # 0 /\ r \in DOMAIN agentRuns
      /\ timer \in {0} \union Slots /\ lost \in BOOLEAN /\ cut \in BOOLEAN
      /\ UNCHANGED <<followed, tasks, lost, cut>>
  BY DEF DeskInductive, FollowFits, DetailArrives, Poll
<1>3. saw \in AgentRunStatuses
  BY <1>2, ServerTypes DEF DeskInductive, RunRecord
<1>4. CASE followed # r
  <2>1. polls' = [polls EXCEPT ![p] = NoPoll] /\ UNCHANGED <<detail, timer>> /\ EndsTaskOf(p)
    BY <1>4 DEF DetailArrives
  <2>2. FollowFits'
    BY <1>1, <1>2, <2>1, OnePoll
  <2>3. TaskFits'
    BY <1>1, <1>2, <2>1, TaskEnds
  <2> QED BY <1>1, <2>2, <2>3 DEF DeskInductive
<1>5. CASE followed = r
  <2>1. detail' = [run |-> r, status |-> saw]
    BY <1>5 DEF DetailArrives
  <2>2. detail' \in [run : DOMAIN agentRuns', status : AgentRunStatuses] /\ detail'.run = followed'
    BY <1>1, <1>2, <1>3, <1>5, <2>1
  <2>3. CASE polls' = [polls EXCEPT ![p].at = "reloading", ![p].saw = saw] /\ UNCHANGED <<timer, task>>
    <3>1. PICK x : x = [polls[p] EXCEPT !.at = "reloading", !.saw = saw]
      OBVIOUS
    <3>2. x \in Poll /\ x.run # 0
      BY <1>2, <1>3, <3>1 DEF Poll
    <3>3. polls' = [polls EXCEPT ![p] = x] /\ x \in Poll'
      BY <1>1, <1>2, <2>3, <3>1, <3>2, PollsGrow
    <3>4. FollowFits'
      BY <1>1, <1>2, <2>2, <2>3, <3>2, <3>3, OnePoll
    <3>5. TaskFits'
      BY <1>1, <1>2, <2>3, TaskStays DEF TaskUntouched
    <3> QED BY <1>1, <3>4, <3>5 DEF DeskInductive
  <2>4. CASE SetTimer(p, saw) /\ EndsTaskOf(p)
    <3>1. FollowFits'
      BY <1>1, <1>2, <2>2, <2>4, TimerSet
    <3>2. TaskFits'
      BY <1>1, <1>2, <2>4, TaskEnds
    <3> QED BY <1>1, <3>1, <3>2 DEF DeskInductive
  <2> QED BY <1>5, <2>3, <2>4 DEF DetailArrives
<1> QED BY <1>4, <1>5

LEMMA PollSteps ==
  ASSUME DeskInductive, NEW p \in Slots, DetailFails(p) \/ Reloaded(p) \/ TimerFires(p)
  PROVE  DeskInductive'
<1>1. Grows /\ ServerFits' /\ ChoiceFits' /\ agentRuns' = agentRuns
  BY PollLeaves DEF DetailFails, Reloaded, TimerFires, ServerUntouched
<1>2. FollowFits /\ TaskFits /\ polls \in [Slots -> Poll] /\ polls[p].run # 0 /\ polls[p].at # "free"
      /\ timer \in {0} \union Slots /\ lost \in BOOLEAN /\ cut \in BOOLEAN
      /\ UNCHANGED <<followed, tasks, detail, cut>>
  BY DEF DeskInductive, FollowFits, DetailFails, Reloaded, TimerFires, Poll, TaskUntouched
<1>3. CASE DetailFails(p)
  <2>1. polls' = [polls EXCEPT ![p] = NoPoll] /\ UNCHANGED timer /\ EndsTaskOf(p) /\ lost' \in BOOLEAN
    BY <1>2, <1>3 DEF DetailFails
  <2> QED BY <1>1, <1>2, <2>1, OnePoll, TaskEnds DEF DeskInductive
<1>4. CASE Reloaded(p)
  <2>1. SetTimer(p, polls[p].saw) /\ EndsTaskOf(p) /\ UNCHANGED lost
    BY <1>4 DEF Reloaded
  <2> QED BY <1>1, <1>2, <2>1, TimerSet, TaskEnds DEF DeskInductive
<1>5. CASE TimerFires(p)
  <2>1. PICK x : x = [polls[p] EXCEPT !.at = "asking"]
    OBVIOUS
  <2>2. x \in Poll /\ x.run # 0
    BY <1>2, <2>1 DEF Poll
  <2>3. polls' = [polls EXCEPT ![p] = x] /\ timer' = 0 /\ UNCHANGED lost /\ TaskUntouched /\ x \in Poll'
    BY <1>1, <1>2, <1>5, <2>1, <2>2, PollsGrow DEF TimerFires
  <2> QED BY <1>1, <1>2, <2>2, <2>3, OnePoll, TaskStays DEF DeskInductive
<1> QED BY <1>3, <1>4, <1>5

LEMMA Clicked == ASSUME ChoiceFits, Click PROVE clicks' \in 0..MaxClicks
<1>1. MaxClicks \in Nat
  BY DesktopAssumption
<1> QED BY <1>1 DEF ChoiceFits, Click

LEMMA CancelShownRunStep ==
  ASSUME DeskInductive, NEW p \in Slots, cancelShownRun(p) PROVE DeskInductive'
<1>1. Grows /\ ServerFits' /\ ServerUntouched
  BY ServerStays DEF DeskInductive, cancelShownRun
<1>2. ChoiceFits'
  BY <1>1, ChoiceStays, Clicked DEF DeskInductive, cancelShownRun
<1>3. TaskFits'
  BY <1>1, TaskStays DEF DeskInductive, cancelShownRun
<1>4. PICK x : x = [at |-> "cancelling", run |-> followed, saw |-> None]
  OBVIOUS
<1>5. FollowFits /\ followed # 0 /\ polls' = [polls EXCEPT ![p] = x] /\ UNCHANGED <<followed, detail, timer, lost, cut>>
  BY <1>4 DEF DeskInductive, cancelShownRun
<1>6. x \in Poll' /\ x.run # 0 /\ timer \in {0} \union Slots /\ lost \in BOOLEAN /\ cut \in BOOLEAN
  BY <1>1, <1>4, <1>5 DEF FollowFits, Poll, Grows
<1>7. FollowFits'
  BY <1>1, <1>5, <1>6, OnePoll
<1> QED BY <1>1, <1>2, <1>3, <1>7 DEF DeskInductive

\* A run of the control plane in another status.
LEMMA RunInStatus ==
  ASSUME ServerFits, NEW r \in DOMAIN agentRuns, NEW status \in AgentRunStatuses,
         agentRuns' = [agentRuns EXCEPT ![r].status = status], talks' = talks
  PROVE  ServerFits' /\ Grows
<1>1. PICK old \in RunRecord : old = agentRuns[r]
  BY ServerTypes
<1>2. PICK x : x = [old EXCEPT !.status = status]
  OBVIOUS
<1>3. x \in RunRecord /\ x.talk = old.talk /\ x.agent = old.agent
  BY <1>1, <1>2 DEF RunRecord
<1>4. agentRuns \in Seq(RunRecord) /\ DOMAIN agentRuns = 1..Len(agentRuns) /\ Len(agentRuns) \in Nat
  BY ServerTypes DEF ServerFits
<1>5. agentRuns' = [agentRuns EXCEPT ![r] = x]
  BY <1>1, <1>2, <1>4
<1>6. PICK n \in Nat : n = Len(agentRuns)
  BY <1>4
<1>7. /\ DOMAIN agentRuns' = 1..n /\ agentRuns' = [s \in 1..n |-> agentRuns'[s]]
      /\ \A s \in 1..n : agentRuns'[s] = IF s = r THEN x ELSE agentRuns[s]
  BY <1>4, <1>5, <1>6
<1>8. \A s \in 1..n : agentRuns[s] \in RunRecord /\ agentRuns[s].agent \in {talks[agentRuns[s].talk], None}
  BY <1>4, <1>6, ServerTypes
<1>9. agentRuns' \in [1..n -> RunRecord]
  BY <1>3, <1>7, <1>8
<1>10. agentRuns' \in Seq(RunRecord)
  BY <1>9, FunctionSeq
<1>11. RunRecord' = RunRecord
  BY DEF RunRecord
<1>12. RunsInPlace'
  BY <1>1, <1>3, <1>4, <1>6, <1>7, <1>8 DEF RunsInPlace
<1> QED BY <1>4, <1>6, <1>7, <1>10, <1>11, <1>12 DEF ServerFits, Grows

LEMMA CancelAnsweredStep ==
  ASSUME DeskInductive, NEW p \in Slots, CancelAnswered(p) PROVE DeskInductive'
<1> DEFINE r == polls[p].run
<1>1. FollowFits /\ polls \in [Slots -> Poll] /\ r # 0 /\ r \in DOMAIN agentRuns /\ timer \in {0} \union Slots
      /\ lost \in BOOLEAN /\ cut \in BOOLEAN
  BY DEF DeskInductive, FollowFits, CancelAnswered, Poll
<1>2. /\ agentRuns' = agentRuns \/ agentRuns' = [agentRuns EXCEPT ![r].status = "ended"]
      /\ talks' = talks /\ UNCHANGED <<activeConversation, opening, followed, detail, using, clicks, lost>>
      /\ AgentUntouched /\ TaskUntouched /\ timer' = 0
      /\ polls' = [Cleared(timer) EXCEPT ![p] = [at |-> "asking", run |-> r, saw |-> None]]
      /\ cut' \in BOOLEAN
  BY <1>1 DEF CancelAnswered
<1>3. ServerFits' /\ Grows
  <2>1. CASE agentRuns' = agentRuns
    BY <1>2, <2>1, ServerStays DEF ServerUntouched, DeskInductive
  <2>2. CASE agentRuns' = [agentRuns EXCEPT ![r].status = "ended"]
    <3>1. "ended" \in AgentRunStatuses
      BY DEF AgentRunStatuses
    <3> QED BY <1>1, <1>2, <2>2, <3>1, RunInStatus DEF DeskInductive
  <2> QED BY <1>2, <2>1, <2>2
<1>4. ChoiceFits' /\ TaskFits'
  BY <1>2, <1>3, ChoiceStays, TaskStays DEF DeskInductive, ChoiceFits
<1>5. PICK x : x = [at |-> "asking", run |-> r, saw |-> None]
  OBVIOUS
<1>6. x \in Poll' /\ x.run # 0
  BY <1>1, <1>3, <1>5 DEF Poll, Grows
<1>7. Cleared(timer) \in [Slots -> Poll] /\ \A q \in Slots : Cleared(timer)[q] \in {polls[q], NoPoll}
  BY <1>1, ClearedPolls
<1>8. /\ DOMAIN polls' = Slots /\ polls' = [q \in Slots |-> polls'[q]]
      /\ \A q \in Slots : polls'[q] \in {polls[q], NoPoll} \/ (polls'[q] \in Poll' /\ polls'[q].run # 0)
  BY <1>2, <1>5, <1>6, <1>7
<1>9. followed' \in {0} \union DOMAIN agentRuns'
  BY <1>2, <1>3 DEF DeskInductive, FollowFits, Grows
<1>10. FollowFits'
  BY <1>1, <1>2, <1>3, <1>8, <1>9, FollowMoves
<1> QED BY <1>3, <1>4, <1>10 DEF DeskInductive

LEMMA RunMovesStep ==
  ASSUME DeskInductive, NEW r \in DOMAIN agentRuns, RunMoves(r) PROVE DeskInductive'
<1>1. PICK s \in {"running", "ended"} : agentRuns' = [agentRuns EXCEPT ![r].status = s]
  BY DEF RunMoves
<1>2. s \in AgentRunStatuses /\ talks' = talks
  BY DEF AgentRunStatuses, RunMoves
<1>3. ServerFits' /\ Grows
  BY <1>1, <1>2, RunInStatus DEF DeskInductive
<1> QED
  BY <1>3, ChoiceStays, TaskStays, FollowStays DEF DeskInductive, RunMoves, ChoiceFits

-----------------------------------------------------------------------------
(* What the employee does meanwhile.                                       *)

LEMMA ClickSteps ==
  ASSUME DeskInductive,
         \/ startNewConversation
         \/ \E c \in DOMAIN talks : selectConversation(c) \/ Opened(c)
         \/ \E a \in Agents : useAssignedAgent(a)
         \/ AgentVerified
  PROVE  DeskInductive'
<1>1. Grows /\ ServerFits' /\ TaskFits' /\ talks' = talks
  <2>1. ServerUntouched /\ TaskUntouched
    BY DEF startNewConversation, selectConversation, Opened, useAssignedAgent, AgentVerified
  <2> QED BY <2>1, ServerStays, TaskStays DEF DeskInductive, ServerUntouched
<1>2. ChoiceFits /\ FollowFits /\ ServerFits
  BY DEF DeskInductive
<1>3. CASE startNewConversation
  <2>1. FollowFits' /\ clicks' \in 0..MaxClicks
    BY <1>1, <1>2, <1>3, FollowStops, Clicked DEF startNewConversation
  <2>2. ChoiceFits'
    BY <1>1, <1>2, <1>3, <2>1 DEF ChoiceFits, startNewConversation, AgentUntouched
  <2> QED BY <1>1, <2>1, <2>2 DEF DeskInductive
<1>4. ASSUME NEW c \in DOMAIN talks, selectConversation(c) PROVE DeskInductive'
  <2>1. FollowFits' /\ clicks' \in 0..MaxClicks
    BY <1>1, <1>2, <1>4, FollowLeaves, Clicked DEF selectConversation
  <2>2. ChoiceFits'
    BY <1>1, <1>2, <1>4, <2>1 DEF ChoiceFits, selectConversation, AgentUntouched
  <2> QED BY <1>1, <2>1, <2>2 DEF DeskInductive
<1>5. ASSUME NEW c \in DOMAIN talks, Opened(c) PROVE DeskInductive'
  <2>1. FollowFits' /\ talks[c] \in Agents
    BY <1>1, <1>2, <1>5, FollowStays, ServerTypes DEF Opened
  <2>2. ChoiceFits'
    BY <1>1, <1>2, <1>5, <2>1 DEF ChoiceFits, Opened, Shows, Untouched, AgentUntouched
  <2> QED BY <1>1, <2>1, <2>2 DEF DeskInductive
<1>6. ASSUME NEW a \in Agents, useAssignedAgent(a) PROVE DeskInductive'
  <2>1. FollowFits' /\ clicks' \in 0..MaxClicks
    BY <1>1, <1>2, <1>6, FollowStays, Clicked DEF useAssignedAgent
  <2>2. ChoiceFits'
    BY <1>1, <1>2, <1>6, <2>1 DEF ChoiceFits, useAssignedAgent, AgentUntouched
  <2> QED BY <1>1, <2>1, <2>2 DEF DeskInductive
<1>7. CASE AgentVerified
  <2>1. FollowFits'
    BY <1>1, <1>2, <1>7, FollowStays, FollowStops DEF AgentVerified
  <2>2. ChoiceFits'
    BY <1>1, <1>2, <1>7 DEF ChoiceFits, AgentVerified, Untouched, AgentUntouched
  <2> QED BY <1>1, <2>1, <2>2 DEF DeskInductive
<1> QED BY <1>3, <1>4, <1>5, <1>6, <1>7

-----------------------------------------------------------------------------
(* The steps of a submission.                                              *)

\* A submission with another record, and a control plane that may have grown.
LEMMA TaskMoves ==
  ASSUME DeskInductive, Grows, ServerFits', ChoiceFits', FollowFits', NEW x \in TaskRecord', task' = x \/ task' = NoTask,
         x.stage = "creating" => x.agent \in Agents,
         x.stage \in {"posting", "starting", "preparing", "opening", "listing"} => x.talk # 0,
         tasks' \in 0..MaxTasks
  PROVE  DeskInductive'
<1>1. NoTask \in TaskRecord' /\ NoTask.stage = "none"
  BY DEF NoTask, TaskRecord, TaskStages
<1>2. TaskFits'
  BY <1>1 DEF TaskFits
<1> QED BY <1>2 DEF DeskInductive

LEMMA SubmitStep == ASSUME DeskInductive, submit PROVE DeskInductive'
<1>1. Grows /\ ServerFits' /\ FollowFits' /\ ChoiceFits'
  BY ServerStays, FollowStays, ChoiceStays DEF DeskInductive, submit, ChoiceFits
<1>2. tasks' \in 0..MaxTasks
  <2>1. MaxTasks \in Nat /\ tasks \in 0..MaxTasks
    BY DesktopAssumption DEF DeskInductive, TaskFits
  <2> QED BY <2>1 DEF submit
<1>3. selected \in Agents /\ activeConversation \in {0} \union DOMAIN talks'
  BY DEF DeskInductive, ChoiceFits, submit, ServerUntouched
<1>4. CASE activeConversation = 0
  <2>1. task' = [stage |-> "creating", talk |-> 0, agent |-> selected, run |-> 0]
    BY <1>4 DEF submit, NoTask
  <2>2. task' \in TaskRecord' /\ task'.stage = "creating" /\ task'.agent = selected
    BY <1>3, <2>1 DEF TaskRecord, TaskStages
  <2> QED BY <1>1, <1>2, <1>3, <2>2, TaskMoves
<1>5. CASE activeConversation # 0
  <2>1. task' = [stage |-> "posting", talk |-> activeConversation, agent |-> None, run |-> 0]
    BY <1>5 DEF submit, NoTask
  <2>2. task' \in TaskRecord' /\ task'.stage = "posting" /\ task'.talk # 0
    BY <1>3, <1>5, <2>1 DEF TaskRecord, TaskStages
  <2> QED BY <1>1, <1>2, <2>2, TaskMoves
<1> QED BY <1>4, <1>5

\* A submission in another stage, of the conversation, agent and run it had.
LEMMA StagedTask ==
  ASSUME TaskFits, Grows, NEW stage \in TaskStages, stage # "creating" PROVE
    /\ [task EXCEPT !.stage = stage] \in TaskRecord' /\ [task EXCEPT !.stage = stage].stage = stage
    /\ [task EXCEPT !.stage = stage].talk = task.talk /\ [task EXCEPT !.stage = stage].run = task.run
<1>1. task \in TaskRecord'
  BY DEF TaskFits, TaskRecord, Grows
<1> QED BY <1>1 DEF TaskRecord

LEMMA ConversationMadeStep == ASSUME DeskInductive, ConversationMade PROVE DeskInductive'
<1>1. PICK a \in Agents : a = task.agent
  BY DEF DeskInductive, TaskFits, ConversationMade
<1>2. PICK n \in Nat : n = Len(talks)
  BY ServerTypes DEF DeskInductive
<1>3. talks' = Append(talks, a) /\ agentRuns' = agentRuns
  BY <1>1 DEF ConversationMade
<1>4. /\ talks' \in Seq(Agents) /\ Len(talks') = n + 1 /\ DOMAIN talks' = 1..(n + 1) /\ DOMAIN talks = 1..n
      /\ \A c \in 1..n : talks'[c] = talks[c]
  BY <1>2, <1>3, AppendProperties, LenProperties DEF DeskInductive, ServerFits
<1>5. Grows
  BY <1>3, <1>4 DEF Grows
<1>6. ServerFits'
  <2>1. PICK m \in Nat : m = Len(agentRuns)
    BY ServerTypes DEF DeskInductive
  <2>2. /\ \A r \in 1..m : agentRuns[r] \in RunRecord /\ agentRuns[r].agent \in {talks[agentRuns[r].talk], None}
        /\ DOMAIN agentRuns = 1..m
    BY <2>1, ServerTypes DEF DeskInductive
  <2>3. RunRecord \subseteq RunRecord'
    BY <1>5 DEF RunRecord, Grows
  <2>4. agentRuns' \in Seq(RunRecord')
    <3>1. agentRuns = [r \in 1..m |-> agentRuns[r]]
      BY <2>1, LenProperties DEF DeskInductive, ServerFits
    <3>2. agentRuns \in [1..m -> RunRecord']
      BY <2>2, <2>3, <3>1
    <3> QED BY <1>3, <3>2, FunctionSeq
  <2>5. RunsInPlace'
    BY <1>3, <1>4, <2>2 DEF RunsInPlace, RunRecord
  <2> QED BY <1>4, <2>4, <2>5 DEF ServerFits
<1>7. FollowFits'
  BY <1>5, FollowStays DEF DeskInductive, ConversationMade
<1>8. activeConversation' = n + 1 /\ UNCHANGED <<opening, using, clicks, manifest, selected>>
  BY <1>3, <1>4 DEF ConversationMade, AgentUntouched
<1>9. ChoiceFits'
  BY <1>4, <1>5, <1>8 DEF DeskInductive, ChoiceFits, Grows
<1>10. task \in TaskRecord' /\ tasks' \in 0..MaxTasks
  BY <1>5 DEF DeskInductive, TaskFits, TaskRecord, Grows, ConversationMade
<1>011. PICK c \in DOMAIN talks' : c = n + 1 /\ c # 0
  BY <1>4
<1>11. PICK x : x = [task EXCEPT !.stage = "posting", !.talk = c]
  OBVIOUS
<1>12. x \in TaskRecord' /\ x.stage = "posting" /\ x.talk = c
  BY <1>10, <1>11 DEF TaskRecord, TaskStages
<1>13. task' = x
  BY <1>3, <1>4, <1>011, <1>11 DEF ConversationMade
<1> QED BY <1>5, <1>6, <1>7, <1>9, <1>10, <1>011, <1>12, <1>13, TaskMoves

\* The stages of a submission that leave the control plane as it is.
LEMMA TaskSteps ==
  ASSUME DeskInductive, TaskFails \/ MessagePosted \/ TaskOpened \/ TaskListed PROVE DeskInductive'
<1>1. Grows /\ ServerFits' /\ agentRuns' = agentRuns /\ talks' = talks
  BY ServerStays DEF DeskInductive, TaskFails, MessagePosted, TaskOpened, TaskListed, ServerUntouched
<1>2. /\ TaskFits /\ tasks' \in 0..MaxTasks /\ ChoiceFits /\ FollowFits /\ ServerFits
      /\ UNCHANGED <<opening, using, clicks>>
  BY DEF DeskInductive, TaskFits, TaskFails, MessagePosted, TaskOpened, TaskListed
<1>3. CASE TaskFails
  <2>1. FollowFits' /\ ChoiceFits' /\ task' = NoTask
    BY <1>1, <1>2, <1>3, FollowStays, ChoiceStays DEF TaskFails, ChoiceFits
  <2>2. NoTask \in TaskRecord' /\ NoTask.stage = "none"
    BY DEF NoTask, TaskRecord, TaskStages
  <2> QED BY <1>1, <1>2, <2>1, <2>2, TaskMoves
<1>4. CASE MessagePosted
  <2>1. FollowFits' /\ ChoiceFits'
    BY <1>1, <1>2, <1>4, FollowStays, ChoiceStays DEF MessagePosted, ChoiceFits
  <2>2. task \in TaskRecord' /\ task.talk # 0 /\ selected \in Agents \union {None}
    BY <1>1, <1>2, <1>4 DEF TaskFits, TaskRecord, Grows, MessagePosted, ChoiceFits
  <2>3. PICK x : x = IF genericAgent THEN [task EXCEPT !.stage = "starting", !.agent = selected]
                     ELSE [task EXCEPT !.stage = "preparing"]
    OBVIOUS
  <2>4. x \in TaskRecord' /\ x.stage # "creating" /\ x.talk # 0
    <3>1. CASE x = [task EXCEPT !.stage = "starting", !.agent = selected]
      BY <2>2, <3>1 DEF TaskRecord, TaskStages
    <3>2. CASE x = [task EXCEPT !.stage = "preparing"]
      BY <2>2, <3>2 DEF TaskRecord, TaskStages
    <3> QED BY <2>3, <3>1, <3>2
  <2>5. task' = x
    BY <1>4, <2>3 DEF MessagePosted
  <2> QED BY <1>1, <1>2, <2>1, <2>4, <2>5, TaskMoves
<1>5. CASE TaskOpened
  <2>1. "listing" \in TaskStages /\ task.talk # 0 /\ task.talk \in DOMAIN talks
    BY <1>2, <1>5 DEF TaskStages, TaskOpened, TaskFits, TaskRecord
  <2>2. talks[task.talk] \in Agents
    BY <1>2, <2>1, ServerTypes
  <2>3. ChoiceFits'
    BY <1>1, <1>2, <1>5, <2>1, <2>2 DEF ChoiceFits, TaskOpened, Shows, Untouched, AgentUntouched
  <2>4. FollowFits'
    BY <1>1, <1>2, <1>5, FollowStays DEF TaskOpened
  <2>5. PICK x : x = [task EXCEPT !.stage = "listing"]
    OBVIOUS
  <2>6. x \in TaskRecord' /\ x.stage = "listing" /\ x.talk = task.talk /\ task' = x
    BY <1>1, <1>2, <1>5, <2>1, <2>5, StagedTask DEF TaskOpened
  <2> QED BY <1>1, <1>2, <2>1, <2>3, <2>4, <2>6, TaskMoves
<1>6. CASE TaskListed
  <2>1. ChoiceFits' /\ "following" \in TaskStages
    BY <1>1, <1>2, <1>6, ChoiceStays DEF TaskListed, ChoiceFits, TaskStages
  <2>2. CASE task.run = 0
    <3>1. FollowFits' /\ task' = NoTask
      BY <1>1, <1>2, <1>6, <2>2, FollowStays DEF TaskListed
    <3>2. NoTask \in TaskRecord' /\ NoTask.stage = "none"
      BY DEF NoTask, TaskRecord, TaskStages
    <3> QED BY <1>1, <1>2, <2>1, <3>1, <3>2, TaskMoves
  <2>3. CASE task.run # 0
    <3>1. task.run \in DOMAIN agentRuns' /\ followRun(task.run)
      BY <1>1, <1>2, <1>6, <2>3 DEF TaskListed, TaskFits, TaskRecord
    <3>2. FollowFits'
      BY <1>1, <1>2, <2>3, <3>1, FollowRun
    <3>3. PICK x : x = [task EXCEPT !.stage = "following"]
      OBVIOUS
    <3>4. x \in TaskRecord' /\ x.stage = "following" /\ task' = x
      BY <1>1, <1>2, <1>6, <2>1, <2>3, <3>3, StagedTask DEF TaskListed
    <3> QED BY <1>1, <1>2, <2>1, <3>2, <3>4, TaskMoves
  <2> QED BY <2>2, <2>3
<1> QED BY <1>3, <1>4, <1>5, <1>6

\* A run is started: of the conversation's agent, or a plan.
LEMMA StartedStep ==
  ASSUME DeskInductive, NEW agent \in {talks[task.talk], None}, Started(agent), task.stage \in {"starting", "preparing"}
  PROVE  DeskInductive'
<1>1. task.talk \in DOMAIN talks /\ TaskFits /\ ChoiceFits /\ FollowFits
  BY DEF DeskInductive, TaskFits, TaskRecord
<1>2. PICK started : started = [talk |-> task.talk, agent |-> agent, status |-> "queued"]
  OBVIOUS
<1>3. started \in RunRecord /\ started.talk = task.talk /\ started.agent = agent
  BY <1>1, <1>2, ServerTypes DEF DeskInductive, RunRecord, AgentRunStatuses
<1>4. agentRuns' = Append(agentRuns, started) /\ talks' = talks
  BY <1>2 DEF Started
<1>5. PICK n \in Nat : n = Len(agentRuns)
  BY ServerTypes DEF DeskInductive
<1>6. /\ agentRuns' \in Seq(RunRecord) /\ Len(agentRuns') = n + 1 /\ DOMAIN agentRuns' = 1..(n + 1)
      /\ DOMAIN agentRuns = 1..n /\ agentRuns'[n + 1] = started
      /\ \A r \in 1..n : agentRuns'[r] = agentRuns[r]
  BY <1>3, <1>4, <1>5, AppendProperties, LenProperties DEF DeskInductive, ServerFits
<1>7. Grows
  BY <1>4, <1>6 DEF Grows
<1>8. ServerFits'
  <2>1. RunRecord' = RunRecord
    BY <1>4 DEF RunRecord
  <2>2. \A r \in 1..n : agentRuns[r].agent \in {talks[agentRuns[r].talk], None}
    BY <1>6, ServerTypes DEF DeskInductive
  <2>3. RunsInPlace'
    <3> SUFFICES ASSUME NEW r \in 1..(n + 1) PROVE agentRuns'[r].agent \in {talks[agentRuns'[r].talk], None}
      BY <1>4, <1>6 DEF RunsInPlace
    <3>1. CASE r = n + 1
      BY <1>3, <1>6, <3>1
    <3>2. CASE r \in 1..n
      BY <1>6, <2>2, <3>2
    <3> QED BY <3>1, <3>2
  <2> QED BY <1>4, <1>6, <2>1, <2>3 DEF DeskInductive, ServerFits
<1>9. ChoiceFits' /\ tasks' \in 0..MaxTasks
  BY <1>1, <1>7, ChoiceStays DEF Started, ChoiceFits, TaskFits
<1>10. FollowFits'
  BY <1>1, <1>7, FollowStays, FollowLeaves DEF Started
<1>11. task \in TaskRecord' /\ task.talk # 0
  BY <1>1, <1>7 DEF TaskFits, TaskRecord, Grows
<1>012. PICK r \in {0} \union DOMAIN agentRuns' : r = IF agent = None THEN 0 ELSE n + 1
  BY <1>6
<1>12. PICK x : x = [task EXCEPT !.stage = "opening", !.run = r]
  OBVIOUS
<1>13. x \in TaskRecord' /\ x.stage = "opening" /\ x.talk = task.talk
  BY <1>11, <1>12 DEF TaskRecord, TaskStages
<1>14. task' = x \/ task' = NoTask
  BY <1>6, <1>012, <1>12 DEF Started
<1> QED BY <1>7, <1>8, <1>9, <1>10, <1>11, <1>13, <1>14, TaskMoves

LEMMA DeskInductiveStep == ASSUME DeskInductive, [DeskNext]_deskVars PROVE DeskInductive'
<1>1. CASE TaskStep
  <2>1. CASE RunStarted
    BY <2>1, StartedStep DEF RunStarted
  <2>2. CASE QaPrepared
    BY <2>2, StartedStep DEF QaPrepared
  <2> QED BY <1>1, <2>1, <2>2, ConversationMadeStep, TaskSteps DEF TaskStep
<1>2. CASE \E p \in Slots : PollStep(p) \/ cancelShownRun(p)
  BY <1>2, DetailArrivesStep, PollSteps, CancelAnsweredStep, CancelShownRunStep DEF PollStep
<1>3. CASE UNCHANGED deskVars
  BY <1>3
  DEF deskVars, DeskInductive, ServerFits, RunsInPlace, ChoiceFits, FollowFits, TaskFits, RunRecord, Poll, TaskRecord
<1> QED BY <1>1, <1>2, <1>3, SubmitStep, ClickSteps, RunMovesStep DEF DeskNext

\* For any agents, conversations, runs and requests under way, answered in any order or
\* not at all: a run is of the agent of its conversation, whatever was opened while the
\* task was submitted, and the run on the screen, which Cancel would cancel, is the one
\* that is followed (employee-desktop app.ts).
THEOREM DesktopSoundHolds == DeskInit /\ [][DeskNext]_deskVars => []DesktopSound
  BY DeskInductiveInit, DeskInductiveStep, DeskSound, PTL

(***************************************************************************)
(* ConsolePages.  What the steps have in common reads only some facts of a *)
(* page, which the first lemmas establish for each of them.                *)
(***************************************************************************)

\* What a page does with the answers to its lists.
Manners(name, record) ==
  /\ record.takes \in {"latest", "same", "any", "alone"}
  /\ record.fills \in BOOLEAN /\ (record.fills <=> name \in {"tenant", "spending"})
  /\ name \in {"tenant", "bundle"} => record.takes = "any"
  /\ name = "tenant" => record.asks = "idle"
  /\ name \in {"spending", "prices"} => record.takes = "alone" /\ record.asks = "never" /\ record.waits
  /\ name = "picker" => record.takes = "alone"

\* What the calls of a page are like: a call that compares versions has a row, one that
\* changes fields compares, and one that renews its form does so from the form.
CallOf(name, c) ==
  /\ c.after = "renew" => c.from = "form" /\ c.checked = TRUE /\ name \in {"tenant", "structure"}
  /\ c.changes = "fields" => c.checked = TRUE
  /\ c.checked = TRUE => c.from \in {"form", "draft", "row", "chosen"}
  /\ c.checked \in BOOLEAN
  /\ c.from = "draft" => name = "prices"
  /\ name = "prices" => c.after # "reopen"
  /\ name \in {"spending", "prices"} => c.from \in {"form", "draft", "row"}
  /\ name = "tenant" => c.from = "form" /\ c.checked = TRUE

LEMMA PageMannered ==
  ASSUME NEW name \in DOMAIN Pages
  PROVE  Manners(name, Pages[name])
<1>1. name \in {"structure", "members", "path", "jobs", "people", "memberships", "tenant", "domains",
               "organization", "setup", "picker", "governance", "reconciliations", "webhooks",
               "spending", "prices", "agents", "installations", "bundle", "quality", "provisioning"}
  BY DEF Pages
<1>2. CASE name = "structure"
  <2>1. Pages[name] = StructurePage
    BY <1>2 DEF Pages
  <2> QED BY <1>2, <2>1 DEF StructurePage, Page, Manners
<1>3. CASE name = "members"
  <2>1. Pages[name] = UnitMembersPage
    BY <1>3 DEF Pages
  <2> QED BY <1>3, <2>1 DEF UnitMembersPage, Page, Manners
<1>4. CASE name = "path"
  <2>1. Pages[name] = UnitPathPage
    BY <1>4 DEF Pages
  <2> QED BY <1>4, <2>1 DEF UnitPathPage, Page, Manners
<1>5. CASE name = "jobs"
  <2>1. Pages[name] = JobsPage
    BY <1>5 DEF Pages
  <2> QED BY <1>5, <2>1 DEF JobsPage, Page, Manners
<1>6. CASE name = "people"
  <2>1. Pages[name] = PeoplePage
    BY <1>6 DEF Pages
  <2> QED BY <1>6, <2>1 DEF PeoplePage, Page, Manners
<1>7. CASE name = "memberships"
  <2>1. Pages[name] = MembershipsPage
    BY <1>7 DEF Pages
  <2> QED BY <1>7, <2>1 DEF MembershipsPage, Page, Manners
<1>8. CASE name = "tenant"
  <2>1. Pages[name] = TenantPage
    BY <1>8 DEF Pages
  <2> QED BY <1>8, <2>1 DEF TenantPage, Page, Manners
<1>9. CASE name = "domains"
  <2>1. Pages[name] = DomainsPage
    BY <1>9 DEF Pages
  <2> QED BY <1>9, <2>1 DEF DomainsPage, Page, Manners
<1>10. CASE name = "organization"
  <2>1. Pages[name] = MembersPage
    BY <1>10 DEF Pages
  <2> QED BY <1>10, <2>1 DEF MembersPage, Page, Manners
<1>11. CASE name = "setup"
  <2>1. Pages[name] = SetupPage
    BY <1>11 DEF Pages
  <2> QED BY <1>11, <2>1 DEF SetupPage, Page, Manners
<1>12. CASE name = "picker"
  <2>1. Pages[name] = PickerPage
    BY <1>12 DEF Pages
  <2> QED BY <1>12, <2>1 DEF PickerPage, Page, Manners
<1>13. CASE name = "governance"
  <2>1. Pages[name] = GovernancePage
    BY <1>13 DEF Pages
  <2> QED BY <1>13, <2>1 DEF GovernancePage, Page, Manners
<1>14. CASE name = "reconciliations"
  <2>1. Pages[name] = ReconciliationsPage
    BY <1>14 DEF Pages
  <2> QED BY <1>14, <2>1 DEF ReconciliationsPage, Page, Manners
<1>15. CASE name = "webhooks"
  <2>1. Pages[name] = WebhooksPage
    BY <1>15 DEF Pages
  <2> QED BY <1>15, <2>1 DEF WebhooksPage, Page, Manners
<1>16. CASE name = "spending"
  <2>1. Pages[name] = SpendingPage
    BY <1>16 DEF Pages
  <2> QED BY <1>16, <2>1 DEF SpendingPage, Page, Manners
<1>17. CASE name = "prices"
  <2>1. Pages[name] = PricesPage
    BY <1>17 DEF Pages
  <2> QED BY <1>17, <2>1 DEF PricesPage, Page, Manners
<1>18. CASE name = "agents"
  <2>1. Pages[name] = AgentsPage
    BY <1>18 DEF Pages
  <2> QED BY <1>18, <2>1 DEF AgentsPage, Page, Manners
<1>19. CASE name = "installations"
  <2>1. Pages[name] = InstallationsPage
    BY <1>19 DEF Pages
  <2> QED BY <1>19, <2>1 DEF InstallationsPage, Page, Manners
<1>20. CASE name = "bundle"
  <2>1. Pages[name] = BundlePage
    BY <1>20 DEF Pages
  <2> QED BY <1>20, <2>1 DEF BundlePage, Page, Manners
<1>21. CASE name = "quality"
  <2>1. Pages[name] = QualityPage
    BY <1>21 DEF Pages
  <2> QED BY <1>21, <2>1 DEF QualityPage, Page, Manners
<1>22. CASE name = "provisioning"
  <2>1. Pages[name] = ProvisioningPage
    BY <1>22 DEF Pages
  <2> QED BY <1>22, <2>1 DEF ProvisioningPage, Page, Manners
<1> QED
  BY <1>1, <1>2, <1>3, <1>4, <1>5, <1>6, <1>7, <1>8, <1>9, <1>10, <1>11, <1>12,
     <1>13, <1>14, <1>15, <1>16, <1>17, <1>18, <1>19, <1>20, <1>21, <1>22

\* The calls a page may make.
LEMMA KindsOfCalls ==
  /\ \A c \in {Create, CreateForm, OnRow, OnRowChecked, OnChosen(FALSE), OnChosen(TRUE), NewAgents, SaveBeside("reopen"),
               Call("form", FALSE, "rest", "keep")} :
       /\ c.after # "renew" /\ c.changes = "rest" /\ c.from # "draft" /\ c.checked \in BOOLEAN
       /\ c.checked = TRUE => c.from \in {"form", "row", "chosen"}
  /\ SaveForm.after = "reopen" /\ SaveForm.checked = TRUE /\ SaveForm.from = "form"
  /\ SaveBeside("renew").checked = TRUE /\ SaveBeside("renew").from = "form" /\ SaveBeside("renew").changes = "rest"
  /\ SaveProfile.checked = TRUE /\ SaveProfile.from = "form"
  /\ SavePrice.after = "close" /\ SavePrice.checked = TRUE /\ SavePrice.from = "draft"
  /\ OnRow.from = "row" /\ OnRowChecked.from = "row" /\ OnRowChecked.after = "keep"
  BY DEF Call, Create, CreateForm, SaveForm, SaveBeside, SaveProfile, SavePrice, OnRow, OnRowChecked, OnChosen, NewAgents

LEMMA CallsOfPage ==
  ASSUME NEW name \in DOMAIN Pages, NEW c \in Pages[name].calls
  PROVE  CallOf(name, c)
<1>1. name \in {"structure", "members", "path", "jobs", "people", "memberships", "tenant", "domains",
               "organization", "setup", "picker", "governance", "reconciliations", "webhooks",
               "spending", "prices", "agents", "installations", "bundle", "quality", "provisioning"}
  BY DEF Pages
<1>2. CASE name = "structure"
  <2>1. c \in {CreateForm, SaveForm, OnChosen(TRUE), SaveBeside("renew")}
    BY <1>2 DEF Pages, StructurePage, Page
  <2> QED BY <1>2, <2>1, KindsOfCalls DEF CallOf
<1>3. CASE name = "members"
  <2>1. c \in {Create, OnChosen(FALSE)}
    BY <1>3 DEF Pages, UnitMembersPage, Page
  <2> QED BY <1>3, <2>1, KindsOfCalls DEF CallOf
<1>4. CASE name = "path"
  <2>1. c \in {}
    BY <1>4 DEF Pages, UnitPathPage, Page
  <2> QED BY <1>4, <2>1, KindsOfCalls DEF CallOf
<1>5. CASE name = "jobs"
  <2>1. c \in {CreateForm, SaveForm, OnChosen(TRUE)}
    BY <1>5 DEF Pages, JobsPage, Page
  <2> QED BY <1>5, <2>1, KindsOfCalls DEF CallOf
<1>6. CASE name = "people"
  <2>1. c \in {CreateForm, SaveForm, SaveBeside("reopen"), Call("form", FALSE, "rest", "keep")}
    BY <1>6 DEF Pages, PeoplePage, Page
  <2> QED BY <1>6, <2>1, KindsOfCalls DEF CallOf
<1>7. CASE name = "memberships"
  <2>1. c \in {OnRowChecked}
    BY <1>7 DEF Pages, MembershipsPage, Page
  <2> QED BY <1>7, <2>1, KindsOfCalls DEF CallOf
<1>8. CASE name = "tenant"
  <2>1. c \in {SaveProfile}
    BY <1>8 DEF Pages, TenantPage, Page
  <2> QED BY <1>8, <2>1, KindsOfCalls DEF CallOf
<1>9. CASE name = "domains"
  <2>1. c \in {Create, OnRow}
    BY <1>9 DEF Pages, DomainsPage, Page
  <2> QED BY <1>9, <2>1, KindsOfCalls DEF CallOf
<1>10. CASE name = "organization"
  <2>1. c \in {Create, OnRow}
    BY <1>10 DEF Pages, MembersPage, Page
  <2> QED BY <1>10, <2>1, KindsOfCalls DEF CallOf
<1>11. CASE name = "setup"
  <2>1. c \in {}
    BY <1>11 DEF Pages, SetupPage, Page
  <2> QED BY <1>11, <2>1, KindsOfCalls DEF CallOf
<1>12. CASE name = "picker"
  <2>1. c \in {}
    BY <1>12 DEF Pages, PickerPage, Page
  <2> QED BY <1>12, <2>1, KindsOfCalls DEF CallOf
<1>13. CASE name = "governance"
  <2>1. c \in {Create, OnRowChecked, OnRow}
    BY <1>13 DEF Pages, GovernancePage, Page
  <2> QED BY <1>13, <2>1, KindsOfCalls DEF CallOf
<1>14. CASE name = "reconciliations"
  <2>1. c \in {OnChosen(TRUE)}
    BY <1>14 DEF Pages, ReconciliationsPage, Page
  <2> QED BY <1>14, <2>1, KindsOfCalls DEF CallOf
<1>15. CASE name = "webhooks"
  <2>1. c \in {Create, OnRowChecked, OnRow}
    BY <1>15 DEF Pages, WebhooksPage, Page
  <2> QED BY <1>15, <2>1, KindsOfCalls DEF CallOf
<1>16. CASE name = "spending"
  <2>1. c \in {SaveForm, OnRow}
    BY <1>16 DEF Pages, SpendingPage, Page
  <2> QED BY <1>16, <2>1, KindsOfCalls DEF CallOf
<1>17. CASE name = "prices"
  <2>1. c \in {SavePrice, OnRowChecked}
    BY <1>17 DEF Pages, PricesPage, Page
  <2> QED BY <1>17, <2>1, KindsOfCalls DEF CallOf
<1>18. CASE name = "agents"
  <2>1. c \in {NewAgents}
    BY <1>18 DEF Pages, AgentsPage, Page
  <2> QED BY <1>18, <2>1, KindsOfCalls DEF CallOf
<1>19. CASE name = "installations"
  <2>1. c \in {Create, OnRowChecked}
    BY <1>19 DEF Pages, InstallationsPage, Page
  <2> QED BY <1>19, <2>1, KindsOfCalls DEF CallOf
<1>20. CASE name = "bundle"
  <2>1. c \in {}
    BY <1>20 DEF Pages, BundlePage, Page
  <2> QED BY <1>20, <2>1, KindsOfCalls DEF CallOf
<1>21. CASE name = "quality"
  <2>1. c \in {}
    BY <1>21 DEF Pages, QualityPage, Page
  <2> QED BY <1>21, <2>1, KindsOfCalls DEF CallOf
<1>22. CASE name = "provisioning"
  <2>1. c \in {OnRow}
    BY <1>22 DEF Pages, ProvisioningPage, Page
  <2> QED BY <1>22, <2>1, KindsOfCalls DEF CallOf
<1> QED
  BY <1>1, <1>2, <1>3, <1>4, <1>5, <1>6, <1>7, <1>8, <1>9, <1>10, <1>11, <1>12,
     <1>13, <1>14, <1>15, <1>16, <1>17, <1>18, <1>19, <1>20, <1>21, <1>22

LEMMA ThisPage ==
  ASSUME PagesTypeOK
  PROVE  Manners(page, This) /\ \A c \in This.calls : CallOf(page, c)
<1>1. page \in DOMAIN Pages
  BY PagesAssumption DEF PagesTypeOK
<1> QED BY <1>1, PageMannered, CallsOfPage DEF This

-----------------------------------------------------------------------------
(* The inductive invariant.  A row is compared by its version, so a row of *)
(* the stored version holds no field older than another administrator's    *)
(* last change.  Lists are told apart by their revision.                   *)
StoredFits == stored.others <= stored.fields /\ stored.fields <= stored.version

FitsWith(row, record) ==
  row # None => row.version <= record.version /\ (row.version = record.version => row.fields >= record.others)

RowFits(row) == FitsWith(row, stored)

PageRowsFit ==
  /\ RowFits(shown) /\ RowFits(edited) /\ RowFits(chosen)
  /\ \A l \in loads : RowFits(l.row)
  /\ call # None => RowFits(call.gives) /\ (page # "prices" => RowFits(call.row))

LoadFits(l) ==
  /\ l.revision <= revision
  /\ l.state = "read" => l.row \in Row /\ l.row.of = l.of
  /\ This.takes = "alone" => l.revision = revision /\ loading
  /\ This.takes # "any" /\ Takes(l) => l.of = filter

\* A list that the page will show is under way.
Awaited == \E l \in loads : Takes(l)

LoadsFit ==
  /\ revision \in 1..MaxLoads /\ filter \in Filters
  /\ \A l, m \in loads : l.revision = m.revision => l = m
  /\ \A l \in loads : LoadFits(l)
  /\ page = "tenant" => \A l, m \in loads : l = m /\ loading
  /\ This.takes # "any" => Awaited \/ missed \/ (shown \in Row /\ shown.of = filter)
  /\ This.takes \in {"latest", "alone"} => (loading <=> \E l \in loads : l.revision = revision)

\* The pages that show a change of their own.
Own == This.takes = "latest" \/ page \in {"spending", "prices"}

OwnFits ==
  /\ mine \in 1..MaxVersions /\ mine <= stored.version
  /\ Own => \A l \in loads : Takes(l) /\ l.state = "read" => l.row.version >= mine
  /\ Own => Awaited \/ missed \/ (shown \in Row /\ shown.version >= mine)
  /\ page \in {"spending", "prices"} /\ loading =>
       \/ shown = None /\ edited = None /\ call = None
       \/ call # None /\ call.state = "listed" /\ call.list = revision

CallStands ==
  /\ busy <=> call # None
  /\ call # None =>
       /\ call.what \in This.calls
       /\ call.state # "listed" => revision < MaxLoads
       /\ call.what.from \in {"form", "draft", "row", "chosen"} => call.row \in Row
       /\ call.state = "made" /\ call.what # NewAgents => call.gives \in Row
  /\ page = "prices" /\ edited # None => shown # None

\* A form whose version is renewed with what the change gave.
RenewFits ==
  /\ call # None /\ call.what.after = "renew" /\ call.state \in {"sent", "made"} =>
       /\ edited \in Row
       /\ call.state = "sent" /\ call.row.version = stored.version => edited.fields >= stored.others
       /\ call.state = "made" /\ call.gives.version = stored.version => edited.fields >= stored.others
  /\ page = "tenant" =>
       \A l \in loads : l.state = "read" /\ l.row.fields < stored.others =>
         /\ edited # None => edited.version # stored.version
         /\ call # None => /\ call.row # None => call.row.version # stored.version
                           /\ call.gives # None => call.gives.version # stored.version

Batch == [request : Nat, edit : 1..MaxEdits, made : BOOLEAN]

BatchesFit ==
  /\ IsFiniteSet(batches) /\ batches \subseteq Batch
  /\ \A b \in batches : b.edit <= settings.edit
  /\ \A b, c \in batches : b.edit = c.edit => b = c
  /\ \A b \in batches : b.edit = settings.edit => SameAttempt

PagesInductive ==
  /\ PagesTypeOK /\ StoredFits /\ PageRowsFit /\ LoadsFit /\ OwnFits /\ CallStands /\ RenewFits /\ BatchesFit

LEMMA PageBounds ==
  /\ MaxVersions \in Nat \ {0} /\ MaxLoads \in Nat \ {0} /\ MaxEdits \in Nat \ {0}
  /\ None \notin Row /\ None \notin Sent /\ None \notin Attempt
  BY PagesAssumption, PageValues

\* Which answers a page takes.
LEMMA WhichAreTaken ==
  ASSUME NEW l
  PROVE  /\ This.takes = "latest" => (Takes(l) <=> l.revision = revision)
         /\ This.takes = "same" => (Takes(l) <=> l.of = filter)
         /\ This.takes \in {"any", "alone"} => Takes(l)
  BY DEF Takes

LEMMA PagesSoundOfInductive == ASSUME PagesInductive PROVE PagesSound
<1>1. ShowsWhatIsAsked
  BY PageBounds DEF PagesInductive, LoadsFit, Awaited, ShowsWhatIsAsked
<1>2. LoadingShown
  BY DEF PagesInductive, LoadsFit, LoadingShown, PagesTypeOK
<1>3. OwnChangeShown
  BY DEF PagesInductive, OwnFits, Own, Awaited, OwnChangeShown
<1>4. RetriesOnce
  BY DEF PagesInductive, BatchesFit, RetriesOnce
<1> QED BY <1>1, <1>2, <1>3, <1>4 DEF PagesInductive, PagesSound

LEMMA FreshRow ==
  ASSUME PagesTypeOK, StoredFits, NEW f \in Filters
  PROVE  /\ RowOf(stored, f) \in Row /\ RowFits(RowOf(stored, f)) /\ RowOf(stored, f).of = f
         /\ RowOf(stored, f).version = stored.version /\ RowOf(stored, f).fields = stored.fields
<1>1. RowOf(stored, f) = [of |-> f, version |-> stored.version, fields |-> stored.fields]
  BY DEF RowOf
<1>2. stored.version \in 1..MaxVersions /\ stored.fields \in 1..MaxVersions /\ stored.others \in 1..MaxVersions
  BY DEF PagesTypeOK
<1> QED BY <1>1, <1>2, PageBounds DEF Row, RowFits, FitsWith, StoredFits

LEMMA PagesInductiveInit == ASSUME PagesInit PROVE PagesInductive
<1> DEFINE l == Asked(filter, 1)
<1>1. filter \in Filters /\ settings.as \in Settings /\ settings = [as |-> settings.as, edit |-> 1]
  BY PagesAssumption DEF PagesInit
<1>2. l \in Get /\ l.revision = 1 /\ l.state = "asked" /\ l.of = filter /\ l.row = None
  BY <1>1, PageBounds DEF Asked, Get
<1>3. loads = {l} /\ revision = 1 /\ loading = TRUE /\ busy = FALSE /\ missed = FALSE /\ page \in PageNames
      /\ shown = None /\ edited = None /\ chosen = None /\ call = None /\ mine = 1 /\ pending = None /\ batches = {}
      /\ stored = [version |-> 1, fields |-> 1, others |-> 1]
  BY DEF PagesInit
<1> HIDE DEF l
<1>4. PagesTypeOK
  <2>1. 1 \in 1..MaxVersions /\ 1 \in 1..MaxEdits
    BY PageBounds
  <2>2. stored \in [version : 1..MaxVersions, fields : 1..MaxVersions, others : 1..MaxVersions]
    BY <1>3, <2>1
  <2>3. settings \in Filled
    BY <1>1, <2>1 DEF Filled
  <2> QED BY <1>2, <1>3, <2>2, <2>3 DEF PagesTypeOK
<1>5. StoredFits /\ PageRowsFit
  BY <1>2, <1>3 DEF StoredFits, PageRowsFit, RowFits, FitsWith
<1>6. Takes(l)
  BY <1>2, <1>3, <1>4, WhichAreTaken, ThisPage DEF Manners
<1>7. LoadsFit
  BY <1>1, <1>2, <1>3, <1>6, PageBounds DEF LoadsFit, LoadFits, Awaited
<1>8. OwnFits /\ CallStands /\ RenewFits
  BY <1>2, <1>3, <1>6, PageBounds DEF OwnFits, CallStands, RenewFits, Awaited
<1>9. BatchesFit
  BY <1>3, FS_EmptySet DEF BatchesFit
<1> QED BY <1>4, <1>5, <1>7, <1>8, <1>9 DEF PagesInductive

\* What the invariant says of single values.
LEMMA PageTypes ==
  ASSUME PagesTypeOK
  PROVE  /\ page \in PageNames /\ shown \in Row \union {None} /\ edited \in Row \union {None} /\ chosen \in Row \union {None}
         /\ loads \subseteq Get /\ \A l \in loads : l.row \in Row \union {None} /\ l.of \in Filters /\ l.revision \in 1..MaxLoads
         /\ call # None => call \in Sent /\ call.row \in Row \union {None} /\ call.gives \in Row \union {None}
                           /\ call.of \in Filters
         /\ loading \in BOOLEAN /\ busy \in BOOLEAN /\ missed \in BOOLEAN
         /\ settings \in Filled /\ pending \in Attempt \union {None}
         /\ stored \in [version : 1..MaxVersions, fields : 1..MaxVersions, others : 1..MaxVersions]
  BY DEF PagesTypeOK, Get, Sent

LEMMA PagesTyped ==
  ASSUME page \in PageNames, shown \in Row \union {None}, edited \in Row \union {None}, chosen \in Row \union {None},
         loads \subseteq Get, call \in Sent \union {None}, loading \in BOOLEAN, busy \in BOOLEAN, missed \in BOOLEAN,
         settings \in Filled, pending \in Attempt \union {None},
         stored \in [version : 1..MaxVersions, fields : 1..MaxVersions, others : 1..MaxVersions]
  PROVE  PagesTypeOK
  BY DEF PagesTypeOK

\* A later record: the rows of the one before are older.
LEMMA LaterRecord ==
  ASSUME NEW record \in [version : 1..MaxVersions, fields : 1..MaxVersions, others : 1..MaxVersions],
         NEW later \in [version : 1..MaxVersions, fields : 1..MaxVersions, others : 1..MaxVersions],
         later = record \/ later.version > record.version,
         NEW row \in Row \union {None}, FitsWith(row, record)
  PROVE  FitsWith(row, later)
<1>1. row # None => row.version \in Int
  BY PageBounds DEF Row
<1>2. record.version \in Int /\ later.version \in Int
  BY PageBounds
<1> QED BY <1>1, <1>2 DEF FitsWith

-----------------------------------------------------------------------------
(* Steps that leave the lists alone.                                       *)

LEMMA ListsStay ==
  ASSUME LoadsFit, UNCHANGED <<page, filter, shown, revision, loads, loading, missed>>
  PROVE  /\ LoadsFit' /\ This' = This /\ (Awaited' <=> Awaited) /\ (Own' <=> Own)
         /\ \A l : Takes(l)' <=> Takes(l)
  BY DEF LoadsFit, This, LoadFits, Awaited, Own, Takes

LEMMA BatchesStay ==
  ASSUME BatchesFit, AgentUnchanged PROVE BatchesFit'
  BY DEF BatchesFit, AgentUnchanged, SameAttempt

LEMMA ChangedElsewhereStep == ASSUME PagesInductive, ChangedElsewhere PROVE PagesInductive'
<1>1. /\ PagesTypeOK /\ StoredFits /\ PageRowsFit /\ LoadsFit /\ OwnFits /\ CallStands /\ RenewFits /\ BatchesFit
      /\ UNCHANGED <<page, mine, filter, shown, revision, loads, loading, busy, call, missed, edited, chosen>>
      /\ AgentUnchanged
  BY DEF PagesInductive, ChangedElsewhere, FormUnchanged
<1> DEFINE Record == [version : 1..MaxVersions, fields : 1..MaxVersions, others : 1..MaxVersions]
<1>2. PICK old \in Record : old = stored
  BY <1>1 DEF PagesTypeOK
<1>3. PICK v \in 1..MaxVersions : v = old.version + 1
  BY <1>2, PageBounds DEF ChangedElsewhere
<1>4. stored' \in {[old EXCEPT !.version = v], [version |-> v, fields |-> v, others |-> v]}
  BY <1>2, <1>3 DEF ChangedElsewhere
<1>5. stored' \in Record /\ stored'.version = v /\ v > old.version /\ stored'.others <= stored'.fields /\ stored'.fields <= v
  BY <1>1, <1>2, <1>3, <1>4, PageBounds DEF StoredFits
<1>6. PagesTypeOK'
  BY <1>1, <1>5 DEF PagesTypeOK, AgentUnchanged
<1>7. StoredFits'
  BY <1>5 DEF StoredFits
<1>8. \A row \in Row \union {None} : RowFits(row) => FitsWith(row, stored')
  BY <1>2, <1>5, LaterRecord DEF RowFits
<1>9. PageRowsFit'
  BY <1>1, <1>8, PageTypes DEF PageRowsFit, RowFits
<1>10. LoadsFit' /\ This' = This /\ (Awaited' <=> Awaited) /\ (Own' <=> Own) /\ \A l : Takes(l)' <=> Takes(l)
  BY <1>1, ListsStay
<1>11. mine <= stored'.version
  BY <1>1, <1>2, <1>3, <1>5, PageBounds DEF OwnFits
<1>12. OwnFits'
  BY <1>1, <1>10, <1>11 DEF OwnFits
<1>13. CallStands'
  BY <1>1, <1>10 DEF CallStands
<1>14. \A row \in Row \union {None} : RowFits(row) /\ row # None => row.version # stored'.version
  BY <1>2, <1>3, <1>5, PageBounds DEF RowFits, FitsWith, Row
<1>15. RenewFits'
  <2>1. ASSUME call # None, call.what.after = "renew", call.state \in {"sent", "made"}
        PROVE  /\ edited \in Row
               /\ call.state = "sent" => call.row.version # stored'.version
               /\ call.state = "made" => call.gives.version # stored'.version
    <3>1. call.what \in This.calls /\ CallOf(page, call.what)
      BY <1>1, <2>1, ThisPage DEF CallStands
    <3>2. call.what.from = "form" /\ page # "prices"
      BY <2>1, <3>1 DEF CallOf
    <3>3. call.row \in Row /\ RowFits(call.row)
      BY <1>1, <2>1, <3>2 DEF CallStands, PageRowsFit
    <3>4. call.state = "made" => call.gives \in Row /\ RowFits(call.gives)
      <4>1. NewAgents.after # "renew"
        BY KindsOfCalls
      <4> QED BY <1>1, <2>1, <4>1 DEF CallStands, PageRowsFit
    <3>5. edited \in Row
      BY <1>1, <2>1 DEF RenewFits
    <3> QED BY <1>14, <3>3, <3>4, <3>5, PageBounds
  <2>2. ASSUME page = "tenant"
        PROVE  /\ edited # None => edited.version # stored'.version
               /\ call # None => /\ call.row # None => call.row.version # stored'.version
                                 /\ call.gives # None => call.gives.version # stored'.version
    BY <1>1, <1>14, <2>2, PageTypes DEF PageRowsFit
  <2> QED BY <1>1, <2>1, <2>2 DEF RenewFits
<1>16. BatchesFit'
  BY <1>1, BatchesStay
<1> QED BY <1>6, <1>7, <1>9, <1>10, <1>12, <1>13, <1>15, <1>16 DEF PagesInductive

\* A row is opened or set aside while no call is under way.
LEMMA FormStep ==
  ASSUME PagesInductive, ~busy, shown # None,
         edited' = edited \/ (page # "tenant" /\ edited' \in {shown, None}), chosen' \in {chosen, shown, None},
         UNCHANGED <<filter, shown, revision, loads, loading, busy, call, missed>>, ServerUnchanged, AgentUnchanged
  PROVE  PagesInductive'
<1>1. /\ PagesTypeOK /\ StoredFits /\ PageRowsFit /\ LoadsFit /\ OwnFits /\ CallStands /\ RenewFits /\ BatchesFit
      /\ UNCHANGED <<page, stored, mine>> /\ call = None
  BY DEF PagesInductive, ServerUnchanged, CallStands
<1>2. edited' \in Row \union {None} /\ chosen' \in Row \union {None}
  BY <1>1, PageTypes
<1>3. PagesTypeOK'
  BY <1>1, <1>2 DEF PagesTypeOK, AgentUnchanged
<1>4. StoredFits'
  BY <1>1 DEF StoredFits
<1>5. PageRowsFit'
  BY <1>1 DEF PageRowsFit, RowFits, FitsWith
<1>6. LoadsFit' /\ This' = This /\ (Awaited' <=> Awaited) /\ (Own' <=> Own) /\ \A l : Takes(l)' <=> Takes(l)
  BY <1>1, ListsStay
<1>7. OwnFits'
  BY <1>1, <1>6 DEF OwnFits
<1>8. CallStands'
  BY <1>1, <1>6 DEF CallStands
<1>9. RenewFits'
  BY <1>1 DEF RenewFits
<1>10. BatchesFit'
  BY <1>1, BatchesStay
<1> QED BY <1>3, <1>4, <1>5, <1>6, <1>7, <1>8, <1>9, <1>10 DEF PagesInductive

LEMMA EditStep == ASSUME PagesInductive, Edit \/ Choose PROVE PagesInductive'
<1>1. CASE Edit
  <2>1. page # "tenant"
    BY <1>1, ThisPage DEF PagesInductive, Edit, Manners
  <2>2. edited' \in {shown, None} /\ chosen' \in {chosen, None}
    BY <1>1 DEF Edit
  <2> QED BY <1>1, <2>1, <2>2, FormStep DEF Edit
<1>2. CASE Choose
  BY <1>2, FormStep DEF Choose
<1> QED BY <1>1, <1>2

\* A call that is sent: nothing else changes.
LEMMA SentStep ==
  ASSUME PagesInductive, ~busy, revision < MaxLoads, NEW c \in This.calls, NEW row \in Row \union {None},
         c.from \in {"form", "draft", "row", "chosen"} => row \in Row,
         c.from = "form" => row = edited,
         page # "prices" => RowFits(row),
         page \in {"spending", "prices"} => ~loading \/ shown # None \/ edited # None,
         busy' = TRUE, call' = SentAs(c, row),
         UNCHANGED <<filter, shown, revision, loads, loading, missed>>, FormUnchanged, ServerUnchanged,
         pending' \in Attempt \union {None}, settings' = settings, BatchesFit'
  PROVE  PagesInductive'
<1>1. /\ PagesTypeOK /\ StoredFits /\ PageRowsFit /\ LoadsFit /\ OwnFits /\ CallStands /\ RenewFits
      /\ UNCHANGED <<page, stored, mine, edited, chosen>> /\ call = None
  BY DEF PagesInductive, ServerUnchanged, FormUnchanged, CallStands
<1>2. SentAs(c, row) = [what |-> c, row |-> row, of |-> filter, state |-> "sent", gives |-> None, list |-> 0]
  BY DEF SentAs
<1>3. c \in UNION {Pages[p].calls : p \in PageNames} /\ 0 \in 0..MaxLoads /\ filter \in Filters
  BY <1>1, PageBounds DEF PagesTypeOK, This, LoadsFit
<1>4. /\ call' \in Sent /\ call'.what = c /\ call'.row = row /\ call'.state = "sent" /\ call'.gives = None /\ call' # None
  BY <1>2, <1>3, PageBounds DEF Sent
<1>5. PagesTypeOK'
  BY <1>1, <1>4 DEF PagesTypeOK
<1>6. StoredFits'
  BY <1>1 DEF StoredFits
<1>7. PageRowsFit'
  BY <1>1, <1>4 DEF PageRowsFit, RowFits, FitsWith
<1>8. LoadsFit' /\ This' = This /\ (Awaited' <=> Awaited) /\ (Own' <=> Own) /\ \A l : Takes(l)' <=> Takes(l)
  BY <1>1, ListsStay
<1>9. OwnFits'
  <2>1. page \in {"spending", "prices"} => ~loading
    BY <1>1 DEF OwnFits
  <2> QED BY <1>1, <1>8, <2>1 DEF OwnFits
<1>10. CallStands'
  BY <1>1, <1>4, <1>8 DEF CallStands
<1>11. CallOf(page, c)
  BY <1>1, ThisPage
<1>12. RenewFits'
  <2>1. c.after = "renew" => /\ edited \in Row
                             /\ row.version = stored.version => edited.fields >= stored.others
    BY <1>1, <1>11, PageBounds DEF CallOf, PageRowsFit, RowFits, FitsWith
  <2>2. page = "tenant" => row = edited
    BY <1>11 DEF CallOf
  <2> QED BY <1>1, <1>4, <2>1, <2>2 DEF RenewFits
<1> QED BY <1>5, <1>6, <1>7, <1>8, <1>9, <1>10, <1>12 DEF PagesInductive

LEMMA SendStep == ASSUME PagesInductive, NEW c \in This.calls \ {NewAgents}, Send(c) PROVE PagesInductive'
<1>1. PagesTypeOK /\ PageRowsFit /\ CallStands /\ CallOf(page, c) /\ BatchesFit
  BY ThisPage DEF PagesInductive
<1>2. PICK row : row = RowFor(c)
  OBVIOUS
<1>3. c.from \in {"form", "chosen", "row", "draft"} \/ row = None
  BY <1>2 DEF RowFor
<1>4. CASE c.from \in {"form", "chosen", "row"}
  <2>1. row \in {edited, chosen, shown} /\ (c.from = "form" => row = edited)
    BY <1>2, <1>4 DEF RowFor
  <2>2. row \in Row \union {None} /\ RowFits(row)
    BY <1>1, <2>1, PageTypes DEF PageRowsFit
  <2>3. row # None
    BY <1>2, <1>4 DEF Send
  <2>4. page \in {"spending", "prices"} => ~loading \/ shown # None \/ edited # None
    BY <1>1, <1>2, <1>4, <2>3 DEF RowFor, CallOf
  <2>5. BatchesFit' /\ pending' = pending /\ settings' = settings
    BY <1>1, BatchesStay DEF Send, AgentUnchanged
  <2> QED BY <1>1, <1>2, <2>1, <2>2, <2>3, <2>4, <2>5, SentStep, PageTypes DEF Send
<1>5. CASE c.from = "draft"
  <2>1. page = "prices" /\ row # None
    BY <1>1, <1>2, <1>5 DEF CallOf, Send
  <2>2. edited # None
    BY <1>2, <1>5, <2>1 DEF RowFor
  <2>3. edited \in Row /\ shown \in Row
    BY <1>1, <2>1, <2>2, PageTypes DEF CallStands
  <2>4. row = [edited EXCEPT !.version = shown.version]
    BY <1>2, <1>5, <2>2 DEF RowFor
  <2>5. row \in Row
    BY <2>3, <2>4 DEF Row
  <2>6. BatchesFit' /\ pending' = pending /\ settings' = settings
    BY <1>1, BatchesStay DEF Send, AgentUnchanged
  <2> QED BY <1>1, <1>2, <1>5, <2>1, <2>2, <2>5, <2>6, SentStep, PageTypes DEF Send
<1>6. CASE row = None /\ c.from \notin {"form", "chosen", "row", "draft"}
  <2>1. page \notin {"spending", "prices"}
    BY <1>1, <1>6 DEF CallOf
  <2>2. RowFits(row)
    BY <1>6 DEF RowFits, FitsWith
  <2>3. BatchesFit' /\ pending' = pending /\ settings' = settings
    BY <1>1, BatchesStay DEF Send, AgentUnchanged
  <2> QED BY <1>1, <1>2, <1>6, <2>1, <2>2, <2>3, SentStep, PageTypes DEF Send
<1> QED BY <1>3, <1>4, <1>5, <1>6

LEMMA DeclinesStep == ASSUME PagesInductive, Declines PROVE PagesInductive'
<1>1. /\ PagesTypeOK /\ StoredFits /\ PageRowsFit /\ LoadsFit /\ OwnFits /\ CallStands /\ RenewFits /\ BatchesFit
      /\ UNCHANGED <<page, stored, mine, edited, chosen, filter, shown, revision, loads, loading, busy, missed>>
      /\ AgentUnchanged /\ call \in Sent /\ call # None /\ call.state = "sent"
  BY PageTypes DEF PagesInductive, Declines, OnItsWay, ServerUnchanged, FormUnchanged
<1>2. /\ call' \in Sent /\ call'.what = call.what /\ call'.row = call.row /\ call'.gives = call.gives
      /\ call'.state = "failed" /\ call' # None
  BY <1>1, PageBounds DEF Declines, Sent
<1>3. PagesTypeOK'
  BY <1>1, <1>2 DEF PagesTypeOK, AgentUnchanged
<1>4. StoredFits'
  BY <1>1 DEF StoredFits
<1>5. PageRowsFit'
  BY <1>1, <1>2 DEF PageRowsFit, RowFits, FitsWith
<1>6. LoadsFit' /\ This' = This /\ (Awaited' <=> Awaited) /\ (Own' <=> Own) /\ \A l : Takes(l)' <=> Takes(l)
  BY <1>1, ListsStay
<1>7. OwnFits'
  BY <1>1, <1>2, <1>6 DEF OwnFits
<1>8. CallStands'
  BY <1>1, <1>2, <1>6 DEF CallStands
<1>9. RenewFits'
  BY <1>1, <1>2 DEF RenewFits
<1>10. BatchesFit'
  BY <1>1, BatchesStay
<1> QED BY <1>3, <1>4, <1>5, <1>6, <1>7, <1>8, <1>9, <1>10 DEF PagesInductive

-----------------------------------------------------------------------------
(* The settings of new agents, and the attempts.                           *)

\* What only a page of new agents changes.
LEMMA FillStep == ASSUME PagesInductive, Fill PROVE PagesInductive'
<1>1. /\ PagesTypeOK /\ StoredFits /\ PageRowsFit /\ LoadsFit /\ OwnFits /\ CallStands /\ RenewFits /\ BatchesFit
      /\ UNCHANGED <<page, stored, mine, edited, chosen, batches, filter, shown, revision, loads, loading, busy, call, missed>>
  BY DEF PagesInductive, Fill, ServerUnchanged, FormUnchanged
<1>2. PICK as \in Settings : settings' = [as |-> as, edit |-> settings.edit + 1]
  BY DEF Fill
<1>3. settings.edit \in 1..MaxEdits /\ settings.edit < MaxEdits
  BY <1>1, PageTypes DEF Fill, Filled
<1>4. settings' \in Filled /\ settings'.edit = settings.edit + 1
  <2>1. PICK e \in 1..MaxEdits : e = settings.edit + 1
    BY <1>3, PageBounds
  <2>2. settings' = [as |-> as, edit |-> e]
    BY <1>2, <2>1
  <2> QED BY <2>1, <2>2 DEF Filled
<1>5. PagesTypeOK'
  BY <1>1, <1>4, PageTypes DEF PagesTypeOK, Fill
<1>6. StoredFits'
  BY <1>1 DEF StoredFits
<1>7. PageRowsFit'
  BY <1>1 DEF PageRowsFit, RowFits, FitsWith
<1>8. LoadsFit' /\ This' = This /\ (Awaited' <=> Awaited) /\ (Own' <=> Own) /\ \A l : Takes(l)' <=> Takes(l)
  BY <1>1, ListsStay
<1>9. OwnFits'
  BY <1>1, <1>8 DEF OwnFits
<1>10. CallStands'
  BY <1>1, <1>8 DEF CallStands
<1>11. RenewFits'
  BY <1>1 DEF RenewFits
<1>12. \A b \in batches : b.edit \in 1..MaxEdits /\ b.edit <= settings.edit
  BY <1>1 DEF BatchesFit, Batch
<1>13. \A b \in batches : b.edit <= settings'.edit /\ b.edit # settings'.edit
  BY <1>3, <1>4, <1>12, PageBounds
<1>14. BatchesFit'
  BY <1>1, <1>13 DEF BatchesFit
<1> QED BY <1>5, <1>6, <1>7, <1>8, <1>9, <1>10, <1>11, <1>14 DEF PagesInductive

LEMMA CreateAgentsStep == ASSUME PagesInductive, CreateAgents PROVE PagesInductive'
<1>1. PagesTypeOK /\ BatchesFit /\ page = "agents"
  BY DEF PagesInductive, CreateAgents
<1>2. NewAgents \in This.calls
  BY <1>1, PagesAssumption DEF This, PagesTypeOK, Pages, AgentsPage, Page
<1>3. NewAgents.from = "agents"
  BY DEF NewAgents, Call
<1>4. RowFits(None)
  BY DEF RowFits, FitsWith
<1>5. settings \in Filled /\ pending \in Attempt \union {None} /\ settings' = settings
  BY <1>1, PageTypes DEF CreateAgents
<1>6. pending' \in Attempt \union {None} /\ BatchesFit'
  <2>1. CASE SameAttempt
    BY <1>1, <1>5, <2>1 DEF CreateAgents, BatchesFit, SameAttempt
  <2>2. CASE ~SameAttempt
    <3> DEFINE attempt == [request |-> Cardinality(batches) + 1, edit |-> settings.edit, made |-> FALSE]
    <3>1. Cardinality(batches) \in Nat
      BY <1>1, FS_CardinalityType DEF BatchesFit
    <3>2. PICK n \in Nat : n = Cardinality(batches) + 1
      BY <3>1
    <3>3. settings.edit \in 1..MaxEdits /\ settings.as \in Settings
      BY <1>5 DEF Filled
    <3>4. attempt \in Batch /\ attempt.edit = settings.edit
      BY <3>2, <3>3 DEF Batch
    <3>5. pending' = [settings |-> settings.as, request |-> n] /\ batches' = batches \union {attempt}
      BY <2>2, <3>2 DEF CreateAgents
    <3> HIDE DEF attempt
    <3>6. pending' \in Attempt
      BY <3>2, <3>3, <3>5 DEF Attempt
    <3>7. SameAttempt'
      BY <1>5, <3>5, <3>6, PageBounds DEF SameAttempt
    <3>8. IsFiniteSet(batches') /\ batches' \subseteq Batch
      BY <1>1, <3>4, <3>5, FS_AddElement DEF BatchesFit
    <3>9. \A b \in batches : b.edit # settings.edit
      BY <1>1, <2>2 DEF BatchesFit
    <3>10. \A b \in batches' : b.edit <= settings.edit
      BY <1>1, <3>3, <3>4, <3>5, PageBounds DEF BatchesFit
    <3>11. \A b, c \in batches' : b.edit = c.edit => b = c
      BY <1>1, <3>4, <3>5, <3>9 DEF BatchesFit
    <3> QED BY <1>5, <3>6, <3>7, <3>8, <3>10, <3>11 DEF BatchesFit
  <2> QED BY <2>1, <2>2
<1> QED BY <1>1, <1>2, <1>3, <1>4, <1>5, <1>6, SentStep DEF CreateAgents

LEMMA CarriesBatchStep == ASSUME PagesInductive, CarriesBatch PROVE PagesInductive'
<1>1. /\ PagesTypeOK /\ StoredFits /\ PageRowsFit /\ LoadsFit /\ OwnFits /\ CallStands /\ RenewFits /\ BatchesFit
      /\ UNCHANGED <<page, stored, mine, edited, chosen, filter, shown, revision, loads, loading, busy, missed, settings, pending>>
      /\ call \in Sent /\ call # None /\ call.state = "sent" /\ call.what = NewAgents
  BY PageTypes DEF PagesInductive, CarriesBatch, OnItsWay, ServerUnchanged, FormUnchanged
<1>2. PICK s \in {"made", "failed"} : call' = [call EXCEPT !.state = s]
  BY DEF CarriesBatch
<1>3. /\ call' \in Sent /\ call'.what = NewAgents /\ call'.row = call.row /\ call'.gives = call.gives
      /\ call'.state = s /\ call' # None
  BY <1>1, <1>2, PageBounds DEF Sent
<1>4. PagesTypeOK'
  BY <1>1, <1>3 DEF PagesTypeOK
<1>5. StoredFits'
  BY <1>1 DEF StoredFits
<1>6. PageRowsFit'
  BY <1>1, <1>3 DEF PageRowsFit, RowFits, FitsWith
<1>7. LoadsFit' /\ This' = This /\ (Awaited' <=> Awaited) /\ (Own' <=> Own) /\ \A l : Takes(l)' <=> Takes(l)
  BY <1>1, ListsStay
<1>8. OwnFits'
  BY <1>1, <1>3, <1>7 DEF OwnFits
<1>9. CallStands'
  BY <1>1, <1>3, <1>7 DEF CallStands
<1>10. RenewFits'
  <2>1. NewAgents.after # "renew"
    BY KindsOfCalls
  <2> QED BY <1>1, <1>3, <2>1 DEF RenewFits
<1> DEFINE Mark(b) == [b EXCEPT !.made = b.made \/ b.request = pending.request]
           f == [b \in batches |-> Mark(b)]
<1>11. batches' = {Mark(b) : b \in batches}
  BY DEF CarriesBatch
<1>12. \A b \in batches : Mark(b) \in Batch /\ Mark(b).edit = b.edit
  <2> TAKE b \in batches
  <2>1. b \in Batch
    BY <1>1 DEF BatchesFit
  <2>2. PICK made \in BOOLEAN : made = (b.made \/ b.request = pending.request)
    BY ONLY Zenon
  <2>3. Mark(b) = [b EXCEPT !.made = made]
    BY ONLY <2>2, Zenon
  <2> HIDE DEF Mark
  <2> QED BY <2>1, <2>3 DEF Batch
<1>13. IsFiniteSet(batches')
  <2>1. f \in Surjection(batches, batches')
    BY <1>11 DEF Surjection
  <2> QED BY <1>1, <2>1, FS_Surjection DEF BatchesFit
<1> HIDE DEF Mark
<1>14. BatchesFit'
  <2>1. \A b \in batches' : b \in Batch /\ \E a \in batches : b = Mark(a) /\ b.edit = a.edit
    BY <1>11, <1>12
  <2>2. \A b, c \in batches' : b.edit = c.edit => b = c
    BY <1>1, <2>1 DEF BatchesFit
  <2> QED BY <1>1, <1>13, <2>1, <2>2 DEF BatchesFit, SameAttempt
<1> QED BY <1>4, <1>5, <1>6, <1>7, <1>8, <1>9, <1>10, <1>14 DEF PagesInductive

-----------------------------------------------------------------------------
(* The control plane carries a change out: the versions it compares keep a *)
(* form from putting back what it has not seen.                            *)
LEMMA CarriesStep == ASSUME PagesInductive, Carries PROVE PagesInductive'
<1>1. /\ PagesTypeOK /\ StoredFits /\ PageRowsFit /\ LoadsFit /\ OwnFits /\ CallStands /\ RenewFits /\ BatchesFit
      /\ UNCHANGED <<page, mine, edited, chosen, filter, shown, revision, loads, loading, busy, missed>>
      /\ AgentUnchanged /\ call \in Sent /\ call # None /\ call.state = "sent" /\ call.what # NewAgents
      /\ call.row \in Row \union {None} /\ call.of \in Filters /\ Allowed
  BY PageTypes DEF PagesInductive, Carries, OnItsWay, FormUnchanged
<1> DEFINE Record == [version : 1..MaxVersions, fields : 1..MaxVersions, others : 1..MaxVersions]
<1>2. PICK old \in Record : old = stored
  BY <1>1 DEF PagesTypeOK
<1>3. /\ stored' \in Record /\ stored'.others = old.others
      /\ stored' = old \/ stored'.version > old.version
      /\ stored'.others <= stored'.fields /\ stored'.fields <= stored'.version
  <2>1. CASE stored' = stored
    BY <1>1, <1>2, <2>1 DEF StoredFits
  <2>2. CASE stored' # stored
    <3>1. PICK v \in 1..MaxVersions : v = old.version + 1
      BY <1>2, <2>2, PageBounds DEF Carries
    <3>2. PICK fields \in {v, old.fields} : fields = IF call.what.changes = "fields" THEN v ELSE old.fields
      OBVIOUS
    <3>3. stored' = [old EXCEPT !.version = v, !.fields = fields]
      BY <1>2, <2>2, <3>1, <3>2 DEF Carries
    <3>4. old.others <= old.fields /\ old.fields <= old.version
      BY <1>1, <1>2 DEF StoredFits
    <3>5. fields \in 1..MaxVersions /\ old.others <= fields /\ fields <= v
      BY <1>2, <3>1, <3>2, <3>4, PageBounds
    <3>6. stored' \in Record /\ stored'.others = old.others /\ stored'.version = v /\ stored'.fields = fields
      BY <1>2, <3>1, <3>3, <3>5
    <3> QED BY <1>2, <3>1, <3>5, <3>6, PageBounds
  <2> QED BY <2>1, <2>2
<1>4. /\ call' \in Sent /\ call'.what = call.what /\ call'.row = call.row /\ call'.state \in {"made", "failed"} /\ call' # None
      /\ call'.state = "failed" => call'.gives = call.gives
      /\ call'.state = "made" => call'.gives \in Row /\ call'.gives.version = stored'.version /\ call'.gives.fields = stored'.fields
  <2>1. CASE call' = [call EXCEPT !.state = "failed"]
    BY <1>1, <2>1, PageBounds DEF Sent
  <2>2. CASE call' = [call EXCEPT !.state = "made", !.gives = RowOf(stored', call.of)]
    <3>1. PICK row : row = RowOf(stored', call.of)
      OBVIOUS
    <3>2. row = [of |-> call.of, version |-> stored'.version, fields |-> stored'.fields]
      BY <3>1 DEF RowOf
    <3>3. row \in Row
      BY <1>1, <1>3, <3>2 DEF Row
    <3>4. call' = [call EXCEPT !.state = "made", !.gives = row]
      BY <2>2, <3>1
    <3>5. call' \in Sent /\ call'.what = call.what /\ call'.row = call.row /\ call'.state = "made" /\ call'.gives = row
      BY <1>1, <3>3, <3>4 DEF Sent
    <3> QED BY <3>2, <3>3, <3>5, PageBounds
  <2> QED BY <2>1, <2>2 DEF Carries
<1>5. PagesTypeOK'
  BY <1>1, <1>3, <1>4 DEF PagesTypeOK, AgentUnchanged
<1>6. StoredFits'
  BY <1>3 DEF StoredFits
<1>7. \A row \in Row \union {None} : RowFits(row) => FitsWith(row, stored')
  BY <1>2, <1>3, LaterRecord DEF RowFits
<1>8. call'.gives = call.gives \/ FitsWith(call'.gives, stored')
  BY <1>3, <1>4, PageBounds DEF FitsWith
<1>9. PageRowsFit'
  BY <1>1, <1>4, <1>7, <1>8, PageTypes DEF PageRowsFit, RowFits
<1>10. LoadsFit' /\ This' = This /\ (Awaited' <=> Awaited) /\ (Own' <=> Own) /\ \A l : Takes(l)' <=> Takes(l)
  BY <1>1, ListsStay
<1>11. mine <= stored'.version
  BY <1>1, <1>2, <1>3, PageBounds DEF OwnFits
<1>12. OwnFits'
  BY <1>1, <1>4, <1>10, <1>11 DEF OwnFits
<1>13. CallStands'
  BY <1>1, <1>4, <1>10 DEF CallStands
<1>14. CallOf(page, call.what) /\ Manners(page, This)
  BY <1>1, ThisPage DEF CallStands
<1>15. RenewFits'
  <2>1. call.what.checked = TRUE => call.row.version = stored.version
    BY <1>1 DEF Allowed
  <2>2. call.what.after = "renew" => edited \in Row /\ edited.fields >= stored'.others
    BY <1>1, <1>2, <1>3, <1>14, <2>1 DEF CallOf, RenewFits
  <2>3. ASSUME page = "tenant", NEW l \in loads, l.state = "read", l.row.fields < stored'.others PROVE FALSE
    <3>1. call.what.checked = TRUE /\ call.row \in Row
      BY <1>1, <1>14, <2>3 DEF CallOf, CallStands
    <3>2. call.row.version # stored.version
      BY <1>1, <1>2, <1>3, <2>3, <3>1, PageBounds DEF RenewFits
    <3> QED BY <2>1, <3>1, <3>2
  <2> QED BY <1>1, <1>4, <2>2, <2>3 DEF RenewFits
<1>16. BatchesFit'
  BY <1>1, BatchesStay
<1> QED BY <1>5, <1>6, <1>9, <1>10, <1>12, <1>13, <1>15, <1>16 DEF PagesInductive

-----------------------------------------------------------------------------
(* Lists are answered, and arrive.                                         *)
LEMMA ListAnsweredStep == ASSUME PagesInductive, NEW l \in loads, ListAnswered(l) PROVE PagesInductive'
<1>1. /\ PagesTypeOK /\ StoredFits /\ PageRowsFit /\ LoadsFit /\ OwnFits /\ CallStands /\ RenewFits /\ BatchesFit
      /\ UNCHANGED <<page, stored, mine, edited, chosen, filter, shown, revision, loading, busy, call, missed>>
      /\ AgentUnchanged /\ l \in Get /\ l.state = "asked" /\ l.of \in Filters
  BY PageTypes DEF PagesInductive, ListAnswered, ServerUnchanged, FormUnchanged, PagesTypeOK
<1>2. PICK row : row = RowOf(stored, l.of)
  OBVIOUS
<1>3. /\ row \in Row /\ RowFits(row) /\ row.of = l.of /\ row.version = stored.version /\ row.fields = stored.fields
  BY <1>1, <1>2, FreshRow
<1>4. PICK answer \in {[l EXCEPT !.state = "failed"], [l EXCEPT !.state = "read", !.row = row]} :
        loads' = (loads \ {l}) \union {answer}
  BY <1>2 DEF ListAnswered
<1>5. /\ answer \in Get /\ answer.of = l.of /\ answer.revision = l.revision
      /\ answer.row = l.row \/ answer.row = row
      /\ answer.state = "read" => answer.row = row
  BY <1>1, <1>3, <1>4 DEF Get
<1>6. PagesTypeOK'
  BY <1>1, <1>4, <1>5 DEF PagesTypeOK, AgentUnchanged
<1>7. StoredFits'
  BY <1>1 DEF StoredFits
<1>8. PageRowsFit'
  BY <1>1, <1>3, <1>4, <1>5 DEF PageRowsFit, RowFits, FitsWith
<1>9. This' = This /\ (Own' <=> Own) /\ \A m : Takes(m)' <=> Takes(m)
  BY <1>1 DEF This, Own, Takes
<1>10. Takes(answer) <=> Takes(l)
  BY <1>5 DEF Takes
<1>11. \A m \in loads' : \E k \in loads : m.revision = k.revision /\ (Takes(m) <=> Takes(k)) /\ m.of = k.of
  BY <1>4, <1>5, <1>10
<1>12. \A k \in loads : \E m \in loads' : m.revision = k.revision /\ (Takes(m) <=> Takes(k))
  BY <1>4, <1>5, <1>10
<1>13. Awaited' <=> Awaited
  BY <1>9, <1>11, <1>12 DEF Awaited
<1>14. \A m \in loads' : LoadFits(m)'
  <2>1. \A m \in loads : LoadFits(m)
    BY <1>1 DEF LoadsFit
  <2>2. LoadFits(answer)
    BY <1>3, <1>5, <1>10, <2>1 DEF LoadFits
  <2>3. \A m : LoadFits(m)' <=> LoadFits(m)
    BY <1>1, <1>9 DEF LoadFits
  <2> QED BY <1>4, <2>1, <2>2, <2>3
<1>15. LoadsFit'
  <2>1. \A k, m \in loads' : k.revision = m.revision => k = m
    BY <1>1, <1>4, <1>5 DEF LoadsFit
  <2>2. page = "tenant" => \A k, m \in loads' : k = m /\ loading
    BY <1>1, <1>4 DEF LoadsFit
  <2>3. (\E k \in loads : k.revision = revision) <=> \E m \in loads' : m.revision = revision
    BY <1>11, <1>12
  <2> QED BY <1>1, <1>9, <1>13, <1>14, <2>1, <2>2, <2>3 DEF LoadsFit
<1>16. OwnFits'
  <2>1. Own => \A m \in loads' : Takes(m) /\ m.state = "read" => m.row.version >= mine
    BY <1>1, <1>3, <1>4, <1>5, PageBounds DEF OwnFits, PagesTypeOK
  <2> QED BY <1>1, <1>9, <1>13, <2>1 DEF OwnFits
<1>17. CallStands'
  BY <1>1, <1>9 DEF CallStands
<1>18. RenewFits'
  <2>1. row.fields >= stored.others
    BY <1>1, <1>3 DEF StoredFits, PagesTypeOK
  <2>2. \A m \in loads' : m \in loads \/ (m.state = "read" => ~(m.row.fields < stored.others))
    BY <1>1, <1>3, <1>4, <1>5, <2>1, PageBounds DEF PagesTypeOK, Row
  <2> QED BY <1>1, <2>2 DEF RenewFits
<1>19. BatchesFit'
  BY <1>1, BatchesStay
<1> QED BY <1>6, <1>7, <1>8, <1>15, <1>16, <1>17, <1>18, <1>19 DEF PagesInductive

LEMMA ListArrivesStep == ASSUME PagesInductive, NEW l \in loads, ListArrives(l) PROVE PagesInductive'
<1>1. /\ PagesTypeOK /\ StoredFits /\ PageRowsFit /\ LoadsFit /\ OwnFits /\ CallStands /\ RenewFits /\ BatchesFit
      /\ UNCHANGED <<page, stored, mine, chosen, filter, revision>>
      /\ AgentUnchanged /\ l \in Get /\ l.row \in Row \union {None} /\ loads' = loads \ {l}
  BY PageTypes DEF PagesInductive, ListArrives, ServerUnchanged, PagesTypeOK
<1>2. Manners(page, This) /\ LoadFits(l) /\ RowFits(l.row)
  BY <1>1, ThisPage DEF LoadsFit, PageRowsFit
<1>3. ~Takes(l) => UNCHANGED <<shown, loading, missed, edited>>
  BY DEF ListArrives
<1>4. Takes(l) => /\ loading' = FALSE /\ missed' = (l.state = "failed")
                  /\ shown' = IF l.state = "read" THEN l.row ELSE IF page = "picker" THEN None ELSE shown
                  /\ edited' = IF This.fills /\ l.state = "read" THEN l.row ELSE edited
  BY DEF ListArrives
<1>5. l.state \in {"read", "failed"} /\ (l.state = "read" => l.row \in Row /\ l.row.of = l.of)
  BY <1>1, <1>2 DEF ListArrives, Get, LoadFits
<1>6. (busy' = FALSE /\ call' = None) \/ UNCHANGED <<busy, call>>
  BY DEF ListArrives
<1>7. shown' \in {l.row, None, shown} /\ edited' \in {l.row, edited} /\ missed' \in BOOLEAN /\ loading' \in BOOLEAN
  BY <1>1, <1>3, <1>4, PageTypes
<1>8. shown' \in Row \union {None} /\ edited' \in Row \union {None}
  BY <1>1, <1>7, PageTypes
<1>9. PagesTypeOK'
  BY <1>1, <1>6, <1>7, <1>8 DEF PagesTypeOK, AgentUnchanged
<1>10. StoredFits'
  BY <1>1 DEF StoredFits
<1>11. \A row : RowFits(row)' <=> RowFits(row)
  BY <1>1 DEF RowFits, FitsWith
<1>12. RowFits(None)
  BY DEF RowFits, FitsWith
<1>13. RowFits(shown') /\ RowFits(edited') /\ RowFits(chosen') /\ (call' # None => call' = call) /\ \A m \in loads' : RowFits(m.row)
  BY <1>1, <1>2, <1>6, <1>7, <1>12 DEF PageRowsFit
<1>14. PageRowsFit'
  BY <1>1, <1>13 DEF PageRowsFit, RowFits, FitsWith
<1>15. This' = This /\ (Own' <=> Own) /\ \A m : Takes(m)' <=> Takes(m)
  BY <1>1 DEF This, Own, Takes
<1>16. This.takes = "alone" \/ page = "tenant" => loads' = {}
  BY <1>1 DEF LoadsFit, LoadFits
<1>17. ~Takes(l) /\ Awaited => Awaited'
  BY <1>1, <1>15 DEF Awaited
<1>18. This.takes # "any" => Awaited' \/ missed' \/ (shown' \in Row /\ shown'.of = filter)
  BY <1>1, <1>2, <1>3, <1>4, <1>5, <1>17 DEF LoadsFit, LoadFits
<1>19. This.takes \in {"latest", "alone"} => (loading' <=> \E m \in loads' : m.revision = revision)
  <2>1. This.takes = "latest" => (Takes(l) <=> l.revision = revision)
    BY WhichAreTaken
  <2>2. This.takes = "alone" => Takes(l)
    BY WhichAreTaken
  <2>3. \A m \in loads' : m.revision # l.revision
    BY <1>1 DEF LoadsFit
  <2> QED BY <1>1, <1>3, <1>4, <1>16, <2>1, <2>2, <2>3 DEF LoadsFit
<1>20. \A m \in loads' : LoadFits(m)'
  BY <1>1, <1>15, <1>16 DEF LoadsFit, LoadFits
<1>21. LoadsFit'
  BY <1>1, <1>15, <1>16, <1>18, <1>19, <1>20 DEF LoadsFit
<1>22. OwnFits'
  <2>1. Own => Awaited' \/ missed' \/ (shown' \in Row /\ shown'.version >= mine)
    BY <1>1, <1>3, <1>4, <1>5, <1>17 DEF OwnFits
  <2>2. page \in {"spending", "prices"} => loading' = FALSE
    BY <1>2, <1>4, WhichAreTaken DEF Manners
  <2> QED BY <1>1, <1>15, <2>1, <2>2 DEF OwnFits
<1>23. CallStands'
  <2>1. page = "prices" /\ edited' # None => shown' # None
    BY <1>1, <1>2, <1>3, <1>4, <1>5, PageBounds DEF Manners, CallStands
  <2> QED BY <1>1, <1>6, <1>15, <2>1 DEF CallStands
<1>24. RenewFits'
  <2>1. ASSUME call' # None, call.what.after = "renew", call.state \in {"sent", "made"}
        PROVE  /\ edited' \in Row
               /\ call.state = "sent" /\ call.row.version = stored.version => edited'.fields >= stored.others
               /\ call.state = "made" /\ call.gives.version = stored.version => edited'.fields >= stored.others
    <3>1. call' = call /\ call # None /\ CallOf(page, call.what)
      BY <1>1, <1>6, <2>1, ThisPage DEF CallStands
    <3>2. CASE edited' = edited
      BY <1>1, <2>1, <3>1, <3>2 DEF RenewFits
    <3>3. CASE edited' # edited
      <4>1. This.fills /\ l.state = "read" /\ edited' = l.row /\ l.row \in Row
        BY <1>3, <1>4, <1>5, <3>3
      <4>2. page = "tenant"
        BY <1>2, <2>1, <3>1, <4>1 DEF Manners, CallOf
      <4>3. call.row \in Row /\ (call.state = "made" => call.gives \in Row)
        <5>1. NewAgents.after # "renew"
          BY KindsOfCalls
        <5> QED BY <1>1, <2>1, <3>1, <4>2, <5>1 DEF CallStands, CallOf
      <4>4. ~(l.row.fields < stored.others) => l.row.fields >= stored.others
        BY <1>1, <4>1, PageBounds DEF Row, PagesTypeOK
      <4> QED BY <1>1, <2>1, <3>1, <4>1, <4>2, <4>3, <4>4, PageBounds DEF RenewFits
    <3> QED BY <3>2, <3>3
  <2>2. call' # None => call' = call
    BY <1>6
  <2> QED BY <1>1, <1>16, <2>1, <2>2 DEF RenewFits
<1>25. BatchesFit'
  BY <1>1, BatchesStay
<1> QED BY <1>9, <1>10, <1>14, <1>21, <1>22, <1>23, <1>24, <1>25 DEF PagesInductive

-----------------------------------------------------------------------------
(* A list is asked for again: what was under way is no longer the latest,  *)
(* and a page that asks for one at a time has none under way.              *)
LEMMA AskedAgain ==
  ASSUME PagesInductive, NEW f \in Filters, AskAgain(f), revision < MaxLoads, UNCHANGED <<page, missed>>,
         page = "tenant" => ~loading
  PROVE  /\ loads' \subseteq Get /\ LoadsFit' /\ loading' = TRUE /\ filter' \in {filter, f}
         /\ This' = This /\ (Own' <=> Own) /\ (This.takes # "any" => Awaited')
         /\ \A m \in loads' : m \in loads \/ (m.state = "asked" /\ m.row = None)
         /\ \A m \in loads' : Takes(m)' /\ m.state = "read" /\ This.takes \in {"latest", "alone"} =>
              This.takes = "alone" /\ loading /\ m \in loads
         /\ revision' = revision \/ revision' = revision + 1
         /\ ~(This.takes = "alone" /\ loading) => revision' = revision + 1
<1>1. PagesTypeOK /\ LoadsFit /\ Manners(page, This) /\ revision \in 1..MaxLoads /\ filter \in Filters /\ loading \in BOOLEAN
  BY ThisPage, PageTypes DEF PagesInductive, LoadsFit
<1>2. This' = This /\ (Own' <=> Own)
  BY DEF This, Own
<1>3. CASE This.takes = "alone" /\ loading
  <2>1. UNCHANGED <<page, missed, filter, revision, loads, loading>>
    BY <1>3 DEF AskAgain
  <2>2. \A l : (Takes(l)' <=> Takes(l)) /\ (LoadFits(l)' <=> LoadFits(l))
    BY <1>2, <2>1 DEF LoadFits, Takes
  <2>3. Awaited /\ Awaited'
    <3>1. PICK l \in loads : l.revision = revision
      BY <1>1, <1>3 DEF LoadsFit
    <3> QED BY <1>3, <2>1, <2>2, <3>1, WhichAreTaken DEF Awaited
  <2>4. LoadsFit'
    BY <1>1, <1>2, <1>3, <2>1, <2>2, <2>3 DEF LoadsFit
  <2> QED BY <1>1, <1>2, <1>3, <2>1, <2>3, <2>4 DEF PagesTypeOK
<1>4. CASE ~(This.takes = "alone" /\ loading)
  <2>1. PICK asked : asked = Asked(f, revision + 1)
    OBVIOUS
  <2>2. PICK n \in 1..MaxLoads : n = revision + 1
    BY <1>1, PageBounds
  <2>3. filter' = f /\ revision' = n /\ loading' = TRUE /\ loads' = loads \union {asked}
    BY <1>4, <2>1, <2>2 DEF AskAgain
  <2>4. asked \in Get /\ asked.of = f /\ asked.revision = n /\ asked.state = "asked" /\ asked.row = None
    BY <2>1, <2>2, PageBounds DEF Asked, Get
  <2>5. \A l \in loads : LoadFits(l) /\ l.revision \in 1..MaxLoads /\ l.revision <= revision /\ l.revision <= n /\ l.revision # n
    BY <1>1, <2>2, PageTypes, PageBounds DEF LoadsFit, LoadFits
  <2>6. This.takes = "alone" \/ page = "tenant" => loads = {}
    BY <1>1, <1>4, <2>5 DEF LoadFits, LoadsFit
  <2>7. \A l : /\ This.takes = "latest" => (Takes(l)' <=> l.revision = n)
               /\ This.takes = "same" => (Takes(l)' <=> l.of = f)
               /\ This.takes \in {"any", "alone"} => Takes(l)'
    BY <1>2, <2>3 DEF Takes
  <2>8. This.takes # "any" => Awaited'
    BY <1>1, <2>3, <2>4, <2>7 DEF Awaited, Manners
  <2>9. \A l \in loads : This.takes # "any" /\ Takes(l)' => l.of = f
    BY <1>1, <2>5, <2>6, <2>7 DEF Manners
  <2>10. \A l \in loads : LoadFits(l)'
    BY <1>2, <2>3, <2>5, <2>6, <2>9 DEF LoadFits
  <2>11. LoadFits(asked)'
    BY <1>2, <2>2, <2>3, <2>4 DEF LoadFits
  <2>12. \A l, m \in loads' : l.revision = m.revision => l = m
    BY <1>1, <2>3, <2>4, <2>5 DEF LoadsFit
  <2>13. page = "tenant" => \A l, m \in loads' : l = m
    BY <2>3, <2>6
  <2>14. LoadsFit'
    BY <1>1, <1>2, <2>2, <2>3, <2>4, <2>8, <2>10, <2>11, <2>12, <2>13 DEF LoadsFit
  <2>15. \A m \in loads' : Takes(m)' /\ m.state = "read" /\ This.takes \in {"latest", "alone"} => FALSE
    BY <2>3, <2>4, <2>5, <2>6, <2>7
  <2> QED BY <1>1, <1>2, <1>4, <2>2, <2>3, <2>4, <2>8, <2>14, <2>15 DEF PagesTypeOK
<1> QED BY <1>3, <1>4

LEMMA LoadStep == ASSUME PagesInductive, NEW f \in Filters, Load(f) PROVE PagesInductive'
<1>1. /\ PagesTypeOK /\ StoredFits /\ PageRowsFit /\ LoadsFit /\ OwnFits /\ CallStands /\ RenewFits /\ BatchesFit
      /\ UNCHANGED <<page, stored, mine, edited, busy, call, missed>> /\ AgentUnchanged /\ Manners(page, This)
      /\ shown' \in {shown, None} /\ chosen' \in {chosen, None} /\ revision \in 1..MaxLoads
  BY ThisPage DEF PagesInductive, Load, ServerUnchanged, LoadsFit
<1>2. revision < MaxLoads /\ (call # None => revision < MaxLoads - 1)
  BY <1>1, PageBounds DEF Load
<1>3. page \notin {"spending", "prices"} /\ (page = "tenant" => ~loading)
  BY <1>1 DEF Load, Manners
<1>4. /\ loads' \subseteq Get /\ LoadsFit' /\ loading' = TRUE
      /\ This' = This /\ (Own' <=> Own) /\ (This.takes # "any" => Awaited')
      /\ \A m \in loads' : m \in loads \/ (m.state = "asked" /\ m.row = None)
      /\ \A m \in loads' : Takes(m)' /\ m.state = "read" /\ This.takes \in {"latest", "alone"} =>
           This.takes = "alone" /\ loading /\ m \in loads
      /\ revision' = revision \/ revision' = revision + 1
  <2>1. AskAgain(f)
    BY DEF Load
  <2> QED BY <1>1, <1>2, <1>3, <2>1, AskedAgain
<1>5. PagesTypeOK'
  BY <1>1, <1>4 DEF PagesTypeOK, AgentUnchanged
<1>6. StoredFits'
  BY <1>1 DEF StoredFits
<1>7. PageRowsFit'
  BY <1>1, <1>4 DEF PageRowsFit, RowFits, FitsWith
<1>8. Own => This.takes \in {"latest", "alone"}
  BY <1>1 DEF Own, Manners
<1>9. OwnFits'
  <2>1. \A m : This.takes = "alone" => Takes(m)
    BY WhichAreTaken
  <2> QED BY <1>1, <1>3, <1>4, <1>8, <2>1 DEF OwnFits
<1>10. CallStands'
  BY <1>1, <1>2, <1>3, <1>4, PageBounds DEF CallStands
<1>11. RenewFits'
  BY <1>1, <1>4 DEF RenewFits
<1>12. BatchesFit'
  BY <1>1, BatchesStay
<1> QED BY <1>4, <1>5, <1>6, <1>7, <1>9, <1>10, <1>11, <1>12 DEF PagesInductive

\* A change was made: the list is asked for again, and some pages wait for it.
LEMMA Waited ==
  ASSUME PagesInductive, call # None, call.state = "made", WaitsForList, page # "tenant", UNCHANGED <<page, missed>>
  PROVE  /\ loads' \subseteq Get /\ LoadsFit' /\ loading' = TRUE
         /\ This' = This /\ (Own' <=> Own) /\ (Own => Awaited')
         /\ \A m \in loads' : m \in loads \/ (m.state = "asked" /\ m.row = None)
         /\ \A m \in loads' : Takes(m)' /\ m.state = "read" /\ Own =>
              This.takes = "alone" /\ loading /\ m \in loads /\ page \in {"spending", "prices"}
         /\ page \in {"spending", "prices"} => ~loading
         /\ \/ call' = None /\ busy' = FALSE /\ page \notin {"spending", "prices"}
            \/ /\ call' \in Sent /\ call' # None /\ busy' = busy
               /\ call'.what = call.what /\ call'.row = call.row /\ call'.gives = call.gives
               /\ call'.state = "listed" /\ call'.list = revision'
<1>1. /\ PagesTypeOK /\ LoadsFit /\ OwnFits /\ CallStands /\ Manners(page, This) /\ call \in Sent
      /\ filter \in Filters /\ revision \in 1..MaxLoads /\ revision < MaxLoads
  BY ThisPage, PageTypes DEF PagesInductive, LoadsFit, CallStands
<1>2. AskAgain(filter)
  BY DEF WaitsForList
<1>3. /\ loads' \subseteq Get /\ LoadsFit' /\ loading' = TRUE
      /\ This' = This /\ (Own' <=> Own) /\ (This.takes # "any" => Awaited')
      /\ \A m \in loads' : m \in loads \/ (m.state = "asked" /\ m.row = None)
      /\ \A m \in loads' : Takes(m)' /\ m.state = "read" /\ This.takes \in {"latest", "alone"} =>
           This.takes = "alone" /\ loading /\ m \in loads
      /\ ~(This.takes = "alone" /\ loading) => revision' = revision + 1
  BY <1>1, <1>2, AskedAgain
<1>4. Own => This.takes \in {"latest", "alone"}
  BY <1>1 DEF Own, Manners
<1>5. This.takes = "alone" /\ Own => page \in {"spending", "prices"}
  BY DEF Own
<1>6. page \in {"spending", "prices"} => ~loading
  BY <1>1 DEF OwnFits
<1>7. page \in {"spending", "prices"} => This.waits
  BY <1>1 DEF Manners
<1>8. CASE This.waits /\ ~(This.takes = "alone" /\ loading)
  <2>1. PICK n \in 0..MaxLoads : n = revision + 1
    BY <1>1, PageBounds
  <2>2. call' = [call EXCEPT !.state = "listed", !.list = n] /\ busy' = busy /\ revision' = n
    BY <1>3, <1>8, <2>1 DEF WaitsForList
  <2>3. /\ call' \in Sent /\ call'.what = call.what /\ call'.row = call.row /\ call'.gives = call.gives
        /\ call'.state = "listed" /\ call'.list = n
    BY <1>1, <2>1, <2>2 DEF Sent
  <2> QED BY <1>3, <1>4, <1>5, <1>6, <2>2, <2>3, PageBounds
<1>9. CASE ~(This.waits /\ ~(This.takes = "alone" /\ loading))
  <2>1. call' = None /\ busy' = FALSE
    BY <1>9 DEF WaitsForList
  <2> QED BY <1>3, <1>4, <1>5, <1>6, <1>7, <1>9, <2>1
<1> QED BY <1>8, <1>9

LEMMA BatchMadeStep == ASSUME PagesInductive, BatchMade PROVE PagesInductive'
<1>1. /\ PagesTypeOK /\ StoredFits /\ PageRowsFit /\ LoadsFit /\ OwnFits /\ CallStands /\ RenewFits /\ BatchesFit
      /\ UNCHANGED <<page, stored, mine, edited, chosen, batches, shown, missed>>
      /\ pending' = None /\ call \in Sent /\ call # None /\ call.state = "made" /\ call.what = NewAgents
  BY PageTypes DEF PagesInductive, BatchMade, ServerUnchanged, FormUnchanged
<1>2. CallOf(page, NewAgents) /\ NewAgents.from = "agents"
  BY <1>1, ThisPage DEF CallStands, NewAgents, Call
<1>3. page \notin {"spending", "prices", "tenant"}
  BY <1>2 DEF CallOf
<1>4. /\ loads' \subseteq Get /\ LoadsFit' /\ loading' = TRUE
      /\ This' = This /\ (Own' <=> Own) /\ (Own => Awaited')
      /\ \A m \in loads' : m \in loads \/ (m.state = "asked" /\ m.row = None)
      /\ \A m \in loads' : Takes(m)' /\ m.state = "read" /\ Own => page \in {"spending", "prices"}
      /\ \/ call' = None /\ busy' = FALSE
         \/ /\ call' \in Sent /\ call' # None /\ busy' = busy
            /\ call'.what = call.what /\ call'.row = call.row /\ call'.gives = call.gives
            /\ call'.state = "listed" /\ call'.list = revision'
  BY <1>1, <1>3, Waited DEF BatchMade
<1>5. settings \in Filled /\ settings.edit \in 1..MaxEdits
  BY <1>1, PageTypes DEF Filled
<1>6. PICK e \in 1..MaxEdits : e = settings.edit + 1
  BY <1>5, PageBounds DEF BatchMade
<1>7. settings' = [settings EXCEPT !.edit = e]
  BY <1>6 DEF BatchMade
<1>8. settings' \in Filled /\ settings'.edit = e
  BY <1>5, <1>7 DEF Filled
<1>9. PagesTypeOK'
  BY <1>1, <1>4, <1>8 DEF PagesTypeOK
<1>10. StoredFits'
  BY <1>1 DEF StoredFits
<1>11. PageRowsFit'
  BY <1>1, <1>4 DEF PageRowsFit, RowFits, FitsWith
<1>12. OwnFits'
  BY <1>1, <1>3, <1>4 DEF OwnFits
<1>13. CallStands'
  BY <1>1, <1>2, <1>3, <1>4 DEF CallStands
<1>14. RenewFits'
  BY <1>1, <1>3, <1>4 DEF RenewFits
<1>15. \A b \in batches : b.edit <= settings'.edit /\ b.edit # settings'.edit
  BY <1>1, <1>5, <1>6, <1>8 DEF BatchesFit, Batch
<1>16. BatchesFit'
  BY <1>1, <1>15 DEF BatchesFit
<1> QED BY <1>4, <1>9, <1>10, <1>11, <1>12, <1>13, <1>14, <1>16 DEF PagesInductive

LEMMA NotMadeStep == ASSUME PagesInductive, NotMade PROVE PagesInductive'
<1>1. /\ PagesTypeOK /\ StoredFits /\ PageRowsFit /\ LoadsFit /\ OwnFits /\ CallStands /\ RenewFits /\ BatchesFit
      /\ UNCHANGED <<page, stored, mine, edited, shown, missed>> /\ AgentUnchanged /\ Manners(page, This)
      /\ call # None /\ call.state = "failed" /\ call' = None /\ busy' = FALSE
      /\ filter \in Filters /\ revision \in 1..MaxLoads /\ revision < MaxLoads
  BY ThisPage DEF PagesInductive, NotMade, ServerUnchanged, LoadsFit, CallStands
<1>2. page \in {"spending", "prices"} => ~loading
  BY <1>1 DEF OwnFits
<1>3. chosen' \in {chosen, None}
  BY DEF NotMade
<1>4. Own => This.takes \in {"latest", "alone"}
  BY <1>1 DEF Own, Manners
<1>5. /\ loads' \subseteq Get /\ LoadsFit' /\ loading' \in BOOLEAN
      /\ This' = This /\ (Own' <=> Own)
      /\ Awaited => Awaited' \/ page = "reconciliations"
      /\ page = "reconciliations" /\ This.takes # "any" => Awaited'
      /\ \A m \in loads' : m \in loads \/ (m.state = "asked" /\ m.row = None)
      /\ \A m \in loads' : Takes(m)' /\ m.state = "read" /\ Own => m \in loads /\ Takes(m)
      /\ page # "reconciliations" => loading' = loading
  <2>1. CASE page = "reconciliations"
    <3>1. AskAgain(filter)
      BY <2>1 DEF NotMade
    <3>2. \A m : This.takes = "alone" => Takes(m)
      BY WhichAreTaken
    <3> QED BY <1>1, <1>4, <2>1, <3>1, <3>2, AskedAgain
  <2>2. CASE page # "reconciliations"
    <3>1. UNCHANGED <<filter, revision, loads, loading>>
      BY <2>2 DEF NotMade
    <3> QED BY <1>1, <2>2, <3>1, ListsStay, PageTypes
  <2> QED BY <2>1, <2>2
<1>6. PagesTypeOK'
  BY <1>1, <1>3, <1>5 DEF PagesTypeOK, AgentUnchanged
<1>7. StoredFits'
  BY <1>1 DEF StoredFits
<1>8. PageRowsFit'
  BY <1>1, <1>3, <1>5 DEF PageRowsFit, RowFits, FitsWith
<1>9. OwnFits'
  BY <1>1, <1>2, <1>4, <1>5 DEF OwnFits
<1>10. CallStands'
  BY <1>1, <1>5 DEF CallStands
<1>11. RenewFits'
  BY <1>1, <1>5 DEF RenewFits
<1>12. BatchesFit'
  BY <1>1, BatchesStay
<1> QED BY <1>5, <1>6, <1>7, <1>8, <1>9, <1>10, <1>11, <1>12 DEF PagesInductive

LEMMA MadeStep == ASSUME PagesInductive, Made PROVE PagesInductive'
<1>1. /\ PagesTypeOK /\ StoredFits /\ PageRowsFit /\ LoadsFit /\ OwnFits /\ CallStands /\ RenewFits /\ BatchesFit
      /\ UNCHANGED <<page, stored, shown, missed>> /\ AgentUnchanged /\ Manners(page, This)
      /\ call # None /\ call.state = "made" /\ call.what # NewAgents /\ mine' = call.gives.version /\ call \in Sent
      /\ chosen' \in {chosen, None}
  BY ThisPage, PageTypes DEF PagesInductive, Made
<1>2. CallOf(page, call.what) /\ call.gives \in Row /\ RowFits(call.gives)
  BY <1>1, ThisPage DEF CallStands, PageRowsFit
<1>3. PICK gives \in Row : gives = call.gives
  BY <1>2
<1>4. /\ gives.version \in 1..MaxVersions /\ gives.version <= stored.version
      /\ gives.version = stored.version => gives.fields >= stored.others
  BY <1>2, <1>3, PageBounds DEF Row, RowFits, FitsWith
<1>5. /\ edited' \in Row \union {None} /\ (RowFits(edited) => RowFits(edited'))
      /\ edited' \in {edited, None} \/ (edited' \in Row /\ edited'.version = gives.version)
      /\ page = "prices" => edited' \in {edited, None}
  <2>1. CASE call.what.after = "reopen"
    BY <1>1, <1>2, <1>3, <2>1 DEF Made, CallOf
  <2>2. CASE call.what.after = "renew"
    <3>1. PICK old \in Row : old = edited /\ (gives.version = stored.version => old.fields >= stored.others)
      BY <1>1, <1>3, <2>2 DEF RenewFits
    <3>2. edited' = [old EXCEPT !.version = gives.version]
      BY <1>3, <2>2, <3>1 DEF Made
    <3>3. edited' \in Row /\ edited'.version = gives.version /\ edited'.fields = old.fields
      BY <1>4, <3>1, <3>2 DEF Row
    <3>4. page # "prices"
      BY <1>2, <2>2 DEF CallOf
    <3> QED BY <1>4, <3>1, <3>3, <3>4 DEF RowFits, FitsWith
  <2>3. CASE call.what.after = "close"
    <3>1. edited' = None
      BY <2>3 DEF Made
    <3> QED BY <3>1 DEF RowFits, FitsWith
  <2>4. CASE call.what.after \notin {"reopen", "renew", "close"}
    <3>1. edited' = edited
      BY <2>4 DEF Made
    <3> QED BY <1>1, <3>1, PageTypes
  <2> QED BY <2>1, <2>2, <2>3, <2>4
<1>6. RowFits(edited') /\ RowFits(None)
  BY <1>1, <1>5 DEF PageRowsFit, RowFits, FitsWith
<1>7. page = "tenant" => call' = None /\ busy' = FALSE /\ UNCHANGED <<filter, revision, loads, loading>>
  BY DEF Made
<1>8. /\ loads' \subseteq Get /\ LoadsFit' /\ loading' \in BOOLEAN
      /\ This' = This /\ (Own' <=> Own) /\ (Own => Awaited')
      /\ \A m \in loads' : m \in loads \/ (m.state = "asked" /\ m.row = None)
      /\ \A m \in loads' : ~(Takes(m)' /\ m.state = "read" /\ Own)
      /\ \/ call' = None /\ busy' = FALSE /\ page \notin {"spending", "prices"}
         \/ /\ call' \in Sent /\ call' # None /\ busy' = busy
            /\ call'.what = call.what /\ call'.row = call.row /\ call'.gives = call.gives
            /\ call'.state = "listed" /\ call'.list = revision'
      /\ page = "tenant" => loads' = loads /\ call' = None
  <2>1. CASE page = "tenant"
    <3>1. ~Own
      BY <1>1, <2>1 DEF Own, Manners
    <3> QED BY <1>1, <1>7, <2>1, <3>1, ListsStay, PageTypes
  <2>2. CASE page # "tenant"
    <3>1. WaitsForList
      BY <2>2 DEF Made
    <3> QED BY <1>1, <2>2, <3>1, Waited
  <2> QED BY <2>1, <2>2
<1>9. PagesTypeOK'
  BY <1>1, <1>5, <1>8, PageTypes DEF PagesTypeOK, AgentUnchanged
<1>10. StoredFits'
  BY <1>1 DEF StoredFits
<1>11. \A row : RowFits(row)' <=> RowFits(row)
  BY <1>1 DEF RowFits, FitsWith
<1>12. \A m \in loads' : RowFits(m.row)
  BY <1>1, <1>6, <1>8 DEF PageRowsFit
<1>13. PageRowsFit'
  <2>1. RowFits(shown') /\ RowFits(edited') /\ RowFits(chosen')
    BY <1>1, <1>6 DEF PageRowsFit
  <2>2. call' # None => RowFits(call'.gives) /\ (page # "prices" => RowFits(call'.row))
    BY <1>1, <1>8 DEF PageRowsFit
  <2> QED BY <1>1, <1>12, <2>1, <2>2 DEF PageRowsFit, RowFits, FitsWith
<1>14. OwnFits'
  BY <1>1, <1>3, <1>4, <1>8 DEF OwnFits
<1>15. CallStands'
  BY <1>1, <1>5, <1>8 DEF CallStands
<1>16. RenewFits'
  <2>1. ASSUME page = "tenant", NEW l \in loads, l.state = "read", l.row.fields < stored.others, edited' # None
        PROVE  edited'.version # stored.version
    <3>1. gives.version # stored.version /\ (edited # None => edited.version # stored.version)
      BY <1>1, <1>3, <2>1, PageBounds DEF RenewFits
    <3> QED BY <1>5, <2>1, <3>1
  <2> QED BY <1>1, <1>8, <2>1 DEF RenewFits
<1>17. BatchesFit'
  BY <1>1, BatchesStay
<1> QED BY <1>8, <1>9, <1>10, <1>13, <1>14, <1>15, <1>16, <1>17 DEF PagesInductive

-----------------------------------------------------------------------------
LEMMA PagesInductiveStep == ASSUME PagesInductive, [PagesNext]_pageVars PROVE PagesInductive'
<1>1. CASE UNCHANGED pageVars
  <2>1. \A l : LoadFits(l)' <=> LoadFits(l)
    BY <1>1 DEF pageVars, LoadFits, This, Takes
  <2>2. PagesTypeOK' /\ StoredFits' /\ PageRowsFit'
    BY <1>1 DEF pageVars, PagesInductive, PagesTypeOK, StoredFits, PageRowsFit, RowFits, FitsWith
  <2>3. LoadsFit' /\ This' = This /\ (Awaited' <=> Awaited) /\ (Own' <=> Own) /\ \A l : Takes(l)' <=> Takes(l)
    BY <1>1, ListsStay DEF pageVars, PagesInductive
  <2>4. OwnFits' /\ CallStands' /\ RenewFits'
    BY <1>1, <2>3 DEF pageVars, PagesInductive, OwnFits, CallStands, RenewFits
  <2>5. BatchesFit'
    BY <1>1, BatchesStay DEF pageVars, PagesInductive, AgentUnchanged
  <2> QED BY <2>2, <2>3, <2>4, <2>5 DEF PagesInductive
<1>2. CASE ChangedElsewhere \/ Edit \/ Choose \/ Carries \/ Declines \/ Made \/ NotMade
  BY <1>2, ChangedElsewhereStep, EditStep, CarriesStep, DeclinesStep, MadeStep, NotMadeStep
<1>3. CASE Fill \/ CreateAgents \/ CarriesBatch \/ BatchMade
  BY <1>3, FillStep, CreateAgentsStep, CarriesBatchStep, BatchMadeStep
<1>4. CASE \E f \in Filters : Load(f)
  BY <1>4, LoadStep
<1>5. CASE \E l \in loads : ListAnswered(l) \/ ListArrives(l)
  BY <1>5, ListAnsweredStep, ListArrivesStep
<1>6. CASE \E c \in This.calls \ {NewAgents} : Send(c)
  BY <1>6, SendStep
<1> QED BY <1>1, <1>2, <1>3, <1>4, <1>5, <1>6 DEF PagesNext

THEOREM PagesInvariant == PagesSpec => []PagesInductive
  BY PagesInductiveInit, PagesInductiveStep, PTL DEF PagesSpec

\* The console's pages, whatever order answers arrive in and whatever others change: a page
\* shows what was last asked for, its indicator is right, a change of its own is never hidden
\* by an older list, and a retry creates nothing twice.
THEOREM PagesSoundHolds == PagesSpec => []PagesSound
  BY PagesInvariant, PagesSoundOfInductive, PTL

\* Only a call changes fields and leaves another administrator's fields, and it compared the version.
LEMMA NothingUndoneStep ==
  ASSUME PagesInductive, [PagesNext]_pageVars,
         stored'.fields > stored.fields, stored'.others = stored.others, page # "prices"
  PROVE  call.row.fields >= stored.others
<1> DEFINE Record == [version : 1..MaxVersions, fields : 1..MaxVersions, others : 1..MaxVersions]
<1>1. PagesTypeOK /\ StoredFits /\ PageRowsFit /\ CallStands
  BY DEF PagesInductive
<1>2. PICK old \in Record : old = stored
  BY <1>1 DEF PagesTypeOK
<1>3. old.version \in Nat /\ old.fields \in Nat /\ old.others \in Nat /\ old.others <= old.fields /\ old.fields <= old.version
  BY <1>1, <1>2, PageBounds DEF StoredFits
<1>4. stored' # stored
  BY <1>2, <1>3
<1>5. ChangedElsewhere \/ Carries
  BY <1>4 DEF PagesNext, pageVars, Edit, Choose, Declines, Made, NotMade, Fill, CreateAgents, CarriesBatch, BatchMade,
     Load, ListAnswered, ListArrives, Send, ServerUnchanged
<1>6. ~ChangedElsewhere
  <2>1. ASSUME stored' = [old EXCEPT !.version = @ + 1] PROVE FALSE
    BY <1>2, <1>3, <2>1
  <2>2. ASSUME stored' = [version |-> old.version + 1, fields |-> old.version + 1, others |-> old.version + 1] PROVE FALSE
    BY <1>2, <1>3, <2>2
  <2> QED BY <1>2, <2>1, <2>2 DEF ChangedElsewhere
<1>7. Carries /\ call # None /\ Allowed
  BY <1>5, <1>6 DEF Carries, OnItsWay
<1>8. call.what.changes = "fields"
  <2>1. SUFFICES ASSUME call.what.changes # "fields" PROVE stored'.fields = old.fields
    BY <1>2, <1>3
  <2>2. stored' = [old EXCEPT !.version = old.version + 1, !.fields = old.fields]
    BY <1>2, <1>4, <1>7, <2>1 DEF Carries
  <2> QED BY <1>2, <2>2
<1>9. call.what.checked = TRUE /\ call.row \in Row /\ RowFits(call.row)
  BY <1>1, <1>7, <1>8, ThisPage DEF CallStands, CallOf, PageRowsFit
<1>10. call.row.version = stored.version
  BY <1>7, <1>9 DEF Allowed
<1> QED BY <1>9, <1>10, PageBounds DEF RowFits, FitsWith

\* A form that was opened before somebody else changed its fields never puts the old ones back,
\* prices excepted: the version compared at the control plane is the one the form was read with,
\* and where a page renews the version it has read the fields of that version too.
THEOREM NothingUndoneHolds == PagesSpec => NothingUndone
<1>1. PagesInductive /\ [PagesNext]_pageVars =>
        [stored'.fields > stored.fields /\ stored'.others = stored.others /\ page # "prices"
           => call.row.fields >= stored.others]_pageVars
  BY NothingUndoneStep
<1> QED BY <1>1, PagesInvariant, PTL DEF NothingUndone, PagesSpec

-----------------------------------------------------------------------------
(***************************************************************************)
(* The platform.                                                           *)
(***************************************************************************)

\* The console's pages, the employees' application and the session both hold, whatever else the
\* platform does.
THEOREM ClientsSoundHold == PlatformSpec => []ClientsSound
<1>1. PlatformInit => PagesInit /\ DeskInit /\ WebInit
  BY DEF PlatformInit
<1>2. [PlatformNext]_platformVars => [PagesNext]_pageVars /\ [DeskNext]_deskVars /\ [WebNext]_webVars
  BY DEF PlatformNext, platformVars, LeaseMoves, AccountMoves, TalkMoves, SecretMoves, TransactionMoves,
     MigrationMoves, SandboxMoves, PageMoves, DeskMoves, SignInMoves, WebMoves
<1>3. PagesSpec => []PagesSound
  BY PagesSoundHolds
<1>4. DeskInit /\ [][DeskNext]_deskVars => []DesktopSound
  BY DesktopSoundHolds
<1>5. WebInit /\ [][WebNext]_webVars => []WebSessionSound
  BY WebSessionSoundHolds
<1>6. PagesSound /\ DesktopSound /\ WebSessionSound => ClientsSound
  BY DEF ClientsSound
<1> QED BY <1>1, <1>2, <1>3, <1>4, <1>5, <1>6, PTL DEF PlatformSpec, PagesSpec

\* What no step of the platform may do: change how a lease ended, change a password but by an open
\* link of its own, change a connection but from the version somebody saw, or put back the fields
\* that another administrator changed.
THEOREM PlatformStepsHold == PlatformSpec => PlatformSteps
<1>1. PlatformInit => Init /\ AccountsInit /\ SecretInit /\ PagesInit
  BY DEF PlatformInit
<1>2. [PlatformNext]_platformVars =>
        [Next]_vars /\ [AccountsNext]_accountVars /\ [SecretNext]_secretVars /\ [PagesNext]_pageVars
  BY DEF PlatformNext, platformVars, LeaseMoves, AccountMoves, TalkMoves, SecretMoves, TransactionMoves,
     MigrationMoves, SandboxMoves, PageMoves, DeskMoves, SignInMoves, WebMoves
<1>3. Spec => EndedStays
  BY EndedStaysHolds
<1>4. AccountsSpec => AccessByLink
  BY AccessByLinkHolds
<1>5. SecretSpec => ConnectionSteps
  BY ConnectionStepsHold
<1>6. PagesSpec => NothingUndone
  BY NothingUndoneHolds
<1> QED BY <1>1, <1>2, <1>3, <1>4, <1>5, <1>6, PTL
        DEF PlatformSpec, Spec, AccountsSpec, SecretSpec, PagesSpec, PlatformSteps
=============================================================================
