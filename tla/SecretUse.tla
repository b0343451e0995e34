----------------------------- MODULE SecretUse ------------------------------
(* The connections that say which secret an organization uses at a place, the *)
(* requests that resolve one, and the model calls made with one               *)
(* (connector-service.ts, source-control-connections.ts, model-credentials.ts,*)
(* secret-broker.ts, model-gateway.ts).  A place is a connector provider, a   *)
(* git host or a model provider.  A connection is read in a transaction; its  *)
(* secret is resolved afterwards, and may have been replaced since.           *)
EXTENDS Absent, Naturals, Sequences

CONSTANTS
  Places, PlaceKind,     \* [Places -> {"connector", "host", "model"}]
  References,            \* secret references
  Callers, PlaceOf,      \* requests, and [Callers -> where each needs a secret]
  Forms,                 \* administrators' pages
  MaxConnections, MaxChanges   \* bounds: rows, and the version of a row

ASSUME SecretAssumption ==
  /\ PlaceKind \in [Places -> {"connector", "host", "model"}]
  /\ PlaceOf \in [Callers -> Places]
  /\ MaxConnections \in Nat /\ MaxChanges \in Nat \ {0}

VARIABLES
  connection,            \* rows of the three tables of connections, as created
  form,                  \* [Forms -> the connection and version it shows, or None]
  caller                 \* [Callers -> where the request stands]

secretVars == <<connection, form, caller>>

Connections == 1..Len(connection)
Connection == [place : Places, ref : References, allows : SUBSET Callers,
               status : {"ACTIVE", "DISABLED"}, version : 1..MaxChanges]
Caller == [step : {"idle", "leased", "resolving", "given", "calling", "settling", "over"},
           leased : Nat, from : Nat, ref : References \union {None},
           reservation : {"none", "RESERVED", "SETTLED", "SETTLED_AT_NOTHING"}, used : BOOLEAN]
Idle == [step |-> "idle", leased |-> 0, from |-> 0, ref |-> None,
         reservation |-> "none", used |-> FALSE]

SecretTypeOK ==
  /\ connection \in Seq(Connection) /\ Len(connection) <= MaxConnections
  /\ form \in [Forms -> [of : Connections, version : 1..MaxChanges] \union {None}]
  /\ caller \in [Callers -> Caller]

SecretInit ==
  /\ connection = <<>>
  /\ form = [f \in Forms |-> None]
  /\ caller = [c \in Callers |-> Idle]

Of(place) == {i \in Connections : connection[i].place = place}
ActiveOf(place) == {i \in Of(place) : connection[i].status = "ACTIVE"}
CallersAt(place) == {c \in Callers : PlaceOf[c] = place}
CallerAt(c, step) == caller[c].step = step
CallerGoes(c, x) == caller' = [caller EXCEPT ![c] = x] /\ UNCHANGED <<connection, form>>
Refused(c) == CallerGoes(c, [caller[c] EXCEPT !.step = "over"])

-----------------------------------------------------------------------------
(* Administrators.                                                            *)
Insert(place, ref, allows) ==
  /\ Len(connection) < MaxConnections
  /\ connection' = Append(connection, [place |-> place, ref |-> ref, allows |-> allows,
                                       status |-> "ACTIVE", version |-> 1])
  /\ UNCHANGED <<form, caller>>

(* create: the index allows one active connection of a place.  That of a host *)
(* names the repositories it is for.                                          *)
create(place, ref, allows) ==
  /\ PlaceKind[place] # "model" /\ ActiveOf(place) = {}
  /\ PlaceKind[place] = "connector" => allows = CallersAt(place)
  /\ Insert(place, ref, allows)

OpenForm(f, i) ==
  /\ form' = [form EXCEPT ![f] = [of |-> i, version |-> connection[i].version]]
  /\ UNCHANGED <<connection, caller>>

Change(f, status, ref) ==
  LET i == form[f].of IN
  /\ connection[i].version < MaxChanges
  /\ connection' = [connection EXCEPT ![i].status = status, ![i].ref = ref, ![i].version = @ + 1]
  /\ UNCHANGED <<form, caller>>

\* Faulty: the version is not compared.
AsOpened(f) == form[f] # None

(* What a form that shows an older version says is refused.                   *)
AsShown(f) == form[f] # None /\ connection[form[f].of].version = form[f].version

disable(f) ==
  /\ AsShown(f) /\ connection[form[f].of].status = "ACTIVE"
  /\ Change(f, "DISABLED", connection[form[f].of].ref)

(* set: a model provider has one row, active again whenever it is set.        *)
setFirst(place, ref) ==
  PlaceKind[place] = "model" /\ Of(place) = {} /\ Insert(place, ref, CallersAt(place))

setAgain(f, ref) ==
  /\ AsShown(f) /\ PlaceKind[connection[form[f].of].place] = "model"
  /\ Change(f, "ACTIVE", ref)

-----------------------------------------------------------------------------
(* forRepository: the active connection of the host, if it is for it.         *)
forRepository(c) == {i \in ActiveOf(PlaceOf[c]) : c \in connection[i].allows}

Reads(c, i) == CallerGoes(c, [caller[c] EXCEPT !.step = "resolving", !.from = i, !.ref = connection[i].ref])

(* leaseForCheckout binds a checkout to a connection, redeem uses that one.   *)
leaseForCheckout(c) ==
  /\ PlaceKind[PlaceOf[c]] = "host" /\ CallerAt(c, "idle")
  /\ \E i \in forRepository(c) : CallerGoes(c, [Idle EXCEPT !.step = "leased", !.leased = i])

\* Faulty: the connection is the one that is active now.
RedeemCurrent(c) ==
  /\ CallerAt(c, "leased")
  /\ IF forRepository(c) # {} THEN \E i \in forRepository(c) : Reads(c, i) ELSE Refused(c)

redeem(c) ==
  /\ CallerAt(c, "leased")
  /\ IF forRepository(c) = {caller[c].leased} THEN Reads(c, caller[c].leased) ELSE Refused(c)

(* active, for a connector, and forRun, for a model.                          *)
ReadActive(c) ==
  /\ PlaceKind[PlaceOf[c]] # "host" /\ CallerAt(c, "idle")
  /\ IF ActiveOf(PlaceOf[c]) # {} THEN \E i \in ActiveOf(PlaceOf[c]) : Reads(c, i) ELSE Refused(c)

(* resolve: no value in the store, or no answer from it, is a refusal.        *)
resolve(c) ==
  /\ CallerAt(c, "resolving")
  /\ \/ CallerGoes(c, [caller[c] EXCEPT !.step = "given"])
     \/ Refused(c)

(* complete: with the key, the call reserves, is made, and settles.           *)
Model(c) == PlaceKind[PlaceOf[c]] = "model"
reserve(c) ==
  /\ Model(c) /\ CallerAt(c, "given")
  /\ \/ CallerGoes(c, [caller[c] EXCEPT !.step = "calling", !.reservation = "RESERVED"])
     \/ Refused(c)

Answers(c) ==
  /\ CallerAt(c, "calling")
  /\ CallerGoes(c, [caller[c] EXCEPT !.step = "settling", !.used = TRUE])

(* A provider that answers with an error generated nothing.                   *)
AnswersError(c) ==
  CallerAt(c, "calling") /\ CallerGoes(c, [caller[c] EXCEPT !.step = "settling"])

(* A time-out or an abort: tokens may have been used, nothing is settled.     *)
NoAnswer(c) ==
  /\ CallerAt(c, "calling")
  /\ \E used \in BOOLEAN : CallerGoes(c, [caller[c] EXCEPT !.step = "over", !.used = used])

(* The settlement may be lost: the call is not repeated for it.               *)
settle(c) ==
  /\ CallerAt(c, "settling")
  /\ \/ CallerGoes(c, [caller[c] EXCEPT !.step = "over",
                   !.reservation = IF caller[c].used THEN "SETTLED" ELSE "SETTLED_AT_NOTHING"])
     \/ Refused(c)

Ends(c) ==
  /\ CallerAt(c, "over") \/ (CallerAt(c, "given") /\ ~Model(c))
  /\ CallerGoes(c, Idle)

SecretNext ==
  \/ \E p \in Places, r \in References :
       (\E allows \in SUBSET CallersAt(p) : create(p, r, allows)) \/ setFirst(p, r)
  \/ \E f \in Forms :
       \/ \E i \in Connections : OpenForm(f, i)
       \/ disable(f)
       \/ \E r \in References : setAgain(f, r)
  \/ \E c \in Callers :
       \/ leaseForCheckout(c) \/ redeem(c) \/ ReadActive(c) \/ resolve(c)
       \/ reserve(c) \/ Answers(c) \/ AnswersError(c) \/ NoAnswer(c) \/ settle(c) \/ Ends(c)

SecretSpec == SecretInit /\ [][SecretNext]_secretVars

-----------------------------------------------------------------------------
(* A place has one active connection, and a model provider one at all.        *)
OneActivePlace ==
  \A i, j \in Connections :
    /\ connection[i].place = connection[j].place
    /\ "DISABLED" \notin {connection[i].status, connection[j].status}
         \/ PlaceKind[connection[i].place] = "model"
    => i = j

(* A checkout gets the secret of the connection its lease was issued under or *)
(* none, whatever was disabled and created for the host in between.           *)
LeaseKeepsConnection ==
  \A c \in Callers : caller[c].leased # 0 /\ caller[c].from # 0 =>
    /\ caller[c].from = caller[c].leased
    /\ caller[c].ref = connection[caller[c].leased].ref

(* "An unsettled reservation keeps counting at its reserved size": tokens that*)
(* were used are always counted.                                              *)
UsedIsCounted == \A c \in Callers : caller[c].used => caller[c].reservation \in {"RESERVED", "SETTLED"}

SecretsSound == SecretTypeOK /\ OneActivePlace /\ LeaseKeepsConnection /\ UsedIsCounted

(* A connection changes one version at a time and as somebody saw it; one of a*)
(* connector or a host keeps its secret, and disabled is for good.            *)
ConnectionSteps ==
  [][\A i \in Connections : connection'[i] # connection[i] =>
       /\ connection'[i].version = connection[i].version + 1
       /\ \E f \in Forms : form[f] = [of |-> i, version |-> connection[i].version]
       /\ PlaceKind[connection[i].place] # "model" =>
            connection[i].status = "ACTIVE" /\ connection'[i].ref = connection[i].ref]_secretVars
=============================================================================
