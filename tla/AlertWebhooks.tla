--------------------------- MODULE AlertWebhooks ---------------------------
(* Delivery of budget alerts to an organization's endpoints:                 *)
(* AlertWebhookService, with as many control plane processes dispatching as  *)
(* the instance has.                                                         *)
(*                                                                           *)
(* A claim counts an attempt and hides the delivery for LEASE_MS; the        *)
(* requests are sent outside any transaction and each outcome is recorded in *)
(* one of its own.  A process may stop in between, or be so slow that the    *)
(* lease ends under it: MaxStops bounds how often.  A batch of dispatchDue   *)
(* holds more deliveries than an instance has.                               *)
EXTENDS Absent, Integers, FiniteSets

CONSTANTS
  Hooks, Alerts, Tests,   \* endpoints, alerts that may be raised, test events
  Dispatchers,            \* control plane processes
  MAX_ATTEMPTS,           \* 6
  ATTEMPTS_CHECK,         \* 10: the table refuses a row with more attempts
  MaxStops

ASSUME AttemptsAssumption == MAX_ATTEMPTS \in Nat \ {0} /\ ATTEMPTS_CHECK \in Nat /\ ATTEMPTS_CHECK >= MAX_ATTEMPTS
ASSUME StopsAssumption == MaxStops \in Nat

Deliveries ==
  [status : {"PENDING", "DELIVERED", "FAILED"}, attempts : 0..ATTEMPTS_CHECK, wait : {"DUE", "RETRY", "LEASE"}]

ASSUME WebhookNames == Alerts \cap Tests = {} /\ None \notin Deliveries

VARIABLES
  hooks,        \* the status of each endpoint, or None before it is registered
  deliveries,   \* the delivery of each event to each endpoint, or None
  raised,       \* alerts that were raised
  flights,      \* attempts in the memory of a dispatcher
  stops         \* interruptions so far

webhookVars == <<hooks, deliveries, raised, flights, stops>>

Events == Alerts \cup Tests
Delivery == Hooks \X Events
NewDelivery == [status |-> "PENDING", attempts |-> 0, wait |-> "DUE"]
Pending(d) == deliveries[d] # None /\ deliveries[d].status = "PENDING"
FlightsOf(d) == {f \in flights : f.delivery = d}

WebhookInit ==
  /\ hooks = [h \in Hooks |-> None]
  /\ deliveries = [d \in Delivery |-> None]
  /\ raised = {}
  /\ flights = {}
  /\ stops = 0

AddHook(h) ==
  /\ hooks[h] = None
  /\ hooks' = [hooks EXCEPT ![h] = "ACTIVE"]
  /\ UNCHANGED <<deliveries, raised, flights, stops>>

SetHookStatus(h, status) ==
  /\ hooks[h] # None
  /\ hooks' = [hooks EXCEPT ![h] = status]
  /\ UNCHANGED <<deliveries, raised, flights, stops>>

TestHook(h, e) ==
  /\ hooks[h] = "ACTIVE"
  /\ deliveries[<<h, e>>] = None
  /\ deliveries' = [deliveries EXCEPT ![<<h, e>>] = NewDelivery]
  /\ UNCHANGED <<hooks, raised, flights, stops>>

\* The transaction of ModelBudgetAlertService.raise: every active endpoint gets its delivery.
RaiseAlert(a) ==
  /\ a \notin raised
  /\ raised' = raised \cup {a}
  /\ deliveries' = [d \in Delivery |->
       IF d[2] = a /\ hooks[d[1]] = "ACTIVE" THEN NewDelivery ELSE deliveries[d]]
  /\ UNCHANGED <<hooks, flights, stops>>

DueNow == {d \in Delivery : Pending(d) /\ deliveries[d].wait = "DUE" /\ hooks[d[1]] = "ACTIVE"}

Claimed(p) == {[by |-> p, delivery |-> d, attempt |-> deliveries[d].attempts + 1, result |-> None] : d \in DueNow}

\* One statement claims the batch: a row over ATTEMPTS_CHECK refuses all of it.  A process
\* sends one batch at a time.
ClaimDue(p) ==
  /\ \A f \in flights : f.by # p
  /\ DueNow # {}
  /\ \A d \in DueNow : deliveries[d].attempts < ATTEMPTS_CHECK
  /\ deliveries' = [d \in Delivery |->
       IF d \in DueNow THEN [deliveries[d] EXCEPT !.attempts = @ + 1, !.wait = "LEASE"] ELSE deliveries[d]]
  /\ flights' = flights \cup Claimed(p)
  /\ UNCHANGED <<hooks, raised, stops>>

\* The receiver's answer: accepted (2xx), worth another try (no answer, 408, 429, 5xx) or
\* refused for good (a blocked address, a redirect, another client error).
Send(f, result) ==
  /\ f.result = None
  /\ flights' = (flights \ {f}) \cup {[f EXCEPT !.result = result]}
  /\ UNCHANGED <<hooks, deliveries, raised, stops>>

Outcome(f) ==
  CASE f.result = "accepted" -> "DELIVERED"
    [] f.result = "retry" /\ f.attempt < MAX_ATTEMPTS -> "PENDING"
    [] OTHER -> "FAILED"

Stored(f) ==
  [deliveries EXCEPT ![f.delivery].status = Outcome(f),
                     ![f.delivery].wait = IF Outcome(f) = "PENDING" THEN "RETRY" ELSE "DUE"]

\* Faulty: any outcome of an open delivery counts.
RecordLate(f) ==
  /\ f.result # None
  /\ flights' = flights \ {f}
  /\ deliveries' = IF Pending(f.delivery) THEN Stored(f) ELSE deliveries
  /\ UNCHANGED <<hooks, raised, stops>>

\* The outcome counts only while the attempt is the delivery's latest.
RecordOutcome(f) ==
  /\ f.result # None
  /\ flights' = flights \ {f}
  /\ deliveries' = IF Pending(f.delivery) /\ deliveries[f.delivery].attempts = f.attempt
                     THEN Stored(f) ELSE deliveries
  /\ UNCHANGED <<hooks, raised, stops>>

\* The delay before a retry is over, or the lease of an attempt nobody holds any more.
FallsDue(d) ==
  /\ Pending(d)
  /\ deliveries[d].wait # "DUE"
  /\ \A f \in FlightsOf(d) : f.attempt # deliveries[d].attempts
  /\ deliveries' = [deliveries EXCEPT ![d].wait = "DUE"]
  /\ UNCHANGED <<hooks, raised, flights, stops>>

\* The lease ends while a slow dispatcher still has the attempt.
Stall(d) ==
  /\ stops < MaxStops
  /\ Pending(d)
  /\ deliveries[d].wait = "LEASE"
  /\ \E f \in FlightsOf(d) : f.attempt = deliveries[d].attempts
  /\ deliveries' = [deliveries EXCEPT ![d].wait = "DUE"]
  /\ stops' = stops + 1
  /\ UNCHANGED <<hooks, raised, flights>>

\* The process stops, or an outcome cannot be stored: the rest of its batch is forgotten.
Interrupt(p) ==
  /\ stops < MaxStops
  /\ \E f \in flights : f.by = p
  /\ flights' = {f \in flights : f.by # p}
  /\ stops' = stops + 1
  /\ UNCHANGED <<hooks, deliveries, raised>>

Results == {"accepted", "retry", "refused"}

WebhookNext ==
  \/ \E h \in Hooks :
       AddHook(h) \/ (\E status \in {"ACTIVE", "DISABLED"} : SetHookStatus(h, status)) \/ \E e \in Tests : TestHook(h, e)
  \/ \E a \in Alerts : RaiseAlert(a)
  \/ \E p \in Dispatchers : ClaimDue(p) \/ Interrupt(p)
  \/ \E f \in flights : RecordOutcome(f) \/ \E result \in Results : Send(f, result)
  \/ \E d \in Delivery : FallsDue(d) \/ Stall(d)

WebhookSpec == WebhookInit /\ [][WebhookNext]_webhookVars

SendAny == \E f \in flights : \E result \in Results : Send(f, result)
RecordAny == \E f \in flights : RecordOutcome(f)

\* A process dispatches at an interval, a request has a time limit, and time passes.
WebhookFairness ==
  /\ \A p \in Dispatchers : WF_webhookVars(ClaimDue(p))
  /\ WF_webhookVars(SendAny)
  /\ WF_webhookVars(RecordAny)
  /\ \A d \in Delivery : WF_webhookVars(FallsDue(d))

(***************************************************************************)
(* Properties                                                              *)
(***************************************************************************)
\* The state has its type; an attempt in flight is one the row has counted.
WebhookTypeOK ==
  /\ hooks \in [Hooks -> {None, "ACTIVE", "DISABLED"}]
  /\ deliveries \in [Delivery -> {None} \cup Deliveries]
  /\ raised \subseteq Alerts
  /\ flights \subseteq [by : Dispatchers, delivery : Delivery, attempt : 1..ATTEMPTS_CHECK, result : Results \cup {None}]
  /\ stops \in 0..MaxStops
  /\ \A f \in flights : deliveries[f.delivery] # None /\ f.attempt <= deliveries[f.delivery].attempts

\* While the latest attempt is under way the delivery is open: the late outcome of an earlier
\* attempt never closes it or moves its lease (attempt's `attempts=?`).
OpenWhileTrying ==
  \A f \in flights : f.attempt = deliveries[f.delivery].attempts =>
    Pending(f.delivery) /\ (deliveries[f.delivery].wait = "DUE" => stops > 0)

\* Two processes send one delivery at the same time only after a lease ended under one of them.
OneSender == \A d \in Delivery : Cardinality(FlightsOf(d)) <= 1 + stops

\* af_alert_webhook_delivery_progress: what the table lets a delivery's row become.
Progress(x, y) == x.status = "PENDING" /\ y.attempts >= x.attempts

Uncounted(x, y) == y.attempts = x.attempts
Attempted(x, y) == x.wait = "DUE" /\ y.wait = "LEASE" /\ y.attempts = x.attempts + 1

\* A delivery that was delivered or given up stays so, and no attempt is taken back: neither a late
\* outcome nor a claim nor an interruption makes the table refuse the write of a batch.  An attempt
\* is counted only of a delivery that is due, by one, and leases it (dispatchDue).
DeliveriesProgress ==
  [][\A d \in Delivery : deliveries[d] # None /\ deliveries'[d] # deliveries[d] =>
       /\ deliveries'[d] # None /\ Progress(deliveries[d], deliveries'[d])
       /\ Uncounted(deliveries[d], deliveries'[d]) \/ Attempted(deliveries[d], deliveries'[d])]_webhookVars

\* "Up to six attempts": one more only for each attempt that was interrupted, or whose lease ended
\* under it.
AttemptsBounded == \A d \in Delivery : deliveries[d] # None => deliveries[d].attempts <= MAX_ATTEMPTS + stops

\* What is stored of a delivery and what its senders do agree.
WebhooksSound == WebhookTypeOK /\ OneSender /\ OpenWhileTrying /\ AttemptsBounded

\* A queued delivery to an endpoint that is enabled was delivered or given up.
DeliveriesSettled == \A d \in Delivery : Pending(d) => hooks[d[1]] = "DISABLED"
=============================================================================
