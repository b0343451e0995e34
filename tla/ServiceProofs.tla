--------------------------- MODULE ServiceProofs ---------------------------
(***************************************************************************)
(* Theorems about services of the control plane that need nothing of each  *)
(* other: AlertWebhooks, ArtifactStore, ModelSpending and ExecutionGrants, *)
(* each in a part of its own.                                              *)
(***************************************************************************)
EXTENDS AlertWebhooks, ArtifactStore, ModelSpending, ExecutionGrants,
        FiniteSetTheorems, WellFoundedInduction, TLAPS

(***************************************************************************)
(* Theorems about AlertWebhooks, for every number of endpoints, events and *)
(* dispatchers, and any number of interruptions. The row's attempt count   *)
(* numbers the senders of a delivery, so at most one of them holds the     *)
(* latest attempt; every other one outlived the lease of an attempt that   *)
(* came after it, which took an interruption.                              *)
(***************************************************************************)

Flight == [by : Dispatchers, delivery : Delivery, attempt : 1..ATTEMPTS_CHECK, result : Results \cup {None}]

\* The sender whose attempt is the one the row counts.
Latest(d) == {f \in FlightsOf(d) : f.attempt = deliveries[d].attempts}

\* Of the senders of a delivery none but the latest goes without an interruption.
Bounded(d) ==
  /\ IsFiniteSet(FlightsOf(d))
  /\ deliveries[d].wait = "DUE" => Cardinality(FlightsOf(d)) <= stops
  /\ Latest(d) = {} => Cardinality(FlightsOf(d)) <= stops
  /\ Cardinality(FlightsOf(d)) <= stops + 1

Fits(d) ==
  /\ deliveries[d] = None => FlightsOf(d) = {}
  /\ d[2] \in Alerts \ raised => deliveries[d] = None
  /\ \A f, g \in FlightsOf(d) : f.attempt = g.attempt => f = g
  /\ deliveries[d] # None =>
       /\ Bounded(d)
       /\ \A f \in FlightsOf(d) : f.attempt <= deliveries[d].attempts
       /\ \A f \in Latest(d) : Pending(d) /\ (deliveries[d].wait = "DUE" => stops > 0)

Typed ==
  /\ hooks \in [Hooks -> {None, "ACTIVE", "DISABLED"}]
  /\ deliveries \in [Delivery -> {None} \cup Deliveries]
  /\ raised \subseteq Alerts
  /\ flights \subseteq Flight
  /\ stops \in 0..MaxStops

WebhooksInductive == Typed /\ \A d \in Delivery : Fits(d)

LEMMA WebhooksInductiveInit == ASSUME WebhookInit PROVE WebhooksInductive
  BY StopsAssumption DEF WebhookInit, WebhooksInductive, Typed, Fits, FlightsOf

LEMMA NewFits == NewDelivery \in Deliveries /\ NewDelivery # None /\ NewDelivery.wait = "DUE"
                 /\ NewDelivery.attempts = 0
  BY AttemptsAssumption, WebhookNames DEF NewDelivery, Deliveries

\* What happens to other deliveries, and to other endpoints, changes nothing of this one.
LEMMA Untouched ==
  ASSUME WebhooksInductive, NEW d \in Delivery, deliveries'[d] = deliveries[d],
         FlightsOf(d)' = FlightsOf(d), raised' = raised, stops' \in Nat, stops' >= stops
  PROVE  Fits(d)'
<1>1. Fits(d) /\ stops \in Nat /\ stops' \in Nat /\ stops' >= stops
  BY StopsAssumption DEF WebhooksInductive, Typed
<1>2. Latest(d)' = Latest(d) /\ (Pending(d)' <=> Pending(d))
  BY DEF Latest, Pending
<1>3. CASE deliveries[d] = None
  BY <1>1, <1>3 DEF Fits
<1>4. CASE deliveries[d] # None
  <2>1. Cardinality(FlightsOf(d)) \in Nat
    BY <1>1, <1>4, FS_CardinalityType DEF Fits, Bounded
  <2>2. Bounded(d)'
    BY <1>1, <1>2, <1>4, <2>1 DEF Fits, Bounded
  <2> QED BY <1>1, <1>2, <1>4, <2>2 DEF Fits
<1> QED BY <1>3, <1>4

\* A delivery that is queued has no sender.
LEMMA Queued ==
  ASSUME WebhooksInductive, NEW d \in Delivery, deliveries[d] = None, deliveries'[d] = NewDelivery,
         UNCHANGED <<flights, stops>>, d[2] \notin Alerts \ raised'
  PROVE  Fits(d)'
<1>1. FlightsOf(d)' = {} /\ stops' \in Nat
  BY StopsAssumption DEF WebhooksInductive, Typed, Fits, FlightsOf
<1>2. Latest(d)' = {}
  BY <1>1 DEF Latest
<1>3. Bounded(d)'
  BY <1>1, <1>2, FS_EmptySet DEF Bounded
<1> QED BY <1>1, <1>2, <1>3, NewFits DEF Fits

-----------------------------------------------------------------------------
LEMMA HookSteps ==
  ASSUME WebhooksInductive, NEW h \in Hooks, AddHook(h) \/ \E status \in {"ACTIVE", "DISABLED"} : SetHookStatus(h, status)
  PROVE  WebhooksInductive'
<1>1. UNCHANGED <<deliveries, raised, flights, stops>> /\ stops \in Nat
  BY StopsAssumption DEF AddHook, SetHookStatus, WebhooksInductive, Typed
<1>2. Typed'
  BY <1>1 DEF WebhooksInductive, Typed, AddHook, SetHookStatus
<1>3. \A d \in Delivery : FlightsOf(d)' = FlightsOf(d)
  BY <1>1 DEF FlightsOf
<1> QED BY <1>1, <1>2, <1>3, Untouched DEF WebhooksInductive

LEMMA TestStep ==
  ASSUME WebhooksInductive, NEW h \in Hooks, NEW e \in Tests, TestHook(h, e) PROVE WebhooksInductive'
<1>1. /\ <<h, e>> \in Delivery /\ deliveries[<<h, e>>] = None
      /\ deliveries' = [deliveries EXCEPT ![<<h, e>>] = NewDelivery]
      /\ UNCHANGED <<hooks, raised, flights, stops>> /\ deliveries \in [Delivery -> {None} \cup Deliveries]
  BY DEF TestHook, Delivery, Events, WebhooksInductive, Typed
<1>2. Typed'
  BY <1>1, NewFits DEF WebhooksInductive, Typed
<1>3. Fits(<<h, e>>)'
  BY <1>1, Queued, WebhookNames
<1>4. ASSUME NEW d \in Delivery, d # <<h, e>> PROVE Fits(d)'
  BY <1>1, <1>4, StopsAssumption, Untouched DEF FlightsOf, WebhooksInductive, Typed
<1> QED BY <1>2, <1>3, <1>4 DEF WebhooksInductive

LEMMA RaiseStep ==
  ASSUME WebhooksInductive, NEW a \in Alerts, RaiseAlert(a) PROVE WebhooksInductive'
<1>1. /\ a \notin raised /\ raised' = raised \cup {a} /\ UNCHANGED <<hooks, flights, stops>>
      /\ deliveries \in [Delivery -> {None} \cup Deliveries]
      /\ deliveries' = [d \in Delivery |->
            IF d[2] = a /\ hooks[d[1]] = "ACTIVE" THEN NewDelivery ELSE deliveries[d]]
  BY DEF RaiseAlert, WebhooksInductive, Typed
<1>2. Typed'
  BY <1>1, NewFits DEF WebhooksInductive, Typed
<1>3. ASSUME NEW d \in Delivery PROVE Fits(d)'
  <2>1. CASE deliveries'[d] = deliveries[d]
    <3>1. FlightsOf(d)' = FlightsOf(d) /\ Latest(d)' = Latest(d) /\ stops' = stops /\ (Pending(d)' <=> Pending(d))
      BY <1>1, <2>1 DEF FlightsOf, Latest, Pending
    <3> QED BY <1>1, <2>1, <3>1 DEF WebhooksInductive, Fits, Bounded
  <2>2. CASE d[2] = a /\ deliveries'[d] = NewDelivery
    <3>1. deliveries[d] = None
      BY <1>1, <2>2 DEF WebhooksInductive, Fits
    <3> QED BY <1>1, <2>2, <3>1, Queued
  <2> QED BY <1>1, <2>1, <2>2
<1> QED BY <1>2, <1>3 DEF WebhooksInductive

\* A claim puts a sender on each due delivery, under a number no sender has.
LEMMA ClaimStep ==
  ASSUME WebhooksInductive, NEW p \in Dispatchers, ClaimDue(p) PROVE WebhooksInductive'
<1>1. /\ UNCHANGED <<hooks, raised, stops>> /\ stops \in Nat
      /\ deliveries \in [Delivery -> {None} \cup Deliveries]
      /\ flights' = flights \cup Claimed(p) /\ flights \subseteq Flight
  <2>1. stops \in Nat /\ deliveries \in [Delivery -> {None} \cup Deliveries] /\ flights \subseteq Flight
    BY StopsAssumption DEF WebhooksInductive, Typed
  <2>2. UNCHANGED <<hooks, raised, stops>> /\ flights' = flights \cup Claimed(p)
    BY DEF ClaimDue
  <2> QED BY <2>1, <2>2
<1>2. ASSUME NEW d \in DueNow
      PROVE  /\ d \in Delivery /\ deliveries[d] \in Deliveries /\ Pending(d) /\ deliveries[d].wait = "DUE"
             /\ deliveries[d].attempts + 1 \in 1..ATTEMPTS_CHECK
             /\ deliveries'[d] \in Deliveries /\ deliveries'[d].status = "PENDING" /\ deliveries'[d].wait = "LEASE"
             /\ deliveries'[d].attempts = deliveries[d].attempts + 1
  <2>1. d \in Delivery /\ deliveries[d] \in Deliveries /\ Pending(d) /\ deliveries[d].wait = "DUE"
    BY <1>1, <1>2 DEF DueNow, Pending
  <2>2. deliveries[d].attempts < ATTEMPTS_CHECK /\ deliveries[d].attempts \in 0..ATTEMPTS_CHECK
    BY <1>2, <2>1 DEF ClaimDue, Deliveries
  <2>3. deliveries[d].attempts + 1 \in 1..ATTEMPTS_CHECK /\ deliveries[d].attempts + 1 \in 0..ATTEMPTS_CHECK
    BY <2>2, AttemptsAssumption
  <2>4. deliveries'[d] = [deliveries[d] EXCEPT !.attempts = @ + 1, !.wait = "LEASE"]
    BY <1>2, <2>1 DEF ClaimDue
  <2> QED BY <2>1, <2>3, <2>4 DEF Deliveries, Pending
<1>3. \A d \in Delivery \ DueNow : deliveries'[d] = deliveries[d]
  BY DEF ClaimDue
<1>4. deliveries' \in [Delivery -> {None} \cup Deliveries]
  <2>1. \A d \in Delivery : deliveries'[d] \in {None} \cup Deliveries
    BY <1>1, <1>2, <1>3
  <2> QED BY <2>1 DEF ClaimDue
<1>5. ASSUME NEW g \in Claimed(p)
      PROVE  g \in Flight /\ g.delivery \in DueNow /\ g.attempt = deliveries[g.delivery].attempts + 1
  <2>1. PICK d \in DueNow : g = [by |-> p, delivery |-> d, attempt |-> deliveries[d].attempts + 1, result |-> None]
    BY DEF Claimed
  <2>2. d \in Delivery /\ deliveries[d].attempts + 1 \in 1..ATTEMPTS_CHECK
    BY <1>2
  <2> QED BY <2>1, <2>2 DEF Flight
<1>6. Typed'
  BY <1>1, <1>4, <1>5 DEF WebhooksInductive, Typed
<1>7. ASSUME NEW d \in DueNow PROVE Fits(d)'
  <2> DEFINE g == [by |-> p, delivery |-> d, attempt |-> deliveries[d].attempts + 1, result |-> None]
  <2>1. g \in Claimed(p) /\ g.delivery = d /\ g.attempt = deliveries[d].attempts + 1
    BY <1>7 DEF Claimed
  <2>2. \A f \in Claimed(p) : f.delivery = d => f = g
    BY DEF Claimed
  <2> HIDE DEF g
  <2>3. FlightsOf(d)' = FlightsOf(d) \cup {g}
    BY <1>1, <2>1, <2>2 DEF FlightsOf
  <2>4. Fits(d) /\ deliveries[d] # None /\ Bounded(d) /\ \A f \in FlightsOf(d) : f.attempt <= deliveries[d].attempts
    BY <1>2, <1>7 DEF WebhooksInductive, Fits, Pending
  <2>5. deliveries[d].attempts \in Nat /\ deliveries'[d].attempts = deliveries[d].attempts + 1
        /\ \A f \in FlightsOf(d) : f.attempt \in Nat
    BY <1>1, <1>2, <1>7 DEF Deliveries, FlightsOf, Flight
  <2>6. g \notin FlightsOf(d) /\ \A f \in FlightsOf(d) : f.attempt # g.attempt
    BY <2>1, <2>4, <2>5
  <2>7. /\ IsFiniteSet(FlightsOf(d)') /\ Cardinality(FlightsOf(d)') = Cardinality(FlightsOf(d)) + 1
        /\ Cardinality(FlightsOf(d)) \in Nat /\ Cardinality(FlightsOf(d)) <= stops
    BY <1>2, <1>7, <2>3, <2>4, <2>6, FS_AddElement, FS_CardinalityType DEF Bounded
  <2>8. g \in Latest(d)'
    BY <2>1, <2>3, <2>5 DEF Latest
  <2>9. Bounded(d)'
    BY <1>1, <1>2, <1>7, <2>7, <2>8 DEF Bounded
  <2>10. deliveries'[d] # None /\ Pending(d)'
    BY <1>2, <1>7, WebhookNames DEF Pending
  <2>11. \A f \in FlightsOf(d)' : f.attempt <= deliveries'[d].attempts
    BY <2>1, <2>3, <2>4, <2>5
  <2>12. \A e, f \in FlightsOf(d)' : e.attempt = f.attempt => e = f
    BY <2>3, <2>4, <2>6 DEF Fits
  <2>13. d[2] \notin Alerts \ raised'
    BY <1>1, <2>4 DEF Fits
  <2> QED BY <1>2, <1>7, <2>9, <2>10, <2>11, <2>12, <2>13 DEF Fits
<1>8. ASSUME NEW d \in Delivery \ DueNow PROVE Fits(d)'
  <2>1. FlightsOf(d)' = FlightsOf(d)
    BY <1>1, <1>5, <1>8 DEF FlightsOf
  <2> QED BY <1>1, <1>3, <1>8, <2>1, Untouched
<1> QED BY <1>6, <1>7, <1>8 DEF WebhooksInductive

\* The answer is noted on the sender: as many send as did.
LEMMA SendStep ==
  ASSUME WebhooksInductive, NEW f \in flights, NEW result \in Results, Send(f, result) PROVE WebhooksInductive'
<1> DEFINE g == [f EXCEPT !.result = result]
           d == f.delivery
<1>1. f \in Flight /\ g \in Flight /\ g.delivery = d /\ g.attempt = f.attempt /\ d \in Delivery
  BY DEF WebhooksInductive, Typed, Flight
<1>2. flights' = (flights \ {f}) \cup {g} /\ UNCHANGED <<hooks, deliveries, raised, stops>> /\ stops \in Nat
  BY StopsAssumption DEF Send, WebhooksInductive, Typed
<1> HIDE DEF g
<1>3. Typed'
  BY <1>1, <1>2 DEF WebhooksInductive, Typed
<1>4. Fits(d)'
  <2>1. Fits(d) /\ f \in FlightsOf(d) /\ deliveries[d] # None
    BY <1>1 DEF WebhooksInductive, Fits, FlightsOf
  <2>2. FlightsOf(d)' = (FlightsOf(d) \ {f}) \cup {g}
    BY <1>1, <1>2 DEF FlightsOf
  <2>3. g \notin FlightsOf(d) \ {f}
    BY <1>1, <2>1 DEF Fits
  <2>4. IsFiniteSet(FlightsOf(d)') /\ Cardinality(FlightsOf(d)') = Cardinality(FlightsOf(d))
    <3>1. IsFiniteSet(FlightsOf(d)) /\ Cardinality(FlightsOf(d)) \in Nat
      BY <2>1, FS_CardinalityType DEF Fits, Bounded
    <3> DEFINE R == FlightsOf(d) \ {f}
    <3>2. IsFiniteSet(R) /\ Cardinality(R) = Cardinality(FlightsOf(d)) - 1
      BY <2>1, <3>1, FS_RemoveElement
    <3>3. g \notin R /\ FlightsOf(d)' = R \cup {g}
      BY <2>2, <2>3
    <3> HIDE DEF R
    <3>4. IsFiniteSet(R \cup {g}) /\ Cardinality(R \cup {g}) = Cardinality(R) + 1
      BY <3>2, <3>3, FS_AddElement
    <3> QED BY <3>1, <3>2, <3>3, <3>4
  <2>5. Latest(d)' = {} => Latest(d) = {}
    BY <1>1, <1>2, <2>2 DEF Latest
  <2>6. Bounded(d)'
    BY <1>2, <2>1, <2>4, <2>5 DEF Fits, Bounded
  <2>7. \A e \in FlightsOf(d)' : \E k \in FlightsOf(d) : e.attempt = k.attempt
    BY <1>1, <2>1, <2>2
  <2>8. \A e, k \in FlightsOf(d)' : e.attempt = k.attempt => e = k
    BY <1>1, <2>1, <2>2 DEF Fits
  <2>9. \A e \in Latest(d)' : Pending(d)' /\ (deliveries'[d].wait = "DUE" => stops' > 0)
    <3>1. (Pending(d)' <=> Pending(d)) /\ deliveries'[d] = deliveries[d] /\ stops' = stops
      BY <1>2 DEF Pending
    <3>2. ASSUME NEW e \in Latest(d)' PROVE \E k \in Latest(d) : TRUE
      <4>1. e \in FlightsOf(d)' /\ e.attempt = deliveries[d].attempts
        BY <3>1 DEF Latest
      <4>2. PICK k \in FlightsOf(d) : e.attempt = k.attempt
        BY <2>7, <4>1
      <4>3. k \in Latest(d)
        BY <4>1, <4>2 DEF Latest
      <4> QED BY <4>3
    <3> QED BY <2>1, <3>1, <3>2 DEF Fits
  <2> QED BY <1>2, <2>1, <2>6, <2>7, <2>8, <2>9 DEF Fits
<1>5. ASSUME NEW e \in Delivery, e # d PROVE Fits(e)'
  <2>1. FlightsOf(e)' = FlightsOf(e)
    BY <1>1, <1>2, <1>5 DEF FlightsOf
  <2> QED BY <1>2, <1>5, <2>1, Untouched
<1> QED BY <1>3, <1>4, <1>5 DEF WebhooksInductive

\* Fewer send, and of the row no more than its status and its delay change.
LEMMA Fewer ==
  ASSUME WebhooksInductive, NEW d \in Delivery, deliveries[d] # None, deliveries'[d] # None,
         deliveries'[d].attempts = deliveries[d].attempts,
         FlightsOf(d)' \subseteq FlightsOf(d), raised' = raised, stops' \in Nat,
         \A f \in Latest(d)' : Pending(d)' /\ (deliveries'[d].wait = "DUE" => stops' > 0),
         deliveries'[d].wait = "DUE" \/ Latest(d)' = {} => Cardinality(FlightsOf(d)') <= stops',
         Cardinality(FlightsOf(d)') <= stops' + 1
  PROVE  Fits(d)'
<1>1. Fits(d)
  BY DEF WebhooksInductive
<1>2. IsFiniteSet(FlightsOf(d)')
  BY <1>1, FS_Subset DEF Fits, Bounded
<1>3. Bounded(d)'
  BY <1>2 DEF Bounded
<1> QED BY <1>1, <1>3 DEF Fits

\* An outcome ends its sender; the row changes only if the sender was the latest.
LEMMA RecordStep ==
  ASSUME WebhooksInductive, NEW f \in flights, RecordOutcome(f) PROVE WebhooksInductive'
<1> DEFINE d == f.delivery
<1>1. /\ f \in Flight /\ d \in Delivery /\ f \in FlightsOf(d) /\ stops \in Nat
      /\ deliveries \in [Delivery -> {None} \cup Deliveries]
  BY StopsAssumption DEF WebhooksInductive, Typed, Flight, FlightsOf
<1>2. flights' = flights \ {f} /\ UNCHANGED <<hooks, raised, stops>>
  BY DEF RecordOutcome
<1>3. Fits(d) /\ deliveries[d] \in Deliveries /\ deliveries[d] # None
  BY <1>1 DEF WebhooksInductive, Fits
<1>4. /\ FlightsOf(d)' = FlightsOf(d) \ {f}
      /\ \A e \in Delivery \ {d} : FlightsOf(e)' = FlightsOf(e)
  BY <1>1, <1>2 DEF FlightsOf
<1>5. /\ Cardinality(FlightsOf(d)) \in Nat /\ Cardinality(FlightsOf(d)') = Cardinality(FlightsOf(d)) - 1
      /\ Cardinality(FlightsOf(d)) <= stops + 1
      /\ deliveries[d].wait = "DUE" \/ Latest(d) = {} => Cardinality(FlightsOf(d)) <= stops
  BY <1>1, <1>3, <1>4, FS_CardinalityType, FS_RemoveElement DEF Fits, Bounded
<1>6. CASE deliveries' = deliveries
  <2>1. Typed'
    BY <1>2, <1>6 DEF WebhooksInductive, Typed
  <2>2. Latest(d)' \subseteq Latest(d) /\ (Pending(d)' <=> Pending(d))
    BY <1>4, <1>6 DEF Latest, Pending
  <2>3. Fits(d)'
    <3>1. \A k \in Latest(d)' : Pending(d)' /\ (deliveries'[d].wait = "DUE" => stops' > 0)
      BY <1>2, <1>3, <1>6, <2>2 DEF Fits
    <3>2. Cardinality(FlightsOf(d)') <= stops' /\ Cardinality(FlightsOf(d)') <= stops' + 1
      BY <1>1, <1>2, <1>5
    <3> QED BY <1>1, <1>2, <1>3, <1>4, <1>6, <3>1, <3>2, Fewer
  <2>4. ASSUME NEW e \in Delivery, e # d PROVE Fits(e)'
    BY <1>1, <1>2, <1>4, <1>6, <2>4, Untouched
  <2> QED BY <2>1, <2>3, <2>4 DEF WebhooksInductive
<1>7. CASE Pending(d) /\ deliveries[d].attempts = f.attempt /\ deliveries' = Stored(f)
  <2> DEFINE wait == IF Outcome(f) = "PENDING" THEN "RETRY" ELSE "DUE"
             x == [deliveries[d] EXCEPT !.status = Outcome(f), !.wait = wait]
  <2>1. Outcome(f) \in {"PENDING", "DELIVERED", "FAILED"} /\ wait \in {"RETRY", "DUE"}
    BY DEF Outcome
  <2>2. x \in Deliveries /\ x.attempts = deliveries[d].attempts
    BY <1>3, <2>1 DEF Deliveries
  <2>3. deliveries' = [deliveries EXCEPT ![d] = x]
    BY <1>1, <1>3, <1>7 DEF Stored
  <2> HIDE DEF x
  <2>4. deliveries'[d] = x /\ deliveries'[d] # None /\ \A e \in Delivery \ {d} : deliveries'[e] = deliveries[e]
    BY <1>1, <2>2, <2>3, WebhookNames
  <2>5. Typed'
    BY <1>1, <1>2, <2>2, <2>3 DEF WebhooksInductive, Typed
  <2>6. Latest(d)' = {}
    <3> SUFFICES ASSUME NEW k \in FlightsOf(d)', k.attempt = deliveries'[d].attempts PROVE FALSE
      BY DEF Latest
    <3>1. k \in FlightsOf(d) /\ k # f /\ k.attempt = f.attempt
      BY <1>4, <1>7, <2>2, <2>4
    <3> QED BY <1>1, <1>3, <3>1 DEF Fits
  <2>7. Cardinality(FlightsOf(d)') <= stops' /\ Cardinality(FlightsOf(d)') <= stops' + 1
    BY <1>1, <1>2, <1>5
  <2>8. Fits(d)'
    BY <1>1, <1>2, <1>3, <1>4, <2>2, <2>4, <2>6, <2>7, Fewer
  <2>9. ASSUME NEW e \in Delivery, e # d PROVE Fits(e)'
    BY <1>1, <1>2, <1>4, <2>4, <2>9, Untouched
  <2> QED BY <2>5, <2>8, <2>9 DEF WebhooksInductive
<1> QED BY <1>6, <1>7 DEF RecordOutcome

\* FallsDue and Stall: nobody holds the latest attempt, or this is an interruption.
LEMMA DueStep ==
  ASSUME WebhooksInductive, NEW d \in Delivery, FallsDue(d) \/ Stall(d) PROVE WebhooksInductive'
<1> DEFINE x == [deliveries[d] EXCEPT !.wait = "DUE"]
<1>1. /\ UNCHANGED <<hooks, raised, flights>> /\ deliveries' = [deliveries EXCEPT ![d] = x]
      /\ Pending(d) /\ deliveries[d] \in Deliveries /\ deliveries[d] # None
      /\ deliveries \in [Delivery -> {None} \cup Deliveries] /\ stops \in 0..MaxStops
  BY DEF FallsDue, Stall, Pending, WebhooksInductive, Typed
<1>2. x \in Deliveries /\ x.attempts = deliveries[d].attempts /\ x.status = deliveries[d].status /\ x.wait = "DUE"
  BY <1>1 DEF Deliveries
<1> HIDE DEF x
<1>3. \/ stops' = stops /\ Latest(d) = {}
      \/ stops' = stops + 1 /\ stops < MaxStops
  BY DEF FallsDue, Stall, Latest
<1>4. stops \in Nat /\ stops' \in 0..MaxStops /\ stops' \in Nat /\ stops' >= stops
  BY <1>1, <1>3, StopsAssumption
<1>5. Typed'
  BY <1>1, <1>2, <1>4 DEF WebhooksInductive, Typed
<1>6. \A e \in Delivery : FlightsOf(e)' = FlightsOf(e)
  BY <1>1 DEF FlightsOf
<1>7. deliveries'[d] = x /\ deliveries'[d] # None /\ Pending(d)' /\ \A e \in Delivery \ {d} : deliveries'[e] = deliveries[e]
  BY <1>1, <1>2, WebhookNames DEF Pending
<1>8. Latest(d)' = Latest(d)
  BY <1>2, <1>6, <1>7 DEF Latest
<1>9. Fits(d)'
  <2>1. Fits(d) /\ Cardinality(FlightsOf(d)) \in Nat
    BY <1>1, FS_CardinalityType DEF WebhooksInductive, Fits, Bounded
  <2>2. Cardinality(FlightsOf(d)) <= stops' /\ Cardinality(FlightsOf(d)) <= stops' + 1
    BY <1>1, <1>3, <1>4, <2>1 DEF Fits, Bounded
  <2>3. Latest(d) # {} => stops' > 0
    BY <1>3, <1>4
  <2> QED BY <1>1, <1>2, <1>4, <1>6, <1>7, <1>8, <2>2, <2>3, Fewer
<1>10. ASSUME NEW e \in Delivery, e # d PROVE Fits(e)'
  BY <1>1, <1>4, <1>6, <1>7, <1>10, Untouched
<1> QED BY <1>5, <1>9, <1>10 DEF WebhooksInductive

LEMMA InterruptStep ==
  ASSUME WebhooksInductive, NEW p \in Dispatchers, Interrupt(p) PROVE WebhooksInductive'
<1>1. /\ UNCHANGED <<hooks, deliveries, raised>> /\ flights' \subseteq flights
      /\ stops \in Nat /\ stops' = stops + 1 /\ stops' \in Nat /\ stops' \in 0..MaxStops
  BY StopsAssumption DEF Interrupt, WebhooksInductive, Typed
<1>2. Typed'
  BY <1>1 DEF WebhooksInductive, Typed
<1>3. ASSUME NEW d \in Delivery PROVE Fits(d)'
  <2>1. Fits(d) /\ FlightsOf(d)' \subseteq FlightsOf(d) /\ Latest(d)' \subseteq Latest(d) /\ (Pending(d)' <=> Pending(d))
    BY <1>1 DEF WebhooksInductive, FlightsOf, Latest, Pending
  <2>2. CASE deliveries[d] = None
    BY <1>1, <2>1, <2>2 DEF Fits
  <2>3. CASE deliveries[d] # None
    <3>1. /\ Cardinality(FlightsOf(d)) \in Nat /\ Cardinality(FlightsOf(d)) <= stops + 1
          /\ Cardinality(FlightsOf(d)') \in Nat /\ Cardinality(FlightsOf(d)') <= Cardinality(FlightsOf(d))
      BY <2>1, <2>3, FS_Subset, FS_CardinalityType DEF Fits, Bounded
    <3>2. Cardinality(FlightsOf(d)') <= stops' /\ Cardinality(FlightsOf(d)') <= stops' + 1
      BY <1>1, <3>1
    <3>3. \A f \in Latest(d)' : Pending(d)' /\ (deliveries'[d].wait = "DUE" => stops' > 0)
      BY <1>1, <2>1, <2>3 DEF Fits
    <3> QED BY <1>1, <2>1, <2>3, <3>2, <3>3, Fewer
  <2> QED BY <2>2, <2>3
<1> QED BY <1>2, <1>3 DEF WebhooksInductive

LEMMA WebhooksInductiveStep ==
  ASSUME WebhooksInductive, [WebhookNext]_webhookVars PROVE WebhooksInductive'
<1>1. CASE UNCHANGED webhookVars
  <2>1. \A d \in Delivery : FlightsOf(d)' = FlightsOf(d)
    BY <1>1 DEF webhookVars, FlightsOf
  <2>2. Typed' /\ stops' \in Nat /\ stops' = stops /\ deliveries' = deliveries /\ raised' = raised
    BY <1>1, StopsAssumption DEF webhookVars, WebhooksInductive, Typed
  <2> QED BY <2>1, <2>2, Untouched DEF WebhooksInductive
<1> QED BY <1>1, HookSteps, TestStep, RaiseStep, ClaimStep, SendStep, RecordStep, DueStep, InterruptStep DEF WebhookNext

LEMMA InductiveSound == ASSUME WebhooksInductive PROVE WebhookTypeOK /\ OneSender /\ OpenWhileTrying
<1>1. Typed /\ stops \in Nat /\ \A d \in Delivery : Fits(d)
  BY StopsAssumption DEF WebhooksInductive, Typed
<1>2. ASSUME NEW f \in flights
      PROVE  /\ f.delivery \in Delivery /\ f \in FlightsOf(f.delivery) /\ deliveries[f.delivery] # None
             /\ f.attempt <= deliveries[f.delivery].attempts
             /\ f.attempt = deliveries[f.delivery].attempts =>
                  Pending(f.delivery) /\ (deliveries[f.delivery].wait = "DUE" => stops > 0)
  <2>1. f.delivery \in Delivery /\ f \in FlightsOf(f.delivery)
    BY <1>1 DEF Typed, Flight, FlightsOf
  <2>2. Fits(f.delivery)
    BY <1>1, <2>1
  <2> QED BY <2>1, <2>2 DEF Fits, Latest
<1>3. WebhookTypeOK
  BY <1>1, <1>2 DEF Typed, WebhookTypeOK, Flight
<1>4. OneSender
  <2> SUFFICES ASSUME NEW d \in Delivery PROVE Cardinality(FlightsOf(d)) <= 1 + stops
    BY DEF OneSender
  <2>1. CASE deliveries[d] = None
    BY <1>1, <2>1, FS_EmptySet DEF Fits
  <2>2. CASE deliveries[d] # None
    BY <1>1, <2>2, FS_CardinalityType DEF Fits, Bounded
  <2> QED BY <2>1, <2>2
<1>5. OpenWhileTrying
  BY <1>2 DEF OpenWhileTrying
<1> QED BY <1>3, <1>4, <1>5

\* The row counts no more than MAX_ATTEMPTS attempts and one for each interruption, and one less
\* while another attempt may be taken.
Counted(d) ==
  deliveries[d] # None =>
    /\ deliveries[d].attempts <= MAX_ATTEMPTS + stops
    /\ Pending(d) /\ (deliveries[d].wait = "DUE" \/ Latest(d) = {}) => deliveries[d].attempts < MAX_ATTEMPTS + stops

\* A row that stays as it was, when no sender of its latest attempt is gone or another interruption
\* has been.
LEMMA StillCounted ==
  ASSUME WebhooksInductive, NEW d \in Delivery, Counted(d), deliveries'[d] = deliveries[d],
         \/ stops' = stops /\ (Latest(d)' = {} => Latest(d) = {})
         \/ stops' = stops + 1
  PROVE  Counted(d)'
<1>1. stops \in Nat /\ MAX_ATTEMPTS \in Nat /\ (Pending(d)' <=> Pending(d))
      /\ (deliveries[d] # None => deliveries[d].attempts \in Nat)
  BY StopsAssumption, AttemptsAssumption DEF WebhooksInductive, Typed, Deliveries, Pending
<1> QED BY <1>1 DEF Counted

LEMMA CountedStep ==
  ASSUME WebhooksInductive, WebhooksInductive', [WebhookNext]_webhookVars, NEW d \in Delivery, Counted(d)
  PROVE  Counted(d)'
<1>1. /\ stops \in Nat /\ MAX_ATTEMPTS \in Nat \ {0} /\ Fits(d) /\ Fits(d)' /\ flights \subseteq Flight
      /\ deliveries \in [Delivery -> {None} \cup Deliveries] /\ deliveries' \in [Delivery -> {None} \cup Deliveries]
      /\ deliveries[d] # None => deliveries[d].attempts \in Nat
      /\ deliveries'[d] # None => deliveries'[d].attempts \in Nat
  BY StopsAssumption, AttemptsAssumption DEF WebhooksInductive, Typed, Deliveries
<1>2. CASE UNCHANGED <<deliveries, flights, stops>>
  BY <1>2, StillCounted DEF Latest, FlightsOf
<1>3. ASSUME deliveries'[d] = NewDelivery, stops' = stops PROVE Counted(d)'
  BY <1>1, <1>3, NewFits DEF Counted
<1>4. ASSUME NEW h \in Hooks, NEW e \in Tests, TestHook(h, e) PROVE Counted(d)'
  <2>1. deliveries'[d] \in {deliveries[d], NewDelivery} /\ UNCHANGED <<flights, stops>>
    BY <1>1, <1>4 DEF TestHook
  <2> QED BY <1>3, <2>1, StillCounted DEF Latest, FlightsOf
<1>5. ASSUME NEW a \in Alerts, RaiseAlert(a) PROVE Counted(d)'
  <2>1. deliveries'[d] \in {deliveries[d], NewDelivery} /\ UNCHANGED <<flights, stops>>
    BY <1>1, <1>5 DEF RaiseAlert
  <2> QED BY <1>3, <2>1, StillCounted DEF Latest, FlightsOf
<1>6. ASSUME NEW p \in Dispatchers, ClaimDue(p) PROVE Counted(d)'
  <2>1. CASE d \in DueNow
    <3> DEFINE f == [by |-> p, delivery |-> d, attempt |-> deliveries[d].attempts + 1, result |-> None]
    <3>1. Pending(d) /\ deliveries[d].wait = "DUE" /\ deliveries[d] # None /\ stops' = stops
          /\ deliveries'[d] = [deliveries[d] EXCEPT !.attempts = @ + 1, !.wait = "LEASE"]
      BY <1>6, <2>1 DEF ClaimDue, DueNow, Pending
    <3>2. deliveries[d] \in Deliveries /\ deliveries'[d].attempts = deliveries[d].attempts + 1 /\ deliveries'[d].wait = "LEASE"
      BY <1>1, <3>1 DEF Deliveries
    <3>3. f \in flights' /\ f.delivery = d /\ f.attempt = deliveries'[d].attempts
      BY <1>6, <2>1, <3>2 DEF ClaimDue, Claimed
    <3> HIDE DEF f
    <3>4. Latest(d)' # {}
      BY <3>3 DEF Latest, FlightsOf
    <3> QED BY <1>1, <3>1, <3>2, <3>4 DEF Counted
  <2>2. CASE d \notin DueNow
    <3>1. deliveries'[d] = deliveries[d] /\ stops' = stops /\ flights \subseteq flights'
      BY <1>6, <2>2 DEF ClaimDue
    <3>2. Latest(d)' = {} => Latest(d) = {}
      BY <3>1 DEF Latest, FlightsOf
    <3> QED BY <3>1, <3>2, StillCounted
  <2> QED BY <2>1, <2>2
<1>7. ASSUME NEW f \in flights, NEW result \in Results, Send(f, result) PROVE Counted(d)'
  <2> DEFINE g == [f EXCEPT !.result = result]
  <2>1. deliveries' = deliveries /\ stops' = stops /\ flights' = (flights \ {f}) \cup {g}
        /\ g.delivery = f.delivery /\ g.attempt = f.attempt
    BY <1>1, <1>7 DEF Send, Flight
  <2> HIDE DEF g
  <2>2. Latest(d)' = {} => Latest(d) = {}
    BY <2>1 DEF Latest, FlightsOf
  <2> QED BY <2>1, <2>2, StillCounted
<1>8. ASSUME NEW f \in flights, RecordOutcome(f) PROVE Counted(d)'
  <2>1. stops' = stops /\ flights' = flights \ {f} /\ f \in Flight
    BY <1>1, <1>8 DEF RecordOutcome
  <2>2. CASE f.delivery = d /\ Pending(d) /\ deliveries[d].attempts = f.attempt
    <3>1. deliveries'[d] = [deliveries[d] EXCEPT !.status = Outcome(f),
                                                 !.wait = IF Outcome(f) = "PENDING" THEN "RETRY" ELSE "DUE"]
          /\ deliveries[d] \in Deliveries
      BY <1>1, <1>8, <2>2 DEF RecordOutcome, Stored, Pending
    <3>2. deliveries'[d].attempts = deliveries[d].attempts /\ deliveries'[d].status = Outcome(f)
      BY <3>1 DEF Deliveries
    <3>3. Outcome(f) = "PENDING" => f.attempt < MAX_ATTEMPTS
      BY DEF Outcome
    <3>4. Pending(d)' => deliveries'[d].attempts < MAX_ATTEMPTS
      BY <2>2, <3>2, <3>3 DEF Pending
    <3> QED BY <1>1, <2>1, <2>2, <3>2, <3>4 DEF Counted, Pending
  <2>3. CASE f.delivery # d
    <3>1. deliveries'[d] = deliveries[d] /\ Latest(d)' = Latest(d)
      BY <1>1, <1>8, <2>1, <2>3 DEF RecordOutcome, Stored, Latest, FlightsOf
    <3> QED BY <2>1, <3>1, StillCounted
  <2>4. CASE f.delivery = d /\ ~(Pending(d) /\ deliveries[d].attempts = f.attempt)
    <3>1. deliveries' = deliveries
      BY <1>8, <2>4 DEF RecordOutcome
    <3>2. f \notin Latest(d)
      BY <1>1, <2>4 DEF Fits, Latest, FlightsOf
    <3>3. Latest(d)' = Latest(d)
      BY <2>1, <3>1, <3>2 DEF Latest, FlightsOf
    <3> QED BY <2>1, <3>1, <3>3, StillCounted
  <2> QED BY <2>2, <2>3, <2>4
<1>9. ASSUME NEW e \in Delivery, FallsDue(e) \/ Stall(e) PROVE Counted(d)'
  <2>1. CASE e = d
    <3>1. deliveries[d] # None /\ Pending(d) /\ deliveries'[d] = [deliveries[d] EXCEPT !.wait = "DUE"]
          /\ ((stops' = stops /\ Latest(d) = {}) \/ stops' = stops + 1)
      BY <1>1, <1>9, <2>1 DEF FallsDue, Stall, Pending, Latest
    <3>2. deliveries'[d].attempts = deliveries[d].attempts
      BY <1>1, <3>1 DEF Deliveries
    <3> QED BY <1>1, <3>1, <3>2 DEF Counted
  <2>2. CASE e # d
    <3>1. deliveries'[d] = deliveries[d] /\ flights' = flights /\ stops' \in {stops, stops + 1}
      BY <1>1, <1>9, <2>2 DEF FallsDue, Stall
    <3> QED BY <3>1, StillCounted DEF Latest, FlightsOf
  <2> QED BY <2>1, <2>2
<1>10. ASSUME NEW p \in Dispatchers, Interrupt(p) PROVE Counted(d)'
  BY <1>10, StillCounted DEF Interrupt
<1> QED BY <1>2, <1>4, <1>5, <1>6, <1>7, <1>8, <1>9, <1>10
        DEF WebhookNext, webhookVars, AddHook, SetHookStatus

LEMMA CountedInit == ASSUME WebhookInit PROVE \A d \in Delivery : Counted(d)
  BY DEF WebhookInit, Counted

\* However many processes dispatch and however they stop or stall, the latest attempt of
\* a delivery has one sender and an open row, another sends beside it only after an interruption,
\* and each interruption gives it one attempt more at most (alert-webhook-service.ts, claim and
\* attempt).
THEOREM WebhooksSoundHolds == WebhookSpec => []WebhooksSound
<1> DEFINE Inv == WebhooksInductive /\ \A d \in Delivery : Counted(d)
<1>1. WebhookInit => Inv
  BY WebhooksInductiveInit, CountedInit
<1>2. ASSUME Inv, [WebhookNext]_webhookVars PROVE Inv'
  BY <1>2, WebhooksInductiveStep, CountedStep
<1>3. Inv => WebhooksSound
  BY InductiveSound DEF WebhooksSound, AttemptsBounded, Counted
<1> QED BY <1>1, <1>2, <1>3, PTL DEF WebhookSpec

\* A row changes by a claim, an outcome of its latest attempt or the end of a wait, all of an open delivery.
Proceeds(d) ==
  /\ deliveries'[d] # None /\ Progress(deliveries[d], deliveries'[d])
  /\ Uncounted(deliveries[d], deliveries'[d]) \/ Attempted(deliveries[d], deliveries'[d])

LEMMA ProgressStep ==
  ASSUME WebhooksInductive, [WebhookNext]_webhookVars, NEW d \in Delivery, deliveries[d] # None, deliveries'[d] # deliveries[d]
  PROVE  Proceeds(d)
<1>1. /\ deliveries \in [Delivery -> {None} \cup Deliveries] /\ deliveries[d] \in Deliveries
      /\ deliveries[d].attempts \in Nat /\ Fits(d)
  BY AttemptsAssumption DEF WebhooksInductive, Typed, Deliveries
<1>2. ASSUME NEW x \in Deliveries, deliveries'[d] = x, Pending(d), x.attempts >= deliveries[d].attempts,
             Uncounted(deliveries[d], x) \/ Attempted(deliveries[d], x)
      PROVE  Proceeds(d)
  BY <1>2, WebhookNames DEF Proceeds, Pending, Progress
<1>3. ASSUME NEW h \in Hooks, NEW e \in Tests, TestHook(h, e) PROVE FALSE
  <2>1. deliveries[<<h, e>>] = None /\ <<h, e>> # d
    BY <1>3 DEF TestHook
  <2> QED BY <1>1, <1>3, <2>1 DEF TestHook
<1>4. ASSUME NEW a \in Alerts, RaiseAlert(a) PROVE FALSE
  BY <1>1, <1>4 DEF RaiseAlert, Fits
<1>5. ASSUME NEW p \in Dispatchers, ClaimDue(p) PROVE Proceeds(d)
  <2> DEFINE x == [deliveries[d] EXCEPT !.attempts = @ + 1, !.wait = "LEASE"]
  <2>1. deliveries'[d] = x /\ Pending(d) /\ d \in DueNow
    BY <1>5 DEF ClaimDue, DueNow
  <2>2. deliveries[d].attempts < ATTEMPTS_CHECK
    BY <1>5, <2>1 DEF ClaimDue
  <2>3. deliveries[d].attempts + 1 \in 0..ATTEMPTS_CHECK /\ deliveries[d].attempts + 1 >= deliveries[d].attempts
    BY <1>1, <2>2, AttemptsAssumption
  <2>4. x \in Deliveries /\ x.attempts >= deliveries[d].attempts /\ Attempted(deliveries[d], x)
    BY <1>1, <2>1, <2>3 DEF Deliveries, DueNow, Attempted
  <2> HIDE DEF x
  <2> QED BY <1>2, <2>1, <2>4
<1>6. ASSUME NEW f \in flights, RecordOutcome(f) PROVE Proceeds(d)
  <2> DEFINE x == [deliveries[d] EXCEPT !.status = Outcome(f), !.wait = IF Outcome(f) = "PENDING" THEN "RETRY" ELSE "DUE"]
  <2>1. f.delivery \in Delivery /\ Pending(f.delivery) /\ deliveries' = Stored(f)
    BY <1>6 DEF WebhooksInductive, Typed, Flight, RecordOutcome
  <2>2. d = f.delivery /\ deliveries'[d] = x
    BY <1>1, <2>1 DEF Stored
  <2>3. x \in Deliveries /\ x.attempts = deliveries[d].attempts /\ Uncounted(deliveries[d], x)
    BY <1>1 DEF Deliveries, Outcome, Uncounted
  <2> HIDE DEF x
  <2> QED BY <1>1, <1>2, <2>1, <2>2, <2>3
<1>7. ASSUME NEW e \in Delivery, FallsDue(e) \/ Stall(e) PROVE Proceeds(d)
  <2> DEFINE x == [deliveries[d] EXCEPT !.wait = "DUE"]
  <2>1. Pending(d) /\ deliveries'[d] = x
    BY <1>1, <1>7 DEF FallsDue, Stall
  <2>2. x \in Deliveries /\ x.attempts = deliveries[d].attempts /\ Uncounted(deliveries[d], x)
    BY <1>1 DEF Deliveries, Uncounted
  <2> HIDE DEF x
  <2> QED BY <1>1, <1>2, <2>1, <2>2
<1> QED BY <1>3, <1>4, <1>5, <1>6, <1>7
     DEF WebhookNext, webhookVars, AddHook, SetHookStatus, Interrupt, Send

\* What the table refuses to store nobody tries to store: a delivery that was delivered or
\* given up stays so and no attempt is taken back (af_alert_webhook_delivery_progress); an attempt
\* is counted only of a delivery that is due, and by one.
THEOREM DeliveriesProgressHolds == WebhookSpec => DeliveriesProgress
<1>1. ASSUME WebhooksInductive, [WebhookNext]_webhookVars
      PROVE  [\A d \in Delivery : deliveries[d] # None /\ deliveries'[d] # deliveries[d] =>
                /\ deliveries'[d] # None /\ Progress(deliveries[d], deliveries'[d])
                /\ Uncounted(deliveries[d], deliveries'[d]) \/ Attempted(deliveries[d], deliveries'[d])]_webhookVars
  BY <1>1, ProgressStep DEF Proceeds
<1> QED BY <1>1, WebhooksInductiveInit, WebhooksInductiveStep, PTL DEF WebhookSpec, DeliveriesProgress

(***************************************************************************)
(* ArtifactStore.  What holds of the bytes holds of artifacts the store    *)
(* has kept and no removal overtook: bytes are missing only of what some   *)
(* removal selected, and what was selected is due or deleted.              *)
(***************************************************************************)
\* What is reserved is known: nothing is aged, permitted, removed or read without its row.
Unknown(a) ==
  /\ bytes[a] = None
  /\ a \notin old /\ a \notin expired /\ a \notin permits /\ a \notin selected
  /\ \A u \in uploads : u.artifact # a
  /\ \A c \in checks : c.artifact # a
  /\ \A d \in removals : d.artifact # a

Upload == [artifact : Artifacts, at : {"reserved", "put"}]
Check == [artifact : Artifacts, read : {"declared", "other"}]
Removal == [artifact : Artifacts, at : {"listed", "deleted"}]

ArtifactsTyped ==
  /\ running \in BOOLEAN
  /\ artifact \in [Artifacts -> State \cup {None}]
  /\ bytes \in [Artifacts -> {None, "declared", "other"}]
  /\ uploads \subseteq Upload /\ checks \subseteq Check /\ removals \subseteq Removal
  /\ expired \subseteq (old \cup Ephemeral) \ Held /\ overtaken \subseteq selected /\ selected \subseteq Artifacts
  /\ tampered \subseteq Artifacts /\ reads \subseteq Artifacts
  /\ \A a \in Artifacts : artifact[a] = None => Unknown(a)

Excepted == tampered \cup overtaken
HasBytes(a) == bytes[a] = "declared" \/ a \in selected
UploadFits(u) == u.at = "put" => HasBytes(u.artifact)
CheckFits(c) == c.read = "declared" /\ HasBytes(c.artifact)
RemovalFits(d) ==
  /\ d.artifact \in selected
  /\ d.at = "deleted" => bytes[d.artifact] = None

KeptFits(a) ==
  /\ bytes[a] # "other"
  /\ Is(a, {"STORED", "REGISTERED"}) => HasBytes(a)
  /\ a \in selected => Due(a) \/ artifact[a] = "DELETED"
  /\ artifact[a] = "DELETED" => bytes[a] = None /\ a \in selected
  /\ a \in reads => artifact[a] = "REGISTERED" \/ a \in expired

BytesFit ==
  /\ \A u \in uploads : u.artifact \in Excepted \/ UploadFits(u)
  /\ \A c \in checks : c.artifact \in Excepted \/ CheckFits(c)
  /\ \A d \in removals : d.artifact \in Excepted \/ RemovalFits(d)
  /\ \A a \in Artifacts \ Excepted : KeptFits(a)

LEMMA ArtifactsTypedInit == ASSUME ArtifactInit PROVE ArtifactsTyped
  BY ArtifactNames DEF ArtifactInit, ArtifactsTyped, Unknown, Upload, Check, Removal

\* Uploads and registrations keep the types, and know their row.
LEMMA UploadsTyped ==
  ASSUME ArtifactsTyped,
         \/ \E a \in Artifacts : Keep(a) \/ AuthorizeDirect(a) \/ DirectPut(a) \/ PermitEnds(a) \/ ReadBack(a)
                                 \/ RegisterArtifact(a)
         \/ \E u \in uploads : Put(u) \/ KeepStored(u) \/ UploadFails(u)
  PROVE  ArtifactsTyped'
<1> USE DEF historyVars, Overtakes
<1>1. ASSUME NEW a \in Artifacts, Keep(a) PROVE ArtifactsTyped'
  BY <1>1, ArtifactNames DEF Keep, ReserveRow, Reserved, ArtifactsTyped, Unknown, Upload, State
<1>2. ASSUME NEW a \in Artifacts, AuthorizeDirect(a) PROVE ArtifactsTyped'
  BY <1>2, ArtifactNames DEF AuthorizeDirect, ReserveRow, Reserved, ArtifactsTyped, Unknown, State
<1>3. ASSUME NEW a \in Artifacts, DirectPut(a) PROVE ArtifactsTyped'
  BY <1>3, ArtifactNames DEF DirectPut, ReceiveDirect, SignedPut, StorePut, ArtifactsTyped, Unknown, State
<1>4. ASSUME NEW a \in Artifacts, PermitEnds(a) PROVE ArtifactsTyped'
  BY <1>4 DEF PermitEnds, ArtifactsTyped, Unknown
<1>5. ASSUME NEW a \in Artifacts, ReadBack(a) PROVE ArtifactsTyped'
  BY <1>5, ArtifactNames DEF ReadBack, ArtifactsTyped, Unknown, Check, State
<1>6. ASSUME NEW a \in Artifacts, RegisterArtifact(a) PROVE ArtifactsTyped'
  BY <1>6, ArtifactNames DEF RegisterArtifact, ArtifactsTyped, Unknown, State
<1>7. ASSUME NEW u \in uploads, Put(u) PROVE ArtifactsTyped'
  BY <1>7, ArtifactNames DEF Put, StorePut, ArtifactsTyped, Unknown, State, Upload
<1>8. ASSUME NEW u \in uploads, KeepStored(u) PROVE ArtifactsTyped'
  BY <1>8, ArtifactNames DEF KeepStored, MarkStored, ArtifactsTyped, Unknown, State, Upload
<1>9. ASSUME NEW u \in uploads, UploadFails(u) PROVE ArtifactsTyped'
  BY <1>9, ArtifactNames DEF UploadFails, StorePut, ArtifactsTyped, Unknown, State, Upload
<1> QED BY <1>1, <1>2, <1>3, <1>4, <1>5, <1>6, <1>7, <1>8, <1>9

LEMMA ChecksTyped ==
  ASSUME ArtifactsTyped, NEW c \in checks, DirectStored(c) \/ DirectRefused(c) \/ CheckDropped(c)
  PROVE  ArtifactsTyped'
<1> USE DEF historyVars, Overtakes
<1>1. CASE DirectStored(c)
  BY <1>1, ArtifactNames DEF DirectStored, MarkStored, ArtifactsTyped, Unknown, State, Check
<1>2. CASE DirectRefused(c)
  BY <1>2, ArtifactNames DEF DirectRefused, ArtifactsTyped, Unknown, State, Check, Removal
<1>3. CASE CheckDropped(c)
  BY <1>3 DEF CheckDropped, ArtifactsTyped, Unknown
<1> QED BY <1>1, <1>2, <1>3

LEMMA RetentionTyped ==
  ASSUME ArtifactsTyped,
         ListDue \/ \E d \in removals : DeleteBytes(d) \/ MarkDeleted(d) \/ RemovalFails(d)
  PROVE  ArtifactsTyped'
<1> USE DEF historyVars, Overtakes
<1>1. CASE ListDue
  BY <1>1, ArtifactNames DEF ListDue, Listed, Due, Is, ArtifactsTyped, Unknown, State, Removal
<1>2. ASSUME NEW d \in removals, DeleteBytes(d) PROVE ArtifactsTyped'
  BY <1>2, ArtifactNames DEF DeleteBytes, StoreDelete, ArtifactsTyped, Unknown, State, Removal
<1>3. ASSUME NEW d \in removals, MarkDeleted(d) PROVE ArtifactsTyped'
  BY <1>3, ArtifactNames DEF MarkDeleted, ArtifactsTyped, Unknown, State, Removal
<1>4. ASSUME NEW d \in removals, RemovalFails(d) PROVE ArtifactsTyped'
  BY <1>4, ArtifactNames DEF RemovalFails, StoreDelete, ArtifactsTyped, Unknown, State, Removal
<1> QED BY <1>1, <1>2, <1>3, <1>4

LEMMA OthersTyped ==
  ASSUME ArtifactsTyped,
         \/ \E a \in Artifacts : Ages(a) \/ Expires(a) \/ Tamper(a) \/ Retrieve(a) \/ RetrieveEnds(a)
         \/ RunEnds
  PROVE  ArtifactsTyped'
<1> USE DEF historyVars, Overtakes
<1>1. ASSUME NEW a \in Artifacts, Ages(a) PROVE ArtifactsTyped'
  BY <1>1 DEF Ages, Present, ArtifactsTyped, Unknown
<1>2. ASSUME NEW a \in Artifacts, Expires(a) PROVE ArtifactsTyped'
  <2>1. expired' \subseteq (old \cup Ephemeral) \ Held
    BY <1>2 DEF Expires, ArtifactsTyped
  <2>2. ASSUME NEW b \in Artifacts, artifact[b] = None PROVE b \notin expired'
    BY <1>2, <2>2 DEF Expires, Present, ArtifactsTyped, Unknown
  <2> QED BY <1>2, <2>1, <2>2 DEF Expires, ArtifactsTyped, Unknown
<1>3. ASSUME NEW a \in Artifacts, Tamper(a) PROVE ArtifactsTyped'
  BY <1>3, ArtifactNames DEF Tamper, ArtifactsTyped, Unknown
<1>4. ASSUME NEW a \in Artifacts, Retrieve(a) \/ RetrieveEnds(a) PROVE ArtifactsTyped'
  BY <1>4 DEF Retrieve, RetrieveEnds, ArtifactsTyped, Unknown
<1>5. CASE RunEnds
  BY <1>5 DEF RunEnds, ArtifactsTyped, Unknown
<1> QED BY <1>1, <1>2, <1>3, <1>4, <1>5

LEMMA ArtifactsTypedStep ==
  ASSUME ArtifactsTyped, [ArtifactNext]_artifactVars PROVE ArtifactsTyped'
<1>1. CASE UNCHANGED artifactVars
  BY <1>1 DEF artifactVars, ArtifactsTyped, Unknown
<1> QED BY <1>1, UploadsTyped, ChecksTyped, RetentionTyped, OthersTyped DEF ArtifactNext

(***************************************************************************)
(* The bytes                                                               *)
(***************************************************************************)
LEMMA BytesFitInit == ASSUME ArtifactInit PROVE BytesFit
  BY ArtifactNames DEF ArtifactInit, State, BytesFit, KeptFits, Is, Due

\* A step that concerns one artifact leaves the others as they fit.
LEMMA UploadsFit ==
  ASSUME ArtifactsTyped, BytesFit,
         \/ \E a \in Artifacts : Keep(a) \/ AuthorizeDirect(a) \/ DirectPut(a) \/ PermitEnds(a) \/ ReadBack(a)
                                 \/ RegisterArtifact(a)
         \/ \E u \in uploads : Put(u) \/ KeepStored(u) \/ UploadFails(u)
  PROVE  BytesFit'
<1> USE DEF BytesFit, Excepted, HasBytes, UploadFits, CheckFits, RemovalFits, KeptFits, Is, Due, ArtifactsTyped, Upload, Check,
       Removal, historyVars, Overtakes
<1>1. ASSUME NEW a \in Artifacts, Keep(a) PROVE BytesFit'
  BY <1>1, ArtifactNames DEF Keep, ReserveRow, Reserved, State
<1>2. ASSUME NEW a \in Artifacts, AuthorizeDirect(a) PROVE BytesFit'
  BY <1>2, ArtifactNames DEF AuthorizeDirect, ReserveRow, Reserved, State
<1>3. ASSUME NEW a \in Artifacts, DirectPut(a) PROVE BytesFit'
  BY <1>3, ArtifactNames DEF DirectPut, ReceiveDirect, SignedPut, StorePut, State
<1>4. ASSUME NEW a \in Artifacts, PermitEnds(a) PROVE BytesFit'
  BY <1>4 DEF PermitEnds
<1>5. ASSUME NEW a \in Artifacts, ReadBack(a) PROVE BytesFit'
  BY <1>5, ArtifactNames DEF ReadBack, State
<1>6. ASSUME NEW a \in Artifacts, RegisterArtifact(a) PROVE BytesFit'
  BY <1>6, ArtifactNames DEF RegisterArtifact, State
<1>7. ASSUME NEW u \in uploads, Put(u) PROVE BytesFit'
  BY <1>7, ArtifactNames DEF Put, StorePut, State
<1>8. ASSUME NEW u \in uploads, KeepStored(u) PROVE BytesFit'
  BY <1>8, ArtifactNames DEF KeepStored, MarkStored, State
<1>9. ASSUME NEW u \in uploads, UploadFails(u) PROVE BytesFit'
  BY <1>9, ArtifactNames DEF UploadFails, StorePut, State
<1> QED BY <1>1, <1>2, <1>3, <1>4, <1>5, <1>6, <1>7, <1>8, <1>9

LEMMA ChecksFit ==
  ASSUME ArtifactsTyped, BytesFit, NEW c \in checks, DirectStored(c) \/ DirectRefused(c) \/ CheckDropped(c)
  PROVE  BytesFit'
<1> USE DEF BytesFit, Excepted, HasBytes, UploadFits, CheckFits, RemovalFits, KeptFits, Is, Due, ArtifactsTyped, Upload, Check,
       Removal, historyVars, Overtakes
<1>1. CASE DirectStored(c)
  BY <1>1, ArtifactNames DEF DirectStored, MarkStored
<1>2. CASE DirectRefused(c)
  BY <1>2, ArtifactNames DEF DirectRefused
<1>3. CASE CheckDropped(c)
  BY <1>3 DEF CheckDropped
<1> QED BY <1>1, <1>2, <1>3

LEMMA RetentionFits ==
  ASSUME ArtifactsTyped, BytesFit,
         ListDue \/ \E d \in removals : DeleteBytes(d) \/ MarkDeleted(d) \/ RemovalFails(d)
  PROVE  BytesFit'
<1> USE DEF BytesFit, Excepted, HasBytes, UploadFits, CheckFits, RemovalFits, KeptFits, Is, Due, ArtifactsTyped, Upload, Check,
       Removal, historyVars, Overtakes
<1>1. CASE ListDue
  BY <1>1 DEF ListDue, Listed
<1>2. ASSUME NEW d \in removals, DeleteBytes(d) PROVE BytesFit'
  BY <1>2, ArtifactNames DEF DeleteBytes, StoreDelete
<1>3. ASSUME NEW d \in removals, MarkDeleted(d) PROVE BytesFit'
  BY <1>3, ArtifactNames DEF MarkDeleted
<1>4. ASSUME NEW d \in removals, RemovalFails(d) PROVE BytesFit'
  BY <1>4, ArtifactNames DEF RemovalFails, StoreDelete
<1> QED BY <1>1, <1>2, <1>3, <1>4

LEMMA OthersFit ==
  ASSUME ArtifactsTyped, BytesFit,
         \/ \E a \in Artifacts : Ages(a) \/ Expires(a) \/ Tamper(a) \/ Retrieve(a) \/ RetrieveEnds(a)
         \/ RunEnds
  PROVE  BytesFit'
<1> USE DEF BytesFit, Excepted, HasBytes, UploadFits, CheckFits, RemovalFits, KeptFits, Is, Due, ArtifactsTyped, Upload, Check,
       Removal, historyVars, Overtakes
<1>1. ASSUME NEW a \in Artifacts, Ages(a) PROVE BytesFit'
  BY <1>1 DEF Ages, Present
<1>2. ASSUME NEW a \in Artifacts, Expires(a) PROVE BytesFit'
  BY <1>2 DEF Expires
<1>3. ASSUME NEW a \in Artifacts, Tamper(a) PROVE BytesFit'
  BY <1>3, ArtifactNames DEF Tamper
<1>4. ASSUME NEW a \in Artifacts, Retrieve(a) \/ RetrieveEnds(a) PROVE BytesFit'
  BY <1>4 DEF Retrieve, Retrievable, RetrieveEnds
<1>5. CASE RunEnds
  BY <1>5 DEF RunEnds
<1> QED BY <1>1, <1>2, <1>3, <1>4, <1>5

LEMMA BytesFitStep ==
  ASSUME ArtifactsTyped, BytesFit, [ArtifactNext]_artifactVars PROVE BytesFit'
<1>1. CASE UNCHANGED artifactVars
  BY <1>1 DEF artifactVars, BytesFit, Excepted, HasBytes, UploadFits, CheckFits, RemovalFits, KeptFits, Is, Due
<1> QED BY <1>1, UploadsFit, ChecksFit, RetentionFits, OthersFit DEF ArtifactNext

LEMMA BytesFitSound == ASSUME ArtifactsTyped, BytesFit PROVE ArtifactsSound
<1>1. ArtifactTypeOK
  BY DEF ArtifactsTyped, Unknown, ArtifactTypeOK, Upload, Check, Removal
<1>2. BytesBehindRow /\ DeletedBytesGone
  BY DEF ArtifactsTyped, BytesFit, Excepted, HasBytes, KeptFits, BytesBehindRow, DeletedBytesGone, Is
<1>3. AlarmsTrue
  BY DEF ArtifactsTyped, BytesFit, Excepted, HasBytes, KeptFits, AlarmsTrue, Verdict, Due, Is
<1> QED BY <1>1, <1>2, <1>3 DEF ArtifactsSound

\* Every row that says its bytes are stored has them behind it until it is due, no row is marked
\* deleted while its bytes remain and no retrieval raises a false alarm, whatever overlaps, fails,
\* is repeated or comes late, but for artifacts that were put or registered after a removal had
\* selected their row (artifact-service.ts).
THEOREM ArtifactsSoundHold == ArtifactSpec => []ArtifactsSound
<1>1. ASSUME ArtifactInit PROVE ArtifactsTyped /\ BytesFit
  BY <1>1, ArtifactsTypedInit, BytesFitInit
<1>2. ASSUME ArtifactsTyped /\ BytesFit, [ArtifactNext]_artifactVars PROVE (ArtifactsTyped /\ BytesFit)'
  BY <1>2, ArtifactsTypedStep, BytesFitStep
<1> QED BY <1>1, <1>2, BytesFitSound, PTL DEF ArtifactSpec

-----------------------------------------------------------------------------
LEMMA KeptStep ==
  ASSUME ArtifactsTyped, BytesFit, [ArtifactNext]_artifactVars, NEW a \in Artifacts \ (tampered \cup overtaken),
         artifact[a] = "REGISTERED", a \notin expired
  PROVE  Stays(a)
<1> USE DEF historyVars, Overtakes, Stays
<1>1. bytes[a] = "declared" /\ \A d \in removals : d.artifact # a
  BY DEF BytesFit, Excepted, HasBytes, KeptFits, RemovalFits, Is, Due
<1>2. artifact \in [Artifacts -> State \cup {None}] /\ bytes \in [Artifacts -> {None, "declared", "other"}]
  BY DEF ArtifactsTyped
<1> HIDE DEF State
<1>3. CASE \E b \in Artifacts : Keep(b) \/ AuthorizeDirect(b) \/ DirectPut(b) \/ RegisterArtifact(b)
  BY <1>1, <1>2, <1>3, ArtifactNames
     DEF Keep, AuthorizeDirect, ReserveRow, Reserved, DirectPut, ReceiveDirect, SignedPut, StorePut, RegisterArtifact, State
<1>4. CASE \E b \in Artifacts : PermitEnds(b) \/ ReadBack(b) \/ Ages(b) \/ Expires(b) \/ Retrieve(b) \/ RetrieveEnds(b)
  BY <1>4 DEF PermitEnds, ReadBack, Ages, Expires, Retrieve, RetrieveEnds
<1>5. CASE \E b \in Artifacts : Tamper(b)
  BY <1>2, <1>5 DEF Tamper
<1>6. CASE \E u \in uploads : Put(u) \/ KeepStored(u) \/ UploadFails(u)
  BY <1>1, <1>2, <1>6 DEF Put, KeepStored, MarkStored, UploadFails, StorePut
<1>7. CASE \E c \in checks : DirectStored(c) \/ DirectRefused(c) \/ CheckDropped(c)
  BY <1>2, <1>7 DEF DirectStored, DirectRefused, CheckDropped, MarkStored
<1>8. CASE \E d \in removals : DeleteBytes(d) \/ MarkDeleted(d) \/ RemovalFails(d)
  BY <1>1, <1>2, <1>8 DEF DeleteBytes, MarkDeleted, RemovalFails, StoreDelete
<1>9. CASE ListDue \/ RunEnds \/ UNCHANGED artifactVars
  BY <1>9 DEF ListDue, RunEnds, artifactVars
<1> QED BY <1>3, <1>4, <1>5, <1>6, <1>7, <1>8, <1>9 DEF ArtifactNext

\* What a run registered stays until its retention ends, bytes and row, and for ever under
\* LEGAL_HOLD, unless it was registered, or its bytes were put, after a removal had selected the
\* row (enforceRetention, remove).
THEOREM KeptUnlessOvertakenHolds == ArtifactSpec => KeptUnlessOvertaken
<1>1. ASSUME ArtifactInit PROVE ArtifactsTyped /\ BytesFit
  BY <1>1, ArtifactsTypedInit, BytesFitInit
<1>2. ASSUME ArtifactsTyped /\ BytesFit, [ArtifactNext]_artifactVars PROVE (ArtifactsTyped /\ BytesFit)'
  BY <1>2, ArtifactsTypedStep, BytesFitStep
<1>3. ASSUME ArtifactsTyped /\ BytesFit, [ArtifactNext]_artifactVars
      PROVE  [\A a \in Artifacts \ (tampered \cup overtaken) :
                artifact[a] = "REGISTERED" /\ a \notin expired => Stays(a)]_artifactVars
  BY <1>3, KeptStep
<1> QED BY <1>1, <1>2, <1>3, PTL DEF ArtifactSpec, KeptUnlessOvertaken

LEMMA RowStep ==
  ASSUME ArtifactsTyped, [ArtifactNext]_artifactVars, NEW a \in Artifacts, artifact'[a] # artifact[a]
  PROVE  \/ artifact[a] = None /\ artifact'[a] = "PENDING"
         \/ <<artifact[a], artifact'[a]>> \in RowMoves
<1>1. artifact \in [Artifacts -> State \cup {None}]
  BY DEF ArtifactsTyped
<1>2. CASE \E b \in Artifacts : Keep(b) \/ AuthorizeDirect(b) \/ RegisterArtifact(b)
  BY <1>1, <1>2 DEF Keep, AuthorizeDirect, ReserveRow, Reserved, RegisterArtifact, RowMoves
<1>3. CASE \/ \E u \in uploads : KeepStored(u)
           \/ \E c \in checks : DirectStored(c)
  BY <1>1, <1>3 DEF KeepStored, DirectStored, MarkStored, RowMoves
<1>4. ASSUME NEW d \in removals, MarkDeleted(d)
      PROVE  <<artifact[a], artifact'[a]>> \in RowMoves
  <2>1. d.artifact = a /\ artifact'[a] = "DELETED" /\ artifact[a] # None
    BY <1>1, <1>4 DEF MarkDeleted, ArtifactsTyped, Unknown
  <2> QED BY <1>1, <2>1 DEF RowMoves, State
<1>5. CASE UNCHANGED artifact
  BY <1>5
<1> QED BY <1>2, <1>3, <1>4, <1>5
        DEF ArtifactNext, artifactVars, DirectPut, PermitEnds, ReadBack, Ages, Expires, Tamper, Retrieve, RetrieveEnds,
            Put, UploadFails, DirectRefused, CheckDropped, DeleteBytes, RemovalFails, ListDue, RunEnds

\* Whatever overlaps or comes late: the table's transition law is
\* kept (af_artifact_object_transition).
THEOREM RowsForwardHolds == ArtifactSpec => RowsForward
<1>1. ASSUME ArtifactsTyped, [ArtifactNext]_artifactVars
      PROVE  [\A a \in Artifacts : artifact'[a] # artifact[a] =>
                \/ artifact[a] = None /\ artifact'[a] = "PENDING"
                \/ <<artifact[a], artifact'[a]>> \in RowMoves]_artifactVars
  BY <1>1, RowStep
<1> QED BY <1>1, ArtifactsTypedInit, ArtifactsTypedStep, PTL DEF ArtifactSpec, RowsForward

(***************************************************************************)
(* Sums                                                                    *)
(***************************************************************************)
Some(x) == CHOOSE c \in x : TRUE
\* h adds f up over each subset of T, taking one element after the other.
Adds(h, f, T) ==
  h = [x \in SUBSET T |-> IF x = {} THEN 0 ELSE f[Some(x)] + h[x \ {Some(x)}]]

\* Among sets of subsets of a finite set there is a least one.
LEMMA Least ==
  ASSUME NEW S, IsFiniteSet(S), NEW B \in SUBSET SUBSET S, B # {}
  PROVE  \E x \in B : \A y \in B : y \subseteq x => y = x
<1>1. IsWellFoundedOn(StrictSubsetOrdering(S), SUBSET S)
  BY FS_StrictSubsetOrderingWellFounded, FS_FiniteSubsetsOfFinite
<1>2. PICK x \in B : \A y \in B : ~ (<<y, x>> \in StrictSubsetOrdering(S))
  BY <1>1, WFMin
<1>3. ASSUME NEW y \in B, y \subseteq x PROVE y = x
  BY <1>2, <1>3 DEF StrictSubsetOrdering
<1> QED BY <1>3

LEMMA SomeIn == ASSUME NEW x, x # {} PROVE Some(x) \in x
  BY DEF Some

LEMMA AddsAt ==
  ASSUME NEW f, NEW h, NEW T, Adds(h, f, T), NEW x \in SUBSET T
  PROVE  h[x] = IF x = {} THEN 0 ELSE f[Some(x)] + h[x \ {Some(x)}]
  BY DEF Adds

\* What they add up to does not depend on the set they are taken from.
LEMMA AddsSame ==
  ASSUME NEW f, NEW S, IsFiniteSet(S), NEW h, Adds(h, f, S), NEW T \in SUBSET S, NEW k, Adds(k, f, T)
  PROVE  \A x \in SUBSET T : h[x] = k[x]
<1> DEFINE B == {x \in SUBSET T : h[x] # k[x]}
<1> SUFFICES ASSUME B # {} PROVE FALSE
  OBVIOUS
<1>1. PICK x \in B : \A y \in B : y \subseteq x => y = x
  <2>1. B \in SUBSET SUBSET S
    OBVIOUS
  <2> HIDE DEF B
  <2> QED BY <2>1, Least
<1>2. x # {}
  BY <1>1 DEF Adds
<1>3. x \ {Some(x)} \notin B /\ x \ {Some(x)} \in SUBSET T
  BY <1>1, <1>2, SomeIn
<1>4. h[x] = f[Some(x)] + h[x \ {Some(x)}] /\ k[x] = f[Some(x)] + k[x \ {Some(x)}]
  <2>1. x \in SUBSET S /\ x \in SUBSET T
    BY <1>1
  <2> HIDE DEF B
  <2> QED BY <1>2, <2>1, AddsAt
<1> QED BY <1>1, <1>3, <1>4

LEMMA AddsExists ==
  ASSUME NEW f, NEW S, IsFiniteSet(S) PROVE \E h : Adds(h, f, S)
<1> DEFINE B == {x \in SUBSET S : ~\E h : Adds(h, f, x)}
<1> SUFFICES ASSUME B # {} PROVE FALSE
  OBVIOUS
<1>1. PICK T \in B : \A y \in B : y \subseteq T => y = T
  <2>1. B \in SUBSET SUBSET S
    OBVIOUS
  <2> HIDE DEF B
  <2> QED BY <2>1, Least
<1> DEFINE H(x) == CHOOSE h : Adds(h, f, x)
           v(x) == H(x)[x]
           k == [x \in SUBSET T |-> IF x = {} THEN 0 ELSE f[Some(x)] + v(x \ {Some(x)})]
<1>2. ASSUME NEW x \in SUBSET T, x # T PROVE Adds(H(x), f, x) /\ IsFiniteSet(x)
  BY <1>1, <1>2, FS_Subset
<1>3. ASSUME NEW x \in SUBSET T, x # T PROVE v(x) = k[x]
  <2>1. CASE x = {}
    <3>1. H(x)[x] = 0
      <4> HIDE DEF H
      <4> QED BY <1>2, <1>3, <2>1, AddsAt
    <3> QED BY <1>3, <2>1, <3>1
  <2>2. CASE x # {}
    <3> DEFINE y == x \ {Some(x)}
    <3>1. y \in SUBSET x /\ y # x /\ y \in SUBSET T /\ y # T
      BY <1>3, <2>2, SomeIn
    <3>2. v(x) = f[Some(x)] + H(x)[y]
      <4> HIDE DEF H
      <4> QED BY <1>2, <1>3, <2>2, AddsAt
    <3>3. H(x)[y] = H(y)[y]
      <4>1. Adds(H(x), f, x) /\ IsFiniteSet(x) /\ Adds(H(y), f, y)
        BY <1>2, <1>3, <3>1
      <4> HIDE DEF H, y
      <4> QED BY <3>1, <4>1, AddsSame
    <3> QED BY <2>2, <3>2, <3>3
  <2> QED BY <2>1, <2>2
<1>4. Adds(k, f, T)
  <2>1. ASSUME NEW x \in SUBSET T, x # {} PROVE v(x \ {Some(x)}) = k[x \ {Some(x)}]
    <3>1. x \ {Some(x)} \in SUBSET T /\ x \ {Some(x)} # T
      BY <2>1, SomeIn
    <3> HIDE DEF v, k
    <3> QED BY <1>3, <3>1
  <2>2. k = [x \in SUBSET T |-> IF x = {} THEN 0 ELSE f[Some(x)] + k[x \ {Some(x)}]]
    <3>1. \A x \in SUBSET T : k[x] = IF x = {} THEN 0 ELSE f[Some(x)] + k[x \ {Some(x)}]
      <4> HIDE DEF v
      <4> QED BY <2>1
    <3> HIDE DEF v
    <3>2. k = [x \in SUBSET T |-> k[x]]
      OBVIOUS
    <3> HIDE DEF k
    <3> QED BY <3>1, <3>2
  <2> HIDE DEF k
  <2> QED BY <2>2 DEF Adds
<1> QED BY <1>1, <1>4

LEMMA TotalAdds ==
  ASSUME NEW f, IsFiniteSet(DOMAIN f), NEW h, Adds(h, f, DOMAIN f) PROVE Total(f) = h[DOMAIN f]
<1> DEFINE S == DOMAIN f
           g == CHOOSE i : i = [x \in SUBSET S |-> IF x = {} THEN 0 ELSE f[Some(x)] + i[x \ {Some(x)}]]
<1>1. Adds(g, f, S)
  <2>1. \E i : i = [x \in SUBSET S |-> IF x = {} THEN 0 ELSE f[Some(x)] + i[x \ {Some(x)}]]
    BY DEF Adds
  <2>2. g = [x \in SUBSET S |-> IF x = {} THEN 0 ELSE f[Some(x)] + g[x \ {Some(x)}]]
    BY <2>1
  <2> HIDE DEF g
  <2> QED BY <2>2 DEF Adds
<1>2. Total(f) = g[S]
  BY DEF Total, MapThenSumSet, MapThenFoldSet, Some
<1> HIDE DEF g
<1> QED BY <1>1, <1>2, AddsSame

\* Sums of numbers are numbers.
LEMMA AddsNat ==
  ASSUME NEW S, IsFiniteSet(S), NEW f \in [S -> Nat], NEW h, Adds(h, f, S) PROVE \A x \in SUBSET S : h[x] \in Nat
<1> DEFINE B == {x \in SUBSET S : h[x] \notin Nat}
<1> SUFFICES ASSUME B # {} PROVE FALSE
  OBVIOUS
<1>1. PICK x \in B : \A y \in B : y \subseteq x => y = x
  <2>1. B \in SUBSET SUBSET S
    OBVIOUS
  <2> HIDE DEF B
  <2> QED BY <2>1, Least
<1>5. x \in SUBSET S /\ h[x] \notin Nat
  BY <1>1
<1>2. x # {}
  <2> SUFFICES ASSUME x = {} PROVE FALSE
    OBVIOUS
  <2>1. h[x] = 0
    BY <1>5, AddsAt
  <2> QED BY <1>5, <2>1
<1>3. x \ {Some(x)} \notin B /\ x \ {Some(x)} \in SUBSET S /\ Some(x) \in S
  BY <1>1, <1>2, SomeIn
<1>4. h[x] = f[Some(x)] + h[x \ {Some(x)}]
  BY <1>5, <1>2, AddsAt
<1> QED BY <1>1, <1>3, <1>4

\* The order does not matter: any element may be taken first.
LEMMA AddsAny ==
  ASSUME NEW S, IsFiniteSet(S), NEW f \in [S -> Nat], NEW h, Adds(h, f, S)
  PROVE  \A x \in SUBSET S : \A y \in x : h[x] = f[y] + h[x \ {y}]
<1> DEFINE B == {x \in SUBSET S : ~\A y \in x : h[x] = f[y] + h[x \ {y}]}
<1> SUFFICES ASSUME B # {} PROVE FALSE
  OBVIOUS
<1>1. PICK x \in B : \A y \in B : y \subseteq x => y = x
  <2>1. B \in SUBSET SUBSET S
    OBVIOUS
  <2> HIDE DEF B
  <2> QED BY <2>1, Least
<1>2. PICK y \in x : h[x] # f[y] + h[x \ {y}]
  BY <1>1
<1> DEFINE c == Some(x)
<1>3. c \in x /\ h[x] = f[c] + h[x \ {c}] /\ x \in SUBSET S
  BY <1>1, <1>2, AddsAt, SomeIn
<1>4. c # y /\ y \in x \ {c}
  BY <1>2, <1>3
<1>5. h[x \ {c}] = f[y] + h[(x \ {c}) \ {y}]
  <2>1. x \ {c} \notin B
    BY <1>1, <1>3
  <2> QED BY <1>3, <1>4, <2>1
<1>6. h[x \ {y}] = f[c] + h[(x \ {y}) \ {c}]
  <2>1. x \ {y} \notin B
    BY <1>1, <1>2
  <2> QED BY <1>3, <1>4, <2>1
<1>7. (x \ {c}) \ {y} = (x \ {y}) \ {c}
  OBVIOUS
<1>8. f[c] \in Nat /\ f[y] \in Nat /\ h[(x \ {y}) \ {c}] \in Nat
  <2>1. c \in S /\ y \in S /\ (x \ {y}) \ {c} \in SUBSET S
    BY <1>2, <1>3
  <2> QED BY <2>1, AddsNat
<1> DEFINE z == h[(x \ {y}) \ {c}]
           a == f[c]
           b == f[y]
<1>9. h[x] = a + (b + z) /\ h[x \ {y}] = a + z /\ h[x] # b + h[x \ {y}]
  BY <1>2, <1>3, <1>5, <1>6, <1>7
<1>10. a \in Nat /\ b \in Nat /\ z \in Nat
  BY <1>8
<1> HIDE DEF a, b, z, c, B
<1> QED BY <1>9, <1>10

LEMMA TotalNat ==
  ASSUME NEW S, IsFiniteSet(S), NEW f \in [S -> Nat] PROVE Total(f) \in Nat
<1>1. PICK h : Adds(h, f, S)
  BY AddsExists
<1>2. DOMAIN f = S
  OBVIOUS
<1> QED BY <1>1, <1>2, TotalAdds, AddsNat

LEMMA TotalEmpty == ASSUME NEW f, DOMAIN f = {} PROVE Total(f) = 0
<1>1. IsFiniteSet({})
  BY FS_EmptySet
<1>2. PICK h : Adds(h, f, {})
  BY <1>1, AddsExists
<1> QED BY <1>1, <1>2, TotalAdds, AddsAt

\* One element more adds its own.
LEMMA TotalMore ==
  ASSUME NEW S, IsFiniteSet(S), NEW c \in S, NEW f \in [S -> Nat], NEW g, g = [x \in S \ {c} |-> f[x]]
  PROVE  Total(f) = f[c] + Total(g)
<1>1. PICK h : Adds(h, f, S)
  BY AddsExists
<1> DEFINE T == S \ {c}
<1>2. DOMAIN f = S /\ DOMAIN g = T /\ IsFiniteSet(T)
  BY FS_Subset
<1>3. PICK k : Adds(k, f, T)
  BY <1>2, AddsExists
<1>4. Adds(k, g, T)
  <2>1. \A x \in SUBSET T : x # {} => f[Some(x)] = g[Some(x)]
    BY SomeIn
  <2>2. [x \in SUBSET T |-> IF x = {} THEN 0 ELSE f[Some(x)] + k[x \ {Some(x)}]] =
        [x \in SUBSET T |-> IF x = {} THEN 0 ELSE g[Some(x)] + k[x \ {Some(x)}]]
    <3> HIDE DEF T
    <3> QED BY <2>1
  <2> QED BY <1>3, <2>2 DEF Adds
<1>5. Total(g) = k[T] /\ Total(f) = h[S]
  BY <1>1, <1>2, <1>4, TotalAdds
<1>6. h[T] = k[T]
  <2>1. T \in SUBSET S
    OBVIOUS
  <2> HIDE DEF T
  <2> QED BY <1>1, <1>3, <2>1, AddsSame
<1>7. h[S] = f[c] + h[S \ {c}]
  BY <1>1, AddsAny
<1> QED BY <1>5, <1>6, <1>7

\* a pays for no more than q times m if it needs less than one more of m.
LEMMA Rounded ==
  ASSUME NEW a \in Int, NEW m \in Nat \ {0}, NEW q \in Int, a <= q * m PROVE (a + m - 1) \div m <= q
  OBVIOUS

LEMMA Divided ==
  ASSUME NEW a \in Int, NEW m \in Nat \ {0}, NEW q \in Int, q <= a \div m PROVE q * m <= a
  OBVIOUS

LEMMA MinIs ==
  ASSUME NEW S, IsFiniteSet(S), S \subseteq Int, S # {} PROVE Min(S) \in S /\ \A y \in S : Min(S) <= y
<1> DEFINE B == {x \in SUBSET S : x # {} /\ ~\E a \in x : \A y \in x : a <= y}
<1>1. B = {}
  <2> SUFFICES ASSUME B # {} PROVE FALSE
    OBVIOUS
  <2>1. PICK T \in B : \A y \in B : y \subseteq T => y = T
    <3>1. B \in SUBSET SUBSET S /\ B # {} /\ IsFiniteSet(S)
      OBVIOUS
    <3> HIDE DEF B
    <3> QED BY ONLY <3>1, Least
  <2>2. T \in SUBSET S /\ T # {} /\ ~\E a \in T : \A y \in T : a <= y
    BY <2>1
  <2>3. PICK c \in T : TRUE
    BY <2>2
  <2>4. T \ {c} \notin B
    BY <2>1, <2>3
  <2>5. CASE T \ {c} = {}
    BY <2>2, <2>3, <2>5
  <2>6. CASE T \ {c} # {}
    <3>1. PICK a \in T \ {c} : \A y \in T \ {c} : a <= y
      BY <2>2, <2>4, <2>6
    <3>2. a \in Int /\ c \in Int /\ \A y \in T : y \in Int
      BY <2>2, <2>3, <3>1
    <3>3. CASE a <= c
      BY <2>2, <3>1, <3>3
    <3>4. CASE c <= a
      BY <2>2, <2>3, <3>1, <3>2, <3>4
    <3> QED BY <3>2, <3>3, <3>4
  <2> QED BY <2>5, <2>6
<1>2. \E a \in S : \A y \in S : a <= y
  BY <1>1
<1> QED BY <1>2 DEF Min

(***************************************************************************)
(* ModelSpending.  A reservation is of a month that has begun.             *)
(***************************************************************************)
BudgetFits ==
  /\ budget.limit \in [Scope -> (Nat \ {0}) \cup {None}]
  /\ budget.thresholds \subseteq 1..99
  /\ budget.currency \in {b.currency : b \in Budgets} \cup {Currency}

SpendingInductive ==
  /\ SpendingSound
  /\ BudgetFits
  /\ \A c \in Calls : usage[c] # None => usage[c].period <= month

LEMMA Priceless == ASSUME NEW p \in [input : Nat, output : Nat], NEW in \in Nat, NEW out \in Nat
                   PROVE  costMicros(p, in, out) \in Nat
<1>1. p.input \in Nat /\ p.output \in Nat
  OBVIOUS
<1>2. in * p.input \in Nat /\ out * p.output \in Nat
  BY <1>1
<1>3. in * p.input + out * p.output + MILLION - 1 \in Nat
  BY <1>2, ScaleAssumption
<1>4. \A a \in Nat, m \in Nat \ {0} : a \div m \in Nat
  OBVIOUS
<1> QED BY <1>3, <1>4, ScaleAssumption DEF costMicros

\* What was charged is a number, and depends on nothing but the rows that are charged.
Charge(rows, calls, s) == [c \in calls |-> IF s \in TokenScope THEN Tokens(rows[c]) ELSE Cost(rows[c])]

LEMMA ChargeNat ==
  ASSUME NEW rows \in [Calls -> UsageRow \cup {None}], NEW calls \in SUBSET Calls, \A c \in calls : rows[c] # None, NEW s \in Scope
  PROVE  /\ IsFiniteSet(calls) /\ Charge(rows, calls, s) \in [calls -> Nat]
         /\ Charged(rows, calls, s) = Total(Charge(rows, calls, s)) /\ Charged(rows, calls, s) \in Nat
<1>1. IsFiniteSet(calls)
  BY CallAssumption, FS_Subset
<1>2. ASSUME NEW c \in calls PROVE Tokens(rows[c]) \in Nat /\ Cost(rows[c]) \in Nat
  <2>1. rows[c] \in UsageRow
    OBVIOUS
  <2> QED BY <2>1 DEF UsageRow, Tokens, Cost
<1>3. Charge(rows, calls, s) \in [calls -> Nat]
  BY <1>2 DEF Charge
<1>4. Charged(rows, calls, s) = Total(Charge(rows, calls, s))
  BY DEF Charged, Charge
<1> QED BY <1>1, <1>3, <1>4, TotalNat

LEMMA ChargedSame ==
  ASSUME NEW rows, NEW others, NEW calls, \A c \in calls : rows[c] = others[c], NEW s
  PROVE  Charged(rows, calls, s) = Charged(others, calls, s)
<1>1. Charge(rows, calls, s) = Charge(others, calls, s)
  BY DEF Charge
<1> QED BY <1>1 DEF Charged, Charge

\* A new row adds its own charge.
LEMMA ChargedMore ==
  ASSUME NEW rows \in [Calls -> UsageRow \cup {None}], NEW others \in [Calls -> UsageRow \cup {None}],
         NEW calls \in SUBSET Calls, NEW c \in calls, NEW s \in Scope,
         \A x \in calls : rows[x] # None, \A x \in calls \ {c} : others[x] = rows[x]
  PROVE  Charged(rows, calls, s) = (IF s \in TokenScope THEN Tokens(rows[c]) ELSE Cost(rows[c])) + Charged(others, calls \ {c}, s)
<1> DEFINE f == Charge(rows, calls, s)
           g == Charge(others, calls \ {c}, s)
<1>1. f \in [calls -> Nat] /\ IsFiniteSet(calls) /\ Charged(rows, calls, s) = Total(f)
  BY ChargeNat
<1>2. g = [x \in calls \ {c} |-> f[x]] /\ f[c] = IF s \in TokenScope THEN Tokens(rows[c]) ELSE Cost(rows[c])
  BY DEF Charge
<1>3. Charged(others, calls \ {c}, s) = Total(g)
  BY DEF Charged, Charge
<1> HIDE DEF f, g
<1> QED BY <1>1, <1>2, <1>3, TotalMore

-----------------------------------------------------------------------------
LEMMA SpendingTypes ==
  ASSUME SpendingInductive
  PROVE  /\ usage \in [Calls -> UsageRow \cup {None}] /\ prices \in Seq(PriceRow) /\ month \in 1..MaxMonth /\ month \in Nat
         /\ \A m : InMonth(usage, m) \in SUBSET Calls /\ \A c \in InMonth(usage, m) : usage[c] # None
         /\ \A r : InRun(usage, r) \in SUBSET Calls /\ \A c \in InRun(usage, r) : usage[c] # None
         /\ \A r, m : \A s \in Scope : Used(usage, r, m, s) \in Nat
<1>1. usage \in [Calls -> UsageRow \cup {None}] /\ prices \in Seq(PriceRow) /\ month \in 1..MaxMonth
  BY DEF SpendingInductive, SpendingSound, SpendingTypeOK
<1>2. /\ \A m : InMonth(usage, m) \in SUBSET Calls /\ \A c \in InMonth(usage, m) : usage[c] # None
      /\ \A r : InRun(usage, r) \in SUBSET Calls /\ \A c \in InRun(usage, r) : usage[c] # None
  BY DEF InMonth, InRun
<1>3. ASSUME NEW r, NEW m, NEW s \in Scope PROVE Used(usage, r, m, s) \in Nat
  <2>1. Charged(usage, InMonth(usage, m), s) \in Nat /\ Charged(usage, InRun(usage, r), s) \in Nat
    BY <1>1, <1>2, ChargeNat
  <2> QED BY <2>1 DEF Used
<1>4. month \in Nat
  BY <1>1, SpendingBounds
<1> QED BY <1>1, <1>2, <1>3, <1>4

\* Where a cost is limited the book has a price.
LEMMA PricedRow ==
  ASSUME SpendingInductive, Priced
  PROVE  CurrentRow \in 1..Len(prices) /\ CurrentRow \in 1..MaxPrices /\ CurrentRow # None
         /\ prices[CurrentRow].price \in [input : Nat, output : Nat]
<1>1. prices \in Seq(PriceRow) /\ Len(prices) <= MaxPrices /\ Len(prices) \in Nat /\ MaxPrices \in Nat
  BY SpendingBounds DEF SpendingInductive, SpendingSound, SpendingTypeOK
<1>2. CurrentRow \in 1..Len(prices) /\ CurrentRow \in 1..MaxPrices /\ CurrentRow \in Nat
  BY <1>1 DEF Priced, CurrentRow
<1>3. prices[CurrentRow] \in PriceRow
  BY <1>1, <1>2
<1> QED BY <1>2, <1>3, SpendingNames, PriceAssumption DEF PriceRow, Priced

\* What a limit leaves is a number, whole or negative.
LEMMA RoomInt ==
  ASSUME SpendingInductive, ~PriceMissing, NEW c \in Calls, NEW s \in Limited
  PROVE  /\ s \in Scope /\ budget.limit[s] \in Nat /\ Room(c, s) \in Int
         /\ s \notin TokenScope => Priced
<1>1. s \in Scope /\ budget.limit[s] \in Nat
  BY DEF Limited, SpendingInductive, BudgetFits
<1>2. Used(usage, CallRun[c], month, s) \in Nat /\ CallInput[c] \in Nat /\ CallAsked[c] \in Nat
  BY <1>1, SpendingTypes, CallAssumption
<1>3. CASE s \in TokenScope
  BY <1>1, <1>2, <1>3 DEF Room
<1>4. CASE s \notin TokenScope
  <2>1. Priced
    BY <1>4 DEF PriceMissing, CostLimited
  <2> DEFINE p == prices[CurrentRow].price
             left == budget.limit[s] - Used(usage, CallRun[c], month, s)
  <2>2. p.input \in Nat /\ p.output \in Nat
    BY <2>1, PricedRow
  <2>3. left \in Int
    BY <1>1, <1>2
  <2> HIDE DEF p, left
  <2>4. left * MILLION - CallInput[c] * p.input \in Int
    BY <1>2, <2>2, <2>3, ScaleAssumption
  <2>5. \A a \in Int, m \in Nat \ {0} : a \div m \in Int
    OBVIOUS
  <2>6. maxOutputWithin(p, left, CallInput[c], CallAsked[c]) \in Int
    BY <1>2, <2>2, <2>4, <2>5 DEF maxOutputWithin
  <2> QED BY <1>1, <1>4, <2>1, <2>6 DEF Room, p, left
<1> QED BY <1>1, <1>3, <1>4

\* What is granted is at least nothing, and no more than any limit leaves.
LEMMA GrantFits ==
  ASSUME SpendingInductive, ~PriceMissing, NEW c \in Calls, ~TooLittle(c)
  PROVE  Grant(c) \in Nat /\ \A s \in Limited : Grant(c) <= Room(c, s)
<1> DEFINE R == {Room(c, s) : s \in Limited}
           S == {CallAsked[c]} \cup R
<1>1. IsFiniteSet(Limited)
  <2>1. IsFiniteSet({"MONTHLY", "RUN", "MONTHLY_COST", "RUN_COST"})
    <3>1. {"MONTHLY", "RUN", "MONTHLY_COST", "RUN_COST"} = {"MONTHLY"} \cup {"RUN"} \cup {"MONTHLY_COST"} \cup {"RUN_COST"}
      OBVIOUS
    <3>2. IsFiniteSet({"MONTHLY"})
      BY FS_Singleton
    <3>3. IsFiniteSet({"MONTHLY"} \cup {"RUN"})
      BY <3>2, FS_AddElement
    <3>4. IsFiniteSet({"MONTHLY"} \cup {"RUN"} \cup {"MONTHLY_COST"})
      BY <3>3, FS_AddElement
    <3> QED BY <3>1, <3>4, FS_AddElement
  <2> QED BY <2>1, FS_Subset DEF Limited, Scope
<1>2. IsFiniteSet(R)
  <2> DEFINE f == [s \in Limited |-> Room(c, s)]
  <2>1. f \in [Limited -> R] /\ R = {f[s] : s \in Limited}
    OBVIOUS
  <2>2. f \in Surjection(Limited, R)
    BY <2>1 DEF Surjection
  <2> HIDE DEF f, R
  <2> QED BY <1>1, <2>2, FS_Surjection
<1>3. CallAsked[c] \in Nat \ {0} /\ MIN_OUTPUT \in Nat
  BY CallAssumption, ScaleAssumption
<1>4. IsFiniteSet(S) /\ S # {} /\ S \subseteq Int
  <2>1. IsFiniteSet(S)
    <3> HIDE DEF R
    <3>1. S = R \cup {CallAsked[c]}
      OBVIOUS
    <3> QED BY <1>2, <3>1, FS_AddElement
  <2>2. R \subseteq Int
    BY RoomInt
  <2> QED BY <1>3, <2>1, <2>2
<1>5. Grant(c) \in S /\ \A y \in S : Grant(c) <= y
  <2>1. Grant(c) = Min(S)
    BY DEF Grant
  <2> HIDE DEF S
  <2> QED BY <1>4, <2>1, MinIs
<1>6. \A s \in Limited : Grant(c) <= Room(c, s)
  BY <1>5
<1>7. Grant(c) \in Int
  BY <1>4, <1>5
<1>8. Min({MIN_OUTPUT, CallAsked[c]}) \in Nat
  <2>1. IsFiniteSet({MIN_OUTPUT, CallAsked[c]})
    <3>1. {MIN_OUTPUT, CallAsked[c]} = {MIN_OUTPUT} \cup {CallAsked[c]}
      OBVIOUS
    <3>2. IsFiniteSet({MIN_OUTPUT})
      BY FS_Singleton
    <3>3. IsFiniteSet({MIN_OUTPUT} \cup {CallAsked[c]})
      BY ONLY <3>2, FS_AddElement
    <3> QED BY <3>1, <3>3
  <2>2. {MIN_OUTPUT, CallAsked[c]} \subseteq Int /\ {MIN_OUTPUT, CallAsked[c]} # {}
    BY <1>3
  <2>3. Min({MIN_OUTPUT, CallAsked[c]}) \in {MIN_OUTPUT, CallAsked[c]}
    BY <2>1, <2>2, MinIs
  <2> QED BY <1>3, <2>3
<1>9. CASE Limited = {}
  BY <1>3, <1>5, <1>6, <1>9
<1>10. CASE Limited # {}
  <2>1. ~(Grant(c) < Min({MIN_OUTPUT, CallAsked[c]}))
    BY <1>10 DEF TooLittle
  <2> QED BY <1>6, <1>7, <1>8, <2>1
<1> QED BY <1>9, <1>10

\* The first state
LEMMA SpendingInitFits == ASSUME SpendingInit PROVE SpendingInductive
<1>1. \A c \in Calls : usage[c] = None
  BY DEF SpendingInit
<1>2. SpendingTypeOK
  <2>1. budget = NoBudget /\ budget.version = 0 /\ prices = <<>> /\ month = 1 /\ ended = {} /\ usage = [c \in Calls |-> None]
    BY DEF SpendingInit, NoBudget
  <2>2. prices \in Seq(PriceRow) /\ Len(prices) = 0
    BY <2>1
  <2> QED BY <1>1, <2>1, <2>2, SpendingBounds DEF SpendingTypeOK
<1>3. CostAtReservedPrice /\ OneCurrency
  BY <1>1 DEF CostAtReservedPrice, OneCurrency, SpendingInit
<1>4. AlertsComplete
  <2>1. {x \in MonthlyScope : budget.limit[x] # None} = {}
    BY DEF SpendingInit, NoBudget, MonthlyScope, Scope
  <2> QED BY <2>1 DEF AlertsComplete, Reached
<1>5. BudgetFits
  BY DEF SpendingInit, NoBudget, BudgetFits
<1> QED BY <1>1, <1>2, <1>3, <1>4, <1>5 DEF SpendingInductive, SpendingSound

\* What is reached depends on what is charged to the month.
LEMMA ReachedSame ==
  ASSUME NEW b, NEW rows, NEW others, NEW m, InMonth(rows, m) = InMonth(others, m),
         \A c \in InMonth(rows, m) : rows[c] = others[c]
  PROVE  Reached(b, rows, m) = Reached(b, others, m)
<1>1. \A s : Charged(rows, InMonth(rows, m), s) = Charged(others, InMonth(others, m), s)
  BY ChargedSame
<1> QED BY <1>1 DEF Reached

\* A call that is reserved is charged to the month, at the price of the book.
LEMMA ReserveKeepsRow ==
  ASSUME SpendingInductive, NEW c \in Calls, Reserve(c)
  PROVE  LET row == Reservation(c, Grant(c)) IN
         /\ Grant(c) \in Nat /\ row \in UsageRow /\ row # None /\ row.status = "RESERVED" /\ row.period = month
         /\ row.reserved = CallInput[c] + Grant(c)
         /\ row.price = IF Priced THEN CurrentRow ELSE None
         /\ row.reservedCost = IF Priced THEN costMicros(prices[CurrentRow].price, CallInput[c], Grant(c)) ELSE 0
         /\ row.cost = 0
<1> DEFINE row == Reservation(c, Grant(c))
<1>1. Grant(c) \in Nat /\ CallInput[c] \in Nat /\ month \in 1..MaxMonth
  BY GrantFits, SpendingTypes, CallAssumption DEF Reserve
<1>2. CallInput[c] + Grant(c) \in Nat
  BY <1>1
<1>3. CASE Priced
  <2>1. CurrentRow # None /\ CurrentRow \in 1..MaxPrices
        /\ costMicros(prices[CurrentRow].price, CallInput[c], Grant(c)) \in Nat
    BY <1>1, <1>3, PricedRow, Priceless
  <2>2. row = [status |-> "RESERVED", period |-> month, reserved |-> CallInput[c] + Grant(c), price |-> CurrentRow,
               reservedCost |-> costMicros(prices[CurrentRow].price, CallInput[c], Grant(c)), used |-> <<0, 0>>, cost |-> 0]
    BY <1>3, <2>1 DEF Reservation
  <2>3. row \in UsageRow
    BY <1>1, <1>2, <2>1, <2>2 DEF UsageRow
  <2> QED BY <1>1, <1>3, <2>2, <2>3, SpendingNames
<1>4. CASE ~Priced
  <2>1. row = [status |-> "RESERVED", period |-> month, reserved |-> CallInput[c] + Grant(c), price |-> None,
               reservedCost |-> 0, used |-> <<0, 0>>, cost |-> 0]
    BY <1>4 DEF Reservation
  <2>2. row \in UsageRow
    BY <1>1, <1>2, <2>1 DEF UsageRow
  <2> QED BY <1>1, <1>4, <2>1, <2>2, SpendingNames
<1> QED BY <1>3, <1>4

LEMMA ReserveStep == ASSUME SpendingInductive, NEW c \in Calls, Reserve(c) PROVE SpendingInductive'
<1> DEFINE row == Reservation(c, Grant(c))
<1>1. /\ usage' = [usage EXCEPT ![c] = row] /\ UNCHANGED <<budget, prices, month, ended>>
      /\ Reached(budget, usage', month) \subseteq alerts'
  BY DEF Reserve
<1>2. usage \in [Calls -> UsageRow \cup {None}] /\ row \in UsageRow /\ month \in Nat
  BY SpendingTypes, ReserveKeepsRow
<1>3. usage' \in [Calls -> UsageRow \cup {None}] /\ usage'[c] = row /\ \A d \in Calls \ {c} : usage'[d] = usage[d]
  BY <1>1, <1>2
<1>4. /\ row.period = month /\ row.status = "RESERVED" /\ row.cost = 0
      /\ row.price # None => row.price \in 1..Len(prices) /\ prices[row.price].price # None
      /\ row.price = None => row.reservedCost = 0
  BY ReserveKeepsRow, PricedRow DEF Priced
<1> HIDE DEF row
<1>5. SpendingTypeOK'
  BY <1>1, <1>3, <1>4 DEF SpendingInductive, SpendingSound, SpendingTypeOK
<1>6. CostAtReservedPrice'
  BY <1>1, <1>3, <1>4 DEF SpendingInductive, SpendingSound, CostAtReservedPrice, costMicros
<1>7. AlertsComplete' /\ OneCurrency' /\ BudgetFits'
  BY <1>1 DEF SpendingInductive, SpendingSound, AlertsComplete, OneCurrency, BudgetFits
<1>8. \A d \in Calls : usage'[d] # None => usage'[d].period <= month'
  BY <1>1, <1>2, <1>3, <1>4 DEF SpendingInductive
<1> QED BY <1>5, <1>6, <1>7, <1>8 DEF SpendingInductive, SpendingSound

\* A settled row is of the same month and price.
LEMMA SettleRow ==
  ASSUME SpendingInductive, NEW c \in Calls, NEW used \in Usages, Settle(c, used)
  PROVE  /\ usage' \in [Calls -> UsageRow \cup {None}] /\ usage[c] \in UsageRow /\ usage'[c] \in UsageRow
         /\ SettleOnly(usage[c], usage'[c]) /\ usage'[c].period = usage[c].period /\ usage'[c].price = usage[c].price
         /\ usage'[c].used = used /\ usage'[c].reservedCost = usage[c].reservedCost
         /\ usage'[c].cost = IF usage[c].price = None THEN 0 ELSE costMicros(prices[usage[c].price].price, used[1], used[2])
         /\ \A d \in Calls \ {c} : usage'[d] = usage[d]
<1> DEFINE cost == IF usage[c].price = None THEN 0 ELSE costMicros(prices[usage[c].price].price, used[1], used[2])
           row == [usage[c] EXCEPT !.status = "SETTLED", !.used = used, !.cost = cost]
<1>1. usage \in [Calls -> UsageRow \cup {None}] /\ usage[c] # None /\ usage[c].status = "RESERVED" /\ usage[c] \in UsageRow
  BY SpendingTypes DEF Settle, MaySettle
<1>2. usage' = [usage EXCEPT ![c] = row]
  BY <1>1 DEF Settle
<1>3. used \in Nat \X Nat
  BY UsageAssumption
<1>4. cost \in Nat
  <2>1. CASE usage[c].price = None
    BY <2>1
  <2>2. CASE usage[c].price # None
    <3>1. usage[c].price \in 1..Len(prices) /\ prices[usage[c].price].price # None /\ prices \in Seq(PriceRow)
      BY <1>1, <2>2 DEF SpendingInductive, SpendingSound, SpendingTypeOK
    <3>2. prices[usage[c].price] \in PriceRow
      BY <3>1
    <3>3. prices[usage[c].price].price \in [input : Nat, output : Nat]
      BY <3>1, <3>2, PriceAssumption DEF PriceRow
    <3> QED BY <1>3, <2>2, <3>3, Priceless
  <2> QED BY <2>1, <2>2
<1> HIDE DEF cost
<1>5. row \in UsageRow
  BY <1>1, <1>3, <1>4 DEF UsageRow
<1>6. usage'[c] = row /\ usage' \in [Calls -> UsageRow \cup {None}] /\ \A d \in Calls \ {c} : usage'[d] = usage[d]
  BY <1>1, <1>2, <1>5
<1>7. /\ row.status = "SETTLED" /\ row.period = usage[c].period /\ row.price = usage[c].price /\ row.used = used
      /\ row.reservedCost = usage[c].reservedCost /\ row.cost = cost
      /\ [row EXCEPT !.status = usage[c].status, !.used = usage[c].used, !.cost = usage[c].cost] = usage[c]
  BY <1>1 DEF UsageRow
<1> HIDE DEF row
<1> QED BY <1>1, <1>5, <1>6, <1>7 DEF SettleOnly, cost

LEMMA SettleStep ==
  ASSUME SpendingInductive, NEW c \in Calls, NEW used \in Usages, Settle(c, used) PROVE SpendingInductive'
<1>1. /\ UNCHANGED <<budget, prices, month, ended>>
      /\ alerts' = alerts \cup Reached(budget, usage', usage[c].period)
      /\ usage[c] # None
  BY DEF Settle, MaySettle
<1>2. SpendingTypeOK' /\ usage'[c] # None
  BY <1>1, SettleRow, SpendingNames DEF SpendingInductive, SpendingSound, SpendingTypeOK
<1>3. CostAtReservedPrice'
  <2>1. ASSUME NEW d \in Calls, usage'[d] # None
        PROVE  IF usage'[d].price = None THEN usage'[d].cost = 0 /\ usage'[d].reservedCost = 0
               ELSE usage'[d].status = "SETTLED" =>
                      usage'[d].cost = costMicros(prices[usage'[d].price].price, usage'[d].used[1], usage'[d].used[2])
    <3>1. CASE d = c
      BY <1>1, <3>1, SettleRow DEF SpendingInductive, SpendingSound, CostAtReservedPrice
    <3>2. CASE d # c
      BY <2>1, <3>2, SettleRow DEF SpendingInductive, SpendingSound, CostAtReservedPrice
    <3> QED BY <3>1, <3>2
  <2> QED BY <1>1, <2>1 DEF CostAtReservedPrice, costMicros
<1>4. AlertsComplete'
  <2>1. CASE usage[c].period = month
    BY <1>1, <2>1 DEF AlertsComplete
  <2>2. CASE usage[c].period # month
    <3>1. \A d \in Calls : (usage[d] # None /\ usage[d].period = month) <=> (usage'[d] # None /\ usage'[d].period = month)
      BY <1>1, <1>2, <2>2, SettleRow
    <3>2. InMonth(usage, month) = InMonth(usage', month) /\ c \notin InMonth(usage, month)
      BY <2>2, <3>1 DEF InMonth
    <3>3. \A d \in InMonth(usage, month) : usage[d] = usage'[d]
      BY <3>2, SettleRow DEF InMonth
    <3>4. Reached(budget, usage, month) = Reached(budget, usage', month)
      BY <3>2, <3>3, ReachedSame
    <3> QED BY <1>1, <3>4 DEF SpendingInductive, SpendingSound, AlertsComplete
  <2> QED BY <2>1, <2>2
<1>5. OneCurrency' /\ BudgetFits'
  BY <1>1 DEF SpendingInductive, SpendingSound, OneCurrency, BudgetFits
<1>6. \A d \in Calls : usage'[d] # None => usage'[d].period <= month'
  BY <1>1, SettleRow DEF SpendingInductive
<1> QED BY <1>2, <1>3, <1>4, <1>5, <1>6 DEF SpendingInductive, SpendingSound

LEMMA DenyStep == ASSUME SpendingInductive, NEW c \in Calls, Deny(c) PROVE SpendingInductive'
<1>1. UNCHANGED <<budget, prices, usage, month, ended>> /\ alerts \subseteq alerts'
  BY DEF Deny
<1> QED BY <1>1 DEF SpendingInductive, SpendingSound, SpendingTypeOK, CostAtReservedPrice, AlertsComplete, OneCurrency, BudgetFits

LEMMA SetBudgetStep == ASSUME SpendingInductive, NEW b \in Budgets, SetBudget(b) PROVE SpendingInductive'
<1>1. /\ UNCHANGED <<prices, usage, month, ended>> /\ Reached(budget', usage, month) \subseteq alerts'
      /\ budget' = [version |-> budget.version + 1, limit |-> b.limit, currency |-> b.currency, thresholds |-> b.thresholds]
      /\ budget.version < MaxVersion /\ (b.currency # budget.currency => prices = <<>>)
  BY DEF SetBudget
<1>2. BudgetFits'
  BY <1>1, BudgetAssumption DEF BudgetFits
<1>3. SpendingTypeOK'
  <2>1. budget'.version \in 0..MaxVersion
    BY <1>1, SpendingBounds DEF SpendingInductive, SpendingSound, SpendingTypeOK
  <2>2. budget' = [[version |-> 0, limit |-> b.limit, currency |-> b.currency, thresholds |-> b.thresholds]
                     EXCEPT !.version = budget'.version]
    BY <1>1
  <2>3. budget' \in {[x EXCEPT !.version = budget'.version] : x \in
          {[version |-> 0, limit |-> x.limit, currency |-> x.currency, thresholds |-> x.thresholds] : x \in Budgets}}
    BY <2>2
  <2> QED BY <1>1, <2>1, <2>3 DEF SpendingInductive, SpendingSound, SpendingTypeOK
<1>4. OneCurrency'
  <2>1. CASE prices = <<>>
    BY <1>1, <2>1 DEF OneCurrency
  <2>2. CASE b.currency = budget.currency
    BY <1>1, <2>2 DEF SpendingInductive, SpendingSound, OneCurrency
  <2> QED BY <1>1, <2>1, <2>2
<1>5. CostAtReservedPrice' /\ AlertsComplete'
  BY <1>1 DEF SpendingInductive, SpendingSound, CostAtReservedPrice, AlertsComplete, costMicros
<1>6. \A d \in Calls : usage'[d] # None => usage'[d].period <= month'
  BY <1>1 DEF SpendingInductive
<1> QED BY <1>2, <1>3, <1>4, <1>5, <1>6 DEF SpendingInductive, SpendingSound

\* Rows of the book stay where they are.
LEMMA PriceStep == ASSUME SpendingInductive, NEW p \in Prices \cup {None}, AddPriceRow(p) PROVE SpendingInductive'
<1> DEFINE x == [price |-> p, currency |-> budget.currency]
<1>1. prices' = Append(prices, x) /\ Len(prices) < MaxPrices /\ UNCHANGED <<budget, usage, alerts, month, ended>>
  BY DEF AddPriceRow
<1>2. prices \in Seq(PriceRow) /\ x \in PriceRow /\ x.currency = budget.currency /\ Len(prices) \in Nat
  BY DEF SpendingInductive, SpendingSound, SpendingTypeOK, BudgetFits, PriceRow
<1> HIDE DEF x
<1>3. /\ prices' \in Seq(PriceRow) /\ Len(prices') = Len(prices) + 1 /\ Len(prices') <= MaxPrices
      /\ \A i \in 1..Len(prices) : prices'[i] = prices[i] /\ i \in 1..Len(prices')
      /\ prices'[Len(prices) + 1] = x
  BY <1>1, <1>2, SpendingBounds
<1>4. SpendingTypeOK'
  BY <1>1, <1>3 DEF SpendingInductive, SpendingSound, SpendingTypeOK
<1>5. CostAtReservedPrice'
  <2>1. ASSUME NEW d \in Calls, usage[d] # None, usage[d].price # None PROVE prices'[usage[d].price] = prices[usage[d].price]
    BY <1>3, <2>1 DEF SpendingInductive, SpendingSound, SpendingTypeOK
  <2> QED BY <1>1, <2>1 DEF SpendingInductive, SpendingSound, CostAtReservedPrice, costMicros
<1>6. OneCurrency'
  <2>1. ASSUME NEW i \in 1..Len(prices') PROVE prices'[i].currency = budget.currency
    <3>1. i \in 1..Len(prices) \/ i = Len(prices) + 1
      BY <1>2, <1>3
    <3> QED BY <1>2, <1>3, <3>1 DEF SpendingInductive, SpendingSound, OneCurrency
  <2> QED BY <1>1, <2>1 DEF OneCurrency
<1>7. AlertsComplete' /\ BudgetFits' /\ \A d \in Calls : usage'[d] # None => usage'[d].period <= month'
  BY <1>1 DEF SpendingInductive, SpendingSound, AlertsComplete, BudgetFits
<1> QED BY <1>4, <1>5, <1>6, <1>7 DEF SpendingInductive, SpendingSound

\* Nothing is charged to a month that begins, and nothing is not enough for an alert.
LEMMA MonthStep == ASSUME SpendingInductive, MonthTurns PROVE SpendingInductive'
<1>1. month' = month + 1 /\ month < MaxMonth /\ month \in Nat /\ month \in 1..MaxMonth
      /\ UNCHANGED <<budget, prices, usage, alerts, ended>>
  BY SpendingTypes DEF MonthTurns
<1>2. usage \in [Calls -> UsageRow \cup {None}]
  BY SpendingTypes
<1>3. ASSUME NEW d \in Calls, usage[d] # None
      PROVE usage[d].period # month + 1 /\ usage[d].period <= month + 1
  <2>1. usage[d].period <= month /\ usage[d].period \in 1..MaxMonth
    BY <1>2, <1>3 DEF SpendingInductive, UsageRow
  <2> QED BY <1>1, <2>1, SpendingBounds
<1>4. Reached(budget, usage, month + 1) = {}
  <2>1. InMonth(usage, month + 1) = {}
    BY <1>3 DEF InMonth
  <2>2. \A s : Charged(usage, {}, s) = 0
    BY TotalEmpty DEF Charged
  <2>3. ASSUME NEW s \in MonthlyScope, budget.limit[s] # None, NEW t \in Thresholds(budget)
        PROVE  ~(Charged(usage, InMonth(usage, month + 1), s) * 100 >= t * budget.limit[s])
    <3>1. budget.limit[s] \in Nat \ {0} /\ t \in Nat \ {0}
      BY <2>3 DEF SpendingInductive, BudgetFits, MonthlyScope, Scope, Thresholds, LIMIT_REACHED
    <3> DEFINE l == budget.limit[s]
    <3>2. l * t > 0 /\ t * l > 0
      <4> HIDE DEF l
      <4> QED BY ONLY <3>1 DEF l
    <3>3. Charged(usage, InMonth(usage, month + 1), s) * 100 = 0
      BY <2>1, <2>2
    <3> HIDE DEF l
    <3> QED BY <3>1, <3>2, <3>3 DEF l
  <2> QED BY <2>3 DEF Reached
<1>5. SpendingTypeOK'
  BY <1>1, SpendingBounds DEF SpendingInductive, SpendingSound, SpendingTypeOK
<1>6. AlertsComplete'
  BY <1>1, <1>4 DEF AlertsComplete
<1>7. CostAtReservedPrice' /\ OneCurrency' /\ BudgetFits'
  BY <1>1 DEF SpendingInductive, SpendingSound, CostAtReservedPrice, OneCurrency, BudgetFits, costMicros
<1>8. \A d \in Calls : usage'[d] # None => usage'[d].period <= month'
  BY <1>1, <1>3
<1> QED BY <1>5, <1>6, <1>7, <1>8 DEF SpendingInductive, SpendingSound

LEMMA SpendingStep == ASSUME SpendingInductive, [SpendingNext]_spendingVars PROVE SpendingInductive'
<1>1. CASE UNCHANGED spendingVars
  BY <1>1 DEF spendingVars, SpendingInductive, SpendingSound, SpendingTypeOK, CostAtReservedPrice, AlertsComplete, OneCurrency,
     BudgetFits, costMicros
<1>2. ASSUME NEW r \in CallRuns, RunStops(r) PROVE SpendingInductive'
  <2>1. UNCHANGED <<budget, prices, usage, alerts, month>> /\ ended' \subseteq CallRuns
    BY <1>2 DEF RunStops, SpendingInductive, SpendingSound, SpendingTypeOK
  <2> QED BY <2>1 DEF SpendingInductive, SpendingSound, SpendingTypeOK, CostAtReservedPrice, AlertsComplete, OneCurrency,
       BudgetFits, costMicros
<1> QED BY <1>1, <1>2, ReserveStep, DenyStep, SettleStep, SetBudgetStep, PriceStep, MonthStep
     DEF SpendingNext, SetPrice, RemovePrice

LEMMA SpendingInvariant == SpendingSpec => []SpendingInductive
BY SpendingInitFits, SpendingStep, PTL DEF SpendingSpec

\* Costs are those of the price a call was reserved at, no two currencies are added up, and
\* every alert that is due was raised, whatever happens to calls, prices and budgets.
THEOREM SpendingSoundHolds == SpendingSpec => []SpendingSound
<1>1. SpendingInductive => SpendingSound
  BY DEF SpendingInductive
<1> QED BY <1>1, SpendingInvariant, PTL

\* The cost of what is granted stays within what the limit leaves, its rounding included.
LEMMA CostFits ==
  ASSUME NEW p \in [input : Nat, output : Nat], NEW left \in Int, NEW in \in Nat, NEW asked \in Nat, NEW out \in Nat,
         out <= maxOutputWithin(p, left, in, asked)
  PROVE  costMicros(p, in, out) <= left
<1> DEFINE i == in * p.input
           o == out * p.output
           rest == left * MILLION - i
<1>1. p.input \in Nat /\ p.output \in Nat /\ MILLION \in Nat \ {0}
  BY ScaleAssumption
<1>2. i \in Nat /\ o \in Nat /\ left * MILLION \in Int /\ rest \in Int
  BY <1>1
<1>3. ~(left < 0 \/ rest < 0)
  <2> SUFFICES ASSUME left < 0 \/ rest < 0 PROVE FALSE
    OBVIOUS
  <2>1. out <= -1
    BY DEF maxOutputWithin
  <2> QED BY <2>1
<1>4. o <= rest
  <2>1. CASE p.output = 0
    <3>1. o = 0
      BY <2>1
    <3> HIDE DEF o, rest
    <3> QED BY <1>2, <1>3, <3>1
  <2>2. CASE p.output # 0
    <3>1. out <= rest \div p.output
      BY <1>3, <2>2 DEF maxOutputWithin
    <3> DEFINE m == p.output
    <3>2. m \in Nat \ {0} /\ rest \in Int /\ out \in Int /\ out <= rest \div m
      BY <1>1, <1>2, <2>2, <3>1
    <3> HIDE DEF rest, m
    <3>3. out * m <= rest
      BY ONLY <3>2, Divided
    <3> QED BY <3>3 DEF m
  <2> QED BY <2>1, <2>2
<1>5. i + o <= left * MILLION
  <2> DEFINE lm == left * MILLION
  <2>1. o <= lm - i /\ lm \in Int
    BY <1>2, <1>4
  <2> HIDE DEF i, o, lm, rest
  <2>2. i + o <= lm
    BY <1>2, <2>1
  <2> QED BY <2>2 DEF lm
<1>6. costMicros(p, in, out) = (i + o + MILLION - 1) \div MILLION
  BY DEF costMicros
<1> HIDE DEF i, o
<1> QED BY <1>1, <1>2, <1>5, <1>6, Rounded

\* The limits hold with the new row.
LEMMA GrantKeeps ==
  ASSUME SpendingInductive, NEW c \in Calls, Reserve(c), NEW s \in Limited
  PROVE  Used(usage', CallRun[c], month, s) <= budget.limit[s]
<1> DEFINE row == Reservation(c, Grant(c))
           former == Used(usage, CallRun[c], month, s)
           more == IF s \in TokenScope THEN Tokens(row) ELSE Cost(row)
<1>1. usage' = [usage EXCEPT ![c] = row] /\ usage[c] = None /\ ~PriceMissing /\ ~TooLittle(c)
  BY DEF Reserve, MayReserve
<1>2. usage \in [Calls -> UsageRow \cup {None}] /\ month \in Nat
  BY SpendingTypes
<1>3. row \in UsageRow /\ row # None /\ row.status = "RESERVED" /\ row.period = month
  BY ReserveKeepsRow
<1>4. usage' \in [Calls -> UsageRow \cup {None}] /\ usage'[c] = row /\ \A d \in Calls \ {c} : usage'[d] = usage[d]
  BY <1>1, <1>2, <1>3
<1>5. /\ s \in Scope /\ budget.limit[s] \in Nat /\ Room(c, s) \in Int /\ (s \notin TokenScope => Priced)
      /\ Grant(c) \in Nat /\ Grant(c) <= Room(c, s) /\ CallInput[c] \in Nat /\ CallAsked[c] \in Nat
  BY <1>1, RoomInt, GrantFits, CallAssumption
<1>6. former \in Nat
  BY <1>5, SpendingTypes
<1>7. Used(usage', CallRun[c], month, s) = more + former
  <2> DEFINE calls == IF s \in MonthlyScope THEN InMonth(usage', month) ELSE InRun(usage', CallRun[c])
             before == IF s \in MonthlyScope THEN InMonth(usage, month) ELSE InRun(usage, CallRun[c])
  <2> HIDE DEF row
  <2>1. c \in calls /\ calls \in SUBSET Calls /\ \A x \in calls : usage'[x] # None
    BY <1>3, <1>4 DEF InMonth, InRun
  <2>2. before = calls \ {c}
    BY <1>1, <1>4 DEF InMonth, InRun
  <2>3. \A x \in calls \ {c} : usage[x] = usage'[x]
    BY <1>4, <2>1
  <2>4. Used(usage', CallRun[c], month, s) = Charged(usage', calls, s) /\ former = Charged(usage, before, s)
    BY DEF Used
  <2> HIDE DEF calls, before, former
  <2>5. Charged(usage', calls, s) = (IF s \in TokenScope THEN Tokens(usage'[c]) ELSE Cost(usage'[c])) + Charged(usage, calls \ {c}, s)
    BY <1>2, <1>4, <1>5, <2>1, <2>3, ChargedMore
  <2> QED BY <1>4, <2>2, <2>4, <2>5
<1>8. CASE s \in TokenScope
  <2>1. more = CallInput[c] + Grant(c)
    BY <1>3, <1>8, ReserveKeepsRow DEF Tokens
  <2>2. Room(c, s) = budget.limit[s] - former - CallInput[c]
    BY <1>8 DEF Room
  <2> HIDE DEF more, former
  <2> QED BY <1>5, <1>6, <1>7, <2>1, <2>2
<1>9. CASE s \notin TokenScope
  <2>1. Priced /\ prices[CurrentRow].price \in [input : Nat, output : Nat] /\ CurrentRow # None
    BY <1>5, <1>9, PricedRow
  <2>2. more = costMicros(prices[CurrentRow].price, CallInput[c], Grant(c))
    BY <1>3, <1>9, <2>1, ReserveKeepsRow DEF Cost
  <2>3. Room(c, s) = maxOutputWithin(prices[CurrentRow].price, budget.limit[s] - former, CallInput[c], CallAsked[c])
    BY <1>9 DEF Room
  <2> HIDE DEF former, row, more
  <2>4. budget.limit[s] - former \in Int
    BY <1>5, <1>6
  <2>5. more <= budget.limit[s] - former
    BY <1>5, <2>1, <2>2, <2>3, <2>4, CostFits
  <2>6. more \in Nat
    BY <1>5, <2>1, <2>2, Priceless
  <2> QED BY <1>5, <1>6, <1>7, <2>5, <2>6
<1> QED BY <1>8, <1>9

LEMMA RowsStep ==
  ASSUME SpendingInductive, [SpendingNext]_spendingVars, NEW c \in Calls, usage'[c] # usage[c]
  PROVE  \/ Reserve(c) /\ usage[c] = None
         \/ usage[c] # None /\ usage'[c] # None /\ SettleOnly(usage[c], usage'[c])
<1>1. usage \in [Calls -> UsageRow \cup {None}]
  BY SpendingTypes
<1>2. ASSUME NEW d \in Calls, Reserve(d) PROVE Reserve(c) /\ usage[c] = None
  <2>1. d = c
    BY <1>1, <1>2 DEF Reserve
  <2> QED BY <1>2, <2>1 DEF Reserve, MayReserve
<1>3. ASSUME NEW d \in Calls, NEW used \in Usages, Settle(d, used)
      PROVE  usage[c] # None /\ usage'[c] # None /\ SettleOnly(usage[c], usage'[c])
  <2>1. d = c
    BY <1>3, SettleRow
  <2>2. Settle(c, used)
    BY <1>3, <2>1
  <2>3. usage'[c] \in UsageRow /\ SettleOnly(usage[c], usage'[c])
    BY <2>2, SettleRow
  <2>4. usage[c] # None
    BY <2>2 DEF Settle, MaySettle
  <2> QED BY <2>3, <2>4, SpendingNames
<1> QED BY <1>2, <1>3 DEF SpendingNext, spendingVars, Deny, SetBudget, SetPrice, RemovePrice, AddPriceRow, MonthTurns, RunStops

\* A new reservation leaves every limit kept, for every price, budget and number of calls:
\* tokens and cost, of the month and of the run, with the rounding of the new row.
THEOREM GrantsFitHolds == SpendingSpec => GrantsFit
<1>1. ASSUME SpendingInductive, [SpendingNext]_spendingVars
      PROVE  [\A c \in Calls : usage[c] = None /\ usage'[c] # None =>
                \A s \in Limited : Used(usage', CallRun[c], month, s) <= budget.limit[s]]_spendingVars
  BY <1>1, RowsStep, GrantKeeps
<1> QED BY <1>1, SpendingInvariant, PTL DEF SpendingSpec, GrantsFit

\* A reservation is settled once, in its own month and at its own price, and a run that ended
\* reserves no more.
THEOREM SettledOnceHolds == SpendingSpec => SettledOnce
<1>1. ASSUME SpendingInductive, [SpendingNext]_spendingVars
      PROVE  [\A c \in Calls : usage'[c] # usage[c] =>
                IF usage[c] = None THEN CallRun[c] \notin ended' ELSE SettleOnly(usage[c], usage'[c])]_spendingVars
  BY <1>1, RowsStep DEF Reserve, MayReserve
<1> QED BY <1>1, SpendingInvariant, PTL DEF SpendingSpec, SettledOnce

(***************************************************************************)
(* ExecutionGrants.  An operation holds its claim, and what it may still   *)
(* do follows from where it is; a request that is not bound has started    *)
(* nothing; a partial checkout has an operation, a pending credential or   *)
(* an answer that tells of it; only exceptions leave a claim stuck.        *)
(***************************************************************************)
Operation == [request : Requests, at : Places \cup Outcomes \cup {"WORKSPACE_LOST"}]

FitsAt(q, at) ==
  /\ claims[q] = "RUNNING"
  /\ at \in {"claimed", "registered", "opened"} => q \notin bound
  /\ at \in {"bound", "credential", "redeeming", "ready"} => q \in bound /\ starts[q] = 0
  /\ at \in {"cloning", "SUCCEEDED", "FAILED", "CREDENTIAL_REFUSED"} => q \in bound
  /\ at = "credential" => q \in Private
  /\ at = "redeeming" => q \in pending
  /\ at \in {"ready", "cloning"} /\ q \in Private => q \in pending
  /\ at = "registered" => workspace[Thread[q]] # None /\ dir[Thread[q]] = "none"

OpsFit ==
  /\ \A o, p \in ops : Thread[o.request] = Thread[p.request] => o = p
  /\ \A o \in ops : FitsAt(o.request, o.at)
  /\ mode # "serving" => ops = {}

RequestFits(q) ==
  /\ starts[q] \in 0..1
  /\ q \notin bound => starts[q] = 0
  /\ claims[q] = None => q \notin bound
  /\ IF claims[q] \in Responses THEN answers[q] \subseteq {claims[q]} ELSE answers[q] = {}

InForce(q) ==
  /\ approval[q] = None <=> Decision[q] # "APPROVAL_REQUIRED"
  /\ grant[q] # None /\ approval[q] # None => grant[q] = "CUT" /\ approval[q] = "APPROVED"
  /\ grant[q] = "CUT" /\ q \in due => q \in late

\* A partial checkout is its own request's, and somebody knows of it.
PlaceFits(t, p) ==
  LET x == tree[t][p] IN
  x # None /\ ~x.whole =>
    /\ x.by \in bound /\ Thread[x.by] = t /\ Target[x.by] = p
    /\ IF mode = "serving"
         THEN Op(x.by, "cloning") \in ops \/ (x.by \notin Private /\ claims[x.by] = "OPERATION_INTERRUPTED")
         ELSE claims[x.by] \in {"RUNNING", "OPERATION_INTERRUPTED"} /\ (x.by \in Private => x.by \in pending)

PlacesFit ==
  /\ \A t \in Threads : \A p \in Paths : PlaceFits(t, p)
  /\ \A t \in Threads : workspace[t] = None => dir[t] = "none"
  /\ discarded # None => mode = "starting" /\ Found(discarded) = None

\* The claims nobody works on.
Stuck == {q \in Requests : claims[q] = "RUNNING" /\ ~\E o \in ops : o.request = q}
StuckFit == mode = "serving" => IsFiniteSet(Stuck) /\ Cardinality(Stuck) <= throws

GrantsInductive ==
  /\ GrantTypeOK
  /\ OpsFit
  /\ \A q \in Requests : RequestFits(q) /\ InForce(q)
  /\ PlacesFit
  /\ StuckFit

LEMMA GrantsInit == ASSUME GrantInit PROVE GrantsInductive
<1>1. GrantTypeOK
  BY GrantAssumption, GrantNames DEF GrantInit, GrantTypeOK
<1>2. OpsFit /\ PlacesFit
  BY DEF GrantInit, OpsFit, PlacesFit, PlaceFits
<1>3. \A q \in Requests : RequestFits(q) /\ InForce(q)
  BY GrantNames DEF GrantInit, RequestFits, InForce, Responses, Outcomes, Words
<1>4. StuckFit
  <2>1. Stuck = {}
    BY GrantNames DEF GrantInit, Stuck, Words
  <2> QED BY <2>1, FS_EmptySet DEF StuckFit, GrantInit
<1> QED BY <1>1, <1>2, <1>3, <1>4 DEF GrantsInductive

\* Decisions, deadlines and grants change nothing of what the runtime has.
LEMMA PlaneStep == ASSUME GrantsInductive, Plane PROVE GrantsInductive'
<1>1. UNCHANGED runtimeVars
  BY DEF Plane, ChangePolicy, DecideRequest, ApprovalEnds, GrantEnds, IssueGrant
<1>2. GrantTypeOK'
  <2>1. /\ policy' \in {"ALLOW", "REQUIRE_APPROVAL", "DENY"}
        /\ approval' \in [Requests -> {None, "PENDING", "APPROVED", "REJECTED"}]
        /\ due' \subseteq Requests /\ late' \subseteq Requests /\ grant' \in [Requests -> {None, "PLAIN", "CUT"}]
    BY DEF GrantsInductive, GrantTypeOK, Plane, ChangePolicy, DecideRequest, ApprovalEnds, GrantEnds, IssueGrant
  <2> QED BY <1>1, <2>1 DEF GrantsInductive, GrantTypeOK, runtimeVars, tableVars, diskVars
<1>3. ASSUME NEW q \in Requests PROVE InForce(q)'
  <2>1. InForce(q) /\ approval \in [Requests -> {None, "PENDING", "APPROVED", "REJECTED"}]
        /\ grant \in [Requests -> {None, "PLAIN", "CUT"}]
    BY DEF GrantsInductive, GrantTypeOK
  <2> QED BY <2>1, GrantNames DEF InForce, Words, Plane, ChangePolicy, DecideRequest, ApprovalEnds, GrantEnds, IssueGrant,
             Grantable
<1>4. OpsFit' /\ PlacesFit' /\ StuckFit' /\ \A q \in Requests : RequestFits(q)'
  BY <1>1 DEF GrantsInductive, runtimeVars, tableVars, diskVars, OpsFit, FitsAt, PlacesFit, PlaceFits, Found, StuckFit,
     Stuck, RequestFits
<1> QED BY <1>2, <1>3, <1>4 DEF GrantsInductive

\* An operation that goes on is still the only one of its workspace.
LEMMA Moved ==
  ASSUME GrantsInductive, NEW o \in ops, NEW at \in Places \cup Outcomes \cup {"WORKSPACE_LOST"}, Move(o, at)
  PROVE  /\ o.request \in Requests /\ Thread[o.request] \in Threads /\ Target[o.request] \in Paths
         /\ Op(o.request, at) \in ops' /\ ops' \subseteq Operation
         /\ \A p \in ops' : p = Op(o.request, at) \/ (p \in ops /\ Thread[p.request] # Thread[o.request])
         /\ \A p, r \in ops' : Thread[p.request] = Thread[r.request] => p = r
         /\ \A q : Op(q, "cloning") \in ops => Op(q, "cloning") \in ops' \/ o = Op(q, "cloning")
         /\ claims' = claims => Stuck' = Stuck
<1>1. o \in Operation /\ ops \subseteq Operation /\ [o EXCEPT !.at = at] = Op(o.request, at)
  BY DEF GrantsInductive, GrantTypeOK, Operation, Op
<1>2. o.request \in Requests /\ Thread[o.request] \in Threads /\ Target[o.request] \in Paths
  BY <1>1, GrantAssumption DEF Operation
<1>3. ops' = (ops \ {o}) \cup {Op(o.request, at)}
  BY <1>1 DEF Move
<1>4. \A p \in ops \ {o} : Thread[p.request] # Thread[o.request]
  BY DEF GrantsInductive, OpsFit
<1>5. Op(o.request, at) \in Operation /\ Op(o.request, at).request = o.request
  BY <1>1 DEF Op, Operation
<1>6. \A p, r \in ops' : Thread[p.request] = Thread[r.request] => p = r
  BY <1>3, <1>4, <1>5 DEF GrantsInductive, OpsFit
<1>7. \A q \in Requests : (\E p \in ops : p.request = q) <=> (\E p \in ops' : p.request = q)
  BY <1>3, <1>5
<1>8. claims' = claims => Stuck' = Stuck
  BY <1>7 DEF Stuck
<1> QED BY <1>1, <1>2, <1>3, <1>4, <1>5, <1>6, <1>8

\* Where an operation goes it fits, if it has done what belongs there.
LEMMA OpsGoOn ==
  ASSUME GrantsInductive, NEW o \in ops, NEW at \in Places \cup Outcomes \cup {"WORKSPACE_LOST"}, Move(o, at),
         mode' = "serving", FitsAt(o.request, at)',
         \A p \in ops : Thread[p.request] # Thread[o.request] => FitsAt(p.request, p.at)'
  PROVE  OpsFit'
<1>1. ASSUME NEW p \in ops' PROVE FitsAt(p.request, p.at)'
  <2>1. CASE p = Op(o.request, at)
    <3>1. p.request = o.request /\ p.at = at
      BY <2>1 DEF Op
    <3> QED BY <3>1
  <2>2. CASE p \in ops /\ Thread[p.request] # Thread[o.request]
    BY <2>2
  <2> QED BY <2>1, <2>2, Moved
<1> QED BY <1>1, Moved DEF OpsFit

\* Of an operation nothing changes that its place depends on.
LEMMA StaysFit ==
  ASSUME GrantsInductive, NEW p \in ops, claims'[p.request] = claims[p.request], starts'[p.request] = starts[p.request],
         p.request \in bound' <=> p.request \in bound, p.request \in pending' <=> p.request \in pending,
         dir'[Thread[p.request]] = dir[Thread[p.request]],
         workspace'[Thread[p.request]] = None <=> workspace[Thread[p.request]] = None
  PROVE  FitsAt(p.request, p.at)'
  BY DEF GrantsInductive, OpsFit, FitsAt

\* While the process serves, a place keeps its explanation unless a partial checkout comes.
LEMMA PlaceStays ==
  ASSUME GrantsInductive, NEW t \in Threads, NEW p \in Paths, mode = "serving", mode' = "serving",
         tree'[t][p] = tree[t][p], bound \subseteq bound',
         \A q : Op(q, "cloning") \in ops => Op(q, "cloning") \in ops',
         \A q : claims[q] = "OPERATION_INTERRUPTED" => claims'[q] = claims[q]
  PROVE  PlaceFits(t, p)'
  BY DEF GrantsInductive, PlacesFit, PlaceFits, Op

\* What an operation does before the provider is started: nothing of the tree changes.
LEMMA OpenSteps ==
  ASSUME GrantsInductive, NEW o \in ops,
         Open(o) \/ MakeDirectory(o) \/ Bind(o) \/ InUse(o) \/ RecordPending(o) \/ Redeem(o)
  PROVE  GrantsInductive'
<1>1. PICK at \in Places \cup Outcomes \cup {"WORKSPACE_LOST"} : Move(o, at)
  BY DEF Open, MakeDirectory, Bind, InUse, RecordPending, Redeem, Places, Outcomes
<1> DEFINE q == o.request
<1>2. /\ UNCHANGED <<planeVars, mode, claims, discarded, tree, starts, answers, crashes, throws>> /\ mode = "serving"
      /\ Op(q, at).request = q /\ Op(q, at).at = at
  BY DEF Open, MakeDirectory, Bind, InUse, RecordPending, Redeem, At, tableVars, diskVars, Op
<1>3. FitsAt(q, o.at) /\ GrantTypeOK /\ OpsFit /\ q \in Requests /\ Thread[q] \in Threads
  BY <1>1, Moved DEF GrantsInductive, OpsFit
<1>4. GrantTypeOK'
  <2>1. ops' \subseteq Operation
    BY <1>1, Moved
  <2>2. bound' \subseteq Requests /\ pending' \subseteq Private /\ pending \subseteq pending'
    BY <1>1, <1>3, Moved DEF Open, MakeDirectory, Bind, InUse, RecordPending, Redeem, FitsAt, At, tableVars, GrantTypeOK
  <2>3. workspace' \in [Threads -> {None, "READY", "IN_USE", "LOST"}] /\ dir' \in [Threads -> {"none", "there", "gone"}]
    <3>1. CASE Open(o) \/ MakeDirectory(o)
      BY <3>1, <1>3 DEF Open, MakeDirectory, tableVars, diskVars, GrantTypeOK
    <3>2. CASE Bind(o) \/ InUse(o)
      BY <3>2, <1>3 DEF Bind, InUse, tableVars, diskVars, GrantTypeOK
    <3>3. CASE RecordPending(o) \/ Redeem(o)
      BY <3>3, <1>3 DEF RecordPending, Redeem, tableVars, diskVars, GrantTypeOK
    <3> QED BY <1>1, <3>1, <3>2, <3>3
  <2> QED BY <1>2, <1>3, <2>1, <2>2, <2>3 DEF GrantTypeOK, Operation, planeVars
<1>5. OpsFit'
  <2>1. ASSUME NEW p \in ops, Thread[p.request] # Thread[q] PROVE FitsAt(p.request, p.at)'
    <3>1. p.request # q /\ p.request \in Requests /\ Thread[p.request] \in Threads
      BY <1>3, <2>1, GrantAssumption DEF GrantTypeOK
    <3>2. (p.request \in bound' <=> p.request \in bound) /\ (p.request \in pending' <=> p.request \in pending)
      BY <3>1 DEF Open, MakeDirectory, Bind, InUse, RecordPending, Redeem, tableVars
    <3>3. dir'[Thread[p.request]] = dir[Thread[p.request]] /\ workspace'[Thread[p.request]] = workspace[Thread[p.request]]
      BY <1>3, <2>1, <3>1 DEF Open, MakeDirectory, Bind, InUse, RecordPending, Redeem, tableVars, diskVars, GrantTypeOK
    <3> QED BY <1>2, <3>2, <3>3, StaysFit
  <2> USE DEF FitsAt, At, tableVars, diskVars, Places, Outcomes
  <2>2. CASE Open(o)
    <3>1. workspace[Thread[q]] = None => dir[Thread[q]] = "none"
      BY <1>3 DEF GrantsInductive, PlacesFit
    <3>2. \/ Move(o, "WORKSPACE_LOST") /\ FitsAt(q, "WORKSPACE_LOST")'
          \/ Move(o, "opened") /\ FitsAt(q, "opened")'
          \/ Move(o, "registered") /\ FitsAt(q, "registered")'
      BY <1>2, <1>3, <2>2, <3>1, GrantNames DEF Open, GrantTypeOK, Words
    <3> QED BY <1>2, <2>1, <3>2, OpsGoOn
  <2>3. CASE MakeDirectory(o)
    <3>1. Move(o, "opened") /\ FitsAt(q, "opened")'
      BY <1>2, <1>3, <2>3 DEF MakeDirectory
    <3> QED BY <1>2, <2>1, <3>1, OpsGoOn
  <2>4. CASE Bind(o)
    <3>1. starts[q] = 0
      BY <1>3, <2>4 DEF Bind, GrantsInductive, RequestFits
    <3>2. Move(o, "bound") /\ FitsAt(q, "bound")'
      BY <1>2, <1>3, <2>4, <3>1 DEF Bind
    <3> QED BY <1>2, <2>1, <3>2, OpsGoOn
  <2>5. CASE InUse(o)
    <3>1. \/ Move(o, "credential") /\ FitsAt(q, "credential")'
          \/ Move(o, "ready") /\ FitsAt(q, "ready")'
      BY <1>2, <1>3, <2>5 DEF InUse
    <3> QED BY <1>2, <2>1, <3>1, OpsGoOn
  <2>6. CASE RecordPending(o)
    <3>1. Move(o, "redeeming") /\ FitsAt(q, "redeeming")'
      BY <1>2, <1>3, <2>6 DEF RecordPending
    <3> QED BY <1>2, <2>1, <3>1, OpsGoOn
  <2>7. CASE Redeem(o)
    <3>1. \/ Move(o, "ready") /\ FitsAt(q, "ready")'
          \/ Move(o, "CREDENTIAL_REFUSED") /\ FitsAt(q, "CREDENTIAL_REFUSED")'
      BY <1>2, <1>3, <2>7 DEF Redeem
    <3> QED BY <1>2, <2>1, <3>1, OpsGoOn
  <2> QED BY <2>2, <2>3, <2>4, <2>5, <2>6, <2>7
<1>6. ASSUME NEW r \in Requests PROVE RequestFits(r)' /\ InForce(r)'
  <2>1. bound' = bound \/ (bound' = bound \cup {q} /\ claims[q] = "RUNNING")
    BY <1>3 DEF Open, MakeDirectory, Bind, InUse, RecordPending, Redeem, tableVars, FitsAt
  <2>2. RequestFits(r) /\ InForce(r)
    BY DEF GrantsInductive
  <2> QED BY <1>2, <2>1, <2>2, GrantNames DEF RequestFits, InForce, planeVars, Words
<1>7. PlacesFit'
  <2>1. ASSUME NEW t \in Threads, NEW p \in Paths PROVE PlaceFits(t, p)'
    <3>1. bound \subseteq bound' /\ o.at # "cloning"
      BY DEF Open, MakeDirectory, Bind, InUse, RecordPending, Redeem, tableVars, At
    <3>2. \A r : Op(r, "cloning") \in ops => Op(r, "cloning") \in ops'
      <4> SUFFICES ASSUME NEW r, Op(r, "cloning") \in ops PROVE Op(r, "cloning") \in ops'
        OBVIOUS
      <4>1. Op(r, "cloning").at = "cloning"
        BY DEF Op
      <4> QED BY <1>1, <3>1, <4>1, Moved
    <3> QED BY <1>2, <3>1, <3>2, PlaceStays
  <2>2. ASSUME NEW t \in Threads, workspace'[t] = None PROVE dir'[t] = "none"
    <3>1. workspace[t] = None
      BY <1>3, <2>2, GrantNames DEF Open, MakeDirectory, Bind, InUse, RecordPending, Redeem, tableVars, Words, GrantTypeOK
    <3>2. dir'[t] = dir[t]
      BY <1>3, <3>1 DEF Open, MakeDirectory, Bind, InUse, RecordPending, Redeem, tableVars, diskVars, GrantTypeOK, At, FitsAt
    <3> QED BY <3>1, <3>2 DEF GrantsInductive, PlacesFit
  <2> QED BY <1>2, <2>1, <2>2 DEF GrantsInductive, PlacesFit, Found
<1>8. StuckFit'
  BY <1>1, <1>2, Moved DEF GrantsInductive, StuckFit
<1> QED BY <1>4, <1>5, <1>6, <1>7, <1>8 DEF GrantsInductive

\* What an operation leaves alone when only its own claim, its own start and its own place change.
LEMMA RequestStays ==
  ASSUME GrantsInductive, NEW r \in Requests, UNCHANGED planeVars, bound' = bound, starts'[r] = starts[r],
         claims'[r] = claims[r], answers'[r] = answers[r]
  PROVE  RequestFits(r)' /\ InForce(r)'
  BY DEF GrantsInductive, RequestFits, InForce, planeVars

LEMMA StartStep ==
  ASSUME GrantsInductive, NEW o \in ops, Start(o) PROVE GrantsInductive'
<1> DEFINE q == o.request
           t0 == Thread[q]
           p0 == Target[q]
<1>1. \E at \in {"cloning", "SUCCEEDED", "FAILED"} : Move(o, at)
  BY DEF Start
<1>2. /\ GrantTypeOK /\ FitsAt(q, "ready") /\ o.at = "ready" /\ mode = "serving"
      /\ UNCHANGED <<planeVars, mode, claims, bound, workspace, pending, discarded, dir, answers, crashes, throws>>
  BY DEF GrantsInductive, OpsFit, Start, At, tableVars
<1>3. q \in Requests /\ t0 \in Threads /\ p0 \in Paths /\ RequestFits(q)
  BY <1>1, Moved DEF GrantsInductive, Places, Outcomes
<1>4. starts[q] = 0 /\ q \in bound /\ claims[q] = "RUNNING" /\ (q \in Private => q \in pending)
  BY <1>2 DEF FitsAt
<1>5. /\ starts' \in [Requests -> 0..2] /\ starts'[q] \in 0..1
      /\ \A r \in Requests \ {q} : starts'[r] = starts[r]
  BY <1>2, <1>3, <1>4 DEF Start, Started, GrantTypeOK
<1>6. /\ tree' \in [Threads -> [Paths -> {None} \cup [by : Requests, whole : BOOLEAN]]]
      /\ \A t \in Threads, p \in Paths : tree'[t][p] = tree[t][p] \/ (t = t0 /\ p = p0)
  <2>1. \A x : SetTree(q, x) => \A t \in Threads, p \in Paths : tree'[t][p] = IF t = t0 /\ p = p0 THEN x ELSE tree[t][p]
    BY <1>2, <1>3 DEF SetTree, GrantTypeOK
  <2>2. \A x \in {None} \cup [by : Requests, whole : BOOLEAN] :
          SetTree(q, x) => tree' \in [Threads -> [Paths -> {None} \cup [by : Requests, whole : BOOLEAN]]]
    BY <1>2, <1>3 DEF SetTree, GrantTypeOK
  <2>3. Partial(q) \in [by : Requests, whole : BOOLEAN] /\ Whole(q) \in [by : Requests, whole : BOOLEAN]
        /\ Found(q) \in {None} \cup [by : Requests, whole : BOOLEAN]
    BY <1>2, <1>3 DEF Partial, Whole, Found, GrantTypeOK
  <2> QED BY <1>2, <2>1, <2>2, <2>3 DEF Start, GrantTypeOK
<1>7. \A t \in Threads, p \in Paths : 
        \/ tree'[t][p] = tree[t][p]
        \/ tree'[t][p] # None /\ tree'[t][p].whole
        \/ t = t0 /\ p = p0 /\ tree'[t][p] = Partial(q) /\ Move(o, "cloning")
  <2>1. SetTree(q, Partial(q)) => tree'[t0][p0] = Partial(q)
    BY <1>2, <1>3 DEF SetTree, GrantTypeOK
  <2>2. SetTree(q, Whole(q)) => tree'[t0][p0] = Whole(q)
    BY <1>2, <1>3 DEF SetTree, GrantTypeOK
  <2>3. SetTree(q, Found(q)) => tree'[t0][p0] = tree[t0][p0]
    BY <1>2, <1>3 DEF SetTree, GrantTypeOK, Found
  <2>4. Whole(q).whole
    BY DEF Whole
  <2> QED BY <1>6, <2>1, <2>2, <2>3, <2>4, GrantNames DEF Start
<1>8. GrantTypeOK'
  <2>1. ops' \subseteq Operation
    BY <1>1, Moved DEF Places, Outcomes
  <2> QED BY <1>2, <1>5, <1>6, <2>1 DEF GrantTypeOK, Operation, planeVars
<1>9. OpsFit'
  <2>1. ASSUME NEW p \in ops, Thread[p.request] # Thread[q] PROVE FitsAt(p.request, p.at)'
    <3>1. p.request # q /\ p.request \in Requests
      BY <1>2, <2>1 DEF GrantTypeOK
    <3> QED BY <1>2, <1>5, <3>1, StaysFit
  <2>2. FitsAt(q, "cloning")' /\ FitsAt(q, "SUCCEEDED")' /\ FitsAt(q, "FAILED")'
    BY <1>2, <1>4 DEF FitsAt
  <2> QED BY <1>1, <1>2, <2>1, <2>2, OpsGoOn DEF Places, Outcomes
<1>10. ASSUME NEW r \in Requests PROVE RequestFits(r)' /\ InForce(r)'
  <2>1. CASE r # q
    BY <1>2, <1>5, <2>1, RequestStays
  <2>2. CASE r = q
    <3>1. RequestFits(q)'
      BY <1>2, <1>3, <1>4, <1>5 DEF RequestFits
    <3> QED BY <1>2, <2>2, <3>1 DEF GrantsInductive, InForce, planeVars
  <2> QED BY <2>1, <2>2
<1>11. PlacesFit'
  <2>1. \A r : Op(r, "cloning") \in ops => Op(r, "cloning") \in ops'
    <3> SUFFICES ASSUME NEW r, Op(r, "cloning") \in ops PROVE Op(r, "cloning") \in ops'
      OBVIOUS
    <3>1. Op(r, "cloning").at = "cloning"
      BY DEF Op
    <3> QED BY <1>1, <1>2, <3>1, Moved DEF Places, Outcomes
  <2>2. ASSUME NEW t \in Threads, NEW p \in Paths PROVE PlaceFits(t, p)'
    <3>1. CASE tree'[t][p] = tree[t][p]
      BY <1>2, <2>1, <3>1, PlaceStays
    <3>2. CASE tree'[t][p].whole
      BY <3>2 DEF PlaceFits
    <3>3. CASE t = t0 /\ p = p0 /\ tree'[t][p] = Partial(q) /\ Move(o, "cloning")
      <4>1. Op(q, "cloning") \in ops'
        BY <3>3, Moved DEF Places
      <4>2. tree'[t][p].by = q
        BY <3>3 DEF Partial
      <4> QED BY <1>2, <1>4, <3>3, <4>1, <4>2 DEF PlaceFits
    <3> QED BY <1>7, <3>1, <3>2, <3>3
  <2> QED BY <1>2, <2>2 DEF GrantsInductive, PlacesFit
<1>12. StuckFit'
  BY <1>1, <1>2, Moved DEF GrantsInductive, StuckFit, Places, Outcomes
<1> QED BY <1>8, <1>9, <1>10, <1>11, <1>12 DEF GrantsInductive

LEMMA CloneStep ==
  ASSUME GrantsInductive, NEW o \in ops, Clone(o) PROVE GrantsInductive'
<1> DEFINE q == o.request
           t0 == Thread[q]
           p0 == Target[q]
<1>1. \E at \in {"SUCCEEDED", "FAILED"} : Move(o, at)
  BY DEF Clone
<1>2. /\ GrantTypeOK /\ FitsAt(q, "cloning") /\ o.at = "cloning" /\ mode = "serving"
      /\ UNCHANGED <<planeVars, mode, claims, bound, workspace, pending, discarded, dir, starts, answers, crashes, throws>>
  BY DEF GrantsInductive, OpsFit, Clone, At, tableVars
<1>3. q \in Requests /\ t0 \in Threads /\ p0 \in Paths
  BY <1>1, Moved DEF Places, Outcomes
<1>4. PICK x \in {None, Whole(q)} : SetTree(q, x)
  BY DEF Clone
<1>5. /\ tree' \in [Threads -> [Paths -> {None} \cup [by : Requests, whole : BOOLEAN]]]
      /\ \A t \in Threads, p \in Paths : tree'[t][p] = IF t = t0 /\ p = p0 THEN x ELSE tree[t][p]
  <2>1. Whole(q) \in [by : Requests, whole : BOOLEAN]
    BY <1>3 DEF Whole
  <2> QED BY <1>2, <1>3, <1>4, <2>1 DEF SetTree, GrantTypeOK
<1>6. GrantTypeOK'
  <2>1. ops' \subseteq Operation
    BY <1>1, Moved DEF Places, Outcomes
  <2> QED BY <1>2, <1>5, <2>1 DEF GrantTypeOK, Operation, planeVars
<1>7. OpsFit'
  <2>1. ASSUME NEW p \in ops, Thread[p.request] # Thread[q] PROVE FitsAt(p.request, p.at)'
    BY <1>2, <2>1, StaysFit
  <2>2. FitsAt(q, "SUCCEEDED")' /\ FitsAt(q, "FAILED")'
    BY <1>2 DEF FitsAt
  <2> QED BY <1>1, <1>2, <2>1, <2>2, OpsGoOn DEF Places, Outcomes
<1>8. ASSUME NEW r \in Requests PROVE RequestFits(r)' /\ InForce(r)'
  BY <1>2, RequestStays
<1>9. PlacesFit'
  <2>1. ASSUME NEW t \in Threads, NEW p \in Paths PROVE PlaceFits(t, p)'
    <3>1. CASE t = t0 /\ p = p0
      BY <1>4, <1>5, <3>1, SMTT(30) DEF PlaceFits, Whole
    <3>2. CASE ~(t = t0 /\ p = p0)
      <4>1. PlaceFits(t, p) /\ tree'[t][p] = tree[t][p]
        BY <1>5, <3>2 DEF GrantsInductive, PlacesFit
      <4>2. ASSUME tree[t][p] # None, ~tree[t][p].whole, Op(tree[t][p].by, "cloning") \in ops
            PROVE  Op(tree[t][p].by, "cloning") \in ops'
        <5>1. tree[t][p].by # q
          BY <3>2, <4>1, <4>2 DEF PlaceFits
        <5>2. o # Op(tree[t][p].by, "cloning")
          BY <5>1 DEF Op
        <5> QED BY <1>1, <4>2, <5>2, Moved DEF Places, Outcomes
      <4> QED BY <1>2, <4>1, <4>2 DEF PlaceFits
    <3> QED BY <3>1, <3>2
  <2> QED BY <1>2, <2>1 DEF GrantsInductive, PlacesFit
<1>10. StuckFit'
  BY <1>1, <1>2, Moved DEF GrantsInductive, StuckFit, Places, Outcomes
<1> QED BY <1>6, <1>7, <1>8, <1>9, <1>10 DEF GrantsInductive

\* The finally of run(): what an operation that is over still needs is untouched.
LEMMA CloseStep ==
  ASSUME GrantsInductive, NEW o \in ops, Close(o) PROVE GrantsInductive'
<1> DEFINE q == o.request
<1>1. /\ GrantTypeOK /\ q \in Requests /\ Thread[q] \in Threads /\ mode = "serving" /\ o.at \in Outcomes
      /\ workspace[Thread[q]] = "IN_USE"
      /\ UNCHANGED <<planeVars, mode, ops, claims, bound, discarded, diskVars, starts, answers, crashes, throws>>
      /\ workspace' = [workspace EXCEPT ![Thread[q]] = "READY"] /\ pending' = pending \ {q}
  BY GrantAssumption DEF GrantsInductive, GrantTypeOK, Close
<1>2. discarded = None
  BY <1>1 DEF GrantsInductive, PlacesFit
<1>3. GrantTypeOK'
  BY <1>1, <1>2 DEF GrantTypeOK, planeVars, diskVars
<1>4. \A t \in Threads : workspace'[t] = None <=> workspace[t] = None
  BY <1>1, GrantNames DEF GrantTypeOK, Words
<1>5. OpsFit'
  <2>1. ASSUME NEW p \in ops PROVE FitsAt(p.request, p.at)'
    <3>1. p.request \in Requests /\ Thread[p.request] \in Threads /\ FitsAt(p.request, p.at)
      BY <1>1, GrantAssumption DEF GrantsInductive, OpsFit, GrantTypeOK
    <3>2. CASE p = o
      BY <1>1, <1>4, <3>1, <3>2 DEF FitsAt, Outcomes, diskVars
    <3>3. CASE p # o
      <4>1. p.request # q
        BY <3>3 DEF GrantsInductive, OpsFit
      <4> QED BY <1>1, <1>4, <3>1, <4>1, StaysFit DEF diskVars
    <3> QED BY <3>2, <3>3
  <2> QED BY <1>1, <2>1 DEF GrantsInductive, OpsFit
<1>6. ASSUME NEW r \in Requests PROVE RequestFits(r)' /\ InForce(r)'
  BY <1>1, RequestStays
<1>7. PlacesFit'
  <2>1. ASSUME NEW t \in Threads, NEW p \in Paths PROVE PlaceFits(t, p)'
    BY <1>1, PlaceStays DEF diskVars
  <2> QED BY <1>1, <1>2, <1>4, <2>1 DEF GrantsInductive, PlacesFit, diskVars
<1>8. StuckFit'
  BY <1>1 DEF GrantsInductive, StuckFit, Stuck
<1> QED BY <1>3, <1>5, <1>6, <1>7, <1>8 DEF GrantsInductive

\* Without an operation, the others fit as they did, and stuck is at most its claim.
LEMMA Gone ==
  ASSUME GrantsInductive, NEW o \in ops, ops' = ops \ {o}
  PROVE  /\ o.request \in Requests /\ Thread[o.request] \in Threads
         /\ \A p \in ops' : p \in ops /\ p.request # o.request /\ p.request \in Requests /\ Thread[p.request] \in Threads
         /\ \A p, r \in ops' : Thread[p.request] = Thread[r.request] => p = r
         /\ \A q \in Requests \ {o.request} : (\E p \in ops : p.request = q) <=> (\E p \in ops' : p.request = q)
         /\ \A r : o.at # "cloning" /\ Op(r, "cloning") \in ops => Op(r, "cloning") \in ops'
<1>1. ops \subseteq Operation /\ \A p \in ops : Thread[p.request] = Thread[o.request] => p = o
  BY DEF GrantsInductive, GrantTypeOK, OpsFit, Operation
<1>2. \A p \in ops : p.request \in Requests /\ Thread[p.request] \in Threads
  BY <1>1, GrantAssumption DEF Operation
<1>3. \A p, r \in ops' : Thread[p.request] = Thread[r.request] => p = r
  BY DEF GrantsInductive, OpsFit
<1>4. ASSUME NEW r, o.at # "cloning", Op(r, "cloning") \in ops PROVE Op(r, "cloning") \in ops'
  <2>1. Op(r, "cloning") # o
    BY <1>4 DEF Op
  <2> QED BY <1>4, <2>1
<1> QED BY <1>1, <1>2, <1>3, <1>4

\* The response is the claim's, and nobody was told another.
LEMMA RespondStep ==
  ASSUME GrantsInductive, NEW o \in ops, Respond(o) PROVE GrantsInductive'
<1> DEFINE q == o.request
<1>1. /\ GrantTypeOK /\ q \in Requests /\ Thread[q] \in Threads /\ mode = "serving" /\ claims[q] = "RUNNING"
      /\ o.at \in Responses \ {"OPERATION_INTERRUPTED"} /\ ops' = ops \ {o}
      /\ UNCHANGED <<planeVars, mode, bound, workspace, pending, discarded, dir, tree, starts, crashes, throws>>
  BY GrantAssumption
     DEF GrantsInductive, GrantTypeOK, OpsFit, FitsAt, Respond, Closed, Responses, Outcomes, diskVars
<1>2. claims' = [claims EXCEPT ![q] = o.at]
  BY <1>1 DEF Respond, Completed
<1>3. answers' = answers \/ answers' = [answers EXCEPT ![q] = @ \cup {o.at}]
  BY DEF Respond
<1>4. GrantTypeOK'
  <2>1. claims' \in [Requests -> {None, "RUNNING"} \cup Responses] /\ answers' \in [Requests -> SUBSET Responses]
    BY <1>1, <1>2, <1>3 DEF GrantTypeOK
  <2> QED BY <1>1, <2>1 DEF GrantTypeOK, planeVars
<1>5. OpsFit'
  <2>1. ASSUME NEW p \in ops' PROVE FitsAt(p.request, p.at)'
    <3>1. p \in ops /\ p.request # q /\ p.request \in Requests
      BY <1>1, <2>1, Gone
    <3> QED BY <1>1, <1>2, <3>1, StaysFit DEF GrantTypeOK
  <2> QED BY <1>1, <2>1, Gone DEF OpsFit
<1>6. ASSUME NEW r \in Requests PROVE RequestFits(r)' /\ InForce(r)'
  <2>1. CASE r # q
    <3>1. claims'[r] = claims[r] /\ answers'[r] = answers[r]
      BY <1>1, <1>2, <1>3, <2>1 DEF GrantTypeOK
    <3> QED BY <1>1, <3>1, RequestStays
  <2>2. CASE r = q
    <3>1. answers[q] = {} /\ RequestFits(q)
      BY <1>1 DEF GrantsInductive, RequestFits, Responses, Outcomes
    <3>2. claims'[q] = o.at /\ o.at \in Responses /\ answers'[q] \subseteq {o.at} /\ o.at # None
      BY <1>1, <1>2, <1>3, <3>1, GrantNames DEF GrantTypeOK, Responses, Outcomes, Words
    <3> QED BY <1>1, <2>2, <3>1, <3>2 DEF RequestFits, GrantsInductive, InForce, planeVars
  <2> QED BY <2>1, <2>2
<1>7. PlacesFit'
  <2>1. \A r : claims[r] = "OPERATION_INTERRUPTED" => claims'[r] = claims[r]
    BY <1>1, <1>2 DEF GrantTypeOK
  <2>2. o.at # "cloning"
    BY <1>1 DEF Responses, Outcomes
  <2>3. ASSUME NEW t \in Threads, NEW p \in Paths PROVE PlaceFits(t, p)'
    BY <1>1, <2>1, <2>2, Gone, PlaceStays
  <2> QED BY <1>1, <2>3 DEF GrantsInductive, PlacesFit
<1>8. StuckFit'
  <2>1. claims'[q] # "RUNNING"
    BY <1>1, <1>2 DEF GrantTypeOK, Responses, Outcomes
  <2>2. \A r \in Requests \ {q} : claims'[r] = claims[r]
    BY <1>2 
  <2>3. Stuck' = Stuck
    BY <1>1, <2>1, <2>2, Gone DEF Stuck
  <2> QED BY <1>1, <2>3 DEF GrantsInductive, StuckFit
<1> QED BY <1>4, <1>5, <1>6, <1>7, <1>8 DEF GrantsInductive

\* An exception leaves one claim more that nobody works on.
LEMMA ThrowStep ==
  ASSUME GrantsInductive, NEW o \in ops, Throw(o) PROVE GrantsInductive'
<1> DEFINE q == o.request
<1>1. /\ GrantTypeOK /\ q \in Requests /\ Thread[q] \in Threads /\ mode = "serving" /\ o.at # "cloning"
      /\ ops' = ops \ {o} /\ throws' = throws + 1 /\ throws' \in 0..MaxThrows /\ throws \in Nat
      /\ workspace[Thread[q]] = "IN_USE"
      /\ UNCHANGED <<planeVars, mode, claims, bound, discarded, diskVars, starts, answers, crashes>>
      /\ workspace' = [workspace EXCEPT ![Thread[q]] = "READY"] /\ pending' = pending \ {q}
  BY GrantAssumption DEF GrantsInductive, GrantTypeOK, Throw
<1>2. discarded = None
  BY <1>1 DEF GrantsInductive, PlacesFit
<1>3. GrantTypeOK'
  BY <1>1, <1>2 DEF GrantTypeOK, planeVars, diskVars
<1>4. \A t \in Threads : workspace'[t] = None <=> workspace[t] = None
  BY <1>1, GrantNames DEF GrantTypeOK, Words
<1>5. OpsFit'
  <2>1. ASSUME NEW p \in ops' PROVE FitsAt(p.request, p.at)'
    <3>1. p \in ops /\ p.request # q /\ Thread[p.request] \in Threads
      BY <1>1, <2>1, Gone
    <3> QED BY <1>1, <1>4, <3>1, StaysFit DEF diskVars
  <2> QED BY <1>1, <2>1, Gone DEF OpsFit
<1>6. ASSUME NEW r \in Requests PROVE RequestFits(r)' /\ InForce(r)'
  BY <1>1, RequestStays
<1>7. PlacesFit'
  <2>1. ASSUME NEW t \in Threads, NEW p \in Paths PROVE PlaceFits(t, p)'
    BY <1>1, Gone, PlaceStays DEF diskVars
  <2> QED BY <1>1, <1>2, <1>4, <2>1 DEF GrantsInductive, PlacesFit, diskVars
<1>8. StuckFit'
  <2>1. Stuck' \subseteq Stuck \cup {q}
    BY <1>1, Gone DEF Stuck
  <2>2. IsFiniteSet(Stuck) /\ Cardinality(Stuck) <= throws /\ Cardinality(Stuck) \in Nat
    BY <1>1, FS_CardinalityType DEF GrantsInductive, StuckFit
  <2>3. IsFiniteSet(Stuck \cup {q}) /\ Cardinality(Stuck \cup {q}) <= throws + 1 /\ Cardinality(Stuck \cup {q}) \in Nat
    <3>1. IsFiniteSet(Stuck \cup {q})
      BY <2>2, FS_AddElement
    <3>2. CASE q \in Stuck
      <4>1. Cardinality(Stuck \cup {q}) = Cardinality(Stuck)
        BY <2>2, <3>2, FS_AddElement
      <4> HIDE DEF q
      <4>2. Cardinality(Stuck \cup {q}) \in Nat
        BY <2>2, <4>1
      <4>3. Cardinality(Stuck) <= throws + 1
        BY <1>1, <2>2
      <4> QED BY <3>1, <4>1, <4>2, <4>3
    <3>3. CASE q \notin Stuck
      <4>1. Cardinality(Stuck \cup {q}) = Cardinality(Stuck) + 1
        BY <2>2, <3>3, FS_AddElement
      <4> QED BY <1>1, <2>2, <3>1, <4>1
    <3> QED BY <3>2, <3>3
  <2>4. IsFiniteSet(Stuck') /\ Cardinality(Stuck') <= Cardinality(Stuck \cup {q}) /\ Cardinality(Stuck') \in Nat
    BY <2>1, <2>3, FS_Subset, FS_CardinalityType
  <2> QED BY <1>1, <2>3, <2>4 DEF StuckFit
<1> QED BY <1>3, <1>5, <1>6, <1>7, <1>8 DEF GrantsInductive

LEMMA ClaimGrantStep ==
  ASSUME GrantsInductive, NEW q \in Requests, Claim(q) PROVE GrantsInductive'
<1>1. /\ GrantTypeOK /\ Thread[q] \in Threads /\ mode = "serving" /\ claims[q] = None
      /\ claims' = [claims EXCEPT ![q] = "RUNNING"] /\ ops' = ops \cup {Op(q, "claimed")}
      /\ \A o \in ops : Thread[o.request] # Thread[q]
      /\ UNCHANGED <<planeVars, mode, bound, workspace, pending, discarded, dir, tree, starts, answers, crashes, throws>>
  BY GrantAssumption DEF GrantsInductive, Claim, Busy, diskVars
<1>2. Op(q, "claimed") \in Operation /\ Op(q, "claimed").request = q /\ Op(q, "claimed").at = "claimed"
  BY DEF Op, Operation, Places
<1>3. RequestFits(q) /\ claims[q] \notin Responses /\ None # "RUNNING" /\ "RUNNING" \notin Responses
  BY <1>1, GrantNames DEF GrantsInductive, Responses, Outcomes, Words
<1>4. GrantTypeOK'
  <2>1. claims' \in [Requests -> {None, "RUNNING"} \cup Responses] /\ ops' \subseteq Operation
    BY <1>1, <1>2 DEF GrantTypeOK, Operation
  <2> QED BY <1>1, <2>1 DEF GrantTypeOK, Operation, planeVars
<1>5. OpsFit'
  <2>1. FitsAt(q, "claimed")'
    BY <1>1, <1>3 DEF FitsAt, RequestFits, GrantTypeOK
  <2>2. ASSUME NEW p \in ops PROVE FitsAt(p.request, p.at)'
    <3>1. p.request # q /\ p.request \in Requests
      BY <1>1 DEF GrantTypeOK
    <3> QED BY <1>1, <3>1, StaysFit DEF GrantTypeOK
  <2>3. \A p \in ops' : FitsAt(p.request, p.at)'
    BY <1>1, <1>2, <2>1, <2>2
  <2>4. \A o, p \in ops' : Thread[o.request] = Thread[p.request] => o = p
    BY <1>1, <1>2 DEF GrantsInductive, OpsFit
  <2> QED BY <1>1, <2>3, <2>4 DEF OpsFit
<1>6. ASSUME NEW r \in Requests PROVE RequestFits(r)' /\ InForce(r)'
  <2>1. CASE r # q
    BY <1>1, <2>1, RequestStays DEF GrantTypeOK
  <2>2. CASE r = q
    BY <1>1, <1>3, <2>2 DEF RequestFits, GrantsInductive, InForce, planeVars, GrantTypeOK
  <2> QED BY <2>1, <2>2
<1>7. PlacesFit'
  <2>1. \A r : claims[r] = "OPERATION_INTERRUPTED" => claims'[r] = claims[r]
    BY <1>1, <1>3 DEF GrantTypeOK, Responses
  <2>2. ASSUME NEW t \in Threads, NEW p \in Paths PROVE PlaceFits(t, p)'
    BY <1>1, <2>1, PlaceStays
  <2> QED BY <1>1, <2>2 DEF GrantsInductive, PlacesFit
<1>8. StuckFit'
  <2>1. Stuck' = Stuck
    BY <1>1, <1>2, <1>3 DEF Stuck, GrantTypeOK
  <2> QED BY <1>1, <2>1 DEF GrantsInductive, StuckFit
<1> QED BY <1>4, <1>5, <1>6, <1>7, <1>8 DEF GrantsInductive

LEMMA ReplayStep ==
  ASSUME GrantsInductive, NEW q \in Requests, Replay(q) PROVE GrantsInductive'
<1>1. /\ GrantTypeOK /\ claims[q] \in Responses /\ answers' = [answers EXCEPT ![q] = @ \cup {claims[q]}]
      /\ UNCHANGED <<planeVars, mode, ops, tableVars, discarded, diskVars, starts, crashes, throws>>
  BY DEF GrantsInductive, GrantTypeOK, Replay
<1>2. GrantTypeOK'
  BY <1>1 DEF GrantTypeOK, planeVars, tableVars, diskVars
<1>3. ASSUME NEW r \in Requests PROVE RequestFits(r)' /\ InForce(r)'
  BY <1>1 DEF GrantsInductive, RequestFits, InForce, planeVars, tableVars, GrantTypeOK
<1>4. OpsFit' /\ PlacesFit' /\ StuckFit'
  BY <1>1 DEF GrantsInductive, OpsFit, FitsAt, PlacesFit, PlaceFits, Found, StuckFit, Stuck, tableVars, diskVars
<1> QED BY <1>2, <1>3, <1>4 DEF GrantsInductive

LEMMA LoseStep ==
  ASSUME GrantsInductive, NEW t \in Threads, LoseDirectory(t) PROVE GrantsInductive'
<1>1. /\ GrantTypeOK /\ dir[t] = "there" /\ dir' = [dir EXCEPT ![t] = "gone"]
      /\ UNCHANGED <<planeVars, mode, ops, tableVars, discarded, starts, answers, crashes, throws>>
  BY DEF GrantsInductive, LoseDirectory
<1>2. /\ tree' \in [Threads -> [Paths -> {None} \cup [by : Requests, whole : BOOLEAN]]]
      /\ \A s \in Threads, p \in Paths : tree'[s][p] = IF s = t THEN None ELSE tree[s][p]
  BY <1>1 DEF LoseDirectory, GrantTypeOK
<1>3. GrantTypeOK'
  BY <1>1, <1>2 DEF GrantTypeOK, planeVars, tableVars
<1>4. ASSUME NEW r \in Requests PROVE RequestFits(r)' /\ InForce(r)'
  BY <1>1, RequestStays DEF tableVars
<1>5. OpsFit'
  BY <1>1 DEF GrantsInductive, OpsFit, FitsAt, tableVars, GrantTypeOK
<1>6. PlacesFit'
  <2>1. ASSUME NEW s \in Threads, NEW p \in Paths PROVE PlaceFits(s, p)'
    BY <1>1, <1>2 DEF GrantsInductive, PlacesFit, PlaceFits, tableVars
  <2>2. \A s \in Threads : workspace'[s] = None => dir'[s] = "none"
    BY <1>1 DEF GrantsInductive, PlacesFit, tableVars, GrantTypeOK
  <2>3. discarded' # None => mode' = "starting" /\ Found(discarded)' = None
    <3> SUFFICES ASSUME discarded # None PROVE mode = "starting" /\ Found(discarded)' = None
      BY <1>1
    <3>1. discarded \in Requests /\ Thread[discarded] \in Threads /\ Target[discarded] \in Paths
      BY <1>1, GrantAssumption DEF GrantTypeOK
    <3> QED BY <1>1, <1>2, <3>1 DEF GrantsInductive, PlacesFit, Found
  <2> QED BY <2>1, <2>2, <2>3 DEF PlacesFit
<1>7. StuckFit'
  BY <1>1 DEF GrantsInductive, StuckFit, Stuck, tableVars
<1> QED BY <1>3, <1>4, <1>5, <1>6, <1>7 DEF GrantsInductive

(***************************************************************************)
(* A stop, and recovery: nothing is under way                              *)
(***************************************************************************)
LEMMA CrashStep == ASSUME GrantsInductive, Crash PROVE GrantsInductive'
<1>1. /\ GrantTypeOK /\ mode' = "down" /\ ops' = {} /\ discarded' = None /\ crashes' \in 0..MaxCrashes
      /\ UNCHANGED <<planeVars, tableVars, diskVars, starts, answers, throws>>
  BY GrantAssumption DEF GrantsInductive, GrantTypeOK, Crash
<1>2. GrantTypeOK'
  BY <1>1 DEF GrantTypeOK, planeVars, tableVars, diskVars
<1>3. ASSUME NEW r \in Requests PROVE RequestFits(r)' /\ InForce(r)'
  BY <1>1, RequestStays DEF tableVars
<1>4. OpsFit' /\ StuckFit'
  BY <1>1 DEF OpsFit, StuckFit
<1>5. PlacesFit'
  <2>1. ASSUME NEW t \in Threads, NEW p \in Paths PROVE PlaceFits(t, p)'
    <3> DEFINE x == tree[t][p]
    <3>1. PlaceFits(t, p)
      BY DEF GrantsInductive, PlacesFit
    <3>2. ASSUME Op(x.by, "cloning") \in ops
          PROVE  claims[x.by] = "RUNNING" /\ (x.by \in Private => x.by \in pending)
      <4>1. FitsAt(x.by, "cloning")
        BY <3>2 DEF GrantsInductive, OpsFit, Op
      <4> QED BY <4>1 DEF FitsAt
    <3> QED BY <1>1, <3>1, <3>2 DEF PlaceFits, tableVars, diskVars
  <2> QED BY <1>1, <2>1 DEF GrantsInductive, PlacesFit, tableVars, diskVars
<1> QED BY <1>2, <1>3, <1>4, <1>5 DEF GrantsInductive

LEMMA RestartStep == ASSUME GrantsInductive, Restart PROVE GrantsInductive'
<1>1. /\ mode = "down" /\ mode' = "starting"
      /\ UNCHANGED <<planeVars, ops, tableVars, discarded, diskVars, starts, answers, crashes, throws>>
  BY DEF Restart
<1>2. GrantTypeOK'
  BY <1>1 DEF GrantsInductive, GrantTypeOK, planeVars, tableVars, diskVars
<1>3. ASSUME NEW r \in Requests PROVE RequestFits(r)' /\ InForce(r)'
  BY <1>1, RequestStays DEF tableVars
<1>4. OpsFit' /\ StuckFit' /\ PlacesFit'
  BY <1>1 DEF GrantsInductive, OpsFit, StuckFit, PlacesFit, PlaceFits, Found, tableVars, diskVars
<1> QED BY <1>2, <1>3, <1>4 DEF GrantsInductive

\* While it recovers nothing is under way, and what changes is explained by its claim.
LEMMA RecoverFit ==
  ASSUME GrantsInductive, mode = "starting", mode' = "starting", ops' = ops PROVE OpsFit' /\ StuckFit'
  BY DEF GrantsInductive, OpsFit, StuckFit

LEMMA DiscardStep == ASSUME GrantsInductive, NEW q \in Requests, Discard(q) PROVE GrantsInductive'
<1>1. /\ GrantTypeOK /\ mode = "starting" /\ q \in pending /\ discarded' = q /\ SetTree(q, None)
      /\ UNCHANGED <<planeVars, mode, ops, tableVars, dir, starts, answers, crashes, throws>>
      /\ Thread[q] \in Threads /\ Target[q] \in Paths
  BY GrantAssumption DEF GrantsInductive, Discard
<1>2. /\ tree' \in [Threads -> [Paths -> {None} \cup [by : Requests, whole : BOOLEAN]]]
      /\ \A t \in Threads, p \in Paths : tree'[t][p] = IF t = Thread[q] /\ p = Target[q] THEN None ELSE tree[t][p]
  BY <1>1 DEF SetTree, GrantTypeOK
<1>3. GrantTypeOK'
  BY <1>1, <1>2 DEF GrantTypeOK, planeVars, tableVars
<1>4. ASSUME NEW r \in Requests PROVE RequestFits(r)' /\ InForce(r)'
  BY <1>1, RequestStays DEF tableVars
<1>5. PlacesFit'
  <2>1. ASSUME NEW t \in Threads, NEW p \in Paths PROVE PlaceFits(t, p)'
    BY <1>1, <1>2 DEF GrantsInductive, PlacesFit, PlaceFits, tableVars
  <2>2. mode' = "starting" /\ Found(discarded)' = None
    BY <1>1, <1>2 DEF Found
  <2> QED BY <1>1, <2>1, <2>2 DEF GrantsInductive, PlacesFit, tableVars
<1> QED BY <1>1, <1>3, <1>4, <1>5, RecoverFit DEF GrantsInductive

\* A claim whose operation had begun is closed.
LEMMA Closes ==
  ASSUME GrantsInductive, mode = "starting", NEW q \in Requests, claims[q] = "RUNNING",
         claims' = [claims EXCEPT ![q] = "OPERATION_INTERRUPTED"],
         UNCHANGED <<planeVars, mode, bound, pending, discarded, tree, starts, answers>>
  PROVE  /\ claims' \in [Requests -> {None, "RUNNING"} \cup Responses]
         /\ \A r \in Requests : RequestFits(r)' /\ InForce(r)'
         /\ \A t \in Threads : \A p \in Paths : PlaceFits(t, p)'
<1>1. GrantTypeOK
  BY DEF GrantsInductive
<1>2. claims' \in [Requests -> {None, "RUNNING"} \cup Responses] /\ claims'[q] = "OPERATION_INTERRUPTED"
  BY <1>1 DEF GrantTypeOK, Responses
<1>3. ASSUME NEW r \in Requests PROVE RequestFits(r)' /\ InForce(r)'
  <2>1. CASE r # q
    BY <1>1, <2>1, RequestStays DEF GrantTypeOK
  <2>2. CASE r = q
    <3>1. RequestFits(q) /\ answers[q] = {}
      BY DEF GrantsInductive, RequestFits, Responses, Outcomes
    <3>2. None # "OPERATION_INTERRUPTED"
      BY GrantNames DEF Words
    <3> QED BY <1>2, <2>2, <3>1, <3>2 DEF RequestFits, GrantsInductive, InForce, planeVars
  <2> QED BY <2>1, <2>2
<1>4. ASSUME NEW t \in Threads, NEW p \in Paths PROVE PlaceFits(t, p)'
  <2>1. PlaceFits(t, p) /\ \A r : claims'[r] = claims[r] \/ claims'[r] = "OPERATION_INTERRUPTED"
    BY <1>1, <1>2 DEF GrantsInductive, PlacesFit, GrantTypeOK
  <2> QED BY <2>1 DEF PlaceFits
<1> QED BY <1>2, <1>3, <1>4

LEMMA CloseInterruptedStep == ASSUME GrantsInductive, CloseInterrupted PROVE GrantsInductive'
<1>1. /\ GrantTypeOK /\ mode = "starting" /\ discarded \in Requests
      /\ claims[discarded] = "RUNNING" /\ claims' = [claims EXCEPT ![discarded] = "OPERATION_INTERRUPTED"]
      /\ UNCHANGED <<planeVars, mode, ops, bound, workspace, pending, discarded, diskVars, starts, answers, crashes, throws>>
  BY GrantAssumption DEF GrantsInductive, GrantTypeOK, CloseInterrupted, Completed
<1>2. GrantTypeOK'
  BY <1>1, Closes DEF GrantTypeOK, planeVars, diskVars
<1>3. PlacesFit'
  BY <1>1, Closes DEF GrantsInductive, PlacesFit, Found, diskVars
<1> QED BY <1>1, <1>2, <1>3, Closes, RecoverFit DEF GrantsInductive, diskVars

\* The record is forgotten only where nothing partial is left.
LEMMA ClearPendingStep == ASSUME GrantsInductive, ClearPending PROVE GrantsInductive'
<1>1. /\ GrantTypeOK /\ mode = "starting" /\ discarded # None /\ pending' = pending \ {discarded} /\ discarded' = None
      /\ UNCHANGED <<planeVars, mode, ops, claims, bound, workspace, diskVars, starts, answers, crashes, throws>>
  BY DEF GrantsInductive, ClearPending
<1>2. GrantTypeOK'
  BY <1>1 DEF GrantTypeOK, planeVars, diskVars
<1>3. ASSUME NEW r \in Requests PROVE RequestFits(r)' /\ InForce(r)'
  BY <1>1, RequestStays
<1>4. PlacesFit'
  <2>1. ASSUME NEW t \in Threads, NEW p \in Paths PROVE PlaceFits(t, p)'
    <3>1. PlaceFits(t, p) /\ tree[Thread[discarded]][Target[discarded]] = None
      BY <1>1 DEF GrantsInductive, PlacesFit, Found
    <3> QED BY <1>1, <3>1 DEF PlaceFits, diskVars
  <2> QED BY <1>1, <2>1 DEF GrantsInductive, PlacesFit, diskVars
<1> QED BY <1>1, <1>2, <1>3, <1>4, RecoverFit DEF GrantsInductive

LEMMA CloseUnfinishedStep == ASSUME GrantsInductive, NEW q \in Requests, CloseUnfinished(q) PROVE GrantsInductive'
<1>1. /\ GrantTypeOK /\ mode = "starting" /\ claims[q] = "RUNNING" /\ Thread[q] \in Threads
      /\ UNCHANGED <<planeVars, mode, ops, bound, pending, discarded, diskVars, starts, answers, crashes, throws>>
  BY GrantAssumption DEF GrantsInductive, CloseUnfinished
<1>2. CASE q \notin bound /\ claims' = [claims EXCEPT ![q] = None] /\ UNCHANGED workspace
  <2>1. GrantTypeOK'
    BY <1>1, <1>2 DEF GrantTypeOK, planeVars, diskVars
  <2>2. ASSUME NEW r \in Requests PROVE RequestFits(r)' /\ InForce(r)'
    <3>1. CASE r # q
      BY <1>1, <1>2, <3>1, RequestStays DEF GrantTypeOK
    <3>2. CASE r = q
      <4>1. RequestFits(q) /\ InForce(q) /\ answers[q] = {} /\ claims'[q] = None /\ None \notin Responses
        BY <1>1, <1>2, GrantNames DEF GrantsInductive, RequestFits, Responses, Outcomes, GrantTypeOK, Words
      <4> QED BY <1>1, <1>2, <3>2, <4>1 DEF RequestFits, InForce, planeVars
    <3> QED BY <3>1, <3>2
  <2>3. PlacesFit'
    <3>1. ASSUME NEW t \in Threads, NEW p \in Paths PROVE PlaceFits(t, p)'
      <4>1. PlaceFits(t, p) /\ \A r \in bound : claims'[r] = claims[r]
        BY <1>1, <1>2 DEF GrantsInductive, PlacesFit, GrantTypeOK
      <4> QED BY <1>1, <4>1 DEF PlaceFits, diskVars
    <3> QED BY <1>1, <1>2, <3>1 DEF GrantsInductive, PlacesFit, Found, diskVars
  <2> QED BY <1>1, <2>1, <2>2, <2>3, RecoverFit DEF GrantsInductive
<1>3. CASE claims' = [claims EXCEPT ![q] = "OPERATION_INTERRUPTED"] /\ workspace' = [workspace EXCEPT ![Thread[q]] = "READY"]
  <2>1. GrantTypeOK'
    BY <1>1, <1>3, Closes DEF GrantTypeOK, planeVars, diskVars
  <2>2. \A t \in Threads : workspace'[t] = None => workspace[t] = None
    BY <1>1, <1>3, GrantNames DEF GrantTypeOK, Words
  <2>3. PlacesFit'
    BY <1>1, <1>3, <2>2, Closes DEF GrantsInductive, PlacesFit, Found, diskVars
  <2> QED BY <1>1, <1>3, <2>1, <2>3, Closes, RecoverFit DEF GrantsInductive, diskVars
<1> QED BY <1>1, <1>2, <1>3 DEF CloseUnfinished, Completed

\* When it serves, no claim is open and no credential pending.
LEMMA ServeStep == ASSUME GrantsInductive, Serve PROVE GrantsInductive'
<1>1. /\ GrantTypeOK /\ mode = "starting" /\ mode' = "serving" /\ pending = {}
      /\ \A q \in Requests : claims[q] # "RUNNING"
      /\ UNCHANGED <<planeVars, ops, tableVars, discarded, diskVars, starts, answers, crashes, throws>>
  BY DEF GrantsInductive, Serve
<1>2. GrantTypeOK'
  BY <1>1 DEF GrantTypeOK, planeVars, tableVars, diskVars
<1>3. ASSUME NEW r \in Requests PROVE RequestFits(r)' /\ InForce(r)'
  BY <1>1, RequestStays DEF tableVars
<1>4. OpsFit' /\ ops = {} /\ discarded = None
  BY <1>1, GrantNames DEF GrantsInductive, OpsFit, GrantTypeOK
<1>5. PlacesFit'
  <2>1. ASSUME NEW t \in Threads, NEW p \in Paths PROVE PlaceFits(t, p)'
    <3>1. PlaceFits(t, p) /\ (tree[t][p] # None => tree[t][p].by \in Requests)
      BY <1>1 DEF GrantsInductive, PlacesFit, GrantTypeOK
    <3> QED BY <1>1, <3>1 DEF PlaceFits, tableVars, diskVars
  <2> QED BY <1>1, <1>4, <2>1 DEF GrantsInductive, PlacesFit, tableVars, diskVars
<1>6. StuckFit'
  <2>1. Stuck' = {}
    BY <1>1 DEF Stuck, tableVars
  <2>2. throws' \in Nat
    BY <1>2, GrantAssumption DEF GrantTypeOK
  <2> QED BY <2>1, <2>2, FS_EmptySet DEF StuckFit
<1> QED BY <1>2, <1>3, <1>4, <1>5, <1>6 DEF GrantsInductive

LEMMA GrantsStep == ASSUME GrantsInductive, [GrantNext]_grantVars PROVE GrantsInductive'
<1>1. CASE UNCHANGED grantVars
  BY <1>1 DEF grantVars, planeVars, tableVars, diskVars, GrantsInductive, GrantTypeOK, OpsFit, FitsAt, RequestFits, InForce,
     PlacesFit, PlaceFits, Found, StuckFit, Stuck
<1>2. CASE Plane
  BY <1>2, PlaneStep
<1>3. CASE \E q \in Requests : Claim(q) \/ Replay(q)
  BY <1>3, ClaimGrantStep, ReplayStep
<1>4. CASE \E o \in ops : Work(o) \/ Throw(o)
  BY <1>4, OpenSteps, StartStep, CloneStep, CloseStep, RespondStep, ThrowStep DEF Work
<1>5. CASE Recover \/ Crash
  BY <1>5, RestartStep, CloseInterruptedStep, ClearPendingStep, ServeStep, DiscardStep, CloseUnfinishedStep, CrashStep
     DEF Recover
<1>6. CASE \E t \in Threads : LoseDirectory(t)
  BY <1>6, LoseStep
<1> QED BY <1>1, <1>2, <1>3, <1>4, <1>5, <1>6 DEF GrantNext

\* The inductive invariant says what is wanted.
LEMMA GrantsImply == ASSUME GrantsInductive PROVE GrantsSound
<1>1. GrantTypeOK /\ OneAtATime
  BY DEF GrantsInductive, OpsFit, FitsAt, OneAtATime
<1>2. ASSUME NEW q \in Requests
      PROVE  starts[q] < 2 /\ Cardinality(answers[q]) < 2 /\ (claims[q] \in Responses => answers[q] \subseteq {claims[q]})
  <2>1. RequestFits(q)
    BY DEF GrantsInductive
  <2>2. answers[q] = {} \/ answers[q] = {claims[q]}
    BY <2>1 DEF RequestFits
  <2>3. Cardinality(answers[q]) < 2
    <3>1. Cardinality({}) = 0 /\ Cardinality({claims[q]}) = 1
      BY FS_EmptySet, FS_Singleton
    <3> QED BY <2>2, <3>1
  <2> QED BY <2>1, <2>3 DEF RequestFits
<1>3. ClaimsAlive
  BY DEF GrantsInductive, StuckFit, Stuck, ClaimsAlive
<1>4. NoPartialLeft
  BY DEF GrantsInductive, PlacesFit, PlaceFits, NoPartialLeft
<1> QED BY <1>1, <1>2, <1>3, <1>4 DEF GrantsSound, StartedOnce, AnswersAgree

LEMMA GrantsInvariant == GrantSpec => []GrantsInductive
BY GrantsInit, GrantsStep, PTL DEF GrantSpec

\* A grant is used once and everybody is told the same, wherever the runtime
\* stops; what did not finish is gone or told of.
THEOREM GrantsSoundHold == GrantSpec => []GrantsSound
BY GrantsInvariant, GrantsImply, PTL

\* Only an operation whose workspace was registered now makes its directory,
\* and only a grant that is in force is claimed.
LEMMA ClaimsKeptStep ==
  ASSUME GrantsInductive, [GrantNext]_grantVars
  PROVE  /\ \A t \in Threads : dir[t] = "gone" => dir'[t] = "gone"
         /\ \A q \in Requests :
              claims[q] = None /\ claims'[q] = "RUNNING" /\ Decision[q] = "APPROVAL_REQUIRED" =>
                approval[q] = "APPROVED" /\ q \notin due
<1>1. GrantTypeOK /\ None # "RUNNING"
  BY GrantNames DEF GrantsInductive, Words
<1>2. ASSUME NEW t \in Threads, dir[t] = "gone" PROVE dir'[t] = "gone"
  <2>1. ASSUME NEW o \in ops, MakeDirectory(o) PROVE dir'[t] = "gone"
    <3>1. dir[Thread[o.request]] = "none"
      BY <2>1 DEF GrantsInductive, OpsFit, FitsAt, MakeDirectory, At
    <3> QED BY <1>1, <1>2, <2>1, <3>1 DEF MakeDirectory, GrantTypeOK
  <2>2. ASSUME NEW s \in Threads, LoseDirectory(s) PROVE dir'[t] = "gone"
    BY <1>1, <1>2, <2>2 DEF LoseDirectory, GrantTypeOK
  <2>3. CASE UNCHANGED dir
    BY <1>2, <2>3
  <2> QED BY <2>1, <2>2, <2>3
       DEF GrantNext, Plane, Work, Recover, grantVars, diskVars, runtimeVars, ChangePolicy, DecideRequest, ApprovalEnds,
           GrantEnds, IssueGrant, Claim, Replay, Open, Bind, InUse, RecordPending, Redeem, Start, Clone, Close, Respond, Throw,
           Crash, Restart, Discard, CloseInterrupted, ClearPending, CloseUnfinished, Serve
<1>3. ASSUME NEW q \in Requests, claims[q] = None, claims'[q] = "RUNNING", Decision[q] = "APPROVAL_REQUIRED"
      PROVE  approval[q] = "APPROVED" /\ q \notin due
  <2>1. CASE Claim(q)
    BY <1>3, <2>1 DEF Claim, Verified, GrantsInductive, InForce
  <2>2. ASSUME NEW r \in Requests, Claim(r) PROVE r = q
    BY <1>1, <1>3, <2>2 DEF Claim, GrantTypeOK
  <2>3. CASE UNCHANGED claims
    BY <1>1, <1>3, <2>3
  <2>4. ASSUME NEW o \in ops, Respond(o) PROVE FALSE
    <3>1. o.at # "RUNNING"
      BY <2>4 DEF Respond, Closed, Outcomes
    <3> QED BY <1>1, <1>3, <2>4, <3>1 DEF Respond, Completed, GrantTypeOK
  <2>5. CASE CloseInterrupted
    BY <1>1, <1>3, <2>5 DEF CloseInterrupted, Completed, GrantTypeOK
  <2>6. ASSUME NEW r \in Requests, CloseUnfinished(r) PROVE FALSE
    BY <1>1, <1>3, <2>6 DEF CloseUnfinished, Completed, GrantTypeOK
  <2> QED BY <2>1, <2>2, <2>3, <2>4, <2>5, <2>6
       DEF GrantNext, Plane, Work, Recover, grantVars, tableVars, runtimeVars, ChangePolicy, DecideRequest, ApprovalEnds,
           GrantEnds, IssueGrant, Replay, Open, MakeDirectory, Bind, InUse, RecordPending, Redeem, Start, Clone, Close, Throw,
           Crash, LoseDirectory, Restart, Discard, ClearPending, Serve
<1> QED BY <1>2, <1>3

\* A lost workspace is never made again, and what needs an approval is claimed
\* only while its approval is in force: the grant ends with it.
THEOREM ClaimsKeptHolds == GrantSpec => ClaimsKept
<1>1. ASSUME GrantsInductive, [GrantNext]_grantVars
      PROVE  /\ [\A t \in Threads : dir[t] = "gone" => dir'[t] = "gone"]_grantVars
             /\ [\A q \in Requests :
                   claims[q] = None /\ claims'[q] = "RUNNING" /\ Decision[q] = "APPROVAL_REQUIRED" =>
                     approval[q] = "APPROVED" /\ q \notin due]_grantVars
  BY <1>1, ClaimsKeptStep
<1> QED BY <1>1, GrantsInvariant, PTL DEF GrantSpec, ClaimsKept, NeverRemade, ClaimedInForce
=============================================================================
