--------------------------- MODULE ModelSpending ---------------------------
(* Limits on model calls of one organization: ModelSpendingService with its  *)
(* price book and its budget alerts, and the meter of the agent runtime that *)
(* reserves each call before it is made and settles it afterwards.           *)
(*                                                                           *)
(* Every transaction is serializable and the deciding ones take the          *)
(* organization's advisory lock, so one transaction is one step.  Refused    *)
(* requests (a conflicting repeat, a stale version, a missing price) write   *)
(* nothing and are stuttering steps.  MILLION is the divisor of a price and  *)
(* MIN_OUTPUT the least output worth a call: both are small in an instance.  *)
EXTENDS Absent, Integers, Sequences, FiniteSets, FiniteSetsExt

CONSTANTS
  Calls,        \* reservation ids, one for each model call
  CallRuns,     \* the runs that make them
  CallRun,      \* the run of a call
  CallInput,    \* its estimated input tokens
  CallAsked,    \* the output tokens it asks for
  Prices,       \* [input, output]: prices an administrator may set
  Budgets,      \* [limit, currency, thresholds]: budgets an administrator may set
  Usages,       \* <<input, output>>: what a provider may report
  Currency,     \* DEFAULT_CURRENCY
  MILLION, MIN_OUTPUT,
  MaxPrices, MaxVersion, MaxMonth   \* bounds of an instance

ASSUME ScaleAssumption == MILLION \in Nat \ {0} /\ MIN_OUTPUT \in Nat
ASSUME CallAssumption ==
  /\ IsFiniteSet(Calls)
  /\ CallRun \in [Calls -> CallRuns]
  /\ CallInput \in [Calls -> Nat]
  /\ CallAsked \in [Calls -> Nat \ {0}]
ASSUME PriceAssumption == Prices \subseteq [input : Nat, output : Nat] /\ None \notin Prices
ASSUME UsageAssumption == Usages \subseteq Nat \X Nat
ASSUME SpendingBounds == MaxPrices \in Nat /\ MaxVersion \in Nat /\ MaxMonth \in Nat \ {0}

VARIABLES
  budget,   \* the organization's budget row (version 0 before the first one)
  prices,   \* the price book, append-only: a removal is a row without a price
  usage,    \* the reservation of each call, or None
  alerts,   \* <<month, scope, threshold>>
  month,    \* the current period
  ended     \* runs that are no longer running, or whose lease is another's

spendingVars == <<budget, prices, usage, alerts, month, ended>>

MonthlyScope == {"MONTHLY", "MONTHLY_COST"}
TokenScope == {"MONTHLY", "RUN"}
ScopeOrder == <<"MONTHLY", "RUN", "MONTHLY_COST", "RUN_COST">>
Scope == {"MONTHLY", "RUN", "MONTHLY_COST", "RUN_COST"}
LIMIT_REACHED == 100

ASSUME BudgetAssumption == \A b \in Budgets :
  b.limit \in [Scope -> (Nat \ {0}) \cup {None}] /\ b.thresholds \subseteq 1..99

NoBudget == [version |-> 0, limit |-> [s \in Scope |-> None], currency |-> Currency, thresholds |-> {80}]

(***************************************************************************)
(* Prices                                                                  *)
(***************************************************************************)
costMicros(p, in, out) == (in * p.input + out * p.output + MILLION - 1) \div MILLION

\* Free output (the code's Infinity) is as much as the call asks for.
maxOutputWithin(p, left, in, asked) ==
  LET rest == left * MILLION - in * p.input
  IN  IF left < 0 \/ rest < 0 THEN -1
      ELSE IF p.output = 0 THEN asked
      ELSE rest \div p.output

\* The current price is the last row's; None before the first row and after a removal.
CurrentRow == Len(prices)
Priced == CurrentRow > 0 /\ prices[CurrentRow].price # None

(***************************************************************************)
(* What counts against a limit                                             *)
(***************************************************************************)
Tokens(row) == IF row.status = "SETTLED" THEN row.used[1] + row.used[2] ELSE row.reserved
Cost(row) ==
  IF row.price = None THEN 0
  ELSE IF row.status = "SETTLED" THEN row.cost ELSE row.reservedCost

Total(f) == MapThenSumSet(LAMBDA c : f[c], DOMAIN f)
Charged(rows, calls, s) ==
  Total([c \in calls |-> IF s \in TokenScope THEN Tokens(rows[c]) ELSE Cost(rows[c])])

InMonth(rows, m) == {c \in Calls : rows[c] # None /\ rows[c].period = m}
InRun(rows, r) == {c \in Calls : rows[c] # None /\ CallRun[c] = r}

Used(rows, r, m, s) ==
  Charged(rows, IF s \in MonthlyScope THEN InMonth(rows, m) ELSE InRun(rows, r), s)

(***************************************************************************)
(* Alerts                                                                  *)
(***************************************************************************)
Thresholds(b) == b.thresholds \cup {LIMIT_REACHED}

Reached(b, rows, m) ==
  UNION {{<<m, s, t>> :
            t \in {x \in Thresholds(b) : Charged(rows, InMonth(rows, m), s) * 100 >= x * b.limit[s]}} :
         s \in {x \in MonthlyScope : b.limit[x] # None}}

(***************************************************************************)
(* The decision                                                            *)
(***************************************************************************)
Limited == {s \in Scope : budget.limit[s] # None}
CostLimited == Limited \ TokenScope # {}
PriceMissing == CostLimited /\ (~Priced \/ prices[CurrentRow].currency # budget.currency)

\* The output a limit leaves for call c.
Room(c, s) ==
  LET left == budget.limit[s] - Used(usage, CallRun[c], month, s)
  IN  IF s \in TokenScope THEN left - CallInput[c]
      ELSE maxOutputWithin(prices[CurrentRow].price, left, CallInput[c], CallAsked[c])

\* The first of the scopes, in the code's order, that leaves least.
Tightest(c) ==
  LET least == Min({Room(c, s) : s \in Limited})
  IN  ScopeOrder[Min({i \in 1..4 : ScopeOrder[i] \in Limited /\ Room(c, ScopeOrder[i]) = least})]

Grant(c) == Min({CallAsked[c]} \cup {Room(c, s) : s \in Limited})
TooLittle(c) == Limited # {} /\ Grant(c) < Min({MIN_OUTPUT, CallAsked[c]})

Reservation(c, granted) ==
  LET row == IF Priced THEN CurrentRow ELSE None
  IN  [status |-> "RESERVED", period |-> month, reserved |-> CallInput[c] + granted, price |-> row,
       reservedCost |-> IF row = None THEN 0 ELSE costMicros(prices[row].price, CallInput[c], granted),
       used |-> <<0, 0>>, cost |-> 0]

(***************************************************************************)
(* Operations                                                              *)
(***************************************************************************)
SpendingInit ==
  /\ budget = NoBudget
  /\ prices = <<>>
  /\ usage = [c \in Calls |-> None]
  /\ alerts = {}
  /\ month = 1
  /\ ended = {}

\* Only a running run may reserve, and a repeat of a reservation that exists is answered from
\* its row.  Without a decision the runtime makes no call (the meter fails closed).
MayReserve(c) == usage[c] = None /\ CallRun[c] \notin ended

Reserve(c) ==
  /\ MayReserve(c)
  /\ ~PriceMissing
  /\ ~TooLittle(c)
  /\ usage' = [usage EXCEPT ![c] = Reservation(c, Grant(c))]
  /\ alerts' = alerts \cup Reached(budget, usage', month)
  /\ UNCHANGED <<budget, prices, month, ended>>

\* A denial writes no row, but a monthly limit that refuses a call counts as reached.
Deny(c) ==
  /\ MayReserve(c)
  /\ ~PriceMissing
  /\ TooLittle(c)
  /\ Tightest(c) \in MonthlyScope
  /\ alerts' = alerts \cup Reached(budget, usage, month) \cup {<<month, Tightest(c), LIMIT_REACHED>>}
  /\ UNCHANGED <<budget, prices, usage, month, ended>>

\* A call that finished as its run ended is still counted: settling asks nothing of the run.
MaySettle(c) == usage[c] # None /\ usage[c].status = "RESERVED"

\* The provider's count, which may be above the reservation, or nothing when the call was
\* never made.  A repeat with the same numbers changes nothing, other numbers are refused.
Settle(c, used) ==
  /\ MaySettle(c)
  /\ usage' = [usage EXCEPT ![c].status = "SETTLED", ![c].used = used,
                 ![c].cost = IF usage[c].price = None THEN 0
                             ELSE costMicros(prices[usage[c].price].price, used[1], used[2])]
  /\ alerts' = alerts \cup Reached(budget, usage', usage[c].period)
  /\ UNCHANGED <<budget, prices, month, ended>>

\* Faulty: a lowered limit waits for the next call to be noticed.
SetBudgetQuietly(b) ==
  /\ budget.version < MaxVersion
  /\ b.currency # budget.currency => prices = <<>>
  /\ budget' = [version |-> budget.version + 1, limit |-> b.limit, currency |-> b.currency,
                thresholds |-> b.thresholds]
  /\ UNCHANGED <<prices, usage, alerts, month, ended>>

SetBudget(b) ==
  /\ budget.version < MaxVersion
  /\ b.currency # budget.currency => prices = <<>>
  /\ budget' = [version |-> budget.version + 1, limit |-> b.limit, currency |-> b.currency,
                thresholds |-> b.thresholds]
  /\ alerts' = alerts \cup Reached(budget', usage, month)
  /\ UNCHANGED <<prices, usage, month, ended>>

AddPriceRow(p) ==
  /\ Len(prices) < MaxPrices
  /\ prices' = Append(prices, [price |-> p, currency |-> budget.currency])
  /\ UNCHANGED <<budget, usage, alerts, month, ended>>

SetPrice(p) == AddPriceRow(p)
RemovePrice == Priced /\ AddPriceRow(None)

MonthTurns == month < MaxMonth /\ month' = month + 1 /\ UNCHANGED <<budget, prices, usage, alerts, ended>>

RunStops(r) == r \notin ended /\ ended' = ended \cup {r} /\ UNCHANGED <<budget, prices, usage, alerts, month>>

SpendingNext ==
  \/ \E c \in Calls : Reserve(c) \/ Deny(c) \/ \E used \in Usages : Settle(c, used)
  \/ \E b \in Budgets : SetBudget(b)
  \/ \E p \in Prices : SetPrice(p)
  \/ \E r \in CallRuns : RunStops(r)
  \/ RemovePrice
  \/ MonthTurns

SpendingSpec == SpendingInit /\ [][SpendingNext]_spendingVars

(***************************************************************************)
(* Properties                                                              *)
(***************************************************************************)
PriceRow == [price : Prices \cup {None}, currency : {b.currency : b \in Budgets} \cup {Currency}]
UsageRow == [status : {"RESERVED", "SETTLED"}, period : 1..MaxMonth, reserved : Nat, price : (1..MaxPrices) \cup {None},
             reservedCost : Nat, used : Nat \X Nat, cost : Nat]
ASSUME SpendingNames == None \notin Nat /\ None \notin UsageRow

\* The state has its type; a reservation names a row of the price book that has a price.
SpendingTypeOK ==
  /\ budget.version \in 0..MaxVersion
  /\ budget \in {NoBudget} \cup {[b EXCEPT !.version = budget.version] : b \in
                   {[version |-> 0, limit |-> x.limit, currency |-> x.currency, thresholds |-> x.thresholds] : x \in Budgets}}
  /\ prices \in Seq(PriceRow) /\ Len(prices) <= MaxPrices
  /\ usage \in [Calls -> UsageRow \cup {None}]
  /\ month \in 1..MaxMonth
  /\ ended \subseteq CallRuns
  /\ \A c \in Calls : usage[c] # None /\ usage[c].price # None =>
       usage[c].price \in 1..Len(prices) /\ prices[usage[c].price].price # None

\* A new reservation leaves every limit in force kept: the tokens and the cost charged to its
\* month and to its run, with the new row and its rounding, stay within the limits (model-
\* spending-service.ts reserve, maxOutputWithin).
GrantsFit ==
  [][\A c \in Calls : usage[c] = None /\ usage'[c] # None =>
       \A s \in Limited : Used(usage', CallRun[c], month, s) <= budget.limit[s]]_spendingVars

\* Cost is accounted at the price a call was reserved under, whatever the book says later, and
\* in the month of the reservation (settle, priceOf).
CostAtReservedPrice ==
  \A c \in Calls : usage[c] # None =>
    LET row == usage[c]
    IN  IF row.price = None THEN row.cost = 0 /\ row.reservedCost = 0
        ELSE row.status = "SETTLED" => row.cost = costMicros(prices[row.price].price, row.used[1], row.used[2])

\* Whatever moved the month's usage over a threshold - a reservation, a settlement above its
\* reservation, a lowered limit, a changed threshold - the alert of the current month is there.
AlertsComplete == Reached(budget, usage, month) \subseteq alerts

\* Costs are never added up over two currencies: every row of the book has the currency of
\* the budget (setBudget's MODEL_CURRENCY_FIXED).
OneCurrency == \A i \in 1..Len(prices) : prices[i].currency = budget.currency

\* af_model_usage_settle_only: what the table lets a reservation's row become.
SettleOnly(x, y) ==
  /\ x.status = "RESERVED" /\ y.status = "SETTLED"
  /\ [y EXCEPT !.status = x.status, !.used = x.used, !.cost = x.cost] = x

\* A reservation is settled once, in its own month and at its own price, and a run that ended
\* reserves no more, whatever it still settles.
SettledOnce ==
  [][\A c \in Calls : usage'[c] # usage[c] =>
       IF usage[c] = None THEN CallRun[c] \notin ended' ELSE SettleOnly(usage[c], usage'[c])]_spendingVars

\* What is charged, alerted and priced agrees, whatever happens to calls, prices and budgets.
SpendingSound == SpendingTypeOK /\ CostAtReservedPrice /\ AlertsComplete /\ OneCurrency
=============================================================================
