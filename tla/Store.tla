------------------------------- MODULE Store --------------------------------
(* The transactions of the control plane on PostgreSQL, and the migrations of *)
(* its schema (db/pg-store.ts, db/migrate.ts).  Every other module takes a    *)
(* transaction for one step that happens once or not at all: here it is run   *)
(* on a pooled connection, again after a serialization failure or a lost      *)
(* connection, and never again once its COMMIT may have been carried out.     *)
EXTENDS Absent, Naturals, Sequences

CONSTANTS
  Works, Clients,        \* outermost scopes, and connections of the pool
  MAX_ATTEMPTS,
  MaxReconnects,         \* Len(CONNECTION_DELAYS_MS)
  MaxLosses,             \* bound: connections lost
  Checksums,             \* of migrations
  Starters, Migrations   \* API processes, and [Starters -> checksums of its migrations]

ASSUME StoreAssumption ==
  /\ None \notin Clients
  /\ MAX_ATTEMPTS \in Nat \ {0} /\ MaxReconnects \in Nat
  /\ Migrations \in [Starters -> Seq(Checksums)]

VARIABLES
  work,                  \* [Works -> where the scope stands]
  client,                \* [Clients -> what the pool or its user holds]
  closed,                \* the store is closed
  losses,
  schema,                \* schema_migrations: checksums, by version
  starter                \* [Starters -> where its start stands]

storeVars == <<work, client, closed, losses, schema, starter>>

\* kept: how often what the scope did was committed.  effects: afterCommit calls registered.
Work == [step : {"idle", "connecting", "begun", "working", "committing", "undoing", "failing",
                 "returned", "threw"},
         on : Clients \union {None}, attempt : Nat, reconnects : 0..MaxReconnects,
         error : {None, "serialization", "connection", "unknown", "own"},
         effects : 0..1, ran : Nat, kept : Nat]
Fresh == [used |-> FALSE, alive |-> TRUE, transaction |-> FALSE]

StoreTypeOK ==
  /\ work \in [Works -> Work]
  /\ client \in [Clients -> [used : BOOLEAN, alive : BOOLEAN, transaction : BOOLEAN]]
  /\ schema \in Seq(Checksums)
  /\ starter \in [Starters -> {"down", "waiting", "locked", "applied", "checking", "serving", "refused"}]

StoreInit ==
  /\ work = [w \in Works |-> [step |-> "idle", on |-> None, attempt |-> 1, reconnects |-> 0,
                              error |-> None, effects |-> 0, ran |-> 0, kept |-> 0]]
  /\ client = [k \in Clients |-> Fresh]
  /\ closed = FALSE /\ losses = 0
  /\ schema = <<>>
  /\ starter = [s \in Starters |-> "down"]

WorkAt(w, step) == work[w].step = step
Become(w, x) == work' = [work EXCEPT ![w] = x]
Throws(w, error) == Become(w, [work[w] EXCEPT !.step = "undoing", !.error = error])
Alive(w) == client[work[w].on].alive
PoolUnchanged == UNCHANGED <<closed, losses, schema, starter>>

-----------------------------------------------------------------------------
(* scoped and attempt.  A nested scope joins the transaction of the outer one.*)
Scoped(w) ==
  /\ WorkAt(w, "idle") /\ ~closed
  /\ Become(w, [work[w] EXCEPT !.step = "connecting"])
  /\ UNCHANGED client /\ PoolUnchanged

Connect(w) ==
  /\ WorkAt(w, "connecting") /\ ~closed
  /\ \E k \in Clients :
       /\ ~client[k].used
       /\ client' = [client EXCEPT ![k].used = TRUE]
       /\ Become(w, [work[w] EXCEPT !.step = "begun", !.on = k, !.effects = 0])
  /\ PoolUnchanged

(* The server cannot be reached, or the pool has ended.                       *)
ConnectFails(w) ==
  /\ WorkAt(w, "connecting")
  /\ IF closed THEN UNCHANGED losses ELSE losses < MaxLosses /\ losses' = losses + 1
  /\ Become(w, [work[w] EXCEPT !.step = "failing", !.error = IF closed THEN "own" ELSE "connection"])
  /\ UNCHANGED <<client, closed, schema, starter>>

Begin(w) ==
  /\ WorkAt(w, "begun")
  /\ IF Alive(w)
     THEN /\ client' = [client EXCEPT ![work[w].on].transaction = TRUE]
          /\ Become(w, [work[w] EXCEPT !.step = "working"])
     ELSE Throws(w, "connection") /\ UNCHANGED client
  /\ PoolUnchanged

\* Faulty: what is to follow the commit is done when it is registered.
QueriesAtOnce(w) ==
  /\ WorkAt(w, "working")
  /\ IF ~Alive(w) THEN Throws(w, "connection")
     ELSE \/ Become(w, [work[w] EXCEPT !.step = "committing", !.ran = @ + 1])
          \/ \E error \in {"serialization", "own"} : Throws(w, error)
  /\ UNCHANGED client /\ PoolUnchanged

(* Its queries: each may fail, and what follows a failure is not done.        *)
Queries(w) ==
  /\ WorkAt(w, "working")
  /\ IF ~Alive(w) THEN Throws(w, "connection")
     ELSE \/ Become(w, [work[w] EXCEPT !.step = "committing", !.effects = 1])
          \/ \E error \in {"serialization", "own"} : Throws(w, error)
  /\ UNCHANGED client /\ PoolUnchanged

BackInPool(w) == client' = [client EXCEPT ![work[w].on] = Fresh]

(* COMMIT, then what was registered to follow it.                             *)
Commit(w) ==
  /\ WorkAt(w, "committing") /\ Alive(w)
  /\ Become(w, [work[w] EXCEPT !.step = "returned", !.on = None, !.kept = @ + 1,
                               !.ran = @ + work[w].effects])
  /\ BackInPool(w)
  /\ PoolUnchanged

CommitRefused(w) ==
  /\ WorkAt(w, "committing") /\ Alive(w)
  /\ Throws(w, "serialization")
  /\ client' = [client EXCEPT ![work[w].on].transaction = FALSE]
  /\ PoolUnchanged

(* The connection is lost under it: committed or not, nobody says.            *)
CommitLost(w) ==
  /\ WorkAt(w, "committing")
  /\ IF Alive(w) THEN losses < MaxLosses /\ losses' = losses + 1 ELSE UNCHANGED losses
  /\ \E done \in (IF Alive(w) THEN {0, 1} ELSE {0}) :
       Become(w, [work[w] EXCEPT !.step = "undoing", !.error = "unknown", !.kept = @ + done])
  /\ client' = [client EXCEPT ![work[w].on].alive = FALSE, ![work[w].on].transaction = FALSE]
  /\ UNCHANGED <<closed, schema, starter>>

(* ROLLBACK: the connection goes back to the pool, or is destroyed if that    *)
(* fails and the pool opens another.                                          *)
Rollback(w) ==
  /\ WorkAt(w, "undoing")
  /\ Become(w, [work[w] EXCEPT !.step = "failing", !.on = None])
  /\ BackInPool(w)
  /\ PoolUnchanged

\* Faulty: a connection lost under COMMIT is a lost connection.
AgainUnknown(w) ==
  \/ work[w].error = "serialization" /\ work[w].attempt < MAX_ATTEMPTS
  \/ work[w].error \in {"connection", "unknown"} /\ work[w].reconnects < MaxReconnects /\ ~closed

(* One counter is for both reasons, the delays are for one.                   *)
Again(w) ==
  \/ work[w].error = "serialization" /\ work[w].attempt < MAX_ATTEMPTS
  \/ work[w].error = "connection" /\ work[w].reconnects < MaxReconnects /\ ~closed

Retry(w) ==
  /\ WorkAt(w, "failing") /\ Again(w)
  /\ Become(w, [work[w] EXCEPT !.step = "connecting", !.error = None, !.attempt = @ + 1,
                  !.reconnects = IF work[w].error = "serialization" THEN @ ELSE @ + 1])
  /\ UNCHANGED client /\ PoolUnchanged

GiveUp(w) ==
  /\ WorkAt(w, "failing") /\ ~Again(w)
  /\ Become(w, [work[w] EXCEPT !.step = "threw"])
  /\ UNCHANGED client /\ PoolUnchanged

(* The server restarts, or a connection breaks: an idle one is replaced.      *)
Lose(k) ==
  /\ losses < MaxLosses /\ client[k].alive
  /\ losses' = losses + 1
  /\ client' = [client EXCEPT ![k].alive = FALSE, ![k].transaction = FALSE]
  /\ UNCHANGED <<work, closed, schema, starter>>

Replace(k) ==
  /\ ~client[k].alive /\ ~client[k].used
  /\ client' = [client EXCEPT ![k] = Fresh]
  /\ UNCHANGED work /\ PoolUnchanged

Close ==
  /\ ~closed /\ closed' = TRUE
  /\ UNCHANGED <<work, client, losses, schema, starter>>

-----------------------------------------------------------------------------
(* migrate, at the start of an API process.                                   *)
Move(s, from, to) ==
  /\ starter[s] = from
  /\ starter' = [starter EXCEPT ![s] = to]
  /\ UNCHANGED <<work, client, closed, losses>>

StarterBegins(s) == Move(s, "down", "waiting") /\ UNCHANGED schema

(* pg_advisory_xact_lock: what is read of the schema stands until the end.    *)
Holding == {s \in Starters : starter[s] \in {"locked", "applied"}}
Lock(s) == Holding = {} /\ Move(s, "waiting", "locked") /\ UNCHANGED schema

IsPrefixOf(a, b) == Len(a) <= Len(b) /\ \A i \in 1..Len(a) : a[i] = b[i]

(* A version recorded with another checksum, or unknown to this release, ends *)
(* the start; what is pending is applied, all of it in this one transaction.  *)
Apply(s) == IsPrefixOf(schema, Migrations[s]) /\ Move(s, "locked", "applied") /\ UNCHANGED schema
Pending(s) == SubSeq(Migrations[s], Len(schema) + 1, Len(Migrations[s]))
CommitMigrations(s) == Move(s, "applied", "checking") /\ schema' = schema \o Pending(s)
Refuse(s) == ~IsPrefixOf(schema, Migrations[s]) /\ Move(s, "locked", "refused") /\ UNCHANGED schema

(* The process stops, or a migration fails: its transaction is gone.          *)
StartFails(s) ==
  /\ \E step \in {"waiting", "locked", "applied", "checking", "serving"} : Move(s, step, "down")
  /\ UNCHANGED schema

(* assertSchemaCurrent, in a transaction of its own: another release may have *)
(* been applied since.  It is not asked again while the process serves.       *)
assertSchemaCurrent(s) ==
  /\ Move(s, "checking", IF schema = Migrations[s] THEN "serving" ELSE "refused")
  /\ UNCHANGED schema

TransactionsNext ==
  \/ \E w \in Works :
       \/ Scoped(w) \/ Connect(w) \/ ConnectFails(w) \/ Begin(w) \/ Queries(w) \/ Commit(w)
       \/ CommitRefused(w) \/ CommitLost(w) \/ Rollback(w) \/ Retry(w) \/ GiveUp(w)
  \/ \E k \in Clients : Lose(k) \/ Replace(k)
  \/ Close

MigrationsNext ==
  \E s \in Starters :
    \/ StarterBegins(s) \/ Lock(s) \/ Apply(s) \/ CommitMigrations(s) \/ Refuse(s)
    \/ StartFails(s) \/ assertSchemaCurrent(s)

StoreNext == TransactionsNext \/ MigrationsNext

(* Promises of the runtime: a query is answered or its connection found lost. *)
WorkGoes(w) ==
  \/ Connect(w) \/ ConnectFails(w) \/ Begin(w) \/ Queries(w) \/ Commit(w) \/ CommitRefused(w)
  \/ CommitLost(w) \/ Rollback(w) \/ Retry(w) \/ GiveUp(w)
StoreFairness == \A w \in Works : WF_storeVars(WorkGoes(w)) /\ SF_storeVars(Connect(w))

StoreSpec == StoreInit /\ [][StoreNext]_storeVars

-----------------------------------------------------------------------------
(* What a scope does is kept once at most; it is kept when the scope returned,*)
(* and not when it threw, unless its error says that nobody knows; and what   *)
(* was to follow the commit follows exactly one that is known.                *)
KeptOnce ==
  \A w \in Works :
    /\ work[w].kept <= 1
    /\ WorkAt(w, "returned") => work[w].kept = 1 /\ work[w].ran = 1
    /\ ~WorkAt(w, "returned") => work[w].ran = 0
    /\ work[w].kept = 1 => WorkAt(w, "returned") \/ work[w].error = "unknown"

(* A connection in the pool has no transaction left open, nor one a scope     *)
(* still uses.                                                                *)
PoolClean ==
  \A k \in Clients :
    /\ ~client[k].used => ~client[k].transaction /\ \A w \in Works : work[w].on # k
    /\ \A v, w \in Works : work[v].on = k /\ work[w].on = k => v = w

(* Retries are bounded for both reasons together.                             *)
RetriesBounded ==
  \A w \in Works : work[w].attempt <= MAX_ATTEMPTS + MaxReconnects

(* The schema is that of a release, whole, whoever was interrupted; and has   *)
(* all that a serving process was built for.                                  *)
SchemaWhole ==
  /\ schema = <<>> \/ \E s \in Starters : schema = Migrations[s]
  /\ \A s \in Starters : starter[s] = "serving" => IsPrefixOf(Migrations[s], schema)

StoreSound == StoreTypeOK /\ KeptOnce /\ PoolClean /\ RetriesBounded /\ SchemaWhole

(* What the caller of a scope was told.  commitUnknown is the store's own: to *)
(* a caller, every lost connection may have been lost under COMMIT.           *)
ScopeTold(x) ==
  CASE x.step = "returned" -> "returned"
    [] x.step = "threw" /\ x.error \in {"connection", "unknown"} -> "unknown"
    [] x.step = "threw" /\ x.error \notin {"connection", "unknown"} -> "failed"
    [] OTHER -> "nothing"

Atomic == INSTANCE AtomicScopes WITH
            Scopes <- Works,
            kept <- [w \in Works |-> work[w].kept],
            followed <- [w \in Works |-> work[w].ran],
            told <- [w \in Works |-> ScopeTold(work[w])]

(* "Nothing of the transaction was kept, so it is run again": whatever is     *)
(* lost and repeated, callers see one step that happens once or not at all.   *)
ScopesAtomic == Atomic!ASSpec

(* A scope comes to an end.                                                   *)
ScopesEnd == \A w \in Works : ~WorkAt(w, "idle") ~> work[w].step \in {"returned", "threw"}
=============================================================================
