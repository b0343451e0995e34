--------------------------- MODULE TenantDomainCache ---------------------------
(* Which organization a verified host belongs to, remembered by one API       *)
(* instance (organization/tenant-domain-cache.ts, ADR 0027), beside the       *)
(* domains of organizations and what changes them (tenancy-service.ts,        *)
(* migration 0007).  A host has at most one domain row, by its unique index.  *)
EXTENDS Absent, Naturals, Sequences, SequencesExt

CONSTANTS
  Hosts, Organizations,
  Loads,            \* slots for lookups that run at the same time
  MAX_ENTRIES,      \* maxEntries
  TTL, NEGATIVE_TTL,\* how many ticks an entry is used
  MaxCommits        \* bound: commits on domains and organizations

VARIABLES
  domains,          \* [Hosts -> row of organization_domains or None]
  suspended,        \* organizations whose status is not active
  verifying,        \* hosts verified here whose verifyDomain() has not answered
  told,             \* hosts verified here and answered, with no change since
  entries,          \* the Map, least recently used first
  loads,            \* lookups under way; current: of this generation, pending
  domainLink,
  commits

domainVars == <<domains, suspended, verifying, told, entries, loads, domainLink, commits>>

Feed == INSTANCE ChangeListener WITH link <- domainLink

Row == [organization : Organizations, verified : BOOLEAN, primary : BOOLEAN]
Answer == Organizations \union {None}
Unread == [read |-> FALSE]
Read(o) == [read |-> TRUE, organization |-> o]
Load == [host : Hosts, current : BOOLEAN, answer : {Unread} \union {Read(o) : o \in Answer}]
Entry == [host : Hosts, organization : Answer, left : 0..TTL]

ASSUME CacheAssumption ==
  /\ MAX_ENTRIES \in Nat /\ TTL \in Nat /\ NEGATIVE_TTL \in 0..TTL /\ MaxCommits \in Nat
  /\ None \notin Organizations /\ None \notin Row /\ None \notin Load

DomainTypeOK ==
  /\ domains \in [Hosts -> Row \union {None}]
  /\ suspended \subseteq Organizations
  /\ verifying \subseteq Hosts /\ told \subseteq Hosts
  /\ entries \in Seq(Entry) /\ Len(entries) <= MAX_ENTRIES
  /\ \A i, j \in 1..Len(entries) : entries[i].host = entries[j].host => i = j
  /\ loads \in [Loads -> Load \union {None}]
  /\ domainLink \in Feed!LinkType
  /\ commits \in 0..MaxCommits

DomainInit ==
  /\ domains = [h \in Hosts |-> None]
  /\ suspended = {} /\ verifying = {} /\ told = {}
  /\ entries = <<>>
  /\ loads = [s \in Loads |-> None]
  /\ Feed!ListenerInit
  /\ commits = 0

(* What the query of resolveVerifiedDomain finds now. *)
Owner(h) ==
  IF domains[h] # None /\ domains[h].verified /\ domains[h].organization \notin suspended
    THEN domains[h].organization ELSE None

Running == {s \in Loads : loads[s] # None}
Usable(e) == e.left > 0

(* Map.delete: a key has at most one entry. *)
Without(h) ==
  LET at == {i \in 1..Len(entries) : entries[i].host = h}
  IN  IF at = {} THEN entries ELSE RemoveAt(entries, CHOOSE i \in at : TRUE)

(* A commit on domains or organizations notifies every instance. *)
Commit ==
  /\ commits < MaxCommits
  /\ commits' = commits + 1
  /\ Feed!Announced

RegisterDomain(h, o) ==
  /\ domains[h] = None /\ o \notin suspended
  /\ Commit
  /\ domains' = [domains EXCEPT ![h] = [organization |-> o, verified |-> FALSE, primary |-> FALSE]]
  /\ UNCHANGED <<suspended, verifying, told, entries, loads>>

(* verifyDomain: the row is read, DNS is asked outside any transaction and    *)
(* the row is read again before it is changed; here or at another instance.   *)
VerifyDomain(h, here) ==
  /\ domains[h] # None /\ ~domains[h].verified
  /\ domains[h].organization \notin suspended
  /\ Commit
  /\ domains' = [domains EXCEPT ![h].verified = TRUE]
  /\ verifying' = IF here THEN verifying \union {h} ELSE verifying
  /\ UNCHANGED <<suspended, told, entries, loads>>

(* invalidate(): nothing remembered and no lookup under way counts any more. *)
Invalidate ==
  /\ entries' = <<>>
  /\ loads' = [s \in Loads |->
                 IF s \in Running THEN [loads[s] EXCEPT !.current = FALSE] ELSE None]

(* verifyDomain forgets what this instance remembers, then answers. *)
AnswerVerified(h) ==
  /\ h \in verifying
  /\ verifying' = verifying \ {h}
  /\ told' = IF Owner(h) # None THEN told \union {h} ELSE told
  /\ Invalidate
  /\ UNCHANGED <<domains, suspended, domainLink, commits>>

SetPrimaryDomain(h) ==
  /\ domains[h] # None /\ domains[h].verified
  /\ domains[h].organization \notin suspended
  /\ Commit
  /\ domains' = [g \in Hosts |->
       IF domains[g] # None /\ domains[g].organization = domains[h].organization
         THEN [domains[g] EXCEPT !.primary = (g = h)] ELSE domains[g]]
  /\ UNCHANGED <<suspended, verifying, told, entries, loads>>

(* An operator suspends an organization or activates it again. *)
SetOrganizationStatus(o) ==
  /\ Commit
  /\ suspended' = IF o \in suspended THEN suspended \ {o} ELSE suspended \union {o}
  /\ told' = {h \in told : domains[h].organization # o}
  /\ UNCHANGED <<domains, verifying, entries, loads>>

(* An entry that is used becomes the most recently used one. *)
Use(h, i) == entries' = Append(Without(h), entries[i])

(* resolve() answers from memory, *)
ResolveFromMemory(h) ==
  /\ Feed!Live
  /\ \E i \in 1..Len(entries) :
       /\ entries[i].host = h /\ Usable(entries[i])
       /\ Use(h, i)
  /\ UNCHANGED <<domains, suspended, verifying, told, loads, domainLink, commits>>

(* or forgets an expired entry and starts a lookup unless one is pending.     *)
(* Without a live feed it asks the database and remembers nothing.            *)
ResolveByLookup(h) ==
  /\ Feed!Live
  /\ \A i \in 1..Len(entries) : entries[i].host = h => ~Usable(entries[i])
  /\ \A s \in Running : ~(loads[s].host = h /\ loads[s].current)
  /\ \E s \in Loads \ Running :
       loads' = [loads EXCEPT ![s] = [host |-> h, current |-> TRUE, answer |-> Unread]]
  /\ entries' = Without(h)
  /\ UNCHANGED <<domains, suspended, verifying, told, domainLink, commits>>

LookupReads(s) ==
  /\ s \in Running /\ loads[s].answer = Unread
  /\ loads' = [loads EXCEPT ![s].answer = Read(Owner(loads[s].host))]
  /\ UNCHANGED <<domains, suspended, verifying, told, entries, domainLink, commits>>

(* remember(): the least recently used entries make room. *)
Remember(h, o) ==
  LET all == Append(Without(h), [host |-> h, organization |-> o,
                                 left |-> IF o = None THEN NEGATIVE_TTL ELSE TTL])
  IN  entries' = IF Len(all) > MAX_ENTRIES THEN Tail(all) ELSE all

(* The answer of a lookup of an earlier generation is not remembered. *)
LookupReturns(s) ==
  /\ s \in Running /\ loads[s].answer # Unread
  /\ IF loads[s].current /\ Feed!Live
       THEN Remember(loads[s].host, loads[s].answer.organization) ELSE UNCHANGED entries
  /\ loads' = [loads EXCEPT ![s] = None]
  /\ UNCHANGED <<domains, suspended, verifying, told, domainLink, commits>>

LookupFails(s) ==
  /\ s \in Running
  /\ loads' = [loads EXCEPT ![s] = None]
  /\ UNCHANGED <<domains, suspended, verifying, told, entries, domainLink, commits>>

(* Time passes for every entry. *)
Age ==
  /\ \E i \in 1..Len(entries) : Usable(entries[i])
  /\ entries' = [i \in 1..Len(entries) |->
                   [entries[i] EXCEPT !.left = IF @ > 0 THEN @ - 1 ELSE 0]]
  /\ UNCHANGED <<domains, suspended, verifying, told, loads, domainLink, commits>>

(* The feed: onChange and onLost are both invalidate(), and so is stop(). *)
FeedStep ==
  /\ \/ /\ Feed!Start \/ Feed!Attach \/ Feed!Refused \/ Feed!LostEarly \/ Feed!Silenced
        /\ UNCHANGED <<entries, loads>>
     \/ /\ Feed!Ready \/ Feed!Notified \/ Feed!Lost \/ Feed!Closed
        /\ Invalidate
  /\ UNCHANGED <<domains, suspended, verifying, told, commits>>

DomainNext ==
  \/ \E h \in Hosts :
       \/ \E o \in Organizations : RegisterDomain(h, o)
       \/ \E here \in BOOLEAN : VerifyDomain(h, here)
       \/ AnswerVerified(h)
       \/ SetPrimaryDomain(h)
       \/ ResolveFromMemory(h)
       \/ ResolveByLookup(h)
  \/ \E o \in Organizations : SetOrganizationStatus(o)
  \/ \E s \in Loads : LookupReads(s) \/ LookupReturns(s) \/ LookupFails(s)
  \/ Age
  \/ FeedStep

DomainSpec == DomainInit /\ [][DomainNext]_domainVars

(* Time passes; nothing else is promised. *)
DomainFairness == WF_domainVars(Age)

(* Once every notification so far has been handled, what the instance         *)
(* remembers, and what a lookup of this generation has read and may still     *)
(* leave behind, is what the database says (tenant-domain-cache.ts resolve,   *)
(* invalidate; change-listener.ts start).                                     *)
FreshWhenCaughtUp ==
  Feed!CaughtUp =>
    /\ \A i \in 1..Len(entries) : entries[i].organization = Owner(entries[i].host)
    /\ \A s \in Running : loads[s].current /\ loads[s].answer # Unread =>
         loads[s].answer.organization = Owner(loads[s].host)

(* An administrator told that the domain is verified finds it recognized at   *)
(* this instance, before its own notification arrives (verifyDomain).         *)
OwnVerificationSeen ==
  \A h \in told :
    /\ \A i \in 1..Len(entries) : entries[i].host = h => entries[i].organization # None
    /\ \A s \in Running : loads[s].host = h /\ loads[s].current /\ loads[s].answer # Unread =>
         loads[s].answer.organization # None

(* What this instance answers is what the cache was told last and what the    *)
(* database says.                                                             *)
DomainsSound == DomainTypeOK /\ FreshWhenCaughtUp /\ OwnVerificationSeen

(* No wrong answer is remembered.  Even if notifications stop without the     *)
(* connection failing, an entry is not used for ever: use does not prolong it *)
(* (resolve, remember).                                                       *)
Stale(h) == \E i \in 1..Len(entries) :
  entries[i].host = h /\ Usable(entries[i]) /\ entries[i].organization # Owner(h)
AnswersFresh == \A h \in Hosts : ~Stale(h)
=============================================================================
