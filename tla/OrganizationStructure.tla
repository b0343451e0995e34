------------------------ MODULE OrganizationStructure ------------------------
(* The records of one organization: units and the job architecture           *)
(* (OrganizationStructureService, JobArchitectureService), the employees who *)
(* hold positions and belong to units (TenancyService), and the triggers and *)
(* unique indexes of the baseline migration behind them.                     *)
(*                                                                           *)
(* A request is one serializable transaction that begins by authorizing its  *)
(* actor.  A refused one (a stale version, a missing reference, a trigger)   *)
(* writes nothing and is a stuttering step.  Version numbers only ever grow  *)
(* and are only compared for equality, so `form` keeps whether the version   *)
(* one administrator read is still the current one.  Names, codes and the    *)
(* other columns that refer to nothing are left out, and so are sessions.    *)
(*                                                                           *)
(* A situation is what an organization starts with and what is worked on;    *)
(* the rest of it stays as it is.                                            *)
EXTENDS Absent, Integers, FiniteSets

CONSTANTS
  Records,      \* units and job records
  Kind,         \* the kind of a record
  Employees,
  Admins,       \* employees whose account has the role ADMIN
  Situations,   \* [records, people: what is there at first, open: what is worked on]
  MaxPeriods,   \* memberships of one employee in units
  MaxTime

Kinds == {"families", "disciplines", "roles", "levels", "positions", "units"}

\* The kinds that form trees, and what refers to the record above.
Tree == {"units", "positions"}
Parent(kind) == IF kind = "units" THEN "parent" ELSE "reportsTo"

Of(kind) == {r \in Records : Kind[r] = kind}

\* What a record of a kind refers to.
References(r) ==
  CASE Kind[r] = "disciplines" -> [family : Of("families")]
    [] Kind[r] = "roles" -> [family : Of("families"), discipline : Of("disciplines")]
    [] Kind[r] = "positions" -> [unit : Of("units"), role : Of("roles"), level : Of("levels"),
                                 reportsTo : Of("positions") \cup {None}]
    [] Kind[r] = "units" -> [parent : Of("units") \cup {None}]
    [] OTHER -> {<<>>}

Employment == [status : {"active", "inactive"}, access : {None, "active", "suspended"}]
RecordRow(r) == [status : {"active", "archived"}, refs : References(r), head : Of("positions") \cup {None}]

New(refs) == [status |-> "active", refs |-> refs, head |-> None]

\* What an organization may start with: active records without heads that
\* refer to one another as the triggers want it, and an administrator.
SoundStart(s) ==
  /\ s.records = [r \in Records |-> s.records[r]]
  /\ \A r \in Records : s.records[r] # None => \E refs \in References(r) :
       s.records[r] = New(refs) /\ \A f \in DOMAIN refs : refs[f] # None => s.records[refs[f]] # None
  /\ \A r \in Of("roles") : s.records[r] # None =>
       s.records[s.records[r].refs.discipline].refs.family = s.records[r].refs.family
  /\ \A kind \in Tree : \A S \in SUBSET {r \in Of(kind) : s.records[r] # None} :
       S # {} => \E r \in S : s.records[r].refs[Parent(Kind[r])] \notin S
  /\ s.people \in [Employees -> {None} \cup Employment]
  /\ \A e \in Employees : s.people[e] # None /\ s.people[e].access = "active" => s.people[e].status = "active"
  /\ \E a \in Admins : s.people[a] # None /\ s.people[a].access = "active"
  /\ s.open \subseteq Records \cup Employees

ASSUME RecordAssumption ==
  /\ Kind \in [Records -> Kinds] /\ None \notin Records \cup Employees
  /\ None \notin Employment /\ \A r \in Records : None \notin RecordRow(r)
ASSUME TimeAssumption == MaxTime \in Nat /\ None \notin 0..MaxTime /\ None # "active"
ASSUME PeopleAssumption == Admins \subseteq Employees /\ Records \cap Employees = {}
ASSUME SituationAssumption == \A s \in Situations : SoundStart(s)

VARIABLES
  record,       \* each record: None or [status, refs, head]
  employee,     \* each employee: None or [status, access]; access is the membership's status
  seat,         \* the position an employee is assigned to, or None
  periods,      \* memberships of units, with their beginning and end
  form,         \* what an administrator has open: None or [of, fresh, changed]
  now,
  open

orgVars == <<record, employee, seat, periods, form, now, open>>

Exists(r) == record[r] # None
Active(r) == Exists(r) /\ record[r].status = "active"
Works(e) == employee[e] # None /\ employee[e].status = "active"
Current == {m \in periods : m.to = None}

OrgInit ==
  \E s \in Situations :
    /\ record = s.records /\ employee = s.people /\ open = s.open
    /\ seat = [e \in Employees |-> None] /\ periods = {} /\ form = None /\ now = 0

\* asAdmin: an active administrator, in the transaction of the work.
Authorized(a) == a \in Admins /\ Works(a) /\ employee[a].access = "active"
SomeAdmin == \E a \in Employees : Authorized(a)

(***************************************************************************)
(* Versions                                                                *)
(***************************************************************************)
OpenRecord(x) ==
  /\ IF x \in Records THEN Exists(x) ELSE employee[x] # None
  /\ form' = [of |-> x, fresh |-> TRUE, changed |-> FALSE]
  /\ UNCHANGED <<record, employee, seat, periods, now, open>>

Form(x) == form # None /\ form.of = x
\* x changes and its version with it.
Bump(x) == form' = IF Form(x) THEN [form EXCEPT !.fresh = FALSE, !.changed = TRUE] ELSE form
\* x changes and its version does not.
ChangeOnly(x) == form' = IF Form(x) THEN [form EXCEPT !.changed = TRUE] ELSE form

(***************************************************************************)
(* Units and job records                                                   *)
(***************************************************************************)
Above(r) == record[r].refs[Parent(Kind[r])]

\* r and everything below it, whatever its status: the least set closed under "child of".
Below(r) ==
  {x \in Of(Kind[r]) : \A S \in SUBSET Of(Kind[r]) :
     r \in S /\ (\A y \in Of(Kind[r]) : Exists(y) /\ Above(y) \in S => y \in S) => x \in S}

ActiveReferences(refs) == \A f \in DOMAIN refs : refs[f] # None => Active(refs[f])

\* units_no_cycle and position_no_cycle.
NoLoop(r, refs) ==
  Kind[r] \in Tree /\ refs[Parent(Kind[r])] # None => refs[Parent(Kind[r])] \notin Below(r)

\* role_family_check, and discipline_family_update over roles of any status.
FamilyFits(r, refs) ==
  /\ Kind[r] = "roles" => record[refs.discipline].refs.family = refs.family
  /\ Kind[r] = "disciplines" => \A x \in Of("roles") :
       Exists(x) /\ record[x].refs.discipline = r => record[x].refs.family = refs.family

Heads(p) == {u \in Of("units") : Exists(u) /\ record[u].head = p}

\* head_position_move
HeadStays(r, refs) == Kind[r] = "positions" /\ Heads(r) # {} => refs.unit = record[r].refs.unit

Create(r, refs) ==
  /\ SomeAdmin /\ ~Exists(r)
  /\ ActiveReferences(refs)
  /\ FamilyFits(r, refs)
  /\ record' = [record EXCEPT ![r] = New(refs)]
  /\ UNCHANGED <<employee, seat, periods, form, now, open>>

Save(r, refs) ==
  /\ SomeAdmin /\ Active(r)
  /\ ActiveReferences(refs)
  /\ NoLoop(r, refs) /\ FamilyFits(r, refs) /\ HeadStays(r, refs)
  /\ record' = [record EXCEPT ![r].refs = refs]
  /\ Bump(r)
  /\ UNCHANGED <<employee, seat, periods, now, open>>

Uses(x, r) == Active(x) /\ \E f \in DOMAIN record[x].refs : record[x].refs[f] = r

\* dependencies of job-service, units_archive
NotUsed(r) == \A x \in Records : ~Uses(x, r)

\* units_archive; occupied_position_archive and head_position_move
Vacant(r) ==
  /\ Kind[r] = "units" => \A m \in Current : m.unit # r
  /\ Kind[r] = "positions" => Heads(r) = {} /\ \A e \in Employees : seat[e] # r

Archive(r) ==
  /\ SomeAdmin /\ Active(r)
  /\ NotUsed(r) /\ Vacant(r)
  /\ record' = [record EXCEPT ![r].status = "archived"]
  /\ Bump(r)
  /\ UNCHANGED <<employee, seat, periods, now, open>>

\* one_unit_per_head_position follows: a position is in one unit.
SetHeadPosition(u, p) ==
  /\ SomeAdmin /\ Active(u)
  /\ p # None => Active(p) /\ Kind[p] = "positions" /\ record[p].refs.unit = u
  /\ record' = [record EXCEPT ![u].head = p]
  /\ Bump(u)
  /\ UNCHANGED <<employee, seat, periods, now, open>>

(***************************************************************************)
(* Members of units                                                        *)
(***************************************************************************)
\* The employee may be inactive.  current_unit_member and one_primary_unit are unique indexes.
AddMember(u, e, primary, from) ==
  /\ SomeAdmin /\ Active(u) /\ employee[e] # None
  /\ Cardinality({m \in periods : m.employee = e}) < MaxPeriods
  /\ from <= now
  /\ \A m \in periods \ Current : m.employee = e /\ m.unit = u => m.to <= from
  /\ \A m \in Current : m.employee = e => m.unit # u /\ ~(primary /\ m.primary)
  /\ periods' = periods \cup {[unit |-> u, employee |-> e, primary |-> primary, from |-> from, to |-> None]}
  /\ UNCHANGED <<record, employee, seat, form, now, open>>

RemoveMember(m) ==
  /\ SomeAdmin /\ m \in Current
  /\ periods' = (periods \ {m}) \cup {[m EXCEPT !.to = now]}
  /\ UNCHANGED <<record, employee, seat, form, now, open>>

TimePasses == now < MaxTime /\ now' = now + 1 /\ UNCHANGED <<record, employee, seat, periods, form, open>>

(***************************************************************************)
(* Employees                                                               *)
(***************************************************************************)
CreateEmployee(e) ==
  /\ SomeAdmin /\ employee[e] = None
  /\ employee' = [employee EXCEPT ![e] = [status |-> "active", access |-> None]]
  /\ UNCHANGED <<record, seat, periods, form, now, open>>

Ended(m) == IF m = "active" THEN "suspended" ELSE m

\* updateEmployee to inactive ends the assignment and suspends the membership.
Deactivate(a, e) ==
  /\ Authorized(a) /\ employee[e] # None /\ e # a
  /\ employee' = [employee EXCEPT ![e] = [status |-> "inactive", access |-> Ended(employee[e].access)]]
  /\ seat' = [seat EXCEPT ![e] = None]
  /\ Bump(e)
  /\ UNCHANGED <<record, periods, now, open>>

\* updateEmployee to active: a suspended membership stays suspended.
Reactivate(e) ==
  /\ SomeAdmin /\ employee[e] # None
  /\ employee' = [employee EXCEPT ![e].status = "active"]
  /\ Bump(e)
  /\ UNCHANGED <<record, seat, periods, now, open>>

\* assignPosition; the answer to the same position again changes nothing.
AssignPosition(e, p) ==
  /\ SomeAdmin /\ Works(e)
  /\ p # None => /\ Active(p) /\ Kind[p] = "positions"
                 /\ \A x \in Employees : seat[x] # p
  /\ seat' = [seat EXCEPT ![e] = p]
  /\ Bump(e)
  /\ UNCHANGED <<record, employee, periods, now, open>>

\* setMembershipStatus has a version of its own.
Suspend(a, e) ==
  /\ Authorized(a) /\ employee[e] # None /\ employee[e].access # None /\ e # a
  /\ employee' = [employee EXCEPT ![e].access = "suspended"]
  /\ UNCHANGED <<record, seat, periods, form, now, open>>

\* The account is active and has a password.
Admit(a, e) ==
  /\ Authorized(a) /\ Works(e) /\ employee[e].access # None /\ e # a
  /\ employee' = [employee EXCEPT ![e].access = "active"]
  /\ UNCHANGED <<record, seat, periods, form, now, open>>

OrgNext ==
  \/ \E x \in open : OpenRecord(x)
  \/ \E r \in Records \cap open : Archive(r) \/ \E refs \in References(r) : Create(r, refs) \/ Save(r, refs)
  \/ \E u \in Of("units") \cap open, p \in Of("positions") \cup {None} : SetHeadPosition(u, p)
  \/ \E u \in Of("units") \cap open, e \in Employees \cap open :
       \E primary \in BOOLEAN, from \in 0..MaxTime : AddMember(u, e, primary, from)
  \/ \E m \in periods : RemoveMember(m)
  \/ \E e \in Employees \cap open :
       CreateEmployee(e) \/ Reactivate(e) \/ \E p \in Of("positions") \cup {None} : AssignPosition(e, p)
  \/ \E a \in Employees, e \in Employees \cap open : Deactivate(a, e) \/ Suspend(a, e) \/ Admit(a, e)
  \/ TimePasses

OrgSpec == OrgInit /\ [][OrgNext]_orgVars

(***************************************************************************)
(* Properties                                                              *)
(***************************************************************************)
\* The state has its type; no membership ends before it begins.
OrgTypeOK ==
  /\ \A r \in Records : record[r] # None =>
       record[r] \in RecordRow(r) /\ (Kind[r] # "units" => record[r].head = None)
  /\ employee \in [Employees -> {None} \cup Employment]
  /\ seat \in [Employees -> Of("positions") \cup {None}]
  /\ periods \subseteq [unit : Of("units"), employee : Employees, primary : BOOLEAN, from : 0..MaxTime,
                        to : (0..MaxTime) \cup {None}]
  /\ \A m \in periods : m.from <= now /\ (m.to # None => m.from <= m.to)
  /\ form \in {None} \cup [of : open, fresh : BOOLEAN, changed : BOOLEAN]
  /\ now \in 0..MaxTime /\ open \subseteq Records \cup Employees

\* Whatever is archived, moved or created in whatever order: an active record refers to active
\* records only, the members of a unit belong to an active one.
ActiveOnActive ==
  /\ \A r \in Records : Active(r) => ActiveReferences(record[r].refs)
  /\ \A m \in Current : Active(m.unit)

\* Neither units nor positions ever form a ring, archived ones included: every set of them has
\* one that is below none of the set (units_no_cycle, position_no_cycle).
NoRing ==
  \A kind \in Tree : \A S \in SUBSET {r \in Of(kind) : Exists(r)} :
    S # {} => \E r \in S : Above(r) \notin S

\* The head of a unit is an active position of this unit, which is active too, however positions
\* are moved and archived; and no position heads two units.
HeadsBelong ==
  \A u \in Of("units") : Exists(u) /\ record[u].head # None =>
    /\ Active(u) /\ Active(record[u].head) /\ record[record[u].head].refs.unit = u

\* A role belongs to the family of its discipline, also after the discipline changes family.
OneFamily ==
  \A r \in Of("roles") : Exists(r) => record[record[r].refs.discipline].refs.family = record[r].refs.family

\* A position has one occupant, is active while it has one, and its occupant is active; access
\* to the organization ends with the employment.
SeatsSound ==
  /\ \A e \in Employees : seat[e] # None =>
       Works(e) /\ Active(seat[e]) /\ \A x \in Employees : seat[x] = seat[e] => x = e
  /\ \A e \in Employees : employee[e] # None /\ employee[e].access = "active" => Works(e)

\* Administrators cannot lock the organization out, not even by deactivating each other at the
\* same time: the actor of a request is authorized in the transaction that does the work.
AdminRemains == SomeAdmin

\* A form saved under the version it was read with was read from the record as it is: whatever
\* changes what a form shows changes the version as well.
NoLostUpdate == form # None /\ form.fresh => ~form.changed

\* Memberships of an employee in a unit do not overlap, back-dated ones included, and an
\* employee has one primary unit at a time.
PeriodsDisjoint ==
  \A m, n \in periods : m # n /\ m.employee = n.employee =>
    /\ m.unit = n.unit => (m.to # None /\ m.to <= n.from) \/ (n.to # None /\ n.to <= m.from)
    /\ ~(m \in Current /\ n \in Current /\ m.primary /\ n.primary)

\* The structure is consistent at every commit, whoever changes what at the same time.
StructureSound ==
  /\ OrgTypeOK /\ ActiveOnActive /\ NoRing /\ HeadsBelong /\ OneFamily
  /\ SeatsSound /\ AdminRemains /\ NoLostUpdate /\ PeriodsDisjoint
=============================================================================
