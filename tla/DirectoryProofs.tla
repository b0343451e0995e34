---------------------------- MODULE DirectoryProofs ----------------------------
(***************************************************************************)
(* Theorems about the records an organization is made of: its structure,   *)
(* the domains it is recognized by, the catalog and the agents made from   *)
(* it (OrganizationStructure, TenantDomainCache, CatalogVersions and       *)
(* AgentProvisioning, each in a part of its own), and what these and the   *)
(* theorems of ServiceProofs say of the services side by side, MCServices. *)
(***************************************************************************)
EXTENDS ServiceProofs, MCServices, SequenceTheorems

-----------------------------------------------------------------------------
(***************************************************************************)
(* Theorems about OrganizationStructure, for every set of records of every *)
(* kind, of employees and of periods.  Nothing that stands refers to what  *)
(* does not stand: with this, what a transaction looks at is all that its  *)
(* change could break.                                                     *)
(***************************************************************************)
RefsExist ==
  \A r \in Records : Exists(r) =>
    \A f \in DOMAIN record[r].refs : record[r].refs[f] # None => Exists(record[r].refs[f])

RecordsTyped ==
  /\ record = [r \in Records |-> record[r]]
  /\ \A r \in Records : Exists(r) =>
       record[r] \in RecordRow(r) /\ (Kind[r] # "units" => record[r].head = None)

RecordsFit ==
  /\ RecordsTyped /\ RefsExist
  /\ \A r \in Records : Active(r) => ActiveReferences(record[r].refs)
  /\ NoRing /\ HeadsBelong /\ OneFamily

PeopleFit ==
  /\ employee \in [Employees -> {None} \cup Employment]
  /\ seat \in [Employees -> Of("positions") \cup {None}]
  /\ SeatsSound /\ AdminRemains

Period == [unit : Of("units"), employee : Employees, primary : BOOLEAN, from : 0..MaxTime,
           to : (0..MaxTime) \cup {None}]

PeriodsFit ==
  /\ periods \subseteq Period /\ now \in 0..MaxTime
  /\ \A m \in periods : m.from <= now /\ (m.to # None => m.from <= m.to)
  /\ PeriodsDisjoint
  /\ \A m \in Current : Active(m.unit)

FormFits ==
  /\ open \subseteq Records \cup Employees
  /\ form \in {None} \cup [of : open, fresh : BOOLEAN, changed : BOOLEAN]
  /\ NoLostUpdate

OrgInductive == RecordsFit /\ PeopleFit /\ PeriodsFit /\ FormFits

\* What a record may refer to, by its kind.
LEMMA RefsTyped ==
  ASSUME NEW r \in Records, NEW refs \in References(r)
  PROVE  /\ \A f \in DOMAIN refs : refs[f] \in Records \cup {None}
         /\ Kind[r] \in Tree => /\ Parent(Kind[r]) \in DOMAIN refs
                                /\ refs[Parent(Kind[r])] \in Of(Kind[r]) \cup {None}
         /\ Kind[r] = "roles" => /\ {"family", "discipline"} \subseteq DOMAIN refs
                                 /\ refs.family \in Of("families") /\ refs.discipline \in Of("disciplines")
         /\ Kind[r] = "disciplines" => "family" \in DOMAIN refs /\ refs.family \in Of("families")
         /\ Kind[r] = "positions" => "unit" \in DOMAIN refs /\ refs.unit \in Of("units")
<1>1. Kind[r] \in Kinds
  BY RecordAssumption
<1>2. CASE Kind[r] = "disciplines"
  <2>1. refs \in [family : Of("families")]
    BY <1>2 DEF References
  <2> QED BY <1>2, <2>1 DEF Of, Tree
<1>3. CASE Kind[r] = "roles"
  <2>1. refs \in [family : Of("families"), discipline : Of("disciplines")]
    BY <1>3 DEF References
  <2> QED BY <1>3, <2>1 DEF Of, Tree
<1>4. CASE Kind[r] = "positions"
  <2>1. refs \in [unit : Of("units"), role : Of("roles"), level : Of("levels"), reportsTo : Of("positions") \cup {None}]
    BY <1>4 DEF References
  <2> QED BY <1>4, <2>1 DEF Of, Tree, Parent
<1>5. CASE Kind[r] = "units"
  <2>1. refs \in [parent : Of("units") \cup {None}]
    BY <1>5 DEF References
  <2> QED BY <1>5, <2>1 DEF Of, Tree, Parent
<1>6. CASE Kind[r] \in {"families", "levels"}
  <2>1. refs = <<>>
    BY <1>6 DEF References
  <2> QED BY <1>6, <2>1 DEF Tree
<1> QED BY <1>1, <1>2, <1>3, <1>4, <1>5, <1>6 DEF Kinds

LEMMA NewRow ==
  ASSUME NEW r \in Records, NEW refs \in References(r)
  PROVE  /\ New(refs) \in RecordRow(r) /\ New(refs).head = None
         /\ New(refs).status = "active" /\ New(refs).refs = refs
BY DEF New, RecordRow

\* A row that is written: the others stay as they are.
LEMMA RowWritten ==
  ASSUME RecordsTyped, NEW r \in Records, NEW row \in RecordRow(r), record' = [record EXCEPT ![r] = row],
         Kind[r] # "units" => row.head = None
  PROVE  /\ RecordsTyped' /\ record'[r] = row /\ row # None /\ Exists(r)'
         /\ row.refs \in References(r) /\ row.status \in {"active", "archived"}
         /\ row.head \in Of("positions") \cup {None}
         /\ \A x \in Records \ {r} : record'[x] = record[x]
<1>1. row # None
  BY RecordAssumption
<1>2. record'[r] = row /\ \A x \in Records \ {r} : record'[x] = record[x]
  BY DEF RecordsTyped
<1>3. record' = [x \in Records |-> record'[x]]
  BY DEF RecordsTyped
<1> QED BY <1>1, <1>2, <1>3 DEF RecordsTyped, RecordRow, Exists

\* Rows that keep their references, their status and their heads.
LEMMA RowFacts ==
  ASSUME RecordsTyped, NEW r \in Records, Exists(r)
  PROVE  /\ record[r] \in RecordRow(r) /\ record[r].refs \in References(r)
         /\ record[r].status \in {"active", "archived"} /\ record[r].head \in Of("positions") \cup {None}
BY DEF RecordsTyped, RecordRow

LEMMA PeopleStay ==
  ASSUME PeopleFit, UNCHANGED <<employee, seat>>,
         \A e \in Employees, q \in Of("positions") : seat[e] = q /\ Active(q) => Active(q)'
  PROVE  PeopleFit'
BY DEF PeopleFit, SeatsSound, AdminRemains, SomeAdmin, Authorized, Works

LEMMA PeriodsStay ==
  ASSUME PeriodsFit, UNCHANGED <<periods, now>>, \A m \in Current : Active(m.unit)'
  PROVE  PeriodsFit'
BY DEF PeriodsFit, PeriodsDisjoint, Current

LEMMA FormStays ==
  ASSUME FormFits, open' = open, form' = form \/ \E x \in open : Bump(x)
  PROVE  FormFits'
BY DEF FormFits, NoLostUpdate, Bump, Form

\* A record is made: nothing refers to it yet.
LEMMA CreateKeeps ==
  ASSUME OrgInductive, NEW r \in Records, NEW refs \in References(r), Create(r, refs)
  PROVE  OrgInductive'
<1>1. RecordsTyped /\ ~Exists(r) /\ ActiveReferences(refs) /\ FamilyFits(r, refs)
      /\ record' = [record EXCEPT ![r] = New(refs)] /\ UNCHANGED <<employee, seat, periods, form, now, open>>
  BY DEF OrgInductive, RecordsFit, Create
<1>2. /\ RecordsTyped' /\ record'[r] = New(refs) /\ New(refs) # None /\ Exists(r)'
      /\ \A x \in Records \ {r} : record'[x] = record[x]
  <2>1. PICK row \in RecordRow(r) : row = New(refs) /\ row.head = None
    BY NewRow
  <2> QED BY <1>1, <2>1, RowWritten
<1>3. \A x \in Records : Exists(x) => x # r /\ Exists(x)' /\ record'[x] = record[x]
  BY <1>1, <1>2 DEF Exists
<1>4. \A x \in Records : Active(x) => Active(x)'
  BY <1>3 DEF Active, Exists
<1>5. \A x \in Records : Exists(x)' /\ x # r => Exists(x) /\ record'[x] = record[x]
  BY <1>2 DEF Exists
<1>6. \A f \in DOMAIN refs : refs[f] # None => refs[f] \in Records /\ Active(refs[f]) /\ refs[f] # r
  BY <1>1, RefsTyped DEF ActiveReferences, Active, Exists
<1>7. ASSUME NEW x \in Records, Exists(x)
      PROVE  /\ record[x].refs \in References(x)
             /\ \A f \in DOMAIN record[x].refs : record[x].refs[f] # None =>
                  record[x].refs[f] \in Records \ {r} /\ Exists(record[x].refs[f])
  <2>1. record[x].refs \in References(x)
    BY <1>1, <1>7, RowFacts
  <2>2. \A f \in DOMAIN record[x].refs : record[x].refs[f] # None => Exists(record[x].refs[f])
    BY <1>7 DEF OrgInductive, RecordsFit, RefsExist
  <2> QED BY <1>1, <2>1, <2>2, RefsTyped
<1>8. RefsExist'
  <2> SUFFICES ASSUME NEW x \in Records, Exists(x)', NEW f \in DOMAIN record'[x].refs,
                      NEW y, y = record'[x].refs[f], y # None
               PROVE  Exists(y)'
    BY DEF RefsExist, Exists
  <2>1. CASE x = r
    BY <1>2, <1>3, <1>6, <2>1, NewRow DEF Active
  <2>2. CASE x # r
    BY <1>3, <1>5, <1>7, <2>2
  <2> QED BY <2>1, <2>2
<1>9. \A x \in Records : Active(x)' => ActiveReferences(record[x].refs)'
  <2> SUFFICES ASSUME NEW x \in Records, Active(x)', NEW f \in DOMAIN record'[x].refs,
                      NEW y, y = record'[x].refs[f], y # None
               PROVE  Active(y)'
    BY DEF ActiveReferences, Active, Exists
  <2>1. CASE x = r
    BY <1>2, <1>4, <1>6, <2>1, NewRow
  <2>2. CASE x # r
    <3>1. Active(x) /\ record'[x] = record[x] /\ Exists(x)
      BY <1>5, <2>2 DEF Active, Exists
    <3>2. Active(record[x].refs[f])
      BY <3>1 DEF OrgInductive, RecordsFit, ActiveReferences
    <3> QED BY <1>4, <1>7, <3>1, <3>2
  <2> QED BY <2>1, <2>2
<1>10. NoRing'
  <2> SUFFICES ASSUME NEW kind \in Tree, NEW S \in SUBSET {x \in Of(kind) : Exists(x)'}, S # {},
                      \A x \in S : Above(x)' \in S
               PROVE  FALSE
    BY DEF NoRing
  <2>1. \A x \in S : x \in Records /\ Kind[x] = kind
    BY DEF Of
  <2>2. \A x \in S \ {r} : Exists(x) /\ Above(x) \in S /\ Above(x) # r
    <3> SUFFICES ASSUME NEW x \in S \ {r} PROVE Exists(x) /\ Above(x) \in S /\ Above(x) # r
      OBVIOUS
    <3>1. Exists(x) /\ record'[x] = record[x] /\ Above(x) \in S
      BY <1>5, <2>1 DEF Above
    <3>2. Parent(Kind[x]) \in DOMAIN record[x].refs
      BY <1>7, <2>1, <3>1, RefsTyped
    <3>3. Above(x) # None
      BY <2>1, <3>1, RecordAssumption
    <3> QED BY <1>7, <2>1, <3>1, <3>2, <3>3 DEF Above
  <2>3. S \ {r} # {}
    <3>1. CASE r \in S
      <4>1. Above(r)' = refs[Parent(Kind[r])] /\ Kind[r] \in Tree
        BY <1>2, <2>1, <3>1, NewRow DEF Above
      <4>2. Above(r)' \in S /\ Above(r)' # r
        BY <1>6, <2>1, <3>1, <4>1, RefsTyped, RecordAssumption
      <4> QED BY <4>2
    <3> QED BY <3>1
  <2>4. S \ {r} \in SUBSET {x \in Of(kind) : Exists(x)}
    BY <2>1, <2>2 DEF Of
  <2>5. \E x \in S \ {r} : Above(x) \notin S \ {r}
    BY <2>3, <2>4 DEF OrgInductive, RecordsFit, NoRing
  <2> QED BY <2>2, <2>5
<1>11. HeadsBelong'
  <2> SUFFICES ASSUME NEW u \in Of("units"), Exists(u)', NEW q, q = record'[u].head, q # None
               PROVE  Active(u)' /\ Active(q)' /\ record'[q].refs.unit = u
    BY DEF HeadsBelong, Active, Exists
  <2>1. u \in Records /\ u # r
    BY <1>2, NewRow DEF Of
  <2>2. Exists(u) /\ record'[u] = record[u]
    BY <1>5, <2>1
  <2>3. Active(u) /\ Active(record[u].head) /\ record[record[u].head].refs.unit = u
    BY <2>2 DEF OrgInductive, RecordsFit, HeadsBelong
  <2>4. record[u].head \in Records
    BY <1>1, <2>1, <2>2, RowFacts DEF Of
  <2> QED BY <1>3, <1>4, <2>1, <2>2, <2>3, <2>4 DEF Active
<1>12. OneFamily'
  <2> SUFFICES ASSUME NEW x \in Of("roles"), Exists(x)'
               PROVE  record'[record'[x].refs.discipline].refs.family = record'[x].refs.family
    BY DEF OneFamily
  <2>1. x \in Records /\ Kind[x] = "roles"
    BY DEF Of
  <2>2. CASE x = r
    <3>1. record[refs.discipline].refs.family = refs.family
      BY <1>1, <2>1, <2>2 DEF FamilyFits
    <3>2. refs.discipline \in Records \ {r}
      BY <2>1, <2>2, RefsTyped DEF Of
    <3> QED BY <1>2, <2>2, <3>1, <3>2, NewRow
  <2>3. CASE x # r
    <3>1. Exists(x) /\ record'[x] = record[x]
      BY <1>5, <2>1, <2>3
    <3>2. record[record[x].refs.discipline].refs.family = record[x].refs.family
      BY <3>1 DEF OrgInductive, RecordsFit, OneFamily
    <3>3. record[x].refs.discipline \in Records \ {r}
      <4>1. "discipline" \in DOMAIN record[x].refs /\ record[x].refs.discipline \in Of("disciplines")
        BY <1>7, <2>1, <3>1, RefsTyped
      <4>2. record[x].refs.discipline # None
        BY <4>1, RecordAssumption DEF Of
      <4> QED BY <1>7, <2>1, <3>1, <4>1, <4>2
    <3> QED BY <1>2, <3>1, <3>2, <3>3
  <2> QED BY <2>2, <2>3
<1>13. RecordsFit'
  BY <1>2, <1>8, <1>9, <1>10, <1>11, <1>12 DEF RecordsFit
<1>14. PeopleFit'
  <2>1. \A e \in Employees, q \in Of("positions") : seat[e] = q /\ Active(q) => Active(q)'
    BY <1>4 DEF Of
  <2> QED BY <1>1, <2>1, PeopleStay DEF OrgInductive
<1>15. PeriodsFit'
  <2>1. \A m \in Current : Active(m.unit)'
    BY <1>4 DEF OrgInductive, PeriodsFit, Current, Period, Of
  <2> QED BY <1>1, <2>1, PeriodsStay DEF OrgInductive
<1>16. FormFits'
  BY <1>1, FormStays DEF OrgInductive
<1> QED BY <1>13, <1>14, <1>15, <1>16 DEF OrgInductive

\* The references of a record change: the triggers compare what is to be
\* written with what is there.
LEMMA SaveKeeps ==
  ASSUME OrgInductive, NEW r \in Records \cap open, NEW refs \in References(r), Save(r, refs)
  PROVE  OrgInductive'
<1>1. /\ RecordsTyped /\ Active(r) /\ Exists(r) /\ r \in Records
      /\ ActiveReferences(refs) /\ NoLoop(r, refs) /\ FamilyFits(r, refs) /\ HeadStays(r, refs)
      /\ record' = [record EXCEPT ![r] = [@ EXCEPT !.refs = refs]]
      /\ UNCHANGED <<employee, seat, periods, now, open>> /\ Bump(r)
  BY DEF OrgInductive, RecordsFit, Save, Active
<1>2. PICK row \in RecordRow(r) : /\ row.refs = refs /\ row.status = record[r].status /\ row.head = record[r].head
                                  /\ record' = [record EXCEPT ![r] = row]
  <2>1. record[r] \in RecordRow(r)
    BY <1>1, RowFacts
  <2>2. [record[r] EXCEPT !.refs = refs] \in RecordRow(r)
    BY <2>1 DEF RecordRow
  <2> QED BY <1>1, <2>1, <2>2 DEF RecordRow
<1>3. /\ RecordsTyped' /\ record'[r] = row /\ Exists(r)'
      /\ \A x \in Records \ {r} : record'[x] = record[x]
  BY <1>1, <1>2, RowWritten DEF RecordsTyped
<1>4. \A x \in Records : /\ Exists(x)' <=> Exists(x)
                         /\ Active(x)' <=> Active(x)
                         /\ Exists(x) => record'[x].head = record[x].head
  BY <1>1, <1>2, <1>3 DEF Active, Exists
<1>5. \A f \in DOMAIN refs : refs[f] # None => refs[f] \in Records /\ Active(refs[f])
  BY <1>1, RefsTyped DEF ActiveReferences
<1>6. ASSUME NEW x \in Records, Exists(x)
      PROVE  /\ record[x].refs \in References(x)
             /\ \A f \in DOMAIN record[x].refs : record[x].refs[f] # None =>
                  record[x].refs[f] \in Records /\ Exists(record[x].refs[f])
  <2>1. record[x].refs \in References(x)
    BY <1>1, <1>6, RowFacts
  <2>2. \A f \in DOMAIN record[x].refs : record[x].refs[f] # None => Exists(record[x].refs[f])
    BY <1>6 DEF OrgInductive, RecordsFit, RefsExist
  <2> QED BY <2>1, <2>2, RefsTyped
<1>7. RefsExist'
  <2> SUFFICES ASSUME NEW x \in Records, Exists(x)', NEW f \in DOMAIN record'[x].refs,
                      NEW y, y = record'[x].refs[f], y # None
               PROVE  Exists(y)'
    BY DEF RefsExist, Exists
  <2>1. CASE x = r
    BY <1>2, <1>3, <1>4, <1>5, <2>1 DEF Active
  <2>2. CASE x # r
    BY <1>3, <1>4, <1>6, <2>2
  <2> QED BY <2>1, <2>2
<1>8. \A x \in Records : Active(x)' => ActiveReferences(record[x].refs)'
  <2> SUFFICES ASSUME NEW x \in Records, Active(x)', NEW f \in DOMAIN record'[x].refs,
                      NEW y, y = record'[x].refs[f], y # None
               PROVE  Active(y)'
    BY DEF ActiveReferences, Active, Exists
  <2>1. CASE x = r
    BY <1>2, <1>3, <1>4, <1>5, <2>1
  <2>2. CASE x # r
    <3>1. Active(x) /\ record'[x] = record[x] /\ Exists(x)
      BY <1>3, <1>4, <2>2 DEF Active
    <3>2. Active(record[x].refs[f])
      BY <3>1 DEF OrgInductive, RecordsFit, ActiveReferences
    <3> QED BY <1>4, <1>6, <3>1, <3>2
  <2> QED BY <2>1, <2>2
<1>9. NoRing'
  <2> SUFFICES ASSUME NEW kind \in Tree, NEW S \in SUBSET {x \in Of(kind) : Exists(x)'}, S # {},
                      \A x \in S : Above(x)' \in S
               PROVE  FALSE
    BY DEF NoRing
  <2>1. \A x \in S : x \in Of(kind) /\ x \in Records /\ Kind[x] = kind /\ Exists(x) /\ x # None
    BY <1>4, RecordAssumption DEF Of
  <2>2. \A x \in S \ {r} : Above(x) \in S
    BY <1>3, <2>1 DEF Above
  <2>3. r \in S
    <3>1. S \in SUBSET {x \in Of(kind) : Exists(x)}
      BY <2>1
    <3>2. \E x \in S : Above(x) \notin S
      BY <3>1 DEF OrgInductive, RecordsFit, NoRing
    <3> QED BY <2>2, <3>2
  <2>4. Kind[r] = kind /\ refs[Parent(kind)] \in S
    BY <1>2, <1>3, <2>1, <2>3 DEF Above
  <2>5. refs[Parent(kind)] \notin Below(r) /\ refs[Parent(kind)] \in Of(kind)
    BY <1>1, <2>1, <2>4 DEF NoLoop
  <2>6. PICK T \in SUBSET Of(kind) : /\ r \in T /\ refs[Parent(kind)] \notin T
                                     /\ \A y \in Of(kind) : Exists(y) /\ Above(y) \in T => y \in T
    BY <2>4, <2>5 DEF Below
  <2>7. S \ T # {} /\ S \ T \in SUBSET {x \in Of(kind) : Exists(x)}
    BY <2>1, <2>4, <2>6
  <2>8. PICK x \in S \ T : Above(x) \notin S \ T
    BY <2>7 DEF OrgInductive, RecordsFit, NoRing
  <2>9. Above(x) \in S
    BY <2>2, <2>6, <2>8
  <2> QED BY <2>1, <2>6, <2>8, <2>9
<1>10. HeadsBelong'
  <2> SUFFICES ASSUME NEW u \in Of("units"), Exists(u)', NEW q, q = record'[u].head, q # None
               PROVE  Active(u)' /\ Active(q)' /\ record'[q].refs.unit = u
    BY DEF HeadsBelong, Active, Exists
  <2>1. u \in Records /\ Exists(u) /\ record'[u].head = record[u].head
    BY <1>4 DEF Of
  <2>2. Active(u) /\ Active(record[u].head) /\ record[record[u].head].refs.unit = u
    BY <2>1 DEF OrgInductive, RecordsFit, HeadsBelong
  <2>3. record[u].head \in Records /\ Kind[record[u].head] = "positions"
    BY <1>1, <2>1, RowFacts DEF Of
  <2>4. CASE record[u].head = r
    <3>1. u \in Heads(r)
      BY <2>1, <2>4 DEF Heads
    <3>2. refs.unit = u
      BY <1>1, <2>2, <2>3, <2>4, <3>1 DEF HeadStays
    <3> QED BY <1>2, <1>3, <1>4, <2>1, <2>2, <2>3, <2>4, <3>2
  <2>5. CASE record[u].head # r
    BY <1>3, <1>4, <2>1, <2>2, <2>3, <2>5
  <2> QED BY <2>4, <2>5
<1>11. OneFamily'
  <2> SUFFICES ASSUME NEW x \in Of("roles"), Exists(x)'
               PROVE  record'[record'[x].refs.discipline].refs.family = record'[x].refs.family
    BY DEF OneFamily
  <2>1. x \in Records /\ Kind[x] = "roles" /\ Exists(x)
    BY <1>4 DEF Of
  <2>2. CASE x = r
    <3>1. record[refs.discipline].refs.family = refs.family
      BY <1>1, <2>1, <2>2 DEF FamilyFits
    <3>2. refs.discipline \in Records \ {r}
      BY <2>1, <2>2, RefsTyped DEF Of
    <3> QED BY <1>2, <1>3, <2>2, <3>1, <3>2
  <2>3. CASE x # r
    <3>1. record'[x] = record[x] /\ record[x].refs \in References(x)
      BY <1>3, <1>6, <2>1, <2>3
    <3>2. record[record[x].refs.discipline].refs.family = record[x].refs.family
      BY <2>1 DEF OrgInductive, RecordsFit, OneFamily
    <3>3. record[x].refs.discipline \in Of("disciplines")
      BY <2>1, <3>1, RefsTyped
    <3>4. CASE record[x].refs.discipline = r
      <4>1. record[x].refs.family = refs.family
        BY <1>1, <2>1, <3>3, <3>4 DEF FamilyFits, Of
      <4> QED BY <1>2, <1>3, <3>1, <3>4, <4>1
    <3>5. CASE record[x].refs.discipline # r
      BY <1>3, <3>1, <3>2, <3>3, <3>5 DEF Of
    <3> QED BY <3>4, <3>5
  <2> QED BY <2>2, <2>3
<1>12. RecordsFit'
  BY <1>3, <1>7, <1>8, <1>9, <1>10, <1>11 DEF RecordsFit
<1>13. PeopleFit'
  <2>1. \A e \in Employees, q \in Of("positions") : seat[e] = q /\ Active(q) => Active(q)'
    BY <1>4 DEF Of
  <2> QED BY <1>1, <2>1, PeopleStay DEF OrgInductive
<1>14. PeriodsFit'
  <2>1. \A m \in Current : Active(m.unit)'
    BY <1>4 DEF OrgInductive, PeriodsFit, Current, Period, Of
  <2> QED BY <1>1, <2>1, PeriodsStay DEF OrgInductive
<1>15. FormFits'
  BY <1>1, FormStays DEF OrgInductive
<1> QED BY <1>12, <1>13, <1>14, <1>15 DEF OrgInductive

\* A row that keeps its references keeps what is said of references alone.
LEMMA ReferencesStay ==
  ASSUME RecordsFit, NEW r \in Records, Exists(r), NEW row \in RecordRow(r), row.refs = record[r].refs,
         record' = [record EXCEPT ![r] = row], Kind[r] # "units" => row.head = None
  PROVE  /\ RecordsTyped' /\ RefsExist' /\ NoRing' /\ OneFamily' /\ record'[r] = row
         /\ \A x \in Records : Exists(x)' <=> Exists(x)
         /\ \A x \in Records : Exists(x) => record'[x].refs = record[x].refs
         /\ \A x \in Records \ {r} : record'[x] = record[x]
<1>1. /\ RecordsTyped' /\ record'[r] = row /\ Exists(r)'
      /\ \A x \in Records \ {r} : record'[x] = record[x]
  BY RowWritten DEF RecordsFit
<1>2. /\ \A x \in Records : Exists(x)' <=> Exists(x)
      /\ \A x \in Records : Exists(x) => record'[x].refs = record[x].refs
  BY <1>1 DEF Exists
<1>3. ASSUME NEW x \in Records, Exists(x)
      PROVE  /\ record[x].refs \in References(x)
             /\ \A f \in DOMAIN record[x].refs : record[x].refs[f] # None =>
                  record[x].refs[f] \in Records /\ Exists(record[x].refs[f])
  <2>1. record[x].refs \in References(x)
    BY <1>3, RowFacts DEF RecordsFit
  <2>2. \A f \in DOMAIN record[x].refs : record[x].refs[f] # None => Exists(record[x].refs[f])
    BY <1>3 DEF RecordsFit, RefsExist
  <2> QED BY <2>1, <2>2, RefsTyped
<1>4. RefsExist'
  BY <1>2, <1>3 DEF RefsExist
<1>5. NoRing'
  <2> SUFFICES ASSUME NEW kind \in Tree, NEW S \in SUBSET {x \in Of(kind) : Exists(x)'}, S # {},
                      \A x \in S : Above(x)' \in S
               PROVE  FALSE
    BY DEF NoRing
  <2>1. S \in SUBSET {x \in Of(kind) : Exists(x)} /\ \A x \in S : Above(x) = Above(x)'
    BY <1>2 DEF Of, Above
  <2> QED BY <2>1 DEF RecordsFit, NoRing
<1>6. OneFamily'
  <2> SUFFICES ASSUME NEW x \in Of("roles"), Exists(x)'
               PROVE  record'[record'[x].refs.discipline].refs.family = record'[x].refs.family
    BY DEF OneFamily
  <2>1. x \in Records /\ Kind[x] = "roles" /\ Exists(x)
    BY <1>2 DEF Of
  <2>2. /\ record[record[x].refs.discipline].refs.family = record[x].refs.family
        /\ record'[x].refs = record[x].refs
    BY <1>2, <2>1 DEF RecordsFit, OneFamily
  <2>3. "discipline" \in DOMAIN record[x].refs /\ record[x].refs.discipline \in Of("disciplines")
    BY <1>3, <2>1, RefsTyped
  <2>4. record[x].refs.discipline # None
    BY <2>3, RecordAssumption DEF Of
  <2>5. record[x].refs.discipline \in Records /\ Exists(record[x].refs.discipline)
    BY <1>3, <2>1, <2>3, <2>4
  <2> QED BY <1>2, <2>2, <2>5
<1> QED BY <1>1, <1>2, <1>4, <1>5, <1>6

\* Nothing that stands uses what is archived.
LEMMA ArchiveKeeps ==
  ASSUME OrgInductive, NEW r \in Records \cap open, Archive(r)
  PROVE  OrgInductive'
<1>1. /\ RecordsFit /\ Active(r) /\ Exists(r) /\ NotUsed(r) /\ Vacant(r)
      /\ record' = [record EXCEPT ![r] = [@ EXCEPT !.status = "archived"]]
      /\ UNCHANGED <<employee, seat, periods, now, open>> /\ Bump(r)
  BY DEF OrgInductive, Archive, Active
<1>2. record[r] \in RecordRow(r) /\ (Kind[r] # "units" => record[r].head = None)
  BY <1>1 DEF RecordsFit, RecordsTyped
<1>3. PICK row \in RecordRow(r) : /\ row.refs = record[r].refs /\ row.status = "archived"
                                  /\ row.head = record[r].head /\ record' = [record EXCEPT ![r] = row]
  <2>1. [record[r] EXCEPT !.status = "archived"] \in RecordRow(r)
    BY <1>2 DEF RecordRow
  <2> QED BY <1>1, <1>2, <2>1 DEF RecordRow
<1>4. /\ RecordsTyped' /\ RefsExist' /\ NoRing' /\ OneFamily' /\ record'[r] = row
      /\ \A x \in Records : Exists(x)' <=> Exists(x)
      /\ \A x \in Records : Exists(x) => record'[x].refs = record[x].refs
      /\ \A x \in Records \ {r} : record'[x] = record[x]
  BY <1>1, <1>2, <1>3, ReferencesStay
<1>5. /\ ~Active(r)'
      /\ \A x \in Records \ {r} : Active(x)' <=> Active(x)
  BY <1>3, <1>4 DEF Active
<1>6. \A x \in Records : Active(x)' => ActiveReferences(record[x].refs)'
  <2> SUFFICES ASSUME NEW x \in Records, Active(x)', NEW f \in DOMAIN record'[x].refs,
                      NEW y, y = record'[x].refs[f], y # None
               PROVE  Active(y)'
    BY DEF ActiveReferences, Active, Exists
  <2>1. x # r /\ Active(x) /\ Exists(x) /\ record'[x] = record[x]
    BY <1>4, <1>5 DEF Active
  <2>2. Active(record[x].refs[f]) /\ record[x].refs[f] # r
    BY <1>1, <2>1 DEF RecordsFit, ActiveReferences, NotUsed, Uses
  <2>3. record[x].refs[f] \in Records
    BY <1>1, <2>1, RowFacts, RefsTyped DEF RecordsFit
  <2> QED BY <1>5, <2>1, <2>2, <2>3
<1>7. HeadsBelong'
  <2> SUFFICES ASSUME NEW u \in Of("units"), Exists(u)', NEW q, q = record'[u].head, q # None
               PROVE  Active(u)' /\ Active(q)' /\ record'[q].refs.unit = u
    BY DEF HeadsBelong, Active, Exists
  <2>1. u \in Records /\ Kind[u] = "units" /\ Exists(u) /\ record'[u].head = record[u].head
    BY <1>3, <1>4 DEF Of
  <2>2. PICK p : p = record[u].head
    OBVIOUS
  <2>3. Active(u) /\ Active(p) /\ record[p].refs.unit = u
    BY <1>1, <2>1, <2>2 DEF RecordsFit, HeadsBelong
  <2>4. p \in Records /\ Kind[p] = "positions" /\ Exists(p)
    BY <1>1, <2>1, <2>2, <2>3, RowFacts DEF RecordsFit, Of, Active
  <2>5. p # r
    <3>1. u \in Heads(p)
      BY <2>1, <2>2 DEF Heads, Of
    <3> QED BY <1>1, <2>4, <3>1 DEF Vacant
  <2>6. u # r
    <3>1. "unit" \in DOMAIN record[p].refs
      BY <1>1, <2>4, RowFacts, RefsTyped DEF RecordsFit
    <3>2. Uses(p, u)
      BY <2>3, <3>1 DEF Uses
    <3> QED BY <1>1, <2>4, <3>2 DEF NotUsed
  <2> QED BY <1>4, <1>5, <2>1, <2>2, <2>3, <2>4, <2>5, <2>6
<1>8. RecordsFit'
  BY <1>4, <1>6, <1>7 DEF RecordsFit
<1>9. PeopleFit'
  <2>1. \A e \in Employees, q \in Of("positions") : seat[e] = q /\ Active(q) => Active(q)'
    BY <1>1, <1>5 DEF Vacant, Of
  <2> QED BY <1>1, <2>1, PeopleStay DEF OrgInductive
<1>10. PeriodsFit'
  <2>1. ASSUME NEW m \in Current PROVE Active(m.unit)'
    <3>1. Active(m.unit) /\ m.unit \in Of("units")
      BY <2>1 DEF OrgInductive, PeriodsFit, Current, Period
    <3>2. m.unit # r
      BY <1>1, <2>1, <3>1 DEF Vacant, Of
    <3> QED BY <1>5, <3>1, <3>2 DEF Of
  <2> QED BY <1>1, <2>1, PeriodsStay DEF OrgInductive
<1>11. FormFits'
  BY <1>1, FormStays DEF OrgInductive
<1> QED BY <1>8, <1>9, <1>10, <1>11 DEF OrgInductive

LEMMA HeadKeeps ==
  ASSUME OrgInductive, NEW u \in Of("units") \cap open, NEW p \in Of("positions") \cup {None}, SetHeadPosition(u, p)
  PROVE  OrgInductive'
<1>1. /\ RecordsFit /\ u \in Records /\ Kind[u] = "units" /\ Active(u) /\ Exists(u)
      /\ p # None => Active(p) /\ record[p].refs.unit = u /\ p \in Records /\ Kind[p] = "positions"
      /\ record' = [record EXCEPT ![u] = [@ EXCEPT !.head = p]]
      /\ UNCHANGED <<employee, seat, periods, now, open>> /\ Bump(u)
  BY DEF OrgInductive, SetHeadPosition, Active, Of
<1>2. record[u] \in RecordRow(u)
  BY <1>1 DEF RecordsFit, RecordsTyped
<1>3. PICK row \in RecordRow(u) : /\ row.refs = record[u].refs /\ row.status = record[u].status
                                  /\ row.head = p /\ record' = [record EXCEPT ![u] = row]
  <2>1. [record[u] EXCEPT !.head = p] \in RecordRow(u)
    BY <1>2 DEF RecordRow
  <2> QED BY <1>1, <1>2, <2>1 DEF RecordRow
<1>4. /\ RecordsTyped' /\ RefsExist' /\ NoRing' /\ OneFamily' /\ record'[u] = row
      /\ \A x \in Records : Exists(x)' <=> Exists(x)
      /\ \A x \in Records : Exists(x) => record'[x].refs = record[x].refs
      /\ \A x \in Records \ {u} : record'[x] = record[x]
  BY <1>1, <1>3, ReferencesStay
<1>5. \A x \in Records : Active(x)' <=> Active(x)
  BY <1>1, <1>3, <1>4 DEF Active, Exists
<1>6. \A x \in Records : Active(x)' => ActiveReferences(record[x].refs)'
  <2> SUFFICES ASSUME NEW x \in Records, Active(x)', NEW f \in DOMAIN record'[x].refs,
                      NEW y, y = record'[x].refs[f], y # None
               PROVE  Active(y)'
    BY DEF ActiveReferences, Active, Exists
  <2>1. Active(x) /\ Exists(x) /\ record'[x].refs = record[x].refs
    BY <1>4, <1>5 DEF Active
  <2>2. Active(record[x].refs[f])
    BY <1>1, <2>1 DEF RecordsFit, ActiveReferences
  <2>3. record[x].refs[f] \in Records
    BY <1>1, <2>1, RowFacts, RefsTyped DEF RecordsFit
  <2> QED BY <1>5, <2>1, <2>2, <2>3
<1>7. HeadsBelong'
  <2> SUFFICES ASSUME NEW v \in Of("units"), Exists(v)', NEW q, q = record'[v].head, q # None
               PROVE  Active(v)' /\ Active(q)' /\ record'[q].refs.unit = v
    BY DEF HeadsBelong, Active, Exists
  <2>1. v \in Records /\ Exists(v)
    BY <1>4 DEF Of
  <2>2. CASE v = u
    BY <1>1, <1>3, <1>4, <1>5, <2>2 DEF Active
  <2>3. CASE v # u
    <3>1. record'[v].head = record[v].head
      BY <1>4, <2>1, <2>3
    <3>2. Active(v) /\ Active(record[v].head) /\ record[record[v].head].refs.unit = v
      BY <1>1, <2>1, <3>1 DEF RecordsFit, HeadsBelong
    <3>3. record[v].head \in Records /\ Exists(record[v].head)
      BY <1>1, <2>1, <3>1, <3>2, RowFacts DEF RecordsFit, Of, Active
    <3> QED BY <1>4, <1>5, <2>1, <3>1, <3>2, <3>3
  <2> QED BY <2>2, <2>3
<1>8. RecordsFit'
  BY <1>4, <1>6, <1>7 DEF RecordsFit
<1>9. PeopleFit'
  <2>1. \A e \in Employees, q \in Of("positions") : seat[e] = q /\ Active(q) => Active(q)'
    BY <1>5 DEF Of
  <2> QED BY <1>1, <2>1, PeopleStay DEF OrgInductive
<1>10. PeriodsFit'
  <2>1. \A m \in Current : Active(m.unit)'
    BY <1>5 DEF OrgInductive, PeriodsFit, Current, Period, Of
  <2> QED BY <1>1, <2>1, PeriodsStay DEF OrgInductive
<1>11. FormFits'
  BY <1>1, FormStays DEF OrgInductive
<1> QED BY <1>8, <1>9, <1>10, <1>11 DEF OrgInductive

\* Records that stay keep what is said of them.
LEMMA RecordsStay ==
  ASSUME RecordsFit, record' = record
  PROVE  RecordsFit' /\ \A x : Active(x)' <=> Active(x)
BY DEF RecordsFit, RecordsTyped, RefsExist, NoRing, HeadsBelong, OneFamily, ActiveReferences, Active, Exists, Above

\* A membership begins after those it follows ended.
LEMMA AddMemberKeeps ==
  ASSUME OrgInductive, NEW u \in Of("units"), NEW e \in Employees, NEW primary \in BOOLEAN, NEW from \in 0..MaxTime,
         AddMember(u, e, primary, from)
  PROVE  OrgInductive'
<1>1. PICK m : m = [unit |-> u, employee |-> e, primary |-> primary, from |-> from, to |-> None]
  OBVIOUS
<1>2. m \in Period /\ m.to = None /\ m.from = from /\ m.unit = u /\ m.employee = e /\ (m.primary <=> primary)
  BY <1>1 DEF Period
<1>3. /\ Active(u) /\ from <= now /\ periods' = periods \cup {m}
      /\ \A n \in periods \ Current : n.employee = e /\ n.unit = u => n.to <= from
      /\ \A n \in Current : n.employee = e => n.unit # u /\ ~(primary /\ n.primary)
      /\ UNCHANGED <<record, employee, seat, form, now, open>>
  BY <1>1 DEF AddMember
<1>4. RecordsFit' /\ \A x : Active(x)' <=> Active(x)
  BY <1>3, RecordsStay DEF OrgInductive
<1>5. PeopleFit' /\ FormFits'
  BY <1>3, <1>4, PeopleStay, FormStays DEF OrgInductive, PeopleFit, SeatsSound
<1>6. PeriodsDisjoint'
  <2> SUFFICES ASSUME NEW x \in periods', NEW y \in periods', x # y, x.employee = y.employee
               PROVE  /\ x.unit = y.unit => (x.to # None /\ x.to <= y.from) \/ (y.to # None /\ y.to <= x.from)
                      /\ ~(x.to = None /\ y.to = None /\ x.primary /\ y.primary)
    BY DEF PeriodsDisjoint, Current
  <2>1. CASE x \in periods /\ y \in periods
    BY <2>1 DEF OrgInductive, PeriodsFit, PeriodsDisjoint, Current
  <2>2. CASE x = m /\ y \in periods
    BY <1>2, <1>3, <2>2 DEF Current
  <2>3. CASE y = m /\ x \in periods
    BY <1>2, <1>3, <2>3 DEF Current
  <2> QED BY <1>3, <2>1, <2>2, <2>3
<1>7. PeriodsFit'
  BY <1>2, <1>3, <1>4, <1>6 DEF OrgInductive, PeriodsFit, Current
<1> QED BY <1>4, <1>5, <1>7 DEF OrgInductive

LEMMA RemoveMemberKeeps ==
  ASSUME OrgInductive, NEW m \in periods, RemoveMember(m)
  PROVE  OrgInductive'
<1>1. m \in Period /\ m.to = None /\ m.from <= now /\ now \in 0..MaxTime
  BY DEF OrgInductive, PeriodsFit, RemoveMember, Current
<1>2. PICK n \in Period : /\ n.to = now /\ n.from = m.from /\ n.unit = m.unit /\ n.employee = m.employee
                          /\ n = [m EXCEPT !.to = now]
  <2>1. [m EXCEPT !.to = now] \in Period
    BY <1>1 DEF Period
  <2> QED BY <1>1, <2>1 DEF Period
<1>3. periods' = (periods \ {m}) \cup {n} /\ UNCHANGED <<record, employee, seat, form, now, open>>
  BY <1>2 DEF RemoveMember
<1>4. RecordsFit' /\ \A x : Active(x)' <=> Active(x)
  BY <1>3, RecordsStay DEF OrgInductive
<1>5. PeopleFit' /\ FormFits'
  BY <1>3, <1>4, PeopleStay, FormStays DEF OrgInductive, PeopleFit, SeatsSound
<1>6. now # None
  BY <1>1, TimeAssumption
<1>7. PeriodsDisjoint'
  <2> SUFFICES ASSUME NEW x \in periods', NEW y \in periods', x # y, x.employee = y.employee
               PROVE  /\ x.unit = y.unit => (x.to # None /\ x.to <= y.from) \/ (y.to # None /\ y.to <= x.from)
                      /\ ~(x.to = None /\ y.to = None /\ x.primary /\ y.primary)
    BY DEF PeriodsDisjoint, Current
  <2>1. CASE x \in periods \ {m} /\ y \in periods \ {m}
    BY <2>1 DEF OrgInductive, PeriodsFit, PeriodsDisjoint, Current
  <2>2. ASSUME NEW z \in periods \ {m}, z.employee = m.employee, z.unit = m.unit
        PROVE  z.to # None /\ z.to <= m.from
    BY <1>1, <2>2 DEF OrgInductive, PeriodsFit, PeriodsDisjoint
  <2>3. CASE x = n /\ y \in periods \ {m}
    BY <1>2, <1>6, <2>2, <2>3
  <2>4. CASE y = n /\ x \in periods \ {m}
    BY <1>2, <1>6, <2>2, <2>4
  <2> QED BY <1>3, <2>1, <2>3, <2>4
<1>8. PeriodsFit'
  BY <1>1, <1>2, <1>3, <1>4, <1>6, <1>7 DEF OrgInductive, PeriodsFit, Current
<1> QED BY <1>4, <1>5, <1>8 DEF OrgInductive

LEMMA TimeKeeps == ASSUME OrgInductive, TimePasses PROVE OrgInductive'
<1>1. RecordsFit' /\ \A x : Active(x)' <=> Active(x)
  BY RecordsStay DEF OrgInductive, TimePasses
<1>2. PeopleFit' /\ FormFits'
  BY <1>1, PeopleStay, FormStays DEF OrgInductive, PeopleFit, SeatsSound, TimePasses
<1>3. PeriodsFit'
  <2>1. now \in 0..MaxTime /\ now' = now + 1 /\ now' \in 0..MaxTime /\ periods' = periods
    BY TimeAssumption DEF OrgInductive, PeriodsFit, TimePasses
  <2>2. \A m \in periods : m.from \in 0..MaxTime /\ m.from <= now'
    BY <2>1 DEF OrgInductive, PeriodsFit, Period
  <2> QED BY <1>1, <2>1, <2>2 DEF OrgInductive, PeriodsFit, PeriodsDisjoint, Current
<1> QED BY <1>1, <1>2, <1>3 DEF OrgInductive

\* What changes about people: an administrator other than the one concerned
\* stays, and who works keeps working.
LEMMA PersonWritten ==
  ASSUME OrgInductive, NEW e \in Employees, NEW row \in Employment, employee' = [employee EXCEPT ![e] = row],
         row.access = "active" => row.status = "active",
         (seat' = seat /\ (seat[e] # None => row.status = "active")) \/ seat' = [seat EXCEPT ![e] = None],
         (\E a \in Employees : Authorized(a) /\ a # e) \/ (Authorized(e) => row.status = "active" /\ row.access = "active"),
         UNCHANGED <<record, periods, now, open>>, form' = form \/ \E x \in open : Bump(x)
  PROVE  OrgInductive'
<1>1. RecordsFit' /\ \A x : Active(x)' <=> Active(x)
  BY RecordsStay DEF OrgInductive
<1>2. PeriodsFit' /\ FormFits'
  BY <1>1, PeriodsStay, FormStays DEF OrgInductive, PeriodsFit
<1>3. row # None
  BY RecordAssumption
<1>4. /\ employee \in [Employees -> {None} \cup Employment] /\ seat \in [Employees -> Of("positions") \cup {None}]
      /\ SeatsSound /\ SomeAdmin
  BY DEF OrgInductive, PeopleFit, AdminRemains
<1>5. /\ employee' \in [Employees -> {None} \cup Employment] /\ seat' \in [Employees -> Of("positions") \cup {None}]
      /\ employee'[e] = row /\ \A x \in Employees \ {e} : employee'[x] = employee[x]
  BY <1>4
<1>6. \A x \in Employees : seat'[x] # None => seat'[x] = seat[x] /\ (x = e => row.status = "active")
  BY <1>4
<1>7. SeatsSound'
  <2>1. ASSUME NEW x \in Employees, seat'[x] # None
        PROVE  Works(x)' /\ Active(seat[x])' /\ \A y \in Employees : seat'[y] = seat'[x] => y = x
    <3>1. seat[x] = seat'[x] /\ Works(x) /\ Active(seat[x]) /\ \A y \in Employees : seat[y] = seat[x] => y = x
      BY <1>4, <1>6, <2>1 DEF SeatsSound
    <3>2. Works(x)'
      BY <1>3, <1>5, <1>6, <2>1, <3>1 DEF Works
    <3> QED BY <1>1, <1>6, <2>1, <3>1, <3>2
  <2>2. ASSUME NEW x \in Employees, employee'[x] # None, employee'[x].access = "active" PROVE Works(x)'
    BY <1>3, <1>4, <1>5, <2>2 DEF SeatsSound, Works
  <2> QED BY <1>1, <2>1, <2>2 DEF SeatsSound
<1>8. AdminRemains'
  <2>1. PICK a \in Employees : Authorized(a) /\ (a = e => row.status = "active" /\ row.access = "active")
    BY <1>4 DEF SomeAdmin
  <2>2. Authorized(a)'
    BY <1>3, <1>5, <2>1 DEF Authorized, Works
  <2> QED BY <2>2 DEF AdminRemains, SomeAdmin
<1>9. PeopleFit'
  BY <1>5, <1>7, <1>8 DEF PeopleFit
<1> QED BY <1>1, <1>2, <1>9 DEF OrgInductive

LEMMA PersonTyped ==
  ASSUME OrgInductive, NEW e \in Employees, employee[e] # None
  PROVE  /\ employee[e] \in Employment /\ employee[e].status \in {"active", "inactive"}
         /\ employee[e].access \in {None, "active", "suspended"}
         /\ seat[e] # None => employee[e].status = "active"
         /\ employee[e].access = "active" => employee[e].status = "active"
BY DEF OrgInductive, PeopleFit, Employment, SeatsSound, Works

LEMMA PeopleKeep ==
  ASSUME OrgInductive, NEW e \in Employees \cap open
  PROVE  /\ CreateEmployee(e) => OrgInductive'
         /\ Reactivate(e) => OrgInductive'
         /\ \A a \in Employees : Deactivate(a, e) \/ Suspend(a, e) \/ Admit(a, e) => OrgInductive'
<1>1. ASSUME CreateEmployee(e) PROVE OrgInductive'
  <2>1. PICK row \in Employment : /\ row.status = "active" /\ row.access = None
                                  /\ employee' = [employee EXCEPT ![e] = row]
    BY <1>1 DEF CreateEmployee, Employment
  <2>2. None # "active" /\ ~Authorized(e) /\ seat' = seat
    BY <1>1, TimeAssumption DEF CreateEmployee, Authorized, Works
  <2> QED BY <1>1, <2>1, <2>2, PersonWritten DEF CreateEmployee
<1>2. ASSUME Reactivate(e) PROVE OrgInductive'
  <2>1. employee[e] \in Employment /\ employee[e] # None
    BY <1>2, PersonTyped DEF Reactivate
  <2>2. PICK row \in Employment : /\ row.status = "active" /\ row.access = employee[e].access
                                  /\ employee' = [employee EXCEPT ![e] = row]
    <3>1. [employee[e] EXCEPT !.status = "active"] \in Employment
      BY <2>1 DEF Employment
    <3> QED BY <1>2, <2>1, <3>1 DEF Reactivate, Employment
  <2> QED BY <1>2, <2>2, PersonWritten DEF Reactivate, Authorized
<1>3. ASSUME NEW a \in Employees, Deactivate(a, e) PROVE OrgInductive'
  <2>1. /\ employee[e] # None /\ Authorized(a) /\ a # e
        /\ employee[e].access \in {None, "active", "suspended"} /\ None # "active"
    BY <1>3, PersonTyped, TimeAssumption DEF Deactivate
  <2>2. PICK row \in Employment : /\ row.status = "inactive" /\ row.access # "active"
                                  /\ employee' = [employee EXCEPT ![e] = row]
    <3>1. Ended(employee[e].access) \in {None, "suspended"}
      BY <2>1 DEF Ended
    <3> QED BY <1>3, <2>1, <3>1 DEF Deactivate, Employment
  <2> QED BY <1>3, <2>1, <2>2, PersonWritten DEF Deactivate
<1>4. ASSUME NEW a \in Employees, Suspend(a, e) PROVE OrgInductive'
  <2>1. /\ employee[e] # None /\ Authorized(a) /\ a # e /\ employee[e] \in Employment
        /\ seat[e] # None => employee[e].status = "active"
    BY <1>4, PersonTyped DEF Suspend
  <2>2. PICK row \in Employment : /\ row.status = employee[e].status /\ row.access = "suspended"
                                  /\ employee' = [employee EXCEPT ![e] = row]
    <3>1. [employee[e] EXCEPT !.access = "suspended"] \in Employment
      BY <2>1 DEF Employment
    <3> QED BY <1>4, <2>1, <3>1 DEF Suspend, Employment
  <2> QED BY <1>4, <2>1, <2>2, PersonWritten DEF Suspend
<1>5. ASSUME NEW a \in Employees, Admit(a, e) PROVE OrgInductive'
  <2>1. /\ employee[e] # None /\ Authorized(a) /\ a # e /\ employee[e] \in Employment
        /\ employee[e].status = "active"
    BY <1>5, PersonTyped DEF Admit, Works
  <2>2. PICK row \in Employment : /\ row.status = employee[e].status /\ row.access = "active"
                                  /\ employee' = [employee EXCEPT ![e] = row]
    <3>1. [employee[e] EXCEPT !.access = "active"] \in Employment
      BY <2>1 DEF Employment
    <3> QED BY <1>5, <2>1, <3>1 DEF Admit, Employment
  <2> QED BY <1>5, <2>1, <2>2, PersonWritten DEF Admit
<1> QED BY <1>1, <1>2, <1>3, <1>4, <1>5

LEMMA AssignKeeps ==
  ASSUME OrgInductive, NEW e \in Employees \cap open, NEW p \in Of("positions") \cup {None}, AssignPosition(e, p)
  PROVE  OrgInductive'
<1>1. /\ Works(e) /\ seat' = [seat EXCEPT ![e] = p]
      /\ p # None => Active(p) /\ \A x \in Employees : seat[x] # p
      /\ UNCHANGED <<record, employee, periods, now, open>> /\ Bump(e)
  BY DEF AssignPosition
<1>2. RecordsFit' /\ \A x : Active(x)' <=> Active(x)
  BY <1>1, RecordsStay DEF OrgInductive
<1>3. PeriodsFit' /\ FormFits'
  BY <1>1, <1>2, PeriodsStay, FormStays DEF OrgInductive, PeriodsFit
<1>4. PeopleFit'
  <2>1. seat \in [Employees -> Of("positions") \cup {None}] /\ SeatsSound
    BY DEF OrgInductive, PeopleFit
  <2>2. seat' \in [Employees -> Of("positions") \cup {None}] /\ seat'[e] = p
        /\ \A x \in Employees \ {e} : seat'[x] = seat[x]
    BY <1>1, <2>1
  <2>3. ASSUME NEW x \in Employees, seat'[x] # None
        PROVE  Works(x)' /\ Active(seat[x])' /\ \A y \in Employees : seat'[y] = seat'[x] => y = x
    <3>1. Works(x)' /\ Active(seat'[x])
      BY <1>1, <2>1, <2>2, <2>3 DEF SeatsSound, Works
    <3>2. \A y \in Employees : seat'[y] = seat'[x] => y = x
      BY <1>1, <2>1, <2>2, <2>3 DEF SeatsSound
    <3>3. Active(seat[x])' <=> Active(seat'[x])
      BY <1>1 DEF Active, Exists
    <3> QED BY <3>1, <3>2, <3>3
  <2>4. SeatsSound'
    BY <1>1, <2>1, <2>3 DEF SeatsSound, Works
  <2> QED BY <1>1, <2>2, <2>4 DEF OrgInductive, PeopleFit, AdminRemains, SomeAdmin, Authorized, Works
<1> QED BY <1>2, <1>3, <1>4 DEF OrgInductive

LEMMA OpenKeeps == ASSUME OrgInductive, NEW x \in open, OpenRecord(x) PROVE OrgInductive'
<1>1. RecordsFit' /\ \A y : Active(y)' <=> Active(y)
  BY RecordsStay DEF OrgInductive, OpenRecord
<1>2. PeopleFit' /\ PeriodsFit'
  BY <1>1, PeopleStay, PeriodsStay DEF OrgInductive, PeopleFit, SeatsSound, PeriodsFit, OpenRecord
<1>3. FormFits'
  BY DEF OrgInductive, FormFits, NoLostUpdate, OpenRecord
<1> QED BY <1>1, <1>2, <1>3 DEF OrgInductive

LEMMA OrgStep ==
  ASSUME OrgInductive, [OrgNext]_orgVars
  PROVE  OrgInductive'
<1>1. CASE UNCHANGED orgVars
  <2>1. RecordsFit' /\ \A y : Active(y)' <=> Active(y)
    BY <1>1, RecordsStay DEF OrgInductive, orgVars
  <2>2. PeopleFit' /\ PeriodsFit' /\ FormFits'
    BY <1>1, <2>1, PeopleStay, PeriodsStay, FormStays DEF OrgInductive, PeopleFit, SeatsSound, PeriodsFit, orgVars
  <2> QED BY <2>1, <2>2 DEF OrgInductive
<1>2. CASE OrgNext
  <2>1. ASSUME NEW r \in Records \cap open,
               Archive(r) \/ \E refs \in References(r) : Create(r, refs) \/ Save(r, refs)
        PROVE  OrgInductive'
    BY <2>1, ArchiveKeeps, CreateKeeps, SaveKeeps
  <2>2. ASSUME NEW u \in Of("units") \cap open, NEW e \in Employees \cap open,
               \E primary \in BOOLEAN, from \in 0..MaxTime : AddMember(u, e, primary, from)
        PROVE  OrgInductive'
    BY <2>2, AddMemberKeeps
  <2>3. ASSUME NEW e \in Employees \cap open,
               CreateEmployee(e) \/ Reactivate(e) \/ \E p \in Of("positions") \cup {None} : AssignPosition(e, p)
        PROVE  OrgInductive'
    BY <2>3, PeopleKeep, AssignKeeps
  <2>4. ASSUME NEW e \in Employees \cap open, NEW a \in Employees, Deactivate(a, e) \/ Suspend(a, e) \/ Admit(a, e)
        PROVE  OrgInductive'
    BY <2>4, PeopleKeep
  <2> QED BY <1>2, <2>1, <2>2, <2>3, <2>4, OpenKeeps, HeadKeeps, RemoveMemberKeeps, TimeKeeps DEF OrgNext
<1> QED BY <1>1, <1>2

LEMMA OrgStart ==
  ASSUME OrgInit
  PROVE  OrgInductive
<1>1. PICK s \in Situations : /\ record = s.records /\ employee = s.people /\ open = s.open
                              /\ seat = [e \in Employees |-> None] /\ periods = {} /\ form = None /\ now = 0
  BY DEF OrgInit
<1>2. SoundStart(s)
  BY SituationAssumption
<1>3. RecordsFit
  <2>1. /\ record = [r \in Records |-> record[r]]
        /\ \A r \in Records : Exists(r) => \E refs \in References(r) :
             record[r] = New(refs) /\ \A f \in DOMAIN refs : refs[f] # None => Exists(refs[f])
    BY <1>1, <1>2 DEF SoundStart, Exists
  <2>2. \A r \in Records : Exists(r) =>
          /\ record[r] \in RecordRow(r) /\ record[r].head = None /\ Active(r)
          /\ \A f \in DOMAIN record[r].refs : record[r].refs[f] # None => Exists(record[r].refs[f])
    BY <2>1, NewRow DEF Active
  <2>3. RecordsTyped /\ RefsExist
    BY <2>1, <2>2 DEF RecordsTyped, RefsExist
  <2>4. \A r \in Records : Active(r) => ActiveReferences(record[r].refs)
    <3> SUFFICES ASSUME NEW r \in Records, Active(r), NEW f \in DOMAIN record[r].refs, record[r].refs[f] # None
                 PROVE  Active(record[r].refs[f])
      BY DEF ActiveReferences
    <3>1. Exists(r) /\ Exists(record[r].refs[f]) /\ record[r].refs[f] \in Records
      BY <2>2, <2>3, RowFacts, RefsTyped DEF Active
    <3> QED BY <2>2, <3>1
  <2>5. NoRing /\ OneFamily
    BY <1>1, <1>2 DEF SoundStart, NoRing, OneFamily, Exists, Above
  <2>6. HeadsBelong
    BY <2>2 DEF HeadsBelong, Of
  <2> QED BY <2>3, <2>4, <2>5, <2>6 DEF RecordsFit
<1>4. PeopleFit
  <2>1. employee \in [Employees -> {None} \cup Employment] /\ seat \in [Employees -> Of("positions") \cup {None}]
    BY <1>1, <1>2 DEF SoundStart
  <2>2. SeatsSound
    BY <1>1, <1>2 DEF SoundStart, SeatsSound, Works
  <2>3. PICK a \in Admins : employee[a] # None /\ employee[a].access = "active"
    BY <1>1, <1>2 DEF SoundStart
  <2>4. a \in Employees
    BY PeopleAssumption
  <2>5. Authorized(a)
    BY <2>2, <2>3, <2>4 DEF SeatsSound, Authorized
  <2> QED BY <2>1, <2>2, <2>4, <2>5 DEF PeopleFit, AdminRemains, SomeAdmin
<1>5. PeriodsFit
  BY <1>1, TimeAssumption DEF PeriodsFit, PeriodsDisjoint, Current
<1>6. FormFits
  BY <1>1, <1>2 DEF FormFits, NoLostUpdate, SoundStart
<1> QED BY <1>3, <1>4, <1>5, <1>6 DEF OrgInductive

LEMMA OrgImplies == ASSUME OrgInductive PROVE StructureSound
<1>1. OrgTypeOK
  BY DEF OrgTypeOK, OrgInductive, RecordsFit, RecordsTyped, Exists, PeopleFit, PeriodsFit, FormFits, Period
<1> QED BY <1>1 DEF StructureSound, OrgInductive, RecordsFit, PeopleFit, PeriodsFit, FormFits, ActiveOnActive

\* The structure of an organization is consistent at every commit, whoever
\* changes what at the same time, for any number of records, employees and
\* periods, provided it starts with sound records and an administrator.
THEOREM StructureSoundHolds == OrgSpec => []StructureSound
<1>1. OrgInit => OrgInductive
  BY OrgStart
<1>2. OrgInductive /\ [OrgNext]_orgVars => OrgInductive'
  BY OrgStep
<1>3. OrgInductive => StructureSound
  BY OrgImplies
<1> QED BY <1>1, <1>2, <1>3, PTL DEF OrgSpec

-----------------------------------------------------------------------------
(***************************************************************************)
(* Theorems about TenantDomainCache, for any hosts, organizations, lookups *)
(* and sizes of the cache.  A commit that the feed may still miss leaves   *)
(* the listener not caught up, and catching up forgets everything.         *)
(***************************************************************************)
\* What is remembered of a host, or what a lookup may leave behind.
Remembered(h, o) ==
  /\ Feed!CaughtUp => o = Owner(h)
  /\ h \in told => o # None

CacheFits(es) ==
  /\ es \in Seq(Entry)
  /\ \A i, j \in 1..Len(es) : es[i].host = es[j].host => i = j

AllRemembered(es) == \A i \in 1..Len(es) : Remembered(es[i].host, es[i].organization)

LookupFits(l) == l # None /\ l.current /\ l.answer # Unread => Remembered(l.host, l.answer.organization)

DomainInductive ==
  /\ DomainTypeOK
  /\ Feed!Live => domainLink.wire \in {"up", "quiet"}
  /\ \A h \in told : Owner(h) # None
  /\ AllRemembered(entries)
  /\ \A s \in Loads : LookupFits(loads[s])

\* A sequence without its k-th element.
LEMMA RemovedAt ==
  ASSUME NEW S, NEW es \in Seq(S), NEW k \in 1..Len(es)
  PROVE  /\ RemoveAt(es, k) \in Seq(S) /\ Len(RemoveAt(es, k)) = Len(es) - 1
         /\ \A i \in 1..(Len(es) - 1) : RemoveAt(es, k)[i] = IF i < k THEN es[i] ELSE es[i + 1]
<1>0. PICK n, c : n \in Nat /\ n = Len(es) /\ c = RemoveAt(es, k)
  OBVIOUS
<1>1. n \in Nat /\ k \in 1..n /\ \A i \in 1..n : es[i] \in S
  BY <1>0
<1>2. PICK a : a = SubSeq(es, 1, k - 1)
  OBVIOUS
<1>3. a \in Seq(S) /\ Len(a) = k - 1 /\ \A i \in 1..(k - 1) : a[i] = es[i]
  <2>1. \A i \in 1..(k - 1) : es[i] \in S
    BY <1>1
  <2>2. k - 1 \in Int /\ 1 \in Int
    BY <1>1
  <2>3. /\ SubSeq(es, 1, k - 1) \in Seq(S)
        /\ Len(SubSeq(es, 1, k - 1)) = IF 1 <= k - 1 THEN k - 1 - 1 + 1 ELSE 0
        /\ \A i \in 1..(k - 1 - 1 + 1) : SubSeq(es, 1, k - 1)[i] = es[1 + i - 1]
    BY <2>1, <2>2, SubSeqProperties
  <2> QED BY <1>1, <1>2, <2>3
<1>4. PICK b : b = SubSeq(es, k + 1, n)
  OBVIOUS
<1>5. b \in Seq(S) /\ Len(b) = n - k /\ \A i \in 1..(n - k) : b[i] = es[k + i]
  <2>1. \A i \in (k + 1)..n : es[i] \in S
    BY <1>1
  <2>2. k + 1 \in Int /\ n \in Int
    BY <1>1
  <2>3. /\ SubSeq(es, k + 1, n) \in Seq(S)
        /\ Len(SubSeq(es, k + 1, n)) = IF k + 1 <= n THEN n - (k + 1) + 1 ELSE 0
        /\ \A i \in 1..(n - (k + 1) + 1) : SubSeq(es, k + 1, n)[i] = es[k + 1 + i - 1]
    BY <2>1, <2>2, SubSeqProperties
  <2>4. n - (k + 1) + 1 = n - k /\ (k + 1 <= n \/ n - k = 0) /\ \A i \in 1..(n - k) : k + 1 + i - 1 = k + i
    BY <1>1
  <2>5. b \in Seq(S) /\ Len(b) = n - k
    BY <1>4, <2>3, <2>4
  <2>6. \A i \in 1..(n - k) : b[i] = es[k + i]
    BY <1>4, <2>3, <2>4
  <2> QED BY <2>5, <2>6
<1>6. c = a \o b
  BY <1>0, <1>2, <1>4 DEF RemoveAt
<1>7. /\ c \in Seq(S) /\ Len(c) = Len(a) + Len(b)
      /\ \A i \in 1..(Len(a) + Len(b)) : c[i] = IF i <= Len(a) THEN a[i] ELSE b[i - Len(a)]
  <2>1. a \in Seq(S) /\ b \in Seq(S)
    BY <1>3, <1>5
  <2>2. /\ a \o b \in Seq(S) /\ Len(a \o b) = Len(a) + Len(b)
        /\ \A i \in 1..(Len(a) + Len(b)) : (a \o b)[i] = IF i <= Len(a) THEN a[i] ELSE b[i - Len(a)]
    BY ONLY <2>1, ConcatProperties
  <2> QED BY <1>6, <2>2
<1>8. Len(a) = k - 1 /\ Len(b) = n - k /\ Len(c) = n - 1 /\ Len(a) + Len(b) = n - 1
  BY <1>1, <1>3, <1>5, <1>7
<1>9. ASSUME NEW i \in 1..(n - 1)
      PROVE  c[i] = IF i < k THEN es[i] ELSE es[i + 1]
  <2>0. c[i] = IF i <= k - 1 THEN a[i] ELSE b[i - (k - 1)]
    BY <1>1, <1>7, <1>8
  <2>1. CASE i < k
    BY <1>1, <1>3, <2>0, <2>1
  <2>2. CASE i >= k
    <3>1. i - (k - 1) \in 1..(n - k)
      BY <1>1, <2>2
    <3>2. b[i - (k - 1)] = es[k + (i - (k - 1))]
      BY <1>5, <3>1
    <3>3. k + (i - (k - 1)) = i + 1
      BY <1>1
    <3>4. ~(i <= k - 1) /\ ~(i < k)
      BY <1>1, <2>2
    <3> QED BY <2>0, <3>2, <3>3, <3>4
  <2> QED BY <2>1, <2>2
<1> QED BY <1>0, <1>7, <1>8, <1>9

\* A host has at most one entry, and a map without it has none.
LEMMA WithoutFits ==
  ASSUME CacheFits(entries), NEW h
  PROVE  /\ CacheFits(Without(h)) /\ Len(Without(h)) <= Len(entries)
         /\ (\E i \in 1..Len(entries) : entries[i].host = h) => Len(Without(h)) < Len(entries)
         /\ \A j \in 1..Len(Without(h)) :
              Without(h)[j].host # h /\ \E i \in 1..Len(entries) : Without(h)[j] = entries[i]
<1>1. entries \in Seq(Entry) /\ Len(entries) \in Nat
  BY DEF CacheFits
<1>2. CASE \A i \in 1..Len(entries) : entries[i].host # h
  <2>1. Without(h) = entries
    BY <1>2 DEF Without
  <2> QED BY <1>1, <1>2, <2>1
<1>3. CASE \E i \in 1..Len(entries) : entries[i].host = h
  <2>1. PICK at : at = {i \in 1..Len(entries) : entries[i].host = h}
    OBVIOUS
  <2>2. PICK k : k = CHOOSE i \in at : TRUE
    OBVIOUS
  <2>3. at # {} /\ k \in at
    BY <1>3, <2>1, <2>2
  <2>4. PICK c : c = RemoveAt(entries, k)
    OBVIOUS
  <2>5. Without(h) = c
    BY <2>1, <2>2, <2>3, <2>4 DEF Without
  <2>6. PICK n \in Nat : n = Len(entries) /\ k \in 1..n /\ entries[k].host = h
    BY <1>1, <2>1, <2>3
  <2>7. /\ c \in Seq(Entry) /\ Len(c) = n - 1
        /\ \A i \in 1..(n - 1) : c[i] = IF i < k THEN entries[i] ELSE entries[i + 1]
    BY <1>1, <2>4, <2>6, RemovedAt
  <2>8. ASSUME NEW i \in 1..(n - 1)
        PROVE  \E x \in 1..n : x # k /\ c[i] = entries[x] /\ x = IF i < k THEN i ELSE i + 1
    BY <2>6, <2>7
  <2>9. \A i, j \in 1..n : entries[i].host = entries[j].host => i = j
    BY <2>6 DEF CacheFits
  <2>10. \A i \in 1..(n - 1) : c[i].host # h
    BY <2>6, <2>8, <2>9
  <2>11. \A i, j \in 1..(n - 1) : c[i].host = c[j].host => i = j
    <3> SUFFICES ASSUME NEW i \in 1..(n - 1), NEW j \in 1..(n - 1), c[i].host = c[j].host PROVE i = j
      OBVIOUS
    <3>1. PICK x \in 1..n : c[i] = entries[x] /\ x = IF i < k THEN i ELSE i + 1
      BY <2>8
    <3>2. PICK y \in 1..n : c[j] = entries[y] /\ y = IF j < k THEN j ELSE j + 1
      BY <2>8
    <3>3. x = y
      BY <2>9, <3>1, <3>2
    <3> QED BY <2>6, <3>1, <3>2, <3>3
  <2> QED BY <2>5, <2>6, <2>7, <2>8, <2>10, <2>11 DEF CacheFits
<1> QED BY <1>2, <1>3

LEMMA CacheTyped ==
  ASSUME DomainInductive
  PROVE  /\ CacheFits(entries) /\ Len(entries) <= MAX_ENTRIES /\ Len(entries) \in Nat
         /\ \A i \in 1..Len(entries) : entries[i] \in Entry /\ Remembered(entries[i].host, entries[i].organization)
BY DEF DomainInductive, DomainTypeOK, CacheFits, AllRemembered

\* An entry at the end of a map without its host.
LEMMA AppendFits ==
  ASSUME DomainInductive, NEW h, NEW e \in Entry, e.host = h, Remembered(e.host, e.organization), NEW c, c = Append(Without(h), e)
  PROVE  CacheFits(c) /\ AllRemembered(c) /\ Len(c) \in Nat /\ Len(c) <= Len(entries) + 1
<1>1. PICK w : w = Without(h)
  OBVIOUS
<1>2. /\ CacheFits(w) /\ Len(w) <= Len(entries) /\ w \in Seq(Entry) /\ Len(w) \in Nat /\ Len(entries) \in Nat
      /\ \A j \in 1..Len(w) : w[j].host # h /\ Remembered(w[j].host, w[j].organization)
  <2>1. /\ CacheFits(w) /\ Len(w) <= Len(entries)
        /\ \A j \in 1..Len(w) : w[j].host # h /\ \E i \in 1..Len(entries) : w[j] = entries[i]
    BY <1>1, CacheTyped, WithoutFits
  <2>2. \A j \in 1..Len(w) : Remembered(w[j].host, w[j].organization)
    BY <2>1, CacheTyped
  <2> QED BY <2>1, <2>2, CacheTyped DEF CacheFits
<1>3. c \in Seq(Entry) /\ Len(c) = Len(w) + 1 /\ c[Len(w) + 1] = e /\ \A i \in 1..Len(w) : c[i] = w[i]
  BY <1>1, <1>2, AppendProperties
<1>4. \A i \in 1..Len(c) : i \in 1..Len(w) \/ i = Len(w) + 1
  BY <1>2, <1>3
<1>5. AllRemembered(c)
  BY <1>2, <1>3, <1>4 DEF AllRemembered
<1>6. \A i, j \in 1..Len(c) : c[i].host = c[j].host => i = j
  BY <1>2, <1>3, <1>4 DEF CacheFits
<1> QED BY <1>2, <1>3, <1>5, <1>6 DEF CacheFits

\* Tables, links and people told stay: what is remembered is what counts.
LEMMA MemoryStep ==
  ASSUME DomainInductive, UNCHANGED <<domains, suspended, verifying, told, domainLink, commits>>,
         CacheFits(entries'), AllRemembered(entries'), Len(entries') <= MAX_ENTRIES,
         loads' \in [Loads -> Load \cup {None}], \A s \in Loads : LookupFits(loads'[s])
  PROVE  DomainInductive'
<1>1. DomainTypeOK'
  BY DEF DomainInductive, DomainTypeOK, CacheFits
<1>2. Feed!CaughtUp' <=> Feed!CaughtUp
  BY DEF Feed!CaughtUp, Feed!Live
<1>3. \A h : Owner(h)' = Owner(h)
  BY DEF Owner
<1>4. \A h, o : Remembered(h, o)' <=> Remembered(h, o)
  BY <1>2, <1>3 DEF Remembered
<1>5. AllRemembered(entries)' /\ \A s \in Loads : LookupFits(loads[s])'
  BY <1>4 DEF AllRemembered, LookupFits
<1>6. (Feed!Live => domainLink.wire \in {"up", "quiet"})' /\ \A h \in told' : Owner(h)' # None
  BY <1>3 DEF DomainInductive, Feed!Live
<1> QED BY <1>1, <1>5, <1>6 DEF DomainInductive

\* A commit: the feed is not caught up with it.
LEMMA CommitStep ==
  ASSUME DomainInductive, Commit, UNCHANGED <<entries, loads>>, told' \subseteq told,
         domains' \in [Hosts -> Row \cup {None}], suspended' \subseteq Organizations, verifying' \subseteq Hosts,
         \A h \in told' : Owner(h)' # None
  PROVE  DomainInductive'
<1>1. /\ domainLink \in [at : {"off", "dialing", "live", "closed"}, wire : {"none", "up", "quiet", "lost"}, due : Nat]
      /\ domainLink' = IF domainLink.wire = "up" THEN [domainLink EXCEPT !.due = @ + 1] ELSE domainLink
      /\ commits \in 0..MaxCommits /\ commits' = commits + 1 /\ commits < MaxCommits
      /\ (domainLink.at = "live" => domainLink.wire \in {"up", "quiet"})
  BY DEF DomainInductive, DomainTypeOK, Commit, Feed!Announced, Feed!LinkType, Feed!Live
<1>2. domainLink' \in Feed!LinkType /\ (domainLink'.at = "live" => domainLink'.wire \in {"up", "quiet"})
      /\ ~(domainLink'.at = "live" /\ domainLink'.wire # "quiet" /\ domainLink'.due = 0)
  <2>1. CASE domainLink.wire = "up"
    <3>1. domainLink' = [domainLink EXCEPT !.due = domainLink.due + 1] /\ domainLink.due \in Nat
      BY <1>1, <2>1
    <3>2. domainLink'.due = domainLink.due + 1 /\ domainLink'.due # 0
      BY <1>1, <3>1
    <3> QED BY <1>1, <3>1, <3>2 DEF Feed!LinkType
  <2>2. CASE domainLink.wire # "up"
    BY <1>1, <2>2 DEF Feed!LinkType
  <2> QED BY <2>1, <2>2
<1>3. ~Feed!CaughtUp' /\ commits' \in 0..MaxCommits /\ (Feed!Live => domainLink.wire \in {"up", "quiet"})'
  BY <1>1, <1>2, CacheAssumption DEF Feed!CaughtUp, Feed!Live
<1>4. DomainTypeOK'
  BY <1>2, <1>3 DEF DomainInductive, DomainTypeOK
<1>5. \A h, o : Remembered(h, o) => Remembered(h, o)'
  BY <1>3 DEF Remembered
<1>6. AllRemembered(entries)' /\ \A s \in Loads : LookupFits(loads[s])'
  BY <1>5 DEF DomainInductive, AllRemembered, LookupFits
<1> QED BY <1>3, <1>4, <1>6 DEF DomainInductive

LEMMA CommitsKeep ==
  ASSUME DomainInductive, NEW h \in Hosts
  PROVE  /\ \A o \in Organizations : RegisterDomain(h, o) => DomainInductive'
         /\ \A here \in BOOLEAN : VerifyDomain(h, here) => DomainInductive'
         /\ SetPrimaryDomain(h) => DomainInductive'
<1>1. /\ domains \in [Hosts -> Row \cup {None}] /\ suspended \subseteq Organizations /\ verifying \subseteq Hosts
      /\ told \subseteq Hosts /\ None \notin Organizations \cup Row
      /\ \A g \in told : domains[g] # None /\ domains[g].verified /\ domains[g].organization \notin suspended
  BY CacheAssumption DEF DomainInductive, DomainTypeOK, Owner
<1>2. \A g \in Hosts : domains[g] # None => domains[g] \in Row /\ domains[g].organization \in Organizations
  BY <1>1 DEF Row
<1>3. ASSUME NEW o \in Organizations, RegisterDomain(h, o) PROVE DomainInductive'
  <2>1. PICK row \in Row : domains' = [domains EXCEPT ![h] = row]
    BY <1>3 DEF RegisterDomain, Row
  <2>2. domains' \in [Hosts -> Row \cup {None}] /\ \A g \in told : domains'[g] = domains[g]
    BY <1>1, <1>3, <2>1 DEF RegisterDomain
  <2>3. \A g \in told : Owner(g)' # None
    BY <1>1, <1>2, <1>3, <2>2 DEF Owner, RegisterDomain
  <2> QED BY <1>1, <1>3, <2>2, <2>3, CommitStep DEF RegisterDomain
<1>4. ASSUME NEW here \in BOOLEAN, VerifyDomain(h, here) PROVE DomainInductive'
  <2>1. domains[h] \in Row
    BY <1>2, <1>4 DEF VerifyDomain
  <2>2. PICK row \in Row : /\ row.verified /\ row.organization = domains[h].organization
                           /\ domains' = [domains EXCEPT ![h] = row]
    <3>1. [domains[h] EXCEPT !.verified = TRUE] \in Row
      BY <2>1 DEF Row
    <3> QED BY <1>4, <2>1, <3>1 DEF VerifyDomain, Row
  <2>3. domains' \in [Hosts -> Row \cup {None}] /\ domains'[h] = row /\ \A g \in Hosts \ {h} : domains'[g] = domains[g]
    BY <1>1, <2>2
  <2>4. \A g \in told : Owner(g)' # None
    BY <1>1, <1>2, <1>4, <2>2, <2>3 DEF Owner, VerifyDomain
  <2>5. verifying' \subseteq Hosts
    BY <1>1, <1>4 DEF VerifyDomain
  <2> QED BY <1>1, <1>4, <2>3, <2>4, <2>5, CommitStep DEF VerifyDomain
<1>5. ASSUME SetPrimaryDomain(h) PROVE DomainInductive'
  <2>1. ASSUME NEW g \in Hosts
        PROVE  /\ domains'[g] \in Row \cup {None}
               /\ domains[g] # None => domains'[g] # None /\ domains'[g].organization = domains[g].organization
                                       /\ (domains'[g].verified <=> domains[g].verified)
    <3>1. domains'[g] = IF domains[g] # None /\ domains[g].organization = domains[h].organization
                        THEN [domains[g] EXCEPT !.primary = (g = h)] ELSE domains[g]
      BY <1>5, <2>1 DEF SetPrimaryDomain
    <3>2. CASE domains[g] # None /\ domains[g].organization = domains[h].organization
      <4>1. domains[g] \in Row /\ domains'[g] = [domains[g] EXCEPT !.primary = (g = h)]
        BY <1>2, <3>1, <3>2
      <4>2. domains'[g] \in Row /\ domains'[g].organization = domains[g].organization
            /\ domains'[g].verified = domains[g].verified
        BY <4>1 DEF Row
      <4> QED BY <1>1, <4>2
    <3>3. CASE ~(domains[g] # None /\ domains[g].organization = domains[h].organization)
      BY <1>1, <3>1, <3>3
    <3> QED BY <3>2, <3>3
  <2>2. domains' \in [Hosts -> Row \cup {None}]
    BY <1>5, <2>1 DEF SetPrimaryDomain
  <2>3. \A g \in told : Owner(g)' # None
    BY <1>1, <1>2, <1>5, <2>1 DEF Owner, SetPrimaryDomain
  <2> QED BY <1>1, <1>5, <2>2, <2>3, CommitStep DEF SetPrimaryDomain
<1> QED BY <1>3, <1>4, <1>5

LEMMA StatusKeeps ==
  ASSUME DomainInductive, NEW o \in Organizations, SetOrganizationStatus(o)
  PROVE  DomainInductive'
<1>1. /\ domains \in [Hosts -> Row \cup {None}] /\ suspended \subseteq Organizations /\ verifying \subseteq Hosts
      /\ told \subseteq Hosts /\ None \notin Organizations \cup Row
      /\ \A g \in told : domains[g] # None /\ domains[g].verified /\ domains[g].organization \notin suspended
  BY CacheAssumption DEF DomainInductive, DomainTypeOK, Owner
<1>2. told' \subseteq told /\ suspended' \subseteq Organizations /\ domains' = domains /\ verifying' = verifying
  BY <1>1 DEF SetOrganizationStatus
<1>3. \A g \in told' : Owner(g)' # None
  <2> SUFFICES ASSUME NEW g \in told' PROVE Owner(g)' # None
    OBVIOUS
  <2>1. g \in told /\ domains[g].organization # o
    BY DEF SetOrganizationStatus
  <2>2. domains[g] \in Row /\ domains[g].organization \in Organizations
    BY <1>1, <2>1 DEF Row
  <2>3. domains[g].organization \notin suspended'
    BY <1>1, <2>1 DEF SetOrganizationStatus
  <2> QED BY <1>1, <1>2, <2>1, <2>2, <2>3 DEF Owner
<1> QED BY <1>1, <1>2, <1>3, CommitStep DEF SetOrganizationStatus

\* Nothing is remembered any more, whatever the feed does.
LEMMA InvalidateStep ==
  ASSUME DomainInductive, Invalidate, UNCHANGED <<domains, suspended, commits>>,
         told' \subseteq Hosts, verifying' \subseteq Hosts, \A h \in told' : Owner(h) # None,
         domainLink' \in Feed!LinkType, (Feed!Live => domainLink.wire \in {"up", "quiet"})'
  PROVE  DomainInductive'
<1>1. loads \in [Loads -> Load \cup {None}] /\ None \notin Load
  BY CacheAssumption DEF DomainInductive, DomainTypeOK
<1>2. ASSUME NEW s \in Loads PROVE loads'[s] \in Load \cup {None} /\ LookupFits(loads[s])'
  <2>1. CASE loads[s] = None
    BY <2>1, <1>2 DEF Invalidate, Running, LookupFits
  <2>2. CASE loads[s] # None
    <3>1. loads[s] \in Load /\ loads'[s] = [loads[s] EXCEPT !.current = FALSE]
      BY <1>1, <1>2, <2>2 DEF Invalidate, Running
    <3>2. loads'[s] \in Load /\ ~loads'[s].current
      BY <3>1 DEF Load
    <3> QED BY <3>2 DEF LookupFits
  <2> QED BY <2>1, <2>2
<1>3. loads' \in [Loads -> Load \cup {None}]
  BY <1>2 DEF Invalidate
<1>4. entries' = <<>> /\ Len(entries') = 0
  BY DEF Invalidate
<1>5. DomainTypeOK' /\ AllRemembered(entries)'
  BY <1>3, <1>4, CacheAssumption DEF DomainInductive, DomainTypeOK, AllRemembered
<1>6. \A h \in told' : Owner(h)' # None
  BY DEF Owner
<1> QED BY <1>2, <1>5, <1>6 DEF DomainInductive

LEMMA AnswerKeeps == ASSUME DomainInductive, NEW h \in Hosts, AnswerVerified(h) PROVE DomainInductive'
<1>1. /\ told' \subseteq Hosts /\ verifying' \subseteq Hosts /\ \A g \in told' : Owner(g) # None
      /\ UNCHANGED <<domains, suspended, domainLink, commits>> /\ Invalidate
      /\ domainLink' \in Feed!LinkType
  BY DEF DomainInductive, DomainTypeOK, AnswerVerified
<1>2. (Feed!Live => domainLink.wire \in {"up", "quiet"})'
  BY <1>1 DEF DomainInductive, Feed!Live
<1> QED BY <1>1, <1>2, InvalidateStep

LEMMA FromMemoryKeeps == ASSUME DomainInductive, NEW h \in Hosts, ResolveFromMemory(h) PROVE DomainInductive'
<1>1. PICK i \in 1..Len(entries) : entries[i].host = h /\ entries' = Append(Without(h), entries[i])
  BY DEF ResolveFromMemory, Use
<1>2. PICK w : w = Without(h)
  OBVIOUS
<1>3. CacheFits(entries') /\ AllRemembered(entries')
  BY <1>1, CacheTyped, AppendFits
<1>4. Len(w) < Len(entries) /\ w \in Seq(Entry)
  BY <1>1, <1>2, CacheTyped, WithoutFits DEF CacheFits
<1>5. Len(entries') <= MAX_ENTRIES
  BY <1>1, <1>2, <1>4, CacheTyped, CacheAssumption, AppendProperties
<1> QED BY <1>3, <1>5, MemoryStep DEF ResolveFromMemory, DomainInductive, DomainTypeOK

\* The lookups under way are few, and each has a slot.
LEMMA LoadsTyped ==
  ASSUME DomainInductive
  PROVE  /\ loads \in [Loads -> Load \cup {None}] /\ None \notin Load
         /\ \A s \in Loads : LookupFits(loads[s])
         /\ \A s \in Running : s \in Loads /\ loads[s] \in Load
BY CacheAssumption DEF DomainInductive, DomainTypeOK, Running

LEMMA ByLookupKeeps == ASSUME DomainInductive, NEW h \in Hosts, ResolveByLookup(h) PROVE DomainInductive'
<1>1. /\ CacheFits(entries') /\ Len(entries') <= Len(entries) /\ Len(entries) <= MAX_ENTRIES
      /\ \A j \in 1..Len(entries') : \E i \in 1..Len(entries) : entries'[j] = entries[i]
  <2>1. PICK w : w = Without(h)
    OBVIOUS
  <2>2. /\ CacheFits(w) /\ Len(w) <= Len(entries)
        /\ \A j \in 1..Len(w) : \E i \in 1..Len(entries) : w[j] = entries[i]
    BY <2>1, CacheTyped, WithoutFits
  <2>3. entries' = w /\ Len(entries) <= MAX_ENTRIES
    BY <2>1, CacheTyped DEF ResolveByLookup
  <2> QED BY <2>2, <2>3
<1>2. AllRemembered(entries') /\ Len(entries') <= MAX_ENTRIES
  <2>1. Len(entries') \in Nat /\ Len(entries) \in Nat /\ MAX_ENTRIES \in Nat
    BY <1>1, CacheTyped, CacheAssumption DEF CacheFits
  <2>2. ASSUME NEW j \in 1..Len(entries')
        PROVE  Remembered(entries'[j].host, entries'[j].organization)
    <3>1. PICK i \in 1..Len(entries) : entries'[j] = entries[i]
      BY <1>1
    <3> QED BY <3>1, CacheTyped
  <2> QED BY <1>1, <2>1, <2>2 DEF AllRemembered
<1>3. PICK s \in Loads : loads' = [loads EXCEPT ![s] = [host |-> h, current |-> TRUE, answer |-> Unread]]
  BY DEF ResolveByLookup
<1>4. PICK l \in Load : l.answer = Unread /\ loads' = [loads EXCEPT ![s] = l]
  BY <1>3 DEF Load
<1>5. loads' \in [Loads -> Load \cup {None}] /\ \A t \in Loads : LookupFits(loads'[t])
  BY <1>4, LoadsTyped DEF LookupFits
<1> QED BY <1>1, <1>2, <1>5, MemoryStep DEF ResolveByLookup

LEMMA ReadsKeeps == ASSUME DomainInductive, NEW s \in Loads, LookupReads(s) PROVE DomainInductive'
<1>1. loads[s] \in Load /\ loads[s].host \in Hosts /\ s \in Loads
  BY LoadsTyped DEF LookupReads, Load
<1>2. Owner(loads[s].host) \in Answer
  <2>1. domains[loads[s].host] \in Row \cup {None}
    BY <1>1 DEF DomainInductive, DomainTypeOK
  <2> QED BY <2>1 DEF Owner, Answer, Row
<1>3. PICK l \in Load : /\ l.host = loads[s].host /\ l.answer = Read(Owner(loads[s].host))
                        /\ loads' = [loads EXCEPT ![s] = l]
  <2>1. Read(Owner(loads[s].host)) \in {Read(o) : o \in Answer}
    BY <1>2
  <2>2. PICK r : r = Read(Owner(loads[s].host))
    OBVIOUS
  <2>3. [loads[s] EXCEPT !.answer = r] \in Load
    BY <1>1, <2>1, <2>2 DEF Load
  <2> QED BY <1>1, <2>2, <2>3 DEF Load, LookupReads
<1>4. LookupFits(l)
  <2>1. l.answer.organization = Owner(l.host)
    BY <1>3 DEF Read
  <2>2. l.host \in told => Owner(l.host) # None
    BY DEF DomainInductive
  <2> QED BY <2>1, <2>2 DEF LookupFits, Remembered
<1>5. loads' \in [Loads -> Load \cup {None}] /\ \A t \in Loads : LookupFits(loads'[t])
  BY <1>3, <1>4, LoadsTyped
<1>6. CacheFits(entries') /\ AllRemembered(entries') /\ Len(entries') <= MAX_ENTRIES
  BY CacheTyped DEF LookupReads, AllRemembered
<1> QED BY <1>5, <1>6, MemoryStep DEF LookupReads

LEMMA ReturnsKeeps == ASSUME DomainInductive, NEW s \in Loads, LookupReturns(s) PROVE DomainInductive'
<1>1. loads[s] \in Load /\ loads[s].answer # Unread /\ loads[s] # None
  BY LoadsTyped DEF LookupReturns, Running
<1>2. loads' \in [Loads -> Load \cup {None}] /\ \A t \in Loads : LookupFits(loads'[t])
  BY LoadsTyped DEF LookupReturns, LookupFits
<1>3. CacheFits(entries') /\ AllRemembered(entries') /\ Len(entries') <= MAX_ENTRIES
  <2>1. CASE ~(loads[s].current /\ Feed!Live)
    BY <2>1, CacheTyped DEF LookupReturns, AllRemembered
  <2>2. CASE loads[s].current /\ Feed!Live
    <3>1. PICK h, o : h = loads[s].host /\ o = loads[s].answer.organization
      OBVIOUS
    <3>2. h \in Hosts /\ o \in Answer
      <4>1. loads[s].answer \in {Read(x) : x \in Answer}
        BY <1>1 DEF Load
      <4> QED BY <1>1, <3>1, <4>1 DEF Load, Read
    <3>3. Remembered(h, o)
      BY <1>1, <2>2, <3>1, LoadsTyped DEF LookupFits
    <3>4. PICK e \in Entry : /\ e.host = h /\ e.organization = o
                             /\ e = [host |-> h, organization |-> o, left |-> IF o = None THEN NEGATIVE_TTL ELSE TTL]
      <4>1. (IF o = None THEN NEGATIVE_TTL ELSE TTL) \in 0..TTL
        BY CacheAssumption
      <4> QED BY <3>2, <4>1 DEF Entry
    <3>5. PICK c : c = Append(Without(h), e)
      OBVIOUS
    <3>6. CacheFits(c) /\ AllRemembered(c) /\ Len(c) \in Nat /\ Len(c) <= Len(entries) + 1
      BY <3>3, <3>4, <3>5, AppendFits
    <3>7. entries' = IF Len(c) > MAX_ENTRIES THEN Tail(c) ELSE c
      BY <2>2, <3>1, <3>4, <3>5 DEF LookupReturns, Remember
    <3>8. CASE Len(c) > MAX_ENTRIES
      <4>1. c \in Seq(Entry) /\ c # <<>> /\ Len(c) <= MAX_ENTRIES + 1 /\ MAX_ENTRIES \in Nat
        BY <3>6, <3>8, CacheTyped, CacheAssumption DEF CacheFits
      <4>2. /\ entries' \in Seq(Entry) /\ Len(entries') = Len(c) - 1
            /\ \A i \in 1..Len(entries') : entries'[i] = c[i + 1]
        BY <3>7, <3>8, <4>1, HeadTailProperties
      <4>3. \A i \in 1..Len(entries') : i + 1 \in 1..Len(c)
        BY <3>6, <4>2
      <4>4. AllRemembered(entries')
        BY <3>6, <4>2, <4>3 DEF AllRemembered
      <4>5. \A i, j \in 1..Len(entries') : entries'[i].host = entries'[j].host => i = j
        <5> SUFFICES ASSUME NEW i \in 1..Len(entries'), NEW j \in 1..Len(entries'), entries'[i].host = entries'[j].host
                     PROVE  i = j
          OBVIOUS
        <5>1. i + 1 = j + 1
          BY <3>6, <4>2, <4>3 DEF CacheFits
        <5> QED BY <3>6, <4>2, <5>1
      <4> QED BY <4>1, <4>2, <4>4, <4>5, <3>6 DEF CacheFits
    <3>9. CASE ~(Len(c) > MAX_ENTRIES)
      BY <3>6, <3>7, <3>9, CacheAssumption
    <3> QED BY <3>8, <3>9
  <2> QED BY <2>1, <2>2
<1> QED BY <1>2, <1>3, MemoryStep DEF LookupReturns

LEMMA FailsKeeps == ASSUME DomainInductive, NEW s \in Loads, LookupFails(s) PROVE DomainInductive'
<1>1. loads' \in [Loads -> Load \cup {None}] /\ \A t \in Loads : LookupFits(loads'[t])
  BY LoadsTyped DEF LookupFails, LookupFits
<1>2. CacheFits(entries') /\ AllRemembered(entries') /\ Len(entries') <= MAX_ENTRIES
  BY CacheTyped DEF LookupFails, AllRemembered
<1> QED BY <1>1, <1>2, MemoryStep DEF LookupFails

LEMMA AgeKeeps == ASSUME DomainInductive, Age PROVE DomainInductive'
<1>1. PICK n \in Nat : n = Len(entries)
  BY CacheTyped
<1>2. ASSUME NEW i \in 1..n
      PROVE  /\ entries'[i] \in Entry /\ entries'[i].host = entries[i].host
             /\ entries'[i].organization = entries[i].organization
  <2>1. entries[i] \in Entry /\ TTL \in Nat
    BY <1>1, CacheTyped, CacheAssumption
  <2>2. PICK left \in 0..TTL : entries'[i] = [entries[i] EXCEPT !.left = left]
    <3>1. entries'[i] = [entries[i] EXCEPT !.left = IF entries[i].left > 0 THEN entries[i].left - 1 ELSE 0]
      BY <1>1, <1>2 DEF Age
    <3>2. (IF entries[i].left > 0 THEN entries[i].left - 1 ELSE 0) \in 0..TTL
      BY <2>1 DEF Entry
    <3> QED BY <3>1, <3>2
  <2> QED BY <2>1, <2>2 DEF Entry
<1>3. entries' \in [1..n -> Entry]
  BY <1>1, <1>2 DEF Age
<1>4. entries' \in Seq(Entry) /\ Len(entries') = n
  BY <1>3
<1>5. CacheFits(entries') /\ AllRemembered(entries') /\ Len(entries') <= MAX_ENTRIES
  BY <1>1, <1>2, <1>4, CacheTyped DEF CacheFits, AllRemembered
<1>6. loads' \in [Loads -> Load \cup {None}] /\ \A t \in Loads : LookupFits(loads'[t])
  BY LoadsTyped DEF Age
<1> QED BY <1>5, <1>6, MemoryStep DEF Age

LEMMA FeedKeeps == ASSUME DomainInductive, FeedStep PROVE DomainInductive'
<1>1. /\ domainLink \in [at : {"off", "dialing", "live", "closed"}, wire : {"none", "up", "quiet", "lost"}, due : Nat]
      /\ domainLink.at = "live" => domainLink.wire \in {"up", "quiet"}
      /\ UNCHANGED <<domains, suspended, verifying, told, commits>>
      /\ told \subseteq Hosts /\ verifying \subseteq Hosts /\ \A h \in told : Owner(h) # None
  BY DEF DomainInductive, DomainTypeOK, Feed!LinkType, Feed!Live, FeedStep
<1>2. CASE /\ Feed!Start \/ Feed!Attach \/ Feed!Refused \/ Feed!LostEarly \/ Feed!Silenced
           /\ UNCHANGED <<entries, loads>>
  <2>1. /\ domainLink' \in [at : {"off", "dialing", "live", "closed"}, wire : {"none", "up", "quiet", "lost"}, due : Nat]
        /\ domainLink'.at = "live" => domainLink'.wire = "quiet"
    <3>1. CASE Feed!Start \/ Feed!Attach \/ Feed!Refused
      BY <1>1, <3>1 DEF Feed!Start, Feed!Attach, Feed!Refused, Feed!Off
    <3>2. CASE Feed!LostEarly \/ Feed!Silenced
      <4>1. CASE Feed!LostEarly
        <5>1. PICK l : l = domainLink
          OBVIOUS
        <5>2. domainLink' = [[l EXCEPT !.wire = "lost"] EXCEPT !.due = 0] /\ l.at = "dialing"
          BY <4>1, <5>1 DEF Feed!LostEarly
        <5> QED BY <1>1, <5>1, <5>2
      <4>2. CASE Feed!Silenced
        <5>1. PICK l : l = domainLink
          OBVIOUS
        <5>2. domainLink' = [[l EXCEPT !.wire = "quiet"] EXCEPT !.due = 0]
          BY <4>2, <5>1 DEF Feed!Silenced
        <5> QED BY <1>1, <5>1, <5>2
      <4> QED BY <3>2, <4>1, <4>2
    <3> QED BY <1>2, <3>1, <3>2
  <2>2. ~Feed!CaughtUp' /\ domainLink' \in Feed!LinkType /\ (Feed!Live => domainLink.wire \in {"up", "quiet"})'
    BY <2>1 DEF Feed!CaughtUp, Feed!Live, Feed!LinkType
  <2>3. DomainTypeOK'
    BY <1>1, <1>2, <2>2 DEF DomainInductive, DomainTypeOK
  <2>4. \A h, o : Remembered(h, o) => Remembered(h, o)'
    BY <1>1, <2>2 DEF Remembered
  <2>5. AllRemembered(entries)' /\ \A s \in Loads : LookupFits(loads[s])'
    BY <1>2, <2>4 DEF DomainInductive, AllRemembered, LookupFits
  <2>6. \A h \in told' : Owner(h)' # None
    BY <1>1 DEF Owner
  <2> QED BY <2>2, <2>3, <2>5, <2>6 DEF DomainInductive
<1>3. CASE (Feed!Ready \/ Feed!Notified \/ Feed!Lost \/ Feed!Closed) /\ Invalidate
  <2>1. /\ domainLink' \in [at : {"off", "dialing", "live", "closed"}, wire : {"none", "up", "quiet", "lost"}, due : Nat]
        /\ domainLink'.at = "live" => domainLink'.wire \in {"up", "quiet"}
    BY <1>1, <1>3 DEF Feed!Ready, Feed!Notified, Feed!Lost, Feed!Closed, Feed!Off
  <2>2. domainLink' \in Feed!LinkType /\ (Feed!Live => domainLink.wire \in {"up", "quiet"})'
    BY <2>1 DEF Feed!Live, Feed!LinkType
  <2> QED BY <1>1, <1>3, <2>2, InvalidateStep
<1> QED BY <1>2, <1>3 DEF FeedStep

LEMMA DomainStep == ASSUME DomainInductive, [DomainNext]_domainVars PROVE DomainInductive'
<1>1. CASE UNCHANGED domainVars
  <2>1. CacheFits(entries') /\ AllRemembered(entries') /\ Len(entries') <= MAX_ENTRIES
    BY <1>1, CacheTyped DEF domainVars, AllRemembered
  <2>2. loads' \in [Loads -> Load \cup {None}] /\ \A t \in Loads : LookupFits(loads'[t])
    BY <1>1, LoadsTyped DEF domainVars
  <2> QED BY <1>1, <2>1, <2>2, MemoryStep DEF domainVars
<1>2. CASE DomainNext
  BY <1>2, CommitsKeep, StatusKeeps, AnswerKeeps, FromMemoryKeeps, ByLookupKeeps, ReadsKeeps, ReturnsKeeps,
     FailsKeeps, AgeKeeps, FeedKeeps DEF DomainNext
<1> QED BY <1>1, <1>2

LEMMA DomainStart == ASSUME DomainInit PROVE DomainInductive
<1>1. domainLink = [at |-> "off", wire |-> "none", due |-> 0]
  BY DEF DomainInit, Feed!ListenerInit, Feed!Off
<1>2. DomainTypeOK
  BY <1>1, CacheAssumption DEF DomainInit, DomainTypeOK, Feed!LinkType
<1>3. \A s \in Loads : LookupFits(loads[s])
  BY DEF DomainInit, LookupFits
<1> QED BY <1>1, <1>2, <1>3 DEF DomainInit, DomainInductive, AllRemembered, Feed!Live

LEMMA DomainImplies == ASSUME DomainInductive PROVE DomainsSound
<1>1. FreshWhenCaughtUp /\ OwnVerificationSeen
  BY LoadsTyped, CacheTyped DEF FreshWhenCaughtUp, OwnVerificationSeen, LookupFits, Remembered, Running
<1> QED BY <1>1 DEF DomainsSound, DomainInductive

\* What an instance remembers of hosts is what the database says once every
\* notification has been handled, and an administrator who was told that a
\* domain is verified finds it recognized.
THEOREM DomainsSoundHolds == DomainSpec => []DomainsSound
<1>1. DomainInit => DomainInductive
  BY DomainStart
<1>2. DomainInductive /\ [DomainNext]_domainVars => DomainInductive'
  BY DomainStep
<1>3. DomainInductive => DomainsSound
  BY DomainImplies
<1> QED BY <1>1, <1>2, <1>3, PTL DEF DomainSpec

-----------------------------------------------------------------------------
(***************************************************************************)
(* Theorems about CatalogVersions, for any versions and listings.  What a  *)
(* load has read, with what is in memory, holds all that was heard of; and *)
(* all that a listing waiting for this load may not miss.                  *)
(***************************************************************************)
\* What will be in memory when the load under way is over.
Coming == rows \cup (loading.found \cap Supported)

Waits(m) == listings[m].at \in {"waits", "reloads"}

CatalogInductive ==
  /\ CatalogTypeOK /\ ListingComplete
  /\ Idle /\ ~stale => (registered \ unheard) \cap Supported \subseteq rows
  /\ Arrived /\ ~dirty => (registered \ unheard) \cap Supported \subseteq Coming
  /\ \A m \in Listings : Waits(m) =>
       /\ ~Idle
       /\ listings[m].must \subseteq registered \cap Supported
       /\ Arrived /\ ~dirty /\ (Channel!Live \/ listings[m].at = "reloads") => listings[m].must \subseteq Coming

LEMMA CatalogStart == ASSUME CatalogInit PROVE CatalogInductive
<1>1. /\ registered \in SUBSET Versions /\ rows = registered \cap Supported
      /\ loading = [at |-> "none", found |-> {}] /\ dirty = FALSE /\ stale = FALSE /\ unheard = {}
      /\ \A m \in Listings : listings[m] = [at |-> "new", must |-> {}, shown |-> {}]
      /\ listings \in [Listings -> Listing]
      /\ versionLink = [at |-> "off", wire |-> "none", due |-> 0]
  BY DEF CatalogInit, NoLoad, Listing, Channel!ListenerInit, Channel!Off
<1>2. CatalogTypeOK
  BY <1>1 DEF CatalogTypeOK, Channel!LinkType
<1>3. ListingComplete
  BY <1>1 DEF ListingComplete
<1> QED BY <1>1, <1>2, <1>3 DEF CatalogInductive, Idle, Arrived, Waits

\* What is known of the state in plain words.
LEMMA CatalogFacts ==
  ASSUME CatalogInductive
  PROVE  /\ registered \subseteq Versions /\ rows \subseteq registered \cap Supported /\ unheard \subseteq registered
         /\ loading \in [at : {"none", "asked", "read"}, found : SUBSET registered]
         /\ dirty \in BOOLEAN /\ stale \in BOOLEAN
         /\ listings \in [Listings -> Listing]
         /\ Coming \subseteq registered \cap Supported
         /\ versionLink \in [at : {"off", "dialing", "live", "closed"}, wire : {"none", "up", "quiet", "lost"}, due : Nat]
         /\ \A m \in Listings : listings[m].at = "shown" => listings[m].must \subseteq listings[m].shown
BY DEF CatalogInductive, CatalogTypeOK, Coming, Channel!LinkType, ListingComplete

\* A listing that is written.
LEMMA ListingForms ==
  ASSUME NEW l \in Listing, NEW vs \in SUBSET Versions
  PROVE  /\ Shown(l, vs) \in Listing /\ Shown(l, vs).at = "shown" /\ Shown(l, vs).must = l.must /\ Shown(l, vs).shown = vs
         /\ \A at \in {"new", "waits", "reloads", "shown", "failed"} :
              /\ [l EXCEPT !.at = at] \in Listing /\ [l EXCEPT !.at = at].at = at
              /\ [l EXCEPT !.at = at].must = l.must /\ [l EXCEPT !.at = at].shown = l.shown
         /\ [l EXCEPT !.must = vs] \in Listing /\ [l EXCEPT !.must = vs].must = vs
BY DEF Listing, Shown

LEMMA RegisterKeeps == ASSUME CatalogInductive, NEW v \in Versions, Register(v) PROVE CatalogInductive'
<1>1. /\ registered' = registered \cup {v} /\ unheard' = unheard \cup {v} /\ v \notin registered
      /\ rows' = rows /\ loading' = loading /\ dirty' = dirty /\ stale' = stale /\ listings' = listings
      /\ versionLink' = IF versionLink.wire = "up" THEN [versionLink EXCEPT !.due = @ + 1] ELSE versionLink
  BY DEF Register, Channel!Announced
<1>2. /\ versionLink' \in [at : {"off", "dialing", "live", "closed"}, wire : {"none", "up", "quiet", "lost"}, due : Nat]
      /\ versionLink'.at = versionLink.at
  BY <1>1, CatalogFacts
<1>3. loading' \in [at : {"none", "asked", "read"}, found : SUBSET registered']
  BY <1>1, CatalogFacts
<1>4. CatalogTypeOK' /\ ListingComplete'
  BY <1>1, <1>2, <1>3, CatalogFacts DEF CatalogTypeOK, ListingComplete, Channel!LinkType
<1>5. registered' \ unheard' = registered \ unheard
  BY <1>1
<1>6. Coming' = Coming /\ (Idle' <=> Idle) /\ (Arrived' <=> Arrived) /\ (Channel!Live' <=> Channel!Live)
      /\ \A m : Waits(m)' <=> Waits(m)
  BY <1>1, <1>2 DEF Coming, Idle, Arrived, Channel!Live, Waits
<1> QED BY <1>1, <1>4, <1>5, <1>6 DEF CatalogInductive

LEMMA FetchKeeps == ASSUME CatalogInductive, NEW v \in Versions, Fetch(v) PROVE CatalogInductive'
<1>1. /\ rows' = rows \cup {v} /\ v \in registered \cap Supported
      /\ UNCHANGED <<registered, loading, dirty, stale, listings, unheard, versionLink>>
  BY DEF Fetch
<1>2. CatalogTypeOK' /\ ListingComplete'
  BY <1>1, CatalogFacts DEF CatalogTypeOK, ListingComplete, Channel!LinkType
<1>3. Coming \subseteq Coming' /\ (Idle' <=> Idle) /\ (Arrived' <=> Arrived) /\ (Channel!Live' <=> Channel!Live)
      /\ \A m : Waits(m)' <=> Waits(m)
  BY <1>1 DEF Coming, Idle, Arrived, Channel!Live, Waits
<1> QED BY <1>1, <1>2, <1>3 DEF CatalogInductive

LEMMA LoadReadsKeeps == ASSUME CatalogInductive, LoadReads PROVE CatalogInductive'
<1>1. /\ loading'.at = "read" /\ loading'.found = registered /\ loading.at = "asked"
      /\ loading' \in [at : {"none", "asked", "read"}, found : SUBSET registered]
      /\ UNCHANGED <<registered, rows, dirty, stale, listings, unheard, versionLink>>
  BY DEF LoadReads
<1>2. CatalogTypeOK' /\ ListingComplete'
  BY <1>1, CatalogFacts DEF CatalogTypeOK, ListingComplete, Channel!LinkType
<1>3. registered \cap Supported \subseteq Coming' /\ ~Idle' /\ ~Idle /\ \A m : Waits(m)' <=> Waits(m)
  BY <1>1 DEF Coming, Idle, Waits
<1> QED BY <1>1, <1>2, <1>3 DEF CatalogInductive

LEMMA LoadAgainKeeps == ASSUME CatalogInductive, LoadAgain PROVE CatalogInductive'
<1>1. /\ rows' = Coming /\ loading' = [at |-> "asked", found |-> {}] /\ dirty' = FALSE
      /\ UNCHANGED <<registered, stale, listings, unheard, versionLink>> /\ loading.at = "read"
  BY DEF LoadAgain, Add, Coming, Asked, Arrived
<1>2. CatalogTypeOK' /\ ListingComplete'
  BY <1>1, CatalogFacts DEF CatalogTypeOK, ListingComplete, Channel!LinkType
<1>3. ~Idle' /\ ~Idle /\ ~Arrived' /\ \A m : Waits(m)' <=> Waits(m)
  BY <1>1 DEF Idle, Arrived, Waits
<1> QED BY <1>1, <1>2, <1>3 DEF CatalogInductive

LEMMA LoadDoneKeeps == ASSUME CatalogInductive, LoadDone PROVE CatalogInductive'
<1>1. /\ rows' = Coming /\ stale' = FALSE /\ dirty' \in BOOLEAN /\ loading.at = "read" /\ ~dirty
      /\ UNCHANGED <<registered, unheard, versionLink>>
      /\ loading' = IF \E m \in Listings : listings'[m].at = "reloads" THEN Asked ELSE NoLoad
  BY DEF LoadDone, Add, Coming, Arrived
<1>2. ASSUME NEW m \in Listings
      PROVE  /\ listings'[m] \in Listing
             /\ listings'[m].at = "shown" => listings'[m].must \subseteq listings'[m].shown
             /\ listings'[m].at # "waits"
             /\ listings'[m].at = "reloads" => listings'[m].must = listings[m].must /\ Waits(m)
  <2>0. PICK l \in Listing : l = listings[m]
    BY CatalogFacts
  <2>1. Coming \in SUBSET Versions /\ {} \in SUBSET Versions
    BY CatalogFacts
  <2>2. listings'[m] = CASE listings[m].at = "reloads" -> Shown(listings[m], Coming)
                         [] listings[m].at = "waits" /\ Channel!Live -> Shown(listings[m], Coming)
                         [] listings[m].at = "waits" /\ ~Channel!Live -> [listings[m] EXCEPT !.at = "reloads"]
                         [] OTHER -> listings[m]
    BY <1>1, <1>2 DEF LoadDone
  <2>3. CASE listings[m].at = "reloads" \/ (listings[m].at = "waits" /\ Channel!Live)
    <3>1. listings'[m] = Shown(l, Coming)
      BY <2>0, <2>2, <2>3
    <3>2. listings[m].must \subseteq Coming
      BY <1>1, <2>3 DEF CatalogInductive, Arrived, Waits
    <3>3. PICK vs \in SUBSET Versions : vs = Coming
      BY <2>1
    <3>4. listings'[m] = [[l EXCEPT !.at = "shown"] EXCEPT !.shown = vs] /\ l.must \subseteq vs
      BY <2>0, <3>1, <3>2, <3>3 DEF Shown
    <3> QED BY <3>4 DEF Listing
  <2>4. CASE listings[m].at = "waits" /\ ~Channel!Live
    <3>1. listings'[m] = [l EXCEPT !.at = "reloads"]
      BY <2>0, <2>2, <2>4
    <3> QED BY <2>0, <2>4, <3>1 DEF Waits, Listing
  <2>5. CASE listings[m].at \notin {"waits", "reloads"}
    <3>1. listings'[m] = listings[m]
      BY <2>2, <2>5
    <3> QED BY <2>1, <2>5, <3>1, CatalogFacts
  <2> QED BY <2>3, <2>4, <2>5
<1>3. listings' \in [Listings -> Listing]
  BY <1>2 DEF LoadDone
<1>4. loading' \in [at : {"none", "asked", "read"}, found : SUBSET registered] /\ ~Arrived'
      /\ \A m \in Listings : listings'[m].at = "reloads" => ~Idle'
  BY <1>1 DEF Asked, NoLoad, Arrived, Idle
<1>5. CatalogTypeOK' /\ ListingComplete'
  BY <1>1, <1>2, <1>3, <1>4, CatalogFacts DEF CatalogTypeOK, ListingComplete, Channel!LinkType
<1>6. (registered' \ unheard') \cap Supported \subseteq rows'
  BY <1>1 DEF CatalogInductive, Arrived
<1>7. ASSUME NEW m \in Listings, Waits(m)' PROVE ~Idle' /\ listings'[m].must \subseteq registered' \cap Supported
  BY <1>1, <1>2, <1>4, <1>7 DEF Waits, CatalogInductive
<1> QED BY <1>4, <1>5, <1>6, <1>7 DEF CatalogInductive

LEMMA LoadFailsKeeps == ASSUME CatalogInductive, LoadFails PROVE CatalogInductive'
<1>1. /\ stale' = TRUE /\ ~Idle /\ UNCHANGED <<registered, rows, unheard, versionLink>>
      /\ \A m \in Listings : listings[m].at = "waits" => loading' = Asked
      /\ loading' \in {Asked, NoLoad} /\ dirty' \in BOOLEAN
  <2>1. PICK waiting : /\ waiting = {m \in Listings : listings[m].at = "waits"}
                       /\ loading' = IF waiting # {} THEN Asked ELSE NoLoad
                       /\ dirty' = IF waiting # {} THEN Cardinality(waiting) > 1 ELSE dirty
    BY DEF LoadFails
  <2>2. dirty' \in BOOLEAN
    <3>1. (Cardinality(waiting) > 1) \in BOOLEAN /\ dirty \in BOOLEAN
      BY CatalogFacts
    <3>2. CASE waiting = {}
      BY <2>1, <3>1, <3>2
    <3>3. CASE waiting # {}
      BY <2>1, <3>1, <3>3
    <3> QED BY <3>2, <3>3
  <2> QED BY <2>1, <2>2 DEF LoadFails
<1>2. ASSUME NEW m \in Listings
      PROVE  /\ listings'[m] \in Listing
             /\ listings'[m].at = "shown" => listings'[m].must \subseteq listings'[m].shown
             /\ listings'[m].at # "waits"
             /\ listings'[m].at = "reloads" => listings'[m].must = listings[m].must /\ listings[m].at = "waits"
  <2>1. PICK l \in Listing : l = listings[m]
    BY CatalogFacts
  <2>2. listings'[m] = CASE listings[m].at = "reloads" -> [listings[m] EXCEPT !.at = "failed"]
                         [] listings[m].at = "waits" -> [listings[m] EXCEPT !.at = "reloads"]
                         [] OTHER -> listings[m]
    BY <1>2 DEF LoadFails
  <2>3. CASE listings[m].at = "reloads"
    <3>1. listings'[m] = [l EXCEPT !.at = "failed"]
      BY <2>1, <2>2, <2>3
    <3> QED BY <2>1, <3>1 DEF Listing
  <2>4. CASE listings[m].at = "waits"
    <3>1. listings'[m] = [l EXCEPT !.at = "reloads"]
      BY <2>1, <2>2, <2>4
    <3> QED BY <2>1, <2>4, <3>1 DEF Listing
  <2>5. CASE listings[m].at \notin {"waits", "reloads"}
    <3>1. listings'[m] = listings[m]
      BY <2>2, <2>5
    <3> QED BY <2>1, <2>5, <3>1, CatalogFacts
  <2> QED BY <2>3, <2>4, <2>5
<1>3. listings' \in [Listings -> Listing]
  BY <1>2 DEF LoadFails
<1>4. loading' \in [at : {"none", "asked", "read"}, found : SUBSET registered] /\ ~Arrived'
      /\ (loading' = Asked => ~Idle')
  BY <1>1 DEF Asked, NoLoad, Arrived, Idle
<1>5. CatalogTypeOK' /\ ListingComplete'
  BY <1>1, <1>2, <1>3, <1>4, CatalogFacts DEF CatalogTypeOK, ListingComplete, Channel!LinkType
<1>6. ASSUME NEW m \in Listings, Waits(m)' PROVE ~Idle' /\ listings'[m].must \subseteq registered' \cap Supported
  <2>1. listings'[m].must = listings[m].must /\ listings[m].at = "waits"
    BY <1>2, <1>6 DEF Waits
  <2> QED BY <1>1, <1>4, <2>1 DEF Waits, CatalogInductive
<1> QED BY <1>1, <1>4, <1>5, <1>6 DEF CatalogInductive

LEMMA AskKeepsCatalog == ASSUME CatalogInductive, NEW m \in Listings, AskListing(m) PROVE CatalogInductive'
<1>1. PICK must : must = ReloadDue \cap Supported
  OBVIOUS
<1>2. /\ must \subseteq registered \cap Supported
      /\ Channel!Live => must \subseteq (registered \ unheard) \cap Supported
  BY <1>1, CatalogFacts DEF ReloadDue
<1>3. PICK l \in Listing : l.must = must /\ l = [listings[m] EXCEPT !.must = ReloadDue \cap Supported]
  <2>1. PICK was \in Listing : was = listings[m]
    BY CatalogFacts
  <2>2. must \in SUBSET Versions
    BY <1>2, CatalogFacts
  <2>3. [was EXCEPT !.must = must] \in Listing /\ [was EXCEPT !.must = must].must = must
    BY <2>2 DEF Listing
  <2> QED BY <1>1, <2>1, <2>3
<1>4. /\ UNCHANGED <<registered, rows, stale, unheard, versionLink>>
      /\ listings' = [listings EXCEPT ![m] = IF ~Idle THEN [l EXCEPT !.at = "waits"]
                                             ELSE IF Channel!Live /\ ~stale THEN Shown(l, rows)
                                             ELSE [l EXCEPT !.at = "reloads"]]
      /\ IF Idle /\ ~(Channel!Live /\ ~stale) THEN dirty' = FALSE /\ loading' = Asked ELSE UNCHANGED <<loading, dirty>>
  BY <1>3 DEF AskListing, Reload
<1>5. PICK n : n = listings'[m]
  OBVIOUS
<1>6. /\ n \in Listing /\ n.must = must
      /\ n.at \in {"waits", "reloads", "shown"}
      /\ n.at = "waits" => ~Idle /\ UNCHANGED <<loading, dirty>>
      /\ n.at = "reloads" => loading' = Asked
      /\ n.at = "shown" => n.must \subseteq n.shown
      /\ listings' = [listings EXCEPT ![m] = n]
  <2>1. listings' = [listings EXCEPT ![m] = n]
    BY <1>4, <1>5, CatalogFacts
  <2>2. CASE ~Idle
    <3>1. n = [l EXCEPT !.at = "waits"] /\ UNCHANGED <<loading, dirty>>
      BY <1>4, <1>5, <2>2, CatalogFacts
    <3> QED BY <1>3, <2>1, <2>2, <3>1, ListingForms
  <2>3. CASE Idle /\ Channel!Live /\ ~stale
    <3>0. rows \in SUBSET Versions
      BY CatalogFacts
    <3>1. n = Shown(l, rows)
      BY <1>4, <1>5, <2>3, CatalogFacts
    <3>2. must \subseteq rows
      BY <1>2, <2>3 DEF CatalogInductive
    <3>3. n = [[l EXCEPT !.at = "shown"] EXCEPT !.shown = rows]
      BY <3>1 DEF Shown
    <3> QED BY <1>3, <2>1, <3>0, <3>2, <3>3 DEF Listing
  <2>4. CASE Idle /\ ~(Channel!Live /\ ~stale)
    <3>1. n = [l EXCEPT !.at = "reloads"] /\ loading' = Asked
      BY <1>4, <1>5, <2>4, CatalogFacts
    <3> QED BY <1>3, <2>1, <3>1, ListingForms
  <2> QED BY <2>2, <2>3, <2>4
<1>7. listings' \in [Listings -> Listing] /\ listings'[m] = n /\ \A x \in Listings \ {m} : listings'[x] = listings[x]
  BY <1>6, CatalogFacts
<1>8. \/ UNCHANGED <<loading, dirty>>
      \/ Idle /\ loading' = Asked /\ dirty' = FALSE
  BY <1>4
<1>9. loading' \in [at : {"none", "asked", "read"}, found : SUBSET registered] /\ dirty' \in BOOLEAN
  <2>1. [at |-> "asked", found |-> {}] \in [at : {"none", "asked", "read"}, found : SUBSET registered]
    OBVIOUS
  <2> QED BY <1>8, <2>1, CatalogFacts DEF Asked
<1>10. CatalogTypeOK' /\ ListingComplete'
  BY <1>4, <1>6, <1>7, <1>9, CatalogFacts DEF CatalogTypeOK, ListingComplete, Channel!LinkType
<1>11. (Channel!Live' <=> Channel!Live)
  BY <1>4 DEF Channel!Live
<1>12. CASE UNCHANGED <<loading, dirty>>
  <2>1. Coming' = Coming /\ (Idle' <=> Idle) /\ (Arrived' <=> Arrived)
    BY <1>4, <1>12 DEF Coming, Idle, Arrived
  <2>2. ASSUME NEW x \in Listings, Waits(x)'
        PROVE  /\ ~Idle /\ listings'[x].must \subseteq registered \cap Supported
               /\ Arrived /\ ~dirty /\ (Channel!Live \/ listings'[x].at = "reloads") => listings'[x].must \subseteq Coming
    <3>1. CASE x # m
      BY <1>7, <2>2, <3>1 DEF Waits, CatalogInductive
    <3>2. CASE x = m
      <4>1. n.at # "reloads"
        <5>1. ASSUME loading = Asked, loading' = loading, Idle PROVE FALSE
          BY <5>1 DEF Asked, Idle
        <5>2. n.at = "reloads" => Idle
          BY <1>3, <1>4, <1>5, <1>7, ListingForms, CatalogFacts
        <5> QED BY <1>6, <1>12, <5>1, <5>2
      <4>2. n.at = "waits" /\ ~Idle
        BY <1>6, <1>7, <2>2, <3>2, <4>1 DEF Waits
      <4> QED BY <1>2, <1>6, <1>7, <3>2, <4>1, <4>2 DEF CatalogInductive
    <3> QED BY <3>1, <3>2
  <2> QED BY <1>4, <1>10, <1>11, <1>12, <2>1, <2>2 DEF CatalogInductive
<1>13. CASE Idle /\ loading' = Asked /\ dirty' = FALSE
  <2>1. ~Idle' /\ ~Arrived'
    BY <1>13 DEF Asked, Idle, Arrived
  <2>2. ASSUME NEW x \in Listings, Waits(x)' PROVE listings'[x].must \subseteq registered \cap Supported
    <3>1. CASE x # m
      BY <1>7, <2>2, <3>1 DEF Waits, CatalogInductive
    <3>2. CASE x = m
      BY <1>2, <1>6, <1>7, <3>2
    <3> QED BY <3>1, <3>2
  <2> QED BY <1>4, <1>10, <2>1, <2>2 DEF CatalogInductive
<1> QED BY <1>8, <1>12, <1>13

LEMMA ChannelKeeps == ASSUME CatalogInductive, ChannelStep PROVE CatalogInductive'
<1>1. /\ versionLink \in [at : {"off", "dialing", "live", "closed"}, wire : {"none", "up", "quiet", "lost"}, due : Nat]
      /\ UNCHANGED <<registered, rows, stale, listings>>
  BY CatalogFacts DEF ChannelStep
<1>2. CASE /\ \/ Channel!Start \/ Channel!Attach \/ Channel!Refused \/ Channel!LostEarly
              \/ Channel!Silenced \/ Channel!Lost \/ Channel!Closed
           /\ UNCHANGED <<registered, rows, loading, dirty, stale, listings, unheard>>
  <2>1. /\ versionLink' \in [at : {"off", "dialing", "live", "closed"}, wire : {"none", "up", "quiet", "lost"}, due : Nat]
        /\ versionLink'.at = "live" => versionLink.at = "live"
    <3>1. CASE Channel!Start \/ Channel!Attach
      BY <1>1, <3>1 DEF Channel!Start, Channel!Attach
    <3>2. CASE Channel!Refused \/ Channel!Lost \/ Channel!Closed
      BY <1>1, <3>2 DEF Channel!Refused, Channel!Lost, Channel!Closed, Channel!Off
    <3>3. CASE Channel!LostEarly \/ Channel!Silenced
      <4>1. PICK l, wire : l = versionLink /\ wire \in {"lost", "quiet"}
                          /\ versionLink' = [[l EXCEPT !.wire = wire] EXCEPT !.due = 0]
        BY <3>3 DEF Channel!LostEarly, Channel!Silenced
      <4> QED BY <1>1, <4>1
    <3> QED BY <1>2, <3>1, <3>2, <3>3
  <2>2. CatalogTypeOK' /\ ListingComplete' /\ (Channel!Live' => Channel!Live)
    BY <1>2, <2>1, CatalogFacts DEF CatalogTypeOK, ListingComplete, Channel!LinkType, Channel!Live
  <2>3. Coming' = Coming /\ (Idle' <=> Idle) /\ (Arrived' <=> Arrived) /\ \A m : Waits(m)' <=> Waits(m)
    BY <1>2 DEF Coming, Idle, Arrived, Waits
  <2> QED BY <1>2, <2>2, <2>3 DEF CatalogInductive
<1>3. CASE (Channel!Ready \/ Channel!Notified) /\ Reload /\ unheard' = {}
  <2>1. versionLink' \in [at : {"off", "dialing", "live", "closed"}, wire : {"none", "up", "quiet", "lost"}, due : Nat]
    BY <1>1, <1>3 DEF Channel!Ready, Channel!Notified
  <2>2. /\ ~Idle' /\ (dirty' <=> ~Idle) /\ dirty' \in BOOLEAN
        /\ loading' \in [at : {"none", "asked", "read"}, found : SUBSET registered]
        /\ Arrived' => dirty'
    BY <1>3, CatalogFacts DEF Reload, Idle, Arrived, Asked
  <2>3. CatalogTypeOK' /\ ListingComplete'
    BY <1>1, <1>3, <2>1, <2>2, CatalogFacts DEF CatalogTypeOK, ListingComplete, Channel!LinkType
  <2>4. \A m : Waits(m)' <=> Waits(m)
    BY <1>1 DEF Waits
  <2> QED BY <1>1, <2>2, <2>3, <2>4 DEF CatalogInductive
<1> QED BY <1>2, <1>3 DEF ChannelStep

LEMMA CatalogStep == ASSUME CatalogInductive, [CatalogNext]_catalogVars PROVE CatalogInductive'
<1>1. CASE UNCHANGED catalogVars
  <2>1. CatalogTypeOK' /\ ListingComplete'
    BY <1>1, CatalogFacts DEF catalogVars, CatalogTypeOK, ListingComplete, Channel!LinkType
  <2>2. Coming' = Coming /\ (Idle' <=> Idle) /\ (Arrived' <=> Arrived) /\ (Channel!Live' <=> Channel!Live)
        /\ \A m : Waits(m)' <=> Waits(m)
    BY <1>1 DEF catalogVars, Coming, Idle, Arrived, Waits, Channel!Live
  <2> QED BY <1>1, <2>1, <2>2 DEF catalogVars, CatalogInductive
<1>2. CASE CatalogNext
  BY <1>2, RegisterKeeps, FetchKeeps, AskKeepsCatalog, LoadReadsKeeps, LoadAgainKeeps, LoadDoneKeeps, LoadFailsKeeps,
     ChannelKeeps DEF CatalogNext
<1> QED BY <1>1, <1>2

\* Neither a load that was already under way nor one that failed hides a
\* version from a listing that may not miss it.
THEOREM CatalogSoundHolds == CatalogSpec => []CatalogSound
<1>1. CatalogInit => CatalogInductive
  BY CatalogStart
<1>2. CatalogInductive /\ [CatalogNext]_catalogVars => CatalogInductive'
  BY CatalogStep
<1>3. CatalogInductive => CatalogSound
  BY DEF CatalogInductive, CatalogSound
<1> QED BY <1>1, <1>2, <1>3, PTL DEF CatalogSpec

-----------------------------------------------------------------------------
(***************************************************************************)
(* Theorems about AgentProvisioning, for any people, installations,        *)
(* batches and requests.  What a batch or a request has made is what has   *)
(* its origin, and an answer on its way is that of the row.                *)
(***************************************************************************)
\* The agents a batch or a request has made.
Made(o) == {k \in 1..Len(agents) : agents[k].origin = o}
MadeFor(o, e) == {k \in Made(o) : agents[k].employee = e}

BatchFits(b) ==
  /\ batches[b] = None => Made(b) = {}
  /\ batches[b] # None =>
       /\ batches[b].result = Made(b)
       /\ \A e \in People : IF e \in batches[b].body.recipients THEN \E k : MadeFor(b, e) = {k}
                            ELSE MadeFor(b, e) = {}

AnswersFit ==
  \A x \in answered :
    batches[x.request] # None /\ batches[x.request].body = x.body /\ batches[x.request].result = x.result

AskingFits(q) ==
  /\ askings[q] # None /\ askings[q].status = "APPROVED" => \E k : Made(q) = {k}
  /\ ~(askings[q] # None /\ askings[q].status = "APPROVED") => Made(q) = {}
  /\ askings[q] # None => askings[q].decidedBy # askings[q].employee

\* A form is of the installation as it is, or older.
FormsFit ==
  \A i \in Installations : console[i] # None =>
    /\ installations[i] # None
    /\ console[i].row <= installations[i].row
    /\ console[i].row = installations[i].row => console[i] = installations[i]

AgentInductive ==
  /\ AgentsTypeOK /\ AnswersFit /\ FormsFit
  /\ \A b \in Batches : BatchFits(b)
  /\ \A q \in Askings : AskingFits(q)

\* The members of a finite set, one after the other.
LEMMA MembersOnce ==
  ASSUME NEW S, IsFiniteSet(S)
  PROVE  /\ Cardinality(S) \in Nat
         /\ Members(S) \in [1..Cardinality(S) -> S]
         /\ \A j, k \in 1..Cardinality(S) : Members(S)[j] = Members(S)[k] => j = k
         /\ \A e \in S : \E k \in 1..Cardinality(S) : Members(S)[k] = e
<1>1. PICK n : n = Cardinality(S) /\ n \in Nat /\ ExistsBijection(1..n, S)
  BY FS_CardinalityType
<1>2. \E f \in [1..n -> S] : IsInjective(f)
  BY <1>1 DEF ExistsBijection, Bijection, Injection
<1>3. PICK f : f = CHOOSE g \in [1..n -> S] : IsInjective(g)
  OBVIOUS
<1>4. f \in [1..n -> S] /\ IsInjective(f)
  BY <1>2, <1>3
<1>5. Members(S) = f
  BY <1>1, <1>3 DEF Members, SetToSeq
<1>6. f \in Injection(1..n, S)
  BY <1>4 DEF Injection
<1>7. Cardinality(1..n) = n
  BY <1>1, FS_Interval
<1>8. f \in Surjection(1..n, S)
  BY <1>1, <1>6, <1>7, FS_Injection
<1>9. \A e \in S : \E k \in 1..n : f[k] = e
  BY <1>8 DEF Surjection
<1>10. \A j, k \in 1..n : f[j] = f[k] => j = k
  BY <1>4 DEF IsInjective
<1> QED BY <1>1, <1>4, <1>5, <1>9, <1>10

\* Agents are added after those there are.
LEMMA AgentsGrow ==
  ASSUME agents \in Seq(Agent), NEW more \in Seq(Agent), agents' = agents \o more
  PROVE  /\ agents' \in Seq(Agent) /\ Len(agents') = Len(agents) + Len(more)
         /\ Len(agents) \in Nat /\ Len(more) \in Nat
         /\ \A k \in 1..Len(agents) : agents'[k] = agents[k]
         /\ \A k \in 1..Len(more) : agents'[Len(agents) + k] = more[k]
<1>1. PICK a : a = agents
  OBVIOUS
<1>2. a \in Seq(Agent) /\ more \in Seq(Agent)
  BY <1>1
<1>3. /\ a \o more \in Seq(Agent) /\ Len(a \o more) = Len(a) + Len(more)
      /\ \A i \in 1..(Len(a) + Len(more)) : (a \o more)[i] = IF i <= Len(a) THEN a[i] ELSE more[i - Len(a)]
  BY ONLY <1>2, ConcatProperties
<1>4. PICK c : c = a \o more
  OBVIOUS
<1>01. PICK n \in Nat : n = Len(a)
  BY <1>2
<1>02. PICK m \in Nat : m = Len(more)
  OBVIOUS
<1>5. n = Len(a) /\ m = Len(more) /\ n \in Nat /\ m \in Nat
  BY <1>01, <1>02
<1>6. /\ c \in Seq(Agent) /\ Len(c) = n + m
      /\ \A i \in 1..(n + m) : c[i] = IF i <= n THEN a[i] ELSE more[i - n]
  BY <1>3, <1>4, <1>5
<1>7. \A k \in 1..n : c[k] = a[k]
  BY <1>5, <1>6
<1>8. ASSUME NEW k \in 1..m PROVE c[n + k] = more[k]
  <2>1. n + k \in 1..(n + m) /\ ~(n + k <= n) /\ (n + k) - n = k
    BY <1>5
  <2> QED BY <1>6, <2>1
<1> QED BY <1>1, <1>4, <1>5, <1>6, <1>7, <1>8

\* What does not come from this origin leaves what it has made.
LEMMA OthersStay ==
  ASSUME agents \in Seq(Agent), NEW more \in Seq(Agent), agents' = agents \o more, NEW o,
         \A k \in 1..Len(more) : more[k].origin # o
  PROVE  Made(o)' = Made(o) /\ \A e : MadeFor(o, e)' = MadeFor(o, e)
<1>01. PICK n \in Nat : n = Len(agents)
  OBVIOUS
<1>02. PICK m \in Nat : m = Len(more)
  OBVIOUS
<1>1. n = Len(agents) /\ m = Len(more) /\ n \in Nat /\ m \in Nat
  BY <1>01, <1>02
<1>2. /\ Len(agents') = n + m /\ \A k \in 1..n : agents'[k] = agents[k]
      /\ \A k \in 1..m : agents'[n + k] = more[k]
  BY <1>1, AgentsGrow
<1>3. \A k \in 1..(n + m) : k \in 1..n \/ \E j \in 1..m : k = n + j
  <2>1. \A k \in 1..(n + m) : k \in 1..n \/ (k - n \in 1..m /\ k = n + (k - n))
    BY <1>1
  <2> QED BY <2>1
<1>4. 1..n \subseteq 1..(n + m)
  BY <1>1
<1>5. ASSUME NEW k \in 1..(n + m), agents'[k].origin = o PROVE k \in 1..n
  BY <1>1, <1>2, <1>3, <1>5
<1>6. Made(o)' = Made(o)
  BY <1>1, <1>2, <1>4, <1>5 DEF Made
<1>7. \A k \in Made(o) : agents'[k] = agents[k]
  BY <1>1, <1>2 DEF Made
<1> QED BY <1>6, <1>7 DEF MadeFor

\* What comes from one origin that had made nothing is all it has made.
LEMMA AllMade ==
  ASSUME agents \in Seq(Agent), NEW more \in Seq(Agent), agents' = agents \o more, NEW o,
         Made(o) = {}, \A k \in 1..Len(more) : more[k].origin = o
  PROVE  /\ Made(o)' = (Len(agents) + 1)..Len(agents')
         /\ \A k \in Made(o)' : \E j \in 1..Len(more) : k = Len(agents) + j /\ agents'[k] = more[j]
         /\ \A j \in 1..Len(more) : Len(agents) + j \in Made(o)' /\ agents'[Len(agents) + j] = more[j]
<1>01. PICK n \in Nat : n = Len(agents)
  OBVIOUS
<1>02. PICK m \in Nat : m = Len(more)
  OBVIOUS
<1>1. n = Len(agents) /\ m = Len(more) /\ n \in Nat /\ m \in Nat
  BY <1>01, <1>02
<1>2. /\ Len(agents') = n + m /\ \A k \in 1..n : agents'[k] = agents[k]
      /\ \A k \in 1..m : agents'[n + k] = more[k]
  BY <1>1, AgentsGrow
<1>3. \A k \in 1..n : agents'[k].origin # o
  BY <1>1, <1>2 DEF Made
<1>4. \A k \in (n + 1)..(n + m) : \E j \in 1..m : k = n + j
  <2>1. \A k \in (n + 1)..(n + m) : k - n \in 1..m /\ k = n + (k - n)
    BY <1>1
  <2> QED BY <2>1
<1>5. \A j \in 1..m : n + j \in (n + 1)..(n + m)
  BY <1>1
<1>6. \A k \in 1..(n + m) : k \in 1..n \/ k \in (n + 1)..(n + m)
  BY <1>1
<1>7. (n + 1)..(n + m) \subseteq 1..(n + m)
  BY <1>1
<1>8. \A k \in (n + 1)..(n + m) : agents'[k].origin = o
  BY <1>1, <1>2, <1>4
<1>9. Made(o)' = (n + 1)..(n + m)
  BY <1>2, <1>3, <1>6, <1>7, <1>8 DEF Made
<1>10. \A k \in Made(o)' : \E j \in 1..m : k = n + j /\ agents'[k] = more[j]
  <2>1. \A k \in Made(o)' : \E j \in 1..m : k = n + j
    BY <1>4, <1>9
  <2> QED BY <1>2, <2>1
<1>11. \A j \in 1..m : n + j \in Made(o)' /\ agents'[n + j] = more[j]
  BY <1>2, <1>5, <1>9
<1> QED BY <1>1, <1>2, <1>9, <1>10, <1>11

LEMMA AgentFacts ==
  ASSUME AgentInductive
  PROVE  /\ agents \in Seq(Agent) /\ Len(agents) \in Nat
         /\ \A b \in Batches : batches[b] # None => batches[b] \in Batch
         /\ \A q \in Askings : askings[q] # None => askings[q] \in Asking
         /\ \A i \in Installations : installations[i] # None => installations[i] \in Installation
         /\ \A i \in Installations : console[i] # None => console[i] \in Installation
BY DEF AgentInductive, AgentsTypeOK

\* The records of batches, of requests and of agents stay.
LEMMA FormsStep ==
  ASSUME AgentInductive, UNCHANGED <<batches, answered, askings, agents>>,
         roles' \in [People -> Person],
         installations' \in [Installations -> Installation \cup {None}],
         console' \in [Installations -> Installation \cup {None}], FormsFit'
  PROVE  AgentInductive'
<1>1. AgentsTypeOK' /\ AnswersFit'
  BY DEF AgentInductive, AgentsTypeOK, AnswersFit
<1>2. \A o : Made(o)' = Made(o)
  BY DEF Made
<1>3. \A o, e : MadeFor(o, e)' = MadeFor(o, e)
  BY <1>2 DEF MadeFor
<1>4. (\A b \in Batches : BatchFits(b)') /\ (\A q \in Askings : AskingFits(q)')
  BY <1>2, <1>3 DEF AgentInductive, BatchFits, AskingFits
<1> QED BY <1>1, <1>4 DEF AgentInductive

LEMMA RolesKeep ==
  ASSUME AgentInductive, NEW p \in People, Leave(p) \/ Promote(p)
  PROVE  AgentInductive'
<1>1. PICK r \in Person : roles' = [roles EXCEPT ![p] = r]
  <2>1. PICK was \in Person : was = roles[p]
    BY DEF AgentInductive, AgentsTypeOK
  <2>2. [was EXCEPT !.active = FALSE] \in Person /\ [was EXCEPT !.role = "ADMIN"] \in Person
    BY DEF Person
  <2> QED BY <2>1, <2>2 DEF Leave, Promote
<1>2. roles' \in [People -> Person]
  BY <1>1 DEF AgentInductive, AgentsTypeOK
<1>3. UNCHANGED <<installations, console, batches, answered, askings, agents>>
  BY DEF Leave, Promote
<1> QED BY <1>2, <1>3, FormsStep DEF AgentInductive, AgentsTypeOK, FormsFit

LEMMA InstallationsKeep ==
  ASSUME AgentInductive, NEW p \in People, NEW i \in Installations
  PROVE  /\ OpenInstallation(p, i) => AgentInductive'
         /\ RetireInstallation(p, i) => AgentInductive'
         /\ \A n \in InstallationNames, v \in BlueprintVersions :
              CreateInstallation(p, i, n, v) \/ UpdateInstallation(p, i, n, v) => AgentInductive'
<1>1. /\ installations \in [Installations -> Installation \cup {None}]
      /\ console \in [Installations -> Installation \cup {None}] /\ roles \in [People -> Person]
      /\ FormsFit /\ None \notin Installation /\ MaxRowVersion \in Nat \ {0}
  BY PeopleTyped, RequestsTyped DEF AgentInductive, AgentsTypeOK
<1>2. \A former \in Installation : former.row \in Int
  BY <1>1 DEF Installation
<1>3. ASSUME OpenInstallation(p, i) PROVE AgentInductive'
  <2>1. /\ console' = [console EXCEPT ![i] = installations[i]] /\ installations[i] # None
        /\ UNCHANGED <<roles, installations, batches, answered, askings, agents>>
    BY <1>3 DEF OpenInstallation
  <2>2. console' \in [Installations -> Installation \cup {None}]
    BY <1>1, <2>1
  <2>3. FormsFit'
    <3> SUFFICES ASSUME NEW j \in Installations, console'[j] # None
                 PROVE  /\ installations[j] # None /\ console'[j].row <= installations[j].row
                        /\ console'[j].row = installations[j].row => console'[j] = installations[j]
      BY <2>1 DEF FormsFit
    <3>1. CASE j = i
      <4>1. console'[j] = installations[j] /\ installations[j] # None
        BY <1>1, <2>1, <3>1
      <4>2. PICK former \in Installation : former = installations[j]
        BY <1>1, <4>1
      <4>3. former.row \in Int
        BY <1>2
      <4> QED BY <4>1, <4>2, <4>3
    <3>2. CASE j # i
      BY <1>1, <2>1, <3>2 DEF FormsFit
    <3> QED BY <3>1, <3>2
  <2> QED BY <1>1, <2>1, <2>2, <2>3, FormsStep
<1>4. ASSUME NEW row \in Installation, installations' = [installations EXCEPT ![i] = row], UNCHANGED <<roles, console, batches, answered, askings, agents>>,
             IF installations[i] = None THEN TRUE ELSE row.row = installations[i].row + 1
      PROVE  AgentInductive'
  <2>1. installations' \in [Installations -> Installation \cup {None}]
    BY <1>1, <1>4
  <2>2. FormsFit'
    <3> SUFFICES ASSUME NEW j \in Installations, console[j] # None
                 PROVE  /\ installations'[j] # None /\ console[j].row <= installations'[j].row
                        /\ console[j].row = installations'[j].row => console[j] = installations'[j]
      BY <1>4 DEF FormsFit
    <3>1. CASE j = i
      <4>1. PICK seen \in Installation : seen = console[i]
        BY <1>1, <3>1
      <4>2. PICK former \in Installation : former = installations[i]
        BY <1>1, <3>1 DEF FormsFit
      <4>3. installations'[i] = row /\ row.row = former.row + 1 /\ seen.row <= former.row
        BY <1>1, <1>4, <3>1, <4>1, <4>2 DEF FormsFit
      <4>4. row # None /\ seen.row \in Int /\ former.row \in Int
        BY <1>1, <1>2
      <4>5. seen.row <= row.row /\ seen.row # row.row
        BY <4>3, <4>4
      <4> QED BY <3>1, <4>1, <4>3, <4>4, <4>5
    <3>2. CASE j # i
      BY <1>1, <1>4, <3>2 DEF FormsFit
    <3> QED BY <3>1, <3>2
  <2> QED BY <1>1, <1>4, <2>1, <2>2, FormsStep
<1>5. ASSUME RetireInstallation(p, i) PROVE AgentInductive'
  <2>1. PICK was \in Installation : was = installations[i] /\ was.row < MaxRowVersion
    BY <1>1, <1>5 DEF RetireInstallation, Editable, FormsFit
  <2>2. was.row \in 1..MaxRowVersion
    BY DEF Installation
  <2>3. PICK row : row = [was EXCEPT !.status = "RETIRED", !.row = was.row + 1]
    OBVIOUS
  <2>4. row \in Installation /\ row.row = was.row + 1
    <3>1. PICK r : r = was.row + 1
      OBVIOUS
    <3>2. r \in 1..MaxRowVersion
      BY <1>1, <2>1, <2>2, <3>1
    <3> QED BY <2>1, <2>3, <3>1, <3>2 DEF Installation
  <2>5. installations' = [installations EXCEPT ![i] = row]
    BY <1>5, <2>1, <2>3 DEF RetireInstallation
  <2> QED BY <1>1, <1>4, <1>5, <2>1, <2>4, <2>5 DEF RetireInstallation
<1>6. ASSUME NEW n \in InstallationNames, NEW v \in BlueprintVersions, UpdateInstallation(p, i, n, v)
      PROVE  AgentInductive'
  <2>1. PICK was \in Installation : was = installations[i] /\ was.row < MaxRowVersion
    BY <1>1, <1>6 DEF UpdateInstallation, Editable, FormsFit
  <2>2. was.row \in 1..MaxRowVersion
    BY DEF Installation
  <2>3. PICK row : row = [was EXCEPT !.name = n, !.version = v, !.row = was.row + 1]
    OBVIOUS
  <2>4. row \in Installation /\ row.row = was.row + 1
    <3>1. PICK r : r = was.row + 1
      OBVIOUS
    <3>2. r \in 1..MaxRowVersion
      BY <1>1, <2>1, <2>2, <3>1
    <3> QED BY <2>1, <2>3, <3>1, <3>2 DEF Installation
  <2>5. installations' = [installations EXCEPT ![i] = row]
    BY <1>6, <2>1, <2>3 DEF UpdateInstallation
  <2> QED BY <1>1, <1>4, <1>6, <2>1, <2>4, <2>5 DEF UpdateInstallation
<1>7. ASSUME NEW n \in InstallationNames, NEW v \in BlueprintVersions, CreateInstallation(p, i, n, v)
      PROVE  AgentInductive'
  <2>1. PICK row : row = [name |-> n, version |-> v, status |-> "ACTIVE", row |-> 1]
    OBVIOUS
  <2>2. row \in Installation
    BY <1>1, <2>1 DEF Installation
  <2> QED BY <1>4, <1>7, <2>1, <2>2 DEF CreateInstallation
<1> QED BY <1>3, <1>5, <1>6, <1>7

LEMMA NewAgentsTyped ==
  ASSUME NEW b \in Batches, NEW body \in Bodies
  PROVE  \E n \in Nat : 
           /\ n = Cardinality(body.recipients) /\ NewAgents(b, body) \in Seq(Agent) /\ Len(NewAgents(b, body)) = n
           /\ \A k \in 1..n : NewAgents(b, body)[k] =
                [origin |-> b, employee |-> Members(body.recipients)[k],
                 installation |-> body.installation, version |-> body.version]
           /\ \A k \in 1..n : Members(body.recipients)[k] \in body.recipients
           /\ \A j, k \in 1..n : Members(body.recipients)[j] = Members(body.recipients)[k] => j = k
           /\ \A e \in body.recipients : \E k \in 1..n : Members(body.recipients)[k] = e
<1>1. PICK S : S = body.recipients
  OBVIOUS
<1>2. IsFiniteSet(S) /\ S \subseteq People
  BY <1>1, RequestsTyped
<1>3. PICK n : n = Cardinality(S) /\ n \in Nat
  BY <1>2, MembersOnce
<1>4. /\ \A k \in 1..n : Members(S)[k] \in S
      /\ \A j, k \in 1..n : Members(S)[j] = Members(S)[k] => j = k
      /\ \A e \in S : \E k \in 1..n : Members(S)[k] = e
  BY <1>2, <1>3, MembersOnce
<1>5. PICK more : more = NewAgents(b, body)
  OBVIOUS
<1>6. more = [k \in 1..n |-> [origin |-> b, employee |-> Members(S)[k],
                              installation |-> body.installation, version |-> body.version]]
  BY <1>1, <1>3, <1>5 DEF NewAgents
<1>7. \A k \in 1..n : [origin |-> b, employee |-> Members(S)[k],
                       installation |-> body.installation, version |-> body.version] \in Agent
  BY <1>2, <1>4, RequestsTyped DEF Agent
<1>8. more \in [1..n -> Agent]
  BY <1>6, <1>7
<1>9. more \in Seq(Agent) /\ Len(more) = n
  BY <1>3, <1>8
<1>10. \A k \in 1..n : more[k] = [origin |-> b, employee |-> Members(S)[k],
                                  installation |-> body.installation, version |-> body.version]
  BY <1>6
<1> QED BY <1>1, <1>3, <1>4, <1>5, <1>9, <1>10

\* All recipients have an agent, or none.
LEMMA BatchKeeps ==
  ASSUME AgentInductive, NEW p \in People, NEW b \in Batches, NEW body \in Bodies, CreateAgents(p, b, body)
  PROVE  AgentInductive'
<1>1. PICK more : more = NewAgents(b, body)
  OBVIOUS
<1>2. PICK member : member = Members(body.recipients)
  OBVIOUS
<1>3. PICK m \in Nat :
        /\ m = Cardinality(body.recipients) /\ more \in Seq(Agent) /\ Len(more) = m
        /\ \A k \in 1..m : more[k] = [origin |-> b, employee |-> member[k],
                                      installation |-> body.installation, version |-> body.version]
        /\ \A k \in 1..m : member[k] \in body.recipients
        /\ \A j, k \in 1..m : member[j] = member[k] => j = k
        /\ \A e \in body.recipients : \E k \in 1..m : member[k] = e
  BY <1>1, <1>2, NewAgentsTyped
<1>4. \A k \in 1..Len(more) : more[k].origin = b /\ more[k].employee = member[k]
  BY <1>3
<1>5. PICK n \in Nat : n = Len(agents) /\ n + m <= MaxAgents
  BY <1>3, AgentFacts DEF CreateAgents
<1>6. /\ agents \in Seq(Agent) /\ agents' = agents \o more
      /\ UNCHANGED <<roles, installations, console, askings>> /\ batches[b] = None /\ Made(b) = {}
  BY <1>1, AgentFacts DEF CreateAgents, AgentInductive, BatchFits
<1>7. agents' \in Seq(Agent) /\ Len(agents') = n + m
  BY <1>3, <1>5, <1>6, AgentsGrow
<1>8. PICK row : row = [by |-> p, body |-> body, result |-> (n + 1)..(n + m)]
  OBVIOUS
<1>9. /\ batches' = [batches EXCEPT ![b] = row]
      /\ \/ answered' = answered
         \/ answered' = answered \cup {[request |-> b, by |-> p, body |-> body, result |-> (n + 1)..(n + m)]}
  BY <1>5, <1>7, <1>8 DEF CreateAgents, Answers
<1>10. (n + 1)..(n + m) \in Indexes
  BY <1>3, <1>5, PeopleTyped DEF Indexes
<1>11. row \in Batch /\ row # None /\ row.body = body /\ row.result = (n + 1)..(n + m)
  BY <1>8, <1>10, RequestsTyped DEF Batch
<1>12. /\ batches' \in [Batches -> Batch \cup {None}] /\ batches'[b] = row
       /\ \A c \in Batches \ {b} : batches'[c] = batches[c]
  BY <1>9, <1>11 DEF AgentInductive, AgentsTypeOK
<1>13. answered' \subseteq Given
  <2>1. [request |-> b, by |-> p, body |-> body, result |-> (n + 1)..(n + m)] \in Given
    BY <1>10 DEF Given
  <2> QED BY <1>9, <2>1 DEF AgentInductive, AgentsTypeOK
<1>14. AgentsTypeOK'
  BY <1>5, <1>6, <1>7, <1>12, <1>13 DEF AgentInductive, AgentsTypeOK
<1>15. AnswersFit'
  <2> SUFFICES ASSUME NEW x \in answered'
               PROVE  batches'[x.request] # None /\ batches'[x.request].body = x.body /\ batches'[x.request].result = x.result
    BY DEF AnswersFit
  <2>1. CASE x \in answered
    <3>1. x.request \in Batches /\ batches[x.request] # None /\ batches[x.request].body = x.body /\ batches[x.request].result = x.result
      BY <2>1 DEF AgentInductive, AgentsTypeOK, AnswersFit, Given
    <3> QED BY <1>6, <1>12, <3>1
  <2>2. CASE x = [request |-> b, by |-> p, body |-> body, result |-> (n + 1)..(n + m)]
    BY <1>11, <1>12, <2>2
  <2> QED BY <1>9, <2>1, <2>2
<1>16. ASSUME NEW o, o # b PROVE Made(o)' = Made(o) /\ \A e : MadeFor(o, e)' = MadeFor(o, e)
  <2>1. \A k \in 1..Len(more) : more[k].origin # o
    BY <1>4, <1>16
  <2>2. more \in Seq(Agent) /\ agents \in Seq(Agent) /\ agents' = agents \o more
    BY <1>3, <1>6
  <2> QED BY ONLY <2>1, <2>2, OthersStay
<1>17. /\ Made(b)' = (n + 1)..(n + m)
       /\ \A k \in Made(b)' : \E j \in 1..m : k = n + j /\ agents'[k].employee = member[j]
       /\ \A j \in 1..m : n + j \in Made(b)' /\ agents'[n + j].employee = member[j]
  <2>1. \A k \in 1..Len(more) : more[k].origin = b
    BY <1>4
  <2>2. /\ Made(b)' = (Len(agents) + 1)..Len(agents')
        /\ \A k \in Made(b)' : \E j \in 1..Len(more) : k = Len(agents) + j /\ agents'[k] = more[j]
        /\ \A j \in 1..Len(more) : Len(agents) + j \in Made(b)' /\ agents'[Len(agents) + j] = more[j]
    BY <1>3, <1>6, <2>1, AllMade
  <2> QED BY <1>3, <1>4, <1>5, <1>7, <2>2
<1>18. \A c \in Batches : BatchFits(c)'
  <2> SUFFICES ASSUME NEW c \in Batches PROVE BatchFits(c)'
    OBVIOUS
  <2>1. CASE c # b
    <3>1. BatchFits(c) /\ batches'[c] = batches[c] /\ Made(c)' = Made(c) /\ \A e : MadeFor(c, e)' = MadeFor(c, e)
      BY <1>12, <1>16, <2>1 DEF AgentInductive
    <3> QED BY <3>1 DEF BatchFits
  <2>2. CASE c = b
    <3>1. ASSUME NEW e \in body.recipients PROVE \E k : MadeFor(b, e)' = {k}
      <4>1. PICK j \in 1..m : member[j] = e
        BY <1>3
      <4>2. \A k \in Made(b)' : agents'[k].employee = e => k = n + j
        <5> SUFFICES ASSUME NEW k \in Made(b)', agents'[k].employee = e PROVE k = n + j
          OBVIOUS
        <5>1. PICK h \in 1..m : k = n + h /\ agents'[k].employee = member[h]
          BY <1>17
        <5>2. h = j
          BY <1>3, <4>1, <5>1
        <5> QED BY <5>1, <5>2
      <4>3. MadeFor(b, e)' = {n + j}
        BY <1>17, <4>1, <4>2 DEF MadeFor
      <4> QED BY <4>3
    <3>2. ASSUME NEW e \in People \ body.recipients PROVE MadeFor(b, e)' = {}
      BY <1>3, <1>17 DEF MadeFor
    <3> QED BY <1>11, <1>12, <1>17, <2>2, <3>1, <3>2 DEF BatchFits
  <2> QED BY <2>1, <2>2
<1>19. \A q \in Askings : AskingFits(q)'
  <2> SUFFICES ASSUME NEW q \in Askings PROVE AskingFits(q)'
    OBVIOUS
  <2>1. q # b
    BY RequestsTyped
  <2>2. AskingFits(q) /\ Made(q)' = Made(q) /\ askings' = askings
    BY <1>6, <1>16, <2>1 DEF AgentInductive
  <2> QED BY <2>2 DEF AskingFits
<1>20. FormsFit'
  BY <1>6 DEF AgentInductive, FormsFit
<1> QED BY <1>14, <1>15, <1>18, <1>19, <1>20 DEF AgentInductive

\* The same answer again.
LEMMA RepeatKeeps ==
  ASSUME AgentInductive, NEW p \in People, NEW b \in Batches, NEW body \in Bodies, RepeatAnswer(p, b, body)
  PROVE  AgentInductive'
<1>1. /\ batches[b] # None /\ batches[b].body = body /\ batches[b] \in Batch
      /\ UNCHANGED <<roles, installations, console, batches, askings, agents>>
  BY AgentFacts DEF RepeatAnswer, Replayed
<1>2. PICK x \in Given : /\ x.request = b /\ x.body = body /\ x.result = batches[b].result
                         /\ answered' \in {answered, answered \cup {x}}
  <2>1. PICK result : result = batches[b].result
    OBVIOUS
  <2>2. result \in Indexes
    BY <1>1, <2>1 DEF Batch
  <2>3. [request |-> b, by |-> p, body |-> body, result |-> result] \in Given
    BY <2>2 DEF Given
  <2> QED BY <2>1, <2>3 DEF RepeatAnswer, Answers
<1>3. AgentsTypeOK'
  BY <1>1, <1>2 DEF AgentInductive, AgentsTypeOK
<1>4. AnswersFit'
  BY <1>1, <1>2 DEF AgentInductive, AnswersFit
<1>5. \A o : Made(o)' = Made(o)
  BY <1>1 DEF Made
<1>6. \A o, e : MadeFor(o, e)' = MadeFor(o, e)
  BY <1>1, <1>5 DEF MadeFor
<1>7. (\A c \in Batches : BatchFits(c)') /\ (\A q \in Askings : AskingFits(q)') /\ FormsFit'
  BY <1>1, <1>5, <1>6 DEF AgentInductive, BatchFits, AskingFits, FormsFit
<1> QED BY <1>3, <1>4, <1>7 DEF AgentInductive

\* A request that is written, with the agents that come of it.
LEMMA AskingWritten ==
  ASSUME AgentInductive, NEW q \in Askings, NEW row \in Asking, askings' = [askings EXCEPT ![q] = row],
         row.decidedBy # row.employee, Made(q) = {},
         UNCHANGED <<roles, installations, console, batches, answered>>,
         IF row.status = "APPROVED"
           THEN Len(agents) < MaxAgents /\ \E a \in Agent : a.origin = q /\ agents' = Append(agents, a)
           ELSE agents' = agents
  PROVE  AgentInductive'
<1>1. agents \in Seq(Agent) /\ Len(agents) \in Nat /\ row # None
  BY AgentFacts, RequestsTyped
<1>2. PICK more \in Seq(Agent) :
        /\ agents' = agents \o more
        /\ \A k \in 1..Len(more) : more[k].origin = q
        /\ row.status = "APPROVED" => Len(more) = 1 /\ Len(agents) < MaxAgents
        /\ row.status # "APPROVED" => Len(more) = 0
  <2>1. CASE row.status = "APPROVED"
    <3>1. PICK a \in Agent : a.origin = q /\ agents' = Append(agents, a)
      BY <2>1
    <3>2. agents' = agents \o <<a>>
      BY <1>1, <3>1, AppendIsConcat
    <3>3. <<a>> \in Seq(Agent) /\ Len(<<a>>) = 1 /\ \A k \in 1..1 : <<a>>[k] = a
      BY <3>1
    <3> QED BY <2>1, <3>1, <3>2, <3>3
  <2>2. CASE row.status # "APPROVED"
    <3>1. agents' = agents \o <<>>
      BY <1>1, <2>2, ConcatEmptySeq
    <3>2. <<>> \in Seq(Agent) /\ Len(<<>>) = 0
      OBVIOUS
    <3>3. PICK none \in Seq(Agent) : none = <<>> /\ Len(none) = 0
      BY <3>2
    <3>4. agents' = agents \o none /\ \A k \in 1..Len(none) : none[k].origin = q
      BY <3>1, <3>3
    <3> QED BY <2>2, <3>3, <3>4
  <2> QED BY <2>1, <2>2
<1>3. /\ agents' \in Seq(Agent) /\ Len(agents') = Len(agents) + Len(more) /\ Len(agents') <= MaxAgents
  <2>1. agents' \in Seq(Agent) /\ Len(agents') = Len(agents) + Len(more)
    BY <1>1, <1>2, AgentsGrow
  <2> QED BY <1>1, <1>2, <2>1, PeopleTyped DEF AgentInductive, AgentsTypeOK
<1>4. /\ askings' \in [Askings -> Asking \cup {None}] /\ askings'[q] = row
      /\ \A r \in Askings \ {q} : askings'[r] = askings[r]
  BY DEF AgentInductive, AgentsTypeOK
<1>5. AgentsTypeOK'
  BY <1>3, <1>4 DEF AgentInductive, AgentsTypeOK
<1>6. ASSUME NEW o, o # q PROVE Made(o)' = Made(o) /\ \A e : MadeFor(o, e)' = MadeFor(o, e)
  <2>1. \A k \in 1..Len(more) : more[k].origin # o
    BY <1>2, <1>6
  <2> QED BY <1>1, <1>2, <2>1, OthersStay
<1>7. AnswersFit' /\ FormsFit'
  BY DEF AgentInductive, AnswersFit, FormsFit
<1>8. \A b \in Batches : BatchFits(b)'
  <2> SUFFICES ASSUME NEW b \in Batches PROVE BatchFits(b)'
    OBVIOUS
  <2>1. b # q
    BY RequestsTyped
  <2>2. BatchFits(b) /\ Made(b)' = Made(b) /\ \A e : MadeFor(b, e)' = MadeFor(b, e)
    BY <1>6, <2>1 DEF AgentInductive
  <2> QED BY <2>2 DEF BatchFits
<1>9. \A r \in Askings : AskingFits(r)'
  <2> SUFFICES ASSUME NEW r \in Askings PROVE AskingFits(r)'
    OBVIOUS
  <2>1. CASE r # q
    <3>1. AskingFits(r) /\ Made(r)' = Made(r) /\ askings'[r] = askings[r]
      BY <1>4, <1>6, <2>1 DEF AgentInductive
    <3> QED BY <3>1 DEF AskingFits
  <2>2. CASE r = q
    <3>1. Made(q)' = (Len(agents) + 1)..Len(agents')
      BY <1>1, <1>2, AllMade
    <3>2. CASE row.status = "APPROVED"
      <4>1. Made(q)' = {Len(agents) + 1}
        BY <1>1, <1>2, <1>3, <3>1, <3>2
      <4> QED BY <1>1, <1>4, <2>2, <3>2, <4>1 DEF AskingFits
    <3>3. CASE row.status # "APPROVED"
      <4>1. Made(q)' = {}
        BY <1>1, <1>2, <1>3, <3>1, <3>3
      <4> QED BY <1>1, <1>4, <2>2, <3>3, <4>1 DEF AskingFits
    <3> QED BY <3>2, <3>3
  <2> QED BY <2>1, <2>2
<1> QED BY <1>5, <1>7, <1>8, <1>9 DEF AgentInductive

LEMMA AskingsKeep ==
  ASSUME AgentInductive, NEW p \in People, NEW q \in Askings
  PROVE  /\ \A v \in BlueprintVersions : AskFor(p, q, v) => AgentInductive'
         /\ \A decision \in {"APPROVED", "REJECTED"} : Decide(p, q, decision) => AgentInductive'
<1>1. ASSUME NEW v \in BlueprintVersions, AskFor(p, q, v) PROVE AgentInductive'
  <2>1. PICK row : row = [employee |-> p, version |-> v, status |-> "PENDING", decidedBy |-> None]
    OBVIOUS
  <2>2. row \in Asking /\ row.decidedBy # row.employee /\ row.status # "APPROVED"
    BY <2>1, PeopleTyped DEF Asking
  <2>3. Made(q) = {} /\ askings' = [askings EXCEPT ![q] = row]
        /\ UNCHANGED <<roles, installations, console, batches, answered, agents>>
    BY <1>1, <2>1 DEF AskFor, AgentInductive, AskingFits
  <2> QED BY <2>2, <2>3, AskingWritten
<1>2. ASSUME NEW decision \in {"APPROVED", "REJECTED"}, Decide(p, q, decision) PROVE AgentInductive'
  <2>1. PICK was \in Asking : was = askings[q] /\ was.status = "PENDING" /\ was.employee # p
    BY <1>2, AgentFacts DEF Decide, Decidable
  <2>2. PICK row : row = [[was EXCEPT !.status = decision] EXCEPT !.decidedBy = p]
    OBVIOUS
  <2>3. row \in Asking /\ row.decidedBy = p /\ row.employee = was.employee /\ row.status = decision
    BY <2>1, <2>2 DEF Asking
  <2>4. Made(q) = {} /\ askings' = [askings EXCEPT ![q] = row]
        /\ UNCHANGED <<roles, installations, console, batches, answered>>
    BY <1>2, <2>1, <2>2 DEF Decide, AgentInductive, AskingFits
  <2>5. PICK a : a = [origin |-> q, employee |-> was.employee, installation |-> None, version |-> was.version]
    OBVIOUS
  <2>6. a \in Agent /\ a.origin = q
    BY <2>1, <2>5 DEF Agent, Asking
  <2>7. IF decision = "APPROVED" THEN Len(agents) < MaxAgents /\ agents' = Append(agents, a) ELSE agents' = agents
    BY <1>2, <2>1, <2>5 DEF Decide
  <2> QED BY <2>1, <2>3, <2>4, <2>6, <2>7, AskingWritten
<1> QED BY <1>1, <1>2

LEMMA AgentStep == ASSUME AgentInductive, [AgentsNext]_agentVars PROVE AgentInductive'
<1>1. CASE UNCHANGED agentVars
  BY <1>1, FormsStep DEF agentVars, AgentInductive, AgentsTypeOK, FormsFit
<1>2. CASE AgentsNext
  BY <1>2, RolesKeep, InstallationsKeep, BatchKeeps, RepeatKeeps, AskingsKeep DEF AgentsNext
<1> QED BY <1>1, <1>2

LEMMA AgentStart == ASSUME AgentsInit PROVE AgentInductive
<1>1. /\ agents = <<>> /\ agents \in Seq(Agent) /\ Len(agents) = 0
      /\ \A b \in Batches : batches[b] = None
      /\ \A q \in Askings : askings[q] = None
      /\ \A i \in Installations : console[i] = None
  BY DEF AgentsInit
<1>2. roles \in [People -> Person]
  BY PeopleTyped DEF AgentsInit, Person
<1>3. AgentsTypeOK
  BY <1>1, <1>2, PeopleTyped DEF AgentsInit, AgentsTypeOK
<1>4. \A o : Made(o) = {}
  BY <1>1 DEF Made
<1>5. AnswersFit /\ FormsFit
  BY <1>1 DEF AgentsInit, AnswersFit, FormsFit
<1> QED BY <1>1, <1>3, <1>4, <1>5 DEF AgentInductive, BatchFits, AskingFits

LEMMA AgentImplies == ASSUME AgentInductive PROVE AgentsSound
<1>1. BatchMadeOnce
  <2> SUFFICES ASSUME NEW x \in answered
               PROVE  /\ x.result = {k \in 1..Len(agents) : agents[k].origin = x.request}
                      /\ \A e \in People : Cardinality({k \in x.result : agents[k].employee = e})
                                             = IF e \in x.body.recipients THEN 1 ELSE 0
    BY DEF BatchMadeOnce
  <2>1. PICK b \in Batches : b = x.request
    BY DEF AgentInductive, AgentsTypeOK, Given
  <2>2. batches[b] # None /\ batches[b].body = x.body /\ batches[b].result = x.result /\ BatchFits(b)
    BY <2>1 DEF AgentInductive, AnswersFit
  <2>3. x.result = Made(b)
    BY <2>2 DEF BatchFits
  <2>4. ASSUME NEW e \in People
        PROVE  Cardinality({k \in x.result : agents[k].employee = e}) = IF e \in x.body.recipients THEN 1 ELSE 0
    <3>1. {k \in x.result : agents[k].employee = e} = MadeFor(b, e)
      BY <2>3 DEF MadeFor
    <3>2. IF e \in x.body.recipients THEN \E k : MadeFor(b, e) = {k} ELSE MadeFor(b, e) = {}
      BY <2>2 DEF BatchFits
    <3> QED BY <3>1, <3>2, FS_Singleton, FS_EmptySet
  <2> QED BY <2>1, <2>3, <2>4 DEF Made
<1>2. DecidedOnce
  <2> SUFFICES ASSUME NEW q \in Askings, askings[q] # None
               PROVE  /\ Cardinality({k \in 1..Len(agents) : agents[k].origin = q})
                           = IF askings[q].status = "APPROVED" THEN 1 ELSE 0
                      /\ askings[q].decidedBy # askings[q].employee
    BY DEF DecidedOnce
  <2>1. AskingFits(q) /\ Made(q) = {k \in 1..Len(agents) : agents[k].origin = q}
    BY DEF AgentInductive, Made
  <2>2. IF askings[q].status = "APPROVED" THEN \E k : Made(q) = {k} ELSE Made(q) = {}
    BY <2>1 DEF AskingFits
  <2>3. Cardinality(Made(q)) = IF askings[q].status = "APPROVED" THEN 1 ELSE 0
    BY <2>2, FS_Singleton, FS_EmptySet
  <2> QED BY <2>1, <2>3 DEF AskingFits
<1> QED BY <1>1, <1>2 DEF AgentsSound, AgentInductive

\* Every answer to a batch lists the agents it made, one for each recipient,
\* and an approved request has one agent.
THEOREM AgentsSoundHolds == AgentsSpec => []AgentsSound
<1>1. AgentsInit => AgentInductive
  BY AgentStart
<1>2. AgentInductive /\ [AgentsNext]_agentVars => AgentInductive'
  BY AgentStep
<1>3. AgentInductive => AgentsSound
  BY AgentImplies
<1> QED BY <1>1, <1>2, <1>3, PTL DEF AgentsSpec

\* What a step may change of an installation.
LEMMA EditsSeen ==
  ASSUME AgentInductive, [AgentsNext]_agentVars, NEW i \in Installations,
         installations[i] # None, installations'[i] # installations[i]
  PROVE  installations[i].status = "ACTIVE" /\ console[i] = installations[i]
<1>1. installations \in [Installations -> Installation \cup {None}] /\ FormsFit
  BY DEF AgentInductive, AgentsTypeOK
<1>2. installations' # installations
  OBVIOUS
<1>3. \E p \in People, j \in Installations :
        \/ RetireInstallation(p, j)
        \/ \E n \in InstallationNames, v \in BlueprintVersions : CreateInstallation(p, j, n, v) \/ UpdateInstallation(p, j, n, v)
  BY <1>2 DEF AgentsNext, agentVars, Leave, Promote, OpenInstallation, CreateAgents, RepeatAnswer, AskFor, Decide
<1>4. PICK p \in People, j \in Installations :
        \/ RetireInstallation(p, j)
        \/ \E n \in InstallationNames, v \in BlueprintVersions : CreateInstallation(p, j, n, v) \/ UpdateInstallation(p, j, n, v)
  BY <1>3
<1>5. j = i
  BY <1>1, <1>4 DEF RetireInstallation, CreateInstallation, UpdateInstallation
<1>6. Editable(p, i)
  BY <1>4, <1>5 DEF RetireInstallation, CreateInstallation, UpdateInstallation
<1> QED BY <1>1, <1>6 DEF Editable, FormsFit

\* Agents are only added by a batch and by an approval.
LEMMA AgentsInstalled ==
  ASSUME AgentInductive, [AgentsNext]_agentVars, NEW k \in (Len(agents) + 1)..Len(agents'),
         agents'[k].installation # None
  PROVE  /\ installations[agents'[k].installation].status = "ACTIVE"
         /\ installations[agents'[k].installation].version = agents'[k].version
<1>1. agents \in Seq(Agent) /\ Len(agents) \in Nat
  BY AgentFacts
<1>2. CASE agents' = agents
  BY <1>1, <1>2
<1>3. ASSUME NEW p \in People, NEW b \in Batches, NEW body \in Bodies, CreateAgents(p, b, body)
      PROVE  /\ installations[agents'[k].installation].status = "ACTIVE"
             /\ installations[agents'[k].installation].version = agents'[k].version
  <2>01. PICK more : more = NewAgents(b, body)
    OBVIOUS
  <2>02. PICK m \in Nat : /\ more \in Seq(Agent) /\ Len(more) = m
                         /\ \A j \in 1..m : more[j] = [origin |-> b, employee |-> Members(body.recipients)[j],
                                                        installation |-> body.installation, version |-> body.version]
    BY <2>01, NewAgentsTyped
  <2>1. /\ more = NewAgents(b, body) /\ m \in Nat /\ more \in Seq(Agent) /\ Len(more) = m
        /\ \A j \in 1..m : more[j].installation = body.installation /\ more[j].version = body.version
    BY <2>01, <2>02
  <2>2. agents' = agents \o more /\ Installed(body)
    BY <1>3, <2>1 DEF CreateAgents
  <2>3. PICK n : n = Len(agents) /\ n \in Nat
    BY <1>1
  <2>4. Len(agents') = n + m /\ \A j \in 1..m : agents'[n + j] = more[j]
    BY <1>1, <2>1, <2>2, <2>3, AgentsGrow
  <2>5. k - n \in 1..m /\ k = n + (k - n)
    BY <2>1, <2>3, <2>4
  <2>6. agents'[k] = more[k - n]
    BY <2>4, <2>5
  <2>7. agents'[k].installation = body.installation /\ agents'[k].version = body.version
    BY <2>1, <2>5, <2>6
  <2> QED BY <2>2, <2>7 DEF Installed
<1>4. ASSUME NEW p \in People, NEW q \in Askings, NEW decision \in {"APPROVED", "REJECTED"},
             Decide(p, q, decision), agents' # agents
      PROVE  FALSE
  <2>1. PICK a : a = [origin |-> q, employee |-> askings[q].employee, installation |-> None, version |-> askings[q].version]
    OBVIOUS
  <2>2. agents' = Append(agents, a)
    BY <1>4, <2>1 DEF Decide
  <2>3. a \in Agent
    BY <1>4, <2>1, AgentFacts DEF Decide, Decidable, Agent, Asking
  <2>4. Len(agents') = Len(agents) + 1 /\ agents'[Len(agents) + 1] = a
    BY <1>1, <2>2, <2>3, AppendProperties
  <2>5. k = Len(agents) + 1
    BY <1>1, <2>4
  <2> QED BY <2>1, <2>4, <2>5
<1> QED BY <1>2, <1>3, <1>4 DEF AgentsNext, agentVars, Leave, Promote, OpenInstallation, RetireInstallation,
        CreateInstallation, UpdateInstallation, RepeatAnswer, AskFor

\* Nothing changes that an administrator did not see as it was.
THEOREM AgentStepsHold == AgentsSpec => AgentSteps
<1>1. AgentsInit => AgentInductive
  BY AgentStart
<1>2. AgentInductive /\ [AgentsNext]_agentVars => AgentInductive'
  BY AgentStep
<1>3. ASSUME AgentInductive, [AgentsNext]_agentVars
      PROVE  [\A i \in Installations :
                installations[i] # None /\ installations'[i] # installations[i] =>
                  /\ installations[i].status = "ACTIVE"
                  /\ console[i] = installations[i]]_agentVars
  BY <1>3, EditsSeen
<1>4. ASSUME AgentInductive, [AgentsNext]_agentVars
      PROVE  [\A k \in (Len(agents) + 1)..Len(agents') :
                LET i == agents'[k].installation
                IN  i # None => /\ installations[i].status = "ACTIVE"
                                /\ installations[i].version = agents'[k].version]_agentVars
  BY <1>4, AgentsInstalled
<1>5. AgentsSpec => NothingOverwritten
  BY <1>1, <1>2, <1>3, PTL DEF AgentsSpec, NothingOverwritten
<1>6. AgentsSpec => AgentsAsInstalled
  BY <1>1, <1>2, <1>4, PTL DEF AgentsSpec, AgentsAsInstalled
<1> QED BY <1>5, <1>6, PTL DEF AgentSteps

-----------------------------------------------------------------------------
(***************************************************************************)
(* The services side by side: a service out of focus stands still.         *)
(***************************************************************************)
LEMMA OneMoves ==
  [Next]_vars => /\ [SpendingNext]_spendingVars /\ [WebhookNext]_webhookVars /\ [ArtifactNext]_artifactVars
                 /\ [GrantNext]_grantVars /\ [OrgNext]_orgVars /\ [DomainNext]_domainVars
                 /\ [CatalogNext]_catalogVars /\ [AgentsNext]_agentVars
BY DEF Next, vars, SpendingMoves, WebhookMoves, ArtifactMoves, GrantMoves, OrgMoves, DomainMoves, CatalogMoves, AgentsMoves

\* The organization, its domains, its catalog and its agents, whichever service moves.
THEOREM DirectorySoundHolds == Spec => []DirectorySound
<1>1. Init => OrgInit /\ DomainInit /\ CatalogInit /\ AgentsInit
  BY DEF Init
<1>2. StructureSound /\ DomainsSound /\ CatalogSound /\ AgentsSound => DirectorySound
  BY DEF DirectorySound
<1>3. (OrgSpec => []StructureSound) /\ (DomainSpec => []DomainsSound)
  BY StructureSoundHolds, DomainsSoundHolds
<1>4. (CatalogSpec => []CatalogSound) /\ (AgentsSpec => []AgentsSound)
  BY CatalogSoundHolds, AgentsSoundHolds
<1> QED BY <1>1, <1>2, <1>3, <1>4, OneMoves, PTL DEF Spec, OrgSpec, DomainSpec, CatalogSpec, AgentsSpec

\* No step of a service does what it may never do, whichever service moves.
THEOREM ServiceStepsHold == Spec => ServiceSteps
<1>1. Init => SpendingInit /\ WebhookInit /\ ArtifactInit /\ GrantInit /\ AgentsInit
  BY DEF Init
<1>2. (SpendingSpec => GrantsFit) /\ (SpendingSpec => SettledOnce)
  BY GrantsFitHolds, SettledOnceHolds
<1>3. (ArtifactSpec => KeptUnlessOvertaken) /\ (ArtifactSpec => RowsForward)
  BY KeptUnlessOvertakenHolds, RowsForwardHolds
<1>4. (WebhookSpec => DeliveriesProgress) /\ (GrantSpec => ClaimsKept) /\ (AgentsSpec => AgentSteps)
  BY DeliveriesProgressHolds, ClaimsKeptHolds, AgentStepsHold
<1>5. Spec => WebhookSpec /\ ArtifactSpec /\ GrantSpec
  BY <1>1, OneMoves, PTL DEF Spec, WebhookSpec, ArtifactSpec, GrantSpec
<1>6. Spec => SpendingSpec /\ AgentsSpec
  BY <1>1, OneMoves, PTL DEF Spec, SpendingSpec, AgentsSpec
<1> QED BY <1>2, <1>3, <1>4, <1>5, <1>6 DEF ServiceSteps
=============================================================================
