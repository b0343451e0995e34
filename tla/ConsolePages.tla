---------------------------- MODULE ConsolePages -----------------------------
(* The pages of the administrators' console (control-plane-web/src/app).      *)
(* Each shows what a request answered, opens a row of it as a form, and sends *)
(* changes back with the version it was given, while other administrators     *)
(* change the same record and answers arrive in any order.  A page is what    *)
(* its class does with an answer and which calls it makes; the steps are the  *)
(* same for all of them.                                                      *)
EXTENDS Absent, Naturals, FiniteSets

CONSTANTS
  PageNames,
  Filters,             \* searches, kinds or parents a list can be asked for
  Settings,            \* what the form of a new agent can hold
  MaxVersions,         \* bound: changes of the record
  MaxLoads,            \* bound: lists asked for
  MaxEdits             \* bound: changes of the settings

VARIABLES
  page,                \* the page that is open
  stored,              \* the record at the control plane
  filter, shown,       \* the list last asked for, the one on the screen
  revision, loads,     \* listRevision, and the requests under way
  loading, busy,
  edited, chosen,      \* the row that is edited, the one waiting for confirmation
  call,                \* the change that was sent
  mine,                \* what the page was last told it changed
  missed,              \* the list it last waited for did not come
  settings, pending,   \* of a new agent: what is filled in, the attempt under way
  batches              \* the attempts sent, made when agents were created

pageVars == <<page, stored, filter, shown, revision, loads, loading, busy, edited, chosen, call,
              mine, missed, settings, pending, batches>>

-----------------------------------------------------------------------------
(* takes: which answers are shown, the "latest" asked for, any with the      *)
(* "same" filter, "any", or only one asked for at a time ("alone").  asks:   *)
(* "always", only while the page is "idle", or "never" by hand.  fills: an   *)
(* answer also fills the form.  waits: busy until the list is back.          *)
Page(takes, asks, fills, waits, calls) ==
  [takes |-> takes, asks |-> asks, fills |-> fills, waits |-> waits, calls |-> calls]

(* from: where the version comes from.  checked: it is sent and compared.    *)
(* changes: a field of the form, or something beside it.  after: what        *)
(* becomes of the form when the change was made: the page shows the record it *)
(* was given, takes only its version, keeps the form or closes it.           *)
Call(from, checked, changes, after) ==
  [from |-> from, checked |-> checked, changes |-> changes, after |-> after]

Create == Call("new", FALSE, "rest", "keep")
CreateForm == Call("new", FALSE, "rest", "reopen")
SaveForm == Call("form", TRUE, "fields", "reopen")
SaveBeside(after) == Call("form", TRUE, "rest", after)
SaveProfile == Call("form", TRUE, "fields", "renew")
SavePrice == Call("draft", TRUE, "fields", "close")
OnRow == Call("row", FALSE, "rest", "keep")
OnRowChecked == Call("row", TRUE, "rest", "keep")
OnChosen(checked) == Call("chosen", checked, "rest", "close")
NewAgents == Call("agents", FALSE, "rest", "keep")

StructurePage ==
  Page("latest", "always", FALSE, FALSE, {CreateForm, SaveForm, OnChosen(TRUE), SaveBeside("renew")})
UnitMembersPage == Page("latest", "always", FALSE, FALSE, {Create, OnChosen(FALSE)})
UnitPathPage == Page("same", "always", FALSE, FALSE, {})
JobsPage == Page("latest", "always", FALSE, FALSE, {CreateForm, SaveForm, OnChosen(TRUE)})
PeoplePage ==
  Page("any", "always", FALSE, FALSE,
       {CreateForm, SaveForm, SaveBeside("reopen"), Call("form", FALSE, "rest", "keep")})
MembershipsPage == Page("any", "always", FALSE, FALSE, {OnRowChecked})
TenantPage == Page("any", "idle", TRUE, FALSE, {SaveProfile})
DomainsPage == Page("any", "idle", FALSE, FALSE, {Create, OnRow})
MembersPage == Page("any", "never", FALSE, FALSE, {Create, OnRow})
SetupPage == Page("alone", "always", FALSE, FALSE, {})
PickerPage == Page("alone", "always", FALSE, FALSE, {})
GovernancePage == Page("alone", "idle", FALSE, TRUE, {Create, OnRowChecked, OnRow})
ReconciliationsPage == Page("any", "never", FALSE, FALSE, {OnChosen(TRUE)})
WebhooksPage == Page("any", "never", FALSE, TRUE, {Create, OnRowChecked, OnRow})
SpendingPage == Page("alone", "never", TRUE, TRUE, {SaveForm, OnRow})
PricesPage == Page("alone", "never", FALSE, TRUE, {SavePrice, OnRowChecked})
AgentsPage == Page("alone", "idle", FALSE, TRUE, {NewAgents})
InstallationsPage == Page("alone", "idle", FALSE, TRUE, {Create, OnRowChecked})
BundlePage == Page("any", "always", FALSE, FALSE, {})
QualityPage == Page("any", "never", FALSE, FALSE, {})
ProvisioningPage == Page("any", "always", FALSE, FALSE, {OnRow})

Pages ==
  [structure |-> StructurePage, members |-> UnitMembersPage, path |-> UnitPathPage,
   jobs |-> JobsPage, people |-> PeoplePage, memberships |-> MembershipsPage,
   tenant |-> TenantPage, domains |-> DomainsPage, organization |-> MembersPage,
   setup |-> SetupPage, picker |-> PickerPage, governance |-> GovernancePage,
   reconciliations |-> ReconciliationsPage, webhooks |-> WebhooksPage,
   spending |-> SpendingPage, prices |-> PricesPage, agents |-> AgentsPage,
   installations |-> InstallationsPage, bundle |-> BundlePage, quality |-> QualityPage,
   provisioning |-> ProvisioningPage]

ASSUME PagesAssumption ==
  /\ PageNames \subseteq DOMAIN Pages /\ Filters # {} /\ Settings # {}
  /\ {MaxVersions, MaxLoads, MaxEdits} \subseteq Nat \ {0}

This == Pages[page]

Row == [of : Filters, version : 1..MaxVersions, fields : 1..MaxVersions]
Get ==
  [of : Filters, revision : 1..MaxLoads, state : {"asked", "read", "failed"}, row : Row \union {None}]
Sent ==
  [what : UNION {Pages[p].calls : p \in PageNames}, row : Row \union {None}, of : Filters,
   state : {"sent", "made", "failed", "listed"}, gives : Row \union {None}, list : 0..MaxLoads]

Filled == [as : Settings, edit : 1..MaxEdits]
Attempt == [settings : Settings, request : Nat]

ASSUME PageValues == None \notin Row \union Sent \union Attempt

PagesTypeOK ==
  /\ page \in PageNames
  /\ stored \in [version : 1..MaxVersions, fields : 1..MaxVersions, others : 1..MaxVersions]
  /\ {edited, chosen, shown} \subseteq Row \union {None}
  /\ loads \subseteq Get /\ call \in Sent \union {None}
  /\ {loading, busy, missed} \subseteq BOOLEAN
  /\ settings \in Filled /\ pending \in Attempt \union {None}

Asked(f, n) == [of |-> f, revision |-> n, state |-> "asked", row |-> None]
SentAs(c, row) == [what |-> c, row |-> row, of |-> filter, state |-> "sent", gives |-> None, list |-> 0]

PagesInit ==
  /\ page \in PageNames
  /\ stored = [version |-> 1, fields |-> 1, others |-> 1]
  /\ filter = (CHOOSE f \in Filters : TRUE) /\ loads = {Asked(filter, 1)}
  /\ revision = 1 /\ loading = TRUE /\ busy = FALSE /\ missed = FALSE
  /\ shown = None /\ edited = None /\ chosen = None /\ call = None
  /\ mine = 1
  /\ settings = [as |-> CHOOSE as \in Settings : TRUE, edit |-> 1] /\ pending = None /\ batches = {}

AgentUnchanged == UNCHANGED <<settings, pending, batches>>
ServerUnchanged == UNCHANGED <<page, stored, mine>>
FormUnchanged == UNCHANGED <<edited, chosen>>

RowOf(record, f) == [of |-> f, version |-> record.version, fields |-> record.fields]

-----------------------------------------------------------------------------
(* Another administrator, or another page, changes the record.               *)
ChangedElsewhere ==
  /\ stored.version < MaxVersions
  /\ \/ stored' = [stored EXCEPT !.version = @ + 1]
     \/ stored' = [version |-> stored.version + 1, fields |-> stored.version + 1,
                   others |-> stored.version + 1]
  /\ UNCHANGED <<page, mine, filter, shown, revision, loads, loading, busy, call, missed>>
  /\ FormUnchanged /\ AgentUnchanged

(* load and refresh: a page that takes one at a time does nothing meanwhile. *)
(* Another unit is opened, with its members, only while the page is not busy. *)
AskAgain(f) ==
  IF This.takes = "alone" /\ loading THEN UNCHANGED <<filter, revision, loads, loading>>
  ELSE /\ filter' = f /\ revision' = revision + 1 /\ loading' = TRUE
       /\ loads' = loads \union {Asked(f, revision + 1)}

Load(f) ==
  /\ revision < (IF call = None THEN MaxLoads ELSE MaxLoads - 1)
  /\ This.asks # "never" /\ (This.asks = "idle" => ~busy /\ ~loading)
  /\ page = "members" /\ f # filter => ~busy
  /\ AskAgain(f)
  /\ shown' = IF page = "bundle" THEN None ELSE shown
  /\ chosen' = IF page = "members" /\ f # filter THEN None ELSE chosen
  /\ UNCHANGED <<edited, busy, call, missed>>
  /\ ServerUnchanged /\ AgentUnchanged

ListAnswered(l) ==
  /\ l.state = "asked"
  /\ \E answer \in {[l EXCEPT !.state = "failed"],
                    [l EXCEPT !.state = "read", !.row = RowOf(stored, l.of)]} :
       loads' = (loads \ {l}) \union {answer}
  /\ UNCHANGED <<filter, shown, revision, loading, busy, call, missed>>
  /\ FormUnchanged /\ ServerUnchanged /\ AgentUnchanged

\* Faulty: an answer is shown whatever was asked for since.
TakesAny(l) == l \in loads

Takes(l) ==
  CASE This.takes = "latest" -> l.revision = revision
    [] This.takes = "same" -> l.of = filter
    [] OTHER -> TRUE

(* The answer arrives, in whatever order, or the request failed.             *)
ListArrives(l) ==
  /\ l.state # "asked"
  /\ loads' = loads \ {l}
  /\ IF ~Takes(l) THEN UNCHANGED <<shown, loading, missed, edited>>
     ELSE /\ loading' = FALSE
          /\ missed' = (l.state = "failed")
          /\ shown' = IF l.state = "read" THEN l.row ELSE IF page = "picker" THEN None ELSE shown
          /\ edited' = IF This.fills /\ l.state = "read" THEN l.row ELSE edited
  /\ IF call # None /\ call.state = "listed" /\ call.list = l.revision
     THEN busy' = FALSE /\ call' = None
     ELSE UNCHANGED <<busy, call>>
  /\ UNCHANGED <<filter, revision, chosen>>
  /\ ServerUnchanged /\ AgentUnchanged

-----------------------------------------------------------------------------
(* edit and create; a row is set aside until the change to it is confirmed.  *)
Edit ==
  /\ ~busy /\ shown # None /\ ~This.fills
  /\ \E c \in This.calls : c.from \in {"form", "draft"}
  /\ \E row \in {shown, None} : edited' = row /\ row # edited
  /\ chosen' \in {None} \union (IF page = "structure" /\ edited' = None THEN {chosen} ELSE {})
  /\ UNCHANGED <<filter, shown, revision, loads, loading, busy, call, missed>>
  /\ ServerUnchanged /\ AgentUnchanged

Choose ==
  /\ ~busy /\ shown # None /\ shown # chosen
  /\ \E c \in This.calls : c.from = "chosen"
  /\ chosen' = shown
  /\ UNCHANGED <<edited, filter, shown, revision, loads, loading, busy, call, missed>>
  /\ ServerUnchanged /\ AgentUnchanged

(* A price is saved from a draft, against the price the page shows by then.  *)
RowFor(c) ==
  CASE c.from = "form" -> edited [] c.from = "chosen" -> chosen [] c.from = "row" -> shown
    [] c.from = "draft" /\ edited # None -> [edited EXCEPT !.version = shown.version]
    [] OTHER -> None

(* save, archive, disable and the others.                                    *)
Send(c) ==
  /\ ~busy /\ revision < MaxLoads
  /\ page = "spending" /\ c.from = "form" => ~loading
  /\ IF c.from = "new" THEN c = CreateForm => edited = None ELSE RowFor(c) # None
  /\ busy' = TRUE
  /\ call' = SentAs(c, RowFor(c))
  /\ UNCHANGED <<filter, shown, revision, loads, loading, missed>>
  /\ FormUnchanged /\ ServerUnchanged /\ AgentUnchanged

OnItsWay == call # None /\ call.state = "sent"

(* The control plane compares the version, and a member with its unit; a call *)
(* without a version may leave the record's own version as it is.            *)
Allowed ==
  /\ call.what.checked => call.row.version = stored.version
  /\ page = "members" /\ call.row # None => call.row.of = call.of

Carries ==
  /\ OnItsWay /\ call.what # NewAgents
  /\ Allowed
  /\ \/ ~call.what.checked /\ UNCHANGED stored
     \/ /\ stored.version < MaxVersions
        /\ stored' = [stored EXCEPT !.version = @ + 1,
                        !.fields = IF call.what.changes = "fields" THEN stored.version + 1 ELSE @]
  /\ call' \in {[call EXCEPT !.state = "failed"],
                [call EXCEPT !.state = "made", !.gives = RowOf(stored', call.of)]}
  /\ UNCHANGED <<page, mine, filter, shown, revision, loads, loading, busy, missed>>
  /\ FormUnchanged /\ AgentUnchanged

(* It is refused, or does not arrive.                                        *)
Declines ==
  /\ OnItsWay
  /\ call' = [call EXCEPT !.state = "failed"]
  /\ UNCHANGED <<filter, shown, revision, loads, loading, busy, missed>>
  /\ FormUnchanged /\ ServerUnchanged /\ AgentUnchanged

(* The list is asked for again, and some pages stay busy until it is back;   *)
(* a page that takes one list at a time asks for none if one is under way.   *)
WaitsForList ==
  /\ AskAgain(filter)
  /\ IF This.waits /\ ~(This.takes = "alone" /\ loading)
     THEN call' = [call EXCEPT !.state = "listed", !.list = revision + 1] /\ UNCHANGED busy
     ELSE call' = None /\ busy' = FALSE

(* What the page does with a change that was made: the profile is not asked  *)
(* for again, every list is.                                                 *)
Made ==
  /\ call # None /\ call.state = "made" /\ call.what # NewAgents
  /\ mine' = call.gives.version
  /\ edited' = CASE call.what.after = "reopen" -> call.gives
               [] call.what.after = "renew" -> [edited EXCEPT !.version = call.gives.version]
               [] call.what.after = "close" -> None
               [] OTHER -> edited
  /\ chosen' = IF call.what.after \in {"keep", "renew"} THEN chosen ELSE None
  /\ IF page = "tenant" THEN call' = None /\ busy' = FALSE /\ UNCHANGED <<filter, revision, loads, loading>>
     ELSE WaitsForList
  /\ UNCHANGED <<page, stored, shown, missed>> /\ AgentUnchanged

NotMade ==
  /\ call # None /\ call.state = "failed"
  /\ call' = None /\ busy' = FALSE
  /\ IF page = "reconciliations" THEN chosen' = None /\ AskAgain(filter)
     ELSE UNCHANGED <<chosen, filter, revision, loads, loading>>
  /\ UNCHANGED <<edited, shown, missed>> /\ ServerUnchanged /\ AgentUnchanged

-----------------------------------------------------------------------------
(* New agents: an attempt keeps its request while the settings stay, and the *)
(* control plane carries a request out once (AgentProvisioning).             *)
Fill ==
  /\ page = "agents" /\ ~busy /\ settings.edit < MaxEdits
  /\ \E as \in Settings \ {settings.as} : settings' = [as |-> as, edit |-> settings.edit + 1]
  /\ pending' \in {pending, None}
  /\ UNCHANGED <<batches, filter, shown, revision, loads, loading, busy, call, missed>>
  /\ FormUnchanged /\ ServerUnchanged

SameAttempt == pending # None /\ pending.settings = settings.as

CreateAgents ==
  /\ page = "agents" /\ ~busy /\ ~loading /\ shown # None /\ revision < MaxLoads
  /\ IF SameAttempt THEN UNCHANGED <<pending, batches>>
     ELSE LET request == Cardinality(batches) + 1
          IN  /\ pending' = [settings |-> settings.as, request |-> request]
              /\ batches' = batches \union {[request |-> request, edit |-> settings.edit, made |-> FALSE]}
  /\ busy' = TRUE
  /\ call' = SentAs(NewAgents, None)
  /\ UNCHANGED <<settings, filter, shown, revision, loads, loading, missed>>
  /\ FormUnchanged /\ ServerUnchanged

CarriesBatch ==
  /\ OnItsWay /\ call.what = NewAgents
  /\ batches' = {[b EXCEPT !.made = @ \/ b.request = pending.request] : b \in batches}
  /\ \E state \in {"made", "failed"} : call' = [call EXCEPT !.state = state]
  /\ UNCHANGED <<settings, pending, filter, shown, revision, loads, loading, busy, missed>>
  /\ FormUnchanged /\ ServerUnchanged

BatchMade ==
  /\ call # None /\ call.state = "made" /\ call.what = NewAgents
  /\ settings.edit < MaxEdits /\ settings' = [settings EXCEPT !.edit = @ + 1]
  /\ pending' = None
  /\ WaitsForList
  /\ UNCHANGED <<batches, shown, missed>>
  /\ FormUnchanged /\ ServerUnchanged

-----------------------------------------------------------------------------
PagesNext ==
  \/ ChangedElsewhere \/ Edit \/ Choose \/ Carries \/ Declines \/ Made \/ NotMade
  \/ Fill \/ CreateAgents \/ CarriesBatch \/ BatchMade
  \/ \E f \in Filters : Load(f)
  \/ \E l \in loads : ListAnswered(l) \/ ListArrives(l)
  \/ \E c \in This.calls \ {NewAgents} : Send(c)

PagesSpec == PagesInit /\ [][PagesNext]_pageVars

-----------------------------------------------------------------------------
(* A search is answered late, another is under way: what stays on the screen *)
(* is of what was last asked for.                                            *)
ShowsWhatIsAsked ==
  This.takes # "any" /\ loads = {} /\ ~missed => shown.of = filter

(* loading is shown while the list last asked for is under way, no longer    *)
(* and no shorter.                                                           *)
LoadingShown ==
  This.takes \in {"latest", "alone"} /\ page # "members" => loading = \E l \in loads : l.revision = revision

(* After a change of one's own the list is not older than the change, whatever *)
(* other lists were under way when it was made.                              *)
OwnChangeShown ==
  (This.takes = "latest" \/ page \in {"spending", "prices"}) /\ loads = {} /\ call = None /\ ~missed
    => shown.version >= mine

(* "Retrying unchanged settings is safe and will not create duplicates."     *)
RetriesOnce == \A b, c \in batches : b.made /\ c.made /\ b.edit = c.edit => b = c

PagesSound == PagesTypeOK /\ ShowsWhatIsAsked /\ LoadingShown /\ OwnChangeShown /\ RetriesOnce

(* A form that was opened before somebody else changed its fields never      *)
(* puts the old ones back.  Prices are the exception: a draft is compared by *)
(* the price shown when it is saved, not by the one it was made from.        *)
NothingUndone ==
  [][stored'.fields > stored.fields /\ stored'.others = stored.others /\ page # "prices"
       => call.row.fields >= stored.others]_pageVars
=============================================================================
