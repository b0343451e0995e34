--------------------------- MODULE ArtifactStore ---------------------------
(* Artifacts of runs: ArtifactService over an object store.  A row is        *)
(* reserved in one transaction, the bytes are put outside any transaction,   *)
(* either by the control plane or by the execution runtime with a            *)
(* permission, and another transaction says that they are stored; a run      *)
(* registers them; retention removes the bytes first and marks the row       *)
(* afterwards.  The process may stop between any two of these, and nothing   *)
(* keeps an upload or a registration from arriving while its row is removed: *)
(* `overtaken` remembers the artifacts to which that happened.               *)
EXTENDS Absent, Integers, FiniteSets

CONSTANTS
  Artifacts,
  Held,                 \* those of class LEGAL_HOLD, which never expire
  Ephemeral,            \* those of class EPHEMERAL, kept as long as what nobody registers
  MAX_RUN_ARTIFACTS,    \* the quota of the run
  MaxTampers,           \* how often the store loses or alters bytes
  MaxUnderWay           \* bound: uploads, permissions, checks and retrievals at the same time

ASSUME ArtifactAssumption ==
  /\ Held \subseteq Artifacts /\ Ephemeral \subseteq Artifacts \ Held
  /\ MAX_RUN_ARTIFACTS \in Nat /\ MaxTampers \in Nat /\ MaxUnderWay \in Nat

VARIABLES
  running,      \* whether the run is RUNNING
  artifact,     \* the row of each artifact, or None
  bytes,        \* what the store has under its key, or None
  old,          \* rows older than UNREGISTERED_ARTIFACT_MS
  expired,      \* rows whose expires_at has passed
  permits,      \* direct uploads that are still permitted
  uploads,      \* uploads through the control plane: after reserve, after put
  checks,       \* direct uploads that were read back, with what was read
  removals,     \* removals under way: listed, or with the bytes deleted
  tampered,     \* artifacts whose bytes the store lost or altered
  reads,        \* artifacts whose row a retrieval has read, and not yet the bytes
  selected,     \* history: artifacts a removal has selected
  overtaken     \* history: those whose bytes were put, or that were registered, after that

historyVars == <<selected, overtaken>>
artifactVars == <<running, artifact, bytes, old, expired, permits, uploads, checks, removals, tampered, reads,
                  selected, overtaken>>

State == {"PENDING", "STORED", "REGISTERED", "DELETED"}

ASSUME ArtifactNames == None \notin State \cup {"declared", "other"}

Is(a, states) == artifact[a] \in states
Present(a) == artifact[a] # None

Due(a) ==
  \/ Is(a, {"REGISTERED"}) /\ a \in expired
  \/ Is(a, {"PENDING", "STORED"}) /\ a \in old

ArtifactInit ==
  /\ running = TRUE
  /\ artifact = [a \in Artifacts |-> None]
  /\ bytes = [a \in Artifacts |-> None]
  /\ old = {} /\ expired = {} /\ permits = {} /\ uploads = {} /\ checks = {} /\ removals = {} /\ tampered = {}
  /\ reads = {} /\ selected = {} /\ overtaken = {}

(***************************************************************************)
(* Uploads                                                                 *)
(***************************************************************************)
MoreFits == Cardinality(uploads) + Cardinality(permits) + Cardinality(checks) + Cardinality(reads) < MaxUnderWay

\* A row of its own under the quota, or the row of an earlier attempt.
Reserved(a) ==
  \/ artifact[a] = None /\ Cardinality({x \in Artifacts : Present(x) /\ artifact[x] # "DELETED"}) < MAX_RUN_ARTIFACTS
  \/ artifact[a] = "PENDING"

ReserveRow(a) == Reserved(a) /\ artifact' = [artifact EXCEPT ![a] = "PENDING"]

\* What arrives after a removal selected the row is not kept out.
Overtakes(a) == overtaken' = IF a \in selected THEN overtaken \cup {a} ELSE overtaken

\* put and delete of the object store: either may happen although its answer is lost.
StorePut(a) == bytes' = [bytes EXCEPT ![a] = "declared"] /\ Overtakes(a)
StoreDelete(a) == bytes' = [bytes EXCEPT ![a] = None]

\* keep: the bytes were compared with the declaration before.
Keep(a) ==
  /\ running /\ MoreFits
  /\ ReserveRow(a)
  /\ uploads' = uploads \cup {[artifact |-> a, at |-> "reserved"]}
  /\ UNCHANGED <<running, bytes, old, expired, permits, checks, removals, tampered, reads, historyVars>>

Put(u) ==
  /\ u.at = "reserved"
  /\ StorePut(u.artifact)
  /\ uploads' = (uploads \ {u}) \cup {[u EXCEPT !.at = "put"]}
  /\ UNCHANGED <<running, artifact, old, expired, permits, checks, removals, tampered, reads, selected>>

\* Only a PENDING row becomes STORED; the answer does not depend on it.
MarkStored(a) == artifact' = IF artifact[a] = "PENDING" THEN [artifact EXCEPT ![a] = "STORED"] ELSE artifact

KeepStored(u) ==
  /\ u.at = "put"
  /\ MarkStored(u.artifact)
  /\ uploads' = uploads \ {u}
  /\ UNCHANGED <<running, bytes, old, expired, permits, checks, removals, tampered, reads, historyVars>>

\* Faulty: a failure of the store is not noticed.
UploadFailsUnnoticed(u) ==
  /\ MarkStored(u.artifact)
  /\ uploads' = uploads \ {u}
  /\ UNCHANGED <<running, bytes, old, expired, permits, checks, removals, tampered, reads, historyVars>>

\* The store refused the bytes, or its answer was lost, or the process stopped: the row stays PENDING.
UploadFails(u) ==
  /\ uploads' = uploads \ {u}
  /\ (u.at = "reserved" /\ StorePut(u.artifact)) \/ UNCHANGED <<bytes, overtaken>>
  /\ UNCHANGED <<running, artifact, old, expired, permits, checks, removals, tampered, reads, selected>>

AuthorizeDirect(a) ==
  /\ running /\ MoreFits
  /\ ReserveRow(a)
  /\ permits' = permits \cup {a}
  /\ UNCHANGED <<running, bytes, old, expired, uploads, checks, removals, tampered, reads, historyVars>>

\* A permission the control plane signed, for a store that signs none: the row must be PENDING.
ReceiveDirect(a) == artifact[a] = "PENDING" /\ StorePut(a)

\* A permission of the store binds key, size, hash and type, not the state of the row.
SignedPut(a) == StorePut(a)

DirectPut(a) ==
  /\ a \in permits
  /\ ReceiveDirect(a) \/ SignedPut(a)
  /\ UNCHANGED <<running, artifact, old, expired, permits, uploads, checks, removals, tampered, reads, selected>>

PermitEnds(a) ==
  /\ a \in permits
  /\ permits' = permits \ {a}
  /\ UNCHANGED <<running, artifact, bytes, old, expired, uploads, checks, removals, tampered, reads, historyVars>>

\* completeDirectUpload reads the bytes back, outside any transaction.
ReadBack(a) ==
  /\ running /\ MoreFits
  /\ artifact[a] = "PENDING" /\ bytes[a] # None
  /\ checks' = checks \cup {[artifact |-> a, read |-> bytes[a]]}
  /\ UNCHANGED <<running, artifact, bytes, old, expired, permits, uploads, removals, tampered, reads, historyVars>>

DirectStored(c) ==
  /\ c.read = "declared"
  /\ MarkStored(c.artifact)
  /\ checks' = checks \ {c}
  /\ UNCHANGED <<running, bytes, old, expired, permits, uploads, removals, tampered, reads, historyVars>>

\* Not what was declared: remove looks at the row again before it deletes anything.
DirectRefused(c) ==
  /\ c.read # "declared"
  /\ checks' = checks \ {c}
  /\ removals' = IF artifact[c.artifact] = "DELETED" THEN removals
                 ELSE removals \cup {[artifact |-> c.artifact, at |-> "listed"]}
  /\ selected' = selected \cup {c.artifact}
  /\ UNCHANGED <<running, artifact, bytes, old, expired, permits, uploads, tampered, reads, overtaken>>

CheckDropped(c) ==
  /\ checks' = checks \ {c}
  /\ UNCHANGED <<running, artifact, bytes, old, expired, permits, uploads, removals, tampered, reads, historyVars>>

\* The event artifact.created names an object that is STORED.
RegisterArtifact(a) ==
  /\ running
  /\ artifact[a] = "STORED"
  /\ artifact' = [artifact EXCEPT ![a] = "REGISTERED"]
  /\ Overtakes(a)
  /\ UNCHANGED <<running, bytes, old, expired, permits, uploads, checks, removals, tampered, reads, selected>>

RunEnds ==
  /\ running
  /\ running' = FALSE
  /\ UNCHANGED <<artifact, bytes, old, expired, permits, uploads, checks, removals, tampered, reads, historyVars>>

(***************************************************************************)
(* Retention                                                               *)
(***************************************************************************)
Listed(set) == {[artifact |-> a, at |-> "listed"] : a \in set}

\* enforceRetention selects what is due; remove reads each row again later.
ListDue ==
  /\ \E a \in Artifacts : Due(a)
  /\ removals' = removals \cup Listed({a \in Artifacts : Due(a)})
  /\ selected' = selected \cup {a \in Artifacts : Due(a)}
  /\ UNCHANGED <<running, artifact, bytes, old, expired, permits, uploads, checks, tampered, reads, overtaken>>

DeleteBytes(d) ==
  /\ d.at = "listed"
  /\ IF artifact[d.artifact] = "DELETED"
       THEN removals' = removals \ {d} /\ UNCHANGED bytes
       ELSE /\ StoreDelete(d.artifact)
            /\ removals' = (removals \ {d}) \cup {[d EXCEPT !.at = "deleted"]}
  /\ UNCHANGED <<running, artifact, old, expired, permits, uploads, checks, tampered, reads, historyVars>>

MarkDeleted(d) ==
  /\ d.at = "deleted"
  /\ artifact' = [artifact EXCEPT ![d.artifact] = "DELETED"]
  /\ removals' = removals \ {d}
  /\ UNCHANGED <<running, bytes, old, expired, permits, uploads, checks, tampered, reads, historyVars>>

\* The store fails, or its answer is lost, or the process stops: the next pass finds it again.
RemovalFails(d) ==
  /\ removals' = removals \ {d}
  /\ (d.at = "listed" /\ artifact[d.artifact] # "DELETED" /\ StoreDelete(d.artifact)) \/ UNCHANGED bytes
  /\ UNCHANGED <<running, artifact, old, expired, permits, uploads, checks, tampered, reads, historyVars>>

(***************************************************************************)
(* Retrieval, by a person who may read the run and holds a permission      *)
(***************************************************************************)
\* The permission of a minute and its presentation ask the same of the row.
Retrievable(a) == artifact[a] = "REGISTERED"

Retrieve(a) ==
  /\ Retrievable(a)
  /\ MoreFits
  /\ reads' = reads \cup {a}
  /\ UNCHANGED <<running, artifact, bytes, old, expired, permits, uploads, checks, removals, tampered, historyVars>>

\* What the retrieval records when it reads the bytes now: missing or different ones are an
\* integrity failure.  It is an audit event, which nothing reads.
Verdict(a) == IF bytes[a] = "declared" THEN "artifact.retrieved" ELSE "artifact.integrity_failed"

\* The bytes are read, or the store does not answer, or the process stops.
RetrieveEnds(a) ==
  /\ a \in reads
  /\ reads' = reads \ {a}
  /\ UNCHANGED <<running, artifact, bytes, old, expired, permits, uploads, checks, removals, tampered, historyVars>>

(***************************************************************************)
(* Time and the store                                                      *)
(***************************************************************************)
\* The row becomes UNREGISTERED_ARTIFACT_MS old, whatever is under way for it.  The time of
\* class EPHEMERAL ends with that moment, that of every other class later.
Ages(a) ==
  /\ Present(a) /\ a \notin old
  /\ a \in Ephemeral => a \in expired
  /\ old' = old \cup {a}
  /\ UNCHANGED <<running, artifact, bytes, expired, permits, uploads, checks, removals, tampered, reads, historyVars>>

Expires(a) ==
  /\ Present(a) /\ a \notin Held \cup expired
  /\ a \notin Ephemeral => a \in old
  /\ expired' = expired \cup {a}
  /\ UNCHANGED <<running, artifact, bytes, old, permits, uploads, checks, removals, tampered, reads, historyVars>>

Tamper(a) ==
  /\ Cardinality(tampered) < MaxTampers
  /\ bytes[a] # None
  /\ \E b \in {None, "other"} : bytes' = [bytes EXCEPT ![a] = b]
  /\ tampered' = tampered \cup {a}
  /\ UNCHANGED <<running, artifact, old, expired, permits, uploads, checks, removals, reads, historyVars>>

ArtifactNext ==
  \/ \E a \in Artifacts :
       \/ Keep(a) \/ AuthorizeDirect(a) \/ DirectPut(a) \/ PermitEnds(a) \/ ReadBack(a) \/ RegisterArtifact(a)
       \/ Ages(a) \/ Expires(a) \/ Tamper(a) \/ Retrieve(a) \/ RetrieveEnds(a)
  \/ \E u \in uploads : Put(u) \/ KeepStored(u) \/ UploadFails(u)
  \/ \E c \in checks : DirectStored(c) \/ DirectRefused(c) \/ CheckDropped(c)
  \/ \E d \in removals : DeleteBytes(d) \/ MarkDeleted(d) \/ RemovalFails(d)
  \/ ListDue
  \/ RunEnds

ArtifactSpec == ArtifactInit /\ [][ArtifactNext]_artifactVars

RemoveBytes(a) == \E d \in removals : d.artifact = a /\ DeleteBytes(d)
RemoveRow(a) == \E d \in removals : d.artifact = a /\ MarkDeleted(d)

\* The housekeeping timer passes again and again, and the store does not fail for ever.
ArtifactFairness ==
  /\ WF_artifactVars(ListDue)
  /\ \A a \in Artifacts : SF_artifactVars(RemoveBytes(a)) /\ SF_artifactVars(RemoveRow(a))

(***************************************************************************)
(* Properties                                                              *)
(***************************************************************************)
\* The state has its type; only what was reserved is aged, permitted or removed.
ArtifactTypeOK ==
  /\ running \in BOOLEAN
  /\ artifact \in [Artifacts -> State \cup {None}]
  /\ bytes \in [Artifacts -> {None, "declared", "other"}]
  /\ uploads \subseteq [artifact : Artifacts, at : {"reserved", "put"}]
  /\ checks \subseteq [artifact : Artifacts, read : {"declared", "other"}]
  /\ removals \subseteq [artifact : Artifacts, at : {"listed", "deleted"}]
  /\ expired \subseteq (old \cup Ephemeral) \ Held
  /\ tampered \subseteq Artifacts
  /\ reads \subseteq Artifacts
  /\ overtaken \subseteq selected /\ selected \subseteq Artifacts
  /\ \A a \in Artifacts : artifact[a] = None =>
       /\ bytes[a] = None
       /\ a \notin old \cup expired \cup permits \cup {u.artifact : u \in uploads} \cup {c.artifact : c \in checks}
                       \cup {d.artifact : d \in removals}

\* A row that says its bytes are stored has exactly those bytes behind it until it is due,
\* whatever uploads of it failed, were repeated or overlapped.
BytesBehindRow ==
  \A a \in Artifacts \ (tampered \cup overtaken) :
    Is(a, {"STORED", "REGISTERED"}) /\ ~Due(a) => bytes[a] = "declared"

\* Bytes are removed first, so a row is never marked deleted while its bytes remain
\* (enforceRetention), also when the process stops between the two.
DeletedBytesGone ==
  \A a \in Artifacts \ (tampered \cup overtaken) : artifact[a] = "DELETED" => bytes[a] = None

\* An integrity failure is recorded only of an artifact whose bytes the store lost or altered,
\* whose time ended while it was retrieved (retrieve reads the row, then the bytes), or that
\* arrived while it was removed.
AlarmsTrue ==
  \A a \in reads : Verdict(a) = "artifact.integrity_failed" => a \in tampered \cup expired \cup overtaken

\* What the rows promise of the bytes, through every upload, removal and retrieval that overlaps
\* or fails.
ArtifactsSound == ArtifactTypeOK /\ BytesBehindRow /\ DeletedBytesGone /\ AlarmsTrue

Stays(a) == artifact'[a] = "REGISTERED" /\ (a \notin tampered' => bytes'[a] = bytes[a])

\* "Removes the bytes of artifacts whose retention ended and of uploads no run registered"
\* (enforceRetention): what a run registered stays until its retention ends.
KeptUntilDue ==
  [][\A a \in Artifacts \ tampered : artifact[a] = "REGISTERED" /\ a \notin expired => Stays(a)]_artifactVars

\* It does, unless the run registered it after a removal had selected it: also when it was
\* registered late, uploaded again or stored twice, and under LEGAL_HOLD for ever.
KeptUnlessOvertaken ==
  [][\A a \in Artifacts \ (tampered \cup overtaken) :
       artifact[a] = "REGISTERED" /\ a \notin expired => Stays(a)]_artifactVars

\* af_artifact_object_transition: what the table lets a row do after it was inserted.
RowMoves ==
  {<<"PENDING", "STORED">>, <<"PENDING", "DELETED">>, <<"STORED", "REGISTERED">>,
   <<"STORED", "DELETED">>, <<"REGISTERED", "DELETED">>}

\* No upload that was overtaken, repeated or finished late moves a row back, or makes the table
\* refuse it (KeepStored, DirectStored and MarkDeleted write what they decided earlier).
RowsForward ==
  [][\A a \in Artifacts : artifact'[a] # artifact[a] =>
       \/ artifact[a] = None /\ artifact'[a] = "PENDING"
       \/ <<artifact[a], artifact'[a]>> \in RowMoves]_artifactVars

\* Nothing whose time is over is left.
NothingDue == \A a \in Artifacts : ~Due(a)
=============================================================================
