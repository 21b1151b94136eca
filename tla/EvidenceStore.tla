---------------------------- MODULE EvidenceStore ----------------------------
(***************************************************************************)
(* One run's directory under FileEvidenceStore (packages/evidence-store):  *)
(* the NDJSON event log, the snapshot, content-addressed artifacts with    *)
(* their metadata, and the replay manifest that digests them all.          *)
(*                                                                         *)
(* withRunLock serialises the mutating operations of the process, so at    *)
(* most one of them (op) is under way; each file-system effect is a step   *)
(* of its own, because an unlocked verification reads between the steps    *)
(* and the process may be killed between them.  The waiting operations are *)
(* not state: any of them may be next.                                     *)
(*                                                                         *)
(* A digest is the value it digests.  Left out: schemas, redaction, paths, *)
(* sizes and hashing; losses of the page cache (a killed process does not  *)
(* lose what it has written).                                              *)
(***************************************************************************)
EXTENDS Naturals, Sequences, SequencesExt

CONSTANTS
  Keys,       \* event keys
  Snapshots,  \* runs a caller may store: records with a state and a source
  Hashes,     \* contents of artifacts, named by their SHA-256
  Roles,      \* media type and role of an artifact
  MaxEvents,  \* bound on event IDs
  MaxMishaps, \* bound on crashes and I/O errors
  None

Event == [id: 1..MaxEvents, key: Keys]

Manifest == [log: Seq(Event), count: Nat, snapshot: Snapshots, artifacts: SUBSET Hashes]

ASSUME NoneIsOutside == None \notin Snapshots /\ None \notin Manifest
ASSUME BoundsAreNumbers == MaxEvents \in Nat /\ MaxMishaps \in Nat

VARIABLES
  log,       \* the committed lines of events.ndjson
  torn,      \* bytes follow its last newline
  snapshot,  \* the stored run, or None
  content,   \* the hashes under artifacts/sha256
  metadata,  \* artifacts/metadata: hash -> role
  leftovers, \* directories with a temporary file that nobody will rename
  manifest,  \* the replay manifest, or None
  op,        \* the operation that holds the run lock, or Idle
  reader,    \* the verifyReplayManifest call, which takes no lock
  acked,     \* events whose appendEvent has resolved
  changed,   \* the log or the snapshot were written after the manifest
  refusal,   \* why the last buildReplayManifest was refused, or "none"
  mishaps

files == <<log, torn, snapshot, content, metadata, leftovers, manifest>>
history == <<acked, changed, refusal, mishaps>>
vars == <<files, op, reader, history>>

Idle == [kind |-> "idle", step |-> "idle"]
NotReading == [step |-> "idle", manifest |-> None]

Init ==
  /\ log = <<>> /\ torn = FALSE
  /\ snapshot = None
  /\ content = {} /\ metadata = [h \in {} |-> None]
  /\ leftovers = {}
  /\ manifest = None
  /\ op = Idle /\ reader = NotReading
  /\ acked = {} /\ changed = FALSE /\ refusal = "none" /\ mishaps = 0

At(kind, step) == op.kind = kind /\ op.step = step
Goto(step) == op' = [op EXCEPT !.step = step]

-----------------------------------------------------------------------------
(* withRunLock: an operation starts when no other holds the lock *)

Start(o) == op = Idle /\ op' = o /\ UNCHANGED <<files, reader, history>>

\* Mutant: appends without repairing the tail first.
StartAppendUnrecovered(e) == Start([kind |-> "append", step |-> "write", event |-> e])

StartAppend(e) == Start([kind |-> "append", step |-> "recover", event |-> e])
StartRead == Start([kind |-> "read", step |-> "recover"])
StartSnapshot(s) == Start([kind |-> "snapshot", step |-> "temp", value |-> s])

\* Mutant: skips the content.
StartPutRegistering(h, r) ==
  Start([kind |-> "put", step |-> "metadata", hash |-> h, role |-> r])

StartPut(h, r) == Start([kind |-> "put", step |-> "content", hash |-> h, role |-> r])

\* Mutant: writes a manifest that was never collected.
StartBuildWriting == Start([kind |-> "build", step |-> "temp", value |-> None])

StartBuild == Start([kind |-> "build", step |-> "recover", value |-> None])

-----------------------------------------------------------------------------
(* The event log *)

\* Mutant: cuts the last committed line together with the fragment.
TruncatedTooFar == IF torn /\ log # <<>> THEN Front(log) ELSE log

\* What is left of the log when the file is cut after its last newline.
Truncated == log

\* recoverEventLogUnlocked, before everything else that reads the log.  readEvents
\* and recoverEventLog then only return.
Recover ==
  /\ op.step = "recover"
  /\ log' = Truncated
  /\ torn' = FALSE
  /\ changed' = (changed \/ torn)
  /\ op' = CASE op.kind = "append" -> [op EXCEPT !.step = "write"]
             [] op.kind = "build"  -> [op EXCEPT !.step = "collect"]
             [] op.kind = "read"   -> Idle
  /\ UNCHANGED <<snapshot, content, metadata, leftovers, manifest, reader, acked, refusal, mishaps>>

\* readEventsFromPath accepts the file: no fragment, IDs count from 1, no key twice.
LogReads ==
  /\ ~torn
  /\ \A i \in DOMAIN log : log[i].id = i
  /\ \A i, j \in DOMAIN log : log[i].key = log[j].key => i = j

\* Mutant: a key may be persisted twice.
IsNextId(e) == e.id = Len(log) + 1

\* The event carries the next ID and a key of its own.
IsNext(e) == e.id = Len(log) + 1 /\ \A i \in DOMAIN log : log[i].key # e.key

RefuseAppend ==
  /\ At("append", "write")
  /\ ~(LogReads /\ IsNext(op.event))
  /\ op' = Idle
  /\ UNCHANGED <<files, reader, history>>

WriteLine ==
  /\ At("append", "write")
  /\ LogReads /\ IsNext(op.event)
  /\ log' = Append(log, op.event)
  /\ changed' = TRUE
  /\ Goto("resolve")
  /\ UNCHANGED <<torn, snapshot, content, metadata, leftovers, manifest, reader, acked, refusal,
                 mishaps>>

\* The write fails half-way: appendEvent rejects and a fragment stays.
TearLine ==
  /\ At("append", "write")
  /\ LogReads /\ IsNext(op.event)
  /\ mishaps < MaxMishaps
  /\ torn' = TRUE
  /\ changed' = TRUE
  /\ mishaps' = mishaps + 1
  /\ op' = Idle
  /\ UNCHANGED <<log, snapshot, content, metadata, leftovers, manifest, reader, acked, refusal>>

ResolveAppend ==
  /\ At("append", "resolve")
  /\ acked' = acked \cup {op.event}
  /\ op' = Idle
  /\ UNCHANGED <<files, reader, changed, refusal, mishaps>>

-----------------------------------------------------------------------------
(* Decisions of putArtifact and buildReplayManifest before they write *)

CheckContent ==
  /\ At("put", "content")
  /\ Goto(IF op.hash \in content THEN "metadata" ELSE "temp")
  /\ UNCHANGED <<files, reader, history>>

\* Content that is registered keeps its metadata: the call returns them, or
\* rejects when its own media type or role differ.
Registrable(h) == h \notin DOMAIN metadata

CheckMetadata ==
  /\ At("put", "metadata")
  /\ op' = IF Registrable(op.hash) THEN [op EXCEPT !.step = "metadata-temp"] ELSE Idle
  /\ UNCHANGED <<files, reader, history>>

\* Mutant: counts the events before the last.
DigestShort ==
  [log |-> log, count |-> Len(log) - 1, snapshot |-> snapshot, artifacts |-> DOMAIN metadata]

Digest ==
  [log |-> log, count |-> Len(log), snapshot |-> snapshot, artifacts |-> DOMAIN metadata]

\* The reasons to refuse a manifest, in the order of the code.  A temporary file
\* beside the metadata is an unexpected name; metadata whose content is missing
\* cannot be digested.
Refusal ==
  IF ~LogReads THEN "log"
  ELSE IF log = <<>> THEN "no-events"
  ELSE IF snapshot = None THEN "no-snapshot"
  ELSE IF snapshot.source = None THEN "no-source"
  ELSE IF "metadata" \in leftovers THEN "unexpected-name"
  ELSE IF ~(DOMAIN metadata \subseteq content) THEN "no-content"
  ELSE "none"

Collect ==
  /\ At("build", "collect")
  /\ refusal' = Refusal
  /\ op' = IF Refusal = "none" THEN [op EXCEPT !.step = "temp", !.value = Digest] ELSE Idle
  /\ UNCHANGED <<files, reader, acked, changed, mishaps>>

-----------------------------------------------------------------------------
(* atomicWrite: a temporary file in the directory of its destination is     *)
(* written, synced and renamed                                             *)

Writing == op.step \in {"temp", "metadata-temp"}
Renaming == op.step \in {"rename", "metadata-rename"}

Directory ==
  IF op.kind # "put" THEN "run"
  ELSE IF op.step \in {"metadata-temp", "metadata-rename"} THEN "metadata" ELSE "content"

FillTemporary ==
  /\ Writing
  /\ Goto(IF op.step = "temp" THEN "rename" ELSE "metadata-rename")
  /\ UNCHANGED <<files, reader, history>>

RenameSnapshot ==
  /\ At("snapshot", "rename")
  /\ snapshot' = op.value
  /\ changed' = TRUE
  /\ op' = Idle
  /\ UNCHANGED <<log, torn, content, metadata, leftovers, manifest, reader, acked, refusal, mishaps>>

RenameContent ==
  /\ At("put", "rename")
  /\ content' = content \cup {op.hash}
  /\ Goto("metadata")
  /\ UNCHANGED <<log, torn, snapshot, metadata, leftovers, manifest, reader, history>>

RenameMetadata ==
  /\ At("put", "metadata-rename")
  /\ metadata' = [h \in DOMAIN metadata \cup {op.hash} |->
                    IF h = op.hash THEN op.role ELSE metadata[h]]
  /\ op' = Idle
  /\ UNCHANGED <<log, torn, snapshot, content, leftovers, manifest, reader, history>>

RenameManifest ==
  /\ At("build", "rename")
  /\ manifest' = op.value
  /\ changed' = FALSE
  /\ op' = Idle
  /\ UNCHANGED <<log, torn, snapshot, content, metadata, leftovers, reader, acked, refusal, mishaps>>

\* Opening, writing or syncing the temporary file fails: once it is there, nothing
\* removes it.
FailTemporary ==
  /\ Writing
  /\ mishaps < MaxMishaps
  /\ leftovers' \in {leftovers, leftovers \cup {Directory}}
  /\ mishaps' = mishaps + 1
  /\ op' = Idle
  /\ UNCHANGED <<log, torn, snapshot, content, metadata, manifest, reader, acked, changed, refusal>>

\* The rename fails: the finally block removes the temporary file.
FailRename ==
  /\ Renaming
  /\ mishaps < MaxMishaps
  /\ mishaps' = mishaps + 1
  /\ op' = Idle
  /\ UNCHANGED <<files, reader, acked, changed, refusal>>

\* Syncing what is written or renamed fails, or the metadata cannot be read: the call
\* rejects, and its effect stays.
FailAfterEffect ==
  /\ At("append", "resolve") \/ At("put", "metadata")
  /\ mishaps < MaxMishaps
  /\ mishaps' = mishaps + 1
  /\ op' = Idle
  /\ UNCHANGED <<files, reader, acked, changed, refusal>>

\* The process is killed: locks and calls are gone, files are as they are.
Crash ==
  /\ op # Idle
  /\ mishaps < MaxMishaps
  /\ torn' \in IF At("append", "write") /\ LogReads /\ IsNext(op.event) THEN BOOLEAN ELSE {torn}
  /\ changed' = (changed \/ torn' # torn)
  /\ leftovers' \in
       {leftovers} \cup (IF Writing \/ Renaming THEN {leftovers \cup {Directory}} ELSE {})
  /\ mishaps' = mishaps + 1
  /\ op' = Idle
  /\ reader' = NotReading
  /\ UNCHANGED <<log, snapshot, content, metadata, manifest, acked, refusal>>

-----------------------------------------------------------------------------
(* verifyReplayManifest: reads file after file, without the lock *)

ReadManifest ==
  /\ reader = NotReading
  /\ manifest # None
  /\ reader' = [step |-> "log-digest", manifest |-> manifest]
  /\ UNCHANGED <<files, op, history>>

\* One check of the call, which goes on or throws.
Check(step, holds, next) ==
  /\ reader.step = step
  /\ reader' = [reader EXCEPT !.step = IF holds THEN next ELSE "failed"]
  /\ UNCHANGED <<files, op, history>>

VerifyLogDigest ==
  Check("log-digest", ~torn /\ log = reader.manifest.log, "log-bounds")

\* The log is read a second time to parse it.
VerifyLogBounds ==
  Check("log-bounds", LogReads /\ Len(log) = reader.manifest.count, "snapshot-digest")

VerifySnapshotDigest ==
  Check("snapshot-digest", snapshot = reader.manifest.snapshot, "snapshot-state")

\* So is the snapshot.
VerifySnapshotState ==
  Check("snapshot-state",
        /\ snapshot.state = reader.manifest.snapshot.state
        /\ snapshot.source # None
        /\ snapshot.source = reader.manifest.snapshot.source,
        "artifacts")

VerifyArtifacts ==
  Check("artifacts", reader.manifest.artifacts \subseteq content, "verified")

Return ==
  /\ reader.step \in {"verified", "failed"}
  /\ reader' = NotReading
  /\ UNCHANGED <<files, op, history>>

-----------------------------------------------------------------------------
Begin ==
  \/ \E e \in Event : StartAppend(e)
  \/ \E s \in Snapshots : StartSnapshot(s)
  \/ \E h \in Hashes, r \in Roles : StartPut(h, r)
  \/ StartRead
  \/ StartBuild

Proceed ==
  \/ Recover \/ RefuseAppend \/ WriteLine \/ ResolveAppend
  \/ CheckContent \/ CheckMetadata \/ Collect \/ FillTemporary
  \/ RenameSnapshot \/ RenameContent \/ RenameMetadata \/ RenameManifest

Mishap == TearLine \/ FailTemporary \/ FailRename \/ FailAfterEffect \/ Crash

Verify ==
  \/ ReadManifest \/ VerifyLogDigest \/ VerifyLogBounds \/ VerifySnapshotDigest
  \/ VerifySnapshotState \/ VerifyArtifacts \/ Return

Next == Begin \/ Proceed \/ Mishap \/ Verify

Spec == Init /\ [][Next]_vars

-----------------------------------------------------------------------------
(* Properties *)

Operation ==
  {Idle}
  \cup [kind: {"append"}, step: {"recover", "write", "resolve"}, event: Event]
  \cup [kind: {"read"}, step: {"recover"}]
  \cup [kind: {"snapshot"}, step: {"temp", "rename"}, value: Snapshots]
  \cup [kind: {"put"}, hash: Hashes, role: Roles,
        step: {"content", "temp", "rename", "metadata", "metadata-temp", "metadata-rename"}]
  \cup [kind: {"build"}, step: {"recover", "collect"}, value: {None}]
  \cup [kind: {"build"}, step: {"temp", "rename"}, value: Manifest]

ReaderSteps ==
  {"log-digest", "log-bounds", "snapshot-digest", "snapshot-state", "artifacts", "verified",
   "failed"}

\* The shape of the directory and of the calls.
TypeOK ==
  /\ log \in Seq(Event) /\ torn \in BOOLEAN
  /\ snapshot \in Snapshots \cup {None}
  /\ content \subseteq Hashes
  /\ DOMAIN metadata \subseteq Hashes /\ metadata \in [DOMAIN metadata -> Roles]
  /\ leftovers \subseteq {"run", "content", "metadata"}
  /\ manifest = None \/ manifest \in Manifest
  /\ op \in Operation
  /\ reader = NotReading \/ reader \in [step: ReaderSteps, manifest: Manifest]
  /\ acked \subseteq Event /\ changed \in BOOLEAN /\ mishaps \in 0..MaxMishaps

\* An event whose append has resolved is in the log for good, at the place its ID
\* names, whatever crashes, torn writes and recoveries follow.
AckedEventsSurvive == \A e \in acked : e.id <= Len(log) /\ log[e.id] = e

\* Whatever is appended, in whichever order and however often it is tried again,
\* the committed lines remain a log that readEvents accepts: it never locks itself
\* out of a run.
LogStaysReadable ==
  /\ \A i \in DOMAIN log : log[i].id = i
  /\ \A i, j \in DOMAIN log : log[i].key = log[j].key => i = j

\* An earlier crash or failed write is no reason to refuse an event: appendEvent
\* refuses only an event that is not the next one or whose key the log holds.
RefusalsAreEarned ==
  [][At("append", "write") /\ op' = Idle /\ mishaps' = mishaps => ~IsNext(op.event)]_vars

\* No artifact is registered without its content, at no crash point of putArtifact:
\* what a manifest lists can be digested.
RegisteredHasContent == DOMAIN metadata \subseteq content

\* Registered metadata are immutable, also when the same content is stored again
\* under another role.
MetadataImmutable ==
  [][\A h \in DOMAIN metadata : h \in DOMAIN metadata' /\ metadata'[h] = metadata[h]]_vars

\* A verification without the lock can fail, but only because log or snapshot were
\* written since the manifest, or because another manifest has replaced it.
FreshManifestVerifies ==
  [][reader'.step = "failed" /\ reader.step # "failed"
       => changed \/ reader.manifest # manifest]_vars

\* A verification that succeeds speaks of committed events: they are still the
\* beginning of the log, its snapshot has a source, and its artifacts are there,
\* although operations ran between its reads.
VerifiedReplayStands ==
  reader.step = "verified" =>
    LET m == reader.manifest
    IN  /\ IsPrefix(m.log, log) /\ m.count = Len(m.log) /\ m.log # <<>>
        /\ m.snapshot.source # None
        /\ m.artifacts \subseteq content

\* What callers and readers may take for granted of the directory, its operations, crashes and
\* repairs hidden: a log that only grows, manifests of one moment, verifications of what is
\* on record, registrations that stay.
Contract == INSTANCE RecordContract WITH
  Events <- Event,
  record <- log,
  run <- snapshot,
  registered <- metadata,
  sealed <- manifest,
  vouched <- IF reader.step = "verified" THEN reader.manifest ELSE None

RecordContractSpec == Contract!Spec

\* A crash or a failed write leaves nothing behind that refuses the manifest of a run
\* with a readable log, a snapshot and all its artifacts.
ManifestSurvivesCrash == refusal # "unexpected-name"

-----------------------------------------------------------------------------
(* Why they hold: an inductive invariant.                                  *)

\* What a manifest that could be built says stays true, and says all while neither log nor
\* snapshot is written.
Sound(m) ==
  /\ IsPrefix(m.log, log) /\ m.count = Len(m.log) /\ m.log # <<>>
  /\ m.snapshot.source # None
  /\ m.artifacts \subseteq content

Describes(m) == Sound(m) /\ ~torn /\ m.log = log /\ m.snapshot = snapshot

\* What an operation has made sure of by the step it is at.
OpInStep ==
  /\ At("append", "write") \/ At("build", "collect") => ~torn
  /\ At("append", "resolve") => op.event.id <= Len(log) /\ log[op.event.id] = op.event
  /\ op.kind = "put" /\ op.step \in {"metadata", "metadata-temp", "metadata-rename"} =>
       op.hash \in content
  /\ op.kind = "put" /\ op.step \in {"metadata-temp", "metadata-rename"} =>
       op.hash \notin DOMAIN metadata
  /\ At("build", "temp") \/ At("build", "rename") => Describes(op.value)

ManifestKept ==
  /\ manifest # None => Sound(manifest) /\ (~changed => Describes(manifest))
  /\ reader # NotReading => Sound(reader.manifest)

StoreInv ==
  /\ TypeOK /\ AckedEventsSurvive /\ LogStaysReadable /\ RegisteredHasContent
  /\ OpInStep /\ ManifestKept

\* Why the store implements its contract: what a build is about to write is the digest of now,
\* and what manifests list stays registered.
SealInv ==
  /\ At("build", "temp") \/ At("build", "rename") =>
       op.value = Digest /\ log # <<>> /\ snapshot # None /\ snapshot.source # None
  /\ manifest # None => manifest.artifacts \subseteq DOMAIN metadata
  /\ reader # NotReading => reader.manifest.artifacts \subseteq DOMAIN metadata
=============================================================================
