------------------------- MODULE EvidenceStoreProofs -------------------------
(***************************************************************************)
(* Proofs about EvidenceStore, for any number of events, keys, contents    *)
(* and mishaps: StoreInv is inductive, and the properties follow from it.  *)
(***************************************************************************)
EXTENDS EvidenceStore, SequenceTheorems, TLAPS

-----------------------------------------------------------------------------
(* Prefixes and operations *)

\* A prefix is what agrees with the sequence at every place of its own.
LEMMA PrefixByPlaces ==
  ASSUME NEW S, NEW s \in Seq(S), NEW t \in Seq(S)
  PROVE  IsPrefix(s, t) <=> Len(s) <= Len(t) /\ \A i \in 1 .. Len(s) : s[i] = t[i]
<1>1. SubSeq(s, 1, Len(s)) = s
  BY SubSeqFull
<1>2. CASE Len(s) <= Len(t)
  <2>1. /\ SubSeq(t, 1, Len(s)) \in Seq(S) /\ Len(SubSeq(t, 1, Len(s))) = Len(s)
        /\ \A i \in 1 .. Len(s) : SubSeq(t, 1, Len(s))[i] = t[i]
    BY <1>2, SubSeqProperties
  <2>2. s = SubSeq(t, 1, Len(s)) <=> \A i \in 1 .. Len(s) : s[i] = SubSeq(t, 1, Len(s))[i]
    BY <2>1, SeqEqual
  <2>3. QED
    BY <1>1, <1>2, <2>1, <2>2 DEF IsPrefix
<1>3. QED
  BY <1>2 DEF IsPrefix

\* An operation by its kind.
LEMMA Kinds ==
  ASSUME op \in Operation
  PROVE  /\ op.kind \in {"idle", "append", "read", "snapshot", "put", "build"}
         /\ op.kind = "idle" => op = Idle
         /\ op.kind = "append" =>
              op \in [kind: {"append"}, step: {"recover", "write", "resolve"}, event: Event]
         /\ op.kind = "read" => op \in [kind: {"read"}, step: {"recover"}]
         /\ op.kind = "snapshot" =>
              op \in [kind: {"snapshot"}, step: {"temp", "rename"}, value: Snapshots]
         /\ op.kind = "put" =>
              op \in [kind: {"put"}, hash: Hashes, role: Roles,
                      step: {"content", "temp", "rename", "metadata", "metadata-temp",
                             "metadata-rename"}]
         /\ op.kind = "build" =>
              \/ op \in [kind: {"build"}, step: {"recover", "collect"}, value: {None}]
              \/ op \in [kind: {"build"}, step: {"temp", "rename"}, value: Manifest]
  BY DEF Operation, Idle

\* Prefixes of prefixes.
LEMMA PrefixTransitive ==
  ASSUME NEW S, NEW r \in Seq(S), NEW s \in Seq(S), NEW t \in Seq(S),
         IsPrefix(r, s), IsPrefix(s, t)
  PROVE  IsPrefix(r, t)
<1>1. /\ Len(r) <= Len(s) /\ \A i \in 1 .. Len(r) : r[i] = s[i]
      /\ Len(s) <= Len(t) /\ \A i \in 1 .. Len(s) : s[i] = t[i]
  BY PrefixByPlaces
<1>2. Len(r) \in Nat /\ Len(s) \in Nat /\ Len(t) \in Nat
  OBVIOUS
<1>3. Len(r) <= Len(t) /\ \A i \in 1 .. Len(r) : r[i] = t[i]
  BY <1>1, <1>2
<1>4. QED
  BY <1>3, PrefixByPlaces

LEMMA PrefixReflexive ==
  ASSUME NEW S, NEW s \in Seq(S)
  PROVE  IsPrefix(s, s)
  BY PrefixByPlaces

LEMMA InitiallyStoreInv == Init => StoreInv
<1> SUFFICES ASSUME Init PROVE StoreInv
  OBVIOUS
<1>1. TypeOK
  <2>1. DOMAIN metadata \subseteq Hashes /\ metadata \in [DOMAIN metadata -> Roles]
    BY DEF Init
  <2>2. log \in Seq(Event) /\ mishaps \in 0 .. MaxMishaps
    BY BoundsAreNumbers DEF Init
  <2>3. op \in Operation
    BY DEF Init, Operation
  <2>4. QED
    BY <2>1, <2>2, <2>3 DEF Init, TypeOK
<1>2. AckedEventsSurvive /\ LogStaysReadable /\ RegisteredHasContent
  BY DEF Init, AckedEventsSurvive, LogStaysReadable, RegisteredHasContent
<1>3. OpInStep /\ ManifestKept
  BY DEF Init, OpInStep, ManifestKept, At, Idle
<1>4. QED
  BY <1>1, <1>2, <1>3 DEF StoreInv

-----------------------------------------------------------------------------
(* Steps that change no file, apart from temporary ones *)

\* The parts of the invariant that do not look at the operation.
LEMMA FilesStay ==
  ASSUME StoreInv, UNCHANGED <<log, torn, snapshot, content, metadata, manifest, changed>>
  PROVE  /\ LogStaysReadable' /\ RegisteredHasContent'
         /\ acked' = acked => AckedEventsSurvive'
         /\ reader' \in {reader, NotReading} => ManifestKept'
<1>1. LogStaysReadable' /\ RegisteredHasContent'
  BY DEF StoreInv, LogStaysReadable, RegisteredHasContent
<1>2. acked' = acked => AckedEventsSurvive'
  BY DEF StoreInv, AckedEventsSurvive
<1>3. reader' \in {reader, NotReading} => ManifestKept'
  BY DEF StoreInv, ManifestKept, Sound, Describes, NotReading
<1>4. QED
  BY <1>1, <1>2, <1>3

\* An operation starts.
LEMMA BeginKeeps == StoreInv /\ Begin => StoreInv'
<1> SUFFICES ASSUME StoreInv, Begin PROVE StoreInv'
  OBVIOUS
<1>1. /\ UNCHANGED <<log, torn, snapshot, content, metadata, leftovers, manifest>>
      /\ UNCHANGED <<reader, acked, changed, refusal, mishaps>>
  BY DEF Begin, Start, StartAppend, StartRead, StartSnapshot, StartPut, StartBuild, files, history
<1>2. op' \in Operation
  BY DEF Begin, Start, StartAppend, StartRead, StartSnapshot, StartPut, StartBuild, Operation
<1>3. OpInStep'
  BY DEF Begin, Start, StartAppend, StartRead, StartSnapshot, StartPut, StartBuild, OpInStep, At
<1>4. TypeOK'
  BY <1>1, <1>2 DEF StoreInv, TypeOK
<1>5. QED
  BY <1>1, <1>3, <1>4, FilesStay DEF StoreInv

\* The operation is over.
LEMMA IdleInStep == op' = Idle => OpInStep' /\ op' \in Operation
  BY DEF OpInStep, At, Idle, Operation

\* It decides, or has its temporary file.
LEMMA DecisionsKeep ==
  ASSUME StoreInv, RefuseAppend \/ CheckContent \/ CheckMetadata \/ FillTemporary
  PROVE  StoreInv'
<1>1. /\ UNCHANGED <<log, torn, snapshot, content, metadata, leftovers, manifest>>
      /\ UNCHANGED <<reader, acked, changed, refusal, mishaps>>
  BY DEF RefuseAppend, CheckContent, CheckMetadata, FillTemporary, files, history
<1>2. op' \in Operation /\ OpInStep'
  <2>1. CASE RefuseAppend
    BY <2>1, IdleInStep DEF RefuseAppend
  <2>2. CASE CheckContent
    BY <2>2, <1>1, Kinds DEF CheckContent, StoreInv, TypeOK, OpInStep, At, Goto, Operation
  <2>3. CASE CheckMetadata
    BY <2>3, <1>1, Kinds, IdleInStep
       DEF CheckMetadata, StoreInv, TypeOK, OpInStep, At, Registrable, Operation
  <2>4. CASE FillTemporary
    <3>1. op.step \in {"temp", "metadata-temp"}
      BY <2>4 DEF FillTemporary, Writing
    <3>2. op' = [op EXCEPT !.step = IF op.step = "temp" THEN "rename" ELSE "metadata-rename"]
      BY <2>4 DEF FillTemporary, Goto
    <3>3. CASE op.kind = "snapshot"
      BY <3>1, <3>2, <3>3, Kinds DEF StoreInv, TypeOK, OpInStep, At, Operation
    <3>4. CASE op.kind = "put"
      BY <1>1, <3>1, <3>2, <3>4, Kinds DEF StoreInv, TypeOK, OpInStep, At, Operation
    <3>5. CASE op.kind = "build"
      <4>1. op \in [kind: {"build"}, step: {"temp", "rename"}, value: Manifest]
        BY <3>1, <3>5, Kinds DEF StoreInv, TypeOK
      <4>2. op' \in [kind: {"build"}, step: {"temp", "rename"}, value: Manifest]
        BY <3>1, <3>2, <4>1
      <4>3. op'.value = op.value /\ Describes(op.value)
        BY <3>1, <3>2, <4>1 DEF StoreInv, OpInStep, At
      <4>4. Describes(op.value)'
        BY <1>1, <4>3 DEF Describes, Sound
      <4>5. QED
        BY <4>2, <4>4 DEF OpInStep, At, Operation
    <3>6. QED
      BY <3>1, <3>3, <3>4, <3>5, Kinds DEF StoreInv, TypeOK, Idle
  <2>5. QED
    BY <2>1, <2>2, <2>3, <2>4
<1>3. TypeOK'
  BY <1>1, <1>2 DEF StoreInv, TypeOK
<1>4. QED
  BY <1>1, <1>2, <1>3, FilesStay DEF StoreInv

\* The digest of a build is a manifest that describes the run.
LEMMA CollectKeeps == StoreInv /\ Collect => StoreInv'
<1> SUFFICES ASSUME StoreInv, Collect PROVE StoreInv'
  OBVIOUS
<1>1. /\ UNCHANGED <<log, torn, snapshot, content, metadata, leftovers, manifest>>
      /\ UNCHANGED <<reader, acked, changed, mishaps>>
      /\ op.kind = "build" /\ op.step = "collect"
      /\ op' = IF Refusal = "none" THEN [op EXCEPT !.step = "temp", !.value = Digest] ELSE Idle
  BY DEF Collect, files, At
<1>2. op \in [kind: {"build"}, step: {"recover", "collect"}, value: {None}]
  BY <1>1, Kinds DEF StoreInv, TypeOK
<1>3. CASE Refusal = "none"
  <2>1. /\ LogReads /\ log # <<>> /\ snapshot # None /\ snapshot.source # None
        /\ DOMAIN metadata \subseteq content
    BY <1>3 DEF Refusal
  <2>2. Digest \in Manifest
    BY <2>1 DEF Digest, Manifest, StoreInv, TypeOK
  <2>3. op' \in [kind: {"build"}, step: {"temp", "rename"}, value: Manifest]
        /\ op'.value = Digest
    BY <1>1, <1>2, <1>3, <2>2
  <2>4. IsPrefix(log, log)
    BY PrefixReflexive DEF StoreInv, TypeOK
  <2>5. Describes(op'.value)
    BY <2>1, <2>3, <2>4 DEF Describes, Sound, Digest, LogReads
  <2>6. Describes(op.value)'
    BY <1>1, <2>5 DEF Describes, Sound
  <2>7. QED
    <3>1. op' \in Operation /\ OpInStep'
      BY <2>3, <2>6 DEF OpInStep, At, Operation
    <3>2. TypeOK'
      BY <1>1, <3>1 DEF StoreInv, TypeOK
    <3>3. QED
      BY <1>1, <3>1, <3>2, FilesStay DEF StoreInv
<1>4. CASE op' = Idle
  <2>1. TypeOK'
    BY <1>1, <1>4, IdleInStep DEF StoreInv, TypeOK
  <2>2. QED
    BY <1>1, <1>4, <2>1, IdleInStep, FilesStay DEF StoreInv
<1>5. QED
  BY <1>1, <1>3, <1>4

\* An append resolves: its event is in the log.
LEMMA ResolveKeeps == StoreInv /\ ResolveAppend => StoreInv'
<1> SUFFICES ASSUME StoreInv, ResolveAppend PROVE StoreInv'
  OBVIOUS
<1>1. /\ UNCHANGED <<log, torn, snapshot, content, metadata, leftovers, manifest>>
      /\ UNCHANGED <<reader, changed, refusal, mishaps>>
      /\ acked' = acked \cup {op.event} /\ op' = Idle
      /\ op.event.id <= Len(log) /\ log[op.event.id] = op.event
  BY DEF ResolveAppend, files, StoreInv, OpInStep
<1>2. op.event \in Event
  BY Kinds DEF ResolveAppend, At, StoreInv, TypeOK
<1>3. AckedEventsSurvive'
  BY <1>1 DEF StoreInv, AckedEventsSurvive
<1>4. TypeOK'
  BY <1>1, <1>2, IdleInStep DEF StoreInv, TypeOK
<1>5. QED
  BY <1>1, <1>3, <1>4, IdleInStep, FilesStay DEF StoreInv

-----------------------------------------------------------------------------
(* Steps that write the log *)

\* A log that grows keeps the prefixes it has.
LEMMA SoundGrows ==
  ASSUME TypeOK, NEW m \in Manifest, Sound(m), NEW e \in Event,
         log' = Append(log, e), content \subseteq content'
  PROVE  Sound(m)'
<1>1. log \in Seq(Event) /\ log' \in Seq(Event) /\ m.log \in Seq(Event)
  BY DEF TypeOK, Manifest
<1>2. IsPrefix(log, log')
  <2>1. Len(log) <= Len(log') /\ \A i \in 1 .. Len(log) : log[i] = log'[i]
    BY <1>1
  <2>2. QED
    BY <1>1, <2>1, PrefixByPlaces
<1>3. IsPrefix(m.log, log')
  BY <1>1, <1>2, PrefixTransitive DEF Sound
<1>4. QED
  BY <1>3 DEF Sound

\* The tail is repaired: committed lines stay.
LEMMA RecoverKeeps == StoreInv /\ Recover => StoreInv'
<1> SUFFICES ASSUME StoreInv, Recover PROVE StoreInv'
  OBVIOUS
<1>1. /\ UNCHANGED <<log, snapshot, content, metadata, leftovers, manifest>>
      /\ UNCHANGED <<reader, acked, refusal, mishaps>>
      /\ torn' = FALSE /\ changed' = (changed \/ torn)
      /\ op.step = "recover"
  BY DEF Recover, Truncated
<1>2. op' \in Operation /\ OpInStep'
  <2>1. CASE op.kind = "append"
    <3>1. op' = [op EXCEPT !.step = "write"]
      BY <2>1 DEF Recover
    <3>2. QED
      BY <1>1, <2>1, <3>1, Kinds DEF StoreInv, TypeOK, OpInStep, At, Operation
  <2>2. CASE op.kind = "build"
    <3>1. op' = [op EXCEPT !.step = "collect"]
      BY <2>2 DEF Recover
    <3>2. op \in [kind: {"build"}, step: {"recover", "collect"}, value: {None}]
      BY <1>1, <2>2, Kinds DEF StoreInv, TypeOK
    <3>3. op' \in [kind: {"build"}, step: {"recover", "collect"}, value: {None}]
          /\ op'.step = "collect"
      BY <3>1, <3>2
    <3>4. QED
      BY <1>1, <3>3 DEF OpInStep, At, Operation
  <2>3. CASE op.kind = "read"
    BY <2>3, IdleInStep DEF Recover
  <2>4. QED
    BY <1>1, <2>1, <2>2, <2>3, Kinds DEF StoreInv, TypeOK, Idle
<1>3. AckedEventsSurvive' /\ LogStaysReadable' /\ RegisteredHasContent'
  BY <1>1 DEF StoreInv, AckedEventsSurvive, LogStaysReadable, RegisteredHasContent
<1>4. ManifestKept'
  BY <1>1 DEF StoreInv, ManifestKept, Sound, Describes
<1>5. TypeOK'
  BY <1>1, <1>2 DEF StoreInv, TypeOK
<1>6. QED
  BY <1>2, <1>3, <1>4, <1>5 DEF StoreInv

\* A line is committed: it is the next one, and its key is new.
LEMMA WriteLineKeeps == StoreInv /\ WriteLine => StoreInv'
<1> SUFFICES ASSUME StoreInv, WriteLine PROVE StoreInv'
  OBVIOUS
<1>1. /\ UNCHANGED <<torn, snapshot, content, metadata, leftovers, manifest>>
      /\ UNCHANGED <<reader, acked, refusal, mishaps>>
      /\ log' = Append(log, op.event) /\ changed' = TRUE
      /\ LogReads /\ IsNext(op.event)
      /\ op.kind = "append" /\ op.step = "write" /\ op' = [op EXCEPT !.step = "resolve"]
  BY DEF WriteLine, At, Goto
<1>2. op \in [kind: {"append"}, step: {"recover", "write", "resolve"}, event: Event]
  BY <1>1, Kinds DEF StoreInv, TypeOK
<1>3. /\ op' \in [kind: {"append"}, step: {"recover", "write", "resolve"}, event: Event]
      /\ op'.event = op.event /\ op'.step = "resolve" /\ op'.kind = "append"
      /\ op.event \in Event
  BY <1>1, <1>2
<1>4. /\ log \in Seq(Event) /\ log' \in Seq(Event) /\ Len(log') = Len(log) + 1
      /\ Len(log) \in Nat
      /\ \A i \in 1 .. Len(log) : log'[i] = log[i]
      /\ log'[Len(log) + 1] = op.event
      /\ DOMAIN log = 1 .. Len(log) /\ DOMAIN log' = 1 .. Len(log) + 1
  BY <1>1, <1>3 DEF StoreInv, TypeOK
<1>5. TypeOK'
  BY <1>1, <1>3, <1>4 DEF StoreInv, TypeOK, Operation
<1>6. AckedEventsSurvive'
  <2>1. \A e \in acked : e.id \in 1 .. MaxEvents /\ e.id <= Len(log) /\ log[e.id] = e
    BY DEF StoreInv, TypeOK, AckedEventsSurvive, Event
  <2>2. QED
    BY <1>1, <1>4, <2>1, BoundsAreNumbers DEF AckedEventsSurvive
<1>7. LogStaysReadable'
  <2>1. op.event.id = Len(log) + 1 /\ \A i \in DOMAIN log : log[i].key # op.event.key
    BY <1>1 DEF IsNext
  <2>2. \A i \in DOMAIN log' : log'[i].id = i
    BY <1>1, <1>4, <2>1 DEF LogReads
  <2>3. ASSUME NEW i \in DOMAIN log', NEW j \in DOMAIN log', log'[i].key = log'[j].key
        PROVE  i = j
    <3>1. CASE i \in 1 .. Len(log) /\ j \in 1 .. Len(log)
      BY <1>1, <1>4, <2>3, <3>1 DEF LogReads
    <3>2. CASE i = Len(log) + 1 /\ j \in 1 .. Len(log)
      BY <1>4, <2>1, <2>3, <3>2
    <3>3. CASE i \in 1 .. Len(log) /\ j = Len(log) + 1
      BY <1>4, <2>1, <2>3, <3>3
    <3>4. QED
      BY <1>4, <3>1, <3>2, <3>3
  <2>4. QED
    BY <2>2, <2>3 DEF LogStaysReadable
<1>8. RegisteredHasContent'
  BY <1>1 DEF StoreInv, RegisteredHasContent
<1>9. OpInStep'
  BY <1>1, <1>3, <1>4 DEF OpInStep, At, IsNext
<1>10. ManifestKept'
  <2>1. manifest # None => Sound(manifest)'
    BY <1>1, <1>3, SoundGrows DEF StoreInv, TypeOK, ManifestKept
  <2>2. reader # NotReading => Sound(reader.manifest)'
    BY <1>1, <1>3, SoundGrows DEF StoreInv, TypeOK, ManifestKept
  <2>3. QED
    BY <1>1, <2>1, <2>2 DEF ManifestKept, Sound
<1>11. QED
  BY <1>5, <1>6, <1>7, <1>8, <1>9, <1>10 DEF StoreInv

\* A write fails or is cut short, a rename fails, the process dies: the operation is gone,
\* and with a fragment the log counts as changed.
LEMMA MishapKeeps == StoreInv /\ Mishap => StoreInv'
<1> SUFFICES ASSUME StoreInv, Mishap PROVE StoreInv'
  OBVIOUS
<1>1. /\ UNCHANGED <<log, snapshot, content, metadata, manifest, acked, refusal>>
      /\ op' = Idle /\ reader' \in {reader, NotReading}
      /\ mishaps < MaxMishaps /\ mishaps' = mishaps + 1
  BY DEF Mishap, TearLine, FailTemporary, FailRename, FailAfterEffect, Crash, files
<1>2. leftovers' \subseteq leftovers \cup {Directory}
  BY DEF Mishap, TearLine, FailTemporary, FailRename, FailAfterEffect, Crash, files
<1>3. torn' \in BOOLEAN /\ changed' \in BOOLEAN
      /\ (~changed' => ~changed /\ torn' = torn)
  BY DEF Mishap, TearLine, FailTemporary, FailRename, FailAfterEffect, Crash, files, StoreInv,
         TypeOK
<1>4. TypeOK'
  <2>1. leftovers' \subseteq {"run", "content", "metadata"}
    BY <1>2 DEF Directory, StoreInv, TypeOK
  <2>2. mishaps' \in 0 .. MaxMishaps
    BY <1>1, BoundsAreNumbers DEF StoreInv, TypeOK
  <2>3. QED
    BY <1>1, <1>3, <2>1, <2>2, IdleInStep DEF StoreInv, TypeOK, NotReading
<1>5. AckedEventsSurvive' /\ LogStaysReadable' /\ RegisteredHasContent'
  BY <1>1 DEF StoreInv, AckedEventsSurvive, LogStaysReadable, RegisteredHasContent
<1>6. ManifestKept'
  BY <1>1, <1>3 DEF StoreInv, ManifestKept, Sound, Describes, NotReading
<1>7. QED
  BY <1>1, <1>4, <1>5, <1>6, IdleInStep DEF StoreInv

-----------------------------------------------------------------------------
(* Renames *)

LEMMA RenameSnapshotKeeps == StoreInv /\ RenameSnapshot => StoreInv'
<1> SUFFICES ASSUME StoreInv, RenameSnapshot PROVE StoreInv'
  OBVIOUS
<1>1. /\ UNCHANGED <<log, torn, content, metadata, leftovers, manifest>>
      /\ UNCHANGED <<reader, acked, refusal, mishaps>>
      /\ snapshot' = op.value /\ changed' = TRUE /\ op' = Idle
  BY DEF RenameSnapshot
<1>2. snapshot' \in Snapshots
  BY <1>1, Kinds DEF RenameSnapshot, At, StoreInv, TypeOK
<1>3. TypeOK'
  BY <1>1, <1>2, IdleInStep DEF StoreInv, TypeOK
<1>4. AckedEventsSurvive' /\ LogStaysReadable' /\ RegisteredHasContent'
  BY <1>1 DEF StoreInv, AckedEventsSurvive, LogStaysReadable, RegisteredHasContent
<1>5. ManifestKept'
  BY <1>1 DEF StoreInv, ManifestKept, Sound
<1>6. QED
  BY <1>1, <1>3, <1>4, <1>5, IdleInStep DEF StoreInv

LEMMA RenameContentKeeps == StoreInv /\ RenameContent => StoreInv'
<1> SUFFICES ASSUME StoreInv, RenameContent PROVE StoreInv'
  OBVIOUS
<1>1. /\ UNCHANGED <<log, torn, snapshot, metadata, leftovers, manifest>>
      /\ UNCHANGED <<reader, acked, changed, refusal, mishaps>>
      /\ content' = content \cup {op.hash}
      /\ op.kind = "put" /\ op' = [op EXCEPT !.step = "metadata"]
  BY DEF RenameContent, history, At, Goto
<1>2. op \in [kind: {"put"}, hash: Hashes, role: Roles,
              step: {"content", "temp", "rename", "metadata", "metadata-temp",
                     "metadata-rename"}]
  BY <1>1, Kinds DEF StoreInv, TypeOK
<1>3. op' \in Operation /\ OpInStep'
  BY <1>1, <1>2 DEF Operation, OpInStep, At
<1>4. TypeOK'
  BY <1>1, <1>2, <1>3 DEF StoreInv, TypeOK
<1>5. AckedEventsSurvive' /\ LogStaysReadable' /\ RegisteredHasContent'
  BY <1>1 DEF StoreInv, AckedEventsSurvive, LogStaysReadable, RegisteredHasContent
<1>6. ManifestKept'
  BY <1>1 DEF StoreInv, ManifestKept, Sound, Describes
<1>7. QED
  BY <1>3, <1>4, <1>5, <1>6 DEF StoreInv

LEMMA RenameMetadataKeeps == StoreInv /\ RenameMetadata => StoreInv'
<1> SUFFICES ASSUME StoreInv, RenameMetadata PROVE StoreInv'
  OBVIOUS
<1>1. /\ UNCHANGED <<log, torn, snapshot, content, leftovers, manifest>>
      /\ UNCHANGED <<reader, acked, changed, refusal, mishaps>>
      /\ metadata' = [h \in DOMAIN metadata \cup {op.hash} |->
                        IF h = op.hash THEN op.role ELSE metadata[h]]
      /\ op.kind = "put" /\ op.step = "metadata-rename" /\ op' = Idle
  BY DEF RenameMetadata, history, At
<1>2. op.hash \in Hashes /\ op.role \in Roles
  BY <1>1, Kinds DEF StoreInv, TypeOK
<1>3. op.hash \in content
  BY <1>1 DEF StoreInv, OpInStep
<1>4. DOMAIN metadata' = DOMAIN metadata \cup {op.hash}
  BY <1>1
<1>5. metadata' \in [DOMAIN metadata' -> Roles]
  BY <1>1, <1>2, <1>4 DEF StoreInv, TypeOK
<1>6. TypeOK'
  BY <1>1, <1>2, <1>4, <1>5, IdleInStep DEF StoreInv, TypeOK
<1>7. AckedEventsSurvive' /\ LogStaysReadable' /\ RegisteredHasContent'
  BY <1>1, <1>3, <1>4 DEF StoreInv, AckedEventsSurvive, LogStaysReadable, RegisteredHasContent
<1>8. ManifestKept'
  BY <1>1 DEF StoreInv, ManifestKept, Sound, Describes
<1>9. QED
  BY <1>1, <1>6, <1>7, <1>8, IdleInStep DEF StoreInv

LEMMA RenameManifestKeeps == StoreInv /\ RenameManifest => StoreInv'
<1> SUFFICES ASSUME StoreInv, RenameManifest PROVE StoreInv'
  OBVIOUS
<1>1. /\ UNCHANGED <<log, torn, snapshot, content, metadata, leftovers>>
      /\ UNCHANGED <<reader, acked, refusal, mishaps>>
      /\ manifest' = op.value /\ changed' = FALSE /\ op' = Idle
      /\ op.kind = "build" /\ op.step = "rename"
  BY DEF RenameManifest, At
<1>2. manifest' \in Manifest
  BY <1>1, Kinds DEF StoreInv, TypeOK
<1>3. Describes(op.value)
  BY <1>1 DEF StoreInv, OpInStep, At
<1>4. TypeOK'
  BY <1>1, <1>2, IdleInStep DEF StoreInv, TypeOK
<1>5. AckedEventsSurvive' /\ LogStaysReadable' /\ RegisteredHasContent'
  BY <1>1 DEF StoreInv, AckedEventsSurvive, LogStaysReadable, RegisteredHasContent
<1>6. ManifestKept'
  BY <1>1, <1>3 DEF StoreInv, ManifestKept, Sound, Describes
<1>7. QED
  BY <1>1, <1>4, <1>5, <1>6, IdleInStep DEF StoreInv

-----------------------------------------------------------------------------
(* The verification, which changes only itself *)

LEMMA VerifyKeeps == StoreInv /\ Verify => StoreInv'
<1> SUFFICES ASSUME StoreInv, Verify PROVE StoreInv'
  OBVIOUS
<1>1. /\ UNCHANGED <<log, torn, snapshot, content, metadata, leftovers, manifest, op>>
      /\ UNCHANGED <<acked, changed, refusal, mishaps>>
  BY DEF Verify, ReadManifest, VerifyLogDigest, VerifyLogBounds, VerifySnapshotDigest,
         VerifySnapshotState, VerifyArtifacts, Check, Return, files, history
<1>2. reader' = NotReading
        \/ /\ reader' \in [step: ReaderSteps, manifest: Manifest]
           /\ Sound(reader'.manifest)
  <2>1. CASE ReadManifest
    BY <2>1 DEF ReadManifest, StoreInv, TypeOK, ManifestKept, ReaderSteps
  <2>2. CASE Return
    BY <2>2 DEF Return
  <2>3. ASSUME NEW step \in ReaderSteps, NEW next \in ReaderSteps, NEW holds,
               Check(step, holds, next)
        PROVE  /\ reader' \in [step: ReaderSteps, manifest: Manifest]
               /\ Sound(reader'.manifest)
    <3>1. reader \in [step: ReaderSteps, manifest: Manifest] /\ Sound(reader.manifest)
      BY <2>3 DEF Check, StoreInv, TypeOK, ManifestKept, NotReading, ReaderSteps
    <3>2. reader' = [reader EXCEPT !.step = IF holds THEN next ELSE "failed"]
      BY <2>3 DEF Check
    <3>3. "failed" \in ReaderSteps
      BY DEF ReaderSteps
    <3>4. QED
      BY <3>1, <3>2, <3>3
  <2>4. {"log-digest", "log-bounds", "snapshot-digest", "snapshot-state", "artifacts",
         "verified"} \subseteq ReaderSteps
    BY DEF ReaderSteps
  <2>5. QED
    BY <2>1, <2>2, <2>3, <2>4
       DEF Verify, VerifyLogDigest, VerifyLogBounds, VerifySnapshotDigest, VerifySnapshotState,
           VerifyArtifacts
<1>3. AckedEventsSurvive' /\ LogStaysReadable' /\ RegisteredHasContent' /\ OpInStep'
  BY <1>1 DEF StoreInv, AckedEventsSurvive, LogStaysReadable, RegisteredHasContent, OpInStep, At,
              Describes, Sound
<1>4. ManifestKept'
  <2>1. manifest' # None => Sound(manifest)' /\ (~changed' => Describes(manifest)')
    BY <1>1 DEF StoreInv, ManifestKept, Sound, Describes
  <2>2. reader' # NotReading => Sound(reader.manifest)'
    BY <1>1, <1>2 DEF Sound
  <2>3. QED
    BY <2>1, <2>2 DEF ManifestKept, NotReading
<1>5. TypeOK'
  BY <1>1, <1>2 DEF StoreInv, TypeOK, NotReading
<1>6. QED
  BY <1>3, <1>4, <1>5 DEF StoreInv

-----------------------------------------------------------------------------
(* The theorems *)

LEMMA StepKeeps == StoreInv /\ [Next]_vars => StoreInv'
<1> SUFFICES ASSUME StoreInv, [Next]_vars PROVE StoreInv'
  OBVIOUS
<1>1. CASE Begin
  BY <1>1, BeginKeeps
<1>2. CASE Proceed
  BY <1>2, RecoverKeeps, WriteLineKeeps, ResolveKeeps, DecisionsKeep, CollectKeeps,
     RenameSnapshotKeeps, RenameContentKeeps, RenameMetadataKeeps, RenameManifestKeeps
     DEF Proceed
<1>3. CASE Mishap
  BY <1>3, MishapKeeps
<1>4. CASE Verify
  BY <1>4, VerifyKeeps
<1>5. CASE UNCHANGED vars
  BY <1>5 DEF vars, files, history, StoreInv, TypeOK, AckedEventsSurvive, LogStaysReadable,
              RegisteredHasContent, OpInStep, At, ManifestKept, Describes, Sound
<1>6. QED
  BY <1>1, <1>2, <1>3, <1>4, <1>5 DEF Next

\* The invariant of the run directory: it holds between all file-system effects, crashes and
\* reads of an unlocked verification.
THEOREM StoreInvariant == Spec => []StoreInv
<1>1. Init => StoreInv
  BY InitiallyStoreInv
<1>2. StoreInv /\ [Next]_vars => StoreInv'
  BY StepKeeps
<1>3. QED
  BY <1>1, <1>2, PTL DEF Spec

\* Type correctness of the directory and of the calls.
THEOREM TypeCorrect == Spec => []TypeOK
<1>1. StoreInv => TypeOK
  BY DEF StoreInv
<1>2. QED
  BY <1>1, StoreInvariant, PTL

\* No event whose appendEvent has resolved is lost, whatever crashes and recoveries follow.
THEOREM AckedAreDurable == Spec => []AckedEventsSurvive
<1>1. StoreInv => AckedEventsSurvive
  BY DEF StoreInv
<1>2. QED
  BY <1>1, StoreInvariant, PTL

\* The committed lines are always a log that readEvents accepts.
THEOREM LogReadable == Spec => []LogStaysReadable
<1>1. StoreInv => LogStaysReadable
  BY DEF StoreInv
<1>2. QED
  BY <1>1, StoreInvariant, PTL

\* putArtifact registers no artifact before its content is in place.
THEOREM ContentFirst == Spec => []RegisteredHasContent
<1>1. StoreInv => RegisteredHasContent
  BY DEF StoreInv
<1>2. QED
  BY <1>1, StoreInvariant, PTL

\* A verification that succeeds speaks of committed events, although it takes no lock.
THEOREM VerifiedStands == Spec => []VerifiedReplayStands
<1>1. StoreInv => VerifiedReplayStands
  BY DEF StoreInv, VerifiedReplayStands, ManifestKept, Sound, NotReading
<1>2. QED
  BY <1>1, StoreInvariant, PTL

\* appendEvent refuses only an event that is not next: no crash makes a run unwritable.
THEOREM AppendsAreNotLockedOut == Spec => RefusalsAreEarned
<1>1. StoreInv /\ [Next]_vars
        => [At("append", "write") /\ op' = Idle /\ mishaps' = mishaps => ~IsNext(op.event)]_vars
  <2> SUFFICES ASSUME StoreInv, Next, At("append", "write"), op' = Idle, mishaps' = mishaps,
                      IsNext(op.event)
               PROVE  FALSE
    OBVIOUS
  <2>1. LogReads
    BY DEF StoreInv, OpInStep, LogStaysReadable, LogReads
  <2>2. CASE Begin
    BY <2>2 DEF Begin, Start, StartAppend, StartRead, StartSnapshot, StartPut, StartBuild, Idle, At
  <2>3. CASE Proceed
    <3>1. CASE RefuseAppend
      BY <2>1, <3>1 DEF RefuseAppend
    <3>2. CASE WriteLine
      BY <3>2, Kinds DEF WriteLine, At, Goto, Idle, StoreInv, TypeOK
    <3>3. QED
      BY <2>3, <3>1, <3>2
         DEF Proceed, At, Recover, ResolveAppend, CheckContent, CheckMetadata, Collect,
             FillTemporary, Writing, RenameSnapshot, RenameContent, RenameMetadata, RenameManifest
  <2>4. CASE Mishap
    BY <2>4 DEF Mishap, TearLine, FailTemporary, FailRename, FailAfterEffect, Crash, StoreInv,
                TypeOK
  <2>5. CASE Verify
    BY <2>5 DEF Verify, ReadManifest, VerifyLogDigest, VerifyLogBounds, VerifySnapshotDigest,
                VerifySnapshotState, VerifyArtifacts, Check, Return, At, Idle
  <2>6. QED
    BY <2>2, <2>3, <2>4, <2>5 DEF Next
<1>2. QED
  BY <1>1, StoreInvariant, PTL DEF Spec, RefusalsAreEarned

\* putArtifact never rewrites the metadata of a registered artifact.
THEOREM MetadataStay == Spec => MetadataImmutable
<1>1. StoreInv /\ [Next]_vars
        => [\A h \in DOMAIN metadata : h \in DOMAIN metadata' /\ metadata'[h] = metadata[h]]_vars
  <2> SUFFICES ASSUME StoreInv, Next, NEW h \in DOMAIN metadata
               PROVE  h \in DOMAIN metadata' /\ metadata'[h] = metadata[h]
    OBVIOUS
  <2>1. CASE RenameMetadata
    <3>1. op.hash \notin DOMAIN metadata
      BY <2>1 DEF RenameMetadata, At, StoreInv, OpInStep
    <3>2. QED
      BY <2>1, <3>1 DEF RenameMetadata
  <2>2. CASE metadata' = metadata
    BY <2>2
  <2>3. QED
    BY <2>1, <2>2
       DEF Next, Begin, Start, StartAppend, StartRead, StartSnapshot, StartPut, StartBuild,
           Proceed, Recover, RefuseAppend, WriteLine, ResolveAppend, CheckContent, CheckMetadata,
           Collect, FillTemporary, RenameSnapshot, RenameContent, RenameManifest,
           Mishap, TearLine, FailTemporary, FailRename, FailAfterEffect, Crash,
           Verify, ReadManifest, VerifyLogDigest, VerifyLogBounds, VerifySnapshotDigest,
           VerifySnapshotState, VerifyArtifacts, Check, Return, files, history
<1>2. QED
  BY <1>1, StoreInvariant, PTL DEF Spec, MetadataImmutable

\* verifyReplayManifest fails only after a write of the log or the snapshot, or when another
\* manifest has replaced the one it reads.
THEOREM FreshVerifies == Spec => FreshManifestVerifies
<1>1. StoreInv /\ [Next]_vars
        => [reader'.step = "failed" /\ reader.step # "failed"
              => changed \/ reader.manifest # manifest]_vars
  <2> SUFFICES ASSUME StoreInv, Next, reader'.step = "failed", reader.step # "failed", ~changed,
                      reader.manifest = manifest
               PROVE  FALSE
    OBVIOUS
  <2>1. ASSUME NEW step \in ReaderSteps, NEW holds, NEW next, next # "failed",
               Check(step, holds, next)
        PROVE  /\ reader \in [step: ReaderSteps, manifest: Manifest] /\ ~holds
               /\ LogReads /\ Describes(reader.manifest)
    <3>1. reader \in [step: ReaderSteps, manifest: Manifest]
      BY <2>1 DEF Check, StoreInv, TypeOK, NotReading, ReaderSteps
    <3>2. ~holds
      BY <2>1, <3>1 DEF Check
    <3>3. manifest # None
      BY <3>1, NoneIsOutside
    <3>4. Describes(manifest)
      BY <3>3 DEF StoreInv, ManifestKept
    <3>5. QED
      BY <3>1, <3>2, <3>4 DEF Describes, LogReads, StoreInv, LogStaysReadable
  <2>2. CASE Verify
    <3>1. CASE ReadManifest \/ Return
      BY <3>1 DEF ReadManifest, Return, NotReading
    <3>2. CASE VerifyLogDigest
      BY <2>1, <3>2 DEF VerifyLogDigest, ReaderSteps, Describes
    <3>3. CASE VerifyLogBounds
      BY <2>1, <3>3 DEF VerifyLogBounds, ReaderSteps, Describes, Sound
    <3>4. CASE VerifySnapshotDigest
      BY <2>1, <3>4 DEF VerifySnapshotDigest, ReaderSteps, Describes
    <3>5. CASE VerifySnapshotState
      BY <2>1, <3>5 DEF VerifySnapshotState, ReaderSteps, Describes, Sound
    <3>6. CASE VerifyArtifacts
      BY <2>1, <3>6 DEF VerifyArtifacts, ReaderSteps, Describes, Sound
    <3>7. QED
      BY <2>2, <3>1, <3>2, <3>3, <3>4, <3>5, <3>6 DEF Verify
  <2>3. CASE reader' \in {reader, NotReading}
    BY <2>3 DEF NotReading
  <2>4. QED
    BY <2>2, <2>3
       DEF Next, Begin, Start, StartAppend, StartRead, StartSnapshot, StartPut, StartBuild,
           Proceed, Recover, RefuseAppend, WriteLine, ResolveAppend, CheckContent, CheckMetadata,
           Collect, FillTemporary, RenameSnapshot, RenameContent, RenameMetadata, RenameManifest,
           Mishap, TearLine, FailTemporary, FailRename, FailAfterEffect, Crash, files, history
<1>2. QED
  BY <1>1, StoreInvariant, PTL DEF Spec, FreshManifestVerifies
-----------------------------------------------------------------------------
(* The store implements its contract: SealInv is what that needs beside     *)
(* StoreInv                                                                *)

Sealing == op.kind = "build" /\ op.step \in {"temp", "rename"}

\* Nothing is about to be sealed after the step, registrations stay, and so do the manifests.
LEMMA SealStays ==
  ASSUME SealInv, ~Sealing', DOMAIN metadata \subseteq DOMAIN metadata', manifest' = manifest,
         reader' \in {reader, NotReading}
  PROVE  SealInv'
<1>1. At("build", "temp")' \/ At("build", "rename")' => Sealing'
  BY DEF Sealing, At
<1>2. manifest' # None => manifest'.artifacts \subseteq DOMAIN metadata'
  BY DEF SealInv
<1>3. reader' # NotReading => reader'.manifest.artifacts \subseteq DOMAIN metadata'
  BY DEF SealInv
<1>4. QED
  BY <1>1, <1>2, <1>3 DEF SealInv, At

\* A registration adds to what is registered.
LEMMA RegistersOne ==
  ASSUME RenameMetadata
  PROVE  DOMAIN metadata \subseteq DOMAIN metadata'
  BY DEF RenameMetadata

LEMMA ProceedSeals == StoreInv /\ SealInv /\ Proceed => SealInv'
<1> SUFFICES ASSUME StoreInv, SealInv, Proceed PROVE SealInv'
  OBVIOUS
<1>1. CASE Recover
  <2>1. ~Sealing'
    BY <1>1, Kinds DEF Recover, Sealing, Idle, StoreInv, TypeOK
  <2>2. QED
    BY <1>1, <2>1, SealStays DEF Recover
<1>2. CASE RefuseAppend \/ WriteLine \/ ResolveAppend
  <2>1. ~Sealing'
    BY <1>2, Kinds DEF RefuseAppend, WriteLine, ResolveAppend, At, Goto, Sealing, Idle, StoreInv,
                       TypeOK
  <2>2. QED
    BY <1>2, <2>1, SealStays DEF RefuseAppend, WriteLine, ResolveAppend, files
<1>3. CASE CheckContent \/ CheckMetadata \/ RenameContent
  <2>1. ~Sealing'
    BY <1>3, Kinds DEF CheckContent, CheckMetadata, RenameContent, At, Goto, Sealing, Idle,
                       StoreInv, TypeOK
  <2>2. QED
    BY <1>3, <2>1, SealStays DEF CheckContent, CheckMetadata, RenameContent, files
<1>4. CASE RenameSnapshot \/ RenameMetadata
  <2>1. ~Sealing'
    BY <1>4 DEF RenameSnapshot, RenameMetadata, Sealing, Idle
  <2>2. DOMAIN metadata \subseteq DOMAIN metadata'
    BY <1>4, RegistersOne DEF RenameSnapshot
  <2>3. QED
    BY <1>4, <2>1, <2>2, SealStays DEF RenameSnapshot, RenameMetadata
<1>5. CASE Collect
  <2>1. CASE Refusal = "none"
    <3>1. log # <<>> /\ snapshot # None /\ snapshot.source # None
      BY <2>1 DEF Refusal
    <3>2. op \in [kind: {"build"}, step: {"recover", "collect"}, value: {None}]
      BY <1>5, Kinds DEF Collect, At, StoreInv, TypeOK
    <3>3. op'.value = Digest
      BY <1>5, <2>1, <3>2 DEF Collect
    <3>4. UNCHANGED <<log, snapshot, metadata, manifest, reader>> /\ Digest' = Digest
      BY <1>5 DEF Collect, files, Digest
    <3>5. QED
      BY <3>1, <3>3, <3>4 DEF SealInv
  <2>2. CASE Refusal # "none"
    <3>1. ~Sealing'
      BY <1>5, <2>2 DEF Collect, Sealing, Idle
    <3>2. QED
      BY <1>5, <3>1, SealStays DEF Collect, files
  <2>3. QED
    BY <2>1, <2>2
<1>6. CASE FillTemporary
  <2>1. UNCHANGED <<log, snapshot, metadata, manifest, reader>> /\ Digest' = Digest
    BY <1>6 DEF FillTemporary, files, Digest
  <2>2. op' = [op EXCEPT !.step = IF op.step = "temp" THEN "rename" ELSE "metadata-rename"]
        /\ op.step \in {"temp", "metadata-temp"}
    BY <1>6 DEF FillTemporary, Goto, Writing
  <2>3. CASE op.kind = "build"
    <3>1. op \in [kind: {"build"}, step: {"temp", "rename"}, value: Manifest]
      BY <2>2, <2>3, Kinds DEF StoreInv, TypeOK
    <3>2. op'.value = op.value /\ op.step = "temp"
      BY <2>2, <3>1
    <3>3. op.value = Digest /\ log # <<>> /\ snapshot # None /\ snapshot.source # None
      BY <2>3, <3>2 DEF SealInv, At
    <3>4. QED
      BY <2>1, <3>2, <3>3 DEF SealInv
  <2>4. CASE op.kind # "build"
    <3>1. ~Sealing'
      BY <2>2, <2>4, Kinds DEF Sealing, StoreInv, TypeOK, Idle
    <3>2. QED
      BY <2>1, <3>1, SealStays
  <2>5. QED
    BY <2>3, <2>4
<1>7. CASE RenameManifest
  <2>1. UNCHANGED <<metadata, reader>> /\ manifest' = op.value /\ op' = Idle
    BY <1>7 DEF RenameManifest
  <2>2. op.value.artifacts = DOMAIN metadata
    BY <1>7 DEF RenameManifest, SealInv, Digest
  <2>3. QED
    BY <2>1, <2>2 DEF SealInv, At, Idle
<1>8. QED
  BY <1>1, <1>2, <1>3, <1>4, <1>5, <1>6, <1>7 DEF Proceed

LEMMA VerifySeals == StoreInv /\ SealInv /\ Verify => SealInv'
<1> SUFFICES ASSUME StoreInv, SealInv, Verify PROVE SealInv'
  OBVIOUS
<1>1. UNCHANGED <<log, snapshot, metadata, manifest, op>> /\ Digest' = Digest
  BY DEF Verify, ReadManifest, VerifyLogDigest, VerifyLogBounds, VerifySnapshotDigest,
         VerifySnapshotState, VerifyArtifacts, Check, Return, files, Digest
<1>2. reader' # NotReading => reader'.manifest.artifacts \subseteq DOMAIN metadata'
  <2>1. CASE ReadManifest
    BY <1>1, <2>1 DEF ReadManifest, SealInv
  <2>2. CASE Return
    BY <2>2 DEF Return
  <2>3. ASSUME NEW step \in ReaderSteps, NEW next, NEW holds, Check(step, holds, next)
        PROVE  reader # NotReading /\ reader'.manifest = reader.manifest
    <3>1. reader \in [step: ReaderSteps, manifest: Manifest]
      BY <2>3 DEF Check, StoreInv, TypeOK, NotReading, ReaderSteps
    <3>2. QED
      BY <2>3, <3>1 DEF Check, NotReading, ReaderSteps
  <2>4. CASE reader # NotReading /\ reader'.manifest = reader.manifest
    BY <1>1, <2>4 DEF SealInv
  <2>5. QED
    BY <2>1, <2>2, <2>3, <2>4
       DEF Verify, VerifyLogDigest, VerifyLogBounds, VerifySnapshotDigest, VerifySnapshotState,
           VerifyArtifacts, ReaderSteps
<1>3. QED
  BY <1>1, <1>2 DEF SealInv, At

LEMMA SealKept == StoreInv /\ SealInv /\ [Next]_vars => SealInv'
<1> SUFFICES ASSUME StoreInv, SealInv, [Next]_vars PROVE SealInv'
  OBVIOUS
<1>1. CASE Begin
  <2>1. UNCHANGED <<metadata, manifest, reader>>
    BY <1>1 DEF Begin, Start, StartAppend, StartRead, StartSnapshot, StartPut, StartBuild, files
  <2>2. ~Sealing'
    BY <1>1 DEF Begin, Start, StartAppend, StartRead, StartSnapshot, StartPut, StartBuild, Sealing
  <2>3. QED
    BY <2>1, <2>2, SealStays
<1>2. CASE Proceed
  BY <1>2, ProceedSeals
<1>3. CASE Mishap
  <2>1. /\ UNCHANGED <<metadata, manifest>> /\ op' = Idle
        /\ reader' \in {reader, NotReading}
    BY <1>3 DEF Mishap, TearLine, FailTemporary, FailRename, FailAfterEffect, Crash, files
  <2>2. ~Sealing'
    BY <2>1 DEF Sealing, Idle
  <2>3. QED
    BY <2>1, <2>2, SealStays
<1>4. CASE Verify
  BY <1>4, VerifySeals
<1>5. CASE UNCHANGED vars
  BY <1>5 DEF vars, files, SealInv, At, Digest
<1>6. QED
  BY <1>1, <1>2, <1>3, <1>4, <1>5 DEF Next

\* A build that writes its manifest writes the digest of the run as it is at that moment, and
\* what manifests list stays registered.
THEOREM SealInvariant == Spec => []SealInv
<1>1. Init => SealInv
  BY DEF Init, SealInv, At, Idle
<1>2. StoreInv /\ SealInv /\ [Next]_vars => SealInv'
  BY SealKept
<1>3. QED
  BY <1>1, <1>2, StoreInvariant, PTL DEF Spec

-----------------------------------------------------------------------------
(* Steps of the store are steps of its contract, or nothing to it *)

Vouched == IF reader.step = "verified" THEN reader.manifest ELSE None

\* A step that leaves the files alone and ends no verification, or forgets one.
LEMMA NothingToContract ==
  ASSUME UNCHANGED <<log, snapshot, metadata, manifest>>, Vouched' \in {Vouched, None}
  PROVE  [Contract!Next]_(Contract!contractVars)
  BY DEF Vouched, Contract!Next, Contract!Forget, Contract!contractVars

\* What writes to the files: each a single step of the contract, at the end of many of the
\* store.
LEMMA EffectsMap ==
  ASSUME StoreInv, SealInv, WriteLine \/ RenameSnapshot \/ RenameMetadata \/ RenameManifest
  PROVE  Contract!Next
<1>1. CASE WriteLine
  <2>1. op.event \in Event
    BY <1>1, Kinds DEF WriteLine, At, StoreInv, TypeOK
  <2>2. Contract!Commit(op.event)
    BY <1>1 DEF WriteLine, IsNext, Contract!Commit
  <2>3. QED
    BY <2>1, <2>2 DEF Contract!Next
<1>2. CASE RenameSnapshot
  <2>1. op.value \in Snapshots
    BY <1>2, Kinds DEF RenameSnapshot, At, StoreInv, TypeOK
  <2>2. Contract!Store(op.value)
    BY <1>2 DEF RenameSnapshot, Contract!Store
  <2>3. QED
    BY <2>1, <2>2 DEF Contract!Next
<1>3. CASE RenameMetadata
  <2>1. op.hash \in Hashes /\ op.role \in Roles
    BY <1>3, Kinds DEF RenameMetadata, At, StoreInv, TypeOK
  <2>2. op.hash \notin DOMAIN metadata
    BY <1>3 DEF RenameMetadata, At, StoreInv, OpInStep
  <2>3. Contract!Register(op.hash, op.role)
    BY <1>3, <2>2 DEF RenameMetadata, Contract!Register
  <2>4. QED
    BY <2>1, <2>3 DEF Contract!Next
<1>4. CASE RenameManifest
  <2>1. op.value = Digest /\ log # <<>> /\ snapshot # None /\ snapshot.source # None
    BY <1>4 DEF RenameManifest, SealInv
  <2>2. Contract!Seal
    BY <1>4, <2>1 DEF RenameManifest, Digest, Contract!Seal
  <2>3. QED
    BY <2>2 DEF Contract!Next
<1>5. QED
  BY <1>1, <1>2, <1>3, <1>4

\* The end of a verification vouches for the manifest it began with.
LEMMA VerifyMaps ==
  ASSUME StoreInv, SealInv, Verify
  PROVE  [Contract!Next]_(Contract!contractVars)
<1>1. UNCHANGED <<log, snapshot, metadata, manifest>>
  BY DEF Verify, ReadManifest, VerifyLogDigest, VerifyLogBounds, VerifySnapshotDigest,
         VerifySnapshotState, VerifyArtifacts, Check, Return, files
<1>2. CASE VerifyArtifacts
  <2>1. /\ reader.step = "artifacts"
        /\ reader \in [step: ReaderSteps, manifest: Manifest]
    BY <1>2 DEF VerifyArtifacts, Check, StoreInv, TypeOK, NotReading
  <2>2. reader # NotReading
    BY <2>1 DEF NotReading
  <2>3. /\ reader'.manifest = reader.manifest /\ reader'.step \in {"verified", "failed"}
        /\ reader.manifest \in Manifest
    BY <1>2, <2>1 DEF VerifyArtifacts, Check
  <2>4. CASE reader'.step = "verified"
    <3>1. Vouched = None /\ Vouched' = reader.manifest /\ reader.manifest # None
      BY <2>1, <2>3, <2>4, NoneIsOutside DEF Vouched
    <3>2. Sound(reader.manifest) /\ reader.manifest.artifacts \subseteq DOMAIN metadata
      BY <2>2 DEF StoreInv, ManifestKept, SealInv
    <3>3. Contract!Vouch
      BY <1>1, <3>1, <3>2 DEF Contract!Vouch, Contract!IsPrefix, IsPrefix, Vouched, Sound
    <3>4. QED
      BY <3>3 DEF Contract!Next
  <2>5. CASE reader'.step = "failed"
    BY <1>1, <2>5, NothingToContract DEF Vouched
  <2>6. QED
    BY <2>3, <2>4, <2>5
<1>3. CASE ~VerifyArtifacts
  <2>1. reader'.step # "verified"
    <3>1. CASE ReadManifest \/ Return
      BY <3>1 DEF ReadManifest, Return, NotReading
    <3>2. ASSUME NEW step \in ReaderSteps, NEW next \in ReaderSteps \ {"verified"}, NEW holds,
                 Check(step, holds, next)
          PROVE  reader'.step # "verified"
      <4>1. reader \in [step: ReaderSteps, manifest: Manifest]
        BY <3>2 DEF Check, StoreInv, TypeOK, NotReading, ReaderSteps
      <4>2. QED
        BY <3>2, <4>1 DEF Check
    <3>3. QED
      BY <1>3, <3>1, <3>2
         DEF Verify, VerifyLogDigest, VerifyLogBounds, VerifySnapshotDigest, VerifySnapshotState,
             ReaderSteps
  <2>2. QED
    BY <1>1, <2>1, NothingToContract DEF Vouched
<1>4. QED
  BY <1>2, <1>3

\* The store implements RecordContract: the many steps of its operations, their crashes and
\* repairs, and a verification that reads file after file beside them all, come to single steps
\* on the record or to nothing.
THEOREM ImplementsRecordContract == Spec => RecordContractSpec
<1>1. Init => Contract!Init
  BY DEF Init, Contract!Init, NotReading
<1>2. StoreInv /\ SealInv /\ [Next]_vars => [Contract!Next]_(Contract!contractVars)
  <2> SUFFICES ASSUME StoreInv, SealInv, [Next]_vars
               PROVE  [Contract!Next]_(Contract!contractVars)
    OBVIOUS
  <2>1. CASE Begin
    BY <2>1, NothingToContract
       DEF Begin, Start, StartAppend, StartRead, StartSnapshot, StartPut, StartBuild, files, Vouched
  <2>2. CASE WriteLine \/ RenameSnapshot \/ RenameMetadata \/ RenameManifest
    BY <2>2, EffectsMap
  <2>3. CASE \/ Recover \/ RefuseAppend \/ ResolveAppend \/ CheckContent \/ CheckMetadata
             \/ Collect \/ FillTemporary \/ RenameContent
    BY <2>3, NothingToContract
       DEF Recover, Truncated, RefuseAppend, ResolveAppend, CheckContent, CheckMetadata, Collect,
           FillTemporary, RenameContent, files, Vouched
  <2>4. CASE Mishap
    <3>1. UNCHANGED <<log, snapshot, metadata, manifest>> /\ reader' \in {reader, NotReading}
      BY <2>4 DEF Mishap, TearLine, FailTemporary, FailRename, FailAfterEffect, Crash, files
    <3>2. Vouched' \in {Vouched, None}
      BY <3>1 DEF Vouched, NotReading
    <3>3. QED
      BY <3>1, <3>2, NothingToContract
  <2>5. CASE Verify
    BY <2>5, VerifyMaps
  <2>6. CASE UNCHANGED vars
    BY <2>6, NothingToContract DEF vars, files, Vouched
  <2>7. QED
    BY <2>1, <2>2, <2>3, <2>4, <2>5, <2>6 DEF Next, Proceed
<1>3. QED
  BY <1>1, <1>2, StoreInvariant, SealInvariant, PTL DEF Spec, RecordContractSpec, Contract!Spec

=============================================================================
