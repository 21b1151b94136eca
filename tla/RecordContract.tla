--------------------------- MODULE RecordContract ---------------------------
(***************************************************************************)
(* What the recorded evidence of one run promises to the driver that       *)
(* writes it and to whoever reads it, without its files, lock, temporary   *)
(* files, crashes and repairs: the log grows by one numbered event at a    *)
(* time, an artifact is registered once, a manifest is of one moment,      *)
(* although it is collected and written in many steps, and a verification  *)
(* vouches only for what is on record, although it reads file after file.  *)
(***************************************************************************)
EXTENDS Naturals, Sequences, SequencesExt

CONSTANTS Events, Snapshots, Hashes, Roles, None

VARIABLES
  record,     \* the events on record
  run,        \* the stored snapshot, or None
  registered, \* artifact -> role
  sealed,     \* the manifest, or None
  vouched     \* the manifest that a verification has found to hold, or None

contractVars == <<record, run, registered, sealed, vouched>>

Init ==
  /\ record = <<>> /\ run = None /\ registered = [h \in {} |-> None]
  /\ sealed = None /\ vouched = None

Commit(e) ==
  /\ e.id = Len(record) + 1
  /\ \A i \in DOMAIN record : record[i].key # e.key
  /\ record' = Append(record, e)
  /\ UNCHANGED <<run, registered, sealed, vouched>>

Store(s) ==
  /\ run' = s
  /\ UNCHANGED <<record, registered, sealed, vouched>>

Register(h, role) ==
  /\ h \notin DOMAIN registered
  /\ registered' = [g \in DOMAIN registered \cup {h} |-> IF g = h THEN role ELSE registered[g]]
  /\ UNCHANGED <<record, run, sealed, vouched>>

\* The manifest says all that is on record now.
Seal ==
  /\ record # <<>> /\ run # None /\ run.source # None
  /\ sealed' = [log |-> record, count |-> Len(record), snapshot |-> run,
                artifacts |-> DOMAIN registered]
  /\ UNCHANGED <<record, run, registered, vouched>>

\* A manifest may be vouched for that another one has replaced.
Vouch ==
  /\ vouched = None
  /\ vouched' # None
  /\ vouched'.log # <<>> /\ IsPrefix(vouched'.log, record) /\ vouched'.count = Len(vouched'.log)
  /\ vouched'.snapshot.source # None
  /\ vouched'.artifacts \subseteq DOMAIN registered
  /\ UNCHANGED <<record, run, registered, sealed>>

Forget ==
  /\ vouched' = None
  /\ UNCHANGED <<record, run, registered, sealed>>

Next ==
  \/ \E e \in Events : Commit(e)
  \/ \E s \in Snapshots : Store(s)
  \/ \E h \in Hashes, role \in Roles : Register(h, role)
  \/ Seal \/ Vouch \/ Forget

Spec == Init /\ [][Next]_contractVars
=============================================================================
