---------------------------- MODULE LiveEvidence ----------------------------
(***************************************************************************)
(* What a live evaluation leaves behind, and the checks that the promotion *)
(* and the readers of promoted evidence make of it (contracts.ts and       *)
(* invariants.ts of packages/orchestrator).                                *)
(*                                                                         *)
(* A suite is a record of its cases and of their trials, in the same       *)
(* order; the first is the primary one.  Hashes are the values they stand  *)
(* for, so that an integrity hash always fits: a record is what was        *)
(* written.  A trial's time is taken to be its suite's: runLiveEvaluation- *)
(* Suite takes the time first, so that a trial is never older.             *)
(* Left out: metrics, usage, citations, resources, formats.                *)
(***************************************************************************)
EXTENDS Integers, Sequences, FiniteSets

CONSTANTS
  TTL,    \* how long evidence is current after it was recorded
  Suites, \* the suites a live evaluation may record
  Record, \* suite -> what it says, and what its trials say
  None

ASSUME TTLPositive == TTL \in Nat \ {0}

Members(s) == {s[i] : i \in DOMAIN s}

\* The entries of a sequence of records differ in a field.
Distinct(s, field) == \A i, j \in DOMAIN s : i # j => s[i][field] # s[j][field]

Fresh(at, now) == now < at + TTL

\* validatePromotableTrial: the candidates are different programs, made from the input
\* and run by different operations on the one checkpoint, everything was cleaned up, and
\* the winner is eligible.
PromotableTrial(t) ==
  /\ t.cleanupComplete
  /\ {c.checkpoint : c \in Members(t.candidates)} = {t.checkpoint}
  /\ \A field \in {"id", "operation", "source", "diff"} : Distinct(t.candidates, field)
  /\ t.input \notin {c.source : c \in Members(t.candidates)}
  /\ t.selected \in t.eligible \cup {None}

\* validatePromotableSuite: three separate cases, each with a baseline of its own that
\* changed the source on the case's checkpoint.
PromotableSuite(s) ==
  /\ \A field \in {"caseId", "family", "run"} : Distinct(s.cases, field)
  /\ \A c \in Members(s.cases) :
       /\ Cardinality(Members(c.operations)) = Len(c.operations)
       /\ c.baseline.checkpoint = c.checkpoint
       /\ c.baseline.source # c.input
       /\ c.baseline.operation \notin Members(c.operations)

\* The comparison of a suite's case with its trial in loadSuiteEvidence.
TrialFitsCase(t, c, s) ==
  /\ t.run = c.run
  /\ t.revision = s.revision
  /\ t.fixture = c.fixture
  /\ t.input = c.input
  /\ t.model = s.model
  /\ t.smoke = s.smoke
  /\ t.checkpoint = c.checkpoint
  /\ [i \in DOMAIN t.candidates |-> t.candidates[i].operation] = c.operations
  /\ t.baselineOperation = c.baseline.operation

\* Evidence is a suite with the time it was recorded and the time of the sponsor smoke
\* it rests on, which may be older.
SuiteEvidenceHolds(e, now) ==
  LET s == Record[e.suite] IN
    /\ Fresh(e.at, now)
    /\ PromotableSuite(s)
    /\ \A i \in DOMAIN s.cases :
         PromotableTrial(s.trials[i]) /\ TrialFitsCase(s.trials[i], s.cases[i], s)
    /\ Fresh(e.smokeAt, now)
    /\ s.smokeModel = s.model

\* Trials whose summaries the web application takes for cases of one suite.
SameSetting(t, u) == t.revision = u.revision /\ t.model = u.model /\ t.smoke = u.smoke
=============================================================================
