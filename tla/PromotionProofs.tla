--------------------------- MODULE PromotionProofs ---------------------------
(***************************************************************************)
(* Proofs about Promotion, for any number of mirrors, of faults and of     *)
(* suites: PromotionInv is inductive, and the safety properties follow.    *)
(***************************************************************************)
EXTENDS Promotion, TLAPS

\* A mirror is a number from 1 to Mirrors, and the last one is Mirrors.
LEMMA MirrorNumbers ==
  /\ Mirrors \in Numbers /\ 1 \in Numbers
  /\ \A m \in Numbers : m \in Nat /\ 1 <= m /\ m <= Mirrors
  BY MirrorsPositive DEF Numbers

\* The loops stay on the mirrors.
LEMMA LoopsStay ==
  ASSUME at \in Numbers,
         \/ at' = IF at < Mirrors THEN at + 1 ELSE 1
         \/ at > 1 /\ at' = at - 1
  PROVE  at' \in Numbers
  BY MirrorsPositive DEF Numbers

\* What the loop has done after a step, and what it has not.
LEMMA LoopOrder ==
  ASSUME at \in Numbers, at' = IF at < Mirrors THEN at + 1 ELSE 1
  PROVE  /\ ~ (at < at)
         /\ \A m \in Numbers : m < at => m # at
         /\ at < Mirrors => \A m \in Numbers : m < at' <=> (m < at \/ m = at)
         /\ ~ (at < Mirrors) => \A m \in Numbers : (m < at \/ m = at) /\ ~ (m < at')
  BY MirrorsPositive DEF Numbers

\* A bundle with all parts of evidence that held is whole, and not absent.
LEMMA NewIsWhole ==
  ASSUME Holds(evidence)
  PROVE  Whole(New) /\ New # Absent
  BY DEF Holds, Whole, New, Absent

LEMMA WholeIsNotAbsent == \A b : Whole(b) => b # Absent
  BY DEF Whole, Absent

\* The initial state satisfies the invariant.
LEMMA PromotionInvInitially == Init => PromotionInv
<1> SUFFICES ASSUME Init PROVE PromotionInv
  OBVIOUS
<1>1. PromotionTypeOK
  <2>1. [m \in Numbers |-> Absent] \in [Numbers -> Bundles]
    BY DEF Absent, Bundles
  <2>2. {destination, backup, staging, before} \subseteq [Numbers -> Bundles]
    BY <2>1 DEF Init
  <2>3. recorded \in Seq(Evidence) /\ Len(recorded) <= MaxSuites
    BY BoundsNat DEF Init
  <2>4. had \in [Numbers -> BOOLEAN] /\ installed \in [Numbers -> BOOLEAN]
    BY DEF Init
  <2>5. now \in 0 .. MaxTime /\ faults \in 0 .. MaxFaults
    BY BoundsNat DEF Init
  <2>6. /\ pc \in Phases /\ at \in Numbers /\ outcome \in Outcomes
        /\ evidence \in Evidence \cup {None} /\ published \in BOOLEAN
    BY MirrorNumbers DEF Init, Phases, Outcomes
  <2>7. QED
    BY <2>2, <2>3, <2>4, <2>5, <2>6 DEF PromotionTypeOK
<1>2. BuildingInv /\ PreparingInv /\ InstallingInv /\ DroppingInv /\ RollingBackInv
  BY DEF Init, BuildingInv, PreparingInv, InstallingInv, DroppingInv, RollingBackInv
<1>3. RunInv
  BY DEF Init, RunInv, Members, Nowhere
<1>4. RollBackRestores /\ PublishedInv
  BY DEF Init, RollBackRestores, PublishedInv
<1>5. LastMirrorInv
  BY MirrorNumbers DEF Init, LastMirrorInv, LastMirrorWhole
<1>6. QED
  BY <1>1, <1>2, <1>3, <1>4, <1>5 DEF PromotionInv

-----------------------------------------------------------------------------
(* Types *)

\* The bundles that are ever put anywhere are bundles.
LEMMA BundlesClosed ==
  /\ Absent \in Bundles
  /\ \A b \in Bundles : [b EXCEPT !.parts = Parts] \in Bundles
                        /\ [b EXCEPT !.parts = {}] \in Bundles
  /\ \A e \in Evidence : [of |-> e, parts |-> {}] \in Bundles
  BY DEF Absent, Bundles

\* Recording a suite and the clock keep the types.
LEMMA AroundKeepsTypes ==
  ASSUME PromotionTypeOK, RecordSuite \/ Tick
  PROVE  PromotionTypeOK'
<1>1. CASE RecordSuite
  <2>1. PICK s \in Suites, smokeAt \in 0 .. now :
          recorded' = Append(recorded, [suite |-> s, at |-> now, smokeAt |-> smokeAt])
    BY <1>1 DEF RecordSuite
  <2>2. [suite |-> s, at |-> now, smokeAt |-> smokeAt] \in Evidence
    BY BoundsNat DEF PromotionTypeOK, Evidence
  <2>3. recorded' \in Seq(Evidence) /\ Len(recorded') <= MaxSuites
    BY <1>1, <2>1, <2>2, BoundsNat DEF PromotionTypeOK, RecordSuite
  <2>4. QED
    BY <1>1, <2>3 DEF PromotionTypeOK, RecordSuite, directories, loop, history
<1>2. CASE Tick
  BY <1>2, BoundsNat DEF PromotionTypeOK, Tick, directories, loop, history
<1>3. QED
  BY <1>1, <1>2

\* The steps of the promotion keep the types.
LEMMA StepsKeepTypes ==
  ASSUME PromotionTypeOK,
         \/ Begin \/ Refuse \/ ClearStaging \/ Build \/ DropBackup \/ SetAside \/ Install
         \/ DropOld \/ Return
  PROVE  PromotionTypeOK'
<1> USE MirrorNumbers, BundlesClosed
<1>1. CASE Begin
  <2>1. recorded \in Seq(Evidence) /\ recorded # <<>>
    BY <1>1 DEF PromotionTypeOK, Begin
  <2>2. recorded[Len(recorded)] \in Evidence
    BY <2>1
  <2>3. evidence' \in Evidence
    BY <1>1, <2>2 DEF Begin
  <2>4. QED
    BY <1>1, <2>3 DEF PromotionTypeOK, Begin, directories, Phases, Outcomes
<1>2. CASE Refuse
  BY <1>2 DEF PromotionTypeOK, Refuse, directories, loop, history, Outcomes
<1>3. CASE ClearStaging
  <2>1. staging' = [staging EXCEPT ![at] = [of |-> evidence, parts |-> {}]]
    BY <1>3 DEF ClearStaging
  <2>2. [of |-> evidence, parts |-> {}] \in Bundles
    BY DEF PromotionTypeOK, Bundles
  <2>3. staging' \in [Numbers -> Bundles]
    BY <2>1, <2>2 DEF PromotionTypeOK
  <2>4. QED
    BY <1>3, <2>3 DEF PromotionTypeOK, ClearStaging, Promoting, Phases
<1>4. CASE Build
  <2>1. staging' \in [Numbers -> Bundles]
    BY <1>4 DEF PromotionTypeOK, Build, Bundles
  <2>2. at' \in Numbers
    BY <1>4, LoopsStay DEF PromotionTypeOK, Build, NextMirror
  <2>3. QED
    BY <1>4, <2>1, <2>2 DEF PromotionTypeOK, Build, NextMirror, Promoting, Phases
<1>5. CASE DropBackup
  BY <1>5 DEF PromotionTypeOK, DropBackup, Promoting, Phases
<1>6. CASE SetAside
  <2>1. /\ destination' \in [Numbers -> Bundles] /\ backup' \in [Numbers -> Bundles]
        /\ had' \in [Numbers -> BOOLEAN]
    BY <1>6 DEF PromotionTypeOK, SetAside
  <2>2. at' \in Numbers
    BY <1>6, LoopsStay DEF PromotionTypeOK, SetAside, NextMirror
  <2>3. QED
    <3>1. pc' \in Phases
      BY <1>6 DEF SetAside, NextMirror, Promoting, Phases
    <3>2. UNCHANGED <<recorded, now, outcome, evidence, before, faults, staging, installed, published>>
      BY <1>6 DEF SetAside, NextMirror, Promoting
    <3>3. QED
      BY <2>1, <2>2, <3>1, <3>2 DEF PromotionTypeOK
<1>7. CASE Install
  <2>1. /\ destination' \in [Numbers -> Bundles] /\ staging' \in [Numbers -> Bundles]
        /\ installed' \in [Numbers -> BOOLEAN]
    BY <1>7 DEF PromotionTypeOK, Install
  <2>2. at' \in Numbers
    BY <1>7, LoopsStay DEF PromotionTypeOK, Install, NextMirror
  <2>3. QED
    BY <1>7, <2>1, <2>2 DEF PromotionTypeOK, Install, NextMirror, Promoting, Phases
<1>8. CASE DropOld
  BY <1>8 DEF PromotionTypeOK, DropOld, Promoting, Phases
<1>9. CASE Return
  BY <1>9 DEF PromotionTypeOK, Return, Leave, directories, Nowhere, Phases, Outcomes
<1>10. QED
  BY <1>1, <1>2, <1>3, <1>4, <1>5, <1>6, <1>7, <1>8, <1>9

\* So do the failures and the way back.
LEMMA FailuresKeepTypes ==
  ASSUME PromotionTypeOK,
         \/ BuildFails \/ PrepareFails \/ DropOldFails \/ InstallFails \/ RemoveInstalled
         \/ Removed \/ PutBack \/ RollBackFails \/ Crash
  PROVE  PromotionTypeOK'
<1> USE MirrorNumbers, BundlesClosed
<1>1. Fault => faults' \in 0 .. MaxFaults
  BY BoundsNat DEF Fault, PromotionTypeOK
<1>2. CASE BuildFails \/ PrepareFails \/ RollBackFails
  BY <1>1, <1>2 DEF BuildFails, PrepareFails, RollBackFails, Throw, Leave, Nowhere,
     PromotionTypeOK, Phases, Outcomes
<1>3. CASE DropOldFails
  <2>1. backup' \in [Numbers -> Bundles]
    BY <1>3 DEF DropOldFails, PromotionTypeOK
  <2>2. QED
    BY <1>1, <1>3, <2>1 DEF DropOldFails, Throw, Leave, Nowhere, PromotionTypeOK, Phases, Outcomes
<1>4. CASE InstallFails
  BY <1>1, <1>4 DEF InstallFails, PromotionTypeOK, Phases, directories
<1>5. CASE RemoveInstalled
  <2>1. destination' \in [Numbers -> Bundles]
    BY <1>5 DEF RemoveInstalled, PromotionTypeOK
  <2>2. QED
    BY <1>5, <2>1 DEF RemoveInstalled, Promoting, PromotionTypeOK, Phases
<1>6. CASE Removed
  BY <1>6 DEF Removed, Promoting, PromotionTypeOK, Phases, directories
<1>7. CASE PutBack
  <2>1. destination' \in [Numbers -> Bundles] /\ backup' \in [Numbers -> Bundles]
    BY <1>7 DEF PutBack, PromotionTypeOK
  <2>2. CASE at > 1 /\ Promoting("putting back", "removing") /\ at' = at - 1
             /\ UNCHANGED <<had, installed>>
    <3>1. at' \in Numbers
      BY <2>2, LoopsStay DEF PromotionTypeOK
    <3>2. QED
      BY <1>7, <2>1, <2>2, <3>1 DEF PutBack, Promoting, PromotionTypeOK, Phases
  <2>3. CASE at = 1 /\ Leave("putting back", "rolled back") /\ UNCHANGED faults
    BY <1>7, <2>1, <2>3 DEF PutBack, Leave, Nowhere, PromotionTypeOK, Phases, Outcomes
  <2>4. QED
    BY <1>7, <2>2, <2>3 DEF PutBack, RolledBack
<1>8. CASE Crash
  BY <1>1, <1>8 DEF Crash, Leave, Nowhere, PromotionTypeOK, Phases, Outcomes, directories
<1>9. QED
  BY <1>2, <1>3, <1>4, <1>5, <1>6, <1>7, <1>8

-----------------------------------------------------------------------------
(* The phases *)

\* The members of a sequence, and of one that an entry is appended to.
LEMMA MembersTyped ==
  ASSUME NEW S, NEW s \in Seq(S)
  PROVE  Members(s) \subseteq S
  BY DEF Members

LEMMA MembersAppended ==
  ASSUME NEW S, NEW s \in Seq(S), NEW e \in S
  PROVE  Members(Append(s, e)) = Members(s) \cup {e}
<1> DEFINE t == Append(s, e)
<1>1. /\ DOMAIN s = 1 .. Len(s) /\ DOMAIN t = 1 .. (Len(s) + 1) /\ Len(s) \in Nat
      /\ \A i \in 1 .. Len(s) : t[i] = s[i]
      /\ t[Len(s) + 1] = e
  OBVIOUS
<1>2. ASSUME NEW x PROVE x \in Members(t) <=> x \in Members(s) \cup {e}
  <2>1. ASSUME x \in Members(t) PROVE x \in Members(s) \cup {e}
    <3>1. PICK i \in DOMAIN t : x = t[i]
      BY <2>1 DEF Members
    <3>2. i = Len(s) + 1 \/ i \in 1 .. Len(s)
      BY <1>1, <3>1
    <3>3. QED
      BY <1>1, <3>1, <3>2 DEF Members
  <2>2. ASSUME x \in Members(s) PROVE x \in Members(t)
    <3>1. PICK i \in DOMAIN s : x = s[i]
      BY <2>2 DEF Members
    <3>2. i \in DOMAIN t /\ t[i] = x
      BY <1>1, <3>1
    <3>3. QED
      BY <3>2 DEF Members
  <2>3. e \in Members(t)
    <3>1. Len(s) + 1 \in DOMAIN t
      BY <1>1
    <3>2. QED
      BY <1>1, <3>1 DEF Members
  <2>4. QED
    BY <2>1, <2>2, <2>3
<1>3. QED
  BY <1>2

\* Recorded evidence has a time, and so has the clock.
LEMMA RecordedTimes ==
  ASSUME PromotionTypeOK
  PROVE  /\ now \in Int
         /\ \A e \in Members(recorded) : e \in Evidence /\ e.at \in Int
<1>1. Members(recorded) \subseteq Evidence
  BY MembersTyped DEF PromotionTypeOK
<1>2. now \in Int /\ \A e \in Evidence : e.at \in Int
  BY BoundsNat DEF PromotionTypeOK, Evidence
<1>3. QED
  BY <1>1, <1>2

\* Recording a suite adds it, with the time it is.
LEMMA Recording ==
  ASSUME PromotionTypeOK, RecordSuite
  PROVE  \E e \in Evidence :
           e.at = now /\ now' = now /\ Members(recorded') = Members(recorded) \cup {e}
<1>1. PICK s \in Suites, smokeAt \in 0 .. now :
        recorded' = Append(recorded, [suite |-> s, at |-> now, smokeAt |-> smokeAt])
  BY DEF RecordSuite
<1>2. [suite |-> s, at |-> now, smokeAt |-> smokeAt] \in Evidence
  BY BoundsNat DEF PromotionTypeOK, Evidence
<1>3. now' = now /\ recorded \in Seq(Evidence)
  BY DEF RecordSuite, PromotionTypeOK
<1>4. Members(recorded') = Members(recorded) \cup {[suite |-> s, at |-> now, smokeAt |-> smokeAt]}
  BY <1>1, <1>2, <1>3, MembersAppended
<1>5. QED
  BY <1>2, <1>3, <1>4

\* Evidence that held still does after a suite was recorded or time has passed.
LEMMA HoldsStays ==
  ASSUME PromotionTypeOK, Holds(evidence), evidence' = evidence,
         \/ UNCHANGED <<recorded, now>>
         \/ RecordSuite
         \/ Tick
  PROVE  Holds(evidence)'
<1>1. Members(recorded) \subseteq Members(recorded')
  BY Recording DEF Tick
<1>2. now' \in Int /\ now <= now' /\ now \in Int
  BY BoundsNat DEF PromotionTypeOK, RecordSuite, Tick
<1>3. PICK t \in evidence.at .. now : SuiteEvidenceHolds(evidence, t)
  BY DEF Holds
<1>4. evidence.at \in Int
  BY RecordedTimes DEF Holds
<1>5. t \in evidence.at .. now'
  BY <1>2, <1>3, <1>4
<1>6. QED
  BY <1>1, <1>3, <1>5 DEF Holds

\* Around the promotion nothing else changes.
LEMMA AroundKeepsInv ==
  ASSUME PromotionInv, RecordSuite \/ Tick
  PROVE  PromotionInv'
<1> USE DEF PromotionInv
<1>1. PromotionTypeOK'
  BY AroundKeepsTypes
<1>2. UNCHANGED <<destination, backup, staging, pc, at, evidence, had, installed, outcome,
                  before, published, faults>>
  BY DEF RecordSuite, Tick, directories, loop, history
<1>3. \A e \in Members(recorded') : e.at <= now'
  <2>1. CASE RecordSuite
    <3>1. PICK e \in Evidence :
            e.at = now /\ now' = now /\ Members(recorded') = Members(recorded) \cup {e}
      BY <2>1, Recording
    <3>2. \A d \in Members(recorded) : d.at <= now
      BY DEF RunInv
    <3>3. now <= now
      BY RecordedTimes
    <3>4. QED
      BY <3>1, <3>2, <3>3
  <2>2. CASE Tick
    <3>1. recorded' = recorded /\ now' = now + 1 /\ now \in Int
      BY <2>2, BoundsNat DEF Tick, PromotionTypeOK
    <3>2. \A e \in Members(recorded) : e.at \in Int /\ e.at <= now
      BY RecordedTimes DEF RunInv
    <3>3. QED
      BY <3>1, <3>2
  <2>3. QED
    BY <2>1, <2>2
<1>4. pc \in Phases \ {"idle"} \/ outcome = "promoted" => Holds(evidence)'
  BY <1>2, HoldsStays DEF RunInv
<1>5. RunInv'
  BY <1>2, <1>3, <1>4 DEF RunInv, Nowhere, PromotionTypeOK
<1>6. /\ BuildingInv' /\ PreparingInv' /\ InstallingInv' /\ DroppingInv' /\ RollingBackInv'
      /\ RollBackRestores' /\ PublishedInv' /\ LastMirrorInv'
  <2>1. BuildingInv' /\ PreparingInv'
    BY <1>2 DEF BuildingInv, PreparingInv, Untouched, Staged, Aside, Kept, New
  <2>2. InstallingInv' /\ DroppingInv'
    BY <1>2 DEF InstallingInv, DroppingInv, Staged, Aside, Kept, New
  <2>3. RollingBackInv' /\ RollBackRestores'
    BY <1>2 DEF RollingBackInv, RollBackRestores, Untouched, Kept
  <2>4. PublishedInv' /\ LastMirrorInv'
    BY <1>2 DEF PublishedInv, LastMirrorInv, LastMirrorWhole
  <2>5. QED
    BY <2>1, <2>2, <2>3, <2>4
<1>7. QED
  BY <1>1, <1>5, <1>6

\* The promotion starts from the mirrors as they are, with evidence that holds.
LEMMA BeginKeepsInv ==
  ASSUME PromotionInv, Begin
  PROVE  PromotionInv'
<1> USE DEF PromotionInv
<1>1. PromotionTypeOK'
  BY StepsKeepTypes
<1>2. /\ pc = "idle" /\ pc' = "clearing" /\ before' = destination /\ outcome' = "running"
      /\ UNCHANGED <<recorded, now, destination, backup, staging, at, had, installed, published,
                     faults>>
  BY DEF Begin, directories
<1>3. at = 1 /\ installed = Nowhere
  BY <1>2 DEF RunInv
<1>4. Holds(evidence)'
  <2>1. recorded \in Seq(Evidence) /\ recorded # <<>>
    BY DEF Begin, PromotionTypeOK
  <2>2. recorded[Len(recorded)] \in Evidence /\ Len(recorded) \in DOMAIN recorded
    BY <2>1
  <2>3. evidence' = recorded[Len(recorded)] /\ SuiteEvidenceHolds(evidence', now)
    BY DEF Begin
  <2>4. evidence' \in Members(recorded) /\ evidence' \in Evidence
    BY <2>2, <2>3 DEF Members
  <2>5. evidence'.at <= now /\ evidence'.at \in Int /\ now \in Int
    BY <2>4, RecordedTimes DEF RunInv
  <2>6. now \in evidence'.at .. now
    BY <2>5
  <2>7. QED
    BY <1>2, <2>3, <2>4, <2>6, NoneIsNoEvidence DEF Holds
<1>5. RunInv'
  BY <1>2, <1>3, <1>4 DEF RunInv, Nowhere
<1>6. BuildingInv'
  BY <1>2, <1>3, MirrorNumbers DEF BuildingInv, Untouched
<1>7. PreparingInv' /\ InstallingInv' /\ DroppingInv' /\ RollingBackInv' /\ RollBackRestores'
  BY <1>2 DEF PreparingInv, InstallingInv, DroppingInv, RollingBackInv, RollBackRestores
<1>8. PublishedInv' /\ LastMirrorInv'
  BY <1>2 DEF PublishedInv, LastMirrorInv, LastMirrorWhole, Whole, Absent
<1>9. QED
  BY <1>1, <1>5, <1>6, <1>7, <1>8

\* A refusal changes the outcome only.
LEMMA RefuseKeepsInv ==
  ASSUME PromotionInv, Refuse
  PROVE  PromotionInv'
<1> USE DEF PromotionInv
<1>1. PromotionTypeOK'
  BY StepsKeepTypes
<1>2. /\ pc = "idle" /\ outcome' = "refused"
      /\ UNCHANGED <<recorded, now, destination, backup, staging, pc, at, evidence, had, installed,
                     before, published, faults>>
  BY DEF Refuse, directories, loop, history
<1>3. RunInv'
  BY <1>2 DEF RunInv, Nowhere
<1>4. /\ BuildingInv' /\ PreparingInv' /\ InstallingInv' /\ DroppingInv' /\ RollingBackInv'
      /\ RollBackRestores'
  BY <1>2 DEF BuildingInv, PreparingInv, InstallingInv, DroppingInv, RollingBackInv,
     RollBackRestores
<1>5. PublishedInv' /\ LastMirrorInv'
  BY <1>2 DEF PublishedInv, LastMirrorInv, LastMirrorWhole, Whole, Absent
<1>6. QED
  BY <1>1, <1>3, <1>4, <1>5

\* What every step within the promotion leaves alone, and what follows from that.
LEMMA PromotingKeepsRun ==
  ASSUME PromotionInv, NEW from \in Phases \ {"idle"}, NEW to \in Phases \ {"idle"},
         Promoting(from, to),
         to \in {"clearing", "building", "preparing", "setting aside"} =>
           installed = Nowhere /\ installed' = installed
  PROVE  /\ RunInv' /\ RollBackRestores' /\ New' = New /\ Holds(evidence)
         /\ pc = from /\ pc' = to /\ outcome = "running" /\ outcome' = "running"
         /\ UNCHANGED <<evidence, before, faults>>
<1>1. /\ pc = from /\ pc' = to
      /\ UNCHANGED <<recorded, now, outcome, evidence, before, faults>>
  BY DEF Promoting
<1>2. outcome = "running" /\ Holds(evidence)
  BY <1>1 DEF PromotionInv, RunInv
<1>3. Holds(evidence)'
  BY <1>1, <1>2 DEF Holds
<1>4. RunInv'
  BY <1>1, <1>2, <1>3 DEF PromotionInv, RunInv, Nowhere
<1>5. QED
  BY <1>1, <1>2, <1>4 DEF RollBackRestores, New

\* Between two steps of the promotion the other phases' invariants say nothing.
LEMMA OtherPhases ==
  ASSUME outcome' = "running"
  PROVE  /\ pc' \notin {"clearing", "building"} => BuildingInv'
         /\ pc' \notin {"preparing", "setting aside"} => PreparingInv'
         /\ pc' # "installing" => InstallingInv'
         /\ pc' # "dropping" => DroppingInv'
         /\ pc' \notin {"removing", "putting back"} => RollingBackInv'
  BY DEF BuildingInv, PreparingInv, InstallingInv, DroppingInv, RollingBackInv

\* The staging directories are built one after the other.
LEMMA ClearStagingKeepsInv ==
  ASSUME PromotionInv, ClearStaging
  PROVE  PromotionInv'
<1> USE DEF PromotionInv
<1>1. PromotionTypeOK'
  BY StepsKeepTypes
<1>2. /\ pc = "clearing" /\ pc' = "building"
      /\ staging' = [staging EXCEPT ![at] = [of |-> evidence, parts |-> {}]]
      /\ UNCHANGED <<destination, backup, at, had, installed, published>>
  BY DEF ClearStaging, Promoting
<1>3. /\ RunInv' /\ RollBackRestores' /\ New' = New /\ outcome' = "running"
      /\ UNCHANGED <<evidence, before, faults>>
  BY <1>2, PromotingKeepsRun DEF ClearStaging, Phases, RunInv
<1>4. BuildingInv'
  BY <1>2, <1>3, MirrorNumbers DEF BuildingInv, Untouched, Staged, PromotionTypeOK
<1>5. PublishedInv' /\ LastMirrorInv'
  BY <1>2, <1>3 DEF PublishedInv, LastMirrorInv, LastMirrorWhole, Whole, Absent
<1>6. QED
  BY <1>1, <1>2, <1>3, <1>4, <1>5, OtherPhases

LEMMA BuildKeepsInv ==
  ASSUME PromotionInv, Build
  PROVE  PromotionInv'
<1> USE DEF PromotionInv
<1>1. PromotionTypeOK'
  BY StepsKeepTypes
<1>2. /\ pc = "building" /\ pc' = (IF at < Mirrors THEN "clearing" ELSE "preparing")
      /\ at' = (IF at < Mirrors THEN at + 1 ELSE 1)
      /\ staging' = [staging EXCEPT ![at].parts = Parts]
      /\ UNCHANGED <<destination, backup, had, installed, published>>
  BY DEF Build, NextMirror, Promoting
<1>3. /\ RunInv' /\ RollBackRestores' /\ New' = New /\ outcome' = "running"
      /\ UNCHANGED <<evidence, before, faults>>
  <2>1. CASE at < Mirrors
    BY <1>2, <2>1, PromotingKeepsRun DEF Build, NextMirror, Phases, RunInv
  <2>2. CASE ~ (at < Mirrors)
    BY <1>2, <2>2, PromotingKeepsRun DEF Build, NextMirror, Phases, RunInv
  <2>3. QED
    BY <2>1, <2>2
<1>4. staging'[at] = New /\ \A m \in Numbers : m # at => staging'[m] = staging[m]
  BY <1>2 DEF BuildingInv, PromotionTypeOK, Bundles, New
<1>5. \A m \in Numbers : (m < at \/ m = at) => Staged(m)'
  BY <1>2, <1>3, <1>4 DEF BuildingInv, Staged
<1>6. \A m \in Numbers : Untouched(m)'
  BY <1>2, <1>3 DEF BuildingInv, Untouched
<1>7. at \in Nat /\ \A m \in Numbers : m \in Nat /\ 1 <= m /\ m <= Mirrors
  BY MirrorNumbers DEF PromotionTypeOK
<1>8. BuildingInv'
  BY <1>2, <1>5, <1>6, <1>7 DEF BuildingInv
<1>9. PreparingInv'
  BY <1>2, <1>5, <1>6, <1>7, MirrorsPositive DEF PreparingInv
<1>10. PublishedInv' /\ LastMirrorInv'
  BY <1>2, <1>3 DEF PublishedInv, LastMirrorInv, LastMirrorWhole, Whole, Absent
<1>11. QED
  BY <1>1, <1>2, <1>3, <1>8, <1>9, <1>10, OtherPhases

\* The old directories become the backups one after the other.
LEMMA DropBackupKeepsInv ==
  ASSUME PromotionInv, DropBackup
  PROVE  PromotionInv'
<1> USE DEF PromotionInv
<1>1. PromotionTypeOK'
  BY StepsKeepTypes
<1>2. /\ pc = "preparing" /\ pc' = "setting aside"
      /\ backup' = [backup EXCEPT ![at] = Absent]
      /\ UNCHANGED <<destination, staging, at, had, installed, published>>
  BY DEF DropBackup, Promoting
<1>3. /\ RunInv' /\ RollBackRestores' /\ New' = New /\ outcome' = "running"
      /\ UNCHANGED <<evidence, before, faults>>
  BY <1>2, PromotingKeepsRun DEF DropBackup, Phases, RunInv
<1>4. \A m \in Numbers : m < at => backup'[m] = backup[m]
  <2>1. \A m \in Numbers : m < at => m # at
    BY MirrorNumbers DEF PromotionTypeOK
  <2>2. backup \in [Numbers -> Bundles]
    BY DEF PromotionTypeOK
  <2>3. QED
    BY <1>2, <2>1, <2>2
<1>5. PreparingInv'
  BY <1>2, <1>3, <1>4 DEF PreparingInv, Staged, Untouched, Aside, Kept, Absent
<1>6. PublishedInv' /\ LastMirrorInv'
  BY <1>2, <1>3 DEF PublishedInv, LastMirrorInv, LastMirrorWhole, Whole, Absent
<1>7. QED
  BY <1>1, <1>2, <1>3, <1>5, <1>6, OtherPhases

LEMMA SetAsideKeepsInv ==
  ASSUME PromotionInv, SetAside
  PROVE  PromotionInv'
<1> USE DEF PromotionInv
<1>1. PromotionTypeOK'
  BY StepsKeepTypes
<1>2. /\ pc = "setting aside" /\ pc' = (IF at < Mirrors THEN "preparing" ELSE "installing")
      /\ at' = (IF at < Mirrors THEN at + 1 ELSE 1)
      /\ had' = [had EXCEPT ![at] = destination[at] # Absent]
      /\ backup' = [backup EXCEPT ![at] = destination[at]]
      /\ destination' = [destination EXCEPT ![at] = Absent]
      /\ UNCHANGED <<staging, installed, published>>
  BY DEF SetAside, NextMirror, Promoting
<1>3. /\ RunInv' /\ RollBackRestores' /\ New' = New /\ outcome' = "running"
      /\ UNCHANGED <<evidence, before, faults>>
  <2>1. CASE at < Mirrors
    BY <1>2, <2>1, PromotingKeepsRun DEF SetAside, NextMirror, Phases, RunInv
  <2>2. CASE ~ (at < Mirrors)
    BY <1>2, <2>2, PromotingKeepsRun DEF SetAside, NextMirror, Phases, RunInv
  <2>3. QED
    BY <2>1, <2>2
<1>4. \A m \in Numbers : m # at => destination'[m] = destination[m] /\ backup'[m] = backup[m]
                                  /\ had'[m] = had[m]
  BY <1>2 DEF PromotionTypeOK
<1>5. destination'[at] = Absent /\ backup'[at] = destination[at]
      /\ (had'[at] <=> destination[at] # Absent)
  BY <1>2 DEF PromotionTypeOK
<1>6. /\ at \in Numbers /\ ~ (at < at)
      /\ \A m \in Numbers : m < at => m # at
      /\ at < Mirrors => \A m \in Numbers : m < at' <=> (m < at \/ m = at)
      /\ ~ (at < Mirrors) => \A m \in Numbers : (m < at \/ m = at) /\ ~ (m < at')
  BY <1>2, LoopOrder DEF PromotionTypeOK
<1>7. destination[at] = before[at]
  BY <1>2, <1>6 DEF PreparingInv, Untouched
<1>8. \A m \in Numbers : (m < at \/ m = at) => Aside(m)'
  BY <1>2, <1>3, <1>4, <1>5, <1>6, <1>7 DEF PreparingInv, Aside, Kept, Absent
<1>9. \A m \in Numbers : Staged(m)' /\ (~ (m < at \/ m = at) => Untouched(m)')
  BY <1>2, <1>3, <1>4, <1>6 DEF PreparingInv, Staged, Untouched
<1>10. PreparingInv'
  <2>1. pc' \in {"preparing", "setting aside"} => at < Mirrors
    BY <1>2
  <2>2. QED
    BY <1>6, <1>8, <1>9, <2>1 DEF PreparingInv
<1>11. installed = Nowhere
  BY <1>2 DEF RunInv
<1>12. InstallingInv'
  <2>1. \A m \in Numbers : ~ installed'[m]
    BY <1>2, <1>11 DEF Nowhere
  <2>2. pc' = "installing" => ~ (at < Mirrors)
    BY <1>2
  <2>3. QED
    BY <1>6, <1>8, <1>9, <2>1, <2>2 DEF InstallingInv
<1>13. PublishedInv'
  BY <1>2, <1>3 DEF PublishedInv, Whole
<1>14. LastMirrorInv'
  BY <1>2, <1>3, <1>4, <1>5, MirrorNumbers DEF LastMirrorInv, LastMirrorWhole, Whole, Absent
<1>15. QED
  BY <1>1, <1>2, <1>3, <1>10, <1>12, <1>13, <1>14, OtherPhases

\* The new directories are renamed into place one after the other.
LEMMA InstallKeepsInv ==
  ASSUME PromotionInv, Install
  PROVE  PromotionInv'
<1> USE DEF PromotionInv
<1>1. PromotionTypeOK'
  BY StepsKeepTypes
<1>2. /\ pc = "installing" /\ pc' = (IF at < Mirrors THEN "installing" ELSE "dropping")
      /\ at' = (IF at < Mirrors THEN at + 1 ELSE 1)
      /\ destination' = [destination EXCEPT ![at] = staging[at]]
      /\ staging' = [staging EXCEPT ![at] = Absent]
      /\ installed' = [installed EXCEPT ![at] = TRUE]
      /\ UNCHANGED <<backup, had, published>>
  BY DEF Install, NextMirror, Promoting
<1>3. /\ RunInv' /\ RollBackRestores' /\ New' = New /\ outcome' = "running" /\ Holds(evidence)
      /\ UNCHANGED <<evidence, before, faults>>
  <2>1. CASE at < Mirrors
    BY <1>2, <2>1, PromotingKeepsRun DEF Install, NextMirror, Phases
  <2>2. CASE ~ (at < Mirrors)
    BY <1>2, <2>2, PromotingKeepsRun DEF Install, NextMirror, Phases
  <2>3. QED
    BY <2>1, <2>2
<1>4. \A m \in Numbers : m # at => destination'[m] = destination[m] /\ staging'[m] = staging[m]
                                  /\ installed'[m] = installed[m]
  BY <1>2 DEF PromotionTypeOK
<1>5. /\ at \in Numbers /\ ~ (at < at)
      /\ \A m \in Numbers : m < at => m # at
      /\ at < Mirrors => \A m \in Numbers : m < at' <=> (m < at \/ m = at)
      /\ ~ (at < Mirrors) => \A m \in Numbers : (m < at \/ m = at) /\ ~ (m < at')
  BY <1>2, LoopOrder DEF PromotionTypeOK
<1>6. destination'[at] = New
  BY <1>2, <1>5 DEF InstallingInv, Staged, PromotionTypeOK
<1>7. \A m \in Numbers : (m < at \/ m = at) => destination'[m] = New /\ Kept(m)' /\ installed'[m]
  BY <1>2, <1>3, <1>4, <1>5, <1>6 DEF InstallingInv, Aside, Kept, Absent, PromotionTypeOK
<1>8. \A m \in Numbers : ~ (m < at \/ m = at) => Aside(m)' /\ Staged(m)' /\ ~ installed'[m]
  BY <1>2, <1>3, <1>4, <1>5 DEF InstallingInv, Aside, Kept, Absent, Staged
<1>9. InstallingInv'
  BY <1>2, <1>3, <1>5, <1>7, <1>8 DEF InstallingInv
<1>10. DroppingInv'
  <2>1. pc' = "dropping" \/ outcome' = "promoted" => ~ (at < Mirrors)
    BY <1>2, <1>3
  <2>2. QED
    BY <1>3, <1>5, <1>7, <2>1 DEF DroppingInv
<1>11. PublishedInv'
  BY <1>2, <1>3 DEF PublishedInv, Whole
<1>12. LastMirrorInv'
  BY <1>2, <1>3, <1>4, <1>6, MirrorNumbers, NewIsWhole
     DEF LastMirrorInv, LastMirrorWhole, Whole, Absent
<1>13. QED
  BY <1>1, <1>2, <1>3, <1>9, <1>10, <1>11, <1>12, OtherPhases

\* The backups go, and the promotion returns.
LEMMA DropOldKeepsInv ==
  ASSUME PromotionInv, DropOld
  PROVE  PromotionInv'
<1> USE DEF PromotionInv
<1>1. PromotionTypeOK'
  BY StepsKeepTypes
<1>2. /\ pc = "dropping" /\ pc' = "dropping"
      /\ UNCHANGED <<destination, staging, at, had, installed, published>>
  BY DEF DropOld, Promoting
<1>3. /\ RunInv' /\ RollBackRestores' /\ New' = New /\ outcome' = "running"
      /\ UNCHANGED <<evidence, before, faults>>
  BY <1>2, PromotingKeepsRun DEF DropOld, Phases
<1>4. DroppingInv'
  BY <1>2, <1>3 DEF DroppingInv
<1>5. PublishedInv' /\ LastMirrorInv'
  BY <1>2, <1>3 DEF PublishedInv, LastMirrorInv, LastMirrorWhole, Whole, Absent
<1>6. QED
  BY <1>1, <1>2, <1>3, <1>4, <1>5, OtherPhases

LEMMA ReturnKeepsInv ==
  ASSUME PromotionInv, Return
  PROVE  PromotionInv'
<1> USE DEF PromotionInv
<1>1. PromotionTypeOK'
  BY StepsKeepTypes
<1>2. /\ pc = "dropping" /\ pc' = "idle" /\ outcome' = "promoted" /\ at' = 1
      /\ installed' = Nowhere /\ published'
      /\ UNCHANGED <<recorded, now, evidence, before, destination, backup, staging, faults>>
  BY DEF Return, Leave, directories
<1>3. Holds(evidence) /\ Holds(evidence)' /\ New' = New
  BY <1>2 DEF RunInv, Holds, New
<1>4. RunInv'
  BY <1>2, <1>3 DEF RunInv, Nowhere
<1>5. \A m \in Numbers : destination'[m] = New
  BY <1>2 DEF DroppingInv
<1>6. /\ BuildingInv' /\ PreparingInv' /\ InstallingInv' /\ DroppingInv' /\ RollingBackInv'
      /\ RollBackRestores'
  BY <1>2, <1>3, <1>5
     DEF BuildingInv, PreparingInv, InstallingInv, DroppingInv, RollingBackInv, RollBackRestores
<1>7. PublishedInv'
  BY <1>2, <1>3, <1>5, NewIsWhole DEF PublishedInv, Whole
<1>8. LastMirrorInv'
  BY <1>2 DEF LastMirrorInv, LastMirrorWhole, Whole, Absent
<1>9. QED
  BY <1>1, <1>4, <1>6, <1>7, <1>8

-----------------------------------------------------------------------------
(* Failures *)

LEMMA ZeroIsNotPositive == ~ (0 >= 1)
  OBVIOUS

\* Before the first fault a published mirror is whole at its destination, or set aside
\* until the new one is there.
LEMMA CopiesAtFirstFault ==
  ASSUME PromotionInv, pc # "idle", published, faults = 0, NEW m \in Numbers
  PROVE  Whole(destination[m]) \/ (pc # "dropping" /\ Whole(backup[m]))
<1> USE DEF PromotionInv
<1>1. Whole(before[m]) /\ before[m] # Absent
  BY WholeIsNotAbsent DEF PublishedInv
<1>2. Whole(New)
  BY NewIsWhole DEF RunInv
<1>3. CASE pc \in {"clearing", "building"}
  BY <1>1, <1>3 DEF BuildingInv, Untouched
<1>4. CASE pc \in {"preparing", "setting aside"}
  BY <1>1, <1>4 DEF PreparingInv, Untouched, Aside, Kept
<1>5. CASE pc = "installing"
  BY <1>1, <1>2, <1>5 DEF InstallingInv, Aside, Kept
<1>6. CASE pc = "dropping"
  BY <1>2, <1>6 DEF DroppingInv
<1>7. pc \notin {"removing", "putting back"}
  <2>1. pc \in {"removing", "putting back"} => faults >= 1
    BY DEF RollingBackInv
  <2>2. QED
    BY <2>1, ZeroIsNotPositive, Zenon
<1>8. QED
  BY <1>3, <1>4, <1>5, <1>6, <1>7 DEF PromotionTypeOK, Phases

\* A promotion that ends with a fault, wherever it is.
LEMMA FaultKeepsInv ==
  ASSUME PromotionInv, pc # "idle", PromotionTypeOK',
         NEW result \in {"failed", "crashed"}, Leave(pc, result), Fault,
         UNCHANGED <<destination, staging, published>>,
         pc # "dropping" => backup' = backup
  PROVE  PromotionInv'
<1> USE DEF PromotionInv
<1>1. /\ pc' = "idle" /\ outcome' = result /\ at' = 1 /\ installed' = Nowhere
      /\ faults' = faults + 1 /\ faults \in Nat
      /\ UNCHANGED <<recorded, now, evidence, before>>
  BY BoundsNat DEF Leave, Fault, PromotionTypeOK
<1>2. RunInv'
  BY <1>1 DEF RunInv, Nowhere
<1>3. /\ BuildingInv' /\ PreparingInv' /\ InstallingInv' /\ DroppingInv' /\ RollingBackInv'
      /\ RollBackRestores'
  BY <1>1
     DEF BuildingInv, PreparingInv, InstallingInv, DroppingInv, RollingBackInv, RollBackRestores
<1>4. PublishedInv'
  <2>1. faults' # 0 /\ (faults' <= 1 => faults = 0)
    BY <1>1
  <2>2. ASSUME published, faults' <= 1, NEW m \in Numbers
        PROVE  Whole(destination'[m]) \/ Whole(backup'[m])
    BY <2>1, <2>2, CopiesAtFirstFault
  <2>3. published' /\ faults' <= 1 =>
          \A m \in Numbers : Whole(destination'[m]) \/ Whole(backup'[m])
    BY <2>2, Zenon
  <2>4. pc' \notin {"removing", "putting back"}
    BY <1>1
  <2>5. QED
    BY <2>1, <2>3, <2>4 DEF PublishedInv, Whole
<1>5. LastMirrorInv'
  BY <1>1 DEF LastMirrorInv, LastMirrorWhole, Whole, Absent
<1>6. QED
  BY <1>2, <1>3, <1>4, <1>5

LEMMA ThrowsKeepInv ==
  ASSUME PromotionInv, BuildFails \/ PrepareFails \/ DropOldFails \/ RollBackFails \/ Crash
  PROVE  PromotionInv'
<1>1. PromotionTypeOK'
  BY FailuresKeepTypes DEF PromotionInv
<1>2. CASE BuildFails \/ PrepareFails \/ RollBackFails
  <2>1. /\ pc # "idle" /\ Leave(pc, "failed") /\ Fault
        /\ UNCHANGED <<destination, staging, published, backup>>
    BY <1>2 DEF BuildFails, PrepareFails, RollBackFails, Throw, Leave
  <2>2. QED
    BY <1>1, <2>1, FaultKeepsInv
<1>3. CASE DropOldFails
  <2>1. /\ pc = "dropping" /\ Leave(pc, "failed") /\ Fault
        /\ UNCHANGED <<destination, staging, published>>
    BY <1>3 DEF DropOldFails, Throw, Leave
  <2>2. QED
    BY <1>1, <2>1, FaultKeepsInv
<1>4. CASE Crash
  <2>1. /\ pc # "idle" /\ Leave(pc, "crashed") /\ Fault
        /\ UNCHANGED <<destination, staging, published, backup>>
    BY <1>4 DEF Crash, directories
  <2>2. QED
    BY <1>1, <2>1, FaultKeepsInv
<1>5. QED
  BY <1>2, <1>3, <1>4

\* A failed install turns back; what is installed is removed.
LEMMA InstallFailsKeepsInv ==
  ASSUME PromotionInv, InstallFails
  PROVE  PromotionInv'
<1> USE DEF PromotionInv
<1>1. PromotionTypeOK'
  BY FailuresKeepTypes
<1>2. /\ pc = "installing" /\ pc' = "removing" /\ at' = Mirrors
      /\ faults' = faults + 1 /\ faults \in Nat
      /\ UNCHANGED <<recorded, now, destination, backup, staging, evidence, had, installed, outcome,
                     before, published>>
  BY BoundsNat DEF InstallFails, Fault, directories, PromotionTypeOK
<1>3. outcome' = "running" /\ RunInv'
  BY <1>2 DEF RunInv, Holds
<1>4. /\ \A m \in Numbers : ~ (m > Mirrors)
      /\ ~ (Mirrors < at)
  BY MirrorNumbers, MirrorsPositive DEF PromotionTypeOK, Numbers
<1>5. RollingBackInv'
  BY <1>2, <1>4, MirrorNumbers DEF RollingBackInv, InstallingInv, Aside, Kept, Absent
<1>6. PublishedInv'
  <2>1. published' /\ faults' <= 1 => \A m \in Numbers : Whole(before[m])
    BY <1>2 DEF PublishedInv
  <2>2. faults' # 0
    BY <1>2
  <2>3. QED
    BY <1>2, <2>1, <2>2 DEF PublishedInv, Whole
<1>7. RollBackRestores' /\ LastMirrorInv'
  BY <1>2, <1>3 DEF RollBackRestores, LastMirrorInv, LastMirrorWhole, Whole, Absent
<1>8. QED
  BY <1>1, <1>2, <1>3, <1>5, <1>6, <1>7, OtherPhases

LEMMA RemovingKeepsInv ==
  ASSUME PromotionInv, RemoveInstalled \/ Removed
  PROVE  PromotionInv'
<1> USE DEF PromotionInv
<1>1. PromotionTypeOK'
  BY FailuresKeepTypes
<1>2. /\ pc = "removing" /\ pc' \in {"removing", "putting back"}
      /\ Promoting("removing", pc')
      /\ UNCHANGED <<backup, staging, at, had, installed, published>>
  BY DEF RemoveInstalled, Removed, Promoting, directories
<1>3. /\ RunInv' /\ RollBackRestores' /\ outcome' = "running"
      /\ UNCHANGED <<evidence, before, faults>>
  BY <1>2, PromotingKeepsRun DEF Phases, RemoveInstalled, Removed
<1>4. /\ \A m \in Numbers : m # at => destination'[m] = destination[m]
      /\ ~ installed[at] => destination'[at] = destination[at]
  BY DEF RemoveInstalled, Removed, directories, PromotionTypeOK
<1>5. pc' = "putting back" => destination'[at] = Absent
  <2>1. RemoveInstalled => pc' = "removing"
    BY DEF RemoveInstalled, Promoting
  <2>2. Removed => destination' = destination /\ (installed[at] => destination[at] = Absent)
    BY DEF Removed, directories
  <2>3. ~ installed[at] => destination[at] = Absent
    <3>1. at \in Numbers /\ ~ (at > at)
      BY MirrorNumbers DEF PromotionTypeOK
    <3>2. QED
      BY <1>2, <3>1 DEF RollingBackInv
  <2>4. QED
    BY <2>1, <2>2, <2>3
<1>6. \A m \in Numbers : m > at => m # at
  BY MirrorNumbers DEF PromotionTypeOK
<1>7. RollingBackInv'
  BY <1>2, <1>3, <1>4, <1>5, <1>6 DEF RollingBackInv, Untouched, Kept, Absent
<1>8. destination'[Mirrors] = destination[Mirrors]
  BY <1>2, <1>4, MirrorNumbers DEF RollingBackInv
<1>9. PublishedInv' /\ LastMirrorInv'
  BY <1>2, <1>3, <1>8 DEF PublishedInv, LastMirrorInv, LastMirrorWhole, Whole, Absent
<1>10. QED
  BY <1>1, <1>2, <1>3, <1>7, <1>9, OtherPhases

\* The backups go back in reverse order; with the first mirror's, all are as they were.
LEMMA PutBackKeepsInv ==
  ASSUME PromotionInv, PutBack
  PROVE  PromotionInv'
<1> USE DEF PromotionInv
<1>1. PromotionTypeOK'
  BY FailuresKeepTypes
<1>2. /\ pc = "putting back"
      /\ destination' = (IF had[at] THEN [destination EXCEPT ![at] = backup[at]] ELSE destination)
      /\ backup' = (IF had[at] THEN [backup EXCEPT ![at] = Absent] ELSE backup)
      /\ UNCHANGED <<staging, published, before, faults>>
  BY DEF PutBack, RolledBack, Promoting, Leave
<1>3. /\ at \in Numbers /\ at \in Nat /\ ~ (at > at)
      /\ \A m \in Numbers : m \in Nat /\ 1 <= m /\ (m > at => m # at)
  BY MirrorNumbers DEF PromotionTypeOK
<1>4. \A m \in Numbers : m # at => destination'[m] = destination[m] /\ backup'[m] = backup[m]
  BY <1>2 DEF PromotionTypeOK
<1>5. destination'[at] = before[at]
  BY <1>2, <1>3 DEF RollingBackInv, Kept, PromotionTypeOK
<1>6. \A m \in Numbers : (m > at \/ m = at) => destination'[m] = before[m]
  BY <1>2, <1>3, <1>4, <1>5 DEF RollingBackInv, Untouched
<1>7. faults >= 1 /\ faults \in Nat /\ (published /\ faults <= 1 => \A m \in Numbers : Whole(before[m]))
  <2>1. faults >= 1
    BY <1>2 DEF RollingBackInv
  <2>2. faults \in Nat
    BY BoundsNat DEF PromotionTypeOK
  <2>3. published /\ faults <= 1 => \A m \in Numbers : Whole(before[m])
    BY <1>2 DEF PublishedInv
  <2>4. QED
    BY <2>1, <2>2, <2>3
<1>8. LastMirrorInv'
  BY <1>2, <1>4, <1>5, MirrorNumbers DEF LastMirrorInv, LastMirrorWhole, Whole, Absent
<1>9. CASE at > 1 /\ Promoting("putting back", "removing") /\ at' = at - 1
           /\ UNCHANGED <<had, installed>>
  <2>1. /\ RunInv' /\ RollBackRestores' /\ outcome' = "running" /\ pc' = "removing"
    BY <1>9, PromotingKeepsRun DEF Phases
  <2>2. \A m \in Numbers : m > at' <=> (m > at \/ m = at)
    <3>1. at' = at - 1 /\ at \in Nat /\ Numbers \subseteq Nat
      BY <1>3, <1>9
    <3>2. QED
      BY <3>1
  <2>3. RollingBackInv'
    BY <1>2, <1>4, <1>6, <1>9, <2>1, <2>2 DEF RollingBackInv, Untouched, Kept, Absent
  <2>4. PublishedInv'
    BY <1>2, <1>7, <2>1 DEF PublishedInv, Whole
  <2>5. QED
    BY <1>1, <1>8, <2>1, <2>3, <2>4, OtherPhases
<1>10. CASE at = 1 /\ Leave("putting back", "rolled back") /\ UNCHANGED faults
  <2>1. /\ pc' = "idle" /\ outcome' = "rolled back" /\ at' = 1 /\ installed' = Nowhere
        /\ UNCHANGED <<recorded, now, evidence>>
    BY <1>10 DEF Leave
  <2>2. \A m \in Numbers : destination'[m] = before[m]
    <3>1. at = 1 /\ \A m \in Numbers : m \in Nat /\ 1 <= m
      BY <1>3, <1>10
    <3>2. \A m \in Numbers : m > at \/ m = at
      BY <3>1
    <3>3. QED
      BY <1>6, <3>2
  <2>3. destination' = before
    BY <1>1, <2>2 DEF PromotionTypeOK
  <2>4. RunInv'
    BY <2>1 DEF RunInv, Nowhere
  <2>5. /\ BuildingInv' /\ PreparingInv' /\ InstallingInv' /\ DroppingInv' /\ RollingBackInv'
        /\ RollBackRestores'
    BY <1>2, <2>1, <2>3
       DEF BuildingInv, PreparingInv, InstallingInv, DroppingInv, RollingBackInv, RollBackRestores
  <2>6. PublishedInv'
    BY <1>2, <1>7, <2>1, <2>2 DEF PublishedInv, Whole
  <2>7. QED
    BY <1>1, <1>8, <2>4, <2>5, <2>6
<1>11. QED
  BY <1>9, <1>10 DEF PutBack, RolledBack

-----------------------------------------------------------------------------
(* The theorems *)

\* Every step of the promotion keeps the invariant.
LEMMA PromotionInvKept == PromotionInv /\ [PromotionStep]_vars => PromotionInv'
<1> SUFFICES ASSUME PromotionInv, [PromotionStep]_vars PROVE PromotionInv'
  OBVIOUS
<1>1. CASE UNCHANGED vars
  <2>1. UNCHANGED <<recorded, now, destination, backup, staging, pc, at, evidence, had, installed,
                    outcome, before, published, faults>>
    BY <1>1 DEF vars, directories, loop, history
  <2>2. PromotionTypeOK' /\ RunInv'
    BY <2>1 DEF PromotionInv, PromotionTypeOK, RunInv, Holds, Nowhere
  <2>3. /\ BuildingInv' /\ PreparingInv' /\ InstallingInv' /\ DroppingInv' /\ RollingBackInv'
    BY <2>1 DEF PromotionInv, BuildingInv, PreparingInv, InstallingInv, DroppingInv,
       RollingBackInv, Untouched, Staged, Aside, Kept, New, Absent
  <2>4. RollBackRestores' /\ PublishedInv' /\ LastMirrorInv'
    BY <2>1 DEF PromotionInv, RollBackRestores, PublishedInv, LastMirrorInv, LastMirrorWhole,
       Whole, Absent
  <2>5. QED
    BY <2>2, <2>3, <2>4 DEF PromotionInv
<1>2. CASE PromotionStep
  BY <1>2, AroundKeepsInv, BeginKeepsInv, RefuseKeepsInv, ClearStagingKeepsInv, BuildKeepsInv,
     DropBackupKeepsInv, SetAsideKeepsInv, InstallKeepsInv, DropOldKeepsInv, ReturnKeepsInv,
     ThrowsKeepInv, InstallFailsKeepsInv, RemovingKeepsInv, PutBackKeepsInv
     DEF PromotionStep
<1>3. QED
  BY <1>1, <1>2

\* The invariant holds of every reachable state.
THEOREM PromotionInvariant == PromotionSpec => []PromotionInv
<1>1. QED
  BY PromotionInvInitially, PromotionInvKept, PTL DEF PromotionSpec

\* The variables keep their types.
THEOREM PromotionTypesHold == PromotionSpec => []PromotionTypeOK
<1>1. PromotionInv => PromotionTypeOK
  BY DEF PromotionInv
<1>2. QED
  BY <1>1, PromotionInvariant, PTL

\* promoteLatestEvidence returns only with the same whole bundle, of evidence that held, in
\* every mirror, however many there are and however the attempts before it ended.
THEOREM PromotedMirrorsAgree == PromotionSpec => []MirrorsAgree
<1>1. PromotionInv => MirrorsAgree
  BY DEF PromotionInv, RunInv, DroppingInv, New, MirrorsAgree
<1>2. QED
  BY <1>1, PromotionInvariant, PTL

\* The catch block of replaceDirectoriesAtomically restores every mirror, when it gets to
\* its end.
THEOREM RollBacksRestore == PromotionSpec => []RollBackRestores
<1>1. PromotionInv => RollBackRestores
  BY DEF PromotionInv
<1>2. QED
  BY <1>1, PromotionInvariant, PTL

\* Whatever fails and wherever the process dies, the last mirror is absent or whole: the
\* catch block never has to remove it, since it is the last one to be installed.
THEOREM LastMirrorIsWhole == PromotionSpec => []LastMirrorWhole
<1>1. PromotionInv => LastMirrorWhole
  BY DEF PromotionInv, LastMirrorInv
<1>2. QED
  BY <1>1, PromotionInvariant, PTL

\* One failed call or one crash leaves a whole copy of every mirror: the copies are handed
\* from the destination to the backup, and from the staging directory to the destination,
\* so that a phase of the promotion tells where one is.
THEOREM OneFaultIsSurvived == PromotionSpec => []OneFaultLosesNothing
<1>1. PromotionInv => OneFaultLosesNothing
  <2> SUFFICES ASSUME PromotionInv, published, faults <= 1, NEW m \in Numbers
               PROVE  Whole(destination[m]) \/ Whole(backup[m]) \/ Whole(staging[m])
    BY DEF OneFaultLosesNothing
  <2> USE DEF PromotionInv
  <2>1. pc # "idle" => Whole(New)
    BY NewIsWhole DEF RunInv
  <2>2. CASE pc \in {"idle", "clearing", "building"}
    BY <2>2 DEF PublishedInv
  <2>3. CASE pc \in {"preparing", "setting aside"}
    BY <2>1, <2>3 DEF PreparingInv, Staged
  <2>4. CASE pc = "installing"
    BY <2>1, <2>4 DEF InstallingInv, Staged
  <2>5. CASE pc = "dropping"
    BY <2>1, <2>5 DEF DroppingInv
  <2>6. CASE pc \in {"removing", "putting back"}
    BY <2>6 DEF PublishedInv, RollingBackInv, Untouched, Kept
  <2>7. QED
    BY <2>2, <2>3, <2>4, <2>5, <2>6 DEF PromotionTypeOK, Phases
<1>2. QED
  BY <1>1, PromotionInvariant, PTL
=============================================================================
