----------------------------- MODULE RunContract -----------------------------
(***************************************************************************)
(* What a run promises to whoever reads its snapshots, without its events, *)
(* envelopes, stages and schemas: strategies enter a race once, each one   *)
(* settles once, the race is judged only after all have settled, a winner  *)
(* is one of the eligible, and a run that has ended changes no more.       *)
(***************************************************************************)
EXTENDS Naturals

CONSTANTS Strategies, None

VARIABLES
  phase,    \* "idle", "preparing", "racing", "judging", "stopping", "ended"
  outcome,  \* strategy -> "open" or how it settled, for the strategies that race
  winner    \* the selected strategy, or None

contractVars == <<phase, outcome, winner>>

Outcomes == {"ELIGIBLE", "REJECTED", "INCONCLUSIVE"}

Init == phase = "idle" /\ outcome = [s \in {} |-> "open"] /\ winner = None

Receive ==
  /\ phase = "idle"
  /\ phase' = "preparing"
  /\ UNCHANGED <<outcome, winner>>

Enter ==
  /\ phase = "preparing"
  /\ phase' = "racing"
  /\ \E S \in (SUBSET Strategies) \ {{}} : outcome' = [s \in S |-> "open"]
  /\ winner' = winner

Settle(s) ==
  /\ phase = "racing"
  /\ outcome[s] = "open"
  /\ \E o \in Outcomes : outcome' = [outcome EXCEPT ![s] = o]
  /\ UNCHANGED <<phase, winner>>

Judge ==
  /\ phase = "racing"
  /\ \A s \in DOMAIN outcome : outcome[s] # "open"
  /\ phase' = "judging"
  /\ UNCHANGED <<outcome, winner>>

\* An abstention leaves winner at None.
Decide ==
  /\ phase = "judging"
  /\ phase' = "ended"
  /\ winner' \in {None} \cup {s \in DOMAIN outcome : outcome[s] = "ELIGIBLE"}
  /\ outcome' = outcome

Stop ==
  /\ phase \in {"preparing", "racing", "judging"}
  /\ phase' \in {"stopping", "ended"}
  /\ UNCHANGED <<outcome, winner>>

Stopped ==
  /\ phase = "stopping"
  /\ phase' = "ended"
  /\ UNCHANGED <<outcome, winner>>

Next ==
  \/ Receive \/ Enter \/ Judge \/ Decide \/ Stop \/ Stopped
  \/ \E s \in DOMAIN outcome : Settle(s)

Spec == Init /\ [][Next]_contractVars
=============================================================================
