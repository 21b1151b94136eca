------------------------------ MODULE Evaluator ------------------------------
(***************************************************************************)
(* packages/evaluator: from the hard gates, behaviour checks and metrics   *)
(* of each candidate, and the evidence they refer to, evaluateRun derives  *)
(* which candidates are eligible and which of them is selected.            *)
(*                                                                         *)
(* A candidate's input is a record [id, run, gates, checks, metrics,       *)
(* evidence] of sequences.  What a piece of evidence must say of its       *)
(* origin is one flag, `attributed`.  Left out: issues' texts and the      *)
(* model's recommendation, which decides nothing.                          *)
(***************************************************************************)
EXTENDS Integers, Sequences, FiniteSets, Functions

CONSTANT None

HardGateOrder ==
  <<"build", "original-tests", "migration-tests", "schema", "tool-calls",
    "prompt-regression", "secret-scan", "security", "nebius-runtime",
    "evidence-completeness">>

BehaviorCategories ==
  {"chat", "streaming", "structured-output", "tool-calls", "retry-timeout",
   "prompt-semantics"}

\* The evidence an ID refers to, for a candidate that may cite it.
Cited(id, c) ==
  {e \in Range(c.evidence) : e.id = id /\ e.candidate \in {c.id, None} /\ e.run = c.run}

\* validateExecutionEvidence: a result is proved by references to evidence of the
\* candidate's own execution, none of which contradicts it.
Proves(refs, status, c) ==
  /\ refs # <<>> /\ IsInjective(refs)
  /\ \A id \in Range(refs) : \E e \in Cited(id, c) :
       /\ e.attributed
       /\ e.classification \in {"measured", "observed"}
       /\ e.kind = "status" => e.status = status

\* No issue of validateGateSet, validateBehaviorChecks and the parity.
Complete(c) ==
  /\ IsInjective([i \in DOMAIN c.evidence |-> c.evidence[i].id])
  /\ \A name \in Range(HardGateOrder) :
       /\ Cardinality({i \in DOMAIN c.gates : c.gates[i].gate = name}) = 1
       /\ \A g \in Range(c.gates) : g.gate = name => Proves(g.evidence, g.status, c)
  /\ \A k \in Range(c.checks) :
       k.category \in BehaviorCategories /\ Proves(k.evidence, k.status, c)

StatusOf(name, c) == (CHOOSE g \in Range(c.gates) : g.gate = name).status

\* evaluateCandidate: the first hard gate that is not passed decides, then the behaviour
\* checks.
Disposition(c) ==
  LET notPassed == {n \in DOMAIN HardGateOrder : StatusOf(HardGateOrder[n], c) # "passed"}
      first == CHOOSE n \in notPassed : \A k \in notPassed : n <= k
      checked == {k.status : k \in Range(c.checks)}
  IN IF ~ Complete(c) THEN "inconclusive"
     ELSE IF notPassed # {}
     THEN IF StatusOf(HardGateOrder[first], c) = "failed" THEN "rejected" ELSE "inconclusive"
     ELSE IF "failed" \in checked THEN "rejected"
     ELSE IF "inconclusive" \in checked THEN "inconclusive" ELSE "eligible"

\* validateMeasuredEvidenceReferences, of a metric and its value.
Supports(refs, value, c) ==
  LET measured == {e \in UNION {Cited(id, c) : id \in Range(refs)} :
                     e.classification = "measured" /\ e.kind = "metric"}
  IN /\ \A id \in Range(refs) : Cited(id, c) # {}
     /\ \E e \in measured : e.attributed
     /\ \E e \in measured : value \in {e.value, e.sampleSize}

\* metricFor: the places of a candidate's metrics under a key.
Metrics(key, c) == {i \in DOMAIN c.metrics : c.metrics[i].key = key}

Comparable(key, c) ==
  /\ Cardinality(Metrics(key, c)) = 1
  /\ \A i \in Metrics(key, c) : Supports(c.metrics[i].evidence, c.metrics[i].value, c)

Value(key, c) == c.metrics[CHOOSE i \in Metrics(key, c) : TRUE].value

\* Mutant: the largest value wins whatever the direction.
LargestBest(tie, inputs, places) ==
  LET v == [p \in places |-> Value(tie.key, inputs[p])] IN
  {p \in places : \A q \in places : v[p] >= v[q]}

\* Those of the candidates at `places` that a tie-breaker leaves.
Best(tie, inputs, places) ==
  LET v == [p \in places |-> Value(tie.key, inputs[p])] IN
  {p \in places :
     \A q \in places : IF tie.direction = "lower" THEN v[p] <= v[q] ELSE v[p] >= v[q]}

Abstained(reason) == [status |-> "abstained", reason |-> reason]

\* evaluateRun.  left[n] are the candidates left after n tie-breakers; the comparison stops
\* when one is left or when some have no comparable metric.
EvaluateRun(inputs, ties) ==
  LET eligible == {p \in DOMAIN inputs : Disposition(inputs[p]) = "eligible"}
      blocked(n, places) ==
        n < Len(ties) /\ \E p \in places : ~ Comparable(ties[n + 1].key, inputs[p])
      settled(n, places) == Cardinality(places) = 1 \/ n = Len(ties) \/ blocked(n, places)
      left[n \in 0 .. Len(ties)] ==
        IF n = 0 THEN eligible
        ELSE IF settled(n - 1, left[n - 1]) THEN left[n - 1]
        ELSE Best(ties[n], inputs, left[n - 1])
      stop == CHOOSE n \in 0 .. Len(ties) :
                settled(n, left[n]) /\ \A k \in 0 .. n - 1 : ~ settled(k, left[k])
  IN IF inputs = <<>> THEN Abstained("no-candidates")
     ELSE IF ~ IsInjective([p \in DOMAIN inputs |-> inputs[p].id])
     THEN Abstained("invalid-candidate-set")
     ELSE IF eligible = {} THEN Abstained("no-eligible-candidates")
     ELSE IF Cardinality(left[stop]) = 1
     THEN [status |-> "selected", winner |-> inputs[CHOOSE p \in left[stop] : TRUE].id]
     ELSE Abstained(IF stop < Len(ties) THEN "insufficient-comparison-evidence"
                                       ELSE "eligible-candidates-tied")
=============================================================================
