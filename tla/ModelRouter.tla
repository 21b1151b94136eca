---------------------------- MODULE ModelRouter ----------------------------
(***************************************************************************)
(* The choice of a model from the catalog that Token Factory lists for the *)
(* account: what the catalog check admits, the family role that            *)
(* selectNvidiaDecision asks for, and routeModel's policy.                 *)
(*                                                                         *)
(* A catalog is a set of entries.  An entry has an ID (a number, in the    *)
(* order of the exact IDs), its family, whether NVIDIA publishes it,       *)
(* whether it declares structured output, its context window and the       *)
(* estimated cost of one call, None where the catalog does not say, and    *)
(* whether the entry is active and well formed.                            *)
(***************************************************************************)
EXTENDS Naturals, FiniteSets, Sequences

CONSTANTS None, ContextNeeded, CostLimit

Entries ==
  [id : Nat, family : {"SUPER", "LIGHTNING", "ULTRA", "OTHER"}, nvidia : BOOLEAN,
   structured : BOOLEAN, context : Nat \cup {None}, cost : Nat \cup {None},
   active : BOOLEAN, wellFormed : BOOLEAN]

(* An inactive entry is skipped before anything else about it is read; a   *)
(* malformed entry or an ID listed twice refuses the whole catalog.        *)
Active(catalog) == {m \in catalog : m.active}

Trustworthy(catalog) ==
  /\ \A m \in Active(catalog) : m.wellFormed
  /\ \A m, n \in Active(catalog) : m.id = n.id => m = n

Known(catalog, families) == {m \in Active(catalog) : m.family \in families}

(* The order in which selectNvidiaDecision sorts its candidates.           *)
Ahead(m, n) ==
  \/ m.structured /\ ~n.structured
  \/ /\ m.structured = n.structured
     /\ \/ m.family = "SUPER" /\ n.family # "SUPER"
        \/ m.family = "LIGHTNING" /\ n.family \notin {"SUPER", "LIGHTNING"}
        \/ m.family = n.family /\ m.id < n.id

Candidates(catalog) ==
  {m \in Known(catalog, {"SUPER", "LIGHTNING", "ULTRA"}) : m.nvidia}

First(models) == CHOOSE m \in models : \A n \in models \ {m} : Ahead(m, n)

RoleOf(m) ==
  CASE m.family = "LIGHTNING" -> "LIGHT"
    [] m.family = "SUPER" -> "STANDARD"
    [] OTHER -> "HEAVY"

FamilyPolicy ==
  [LIGHT |-> <<"LIGHTNING">>, STANDARD |-> <<"SUPER", "LIGHTNING">>,
   HEAVY |-> <<"ULTRA", "SUPER">>]

Fits(m) ==
  /\ m.context # None /\ m.context >= ContextNeeded
  /\ m.cost # None /\ m.cost <= CostLimit

(* The caller's preference if it is among the models, else the largest     *)
(* context window and, among equals, the first ID.                         *)
ChooseModel(models, preferred) ==
  IF preferred \in models
    THEN preferred
    ELSE CHOOSE m \in models :
           \A n \in models \ {m} :
             \/ m.context > n.context
             \/ m.context = n.context /\ m.id < n.id

(* A slip: the fallback is taken without a certificate.                    *)
RouteUncertified(catalog, role, preferred, certified) ==
  LET policy == FamilyPolicy[role]
      FitIn(k) == {m \in Known(catalog, {policy[k]}) : Fits(m)}
      filled == {k \in DOMAIN policy : FitIn(k) # {}}
      first == CHOOSE k \in filled : \A j \in filled : k <= j
  IN IF filled = {} THEN None ELSE ChooseModel(FitIn(first), preferred)

(* The first family of the role's policy with a model that fits.  As a     *)
(* fallback for a STANDARD task a Lightning model must be certified by a   *)
(* capability test, so that without one the router abstains (None).        *)
RouteModel(catalog, role, preferred, certified) ==
  LET policy == FamilyPolicy[role]
      FitIn(k) == {m \in Known(catalog, {policy[k]}) : Fits(m)}
      filled == {k \in DOMAIN policy : FitIn(k) # {}}
      first == CHOOSE k \in filled : \A j \in filled : k <= j
      eligible == IF role = "STANDARD" /\ policy[first] = "LIGHTNING"
                    THEN FitIn(first) \cap certified
                    ELSE FitIn(first)
  IN IF filled = {} THEN None
     ELSE IF eligible = {} THEN None
     ELSE ChooseModel(eligible, preferred)

(* The live driver passes no capability test.                              *)
SelectNvidiaDecision(catalog) ==
  LET candidates == Candidates(catalog)
      selected == First(candidates)
  IN IF candidates = {}
       THEN None
       ELSE RouteModel(catalog, RoleOf(selected), selected, {})
=============================================================================
