--------------------------- MODULE DataInduction ---------------------------
(***************************************************************************)
(* Least elements: of a set of naturals, of a set by a measure, and of a   *)
(* finite set by a strict total order.  The least counterexample stands in *)
(* for an induction, and a sort or a search returns the first element.     *)
(***************************************************************************)
EXTENDS Integers, FiniteSets, FiniteSetTheorems, TLAPS

\* Every set of naturals that is not empty has a least element.
LEMMA LeastNatural ==
  ASSUME NEW T \in SUBSET Nat, T # {}
  PROVE  \E x \in T : \A y \in T : x <= y
<1> DEFINE R == OpToRel(<, Nat)
<1>1. IsWellFoundedOn(R, Nat)
  BY NatLessThanWellFounded
<1>2. \A x, y \in Nat : y < x => <<y, x>> \in R
  BY DEF OpToRel
<1>3. PICK x \in T : \A y \in T : ~(<<y, x>> \in R)
  <2> HIDE DEF R
  <2>1. QED
    BY <1>1, WFMin
<1>4. \A y \in T : ~(y < x)
  <2> HIDE DEF R
  <2> QED
    BY <1>2, <1>3
<1>5. \A y \in T : x <= y
  BY <1>4
<1>6. QED
  BY <1>5

\* Some element has the least value.
LEMMA LeastValue ==
  ASSUME NEW S, S # {}, NEW f, \A x \in S : f[x] \in Nat
  PROVE  \E x \in S : \A y \in S : f[x] <= f[y]
<1> DEFINE values == {f[x] : x \in S}
<1>1. values \in SUBSET Nat /\ values # {}
  OBVIOUS
<1>2. PICK v \in values : \A w \in values : v <= w
  BY <1>1, LeastNatural
<1>3. QED
  BY <1>2

\* A strict total order on a finite set has a first element: the one with the fewest before it.
LEMMA FirstOfFinite ==
  ASSUME NEW S, IsFiniteSet(S), S # {}, NEW R,
         \A x \in S : <<x, x>> \notin R,
         \A x, y, z \in S : <<x, y>> \in R /\ <<y, z>> \in R => <<x, z>> \in R,
         \A x, y \in S : x # y => <<x, y>> \in R \/ <<y, x>> \in R
  PROVE  \E x \in S : \A y \in S \ {x} : <<x, y>> \in R
<1> DEFINE Before(x) == {y \in S : <<y, x>> \in R}
           count == [x \in S |-> Cardinality(Before(x))]
<1>1. \A x \in S : IsFiniteSet(Before(x)) /\ count[x] \in Nat
  <2>1. ASSUME NEW x \in S
        PROVE  IsFiniteSet(Before(x)) /\ Cardinality(Before(x)) \in Nat
    <3>1. Before(x) \in SUBSET S
      OBVIOUS
    <3>2. IsFiniteSet(Before(x))
      BY <3>1, FS_Subset
    <3>3. QED
      BY <3>2, FS_CardinalityType
  <2>2. QED
    BY <2>1
<1>2. \A x, y \in S : <<y, x>> \in R => count[y] < count[x]
  <2>1. SUFFICES ASSUME NEW x \in S, NEW y \in S, <<y, x>> \in R
                 PROVE  count[y] < count[x]
    OBVIOUS
  <2>2. Before(y) \in SUBSET Before(x) /\ Before(y) # Before(x)
    BY <2>1
  <2>3. count[y] <= count[x] /\ count[y] # count[x]
    BY <1>1, <2>2, FS_Subset
  <2>4. QED
    BY <1>1, <2>3
<1>3. PICK x \in S : \A y \in S : count[x] <= count[y]
  <2> HIDE DEF count
  <2> QED
    BY <1>1, LeastValue
<1>4. \A y \in S : <<y, x>> \notin R
  <2>1. SUFFICES ASSUME NEW y \in S, <<y, x>> \in R
                 PROVE  FALSE
    OBVIOUS
  <2>2. count[y] < count[x] /\ count[x] <= count[y]
    BY <1>2, <1>3, <2>1
  <2>3. count[x] \in Nat /\ count[y] \in Nat
    BY <1>1
  <2> HIDE DEF count
  <2>4. QED
    BY <2>2, <2>3
<1>5. QED
  BY <1>4
=============================================================================
