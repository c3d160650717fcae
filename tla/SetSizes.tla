------------------------------- MODULE SetSizes -------------------------------
(***************************************************************************)
(* How the size of a finite set changes by one element: what the accounts  *)
(* of CarrierProofs and MiddlewareProofs are kept with.                    *)
(***************************************************************************)
EXTENDS FiniteSetTheorems, TLAPS

\* A set with at most one element more is finite, and no larger than that.
LEMMA GrownSize ==
  ASSUME NEW S, NEW T, IsFiniteSet(S), NEW y, T \subseteq S \cup {y}
  PROVE  IsFiniteSet(T) /\ Cardinality(T) <= Cardinality(S) + 1
<1>0. Cardinality(S) \in Nat
  BY FS_CardinalityType
<1>1. IsFiniteSet(S \cup {y}) /\ Cardinality(S \cup {y}) <= Cardinality(S) + 1
  <2>1. /\ IsFiniteSet(S \cup {y})
        /\ Cardinality(S \cup {y}) = IF y \in S THEN Cardinality(S) ELSE Cardinality(S) + 1
    BY FS_AddElement
  <2>2. QED
    BY <1>0, <2>1
<1>2. IsFiniteSet(T) /\ Cardinality(T) <= Cardinality(S \cup {y})
  BY <1>1, FS_Subset
<1>3. Cardinality(T) \in Nat /\ Cardinality(S \cup {y}) \in Nat
  BY <1>1, <1>2, FS_CardinalityType
<1>4. QED
  BY <1>0, <1>1, <1>2, <1>3

\* A set that lost an element, at least, is one smaller, at least.
LEMMA ShrunkSize ==
  ASSUME NEW S, NEW T, IsFiniteSet(S), NEW x \in S, T \subseteq S \ {x}
  PROVE  IsFiniteSet(T) /\ Cardinality(T) <= Cardinality(S) - 1
<1>1. IsFiniteSet(S \ {x}) /\ Cardinality(S \ {x}) = Cardinality(S) - 1
  BY FS_RemoveElement
<1>2. IsFiniteSet(T) /\ Cardinality(T) <= Cardinality(S \ {x})
  BY <1>1, FS_Subset
<1>3. QED
  BY <1>1, <1>2
=============================================================================
