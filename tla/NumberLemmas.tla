---------------------------- MODULE NumberLemmas ----------------------------
(***************************************************************************)
(* Facts about sets of natural numbers that the proofs about several       *)
(* components rest on.                                                     *)
(***************************************************************************)
EXTENDS Integers, FiniteSetsExt, FiniteSetTheorems, WellFoundedInduction, TLAPS

\* Every non-empty set of naturals has a least element.
LEMMA LeastElement ==
    ASSUME NEW T \in SUBSET Nat, T # {}
    PROVE  \E x \in T : \A y \in T : ~ (y < x)
<1> DEFINE Upto(x) == 0 .. x
           U == {Upto(x) : x \in T}
<1>1. IsWellFoundedOn(StrictSubsetOrdering(Nat), FiniteSubsetsOf(Nat))
    BY FS_StrictSubsetOrderingWellFounded
<1>2. U \subseteq FiniteSubsetsOf(Nat)
    <2>1. \A x \in T : IsFiniteSet(0 .. x)
        BY FS_Interval
    <2>2. \A x \in T : Upto(x) \subseteq Nat /\ IsFiniteSet(Upto(x))
        BY <2>1
    <2> QED
        BY <2>2 DEF FiniteSubsetsOf
<1>3. U # {}
    OBVIOUS
<1>4. \E u \in U : \A v \in U : ~ (<<v, u>> \in StrictSubsetOrdering(Nat))
    <2> HIDE DEF U
    <2> QED
        BY <1>1, <1>2, <1>3, WFMin, Zenon
<1>5. PICK x \in T : \A y \in T : ~ (<<Upto(y), Upto(x)>> \in StrictSubsetOrdering(Nat))
    BY <1>4
<1>6. ASSUME NEW y \in T, y < x
      PROVE  FALSE
    <2>1. Upto(y) \subseteq Upto(x) /\ Upto(y) # Upto(x) /\ Upto(x) \subseteq Nat
        BY <1>6
    <2> QED
        BY <2>1, <1>5 DEF StrictSubsetOrdering
<1> QED
    BY <1>6

\* Min finds the least element of any non-empty set of naturals.
LEMMA MinIsLeast ==
    ASSUME NEW T \in SUBSET Nat, T # {}
    PROVE  Min(T) \in T /\ \A y \in T : Min(T) <= y
<1>1. PICK x \in T : \A y \in T : ~ (y < x)
    BY LeastElement
<1>2. \A y \in T : x <= y
    BY <1>1
<1> QED
    BY <1>2 DEF Min

\* Max finds the greatest element of any non-empty bounded set of naturals.
LEMMA MaxIsGreatest ==
    ASSUME NEW T \in SUBSET Nat, T # {}, NEW b \in Nat, \A x \in T : x <= b
    PROVE  Max(T) \in T /\ \A y \in T : y <= Max(T)
<1> DEFINE U == {b - x : x \in T}
<1>1. U \in SUBSET Nat /\ U # {}
    <2>1. \A x \in T : b - x \in Nat
        OBVIOUS
    <2> QED
        BY <2>1, Zenon
<1>2. PICK u \in U : \A v \in U : ~ (v < u)
    BY <1>1, LeastElement
<1>3. PICK x \in T : u = b - x
    BY <1>2
<1>4. \A y \in T : b - y \in U
    BY Zenon
<1>5. \A y \in T : ~ (b - y < b - x)
    BY <1>2, <1>3, <1>4
<1>6. \A y \in T : x >= y
    BY <1>5
<1> QED
    BY <1>6 DEF Max
=============================================================================
