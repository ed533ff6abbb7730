------------------------------ MODULE Extrema ------------------------------
(***************************************************************************)
(* Least and greatest elements: what Min and Max give of sets of natural   *)
(* numbers, which the choice of a row, a run or a deadline rests on; and   *)
(* the positions of a sequence that grew by one element at most.           *)
(***************************************************************************)
EXTENDS Integers, FiniteSetsExt, WellFoundedInduction, TLAPS

\* A set of natural numbers that is not empty has a least element.
LEMMA Smallest ==
    ASSUME NEW S \in SUBSET Nat, S # {}
    PROVE  \E m \in S : \A x \in S : m =< x
<1>1. PICK m \in S : \A x \in S : <<x, m>> \notin OpToRel(<, Nat)
    BY WFMin, NatLessThanWellFounded
<1>2. \A x \in Nat, y \in Nat : x < y => <<x, y>> \in OpToRel(<, Nat)
    BY DEF OpToRel
<1>3. \A x \in S : ~ (x < m)
    BY <1>1, <1>2
<1>4. \A x \in S : m =< x
    BY <1>3
<1> QED BY <1>4

\* A bounded one has a greatest.
LEMMA Largest ==
    ASSUME NEW n \in Nat, NEW S \in SUBSET (0..n), S # {}
    PROVE  \E m \in S : \A x \in S : x =< m
<1> DEFINE T == {t \in 0..n : n - t \in S}
<1>1. PICK s \in S : TRUE
    OBVIOUS
<1>2. n - s \in T
    BY n - (n - s) = s
<1>3. PICK t \in T : \A x \in T : t =< x
    <2>1. T \in SUBSET Nat /\ T # {}
        BY <1>2
    <2> HIDE DEF T
    <2> QED BY <2>1, Smallest
<1>4. n - t \in S /\ t \in 0..n
    OBVIOUS
<1>5. ASSUME NEW x \in S PROVE x =< n - t
    <2>1. n - x \in T
        BY n - (n - x) = x
    <2>2. t =< n - x
        BY <1>3, <2>1
    <2> QED BY <1>4, <2>2
<1> QED BY <1>4, <1>5

\* Max gives the greatest element.
LEMMA MaxIsLargest ==
    ASSUME NEW n \in Nat, NEW S \in SUBSET (0..n), S # {}
    PROVE  Max(S) \in S /\ \A x \in S : x =< Max(S)
<1>1. PICK m \in S : \A x \in S : m >= x
    BY Largest
<1> QED BY <1>1 DEF Max

\* Min gives the least.
LEMMA MinIsSmallest ==
    ASSUME NEW S \in SUBSET Nat, S # {}
    PROVE  Min(S) \in S /\ \A x \in S : Min(S) =< x
BY Smallest DEF Min

\* A sequence that grew by one element at most has that as its last.
LEMMA OneMore ==
    ASSUME NEW n \in Nat, NEW m \in {n, n + 1}
    PROVE  \A p \in 1..m : \/ p \in 1..n
                           \/ p = m /\ m = n + 1
OBVIOUS

\* The positions there were are still there, within the same bound.
LEMMA Longer ==
    ASSUME NEW n \in Nat, NEW m \in {n, n + 1}, NEW bound \in Nat, m =< bound
    PROVE  /\ 1..n \subseteq 1..m /\ 1..m \subseteq 1..bound /\ 1..n \subseteq 1..bound
           /\ \A p \in 1..bound : p = m => p \in 1..m
OBVIOUS

=============================================================================
