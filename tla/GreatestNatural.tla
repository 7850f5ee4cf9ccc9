-------------------------- MODULE GreatestNatural --------------------------
(***************************************************************************)
(* A fact about natural numbers that the proofs about the tables share.    *)
(***************************************************************************)
EXTENDS Naturals, WellFoundedInduction, TLAPS

\* A non-empty set of natural numbers that is bounded has a greatest element:
\* the dates ORDER BY version_date DESC LIMIT 1 chooses from, or the places in
\* a common order of the rows a circle of transactions waits for.
LEMMA GreatestExists ==
    ASSUME NEW T \in SUBSET Nat, T # {},
           NEW m \in Nat, \A t \in T : t <= m
    PROVE  \E x \in T : \A y \in T : y <= x
<1> DEFINE D == {m - t : t \in T}
<1>1. D \subseteq Nat /\ D # {}
    <2>1. ASSUME NEW t \in T PROVE m - t \in Nat
        <3>1. t \in Nat /\ t <= m
            OBVIOUS
        <3> QED BY <3>1
    <2> QED BY <2>1
<1>2. PICK d \in D : \A e \in D : <<e, d>> \notin OpToRel(<, Nat)
    <2>1. IsWellFoundedOn(OpToRel(<, Nat), Nat)
        BY NatLessThanWellFounded
    <2> HIDE DEF D
    <2> QED BY <1>1, <2>1, WFMin
<1>3. ASSUME NEW e \in D, e < d PROVE FALSE
    <2>1. <<e, d>> \in OpToRel(<, Nat)
        <3> HIDE DEF D
        <3> QED BY <1>1, <1>3 DEF OpToRel
    <2> QED BY <1>2, <2>1
<1>4. PICK x \in T : d = m - x
    OBVIOUS
<1>5. ASSUME NEW y \in T PROVE y <= x
    <2>1. ~(m - y < m - x)
        BY <1>3, <1>4
    <2> QED BY <2>1
<1> QED BY <1>5

=============================================================================
