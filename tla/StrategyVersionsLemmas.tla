----------------------- MODULE StrategyVersionsLemmas -----------------------
(***************************************************************************)
(* Facts about the latest version of a strategy, for the proofs about the  *)
(* state machines over the table.                                          *)
(***************************************************************************)
EXTENDS StrategyVersions, GreatestNatural, TLAPS

\* The latest of a set of versions whose dates are bounded is one of them, and
\* none of them has a later date.
LEMMA LatestIsGreatest ==
    ASSUME NEW vs \in SUBSET Version, vs # {},
           NEW m \in Nat, \A v \in vs : v.date <= m
    PROVE  /\ Latest(vs) \in vs
           /\ \A w \in vs : w.date <= Latest(vs).date
<1> DEFINE T == {v.date : v \in vs}
<1>1. T \in SUBSET Nat /\ T # {} /\ \A t \in T : t <= m
    BY DEF Version
<1>2. \E x \in T : \A y \in T : y <= x
    <2> HIDE DEF T
    <2> QED BY <1>1, GreatestExists
<1>3. \E v \in vs : \A w \in vs : w.date <= v.date
    BY <1>2
<1> QED BY <1>3 DEF Latest

\* A row with a later date than all others is the latest.
LEMMA LatestOfNewer ==
    ASSUME NEW vs \in SUBSET Version, NEW v \in Version,
           \A w \in vs : w.date < v.date
    PROVE  Latest(vs \cup {v}) = v
<1> DEFINE IsLatest(u) == \A w \in vs \cup {v} : w.date <= u.date
<1>1. IsLatest(v)
    BY DEF Version
<1>2. ASSUME NEW u \in vs \cup {v}, IsLatest(u) PROVE u = v
    BY <1>2 DEF Version
<1> QED BY <1>1, <1>2 DEF Latest

=============================================================================
