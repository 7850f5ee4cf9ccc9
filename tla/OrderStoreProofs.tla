-------------------------- MODULE OrderStoreProofs --------------------------
(***************************************************************************)
(* Proofs about OrderStore, for every set of orders and strategies and for *)
(* every environment that adds and deletes versions.                       *)
(***************************************************************************)
EXTENDS OrderStore, StrategyVersionsLemmas

LEMMA CallInProgress ==
    ASSUME TypeOK, orderCall.pc # "idle"
    PROVE  orderCall \in OrderCall
BY DEF TypeOK, Idle

LEMMA AnsweredCall ==
    ASSUME orderCall \in OrderCall, Answered("ok")
    PROVE  orderCall' \in OrderCall /\ orderCall'.pc \in {"ok", "err"}
<1>1. PICK pc \in {"ok", "err"} : orderCall' = [orderCall EXCEPT !.pc = pc]
    BY DEF Answered
<1> QED BY <1>1 DEF OrderCall

LEMMA VersionsOfType ==
    ASSUME TypeOK, NEW s \in Strategies \cup {None}
    PROVE  VersionsOf(s) \in SUBSET Version
BY DEF TypeOK, VersionsOf

\* The id the lookup finds is that of a version of the strategy, and none of
\* its versions has a later date.
LEMMA FoundVersion ==
    ASSUME TypeOK, RowsArePast, NEW s \in Strategies \cup {None},
           CurrentVersionId(VersionsOf(s)) # None
    PROVE  /\ s \in Strategies /\ s # None
           /\ VersionsOf(s) = versions[s]
           /\ \E v \in versions[s] :
                  /\ v.id = CurrentVersionId(VersionsOf(s))
                  /\ \A w \in versions[s] : w.date <= v.date
<1>1. VersionsOf(s) # {}
    BY DEF CurrentVersionId
<1>2. s \in Strategies /\ s # None /\ VersionsOf(s) = versions[s]
    BY <1>1 DEF VersionsOf
<1>3. \A v \in VersionsOf(s) : v.date <= MaxVersionId
    BY <1>2 DEF RowsArePast
<1>4. /\ Latest(VersionsOf(s)) \in VersionsOf(s)
      /\ \A w \in VersionsOf(s) : w.date <= Latest(VersionsOf(s)).date
    BY <1>1, <1>3, VersionsOfType, LatestIsGreatest, StrategyVersionsAssumption
<1> QED BY <1>1, <1>2, <1>4 DEF CurrentVersionId

\* The strategy a report names.
LEMMA ReportNames ==
    ASSUME NEW o \in OrderStates
    PROVE  o.strat_id \in Strategies \cup {None}
BY OrderStoreAssumption

LEMMA RowType ==
    ASSUME NEW o \in OrderStates, NEW version \in VersionId \cup {None},
           NEW row \in OrderRow \cup {None}
    PROVE  Merged(row, RowFrom(o, version)) \in OrderRow
<1>1. o \in [strat_id : Strategies \cup {None}, status : Nat,
             sell_reason_code : Nat, sell_close_time : Nat,
             bought : Nat, sold : Nat]
    BY OrderStoreAssumption
<1>2. RowFrom(o, version) \in OrderRow
    <2>1. (IF o.sold > 0 THEN o.sold - o.bought ELSE 0) \in Int
        BY <1>1
    <2> QED BY <1>1, <2>1 DEF RowFrom, OrderRow, SellReasonText, DelphiToUtc
<1> HIDE DEF RowFrom
<1> QED BY <1>2 DEF Merged, Coalesce, OrderRow

LEMMA UnlinkedType ==
    ASSUME NEW row \in OrderRow \cup {None}, NEW id
    PROVE  Unlinked(row, id) \in OrderRow \cup {None}
BY DEF Unlinked, OrderRow

LEMMA TypeStep ==
    ASSUME TypeOK, RowsArePast, [Next]_journalVars
    PROVE  TypeOK'
<1>1. ASSUME NEW u \in Uids, NEW o \in OrderStates, Upsert(u, o)
      PROVE  TypeOK'
    BY <1>1 DEF TypeOK, Upsert, OrderCall
<1>2. CASE LookupCurrentVersionId
    <2> DEFINE s == orderCall.order.strat_id
               found == CurrentVersionId(VersionsOf(s))
    <2>1. orderCall \in OrderCall
        BY <1>2, CallInProgress DEF LookupCurrentVersionId
    <2>2. s \in Strategies \cup {None}
        BY <2>1, ReportNames DEF OrderCall
    <2>3. found \in VersionId \cup {None}
        <3> SUFFICES ASSUME found # None PROVE found \in VersionId
            OBVIOUS
        <3>1. \E v \in VersionsOf(s) : v.id = found
            BY <2>2, FoundVersion
        <3> QED BY <2>2, <3>1, VersionsOfType DEF Version
    <2> HIDE DEF found
    <2>4. orderCall' \in OrderCall
        BY <1>2, <2>1, <2>3 DEF LookupCurrentVersionId, OrderCall, found
    <2> QED BY <1>2, <2>4 DEF LookupCurrentVersionId, TypeOK
<1>3. CASE WriteRow
    <2>1. orderCall \in OrderCall
        BY <1>3, CallInProgress DEF WriteRow
    <2>2. orderCall' \in OrderCall
        BY <1>3, <2>1, AnsweredCall DEF WriteRow
    <2>3. ASSUME NEW row \in OrderRow \cup {None}
          PROVE  Merged(row, RowFrom(orderCall.order, orderCall.version))
                     \in OrderRow
        BY <2>1, RowType DEF OrderCall
    <2>4. orders' \in [Uids -> OrderRow \cup {None}]
        BY <1>3, <2>3 DEF WriteRow, TypeOK
    <2> QED BY <1>3, <2>2, <2>4 DEF WriteRow, TypeOK
<1>4. CASE Fail
    <2>1. orderCall \in OrderCall
        BY <1>4, CallInProgress DEF Fail
    <2> QED BY <1>4, <2>1 DEF TypeOK, Fail, OrderCall
<1>5. CASE Return \/ Abandon
    BY <1>5 DEF TypeOK, Return, Abandon
<1>6. CASE NewVersion
    <2>1. nextId' \in 1 .. MaxVersionId + 1
        BY <1>6, StrategyVersionsAssumption DEF NewVersion, TypeOK
    <2>2. ASSUME NEW d \in 0 .. MaxVersionId, NEW led \in Leds
          PROVE  [id |-> nextId, date |-> d, led |-> led] \in Version
        BY <1>6, StrategyVersionsAssumption
        DEF NewVersion, TypeOK, Version, VersionId
    <2>3. versions' \in [Strategies -> SUBSET Version]
        <3>1. CASE UNCHANGED versions
            BY <3>1 DEF TypeOK
        <3>2. ASSUME NEW s \in Strategies, NEW d \in 0 .. MaxVersionId,
                     NEW led \in Leds,
                     versions' = [versions EXCEPT ![s] =
                         @ \cup {[id |-> nextId, date |-> d, led |-> led]}]
              PROVE  versions' \in [Strategies -> SUBSET Version]
            BY <2>2, <3>2 DEF TypeOK
        <3> QED BY <1>6, <3>1, <3>2 DEF NewVersion
    <2> QED BY <1>6, <2>1, <2>3 DEF NewVersion, TypeOK
<1>7. CASE PruneVersion
    <2>1. orders' \in [Uids -> OrderRow \cup {None}]
        BY <1>7, UnlinkedType DEF PruneVersion, Unlink, TypeOK
    <2> QED BY <1>7, <2>1 DEF PruneVersion, TypeOK
<1>8. CASE UNCHANGED journalVars
    BY <1>8 DEF TypeOK, journalVars
<1> QED BY <1>1, <1>2, <1>3, <1>4, <1>5, <1>6, <1>7, <1>8 DEF Next

LEMMA RowsArePastStep ==
    ASSUME TypeOK, RowsArePast, [Next]_journalVars
    PROVE  RowsArePast'
<1> nextId \in Nat /\ MaxVersionId \in Nat
    BY StrategyVersionsAssumption DEF TypeOK
<1>1. CASE NewVersion
    <2>1. nextId' = nextId + 1
        BY <1>1 DEF NewVersion
    <2>2. ASSUME NEW s \in Strategies, NEW v \in versions[s]
          PROVE  v.id < nextId + 1 /\ v.date <= MaxVersionId
        <3>1. v \in Version
            BY <2>2 DEF TypeOK
        <3> QED BY <2>2, <3>1 DEF RowsArePast, Version, VersionId
    <2>3. CASE UNCHANGED versions
        BY <2>1, <2>2, <2>3 DEF RowsArePast
    <2>4. ASSUME NEW s \in Strategies, NEW d \in 0 .. MaxVersionId,
                 NEW led \in Leds,
                 versions' = [versions EXCEPT ![s] =
                     @ \cup {[id |-> nextId, date |-> d, led |-> led]}]
          PROVE  RowsArePast'
        BY <2>1, <2>2, <2>4 DEF RowsArePast, TypeOK
    <2> QED BY <1>1, <2>3, <2>4 DEF NewVersion
<1>2. CASE PruneVersion
    BY <1>2 DEF PruneVersion, RowsArePast, TypeOK
<1>3. CASE UNCHANGED <<versions, nextId>>
    BY <1>3 DEF RowsArePast
<1> QED BY <1>1, <1>2, <1>3
        DEF Next, Upsert, LookupCurrentVersionId, WriteRow, Fail, Return,
            Abandon, journalVars

\* With the types, the bounds that make the latest version exist.
THEOREM TypesAndBounds == Spec => [](TypeOK /\ RowsArePast)
<1>1. Init => TypeOK /\ RowsArePast
    BY StrategyVersionsAssumption DEF Init, TypeOK, RowsArePast
<1>2. TypeOK /\ RowsArePast /\ [Next]_journalVars
          => TypeOK' /\ RowsArePast'
    BY TypeStep, RowsArePastStep
<1> QED BY <1>1, <1>2, PTL DEF Spec

\* The journal, the versions and the call have the types of the schema.
THEOREM TypeCorrect == Spec => []TypeOK
BY TypesAndBounds, PTL

-----------------------------------------------------------------------------
\* What a write makes of the rows: that of the call names the strategy of the
\* report, and is linked to the version of the call or as it was before.
LEMMA RowWritten ==
    ASSUME TypeOK, WriteRow
    PROVE  /\ orderCall \in OrderCall
           /\ \A u \in Uids : u # orderCall.uid => orders'[u] = orders[u]
           /\ LET u == orderCall.uid
              IN /\ orders'[u] \in OrderRow
                 /\ orders'[u].strategy_id = orderCall.order.strat_id
                 /\ orders'[u].strategy_version_id =
                        IF orderCall.version = None /\ orders[u] # None
                        THEN orders[u].strategy_version_id
                        ELSE orderCall.version
<1> DEFINE u == orderCall.uid
           new == RowFrom(orderCall.order, orderCall.version)
<1>1. orderCall \in OrderCall
    BY CallInProgress DEF WriteRow
<1>2. u \in Uids /\ orders[u] \in OrderRow \cup {None}
    BY <1>1 DEF OrderCall, TypeOK
<1>3. /\ orders'[u] = Merged(orders[u], new)
      /\ \A t \in Uids : t # u => orders'[t] = orders[t]
    BY <1>2 DEF WriteRow, TypeOK
<1>4. orders'[u] \in OrderRow
    BY <1>1, <1>2, <1>3, RowType DEF OrderCall
<1>5. /\ new.strategy_id = orderCall.order.strat_id
      /\ new.strategy_version_id = orderCall.version
      /\ new = [strategy_id |-> new.strategy_id,
                status |-> new.status,
                sell_reason_code |-> new.sell_reason_code,
                sell_reason |-> new.sell_reason,
                sell_close_time |-> new.sell_close_time,
                profit_btc |-> new.profit_btc,
                strategy_version_id |-> new.strategy_version_id]
    BY DEF RowFrom
<1> HIDE DEF new
<1>6. /\ orders'[u].strategy_id = orderCall.order.strat_id
      /\ orders'[u].strategy_version_id =
             IF orders[u] = None THEN orderCall.version
             ELSE Coalesce(orderCall.version, orders[u].strategy_version_id)
    BY <1>3, <1>5 DEF Merged
<1> QED BY <1>1, <1>3, <1>4, <1>6 DEF Coalesce

\* What a deletion leaves of a link: it is as it was, or there is none.
LEMMA LinkUnlinked ==
    ASSUME TypeOK, PruneVersion, NEW u \in Uids, orders'[u] # None,
           orders'[u].strategy_version_id # None
    PROVE  orders[u] # None /\ orders'[u] = orders[u]
<1>1. PICK id : orders'[u] = Unlinked(orders[u], id)
    BY DEF PruneVersion, Unlink
<1>2. orders[u] \in OrderRow
    BY <1>1 DEF TypeOK, Unlinked
<1> QED BY <1>1, <1>2, OrderRowAssumption DEF Unlinked, OrderRow

LEMMA NewVersionKeepsLinks ==
    ASSUME TypeOK, LinkInv, NewVersion
    PROVE  IdsAreUnique' /\ CallVersionIsOwn' /\ LinksArePast'
<1>1. /\ nextId \in Nat /\ nextId' = nextId + 1
      /\ UNCHANGED <<orders, orderCall>>
    BY DEF TypeOK, NewVersion
<1>2. ASSUME orderCall.pc = "write", orderCall.version # None
      PROVE  /\ orderCall.version \in Nat
             /\ orderCall.version < nextId /\ orderCall.version < nextId'
    <2>1. orderCall.version \in Nat
        BY <1>2, CallInProgress DEF OrderCall, VersionId
    <2>2. orderCall.version < nextId
        BY <1>2 DEF LinkInv, CallVersionIsOwn
    <2> QED BY <1>1, <2>1, <2>2
<1>3. LinksArePast'
    <2> SUFFICES ASSUME NEW u \in Uids, orders[u] # None,
                        orders[u].strategy_version_id # None
                 PROVE  orders[u].strategy_version_id < nextId + 1
        BY <1>1 DEF LinksArePast
    <2>1. orders[u].strategy_version_id \in Nat
        BY DEF TypeOK, OrderRow, VersionId
    <2>2. orders[u].strategy_version_id < nextId
        BY DEF LinkInv, LinksArePast
    <2> QED BY <1>1, <2>1, <2>2
<1>4. CASE UNCHANGED versions
    BY <1>1, <1>2, <1>3, <1>4 DEF LinkInv, IdsAreUnique, CallVersionIsOwn
<1>5. ASSUME NEW s0 \in Strategies, NEW d \in 0 .. MaxVersionId,
             NEW led \in Leds,
             versions' = [versions EXCEPT ![s0] =
                 @ \cup {[id |-> nextId, date |-> d, led |-> led]}]
      PROVE  IdsAreUnique' /\ CallVersionIsOwn'
    <2> DEFINE row == [id |-> nextId, date |-> d, led |-> led]
    <2>1. /\ versions'[s0] = versions[s0] \cup {row}
          /\ \A s \in Strategies : s # s0 => versions'[s] = versions[s]
          /\ row.id = nextId
        BY <1>5 DEF TypeOK
    <2>2. ASSUME NEW s \in Strategies, NEW v \in versions[s]
          PROVE  v.id # nextId
        <3>1. v.id \in Nat /\ v.id < nextId
            BY <2>2 DEF TypeOK, LinkInv, RowsArePast, Version, VersionId
        <3> QED BY <1>1, <3>1
    <2> HIDE DEF row
    <2>3. IdsAreUnique'
        BY <2>1, <2>2 DEF LinkInv, IdsAreUnique
    <2>4. CallVersionIsOwn'
        <3> SUFFICES ASSUME orderCall.pc = "write", orderCall.version # None,
                            NEW s \in Strategies, NEW v \in versions'[s],
                            v.id = orderCall.version
                     PROVE  s = orderCall.order.strat_id
            BY <1>1, <1>2 DEF LinkInv, CallVersionIsOwn
        <3>1. v # row
            BY <1>1, <1>2, <2>1
        <3>2. v \in versions[s]
            BY <2>1, <3>1
        <3> QED BY <3>2 DEF LinkInv, CallVersionIsOwn
    <2> QED BY <2>3, <2>4
<1> QED BY <1>3, <1>4, <1>5 DEF NewVersion

\* A deletion takes one version away, with the links to it.
LEMMA VersionPruned ==
    ASSUME TypeOK, PruneVersion
    PROVE  \E s0 \in Strategies : \E v0 \in versions[s0] :
               /\ versions'[s0] = versions[s0] \ {v0}
               /\ \A s \in Strategies : s # s0 => versions'[s] = versions[s]
               /\ \A u \in Uids : orders'[u] = Unlinked(orders[u], v0.id)
               /\ UNCHANGED <<nextId, orderCall>>
BY DEF PruneVersion, Unlink, TypeOK

LEMMA PruneKeepsLinks ==
    ASSUME TypeOK, LinkInv, PruneVersion
    PROVE  IdsAreUnique' /\ CallVersionIsOwn' /\ LinksArePast'
<1>1. IdsAreUnique' /\ CallVersionIsOwn'
    BY VersionPruned DEF LinkInv, IdsAreUnique, CallVersionIsOwn
<1>2. UNCHANGED nextId
    BY DEF PruneVersion
<1>3. LinksArePast'
    BY <1>2, LinkUnlinked DEF LinkInv, LinksArePast
<1> QED BY <1>1, <1>3

LEMMA LinkStep ==
    ASSUME TypeOK, LinkInv, [Next]_journalVars
    PROVE  LinkInv'
<1>1. RowsArePast'
    BY RowsArePastStep DEF LinkInv
<1>2. CASE LookupCurrentVersionId
    <2>1. orderCall \in OrderCall
        BY <1>2, CallInProgress DEF LookupCurrentVersionId
    <2> DEFINE t == orderCall.order.strat_id
               found == CurrentVersionId(VersionsOf(t))
    <2>2. IdsAreUnique' /\ LinksArePast'
        BY <1>2 DEF LookupCurrentVersionId, LinkInv, IdsAreUnique, LinksArePast
    <2>3. t \in Strategies \cup {None}
        BY <2>1, ReportNames DEF OrderCall
    <2>4. ASSUME found # None
          PROVE  /\ t # None
                 /\ found < nextId
                 /\ \A s \in Strategies : \A v \in versions[s] :
                        v.id = found => s = t
        <3>1. /\ t \in Strategies /\ t # None
              /\ \E v \in versions[t] : v.id = found
            BY <2>3, <2>4, FoundVersion DEF LinkInv
        <3> QED BY <3>1 DEF LinkInv, RowsArePast, IdsAreUnique
    <2>5. CASE orderCall' = [orderCall EXCEPT !.pc = "write", !.version = found]
        <3> HIDE DEF found
        <3>1. orderCall'.order = orderCall.order /\ orderCall'.version = found
            BY <2>1, <2>5 DEF OrderCall
        <3>2. UNCHANGED <<versions, nextId>>
            BY <1>2 DEF LookupCurrentVersionId
        <3> QED BY <1>1, <2>2, <2>4, <3>1, <3>2 DEF LinkInv, CallVersionIsOwn
    <2>6. CASE orderCall' = [orderCall EXCEPT !.pc = "err"]
        <3>1. orderCall'.pc # "write"
            BY <2>1, <2>6 DEF OrderCall
        <3> QED BY <1>1, <2>2, <3>1 DEF LinkInv, CallVersionIsOwn
    <2> QED BY <1>2, <2>5, <2>6 DEF LookupCurrentVersionId
<1>3. CASE WriteRow
    <2>1. orderCall'.pc # "write" /\ UNCHANGED <<versions, nextId>>
        BY <1>3, CallInProgress, AnsweredCall DEF WriteRow
    <2>2. IdsAreUnique' /\ CallVersionIsOwn'
        BY <2>1 DEF LinkInv, IdsAreUnique, CallVersionIsOwn
    <2>3. LinksArePast'
        <3> SUFFICES ASSUME NEW u \in Uids, orders'[u] # None,
                            orders'[u].strategy_version_id # None
                     PROVE  orders'[u].strategy_version_id < nextId
            BY <2>1 DEF LinksArePast
        <3>1. orderCall.pc = "write"
            BY <1>3 DEF WriteRow
        <3> QED BY <1>3, <3>1, RowWritten
                DEF LinkInv, LinksArePast, CallVersionIsOwn
    <2> QED BY <1>1, <2>2, <2>3 DEF LinkInv
<1>4. CASE NewVersion
    BY <1>1, <1>4, NewVersionKeepsLinks DEF LinkInv
<1>5. CASE PruneVersion
    BY <1>1, <1>5, PruneKeepsLinks DEF LinkInv
<1>6. CASE /\ UNCHANGED <<orders, versions, nextId>>
           /\ orderCall'.pc # "write" \/ UNCHANGED orderCall
    BY <1>1, <1>6 DEF LinkInv, IdsAreUnique, CallVersionIsOwn, LinksArePast
<1>7. CASE Fail
    <2>1. orderCall'.pc # "write"
        BY <1>7, CallInProgress DEF Fail, OrderCall
    <2> QED BY <1>6, <1>7, <2>1 DEF Fail
<1> QED BY <1>2, <1>3, <1>4, <1>5, <1>6, <1>7
        DEF Next, Upsert, Return, Abandon, Idle, journalVars

\* The inductive invariant of the links holds throughout: what a call is about
\* to link an order to is a version of the strategy its report names, or no
\* version at all.
THEOREM LinkInvariant == Spec => []LinkInv
<1>1. Init => LinkInv
    BY DEF Init, Idle, LinkInv, IdsAreUnique, RowsArePast, CallVersionIsOwn,
           LinksArePast
<1>2. TypeOK /\ LinkInv /\ [Next]_journalVars => LinkInv'
    BY LinkStep
<1> QED BY <1>1, <1>2, TypeCorrect, PTL DEF Spec

\* A link to a version of the row's strategy, if the versions of that grow.
LEMMA OwnLinkStays ==
    ASSUME TypeOK, NEW u \in Uids, orders[u] # None, LinkIsOwn(u),
           orders'[u].strategy_id = orders[u].strategy_id,
           orders'[u].strategy_version_id = orders[u].strategy_version_id,
           \A s \in Strategies : \A v \in versions[s] :
               v.id = orders[u].strategy_version_id => v \in versions'[s]
    PROVE  LinkIsOwn(u)'
<1>1. orders[u].strategy_id \in Strategies \cup {None}
    BY DEF TypeOK, OrderRow
<1> QED BY <1>1 DEF LinkIsOwn, VersionsOf

LEMMA WriteIsSound ==
    ASSUME TypeOK, LinkInv, WriteRow, NEW u \in Uids
    PROVE  LinkStaysSound(u)
<1>1. UNCHANGED versions
    BY DEF WriteRow
<1>2. CASE u # orderCall.uid
    <2>1. orders'[u] = orders[u]
        BY <1>2, RowWritten
    <2> QED BY <1>1, <2>1, OwnLinkStays DEF LinkStaysSound
<1>3. CASE u = orderCall.uid /\ orderCall.version # None
    <2>1. /\ orders'[u].strategy_version_id = orderCall.version
          /\ orders'[u].strategy_id = orderCall.order.strat_id
        BY <1>3, RowWritten
    <2>2. PICK s \in Strategies : \E v \in versions[s] : v.id = orderCall.version
        BY <1>3 DEF WriteRow, References
    <2>3. s = orderCall.order.strat_id /\ s # None
        BY <1>3, <2>2 DEF WriteRow, LinkInv, CallVersionIsOwn
    <2>4. LinkIsOwn(u)'
        BY <1>1, <2>1, <2>2, <2>3 DEF LinkIsOwn, VersionsOf
    <2> QED BY <2>4 DEF LinkStaysSound
<1>4. CASE u = orderCall.uid /\ orderCall.version = None
    <2>1. orders'[u].strategy_version_id =
              IF orders[u] # None THEN orders[u].strategy_version_id ELSE None
        BY <1>4, RowWritten
    <2> QED BY <1>1, <2>1, OwnLinkStays DEF LinkStaysSound
<1> QED BY <1>2, <1>3, <1>4

LEMMA PruneIsSound ==
    ASSUME TypeOK, PruneVersion, NEW u \in Uids
    PROVE  LinkStaysSound(u)
<1>1. PICK s0 \in Strategies : \E v0 \in versions[s0] :
          /\ versions'[s0] = versions[s0] \ {v0}
          /\ \A s \in Strategies : s # s0 => versions'[s] = versions[s]
          /\ orders'[u] = Unlinked(orders[u], v0.id)
    BY VersionPruned
<1>2. PICK v0 \in versions[s0] :
          /\ versions'[s0] = versions[s0] \ {v0}
          /\ \A s \in Strategies : s # s0 => versions'[s] = versions[s]
          /\ orders'[u] = Unlinked(orders[u], v0.id)
    BY <1>1
<1> SUFFICES ASSUME orders'[u] # None, orders'[u].strategy_version_id # None
             PROVE  LinkStaysSound(u)
    BY DEF LinkStaysSound
<1>3. orders[u] # None /\ orders'[u] = orders[u]
    BY LinkUnlinked
<1>4. orders[u] \in OrderRow
    BY <1>3 DEF TypeOK
<1>5. orders[u].strategy_version_id # v0.id
    BY <1>2, <1>3, <1>4 DEF Unlinked, OrderRow
<1>6. \A s \in Strategies : \A v \in versions[s] :
          v.id = orders[u].strategy_version_id => v \in versions'[s]
    BY <1>2, <1>5
<1> QED BY <1>3, <1>6, OwnLinkStays DEF LinkStaysSound

\* A link that a report sets or moves is to an existing version of the strategy
\* the report names; one of another strategy is only left behind by a report
\* that names another one. (upsert, SQL of orders.rs)
THEOREM LinksAreSound == Spec => LinkSound
<1>1. ASSUME TypeOK, LinkInv, [Next]_journalVars, NEW u \in Uids
      PROVE  LinkStaysSound(u)
    <2>1. CASE WriteRow
        BY <1>1, <2>1, WriteIsSound
    <2>2. CASE PruneVersion
        BY <1>1, <2>2, PruneIsSound
    <2>3. CASE UNCHANGED <<orders, versions>>
        BY <2>3 DEF LinkStaysSound, LinkIsOwn, VersionsOf
    <2>4. CASE NewVersion
        <3>1. \A s \in Strategies : versions[s] \subseteq versions'[s]
            BY <1>1, <2>4 DEF NewVersion, TypeOK
        <3>2. UNCHANGED orders
            BY <2>4 DEF NewVersion
        <3> QED BY <1>1, <3>1, <3>2, OwnLinkStays DEF LinkStaysSound
    <2> QED BY <1>1, <2>1, <2>2, <2>3, <2>4
            DEF Next, Upsert, LookupCurrentVersionId, Fail, Return, Abandon,
                journalVars
<1>2. TypeOK /\ LinkInv /\ [Next]_journalVars
          => [\A u \in Uids : LinkStaysSound(u)]_journalVars
    BY <1>1
<1> QED BY <1>2, TypeCorrect, LinkInvariant, PTL
        DEF Spec, LinkSound

\* As long as the reports of every order go on naming the strategy they named
\* first, every link is to a version, still there, of the order's own strategy.
\* (migrations/005; nothing in upsert sees to the hypothesis)
THEOREM OwnLinks == Spec /\ ReportsKeepStrategy => []LinksAreOwn
<1>1. Init => LinksAreOwn
    BY DEF Init, LinksAreOwn
<1> DEFINE Sound == \A u \in Uids : LinkStaysSound(u)
           Kept == \A u \in Uids :
                       (orders[u] # None /\ orders'[u] # None) =>
                           orders'[u].strategy_id = orders[u].strategy_id
<1>2. LinksAreOwn /\ [Sound]_journalVars /\ [Kept]_journalVars => LinksAreOwn'
    <2>1. CASE UNCHANGED journalVars
        BY <2>1 DEF LinksAreOwn, LinkIsOwn, VersionsOf, journalVars
    <2>2. ASSUME LinksAreOwn, Sound, Kept
          PROVE  LinksAreOwn'
        <3> SUFFICES ASSUME NEW u \in Uids, orders'[u] # None,
                            orders'[u].strategy_version_id # None,
                            ~LinkIsOwn(u)'
                     PROVE  FALSE
            BY DEF LinksAreOwn
        <3>1. /\ orders[u] # None
              /\ orders[u].strategy_version_id
                     = orders'[u].strategy_version_id
              /\ LinkIsOwn(u) =>
                     orders[u].strategy_id # orders'[u].strategy_id
            BY <2>2 DEF LinkStaysSound
        <3>2. LinkIsOwn(u)
            BY <2>2, <3>1 DEF LinksAreOwn
        <3> QED BY <2>2, <3>1, <3>2
    <2> QED BY <2>1, <2>2
<1>3. Spec => [][Sound]_journalVars
    BY LinksAreSound DEF LinkSound
<1>4. ReportsKeepStrategy => [][Kept]_journalVars
    BY DEF ReportsKeepStrategy
<1>5. Spec => Init
    BY DEF Spec
<1> QED BY <1>1, <1>2, <1>3, <1>4, <1>5, PTL

-----------------------------------------------------------------------------
LEMMA AddKeepsOrder ==
    ASSUME TypeOK, LinkInv, NewerIsLater, NewVersion, "clock" \notin Faults
    PROVE  NewerIsLater'
<1>1. CASE UNCHANGED versions
    BY <1>1 DEF NewerIsLater
<1>2. ASSUME NEW s0 \in Strategies, NEW d \in 0 .. MaxVersionId,
             NEW led \in Leds,
             \A v \in versions[s0] : v.date < d,
             versions' = [versions EXCEPT ![s0] =
                 @ \cup {[id |-> nextId, date |-> d, led |-> led]}]
      PROVE  NewerIsLater'
    <2> DEFINE row == [id |-> nextId, date |-> d, led |-> led]
    <2>1. /\ versions'[s0] = versions[s0] \cup {row}
          /\ \A s \in Strategies : s # s0 => versions'[s] = versions[s]
          /\ row.id = nextId /\ row.date = d
          /\ d \in Nat /\ nextId \in Nat
        BY <1>2, StrategyVersionsAssumption DEF TypeOK
    <2>2. ASSUME NEW v \in versions[s0]
          PROVE  /\ v.date \in Nat /\ v.id \in Nat
                 /\ v.date < d /\ v.id < nextId
        <3>1. v \in Version
            BY <2>2 DEF TypeOK
        <3> QED BY <1>2, <2>2, <3>1 DEF LinkInv, RowsArePast, Version, VersionId
    <2> HIDE DEF row
    <2>3. ASSUME NEW s \in Strategies, NEW v \in versions'[s],
                 NEW w \in versions'[s]
          PROVE  v.date < w.date <=> v.id < w.id
        <3>1. CASE s # s0 \/ (v \in versions[s] /\ w \in versions[s])
            BY <2>1, <2>3, <3>1 DEF NewerIsLater
        <3>2. CASE s = s0 /\ v = row /\ w \in versions[s]
            <4>1. ~(d < w.date) /\ ~(nextId < w.id)
                BY <2>1, <2>2, <3>2
            <4> QED BY <2>1, <3>2, <4>1
        <3>3. CASE s = s0 /\ v \in versions[s] /\ w = row
            BY <2>1, <2>2, <3>3
        <3>4. CASE s = s0 /\ v = row /\ w = row
            BY <2>1, <3>4
        <3> QED BY <2>1, <2>3, <3>1, <3>2, <3>3, <3>4
    <2> QED BY <2>3 DEF NewerIsLater
<1> QED BY <1>1, <1>2 DEF NewVersion

LEMMA LookupIsNotOlder ==
    ASSUME TypeOK, LinkInv, OrderInv, LookupCurrentVersionId
    PROVE  CallIsNotOlder'
<1> DEFINE u == orderCall.uid
           s == orderCall.order.strat_id
           found == CurrentVersionId(VersionsOf(s))
<1>1. orderCall \in OrderCall /\ s \in Strategies \cup {None}
    BY CallInProgress, ReportNames DEF LookupCurrentVersionId, OrderCall
<1>2. UNCHANGED <<orders, versions>>
    BY DEF LookupCurrentVersionId
<1>3. ASSUME found # None, NEW w \in VersionsOf(s)
      PROVE  w.id <= found
    <2>1. /\ s \in Strategies /\ VersionsOf(s) = versions[s]
          /\ \E v \in versions[s] :
                 v.id = found /\ \A x \in versions[s] : x.date <= v.date
        BY <1>1, <1>3, FoundVersion DEF LinkInv
    <2>2. PICK v \in versions[s] :
              v.id = found /\ \A x \in versions[s] : x.date <= v.date
        BY <2>1
    <2>3. w \in versions[s] /\ v \in Version /\ w \in Version
        BY <1>3, <2>1, <2>2 DEF TypeOK
    <2>4. ~(v.date < w.date)
        BY <2>2, <2>3 DEF Version
    <2>5. ~(v.id < w.id)
        BY <2>1, <2>2, <2>3, <2>4 DEF OrderInv, NewerIsLater
    <2> QED BY <2>2, <2>3, <2>5 DEF Version, VersionId
<1> HIDE DEF found
<1>4. CASE orderCall' = [orderCall EXCEPT !.pc = "write", !.version = found]
    <2>1. orderCall'.order = orderCall.order /\ orderCall'.version = found
        BY <1>1, <1>4 DEF OrderCall
    <2> QED BY <1>2, <1>3, <2>1 DEF CallIsNotOlder, VersionsOf
<1>5. CASE orderCall' = [orderCall EXCEPT !.pc = "err"]
    BY <1>1, <1>5 DEF CallIsNotOlder, OrderCall
<1> QED BY <1>4, <1>5 DEF LookupCurrentVersionId, found

\* The versions a deletion leaves were there before it.
LEMMA NoNewVersions ==
    ASSUME TypeOK, PruneVersion, NEW s \in Strategies \cup {None}
    PROVE  VersionsOf(s)' \subseteq VersionsOf(s)
BY DEF PruneVersion, TypeOK, VersionsOf

LEMMA RowsStay ==
    ASSUME TypeOK, [Next]_journalVars, NEW u \in Uids, orders[u] # None
    PROVE  orders'[u] # None
<1>1. orders[u] \in OrderRow
    BY DEF TypeOK
<1>2. CASE WriteRow
    <2>1. orderCall \in OrderCall
        BY <1>2, CallInProgress DEF WriteRow
    <2>2. Merged(orders[u], RowFrom(orderCall.order, orderCall.version))
              \in OrderRow
        BY <1>1, <2>1, RowType DEF OrderCall
    <2> QED BY <1>2, <2>2, OrderRowAssumption DEF WriteRow, TypeOK
<1>3. CASE PruneVersion
    <2>1. PICK id : orders'[u] = Unlinked(orders[u], id)
        BY <1>3 DEF PruneVersion, Unlink
    <2> QED BY <1>1, <2>1, OrderRowAssumption DEF Unlinked, OrderRow
<1>4. CASE UNCHANGED orders
    BY <1>4
<1> QED BY <1>2, <1>3, <1>4
        DEF Next, Upsert, LookupCurrentVersionId, Fail, Return, Abandon,
            NewVersion, journalVars

LEMMA AddIsNotOlder ==
    ASSUME TypeOK, LinkInv, CallIsNotOlder, NewVersion
    PROVE  CallIsNotOlder'
<1> DEFINE row == orders[orderCall.uid]
           vs == VersionsOf(orderCall.order.strat_id)
<1>1. UNCHANGED <<orders, orderCall>> /\ nextId \in Nat
    BY DEF NewVersion, TypeOK
<1> SUFFICES ASSUME orderCall.pc = "write", orderCall.version # None,
                    row # None, NEW v \in vs', v.id = row.strategy_version_id
             PROVE  v.id <= orderCall.version
    BY <1>1 DEF CallIsNotOlder
<1>2. orderCall \in OrderCall /\ row \in OrderRow
    BY CallInProgress DEF OrderCall, TypeOK
<1>3. /\ orderCall.order.strat_id \in Strategies \cup {None}
      /\ orderCall.uid \in Uids
    BY <1>2, ReportNames DEF OrderCall
<1>4. v \in vs \/ v.id = nextId
    BY <1>3 DEF NewVersion, VersionsOf, TypeOK
<1>5. CASE v \in vs
    BY <1>5 DEF CallIsNotOlder
<1>6. CASE v.id = nextId
    <2>1. row.strategy_version_id # None
        BY <1>1, <1>6, StrategyVersionsAssumption
    <2>2. row.strategy_version_id < nextId
        BY <1>3, <2>1 DEF LinkInv, LinksArePast
    <2> QED BY <1>1, <1>6, <2>2
<1> QED BY <1>4, <1>5, <1>6

LEMMA PruneIsNotOlder ==
    ASSUME TypeOK, CallIsNotOlder, PruneVersion
    PROVE  CallIsNotOlder'
<1> DEFINE u == orderCall.uid
           vs == VersionsOf(orderCall.order.strat_id)
<1>1. UNCHANGED orderCall
    BY DEF PruneVersion
<1> SUFFICES ASSUME orderCall.pc = "write", orderCall.version # None,
                    orders'[u] # None, NEW v \in vs',
                    v.id = orders'[u].strategy_version_id
             PROVE  v.id <= orderCall.version
    BY <1>1 DEF CallIsNotOlder
<1>2. u \in Uids /\ orderCall.order.strat_id \in Strategies \cup {None}
    BY CallInProgress, ReportNames DEF OrderCall
<1>3. v \in vs
    BY <1>1, <1>2, NoNewVersions
<1>4. v \in Version
    BY <1>2, <1>3, VersionsOfType
<1>5. orders'[u].strategy_version_id # None
    BY <1>4, StrategyVersionsAssumption DEF Version, VersionId
<1>6. orders[u] # None /\ orders'[u] = orders[u]
    BY <1>2, <1>5, LinkUnlinked
<1> QED BY <1>3, <1>6 DEF CallIsNotOlder

LEMMA OrderStep ==
    ASSUME TypeOK, LinkInv, OrderInv, [Next]_journalVars, "clock" \notin Faults
    PROVE  OrderInv'
<1>1. CASE NewVersion
    BY <1>1, AddKeepsOrder, AddIsNotOlder DEF OrderInv
<1>2. CASE PruneVersion
    <2>1. NewerIsLater'
        BY <1>2 DEF OrderInv, NewerIsLater, PruneVersion, TypeOK
    <2> QED BY <1>2, <2>1, PruneIsNotOlder DEF OrderInv
<1>3. CASE LookupCurrentVersionId
    BY <1>3, LookupIsNotOlder
    DEF OrderInv, NewerIsLater, LookupCurrentVersionId
<1>4. CASE UNCHANGED versions /\ orderCall'.pc # "write"
    BY <1>4 DEF OrderInv, NewerIsLater, CallIsNotOlder
<1>5. CASE WriteRow
    <2>1. orderCall'.pc # "write"
        BY <1>5, CallInProgress, AnsweredCall DEF WriteRow
    <2> QED BY <1>4, <1>5, <2>1 DEF WriteRow
<1>6. CASE Fail
    <2>1. orderCall'.pc # "write"
        BY <1>6, CallInProgress DEF Fail, OrderCall
    <2> QED BY <1>4, <1>6, <2>1 DEF Fail
<1>7. CASE UNCHANGED journalVars
    BY <1>7
    DEF OrderInv, NewerIsLater, CallIsNotOlder, VersionsOf, journalVars
<1> QED BY <1>1, <1>2, <1>3, <1>4, <1>5, <1>6, <1>7
        DEF Next, Upsert, Return, Abandon, Idle

\* A call about to write has a version no older than the one that is linked, as
\* long as the clock is not set back. (lookup_current_version_id)
THEOREM OrderInvariant ==
    ASSUME "clock" \notin Faults PROVE Spec => []OrderInv
<1>1. Init => OrderInv
    BY DEF Init, Idle, OrderInv, NewerIsLater, CallIsNotOlder
<1>2. TypeOK /\ LinkInv /\ OrderInv /\ [Next]_journalVars => OrderInv'
    BY OrderStep
<1> QED BY <1>1, <1>2, TypeCorrect, LinkInvariant, PTL DEF Spec

\* A link that is moved goes to no older version of its strategy.
LEMMA WriteIsNotOlder ==
    ASSUME TypeOK, LinkInv, OrderInv, WriteRow, NEW u \in Uids, orders[u] # None,
           NEW s \in Strategies, NEW v \in versions[s], NEW w \in versions[s],
           v.id = orders[u].strategy_version_id,
           w.id = orders'[u].strategy_version_id
    PROVE  v.id <= w.id
<1>1. v.id \in Nat /\ w.id \in Nat
    BY DEF TypeOK, Version, VersionId
<1>2. CASE orders'[u].strategy_version_id = orders[u].strategy_version_id
    BY <1>1, <1>2
<1>3. CASE /\ u = orderCall.uid
           /\ orders'[u].strategy_version_id = orderCall.version
    <2>1. orderCall.pc = "write" /\ orderCall.version # None
        BY <1>1, <1>3, StrategyVersionsAssumption DEF WriteRow
    <2>2. s = orderCall.order.strat_id /\ s # None
        BY <1>3, <2>1 DEF LinkInv, CallVersionIsOwn
    <2>3. v \in VersionsOf(orderCall.order.strat_id)
        BY <2>2 DEF VersionsOf
    <2> QED BY <1>3, <2>1, <2>3 DEF OrderInv, CallIsNotOlder
<1> QED BY <1>2, <1>3, RowWritten

\* An order is linked again at every upsert, but never to an older version of
\* its strategy, as long as the clock is not set back.
THEOREM LinksGoForward ==
    ASSUME "clock" \notin Faults PROVE Spec => LinkNeverOlder
<1> DEFINE Forward ==
        \A u \in Uids, s \in Strategies :
            (orders[u] # None /\ orders'[u] # None) =>
                \A v, w \in versions'[s] :
                    (/\ v.id = orders[u].strategy_version_id
                     /\ w.id = orders'[u].strategy_version_id) =>
                        v.id <= w.id
<1>1. ASSUME TypeOK, TypeOK', LinkInv, OrderInv, [Next]_journalVars
      PROVE  Forward
    <2> SUFFICES ASSUME NEW u \in Uids, NEW s \in Strategies,
                        orders[u] # None, orders'[u] # None,
                        NEW v \in versions'[s], NEW w \in versions'[s],
                        v.id = orders[u].strategy_version_id,
                        w.id = orders'[u].strategy_version_id
                 PROVE  v.id <= w.id
        OBVIOUS
    <2>1. v.id \in Nat /\ w.id \in Nat
        BY <1>1 DEF TypeOK, Version, VersionId
    <2>2. CASE orders'[u] = orders[u]
        BY <2>1, <2>2
    <2>3. CASE WriteRow
        <3>1. versions' = versions
            BY <2>3 DEF WriteRow
        <3>2. v \in versions[s] /\ w \in versions[s]
            BY <3>1
        <3> QED BY <1>1, <2>3, <3>2, WriteIsNotOlder
    <2>4. CASE PruneVersion
        <3>1. w.id # None
            BY <2>1, StrategyVersionsAssumption
        <3> QED BY <1>1, <2>2, <2>4, <3>1, LinkUnlinked
    <2> QED BY <1>1, <2>2, <2>3, <2>4
            DEF Next, Upsert, LookupCurrentVersionId, Fail, Return,
                Abandon, NewVersion, journalVars
<1>2. TypeOK /\ TypeOK' /\ LinkInv /\ OrderInv /\ [Next]_journalVars
          => [Forward]_journalVars
    BY <1>1
<1> QED BY <1>2, TypeCorrect, LinkInvariant, OrderInvariant, PTL
        DEF Spec, LinkNeverOlder

-----------------------------------------------------------------------------
\* The merge keeps what is known and takes the code and its text together.
LEMMA MergeKeeps ==
    ASSUME NEW row \in OrderRow, NEW o \in OrderStates,
           NEW version \in VersionId \cup {None},
           NEW new, new = Merged(row, RowFrom(o, version))
    PROVE  /\ row.sell_reason # None => new.sell_reason # None
           /\ row.sell_close_time # None => new.sell_close_time # None
<1>1. /\ row # None
      /\ DOMAIN row = {"strategy_id", "status", "sell_reason_code",
                       "sell_reason", "sell_close_time", "profit_btc",
                       "strategy_version_id"}
    BY OrderRowAssumption DEF OrderRow
<1>2. /\ new.sell_reason = Coalesce(SellReasonText(o.sell_reason_code),
                                    row.sell_reason)
      /\ new.sell_close_time = Coalesce(DelphiToUtc(o.sell_close_time),
                                        row.sell_close_time)
    BY <1>1 DEF Merged, RowFrom
<1> QED BY <1>2 DEF Coalesce

LEMMA MergedReason ==
    ASSUME NEW row \in OrderRow \cup {None}, NEW o \in OrderStates,
           NEW version \in VersionId \cup {None},
           o.sell_reason_code # 0
    PROVE  LET new == Merged(row, RowFrom(o, version))
           IN /\ new.sell_reason_code = o.sell_reason_code
              /\ new.sell_reason = SellReasonText(o.sell_reason_code)
<1>1. o.sell_reason_code \in Nat /\ o.sell_reason_code # None
    BY OrderStoreAssumption, StrategyVersionsAssumption
<1> QED BY <1>1 DEF Merged, RowFrom, Coalesce, SellReasonText, OrderRow

LEMMA MergedCode ==
    ASSUME NEW row \in OrderRow \cup {None}, NEW o \in OrderStates,
           NEW version \in VersionId \cup {None}
    PROVE  Merged(row, RowFrom(o, version)).sell_reason_code
               = o.sell_reason_code
BY DEF Merged, RowFrom, OrderRow

LEMMA PrunedRow ==
    ASSUME TypeOK, PruneVersion, NEW u \in Uids, orders[u] # None
    PROVE  /\ orders'[u] \in OrderRow
           /\ orders'[u].sell_reason = orders[u].sell_reason
           /\ orders'[u].sell_reason_code = orders[u].sell_reason_code
           /\ orders'[u].sell_close_time = orders[u].sell_close_time
<1>1. PICK id : orders'[u] = Unlinked(orders[u], id)
    BY DEF PruneVersion, Unlink
<1>2. orders[u] \in OrderRow
    BY DEF TypeOK
<1> QED BY <1>1, <1>2 DEF Unlinked, OrderRow

\* A trade stays in the journal with what was once known of how and when it was
\* sold, under every failure and with versions deleted. (SQL of orders.rs)
THEOREM TradesStay == Spec => TradesKept
<1> DEFINE Kept(u) ==
        /\ orders'[u] # None
        /\ orders[u].sell_reason # None => orders'[u].sell_reason # None
        /\ orders[u].sell_close_time # None => orders'[u].sell_close_time # None
<1>1. ASSUME TypeOK, [Next]_journalVars, NEW u \in Uids, orders[u] # None
      PROVE  Kept(u)
    <2>1. orders[u] \in OrderRow /\ orders'[u] # None
        BY <1>1, RowsStay DEF TypeOK
    <2>2. CASE UNCHANGED orders
        BY <2>1, <2>2
    <2>3. CASE WriteRow
        <3>1. orderCall \in OrderCall
            BY <1>1, <2>3, CallInProgress DEF WriteRow
        <3>2. CASE u = orderCall.uid
            <4>1. orders'[u] = Merged(orders[u],
                         RowFrom(orderCall.order, orderCall.version))
                BY <1>1, <2>3, <3>2 DEF WriteRow, TypeOK
            <4> QED BY <2>1, <3>1, <4>1, MergeKeeps DEF OrderCall
        <3>3. CASE u # orderCall.uid
            BY <1>1, <2>1, <2>3, <3>3 DEF WriteRow, TypeOK
        <3> QED BY <3>2, <3>3
    <2>4. CASE PruneVersion
        BY <1>1, <2>1, <2>4, PrunedRow
    <2> QED BY <1>1, <2>2, <2>3, <2>4
            DEF Next, Upsert, LookupCurrentVersionId, Fail, Return, Abandon,
                NewVersion, journalVars
<1>2. TypeOK /\ [Next]_journalVars
          => [\A u \in Uids : orders[u] # None => Kept(u)]_journalVars
    BY <1>1
<1> QED BY <1>2, TypeCorrect, PTL DEF Spec, TradesKept

LEMMA ReasonStep ==
    ASSUME TypeOK, ReasonNamesCode, [Next]_journalVars
    PROVE  ReasonNamesCode'
<1> SUFFICES ASSUME NEW u \in Uids, orders'[u] # None,
                    orders'[u].sell_reason_code # 0,
                    orders'[u].sell_reason # None
             PROVE  orders'[u].sell_reason
                        = SellReasonText(orders'[u].sell_reason_code)
    BY DEF ReasonNamesCode
<1>1. CASE orders'[u] = orders[u]
    BY <1>1 DEF ReasonNamesCode
<1>2. CASE WriteRow
    <2>1. orderCall \in OrderCall
        BY <1>2, CallInProgress DEF WriteRow
    <2>2. CASE u = orderCall.uid
        <3>1. /\ orders'[u] = Merged(orders[u],
                     RowFrom(orderCall.order, orderCall.version))
              /\ orders[u] \in OrderRow \cup {None}
            BY <1>2, <2>2 DEF WriteRow, TypeOK
        <3>2. orderCall.order.sell_reason_code # 0
            BY <2>1, <3>1, MergedCode DEF OrderCall
        <3> QED BY <2>1, <3>1, <3>2, MergedReason DEF OrderCall
    <2>3. CASE u # orderCall.uid
        BY <1>1, <1>2, <2>3 DEF WriteRow, TypeOK
    <2> QED BY <2>2, <2>3
<1>3. CASE PruneVersion
    <2>1. orders[u] # None
        BY <1>3 DEF PruneVersion, Unlink, Unlinked
    <2> QED BY <1>3, <2>1, PrunedRow DEF ReasonNamesCode
<1> QED BY <1>1, <1>2, <1>3
        DEF Next, Upsert, LookupCurrentVersionId, Fail, Return, Abandon,
            NewVersion, journalVars

\* The reason in words is that of the code unless the code was set back to 0,
\* whatever reports of an order come in whatever order. (SQL of orders.rs)
THEOREM ReasonInvariant == Spec => []ReasonNamesCode
<1>1. Init => ReasonNamesCode
    BY DEF Init, ReasonNamesCode
<1> QED BY <1>1, ReasonStep, TypeCorrect, PTL DEF Spec

=============================================================================
