--------------------------- MODULE SessionProofs ---------------------------
(***************************************************************************)
(* Proofs about Session, for any strategies, orders, schemas and modules:  *)
(*                                                                         *)
(*   - it drives the two stores by their interfaces;                       *)
(*   - its types, and the invariants of SessionInvariants, one after the   *)
(*     other, each from the types and the ones before it;                  *)
(*   - from these, what the session promises: the tables follow the server *)
(*     and go forward, orders are linked to the latest version, and a      *)
(*     module that is switched off writes nothing.                         *)
(*                                                                         *)
(* They hold under every failure, except where a theorem assumes that no   *)
(* version is deleted or that the clock is not set back.                   *)
(***************************************************************************)
EXTENDS SessionInvariants, StrategyVersionsLemmas

\* The works and what they are taken from.
WorkTyped ==
    /\ liveStrategies \in [Strategies -> Moon!LiveStrategy \cup {None}]
    /\ liveOrders \in [Uids -> OrderStates \cup {None, Gone}]
    /\ strategyWork \subseteq StrategyWork
    /\ orderWork \subseteq OrderWork

LEMMA SnapshotWork ==
    ASSUME WorkTyped
    PROVE  /\ StrategiesInSnapshot \subseteq StrategyWork
           /\ ExecutedInSnapshot \subseteq OrderWork
<1>1. ASSUME NEW s \in Strategies, liveStrategies[s] # None
      PROVE  [strategy |-> s, snap |-> liveStrategies[s].snap,
              live_checked |-> Moon!LiveChecked(liveStrategies[s])]
                  \in StrategyWork
    <2>1. liveStrategies[s] \in Moon!LiveStrategy
        BY <1>1 DEF WorkTyped
    <2> QED BY <2>1 DEF Moon!LiveStrategy, Moon!LiveChecked, StrategyWork
<1>2. ASSUME NEW u \in Uids, Moon!Listed(u)
      PROVE  [uid |-> u, order |-> liveOrders[u]] \in OrderWork
    BY <1>2 DEF Moon!Listed, WorkTyped, OrderWork
<1> QED BY <1>1, <1>2 DEF StrategiesInSnapshot, ExecutedInSnapshot

LEMMA LiveTypeStep ==
    ASSUME WorkTyped, Moon!Next, UNCHANGED <<strategyWork, orderWork>>
    PROVE  WorkTyped'
<1>1. ASSUME NEW s \in Strategies, Moon!EditStrategy(s)
      PROVE  WorkTyped'
    BY <1>1 DEF WorkTyped, Moon!EditStrategy, Moon!LiveStrategy
<1>2. ASSUME NEW s \in Strategies, Moon!CheckStrategy(s)
      PROVE  WorkTyped'
    <2>1. liveStrategies[s] \in Moon!LiveStrategy
        BY <1>2 DEF WorkTyped, Moon!CheckStrategy
    <2>2. [liveStrategies[s] EXCEPT !.info = ~@] \in Moon!LiveStrategy
        BY <1>2, <2>1 DEF Moon!CheckStrategy, Moon!LiveStrategy
    <2> QED BY <1>2, <2>2 DEF WorkTyped, Moon!CheckStrategy
<1>3. ASSUME NEW u \in Uids,
             Moon!CreateOrder(u) \/ Moon!AdvanceOrder(u) \/ Moon!RemoveOrder(u)
      PROVE  WorkTyped'
    <2>1. ASSUME Moon!AdvanceOrder(u)
          PROVE  liveOrders[u] \in OrderStates
        BY <2>1 DEF Moon!AdvanceOrder, Moon!Listed, WorkTyped
    <2> QED BY <1>3, <2>1, SessionAssumption
            DEF WorkTyped, Moon!CreateOrder, Moon!AdvanceOrder,
                Moon!RemoveOrder
<1>4. CASE Moon!ApplySchema \/ Moon!Stop
    BY <1>4 DEF WorkTyped, Moon!ApplySchema, Moon!Stop
<1> QED BY <1>1, <1>2, <1>3, <1>4 DEF Moon!Next

LEMMA WorkStep ==
    ASSUME WorkTyped, [Next]_vars
    PROVE  WorkTyped'
<1>1. CASE RuntimeStep
    BY <1>1, LiveTypeStep DEF RuntimeStep, controlVars
<1>2. ASSUME UNCHANGED <<liveStrategies, liveOrders>>,
             strategyWork' \subseteq strategyWork \cup StrategiesInSnapshot,
             orderWork' \subseteq orderWork \cup ExecutedInSnapshot
      PROVE  WorkTyped'
    BY <1>2, SnapshotWork DEF WorkTyped
<1>3. CASE Connect
    BY <1>2, <1>3 DEF Connect, Moon!Connect, runtimeVars
<1>4. CASE InitialSync \/ Done \/ OnDisconnected
    BY <1>2, <1>4 DEF InitialSync, Done, OnDisconnected, runtimeVars
<1>5. CASE StartStrategy \/ StrategyStatement
    BY <1>2, <1>5 DEF StartStrategy, StrategyStatement, runtimeVars, controlVars
<1>6. CASE FinishStrategy
    BY <1>2, <1>6 DEF FinishStrategy, runtimeVars
<1>7. CASE StartOrder \/ OrderStatement
    BY <1>2, <1>7 DEF StartOrder, OrderStatement, runtimeVars, controlVars
<1>8. CASE FinishOrder
    BY <1>2, <1>8 DEF FinishOrder, runtimeVars
<1>9. CASE OnSchemaApplied \/ OnStrategies \/ OnOrderUpdated \/ OnOrdersSnapshot
              \/ OnIgnored
    BY <1>2, <1>9
    DEF OnSchemaApplied, OnStrategies, OnOrderUpdated, OnOrdersSnapshot,
        OnIgnored, Handle, NoSnapshot, Moon!Receive
<1>10. CASE PruneVersion \/ OtherSession \/ ClockStepsBack
    BY <1>2, <1>10
    DEF PruneVersion, OtherSession, ClockStepsBack, runtimeVars, controlVars
<1>11. CASE Restart
    BY <1>2, <1>11 DEF Restart, Moon!Kill
<1>12. CASE UNCHANGED vars
    BY <1>2, <1>12 DEF vars, runtimeVars, controlVars
<1> QED BY <1>1, <1>3, <1>4, <1>5, <1>6, <1>7, <1>8, <1>9, <1>10, <1>11, <1>12
        DEF Next, Thread

LEMMA WorkTypes == Spec => []WorkTyped
<1>1. Init => WorkTyped
    BY DEF Init, WorkTyped, Moon!Init
<1> QED BY <1>1, WorkStep, PTL DEF Spec

-----------------------------------------------------------------------------
\* The steps that leave the strategies, and those that leave the journal and
\* the version table, alone.
LEMMA OtherSteps ==
    ASSUME Connect \/ InitialSync \/ Done \/ OnSchemaApplied \/ OnStrategies
               \/ OnOrderUpdated \/ OnOrdersSnapshot \/ OnIgnored
               \/ OnDisconnected \/ RuntimeStep \/ OtherSession
    PROVE  UNCHANGED strategyVars /\ UNCHANGED orderVars
BY DEF Connect, InitialSync, Done, OnSchemaApplied, OnStrategies,
       OnOrderUpdated, OnOrdersSnapshot, OnIgnored, OnDisconnected,
       RuntimeStep, OtherSession, Handle

LEMMA StrategyStep ==
    ASSUME WorkTyped, [Next]_vars
    PROVE  [Strategy!Next]_(Strategy!storeVars)
<1> USE DEF Strategy!storeVars, strategyVars
<1>1. CASE StartStrategy
    <2>1. PICK w \in strategyWork :
              Strategy!Call(w.strategy, w.snap, w.live_checked)
        BY <1>1 DEF StartStrategy
    <2>2. /\ w.strategy \in Strategies /\ w.live_checked \in BOOLEAN
          /\ w.snap \in Strategy!StrategySnapshot
        BY EditedAssumption DEF WorkTyped, StrategyWork
    <2> QED BY <2>1, <2>2 DEF Strategy!Next
<1>2. CASE StrategyStatement
    BY <1>2 DEF StrategyStatement, Strategy!Next
<1>3. CASE FinishStrategy
    BY <1>3 DEF FinishStrategy, Strategy!Next
<1>4. CASE StartOrder
    BY <1>4 DEF StartOrder, Journal!Upsert
<1>5. CASE OrderStatement
    BY <1>5 DEF OrderStatement, Journal!LookupCurrentVersionId,
                Journal!WriteRow, Journal!Fail
<1>6. CASE FinishOrder
    BY <1>6 DEF FinishOrder, Journal!Return
<1>7. CASE PruneVersion
    BY <1>7 DEF PruneVersion, Strategy!Next
<1>8. CASE ClockStepsBack
    BY <1>8 DEF ClockStepsBack, Strategy!Next
<1>9. CASE Restart
    BY <1>9 DEF Restart, Strategy!Next, Strategy!Abandon
<1>10. CASE UNCHANGED vars
    BY <1>10 DEF vars
<1> QED BY <1>1, <1>2, <1>3, <1>4, <1>5, <1>6, <1>7, <1>8, <1>9, <1>10,
           OtherSteps DEF Next, Thread

\* The session drives upsert_snapshot as its module says: what is shown of
\* StrategyStore holds of every session. (initial_sync, handle_event)
THEOREM StrategyStoreImplemented == Spec => ImplementsStrategyStore
<1>1. Init => Strategy!Init
    BY DEF Init
<1> QED BY <1>1, StrategyStep, WorkTypes, PTL
        DEF Spec, ImplementsStrategyStore, Strategy!Spec

-----------------------------------------------------------------------------
\* What makes the statements of StrategyStore an environment of OrderStore:
\* the clock is behind the sequence of ids, since both advance together, and
\* ahead of all versions unless it is set back.
VersionsDriven ==
    /\ versions \in [Strategies -> SUBSET Version]
    /\ nextId \in 1 .. MaxVersionId + 1
    /\ clock \in Nat /\ clock < nextId
    /\ strategyCall \in {Strategy!Idle} \cup Strategy!StrategyCall
    /\ "clock" \in Faults
           \/ \A s \in Strategies : \A v \in versions[s] : v.date < clock

LEMMA AnsweredCall ==
    ASSUME strategyCall \in Strategy!StrategyCall,
           NEW next \in {"prev", "insert", "ok"}, Strategy!Answered(next)
    PROVE  /\ strategyCall' \in Strategy!StrategyCall
           /\ strategyCall'.pc \in {next, "err"}
           /\ strategyCall'.strategy = strategyCall.strategy
           /\ strategyCall'.snap = strategyCall.snap
           /\ strategyCall'.live_checked = strategyCall.live_checked
<1>1. PICK pc1 \in {next, "err"} :
          strategyCall' = [strategyCall EXCEPT !.pc = pc1]
    BY DEF Strategy!Answered
<1> QED BY <1>1 DEF Strategy!StrategyCall

LEMMA CallInProgress ==
    ASSUME VersionsDriven, strategyCall.pc # "idle"
    PROVE  strategyCall \in Strategy!StrategyCall
BY DEF VersionsDriven, Strategy!Idle

\* The new row of an INSERT.
LEMMA InsertedRow ==
    ASSUME VersionsDriven, Strategy!InsertVersion
    PROVE  /\ nextId \in 1 .. MaxVersionId /\ nextId' = nextId + 1
           /\ clock \in 0 .. MaxVersionId /\ clock' = clock + 1
           /\ strategyCall.strategy \in Strategies
           /\ strategyCall.snap.led \in Leds
           /\ [id |-> nextId, date |-> clock, led |-> strategyCall.snap.led]
                  \in Version
<1>1. /\ strategyCall.strategy \in Strategies
      /\ strategyCall.snap.led \in Leds
    BY CallInProgress
    DEF Strategy!InsertVersion, Strategy!StrategyCall,
        Strategy!StrategySnapshot
<1>2. /\ nextId \in 1 .. MaxVersionId /\ nextId' = nextId + 1
      /\ clock \in 0 .. MaxVersionId /\ clock' = clock + 1
    BY StrategyVersionsAssumption DEF VersionsDriven, Strategy!InsertVersion
<1> QED BY <1>1, <1>2 DEF Version, VersionId

LEMMA VersionsStep ==
    ASSUME VersionsDriven, [Strategy!Next]_(Strategy!storeVars)
    PROVE  VersionsDriven'
<1>1. CASE Strategy!InsertVersion
    <2> DEFINE s == strategyCall.strategy
               row == [id |-> nextId, date |-> clock,
                       led |-> strategyCall.snap.led]
    <2>1. strategyCall' \in Strategy!StrategyCall
        BY <1>1, CallInProgress, AnsweredCall DEF Strategy!InsertVersion
    <2>2. s \in Strategies /\ row \in Version /\ row.date = clock
        BY <1>1, InsertedRow
    <2>3. \/ versions' = versions
          \/ versions' = [versions EXCEPT ![s] = @ \cup {row}]
        BY <1>1 DEF Strategy!InsertVersion
    <2> HIDE DEF s, row
    <2>4. versions' \in [Strategies -> SUBSET Version]
        BY <2>2, <2>3 DEF VersionsDriven
    <2>5. /\ nextId' \in 1 .. MaxVersionId + 1
          /\ clock' \in Nat /\ clock' < nextId' /\ clock' = clock + 1
        BY <1>1, InsertedRow, StrategyVersionsAssumption DEF VersionsDriven
    <2>6. ASSUME "clock" \notin Faults, NEW t \in Strategies,
                 NEW v \in versions'[t]
          PROVE  v.date < clock'
        <3>1. v \in versions[t] \/ v = row
            BY <2>2, <2>3 DEF VersionsDriven
        <3>2. v.date \in Nat
            BY <2>4 DEF Version
        <3> QED BY <2>2, <2>5, <2>6, <3>1, <3>2 DEF VersionsDriven
    <2> QED BY <2>1, <2>4, <2>5, <2>6 DEF VersionsDriven
<1>2. ASSUME NEW s \in Strategies, NEW snap \in Strategy!StrategySnapshot,
             NEW live \in BOOLEAN, Strategy!Call(s, snap, live)
      PROVE  VersionsDriven'
    BY <1>2 DEF Strategy!Call, VersionsDriven, Strategy!StrategyCall
<1>3. CASE Strategy!UpsertRow
    <2>1. strategyCall' \in Strategy!StrategyCall
        BY <1>3, CallInProgress, AnsweredCall DEF Strategy!UpsertRow
    <2> QED BY <1>3, <2>1 DEF Strategy!UpsertRow, VersionsDriven
<1>4. CASE Strategy!ReadPreviousLed
    <2>1. strategyCall' \in Strategy!StrategyCall
        BY <1>4, CallInProgress, AnsweredCall DEF Strategy!ReadPreviousLed
    <2> QED BY <1>4, <2>1 DEF Strategy!ReadPreviousLed, VersionsDriven
<1>5. CASE Strategy!Fail
    <2>1. strategyCall \in Strategy!StrategyCall
        BY <1>5, CallInProgress DEF Strategy!Fail
    <2>2. strategyCall' \in Strategy!StrategyCall
        BY <1>5, <2>1 DEF Strategy!Fail, Strategy!StrategyCall
    <2> QED BY <1>5, <2>2 DEF Strategy!Fail, VersionsDriven
<1>6. CASE Strategy!Return \/ Strategy!Abandon
    BY <1>6 DEF Strategy!Return, Strategy!Abandon, VersionsDriven
<1>7. CASE Strategy!Prune
    BY <1>7 DEF Strategy!Prune, VersionsDriven
<1>8. CASE Strategy!StepBack
    BY <1>8 DEF Strategy!StepBack, VersionsDriven
<1>9. CASE UNCHANGED Strategy!storeVars
    BY <1>9 DEF Strategy!storeVars, VersionsDriven
<1> QED BY <1>1, <1>2, <1>3, <1>4, <1>5, <1>6, <1>7, <1>8, <1>9
        DEF Strategy!Next

LEMMA VersionsAreDriven == Spec => []VersionsDriven
<1>1. Init => VersionsDriven
    BY StrategyVersionsAssumption DEF Init, Strategy!Init, VersionsDriven
<1>2. WorkTyped /\ VersionsDriven /\ [Next]_vars => VersionsDriven'
    BY StrategyStep, VersionsStep
<1> QED BY <1>1, <1>2, WorkTypes, PTL DEF Spec

LEMMA JournalStep ==
    ASSUME WorkTyped, VersionsDriven, [Next]_vars
    PROVE  [Journal!Next]_(Journal!journalVars)
<1> USE DEF Journal!journalVars, strategyVars, orderVars
<1>1. CASE StartStrategy
    BY <1>1 DEF StartStrategy, Strategy!Call
<1>2. CASE StrategyStatement
    <2>1. CASE Strategy!InsertVersion
        <3> DEFINE s == strategyCall.strategy
                   row == [id |-> nextId, date |-> clock,
                           led |-> strategyCall.snap.led]
        <3>1. UNCHANGED <<orders, orderCall>>
            BY <1>2 DEF StrategyStatement
        <3>2. /\ nextId <= MaxVersionId /\ nextId' = nextId + 1
              /\ s \in Strategies /\ clock \in 0 .. MaxVersionId
              /\ strategyCall.snap.led \in Leds
            BY <2>1, InsertedRow, StrategyVersionsAssumption
        <3>3. CASE versions' = versions
            BY <3>1, <3>2, <3>3 DEF Journal!Next, Journal!NewVersion
        <3>4. CASE /\ ~\E v \in versions[s] : v.date = clock
                   /\ versions' = [versions EXCEPT ![s] = @ \cup {row}]
            <4>1. \A v \in versions[s] :
                      v.date # clock /\ ("clock" \in Faults \/ v.date < clock)
                BY <3>2, <3>4 DEF VersionsDriven
            <4> QED BY <3>1, <3>2, <3>4, <4>1
                    DEF Journal!Next, Journal!NewVersion
        <3> QED BY <2>1, <3>3, <3>4 DEF Strategy!InsertVersion
    <2>2. CASE Strategy!UpsertRow \/ Strategy!ReadPreviousLed \/ Strategy!Fail
        BY <1>2, <2>2 DEF StrategyStatement, Strategy!UpsertRow,
                          Strategy!ReadPreviousLed, Strategy!Fail
    <2> QED BY <1>2, <2>1, <2>2 DEF StrategyStatement
<1>3. CASE FinishStrategy
    BY <1>3 DEF FinishStrategy, Strategy!Return
<1>4. CASE StartOrder
    BY <1>4 DEF StartOrder, WorkTyped, OrderWork, Journal!Next
<1>5. CASE OrderStatement
    BY <1>5 DEF OrderStatement, Journal!Next
<1>6. CASE FinishOrder
    BY <1>6 DEF FinishOrder, Journal!Next
<1>7. CASE PruneVersion
    <2>1. "prune" \in Faults /\ UNCHANGED <<nextId, orderCall>>
        BY <1>7 DEF PruneVersion, Strategy!Prune
    <2>2. PICK s \in Strategies :
              \E v \in versions[s] :
                  versions' = [versions EXCEPT ![s] = @ \ {v}]
        BY <1>7 DEF PruneVersion, Strategy!Prune
    <2>3. PICK v \in versions[s] : versions' = [versions EXCEPT ![s] = @ \ {v}]
        BY <2>2
    <2>4. PICK t \in Strategies :
              \E w \in versions[t] \ versions'[t] : Journal!Unlink(w.id)
        BY <1>7 DEF PruneVersion
    <2>5. PICK w \in versions[t] \ versions'[t] : Journal!Unlink(w.id)
        BY <2>4
    <2>6. t = s /\ w = v
        BY <2>3, <2>5 DEF VersionsDriven
    <2> QED BY <2>1, <2>3, <2>5, <2>6 DEF Journal!Next, Journal!PruneVersion
<1>8. CASE ClockStepsBack
    BY <1>8 DEF ClockStepsBack, Strategy!StepBack
<1>9. CASE Restart
    BY <1>9 DEF Restart, Journal!Next, Journal!Abandon
<1>10. CASE UNCHANGED vars
    BY <1>10 DEF vars
<1> QED BY <1>1, <1>2, <1>3, <1>4, <1>5, <1>6, <1>7, <1>8, <1>9, <1>10,
           OtherSteps DEF Next, Thread

\* The session drives orders::upsert as its module says, and what it does to
\* the versions is what that module takes for granted: what is shown of
\* OrderStore holds of every session. (initial_sync, handle_event)
THEOREM OrderStoreImplemented == Spec => ImplementsOrderStore
<1>1. Init => Journal!Init
    BY DEF Init
<1> QED BY <1>1, JournalStep, WorkTypes, VersionsAreDriven, PTL
        DEF Spec, ImplementsOrderStore, Journal!Spec

-----------------------------------------------------------------------------
\* The types of the tables, the client and the control variables.
LEMMA StrategyRowStep ==
    ASSUME VersionsDriven, [Next]_vars, WorkTyped,
           strategies \in [Strategies -> Strategy!StrategyRow \cup {None}]
    PROVE  strategies' \in [Strategies -> Strategy!StrategyRow \cup {None}]
<1>1. CASE Strategy!UpsertRow
    <2>1. strategyCall \in Strategy!StrategyCall
        BY <1>1, CallInProgress DEF Strategy!UpsertRow
    <2>2. ASSUME NEW row \in Strategy!StrategyRow \cup {None}
          PROVE  Strategy!UpsertedRow(row, strategyCall.snap,
                     strategyCall.live_checked) \in Strategy!StrategyRow
        BY <2>1 DEF Strategy!UpsertedRow, Strategy!StrategyRow,
                    Strategy!StrategyCall, Strategy!StrategySnapshot
    <2> QED BY <1>1, <2>1, <2>2 DEF Strategy!UpsertRow, Strategy!StrategyCall
<1>2. CASE UNCHANGED strategies
    BY <1>2
<1> QED BY <1>1, <1>2, StrategyStep
        DEF Strategy!Next, Strategy!Call, Strategy!ReadPreviousLed,
            Strategy!InsertVersion, Strategy!Fail, Strategy!Return,
            Strategy!Abandon, Strategy!Prune, Strategy!StepBack,
            Strategy!storeVars

\* A row of the journal as it is written.
JournalTyped ==
    /\ orders \in [Uids -> Journal!OrderRow \cup {None}]
    /\ orderCall \in {Journal!Idle} \cup Journal!OrderCall
    /\ Journal!RowsArePast

LEMMA OrderCallInProgress ==
    ASSUME JournalTyped, orderCall.pc # "idle"
    PROVE  /\ orderCall \in Journal!OrderCall
           /\ orderCall.uid \in Uids /\ orderCall.order \in OrderStates
           /\ orderCall.version \in VersionId \cup {None}
BY DEF JournalTyped, Journal!Idle, Journal!OrderCall, Journal!VersionId,
       VersionId

LEMMA AnsweredOrderCall ==
    ASSUME orderCall \in Journal!OrderCall, Journal!Answered("ok")
    PROVE  /\ orderCall' \in Journal!OrderCall
           /\ orderCall'.pc \in {"ok", "err"}
           /\ orderCall'.uid = orderCall.uid
           /\ orderCall'.order = orderCall.order
<1>1. PICK pc1 \in {"ok", "err"} : orderCall' = [orderCall EXCEPT !.pc = pc1]
    BY DEF Journal!Answered
<1> QED BY <1>1 DEF Journal!OrderCall

\* The strategy a report names, and its versions.
LEMMA NamedStrategy ==
    ASSUME NEW o \in OrderStates
    PROVE  o.strat_id \in Strategies \cup {None}
BY StoresAssumption

LEMMA OwnVersions ==
    ASSUME VersionsDriven, NEW s \in Strategies \cup {None}
    PROVE  /\ Journal!VersionsOf(s) \in SUBSET Version
           /\ s # None => Journal!VersionsOf(s) = versions[s]
BY DEF VersionsDriven, Journal!VersionsOf

LEMMA DatesBounded ==
    ASSUME VersionsDriven, JournalTyped, NEW s \in Strategies
    PROVE  /\ versions[s] \in SUBSET Version
           /\ MaxVersionId \in Nat
           /\ \A v \in versions[s] : v.date <= MaxVersionId
           /\ \A v \in versions[s] : v.id \in Nat /\ v.id < nextId
BY StrategyVersionsAssumption
DEF VersionsDriven, JournalTyped, Journal!RowsArePast, Version, VersionId

\* The latest version of a strategy that has one.
LEMMA LatestVersion ==
    ASSUME VersionsDriven, JournalTyped, NEW s \in Strategies, versions[s] # {}
    PROVE  /\ Latest(versions[s]) \in versions[s]
           /\ Latest(versions[s]) \in Version
           /\ \A w \in versions[s] : w.date <= Latest(versions[s]).date
<1>1. /\ Latest(versions[s]) \in versions[s]
      /\ \A w \in versions[s] : w.date <= Latest(versions[s]).date
    BY DatesBounded, LatestIsGreatest
<1> QED BY <1>1, DatesBounded

\* What the lookup of an order finds.
LEMMA FoundVersion ==
    ASSUME VersionsDriven, JournalTyped, NEW s \in Strategies \cup {None}
    PROVE  LET vs == Journal!VersionsOf(s)
               found == Journal!CurrentVersionId(vs)
           IN /\ found \in VersionId \cup {None}
              /\ found = None <=> vs = {}
              /\ found # None =>
                     /\ s \in Strategies /\ s # None
                     /\ vs = versions[s]
                     /\ Latest(vs) \in vs /\ found = Latest(vs).id
<1> DEFINE vs == Journal!VersionsOf(s)
           found == Journal!CurrentVersionId(vs)
<1>1. CASE vs = {}
    BY <1>1 DEF Journal!CurrentVersionId
<1>2. CASE vs # {}
    <2>1. s \in Strategies /\ s # None /\ vs = versions[s]
        BY <1>2, OwnVersions DEF Journal!VersionsOf
    <2>2. Latest(vs) \in vs /\ Latest(vs) \in Version
        BY <1>2, <2>1, LatestVersion
    <2>3. found = Latest(vs).id
        BY <1>2 DEF Journal!CurrentVersionId, Journal!Latest, Latest
    <2>4. Latest(vs).id \in VersionId /\ Latest(vs).id # None
        BY <2>2, StrategyVersionsAssumption DEF Version, VersionId
    <2> QED BY <1>2, <2>1, <2>2, <2>3, <2>4
<1> QED BY <1>1, <1>2

LEMMA WrittenRow ==
    ASSUME NEW o \in OrderStates, NEW version \in VersionId \cup {None},
           NEW row \in Journal!OrderRow \cup {None}
    PROVE  LET new == Journal!Merged(row, Journal!RowFrom(o, version))
           IN /\ new \in Journal!OrderRow
              /\ new.status = o.status
              /\ version # None => new.strategy_version_id = version
              /\ (row # None /\ row.strategy_version_id # None) =>
                     new.strategy_version_id # None
<1> DEFINE new == Journal!RowFrom(o, version)
<1>1. o \in [strat_id : Strategies \cup {None}, status : Nat,
             sell_reason_code : Nat, sell_close_time : Nat,
             bought : Nat, sold : Nat]
    BY StoresAssumption
<1>2. /\ new \in Journal!OrderRow
      /\ new.status = o.status
      /\ new.strategy_version_id = version
    <2>1. (IF o.sold > 0 THEN o.sold - o.bought ELSE 0) \in Int
        BY <1>1
    <2>2. version \in Journal!VersionId \cup {None}
        BY DEF Journal!VersionId, VersionId
    <2> QED BY <1>1, <2>1, <2>2
            DEF Journal!RowFrom, Journal!OrderRow, Journal!SellReasonText,
                Journal!DelphiToUtc
<1> DEFINE merged == Journal!Merged(row, new)
           Kept == /\ merged \in Journal!OrderRow
                   /\ merged.status = o.status
                   /\ version # None => merged.strategy_version_id = version
                   /\ (row # None /\ row.strategy_version_id # None) =>
                          merged.strategy_version_id # None
<1> HIDE DEF new
<1>3. ASSUME row = None PROVE Kept
    BY <1>2, <1>3 DEF Journal!Merged
<1>4. ASSUME row # None PROVE Kept
    <2>1. row \in Journal!OrderRow
        BY <1>4
    <2>2. Journal!Merged(row, new) =
              [new EXCEPT
                  !.sell_reason = Journal!Coalesce(@, row.sell_reason),
                  !.sell_close_time = Journal!Coalesce(@, row.sell_close_time),
                  !.strategy_version_id =
                      Journal!Coalesce(@, row.strategy_version_id)]
        BY <1>4 DEF Journal!Merged
    <2> QED BY <1>2, <1>4, <2>1, <2>2 DEF Journal!Coalesce, Journal!OrderRow
<1> QED BY <1>3, <1>4 DEF new

LEMMA UnlinkedRow ==
    ASSUME NEW row \in Journal!OrderRow \cup {None}, NEW id
    PROVE  /\ Journal!Unlinked(row, id) \in Journal!OrderRow \cup {None}
           /\ Journal!Unlinked(row, id) = None <=> row = None
           /\ row # None => Journal!Unlinked(row, id).status = row.status
BY StoresAssumption DEF Journal!Unlinked, Journal!OrderRow

-----------------------------------------------------------------------------
\* Which steps change what.
LEMMA Frame ==
    ASSUME [Next]_vars
    PROVE  /\ \/ StrategyStatement /\ Strategy!UpsertRow
              \/ UNCHANGED strategies
           /\ \/ StrategyStatement /\ Strategy!InsertVersion
              \/ PruneVersion
              \/ UNCHANGED <<versions, nextId>>
           /\ \/ OrderStatement /\ Journal!WriteRow
              \/ PruneVersion
              \/ UNCHANGED orders
           /\ \/ StartStrategy \/ StrategyStatement \/ FinishStrategy
              \/ Restart
              \/ UNCHANGED strategyCall
           /\ \/ StartOrder \/ OrderStatement \/ FinishOrder
              \/ Restart
              \/ UNCHANGED orderCall
           /\ \/ Connect \/ RuntimeStep \/ Restart
              \/ UNCHANGED <<liveStrategies, liveOrders, liveSchema, alive>>
           /\ RuntimeStep \/ UNCHANGED <<liveStrategies, liveOrders>>
           /\ Restart \/ UNCHANGED modules
<1> USE DEF strategyVars, orderVars, runtimeVars, controlVars
<1>1. CASE Connect \/ InitialSync \/ Done \/ OnDisconnected
    BY <1>1 DEF Connect, InitialSync, Done, OnDisconnected, Moon!Connect
<1>2. CASE StartStrategy \/ StrategyStatement \/ FinishStrategy
    BY <1>2
    DEF StartStrategy, StrategyStatement, FinishStrategy, Strategy!Call,
        Strategy!UpsertRow, Strategy!ReadPreviousLed, Strategy!InsertVersion,
        Strategy!Fail, Strategy!Return
<1>3. CASE StartOrder \/ OrderStatement \/ FinishOrder
    BY <1>3
    DEF StartOrder, OrderStatement, FinishOrder, Journal!Upsert,
        Journal!LookupCurrentVersionId, Journal!WriteRow, Journal!Fail,
        Journal!Return
<1>4. CASE OnSchemaApplied \/ OnStrategies \/ OnOrderUpdated
               \/ OnOrdersSnapshot \/ OnIgnored
    BY <1>4
    DEF OnSchemaApplied, OnStrategies, OnOrderUpdated, OnOrdersSnapshot,
        OnIgnored, Handle, Moon!Receive
<1>5. CASE RuntimeStep
    BY <1>5 DEF RuntimeStep
<1>6. CASE PruneVersion \/ OtherSession \/ ClockStepsBack
    BY <1>6 DEF PruneVersion, OtherSession, ClockStepsBack, Strategy!Prune,
                Strategy!StepBack
<1>7. CASE Restart
    BY <1>7 DEF Restart, Moon!Kill
<1>8. CASE UNCHANGED vars
    BY <1>8 DEF vars
<1> QED BY <1>1, <1>2, <1>3, <1>4, <1>5, <1>6, <1>7, <1>8 DEF Next, Thread

\* What an INSERT and a deletion do to the versions.
LEMMA AfterInsert ==
    ASSUME VersionsDriven, Strategy!InsertVersion
    PROVE  LET s == strategyCall.strategy
               row == [id |-> nextId, date |-> clock,
                       led |-> strategyCall.snap.led]
           IN /\ s \in Strategies
              /\ row \in Version /\ row.id = nextId /\ row.date = clock
              /\ row.led = strategyCall.snap.led
              /\ nextId' = nextId + 1 /\ clock' = clock + 1
              /\ nextId \in VersionId /\ clock \in 0 .. MaxVersionId
              /\ \A t \in Strategies : t # s => versions'[t] = versions[t]
              /\ \/ /\ versions'[s] = versions[s]
                    /\ \E v \in versions[s] : v.date = clock
                 \/ /\ versions'[s] = versions[s] \cup {row}
                    /\ \A v \in versions[s] : v.date # clock
<1> DEFINE s == strategyCall.strategy
           row == [id |-> nextId, date |-> clock,
                   led |-> strategyCall.snap.led]
           dated == \E v \in versions[s] : v.date = clock
<1>1. /\ s \in Strategies /\ row \in Version
      /\ nextId' = nextId + 1 /\ clock' = clock + 1
      /\ nextId \in VersionId /\ clock \in 0 .. MaxVersionId
    BY InsertedRow DEF VersionId
<1>2. versions' = IF dated THEN versions
                  ELSE [versions EXCEPT ![s] = @ \cup {row}]
    BY DEF Strategy!InsertVersion
<1>3. row.id = nextId /\ row.date = clock /\ row.led = strategyCall.snap.led
    OBVIOUS
<1> HIDE DEF s, row
<1>4. CASE dated
    BY <1>1, <1>2, <1>3, <1>4 DEF s, row
<1>5. CASE ~dated
    <2>1. versions' = [versions EXCEPT ![s] = @ \cup {row}]
        BY <1>2, <1>5
    <2>2. /\ versions'[s] = versions[s] \cup {row}
          /\ \A t \in Strategies : t # s => versions'[t] = versions[t]
        BY <1>1, <2>1 DEF VersionsDriven
    <2> QED BY <1>1, <1>3, <1>5, <2>2 DEF s, row
<1> QED BY <1>4, <1>5

LEMMA AfterPrune ==
    ASSUME VersionsDriven, PruneVersion
    PROVE  /\ "prune" \in Faults
           /\ UNCHANGED <<strategies, nextId, clock, strategyCall, orderCall>>
           /\ UNCHANGED <<runtimeVars, controlVars>>
           /\ \E s \in Strategies : \E v \in versions[s] :
                  /\ versions'[s] = versions[s] \ {v}
                  /\ \A t \in Strategies : t # s => versions'[t] = versions[t]
                  /\ orders' = [u \in Uids |->
                                    Journal!Unlinked(orders[u], v.id)]
<1>1. PICK s \in Strategies :
          \E v \in versions[s] : versions' = [versions EXCEPT ![s] = @ \ {v}]
    BY DEF PruneVersion, Strategy!Prune
<1>2. PICK v \in versions[s] : versions' = [versions EXCEPT ![s] = @ \ {v}]
    BY <1>1
<1>3. PICK t \in Strategies :
          \E w \in versions[t] \ versions'[t] : Journal!Unlink(w.id)
    BY DEF PruneVersion
<1>4. PICK w \in versions[t] \ versions'[t] : Journal!Unlink(w.id)
    BY <1>3
<1>5. t = s /\ w = v
    BY <1>2, <1>4 DEF VersionsDriven
<1>6. /\ versions'[s] = versions[s] \ {v}
      /\ \A r \in Strategies : r # s => versions'[r] = versions[r]
    BY <1>2 DEF VersionsDriven
<1> QED BY <1>4, <1>5, <1>6 DEF PruneVersion, Strategy!Prune, Journal!Unlink

LEMMA JournalTypeStep ==
    ASSUME WorkTyped, VersionsDriven, JournalTyped, [Next]_vars
    PROVE  JournalTyped'
<1>1. orders' \in [Uids -> Journal!OrderRow \cup {None}]
    <2>1. CASE OrderStatement /\ Journal!WriteRow
        <3>1. /\ orderCall.order \in OrderStates
              /\ orderCall.version \in VersionId \cup {None}
            BY <2>1, OrderCallInProgress DEF Journal!WriteRow
        <3>2. ASSUME NEW row \in Journal!OrderRow \cup {None}
              PROVE  Journal!Merged(row, Journal!RowFrom(orderCall.order,
                         orderCall.version)) \in Journal!OrderRow
            BY <3>1, WrittenRow
        <3> QED BY <2>1, <3>2 DEF Journal!WriteRow, JournalTyped
    <2>2. CASE PruneVersion
        <3>1. PICK id : orders' = [u \in Uids |-> Journal!Unlinked(orders[u], id)]
            BY <2>2, AfterPrune
        <3>2. ASSUME NEW u \in Uids
              PROVE  Journal!Unlinked(orders[u], id)
                         \in Journal!OrderRow \cup {None}
            BY UnlinkedRow DEF JournalTyped
        <3> QED BY <3>1, <3>2
    <2> QED BY <2>1, <2>2, Frame DEF JournalTyped
<1>2. orderCall' \in {Journal!Idle} \cup Journal!OrderCall
    <2>1. CASE StartOrder
        BY <2>1 DEF StartOrder, Journal!Upsert, Journal!OrderCall, WorkTyped,
                    OrderWork
    <2>2. CASE OrderStatement /\ Journal!LookupCurrentVersionId
        <3>1. /\ orderCall \in Journal!OrderCall
              /\ orderCall.order.strat_id \in Strategies \cup {None}
            BY <2>2, OrderCallInProgress, NamedStrategy
            DEF Journal!LookupCurrentVersionId
        <3> DEFINE found == Journal!CurrentVersionId(
                                Journal!VersionsOf(orderCall.order.strat_id))
        <3>2. found \in Journal!VersionId \cup {None}
            BY <3>1, FoundVersion DEF VersionId, Journal!VersionId
        <3> HIDE DEF found
        <3> QED BY <2>2, <3>1, <3>2
                DEF Journal!LookupCurrentVersionId, Journal!OrderCall, found
    <2>3. CASE OrderStatement /\ Journal!WriteRow
        BY <2>3, OrderCallInProgress, AnsweredOrderCall DEF Journal!WriteRow
    <2>4. CASE OrderStatement /\ Journal!Fail
        <3>1. orderCall \in Journal!OrderCall
            BY <2>4, OrderCallInProgress DEF Journal!Fail
        <3> QED BY <2>4, <3>1 DEF Journal!Fail, Journal!OrderCall
    <2>5. CASE FinishOrder \/ Restart
        BY <2>5 DEF FinishOrder, Restart, Journal!Return
    <2> QED BY <2>1, <2>2, <2>3, <2>4, <2>5, Frame
            DEF OrderStatement, JournalTyped
<1>3. Journal!RowsArePast'
    <2> SUFFICES ASSUME NEW s \in Strategies, NEW v \in versions'[s]
                 PROVE  v.id < nextId' /\ v.date <= MaxVersionId
        BY DEF Journal!RowsArePast
    <2>1. nextId \in Nat
        BY StrategyVersionsAssumption DEF VersionsDriven
    <2>2. ASSUME v \in versions[s], nextId' = nextId \/ nextId' = nextId + 1
          PROVE  v.id < nextId' /\ v.date <= MaxVersionId
        BY <2>1, <2>2, DatesBounded
    <2>3. CASE Strategy!InsertVersion
        BY <2>1, <2>2, <2>3, AfterInsert
    <2>4. CASE PruneVersion
        BY <2>2, <2>4, AfterPrune
    <2> QED BY <2>2, <2>3, <2>4, Frame
<1> QED BY <1>1, <1>2, <1>3 DEF JournalTyped

\* The client: its state, and the events on their way.
RuntimeTyped ==
    /\ liveSchema \in Schemas \cup {None}
    /\ queue \in Seq(Moon!Event)
    /\ alive \in BOOLEAN

\* A change of the server's is told to a client that is connected.
LEMMA Told ==
    ASSUME RuntimeTyped, NEW e \in Moon!Event, Moon!Tell(e)
    PROVE  /\ queue' \in Seq(Moon!Event)
           /\ queue' = queue \/ queue' = Append(queue, e)
           /\ alive => queue' = Append(queue, e)
BY DEF RuntimeTyped, Moon!Tell

LEMMA RuntimeTypeStep ==
    ASSUME RuntimeTyped, WorkTyped, [Next]_vars
    PROVE  RuntimeTyped'
<1>1. CASE RuntimeStep
    <2>1. ASSUME NEW s \in Strategies,
                 Moon!EditStrategy(s) \/ Moon!CheckStrategy(s)
          PROVE  RuntimeTyped'
        <3>1. [kind |-> "strat"] \in Moon!Event
            BY DEF Moon!Event
        <3>2. Moon!Tell([kind |-> "strat"]) /\ UNCHANGED <<liveSchema, alive>>
            BY <2>1 DEF Moon!EditStrategy, Moon!CheckStrategy
        <3> QED BY <3>1, <3>2, Told DEF RuntimeTyped
    <2>2. ASSUME NEW u \in Uids,
                 Moon!CreateOrder(u) \/ Moon!AdvanceOrder(u)
                     \/ Moon!RemoveOrder(u)
          PROVE  RuntimeTyped'
        <3>1. PICK e \in {[kind |-> "created", uid |-> u],
                          [kind |-> "updated", uid |-> u],
                          [kind |-> "removed", uid |-> u],
                          [kind |-> "orders"]} : Moon!Tell(e)
            BY <2>2 DEF Moon!CreateOrder, Moon!AdvanceOrder, Moon!RemoveOrder
        <3>2. e \in Moon!Event
            BY DEF Moon!Event
        <3> QED BY <2>2, <3>1, <3>2, Told
                DEF RuntimeTyped, Moon!CreateOrder, Moon!AdvanceOrder,
                    Moon!RemoveOrder
    <2>3. CASE Moon!ApplySchema
        <3>1. [kind |-> "schema"] \in Moon!Event
            BY DEF Moon!Event
        <3> QED BY <2>3, <3>1, Told DEF RuntimeTyped, Moon!ApplySchema
    <2>4. CASE Moon!Stop
        BY <2>4 DEF RuntimeTyped, Moon!Stop
    <2> QED BY <1>1, <2>1, <2>2, <2>3, <2>4 DEF RuntimeStep, Moon!Next
<1>2. CASE Moon!Connect \/ Moon!Kill
    <2>1. queue' = <<>>
        BY <1>2 DEF Moon!Connect, Moon!Kill
    <2>2. queue' \in Seq(Moon!Event)
        BY <2>1
    <2> QED BY <1>2, <2>2 DEF RuntimeTyped, Moon!Connect, Moon!Kill
<1>3. CASE OnSchemaApplied \/ OnStrategies \/ OnOrderUpdated
               \/ OnOrdersSnapshot \/ OnIgnored
    BY <1>3
    DEF RuntimeTyped, OnSchemaApplied, OnStrategies, OnOrderUpdated,
        OnOrdersSnapshot, OnIgnored, Handle, Moon!Receive
<1>4. CASE UNCHANGED runtimeVars
    BY <1>4 DEF RuntimeTyped, runtimeVars
<1> QED BY <1>1, <1>2, <1>3, <1>4
        DEF Next, Thread, Connect, InitialSync, StartStrategy,
            StrategyStatement, FinishStrategy, Restart, StartOrder, OrderStatement,
            FinishOrder, Done,
            OnDisconnected, PruneVersion, OtherSession, ClockStepsBack, vars

ControlTyped ==
    /\ parameters \in Schemas \cup {None, OtherSchema}
    /\ modules \in ModuleSets
    /\ pc \in {"down", "init", "sync", "loop", "event", "ended"}
    /\ missed \subseteq Keys

LEMMA ControlTypeStep ==
    ASSUME ControlTyped, RuntimeTyped, WorkTyped, [Next]_vars
    PROVE  ControlTyped'
<1> USE DEF ControlTyped
<1>1. CASE Connect \/ InitialSync \/ Done \/ OnDisconnected
    BY <1>1 DEF Connect, InitialSync, Done, OnDisconnected
<1>2. CASE FinishStrategy
    <2>1. ASSUME NEW w \in strategyWork PROVE KeyOfStrategy(w) \in Keys
        BY DEF WorkTyped, StrategyWork, KeyOfStrategy, Keys
    <2> QED BY <1>2, <2>1 DEF FinishStrategy
<1>3. CASE FinishOrder
    <2>1. ASSUME NEW w \in orderWork PROVE KeyOfOrder(w) \in Keys
        BY DEF WorkTyped, OrderWork, KeyOfOrder, Keys
    <2> QED BY <1>3, <2>1 DEF FinishOrder
<1>4. CASE OnSchemaApplied
    <2>1. parameters' \in Schemas \cup {None, OtherSchema}
        BY <1>4 DEF OnSchemaApplied, RuntimeTyped, NoSnapshot
    <2>2. missed' \subseteq Keys
        BY <1>4 DEF OnSchemaApplied, NoSnapshot, Keys
    <2> QED BY <1>4, <2>1, <2>2 DEF OnSchemaApplied, Handle, NoSnapshot
<1>5. CASE OnStrategies \/ OnOrdersSnapshot
    <2>1. ({"strategy"} \X Strategies) \cup ({"order"} \X Uids) \subseteq Keys
        BY DEF Keys
    <2> QED BY <1>5, <2>1 DEF OnStrategies, OnOrdersSnapshot, Handle, NoSnapshot
<1>6. CASE OnOrderUpdated
    <2>1. Head(queue) \in Moon!Event /\ Head(queue).kind = "updated"
        BY <1>6 DEF OnOrderUpdated, Handle, RuntimeTyped
    <2>2. <<"order", Head(queue).uid>> \in Keys
        BY <2>1 DEF Moon!Event, Keys
    <2> QED BY <1>6, <2>2 DEF OnOrderUpdated, Handle, NoSnapshot
<1>7. CASE OnIgnored \/ OtherSession \/ Restart
    BY <1>7 DEF OnIgnored, Handle, OtherSession, Restart
<1>8. CASE UNCHANGED <<parameters, modules, pc, missed>>
    BY <1>8
<1> QED BY <1>1, <1>2, <1>3, <1>4, <1>5, <1>6, <1>7, <1>8
        DEF Next, Thread, StartStrategy, StrategyStatement, StartOrder,
            OrderStatement, RuntimeStep, PruneVersion, ClockStepsBack, vars,
            controlVars

\* All of these at once.
Typed ==
    /\ WorkTyped
    /\ VersionsDriven
    /\ strategies \in [Strategies -> Strategy!StrategyRow \cup {None}]
    /\ JournalTyped
    /\ RuntimeTyped
    /\ ControlTyped

LEMMA TypedInvariant == Spec => []Typed
<1>1. Init => Typed
    <2> SUFFICES ASSUME Init PROVE Typed
        OBVIOUS
    <2>1. WorkTyped /\ ControlTyped
        BY DEF Init, Moon!Init, WorkTyped, ControlTyped
    <2>2. RuntimeTyped
        <3>1. queue = <<>>
            BY DEF Init, Moon!Init
        <3>2. queue \in Seq(Moon!Event)
            BY <3>1
        <3> QED BY <3>2 DEF Init, Moon!Init, RuntimeTyped
    <2>3. VersionsDriven
               /\ strategies \in [Strategies -> Strategy!StrategyRow \cup {None}]
        BY StrategyVersionsAssumption DEF Init, Strategy!Init, VersionsDriven
    <2>4. JournalTyped
        BY DEF Init, Journal!Init, JournalTyped, Journal!RowsArePast
    <2> QED BY <2>1, <2>2, <2>3, <2>4 DEF Typed
<1>2. Typed /\ [Next]_vars => Typed'
    BY WorkStep, StrategyStep, VersionsStep, StrategyRowStep, JournalTypeStep,
       RuntimeTypeStep, ControlTypeStep
    DEF Typed
<1> QED BY <1>1, <1>2, PTL DEF Spec

\* The tables, the client, the loops and what was given up have their types.
THEOREM TypeCorrect == Spec => []TypeOK
<1>1. Typed => TypeOK
    <2> SUFFICES ASSUME Typed PROVE TypeOK
        OBVIOUS
    <2>1. Strategy!TypeOK
        BY DEF Typed, VersionsDriven, Strategy!TypeOK, Strategy!Version,
               Version, Strategy!VersionId, VersionId
    <2>2. Journal!TypeOK
        BY DEF Typed, VersionsDriven, JournalTyped, Journal!TypeOK,
               Journal!Version, Version, Journal!VersionId, VersionId
    <2>3. Moon!TypeOK
        BY DEF Typed, WorkTyped, RuntimeTyped, Moon!TypeOK
    <2> QED BY <2>1, <2>2, <2>3 DEF Typed, WorkTyped, ControlTyped, TypeOK
<1> QED BY <1>1, TypedInvariant, PTL

-----------------------------------------------------------------------------
\* The ids and the dates of the versions.
LEMMA UniqueStep ==
    ASSUME Typed, Journal!IdsAreUnique, Strategy!UniqueVersionDates, [Next]_vars
    PROVE  Journal!IdsAreUnique' /\ Strategy!UniqueVersionDates'
<1>1. CASE Strategy!InsertVersion
    <2> DEFINE s0 == strategyCall.strategy
               row == [id |-> nextId, date |-> clock,
                       led |-> strategyCall.snap.led]
    <2>1. /\ row.id = nextId /\ row.date = clock
          /\ s0 \in Strategies
          /\ \A t \in Strategies : t # s0 => versions'[t] = versions[t]
          /\ \/ versions'[s0] = versions[s0]
             \/ /\ versions'[s0] = versions[s0] \cup {row}
                /\ \A v \in versions[s0] : v.date # clock
        BY <1>1, AfterInsert DEF Typed
    <2>2. ASSUME NEW s \in Strategies, NEW v \in versions[s]
          PROVE  v.id # nextId
        <3>1. nextId \in Nat
            BY StrategyVersionsAssumption DEF Typed, VersionsDriven
        <3> QED BY <3>1, DatesBounded DEF Typed
    <2> HIDE DEF row, s0
    <2>3. Journal!IdsAreUnique'
        BY <2>1, <2>2 DEF Journal!IdsAreUnique
    <2>4. Strategy!UniqueVersionDates'
        BY <2>1 DEF Strategy!UniqueVersionDates
    <2> QED BY <2>3, <2>4
<1>2. CASE PruneVersion
    <2>1. \A s \in Strategies : versions'[s] \subseteq versions[s]
        BY <1>2, AfterPrune DEF Typed
    <2> QED BY <2>1 DEF Journal!IdsAreUnique, Strategy!UniqueVersionDates
<1>3. CASE UNCHANGED versions
    BY <1>3 DEF Journal!IdsAreUnique, Strategy!UniqueVersionDates
<1> QED BY <1>1, <1>2, <1>3, Frame

LEMMA OwnVersionStep ==
    ASSUME Typed, Journal!IdsAreUnique, Journal!CallVersionIsOwn, [Next]_vars
    PROVE  Journal!CallVersionIsOwn'
<1> USE DEF Typed
<1>1. CASE OrderStatement /\ Journal!LookupCurrentVersionId
    <2>1. orderCall \in Journal!OrderCall /\ orderCall.order \in OrderStates
        BY <1>1, OrderCallInProgress DEF Journal!LookupCurrentVersionId
    <2>2. PICK s0 \in Strategies \cup {None} : s0 = orderCall.order.strat_id
        BY <2>1, NamedStrategy
    <2> DEFINE found == Journal!CurrentVersionId(Journal!VersionsOf(s0))
    <2>3. UNCHANGED <<versions, nextId>>
        BY <1>1 DEF Journal!LookupCurrentVersionId
    <2>4. ASSUME found # None
          PROVE  /\ s0 # None /\ found < nextId
                 /\ \A s \in Strategies : \A v \in versions[s] :
                        v.id = found => s = s0
        <3>1. /\ s0 \in Strategies /\ s0 # None
              /\ \E v \in versions[s0] : v.id = found
            BY <2>4, FoundVersion
        <3>2. found < nextId
            BY <3>1, DatesBounded
        <3> QED BY <3>1, <3>2 DEF Journal!IdsAreUnique
    <2>5. \/ orderCall' = [orderCall EXCEPT !.pc = "write", !.version = found]
          \/ orderCall' = [orderCall EXCEPT !.pc = "err"]
        BY <1>1, <2>2 DEF Journal!LookupCurrentVersionId
    <2> HIDE DEF found
    <2>6. orderCall'.pc = "write" =>
              orderCall'.order.strat_id = s0 /\ orderCall'.version = found
        BY <2>1, <2>2, <2>5 DEF Journal!OrderCall
    <2> QED BY <2>3, <2>4, <2>6 DEF Journal!CallVersionIsOwn
<1>2. CASE orderCall'.pc # "write"
    BY <1>2 DEF Journal!CallVersionIsOwn
<1>3. CASE UNCHANGED orderCall
    <2> SUFFICES ASSUME orderCall.pc = "write", orderCall.version # None
                 PROVE  /\ orderCall.order.strat_id # None
                        /\ orderCall.version < nextId'
                        /\ \A s \in Strategies : \A v \in versions'[s] :
                               v.id = orderCall.version =>
                                   s = orderCall.order.strat_id
        BY <1>3 DEF Journal!CallVersionIsOwn
    <2>1. orderCall.version \in Nat /\ nextId \in Nat
        BY OrderCallInProgress, StrategyVersionsAssumption
        DEF VersionId, VersionsDriven
    <2>2. /\ orderCall.order.strat_id # None
          /\ orderCall.version < nextId
          /\ \A s \in Strategies : \A v \in versions[s] :
                 v.id = orderCall.version => s = orderCall.order.strat_id
        BY DEF Journal!CallVersionIsOwn
    <2>3. CASE Strategy!InsertVersion
        <3>1. /\ nextId' = nextId + 1
              /\ \A s \in Strategies : \A v \in versions'[s] :
                     v \in versions[s] \/ v.id = nextId
            BY <2>3, AfterInsert
        <3> QED BY <2>1, <2>2, <3>1
    <2>4. CASE PruneVersion
        BY <2>2, <2>4, AfterPrune
    <2> QED BY <2>2, <2>3, <2>4, Frame
<1>4. CASE OrderStatement /\ (Journal!WriteRow \/ Journal!Fail)
    <2>1. orderCall \in Journal!OrderCall
        BY <1>4, OrderCallInProgress DEF Journal!WriteRow, Journal!Fail
    <2>2. orderCall'.pc # "write"
        BY <1>4, <2>1, AnsweredOrderCall
        DEF Journal!WriteRow, Journal!Fail, Journal!OrderCall
    <2> QED BY <1>2, <2>2
<1>5. CASE StartOrder \/ FinishOrder \/ Restart
    <2>1. orderCall'.pc # "write"
        BY <1>5 DEF StartOrder, FinishOrder, Restart, Journal!Upsert,
                    Journal!Return, Journal!Idle
    <2> QED BY <1>2, <2>1
<1> QED BY <1>1, <1>3, <1>4, <1>5, Frame DEF OrderStatement

\* The ids of the versions are given out once and their dates are those of one
\* version, and a call about to link an order has an id of the order's strategy,
\* whatever fails. (storage::strategies, storage::orders, migrations/005)
THEOREM TablesInvariant == Spec => []TablesInv
<1>1. Init => /\ Journal!IdsAreUnique /\ Journal!CallVersionIsOwn
              /\ Strategy!UniqueVersionDates
    BY DEF Init, Journal!Init, Journal!Idle, Journal!IdsAreUnique,
           Journal!CallVersionIsOwn, Strategy!UniqueVersionDates
<1>2. Typed /\ Journal!IdsAreUnique /\ Journal!CallVersionIsOwn
          /\ Strategy!UniqueVersionDates /\ [Next]_vars
      => /\ Journal!IdsAreUnique' /\ Journal!CallVersionIsOwn'
         /\ Strategy!UniqueVersionDates'
    BY UniqueStep, OwnVersionStep
<1>3. Typed /\ Journal!IdsAreUnique /\ Journal!CallVersionIsOwn
          /\ Strategy!UniqueVersionDates => TablesInv
    BY DEF Typed, VersionsDriven, JournalTyped, TablesInv
<1> QED BY <1>1, <1>2, <1>3, TypedInvariant, PTL DEF Spec

-----------------------------------------------------------------------------
\* The loops and their calls.

LEMMA CallPhases ==
    ASSUME Typed
    PROVE  /\ strategyCall = Strategy!Idle
                  \/ strategyCall.pc \in {"row", "prev", "insert", "ok", "err"}
           /\ strategyCall = Strategy!Idle <=> strategyCall.pc = "idle"
           /\ orderCall = Journal!Idle
                  \/ orderCall.pc \in {"lookup", "write", "ok", "err"}
           /\ orderCall = Journal!Idle <=> orderCall.pc = "idle"
BY DEF Typed, VersionsDriven, JournalTyped, Strategy!Idle, Journal!Idle,
       Strategy!StrategyCall, Journal!OrderCall

\* A statement leaves the call to the one work it is for.
LEMMA StatementKeepsCall ==
    ASSUME Typed
    PROVE  /\ StrategyStatement =>
                  /\ strategyCall # Strategy!Idle /\ strategyCall' # Strategy!Idle
                  /\ strategyCall'.strategy = strategyCall.strategy
                  /\ strategyCall'.snap = strategyCall.snap
                  /\ strategyCall'.live_checked = strategyCall.live_checked
           /\ OrderStatement =>
                  /\ orderCall # Journal!Idle /\ orderCall' # Journal!Idle
                  /\ orderCall'.uid = orderCall.uid
                  /\ orderCall'.order = orderCall.order
<1> USE DEF Typed
<1>1. ASSUME StrategyStatement
      PROVE  /\ strategyCall # Strategy!Idle /\ strategyCall' # Strategy!Idle
             /\ strategyCall'.strategy = strategyCall.strategy
             /\ strategyCall'.snap = strategyCall.snap
             /\ strategyCall'.live_checked = strategyCall.live_checked
    <2>1. strategyCall.pc # "idle"
        BY <1>1 DEF StrategyStatement, Strategy!UpsertRow,
            Strategy!ReadPreviousLed, Strategy!InsertVersion, Strategy!Fail
    <2>2. strategyCall \in Strategy!StrategyCall
        BY <2>1, CallInProgress
    <2>3. CASE Strategy!Fail
        BY <2>2, <2>3 DEF Strategy!Fail, Strategy!StrategyCall, Strategy!Idle
    <2>4. ASSUME NEW next \in {"prev", "insert", "ok"}, Strategy!Answered(next)
          PROVE  /\ strategyCall'.pc # "idle"
                 /\ strategyCall'.strategy = strategyCall.strategy
                 /\ strategyCall'.snap = strategyCall.snap
                 /\ strategyCall'.live_checked = strategyCall.live_checked
        BY <2>2, <2>4, AnsweredCall
    <2>5. \E next \in {"prev", "insert", "ok"} :
              Strategy!Fail \/ Strategy!Answered(next)
        BY <1>1 DEF StrategyStatement, Strategy!UpsertRow,
            Strategy!ReadPreviousLed, Strategy!InsertVersion
    <2> QED BY <2>1, <2>3, <2>4, <2>5 DEF Strategy!Idle
<1>2. ASSUME OrderStatement
      PROVE  /\ orderCall # Journal!Idle /\ orderCall' # Journal!Idle
             /\ orderCall'.uid = orderCall.uid
             /\ orderCall'.order = orderCall.order
    <2>1. orderCall.pc # "idle"
        BY <1>2 DEF OrderStatement, Journal!LookupCurrentVersionId,
            Journal!WriteRow, Journal!Fail
    <2>2. orderCall \in Journal!OrderCall
        BY <2>1, OrderCallInProgress
    <2>3. CASE Journal!LookupCurrentVersionId \/ Journal!Fail
        <3>1. PICK found :
                  \/ orderCall' = [orderCall EXCEPT !.pc = "write",
                                                    !.version = found]
                  \/ orderCall' = [orderCall EXCEPT !.pc = "err"]
            BY <2>3 DEF Journal!LookupCurrentVersionId, Journal!Fail
        <3>2. /\ orderCall'.pc \in {"write", "err"}
              /\ orderCall'.uid = orderCall.uid
              /\ orderCall'.order = orderCall.order
            BY <2>2, <3>1 DEF Journal!OrderCall
        <3> QED BY <2>1, <3>2 DEF Journal!Idle
    <2>4. CASE Journal!WriteRow
        <3>1. /\ orderCall'.pc \in {"ok", "err"}
              /\ orderCall'.uid = orderCall.uid
              /\ orderCall'.order = orderCall.order
            BY <2>2, <2>4, AnsweredOrderCall DEF Journal!WriteRow
        <3> QED BY <2>1, <3>1 DEF Journal!Idle
    <2> QED BY <1>2, <2>1, <2>2, <2>3, <2>4 DEF OrderStatement, Journal!Idle
<1> QED BY <1>1, <1>2

\* The works of a snapshot: one for each strategy and each executed order.
LEMMA SnapshotOfStrategies ==
    /\ \A v, w \in StrategiesInSnapshot : v.strategy = w.strategy => v = w
    /\ \A w \in StrategiesInSnapshot :
           /\ w.strategy \in Strategies
           /\ w = LiveWork(w.strategy) /\ liveStrategies[w.strategy] # None
    /\ \A s \in Strategies : liveStrategies[s] # None =>
           \E w \in StrategiesInSnapshot : w.strategy = s
<1>1. \A w \in StrategiesInSnapshot : \E s \in Strategies :
          liveStrategies[s] # None /\ w = LiveWork(s)
    BY DEF StrategiesInSnapshot, LiveWork
<1>2. \A s \in Strategies : liveStrategies[s] # None =>
          LiveWork(s) \in StrategiesInSnapshot
    BY DEF StrategiesInSnapshot, LiveWork
<1>3. \A s \in Strategies : LiveWork(s).strategy = s
    BY DEF LiveWork
<1> QED BY <1>1, <1>2, <1>3

LEMMA SnapshotOfOrders ==
    /\ \A v, w \in ExecutedInSnapshot : v.uid = w.uid => v = w
    /\ \A w \in ExecutedInSnapshot :
           /\ w.uid \in Uids /\ Moon!Listed(w.uid)
           /\ w.order = liveOrders[w.uid] /\ Executed(w.order)
    /\ \A u \in Uids : (Moon!Listed(u) /\ Executed(liveOrders[u])) =>
           \E w \in ExecutedInSnapshot : w.uid = u
<1> DEFINE work(u) == [uid |-> u, order |-> liveOrders[u]]
<1>1. \A w \in ExecutedInSnapshot : \E u \in Uids :
          Moon!Listed(u) /\ Executed(liveOrders[u]) /\ w = work(u)
    BY DEF ExecutedInSnapshot
<1>2. \A u \in Uids : (Moon!Listed(u) /\ Executed(liveOrders[u])) =>
          work(u) \in ExecutedInSnapshot
    BY DEF ExecutedInSnapshot
<1>3. \A u \in Uids : work(u).uid = u /\ work(u).order = liveOrders[u]
    OBVIOUS
<1> HIDE DEF work
<1> QED BY <1>1, <1>2, <1>3

\* What the client knows it does not forget.
LEMMA KnownStays ==
    ASSUME Typed, [Next]_vars
    PROVE  /\ \A s \in Strategies :
                  liveStrategies[s] # None => liveStrategies'[s] # None
           /\ \A u \in Uids : liveOrders[u] # None => liveOrders'[u] # None
<1>1. CASE RuntimeStep
    <2>1. ASSUME NEW s \in Strategies,
                 Moon!EditStrategy(s) \/ Moon!CheckStrategy(s)
          PROVE  /\ liveOrders' = liveOrders
                 /\ \A t \in Strategies :
                        liveStrategies[t] # None => liveStrategies'[t] # None
        <3>1. PICK new : /\ new \in Moon!LiveStrategy
                         /\ liveStrategies' = [liveStrategies EXCEPT ![s] = new]
            <4>1. CASE Moon!EditStrategy(s)
                BY <4>1 DEF Moon!EditStrategy, Moon!LiveStrategy
            <4>2. CASE Moon!CheckStrategy(s)
                <5>1. liveStrategies[s] \in Moon!LiveStrategy
                    BY <4>2 DEF Typed, WorkTyped, Moon!CheckStrategy
                <5>2. [liveStrategies[s] EXCEPT !.info = ~@]
                          \in Moon!LiveStrategy
                    BY <4>2, <5>1 DEF Moon!CheckStrategy, Moon!LiveStrategy
                <5>3. liveStrategies' = [liveStrategies EXCEPT ![s] =
                          [liveStrategies[s] EXCEPT !.info = ~@]]
                    BY <4>2 DEF Moon!CheckStrategy
                <5> QED BY <5>2, <5>3
            <4> QED BY <2>1, <4>1, <4>2
        <3>2. new # None
            BY <3>1, StoresAssumption
        <3> QED BY <2>1, <3>1, <3>2
                DEF Typed, WorkTyped, Moon!EditStrategy, Moon!CheckStrategy
    <2>2. ASSUME NEW u \in Uids,
                 Moon!CreateOrder(u) \/ Moon!AdvanceOrder(u)
                     \/ Moon!RemoveOrder(u)
          PROVE  /\ liveStrategies' = liveStrategies
                 /\ \A t \in Uids :
                        liveOrders[t] # None => liveOrders'[t] # None
        <3>1. PICK new : /\ new \in OrderStates \/ (new = Gone /\ liveOrders[u] # None)
                         /\ liveOrders' = [liveOrders EXCEPT ![u] = new]
            BY <2>2, SessionAssumption
            DEF Typed, WorkTyped, Moon!CreateOrder, Moon!AdvanceOrder,
                Moon!RemoveOrder, Moon!Listed
        <3> QED BY <2>2, <3>1, SessionAssumption
                DEF Typed, WorkTyped, Moon!CreateOrder, Moon!AdvanceOrder,
                    Moon!RemoveOrder
    <2>3. CASE Moon!ApplySchema \/ Moon!Stop
        BY <2>3 DEF Moon!ApplySchema, Moon!Stop
    <2> QED BY <1>1, <2>1, <2>2, <2>3 DEF RuntimeStep, Moon!Next
<1>2. CASE UNCHANGED <<liveStrategies, liveOrders>>
    BY <1>2
<1> QED BY <1>1, <1>2, Frame

LEMMA NoWorkNoCalls ==
    ASSUME LoopInv, pc \notin {"sync", "event"}
    PROVE  /\ strategyWork = {} /\ orderWork = {}
           /\ strategyCall = Strategy!Idle /\ orderCall = Journal!Idle
BY DEF LoopInv, WorkInLoop, StrategyCallIsWork, OrderCallIsWork

\* One call at a time, and the orders after the strategies.
LEMMA OneCall ==
    ASSUME LoopInv
    PROVE  /\ orderCall # Journal!Idle =>
                  strategyCall = Strategy!Idle /\ strategyWork = {}
           /\ strategyCall # Strategy!Idle => orderCall = Journal!Idle
           /\ strategyWork # {} => orderCall = Journal!Idle
BY DEF LoopInv, StrategyCallIsWork, OrderCallIsWork

\* Steps that read the client's snapshot start a loop.
LEMMA FillStep ==
    ASSUME Typed, LoopInv, InitialSync \/ OnStrategies \/ OnOrderUpdated
               \/ OnOrdersSnapshot
    PROVE  /\ pc \notin {"sync", "event"}
           /\ UNCHANGED <<strategyVars, orderVars, modules>>
           /\ UNCHANGED <<liveStrategies, liveOrders, liveSchema, alive>>
           /\ strategyWork' \subseteq StrategiesInSnapshot
           /\ orderWork' \subseteq ExecutedInSnapshot
           /\ strategyWork' # {} => Enabled("listener_strategies")
           /\ orderWork' # {} => Enabled("listener_orders")
           /\ (strategyWork' = {} /\ orderWork' = {}) \/ pc' \in {"sync", "event"}
<1> pc \notin {"sync", "event"} /\ strategyWork = {} /\ orderWork = {}
    <2>1. pc \notin {"sync", "event"}
        BY DEF InitialSync, OnStrategies, OnOrderUpdated, OnOrdersSnapshot,
               Handle
    <2> QED BY <2>1, NoWorkNoCalls
<1>1. CASE InitialSync
    BY <1>1 DEF InitialSync, runtimeVars
<1>2. CASE OnStrategies \/ OnOrderUpdated \/ OnOrdersSnapshot
    BY <1>2 DEF OnStrategies, OnOrderUpdated, OnOrdersSnapshot, Handle,
                NoSnapshot, Moon!Receive
<1> QED BY <1>1, <1>2

\* Steps that leave the loops and their calls alone.
LEMMA LoopsIdle ==
    ASSUME LoopInv,
           Connect \/ Done \/ OnSchemaApplied \/ OnIgnored \/ OnDisconnected
               \/ RuntimeStep \/ PruneVersion \/ OtherSession \/ ClockStepsBack
               \/ UNCHANGED vars
    PROVE  /\ UNCHANGED <<strategyWork, orderWork, strategyCall, orderCall>>
           /\ UNCHANGED modules
           /\ pc' = pc \/ (strategyWork = {} /\ orderWork = {})
<1>1. CASE Connect \/ Done \/ OnDisconnected
    BY <1>1, NoWorkNoCalls
    DEF Connect, Done, OnDisconnected, strategyVars, orderVars
<1>2. CASE OnSchemaApplied \/ OnIgnored
    <2>1. UNCHANGED <<strategyVars, orderVars, modules, pc, strategyWork,
                      orderWork>>
        BY <1>2 DEF OnSchemaApplied, OnIgnored, Handle, NoSnapshot
    <2> QED BY <2>1 DEF strategyVars, orderVars
<1>3. CASE RuntimeStep \/ UNCHANGED vars
    <2>1. UNCHANGED <<strategyVars, orderVars, controlVars>>
        BY <1>3 DEF RuntimeStep, vars
    <2> QED BY <2>1 DEF strategyVars, orderVars, controlVars
<1>4. CASE PruneVersion \/ ClockStepsBack
    <2>1. UNCHANGED <<strategyCall, orderCall, controlVars>>
        BY <1>4 DEF PruneVersion, ClockStepsBack, orderVars, Strategy!Prune,
                    Strategy!StepBack
    <2> QED BY <2>1 DEF controlVars
<1>5. CASE OtherSession
    BY <1>5 DEF OtherSession, strategyVars, orderVars
<1> QED BY <1>1, <1>2, <1>3, <1>4, <1>5

LEMMA LoopStep ==
    ASSUME Typed, LoopInv, [Next]_vars
    PROVE  LoopInv'
<1>1. CASE InitialSync \/ OnStrategies \/ OnOrderUpdated \/ OnOrdersSnapshot
    <2>1. /\ strategyCall' = Strategy!Idle /\ orderCall' = Journal!Idle
          /\ UNCHANGED <<modules, liveStrategies, liveOrders>>
        BY <1>1, FillStep, NoWorkNoCalls DEF strategyVars, orderVars
    <2>2. WorkIsSingle'
        BY <1>1, FillStep, SnapshotOfStrategies, SnapshotOfOrders
        DEF WorkIsSingle
    <2>3. WorkIsKnown'
        BY <1>1, <2>1, FillStep, SnapshotOfStrategies, SnapshotOfOrders
        DEF WorkIsKnown, Moon!Listed
    <2>4. WorkInLoop' /\ WorkIsEnabled'
        BY <1>1, <2>1, FillStep DEF WorkInLoop, WorkIsEnabled, Enabled
    <2> QED BY <2>1, <2>2, <2>3, <2>4
            DEF LoopInv, StrategyCallIsWork, OrderCallIsWork
<1>2. CASE Restart
    BY <1>2 DEF Restart, LoopInv, WorkInLoop, WorkIsSingle, WorkIsEnabled,
                WorkIsKnown, StrategyCallIsWork, OrderCallIsWork
<1>3. (/\ strategyWork' \subseteq strategyWork /\ orderWork' \subseteq orderWork
       /\ modules' = modules
       /\ pc' = pc \/ (strategyWork = {} /\ orderWork = {}))
          => WorkInLoop' /\ WorkIsSingle' /\ WorkIsEnabled' /\ WorkIsKnown'
    <2> HAVE /\ strategyWork' \subseteq strategyWork
             /\ orderWork' \subseteq orderWork
             /\ modules' = modules
             /\ pc' = pc \/ (strategyWork = {} /\ orderWork = {})
    <2>1. WorkInLoop'
        BY DEF LoopInv, WorkInLoop
    <2>2. WorkIsSingle' /\ WorkIsEnabled'
        BY DEF LoopInv, WorkIsSingle, WorkIsEnabled, Enabled
    <2>3. WorkIsKnown'
        BY KnownStays
        DEF LoopInv, WorkIsKnown, Typed, WorkTyped, StrategyWork, OrderWork
    <2> QED BY <2>1, <2>2, <2>3
<1>4. CASE Connect \/ Done \/ OnSchemaApplied \/ OnIgnored \/ OnDisconnected
               \/ RuntimeStep \/ PruneVersion \/ OtherSession \/ ClockStepsBack
               \/ UNCHANGED vars
    BY <1>3, <1>4, LoopsIdle DEF LoopInv, StrategyCallIsWork, OrderCallIsWork
<1>5. CASE StartStrategy
    <2>1. /\ UNCHANGED <<strategyWork, orderWork, orderCall, modules, pc>>
          /\ orderCall = Journal!Idle
        BY <1>5, OneCall DEF StartStrategy, controlVars, orderVars
    <2>2. PICK w \in strategyWork :
              strategyCall' = [pc |-> "row", strategy |-> w.strategy,
                               snap |-> w.snap,
                               live_checked |-> w.live_checked]
        BY <1>5 DEF StartStrategy, Strategy!Call
    <2>3. w = [strategy |-> w.strategy, snap |-> w.snap,
               live_checked |-> w.live_checked]
        BY DEF Typed, WorkTyped, StrategyWork
    <2>4. StrategyCallIsWork'
        BY <2>1, <2>2, <2>3 DEF LoopInv, StrategyCallIsWork
    <2>5. OrderCallIsWork'
        BY <2>1, <2>2, <2>3 DEF LoopInv, OrderCallIsWork
    <2> QED BY <1>3, <2>1, <2>4, <2>5 DEF LoopInv
<1>6. CASE StrategyStatement
    <2>1. UNCHANGED <<strategyWork, orderWork, orderCall, modules, pc>>
        BY <1>6 DEF StrategyStatement, controlVars, orderVars
    <2>2. StrategyCallIsWork'
        BY <1>6, <2>1, StatementKeepsCall DEF LoopInv, StrategyCallIsWork
    <2>3. OrderCallIsWork'
        BY <2>1 DEF LoopInv, OrderCallIsWork
    <2> QED BY <1>3, <2>1, <2>2, <2>3 DEF LoopInv
<1>7. CASE FinishStrategy
    <2>1. strategyCall # Strategy!Idle
        BY <1>7 DEF FinishStrategy, Strategy!Return, Strategy!Idle
    <2>2. /\ UNCHANGED <<orderWork, orderCall, modules, pc>>
          /\ strategyWork' \subseteq strategyWork
          /\ strategyCall' = Strategy!Idle /\ orderCall = Journal!Idle
        BY <1>7, <2>1, OneCall
        DEF FinishStrategy, Strategy!Return, orderVars
    <2>3. StrategyCallIsWork' /\ OrderCallIsWork'
        BY <2>2 DEF StrategyCallIsWork, OrderCallIsWork
    <2> QED BY <1>3, <2>2, <2>3 DEF LoopInv
<1>8. CASE StartOrder
    <2>1. /\ UNCHANGED <<strategyWork, orderWork, strategyCall, modules, pc>>
          /\ strategyWork = {}
        BY <1>8 DEF StartOrder, controlVars
    <2>2. PICK w \in orderWork :
              orderCall' = [pc |-> "lookup", uid |-> w.uid, order |-> w.order,
                            version |-> None]
        BY <1>8 DEF StartOrder, Journal!Upsert
    <2>3. w = [uid |-> w.uid, order |-> w.order]
        BY DEF Typed, WorkTyped, OrderWork
    <2>4. StrategyCallIsWork'
        BY <2>1, <2>2, <2>3 DEF LoopInv, StrategyCallIsWork
    <2>5. OrderCallIsWork'
        BY <2>1, <2>2, <2>3 DEF LoopInv, OrderCallIsWork
    <2> QED BY <1>3, <2>1, <2>4, <2>5 DEF LoopInv
<1>9. CASE OrderStatement
    <2>1. UNCHANGED <<strategyWork, orderWork, strategyCall, modules, pc>>
        BY <1>9 DEF OrderStatement, controlVars
    <2>2. StrategyCallIsWork'
        BY <2>1 DEF LoopInv, StrategyCallIsWork
    <2>3. OrderCallIsWork'
        BY <1>9, <2>1, StatementKeepsCall DEF LoopInv, OrderCallIsWork
    <2> QED BY <1>3, <2>1, <2>2, <2>3 DEF LoopInv
<1>10. CASE FinishOrder
    <2>1. /\ UNCHANGED <<strategyWork, strategyCall, modules, pc>>
          /\ orderWork' \subseteq orderWork
          /\ orderCall' = Journal!Idle
        BY <1>10 DEF FinishOrder, Journal!Return
    <2>2. StrategyCallIsWork' /\ OrderCallIsWork'
        BY <2>1 DEF LoopInv, StrategyCallIsWork, OrderCallIsWork
    <2> QED BY <1>3, <2>1, <2>2 DEF LoopInv
<1> QED BY <1>1, <1>2, <1>4, <1>5, <1>6, <1>7, <1>8, <1>9, <1>10
        DEF Next, Thread

\* A loop writes what the client's snapshot held, each strategy and order once,
\* strategies first, and only for a module that is switched on; its calls are
\* for its work, one at a time. (initial_sync, handle_event)
THEOREM LoopInvariant == Spec => []LoopInv
<1>1. Init => LoopInv
    BY DEF Init, Strategy!Init, Journal!Init, LoopInv, WorkInLoop,
           WorkIsSingle, WorkIsEnabled, WorkIsKnown, StrategyCallIsWork,
           OrderCallIsWork
<1>2. Typed /\ LoopInv /\ [Next]_vars => LoopInv'
    BY LoopStep
<1> QED BY <1>1, <1>2, TypedInvariant, PTL DEF Spec

\* With listener_strategies off no row of a strategy and no version is
\* written, with listener_orders off no order is, except for the ON DELETE SET
\* NULL of a version an operator deletes. (initial_sync, handle_event)
THEOREM OnlyModulesOnWrite == Spec => ModulesOffWriteNothing
<1> DEFINE Off ==
        /\ ~Enabled("listener_strategies") =>
               UNCHANGED <<strategies, nextId>>
        /\ ~Enabled("listener_orders") =>
               \A u \in Uids : orders'[u] # orders[u] =>
                   orders'[u] = Journal!Unlinked(orders[u],
                                    orders[u].strategy_version_id)
<1>1. ASSUME Typed, LoopInv, [Next]_vars PROVE Off
    <2>1. ASSUME ~Enabled("listener_strategies")
          PROVE  UNCHANGED <<strategies, nextId>>
        <3>1. ~StrategyStatement
            BY <1>1, <2>1, StatementKeepsCall
            DEF LoopInv, WorkIsEnabled, StrategyCallIsWork
        <3> QED BY <1>1, <3>1, Frame DEF PruneVersion, Strategy!Prune
    <2>2. ASSUME ~Enabled("listener_orders"), NEW u \in Uids,
                 orders'[u] # orders[u]
          PROVE  orders'[u] = Journal!Unlinked(orders[u],
                                  orders[u].strategy_version_id)
        <3>1. ~OrderStatement
            BY <1>1, <2>2, StatementKeepsCall
            DEF LoopInv, WorkIsEnabled, OrderCallIsWork
        <3>2. PruneVersion
            BY <1>1, <2>2, <3>1, Frame
        <3>3. PICK id : orders' = [t \in Uids |->
                                       Journal!Unlinked(orders[t], id)]
            BY <1>1, <3>2, AfterPrune DEF Typed
        <3> QED BY <2>2, <3>3 DEF Journal!Unlinked
    <2> QED BY <2>1, <2>2
<1>2. Typed /\ LoopInv /\ [Next]_vars => [Off]_vars
    BY <1>1
<1> QED BY <1>2, TypedInvariant, LoopInvariant, PTL
        DEF Spec, ModulesOffWriteNothing

-----------------------------------------------------------------------------
\* The client and its events.

LEMMA QueueGrows ==
    ASSUME Typed, NEW e \in Moon!Event, Moon!Tell(e)
    PROVE  /\ \A i \in DOMAIN queue :
                  i \in DOMAIN queue' /\ queue'[i] = queue[i]
           /\ alive => \E i \in DOMAIN queue' : queue'[i] = e
<1>1. queue \in Seq(Moon!Event)
    BY DEF Typed, RuntimeTyped
<1>2. CASE queue' = Append(queue, e)
    <2>1. DOMAIN queue = 1 .. Len(queue) /\ Len(queue) \in Nat
        BY <1>1
    <2>2. DOMAIN queue' = 1 .. Len(queue) + 1
        BY <1>1, <1>2
    <2>3. \A i \in 1 .. Len(queue) : queue'[i] = queue[i]
        BY <1>1, <1>2
    <2>4. queue'[Len(queue) + 1] = e
        BY <1>1, <1>2
    <2>5. Len(queue) + 1 \in DOMAIN queue'
        BY <2>1, <2>2
    <2> QED BY <2>1, <2>2, <2>3, <2>4, <2>5
<1>3. CASE queue' = queue /\ ~alive
    BY <1>3
<1> QED BY <1>1, <1>2, <1>3, Told DEF Typed, Moon!Tell, RuntimeTyped

\* A step of the client's changes one thing, and tells a session that is
\* connected.
LEMMA ClientStep ==
    ASSUME Typed, RuntimeStep
    PROVE  /\ \A i \in DOMAIN queue :
                  i \in DOMAIN queue' /\ queue'[i] = queue[i]
           /\ alive' => alive
           /\ (alive /\ liveSchema' # liveSchema) => SchemaPending'
           /\ (alive /\ liveStrategies' # liveStrategies) => StrategiesPending'
           /\ \A u \in Uids :
                  \/ liveOrders'[u] = liveOrders[u]
                  \/ liveOrders[u] = None /\ liveOrders'[u] \in Created
                  \/ /\ Moon!Listed(u)
                     /\ liveOrders'[u] \in Progress[liveOrders[u]]
                     /\ alive => OrderPending(u)'
                  \/ Moon!Listed(u) /\ liveOrders'[u] = Gone
<1> DEFINE Grows == \A i \in DOMAIN queue :
                        i \in DOMAIN queue' /\ queue'[i] = queue[i]
<1>1. ASSUME NEW s \in Strategies, Moon!EditStrategy(s) \/ Moon!CheckStrategy(s)
      PROVE  /\ Grows /\ UNCHANGED <<liveOrders, liveSchema, alive>>
             /\ alive => StrategiesPending'
    <2>1. Moon!Tell([kind |-> "strat"])
        BY <1>1 DEF Moon!EditStrategy, Moon!CheckStrategy
    <2>2. [kind |-> "strat"] \in Moon!Event /\ [kind |-> "strat"].kind = "strat"
        BY DEF Moon!Event
    <2>3. Grows /\ (alive => StrategiesPending')
        BY <2>1, <2>2, QueueGrows DEF StrategiesPending
    <2> QED BY <1>1, <2>3 DEF Moon!EditStrategy, Moon!CheckStrategy
<1>2. CASE Moon!ApplySchema
    <2>1. [kind |-> "schema"] \in Moon!Event /\ [kind |-> "schema"].kind = "schema"
        BY DEF Moon!Event
    <2>2. Grows /\ (alive => SchemaPending')
        BY <1>2, <2>1, QueueGrows DEF Moon!ApplySchema, SchemaPending
    <2> QED BY <1>2, <2>2 DEF Moon!ApplySchema
<1>3. CASE Moon!Stop
    BY <1>3 DEF Moon!Stop
<1>4. ASSUME NEW t \in Uids,
             Moon!CreateOrder(t) \/ Moon!AdvanceOrder(t) \/ Moon!RemoveOrder(t)
      PROVE  /\ Grows /\ UNCHANGED <<liveStrategies, liveSchema, alive>>
             /\ \A u \in Uids :
                  \/ liveOrders'[u] = liveOrders[u]
                  \/ liveOrders[u] = None /\ liveOrders'[u] \in Created
                  \/ /\ Moon!Listed(u)
                     /\ liveOrders'[u] \in Progress[liveOrders[u]]
                     /\ alive => OrderPending(u)'
                  \/ Moon!Listed(u) /\ liveOrders'[u] = Gone
    <2> DEFINE created == [kind |-> "created", uid |-> t]
               updated == [kind |-> "updated", uid |-> t]
               removed == [kind |-> "removed", uid |-> t]
               listed == [kind |-> "orders"]
    <2>1. {created, updated, removed, listed} \subseteq Moon!Event
        BY DEF Moon!Event
    <2>2. /\ UNCHANGED <<liveStrategies, liveSchema, alive>>
          /\ \E e \in {created, updated, removed, listed} : Moon!Tell(e)
        BY <1>4 DEF Moon!CreateOrder, Moon!AdvanceOrder, Moon!RemoveOrder
    <2>3. Grows
        <3>1. PICK e \in Moon!Event : Moon!Tell(e)
            BY <2>1, <2>2
        <3> QED BY <3>1, QueueGrows
    <2>4. PICK new : liveOrders' = [liveOrders EXCEPT ![t] = new]
        BY <1>4 DEF Moon!CreateOrder, Moon!AdvanceOrder, Moon!RemoveOrder
    <2>5. /\ liveOrders'[t] = new
          /\ \A u \in Uids : u # t => liveOrders'[u] = liveOrders[u]
        BY <2>4 DEF Typed, WorkTyped
    <2>6. CASE Moon!CreateOrder(t)
        <3>1. liveOrders[t] = None /\ liveOrders'[t] \in Created
            BY <2>6 DEF Moon!CreateOrder, Typed, WorkTyped
        <3> QED BY <2>2, <2>3, <2>5, <3>1
    <2>7. CASE Moon!AdvanceOrder(t)
        <3>1. Moon!Listed(t) /\ liveOrders'[t] \in Progress[liveOrders[t]]
            BY <2>7 DEF Moon!AdvanceOrder, Typed, WorkTyped
        <3>2. Moon!Tell(updated) \/ Moon!Tell(listed)
            BY <2>7 DEF Moon!AdvanceOrder
        <3>3. /\ updated.kind = "updated" /\ updated.uid = t
              /\ listed.kind = "orders"
            OBVIOUS
        <3> HIDE DEF updated, listed
        <3>4. alive => OrderPending(t)'
            BY <2>1, <3>2, <3>3, QueueGrows DEF OrderPending
        <3> QED BY <2>2, <2>3, <2>5, <3>1, <3>4
    <2>8. CASE Moon!RemoveOrder(t)
        <3>1. Moon!Listed(t) /\ liveOrders'[t] = Gone
            BY <2>8 DEF Moon!RemoveOrder, Typed, WorkTyped
        <3> QED BY <2>2, <2>3, <2>5, <3>1
    <2> QED BY <1>4, <2>6, <2>7, <2>8
<1> QED BY <1>1, <1>2, <1>3, <1>4 DEF RuntimeStep, Moon!Next

-----------------------------------------------------------------------------
\* The journal and the orders of the server.

Fills == InitialSync \/ OnStrategies \/ OnOrderUpdated \/ OnOrdersSnapshot

LEMMA WorkShrinks ==
    ASSUME [Next]_vars, ~Fills
    PROVE  strategyWork' \subseteq strategyWork /\ orderWork' \subseteq orderWork
<1>1. CASE FinishStrategy \/ FinishOrder \/ Restart
    BY <1>1 DEF FinishStrategy, FinishOrder, Restart
<1>2. CASE UNCHANGED <<strategyWork, orderWork>>
    BY <1>2
<1> QED BY <1>1, <1>2
        DEF Fills, Next, Thread, Connect, StartStrategy, StrategyStatement,
            StartOrder, OrderStatement, Done, OnSchemaApplied, NoSnapshot,
            OnIgnored, OnDisconnected, RuntimeStep, PruneVersion, OtherSession,
            ClockStepsBack, vars, controlVars

\* What the call writes.
LEMMA RowWritten ==
    ASSUME Typed, Journal!WriteRow
    PROVE  /\ orderCall.uid \in Uids
           /\ orders'[orderCall.uid] # None
           /\ orders'[orderCall.uid].status = orderCall.order.status
           /\ orderCall.version # None =>
                  orders'[orderCall.uid].strategy_version_id
                      = orderCall.version
           /\ \A u \in Uids : u # orderCall.uid => orders'[u] = orders[u]
<1>1. /\ orderCall.uid \in Uids /\ orderCall.order \in OrderStates
      /\ orderCall.version \in VersionId \cup {None}
    BY OrderCallInProgress DEF Journal!WriteRow, Typed
<1> DEFINE new == Journal!Merged(orders[orderCall.uid],
              Journal!RowFrom(orderCall.order, orderCall.version))
<1>2. /\ new \in Journal!OrderRow /\ new.status = orderCall.order.status
      /\ orderCall.version # None =>
             new.strategy_version_id = orderCall.version
    BY <1>1, WrittenRow DEF Typed, JournalTyped
<1>3. new # None
    BY <1>2, StoresAssumption
<1>4. orders' = [orders EXCEPT ![orderCall.uid] = new]
    BY DEF Journal!WriteRow
<1> HIDE DEF new
<1> QED BY <1>1, <1>2, <1>3, <1>4 DEF Typed, JournalTyped

\* A row is kept with its status, or it is written by the call.
LEMMA RowStep ==
    ASSUME Typed, [Next]_vars, NEW u \in Uids
    PROVE  \/ orders'[u] = None /\ orders[u] = None
           \/ /\ orders'[u] # None /\ orders[u] # None
              /\ orders'[u].status = orders[u].status
           \/ /\ OrderStatement /\ Journal!WriteRow /\ u = orderCall.uid
              /\ orders'[u] # None
              /\ orders'[u].status = orderCall.order.status
<1>1. CASE OrderStatement /\ Journal!WriteRow
    BY <1>1, RowWritten
<1>2. CASE PruneVersion
    <2>1. PICK id : orders' = [t \in Uids |-> Journal!Unlinked(orders[t], id)]
        BY <1>2, AfterPrune DEF Typed
    <2> QED BY <2>1, UnlinkedRow DEF Typed, JournalTyped
<1>3. CASE UNCHANGED orders
    BY <1>3
<1> QED BY <1>1, <1>2, <1>3, Frame

LEMMA Statuses ==
    ASSUME Typed
    PROVE  /\ \A u \in Uids : Moon!Listed(u) =>
                  liveOrders[u] \in OrderStates /\ liveOrders[u].status \in Nat
           /\ \A u \in Uids : orders[u] # None => orders[u].status \in Nat
           /\ \A w \in orderWork : w.uid \in Uids /\ w.order.status \in Nat
           /\ \A o \in OrderStates : o.status \in Nat
BY StoresAssumption
DEF Typed, WorkTyped, JournalTyped, Journal!OrderRow, OrderWork, Moon!Listed

\* The order of a call is the work of its uid.
LEMMA CallOrder ==
    ASSUME Typed, LoopInv, OrderStatement \/ FinishOrder
    PROVE  /\ orderCall.uid \in Uids
           /\ \E w \in orderWork : w.uid = orderCall.uid
           /\ \A w \in orderWork :
                  w.uid = orderCall.uid => w.order = orderCall.order
           /\ strategyWork = {} /\ strategyCall = Strategy!Idle
           /\ pc \in {"sync", "event"}
<1> DEFINE call == [uid |-> orderCall.uid, order |-> orderCall.order]
<1>1. orderCall # Journal!Idle
    BY StatementKeepsCall DEF FinishOrder, Journal!Return, Journal!Idle
<1>2. /\ call \in orderWork /\ strategyWork = {}
      /\ \A v, w \in orderWork : v.uid = w.uid => v = w
    BY <1>1 DEF LoopInv, OrderCallIsWork, WorkIsSingle
<1>3. call.uid = orderCall.uid /\ call.order = orderCall.order
    OBVIOUS
<1> HIDE DEF call
<1>4. \A w \in orderWork : w.uid = orderCall.uid => w = call
    BY <1>2, <1>3
<1>5. call.uid \in Uids
    BY <1>2, Statuses
<1>6. strategyCall = Strategy!Idle
    BY <1>1, OneCall
<1>7. pc \in {"sync", "event"}
    BY <1>1, NoWorkNoCalls
<1> QED BY <1>2, <1>3, <1>4, <1>5, <1>6, <1>7

LEMMA ForwardStep ==
    ASSUME OrdersGoForward, Typed, Typed', LoopInv, ForwardInv, [Next]_vars
    PROVE  ForwardInv'
<1>0. \A u \in Uids : Moon!Listed(u)' => liveOrders'[u].status \in Nat
    <2>1. liveOrders' \in [Uids -> OrderStates \cup {None, Gone}]
        BY DEF Typed, WorkTyped
    <2>2. \A u \in Uids : Moon!Listed(u)' => liveOrders'[u] \in OrderStates
        BY <2>1 DEF Moon!Listed
    <2> QED BY <2>2, StoresAssumption
<1>1. ASSUME NEW u \in Uids, Moon!Listed(u)'
      PROVE  \/ liveOrders[u] = None
             \/ Moon!Listed(u) /\ liveOrders[u].status <= liveOrders'[u].status
    <2>1. CASE RuntimeStep
        <3>1. \/ liveOrders'[u] = liveOrders[u]
              \/ liveOrders[u] = None
              \/ Moon!Listed(u) /\ liveOrders'[u] \in Progress[liveOrders[u]]
            BY <1>1, <2>1, ClientStep, SessionAssumption DEF Moon!Listed
        <3> QED BY <1>1, <3>1, Statuses DEF OrdersGoForward, Moon!Listed
    <2>2. CASE UNCHANGED liveOrders
        BY <1>1, <2>2, Statuses DEF Moon!Listed
    <2> QED BY <2>1, <2>2, Frame
<1>2. RowsAreBehind'
    <2> SUFFICES ASSUME NEW u \in Uids, orders'[u] # None
                 PROVE  /\ liveOrders'[u] # None
                        /\ Moon!Listed(u)' =>
                               orders'[u].status <= liveOrders'[u].status
        BY DEF RowsAreBehind
    <2>1. CASE orders[u] # None /\ orders'[u].status = orders[u].status
        <3>1. /\ liveOrders[u] # None
              /\ Moon!Listed(u) => orders[u].status <= liveOrders[u].status
            BY <2>1 DEF ForwardInv, RowsAreBehind
        <3>2. /\ Moon!Listed(u) => liveOrders[u].status \in Nat
              /\ Moon!Listed(u)' => liveOrders'[u].status \in Nat
              /\ orders[u].status \in Nat
            BY <1>0, <2>1, Statuses
        <3> QED BY <1>1, <2>1, <3>1, <3>2, KnownStays
    <2>2. CASE /\ OrderStatement /\ u = orderCall.uid
               /\ orders'[u].status = orderCall.order.status
        <3>1. UNCHANGED liveOrders
            BY <2>2 DEF OrderStatement, runtimeVars
        <3>2. PICK w \in orderWork : w.uid = u /\ w.order = orderCall.order
            BY <2>2, CallOrder
        <3> QED BY <2>2, <3>1, <3>2
                DEF ForwardInv, WorkIsBetween, LoopInv, WorkIsKnown, Moon!Listed
    <2> QED BY <2>1, <2>2, RowStep
<1>3. WorkIsBetween'
    <2> SUFFICES ASSUME NEW w \in orderWork'
                 PROVE  /\ Executed(w.order)
                        /\ Moon!Listed(w.uid)' =>
                               w.order.status <= liveOrders'[w.uid].status
                        /\ orders'[w.uid] # None =>
                               orders'[w.uid].status <= w.order.status
        BY DEF WorkIsBetween
    <2>1. CASE Fills
        <3>1. /\ w \in ExecutedInSnapshot /\ w.uid \in Uids
              /\ UNCHANGED <<orders, liveOrders>>
            BY <2>1, FillStep, SnapshotOfOrders DEF Fills, orderVars
        <3>2. /\ Moon!Listed(w.uid) /\ w.order = liveOrders[w.uid]
              /\ Executed(w.order)
            BY <3>1, SnapshotOfOrders
        <3>3. w.order.status \in Nat
            BY <3>1, <3>2, Statuses
        <3> QED BY <3>1, <3>2, <3>3 DEF ForwardInv, RowsAreBehind
    <2>2. CASE w \in orderWork
        <3>1. /\ Executed(w.order)
              /\ Moon!Listed(w.uid) =>
                     w.order.status <= liveOrders[w.uid].status
              /\ orders[w.uid] # None => orders[w.uid].status <= w.order.status
              /\ w.uid \in Uids /\ w.order.status \in Nat
              /\ liveOrders[w.uid] # None
            BY <2>2, Statuses
            DEF ForwardInv, WorkIsBetween, LoopInv, WorkIsKnown
        <3>2. Moon!Listed(w.uid)' => w.order.status <= liveOrders'[w.uid].status
            <4>1. /\ Moon!Listed(w.uid) => liveOrders[w.uid].status \in Nat
                  /\ Moon!Listed(w.uid)' => liveOrders'[w.uid].status \in Nat
                BY <1>0, <3>1, Statuses
            <4> QED BY <1>1, <3>1, <4>1
        <3>3. ASSUME orders'[w.uid] # None
              PROVE  orders'[w.uid].status <= w.order.status
            <4>1. CASE /\ orders[w.uid] # None
                       /\ orders'[w.uid].status = orders[w.uid].status
                BY <3>1, <4>1
            <4>2. CASE /\ OrderStatement /\ w.uid = orderCall.uid
                       /\ orders'[w.uid].status = orderCall.order.status
                <5>1. w.order = orderCall.order
                    BY <2>2, <4>2, CallOrder
                <5> QED BY <3>1, <4>2, <5>1
            <4> QED BY <3>1, <3>3, <4>1, <4>2, RowStep
        <3> QED BY <3>1, <3>2, <3>3
    <2> QED BY <2>1, <2>2, WorkShrinks
<1> QED BY <1>2, <1>3 DEF ForwardInv

\* The rows of the journal are behind the orders the loop at hand writes, and
\* these are behind the orders of the server. (initial_sync, handle_event)
THEOREM ForwardInvariant == ASSUME OrdersGoForward PROVE Spec => []ForwardInv
<1>1. Init => ForwardInv
    BY DEF Init, Journal!Init, ForwardInv, RowsAreBehind, WorkIsBetween
<1>2. Typed /\ Typed' /\ LoopInv /\ ForwardInv /\ [Next]_vars => ForwardInv'
    BY ForwardStep
<1> QED BY <1>1, <1>2, TypedInvariant, LoopInvariant, PTL DEF Spec

\* A row is first written past BuyDone and never goes back, although it is
\* written from snapshots that grow old, whatever fails, as long as the orders
\* of the server do not go back. (handle_event, Event::Order)
THEOREM JournalForward ==
    ASSUME OrdersGoForward PROVE Spec => JournalGoesForward
<1> DEFINE Forward ==
        \A u \in Uids :
            orders'[u] # orders[u] =>
                orders'[u].status >= IF orders[u] = None THEN BuyDone
                                     ELSE orders[u].status
<1>1. ASSUME Typed, Typed', LoopInv, ForwardInv, [Next]_vars PROVE Forward
    <2> SUFFICES ASSUME NEW u \in Uids, orders'[u] # orders[u]
                 PROVE  orders'[u].status >= IF orders[u] = None THEN BuyDone
                                             ELSE orders[u].status
        OBVIOUS
    <2>1. CASE /\ orders'[u] # None /\ orders[u] # None
               /\ orders'[u].status = orders[u].status
        BY <1>1, <2>1, Statuses
    <2>2. CASE /\ OrderStatement /\ u = orderCall.uid
               /\ orders'[u].status = orderCall.order.status
        <3>1. PICK w \in orderWork : w.uid = u /\ w.order = orderCall.order
            BY <1>1, <2>2, CallOrder
        <3>2. /\ w.order.status \in Nat
              /\ orders[u] # None => orders[u].status \in Nat
            BY <1>1, Statuses
        <3>3. /\ w.order.status >= BuyDone
              /\ orders[u] # None => orders[u].status <= w.order.status
            BY <1>1, <3>1 DEF ForwardInv, WorkIsBetween, Executed
        <3> QED BY <2>2, <3>1, <3>2, <3>3
    <2> QED BY <1>1, <2>1, <2>2, RowStep
<1>2. Typed /\ Typed' /\ LoopInv /\ ForwardInv /\ [Next]_vars => [Forward]_vars
    BY <1>1
<1> QED BY <1>2, TypedInvariant, LoopInvariant, ForwardInvariant, PTL
        DEF Spec, JournalGoesForward

-----------------------------------------------------------------------------
\* The link of a trade.

LEMMA GreatestIsLatest ==
    ASSUME NEW vs \in SUBSET Version, NEW v \in vs,
           \A w \in vs : w.date <= v.date,
           \A u, w \in vs : u.date = w.date => u = w
    PROVE  Latest(vs) = v
<1> DEFINE IsLatest(u) == \A w \in vs : w.date <= u.date
<1>1. IsLatest(v)
    OBVIOUS
<1>2. ASSUME NEW u \in vs, IsLatest(u) PROVE u = v
    <2>1. u.date \in Nat /\ v.date \in Nat
        BY DEF Version
    <2>2. u.date <= v.date /\ v.date <= u.date
        BY <1>2
    <2> QED BY <2>1, <2>2
<1> QED BY <1>1, <1>2 DEF Latest

LEMMA HeldVersionStep ==
    ASSUME Typed, TablesInv, LoopInv, HeldVersionIsLatest, [Next]_vars
    PROVE  HeldVersionIsLatest'
<1> USE DEF Typed
<1>1. CASE OrderStatement /\ Journal!LookupCurrentVersionId
    <2>1. orderCall \in Journal!OrderCall /\ orderCall.order \in OrderStates
        BY <1>1, OrderCallInProgress DEF Journal!LookupCurrentVersionId
    <2>2. PICK s \in Strategies \cup {None} : s = orderCall.order.strat_id
        BY <2>1, NamedStrategy
    <2> DEFINE vs == Journal!VersionsOf(s)
    <2>3. PICK found : found = Journal!CurrentVersionId(vs)
        OBVIOUS
    <2>4. \/ orderCall' = [orderCall EXCEPT !.pc = "write", !.version = found]
          \/ orderCall' = [orderCall EXCEPT !.pc = "err"]
        BY <1>1, <2>2, <2>3 DEF Journal!LookupCurrentVersionId
    <2>5. vs' = vs
        BY <1>1 DEF Journal!LookupCurrentVersionId, Journal!VersionsOf
    <2>6. /\ found = None => vs = {}
          /\ \A v \in vs : v.id = found => v = Latest(vs)
        BY <2>3, FoundVersion DEF TablesInv, Journal!IdsAreUnique
    <2>7. orderCall'.pc = "write" =>
              orderCall'.order.strat_id = s /\ orderCall'.version = found
        BY <2>1, <2>2, <2>4 DEF Journal!OrderCall
    <2> QED BY <2>5, <2>6, <2>7 DEF HeldVersionIsLatest, Journal!VersionsOf
<1>2. CASE orderCall'.pc # "write"
    BY <1>2 DEF HeldVersionIsLatest
<1>3. CASE UNCHANGED orderCall /\ orderCall.pc = "write"
    <2>1. /\ orderCall.order \in OrderStates /\ orderCall # Journal!Idle
          /\ strategyCall = Strategy!Idle
        BY <1>3, OrderCallInProgress, CallPhases, OneCall
    <2>2. PICK s \in Strategies \cup {None} : s = orderCall.order.strat_id
        BY <2>1, NamedStrategy
    <2> DEFINE vs == Journal!VersionsOf(s)
    <2>3. PICK left : left = vs'
        OBVIOUS
    <2>4. /\ orderCall.version = None => vs = {}
          /\ \A v \in vs : v.id = orderCall.version => v = Latest(vs)
        BY <1>3, <2>2 DEF HeldVersionIsLatest
    <2>5. left \subseteq vs
        <3>1. ~StrategyStatement
            BY <2>1, StatementKeepsCall
        <3>2. CASE PruneVersion
            <4>1. \A t \in Strategies : versions'[t] \subseteq versions[t]
                BY <3>2, AfterPrune
            <4> QED BY <2>3, <4>1 DEF Journal!VersionsOf
        <3>3. CASE UNCHANGED versions
            BY <2>3, <3>3 DEF Journal!VersionsOf
        <3> QED BY <3>1, <3>2, <3>3, Frame
    <2>6. ASSUME NEW v \in left, v.id = orderCall.version
          PROVE  v = Latest(left)
        <3>1. v \in vs /\ v = Latest(vs)
            BY <2>4, <2>5, <2>6
        <3>2. s \in Strategies /\ vs = versions[s]
            BY <3>1 DEF Journal!VersionsOf
        <3>3. \A w \in vs : w.date <= v.date
            BY <3>1, <3>2, LatestVersion
        <3>4. \A t, w \in vs : t.date = w.date => t = w
            BY <3>2 DEF TablesInv, Strategy!UniqueVersionDates
        <3>5. left \in SUBSET Version
            BY <2>5, OwnVersions
        <3> HIDE DEF vs
        <3> QED BY <2>5, <2>6, <3>3, <3>4, <3>5, GreatestIsLatest
    <2> QED BY <1>3, <2>2, <2>3, <2>4, <2>5, <2>6
            DEF HeldVersionIsLatest, Journal!VersionsOf
<1>4. CASE OrderStatement /\ (Journal!WriteRow \/ Journal!Fail)
    <2>1. orderCall \in Journal!OrderCall
        BY <1>4, OrderCallInProgress DEF Journal!WriteRow, Journal!Fail
    <2>2. orderCall'.pc # "write"
        BY <1>4, <2>1, AnsweredOrderCall
        DEF Journal!WriteRow, Journal!Fail, Journal!OrderCall
    <2> QED BY <1>2, <2>2
<1>5. CASE StartOrder \/ FinishOrder \/ Restart
    <2>1. orderCall'.pc # "write"
        BY <1>5 DEF StartOrder, FinishOrder, Restart, Journal!Upsert,
                    Journal!Return, Journal!Idle
    <2> QED BY <1>2, <2>1
<1> QED BY <1>1, <1>2, <1>3, <1>4, <1>5, Frame DEF OrderStatement

\* The version a call of orders::upsert is about to link its order to was the
\* latest of the report's strategy when it was read, and is so still unless it
\* was deleted: the loops write no version meanwhile. (storage::orders::upsert)
THEOREM HeldVersionInvariant == Spec => []HeldVersionIsLatest
<1>1. Init => HeldVersionIsLatest
    BY DEF Init, Journal!Init, Journal!Idle, HeldVersionIsLatest
<1>2. Typed /\ TablesInv /\ LoopInv /\ HeldVersionIsLatest /\ [Next]_vars
          => HeldVersionIsLatest'
    BY HeldVersionStep
<1> QED BY <1>1, <1>2, TypedInvariant, TablesInvariant, LoopInvariant, PTL
        DEF Spec

\* A trade is linked to the version that is the latest, when its row is
\* written, of the strategy it is reported with, under every failure.
\* (storage::orders::upsert)
THEOREM LinkedToLatest == Spec => LinkIsLatestWhenWritten
<1> DEFINE Written ==
        /\ orderCall.pc = "write" /\ orderCall'.pc = "ok"
        /\ Journal!VersionsOf(orderCall.order.strat_id) # {}
           Linked ==
        orders'[orderCall.uid].strategy_version_id
            = Latest(Journal!VersionsOf(orderCall.order.strat_id)).id
<1>1. ASSUME Typed, TablesInv, LoopInv, HeldVersionIsLatest, [Next]_vars,
             Written
      PROVE  Linked
    <2> DEFINE u == orderCall.uid
    <2> USE <1>1 DEF Typed
    <2>1. /\ u \in Uids /\ orderCall.order \in OrderStates
          /\ orderCall.version \in VersionId \cup {None}
          /\ orderCall \in Journal!OrderCall
        BY OrderCallInProgress
    <2>2. Journal!WriteRow
        <3>1. ~(StartOrder \/ FinishOrder \/ Restart \/ UNCHANGED orderCall)
            BY DEF StartOrder, FinishOrder, Restart, Journal!Upsert,
                   Journal!Return, Journal!Idle
        <3>2. OrderStatement
            BY <3>1, Frame
        <3>3. ~Journal!LookupCurrentVersionId
            BY DEF Journal!LookupCurrentVersionId
        <3>4. ~Journal!Fail
            BY <2>1 DEF Journal!Fail, Journal!OrderCall
        <3> QED BY <3>2, <3>3, <3>4 DEF OrderStatement
    <2>3. PICK vs : vs = Journal!VersionsOf(orderCall.order.strat_id)
        OBVIOUS
    <2>4. orderCall.version # None
        BY <2>3 DEF HeldVersionIsLatest
    <2>5. PICK v \in vs : v.id = orderCall.version
        BY <2>2, <2>3, <2>4
        DEF Journal!WriteRow, Journal!References, TablesInv,
            Journal!CallVersionIsOwn, Journal!VersionsOf
    <2>6. orderCall.version = Latest(vs).id
        BY <2>3, <2>5 DEF HeldVersionIsLatest
    <2>7. orders'[u].strategy_version_id = orderCall.version
        BY <2>2, <2>4, RowWritten
    <2> QED BY <2>3, <2>6, <2>7
<1>2. Typed /\ TablesInv /\ LoopInv /\ HeldVersionIsLatest /\ [Next]_vars
          => [Written => Linked]_vars
    BY <1>1
<1> QED BY <1>2, TypedInvariant, TablesInvariant, LoopInvariant,
           HeldVersionInvariant, PTL
        DEF Spec, LinkIsLatestWhenWritten

-----------------------------------------------------------------------------
\* The events on their way, and the table parameters.

\* The handler takes the first event; the others stay on their way.
LEMMA HandledEvent ==
    ASSUME Typed, NEW kind, Handle(kind)
    PROVE  /\ Head(queue).kind = kind
           /\ \A i \in DOMAIN queue :
                  \/ queue[i] = Head(queue)
                  \/ \E j \in DOMAIN queue' : queue'[j] = queue[i]
<1>1. queue \in Seq(Moon!Event) /\ queue # <<>> /\ queue' = Tail(queue)
    BY DEF Handle, Moon!Receive, Typed, RuntimeTyped
<1>2. /\ Len(queue) \in Nat /\ Len(queue) > 0
      /\ DOMAIN queue = 1 .. Len(queue)
      /\ DOMAIN queue' = 1 .. Len(queue) - 1
      /\ \A j \in 1 .. Len(queue) - 1 : queue'[j] = queue[j + 1]
    BY <1>1
<1>3. ASSUME NEW i \in DOMAIN queue, i # 1
      PROVE  \E j \in DOMAIN queue' : queue'[j] = queue[i]
    <2>1. i - 1 \in 1 .. Len(queue) - 1 /\ (i - 1) + 1 = i
        BY <1>2, <1>3
    <2>2. queue'[i - 1] = queue[i]
        BY <1>2, <2>1
    <2> QED BY <1>2, <2>1, <2>2
<1>4. Head(queue) = queue[1]
    BY <1>1
<1> QED BY <1>3, <1>4 DEF Handle

\* Who else changes the channel, and when a client comes up.
LEMMA ChannelStep ==
    ASSUME [Next]_vars
    PROVE  \/ Connect \/ Restart \/ RuntimeStep
           \/ /\ UNCHANGED <<liveStrategies, liveOrders, liveSchema, alive>>
              /\ \/ \E kind : Handle(kind)
                 \/ UNCHANGED queue
<1>1. CASE OnSchemaApplied \/ OnStrategies \/ OnOrderUpdated
               \/ OnOrdersSnapshot \/ OnIgnored
    <2>1. PICK kind : Handle(kind)
        BY <1>1 DEF OnSchemaApplied, OnStrategies, OnOrderUpdated,
                    OnOrdersSnapshot, OnIgnored
    <2> QED BY <2>1 DEF Handle, Moon!Receive
<1>2. CASE UNCHANGED runtimeVars
    BY <1>2 DEF runtimeVars
<1> QED BY <1>1, <1>2
        DEF Next, Thread, InitialSync, StartStrategy, StrategyStatement,
            FinishStrategy, StartOrder, OrderStatement, FinishOrder, Done,
            OnDisconnected, PruneVersion, OtherSession, ClockStepsBack, vars

LEMMA AliveStep ==
    ASSUME Typed, AliveInSession, [Next]_vars
    PROVE  /\ AliveInSession'
           /\ alive' => alive \/ (Connect /\ pc' = "init")
<1>1. CASE Connect \/ Restart
    BY <1>1 DEF Connect, Restart, Moon!Connect, Moon!Kill, AliveInSession,
                runtimeVars
<1>2. CASE ~Connect /\ ~Restart
    <2>1. alive' => alive
        BY <1>2, ChannelStep, ClientStep
    <2>2. pc' = pc \/ pc' \in {"sync", "loop", "event"}
              \/ (OnDisconnected /\ ~alive)
        <3>1. CASE RuntimeStep \/ PruneVersion \/ OtherSession
                       \/ ClockStepsBack \/ UNCHANGED vars
                       \/ StartStrategy \/ StrategyStatement
                       \/ StartOrder \/ OrderStatement
            BY <3>1 DEF RuntimeStep, PruneVersion, OtherSession,
                        ClockStepsBack, vars, controlVars, StartStrategy,
                        StrategyStatement, StartOrder, OrderStatement
        <3>2. CASE InitialSync \/ FinishStrategy \/ FinishOrder \/ Done
                       \/ OnDisconnected
            BY <3>2 DEF InitialSync, FinishStrategy, FinishOrder, Done,
                OnDisconnected
        <3>3. CASE OnSchemaApplied \/ OnStrategies \/ OnOrderUpdated
                       \/ OnOrdersSnapshot \/ OnIgnored
            BY <3>3 DEF OnSchemaApplied, OnStrategies, OnOrderUpdated,
                OnOrdersSnapshot, OnIgnored, NoSnapshot
        <3> QED BY <1>2, <3>1, <3>2, <3>3 DEF Next, Thread
    <2> QED BY <2>1, <2>2 DEF AliveInSession
<1> QED BY <1>1, <1>2

\* The keys of a strategy, an order and the schema differ.
LEMMA KeysDiffer ==
    ASSUME NEW v, NEW w
    PROVE  /\ KeyOfStrategy(v) # <<"schema">> /\ KeyOfOrder(w) # <<"schema">>
           /\ KeyOfStrategy(v) # KeyOfOrder(w)
           /\ KeyOfStrategy(v) = KeyOfStrategy(w) => v.strategy = w.strategy
           /\ KeyOfOrder(v) = KeyOfOrder(w) => v.uid = w.uid
BY DEF KeyOfStrategy, KeyOfOrder

\* What was given up stays so until its upsert is tried again.
LEMMA MissedStays ==
    ASSUME Typed, [Next]_vars, ~Restart, NEW key, key \in missed
    PROVE  \/ key \in missed'
           \/ OnSchemaApplied /\ key = <<"schema">>
           \/ FinishStrategy /\ \E w \in strategyWork :
                  w.strategy = strategyCall.strategy /\ key = KeyOfStrategy(w)
           \/ FinishOrder /\ \E w \in orderWork :
                  w.uid = orderCall.uid /\ key = KeyOfOrder(w)
<1>1. CASE FinishStrategy
    <2>1. PICK lost :
              missed' = (missed \ {KeyOfStrategy(w) : w \in
                  {v \in strategyWork : v.strategy = strategyCall.strategy}})
                            \cup {KeyOfStrategy(w) : w \in lost}
        BY <1>1 DEF FinishStrategy
    <2> QED BY <1>1, <2>1
<1>2. CASE FinishOrder
    <2>1. PICK lost :
              missed' = (missed \ {KeyOfOrder(w) : w \in
                  {v \in orderWork : v.uid = orderCall.uid}})
                            \cup {KeyOfOrder(w) : w \in lost}
        BY <1>2 DEF FinishOrder
    <2> QED BY <1>2, <2>1
<1>3. CASE InitialSync
    BY <1>3 DEF InitialSync, Typed, ControlTyped
<1>4. CASE missed \subseteq missed'
    BY <1>4
<1>5. CASE OnSchemaApplied \/ OnStrategies \/ OnOrderUpdated
               \/ OnOrdersSnapshot \/ OnIgnored
    BY <1>5 DEF OnSchemaApplied, OnStrategies, OnOrderUpdated,
                OnOrdersSnapshot, OnIgnored, NoSnapshot
<1> QED BY <1>1, <1>2, <1>3, <1>4, <1>5
        DEF Next, Thread, Connect, StartStrategy, StrategyStatement,
            StartOrder, OrderStatement, Done, OnDisconnected, RuntimeStep,
            PruneVersion, OtherSession, ClockStepsBack, vars, controlVars

LEMMA SchemaStep ==
    ASSUME Typed, SchemaInv, [Next]_vars
    PROVE  SchemaInv'
<1>1. AliveInSession' /\ (alive' => alive \/ (Connect /\ pc' = "init"))
    BY AliveStep DEF SchemaInv
<1>2. CASE Connect
    BY <1>1, <1>2
    DEF Connect, Moon!Connect, SchemaInv, AliveInSession, runtimeVars
<1>3. CASE Restart
    BY <1>1, <1>3 DEF Restart, Moon!Kill, SchemaInv
<1>4. CASE OnSchemaApplied
    <2>1. \/ parameters' = liveSchema \/ liveSchema = None
          \/ <<"schema">> \in missed'
        BY <1>4 DEF OnSchemaApplied, NoSnapshot
    <2>2. UNCHANGED liveSchema
        BY <1>4 DEF OnSchemaApplied, Handle, Moon!Receive
    <2> QED BY <1>1, <2>1, <2>2 DEF SchemaInv
<1>5. CASE OtherSession
    BY <1>1, <1>5 DEF OtherSession, SchemaInv
<1>6. CASE ~Connect /\ ~Restart /\ ~OnSchemaApplied /\ ~OtherSession
    <2> SUFFICES ASSUME alive', liveSchema' # None, <<"schema">> \notin missed'
                 PROVE  \/ parameters' \in {liveSchema', OtherSchema}
                        \/ SchemaPending'
        BY <1>1 DEF SchemaInv
    <2>1. alive /\ <<"schema">> \notin missed
        BY <1>1, <1>6, MissedStays, KeysDiffer
    <2>2. parameters' = parameters
        BY <1>6
        DEF Next, Thread, InitialSync, StartStrategy, StrategyStatement,
            FinishStrategy, StartOrder, OrderStatement, FinishOrder, Done,
            OnStrategies, OnOrderUpdated, OnOrdersSnapshot, NoSnapshot,
            OnIgnored, OnDisconnected, RuntimeStep, PruneVersion,
            ClockStepsBack, vars, controlVars
    <2>3. CASE RuntimeStep
        <3>1. SchemaPending => SchemaPending'
            BY <2>3, ClientStep DEF SchemaPending
        <3> QED BY <2>1, <2>2, <2>3, <3>1, ClientStep DEF SchemaInv
    <2>4. CASE OnStrategies \/ OnOrderUpdated \/ OnOrdersSnapshot \/ OnIgnored
        <3>1. PICK kind : Handle(kind) /\ kind # "schema"
            BY <2>4 DEF OnStrategies, OnOrderUpdated, OnOrdersSnapshot,
                        OnIgnored
        <3>2. UNCHANGED liveSchema
            BY <3>1 DEF Handle, Moon!Receive
        <3>3. SchemaPending => SchemaPending'
            BY <3>1, HandledEvent DEF SchemaPending
        <3> QED BY <2>1, <2>2, <3>2, <3>3 DEF SchemaInv
    <2>5. CASE UNCHANGED runtimeVars
        BY <2>1, <2>2, <2>5 DEF SchemaInv, SchemaPending, runtimeVars
    <2> QED BY <1>6, <2>3, <2>4, <2>5
            DEF Next, Thread, InitialSync, StartStrategy, StrategyStatement,
                FinishStrategy, StartOrder, OrderStatement, FinishOrder, Done,
                OnDisconnected, PruneVersion, ClockStepsBack, vars
<1> QED BY <1>2, <1>3, <1>4, <1>5, <1>6

\* A schema that was announced to the session was the last one put into the
\* table, but for what other sessions put there, or its event is on its way, or
\* its upsert was given up. (handle_event, StrategySchemaUpdated)
THEOREM SchemaInvariant == Spec => []SchemaInv
<1>1. Init => SchemaInv
    BY DEF Init, Moon!Init, SchemaInv, AliveInSession
<1>2. Typed /\ SchemaInv /\ [Next]_vars => SchemaInv'
    BY SchemaStep
<1> QED BY <1>1, <1>2, TypedInvariant, PTL DEF Spec

\* When no event is on its way the table parameters was filled from the schema
\* the client has, or since then by another session, unless that was given up.
\* (handle_event, upsert_schema)
THEOREM SchemaFollowed == Spec => []ParametersFollowSchema
<1>1. SchemaInv => ParametersFollowSchema
    BY DEF SchemaInv, SchemaPending, ParametersFollowSchema, Quiescent
<1> QED BY <1>1, SchemaInvariant, PTL

-----------------------------------------------------------------------------
\* The journal follows the server.

\* An event stays on its way until it is handled.
LEMMA OrderStaysPending ==
    ASSUME Typed, [Next]_vars, ~Connect, ~Restart, NEW u \in Uids,
           OrderPending(u)
    PROVE  \/ OrderPending(u)'
           \/ OnOrdersSnapshot
           \/ OnOrderUpdated /\ Head(queue).uid = u
           \/ ~Enabled("listener_orders") /\ OnIgnored
<1>1. CASE RuntimeStep
    BY <1>1, ClientStep DEF OrderPending
<1>2. ASSUME NEW kind, Handle(kind)
      PROVE  \/ OrderPending(u)'
             \/ kind = "orders"
             \/ kind = "updated" /\ Head(queue).uid = u
    BY <1>2, HandledEvent DEF OrderPending
<1>3. CASE OnSchemaApplied \/ OnStrategies
    BY <1>2, <1>3 DEF OnSchemaApplied, OnStrategies
<1>4. CASE OnOrderUpdated \/ OnIgnored
    BY <1>2, <1>4 DEF OnOrderUpdated, OnIgnored
<1>5. CASE UNCHANGED queue
    BY <1>5 DEF OrderPending
<1> QED BY <1>1, <1>3, <1>4, <1>5
        DEF Next, Thread, InitialSync, StartStrategy, StrategyStatement,
            FinishStrategy, StartOrder, OrderStatement, FinishOrder, Done,
            OnDisconnected, PruneVersion, OtherSession, ClockStepsBack, vars,
            runtimeVars

\* Read with the client's present state, or an event is on its way.
LEMMA OrderWorkStep ==
    ASSUME Typed, LoopInv, JournalInv, [Next]_vars
    PROVE  OrderWorkIsLive'
<1> SUFFICES ASSUME alive', NEW w \in orderWork', Moon!Listed(w.uid)'
             PROVE  liveOrders'[w.uid] = w.order \/ OrderPending(w.uid)'
    BY DEF OrderWorkIsLive
<1>1. CASE Fills
    BY <1>1, FillStep, SnapshotOfOrders DEF Fills
<1>2. CASE ~Fills
    <2>1. w \in orderWork /\ w.uid \in Uids /\ liveOrders[w.uid] # None
        BY <1>2, WorkShrinks, Statuses DEF LoopInv, WorkIsKnown
    <2>2. pc \in {"sync", "event"} /\ ~Restart
        BY <2>1, NoWorkNoCalls DEF Restart
    <2>3. ~Connect /\ alive
        BY <2>2, AliveStep DEF Connect, JournalInv
    <2>4. CASE RuntimeStep
        <3>1. OrderPending(w.uid) => OrderPending(w.uid)'
            BY <2>4, ClientStep DEF OrderPending
        <3>2. Moon!Listed(w.uid)
            BY <2>1, <2>4, ClientStep DEF Moon!Listed
        <3> QED BY <2>1, <2>3, <2>4, <3>1, <3>2, ClientStep
                DEF JournalInv, OrderWorkIsLive, Moon!Listed
    <2>5. CASE ~RuntimeStep
        <3>1. OrderPending(w.uid) => OrderPending(w.uid)'
            BY <1>2, <2>1, <2>2, <2>3, OrderStaysPending
            DEF Fills, OnIgnored, Handle
        <3>2. UNCHANGED liveOrders
            BY <2>5, Frame
        <3> QED BY <2>1, <2>3, <3>1, <3>2
                DEF JournalInv, OrderWorkIsLive, Moon!Listed
    <2> QED BY <2>4, <2>5
<1> QED BY <1>1, <1>2

LEMMA OrderWrittenStep ==
    ASSUME Typed, JournalInv, [Next]_vars
    PROVE  OrderWritten'
<1>1. CASE OrderStatement
    <2>1. CASE Journal!WriteRow
        BY <1>1, <2>1, RowWritten, StatementKeepsCall DEF OrderWritten
    <2>2. CASE Journal!LookupCurrentVersionId \/ Journal!Fail
        <3>1. orderCall \in Journal!OrderCall
            BY <2>2, OrderCallInProgress
            DEF Typed, Journal!LookupCurrentVersionId, Journal!Fail
        <3>2. PICK found :
                  \/ orderCall' = [orderCall EXCEPT !.pc = "write",
                                                    !.version = found]
                  \/ orderCall' = [orderCall EXCEPT !.pc = "err"]
            BY <2>2 DEF Journal!LookupCurrentVersionId, Journal!Fail
        <3>3. orderCall'.pc # "ok"
            BY <3>1, <3>2 DEF Journal!OrderCall
        <3> QED BY <3>3 DEF OrderWritten
    <2> QED BY <1>1, <2>1, <2>2 DEF OrderStatement
<1>2. CASE StartOrder \/ FinishOrder \/ Restart
    BY <1>2 DEF StartOrder, FinishOrder, Restart, Journal!Upsert,
                Journal!Return, Journal!Idle, OrderWritten
<1>3. CASE UNCHANGED orderCall /\ ~OrderStatement
    <2> SUFFICES ASSUME orderCall.pc = "ok"
                 PROVE  /\ orders'[orderCall.uid] # None
                        /\ orders'[orderCall.uid].status
                               = orderCall.order.status
        BY <1>3 DEF OrderWritten
    <2>1. orderCall.uid \in Uids
        BY OrderCallInProgress DEF Typed
    <2> QED BY <1>3, <2>1, RowStep DEF JournalInv, OrderWritten
<1> QED BY <1>1, <1>2, <1>3, Frame

\* What OrdersAccounted says of the order u.
OrderDue(u) ==
    Moon!Listed(u) /\ Executed(liveOrders[u]) /\ <<"order", u>> \notin missed

OrderWorked(u) == \E w \in orderWork : w.uid = u

OrderKept(u) == orders[u] # None /\ orders[u].status = liveOrders[u].status

LEMMA OrderRowKept ==
    ASSUME Typed, LoopInv, [Next]_vars, NEW u \in Uids, OrderKept(u),
           liveOrders'[u] = liveOrders[u]
    PROVE  OrderKept(u)' \/ (OrderStatement /\ OrderWorked(u))
BY RowStep, CallOrder DEF OrderKept, OrderWorked

LEMMA FinishOrderStep ==
    ASSUME Typed, LoopInv, JournalInv, FinishOrder, alive, NEW u \in Uids,
           OrderDue(u)', OrderWorked(u)
    PROVE  OrderPending(u)' \/ OrderWorked(u)' \/ OrderKept(u)'
<1>1. PICK w \in orderWork : w.uid = u
    BY DEF OrderWorked
<1>2. /\ UNCHANGED <<orders, liveOrders, queue>>
      /\ orderCall.pc \in {"ok", "err"}
    BY DEF FinishOrder, Journal!Return, runtimeVars
<1> DEFINE done == {v \in orderWork : v.uid = orderCall.uid}
           lost == IF orderCall.pc = "ok" THEN {}
                   ELSE IF pc = "sync" THEN done ELSE orderWork
<1>3. /\ orderWork' = orderWork \ (done \cup lost)
      /\ missed' = (missed \ {KeyOfOrder(v) : v \in done})
                       \cup {KeyOfOrder(v) : v \in lost}
    BY DEF FinishOrder
<1>4. w \notin lost
    <2>1. KeyOfOrder(w) \notin missed'
        BY <1>1 DEF OrderDue, KeyOfOrder
    <2> QED BY <1>3, <2>1
<1>5. CASE w \in done
    <2>1. orderCall.pc = "ok"
        BY <1>4, <1>5
    <2>2. w.order = orderCall.order /\ u = orderCall.uid
        BY <1>1, <1>5, CallOrder
    <2>3. orders[u] # None /\ orders[u].status = w.order.status
        BY <2>1, <2>2 DEF JournalInv, OrderWritten
    <2>4. liveOrders[u] = w.order \/ OrderPending(u)
        BY <1>1, <1>2 DEF JournalInv, OrderWorkIsLive, OrderDue, Moon!Listed
    <2> QED BY <1>2, <2>3, <2>4 DEF OrderKept, OrderPending
<1>6. CASE w \notin done
    BY <1>1, <1>3, <1>4, <1>6 DEF OrderWorked
<1> QED BY <1>5, <1>6

\* A session begins with initial_sync, and a loop is worked off to its end.
LEMMA SessionBegins ==
    ASSUME [Next]_vars, ~InitialSync, ~Restart, pc = "init"
    PROVE  pc' = "init"
<1>1. ~Connect /\ ~Done /\ ~OnDisconnected
    BY DEF Connect, Done, OnDisconnected
<1>2. ~(OnSchemaApplied \/ OnStrategies \/ OnOrderUpdated \/ OnOrdersSnapshot
            \/ OnIgnored)
    BY DEF OnSchemaApplied, OnStrategies, OnOrderUpdated, OnOrdersSnapshot,
           OnIgnored, Handle
<1> QED BY <1>1, <1>2
        DEF Next, Thread, StartStrategy, StrategyStatement, FinishStrategy,
            StartOrder, OrderStatement, FinishOrder, RuntimeStep,
            PruneVersion, OtherSession, ClockStepsBack, vars, controlVars

LEMMA WorkStays ==
    ASSUME Typed, LoopInv, [Next]_vars, ~Restart
    PROVE  /\ strategyWork # {} /\ ~FinishStrategy =>
                  strategyWork' = strategyWork
           /\ orderWork # {} /\ ~FinishOrder => orderWork' = orderWork
<1>1. CASE Fills
    BY <1>1, FillStep, NoWorkNoCalls DEF Fills
<1>2. CASE FinishStrategy \/ FinishOrder
    BY <1>2, OneCall
    DEF FinishStrategy, FinishOrder, Strategy!Return, Strategy!Idle,
        Journal!Return, Journal!Idle
<1>3. CASE Connect \/ Done \/ OnSchemaApplied \/ OnIgnored \/ OnDisconnected
               \/ RuntimeStep \/ PruneVersion \/ OtherSession \/ ClockStepsBack
               \/ UNCHANGED vars
    BY <1>3, LoopsIdle
<1>4. CASE StartStrategy \/ StrategyStatement \/ StartOrder \/ OrderStatement
    BY <1>4 DEF StartStrategy, StrategyStatement, StartOrder, OrderStatement,
                controlVars
<1> QED BY <1>1, <1>2, <1>3, <1>4 DEF Fills, Next, Thread

LEMMA NoneAppearsExecuted ==
    ASSUME OrdersAppearOpen, NEW o \in Created PROVE ~Executed(o)
<1>1. o.status \in Nat /\ o.status < BuyDone
    BY SessionAssumption, StoresAssumption DEF OrdersAppearOpen
<1> QED BY <1>1 DEF Executed, BuyDone

LEMMA AccountedStep ==
    ASSUME OrdersAppearOpen, Typed, LoopInv, JournalInv, [Next]_vars
    PROVE  OrdersAccounted'
<1> SUFFICES ASSUME InSession', Enabled("listener_orders")', NEW u \in Uids,
                    OrderDue(u)'
             PROVE  OrderPending(u)' \/ OrderWorked(u)' \/ OrderKept(u)'
    BY DEF OrdersAccounted, OrderDue, OrderWorked, OrderKept
<1>1. ~Connect /\ ~Restart /\ alive
    <2>1. ~Connect /\ ~Restart
        BY AliveStep DEF JournalInv, Connect, Restart, Moon!Kill, InSession,
                         AliveInSession
    <2> QED BY <2>1, AliveStep DEF InSession, JournalInv
<1>2. Enabled("listener_orders")
    BY <1>1, Frame DEF Enabled
<1>3. CASE InitialSync
    <2>1. UNCHANGED liveOrders
        BY <1>3 DEF InitialSync, runtimeVars
    <2>2. orderWork' = ExecutedInSnapshot \/ missed' = Keys
        BY <1>2, <1>3 DEF InitialSync
    <2>3. <<"order", u>> \in Keys
        BY DEF Keys
    <2> QED BY <2>1, <2>2, <2>3, SnapshotOfOrders
            DEF OrderDue, OrderWorked, Moon!Listed
<1>4. CASE OnOrdersSnapshot
    <2>1. UNCHANGED liveOrders
        BY <1>4 DEF OnOrdersSnapshot, Handle, Moon!Receive
    <2>2. orderWork' = ExecutedInSnapshot \/ <<"order", u>> \in missed'
        BY <1>4 DEF OnOrdersSnapshot, NoSnapshot
    <2> QED BY <2>1, <2>2, SnapshotOfOrders
            DEF OrderDue, OrderWorked, Moon!Listed
<1>5. CASE OnOrderUpdated /\ Head(queue).uid = u
    <2>1. UNCHANGED liveOrders
        BY <1>5 DEF OnOrderUpdated, Handle, Moon!Receive
    <2>2. \/ orderWork' = {w \in ExecutedInSnapshot : w.uid = u}
          \/ <<"order", u>> \in missed'
        BY <1>5 DEF OnOrderUpdated, NoSnapshot
    <2> QED BY <2>1, <2>2, SnapshotOfOrders
            DEF OrderDue, OrderWorked, Moon!Listed
<1>6. CASE /\ ~InitialSync /\ ~OnOrdersSnapshot
           /\ ~(OnOrderUpdated /\ Head(queue).uid = u)
    <2>1. OrderPending(u) => OrderPending(u)'
        BY <1>1, <1>2, <1>6, OrderStaysPending
    <2>2. CASE liveOrders'[u] # liveOrders[u]
        <3>1. RuntimeStep
            BY <2>2, Frame
        <3> QED BY <1>1, <2>2, <3>1, ClientStep, NoneAppearsExecuted
                DEF OrderDue, Moon!Listed
    <2>3. CASE liveOrders'[u] = liveOrders[u]
        <3>1. CASE FinishOrder /\ OrderWorked(u)
            BY <1>1, <3>1, FinishOrderStep
        <3>2. CASE ~(FinishOrder /\ OrderWorked(u))
            <4>1. <<"order", u>> \notin missed
                <5>1. ASSUME NEW w, <<"order", u>> = KeyOfOrder(w)
                      PROVE  w.uid = u
                    BY <5>1 DEF KeyOfOrder
                <5>2. \A w : <<"order", u>> # KeyOfStrategy(w)
                    BY DEF KeyOfStrategy
                <5>3. <<"order", u>> # <<"schema">>
                    OBVIOUS
                <5> QED BY <1>1, <3>2, <5>1, <5>2, <5>3, MissedStays
                        DEF OrderDue, OrderWorked
            <4>2. InSession
                BY <1>1, <1>6, SessionBegins
                DEF InSession, JournalInv, AliveInSession
            <4>3. OrderPending(u) \/ OrderWorked(u) \/ OrderKept(u)
                BY <1>2, <2>3, <4>1, <4>2
                DEF JournalInv, OrdersAccounted, OrderDue, OrderWorked,
                    OrderKept, Moon!Listed
            <4>4. OrderWorked(u) => OrderWorked(u)'
                BY <1>1, <3>2, WorkStays DEF OrderWorked
            <4> QED BY <2>1, <2>3, <4>3, <4>4, OrderRowKept
        <3> QED BY <3>1, <3>2
    <2> QED BY <2>2, <2>3
<1> QED BY <1>3, <1>4, <1>5, <1>6

\* An executed order the client lists is in the journal in the state it has,
\* or it waits in the loop at hand, or its event is on its way, or it was given
\* up, whatever fails. (initial_sync, Event::Order in handle_event)
THEOREM JournalInvariant == ASSUME OrdersAppearOpen PROVE Spec => []JournalInv
<1>1. Init => JournalInv
    BY DEF Init, Moon!Init, Journal!Init, Journal!Idle, JournalInv,
           AliveInSession, OrderWorkIsLive, OrderWritten, OrdersAccounted,
           InSession
<1>2. Typed /\ LoopInv /\ JournalInv /\ [Next]_vars => JournalInv'
    <2> SUFFICES ASSUME Typed, LoopInv, JournalInv, [Next]_vars
                 PROVE  JournalInv'
        OBVIOUS
    <2>1. AliveInSession'
        BY AliveStep DEF JournalInv
    <2>2. OrderWorkIsLive' /\ OrderWritten' /\ OrdersAccounted'
        BY OrderWorkStep, OrderWrittenStep, AccountedStep
    <2> QED BY <2>1, <2>2 DEF JournalInv
<1> QED BY <1>1, <1>2, TypedInvariant, LoopInvariant, PTL DEF Spec

\* When no event is on its way the journal has every executed order the client
\* lists in the state it has, except those that were given up: events carry no
\* state, and yet none is lost between two loops. (initial_sync, handle_event)
THEOREM JournalFollowed ==
    ASSUME OrdersAppearOpen PROVE Spec => []JournalFollowsServer
<1>1. LoopInv /\ JournalInv => JournalFollowsServer
    <2> SUFFICES ASSUME LoopInv, JournalInv, Quiescent,
                        Enabled("listener_orders"), NEW u \in Uids, OrderDue(u)
                 PROVE  OrderKept(u)
        BY DEF JournalFollowsServer, OrderDue, OrderKept
    <2>1. ~OrderPending(u) /\ ~OrderWorked(u) /\ InSession
        BY NoWorkNoCalls DEF Quiescent, OrderPending, OrderWorked, InSession
    <2> QED BY <2>1 DEF JournalInv, OrdersAccounted, OrderDue, OrderKept,
                        OrderWorked
<1> QED BY <1>1, LoopInvariant, JournalInvariant, PTL

-----------------------------------------------------------------------------
\* The strategies follow the server: first the rows, under every failure, then
\* the versions, as long as none is deleted and the clock is not set back.

\* The call is for an edit of its strategy.
LEMMA CallIsOfEdit ==
    ASSUME Typed, LoopInv, strategyCall # Strategy!Idle
    PROVE  /\ strategyCall \in Strategy!StrategyCall
           /\ strategyCall.strategy \in Strategies
           /\ strategyCall.snap \in Edited
           /\ \E w \in strategyWork :
                  /\ w.strategy = strategyCall.strategy
                  /\ w.snap = strategyCall.snap
                  /\ w.live_checked = strategyCall.live_checked
<1> DEFINE call == [strategy |-> strategyCall.strategy,
                    snap |-> strategyCall.snap,
                    live_checked |-> strategyCall.live_checked]
<1>1. strategyCall \in Strategy!StrategyCall
    BY DEF Typed, VersionsDriven
<1>2. call \in strategyWork
    BY DEF LoopInv, StrategyCallIsWork
<1>3. /\ call.strategy = strategyCall.strategy /\ call.snap = strategyCall.snap
      /\ call.live_checked = strategyCall.live_checked
    OBVIOUS
<1> HIDE DEF call
<1>4. call.strategy \in Strategies /\ call.snap \in Edited
    BY <1>2 DEF Typed, WorkTyped, StrategyWork
<1> QED BY <1>1, <1>2, <1>3, <1>4

LEMMA StrategyWorkStep ==
    ASSUME Typed, LoopInv, StrategyRowsInv, [Next]_vars
    PROVE  StrategyWorkIsLive'
<1> SUFFICES ASSUME alive', NEW w \in strategyWork'
             PROVE  w = LiveWork(w.strategy)' \/ StrategiesPending'
    BY DEF StrategyWorkIsLive
<1>1. CASE Fills
    BY <1>1, FillStep, SnapshotOfStrategies DEF Fills, LiveWork
<1>2. CASE ~Fills
    <2>1. w \in strategyWork
        BY <1>2, WorkShrinks
    <2>2. pc \in {"sync", "event"} /\ ~Restart
        BY <2>1, NoWorkNoCalls DEF Restart
    <2>3. ~Connect /\ alive
        BY <2>2, AliveStep DEF Connect, StrategyRowsInv
    <2>4. w = LiveWork(w.strategy) \/ StrategiesPending
        BY <2>1, <2>3 DEF StrategyRowsInv, StrategyWorkIsLive
    <2>5. CASE RuntimeStep
        BY <2>3, <2>4, <2>5, ClientStep DEF LiveWork, StrategiesPending
    <2>6. CASE ~RuntimeStep
        <3>1. UNCHANGED liveStrategies
            BY <2>6, Frame
        <3>2. UNCHANGED queue
            BY <2>2, <2>3, <2>6, ChannelStep DEF Handle
        <3> QED BY <2>4, <3>1, <3>2 DEF LiveWork, StrategiesPending
    <2> QED BY <2>5, <2>6
<1> QED BY <1>1, <1>2

\* What an upsert that returns Ok has written: first the row, then a version,
\* unless the latest one has the date.
LEMMA UpsertRowStep ==
    ASSUME Typed, Strategy!UpsertRow
    PROVE  /\ strategyCall' \in Strategy!StrategyCall
           /\ strategyCall'.pc # "ok"
           /\ RowIsOf(strategyCall.strategy, strategyCall)'
<1>1. /\ strategyCall \in Strategy!StrategyCall
      /\ strategyCall.strategy \in Strategies
    BY CallInProgress DEF Typed, Strategy!UpsertRow, Strategy!StrategyCall
<1>2. /\ strategyCall' \in Strategy!StrategyCall
      /\ strategyCall'.pc \in {"prev", "err"}
      /\ strategyCall'.strategy = strategyCall.strategy
      /\ strategyCall'.snap = strategyCall.snap
      /\ strategyCall'.live_checked = strategyCall.live_checked
    BY <1>1, AnsweredCall DEF Strategy!UpsertRow
<1> DEFINE new == Strategy!UpsertedRow(strategies[strategyCall.strategy],
                      strategyCall.snap, strategyCall.live_checked)
<1>3. strategies' = [strategies EXCEPT ![strategyCall.strategy] = new]
    BY DEF Strategy!UpsertRow
<1>4. /\ new.checked = strategyCall.live_checked
      /\ new.is_active => strategyCall.snap.runs
    BY <1>1 DEF Strategy!UpsertedRow, Strategy!StrategyCall
<1>5. strategies'[strategyCall.strategy] = new
    BY <1>1, <1>3 DEF Typed
<1>6. new # None
    <2>1. /\ strategies[strategyCall.strategy] \in
                 Strategy!StrategyRow \cup {None}
          /\ strategyCall.snap \in Strategy!StrategySnapshot
          /\ strategyCall.live_checked \in BOOLEAN
        BY <1>1 DEF Typed, Strategy!StrategyCall
    <2>2. new \in Strategy!StrategyRow
        BY <2>1 DEF Strategy!UpsertedRow, Strategy!StrategyRow,
                    Strategy!StrategySnapshot
    <2> QED BY <2>2, StoresAssumption
<1> HIDE DEF new
<1> QED BY <1>2, <1>4, <1>5, <1>6 DEF RowIsOf

LEMMA StrategyRowWrittenStep ==
    ASSUME Typed, LoopInv, StrategyRowWritten, [Next]_vars
    PROVE  StrategyRowWritten'
<1> USE DEF Typed
<1>1. CASE StrategyStatement
    <2>1. PICK s \in Strategies : s = strategyCall.strategy
        BY <1>1, StatementKeepsCall, CallIsOfEdit
    <2>2. /\ strategyCall \in Strategy!StrategyCall
          /\ strategyCall'.strategy = s
          /\ strategyCall'.snap = strategyCall.snap
          /\ strategyCall'.live_checked = strategyCall.live_checked
        BY <1>1, <2>1, StatementKeepsCall, CallIsOfEdit
    <2>3. CASE Strategy!UpsertRow
        BY <2>3, UpsertRowStep DEF StrategyRowWritten
    <2>4. CASE Strategy!Fail
        <3>1. strategyCall'.pc = "err"
            BY <2>2, <2>4 DEF Strategy!Fail, Strategy!StrategyCall
        <3> QED BY <3>1 DEF StrategyRowWritten
    <2>5. CASE Strategy!ReadPreviousLed \/ Strategy!InsertVersion
        <3>1. UNCHANGED strategies /\ strategyCall.pc \in {"prev", "insert"}
            BY <2>5 DEF Strategy!ReadPreviousLed, Strategy!InsertVersion
        <3>2. RowIsOf(s, strategyCall)
            BY <2>1, <3>1 DEF StrategyRowWritten
        <3> QED BY <2>2, <3>1, <3>2 DEF RowIsOf, StrategyRowWritten
    <2> QED BY <1>1, <2>3, <2>4, <2>5 DEF StrategyStatement
<1>2. CASE StartStrategy \/ FinishStrategy \/ Restart
    BY <1>2 DEF StartStrategy, FinishStrategy, Restart, Strategy!Call,
                Strategy!Return, Strategy!Idle, StrategyRowWritten
<1>3. CASE UNCHANGED strategyCall /\ ~StrategyStatement
    <2>1. UNCHANGED strategies
        BY <1>3, Frame
    <2> QED BY <1>3, <2>1 DEF StrategyRowWritten, RowIsOf
<1> QED BY <1>1, <1>2, <1>3, Frame

LEMMA StrategiesStayPending ==
    ASSUME Typed, [Next]_vars, ~Connect, ~Restart, StrategiesPending
    PROVE  \/ StrategiesPending'
           \/ OnStrategies
           \/ ~Enabled("listener_strategies") /\ OnIgnored
<1>1. CASE RuntimeStep
    BY <1>1, ClientStep DEF StrategiesPending
<1>2. ASSUME NEW kind, Handle(kind)
      PROVE  StrategiesPending' \/ kind = "strat"
    BY <1>2, HandledEvent DEF StrategiesPending
<1>3. CASE OnSchemaApplied \/ OnOrderUpdated \/ OnOrdersSnapshot
    BY <1>2, <1>3 DEF OnSchemaApplied, OnOrderUpdated, OnOrdersSnapshot
<1>4. CASE OnIgnored
    BY <1>2, <1>4 DEF OnIgnored
<1>5. CASE UNCHANGED queue
    BY <1>5 DEF StrategiesPending
<1> QED BY <1>1, <1>3, <1>4, <1>5
        DEF Next, Thread, InitialSync, StartStrategy, StrategyStatement,
            FinishStrategy, StartOrder, OrderStatement, FinishOrder, Done,
            OnDisconnected, PruneVersion, OtherSession, ClockStepsBack, vars,
            runtimeVars

\* What has been written leaves the loop, as the client has it or with an event
\* on its way.
LEMMA FinishStrategyStep ==
    ASSUME Typed, LoopInv, StrategyWorkIsLive, FinishStrategy, alive,
           NEW s \in Strategies, StrategyDue(s)', StrategyWorked(s)
    PROVE  \/ StrategiesPending'
           \/ StrategyWorked(s)'
           \/ /\ strategyCall.pc = "ok" /\ strategyCall.strategy = s
              /\ strategyCall.snap = LiveWork(s).snap
              /\ strategyCall.live_checked = LiveWork(s).live_checked
              /\ UNCHANGED <<strategies, versions, liveStrategies>>
<1>1. PICK w \in strategyWork : w.strategy = s
    BY DEF StrategyWorked
<1>2. /\ UNCHANGED <<strategies, versions, liveStrategies, queue>>
      /\ strategyCall.pc \in {"ok", "err"}
    BY DEF FinishStrategy, Strategy!Return, runtimeVars
<1> DEFINE done == {v \in strategyWork : v.strategy = strategyCall.strategy}
           lost == IF strategyCall.pc = "ok" THEN {}
                   ELSE IF pc = "sync" THEN done ELSE strategyWork
<1>3. /\ strategyWork' = strategyWork \ (done \cup lost)
      /\ missed' = (missed \ {KeyOfStrategy(v) : v \in done})
                       \cup {KeyOfStrategy(v) : v \in lost}
    BY DEF FinishStrategy
<1>4. w \notin lost
    <2>1. KeyOfStrategy(w) \notin missed'
        BY <1>1 DEF StrategyDue, KeyOfStrategy
    <2> QED BY <1>3, <2>1
<1>5. CASE w \in done
    <2>1. strategyCall.pc = "ok" /\ strategyCall # Strategy!Idle
        BY <1>2, <1>4, <1>5 DEF Strategy!Idle
    <2>2. /\ w.snap = strategyCall.snap /\ s = strategyCall.strategy
          /\ w.live_checked = strategyCall.live_checked
        BY <1>1, <1>5, <2>1, CallIsOfEdit DEF LoopInv, WorkIsSingle
    <2>3. w = LiveWork(s) \/ StrategiesPending
        BY <1>1 DEF StrategyWorkIsLive
    <2>4. CASE StrategiesPending
        BY <1>2, <2>4 DEF StrategiesPending
    <2>5. CASE w = LiveWork(s)
        BY <1>2, <2>1, <2>2, <2>5
    <2> QED BY <2>3, <2>4, <2>5
<1>6. CASE w \notin done
    BY <1>1, <1>3, <1>4, <1>6 DEF StrategyWorked
<1> QED BY <1>5, <1>6

\* A strategy that is due has an event on its way, or waits in the loop at hand,
\* or has just been written in the state the client has it in, or it was like
\* that before and the loop at hand has nothing to do with it.
LEMMA StrategyTraced ==
    ASSUME Typed, LoopInv, AliveInSession, StrategyWorkIsLive, [Next]_vars,
           InSession', Enabled("listener_strategies")',
           NEW s \in Strategies, StrategyDue(s)'
    PROVE  \/ StrategiesPending'
           \/ StrategyWorked(s)'
           \/ /\ strategyCall.pc = "ok" /\ strategyCall.strategy = s
              /\ strategyCall.snap = LiveWork(s).snap
              /\ strategyCall.live_checked = LiveWork(s).live_checked
              /\ UNCHANGED <<strategies, versions, liveStrategies>>
           \/ /\ InSession /\ Enabled("listener_strategies") /\ StrategyDue(s)
              /\ ~StrategiesPending /\ ~StrategyWorked(s)
              /\ UNCHANGED liveStrategies
<1>1. ~Connect /\ ~Restart /\ alive
    <2>1. ~Connect /\ ~Restart
        BY AliveStep DEF Connect, Restart, Moon!Kill, InSession, AliveInSession
    <2> QED BY <2>1, AliveStep DEF InSession
<1>2. Enabled("listener_strategies")
    BY <1>1, Frame DEF Enabled
<1>3. CASE InitialSync \/ OnStrategies
    <2>1. UNCHANGED liveStrategies
        BY <1>3 DEF InitialSync, OnStrategies, Handle, Moon!Receive, runtimeVars
    <2>2. strategyWork' = StrategiesInSnapshot \/ <<"strategy", s>> \in missed'
        BY <1>2, <1>3 DEF InitialSync, OnStrategies, NoSnapshot, Keys
    <2> QED BY <2>1, <2>2, SnapshotOfStrategies
            DEF StrategyDue, StrategyWorked
<1>4. CASE FinishStrategy /\ StrategyWorked(s)
    BY <1>1, <1>4, FinishStrategyStep
<1>5. CASE ~InitialSync /\ ~OnStrategies /\ ~(FinishStrategy /\ StrategyWorked(s))
    <2>1. StrategiesPending => StrategiesPending'
        BY <1>1, <1>2, <1>5, StrategiesStayPending
    <2>2. StrategyWorked(s) => StrategyWorked(s)'
        BY <1>1, <1>5, WorkStays DEF StrategyWorked
    <2>3. CASE liveStrategies' # liveStrategies
        <3>1. RuntimeStep
            BY <2>3, Frame
        <3> QED BY <1>1, <2>3, <3>1, ClientStep
    <2>4. CASE UNCHANGED liveStrategies
        <3>1. <<"strategy", s>> \notin missed
            <4>1. ASSUME NEW w, <<"strategy", s>> = KeyOfStrategy(w)
                  PROVE  w.strategy = s
                BY <4>1 DEF KeyOfStrategy
            <4>2. \A w : <<"strategy", s>> # KeyOfOrder(w)
                BY DEF KeyOfOrder
            <4>3. <<"strategy", s>> # <<"schema">>
                OBVIOUS
            <4> QED BY <1>1, <1>5, <4>1, <4>2, <4>3, MissedStays
                    DEF StrategyDue, StrategyWorked
        <3>2. InSession
            BY <1>1, <1>5, SessionBegins DEF InSession, AliveInSession
        <3>3. StrategyDue(s)
            BY <2>4, <3>1 DEF StrategyDue
        <3> QED BY <1>2, <2>1, <2>2, <2>4, <3>2, <3>3
    <2> QED BY <2>3, <2>4
<1> QED BY <1>3, <1>4, <1>5

\* Only the call changes a row, that of its strategy.
LEMMA RowStays ==
    ASSUME Typed, LoopInv, [Next]_vars, NEW s \in Strategies,
           ~StrategyWorked(s)
    PROVE  strategies'[s] = strategies[s]
<1>1. CASE StrategyStatement
    <2>1. s # strategyCall.strategy
        BY <1>1, StatementKeepsCall, CallIsOfEdit DEF StrategyWorked
    <2> QED BY <1>1, <2>1, Frame DEF Strategy!UpsertRow, Typed
<1>2. CASE ~StrategyStatement
    BY <1>2, Frame
<1> QED BY <1>1, <1>2

LEMMA RowsAccountedStep ==
    ASSUME Typed, LoopInv, StrategyRowsInv, [Next]_vars
    PROVE  RowsAccounted'
<1> SUFFICES ASSUME InSession', Enabled("listener_strategies")',
                    NEW s \in Strategies, StrategyDue(s)',
                    ~StrategiesPending', ~StrategyWorked(s)'
             PROVE  RowIsOf(s, LiveWork(s))'
    BY DEF RowsAccounted
<1>1. CASE /\ strategyCall.pc = "ok" /\ strategyCall.strategy = s
           /\ strategyCall.snap = LiveWork(s).snap
           /\ strategyCall.live_checked = LiveWork(s).live_checked
           /\ UNCHANGED <<strategies, versions, liveStrategies>>
    BY <1>1 DEF StrategyRowsInv, StrategyRowWritten, RowIsOf, LiveWork
<1>2. CASE /\ InSession /\ Enabled("listener_strategies") /\ StrategyDue(s)
           /\ ~StrategiesPending /\ ~StrategyWorked(s)
           /\ UNCHANGED liveStrategies
    <2>1. RowIsOf(s, LiveWork(s))
        BY <1>2 DEF StrategyRowsInv, RowsAccounted
    <2> QED BY <1>2, <2>1, RowStays DEF RowIsOf, LiveWork
<1> QED BY <1>1, <1>2, StrategyTraced DEF StrategyRowsInv

\* A strategy the client knows has the row of its edit and its flag, or it waits
\* in the loop at hand, or the event is on its way, or it was given up, whatever
\* fails. (initial_sync, Event::Strat in handle_event, upsert_snapshot)
THEOREM StrategyRowsInvariant == Spec => []StrategyRowsInv
<1>1. Init => StrategyRowsInv
    BY DEF Init, Moon!Init, Strategy!Init, Strategy!Idle, StrategyRowsInv,
           AliveInSession, StrategyWorkIsLive, StrategyRowWritten,
           RowsAccounted, InSession
<1>2. Typed /\ LoopInv /\ StrategyRowsInv /\ [Next]_vars => StrategyRowsInv'
    <2> SUFFICES ASSUME Typed, LoopInv, StrategyRowsInv, [Next]_vars
                 PROVE  StrategyRowsInv'
        OBVIOUS
    <2>1. AliveInSession'
        BY AliveStep DEF StrategyRowsInv
    <2>2. StrategyWorkIsLive' /\ StrategyRowWritten' /\ RowsAccounted'
        BY StrategyWorkStep, StrategyRowWrittenStep, RowsAccountedStep
        DEF StrategyRowsInv
    <2> QED BY <2>1, <2>2 DEF StrategyRowsInv
<1> QED BY <1>1, <1>2, TypedInvariant, LoopInvariant, PTL DEF Spec

\* A strategy that is due when nothing is under way has been written.
LEMMA NothingUnderWay ==
    ASSUME LoopInv, Quiescent, NEW s \in Strategies
    PROVE  ~StrategiesPending /\ ~StrategyWorked(s) /\ InSession
BY NoWorkNoCalls DEF Quiescent, StrategiesPending, StrategyWorked, InSession

\* When no event is on its way each strategy the client knows, unless it was
\* given up, has a row with the live flag and runs if it is said to, whatever
\* fails, is deleted or is not dated. (initial_sync, Event::Strat)
THEOREM RowsFollowed == Spec => []RowsFollowServer
<1>1. Typed /\ LoopInv /\ StrategyRowsInv => RowsFollowServer
    <2> SUFFICES ASSUME Typed, LoopInv, StrategyRowsInv, Quiescent,
                        Enabled("listener_strategies"),
                        NEW s \in Strategies, StrategyDue(s)
                 PROVE  /\ strategies[s] # None
                        /\ strategies[s].checked
                               = (liveStrategies[s].info = TRUE)
                        /\ strategies[s].is_active =>
                               liveStrategies[s].snap.runs
        BY DEF RowsFollowServer
    <2>1. RowIsOf(s, LiveWork(s))
        BY NothingUnderWay DEF StrategyRowsInv, RowsAccounted
    <2>2. Moon!LiveChecked(liveStrategies[s]) = (liveStrategies[s].info = TRUE)
        <3>1. liveStrategies[s].info \in BOOLEAN \cup {None}
            BY DEF StrategyDue, Typed, WorkTyped, Moon!LiveStrategy
        <3>2. None # TRUE
            BY StoresAssumption
        <3>3. CASE liveStrategies[s].info = None
            BY <3>2, <3>3 DEF Moon!LiveChecked
        <3>4. CASE liveStrategies[s].info \in BOOLEAN
            BY <3>4, StoresAssumption DEF Moon!LiveChecked
        <3> QED BY <3>1, <3>3, <3>4
    <2> QED BY <2>1, <2>2 DEF RowIsOf, LiveWork
<1> QED BY <1>1, TypedInvariant, LoopInvariant, StrategyRowsInvariant, PTL

LEMMA InsertVersionStep ==
    ASSUME Typed, "clock" \notin Faults, Strategy!InsertVersion
    PROVE  VersionIsOf(strategyCall.strategy, strategyCall)'
<1>1. PICK s \in Strategies : s = strategyCall.strategy
    BY AfterInsert DEF Typed
<1>2. /\ strategyCall'.strategy = s
      /\ strategyCall'.snap = strategyCall.snap
    BY <1>1, CallInProgress, AnsweredCall DEF Typed, Strategy!InsertVersion
<1>3. PICK row \in Version :
          /\ row.date = clock /\ row.led = strategyCall.snap.led
          /\ \/ /\ versions'[s] = versions[s]
                /\ \E v \in versions[s] : v.date = clock
             \/ versions'[s] = versions[s] \cup {row}
    BY <1>1, AfterInsert DEF Typed
<1>4. /\ versions[s] \in SUBSET Version /\ clock \in Nat
      /\ \A v \in versions[s] : v.date < clock
    BY DEF Typed, VersionsDriven
<1>5. \A v \in versions[s] : v.date # clock
    BY <1>4 DEF Version
<1>6. versions'[s] = versions[s] \cup {row}
    BY <1>3, <1>5
<1>7. Latest(versions'[s]) = row
    BY <1>3, <1>4, <1>6, LatestOfNewer
<1> QED BY <1>2, <1>3, <1>6, <1>7 DEF VersionIsOf

LEMMA SameLedStep ==
    ASSUME Typed, NEW s \in Strategies, NEW snap,
           SnapshotLed(snap.led) # None,
           ~Strategy!NeedsNewVersion(Strategy!SnapshotLed(snap.led),
               Strategy!PreviousLed(versions[s]))
    PROVE  /\ versions[s] # {}
           /\ SnapshotLed(Latest(versions[s]).led) = SnapshotLed(snap.led)
<1>1. PreviousLed(versions[s]) = SnapshotLed(snap.led)
    BY DEF Strategy!NeedsNewVersion, Strategy!SnapshotLed, SnapshotLed,
           Strategy!PreviousLed, PreviousLed, Strategy!StoredLed, StoredLed,
           Strategy!Latest, Latest
<1>2. versions[s] # {}
    BY <1>1 DEF PreviousLed
<1>3. StoredLed(Latest(versions[s]).led) = SnapshotLed(snap.led)
    BY <1>1, <1>2 DEF PreviousLed
<1> QED BY <1>2, <1>3 DEF StoredLed, SnapshotLed

LEMMA StrategyVersionWrittenStep ==
    ASSUME {"prune", "clock"} \cap Faults = {},
           Typed, LoopInv, StrategyVersionWritten, [Next]_vars
    PROVE  StrategyVersionWritten'
<1> USE DEF Typed
<1>1. CASE StrategyStatement
    <2>1. PICK s \in Strategies : s = strategyCall.strategy
        BY <1>1, StatementKeepsCall, CallIsOfEdit
    <2>2. /\ strategyCall \in Strategy!StrategyCall
          /\ strategyCall'.strategy = s
          /\ strategyCall'.snap = strategyCall.snap
        BY <1>1, <2>1, StatementKeepsCall, CallIsOfEdit
    <2>3. CASE Strategy!UpsertRow
        BY <2>3, UpsertRowStep DEF StrategyVersionWritten
    <2>4. CASE Strategy!Fail
        <3>1. strategyCall'.pc = "err"
            BY <2>2, <2>4 DEF Strategy!Fail, Strategy!StrategyCall
        <3> QED BY <3>1 DEF StrategyVersionWritten
    <2>5. CASE Strategy!ReadPreviousLed
        <3>1. UNCHANGED versions
            BY <2>5 DEF Strategy!ReadPreviousLed
        <3>2. PICK next \in {"insert", "ok"} :
                  /\ next = "ok" =>
                         ~Strategy!NeedsNewVersion(
                             Strategy!SnapshotLed(strategyCall.snap.led),
                             Strategy!PreviousLed(versions[s]))
                  /\ Strategy!Answered(next)
            BY <2>1, <2>5 DEF Strategy!ReadPreviousLed
        <3>3. strategyCall'.pc = "ok" => next = "ok"
            BY <2>2, <3>2, AnsweredCall
        <3> QED BY <2>2, <3>1, <3>2, <3>3, SameLedStep
                DEF VersionIsOf, StrategyVersionWritten
    <2>6. CASE Strategy!InsertVersion
        BY <2>6, InsertVersionStep DEF StrategyVersionWritten
    <2> QED BY <1>1, <2>3, <2>4, <2>5, <2>6 DEF StrategyStatement
<1>2. CASE StartStrategy \/ FinishStrategy \/ Restart
    BY <1>2 DEF StartStrategy, FinishStrategy, Restart, Strategy!Call,
                Strategy!Return, Strategy!Idle, StrategyVersionWritten
<1>3. CASE UNCHANGED strategyCall /\ ~StrategyStatement
    <2>1. ~PruneVersion
        BY AfterPrune
    <2>2. UNCHANGED versions
        BY <1>3, <2>1, Frame
    <2> QED BY <1>3, <2>2 DEF StrategyVersionWritten, VersionIsOf
<1> QED BY <1>1, <1>2, <1>3, Frame

\* Only the call, or an operator, changes the versions of a strategy.
LEMMA VersionsStay ==
    ASSUME "prune" \notin Faults, Typed, LoopInv, [Next]_vars,
           NEW s \in Strategies, ~StrategyWorked(s)
    PROVE  versions'[s] = versions[s]
<1>1. CASE StrategyStatement
    <2>1. s # strategyCall.strategy
        BY <1>1, StatementKeepsCall, CallIsOfEdit DEF StrategyWorked
    <2> QED BY <1>1, <2>1, AfterInsert, AfterPrune, Frame DEF Typed
<1>2. CASE ~StrategyStatement
    BY <1>2, AfterPrune, Frame DEF Typed
<1> QED BY <1>1, <1>2

LEMMA VersionsAccountedStep ==
    ASSUME "prune" \notin Faults, Typed, LoopInv, StrategyRowsInv,
           StrategyVersionsInv, [Next]_vars
    PROVE  VersionsAccounted'
<1> SUFFICES ASSUME InSession', Enabled("listener_strategies")',
                    NEW s \in Strategies, StrategyDue(s)',
                    ~StrategiesPending', ~StrategyWorked(s)'
             PROVE  VersionIsOf(s, LiveWork(s))'
    BY DEF VersionsAccounted
<1>1. CASE /\ strategyCall.pc = "ok" /\ strategyCall.strategy = s
           /\ strategyCall.snap = LiveWork(s).snap
           /\ strategyCall.live_checked = LiveWork(s).live_checked
           /\ UNCHANGED <<strategies, versions, liveStrategies>>
    BY <1>1
    DEF StrategyVersionsInv, StrategyVersionWritten, VersionIsOf, LiveWork
<1>2. CASE /\ InSession /\ Enabled("listener_strategies") /\ StrategyDue(s)
           /\ ~StrategiesPending /\ ~StrategyWorked(s)
           /\ UNCHANGED liveStrategies
    <2>1. VersionIsOf(s, LiveWork(s))
        BY <1>2 DEF StrategyVersionsInv, VersionsAccounted
    <2> QED BY <1>2, <2>1, VersionsStay DEF VersionIsOf, LiveWork
<1> QED BY <1>1, <1>2, StrategyTraced DEF StrategyRowsInv

\* A strategy the client knows has its edit as the latest version, if the edit
\* has a date, or it waits in the loop at hand, or the event is on its way, or
\* it was given up. (initial_sync, Event::Strat in handle_event)
THEOREM StrategyVersionsInvariant ==
    ASSUME {"prune", "clock"} \cap Faults = {}
    PROVE  Spec => []StrategyVersionsInv
<1>1. Init => StrategyVersionsInv
    BY DEF Init, Moon!Init, Strategy!Init, Strategy!Idle, StrategyVersionsInv,
           StrategyVersionWritten, VersionsAccounted, InSession
<1>2. Typed /\ LoopInv /\ StrategyRowsInv /\ StrategyVersionsInv /\ [Next]_vars
          => StrategyVersionsInv'
    BY StrategyVersionWrittenStep, VersionsAccountedStep
    DEF StrategyVersionsInv
<1> QED BY <1>1, <1>2, TypedInvariant, LoopInvariant, StrategyRowsInvariant,
           PTL DEF Spec

\* When no event is on its way each strategy the client knows whose edit has a
\* date, unless it was given up, has that edit as its latest version.
\* (initial_sync, Event::Strat in handle_event, upsert_snapshot)
THEOREM VersionsFollowed ==
    ASSUME {"prune", "clock"} \cap Faults = {}
    PROVE  Spec => []VersionsFollowServer
<1>1. LoopInv /\ StrategyVersionsInv => VersionsFollowServer
    BY NothingUnderWay
    DEF StrategyVersionsInv, VersionsAccounted, VersionsFollowServer,
        VersionIsOf, LiveWork
<1> QED BY <1>1, LoopInvariant, StrategyVersionsInvariant, PTL

\* Both: when no event is on its way each strategy the client knows, unless it
\* was given up, has the live flag in its row and its edit as its latest
\* version. (initial_sync, Event::Strat in handle_event)
THEOREM StrategiesFollowed ==
    ASSUME {"prune", "clock"} \cap Faults = {}, EditsAreDated
    PROVE  Spec => []StrategiesFollowServer
<1>1. Typed /\ RowsFollowServer /\ VersionsFollowServer
          => StrategiesFollowServer
    <2>1. ASSUME Typed, NEW s \in Strategies, liveStrategies[s] # None
          PROVE  SnapshotLed(liveStrategies[s].snap.led) # None
        BY <2>1 DEF Typed, WorkTyped, Moon!LiveStrategy, EditsAreDated
    <2> QED BY <2>1 DEF RowsFollowServer, VersionsFollowServer,
                        StrategiesFollowServer, StrategyDue
<1> QED BY <1>1, TypedInvariant, RowsFollowed, VersionsFollowed, PTL

-----------------------------------------------------------------------------
\* initial_sync links the orders it writes, as long as no version is deleted.

LEMMA RowsKnownStep ==
    ASSUME Typed, LoopInv, RowsAreKnown, [Next]_vars
    PROVE  RowsAreKnown'
<1> SUFFICES ASSUME NEW s \in Strategies, strategies'[s] # None
             PROVE  liveStrategies'[s] # None
    BY DEF RowsAreKnown
<1>1. CASE strategies[s] # None
    BY <1>1, KnownStays DEF RowsAreKnown
<1>2. CASE strategies[s] = None
    <2>1. StrategyStatement /\ Strategy!UpsertRow
        BY <1>2, Frame
    <2>2. s = strategyCall.strategy
        BY <1>2, <2>1 DEF Strategy!UpsertRow, Typed
    <2>3. PICK w \in strategyWork : w.strategy = s
        BY <2>1, <2>2, StatementKeepsCall, CallIsOfEdit
    <2> QED BY <2>3, KnownStays DEF LoopInv, WorkIsKnown
<1> QED BY <1>1, <1>2

\* Without PruneVersion the versions of a strategy only grow.
LEMMA VersionsGrow ==
    ASSUME "prune" \notin Faults, Typed, [Next]_vars, NEW s \in Strategies
    PROVE  versions[s] \subseteq versions'[s]
<1>1. CASE Strategy!InsertVersion
    BY <1>1, AfterInsert DEF Typed
<1>2. CASE UNCHANGED versions
    BY <1>2
<1> QED BY <1>1, <1>2, AfterPrune, Frame DEF Typed

LEMMA UpsertedStep ==
    ASSUME "prune" \notin Faults, EditsAreDated, Typed, LoopInv,
           UpsertedHasVersion, [Next]_vars
    PROVE  UpsertedHasVersion'
<1> USE DEF Typed
<1>1. CASE StrategyStatement
    <2>1. PICK s \in Strategies : s = strategyCall.strategy
        BY <1>1, StatementKeepsCall, CallIsOfEdit
    <2>2. /\ strategyCall \in Strategy!StrategyCall
          /\ SnapshotLed(strategyCall.snap.led) # None
          /\ strategyCall'.strategy = s
        BY <1>1, <2>1, StatementKeepsCall, CallIsOfEdit DEF EditsAreDated
    <2>3. CASE Strategy!UpsertRow
        BY <2>3, UpsertRowStep DEF UpsertedHasVersion
    <2>4. CASE Strategy!Fail
        <3>1. strategyCall'.pc = "err"
            BY <2>2, <2>4 DEF Strategy!Fail, Strategy!StrategyCall
        <3> QED BY <3>1 DEF UpsertedHasVersion
    <2>5. CASE Strategy!ReadPreviousLed
        <3>1. UNCHANGED versions
            BY <2>5 DEF Strategy!ReadPreviousLed
        <3>2. PICK next \in {"insert", "ok"} :
                  /\ next = "ok" =>
                         ~Strategy!NeedsNewVersion(
                             Strategy!SnapshotLed(strategyCall.snap.led),
                             Strategy!PreviousLed(versions[s]))
                  /\ Strategy!Answered(next)
            BY <2>1, <2>5 DEF Strategy!ReadPreviousLed
        <3>3. strategyCall'.pc = "ok" => next = "ok"
            BY <2>2, <3>2, AnsweredCall
        <3> QED BY <2>2, <3>1, <3>2, <3>3, SameLedStep DEF UpsertedHasVersion
    <2>6. CASE Strategy!InsertVersion
        <3>1. versions'[s] # {}
            BY <2>1, <2>6, AfterInsert
        <3> QED BY <2>2, <3>1 DEF UpsertedHasVersion
    <2> QED BY <1>1, <2>3, <2>4, <2>5, <2>6 DEF StrategyStatement
<1>2. CASE StartStrategy \/ FinishStrategy \/ Restart
    BY <1>2 DEF StartStrategy, FinishStrategy, Restart, Strategy!Call,
                Strategy!Return, Strategy!Idle, UpsertedHasVersion
<1>3. CASE UNCHANGED strategyCall /\ ~StrategyStatement
    <2>1. ~PruneVersion
        BY AfterPrune
    <2>2. UNCHANGED versions
        BY <1>3, <2>1, Frame
    <2> QED BY <1>3, <2>2 DEF UpsertedHasVersion
<1> QED BY <1>1, <1>2, <1>3, Frame

\* A strategy is written in the loop of initial_sync by its upsert only, and is
\* not given up by another.
LEMMA WrittenBefore ==
    ASSUME Typed, [Next]_vars, ~InitialSync, ~Restart, NEW s \in Strategies,
           WrittenInSync(s)'
    PROVE  \/ WrittenInSync(s)
           \/ StrategyStatement /\ s = strategyCall.strategy
           \/ FinishStrategy /\ StrategyWorked(s)
<1>1. pc = "sync"
    <2>1. pc' = "sync"
        BY DEF WrittenInSync
    <2>2. CASE Connect \/ FinishStrategy \/ FinishOrder \/ Done
                   \/ OnDisconnected
        BY <2>1, <2>2 DEF Connect, FinishStrategy, FinishOrder, Done,
                          OnDisconnected
    <2>3. CASE OnSchemaApplied \/ OnStrategies \/ OnOrderUpdated
                   \/ OnOrdersSnapshot \/ OnIgnored
        BY <2>1, <2>3 DEF OnSchemaApplied, OnStrategies, OnOrderUpdated,
                          OnOrdersSnapshot, OnIgnored, NoSnapshot
    <2>4. CASE UNCHANGED controlVars \/ OtherSession
        BY <2>1, <2>4 DEF controlVars, OtherSession
    <2> QED BY <2>2, <2>3, <2>4
            DEF Next, Thread, StartStrategy, StrategyStatement, StartOrder,
                OrderStatement, RuntimeStep, PruneVersion, ClockStepsBack, vars
<1>2. Enabled("listener_strategies")
    BY Frame DEF WrittenInSync, Enabled
<1>3. CASE <<"strategy", s>> \in missed
    <2>1. ASSUME NEW w, <<"strategy", s>> = KeyOfStrategy(w)
          PROVE  w.strategy = s
        BY <2>1 DEF KeyOfStrategy
    <2>2. \A w : <<"strategy", s>> # KeyOfOrder(w)
        BY DEF KeyOfOrder
    <2>3. <<"strategy", s>> # <<"schema">>
        OBVIOUS
    <2> QED BY <1>3, <2>1, <2>2, <2>3, MissedStays
            DEF WrittenInSync, StrategyWorked
<1>4. CASE <<"strategy", s>> \notin missed
    <2>1. CASE strategies'[s] = strategies[s]
        BY <1>1, <1>2, <1>4, <2>1 DEF WrittenInSync
    <2>2. CASE strategies'[s] # strategies[s]
        BY <2>2, Frame DEF Strategy!UpsertRow, Typed
    <2> QED BY <2>1, <2>2
<1> QED BY <1>3, <1>4

LEMMA SyncVersionsStep ==
    ASSUME "prune" \notin Faults, EditsAreDated, Typed, LoopInv, SyncInv,
           [Next]_vars
    PROVE  SyncHasVersions'
<1> SUFFICES ASSUME NEW s \in Strategies, WrittenInSync(s)'
             PROVE  versions'[s] # {} \/ StrategyWorked(s)'
    BY DEF SyncHasVersions, StrategyWorked
<1>1. CASE InitialSync
    <2>1. strategies[s] # None /\ Enabled("listener_strategies")
        BY <1>1 DEF InitialSync, strategyVars, WrittenInSync, Enabled
    <2>2. liveStrategies[s] # None
        BY <2>1 DEF SyncInv, RowsAreKnown
    <2>3. strategyWork' = StrategiesInSnapshot
        BY <1>1, <2>1 DEF InitialSync, WrittenInSync
    <2> QED BY <2>2, <2>3, SnapshotOfStrategies DEF StrategyWorked
<1>2. CASE Restart
    BY <1>2 DEF Restart, WrittenInSync
<1>3. CASE FinishStrategy /\ StrategyWorked(s)
    <2>1. PICK w \in strategyWork : w.strategy = s
        BY <1>3 DEF StrategyWorked
    <2> DEFINE done == {v \in strategyWork : v.strategy = strategyCall.strategy}
               lost == IF strategyCall.pc = "ok" THEN {}
                       ELSE IF pc = "sync" THEN done ELSE strategyWork
    <2>2. /\ strategyWork' = strategyWork \ (done \cup lost)
          /\ missed' = (missed \ {KeyOfStrategy(v) : v \in done})
                           \cup {KeyOfStrategy(v) : v \in lost}
          /\ UNCHANGED versions
        BY <1>3 DEF FinishStrategy, Strategy!Return
    <2>3. w \notin lost
        <3>1. KeyOfStrategy(w) \notin missed'
            BY <2>1 DEF WrittenInSync, KeyOfStrategy
        <3> QED BY <2>2, <3>1
    <2>4. CASE w \in done
        <3>1. strategyCall.pc = "ok" /\ s = strategyCall.strategy
            BY <2>1, <2>3, <2>4
        <3> QED BY <2>2, <3>1 DEF SyncInv, UpsertedHasVersion
    <2>5. CASE w \notin done
        BY <2>1, <2>2, <2>3, <2>5 DEF StrategyWorked
    <2> QED BY <2>4, <2>5
<1>4. CASE StrategyStatement /\ s = strategyCall.strategy
    <2>1. StrategyWorked(s)
        BY <1>4, StatementKeepsCall, CallIsOfEdit DEF StrategyWorked
    <2>2. UNCHANGED strategyWork
        BY <1>4 DEF StrategyStatement, controlVars
    <2> QED BY <2>1, <2>2 DEF StrategyWorked
<1>5. CASE ~Restart /\ WrittenInSync(s) /\ ~(FinishStrategy /\ StrategyWorked(s))
    <2>1. versions[s] # {} \/ StrategyWorked(s)
        BY <1>5 DEF SyncInv, SyncHasVersions, StrategyWorked
    <2>2. StrategyWorked(s) => StrategyWorked(s)'
        BY <1>5, WorkStays DEF StrategyWorked
    <2> QED BY <2>1, <2>2, VersionsGrow
<1> QED BY <1>1, <1>2, <1>3, <1>4, <1>5, WrittenBefore

LEMMA SyncCallStep ==
    ASSUME "prune" \notin Faults, EditsAreDated, Typed, LoopInv, SyncInv,
           [Next]_vars
    PROVE  SyncCallHasVersion'
<1> USE DEF Typed
<1>1. CASE UNCHANGED orderCall /\ ~OrderStatement
    <2> SUFFICES ASSUME orderCall # Journal!Idle,
                        WrittenInSync(orderCall.order.strat_id)'
                 PROVE  LET s == orderCall.order.strat_id
                        IN /\ orderCall.pc = "write" =>
                                  \E v \in versions'[s] :
                                      v.id = orderCall.version
                           /\ orderCall.pc = "ok" =>
                                  \E v \in versions'[s] :
                                      v.id = orders'[orderCall.uid]
                                                 .strategy_version_id
        BY <1>1 DEF SyncCallHasVersion
    <2>1. PICK s \in Strategies : s = orderCall.order.strat_id
        <3>1. orderCall.order \in OrderStates
            BY CallPhases, OrderCallInProgress
        <3>2. orderCall.order.strat_id # None
            BY <1>1 DEF WrittenInSync
        <3> QED BY <3>1, <3>2, NamedStrategy
    <2>2. WrittenInSync(s)'
        BY <1>1, <2>1
    <2>3. pc \in {"sync", "event"} /\ strategyCall = Strategy!Idle
        BY NoWorkNoCalls, OneCall
    <2>4. WrittenInSync(s)
        <3>1. ~InitialSync /\ ~Restart
            BY <2>2, <2>3 DEF InitialSync, Restart, WrittenInSync
        <3>2. ~StrategyStatement /\ ~FinishStrategy
            BY <2>3, StatementKeepsCall
            DEF FinishStrategy, Strategy!Return, Strategy!Idle
        <3> QED BY <2>2, <3>1, <3>2, WrittenBefore
    <2>5. UNCHANGED orders /\ versions[s] \subseteq versions'[s]
        BY <1>1, AfterPrune, VersionsGrow, Frame
    <2> QED BY <2>1, <2>4, <2>5 DEF SyncInv, SyncCallHasVersion
<1>2. CASE OrderStatement
    <2>1. /\ orderCall # Journal!Idle /\ orderCall \in Journal!OrderCall
          /\ orderCall'.uid = orderCall.uid
          /\ orderCall'.order = orderCall.order
          /\ strategyWork = {} /\ orderCall.uid \in Uids
          /\ orderCall.order \in OrderStates
        BY <1>2, StatementKeepsCall, CallPhases, OrderCallInProgress, CallOrder
    <2>2. PICK s \in Strategies \cup {None} : s = orderCall.order.strat_id
        BY <2>1, NamedStrategy
    <2> SUFFICES ASSUME WrittenInSync(s)'
                 PROVE  /\ orderCall'.pc = "write" =>
                               \E v \in versions'[s] :
                                   v.id = orderCall'.version
                        /\ orderCall'.pc = "ok" =>
                               \E v \in versions'[s] :
                                   v.id = orders'[orderCall.uid]
                                              .strategy_version_id
        BY <2>1, <2>2 DEF SyncCallHasVersion
    <2>3. WrittenInSync(s)
        BY <1>2 DEF OrderStatement, controlVars, WrittenInSync, Enabled
    <2>4. /\ Journal!VersionsOf(s) = versions[s]
          /\ versions[s] # {}
        BY <2>1, <2>3, OwnVersions
        DEF WrittenInSync, SyncInv, SyncHasVersions
    <2>5. CASE Journal!LookupCurrentVersionId
        <3>1. PICK found : found = Journal!CurrentVersionId(Journal!VersionsOf(s))
            OBVIOUS
        <3>2. \E v \in versions[s] : v.id = found
            BY <2>4, <3>1, FoundVersion
        <3>3. \/ orderCall' = [orderCall EXCEPT !.pc = "write",
                                                !.version = found]
              \/ orderCall' = [orderCall EXCEPT !.pc = "err"]
            BY <2>2, <2>5, <3>1 DEF Journal!LookupCurrentVersionId
        <3>4. UNCHANGED versions
            BY <2>5 DEF Journal!LookupCurrentVersionId
        <3> QED BY <2>1, <3>2, <3>3, <3>4 DEF Journal!OrderCall
    <2>6. CASE Journal!WriteRow
        <3>1. PICK v \in versions[s] : v.id = orderCall.version
            BY <2>1, <2>2, <2>3, <2>6
            DEF SyncInv, SyncCallHasVersion, Journal!WriteRow
        <3>2. orderCall.version # None
            BY <3>1, DatesBounded, StrategyVersionsAssumption, <2>3
            DEF WrittenInSync, Version, VersionId
        <3>3. orders'[orderCall.uid].strategy_version_id = orderCall.version
            BY <2>6, <3>2, RowWritten
        <3>4. orderCall'.pc \in {"ok", "err"}
            BY <2>1, <2>6, AnsweredOrderCall DEF Journal!WriteRow
        <3>5. UNCHANGED versions
            BY <2>6 DEF Journal!WriteRow
        <3> QED BY <3>1, <3>3, <3>4, <3>5
    <2>7. CASE Journal!Fail
        <3>1. orderCall'.pc = "err"
            BY <2>1, <2>7 DEF Journal!Fail, Journal!OrderCall
        <3> QED BY <3>1
    <2> QED BY <1>2, <2>5, <2>6, <2>7 DEF OrderStatement
<1>3. CASE StartOrder \/ FinishOrder \/ Restart
    <2>1. orderCall' = Journal!Idle \/ orderCall'.pc = "lookup"
        BY <1>3 DEF StartOrder, FinishOrder, Restart, Journal!Upsert,
                    Journal!Return
    <2> QED BY <2>1 DEF SyncCallHasVersion
<1> QED BY <1>1, <1>2, <1>3, Frame

\* In the loop of initial_sync a strategy that is in the table has a version,
\* or is still to be upserted, or was given up; and the call for an order of it
\* has found one. (initial_sync)
THEOREM SyncInvariant ==
    ASSUME "prune" \notin Faults, EditsAreDated PROVE Spec => []SyncInv
<1>1. Init => SyncInv
    BY DEF Init, Strategy!Init, Strategy!Idle, Journal!Init, SyncInv,
           RowsAreKnown, UpsertedHasVersion, SyncHasVersions, WrittenInSync,
           SyncCallHasVersion
<1>2. Typed /\ LoopInv /\ SyncInv /\ [Next]_vars => SyncInv'
    <2> SUFFICES ASSUME Typed, LoopInv, SyncInv, [Next]_vars
                 PROVE  SyncInv'
        OBVIOUS
    <2>1. RowsAreKnown' /\ UpsertedHasVersion'
        BY RowsKnownStep, UpsertedStep DEF SyncInv
    <2>2. SyncHasVersions' /\ SyncCallHasVersion'
        BY SyncVersionsStep, SyncCallStep
    <2> QED BY <2>1, <2>2 DEF SyncInv
<1> QED BY <1>1, <1>2, TypedInvariant, LoopInvariant, PTL DEF Spec

\* An order of a strategy that was written is linked when initial_sync writes
\* it, because the strategies are written first. (initial_sync)
THEOREM SyncLinked ==
    ASSUME "prune" \notin Faults, EditsAreDated
    PROVE  Spec => []SyncLinksOrders
<1>1. SyncInv => SyncLinksOrders
    BY DEF SyncInv, SyncCallHasVersion, WrittenInSync, SyncLinksOrders,
           Journal!Idle
<1> QED BY <1>1, SyncInvariant, PTL

=============================================================================
