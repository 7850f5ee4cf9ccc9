------------------------ MODULE StrategyStoreProofs ------------------------
(***************************************************************************)
(* Proofs about StrategyStore, for every set of strategies, every set of   *)
(* snapshots and every number of versions.                                 *)
(***************************************************************************)
EXTENDS StrategyStore, StrategyVersionsLemmas, FiniteSetTheorems

LEMMA CallInProgress ==
    ASSUME TypeOK, strategyCall.pc # "idle"
    PROVE  strategyCall \in StrategyCall
BY DEF TypeOK, Idle

LEMMA AnsweredCall ==
    ASSUME strategyCall \in StrategyCall,
           NEW next \in {"prev", "insert", "ok"}, Answered(next)
    PROVE  /\ strategyCall' \in StrategyCall
           /\ strategyCall'.pc \in {next, "err"}
           /\ strategyCall'.strategy = strategyCall.strategy
           /\ strategyCall'.snap = strategyCall.snap
<1>1. PICK pc \in {next, "err"} :
          strategyCall' = [strategyCall EXCEPT !.pc = pc]
    BY DEF Answered
<1> QED BY <1>1 DEF StrategyCall

\* The tables, the sequence and the call have the types of the schema.
THEOREM TypeCorrect == Spec => []TypeOK
<1>1. Init => TypeOK
    BY StrategyVersionsAssumption DEF Init, TypeOK
<1>2. ASSUME TypeOK, [Next]_storeVars PROVE TypeOK'
    <2> USE <1>2
    <2>1. ASSUME NEW s \in Strategies, NEW snap \in StrategySnapshot,
                 NEW live \in BOOLEAN, Call(s, snap, live)
          PROVE  TypeOK'
        BY <2>1 DEF TypeOK, Call, StrategyCall
    <2>2. CASE UpsertRow
        <3>1. strategyCall \in StrategyCall
            BY <2>2, CallInProgress DEF UpsertRow
        <3>2. strategyCall' \in StrategyCall
            BY <2>2, <3>1, AnsweredCall DEF UpsertRow
        <3>3. ASSUME NEW row \in StrategyRow \cup {None}
              PROVE  UpsertedRow(row, strategyCall.snap,
                                 strategyCall.live_checked) \in StrategyRow
            BY <3>1 DEF UpsertedRow, StrategyRow, StrategyCall,
                        StrategySnapshot
        <3> QED BY <2>2, <3>1, <3>2, <3>3 DEF TypeOK, UpsertRow, StrategyCall
    <2>3. CASE ReadPreviousLed
        <3>1. strategyCall' \in StrategyCall
            BY <2>3, CallInProgress, AnsweredCall DEF ReadPreviousLed
        <3> QED BY <2>3, <3>1 DEF TypeOK, ReadPreviousLed
    <2>4. CASE InsertVersion
        <3>1. strategyCall \in StrategyCall
            BY <2>4, CallInProgress DEF InsertVersion
        <3>2. strategyCall' \in StrategyCall
            BY <2>4, <3>1, AnsweredCall DEF InsertVersion
        <3>3. [id |-> nextId, date |-> clock, led |-> strategyCall.snap.led]
                  \in Version
            BY <2>4, <3>1, StrategyVersionsAssumption
            DEF InsertVersion, TypeOK, Version, VersionId, StrategyCall,
                StrategySnapshot
        <3>4. versions' \in [Strategies -> SUBSET Version]
            BY <2>4, <3>1, <3>3 DEF InsertVersion, TypeOK
        <3>5. nextId' \in 1 .. MaxVersionId + 1 /\ clock' \in Nat
            BY <2>4, StrategyVersionsAssumption DEF InsertVersion, TypeOK
        <3> QED BY <2>4, <3>2, <3>4, <3>5 DEF TypeOK, InsertVersion
    <2>5. CASE Fail
        <3>1. strategyCall \in StrategyCall
            BY <2>5, CallInProgress DEF Fail
        <3> QED BY <2>5, <3>1 DEF TypeOK, Fail, StrategyCall
    <2>6. CASE Return
        BY <2>6 DEF TypeOK, Return
    <2>7. CASE Abandon
        BY <2>7 DEF TypeOK, Abandon
    <2>8. CASE Prune
        BY <2>8 DEF TypeOK, Prune
    <2>9. CASE StepBack
        BY <2>9 DEF TypeOK, StepBack
    <2>10. CASE UNCHANGED storeVars
        BY <2>10 DEF TypeOK, storeVars
    <2> QED BY <1>2, <2>1, <2>2, <2>3, <2>4, <2>5, <2>6, <2>7, <2>8, <2>9,
               <2>10 DEF Next
<1> QED BY <1>1, <1>2, PTL DEF Spec

-----------------------------------------------------------------------------
\* The SignalType that is known of a strategy is not erased by a snapshot that
\* has none, whatever fails. (upsert_snapshot, COALESCE of signal_type)
THEOREM SignalIsKept == Spec => SignalKept
<1> DEFINE Kept ==
        \A s \in Strategies :
            (strategies[s] # None /\ strategies[s].signal_type # None) =>
                strategies'[s].signal_type # None
<1>1. ASSUME TypeOK, [Next]_storeVars PROVE Kept
    <2>1. CASE UpsertRow
        <3> SUFFICES ASSUME NEW s \in Strategies, strategies[s] # None,
                            strategies[s].signal_type # None
                     PROVE  strategies'[s].signal_type # None
            OBVIOUS
        <3> DEFINE new == UpsertedRow(strategies[strategyCall.strategy],
                              strategyCall.snap, strategyCall.live_checked)
        <3>1. strategies' = [strategies EXCEPT ![strategyCall.strategy] = new]
            BY <2>1 DEF UpsertRow
        <3>2. CASE s = strategyCall.strategy
            <4>1. new.signal_type # None
                BY <3>2 DEF UpsertedRow
            <4> HIDE DEF new
            <4> QED BY <1>1, <3>1, <3>2, <4>1 DEF TypeOK
        <3>3. CASE s # strategyCall.strategy
            BY <1>1, <3>1, <3>3 DEF TypeOK
        <3> QED BY <3>2, <3>3
    <2>2. CASE UNCHANGED strategies
        BY <2>2
    <2> QED BY <1>1, <2>1, <2>2
            DEF Next, Call, ReadPreviousLed, InsertVersion, Fail, Return,
                Abandon, Prune, StepBack, storeVars
<1>2. TypeOK /\ [Next]_storeVars => [Kept]_storeVars
    BY <1>1
<1> QED BY <1>2, TypeCorrect, PTL DEF Spec, SignalKept

-----------------------------------------------------------------------------
\* The versions of a strategy have different dates, whatever is deleted and
\* however the clock is set.
THEOREM UniqueDates == Spec => []UniqueVersionDates
<1>1. Init => UniqueVersionDates
    BY DEF Init, UniqueVersionDates
<1>2. ASSUME TypeOK, UniqueVersionDates, [Next]_storeVars
      PROVE  UniqueVersionDates'
    <2> USE <1>2
    <2>1. CASE InsertVersion
        <3>1. strategyCall \in StrategyCall
            BY <2>1, CallInProgress DEF InsertVersion
        <3> QED BY <2>1, <3>1
            DEF UniqueVersionDates, InsertVersion, TypeOK, StrategyCall
    <2>2. CASE Prune
        BY <2>2 DEF UniqueVersionDates, Prune, TypeOK
    <2>3. CASE UNCHANGED versions
        BY <2>3 DEF UniqueVersionDates
    <2> QED BY <2>1, <2>2, <2>3
        DEF Next, Call, UpsertRow, ReadPreviousLed, Fail, Return, Abandon,
            StepBack, storeVars
<1> QED BY <1>1, <1>2, TypeCorrect, PTL DEF Spec

\* Whatever fails, is deleted or happens to the clock: a call that returns Ok
\* has left the edit of its snapshot as the latest version, unless there is a
\* version from the future of the clock.
THEOREM EditIsLatestUnlessFuture == Spec => EditIsLatest
<1> DEFINE s == strategyCall.strategy
           now == SnapshotLed(strategyCall.snap.led)
           Kept == (/\ strategyCall.pc \in {"prev", "insert"}
                    /\ strategyCall'.pc = "ok"
                    /\ now # None) =>
                       \/ SnapshotLed(Latest(versions'[s]).led) = now
                       \/ \E v \in versions[s] : v.date >= clock
<1>1. ASSUME TypeOK, TypeOK', [Next]_storeVars,
             strategyCall.pc \in {"prev", "insert"}, strategyCall'.pc = "ok",
             now # None, \A v \in versions[s] : ~(v.date >= clock)
      PROVE  SnapshotLed(Latest(versions'[s]).led) = now
    <2>1. /\ strategyCall \in StrategyCall /\ s \in Strategies
          /\ versions[s] \in SUBSET Version /\ clock \in Nat
        BY <1>1, CallInProgress DEF TypeOK, StrategyCall
    <2>2. CASE ReadPreviousLed
        \* The edit that was read is the edit of the snapshot.
        <3>1. /\ ~NeedsNewVersion(now, PreviousLed(versions[s]))
              /\ versions' = versions
            <4>1. CASE NeedsNewVersion(now, PreviousLed(versions[s]))
                BY <1>1, <2>1, <2>2, <4>1, AnsweredCall DEF ReadPreviousLed
            <4> QED BY <2>2, <4>1 DEF ReadPreviousLed
        <3>2. PreviousLed(versions[s]) = now
            BY <1>1, <3>1 DEF NeedsNewVersion
        <3> QED BY <1>1, <3>1, <3>2 DEF PreviousLed, StoredLed, SnapshotLed
    <2>3. CASE InsertVersion
        \* The row is inserted, and it is later than those that were there.
        <3> DEFINE row == [id |-> nextId, date |-> clock,
                           led |-> strategyCall.snap.led]
        <3>1. versions'[s] = versions[s] \cup {row}
            <4>1. \A v \in versions[s] : v.date # clock
                BY <1>1, <2>1 DEF Version
            <4> QED BY <1>1, <2>1, <2>3, <4>1 DEF InsertVersion, TypeOK
        <3>2. row \in Version
            BY <1>1, <2>1, <3>1 DEF TypeOK
        <3>3. \A v \in versions[s] : v.date < row.date
            BY <1>1, <2>1 DEF Version
        <3>4. Latest(versions'[s]) = row
            <4> HIDE DEF row
            <4> QED BY <2>1, <3>1, <3>2, <3>3, LatestOfNewer
        <3> QED BY <3>4
    <2>4. CASE Fail \/ Return \/ Abandon
        BY <1>1, <2>1, <2>4 DEF Fail, Return, Abandon, Idle, StrategyCall
    <2>5. CASE Prune \/ StepBack \/ UNCHANGED storeVars
        BY <1>1, <2>5 DEF Prune, StepBack, storeVars
    <2> QED BY <1>1, <2>2, <2>3, <2>4, <2>5 DEF Next, Call, UpsertRow, Idle
<1>2. TypeOK /\ TypeOK' /\ [Next]_storeVars => [Kept]_storeVars
    BY <1>1
<1> QED BY <1>2, TypeCorrect, PTL DEF Spec, EditIsLatest

-----------------------------------------------------------------------------
\* The conditions of the header of strategies.rs: an edit date is stored as it
\* is compared, time goes on, and nobody deletes a version.
Undisturbed ==
    /\ \A text \in Leds : ~text.padded
    /\ "clock" \notin Faults
    /\ "prune" \notin Faults

\* What an undisturbed insert does to the rows of its strategy.
LEMMA InsertedIsLatest ==
    ASSUME Undisturbed, TypeOK, HistoryInv, InsertVersion
    PROVE  LET s == strategyCall.strategy
               row == [id |-> nextId, date |-> clock,
                       led |-> strategyCall.snap.led]
           IN /\ strategyCall \in StrategyCall
              /\ row \in Version
              /\ row \notin versions[s]
              /\ versions' = [versions EXCEPT ![s] = @ \cup {row}]
              /\ Latest(versions'[s]) = row
              /\ \A v \in versions[s] : v.date < row.date /\ v.id < row.id
<1> DEFINE s == strategyCall.strategy
           row == [id |-> nextId, date |-> clock, led |-> strategyCall.snap.led]
<1>1. strategyCall \in StrategyCall
    BY CallInProgress DEF InsertVersion
<1>2. row \in Version
    BY <1>1, StrategyVersionsAssumption
    DEF InsertVersion, TypeOK, Version, VersionId, StrategyCall,
        StrategySnapshot
<1>3. s \in Strategies /\ versions[s] \in SUBSET Version
    BY <1>1 DEF TypeOK, StrategyCall
<1>4. \A v \in versions[s] : v.date < clock /\ v.id < nextId
    BY <1>3 DEF HistoryInv, RowsArePast
<1>5. ASSUME NEW v \in versions[s] PROVE v.date # clock
    BY <1>3, <1>4 DEF TypeOK, Version
<1>6. versions' = [versions EXCEPT ![s] = @ \cup {row}]
    BY <1>5 DEF InsertVersion
<1>7. Latest(versions[s] \cup {row}) = row
    <2> HIDE DEF row, s
    <2>1. \A v \in versions[s] : v.date < row.date
        BY <1>4 DEF row
    <2> QED BY <1>2, <1>3, <2>1, LatestOfNewer
<1>8. versions'[s] = versions[s] \cup {row}
    BY <1>3, <1>6 DEF TypeOK
<1>9. row \notin versions[s]
    BY <1>5
<1> QED BY <1>1, <1>2, <1>4, <1>6, <1>7, <1>8, <1>9

\* An unpadded text is read from the table as it is read from a snapshot.
LEMMA PreviousIsLatest ==
    ASSUME Undisturbed, TypeOK, HistoryInv, NEW s \in Strategies,
           versions[s] # {}
    PROVE  /\ Latest(versions[s]) \in versions[s]
           /\ \A w \in versions[s] : w.date <= Latest(versions[s]).date
           /\ PreviousLed(versions[s]) = SnapshotLed(Latest(versions[s]).led)
<1>1. versions[s] \in SUBSET Version /\ clock \in Nat
    BY DEF TypeOK
<1>2. \A v \in versions[s] : v.date <= clock
    BY <1>1 DEF HistoryInv, RowsArePast, Version
<1>3. /\ Latest(versions[s]) \in versions[s]
      /\ \A w \in versions[s] : w.date <= Latest(versions[s]).date
    BY <1>1, <1>2, LatestIsGreatest
<1>4. Latest(versions[s]).led \in Leds
    BY <1>1, <1>3 DEF Version
<1> QED BY <1>3, <1>4 DEF Undisturbed, PreviousLed, StoredLed, SnapshotLed

LEMMA InsertKeepsHistory ==
    ASSUME Undisturbed, TypeOK, TypeOK', UniqueVersionDates, HistoryInv,
           InsertVersion
    PROVE  HistoryInv'
<1> DEFINE s == strategyCall.strategy
           row == [id |-> nextId, date |-> clock, led |-> strategyCall.snap.led]
<1>1. /\ strategyCall \in StrategyCall
      /\ row \in Version
      /\ versions' = [versions EXCEPT ![s] = @ \cup {row}]
      /\ Latest(versions'[s]) = row
      /\ \A v \in versions[s] : v.date < row.date /\ v.id < row.id
    BY InsertedIsLatest
<1>2. s \in Strategies
    BY <1>1 DEF StrategyCall
<1>3. /\ versions'[s] = versions[s] \cup {row}
      /\ \A t \in Strategies : t # s => versions'[t] = versions[t]
    BY <1>1, <1>2 DEF TypeOK
<1>4. \A t \in Strategies : versions[t] \in SUBSET Version
    BY DEF TypeOK
<1>5. /\ clock \in Nat /\ nextId \in Nat
      /\ clock' = clock + 1 /\ nextId' = nextId + 1
    BY StrategyVersionsAssumption DEF TypeOK, InsertVersion
<1>6. strategyCall' \in StrategyCall /\ strategyCall'.pc \in {"ok", "err"}
          /\ strategyCall'.strategy = s
          /\ strategyCall'.snap = strategyCall.snap
    BY <1>1, AnsweredCall DEF InsertVersion
<1>7. NeedsNewVersion(SnapshotLed(row.led), PreviousLed(versions[s]))
    BY DEF HistoryInv, InsertIsNewEdit, InsertVersion
<1> HIDE DEF s
<1>8. RowsArePast'
    BY <1>1, <1>2, <1>3, <1>4, <1>5 DEF HistoryInv, RowsArePast, Version, VersionId
<1>9. RowsAreDated'
    BY <1>3, <1>7 DEF HistoryInv, RowsAreDated, NeedsNewVersion
<1>10. VersionsFinite'
    <2>1. IsFiniteSet(versions[s] \cup {row})
        BY <1>2, FS_AddElement DEF HistoryInv, VersionsFinite
    <2> QED BY <1>3, <2>1 DEF HistoryInv, VersionsFinite
<1>11. IdOrderIsDateOrder'
    <2>1. ASSUME NEW t \in Strategies, NEW u \in versions'[t],
                 NEW v \in versions'[t]
          PROVE  u.date < v.date <=> u.id < v.id
        <3>1. CASE t # s
            BY <1>3, <2>1, <3>1 DEF HistoryInv, IdOrderIsDateOrder
        <3>2. CASE t = s /\ u \in versions[s] /\ v \in versions[s]
            BY <1>2, <3>2 DEF HistoryInv, IdOrderIsDateOrder
        <3>3. CASE t = s /\ u \in versions[s] /\ v = row
            BY <1>1, <3>3
        <3>4. CASE t = s /\ u = row /\ v \in versions[s]
            <4>1. /\ v.date < row.date /\ v.id < row.id
                  /\ v \in Version /\ row \in Version
                BY <1>1, <1>2, <1>4, <3>4
            <4> QED BY <3>4, <4>1 DEF Version, VersionId
        <3>5. CASE t = s /\ u = row /\ v = row
            BY <1>5, <3>5
        <3> QED BY <1>3, <2>1, <3>1, <3>2, <3>3, <3>4, <3>5
    <2> QED BY <2>1 DEF IdOrderIsDateOrder
<1>12. OneVersionPerEdit'
    <2>1. ASSUME NEW t \in Strategies, NEW u \in versions'[t],
                 NEW v \in versions'[t], Follows(v, u, versions'[t])
          PROVE  SnapshotLed(u.led) # SnapshotLed(v.led)
        <3>1. CASE t # s
            BY <1>3, <2>1, <3>1 DEF HistoryInv, OneVersionPerEdit
        <3>2. CASE t = s /\ u \in versions[s] /\ v \in versions[s]
            <4>1. Follows(v, u, versions[s])
                BY <1>3, <2>1, <3>2 DEF Follows
            <4> QED BY <1>2, <3>2, <4>1 DEF HistoryInv, OneVersionPerEdit
        <3>3. CASE t = s /\ u \in versions[s] /\ v = row
            \* u is the latest row so far, or the latest would come between.
            <4> DEFINE latest == Latest(versions[s])
            <4>1. /\ latest \in versions[s]
                  /\ u.date <= latest.date
                  /\ PreviousLed(versions[s]) = SnapshotLed(latest.led)
                BY <1>2, <3>3, PreviousIsLatest
            <4>2. ~(u.date < latest.date /\ latest.date < row.date)
                BY <1>3, <2>1, <3>3, <4>1 DEF Follows
            <4>3. u.date = latest.date
                <5>1. u \in Version /\ latest \in Version
                    BY <1>2, <1>4, <3>3, <4>1
                <5> QED BY <1>1, <4>1, <4>2, <5>1 DEF Version
            <4>4. u = latest
                BY <1>2, <3>3, <4>1, <4>3 DEF UniqueVersionDates
            <4> QED BY <1>7, <3>3, <4>1, <4>4 DEF NeedsNewVersion
        <3>4. CASE t = s /\ u = row
            <4>1. u.date < v.date
                BY <2>1 DEF Follows
            <4>2. v.date <= u.date
                BY <1>1, <1>2, <1>3, <1>4, <1>5, <2>1, <3>4 DEF Version
            <4>3. u.date \in Nat /\ v.date \in Nat
                BY <1>1, <1>3, <1>4, <2>1, <3>4 DEF Version
            <4> QED BY <4>1, <4>2, <4>3
        <3> QED BY <1>3, <2>1, <3>1, <3>2, <3>3, <3>4
    <2> QED BY <2>1 DEF OneVersionPerEdit
<1>13. InsertIsNewEdit'
    BY <1>6 DEF InsertIsNewEdit
<1>14. LatestIsCurrent'
    BY <1>1, <1>3, <1>6 DEF LatestIsCurrent
<1> QED BY <1>8, <1>9, <1>10, <1>11, <1>12, <1>13, <1>14 DEF HistoryInv

\* A step that leaves versions, clock and sequence alone keeps the invariant
\* when it does not bring a call to "insert" or "ok" that was elsewhere.
LEMMA OtherStepsKeepHistory ==
    ASSUME HistoryInv, UNCHANGED <<versions, nextId, clock>>,
           \/ UNCHANGED strategyCall
           \/ strategyCall'.pc \notin {"insert", "ok"}
    PROVE  HistoryInv'
BY DEF HistoryInv, RowsArePast, RowsAreDated, VersionsFinite,
       IdOrderIsDateOrder, InsertIsNewEdit, OneVersionPerEdit, Follows,
       LatestIsCurrent

LEMMA ReadKeepsHistory ==
    ASSUME Undisturbed, TypeOK, HistoryInv, ReadPreviousLed
    PROVE  HistoryInv'
<1> DEFINE s == strategyCall.strategy
           now == SnapshotLed(strategyCall.snap.led)
           new == NeedsNewVersion(now, PreviousLed(versions[s]))
<1>1. strategyCall \in StrategyCall
    BY CallInProgress DEF ReadPreviousLed
<1>2. /\ strategyCall'.pc \in {IF new THEN "insert" ELSE "ok", "err"}
      /\ strategyCall'.strategy = s
      /\ strategyCall'.snap = strategyCall.snap
      /\ UNCHANGED versions
    BY <1>1, AnsweredCall DEF ReadPreviousLed
<1>3. /\ RowsArePast' /\ RowsAreDated' /\ VersionsFinite'
      /\ IdOrderIsDateOrder' /\ OneVersionPerEdit'
    BY DEF ReadPreviousLed, HistoryInv, RowsArePast, RowsAreDated,
           VersionsFinite, IdOrderIsDateOrder, OneVersionPerEdit, Follows
<1>4. InsertIsNewEdit'
    BY <1>2 DEF InsertIsNewEdit
<1>5. ASSUME strategyCall'.pc = "ok", now # None
      PROVE  /\ versions[s] # {}
             /\ SnapshotLed(Latest(versions[s]).led) = now
    <2>1. PreviousLed(versions[s]) = now
        BY <1>2, <1>5 DEF NeedsNewVersion
    <2>2. versions[s] # {}
        BY <1>5, <2>1 DEF PreviousLed
    <2> QED BY <1>1, <2>1, <2>2, PreviousIsLatest DEF StrategyCall
<1>6. LatestIsCurrent'
    BY <1>2, <1>5 DEF LatestIsCurrent
<1> QED BY <1>3, <1>4, <1>6 DEF HistoryInv

LEMMA HistoryStep ==
    ASSUME Undisturbed, TypeOK, TypeOK', UniqueVersionDates, HistoryInv,
           [Next]_storeVars
    PROVE  HistoryInv'
<1>1. ASSUME NEW s \in Strategies, NEW snap \in StrategySnapshot,
             NEW live \in BOOLEAN, Call(s, snap, live)
      PROVE  HistoryInv'
    BY <1>1, OtherStepsKeepHistory DEF Call
<1>2. CASE UpsertRow
    <2>1. strategyCall'.pc \in {"prev", "err"}
        BY <1>2, CallInProgress, AnsweredCall DEF UpsertRow
    <2> QED BY <1>2, <2>1, OtherStepsKeepHistory DEF UpsertRow
<1>3. CASE ReadPreviousLed
    BY <1>3, ReadKeepsHistory
<1>4. CASE InsertVersion
    BY <1>4, InsertKeepsHistory
<1>5. CASE Fail
    <2>1. strategyCall'.pc = "err"
        BY <1>5, CallInProgress DEF Fail, StrategyCall
    <2> QED BY <1>5, <2>1, OtherStepsKeepHistory DEF Fail
<1>6. CASE Return \/ Abandon
    BY <1>6, OtherStepsKeepHistory DEF Return, Abandon, Idle
<1>7. CASE Prune \/ StepBack
    BY <1>7 DEF Prune, StepBack, Undisturbed
<1>8. CASE UNCHANGED storeVars
    BY <1>8, OtherStepsKeepHistory DEF storeVars
<1> QED BY <1>1, <1>2, <1>3, <1>4, <1>5, <1>6, <1>7, <1>8 DEF Next

LEMMA HistoryInit == Init => HistoryInv
<1> SUFFICES ASSUME Init PROVE HistoryInv
    OBVIOUS
<1>1. VersionsFinite
    BY FS_EmptySet DEF Init, VersionsFinite
<1> QED BY <1>1 DEF Init, Idle, HistoryInv, RowsArePast, RowsAreDated,
                    IdOrderIsDateOrder, InsertIsNewEdit, OneVersionPerEdit,
                    LatestIsCurrent

\* The inductive invariant holds throughout.
THEOREM HistoryInvariant == ASSUME Undisturbed PROVE Spec => []HistoryInv
<1>1. TypeOK /\ TypeOK' /\ UniqueVersionDates /\ HistoryInv
          /\ [Next]_storeVars => HistoryInv'
    BY HistoryStep
<1> QED BY <1>1, HistoryInit, TypeCorrect, UniqueDates, PTL DEF Spec

\* "A new row in strategy_versions only if LastEditDate changed": two versions
\* in succession have different edit dates.
THEOREM NewVersionOnlyForEdit ==
    ASSUME Undisturbed PROVE Spec => []OneVersionPerEdit
<1>1. HistoryInv => OneVersionPerEdit
    BY DEF HistoryInv
<1> QED BY <1>1, HistoryInvariant, PTL

\* No edit is passed over: after a successful upsert the latest version is the
\* edit of the snapshot.
THEOREM EditNotPassedOver ==
    ASSUME Undisturbed PROVE Spec => []LatestIsCurrent
<1>1. HistoryInv => LatestIsCurrent
    BY DEF HistoryInv
<1> QED BY <1>1, HistoryInvariant, PTL

-----------------------------------------------------------------------------
\* Every step of the store is a step of EditHistory or changes nothing in it.
LEMMA StepIsRecord ==
    ASSUME Undisturbed, TypeOK, TypeOK', HistoryInv, [Next]_storeVars
    PROVE  [History!Next]_(History!vars)
<1> DEFINE edits == [s \in Strategies |-> PreviousLed(versions[s])]
           counts == [s \in Strategies |-> Cardinality(versions[s])]
<1>1. CASE UNCHANGED versions
    BY <1>1 DEF History!vars
<1>2. CASE InsertVersion
    <2> DEFINE s == strategyCall.strategy
               row == [id |-> nextId, date |-> clock,
                       led |-> strategyCall.snap.led]
               d == SnapshotLed(row.led)
    <2>1. /\ strategyCall \in StrategyCall
          /\ row \in Version
          /\ row \notin versions[s]
          /\ versions' = [versions EXCEPT ![s] = @ \cup {row}]
          /\ Latest(versions'[s]) = row
        BY <1>2, InsertedIsLatest
    <2>2. s \in Strategies
        BY <2>1 DEF StrategyCall
    <2>3. /\ versions'[s] = versions[s] \cup {row}
          /\ \A t \in Strategies : t # s => versions'[t] = versions[t]
        BY <2>1, <2>2 DEF TypeOK
    <2>4. NeedsNewVersion(d, PreviousLed(versions[s]))
        BY <1>2 DEF HistoryInv, InsertIsNewEdit, InsertVersion
    <2>5. ~row.led.padded /\ d \in EditDates
        BY <2>1, <2>4, LedsAssumption
        DEF Undisturbed, Version, LedText, SnapshotLed, NeedsNewVersion
    <2> HIDE DEF s, row
    <2>6. PreviousLed(versions'[s]) = d
        BY <2>1, <2>3, <2>5 DEF PreviousLed, StoredLed, SnapshotLed
    <2>7. Cardinality(versions'[s]) = Cardinality(versions[s]) + 1
        <3>1. IsFiniteSet(versions[s])
            BY <2>2 DEF HistoryInv, VersionsFinite
        <3> QED BY <2>1, <2>3, <3>1, FS_AddElement
    <2>8. edits' = [edits EXCEPT ![s] = d]
        BY <2>2, <2>3, <2>6
    <2>9. counts' = [counts EXCEPT ![s] = @ + 1]
        BY <2>2, <2>3, <2>7
    <2>10. d # edits[s]
        BY <2>2, <2>4 DEF NeedsNewVersion
    <2>11. History!Record(s, d)
        BY <2>8, <2>9, <2>10 DEF History!Record
    <2> QED BY <2>2, <2>5, <2>11 DEF History!Next
<1>3. CASE Prune
    BY <1>3 DEF Prune, Undisturbed
<1> QED BY <1>1, <1>2, <1>3
        DEF Next, Call, UpsertRow, ReadPreviousLed, Fail, Return, Abandon,
            StepBack, storeVars

\* The three statements of upsert_snapshot, repeated and cut short in any way,
\* keep the history EditHistory promises.
THEOREM StoreImplementsHistory ==
    ASSUME Undisturbed PROVE Spec => ImplementsHistory
<1>1. Init => History!Init
    BY FS_EmptySet DEF Init, History!Init, PreviousLed
<1>2. TypeOK /\ TypeOK' /\ HistoryInv /\ [Next]_storeVars
          => [History!Next]_(History!vars)
    BY StepIsRecord
<1> QED BY <1>1, <1>2, TypeCorrect, HistoryInvariant, PTL
        DEF Spec, ImplementsHistory, History!Spec

=============================================================================
