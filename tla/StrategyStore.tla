--------------------------- MODULE StrategyStore ---------------------------
(***************************************************************************)
(* storage::strategies::upsert_snapshot against the tables strategies and  *)
(* strategy_versions of one server (src/storage/strategies.rs).            *)
(*                                                                         *)
(* One call is three statements, each a transaction of its own:            *)
(*                                                                         *)
(*   "row"     UPSERT of the row of strategies                             *)
(*   "prev"    SELECT of the edit date of the latest version               *)
(*   "insert"  INSERT of a new version, when the edit date differs         *)
(*                                                                         *)
(* A session is one thread, so one call is in progress at a time; between  *)
(* two statements an operator may delete a version, the database clock may *)
(* be set back, and the process may be killed.                             *)
(***************************************************************************)
EXTENDS StrategyVersions, FiniteSets

CONSTANTS
    SignalTypes,   \* the SignalType texts that occur
    Faults         \* which of the failures below may happen

\* "statement": a statement fails, or is applied and its answer lost.
\* "crash": the process is killed.  "prune": an operator deletes a version.
\* "clock": the clock of the database is set back.
ASSUME StrategyStoreAssumption == None \notin SignalTypes

VARIABLES
    strategies,    \* table strategies: a row or None per strategy
    versions,      \* table strategy_versions: a set of rows per strategy
    nextId,        \* the next value of strategy_versions.id
    clock,         \* NOW() of the database
    strategyCall   \* the call of upsert_snapshot in progress

storeVars == <<strategies, versions, nextId, clock, strategyCall>>

\* runs is can_auto_buy() || run_detect_on_kernel().  A snapshot also has a
\* checked of its own, which upsert_snapshot does not read: see Session.
StrategySnapshot ==
    [led : Leds, signal_type : SignalTypes \cup {None}, runs : BOOLEAN]

StrategyRow ==
    [signal_type : SignalTypes \cup {None}, checked : BOOLEAN,
     is_active : BOOLEAN]

ASSUME StrategyRowAssumption == None \notin StrategyRow

Idle == [pc |-> "idle"]

StrategyCall ==
    [pc : {"row", "prev", "insert", "ok", "err"}, strategy : Strategies,
     snap : StrategySnapshot, live_checked : BOOLEAN]

TypeOK ==
    /\ strategies \in [Strategies -> StrategyRow \cup {None}]
    /\ versions \in [Strategies -> SUBSET Version]
    /\ nextId \in 1 .. MaxVersionId + 1
    /\ clock \in Nat
    /\ strategyCall \in {Idle} \cup StrategyCall

Init ==
    /\ strategies = [s \in Strategies |-> None]
    /\ versions = [s \in Strategies |-> {}]
    /\ nextId = 1
    /\ clock = 0
    /\ strategyCall = Idle

-----------------------------------------------------------------------------
\* A statement ends with its answer, or with an error after it was applied.
Answered(next) ==
    \E pc \in {next} \cup (IF "statement" \in Faults THEN {"err"} ELSE {}) :
        strategyCall' = [strategyCall EXCEPT !.pc = pc]

Call(s, snap, live) ==
    /\ strategyCall = Idle
    /\ strategyCall' = [pc |-> "row", strategy |-> s, snap |-> snap,
                        live_checked |-> live]
    /\ UNCHANGED <<strategies, versions, nextId, clock>>

\* Mutant of UpsertedRow: signal_type = EXCLUDED.signal_type.
OverwrittenRow(row, snap, live) ==
    [signal_type |-> snap.signal_type, checked |-> live,
     is_active |-> live /\ snap.runs]

\* Mutant of UpsertedRow: is_active is an Option, live.then(|| runs), so NULL
\* gets into a NOT NULL column. (migrations/003)
NullableActive(row, snap, live) ==
    [signal_type |-> IF snap.signal_type = None /\ row # None
                     THEN row.signal_type ELSE snap.signal_type,
     checked |-> live,
     is_active |-> IF live THEN snap.runs ELSE None]

\* EXCLUDED.signal_type is NULL when the snapshot has no such field: the
\* UPSERT then keeps the one the row has.
UpsertedRow(row, snap, live) ==
    [signal_type |-> IF snap.signal_type = None /\ row # None
                     THEN row.signal_type ELSE snap.signal_type,
     checked |-> live,
     is_active |-> live /\ snap.runs]

UpsertRow ==
    /\ strategyCall.pc = "row"
    /\ LET s == strategyCall.strategy
       IN strategies' = [strategies EXCEPT ![s] =
              UpsertedRow(@, strategyCall.snap, strategyCall.live_checked)]
    /\ Answered("prev")
    /\ UNCHANGED <<versions, nextId, clock>>

\* Mutant of ReadPreviousLed: the latest version of any strategy.
ReadAnyPreviousLed ==
    /\ strategyCall.pc = "prev"
    /\ Answered(IF NeedsNewVersion(SnapshotLed(strategyCall.snap.led),
                    PreviousLed(UNION {versions[s] : s \in Strategies}))
                THEN "insert" ELSE "ok")
    /\ UNCHANGED <<strategies, versions, nextId, clock>>

ReadPreviousLed ==
    /\ strategyCall.pc = "prev"
    /\ Answered(IF NeedsNewVersion(SnapshotLed(strategyCall.snap.led),
                                   PreviousLed(versions[strategyCall.strategy]))
                THEN "insert" ELSE "ok")
    /\ UNCHANGED <<strategies, versions, nextId, clock>>

\* The sequence is advanced even when ON CONFLICT DO NOTHING drops the row.
InsertVersion ==
    /\ strategyCall.pc = "insert"
    /\ nextId <= MaxVersionId
    /\ LET s == strategyCall.strategy
           dated == \E v \in versions[s] : v.date = clock
           row == [id |-> nextId, date |-> clock, led |-> strategyCall.snap.led]
       IN versions' = IF dated THEN versions
                      ELSE [versions EXCEPT ![s] = @ \cup {row}]
    /\ nextId' = nextId + 1
    /\ clock' = clock + 1
    /\ Answered("ok")
    /\ UNCHANGED strategies

\* A statement that is not applied; the sequence may have reached its end.
Fail ==
    /\ strategyCall.pc \in {"row", "prev", "insert"}
    /\ \/ "statement" \in Faults
       \/ strategyCall.pc = "insert" /\ nextId > MaxVersionId
    /\ strategyCall' = [strategyCall EXCEPT !.pc = "err"]
    /\ UNCHANGED <<strategies, versions, nextId, clock>>

Return ==
    /\ strategyCall.pc \in {"ok", "err"}
    /\ strategyCall' = Idle
    /\ UNCHANGED <<strategies, versions, nextId, clock>>

\* The process is killed: what its statements did so far stays.
Abandon ==
    /\ "crash" \in Faults
    /\ strategyCall # Idle
    /\ strategyCall' = Idle
    /\ UNCHANGED <<strategies, versions, nextId, clock>>

Prune ==
    /\ "prune" \in Faults
    /\ \E s \in Strategies : \E v \in versions[s] :
           versions' = [versions EXCEPT ![s] = @ \ {v}]
    /\ UNCHANGED <<strategies, nextId, clock, strategyCall>>

StepBack ==
    /\ "clock" \in Faults
    /\ \E t \in 0 .. clock : t # clock /\ clock' = t
    /\ UNCHANGED <<strategies, versions, nextId, strategyCall>>

Next ==
    \/ \E s \in Strategies, snap \in StrategySnapshot, live \in BOOLEAN :
           Call(s, snap, live)
    \/ UpsertRow
    \/ ReadPreviousLed
    \/ InsertVersion
    \/ Fail
    \/ Return
    \/ Abandon
    \/ Prune
    \/ StepBack

Spec == Init /\ [][Next]_storeVars

-----------------------------------------------------------------------------
\* v is the version that follows u in the history vs of one strategy.
Follows(v, u, vs) ==
    /\ u.date < v.date
    /\ \A w \in vs : ~(u.date < w.date /\ w.date < v.date)

\* A new row of strategy_versions only when LastEditDate changed: two
\* versions in succession never have the same edit date, however often a
\* snapshot is repeated, its upsert is cut short, and the upsert is repeated.
\* (header of src/storage/strategies.rs)
OneVersionPerEdit ==
    \A s \in Strategies : \A u, v \in versions[s] :
        Follows(v, u, versions[s]) => SnapshotLed(u.led) # SnapshotLed(v.led)

\* When upsert_snapshot returns Ok, the latest version of the strategy is the
\* edit the snapshot carried: no edit is passed over, although the row of
\* strategies and the version are written by separate statements.
LatestIsCurrent ==
    (strategyCall.pc = "ok" /\ SnapshotLed(strategyCall.snap.led) # None) =>
        LET vs == versions[strategyCall.strategy]
        IN /\ vs # {}
           /\ SnapshotLed(Latest(vs).led) = SnapshotLed(strategyCall.snap.led)

\* The same under every failure, with versions deleted and the clock of the
\* database set back: an edit is passed over only while there is a version
\* from the future of that clock.
EditIsLatest ==
    [][LET s == strategyCall.strategy
           now == SnapshotLed(strategyCall.snap.led)
       IN (/\ strategyCall.pc \in {"prev", "insert"}
           /\ strategyCall'.pc = "ok"
           /\ now # None) =>
              \/ SnapshotLed(Latest(versions'[s]).led) = now
              \/ \E v \in versions[s] : v.date >= clock]_storeVars

\* A snapshot without SignalType does not erase the one that is known.
SignalKept ==
    [][\A s \in Strategies :
           (strategies[s] # None /\ strategies[s].signal_type # None) =>
               strategies'[s].signal_type # None]_storeVars

\* Without the clock set back and without deletions, the order of the ids is
\* the order of the dates, so "latest" by version_date is the newest row.
IdOrderIsDateOrder ==
    \A s \in Strategies : \A u, v \in versions[s] :
        u.date < v.date <=> u.id < v.id

-----------------------------------------------------------------------------
\* The versions of a strategy have different dates: UNIQUE (strategy_id,
\* version_date) in the table.
UniqueVersionDates ==
    \A s \in Strategies : \A u, v \in versions[s] : u.date = v.date => u = v

\* What OneVersionPerEdit and LatestIsCurrent rest on: every row is older than
\* the next one will be and has a date, and a call that is about to insert
\* still has an edit the latest row has not.
RowsArePast ==
    \A s \in Strategies : \A v \in versions[s] :
        v.date < clock /\ v.id < nextId

RowsAreDated ==
    \A s \in Strategies : \A v \in versions[s] : SnapshotLed(v.led) # None

VersionsFinite == \A s \in Strategies : IsFiniteSet(versions[s])

InsertIsNewEdit ==
    strategyCall.pc = "insert" =>
        NeedsNewVersion(SnapshotLed(strategyCall.snap.led),
                        PreviousLed(versions[strategyCall.strategy]))

\* The inductive invariant, when the texts are clean and neither clock nor
\* operator interferes: see StrategyStoreProofs.
HistoryInv ==
    /\ RowsArePast
    /\ RowsAreDated
    /\ VersionsFinite
    /\ IdOrderIsDateOrder
    /\ InsertIsNewEdit
    /\ OneVersionPerEdit
    /\ LatestIsCurrent

\* The table is the history its readers are promised: see EditHistory.
History == INSTANCE EditHistory WITH
    edit <- [s \in Strategies |-> PreviousLed(versions[s])],
    rows <- [s \in Strategies |-> Cardinality(versions[s])]

ImplementsHistory == History!Spec

=============================================================================
