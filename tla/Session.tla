------------------------------ MODULE Session ------------------------------
(***************************************************************************)
(* One session: the thread that copies the state of one MoonBot server     *)
(* into the database (src/session.rs).  It connects, writes everything     *)
(* the first snapshot holds, and then handles the events of the client one *)
(* by one.  Its upserts are those of StrategyStore and OrderStore, whose   *)
(* statements interleave with the client's thread, with an operator of the *)
(* database and with the end of the process.                               *)
(***************************************************************************)
EXTENDS StrategyVersions, Sequences, Integers, FiniteSets

CONSTANTS
    SignalTypes, Uids, OrderStates,                      \* the two stores
    Gone, Created, Progress, Edited, Schemas, MaxKnown, MaxQueue, \* MoonRuntime
    ModuleSets,   \* the values servers.modules may have
    OtherSchema,  \* what another session has of its server, whatever it is
    Faults        \* those of the other modules, and "connect": connecting
                  \* fails, "snapshot": the client has no snapshot yet,
                  \* "others": other sessions write the table parameters

ASSUME SessionAssumption ==
    /\ EditDates \subseteq Nat
    /\ Created \subseteq OrderStates
    /\ Progress \in [OrderStates -> SUBSET OrderStates]
    /\ None \notin OrderStates \cup Schemas
    /\ Gone \notin OrderStates \cup {None}
    /\ OtherSchema \notin Schemas \cup {None}
    /\ MaxKnown \in Nat /\ MaxQueue \in Nat
    /\ {} \notin ModuleSets   \* load_servers passes over such a server

VARIABLES
    strategies, versions, nextId, clock, strategyCall,          \* StrategyStore
    orders, orderCall,                                          \* OrderStore
    liveStrategies, liveOrders, liveSchema, queue, alive,       \* MoonRuntime
    parameters,    \* the schema the table parameters was last filled from,
                   \* by this session or by another: all write one table
    modules,       \* servers.modules, as read when the process started
    pc,            \* where the thread is
    strategyWork,  \* the snapshots the loop at hand has still to upsert
    orderWork,     \* the orders the loop at hand has still to upsert
    missed         \* history: what was to be written and was given up

Strategy == INSTANCE StrategyStore
Journal == INSTANCE OrderStore
Moon == INSTANCE MoonRuntime

\* A strategy has one of the edit dates that occur, and SignalType may be absent.
ASSUME EditedAssumption == Edited \subseteq Strategy!StrategySnapshot

\* What the modules assume of the parameters they are given, and that a row,
\* an entry and a flag are not None.
ASSUME StoresAssumption ==
    /\ OrderStates \subseteq
           [strat_id : Strategies \cup {None}, status : Nat,
            sell_reason_code : Nat, sell_close_time : Nat,
            bought : Nat, sold : Nat]
    /\ None \notin Strategy!StrategyRow
    /\ None \notin Journal!OrderRow
    /\ None \notin Moon!LiveStrategy
    /\ None \notin BOOLEAN

controlVars == <<parameters, modules, pc, strategyWork, orderWork, missed>>
strategyVars == <<strategies, versions, nextId, clock, strategyCall>>
orderVars == <<orders, orderCall>>
runtimeVars == <<liveStrategies, liveOrders, liveSchema, queue, alive>>
vars == <<strategyVars, orderVars, runtimeVars, controlVars>>

StrategyWork == [strategy : Strategies, snap : Edited, live_checked : BOOLEAN]
OrderWork == [uid : Uids, order : OrderStates]

\* Keys of missed: a strategy, an order, the schema.
Keys == ({"strategy"} \X Strategies) \cup ({"order"} \X Uids)
            \cup {<<"schema">>}

TypeOK ==
    /\ Strategy!TypeOK
    /\ Journal!TypeOK
    /\ Moon!TypeOK
    /\ parameters \in Schemas \cup {None, OtherSchema}
    /\ modules \in ModuleSets
    /\ pc \in {"down", "init", "sync", "loop", "event", "ended"}
    /\ strategyWork \subseteq StrategyWork
    /\ orderWork \subseteq OrderWork
    /\ missed \subseteq Keys

Init ==
    /\ Strategy!Init
    /\ Journal!Init
    /\ Moon!Init
    /\ parameters = None
    /\ modules \in ModuleSets
    /\ pc = "down"
    /\ strategyWork = {}
    /\ orderWork = {}
    /\ missed = {}

-----------------------------------------------------------------------------
\* The database, the token and the server: run_session returns when one fails.
Connect ==
    /\ pc = "down"
    /\ \/ /\ pc' = "init"
          /\ Moon!Connect
       \/ /\ "connect" \in Faults
          /\ pc' = "ended"
          /\ UNCHANGED runtimeVars
    /\ UNCHANGED <<strategyVars, orderVars, parameters, modules,
                   strategyWork, orderWork, missed>>

\* strategy_snapshot_vec with, for each, the live flag of strats().
StrategiesInSnapshot ==
    {[strategy |-> s, snap |-> liveStrategies[s].snap,
      live_checked |-> Moon!LiveChecked(liveStrategies[s])] :
         s \in {t \in Strategies : liveStrategies[t] # None}}

\* The orders of the snapshot that passed BuyDone.
BuyDone == 4

\* Mutant of Executed: orders that are placed are taken as well.
Placed(o) == o.status >= 1

Executed(o) == o.status >= BuyDone

ExecutedInSnapshot ==
    {[uid |-> u, order |-> liveOrders[u]] :
         u \in {t \in Uids : Moon!Listed(t) /\ Executed(liveOrders[t])}}

Enabled(module) == module \in modules

\* Mutant of InitialSync: servers.modules is not regarded.
InitialSyncOfAll ==
    /\ pc = "init"
    /\ pc' = "sync"
    /\ strategyWork' = StrategiesInSnapshot
    /\ orderWork' = ExecutedInSnapshot
    /\ UNCHANGED <<strategyVars, orderVars, runtimeVars,
                   parameters, modules, missed>>

InitialSync ==
    /\ pc = "init"
    /\ \/ /\ pc' = "sync"
          /\ strategyWork' = IF Enabled("listener_strategies")
                             THEN StrategiesInSnapshot ELSE {}
          /\ orderWork' = IF Enabled("listener_orders")
                          THEN ExecutedInSnapshot ELSE {}
          /\ UNCHANGED missed
       \/ /\ "snapshot" \in Faults
          /\ pc' = "loop"
          /\ missed' = Keys
          /\ UNCHANGED <<strategyWork, orderWork>>
    /\ UNCHANGED <<strategyVars, orderVars, runtimeVars,
                   parameters, modules>>

-----------------------------------------------------------------------------
\* The loops over a snapshot: strategies first, then orders.
KeyOfStrategy(w) == <<"strategy", w.strategy>>
KeyOfOrder(w) == <<"order", w.uid>>

StartStrategy ==
    /\ \E w \in strategyWork :
           Strategy!Call(w.strategy, w.snap, w.live_checked)
    /\ UNCHANGED <<orderVars, runtimeVars, controlVars>>

StrategyStatement ==
    /\ \/ Strategy!UpsertRow
       \/ Strategy!ReadPreviousLed
       \/ Strategy!InsertVersion
       \/ Strategy!Fail
    /\ UNCHANGED <<orderVars, runtimeVars, controlVars>>

\* Mutant of FinishStrategy: an error also ends the loop of initial_sync.
FinishStrategyOrSync ==
    /\ Strategy!Return
    /\ LET done == {w \in strategyWork : w.strategy = strategyCall.strategy}
           failed == strategyCall.pc = "err"
       IN /\ strategyWork' = IF failed THEN {} ELSE strategyWork \ done
          /\ missed' = (missed \ {KeyOfStrategy(w) : w \in done})
                 \cup {KeyOfStrategy(w) : w \in IF ~failed THEN {}
                           ELSE IF pc = "sync" THEN done ELSE strategyWork}
    /\ UNCHANGED <<orderVars, runtimeVars, parameters, modules, pc, orderWork>>

\* Mutant of FinishStrategy: after an error the version is tried once more.
FinishStrategyRetry ==
    /\ strategyCall.pc \in {"ok", "err"}
    /\ LET done == {w \in strategyWork : w.strategy = strategyCall.strategy}
           failed == strategyCall.pc = "err"
       IN /\ strategyCall' = IF failed THEN [strategyCall EXCEPT !.pc = "prev"]
                             ELSE Strategy!Idle
          /\ strategyWork' = IF failed THEN strategyWork ELSE strategyWork \ done
          /\ missed' = missed \ {KeyOfStrategy(w) : w \in done}
    /\ UNCHANGED <<strategies, versions, nextId, clock, orderVars, runtimeVars,
                   parameters, modules, pc, orderWork>>

\* initial_sync goes on after an error; in handle_event the `?` ends the loop.
FinishStrategy ==
    /\ Strategy!Return
    /\ LET done == {w \in strategyWork : w.strategy = strategyCall.strategy}
           lost == IF strategyCall.pc = "ok" THEN {}
                   ELSE IF pc = "sync" THEN done ELSE strategyWork
       IN /\ strategyWork' = strategyWork \ (done \cup lost)
          /\ missed' = (missed \ {KeyOfStrategy(w) : w \in done})
                           \cup {KeyOfStrategy(w) : w \in lost}
    /\ UNCHANGED <<orderVars, runtimeVars, parameters, modules, pc,
                   orderWork>>

\* Mutant of StartOrder: the orders do not wait for the strategies.
StartOrderEarly ==
    /\ strategyCall = Strategy!Idle
    /\ \E w \in orderWork : Journal!Upsert(w.uid, w.order)
    /\ UNCHANGED <<strategies, clock, strategyCall, runtimeVars, controlVars>>

StartOrder ==
    /\ strategyWork = {}
    /\ \E w \in orderWork : Journal!Upsert(w.uid, w.order)
    /\ UNCHANGED <<strategies, clock, strategyCall, runtimeVars,
                   controlVars>>

OrderStatement ==
    /\ \/ Journal!LookupCurrentVersionId
       \/ Journal!WriteRow
       \/ Journal!Fail
    /\ UNCHANGED <<strategies, clock, strategyCall, runtimeVars,
                   controlVars>>

FinishOrder ==
    /\ Journal!Return
    /\ LET done == {w \in orderWork : w.uid = orderCall.uid}
           lost == IF orderCall.pc = "ok" THEN {}
                   ELSE IF pc = "sync" THEN done ELSE orderWork
       IN /\ orderWork' = orderWork \ (done \cup lost)
          /\ missed' = (missed \ {KeyOfOrder(w) : w \in done})
                           \cup {KeyOfOrder(w) : w \in lost}
    /\ UNCHANGED <<strategies, clock, strategyCall, runtimeVars,
                   parameters, modules, pc, strategyWork>>

Done ==
    /\ pc \in {"sync", "event"}
    /\ strategyWork = {} /\ orderWork = {}
    /\ pc' = "loop"
    /\ UNCHANGED <<strategyVars, orderVars, runtimeVars, parameters,
                   modules, strategyWork, orderWork, missed>>

-----------------------------------------------------------------------------
\* handle_event.  client.snapshot() is read when the event is handled; without
\* one the handler does nothing, and the keys it was about are missed.
Handle(kind) ==
    /\ pc = "loop"
    /\ queue # <<>>
    /\ Head(queue).kind = kind
    /\ Moon!Receive
    /\ UNCHANGED <<strategyVars, orderVars, modules>>

NoSnapshot(keys) ==
    /\ "snapshot" \in Faults
    /\ missed' = missed \cup keys
    /\ UNCHANGED <<parameters, pc, strategyWork, orderWork>>

\* Mutant of OnSchemaApplied: the schema belongs to listener_strategies.
OnSchemaAppliedIfListening ==
    /\ Handle("schema")
    /\ parameters' = IF Enabled("listener_strategies") THEN liveSchema
                     ELSE parameters
    /\ missed' = missed \ {<<"schema">>}
    /\ UNCHANGED <<pc, strategyWork, orderWork>>

\* upsert_schema, one transaction; an error is logged.
OnSchemaApplied ==
    /\ Handle("schema")
    /\ \/ /\ parameters' = IF liveSchema = None THEN parameters
                            ELSE liveSchema
          /\ missed' = missed \ {<<"schema">>}
          /\ UNCHANGED <<pc, strategyWork, orderWork>>
       \/ /\ "statement" \in Faults
          /\ missed' = missed \cup {<<"schema">>}
          /\ UNCHANGED <<parameters, pc, strategyWork, orderWork>>
       \/ NoSnapshot({<<"schema">>})

\* Mutant of OnStrategies: strategies that are in the table are passed by.
OnStrategiesNewOnly ==
    /\ Enabled("listener_strategies")
    /\ Handle("strat")
    /\ pc' = "event"
    /\ strategyWork' = {w \in StrategiesInSnapshot :
                            strategies[w.strategy] = None}
    /\ UNCHANGED <<parameters, orderWork, missed>>

OnStrategies ==
    /\ Enabled("listener_strategies")
    /\ Handle("strat")
    /\ \/ /\ pc' = "event"
          /\ strategyWork' = StrategiesInSnapshot
          /\ UNCHANGED <<parameters, orderWork, missed>>
       \/ NoSnapshot({"strategy"} \X Strategies)

\* Mutants of OnOrderUpdated: only BuyDone, or all but BuyDone, is written.
OnOrderUpdatedIf(Written(_)) ==
    /\ Enabled("listener_orders")
    /\ Handle("updated")
    /\ pc' = "event"
    /\ orderWork' = {w \in ExecutedInSnapshot :
                         w.uid = Head(queue).uid /\ Written(w.order.status)}
    /\ UNCHANGED <<parameters, strategyWork, missed>>

OnOrderBought == LET Is4(n) == n = BuyDone IN OnOrderUpdatedIf(Is4)
OnOrderSold == LET IsMore(n) == n > BuyDone IN OnOrderUpdatedIf(IsMore)

\* An order the snapshot does not list, or that is not executed, is passed by.
OnOrderUpdated ==
    /\ Enabled("listener_orders")
    /\ Handle("updated")
    /\ LET uid == Head(queue).uid
       IN \/ /\ pc' = "event"
             /\ orderWork' = {w \in ExecutedInSnapshot : w.uid = uid}
             /\ UNCHANGED <<parameters, strategyWork, missed>>
          \/ NoSnapshot({<<"order", uid>>})

OnOrdersSnapshot ==
    /\ Enabled("listener_orders")
    /\ Handle("orders")
    /\ \/ /\ pc' = "event"
          /\ orderWork' = ExecutedInSnapshot
          /\ UNCHANGED <<parameters, strategyWork, missed>>
       \/ NoSnapshot({"order"} \X Uids)

\* Created and Removed, and what belongs to a module that is switched off.
OnIgnored ==
    /\ \/ Handle("created")
       \/ Handle("removed")
       \/ ~Enabled("listener_strategies") /\ Handle("strat")
       \/ /\ ~Enabled("listener_orders")
          /\ Handle("updated") \/ Handle("orders")
    /\ UNCHANGED <<parameters, pc, strategyWork, orderWork, missed>>

\* The channel reports Disconnected once it is empty.
OnDisconnected ==
    /\ pc = "loop"
    /\ queue = <<>> /\ ~alive
    /\ pc' = "ended"
    /\ UNCHANGED <<strategyVars, orderVars, runtimeVars, parameters,
                   modules, strategyWork, orderWork, missed>>

Thread ==
    \/ Connect \/ InitialSync
    \/ StartStrategy \/ StrategyStatement \/ FinishStrategy
    \/ StartOrder \/ OrderStatement \/ FinishOrder \/ Done
    \/ OnSchemaApplied \/ OnStrategies \/ OnOrderUpdated \/ OnOrdersSnapshot
    \/ OnIgnored \/ OnDisconnected

-----------------------------------------------------------------------------
RuntimeStep ==
    /\ Moon!Next
    /\ UNCHANGED <<strategyVars, orderVars, controlVars>>

\* Mutant of PruneVersion: the foreign key without ON DELETE SET NULL.
PruneVersionOnly ==
    /\ Strategy!Prune
    /\ UNCHANGED <<orderVars, runtimeVars, controlVars>>

\* An operator deletes a version: ON DELETE SET NULL unlinks its orders.
PruneVersion ==
    /\ Strategy!Prune
    /\ \E s \in Strategies : \E v \in versions[s] \ versions'[s] :
           Journal!Unlink(v.id)
    /\ UNCHANGED <<orderCall, runtimeVars, controlVars>>

\* Another session of the process handles a schema of its own server: the rows
\* of parameters belong to no server. (migrations/006)
OtherSession ==
    /\ "others" \in Faults
    /\ parameters' = OtherSchema
    /\ UNCHANGED <<strategyVars, orderVars, runtimeVars, modules, pc,
                   strategyWork, orderWork, missed>>

ClockStepsBack ==
    /\ Strategy!StepBack
    /\ UNCHANGED <<orderVars, runtimeVars, controlVars>>

\* The process is killed and started again; the tables stay, and
\* servers.modules is read anew.
Restart ==
    /\ "crash" \in Faults
    /\ pc # "down"
    /\ pc' = "down"
    /\ modules' \in ModuleSets
    /\ strategyCall' = Strategy!Idle
    /\ orderCall' = Journal!Idle
    /\ strategyWork' = {} /\ orderWork' = {} /\ missed' = {}
    /\ Moon!Kill
    /\ UNCHANGED <<strategies, versions, nextId, clock, orders, parameters>>

Next ==
    \/ Thread
    \/ RuntimeStep
    \/ PruneVersion
    \/ OtherSession
    \/ ClockStepsBack
    \/ Restart

Spec == Init /\ [][Next]_vars

\* The thread is never held up for ever: it waits for one thing at a time,
\* the answer of the database or an event, and takes the events in order.
FairSpec == Spec /\ WF_vars(Thread)

-----------------------------------------------------------------------------
\* The thread waits for an event, none is under way, and the client is up.
Quiescent == pc = "loop" /\ queue = <<>> /\ alive

\* When nothing is under way the tables agree with the server for every
\* strategy whose last upsert was not given up: its flag is the live one, and
\* the latest version is the edit the server has.  Events carry no state, so
\* this rests on the order of snapshot, event and handler.
\* (Event::Strat in handle_event, and initial_sync)
StrategiesFollowServer ==
    (Quiescent /\ Enabled("listener_strategies")) =>
        \A s \in Strategies :
            LET live == liveStrategies[s]
            IN (live # None /\ <<"strategy", s>> \notin missed) =>
                   /\ strategies[s] # None
                   /\ strategies[s].checked = (live.info = TRUE)
                   /\ strategies[s].is_active => live.snap.runs
                   /\ versions[s] # {}
                   /\ SnapshotLed(Latest(versions[s]).led)
                          = SnapshotLed(live.snap.led)

\* The same for the executed orders the server lists.
JournalFollowsServer ==
    (Quiescent /\ Enabled("listener_orders")) =>
        \A u \in Uids :
            (Moon!Listed(u) /\ Executed(liveOrders[u])
                 /\ <<"order", u>> \notin missed) =>
                /\ orders[u] # None
                /\ orders[u].status = liveOrders[u].status

\* The table parameters was filled from the schema the client has, unless
\* another session has filled it since: not from an older schema of this
\* server, and not left empty. (Event::Strat(SchemaApplied) in handle_event)
ParametersFollowSchema ==
    (Quiescent /\ liveSchema # None /\ <<"schema">> \notin missed) =>
        parameters \in {liveSchema, OtherSchema}

\* "The database is a journal of real trades": a row is first written past
\* BuyDone, and is not set back to a state its order has left, although each
\* loop writes from a snapshot that grows old while it runs, is cut short, and
\* starts anew with the process. (handle_event, Event::Order)
JournalGoesForward ==
    [][\A u \in Uids :
           orders'[u] # orders[u] =>
               orders'[u].status >= IF orders[u] = None THEN BuyDone
                                    ELSE orders[u].status]_vars

\* A trade is linked to the version that is the latest, when its row is written,
\* of the strategy it is reported with, although the id was read by an earlier
\* statement, and also when versions are deleted and the clock is set back.
\* (storage::orders::upsert)
LinkIsLatestWhenWritten ==
    [][LET vs == Journal!VersionsOf(orderCall.order.strat_id)
       IN (orderCall.pc = "write" /\ orderCall'.pc = "ok" /\ vs # {}) =>
              orders'[orderCall.uid].strategy_version_id = Latest(vs).id]_vars

\* initial_sync writes the strategies before the orders, so that an order of a
\* strategy that was written is linked to a version of it.
SyncLinksOrders ==
    LET s == orderCall.order.strat_id
    IN (/\ pc = "sync"
        /\ orderCall.pc = "ok"
        /\ s # None
        /\ Enabled("listener_strategies")
        /\ strategies[s] # None
        /\ <<"strategy", s>> \notin missed) =>
           \E v \in versions[s] :
               v.id = orders[orderCall.uid].strategy_version_id

\* A table of a module that is switched off for the server is not written.
ModulesOffWriteNothing ==
    [][/\ ~Enabled("listener_strategies") =>
              UNCHANGED <<strategies, nextId>>
       /\ ~Enabled("listener_orders") =>
              \A u \in Uids :
                  (orders'[u] # orders[u]) =>
                      orders'[u] = Journal!Unlinked(orders[u],
                                       orders[u].strategy_version_id)]_vars

\* The session drives each store by its interface, and its version table is an
\* environment OrderStore allows: what is shown of the stores holds here.
ImplementsStrategyStore == Strategy!Spec
ImplementsOrderStore == Journal!Spec

\* Every state of an executed order reaches the journal, itself or through a
\* later one that overtakes it, as long as nothing fails: "we shall see it as
\* Updated when the status reaches BuyDone". (OrderEvent::Created and Updated)
ExecutedTradesReachJournal ==
    \A u \in Uids, o \in OrderStates :
        (liveOrders[u] = o /\ Executed(o)) ~>
            (orders[u] # None /\ orders[u].status >= o.status)

\* The same for a trade whose Updated event is on its way, when the server may
\* remove orders from its list. (handle_event, OrderEvent::Created and Updated)
UpdatedTradesReachJournal ==
    \A u \in Uids :
        (/\ Moon!Listed(u) /\ Executed(liveOrders[u])
         /\ \E i \in DOMAIN queue : queue[i] = [kind |-> "updated", uid |-> u])
            ~> orders[u] # None

\* Every edit reaches the history, unless the next edit overtakes it.
\* (Event::Strat in handle_event)
EditsReachHistory ==
    \A s \in Strategies, d \in EditDates :
        LET LiveAt == /\ liveStrategies[s] # None
                      /\ liveStrategies[s].snap.led.date = d
        IN LiveAt ~> (~LiveAt \/ \E v \in versions[s] : v.led.date = d)

=============================================================================
