------------------------- MODULE SessionInvariants -------------------------
(***************************************************************************)
(* What the properties of Session rest on: the invariants that relate the  *)
(* loops, the calls in progress, the events on their way and the tables.   *)
(* Each is a conjunction of named parts and inductive, given the types and *)
(* the ones before it: see SessionProofs.                                  *)
(***************************************************************************)
EXTENDS Session

-----------------------------------------------------------------------------
\* What the properties suppose of the server and of the database, where they
\* do not hold under every failure.

\* An order appears before it is executed.
OrdersAppearOpen == \A o \in Created : o.status < BuyDone

\* An order does not go back to a state before the one it is in.
OrdersGoForward ==
    \A o \in OrderStates : \A p \in Progress[o] : o.status <= p.status

\* Every edit has a date the code can read: one without is not a version.
EditsAreDated == \A e \in Edited : SnapshotLed(e.led) # None

-----------------------------------------------------------------------------
\* The tables: the dates of the versions are bounded, their ids are given out
\* once, and a call about to write an order has an id of the strategy its
\* report names.
TablesInv ==
    /\ clock < nextId
    /\ Journal!RowsArePast
    /\ Journal!IdsAreUnique
    /\ Journal!CallVersionIsOwn
    /\ Strategy!UniqueVersionDates

\* Only a loop has work, for each strategy and order once, and only that of a
\* module that is switched on.
WorkInLoop ==
    pc \notin {"sync", "event"} => strategyWork = {} /\ orderWork = {}

WorkIsSingle ==
    /\ \A v, w \in strategyWork : v.strategy = w.strategy => v = w
    /\ \A v, w \in orderWork : v.uid = w.uid => v = w

WorkIsEnabled ==
    /\ strategyWork # {} => Enabled("listener_strategies")
    /\ orderWork # {} => Enabled("listener_orders")

\* What is in the loops' work came from the client.
WorkIsKnown ==
    /\ \A w \in strategyWork : liveStrategies[w.strategy] # None
    /\ \A w \in orderWork : liveOrders[w.uid] # None

\* A call in progress is for one of the works, and the orders wait for the
\* strategies.
StrategyCallIsWork ==
    strategyCall # Strategy!Idle =>
        [strategy |-> strategyCall.strategy, snap |-> strategyCall.snap,
         live_checked |-> strategyCall.live_checked] \in strategyWork

OrderCallIsWork ==
    orderCall # Journal!Idle =>
        /\ strategyWork = {}
        /\ [uid |-> orderCall.uid, order |-> orderCall.order] \in orderWork

LoopInv ==
    /\ WorkInLoop
    /\ WorkIsSingle
    /\ WorkIsEnabled
    /\ WorkIsKnown
    /\ StrategyCallIsWork
    /\ OrderCallIsWork

-----------------------------------------------------------------------------
\* For JournalGoesForward: the rows are behind the work, and both are behind
\* the orders the server lists.
RowsAreBehind ==
    \A u \in Uids :
        orders[u] # None =>
            /\ liveOrders[u] # None
            /\ Moon!Listed(u) => orders[u].status <= liveOrders[u].status

WorkIsBetween ==
    \A w \in orderWork :
        /\ Executed(w.order)
        /\ Moon!Listed(w.uid) => w.order.status <= liveOrders[w.uid].status
        /\ orders[w.uid] # None => orders[w.uid].status <= w.order.status

ForwardInv == RowsAreBehind /\ WorkIsBetween

\* For LinkIsLatestWhenWritten: the version a call is about to write was the
\* latest when it was read, and is the latest still, or is deleted; if there
\* was none there is none.
HeldVersionIsLatest ==
    orderCall.pc = "write" =>
        LET vs == Journal!VersionsOf(orderCall.order.strat_id)
        IN /\ orderCall.version = None => vs = {}
           /\ \A v \in vs : v.id = orderCall.version => v = Latest(vs)

-----------------------------------------------------------------------------
\* A client runs only in a session that has connected and not ended.
AliveInSession == alive => pc \in {"init", "sync", "loop", "event"}

InSession == alive /\ pc \in {"sync", "loop", "event"}

\* An event is on its way that makes the session read the schema, all the
\* strategies, the order u.
SchemaPending == \E i \in DOMAIN queue : queue[i].kind = "schema"

StrategiesPending == \E i \in DOMAIN queue : queue[i].kind = "strat"

OrderPending(u) ==
    \E i \in DOMAIN queue :
        \/ queue[i].kind = "orders"
        \/ queue[i].kind = "updated" /\ queue[i].uid = u

\* For ParametersFollowSchema.
SchemaInv ==
    /\ AliveInSession
    /\ (alive /\ liveSchema # None /\ <<"schema">> \notin missed) =>
           parameters \in {liveSchema, OtherSchema} \/ SchemaPending

\* For JournalFollowsServer: what was read is as the server has it, or there
\* is an event on its way; a call that has returned Ok has written its order;
\* and an executed order has been written, is work, or has an event.
OrderWorkIsLive ==
    alive => \A w \in orderWork :
                 Moon!Listed(w.uid) =>
                     liveOrders[w.uid] = w.order \/ OrderPending(w.uid)

OrderWritten ==
    orderCall.pc = "ok" =>
        /\ orders[orderCall.uid] # None
        /\ orders[orderCall.uid].status = orderCall.order.status

OrdersAccounted ==
    (InSession /\ Enabled("listener_orders")) =>
        \A u \in Uids :
            (Moon!Listed(u) /\ Executed(liveOrders[u])
                 /\ <<"order", u>> \notin missed) =>
                \/ OrderPending(u)
                \/ \E w \in orderWork : w.uid = u
                \/ /\ orders[u] # None
                   /\ orders[u].status = liveOrders[u].status

JournalInv ==
    /\ AliveInSession
    /\ OrderWorkIsLive
    /\ OrderWritten
    /\ OrdersAccounted

-----------------------------------------------------------------------------
\* The row of s was written from the work w; the latest version is its edit,
\* if that has a date.
RowIsOf(s, w) ==
    /\ strategies[s] # None
    /\ strategies[s].checked = w.live_checked
    /\ strategies[s].is_active => w.snap.runs

VersionIsOf(s, w) ==
    SnapshotLed(w.snap.led) # None =>
        /\ versions[s] # {}
        /\ SnapshotLed(Latest(versions[s]).led) = SnapshotLed(w.snap.led)

\* The client knows the strategy s and it was not given up; what a loop would
\* write of it now; it waits in the loop at hand.
StrategyDue(s) == liveStrategies[s] # None /\ <<"strategy", s>> \notin missed

LiveWork(s) ==
    [strategy |-> s, snap |-> liveStrategies[s].snap,
     live_checked |-> Moon!LiveChecked(liveStrategies[s])]

StrategyWorked(s) == \E w \in strategyWork : w.strategy = s

\* The two halves of StrategiesFollowServer.  The first holds whatever an
\* operator deletes, whatever the clock does and with edits that have no date.
RowsFollowServer ==
    (Quiescent /\ Enabled("listener_strategies")) =>
        \A s \in Strategies :
            StrategyDue(s) =>
                /\ strategies[s] # None
                /\ strategies[s].checked = (liveStrategies[s].info = TRUE)
                /\ strategies[s].is_active => liveStrategies[s].snap.runs

VersionsFollowServer ==
    (Quiescent /\ Enabled("listener_strategies")) =>
        \A s \in Strategies :
            (/\ StrategyDue(s)
             /\ SnapshotLed(liveStrategies[s].snap.led) # None) =>
                /\ versions[s] # {}
                /\ SnapshotLed(Latest(versions[s]).led)
                       = SnapshotLed(liveStrategies[s].snap.led)

\* For RowsFollowServer, the same three parts as for the journal.
StrategyWorkIsLive ==
    alive => \A w \in strategyWork :
                 w = LiveWork(w.strategy) \/ StrategiesPending

StrategyRowWritten ==
    strategyCall.pc \in {"prev", "insert", "ok"} =>
        RowIsOf(strategyCall.strategy, strategyCall)

RowsAccounted ==
    (InSession /\ Enabled("listener_strategies")) =>
        \A s \in Strategies :
            StrategyDue(s) =>
                \/ StrategiesPending
                \/ StrategyWorked(s)
                \/ RowIsOf(s, LiveWork(s))

StrategyRowsInv ==
    /\ AliveInSession
    /\ StrategyWorkIsLive
    /\ StrategyRowWritten
    /\ RowsAccounted

\* For VersionsFollowServer.
StrategyVersionWritten ==
    strategyCall.pc = "ok" => VersionIsOf(strategyCall.strategy, strategyCall)

VersionsAccounted ==
    (InSession /\ Enabled("listener_strategies")) =>
        \A s \in Strategies :
            StrategyDue(s) =>
                \/ StrategiesPending
                \/ StrategyWorked(s)
                \/ VersionIsOf(s, LiveWork(s))

StrategyVersionsInv == StrategyVersionWritten /\ VersionsAccounted

\* For SyncLinksOrders: a strategy that is in the table and was not given up
\* has a version by the time the orders are written, and so is linked.
RowsAreKnown ==
    \A s \in Strategies : strategies[s] # None => liveStrategies[s] # None

UpsertedHasVersion ==
    strategyCall.pc = "ok" => versions[strategyCall.strategy] # {}

WrittenInSync(s) ==
    /\ pc = "sync"
    /\ s # None
    /\ Enabled("listener_strategies")
    /\ strategies[s] # None
    /\ <<"strategy", s>> \notin missed

SyncHasVersions ==
    \A s \in Strategies :
        WrittenInSync(s) =>
            versions[s] # {} \/ \E w \in strategyWork : w.strategy = s

SyncCallHasVersion ==
    LET s == orderCall.order.strat_id
    IN (orderCall # Journal!Idle /\ WrittenInSync(s)) =>
           /\ orderCall.pc = "write" =>
                  \E v \in versions[s] : v.id = orderCall.version
           /\ orderCall.pc = "ok" =>
                  \E v \in versions[s] :
                      v.id = orders[orderCall.uid].strategy_version_id

SyncInv ==
    /\ RowsAreKnown
    /\ UpsertedHasVersion
    /\ SyncHasVersions
    /\ SyncCallHasVersion

=============================================================================
