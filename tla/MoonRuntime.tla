---------------------------- MODULE MoonRuntime ----------------------------
(***************************************************************************)
(* The MoonProto client of one session, as the session sees it: a snapshot *)
(* of the state of the MoonBot server that is renewed by a thread of the   *)
(* library, and a channel of events that say what was renewed.  The        *)
(* library is not part of the repository: this is the part of it that      *)
(* src/session.rs and src/storage/ rely on.                                *)
(*                                                                         *)
(* The snapshot is renewed before the event is sent, and the channel keeps *)
(* the order of the events.  An event carries no state: its handler reads  *)
(* the snapshot of the moment it runs.                                     *)
(***************************************************************************)
EXTENDS StrategyVersions, Sequences, FiniteSets

CONSTANTS
    Uids,            \* Order.uid of one server
    OrderStates,     \* the states of an order
    Gone,            \* an order the server has removed from its list
    Created,         \* the states in which an order first appears
    Progress,        \* Progress[o]: the states an order may go to from o
    Edited,          \* what an edit may leave a strategy as
    Schemas,         \* the strategy schemas a server may announce
    MaxKnown,       \* bound: strategies, orders and schemas known at a time
    MaxQueue,        \* bound: events in the channel
    Faults           \* "runtime": the client stops.  "removal": the server
                     \* removes orders from its list

VARIABLES
    liveStrategies,  \* strategy_snapshot_vec() and strats(): None or an entry
    liveOrders,      \* orders(): a state, None or Gone per uid
    liveSchema,      \* strats().strategy_schema()
    queue,           \* the channel of events
    alive            \* the client is connected to the server and running

runtimeVars == <<liveStrategies, liveOrders, liveSchema, queue, alive>>

\* An entry is the fields of the snapshot, the checked flag that came with
\* them, and StrategyInfo.checked, which the deltas keep up to date.
LiveStrategy ==
    [snap : Edited, checked : BOOLEAN, info : BOOLEAN \cup {None}]

Event == [kind : {"schema", "strat", "orders"}]
             \cup [kind : {"created", "updated", "removed"}, uid : Uids]

TypeOK ==
    /\ liveStrategies \in [Strategies -> LiveStrategy \cup {None}]
    /\ liveOrders \in [Uids -> OrderStates \cup {None, Gone}]
    /\ liveSchema \in Schemas \cup {None}
    /\ queue \in Seq(Event)
    /\ alive \in BOOLEAN

Init ==
    /\ liveStrategies = [s \in Strategies |-> None]
    /\ liveOrders = [u \in Uids |-> None]
    /\ liveSchema = None
    /\ queue = <<>>
    /\ alive = FALSE

-----------------------------------------------------------------------------
\* While no client is connected the server changes and nobody is told.
Tell(e) ==
    IF alive THEN /\ Len(queue) < MaxQueue
                  /\ queue' = Append(queue, e)
             ELSE UNCHANGED queue

Known == Cardinality({s \in Strategies : liveStrategies[s] # None})
             + Cardinality({u \in Uids : liveOrders[u] # None})
             + IF liveSchema # None THEN 1 ELSE 0

\* A full update of a strategy: its fields, its flag and its StrategyInfo,
\* which may also not be there yet.  Each edit has a later date.
EditStrategy(s) ==
    /\ liveStrategies[s] # None \/ Known < MaxKnown
    /\ \E new \in Edited, checked \in BOOLEAN :
           /\ liveStrategies[s] # None =>
                  new.led.date > liveStrategies[s].snap.led.date
           /\ \E info \in {checked, None} :
                  liveStrategies' = [liveStrategies EXCEPT ![s] =
                      [snap |-> new, checked |-> checked, info |-> info]]
    /\ Tell([kind |-> "strat"])
    /\ UNCHANGED <<liveOrders, liveSchema, alive>>

\* A checked-delta renews StrategyInfo only.
CheckStrategy(s) ==
    /\ liveStrategies[s] # None
    /\ liveStrategies[s].info # None
    /\ liveStrategies' = [liveStrategies EXCEPT ![s].info = ~@]
    /\ Tell([kind |-> "strat"])
    /\ UNCHANGED <<liveOrders, liveSchema, alive>>

\* snapshot().orders() has an order with this uid.
Listed(u) == liveOrders[u] \notin {None, Gone}

CreateOrder(u) ==
    /\ liveOrders[u] = None
    /\ Known < MaxKnown
    /\ \E o \in Created : liveOrders' = [liveOrders EXCEPT ![u] = o]
    /\ Tell([kind |-> "created", uid |-> u])
    /\ UNCHANGED <<liveStrategies, liveSchema, alive>>

\* An order is renewed by itself, or with a snapshot of all orders.
AdvanceOrder(u) ==
    /\ Listed(u)
    /\ \E o \in Progress[liveOrders[u]] :
           liveOrders' = [liveOrders EXCEPT ![u] = o]
    /\ \/ Tell([kind |-> "updated", uid |-> u])
       \/ Tell([kind |-> "orders"])
    /\ UNCHANGED <<liveStrategies, liveSchema, alive>>

RemoveOrder(u) ==
    /\ "removal" \in Faults
    /\ Listed(u)
    /\ liveOrders' = [liveOrders EXCEPT ![u] = Gone]
    /\ Tell([kind |-> "removed", uid |-> u])
    /\ UNCHANGED <<liveStrategies, liveSchema, alive>>

\* A client knows the schema once it was applied on its own connection.
ApplySchema ==
    /\ alive
    /\ liveSchema # None \/ Known < MaxKnown
    /\ \E c \in Schemas : c # liveSchema /\ liveSchema' = c
    /\ Tell([kind |-> "schema"])
    /\ UNCHANGED <<liveStrategies, liveOrders, alive>>

Stop ==
    /\ "runtime" \in Faults
    /\ alive
    /\ alive' = FALSE
    /\ UNCHANGED <<liveStrategies, liveOrders, liveSchema, queue>>

Next ==
    \/ \E s \in Strategies : EditStrategy(s) \/ CheckStrategy(s)
    \/ \E u \in Uids : CreateOrder(u) \/ AdvanceOrder(u) \/ RemoveOrder(u)
    \/ ApplySchema
    \/ Stop

-----------------------------------------------------------------------------
\* What the session does to the client.
Connect ==
    /\ alive' = TRUE
    /\ queue' = <<>>
    /\ liveSchema' = None
    /\ UNCHANGED <<liveStrategies, liveOrders>>

Receive ==
    /\ queue # <<>>
    /\ queue' = Tail(queue)
    /\ UNCHANGED <<liveStrategies, liveOrders, liveSchema, alive>>

Kill ==
    /\ alive' = FALSE
    /\ queue' = <<>>
    /\ UNCHANGED <<liveStrategies, liveOrders, liveSchema>>

\* Mutant of LiveChecked: no unwrap_or.
RawChecked(entry) == entry.info

LiveChecked(entry) == IF entry.info = None THEN FALSE ELSE entry.info

=============================================================================
