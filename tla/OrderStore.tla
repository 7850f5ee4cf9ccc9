----------------------------- MODULE OrderStore -----------------------------
(***************************************************************************)
(* storage::orders::upsert against the table orders of one server          *)
(* (src/storage/orders.rs), the journal of executed trades.                *)
(*                                                                         *)
(* One call is two statements, each a transaction of its own:              *)
(*                                                                         *)
(*   "lookup"  SELECT of the id of the latest version of the strategy      *)
(*   "write"   UPSERT of the row, linked to that version                   *)
(*                                                                         *)
(* The table strategy_versions belongs to StrategyStore; here its changes  *)
(* are those of an environment, which Session replaces by StrategyStore.   *)
(***************************************************************************)
EXTENDS StrategyVersions, Integers

CONSTANTS
    Uids,          \* Order.uid of one server
    OrderStates,   \* the states of an order that are reported
    Faults         \* "statement", "crash", "prune", "clock": StrategyStore

ASSUME OrderStoreAssumption ==
    OrderStates \subseteq
        [strat_id : Strategies \cup {None}, status : Nat,
         sell_reason_code : Nat, sell_close_time : Nat,
         bought : Nat, sold : Nat]

VARIABLES
    orders,        \* table orders: a row or None per uid
    versions,      \* table strategy_versions, as in StrategyStore
    nextId,        \* the next value of strategy_versions.id
    orderCall      \* the call of upsert in progress

journalVars == <<orders, versions, nextId, orderCall>>

\* None is a strategy that is not in the table, as that of an order placed by
\* hand.  sell_close_time stands for the six time columns, bought and sold for
\* buy_order.spent_btc and sell_order.total_btc.
OrderRow ==
    [strategy_id : Strategies \cup {None}, status : Nat,
     sell_reason_code : Nat, sell_reason : Nat \cup {None},
     sell_close_time : Nat \cup {None}, profit_btc : Int,
     strategy_version_id : VersionId \cup {None}]

ASSUME OrderRowAssumption == None \notin OrderRow

Idle == [pc |-> "idle"]

OrderCall ==
    [pc : {"lookup", "write", "ok", "err"}, uid : Uids, order : OrderStates,
     version : VersionId \cup {None}]

TypeOK ==
    /\ orders \in [Uids -> OrderRow \cup {None}]
    /\ versions \in [Strategies -> SUBSET Version]
    /\ nextId \in 1 .. MaxVersionId + 1
    /\ orderCall \in {Idle} \cup OrderCall

Init ==
    /\ orders = [u \in Uids |-> None]
    /\ versions = [s \in Strategies |-> {}]
    /\ nextId = 1
    /\ orderCall = Idle

-----------------------------------------------------------------------------
Answered(next) ==
    \E pc \in {next} \cup (IF "statement" \in Faults THEN {"err"} ELSE {}) :
        orderCall' = [orderCall EXCEPT !.pc = pc]

\* The versions of a strategy: none, if it is not in the table.
VersionsOf(s) == IF s = None THEN {} ELSE versions[s]

Upsert(u, o) ==
    /\ orderCall = Idle
    /\ orderCall' = [pc |-> "lookup", uid |-> u, order |-> o, version |-> None]
    /\ UNCHANGED <<orders, versions, nextId>>

\* Mutant of LookupCurrentVersionId: LIMIT 1 without ORDER BY.
LookupSomeVersionId ==
    /\ orderCall.pc = "lookup"
    /\ \E v \in VersionsOf(orderCall.order.strat_id) :
           orderCall' = [orderCall EXCEPT !.pc = "write", !.version = v.id]
    /\ UNCHANGED <<orders, versions, nextId>>

\* Mutant of LookupCurrentVersionId: the strategy the row has, if there is one.
LookupVersionIdOfRow ==
    /\ orderCall.pc = "lookup"
    /\ LET row == orders[orderCall.uid]
           s == IF row = None THEN orderCall.order.strat_id ELSE row.strategy_id
       IN orderCall' = [orderCall EXCEPT
              !.pc = "write", !.version = CurrentVersionId(VersionsOf(s))]
    /\ UNCHANGED <<orders, versions, nextId>>

LookupCurrentVersionId ==
    /\ orderCall.pc = "lookup"
    /\ LET found == CurrentVersionId(VersionsOf(orderCall.order.strat_id))
       IN \/ orderCall' = [orderCall EXCEPT !.pc = "write", !.version = found]
          \/ /\ "statement" \in Faults
             /\ orderCall' = [orderCall EXCEPT !.pc = "err"]
    /\ UNCHANGED <<orders, versions, nextId>>

\* delphi_to_utc: day 0 of a Delphi date is "not set".
DelphiToUtc(t) == IF t = 0 THEN None ELSE t

\* sell_reason_text: a text per code, and none for code 0.
SellReasonText(code) == IF code = 0 THEN None ELSE code

\* OrderRow::from.
RowFrom(o, version) ==
    [strategy_id |-> o.strat_id,
     status |-> o.status,
     sell_reason_code |-> o.sell_reason_code,
     sell_reason |-> SellReasonText(o.sell_reason_code),
     sell_close_time |-> DelphiToUtc(o.sell_close_time),
     profit_btc |-> IF o.sold > 0 THEN o.sold - o.bought ELSE 0,
     strategy_version_id |-> version]

\* Mutant of Coalesce: the arguments swapped, as parameters.rs has them.
CoalesceSwapped(new, old) == IF old = None THEN new ELSE old

Coalesce(new, old) == IF new = None THEN old ELSE new

\* Mutant of Merged: every column is EXCLUDED's.
Overwritten(row, new) == new

\* ON CONFLICT (server_id, id) DO UPDATE: every column is the new one, except
\* that a reason, a time or a link already known is not replaced by NULL.
Merged(row, new) ==
    IF row = None THEN new
    ELSE [new EXCEPT
             !.sell_reason = Coalesce(@, row.sell_reason),
             !.sell_close_time = Coalesce(@, row.sell_close_time),
             !.strategy_version_id = Coalesce(@, row.strategy_version_id)]

\* The foreign key of orders.strategy_version_id.
References(id) ==
    id = None \/ \E s \in Strategies : \E v \in versions[s] : v.id = id

WriteRow ==
    /\ orderCall.pc = "write"
    /\ References(orderCall.version)
    /\ orders' = [orders EXCEPT ![orderCall.uid] =
                     Merged(@, RowFrom(orderCall.order, orderCall.version))]
    /\ Answered("ok")
    /\ UNCHANGED <<versions, nextId>>

\* A statement that is not applied; the version may have been deleted since.
Fail ==
    /\ orderCall.pc \in {"lookup", "write"}
    /\ "statement" \in Faults \/ ~References(orderCall.version)
    /\ orderCall' = [orderCall EXCEPT !.pc = "err"]
    /\ UNCHANGED <<orders, versions, nextId>>

Return ==
    /\ orderCall.pc \in {"ok", "err"}
    /\ orderCall' = Idle
    /\ UNCHANGED <<orders, versions, nextId>>

Abandon ==
    /\ "crash" \in Faults
    /\ orderCall # Idle
    /\ orderCall' = Idle
    /\ UNCHANGED <<orders, versions, nextId>>

-----------------------------------------------------------------------------
\* The environment: a version is added with a fresh id, or its id is lost to a
\* conflict; its date is the latest so far unless the clock may be set back.
NewVersion ==
    /\ nextId <= MaxVersionId
    /\ nextId' = nextId + 1
    /\ \/ UNCHANGED versions
       \/ \E s \in Strategies, d \in 0 .. MaxVersionId, led \in Leds :
              /\ \A v \in versions[s] :
                     v.date # d /\ ("clock" \in Faults \/ v.date < d)
              /\ versions' = [versions EXCEPT ![s] =
                     @ \cup {[id |-> nextId, date |-> d, led |-> led]}]
    /\ UNCHANGED <<orders, orderCall>>

\* ON DELETE SET NULL.
Unlinked(row, id) ==
    IF row # None /\ row.strategy_version_id = id
    THEN [row EXCEPT !.strategy_version_id = None] ELSE row

Unlink(id) == orders' = [u \in Uids |-> Unlinked(orders[u], id)]

PruneVersion ==
    /\ "prune" \in Faults
    /\ \E s \in Strategies : \E v \in versions[s] :
           /\ versions' = [versions EXCEPT ![s] = @ \ {v}]
           /\ Unlink(v.id)
    /\ UNCHANGED <<nextId, orderCall>>

Next ==
    \/ \E u \in Uids, o \in OrderStates : Upsert(u, o)
    \/ LookupCurrentVersionId
    \/ WriteRow
    \/ Fail
    \/ Return
    \/ Abandon
    \/ NewVersion
    \/ PruneVersion

Spec == Init /\ [][Next]_journalVars

-----------------------------------------------------------------------------
\* An order is linked to a version of the strategy its row names.
LinkIsOwn(u) ==
    \E v \in VersionsOf(orders[u].strategy_id) :
        v.id = orders[u].strategy_version_id

\* A link that is set or moved is to a version, still there, of the strategy
\* the same report names, although the version is looked up by one statement
\* and written by another, and versions are added and deleted in between.  A
\* link to a version of another strategy, or to none, is only left behind: by
\* a report that names another strategy than the one before it. (upsert)
LinkStaysSound(u) ==
    LET row == orders[u]
        next == orders'[u]
    IN (next # None /\ next.strategy_version_id # None /\ ~LinkIsOwn(u)') =>
           /\ row # None
           /\ row.strategy_version_id = next.strategy_version_id
           /\ LinkIsOwn(u) => row.strategy_id # next.strategy_id

LinkSound == [][\A u \in Uids : LinkStaysSound(u)]_journalVars

\* What makes every link one to the order's own strategy: the reports of an
\* order name one strategy.  The code does not see to it.
ReportsKeepStrategy ==
    [][\A u \in Uids :
           (orders[u] # None /\ orders'[u] # None) =>
               orders'[u].strategy_id = orders[u].strategy_id]_journalVars

LinksAreOwn ==
    \A u \in Uids :
        (orders[u] # None /\ orders[u].strategy_version_id # None) =>
            LinkIsOwn(u)

\* What LinkSound rests on: an id is given to one row only, and a call that
\* is about to write has an id that no other strategy than that of its report
\* can have.  No link is to a version that is still to come.
IdsAreUnique ==
    \A s, t \in Strategies : \A v \in versions[s], w \in versions[t] :
        v.id = w.id => s = t /\ v = w

RowsArePast ==
    \A s \in Strategies : \A v \in versions[s] :
        v.id < nextId /\ v.date <= MaxVersionId

CallVersionIsOwn ==
    (orderCall.pc = "write" /\ orderCall.version # None) =>
        /\ orderCall.order.strat_id # None
        /\ orderCall.version < nextId
        /\ \A s \in Strategies : \A v \in versions[s] :
               v.id = orderCall.version => s = orderCall.order.strat_id

LinksArePast ==
    \A u \in Uids :
        (orders[u] # None /\ orders[u].strategy_version_id # None) =>
            orders[u].strategy_version_id < nextId

LinkInv ==
    /\ IdsAreUnique
    /\ RowsArePast
    /\ CallVersionIsOwn
    /\ LinksArePast

\* What LinkNeverOlder rests on, when the clock is not set back: a call that
\* is about to write has a version no older than the one that is linked, if
\* that is of the same strategy.
NewerIsLater ==
    \A s \in Strategies : \A v, w \in versions[s] :
        v.date < w.date <=> v.id < w.id

CallIsNotOlder ==
    (orderCall.pc = "write" /\ orderCall.version # None) =>
        LET row == orders[orderCall.uid]
        IN row # None =>
               \A v \in VersionsOf(orderCall.order.strat_id) :
                   v.id = row.strategy_version_id => v.id <= orderCall.version

OrderInv == NewerIsLater /\ CallIsNotOlder

\* As long as the clock is not set back, an order is never linked again to an
\* older version of the strategy it is linked to.
LinkNeverOlder ==
    [][\A u \in Uids, s \in Strategies :
           (orders[u] # None /\ orders'[u] # None) =>
               \A v, w \in versions'[s] :
                   (/\ v.id = orders[u].strategy_version_id
                    /\ w.id = orders'[u].strategy_version_id) =>
                       v.id <= w.id]_journalVars

\* A trade stays in the journal, and what was once known of how and when it
\* was sold is not lost to a later report that does not carry it.
TradesKept ==
    [][\A u \in Uids : orders[u] # None =>
           /\ orders'[u] # None
           /\ orders[u].sell_reason # None => orders'[u].sell_reason # None
           /\ orders[u].sell_close_time # None =>
                  orders'[u].sell_close_time # None]_journalVars

\* The reason an order row gives in words is that of its code, unless the code
\* was set back to 0: the two columns are merged by different rules, and the
\* reports of an order come in any order. (SQL, sell_reason and its code)
ReasonNamesCode ==
    \A u \in Uids :
        (/\ orders[u] # None
         /\ orders[u].sell_reason # None
         /\ orders[u].sell_reason_code # 0) =>
            orders[u].sell_reason = SellReasonText(orders[u].sell_reason_code)

\* "Every order fixes the version of the strategy that was current at the
\* moment of execution" (migrations/005): a link, once set, is not moved to
\* another version.
LinkFixedAtExecution ==
    [][\A u \in Uids :
           LET link == orders[u].strategy_version_id
               next == orders'[u].strategy_version_id
           IN (orders[u] # None /\ link # None /\ next # None) =>
                  link = next]_journalVars

=============================================================================
