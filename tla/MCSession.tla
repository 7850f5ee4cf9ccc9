----------------------------- MODULE MCSession -----------------------------
(***************************************************************************)
(* Instances of Session for TLC.                                           *)
(***************************************************************************)
EXTENDS SessionInvariants, TLC

CONSTANTS s1, s2, u1, u2

MCLeds == [date : EditDates, padded : {FALSE}]

\* The first edit of a strategy lets it trade, the next ones do not.
MCEdited ==
    {[led |-> led, signal_type |-> None, runs |-> led.date = 1] : led \in MCLeds}

\* An order that is placed, bought and sold.
Order(status, s) == [strat_id |-> s, status |-> status, sell_reason_code |-> 0,
                     sell_close_time |-> 0, bought |-> 0, sold |-> 0]

BuySet(s) == Order(1, s)
SellDone(s) == Order(8, s)

MCOrderStates ==
    {Order(status, s) : status \in {1, 4, 8}, s \in Strategies \cup {None}}
MCCreated == {BuySet(s) : s \in Strategies}

\* The next state of an order, with the strategy it had; or with any.
Succeeds(p, o) == <<o.status, p.status>> \in {<<1, 4>>, <<4, 8>>}
MCProgress ==
    [o \in MCOrderStates |->
        {p \in MCOrderStates : Succeeds(p, o) /\ p.strat_id = o.strat_id}]
NamingAny == [o \in MCOrderStates |-> {p \in MCOrderStates : Succeeds(p, o)}]

\* What the theorems suppose of the server holds of these instances.
ASSUME ServerAssumption == OrdersAppearOpen /\ OrdersGoForward /\ EditsAreDated

BothModules == {{"listener_strategies", "listener_orders"}}

\* Nothing tells one strategy, order or schema from another.
NameSymmetry ==
    Permutations(Strategies) \cup Permutations(Uids) \cup Permutations(Schemas)

AnyModules == (SUBSET {"listener_strategies", "listener_orders"}) \ {{}}

=============================================================================
