---------------------------- MODULE MCOrderStore ----------------------------
(***************************************************************************)
(* Instances of OrderStore for TLC.                                        *)
(***************************************************************************)
EXTENDS OrderStore, TLC

CONSTANTS s1, s2, u1, u2

\* The text of an edit date is of no account here.
MCLeds == {[date |-> None, padded |-> FALSE]}

Bought == [strat_id |-> s1, status |-> 4, sell_reason_code |-> 0, sell_close_time |-> 0,
           bought |-> 3, sold |-> 0]
Stopped == [Bought EXCEPT !.status = 5, !.sell_reason_code = 4]
Sold == [Bought EXCEPT !.status = 8, !.sell_reason_code = 1,
                   !.sell_close_time = 1, !.sold = 2]

MCOrderStates == {Bought, Stopped, Sold}

\* Reports that name either strategy, or none.
NamingAny == {[o EXCEPT !.strat_id = s] : o \in MCOrderStates,
                                          s \in {s1, s2, None}}

=============================================================================
