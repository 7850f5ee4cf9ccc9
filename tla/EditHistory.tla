---------------------------- MODULE EditHistory ----------------------------
(***************************************************************************)
(* What the version history promises to its readers, without the table,    *)
(* the clock or the statements that keep it: for every strategy one row    *)
(* per edit.  A row is added exactly when the edit date differs from that  *)
(* of the row before it, and rows are neither changed nor removed.         *)
(* This is the contract of the header of src/storage/strategies.rs.        *)
(***************************************************************************)
EXTENDS Naturals

CONSTANTS Strategies, EditDates, None

VARIABLES
    edit,   \* the edit date of the newest row of each strategy
    rows    \* how many rows each strategy has

vars == <<edit, rows>>

Init ==
    /\ edit = [s \in Strategies |-> None]
    /\ rows = [s \in Strategies |-> 0]

Record(s, d) ==
    /\ d # edit[s]
    /\ edit' = [edit EXCEPT ![s] = d]
    /\ rows' = [rows EXCEPT ![s] = @ + 1]

Next == \E s \in Strategies, d \in EditDates : Record(s, d)

Spec == Init /\ [][Next]_vars

=============================================================================
