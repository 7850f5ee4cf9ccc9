----------------------------- MODULE MCIngester -----------------------------
(***************************************************************************)
(* An instance of Ingester for TLC.                                        *)
(***************************************************************************)
EXTENDS Ingester

MCListeners == {"listener_orders", "listener_strategies"}

=============================================================================
