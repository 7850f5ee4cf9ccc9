----------------------------- MODULE MCSettings -----------------------------
(***************************************************************************)
(* An instance of Settings for TLC.                                        *)
(***************************************************************************)
EXTENDS Settings

\* One setting, which is there with one of two values or not at all.
MCContents == {{}, {<<"event_poll_ms", 50>>}, {<<"event_poll_ms", 500>>}}

=============================================================================
