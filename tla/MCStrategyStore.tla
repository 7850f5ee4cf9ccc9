-------------------------- MODULE MCStrategyStore --------------------------
(***************************************************************************)
(* Instances of StrategyStore for TLC.                                     *)
(***************************************************************************)
EXTENDS StrategyStore, TLC

\* A date the two formats accept as it stands, or no date at all.
CleanLeds == [date : EditDates \cup {None}, padded : {FALSE}]

\* One edit saved with the date alone, one with white space after it.
PaddedLeds == CleanLeds \cup [date : EditDates, padded : {TRUE}]

=============================================================================
