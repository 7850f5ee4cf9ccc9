------------------------- MODULE StrategyVersions -------------------------
(***************************************************************************)
(* The table strategy_versions of one server, and the two readings the     *)
(* code makes of it: the edit date of the latest version (which decides    *)
(* whether a snapshot is a new version, src/storage/strategies.rs) and the *)
(* id of the latest version (which an order row is linked to,              *)
(* src/storage/orders.rs).  The state machines over the table are in       *)
(* StrategyStore and OrderStore.                                           *)
(***************************************************************************)
EXTENDS Naturals

CONSTANTS
    Strategies,    \* strategies.moonbot_id of one server
    EditDates,     \* the instants a LastEditDate text may denote
    Leds,          \* the LastEditDate texts that occur
    MaxVersionId,  \* bound: the last value the id sequence hands out
    None           \* SQL NULL, Rust's None

ASSUME StrategyVersionsAssumption ==
    /\ MaxVersionId \in Nat
    /\ None \notin EditDates
    /\ None \notin Nat

(***************************************************************************)
(* A LastEditDate field, by what the code makes of it.  date is the        *)
(* instant the text denotes once trimmed; it is None when the field is     *)
(* absent, is not a string, is empty or is in neither of the two formats.  *)
(* padded says that white space follows the date.                          *)
(***************************************************************************)
LedText == [date : EditDates \cup {None}, padded : BOOLEAN]

ASSUME LedsAssumption == Leds \subseteq LedText

\* What a fresh snapshot is read as: the text is trimmed, then parsed.
SnapshotLed(text) == text.date

\* What the text stored in raw_data is read as: it is parsed untrimmed, and
\* the date parser rejects what follows the last field of its format.
StoredLed(text) == IF text.padded THEN None ELSE text.date

\* A row of strategy_versions: BIGSERIAL id, version_date, raw_data.
VersionId == 1 .. MaxVersionId
Version == [id : VersionId, date : Nat, led : Leds]

\* Mutant of Latest: ORDER BY version_date without DESC.
Earliest(vs) == CHOOSE v \in vs : \A w \in vs : v.date <= w.date

\* ORDER BY version_date DESC LIMIT 1, for the rows vs of one strategy.
Latest(vs) == CHOOSE v \in vs : \A w \in vs : w.date <= v.date

PreviousLed(vs) == IF vs = {} THEN None ELSE StoredLed(Latest(vs).led)

\* Mutants of CurrentVersionId: the first version; the wrong column.
FirstVersionId(vs) == IF vs = {} THEN None ELSE Earliest(vs).id
CurrentVersionDate(vs) == IF vs = {} THEN None ELSE Latest(vs).date

CurrentVersionId(vs) == IF vs = {} THEN None ELSE Latest(vs).id

\* Mutants of NeedsNewVersion: a version per event; a version without a date;
\* a first version only.
AlwaysNewVersion(now, previous) == now # None
UndatedNewVersion(now, previous) == now # previous
FirstVersionOnly(now, previous) == now # None /\ previous = None

NeedsNewVersion(now, previous) == now # None /\ now # previous

=============================================================================
