----------------------------- MODULE Parameters -----------------------------
(***************************************************************************)
(* storage::parameters::upsert_schema against the one table parameters     *)
(* that all sessions of the process write (src/storage/parameters.rs).     *)
(*                                                                         *)
(* A call is one transaction: an UPSERT per field, in the order of the     *)
(* schema, and a COMMIT.  PostgreSQL lets a statement wait for a row that  *)
(* another open transaction has written, until that one ends, and then     *)
(* shows it the row as committed; of transactions that wait for each       *)
(* other in a circle it ends one.                                          *)
(***************************************************************************)
EXTENDS Integers, Sequences, FiniteSets

CONSTANTS
    Sessions,       \* the threads that write schemas
    Names,          \* StrategySchemaField.name
    Texts,          \* the texts a layout may have
    Schemas,        \* the schemas the servers announce: sequences of fields
    Curations,      \* what the curator may write into his columns
    Faults,         \* "statement": a statement or the COMMIT fails, or its
                    \* answer is lost.  "crash": the process is killed
    None            \* SQL NULL, Rust's None

\* StrategyFieldLayout.
Layout ==
    [kind : {"None"}] \cup [kind : {"Comment", "FilterClass"}, value : Texts]
        \cup [kind : {"ChapterClass"}, value : Texts, chapter : Texts]

\* A schema names a field once: its fields are the attributes of one class.
ASSUME ParametersAssumption ==
    /\ IsFiniteSet(Names)
    /\ \A schema \in Schemas :
           /\ schema \in Seq([param_name : Names, layout : Layout])
           /\ \A i, j \in DOMAIN schema :
                  schema[i].param_name = schema[j].param_name => i = j
    /\ None \notin Curations \cup Texts \cup (Texts \X Texts)

VARIABLES
    parameters,     \* the table, as committed: a row or None per name
    pc,             \* where each session is in upsert_schema
    schema,         \* the schema its call writes
    at,             \* how many of its fields it has written
    written         \* the rows its open transaction has written, by name

vars == <<parameters, pc, schema, at, written>>

\* layout stands for all the columns that come from the schema and are written
\* as EXCLUDED has them, curated for those that are not in the UPSERT.
ParamRow ==
    [layout : Layout, group_path : Texts \cup (Texts \X Texts) \cup {None},
     curated : Curations \cup {None}]

ASSUME ParamRowAssumption == None \notin ParamRow

\* The rows 006_parameters.sql inserts before the first session runs: some
\* parameters are described in advance and belong to no group.
SeededRow ==
    [layout : {[kind |-> "None"]}, group_path : {None}, curated : Curations]

NothingWritten == [n \in Names |-> None]

TypeOK ==
    /\ parameters \in [Names -> ParamRow \cup {None}]
    /\ pc \in [Sessions -> {"idle", "open", "ok", "err"}]
    /\ schema \in [Sessions -> Schemas \cup {<<>>}]
    /\ at \in [Sessions -> Nat]
    /\ written \in [Sessions -> [Names -> ParamRow \cup {None}]]

Init ==
    /\ parameters \in [Names -> SeededRow \cup {None}]
    /\ pc = [s \in Sessions |-> "idle"]
    /\ schema = [s \in Sessions |-> <<>>]
    /\ at = [s \in Sessions |-> 0]
    /\ written = [s \in Sessions |-> NothingWritten]

-----------------------------------------------------------------------------
\* from_field: the group a layout puts its field into.
GroupPath(layout) ==
    CASE layout.kind = "None" -> None
      [] layout.kind = "ChapterClass" -> <<layout.chapter, layout.value>>
      [] OTHER -> layout.value

\* Mutant of Upserted: COALESCE with its arguments swapped.
UpsertedNewGroup(row, field) ==
    LET group == GroupPath(field.layout)
    IN [layout |-> field.layout,
        group_path |-> IF group = None /\ row # None THEN row.group_path
                       ELSE group,
        curated |-> IF row = None THEN None ELSE row.curated]

\* UPSERT_SQL: INSERT, or UPDATE of all but the curator's columns, with
\* COALESCE(parameters.group_path, EXCLUDED.group_path).
Upserted(row, field) ==
    IF row = None
    THEN [layout |-> field.layout, group_path |-> GroupPath(field.layout),
          curated |-> None]
    ELSE [row EXCEPT !.layout = field.layout,
                     !.group_path = IF @ = None THEN GroupPath(field.layout)
                                    ELSE @]

Field(s) == schema[s][at[s] + 1]
AtField(s) == pc[s] = "open" /\ at[s] < Len(schema[s])

\* Statement of session s waits for a row that session t has written.
WaitsFor(s, t) ==
    AtField(s) /\ s # t /\ written[t][Field(s).param_name] # None

\* s is one of a set of transactions that wait for each other in a circle.
Deadlocked(s) ==
    \E S \in SUBSET Sessions :
        /\ s \in S
        /\ \A t \in S : /\ \E u \in S : WaitsFor(t, u)
                        /\ \E u \in S : WaitsFor(u, t)

\* A call of s ends, and with it the transaction.
End(s, answer) ==
    /\ pc' = [pc EXCEPT ![s] = answer]
    /\ schema' = [schema EXCEPT ![s] = <<>>]
    /\ at' = [at EXCEPT ![s] = 0]
    /\ written' = [written EXCEPT ![s] = NothingWritten]

\* handle_event, SchemaApplied.
UpsertSchema(s) ==
    /\ pc[s] = "idle"
    /\ \E new \in Schemas :
           /\ schema' = [schema EXCEPT ![s] = new]
           /\ pc' = [pc EXCEPT ![s] = "open"]
    /\ UNCHANGED <<parameters, at, written>>

\* Mutant of Execute: the row is not locked.
ExecuteUnlocked(s) ==
    /\ AtField(s)
    /\ LET n == Field(s).param_name
       IN written' = [written EXCEPT ![s][n] =
                         Upserted(parameters[n], Field(s))]
    /\ at' = [at EXCEPT ![s] = @ + 1]
    /\ UNCHANGED <<parameters, pc, schema>>

Execute(s) ==
    /\ AtField(s)
    /\ ~\E t \in Sessions : WaitsFor(s, t)
    /\ LET n == Field(s).param_name
       IN written' = [written EXCEPT ![s][n] =
                         Upserted(parameters[n], Field(s))]
    /\ at' = [at EXCEPT ![s] = @ + 1]
    /\ UNCHANGED <<parameters, pc, schema>>

Commit(s) ==
    /\ pc[s] = "open" /\ at[s] = Len(schema[s])
    /\ parameters' = [n \in Names |->
           IF written[s][n] # None THEN written[s][n] ELSE parameters[n]]
    /\ \E answer \in {"ok"} \cup
                     (IF "statement" \in Faults THEN {"err"} ELSE {}) :
           End(s, answer)

\* Mutant of Fail: the transaction is not rolled back, the next call is in it.
FailOpen(s) ==
    /\ "statement" \in Faults
    /\ pc[s] = "open"
    /\ pc' = [pc EXCEPT ![s] = "err"]
    /\ at' = [at EXCEPT ![s] = 0]
    /\ UNCHANGED <<parameters, schema, written>>

\* The `?` of transaction, execute or commit returns: tx is dropped, which
\* rolls it back.
Fail(s) ==
    /\ "statement" \in Faults
    /\ pc[s] = "open"
    /\ End(s, "err")
    /\ UNCHANGED parameters

\* Mutant of EndDeadlock: the transaction stays open after the error.
EndDeadlockOpen(s) ==
    /\ Deadlocked(s)
    /\ pc' = [pc EXCEPT ![s] = "err"]
    /\ UNCHANGED <<parameters, schema, at, written>>

\* The same for a statement that ends with the error deadlock_detected.
EndDeadlock(s) ==
    /\ Deadlocked(s)
    /\ End(s, "err")
    /\ UNCHANGED parameters

\* handle_event logs the number of fields, or the error.
Return(s) ==
    /\ pc[s] \in {"ok", "err"}
    /\ pc' = [pc EXCEPT ![s] = "idle"]
    /\ UNCHANGED <<parameters, schema, at, written>>

\* The process is killed, and the server rolls back what was open.
Crash ==
    /\ "crash" \in Faults
    /\ pc' = [s \in Sessions |-> "idle"]
    /\ schema' = [s \in Sessions |-> <<>>]
    /\ at' = [s \in Sessions |-> 0]
    /\ written' = [s \in Sessions |-> NothingWritten]
    /\ UNCHANGED parameters

\* The curator describes a parameter; his UPDATE waits for the row as well.
Curate(n) ==
    /\ parameters[n] # None
    /\ \A s \in Sessions : written[s][n] = None
    /\ \E c \in Curations :
           parameters' = [parameters EXCEPT ![n].curated = c]
    /\ UNCHANGED <<pc, schema, at, written>>

Call(s) ==
    \/ UpsertSchema(s) \/ Execute(s) \/ Commit(s)
    \/ Fail(s) \/ EndDeadlock(s) \/ Return(s)

Next ==
    \/ \E s \in Sessions : Call(s)
    \/ Crash
    \/ \E n \in Names : Curate(n)

Spec == Init /\ [][Next]_vars

\* PostgreSQL queues those that wait for a row, and looks for deadlocks.
FairSpec ==
    Spec /\ \A s \in Sessions :
                /\ SF_vars(Execute(s))
                /\ WF_vars(Commit(s)) /\ WF_vars(EndDeadlock(s))

-----------------------------------------------------------------------------
\* The inductive invariant of the transactions: they write their fields in
\* order; a row is locked by the one that has written it; so that what was
\* written is the field on top of the row as it is committed now, not as it
\* was when it was written. (UPSERT_SQL in one transaction)
WrittenInOrder ==
    \A s \in Sessions :
        /\ at[s] <= Len(schema[s])
        /\ pc[s] = "open" => schema[s] \in Schemas
        /\ pc[s] # "open" => at[s] = 0
        /\ \A n \in Names : written[s][n] # None <=>
               \E i \in 1 .. at[s] : schema[s][i].param_name = n

RowsAreLocked ==
    \A s, t \in Sessions, n \in Names :
        written[s][n] # None /\ written[t][n] # None => s = t

RowsAreCurrent ==
    \A s \in Sessions : \A i \in 1 .. at[s] :
        LET n == schema[s][i].param_name
        IN written[s][n] = Upserted(parameters[n], schema[s][i])

RowsInv == WrittenInOrder /\ RowsAreLocked /\ RowsAreCurrent

\* The schemas that are being written list the fields they share in one order.
InOneOrder ==
    \E rank \in [Names -> 1 .. Cardinality(Names)] :
        \A s \in Sessions : \A i, j \in DOMAIN schema[s] :
            i < j => rank[schema[s][i].param_name] < rank[schema[s][j].param_name]

\* A schema is given up for a deadlock only when two servers list the fields of
\* their strategies in different orders: any number of sessions that write
\* schemas of one order pass each other. (the loop over schema.fields)
NoDeadlockInOneOrder == InOneOrder => \A s \in Sessions : ~Deadlocked(s)

\* Every call comes to an end, whatever order its schema has and however many
\* sessions write theirs at the same time, also after an error: none keeps the
\* rows it has locked. (upsert_schema)
CallsEnd == \A s \in Sessions : pc[s] = "open" ~> pc[s] # "open"

\* Readers and curator see the table as if each schema were written at once:
\* no row of one server's schema beside a row it should have overwritten, no
\* description lost to a transaction that began before it. (upsert_schema)
Table == INSTANCE ParameterTable WITH
    Rows <- ParamRow, Seeds <- SeededRow, GroupOf <- GroupPath,
    Announced <- {{new[i] : i \in DOMAIN new} : new \in Schemas}

ImplementsTable == Table!Spec

=============================================================================
