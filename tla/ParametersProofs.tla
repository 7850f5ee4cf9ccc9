-------------------------- MODULE ParametersProofs --------------------------
(***************************************************************************)
(* Proofs about Parameters, for any number of sessions, any schemas that   *)
(* name a field once, and under every failure.                             *)
(***************************************************************************)
EXTENDS Parameters, FiniteSetTheorems, GreatestNatural, TLAPS

FieldType == [param_name : Names, layout : Layout]
Groups == Texts \cup (Texts \X Texts) \cup {None}

LEMMA GroupPathType ==
    ASSUME NEW layout \in Layout
    PROVE  GroupPath(layout) \in Groups
<1>1. CASE layout.kind = "None"
    BY <1>1 DEF GroupPath, Groups
<1>2. CASE layout.kind = "ChapterClass"
    <2>1. layout.chapter \in Texts /\ layout.value \in Texts
        BY <1>2 DEF Layout
    <2> QED BY <1>2, <2>1 DEF GroupPath, Groups
<1>3. CASE layout.kind \in {"Comment", "FilterClass"}
    <2>1. layout.value \in Texts
        BY <1>3 DEF Layout
    <2> QED BY <1>3, <2>1 DEF GroupPath, Groups
<1> QED BY <1>1, <1>2, <1>3 DEF Layout

LEMMA UpsertedType ==
    ASSUME NEW row \in ParamRow \cup {None}, NEW field \in FieldType
    PROVE  Upserted(row, field) \in ParamRow
<1>1. field.layout \in Layout /\ GroupPath(field.layout) \in Groups
    BY GroupPathType DEF FieldType
<1>2. CASE row = None
    BY <1>1, <1>2 DEF Upserted, ParamRow, Groups
<1>3. CASE row # None
    BY <1>1, <1>3 DEF Upserted, ParamRow, Groups
<1> QED BY <1>2, <1>3

LEMMA SchemaType ==
    ASSUME TypeOK, NEW s \in Sessions, NEW i \in 1 .. Len(schema[s])
    PROVE  /\ schema[s] \in Schemas
           /\ schema[s][i] \in FieldType
           /\ \A j \in 1 .. Len(schema[s]) :
                  schema[s][i].param_name = schema[s][j].param_name => i = j
<1>1. schema[s] \in Schemas
    BY DEF TypeOK
<1>2. schema[s] \in Seq(FieldType)
    BY <1>1, ParametersAssumption DEF FieldType
<1> QED BY <1>1, <1>2, ParametersAssumption

LEMMA FieldAt ==
    ASSUME TypeOK, NEW s \in Sessions, AtField(s)
    PROVE  /\ at[s] + 1 \in 1 .. Len(schema[s])
           /\ Field(s) \in FieldType
<1>1. schema[s] \in Seq(FieldType)
    <2>1. CASE schema[s] \in Schemas
        BY <2>1, ParametersAssumption DEF FieldType
    <2>2. CASE schema[s] = <<>>
        BY <2>2
    <2> QED BY <2>1, <2>2 DEF TypeOK
<1>2. at[s] + 1 \in 1 .. Len(schema[s])
    BY <1>1 DEF TypeOK, AtField
<1> QED BY <1>2, SchemaType DEF Field

LEMMA TypeStep ==
    ASSUME TypeOK, [Next]_vars
    PROVE  TypeOK'
<1>1. ASSUME NEW s \in Sessions, UpsertSchema(s)
      PROVE  TypeOK'
    BY <1>1 DEF TypeOK, UpsertSchema
<1>2. ASSUME NEW s \in Sessions, Execute(s)
      PROVE  TypeOK'
    <2> DEFINE n == Field(s).param_name
               row == Upserted(parameters[n], Field(s))
    <2>1. n \in Names /\ row \in ParamRow
        BY <1>2, FieldAt, UpsertedType DEF Execute, TypeOK, FieldType
    <2>2. written' = [written EXCEPT ![s][n] = row]
        BY <1>2 DEF Execute
    <2> HIDE DEF n, row
    <2>3. written' \in [Sessions -> [Names -> ParamRow \cup {None}]]
        BY <2>1, <2>2 DEF TypeOK
    <2> QED BY <1>2, <2>3 DEF Execute, TypeOK
<1>3. ASSUME NEW s \in Sessions, NEW answer \in {"ok", "err"}, End(s, answer),
             parameters' \in [Names -> ParamRow \cup {None}]
      PROVE  TypeOK'
    BY <1>3 DEF TypeOK, End, NothingWritten
<1>4. ASSUME NEW s \in Sessions, Commit(s)
      PROVE  TypeOK'
    <2>1. parameters' \in [Names -> ParamRow \cup {None}]
        BY <1>4 DEF Commit, TypeOK
    <2> QED BY <1>3, <1>4, <2>1 DEF Commit
<1>5. ASSUME NEW s \in Sessions, Fail(s) \/ EndDeadlock(s)
      PROVE  TypeOK'
    BY <1>3, <1>5 DEF Fail, EndDeadlock, TypeOK
<1>6. ASSUME NEW s \in Sessions, Return(s)
      PROVE  TypeOK'
    BY <1>6 DEF TypeOK, Return
<1>7. CASE Crash
    BY <1>7 DEF TypeOK, Crash, NothingWritten
<1>8. ASSUME NEW n \in Names, Curate(n)
      PROVE  TypeOK'
    <2>1. ASSUME NEW c \in Curations
          PROVE  [parameters[n] EXCEPT !.curated = c] \in ParamRow
        BY <1>8 DEF Curate, TypeOK, ParamRow
    <2>2. parameters' \in [Names -> ParamRow \cup {None}]
        BY <1>8, <2>1 DEF Curate, TypeOK
    <2> QED BY <1>8, <2>2 DEF Curate, TypeOK
<1>9. CASE UNCHANGED vars
    BY <1>9 DEF TypeOK, vars
<1> QED BY <1>1, <1>2, <1>4, <1>5, <1>6, <1>7, <1>8, <1>9 DEF Next, Call

\* The table and the open transactions have the types of the schema of the
\* database, under every failure. (upsert_schema)
THEOREM TypeCorrect == Spec => []TypeOK
<1>1. Init => TypeOK
    BY DEF Init, TypeOK, NothingWritten, SeededRow, ParamRow, Layout
<1> QED BY <1>1, TypeStep, PTL DEF Spec

-----------------------------------------------------------------------------
LEMMA RowsInvInit == Init => RowsInv
BY DEF Init, RowsInv, WrittenInOrder, RowsAreLocked, RowsAreCurrent,
       NothingWritten

\* A session whose transaction ends lets go of its rows; the transactions of
\* the others keep theirs, if their rows are not changed by it.
LEMMA RowsInvEnd ==
    ASSUME TypeOK, RowsInv, NEW s \in Sessions,
           NEW answer \in {"ok", "err"}, End(s, answer),
           \A t \in Sessions \ {s}, n \in Names :
               written[t][n] # None => parameters'[n] = parameters[n]
    PROVE  RowsInv'
<1> USE DEF TypeOK, RowsInv, End, NothingWritten
<1>1. /\ pc'[s] = answer /\ schema'[s] = <<>> /\ at'[s] = 0
      /\ \A n \in Names : written'[s][n] = None
    OBVIOUS
<1>2. \A t \in Sessions \ {s} :
          /\ pc'[t] = pc[t] /\ schema'[t] = schema[t] /\ at'[t] = at[t]
          /\ written'[t] = written[t]
    OBVIOUS
<1>3. WrittenInOrder'
    BY <1>1, <1>2 DEF WrittenInOrder
<1>4. RowsAreLocked'
    BY <1>1, <1>2 DEF RowsAreLocked
<1>5. RowsAreCurrent'
    <2> SUFFICES ASSUME NEW t \in Sessions \ {s}, NEW i \in 1 .. at[t]
                 PROVE  LET n == schema[t][i].param_name
                        IN written[t][n] = Upserted(parameters'[n], schema[t][i])
        BY <1>1, <1>2 DEF RowsAreCurrent
    <2> DEFINE n == schema[t][i].param_name
    <2>1. n \in Names
        BY SchemaType DEF WrittenInOrder, FieldType
    <2>2. written[t][n] # None
        BY <2>1 DEF WrittenInOrder
    <2>3. written[t][n] = Upserted(parameters[n], schema[t][i])
        BY DEF RowsAreCurrent
    <2>4. parameters'[n] = parameters[n]
        BY <2>1, <2>2
    <2> QED BY <2>3, <2>4
<1> QED BY <1>3, <1>4, <1>5

LEMMA RowsInvExecute ==
    ASSUME TypeOK, RowsInv, NEW s \in Sessions, Execute(s)
    PROVE  RowsInv'
<1> DEFINE n == Field(s).param_name
           row == Upserted(parameters[n], Field(s))
<1>1. /\ at[s] + 1 \in 1 .. Len(schema[s]) /\ Field(s) \in FieldType
      /\ n \in Names
    BY FieldAt DEF Execute, FieldType
<1>2. row # None
    BY <1>1, UpsertedType, ParamRowAssumption DEF TypeOK
<1>3. /\ written' = [written EXCEPT ![s][n] = row]
      /\ at' = [at EXCEPT ![s] = @ + 1]
      /\ UNCHANGED <<parameters, pc, schema>>
      /\ pc[s] = "open"
    BY DEF Execute, AtField
<1>4. schema[s][at[s] + 1] = Field(s)
    BY DEF Field
<1>5. \A t \in Sessions : written[t][n] = None
    <2>1. \A t \in Sessions \ {s} : written[t][n] = None
        BY DEF Execute, WaitsFor
    <2>2. ASSUME NEW i \in 1 .. at[s], schema[s][i].param_name = n
          PROVE  FALSE
        <3>1. i \in 1 .. Len(schema[s]) /\ i # at[s] + 1
            BY <1>1 DEF TypeOK
        <3> QED BY <1>1, <1>4, <2>2, <3>1, SchemaType
    <2>3. written[s][n] = None
        BY <1>1, <2>2 DEF RowsInv, WrittenInOrder
    <2> QED BY <2>1, <2>3
<1> HIDE DEF n, row
<1>6. /\ written'[s][n] = row /\ at'[s] = at[s] + 1 /\ at[s] \in Nat
      /\ \A m \in Names \ {n} : written'[s][m] = written[s][m]
      /\ \A t \in Sessions \ {s} : written'[t] = written[t] /\ at'[t] = at[t]
    BY <1>1, <1>3 DEF TypeOK
<1>7. WrittenInOrder'
    <2> SUFFICES ASSUME NEW t \in Sessions
                 PROVE  /\ at'[t] <= Len(schema[t])
                        /\ pc[t] = "open" => schema[t] \in Schemas
                        /\ pc[t] # "open" => at'[t] = 0
                        /\ \A m \in Names : written'[t][m] # None <=>
                               \E i \in 1 .. at'[t] :
                                   schema[t][i].param_name = m
        BY <1>3 DEF WrittenInOrder
    <2>1. CASE t # s
        BY <1>6, <2>1 DEF RowsInv, WrittenInOrder
    <2>2. CASE t = s
        <3>1. 1 .. at'[s] = (1 .. at[s]) \cup {at[s] + 1}
            BY <1>6
        <3>2. ASSUME NEW m \in Names
              PROVE  written'[s][m] # None <=>
                         \E i \in 1 .. at'[s] : schema[s][i].param_name = m
            <4>1. CASE m = n
                BY <1>2, <1>4, <1>6, <3>1, <4>1 DEF n
            <4>2. CASE m # n
                BY <1>4, <1>6, <3>1, <4>2 DEF RowsInv, WrittenInOrder, n
            <4> QED BY <4>1, <4>2
        <3>3. schema[s] \in Schemas /\ at'[s] <= Len(schema[s])
            BY <1>1, <1>3, <1>6 DEF RowsInv, WrittenInOrder
        <3> QED BY <1>3, <2>2, <3>2, <3>3
    <2> QED BY <2>1, <2>2
<1>8. RowsAreLocked'
    BY <1>1, <1>5, <1>6 DEF RowsInv, RowsAreLocked
<1>9. RowsAreCurrent'
    <2> SUFFICES ASSUME NEW t \in Sessions, NEW i \in 1 .. at'[t]
                 PROVE  LET m == schema[t][i].param_name
                        IN written'[t][m] = Upserted(parameters[m], schema[t][i])
        BY <1>3 DEF RowsAreCurrent
    <2>1. CASE t # s
        BY <1>6, <2>1 DEF RowsInv, RowsAreCurrent
    <2>2. CASE t = s /\ i = at[s] + 1
        BY <1>4, <1>6, <2>2 DEF n, row
    <2>3. CASE t = s /\ i # at[s] + 1
        <3>1. i \in 1 .. at[s]
            BY <1>6, <2>3
        <3>2. /\ schema[s][i].param_name \in Names
              /\ written[s][schema[s][i].param_name] # None
            BY <3>1, SchemaType DEF RowsInv, WrittenInOrder, FieldType, TypeOK
        <3>3. schema[s][i].param_name # n
            BY <1>5, <3>2
        <3> QED BY <1>6, <2>3, <3>1, <3>2, <3>3 DEF RowsInv, RowsAreCurrent
    <2> QED BY <2>1, <2>2, <2>3
<1> QED BY <1>7, <1>8, <1>9 DEF RowsInv

LEMMA RowsInvStep ==
    ASSUME TypeOK, RowsInv, [Next]_vars
    PROVE  RowsInv'
<1>1. ASSUME NEW s \in Sessions, UpsertSchema(s)
      PROVE  RowsInv'
    <2>1. at[s] = 0 /\ \A n \in Names : written[s][n] = None
        BY <1>1 DEF UpsertSchema, RowsInv, WrittenInOrder
    <2>2. \A t \in Sessions \ {s} : pc'[t] = pc[t] /\ schema'[t] = schema[t]
        BY <1>1 DEF UpsertSchema, TypeOK
    <2>3. schema'[s] \in Schemas /\ Len(schema'[s]) \in Nat
        <3>1. schema'[s] \in Schemas
            BY <1>1 DEF UpsertSchema, TypeOK
        <3> QED BY <3>1, ParametersAssumption
    <2>4. WrittenInOrder'
        BY <1>1, <2>1, <2>2, <2>3
        DEF UpsertSchema, RowsInv, WrittenInOrder, TypeOK
    <2>5. RowsAreLocked'
        BY <1>1 DEF UpsertSchema, RowsInv, RowsAreLocked
    <2>6. RowsAreCurrent'
        BY <1>1, <2>1, <2>2 DEF UpsertSchema, RowsInv, RowsAreCurrent
    <2> QED BY <2>4, <2>5, <2>6 DEF RowsInv
<1>2. ASSUME NEW s \in Sessions, Commit(s)
      PROVE  RowsInv'
    <2>1. PICK answer \in {"ok", "err"} : End(s, answer)
        BY <1>2 DEF Commit
    <2>2. ASSUME NEW t \in Sessions \ {s}, NEW n \in Names,
                 written[t][n] # None
          PROVE  parameters'[n] = parameters[n]
        BY <1>2, <2>2 DEF Commit, RowsInv, RowsAreLocked, TypeOK
    <2> QED BY <2>1, <2>2, RowsInvEnd
<1>3. ASSUME NEW s \in Sessions, Fail(s) \/ EndDeadlock(s)
      PROVE  RowsInv'
    BY <1>3, RowsInvEnd DEF Fail, EndDeadlock
<1>4. ASSUME NEW s \in Sessions, Return(s)
      PROVE  RowsInv'
    BY <1>4 DEF Return, TypeOK, RowsInv, WrittenInOrder, RowsAreLocked,
                RowsAreCurrent
<1>5. CASE Crash
    BY <1>5 DEF Crash, RowsInv, WrittenInOrder, RowsAreLocked,
                RowsAreCurrent, NothingWritten
<1>6. ASSUME NEW n \in Names, Curate(n)
      PROVE  RowsInv'
    <2>1. \A m \in Names \ {n} : parameters'[m] = parameters[m]
        BY <1>6 DEF Curate, TypeOK
    <2>2. WrittenInOrder' /\ RowsAreLocked'
        BY <1>6 DEF Curate, RowsInv, WrittenInOrder, RowsAreLocked
    <2>3. RowsAreCurrent'
        <3> SUFFICES ASSUME NEW t \in Sessions, NEW i \in 1 .. at[t]
                     PROVE  LET m == schema[t][i].param_name
                            IN written[t][m]
                                   = Upserted(parameters'[m], schema[t][i])
            BY <1>6 DEF Curate, RowsAreCurrent
        <3>1. /\ schema[t][i].param_name \in Names
              /\ written[t][schema[t][i].param_name] # None
            BY SchemaType DEF RowsInv, WrittenInOrder, FieldType, TypeOK
        <3>2. schema[t][i].param_name # n
            BY <1>6, <3>1 DEF Curate
        <3> QED BY <2>1, <3>1, <3>2 DEF RowsInv, RowsAreCurrent
    <2> QED BY <2>2, <2>3 DEF RowsInv
<1>7. CASE UNCHANGED vars
    BY <1>7 DEF vars, RowsInv, WrittenInOrder, RowsAreLocked, RowsAreCurrent
<1> QED BY <1>1, <1>2, <1>3, <1>4, <1>5, <1>6, <1>7, RowsInvExecute
        DEF Next, Call

\* A row is locked by the transaction that has written it, which therefore
\* writes on top of the row as it is when it commits. (upsert_schema)
THEOREM RowsInvariant == Spec => []RowsInv
BY RowsInvInit, RowsInvStep, TypeCorrect, PTL DEF Spec

-----------------------------------------------------------------------------
\* Along a circle of transactions the rows they wait for would rise for ever in
\* the common order, of which there is no more than there are names.
LEMMA OneOrderNoCircle ==
    ASSUME TypeOK, RowsInv, InOneOrder, NEW s \in Sessions, Deadlocked(s)
    PROVE  FALSE
<1> DEFINE K == Cardinality(Names)
<1>1. PICK rank \in [Names -> 1 .. K] :
          \A t \in Sessions : \A i, j \in DOMAIN schema[t] :
              i < j => rank[schema[t][i].param_name]
                           < rank[schema[t][j].param_name]
    BY DEF InOneOrder
<1>2. PICK S \in SUBSET Sessions :
          s \in S /\ \A t \in S : \E u \in S : WaitsFor(t, u)
    BY DEF Deadlocked
<1>3. K \in Nat
    BY ParametersAssumption, FS_CardinalityType
<1> DEFINE place(t) == rank[Field(t).param_name]
           T == {place(t) : t \in S}
<1>4. ASSUME NEW t \in S
      PROVE  /\ AtField(t) /\ Field(t).param_name \in Names
             /\ place(t) \in 1 .. K
    <2>1. AtField(t)
        BY <1>2 DEF WaitsFor
    <2>2. Field(t).param_name \in Names
        BY <2>1, FieldAt DEF FieldType
    <2> QED BY <1>1, <2>1, <2>2
<1>5. T \in SUBSET Nat /\ T # {} /\ \A p \in T : p <= K
    BY <1>2, <1>3, <1>4
<1>6. PICK t \in S : \A u \in S : place(u) <= place(t)
    <2>1. PICK p \in T : \A q \in T : q <= p
        <3> HIDE DEF T
        <3> QED BY <1>3, <1>5, GreatestExists
    <2> QED BY <2>1
<1>7. PICK u \in S : WaitsFor(t, u)
    BY <1>2
<1>8. PICK i \in 1 .. at[u] : schema[u][i].param_name = Field(t).param_name
    BY <1>4, <1>7 DEF WaitsFor, RowsInv, WrittenInOrder
<1>9. /\ schema[u] \in Seq(FieldType) /\ at[u] \in Nat
      /\ at[u] + 1 \in 1 .. Len(schema[u])
    <2>1. at[u] + 1 \in 1 .. Len(schema[u])
        BY <1>4, FieldAt
    <2> QED BY <2>1, SchemaType, ParametersAssumption DEF FieldType, TypeOK
<1>10. /\ i \in DOMAIN schema[u] /\ at[u] + 1 \in DOMAIN schema[u]
       /\ i < at[u] + 1
    BY <1>8, <1>9
<1>11. place(t) < place(u)
    BY <1>1, <1>8, <1>10 DEF Field
<1> QED BY <1>3, <1>4, <1>6, <1>11

\* Sessions that write schemas which list the fields they share in one order
\* never wait for each other in a circle, however many they are.
\* (the loop over schema.fields in upsert_schema)
THEOREM NoDeadlock == Spec => []NoDeadlockInOneOrder
<1>1. TypeOK /\ RowsInv => NoDeadlockInOneOrder
    BY OneOrderNoCircle DEF NoDeadlockInOneOrder
<1> QED BY <1>1, TypeCorrect, RowsInvariant, PTL

-----------------------------------------------------------------------------
LEMMA UpsertedIsRenewed ==
    ASSUME NEW row \in ParamRow \cup {None}, NEW field \in FieldType
    PROVE  Table!Renewed(row, field) = Upserted(row, field)
<1>1. CASE row = None
    BY <1>1 DEF Table!Renewed, Upserted
<1>2. CASE row # None
    BY <1>2 DEF Table!Renewed, Upserted, ParamRow
<1> QED BY <1>1, <1>2

\* What a transaction has written when it commits is its whole schema, on top
\* of the table as it is at that moment.
LEMMA CommitApplies ==
    ASSUME TypeOK, RowsInv, NEW s \in Sessions, Commit(s)
    PROVE  Table!Apply
<1> DEFINE new == schema[s]
           fields == {new[i] : i \in DOMAIN new}
<1>1. new \in Schemas /\ at[s] = Len(new)
    BY DEF Commit, RowsInv, WrittenInOrder
<1>2. new \in Seq(FieldType)
    BY <1>1, ParametersAssumption DEF FieldType
<1>3. DOMAIN new = 1 .. at[s]
    BY <1>1, <1>2
<1>4. \A i, j \in DOMAIN new : new[i].param_name = new[j].param_name => i = j
    BY <1>1, ParametersAssumption
<1>5. /\ parameters \in [Names -> ParamRow \cup {None}]
      /\ \A n \in Names : written[s][n] # None <=>
             \E i \in DOMAIN new : new[i].param_name = n
      /\ \A i \in DOMAIN new : written[s][new[i].param_name]
             = Upserted(parameters[new[i].param_name], new[i])
      /\ parameters' = [n \in Names |->
             IF written[s][n] # None THEN written[s][n] ELSE parameters[n]]
    <2>1. parameters \in [Names -> ParamRow \cup {None}]
        BY DEF TypeOK
    <2>2. \A n \in Names : written[s][n] # None <=>
              \E i \in DOMAIN new : new[i].param_name = n
        BY <1>3 DEF RowsInv, WrittenInOrder
    <2>3. \A i \in DOMAIN new : written[s][new[i].param_name]
              = Upserted(parameters[new[i].param_name], new[i])
        BY <1>3 DEF RowsInv, RowsAreCurrent
    <2>4. parameters' = [n \in Names |->
              IF written[s][n] # None THEN written[s][n] ELSE parameters[n]]
        BY DEF Commit
    <2> QED BY <2>1, <2>2, <2>3, <2>4
<1>6. fields \in {{of[i] : i \in DOMAIN of} : of \in Schemas}
    BY <1>1
<1>7. \A i \in DOMAIN new : new[i] \in FieldType
    BY <1>2
<1> HIDE DEF new
<1>8. ASSUME NEW n \in Names
      PROVE  parameters'[n] =
                 IF \E f \in fields : f.param_name = n
                 THEN Table!Renewed(parameters[n],
                          CHOOSE f \in fields : f.param_name = n)
                 ELSE parameters[n]
    <2>1. CASE \E i \in DOMAIN new : new[i].param_name = n
        <3>1. PICK i \in DOMAIN new : new[i].param_name = n
            BY <2>1
        <3>2. (CHOOSE f \in fields : f.param_name = n) = new[i]
            BY <1>4, <3>1
        <3>3. parameters'[n] = Upserted(parameters[n], new[i])
            BY <1>5, <3>1
        <3>4. Table!Renewed(parameters[n], new[i])
                  = Upserted(parameters[n], new[i])
            BY <1>5, <1>7, UpsertedIsRenewed
        <3>5. \E f \in fields : f.param_name = n
            BY <3>1
        <3> HIDE DEF fields
        <3> QED BY <3>2, <3>3, <3>4, <3>5
    <2>2. CASE ~\E i \in DOMAIN new : new[i].param_name = n
        BY <1>5, <2>2
    <2> QED BY <2>1, <2>2
<1> HIDE DEF fields
<1>9. parameters' = [n \in Names |->
          IF \E f \in fields : f.param_name = n
          THEN Table!Renewed(parameters[n],
                   CHOOSE f \in fields : f.param_name = n)
          ELSE parameters[n]]
    BY <1>5, <1>8
<1> QED BY <1>6, <1>9 DEF Table!Apply

LEMMA TableStep ==
    ASSUME TypeOK, RowsInv, [Next]_vars
    PROVE  [Table!Next]_parameters
<1>1. ASSUME NEW s \in Sessions, Commit(s)
      PROVE  Table!Next
    BY <1>1, CommitApplies DEF Table!Next
<1>2. ASSUME NEW n \in Names, Curate(n)
      PROVE  Table!Next
    BY <1>2 DEF Curate, Table!Next, Table!Curate
<1>3. ASSUME NEW s \in Sessions,
             UpsertSchema(s) \/ Execute(s) \/ Fail(s) \/ EndDeadlock(s)
                 \/ Return(s)
      PROVE  UNCHANGED parameters
    BY <1>3 DEF UpsertSchema, Execute, Fail, EndDeadlock, Return
<1>4. CASE Crash
    BY <1>4 DEF Crash
<1>5. CASE UNCHANGED vars
    BY <1>5 DEF vars
<1> QED BY <1>1, <1>2, <1>3, <1>4, <1>5 DEF Next, Call

\* Readers and curator see every schema written at once and on top of what the
\* table held at that moment, however the sessions run and whatever fails.
\* (upsert_schema)
THEOREM TableImplemented == Spec => ImplementsTable
<1>1. Init => Table!Init
    BY DEF Init, Table!Init, NothingWritten
<1> QED BY <1>1, TableStep, TypeCorrect, RowsInvariant, PTL
        DEF Spec, ImplementsTable, Table!Spec

=============================================================================
