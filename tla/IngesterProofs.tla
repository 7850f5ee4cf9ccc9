--------------------------- MODULE IngesterProofs ---------------------------
(***************************************************************************)
(* Proofs about Ingester, for any servers, modules and trades, under every *)
(* failure, and for any database the process is started on.                *)
(***************************************************************************)
EXTENDS Ingester, TLAPS

InitialTables ==
    {"modules", "servers", "app_settings", "strategies", "strategy_versions"}

\* What the first scripts of this start have left, script by script: a later
\* one takes nothing away from it.
Prepared ==
    /\ applied \in 0 .. 8
    /\ applied >= 1 => \A t \in InitialTables : Has(catalog, t)
    /\ applied >= 2 => <<"orders", "buy_int_id">> \in catalog
    /\ applied >= 3 => <<"strategies", "checked">> \in catalog
    /\ applied >= 4 => <<"strategies", "kind">> \in catalog
    /\ applied >= 5 => <<"orders", "strategy_version_id">> \in catalog
    /\ applied >= 6 => Has(catalog, "parameters")
    /\ applied >= 7 => <<"parameters", "raw_type_id">> \in catalog

LEMMA EightMigrations == Len(Migrations) = 8
BY DEF Migrations

LEMMA PreparedApplies ==
    ASSUME Prepared, applied < 8
    PROVE  \A t \in Needs(Migrations[applied + 1]) : Has(catalog, t)
<1>1. applied \in {0, 1, 2, 3, 4, 5, 6, 7}
    BY DEF Prepared
<1>2. applied >= 2 => Has(catalog, "orders")
    BY DEF Prepared, Has
<1>3. CASE applied \in {0, 1, 2, 3}
    BY <1>3 DEF Prepared, Migrations, Needs, InitialTables
<1>4. CASE applied \in {4, 5, 6, 7}
    BY <1>2, <1>4 DEF Prepared, Migrations, Needs, InitialTables
<1> QED BY <1>1, <1>3, <1>4

\* A script leaves what the scripts before it have left.
LEMMA MigrateStep ==
    ASSUME Prepared, Migrate
    PROVE  Prepared'
<1> DEFINE script == Migrations[applied + 1]
<1>1. applied \in {0, 1, 2, 3, 4, 5, 6, 7}
    BY EightMigrations DEF Prepared, Migrate
<1>2. catalog' = Migrated(catalog, script) /\ applied' = applied + 1
    BY <1>1, EightMigrations, PreparedApplies DEF Migrate
<1>3. CASE applied = 0
    <2>1. script = "001_initial"
        BY <1>3 DEF Migrations
    <2>2. \A t \in InitialTables : Has(catalog', t)
        <3>1. ASSUME NEW t \in InitialTables, Has(catalog, t)
              PROVE  Has(catalog', t)
            BY <1>2, <2>1, <3>1 DEF Migrated, Has
        <3>2. ASSUME NEW t \in InitialTables, ~Has(catalog, t)
              PROVE  <<t, "id">> \in catalog'
            BY <1>2, <2>1, <3>2 DEF Migrated, InitialTables
        <3> QED BY <3>1, <3>2 DEF Has
    <2> QED BY <1>2, <1>3, <2>2 DEF Prepared
<1>4. CASE applied = 1
    <2>1. script = "002_orders_wide"
        BY <1>4 DEF Migrations
    <2>2. <<"orders", "buy_int_id">> \in catalog'
        BY <1>2, <2>1 DEF Migrated, Wide
    <2>3. \A t \in InitialTables : Has(catalog', t)
        BY <1>2, <1>4, <2>1 DEF Migrated, Has, InitialTables, Prepared
    <2> QED BY <1>2, <1>4, <2>2, <2>3 DEF Prepared
<1>5. CASE applied = 2
    <2>1. script = "003_strategies_active"
        BY <1>5 DEF Migrations
    <2>2. /\ catalog \ {<<"strategies", "active">>} \subseteq catalog'
          /\ <<"strategies", "checked">> \in catalog'
        BY <1>2, <2>1 DEF Migrated, Add, Drop
    <2>3. \A t \in InitialTables : Has(catalog', t)
        BY <1>5, <2>2 DEF Has, Prepared
    <2> QED BY <1>2, <1>5, <2>2, <2>3 DEF Prepared
<1>6. CASE applied \in {3, 4, 5, 6}
    <2>1. catalog \subseteq catalog'
        BY <1>2, <1>6 DEF Migrations, Migrated, Add, Create
    <2>2. \A t : Has(catalog, t) => Has(catalog', t)
        BY <2>1 DEF Has
    <2>3. /\ applied = 3 => <<"strategies", "kind">> \in catalog'
          /\ applied = 4 => <<"orders", "strategy_version_id">> \in catalog'
          /\ applied = 6 => <<"parameters", "raw_type_id">> \in catalog'
        BY <1>2 DEF Migrations, Migrated, Add
    <2>4. applied = 5 => Has(catalog', "parameters")
        <3> SUFFICES ASSUME applied = 5 PROVE Has(catalog', "parameters")
            OBVIOUS
        <3>1. CASE Has(catalog, "parameters")
            BY <2>2, <3>1
        <3>2. CASE ~Has(catalog, "parameters")
            <4>1. <<"parameters", "id">> \in catalog'
                BY <1>2, <3>2 DEF Migrations, Migrated, Create
            <4> QED BY <4>1 DEF Has
        <3> QED BY <3>1, <3>2
    <2> QED BY <1>2, <1>6, <2>1, <2>2, <2>3, <2>4 DEF Prepared
<1>7. CASE applied = 7
    <2>1. script = "008_parameters_trim_import"
        BY <1>7 DEF Migrations
    <2>2. catalog' = catalog \ {<<"parameters", "min_value">>}
        BY <1>2, <2>1 DEF Migrated, Drop
    <2>3. Has(catalog', "parameters")
        BY <1>7, <2>2 DEF Has, Prepared
    <2>4. \A t \in InitialTables : Has(catalog', t)
        BY <1>7, <2>2 DEF Has, Prepared, InitialTables
    <2> QED BY <1>2, <1>7, <2>2, <2>3, <2>4 DEF Prepared
<1> QED BY <1>1, <1>3, <1>4, <1>5, <1>6, <1>7

-----------------------------------------------------------------------------
\* The inductive invariant of a start: main gets past the scripts when all are
\* applied and the settings can be read, and only then spawns.
StartInv ==
    /\ Prepared
    /\ pc \in {"load", "spawn", "join"} => applied = 8 /\ settings
    /\ seeded \in [SeedColumns -> {None, "default", "edited"}]
    /\ \A c \in SeedColumns : seeded[c] # None => c \in catalog
    /\ sessions \in [Servers -> {None, "running", "ended"}]
    /\ (\E s \in Servers : sessions[s] = "running") => pc \in {"spawn", "join"}

LEMMA EndStep ==
    ASSUME StartInv, End, UNCHANGED <<catalog, seeded>>
    PROVE  StartInv'
BY IngesterAssumption DEF StartInv, End, Prepared

LEMMA StartStep ==
    ASSUME StartInv, [Next]_vars
    PROVE  StartInv'
<1>1. CASE Migrate
    <2>1. \A t \in Needs(Migrations[applied + 1]) : Has(catalog, t)
        BY <1>1, PreparedApplies, EightMigrations DEF StartInv, Migrate, Prepared
    <2>2. /\ pc = "migrate" /\ UNCHANGED <<pc, settings, sessions>>
          /\ seeded' \in [SeedColumns -> {None, "default", "edited"}]
          /\ \A c \in SeedColumns : seeded'[c] # None => c \in catalog'
        BY <1>1, <2>1, IngesterAssumption DEF Migrate, SeededBy, StartInv
    <2> QED BY <1>1, <2>2, MigrateStep DEF StartInv
<1>2. CASE Connect \/ Start \/ InitSettings
    BY <1>2, EightMigrations
    DEF Connect, Start, InitSettings, StartInv, Prepared, database
<1>3. CASE LoadServers
    <2>1. CASE {s \in Servers : Ingestable(s)} = {}
        <3>1. End
            BY <1>3, <2>1 DEF LoadServers
        <3>2. UNCHANGED <<catalog, seeded>>
            BY <1>3 DEF LoadServers, database
        <3> QED BY <3>1, <3>2, EndStep
    <2>2. CASE {s \in Servers : Ingestable(s)} # {}
        <3>1. /\ pc' = "spawn" /\ pc = "load"
              /\ UNCHANGED <<catalog, seeded, applied, settings, sessions>>
            BY <1>3, <2>2 DEF LoadServers, database
        <3> QED BY <3>1 DEF StartInv, Prepared
    <2> QED BY <2>1, <2>2
<1>4. CASE Spawn
    BY <1>4 DEF Spawn, StartInv, Prepared, database
<1>5. CASE JoinBegins
    BY <1>5 DEF JoinBegins, StartInv, Prepared, database
<1>6. CASE Join \/ Fail \/ Crash
    BY <1>6, EndStep DEF Join, Fail, Crash, database
<1>7. ASSUME NEW s \in Servers, Record(s) \/ EditServer(s)
      PROVE  StartInv'
    BY <1>7 DEF Record, EditServer, StartInv, Prepared, process
<1>8. ASSUME NEW s \in Servers, SessionEnds(s)
      PROVE  StartInv'
    BY <1>8 DEF SessionEnds, StartInv, Prepared, database
<1>9. ASSUME NEW c \in SeedColumns, EditSeeded(c)
      PROVE  StartInv'
    BY <1>9 DEF EditSeeded, StartInv, Prepared, process
<1>10. CASE UNCHANGED vars
    BY <1>10 DEF vars, StartInv, Prepared
<1> QED BY <1>1, <1>2, <1>3, <1>4, <1>5, <1>6, <1>7, <1>8, <1>9, <1>10
        DEF Next, Main

LEMMA StartInvariant == Spec => []StartInv
<1>1. DatabaseInit =>
          /\ seeded \in [SeedColumns -> {None, "default", "edited"}]
          /\ \A c \in SeedColumns : seeded[c] # None => c \in catalog
    BY DEF DatabaseInit
<1>2. Init => StartInv
    BY <1>1, IngesterAssumption DEF Init, ProcessInit, StartInv, Prepared
<1> QED BY <1>2, StartStep, PTL DEF Spec

\* No database makes a script fail for want of a table, whatever release or
\* start that was killed has left it. (connect_and_migrate)
THEOREM StartNotBlocked == Spec => []ScriptsApply
<1>1. StartInv => ScriptsApply
    BY PreparedApplies, EightMigrations DEF StartInv, ScriptsApply
<1> QED BY <1>1, StartInvariant, PTL

\* A session that runs finds every table and column its statements name, and
\* settings it can read, whatever the database was before the start. (main)
THEOREM ServesWhenReady == Spec => []ReadyWhenServing
<1>1. ASSUME StartInv PROVE ReadyWhenServing
    <2> SUFFICES ASSUME NEW s \in Servers, sessions[s] = "running"
                 PROVE  /\ \A t \in UsedTables : Has(catalog, t)
                        /\ UsedColumns \subseteq catalog
                        /\ settings
        BY DEF ReadyWhenServing
    <2>1. pc \in {"spawn", "join"} /\ applied = 8 /\ settings
        BY <1>1 DEF StartInv
    <2>2. UsedColumns \subseteq catalog
        BY <1>1, <2>1 DEF StartInv, Prepared, UsedColumns
    <2>3. Has(catalog, "orders")
        BY <2>2 DEF Has, UsedColumns
    <2> QED BY <1>1, <2>1, <2>2, <2>3
            DEF StartInv, Prepared, UsedTables, InitialTables
<1> QED BY <1>1, StartInvariant, PTL

-----------------------------------------------------------------------------
\* No script drops a column of the seeded rows, but for the limits; and none
\* adds the limits to a table that has lost them.
LEMMA MigratedKeeps ==
    ASSUME NEW cat, NEW n \in 1 .. 8
    PROVE  /\ \A c \in (SeedColumns \ {Limits}) \cap cat :
                  c \in Migrated(cat, Migrations[n])
           /\ Has(cat, "parameters") /\ Limits \notin cat =>
                  Limits \notin Migrated(cat, Migrations[n])
<1> USE DEF SeedColumns, Limits, Migrations
<1>1. CASE n = 1
    BY <1>1 DEF Migrated
<1>2. CASE n = 2
    BY <1>2 DEF Migrated
<1>3. CASE n = 3
    BY <1>3 DEF Migrated, Add, Drop
<1>4. CASE n \in {4, 5, 7}
    BY <1>4 DEF Migrated, Add
<1>5. CASE n = 6
    BY <1>5 DEF Migrated, Create
<1>6. CASE n = 8
    BY <1>6 DEF Migrated, Drop
<1> QED BY <1>1, <1>2, <1>3, <1>4, <1>5, <1>6

SeededKept ==
    /\ \A c \in SeedColumns \ {Limits} :
           seeded[c] = "edited" => seeded'[c] = "edited"
    /\ seeded[Limits] = "edited" =>
           seeded'[Limits] = "edited" \/ Limits \notin catalog'
    /\ Has(catalog, "parameters") /\ Limits \notin catalog =>
           Limits \notin catalog'

TradesStay == <<"orders", "buy_int_id">> \in catalog => trades \subseteq trades'

LEMMA KeepStep ==
    ASSUME StartInv, [Next]_vars
    PROVE  TradesStay /\ SeededKept
<1>1. CASE Migrate
    <2>1. \A t \in Needs(Migrations[applied + 1]) : Has(catalog, t)
        BY <1>1, PreparedApplies, EightMigrations DEF StartInv, Migrate, Prepared
    <2>2. TradesStay
        BY <1>1, <2>1 DEF Migrate, Wide, TradesStay
    <2>3. PICK n \in 1 .. 8 : n = applied + 1
        BY <1>1, EightMigrations DEF StartInv, Prepared, Migrate
    <2>4. /\ catalog' = Migrated(catalog, Migrations[n])
          /\ seeded' = SeededBy(Migrations[n])
        BY <1>1, <2>1, <2>3 DEF Migrate
    <2>5. /\ \A c \in (SeedColumns \ {Limits}) \cap catalog : c \in catalog'
          /\ Has(catalog, "parameters") /\ Limits \notin catalog =>
                 Limits \notin catalog'
        BY <2>4, MigratedKeeps
    <2>6. \A c \in SeedColumns :
              seeded[c] = "edited" /\ c \in catalog' => seeded'[c] = "edited"
        BY <2>4, IngesterAssumption DEF SeededBy
    <2>7. \A c \in SeedColumns : seeded[c] = "edited" => c \in catalog
        BY IngesterAssumption DEF StartInv
    <2>8. Limits \in SeedColumns
        BY DEF SeedColumns
    <2> QED BY <2>2, <2>5, <2>6, <2>7, <2>8 DEF SeededKept
<1>2. CASE UNCHANGED <<catalog, trades, seeded>>
    BY <1>2 DEF TradesStay, SeededKept, Has
<1>3. ASSUME NEW s \in Servers, Record(s)
      PROVE  TradesStay /\ SeededKept
    BY <1>3 DEF Record, TradesStay, SeededKept
<1>4. ASSUME NEW c \in SeedColumns, EditSeeded(c)
      PROVE  TradesStay /\ SeededKept
    BY <1>4 DEF EditSeeded, StartInv, TradesStay, SeededKept
<1>5. ASSUME Connect \/ InitSettings \/ LoadServers \/ Spawn \/ JoinBegins
                 \/ Join \/ Start \/ Fail \/ Crash
      PROVE  UNCHANGED <<catalog, trades, seeded>>
    BY <1>5 DEF Connect, InitSettings, LoadServers, Spawn, JoinBegins, Join,
                Start, Fail, Crash, database
<1>6. ASSUME NEW s \in Servers, SessionEnds(s) \/ EditServer(s)
      PROVE  UNCHANGED <<catalog, trades, seeded>>
    BY <1>6 DEF SessionEnds, EditServer, database
<1>7. CASE UNCHANGED vars
    BY <1>2, <1>7 DEF vars
<1> QED BY <1>1, <1>2, <1>3, <1>4, <1>5, <1>6, <1>7 DEF Next, Main

\* No start drops the trades of the wide table or undoes what the operator has
\* changed, wherever the one before it was stopped, but for the limits of a
\* parameter, which go once and do not come back. (002, 001, 006 and 008)
THEOREM DataKept == Spec => StartKeepsData
<1>1. StartInv /\ [Next]_vars => [TradesStay /\ SeededKept]_vars
    BY KeepStep
<1> QED BY <1>1, StartInvariant, PTL
        DEF Spec, StartKeepsData, TradesStay, SeededKept

-----------------------------------------------------------------------------
\* A script makes columns out of columns.
Tables == UsedTables \cup {"modules", "servers"}
Names == {"id", "active", "checked", "kind", "buy_int_id",
          "strategy_version_id", "min_value", "raw_type_id"}

LEMMA MigratedColumns ==
    ASSUME NEW cat, cat \subseteq Columns, NEW n \in 1 .. 8
    PROVE  Migrated(cat, Migrations[n]) \subseteq Columns
<1> DEFINE script == Migrations[n]
<1>1. n \in {1, 2, 3, 4, 5, 6, 7, 8}
    OBVIOUS
<1>2. ASSUME NEW t \in Tables, NEW columns \in SUBSET Names
      PROVE  {t} \X columns \subseteq Columns
    BY DEF Columns, Tables, Names
<1>3. ASSUME NEW t \in Tables, NEW columns \in SUBSET Names
      PROVE  /\ Add(cat, t, columns) \subseteq Columns
             /\ Create(cat, t, columns) \subseteq Columns
    BY <1>2 DEF Add, Create
<1>4. ASSUME NEW c, c \subseteq Columns, NEW t, NEW columns
      PROVE  Drop(c, t, columns) \subseteq Columns
    BY <1>4 DEF Drop
<1>10. /\ "strategies" \in Tables /\ "orders" \in Tables /\ "parameters" \in Tables
       /\ {"checked"} \in SUBSET Names /\ {"kind"} \in SUBSET Names
       /\ {"strategy_version_id"} \in SUBSET Names
       /\ {"raw_type_id"} \in SUBSET Names
       /\ {"id", "min_value"} \in SUBSET Names
       /\ {"id", "buy_int_id"} \in SUBSET Names
    BY DEF Tables, UsedTables, Names
<1>5. CASE n = 1
    <2> DEFINE tables == {"modules", "servers", "app_settings",
                          "strategies", "strategy_versions"}
               new == {t \in tables : ~Has(cat, t)}
    <2>1. Migrated(cat, "001_initial") =
              cat \cup (new \X {"id"}) \cup ((new \cap {"strategies"}) \X {"active"})
        BY DEF Migrated
    <2>2. new \subseteq Tables /\ "id" \in Names /\ "active" \in Names
        BY DEF Tables, UsedTables, Names
    <2> HIDE DEF new
    <2>3. new \X {"id"} \subseteq Columns
        BY <2>2 DEF Columns, Tables, Names
    <2>4. (new \cap {"strategies"}) \X {"active"} \subseteq Columns
        BY <2>2 DEF Columns, Tables, Names
    <2>5. Migrations[n] = "001_initial"
        BY <1>5 DEF Migrations
    <2> QED BY <2>1, <2>3, <2>4, <2>5
<1>6. CASE n = 2
    <2>1. Migrated(cat, "002_orders_wide") =
              IF Wide(cat) THEN cat
              ELSE {column \in cat : column[1] # "orders"}
                       \cup ({"orders"} \X {"id", "buy_int_id"})
        BY DEF Migrated
    <2>2. {"orders"} \X {"id", "buy_int_id"} \subseteq Columns
        BY <1>10, <1>2
    <2>3. Migrations[n] = "002_orders_wide"
        BY <1>6 DEF Migrations
    <2> QED BY <2>1, <2>2, <2>3
<1>7. CASE n = 3
    <2>1. Migrated(cat, "003_strategies_active") =
              Drop(Add(cat, "strategies", {"checked"}), "strategies", {"active"})
        BY DEF Migrated
    <2>2. Migrations[n] = "003_strategies_active"
        BY <1>7 DEF Migrations
    <2> QED BY <1>10, <1>3, <1>4, <2>1, <2>2
<1>8. CASE n \in {4, 5, 7}
    <2>1. /\ Migrated(cat, "004_strategies_wide") = Add(cat, "strategies", {"kind"})
          /\ Migrated(cat, "005_orders_strategy_version_link") =
                 Add(cat, "orders", {"strategy_version_id"})
          /\ Migrated(cat, "007_parameters_raw") =
                 Add(cat, "parameters", {"raw_type_id"})
        BY DEF Migrated
    <2>2. Migrations[n] \in {"004_strategies_wide",
              "005_orders_strategy_version_link", "007_parameters_raw"}
        BY <1>8 DEF Migrations
    <2> QED BY <1>10, <1>3, <2>1, <2>2
<1>9. CASE n \in {6, 8}
    <2>1. /\ Migrated(cat, "006_parameters") =
                 Create(cat, "parameters", {"id", "min_value"})
          /\ Migrated(cat, "008_parameters_trim_import") =
                 Drop(cat, "parameters", {"min_value"})
        BY DEF Migrated
    <2>2. Migrations[n] \in {"006_parameters", "008_parameters_trim_import"}
        BY <1>9 DEF Migrations
    <2> QED BY <1>10, <1>3, <1>4, <2>1, <2>2
<1> QED BY <1>1, <1>5, <1>6, <1>7, <1>8, <1>9

\* The eight scripts, one after the other, on the columns of an old database:
\* the recursive function Released(old) is this one.
LEMMA ReleasedUnfolds ==
    ASSUME NEW old
    PROVE  /\ Released(old)[0] = old
           /\ \A n \in 1 .. 8 :
                  Released(old)[n] = Migrated(Released(old)[n - 1], Migrations[n])
<1> DEFINE After(n, cat) == Migrated(cat, Migrations[n])
           c1 == After(1, old)
           c2 == After(2, c1)
           c3 == After(3, c2)
           c4 == After(4, c3)
           c5 == After(5, c4)
           c6 == After(6, c5)
           c7 == After(7, c6)
           c8 == After(8, c7)
           at == <<old, c1, c2, c3, c4, c5, c6, c7, c8>>
           log == [n \in 0 .. 8 |-> at[n + 1]]
           Unfold(f) == f = [n \in 0 .. 8 |->
                                 IF n = 0 THEN old ELSE After(n, f[n - 1])]
<1>1. Released(old) = CHOOSE f : Unfold(f)
    BY EightMigrations DEF Released
<1>2. Unfold(log)
    <2> SUFFICES ASSUME NEW n \in 0 .. 8
                 PROVE  log[n] = IF n = 0 THEN old ELSE After(n, log[n - 1])
        OBVIOUS
    <2>1. /\ log[0] = old /\ log[1] = c1 /\ log[2] = c2 /\ log[3] = c3
          /\ log[4] = c4 /\ log[5] = c5 /\ log[6] = c6 /\ log[7] = c7
          /\ log[8] = c8
        <3> HIDE DEF c1, c2, c3, c4, c5, c6, c7, c8
        <3> QED OBVIOUS
    <2>2. n \in {0, 1, 2, 3, 4, 5, 6, 7, 8}
        OBVIOUS
    <2> HIDE DEF log, After
    <2> QED BY <2>1, <2>2
<1>3. Unfold(Released(old))
    <2> HIDE DEF Unfold
    <2> QED BY <1>1, <1>2
<1> DEFINE R == Released(old)
<1>4. R = [n \in 0 .. 8 |-> IF n = 0 THEN old ELSE After(n, R[n - 1])]
    BY <1>3
<1> HIDE DEF R, After, log
<1>5. R[0] = old /\ \A n \in 1 .. 8 : R[n] = After(n, R[n - 1])
    BY <1>4
<1> QED BY <1>5 DEF R, After

\* A database that an earlier release has left has columns.
LEMMA ReleasedColumns ==
    ASSUME NEW old, old \subseteq Columns, NEW n \in 0 .. 8
    PROVE  Released(old)[n] \subseteq Columns
<1> DEFINE R == Released(old)
<1>1. /\ R[0] = old
      /\ \A i \in 1 .. 8 : R[i - 1] \subseteq Columns => R[i] \subseteq Columns
    BY ReleasedUnfolds, MigratedColumns
<1> HIDE DEF R
<1>2. R[0] \subseteq Columns
    BY <1>1
<1>3. /\ R[1] \subseteq Columns /\ R[2] \subseteq Columns
      /\ R[3] \subseteq Columns /\ R[4] \subseteq Columns
    BY <1>1, <1>2
<1>4. /\ R[5] \subseteq Columns /\ R[6] \subseteq Columns
      /\ R[7] \subseteq Columns /\ R[8] \subseteq Columns
    BY <1>1, <1>3
<1>5. n \in {0, 1, 2, 3, 4, 5, 6, 7, 8}
    OBVIOUS
<1>6. R[n] \subseteq Columns
    BY <1>2, <1>3, <1>4, <1>5
<1> QED BY <1>6 DEF R

LEMMA TypeEnd ==
    ASSUME TypeOK, End, UNCHANGED database
    PROVE  TypeOK'
<1>1. sessions' \in [Servers -> {None, "running", "ended"}]
    BY DEF End
<1>2. pc' = "down" /\ applied' = 0 /\ settings' = FALSE /\ todo' = {}
    BY DEF End
<1>3. ProcessTypeOK'
    <2>1. settings' \in BOOLEAN
        BY <1>2
    <2>2. 0 \in 0 .. Len(Migrations)
        BY EightMigrations
    <2> QED BY <1>1, <1>2, <2>1, <2>2 DEF ProcessTypeOK
<1>4. DatabaseTypeOK'
    BY DEF TypeOK, DatabaseTypeOK, database
<1> QED BY <1>3, <1>4 DEF TypeOK

LEMMA TypeStep ==
    ASSUME TypeOK, [Next]_vars
    PROVE  TypeOK'
<1> USE EightMigrations
<1>1. CASE Migrate
    <2> DEFINE script == Migrations[applied + 1]
    <2>1. CASE \A t \in Needs(script) : Has(catalog, t)
        <3>1. /\ catalog' = Migrated(catalog, script)
              /\ trades' \subseteq trades
              /\ applied' = applied + 1 /\ applied < 8 /\ pc = "migrate"
              /\ UNCHANGED <<servers, pc, settings, todo, sessions>>
            BY <1>1, <2>1 DEF Migrate
        <3>2. catalog' \subseteq Columns
            BY <3>1, MigratedColumns DEF TypeOK, DatabaseTypeOK, ProcessTypeOK
        <3>3. seeded' \in [SeedColumns -> {None, "default", "edited"}]
            BY <1>1, <2>1 DEF Migrate, SeededBy, TypeOK, DatabaseTypeOK
        <3> QED BY <3>1, <3>2, <3>3 DEF TypeOK, DatabaseTypeOK, ProcessTypeOK
    <2>2. CASE ~ \A t \in Needs(script) : Has(catalog, t)
        BY <1>1, <2>2, TypeEnd DEF Migrate
    <2> QED BY <2>1, <2>2
<1>2. CASE Start \/ Connect \/ InitSettings \/ JoinBegins
    BY <1>2 DEF Start, Connect, InitSettings, JoinBegins, TypeOK, DatabaseTypeOK, ProcessTypeOK,
            database
<1>3. CASE LoadServers
    <2>1. CASE {s \in Servers : Ingestable(s)} = {}
        BY <1>3, <2>1, TypeEnd DEF LoadServers
    <2>2. CASE {s \in Servers : Ingestable(s)} # {}
        <3>1. /\ todo' \subseteq Servers /\ pc' = "spawn" /\ pc = "load"
              /\ UNCHANGED <<applied, settings, sessions>> /\ UNCHANGED database
            BY <1>3, <2>2 DEF LoadServers
        <3> QED BY <3>1 DEF TypeOK, DatabaseTypeOK, ProcessTypeOK, database
    <2> QED BY <2>1, <2>2
<1>4. CASE Spawn
    BY <1>4 DEF Spawn, TypeOK, DatabaseTypeOK, ProcessTypeOK,
            database
<1>5. CASE Join \/ Fail \/ Crash
    BY <1>5, TypeEnd DEF Join, Fail, Crash
<1>6. ASSUME NEW s \in Servers, Record(s)
      PROVE  TypeOK'
    BY <1>6 DEF Record, TypeOK, DatabaseTypeOK,
            ProcessTypeOK, process
<1>7. ASSUME NEW s \in Servers, SessionEnds(s)
      PROVE  TypeOK'
    BY <1>7 DEF SessionEnds, TypeOK, DatabaseTypeOK, ProcessTypeOK,
            database
<1>8. ASSUME NEW s \in Servers, EditServer(s)
      PROVE  TypeOK'
    <2>1. servers' \in [Servers -> ServerRow \cup {None}]
        BY <1>8 DEF EditServer, TypeOK, DatabaseTypeOK
    <2> QED BY <1>8, <2>1 DEF EditServer, TypeOK, DatabaseTypeOK,
            ProcessTypeOK, process
<1>9. ASSUME NEW c \in SeedColumns, EditSeeded(c)
      PROVE  TypeOK'
    BY <1>9 DEF EditSeeded, TypeOK, DatabaseTypeOK,
            ProcessTypeOK, process
<1>10. CASE UNCHANGED vars
    BY <1>10 DEF vars, TypeOK, DatabaseTypeOK, ProcessTypeOK
<1> QED BY <1>1, <1>2, <1>3, <1>4, <1>5, <1>6, <1>7, <1>8, <1>9, <1>10
        DEF Next, Main

\* The state of the database and of the process keeps its type, whatever
\* release has left the database. (main, connect_and_migrate)
THEOREM TypeCorrect == Spec => []TypeOK
<1>1. ASSUME Init PROVE TypeOK
    <2>1. PICK n \in 0 .. 8, old \in {{}, Narrow} : catalog = Released(old)[n]
        BY <1>1, EightMigrations DEF Init, DatabaseInit
    <2>2. catalog \subseteq Columns
        <3>1. old \subseteq Columns
            BY DEF Narrow, Columns, UsedTables
        <3> QED BY <2>1, <3>1, ReleasedColumns
    <2>3. DatabaseTypeOK
        BY <1>1, <2>2 DEF Init, DatabaseInit, DatabaseTypeOK
    <2>4. sessions \in [Servers -> {None, "running", "ended"}]
        BY <1>1 DEF Init, ProcessInit
    <2>5. pc = "down" /\ applied = 0 /\ settings = FALSE /\ todo = {}
        BY <1>1 DEF Init, ProcessInit
    <2>6. ProcessTypeOK
        <3>1. settings \in BOOLEAN
            BY <2>5
        <3>2. 0 \in 0 .. Len(Migrations)
            BY EightMigrations
        <3> QED BY <2>4, <2>5, <3>1, <3>2 DEF ProcessTypeOK
    <2> QED BY <2>3, <2>6 DEF TypeOK
<1> QED BY <1>1, TypeStep, PTL DEF Spec

-----------------------------------------------------------------------------
\* Only the loop over servers has servers left to spawn.
TodoInv == pc # "spawn" => todo = {}

LEMMA TodoStep ==
    ASSUME TodoInv, [Next]_vars
    PROVE  TodoInv'
<1>1. CASE Main
    BY <1>1 DEF TodoInv, Main, Connect, Migrate, InitSettings, LoadServers,
                Spawn, JoinBegins, Join, End
<1>2. CASE Start \/ Fail \/ Crash
    BY <1>2 DEF TodoInv, Start, Fail, Crash, End
<1>3. ASSUME NEW s \in Servers, Record(s) \/ SessionEnds(s) \/ EditServer(s)
      PROVE  TodoInv'
    BY <1>3 DEF TodoInv, Record, SessionEnds, EditServer, process
<1>4. ASSUME NEW c \in SeedColumns, EditSeeded(c)
      PROVE  TodoInv'
    BY <1>4 DEF TodoInv, EditSeeded, process
<1>5. CASE UNCHANGED vars
    BY <1>5 DEF vars, TodoInv
<1> QED BY <1>1, <1>2, <1>3, <1>4, <1>5 DEF Next

LEMMA SpawnedOrDown ==
    ASSUME TypeOK, TodoInv, [Next]_vars
    PROVE  \A s \in todo \ todo' : sessions'[s] = "running" \/ pc' = "down"
<1>1. CASE Spawn
    BY <1>1 DEF Spawn, TypeOK, ProcessTypeOK
<1>2. CASE LoadServers
    BY <1>2 DEF LoadServers, TodoInv
<1>3. CASE Migrate
    BY <1>3 DEF Migrate, End
<1>4. CASE Join \/ Fail \/ Crash
    BY <1>4 DEF Join, Fail, Crash, End
<1>5. CASE Start \/ Connect \/ InitSettings \/ JoinBegins
    BY <1>5 DEF Start, Connect, InitSettings, JoinBegins
<1>6. ASSUME NEW s \in Servers, Record(s) \/ SessionEnds(s) \/ EditServer(s)
      PROVE  todo' = todo
    BY <1>6 DEF Record, SessionEnds, EditServer, process
<1>7. ASSUME NEW c \in SeedColumns, EditSeeded(c)
      PROVE  todo' = todo
    BY <1>7 DEF EditSeeded, process
<1>8. CASE UNCHANGED vars
    BY <1>8 DEF vars
<1> QED BY <1>1, <1>2, <1>3, <1>4, <1>5, <1>6, <1>7, <1>8 DEF Next, Main

\* A server that was loaded leaves the list with a session of its own, or with
\* the end of the process: main never goes on with some of its servers left
\* out, whatever fails. (the loop over servers in main)
THEOREM NoServerLeftOut == Spec => AllServersOrNone
<1>1. Init => TodoInv
    BY DEF Init, ProcessInit, TodoInv
<1>2. TypeOK /\ TodoInv /\ [Next]_vars =>
          [\A s \in todo \ todo' : sessions'[s] = "running" \/ pc' = "down"]_vars
    BY SpawnedOrDown
<1> QED BY <1>1, <1>2, TodoStep, TypeCorrect, PTL DEF Spec, AllServersOrNone

=============================================================================
