------------------------------ MODULE Ingester ------------------------------
(***************************************************************************)
(* The process (src/main.rs): it brings the database to its own schema     *)
(* (src/db.rs, migrations/), loads the servers and runs one thread per     *)
(* server until all of them have ended.  What a thread does is Session;    *)
(* here it writes trades, and ends at any time.                            *)
(***************************************************************************)
EXTENDS Integers, Sequences

CONSTANTS
    Servers,        \* servers.id
    Listeners,      \* the modules that make a server one to ingest from
    OtherModules,   \* further keys of servers.modules
    Trades,         \* what the threads write into orders
    Faults,         \* "error": a `?` of main returns.  "crash": the process
                    \* is killed
    None            \* SQL NULL

ASSUME IngesterAssumption ==
    /\ Servers \subseteq Nat
    /\ None \notin {"running", "ended", "default", "edited"}

VARIABLES
    catalog,        \* the columns of the database, <<table, column>>
    trades,         \* the rows of orders
    seeded,         \* what the columns of the rows that scripts insert hold:
                    \* None, "default", "edited"
    servers,        \* the table servers: token and modules, or None
    pc,             \* where main is
    applied,        \* how many scripts this start has applied
    settings,       \* settings::init was called
    todo,           \* the servers main has loaded and not yet spawned
    sessions        \* what has become of the thread of each server

database == <<catalog, trades, seeded, servers>>
process == <<pc, applied, settings, todo, sessions>>
vars ==
    <<catalog, trades, seeded, servers, pc, applied, settings, todo, sessions>>

-----------------------------------------------------------------------------
\* The schema, as far as the scripts change it: a column stands for those that
\* come and go with it.

Has(cat, table) == \E column \in cat : column[1] = table
Create(cat, table, columns) ==
    IF Has(cat, table) THEN cat ELSE cat \cup ({table} \X columns)
Add(cat, table, columns) == cat \cup ({table} \X columns)
Drop(cat, table, columns) == cat \ ({table} \X columns)

\* Mutant of Migrations: the link to a version before the wide table.
MigrationsLinkFirst ==
    <<"001_initial", "005_orders_strategy_version_link", "002_orders_wide",
      "003_strategies_active", "004_strategies_wide", "006_parameters",
      "007_parameters_raw", "008_parameters_trim_import">>

\* connect_and_migrate, migrations.
Migrations ==
    <<"001_initial", "002_orders_wide", "003_strategies_active",
      "004_strategies_wide", "005_orders_strategy_version_link",
      "006_parameters", "007_parameters_raw", "008_parameters_trim_import">>

\* Mutant of Wide: the sentinel is a column of a later script.
WideAndLinked(cat) == <<"orders", "strategy_version_id">> \in cat

\* The sentinel of 002.
Wide(cat) == <<"orders", "buy_int_id">> \in cat

\* What a script makes of the columns it finds.
Migrated(cat, script) ==
    CASE script = "001_initial" ->
           LET tables == {"modules", "servers", "app_settings",
                          "strategies", "strategy_versions"}
               new == {t \in tables : ~Has(cat, t)}
           IN cat \cup (new \X {"id"}) \cup ((new \cap {"strategies"}) \X {"active"})
      [] script = "002_orders_wide" ->
           IF Wide(cat) THEN cat
           ELSE {column \in cat : column[1] # "orders"}
                    \cup ({"orders"} \X {"id", "buy_int_id"})
      [] script = "003_strategies_active" ->
           Drop(Add(cat, "strategies", {"checked"}), "strategies", {"active"})
      [] script = "004_strategies_wide" -> Add(cat, "strategies", {"kind"})
      [] script = "005_orders_strategy_version_link" ->
           Add(cat, "orders", {"strategy_version_id"})
      [] script = "006_parameters" ->
           Create(cat, "parameters", {"id", "min_value"})
      [] script = "007_parameters_raw" ->
           Add(cat, "parameters", {"raw_type_id"})
      [] script = "008_parameters_trim_import" ->
           Drop(cat, "parameters", {"min_value"})

\* The tables a script alters or references.
Needs(script) ==
    CASE script = "001_initial" -> {}
      [] script = "002_orders_wide" -> {"servers"}
      [] script \in {"003_strategies_active", "004_strategies_wide"} ->
           {"strategies"}
      [] script = "005_orders_strategy_version_link" ->
           {"orders", "strategy_versions"}
      [] script = "006_parameters" -> {}
      [] script \in {"007_parameters_raw", "008_parameters_trim_import"} ->
           {"parameters"}

\* The table a script fills, ON CONFLICT DO NOTHING; app_settings stands for
\* modules as well.
Seeds(script) ==
    CASE script = "001_initial" -> {"app_settings"}
      [] script = "006_parameters" -> {"parameters"}
      [] OTHER -> {}

\* What the statements of the sessions name and the scripts add.
UsedTables ==
    {"app_settings", "strategies", "strategy_versions", "orders", "parameters"}
UsedColumns ==
    {<<"strategies", "checked">>, <<"strategies", "kind">>,
     <<"orders", "buy_int_id">>, <<"orders", "strategy_version_id">>,
     <<"parameters", "raw_type_id">>}

\* The first release had a table orders of its own.
Narrow == {<<"orders", "id">>}

\* The columns of those rows: "id" stands for the ones that stay, "min_value"
\* for the three an operator may fill and 008 drops.
Limits == <<"parameters", "min_value">>
SeedColumns == {<<"app_settings", "id">>, <<"parameters", "id">>, Limits}

\* The columns there are, before, between and after the scripts.
Columns ==
    (UsedTables \cup {"modules", "servers"}) \X
    {"id", "active", "checked", "kind", "buy_int_id", "strategy_version_id",
     "min_value", "raw_type_id"}

\* A server's row as load_servers reads it: "" stands for NULL as well, modules
\* are the keys that are true.
ServerRow ==
    [token : {"", "key"}, modules : SUBSET (Listeners \cup OtherModules)]

DatabaseTypeOK ==
    /\ catalog \subseteq Columns
    /\ trades \subseteq Trades
    /\ seeded \in [SeedColumns -> {None, "default", "edited"}]
    /\ servers \in [Servers -> ServerRow \cup {None}]

ProcessTypeOK ==
    /\ pc \in {"down", "config", "migrate", "load", "spawn", "join"}
    /\ applied \in 0 .. Len(Migrations)
    /\ pc \in {"load", "spawn", "join"} => applied = Len(Migrations)
    /\ settings \in BOOLEAN
    /\ todo \subseteq Servers
    /\ sessions \in [Servers -> {None, "running", "ended"}]

TypeOK == DatabaseTypeOK /\ ProcessTypeOK

\* The columns that the first scripts make of those of an old database.
Released(old) ==
    LET cat[n \in 0 .. Len(Migrations)] ==
            IF n = 0 THEN old ELSE Migrated(cat[n - 1], Migrations[n])
    IN cat

\* The database is new, or was left by an earlier release, which had the first
\* scripts of this one, or by a start of it that stopped between two scripts.
DatabaseInit ==
    /\ \E n \in 0 .. Len(Migrations), old \in {{}, Narrow} :
           /\ catalog = Released(old)[n]
           /\ seeded = [c \in SeedColumns |->
                  IF c \in catalog THEN "default" ELSE None]
    /\ trades \in IF Has(catalog, "orders") THEN SUBSET Trades ELSE {{}}
    /\ servers = [s \in Servers |-> None]

ProcessInit ==
    /\ pc = "down"
    /\ applied = 0
    /\ settings = FALSE
    /\ todo = {}
    /\ sessions = [s \in Servers |-> None]

Init == DatabaseInit /\ ProcessInit

-----------------------------------------------------------------------------
\* The end of main ends the threads that still run.
End ==
    /\ pc' = "down"
    /\ applied' = 0
    /\ settings' = FALSE
    /\ todo' = {}
    /\ sessions' = [s \in Servers |-> None]

Start ==
    /\ pc = "down"
    /\ pc' = "config"
    /\ UNCHANGED <<database, applied, settings, todo, sessions>>

\* AppConfig::load, Client::connect.
Connect ==
    /\ pc = "config"
    /\ pc' = "migrate"
    /\ UNCHANGED <<database, applied, settings, todo, sessions>>

\* What a script makes of the rows it inserts: a column it drops takes what
\* was in it along, ON CONFLICT DO NOTHING leaves alone what is there.
SeededBy(script) ==
    [c \in SeedColumns |->
        IF c \notin Migrated(catalog, script) THEN None
        ELSE IF c[1] \in Seeds(script) /\ seeded[c] = None THEN "default"
        ELSE seeded[c]]

\* One batch_execute: a script is one transaction.
Migrate ==
    /\ pc = "migrate" /\ applied < Len(Migrations)
    /\ LET script == Migrations[applied + 1]
       IN IF \A t \in Needs(script) : Has(catalog, t)
          THEN /\ catalog' = Migrated(catalog, script)
               /\ trades' = IF script = "002_orders_wide" /\ ~Wide(catalog)
                            THEN {} ELSE trades
               /\ seeded' = SeededBy(script)
               /\ applied' = applied + 1
               /\ UNCHANGED <<servers, pc, settings, todo, sessions>>
          ELSE End /\ UNCHANGED database

\* Mutant of InitSettings: the scripts are left before the last one.
InitSettingsEarly ==
    /\ pc = "migrate"
    /\ pc' = "load"
    /\ settings' = TRUE
    /\ UNCHANGED <<database, applied, todo, sessions>>

\* The ping, settings::init.
InitSettings ==
    /\ pc = "migrate" /\ applied = Len(Migrations)
    /\ pc' = "load"
    /\ settings' = TRUE
    /\ UNCHANGED <<database, applied, todo, sessions>>

\* The WHERE of load_servers, and any_enabled.
Ingestable(s) ==
    /\ servers[s] # None
    /\ servers[s].token # ""
    /\ servers[s].modules \cap Listeners # {}

\* Mutant of LoadServers: main waits for a server.
LoadServersWait ==
    /\ pc = "load"
    /\ todo' = {s \in Servers : Ingestable(s)}
    /\ pc' = IF todo' = {} THEN pc ELSE "spawn"
    /\ UNCHANGED <<database, applied, settings, sessions>>

\* load_servers; main gives up when there is none.
LoadServers ==
    /\ pc = "load"
    /\ LET loaded == {s \in Servers : Ingestable(s)}
       IN IF loaded = {}
          THEN End
          ELSE /\ todo' = loaded
               /\ pc' = "spawn"
               /\ UNCHANGED <<applied, settings, sessions>>
    /\ UNCHANGED database

\* The loop over servers, which are ordered by id.
Spawn ==
    /\ pc = "spawn" /\ todo # {}
    /\ \E s \in todo :
           /\ \A t \in todo : s <= t
           /\ todo' = todo \ {s}
           /\ sessions' = [sessions EXCEPT ![s] = "running"]
    /\ UNCHANGED <<database, pc, applied, settings>>

JoinBegins ==
    /\ pc = "spawn" /\ todo = {}
    /\ pc' = "join"
    /\ UNCHANGED <<database, applied, settings, todo, sessions>>

Join ==
    /\ pc = "join"
    /\ \A s \in Servers : sessions[s] # "running"
    /\ End
    /\ UNCHANGED database

\* Mutant of Fail: a thread that cannot be spawned is passed over.
FailOrSkip ==
    /\ "error" \in Faults
    /\ pc \in {"config", "migrate", "load", "spawn"}
    /\ IF pc = "spawn" /\ todo # {}
       THEN /\ \E s \in todo : todo' = todo \ {s}
            /\ UNCHANGED <<pc, applied, settings, sessions>>
       ELSE End
    /\ UNCHANGED database

\* A `?` of main: config, connection, script, query, thread.
Fail ==
    /\ "error" \in Faults
    /\ pc \in {"config", "migrate", "load"} \/ (pc = "spawn" /\ todo # {})
    /\ End
    /\ UNCHANGED database

Main ==
    \/ Connect \/ Migrate \/ InitSettings \/ LoadServers
    \/ Spawn \/ JoinBegins \/ Join

\* run_session writes a trade.
Record(s) ==
    /\ sessions[s] = "running"
    /\ \E trade \in Trades : trades' = trades \cup {trade}
    /\ UNCHANGED <<catalog, seeded, servers, process>>

\* run_session returns, or panics: join takes both.
SessionEnds(s) ==
    /\ sessions[s] = "running"
    /\ sessions' = [sessions EXCEPT ![s] = "ended"]
    /\ UNCHANGED <<database, pc, applied, settings, todo>>

Crash ==
    /\ "crash" \in Faults
    /\ pc # "down"
    /\ End
    /\ UNCHANGED database

\* The operator changes a server, or what is in a row a script has inserted.
EditServer(s) ==
    /\ Has(catalog, "servers")
    /\ \E row \in ServerRow : servers' = [servers EXCEPT ![s] = row]
    /\ UNCHANGED <<catalog, trades, seeded, process>>

EditSeeded(c) ==
    /\ seeded[c] # None
    /\ seeded' = [seeded EXCEPT ![c] = "edited"]
    /\ UNCHANGED <<catalog, trades, servers, process>>

Next ==
    \/ Start \/ Main \/ Fail \/ Crash
    \/ \E s \in Servers : Record(s) \/ SessionEnds(s) \/ EditServer(s)
    \/ \E c \in SeedColumns : EditSeeded(c)

\* main runs on; the operator and the sessions need not.
Spec == Init /\ [][Next]_vars /\ WF_vars(Main)

-----------------------------------------------------------------------------
\* No database that an earlier release or a start that was killed has left
\* makes a script fail, which would keep the process from ever starting again.
\* (connect_and_migrate)
ScriptsApply ==
    pc = "migrate" /\ applied < Len(Migrations) =>
        \A t \in Needs(Migrations[applied + 1]) : Has(catalog, t)

\* No session runs before every column its statements name is there and the
\* settings can be read, whatever the database was before the start.
\* (main, connect_and_migrate)
ReadyWhenServing ==
    (\E s \in Servers : sessions[s] = "running") =>
        /\ \A t \in UsedTables : Has(catalog, t)
        /\ UsedColumns \subseteq catalog
        /\ settings

\* The process is not kept alive by some of its sessions while others were
\* never spawned: a server that was loaded leaves the list with a session, or
\* with the end of the process. (the loop over servers in main)
AllServersOrNone ==
    [][\A s \in todo \ todo' : sessions'[s] = "running" \/ pc' = "down"]_vars

\* A start never drops the trades of the wide table, nor undoes what an operator
\* changed in app_settings or parameters, wherever the last one was stopped;
\* but for the limits, which 008 drops with what is in them: once they are gone
\* no start gives them back for the operator to fill and the next one to drop.
\* (002_orders_wide, ON CONFLICT DO NOTHING of 001 and 006, 008)
StartKeepsData ==
    [][/\ <<"orders", "buy_int_id">> \in catalog => trades \subseteq trades'
       /\ \A c \in SeedColumns \ {Limits} :
              seeded[c] = "edited" => seeded'[c] = "edited"
       /\ seeded[Limits] = "edited" =>
              seeded'[Limits] = "edited" \/ Limits \notin catalog'
       /\ Has(catalog, "parameters") /\ Limits \notin catalog =>
              Limits \notin catalog']_vars

\* A start comes to an end: it serves, or the process is down. (main)
StartEnds == pc \notin {"down", "join"} ~> pc \in {"down", "join"}

=============================================================================
