------------------------------ MODULE Settings ------------------------------
(***************************************************************************)
(* The cache of the table app_settings that all sessions of the process    *)
(* share (src/settings.rs).  get locks the mutex, renews the cache if it   *)
(* is due, and reads it; the mutex is held all that time, so that a        *)
(* session that connects to the database keeps the others waiting.         *)
(* settings::init has run before the first session starts (src/main.rs).   *)
(***************************************************************************)
EXTENDS Integers

CONSTANTS
    Sessions,      \* the threads that call get
    Contents,      \* what the table may hold: sets of rows
    TTL,           \* CACHE_TTL
    MaxTime        \* bound: how long the clock runs

ASSUME SettingsAssumption ==
    /\ {} \in Contents
    /\ TTL \in Nat \ {0}
    /\ MaxTime \in Nat

VARIABLES
    now,           \* Instant::now()
    app_settings,  \* the table; an operator updates it at any time
    values,        \* Cache.values
    loaded_at,     \* Cache.loaded_at
    pc,            \* where each session is in get
    answer,        \* the rows its query returned, and when they were read
    changedAt,     \* history: the last update of the table
    readAt,        \* history: when what the cache holds was read
    triedAt        \* history: when the last refresh ended

cacheVars == <<values, loaded_at>>
historyVars == <<changedAt, readAt, triedAt>>
vars == <<now, app_settings, cacheVars, pc, answer, historyVars>>

TypeOK ==
    /\ now \in Nat
    /\ app_settings \in Contents
    /\ values \in Contents
    /\ loaded_at \in Int
    /\ pc \in [Sessions -> {"idle", "waiting", "connect", "query", "answer"}]
    /\ answer \in [Sessions -> [rows : Contents, at : Nat]]
    /\ changedAt \in Int /\ readAt \in Int /\ triedAt \in Int

NoAnswer == [rows |-> {}, at |-> 0]

\* Cache::empty() was loaded an hour, 60 TTLs, ago.
Init ==
    /\ now = 0
    /\ app_settings \in Contents
    /\ values = {}
    /\ loaded_at = -60 * TTL
    /\ pc = [s \in Sessions |-> "idle"]
    /\ answer = [s \in Sessions |-> NoAnswer]
    /\ changedAt = 0
    /\ readAt = -60 * TTL /\ triedAt = -60 * TTL

-----------------------------------------------------------------------------
\* A session that renews the cache has the mutex.
HasMutex(s) == pc[s] \in {"connect", "query", "answer"}
MutexFree == \A s \in Sessions : ~HasMutex(s)

Goto(s, next) == pc' = [pc EXCEPT ![s] = next]

\* Mutant of Due: the cache is renewed when it is empty only.
DueIfEmpty == values = {}

\* Not so: the early return of refresh_if_due.
Due == now - loaded_at >= TTL \/ values = {}

\* A session calls get: by poll_interval before each recv_event_timeout, and
\* by connect_timeout once.  It may do so again at once: recv_event_timeout
\* does not wait when an event is there.
Get(s) ==
    /\ pc[s] = "idle"
    /\ Goto(s, "waiting")
    /\ UNCHANGED <<now, app_settings, cacheVars, answer, historyVars>>

ReadCache(s) ==
    /\ pc[s] = "waiting"
    /\ MutexFree /\ ~Due
    /\ Goto(s, "idle")
    /\ UNCHANGED <<now, app_settings, cacheVars, answer, historyVars>>

\* Mutant of Refresh: the mutex is not held while the cache is renewed.
RefreshUnlocked(s) ==
    /\ pc[s] = "waiting"
    /\ Due
    /\ Goto(s, "connect")
    /\ UNCHANGED <<now, app_settings, cacheVars, answer, historyVars>>

Refresh(s) ==
    /\ pc[s] = "waiting"
    /\ MutexFree /\ Due
    /\ Goto(s, "connect")
    /\ UNCHANGED <<now, app_settings, cacheVars, answer, historyVars>>

Connected(s) ==
    /\ pc[s] = "connect"
    /\ Goto(s, "query")
    /\ UNCHANGED <<now, app_settings, cacheVars, answer, historyVars>>

\* The database reads the table; the rows reach the session some time later.
Query(s) ==
    /\ pc[s] = "query"
    /\ Goto(s, "answer")
    /\ answer' = [answer EXCEPT ![s] = [rows |-> app_settings, at |-> now]]
    /\ UNCHANGED <<now, app_settings, cacheVars, historyVars>>

Load(s) ==
    /\ pc[s] = "answer"
    /\ values' = answer[s].rows
    /\ loaded_at' = now
    /\ Goto(s, "idle")
    /\ readAt' = answer[s].at /\ triedAt' = now
    /\ answer' = [answer EXCEPT ![s] = NoAnswer]
    /\ UNCHANGED <<now, app_settings, changedAt>>

\* Mutants of GiveUp: a failure leaves loaded_at alone; it is tried again
\* until it succeeds.
GiveUpUnnoted(s) ==
    /\ HasMutex(s)
    /\ Goto(s, "idle")
    /\ triedAt' = now
    /\ UNCHANGED <<now, app_settings, cacheVars, answer, changedAt, readAt>>
TryAgain(s) ==
    /\ HasMutex(s)
    /\ Goto(s, "connect")
    /\ UNCHANGED <<now, app_settings, cacheVars, answer, historyVars>>

\* The database cannot be reached, or the query fails: what the cache holds
\* stays, and passes for fresh.
GiveUp(s) ==
    /\ HasMutex(s)
    /\ loaded_at' = now
    /\ Goto(s, "idle")
    /\ triedAt' = now
    /\ answer' = [answer EXCEPT ![s] = NoAnswer]
    /\ UNCHANGED <<now, app_settings, values, changedAt, readAt>>

-----------------------------------------------------------------------------
\* UPDATE app_settings, by an operator.
Update ==
    /\ \E rows \in Contents \ {app_settings} : app_settings' = rows
    /\ changedAt' = now
    /\ UNCHANGED <<now, cacheVars, pc, answer, readAt, triedAt>>

Tick ==
    /\ now < MaxTime
    /\ now' = now + 1
    /\ UNCHANGED <<app_settings, cacheVars, pc, answer, historyVars>>

Lock(s) == ReadCache(s) \/ Refresh(s)
Renew(s) == Connected(s) \/ Query(s) \/ Load(s) \/ GiveUp(s)

Next ==
    \/ \E s \in Sessions : Get(s) \/ Lock(s) \/ Renew(s)
    \/ Update
    \/ Tick

Spec == Init /\ [][Next]_vars

\* The connection is answered or fails in the end, and a mutex that is and
\* stays free is taken by who waits for it.  std::sync::Mutex promises no more:
\* a session that calls get again and again may be preferred each time.
FairSpec ==
    Spec /\ \A s \in Sessions : WF_vars(Renew(s)) /\ WF_vars(Lock(s))

-----------------------------------------------------------------------------
\* get returns to session s in this step.
Returns(s) == pc[s] # "idle" /\ pc'[s] = "idle"

\* "Changes are applied after about 60 s" (README): what get returns has been
\* out of date for less than a TTL, and the time from the query to the end of
\* the last refresh.  That time is what an answer took; when refreshes have
\* failed since, it is all the time since the last one that did not.
\* (refresh_if_due)
ChangesApply ==
    [][\A s \in Sessions :
           (Returns(s) /\ values' # app_settings) =>
               now - changedAt < TTL + (loaded_at' - readAt')]_vars

\* "Read from the database at most once per CACHE_TTL": of all sessions
\* together none begins to renew a cache within a TTL of the end of the last
\* attempt, failed or not, unless the cache is empty. (header of settings.rs)
OneRefreshPerTTL ==
    [][\A s \in Sessions :
           (pc[s] = "waiting" /\ pc'[s] = "connect" /\ values # {}) =>
               now - triedAt >= TTL]_vars

\* The cache never goes back to what the table held before: sessions do not
\* overtake each other between the query and values.insert. (get)
CacheGoesForward == [][readAt <= readAt']_vars

\* The mutex is never held for good, whatever the database does: a session
\* that does not get its value is only ever passed over by others, which go on
\* getting theirs. (get)
GetReturns ==
    \A s \in Sessions :
        <>[](pc[s] # "idle") => []<><<\E t \in Sessions : Returns(t)>>_vars

-----------------------------------------------------------------------------
\* The inductive invariant: one session has the mutex, and each picture of the
\* table, the cache's and that of an answer under way, was right when it was
\* read.
MutualExclusion ==
    \A s, t \in Sessions : HasMutex(s) /\ HasMutex(t) => s = t

CacheWasRight ==
    /\ readAt <= loaded_at /\ loaded_at <= now /\ changedAt <= now
    /\ triedAt = loaded_at
    /\ values # app_settings => readAt <= changedAt

AnswerWasRight ==
    \A s \in Sessions : pc[s] = "answer" =>
        /\ readAt <= answer[s].at /\ answer[s].at <= now
        /\ answer[s].rows # app_settings => answer[s].at <= changedAt

SettingsInv == MutualExclusion /\ CacheWasRight /\ AnswerWasRight

=============================================================================
