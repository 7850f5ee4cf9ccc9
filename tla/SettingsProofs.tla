--------------------------- MODULE SettingsProofs ---------------------------
(***************************************************************************)
(* Proofs about Settings, for any number of sessions, any TTL and any      *)
(* content of the table.                                                   *)
(***************************************************************************)
EXTENDS Settings, TLAPS

LEMMA TypeStep ==
    ASSUME TypeOK, [Next]_vars
    PROVE  TypeOK'
<1> USE DEF TypeOK, Goto
<1>1. ASSUME NEW s \in Sessions, Get(s) \/ Lock(s) \/ Connected(s)
      PROVE  TypeOK'
    BY <1>1 DEF Get, Lock, ReadCache, Refresh, Connected, cacheVars,
                historyVars
<1>2. ASSUME NEW s \in Sessions, Query(s)
      PROVE  TypeOK'
    BY <1>2 DEF Query, cacheVars, historyVars
<1>3. ASSUME NEW s \in Sessions, Load(s)
      PROVE  TypeOK'
    BY <1>3, SettingsAssumption DEF Load, NoAnswer
<1>4. ASSUME NEW s \in Sessions, GiveUp(s)
      PROVE  TypeOK'
    BY <1>4, SettingsAssumption DEF GiveUp, NoAnswer
<1>5. CASE Update
    BY <1>5 DEF Update, cacheVars
<1>6. CASE Tick
    BY <1>6 DEF Tick, cacheVars, historyVars
<1>7. CASE UNCHANGED vars
    BY <1>7 DEF vars, cacheVars, historyVars
<1> QED BY <1>1, <1>2, <1>3, <1>4, <1>5, <1>6, <1>7 DEF Next, Renew

\* The cache, the answers under way and the clock have the types of the code,
\* whatever the database does. (src/settings.rs)
THEOREM TypeCorrect == Spec => []TypeOK
<1>1. Init => TypeOK
    BY SettingsAssumption DEF Init, TypeOK, NoAnswer
<1> QED BY <1>1, TypeStep, PTL DEF Spec

-----------------------------------------------------------------------------
LEMMA InitInv == Init => SettingsInv
BY SettingsAssumption
DEF Init, SettingsInv, MutualExclusion, CacheWasRight, AnswerWasRight, HasMutex

LEMMA InvStep ==
    ASSUME TypeOK, SettingsInv, [Next]_vars
    PROVE  SettingsInv'
<1> USE DEF TypeOK, SettingsInv, Goto
<1>1. ASSUME NEW s \in Sessions, Get(s) \/ ReadCache(s) \/ Connected(s)
      PROVE  SettingsInv'
    <2>1. MutualExclusion'
        BY <1>1 DEF MutualExclusion, HasMutex, Get, ReadCache, Connected
    <2>2. CacheWasRight'
        BY <1>1 DEF CacheWasRight, Get, ReadCache, Connected, cacheVars,
                    historyVars
    <2>3. AnswerWasRight'
        BY <1>1 DEF AnswerWasRight, Get, ReadCache, Connected, cacheVars,
                    historyVars
    <2> QED BY <2>1, <2>2, <2>3
<1>2. ASSUME NEW s \in Sessions, Refresh(s)
      PROVE  SettingsInv'
    <2>1. MutualExclusion'
        BY <1>2 DEF MutualExclusion, HasMutex, MutexFree, Refresh
    <2>2. CacheWasRight'
        BY <1>2 DEF CacheWasRight, Refresh, cacheVars, historyVars
    <2>3. AnswerWasRight'
        BY <1>2 DEF AnswerWasRight, Refresh, cacheVars, historyVars
    <2> QED BY <2>1, <2>2, <2>3
<1>3. ASSUME NEW s \in Sessions, Query(s)
      PROVE  SettingsInv'
    <2>1. MutualExclusion'
        BY <1>3 DEF MutualExclusion, HasMutex, Query
    <2>2. CacheWasRight'
        BY <1>3 DEF CacheWasRight, Query, cacheVars, historyVars
    <2>3. AnswerWasRight'
        BY <1>3 DEF AnswerWasRight, CacheWasRight, Query, cacheVars,
                    historyVars
    <2> QED BY <2>1, <2>2, <2>3
<1>4. ASSUME NEW s \in Sessions, Load(s)
      PROVE  SettingsInv'
    <2>1. MutualExclusion'
        BY <1>4 DEF MutualExclusion, HasMutex, Load
    <2>2. CacheWasRight'
        BY <1>4 DEF CacheWasRight, AnswerWasRight, Load
    <2>3. AnswerWasRight'
        \* No other session has an answer under way.
        BY <1>4 DEF AnswerWasRight, MutualExclusion, HasMutex, Load
    <2> QED BY <2>1, <2>2, <2>3
<1>5. ASSUME NEW s \in Sessions, GiveUp(s)
      PROVE  SettingsInv'
    <2>1. MutualExclusion'
        BY <1>5 DEF MutualExclusion, HasMutex, GiveUp
    <2>2. CacheWasRight'
        BY <1>5 DEF CacheWasRight, GiveUp
    <2>3. AnswerWasRight'
        BY <1>5 DEF AnswerWasRight, MutualExclusion, HasMutex, GiveUp
    <2> QED BY <2>1, <2>2, <2>3
<1>6. CASE Update
    <2>1. MutualExclusion'
        BY <1>6 DEF MutualExclusion, HasMutex, Update
    <2>2. CacheWasRight'
        BY <1>6 DEF CacheWasRight, Update, cacheVars
    <2>3. AnswerWasRight'
        BY <1>6 DEF AnswerWasRight, Update, cacheVars
    <2> QED BY <2>1, <2>2, <2>3
<1>7. CASE Tick
    <2>1. MutualExclusion'
        BY <1>7 DEF MutualExclusion, HasMutex, Tick
    <2>2. CacheWasRight'
        BY <1>7 DEF CacheWasRight, Tick, cacheVars, historyVars
    <2>3. AnswerWasRight'
        BY <1>7 DEF AnswerWasRight, Tick, cacheVars, historyVars
    <2> QED BY <2>1, <2>2, <2>3
<1>8. CASE UNCHANGED vars
    BY <1>8 DEF MutualExclusion, HasMutex, CacheWasRight, AnswerWasRight,
                vars, cacheVars, historyVars
<1> QED BY <1>1, <1>2, <1>3, <1>4, <1>5, <1>6, <1>7, <1>8
        DEF Next, Lock, Renew

\* One session renews the cache at a time, and what the cache holds, and what
\* an answer under way holds, was in the table when it was read.
\* (get, refresh_if_due)
THEOREM SettingsInvariant == Spec => []SettingsInv
BY InitInv, InvStep, TypeCorrect, PTL DEF Spec

-----------------------------------------------------------------------------
LEMMA ChangesApplyStep ==
    ASSUME TypeOK, SettingsInv, [Next]_vars, NEW s \in Sessions,
           Returns(s), values' # app_settings
    PROVE  now - changedAt < TTL + (loaded_at' - readAt')
<1> USE DEF TypeOK, SettingsInv, Goto, Returns
<1>1. PICK t \in Sessions : ReadCache(t) \/ Load(t) \/ GiveUp(t)
    BY DEF Next, Lock, Renew, Get, Refresh, Connected, Query, Update, Tick,
           vars
<1>2. CASE ReadCache(t)
    BY <1>2, SettingsAssumption
    DEF ReadCache, Due, CacheWasRight, cacheVars, historyVars
<1>3. CASE Load(t)
    BY <1>3, SettingsAssumption DEF Load, AnswerWasRight
<1>4. CASE GiveUp(t)
    BY <1>4, SettingsAssumption DEF GiveUp, CacheWasRight
<1> QED BY <1>1, <1>2, <1>3, <1>4

\* What get returns has been out of date for less than a TTL and the time the
\* last refresh took to be answered, or has been failing. (refresh_if_due)
THEOREM ChangesApplyInTime == Spec => ChangesApply
<1>1. ASSUME TypeOK, SettingsInv, [Next]_vars
      PROVE  \A s \in Sessions :
                 (Returns(s) /\ values' # app_settings) =>
                     now - changedAt < TTL + (loaded_at' - readAt')
    BY <1>1, ChangesApplyStep
<1> QED BY <1>1, TypeCorrect, SettingsInvariant, PTL DEF Spec, ChangesApply

LEMMA OneRefreshStep ==
    ASSUME TypeOK, SettingsInv, [Next]_vars, NEW s \in Sessions,
           pc[s] = "waiting", pc'[s] = "connect", values # {}
    PROVE  now - triedAt >= TTL
<1>1. Refresh(s)
    BY DEF TypeOK, Goto, Next, Lock, Renew, Get, ReadCache, Refresh,
           Connected, Query, Load, GiveUp, HasMutex, Update, Tick, vars
<1> QED BY <1>1 DEF Refresh, Due, SettingsInv, CacheWasRight

\* Between the end of a refresh, failed or not, and the next one a TTL passes,
\* unless the cache is empty. (refresh_if_due)
THEOREM RefreshesAreRare == Spec => OneRefreshPerTTL
<1>1. ASSUME TypeOK, SettingsInv, [Next]_vars
      PROVE  \A s \in Sessions :
                 (pc[s] = "waiting" /\ pc'[s] = "connect" /\ values # {}) =>
                     now - triedAt >= TTL
    BY <1>1, OneRefreshStep
<1> QED BY <1>1, TypeCorrect, SettingsInvariant, PTL
        DEF Spec, OneRefreshPerTTL

LEMMA CacheForwardStep ==
    ASSUME TypeOK, SettingsInv, [Next]_vars
    PROVE  readAt <= readAt'
<1>1. ASSUME NEW s \in Sessions, Load(s)
      PROVE  readAt <= readAt'
    BY <1>1 DEF Load, SettingsInv, AnswerWasRight
<1>2. CASE UNCHANGED readAt
    BY <1>2 DEF TypeOK
<1> QED BY <1>1, <1>2
        DEF Next, Lock, Renew, Get, ReadCache, Refresh, Connected, Query,
            GiveUp, Update, Tick, vars, historyVars

\* The cache never goes back to what the table held before. (get)
THEOREM NoOldPicture == Spec => CacheGoesForward
BY CacheForwardStep, TypeCorrect, SettingsInvariant, PTL
DEF Spec, CacheGoesForward

=============================================================================
