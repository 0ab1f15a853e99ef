\* The policy's own budgets: one rerun, three interruptions.  Two rows, each
\* interrupted before and in the middle, are enough to exceed the budget of
\* the batch without that of a row: two crashes between rows and two turns
\* out of time; one kill.
CONSTANTS
    NumRows = 2
    MaxReruns = 1
    MaxInterruptions = 3
    MaxCrashes = 2
    MaxKills = 1
    MaxCalls = 2
    AppSpawns = 2
    EvalSpawns = 3
    Species <- ThreeSpecies
    Regulations <- TwoRegulations
    Live <- OneLive
    Indexed <- TwoIndexed
    HasSpreads <- OneWithSpreads
    HasBattles <- TwoWithBattles
    MaxAttempts = 3
    CacheMax = 2
    venusaur = venusaur
    garchomp = garchomp
    ditto = ditto
    mc = mc
    old = old
SPECIFICATION ServicesSpec
INVARIANTS
    BatchIsHonest
    CallsAreLogged
    ProcessesAreTracked
    UsageIsTrue
PROPERTIES
    FinishedIsFrozen
    LateAnswersAreSilent
    CallsEnd
\* a session, a runner or a program may be over
CHECK_DEADLOCK FALSE
