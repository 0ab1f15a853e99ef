SPECIFICATION StoresSpec
CONSTANTS
    w1 = w1
    w2 = w2
    t1 = t1
    t2 = t2
    t3 = t3
    b1 = b1
    neutral = neutral
    rain = rain
    dark = dark
    Writer = Writer
    Keys <- TwoKeys
    Spreads <- OneSpread
    Played <- OneRegulation
    k1 = k1
    k2 = k2
    s1 = s1
    Short = Short
    Workers <- TwoWorkers
    Threads <- ThreeThreads
    Builds <- OnePair
    Fields <- ThreeFields
    Default = Default
    None = None
    MaxEntries = 2
    MaxLive = 2
    MaxCalls = 3
SYMMETRY Symmetric
INVARIANTS
    MemosAreRight
    BuildsAreSound
PROPERTIES
    MemosAreKept
    RowsOnlyImprove
\* the calls of a process are bounded
CHECK_DEADLOCK FALSE
