\* Two slots; two calls in a turn, one answer of the model while drafting.
CONSTANTS
    incineroar = incineroar
    garchomp = garchomp
    amoonguss = amoonguss
    sitrus = sitrus
    leftovers = leftovers
    None = None
    Species <- MCSpecies
    Items <- MCItems
    TeamSize = 2
    Messages <- MCMessages
    Batches <- MCBatches
    Starts <- MCStarts
    MaxCalls = 2
    MaxRounds = 2
SPECIFICATION ArmSpec
PROPERTIES
    ArmIsSound
    UserDecides
    StaleScreensAreRefused
    TurnsEnd
