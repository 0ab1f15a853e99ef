SPECIFICATION RepliesSpec
CONSTANTS
    Cap = 2
    Budget = 6
    AutoMax = 1
    MaxNamed = 2
    Offered <- OfferedSpreads
    Nameable <- NamedStats
    Values <- NamedValues
    Deltas <- NamedDeltas
    MaxOptions = 2
    MaxFilled = 2
    EvInputs <- EvSources
    Partials <- PartialSpreads
    Targets <- RoleSpreads
    Found <- FiveSpecies
    FamilyOf <- Families
    AllNeeds <- SupportNeeds
    SpeedNeed = "trick_room"
    FoundKits <- KitsFound
    RankedAs <- Rankings
    CutTo = 2
    ShowUpTo = 3
    LockUpTo = 1
INVARIANTS
    DialogueIsSound
    EditsAreKept
    NothingIsDropped
    FillIsFair
    SlateIsSound
\* a completion that is done, and a reply that is read, have nothing left to do
CHECK_DEADLOCK FALSE
