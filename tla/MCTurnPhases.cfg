CONSTANTS
    N = 3
    Kits = {plain}
    StatusClash = {}
    SpeedClash = {}
    None = None
SPECIFICATION Spec
INVARIANTS
    OffersAreForOpenSlots
PROPERTIES
    EveryTurnEnds
