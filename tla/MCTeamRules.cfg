CONSTANTS
    None = None
    s1 = s1
    AxisKinds = {"type", "item", "ability"}
    NoDuplicateItems = "no_duplicate_items"
    Prose = "prose"
    Scopes = {"per_slot", "team_wide"}
    AxisValues = {"fire", "grass", "dragon", "scarf", "overgrow", "surge", "blaze", "none"}
    Requirements <- AllRequirements
    MaxConstraints = 4
SPECIFICATION Spec
INVARIANTS
    AxesAreSound
PROPERTIES
    AxisNeverEmptied
    ReconcilingIsComplete
\* a refused turn may be the last
CHECK_DEADLOCK FALSE
