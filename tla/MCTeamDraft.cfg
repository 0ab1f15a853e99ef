CONSTANTS
    None = None
    Slots = {s1, s2}
    s1 = s1
    s2 = s2
    OtherAttrs = {}
    Species = {"charizard", "charizardmega", "rillaboom"}
    Items = {"stone", "scarf"}
    Movesets = {"trickroom"}
    OtherValues = {}
    DexOf <- MCDexOf
    StoneOf <- MCStoneOf
    FormeTypes <- MCFormeTypes
    AbilitiesOf <- MCAbilitiesOf
    Clashes <- MCClashes
    Themes = {}
    Rejectable = {}
    MaxSuperseded = 1
    AxisKinds = {"type", "item", "ability"}
    NoDuplicateItems = "no_duplicate_items"
    Prose = "prose"
    Scopes = {"per_slot", "team_wide"}
    AxisValues = {"fire", "grass", "dragon", "scarf", "overgrow", "surge", "blaze", "none"}
    Requirements = {}
    MaxConstraints = 0
SYMMETRY SlotSymmetry
SPECIFICATION Spec
INVARIANTS
    DraftIsSound
PROPERTIES
    KitStaysPlayable
    PinnedIsRecoverable
CHECK_DEADLOCK FALSE
