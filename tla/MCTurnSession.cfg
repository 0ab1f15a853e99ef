CONSTANTS
    N = 2
    Kits = {plain, status, both}
    StatusClash = {status, both}
    SpeedClash = {both}
    None = None
SPECIFICATION Spec
INVARIANTS
    ScreensAreBacked
PROPERTIES
    RefusedTurnKeepsScreen
    OnlyShownBuildsCommit
    WaitingBuildSurvives
