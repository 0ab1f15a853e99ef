CONSTANTS
    N = 2
    Kits = {plain, status}
    StatusClash = {status}
    SpeedClash = {}
    None = None
SPECIFICATION Spec
INVARIANTS
    KeptConflictCommits
