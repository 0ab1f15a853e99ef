CONSTANTS
    MaxUsage = 3
    Content <- MCContent
    FirstFlagged <- MCFlagged
    Spacing = 2
    MaxForced = 1
    MaxFaults = 2
    NoPr = NoPr
    NoJob = NoJob
    Regulations = {1}
    FirstDay <- MCFirstDay
    DayAfter <- MCDayAfter
    MonthDays = 4
    ShortDays = 2
    LoudFrom = 2
    LoudThrough = 6
    LastDay = 14
    Tables = {2, 4}
    MaxMonthForced = 1
    MaxManual = 1
    MaxMonthFaults = 1
    NoFile = NoFile
    Empty = Empty
    Unpublished = Unpublished
SPECIFICATION JobsSpec
INVARIANTS
    ProposalsAreSound
PROPERTIES
    MonthsAreSafe
    JobsSettle
