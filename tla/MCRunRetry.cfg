CONSTANTS
  NumRows = 1
  MaxReruns = 1
  MaxInterruptions = 3
  MaxCrashes = 1
  MaxKills = 1
SPECIFICATION Spec
INVARIANT NoAnswerIsNotRetried
