SPECIFICATION JFairSpec
CHECK_DEADLOCK FALSE
CONSTANTS
  r1 = r1  r2 = r2
  Mails = {1, 2}
  Runs = {r1, r2}
  PageSize = 1
  Width = 2
  MaxRestarts = 1
INVARIANTS JTypeOK UnlockedWhenIdle OverlapNeedsSkip
PROPERTIES MissedOnlyByOrder ScanEnds Recovered
