SPECIFICATION ServiceFairSpec
CHECK_DEADLOCK FALSE
CONSTANTS
  Procs = {p1, p2}
  NodeEnv = {p1}
  Mails = {m1}
  Grace = 2
  MaxStarts = 3
  MaxFaults = 1
INVARIANTS ServiceTypeOK AnsweredIsQueued FailedStartIsExcused
PROPERTIES NotCutEarly TermEnds
