SPECIFICATION JSpec
CHECK_DEADLOCK FALSE
CONSTANTS
  r1 = r1  r2 = r2
  Mails = {1, 2, 3}
  Runs = {r1, r2}
  PageSize = 2
  Width = 2
  MaxRestarts = 1
PROPERTY ScanComplete
