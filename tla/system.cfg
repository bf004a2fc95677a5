SPECIFICATION SystemSpec
CHECK_DEADLOCK FALSE
CONSTANTS
  i1 = i1  i2 = i2  s1 = s1  s2 = s2  p1 = p1  r1 = r1
  sendgrid = sendgrid  mailgun = mailgun
  NoMTA = NoMTA  NoMsg = NoMsg  NoMail = NoMail
  MTAs <- MCMTAs
  Position <- MCPosition
  MaxRetries <- MCMaxRetries
  Mails = {1}
  MsgIds = {i1, i2}
  Slots = {s1, s2}
  Procs = {p1}
  ProcOf <- MCProcOf
  JobProc = p1
  Runs = {r1}
  PageSize = 1
  Width = 1
  MaxRestarts = 1
  VtCovers = FALSE
  MaxFaults = 1
INVARIANTS SystemTypeOK SuccessMeansAccepted CopiesNeedMessages SharersNeedMessages
SYMMETRY SystemSymmetry
PROPERTIES EndIsFinalUnlessShared JobView
