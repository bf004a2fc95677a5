SPECIFICATION FairSpec
CHECK_DEADLOCK FALSE
CONSTANTS
  m1 = m1  i1 = i1  s1 = s1  s2 = s2  p1 = p1  p2 = p2
  sendgrid = sendgrid  mailgun = mailgun
  NoMTA = NoMTA  NoMsg = NoMsg  NoMail = NoMail
  MTAs <- MCMTAs
  Position <- MCPosition
  MaxRetries <- MCMaxRetries
  Mails = {m1}
  MsgIds = {i1}
  Slots = {s1, s2}
  Procs = {p1, p2}
  ProcOf <- TwoProcs
  VtCovers = TRUE
  MaxFaults = 3
INVARIANTS RetriesBounded FailNeedsOpenCircuit PendingHasMessage DuplicatesNeedFaults
PROPERTIES TerminalIsFinal LifecycleSafety LeaseSafety LifecycleLiveness DispatchedSettles
