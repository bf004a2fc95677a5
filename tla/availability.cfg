SPECIFICATION ASpec
CHECK_DEADLOCK FALSE
CONSTANTS
  s1 = s1  s2 = s2  ada = ada
  sendgrid = sendgrid  mailgun = mailgun
  NoMTA = NoMTA  Null = Null
  MTAs <- MCMTAs
  Position <- MCPosition
  MaxRetries <- MCMaxRetries
  MailGun = mailgun
  Slots = {s1, s2}
  Addresses = {ada}
PROPERTY LostForGood
INVARIANT RequestIsTheMail
