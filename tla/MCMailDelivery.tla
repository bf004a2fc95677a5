---------------------------- MODULE MCMailDelivery ----------------------------
(***************************************************************************)
(* Instances of MailDelivery for TLC.                                      *)
(***************************************************************************)
EXTENDS MailDelivery, TLC

CONSTANTS m1, i1, s1, s2, p1, p2, sendgrid, mailgun

MCMTAs       == {sendgrid, mailgun}
MCPosition   == sendgrid :> 1 @@ mailgun :> 2
MCMaxRetries == sendgrid :> 2 @@ mailgun :> 1

OneSlot  == s1 :> p1
TwoProcs == s1 :> p1 @@ s2 :> p2

=============================================================================
