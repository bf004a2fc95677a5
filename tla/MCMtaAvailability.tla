-------------------------- MODULE MCMtaAvailability --------------------------
(***************************************************************************)
(* Instances of MtaAvailability for TLC.                                   *)
(***************************************************************************)
EXTENDS MtaAvailability, TLC

CONSTANTS s1, s2, ada, sendgrid, mailgun

MCMTAs       == {sendgrid, mailgun}
MCPosition   == sendgrid :> 1 @@ mailgun :> 2
MCMaxRetries == sendgrid :> 2 @@ mailgun :> 1
=============================================================================
