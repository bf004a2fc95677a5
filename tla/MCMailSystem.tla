----------------------------- MODULE MCMailSystem -----------------------------
(***************************************************************************)
(* Instances of MailSystem for TLC.                                        *)
(***************************************************************************)
EXTENDS MailSystem, TLC

CONSTANTS i1, i2, s1, s2, p1, r1, sendgrid, mailgun

MCMTAs       == {sendgrid, mailgun}
MCPosition   == sendgrid :> 1 @@ mailgun :> 2
MCMaxRetries == sendgrid :> 1 @@ mailgun :> 1
MCProcOf     == s1 :> p1 @@ s2 :> p1

\* Message ids are interchangeable, and so are the activations of one process.
SystemSymmetry == Permutations({i1, i2}) \cup Permutations({s1, s2})
=============================================================================
