--------------------------- MODULE MCMailRecoverJob ---------------------------
(***************************************************************************)
(* Instances of MailRecoverJob for TLC.                                    *)
(***************************************************************************)
EXTENDS MailRecoverJob

CONSTANTS r1, r2
=============================================================================
