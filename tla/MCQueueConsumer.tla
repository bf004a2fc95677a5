---------------------------- MODULE MCQueueConsumer ----------------------------
(***************************************************************************)
(* Instances of QueueConsumer for TLC.                                     *)
(***************************************************************************)
EXTENDS QueueConsumer

CONSTANTS i1, i2, p1, p2
=============================================================================
