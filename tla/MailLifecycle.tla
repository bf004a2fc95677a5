----------------------------- MODULE MailLifecycle -----------------------------
(***************************************************************************)
(* What the delivery path promises for each mail, without queue, workers   *)
(* or agents: a stored mail that is queued ends exactly once, delivered or *)
(* given up; it is called delivered only if an agent accepted it; and the  *)
(* number of copies is bounded.                                            *)
(*                                                                         *)
(* MailDelivery implements this specification (its Lifecycle) when the     *)
(* visibility timeout covers the processing of a message.                  *)
(***************************************************************************)
EXTENDS Naturals

CONSTANTS
  Mails,
  MaxDeliveries   \* bound: copies of one mail the agents accept

VARIABLES
  phase,        \* phase[m]: where mail m is in its life
  deliveries    \* deliveries[m]: how often an agent has accepted it

lifecycleVars == <<phase, deliveries>>

Phase == {"new", "stored", "queued", "delivered", "failed"}

LInit ==
  /\ phase = [m \in Mails |-> "new"]
  /\ deliveries = [m \in Mails |-> 0]

Move(m, from, to) ==
  /\ phase[m] = from
  /\ phase' = [phase EXCEPT ![m] = to]
  /\ UNCHANGED deliveries

\* The document exists; a message names it.
Store(m) == Move(m, "new", "stored")
Queue(m) == Move(m, "stored", "queued")

\* An agent accepts a copy; one that was slow may do so after the end.
Deliver(m) ==
  /\ phase[m] \in {"queued", "delivered", "failed"}
  /\ deliveries[m] < MaxDeliveries
  /\ deliveries' = [deliveries EXCEPT ![m] = @ + 1]
  /\ UNCHANGED phase

Confirm(m) == deliveries[m] > 0 /\ Move(m, "queued", "delivered")
Abandon(m) == Move(m, "queued", "failed")

LNext == \E m \in Mails :
           Store(m) \/ Queue(m) \/ Deliver(m) \/ Confirm(m) \/ Abandon(m)

LSpec == LInit /\ [][LNext]_lifecycleVars

\* A queued mail does not stay queued.
LFairSpec ==
  LSpec /\ \A m \in Mails : WF_lifecycleVars(Confirm(m) \/ Abandon(m))
=============================================================================
