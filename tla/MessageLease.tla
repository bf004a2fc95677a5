----------------------------- MODULE MessageLease -----------------------------
(***************************************************************************)
(* What the worker relies on when it takes a message from the queue: its   *)
(* visibility is set "to prevent other worker instance pull this message   *)
(* again" (README.md:23). As long as somebody holds a message nobody else  *)
(* can get it, and it leaves the queue only by way of its holder.          *)
(*                                                                         *)
(* MailDelivery implements this when VtCovers, and QueueConsumer, which    *)
(* counts the time, when it keeps pace.                                    *)
(***************************************************************************)
CONSTANT MsgIds

VARIABLE lease   \* lease[id]: who has message id

\* back: hidden, and nobody knows of it any more.
Place == {"unsent", "visible", "held", "back", "deleted"}

\* How one message may move. Several may at once: a process that ends, a tick.
Moves == {<<"unsent", "visible">>,
          <<"visible", "held">>, <<"visible", "back">>,   \* received, reply lost
          <<"held", "deleted">>, <<"held", "back">>,
          <<"back", "visible">>}

LeaseInit == lease = [id \in MsgIds |-> "unsent"]

LeaseNext ==
  /\ lease' \in [MsgIds -> Place]
  /\ \A id \in MsgIds : lease'[id] # lease[id] => <<lease[id], lease'[id]>> \in Moves

LeaseSpec == LeaseInit /\ [][LeaseNext]_lease
=============================================================================
