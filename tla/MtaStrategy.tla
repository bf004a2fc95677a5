----------------------------- MODULE MtaStrategy -----------------------------
(***************************************************************************)
(* Which mail transfer agent (MTA) the next attempt uses:                  *)
(* MTAStategyService (services/workers/mta.strategy.service.ts), and the   *)
(* status entries of a mail document the choice is made from.              *)
(*                                                                         *)
(* Everything here is a pure operator; MailDelivery and MtaAvailability    *)
(* keep the state.                                                         *)
(***************************************************************************)
EXTENDS Naturals, Sequences

CONSTANTS
  MTAs,        \* the agents onModuleInit pushes: SendGridMTA, MailGunMTA
  Position,    \* Position[a]: index of a in the array availableMTA
  MaxRetries,  \* MaxRetries[a]: a.getMaxRetries(), from the configuration
  NoMTA        \* undefined: "no agent", and the mta of an entry without one

ASSUME MtaAssumption ==
  /\ NoMTA \notin MTAs
  /\ Position \in [MTAs -> Nat]
  /\ \A a, b \in MTAs : Position[a] = Position[b] => a = b
  /\ MaxRetries \in [MTAs -> Nat \ {0}]   \* config.maxRetries || 3: never 0

-----------------------------------------------------------------------------
(* Entries of the status array of a mail document. onDate is left out:     *)
(* nothing reads it.                                                       *)

StatusType == {"Init", "Attempt", "Success", "Fail"}

Status == [type : StatusType, mta : MTAs \cup {NoMTA}, retries : Nat]

InitStatus    == [type |-> "Init",    mta |-> NoMTA, retries |-> 0]
SuccessStatus == [type |-> "Success", mta |-> NoMTA, retries |-> 0]
FailStatus    == [type |-> "Fail",    mta |-> NoMTA, retries |-> 0]
Attempt(a)    == [type |-> "Attempt", mta |-> a,     retries |-> 0]

Terminal(status) == status.type \in {"Success", "Fail"}

-----------------------------------------------------------------------------
(* Array.prototype.find over availableMTA: the first element of S in array *)
(* order, undefined when there is none.                                    *)
FirstOf(S) ==
  IF S = {} THEN NoMTA
  ELSE CHOOSE a \in S : \A b \in S : Position[a] <= Position[b]

\* Mutant: <= where the code has <.
CanRetryOnceMore(status, available) ==
  /\ status.type = "Attempt"
  /\ status.mta \in available
  /\ status.retries <= MaxRetries[status.mta]

\* previousMTAInstance exists, and "can retry?"
CanRetry(status, available) ==
  /\ status.type = "Attempt"
  /\ status.mta \in available
  /\ status.retries < MaxRetries[status.mta]

\* Mutant: no second choice after the previous agent.
GetMTAPreviousOnly(status, available) ==
  IF status.type = "Attempt"
  THEN IF CanRetry(status, available) THEN status.mta ELSE NoMTA
  ELSE FirstOf(available)

\* Prefer the previous agent; otherwise the first available other one.
\* `available' is the set of agents whose isAvailable is true.
GetMTA(status, available) ==
  IF CanRetry(status, available)
  THEN status.mta
  ELSE FirstOf(available \ {status.mta})
=============================================================================
