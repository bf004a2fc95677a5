------------------------------ MODULE MailSystem ------------------------------
(***************************************************************************)
(* The delivery path and the recovery job together: MailDelivery, and the  *)
(* job of one of its processes (MailRecoverJob) that reads the documents   *)
(* and sends to the queue of MailDelivery. The job does not ask whether a  *)
(* mail still has a message, so a mail may have several, and several       *)
(* activations work on it even when no message ever comes back early.      *)
(*                                                                         *)
(* JobView says that the mails and the queue that MailRecoverJob takes for *)
(* its environment are those of MailDelivery.                              *)
(***************************************************************************)
EXTENDS MailDelivery

CONSTANTS
  JobProc,     \* the process whose job is modelled
  Runs,        \* calls of the executor that can be under way at once
  PageSize,    \* fetchQuery.limit
  Width,       \* concurrency of Bluebird.map
  MaxRestarts  \* bound: restarts of JobProc

VARIABLES
  aged,       \* mails whose sentOn is older than bufferTime
  scheduled, isRunning, run, skipped, restarts,   \* as in MailRecoverJob
  sends       \* history: sends[m], messages sent for mail m

jobLocals == <<scheduled, isRunning, run, skipped, restarts>>
systemVars == <<vars, aged, jobLocals, sends>>

-----------------------------------------------------------------------------
(* What the job sees of the delivery path. *)

\* Mutant: the query for pending mails takes those of type Init only.
AgeOfInitOnly(m) ==
  IF docs[m] = <<>> THEN "none"
  ELSE IF Head(docs[m]).type # "Init" THEN "done"
  ELSE IF m \in aged THEN "old" ELSE "fresh"

\* fetchPendingMails: neither Success nor Fail, and sentOn before bufferTime.
AgeOf(m) == IF docs[m] = <<>> THEN "none"
            ELSE IF Settled(m) THEN "done"
            ELSE IF m \in aged THEN "old" ELSE "fresh"

HasMessage(m) ==
  \E id \in MsgIds : msgMail[id] = m /\ msgState[id] \in {"visible", "hidden"}

Job == INSTANCE MailRecoverJob WITH
         mail   <- [m \in Mails |-> AgeOf(m)],
         queued <- {m \in Mails : HasMessage(m)}

ASSUME SystemAssumption ==
  /\ JobProc \in Procs
  /\ Mails \in SUBSET (Nat \ {0}) /\ IsFiniteSet(Mails)
  /\ PageSize \in Nat \ {0} /\ Width \in Nat \ {0}
  /\ MaxRestarts \in Nat
  /\ IsFiniteSet(MsgIds)

SystemInit ==
  /\ Init
  /\ aged = {}
  /\ scheduled = TRUE /\ isRunning = FALSE /\ skipped = FALSE
  /\ run = [r \in Runs |-> Job!NoCall]
  /\ restarts = 0
  /\ sends = [m \in Mails |-> 0]

-----------------------------------------------------------------------------
(* The delivery path *)

\* Messages that name mail m and were not in the queue before this step.
New(m) == {id \in MsgIds : msgState[id] = "unsent" /\ msgMail'[id] = m}

CountSends == sends' = [m \in Mails |-> sends[m] + Cardinality(New(m))]

\* A step of the delivery path; a mail that it finishes, no scan owes any longer.
Beside(step) ==
  /\ step
  /\ run' = [r \in Runs |-> Job!Paid(r, {m \in Mails : Settled(m)'})]
  /\ CountSends
  /\ UNCHANGED <<aged, scheduled, isRunning, skipped, restarts>>

DeliveryStep == Beside(Operation \/ \E p \in Procs \ {JobProc} : Crash(p))

\* bufferTime passes.
GrowOld(m) ==
  /\ docs[m] # <<>> /\ m \notin aged
  /\ aged' = aged \cup {m}
  /\ UNCHANGED <<vars, jobLocals, sends>>

\* Bound: as many messages as MsgIds exist at once. RSMQ never gives an id
\* again; the id of a message that is deleted and that no activation remembers
\* stands for a new one.
Recycle(id) ==
  /\ msgState[id] = "deleted" /\ ~Held(id)
  /\ msgState' = [msgState EXCEPT ![id] = "unsent"]
  /\ msgMail' = [msgMail EXCEPT ![id] = NoMail]
  /\ UNCHANGED <<api, docs, work, circuit, providerVars, faults, tripped,
                 aged, jobLocals, sends>>

-----------------------------------------------------------------------------
(* The job *)

\* The steps of the job that send nothing, as they are in MailRecoverJob.
Alone(step) == UNCHANGED <<vars, aged, sends>> /\ step

JobStep ==
  \/ Alone(Job!SkipTick)
  \/ \E r \in Runs :
       Alone(Job!Tick(r) \/ Job!Fetch(r) \/ Job!Finish(r) \/ Job!FetchFails(r))

\* QueueBase.send of several mails: a new message each, under the ids `at'.
SendAll(sent, at) ==
  /\ \A m \in sent : msgState[at[m]] = "unsent"
  /\ \A m, n \in sent : at[m] = at[n] => m = n
  /\ msgState' = [id \in MsgIds |->
                    IF \E m \in sent : at[m] = id THEN "visible" ELSE msgState[id]]
  /\ msgMail' = [id \in MsgIds |->
                   IF \E m \in sent : at[m] = id
                   THEN CHOOSE m \in sent : at[m] = id ELSE msgMail[id]]

\* mainQueue.send(mail._id): whether the mail has a message is not asked.
Enqueue(r) ==
  /\ run[r].pc = "send"
  /\ \E m \in run[r].page, id \in MsgIds :
       /\ Send(id, m)
       /\ run' = [run EXCEPT ![r] = Job!Sent(@, m)]
  /\ CountSends
  /\ UNCHANGED <<api, docs, work, circuit, providerVars, faults, tripped,
                 aged, scheduled, isRunning, skipped, restarts>>

EnqueueFails(r) ==
  /\ run[r].pc = "send"
  /\ \E sent \in SUBSET run[r].page :
       /\ Job!InFlight(sent)
       /\ \E at \in [sent -> MsgIds] : SendAll(sent, at)
  /\ Job!GiveUpJob(r)
  /\ CountSends
  /\ UNCHANGED <<api, docs, work, circuit, providerVars, faults, tripped,
                 aged, restarts>>

\* The process of the job ends, with its activations, and starts again.
Restart ==
  /\ Crash(JobProc)
  /\ restarts < MaxRestarts
  /\ restarts' = restarts + 1
  /\ run' = [r \in Runs |-> Job!NoCall]
  /\ isRunning' = FALSE /\ scheduled' = TRUE /\ skipped' = FALSE
  /\ UNCHANGED <<aged, sends>>

-----------------------------------------------------------------------------
SystemNext ==
  \/ DeliveryStep
  \/ \E m \in Mails : GrowOld(m)
  \/ \E id \in MsgIds : Recycle(id)
  \/ JobStep
  \/ \E r \in Runs : Enqueue(r) \/ EnqueueFails(r)
  \/ Restart

SystemSpec == SystemInit /\ [][SystemNext]_systemVars

-----------------------------------------------------------------------------
(* Properties *)

\* The variables of both parts stay within the values the code gives them.
SystemTypeOK ==
  /\ TypeOK
  /\ aged \subseteq Mails
  /\ sends \in [Mails -> Nat]
  /\ Job!JTypeOK

\* Every copy of a mail that goes to an agent beyond the messages that were
\* sent for it, by the API or the job, needs a failure of its own.
CopiesNeedMessages ==
  \A m \in Mails : accepted[m] + wire[m] <= sends[m] + faults[m]

\* "Set the message visibility to prevent other worker instance pull this
\* message again" (README): no more activations work on a mail at one time than it
\* was sent messages, and one more for each failure, an early end of the
\* visibility timeout among them.
SharersNeedMessages ==
  \A m \in Mails :
    Cardinality({s \in Slots : work[s].pc # "idle" /\ MailOf(s) = m})
      <= sends[m] + faults[m]

\* The end of a mail is written over only when the mail had a second message,
\* from the job, or some failure let two activations have the same one.
EndIsFinalUnlessShared ==
  [][\A m \in Mails :
       Settled(m) /\ docs'[m] # docs[m] => sends[m] > 1 \/ faults[m] > 0]_systemVars

\* The delivery path and its queue are an environment MailRecoverJob allows for:
\* what holds of the job there holds of it here.
JobView == Job!JSpec
=============================================================================
