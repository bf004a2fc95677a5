----------------------------- MODULE MailDelivery -----------------------------
(***************************************************************************)
(* The delivery path of the mail service, from POST /api/email to the last *)
(* status of the mail document:                                            *)
(*                                                                         *)
(*   controllers/mail.controller.ts             stores the mail, dispatches*)
(*   services/queue/queue.base.ts               its id to the queue `main' *)
(*   services/queue/queue.consumer.base.ts      pulls, settles a message   *)
(*   services/workers/mail.sending.worker.ts    attempts one message       *)
(*   services/mail.service.ts                   reads and writes the mail  *)
(*   services/mta/mta.base.ts, MtaCircuit       calls the agent            *)
(*                                                                         *)
(* One action is what runs between two awaits of the code: everything that *)
(* waits for MongoDB, Redis or an agent is a step of its own, and the      *)
(* steps of the activations interleave freely.                             *)
(*                                                                         *)
(* External and modelled from its use: RSMQ hides a message it hands out   *)
(* until its visibility timeout; MongoDB applies each update atomically;   *)
(* an agent accepts a mail, refuses it, or accepts it and its answer is    *)
(* lost.                                                                   *)
(***************************************************************************)
EXTENDS Naturals, Sequences, FiniteSets, MtaStrategy, MtaCircuit

CONSTANTS
  Mails,      \* mail documents
  MsgIds,     \* ids RSMQ gives to messages
  Slots,      \* activations of attempProcessMessage that can run at once
  Procs,      \* worker processes
  ProcOf,     \* ProcOf[s]: the process slot s belongs to
  VtCovers,   \* TRUE: a message never becomes visible while it is processed
  MaxFaults,  \* bound: failures that strike the processing of one mail
  NoMsg, NoMail

ASSUME DeliveryAssumption ==
  /\ NoMsg \notin MsgIds /\ NoMail \notin Mails
  /\ ProcOf \in [Slots -> Procs]
  /\ VtCovers \in BOOLEAN
  /\ MaxFaults \in Nat
  /\ IsFiniteSet(Slots)

VARIABLES
  api,       \* api[m]: how far the request that creates m has come
  docs,      \* docs[m]: the status array of m's document, <<>> before it exists
  msgState,  \* msgState[id]: where RSMQ has message id
  msgMail,   \* msgMail[id]: the mail it names
  work,      \* work[s]: the locals of one activation
  circuit,   \* circuit[p][a]: breaker of agent a in process p
  accepted,  \* accepted[m]: how often an agent took m for delivery
  wire,      \* wire[m]: requests nobody waits for any more, still on their way
  faults,    \* faults[m]: failures so far (MaxFaults bounds them)
  tripped    \* history: some breaker has opened

vars == <<api, docs, msgState, msgMail, work, circuit, accepted, wire,
          faults, tripped>>

queueVars    == <<msgState, msgMail>>
providerVars == <<accepted, wire>>

-----------------------------------------------------------------------------
ApiState  == {"new", "inserted", "dispatched", "undispatched", "errored"}
MsgState  == {"unsent", "visible", "hidden", "deleted"}
\* EMailProcessingStatus, and "none" before onMesage returns.
Result    == {"none", "Success", "Retry", "Outdated"}
\* Where an activation waits.
Pc == {"idle", "read", "pick", "fire", "sending", "accepted", "write", "settle"}

Activation == [pc     : Pc,
               msg    : MsgIds \cup {NoMsg},
               status : Status,              \* local `status' of onMesage
               mta    : MTAs \cup {NoMTA},   \* mtaInstance
               addNew : BOOLEAN,             \* needNewStatus
               result : Result]              \* finalProcessingStatus

Idle == [pc |-> "idle", msg |-> NoMsg, status |-> InitStatus, mta |-> NoMTA,
         addNew |-> FALSE, result |-> "none"]

Started(id) == [Idle EXCEPT !.pc = "read", !.msg = id]

MailOf(s)  == msgMail[work[s].msg]
Held(id)   == \E s \in Slots : work[s].msg = id
Settled(m) == docs[m] # <<>> /\ Terminal(Head(docs[m]))

Available(p) == {a \in MTAs : IsAvailable(circuit[p][a])}

\* One more failure strikes mail m.
Blame(m) == /\ faults[m] < MaxFaults
            /\ faults' = [faults EXCEPT ![m] = @ + 1]

Init ==
  /\ api      = [m \in Mails |-> "new"]
  /\ docs     = [m \in Mails |-> <<>>]
  /\ msgState = [id \in MsgIds |-> "unsent"]
  /\ msgMail  = [id \in MsgIds |-> NoMail]
  /\ work     = [s \in Slots |-> Idle]
  /\ circuit  = [p \in Procs |-> [a \in MTAs |-> "closed"]]
  /\ accepted = [m \in Mails |-> 0]
  /\ wire     = [m \in Mails |-> 0]
  /\ faults   = [m \in Mails |-> 0]
  /\ tripped  = FALSE

-----------------------------------------------------------------------------
(* MailController.create *)

NewDocument == <<InitStatus>>

\* QueueBase.send: a new, visible message.
Send(id, m) ==
  /\ msgState[id] = "unsent"
  /\ msgState' = [msgState EXCEPT ![id] = "visible"]
  /\ msgMail'  = [msgMail EXCEPT ![id] = m]

Insert(m) ==
  /\ api[m] = "new"
  /\ api'  = [api EXCEPT ![m] = "inserted"]
  /\ docs' = [docs EXCEPT ![m] = NewDocument]
  /\ UNCHANGED <<queueVars, work, circuit, providerVars, faults, tripped>>

\* insertOne or the findOne after it fails: HTTP 500, and the document may be
\* there all the same.
InsertFails(m) ==
  /\ api[m] = "new"
  /\ api'  = [api EXCEPT ![m] = "errored"]
  /\ docs' \in {docs, [docs EXCEPT ![m] = NewDocument]}
  /\ UNCHANGED <<queueVars, work, circuit, providerVars, faults, tripped>>

Dispatch(m) ==
  /\ api[m] = "inserted"
  /\ api' = [api EXCEPT ![m] = "dispatched"]
  /\ \E id \in MsgIds : Send(id, m)
  /\ UNCHANGED <<docs, work, circuit, providerVars, faults, tripped>>

\* mainQueue.send rejects: logged, HTTP 201. The message may have arrived. A
\* process that ends between insert and send leaves the same state behind.
DispatchFails(m) ==
  /\ api[m] = "inserted"
  /\ api' = [api EXCEPT ![m] = "undispatched"]
  /\ \/ UNCHANGED queueVars
     \/ \E id \in MsgIds : Send(id, m)
  /\ UNCHANGED <<docs, work, circuit, providerVars, faults, tripped>>

-----------------------------------------------------------------------------
(* The queue: RSMQ's receive, and the end of a visibility timeout. *)

\* Mutant: the queue was created with vt 0.
ReceiveVisible(s) ==
  /\ work[s].pc = "idle"
  /\ \E id \in MsgIds : msgState[id] = "visible"
                       /\ work' = [work EXCEPT ![s] = Started(id)]
  /\ UNCHANGED <<api, docs, queueVars, circuit, providerVars, faults, tripped>>

\* attempProcessMessage or tryFetchOnIdle: receive() hands out a visible
\* message and hides it. A prefetched message waits at "read" for its turn.
Receive(s) ==
  /\ work[s].pc = "idle"
  /\ \E id \in MsgIds :
        /\ msgState[id] = "visible"
        /\ msgState' = [msgState EXCEPT ![id] = "hidden"]
        /\ work' = [work EXCEPT ![s] = Started(id)]
  /\ UNCHANGED <<api, docs, msgMail, circuit, providerVars, faults, tripped>>

\* RSMQ hid the message and the reply did not come back: receive() rejects.
ReceiveFails(id) ==
  /\ msgState[id] = "visible"
  /\ Blame(msgMail[id])
  /\ msgState' = [msgState EXCEPT ![id] = "hidden"]
  /\ UNCHANGED <<api, docs, msgMail, work, circuit, providerVars, tripped>>

\* The visibility timeout (20s) of a message ends. While an activation still works
\* on it, or waits for its turn, that is a failure, and cannot be if the timeout
\* covers the processing.
Expire(id) ==
  /\ msgState[id] = "hidden"
  /\ msgState' = [msgState EXCEPT ![id] = "visible"]
  /\ IF Held(id) THEN ~VtCovers /\ Blame(msgMail[id]) ELSE UNCHANGED faults
  /\ UNCHANGED <<api, docs, msgMail, work, circuit, providerVars, tripped>>

-----------------------------------------------------------------------------
(* MailSendingWorker.onMesage *)

\* Mutant: only a missing document is Outdated.
ReadAnyStatus(s) ==
  /\ work[s].pc = "read"
  /\ LET doc == docs[MailOf(s)] IN
       work' = [work EXCEPT ![s] =
                  IF doc = <<>>
                  THEN [@ EXCEPT !.pc = "settle", !.result = "Outdated"]
                  ELSE [@ EXCEPT !.pc = "pick", !.status = Head(doc)]]
  /\ UNCHANGED <<api, docs, queueVars, circuit, providerVars, faults, tripped>>

\* getMailById, then the early returns.
Read(s) ==
  /\ work[s].pc = "read"
  /\ LET doc == docs[MailOf(s)] IN
       work' = [work EXCEPT ![s] =
                  IF doc = <<>> \/ Settled(MailOf(s))
                  THEN [@ EXCEPT !.pc = "settle", !.result = "Outdated"]
                  ELSE [@ EXCEPT !.pc = "pick", !.status = Head(doc)]]
  /\ UNCHANGED <<api, docs, queueVars, circuit, providerVars, faults, tripped>>

NeedNewStatus(status, mta) == status.type = "Init" \/ mta # status.mta

\* getMTA decides: no agent is left, or this one makes the attempt.
GiveUp(w) == [w EXCEPT !.pc = "write", !.status = FailStatus,
                       !.addNew = TRUE, !.result = "Outdated"]

Chosen(w, mta) ==
  LET addNew == NeedNewStatus(w.status, mta) IN
  [w EXCEPT !.pc = "fire", !.mta = mta, !.addNew = addNew,
            !.status = IF addNew THEN Attempt(mta) ELSE @]

Pick(s) ==
  /\ work[s].pc = "pick"
  /\ LET mta == GetMTA(work[s].status, Available(ProcOf[s])) IN
       work' = [work EXCEPT ![s] =
                  IF mta = NoMTA THEN GiveUp(@) ELSE Chosen(@, mta)]
  /\ UNCHANGED <<api, docs, queueVars, circuit, providerVars, faults, tripped>>

\* Mutants: the answer Success falls through to the default case; a refusal is
\* taken for a success; the count of attempts goes down.
SucceededFallsThrough(w) == [w EXCEPT !.pc = "write", !.status.retries = @ + 1,
                                      !.result = "Retry"]
NotSentSucceeds(w)  == [w EXCEPT !.pc = "write", !.status = SuccessStatus,
                                 !.addNew = TRUE, !.result = "Success"]
NotSentCountsDown(w) == [w EXCEPT !.pc = "write", !.status.retries = @ - 1,
                                  !.result = "Retry"]

\* What onMesage does with the answer of mtaInstance.send.
Succeeded(w) == [w EXCEPT !.pc = "write", !.status = SuccessStatus,
                          !.addNew = TRUE, !.result = "Success"]
NotSent(w)   == [w EXCEPT !.pc = "write", !.status.retries = @ + 1,
                          !.result = "Retry"]

\* circuit.fire: rejected at once, or the request goes out.
Fire(s) ==
  LET p == ProcOf[s]  a == work[s].mta IN
  /\ work[s].pc = "fire"
  /\ \/ /\ Rejects(circuit[p][a])
        /\ work' = [work EXCEPT ![s] = NotSent(@)]
        /\ UNCHANGED circuit
     \/ /\ ~Rejects(circuit[p][a])
        /\ circuit' = [circuit EXCEPT ![p][a] = AfterFire(@)]
        /\ work' = [work EXCEPT ![s].pc = "sending"]
  /\ UNCHANGED <<api, docs, queueVars, providerVars, faults, tripped>>

\* The agent takes the mail; its answer is on the way.
Accept(s) ==
  /\ work[s].pc = "sending"
  /\ work' = [work EXCEPT ![s].pc = "accepted"]
  /\ accepted' = [accepted EXCEPT ![MailOf(s)] = @ + 1]
  /\ UNCHANGED <<api, docs, queueVars, circuit, wire, faults, tripped>>

\* The answer moves the breaker to one of the states cs.
Breaker(s, cs) ==
  LET p == ProcOf[s]  a == work[s].mta IN
  \E c \in cs : /\ circuit' = [circuit EXCEPT ![p][a] = c]
                /\ tripped' = (tripped \/ c = "open")

AnswerOk(s) ==
  /\ work[s].pc = "accepted"
  /\ Breaker(s, AfterSuccess(circuit[ProcOf[s]][work[s].mta]))
  /\ work' = [work EXCEPT ![s] = Succeeded(@)]
  /\ UNCHANGED <<api, docs, queueVars, providerVars, faults>>

\* A response whose `ok' is false: a success for the breaker, a retry for the
\* worker.
AnswerNotOk(s) ==
  /\ work[s].pc = "sending"
  /\ Blame(MailOf(s))
  /\ Breaker(s, AfterSuccess(circuit[ProcOf[s]][work[s].mta]))
  /\ work' = [work EXCEPT ![s] = NotSent(@)]
  /\ UNCHANGED <<api, docs, queueVars, providerVars>>

\* Refused, unreachable, or too late: attemptSendMail rejects or the breaker
\* times out, and send() maps both to Retry. A request that timed out may
\* reach the agent afterwards.
AnswerFails(s) ==
  /\ work[s].pc \in {"sending", "accepted"}
  /\ Blame(MailOf(s))
  /\ Breaker(s, AfterFailure(circuit[ProcOf[s]][work[s].mta]))
  /\ \/ UNCHANGED wire
     \/ /\ work[s].pc = "sending"
        /\ wire' = [wire EXCEPT ![MailOf(s)] = @ + 1]
  /\ work' = [work EXCEPT ![s] = NotSent(@)]
  /\ UNCHANGED <<api, docs, queueVars, accepted>>

\* A request nobody waits for any more reaches the agent, or is lost.
Straggler(m) ==
  /\ wire[m] > 0
  /\ wire' = [wire EXCEPT ![m] = @ - 1]
  /\ accepted' \in {accepted, [accepted EXCEPT ![m] = @ + 1]}
  /\ UNCHANGED <<api, docs, queueVars, work, circuit, faults, tripped>>

\* MailService.addMailStatus and updateMailStatus.
AddMailStatus(doc, status)    == <<status>> \o doc
UpdateMailStatus(doc, status) == [doc EXCEPT ![1] = status]

Written(s) ==
  LET m == MailOf(s)  w == work[s] IN
  [docs EXCEPT ![m] = IF w.addNew THEN AddMailStatus(@, w.status)
                                  ELSE UpdateMailStatus(@, w.status)]

Write(s) ==
  /\ work[s].pc = "write"
  /\ docs' = Written(s)
  /\ work' = [work EXCEPT ![s].pc = "settle"]
  /\ UNCHANGED <<api, queueVars, circuit, providerVars, faults, tripped>>

-----------------------------------------------------------------------------
(* attempProcessMessage after onMesage. *)

\* Mutants: every message is deleted; an outdated one is not.
AfterSettleDeletes(state, result) == "deleted"
AfterSettleKeepsOutdated(state, result) ==
  IF result = "Success" \/ state = "deleted" THEN "deleted" ELSE "hidden"

\* delete(id) for Success and Outdated; updateVisibility(id) for Retry, which
\* does nothing to a message that is gone.
AfterSettle(state, result) ==
  IF result = "Retry"
  THEN IF state = "deleted" THEN "deleted" ELSE "hidden"
  ELSE "deleted"

SettledQueue(s) ==
  [msgState EXCEPT ![work[s].msg] = AfterSettle(@, work[s].result)]

Settle(s) ==
  /\ work[s].pc = "settle"
  /\ msgState' = SettledQueue(s)
  /\ work' = [work EXCEPT ![s] = Idle]
  /\ UNCHANGED <<api, docs, msgMail, circuit, providerVars, faults, tripped>>

\* The catch block: getMailById, the status update, or delete and
\* updateVisibility rejects. The error is logged and the activation ends; the
\* operation that rejected may have taken effect.
Throw(s) ==
  /\ \/ work[s].pc = "read"   /\ UNCHANGED <<docs, msgState>>
     \/ work[s].pc = "write"  /\ docs' \in {docs, Written(s)}
                              /\ UNCHANGED msgState
     \/ work[s].pc = "settle" /\ msgState' \in {msgState, SettledQueue(s)}
                              /\ UNCHANGED docs
  /\ Blame(MailOf(s))
  /\ work' = [work EXCEPT ![s] = Idle]
  /\ UNCHANGED <<api, msgMail, circuit, providerVars, tripped>>

-----------------------------------------------------------------------------
(* Processes and timers. *)

\* Process p ends (SIGTERM: process.exit after 500ms; or a crash) and starts
\* again: every activation is gone, and the breakers are new. A request that
\* was out may reach the agent afterwards.
Crash(p) ==
  LET gone == {s \in Slots : ProcOf[s] = p /\ work[s].pc # "idle"}
      strikes == [m \in Mails |-> Cardinality({s \in gone : MailOf(s) = m})]
  IN
  /\ \A m \in Mails : faults[m] + strikes[m] <= MaxFaults
  /\ faults' = [m \in Mails |-> faults[m] + strikes[m]]
  /\ work' = [s \in Slots |-> IF ProcOf[s] = p THEN Idle ELSE work[s]]
  /\ circuit' = [circuit EXCEPT ![p] = [a \in MTAs |-> "closed"]]
  /\ \E out \in SUBSET {s \in gone : work[s].pc = "sending"} :
       wire' = [m \in Mails |->
                  wire[m] + Cardinality({s \in out : MailOf(s) = m})]
  /\ UNCHANGED <<api, docs, queueVars, accepted, tripped>>

\* resetTimeout of an open breaker. A timer cannot run between getMTA and
\* fire(), which only promise callbacks separate.
HalfOpen(p, a) ==
  /\ circuit[p][a] = "open"
  /\ \A s \in Slots : ProcOf[s] = p => work[s].pc # "fire"
  /\ circuit' = [circuit EXCEPT ![p][a] = "halfOpen"]
  /\ UNCHANGED <<api, docs, queueVars, work, providerVars, faults, tripped>>

-----------------------------------------------------------------------------
\* The steps an activation takes when nothing fails.
Progress(s) ==
  \/ Read(s) \/ Pick(s) \/ Fire(s) \/ Accept(s) \/ AnswerOk(s)
  \/ Write(s) \/ Settle(s)

\* All a step of the system can be but the end of a process.
Operation ==
  \/ \E m \in Mails : \/ Insert(m) \/ InsertFails(m)
                      \/ Dispatch(m) \/ DispatchFails(m) \/ Straggler(m)
  \/ \E id \in MsgIds : ReceiveFails(id) \/ Expire(id)
  \/ \E s \in Slots : \/ Receive(s) \/ Progress(s)
                      \/ AnswerNotOk(s) \/ AnswerFails(s) \/ Throw(s)
  \/ \E p \in Procs, a \in MTAs : HalfOpen(p, a)

Next == Operation \/ \E p \in Procs : Crash(p)

Spec == Init /\ [][Next]_vars

\* A request to the API goes on to its dispatch; the ticker of initRx keeps
\* pulling; a visibility timeout ends; every await of an activation resolves,
\* the agent's within the breaker's timeout.
Fairness ==
  /\ \A m \in Mails : WF_vars(Dispatch(m) \/ DispatchFails(m))
  /\ \A id \in MsgIds : WF_vars(Expire(id))
  /\ \A s \in Slots : WF_vars(Receive(s)) /\ WF_vars(Progress(s))

FairSpec == Spec /\ Fairness

-----------------------------------------------------------------------------
(* Properties *)

\* Every variable stays within the values the code gives it: statuses with a
\* known agent and a count, known places of a message and of an activation.
TypeOK ==
  /\ api \in [Mails -> ApiState]
  /\ docs \in [Mails -> Seq(Status)]
  /\ msgState \in [MsgIds -> MsgState]
  /\ msgMail \in [MsgIds -> Mails \cup {NoMail}]
  /\ work \in [Slots -> Activation]
  /\ circuit \in [Procs -> [MTAs -> CircuitState]]
  /\ accepted \in [Mails -> Nat]
  /\ wire \in [Mails -> Nat]
  /\ faults \in [Mails -> 0..MaxFaults]
  /\ tripped \in BOOLEAN

\* No entry of a status array counts more attempts at an agent than that agent
\* allows, nor none at all, whatever runs at the same time and whatever fails:
\* getMTA's check and the increment after the answer are steps apart.
RetriesBounded ==
  \A m \in Mails : \A i \in 1..Len(docs[m]) :
    docs[m][i].type = "Attempt" =>
      /\ docs[m][i].mta \in MTAs
      /\ docs[m][i].retries \in 1..MaxRetries[docs[m][i].mta]

\* A mail is marked Success only when an agent has accepted it.
SuccessMeansAccepted ==
  \A m \in Mails : \A i \in 1..Len(docs[m]) :
    docs[m][i].type = "Success" => accepted[m] > 0

\* An agent gets a mail a second time only on account of a failure: a request
\* that timed out, a status or a delete that was not written, a process that
\* ended, a message that came back too early. Every further copy needs one more.
DuplicatesNeedFaults ==
  \A m \in Mails : accepted[m] + wire[m] <= 1 + faults[m]

\* With two agents configured a mail is given up only after some breaker has
\* opened: refusals alone, however many, never lead to the status Fail.
FailNeedsOpenCircuit ==
  \A m \in Mails : \A i \in 1..Len(docs[m]) :
    docs[m][i].type = "Fail" => tripped

\* A mail that was dispatched and has not come to its end still has a message
\* in the queue, visible or about to be: the worker never deletes the last
\* trace of an unfinished mail.
PendingHasMessage ==
  \A m \in Mails : api[m] = "dispatched" /\ ~Settled(m) =>
    \E id \in MsgIds : msgMail[id] = m /\ msgState[id] \in {"visible", "hidden"}

\* Success and Fail are final: the status update of an activation that is
\* behind never puts a finished mail back, nor turns one end into the other.
TerminalIsFinal ==
  [][\A m \in Mails : Settled(m) => docs'[m] = docs[m]]_docs

\* "can not retry at all after a configured number of retries, it will ... mark
\* the email document as Failed" (README): a mail whose retries are used up with
\* every agent is not attempted again.
ExhaustedIsNotTried ==
  \A s \in Slots :
    work[s].pc = "sending" =>
      \E a \in MTAs : \A i \in 1..Len(docs[MailOf(s)]) :
        LET st == docs[MailOf(s)][i] IN
        ~(st.type = "Attempt" /\ st.mta = a /\ st.retries = MaxRetries[a])

\* Every mail that was dispatched comes to its end, and its message leaves the
\* queue, once the failures stop.
DispatchedSettles ==
  \A m \in Mails :
    (api[m] = "dispatched") ~>
      /\ Settled(m)
      /\ \A id \in MsgIds : msgMail[id] = m => msgState[id] = "deleted"

-----------------------------------------------------------------------------
(* Refinement of MailLifecycle *)

Queued(m) == \E id \in MsgIds : msgMail[id] = m

PhaseOf(m) ==
  IF docs[m] = <<>> THEN "new"
  ELSE CASE Head(docs[m]).type = "Success" -> "delivered"
         [] Head(docs[m]).type = "Fail"    -> "failed"
         [] ~Settled(m)                    -> IF Queued(m) THEN "queued"
                                                           ELSE "stored"

Lifecycle == INSTANCE MailLifecycle WITH
               MaxDeliveries <- 1 + MaxFaults,
               phase         <- [m \in Mails |-> PhaseOf(m)],
               deliveries    <- accepted

\* Every behaviour of the delivery path is one of MailLifecycle: one end per
\* mail, Success only after an acceptance, at most one copy more than failures.
LifecycleSafety == Lifecycle!LSpec

\* And, under Fairness, a queued mail reaches its end.
LifecycleLiveness == Lifecycle!LFairSpec

-----------------------------------------------------------------------------
(* Refinement of MessageLease *)

LeaseOf(id) ==
  IF msgState[id] # "hidden" THEN msgState[id]
  ELSE IF Held(id) THEN "held" ELSE "back"

Lease == INSTANCE MessageLease WITH lease <- [id \in MsgIds |-> LeaseOf(id)]

\* A message that an activation has is nobody else's until the activation
\* settles it, throws or ends with its process; and it is deleted only then.
LeaseSafety == Lease!LeaseSpec
=============================================================================
