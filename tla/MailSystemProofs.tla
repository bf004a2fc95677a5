--------------------------- MODULE MailSystemProofs ---------------------------
(***************************************************************************)
(* Theorems about MailSystem. A step of the system is a step of            *)
(* MailDelivery or concerns the queue alone, so what MailDelivery promises *)
(* without VtCovers survives the messages of the job. And what the system  *)
(* does is what MailRecoverJob expects of its environment.                 *)
(***************************************************************************)
EXTENDS MailSystem, MailDeliveryTimelyProofs

-----------------------------------------------------------------------------
(* The delivery path beside the job *)

\* What the job and the reuse of an id may do to the delivery path: messages
\* come and go, but for those an activation holds.
QueueOnly ==
  /\ UNCHANGED <<api, docs, work, circuit, accepted, wire, faults, tripped>>
  /\ msgState' \in [MsgIds -> MsgState]
  /\ msgMail' \in [MsgIds -> Mails \cup {NoMail}]
  /\ \A id \in MsgIds : msgState'[id] # "unsent" => msgMail'[id] \in Mails
  /\ \A id \in MsgIds : Held(id) /\ msgState[id] # "unsent" =>
       msgState'[id] # "unsent" /\ msgMail'[id] = msgMail[id]

\* The messages that a failing page leaves behind.
LEMMA SendAllProperties ==
  ASSUME IInv, NEW sent \in SUBSET Mails, NEW at \in [sent -> MsgIds],
         SendAll(sent, at)
  PROVE  \A id \in MsgIds :
           \/ msgState'[id] = msgState[id] /\ msgMail'[id] = msgMail[id]
           \/ /\ msgState[id] = "unsent"
              /\ msgState'[id] = "visible" /\ msgMail'[id] \in sent
<1> TAKE id \in MsgIds
<1>1. CASE \E m \in sent : at[m] = id
  <2>1. msgState[id] = "unsent" /\ msgState'[id] = "visible"
    BY <1>1 DEF SendAll
  <2>2. msgMail'[id] = CHOOSE m \in sent : at[m] = id
    BY <1>1 DEF SendAll
  <2>3. (CHOOSE m \in sent : at[m] = id) \in sent
    BY <1>1
  <2> QED BY <2>1, <2>2, <2>3
<1>2. CASE ~ \E m \in sent : at[m] = id
  BY <1>2 DEF SendAll
<1> QED BY <1>1, <1>2

LEMMA EnqueueQueueOnly ==
  ASSUME IInv, run \in [Runs -> Job!Call], NEW r \in Runs, Enqueue(r)
  PROVE  QueueOnly
<1>0. /\ msgState \in [MsgIds -> MsgState] /\ MessagesNamed
      /\ msgMail \in [MsgIds -> Mails \cup {NoMail}]
  BY DEF IInv, TypeOK
<1>1. PICK m \in run[r].page, id \in MsgIds : Send(id, m)
  BY DEF Enqueue
<1>2. m \in Mails
  BY DEF Job!Call
<1>3. UNCHANGED <<api, docs, work, circuit, accepted, wire, faults, tripped>>
  BY DEF Enqueue, providerVars
<1> QED BY <1>0, <1>1, <1>2, <1>3 DEF QueueOnly, Send, MsgState, MessagesNamed

LEMMA EnqueueFailsQueueOnly ==
  ASSUME IInv, run \in [Runs -> Job!Call], NEW r \in Runs, EnqueueFails(r)
  PROVE  QueueOnly
<1>0. /\ msgState \in [MsgIds -> MsgState] /\ MessagesNamed
      /\ msgMail \in [MsgIds -> Mails \cup {NoMail}]
  BY DEF IInv, TypeOK
<1>1. PICK sent \in SUBSET run[r].page : \E at \in [sent -> MsgIds] : SendAll(sent, at)
  BY DEF EnqueueFails
<1>2. PICK at \in [sent -> MsgIds] : SendAll(sent, at)
  BY <1>1
<1>3. sent \in SUBSET Mails
  BY DEF Job!Call
<1>4. UNCHANGED <<api, docs, work, circuit, accepted, wire, faults, tripped>>
  BY DEF EnqueueFails, providerVars
<1>5. \A id \in MsgIds :
        \/ msgState'[id] = msgState[id] /\ msgMail'[id] = msgMail[id]
        \/ /\ msgState[id] = "unsent"
           /\ msgState'[id] = "visible" /\ msgMail'[id] \in Mails
  BY <1>2, <1>3, SendAllProperties
<1>6. /\ msgState' = [id \in MsgIds |-> msgState'[id]]
      /\ msgMail' = [id \in MsgIds |-> msgMail'[id]]
  BY <1>2 DEF SendAll
<1>7. msgState' \in [MsgIds -> MsgState] /\ msgMail' \in [MsgIds -> Mails \cup {NoMail}]
  BY <1>0, <1>5, <1>6 DEF MsgState
<1> QED BY <1>0, <1>4, <1>5, <1>7 DEF QueueOnly, MessagesNamed

LEMMA SystemStep ==
  ASSUME IInv, run \in [Runs -> Job!Call], [SystemNext]_systemVars
  PROVE  [Next]_vars \/ QueueOnly
<1>0. /\ msgState \in [MsgIds -> MsgState] /\ MessagesNamed
      /\ msgMail \in [MsgIds -> Mails \cup {NoMail}]
  BY DEF IInv, TypeOK
<1>1. CASE UNCHANGED systemVars
  BY <1>1 DEF systemVars
<1>2. CASE DeliveryStep
  BY <1>2 DEF DeliveryStep, Beside, Next
<1>3. ASSUME NEW m \in Mails, GrowOld(m) PROVE UNCHANGED vars
  BY <1>3 DEF GrowOld
<1>4. ASSUME NEW id \in MsgIds, Recycle(id) PROVE QueueOnly
  <2>1. /\ msgState[id] = "deleted" /\ ~Held(id)
        /\ msgState' = [msgState EXCEPT ![id] = "unsent"]
        /\ msgMail' = [msgMail EXCEPT ![id] = NoMail]
        /\ UNCHANGED <<api, docs, work, circuit, accepted, wire, faults, tripped>>
    BY <1>4 DEF Recycle, providerVars
  <2>2. msgState' \in [MsgIds -> MsgState] /\ msgMail' \in [MsgIds -> Mails \cup {NoMail}]
    BY <1>0, <2>1 DEF MsgState
  <2> QED BY <1>0, <2>1, <2>2 DEF QueueOnly, MessagesNamed
<1>5. CASE JobStep
  BY <1>5 DEF JobStep, Alone
<1>6. ASSUME NEW r \in Runs, Enqueue(r) PROVE QueueOnly
  BY <1>6, EnqueueQueueOnly
<1>7. ASSUME NEW r \in Runs, EnqueueFails(r) PROVE QueueOnly
  BY <1>7, EnqueueFailsQueueOnly
<1>8. CASE Restart
  BY <1>8, SystemAssumption DEF Restart, Next
<1> QED BY <1>1, <1>2, <1>3, <1>4, <1>5, <1>6, <1>7, <1>8 DEF SystemNext

LEMMA QueueOnlyIInv ==
  ASSUME IInv, QueueOnly
  PROVE  IInv'
<1>1. TypeOK' /\ MessagesNamed' /\ DocsOK'
  BY DEF IInv, QueueOnly, TypeOK, MessagesNamed, DocsOK
<1>2. ASSUME NEW s \in Slots PROVE ActivationOK(work'[s], msgState')
  <2>1. ActivationOK(work[s], msgState) /\ work'[s] = work[s]
    BY DEF IInv, ActivationsOK, QueueOnly
  <2>2. work[s].pc # "idle" => msgState'[work[s].msg] # "unsent"
    BY <2>1 DEF ActivationOK, QueueOnly, Held
  <2> QED BY <2>1, <2>2 DEF ActivationOK
<1> QED BY <1>1, <1>2 DEF IInv, ActivationsOK

LEMMA QueueOnlyTripInv == TripInv /\ QueueOnly => TripInv'
  BY DEF QueueOnly, TripInv, CircuitsTripped, FailTripped, FailNeedsOpenCircuit

LEMMA QueueOnlyAcceptInv ==
  ASSUME IInv, AcceptInv, QueueOnly
  PROVE  AcceptInv'
<1>1. ASSUME NEW s \in Slots, work[s].pc # "idle" PROVE MailOf(s)' = MailOf(s)
  <2>1. work[s].msg \in MsgIds /\ msgState[work[s].msg] # "unsent"
    BY <1>1, ActivationMail DEF ActivationOK
  <2> QED BY <2>1 DEF QueueOnly, Held, MailOf
<1>2. AnswersAccepted'
  BY <1>1 DEF QueueOnly, AcceptInv, AnswersAccepted
<1>3. SuccessMeansAccepted'
  BY DEF QueueOnly, AcceptInv, SuccessMeansAccepted
<1> QED BY <1>2, <1>3 DEF AcceptInv

-----------------------------------------------------------------------------
(* Documents come before whatever refers to them. *)

Attempting == {"pick", "fire", "sending", "accepted", "write"}

StoredInv ==
  /\ DocumentBeforeMessage
  /\ \A m \in aged : docs[m] # <<>>
  /\ \A s \in Slots : work[s].pc \in Attempting => docs[MailOf(s)] # <<>>

\* A step that changes a document stores a new one, or an activation writes to
\* one that is there; the queue stays as it is.
LEMMA DocsView ==
  ASSUME IInv, StoredInv, [Next]_vars, docs' # docs
  PROVE  /\ UNCHANGED <<msgState, msgMail>>
         /\ \E m \in Mails :
              /\ docs'[m] # <<>>
              /\ docs[m] = <<>> => Head(docs'[m]) = InitStatus
              /\ \A n \in Mails : n # m => docs'[n] = docs[n]
<1>1. UNCHANGED <<msgState, msgMail>>
  BY DEF Next, Operation, vars, queueVars, providerVars, Progress, Insert, InsertFails,
         Dispatch, DispatchFails, Straggler, ReceiveFails, Expire,
         Receive, Read, Pick, Fire, Accept, AnswerOk,
         AnswerNotOk, AnswerFails, Write, Settle, Throw, Crash, HalfOpen
<1>2. ASSUME NEW m \in Mails, docs' = [docs EXCEPT ![m] = NewDocument]
      PROVE  /\ docs'[m] # <<>> /\ Head(docs'[m]) = InitStatus
             /\ \A n \in Mails : n # m => docs'[n] = docs[n]
  BY <1>2 DEF NewDocument, IInv, TypeOK
<1>3. ASSUME NEW s \in Slots, work[s].pc = "write", docs' = Written(s)
      PROVE  /\ MailOf(s) \in Mails /\ docs[MailOf(s)] # <<>> /\ docs'[MailOf(s)] # <<>>
             /\ \A n \in Mails : n # MailOf(s) => docs'[n] = docs[n]
  <2>1. MailOf(s) \in Mails /\ docs[MailOf(s)] # <<>>
    BY <1>3, ActivationMail DEF StoredInv, Attempting
  <2> QED BY <1>3, <2>1, WrittenDocs
<1> QED BY <1>1, <1>2, <1>3, DocsFrame

\* A document once stored is there for good.
LEMMA DocsStay ==
  ASSUME IInv, StoredInv, [Next]_vars, NEW m \in Mails, docs[m] # <<>>
  PROVE  docs'[m] # <<>>
  BY DocsView

LEMMA DocumentBeforeMessageNext ==
  ASSUME IInv, StoredInv, [Next]_vars
  PROVE  DocumentBeforeMessage'
<1>0. docs \in [Mails -> Seq(Status)] /\ api \in [Mails -> ApiState]
  BY DEF IInv, TypeOK
<1>1. ASSUME NEW m \in Mails, Insert(m) \/ InsertFails(m)
      PROVE  DocumentBeforeMessage'
  <2>1. NewDocument # <<>>
    BY DEF NewDocument
  <2> QED BY <1>0, <1>1, <2>1 DEF StoredInv, DocumentBeforeMessage, Insert, InsertFails
<1>2. ASSUME NEW m \in Mails, Dispatch(m) \/ DispatchFails(m)
      PROVE  DocumentBeforeMessage'
  BY <1>0, <1>2 DEF StoredInv, DocumentBeforeMessage, Dispatch, DispatchFails
<1>3. CASE ~ \E m \in Mails : \/ Insert(m) \/ InsertFails(m)
                               \/ Dispatch(m) \/ DispatchFails(m)
  <2>1. UNCHANGED api
    BY <1>3 DEF Next, Operation, vars, Progress, Straggler, ReceiveFails, Expire,
         Receive, Read, Pick, Fire, Accept,
         AnswerOk, AnswerNotOk, AnswerFails, Write, Settle, Throw, Crash, HalfOpen
  <2>2. ASSUME NEW m \in Mails, api[m] = "new" PROVE docs'[m] = docs[m]
    <3>1. docs[m] = <<>>
      BY <2>2 DEF StoredInv, DocumentBeforeMessage
    <3>2. ASSUME NEW s \in Slots, work[s].pc = "write", docs' = Written(s)
          PROVE  docs'[m] = docs[m]
      <4>1. MailOf(s) \in Mails /\ docs[MailOf(s)] # <<>>
        BY <3>2, ActivationMail DEF StoredInv, Attempting
      <4> QED BY <3>1, <3>2, <4>1, WrittenDocs
    <3> QED BY <1>3, <3>2, DocsFrame
  <2> QED BY <2>1, <2>2, DocsStay DEF StoredInv, DocumentBeforeMessage
<1> QED BY <1>1, <1>2, <1>3

\* An activation that attempts has read the document.
LEMMA AttemptOrigin ==
  ASSUME IInv, [Next]_vars, NEW s \in Slots, work'[s].pc \in Attempting
  PROVE  /\ Busy(s) /\ work'[s].msg = work[s].msg
         /\ \/ work[s].pc \in Attempting
            \/ work[s].pc = "read" /\ docs[MailOf(s)] # <<>> /\ ~Settled(MailOf(s))
<1>1. work[s] \in Activation /\ work \in [Slots -> Activation]
  BY DEF IInv, TypeOK
<1>2. CASE work'[s] = work[s]
  BY <1>2 DEF Busy, Attempting
<1>3. CASE Local(s)
  <2>1. Busy(s) /\ work'[s].msg = work[s].msg
    BY <1>3, LocalFrame
  <2>2. \/ work[s].pc \in Attempting
        \/ work[s].pc = "read" /\ docs[MailOf(s)] # <<>> /\ ~Settled(MailOf(s))
    BY <1>1, <1>3, ZenonT(30) DEF Local, Read, Pick, Fire, Accept, Write, AnswerOk,
                      AnswerNotOk, AnswerFails, Attempting, Activation
  <2> QED BY <2>1, <2>2
<1>4. ASSUME NEW t \in Slots, Local(t), t # s PROVE work'[s] = work[s]
  BY <1>4, LocalFrame
<1>5. ASSUME NEW t \in Slots, Release(t) PROVE work'[s] = work[s]
  BY <1>1, <1>5, ReleaseFrame DEF Idle, Attempting
<1>6. ASSUME NEW t \in Slots, Receive(t) PROVE work'[s] = work[s]
  BY <1>1, <1>6 DEF Receive, Started, Idle, Attempting
<1>7. ASSUME ~ \E t \in Slots : Local(t) \/ Release(t) \/ Receive(t)
      PROVE  work'[s] = work[s]
  BY <1>7, OtherFrame DEF Crash, Idle, Attempting, vars
<1> QED BY <1>2, <1>3, <1>4, <1>5, <1>6, <1>7

LEMMA StoredInvNext ==
  ASSUME IInv, StoredInv, [Next]_vars, aged \subseteq Mails, UNCHANGED aged
  PROVE  StoredInv'
<1>1. ASSUME NEW s \in Slots, work'[s].pc \in Attempting
      PROVE  docs'[MailOf(s)'] # <<>>
  <2>1. /\ Busy(s) /\ work'[s].msg = work[s].msg
        /\ \/ work[s].pc \in Attempting
           \/ work[s].pc = "read" /\ docs[MailOf(s)] # <<>>
    BY <1>1, AttemptOrigin
  <2>2. docs[MailOf(s)] # <<>>
    BY <2>1 DEF StoredInv
  <2>3. MailOf(s)' = MailOf(s) /\ MailOf(s) \in Mails
    BY <2>1, MailOfStays
  <2> QED BY <2>2, <2>3, DocsStay
<1>2. \A m \in aged' : docs'[m] # <<>>
  BY DocsStay DEF StoredInv
<1> QED BY <1>1, <1>2, DocumentBeforeMessageNext DEF StoredInv

LEMMA QueueOnlyStoredInv ==
  ASSUME IInv, StoredInv, QueueOnly, UNCHANGED aged
  PROVE  StoredInv'
<1>1. ASSUME NEW s \in Slots, work[s].pc \in Attempting PROVE MailOf(s)' = MailOf(s)
  <2>1. work[s].msg \in MsgIds /\ msgState[work[s].msg] # "unsent"
    BY <1>1, ActivationMail DEF ActivationOK, Attempting
  <2> QED BY <2>1 DEF QueueOnly, Held, MailOf
<1> QED BY <1>1 DEF QueueOnly, StoredInv, DocumentBeforeMessage

-----------------------------------------------------------------------------
(* The delivery path as MailRecoverJob sees it *)

mailBar   == [m \in Mails |-> AgeOf(m)]
queuedBar == {m \in Mails : HasMessage(m)}

\* What a scan owes is not finished.
DueUnsettled == \A r \in Runs : \A m \in run[r].due : ~Settled(m)

LocalsOK ==
  /\ aged \subseteq Mails
  /\ scheduled \in BOOLEAN /\ isRunning \in BOOLEAN /\ skipped \in BOOLEAN
  /\ run \in [Runs -> Job!Call]
  /\ restarts \in 0..MaxRestarts

SInv == IInv /\ StoredInv /\ LocalsOK /\ DueUnsettled

LEMMA BarTypes == mailBar \in [Mails -> Job!MailState] /\ queuedBar \subseteq Mails
  BY DEF mailBar, queuedBar, AgeOf, Job!MailState

\* The values AgeOf can have.
LEMMA AgeValue ==
  ASSUME NEW m \in Mails
  PROVE  /\ docs[m] = <<>> => AgeOf(m) = "none"
         /\ Settled(m) => AgeOf(m) = "done"
         /\ docs[m] # <<>> /\ ~Settled(m) =>
              AgeOf(m) = IF m \in aged THEN "old" ELSE "fresh"
  BY DEF AgeOf, Settled

\* One mail changes its age and the others do not.
LEMMA BarMove ==
  ASSUME NEW m \in Mails, NEW to, \A n \in Mails : n # m => AgeOf(n)' = AgeOf(n),
         AgeOf(m)' = to
  PROVE  mailBar' = [mailBar EXCEPT ![m] = to]
  BY DEF mailBar

LEMMA AgeStays ==
  ASSUME NEW m \in Mails, docs'[m] = docs[m], UNCHANGED aged
  PROVE  AgeOf(m)' = AgeOf(m) /\ (Settled(m)' <=> Settled(m))
  BY DEF AgeOf, Settled

\* A scan that a mail newly finished is taken from.
LEMMA PaidOne ==
  ASSUME LocalsOK, DueUnsettled, NEW r \in Runs, NEW over, NEW done,
         over \subseteq done, \A m \in done : m \in over \/ Settled(m)
  PROVE  Job!Paid(r, done) = Job!Paid(r, over)
<1>1. run[r] \in Job!Call /\ \A m \in run[r].due : ~Settled(m)
  BY DEF LocalsOK, DueUnsettled
<1>2. run[r].due \ done = run[r].due \ over
  BY <1>1
<1> QED BY <1>2 DEF Job!Paid

LEMMA PaidNone ==
  ASSUME LocalsOK, NEW r \in Runs
  PROVE  Job!Paid(r, {}) = run[r]
<1>1. run[r] \in Job!Call /\ run[r].due \ {} = run[r].due
  BY DEF LocalsOK
<1> QED BY <1>1 DEF Job!Paid, Job!Call

LEMMA PaidType ==
  ASSUME LocalsOK, NEW r \in Runs, NEW done
  PROVE  Job!Paid(r, done) \in Job!Call /\ Job!Paid(r, done).due = run[r].due \ done
<1>1. run[r] \in Job!Call
  BY DEF LocalsOK
<1> QED BY <1>1 DEF Job!Paid, Job!Call

\* A step of the delivery path that changes a document is, for the job, a mail
\* created, ended or put back, or nothing.
LEMMA DocsStepView ==
  ASSUME SInv, [Next]_vars, docs' # docs,
         run' = [r \in Runs |-> Job!Paid(r, {m \in Mails : Settled(m)'})],
         UNCHANGED <<aged, scheduled, isRunning, skipped, restarts>>
  PROVE  \/ \E m \in Mails : Job!Create(m) \/ Job!End(m) \/ Job!Reopen(m)
         \/ UNCHANGED <<mailBar, queuedBar, jobLocals>>
<1>0. IInv /\ StoredInv /\ LocalsOK /\ DueUnsettled
  BY DEF SInv
<1>1. UNCHANGED <<msgState, msgMail>>
  BY <1>0, DocsView
<1>2. queuedBar' = queuedBar
  BY <1>1 DEF queuedBar, HasMessage
<1>3. PICK m \in Mails : /\ docs'[m] # <<>>
                         /\ docs[m] = <<>> => Head(docs'[m]) = InitStatus
                         /\ \A n \in Mails : n # m => docs'[n] = docs[n]
  BY <1>0, DocsView
<1>4. ASSUME NEW n \in Mails, n # m
      PROVE  AgeOf(n)' = AgeOf(n) /\ (Settled(n)' <=> Settled(n))
  BY <1>3, <1>4, AgeStays
<1>5. run \in [Runs -> Job!Call]
  BY <1>0 DEF LocalsOK
<1>6. ASSUME ~Settled(m)' \/ Settled(m) PROVE run' = run
  <2>1. \A n \in {n \in Mails : Settled(n)'} : n \in {} \/ Settled(n)
    BY <1>4, <1>6
  <2>2. ASSUME NEW r \in Runs
        PROVE  Job!Paid(r, {n \in Mails : Settled(n)'}) = run[r]
    BY <1>0, <2>1, PaidOne, PaidNone
  <2> QED BY <1>5, <2>2
<1>7. AgeOf(m)' = IF Settled(m)' THEN "done" ELSE IF m \in aged THEN "old" ELSE "fresh"
  BY <1>3 DEF AgeOf, Settled
<1>8. CASE docs[m] = <<>>
  <2>1. m \notin aged
    BY <1>0, <1>8 DEF StoredInv
  <2>2. ~Settled(m)'
    BY <1>3, <1>8 DEF Settled, Terminal, InitStatus
  <2>3. mailBar' = [mailBar EXCEPT ![m] = "fresh"]
    BY <1>4, <1>7, <2>1, <2>2, BarMove
  <2>4. mailBar[m] = "none"
    BY <1>8, AgeValue DEF mailBar
  <2>5. Job!Create(m)
    BY <1>2, <1>6, <2>2, <2>3, <2>4 DEF Job!Create, mailBar, queuedBar
  <2> QED BY <2>5
<1>9. CASE docs[m] # <<>> /\ ~Settled(m) /\ Settled(m)'
  <2>1. mailBar' = [mailBar EXCEPT ![m] = "done"]
    BY <1>4, <1>7, <1>9, BarMove
  <2>2. mailBar[m] \in {"fresh", "old"}
    BY <1>9, AgeValue DEF mailBar
  <2>3. /\ {m} \subseteq {n \in Mails : Settled(n)'}
        /\ \A n \in {n \in Mails : Settled(n)'} : n \in {m} \/ Settled(n)
    BY <1>4, <1>9
  <2>4. ASSUME NEW r \in Runs
        PROVE  Job!Paid(r, {n \in Mails : Settled(n)'}) = Job!Paid(r, {m})
    BY <1>0, <2>3, PaidOne
  <2>5. run' = [r \in Runs |-> Job!Paid(r, {m})]
    BY <2>4
  <2>6. Job!End(m)
    BY <1>2, <2>1, <2>2, <2>5 DEF Job!End, mailBar, queuedBar
  <2> QED BY <2>6
<1>10. CASE Settled(m) /\ ~Settled(m)'
  <2>1. mailBar[m] = "done"
    BY <1>10, AgeValue DEF mailBar
  <2>2. \/ mailBar' = [mailBar EXCEPT ![m] = "fresh"]
        \/ mailBar' = [mailBar EXCEPT ![m] = "old"]
    BY <1>4, <1>7, <1>10, BarMove
  <2>3. Job!Reopen(m)
    BY <1>2, <1>6, <1>10, <2>1, <2>2 DEF Job!Reopen, mailBar, queuedBar
  <2> QED BY <2>3
<1>11. CASE docs[m] # <<>> /\ (Settled(m)' <=> Settled(m))
  <2>1. AgeOf(m)' = AgeOf(m)
    BY <1>7, <1>11, AgeValue
  <2>2. mailBar' = mailBar
    BY <1>4, <2>1 DEF mailBar
  <2> QED BY <1>2, <1>6, <1>11, <2>2 DEF jobLocals
<1>12. Settled(m) => docs[m] # <<>>
  BY DEF Settled
<1> QED BY <1>8, <1>9, <1>10, <1>11, <1>12

\* One message moves: only its mail may gain or lose its last message.
LEMMA OthersKeepMessages ==
  ASSUME NEW id \in MsgIds, NEW m \in Mails,
         \A i \in MsgIds : i # id => msgState'[i] = msgState[i] /\ msgMail'[i] = msgMail[i],
         \/ msgMail[id] = m \/ msgState[id] \notin {"visible", "hidden"},
         \/ msgMail'[id] = m \/ msgState'[id] \notin {"visible", "hidden"}
  PROVE  \A n \in Mails : n # m => (HasMessage(n)' <=> HasMessage(n))
<1> TAKE n \in Mails
<1> HAVE n # m
<1>1. \A i \in MsgIds :
        (msgMail[i] = n /\ msgState[i] \in {"visible", "hidden"})
          <=> (msgMail'[i] = n /\ msgState'[i] \in {"visible", "hidden"})
  OBVIOUS
<1> QED BY <1>1 DEF HasMessage

LEMMA QueueView ==
  ASSUME IInv, StoredInv, [Next]_vars
  PROVE  \/ \A m \in Mails : HasMessage(m)' <=> HasMessage(m)
         \/ \E m \in Mails : /\ \A n \in Mails : n # m => (HasMessage(n)' <=> HasMessage(n))
                             /\ HasMessage(m)' /\ ~HasMessage(m) => docs[m] # <<>>
<1> DEFINE Goal == \/ \A m \in Mails : HasMessage(m)' <=> HasMessage(m)
                   \/ \E m \in Mails :
                        /\ \A n \in Mails : n # m => (HasMessage(n)' <=> HasMessage(n))
                        /\ HasMessage(m)' /\ ~HasMessage(m) => docs[m] # <<>>
<1>0. /\ msgState \in [MsgIds -> MsgState] /\ work \in [Slots -> Activation]
      /\ msgMail \in [MsgIds -> Mails \cup {NoMail}]
  BY DEF IInv, TypeOK
<1>1. CASE UNCHANGED <<msgState, msgMail>>
  BY <1>1 DEF HasMessage
<1>2. ASSUME NEW m \in Mails, Dispatch(m) \/ DispatchFails(m), NEW id \in MsgIds, Send(id, m)
      PROVE  Goal
  <2>1. docs[m] # <<>>
    BY <1>2 DEF Dispatch, DispatchFails, StoredInv, DocumentBeforeMessage
  <2>2. /\ msgState[id] = "unsent" /\ msgMail'[id] = m
        /\ \A i \in MsgIds : i # id => msgState'[i] = msgState[i] /\ msgMail'[i] = msgMail[i]
    BY <1>0, <1>2 DEF Send
  <2>3. \A n \in Mails : n # m => (HasMessage(n)' <=> HasMessage(n))
    BY <2>2, OthersKeepMessages
  <2> QED BY <2>1, <2>3
<1>3. ASSUME NEW id \in MsgIds,
             ReceiveFails(id) \/ Expire(id)
               \/ \E s \in Slots : /\ Receive(s) /\ msgState[id] = "visible"
                                   /\ msgState' = [msgState EXCEPT ![id] = "hidden"]
      PROVE  Goal
  <2>1. UNCHANGED msgMail
    BY <1>3 DEF ReceiveFails, Expire, Receive
  <2>2. \A i \in MsgIds : msgState'[i] \in {"visible", "hidden"}
                            <=> msgState[i] \in {"visible", "hidden"}
    BY <1>0, <1>3 DEF ReceiveFails, Expire
  <2> QED BY <2>1, <2>2 DEF HasMessage
<1>4. ASSUME NEW s \in Slots, Release(s) PROVE Goal
  <2>1. /\ UNCHANGED msgMail /\ Busy(s)
        /\ \A i \in MsgIds : i # work[s].msg => msgState'[i] = msgState[i]
    BY <1>4, ReleaseFrame
  <2>2. PICK id \in MsgIds, m \in Mails :
          id = work[s].msg /\ m = msgMail[id] /\ msgState[id] # "unsent"
    BY <2>1, ActivationMail DEF Busy, ActivationOK, MailOf
  <2>3. \A n \in Mails : n # m => (HasMessage(n)' <=> HasMessage(n))
    BY <2>1, <2>2, OthersKeepMessages
  <2>4. msgState[id] = "deleted" => msgState'[id] = "deleted"
    BY <1>0, <1>4, <2>2 DEF Release, Settle, Throw, SettledQueue, AfterSettle
  <2>5. HasMessage(m)' => HasMessage(m)
    BY <1>0, <2>1, <2>2, <2>4 DEF HasMessage, MsgState
  <2> QED BY <2>3, <2>5
<1>5. ASSUME NEW s \in Slots, Receive(s) PROVE Goal
  BY <1>3, <1>5 DEF Receive
<1>6. ASSUME NEW s \in Slots, Local(s) PROVE Goal
  BY <1>1, <1>6, LocalFrame
<1>7. CASE \E m \in Mails : Dispatch(m) \/ DispatchFails(m)
  BY <1>1, <1>2, <1>7 DEF Dispatch, DispatchFails, queueVars
<1>8. CASE /\ ~ \E s \in Slots : Local(s) \/ Release(s) \/ Receive(s)
           /\ ~ \E m \in Mails : Dispatch(m) \/ DispatchFails(m)
  <2>1. \/ UNCHANGED <<msgState, msgMail>>
        \/ \E id \in MsgIds : ReceiveFails(id) \/ Expire(id)
    BY <1>8 DEF Next, Operation, Progress, Local, Release, Insert, InsertFails,
         Straggler, Crash, HalfOpen, queueVars, vars
  <2> QED BY <1>1, <1>3, <2>1
<1> QED BY <1>4, <1>5, <1>6, <1>7, <1>8

\* A step of the delivery path that leaves the documents alone is, for the job,
\* a message that comes or goes, or nothing.
LEMMA QueueStepView ==
  ASSUME SInv, [Next]_vars, docs' = docs,
         run' = [r \in Runs |-> Job!Paid(r, {m \in Mails : Settled(m)'})],
         UNCHANGED <<aged, scheduled, isRunning, skipped, restarts>>
  PROVE  \/ \E m \in Mails : Job!Arrive(m) \/ Job!Depart(m)
         \/ UNCHANGED <<mailBar, queuedBar, jobLocals>>
<1>0. IInv /\ StoredInv /\ LocalsOK /\ DueUnsettled
  BY DEF SInv
<1>1. mailBar' = mailBar /\ \A m \in Mails : Settled(m)' <=> Settled(m)
  BY AgeStays DEF mailBar
<1>2. run' = run
  <2>1. \A n \in {n \in Mails : Settled(n)'} : n \in {} \/ Settled(n)
    BY <1>1
  <2>2. ASSUME NEW r \in Runs
        PROVE  Job!Paid(r, {n \in Mails : Settled(n)'}) = run[r]
    BY <1>0, <2>1, PaidOne, PaidNone
  <2> QED BY <1>0, <2>2 DEF LocalsOK
<1>3. CASE \A m \in Mails : HasMessage(m)' <=> HasMessage(m)
  BY <1>1, <1>2, <1>3 DEF queuedBar, jobLocals
<1>4. ASSUME NEW m \in Mails,
             \A n \in Mails : n # m => (HasMessage(n)' <=> HasMessage(n)),
             HasMessage(m)' /\ ~HasMessage(m) => docs[m] # <<>>
      PROVE  \/ Job!Arrive(m) \/ Job!Depart(m)
             \/ UNCHANGED <<mailBar, queuedBar, jobLocals>>
  <2>1. CASE HasMessage(m)' /\ ~HasMessage(m)
    <3>1. queuedBar' = queuedBar \cup {m} /\ m \notin queuedBar
      BY <1>4, <2>1 DEF queuedBar
    <3>2. mailBar[m] # "none"
      BY <1>4, <2>1, AgeValue DEF mailBar
    <3> QED BY <1>1, <1>2, <3>1, <3>2 DEF Job!Arrive, mailBar, queuedBar
  <2>2. CASE ~HasMessage(m)' /\ HasMessage(m)
    <3>1. queuedBar' = queuedBar \ {m} /\ m \in queuedBar
      BY <1>4, <2>2 DEF queuedBar
    <3> QED BY <1>1, <1>2, <3>1 DEF Job!Depart, mailBar, queuedBar
  <2>3. CASE HasMessage(m)' <=> HasMessage(m)
    BY <1>1, <1>2, <1>4, <2>3 DEF queuedBar, jobLocals
  <2> QED BY <2>1, <2>2, <2>3
<1> QED BY <1>0, <1>3, <1>4, QueueView

-----------------------------------------------------------------------------
(* The locals of the job *)

LEMMA NoCallType == Job!NoCall \in Job!Call
  BY DEF Job!NoCall, Job!Call

\* One call of the executor moves on, and owes no more than pending mails.
LEMMA CallStep ==
  ASSUME LocalsOK, DueUnsettled, NEW r \in Runs, NEW call \in Job!Call,
         run' = [run EXCEPT ![r] = call],
         \A m \in call.due : ~Settled(m), UNCHANGED docs
  PROVE  run' \in [Runs -> Job!Call] /\ DueUnsettled'
<1>1. run' \in [Runs -> Job!Call]
  BY DEF LocalsOK
<1>2. \A t \in Runs : run'[t] = IF t = r THEN call ELSE run[t]
  BY DEF LocalsOK
<1> QED BY <1>1, <1>2 DEF DueUnsettled, Settled

LEMMA ReleaseStep ==
  ASSUME LocalsOK, DueUnsettled, NEW r \in Runs, Job!Release(r), UNCHANGED docs
  PROVE  /\ run' \in [Runs -> Job!Call] /\ DueUnsettled'
         /\ isRunning' = FALSE /\ skipped' \in BOOLEAN
<1>1. run' = [run EXCEPT ![r] = Job!NoCall] /\ Job!NoCall.due = {}
  BY DEF Job!Release, Job!NoCall
<1>2. isRunning' = FALSE /\ skipped' \in BOOLEAN
  BY DEF Job!Release, LocalsOK
<1> QED BY <1>1, <1>2, NoCallType, CallStep

\* The steps of the job alone keep its locals.
LEMMA JobLocals ==
  ASSUME LocalsOK, DueUnsettled, UNCHANGED <<aged, docs>>, NEW r \in Runs,
         \/ Job!Tick(r) \/ Job!Fetch(r) \/ Job!Finish(r) \/ Job!FetchFails(r)
         \/ Job!SkipTick
  PROVE  LocalsOK' /\ DueUnsettled'
<1>0. run \in [Runs -> Job!Call] /\ run[r] \in Job!Call /\ aged' \subseteq Mails
      /\ restarts \in 0..MaxRestarts /\ isRunning \in BOOLEAN
      /\ scheduled \in BOOLEAN /\ skipped \in BOOLEAN
  BY DEF LocalsOK
<1>1. CASE Job!Tick(r)
  <2> DEFINE call == [Job!NoCall EXCEPT !.pc = "fetch", !.due = Job!Pending]
  <2>1. call \in Job!Call /\ call.due = Job!Pending
    BY DEF Job!NoCall, Job!Call, Job!Pending
  <2>2. \A m \in Job!Pending : ~Settled(m)
    BY AgeValue DEF Job!Pending
  <2>3. /\ run' = [run EXCEPT ![r] = call]
        /\ isRunning' = TRUE /\ UNCHANGED <<scheduled, skipped, restarts>>
    BY <1>1 DEF Job!Tick
  <2> HIDE DEF call
  <2>4. run' \in [Runs -> Job!Call] /\ DueUnsettled'
    BY <2>1, <2>2, <2>3, CallStep
  <2> QED BY <1>0, <2>3, <2>4 DEF LocalsOK
<1>2. CASE Job!Fetch(r)
  <2>1. PICK page \in Job!Pages(Job!Matching(run[r].from)) :
          \E last \in page : run' = [run EXCEPT ![r] = Job!Fetched(run[r], page, last)]
    BY <1>2 DEF Job!Fetch, Job!NextFrom
  <2>2. PICK last \in page : run' = [run EXCEPT ![r] = Job!Fetched(run[r], page, last)]
    BY <2>1
  <2>3. page \subseteq Mails
    BY DEF Job!Pages, Job!Matching, Job!Pending
  <2>4. /\ Job!Fetched(run[r], page, last) \in Job!Call
        /\ Job!Fetched(run[r], page, last).due = run[r].due
    BY <1>0, <2>3 DEF Job!Call, Job!Fetched
  <2>5. run' \in [Runs -> Job!Call] /\ DueUnsettled'
    BY <2>2, <2>4, CallStep DEF DueUnsettled
  <2> QED BY <1>0, <1>2, <2>5 DEF LocalsOK, Job!Fetch
<1>3. CASE Job!Finish(r) \/ Job!FetchFails(r)
  BY <1>0, <1>3, ReleaseStep DEF LocalsOK, Job!Finish, Job!FetchFails, Job!GiveUpJob
<1>4. CASE Job!SkipTick
  BY <1>0, <1>4 DEF LocalsOK, DueUnsettled, Settled, Job!SkipTick
<1> QED BY <1>1, <1>2, <1>3, <1>4

-----------------------------------------------------------------------------
(* Every step of the system *)

\* A step that leaves documents and ages alone leaves the mails alone.
LEMMA MailBarStays == UNCHANGED <<docs, aged>> => mailBar' = mailBar
  BY AgeStays DEF mailBar

LEMMA SentMessages ==
  ASSUME IInv, NEW sent \in SUBSET Mails, NEW at \in [sent -> MsgIds], SendAll(sent, at)
  PROVE  queuedBar' = queuedBar \cup sent
<1>1. \A id \in MsgIds :
        \/ msgState'[id] = msgState[id] /\ msgMail'[id] = msgMail[id]
        \/ /\ msgState[id] = "unsent"
           /\ msgState'[id] = "visible" /\ msgMail'[id] \in sent
  BY SendAllProperties
<1>2. ASSUME NEW m \in sent PROVE HasMessage(m)'
  <2>1. at[m] \in MsgIds
    OBVIOUS
  <2>2. msgState'[at[m]] = "visible"
    BY <2>1 DEF SendAll
  <2>3. msgMail'[at[m]] = CHOOSE n \in sent : at[n] = at[m]
    BY <2>1 DEF SendAll
  <2>4. (CHOOSE n \in sent : at[n] = at[m]) = m
    BY DEF SendAll
  <2> QED BY <2>1, <2>2, <2>3, <2>4 DEF HasMessage
<1>3. ASSUME NEW m \in Mails, HasMessage(m) PROVE HasMessage(m)'
  BY <1>1, <1>3 DEF HasMessage
<1>4. ASSUME NEW m \in Mails, HasMessage(m)', ~HasMessage(m) PROVE m \in sent
  BY <1>1, <1>4 DEF HasMessage
<1> QED BY <1>2, <1>3, <1>4 DEF queuedBar

LEMMA OneSent ==
  ASSUME IInv, NEW m \in Mails, NEW id \in MsgIds, Send(id, m)
  PROVE  queuedBar' = queuedBar \cup {m}
<1>1. /\ msgState[id] = "unsent" /\ msgState'[id] = "visible" /\ msgMail'[id] = m
      /\ \A i \in MsgIds : i # id => msgState'[i] = msgState[i] /\ msgMail'[i] = msgMail[i]
  BY DEF IInv, TypeOK, Send
<1>2. \A n \in Mails : n # m => (HasMessage(n)' <=> HasMessage(n))
  BY <1>1, OthersKeepMessages
<1>3. HasMessage(m)'
  BY <1>1 DEF HasMessage
<1> QED BY <1>2, <1>3 DEF queuedBar

LEMMA JobViewStep ==
  ASSUME SInv, [SystemNext]_systemVars
  PROVE  Job!JNext \/ UNCHANGED <<mailBar, queuedBar, jobLocals>>
<1>0. IInv /\ StoredInv /\ LocalsOK /\ DueUnsettled
  BY DEF SInv
<1>1. CASE UNCHANGED systemVars
  BY <1>1, MailBarStays DEF systemVars, vars, jobLocals, queuedBar, HasMessage
<1>2. CASE DeliveryStep
  <2>1. /\ Next
        /\ run' = [r \in Runs |-> Job!Paid(r, {m \in Mails : Settled(m)'})]
        /\ UNCHANGED <<aged, scheduled, isRunning, skipped, restarts>>
    BY <1>2 DEF DeliveryStep, Beside, Next
  <2> QED BY <2>1, DocsStepView, QueueStepView DEF Job!JNext
<1>3. ASSUME NEW m \in Mails, GrowOld(m)
      PROVE  Job!GrowOld(m) \/ UNCHANGED <<mailBar, queuedBar, jobLocals>>
  <2>1. /\ docs[m] # <<>> /\ m \notin aged /\ aged' = aged \cup {m}
        /\ UNCHANGED <<docs, msgState, msgMail, jobLocals>>
    BY <1>3 DEF GrowOld, vars
  <2>2. queuedBar' = queuedBar
    BY <2>1 DEF queuedBar, HasMessage
  <2>3. \A n \in Mails : n # m => AgeOf(n)' = AgeOf(n)
    BY <2>1 DEF AgeOf, Settled
  <2>4. CASE Settled(m)
    <3>1. AgeOf(m)' = AgeOf(m)
      BY <2>1, <2>4 DEF AgeOf, Settled
    <3>2. mailBar' = mailBar
      BY <2>3, <3>1 DEF mailBar
    <3> QED BY <2>1, <2>2, <3>2
  <2>5. CASE ~Settled(m)
    <3>1. AgeOf(m) = "fresh" /\ AgeOf(m)' = "old"
      BY <2>1, <2>5 DEF AgeOf, Settled
    <3>2. mailBar' = [mailBar EXCEPT ![m] = "old"] /\ mailBar[m] = "fresh"
      BY <2>3, <3>1, BarMove DEF mailBar
    <3> QED BY <2>1, <2>2, <3>2 DEF Job!GrowOld, mailBar, queuedBar, jobLocals
  <2> QED BY <2>4, <2>5
<1>4. ASSUME NEW id \in MsgIds, Recycle(id)
      PROVE  UNCHANGED <<mailBar, queuedBar, jobLocals>>
  <2>1. \A i \in MsgIds :
          \/ msgState'[i] = msgState[i] /\ msgMail'[i] = msgMail[i]
          \/ msgState[i] = "deleted" /\ msgState'[i] = "unsent"
    BY <1>0, <1>4 DEF Recycle, IInv, TypeOK
  <2>2. queuedBar' = queuedBar
    BY <2>1 DEF queuedBar, HasMessage
  <2> QED BY <1>4, <2>2, MailBarStays DEF Recycle
<1>5. CASE JobStep
  BY <1>5 DEF JobStep, Alone, Job!JNext
<1>6. ASSUME NEW r \in Runs, Enqueue(r) PROVE Job!Enqueue(r)
  <2>1. PICK m \in run[r].page, id \in MsgIds :
          Send(id, m) /\ run' = [run EXCEPT ![r] = Job!Sent(run[r], m)]
    BY <1>6 DEF Enqueue
  <2>2. m \in Mails
    BY <1>0 DEF LocalsOK, Job!Call
  <2>3. queuedBar' = queuedBar \cup {m}
    BY <1>0, <2>1, <2>2, OneSent
  <2>4. mailBar' = mailBar
    BY <1>6, MailBarStays DEF Enqueue
  <2> QED BY <1>6, <2>1, <2>3, <2>4 DEF Enqueue, Job!Enqueue, mailBar, queuedBar
<1>7. ASSUME NEW r \in Runs, EnqueueFails(r) PROVE Job!EnqueueFails(r)
  <2>1. PICK sent \in SUBSET run[r].page :
          Job!InFlight(sent) /\ \E at \in [sent -> MsgIds] : SendAll(sent, at)
    BY <1>7 DEF EnqueueFails
  <2>2. sent \in SUBSET Mails
    BY <1>0 DEF LocalsOK, Job!Call
  <2>3. queuedBar' = queuedBar \cup sent
    BY <1>0, <2>1, <2>2, SentMessages
  <2>4. mailBar' = mailBar
    BY <1>7, MailBarStays DEF EnqueueFails
  <2> QED BY <1>7, <2>1, <2>3, <2>4 DEF EnqueueFails, Job!EnqueueFails, mailBar, queuedBar
<1>8. CASE Restart
  <2>1. UNCHANGED <<docs, aged, msgState, msgMail>>
    BY <1>8 DEF Restart, Crash, queueVars
  <2>2. mailBar' = mailBar /\ queuedBar' = queuedBar
    BY <2>1, MailBarStays DEF queuedBar, HasMessage
  <2> QED BY <1>8, <2>2 DEF Restart, Job!Restart, Job!JNext, mailBar, queuedBar
<1> QED BY <1>1, <1>2, <1>3, <1>4, <1>5, <1>6, <1>7, <1>8 DEF SystemNext, Job!JNext

-----------------------------------------------------------------------------
(* The invariant *)

LEMMA SInvInit == SystemInit => SInv
<1> SUFFICES ASSUME SystemInit PROVE SInv
  OBVIOUS
<1>1. Init /\ aged = {} /\ run = [r \in Runs |-> Job!NoCall]
  BY DEF SystemInit
<1>2. IInv
  BY <1>1, InitIInv
<1>3. StoredInv
  BY <1>1 DEF Init, StoredInv, DocumentBeforeMessage, Idle, Attempting
<1>4. LocalsOK
  <2>1. run \in [Runs -> Job!Call]
    BY <1>1, NoCallType
  <2>2. restarts \in 0..MaxRestarts
    BY SystemAssumption DEF SystemInit
  <2> QED BY <1>1, <2>1, <2>2 DEF SystemInit, LocalsOK
<1>5. DueUnsettled
  BY <1>1 DEF DueUnsettled, Job!NoCall
<1> QED BY <1>2, <1>3, <1>4, <1>5 DEF SInv

\* The locals of the job and what its scans owe, step by step.
LEMMA LocalsNext ==
  ASSUME SInv, [SystemNext]_systemVars
  PROVE  LocalsOK' /\ DueUnsettled'
<1>0. /\ LocalsOK /\ DueUnsettled /\ aged \subseteq Mails /\ run \in [Runs -> Job!Call]
      /\ scheduled \in BOOLEAN /\ isRunning \in BOOLEAN /\ skipped \in BOOLEAN
      /\ restarts \in 0..MaxRestarts
  BY DEF SInv, LocalsOK
<1>1. CASE UNCHANGED systemVars
  BY <1>0, <1>1 DEF systemVars, vars, jobLocals, LocalsOK, DueUnsettled, Settled
<1>2. CASE DeliveryStep
  <2>1. /\ run' = [r \in Runs |-> Job!Paid(r, {m \in Mails : Settled(m)'})]
        /\ UNCHANGED <<aged, scheduled, isRunning, skipped, restarts>>
    BY <1>2 DEF DeliveryStep, Beside
  <2>2. ASSUME NEW r \in Runs
        PROVE  /\ run'[r] \in Job!Call
               /\ \A m \in run'[r].due : ~Settled(m)'
    <3>1. /\ run'[r] \in Job!Call
          /\ run'[r].due = run[r].due \ {m \in Mails : Settled(m)'}
      BY <1>0, <2>1, PaidType
    <3>2. run[r].due \subseteq Mails
      BY <1>0 DEF Job!Call
    <3> QED BY <3>1, <3>2
  <2> QED BY <1>0, <2>1, <2>2 DEF LocalsOK, DueUnsettled
<1>3. ASSUME NEW m \in Mails, GrowOld(m) PROVE LocalsOK' /\ DueUnsettled'
  BY <1>0, <1>3 DEF GrowOld, vars, jobLocals, LocalsOK, DueUnsettled, Settled
<1>4. ASSUME NEW id \in MsgIds, Recycle(id) PROVE LocalsOK' /\ DueUnsettled'
  BY <1>0, <1>4 DEF Recycle, jobLocals, LocalsOK, DueUnsettled, Settled
<1>5. CASE JobStep
  <2>1. UNCHANGED <<aged, docs>>
    BY <1>5 DEF JobStep, Alone, vars
  <2>2. CASE Job!SkipTick
    BY <1>0, <2>1, <2>2 DEF LocalsOK, DueUnsettled, Settled, Job!SkipTick
  <2> QED BY <1>0, <1>5, <2>1, <2>2, JobLocals DEF JobStep, Alone
<1>6. ASSUME NEW r \in Runs, Enqueue(r) PROVE LocalsOK' /\ DueUnsettled'
  <2>1. PICK m \in run[r].page : run' = [run EXCEPT ![r] = Job!Sent(run[r], m)]
    BY <1>6 DEF Enqueue
  <2>2. /\ Job!Sent(run[r], m) \in Job!Call
        /\ Job!Sent(run[r], m).due = run[r].due \ {m}
    BY <1>0 DEF Job!Sent, Job!Call
  <2>3. run' \in [Runs -> Job!Call] /\ DueUnsettled'
    BY <1>0, <1>6, <2>1, <2>2, CallStep DEF DueUnsettled, Enqueue
  <2> QED BY <1>0, <1>6, <2>3 DEF LocalsOK, Enqueue
<1>7. ASSUME NEW r \in Runs, EnqueueFails(r) PROVE LocalsOK' /\ DueUnsettled'
  BY <1>0, <1>7, ReleaseStep DEF LocalsOK, EnqueueFails, Job!GiveUpJob
<1>8. CASE Restart
  <2>1. /\ restarts' = restarts + 1 /\ restarts < MaxRestarts /\ aged' = aged
        /\ run' = [r \in Runs |-> Job!NoCall]
        /\ isRunning' = FALSE /\ scheduled' = TRUE /\ skipped' = FALSE
    BY <1>8 DEF Restart
  <2>2. run' \in [Runs -> Job!Call]
    BY <2>1, NoCallType
  <2>3. restarts' \in 0..MaxRestarts
    BY <1>0, <2>1, SystemAssumption
  <2>4. DueUnsettled'
    BY <2>1 DEF DueUnsettled, Job!NoCall
  <2> QED BY <1>0, <2>1, <2>2, <2>3, <2>4 DEF LocalsOK
<1> QED BY <1>1, <1>2, <1>3, <1>4, <1>5, <1>6, <1>7, <1>8 DEF SystemNext

LEMMA StoredNext ==
  ASSUME SInv, [SystemNext]_systemVars
  PROVE  StoredInv'
<1>0. IInv /\ StoredInv /\ LocalsOK /\ aged \subseteq Mails
  BY DEF SInv, LocalsOK
<1>1. ASSUME NEW m \in Mails, GrowOld(m) PROVE StoredInv'
  <2>1. StoredInv /\ docs[m] # <<>> /\ aged' = aged \cup {m} /\ UNCHANGED vars
    BY <1>0, <1>1 DEF GrowOld
  <2> QED BY <2>1 DEF vars, StoredInv, DocumentBeforeMessage, MailOf
<1>2. CASE ~ \E m \in Mails : GrowOld(m)
  <2>1. UNCHANGED aged
    BY <1>2 DEF SystemNext, systemVars, DeliveryStep, Beside, Recycle, JobStep, Alone,
                Enqueue, EnqueueFails, Restart
  <2> QED BY <1>0, <2>1, SystemStep, StoredInvNext, QueueOnlyStoredInv DEF LocalsOK
<1> QED BY <1>1, <1>2

LEMMA SInvNext ==
  ASSUME SInv, [SystemNext]_systemVars
  PROVE  SInv'
<1>1. IInv'
  BY SystemStep, NextIInv, QueueOnlyIInv DEF SInv, LocalsOK
<1> QED BY <1>1, LocalsNext, StoredNext DEF SInv

LEMMA InvariantSInv == SystemSpec => []SInv
<1>1. SInv /\ [SystemNext]_systemVars => SInv'
  BY SInvNext
<1> QED BY SInvInit, <1>1, PTL DEF SystemSpec

-----------------------------------------------------------------------------
(* Copies                                                                  *)
(*                                                                         *)
(* CopiesNeedMessages counts what the agents got against the messages that *)
(* were sent and the failures. Between the two stand the copies still to   *)
(* come: a message that somebody may take, and an activation that has not  *)
(* been to an agent or will put its message back. Load counts them all; a  *)
(* step raises it by a new message or with a failure, and else only moves  *)
(* a copy from one place to another. Hands counts, by the same rules, who  *)
(* has or may take a message: with one message and no failure, one only.   *)

IdleFree == \A s \in Slots : ~Busy(s) => work[s].msg = NoMsg

\* Messages of m that somebody may take, now or when their timeout ends.
Loose(m) ==
  {id \in MsgIds : /\ msgMail[id] = m
                   /\ \/ msgState[id] = "visible"
                      \/ msgState[id] = "hidden" /\ ~Held(id)}

\* Activations that go to an agent with m, or put its message back.
Owes(w) ==
  \/ w.pc \in {"read", "pick", "fire", "sending"}
  \/ w.pc \in {"write", "settle"} /\ w.result = "Retry"

Owing(m) == {s \in Slots : Owes(work[s]) /\ MailOf(s) = m}

Holding(m) == {s \in Slots : Busy(s) /\ MailOf(s) = m}

Load(m) ==
  accepted[m] + wire[m] + Cardinality(Loose(m)) + Cardinality(Owing(m))

Hands(m) == Cardinality(Loose(m)) + Cardinality(Holding(m))

\* What a step with k new messages of m may do to the two.
LoadPaid(m, k) ==
  /\ Load(m)' + faults[m] <= Load(m) + faults'[m] + k
  /\ Hands(m)' + faults[m] <= Hands(m) + faults'[m] + k

LEMMA IdleFreeNext ==
  ASSUME IInv, IdleFree, [Next]_vars
  PROVE  IdleFree'
<1>1. Idle.msg = NoMsg
  BY DEF Idle
<1>2. ASSUME NEW s \in Slots, work'[s].pc = "idle" PROVE work'[s].msg = NoMsg
  <2>1. CASE work'[s] = work[s]
    BY <1>2, <2>1 DEF IdleFree, Busy
  <2>2. CASE Local(s)
    BY <1>2, <2>2, LocalFrame DEF Busy
  <2>3. ASSUME NEW t \in Slots, Local(t), t # s PROVE work'[s] = work[s]
    BY <2>3, LocalFrame
  <2>4. ASSUME NEW t \in Slots, Release(t)
        PROVE  work'[s] = work[s] \/ work'[s] = Idle
    BY <2>4, ReleaseFrame DEF IInv, TypeOK
  <2>5. ASSUME NEW t \in Slots, Receive(t) PROVE work'[s] = work[s]
    BY <1>2, <2>5 DEF Receive, Started, Idle, IInv, TypeOK
  <2>6. ASSUME ~ \E t \in Slots : Local(t) \/ Release(t) \/ Receive(t)
        PROVE  work'[s] = work[s] \/ work'[s] = Idle
    BY <2>6, OtherFrame DEF Crash, vars
  <2> QED BY <1>1, <2>1, <2>2, <2>3, <2>4, <2>5, <2>6
<1> QED BY <1>2 DEF IdleFree, Busy

\* Two finite sets that differ in one element at most.
LEMMA OneApart ==
  ASSUME NEW S, NEW T, NEW x, IsFiniteSet(S), IsFiniteSet(T), S \ {x} = T \ {x}
  PROVE  Cardinality(T) + (IF x \in S THEN 1 ELSE 0)
           = Cardinality(S) + (IF x \in T THEN 1 ELSE 0)
<1>1. Cardinality(S) \in Nat /\ Cardinality(T) \in Nat
  BY FS_CardinalityType
<1>2. Cardinality(S \ {x}) = IF x \in S THEN Cardinality(S) - 1 ELSE Cardinality(S)
  BY FS_RemoveElement
<1>3. Cardinality(T \ {x}) = IF x \in T THEN Cardinality(T) - 1 ELSE Cardinality(T)
  BY FS_RemoveElement
<1> QED BY <1>1, <1>2, <1>3

LEMMA LoadNumbers ==
  ASSUME NEW m \in Mails
  PROVE  /\ IsFiniteSet(Loose(m)) /\ Cardinality(Loose(m)) \in Nat
         /\ IsFiniteSet(Owing(m)) /\ Cardinality(Owing(m)) \in Nat
         /\ IsFiniteSet(Holding(m)) /\ Cardinality(Holding(m)) \in Nat
         /\ IsFiniteSet(Loose(m)') /\ Cardinality(Loose(m)') \in Nat
         /\ IsFiniteSet(Owing(m)') /\ Cardinality(Owing(m)') \in Nat
         /\ IsFiniteSet(Holding(m)') /\ Cardinality(Holding(m)') \in Nat
         /\ IsFiniteSet(New(m)) /\ Cardinality(New(m)) \in Nat
<1>1. /\ Loose(m) \in SUBSET MsgIds /\ Owing(m) \in SUBSET Slots
      /\ Loose(m)' \in SUBSET MsgIds /\ Owing(m)' \in SUBSET Slots
      /\ Holding(m) \in SUBSET Slots /\ Holding(m)' \in SUBSET Slots
      /\ New(m) \in SUBSET MsgIds
  BY DEF Loose, Owing, Holding, New
<1>2. IsFiniteSet(MsgIds) /\ IsFiniteSet(Slots)
  BY SystemAssumption, DeliveryAssumption
<1> QED BY <1>1, <1>2, FS_Subset, FS_CardinalityType

\* The counts that LoadPaid compares.
LEMMA LoadSum ==
  ASSUME NEW m \in Mails, NEW k \in Nat,
         accepted'[m] + wire'[m] + Cardinality(Loose(m)') + Cardinality(Owing(m)') + faults[m]
           <= accepted[m] + wire[m] + Cardinality(Loose(m)) + Cardinality(Owing(m))
                + faults'[m] + k,
         Cardinality(Loose(m)') + Cardinality(Holding(m)') + faults[m]
           <= Cardinality(Loose(m)) + Cardinality(Holding(m)) + faults'[m] + k
  PROVE  LoadPaid(m, k)
  BY DEF LoadPaid, Load, Hands

\* At most the activation s changes.
LEMMA OneSlot ==
  ASSUME NEW m \in Mails, NEW s \in Slots,
         \A t \in Slots : t # s => work'[t] = work[t],
         \A t \in Slots : t # s /\ Busy(t) => MailOf(t)' = MailOf(t)
  PROVE  /\ Cardinality(Owing(m)') + (IF s \in Owing(m) THEN 1 ELSE 0)
              = Cardinality(Owing(m)) + (IF s \in Owing(m)' THEN 1 ELSE 0)
         /\ Cardinality(Holding(m)') + (IF s \in Holding(m) THEN 1 ELSE 0)
              = Cardinality(Holding(m)) + (IF s \in Holding(m)' THEN 1 ELSE 0)
<1>1. ASSUME NEW t \in Slots, t # s
      PROVE  (t \in Owing(m)' <=> t \in Owing(m)) /\ (t \in Holding(m)' <=> t \in Holding(m))
  BY <1>1 DEF Owing, Holding, Owes, Busy
<1>2. /\ Owing(m) \subseteq Slots /\ Owing(m)' \subseteq Slots
      /\ Holding(m) \subseteq Slots /\ Holding(m)' \subseteq Slots
  BY DEF Owing, Holding
<1>3. Owing(m) \ {s} = Owing(m)' \ {s}
  BY <1>1, <1>2
<1>4. Holding(m) \ {s} = Holding(m)' \ {s}
  BY <1>1, <1>2
<1>5. Cardinality(Owing(m)') + (IF s \in Owing(m) THEN 1 ELSE 0)
        = Cardinality(Owing(m)) + (IF s \in Owing(m)' THEN 1 ELSE 0)
  BY <1>3, LoadNumbers, OneApart
<1>6. Cardinality(Holding(m)') + (IF s \in Holding(m) THEN 1 ELSE 0)
        = Cardinality(Holding(m)) + (IF s \in Holding(m)' THEN 1 ELSE 0)
  BY <1>4, LoadNumbers, OneApart
<1> QED BY <1>5, <1>6

\* At most the message id changes.
LEMMA OneLoose ==
  ASSUME NEW m \in Mails, NEW id \in MsgIds,
         \A i \in MsgIds : i # id =>
            /\ msgState'[i] = msgState[i] /\ msgMail'[i] = msgMail[i]
            /\ Held(i)' <=> Held(i)
  PROVE  Cardinality(Loose(m)') + (IF id \in Loose(m) THEN 1 ELSE 0)
           = Cardinality(Loose(m)) + (IF id \in Loose(m)' THEN 1 ELSE 0)
<1>1. ASSUME NEW i \in MsgIds, i # id PROVE i \in Loose(m)' <=> i \in Loose(m)
  BY <1>1 DEF Loose
<1>2. Loose(m) \subseteq MsgIds /\ Loose(m)' \subseteq MsgIds
  BY DEF Loose
<1>3. Loose(m) \ {id} = Loose(m)' \ {id}
  BY <1>1, <1>2
<1> QED BY <1>3, LoadNumbers, OneApart

LEMMA LooseStays ==
  ASSUME UNCHANGED <<msgState, msgMail>>, \A id \in MsgIds : Held(id)' <=> Held(id),
         NEW m \in Mails
  PROVE  Loose(m)' = Loose(m)
  BY DEF Loose

LEMMA OwingStays ==
  ASSUME UNCHANGED work, \A s \in Slots : Busy(s) => MailOf(s)' = MailOf(s),
         NEW m \in Mails
  PROVE  Owing(m)' = Owing(m) /\ Holding(m)' = Holding(m)
  BY DEF Owing, Holding, Owes, Busy

\* What an activation owes, as a number.
Debt(w) == IF Owes(w) THEN 1 ELSE 0

\* Between taking a message and letting it go, an activation turns what it owes
\* into an acceptance or a request on its way, or has a failure.
LEMMA LocalAccount ==
  ASSUME IInv, IInv', NEW s \in Slots, Local(s), NEW m \in Mails, m = MailOf(s)
  PROVE  accepted'[m] + wire'[m] + Debt(work'[s]) + faults[m]
           <= accepted[m] + wire[m] + Debt(work[s]) + faults'[m]
<1>0. /\ accepted[m] \in Nat /\ wire[m] \in Nat /\ faults[m] \in Nat
      /\ TypeOK /\ TypeOK' /\ work[s] \in Activation /\ work \in [Slots -> Activation]
      /\ accepted \in [Mails -> Nat] /\ wire \in [Mails -> Nat]
  BY MailNumbers DEF IInv, TypeOK
<1>1. CASE Read(s) \/ Pick(s) \/ Fire(s) \/ AnswerOk(s) \/ Write(s)
  <2>1. UNCHANGED <<accepted, wire, faults>>
    BY <1>1 DEF Read, Pick, Fire, AnswerOk, Write, providerVars
  <2>2. Owes(work'[s]) => Owes(work[s])
    <3>1. CASE Read(s) \/ Pick(s)
      BY <3>1 DEF Read, Pick, Owes
    <3>2. CASE Fire(s)
      BY <3>2 DEF Fire, Owes
    <3>3. CASE AnswerOk(s)
      BY <1>0, <3>3 DEF AnswerOk, Succeeded, Owes, Activation
    <3>4. CASE Write(s)
      BY <1>0, <3>4 DEF Write, Owes, Activation
    <3> QED BY <1>1, <3>1, <3>2, <3>3, <3>4
  <2> QED BY <1>0, <2>1, <2>2 DEF Debt
<1>2. CASE Accept(s)
  <2>1. accepted'[m] = accepted[m] + 1 /\ UNCHANGED <<wire, faults>>
    BY <1>0, <1>2 DEF Accept
  <2>2. Owes(work[s]) /\ ~Owes(work'[s])
    BY <1>0, <1>2 DEF Accept, Owes, Activation
  <2> QED BY <1>0, <2>1, <2>2 DEF Debt
<1>3. CASE AnswerNotOk(s) \/ AnswerFails(s)
  <2>1. faults'[m] = faults[m] + 1 /\ UNCHANGED accepted
    BY <1>0, <1>3, BlameCounts DEF AnswerNotOk, AnswerFails, providerVars
  <2>2. \/ wire' = wire
        \/ work[s].pc = "sending" /\ wire'[m] = wire[m] + 1
    BY <1>0, <1>3 DEF AnswerNotOk, AnswerFails, providerVars
  <2>3. work[s].pc = "sending" => Owes(work[s])
    BY DEF Owes
  <2> QED BY <1>0, <2>1, <2>2, <2>3 DEF Debt
<1> QED BY <1>1, <1>2, <1>3 DEF Local

LEMMA LocalLoad ==
  ASSUME IInv, IInv', NEW s \in Slots, Local(s), NEW m \in Mails
  PROVE  LoadPaid(m, 0)
<1>0. /\ \A t \in Slots : MailOf(t)' = MailOf(t)
      /\ \A t \in Slots : t # s => work'[t] = work[t]
      /\ UNCHANGED <<msgState, msgMail>> /\ work'[s].msg = work[s].msg
      /\ MailOf(s) \in Mails /\ TypeOK /\ TypeOK'
  BY LocalFrame, ActivationMail DEF Busy, IInv
<1>1. /\ accepted[m] \in Nat /\ wire[m] \in Nat /\ faults[m] \in Nat
      /\ accepted'[m] \in Nat /\ wire'[m] \in Nat /\ faults'[m] \in Nat
  BY <1>0, MailNumbers DEF TypeOK
<1>2. Loose(m)' = Loose(m)
  BY <1>0, LooseStays DEF Held
<1>3. /\ Cardinality(Owing(m)') + (IF s \in Owing(m) THEN 1 ELSE 0)
           = Cardinality(Owing(m)) + (IF s \in Owing(m)' THEN 1 ELSE 0)
      /\ Cardinality(Holding(m)') + (IF s \in Holding(m) THEN 1 ELSE 0)
           = Cardinality(Holding(m)) + (IF s \in Holding(m)' THEN 1 ELSE 0)
  BY <1>0, OneSlot
<1>4. s \in Holding(m)' <=> s \in Holding(m)
  BY <1>0, LocalFrame DEF Holding
<1>5. faults'[m] >= faults[m]
  BY <1>0, <1>1, BlameCounts DEF Local, Read, Pick, Fire, Accept, Write, AnswerOk,
                                 AnswerNotOk, AnswerFails
<1>6. CASE m = MailOf(s)
  <2>1. accepted'[m] + wire'[m] + Debt(work'[s]) + faults[m]
           <= accepted[m] + wire[m] + Debt(work[s]) + faults'[m]
    BY <1>6, LocalAccount
  <2>2. (s \in Owing(m) <=> Owes(work[s])) /\ (s \in Owing(m)' <=> Owes(work'[s]))
    BY <1>0, <1>6 DEF Owing, Owes
  <2>3. Cardinality(Loose(m)') + Cardinality(Holding(m)') + faults[m]
          <= Cardinality(Loose(m)) + Cardinality(Holding(m)) + faults'[m] + 0
    BY <1>1, <1>2, <1>3, <1>4, <1>5, LoadNumbers
  <2>4. Cardinality(Owing(m)') + Debt(work[s]) = Cardinality(Owing(m)) + Debt(work'[s])
    BY <1>3, <2>2 DEF Debt
  <2>5. Debt(work[s]) \in Nat /\ Debt(work'[s]) \in Nat
    BY DEF Debt
  <2>6. accepted'[m] + wire'[m] + Cardinality(Loose(m)') + Cardinality(Owing(m)') + faults[m]
           <= accepted[m] + wire[m] + Cardinality(Loose(m)) + Cardinality(Owing(m))
                + faults'[m] + 0
    BY <1>1, <1>2, <2>1, <2>4, <2>5, LoadNumbers
  <2> QED BY <2>3, <2>6, LoadSum
<1>7. CASE m # MailOf(s)
  <2>1. accepted'[m] = accepted[m] /\ wire'[m] = wire[m] /\ faults'[m] = faults[m]
    BY <1>0, <1>7 DEF Local, Read, Pick, Fire, Accept, Write, AnswerOk,
                      AnswerNotOk, AnswerFails, Blame, providerVars, TypeOK
  <2>2. s \notin Owing(m) /\ s \notin Owing(m)'
    BY <1>0, <1>7 DEF Owing
  <2> QED BY <1>1, <1>2, <1>3, <1>4, <2>1, <2>2, LoadNumbers, LoadSum
<1> QED BY <1>6, <1>7

\* Settling or throwing: the message is loose again if it was owed or failed.
LEMMA ReleaseLoad ==
  ASSUME IInv, IInv', NEW s \in Slots, Release(s), NEW m \in Mails
  PROVE  LoadPaid(m, 0)
<1> DEFINE id == work[s].msg
<1>0. /\ UNCHANGED <<msgMail, accepted, wire>> /\ Busy(s)
      /\ work' = [work EXCEPT ![s] = Idle] /\ work \in [Slots -> Activation]
      /\ \A i \in MsgIds : i # id => msgState'[i] = msgState[i]
      /\ MailOf(s) \in Mails /\ id \in MsgIds /\ TypeOK /\ TypeOK'
  BY ReleaseFrame, ActivationMail DEF Busy, IInv, TypeOK
<1>1. /\ accepted[m] \in Nat /\ wire[m] \in Nat /\ faults[m] \in Nat /\ faults'[m] \in Nat
  BY <1>0, MailNumbers DEF TypeOK
<1>2. /\ work'[s].pc = "idle" /\ work'[s].msg \notin MsgIds
      /\ \A t \in Slots : t # s => work'[t] = work[t]
      /\ msgState' \in [MsgIds -> MsgState]
  BY <1>0, DeliveryAssumption DEF Idle, TypeOK
<1>3. /\ Cardinality(Owing(m)') + (IF s \in Owing(m) THEN 1 ELSE 0)
           = Cardinality(Owing(m)) + (IF s \in Owing(m)' THEN 1 ELSE 0)
      /\ Cardinality(Holding(m)') + (IF s \in Holding(m) THEN 1 ELSE 0)
           = Cardinality(Holding(m)) + (IF s \in Holding(m)' THEN 1 ELSE 0)
  BY <1>0, <1>2, OneSlot DEF MailOf
<1>4. s \notin Owing(m)' /\ s \notin Holding(m)' /\ (s \in Holding(m) <=> m = MailOf(s))
  BY <1>0, <1>2 DEF Owing, Owes, Holding, Busy
<1>5. Cardinality(Loose(m)') + (IF id \in Loose(m) THEN 1 ELSE 0)
        = Cardinality(Loose(m)) + (IF id \in Loose(m)' THEN 1 ELSE 0)
  BY <1>0, <1>2, OneLoose DEF Held
<1>6. CASE m # MailOf(s)
  <2>1. id \notin Loose(m) /\ id \notin Loose(m)'
    BY <1>0, <1>6 DEF Loose, MailOf
  <2>2. faults'[m] = faults[m]
    BY <1>0, <1>6, BlameCounts DEF Release, Settle, Throw
  <2> QED BY <1>0, <1>1, <1>3, <1>4, <1>5, <2>1, <2>2, LoadNumbers, LoadSum
<1>7. CASE m = MailOf(s) /\ Throw(s)
  <2>1. faults'[m] = faults[m] + 1
    BY <1>0, <1>7, BlameCounts DEF Throw
  <2> QED BY <1>0, <1>1, <1>3, <1>4, <1>5, <2>1, LoadNumbers, LoadSum
<1>8. CASE m = MailOf(s) /\ Settle(s)
  <2>1. work[s].pc = "settle" /\ UNCHANGED faults
    BY <1>8 DEF Settle
  <2>2. CASE work[s].result = "Retry"
    <3>1. s \in Owing(m)
      BY <1>8, <2>1, <2>2 DEF Owing, Owes
    <3>2. /\ Cardinality(Owing(m)') + 1 = Cardinality(Owing(m))
          /\ Cardinality(Holding(m)') + 1 = Cardinality(Holding(m))
          /\ Cardinality(Loose(m)') <= Cardinality(Loose(m)) + 1
      BY <1>3, <1>4, <1>5, <1>8, <3>1, LoadNumbers
    <3> QED BY <1>0, <1>1, <2>1, <3>2, LoadNumbers, LoadSum
  <2>3. CASE work[s].result # "Retry"
    <3>1. msgState'[id] = "deleted"
      BY <1>0, <1>8, <2>3 DEF Settle, SettledQueue, AfterSettle, TypeOK
    <3>2. id \notin Loose(m)'
      BY <3>1 DEF Loose
    <3> QED BY <1>0, <1>1, <1>3, <1>4, <1>5, <2>1, <3>2, LoadNumbers, LoadSum
  <2> QED BY <2>2, <2>3
<1> QED BY <1>6, <1>7, <1>8 DEF Release

\* Taking a message: it is no longer loose, and the activation owes its copy.
LEMMA ReceiveLoad ==
  ASSUME IInv, IInv', IdleFree, NEW s \in Slots, Receive(s), NEW m \in Mails
  PROVE  LoadPaid(m, 0)
<1>0. /\ UNCHANGED <<msgMail, accepted, wire, faults>> /\ ~Busy(s)
      /\ work \in [Slots -> Activation] /\ TypeOK /\ TypeOK'
      /\ msgState \in [MsgIds -> MsgState]
  BY DEF Receive, providerVars, Busy, IInv, TypeOK
<1>1. PICK id \in MsgIds : /\ msgState[id] = "visible"
                           /\ msgState' = [msgState EXCEPT ![id] = "hidden"]
                           /\ work' = [work EXCEPT ![s] = Started(id)]
  BY DEF Receive
<1>2. /\ accepted[m] \in Nat /\ wire[m] \in Nat /\ faults[m] \in Nat
  BY <1>0, MailNumbers
<1>3. /\ work'[s].msg = id /\ work[s].msg \notin MsgIds
      /\ \A t \in Slots : t # s => work'[t] = work[t]
  BY <1>0, <1>1, DeliveryAssumption DEF Started, Idle, IdleFree
<1>4. /\ Cardinality(Owing(m)') + (IF s \in Owing(m) THEN 1 ELSE 0)
           = Cardinality(Owing(m)) + (IF s \in Owing(m)' THEN 1 ELSE 0)
      /\ Cardinality(Holding(m)') + (IF s \in Holding(m) THEN 1 ELSE 0)
           = Cardinality(Holding(m)) + (IF s \in Holding(m)' THEN 1 ELSE 0)
  BY <1>0, <1>3, OneSlot DEF MailOf
<1>5. Cardinality(Loose(m)') + (IF id \in Loose(m) THEN 1 ELSE 0)
        = Cardinality(Loose(m)) + (IF id \in Loose(m)' THEN 1 ELSE 0)
  BY <1>0, <1>1, <1>3, OneLoose DEF Held
<1>6. id \notin Loose(m)'
  BY <1>0, <1>1, <1>3 DEF Loose, Held
<1>7. /\ s \in Owing(m)' => id \in Loose(m)
      /\ s \in Holding(m)' => id \in Loose(m)
  BY <1>0, <1>1, <1>3 DEF Owing, Holding, MailOf, Loose
<1> QED BY <1>0, <1>2, <1>4, <1>5, <1>6, <1>7, LoadNumbers, LoadSum

\* The activations with m that end with process p.
Ending(p, m) ==
  {s \in Slots : ProcOf[s] = p /\ work[s].pc # "idle" /\ MailOf(s) = m}

\* No more messages become loose than activations end with their process.
LEMMA LooseAfterCrash ==
  ASSUME IdleFree, NEW p \in Procs, Crash(p), NEW m \in Mails
  PROVE  Cardinality(Loose(m)') <= Cardinality(Loose(m)) + Cardinality(Ending(p, m))
<1> USE DEF Ending
<1> DEFINE gone  == Ending(p, m)
           fresh == Loose(m)' \ Loose(m)
           holder(id) == CHOOSE s \in gone : work[s].msg = id
           f == [id \in fresh |-> holder(id)]
<1>0. /\ UNCHANGED <<msgState, msgMail>>
      /\ work' = [s \in Slots |-> IF ProcOf[s] = p THEN Idle ELSE work[s]]
  BY DEF Crash, queueVars
<1>1. ASSUME NEW id \in fresh PROVE \E s \in gone : work[s].msg = id
  <2>1. id \in MsgIds /\ msgMail[id] = m /\ Held(id) /\ ~Held(id)'
    BY <1>0 DEF Loose
  <2>2. PICK s \in Slots : work[s].msg = id /\ ProcOf[s] = p
    BY <1>0, <2>1 DEF Held
  <2>3. work[s].pc # "idle"
    BY <2>1, <2>2, DeliveryAssumption DEF IdleFree, Busy
  <2> QED BY <2>1, <2>2, <2>3 DEF MailOf
<1>2. \A id \in fresh : holder(id) \in gone /\ work[holder(id)].msg = id
  BY <1>1
<1>3. f \in Injection(fresh, gone)
  <2>1. f \in [fresh -> gone]
    BY <1>2
  <2>2. \A a, b \in fresh : f[a] = f[b] => a = b
    BY <1>2
  <2> QED BY <2>1, <2>2 DEF Injection, IsInjective
<1>4. gone \in SUBSET Slots /\ IsFiniteSet(Slots)
  BY DeliveryAssumption
<1>5. IsFiniteSet(gone) /\ Cardinality(gone) \in Nat
  BY <1>4, FS_Subset, FS_CardinalityType
<1>6. IsFiniteSet(fresh) /\ Cardinality(fresh) <= Cardinality(gone)
  <2> HIDE DEF f, fresh
  <2> QED BY <1>3, <1>5, FS_Injection
<1>7. Cardinality(fresh) \in Nat
  BY <1>6, FS_CardinalityType
<1>8. /\ IsFiniteSet(Loose(m) \cup fresh)
      /\ Cardinality(Loose(m) \cup fresh)
           = Cardinality(Loose(m)) + Cardinality(fresh) - Cardinality(Loose(m) \cap fresh)
  <2> HIDE DEF fresh
  <2> QED BY <1>6, LoadNumbers, FS_Union
<1>9. Loose(m) \cap fresh = {} /\ Loose(m)' \in SUBSET (Loose(m) \cup fresh)
  OBVIOUS
<1>10. Cardinality(Loose(m) \cap fresh) = 0
  BY <1>9, FS_EmptySet
<1>11. Cardinality(Loose(m)') <= Cardinality(Loose(m) \cup fresh)
  <2> HIDE DEF fresh
  <2> QED BY <1>8, <1>9, FS_Subset
<1> HIDE DEF fresh
<1> QED BY <1>5, <1>6, <1>7, <1>8, <1>10, <1>11, LoadNumbers

\* A process ends: what its activations owe is on its way at most.
LEMMA CrashLoad ==
  ASSUME IInv, IInv', IdleFree, NEW p \in Procs, Crash(p), NEW m \in Mails
  PROVE  LoadPaid(m, 0)
<1> DEFINE ended == {s \in Slots : ProcOf[s] = p /\ work[s].pc # "idle"}
           gone  == Ending(p, m)
<1>0. /\ UNCHANGED <<msgState, msgMail, accepted>> /\ TypeOK /\ TypeOK'
      /\ work' = [s \in Slots |-> IF ProcOf[s] = p THEN Idle ELSE work[s]]
  BY DEF Crash, queueVars, IInv
<1>1. /\ accepted[m] \in Nat /\ wire[m] \in Nat /\ faults[m] \in Nat
      /\ wire'[m] \in Nat
  BY <1>0, MailNumbers DEF TypeOK
<1>2. faults'[m] = faults[m] + Cardinality(gone)
  <2>1. faults'[m] = faults[m] + Cardinality({s \in ended : MailOf(s) = m})
    BY DEF Crash
  <2>2. {s \in ended : MailOf(s) = m} = gone
    BY DEF Ending
  <2> QED BY <2>1, <2>2
<1>3. PICK out \in SUBSET {s \in ended : work[s].pc = "sending"} :
        wire' = [n \in Mails |-> wire[n] + Cardinality({s \in out : MailOf(s) = n})]
  BY DEF Crash
<1> DEFINE lost == {s \in out : MailOf(s) = m}
           both == Owing(m) \cap gone
<1>4. wire'[m] = wire[m] + Cardinality(lost)
  BY <1>3
<1>5. lost \in SUBSET both
  BY <1>3 DEF Owing, Owes, Ending
<1>6. Owing(m)' = Owing(m) \ gone
  BY <1>0 DEF Owing, Owes, MailOf, Idle, Ending
<1>7. IsFiniteSet(both) /\ Cardinality(both) \in Nat
  <2>1. both \in SUBSET Owing(m)
    OBVIOUS
  <2> QED BY <2>1, LoadNumbers, FS_Subset, FS_CardinalityType
<1>8. Cardinality(lost) <= Cardinality(both) /\ Cardinality(lost) \in Nat
  <2> HIDE DEF lost, both
  <2> QED BY <1>5, <1>7, FS_Subset, FS_CardinalityType
<1>9. Cardinality(Owing(m)') = Cardinality(Owing(m)) - Cardinality(both)
  <2> HIDE DEF gone
  <2> QED BY <1>6, LoadNumbers, FS_Difference
<1>12. Cardinality(Holding(m)') = Cardinality(Holding(m)) - Cardinality(gone)
  <2>1. Holding(m)' = Holding(m) \ gone /\ Holding(m) \cap gone = gone
    BY <1>0 DEF Holding, Busy, MailOf, Idle, Ending
  <2> HIDE DEF gone
  <2>2. Cardinality(Holding(m) \ gone)
          = Cardinality(Holding(m)) - Cardinality(Holding(m) \cap gone)
    BY LoadNumbers, FS_Difference
  <2> QED BY <2>1, <2>2
<1>10. Cardinality(gone) \in Nat
  <2>1. gone \in SUBSET Slots /\ IsFiniteSet(Slots)
    BY DeliveryAssumption DEF Ending
  <2> HIDE DEF gone
  <2> QED BY <2>1, FS_Subset, FS_CardinalityType
<1>11. Cardinality(Loose(m)') <= Cardinality(Loose(m)) + Cardinality(gone)
  BY LooseAfterCrash
<1> HIDE DEF gone, lost, both
<1> QED BY <1>0, <1>1, <1>2, <1>4, <1>7, <1>8, <1>9, <1>10,
           <1>11, <1>12, LoadNumbers, LoadSum

\* Messages that are new are the only ones that become loose.
LEMMA NewLoose ==
  ASSUME NEW m \in Mails, UNCHANGED work,
         \A id \in MsgIds :
            \/ msgState'[id] = msgState[id] /\ msgMail'[id] = msgMail[id]
            \/ msgState[id] = "unsent"
            \/ msgState'[id] = "unsent"
  PROVE  Cardinality(Loose(m)') <= Cardinality(Loose(m)) + Cardinality(New(m))
<1>1. Loose(m)' \in SUBSET (Loose(m) \cup New(m))
  BY DEF Loose, New, Held
<1>2. /\ IsFiniteSet(Loose(m) \cup New(m))
      /\ Cardinality(Loose(m) \cup New(m))
           = Cardinality(Loose(m)) + Cardinality(New(m)) - Cardinality(Loose(m) \cap New(m))
  BY LoadNumbers, FS_Union
<1>3. Cardinality(Loose(m) \cap New(m)) \in Nat
  <2>1. Loose(m) \cap New(m) \in SUBSET New(m)
    OBVIOUS
  <2> QED BY <2>1, LoadNumbers, FS_Subset, FS_CardinalityType
<1>4. Cardinality(Loose(m)') <= Cardinality(Loose(m) \cup New(m))
  BY <1>1, <1>2, FS_Subset
<1>5. Cardinality(Loose(m) \cup New(m)) \in Nat
  BY <1>2, FS_CardinalityType
<1> QED BY <1>2, <1>3, <1>4, <1>5, LoadNumbers

\* A step of the delivery path.
LEMMA LoadNext ==
  ASSUME IInv, IInv', IdleFree, [Next]_vars, NEW m \in Mails
  PROVE  LoadPaid(m, Cardinality(New(m)))
<1>0. /\ accepted[m] \in Nat /\ wire[m] \in Nat /\ faults[m] \in Nat
      /\ accepted'[m] \in Nat /\ wire'[m] \in Nat /\ faults'[m] \in Nat
      /\ TypeOK /\ TypeOK'
      /\ msgState \in [MsgIds -> MsgState] /\ msgMail \in [MsgIds -> Mails \cup {NoMail}]
  <2>1. TypeOK /\ TypeOK'
    BY DEF IInv
  <2>2. msgState \in [MsgIds -> MsgState] /\ msgMail \in [MsgIds -> Mails \cup {NoMail}]
    BY <2>1 DEF TypeOK
  <2>3. accepted[m] \in Nat /\ wire[m] \in Nat /\ faults[m] \in Nat
    BY <2>1, MailNumbers
  <2>4. accepted' \in [Mails -> Nat] /\ wire' \in [Mails -> Nat]
        /\ faults' \in [Mails -> 0..MaxFaults]
    BY <2>1 DEF TypeOK
  <2> QED BY <2>1, <2>2, <2>3, <2>4
<1>1. ASSUME LoadPaid(m, 0) PROVE LoadPaid(m, Cardinality(New(m)))
  BY <1>0, <1>1, LoadNumbers DEF LoadPaid, Load, Hands
<1>2. ASSUME Next, ~ \E s \in Slots : Local(s) \/ Release(s) \/ Receive(s),
             ~ \E p \in Procs : Crash(p), ~ \E n \in Mails : Straggler(n)
      PROVE  LoadPaid(m, Cardinality(New(m)))
  <2>1. UNCHANGED <<work, accepted, wire>>
    BY <1>2 DEF Next, Operation, Progress, Local, Release, Insert, InsertFails, Dispatch,
         DispatchFails, ReceiveFails, Expire, HalfOpen, providerVars
  <2>2. faults'[m] >= faults[m]
    <3>1. UNCHANGED faults \/ \E id \in MsgIds : Blame(msgMail[id])
      BY <1>2 DEF Next, Operation, Progress, Local, Release, Insert, InsertFails, Dispatch,
         DispatchFails, ReceiveFails, Expire, HalfOpen
    <3>2. ASSUME NEW x, Blame(x) PROVE faults'[m] = faults[m] \/ faults'[m] = faults[m] + 1
      BY <1>0, <3>2 DEF Blame, TypeOK
    <3>3. faults'[m] = faults[m] \/ faults'[m] = faults[m] + 1
      BY <3>1, <3>2
    <3> QED BY <1>0, <3>3
  <2>3. Owing(m)' = Owing(m) /\ Holding(m)' = Holding(m)
    BY <2>1, MailOfStays, OwingStays
  <2>4. CASE UNCHANGED <<msgState, msgMail>>
    <3>1. Loose(m)' = Loose(m)
      BY <2>1, <2>4, LooseStays DEF Held
    <3> QED BY <1>0, <2>1, <2>2, <2>3, <3>1, LoadNumbers, LoadSum
  <2>5. ASSUME NEW id \in MsgIds, NEW n \in Mails, Send(id, n)
        PROVE  LoadPaid(m, Cardinality(New(m)))
    <3>1. \A i \in MsgIds : \/ msgState'[i] = msgState[i] /\ msgMail'[i] = msgMail[i]
                            \/ msgState[i] = "unsent"
      BY <1>0, <2>5 DEF Send
    <3>2. Cardinality(Loose(m)') <= Cardinality(Loose(m)) + Cardinality(New(m))
      BY <2>1, <3>1, NewLoose
    <3> QED BY <1>0, <2>1, <2>2, <2>3, <3>2, LoadNumbers, LoadSum
  <2>6. ASSUME NEW id \in MsgIds, ReceiveFails(id) \/ Expire(id)
        PROVE  LoadPaid(m, 0)
    <3>1. /\ msgMail' = msgMail
          /\ \A i \in MsgIds : i # id => msgState'[i] = msgState[i]
          /\ msgState[id] \in {"visible", "hidden"}
      BY <1>0, <2>6 DEF ReceiveFails, Expire
    <3>2. \A i \in MsgIds : Held(i)' <=> Held(i)
      BY <2>1 DEF Held
    <3>3. Cardinality(Loose(m)') + (IF id \in Loose(m) THEN 1 ELSE 0)
            = Cardinality(Loose(m)) + (IF id \in Loose(m)' THEN 1 ELSE 0)
      BY <3>1, <3>2, OneLoose
    <3>4. id \in Loose(m)' /\ id \notin Loose(m) => faults'[m] = faults[m] + 1
      <4>1. SUFFICES ASSUME id \in Loose(m)', id \notin Loose(m)
                     PROVE  faults'[m] = faults[m] + 1
        OBVIOUS
      <4>2. msgMail[id] = m /\ msgState[id] = "hidden" /\ Held(id)
        BY <3>1, <4>1 DEF Loose
      <4>3. Blame(m)
        BY <2>6, <4>2 DEF ReceiveFails, Expire
      <4> QED BY <1>0, <4>3, BlameCounts
    <3> QED BY <1>0, <2>1, <2>2, <2>3, <3>3, <3>4, LoadNumbers, LoadSum
  <2> QED BY <1>1, <1>2, <2>4, <2>5, <2>6, OtherFrame
<1>3. ASSUME NEW n \in Mails, Straggler(n) PROVE LoadPaid(m, 0)
  <2>1. /\ UNCHANGED <<msgState, msgMail, work, faults>>
        /\ accepted'[m] + wire'[m] <= accepted[m] + wire[m]
    BY <1>0, <1>3 DEF Straggler, queueVars, TypeOK
  <2>2. /\ Loose(m)' = Loose(m) /\ Owing(m)' = Owing(m)
        /\ Holding(m)' = Holding(m)
    BY <2>1, LooseStays, OwingStays DEF Held, MailOf
  <2> QED BY <1>0, <2>1, <2>2, LoadNumbers, LoadSum
<1>4. CASE UNCHANGED vars
  <2>1. UNCHANGED <<msgState, msgMail, work, faults, accepted, wire>>
    BY <1>4 DEF vars
  <2>2. /\ Loose(m)' = Loose(m) /\ Owing(m)' = Owing(m)
        /\ Holding(m)' = Holding(m)
    BY <2>1, LooseStays, OwingStays DEF Held, MailOf
  <2>3. LoadPaid(m, 0)
    BY <1>0, <2>1, <2>2, LoadNumbers, LoadSum
  <2> QED BY <1>1, <2>3
<1>5. ASSUME NEW s \in Slots, Local(s) \/ Release(s) \/ Receive(s) PROVE LoadPaid(m, 0)
  BY <1>5, LocalLoad, ReleaseLoad, ReceiveLoad
<1>6. ASSUME NEW p \in Procs, Crash(p) PROVE LoadPaid(m, 0)
  BY <1>6, CrashLoad
<1> QED BY <1>1, <1>2, <1>3, <1>4, <1>5, <1>6

\* A step of the job that sends messages.
LEMMA QueueOnlyLoad ==
  ASSUME IInv, IInv', QueueOnly, NEW m \in Mails,
         \A id \in MsgIds :
            \/ msgState'[id] = msgState[id] /\ msgMail'[id] = msgMail[id]
            \/ msgState[id] = "unsent"
  PROVE  LoadPaid(m, Cardinality(New(m)))
<1>1. /\ accepted[m] \in Nat /\ wire[m] \in Nat /\ faults[m] \in Nat
      /\ UNCHANGED <<work, accepted, wire, faults>>
  BY MailNumbers DEF IInv, QueueOnly
<1>2. Cardinality(Loose(m)') <= Cardinality(Loose(m)) + Cardinality(New(m))
  BY <1>1, NewLoose
<1>3. \A s \in Slots : Busy(s) => MailOf(s)' = MailOf(s)
  BY <1>1, ActivationMail DEF Busy, ActivationOK, MailOf, QueueOnly, Held
<1>4. Owing(m)' = Owing(m) /\ Holding(m)' = Holding(m)
  BY <1>1, <1>3, OwingStays
<1> QED BY <1>1, <1>2, <1>4, LoadNumbers, LoadSum

SendsOK == sends \in [Mails -> Nat]

LEMMA SendsNext ==
  ASSUME SendsOK, [SystemNext]_systemVars
  PROVE  SendsOK'
<1>1. CASE UNCHANGED sends
  BY <1>1 DEF SendsOK
<1>2. CASE CountSends
  BY <1>2, LoadNumbers DEF CountSends, SendsOK
<1> QED BY <1>1, <1>2 DEF SystemNext, systemVars, DeliveryStep, Beside, GrowOld,
           Recycle, JobStep, Alone, Enqueue, EnqueueFails, Restart

\* The messages sent and the failures so far pay for every copy, those still to
\* come included, and for everyone who has a message.
CopiesPaid(m) == Load(m) <= sends[m] + faults[m] /\ Hands(m) <= sends[m] + faults[m]

CopyInv == \A m \in Mails : CopiesPaid(m)

LEMMA CopyInvNext ==
  ASSUME SInv, SInv', SendsOK, IdleFree, CopyInv, [SystemNext]_systemVars
  PROVE  CopyInv'
<1>0. IInv /\ IInv' /\ run \in [Runs -> Job!Call]
  BY DEF SInv, LocalsOK
<1> SUFFICES ASSUME NEW m \in Mails PROVE CopiesPaid(m)'
  BY DEF CopyInv
<1>1. /\ CopiesPaid(m) /\ sends[m] \in Nat
      /\ faults[m] \in Nat /\ faults'[m] \in Nat
      /\ Load(m) \in Nat /\ Load(m)' \in Nat /\ Hands(m) \in Nat /\ Hands(m)' \in Nat
      /\ Cardinality(New(m)) \in Nat
  <2>1. /\ accepted[m] \in Nat /\ wire[m] \in Nat /\ faults[m] \in Nat
        /\ accepted'[m] \in Nat /\ wire'[m] \in Nat /\ faults'[m] \in Nat
    BY <1>0, MailNumbers DEF IInv, TypeOK
  <2> QED BY <2>1, LoadNumbers DEF CopyInv, SendsOK, Load, Hands
<1>2. ASSUME LoadPaid(m, Cardinality(New(m))), CountSends
      PROVE  CopiesPaid(m)'
  BY <1>1, <1>2 DEF LoadPaid, CountSends, CopiesPaid
<1>3. ASSUME LoadPaid(m, 0), UNCHANGED sends
      PROVE  CopiesPaid(m)'
  BY <1>1, <1>3 DEF LoadPaid, CopiesPaid
<1>4. CASE DeliveryStep
  <2>1. Next /\ CountSends
    BY <1>4 DEF DeliveryStep, Beside, Next
  <2> QED BY <1>0, <1>2, <2>1, LoadNext
<1>5. ASSUME UNCHANGED <<vars, sends>> PROVE CopiesPaid(m)'
  <2>1. UNCHANGED <<msgState, msgMail, work, faults, accepted, wire>>
    BY <1>5 DEF vars
  <2>2. /\ Loose(m)' = Loose(m) /\ Owing(m)' = Owing(m)
        /\ Holding(m)' = Holding(m)
    BY <2>1, LooseStays, OwingStays DEF Held, MailOf
  <2> QED BY <1>1, <1>5, <2>1, <2>2 DEF Load, Hands, CopiesPaid
<1>6. ASSUME NEW id \in MsgIds, Recycle(id) PROVE CopiesPaid(m)'
  <2>1. /\ UNCHANGED <<work, accepted, wire, faults, sends>>
        /\ msgState[id] = "deleted" /\ ~Held(id) /\ msgState'[id] = "unsent"
        /\ \A i \in MsgIds : i # id => msgState'[i] = msgState[i] /\ msgMail'[i] = msgMail[i]
    BY <1>0, <1>6 DEF Recycle, providerVars, IInv, TypeOK
  <2>2. Loose(m)' = Loose(m)
    BY <2>1 DEF Loose, Held
  <2>3. \A s \in Slots : Busy(s) => work[s].msg \in MsgIds /\ work[s].msg # id
    BY <1>0, <2>1, ActivationMail DEF Busy, Held
  <2>4. Owing(m)' = Owing(m) /\ Holding(m)' = Holding(m)
    BY <2>1, <2>3, OwingStays DEF MailOf
  <2> QED BY <1>1, <2>1, <2>2, <2>4 DEF Load, Hands, CopiesPaid
<1>7. ASSUME NEW r \in Runs, Enqueue(r) PROVE CopiesPaid(m)'
  <2>1. PICK n \in run[r].page, id \in MsgIds : Send(id, n)
    BY <1>7 DEF Enqueue
  <2>2. \A i \in MsgIds : \/ msgState'[i] = msgState[i] /\ msgMail'[i] = msgMail[i]
                          \/ msgState[i] = "unsent"
    BY <1>0, <2>1 DEF Send, IInv, TypeOK
  <2>3. QueueOnly /\ CountSends
    BY <1>0, <1>7, EnqueueQueueOnly DEF Enqueue
  <2> QED BY <1>0, <1>2, <2>2, <2>3, QueueOnlyLoad
<1>8. ASSUME NEW r \in Runs, EnqueueFails(r) PROVE CopiesPaid(m)'
  <2>1. PICK sent \in SUBSET run[r].page : \E at \in [sent -> MsgIds] : SendAll(sent, at)
    BY <1>8 DEF EnqueueFails
  <2>2. PICK at \in [sent -> MsgIds] : SendAll(sent, at)
    BY <2>1
  <2>3. sent \in SUBSET Mails
    BY <1>0 DEF Job!Call
  <2>4. \A i \in MsgIds : \/ msgState'[i] = msgState[i] /\ msgMail'[i] = msgMail[i]
                          \/ msgState[i] = "unsent"
    BY <1>0, <2>2, <2>3, SendAllProperties
  <2>5. QueueOnly /\ CountSends
    BY <1>0, <1>8, EnqueueFailsQueueOnly DEF EnqueueFails
  <2> QED BY <1>0, <1>2, <2>4, <2>5, QueueOnlyLoad
<1>9. CASE Restart
  <2>1. Crash(JobProc) /\ JobProc \in Procs /\ UNCHANGED sends
    BY <1>9, SystemAssumption DEF Restart
  <2> QED BY <1>0, <1>3, <2>1, CrashLoad
<1> QED BY <1>4, <1>5, <1>6, <1>7, <1>8, <1>9
        DEF SystemNext, systemVars, GrowOld, JobStep, Alone

LEMMA SystemIdleFree ==
  ASSUME SInv, IdleFree, [SystemNext]_systemVars
  PROVE  IdleFree'
<1>1. [Next]_vars \/ UNCHANGED work
  BY SystemStep DEF SInv, LocalsOK, QueueOnly
<1>2. CASE UNCHANGED work
  BY <1>2 DEF IdleFree, Busy
<1> QED BY <1>1, <1>2, IdleFreeNext DEF SInv

-----------------------------------------------------------------------------
(* The end of a mail that is not shared *)

Solo(m) == sends[m] <= 1 /\ faults[m] = 0

\* Whoever attempts a mail with one message and no failure has it alone, so the
\* mail is as unfinished as when its document was read.
EndInv ==
  \A s \in Slots : work[s].pc \in Attempting /\ Solo(MailOf(s)) => ~Settled(MailOf(s))

LEMMA SendsGrow ==
  ASSUME SendsOK, [SystemNext]_systemVars, NEW m \in Mails
  PROVE  sends[m] \in Nat /\ sends'[m] \in Nat /\ sends'[m] >= sends[m]
<1>1. sends[m] \in Nat
  BY DEF SendsOK
<1>2. CASE UNCHANGED sends
  BY <1>1, <1>2
<1>3. CASE CountSends
  BY <1>1, <1>3, LoadNumbers DEF CountSends
<1> QED BY <1>2, <1>3 DEF SystemNext, systemVars, DeliveryStep, Beside, GrowOld,
           Recycle, JobStep, Alone, Enqueue, EnqueueFails, Restart

LEMMA FaultsGrow ==
  ASSUME IInv, [Next]_vars \/ QueueOnly, NEW m \in Mails
  PROVE  faults[m] \in Nat /\ (faults'[m] = 0 => faults[m] = 0)
<1>1. faults[m] \in Nat /\ TypeOK
  BY MailNumbers DEF IInv
<1>2. ASSUME NEW x, Blame(x) PROVE faults'[m] = faults[m] \/ faults'[m] = faults[m] + 1
  BY <1>1, <1>2 DEF Blame, TypeOK
<1>3. ASSUME NEW p \in Procs, Crash(p) PROVE faults'[m] = 0 => faults[m] = 0
  <2>1. faults'[m] \in 0..MaxFaults /\ faults'[m] >= faults[m] /\ MaxFaults \in Nat
    BY <1>3, CrashFaults, DeliveryAssumption
  <2> QED BY <1>1, <2>1
<1>4. CASE UNCHANGED faults
  BY <1>1, <1>4
<1>5. ASSUME [Next]_vars
      PROVE  \/ UNCHANGED faults
             \/ \E p \in Procs : Crash(p)
             \/ \E x \in Mails \cup {NoMail} : Blame(x)
  <2>1. \A s \in Slots : Busy(s) => MailOf(s) \in Mails
    BY ActivationMail DEF Busy
  <2>2. \A id \in MsgIds : msgMail[id] \in Mails \cup {NoMail}
    BY <1>1 DEF TypeOK
  <2> QED BY <1>5, <2>1, <2>2 DEF Next, Operation, vars, Progress, Insert, InsertFails,
         Dispatch, DispatchFails, Straggler, ReceiveFails, Expire, Receive, Read, Pick,
         Fire, Accept, AnswerOk, AnswerNotOk, AnswerFails, Write, Settle, Throw,
         HalfOpen, Busy
<1> QED BY <1>1, <1>2, <1>3, <1>4, <1>5 DEF QueueOnly

\* Two activations cannot have a mail with one message and no failure.
LEMMA SoloHolder ==
  ASSUME IInv, SendsOK, CopyInv, NEW m \in Mails, Solo(m), NEW s \in Slots, NEW t \in Slots,
         Busy(s), MailOf(s) = m, Busy(t), MailOf(t) = m
  PROVE  s = t
<1> SUFFICES ASSUME s # t PROVE FALSE
  OBVIOUS
<1>1. Hands(m) <= 1
  <2>1. Hands(m) <= sends[m] + faults[m] /\ sends[m] \in Nat /\ sends[m] <= 1 /\ faults[m] = 0
    BY DEF CopyInv, CopiesPaid, Solo, SendsOK
  <2>2. Hands(m) \in Nat
    BY LoadNumbers DEF Hands
  <2> QED BY <2>1, <2>2
<1>2. Cardinality(Holding(m)) <= 1
  BY <1>1, LoadNumbers DEF Hands
<1>3. {s, t} \in SUBSET Holding(m)
  BY DEF Holding
<1>4. Cardinality({s, t}) <= Cardinality(Holding(m))
  BY <1>3, LoadNumbers, FS_Subset
<1>5. Cardinality({s, t}) = 2
  <2>1. IsFiniteSet({s}) /\ Cardinality({s}) = 1
    BY FS_Singleton
  <2>2. Cardinality({s} \cup {t}) = 2
    <3>1. t \notin {s}
      OBVIOUS
    <3>2. Cardinality({s} \cup {t}) = Cardinality({s}) + 1
      BY <2>1, <3>1, FS_AddElement
    <3> QED BY <2>1, <3>2
  <2>3. {s} \cup {t} = {s, t}
    OBVIOUS
  <2> QED BY <2>2, <2>3
<1> QED BY <1>2, <1>4, <1>5, LoadNumbers

\* Who writes over the document of a mail has that mail.
LEMMA WriterHolds ==
  ASSUME IInv, StoredInv, [Next]_vars, NEW m \in Mails, docs[m] # <<>>, docs'[m] # docs[m]
  PROVE  \E s \in Slots : /\ work[s].pc = "write" /\ MailOf(s) = m
                          /\ Write(s) \/ Throw(s)
<1>1. ASSUME NEW n \in Mails, Insert(n) \/ InsertFails(n),
             docs' = [docs EXCEPT ![n] = NewDocument]
      PROVE  FALSE
  <2>1. docs[n] = <<>>
    BY <1>1 DEF Insert, InsertFails, StoredInv, DocumentBeforeMessage
  <2> QED BY <1>1, <2>1 DEF IInv, TypeOK
<1>2. ASSUME NEW s \in Slots, work[s].pc = "write", docs' = Written(s) PROVE MailOf(s) = m
  <2>1. MailOf(s) \in Mails /\ docs[MailOf(s)] # <<>>
    BY <1>2, ActivationMail DEF StoredInv, Attempting
  <2> QED BY <1>2, <2>1, WrittenDocs
<1> QED BY <1>1, <1>2, DocsFrame

LEMMA EndInvDelivery ==
  ASSUME IInv, StoredInv, SendsOK, CopyInv, EndInv, [Next]_vars,
         \A m \in Mails : Solo(m)' => Solo(m)
  PROVE  EndInv'
<1> SUFFICES ASSUME NEW s \in Slots, work'[s].pc \in Attempting, Solo(MailOf(s))'
             PROVE  ~Settled(MailOf(s))'
  BY DEF EndInv
<1> DEFINE m == MailOf(s)
<1>1. /\ Busy(s) /\ work'[s].msg = work[s].msg
      /\ \/ work[s].pc \in Attempting
         \/ work[s].pc = "read" /\ docs[m] # <<>> /\ ~Settled(m)
  BY AttemptOrigin
<1>2. MailOf(s)' = m /\ m \in Mails
  BY <1>1, MailOfStays
<1>3. Solo(m)
  BY <1>2 DEF Solo
<1>4. ~Settled(m) /\ docs[m] # <<>>
  BY <1>1, <1>3 DEF EndInv, StoredInv
<1>5. docs'[m] = docs[m]
  <2> SUFFICES ASSUME docs'[m] # docs[m] PROVE FALSE
    OBVIOUS
  <2>1. PICK t \in Slots : /\ work[t].pc = "write" /\ MailOf(t) = m
                           /\ Write(t) \/ Throw(t)
    BY <1>2, <1>4, WriterHolds
  <2>2. t = s
    BY <1>1, <1>2, <1>3, <2>1, SoloHolder DEF Busy
  <2>3. work'[s].pc \notin Attempting
    BY <2>1, <2>2 DEF Write, Throw, Idle, Attempting, IInv, TypeOK, Activation
  <2> QED BY <2>3
<1> QED BY <1>2, <1>4, <1>5 DEF Settled

LEMMA EndInvQueue ==
  ASSUME IInv, EndInv, QueueOnly, \A m \in Mails : Solo(m)' => Solo(m)
  PROVE  EndInv'
<1>1. ASSUME NEW s \in Slots, work[s].pc \in Attempting
      PROVE  MailOf(s)' = MailOf(s) /\ MailOf(s) \in Mails
  <2>1. work[s].msg \in MsgIds /\ msgState[work[s].msg] # "unsent" /\ MailOf(s) \in Mails
    BY <1>1, ActivationMail DEF ActivationOK, Attempting
  <2> QED BY <2>1 DEF QueueOnly, Held, MailOf
<1> SUFFICES ASSUME NEW s \in Slots, work'[s].pc \in Attempting, Solo(MailOf(s))'
             PROVE  ~Settled(MailOf(s))'
  BY DEF EndInv
<1>2. work[s].pc \in Attempting /\ docs' = docs
  BY DEF QueueOnly
<1>3. MailOf(s)' = MailOf(s) /\ MailOf(s) \in Mails
  BY <1>1, <1>2
<1>4. Solo(MailOf(s))
  BY <1>3 DEF Solo
<1> QED BY <1>2, <1>3, <1>4 DEF EndInv, Settled

LEMMA EndInvNext ==
  ASSUME SInv, SendsOK, CopyInv, EndInv, [SystemNext]_systemVars
  PROVE  EndInv'
<1>1. IInv /\ StoredInv /\ ([Next]_vars \/ QueueOnly)
  BY SystemStep DEF SInv, LocalsOK
<1>2. ASSUME NEW m \in Mails, Solo(m)' PROVE Solo(m)
  BY <1>1, <1>2, SendsGrow, FaultsGrow DEF Solo
<1> QED BY <1>1, <1>2, EndInvDelivery, EndInvQueue

\* A step that writes over the end of a mail.
LEMMA EndStep ==
  ASSUME SInv, SendsOK, EndInv, [SystemNext]_systemVars,
         NEW m \in Mails, Settled(m), docs'[m] # docs[m]
  PROVE  sends[m] > 1 \/ faults[m] > 0
<1>1. IInv /\ StoredInv /\ ([Next]_vars \/ QueueOnly)
  BY SystemStep DEF SInv, LocalsOK
<1>2. [Next]_vars /\ docs[m] # <<>>
  BY <1>1 DEF QueueOnly, Settled
<1>3. PICK s \in Slots : work[s].pc = "write" /\ MailOf(s) = m
  BY <1>1, <1>2, WriterHolds
<1>4. ~Solo(m)
  BY <1>3 DEF EndInv, Attempting
<1>5. sends[m] \in Nat /\ faults[m] \in Nat
  BY <1>1, MailNumbers DEF SendsOK, IInv
<1> QED BY <1>4, <1>5 DEF Solo

CInv == SendsOK /\ IdleFree /\ CopyInv /\ EndInv

LEMMA InvariantCInv == SystemSpec => []CInv
<1>1. SystemInit => CInv
  <2> SUFFICES ASSUME SystemInit PROVE CInv
    OBVIOUS
  <2>1. /\ sends = [m \in Mails |-> 0] /\ faults = [m \in Mails |-> 0]
        /\ accepted = [m \in Mails |-> 0] /\ wire = [m \in Mails |-> 0]
        /\ msgState = [id \in MsgIds |-> "unsent"] /\ work = [s \in Slots |-> Idle]
    BY DEF SystemInit, Init
  <2>2. SendsOK /\ IdleFree
    BY <2>1 DEF SendsOK, IdleFree, Idle
  <2>3. ASSUME NEW m \in Mails PROVE CopiesPaid(m)
    <3>1. Loose(m) = {} /\ Owing(m) = {} /\ Holding(m) = {}
      BY <2>1 DEF Loose, Owing, Holding, Busy, Owes, Idle
    <3>2. /\ Cardinality(Loose(m)) = 0 /\ Cardinality(Owing(m)) = 0
          /\ Cardinality(Holding(m)) = 0
      BY <3>1, FS_EmptySet
    <3> QED BY <2>1, <3>2 DEF Load, Hands, CopiesPaid
  <2>4. EndInv
    BY <2>1 DEF EndInv, Attempting, Idle
  <2> QED BY <2>2, <2>3, <2>4 DEF CInv, CopyInv
<1>2. SInv /\ SInv' /\ CInv /\ [SystemNext]_systemVars => CInv'
  BY SendsNext, SystemIdleFree, CopyInvNext, EndInvNext DEF CInv
<1> QED BY <1>1, <1>2, InvariantSInv, PTL DEF SystemSpec

-----------------------------------------------------------------------------
(* Theorems *)

\* The type invariant of the system, whatever its bounds.
THEOREM SystemTypeCorrect == SystemSpec => []SystemTypeOK
<1>1. SystemInit => SendsOK
  BY DEF SystemInit, SendsOK
<1>2. SendsOK /\ [SystemNext]_systemVars => SendsOK'
  BY SendsNext
<1>3. SInv /\ SendsOK => SystemTypeOK
  BY BarTypes DEF SendsOK, SInv, IInv, LocalsOK, SystemTypeOK, Job!JTypeOK, mailBar, queuedBar
<1> QED BY <1>1, <1>2, <1>3, InvariantSInv, PTL DEF SystemSpec

\* Messages of the job beside those of the API do not loosen the bound on
\* attempts: a status array never counts more of them than its agent allows.
THEOREM SystemRetriesBounded == SystemSpec => []RetriesBounded
<1>1. SInv => RetriesBounded
  BY DocsOKIsRetriesBounded DEF SInv, IInv
<1> QED BY <1>1, InvariantSInv, PTL

\* However many messages name a mail, its status is Success only if an agent
\* accepted it.
THEOREM SystemSuccessMeansAccepted == SystemSpec => []SuccessMeansAccepted
<1>1. SystemInit => AcceptInv
  BY DEF SystemInit, Init, AcceptInv, AnswersAccepted, SuccessMeansAccepted, Idle
<1>2. SInv /\ AcceptInv /\ [SystemNext]_systemVars => AcceptInv'
  BY SystemStep, AcceptNext, QueueOnlyAcceptInv DEF SInv, LocalsOK
<1>3. AcceptInv => SuccessMeansAccepted
  BY DEF AcceptInv
<1> QED BY <1>1, <1>2, <1>3, InvariantSInv, PTL DEF SystemSpec

\* With two agents, a mail is given up only after some breaker has opened, the
\* messages of the job included.
THEOREM SystemFailNeedsOpenCircuit ==
  ASSUME \E a, b \in MTAs : a # b
  PROVE  SystemSpec => []FailNeedsOpenCircuit
<1>1. SystemInit => TripInv
  BY DEF SystemInit, Init, TripInv, CircuitsTripped, FailTripped, FailNeedsOpenCircuit, Idle
<1>2. SInv /\ SInv' /\ TripInv /\ [SystemNext]_systemVars => TripInv'
  BY SystemStep, TripNext, QueueOnlyTripInv DEF SInv, LocalsOK
<1>3. TripInv => FailNeedsOpenCircuit
  BY DEF TripInv
<1> QED BY <1>1, <1>2, <1>3, InvariantSInv, PTL DEF SystemSpec

\* Every copy of a mail that goes to an agent beyond the messages sent for it
\* has a failure of its own, however many messages the job adds and whenever
\* their timeouts end.
THEOREM CopiesNeedMessagesHolds == SystemSpec => []CopiesNeedMessages
<1>1. SInv /\ CInv => CopiesNeedMessages
  <2> SUFFICES ASSUME SInv, CInv, NEW m \in Mails
               PROVE  accepted[m] + wire[m] <= sends[m] + faults[m]
    BY DEF CopiesNeedMessages
  <2>1. accepted[m] \in Nat /\ wire[m] \in Nat /\ faults[m] \in Nat /\ sends[m] \in Nat
    BY MailNumbers DEF SInv, IInv, CInv, SendsOK
  <2> QED BY <2>1, LoadNumbers DEF CInv, CopyInv, CopiesPaid, Load
<1> QED BY <1>1, InvariantSInv, InvariantCInv, PTL

\* Nobody works on a mail but with a message of its own, or on account of a
\* failure: a message given to two of them at once has come back early.
THEOREM SharersNeedMessagesHolds == SystemSpec => []SharersNeedMessages
<1>1. SInv /\ CInv => SharersNeedMessages
  <2> SUFFICES ASSUME SInv, CInv, NEW m \in Mails
               PROVE  Cardinality(Holding(m)) <= sends[m] + faults[m]
    BY DEF SharersNeedMessages, Holding, Busy
  <2>1. faults[m] \in Nat /\ sends[m] \in Nat
    BY MailNumbers DEF SInv, IInv, CInv, SendsOK
  <2> QED BY <2>1, LoadNumbers DEF CInv, CopyInv, CopiesPaid, Hands
<1> QED BY <1>1, InvariantSInv, InvariantCInv, PTL

\* The end of a mail is written over only if the mail had a second message or a
\* failure: not by an activation that is merely slow.
THEOREM EndIsFinalUnlessSharedHolds == SystemSpec => EndIsFinalUnlessShared
<1>1. SInv /\ CInv /\ [SystemNext]_systemVars =>
        [\A m \in Mails :
           Settled(m) /\ docs'[m] # docs[m] => sends[m] > 1 \/ faults[m] > 0]_systemVars
  BY EndStep DEF CInv
<1> QED BY <1>1, InvariantSInv, InvariantCInv, PTL DEF SystemSpec, EndIsFinalUnlessShared

\* The delivery path, its workers and its queue are an environment that
\* MailRecoverJob allows for, so what holds of the job there holds of it here.
THEOREM JobViewHolds == SystemSpec => JobView
<1>1. SystemInit => Job!JInit
  <2> SUFFICES ASSUME SystemInit PROVE Job!JInit
    OBVIOUS
  <2>1. \A m \in Mails : AgeOf(m) = "none" /\ ~HasMessage(m)
    BY DEF SystemInit, Init, AgeOf, HasMessage
  <2> QED BY <2>1 DEF SystemInit, Job!JInit
<1>2. SInv /\ [SystemNext]_systemVars => [Job!JNext]_(Job!jobVars)
  BY JobViewStep DEF Job!jobVars, jobLocals, mailBar, queuedBar
<1> QED BY <1>1, <1>2, InvariantSInv, PTL DEF SystemSpec, JobView, Job!JSpec
=============================================================================
