-------------------------- MODULE MailDeliveryProofs --------------------------
(***************************************************************************)
(* Theorems about MailDelivery, for every set of mails, messages, slots,   *)
(* processes and agents, whether or not a message comes back while it is   *)
(* processed: types, the bound on retries, and what the statuses Fail and  *)
(* Success of a document say about the agents.                             *)
(***************************************************************************)
EXTENDS MailDelivery, MtaStrategyProofs, FiniteSetTheorems, SequenceTheorems,
        TLAPS

-----------------------------------------------------------------------------
(* The first inductive invariant: types, and the bound on retries.         *)
(*                                                                         *)
(* RetriesBounded is about the documents, but a document gets what an      *)
(* activation carries from its read to its write, so the bound has to be   *)
(* carried along: an entry as read respects it, getMTA leaves room for one *)
(* more attempt, and the increment after the answer uses that room.        *)

RetriesOK(status) ==
  status.type = "Attempt" =>
    /\ status.mta \in MTAs
    /\ status.retries \in 1..MaxRetries[status.mta]

\* What an activation holds in each place where it waits.
ActivationOK(w, state) ==
  /\ w.pc # "idle" => w.msg \in MsgIds /\ state[w.msg] # "unsent"
  /\ w.pc = "pick" => ~Terminal(w.status) /\ RetriesOK(w.status)
  /\ w.pc \in {"fire", "sending", "accepted"} =>
       /\ w.mta \in MTAs
       /\ w.status.type = "Attempt" /\ w.status.mta = w.mta
       /\ w.status.retries < MaxRetries[w.mta]
  /\ w.pc = "write" => RetriesOK(w.status)

MessagesNamed ==
  \A id \in MsgIds : msgState[id] # "unsent" => msgMail[id] \in Mails

ActivationsOK == \A s \in Slots : ActivationOK(work[s], msgState)

DocsOK == \A m \in Mails : \A i \in 1..Len(docs[m]) : RetriesOK(docs[m][i])

IInv == TypeOK /\ MessagesNamed /\ ActivationsOK /\ DocsOK

LEMMA DocsOKIsRetriesBounded == DocsOK <=> RetriesBounded
  BY DEF DocsOK, RetriesBounded, RetriesOK

LEMMA IdleProperties ==
  ASSUME NEW state
  PROVE  Idle \in Activation /\ ActivationOK(Idle, state)
  BY DEF Idle, Activation, ActivationOK, Pc, Result, InitStatus, Status,
         StatusType

\* A message once sent is never unsent again.
SentStays == \A id \in MsgIds : msgState[id] # "unsent" => msgState'[id] # "unsent"

\* One activation moves on to w.
LEMMA ActivationStep ==
  ASSUME IInv, NEW s \in Slots, NEW w \in Activation, SentStays,
         ActivationOK(w, msgState'), work' = [work EXCEPT ![s] = w]
  PROVE  work' \in [Slots -> Activation] /\ ActivationsOK'
<1>1. work' \in [Slots -> Activation]
  BY DEF IInv, TypeOK
<1>2. ASSUME NEW t \in Slots PROVE ActivationOK(work'[t], msgState')
  <2>1. CASE t = s
    BY <2>1 DEF IInv, TypeOK
  <2>2. CASE t # s
    <3>1. work'[t] = work[t]
      BY <2>2 DEF IInv, TypeOK
    <3>2. ActivationOK(work[t], msgState)
      BY DEF IInv, ActivationsOK
    <3> QED BY <3>1, <3>2 DEF ActivationOK, SentStays
  <2> QED BY <2>1, <2>2
<1> QED BY <1>1, <1>2 DEF ActivationsOK

\* No activation moves.
LEMMA ActivationsStay ==
  ASSUME IInv, SentStays, UNCHANGED work
  PROVE  work' \in [Slots -> Activation] /\ ActivationsOK'
  BY DEF IInv, TypeOK, ActivationsOK, ActivationOK, SentStays

\* The document of the mail of an activation.
LEMMA ActivationMail ==
  ASSUME IInv, NEW s \in Slots, work[s].pc # "idle"
  PROVE  /\ work[s] \in Activation /\ work[s].msg \in MsgIds
         /\ MailOf(s) \in Mails /\ docs[MailOf(s)] \in Seq(Status)
         /\ ActivationOK(work[s], msgState)
  BY DEF IInv, TypeOK, MessagesNamed, ActivationsOK, ActivationOK, MailOf

\* addMailStatus and updateMailStatus keep a document within the bound.
LEMMA DocumentUpdate ==
  ASSUME NEW doc \in Seq(Status), NEW status \in Status, RetriesOK(status),
         \A i \in 1..Len(doc) : RetriesOK(doc[i])
  PROVE  /\ AddMailStatus(doc, status) \in Seq(Status)
         /\ \A i \in 1..Len(AddMailStatus(doc, status)) :
               RetriesOK(AddMailStatus(doc, status)[i])
         /\ UpdateMailStatus(doc, status) \in Seq(Status)
         /\ \A i \in 1..Len(UpdateMailStatus(doc, status)) :
               RetriesOK(UpdateMailStatus(doc, status)[i])
<1> DEFINE new == <<status>> \o doc
           upd == [doc EXCEPT ![1] = status]
<1>1. new \in Seq(Status) /\ Len(new) = 1 + Len(doc)
  OBVIOUS
<1>2. \A i \in 1..Len(new) : new[i] = IF i = 1 THEN status ELSE doc[i - 1]
  OBVIOUS
<1>3. \A i \in 1..Len(new) : RetriesOK(new[i])
  <2> TAKE i \in 1..Len(new)
  <2>1. CASE i = 1
    BY <1>2, <2>1
  <2>2. CASE i # 1
    <3>1. i - 1 \in 1..Len(doc)
      BY <1>1, <2>2
    <3> QED BY <1>2, <2>2, <3>1
  <2> QED BY <2>1, <2>2
<1>4. doc = <<>> \/ 1 \in 1..Len(doc)
  BY EmptySeq
<1>5. /\ upd \in Seq(Status) /\ Len(upd) = Len(doc)
      /\ \A i \in 1..Len(upd) : upd[i] = IF i = 1 THEN status ELSE doc[i]
  <2>1. CASE doc = <<>>
    <3>1. upd = [i \in DOMAIN doc |-> IF i = 1 THEN status ELSE doc[i]]
      BY Zenon
    <3>2. DOMAIN doc = {}
      BY <2>1
    <3>3. [i \in {} |-> IF i = 1 THEN status ELSE doc[i]] = <<>>
      BY SMT
    <3>4. upd = <<>>
      BY <3>1, <3>2, <3>3
    <3>5. Len(doc) = 0 /\ 1..0 = {}
      BY <2>1, EmptySeq
    <3> HIDE DEF upd
    <3> QED BY <2>1, <3>4, <3>5
  <2>2. CASE 1 \in 1..Len(doc)
    BY <2>2, ExceptSeq
  <2> QED BY <1>4, <2>1, <2>2
<1>6. \A i \in 1..Len(upd) : RetriesOK(upd[i])
  BY <1>5
<1> HIDE DEF new, upd
<1>7. new = AddMailStatus(doc, status) /\ upd = UpdateMailStatus(doc, status)
  BY DEF new, upd, AddMailStatus, UpdateMailStatus
<1> QED BY <1>1, <1>3, <1>5, <1>6, <1>7

\* Steps of MailController.create and of the queue.
LEMMA InsertStep ==
  ASSUME IInv, NEW m \in Mails, Insert(m) \/ InsertFails(m)
  PROVE  IInv'
<1>1. NewDocument \in Seq(Status) /\ \A i \in 1..Len(NewDocument) : RetriesOK(NewDocument[i])
  BY DEF NewDocument, InitStatus, Status, StatusType, RetriesOK
<1>2. docs' \in [Mails -> Seq(Status)] /\ DocsOK'
  BY <1>1 DEF IInv, TypeOK, DocsOK, Insert, InsertFails
<1>3. api' \in [Mails -> ApiState]
  BY DEF IInv, TypeOK, Insert, InsertFails, ApiState
<1>4. UNCHANGED <<msgState, msgMail, work, circuit, accepted, wire, faults, tripped>>
  BY DEF Insert, InsertFails, queueVars, providerVars
<1>5. MessagesNamed' /\ SentStays
  BY <1>4 DEF IInv, MessagesNamed, SentStays
<1>6. ActivationsOK'
  BY <1>4, <1>5, ActivationsStay
<1> QED BY <1>2, <1>3, <1>4, <1>5, <1>6 DEF IInv, TypeOK

LEMMA SendStep ==
  ASSUME IInv, NEW m \in Mails, NEW id \in MsgIds, Send(id, m)
  PROVE  /\ msgState' \in [MsgIds -> MsgState]
         /\ msgMail' \in [MsgIds -> Mails \cup {NoMail}]
         /\ MessagesNamed' /\ SentStays
  BY DEF IInv, TypeOK, Send, MsgState, MessagesNamed, SentStays

LEMMA DispatchStep ==
  ASSUME IInv, NEW m \in Mails, Dispatch(m) \/ DispatchFails(m)
  PROVE  IInv'
<1>1. api' \in [Mails -> ApiState]
  BY DEF IInv, TypeOK, Dispatch, DispatchFails, ApiState
<1>2. UNCHANGED <<docs, work, circuit, accepted, wire, faults, tripped>>
  BY DEF Dispatch, DispatchFails, providerVars
<1>3. /\ msgState' \in [MsgIds -> MsgState]
      /\ msgMail' \in [MsgIds -> Mails \cup {NoMail}]
      /\ MessagesNamed' /\ SentStays
  <2>1. CASE UNCHANGED queueVars
    BY <2>1 DEF IInv, TypeOK, MessagesNamed, SentStays, queueVars
  <2>2. CASE \E id \in MsgIds : Send(id, m)
    BY <2>2, SendStep
  <2> QED BY <2>1, <2>2 DEF Dispatch, DispatchFails
<1>4. ActivationsOK'
  BY <1>2, <1>3, ActivationsStay
<1> QED BY <1>1, <1>2, <1>3, <1>4 DEF IInv, TypeOK, DocsOK

\* One failure is counted, within its bound.
LEMMA BlameStep ==
  ASSUME TypeOK, NEW m, Blame(m)
  PROVE  faults' \in [Mails -> 0..MaxFaults]
<1>1. MaxFaults \in Nat
  BY DeliveryAssumption
<1>2. \A n \in 0..MaxFaults : n < MaxFaults => n + 1 \in 0..MaxFaults
  BY <1>1
<1>3. CASE m \in Mails
  <2>1. faults[m] \in 0..MaxFaults /\ faults[m] + 1 \in 0..MaxFaults
    BY <1>2, <1>3 DEF TypeOK, Blame
  <2> QED BY <2>1 DEF TypeOK, Blame
<1>4. CASE m \notin Mails
  BY <1>4 DEF TypeOK, Blame
<1> QED BY <1>3, <1>4

LEMMA VisibilityStep ==
  ASSUME IInv, NEW id \in MsgIds,
         ReceiveFails(id) \/ Expire(id)
  PROVE  IInv'
<1>1. faults' \in [Mails -> 0..MaxFaults]
  BY BlameStep DEF IInv, TypeOK, ReceiveFails, Expire
<1>2. UNCHANGED <<api, docs, msgMail, work, circuit, accepted, wire, tripped>>
  BY DEF ReceiveFails, Expire, providerVars
<1>3. msgState' \in [MsgIds -> MsgState] /\ MessagesNamed' /\ SentStays
  BY DEF IInv, TypeOK, MsgState, MessagesNamed, SentStays, ReceiveFails,
         Expire
<1>4. ActivationsOK'
  BY <1>2, <1>3, ActivationsStay
<1> QED BY <1>1, <1>2, <1>3, <1>4 DEF IInv, TypeOK, DocsOK

\* Steps of an activation.
LEMMA ReceiveStep ==
  ASSUME IInv, NEW s \in Slots, Receive(s)
  PROVE  IInv'
<1>1. PICK id \in MsgIds :
        /\ msgState[id] = "visible"
        /\ msgState' = [msgState EXCEPT ![id] = "hidden"]
        /\ work' = [work EXCEPT ![s] = Started(id)]
  BY DEF Receive
<1>2. UNCHANGED <<api, docs, msgMail, circuit, accepted, wire, faults, tripped>>
  BY DEF Receive, providerVars
<1>3. msgState' \in [MsgIds -> MsgState] /\ MessagesNamed' /\ SentStays
  BY <1>1, <1>2 DEF IInv, TypeOK, MsgState, MessagesNamed, SentStays
<1>4. Started(id) \in Activation /\ ActivationOK(Started(id), msgState')
  BY <1>1 DEF IInv, TypeOK, Started, Idle, Activation, ActivationOK, Pc, Result,
              InitStatus, Status, StatusType
<1>5. work' \in [Slots -> Activation] /\ ActivationsOK'
  BY <1>1, <1>3, <1>4, ActivationStep
<1> QED BY <1>2, <1>3, <1>5 DEF IInv, TypeOK, DocsOK

\* A step that changes only the locals of s.
LEMMA LocalStep ==
  ASSUME IInv, NEW s \in Slots, NEW w \in Activation,
         ActivationOK(w, msgState), work' = [work EXCEPT ![s] = w],
         UNCHANGED <<api, docs, msgState, msgMail>>,
         circuit' \in [Procs -> [MTAs -> CircuitState]],
         accepted' \in [Mails -> Nat], wire' \in [Mails -> Nat],
         faults' \in [Mails -> 0..MaxFaults], tripped' \in BOOLEAN
  PROVE  IInv'
<1>1. SentStays /\ MessagesNamed' /\ DocsOK'
  BY DEF SentStays, IInv, MessagesNamed, DocsOK
<1>2. work' \in [Slots -> Activation] /\ ActivationsOK'
  BY <1>1, ActivationStep
<1> QED BY <1>1, <1>2 DEF IInv, TypeOK

LEMMA ReadStep ==
  ASSUME IInv, NEW s \in Slots, Read(s)
  PROVE  IInv'
<1> DEFINE m   == MailOf(s)
           w1  == [work[s] EXCEPT !.pc = "settle", !.result = "Outdated"]
           w2  == [work[s] EXCEPT !.pc = "pick", !.status = Head(docs[m])]
<1>1. /\ work[s] \in Activation /\ work[s].msg \in MsgIds /\ m \in Mails
      /\ docs[m] \in Seq(Status) /\ ActivationOK(work[s], msgState)
  BY ActivationMail DEF Read
<1>2. UNCHANGED <<api, docs, msgState, msgMail, circuit, accepted, wire, faults, tripped>>
  BY DEF Read, queueVars, providerVars
<1>3. CASE docs[m] = <<>> \/ Settled(m)
  <2>1. work' = [work EXCEPT ![s] = w1]
    BY <1>3 DEF Read
  <2>2. w1 \in Activation /\ ActivationOK(w1, msgState)
    BY <1>1 DEF Read, Activation, ActivationOK, Pc, Result
  <2> QED BY <1>2, <2>1, <2>2, LocalStep DEF IInv, TypeOK
<1>4. CASE docs[m] # <<>> /\ ~Settled(m)
  <2>1. work' = [work EXCEPT ![s] = w2]
    BY <1>4 DEF Read
  <2>2. /\ Head(docs[m]) \in Status /\ ~Terminal(Head(docs[m]))
        /\ RetriesOK(Head(docs[m]))
    <3>1. Head(docs[m]) \in Status /\ Head(docs[m]) = docs[m][1] /\ 1 \in 1..Len(docs[m])
      BY <1>1, <1>4, HeadTailProperties, EmptySeq
    <3> QED BY <1>1, <1>4, <3>1 DEF Settled, IInv, DocsOK
  <2>3. w2 \in Activation
    BY <1>1, <2>2 DEF Activation, Pc
  <2>4. ActivationOK(w2, msgState)
    BY <1>1, <2>2 DEF Read, Activation, ActivationOK
  <2> QED BY <1>2, <2>1, <2>3, <2>4, LocalStep DEF IInv, TypeOK
<1> QED BY <1>3, <1>4

LEMMA PickStep ==
  ASSUME IInv, NEW s \in Slots, Pick(s)
  PROVE  IInv'
<1> DEFINE w   == work[s]
           mta == GetMTA(w.status, Available(ProcOf[s]))
<1>1. /\ w \in Activation /\ w.pc = "pick" /\ w.msg \in MsgIds
      /\ ActivationOK(w, msgState)
  BY ActivationMail DEF Pick
<1>2. UNCHANGED <<api, docs, msgState, msgMail, circuit, accepted, wire, faults, tripped>>
  BY DEF Pick, queueVars, providerVars
<1>3. w.status \in Status /\ Available(ProcOf[s]) \in SUBSET MTAs
  BY <1>1 DEF Activation, Available
<1>4. /\ mta \in MTAs \cup {NoMTA}
      /\ mta = w.status.mta /\ mta # NoMTA =>
           CanRetry(w.status, Available(ProcOf[s]))
  BY <1>3, GetMTAProperties
<1>5. CASE mta = NoMTA
  <2>1. work' = [work EXCEPT ![s] = GiveUp(w)]
    BY <1>5 DEF Pick
  <2>2. GiveUp(w) \in Activation
    BY <1>1 DEF GiveUp, Activation, Pc, Result, FailStatus, Status, StatusType
  <2>3. ActivationOK(GiveUp(w), msgState)
    BY <1>1 DEF GiveUp, Activation, ActivationOK, FailStatus, RetriesOK
  <2> QED BY <1>2, <2>1, <2>2, <2>3, LocalStep DEF IInv, TypeOK
<1>6. CASE mta # NoMTA
  <2> HIDE DEF mta
  <2> DEFINE new == NeedNewStatus(w.status, mta)
             st  == IF new THEN Attempt(mta) ELSE w.status
             w2  == [w EXCEPT !.pc = "fire", !.mta = mta, !.addNew = new, !.status = st]
  <2>1. work' = [work EXCEPT ![s] = w2]
    BY <1>6 DEF Pick, Chosen, mta
  <2>2. new \in BOOLEAN
    BY DEF NeedNewStatus
  <2>3. /\ st \in Status /\ st.type = "Attempt" /\ st.mta = mta
        /\ st.retries < MaxRetries[mta]
    <3>1. mta \in MTAs /\ MaxRetries[mta] \in Nat \ {0}
      BY <1>4, <1>6, MtaAssumption
    <3>2. CASE new
      BY <3>1, <3>2 DEF Attempt, Status, StatusType
    <3>3. CASE ~new
      BY <1>3, <1>4, <1>6, <3>1, <3>3 DEF NeedNewStatus, CanRetry
    <3> QED BY <3>2, <3>3
  <2> HIDE DEF new, st
  <2>4. w2 \in Activation
    BY <1>1, <1>4, <2>2, <2>3 DEF Activation, Pc
  <2>5. ActivationOK(w2, msgState)
    BY <1>1, <1>4, <1>6, <2>3 DEF Activation, ActivationOK
  <2> QED BY <1>2, <2>1, <2>4, <2>5, LocalStep DEF IInv, TypeOK
<1> QED BY <1>5, <1>6

\* What an activation that called an agent holds after the answer.
LEMMA AnswerLocals ==
  ASSUME NEW w \in Activation, NEW state, ActivationOK(w, state),
         w.pc \in {"fire", "sending", "accepted"}
  PROVE  /\ NotSent(w) \in Activation /\ ActivationOK(NotSent(w), state)
         /\ Succeeded(w) \in Activation /\ ActivationOK(Succeeded(w), state)
<1>1. /\ w.mta \in MTAs /\ w.status \in Status
      /\ w.status.type = "Attempt" /\ w.status.mta = w.mta
      /\ w.status.retries \in Nat /\ w.status.retries < MaxRetries[w.mta]
      /\ MaxRetries[w.mta] \in Nat
  BY MtaAssumption DEF ActivationOK, Activation, Status
<1> DEFINE st == [w.status EXCEPT !.retries = @ + 1]
<1>2. st \in Status /\ RetriesOK(st)
  BY <1>1 DEF Status, RetriesOK
<1>3. NotSent(w) = [w EXCEPT !.pc = "write", !.status = st, !.result = "Retry"]
  BY DEF NotSent, Activation
<1> HIDE DEF st
<1>4. NotSent(w) \in Activation /\ ActivationOK(NotSent(w), state)
  BY <1>2, <1>3 DEF Activation, ActivationOK, Pc, Result
<1>5. Succeeded(w) \in Activation /\ ActivationOK(Succeeded(w), state)
  BY DEF Succeeded, Activation, ActivationOK, Pc, Result, SuccessStatus,
         Status, StatusType, RetriesOK
<1> QED BY <1>4, <1>5

LEMMA BreakerStep ==
  ASSUME TypeOK, NEW s \in Slots, work[s].mta \in MTAs,
         NEW cs \in SUBSET CircuitState, Breaker(s, cs)
  PROVE  circuit' \in [Procs -> [MTAs -> CircuitState]] /\ tripped' \in BOOLEAN
<1>1. ProcOf[s] \in Procs
  BY DeliveryAssumption
<1> QED BY <1>1 DEF TypeOK, Breaker

LEMMA CircuitType ==
  ASSUME NEW c
  PROVE  /\ AfterSuccess(c) \in SUBSET CircuitState
         /\ AfterFailure(c) \in SUBSET CircuitState
         /\ c \in CircuitState => AfterFire(c) \in CircuitState
  BY DEF AfterSuccess, AfterFailure, AfterFire, CircuitState

LEMMA FireStep ==
  ASSUME IInv, NEW s \in Slots, Fire(s)
  PROVE  IInv'
<1> DEFINE w == work[s]  p == ProcOf[s]  a == w.mta
           w2 == [w EXCEPT !.pc = "sending"]
<1>1. /\ w \in Activation /\ w.pc = "fire" /\ w.msg \in MsgIds
      /\ ActivationOK(w, msgState) /\ a \in MTAs /\ p \in Procs
  BY ActivationMail, DeliveryAssumption DEF Fire, ActivationOK
<1>2. UNCHANGED <<api, docs, msgState, msgMail, accepted, wire, faults, tripped>>
  BY DEF Fire, queueVars, providerVars
<1>3. CASE Rejects(circuit[p][a]) /\ work' = [work EXCEPT ![s] = NotSent(w)]
                                  /\ UNCHANGED circuit
  <2>1. NotSent(w) \in Activation /\ ActivationOK(NotSent(w), msgState)
    BY <1>1, AnswerLocals
  <2> QED BY <1>2, <1>3, <2>1, LocalStep DEF IInv, TypeOK
<1>4. CASE /\ circuit' = [circuit EXCEPT ![p][a] = AfterFire(circuit[p][a])]
           /\ work' = [work EXCEPT ![s] = w2]
  <2>1. circuit' \in [Procs -> [MTAs -> CircuitState]]
    BY <1>1, <1>4, CircuitType DEF IInv, TypeOK
  <2>2. w2 \in Activation /\ ActivationOK(w2, msgState)
    BY <1>1 DEF Activation, ActivationOK, Pc
  <2> QED BY <1>2, <1>4, <2>1, <2>2, LocalStep DEF IInv, TypeOK
<1>5. \/ Rejects(circuit[p][a]) /\ work' = [work EXCEPT ![s] = NotSent(w)]
                                /\ UNCHANGED circuit
      \/ /\ circuit' = [circuit EXCEPT ![p][a] = AfterFire(circuit[p][a])]
         /\ work' = [work EXCEPT ![s] = w2]
  BY DEF Fire
<1> QED BY <1>3, <1>4, <1>5

LEMMA AcceptStep ==
  ASSUME IInv, NEW s \in Slots, Accept(s)
  PROVE  IInv'
<1> DEFINE w == work[s]  w2 == [w EXCEPT !.pc = "accepted"]
<1>1. /\ w \in Activation /\ w.pc = "sending" /\ ActivationOK(w, msgState)
      /\ MailOf(s) \in Mails
  BY ActivationMail DEF Accept
<1>2. UNCHANGED <<api, docs, msgState, msgMail, circuit, wire, faults, tripped>>
  BY DEF Accept, queueVars
<1>3. w2 \in Activation /\ ActivationOK(w2, msgState)
  BY <1>1 DEF Activation, ActivationOK, Pc
<1>4. accepted' \in [Mails -> Nat]
  BY <1>1 DEF Accept, IInv, TypeOK
<1>5. work' = [work EXCEPT ![s] = w2]
  BY DEF Accept
<1> HIDE DEF w2
<1> QED BY <1>2, <1>3, <1>4, <1>5, LocalStep DEF IInv, TypeOK

LEMMA AnswerStep ==
  ASSUME IInv, NEW s \in Slots, AnswerOk(s) \/ AnswerNotOk(s) \/ AnswerFails(s)
  PROVE  IInv'
<1> DEFINE w == work[s]  c == circuit[ProcOf[s]][w.mta]
<1>1. /\ w \in Activation /\ w.pc \in {"sending", "accepted"}
      /\ ActivationOK(w, msgState) /\ w.mta \in MTAs
  BY ActivationMail DEF AnswerOk, AnswerNotOk, AnswerFails, ActivationOK
<1>2. UNCHANGED <<api, docs, msgState, msgMail, accepted>>
  BY DEF AnswerOk, AnswerNotOk, AnswerFails, queueVars, providerVars
<1>3. Breaker(s, AfterSuccess(c)) \/ Breaker(s, AfterFailure(c))
  BY DEF AnswerOk, AnswerNotOk, AnswerFails
<1>4. circuit' \in [Procs -> [MTAs -> CircuitState]] /\ tripped' \in BOOLEAN
  <2>1. AfterSuccess(c) \in SUBSET CircuitState /\ AfterFailure(c) \in SUBSET CircuitState
    BY CircuitType
  <2> QED BY <1>1, <1>3, <2>1, BreakerStep DEF IInv
<1>5. faults' \in [Mails -> 0..MaxFaults]
  BY BlameStep DEF AnswerOk, AnswerNotOk, AnswerFails, IInv, TypeOK
<1>6. wire' \in [Mails -> Nat]
  BY DEF AnswerOk, AnswerNotOk, AnswerFails, providerVars, IInv, TypeOK
<1>7. PICK w2 \in {NotSent(w), Succeeded(w)} : work' = [work EXCEPT ![s] = w2]
  BY DEF AnswerOk, AnswerNotOk, AnswerFails
<1>8. w2 \in Activation /\ ActivationOK(w2, msgState)
  <2>1. /\ NotSent(w) \in Activation /\ ActivationOK(NotSent(w), msgState)
        /\ Succeeded(w) \in Activation /\ ActivationOK(Succeeded(w), msgState)
    BY <1>1, AnswerLocals
  <2> QED BY <1>7, <2>1
<1> QED BY <1>2, <1>4, <1>5, <1>6, <1>7, <1>8, LocalStep DEF IInv, TypeOK

\* The document as an activation writes it.
LEMMA WrittenProperties ==
  ASSUME IInv, NEW s \in Slots, work[s].pc = "write"
  PROVE  /\ Written(s) \in [Mails -> Seq(Status)]
         /\ \A m \in Mails : \A i \in 1..Len(Written(s)[m]) : RetriesOK(Written(s)[m][i])
<1> DEFINE w == work[s]  m == MailOf(s)  doc == docs[m]
           new == IF w.addNew THEN AddMailStatus(doc, w.status)
                              ELSE UpdateMailStatus(doc, w.status)
<1>1. w \in Activation /\ m \in Mails /\ doc \in Seq(Status) /\ ActivationOK(w, msgState)
  BY ActivationMail
<1>2. w.status \in Status /\ RetriesOK(w.status)
  BY <1>1 DEF Activation, ActivationOK
<1>3. \A i \in 1..Len(doc) : RetriesOK(doc[i])
  BY <1>1 DEF IInv, DocsOK
<1> HIDE DEF doc
<1>4. new \in Seq(Status) /\ \A i \in 1..Len(new) : RetriesOK(new[i])
  BY <1>1, <1>2, <1>3, DocumentUpdate
<1>5. Written(s) = [docs EXCEPT ![m] = new]
  BY DEF Written, doc
<1> HIDE DEF new
<1> QED BY <1>1, <1>4, <1>5 DEF IInv, TypeOK, DocsOK

LEMMA WriteStep ==
  ASSUME IInv, NEW s \in Slots, Write(s)
  PROVE  IInv'
<1> DEFINE w == work[s]  w2 == [w EXCEPT !.pc = "settle"]
<1>1. w \in Activation /\ w.pc = "write" /\ ActivationOK(w, msgState)
  BY ActivationMail DEF Write
<1>2. UNCHANGED <<api, msgState, msgMail, circuit, accepted, wire, faults, tripped>>
  BY DEF Write, queueVars, providerVars
<1>3. docs' \in [Mails -> Seq(Status)] /\ DocsOK'
  BY <1>1, WrittenProperties DEF Write, DocsOK
<1>4. SentStays /\ MessagesNamed'
  BY <1>2 DEF SentStays, IInv, MessagesNamed
<1>5. w2 \in Activation /\ ActivationOK(w2, msgState')
  BY <1>1, <1>2 DEF Activation, ActivationOK, Pc
<1>6. work' = [work EXCEPT ![s] = w2]
  BY DEF Write
<1> HIDE DEF w2
<1>7. work' \in [Slots -> Activation] /\ ActivationsOK'
  BY <1>4, <1>5, <1>6, ActivationStep
<1> QED BY <1>2, <1>3, <1>4, <1>7 DEF IInv, TypeOK

\* delete and updateVisibility leave every message a message.
LEMMA SettledQueueProperties ==
  ASSUME IInv, NEW s \in Slots, msgState' \in {msgState, SettledQueue(s)},
         UNCHANGED msgMail, work[s].pc # "idle"
  PROVE  msgState' \in [MsgIds -> MsgState] /\ MessagesNamed' /\ SentStays
<1>1. work[s].msg \in MsgIds /\ msgState[work[s].msg] # "unsent"
  BY ActivationMail DEF ActivationOK
<1>2. CASE msgState' = msgState
  BY <1>2 DEF IInv, TypeOK, MessagesNamed, SentStays
<1>3. CASE msgState' = SettledQueue(s)
  BY <1>1, <1>3 DEF SettledQueue, AfterSettle, IInv, TypeOK, MsgState,
                    MessagesNamed, SentStays
<1> QED BY <1>2, <1>3

LEMMA SettleStep ==
  ASSUME IInv, NEW s \in Slots, Settle(s)
  PROVE  IInv'
<1>1. UNCHANGED <<api, docs, msgMail, circuit, accepted, wire, faults, tripped>>
  BY DEF Settle, providerVars
<1>2. msgState' \in [MsgIds -> MsgState] /\ MessagesNamed' /\ SentStays
  BY <1>1, SettledQueueProperties DEF Settle
<1>3. work' \in [Slots -> Activation] /\ ActivationsOK'
  BY <1>2, IdleProperties, ActivationStep DEF Settle
<1> QED BY <1>1, <1>2, <1>3 DEF IInv, TypeOK, DocsOK

LEMMA ThrowStep ==
  ASSUME IInv, NEW s \in Slots, Throw(s)
  PROVE  IInv'
<1>1. UNCHANGED <<api, msgMail, circuit, accepted, wire, tripped>>
  BY DEF Throw, providerVars
<1>2. faults' \in [Mails -> 0..MaxFaults]
  BY BlameStep DEF Throw, IInv
<1>3. docs' \in [Mails -> Seq(Status)] /\ DocsOK'
  <2>1. CASE docs' = docs
    BY <2>1 DEF IInv, TypeOK, DocsOK
  <2>2. CASE work[s].pc = "write" /\ docs' = Written(s)
    BY <2>2, WrittenProperties DEF DocsOK
  <2> QED BY <2>1, <2>2 DEF Throw
<1>4. msgState' \in [MsgIds -> MsgState] /\ MessagesNamed' /\ SentStays
  BY <1>1, SettledQueueProperties DEF Throw
<1>5. work' \in [Slots -> Activation] /\ ActivationsOK'
  BY <1>4, IdleProperties, ActivationStep DEF Throw
<1> QED BY <1>1, <1>2, <1>3, <1>4, <1>5 DEF IInv, TypeOK

\* Steps outside the activations.
LEMMA StragglerStep ==
  ASSUME IInv, NEW m \in Mails, Straggler(m)
  PROVE  IInv'
<1>1. UNCHANGED <<api, docs, msgState, msgMail, work, circuit, faults, tripped>>
  BY DEF Straggler, queueVars
<1>2. accepted' \in [Mails -> Nat] /\ wire' \in [Mails -> Nat]
  <2>1. wire[m] \in Nat /\ wire[m] - 1 \in Nat /\ accepted[m] + 1 \in Nat
    BY DEF Straggler, IInv, TypeOK
  <2> QED BY <2>1 DEF Straggler, IInv, TypeOK
<1>3. MessagesNamed' /\ SentStays /\ DocsOK'
  BY <1>1 DEF IInv, MessagesNamed, SentStays, DocsOK
<1>4. ActivationsOK'
  BY <1>1, <1>3, ActivationsStay
<1> QED BY <1>1, <1>2, <1>3, <1>4 DEF IInv, TypeOK

LEMMA HalfOpenStep ==
  ASSUME IInv, NEW p \in Procs, NEW a \in MTAs, HalfOpen(p, a)
  PROVE  IInv'
<1>1. UNCHANGED <<api, docs, msgState, msgMail, work, accepted, wire, faults, tripped>>
  BY DEF HalfOpen, queueVars, providerVars
<1>2. circuit' \in [Procs -> [MTAs -> CircuitState]]
  BY DEF HalfOpen, IInv, TypeOK, CircuitState
<1>3. MessagesNamed' /\ SentStays /\ DocsOK'
  BY <1>1 DEF IInv, MessagesNamed, SentStays, DocsOK
<1>4. ActivationsOK'
  BY <1>1, <1>3, ActivationsStay
<1> QED BY <1>1, <1>2, <1>3, <1>4 DEF IInv, TypeOK

\* Every activation that ends with its process counts against its mail.
LEMMA CrashFaults ==
  ASSUME IInv, NEW p \in Procs, Crash(p), NEW m \in Mails
  PROVE  /\ faults'[m] \in 0..MaxFaults /\ faults'[m] >= faults[m]
         /\ \A s \in Slots : ProcOf[s] = p /\ work[s].pc # "idle" /\ MailOf(s) = m
              => faults'[m] > faults[m]
<1> DEFINE gone == {s \in Slots : ProcOf[s] = p /\ work[s].pc # "idle"}
           mine == {s \in gone : MailOf(s) = m}
<1>1. faults'[m] = faults[m] + Cardinality(mine) /\ faults[m] + Cardinality(mine) <= MaxFaults
  BY DEF Crash
<1>2. faults[m] \in 0..MaxFaults /\ MaxFaults \in Nat
  BY DeliveryAssumption DEF IInv, TypeOK
<1>3. IsFiniteSet(mine)
  BY DeliveryAssumption, FS_Subset
<1>4. Cardinality(mine) \in Nat /\ (mine # {} => Cardinality(mine) # 0)
  BY <1>3, FS_CardinalityType, FS_EmptySet
<1>5. \A s \in Slots : ProcOf[s] = p /\ work[s].pc # "idle" /\ MailOf(s) = m
        => mine # {}
  OBVIOUS
<1> HIDE DEF mine
<1> QED BY <1>1, <1>2, <1>4, <1>5

LEMMA CrashStep ==
  ASSUME IInv, NEW p \in Procs, Crash(p)
  PROVE  IInv'
<1> DEFINE gone == {s \in Slots : ProcOf[s] = p /\ work[s].pc # "idle"}
<1>1. UNCHANGED <<api, docs, msgState, msgMail, accepted, tripped>>
  BY DEF Crash, queueVars
<1>2. faults' \in [Mails -> 0..MaxFaults]
  <2> DEFINE strikes == [m \in Mails |-> Cardinality({s \in gone : MailOf(s) = m})]
  <2>1. faults' = [m \in Mails |-> faults[m] + strikes[m]]
    BY DEF Crash
  <2>2. \A m \in Mails : faults'[m] \in 0..MaxFaults
    BY CrashFaults
  <2> HIDE DEF strikes
  <2> QED BY <2>1, <2>2
<1>3. circuit' \in [Procs -> [MTAs -> CircuitState]]
  BY DEF Crash, IInv, TypeOK, CircuitState
<1>4. wire' \in [Mails -> Nat]
  <2>1. PICK out \in SUBSET {s \in gone : work[s].pc = "sending"} :
          wire' = [m \in Mails |->
                     wire[m] + Cardinality({s \in out : MailOf(s) = m})]
    BY DEF Crash
  <2>2. ASSUME NEW m \in Mails
        PROVE  Cardinality({s \in out : MailOf(s) = m}) \in Nat
    <3>1. IsFiniteSet({s \in out : MailOf(s) = m})
      BY DeliveryAssumption, FS_Subset
    <3> QED BY <3>1, FS_CardinalityType
  <2> DEFINE n == [m \in Mails |-> Cardinality({s \in out : MailOf(s) = m})]
  <2>3. n \in [Mails -> Nat]
    BY <2>2
  <2>4. wire' = [m \in Mails |-> wire[m] + n[m]]
    BY <2>1
  <2> HIDE DEF n
  <2> QED BY <2>3, <2>4 DEF IInv, TypeOK
<1>5. work' = [s \in Slots |-> IF ProcOf[s] = p THEN Idle ELSE work[s]]
  BY DEF Crash
<1>6. work' \in [Slots -> Activation]
  BY <1>5, IdleProperties DEF IInv, TypeOK
<1>7. ActivationsOK'
  <2>1. ASSUME NEW s \in Slots PROVE ActivationOK(work'[s], msgState')
    <3>1. work'[s] \in {Idle, work[s]}
      BY <1>5
    <3> QED BY <1>1, <3>1, IdleProperties DEF IInv, ActivationsOK
  <2> QED BY <2>1 DEF ActivationsOK
<1>8. MessagesNamed' /\ DocsOK'
  BY <1>1 DEF IInv, MessagesNamed, DocsOK
<1> QED BY <1>1, <1>2, <1>3, <1>4, <1>6, <1>7, <1>8 DEF IInv, TypeOK

-----------------------------------------------------------------------------
LEMMA InitIInv == Init => IInv
<1> SUFFICES ASSUME Init PROVE IInv
  OBVIOUS
<1>1. TypeOK
  <2>1. 0 \in 0..MaxFaults
    BY DeliveryAssumption
  <2>2. docs \in [Mails -> Seq(Status)]
    BY EmptySeq DEF Init
  <2>3. work \in [Slots -> Activation]
    BY IdleProperties DEF Init
  <2>4. circuit \in [Procs -> [MTAs -> CircuitState]]
    BY DEF Init, CircuitState
  <2> QED BY <2>1, <2>2, <2>3, <2>4 DEF Init, TypeOK, ApiState, MsgState
<1>2. MessagesNamed /\ DocsOK
  BY DEF Init, MessagesNamed, DocsOK
<1>3. ActivationsOK
  BY IdleProperties DEF Init, ActivationsOK
<1> QED BY <1>1, <1>2, <1>3 DEF IInv

LEMMA StutterStep ==
  ASSUME IInv, UNCHANGED vars
  PROVE  IInv'
  BY DEF vars, IInv, TypeOK, MessagesNamed, ActivationsOK, ActivationOK, DocsOK

LEMMA NextIInv == IInv /\ [Next]_vars => IInv'
<1> SUFFICES ASSUME IInv, [Next]_vars PROVE IInv'
  OBVIOUS
<1>1. ASSUME NEW m \in Mails, Insert(m) \/ InsertFails(m) PROVE IInv'
  BY <1>1, InsertStep
<1>2. ASSUME NEW m \in Mails, Dispatch(m) \/ DispatchFails(m) PROVE IInv'
  BY <1>2, DispatchStep
<1>3. ASSUME NEW m \in Mails, Straggler(m) PROVE IInv'
  BY <1>3, StragglerStep
<1>4. ASSUME NEW id \in MsgIds, ReceiveFails(id) \/ Expire(id)
      PROVE  IInv'
  BY <1>4, VisibilityStep
<1>5. ASSUME NEW s \in Slots, Receive(s) PROVE IInv'
  BY <1>5, ReceiveStep
<1>6. ASSUME NEW s \in Slots, Progress(s) PROVE IInv'
  BY <1>6, ReadStep, PickStep, FireStep, AcceptStep, AnswerStep, WriteStep,
     SettleStep DEF Progress
<1>7. ASSUME NEW s \in Slots, AnswerNotOk(s) \/ AnswerFails(s) PROVE IInv'
  BY <1>7, AnswerStep
<1>8. ASSUME NEW s \in Slots, Throw(s) PROVE IInv'
  BY <1>8, ThrowStep
<1>9. ASSUME NEW p \in Procs, Crash(p) PROVE IInv'
  BY <1>9, CrashStep
<1>10. ASSUME NEW p \in Procs, NEW a \in MTAs, HalfOpen(p, a) PROVE IInv'
  BY <1>10, HalfOpenStep
<1>11. CASE UNCHANGED vars
  BY <1>11, StutterStep
<1> QED
  BY <1>1, <1>2, <1>3, <1>4, <1>5, <1>6, <1>7, <1>8, <1>9, <1>10, <1>11 DEF Next, Operation

LEMMA InvariantIInv == Spec => []IInv
  BY InitIInv, NextIInv, PTL DEF Spec

\* Every variable keeps its type.
THEOREM TypeCorrect == Spec => []TypeOK
  BY InvariantIInv, PTL DEF IInv

\* No entry of a status array counts fewer attempts than one, or more than its
\* agent allows, with any number of activations of any number of processes and
\* whether or not messages come back while they are processed.
THEOREM RetriesAreBounded == Spec => []RetriesBounded
<1>1. IInv => RetriesBounded
  BY DocsOKIsRetriesBounded DEF IInv
<1> QED BY <1>1, InvariantIInv, PTL

-----------------------------------------------------------------------------
(* What the steps leave alone. *)

Busy(s) == work[s].pc # "idle"

\* The steps of an activation between taking a message and letting it go.
Local(s) ==
  \/ Read(s) \/ Pick(s) \/ Fire(s) \/ Accept(s) \/ Write(s)
  \/ AnswerOk(s) \/ AnswerNotOk(s) \/ AnswerFails(s)

Release(s) == Settle(s) \/ Throw(s)

LEMMA LocalFrame ==
  ASSUME IInv, NEW s \in Slots, Local(s)
  PROVE  /\ UNCHANGED <<api, msgState, msgMail>>
         /\ \A t \in Slots : t # s => work'[t] = work[t]
         /\ Busy(s) /\ Busy(s)' /\ work'[s].msg = work[s].msg
         /\ \A t \in Slots : MailOf(t)' = MailOf(t)
<1>1. work \in [Slots -> Activation] /\ work[s] \in Activation
  BY DEF IInv, TypeOK
<1>2. UNCHANGED <<api, msgState, msgMail>>
  BY DEF Local, Read, Pick, Fire, Accept, Write, AnswerOk, AnswerNotOk,
         AnswerFails, queueVars
<1>3. Busy(s)
  BY DEF Busy, Local, Read, Pick, Fire, Accept, Write, AnswerOk, AnswerNotOk,
         AnswerFails
<1>4. \E w \in [pc : Pc \ {"idle"}, msg : {work[s].msg}, status : {work'[s].status},
                mta : {work'[s].mta}, addNew : {work'[s].addNew},
                result : {work'[s].result}] :
         work' = [work EXCEPT ![s] = w]
  <2>1. CASE Read(s)
    BY <1>1, <2>1 DEF Read, Activation, Pc
  <2>2. CASE Pick(s)
    BY <1>1, <2>2 DEF Pick, GiveUp, Chosen, Activation, Pc
  <2>3. CASE Fire(s)
    BY <1>1, <2>3 DEF Fire, NotSent, Activation, Pc
  <2>4. CASE Accept(s)
    BY <1>1, <2>4 DEF Accept, Activation, Pc
  <2>5. CASE Write(s)
    BY <1>1, <2>5 DEF Write, Activation, Pc
  <2>6. CASE AnswerOk(s)
    BY <1>1, <2>6 DEF AnswerOk, Succeeded, Activation, Pc
  <2>7. CASE AnswerNotOk(s) \/ AnswerFails(s)
    BY <1>1, <2>7 DEF AnswerNotOk, AnswerFails, NotSent, Activation, Pc
  <2> QED BY <2>1, <2>2, <2>3, <2>4, <2>5, <2>6, <2>7 DEF Local
<1>5. /\ \A t \in Slots : t # s => work'[t] = work[t]
      /\ Busy(s)' /\ work'[s].msg = work[s].msg
  BY <1>1, <1>4 DEF Busy, Pc
<1> QED BY <1>2, <1>3, <1>5 DEF MailOf

\* The end of an activation touches one message: its own.
LEMMA ReleaseFrame ==
  ASSUME IInv, NEW s \in Slots, Release(s)
  PROVE  /\ UNCHANGED <<api, msgMail, circuit, accepted, wire>>
         /\ work' = [work EXCEPT ![s] = Idle] /\ Busy(s)
         /\ \A id \in MsgIds : id # work[s].msg => msgState'[id] = msgState[id]
  BY DEF Release, Settle, Throw, SettledQueue, Busy, providerVars, IInv, TypeOK

\* How the other steps change the queue and the activations.
LEMMA OtherFrame ==
  ASSUME IInv, Next,
         ~ \E s \in Slots : Local(s) \/ Release(s) \/ Receive(s)
  PROVE  /\ work' = work \/ \E p \in Procs : Crash(p)
         /\ \/ msgState' = msgState /\ msgMail' = msgMail
            \/ \E id \in MsgIds, m \in Mails : Send(id, m)
            \/ \E id \in MsgIds : ReceiveFails(id) \/ Expire(id)
  BY DEF Next, Operation, Progress, Local, Release, Insert, InsertFails, Dispatch,
         DispatchFails, Straggler, ReceiveFails, Expire,
         Crash, HalfOpen, queueVars

\* Documents change with the request that creates them and with writes only.
LEMMA DocsFrame ==
  ASSUME [Next]_vars, docs' # docs
  PROVE  \/ \E m \in Mails : /\ Insert(m) \/ InsertFails(m)
                             /\ docs' = [docs EXCEPT ![m] = NewDocument]
         \/ \E s \in Slots : /\ Write(s) \/ Throw(s)
                             /\ work[s].pc = "write" /\ docs' = Written(s)
  BY DEF Next, Operation, vars, Progress, Insert, InsertFails, Dispatch, DispatchFails,
         Straggler, ReceiveFails, Expire, Receive,
         Read, Pick, Fire, Accept, AnswerOk, AnswerNotOk, AnswerFails, Write,
         Settle, Throw, Crash, HalfOpen

-----------------------------------------------------------------------------
(* Where the entries of a document come from *)


\* An updated document holds its old entries and the new one.
LEMMA DocumentEntries ==
  ASSUME NEW doc \in Seq(Status), NEW status \in Status,
         NEW new \in {AddMailStatus(doc, status), UpdateMailStatus(doc, status)},
         NEW i \in 1..Len(new)
  PROVE  new[i] = status \/ \E j \in 1..Len(doc) : new[i] = doc[j]
<1>1. CASE new = <<status>> \o doc
  <2>1. /\ Len(new) = 1 + Len(doc)
        /\ new[i] = IF i = 1 THEN status ELSE doc[i - 1]
    BY <1>1
  <2>2. CASE i = 1
    BY <2>1, <2>2
  <2>3. CASE i # 1
    <3>1. i - 1 \in 1..Len(doc)
      BY <2>1, <2>3
    <3> QED BY <2>1, <2>3, <3>1
  <2> QED BY <2>2, <2>3
<1>2. CASE new = [doc EXCEPT ![1] = status]
  <2>1. DOMAIN new = DOMAIN doc /\ DOMAIN doc = 1..Len(doc)
    BY <1>2, LenProperties
  <2>2. new = [j \in DOMAIN doc |-> IF j = 1 THEN status ELSE doc[j]]
    BY <1>2, Zenon
  <2>3. CASE doc = <<>>
    <3>1. [j \in {} |-> IF j = 1 THEN status ELSE doc[j]] = <<>> /\ DOMAIN doc = {}
      BY <2>3, SMT
    <3>2. new = <<>>
      BY <2>2, <3>1
    <3> QED BY <3>2, EmptySeq
  <2>4. CASE doc # <<>>
    <3>1. 1 \in 1..Len(doc)
      BY <2>4, EmptySeq
    <3>2. Len(new) = Len(doc) /\ new[i] = IF i = 1 THEN status ELSE doc[i]
      BY <1>2, <3>1, ExceptSeq
    <3> QED BY <3>2
  <2> QED BY <2>3, <2>4
<1> QED BY <1>1, <1>2 DEF AddMailStatus, UpdateMailStatus

\* Where an entry of a document comes from.
LEMMA EntryOrigin ==
  ASSUME IInv, [Next]_vars, NEW m \in Mails, NEW i \in 1..Len(docs'[m])
  PROVE  \/ \E j \in 1..Len(docs[m]) : docs'[m][i] = docs[m][j]
         \/ docs'[m][i] = InitStatus
         \/ \E s \in Slots : /\ work[s].pc = "write" /\ MailOf(s) = m
                             /\ docs'[m][i] = work[s].status
<1>1. CASE docs' = docs
  BY <1>1
<1>2. ASSUME NEW n \in Mails, docs' = [docs EXCEPT ![n] = NewDocument]
      PROVE  docs'[m][i] = InitStatus \/ docs'[m] = docs[m]
  <2>1. docs'[m] = IF m = n THEN NewDocument ELSE docs[m]
    BY <1>2 DEF IInv, TypeOK
  <2>2. Len(NewDocument) = 1 /\ NewDocument[1] = InitStatus
    BY DEF NewDocument
  <2>3. ASSUME m = n PROVE docs'[m][i] = InitStatus
    <3>1. docs'[m] = NewDocument
      BY <2>1, <2>3
    <3>2. Len(docs'[m]) = 1 /\ docs'[m][1] = InitStatus
      BY <2>2, <3>1, Zenon
    <3>3. i \in 1..1
      BY <3>2
    <3>4. i = 1
      BY <3>3
    <3> QED BY <3>2, <3>4
  <2> QED BY <2>1, <2>3
<1>3. ASSUME NEW s \in Slots, work[s].pc = "write", docs' = Written(s)
      PROVE  \/ \E j \in 1..Len(docs[m]) : docs'[m][i] = docs[m][j]
             \/ MailOf(s) = m /\ docs'[m][i] = work[s].status
  <2>1. CASE m # MailOf(s)
    BY <1>3, <2>1 DEF Written, IInv, TypeOK
  <2>2. CASE m = MailOf(s)
    <3>1. /\ docs[m] \in Seq(Status) /\ work[s].status \in Status
      BY <1>3, <2>2, ActivationMail DEF Activation
    <3>2. docs'[m] \in {AddMailStatus(docs[m], work[s].status),
                        UpdateMailStatus(docs[m], work[s].status)}
      BY <1>3, <2>2 DEF Written, IInv, TypeOK
    <3> QED BY <2>2, <3>1, <3>2, DocumentEntries
  <2> QED BY <2>1, <2>2
<1> QED BY <1>1, <1>2, <1>3, DocsFrame

\* Where the entry an activation is about to write comes from.
LEMMA WriteOrigin ==
  ASSUME IInv, [Next]_vars, NEW s \in Slots, work'[s].pc = "write"
  PROVE  \/ work[s].pc = "write" /\ work'[s] = work[s]
         \/ Pick(s) /\ work'[s].status = FailStatus
         \/ AnswerOk(s) /\ work'[s].status = SuccessStatus
         \/ work'[s].status.type = "Attempt"
<1>1. /\ work[s] \in Activation /\ work \in [Slots -> Activation]
      /\ work[s].pc # "idle" => ActivationOK(work[s], msgState)
  BY ActivationMail DEF IInv, TypeOK
<1>2. CASE UNCHANGED vars
  BY <1>2 DEF vars
<1>3. ASSUME NEW t \in Slots, Local(t), t # s
      PROVE  work'[s] = work[s]
  BY <1>3, LocalFrame
<1>4. CASE Local(s)
  <2>0. NotSent(work[s]).status.type = work[s].status.type
    BY <1>1 DEF NotSent, Activation, Status
  <2>1. CASE Read(s) \/ Write(s) \/ Accept(s)
    <3>1. work'[s].pc \in {"settle", "pick", "accepted"}
      BY <1>1, <2>1, ZenonT(30) DEF Read, Write, Accept, Activation
    <3> QED BY <3>1
  <2>2. CASE Pick(s)
    BY <1>1, <2>2 DEF Pick, GiveUp, Chosen, Activation
  <2>3. CASE Fire(s)
    <3>1. \/ work' = [work EXCEPT ![s] = NotSent(work[s])]
          \/ work' = [work EXCEPT ![s].pc = "sending"]
      BY <2>3 DEF Fire
    <3>2. work'[s] = NotSent(work[s]) \/ work'[s].pc = "sending"
      BY <1>1, <3>1 DEF Activation
    <3>3. ActivationOK(work[s], msgState) /\ work[s].pc = "fire"
      BY <1>1, <2>3 DEF Fire
    <3> QED BY <2>0, <3>2, <3>3 DEF ActivationOK
  <2>4. CASE AnswerOk(s)
    BY <1>1, <2>4 DEF AnswerOk, Succeeded, Activation
  <2>5. CASE AnswerNotOk(s) \/ AnswerFails(s)
    <3>1. work'[s] = NotSent(work[s])
      BY <1>1, <2>5 DEF AnswerNotOk, AnswerFails
    <3>2. ActivationOK(work[s], msgState) /\ work[s].pc \in {"sending", "accepted"}
      BY <1>1, <2>5 DEF AnswerNotOk, AnswerFails
    <3> QED BY <2>0, <3>1, <3>2 DEF ActivationOK
  <2> QED BY <1>4, <2>1, <2>2, <2>3, <2>4, <2>5 DEF Local
<1>5. ASSUME NEW t \in Slots, Release(t) PROVE work'[s] = work[s]
  BY <1>1, <1>5, ReleaseFrame DEF Idle
<1>6. ASSUME NEW t \in Slots, Receive(t) PROVE work'[s] = work[s]
  BY <1>1, <1>6 DEF Receive, Started, Idle
<1>7. ASSUME Next, ~ \E t \in Slots : Local(t) \/ Release(t) \/ Receive(t)
      PROVE  work'[s] = work[s]
  BY <1>7, OtherFrame DEF Crash, Idle
<1> QED BY <1>2, <1>3, <1>4, <1>5, <1>6, <1>7

-----------------------------------------------------------------------------
(* Fail *)

\* A breaker that is not closed has opened before.
CircuitsTripped ==
  \A p \in Procs, a \in MTAs : circuit[p][a] # "closed" => tripped

FailTripped ==
  \A s \in Slots : work[s].pc = "write" /\ work[s].status.type = "Fail" => tripped

TripInv == CircuitsTripped /\ FailTripped /\ FailNeedsOpenCircuit

LEMMA TripNext ==
  ASSUME \E a, b \in MTAs : a # b,
         IInv, IInv', TripInv, [Next]_vars
  PROVE  TripInv'
<1>1. tripped => tripped'
  BY DEF Next, Operation, vars, Progress, Insert, InsertFails, Dispatch, DispatchFails,
         Straggler, ReceiveFails, Expire, Receive,
         Read, Pick, Fire, Accept, AnswerOk, AnswerNotOk, AnswerFails, Breaker,
         Write, Settle, Throw, Crash, HalfOpen
<1>2. CircuitsTripped'
  <2>1. CASE UNCHANGED circuit
    BY <1>1, <2>1 DEF TripInv, CircuitsTripped
  <2>2. ASSUME NEW s \in Slots, Fire(s) PROVE CircuitsTripped'
    <3> DEFINE p == ProcOf[s]
               a == work[s].mta
    <3>1. p \in Procs /\ work[s].pc = "fire" /\ ActivationOK(work[s], msgState)
      BY <2>2, ActivationMail, DeliveryAssumption DEF Fire
    <3>2. a \in MTAs
      BY <3>1 DEF ActivationOK
    <3>3. \/ circuit' = circuit
          \/ circuit' = [circuit EXCEPT ![p][a] = AfterFire(circuit[p][a])]
      BY <2>2 DEF Fire
    <3>4. AfterFire(circuit[p][a]) # "closed" => circuit[p][a] # "closed"
      BY DEF AfterFire
    <3> HIDE DEF p, a
    <3>5. ASSUME NEW q \in Procs, NEW b \in MTAs
          PROVE  circuit'[q][b] # "closed" => circuit[q][b] # "closed"
      BY <3>1, <3>2, <3>3, <3>4 DEF IInv, TypeOK
    <3> QED BY <1>1, <3>5 DEF TripInv, CircuitsTripped
  <2>3. ASSUME NEW s \in Slots, NEW cs, Breaker(s, cs),
               \A c \in cs : c \in {"open", "closed"}
        PROVE  CircuitsTripped'
    <3> DEFINE p == ProcOf[s]
               a == work[s].mta
    <3>1. p \in Procs
      BY DeliveryAssumption
    <3>2. PICK c \in cs : /\ circuit' = [circuit EXCEPT ![p][a] = c]
                          /\ tripped' = (tripped \/ c = "open")
      BY <2>3 DEF Breaker
    <3>3. c \in {"open", "closed"}
      BY <2>3
    <3> HIDE DEF p, a
    <3>4. ASSUME NEW q \in Procs, NEW b \in MTAs, circuit'[q][b] # "closed"
          PROVE  tripped'
      <4>1. circuit'[q][b] = circuit[q][b] \/ circuit'[q][b] = c
        BY <3>1, <3>2 DEF IInv, TypeOK
      <4>2. CASE circuit'[q][b] = circuit[q][b]
        BY <1>1, <3>4, <4>2 DEF TripInv, CircuitsTripped
      <4>3. CASE circuit'[q][b] = c
        BY <3>2, <3>3, <3>4, <4>3
      <4> QED BY <4>1, <4>2, <4>3
    <3> QED BY <3>4 DEF CircuitsTripped
  <2>4. ASSUME NEW p \in Procs, Crash(p) PROVE CircuitsTripped'
    BY <1>1, <2>4 DEF Crash, TripInv, CircuitsTripped, IInv, TypeOK
  <2>5. ASSUME NEW p \in Procs, NEW a \in MTAs, HalfOpen(p, a) PROVE CircuitsTripped'
    BY <1>1, <2>5 DEF HalfOpen, TripInv, CircuitsTripped, IInv, TypeOK
  <2>6. \A c : /\ \A d \in AfterSuccess(c) : d \in {"open", "closed"}
               /\ \A d \in AfterFailure(c) : d \in {"open", "closed"}
    BY DEF AfterSuccess, AfterFailure
  <2>7. \/ UNCHANGED circuit
        \/ \E s \in Slots : Fire(s) \/ AnswerOk(s) \/ AnswerNotOk(s) \/ AnswerFails(s)
        \/ \E p \in Procs : Crash(p) \/ \E a \in MTAs : HalfOpen(p, a)
    BY DEF Next, Operation, vars, Progress, Insert, InsertFails, Dispatch, DispatchFails,
         Straggler, ReceiveFails, Expire, Receive,
         Read, Pick, Accept, Write, Settle, Throw
  <2>8. ASSUME NEW s \in Slots, AnswerOk(s) \/ AnswerNotOk(s) \/ AnswerFails(s)
        PROVE  CircuitsTripped'
    BY <2>3, <2>6, <2>8 DEF AnswerOk, AnswerNotOk, AnswerFails
  <2> QED BY <2>1, <2>2, <2>4, <2>5, <2>7, <2>8
<1>3. FailTripped'
  <2> SUFFICES ASSUME NEW s \in Slots, work'[s].pc = "write",
                      work'[s].status.type = "Fail"
               PROVE  tripped'
    BY DEF FailTripped
  <2>1. CASE work[s].pc = "write" /\ work'[s] = work[s]
    BY <1>1, <2>1 DEF TripInv, FailTripped
  <2>2. CASE Pick(s)
    <3> DEFINE av  == Available(ProcOf[s])
               st  == work[s].status
               mta == GetMTA(st, av)
    <3>1. /\ work[s] \in Activation /\ work[s].pc = "pick"
          /\ ActivationOK(work[s], msgState) /\ ProcOf[s] \in Procs
      BY <2>2, ActivationMail, DeliveryAssumption DEF Pick
    <3>2. st \in Status /\ ~Terminal(st) /\ av \in SUBSET MTAs
      BY <3>1 DEF Activation, ActivationOK, Available
    <3>3. mta = NoMTA
      <4>1. CASE mta # NoMTA
        <5>1. work'[s].status \in {st, Attempt(mta)}
          BY <2>2, <3>1, <4>1 DEF Pick, Chosen, Activation, IInv, TypeOK
        <5> QED BY <3>2, <5>1 DEF Attempt, Terminal
      <4> QED BY <4>1
    <3>4. av \subseteq {st.mta}
      BY <3>2, <3>3, GetMTAProperties
    <3>5. PICK a \in MTAs : a \notin av
      BY <3>4
    <3> QED BY <1>1, <3>1, <3>5 DEF Available, IsAvailable, TripInv, CircuitsTripped
  <2>3. CASE work'[s].status = SuccessStatus \/ work'[s].status.type = "Attempt"
    BY <2>3 DEF SuccessStatus
  <2> QED BY <2>1, <2>2, <2>3, WriteOrigin
<1>4. FailNeedsOpenCircuit'
  <2> SUFFICES ASSUME NEW m \in Mails, NEW i \in 1..Len(docs'[m]),
                      docs'[m][i].type = "Fail"
               PROVE  tripped'
    BY DEF FailNeedsOpenCircuit
  <2>1. docs'[m][i] # InitStatus
    BY DEF InitStatus
  <2> QED BY <1>1, <2>1, EntryOrigin DEF TripInv, FailTripped, FailNeedsOpenCircuit
<1> QED BY <1>2, <1>3, <1>4 DEF TripInv

\* With at least two agents, no mail is given up before some breaker opened,
\* however often the agents refused it.
THEOREM FailNeedsOpenCircuitHolds ==
  ASSUME \E a, b \in MTAs : a # b
  PROVE  Spec => []FailNeedsOpenCircuit
<1>1. Init => TripInv
  BY DEF Init, TripInv, CircuitsTripped, FailTripped, FailNeedsOpenCircuit, Idle
<1>2. IInv /\ IInv' /\ TripInv /\ [Next]_vars => TripInv'
  BY TripNext
<1>3. TripInv => FailNeedsOpenCircuit
  BY DEF TripInv
<1> QED BY <1>1, <1>2, <1>3, InvariantIInv, PTL DEF Spec

-----------------------------------------------------------------------------
(* Success *)

\* The answer an activation has in hand is about an accepted mail.
AnswersAccepted ==
  \A s \in Slots :
    \/ work[s].pc = "accepted"
    \/ work[s].pc = "write" /\ work[s].status.type = "Success"
    => accepted[MailOf(s)] > 0

AcceptInv == AnswersAccepted /\ SuccessMeansAccepted

LEMMA AcceptedGrows ==
  ASSUME IInv, [Next]_vars, NEW m \in Mails
  PROVE  accepted'[m] >= accepted[m] /\ accepted'[m] \in Nat
<1>1. accepted \in [Mails -> Nat]
  BY DEF IInv, TypeOK
<1>2. ASSUME NEW n \in Mails, accepted' = [accepted EXCEPT ![n] = @ + 1]
      PROVE  accepted'[m] >= accepted[m] /\ accepted'[m] \in Nat
  BY <1>1, <1>2
<1>3. ASSUME NEW s \in Slots, Accept(s)
      PROVE  accepted'[m] >= accepted[m] /\ accepted'[m] \in Nat
  BY <1>2, <1>3, ActivationMail DEF Accept
<1>4. ASSUME NEW n \in Mails, Straggler(n)
      PROVE  accepted'[m] >= accepted[m] /\ accepted'[m] \in Nat
  BY <1>1, <1>2, <1>4 DEF Straggler
<1>5. CASE UNCHANGED accepted
  BY <1>1, <1>5
<1>6. \/ UNCHANGED accepted
      \/ \E s \in Slots : Accept(s)
      \/ \E n \in Mails : Straggler(n)
  BY DEF Next, Operation, vars, providerVars, Progress, Insert, InsertFails, Dispatch,
         DispatchFails, ReceiveFails, Expire,
         Receive, Read, Pick, Fire, AnswerOk, AnswerNotOk, AnswerFails, Write,
         Settle, Throw, Crash, HalfOpen
<1> QED BY <1>3, <1>4, <1>5, <1>6

\* A message keeps its mail while an activation works on it.
LEMMA MailOfStays ==
  ASSUME IInv, [Next]_vars, NEW s \in Slots, Busy(s), work'[s].msg = work[s].msg
  PROVE  MailOf(s)' = MailOf(s) /\ MailOf(s) \in Mails
<1>1. work[s].msg \in MsgIds /\ msgState[work[s].msg] # "unsent" /\ MailOf(s) \in Mails
  BY ActivationMail DEF Busy, ActivationOK
<1>2. \/ UNCHANGED msgMail
      \/ \E id \in MsgIds, m \in Mails : Send(id, m)
  BY DEF Next, Operation, vars, queueVars, Progress, Insert, InsertFails, Dispatch,
         DispatchFails, Straggler, ReceiveFails, Expire,
         Receive, Read, Pick, Fire, Accept, AnswerOk,
         AnswerNotOk, AnswerFails, Write, Settle, Throw, Crash, HalfOpen
<1> QED BY <1>1, <1>2 DEF MailOf, Send, IInv, TypeOK

\* Where the answer of an agent comes from.
LEMMA AcceptedOrigin ==
  ASSUME IInv, [Next]_vars, NEW s \in Slots, work'[s].pc = "accepted"
  PROVE  work'[s] = work[s] \/ Accept(s)
<1>1. /\ work[s] \in Activation /\ work \in [Slots -> Activation]
  BY DEF IInv, TypeOK
<1>2. CASE UNCHANGED vars
  BY <1>2 DEF vars
<1>3. ASSUME NEW t \in Slots, Local(t), t # s
      PROVE  work'[s] = work[s]
  BY <1>3, LocalFrame
<1>4. CASE Local(s)
  <2>1. CASE Read(s) \/ Write(s)
    <3>1. work'[s].pc \in {"settle", "pick"}
      BY <1>1, <2>1 DEF Read, Write, Activation
    <3> QED BY <3>1
  <2>4. CASE Pick(s)
    <3>1. work'[s].pc \in {"write", "fire"}
      BY <1>1, <2>4 DEF Pick, GiveUp, Chosen, Activation
    <3> QED BY <3>1
  <2>5. CASE AnswerOk(s)
    <3>1. work'[s].pc = "write"
      BY <1>1, <2>5 DEF AnswerOk, Succeeded, Activation
    <3> QED BY <3>1
  <2>2. CASE Fire(s)
    <3>1. \/ work' = [work EXCEPT ![s] = NotSent(work[s])]
          \/ work' = [work EXCEPT ![s].pc = "sending"]
      BY <2>2 DEF Fire
    <3>2. work'[s].pc \in {"write", "sending"}
      BY <1>1, <3>1, ZenonT(30) DEF NotSent, Activation
    <3> QED BY <3>2
  <2>3. CASE AnswerNotOk(s) \/ AnswerFails(s)
    <3>1. work' = [work EXCEPT ![s] = NotSent(work[s])]
      BY <2>3 DEF AnswerNotOk, AnswerFails
    <3>2. work'[s].pc = "write"
      BY <1>1, <3>1 DEF NotSent, Activation
    <3> QED BY <3>2
  <2> QED BY <1>4, <2>1, <2>2, <2>3, <2>4, <2>5 DEF Local
<1>5. ASSUME NEW t \in Slots, Release(t) PROVE work'[s] = work[s]
  BY <1>1, <1>5, ReleaseFrame DEF Idle
<1>6. ASSUME NEW t \in Slots, Receive(t) PROVE work'[s] = work[s]
  BY <1>1, <1>6 DEF Receive, Started, Idle
<1>7. ASSUME Next, ~ \E t \in Slots : Local(t) \/ Release(t) \/ Receive(t)
      PROVE  work'[s] = work[s]
  BY <1>7, OtherFrame DEF Crash, Idle
<1> QED BY <1>2, <1>3, <1>4, <1>5, <1>6, <1>7

LEMMA AcceptNext ==
  ASSUME IInv, AcceptInv, [Next]_vars
  PROVE  AcceptInv'
<1>0. \A m \in Mails : accepted'[m] \in Nat /\ (accepted[m] > 0 => accepted'[m] > 0)
  BY AcceptedGrows DEF IInv, TypeOK
<1>1. ASSUME NEW s \in Slots, Busy(s), work'[s] = work[s],
             accepted[MailOf(s)] > 0
      PROVE  accepted'[MailOf(s)'] > 0
  BY <1>0, <1>1, MailOfStays
<1>2. ASSUME NEW s \in Slots, work'[s].pc = "accepted"
      PROVE  accepted'[MailOf(s)'] > 0
  <2>1. CASE work'[s] = work[s]
    BY <1>1, <1>2, <2>1 DEF Busy, AcceptInv, AnswersAccepted
  <2>2. CASE Accept(s)
    <3>1. /\ Busy(s) /\ MailOf(s)' = MailOf(s) /\ MailOf(s) \in Mails
      BY <2>2, LocalFrame, ActivationMail DEF Local, Busy
    <3>2. accepted' = [accepted EXCEPT ![MailOf(s)] = @ + 1]
      BY <2>2 DEF Accept
    <3> QED BY <3>1, <3>2 DEF IInv, TypeOK
  <2> QED BY <1>2, <2>1, <2>2, AcceptedOrigin
<1>3. ASSUME NEW s \in Slots, work'[s].pc = "write", work'[s].status.type = "Success"
      PROVE  accepted'[MailOf(s)'] > 0
  <2>1. CASE work[s].pc = "write" /\ work'[s] = work[s]
    BY <1>1, <1>3, <2>1 DEF Busy, AcceptInv, AnswersAccepted
  <2>2. CASE AnswerOk(s)
    <3>1. /\ Busy(s) /\ MailOf(s)' = MailOf(s) /\ MailOf(s) \in Mails
      BY <2>2, LocalFrame, ActivationMail DEF Local, Busy
    <3>2. work[s].pc = "accepted"
      BY <2>2 DEF AnswerOk
    <3> QED BY <1>0, <3>1, <3>2 DEF AcceptInv, AnswersAccepted
  <2>3. CASE work'[s].status = FailStatus
    BY <1>3, <2>3 DEF FailStatus
  <2> QED BY <1>3, <2>1, <2>2, <2>3, WriteOrigin
<1>4. AnswersAccepted'
  BY <1>2, <1>3 DEF AnswersAccepted
<1>5. SuccessMeansAccepted'
  <2> SUFFICES ASSUME NEW m \in Mails, NEW i \in 1..Len(docs'[m]),
                      docs'[m][i].type = "Success"
               PROVE  accepted'[m] > 0
    BY DEF SuccessMeansAccepted
  <2>1. docs'[m][i] # InitStatus
    BY DEF InitStatus
  <2> QED BY <1>0, <2>1, EntryOrigin DEF AcceptInv, AnswersAccepted, SuccessMeansAccepted
<1> QED BY <1>4, <1>5 DEF AcceptInv

\* No mail is marked Success unless an agent accepted it, for any number of
\* workers, agents, messages and failures.
THEOREM SuccessMeansAcceptedHolds == Spec => []SuccessMeansAccepted
<1>1. Init => AcceptInv
  BY DEF Init, AcceptInv, AnswersAccepted, SuccessMeansAccepted, Idle
<1>2. IInv /\ AcceptInv /\ [Next]_vars => AcceptInv'
  BY AcceptNext
<1>3. AcceptInv => SuccessMeansAccepted
  BY DEF AcceptInv
<1> QED BY <1>1, <1>2, <1>3, InvariantIInv, PTL DEF Spec
=============================================================================
