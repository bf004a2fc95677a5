----------------------- MODULE MailDeliveryTimelyProofs -----------------------
(***************************************************************************)
(* Theorems about MailDelivery when a message does not become visible      *)
(* while it is processed (VtCovers).                                       *)
(*                                                                         *)
(* The invariant comes in layers, each proved with the help of the layers  *)
(* before it:                                                              *)
(*   Ownership    a message that is worked on is hidden, and one           *)
(*                activation works on it                                   *)
(*   Bookkeeping  a mail has at most one message, and a document before    *)
(*                it has a message                                         *)
(*   Agreement    what an activation holds agrees with the document of its *)
(*                mail, and only finished mails lose their message         *)
(*   Budget       acceptances are paid for by failures, but for one        *)
(***************************************************************************)
EXTENDS MailDeliveryProofs

-----------------------------------------------------------------------------
(* Ownership *)

HeldHidden ==
  \A s \in Slots : Busy(s) => msgState[work[s].msg] = "hidden"

HoldersDistinct ==
  \A s, t \in Slots : Busy(s) /\ Busy(t) /\ work[s].msg = work[t].msg => s = t

Ownership == HeldHidden /\ HoldersDistinct

LEMMA OwnershipInit == Init => Ownership
  BY DEF Init, Ownership, HeldHidden, HoldersDistinct, Busy, Idle

LEMMA OwnershipNext ==
  ASSUME VtCovers, IInv, IInv', Ownership, [Next]_vars
  PROVE  Ownership'
<1>0. \A s \in Slots : Busy(s) => work[s].msg \in MsgIds
  BY ActivationMail DEF Busy
<1>1. CASE UNCHANGED vars
  BY <1>1 DEF vars, Ownership, HeldHidden, HoldersDistinct, Busy
<1>2. ASSUME NEW s \in Slots, Local(s) PROVE Ownership'
  <2>1. /\ UNCHANGED msgState
        /\ \A t \in Slots : t # s => work'[t] = work[t]
        /\ Busy(s) /\ work'[s].msg = work[s].msg
    BY <1>2, LocalFrame
  <2>2. \A t \in Slots : Busy(t)' => Busy(t) /\ work'[t].msg = work[t].msg
    BY <2>1 DEF Busy
  <2> QED BY <2>1, <2>2 DEF Ownership, HeldHidden, HoldersDistinct
<1>3. ASSUME NEW s \in Slots, Release(s) PROVE Ownership'
  <2>1. /\ work' = [work EXCEPT ![s] = Idle] /\ Busy(s)
        /\ \A id \in MsgIds : id # work[s].msg => msgState'[id] = msgState[id]
    BY <1>3, ReleaseFrame
  <2>2. \A t \in Slots : Busy(t)' => t # s /\ Busy(t) /\ work'[t] = work[t]
    BY <2>1 DEF Busy, Idle, IInv, TypeOK
  <2>3. HoldersDistinct'
    BY <2>2 DEF Ownership, HoldersDistinct
  <2>4. HeldHidden'
    BY <1>0, <2>1, <2>2 DEF Ownership, HoldersDistinct, HeldHidden
  <2> QED BY <2>3, <2>4 DEF Ownership
<1>4. ASSUME NEW s \in Slots, Receive(s) PROVE Ownership'
  <2>1. PICK id \in MsgIds :
          /\ msgState[id] = "visible"
          /\ msgState' = [msgState EXCEPT ![id] = "hidden"]
          /\ work' = [work EXCEPT ![s] = Started(id)]
    BY <1>4 DEF Receive
  <2>2. \A t \in Slots : t # s => work'[t] = work[t]
    BY <2>1 DEF IInv, TypeOK
  <2>3. work'[s].msg = id
    BY <2>1 DEF Started, Idle, IInv, TypeOK
  <2>4. \A t \in Slots : Busy(t) => work[t].msg # id
    BY <2>1 DEF Ownership, HeldHidden
  <2>5. HoldersDistinct'
    BY <2>2, <2>3, <2>4 DEF Ownership, HoldersDistinct, Busy
  <2>6. HeldHidden'
    BY <1>0, <2>1, <2>2, <2>3, <2>4 DEF Ownership, HeldHidden, Busy, IInv, TypeOK
  <2> QED BY <2>5, <2>6 DEF Ownership
<1>5. ASSUME Next, ~ \E s \in Slots : Local(s) \/ Release(s) \/ Receive(s)
      PROVE  Ownership'
  <2>1. /\ work' = work \/ \E p \in Procs : Crash(p)
        /\ \/ msgState' = msgState /\ msgMail' = msgMail
           \/ \E id \in MsgIds, m \in Mails : Send(id, m)
           \/ \E id \in MsgIds : ReceiveFails(id) \/ Expire(id)
    BY <1>5, OtherFrame
  <2>2. \A t \in Slots : Busy(t)' => Busy(t) /\ work'[t] = work[t]
    BY <2>1 DEF Busy, Crash, Idle
  <2>3. HoldersDistinct'
    BY <2>2 DEF Ownership, HoldersDistinct
  <2>4. \A t \in Slots : Busy(t) => msgState'[work[t].msg] = "hidden"
    <3>1. CASE msgState' = msgState
      BY <3>1 DEF Ownership, HeldHidden
    <3>2. ASSUME NEW id \in MsgIds, NEW m \in Mails, Send(id, m)
          PROVE  \A t \in Slots : Busy(t) => msgState'[work[t].msg] = "hidden"
      BY <1>0, <3>2 DEF Send, Ownership, HeldHidden, IInv, TypeOK
    <3>3. ASSUME NEW id \in MsgIds, ReceiveFails(id) \/ Expire(id)
          PROVE  \A t \in Slots : Busy(t) => msgState'[work[t].msg] = "hidden"
      BY <1>0, <3>3 DEF ReceiveFails, Expire, Held,
                        Ownership, HeldHidden, IInv, TypeOK
    <3> QED BY <2>1, <3>1, <3>2, <3>3
  <2> QED BY <2>2, <2>3, <2>4 DEF Ownership, HeldHidden
<1> QED BY <1>1, <1>2, <1>3, <1>4, <1>5

-----------------------------------------------------------------------------
(* Bookkeeping *)

NamedWhenSent == \A id \in MsgIds : msgState[id] = "unsent" <=> msgMail[id] = NoMail

OneMessage ==
  \A i, j \in MsgIds : msgMail[i] = msgMail[j] /\ msgMail[i] # NoMail => i = j

MessageAfterRequest ==
  \A m \in Mails :
    /\ api[m] \in {"new", "inserted", "errored"} => \A id \in MsgIds : msgMail[id] # m
    /\ api[m] = "dispatched" => \E id \in MsgIds : msgMail[id] = m

DocumentBeforeMessage ==
  \A m \in Mails :
    /\ api[m] = "new" => docs[m] = <<>>
    /\ api[m] \in {"inserted", "dispatched", "undispatched"} => docs[m] # <<>>

Bookkeeping ==
  NamedWhenSent /\ OneMessage /\ MessageAfterRequest /\ DocumentBeforeMessage

\* Both updates leave a document with the new entry at its head.
LEMMA DocumentHead ==
  ASSUME NEW doc \in Seq(Status), doc # <<>>, NEW status \in Status
  PROVE  /\ AddMailStatus(doc, status) # <<>>
         /\ Head(AddMailStatus(doc, status)) = status
         /\ UpdateMailStatus(doc, status) # <<>>
         /\ Head(UpdateMailStatus(doc, status)) = status
<1>1. 1 \in 1..Len(doc) /\ Len(doc) # 0
  BY EmptySeq
<1> DEFINE new == <<status>> \o doc
           upd == [doc EXCEPT ![1] = status]
<1>2. new \in Seq(Status) /\ Len(new) = 1 + Len(doc) /\ new[1] = status
  OBVIOUS
<1>3. upd \in Seq(Status) /\ Len(upd) = Len(doc) /\ upd[1] = status
  BY <1>1, ExceptSeq
<1> HIDE DEF new, upd
<1>4. new # <<>> /\ Head(new) = status /\ upd # <<>> /\ Head(upd) = status
  BY <1>1, <1>2, <1>3
<1> QED BY <1>4 DEF new, upd, AddMailStatus, UpdateMailStatus

\* What a write does to the documents.
LEMMA WrittenDocs ==
  ASSUME IInv, NEW s \in Slots, work[s].pc = "write", docs[MailOf(s)] # <<>>
  PROVE  /\ \A m \in Mails : m # MailOf(s) => Written(s)[m] = docs[m]
         /\ Written(s)[MailOf(s)] # <<>>
         /\ Head(Written(s)[MailOf(s)]) = work[s].status
<1>1. /\ MailOf(s) \in Mails /\ docs[MailOf(s)] \in Seq(Status)
      /\ work[s].status \in Status
  BY ActivationMail DEF Activation
<1> DEFINE doc == docs[MailOf(s)]
           new == IF work[s].addNew THEN AddMailStatus(doc, work[s].status)
                                    ELSE UpdateMailStatus(doc, work[s].status)
<1>2. new # <<>> /\ Head(new) = work[s].status
  BY <1>1, DocumentHead
<1>3. Written(s) = [docs EXCEPT ![MailOf(s)] = new]
  BY DEF Written
<1> HIDE DEF new
<1> QED BY <1>1, <1>2, <1>3 DEF IInv, TypeOK

\* The mail of an activation has a document.
LEMMA HeldMailHasDocument ==
  ASSUME IInv, Bookkeeping, NEW s \in Slots, Busy(s)
  PROVE  MailOf(s) \in Mails /\ docs[MailOf(s)] # <<>>
<1>1. MailOf(s) \in Mails /\ work[s].msg \in MsgIds
  BY ActivationMail DEF Busy
<1>2. api[MailOf(s)] \in ApiState /\ api[MailOf(s)] \notin {"new", "inserted", "errored"}
  BY <1>1 DEF Bookkeeping, MessageAfterRequest, MailOf, IInv, TypeOK
<1> QED BY <1>1, <1>2 DEF ApiState, Bookkeeping, DocumentBeforeMessage

LEMMA BookkeepingInit == Init => Bookkeeping
  BY DeliveryAssumption DEF Init, Bookkeeping, NamedWhenSent, OneMessage,
     MessageAfterRequest, DocumentBeforeMessage

LEMMA BookkeepingNext ==
  ASSUME IInv, IInv', Bookkeeping, [Next]_vars
  PROVE  Bookkeeping'
<1>1. ASSUME NEW m \in Mails, Insert(m) \/ InsertFails(m) PROVE Bookkeeping'
  <2>1. NewDocument # <<>>
    BY DEF NewDocument
  <2>2. api[m] = "new" /\ UNCHANGED <<msgState, msgMail>>
    BY <1>1 DEF Insert, InsertFails, queueVars
  <2>3. api' \in {[api EXCEPT ![m] = "inserted"], [api EXCEPT ![m] = "errored"]}
    BY <1>1 DEF Insert, InsertFails
  <2>4. MessageAfterRequest'
    BY <2>2, <2>3, SMTT(30) DEF Bookkeeping, MessageAfterRequest, IInv, TypeOK
  <2>5. DocumentBeforeMessage'
    BY <1>1, <2>1, SMTT(30) DEF Bookkeeping, DocumentBeforeMessage, Insert, InsertFails,
                      IInv, TypeOK
  <2> QED BY <2>2, <2>4, <2>5 DEF Bookkeeping, NamedWhenSent, OneMessage
<1>2. ASSUME NEW m \in Mails, Dispatch(m) \/ DispatchFails(m) PROVE Bookkeeping'
  <2>1. api[m] = "inserted" /\ UNCHANGED docs
    BY <1>2 DEF Dispatch, DispatchFails
  <2>2. DocumentBeforeMessage'
    BY <1>2, <2>1 DEF Bookkeeping, DocumentBeforeMessage, Dispatch,
                      DispatchFails, IInv, TypeOK
  <2>3. CASE UNCHANGED queueVars /\ api' = [api EXCEPT ![m] = "undispatched"]
    BY <2>2, <2>3 DEF queueVars, Bookkeeping, NamedWhenSent, OneMessage,
                      MessageAfterRequest, IInv, TypeOK
  <2>4. ASSUME NEW id \in MsgIds, Send(id, m),
               api' \in {[api EXCEPT ![m] = "dispatched"],
                         [api EXCEPT ![m] = "undispatched"]}
        PROVE  Bookkeeping'
    <3>1. /\ msgState' = [msgState EXCEPT ![id] = "visible"]
          /\ msgMail' = [msgMail EXCEPT ![id] = m] /\ msgState[id] = "unsent"
      BY <2>4 DEF Send
    <3>2. NamedWhenSent'
      BY <3>1, DeliveryAssumption DEF Bookkeeping, NamedWhenSent, IInv, TypeOK
    <3>3. OneMessage'
      BY <2>1, <3>1 DEF Bookkeeping, OneMessage, MessageAfterRequest, IInv, TypeOK
    <3>4. MessageAfterRequest'
      BY <2>4, <3>1, DeliveryAssumption, SMTT(30)
      DEF Bookkeeping, NamedWhenSent, MessageAfterRequest, IInv, TypeOK
    <3> QED BY <2>2, <3>2, <3>3, <3>4 DEF Bookkeeping
  <2> QED BY <1>2, <2>3, <2>4 DEF Dispatch, DispatchFails
<1>3. ASSUME ~ \E m \in Mails : \/ Insert(m) \/ InsertFails(m)
                                \/ Dispatch(m) \/ DispatchFails(m)
      PROVE  Bookkeeping'
  <2>1. UNCHANGED <<api, msgMail>>
    BY <1>3 DEF Next, Operation, vars, Progress, Straggler, ReceiveFails, Expire,
         Receive, Read, Pick, Fire, Accept,
         AnswerOk, AnswerNotOk, AnswerFails, Write, Settle, Throw, Crash,
         HalfOpen, queueVars
  <2>2. \A id \in MsgIds : msgState'[id] = "unsent" <=> msgState[id] = "unsent"
    <3>1. CASE UNCHANGED vars
      BY <3>1 DEF vars
    <3>2. ASSUME NEW s \in Slots, Local(s)
          PROVE  \A id \in MsgIds : msgState'[id] = "unsent" <=> msgState[id] = "unsent"
      BY <3>2, LocalFrame
    <3>3. ASSUME NEW s \in Slots, Receive(s)
          PROVE  \A id \in MsgIds : msgState'[id] = "unsent" <=> msgState[id] = "unsent"
      BY <3>3 DEF Receive, IInv, TypeOK
    <3>4. ASSUME NEW s \in Slots, Release(s)
          PROVE  \A id \in MsgIds : msgState'[id] = "unsent" <=> msgState[id] = "unsent"
      <4>1. work[s].msg \in MsgIds /\ msgState[work[s].msg] # "unsent"
        BY <3>4, ActivationMail, ReleaseFrame DEF Busy, ActivationOK
      <4> QED BY <3>4, <4>1 DEF Release, Settle, Throw, SettledQueue,
                                AfterSettle, IInv, TypeOK
    <3>5. ASSUME NEW id \in MsgIds, ReceiveFails(id) \/ Expire(id)
          PROVE  \A i \in MsgIds : msgState'[i] = "unsent" <=> msgState[i] = "unsent"
      BY <3>5 DEF ReceiveFails, Expire, IInv, TypeOK
    <3>6. ASSUME \/ \E m \in Mails : Straggler(m)
                 \/ \E p \in Procs : Crash(p) \/ \E a \in MTAs : HalfOpen(p, a)
          PROVE  UNCHANGED msgState
      BY <3>6 DEF Straggler, Crash, HalfOpen, queueVars
    <3> QED BY <1>3, <3>1, <3>2, <3>3, <3>4, <3>5, <3>6
            DEF Next, Operation, Progress, Local, Release
  <2>3. DocumentBeforeMessage'
    <3>1. CASE docs' = docs
      BY <2>1, <3>1 DEF Bookkeeping, DocumentBeforeMessage
    <3>2. ASSUME NEW s \in Slots, work[s].pc = "write", docs' = Written(s)
          PROVE  DocumentBeforeMessage'
      <4>1. MailOf(s) \in Mails /\ docs[MailOf(s)] # <<>>
        BY <3>2, HeldMailHasDocument DEF Busy
      <4>2. /\ \A m \in Mails : m # MailOf(s) => docs'[m] = docs[m]
            /\ docs'[MailOf(s)] # <<>>
        BY <3>2, <4>1, WrittenDocs
      <4> QED BY <2>1, <4>1, <4>2 DEF Bookkeeping, DocumentBeforeMessage
    <3> QED BY <1>3, <3>1, <3>2, DocsFrame
  <2> QED BY <2>1, <2>2, <2>3
          DEF Bookkeeping, NamedWhenSent, OneMessage, MessageAfterRequest
<1> QED BY <1>1, <1>2, <1>3

-----------------------------------------------------------------------------
(* Agreement *)

\* Only a finished mail has lost its message.
DeletedSettled ==
  \A id \in MsgIds : msgState[id] = "deleted" => Settled(msgMail[id])

\* The result of an activation with its outcome: a message is deleted for the
\* results Success and Outdated, which go with a final status.
ResultOK(w) ==
  /\ w.result \in {"Retry", "Success", "Outdated"}
  /\ w.result # "Retry" => Terminal(w.status)

AgreementOK(s) ==
  LET w == work[s] IN
  /\ w.pc \in {"pick", "fire", "sending", "accepted", "write"} =>
       ~Settled(MailOf(s))
  /\ w.pc = "write" => ResultOK(w)
  /\ w.pc = "settle" /\ w.result # "Retry" => Settled(MailOf(s))

Agreement == DeletedSettled /\ \A s \in Slots : AgreementOK(s)

\* Two activations have different mails.
SingleHolder ==
  \A s, t \in Slots : Busy(s) /\ Busy(t) /\ MailOf(s) = MailOf(t) => s = t

LEMMA OneHolderPerMail == IInv /\ Ownership /\ Bookkeeping => SingleHolder
<1> SUFFICES ASSUME IInv, Ownership, Bookkeeping PROVE SingleHolder
  OBVIOUS
<1>1. ASSUME NEW s \in Slots, Busy(s)
      PROVE  work[s].msg \in MsgIds /\ msgMail[work[s].msg] # NoMail
  BY <1>1, ActivationMail, DeliveryAssumption DEF Busy, MailOf
<1> QED BY <1>1 DEF SingleHolder, Busy, MailOf, Ownership, HoldersDistinct,
                    Bookkeeping, OneMessage

\* A finished mail's document stays as it is.
LEMMA SettledStays ==
  ASSUME IInv, Bookkeeping, Agreement, [Next]_vars,
         NEW m \in Mails, Settled(m)
  PROVE  docs'[m] = docs[m]
<1>1. CASE docs' = docs
  BY <1>1
<1>2. ASSUME NEW n \in Mails, Insert(n) \/ InsertFails(n),
             docs' = [docs EXCEPT ![n] = NewDocument]
      PROVE  docs'[m] = docs[m]
  <2>1. docs[n] = <<>>
    BY <1>2 DEF Insert, InsertFails, Bookkeeping, DocumentBeforeMessage
  <2> QED BY <1>2, <2>1 DEF Settled, IInv, TypeOK
<1>3. ASSUME NEW s \in Slots, work[s].pc = "write", docs' = Written(s)
      PROVE  docs'[m] = docs[m]
  <2>1. ~Settled(MailOf(s))
    BY <1>3 DEF Agreement, AgreementOK
  <2>2. docs[MailOf(s)] # <<>>
    BY <1>3, HeldMailHasDocument DEF Busy
  <2> QED BY <1>3, <2>1, <2>2, WrittenDocs
<1> QED BY <1>1, <1>2, <1>3, DocsFrame

LEMMA AgreementInit == Init => Agreement
  BY DEF Init, Agreement, AgreementOK, DeletedSettled, Idle

\* A local step of s itself.
LEMMA AgreementLocal ==
  ASSUME IInv, IInv', Bookkeeping, Agreement, NEW s \in Slots, Local(s)
  PROVE  AgreementOK(s)'
<1>1. /\ work[s] \in Activation /\ work' \in [Slots -> Activation]
      /\ work \in [Slots -> Activation]
      /\ MailOf(s) \in Mails /\ docs[MailOf(s)] # <<>> /\ MailOf(s)' = MailOf(s)
  <2>1. Busy(s) /\ MailOf(s)' = MailOf(s)
    BY LocalFrame
  <2> QED BY <2>1, HeldMailHasDocument DEF IInv, TypeOK
<1>2. CASE Read(s)
  BY <1>1, <1>2 DEF Read, AgreementOK, Activation, Settled
<1>3. CASE Pick(s)
  <2>1. UNCHANGED docs
    BY <1>3 DEF Pick
  <2>2. ~Settled(MailOf(s))
    BY <1>3 DEF Pick, Agreement, AgreementOK
  <2>3. work'[s].pc = "fire" \/ (work'[s].pc = "write" /\ ResultOK(work'[s]))
    BY <1>1, <1>3 DEF Pick, GiveUp, Chosen, ResultOK, FailStatus, Terminal, Activation
  <2> QED BY <1>1, <2>1, <2>2, <2>3 DEF AgreementOK, Settled
<1>4. CASE Fire(s) \/ Accept(s) \/ AnswerOk(s) \/ AnswerNotOk(s) \/ AnswerFails(s)
  <2>1. UNCHANGED docs
    BY <1>4 DEF Fire, Accept, AnswerOk, AnswerNotOk, AnswerFails
  <2>2. ~Settled(MailOf(s))
    BY <1>4 DEF Fire, Accept, AnswerOk, AnswerNotOk, AnswerFails, Agreement, AgreementOK
  <2>3. \/ work'[s].pc \in {"sending", "accepted"}
        \/ work'[s].pc = "write" /\ ResultOK(work'[s])
    <3>1. /\ NotSent(work[s]).pc = "write" /\ ResultOK(NotSent(work[s]))
          /\ Succeeded(work[s]).pc = "write" /\ ResultOK(Succeeded(work[s]))
      BY <1>1 DEF NotSent, Succeeded, ResultOK, SuccessStatus, Terminal, Activation
    <3>2. \/ work'[s].pc \in {"sending", "accepted"}
          \/ work'[s] \in {NotSent(work[s]), Succeeded(work[s])}
      BY <1>1, <1>4 DEF Fire, Accept, AnswerOk, AnswerNotOk, AnswerFails, Activation
    <3> QED BY <3>1, <3>2
  <2> QED BY <1>1, <2>1, <2>2, <2>3 DEF AgreementOK, Settled
<1>5. CASE Write(s)
  <2>1. work[s].pc = "write" /\ ResultOK(work[s]) /\ docs' = Written(s)
    BY <1>5 DEF Write, Agreement, AgreementOK
  <2>2. work'[s].pc = "settle" /\ work'[s].result = work[s].result
    BY <1>1, <1>5 DEF Write, Activation
  <2>3. docs'[MailOf(s)] # <<>> /\ Head(docs'[MailOf(s)]) = work[s].status
    BY <1>1, <2>1, WrittenDocs
  <2> QED BY <1>1, <2>1, <2>2, <2>3 DEF AgreementOK, Settled, ResultOK
<1> QED BY <1>2, <1>3, <1>4, <1>5 DEF Local

\* An activation that does not move.
LEMMA AgreementStays ==
  ASSUME Agreement, NEW t \in Slots, UNCHANGED work[t], UNCHANGED MailOf(t),
         Busy(t) => docs'[MailOf(t)] = docs[MailOf(t)]
  PROVE  AgreementOK(t)'
  BY DEF Agreement, AgreementOK, Settled, Busy

\* An activation that has ended.
LEMMA AgreementIdle ==
  ASSUME NEW t \in Slots, ~Busy(t)'
  PROVE  AgreementOK(t)'
  BY DEF AgreementOK, Busy

LEMMA AgreementNext ==
  ASSUME VtCovers, IInv, IInv', Ownership, Bookkeeping, Bookkeeping', Agreement,
         [Next]_vars
  PROVE  Agreement'
<1>0. SingleHolder
  BY OneHolderPerMail
<1>1. ASSUME NEW s \in Slots, Local(s) PROVE Agreement'
  <2>1. /\ UNCHANGED <<msgState, msgMail>> /\ Busy(s)
        /\ \A t \in Slots : MailOf(t)' = MailOf(t) /\ (t # s => work'[t] = work[t])
    BY <1>1, LocalFrame
  <2>2. \A m \in Mails : m # MailOf(s) => docs'[m] = docs[m]
    <3>1. docs' = docs \/ (work[s].pc = "write" /\ docs' = Written(s))
      BY <1>1 DEF Local, Read, Pick, Fire, Accept, Write, AnswerOk, AnswerNotOk,
                  AnswerFails
    <3> QED BY <2>1, <3>1, HeldMailHasDocument, WrittenDocs
  <2>3. ASSUME NEW t \in Slots PROVE AgreementOK(t)'
    <3>1. CASE t = s
      BY <1>1, <3>1, AgreementLocal
    <3>2. CASE t # s
      <4>1. Busy(t) => MailOf(t) \in Mails /\ MailOf(t) # MailOf(s)
        BY <1>0, <2>1, <3>2, HeldMailHasDocument DEF SingleHolder, Busy
      <4> QED BY <2>1, <2>2, <3>2, <4>1, AgreementStays
    <3> QED BY <3>1, <3>2
  <2>4. DeletedSettled'
    <3>1. \A id \in MsgIds : msgState[id] # "unsent" => msgMail[id] \in Mails
      BY DEF IInv, MessagesNamed
    <3> QED BY <2>1, <3>1, SettledStays DEF Agreement, DeletedSettled, Settled
  <2> QED BY <2>3, <2>4 DEF Agreement
<1>2. ASSUME NEW s \in Slots, Release(s) PROVE Agreement'
  <2>1. /\ UNCHANGED msgMail /\ work' = [work EXCEPT ![s] = Idle] /\ Busy(s)
        /\ \A id \in MsgIds : id # work[s].msg => msgState'[id] = msgState[id]
    BY <1>2, ReleaseFrame
  <2>2. \A t \in Slots : IF t = s THEN ~Busy(t)' ELSE work'[t] = work[t]
    BY <2>1 DEF Busy, Idle, IInv, TypeOK
  <2>3. \A m \in Mails : m # MailOf(s) => docs'[m] = docs[m]
    <3>1. docs' = docs \/ (work[s].pc = "write" /\ docs' = Written(s))
      BY <1>2 DEF Release, Settle, Throw
    <3> QED BY <2>1, <3>1, HeldMailHasDocument, WrittenDocs
  <2>4. ASSUME NEW t \in Slots PROVE AgreementOK(t)'
    <3>1. CASE t = s
      BY <2>2, <3>1, AgreementIdle
    <3>2. CASE t # s
      <4>1. Busy(t) => MailOf(t) \in Mails /\ MailOf(t) # MailOf(s)
        BY <1>0, <2>1, <3>2, HeldMailHasDocument DEF SingleHolder, Busy
      <4>2. MailOf(t)' = MailOf(t)
        BY <2>1, <2>2, <3>2 DEF MailOf
      <4> QED BY <2>2, <2>3, <3>2, <4>1, <4>2, AgreementStays
    <3> QED BY <3>1, <3>2
  <2>5. DeletedSettled'
    <3>1. ASSUME NEW id \in MsgIds, msgState'[id] = "deleted"
          PROVE  Settled(msgMail[id])
      <4>1. CASE msgState[id] = "deleted"
        BY <4>1 DEF Agreement, DeletedSettled
      <4>2. CASE msgState[id] # "deleted"
        <5>1. id = work[s].msg /\ work[s].pc = "settle" /\ work[s].result # "Retry"
          BY <1>2, <2>1, <3>1, <4>2 DEF Release, Settle, Throw, SettledQueue,
                                        AfterSettle, IInv, TypeOK
        <5> QED BY <5>1 DEF Agreement, AgreementOK, MailOf
      <4> QED BY <4>1, <4>2
    <3>2. \A id \in MsgIds : msgState'[id] = "deleted" => msgMail[id] \in Mails
      BY <2>1 DEF IInv, MessagesNamed
    <3> QED BY <2>1, <3>1, <3>2, SettledStays DEF DeletedSettled, Settled
  <2> QED BY <2>4, <2>5 DEF Agreement
<1>3. ASSUME NEW s \in Slots, Receive(s) PROVE Agreement'
  <2>1. PICK id \in MsgIds :
          /\ msgState[id] = "visible"
          /\ msgState' = [msgState EXCEPT ![id] = "hidden"]
          /\ work' = [work EXCEPT ![s] = Started(id)]
    BY <1>3 DEF Receive
  <2>2. UNCHANGED <<docs, msgMail>>
    BY <1>3 DEF Receive
  <2>3. AgreementOK(s)'
    BY <2>1 DEF Started, Idle, AgreementOK, IInv, TypeOK
  <2>4. \A t \in Slots : t # s => AgreementOK(t)'
    BY <2>1, <2>2, AgreementStays DEF MailOf, IInv, TypeOK
  <2>5. DeletedSettled'
    BY <2>1, <2>2 DEF Agreement, DeletedSettled, Settled, IInv, TypeOK
  <2> QED BY <2>3, <2>4, <2>5 DEF Agreement
<1>4. ASSUME Next, ~ \E s \in Slots : Local(s) \/ Release(s) \/ Receive(s)
      PROVE  Agreement'
  <2>1. /\ work' = work \/ \E p \in Procs : Crash(p)
        /\ \/ msgState' = msgState /\ msgMail' = msgMail
           \/ \E id \in MsgIds, m \in Mails : Send(id, m)
           \/ \E id \in MsgIds : ReceiveFails(id) \/ Expire(id)
    BY <1>4, OtherFrame
  <2>2. \A t \in Slots : ~Busy(t)' \/ (work'[t] = work[t] /\ Busy(t))
    BY <2>1 DEF Busy, Crash, Idle
  <2>3. \A id \in MsgIds : msgState[id] # "unsent" =>
           /\ msgMail'[id] = msgMail[id] /\ msgMail[id] \in Mails
    BY <2>1 DEF Send, ReceiveFails, Expire, IInv,
                TypeOK, MessagesNamed
  <2>4. \A m \in Mails : docs[m] # <<>> => docs'[m] = docs[m]
    <3>1. ASSUME NEW m \in Mails, Insert(m) \/ InsertFails(m),
                 docs' = [docs EXCEPT ![m] = NewDocument]
          PROVE  \A n \in Mails : docs[n] # <<>> => docs'[n] = docs[n]
      BY <3>1 DEF Insert, InsertFails, Bookkeeping, DocumentBeforeMessage, IInv, TypeOK
    <3> QED BY <1>4, <3>1, DocsFrame DEF Local, Release
  <2>5. ASSUME NEW t \in Slots, Busy(t) PROVE UNCHANGED MailOf(t) \/ ~Busy(t)'
    BY <2>2, <2>3, <2>5, ActivationMail DEF ActivationOK, MailOf, Busy
  <2>6. ASSUME NEW t \in Slots PROVE AgreementOK(t)'
    <3>1. CASE ~Busy(t)'
      BY <3>1, AgreementIdle
    <3>2. CASE Busy(t)'
      <4>1. /\ UNCHANGED work[t] /\ Busy(t) /\ UNCHANGED MailOf(t)
            /\ MailOf(t) \in Mails /\ docs[MailOf(t)] # <<>>
        BY <2>2, <2>5, <3>2, HeldMailHasDocument
      <4> QED BY <2>4, <4>1, AgreementStays
    <3> QED BY <3>1, <3>2
  <2>7. DeletedSettled'
    <3>1. \A id \in MsgIds : msgState'[id] = "deleted" => msgState[id] = "deleted"
      BY <2>1 DEF Send, ReceiveFails, Expire, IInv, TypeOK
    <3> QED BY <2>3, <3>1, SettledStays DEF Agreement, DeletedSettled, Settled
  <2> QED BY <2>6, <2>7 DEF Agreement
<1>5. CASE UNCHANGED vars
  BY <1>5 DEF vars, Agreement, DeletedSettled, AgreementOK, Settled, MailOf
<1> QED BY <1>1, <1>2, <1>3, <1>4, <1>5

-----------------------------------------------------------------------------
(* Budget *)

\* An acceptance that no failure pays for: the mail is finished, or the
\* activation that saw the acceptance is about to finish it.
Unpaid(m) ==
  \/ Settled(m)
  \/ \E s \in Slots : /\ Busy(s) /\ MailOf(s) = m
                      /\ \/ work[s].pc = "accepted"
                         \/ work[s].pc = "write" /\ work[s].result = "Success"

BudgetAt(m) == accepted[m] + wire[m] <= faults[m] + (IF Unpaid(m) THEN 1 ELSE 0)

Budget == \A m \in Mails : BudgetAt(m)

LEMMA BudgetInit == Init => Budget
<1> SUFFICES ASSUME Init, NEW m \in Mails PROVE BudgetAt(m)
  BY DEF Budget
<1>1. accepted[m] = 0 /\ wire[m] = 0 /\ faults[m] = 0
  BY DEF Init
<1> QED BY <1>1 DEF BudgetAt

LEMMA MailNumbers ==
  ASSUME TypeOK, NEW m \in Mails
  PROVE  accepted[m] \in Nat /\ wire[m] \in Nat /\ faults[m] \in Nat
<1>1. faults[m] \in 0..MaxFaults /\ MaxFaults \in Nat
  BY DeliveryAssumption DEF TypeOK
<1> QED BY <1>1 DEF TypeOK

\* The ways in which the account of one mail can move.
LEMMA BudgetStep ==
  ASSUME TypeOK, TypeOK', NEW m \in Mails, BudgetAt(m),
         LET spent == accepted'[m] + wire'[m] - (accepted[m] + wire[m])
             paid  == faults'[m] - faults[m]
         IN \/ spent <= 0 /\ paid >= 0 /\ (Unpaid(m) => Unpaid(m)')
            \/ spent <= 0 /\ paid >= 1
            \/ spent <= 1 /\ ~Unpaid(m) /\ (paid >= 1 \/ (paid >= 0 /\ Unpaid(m)'))
  PROVE  BudgetAt(m)'
<1>1. /\ accepted[m] \in Nat /\ wire[m] \in Nat /\ faults[m] \in Nat
      /\ accepted'[m] \in Nat /\ wire'[m] \in Nat /\ faults'[m] \in Nat
  BY MailNumbers DEF TypeOK
<1> QED BY <1>1 DEF BudgetAt

\* Whether an acceptance of m is unpaid is decided by the document and by the
\* activation that works on m.
LEMMA UnpaidOfHolder ==
  ASSUME SingleHolder, NEW s \in Slots, Busy(s), ~Settled(MailOf(s))
  PROVE  Unpaid(MailOf(s)) <=> \/ work[s].pc = "accepted"
                               \/ work[s].pc = "write" /\ work[s].result = "Success"
  BY DEF Unpaid, SingleHolder, Busy

LEMMA UnpaidStays ==
  ASSUME NEW m \in Mails, docs'[m] = docs[m],
         \A s \in Slots : Busy(s) /\ MailOf(s) = m =>
            UNCHANGED work[s] /\ UNCHANGED MailOf(s)
  PROVE  Unpaid(m) => Unpaid(m)'
  BY DEF Unpaid, Settled, Busy

LEMMA BlameCounts ==
  ASSUME TypeOK, NEW m \in Mails, Blame(m)
  PROVE  /\ faults'[m] = faults[m] + 1
         /\ \A n \in Mails : n # m => faults'[n] = faults[n]
  BY DEF Blame, TypeOK

\* The account of the mail an activation works on.
LEMMA BudgetLocal ==
  ASSUME IInv, IInv', Bookkeeping, Agreement, Agreement',
         SingleHolder, SingleHolder', Budget,
         NEW s \in Slots, Local(s)
  PROVE  BudgetAt(MailOf(s))'
<1> DEFINE m == MailOf(s)
<1>1. /\ Busy(s) /\ Busy(s)' /\ MailOf(s)' = m /\ m \in Mails
      /\ TypeOK /\ TypeOK' /\ SingleHolder /\ SingleHolder' /\ BudgetAt(m)
  <2>1. Busy(s) /\ Busy(s)' /\ MailOf(s)' = m
    BY LocalFrame
  <2> QED BY <2>1, HeldMailHasDocument DEF Budget, IInv
<1>2. /\ accepted[m] \in Nat /\ wire[m] \in Nat /\ faults[m] \in Nat
  BY <1>1, MailNumbers
<1>3. work[s] \in Activation /\ work' \in [Slots -> Activation] /\ work \in [Slots -> Activation]
  BY DEF IInv, TypeOK
<1>4. CASE Read(s) \/ Pick(s) \/ Fire(s)
  <2>1. UNCHANGED <<docs, accepted, wire, faults>>
    BY <1>4 DEF Read, Pick, Fire, providerVars
  <2>2. work[s].pc \in {"read", "pick", "fire"}
    BY <1>4 DEF Read, Pick, Fire
  <2>3. Unpaid(m) => Unpaid(m)'
    BY <1>1, <2>1, <2>2 DEF Unpaid, Settled, SingleHolder, Busy
  <2> QED BY <1>1, <1>2, <2>1, <2>3, BudgetStep
<1>5. CASE Accept(s)
  <2>1. work[s].pc = "sending" /\ ~Settled(m)
    BY <1>5 DEF Accept, Agreement, AgreementOK
  <2>2. ~Unpaid(m)
    BY <1>1, <2>1, UnpaidOfHolder
  <2>3. work'[s].pc = "accepted"
    BY <1>3, <1>5 DEF Accept
  <2>4. Unpaid(m)'
    BY <1>1, <2>3 DEF Unpaid
  <2>5. accepted'[m] = accepted[m] + 1 /\ UNCHANGED <<wire, faults>>
    BY <1>1, <1>5 DEF Accept, IInv, TypeOK
  <2> QED BY <1>1, <1>2, <2>2, <2>4, <2>5, BudgetStep
<1>6. CASE AnswerOk(s)
  <2>1. UNCHANGED <<docs, accepted, wire, faults>>
    BY <1>6 DEF AnswerOk, providerVars
  <2>2. work'[s].pc = "write" /\ work'[s].result = "Success"
    BY <1>3, <1>6 DEF AnswerOk, Succeeded, Activation
  <2>3. Unpaid(m)'
    BY <1>1, <2>2 DEF Unpaid
  <2> QED BY <1>1, <1>2, <2>1, <2>3, BudgetStep
<1>7. CASE AnswerNotOk(s) \/ AnswerFails(s)
  <2>1. faults'[m] = faults[m] + 1 /\ UNCHANGED <<docs, accepted>>
    BY <1>1, <1>7, BlameCounts DEF AnswerNotOk, AnswerFails, providerVars
  <2>2. \/ wire' = wire
        \/ work[s].pc = "sending" /\ wire'[m] = wire[m] + 1
    BY <1>1, <1>7 DEF AnswerNotOk, AnswerFails, providerVars, IInv, TypeOK
  <2>3. work[s].pc = "sending" => ~Unpaid(m)
    <3>1. work[s].pc = "sending" => ~Settled(m)
      BY DEF Agreement, AgreementOK
    <3> QED BY <1>1, <3>1, UnpaidOfHolder
  <2> QED BY <1>1, <1>2, <2>1, <2>2, <2>3, BudgetStep
<1>8. CASE Write(s)
  <2>1. UNCHANGED <<accepted, wire, faults>>
    BY <1>8 DEF Write, providerVars
  <2>2. work'[s].pc = "settle" /\ work'[s].result = work[s].result
    BY <1>3, <1>8 DEF Write, Activation
  <2>3. work[s].pc = "write" /\ ~Settled(m)
    BY <1>8 DEF Write, Agreement, AgreementOK
  <2>4. Unpaid(m) => work[s].result = "Success"
    BY <1>1, <2>3, UnpaidOfHolder
  <2>5. work[s].result = "Success" => Settled(m)'
    BY <1>1, <2>2 DEF Agreement, AgreementOK, Settled
  <2>6. Unpaid(m) => Unpaid(m)'
    BY <2>4, <2>5 DEF Unpaid
  <2> QED BY <1>1, <1>2, <2>1, <2>6, BudgetStep
<1> QED BY <1>4, <1>5, <1>6, <1>7, <1>8 DEF Local

LEMMA BudgetNext ==
  ASSUME VtCovers, IInv, IInv', Ownership, Bookkeeping, Agreement, Agreement',
         SingleHolder, SingleHolder', Budget, [Next]_vars
  PROVE  Budget'
<1> USE DEF IInv
<1>0. /\ \A m \in Mails : /\ BudgetAt(m)
                          /\ accepted[m] \in Nat /\ wire[m] \in Nat /\ faults[m] \in Nat
      /\ \A s \in Slots : Busy(s) => MailOf(s) \in Mails /\ docs[MailOf(s)] # <<>>
  BY MailNumbers, HeldMailHasDocument DEF Budget
<1>1. ASSUME NEW s \in Slots, Local(s) PROVE Budget'
  <2>1. /\ Busy(s) /\ \A t \in Slots : MailOf(t)' = MailOf(t)
        /\ \A t \in Slots : t # s => work'[t] = work[t]
    BY <1>1, LocalFrame
  <2>2. ASSUME NEW m \in Mails, m # MailOf(s) PROVE BudgetAt(m)'
    <3>1. docs'[m] = docs[m]
      <4>1. docs' = docs \/ (work[s].pc = "write" /\ docs' = Written(s))
        BY <1>1 DEF Local, Read, Pick, Fire, Accept, Write, AnswerOk, AnswerNotOk,
                    AnswerFails
      <4> QED BY <1>0, <2>1, <2>2, <4>1, WrittenDocs
    <3>2. Unpaid(m) => Unpaid(m)'
      BY <2>1, <2>2, <3>1, UnpaidStays
    <3>3. accepted'[m] = accepted[m] /\ wire'[m] = wire[m] /\ faults'[m] = faults[m]
      BY <1>1, <2>2 DEF Local, Read, Pick, Fire, Accept, Write, AnswerOk,
                        AnswerNotOk, AnswerFails, Blame, providerVars, TypeOK
    <3> QED BY <1>0, <3>2, <3>3, BudgetStep
  <2>3. BudgetAt(MailOf(s))'
    BY <1>1, BudgetLocal
  <2> QED BY <2>1, <2>2, <2>3 DEF Budget
<1>2. ASSUME NEW s \in Slots, Settle(s) PROVE Budget'
  <2>1. UNCHANGED <<docs, msgMail, accepted, wire, faults>>
    BY <1>2 DEF Settle, providerVars
  <2>2. /\ work[s].pc = "settle" /\ \A t \in Slots : t # s => work'[t] = work[t]
    BY <1>2 DEF Settle, TypeOK
  <2>3. ASSUME NEW m \in Mails PROVE Unpaid(m) => Unpaid(m)'
    BY <2>1, <2>2 DEF Unpaid, Settled, Busy, MailOf
  <2> QED BY <1>0, <2>1, <2>3, BudgetStep DEF Budget
<1>3. ASSUME NEW s \in Slots, Throw(s) PROVE Budget'
  <2>1. UNCHANGED <<msgMail, accepted, wire>> /\ Busy(s) /\ Blame(MailOf(s))
    BY <1>3 DEF Throw, providerVars, Busy
  <2>2. \A t \in Slots : t # s => work'[t] = work[t]
    BY <1>3 DEF Throw, TypeOK
  <2>3. ASSUME NEW m \in Mails, m # MailOf(s) PROVE Unpaid(m) => Unpaid(m)'
    <3>1. docs' = docs \/ (work[s].pc = "write" /\ docs' = Written(s))
      BY <1>3 DEF Throw
    <3>2. docs'[m] = docs[m]
      BY <1>0, <2>1, <2>3, <3>1, WrittenDocs
    <3> QED BY <2>1, <2>2, <2>3, <3>2, UnpaidStays DEF MailOf
  <2>4. ASSUME NEW m \in Mails PROVE BudgetAt(m)'
    <3>1. CASE m = MailOf(s)
      BY <1>0, <2>1, <3>1, BlameCounts, BudgetStep
    <3>2. CASE m # MailOf(s)
      <4>1. faults'[m] = faults[m]
        BY <1>0, <2>1, <3>2, BlameCounts
      <4> QED BY <1>0, <2>1, <2>3, <3>2, <4>1, BudgetStep
    <3> QED BY <3>1, <3>2
  <2> QED BY <2>4 DEF Budget
<1>4. ASSUME NEW s \in Slots, Receive(s) PROVE Budget'
  <2>1. UNCHANGED <<docs, msgMail, accepted, wire, faults>> /\ ~Busy(s)
    BY <1>4 DEF Receive, providerVars, Busy
  <2>2. \A t \in Slots : t # s => work'[t] = work[t]
    BY <1>4 DEF Receive, TypeOK
  <2>3. ASSUME NEW m \in Mails PROVE Unpaid(m) => Unpaid(m)'
    BY <2>1, <2>2, UnpaidStays DEF MailOf
  <2> QED BY <1>0, <2>1, <2>3, BudgetStep DEF Budget
<1>5. ASSUME NEW p \in Procs, Crash(p) PROVE Budget'
  <2> DEFINE gone == {s \in Slots : ProcOf[s] = p /\ work[s].pc # "idle"}
             hit(m) == \E s \in gone : MailOf(s) = m
  <2>1. UNCHANGED <<docs, msgMail, accepted>>
    BY <1>5 DEF Crash, queueVars
  <2>2. PICK out \in SUBSET {s \in gone : work[s].pc = "sending"} :
          wire' = [m \in Mails |->
                     wire[m] + Cardinality({s \in out : MailOf(s) = m})]
    BY <1>5 DEF Crash
  <2>3. ASSUME NEW m \in Mails
        PROVE  /\ faults'[m] \in Nat /\ faults'[m] >= faults[m]
               /\ hit(m) => faults'[m] >= faults[m] + 1
    <3>1. faults'[m] \in Nat /\ faults'[m] >= faults[m] /\ (hit(m) => faults'[m] > faults[m])
      BY <1>5, CrashFaults, DeliveryAssumption
    <3> QED BY <1>0, <3>1
  <2>4. \A s \in Slots : s \notin gone => ~Busy(s) \/ work'[s] = work[s]
    BY <1>5 DEF Crash, Busy
  <2> HIDE DEF hit
  <2>5. ASSUME NEW m \in Mails PROVE BudgetAt(m)'
    <3> DEFINE lost == {s \in out : MailOf(s) = m}
    <3>0. wire'[m] = wire[m] + Cardinality(lost)
      BY <2>2
    <3>1. CASE lost = {}
      <4>1. wire'[m] = wire[m]
        <5>1. Cardinality(lost) = 0
          BY <3>1, FS_EmptySet
        <5> HIDE DEF lost
        <5> QED BY <1>0, <3>0, <5>1
      <4>2. CASE hit(m)
        BY <1>0, <2>1, <2>3, <4>1, <4>2, BudgetStep
      <4>3. CASE ~hit(m)
        <5>1. Unpaid(m) => Unpaid(m)'
          BY <2>1, <2>4, <4>3, UnpaidStays DEF MailOf, hit
        <5> QED BY <1>0, <2>1, <2>3, <4>1, <4>3, <5>1, BudgetStep
      <4> QED BY <4>2, <4>3
    <3>2. CASE lost # {}
      <4>1. PICK s \in gone : MailOf(s) = m /\ work[s].pc = "sending" /\ s \in lost
        BY <3>2
      <4>2. Busy(s) /\ s \in Slots
        BY <4>1 DEF Busy
      <4>3. lost = {s}
        BY <4>1, <4>2 DEF SingleHolder, Busy
      <4>4. wire'[m] = wire[m] + 1
        BY <3>0, <4>3, FS_Singleton
      <4>5. ~Settled(m)
        BY <4>1, <4>2 DEF Agreement, AgreementOK
      <4>6. ~Unpaid(m)
        BY <4>1, <4>2, <4>5, UnpaidOfHolder
      <4>7. hit(m)
        BY <4>1 DEF hit
      <4> QED BY <1>0, <2>1, <2>3, <4>4, <4>6, <4>7, BudgetStep
    <3> QED BY <3>1, <3>2
  <2> QED BY <2>5 DEF Budget
<1>6. ASSUME NEW m \in Mails, Straggler(m) PROVE Budget'
  <2>1. UNCHANGED <<docs, msgMail, work, faults>>
    BY <1>6 DEF Straggler, queueVars
  <2>2. ASSUME NEW n \in Mails PROVE accepted'[n] + wire'[n] <= accepted[n] + wire[n]
    BY <1>0, <1>6, SMTT(30) DEF Straggler, TypeOK
  <2>3. ASSUME NEW n \in Mails PROVE Unpaid(n) => Unpaid(n)'
    BY <2>1, UnpaidStays DEF MailOf
  <2>4. ASSUME NEW n \in Mails PROVE BudgetAt(n)'
    <3>1. accepted'[n] \in Nat /\ wire'[n] \in Nat
      BY MailNumbers DEF TypeOK
    <3> QED BY <1>0, <2>1, <2>2, <2>3, <3>1, BudgetStep
  <2> QED BY <2>4 DEF Budget
<1>7. ASSUME Next, ~ \E s \in Slots : Local(s) \/ Release(s) \/ Receive(s),
             ~ \E p \in Procs : Crash(p), ~ \E m \in Mails : Straggler(m)
      PROVE  Budget'
  <2>1. UNCHANGED <<work, accepted, wire>>
    BY <1>7 DEF Next, Operation, Progress, Local, Release, Insert, InsertFails, Dispatch,
         DispatchFails, ReceiveFails, Expire,
         HalfOpen, providerVars
  <2>2. ASSUME NEW m \in Mails PROVE faults'[m] >= faults[m]
    <3>1. UNCHANGED faults \/ \E id \in MsgIds : Blame(msgMail[id])
      BY <1>7, SMTT(30) DEF Next, Operation, Progress, Local, Release, Insert, InsertFails,
         Dispatch, DispatchFails, ReceiveFails, Expire, HalfOpen
    <3> QED BY <1>0, <3>1, SMTT(30) DEF Blame, TypeOK
  <2>3. \A s \in Slots : Busy(s) => UNCHANGED MailOf(s)
    <3>1. \/ msgMail' = msgMail
          \/ \E id \in MsgIds, m \in Mails : Send(id, m)
      BY <1>7, OtherFrame DEF ReceiveFails, Expire
    <3>2. \A s \in Slots : Busy(s) => work[s].msg \in MsgIds /\ msgState[work[s].msg] # "unsent"
      BY ActivationMail DEF ActivationOK, Busy
    <3> QED BY <2>1, <3>1, <3>2 DEF Send, MailOf, TypeOK
  <2>4. ASSUME NEW m \in Mails, Unpaid(m) PROVE Unpaid(m)'
    <3>1. docs[m] # <<>>
      BY <1>0, <2>4 DEF Unpaid, Settled
    <3>2. docs'[m] = docs[m]
      <4>1. ASSUME NEW n \in Mails, Insert(n) \/ InsertFails(n),
                   docs' = [docs EXCEPT ![n] = NewDocument]
            PROVE  docs'[m] = docs[m]
        BY <3>1, <4>1 DEF Insert, InsertFails, Bookkeeping, DocumentBeforeMessage, TypeOK
      <4> QED BY <1>7, <4>1, DocsFrame DEF Local, Release
    <3> QED BY <2>1, <2>3, <2>4, <3>2, UnpaidStays
  <2>5. ASSUME NEW m \in Mails PROVE BudgetAt(m)'
    <3>1. faults'[m] \in Nat
      BY MailNumbers DEF TypeOK
    <3> QED BY <1>0, <2>1, <2>2, <2>4, <3>1, BudgetStep
  <2> QED BY <2>5 DEF Budget
<1>8. CASE UNCHANGED vars
  <2>1. \A m \in Mails : Unpaid(m) => Unpaid(m)'
    BY <1>8, UnpaidStays DEF vars, MailOf
  <2> QED BY <1>0, <1>8, <2>1, BudgetStep DEF vars, Budget
<1> QED BY <1>1, <1>2, <1>3, <1>4, <1>5, <1>6, <1>7, <1>8 DEF Release

-----------------------------------------------------------------------------
TInv == IInv /\ Ownership /\ Bookkeeping /\ Agreement /\ Budget

LEMMA InvariantTInv ==
  ASSUME VtCovers
  PROVE  Spec => []TInv
<1>1. Init => TInv
  BY InitIInv, OwnershipInit, BookkeepingInit, AgreementInit, BudgetInit DEF TInv
<1>2. TInv /\ [Next]_vars => TInv'
  <2> SUFFICES ASSUME TInv, [Next]_vars PROVE TInv'
    OBVIOUS
  <2>1. IInv'
    BY NextIInv DEF TInv
  <2>2. Ownership'
    BY <2>1, OwnershipNext DEF TInv
  <2>3. Bookkeeping'
    BY <2>1, BookkeepingNext DEF TInv
  <2>4. Agreement'
    BY <2>1, <2>3, AgreementNext DEF TInv
  <2>5. SingleHolder
    BY OneHolderPerMail DEF TInv
  <2>6. SingleHolder'
    BY <2>1, <2>2, <2>3, OneHolderPerMail, PTL
  <2>7. Budget'
    BY <2>1, <2>4, <2>5, <2>6, BudgetNext DEF TInv
  <2> QED BY <2>1, <2>2, <2>3, <2>4, <2>7 DEF TInv
<1> QED BY <1>1, <1>2, PTL DEF Spec

\* While a message cannot come back early, a dispatched mail that is not
\* finished keeps a message in the queue.
THEOREM PendingHasMessageHolds ==
  ASSUME VtCovers
  PROVE  Spec => []PendingHasMessage
<1>1. TInv => PendingHasMessage
  <2> SUFFICES ASSUME TInv, NEW m \in Mails, api[m] = "dispatched", ~Settled(m)
               PROVE  \E id \in MsgIds : /\ msgMail[id] = m
                                         /\ msgState[id] \in {"visible", "hidden"}
    BY DEF PendingHasMessage
  <2>1. PICK id \in MsgIds : msgMail[id] = m
    BY DEF TInv, Bookkeeping, MessageAfterRequest
  <2>2. msgState[id] \in MsgState /\ msgState[id] # "deleted"
    BY <2>1 DEF TInv, IInv, TypeOK, Agreement, DeletedSettled
  <2>3. msgState[id] # "unsent"
    BY <2>1, DeliveryAssumption DEF TInv, Bookkeeping, NamedWhenSent
  <2> QED BY <2>1, <2>2, <2>3 DEF MsgState
<1> QED BY <1>1, InvariantTInv, PTL

\* Under the same assumption, Success and Fail are final.
THEOREM TerminalIsFinalHolds ==
  ASSUME VtCovers
  PROVE  Spec => TerminalIsFinal
<1>1. TInv /\ [Next]_vars => [\A m \in Mails : Settled(m) => docs'[m] = docs[m]]_docs
  BY SettledStays DEF TInv
<1> QED BY <1>1, InvariantTInv, PTL DEF Spec, TerminalIsFinal

\* Under the same assumption, an agent gets at most one copy of a mail more
\* than there were failures.
THEOREM DuplicatesNeedFaultsHolds ==
  ASSUME VtCovers
  PROVE  Spec => []DuplicatesNeedFaults
<1>1. TInv => DuplicatesNeedFaults
  BY MailNumbers DEF TInv, IInv, Budget, BudgetAt, DuplicatesNeedFaults
<1> QED BY <1>1, InvariantTInv, PTL

-----------------------------------------------------------------------------
(* MailDelivery implements MailLifecycle and MessageLease *)

\* A mail that is finished, or has a request on its way, was queued.
QueuedBefore == \A m \in Mails : Settled(m) \/ wire[m] > 0 => Queued(m)

RInv == TInv /\ AcceptInv /\ QueuedBefore

LEMMA QueuedStays ==
  ASSUME IInv, Bookkeeping, [Next]_vars, NEW m \in Mails
  PROVE  Queued(m) => Queued(m)'
<1>1. \/ UNCHANGED msgMail
      \/ \E id \in MsgIds, n \in Mails : Send(id, n)
  BY DEF Next, Operation, vars, queueVars, Progress, Insert, InsertFails, Dispatch,
         DispatchFails, Straggler, ReceiveFails, Expire,
         Receive, Read, Pick, Fire, Accept, AnswerOk,
         AnswerNotOk, AnswerFails, Write, Settle, Throw, Crash, HalfOpen
<1>2. \A id \in MsgIds : msgState[id] = "unsent" => msgMail[id] # m
  BY DeliveryAssumption DEF Bookkeeping, NamedWhenSent
<1> QED BY <1>1, <1>2 DEF Queued, Send, IInv, TypeOK

\* The mail of an activation has a message and a document.
LEMMA HolderQueued ==
  ASSUME IInv, Bookkeeping, NEW s \in Slots, Busy(s)
  PROVE  MailOf(s) \in Mails /\ Queued(MailOf(s)) /\ docs[MailOf(s)] # <<>>
  BY ActivationMail, HeldMailHasDocument DEF Busy, Queued, MailOf

\* How wire changes.
LEMMA WireFrame ==
  ASSUME IInv, [Next]_vars, NEW m \in Mails, wire'[m] > 0
  PROVE  wire[m] > 0 \/ \E s \in Slots : Busy(s) /\ MailOf(s) = m
<1>1. wire \in [Mails -> Nat]
  BY DEF IInv, TypeOK
<1>2. ASSUME NEW s \in Slots, AnswerFails(s)
      PROVE  wire[m] > 0 \/ \E t \in Slots : Busy(t) /\ MailOf(t) = m
  <2>1. Busy(s) /\ (wire' = wire \/ wire' = [wire EXCEPT ![MailOf(s)] = @ + 1])
    BY <1>2 DEF AnswerFails, Busy
  <2> QED BY <1>1, <2>1
<1>3. ASSUME NEW n \in Mails, Straggler(n) PROVE wire[m] > 0
  BY <1>1, <1>3 DEF Straggler
<1>4. ASSUME NEW p \in Procs, Crash(p)
      PROVE  wire[m] > 0 \/ \E t \in Slots : Busy(t) /\ MailOf(t) = m
  <2>1. PICK out \in SUBSET {s \in Slots : Busy(s)} :
          wire'[m] = wire[m] + Cardinality({s \in out : MailOf(s) = m})
    BY <1>4 DEF Crash, Busy
  <2>2. CASE {s \in out : MailOf(s) = m} = {}
    BY <1>1, <2>1, <2>2, FS_EmptySet
  <2>3. CASE {s \in out : MailOf(s) = m} # {}
    BY <2>3
  <2> QED BY <2>2, <2>3
<1>5. \/ UNCHANGED wire
      \/ \E s \in Slots : AnswerFails(s)
      \/ \E n \in Mails : Straggler(n)
      \/ \E p \in Procs : Crash(p)
  BY DEF Next, Operation, vars, providerVars, Progress, Insert, InsertFails, Dispatch,
         DispatchFails, ReceiveFails, Expire,
         Receive, Read, Pick, Fire, Accept, AnswerOk, AnswerNotOk, Write,
         Settle, Throw, HalfOpen
<1> QED BY <1>2, <1>3, <1>4, <1>5

LEMMA QueuedBeforeNext ==
  ASSUME IInv, Bookkeeping, QueuedBefore, [Next]_vars
  PROVE  QueuedBefore'
<1> SUFFICES ASSUME NEW m \in Mails, Settled(m)' \/ wire'[m] > 0
             PROVE  Queued(m)'
  BY DEF QueuedBefore
<1>1. CASE Queued(m)
  BY <1>1, QueuedStays
<1>2. CASE wire'[m] > 0
  BY <1>1, <1>2, WireFrame, HolderQueued DEF QueuedBefore
<1>3. CASE Settled(m)'
  <2>1. CASE docs'[m] = docs[m]
    BY <1>1, <1>3, <2>1 DEF Settled, QueuedBefore
  <2>2. ASSUME NEW n \in Mails, docs' = [docs EXCEPT ![n] = NewDocument], n = m
        PROVE  FALSE
    <3>1. docs'[m] = NewDocument
      BY <2>2 DEF IInv, TypeOK
    <3> QED BY <1>3, <3>1 DEF NewDocument, Settled, Terminal, InitStatus
  <2>3. ASSUME NEW s \in Slots, work[s].pc = "write", docs' = Written(s), MailOf(s) = m
        PROVE  Queued(m)
    BY <2>3, HolderQueued DEF Busy
  <2>4. docs'[m] # docs[m] =>
          \/ \E n \in Mails : docs' = [docs EXCEPT ![n] = NewDocument] /\ n = m
          \/ \E s \in Slots : /\ work[s].pc = "write" /\ docs' = Written(s)
                              /\ MailOf(s) = m
    <3>1. ASSUME docs' # docs
          PROVE  \/ \E n \in Mails : docs' = [docs EXCEPT ![n] = NewDocument]
                 \/ \E s \in Slots : work[s].pc = "write" /\ docs' = Written(s)
      BY <3>1, DocsFrame
    <3> QED BY <3>1 DEF Written, IInv, TypeOK
  <2> QED BY <1>1, <2>1, <2>2, <2>3, <2>4
<1> QED BY <1>2, <1>3

LEMMA InvariantRInv ==
  ASSUME VtCovers
  PROVE  Spec => []RInv
<1>1. Init => AcceptInv /\ QueuedBefore
  BY DEF Init, AcceptInv, AnswersAccepted, SuccessMeansAccepted, Idle,
         QueuedBefore, Settled
<1>2. TInv /\ TInv' /\ AcceptInv /\ QueuedBefore /\ [Next]_vars
        => (AcceptInv /\ QueuedBefore)'
  BY AcceptNext, QueuedBeforeNext DEF TInv
<1> QED BY <1>1, <1>2, InvariantTInv, PTL DEF Spec, RInv

-----------------------------------------------------------------------------
(* The refinement *)

phaseBar == [m \in Mails |-> PhaseOf(m)]

\* What the phase of a mail is.
LEMMA PhaseValue ==
  ASSUME NEW m \in Mails
  PROVE  /\ docs[m] = <<>> => PhaseOf(m) = "new"
         /\ docs[m] # <<>> =>
              /\ Head(docs[m]).type = "Success" => PhaseOf(m) = "delivered"
              /\ Head(docs[m]).type = "Fail" => PhaseOf(m) = "failed"
              /\ ~Settled(m) /\ Queued(m) => PhaseOf(m) = "queued"
              /\ ~Settled(m) /\ ~Queued(m) => PhaseOf(m) = "stored"
<1>1. CASE docs[m] = <<>>
  BY <1>1 DEF PhaseOf
<1>2. CASE docs[m] # <<>> /\ Head(docs[m]).type = "Success"
  BY <1>2 DEF PhaseOf, Settled, Terminal
<1>3. CASE docs[m] # <<>> /\ Head(docs[m]).type = "Fail"
  BY <1>3 DEF PhaseOf, Settled, Terminal
<1>4. CASE docs[m] # <<>> /\ ~Settled(m)
  <2>1. Head(docs[m]).type # "Success" /\ Head(docs[m]).type # "Fail"
    BY <1>4 DEF Settled, Terminal
  <2> QED BY <1>4, <2>1 DEF PhaseOf
<1> QED BY <1>1, <1>2, <1>3, <1>4 DEF Settled, Terminal

\* The phase of a mail moves only with its document and its message.
LEMMA PhaseStays ==
  ASSUME NEW m \in Mails, docs'[m] = docs[m], Queued(m)' <=> Queued(m)
  PROVE  PhaseOf(m)' = PhaseOf(m)
  BY DEF PhaseOf, Settled

\* An acceptance concerns a mail that was queued, and nothing else changes.
LEMMA AcceptedFrame ==
  ASSUME IInv, Bookkeeping, QueuedBefore, [Next]_vars, accepted' # accepted
  PROVE  /\ UNCHANGED <<docs, msgMail>>
         /\ \E m \in Mails : /\ accepted' = [accepted EXCEPT ![m] = @ + 1]
                             /\ Queued(m)
<1>1. ASSUME NEW s \in Slots, Accept(s)
      PROVE  /\ UNCHANGED <<docs, msgMail>>
             /\ \E m \in Mails : /\ accepted' = [accepted EXCEPT ![m] = @ + 1]
                                 /\ Queued(m)
  <2>1. Busy(s) /\ UNCHANGED <<docs, msgMail>>
        /\ accepted' = [accepted EXCEPT ![MailOf(s)] = @ + 1]
    BY <1>1 DEF Accept, Busy, queueVars
  <2> QED BY <2>1, HolderQueued
<1>2. ASSUME NEW m \in Mails, Straggler(m)
      PROVE  /\ UNCHANGED <<docs, msgMail>>
             /\ accepted' = [accepted EXCEPT ![m] = @ + 1] /\ Queued(m)
  BY <1>2 DEF Straggler, queueVars, QueuedBefore
<1>3. \/ \E s \in Slots : Accept(s)
      \/ \E m \in Mails : Straggler(m)
  BY DEF Next, Operation, vars, providerVars, Progress, Insert, InsertFails, Dispatch,
         DispatchFails, ReceiveFails, Expire,
         Receive, Read, Pick, Fire, AnswerOk, AnswerNotOk, AnswerFails, Write,
         Settle, Throw, Crash, HalfOpen
<1> QED BY <1>1, <1>2, <1>3

\* A new message names a mail whose request has stored it.
LEMMA MessageFrame ==
  ASSUME [Next]_vars, msgMail' # msgMail
  PROVE  /\ UNCHANGED <<docs, accepted>>
         /\ \E id \in MsgIds, m \in Mails : Send(id, m) /\ api[m] = "inserted"
  BY DEF Next, Operation, vars, queueVars, providerVars, Progress, Insert, InsertFails,
         Dispatch, DispatchFails, Straggler, ReceiveFails, Expire,
         Receive, Read, Pick, Fire, Accept, AnswerOk,
         AnswerNotOk, AnswerFails, Write, Settle, Throw, Crash, HalfOpen

\* A document changes alone.
LEMMA DocumentFrame ==
  ASSUME [Next]_vars, docs' # docs
  PROVE  UNCHANGED <<msgMail, accepted>>
  BY DEF Next, Operation, vars, queueVars, providerVars, Progress, Insert, InsertFails,
         Dispatch, DispatchFails, Straggler, ReceiveFails, Expire,
         Receive, Read, Pick, Fire, Accept, AnswerOk,
         AnswerNotOk, AnswerFails, Write, Settle, Throw, Crash, HalfOpen

\* Mails whose phase does not move in a step that moves only m's.
LEMMA PhaseMoves ==
  ASSUME NEW m \in Mails, NEW to,
         \A n \in Mails : n # m => PhaseOf(n)' = PhaseOf(n),
         PhaseOf(m)' = to
  PROVE  phaseBar' = [phaseBar EXCEPT ![m] = to]
  BY DEF phaseBar

LEMMA LifecycleStep ==
  ASSUME RInv, RInv', [Next]_vars
  PROVE  [Lifecycle!LNext]_<<phaseBar, accepted>>
<1>0. /\ IInv /\ IInv' /\ Bookkeeping /\ Agreement /\ AcceptInv /\ QueuedBefore
      /\ Budget'
  BY DEF RInv, TInv
<1>1. CASE accepted' # accepted
  <2>1. UNCHANGED <<docs, msgMail>>
    BY <1>0, <1>1, AcceptedFrame
  <2>2. PICK m \in Mails : accepted' = [accepted EXCEPT ![m] = @ + 1] /\ Queued(m)
    BY <1>0, <1>1, AcceptedFrame
  <2>3. phaseBar' = phaseBar
    BY <2>1, PhaseStays DEF phaseBar, Queued
  <2>4. docs[m] # <<>>
    <3>1. PICK id \in MsgIds : msgMail[id] = m
      BY <2>2 DEF Queued
    <3>2. api[m] \in ApiState /\ api[m] \notin {"new", "inserted", "errored"}
      BY <1>0, <3>1 DEF IInv, TypeOK, Bookkeeping, MessageAfterRequest
    <3> QED BY <1>0, <3>2 DEF ApiState, Bookkeeping, DocumentBeforeMessage
  <2>5. PhaseOf(m) \in {"queued", "delivered", "failed"}
    BY <2>2, <2>4, PhaseValue DEF Settled, Terminal
  <2>6. accepted[m] < 1 + MaxFaults
    <3>1. /\ BudgetAt(m)' /\ accepted[m] \in Nat /\ accepted'[m] \in Nat
          /\ wire'[m] \in Nat /\ faults'[m] \in 0..MaxFaults
      BY <1>0, MailNumbers DEF IInv, TypeOK, Budget
    <3>2. accepted'[m] = accepted[m] + 1
      BY <1>0, <2>2 DEF IInv, TypeOK
    <3> QED BY <3>1, <3>2, DeliveryAssumption DEF BudgetAt
  <2>7. Lifecycle!Deliver(m)
    BY <2>2, <2>3, <2>5, <2>6 DEF Lifecycle!Deliver, phaseBar
  <2> QED BY <2>7 DEF Lifecycle!LNext
<1>2. CASE msgMail' # msgMail
  <2>1. UNCHANGED <<docs, accepted>>
    BY <1>2, MessageFrame
  <2>2. PICK id \in MsgIds, m \in Mails : Send(id, m) /\ api[m] = "inserted"
    BY <1>2, MessageFrame
  <2>3. msgMail' = [msgMail EXCEPT ![id] = m] /\ msgState[id] = "unsent"
    BY <2>2 DEF Send
  <2>4. /\ \A i \in MsgIds : msgMail[i] # m
        /\ docs[m] # <<>> /\ msgMail[id] \notin Mails
    BY <1>0, <2>2, <2>3, DeliveryAssumption DEF Bookkeeping, MessageAfterRequest,
       DocumentBeforeMessage, NamedWhenSent
  <2>5. ~Queued(m) /\ Queued(m)'
    BY <1>0, <2>3, <2>4 DEF Queued, IInv, TypeOK
  <2>6. ~Settled(m) /\ ~Settled(m)'
    BY <1>0, <2>1, <2>5 DEF QueuedBefore, Settled
  <2>7. ASSUME NEW n \in Mails, n # m PROVE PhaseOf(n)' = PhaseOf(n)
    <3>1. Queued(n)' <=> Queued(n)
      BY <1>0, <2>3, <2>4, <2>7 DEF Queued, IInv, TypeOK
    <3> QED BY <2>1, <3>1, PhaseStays
  <2>8. PhaseOf(m) = "stored"
    BY <2>4, <2>5, <2>6, PhaseValue
  <2>9. PhaseOf(m)' = "queued"
    BY <2>1, <2>4, <2>5, <2>6 DEF PhaseOf, Settled, Terminal
  <2>10. phaseBar' = [phaseBar EXCEPT ![m] = "queued"]
    BY <2>7, <2>9, PhaseMoves
  <2>11. Lifecycle!Queue(m)
    BY <2>1, <2>8, <2>10 DEF Lifecycle!Queue, Lifecycle!Move, phaseBar
  <2> QED BY <2>11 DEF Lifecycle!LNext
<1>3. CASE docs' # docs
  <2>1. UNCHANGED <<msgMail, accepted>>
    BY <1>3, DocumentFrame
  <2>2. \A n \in Mails : Queued(n)' <=> Queued(n)
    BY <2>1 DEF Queued
  <2>3. ASSUME NEW m \in Mails, Insert(m) \/ InsertFails(m),
               docs' = [docs EXCEPT ![m] = NewDocument]
        PROVE  Lifecycle!Store(m)
    <3>1. api[m] = "new"
      BY <2>3 DEF Insert, InsertFails
    <3>2. docs[m] = <<>> /\ ~Queued(m)
      BY <1>0, <3>1 DEF Bookkeeping, DocumentBeforeMessage, MessageAfterRequest, Queued
    <3>3. docs'[m] = NewDocument /\ \A n \in Mails : n # m => docs'[n] = docs[n]
      BY <1>0, <2>3 DEF IInv, TypeOK
    <3>4. docs'[m] # <<>> /\ Head(docs'[m]) = InitStatus
      BY <3>3 DEF NewDocument
    <3>5. PhaseOf(m) = "new"
      BY <3>2, PhaseValue
    <3>6. PhaseOf(m)' = "stored"
      BY <2>2, <3>2, <3>4 DEF PhaseOf, Settled, Terminal, InitStatus
    <3>7. \A n \in Mails : n # m => PhaseOf(n)' = PhaseOf(n)
      BY <2>2, <3>3, PhaseStays
    <3>8. phaseBar' = [phaseBar EXCEPT ![m] = "stored"]
      BY <3>6, <3>7, PhaseMoves
    <3> QED BY <2>1, <3>5, <3>8 DEF Lifecycle!Store, Lifecycle!Move, phaseBar
  <2>4. ASSUME NEW s \in Slots, work[s].pc = "write", docs' = Written(s)
        PROVE  \/ \E m \in Mails : Lifecycle!Confirm(m) \/ Lifecycle!Abandon(m)
               \/ UNCHANGED <<phaseBar, accepted>>
    <3>0. PICK m \in Mails, st \in Status : m = MailOf(s) /\ st = work[s].status
      BY <1>0, <2>4, ActivationMail DEF Activation
    <3>1. Queued(m) /\ docs[m] # <<>> /\ ~Settled(m)
      BY <1>0, <2>4, <3>0, HolderQueued DEF Busy, Agreement, AgreementOK
    <3>2. /\ docs'[m] # <<>> /\ Head(docs'[m]) = st
          /\ \A n \in Mails : n # m => docs'[n] = docs[n]
      BY <1>0, <2>4, <3>0, <3>1, WrittenDocs
    <3>3. PhaseOf(m) = "queued"
      BY <3>1, PhaseValue
    <3>4. \A n \in Mails : n # m => PhaseOf(n)' = PhaseOf(n)
      BY <2>2, <3>2, PhaseStays
    <3>5. CASE st.type = "Success"
      <4>1. PhaseOf(m)' = "delivered"
        BY <3>2, <3>5 DEF PhaseOf, Settled, Terminal
      <4>2. accepted[m] > 0
        BY <1>0, <2>4, <3>0, <3>5 DEF AcceptInv, AnswersAccepted
      <4>3. phaseBar' = [phaseBar EXCEPT ![m] = "delivered"]
        BY <3>4, <4>1, PhaseMoves
      <4> QED BY <2>1, <3>3, <4>2, <4>3 DEF Lifecycle!Confirm, Lifecycle!Move,
                                                phaseBar
    <3>6. CASE st.type = "Fail"
      <4>1. PhaseOf(m)' = "failed"
        BY <3>2, <3>6 DEF PhaseOf, Settled, Terminal
      <4>2. phaseBar' = [phaseBar EXCEPT ![m] = "failed"]
        BY <3>4, <4>1, PhaseMoves
      <4> QED BY <2>1, <3>3, <4>2 DEF Lifecycle!Abandon, Lifecycle!Move, phaseBar
    <3>7. CASE st.type \notin {"Success", "Fail"}
      <4>1. PhaseOf(m)' = "queued"
        BY <2>2, <3>1, <3>2, <3>7 DEF PhaseOf, Settled, Terminal
      <4> QED BY <2>1, <3>3, <3>4, <4>1 DEF phaseBar
    <3> QED BY <3>5, <3>6, <3>7
  <2> QED BY <1>3, <2>3, <2>4, DocsFrame DEF Lifecycle!LNext
<1>4. CASE UNCHANGED <<docs, msgMail, accepted>>
  BY <1>4, PhaseStays DEF phaseBar, Queued
<1> QED BY <1>1, <1>2, <1>3, <1>4

\* The delivery path keeps the promises of MailLifecycle, with any number of
\* mails, workers, agents and failures: every mail has one end, is called
\* delivered only after an acceptance, and reaches the agents at most once more
\* than failures strike it.
THEOREM ImplementsLifecycle ==
  ASSUME VtCovers
  PROVE  Spec => LifecycleSafety
<1>1. Init => Lifecycle!LInit
  BY DEF Init, Lifecycle!LInit, PhaseOf
<1>2. RInv /\ RInv' /\ [Next]_vars => [Lifecycle!LNext]_(Lifecycle!lifecycleVars)
  BY LifecycleStep DEF Lifecycle!lifecycleVars, phaseBar
<1> QED BY <1>1, <1>2, InvariantRInv, PTL DEF Spec, LifecycleSafety, Lifecycle!LSpec
=============================================================================
