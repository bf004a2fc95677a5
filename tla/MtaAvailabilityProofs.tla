------------------------- MODULE MtaAvailabilityProofs -------------------------
(***************************************************************************)
(* Theorems about MtaAvailability, for every set of agents and every       *)
(* number of activations.                                                  *)
(***************************************************************************)
EXTENDS MtaAvailability, MtaStrategyProofs

\* An activation is given a closed agent: nothing else is available.
LEMMA ChosenIsClosed ==
  ASSUME NEW status \in OpenStatuses, GetMTA(status, Usable) # NoMTA
  PROVE  /\ GetMTA(status, Usable) \in MTAs
         /\ breaker[GetMTA(status, Usable)] = "closed"
<1>1. status \in Status
  <2>1. CASE status = InitStatus
    BY <2>1 DEF InitStatus, Status, StatusType
  <2>2. ASSUME NEW a \in MTAs, NEW r \in 1..MaxRetries[a],
               status = [Attempt(a) EXCEPT !.retries = r]
        PROVE  status \in Status
    <3>1. MaxRetries[a] \in Nat
      BY MtaAssumption
    <3>2. r \in Nat
      BY <3>1
    <3> QED BY <2>2, <3>2 DEF Attempt, Status, StatusType
  <2> QED BY <2>1, <2>2 DEF OpenStatuses
<1>2. Usable \in SUBSET MTAs
  BY DEF Usable
<1>3. GetMTA(status, Usable) \in Usable
  BY <1>1, <1>2, GetMTAProperties
<1> QED BY <1>3 DEF Usable, IsAvailable

LEMMA NoMailType == NoMail \in Mail
  BY DEF NoMail, Mail, List

\* How a call begins and ends.
LEMMA SendEffect ==
  ASSUME ATypeOK, NEW s \in Slots, Send(s)
  PROVE  \E a \in MTAs : /\ breaker[a] = "closed" /\ breaker' = breaker
                         /\ calling' = [calling EXCEPT ![s] = a]
                         /\ \E mail \in Mail : carrying' = [carrying EXCEPT ![s] = mail]
<1>1. PICK status \in OpenStatuses :
        LET a == GetMTA(status, Usable) IN
        /\ a # NoMTA
        /\ breaker' = [breaker EXCEPT ![a] = AfterFire(@)]
        /\ calling' = [calling EXCEPT ![s] = a]
  BY DEF Send
<1>2. PICK a \in MTAs : a = GetMTA(status, Usable) /\ breaker[a] = "closed"
  BY <1>1, ChosenIsClosed
<1>3. breaker' = [breaker EXCEPT ![a] = breaker[a]]
  BY <1>1, <1>2 DEF AfterFire
<1>4. breaker' = breaker
  BY <1>2, <1>3 DEF ATypeOK
<1>5. \E mail \in Mail : carrying' = [carrying EXCEPT ![s] = mail]
  BY DEF Send
<1> QED BY <1>1, <1>2, <1>4, <1>5

LEMMA EndEffect ==
  ASSUME ATypeOK, NEW s \in Slots, Answered(s) \/ Failed(s)
  PROVE  /\ calling[s] \in MTAs
         /\ calling' = [calling EXCEPT ![s] = NoMTA]
         /\ carrying' = [carrying EXCEPT ![s] = NoMail]
         /\ \E c \in {"open", "closed"} : breaker' = [breaker EXCEPT ![calling[s]] = c]
  BY DEF Answered, Failed, EndCall, AfterSuccess, AfterFailure, ATypeOK

LEMMA ATypeNext == ATypeOK /\ [ANext]_availabilityVars => ATypeOK'
<1> SUFFICES ASSUME ATypeOK, [ANext]_availabilityVars PROVE ATypeOK'
  OBVIOUS
<1>1. ASSUME NEW s \in Slots, Send(s) PROVE ATypeOK'
  <2>1. PICK a \in MTAs : /\ breaker' = breaker
                          /\ calling' = [calling EXCEPT ![s] = a]
    BY <1>1, SendEffect
  <2>2. PICK mail \in Mail : carrying' = [carrying EXCEPT ![s] = mail]
    BY <1>1, SendEffect
  <2> QED BY <2>1, <2>2 DEF ATypeOK
<1>2. ASSUME NEW s \in Slots, Answered(s) \/ Failed(s) PROVE ATypeOK'
  <2>1. PICK c \in {"open", "closed"} : breaker' = [breaker EXCEPT ![calling[s]] = c]
    BY <1>2, EndEffect
  <2>2. calling[s] \in MTAs /\ calling' = [calling EXCEPT ![s] = NoMTA]
    BY <1>2, EndEffect
  <2>3. c \in CircuitState
    BY DEF CircuitState
  <2>4. carrying' \in [Slots -> Mail]
    BY <1>2, EndEffect, NoMailType DEF ATypeOK
  <2> QED BY <2>1, <2>2, <2>3, <2>4 DEF ATypeOK
<1>3. ASSUME NEW a \in MTAs, ResetTimeout(a) PROVE ATypeOK'
  BY <1>3 DEF ResetTimeout, ATypeOK, CircuitState
<1>4. CASE UNCHANGED availabilityVars
  BY <1>4 DEF availabilityVars, ATypeOK
<1> QED BY <1>1, <1>2, <1>3, <1>4 DEF ANext

LEMMA ATypeCorrect == ASpec => []ATypeOK
<1>1. Start => ATypeOK
  BY NoMailType DEF Start, ATypeOK, CircuitState
<1> QED BY <1>1, ATypeNext, PTL DEF ASpec

\* An agent that is lost stays lost, with any number of agents and of
\* activations, whatever the agents answer and however long one waits.
THEOREM LostForGoodHolds == ASpec => LostForGood
<1>1. ATypeOK /\ [ANext]_availabilityVars
        => [\A a \in MTAs : Lost(a) => Lost(a)']_availabilityVars
  <2> SUFFICES ASSUME ATypeOK, ANext, NEW a \in MTAs, Lost(a) PROVE Lost(a)'
    OBVIOUS
  <2>1. ASSUME NEW s \in Slots, Send(s) PROVE Lost(a)'
    <3>1. PICK b \in MTAs : /\ breaker[b] = "closed" /\ breaker' = breaker
                            /\ calling' = [calling EXCEPT ![s] = b]
      BY <2>1, SendEffect
    <3> QED BY <3>1 DEF Lost, ATypeOK
  <2>2. ASSUME NEW s \in Slots, Answered(s) \/ Failed(s) PROVE Lost(a)'
    <3>1. PICK c : breaker' = [breaker EXCEPT ![calling[s]] = c]
      BY <2>2, EndEffect
    <3>2. calling[s] # a /\ calling' = [calling EXCEPT ![s] = NoMTA] /\ a # NoMTA
      BY <2>2, EndEffect, MtaAssumption DEF Lost
    <3> QED BY <3>1, <3>2 DEF Lost, ATypeOK
  <2>3. ASSUME NEW b \in MTAs, ResetTimeout(b) PROVE Lost(a)'
    BY <2>3 DEF ResetTimeout, Lost, ATypeOK
  <2> QED BY <2>1, <2>2, <2>3 DEF ANext
<1> QED BY <1>1, ATypeCorrect, PTL DEF ASpec, LostForGood

\* An agent is asked to send the mail to those it names, whatever the mail and
\* the addresses, except for blind copies at MailGun without a cc.
THEOREM RequestIsTheMailHolds == ASpec => []RequestIsTheMail
<1>1. ASSUME NEW mail \in Mail, NEW a
      PROVE  LET request == RequestTo(a, mail) IN
             \/ request = [to |-> mail.to, cc |-> Names(mail.cc), bcc |-> Names(mail.bcc)]
             \/ /\ a = MailGun /\ mail.bcc # Null /\ ~NonEmpty(mail.cc)
                /\ \/ request = NoRequest
                   \/ request = [to |-> mail.to, cc |-> {}, bcc |-> {}]
  <2>1. \A list : Field(list, NonEmpty(list)) = Names(list)
    BY DEF Field, NonEmpty, Names
  <2>2. CASE a # MailGun
    BY <2>1, <2>2 DEF RequestTo, SendGridRequest
  <2>3. CASE a = MailGun /\ mail.bcc # Null /\ ~NonEmpty(mail.cc)
    BY <2>3 DEF RequestTo, MailGunRequest, Field, NonEmpty
  <2>4. CASE a = MailGun /\ (mail.bcc = Null \/ NonEmpty(mail.cc))
    <3>1. Field(mail.bcc, mail.bcc # Null /\ NonEmpty(mail.cc)) = Names(mail.bcc)
      BY <2>4 DEF Field, Names
    <3>2. ~(mail.bcc # Null /\ mail.cc = Null)
      BY <2>4 DEF NonEmpty
    <3> QED BY <2>1, <2>4, <3>1, <3>2 DEF RequestTo, MailGunRequest
  <2> QED BY <2>2, <2>3, <2>4
<1>2. ATypeOK => RequestIsTheMail
  BY <1>1 DEF ATypeOK, RequestIsTheMail
<1> QED BY <1>2, ATypeCorrect, PTL
=============================================================================
