---------------------------- MODULE MtaAvailability ----------------------------
(***************************************************************************)
(* The agents of one process under steady traffic: MTAStategyService       *)
(* chooses among them by isAvailable, and isAvailable follows the events   *)
(* of their circuit breakers (services/mta/mta.base.ts). Mails come and go *)
(* without end; an activation is the mail it carries and the agent whose   *)
(* answer it awaits. MailRequest says what that agent is asked to send.    *)
(*                                                                         *)
(* getMTA and fire() are one step here: promise callbacks are all that     *)
(* separates them, so no timer and no answer comes between.                *)
(***************************************************************************)
EXTENDS MtaStrategy, MtaCircuit, MailRequest

CONSTANTS
  Slots,   \* activations that can run at once
  MailGun  \* MailGunMTA; the other agents build requests as SendGridMTA does

VARIABLES
  breaker,   \* breaker[a]: state of a's circuit breaker
  calling,   \* calling[s]: agent whose answer s awaits
  carrying   \* carrying[s]: the mail of s

availabilityVars == <<breaker, calling, carrying>>

NoMail == [to |-> {}, cc |-> Null, bcc |-> Null]

RequestTo(a, mail) ==
  IF a = MailGun THEN MailGunRequest(mail) ELSE SendGridRequest(mail)

Usable == {a \in MTAs : IsAvailable(breaker[a])}

\* The statuses a mail can have when onMesage reads it, the final ones aside.
OpenStatuses ==
  {InitStatus} \cup
  UNION {{[Attempt(a) EXCEPT !.retries = r] : r \in 1..MaxRetries[a]} : a \in MTAs}

Start ==
  /\ breaker = [a \in MTAs |-> "closed"]
  /\ calling = [s \in Slots |-> NoMTA]
  /\ carrying = [s \in Slots |-> NoMail]

\* onMesage up to the call of the agent, for a mail of some status. Without an
\* agent the mail is failed, and a breaker that rejects leaves it to a retry:
\* nothing changes here.
Send(s) ==
  /\ calling[s] = NoMTA
  /\ \E status \in OpenStatuses :
       LET a == GetMTA(status, Usable) IN
       /\ a # NoMTA
       /\ ~Rejects(breaker[a])
       /\ breaker' = [breaker EXCEPT ![a] = AfterFire(@)]
       /\ calling' = [calling EXCEPT ![s] = a]
  /\ \E mail \in Mail : carrying' = [carrying EXCEPT ![s] = mail]

\* The call ends, and the breaker goes to one of the states `after'.
EndCall(s, after) ==
  /\ \E c \in after : breaker' = [breaker EXCEPT ![calling[s]] = c]
  /\ calling' = [calling EXCEPT ![s] = NoMTA]
  /\ carrying' = [carrying EXCEPT ![s] = NoMail]

\* The agent answers, whatever it says.
Answered(s) ==
  /\ calling[s] # NoMTA
  /\ RequestTo(calling[s], carrying[s]) # NoRequest
  /\ EndCall(s, AfterSuccess(breaker[calling[s]]))

\* It refuses, the breaker times out, or there was no request to send: to the
\* breaker the three are the same.
Failed(s) ==
  /\ calling[s] # NoMTA
  /\ EndCall(s, AfterFailure(breaker[calling[s]]))

\* resetTimeout, 30 seconds after the breaker opened.
ResetTimeout(a) ==
  /\ breaker[a] = "open"
  /\ breaker' = [breaker EXCEPT ![a] = "halfOpen"]
  /\ UNCHANGED <<calling, carrying>>

ANext ==
  \/ \E s \in Slots : Send(s) \/ Answered(s) \/ Failed(s)
  \/ \E a \in MTAs : ResetTimeout(a)

ASpec == Start /\ [][ANext]_availabilityVars

\* Traffic does not stop, calls end, and timers run out.
AFairSpec ==
  /\ ASpec
  /\ \A s \in Slots : /\ WF_availabilityVars(Send(s))
                      /\ WF_availabilityVars(Answered(s) \/ Failed(s))
  /\ \A a \in MTAs : WF_availabilityVars(ResetTimeout(a))

-----------------------------------------------------------------------------
(* Properties *)

\* Breakers, calls and mails stay within their types.
ATypeOK ==
  /\ breaker \in [MTAs -> CircuitState]
  /\ calling \in [Slots -> MTAs \cup {NoMTA}]
  /\ carrying \in [Slots -> Mail]

\* An agent whose breaker is not closed and that no activation awaits is lost
\* until the process restarts: isAvailable waits for 'close', 'close' for a
\* call, and a call for isAvailable.
Lost(a) == breaker[a] # "closed" /\ \A s \in Slots : calling[s] # a

LostForGood == [][\A a \in MTAs : Lost(a) => Lost(a)']_availabilityVars

\* "After 30 seconds, try again." (mta.base.ts): an open breaker comes to
\* make a trial call, or closes.
TriesAgain ==
  \A a \in MTAs : breaker[a] = "open" ~> breaker[a] \in {"trial", "closed"}

\* The request of a call names those the mail names, each in its field,
\* whichever agent the strategy turned to; only the blind copies of a mail
\* without a cc are lost at MailGun, or keep the request from being made.
RequestIsTheMail ==
  \A s \in Slots :
    calling[s] # NoMTA =>
      LET mail == carrying[s]  request == RequestTo(calling[s], mail) IN
      \/ request = [to |-> mail.to, cc |-> Names(mail.cc), bcc |-> Names(mail.bcc)]
      \/ /\ calling[s] = MailGun /\ mail.bcc # Null /\ ~NonEmpty(mail.cc)
         /\ \/ request = NoRequest
            \/ request = [to |-> mail.to, cc |-> {}, bcc |-> {}]

\* "should prepare request when having bcc" (mailgun.mta.spec.ts), whose cc the
\* API does not require: the request of a call names the blind copies.
BlindCopiesAreSent ==
  \A s \in Slots :
    calling[s] # NoMTA =>
      RequestTo(calling[s], carrying[s]).bcc = Names(carrying[s].bcc)
=============================================================================
