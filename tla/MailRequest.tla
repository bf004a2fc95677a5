----------------------------- MODULE MailRequest -----------------------------
(***************************************************************************)
(* Whom the request of an attempt names: prepareRequestContent of the two  *)
(* agents (services/mta/sendgrid.mta.ts, mailgun.mta.ts), for a mail as    *)
(* the API accepts it (dto/mail.controller.dto.ts): `cc' and `bcc' are     *)
(* optional, and every list, `to' among them, may be empty.                *)
(*                                                                         *)
(* A list is the set of its addresses; title, content, sender and the      *)
(* layout of the request are left out.                                     *)
(***************************************************************************)

CONSTANTS
  Addresses,
  Null        \* an optional list the request left out

ASSUME AddressAssumption == \A list \in SUBSET Addresses : Null # list

List == SUBSET Addresses

Mail == [to : List, cc : List \cup {Null}, bcc : List \cup {Null}]

\* `list && list.length > 0'
NonEmpty(list) == list \notin {Null, {}}

\* The addresses a list names.
Names(list) == IF list = Null THEN {} ELSE list

Request == [to : List, cc : List, bcc : List]

\* prepareRequestContent threw: there is no request.
NoRequest == [to |-> Null, cc |-> Null, bcc |-> Null]

\* A field of the request, set only under a condition.
Field(list, condition) == IF condition THEN Names(list) ELSE {}

SendGridRequest(mail) ==
  [to |-> mail.to, cc  |-> Field(mail.cc, NonEmpty(mail.cc)),
                   bcc |-> Field(mail.bcc, NonEmpty(mail.bcc))]

\* Mutant: the condition of bcc governs cc too.
MailGunRequestOneCondition(mail) ==
  IF mail.bcc # Null /\ mail.cc = Null
  THEN NoRequest
  ELSE [to |-> mail.to, cc  |-> Field(mail.cc, mail.bcc # Null /\ NonEmpty(mail.cc)),
                        bcc |-> Field(mail.bcc, mail.bcc # Null /\ NonEmpty(mail.cc))]

\* The condition of bcc is `mail.bcc && mail.cc.length > 0': without cc the
\* property `length' of undefined is read, a TypeError.
MailGunRequest(mail) ==
  IF mail.bcc # Null /\ mail.cc = Null
  THEN NoRequest
  ELSE [to |-> mail.to, cc  |-> Field(mail.cc, NonEmpty(mail.cc)),
                        bcc |-> Field(mail.bcc, mail.bcc # Null /\ NonEmpty(mail.cc))]
=============================================================================
