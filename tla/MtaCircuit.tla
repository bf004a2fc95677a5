------------------------------ MODULE MtaCircuit ------------------------------
(***************************************************************************)
(* The circuit breaker in front of one mail transfer agent, as MTABase     *)
(* (services/mta/mta.base.ts) sets it up and listens to it. The breaker    *)
(* itself is the library opossum; its transitions are modelled from how    *)
(* init() and send() use it.                                               *)
(*                                                                         *)
(*   closed    calls go through                                            *)
(*   open      calls are rejected, until resetTimeout                      *)
(*   halfOpen  the next call goes through as a trial                       *)
(*   trial     that call is running, others are rejected                   *)
(***************************************************************************)

CircuitState == {"closed", "open", "halfOpen", "trial"}

\* fire() rejects at once instead of calling attemptSendMail.
Rejects(c) == c \in {"open", "trial"}

\* The state after fire() let a call through.
AfterFire(c) == IF c = "halfOpen" THEN "trial" ELSE c

\* A call succeeded: the breaker closes. A call that was already running when
\* the breaker opened may close it too (a "success" event is enough).
AfterSuccess(c) == IF c = "open" THEN {"open", "closed"} ELSE {"closed"}

\* A call failed (rejected promise or timeout): a closed breaker opens when
\* the share of failures passes errorThresholdPercentage, which depends on the
\* calls of a rolling window; a trial that fails opens it again.
AfterFailure(c) == IF c = "closed" THEN {"closed", "open"} ELSE {"open"}

\* Mutant: nobody listens to 'open'.
IsAvailableAlways(c) == c \in CircuitState

\* isAvailable: true at first, false on 'open', true on 'close', and left
\* alone by every other event, 'halfOpen' among them.
IsAvailable(c) == c = "closed"
=============================================================================
