# Formal model of the mail service

TLA+ modules, TLC configurations and TLAPS proofs for nest-mail-service: an
HTTP API that stores a mail in MongoDB and dispatches its id to a queue in
Redis, a worker that delivers it through one of two mail transfer agents
(SendGrid, MailGun) behind circuit breakers, and a job that puts forgotten
mails back into the queue. Paths below are relative to `src/src/` unless they
start with `src/`.

    tlc -workers 2 -config delivery.cfg MCMailDelivery.tla
    tlapm MailDeliveryTimelyProofs.tla

## 1. The system

| component | state it keeps | operations | interacts by |
|---|---|---|---|
| `controllers/mail.controller.ts` | none | `create`: insert the document, send its id to `main`; a failed send is logged and answered 201 | calls MailService, MainQueue |
| `services/mail.service.ts` | the collection `mails`: a document with a `status` array, newest entry first | `insert`, `getMailById`, `addMailStatus` (push to the front), `updateMailStatus` (overwrite entry 0), `fetchPendingMails` | MongoDB, one atomic update each |
| `services/queue/queue.base.ts` over RSMQ | a queue of messages, each visible, hidden until its visibility timeout (20 s), or deleted | `send`, `receive` (hides), `delete`, `updateVisibility` (5 s) | Redis |
| `services/queue/queue.consumer.base.ts` | buffer of events and prefetched messages, `lastProcessOn` | event on publish: receive and process one; idle ticker: prefetch up to 50; 5 at once; settle by the result of `onMesage` | RSMQ, Redis pub/sub, `onMesage` |
| `services/workers/mail.sending.worker.ts` | none: everything is in locals across awaits | `onMesage`: read the mail, choose an agent, send, write the status, return Success, Retry or Outdated | MailService, MTAStategyService, agents |
| `services/workers/mta.strategy.service.ts` | the two agents, in order | `getMTA`: the agent of the last attempt while it may retry, else the first other available one | reads `isAvailable` |
| `services/mta/mta.base.ts` | `isAvailable`, an opossum circuit breaker, per process and agent | `send` through the breaker; `open` and `close` listeners | HTTP to the agent |
| `services/jobs/jobabstract.ts`, `mail.recover.job.ts` | `isRunning`; the page and `fromId` of a scan | the executor a scheduler calls every 30 minutes; the scan enqueues all pending mails page by page | nest-schedule, MailService, MainQueue |
| `middlewares/graceful.shutdown.ts` | `shuttingDown` | SIGTERM: refuse requests with 503, stop listening, exit after 500 ms | ends the process |
| `app.ts`, `modules/`, `providers/database.provider.ts`, `providers/redis.provider.ts`, `commons/mongoIndexes.ts` | connections | start: connect to MongoDB, create the queues that are missing, subscribe, create indexes, listen | Nest calls every `onModuleInit`; Redis and MongoDB are shared by all processes |
| `services/mta/sendgrid.mta.ts`, `mailgun.mta.ts` | none | `prepareRequestContent`: the request of an attempt, from the lists of the mail | HTTP to the agent |
| DeadQueue | a second queue | created at the start, never used | Redis |
| logger, configuration, validation, error filter, health, DTOs | configuration | wiring and formatting | - |

What is hard in it: `onMesage` works on a copy of the status across four awaits
while the message it serves can become visible again; the agent's answer, the
status and the deletion of the message are three separate effects, any of which
can fail, or succeed and be reported as failed; the process can end anywhere
among them; `isAvailable` is a second, event-driven copy of the state of the
breaker; the executor of the job is guarded by a flag that a second call can
reset; the scan pages through a collection that changes, in an order that is not
the order of the pages; the job sends a message for a mail that may have one
already; the consumer prefetches more than it can process before the messages
become visible again, and its limit of 5 holds for each window of 50 ms apart;
processes that start together race to create the queues; and the exit after
SIGTERM waits for nothing but the clock.

What makes the parts correct:

- delivery: no more activations work on a mail at one time than it has messages,
  failures aside, a mail is not lost between document and message, its end is final, Success means an agent accepted it,
  Fail means no agent could be asked, copies are explained by failures, retries
  are bounded, every dispatched mail ends;
- agents: an agent whose breaker opened is tried again; a request names those the
  mail names, whichever agent it goes to;
- consumer: a message that is held is held by one attempt only, a Retry goes back
  to the queue, everything sent is processed although events may be missed;
- process: it answers no request before its queue exists, a start fails only for a
  reason, SIGTERM ends it and cuts only requests that had the whole delay;
- job: never locked for good, scans do not overlap, miss no pending mail, and end;
  pending mails come back to the queue. Overlaps and misses occur (section 3),
  and the properties that hold say what they need.

## 2. Modules

| module | models | size of the step |
|---|---|---|
| `MtaStrategy` | `getMTA` and the status entries, as pure operators | - |
| `MtaCircuit` | the states of a breaker and `isAvailable`, as pure operators; opossum is external | - |
| `MailDelivery` | the delivery path: API, queue, worker, documents, breakers, process ends | what runs between two awaits |
| `MailLifecycle` | what the delivery path promises for each mail, without queue, workers or agents | one visible event |
| `MessageLease` | what whoever receives a message may rely on, without queue or clock | messages change hands |
| `MailSystem` | `MailDelivery` and the recovery job of one of its processes, on the same documents and queue | as its parts |
| `QueueConsumer` | the pace of the consumer: windows, concurrency, ticker, prefetch, visibility timeouts in ticks | one call to Redis, one attempt that starts or ends, one tick |
| `ServiceProcess` | the life of processes: start, queues, requests, SIGTERM, exit | one hook, one await of a request, one tick |
| `MailRequest` | whom the request of an agent names, as pure operators | - |
| `MtaAvailability` | one process's breakers and requests under endless traffic | one call begins or ends |
| `MailRecoverJob` | the executor and the scan | what runs between two awaits |
| `MC...` | instances for TLC | |
| `...Proofs` | theorems | |

`MailDelivery` EXTENDS `MtaStrategy` and `MtaCircuit`, and so does
`MtaAvailability`, with `MailRequest` besides: both use the same `GetMTA`, the
first with a bounded number of failures and full detail about messages, the
second with unbounded traffic, the breakers and what the agents are asked.
`MailDelivery` instantiates `MailLifecycle` as `Lifecycle` and `MessageLease` as
`Lease`; `QueueConsumer` instantiates `MessageLease` too. `MailSystem` EXTENDS
`MailDelivery` and instantiates `MailRecoverJob` as `Job`: the executor's steps
that send nothing are taken from there as they are, and `JobView` says that the
whole composition implements `Job!JSpec`.

### MailDelivery

| variable | in the code |
|---|---|
| `api` | how far the request of `MailController.create` has come |
| `docs[m]` | the array `status` of the document, `<<>>` before `insertOne` |
| `msgState`, `msgMail` | RSMQ's messages: not yet sent, visible, hidden, deleted; the mail id in their body |
| `work[s]` | the locals of one call of `attempProcessMessage` and the `onMesage` in it; `pc` is the await it waits at |
| `circuit[p][a]` | the breaker of agent a in process p; `isAvailable` is `IsAvailable(circuit[p][a])` |
| `accepted`, `wire` | the agents: copies accepted, and requests still under way that nobody awaits |
| `faults`, `tripped` | history: failures that struck a mail; whether a breaker has opened |

An activation goes `idle` - `Receive` - `read` - `Read` - `pick` - `Pick` -
`fire` - `Fire` - `sending` - `Accept` - `accepted` - `AnswerOk` - `write` -
`Write` - `settle` - `Settle`. `Read` takes the early returns (no document, or
a finished one) straight to `settle`; `Pick` without an agent goes to `write`
with the status Fail; a breaker that rejects, `AnswerNotOk` and `AnswerFails` go
to `write` with one more retry. `Throw` is the catch block: the document or the
queue did not answer, and the operation may have had its effect all the same.
`Crash` ends a process, `Expire` ends the visibility timeout of a message,
of one that an activation has only if `VtCovers` is FALSE, as a failure.

The constant `VtCovers` separates two questions. The code sets a timeout of
20 s and nothing ties the time an activation holds a message to it: a prefetched
message waits for its turn, and an attempt may take 6 s. With `VtCovers` TRUE
the model says what the code guarantees as long as it is fast enough; with FALSE
(the run `system`), what is left otherwise. `QueueConsumer` says how fast that
is: the two share the abstract specification `MessageLease`. `wire` is why a copy can arrive after its attempt was
counted as failed.

`Pick` and `Fire` are two steps although only promise callbacks separate them,
so the model lets a little more happen between them than the code does (an
answer to another activation may open the breaker); timers are kept out
(`HalfOpen`). What holds of the model holds of the code; `MtaAvailability`,
whose point is what never happens, takes the two as one step.

### MailSystem

`MailDelivery`'s variables, and `aged` (mails older than `bufferTime`), the
executor's locals as in `MailRecoverJob`, and the history `sends[m]`. What the
job reads is computed from the delivery path: `AgeOf` from the newest status of
the document, `HasMessage` from the queue. `Enqueue` is `mainQueue.send` of one
of the page, without a look at the queue. `Beside` lets a delivery step strike a
mail it has finished from what the scans owe. `Restart` ends the process with its
activations and its job together. RSMQ never gives an id again; `Recycle` lets
the id of a message that is deleted and that no activation remembers stand for a
new one, so that the number of ids bounds the messages at one time and not the
messages of a run.

### QueueConsumer

| variable | in the code |
|---|---|
| `stored`, `hide` | RSMQ: whether the message exists, ticks until it is visible |
| `buffer[p]` | the items of `rxObservableBuffer` in the window that is open: events without a message, and prefetched messages |
| `waiting[p][w]`, `place[p][w]` | one `Bluebird.map`: what it has not begun, and its `concurrency` attempts under way, with the ticks each has left |
| `fetches[p]` | rounds left in the loop of `tryFetchOnIdle` |
| `quiet[p]` | ticks since `lastProcessOn` |

`onMesage` is its result after at most `AttemptTicks` ticks (it may end before).
`Tick` is one period of the ticker; what takes milliseconds happens between two
ticks, so `Tick` waits until no window is open, no place is free while an item
waits, no round of the loop is left and no attempt is at its end. `Send` lets any
set of processes hear the event. `AttemptRejects` is a `receive` that fails
outside of the try block: the map rejects and drops what waits. The timeouts are
in proportion, not in seconds: the ticker runs every 5 s, the queue hides for
20 s, an attempt takes up to 6 s, and 50 prefetched messages are 10 rounds of 5.

### ServiceProcess

| variable | in the code |
|---|---|
| `queues` | the queues Redis has; nobody deletes one |
| `phase[p]` | where `bootstrap` is: `connect` (the factory of the mails collection awaits `open`), `create` (Nest makes the rest), `init` (hooks run), `serving`, `failed` |
| `hook[p][h]` | an `onModuleInit`: of each queue, and `rest` for the consumer's subscription and the indexes |
| `shuttingDown[p]`, `left[p]` | of the middleware, and the ticks until `process.exit` |
| `request[m]`, `age[m]` | `MailController.create` for mail m: where it is, and how long it has been there |
| `stored`, `sent` | mails with a document, mails with a message |
| `excused` | history: what may fail, since a queue was missing or something did fail |

`ListQueues` and `CreateQueue` are two steps, and another process may create the
queue between them: RSMQ refuses, the hook rejects, and `bootstrap` with it. The
other hooks go on. The handlers of `handleErrors` report "Exiting" and do not
exit, so a process whose start failed stays as it is until SIGTERM or a crash.
SIGTERM before the middleware exists, or without `NODE_ENV`, ends the process at
once (`Killed`); otherwise `GracefulExit` sets the flag and `Exit` follows 500 ms
later, whatever is under way. The timer of 20 s never runs out.

### MtaAvailability

`breaker[a]`, `calling[s]`, the agent whose answer activation s awaits, and
`carrying[s]`, the mail it sends. `Send` takes any mail the API accepts with any
status a mail that is not finished can have and lets `GetMTA` choose. Nothing
bounds the number of calls. `RequestTo` is what the agent is asked; where
`prepareRequestContent` throws there is no request, and the call can only end as
a failure, which the breaker counts (the throw is inside `attemptSendMail`, the
function the breaker guards).

### MailRecoverJob

`mail[m]` is the age of a document (younger than `bufferTime`, older) or its
end; `queued` the mails that have a message; `run[r]` the locals of one call of
the executor: `from` is `fetchQuery.fromId`, `page` what is left to send. `due`
is history: the mails that were pending when the call began and that it has
neither sent nor seen ended; `passed` those of them that a page left out although
it ended after them. `SkipTick` is a tick while `isRunning`: its finally block resets the flag,
as in the code. `Pages` lets the database return any `limit` of the matching
mails, in any order, because the sort key `id` exists in no document; `NextFrom`
is the last of the page, so any of it. `FetchFails` and `EnqueueFails` are the
catch block, whose `true` cancels the job until the process is started again.
The environment is whatever else touches documents and messages: a mail ends
(`End`), a worker that is behind writes over its end (`Reopen`), a message comes
from elsewhere (`Arrive`), the last message of a mail goes (`Depart`). `MailSystem`
shows that this is an environment the delivery path fits into.

## 3. Runs

| run | instance | checks | states |
|---|---|---|---|
| `delivery` | 1 mail, 1 message, 2 processes with 1 activation each, 3 faults, `VtCovers`, fairness | `RetriesBounded`, `FailNeedsOpenCircuit`, `PendingHasMessage`, `DuplicatesNeedFaults`, `TerminalIsFinal`, `LifecycleSafety`, `LeaseSafety`, `LifecycleLiveness`, `DispatchedSettles` | 55 997 |
| `system` | 1 mail, 2 messages at a time, 2 activations, 1 job, 1 restart, 1 fault, messages expire while processed | `SystemTypeOK`, `SuccessMeansAccepted`, `CopiesNeedMessages`, `SharersNeedMessages`, `EndIsFinalUnlessShared`, `JobView` | 945 296 with symmetry |
| `consumer` | 2 messages, 2 processes, windows of concurrency 1, prefetch of 2, 1 fault, fairness | `ConsumerTypeOK`, `HeldOnce`, `RetryIsRequeued`, `LeaseKept`, `SentIsProcessed` | 321 332 |
| `process` | 2 processes, one with `NODE_ENV`, 1 request, 3 starts, 1 fault, fairness | `ServiceTypeOK`, `AnsweredIsQueued`, `FailedStartIsExcused`, `NotCutEarly`, `TermEnds` | 216 979 |
| `availability` | 2 agents, 2 activations, 1 address | `LostForGood`, `RequestIsTheMail` | 5 841 |
| `job` | 2 mails in pages of 1, 2 calls, 1 restart, fairness | `JTypeOK`, `UnlockedWhenIdle`, `OverlapNeedsSkip`, `MissedOnlyByOrder`, `ScanEnds`, `Recovered` | 22 996 |
| `consumer_lost_retry` | 2 messages, 1 process, a timeout of 3 ticks for two attempts of 2 | `RetryIsRequeued`: violated | |
| `delivery_rotation` | 1 activation, 3 faults | `ExhaustedIsNotTried`: violated | |
| `availability_retry` | 2 activations, fairness | `TriesAgain`: violated | |
| `request_bcc` | 1 activation, 1 address | `BlindCopiesAreSent`: violated | |
| `job_overlap` | 2 mails | `NoOverlap`: violated | |
| `job_missed` | 3 mails in pages of 2 | `ScanComplete`: violated | |

Why these bounds. Two agents are what the code has. SendGrid may be retried
twice and MailGun once, so that retrying with the same agent, going to the other
and coming back all occur within three faults. Two activations are the fewest
that interleave; they have a process, and so breakers, each in `delivery`, and
share one in `system`. One message per mail is all the delivery path creates; in
`system` the job sends more, and two at a time are the fewest that are worked on
side by side. `MaxFaults` bounds failures per mail in `MailDelivery`: one is
enough to lose any single effect, two to lose the retry's as well, three to
exhaust an agent. One address is enough, since the code looks at a list only to
see whether it is there and whether it is empty. Two mails in pages of 1 make a
scan of two pages, or of one that passes over the other mail; `job_missed` has
three mails in pages of 2, where a page holds some and passes over others. Two
calls of the executor are the fewest that overlap. In `consumer` a batch of two messages with concurrency 1 is
the smallest in which one waits for another, three windows let two maps run
beside an open window, and a timeout of 9 ticks covers four attempts of 2 in turn
(two prefetched messages and an event of each: `KeepsPace(4)`, in the words of
the theorems), while 3 ticks (`consumer_lost_retry`) do not cover two. The code's
own numbers are on the side of the second: 10 rounds of up to 6 s, and 20 s. In `process` three starts
let a process begin while the queues are being made, and again when they are
there; a delay of two ticks tells a request that had all of it from one that had
a part.

Symmetry is used in `system` only, whose properties are safety: over messages and
over the activations of one process, neither of which the specification orders or
distinguishes.

Deadlock is not checked: when every mail has ended, the queue is empty and no
fault is left, the delivery path is at rest, and so is a cancelled job with all
mails finished and no restart left, a process whose agents are both lost, and the
service when its processes have ended and no start is left.

Fairness. A request to the API that has inserted the document goes on to its
dispatch (or to its failure). The subscription and the ticker of `initRx` pull
as long as the process runs, so a visible message is received. Every await of an
activation resolves: MongoDB and Redis answer or reject, an agent answers or the
breaker's own timeout does. A visibility timeout ends. That an
agent does not accept is a failure of the attempt, and `MaxFaults` bounds the
failures: fairness of `Progress`, of which `Accept` is a part, then says that an
agent that is asked again and again accepts in the end. There is no fairness on
faults or on half-open breakers. For the job: the scheduler keeps ticking while the
job is scheduled, and a call that waits for MongoDB or Redis goes on. `ScanEnds` is
about finitely many mails: every fetch asks for what is older than `bufferTime` by
then, so in the code a scan goes on as long as mails with larger `_id`s grow old
between its pages. `Recovered` supposes that the pending mails fit in a page from
some time on; while they do not, every scan may pass over the same one. The rest of
the world (`End`, `Depart` and the others) has none. For the consumer: time
passes, and a process goes on with its windows, its loop and its attempts
(`Work`); no event need be heard, and `SentIsProcessed` rests on the ticker. For
a process: time passes and a timer that has run out fires; no hook and no request
need ever end.

### What the violations say

1. `consumer_lost_retry`: `queue.consumer.base.ts:64` promises that a Retry goes
   back to the queue. The ticker prefetches two messages, and the timeout of the
   second runs out while it waits and is attempted. The ticker of the same process
   receives it again; one of its two attempts deletes it, and the other ends with
   Retry and changes the visibility of a message that does not exist.
2. `delivery_rotation`: `src/README.md:27` says a mail whose retries are used up
   is marked Failed and goes to the dead letter queue. `getMTA` goes to the other
   agent with a fresh count, and back: with both agents available no number of
   refusals ends it. Nothing is sent to the dead letter queue anywhere. The comment
   of the status (`commons/const.ts:18`, "Can not send email after configured
   retries") says the same as the README; what the code does is
   `FailNeedsOpenCircuit`: Fail means that no agent was available.
3. `availability_retry`: `mta.base.ts:57` says "After 30 seconds, try again."
   Only a call can close a half-open breaker, `getMTA` offers only agents that are
   available, and `isAvailable` waits for the breaker to close.
4. `request_bcc`: `mailgun.mta.spec.ts:192` tests a request with bcc, for a mail
   that has a cc, which `dto/mail.controller.dto.ts:37` does not require. The
   condition at `mailgun.mta.ts:69` asks for the length of cc. With an empty cc
   the blind copies are dropped and the mail is marked Success; without cc the
   condition throws, and every attempt at MailGun fails and counts against its
   breaker.
5. `job_overlap`: a skipped tick resets `isRunning` in its finally block.
6. `job_missed`: pages sorted by a field that does not exist are not in the order
   of `_id`, by which the next page starts.

## 4. Theorems

For every set of mails, messages, activations, processes and agents, every
number of retries per agent and every bound on faults. Assumptions on the
constants are the named ASSUMEs: agents have distinct positions and at least one
retry each (`maxRetries || 3`), the activations are finitely many, and so are the
mails and messages of `MailSystem` and the messages of `QueueConsumer`; the delay
before the exit is not zero; concurrency, prefetch, timeouts and the length of an
attempt are positive, and a retry is not hidden for longer than a message.

| theorem | says | needs |
|---|---|---|
| `TypeCorrect` | `Spec => []TypeOK` | |
| `RetriesAreBounded` | `Spec => []RetriesBounded` | |
| `FailNeedsOpenCircuitHolds` | `Spec => []FailNeedsOpenCircuit` | two different agents |
| `SuccessMeansAcceptedHolds` | `Spec => []SuccessMeansAccepted` | |
| `PendingHasMessageHolds`, `TerminalIsFinalHolds`, `DuplicatesNeedFaultsHolds` | the three properties | `VtCovers` |
| `ImplementsLifecycle` | `Spec => LifecycleSafety`: the refinement | `VtCovers` |
| `SystemTypeCorrect`, `SystemRetriesBounded`, `SystemSuccessMeansAccepted` | of `SystemSpec` | |
| `SystemFailNeedsOpenCircuit` | of `SystemSpec` | two different agents |
| `CopiesNeedMessagesHolds`, `SharersNeedMessagesHolds`, `EndIsFinalUnlessSharedHolds` | of `SystemSpec`, whether or not `VtCovers` | |
| `JobViewHolds` | `SystemSpec => Job!JSpec`: what is proved of the job holds of it beside the delivery path | |
| `ServiceTypeCorrect`, `AnsweredIsQueuedHolds`, `FailedStartIsExcusedHolds`, `NotCutEarlyHolds` | of `ServiceSpec` | |
| `LostForGoodHolds` | of `ASpec` | |
| `RequestIsTheMailHolds` | of `ASpec`: the only requests that lose someone are those of violation 4 | |
| `ConsumerTypeCorrect` | `ConsumerSpec => []ConsumerTypeOK` | |
| `BatchesAreSmall` | no window closes with more than `Batch` items: `MaxFetch` messages and an event of each message | |
| `InvariantCInv`, `LeaseKeptInPace`, `HeldOnceInPace`, `RetryIsRequeuedInPace` | the invariant, the refinement of `MessageLease`, and two properties, of every behaviour of `ConsumerSpec` whose windows have at most n items | `KeepsPace(n)` |
| `JTypeCorrect`, `UnlockedWhenIdleHolds` | of `JSpec` | |
| `OverlapNeedsSkipHolds` | of `JSpec` | finitely many calls |
| `MissedOnlyByOrderHolds` | of `JSpec`, with any number of mails and pages | |
| `GetMTAProperties` | what `getMTA` may return | |

The inductive invariants and why they are needed:

- `IInv` (MailDeliveryProofs). The bound on retries is about documents, but what
  reaches a document has been carried by an activation since it read it: an entry
  as read respects the bound, `getMTA` leaves room for one more attempt, the
  increment uses it. `ActivationOK` says what an activation holds at each await.
- `TripInv` (MailDeliveryProofs). Fail is written two steps after `getMTA`
  found nobody; that needs every agent but one to be unavailable, so, with two of
  them, some breaker not closed, hence `tripped`.
- `AcceptInv`. From the acceptance to the write the fact that the mail was
  accepted is carried by the activation's place.
- `TInv` (MailDeliveryTimelyProofs), in layers. `Ownership`: a message that is
  worked on is hidden, by one activation. `Bookkeeping`: a mail has one message,
  and a document before it. `Agreement`: what an activation holds agrees with the
  document, so that its write cannot touch a finished mail; a deleted message
  belongs to a finished mail. `Budget`: acceptances and requests under way are at
  most the faults, plus one for an attempt that is not paid for.
- `RInv` (MailDeliveryTimelyProofs) adds that a finished mail was queued, and
  maps each action to a step of `MailLifecycle` or to a stutter.
- `SInv` (MailSystemProofs). A step of `MailSystem` is one of `MailDelivery`, or
  touches nothing of it but the queue (`QueueOnly`), and the invariants of
  `MailDelivery` survive the second kind because they say of a message no more
  than which mail it names. `StoredInv`, that whatever is named or held has a
  document, is what the environment of the job needs (`Arrive` asks for a stored
  mail), and `DueUnsettled`, that no scan owes a finished mail, what makes the
  payment of `Beside` agree with that of `End`. The last part maps a step by what
  it does to the job's view: a document changes, a message comes or goes, or the
  job moves.
- `CInv` (MailSystemProofs). `CopyInv` is an account per mail. `Load` is what the
  agents got, the requests on their way, the messages somebody may take (`Loose`)
  and the activations that go to an agent or put their message back (`Owing`);
  messages sent and failures pay for it. A step raises the load by a new message or
  along with a failure, and else moves a copy from one place to another; when a
  process ends, each message that becomes loose has an activation that ended.
  `Hands` counts in the same way who has a message or may take it: so activations
  of one mail are at most its messages and failures, and with one
  message and no failure nobody shares the mail, which is what `EndInv` needs: who
  attempts such a mail finds it as unfinished as when it read it.
- `StartInv` (ServiceProcessProofs). `QueueReady`: a hook that is done has its
  queue, a process serves only when they are done, and so a request that is handled
  finds the queue. `CleanStart`: a process that began with both queues there never
  tries to create one. `PaceInv`: the time a request has had and what is left of the
  delay together are the whole delay, since no request is let in after SIGTERM.
- `CInv` (QueueConsumerProofs). `InTime` is the point: whatever is held is hidden
  for longer than it still needs. For an attempt under way that is its own rest. A
  message that waits may be the last of its window, and the others may take as long
  as an attempt can: `Needs` is the work in front of it, `AttemptTicks` for each item
  that waits and `Load` for what the places have begun, shared by `Concurrency`
  places. Beginning an attempt turns the first into the second; an attempt that ends
  early takes from it; and a tick, which comes only when all places are taken while
  something waits, works off `Concurrency` of it and takes one from the timeout. So
  it is enough that the timeout covers a window when it closes, which is what
  `KeepsPace` says, with the case in which all items begin at once (`Room`) by
  itself. From `InTime` follows that what is held is not visible, so that no
  `receive` returns it, hence `HeldOnce`; from `HeldOnce` that only its holder
  changes its record in the queue, which `InTime` needs in turn.
- `LostForGood` needs the types only: an agent that `getMTA` returns is closed, so
  only an answer that was awaited already can close a breaker.
- `LockInv`: a call under way with `isRunning` FALSE, or a second call, implies a
  skipped tick; no call under way implies unlocked.
- `ScanInv`: what a call still owes is pending, and it is ahead of `fromId`, on the
  page being sent, or passed over; so nothing but what was passed over is left when
  nothing is ahead.

Left to TLC: the liveness properties (`DispatchedSettles`, `LifecycleLiveness`,
`ScanEnds`, `Recovered`, `SentIsProcessed`, `TermEnds`), because proofs under
fairness need ENABLED, which the installed provers do not handle; and
`LeaseSafety` of `MailDelivery`, since that nobody else gets a held message is what
`VtCovers` supposes there: `QueueConsumer` is where it has to be earned. The other
invariants and action properties of the passing runs, and the safety of the other
refinements, are theorems, those of the consumer for behaviours in pace.

What the theorems of the consumer say of the code: `KeepsPace(n)` is sufficient,
not necessary. It supposes that every attempt takes as long as it can, and the 6 s
of an attempt are two periods of the ticker, rounded up; in these units the numbers
of the code keep pace for windows of 5 items: 5 mails that arrive within 50 ms, or
a ticker that finds 5. In seconds three rounds, 15 items, fit into the timeout of
20 s. The prefetch of 50 is ten rounds, and there the code relies on its agents
being faster than their timeout of 6 s; the run `consumer_lost_retry` is such a
case in small.

## 5. Not modelled, and why

- Time, but where it decides: `QueueConsumer` counts it in periods of the ticker,
  `ServiceProcess` in parts of the delay before the exit. In `MailDelivery` and
  `MailSystem` timeouts are events that may happen, and `VtCovers` says whether
  they may happen to a message that is held. The timers of several processes go
  in phase in `QueueConsumer`.
- The concurrency of 5 and the prefetch of 50 are 1 and 2 in the instance of
  `QueueConsumer`; what matters is whether the last of a batch ends before the
  timeout of the first. The two runs take one case each, and the theorems hold
  for windows of any size that keep pace.
- opossum's statistics. A failure may or may not open a closed breaker.
- The bodies of requests and mails but for the recipients; validation, logging,
  the HTTP layer.
- That a dispatched mail ends while messages expire or the job sends more of them:
  `MailSystem` states safety only. The job of one process is modelled; those of
  others are of its kind, and `Arrive` covers what they send.
- The consumer's hook and the indexes are one hook, `rest`: they touch nothing the
  other hooks use. What the consumer does between its hook and `listen` is left to
  `QueueConsumer`.
- A start that failed and stays (`app.ts:16`) is in the model, but there is no
  property of it: nothing in the code ends it. The timer of 20 s
  (`FORCE_TIMEOUT`) is never reached, since the exit follows after 500 ms.
- `close` of the database, `onModuleDestroy` of the consumer, `cancelJob` and
  `tryLock` of the job: never called, or never overridden.
- The dead letter queue is created and never used. The configuration is data (a
  job with `enable: false` is registered all the same, `jobabstract.ts:44`).
  Logger, validation, error filter, health: no behaviour of their own.

## 6. Plan

Done, in this order: `MtaStrategy`, `MtaCircuit`, `MailDelivery` with its type
invariant and safety, `MailLifecycle` and the refinement, `MtaAvailability`,
`MailRecoverJob`, `MailRequest`, their proofs; then `MessageLease`, `MailSystem`,
`QueueConsumer`, `ServiceProcess`, and the proofs of `MailSystem`,
`ServiceProcess` and `QueueConsumer`.

Next:

1. Liveness of `MailSystem`: a dispatched mail ends however many messages it has.
2. A bound on windows that the rate of arrivals gives, so that `LeaseKeptInPace`
   needs no hypothesis about events when mails arrive slowly.
