---------------------------- MODULE ServiceProcess ----------------------------
(***************************************************************************)
(* The life of a process of the service, from its start to its end.        *)
(*                                                                         *)
(*   app.ts                               bootstrap and handleErrors       *)
(*   providers/database.provider.ts       open, by the mails collection    *)
(*   services/queue/queue.base.ts         onModuleInit: list, then create  *)
(*   services/queue/queue.consumer.base.ts, commons/mongoIndexes.ts        *)
(*                                        the other hooks that wait        *)
(*   middlewares/graceful.shutdown.ts     SIGTERM, 503, and the exit       *)
(*   controllers/mail.controller.ts       the requests it may cut          *)
(*                                                                         *)
(* Nest is external: it makes the providers, sets up the middleware, calls *)
(* the hooks in no order that the code relies on, and listens once all of  *)
(* them are done; a provider that rejects ends the process. RSMQ is        *)
(* external: it refuses to create a queue that exists. Redis keeps what it *)
(* has when processes end.                                                 *)
(***************************************************************************)
EXTENDS Naturals

CONSTANTS
  Procs,      \* processes of the service
  NodeEnv,    \* those started with NODE_ENV
  Mails,      \* mails, each in one request
  Grace,      \* the 500 ms between SIGTERM and the exit, in ticks
  MaxStarts,  \* bound: starts of all processes
  MaxFaults   \* bound: failures of MongoDB, Redis and processes

ASSUME ServiceAssumption ==
  /\ NodeEnv \subseteq Procs /\ "nowhere" \notin Procs
  /\ Procs \cap Mails = {}
  /\ Grace \in Nat \ {0} /\ MaxStarts \in Nat /\ MaxFaults \in Nat

VARIABLES
  queues,        \* queues that exist in Redis
  phase,         \* phase[p]: how far process p has come
  hook,          \* hook[p][h]: one onModuleInit of process p
  shuttingDown,  \* shuttingDown[p], of the middleware
  left,          \* left[p]: ticks until process.exit
  request,       \* request[m]: where the POST of mail m stands
  age,           \* age[m]: ticks since it passed the middleware, as far as Grace
  stored, sent,  \* mails with a document; mails with a message
  starts, faults,\* starts and failures so far (MaxStarts and MaxFaults bound them)
  excused        \* history: processes whose start may fail: a queue was missing
                 \* when it began, or something failed since; and mails whose
                 \* request met a failure

startVars   == <<phase, hook, shuttingDown, left>>
requestVars == <<request, age, stored, sent>>
serviceVars == <<queues, startVars, requestVars, starts, faults, excused>>

-----------------------------------------------------------------------------
Queues == {"main", "dead"}

\* onModuleInit of each queue; those of the consumer and of AppModule, which
\* wait for a connection and for indexes, are "rest" together.
Hooks == Queues \cup {"rest"}

Phase == {"off", "connect", "create", "init", "serving", "failed"}

\* A request: where it is handled, and what it waits for or how it ended.
Request == [at : Procs, pc : {"insert", "send"}]
             \cup [at : {"nowhere"}, pc : {"none", "created", "error", "refused", "cut"}]

NoRequest == [at |-> "nowhere", pc |-> "none"]
Ended(pc) == [at |-> "nowhere", pc |-> pc]

At(p) == {m \in Mails : request[m].at = p}

Blame(who) == /\ faults < MaxFaults
              /\ faults' = faults + 1
              /\ excused' = excused \cup {who}

ServiceInit ==
  /\ queues = {}
  /\ phase = [p \in Procs |-> "off"]
  /\ hook = [p \in Procs |-> [h \in Hooks |-> "waiting"]]
  /\ shuttingDown = [p \in Procs |-> FALSE]
  /\ left = [p \in Procs |-> Grace]
  /\ request = [m \in Mails |-> NoRequest]
  /\ age = [m \in Mails |-> 0]
  /\ stored = {} /\ sent = {} /\ excused = {}
  /\ starts = 0 /\ faults = 0

-----------------------------------------------------------------------------
(* bootstrap *)

Start(p) ==
  /\ phase[p] = "off" /\ starts < MaxStarts
  /\ starts' = starts + 1
  /\ phase' = [phase EXCEPT ![p] = "connect"]
  /\ excused' = IF queues = Queues THEN excused \ {p} ELSE excused \cup {p}
  /\ UNCHANGED <<queues, hook, shuttingDown, left, requestVars, faults>>

\* The factory of the mails collection waits for Database.open.
Connected(p) ==
  /\ phase[p] = "connect"
  /\ phase' = [phase EXCEPT ![p] = "create"]
  /\ UNCHANGED <<queues, hook, shuttingDown, left, requestVars, starts, faults, excused>>

\* NestFactory.create returns, and listen sets up the middleware.
Created(p) ==
  /\ phase[p] = "create"
  /\ phase' = [phase EXCEPT ![p] = "init"]
  /\ UNCHANGED <<queues, hook, shuttingDown, left, requestVars, starts, faults, excused>>

HookRuns(p, h, pc) == phase[p] \in {"init", "failed"} /\ hook[p][h] = pc

HookIs(p, h, pc) == hook' = [hook EXCEPT ![p][h] = pc]

\* A hook rejects and so does bootstrap. The handlers of handleErrors write
\* "Exiting", and the process stays.
HookRejects(p, h) ==
  /\ HookIs(p, h, "rejected")
  /\ phase' = [phase EXCEPT ![p] = "failed"]

\* The consumer has subscribed, and MongoDB has the indexes.
RestEnds(p) ==
  /\ HookRuns(p, "rest", "waiting")
  /\ HookIs(p, "rest", "done")
  /\ UNCHANGED <<queues, phase, shuttingDown, left, requestVars, starts, faults, excused>>

\* Mutants: the hook does not wait for the queue; it does not look.
ListedUnawaited(q) == "done"
ListedUnseen(q)    == "listed"

\* listQueues: whether the queue is there.
Listed(q) == IF q \in queues THEN "done" ELSE "listed"

ListQueues(p, q) ==
  /\ HookRuns(p, q, "waiting")
  /\ HookIs(p, q, Listed(q))
  /\ UNCHANGED <<queues, phase, shuttingDown, left, requestVars, starts, faults, excused>>

\* createQueue: another process may have been faster.
CreateQueue(p, q) ==
  /\ HookRuns(p, q, "listed")
  /\ \/ /\ q \notin queues
        /\ HookIs(p, q, "done")
        /\ UNCHANGED phase
     \/ q \in queues /\ HookRejects(p, q)
  /\ queues' = queues \cup {q}
  /\ UNCHANGED <<shuttingDown, left, requestVars, starts, faults, excused>>

\* MongoDB or Redis fails; a queue may have been created all the same.
HookFails(p, h) ==
  /\ HookRuns(p, h, "waiting") \/ HookRuns(p, h, "listed")
  /\ Blame(p)
  /\ HookRejects(p, h)
  /\ \/ UNCHANGED queues
     \/ h \in Queues /\ hook[p][h] = "listed" /\ queues' = queues \cup {h}
  /\ UNCHANGED <<shuttingDown, left, requestVars, starts>>

Listen(p) ==
  /\ phase[p] = "init" /\ \A h \in Hooks : hook[p][h] = "done"
  /\ phase' = [phase EXCEPT ![p] = "serving"]
  /\ UNCHANGED <<queues, hook, shuttingDown, left, requestVars, starts, faults, excused>>

-----------------------------------------------------------------------------
(* The end of a process *)

\* Its memory is gone, and so are the requests it was handling.
Ends(p) ==
  /\ phase' = [phase EXCEPT ![p] = "off"]
  /\ hook' = [hook EXCEPT ![p] = [h \in Hooks |-> "waiting"]]
  /\ shuttingDown' = [shuttingDown EXCEPT ![p] = FALSE]
  /\ left' = [left EXCEPT ![p] = Grace]
  /\ request' = [m \in Mails |-> IF m \in At(p) THEN Ended("cut") ELSE request[m]]
  /\ UNCHANGED <<queues, age, stored, sent, starts>>

\* MongoDB cannot be reached.
ConnectFails(p) == phase[p] = "connect" /\ Blame(p) /\ Ends(p)

Crash(p) == phase[p] # "off" /\ Blame(p) /\ Ends(p)

\* SIGTERM before the middleware exists, or without NODE_ENV.
Killed(p) ==
  /\ \/ phase[p] \in {"connect", "create"}
     \/ phase[p] # "off" /\ p \notin NodeEnv
  /\ Ends(p)
  /\ UNCHANGED <<faults, excused>>

\* gracefulExit; a second SIGTERM changes nothing.
GracefulExit(p) ==
  /\ phase[p] \notin {"off", "connect", "create"} /\ p \in NodeEnv
  /\ ~shuttingDown[p]
  /\ shuttingDown' = [shuttingDown EXCEPT ![p] = TRUE]
  /\ UNCHANGED <<queues, phase, hook, left, requestVars, starts, faults, excused>>

\* Mutants: the exit follows httpServer.close at once; it waits for the requests.
ExitDueAtOnce(p) == shuttingDown[p]
ExitDueWhenIdle(p) == shuttingDown[p] /\ left[p] = 0 /\ At(p) = {}

\* The timer of 500 ms runs out, with or without requests that wait. That of
\* FORCE_TIMEOUT never does.
ExitDue(p) == shuttingDown[p] /\ left[p] = 0

Exit(p) == ExitDue(p) /\ Ends(p) /\ UNCHANGED <<faults, excused>>

-----------------------------------------------------------------------------
(* Requests *)

\* Mutant: the middleware lets every request pass.
AdmittedAlways(p) == TRUE

\* MwGracefulShutdown.use.
Admitted(p) == ~shuttingDown[p]

\* POST /api/emails; 503 on a connection that was open when SIGTERM came.
Arrive(p, m) ==
  /\ phase[p] = "serving" /\ request[m] = NoRequest
  /\ request' = [request EXCEPT ![m] =
       IF Admitted(p) THEN [at |-> p, pc |-> "insert"] ELSE Ended("refused")]
  /\ UNCHANGED <<queues, startVars, age, stored, sent, starts, faults, excused>>

\* Mutant: the handler does not wait for the document.
InsertUnawaited(p, m) ==
  /\ request[m] = [at |-> p, pc |-> "insert"]
  /\ request' = [request EXCEPT ![m] = [at |-> p, pc |-> "send"]]
  /\ UNCHANGED <<queues, startVars, age, stored, sent, starts, faults, excused>>

Insert(p, m) ==
  /\ request[m] = [at |-> p, pc |-> "insert"]
  /\ request' = [request EXCEPT ![m] = [at |-> p, pc |-> "send"]]
  /\ stored' = stored \cup {m}
  /\ UNCHANGED <<queues, startVars, age, sent, starts, faults, excused>>

\* The handler rejects: 500, and the document may be there.
InsertFails(p, m) ==
  /\ request[m] = [at |-> p, pc |-> "insert"]
  /\ Blame(m)
  /\ request' = [request EXCEPT ![m] = Ended("error")]
  /\ stored' \in {stored, stored \cup {m}}
  /\ UNCHANGED <<queues, startVars, age, sent, starts>>

\* mainQueue.send, and 201. RSMQ rejects when there is no such queue, and the
\* answer is 201 all the same.
Send(p, m) ==
  /\ request[m] = [at |-> p, pc |-> "send"]
  /\ request' = [request EXCEPT ![m] = Ended("created")]
  /\ sent' = IF "main" \in queues THEN sent \cup {m} ELSE sent
  /\ UNCHANGED <<queues, startVars, age, stored, starts, faults, excused>>

SendFails(p, m) ==
  /\ request[m] = [at |-> p, pc |-> "send"]
  /\ Blame(m)
  /\ request' = [request EXCEPT ![m] = Ended("created")]
  /\ sent' \in {sent, sent \cup {m}}
  /\ UNCHANGED <<queues, startVars, age, stored, starts>>

-----------------------------------------------------------------------------
\* Time passes, but not past the end of a timer.
Tick ==
  /\ \A p \in Procs : ~(shuttingDown[p] /\ left[p] = 0)
  /\ left' = [p \in Procs |-> IF shuttingDown[p] THEN left[p] - 1 ELSE left[p]]
  /\ age' = [m \in Mails |-> IF request[m].at \in Procs /\ age[m] < Grace
                             THEN age[m] + 1 ELSE age[m]]
  /\ UNCHANGED <<queues, phase, hook, shuttingDown, request, stored, sent,
                 starts, faults, excused>>

ServiceNext ==
  \/ \E p \in Procs :
       \/ Start(p) \/ Connected(p) \/ Created(p) \/ Listen(p)
       \/ RestEnds(p)
       \/ \E h \in Hooks : HookFails(p, h)
       \/ \E q \in Queues : ListQueues(p, q) \/ CreateQueue(p, q)
       \/ ConnectFails(p) \/ Crash(p) \/ Killed(p) \/ GracefulExit(p) \/ Exit(p)
       \/ \E m \in Mails : \/ Arrive(p, m) \/ Insert(p, m) \/ InsertFails(p, m)
                           \/ Send(p, m) \/ SendFails(p, m)
  \/ Tick

ServiceSpec == ServiceInit /\ [][ServiceNext]_serviceVars

\* Time passes and timers fire; nothing else is sure to happen.
ServiceFairSpec ==
  ServiceSpec /\ WF_serviceVars(Tick) /\ \A p \in Procs : WF_serviceVars(Exit(p))

-----------------------------------------------------------------------------
(* Properties *)

\* Every variable stays within the values the code gives it; no message names a
\* mail that is not stored.
ServiceTypeOK ==
  /\ queues \subseteq Queues
  /\ phase \in [Procs -> Phase]
  /\ hook \in [Procs -> [Hooks -> {"waiting", "listed", "done", "rejected"}]]
  /\ shuttingDown \in [Procs -> BOOLEAN]
  /\ left \in [Procs -> 0..Grace]
  /\ request \in [Mails -> Request]
  /\ age \in [Mails -> 0..Grace]
  /\ stored \subseteq Mails /\ sent \subseteq stored
  /\ excused \subseteq Procs \cup Mails
  /\ starts \in 0..MaxStarts /\ faults \in 0..MaxFaults

\* A mail whose request was answered with 201 has a message, unless a failure
\* struck that request: no process takes requests before the queue is there,
\* whatever the other one does to it at the same time.
AnsweredIsQueued ==
  \A m \in Mails : request[m].pc = "created" => m \in sent \/ m \in excused

\* Two processes that create the queues at the same time may both fail. But a
\* start that begins when the queues are there fails only on account of MongoDB
\* or Redis.
FailedStartIsExcused == \A p \in Procs : phase[p] = "failed" => p \in excused

\* The exit after SIGTERM cuts only requests that have been under way for the
\* whole delay: none that comes later, and none that ends within it.
NotCutEarly ==
  [][\A p \in Procs : Exit(p) => \A m \in At(p) : age[m] = Grace]_serviceVars

\* A process that got SIGTERM ends, whatever its start and its requests wait for.
TermEnds == \A p \in Procs : shuttingDown[p] ~> phase[p] = "off"
=============================================================================
