------------------------- MODULE ServiceProcessProofs -------------------------
(***************************************************************************)
(* Theorems about ServiceProcess, for every number of processes, requests, *)
(* starts and failures.                                                    *)
(***************************************************************************)
EXTENDS ServiceProcess, TLAPS

-----------------------------------------------------------------------------
(* Types *)

HookState == {"waiting", "listed", "done", "rejected"}

\* ServiceTypeOK, and that a message follows its document: a request that
\* dispatches has stored the mail.
STypeOK == /\ ServiceTypeOK
           /\ \A m \in Mails : request[m].pc = "send" => m \in stored

LEMMA EndsType ==
  ASSUME STypeOK, NEW p \in Procs, Ends(p)
  PROVE  /\ phase' \in [Procs -> Phase] /\ hook' \in [Procs -> [Hooks -> HookState]]
         /\ shuttingDown' \in [Procs -> BOOLEAN] /\ left' \in [Procs -> 0..Grace]
         /\ request' \in [Mails -> Request]
         /\ \A m \in Mails : request'[m].pc = "send" => request'[m] = request[m]
<1>1. Ended("cut") \in Request /\ Ended("cut").pc # "send"
  BY DEF Ended, Request
<1> QED BY <1>1, ServiceAssumption DEF Ends, STypeOK, ServiceTypeOK, Phase, HookState

LEMMA HookType ==
  ASSUME STypeOK, NEW p \in Procs, NEW h \in Hooks, NEW pc \in HookState, HookIs(p, h, pc)
  PROVE  hook' \in [Procs -> [Hooks -> HookState]]
  BY DEF HookIs, STypeOK, ServiceTypeOK, HookState

LEMMA RequestType ==
  ASSUME STypeOK, NEW m \in Mails, NEW to \in Request,
         request' = [request EXCEPT ![m] = to]
  PROVE  /\ request' \in [Mails -> Request]
         /\ \A n \in Mails : n # m => request'[n] = request[n]
         /\ request'[m] = to
  BY DEF STypeOK, ServiceTypeOK

LEMMA STypeNext == STypeOK /\ [ServiceNext]_serviceVars => STypeOK'
<1> SUFFICES ASSUME STypeOK, [ServiceNext]_serviceVars PROVE STypeOK'
  OBVIOUS
<1>0. /\ queues \subseteq Queues /\ phase \in [Procs -> Phase]
      /\ hook \in [Procs -> [Hooks -> HookState]]
      /\ shuttingDown \in [Procs -> BOOLEAN] /\ left \in [Procs -> 0..Grace]
      /\ request \in [Mails -> Request] /\ age \in [Mails -> 0..Grace]
      /\ stored \subseteq Mails /\ sent \subseteq stored
      /\ excused \subseteq Procs \cup Mails
      /\ starts \in 0..MaxStarts /\ faults \in 0..MaxFaults
      /\ \A m \in Mails : request[m].pc = "send" => m \in stored
  BY DEF STypeOK, ServiceTypeOK, HookState
<1> USE ServiceAssumption
<1>1. CASE UNCHANGED serviceVars
  BY <1>0, <1>1 DEF serviceVars, startVars, requestVars, STypeOK, ServiceTypeOK, HookState
<1>2. ASSUME NEW p \in Procs, Start(p) \/ Connected(p) \/ Created(p) \/ Listen(p)
      PROVE  STypeOK'
  <2>1. phase' \in [Procs -> Phase]
    BY <1>0, <1>2 DEF Start, Connected, Created, Listen, Phase
  <2>2. starts' \in 0..MaxStarts /\ excused' \subseteq Procs \cup Mails
    BY <1>0, <1>2 DEF Start, Connected, Created, Listen
  <2> QED BY <1>0, <1>2, <2>1, <2>2 DEF Start, Connected, Created, Listen, requestVars,
                                       STypeOK, ServiceTypeOK, HookState
<1>3. ASSUME NEW p \in Procs, RestEnds(p) PROVE STypeOK'
  <2>1. hook' \in [Procs -> [Hooks -> HookState]]
    BY <1>3, HookType DEF RestEnds, Hooks, HookState
  <2> QED BY <1>0, <1>3, <2>1 DEF RestEnds, requestVars, STypeOK, ServiceTypeOK, HookState
<1>4. ASSUME NEW p \in Procs, NEW q \in Queues, ListQueues(p, q) PROVE STypeOK'
  <2>1. hook' \in [Procs -> [Hooks -> HookState]]
    BY <1>4, HookType DEF ListQueues, Listed, Hooks, HookState
  <2> QED BY <1>0, <1>4, <2>1 DEF ListQueues, requestVars, STypeOK, ServiceTypeOK, HookState
<1>5. ASSUME NEW p \in Procs, NEW q \in Queues, CreateQueue(p, q) PROVE STypeOK'
  <2>1. hook' \in [Procs -> [Hooks -> HookState]]
    BY <1>5, HookType DEF CreateQueue, HookRejects, Hooks, HookState
  <2>2. phase' \in [Procs -> Phase] /\ queues' \subseteq Queues
    BY <1>0, <1>5 DEF CreateQueue, HookRejects, Phase
  <2> QED BY <1>0, <1>5, <2>1, <2>2 DEF CreateQueue, requestVars, STypeOK, ServiceTypeOK,
                                       HookState
<1>6. ASSUME NEW p \in Procs, NEW h \in Hooks, HookFails(p, h) PROVE STypeOK'
  <2>1. hook' \in [Procs -> [Hooks -> HookState]]
    BY <1>6, HookType DEF HookFails, HookRejects, HookState
  <2>2. phase' \in [Procs -> Phase]
    BY <1>0, <1>6 DEF HookFails, HookRejects, Phase
  <2>3. faults' \in 0..MaxFaults /\ excused' \subseteq Procs \cup Mails
    BY <1>0, <1>6 DEF HookFails, Blame
  <2>4. queues' \subseteq Queues
    BY <1>0, <1>6 DEF HookFails
  <2> QED BY <1>0, <1>6, <2>1, <2>2, <2>3, <2>4 DEF HookFails, requestVars, STypeOK,
                                       ServiceTypeOK, HookState
<1>7. ASSUME NEW p \in Procs, ConnectFails(p) \/ Crash(p) \/ Killed(p) \/ Exit(p)
      PROVE  STypeOK'
  <2>1. Ends(p)
    BY <1>7 DEF ConnectFails, Crash, Killed, Exit
  <2>2. faults' \in 0..MaxFaults /\ excused' \subseteq Procs \cup Mails
    BY <1>0, <1>7 DEF ConnectFails, Crash, Killed, Exit, Blame
  <2> QED BY <1>0, <2>1, <2>2, EndsType DEF Ends, STypeOK, ServiceTypeOK, HookState
<1>8. ASSUME NEW p \in Procs, GracefulExit(p) PROVE STypeOK'
  <2>1. shuttingDown' \in [Procs -> BOOLEAN]
    BY <1>0, <1>8 DEF GracefulExit
  <2> QED BY <1>0, <1>8, <2>1 DEF GracefulExit, requestVars, STypeOK, ServiceTypeOK, HookState
<1>9. ASSUME NEW p \in Procs, NEW m \in Mails,
             \/ Arrive(p, m) \/ Insert(p, m) \/ InsertFails(p, m)
             \/ Send(p, m) \/ SendFails(p, m)
      PROVE  STypeOK'
  <2>1. \E to \in Request : /\ request' = [request EXCEPT ![m] = to]
                            /\ to.pc = "send" => Insert(p, m)
    <3>1. /\ \A pc \in {"created", "error", "refused"} :
               Ended(pc) \in Request /\ Ended(pc).pc # "send"
          /\ \A pc \in {"insert", "send"} : [at |-> p, pc |-> pc] \in Request
          /\ [at |-> p, pc |-> "insert"].pc # "send"
      BY DEF Ended, Request
    <3>2. CASE Arrive(p, m)
      BY <3>1, <3>2 DEF Arrive
    <3>3. CASE Insert(p, m)
      BY <3>1, <3>3 DEF Insert
    <3>4. CASE InsertFails(p, m) \/ Send(p, m) \/ SendFails(p, m)
      BY <3>1, <3>4 DEF InsertFails, Send, SendFails
    <3> QED BY <1>9, <3>2, <3>3, <3>4
  <2>2. /\ request' \in [Mails -> Request]
        /\ \A n \in Mails : n # m => request'[n] = request[n]
        /\ request'[m].pc = "send" => Insert(p, m)
    BY <2>1, RequestType
  <2>3. /\ stored \subseteq stored' /\ stored' \subseteq Mails
        /\ Insert(p, m) => m \in stored'
    BY <1>0, <1>9 DEF Arrive, Insert, InsertFails, Send, SendFails
  <2>4. sent' \subseteq stored'
    BY <1>0, <1>9, <2>3 DEF Arrive, Insert, InsertFails, Send, SendFails
  <2>5. faults' \in 0..MaxFaults /\ excused' \subseteq Procs \cup Mails
    BY <1>0, <1>9 DEF Arrive, Insert, InsertFails, Send, SendFails, Blame
  <2>6. UNCHANGED <<queues, phase, hook, shuttingDown, left, age, starts>>
    BY <1>9 DEF Arrive, Insert, InsertFails, Send, SendFails, startVars
  <2> QED BY <1>0, <2>2, <2>3, <2>4, <2>5, <2>6 DEF STypeOK, ServiceTypeOK, HookState
<1>10. CASE Tick
  <2>1. left' \in [Procs -> 0..Grace]
    <3>1. ASSUME NEW p \in Procs, shuttingDown[p] PROVE left[p] - 1 \in 0..Grace
      <4>1. left[p] \in 0..Grace /\ left[p] # 0
        BY <1>0, <1>10, <3>1 DEF Tick
      <4> QED BY <4>1
    <3> QED BY <1>0, <1>10, <3>1 DEF Tick
  <2>2. age' \in [Mails -> 0..Grace]
    <3>1. \A m \in Mails : age[m] < Grace => age[m] + 1 \in 0..Grace
      BY <1>0
    <3> QED BY <1>0, <1>10, <3>1 DEF Tick
  <2> QED BY <1>0, <1>10, <2>1, <2>2 DEF Tick, STypeOK, ServiceTypeOK, HookState
<1> QED BY <1>1, <1>2, <1>3, <1>4, <1>5, <1>6, <1>7, <1>8, <1>9, <1>10 DEF ServiceNext

\* The variables of a process and of its requests stay within their types, and
\* no message is sent for a mail that is not stored.
THEOREM ServiceTypeCorrect == ServiceSpec => []ServiceTypeOK
<1>1. ServiceInit => STypeOK
  BY ServiceAssumption DEF ServiceInit, STypeOK, ServiceTypeOK, Phase, Request, NoRequest
<1>2. STypeOK => ServiceTypeOK
  BY DEF STypeOK
<1> QED BY <1>1, <1>2, STypeNext, PTL DEF ServiceSpec

-----------------------------------------------------------------------------
(* The start of a process, and what it means for the requests it takes *)

\* A hook that is done has its queue; a process serves when all of them are, and
\* only it takes requests.
QueueReady ==
  /\ \A p \in Procs : \A q \in Queues : hook[p][q] = "done" => q \in queues
  /\ \A p \in Procs : phase[p] = "serving" => hook[p]["main"] = "done"
  /\ \A m \in Mails : request[m].pc \in {"insert", "send"} => "main" \in queues

\* A process that has begun with the queues there finds them there.
CleanStart ==
  \A p \in Procs :
    /\ phase[p] \in {"off", "connect", "create"} => \A h \in Hooks : hook[p][h] = "waiting"
    /\ p \notin excused /\ phase[p] # "off" =>
         /\ queues = Queues /\ phase[p] # "failed"
         /\ \A q \in Queues : hook[p][q] # "listed"

StartInv == STypeOK /\ QueueReady /\ CleanStart /\ AnsweredIsQueued

LEMMA QueueReadyNext == STypeOK /\ QueueReady /\ [ServiceNext]_serviceVars => QueueReady'
<1> SUFFICES ASSUME STypeOK, QueueReady, [ServiceNext]_serviceVars PROVE QueueReady'
  OBVIOUS
<1>0. /\ phase \in [Procs -> Phase] /\ hook \in [Procs -> [Hooks -> HookState]]
      /\ request \in [Mails -> Request] /\ queues \subseteq Queues
      /\ "main" \in Hooks /\ Queues \subseteq Hooks /\ "main" \in Queues
  BY DEF STypeOK, ServiceTypeOK, HookState, Hooks, Queues
<1>1. CASE UNCHANGED serviceVars
  BY <1>1 DEF serviceVars, startVars, requestVars, QueueReady
<1>2. ASSUME NEW p \in Procs, Start(p) \/ Connected(p) \/ Created(p) \/ Listen(p)
      PROVE  QueueReady'
  BY <1>0, <1>2 DEF Start, Connected, Created, Listen, requestVars, QueueReady
<1>3. ASSUME NEW p \in Procs, NEW h \in Hooks,
             \/ h = "rest" /\ RestEnds(p)
             \/ h \in Queues /\ (ListQueues(p, h) \/ CreateQueue(p, h))
             \/ HookFails(p, h)
      PROVE  QueueReady'
  <2>1. queues \subseteq queues' /\ request' = request
    BY <1>3 DEF RestEnds, ListQueues, CreateQueue, HookFails, requestVars
  <2>2. PICK pc \in HookState : /\ hook' = [hook EXCEPT ![p][h] = pc]
                                /\ pc = "done" /\ h \in Queues => h \in queues'
    BY <1>3 DEF RestEnds, ListQueues, Listed, CreateQueue, HookFails, HookRejects, HookIs,
                HookState, Queues
  <2>3. phase[p] # "serving" /\ phase'[p] # "serving"
        /\ \A r \in Procs : r # p => phase'[r] = phase[r]
    BY <1>0, <1>3 DEF RestEnds, ListQueues, CreateQueue, HookFails, HookRejects, HookRuns
  <2>4. \A r \in Procs, k \in Hooks : r # p \/ k # h => hook'[r][k] = hook[r][k]
    BY <1>0, <2>2
  <2>5. hook'[p][h] = pc
    BY <1>0, <2>2
  <2>6. \A r \in Procs : \A q \in Queues : hook'[r][q] = "done" => q \in queues'
    BY <1>0, <2>1, <2>2, <2>4, <2>5 DEF QueueReady
  <2>7. \A r \in Procs : phase'[r] = "serving" => hook'[r]["main"] = "done"
    BY <1>0, <2>3, <2>4 DEF QueueReady
  <2> QED BY <2>1, <2>6, <2>7 DEF QueueReady
<1>4. ASSUME NEW p \in Procs, Ends(p) PROVE QueueReady'
  <2>1. Ended("cut").pc \notin {"insert", "send"}
    BY DEF Ended
  <2> QED BY <1>0, <1>4, <2>1 DEF Ends, QueueReady
<1>5. ASSUME NEW p \in Procs, GracefulExit(p) PROVE QueueReady'
  BY <1>5 DEF GracefulExit, requestVars, QueueReady
<1>6. ASSUME NEW p \in Procs, NEW m \in Mails,
             \/ Arrive(p, m) \/ Insert(p, m) \/ InsertFails(p, m)
             \/ Send(p, m) \/ SendFails(p, m)
      PROVE  QueueReady'
  <2>1. UNCHANGED <<queues, phase, hook>>
    BY <1>6 DEF Arrive, Insert, InsertFails, Send, SendFails, startVars
  <2>2. \A n \in Mails : n # m => request'[n] = request[n]
    BY <1>0, <1>6 DEF Arrive, Insert, InsertFails, Send, SendFails
  <2>3. CASE Arrive(p, m)
    BY <1>0, <2>1, <2>2, <2>3 DEF Arrive, QueueReady
  <2>4. CASE ~Arrive(p, m)
    <3>1. request[m].pc \in {"insert", "send"}
      BY <1>6, <2>4 DEF Insert, InsertFails, Send, SendFails
    <3> QED BY <2>1, <2>2, <3>1 DEF QueueReady
  <2> QED BY <2>3, <2>4
<1>7. CASE Tick
  BY <1>7 DEF Tick, QueueReady
<1> QED BY <1>1, <1>2, <1>3, <1>4, <1>5, <1>6, <1>7
        DEF ServiceNext, Hooks, ConnectFails, Crash, Killed, Exit

LEMMA CleanStartNext == STypeOK /\ CleanStart /\ [ServiceNext]_serviceVars => CleanStart'
<1> SUFFICES ASSUME STypeOK, CleanStart, [ServiceNext]_serviceVars PROVE CleanStart'
  OBVIOUS
<1>0. /\ phase \in [Procs -> Phase] /\ hook \in [Procs -> [Hooks -> HookState]]
      /\ queues \subseteq Queues /\ Queues \subseteq Hooks
  BY DEF STypeOK, ServiceTypeOK, HookState, Hooks
<1> USE ServiceAssumption
<1>1. CASE UNCHANGED serviceVars
  BY <1>1 DEF serviceVars, startVars, CleanStart
<1>2. ASSUME NEW p \in Procs, Start(p) PROVE CleanStart'
  <2>1. \A q \in Queues : hook[p][q] # "listed"
    BY <1>0, <1>2 DEF Start, CleanStart
  <2>2. /\ phase'[p] = "connect" /\ UNCHANGED <<queues, hook>>
        /\ p \notin excused' => queues = Queues
        /\ \A r \in Procs : r # p => /\ phase'[r] = phase[r]
                                     /\ r \in excused => r \in excused'
    BY <1>0, <1>2 DEF Start
  <2>3. \A h \in Hooks : hook[p][h] = "waiting"
    BY <1>2 DEF Start, CleanStart
  <2> QED BY <1>0, <2>1, <2>2, <2>3 DEF CleanStart
<1>3. ASSUME NEW p \in Procs, Connected(p) \/ Created(p) \/ Listen(p)
      PROVE  CleanStart'
  BY <1>0, <1>3 DEF Connected, Created, Listen, CleanStart
<1>4. ASSUME NEW p \in Procs, NEW h \in Hooks,
             \/ h = "rest" /\ RestEnds(p)
             \/ h \in Queues /\ (ListQueues(p, h) \/ CreateQueue(p, h))
             \/ HookFails(p, h)
      PROVE  CleanStart'
  <2>1. queues \subseteq queues' /\ queues' \subseteq Queues /\ excused \subseteq excused'
    BY <1>0, <1>4 DEF RestEnds, ListQueues, CreateQueue, HookFails, Blame
  <2>2. /\ phase'[p] \in {"init", "failed"}
        /\ \A r \in Procs : r # p => phase'[r] = phase[r] /\ hook'[r] = hook[r]
    BY <1>0, <1>4 DEF RestEnds, ListQueues, CreateQueue, HookFails, HookRejects, HookRuns, HookIs
  <2>3. ASSUME p \notin excused'
        PROVE  /\ queues' = Queues /\ phase'[p] # "failed"
               /\ \A q \in Queues : hook'[p][q] # "listed"
    <3>1. p \notin excused /\ phase[p] # "off"
      BY <1>4, <2>1, <2>3 DEF RestEnds, ListQueues, CreateQueue, HookFails, HookRuns
    <3>2. /\ queues = Queues /\ phase[p] # "failed"
          /\ \A q \in Queues : hook[p][q] # "listed"
      BY <3>1 DEF CleanStart
    <3>3. \/ h = "rest" /\ RestEnds(p)
          \/ h \in Queues /\ ListQueues(p, h)
      BY <1>4, <2>3, <3>2 DEF CreateQueue, HookFails, HookRuns, Blame
    <3> QED BY <1>0, <2>1, <3>2, <3>3 DEF RestEnds, ListQueues, Listed, HookIs
  <2> QED BY <2>1, <2>2, <2>3 DEF CleanStart
<1>5. ASSUME NEW p \in Procs, Ends(p), excused \subseteq excused' PROVE CleanStart'
  BY <1>0, <1>5 DEF Ends, CleanStart
<1>6. ASSUME NEW p \in Procs, GracefulExit(p) PROVE CleanStart'
  BY <1>6 DEF GracefulExit, CleanStart
<1>7. ASSUME NEW p \in Procs, NEW m \in Mails,
             \/ Arrive(p, m) \/ Insert(p, m) \/ InsertFails(p, m)
             \/ Send(p, m) \/ SendFails(p, m)
      PROVE  CleanStart'
  <2>1. UNCHANGED <<queues, phase, hook>> /\ excused \subseteq excused'
    BY <1>7 DEF Arrive, Insert, InsertFails, Send, SendFails, startVars, Blame
  <2> QED BY <2>1 DEF CleanStart
<1>8. CASE Tick
  BY <1>8 DEF Tick, CleanStart
<1> QED BY <1>1, <1>2, <1>3, <1>4, <1>5, <1>6, <1>7, <1>8
        DEF ServiceNext, Hooks, ConnectFails, Crash, Killed, Exit, Blame

LEMMA AnsweredNext ==
  STypeOK /\ QueueReady /\ AnsweredIsQueued /\ [ServiceNext]_serviceVars => AnsweredIsQueued'
<1> SUFFICES ASSUME STypeOK, QueueReady, AnsweredIsQueued, [ServiceNext]_serviceVars
             PROVE  AnsweredIsQueued'
  OBVIOUS
<1>0. request \in [Mails -> Request] /\ sent \subseteq Mails
  BY DEF STypeOK, ServiceTypeOK
<1>1. CASE UNCHANGED <<sent, request>> /\ \A m \in Mails : m \in excused => m \in excused'
  BY <1>1 DEF AnsweredIsQueued
<1>2. ASSUME NEW p \in Procs, Start(p) PROVE AnsweredIsQueued'
  <2>1. \A m \in Mails : m # p
    BY ServiceAssumption
  <2>2. \A m \in Mails : m \in excused => m \in excused'
    BY <1>2, <2>1 DEF Start
  <2> QED BY <1>1, <1>2, <2>2 DEF Start, requestVars
<1>3. ASSUME NEW p \in Procs, Ends(p), excused \subseteq excused' PROVE AnsweredIsQueued'
  <2>1. Ended("cut").pc # "created"
    BY DEF Ended
  <2> QED BY <1>0, <1>3, <2>1 DEF Ends, AnsweredIsQueued
<1>4. ASSUME NEW p \in Procs, NEW m \in Mails,
             Arrive(p, m) \/ Insert(p, m) \/ InsertFails(p, m)
      PROVE  AnsweredIsQueued'
  <2>1. /\ request'[m].pc # "created"
        /\ \A n \in Mails : n # m => request'[n] = request[n]
    BY <1>0, <1>4 DEF Arrive, Insert, InsertFails, Ended
  <2>2. sent' = sent /\ excused \subseteq excused'
    BY <1>4 DEF Arrive, Insert, InsertFails, Blame
  <2> QED BY <2>1, <2>2 DEF AnsweredIsQueued
<1>5. ASSUME NEW p \in Procs, NEW m \in Mails, Send(p, m) \/ SendFails(p, m)
      PROVE  AnsweredIsQueued'
  <2>1. /\ m \in sent' \/ m \in excused'
        /\ \A n \in Mails : n # m => request'[n] = request[n]
    BY <1>0, <1>5 DEF Send, SendFails, Ended, QueueReady, Blame
  <2>2. sent \subseteq sent' /\ excused \subseteq excused'
    BY <1>5 DEF Send, SendFails, Blame
  <2> QED BY <2>1, <2>2 DEF AnsweredIsQueued
<1>6. CASE UNCHANGED serviceVars
  BY <1>1, <1>6 DEF serviceVars, requestVars
<1>7. CASE Tick
  BY <1>1, <1>7 DEF Tick
<1>8. ASSUME NEW p \in Procs,
             \/ Connected(p) \/ Created(p) \/ Listen(p) \/ RestEnds(p) \/ GracefulExit(p)
             \/ \E h \in Hooks : HookFails(p, h)
             \/ \E q \in Queues : ListQueues(p, q) \/ CreateQueue(p, q)
      PROVE  AnsweredIsQueued'
  BY <1>1, <1>8 DEF Connected, Created, Listen, RestEnds, GracefulExit, HookFails,
                   ListQueues, CreateQueue, Blame, requestVars
<1> QED BY <1>2, <1>3, <1>4, <1>5, <1>6, <1>7, <1>8
        DEF ServiceNext, ConnectFails, Crash, Killed, Exit, Blame

LEMMA ServiceInvariantStart == ServiceSpec => []StartInv
<1>1. ServiceInit => StartInv
  BY ServiceAssumption DEF ServiceInit, StartInv, STypeOK, ServiceTypeOK, Phase, Request,
     NoRequest, QueueReady, CleanStart, AnsweredIsQueued, Hooks
<1>2. StartInv /\ [ServiceNext]_serviceVars => StartInv'
  BY STypeNext, QueueReadyNext, CleanStartNext, AnsweredNext DEF StartInv
<1> QED BY <1>1, <1>2, PTL DEF ServiceSpec

\* A request answered with 201 has its message unless a failure struck it: the
\* hooks of a process end before it listens, and nobody deletes a queue.
THEOREM AnsweredIsQueuedHolds == ServiceSpec => []AnsweredIsQueued
<1>1. StartInv => AnsweredIsQueued
  BY DEF StartInv
<1> QED BY <1>1, ServiceInvariantStart, PTL

\* Of two processes that create the queues at the same time one may fail, or both;
\* a start that found them there when it began does not, unless MongoDB or Redis
\* does.
THEOREM FailedStartIsExcusedHolds == ServiceSpec => []FailedStartIsExcused
<1>1. StartInv => FailedStartIsExcused
  BY DEF StartInv, CleanStart, FailedStartIsExcused
<1> QED BY <1>1, ServiceInvariantStart, PTL

-----------------------------------------------------------------------------
(* The end of a process *)

\* What the exit waits for and how long a request has been under way make up the
\* whole delay: requests come before SIGTERM.
Paced ==
  \A p \in Procs :
    /\ ~shuttingDown[p] => left[p] = Grace
    /\ \A m \in At(p) : age[m] + left[p] >= Grace

PaceInv == STypeOK /\ Paced

LEMMA PacedNext == STypeOK /\ Paced /\ [ServiceNext]_serviceVars => Paced'
<1> SUFFICES ASSUME STypeOK, Paced, [ServiceNext]_serviceVars PROVE Paced'
  OBVIOUS
<1>0. /\ shuttingDown \in [Procs -> BOOLEAN] /\ left \in [Procs -> 0..Grace]
      /\ request \in [Mails -> Request] /\ age \in [Mails -> 0..Grace]
      /\ Grace \in Nat
  BY ServiceAssumption DEF STypeOK, ServiceTypeOK
<1> USE ServiceAssumption
<1>1. CASE UNCHANGED <<shuttingDown, left, request, age>>
  BY <1>1 DEF Paced, At
<1>2. ASSUME NEW p \in Procs, Ends(p) PROVE Paced'
  <2>1. \A r \in Procs : r # p => shuttingDown'[r] = shuttingDown[r] /\ left'[r] = left[r]
    BY <1>0, <1>2 DEF Ends
  <2>2. shuttingDown'[p] = FALSE /\ left'[p] = Grace
    BY <1>0, <1>2 DEF Ends
  <2>3. \A r \in Procs : \A m \in Mails :
          request'[m].at = r => r # p /\ request[m].at = r
    BY <1>0, <1>2 DEF Ends, Ended, At
  <2>4. age' = age
    BY <1>2 DEF Ends
  <2> QED BY <2>1, <2>2, <2>3, <2>4 DEF Paced, At
<1>3. ASSUME NEW p \in Procs, GracefulExit(p) PROVE Paced'
  <2>1. \A r \in Procs : ~shuttingDown'[r] => ~shuttingDown[r]
    BY <1>0, <1>3 DEF GracefulExit
  <2> QED BY <1>3, <2>1 DEF GracefulExit, requestVars, Paced, At
<1>4. ASSUME NEW p \in Procs, NEW m \in Mails,
             \/ Arrive(p, m) \/ Insert(p, m) \/ InsertFails(p, m)
             \/ Send(p, m) \/ SendFails(p, m)
      PROVE  Paced'
  <2>1. UNCHANGED <<shuttingDown, left, age>>
    BY <1>4 DEF Arrive, Insert, InsertFails, Send, SendFails, startVars
  <2>2. \A n \in Mails : n # m => request'[n] = request[n]
    BY <1>0, <1>4 DEF Arrive, Insert, InsertFails, Send, SendFails
  <2>3. \A r \in Procs : request'[m].at = r => left[r] = Grace \/ request[m].at = r
    BY <1>0, <1>4 DEF Arrive, Admitted, Insert, InsertFails, Send, SendFails, Ended, Paced
  <2>4. \A r \in Procs : left[r] = Grace => age[m] + left[r] >= Grace
    BY <1>0
  <2> QED BY <1>0, <2>1, <2>2, <2>3, <2>4 DEF Paced, At
<1>5. CASE Tick
  <2>1. ASSUME NEW p \in Procs PROVE ~shuttingDown'[p] => left'[p] = Grace
    BY <1>0, <1>5, <2>1 DEF Tick, Paced
  <2>2. ASSUME NEW p \in Procs, NEW m \in At(p)' PROVE age'[m] + left'[p] >= Grace
    <3>1. m \in Mails /\ request[m].at = p /\ m \in At(p)
      BY <1>5, <2>2 DEF Tick, At
    <3>2. age[m] + left[p] >= Grace /\ age[m] \in 0..Grace /\ left[p] \in 0..Grace
      BY <1>0, <3>1 DEF Paced
    <3>3. age'[m] = IF age[m] < Grace THEN age[m] + 1 ELSE age[m]
      BY <1>5, <2>2, <3>1 DEF Tick
    <3>4. CASE shuttingDown[p]
      <4>1. left'[p] = left[p] - 1 /\ left[p] # 0
        BY <1>0, <1>5, <3>4 DEF Tick
      <4> QED BY <1>0, <3>2, <3>3, <4>1
    <3>5. CASE ~shuttingDown[p]
      <4>1. left'[p] = left[p]
        BY <1>0, <1>5, <3>5 DEF Tick
      <4> QED BY <1>0, <3>2, <3>3, <4>1
    <3> QED BY <3>4, <3>5
  <2> QED BY <2>1, <2>2 DEF Paced
<1>6. CASE UNCHANGED serviceVars
  BY <1>1, <1>6 DEF serviceVars, startVars, requestVars
<1>7. ASSUME NEW p \in Procs,
             \/ Start(p) \/ Connected(p) \/ Created(p) \/ Listen(p) \/ RestEnds(p)
             \/ \E h \in Hooks : HookFails(p, h)
             \/ \E q \in Queues : ListQueues(p, q) \/ CreateQueue(p, q)
      PROVE  Paced'
  BY <1>1, <1>7 DEF Start, Connected, Created, Listen, RestEnds, HookFails, ListQueues,
                   CreateQueue, requestVars
<1> QED BY <1>2, <1>3, <1>4, <1>5, <1>6, <1>7
        DEF ServiceNext, ConnectFails, Crash, Killed, Exit

\* The exit cuts no request that came after SIGTERM, and none that has had less
\* than the whole delay.
THEOREM NotCutEarlyHolds == ServiceSpec => NotCutEarly
<1>1. ServiceInit => PaceInv
  <2>1. ServiceInit => STypeOK
    BY ServiceAssumption DEF ServiceInit, STypeOK, ServiceTypeOK, Phase, Request, NoRequest
  <2>2. ServiceInit => Paced
    <3> SUFFICES ASSUME ServiceInit PROVE Paced
      OBVIOUS
    <3>1. \A m \in Mails : request[m].at = "nowhere"
      BY DEF ServiceInit, NoRequest
    <3>2. \A p \in Procs : At(p) = {}
      BY <3>1, ServiceAssumption DEF At
    <3>3. \A p \in Procs : left[p] = Grace
      BY DEF ServiceInit
    <3> QED BY <3>2, <3>3 DEF Paced
  <2> QED BY <2>1, <2>2 DEF PaceInv
<1>2. PaceInv /\ [ServiceNext]_serviceVars => PaceInv'
  BY STypeNext, PacedNext DEF PaceInv
<1>3. PaceInv => [\A p \in Procs : Exit(p) => \A m \in At(p) : age[m] = Grace]_serviceVars
  <2> SUFFICES ASSUME PaceInv, NEW p \in Procs, Exit(p), NEW m \in At(p)
               PROVE  age[m] = Grace
    OBVIOUS
  <2>1. left[p] = 0 /\ age[m] + left[p] >= Grace
    BY DEF Exit, ExitDue, PaceInv, Paced
  <2>2. age[m] \in 0..Grace
    BY DEF PaceInv, STypeOK, ServiceTypeOK, At
  <2> QED BY <2>1, <2>2, ServiceAssumption
<1> QED BY <1>1, <1>2, <1>3, PTL DEF ServiceSpec, NotCutEarly
=============================================================================
