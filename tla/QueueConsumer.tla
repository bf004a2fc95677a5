----------------------------- MODULE QueueConsumer -----------------------------
(***************************************************************************)
(* The pace of the queue consumer (services/queue/queue.consumer.base.ts)  *)
(* against the visibility timeout of the queue (queue.base.ts): windows of *)
(* bufferTime, Bluebird.map with its concurrency in each of them, the idle *)
(* ticker and what it prefetches. onMesage is its result, after a time.    *)
(*                                                                         *)
(* Time goes in ticks of the length of the ticker's period. What takes     *)
(* milliseconds (a call to Redis, the window of 50 ms) takes no tick:      *)
(* Tick waits until nothing of the kind is left to do.                     *)
(***************************************************************************)
EXTENDS Naturals, SequencesExt

CONSTANTS
  MsgIds,        \* messages, each sent once
  Procs,         \* worker processes
  MaxWindows,    \* bound: windows of one process under way at once
  Concurrency,   \* concurrency of Bluebird.map
  MaxFetch,      \* QUEUE_MAXFETCH
  MaxIdle,       \* QUEUE_MAXIDLE, in ticks
  Vt,            \* vt of the queue, in ticks
  RetryVt,       \* QUEUE_RETRY_CHECK, in ticks
  AttemptTicks,  \* the longest an attempt takes, in ticks
  MaxFaults,     \* bound: failures, retries of onMesage among them
  Event, NoMsg

ASSUME ConsumerAssumption ==
  /\ Event \notin MsgIds /\ NoMsg \notin MsgIds /\ IsFiniteSet(MsgIds)
  /\ {MaxWindows, Concurrency, MaxFetch, Vt, RetryVt, AttemptTicks} \subseteq Nat \ {0}
  /\ RetryVt <= Vt
  /\ MaxIdle \in Nat /\ MaxFaults \in Nat

VARIABLES
  stored,    \* stored[id]: whether RSMQ has message id
  hide,      \* hide[id]: ticks until it is visible
  buffer,    \* buffer[p]: items of the window that is open
  waiting,   \* waiting[p][w]: items of a closed window that wait for a place
  place,     \* place[p][w][k]: an attempt of that window
  fetches,   \* fetches[p]: what tryFetchOnIdle may still receive
  quiet,     \* quiet[p]: ticks since lastProcessOn, as far as MaxIdle + 1
  faults     \* failures so far (MaxFaults bounds them)

queueVars   == <<stored, hide>>
processVars == <<buffer, waiting, place, fetches, quiet>>
consumerVars == <<queueVars, processVars, faults>>

-----------------------------------------------------------------------------
Free == [msg |-> NoMsg, left |-> 0]
AttemptOf(id) == [msg |-> id, left |-> AttemptTicks]

Windows == 1..MaxWindows

Items == MsgIds \cup {Event}

NoBatch == [w \in Windows |-> <<>>]
NoPlace == [w \in Windows |-> [k \in 1..Concurrency |-> Free]]

FreePlaces(p, w) == {k \in 1..Concurrency : place[p][w][k] = Free}
WindowOver(p, w) == waiting[p][w] = <<>> /\ FreePlaces(p, w) = 1..Concurrency

Visible == {id \in MsgIds : stored[id] = "queued" /\ hide[id] = 0}

\* The message is somewhere in a process: prefetched, or attempted.
Held(id) ==
  \E p \in Procs : \/ id \in ToSet(buffer[p])
                   \/ \E w \in Windows : \/ id \in ToSet(waiting[p][w])
                                         \/ \E k \in 1..Concurrency : place[p][w][k].msg = id

Blame == faults < MaxFaults /\ faults' = faults + 1

ConsumerInit ==
  /\ stored  = [id \in MsgIds |-> "unsent"]
  /\ hide    = [id \in MsgIds |-> 0]
  /\ buffer  = [p \in Procs |-> <<>>]
  /\ waiting = [p \in Procs |-> NoBatch]
  /\ place   = [p \in Procs |-> NoPlace]
  /\ fetches = [p \in Procs |-> 0]
  /\ quiet   = [p \in Procs |-> 0]
  /\ faults  = 0

-----------------------------------------------------------------------------
(* The queue *)

\* QueueBase.send, with realtime: each process hears of it, or misses it.
Send(id) ==
  /\ stored[id] = "unsent"
  /\ stored' = [stored EXCEPT ![id] = "queued"]
  /\ \E heard \in SUBSET Procs :
       buffer' = [p \in Procs |-> IF p \in heard THEN Append(buffer[p], Event)
                                                 ELSE buffer[p]]
  /\ UNCHANGED <<hide, waiting, place, fetches, quiet, faults>>

\* Mutant: the queue is created with the timeout of a retry.
ReceivedShort(id) == [hide EXCEPT ![id] = RetryVt]

\* What receive() does to the queue.
Received(id) == [hide EXCEPT ![id] = Vt]

\* receive() rejects, and RSMQ may have hidden a message all the same.
ReceiveRejects ==
  /\ Blame
  /\ hide' \in {hide} \cup {Received(id) : id \in Visible}

-----------------------------------------------------------------------------
(* initRx: the windows, and Bluebird.map in each of them *)

CloseWindow(p) ==
  /\ buffer[p] # <<>>
  /\ \E w \in Windows :
       /\ WindowOver(p, w) /\ \A v \in 1..w - 1 : ~WindowOver(p, v)
       /\ waiting' = [waiting EXCEPT ![p][w] = buffer[p]]
  /\ buffer' = [buffer EXCEPT ![p] = <<>>]
  /\ UNCHANGED <<queueVars, place, fetches, quiet, faults>>

\* Which of the items that wait is next, Bluebird does not say.
Leave(p, w, i) == waiting' = [waiting EXCEPT ![p][w] = RemoveAt(@, i)]

Begin(p, w, i, id) ==
  /\ place' = [place EXCEPT ![p][w][Min(FreePlaces(p, w))] = AttemptOf(id)]
  /\ Leave(p, w, i)

\* attempProcessMessage of a prefetched message.
AttemptPrefetched(p, w) ==
  /\ FreePlaces(p, w) # {}
  /\ \E i \in DOMAIN waiting[p][w] :
       waiting[p][w][i] # Event /\ Begin(p, w, i, waiting[p][w][i])
  /\ UNCHANGED <<queueVars, buffer, fetches, quiet, faults>>

\* attempProcessMessage of an event: it receives a message, if there is one.
AttemptReceived(p, w) ==
  /\ FreePlaces(p, w) # {}
  /\ \E i \in DOMAIN waiting[p][w] :
       /\ waiting[p][w][i] = Event
       /\ \/ \E id \in Visible : hide' = Received(id) /\ Begin(p, w, i, id)
          \/ Visible = {} /\ Leave(p, w, i) /\ UNCHANGED <<hide, place>>
  /\ UNCHANGED <<stored, buffer, fetches, quiet, faults>>

\* Its receive() rejects, outside of the try block: Bluebird.map rejects, and
\* what waits in the window is never attempted.
AttemptRejects(p, w) ==
  /\ FreePlaces(p, w) # {}
  /\ Event \in ToSet(waiting[p][w])
  /\ ReceiveRejects
  /\ waiting' = [waiting EXCEPT ![p][w] = <<>>]
  /\ UNCHANGED <<stored, buffer, place, fetches, quiet>>

-----------------------------------------------------------------------------
(* attempProcessMessage after onMesage *)

\* An attempt ends: the finally block.
Ends(p, w, k) ==
  /\ place[p][w][k] # Free
  /\ place' = [place EXCEPT ![p][w][k] = Free]
  /\ quiet' = [quiet EXCEPT ![p] = 0]
  /\ UNCHANGED <<buffer, waiting, fetches>>

\* Success or Outdated: delete.
Finish(p, w, k) ==
  /\ Ends(p, w, k)
  /\ stored' = [stored EXCEPT ![place[p][w][k].msg] = "deleted"]
  /\ UNCHANGED <<hide, faults>>

\* Mutant: the message of a Retry is deleted like the others.
PutBackDeletes(id) == stored' = [stored EXCEPT ![id] = "deleted"] /\ UNCHANGED hide

\* updateVisibility: it finds nothing when the message is deleted.
PutBack(id) ==
  /\ hide' = IF stored[id] = "queued" THEN [hide EXCEPT ![id] = RetryVt] ELSE hide
  /\ UNCHANGED stored

Retry(p, w, k) ==
  /\ Ends(p, w, k)
  /\ Blame
  /\ PutBack(place[p][w][k].msg)

\* onMesage rejects, or the call to the queue, with or without its effect.
Throw(p, w, k) ==
  /\ Ends(p, w, k)
  /\ Blame
  /\ UNCHANGED hide
  /\ stored' \in {stored, [stored EXCEPT ![place[p][w][k].msg] = "deleted"]}

-----------------------------------------------------------------------------
(* The idle ticker, and time *)

\* Mutants: the comparison never holds; the loop makes one round too many.
TickerNever(idle) == 0
TickerTooFar(idle) == IF idle > MaxIdle THEN MaxFetch + 1 ELSE 0

\* How many messages the ticker fetches at most.
Ticker(idle) == IF idle > MaxIdle THEN MaxFetch ELSE 0

\* tryFetchOnIdle, one round.
Prefetch(p) ==
  /\ fetches[p] > 0
  /\ \/ \E id \in Visible : /\ hide' = Received(id)
                            /\ buffer' = [buffer EXCEPT ![p] = Append(@, id)]
                            /\ fetches' = [fetches EXCEPT ![p] = @ - 1]
     \/ /\ Visible = {}
        /\ fetches' = [fetches EXCEPT ![p] = 0]
        /\ UNCHANGED <<hide, buffer>>
  /\ UNCHANGED <<stored, waiting, place, quiet, faults>>

\* Its receive() rejects: the loop ends.
PrefetchRejects(p) ==
  /\ fetches[p] > 0
  /\ ReceiveRejects
  /\ fetches' = [fetches EXCEPT ![p] = 0]
  /\ UNCHANGED <<stored, buffer, waiting, place, quiet>>

\* A process ends, with what it holds, and starts again.
Crash(p) ==
  /\ Blame
  /\ buffer'  = [buffer EXCEPT ![p] = <<>>]
  /\ waiting' = [waiting EXCEPT ![p] = NoBatch]
  /\ place'   = [place EXCEPT ![p] = NoPlace]
  /\ fetches' = [fetches EXCEPT ![p] = 0]
  /\ quiet'   = [quiet EXCEPT ![p] = 0]
  /\ UNCHANGED queueVars

\* Something that happens before the next tick.
Urgent(p) ==
  \/ buffer[p] # <<>> \/ fetches[p] > 0
  \/ \E w \in Windows :
       \/ waiting[p][w] # <<>> /\ FreePlaces(p, w) # {}
       \/ \E k \in 1..Concurrency : place[p][w][k] # Free /\ place[p][w][k].left = 0

Less(n) == IF n = 0 THEN 0 ELSE n - 1

\* One period of the ticker. Its callback compares after the time has passed.
Tick ==
  /\ \A p \in Procs : ~Urgent(p)
  /\ hide' = [id \in MsgIds |-> Less(hide[id])]
  /\ place' = [p \in Procs |-> [w \in Windows |-> [k \in 1..Concurrency |->
                 [place[p][w][k] EXCEPT !.left = Less(@)]]]]
  /\ quiet' = [p \in Procs |-> IF quiet[p] > MaxIdle THEN quiet[p] ELSE quiet[p] + 1]
  /\ fetches' = [p \in Procs |-> Ticker(quiet'[p])]
  /\ UNCHANGED <<stored, buffer, waiting, faults>>

-----------------------------------------------------------------------------
\* What process p does when nothing fails.
Work(p) ==
  \/ CloseWindow(p) \/ Prefetch(p)
  \/ \E w \in Windows :
       \/ AttemptPrefetched(p, w) \/ AttemptReceived(p, w)
       \/ \E k \in 1..Concurrency : Finish(p, w, k)

ConsumerNext ==
  \/ \E id \in MsgIds : Send(id)
  \/ \E p \in Procs :
       \/ Work(p) \/ PrefetchRejects(p) \/ Crash(p)
       \/ \E w \in Windows :
            \/ AttemptRejects(p, w)
            \/ \E k \in 1..Concurrency : Retry(p, w, k) \/ Throw(p, w, k)
  \/ Tick

ConsumerSpec == ConsumerInit /\ [][ConsumerNext]_consumerVars

\* Time passes, and a process goes on: it closes its window, its ticker's loop
\* continues, and its attempts start and end.
ConsumerFairSpec ==
  ConsumerSpec /\ WF_consumerVars(Tick) /\ \A p \in Procs : WF_consumerVars(Work(p))

-----------------------------------------------------------------------------
(* Properties *)

\* What a place may hold.
Places == [msg : MsgIds \cup {NoMsg}, left : 0..AttemptTicks]

\* Every variable stays within the values the code gives it; the loop of the
\* ticker within QUEUE_MAXFETCH.
ConsumerTypeOK ==
  /\ stored \in [MsgIds -> {"unsent", "queued", "deleted"}]
  /\ hide \in [MsgIds -> 0..Vt]
  /\ buffer \in [Procs -> Seq(Items)]
  /\ waiting \in [Procs -> [Windows -> Seq(Items)]]
  /\ place \in [Procs -> [Windows -> [1..Concurrency -> Places]]]
  /\ fetches \in [Procs -> 0..MaxFetch]
  /\ quiet \in [Procs -> 0..MaxIdle + 1]
  /\ faults \in 0..MaxFaults

\* No message is twice in s.
Distinct(s) == \A i, j \in DOMAIN s : s[i] = s[j] /\ s[i] # Event => i = j

InBuffer(p, id)      == id \in ToSet(buffer[p])
InWaiting(p, w, id)  == id \in ToSet(waiting[p][w])
InPlace(p, w, k, id) == place[p][w][k].msg = id

\* The one position of message id.
OnlyBuffer(p, id) ==
  \A q \in Procs :
    /\ InBuffer(q, id) => q = p
    /\ \A v \in Windows :
         ~InWaiting(q, v, id) /\ \A l \in 1..Concurrency : ~InPlace(q, v, l, id)

OnlyWaiting(p, w, id) ==
  \A q \in Procs :
    /\ ~InBuffer(q, id)
    /\ \A v \in Windows :
         /\ InWaiting(q, v, id) => q = p /\ v = w
         /\ \A l \in 1..Concurrency : ~InPlace(q, v, l, id)

OnlyPlace(p, w, k, id) ==
  \A q \in Procs :
    /\ ~InBuffer(q, id)
    /\ \A v \in Windows :
         /\ ~InWaiting(q, v, id)
         /\ \A l \in 1..Concurrency : InPlace(q, v, l, id) => q = p /\ v = w /\ l = k

\* A message that is prefetched or attempted is so once, in one process.
HeldOnce ==
  \A p \in Procs :
    /\ Distinct(buffer[p]) /\ \A w \in Windows : Distinct(waiting[p][w])
    /\ \A id \in MsgIds :
         /\ InBuffer(p, id) => OnlyBuffer(p, id)
         /\ \A w \in Windows :
              /\ InWaiting(p, w, id) => OnlyWaiting(p, w, id)
              /\ \A k \in 1..Concurrency : InPlace(p, w, k, id) => OnlyPlace(p, w, k, id)

\* "Retry: Message will be putted back to the queue for next retry"
\* (queue.consumer.base.ts): after an attempt that ends with Retry its message
\* is in the queue, hidden for a while.
RetryIsRequeued ==
  [][\A p \in Procs, w \in Windows, k \in 1..Concurrency :
       Retry(p, w, k) => LET id == place[p][w][k].msg IN
                         stored'[id] = "queued" /\ hide'[id] > 0]_consumerVars

\* Every message that is sent is processed and leaves the queue, whatever event
\* is lost and whatever window is dropped, once the failures stop.
SentIsProcessed ==
  \A id \in MsgIds : stored[id] = "queued" ~> stored[id] = "deleted"

-----------------------------------------------------------------------------
(* Refinement of MessageLease *)

LeaseOf(id) ==
  IF stored[id] # "queued" THEN stored[id]
  ELSE IF hide[id] = 0 THEN "visible"
  ELSE IF Held(id) THEN "held" ELSE "back"

Lease == INSTANCE MessageLease WITH lease <- [id \in MsgIds |-> LeaseOf(id)]

\* What is prefetched or attempted is hidden from everybody else until its
\* attempt is over, as long as the last item of a window ends before the timeout
\* of the first.
LeaseKept == Lease!LeaseSpec
=============================================================================
