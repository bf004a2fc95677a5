---------------------------- MODULE MailRecoverJob ----------------------------
(***************************************************************************)
(* The recovery job: every 30 minutes it puts the mails that are still     *)
(* pending back into the queue.                                            *)
(*                                                                         *)
(*   services/jobs/jobabstract.ts         the executor and its isRunning   *)
(*   services/jobs/mail.recover.job.ts    the scan, page by page           *)
(*   services/mail.service.ts             fetchPendingMails                *)
(*                                                                         *)
(* nest-schedule is external: it calls the executor at every tick, whether *)
(* or not an earlier call is still running, and cancels the job when the   *)
(* executor returns true. The API and the workers are external here too:   *)
(* they create and finish mails, put a finished mail back with a stale     *)
(* status, and send and delete messages, in any order. MailSystem composes *)
(* the job with MailDelivery, which does no more than that.                *)
(***************************************************************************)
EXTENDS Naturals, FiniteSets

CONSTANTS
  Mails,      \* mails, numbered in the order of their _id
  Runs,       \* calls of the executor that can be under way at once
  PageSize,   \* fetchQuery.limit
  Width,      \* concurrency of Bluebird.map
  MaxRestarts \* bound: restarts of the process

ASSUME RecoverAssumption ==
  /\ Mails \in SUBSET (Nat \ {0}) /\ IsFiniteSet(Mails)
  /\ PageSize \in Nat \ {0} /\ Width \in Nat \ {0}
  /\ MaxRestarts \in Nat

VARIABLES
  mail,       \* mail[m]: its age (bufferTime) or its end
  queued,     \* mails that have a message in the queue
  scheduled,  \* the job has not been cancelled
  isRunning,  \* JobAbstract.isRunning
  run,        \* run[r]: the locals of one call of the executor
  skipped,    \* history: a tick was skipped since some call became active
  restarts    \* restarts so far (MaxRestarts bounds them)

jobVars == <<mail, queued, scheduled, isRunning, run, skipped, restarts>>

MailState == {"none", "fresh", "old", "done"}

Call == [pc     : {"idle", "fetch", "send"},
         from   : Mails \cup {0}, \* fetchQuery.fromId, 0 for null
         page   : SUBSET Mails,   \* fetched and not sent yet
         due    : SUBSET Mails,   \* history: pending at the start, not sent nor ended since
         passed : SUBSET Mails]   \* history: due, and left out by a page that ends after them

NoCall == [pc |-> "idle", from |-> 0, page |-> {}, due |-> {}, passed |-> {}]

Active  == {r \in Runs : run[r].pc # "idle"}
Pending == {m \in Mails : mail[m] = "old"}

JInit ==
  /\ mail = [m \in Mails |-> "none"]
  /\ queued = {}
  /\ scheduled = TRUE
  /\ isRunning = FALSE
  /\ run = [r \in Runs |-> NoCall]
  /\ skipped = FALSE
  /\ restarts = 0

-----------------------------------------------------------------------------
(* The mails *)

\* POST /api/emails stores a mail.
Create(m) ==
  /\ mail[m] = "none"
  /\ mail' = [mail EXCEPT ![m] = "fresh"]
  /\ UNCHANGED <<queued, scheduled, isRunning, run, skipped, restarts>>

\* bufferTime passes.
GrowOld(m) ==
  /\ mail[m] = "fresh"
  /\ mail' = [mail EXCEPT ![m] = "old"]
  /\ UNCHANGED <<queued, scheduled, isRunning, run, skipped, restarts>>

\* A worker writes the end of a mail; no scan owes it any longer.
Paid(r, mails) == [run[r] EXCEPT !.due = @ \ mails]

End(m) ==
  /\ mail[m] \in {"fresh", "old"}
  /\ mail' = [mail EXCEPT ![m] = "done"]
  /\ run' = [r \in Runs |-> Paid(r, {m})]
  /\ UNCHANGED <<queued, scheduled, isRunning, skipped, restarts>>

\* A worker that is behind writes its status over the end.
Reopen(m) ==
  /\ mail[m] = "done"
  /\ mail' \in {[mail EXCEPT ![m] = "fresh"], [mail EXCEPT ![m] = "old"]}
  /\ UNCHANGED <<queued, scheduled, isRunning, run, skipped, restarts>>

\* Somebody else, the API as a rule, sends a message for a stored mail.
Arrive(m) ==
  /\ mail[m] # "none" /\ m \notin queued
  /\ queued' = queued \cup {m}
  /\ UNCHANGED <<mail, scheduled, isRunning, run, skipped, restarts>>

\* A worker deletes the last message of a mail.
Depart(m) ==
  /\ m \in queued
  /\ queued' = queued \ {m}
  /\ UNCHANGED <<mail, scheduled, isRunning, run, skipped, restarts>>

-----------------------------------------------------------------------------
(* The executor *)

\* Mutant: no finally block.
ReleaseLocked(r) ==
  /\ run' = [run EXCEPT ![r] = NoCall]
  /\ skipped' = (skipped /\ Active # {r})
  /\ UNCHANGED isRunning

\* finally: isRunning = false.
Release(r) ==
  /\ isRunning' = FALSE
  /\ run' = [run EXCEPT ![r] = NoCall]
  /\ skipped' = (skipped /\ Active # {r})

\* A tick while isRunning: `return false', and the finally block all the same.
SkipTick ==
  /\ scheduled /\ isRunning
  /\ isRunning' = FALSE
  /\ skipped' = TRUE
  /\ UNCHANGED <<mail, queued, scheduled, run, restarts>>

\* Mutant: isRunning is not set before execute.
TickUnlocked(r) ==
  /\ scheduled /\ ~isRunning /\ run[r].pc = "idle"
  /\ run' = [run EXCEPT ![r] = [NoCall EXCEPT !.pc = "fetch", !.due = Pending]]
  /\ UNCHANGED <<mail, queued, scheduled, isRunning, skipped, restarts>>

Tick(r) ==
  /\ scheduled /\ ~isRunning /\ run[r].pc = "idle"
  /\ isRunning' = TRUE
  /\ run' = [run EXCEPT ![r] = [NoCall EXCEPT !.pc = "fetch", !.due = Pending]]
  /\ UNCHANGED <<mail, queued, scheduled, skipped, restarts>>

\* The catch block returns true, and the scheduler cancels the job.
GiveUpJob(r) == Release(r) /\ scheduled' = FALSE

-----------------------------------------------------------------------------
(* MailRecoverJob.execute *)

\* fetchPendingMails: `limit' of the pending mails after fromId. They are
\* sorted by the field `id', which no document has, so any of them may be among
\* the page and any may be its last.
Matching(from) == {m \in Pending : m > from}

Pages(matching) ==
  {page \in SUBSET matching :
     Cardinality(page) = IF Cardinality(matching) < PageSize
                         THEN Cardinality(matching) ELSE PageSize}

\* Mutants: fromId stays where it was; fromId is one past the last _id.
NextFromStuck(from, page) == {from}
NextFromPast(from, page)  == {m + 1 : m \in page}

NextFrom(from, page) == page

\* The next page starts after `last': what this one left out before it is passed.
Fetched(call, page, last) ==
  [call EXCEPT !.pc = "send", !.page = page, !.from = last,
               !.passed = @ \cup {m \in call.due \ page : call.from < m /\ m < last}]

Fetch(r) ==
  /\ run[r].pc = "fetch"
  /\ Matching(run[r].from) # {}
  /\ \E page \in Pages(Matching(run[r].from)) :
       \E last \in NextFrom(run[r].from, page) :
         run' = [run EXCEPT ![r] = Fetched(@, page, last)]
  /\ UNCHANGED <<mail, queued, scheduled, isRunning, skipped, restarts>>

\* No pending mail is left: execute returns nothing, and the job goes on.
Finish(r) ==
  /\ run[r].pc = "fetch"
  /\ Matching(run[r].from) = {}
  /\ Release(r)
  /\ UNCHANGED <<mail, queued, scheduled, restarts>>

FetchFails(r) ==
  /\ run[r].pc = "fetch"
  /\ GiveUpJob(r)
  /\ UNCHANGED <<mail, queued, restarts>>

\* One send of the page is done.
Sent(call, m) ==
  [call EXCEPT !.page = @ \ {m}, !.due = @ \ {m},
               !.pc   = IF call.page = {m} THEN "fetch" ELSE "send"]

Enqueue(r) ==
  /\ run[r].pc = "send"
  /\ \E m \in run[r].page :
       /\ queued' = queued \cup {m}
       /\ run' = [run EXCEPT ![r] = Sent(@, m)]
  /\ UNCHANGED <<mail, scheduled, isRunning, skipped, restarts>>

\* Bluebird.map keeps `concurrency' of the sends in flight.
InFlight(sent) == Cardinality(sent) <= Width

\* A send fails: Bluebird.map starts no other one; those in flight, and the one
\* that failed, may have reached the queue.
EnqueueFails(r) ==
  /\ run[r].pc = "send"
  /\ \E sent \in SUBSET run[r].page : /\ InFlight(sent)
                                      /\ queued' = queued \cup sent
  /\ GiveUpJob(r)
  /\ UNCHANGED <<mail, restarts>>

\* The process ends and starts again: a new job is registered.
Restart ==
  /\ restarts < MaxRestarts
  /\ restarts' = restarts + 1
  /\ run' = [r \in Runs |-> NoCall]
  /\ isRunning' = FALSE /\ scheduled' = TRUE /\ skipped' = FALSE
  /\ UNCHANGED <<mail, queued>>

-----------------------------------------------------------------------------
JNext ==
  \/ \E m \in Mails : \/ Create(m) \/ GrowOld(m) \/ End(m)
                      \/ Reopen(m) \/ Arrive(m) \/ Depart(m)
  \/ \E r \in Runs : \/ Tick(r) \/ Fetch(r) \/ Finish(r) \/ Enqueue(r)
                     \/ FetchFails(r) \/ EnqueueFails(r)
  \/ SkipTick
  \/ Restart

JSpec == JInit /\ [][JNext]_jobVars

\* The scheduler keeps calling, MongoDB and Redis keep answering.
JFairSpec ==
  /\ JSpec
  /\ WF_jobVars(\E r \in Runs : Tick(r))
  /\ \A r \in Runs : WF_jobVars(Fetch(r) \/ Finish(r) \/ Enqueue(r))

-----------------------------------------------------------------------------
(* Properties *)

\* The variables stay within the values the code gives them.
JTypeOK ==
  /\ mail \in [Mails -> MailState]
  /\ queued \subseteq Mails
  /\ scheduled \in BOOLEAN /\ isRunning \in BOOLEAN /\ skipped \in BOOLEAN
  /\ run \in [Runs -> Call]
  /\ restarts \in 0..MaxRestarts

\* The executor never stays locked: with no call under way, and whatever the
\* calls before it ended with, isRunning is false, or no scan would run again.
UnlockedWhenIdle == Active = {} => ~isRunning

\* Two scans overlap only when a tick was skipped while one was under way: the
\* skipped call unlocks what it did not lock.
OverlapNeedsSkip == Cardinality(Active) > 1 => skipped

\* "should not trigger job if it is running" (jobabstract.spec.ts).
NoOverlap == Cardinality(Active) <= 1

\* A scan that ends without an error has put every mail that was pending when
\* it started into the queue, unless that mail was finished meanwhile.
ScanComplete ==
  [][\A r \in Runs : Finish(r) => run[r].due = {}]_jobVars

\* The order of the pages is the only thing that makes a scan miss a mail: one
\* that was pending from its start to its end, and that it has not sent, was
\* left out by a page that ended after it.
MissedOnlyByOrder ==
  [][\A r \in Runs : Finish(r) => run[r].due \subseteq run[r].passed]_jobVars

\* A scan over finitely many mails ends, although mails become pending and are
\* reopened before and after the place it has reached.
ScanEnds == \A r \in Runs : run[r].pc # "idle" ~> run[r].pc = "idle"

\* Once the pending mails fit in a page for good, each of them that has no
\* message gets one, unless an error cancels the job. While they do not, every
\* scan may pass over the same mail.
FitInPage == Cardinality(Pending) <= PageSize

Recovered ==
  <>[]FitInPage =>
    \A m \in Mails :
      (mail[m] = "old" /\ m \notin queued)
        ~> (m \in queued \/ mail[m] = "done" \/ ~scheduled)
=============================================================================
