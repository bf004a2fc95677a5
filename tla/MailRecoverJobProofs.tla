------------------------- MODULE MailRecoverJobProofs -------------------------
(***************************************************************************)
(* Theorems about MailRecoverJob, for every set of mails, page size and    *)
(* number of overlapping calls.                                            *)
(***************************************************************************)
EXTENDS MailRecoverJob, FiniteSetTheorems, TLAPS

LEMMA PageIsSet ==
  ASSUME NEW from, NEW page \in Pages(Matching(from))
  PROVE  page \in SUBSET Mails /\ page \subseteq Matching(from)
  BY DEF Pages, Matching, Pending

LEMMA NoCallType == NoCall \in Call
  BY DEF NoCall, Call

LEMMA JTypeNext == JTypeOK /\ [JNext]_jobVars => JTypeOK'
<1> SUFFICES ASSUME JTypeOK, [JNext]_jobVars PROVE JTypeOK'
  OBVIOUS
<1> USE DEF JTypeOK
<1>1. ASSUME NEW m \in Mails,
             Create(m) \/ GrowOld(m) \/ Reopen(m) \/ Arrive(m) \/ Depart(m)
      PROVE  JTypeOK'
  BY <1>1 DEF Create, GrowOld, Reopen, Arrive, Depart, MailState
<1>10. ASSUME NEW m \in Mails, End(m) PROVE JTypeOK'
  <2>1. \A r \in Runs : Paid(r, {m}) \in Call
    BY DEF Call, Paid
  <2> QED BY <1>10, <2>1 DEF End, MailState
<1>2. ASSUME NEW r \in Runs, Tick(r) PROVE JTypeOK'
  <2>1. [NoCall EXCEPT !.pc = "fetch", !.due = Pending] \in Call
    BY DEF NoCall, Call, Pending
  <2>2. /\ run' = [run EXCEPT ![r] = [NoCall EXCEPT !.pc = "fetch", !.due = Pending]]
        /\ isRunning' = TRUE
        /\ UNCHANGED <<mail, queued, scheduled, skipped, restarts>>
    BY <1>2 DEF Tick
  <2>3. run' \in [Runs -> Call]
    BY <2>1, <2>2
  <2> QED BY <2>2, <2>3
<1>3. ASSUME NEW r \in Runs, Fetch(r) PROVE JTypeOK'
  <2>1. PICK page \in Pages(Matching(run[r].from)) : \E last \in page :
          run' = [run EXCEPT ![r] = Fetched(run[r], page, last)]
    BY <1>3 DEF Fetch, NextFrom
  <2>2. PICK last \in page : run' = [run EXCEPT ![r] = Fetched(run[r], page, last)]
    BY <2>1
  <2>3. page \subseteq Mails
    BY PageIsSet
  <2>4. last \in Mails
    BY <2>3
  <2>5. Fetched(run[r], page, last) \in Call
    <3>1. run[r] \in Call
      OBVIOUS
    <3> QED BY <2>3, <2>4, <3>1 DEF Call, Fetched
  <2>6. run' \in [Runs -> Call]
    BY <2>2, <2>5
  <2> QED BY <1>3, <2>6 DEF Fetch
<1>4. ASSUME NEW r \in Runs, Release(r),
             UNCHANGED <<mail, restarts>>, queued' \subseteq Mails, scheduled' \in BOOLEAN
      PROVE  JTypeOK'
  <2>1. run' \in [Runs -> Call]
    BY <1>4, NoCallType DEF Release
  <2> QED BY <1>4, <2>1 DEF Release
<1>5. ASSUME NEW r \in Runs, Finish(r) \/ FetchFails(r) PROVE JTypeOK'
  BY <1>4, <1>5 DEF Finish, FetchFails, GiveUpJob
<1>6. ASSUME NEW r \in Runs, EnqueueFails(r) PROVE JTypeOK'
  <2>1. run[r].page \subseteq Mails
    BY DEF Call
  <2> QED BY <1>4, <1>6, <2>1 DEF EnqueueFails, GiveUpJob
<1>7. ASSUME NEW r \in Runs, Enqueue(r) PROVE JTypeOK'
  <2>1. PICK m \in run[r].page : /\ queued' = queued \cup {m}
                                 /\ run' = [run EXCEPT ![r] = Sent(run[r], m)]
    BY <1>7 DEF Enqueue
  <2>2. m \in Mails
    BY DEF Call
  <2>3. Sent(run[r], m) \in Call
    BY DEF Call, Sent
  <2>4. run' \in [Runs -> Call]
    BY <2>1, <2>3
  <2> QED BY <1>7, <2>1, <2>2, <2>4 DEF Enqueue
<1>8. CASE SkipTick \/ UNCHANGED jobVars
  BY <1>8 DEF SkipTick, jobVars
<1>9. CASE Restart
  <2>1. restarts' \in 0..MaxRestarts
    BY <1>9, RecoverAssumption DEF Restart
  <2>2. run' \in [Runs -> Call]
    BY <1>9, NoCallType DEF Restart
  <2> QED BY <1>9, <2>1, <2>2 DEF Restart
<1> QED BY <1>1, <1>2, <1>3, <1>5, <1>6, <1>7, <1>8, <1>9, <1>10 DEF JNext

\* The variables of the job stay within their types, whatever its environment
\* does to the mails and the queue.
THEOREM JTypeCorrect == JSpec => []JTypeOK
<1>1. JInit => JTypeOK
  <2>1. 0 \in 0..MaxRestarts
    BY RecoverAssumption
  <2> QED BY <2>1, NoCallType DEF JInit, JTypeOK, MailState
<1> QED BY <1>1, JTypeNext, PTL DEF JSpec

-----------------------------------------------------------------------------
(* The lock. Two calls that are both active, or one that is active with    *)
(* isRunning false, are a consequence of a skipped tick.                   *)

Overlap == \E r, t \in Active : r # t

LockInv ==
  /\ UnlockedWhenIdle
  /\ Overlap => skipped
  /\ Active # {} /\ ~isRunning => skipped

LEMMA ReleaseLock ==
  ASSUME JTypeOK, LockInv, NEW r \in Runs, run[r].pc # "idle", Release(r)
  PROVE  LockInv'
<1>1. \A t \in Runs : run'[t] = IF t = r THEN NoCall ELSE run[t]
  BY DEF Release, JTypeOK
<1>2. r \in Active /\ Active' = Active \ {r}
  BY <1>1 DEF Active, NoCall
<1>3. ~isRunning' /\ skipped' = (skipped /\ Active # {r})
  BY DEF Release
<1>4. CASE Active = {r}
  BY <1>2, <1>3, <1>4 DEF LockInv, UnlockedWhenIdle, Overlap
<1>5. CASE Active # {r}
  <2>1. Overlap
    BY <1>2, <1>5 DEF Overlap
  <2> QED BY <1>2, <1>3, <1>5, <2>1 DEF LockInv, UnlockedWhenIdle, Overlap
<1> QED BY <1>4, <1>5

LEMMA LockNext ==
  ASSUME JTypeOK, JTypeOK', LockInv, [JNext]_jobVars
  PROVE  LockInv'
<1>1. ASSUME Active' = Active, isRunning' = isRunning, skipped' = skipped
      PROVE  LockInv'
  BY <1>1 DEF LockInv, UnlockedWhenIdle, Overlap
<1>2. ASSUME NEW m \in Mails,
             Create(m) \/ GrowOld(m) \/ Reopen(m) \/ Arrive(m) \/ Depart(m)
      PROVE  LockInv'
  BY <1>1, <1>2 DEF Create, GrowOld, Reopen, Arrive, Depart, Active
<1>9. ASSUME NEW m \in Mails, End(m) PROVE LockInv'
  <2>1. \A r \in Runs : run'[r].pc = run[r].pc
    BY <1>9 DEF End, Paid, JTypeOK, Call
  <2> QED BY <1>1, <1>9, <2>1 DEF End, Active
<1>3. ASSUME NEW r \in Runs, Tick(r) PROVE LockInv'
  <2>1. /\ ~isRunning /\ isRunning' /\ skipped' = skipped /\ run[r].pc = "idle"
        /\ \A t \in Runs : t # r => run'[t] = run[t]
        /\ run'[r].pc = "fetch"
    BY <1>3 DEF Tick, NoCall, JTypeOK
  <2>2. Active' = Active \cup {r}
    BY <2>1 DEF Active
  <2>3. Overlap' => Active # {}
    BY <2>2 DEF Overlap
  <2> QED BY <2>1, <2>2, <2>3 DEF LockInv, UnlockedWhenIdle
<1>4. ASSUME NEW r \in Runs, Fetch(r) \/ Enqueue(r) PROVE LockInv'
  <2>1. /\ UNCHANGED <<isRunning, skipped>> /\ run[r].pc # "idle"
        /\ \A t \in Runs : t # r => run'[t] = run[t]
    BY <1>4 DEF Fetch, Enqueue, JTypeOK
  <2>2. run'[r].pc \in {"send", "fetch"}
    <3>1. CASE Fetch(r)
      <4>1. PICK page, last :
              run' = [run EXCEPT ![r] = Fetched(run[r], page, last)]
        BY <3>1 DEF Fetch
      <4>2. run'[r] = Fetched(run[r], page, last)
        BY <4>1 DEF JTypeOK
      <4>3. run[r] \in Call
        BY DEF JTypeOK
      <4> QED BY <4>2, <4>3 DEF Call, Fetched
    <3>2. CASE Enqueue(r)
      <4>1. PICK m : run' = [run EXCEPT ![r] = Sent(run[r], m)]
        BY <3>2 DEF Enqueue
      <4>2. run'[r] = Sent(run[r], m)
        BY <4>1 DEF JTypeOK
      <4>3. run[r] \in Call
        BY DEF JTypeOK
      <4> QED BY <4>2, <4>3 DEF Call, Sent
    <3> QED BY <1>4, <3>1, <3>2
  <2>3. Active' = Active
    BY <2>1, <2>2 DEF Active
  <2> QED BY <1>1, <2>1, <2>3
<1>5. ASSUME NEW r \in Runs, Finish(r) \/ FetchFails(r) \/ EnqueueFails(r)
      PROVE  LockInv'
  BY <1>5, ReleaseLock DEF Finish, FetchFails, EnqueueFails, GiveUpJob
<1>6. CASE SkipTick
  <2>1. Active # {}
    BY <1>6 DEF SkipTick, LockInv, UnlockedWhenIdle
  <2> QED BY <1>6, <2>1 DEF SkipTick, LockInv, UnlockedWhenIdle, Active
<1>7. CASE Restart
  BY <1>7 DEF Restart, LockInv, UnlockedWhenIdle, Overlap, Active, NoCall
<1>8. CASE UNCHANGED jobVars
  BY <1>1, <1>8 DEF jobVars, Active
<1> QED BY <1>2, <1>3, <1>4, <1>5, <1>6, <1>7, <1>8, <1>9 DEF JNext

LEMMA InvariantLock == JSpec => []LockInv
<1>1. JInit => LockInv
  BY DEF JInit, LockInv, UnlockedWhenIdle, Overlap, Active, NoCall
<1> QED BY <1>1, LockNext, JTypeCorrect, PTL DEF JSpec

\* Whatever a call ends with, the executor is never left locked.
THEOREM UnlockedWhenIdleHolds == JSpec => []UnlockedWhenIdle
<1>1. LockInv => UnlockedWhenIdle
  BY DEF LockInv
<1> QED BY <1>1, InvariantLock, PTL

\* Two scans overlap only after a skipped tick.
THEOREM OverlapNeedsSkipHolds ==
  ASSUME IsFiniteSet(Runs)
  PROVE  JSpec => []OverlapNeedsSkip
<1>1. LockInv => OverlapNeedsSkip
  <2> SUFFICES ASSUME LockInv, ~Overlap PROVE ~(Cardinality(Active) > 1)
    BY DEF LockInv, OverlapNeedsSkip
  <2>1. CASE Active = {}
    BY <2>1, FS_EmptySet
  <2>2. CASE Active # {}
    <3>1. PICK r : r \in Active
      BY <2>2
    <3>2. Active = {r}
      BY <3>1 DEF Overlap
    <3> QED BY <3>2, FS_Singleton
  <2> QED BY <2>1, <2>2
<1> QED BY <1>1, InvariantLock, PTL

-----------------------------------------------------------------------------
(* The scan. What a call still owes is ahead of it, on the page it sends,  *)
(* or was passed over.                                                     *)

Owed(call) ==
  \A m \in call.due : /\ mail[m] = "old"
                      /\ \/ m > call.from \/ m \in call.passed
                         \/ call.pc = "send" /\ m \in call.page

ScanInv == \A r \in Active : Owed(run[r])

LEMMA FromIsNat ==
  ASSUME JTypeOK, NEW r \in Runs
  PROVE  run[r].from \in Nat
<1>1. run[r].from \in Mails \cup {0}
  BY DEF JTypeOK, Call
<1>2. Mails \subseteq Nat
  BY RecoverAssumption
<1>3. 0 \in Nat
  OBVIOUS
<1> QED BY <1>1, <1>2, <1>3, Zenon

LEMMA ScanNext ==
  ASSUME JTypeOK, JTypeOK', ScanInv, [JNext]_jobVars
  PROVE  ScanInv'
<1>1. ASSUME NEW m \in Mails,
             Create(m) \/ GrowOld(m) \/ Reopen(m) \/ Arrive(m) \/ Depart(m)
      PROVE  ScanInv'
  <2>1. run' = run /\ Active' = Active
    BY <1>1 DEF Create, GrowOld, Reopen, Arrive, Depart, Active
  <2>2. \A x \in Mails : mail[x] = "old" => mail'[x] = "old"
    BY <1>1 DEF Create, GrowOld, Reopen, Arrive, Depart, JTypeOK
  <2>3. \A r \in Runs : run[r].due \subseteq Mails
    BY DEF JTypeOK, Call
  <2> QED BY <2>1, <2>2, <2>3 DEF ScanInv, Owed, Active
<1>2. ASSUME NEW r \in Runs, mail' = mail, \A t \in Runs : t # r => run'[t] = run[t],
             run'[r].pc = "idle" \/ Owed(run'[r])
      PROVE  ScanInv'
  BY <1>2 DEF ScanInv, Owed, Active
<1>3. ASSUME NEW r \in Runs, Tick(r) PROVE ScanInv'
  <2>1. /\ mail' = mail /\ \A t \in Runs : t # r => run'[t] = run[t]
        /\ run'[r].from = 0 /\ run'[r].due = Pending
    BY <1>3 DEF Tick, NoCall, JTypeOK
  <2>2. \A m \in Pending : mail[m] = "old" /\ m > 0
    <3>1. \A m \in Nat \ {0} : m > 0
      OBVIOUS
    <3> QED BY <3>1, RecoverAssumption DEF Pending
  <2> QED BY <1>2, <2>1, <2>2 DEF Owed
<1>4. ASSUME NEW r \in Runs, Fetch(r) PROVE ScanInv'
  <2>1. PICK page \in Pages(Matching(run[r].from)) : \E last \in page :
          run' = [run EXCEPT ![r] = Fetched(run[r], page, last)]
    BY <1>4 DEF Fetch, NextFrom
  <2>2. PICK last \in page : run' = [run EXCEPT ![r] = Fetched(run[r], page, last)]
    BY <2>1
  <2>3. last \in Nat /\ Mails \subseteq Nat
    BY PageIsSet, RecoverAssumption
  <2>4. /\ mail' = mail /\ \A t \in Runs : t # r => run'[t] = run[t]
        /\ run'[r].pc = "send" /\ run'[r].from = last /\ run'[r].page = page
        /\ run'[r].due = run[r].due
        /\ run'[r].passed = run[r].passed \cup
             {m \in run[r].due \ page : run[r].from < m /\ m < last}
    <3>1. mail' = mail
      BY <1>4 DEF Fetch
    <3>2. /\ run'[r] = Fetched(run[r], page, last)
          /\ \A t \in Runs : t # r => run'[t] = run[t]
      BY <2>2 DEF JTypeOK
    <3>3. run[r] \in Call
      BY DEF JTypeOK
    <3> QED BY <3>1, <3>2, <3>3 DEF Fetched, Call
  <2>5. Owed(run[r]) /\ run[r].pc = "fetch" /\ run[r].from \in Nat /\ run[r].due \subseteq Mails
    BY <1>4, FromIsNat DEF Fetch, ScanInv, Active, JTypeOK, Call
  <2>6. ASSUME NEW m \in run[r].due
        PROVE  /\ mail[m] = "old"
               /\ m > last \/ m \in run'[r].passed \/ m \in page
    <3>1. mail[m] = "old" /\ (m > run[r].from \/ m \in run[r].passed)
      BY <2>5 DEF Owed
    <3>2. m \in Nat
      BY <2>3, <2>5
    <3>3. m > last \/ m < last \/ m \in page
      BY <2>3, <3>2
    <3> QED BY <2>3, <2>4, <2>5, <3>1, <3>2, <3>3
  <2>7. Owed(run'[r])
    BY <2>4, <2>6 DEF Owed
  <2> QED BY <1>2, <2>4, <2>7
<1>5. ASSUME NEW r \in Runs, Enqueue(r) PROVE ScanInv'
  <2>1. PICK x \in run[r].page : run' = [run EXCEPT ![r] = Sent(run[r], x)]
    BY <1>5 DEF Enqueue
  <2>2. mail' = mail /\ \A t \in Runs : t # r => run'[t] = run[t]
    BY <1>5, <2>1 DEF Enqueue, JTypeOK
  <2>3. /\ run'[r].from = run[r].from /\ run'[r].page = run[r].page \ {x}
        /\ run'[r].due = run[r].due \ {x} /\ run'[r].passed = run[r].passed
        /\ run'[r].pc = IF run[r].page = {x} THEN "fetch" ELSE "send"
    <3>1. run'[r] = Sent(run[r], x)
      BY <2>1 DEF JTypeOK
    <3>2. run[r] \in Call
      BY DEF JTypeOK
    <3> QED BY <3>1, <3>2 DEF Sent, Call
  <2>4. Owed(run[r])
    BY <1>5 DEF Enqueue, ScanInv, Active
  <2>5. Owed(run'[r])
    BY <2>3, <2>4 DEF Owed
  <2> QED BY <1>2, <2>2, <2>5
<1>6. ASSUME NEW r \in Runs, Finish(r) \/ FetchFails(r) \/ EnqueueFails(r)
      PROVE  ScanInv'
  <2>1. /\ mail' = mail /\ \A t \in Runs : t # r => run'[t] = run[t]
        /\ run'[r].pc = "idle"
    BY <1>6 DEF Finish, FetchFails, EnqueueFails, GiveUpJob, Release, NoCall, JTypeOK
  <2> QED BY <1>2, <2>1
<1>7. CASE SkipTick \/ UNCHANGED jobVars
  BY <1>7 DEF SkipTick, jobVars, ScanInv, Owed, Active
<1>8. CASE Restart
  BY <1>8 DEF Restart, ScanInv, Active, NoCall
<1>9. ASSUME NEW m \in Mails, End(m) PROVE ScanInv'
  <2>1. \A x \in Mails : x # m /\ mail[x] = "old" => mail'[x] = "old"
    BY <1>9 DEF End, JTypeOK
  <2>2. \A r \in Runs : /\ run'[r].pc = run[r].pc /\ run'[r].from = run[r].from
                        /\ run'[r].page = run[r].page /\ run'[r].passed = run[r].passed
                        /\ run'[r].due = run[r].due \ {m}
                        /\ run[r].due \subseteq Mails
    BY <1>9 DEF End, Paid, JTypeOK, Call
  <2> QED BY <2>1, <2>2 DEF ScanInv, Owed, Active
<1> QED BY <1>1, <1>3, <1>4, <1>5, <1>6, <1>7, <1>8, <1>9 DEF JNext

\* A scan that ends without an error misses no mail but those a page left out
\* and ended after: with any number of mails, pages and overlapping calls, and
\* whatever happens to the mails meanwhile. What it does pass over the run
\* job_missed shows.
THEOREM MissedOnlyByOrderHolds == JSpec => MissedOnlyByOrder
<1>1. JInit => ScanInv
  BY DEF JInit, ScanInv, Active, NoCall
<1>2. JSpec => []ScanInv
  BY <1>1, ScanNext, JTypeCorrect, PTL DEF JSpec
<1>3. JTypeOK /\ ScanInv => \A r \in Runs : Finish(r) => run[r].due \subseteq run[r].passed
  <2> SUFFICES ASSUME JTypeOK, ScanInv, NEW r \in Runs, Finish(r), NEW m \in run[r].due
               PROVE  m \in run[r].passed
    OBVIOUS
  <2>1. /\ Owed(run[r]) /\ run[r].pc = "fetch" /\ Matching(run[r].from) = {}
        /\ m \in Mails
    BY DEF Finish, ScanInv, Active, JTypeOK, Call
  <2>2. ~(m > run[r].from)
    BY <2>1 DEF Owed, Matching, Pending
  <2> QED BY <2>1, <2>2 DEF Owed
<1> QED BY <1>2, <1>3, JTypeCorrect, PTL DEF MissedOnlyByOrder, JSpec
=============================================================================
