-------------------------- MODULE QueueConsumerProofs --------------------------
(***************************************************************************)
(* Theorems about QueueConsumer: what its windows and its ticker do to the *)
(* lease of a message.                                                     *)
(*                                                                         *)
(* The type invariant and the bound of a window's length hold as they are. *)
(* That a message is held by one process, and stays hidden from the others *)
(* until its attempt is over, takes attempts that keep pace with the       *)
(* visibility timeout (KeepsPace); the invariant then comes in parts:      *)
(*   HeldOnce      a message is held in one place of one process           *)
(*   Named         a place that is taken has a message                     *)
(*   InTime        what is held is hidden for longer than it needs         *)
(***************************************************************************)
EXTENDS QueueConsumer, SequenceTheorems, FiniteSetTheorems, WellFoundedInduction,
        TLAPS

-----------------------------------------------------------------------------
(* The operators *)

\* A non-empty set of numbers has a least element.
LEMMA MinInSet ==
  ASSUME NEW T \in SUBSET Nat, T # {}
  PROVE  Min(T) \in T
<1> DEFINE R == OpToRel(<, Nat)
<1>1. IsWellFoundedOn(R, Nat)
  BY NatLessThanWellFounded
<1>2. \A x, y \in Nat : y < x => <<y, x>> \in R
  BY DEF OpToRel
<1> HIDE DEF R
<1>3. PICK x \in T : \A y \in T : <<y, x>> \notin R
  BY <1>1, WFMin
<1>4. \A y \in T : x <= y
  <2> TAKE y \in T
  <2>1. x \in Nat /\ y \in Nat
    OBVIOUS
  <2>2. ~(y < x)
    BY <1>2, <1>3, <2>1
  <2> QED BY <2>1, <2>2
<1> QED BY <1>4 DEF Min

LEMMA AppendItem ==
  ASSUME NEW s \in Seq(Items), NEW x \in Items
  PROVE  /\ Append(s, x) \in Seq(Items)
         /\ Len(Append(s, x)) = Len(s) + 1
         /\ ToSet(Append(s, x)) = ToSet(s) \cup {x}
         /\ Distinct(s) /\ (x = Event \/ x \notin ToSet(s)) => Distinct(Append(s, x))
<1> DEFINE t == Append(s, x)
<1>1. t \in Seq(Items) /\ Len(t) = Len(s) + 1 /\ t[Len(s) + 1] = x
      /\ \A i \in 1..Len(s) : t[i] = s[i]
  BY AppendProperties
<1>2. DOMAIN s = 1..Len(s) /\ DOMAIN t = 1..Len(s) + 1 /\ Len(s) \in Nat
  BY <1>1, LenProperties
<1> HIDE DEF t
<1>3. ToSet(t) = ToSet(s) \cup {x}
  BY <1>1, <1>2 DEF ToSet
<1>4. ASSUME Distinct(s), x = Event \/ x \notin ToSet(s) PROVE Distinct(t)
  BY <1>1, <1>2, <1>4 DEF Distinct, ToSet
<1> QED BY <1>1, <1>3, <1>4 DEF t

LEMMA RemoveItem ==
  ASSUME NEW s \in Seq(Items), NEW i \in DOMAIN s
  PROVE  /\ RemoveAt(s, i) \in Seq(Items)
         /\ Len(RemoveAt(s, i)) = Len(s) - 1
         /\ ToSet(RemoveAt(s, i)) \subseteq ToSet(s)
         /\ Distinct(s) => /\ Distinct(RemoveAt(s, i))
                           /\ s[i] # Event => s[i] \notin ToSet(RemoveAt(s, i))
<1> DEFINE n == Len(s)
           a == SubSeq(s, 1, i - 1)
           b == SubSeq(s, i + 1, n)
           t == RemoveAt(s, i)
<1> HIDE DEF t
<1>1. n \in Nat /\ DOMAIN s = 1..n /\ i \in 1..n
  BY LenProperties
<1>2. a \in Seq(Items) /\ Len(a) = i - 1 /\ \A j \in 1..i - 1 : a[j] = s[j]
  BY <1>1, SubSeqProperties, \A j \in 1..i - 1 : j \in 1..n /\ 1 + j - 1 = j
<1>3. b \in Seq(Items) /\ Len(b) = n - i /\ \A j \in 1..n - i : b[j] = s[i + j]
  BY <1>1, SubSeqProperties, \A j \in 1..n - i : (i + 1) + j - 1 = i + j
<1> HIDE DEF a, b
<1>4. t = a \o b
  BY DEF RemoveAt, a, b, t
<1>5. /\ t \in Seq(Items) /\ Len(t) = Len(a) + Len(b)
      /\ \A j \in 1..Len(a) + Len(b) : t[j] = IF j <= Len(a) THEN a[j] ELSE b[j - Len(a)]
  <2>1. a \in Seq(Items) /\ b \in Seq(Items)
    BY <1>2, <1>3
  <2> QED BY <1>4, <2>1, ConcatProperties, Zenon
<1>6. Len(t) = n - 1 /\ DOMAIN t = 1..n - 1
  BY <1>1, <1>2, <1>3, <1>5, LenProperties
<1>7. \A j \in 1..n - 1 : t[j] = IF j < i THEN s[j] ELSE s[j + 1]
  <2> TAKE j \in 1..n - 1
  <2>1. CASE j < i
    <3>1. j \in 1..Len(a) + Len(b) /\ j <= Len(a) /\ j \in 1..i - 1
      BY <1>1, <1>2, <1>3, <2>1
    <3>2. t[j] = a[j] /\ a[j] = s[j]
      BY <1>2, <1>5, <3>1
    <3> QED BY <2>1, <3>2
  <2>2. CASE j >= i
    <3>1. j - (i - 1) \in 1..n - i /\ i + (j - (i - 1)) = j + 1
      BY <1>1, <2>2
    <3>2. j \in 1..Len(a) + Len(b) /\ ~(j <= Len(a)) /\ j - Len(a) = j - (i - 1)
      BY <1>1, <1>2, <1>3, <2>2
    <3>3. t[j] = b[j - (i - 1)]
      BY <1>5, <3>2
    <3>4. ~(j < i)
      BY <1>1, <2>2
    <3> QED BY <1>3, <3>1, <3>3, <3>4
  <2> QED BY <1>1, <2>1, <2>2
<1>8. ToSet(t) \subseteq ToSet(s)
  BY <1>1, <1>6, <1>7 DEF ToSet
<1>9. ASSUME Distinct(s) PROVE Distinct(t)
  BY <1>1, <1>6, <1>7, <1>9 DEF Distinct
<1>10. ASSUME Distinct(s), s[i] # Event PROVE s[i] \notin ToSet(t)
  BY <1>1, <1>6, <1>7, <1>10 DEF Distinct, ToSet
<1> QED BY <1>5, <1>6, <1>8, <1>9, <1>10 DEF t, n

LEMMA EmptyItems ==
  /\ <<>> \in Seq(Items) /\ Len(<<>>) = 0 /\ ToSet(<<>>) = {} /\ Distinct(<<>>)
  /\ \A s \in Seq(Items) : s # <<>> => Len(s) \in Nat \ {0}
<1>1. <<>> \in Seq(Items) /\ Len(<<>>) = 0
  BY EmptySeq
<1>2. ToSet(<<>>) = {} /\ Distinct(<<>>)
  BY DEF ToSet, Distinct
<1>3. \A s \in Seq(Items) : s # <<>> => Len(s) \in Nat \ {0}
  BY EmptySeq, LenProperties
<1> QED BY <1>1, <1>2, <1>3
-----------------------------------------------------------------------------
(* The invariant *)

\* Only a free place has no message.
Named ==
  \A p \in Procs, w \in Windows, k \in 1..Concurrency :
    place[p][w][k].msg = NoMsg => place[p][w][k] = Free

\* The ticks that the places f of a window are still taken, as a set of pairs.
Ticks == (1..Concurrency) \X (1..AttemptTicks)
Load(f) == {x \in Ticks : x[2] <= f[x[1]].left}

\* How many of them are free.
Room(f) == Cardinality({k \in 1..Concurrency : f[k] = Free})

\* Time that the last of n items needs, at worst, in a window with that load. In a
\* tick the places of a window work off Concurrency ticks of it.
Needs(n, load) == Concurrency * (AttemptTicks + 1) + load + (n - 1) * AttemptTicks

\* A message that was not sent is not hidden, and one that is held is in the queue.
UnsentIsVisible == \A id \in MsgIds : stored[id] = "unsent" => hide[id] = 0
HeldIsQueued    == \A id \in MsgIds : Held(id) => stored[id] = "queued"

\* What is prefetched was received since the last tick.
BufferInTime == \A id \in MsgIds, p \in Procs : InBuffer(p, id) => hide[id] = Vt

\* What waits has a place at once, or it is hidden for longer than it takes when
\* all the others are first.
WaitingInTime ==
  \A id \in MsgIds, p \in Procs, w \in Windows :
    InWaiting(p, w, id) =>
      \/ Len(waiting[p][w]) <= Room(place[p][w]) /\ hide[id] > AttemptTicks
      \/ Concurrency * hide[id] >= Needs(Len(waiting[p][w]), Cardinality(Load(place[p][w])))

\* What is attempted is hidden for longer than the rest of the attempt takes.
PlaceInTime ==
  \A id \in MsgIds, p \in Procs, w \in Windows, k \in 1..Concurrency :
    InPlace(p, w, k, id) => hide[id] > place[p][w][k].left

InTime == UnsentIsVisible /\ HeldIsQueued /\ BufferInTime /\ WaitingInTime /\ PlaceInTime

CInv == ConsumerTypeOK /\ HeldOnce /\ Named /\ InTime

\* No window closes with more than n items.
SmallBatches(n) == \A p \in Procs : Len(buffer[p]) <= n

\* The attempts of a window with n items end before the first of them is visible
\* again: all at once in their places, or one after the other in each of them.
KeepsPace(n) ==
  \/ n <= Concurrency /\ AttemptTicks < Vt
  \/ Concurrency * Vt >= Needs(n, 0)

\* What a window may become: the ticker adds QUEUE_MAXFETCH messages to it at
\* most, and each message that is sent one event.
Batch == MaxFetch + Cardinality(MsgIds)

Sent == {id \in MsgIds : stored[id] # "unsent"}

BatchBound ==
  \A p \in Procs : Len(buffer[p]) + fetches[p] <= MaxFetch + Cardinality(Sent)

-----------------------------------------------------------------------------
(* Types *)

LEMMA FreeInRange ==
  ASSUME NEW p \in Procs, NEW w \in Windows, FreePlaces(p, w) # {}
  PROVE  Min(FreePlaces(p, w)) \in 1..Concurrency /\ place[p][w][Min(FreePlaces(p, w))] = Free
<1>1. FreePlaces(p, w) \in SUBSET Nat
  BY DEF FreePlaces
<1>2. Min(FreePlaces(p, w)) \in FreePlaces(p, w)
  BY <1>1, MinInSet
<1> QED BY <1>2 DEF FreePlaces

LEMMA ConstantTypes ==
  /\ Concurrency \in Nat \ {0} /\ MaxFetch \in Nat \ {0} /\ AttemptTicks \in Nat \ {0}
  /\ Vt \in Nat \ {0} /\ RetryVt \in Nat \ {0} /\ RetryVt <= Vt
  BY ConsumerAssumption

LEMMA LeftIsNat ==
  ASSUME ConsumerTypeOK, NEW p \in Procs, NEW w \in Windows, NEW k \in 1..Concurrency
  PROVE  place[p][w][k] \in Places /\ place[p][w][k].left \in Nat
<1>1. place \in [Procs -> [Windows -> [1..Concurrency -> Places]]]
  BY DEF ConsumerTypeOK
<1>2. place[p] \in [Windows -> [1..Concurrency -> Places]]
  BY <1>1
<1>3. place[p][w][k] \in Places
  BY <1>2
<1>4. 0..AttemptTicks \subseteq Nat
  BY ConstantTypes
<1>5. ASSUME NEW x \in Places PROVE x.left \in Nat
  BY <1>4 DEF Places
<1> QED BY <1>3, <1>5

\* Place k of a window gets x, and the others stay what they are.
PlaceBecomes(p, w, k, x) ==
  /\ place' \in [Procs -> [Windows -> [1..Concurrency -> Places]]]
  /\ place'[p][w][k] = x
  /\ \A q \in Procs, v \in Windows, l \in 1..Concurrency :
       q # p \/ v # w \/ l # k => place'[q][v][l] = place[q][v][l]

LEMMA PlaceExcept ==
  ASSUME ConsumerTypeOK, NEW p \in Procs, NEW w \in Windows, NEW k \in 1..Concurrency,
         NEW x \in Places, place' = [place EXCEPT ![p][w][k] = x]
  PROVE  PlaceBecomes(p, w, k, x)
<1> DEFINE K == 1..Concurrency
           f == place
           g == place'
<1>0. f \in [Procs -> [Windows -> [K -> Places]]] /\ g = [f EXCEPT ![p][w][k] = x] /\ k \in K
  BY DEF ConsumerTypeOK
<1> HIDE DEF K, f, g
<1> DEFINE b == f[p][w]
           c == [b EXCEPT ![k] = x]
           a == [f[p] EXCEPT ![w] = c]
<1>1. b \in [K -> Places] /\ f[p] \in [Windows -> [K -> Places]]
  BY <1>0
<1> HIDE DEF b
<1>2. c \in [K -> Places] /\ c[k] = x /\ \A l \in K : l # k => c[l] = b[l]
  BY <1>0, <1>1
<1> HIDE DEF c
<1>3. a \in [Windows -> [K -> Places]] /\ a[w] = c /\ \A v \in Windows : v # w => a[v] = f[p][v]
  BY <1>1, <1>2
<1>4. g = [f EXCEPT ![p] = a]
  BY <1>0 DEF a, b, c
<1> HIDE DEF a
<1>5. /\ g \in [Procs -> [Windows -> [K -> Places]]]
      /\ g[p] = a
      /\ \A q \in Procs : q # p => g[q] = f[q]
  BY <1>0, <1>3, <1>4
<1>6. ASSUME NEW q \in Procs, NEW v \in Windows, NEW l \in K, q # p \/ v # w \/ l # k
      PROVE  g[q][v][l] = f[q][v][l]
  <2>1. CASE q # p
    BY <1>5, <2>1
  <2>2. CASE q = p /\ v # w
    BY <1>3, <1>5, <2>2
  <2>3. CASE q = p /\ v = w /\ l # k
    BY <1>2, <1>3, <1>5, <2>3 DEF b
  <2> QED BY <1>6, <2>1, <2>2, <2>3
<1> QED BY <1>2, <1>3, <1>5, <1>6 DEF PlaceBecomes, K, f, g

\* An item leaves the window, and what it leaves is shorter.
LEMMA LeaveEffect ==
  ASSUME ConsumerTypeOK, NEW p \in Procs, NEW w \in Windows,
         NEW i \in DOMAIN waiting[p][w], Leave(p, w, i)
  PROVE  /\ waiting' \in [Procs -> [Windows -> Seq(Items)]]
         /\ waiting'[p][w] = RemoveAt(waiting[p][w], i)
         /\ \A q \in Procs, v \in Windows :
              q # p \/ v # w => waiting'[q][v] = waiting[q][v]
<1>1. waiting[p][w] \in Seq(Items)
  BY DEF ConsumerTypeOK
<1>2. RemoveAt(waiting[p][w], i) \in Seq(Items)
  BY <1>1, RemoveItem
<1> QED BY <1>2 DEF Leave, ConsumerTypeOK

\* An item leaves the window and its message takes a place that was free.
LEMMA BeginEffect ==
  ASSUME ConsumerTypeOK, NEW p \in Procs, NEW w \in Windows, FreePlaces(p, w) # {},
         NEW i \in DOMAIN waiting[p][w], NEW id \in MsgIds, Begin(p, w, i, id)
  PROVE  /\ Leave(p, w, i)
         /\ \E k \in 1..Concurrency :
              place[p][w][k] = Free /\ PlaceBecomes(p, w, k, AttemptOf(id))
<1> DEFINE k == Min(FreePlaces(p, w))
<1>1. k \in 1..Concurrency /\ place[p][w][k] = Free
  BY FreeInRange
<1>2. place' = [place EXCEPT ![p][w][k] = AttemptOf(id)]
  BY DEF Begin
<1>3. AttemptOf(id) \in Places
  BY ConsumerAssumption DEF AttemptOf, Places
<1> HIDE DEF k
<1>4. Leave(p, w, i)
  BY DEF Begin
<1>5. place \in [Procs -> [Windows -> [1..Concurrency -> Places]]]
  BY DEF ConsumerTypeOK
<1>6. PlaceBecomes(p, w, k, AttemptOf(id))
  BY <1>1, <1>2, <1>3, PlaceExcept
<1> QED BY <1>1, <1>4, <1>6

\* An attempt ends and nothing else changes in the places.
LEMMA EndsEffect ==
  ASSUME ConsumerTypeOK, NEW p \in Procs, NEW w \in Windows, NEW k \in 1..Concurrency,
         Ends(p, w, k)
  PROVE  /\ place[p][w][k] # Free /\ PlaceBecomes(p, w, k, Free)
         /\ quiet' \in [Procs -> 0..MaxIdle + 1]
         /\ UNCHANGED <<buffer, waiting, fetches>>
<1>1. Free \in Places
  BY ConsumerAssumption DEF Free, Places
<1>2. place' = [place EXCEPT ![p][w][k] = Free] /\ place[p][w][k] # Free
      /\ UNCHANGED <<buffer, waiting, fetches>>
  BY DEF Ends
<1>3. quiet' \in [Procs -> 0..MaxIdle + 1]
  BY ConsumerAssumption DEF Ends, ConsumerTypeOK
<1>4. place \in [Procs -> [Windows -> [1..Concurrency -> Places]]]
  BY DEF ConsumerTypeOK
<1>5. PlaceBecomes(p, w, k, Free)
  BY <1>1, <1>2, PlaceExcept
<1> QED BY <1>2, <1>3, <1>5

LEMMA HideTypes ==
  ASSUME ConsumerTypeOK
  PROVE  /\ \A id \in MsgIds : Received(id) \in [MsgIds -> 0..Vt]
         /\ \A id : PutBack(id) => hide' \in [MsgIds -> 0..Vt]
<1>1. Vt \in 0..Vt /\ RetryVt \in 0..Vt /\ hide \in [MsgIds -> 0..Vt]
  BY ConsumerAssumption DEF ConsumerTypeOK
<1> QED BY <1>1 DEF Received, PutBack

LEMMA TypeInit == ConsumerInit => ConsumerTypeOK
<1> SUFFICES ASSUME ConsumerInit PROVE ConsumerTypeOK
  OBVIOUS
<1>1. <<>> \in Seq(Items)
  BY EmptyItems
<1>2. Free \in Places
  BY ConsumerAssumption DEF Free, Places
<1> QED BY <1>1, <1>2, ConsumerAssumption DEF ConsumerInit, ConsumerTypeOK, NoBatch, NoPlace

LEMMA TypeNext == ConsumerTypeOK /\ [ConsumerNext]_consumerVars => ConsumerTypeOK'
<1> SUFFICES ASSUME ConsumerTypeOK, [ConsumerNext]_consumerVars PROVE ConsumerTypeOK'
  OBVIOUS
<1>0. /\ <<>> \in Seq(Items)
      /\ \A s \in Seq(Items), x \in Items : Append(s, x) \in Seq(Items)
      /\ \A id \in MsgIds : id \in Items
      /\ Event \in Items
  BY EmptyItems, AppendItem DEF Items
<1>1. CASE UNCHANGED consumerVars
  BY <1>1 DEF ConsumerTypeOK, consumerVars, queueVars, processVars
<1>2. ASSUME NEW id \in MsgIds, Send(id) PROVE ConsumerTypeOK'
  BY <1>0, <1>2 DEF Send, ConsumerTypeOK
<1>3. ASSUME NEW p \in Procs, CloseWindow(p) PROVE ConsumerTypeOK'
  BY <1>0, <1>3 DEF CloseWindow, queueVars, ConsumerTypeOK
<1>4. ASSUME NEW p \in Procs, Prefetch(p) PROVE ConsumerTypeOK'
  <2>1. CASE Visible = {}
    <3>1. fetches' = [fetches EXCEPT ![p] = 0] /\ UNCHANGED <<stored, hide, buffer, waiting,
                                                              place, quiet, faults>>
      BY <1>4, <2>1 DEF Prefetch
    <3> QED BY <3>1, ConsumerAssumption DEF ConsumerTypeOK
  <2>2. ASSUME NEW id \in Visible, hide' = Received(id),
               buffer' = [buffer EXCEPT ![p] = Append(@, id)],
               fetches' = [fetches EXCEPT ![p] = @ - 1]
        PROVE  ConsumerTypeOK'
    <3>1. id \in MsgIds /\ fetches[p] > 0 /\ UNCHANGED <<stored, waiting, place, quiet, faults>>
      BY <1>4, <2>2 DEF Prefetch, Visible
    <3>2. hide' \in [MsgIds -> 0..Vt]
      BY <2>2, <3>1, HideTypes
    <3>3. fetches' \in [Procs -> 0..MaxFetch]
      BY <2>2, <3>1, ConsumerAssumption DEF ConsumerTypeOK
    <3>4. buffer' \in [Procs -> Seq(Items)]
      BY <1>0, <2>2, <3>1 DEF ConsumerTypeOK
    <3> QED BY <3>1, <3>2, <3>3, <3>4 DEF ConsumerTypeOK
  <2> QED BY <1>4, <2>1, <2>2 DEF Prefetch
<1>5. ASSUME NEW p \in Procs, NEW w \in Windows, AttemptPrefetched(p, w)
      PROVE  ConsumerTypeOK'
  <2>1. PICK i \in DOMAIN waiting[p][w] :
          waiting[p][w][i] # Event /\ Begin(p, w, i, waiting[p][w][i])
    BY <1>5 DEF AttemptPrefetched
  <2>2. waiting[p][w][i] \in MsgIds
    <3>1. waiting[p][w] \in Seq(Items)
      BY DEF ConsumerTypeOK
    <3>2. waiting[p][w][i] \in Items
      BY <3>1, ElementOfSeq, LenProperties
    <3> QED BY <2>1, <3>2 DEF Items
  <2>3. UNCHANGED <<queueVars, buffer, fetches, quiet, faults>> /\ FreePlaces(p, w) # {}
    BY <1>5 DEF AttemptPrefetched
  <2>4. Leave(p, w, i) /\ place' \in [Procs -> [Windows -> [1..Concurrency -> Places]]]
    BY <2>1, <2>2, <2>3, BeginEffect DEF PlaceBecomes
  <2>5. waiting' \in [Procs -> [Windows -> Seq(Items)]]
    BY <2>4, LeaveEffect
  <2> QED BY <2>3, <2>4, <2>5 DEF ConsumerTypeOK, queueVars
<1>6. ASSUME NEW p \in Procs, NEW w \in Windows, AttemptReceived(p, w)
      PROVE  ConsumerTypeOK'
  <2>1. PICK i \in DOMAIN waiting[p][w] :
          \/ \E id \in Visible : hide' = Received(id) /\ Begin(p, w, i, id)
          \/ Visible = {} /\ Leave(p, w, i) /\ UNCHANGED <<hide, place>>
    BY <1>6 DEF AttemptReceived
  <2>2. UNCHANGED <<stored, buffer, fetches, quiet, faults>> /\ FreePlaces(p, w) # {}
    BY <1>6 DEF AttemptReceived
  <2>3. ASSUME NEW id \in Visible, hide' = Received(id), Begin(p, w, i, id)
        PROVE  ConsumerTypeOK'
    <3>1. id \in MsgIds
      BY DEF Visible
    <3>2. hide' \in [MsgIds -> 0..Vt]
      BY <2>3, <3>1, HideTypes
    <3>3. Leave(p, w, i) /\ place' \in [Procs -> [Windows -> [1..Concurrency -> Places]]]
      BY <2>2, <2>3, <3>1, BeginEffect DEF PlaceBecomes
    <3>4. waiting' \in [Procs -> [Windows -> Seq(Items)]]
      BY <3>3, LeaveEffect
    <3> QED BY <2>2, <3>2, <3>3, <3>4 DEF ConsumerTypeOK
  <2>4. CASE Leave(p, w, i) /\ UNCHANGED <<hide, place>>
    BY <2>2, <2>4, LeaveEffect DEF ConsumerTypeOK
  <2> QED BY <2>1, <2>3, <2>4
<1>7. ASSUME ReceiveRejects PROVE hide' \in [MsgIds -> 0..Vt] /\ faults' \in 0..MaxFaults
  <2>1. hide' \in [MsgIds -> 0..Vt]
    BY <1>7, HideTypes DEF ReceiveRejects, ConsumerTypeOK, Visible
  <2>2. faults' \in 0..MaxFaults
    BY <1>7, ConsumerAssumption DEF ReceiveRejects, Blame, ConsumerTypeOK
  <2> QED BY <2>1, <2>2
<1>8. ASSUME NEW p \in Procs, NEW w \in Windows, AttemptRejects(p, w)
      PROVE  ConsumerTypeOK'
  BY <1>0, <1>7, <1>8 DEF AttemptRejects, ConsumerTypeOK
<1>9. ASSUME NEW p \in Procs, PrefetchRejects(p) PROVE ConsumerTypeOK'
  <2>1. fetches' \in [Procs -> 0..MaxFetch]
    BY <1>9, ConsumerAssumption DEF PrefetchRejects, ConsumerTypeOK
  <2> QED BY <1>7, <1>9, <2>1 DEF PrefetchRejects, ConsumerTypeOK
<1>10. ASSUME NEW p \in Procs, NEW w \in Windows, NEW k \in 1..Concurrency, Finish(p, w, k)
       PROVE  ConsumerTypeOK'
  <2>1. Ends(p, w, k)
    BY <1>10 DEF Finish
  <2> QED BY <1>10, <2>1, EndsEffect DEF Finish, PlaceBecomes, ConsumerTypeOK
<1>11. ASSUME Blame PROVE faults' \in 0..MaxFaults
  BY <1>11, ConsumerAssumption DEF Blame, ConsumerTypeOK
<1>12. ASSUME NEW p \in Procs, NEW w \in Windows, NEW k \in 1..Concurrency, Retry(p, w, k)
       PROVE  ConsumerTypeOK'
  <2>1. Ends(p, w, k) /\ Blame /\ PutBack(place[p][w][k].msg)
    BY <1>12 DEF Retry
  <2>2. UNCHANGED stored
    BY <2>1 DEF PutBack
  <2> QED BY <1>11, <2>1, <2>2, EndsEffect, HideTypes DEF PlaceBecomes, ConsumerTypeOK
<1>13. ASSUME NEW p \in Procs, NEW w \in Windows, NEW k \in 1..Concurrency, Throw(p, w, k)
       PROVE  ConsumerTypeOK'
  <2>1. Ends(p, w, k) /\ Blame
    BY <1>13 DEF Throw
  <2> QED BY <1>11, <1>13, <2>1, EndsEffect DEF Throw, PlaceBecomes, ConsumerTypeOK
<1>14. ASSUME NEW p \in Procs, Crash(p) PROVE ConsumerTypeOK'
  <2>1. NoBatch \in [Windows -> Seq(Items)]
    BY <1>0 DEF NoBatch
  <2>2. NoPlace \in [Windows -> [1..Concurrency -> Places]]
    BY ConsumerAssumption DEF NoPlace, Free, Places
  <2>3. fetches' \in [Procs -> 0..MaxFetch] /\ quiet' \in [Procs -> 0..MaxIdle + 1]
    BY <1>14, ConsumerAssumption DEF Crash, ConsumerTypeOK
  <2> QED BY <1>0, <1>11, <1>14, <2>1, <2>2, <2>3 DEF Crash, queueVars, ConsumerTypeOK
<1>15. ASSUME Tick PROVE ConsumerTypeOK'
  <2>1. hide' \in [MsgIds -> 0..Vt]
    BY <1>15, ConsumerAssumption DEF Tick, Less, ConsumerTypeOK
  <2>2. place' \in [Procs -> [Windows -> [1..Concurrency -> Places]]]
    <3>2. place \in [Procs -> [Windows -> [1..Concurrency -> Places]]]
      BY DEF ConsumerTypeOK
    <3>3. \A p \in Procs, w \in Windows, k \in 1..Concurrency :
            [place[p][w][k] EXCEPT !.left = Less(@)] \in Places
      <4> TAKE p \in Procs, w \in Windows, k \in 1..Concurrency
      <4>1. place[p][w][k] \in Places
        BY <3>2, ConstantTypes
      <4> QED BY <4>1, ConsumerAssumption DEF Less, Places
    <3>4. place' = [p \in Procs |-> [w \in Windows |-> [k \in 1..Concurrency |->
                     [place[p][w][k] EXCEPT !.left = Less(@)]]]]
      BY <1>15 DEF Tick
    <3> QED BY <3>3, <3>4, Zenon
  <2>3. quiet' \in [Procs -> 0..MaxIdle + 1]
    BY <1>15, ConsumerAssumption DEF Tick, ConsumerTypeOK
  <2>4. fetches' \in [Procs -> 0..MaxFetch]
    BY <1>15, ConsumerAssumption DEF Tick, Ticker, ConsumerTypeOK
  <2> QED BY <1>15, <2>1, <2>2, <2>3, <2>4 DEF Tick, ConsumerTypeOK
<1> QED BY <1>1, <1>2, <1>3, <1>4, <1>5, <1>6, <1>8, <1>9, <1>10, <1>12, <1>13, <1>14,
           <1>15 DEF ConsumerNext, Work

\* Every variable of the consumer keeps to its values, and the loop of the
\* ticker to QUEUE_MAXFETCH.
THEOREM ConsumerTypeCorrect == ConsumerSpec => []ConsumerTypeOK
  BY TypeInit, TypeNext, PTL DEF ConsumerSpec

-----------------------------------------------------------------------------
(* How long a window gets *)

LEMMA BatchInit == ConsumerInit => BatchBound
<1> SUFFICES ASSUME ConsumerInit PROVE BatchBound
  OBVIOUS
<1>1. IsFiniteSet(Sent)
  BY FS_Subset, ConsumerAssumption DEF Sent
<1>2. Cardinality(Sent) \in Nat
  BY <1>1, FS_CardinalityType
<1> QED BY <1>2, EmptyItems, ConstantTypes DEF ConsumerInit, BatchBound

\* Nothing that was sent becomes unsent, and only Send sends.
LEMMA SentGrows ==
  ASSUME ConsumerTypeOK, [ConsumerNext]_consumerVars
  PROVE  /\ Cardinality(Sent) \in Nat /\ Cardinality(Sent') \in Nat
         /\ Cardinality(Sent') <= Cardinality(MsgIds)
         /\ Cardinality(Sent) <= Cardinality(Sent')
         /\ \A id \in MsgIds : Send(id) => Cardinality(Sent') = Cardinality(Sent) + 1
<1>1. IsFiniteSet(Sent) /\ IsFiniteSet(Sent') /\ IsFiniteSet(MsgIds)
  BY FS_Subset, ConsumerAssumption DEF Sent
<1>2. Sent' \subseteq MsgIds
  BY DEF Sent
<1>3. ASSUME NEW id, stored' = [stored EXCEPT ![id] = "deleted"] PROVE Sent \subseteq Sent'
  BY <1>3 DEF Sent, ConsumerTypeOK
<1>4. ASSUME NEW id \in MsgIds, Send(id) PROVE id \notin Sent /\ Sent' = Sent \cup {id}
  BY <1>4 DEF Sent, Send, ConsumerTypeOK
<1>5. \/ UNCHANGED stored
      \/ \E id : stored' = [stored EXCEPT ![id] = "deleted"]
      \/ \E id \in MsgIds : Send(id)
  BY DEF ConsumerNext, Work, consumerVars, queueVars, CloseWindow, Prefetch, PrefetchRejects,
         AttemptPrefetched, AttemptReceived, AttemptRejects, Finish, Retry, PutBack, Throw,
         Crash, Tick
<1>6. Sent \subseteq Sent'
  BY <1>3, <1>4, <1>5 DEF Sent
<1> HIDE DEF Sent
<1>7. \A id \in MsgIds : Send(id) => Cardinality(Sent') = Cardinality(Sent) + 1
  BY <1>1, <1>4, FS_AddElement
<1> QED BY <1>1, <1>2, <1>6, <1>7, FS_CardinalityType, FS_Subset

LEMMA BatchNext ==
  ASSUME ConsumerTypeOK, BatchBound, [ConsumerNext]_consumerVars
  PROVE  BatchBound'
<1>1. /\ Cardinality(Sent) \in Nat /\ Cardinality(Sent') \in Nat
      /\ Cardinality(Sent) <= Cardinality(Sent')
      /\ \A id \in MsgIds : Send(id) => Cardinality(Sent') = Cardinality(Sent) + 1
  BY SentGrows
<1> SUFFICES ASSUME NEW p \in Procs
             PROVE  Len(buffer'[p]) + fetches'[p] <= MaxFetch + Cardinality(Sent')
  BY DEF BatchBound
<1>2. /\ buffer[p] \in Seq(Items) /\ Len(buffer[p]) \in Nat
      /\ fetches[p] \in Nat /\ fetches[p] <= MaxFetch /\ MaxFetch \in Nat
      /\ Len(buffer[p]) + fetches[p] <= MaxFetch + Cardinality(Sent)
  BY LenProperties, ConstantTypes DEF ConsumerTypeOK, BatchBound
<1>3. /\ \A x \in Items : Len(Append(buffer[p], x)) = Len(buffer[p]) + 1
      /\ Len(<<>>) = 0
      /\ Event \in Items /\ \A id \in MsgIds : id \in Items
  BY <1>2, AppendItem, EmptyItems DEF Items
<1>4. ASSUME NEW id \in MsgIds, Send(id)
      PROVE  Len(buffer'[p]) + fetches'[p] <= MaxFetch + Cardinality(Sent')
  <2>1. buffer'[p] = buffer[p] \/ buffer'[p] = Append(buffer[p], Event)
    BY <1>4 DEF Send
  <2>2. fetches'[p] = fetches[p]
    BY <1>4 DEF Send
  <2>3. Len(buffer'[p]) <= Len(buffer[p]) + 1 /\ Len(buffer'[p]) \in Nat
    BY <1>2, <1>3, <2>1
  <2>4. Cardinality(Sent') = Cardinality(Sent) + 1
    BY <1>1, <1>4
  <2>5. /\ Cardinality(Sent) \in Nat /\ MaxFetch \in Nat /\ Len(buffer[p]) \in Nat
        /\ fetches[p] \in Nat /\ Len(buffer[p]) + fetches[p] <= MaxFetch + Cardinality(Sent)
    BY <1>1, <1>2
  <2> QED BY <2>2, <2>3, <2>4, <2>5
<1>5. ASSUME NEW q \in Procs, Prefetch(q)
      PROVE  Len(buffer'[p]) + fetches'[p] <= Len(buffer[p]) + fetches[p]
  <2>1. CASE q # p
    BY <1>2, <1>5, <2>1 DEF Prefetch, ConsumerTypeOK
  <2>2. CASE q = p /\ Visible = {}
    <3>1. buffer'[p] = buffer[p] /\ fetches'[p] = 0
      BY <1>5, <2>2 DEF Prefetch, ConsumerTypeOK
    <3> QED BY <1>2, <3>1
  <2>3. CASE q = p /\ Visible # {}
    <3>1. PICK id \in Visible : /\ buffer' = [buffer EXCEPT ![p] = Append(@, id)]
                                /\ fetches' = [fetches EXCEPT ![p] = @ - 1]
      BY <1>5, <2>3 DEF Prefetch
    <3>2. buffer'[p] = Append(buffer[p], id) /\ fetches'[p] = fetches[p] - 1 /\ id \in MsgIds
      BY <3>1 DEF ConsumerTypeOK, Visible
    <3> QED BY <1>2, <1>3, <3>2
  <2> QED BY <2>1, <2>2, <2>3
<1>6. ASSUME NEW q \in Procs, CloseWindow(q)
      PROVE  Len(buffer'[p]) + fetches'[p] <= Len(buffer[p]) + fetches[p]
  <2>1. fetches'[p] = fetches[p] /\ (buffer'[p] = buffer[p] \/ buffer'[p] = <<>>)
    BY <1>6 DEF CloseWindow, ConsumerTypeOK
  <2> QED BY <1>2, <1>3, <2>1
<1>7. ASSUME NEW q \in Procs, PrefetchRejects(q) \/ Crash(q)
      PROVE  Len(buffer'[p]) + fetches'[p] <= Len(buffer[p]) + fetches[p]
  <2>1. /\ fetches'[p] = fetches[p] \/ fetches'[p] = 0
        /\ buffer'[p] = buffer[p] \/ buffer'[p] = <<>>
    BY <1>7 DEF PrefetchRejects, Crash, ConsumerTypeOK
  <2> QED BY <1>2, <1>3, <2>1
<1>8. ASSUME Tick PROVE Len(buffer'[p]) + fetches'[p] <= MaxFetch
  <2>1. buffer'[p] = <<>>
    BY <1>8 DEF Tick, Urgent
  <2>2. fetches'[p] = 0 \/ fetches'[p] = MaxFetch
    BY <1>8 DEF Tick, Ticker
  <2> QED BY <1>2, <1>3, <2>1, <2>2
<1>9. ASSUME UNCHANGED <<buffer, fetches>>
      PROVE  Len(buffer'[p]) + fetches'[p] <= Len(buffer[p]) + fetches[p]
  BY <1>2, <1>9
<1>10. \/ UNCHANGED <<buffer, fetches>>
       \/ \E id \in MsgIds : Send(id)
       \/ \E q \in Procs : Prefetch(q) \/ CloseWindow(q) \/ PrefetchRejects(q) \/ Crash(q)
       \/ Tick
  BY DEF ConsumerNext, Work, consumerVars, processVars, AttemptPrefetched, AttemptReceived,
         AttemptRejects, Finish, Retry, Throw, Ends
<1>11. CASE Len(buffer'[p]) + fetches'[p] <= Len(buffer[p]) + fetches[p]
  <2>1. Len(buffer'[p]) \in Nat /\ fetches'[p] \in Nat
    <3>1. ConsumerTypeOK'
      BY TypeNext
    <3> QED BY <3>1, LenProperties, ConstantTypes DEF ConsumerTypeOK
  <2> QED BY <1>1, <1>2, <1>11, <2>1
<1>12. CASE Len(buffer'[p]) + fetches'[p] <= MaxFetch
  <2>1. Len(buffer'[p]) \in Nat /\ fetches'[p] \in Nat
    <3>1. ConsumerTypeOK'
      BY TypeNext
    <3> QED BY <3>1, LenProperties, ConstantTypes DEF ConsumerTypeOK
  <2> QED BY <1>1, <1>2, <1>12, <2>1
<1> QED BY <1>4, <1>5, <1>6, <1>7, <1>8, <1>9, <1>10, <1>11, <1>12

\* The list that a window hands to Bluebird.map has QUEUE_MAXFETCH messages and an
\* event for every message that was sent, at most.
THEOREM BatchesAreSmall == ConsumerSpec => []SmallBatches(Batch)
<1>1. ConsumerTypeOK /\ BatchBound => SmallBatches(Batch)
  <2> SUFFICES ASSUME ConsumerTypeOK, BatchBound, NEW p \in Procs
               PROVE  Len(buffer[p]) <= MaxFetch + Cardinality(MsgIds)
    BY DEF SmallBatches, Batch
  <2>1. IsFiniteSet(MsgIds) /\ Sent \in SUBSET MsgIds
    BY ConsumerAssumption DEF Sent
  <2> HIDE DEF Sent
  <2>2. Cardinality(Sent) <= Cardinality(MsgIds) /\ Cardinality(Sent) \in Nat
        /\ Cardinality(MsgIds) \in Nat
    BY <2>1, FS_Subset, FS_CardinalityType
  <2>3. Len(buffer[p]) \in Nat /\ fetches[p] \in Nat /\ MaxFetch \in Nat
    BY LenProperties, ConstantTypes DEF ConsumerTypeOK
  <2> QED BY <2>2, <2>3 DEF BatchBound
<1> QED BY <1>1, TypeInit, TypeNext, BatchInit, BatchNext, PTL DEF ConsumerSpec

-----------------------------------------------------------------------------
(* The load of a window *)

LEMMA TicksFinite ==
  IsFiniteSet(1..Concurrency) /\ Cardinality(1..Concurrency) = Concurrency
  /\ IsFiniteSet(1..AttemptTicks) /\ Cardinality(1..AttemptTicks) = AttemptTicks
  /\ IsFiniteSet(Ticks)
<1>1. Concurrency \in Nat \ {0} /\ AttemptTicks \in Nat \ {0}
  BY ConstantTypes
<1>2. IsFiniteSet(1..Concurrency) /\ Cardinality(1..Concurrency) = Concurrency
  BY <1>1, FS_Interval
<1>3. IsFiniteSet(1..AttemptTicks) /\ Cardinality(1..AttemptTicks) = AttemptTicks
  BY <1>1, FS_Interval
<1> QED BY <1>2, <1>3, FS_Product DEF Ticks

LEMMA LoadFinite ==
  ASSUME NEW f
  PROVE  IsFiniteSet(Load(f)) /\ Cardinality(Load(f)) \in Nat
<1>1. Load(f) \in SUBSET Ticks
  BY DEF Load
<1> QED BY <1>1, TicksFinite, FS_Subset, FS_CardinalityType

\* Places that are taken for a shorter time are less of a load.
LEMMA LoadShrinks ==
  ASSUME NEW f \in [1..Concurrency -> Places], NEW g \in [1..Concurrency -> Places],
         \A k \in 1..Concurrency : g[k].left <= f[k].left
  PROVE  Cardinality(Load(g)) <= Cardinality(Load(f))
<1>1. \A k \in 1..Concurrency : f[k].left \in Nat /\ g[k].left \in Nat
  BY ConstantTypes DEF Places
<1>2. Load(g) \in SUBSET Load(f)
  BY <1>1 DEF Load, Ticks
<1> QED BY <1>2, LoadFinite, FS_Subset

\* A place that is taken adds no more than one attempt.
LEMMA LoadGrows ==
  ASSUME NEW f \in [1..Concurrency -> Places], NEW g \in [1..Concurrency -> Places],
         NEW k \in 1..Concurrency, \A l \in 1..Concurrency : l # k => g[l] = f[l]
  PROVE  Cardinality(Load(g)) <= Cardinality(Load(f)) + AttemptTicks
<1> DEFINE T == {k} \X (1..AttemptTicks)
<1>1. IsFiniteSet({k}) /\ Cardinality({k}) = 1
  BY FS_Singleton
<1>2. IsFiniteSet(T) /\ Cardinality(T) = AttemptTicks
  <2>1. IsFiniteSet(T) /\ Cardinality(T) = Cardinality({k}) * Cardinality(1..AttemptTicks)
    BY <1>1, TicksFinite, FS_Product
  <2> QED BY <1>1, <2>1, TicksFinite, ConstantTypes
<1>3. Load(g) \in SUBSET (Load(f) \cup T)
  BY DEF Load, Ticks
<1> HIDE DEF T
<1>4. /\ IsFiniteSet(Load(f) \cup T)
      /\ Cardinality(Load(f) \cup T)
           = Cardinality(Load(f)) + Cardinality(T) - Cardinality(Load(f) \cap T)
  BY <1>2, LoadFinite, FS_Union
<1>5. Cardinality(Load(f) \cap T) \in Nat /\ Cardinality(Load(f)) \in Nat
      /\ Cardinality(Load(g)) \in Nat /\ Cardinality(Load(f) \cup T) \in Nat
  BY <1>2, <1>4, LoadFinite, FS_Intersection, FS_CardinalityType
<1>6. Cardinality(Load(g)) <= Cardinality(Load(f) \cup T)
  BY <1>3, <1>4, FS_Subset
<1> QED BY <1>2, <1>4, <1>5, <1>6, ConstantTypes

\* Free places are none.
LEMMA LoadOfFree ==
  ASSUME NEW f \in [1..Concurrency -> Places], \A k \in 1..Concurrency : f[k] = Free
  PROVE  Cardinality(Load(f)) = 0
<1>1. Load(f) = {}
  BY ConstantTypes DEF Load, Ticks, Free
<1> QED BY <1>1, FS_EmptySet

LEMMA RoomFinite ==
  ASSUME NEW f
  PROVE  /\ IsFiniteSet({k \in 1..Concurrency : f[k] = Free})
         /\ Room(f) \in Nat
<1>1. {k \in 1..Concurrency : f[k] = Free} \in SUBSET (1..Concurrency)
  OBVIOUS
<1> QED BY <1>1, TicksFinite, FS_Subset, FS_CardinalityType DEF Room

\* A place that is taken, or none, is what a step takes of the room.
LEMMA RoomShrinks ==
  ASSUME NEW f, NEW g, NEW k \in 1..Concurrency,
         \A l \in 1..Concurrency : l # k /\ f[l] = Free => g[l] = Free
  PROVE  /\ Room(f) <= Room(g) + 1
         /\ (f[k] = Free => g[k] = Free) => Room(f) <= Room(g)
<1> DEFINE F == {l \in 1..Concurrency : f[l] = Free}
           G == {l \in 1..Concurrency : g[l] = Free}
<1>1. F \in SUBSET (G \cup {k}) /\ ((f[k] = Free => g[k] = Free) => F \in SUBSET G)
  OBVIOUS
<1>2. IsFiniteSet(F) /\ IsFiniteSet(G) /\ Room(f) \in Nat /\ Room(g) \in Nat
  BY RoomFinite
<1>3. Room(f) = Cardinality(F) /\ Room(g) = Cardinality(G)
  BY DEF Room
<1> HIDE DEF F, G
<1>4. IsFiniteSet(G \cup {k}) /\ Cardinality(G \cup {k}) <= Cardinality(G) + 1
  <2>1. /\ IsFiniteSet(G \cup {k})
        /\ Cardinality(G \cup {k}) = IF k \in G THEN Cardinality(G) ELSE Cardinality(G) + 1
    BY <1>2, FS_AddElement
  <2> QED BY <1>2, <1>3, <2>1
<1>5. Cardinality(F) <= Cardinality(G \cup {k}) /\ Cardinality(G \cup {k}) \in Nat
  BY <1>1, <1>4, FS_Subset, FS_CardinalityType
<1>6. F \in SUBSET G => Cardinality(F) <= Cardinality(G)
  BY <1>2, FS_Subset
<1> QED BY <1>1, <1>2, <1>3, <1>4, <1>5, <1>6

LEMMA RoomOfFree ==
  ASSUME NEW f, \A k \in 1..Concurrency : f[k] = Free
  PROVE  Room(f) = Concurrency
<1>1. {k \in 1..Concurrency : f[k] = Free} = 1..Concurrency
  OBVIOUS
<1> QED BY <1>1, TicksFinite DEF Room

LEMMA NoRoom ==
  ASSUME NEW f, \A k \in 1..Concurrency : f[k] # Free
  PROVE  Room(f) = 0
<1>1. {k \in 1..Concurrency : f[k] = Free} = {}
  OBVIOUS
<1> QED BY <1>1, FS_EmptySet DEF Room

\* A window whose places become f, then g: it has no more to do and as much room,
\* or an attempt more, or nothing but room.
Eased(f, g) ==
  Cardinality(Load(g)) <= Cardinality(Load(f)) /\ Room(f) <= Room(g)

Burdened(f, g) ==
  Cardinality(Load(g)) <= Cardinality(Load(f)) + AttemptTicks /\ Room(f) <= Room(g) + 1

Vacant(f) == Cardinality(Load(f)) = 0 /\ Room(f) = Concurrency

LEMMA EasedByNone ==
  ASSUME NEW f
  PROVE  Eased(f, f) /\ Burdened(f, f)
<1>1. Cardinality(Load(f)) \in Nat /\ Room(f) \in Nat /\ AttemptTicks \in Nat
  BY LoadFinite, RoomFinite, ConstantTypes
<1> QED BY <1>1 DEF Eased, Burdened

LEMMA EasedBy ==
  ASSUME NEW f \in [1..Concurrency -> Places], NEW g \in [1..Concurrency -> Places],
         \A k \in 1..Concurrency : g[k] = f[k] \/ g[k] = Free
  PROVE  Eased(f, g)
<1>1. \A k \in 1..Concurrency : g[k].left <= f[k].left
  <2> TAKE k \in 1..Concurrency
  <2>1. f[k] \in Places
    OBVIOUS
  <2>2. f[k].left \in Nat /\ Free.left = 0
    BY <2>1, ConstantTypes DEF Places, Free
  <2> QED BY <2>2
<1>2. Room(f) <= Room(g)
  <2>1. 1 \in 1..Concurrency
    BY ConstantTypes
  <2>2. \A k \in 1..Concurrency : f[k] = Free => g[k] = Free
    OBVIOUS
  <2> QED BY <2>1, <2>2, RoomShrinks
<1> QED BY <1>1, <1>2, LoadShrinks DEF Eased

LEMMA BurdenedBy ==
  ASSUME NEW f \in [1..Concurrency -> Places], NEW g \in [1..Concurrency -> Places],
         NEW k \in 1..Concurrency, \A l \in 1..Concurrency : l # k => g[l] = f[l]
  PROVE  Burdened(f, g)
<1>1. Room(f) <= Room(g) + 1
  <2>1. \A l \in 1..Concurrency : l # k /\ f[l] = Free => g[l] = Free
    OBVIOUS
  <2> QED BY <2>1, RoomShrinks
<1> QED BY <1>1, LoadGrows DEF Burdened

\* When all its places are taken a tick works off one of each.
LEMMA LoadTicks ==
  ASSUME NEW f \in [1..Concurrency -> Places], NEW g \in [1..Concurrency -> Places],
         \A k \in 1..Concurrency : f[k].left > 0 /\ g[k].left = f[k].left - 1
  PROVE  Cardinality(Load(g)) + Concurrency <= Cardinality(Load(f))
<1> DEFINE T == {x \in Ticks : x[2] = f[x[1]].left}
           h == [k \in 1..Concurrency |-> <<k, f[k].left>>]
<1>1. \A k \in 1..Concurrency : f[k].left \in 1..AttemptTicks
  BY ConstantTypes DEF Places
<1>2. h \in Injection(1..Concurrency, T)
  <2>1. \A k \in 1..Concurrency : <<k, f[k].left>> \in T
    BY <1>1 DEF Ticks
  <2>2. h \in [1..Concurrency -> T]
    BY <2>1
  <2> QED BY <2>2 DEF Injection, IsInjective
<1>3. T \in SUBSET Ticks
  OBVIOUS
<1>4. T \cup Load(g) \in SUBSET Load(f)
  BY <1>1, ConstantTypes DEF Load, Ticks
<1>5. T \cap Load(g) = {}
  BY <1>1, ConstantTypes DEF Load, Ticks
<1> HIDE DEF T, h
<1>6. IsFiniteSet(T) /\ Cardinality(T) \in Nat
  BY <1>3, TicksFinite, FS_Subset, FS_CardinalityType
<1>7. Concurrency <= Cardinality(T)
  BY <1>2, <1>6, TicksFinite, FS_Injection
<1>8. Cardinality(T \cup Load(g)) = Cardinality(T) + Cardinality(Load(g))
  <2>1. IsFiniteSet(Load(g)) /\ Cardinality(Load(g)) \in Nat
    BY LoadFinite
  <2>2. Cardinality(T \cup Load(g))
          = Cardinality(T) + Cardinality(Load(g)) - Cardinality(T \cap Load(g))
    BY <1>6, <2>1, FS_Union
  <2>3. Cardinality(T \cap Load(g)) = 0
    BY <1>5, FS_EmptySet
  <2> QED BY <1>6, <2>1, <2>2, <2>3
<1>9. Cardinality(T \cup Load(g)) <= Cardinality(Load(f))
  BY <1>4, LoadFinite, FS_Subset
<1> QED BY <1>6, <1>7, <1>8, <1>9, LoadFinite, ConstantTypes

-----------------------------------------------------------------------------
(* A message is held in one place *)

\* Of message id no position is new.
Shrinks(id) ==
  \A q \in Procs :
    /\ InBuffer(q, id)' => InBuffer(q, id)
    /\ \A v \in Windows :
         /\ InWaiting(q, v, id)' => InWaiting(q, v, id)
         /\ \A l \in 1..Concurrency : InPlace(q, v, l, id)' => InPlace(q, v, l, id)

DistinctLists ==
  \A p \in Procs : Distinct(buffer[p]) /\ \A w \in Windows : Distinct(waiting[p][w])

LEMMA HeldOnceStep ==
  ASSUME HeldOnce, DistinctLists',
         \A id \in MsgIds :
           \/ Shrinks(id)
           \/ \E p \in Procs : OnlyBuffer(p, id)'
           \/ \E p \in Procs, w \in Windows : OnlyWaiting(p, w, id)'
           \/ \E p \in Procs, w \in Windows, k \in 1..Concurrency : OnlyPlace(p, w, k, id)'
  PROVE  HeldOnce'
<1> SUFFICES ASSUME NEW id \in MsgIds, NEW p \in Procs
    PROVE /\ InBuffer(p, id)' => OnlyBuffer(p, id)'
          /\ \A w \in Windows :
              /\ InWaiting(p, w, id)' => OnlyWaiting(p, w, id)'
              /\ \A k \in 1..Concurrency : InPlace(p, w, k, id)' => OnlyPlace(p, w, k, id)'
  BY Zenon DEF HeldOnce, DistinctLists
<1>1. CASE Shrinks(id)
  BY <1>1 DEF HeldOnce, Shrinks, OnlyBuffer, OnlyWaiting, OnlyPlace
<1>2. CASE \E r \in Procs : OnlyBuffer(r, id)'
  BY <1>2 DEF OnlyBuffer
<1>3. CASE \E r \in Procs, w \in Windows : OnlyWaiting(r, w, id)'
  BY <1>3 DEF OnlyWaiting
<1>4. CASE \E r \in Procs, w \in Windows, k \in 1..Concurrency : OnlyPlace(r, w, k, id)'
  BY <1>4 DEF OnlyPlace
<1> QED BY <1>1, <1>2, <1>3, <1>4

\* What is held is in the queue and nobody else sees it.
LEMMA HeldIsHidden ==
  ASSUME ConsumerTypeOK, InTime, NEW id \in MsgIds, Held(id)
  PROVE  stored[id] = "queued" /\ hide[id] > 0 /\ id \notin Visible
<1>1. /\ Concurrency \in Nat \ {0} /\ AttemptTicks \in Nat \ {0} /\ Vt \in Nat \ {0}
      /\ hide[id] \in Nat
  BY ConstantTypes DEF ConsumerTypeOK
<1>2. ASSUME NEW p \in Procs, InBuffer(p, id) PROVE hide[id] > 0
  BY <1>1, <1>2 DEF InTime, BufferInTime
<1>3. ASSUME NEW p \in Procs, NEW w \in Windows, InWaiting(p, w, id) PROVE hide[id] > 0
  <2>1. /\ Len(waiting[p][w]) \in Nat \ {0}
        /\ Cardinality(Load(place[p][w])) \in Nat
    <3>1. waiting[p][w] \in Seq(Items) /\ waiting[p][w] # <<>>
      BY <1>3, EmptyItems DEF InWaiting, ConsumerTypeOK
    <3> QED BY <3>1, LoadFinite, EmptyItems
  <2> DEFINE n == Len(waiting[p][w])
             load == Cardinality(Load(place[p][w]))
  <2> SUFFICES ASSUME ~(hide[id] > AttemptTicks) PROVE hide[id] > 0
    BY <1>1
  <2>2. Concurrency * hide[id] >= Concurrency * (AttemptTicks + 1) + load + (n - 1) * AttemptTicks
    BY <1>3 DEF InTime, WaitingInTime, Needs
  <2> HIDE DEF n, load
  <2>3. n \in Nat \ {0} /\ load \in Nat
    BY <2>1 DEF n, load
  <2>4. (n - 1) * AttemptTicks \in Nat /\ Concurrency * (AttemptTicks + 1) \in Nat \ {0}
    BY <1>1, <2>3
  <2>5. Concurrency * hide[id] # 0 /\ Concurrency * 0 = 0
    BY <1>1, <2>2, <2>3, <2>4
  <2> QED BY <1>1, <2>5
<1>4. ASSUME NEW p \in Procs, NEW w \in Windows, NEW k \in 1..Concurrency,
             InPlace(p, w, k, id)
      PROVE  hide[id] > 0
  <2>1. place[p][w][k].left \in Nat
    BY ConstantTypes DEF ConsumerTypeOK, Places
  <2> QED BY <1>1, <1>4, <2>1 DEF InTime, PlaceInTime
<1>5. hide[id] > 0
  BY <1>2, <1>3, <1>4 DEF Held, InBuffer, InWaiting, InPlace
<1> QED BY <1>1, <1>5 DEF InTime, HeldIsQueued, Visible

\* What a receive() may return is not held.
LEMMA VisibleIsFree ==
  ASSUME ConsumerTypeOK, InTime, NEW id \in Visible
  PROVE  /\ id \in MsgIds /\ id \in Items /\ id # Event
         /\ stored[id] = "queued" /\ hide[id] = 0 /\ ~Held(id)
         /\ \A q \in Procs :
              /\ ~InBuffer(q, id)
              /\ \A v \in Windows :
                   ~InWaiting(q, v, id) /\ \A l \in 1..Concurrency : ~InPlace(q, v, l, id)
<1>1. id \in MsgIds /\ id # Event /\ stored[id] = "queued" /\ hide[id] = 0
  BY ConsumerAssumption DEF Visible
<1>2. ~Held(id)
  BY <1>1, HeldIsHidden
<1> QED BY <1>1, <1>2 DEF Held, Items, InBuffer, InWaiting, InPlace

LEMMA Lists ==
  ASSUME ConsumerTypeOK, HeldOnce, NEW p \in Procs
  PROVE  /\ buffer[p] \in Seq(Items) /\ Distinct(buffer[p])
         /\ \A w \in Windows : waiting[p][w] \in Seq(Items) /\ Distinct(waiting[p][w])
  BY DEF ConsumerTypeOK, HeldOnce

\* An item of a list is in it.
LEMMA ItemOfList ==
  ASSUME NEW s \in Seq(Items), NEW i \in DOMAIN s
  PROVE  s[i] \in ToSet(s) /\ s[i] \in Items /\ (s[i] # Event => s[i] \in MsgIds)
<1>1. s[i] \in Items
  BY ElementOfSeq, LenProperties
<1> QED BY <1>1 DEF ToSet, Items

\* How a step moves message id: nowhere, or from a window that closes to one that
\* waits, or from there to a place, or from the queue.
Moved(id) ==
  \/ Shrinks(id)
  \/ \E p \in Procs, w \in Windows :
       CloseWindow(p) /\ InBuffer(p, id) /\ OnlyWaiting(p, w, id)'
  \/ \E p \in Procs, w \in Windows, k \in 1..Concurrency :
       AttemptPrefetched(p, w) /\ InWaiting(p, w, id) /\ OnlyPlace(p, w, k, id)'
  \/ /\ id \in Visible /\ hide' = Received(id) /\ UNCHANGED stored
     /\ \/ \E p \in Procs : OnlyBuffer(p, id)'
        \/ \E p \in Procs, w \in Windows, k \in 1..Concurrency : OnlyPlace(p, w, k, id)'

LEMMA Moves ==
  ASSUME ConsumerTypeOK, HeldOnce, InTime, [ConsumerNext]_consumerVars
  PROVE  DistinctLists' /\ \A m \in MsgIds : Moved(m)
<1>0. /\ Event \notin MsgIds /\ NoMsg \notin MsgIds /\ Event \in Items
      /\ \A id \in MsgIds : id \in Items
  BY ConsumerAssumption DEF Items
<1>1. CASE UNCHANGED <<buffer, waiting, place>>
  <2>1. DistinctLists'
    BY <1>1, Lists DEF DistinctLists
  <2>2. \A id \in MsgIds : Shrinks(id)
    BY <1>1 DEF Shrinks, InBuffer, InWaiting, InPlace
  <2> QED BY <2>1, <2>2 DEF Moved
<1>2. ASSUME NEW id \in MsgIds, Send(id)
      PROVE  DistinctLists' /\ \A m \in MsgIds : Moved(m)
  <2>1. ASSUME NEW q \in Procs
        PROVE  Distinct(buffer'[q]) /\ ToSet(buffer'[q]) \subseteq ToSet(buffer[q]) \cup {Event}
    <3>1. buffer'[q] = buffer[q] \/ buffer'[q] = Append(buffer[q], Event)
      BY <1>2 DEF Send
    <3>2. buffer[q] \in Seq(Items) /\ Distinct(buffer[q])
      BY Lists
    <3>3. /\ ToSet(Append(buffer[q], Event)) = ToSet(buffer[q]) \cup {Event}
          /\ Distinct(Append(buffer[q], Event))
      BY <1>0, <3>2, AppendItem
    <3> QED BY <3>1, <3>2, <3>3
  <2>2. UNCHANGED <<waiting, place>>
    BY <1>2 DEF Send
  <2>3. DistinctLists'
    BY <2>1, <2>2, Lists DEF DistinctLists
  <2>4. \A m \in MsgIds : Shrinks(m)
    BY <1>0, <2>1, <2>2 DEF Shrinks, InBuffer, InWaiting, InPlace
  <2> QED BY <2>3, <2>4 DEF Moved
<1>3. ASSUME NEW p \in Procs, CloseWindow(p)
      PROVE  DistinctLists' /\ \A m \in MsgIds : Moved(m)
  <2>1. PICK w \in Windows : /\ waiting[p][w] = <<>>
                             /\ waiting' = [waiting EXCEPT ![p][w] = buffer[p]]
    BY <1>3 DEF CloseWindow, WindowOver
  <2>2. UNCHANGED place /\ buffer' = [buffer EXCEPT ![p] = <<>>]
    BY <1>3 DEF CloseWindow
  <2>3. /\ buffer'[p] = <<>> /\ \A q \in Procs : q # p => buffer'[q] = buffer[q]
        /\ waiting'[p][w] = buffer[p]
        /\ \A q \in Procs, v \in Windows : q # p \/ v # w => waiting'[q][v] = waiting[q][v]
    BY <2>1, <2>2 DEF ConsumerTypeOK
  <2>4. DistinctLists'
    BY <2>3, Lists, EmptyItems DEF DistinctLists
  <2>5. ASSUME NEW id \in MsgIds, InBuffer(p, id) PROVE OnlyWaiting(p, w, id)'
    <3>1. \A q \in Procs : ~InBuffer(q, id)'
      BY <2>3, <2>5, EmptyItems DEF HeldOnce, OnlyBuffer, OnlyWaiting, OnlyPlace, InBuffer
    <3>2. \A q \in Procs, v \in Windows : InWaiting(q, v, id)' => q = p /\ v = w
      BY <2>3, <2>5 DEF HeldOnce, OnlyBuffer, OnlyWaiting, OnlyPlace, InWaiting
    <3>3. \A q \in Procs, v \in Windows, l \in 1..Concurrency : ~InPlace(q, v, l, id)'
      BY <2>2, <2>5 DEF HeldOnce, OnlyBuffer, OnlyWaiting, OnlyPlace, InPlace
    <3> QED BY <3>1, <3>2, <3>3 DEF OnlyWaiting
  <2>6. ASSUME NEW id \in MsgIds, ~InBuffer(p, id) PROVE Shrinks(id)
    BY <2>2, <2>3, <2>6, EmptyItems DEF Shrinks, InBuffer, InWaiting, InPlace
  <2> QED BY <1>3, <2>4, <2>5, <2>6 DEF Moved
<1>4. ASSUME NEW p \in Procs, Prefetch(p)
      PROVE  DistinctLists' /\ \A m \in MsgIds : Moved(m)
  <2>1. CASE Visible = {}
    BY <1>1, <1>4, <2>1 DEF Prefetch
  <2>2. CASE Visible # {}
    <3>1. PICK id \in Visible : /\ buffer' = [buffer EXCEPT ![p] = Append(@, id)]
                                /\ hide' = Received(id)
      BY <1>4, <2>2 DEF Prefetch
    <3>2. UNCHANGED <<stored, waiting, place>>
      BY <1>4 DEF Prefetch
    <3>3. /\ buffer'[p] = Append(buffer[p], id)
          /\ \A q \in Procs : q # p => buffer'[q] = buffer[q]
      BY <3>1 DEF ConsumerTypeOK
    <3>4. ToSet(buffer'[p]) = ToSet(buffer[p]) \cup {id} /\ Distinct(buffer'[p])
      BY <3>3, Lists, AppendItem, VisibleIsFree DEF InBuffer
    <3>5. DistinctLists'
      BY <3>2, <3>3, <3>4, Lists DEF DistinctLists
    <3>6. OnlyBuffer(p, id)'
      BY <3>2, <3>3, VisibleIsFree DEF OnlyBuffer, InBuffer, InWaiting, InPlace
    <3>7. \A m \in MsgIds : m # id => Shrinks(m)
      BY <3>2, <3>3, <3>4 DEF Shrinks, InBuffer, InWaiting, InPlace
    <3> QED BY <3>1, <3>2, <3>5, <3>6, <3>7 DEF Moved
  <2> QED BY <2>1, <2>2
<1>5. ASSUME NEW p \in Procs, NEW w \in Windows, NEW i \in DOMAIN waiting[p][w], Leave(p, w, i)
      PROVE  /\ \A id \in MsgIds : id = waiting[p][w][i] => ~InWaiting(p, w, id)'
             /\ \A q \in Procs, v \in Windows :
                  /\ Distinct(waiting'[q][v])
                  /\ \A id \in MsgIds : InWaiting(q, v, id)' => InWaiting(q, v, id)
  <2>1. /\ waiting'[p][w] = RemoveAt(waiting[p][w], i)
        /\ \A q \in Procs, v \in Windows : q # p \/ v # w => waiting'[q][v] = waiting[q][v]
    BY <1>5, LeaveEffect
  <2>2. waiting[p][w] \in Seq(Items) /\ Distinct(waiting[p][w])
    BY Lists
  <2>3. /\ ToSet(waiting'[p][w]) \subseteq ToSet(waiting[p][w])
        /\ Distinct(waiting'[p][w])
        /\ waiting[p][w][i] # Event => waiting[p][w][i] \notin ToSet(waiting'[p][w])
    BY <2>1, <2>2, RemoveItem
  <2>4. \A id \in MsgIds : id = waiting[p][w][i] => ~InWaiting(p, w, id)'
    BY <1>0, <2>3 DEF InWaiting
  <2>5. ASSUME NEW q \in Procs, NEW v \in Windows
        PROVE  /\ Distinct(waiting'[q][v])
               /\ \A id \in MsgIds : InWaiting(q, v, id)' => InWaiting(q, v, id)
    <3>1. CASE q = p /\ v = w
      BY <2>3, <3>1 DEF InWaiting
    <3>2. CASE q # p \/ v # w
      <4>1. waiting'[q][v] = waiting[q][v]
        BY <2>1, <3>2
      <4> QED BY <4>1, Lists DEF InWaiting
    <3> QED BY <3>1, <3>2
  <2> QED BY <2>4, <2>5
<1>6. ASSUME NEW p \in Procs, NEW w \in Windows, AttemptPrefetched(p, w)
      PROVE  DistinctLists' /\ \A m \in MsgIds : Moved(m)
  <2>1. PICK i \in DOMAIN waiting[p][w] :
          waiting[p][w][i] # Event /\ Begin(p, w, i, waiting[p][w][i])
    BY <1>6 DEF AttemptPrefetched
  <2>2. UNCHANGED buffer /\ FreePlaces(p, w) # {}
    BY <1>6 DEF AttemptPrefetched
  <2>3. PICK id \in MsgIds : id = waiting[p][w][i] /\ InWaiting(p, w, id)
    BY <2>1, Lists, ItemOfList DEF InWaiting
  <2>4. Leave(p, w, i)
    BY <2>1 DEF Begin
  <2>5. PICK k \in 1..Concurrency : PlaceBecomes(p, w, k, AttemptOf(id))
    BY <2>1, <2>2, <2>3, BeginEffect
  <2>6. DistinctLists'
    BY <1>5, <2>2, <2>4, Lists DEF DistinctLists
  <2>7. OnlyPlace(p, w, k, id)'
    <3>1. \A q \in Procs : ~InBuffer(q, id)'
      BY <2>2, <2>3 DEF HeldOnce, OnlyBuffer, OnlyWaiting, OnlyPlace, InBuffer
    <3>2. \A q \in Procs, v \in Windows : ~InWaiting(q, v, id)'
      BY <1>5, <2>1, <2>3, <2>4 DEF HeldOnce, OnlyBuffer, OnlyWaiting, OnlyPlace
    <3>3. ASSUME NEW q \in Procs, NEW v \in Windows, NEW l \in 1..Concurrency,
                 InPlace(q, v, l, id)', ~(q = p /\ v = w /\ l = k)
          PROVE  FALSE
      <4>1. ~InPlace(q, v, l, id)
        BY <2>3 DEF HeldOnce, OnlyBuffer, OnlyWaiting, OnlyPlace
      <4>2. place'[q][v][l] = place[q][v][l]
        BY <2>5, <3>3 DEF PlaceBecomes
      <4> QED BY <3>3, <4>1, <4>2 DEF InPlace
    <3> QED BY <3>1, <3>2, <3>3 DEF OnlyPlace
  <2>8. ASSUME NEW m \in MsgIds, m # id PROVE Shrinks(m)
    <3>1. \A q \in Procs, v \in Windows, l \in 1..Concurrency :
            InPlace(q, v, l, m)' => InPlace(q, v, l, m)
      BY <2>5, <2>8 DEF InPlace, PlaceBecomes, AttemptOf
    <3>2. \A q \in Procs : InBuffer(q, m)' => InBuffer(q, m)
      BY <2>2 DEF InBuffer
    <3> QED BY <1>5, <2>4, <3>1, <3>2 DEF Shrinks
  <2> QED BY <1>6, <2>3, <2>6, <2>7, <2>8 DEF Moved
<1>7. ASSUME NEW p \in Procs, NEW w \in Windows, AttemptReceived(p, w)
      PROVE  DistinctLists' /\ \A m \in MsgIds : Moved(m)
  <2>1. PICK i \in DOMAIN waiting[p][w] :
          \/ \E id \in Visible : hide' = Received(id) /\ Begin(p, w, i, id)
          \/ Visible = {} /\ Leave(p, w, i) /\ UNCHANGED <<hide, place>>
    BY <1>7 DEF AttemptReceived
  <2>2. UNCHANGED <<stored, buffer>> /\ FreePlaces(p, w) # {}
    BY <1>7 DEF AttemptReceived
  <2>3. Leave(p, w, i)
    BY <2>1 DEF Begin
  <2>4. DistinctLists'
    BY <1>5, <2>2, <2>3, Lists DEF DistinctLists
  <2>5. ASSUME NEW m \in MsgIds,
               \A q \in Procs, v \in Windows, l \in 1..Concurrency :
                 InPlace(q, v, l, m)' => InPlace(q, v, l, m)
        PROVE  Shrinks(m)
    <3>1. \A q \in Procs : InBuffer(q, m)' => InBuffer(q, m)
      BY <2>2 DEF InBuffer
    <3> QED BY <1>5, <2>3, <2>5, <3>1 DEF Shrinks
  <2>6. ASSUME NEW id \in Visible, hide' = Received(id), Begin(p, w, i, id)
        PROVE  DistinctLists' /\ \A m \in MsgIds : Moved(m)
    <3>1. id \in MsgIds
      BY VisibleIsFree
    <3>2. PICK k \in 1..Concurrency : PlaceBecomes(p, w, k, AttemptOf(id))
      BY <2>2, <2>6, <3>1, BeginEffect
    <3>3. OnlyPlace(p, w, k, id)'
      <4>1. \A q \in Procs : ~InBuffer(q, id)'
        BY <2>2, VisibleIsFree DEF InBuffer
      <4>2. \A q \in Procs, v \in Windows : ~InWaiting(q, v, id)'
        BY <1>5, <2>3, <3>1, VisibleIsFree
      <4>3. \A q \in Procs, v \in Windows, l \in 1..Concurrency :
              InPlace(q, v, l, id)' => q = p /\ v = w /\ l = k
        BY <3>2, VisibleIsFree DEF InPlace, PlaceBecomes
      <4> QED BY <4>1, <4>2, <4>3 DEF OnlyPlace
    <3>4. ASSUME NEW m \in MsgIds, m # id PROVE Shrinks(m)
      <4>1. \A q \in Procs, v \in Windows, l \in 1..Concurrency :
              InPlace(q, v, l, m)' => InPlace(q, v, l, m)
        BY <3>2, <3>4 DEF InPlace, PlaceBecomes, AttemptOf
      <4> QED BY <2>5, <4>1
    <3> QED BY <2>2, <2>4, <2>6, <3>3, <3>4 DEF Moved
  <2>7. CASE UNCHANGED place
    <3>1. \A m \in MsgIds : Shrinks(m)
      BY <2>5, <2>7 DEF InPlace
    <3> QED BY <2>4, <3>1 DEF Moved
  <2> QED BY <2>1, <2>6, <2>7
<1>8. ASSUME NEW p \in Procs, NEW w \in Windows, AttemptRejects(p, w)
      PROVE  DistinctLists' /\ \A m \in MsgIds : Moved(m)
  <2>1. UNCHANGED <<buffer, place>> /\ waiting' = [waiting EXCEPT ![p][w] = <<>>]
    BY <1>8 DEF AttemptRejects
  <2>2. \A q \in Procs, v \in Windows :
          waiting'[q][v] = waiting[q][v] \/ waiting'[q][v] = <<>>
    BY <2>1 DEF ConsumerTypeOK
  <2>3. DistinctLists'
    BY <2>1, <2>2, Lists, EmptyItems DEF DistinctLists
  <2>4. \A m \in MsgIds : Shrinks(m)
    BY <2>1, <2>2, EmptyItems DEF Shrinks, InBuffer, InWaiting, InPlace
  <2> QED BY <2>3, <2>4 DEF Moved
<1>9. ASSUME NEW p \in Procs, NEW w \in Windows, NEW k \in 1..Concurrency, Ends(p, w, k)
      PROVE  DistinctLists' /\ \A m \in MsgIds : Moved(m)
  <2>1. UNCHANGED <<buffer, waiting>> /\ PlaceBecomes(p, w, k, Free)
    BY <1>9, EndsEffect
  <2>2. DistinctLists'
    BY <2>1, Lists DEF DistinctLists
  <2>3. \A m \in MsgIds : Shrinks(m)
    BY <1>0, <2>1 DEF Shrinks, InBuffer, InWaiting, InPlace, PlaceBecomes, Free
  <2> QED BY <2>2, <2>3 DEF Moved
<1>10. ASSUME NEW p \in Procs, Crash(p)
      PROVE  DistinctLists' /\ \A m \in MsgIds : Moved(m)
  <2>1. \A q \in Procs : /\ buffer'[q] = buffer[q] \/ buffer'[q] = <<>>
                         /\ waiting'[q] = waiting[q] \/ waiting'[q] = NoBatch
                         /\ place'[q] = place[q] \/ place'[q] = NoPlace
    BY <1>10 DEF Crash, ConsumerTypeOK
  <2>2. \A v \in Windows : NoBatch[v] = <<>> /\ \A l \in 1..Concurrency : NoPlace[v][l].msg = NoMsg
    BY DEF NoBatch, NoPlace, Free
  <2>3. DistinctLists'
    BY <2>1, <2>2, Lists, EmptyItems DEF DistinctLists
  <2>4. \A m \in MsgIds : Shrinks(m)
    BY <1>0, <2>1, <2>2, EmptyItems DEF Shrinks, InBuffer, InWaiting, InPlace
  <2> QED BY <2>3, <2>4 DEF Moved
<1>11. CASE Tick
  <2>1. UNCHANGED <<buffer, waiting>>
    BY <1>11 DEF Tick
  <2>2. ASSUME NEW q \in Procs, NEW v \in Windows, NEW l \in 1..Concurrency
        PROVE  place'[q][v][l].msg = place[q][v][l].msg
    <3>1. place'[q][v][l] = [place[q][v][l] EXCEPT !.left = Less(@)]
      BY <1>11 DEF Tick
    <3>2. place[q][v][l] \in Places
      BY ConstantTypes DEF ConsumerTypeOK
    <3> QED BY <3>1, <3>2 DEF Places
  <2>3. DistinctLists'
    BY <2>1, Lists DEF DistinctLists
  <2>4. \A m \in MsgIds : Shrinks(m)
    BY <2>1, <2>2 DEF Shrinks, InBuffer, InWaiting, InPlace
  <2> QED BY <2>3, <2>4 DEF Moved
<1>12. \/ UNCHANGED <<buffer, waiting, place>>
       \/ \E id \in MsgIds : Send(id)
       \/ \E p \in Procs : CloseWindow(p) \/ Prefetch(p) \/ Crash(p)
       \/ \E p \in Procs, w \in Windows :
            AttemptPrefetched(p, w) \/ AttemptReceived(p, w) \/ AttemptRejects(p, w)
       \/ \E p \in Procs, w \in Windows, k \in 1..Concurrency : Ends(p, w, k)
       \/ Tick
  BY DEF ConsumerNext, Work, consumerVars, processVars, PrefetchRejects, Finish, Retry, Throw
<1> QED BY <1>1, <1>2, <1>3, <1>4, <1>6, <1>7, <1>8, <1>9, <1>10, <1>11, <1>12

LEMMA HeldOnceNext ==
  ASSUME ConsumerTypeOK, HeldOnce, InTime, [ConsumerNext]_consumerVars
  PROVE  HeldOnce'
<1>1. DistinctLists' /\ \A id \in MsgIds : Moved(id)
  BY Moves
<1>2. \A id \in MsgIds :
        \/ Shrinks(id)
        \/ \E p \in Procs : OnlyBuffer(p, id)'
        \/ \E p \in Procs, w \in Windows : OnlyWaiting(p, w, id)'
        \/ \E p \in Procs, w \in Windows, k \in 1..Concurrency : OnlyPlace(p, w, k, id)'
  BY <1>1, Zenon DEF Moved
<1> QED BY <1>1, <1>2, HeldOnceStep, Zenon

-----------------------------------------------------------------------------
(* A place that is taken has a message *)

LEMMA NamedInit == ConsumerInit => Named
  BY DEF ConsumerInit, Named, NoPlace

\* What a step, but a tick, does to a place.
LEMMA PlaceStep ==
  ASSUME ConsumerTypeOK, [ConsumerNext]_consumerVars, ~Tick,
         NEW p \in Procs, NEW w \in Windows, NEW k \in 1..Concurrency
  PROVE  \/ place'[p][w][k] = place[p][w][k]
         \/ place'[p][w][k] = Free
         \/ \E id \in MsgIds : place[p][w][k] = Free /\ place'[p][w][k] = AttemptOf(id)
<1>1. CASE UNCHANGED place
  BY <1>1
<1>2. ASSUME NEW q \in Procs, NEW v \in Windows, AttemptPrefetched(q, v)
      PROVE  \E id \in MsgIds, l \in 1..Concurrency :
               place[q][v][l] = Free /\ PlaceBecomes(q, v, l, AttemptOf(id))
  <2>1. PICK i \in DOMAIN waiting[q][v] :
          waiting[q][v][i] # Event /\ Begin(q, v, i, waiting[q][v][i])
    BY <1>2 DEF AttemptPrefetched
  <2>2. PICK id \in MsgIds : id = waiting[q][v][i]
    <3>1. waiting[q][v] \in Seq(Items)
      BY DEF ConsumerTypeOK
    <3> QED BY <2>1, <3>1, ItemOfList
  <2>3. FreePlaces(q, v) # {}
    BY <1>2 DEF AttemptPrefetched
  <2> QED BY <2>1, <2>2, <2>3, BeginEffect
<1>3. ASSUME NEW q \in Procs, NEW v \in Windows, AttemptReceived(q, v), ~UNCHANGED place
      PROVE  \E id \in MsgIds, l \in 1..Concurrency :
               place[q][v][l] = Free /\ PlaceBecomes(q, v, l, AttemptOf(id))
  <2>1. PICK i \in DOMAIN waiting[q][v], id \in Visible : Begin(q, v, i, id)
    BY <1>3 DEF AttemptReceived
  <2>2. FreePlaces(q, v) # {} /\ id \in MsgIds
    BY <1>3 DEF AttemptReceived, Visible
  <2> QED BY <2>1, <2>2, BeginEffect
<1>4. ASSUME NEW q \in Procs, NEW v \in Windows, NEW l \in 1..Concurrency,
             NEW x, PlaceBecomes(q, v, l, x)
      PROVE  \/ place'[p][w][k] = place[p][w][k]
             \/ place[p][w][k] = place[q][v][l] /\ place'[p][w][k] = x
  BY <1>4 DEF PlaceBecomes
<1>5. ASSUME NEW q \in Procs, NEW v \in Windows, NEW l \in 1..Concurrency, Ends(q, v, l)
      PROVE  PlaceBecomes(q, v, l, Free)
  BY <1>5, EndsEffect
<1>6. ASSUME NEW q \in Procs, Crash(q)
      PROVE  place'[p][w][k] = place[p][w][k] \/ place'[p][w][k] = Free
  <2>1. place'[p] = place[p] \/ place'[p] = NoPlace
    BY <1>6 DEF Crash, ConsumerTypeOK
  <2>2. NoPlace[w][k] = Free
    BY DEF NoPlace
  <2> QED BY <2>1, <2>2
<1>7. \/ UNCHANGED place
      \/ \E q \in Procs, v \in Windows : AttemptPrefetched(q, v) \/ AttemptReceived(q, v)
      \/ \E q \in Procs, v \in Windows, l \in 1..Concurrency : Ends(q, v, l)
      \/ \E q \in Procs : Crash(q)
  BY DEF ConsumerNext, Work, consumerVars, processVars, Send, CloseWindow, Prefetch,
         PrefetchRejects, AttemptRejects, Finish, Retry, Throw
<1> QED BY <1>1, <1>2, <1>3, <1>4, <1>5, <1>6, <1>7

\* What a tick does to it, and to a message.
LEMMA TickStep ==
  ASSUME ConsumerTypeOK, Tick, NEW p \in Procs, NEW w \in Windows, NEW k \in 1..Concurrency
  PROVE  /\ place'[p][w][k].msg = place[p][w][k].msg
         /\ place'[p][w][k].left = Less(place[p][w][k].left)
         /\ place[p][w][k] = Free => place'[p][w][k] = Free
         /\ place[p][w][k] # Free => place[p][w][k].left > 0
         /\ waiting[p][w] # <<>> => place[p][w][k] # Free
<1>1. place'[p][w][k] = [place[p][w][k] EXCEPT !.left = Less(@)]
  BY DEF Tick
<1>2. place[p][w][k] \in Places
  BY ConstantTypes DEF ConsumerTypeOK
<1>3. place[p][w][k].left \in Nat
  BY <1>2, ConstantTypes DEF Places
<1>4. place[p][w][k] # Free => place[p][w][k].left # 0
  BY DEF Tick, Urgent
<1>5. waiting[p][w] # <<>> => place[p][w][k] # Free
  BY DEF Tick, Urgent, FreePlaces
<1> QED BY <1>1, <1>2, <1>3, <1>4, <1>5 DEF Places, Free, Less

LEMMA NamedNext ==
  ASSUME ConsumerTypeOK, Named, [ConsumerNext]_consumerVars
  PROVE  Named'
<1> SUFFICES ASSUME NEW p \in Procs, NEW w \in Windows, NEW k \in 1..Concurrency,
                    place'[p][w][k].msg = NoMsg
             PROVE  place'[p][w][k] = Free
  BY DEF Named
<1>1. CASE Tick
  BY <1>1, TickStep DEF Named
<1>2. CASE ~Tick
  <2>1. \A id \in MsgIds : AttemptOf(id).msg # NoMsg
    BY ConsumerAssumption DEF AttemptOf
  <2> QED BY <1>2, <2>1, PlaceStep DEF Named
<1> QED BY <1>1, <1>2

-----------------------------------------------------------------------------
(* The arithmetic of pace *)

\* An item less, and an attempt more at most, is no more to do.
LEMMA NeedsOfRest ==
  ASSUME NEW n \in Nat \ {0}, NEW x \in Nat, NEW y \in Nat, y <= x + AttemptTicks
  PROVE  Needs(n, y) <= Needs(n + 1, x)
<1> DEFINE a == AttemptTicks
           c == Concurrency * (AttemptTicks + 1)
<1>1. a \in Nat /\ c \in Nat
  BY ConstantTypes
<1>2. (n + 1 - 1) * a = (n - 1) * a + a /\ (n - 1) * a \in Nat
  BY <1>1
<1> HIDE DEF c, a
<1>3. c + y + (n - 1) * a <= c + x + (n + 1 - 1) * a
  BY <1>1, <1>2 DEF a
<1> QED BY <1>3 DEF Needs, a, c

LEMMA NeedsGrows ==
  ASSUME NEW m \in Nat \ {0}, NEW n \in Nat, m <= n, NEW x \in Nat, NEW y \in Nat, y <= x
  PROVE  Needs(m, y) <= Needs(n, x)
<1> DEFINE a == AttemptTicks
           c == Concurrency * (AttemptTicks + 1)
<1>1. a \in Nat /\ c \in Nat
  BY ConstantTypes
<1>2. (m - 1) * a <= (n - 1) * a /\ (m - 1) * a \in Nat /\ (n - 1) * a \in Nat
  BY <1>1
<1> HIDE DEF c, a
<1>3. c + y + (m - 1) * a <= c + x + (n - 1) * a
  BY <1>1, <1>2
<1> QED BY <1>3 DEF Needs, a, c

LEMMA NeedsInNat ==
  ASSUME NEW n \in Nat \ {0}, NEW x \in Nat
  PROVE  Needs(n, x) \in Nat
<1>1. Concurrency * (AttemptTicks + 1) \in Nat /\ (n - 1) * AttemptTicks \in Nat
  BY ConstantTypes
<1> QED BY <1>1 DEF Needs

\* In a tick the visibility shrinks by as much as what is left to do.
LEMMA NeedsInTick ==
  ASSUME NEW n \in Nat \ {0}, NEW x \in Nat, NEW y \in Nat, y + Concurrency <= x,
         NEW h \in Nat \ {0}, Concurrency * h >= Needs(n, x)
  PROVE  Concurrency * (h - 1) >= Needs(n, y)
<1> DEFINE z == (n - 1) * AttemptTicks
           c == Concurrency * (AttemptTicks + 1)
           d == Concurrency * h
<1>1. Concurrency \in Nat /\ z \in Nat /\ c \in Nat /\ d \in Nat
  BY ConstantTypes
<1>2. Concurrency * (h - 1) = d - Concurrency
  BY ConstantTypes
<1>3. d >= c + x + z
  BY DEF Needs
<1> HIDE DEF z, c, d
<1>4. d - Concurrency >= c + y + z
  BY <1>1, <1>3
<1> QED BY <1>2, <1>4 DEF Needs, z, c

\* What is hidden for that long is hidden for longer than an attempt takes.
LEMMA NeedsAnAttempt ==
  ASSUME NEW n \in Nat \ {0}, NEW x \in Nat, NEW h \in Nat, Concurrency * h >= Needs(n, x)
  PROVE  h > AttemptTicks
<1> DEFINE z == (n - 1) * AttemptTicks
<1>1. Concurrency \in Nat \ {0} /\ z \in Nat /\ AttemptTicks \in Nat
  BY ConstantTypes
<1>2. Concurrency * h >= Concurrency * (AttemptTicks + 1) + x + z
  BY DEF Needs
<1> HIDE DEF z
<1>3. Concurrency * h >= Concurrency * (AttemptTicks + 1)
  BY <1>1, <1>2
<1>4. SUFFICES ASSUME h <= AttemptTicks PROVE FALSE
  BY <1>1
<1>5. Concurrency * h <= Concurrency * AttemptTicks
  BY <1>1, <1>4
<1>6. Concurrency * (AttemptTicks + 1) = Concurrency * AttemptTicks + Concurrency
  BY <1>1
<1> QED BY <1>1, <1>3, <1>5, <1>6

-----------------------------------------------------------------------------
(* What is held stays hidden for long enough *)

\* The message of an attempt that ends is held no more.
LEMMA EndsReleases ==
  ASSUME ConsumerTypeOK, HeldOnce, NEW p \in Procs, NEW w \in Windows, NEW k \in 1..Concurrency,
         Ends(p, w, k), NEW id \in MsgIds, InPlace(p, w, k, id)
  PROVE  ~Held(id)'
<1>1. UNCHANGED <<buffer, waiting>> /\ PlaceBecomes(p, w, k, Free)
  BY EndsEffect
<1>2. \A q \in Procs : ~InBuffer(q, id) /\ \A v \in Windows : ~InWaiting(q, v, id)
  BY DEF HeldOnce, OnlyBuffer, OnlyWaiting, OnlyPlace
<1>3. ASSUME NEW q \in Procs, NEW v \in Windows, NEW l \in 1..Concurrency
      PROVE  ~InPlace(q, v, l, id)'
  <2>1. CASE q = p /\ v = w /\ l = k
    BY <1>1, <2>1, ConsumerAssumption DEF InPlace, PlaceBecomes, Free
  <2>2. CASE ~(q = p /\ v = w /\ l = k)
    <3>1. ~InPlace(q, v, l, id)
      BY <2>2 DEF HeldOnce, OnlyBuffer, OnlyWaiting, OnlyPlace
    <3>2. place'[q][v][l] = place[q][v][l]
      BY <1>1, <2>2 DEF PlaceBecomes
    <3> QED BY <3>1, <3>2 DEF InPlace
  <2> QED BY <2>1, <2>2
<1> QED BY <1>1, <1>2, <1>3 DEF Held, InBuffer, InWaiting, InPlace

\* While a message is held nobody else changes it.
LEMMA HeldIsSteady ==
  ASSUME ConsumerTypeOK, HeldOnce, InTime, [ConsumerNext]_consumerVars, ~Tick,
         NEW id \in MsgIds, Held(id), Held(id)'
  PROVE  stored'[id] = stored[id] /\ hide'[id] = hide[id]
<1>1. stored[id] = "queued" /\ id \notin Visible
  BY HeldIsHidden
<1>2. CASE UNCHANGED queueVars
  BY <1>2 DEF queueVars
<1>3. ASSUME NEW m \in MsgIds, Send(m) PROVE stored'[id] = stored[id] /\ hide'[id] = hide[id]
  BY <1>1, <1>3 DEF Send, ConsumerTypeOK
<1>4. ASSUME UNCHANGED stored, hide' = hide \/ \E m \in Visible : hide' = Received(m)
      PROVE  stored'[id] = stored[id] /\ hide'[id] = hide[id]
  BY <1>1, <1>4 DEF Received, ConsumerTypeOK
<1>5. ASSUME NEW p \in Procs, NEW w \in Windows, NEW k \in 1..Concurrency,
             Finish(p, w, k) \/ Retry(p, w, k) \/ Throw(p, w, k)
      PROVE  stored'[id] = stored[id] /\ hide'[id] = hide[id]
  <2>1. Ends(p, w, k)
    BY <1>5 DEF Finish, Retry, Throw
  <2>2. place[p][w][k].msg # id
    BY <2>1, EndsReleases DEF InPlace
  <2>3. stored' = stored \/ stored' = [stored EXCEPT ![place[p][w][k].msg] = "deleted"]
    BY <1>5 DEF Finish, Retry, PutBack, Throw
  <2>4. hide' = hide \/ hide' = [hide EXCEPT ![place[p][w][k].msg] = RetryVt]
    BY <1>5 DEF Finish, Retry, PutBack, Throw
  <2> QED BY <2>2, <2>3, <2>4 DEF ConsumerTypeOK
<1>6. \/ UNCHANGED queueVars
      \/ \E m \in MsgIds : Send(m)
      \/ UNCHANGED stored /\ (hide' = hide \/ \E m \in Visible : hide' = Received(m))
      \/ \E p \in Procs, w \in Windows, k \in 1..Concurrency :
           Finish(p, w, k) \/ Retry(p, w, k) \/ Throw(p, w, k)
  <2>1. ReceiveRejects => hide' = hide \/ \E m \in Visible : hide' = Received(m)
    BY DEF ReceiveRejects
  <2> QED BY <2>1 DEF ConsumerNext, Work, consumerVars, queueVars, CloseWindow, Prefetch,
                      PrefetchRejects, AttemptPrefetched, AttemptReceived, AttemptRejects, Crash
<1> QED BY <1>2, <1>3, <1>4, <1>5, <1>6

\* A message that a step takes hold of was received in it.
LEMMA NewlyHeld ==
  ASSUME ConsumerTypeOK, HeldOnce, InTime, [ConsumerNext]_consumerVars,
         NEW id \in MsgIds, ~Held(id), Held(id)'
  PROVE  id \in Visible /\ stored'[id] = "queued" /\ hide'[id] = Vt
<1>1. Moved(id)
  BY Moves
<1>2. ~Shrinks(id)
  BY DEF Shrinks, Held, InBuffer, InWaiting, InPlace
<1>3. \A p \in Procs : ~InBuffer(p, id) /\ \A w \in Windows : ~InWaiting(p, w, id)
  BY DEF Held, InBuffer, InWaiting
<1>4. id \in Visible /\ hide' = Received(id) /\ UNCHANGED stored
  BY <1>1, <1>2, <1>3 DEF Moved
<1> QED BY <1>4 DEF Visible, Received, ConsumerTypeOK

\* A message that was held and is held by a place, or prefetched, now.
LEMMA HeldByPosition ==
  ASSUME NEW id \in MsgIds
  PROVE  /\ \A p \in Procs : InBuffer(p, id) => Held(id)
         /\ \A p \in Procs, w \in Windows : InWaiting(p, w, id) => Held(id)
         /\ \A p \in Procs, w \in Windows, k \in 1..Concurrency : InPlace(p, w, k, id) => Held(id)
  BY DEF Held, InBuffer, InWaiting, InPlace

\* A tick takes one from every visibility and moves nothing.
LEMMA TickHeld ==
  ASSUME ConsumerTypeOK, InTime, Tick, NEW id \in MsgIds, Held(id)'
  PROVE  /\ Held(id) /\ stored' = stored /\ hide'[id] = hide[id] - 1
         /\ \A p \in Procs : ~InBuffer(p, id)
         /\ UNCHANGED <<buffer, waiting>>
<1>1. UNCHANGED <<stored, buffer, waiting>> /\ hide'[id] = Less(hide[id])
  BY DEF Tick
<1>2. \A p \in Procs, w \in Windows, k \in 1..Concurrency :
        place'[p][w][k].msg = place[p][w][k].msg
  BY TickStep
<1>3. Held(id)
  BY <1>1, <1>2 DEF Held
<1>4. hide[id] > 0 /\ hide[id] \in Nat
  BY <1>3, HeldIsHidden, ConstantTypes DEF ConsumerTypeOK
<1>5. \A p \in Procs : ~InBuffer(p, id)
  BY EmptyItems DEF Tick, Urgent, InBuffer
<1> QED BY <1>1, <1>3, <1>4, <1>5 DEF Less

LEMMA QueuedNext ==
  ASSUME ConsumerTypeOK, HeldOnce, InTime, [ConsumerNext]_consumerVars
  PROVE  HeldIsQueued'
<1> SUFFICES ASSUME NEW id \in MsgIds, Held(id)' PROVE stored'[id] = "queued"
  BY DEF HeldIsQueued
<1>1. CASE ~Held(id)
  BY <1>1, NewlyHeld
<1>2. CASE Held(id) /\ ~Tick
  BY <1>2, HeldIsSteady, HeldIsHidden
<1>3. CASE Held(id) /\ Tick
  BY <1>3, TickHeld, HeldIsHidden
<1> QED BY <1>1, <1>2, <1>3

\* What a step does to the record of a message in RSMQ.
LEMMA HideStep ==
  ASSUME ConsumerTypeOK, [ConsumerNext]_consumerVars, NEW id \in MsgIds
  PROVE  \/ hide'[id] = hide[id]
         \/ stored[id] = "queued" /\ hide'[id] \in {Vt, RetryVt}
         \/ Tick /\ hide'[id] = Less(hide[id])
<1>1. ASSUME NEW m, PutBack(m)
      PROVE  hide'[id] = hide[id] \/ (stored[id] = "queued" /\ hide'[id] = RetryVt)
  BY <1>1 DEF PutBack, ConsumerTypeOK
<1>2. ASSUME NEW m \in Visible, hide' = Received(m)
      PROVE  hide'[id] = hide[id] \/ (stored[id] = "queued" /\ hide'[id] = Vt)
  BY <1>2 DEF Received, Visible, ConsumerTypeOK
<1>3. ReceiveRejects => hide' = hide \/ \E m \in Visible : hide' = Received(m)
  BY DEF ReceiveRejects
<1>4. \/ UNCHANGED hide
      \/ \E m \in Visible : hide' = Received(m)
      \/ \E m : PutBack(m)
      \/ Tick
  BY <1>3 DEF ConsumerNext, Work, consumerVars, queueVars, Send, CloseWindow, Prefetch,
              PrefetchRejects, AttemptPrefetched, AttemptReceived, AttemptRejects, Finish,
              Retry, Throw, Crash
<1> QED BY <1>1, <1>2, <1>4 DEF Tick

LEMMA StoredStep ==
  ASSUME ConsumerTypeOK, [ConsumerNext]_consumerVars, NEW id \in MsgIds
  PROVE  \/ stored'[id] = stored[id]
         \/ stored[id] = "unsent" /\ stored'[id] = "queued" /\ hide'[id] = hide[id]
         \/ stored'[id] = "deleted" /\ Held(id)
<1>1. ASSUME NEW p \in Procs, NEW w \in Windows, NEW k \in 1..Concurrency,
             stored' = [stored EXCEPT ![place[p][w][k].msg] = "deleted"]
      PROVE  stored'[id] = stored[id] \/ (stored'[id] = "deleted" /\ Held(id))
  BY <1>1, HeldByPosition DEF InPlace, ConsumerTypeOK
<1>2. ASSUME NEW m \in MsgIds, Send(m)
      PROVE  \/ stored'[id] = stored[id]
             \/ stored[id] = "unsent" /\ stored'[id] = "queued" /\ hide'[id] = hide[id]
  BY <1>2 DEF Send, ConsumerTypeOK
<1>3. \/ UNCHANGED stored
      \/ \E m \in MsgIds : Send(m)
      \/ \E p \in Procs, w \in Windows, k \in 1..Concurrency :
           stored' = [stored EXCEPT ![place[p][w][k].msg] = "deleted"]
  <2>1. ASSUME NEW p \in Procs, Work(p) \/ PrefetchRejects(p) \/ Crash(p)
        PROVE  \/ UNCHANGED stored
               \/ \E w \in Windows, k \in 1..Concurrency :
                    stored' = [stored EXCEPT ![place[p][w][k].msg] = "deleted"]
    BY <2>1 DEF Work, queueVars, CloseWindow, Prefetch, PrefetchRejects, AttemptPrefetched,
                AttemptReceived, Finish, Crash
  <2>2. ASSUME NEW p \in Procs, NEW w \in Windows, NEW k \in 1..Concurrency,
               Retry(p, w, k) \/ Throw(p, w, k)
        PROVE  \/ UNCHANGED stored
               \/ stored' = [stored EXCEPT ![place[p][w][k].msg] = "deleted"]
    BY <2>2 DEF Retry, PutBack, Throw
  <2>3. ASSUME NEW p \in Procs, NEW w \in Windows, AttemptRejects(p, w)
        PROVE  UNCHANGED stored
    BY <2>3 DEF AttemptRejects
  <2>4. CASE Tick \/ UNCHANGED consumerVars
    BY <2>4 DEF Tick, consumerVars, queueVars
  <2> QED BY <2>1, <2>2, <2>3, <2>4 DEF ConsumerNext
<1> QED BY <1>1, <1>2, <1>3

LEMMA UnsentNext ==
  ASSUME ConsumerTypeOK, InTime, [ConsumerNext]_consumerVars
  PROVE  UnsentIsVisible'
<1> SUFFICES ASSUME NEW id \in MsgIds, stored'[id] = "unsent" PROVE hide'[id] = 0
  BY DEF UnsentIsVisible
<1>1. stored[id] = "unsent"
  BY StoredStep
<1>2. hide[id] = 0
  BY <1>1 DEF InTime, UnsentIsVisible
<1> QED BY <1>1, <1>2, HideStep DEF Less

LEMMA BufferNext ==
  ASSUME ConsumerTypeOK, HeldOnce, InTime, [ConsumerNext]_consumerVars
  PROVE  BufferInTime'
<1> SUFFICES ASSUME NEW id \in MsgIds, NEW p \in Procs, InBuffer(p, id)' PROVE hide'[id] = Vt
  BY DEF BufferInTime
<1>1. Held(id)'
  BY DEF Held, InBuffer
<1>2. CASE ~Held(id)
  BY <1>1, <1>2, NewlyHeld
<1>3. CASE Held(id)
  <2>1. InBuffer(p, id)
    <3>1. Moved(id)
      BY Moves
    <3>2. id \notin Visible
      BY <1>3, HeldIsHidden
    <3> QED BY <3>1, <3>2 DEF Moved, Shrinks, OnlyWaiting, OnlyPlace
  <2>2. ~Tick
    BY <1>1, <2>1, TickHeld
  <2> QED BY <1>1, <1>3, <2>1, <2>2, HeldIsSteady DEF InTime, BufferInTime
<1> QED BY <1>2, <1>3

LEMMA PlaceNext ==
  ASSUME ConsumerTypeOK, HeldOnce, InTime, [ConsumerNext]_consumerVars,
         NEW n \in Nat \ {0}, KeepsPace(n)
  PROVE  PlaceInTime'
<1> SUFFICES ASSUME NEW id \in MsgIds, NEW p \in Procs, NEW w \in Windows,
                    NEW k \in 1..Concurrency, InPlace(p, w, k, id)'
             PROVE  hide'[id] > place'[p][w][k].left
  BY DEF PlaceInTime
<1>1. Held(id)'
  BY DEF Held, InPlace
<1>2. Free.msg = NoMsg /\ id # NoMsg
  BY ConsumerAssumption DEF Free
<1>3. CASE Tick
  <2>1. InPlace(p, w, k, id) /\ place[p][w][k] # Free
    BY <1>2, <1>3, TickStep DEF InPlace
  <2>2. place'[p][w][k].left = Less(place[p][w][k].left) /\ place[p][w][k].left > 0
    BY <1>3, <2>1, TickStep
  <2>3. hide'[id] = hide[id] - 1
    BY <1>1, <1>3, TickHeld
  <2>4. hide[id] > place[p][w][k].left
    BY <2>1 DEF InTime, PlaceInTime
  <2>5. hide[id] \in Nat
    BY ConstantTypes DEF ConsumerTypeOK
  <2>6. place[p][w][k].left \in Nat
    BY LeftIsNat
  <2> QED BY <2>2, <2>3, <2>4, <2>5, <2>6 DEF Less
<1>4. CASE ~Tick /\ place'[p][w][k] = place[p][w][k]
  <2>1. InPlace(p, w, k, id)
    BY <1>4 DEF InPlace
  <2>2. hide'[id] = hide[id]
    BY <1>1, <1>4, <2>1, HeldByPosition, HeldIsSteady
  <2> QED BY <1>4, <2>1, <2>2 DEF InTime, PlaceInTime
<1>5. ASSUME ~Tick, place[p][w][k] = Free, NEW m \in MsgIds, place'[p][w][k] = AttemptOf(m)
      PROVE  hide'[id] > place'[p][w][k].left
  <2>1. m = id /\ place'[p][w][k].left = AttemptTicks
    BY <1>5 DEF InPlace, AttemptOf
  <2>2. CASE ~Held(id)
    <3>1. hide'[id] = Vt
      BY <1>1, <2>2, NewlyHeld
    <3>2. Vt > AttemptTicks
      <4>1. Concurrency * Vt >= Needs(n, 0) => Vt > AttemptTicks
        BY ConstantTypes, NeedsAnAttempt
      <4> QED BY <4>1, ConstantTypes DEF KeepsPace
    <3> QED BY <2>1, <3>1, <3>2
  <2>3. CASE Held(id)
    <3>1. Moved(id)
      BY Moves
    <3>2. id \notin Visible
      BY <2>3, HeldIsHidden
    <3>3. ~InPlace(p, w, k, id)
      BY <1>2, <1>5 DEF InPlace
    <3>4. PICK q \in Procs, v \in Windows : InWaiting(q, v, id)
      BY <3>1, <3>2, <3>3 DEF Moved, Shrinks, OnlyWaiting
    <3>5. /\ Len(waiting[q][v]) \in Nat \ {0}
          /\ Cardinality(Load(place[q][v])) \in Nat
      BY <3>4, LoadFinite, EmptyItems DEF InWaiting, ConsumerTypeOK
    <3>6. \/ hide[id] > AttemptTicks
          \/ Concurrency * hide[id] >= Needs(Len(waiting[q][v]), Cardinality(Load(place[q][v])))
      BY <3>4 DEF InTime, WaitingInTime
    <3>7. hide[id] > AttemptTicks
      <4>1. hide[id] \in Nat
        BY ConstantTypes DEF ConsumerTypeOK
      <4> QED BY <3>5, <3>6, <4>1, NeedsAnAttempt
    <3>8. hide'[id] = hide[id]
      BY <1>1, <1>5, <2>3, HeldIsSteady
    <3> QED BY <2>1, <3>7, <3>8
  <2> QED BY <2>2, <2>3
<1>6. place'[p][w][k] # Free
  BY <1>2 DEF InPlace
<1> QED BY <1>3, <1>4, <1>5, <1>6, PlaceStep

\* What a step, but a tick, does to a window that waits.
LEMMA WindowStep ==
  ASSUME ConsumerTypeOK, [ConsumerNext]_consumerVars, ~Tick, NEW p \in Procs, NEW w \in Windows
  PROVE  \/ waiting'[p][w] = <<>>
         \/ /\ waiting'[p][w] = waiting[p][w]
            /\ Eased(place[p][w], place'[p][w])
         \/ /\ \E i \in DOMAIN waiting[p][w] : waiting'[p][w] = RemoveAt(waiting[p][w], i)
            /\ Burdened(place[p][w], place'[p][w])
         \/ /\ waiting'[p][w] = buffer[p]
            /\ Vacant(place'[p][w])
<1> DEFINE f == place[p][w]
           g == place'[p][w]
<1>1. ConsumerTypeOK'
  BY TypeNext
<1>2. f \in [1..Concurrency -> Places] /\ g \in [1..Concurrency -> Places]
  BY <1>1 DEF ConsumerTypeOK
<1>3. Eased(f, f) /\ Burdened(f, f)
  BY EasedByNone
<1>4. ASSUME NEW q \in Procs, CloseWindow(q), waiting'[p][w] # waiting[p][w]
      PROVE  /\ waiting'[p][w] = buffer[p]
             /\ Vacant(g)
  <2>1. PICK v \in Windows : WindowOver(q, v) /\ waiting' = [waiting EXCEPT ![q][v] = buffer[q]]
    BY <1>4 DEF CloseWindow
  <2>2. p = q /\ w = v /\ waiting'[p][w] = buffer[p]
    BY <1>4, <2>1 DEF ConsumerTypeOK
  <2>3. \A k \in 1..Concurrency : g[k] = Free
    BY <1>4, <2>1, <2>2 DEF CloseWindow, WindowOver, FreePlaces
  <2> HIDE DEF g
  <2> QED BY <1>2, <2>2, <2>3, LoadOfFree, RoomOfFree DEF Vacant
<1>5. ASSUME NEW q \in Procs, NEW v \in Windows, AttemptPrefetched(q, v) \/ AttemptReceived(q, v)
      PROVE  \/ /\ waiting'[p][w] = waiting[p][w]
                /\ Eased(f, g)
             \/ /\ \E i \in DOMAIN waiting[p][w] : waiting'[p][w] = RemoveAt(waiting[p][w], i)
                /\ Burdened(f, g)
  <2>1. PICK i \in DOMAIN waiting[q][v] :
          /\ Leave(q, v, i)
          /\ UNCHANGED place \/ \E id \in MsgIds : Begin(q, v, i, id)
    <3>1. waiting[q][v] \in Seq(Items)
      BY DEF ConsumerTypeOK
    <3> QED BY <1>5, <3>1, ItemOfList DEF AttemptPrefetched, AttemptReceived, Begin, Visible
  <2>2. /\ waiting'[q][v] = RemoveAt(waiting[q][v], i)
        /\ q # p \/ v # w => waiting'[p][w] = waiting[p][w]
    BY <2>1, LeaveEffect
  <2>3. CASE UNCHANGED place
    <3>1. Burdened(f, g) /\ Eased(f, g)
      BY <1>3, <2>3
    <3> HIDE DEF f, g
    <3> QED BY <2>2, <3>1
  <2>4. ASSUME NEW id \in MsgIds, Begin(q, v, i, id)
        PROVE  \/ /\ waiting'[p][w] = waiting[p][w]
                  /\ Eased(f, g)
               \/ /\ waiting'[p][w] = RemoveAt(waiting[p][w], i) /\ i \in DOMAIN waiting[p][w]
                  /\ Burdened(f, g)
    <3>1. FreePlaces(q, v) # {}
      BY <1>5 DEF AttemptPrefetched, AttemptReceived
    <3>2. PICK k \in 1..Concurrency : PlaceBecomes(q, v, k, AttemptOf(id))
      BY <2>4, <3>1, BeginEffect
    <3>3. CASE q = p /\ v = w
      <4>1. \A l \in 1..Concurrency : l # k => g[l] = f[l]
        BY <3>2, <3>3 DEF PlaceBecomes
      <4> HIDE DEF f, g
      <4>2. Burdened(f, g)
        BY <1>2, <4>1, BurdenedBy
      <4> QED BY <2>2, <3>3, <4>2
    <3>4. CASE q # p \/ v # w
      <4>1. \A l \in 1..Concurrency : g[l] = f[l]
        BY <3>2, <3>4 DEF PlaceBecomes
      <4> HIDE DEF f, g
      <4>2. Eased(f, g)
        BY <1>2, <4>1, EasedBy
      <4> QED BY <2>2, <3>4, <4>2
    <3> QED BY <3>3, <3>4
  <2> HIDE DEF f, g
  <2> QED BY <2>1, <2>3, <2>4
<1>6. ASSUME NEW q \in Procs, NEW v \in Windows, AttemptRejects(q, v)
      PROVE  waiting'[p][w] = <<>> \/ (waiting'[p][w] = waiting[p][w] /\ g = f)
  BY <1>6 DEF AttemptRejects, ConsumerTypeOK
<1>7. ASSUME NEW q \in Procs, NEW v \in Windows, NEW l \in 1..Concurrency, Ends(q, v, l)
      PROVE  /\ waiting'[p][w] = waiting[p][w]
             /\ Eased(f, g)
  <2>1. UNCHANGED waiting /\ PlaceBecomes(q, v, l, Free)
    BY <1>7, EndsEffect
  <2>2. \A k \in 1..Concurrency : g[k] = f[k] \/ g[k] = Free
    BY <2>1 DEF PlaceBecomes
  <2> HIDE DEF f, g
  <2> QED BY <1>2, <2>1, <2>2, EasedBy
<1>8. ASSUME NEW q \in Procs, Crash(q)
      PROVE  waiting'[p][w] = <<>> \/ (waiting'[p][w] = waiting[p][w] /\ g = f)
  <2>1. NoBatch[w] = <<>>
    BY DEF NoBatch
  <2> QED BY <1>8, <2>1 DEF Crash, ConsumerTypeOK
<1>9. \/ UNCHANGED <<waiting, place>>
      \/ \E q \in Procs : CloseWindow(q) \/ Crash(q)
      \/ \E q \in Procs, v \in Windows :
           AttemptPrefetched(q, v) \/ AttemptReceived(q, v) \/ AttemptRejects(q, v)
      \/ \E q \in Procs, v \in Windows, l \in 1..Concurrency : Ends(q, v, l)
  BY DEF ConsumerNext, Work, consumerVars, processVars, Send, Prefetch, PrefetchRejects,
         Finish, Retry, Throw
<1>10. UNCHANGED place => g = f
  OBVIOUS
<1>11. \A q \in Procs : CloseWindow(q) => UNCHANGED place
  BY DEF CloseWindow
<1>12. UNCHANGED waiting => waiting'[p][w] = waiting[p][w]
  OBVIOUS
<1> HIDE DEF f, g
<1> DEFINE gone == waiting'[p][w] = <<>>
           same == /\ waiting'[p][w] = waiting[p][w]
                   /\ Eased(f, g)
           left == /\ \E i \in DOMAIN waiting[p][w] : waiting'[p][w] = RemoveAt(waiting[p][w], i)
                   /\ Burdened(f, g)
           closed == /\ waiting'[p][w] = buffer[p]
                     /\ Vacant(g)
<1>13. gone \/ same \/ left \/ closed
  <2>1. waiting'[p][w] = waiting[p][w] /\ g = f => same
    BY <1>3
  <2> QED BY <1>4, <1>5, <1>6, <1>7, <1>8, <1>9, <1>10, <1>11, <1>12, <2>1
<1> QED BY <1>13 DEF f, g

LEMMA WaitingNext ==
  ASSUME ConsumerTypeOK, HeldOnce, InTime, [ConsumerNext]_consumerVars,
         NEW n \in Nat \ {0}, SmallBatches(n), KeepsPace(n)
  PROVE  WaitingInTime'
<1> SUFFICES ASSUME NEW id \in MsgIds, NEW p \in Procs, NEW w \in Windows,
                    InWaiting(p, w, id)'
             PROVE  \/ /\ Len(waiting'[p][w]) <= Room(place'[p][w])
                       /\ hide'[id] > AttemptTicks
                    \/ Concurrency * hide'[id]
                         >= Needs(Len(waiting'[p][w]), Cardinality(Load(place'[p][w])))
  BY DEF WaitingInTime
<1> DEFINE f == place[p][w]
           g == place'[p][w]
           x == Cardinality(Load(f))
           y == Cardinality(Load(g))
           s == waiting[p][w]
           t == waiting'[p][w]
           h == hide[id]
           AtOnce == Len(t) <= Room(g) /\ hide'[id] > AttemptTicks
           InTurn == Concurrency * hide'[id] >= Needs(Len(t), y)
<1>1. ConsumerTypeOK'
  BY TypeNext
<1>2. x \in Nat /\ y \in Nat /\ Room(f) \in Nat /\ Room(g) \in Nat
  BY LoadFinite, RoomFinite
<1>3. s \in Seq(Items) /\ t \in Seq(Items) /\ buffer[p] \in Seq(Items)
  BY <1>1 DEF ConsumerTypeOK
<1>4. t # <<>> /\ Len(t) \in Nat \ {0} /\ Len(s) \in Nat /\ Len(buffer[p]) \in Nat
  BY <1>3, EmptyItems, LenProperties DEF InWaiting
<1>5. Held(id)'
  BY DEF Held, InWaiting
<1>6. h \in Nat /\ hide'[id] \in Nat /\ Concurrency \in Nat /\ AttemptTicks \in Nat
  BY <1>1, ConstantTypes DEF ConsumerTypeOK
<1>7. InWaiting(p, w, id) => \/ Len(s) <= Room(f) /\ h > AttemptTicks
                             \/ Concurrency * h >= Needs(Len(s), x)
  BY DEF InTime, WaitingInTime
<1>8. ASSUME Held(id), ~Tick PROVE hide'[id] = h
  BY <1>5, <1>8, HeldIsSteady
<1>9. ASSUME NEW m \in Nat \ {0}, NEW z \in Nat, Concurrency * hide'[id] >= Needs(m, z),
             Needs(Len(t), y) <= Needs(m, z)
      PROVE  InTurn
  <2> HIDE DEF t, y
  <2>1. Needs(Len(t), y) \in Nat /\ Needs(m, z) \in Nat
    BY <1>2, <1>4, NeedsInNat
  <2> QED BY <1>6, <1>9, <2>1
<1>10. CASE Tick
  <2>1. t = s /\ InWaiting(p, w, id) /\ Held(id) /\ hide'[id] = h - 1
    BY <1>5, <1>10, TickHeld DEF InWaiting
  <2>2. f \in [1..Concurrency -> Places] /\ g \in [1..Concurrency -> Places]
    BY <1>1 DEF ConsumerTypeOK
  <2>3. \A k \in 1..Concurrency :
          f[k] # Free /\ f[k].left > 0 /\ g[k].left = f[k].left - 1
    <3> TAKE k \in 1..Concurrency
    <3>1. f[k] # Free /\ f[k].left > 0 /\ g[k].left = Less(f[k].left)
      BY <1>4, <1>10, <2>1, TickStep
    <3>2. f[k].left \in Nat
      BY <2>2, ConstantTypes DEF Places
    <3> QED BY <3>1, <3>2 DEF Less
  <2> HIDE DEF f, g, s, t, h
  <2>4. y + Concurrency <= x
    BY <2>2, <2>3, LoadTicks
  <2>5. Room(f) = 0
    BY <2>3, NoRoom
  <2>6. h \in Nat \ {0} /\ Concurrency * h >= Needs(Len(s), x)
    BY <1>4, <1>6, <1>7, <2>1, <2>5, HeldIsHidden DEF h
  <2> HIDE DEF x, y
  <2>7. Concurrency * (h - 1) >= Needs(Len(s), y)
    BY <1>2, <1>4, <2>1, <2>4, <2>6, NeedsInTick
  <2> QED BY <2>1, <2>7 DEF f, g, s, t, y
<1>11. CASE t = s /\ Eased(f, g) /\ ~Tick
  <2>1. InWaiting(p, w, id)
    BY <1>11 DEF InWaiting
  <2>2. hide'[id] = h
    BY <1>8, <1>11, <2>1, HeldByPosition
  <2>3. y <= x /\ Room(f) <= Room(g)
    BY <1>11 DEF Eased
  <2>4. \/ Len(s) <= Room(f) /\ h > AttemptTicks
        \/ Concurrency * h >= Needs(Len(s), x)
    BY <1>7, <2>1
  <2> HIDE DEF f, g, x, y, s, t, h
  <2>5. CASE Len(s) <= Room(f) /\ h > AttemptTicks
    BY <1>2, <1>4, <1>11, <2>2, <2>3, <2>5 DEF t, g
  <2>6. CASE Concurrency * h >= Needs(Len(s), x)
    <3>1. Needs(Len(t), y) <= Needs(Len(s), x)
      BY <1>2, <1>4, <1>11, <2>3, NeedsGrows
    <3>2. Len(s) \in Nat \ {0}
      BY <1>4, <1>11
    <3>3. InTurn
      BY <1>2, <1>9, <2>2, <2>6, <3>1, <3>2
    <3> QED BY <3>3 DEF t, y, g
  <2> QED BY <2>4, <2>5, <2>6
<1>12. ASSUME NEW i \in DOMAIN s, t = RemoveAt(s, i), Burdened(f, g), ~Tick
       PROVE  AtOnce \/ InTurn
  <2>1. Len(t) = Len(s) - 1 /\ ToSet(t) \subseteq ToSet(s)
    BY <1>3, <1>12, RemoveItem
  <2>2. InWaiting(p, w, id)
    BY <2>1 DEF InWaiting
  <2>3. hide'[id] = h
    BY <1>8, <1>12, <2>2, HeldByPosition
  <2>4. y <= x + AttemptTicks /\ Room(f) <= Room(g) + 1
    BY <1>12 DEF Burdened
  <2>5. \/ Len(s) <= Room(f) /\ h > AttemptTicks
        \/ Concurrency * h >= Needs(Len(s), x)
    BY <1>7, <2>2
  <2> HIDE DEF f, g, x, y, s, t, h
  <2>6. Len(s) = Len(t) + 1 /\ Len(s) \in Nat \ {0}
    BY <1>4, <2>1
  <2>7. CASE Len(s) <= Room(f) /\ h > AttemptTicks
    BY <1>2, <1>4, <2>3, <2>4, <2>6, <2>7
  <2>8. CASE Concurrency * h >= Needs(Len(s), x)
    <3>1. Needs(Len(t), y) <= Needs(Len(s), x)
      BY <1>2, <1>4, <2>4, <2>6, NeedsOfRest
    <3> QED BY <1>2, <1>9, <2>3, <2>6, <2>8, <3>1
  <2> QED BY <2>5, <2>7, <2>8
<1>13. CASE t = buffer[p] /\ Vacant(g) /\ ~Tick
  <2>1. InBuffer(p, id)
    BY <1>13 DEF InWaiting, InBuffer
  <2>2. h = Vt /\ hide'[id] = h
    BY <1>8, <1>13, <2>1, HeldByPosition DEF InTime, BufferInTime
  <2>3. Len(t) <= n
    BY <1>13 DEF SmallBatches
  <2>4. y = 0 /\ Room(g) = Concurrency
    BY <1>13 DEF Vacant
  <2> HIDE DEF f, g, x, y, s, t, h
  <2>5. CASE n <= Concurrency /\ AttemptTicks < Vt
    <3>1. AtOnce
      BY <1>4, <1>6, <2>2, <2>3, <2>4, <2>5
    <3> QED BY <3>1 DEF t, g
  <2>6. CASE Concurrency * Vt >= Needs(n, 0)
    <3>1. Needs(Len(t), y) <= Needs(n, 0)
      BY <1>4, <2>3, <2>4, NeedsGrows
    <3>2. InTurn
      BY <1>9, <2>2, <2>6, <3>1
    <3> QED BY <3>2 DEF t, y, g
  <2> QED BY <2>5, <2>6 DEF KeepsPace
<1>14. ASSUME ~Tick
       PROVE  \/ t = s /\ Eased(f, g)
              \/ \E i \in DOMAIN s : t = RemoveAt(s, i) /\ Burdened(f, g)
              \/ t = buffer[p] /\ Vacant(g)
  BY <1>4, <1>14, WindowStep, Zenon
<1> QED BY <1>10, <1>11, <1>12, <1>13, <1>14

-----------------------------------------------------------------------------
(* The invariant *)

LEMMA CInvInit == ConsumerInit => CInv
<1> SUFFICES ASSUME ConsumerInit PROVE CInv
  OBVIOUS
<1>1. ConsumerTypeOK /\ Named
  BY TypeInit, NamedInit
<1>2. \A p \in Procs : buffer[p] = <<>> /\ \A w \in Windows : waiting[p][w] = <<>>
  BY DEF ConsumerInit, NoBatch
<1>3. \A p \in Procs, w \in Windows, k \in 1..Concurrency : place[p][w][k].msg = NoMsg
  BY DEF ConsumerInit, NoPlace, Free
<1>4. \A id \in MsgIds, p \in Procs :
        /\ ~InBuffer(p, id)
        /\ \A w \in Windows :
             ~InWaiting(p, w, id) /\ \A k \in 1..Concurrency : ~InPlace(p, w, k, id)
  BY <1>2, <1>3, EmptyItems, ConsumerAssumption DEF InBuffer, InWaiting, InPlace
<1>5. HeldOnce
  <2>1. \A p \in Procs : Distinct(buffer[p]) /\ \A w \in Windows : Distinct(waiting[p][w])
    BY <1>2, EmptyItems
  <2> QED BY <1>4, <2>1 DEF HeldOnce, OnlyBuffer, OnlyWaiting, OnlyPlace
<1>6. HeldIsQueued
  BY <1>4 DEF HeldIsQueued, Held, InBuffer, InWaiting, InPlace
<1>7. UnsentIsVisible
  BY DEF ConsumerInit, UnsentIsVisible
<1>8. BufferInTime /\ WaitingInTime /\ PlaceInTime
  BY <1>4, Zenon DEF BufferInTime, WaitingInTime, PlaceInTime
<1> QED BY <1>1, <1>5, <1>6, <1>7, <1>8 DEF CInv, InTime

LEMMA CInvNext ==
  ASSUME CInv, [ConsumerNext]_consumerVars, NEW n \in Nat \ {0}, SmallBatches(n), KeepsPace(n)
  PROVE  CInv'
<1>1. ConsumerTypeOK /\ HeldOnce /\ Named /\ InTime
  BY DEF CInv
<1>2. ConsumerTypeOK' /\ HeldOnce' /\ Named'
  BY <1>1, TypeNext, HeldOnceNext, NamedNext
<1>3. UnsentIsVisible' /\ HeldIsQueued' /\ BufferInTime'
  BY <1>1, UnsentNext, QueuedNext, BufferNext
<1>4. WaitingInTime' /\ PlaceInTime'
  BY <1>1, WaitingNext, PlaceNext
<1> QED BY <1>2, <1>3, <1>4 DEF CInv, InTime

\* The invariant holds as long as no window closes with more items than the
\* visibility timeout leaves time for.
THEOREM InvariantCInv ==
  ASSUME NEW n \in Nat \ {0}, KeepsPace(n)
  PROVE  ConsumerSpec /\ []SmallBatches(n) => []CInv
<1>1. CInv /\ SmallBatches(n) /\ [ConsumerNext]_consumerVars => CInv'
  BY CInvNext
<1> QED BY <1>1, CInvInit, PTL DEF ConsumerSpec

-----------------------------------------------------------------------------
(* What follows *)

LEMMA RetryStep ==
  ASSUME CInv, NEW p \in Procs, NEW w \in Windows, NEW k \in 1..Concurrency, Retry(p, w, k)
  PROVE  LET id == place[p][w][k].msg IN stored'[id] = "queued" /\ hide'[id] > 0
<1>1. PICK id : id = place[p][w][k].msg
  OBVIOUS
<1>2. id \in MsgIds
  <2>1. place[p][w][k] \in Places /\ place[p][w][k] # Free
    BY ConstantTypes DEF CInv, ConsumerTypeOK, Retry, Ends
  <2> QED BY <1>1, <2>1 DEF CInv, Named, Places
<1>3. stored[id] = "queued"
  BY <1>1, <1>2, HeldByPosition, HeldIsHidden DEF CInv, InPlace
<1>4. stored' = stored /\ hide' = [hide EXCEPT ![id] = RetryVt]
  BY <1>1, <1>3 DEF Retry, PutBack
<1> QED BY <1>1, <1>2, <1>3, <1>4, ConstantTypes DEF CInv, ConsumerTypeOK

\* While it is held it stays so, and hidden, until its attempt is over.
LEMMA LeaseMoves ==
  ASSUME CInv, CInv', [ConsumerNext]_consumerVars,
         NEW id \in MsgIds, LeaseOf(id)' # LeaseOf(id)
  PROVE  <<LeaseOf(id), LeaseOf(id)'>> \in Lease!Moves
<1>1. ConsumerTypeOK /\ HeldOnce /\ InTime
  BY DEF CInv
<1>2. ASSUME Held(id)' PROVE LeaseOf(id)' = "held"
  <2>1. stored'[id] = "queued" /\ hide'[id] # 0
    <3>1. (ConsumerTypeOK /\ InTime /\ Held(id) => stored[id] = "queued" /\ hide[id] > 0)'
      BY HeldIsHidden, PTL
    <3> QED BY <1>2, <3>1, ConstantTypes DEF CInv, ConsumerTypeOK
  <2> QED BY <1>2, <2>1 DEF LeaseOf
<1>3. ASSUME Held(id) PROVE LeaseOf(id) = "held"
  BY <1>1, <1>3, HeldIsHidden, ConstantTypes DEF LeaseOf, ConsumerTypeOK
<1>4. ASSUME ~Held(id) PROVE LeaseOf(id) # "held"
  BY <1>1, <1>4 DEF LeaseOf, ConsumerTypeOK
<1>5. CASE Held(id)'
  <2>1. ~Held(id)
    BY <1>2, <1>3, <1>5
  <2>2. LeaseOf(id) = "visible"
    BY <1>1, <1>5, <2>1, NewlyHeld DEF LeaseOf, Visible
  <2> QED BY <1>2, <1>5, <2>2 DEF Lease!Moves
<1>6. CASE Held(id) /\ ~Held(id)'
  <2>1. ~Tick
    <3>1. Tick => \A p \in Procs, w \in Windows, k \in 1..Concurrency :
                    place'[p][w][k].msg = place[p][w][k].msg
      BY <1>1, TickStep
    <3> QED BY <1>6, <3>1 DEF Tick, Held
  <2>2. hide'[id] > 0
    BY <1>1, <1>6, <2>1, HideStep, HeldIsHidden, ConstantTypes
  <2>3. stored'[id] \in {"queued", "deleted"}
    BY <1>1, <1>6, StoredStep, HeldIsHidden
  <2>4. LeaseOf(id)' \in {"back", "deleted"}
    BY <1>6, <2>2, <2>3 DEF LeaseOf
  <2> QED BY <1>3, <1>6, <2>4 DEF Lease!Moves
<1>7. CASE ~Held(id) /\ ~Held(id)'
  <2>1. stored'[id] = stored[id] \/ (stored[id] = "unsent" /\ stored'[id] = "queued" /\ hide'[id] = hide[id])
    BY <1>1, <1>7, StoredStep
  <2>2. CASE stored[id] = "unsent"
    <3>1. hide[id] = 0
      BY <1>1, <2>2 DEF InTime, UnsentIsVisible
    <3>2. LeaseOf(id) = "unsent" /\ LeaseOf(id)' \in {"unsent", "visible"}
      BY <2>1, <2>2, <3>1 DEF LeaseOf
    <3> QED BY <3>2 DEF Lease!Moves
  <2>3. CASE stored[id] = "queued"
    <3>1. LeaseOf(id) \in {"visible", "back"} /\ LeaseOf(id)' \in {"visible", "back"}
      BY <1>7, <2>1, <2>3 DEF LeaseOf
    <3> QED BY <3>1 DEF Lease!Moves
  <2>4. CASE stored[id] = "deleted"
    BY <2>1, <2>4 DEF LeaseOf
  <2> QED BY <1>1, <2>2, <2>3, <2>4 DEF ConsumerTypeOK
<1> QED BY <1>5, <1>6, <1>7

leaseBar == [id \in MsgIds |-> LeaseOf(id)]

LEMMA LeaseStep ==
  /\ ConsumerInit => Lease!LeaseInit
  /\ CInv /\ CInv' /\ [ConsumerNext]_consumerVars => Lease!LeaseNext
<1>1. ConsumerInit => Lease!LeaseInit
  BY DEF ConsumerInit, Lease!LeaseInit, LeaseOf
<1>2. ASSUME CInv, CInv', [ConsumerNext]_consumerVars PROVE Lease!LeaseNext
  <2>1. \A id \in MsgIds : LeaseOf(id)' \in Lease!Place
    BY <1>2 DEF CInv, ConsumerTypeOK, LeaseOf, Lease!Place
  <2>2. leaseBar' \in [MsgIds -> Lease!Place]
    BY <2>1 DEF leaseBar
  <2>3. \A id \in MsgIds : leaseBar'[id] # leaseBar[id]
                            => <<leaseBar[id], leaseBar'[id]>> \in Lease!Moves
    BY <1>2, LeaseMoves DEF leaseBar
  <2> QED BY <2>2, <2>3 DEF Lease!LeaseNext, leaseBar
<1> QED BY <1>1, <1>2

\* A message is hidden from everybody else until its attempt is over, and leaves
\* the queue by way of its holder: QueueConsumer implements MessageLease as long
\* as its windows stay as small as that, however many messages there are.
THEOREM LeaseKeptInPace ==
  ASSUME NEW n \in Nat \ {0}, KeepsPace(n)
  PROVE  ConsumerSpec /\ []SmallBatches(n) => LeaseKept
BY LeaseStep, InvariantCInv, PTL DEF ConsumerSpec, LeaseKept, Lease!LeaseSpec

\* In the same behaviours a message is never in two hands: no process prefetches
\* or attempts what another one, or it itself, still has.
THEOREM HeldOnceInPace ==
  ASSUME NEW n \in Nat \ {0}, KeepsPace(n)
  PROVE  ConsumerSpec /\ []SmallBatches(n) => []HeldOnce
<1>1. CInv => HeldOnce
  BY DEF CInv
<1> QED BY <1>1, InvariantCInv, PTL

\* And the message of a Retry is in the queue after it, hidden for a while:
\* nobody else got hold of it during the attempt and deleted it.
THEOREM RetryIsRequeuedInPace ==
  ASSUME NEW n \in Nat \ {0}, KeepsPace(n)
  PROVE  ConsumerSpec /\ []SmallBatches(n) => RetryIsRequeued
<1>1. CInv => \A p \in Procs, w \in Windows, k \in 1..Concurrency :
                Retry(p, w, k) => LET id == place[p][w][k].msg IN
                                  stored'[id] = "queued" /\ hide'[id] > 0
  BY RetryStep
<1> QED BY <1>1, InvariantCInv, PTL DEF ConsumerSpec, RetryIsRequeued
=============================================================================
