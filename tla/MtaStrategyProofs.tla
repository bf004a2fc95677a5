--------------------------- MODULE MtaStrategyProofs ---------------------------
(***************************************************************************)
(* What getMTA returns, for every set of agents, every order of the array  *)
(* and every number of retries.                                            *)
(***************************************************************************)
EXTENDS MtaStrategy, WellFoundedInduction, TLAPS

\* A non-empty set of numbers has a least element.
LEMMA LeastNat ==
  ASSUME NEW T \in SUBSET Nat, T # {}
  PROVE  \E x \in T : \A y \in T : x <= y
<1> DEFINE R == OpToRel(<, Nat)
<1>1. IsWellFoundedOn(R, Nat)
  BY NatLessThanWellFounded
<1>2. \A x, y \in Nat : y < x => <<y, x>> \in R
  BY DEF OpToRel
<1> HIDE DEF R
<1>3. PICK x \in T : \A y \in T : <<y, x>> \notin R
  BY <1>1, WFMin
<1>4. \A y \in T : x <= y
  <2> TAKE y \in T
  <2>1. x \in Nat /\ y \in Nat
    OBVIOUS
  <2>2. ~(y < x)
    BY <1>2, <1>3, <2>1
  <2> QED BY <2>1, <2>2
<1> QED BY <1>4

\* find() over availableMTA: an element of the set, undefined only if there is
\* none.
LEMMA FirstOfProperties ==
  ASSUME NEW S \in SUBSET MTAs
  PROVE  /\ S # {} => FirstOf(S) \in S
         /\ S = {} => FirstOf(S) = NoMTA
<1>1. CASE S = {}
  BY <1>1 DEF FirstOf
<1>2. CASE S # {}
  <2> DEFINE T == {Position[a] : a \in S}
  <2>1. T \in SUBSET Nat /\ T # {}
    BY <1>2, MtaAssumption
  <2>2. PICK x \in T : \A y \in T : x <= y
    BY <2>1, LeastNat
  <2>3. PICK a \in S : x = Position[a]
    OBVIOUS
  <2>4. \A b \in S : Position[a] <= Position[b]
    BY <2>2, <2>3
  <2> QED BY <1>2, <2>4 DEF FirstOf
<1> QED BY <1>1, <1>2

\* getMTA returns an available agent or none; the agent of the last attempt
\* only if it may retry.
THEOREM GetMTAProperties ==
  ASSUME NEW status \in Status, NEW available \in SUBSET MTAs
  PROVE  LET mta == GetMTA(status, available) IN
         /\ mta \in available \cup {NoMTA}
         /\ mta = status.mta /\ mta # NoMTA => CanRetry(status, available)
         /\ mta = NoMTA => available \subseteq {status.mta}
<1>1. CASE CanRetry(status, available)
  BY <1>1, MtaAssumption DEF GetMTA, CanRetry
<1>2. CASE ~CanRetry(status, available)
  <2> DEFINE S == available \ {status.mta}
  <2>1. GetMTA(status, available) = FirstOf(S)
    BY <1>2 DEF GetMTA
  <2>2. S \in SUBSET MTAs
    OBVIOUS
  <2> QED BY <2>1, <2>2, FirstOfProperties, MtaAssumption
<1> QED BY <1>1, <1>2
=============================================================================
