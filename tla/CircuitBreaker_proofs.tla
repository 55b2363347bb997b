------------------------ MODULE CircuitBreaker_proofs ------------------------
(***************************************************************************)
(* Proofs about CircuitBreaker: its types, and that at most one probe is   *)
(* on its way to the provider as long as no action outlasts the lock of    *)
(* its probe and Redis does not fail in the middle of a report.            *)
(*                                                                         *)
(* The lock has no owner, so SingleProbe is not inductive: it needs to     *)
(* know that whoever still has the lock to delete is the only one and that *)
(* the key is there (OneHolder).                                           *)
(***************************************************************************)
EXTENDS CircuitBreaker, TLAPS

\* A key that lost a tick keeps its type, and its counter goes with it.
LEMMA LeftType ==
  ASSUME NEW limit \in Nat, NEW ttl \in 0..limit
  PROVE  Left(ttl) \in 0..limit
  BY DEF Left

LEMMA KeptType ==
  ASSUME NEW ttl \in 0..Window, NEW count \in Nat, count = 0 <=> ttl = 0
  PROVE  Kept(count, ttl) \in Nat /\ (Kept(count, ttl) = 0 <=> Left(ttl) = 0)
  BY BreakerAssumption DEF Kept, Left

\* An INCR leaves the key with a TTL.
LEMMA TtlType ==
  ASSUME NEW count \in Nat, NEW ttl \in 0..Window, count = 0 <=> ttl = 0
  PROVE  Ttl(count + 1, ttl) \in 0..Window /\ Ttl(count + 1, ttl) # 0
  BY BreakerAssumption DEF Ttl

\* Every variable keeps its type, and a counter its TTL (TypeOK).
THEOREM TypeInvariance == TypeOK /\ [Next]_vars => TypeOK'
<1>1. SUFFICES ASSUME TypeOK, [Next]_vars
               PROVE  TypeOK'
      OBVIOUS
<1> USE BreakerAssumption DEF TypeOK, Points, Holding, Goto, circuit, counters
<1>2. ASSUME NEW c \in Callers, GetState(c)
      PROVE  TypeOK'
      BY <1>1, <1>2 DEF GetState
<1>3. ASSUME NEW c \in Callers, GetOpenedAt(c)
      PROVE  TypeOK'
      BY <1>1, <1>3 DEF GetOpenedAt
<1>4. ASSUME NEW c \in Callers, SetProbeLock(c)
      PROVE  TypeOK'
      BY <1>1, <1>4 DEF SetProbeLock
<1>5. ASSUME NEW c \in Callers, SetHalfOpen(c)
      PROVE  TypeOK'
      BY <1>1, <1>5 DEF SetHalfOpen
<1>6. ASSUME NEW c \in Callers, EndAction(c)
      PROVE  TypeOK'
      BY <1>1, <1>6 DEF EndAction
<1>7. ASSUME NEW c \in Callers, ReportOk(c)
      PROVE  TypeOK'
      BY <1>1, <1>7, TtlType DEF ReportOk
<1>8. ASSUME NEW c \in Callers, ReportBad(c)
      PROVE  TypeOK'
  <2>1. CASE Trips(total + 1, failures + 1)
        BY <1>1, <1>8, <2>1 DEF ReportBad
  <2>2. CASE ~Trips(total + 1, failures + 1)
        BY <1>1, <1>8, <2>2, TtlType DEF ReportBad
  <2> QED BY <2>1, <2>2
<1>9. ASSUME NEW c \in Callers, DelProbeLock(c)
      PROVE  TypeOK'
      BY <1>1, <1>9 DEF DelProbeLock
<1>10. ASSUME NEW c \in Callers, Close(c) \/ SetOpen(c) \/ SetOpenedAt(c)
       PROVE  TypeOK'
       BY <1>1, <1>10 DEF Close, SetOpen, SetOpenedAt
<1>11. ASSUME NEW c \in Callers, RedisThrows(c) \/ Crash(c)
       PROVE  TypeOK'
       BY <1>1, <1>11 DEF RedisThrows, Crash
<1>12. ASSUME Tick
       PROVE  TypeOK'
  <2>1. openedAge' \in 0..ResetTimeout
        BY <1>1, <1>12 DEF Tick
  <2>2. probeLock' \in 0..ProbeLockTtl /\ totalTtl' \in 0..Window /\ failuresTtl' \in 0..Window
        BY <1>1, <1>12, LeftType DEF Tick
  <2>3. total' \in Nat /\ (total' = 0 <=> totalTtl' = 0)
        BY <1>1, <1>12, KeptType DEF Tick
  <2>4. failures' \in Nat /\ (failures' = 0 <=> failuresTtl' = 0)
        BY <1>1, <1>12, KeptType DEF Tick
  <2>5. state' = state /\ pc' = pc /\ faults' = faults
        BY <1>12 DEF Tick
  <2> QED BY <1>1, <2>1, <2>2, <2>3, <2>4, <2>5
<1>13. CASE UNCHANGED vars
       BY <1>1, <1>13 DEF vars
<1> QED BY <1>1, <1>2, <1>3, <1>4, <1>5, <1>6, <1>7, <1>8, <1>9, <1>10, <1>11, <1>12,
           <1>13 DEF Next, CallerStep

LEMMA InitType == Init => TypeOK
  BY BreakerAssumption DEF Init, TypeOK, Points

\* The specification keeps the types (TypeOK).
THEOREM TypeCorrect == Spec => []TypeOK
  BY InitType, TypeInvariance, PTL DEF Spec

-----------------------------------------------------------------------------

\* Who has the probe lock to give back is alone, and the key is there.
OneHolder ==
  /\ \A c \in Callers : pc[c] \in Holding => probeLock # 0
  /\ \A c, d \in Callers : pc[c] \in Holding /\ pc[d] \in Holding => c = d

\* OneHolder is inductive: only SET NX makes a holder, only a holder deletes
\* the key, and time does not (acquire(), report(), run()).
THEOREM HolderInvariance ==
  ASSUME LocksHold
  PROVE  TypeOK /\ OneHolder /\ [Next]_vars => OneHolder'
<1>1. SUFFICES ASSUME TypeOK, OneHolder, [Next]_vars
               PROVE  OneHolder'
      OBVIOUS
<1> USE BreakerAssumption
\* A step of one caller that neither takes the lock nor gives it back.
<1>2. ASSUME NEW c \in Callers, NEW p \in Points, pc' = [pc EXCEPT ![c] = p],
             probeLock' = probeLock, p \in Holding => pc[c] \in Holding
      PROVE  OneHolder'
      BY <1>1, <1>2 DEF OneHolder, TypeOK
<1>3. ASSUME NEW c \in Callers, GetState(c) \/ GetOpenedAt(c)
      PROVE  OneHolder'
      BY <1>1, <1>2, <1>3 DEF GetState, GetOpenedAt, Goto, Points, Holding, TypeOK
<1>4. ASSUME NEW c \in Callers, SetProbeLock(c)
      PROVE  OneHolder'
  <2>1. CASE Acquirable
    <3>1. \A d \in Callers : pc[d] \notin Holding
          BY <1>1, <2>1 DEF OneHolder, Acquirable
    <3>2. probeLock' # 0 /\ pc' = [pc EXCEPT ![c] = "halfOpen"]
          BY <1>4, <2>1 DEF SetProbeLock, Goto
    <3> QED BY <1>1, <3>1, <3>2 DEF OneHolder, TypeOK
  <2>2. CASE ~Acquirable
        BY <1>2, <1>4, <2>2 DEF SetProbeLock, Goto, Points, Holding
  <2> QED BY <2>1, <2>2
<1>5. ASSUME NEW c \in Callers, SetHalfOpen(c) \/ EndAction(c)
      PROVE  OneHolder'
      BY <1>2, <1>5 DEF SetHalfOpen, EndAction, Goto, Points, Holding
<1>6. ASSUME NEW c \in Callers, ReportOk(c) \/ ReportBad(c)
      PROVE  OneHolder'
      BY <1>2, <1>6 DEF ReportOk, ReportBad, Goto, Points, Holding
<1>7. ASSUME NEW c \in Callers, DelProbeLock(c)
      PROVE  OneHolder'
  <2>1. pc[c] \in Holding
        BY <1>7 DEF DelProbeLock, Holding
  <2>2. \A d \in Callers : pc'[d] \notin Holding
        BY <1>1, <1>7, <2>1 DEF OneHolder, TypeOK, DelProbeLock, Goto, Holding
  <2> QED BY <2>2 DEF OneHolder
<1>8. ASSUME NEW c \in Callers, Close(c) \/ SetOpen(c) \/ SetOpenedAt(c)
      PROVE  OneHolder'
      BY <1>2, <1>8 DEF Close, SetOpen, SetOpenedAt, Goto, Points, Holding
<1>9. ASSUME NEW c \in Callers, Crash(c)
      PROVE  OneHolder'
      BY <1>2, <1>9 DEF Crash, Goto, Points, Holding
<1>10. ASSUME Tick
       PROVE  OneHolder'
  <2>1. pc' = pc /\ probeLock' = Left(probeLock)
        BY <1>10 DEF Tick
  <2>2. probeLock # 1 \/ \A c \in Callers : pc[c] \notin Holding
        BY <1>10 DEF Tick, LocksHold
  <2>3. probeLock # 0 /\ probeLock # 1 => probeLock' # 0
        BY <1>1, <2>1 DEF Left, TypeOK
  <2> QED BY <1>1, <2>1, <2>2, <2>3 DEF OneHolder
<1>11. CASE UNCHANGED vars
       BY <1>1, <1>11 DEF vars, OneHolder
<1>12. \A c \in Callers : ~RedisThrows(c)
       BY DEF RedisThrows, LocksHold
<1> QED BY <1>1, <1>3, <1>4, <1>5, <1>6, <1>7, <1>8, <1>9, <1>10, <1>11, <1>12
           DEF Next, CallerStep

\* The faults do not change in a behaviour.
LEMMA FaultsConstant == [Next]_vars => faults' = faults
  BY DEF Next, CallerStep, GetState, GetOpenedAt, SetProbeLock, SetHalfOpen, EndAction,
         ReportOk, ReportBad, DelProbeLock, Close, SetOpen, SetOpenedAt, RedisThrows,
         Crash, Tick, vars

\* One request at a time is let through to a provider that is down, when no
\* action outlasts its lock and Redis does not fail (SingleProbe).
THEOREM OneProbe == Spec => []SingleProbe
<1> DEFINE IInv == LocksHold => OneHolder
<1>1. Init => IInv
      BY DEF Init, OneHolder, Holding
<1>2. TypeOK /\ IInv /\ [Next]_vars => IInv'
  <2>1. [Next]_vars => (LocksHold' <=> LocksHold)
        BY FaultsConstant DEF LocksHold
  <2>2. LocksHold => (TypeOK /\ OneHolder /\ [Next]_vars => OneHolder')
        BY HolderInvariance
  <2> QED BY <2>1, <2>2
<1>3. IInv => SingleProbe
      BY DEF OneHolder, SingleProbe, Holding
<1> QED BY <1>1, <1>2, <1>3, TypeCorrect, PTL DEF Spec

==============================================================================
