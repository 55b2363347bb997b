-------------------------- MODULE AiAdmission_proofs --------------------------
(***************************************************************************)
(* The limits of AI triggers.  A counter's window is fixed by its first    *)
(* INCR, so the messages a key let pass in the last Window ticks are those *)
(* of the window that is open and those left from the one before.  The     *)
(* open window has as many as the counter says, up to the limit.  Of the   *)
(* one before at least its first message is left out: it passed when that  *)
(* window began, a whole window before the next could.                     *)
(***************************************************************************)
EXTENDS AiAdmission, FiniteSetTheorems, TLAPS

-----------------------------------------------------------------------------
(* Types.                                                                  *)

LEMMA InitType == Init => TypeOK
  BY AdmissionAssumption DEF Init, TypeOK, Keys, Points, Lists

\* The steps that leave the counters alone.
LEMMA CalmType ==
  ASSUME TypeOK, UNCHANGED counters,
         pc' \in [Messages -> Points], recent' \in [Messages -> Nat],
         job' \in [Messages -> Lists]
  PROVE  TypeOK'
BY DEF TypeOK, counters

\* A limit that is asked counts, and has its TTL from the first time on.
LEMMA CheckType ==
  ASSUME TypeOK, NEW m \in Messages, NEW k \in Keys, NEW limit, NEW next \in Points,
         Check(m, k, limit, next), recent' \in [Messages -> Nat], UNCHANGED job
  PROVE  TypeOK'
<1> USE AdmissionAssumption DEF TypeOK, Check, Increment, FirstTtl
<1>1. count' \in [Keys -> Nat] /\ ttl' \in [Keys -> 0..Window]
  OBVIOUS
<1>2. \A j \in Keys : count'[j] = 0 <=> ttl'[j] = 0
  OBVIOUS
<1>3. pc' \in [Messages -> Points]
  BY DEF Goto, Points
<1>4. age' \in [Messages -> [Keys -> 0..Window]]
  <2>1. [age[m] EXCEPT ![k] = 0] \in [Keys -> 0..Window]
    OBVIOUS
  <2>2. age' = age \/ age' = [age EXCEPT ![m] = [age[m] EXCEPT ![k] = 0]]
    OBVIOUS
  <2> QED BY <2>1, <2>2
<1> QED BY <1>1, <1>2, <1>3, <1>4

LEMMA NextType == TypeOK /\ [Next]_vars => TypeOK'
<1> SUFFICES ASSUME TypeOK, [Next]_vars PROVE TypeOK'
  OBVIOUS
<1> USE AdmissionAssumption
<1>1. ASSUME NEW m \in Messages,
             Ignore(m) \/ Trigger(m) \/ CheckDepth(m) \/ AddJob(m) \/ Throw(m)
               \/ TakeJob(m) \/ LeaveWorker(m) \/ Promote(m)
      PROVE  TypeOK'
  <2>1. UNCHANGED <<counters, recent>>
    BY <1>1 DEF Ignore, Trigger, CheckDepth, AddJob, Throw, TakeJob, LeaveWorker, Promote
  <2>2. pc' \in [Messages -> Points]
    BY <1>1 DEF TypeOK, Goto, Points, Ignore, Trigger, CheckDepth, AddJob, Throw, TakeJob,
                LeaveWorker, Promote
  <2>3. job' \in [Messages -> Lists]
    BY <1>1 DEF TypeOK, Move, ListOf, Lists, Ignore, Trigger, CheckDepth, AddJob, Throw,
                TakeJob, LeaveWorker, Promote
  <2> QED BY <2>1, <2>2, <2>3, CalmType DEF TypeOK
<1>2. ASSUME NEW m \in Messages, CheckUser(m) PROVE TypeOK'
  <2>1. Author[m] \in Keys /\ "workspace" \in Points
    BY DEF Keys, Points
  <2> QED BY <1>2, <2>1, CheckType DEF CheckUser, TypeOK
<1>3. ASSUME NEW m \in Messages, CheckWorkspace(m) PROVE TypeOK'
  <2>1. Home[m] \in Keys /\ "depth" \in Points
    BY DEF Keys, Points
  <2>2. recent' \in [Messages -> Nat]
    BY <1>3, <2>1 DEF CheckWorkspace, TypeOK
  <2> QED BY <1>3, <2>1, <2>2, CheckType DEF CheckWorkspace
<1>4. ASSUME Tick PROVE TypeOK'
  <2>a. \A k \in Keys : count[k] \in Nat /\ ttl[k] \in 0..Window
    BY DEF TypeOK
  <2>0. \A k \in Keys : /\ (IF ttl[k] = 1 THEN 0 ELSE count[k]) \in Nat
                        /\ Left(ttl[k]) \in 0..Window
    BY <2>a DEF Left
  <2>1. count' \in [Keys -> Nat] /\ ttl' \in [Keys -> 0..Window]
    BY <1>4, <2>0 DEF Tick
  <2>2. \A j \in Keys : count'[j] = 0 <=> ttl'[j] = 0
    BY <1>4 DEF Tick, Left, TypeOK
  <2>3. age' \in [Messages -> [Keys -> 0..Window]]
    BY <1>4 DEF Tick, TypeOK
  <2> QED BY <1>4, <2>1, <2>2, <2>3 DEF Tick, TypeOK
<1>5. CASE UNCHANGED vars
  BY <1>5, CalmType DEF vars, counters, TypeOK
<1> QED BY <1>1, <1>2, <1>3, <1>4, <1>5 DEF Next

\* Counters keep their type, and one that is there has its TTL
\* (INCREMENT_IN_WINDOW_SCRIPT).
THEOREM TypeCorrect == Spec => []TypeOK
  BY InitType, NextType, PTL DEF Spec

-----------------------------------------------------------------------------
(* What passed in the window that is open, and what is left of the one     *)
(* before.                                                                 *)

Current(k) == {m \in Messages : age[m][k] + ttl[k] <= Window}
Earlier(k) == {m \in Messages : age[m][k] < Window /\ age[m][k] + ttl[k] > Window}

\* An open window has let pass what it counted, up to the limit, and its first
\* trigger was the first to pass.
Open(k) ==
  ttl[k] > 0 =>
    /\ IsFiniteSet(Current(k)) /\ IsFiniteSet(Earlier(k))
    /\ Cardinality(Current(k)) = IF count[k] <= Limit(k) THEN count[k] ELSE Limit(k)
    /\ Cardinality(Earlier(k)) < Limit(k)
    /\ \E m \in Messages : age[m][k] + ttl[k] = Window
\* When it has ended, its first message is a window ago.
Closed(k) ==
  ttl[k] = 0 =>
    /\ IsFiniteSet(Passed(k)) /\ Cardinality(Passed(k)) < Limit(k)
    /\ \A m \in Messages : age[m][k] # 0

\* A message is asked about once.
NotYet ==
  \A m \in Messages :
    /\ pc[m] \in {"new", "user"} => age[m][Author[m]] = Window
    /\ pc[m] \in {"new", "user", "workspace"} => age[m][Home[m]] = Window

WindowInv == TypeOK /\ NotYet /\ \A k \in Keys : Open(k) /\ Closed(k)

LEMMA LimitType == \A k \in Keys : Limit(k) \in Nat \ {0}
  BY AdmissionAssumption DEF Limit

LEMMA InitWindow == Init => WindowInv
<1> SUFFICES ASSUME Init PROVE WindowInv
  OBVIOUS
<1> USE AdmissionAssumption DEF Init
<1>1. NotYet
  BY DEF NotYet, Keys
<1>2. ASSUME NEW k \in Keys PROVE Open(k) /\ Closed(k)
  <2>1. Passed(k) = {}
    BY DEF Passed
  <2>2. IsFiniteSet(Passed(k)) /\ Cardinality(Passed(k)) < Limit(k)
    BY <2>1, FS_EmptySet, LimitType
  <2>3. ttl[k] = 0 /\ \A m \in Messages : age[m][k] # 0
    OBVIOUS
  <2>4. Open(k)
    BY <2>3 DEF Open
  <2>5. Closed(k)
    BY <2>2, <2>3 DEF Closed
  <2> QED BY <2>4, <2>5
<1> QED BY <1>1, <1>2, InitType DEF WindowInv

\* What is known of a key depends on its counter and on who passed it.
LEMMA SameKey ==
  ASSUME NEW k \in Keys, Open(k), Closed(k), ttl'[k] = ttl[k], count'[k] = count[k],
         \A m \in Messages : age'[m][k] = age[m][k]
  PROVE  Open(k)' /\ Closed(k)'
<1>1. /\ Current(k)' = Current(k) /\ Earlier(k)' = Earlier(k) /\ Passed(k)' = Passed(k)
      /\ Limit(k)' = Limit(k)
  BY DEF Current, Earlier, Passed, Limit
<1> QED BY <1>1 DEF Open, Closed

\* A message passes: it begins a window, or is one more in it.
LEMMA PassKey ==
  ASSUME TypeOK, NEW k \in Keys, Open(k), Closed(k), Increment(k), count[k] + 1 <= Limit(k),
         NEW m \in Messages, age[m][k] = Window,
         \A n \in Messages : age'[n][k] = IF n = m THEN 0 ELSE age[n][k]
  PROVE  Open(k)' /\ Closed(k)'
<1> USE AdmissionAssumption, LimitType
<1>0. /\ count[k] \in Nat /\ count'[k] = count[k] + 1 /\ Limit(k)' = Limit(k)
      /\ ttl[k] \in 0..Window /\ \A n \in Messages : age[n][k] \in 0..Window
  BY DEF TypeOK, Increment, Limit
<1>1. CASE ttl[k] = 0
  <2>1. count[k] = 0 /\ ttl'[k] = Window
    BY <1>1 DEF TypeOK, Increment, FirstTtl
  <2>2. Current(k)' = {m}
    BY <1>0, <1>1, <2>1 DEF Current, Closed
  <2>3. Earlier(k)' = Passed(k)
    BY <1>0, <1>1, <2>1 DEF Earlier, Passed, Closed
  <2>4. age'[m][k] + ttl'[k] = Window
    BY <2>1
  <2>5. /\ IsFiniteSet(Current(k)') /\ Cardinality(Current(k)') = 1
        /\ 1 <= Limit(k) /\ Limit(k) \in Nat
    <3>1. IsFiniteSet({m}) /\ Cardinality({m}) = 1
      BY FS_Singleton
    <3>2. 1 <= Limit(k) /\ Limit(k) \in Nat
      OBVIOUS
    <3> QED BY <2>2, <3>1, <3>2
  <2>6. IsFiniteSet(Earlier(k)') /\ Cardinality(Earlier(k)') < Limit(k)
    BY <1>1, <2>3 DEF Closed
  <2>7. Open(k)'
    <3>1. /\ count'[k] = 1
          /\ Cardinality(Current(k)')
               = IF count'[k] <= Limit(k)' THEN count'[k] ELSE Limit(k)'
          /\ Cardinality(Earlier(k)') < Limit(k)'
      BY <1>0, <2>1, <2>5, <2>6
    <3> QED BY <2>4, <2>5, <2>6, <3>1 DEF Open
  <2>8. Closed(k)'
    BY <2>1 DEF Closed
  <2> QED BY <2>7, <2>8
<1>2. CASE ttl[k] > 0
  <2>1. ttl'[k] = ttl[k]
    BY <1>2 DEF TypeOK, Increment, FirstTtl
  <2>2. Current(k)' = Current(k) \cup {m} /\ m \notin Current(k)
    BY <1>0, <1>2, <2>1 DEF Current
  <2>3. Earlier(k)' = Earlier(k)
    BY <1>0, <1>2, <2>1 DEF Earlier
  <2>4. PICK f \in Messages : age[f][k] + ttl[k] = Window
    BY <1>2 DEF Open
  <2>5. age'[f][k] + ttl'[k] = Window
    BY <1>0, <1>2, <2>1, <2>4
  <2>6. /\ IsFiniteSet(Current(k)')
        /\ Cardinality(Current(k)') = count[k] + 1
    BY <1>0, <1>2, <2>2, FS_AddElement DEF Open
  <2> QED BY <1>0, <1>2, <2>1, <2>3, <2>5, <2>6 DEF Open, Closed
<1> QED BY <1>0, <1>1, <1>2

\* A message is refused: its window is used up.
LEMMA RefuseKey ==
  ASSUME TypeOK, NEW k \in Keys, Open(k), Closed(k), Increment(k),
         ~(count[k] + 1 <= Limit(k)), age' = age
  PROVE  /\ Open(k)' /\ Closed(k)'
         /\ ttl[k] > 0 /\ Cardinality(Current(k)) = Limit(k)
<1> USE AdmissionAssumption, LimitType
<1>1. /\ count[k] \in Nat /\ count'[k] = count[k] + 1 /\ Limit(k)' = Limit(k)
      /\ ttl[k] > 0 /\ ttl'[k] = ttl[k]
  BY DEF TypeOK, Increment, FirstTtl, Limit
<1>2. Current(k)' = Current(k) /\ Earlier(k)' = Earlier(k)
  BY <1>1 DEF Current, Earlier
<1>3. Cardinality(Current(k)) = Limit(k)
  BY <1>1 DEF Open
<1> QED BY <1>1, <1>2, <1>3 DEF Open, Closed

\* Time passes: a window goes on, or ends without the message that began it.
LEMMA TickKey ==
  ASSUME TypeOK, NEW k \in Keys, Open(k), Closed(k), Tick
  PROVE  Open(k)' /\ Closed(k)'
<1>0. /\ count[k] \in Nat /\ count'[k] = (IF ttl[k] = 1 THEN 0 ELSE count[k])
      /\ ttl[k] \in Nat /\ ttl[k] <= Window
      /\ ttl'[k] = (IF ttl[k] = 0 THEN 0 ELSE ttl[k] - 1)
  BY AdmissionAssumption DEF TypeOK, Tick, Left
<1>a. /\ Window \in Nat \ {0}
      /\ \A n \in Messages :
           /\ age[n][k] \in 0..Window
           /\ age'[n][k] = IF age[n][k] < Window THEN age[n][k] + 1 ELSE Window
  BY AdmissionAssumption DEF TypeOK, Tick
<1>b. Limit(k) \in Nat \ {0} /\ Limit(k)' = Limit(k)
  BY LimitType DEF Limit
<1>1. CASE ttl[k] = 0
  <2>1. Passed(k)' \in SUBSET Passed(k)
    BY <1>0, <1>a DEF Passed
  <2>2. IsFiniteSet(Passed(k)') /\ Cardinality(Passed(k)') <= Cardinality(Passed(k))
    BY <1>1, <2>1, FS_Subset DEF Closed
  <2>3. Cardinality(Passed(k)') \in Nat /\ Cardinality(Passed(k)) \in Nat
    BY <1>1, <2>2, FS_CardinalityType DEF Closed
  <2>4. /\ ttl'[k] = 0 /\ Cardinality(Passed(k)) < Limit(k)
        /\ \A n \in Messages : age'[n][k] # 0
    BY <1>0, <1>a, <1>1 DEF Closed
  <2>5. Cardinality(Passed(k)') < Limit(k)'
    BY <1>b, <2>2, <2>3, <2>4
  <2> QED BY <2>2, <2>4, <2>5 DEF Open, Closed
<1>2. CASE ttl[k] = 1
  <2>1. PICK f \in Messages : age[f][k] + ttl[k] = Window
    BY <1>2 DEF Open
  <2>2. Passed(k)' \in SUBSET (Current(k) \ {f}) /\ f \in Current(k)
    BY <1>0, <1>a, <1>2, <2>1 DEF Passed, Current
  <2>3. /\ IsFiniteSet(Current(k) \ {f})
        /\ Cardinality(Current(k) \ {f}) = Cardinality(Current(k)) - 1
        /\ Cardinality(Current(k)) <= Limit(k) /\ Cardinality(Current(k)) \in Nat
    BY <1>0, <1>b, <1>2, <2>2, FS_RemoveElement, FS_CardinalityType DEF Open
  <2>4. IsFiniteSet(Passed(k)') /\ Cardinality(Passed(k)') <= Cardinality(Current(k) \ {f})
    BY <2>2, <2>3, FS_Subset
  <2>5. Cardinality(Passed(k)') \in Nat
    BY <2>4, FS_CardinalityType
  <2>6. ttl'[k] = 0 /\ \A n \in Messages : age'[n][k] # 0
    BY <1>0, <1>a, <1>2
  <2>7. Cardinality(Passed(k)') < Limit(k)'
    BY <1>b, <2>3, <2>4, <2>5
  <2> QED BY <2>4, <2>6, <2>7 DEF Open, Closed
<1>3. CASE ttl[k] > 1
  <2>1. Current(k)' = Current(k)
    BY <1>0, <1>a, <1>b, <1>3 DEF Current
  <2>2. Earlier(k)' \in SUBSET Earlier(k)
    BY <1>0, <1>a, <1>b, <1>3 DEF Earlier
  <2>3. IsFiniteSet(Earlier(k)') /\ Cardinality(Earlier(k)') <= Cardinality(Earlier(k))
    BY <1>0, <1>3, <2>2, FS_Subset DEF Open
  <2>4. Cardinality(Earlier(k)') \in Nat /\ Cardinality(Earlier(k)) \in Nat
    BY <1>0, <1>3, <2>3, FS_CardinalityType DEF Open
  <2>5. PICK f \in Messages : age[f][k] + ttl[k] = Window
    BY <1>0, <1>a, <1>b, <1>3 DEF Open
  <2>6. age'[f][k] + ttl'[k] = Window
    BY <1>0, <1>a, <1>3, <2>5
  <2>7. count'[k] = count[k] /\ ttl'[k] > 0
    BY <1>0, <1>3
  <2>c. /\ IsFiniteSet(Current(k)) /\ Cardinality(Earlier(k)) < Limit(k)
        /\ Cardinality(Current(k)) = IF count[k] <= Limit(k) THEN count[k] ELSE Limit(k)
    BY <1>0, <1>a, <1>b, <1>3 DEF Open
  <2>8. /\ Cardinality(Current(k)')
             = IF count'[k] <= Limit(k)' THEN count'[k] ELSE Limit(k)'
        /\ IsFiniteSet(Current(k)')
    BY <1>b, <2>1, <2>7, <2>c
  <2>9. Cardinality(Earlier(k)') < Limit(k)'
    BY <1>b, <2>3, <2>4, <2>c
  <2>10. Open(k)'
    BY <2>3, <2>6, <2>8, <2>9 DEF Open
  <2>11. Closed(k)'
    BY <2>7 DEF Closed
  <2> QED BY <2>10, <2>11
<1>4. ttl[k] = 0 \/ ttl[k] = 1 \/ ttl[k] > 1
  BY <1>0
<1> QED BY <1>1, <1>2, <1>3, <1>4

\* A limit is asked for a message it has not passed.
LEMMA CheckWindow ==
  ASSUME TypeOK, \A j \in Keys : Open(j) /\ Closed(j),
         NEW m \in Messages, NEW k \in Keys, NEW next, Check(m, k, Limit(k), next),
         age[m][k] = Window
  PROVE  \A j \in Keys : Open(j)' /\ Closed(j)'
<1> TAKE j \in Keys
<1>1. CASE j # k
  <2>1. ttl'[j] = ttl[j] /\ count'[j] = count[j] /\ \A n \in Messages : age'[n][j] = age[n][j]
    BY <1>1 DEF Check, Increment, TypeOK
  <2> QED BY <2>1, SameKey
<1>2. CASE j = k /\ Within(count[k] + 1, Limit(k))
  <2>1. \A n \in Messages : age'[n][k] = IF n = m THEN 0 ELSE age[n][k]
    BY <1>2 DEF Check, TypeOK
  <2> QED BY <1>2, <2>1, PassKey DEF Check, Within
<1>3. CASE j = k /\ ~Within(count[k] + 1, Limit(k))
  BY <1>3, RefuseKey DEF Check, Within
<1> QED BY <1>1, <1>2, <1>3

\* The limits of the two checks.
LEMMA LimitOf ==
  ASSUME NEW m \in Messages
  PROVE  /\ Author[m] \in Keys /\ Limit(Author[m]) = UserLimit
         /\ Home[m] \in Keys /\ Limit(Home[m]) = WorkspaceLimit /\ Author[m] # Home[m]
BY AdmissionAssumption DEF Keys, Limit

LEMMA NextWindow == WindowInv /\ [Next]_vars => WindowInv'
<1> SUFFICES ASSUME WindowInv, [Next]_vars PROVE NotYet' /\ \A k \in Keys : Open(k)' /\ Closed(k)'
  BY NextType DEF WindowInv
<1> USE DEF WindowInv
<1>1. ASSUME UNCHANGED counters,
             \A m \in Messages : pc'[m] \in {"new", "user", "workspace"} =>
                                   pc[m] = pc'[m] \/ (pc[m] = "new" /\ pc'[m] = "user")
      PROVE  NotYet' /\ \A k \in Keys : Open(k)' /\ Closed(k)'
  <2>1. NotYet'
    BY <1>1 DEF counters, NotYet
  <2>2. ASSUME NEW k \in Keys PROVE Open(k)' /\ Closed(k)'
    BY <1>1, SameKey DEF counters
  <2> QED BY <2>1, <2>2
<1>2. ASSUME NEW m \in Messages,
             Ignore(m) \/ Trigger(m) \/ CheckDepth(m) \/ AddJob(m) \/ Throw(m)
               \/ TakeJob(m) \/ LeaveWorker(m) \/ Promote(m)
      PROVE  NotYet' /\ \A k \in Keys : Open(k)' /\ Closed(k)'
  <2>1. UNCHANGED counters
    BY <1>2 DEF Ignore, Trigger, CheckDepth, AddJob, Throw, TakeJob, LeaveWorker, Promote, counters
  <2>2. \A n \in Messages : pc'[n] \in {"new", "user", "workspace"} =>
                              pc[n] = pc'[n] \/ (pc[n] = "new" /\ pc'[n] = "user")
    BY <1>2 DEF TypeOK, Goto, Ignore, Trigger, CheckDepth, AddJob, Throw, TakeJob, LeaveWorker,
                Promote
  <2> QED BY <1>1, <2>1, <2>2
<1>3. ASSUME NEW m \in Messages, CheckUser(m)
      PROVE  NotYet' /\ \A k \in Keys : Open(k)' /\ Closed(k)'
  <2>1. \A k \in Keys : Open(k)' /\ Closed(k)'
    BY <1>3, LimitOf, CheckWindow DEF CheckUser, NotYet
  <2>2. /\ pc'[m] \in {"workspace", "refused"}
        /\ \A n \in Messages : n # m => pc'[n] = pc[n] /\ age'[n] = age[n]
        /\ age'[m][Home[m]] = age[m][Home[m]]
    BY <1>3, LimitOf DEF CheckUser, Check, Goto, TypeOK
  <2> QED BY <1>3, <2>1, <2>2 DEF NotYet, CheckUser
<1>4. ASSUME NEW m \in Messages, CheckWorkspace(m)
      PROVE  NotYet' /\ \A k \in Keys : Open(k)' /\ Closed(k)'
  <2>1. \A k \in Keys : Open(k)' /\ Closed(k)'
    BY <1>4, LimitOf, CheckWindow DEF CheckWorkspace, NotYet
  <2>2. /\ pc'[m] \in {"depth", "refused"}
        /\ \A n \in Messages : n # m => pc'[n] = pc[n] /\ age'[n] = age[n]
    BY <1>4 DEF CheckWorkspace, Check, Goto, TypeOK
  <2> QED BY <2>1, <2>2 DEF NotYet
<1>5. ASSUME Tick
      PROVE  NotYet' /\ \A k \in Keys : Open(k)' /\ Closed(k)'
  <2>1. NotYet'
    BY <1>5, LimitOf, AdmissionAssumption DEF NotYet, Tick, TypeOK
  <2> QED BY <1>5, <2>1, TickKey
<1>6. CASE UNCHANGED vars
  <2>1. UNCHANGED counters /\ pc' = pc
    BY <1>6 DEF vars, counters
  <2> QED BY <1>1, <2>1
<1> QED BY <1>2, <1>3, <1>4, <1>5, <1>6 DEF Next

\* The inductive invariant: a window that is open has let pass what it counted,
\* and less than the limit is left of the window before.
THEOREM WindowInvariance == Spec => []WindowInv
  BY InitWindow, NextWindow, PTL DEF Spec

-----------------------------------------------------------------------------
(* The limits.                                                             *)

\* What is current has passed within the window.
LEMMA CurrentPassed ==
  ASSUME WindowInv, NEW k \in Keys, ttl[k] > 0
  PROVE  /\ Passed(k) = Current(k) \cup Earlier(k)
         /\ IsFiniteSet(Passed(k))
         /\ Cardinality(Current(k)) <= Cardinality(Passed(k))
         /\ Cardinality(Passed(k)) <= Cardinality(Current(k)) + Cardinality(Earlier(k))
<1>1. Passed(k) = Current(k) \cup Earlier(k)
  BY AdmissionAssumption DEF WindowInv, TypeOK, Passed, Current, Earlier
<1>2. /\ IsFiniteSet(Passed(k)) /\ IsFiniteSet(Current(k) \cap Earlier(k))
      /\ Cardinality(Passed(k)) = Cardinality(Current(k)) + Cardinality(Earlier(k))
                                    - Cardinality(Current(k) \cap Earlier(k))
  BY <1>1, FS_Union, FS_Subset DEF WindowInv, Open
<1>3. Cardinality(Current(k)) <= Cardinality(Passed(k))
  BY <1>1, <1>2, FS_Subset
<1> QED BY <1>1, <1>2, <1>3, FS_CardinalityType DEF WindowInv, Open

\* Whatever the interleaving of the triggers and the keys that expire, a user or
\* a workspace never gets twice its limit through within one window
\* (incrementInWindow()).
THEOREM LimitsKept == Spec => []LimitsHold
<1>1. WindowInv => LimitsHold
  <2> SUFFICES ASSUME WindowInv, NEW k \in Keys PROVE Cardinality(Passed(k)) < 2 * Limit(k)
    BY DEF LimitsHold, SpanBounded, WindowInv
  <2>0. Limit(k) \in Nat \ {0} /\ ttl[k] \in Nat /\ count[k] \in Nat
    BY LimitType, AdmissionAssumption DEF WindowInv, TypeOK
  <2>1. CASE ttl[k] = 0
    <3>1. IsFiniteSet(Passed(k)) /\ Cardinality(Passed(k)) < Limit(k)
      BY <2>1 DEF WindowInv, Closed
    <3> QED BY <2>0, <3>1, FS_CardinalityType
  <2>2. CASE ttl[k] > 0
    <3>1. /\ Cardinality(Current(k)) <= Limit(k) /\ Cardinality(Earlier(k)) < Limit(k)
          /\ IsFiniteSet(Current(k)) /\ IsFiniteSet(Earlier(k))
      BY <2>0, <2>2 DEF WindowInv, Open
    <3>2. /\ Cardinality(Current(k)) \in Nat /\ Cardinality(Earlier(k)) \in Nat
          /\ Cardinality(Passed(k)) \in Nat
      BY <2>2, <3>1, CurrentPassed, FS_CardinalityType
    <3> QED BY <2>0, <2>2, <3>1, <3>2, CurrentPassed
  <2> QED BY <2>0, <2>1, <2>2
<1> QED BY <1>1, WindowInvariance, PTL

\* Nobody is refused for a limit that a window has not used up, whoever else is
\* counted meanwhile (isAllowed(), INCR before the comparison).
THEOREM RefusedFairly == Spec => RefusedOnlyWhenUsedUp
<1> DEFINE Used(m, p, k) == pc[m] = p /\ pc'[m] = "refused" => Cardinality(Passed(k)) >= Limit(k)
<1>1. ASSUME WindowInv, [Next]_vars, NEW m \in Messages
      PROVE  Used(m, "user", Author[m]) /\ Used(m, "workspace", Home[m])
  <2>1. ASSUME NEW k \in Keys, NEW next \in {"workspace", "depth"},
               Check(m, k, Limit(k), next), pc'[m] = "refused"
        PROVE  Cardinality(Passed(k)) >= Limit(k)
    <3>1. Increment(k) /\ ~(count[k] + 1 <= Limit(k)) /\ age' = age
      BY <1>1, <2>1 DEF Check, Within, Goto, WindowInv, TypeOK
    <3>2. ttl[k] > 0 /\ Cardinality(Current(k)) = Limit(k)
      BY <1>1, <3>1, RefuseKey DEF WindowInv
    <3> QED BY <1>1, <3>2, CurrentPassed, LimitType, FS_CardinalityType
  <2>2. ASSUME pc[m] \in {"user", "workspace"}, pc'[m] = "refused"
        PROVE  CheckUser(m) \/ CheckWorkspace(m)
    BY <1>1, <2>2 DEF Next, vars, WindowInv, TypeOK, Goto, Ignore, Trigger, CheckUser,
         CheckWorkspace, Check, CheckDepth, AddJob, Throw, TakeJob, LeaveWorker, Promote, Tick
  <2> QED BY <2>1, <2>2, LimitOf DEF CheckUser, CheckWorkspace
<1>2. ASSUME WindowInv, [Next]_vars
      PROVE  \A m \in Messages :
               /\ pc[m] = "user" /\ pc'[m] = "refused" =>
                    Cardinality(Passed(Author[m])) >= UserLimit
               /\ pc[m] = "workspace" /\ pc'[m] = "refused" =>
                    Cardinality(Passed(Home[m])) >= WorkspaceLimit
  BY <1>1, <1>2, LimitOf
<1> QED BY <1>2, WindowInvariance, PTL DEF Spec, RefusedOnlyWhenUsedUp

=============================================================================
