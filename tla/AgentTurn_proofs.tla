--------------------------- MODULE AgentTurn_proofs ---------------------------
(***************************************************************************)
(* The step budget of a turn holds over any number of pauses.              *)
(*                                                                         *)
(* Each run counts realSteps from the rounds it is given, so the budget is *)
(* kept only if the rounds never fall behind the delegations.  Within a    *)
(* run they do not: a round is added with every count.  A step that pauses *)
(* for approval is counted without its round, which approveCheckpoint()    *)
(* adds: while the turn waits, the rounds may be one behind, and after     *)
(* that they are not.                                                      *)
(***************************************************************************)
EXTENDS AgentTurn, FiniteSetTheorems, SequenceTheorems, TLAPS

\* What a pause for approval owes to the rounds.
Owed == IF pc \in {"paused", "approved"} /\ pending # 0 THEN 1 ELSE 0

BudgetType ==
  /\ rounds \in [real : Nat, no : Nat]
  /\ realSteps \in Nat /\ delegated \in Nat /\ pending \in Nat

\* The invariant: a step is delegated below the budget, the count is at most
\* one behind the delegations and that only while the step is carried out,
\* the rounds at most the owed one behind the count.
Counted ==
  /\ pc \in {"plan", "step", "react", "tools"} => realSteps < MaxRealSteps
  /\ pc \in {"react", "tools"} => delegated <= realSteps + 1
  /\ pc \notin {"react", "tools", "over"} => delegated <= realSteps
  /\ pc # "over" => realSteps <= rounds.real + Owed
  /\ pc = "approved" => pending # 0
  /\ delegated <= MaxRealSteps

BudgetInv == BudgetType /\ Counted

\* Nothing is delegated yet.
LEMMA InitBudget == Init => BudgetInv
  BY TurnAssumption DEF Init, BudgetInv, BudgetType, Counted, Owed

\* A step of run() keeps the invariant: the budget is read at the top of the
\* loop, a step is delegated below it, and a round goes with every count.
LEMMA TurnKeepsBudget ==
  ASSUME BudgetInv, TurnStep
  PROVE  BudgetInv'
<1> USE TurnAssumption DEF BudgetInv, BudgetType, Counted, Owed, budget, Goto, Over
<1>1. CASE LoopTop
  BY <1>1 DEF LoopTop, plan
<1>2. CASE Plan
  BY <1>2 DEF Plan, Finalize
<1>3. CASE Misroute
  BY <1>3 DEF Misroute, Replan
<1>4. CASE Unavailable
  <2>1. /\ pc = "step" /\ pc' = "evaluate"
        /\ delegated' = delegated + 1 /\ realSteps' = realSteps + 1 /\ pending' = pending
    BY <1>4 DEF Unavailable, Shift, Progress
  <2>2. /\ rounds'.real = rounds.real + 1
        /\ rounds' \in [real : Nat, no : Nat]
    BY <1>4 DEF Unavailable, Progress
  <2> QED BY <2>1, <2>2
<1>5. CASE Delegate
  BY <1>5 DEF Delegate, Shift
<1>6. CASE Evaluate
  <2>1. CASE Replan /\ UNCHANGED <<pending, delegated>>
    <3>1. pc = "evaluate" /\ pc' = "top" /\ UNCHANGED <<realSteps, pending, delegated>>
      BY <1>6, <2>1 DEF Evaluate, Replan
    <3>2. rounds' = [rounds EXCEPT !.no = @ + 1]
      BY <2>1 DEF Replan
    <3>3. rounds'.real = rounds.real /\ rounds' \in [real : Nat, no : Nat]
      BY <3>2
    <3> QED BY <3>1, <3>3
  <2>2. CASE (Finalize \/ Goto("top")) /\ UNCHANGED <<budget, pending, delegated>>
    BY <1>6, <2>2 DEF Evaluate, Finalize
  <2> QED BY <1>6, <2>1, <2>2 DEF Evaluate
<1>7. CASE Synthesize
  BY <1>7 DEF Synthesize
<1>8. CASE AskForTools
  BY <1>8 DEF AskForTools
<1>9. CASE SelfCheck
  BY <1>9 DEF SelfCheck
<1>10. CASE AgentAnswers
  BY <1>10 DEF AgentAnswers, Progress
<1>11. CASE ToolsSettled
  BY <1>11 DEF ToolsSettled
<1>12. CASE Cancelled
  BY <1>12 DEF Cancelled
<1> QED
  BY <1>1, <1>2, <1>3, <1>4, <1>5, <1>6, <1>7, <1>8, <1>9, <1>10, <1>11, <1>12 DEF TurnStep

\* A tool call keeps the invariant: one that needs approval owes a round,
\* the approved one pays it.
LEMMA CallKeepsBudget ==
  ASSUME NEW k \in Calls, BudgetInv, CallStep(k)
  PROVE  BudgetInv'
<1> USE TurnAssumption DEF BudgetInv, BudgetType, Counted, Owed, budget
<1>1. CASE StartCall(k)
  BY <1>1 DEF StartCall
<1>2. CASE PassGate(k)
  BY <1>2 DEF PassGate
<1>3. CASE Block(k)
  <2>1. k \in Nat /\ k # 0
    BY DEF Calls
  <2>2. CASE Awaited(k) /\ ~aborted
    <3>1. pc = "tools"
      BY <2>2 DEF Awaited
    <3>2. /\ rounds'.real \in {rounds.real, rounds.real + 1}
          /\ rounds' \in [real : Nat, no : Nat]
      BY <1>3, <2>2 DEF Block
    <3>3. realSteps' = realSteps + 1 /\ pending' = k /\ delegated' = delegated
      BY <1>3, <2>2 DEF Block
    <3>4. pc' \in {"paused", "over"}
      BY <1>3, <2>2 DEF Block, Goto, Over
    <3> QED BY <2>1, <3>1, <3>2, <3>3, <3>4
  <2>3. CASE ~(Awaited(k) /\ ~aborted)
    BY <1>3, <2>3 DEF Block
  <2> QED BY <2>2, <2>3
<1>4. CASE Acquire(k)
  BY <1>4 DEF Acquire
<1>5. CASE Begin(k)
  BY <1>5 DEF Begin
<1>6. CASE Unreached(k)
  BY <1>6 DEF Unreached
<1>7. CASE EndCall(k)
  BY <1>7 DEF EndCall
<1>8. CASE TryAgain(k)
  BY <1>8 DEF TryAgain
<1>9. CASE AbortCall(k)
  BY <1>9 DEF AbortCall
<1>10. CASE EndApproved(k)
  <2>1. pc = "approved" /\ pending # 0
    BY <1>10 DEF EndApproved, Approved
  <2>2. CASE pc' = "over"
    BY <1>10, <2>2 DEF EndApproved, Goto, Over
  <2>3. CASE pc' # "over"
    <3>1. /\ rounds' = ResumedRounds
          /\ realSteps' = rounds'.real
          /\ pc' = "evaluate" /\ pending' = pending /\ delegated' = delegated
      BY <1>10, <2>3 DEF EndApproved, NewRun, Goto, Over
    <3> QED BY <2>1, <3>1 DEF ResumedRounds
  <2> QED BY <2>2, <2>3
<1> QED
  BY <1>1, <1>2, <1>3, <1>4, <1>5, <1>6, <1>7, <1>8, <1>9, <1>10 DEF CallStep

\* The answer of the user and Stop keep it.
LEMMA UserKeepsBudget ==
  ASSUME BudgetInv, Refuse \/ Clarified \/ Approve \/ Stop \/ Poll
  PROVE  BudgetInv'
<1> USE DEF BudgetInv, BudgetType, Counted, Owed, budget, Goto, Over
<1>1. CASE Refuse
  BY <1>1 DEF Refuse
<1>2. CASE Clarified
  BY <1>2 DEF Clarified, NewRun
<1>3. CASE Approve
  BY <1>3 DEF Approve
<1>4. CASE Stop
  BY <1>4 DEF Stop
<1>5. CASE Poll
  BY <1>5 DEF Poll
<1> QED
  BY <1>1, <1>2, <1>3, <1>4, <1>5

\* The inductive invariant of the budget.
THEOREM BudgetInvariance == Spec => []BudgetInv
<1>1. BudgetInv /\ [Next]_vars => BudgetInv'
  <2> SUFFICES ASSUME BudgetInv, [Next]_vars PROVE BudgetInv'
    OBVIOUS
  <2>1. CASE UNCHANGED vars
    BY <2>1 DEF vars, BudgetInv, BudgetType, Counted, Owed
  <2>2. CASE Next
    BY <2>2, TurnKeepsBudget, CallKeepsBudget, UserKeepsBudget DEF Next
  <2> QED BY <2>1, <2>2
<1> QED
  BY <1>1, InitBudget, PTL DEF Spec

\* A turn delegates at most MAX_REAL_STEPS_PER_TURN steps, however often it
\* pauses and resumes, for any budget and any number of tool calls.
THEOREM BudgetKept == Spec => []StepBudget
<1>1. BudgetInv => StepBudget
  BY DEF BudgetInv, Counted, StepBudget
<1> QED
  BY <1>1, BudgetInvariance, PTL

-----------------------------------------------------------------------------
(* The slots of the limiter, with calls that wait, run, are aborted and go *)
(* on when the turn has left them.                                         *)

\* Who is in the queue waits, and is there once; while somebody waits no slot is
\* free; and each slot that is counted has its holder.
InQueue   == \A i \in 1..Len(waiting) : slot[waiting[i]] = "waiting"
QueueOnce == \A i, j \in 1..Len(waiting) : waiting[i] = waiting[j] => i = j
SlotInv ==
  /\ L!TypeOK /\ InQueue /\ QueueOnce
  /\ active = Cardinality(L!Holders) /\ active <= MaxConcurrent
  /\ waiting # <<>> => active = MaxConcurrent

LEMMA HoldersFinite == IsFiniteSet(L!Holders) /\ Cardinality(L!Holders) \in Nat
<1>1. IsFiniteSet(Calls)
  BY FS_Interval, TurnAssumption DEF Calls
<1>2. L!Holders \in SUBSET Calls
  BY DEF L!Holders
<1> QED BY <1>1, <1>2, FS_Subset, FS_CardinalityType

LEMMA InitSlot == Init => SlotInv
<1> SUFFICES ASSUME Init PROVE SlotInv
  OBVIOUS
<1>1. L!Holders = {}
  BY DEF Init, L!Init, L!Holders
<1> QED BY <1>1, FS_EmptySet, TurnAssumption
        DEF Init, L!Init, SlotInv, L!TypeOK, L!Points, InQueue, QueueOnce

\* acquire() of an aborted signal, the microtask of one that was granted, and a
\* new try move nobody into the queue or out of it.
LEMMA QuietSlot ==
  ASSUME SlotInv, NEW k \in Calls, L!Reject(k) \/ L!Begin(k) \/ L!Again(k)
  PROVE  SlotInv'
<1> USE DEF SlotInv, L!TypeOK, L!Points, L!Reject, L!Begin, L!Again
<1>1. L!Holders' = L!Holders
  BY DEF L!Holders
<1>2. InQueue'
  BY DEF InQueue
<1>3. QueueOnce'
  BY DEF QueueOnce
<1> QED BY <1>1, <1>2, <1>3

\* acquire() takes a free slot, or the end of the queue.
LEMMA AcquireSlot ==
  ASSUME SlotInv, NEW k \in Calls, L!Acquire(k)
  PROVE  SlotInv'
<1> USE TurnAssumption DEF SlotInv, L!TypeOK, L!Points, L!Acquire, L!HasRoom
<1>1. CASE active < MaxConcurrent
  <2>1. L!Holders' = L!Holders \cup {k} /\ k \notin L!Holders
    BY <1>1 DEF L!Holders
  <2>2. active' = Cardinality(L!Holders')
    BY <1>1, <2>1, HoldersFinite, FS_AddElement
  <2>3. waiting' = <<>>
    BY <1>1
  <2> QED BY <1>1, <2>2, <2>3 DEF InQueue, QueueOnce
<1>2. CASE ~(active < MaxConcurrent)
  <2>1. L!Holders' = L!Holders
    BY <1>2 DEF L!Holders
  <2>2. /\ waiting' = Append(waiting, k) /\ waiting' \in Seq(Calls)
        /\ slot' = [slot EXCEPT ![k] = "waiting"] /\ active' = active
    BY <1>2
  <2>3. \A i \in 1..Len(waiting) : waiting[i] # k /\ slot'[waiting[i]] = "waiting"
    BY <1>2 DEF InQueue
  <2>4. InQueue' /\ QueueOnce'
    BY <2>2, <2>3 DEF InQueue, QueueOnce
  <2> QED BY <1>2, <2>1, <2>2, <2>4
<1> QED BY <1>1, <1>2

\* splice(i, 1).
LEMMA Removal ==
  ASSUME NEW S, NEW s \in Seq(S), NEW i \in 1..Len(s)
  PROVE  /\ L!RemoveAt(s, i) \in Seq(S) /\ Len(L!RemoveAt(s, i)) = Len(s) - 1
         /\ \A j \in 1..Len(s) - 1 :
              L!RemoveAt(s, i)[j] = IF j < i THEN s[j] ELSE s[j + 1]
<1> DEFINE a == SubSeq(s, 1, i - 1)  b == SubSeq(s, i + 1, Len(s))
<1>0. Len(s) \in Nat /\ i \in Nat /\ i >= 1 /\ i <= Len(s)
  BY LenProperties
<1>1. \A j \in 1..Len(s) : s[j] \in S
  BY ElementOfSeq
<1>2. /\ a \in Seq(S) /\ Len(a) = i - 1 /\ \A j \in 1..i - 1 : a[j] = s[j]
  <2>1. /\ a \in Seq(S) /\ Len(a) = (IF 1 <= i - 1 THEN i - 1 - 1 + 1 ELSE 0)
        /\ \A j \in 1..i - 1 - 1 + 1 : a[j] = s[1 + j - 1]
    BY <1>0, <1>1, SubSeqProperties
  <2> QED BY <1>0, <2>1
<1>3. /\ b \in Seq(S) /\ Len(b) = Len(s) - i /\ \A j \in 1..Len(s) - i : b[j] = s[i + j]
  <2>1. /\ b \in Seq(S)
        /\ Len(b) = (IF i + 1 <= Len(s) THEN Len(s) - (i + 1) + 1 ELSE 0)
        /\ \A j \in 1..Len(s) - (i + 1) + 1 : b[j] = s[i + 1 + j - 1]
    BY <1>0, <1>1, SubSeqProperties
  <2> QED BY <1>0, <2>1
<1>4. /\ a \o b \in Seq(S) /\ Len(a \o b) = Len(a) + Len(b)
      /\ \A j \in 1..Len(a) + Len(b) :
           (a \o b)[j] = IF j <= Len(a) THEN a[j] ELSE b[j - Len(a)]
  BY <1>2, <1>3, ConcatProperties
<1>5. L!RemoveAt(s, i) = a \o b
  BY DEF L!RemoveAt
<1> HIDE DEF a, b
<1>6. ASSUME NEW j \in 1..Len(s) - 1
      PROVE  (a \o b)[j] = IF j < i THEN s[j] ELSE s[j + 1]
  BY <1>0, <1>2, <1>3, <1>4, <1>6
<1>7. Len(a \o b) = Len(s) - 1
  BY <1>0, <1>2, <1>3, <1>4
<1> QED BY <1>4, <1>5, <1>6, <1>7

\* onAbort(): the others stay in their order.
LEMMA AbortSlot ==
  ASSUME SlotInv, NEW k \in Calls, L!Abort(k)
  PROVE  SlotInv'
<1> USE DEF SlotInv, L!TypeOK, L!Points, L!Abort
<1>1. L!Holders' = L!Holders
  BY DEF L!Holders
<1>2. PICK i \in 1..Len(waiting) : waiting[i] = k /\ waiting' = L!RemoveAt(waiting, i)
  <2>1. DOMAIN waiting = 1..Len(waiting)
    BY LenProperties
  <2> QED BY <2>1
<1>3. /\ waiting' \in Seq(Calls) /\ Len(waiting') = Len(waiting) - 1
      /\ \A j \in 1..Len(waiting') : waiting'[j] = IF j < i THEN waiting[j] ELSE waiting[j + 1]
  BY <1>2, Removal
<1>4. ASSUME NEW j \in 1..Len(waiting')
      PROVE  \E n \in 1..Len(waiting) :
               /\ n # i /\ waiting'[j] = waiting[n] /\ waiting[n] # k /\ waiting[n] \in Calls
               /\ n = IF j < i THEN j ELSE j + 1
  <2> DEFINE n == IF j < i THEN j ELSE j + 1
  <2>1. n \in 1..Len(waiting) /\ n # i /\ waiting'[j] = waiting[n]
    <3>1. Len(waiting) \in Nat /\ i \in Nat /\ j \in Nat /\ j <= Len(waiting) - 1 /\ 1 <= j
      BY <1>2, <1>3, LenProperties
    <3> QED BY <1>2, <1>3, <3>1
  <2>2. waiting[n] # k /\ waiting[n] \in Calls
    BY <1>2, <2>1 DEF QueueOnce
  <2> QED BY <2>1, <2>2
<1>5. InQueue'
  <2> SUFFICES ASSUME NEW j \in 1..Len(waiting') PROVE slot'[waiting'[j]] = "waiting"
    BY DEF InQueue
  <2>1. PICK n \in 1..Len(waiting) :
          waiting'[j] = waiting[n] /\ waiting[n] # k /\ waiting[n] \in Calls
    BY <1>4
  <2>2. slot[waiting[n]] = "waiting"
    BY DEF InQueue
  <2> QED BY <2>1, <2>2
<1>6. QueueOnce'
  <2> SUFFICES ASSUME NEW j \in 1..Len(waiting'), NEW h \in 1..Len(waiting'),
                      waiting'[j] = waiting'[h]
               PROVE  j = h
    BY DEF QueueOnce
  <2>1. PICK n \in 1..Len(waiting) : waiting'[j] = waiting[n] /\ n = IF j < i THEN j ELSE j + 1
    BY <1>4
  <2>2. PICK q \in 1..Len(waiting) : waiting'[h] = waiting[q] /\ q = IF h < i THEN h ELSE h + 1
    BY <1>4
  <2>3. n = q
    BY <2>1, <2>2 DEF QueueOnce
  <2>4. i \in Nat /\ j \in Nat /\ h \in Nat
    BY <1>2
  <2> QED BY <2>1, <2>2, <2>3, <2>4
<1> QED BY <1>1, <1>2, <1>3, <1>5, <1>6

\* release() hands the slot to the first who waits, or counts it down.
LEMMA ReleaseSlot ==
  ASSUME SlotInv, NEW k \in Calls, L!Release(k)
  PROVE  SlotInv'
<1> USE DEF SlotInv, L!TypeOK, L!Points, L!Release
<1>0. k \in L!Holders
  BY DEF L!Holders
<1>1. CASE waiting # <<>>
  <2> DEFINE h == Head(waiting)
  <2>1. /\ h \in Calls /\ h = waiting[1] /\ slot[h] = "waiting" /\ h # k
        /\ waiting' = Tail(waiting) /\ waiting' \in Seq(Calls) /\ Len(waiting') = Len(waiting) - 1
        /\ \A i \in 1..Len(waiting') : waiting'[i] = waiting[i + 1]
    <3>1. /\ waiting' = Tail(waiting) /\ Tail(waiting) \in Seq(Calls)
          /\ Len(Tail(waiting)) = Len(waiting) - 1 /\ h \in Calls
          /\ \A i \in 1..Len(Tail(waiting)) : Tail(waiting)[i] = waiting[i + 1]
      BY <1>1, HeadTailProperties
    <3>2. h = waiting[1] /\ 1 \in 1..Len(waiting)
      BY <1>1
    <3>3. slot[h] = "waiting" /\ h # k
      BY <3>2 DEF InQueue
    <3> QED BY <3>1, <3>2, <3>3
  <2>2. slot' = [slot EXCEPT ![k] = "over", ![h] = "granted"] /\ active' = active
    BY <1>1
  <2>3. L!Holders' = (L!Holders \ {k}) \cup {h} /\ h \notin L!Holders \ {k}
    BY <2>1, <2>2 DEF L!Holders
  <2>4. Cardinality(L!Holders') = Cardinality(L!Holders)
    <3> DEFINE H == L!Holders
    <3>1. IsFiniteSet(H) /\ Cardinality(H) \in Nat
      BY HoldersFinite
    <3>2. IsFiniteSet(H \ {k}) /\ Cardinality(H \ {k}) = Cardinality(H) - 1
      BY <1>0, <3>1, FS_RemoveElement
    <3>3. Cardinality((H \ {k}) \cup {h}) = Cardinality(H \ {k}) + 1
      BY <2>3, <3>2, FS_AddElement
    <3> QED BY <2>3, <3>1, <3>2, <3>3
  <2>5. InQueue'
    BY <2>1, <2>2 DEF InQueue, QueueOnce
  <2>6. QueueOnce'
    BY <2>1 DEF QueueOnce
  <2> QED BY <1>1, <2>1, <2>2, <2>4, <2>5, <2>6
<1>2. CASE waiting = <<>>
  <2>1. L!Holders' = L!Holders \ {k}
    BY <1>2 DEF L!Holders
  <2>2. Cardinality(L!Holders') = active - 1 /\ active - 1 \in Nat
    <3> DEFINE H == L!Holders
    <3>1. IsFiniteSet(H) /\ Cardinality(H) \in Nat /\ active = Cardinality(H)
      BY HoldersFinite
    <3>2. IsFiniteSet(H \ {k}) /\ Cardinality(H \ {k}) = Cardinality(H) - 1
      BY <1>0, <3>1, FS_RemoveElement
    <3>3. Cardinality(H \ {k}) \in Nat
      BY <3>2, FS_CardinalityType
    <3> QED BY <2>1, <3>1, <3>2, <3>3
  <2> QED BY <1>2, <2>2, TurnAssumption DEF InQueue, QueueOnce
<1> QED BY <1>1, <1>2

\* The steps of the limiter are all that moves a slot.
LEMMA StepSlot == SlotInv /\ [Next]_vars => SlotInv'
<1> SUFFICES ASSUME SlotInv, [Next]_vars PROVE SlotInv'
  OBVIOUS
<1>1. CASE UNCHANGED limit
  BY <1>1 DEF limit, SlotInv, L!TypeOK, L!Holders, InQueue, QueueOnce
<1>2. ASSUME NEW k \in Calls, CallStep(k) PROVE SlotInv'
  BY <1>1, <1>2, QuietSlot, AcquireSlot, AbortSlot, ReleaseSlot
     DEF CallStep, StartCall, PassGate, Block, Acquire, Begin, Unreached, EndCall, TryAgain,
         AbortCall, EndApproved
<1>3. CASE TurnStep
  BY <1>1, <1>3 DEF TurnStep, LoopTop, Plan, Misroute, Unavailable, Delegate, Evaluate,
     Synthesize, AskForTools, SelfCheck, AgentAnswers, ToolsSettled, Cancelled
<1>4. CASE Refuse \/ Clarified \/ Approve \/ Stop \/ Poll
  BY <1>1, <1>4 DEF Refuse, Clarified, Approve, Stop, Poll
<1>5. CASE UNCHANGED vars
  BY <1>1, <1>5 DEF vars, limit
<1> QED BY <1>2, <1>3, <1>4, <1>5 DEF Next

\* The invariant of the limiter, under any calls of any turn.
THEOREM SlotInvariance == Spec => []SlotInv
  BY InitSlot, StepSlot, PTL DEF Spec

-----------------------------------------------------------------------------
(* Types.                                                                  *)

\* Where the turn is, and what it has; its plan, the calls and the limiter aside.
PlaceType ==
  /\ pc \in Running \cup {"paused", "approved", "over"}
  /\ end \in {"none", "final", "fallback", "refused", "failed", "rejected", "cancelled"}
FlagType == needsPlan \in BOOLEAN /\ stop \in BOOLEAN /\ aborted \in BOOLEAN
CountType ==
  /\ rounds \in [real : Nat, no : Nat] /\ realSteps \in Nat /\ nonProgress \in Nat
  /\ run \in Nat /\ delegated \in Nat
ReachType ==
  /\ react \in [step : 0..MaxReactSteps, checked : BOOLEAN]
  /\ pending \in 0..MaxCalls /\ used \in 0..MaxCalls /\ kept \subseteq Calls
TurnType == PlaceType /\ FlagType /\ CountType /\ ReachType

\* A plan is a sequence, and what is left of one, or has a step in front, is one.
LEMMA StepsType == steps \in Seq(BOOLEAN) /\ [Next]_vars => steps' \in Seq(BOOLEAN)
<1> SUFFICES ASSUME steps \in Seq(BOOLEAN), [Next]_vars PROVE steps' \in Seq(BOOLEAN)
  OBVIOUS
<1>1. <<>> \in Seq(BOOLEAN)
  BY EmptySeq
<1>2. ASSUME NEW p \in Plans PROVE p \in Seq(BOOLEAN)
  <2>1. PICK n \in 1..MaxPlan : p \in [1..n -> BOOLEAN]
    BY DEF Plans
  <2>2. n \in Nat
    BY TurnAssumption
  <2> QED BY <2>1, <2>2, SeqDef
<1>3. steps # <<>> => Tail(steps) \in Seq(BOOLEAN)
  BY HeadTailProperties
<1>4. <<TRUE>> \o steps \in Seq(BOOLEAN)
  <2>1. <<TRUE>> \in Seq(BOOLEAN)
    OBVIOUS
  <2> QED BY <2>1, ConcatProperties
<1>5. CASE TurnStep
  <2>1. CASE Plan
    BY <1>2, <2>1 DEF Plan, plan
  <2>2. CASE Misroute \/ Evaluate
    BY <1>1, <2>2 DEF Misroute, Evaluate, Replan, plan
  <2>3. CASE Unavailable \/ Delegate
    BY <1>3, <2>3 DEF Unavailable, Delegate, Shift
  <2>4. CASE LoopTop \/ Synthesize \/ AskForTools \/ SelfCheck \/ AgentAnswers \/ ToolsSettled
               \/ Cancelled
    BY <2>4 DEF LoopTop, Synthesize, AskForTools, SelfCheck, AgentAnswers, ToolsSettled,
       Cancelled, plan
  <2> QED BY <1>5, <2>1, <2>2, <2>3, <2>4 DEF TurnStep
<1>6. ASSUME NEW k \in Calls, CallStep(k) PROVE steps' \in Seq(BOOLEAN)
  <2>1. CASE EndApproved(k)
    BY <1>4, <2>1 DEF EndApproved
  <2>2. CASE ~EndApproved(k)
    BY <1>6, <2>2 DEF CallStep, StartCall, PassGate, Block, Acquire, Begin, Unreached, EndCall,
       TryAgain, AbortCall, plan
  <2> QED BY <2>1, <2>2
<1>7. CASE Refuse \/ Clarified \/ Approve \/ Stop \/ Poll \/ UNCHANGED vars
  BY <1>7 DEF Refuse, Clarified, Approve, Stop, Poll, vars, plan
<1> QED BY <1>5, <1>6, <1>7 DEF Next

LEMMA PlaceKept == PlaceType /\ [Next]_vars => PlaceType'
<1> SUFFICES ASSUME PlaceType, [Next]_vars PROVE PlaceType'
  OBVIOUS
<1> USE DEF PlaceType, Running, Goto, Over
<1>1. CASE TurnStep
  <2>1. CASE LoopTop
    <3>1. \/ pc' = "over" /\ end' = "cancelled"
          \/ pc' \in {"plan", "step"} /\ end' = end
          \/ pc' = "synthesize" /\ end' = "fallback"
      BY <2>1 DEF LoopTop
    <3> QED BY <3>1
  <2>2. CASE Plan \/ Evaluate
    BY <2>2 DEF Plan, Evaluate, Finalize, Replan
  <2>3. CASE Misroute \/ Unavailable \/ Delegate
    BY <2>3 DEF Misroute, Replan, Unavailable, Delegate
  <2>4. CASE Synthesize \/ AskForTools \/ SelfCheck \/ AgentAnswers \/ ToolsSettled \/ Cancelled
    BY <2>4 DEF Synthesize, AskForTools, SelfCheck, AgentAnswers, ToolsSettled, Cancelled
  <2> QED BY <1>1, <2>1, <2>2, <2>3, <2>4 DEF TurnStep
<1>2. ASSUME NEW k \in Calls, CallStep(k) PROVE PlaceType'
  BY <1>2 DEF CallStep, StartCall, PassGate, Block, Acquire, Begin, Unreached, EndCall, TryAgain,
     AbortCall, EndApproved
<1>3. CASE Refuse \/ Clarified \/ Approve \/ Stop \/ Poll \/ UNCHANGED vars
  BY <1>3 DEF Refuse, Clarified, Approve, Stop, Poll, vars
<1> QED BY <1>1, <1>2, <1>3 DEF Next

LEMMA FlagKept == FlagType /\ [Next]_vars => FlagType'
<1> SUFFICES ASSUME FlagType, [Next]_vars PROVE FlagType'
  OBVIOUS
<1> USE DEF FlagType, plan
<1>1. CASE TurnStep
  <2>1. CASE Plan
    BY <2>1 DEF Plan
  <2>2. CASE Misroute \/ Evaluate
    BY <2>2 DEF Misroute, Evaluate, Replan
  <2>3. CASE Unavailable \/ Delegate
    BY <2>3 DEF Unavailable, Delegate, Shift
  <2>4. CASE LoopTop \/ Synthesize \/ AskForTools \/ SelfCheck \/ AgentAnswers \/ ToolsSettled
               \/ Cancelled
    <3>1. UNCHANGED <<needsPlan, stop, aborted>>
      BY <2>4 DEF LoopTop, Synthesize, AskForTools, SelfCheck, AgentAnswers, ToolsSettled,
         Cancelled
    <3> QED BY <3>1
  <2> QED BY <1>1, <2>1, <2>2, <2>3, <2>4 DEF TurnStep
<1>2. ASSUME NEW k \in Calls, CallStep(k) PROVE FlagType'
  <2>1. UNCHANGED <<needsPlan, stop>> /\ aborted' \in {aborted, FALSE}
    BY <1>2 DEF CallStep, StartCall, PassGate, Block, Acquire, Begin, Unreached, EndCall, TryAgain,
       AbortCall, EndApproved, NewRun
  <2> QED BY <2>1
<1>3. CASE Refuse \/ Clarified \/ Approve \/ Stop \/ Poll \/ UNCHANGED vars
  BY <1>3 DEF Refuse, Clarified, NewRun, Approve, Stop, Poll, vars
<1> QED BY <1>1, <1>2, <1>3 DEF Next

\* The counters go up by one, or a new run counts the rounds.
LEMMA CountKept == CountType /\ [Next]_vars => CountType'
<1> SUFFICES ASSUME CountType, [Next]_vars PROVE CountType'
  OBVIOUS
<1> DEFINE R == [real : Nat, no : Nat]
<1>0. /\ rounds \in R /\ rounds.real \in Nat /\ rounds.no \in Nat
      /\ [rounds EXCEPT !.real = @ + 1] \in R /\ [rounds EXCEPT !.no = @ + 1] \in R
  BY DEF CountType
<1> USE DEF budget
<1>1. CASE LoopTop \/ Plan \/ Synthesize \/ AskForTools \/ SelfCheck \/ ToolsSettled \/ Cancelled
  <2>1. UNCHANGED <<rounds, realSteps, nonProgress, run, delegated>>
    BY <1>1 DEF LoopTop, Plan, Synthesize, AskForTools, SelfCheck, ToolsSettled, Cancelled
  <2> QED BY <2>1 DEF CountType
<1>2. CASE Misroute \/ Evaluate
  <2>1. /\ UNCHANGED <<realSteps, run, delegated>>
        /\ \/ rounds' = rounds /\ nonProgress' = nonProgress
           \/ rounds' = [rounds EXCEPT !.no = @ + 1] /\ nonProgress' = nonProgress + 1
    BY <1>2 DEF Misroute, Evaluate, Replan
  <2> QED BY <1>0, <2>1 DEF CountType
<1>3. CASE Unavailable \/ Delegate \/ AgentAnswers
  <2>1. /\ UNCHANGED <<nonProgress, run>> /\ delegated' \in {delegated, delegated + 1}
        /\ \/ rounds' = rounds /\ realSteps' = realSteps
           \/ rounds' = [rounds EXCEPT !.real = @ + 1] /\ realSteps' = realSteps + 1
    BY <1>3 DEF Unavailable, Delegate, Shift, AgentAnswers, Progress
  <2> QED BY <1>0, <2>1 DEF CountType
<1>4. ASSUME NEW k \in Calls, CallStep(k) PROVE CountType'
  <2>1. CASE Block(k)
    <3>1. /\ UNCHANGED <<nonProgress, run, delegated>> /\ realSteps' \in {realSteps, realSteps + 1}
          /\ rounds' \in {rounds, [rounds EXCEPT !.real = @ + 1]}
      BY <2>1 DEF Block
    <3> QED BY <1>0, <3>1 DEF CountType
  <2>2. CASE EndApproved(k)
    <3>1. /\ delegated' = delegated
          /\ \/ UNCHANGED <<rounds, realSteps, nonProgress, run>>
             \/ /\ rounds' = [rounds EXCEPT !.real = @ + 1] /\ run' = run + 1
                /\ realSteps' = rounds'.real /\ nonProgress' = rounds'.no
      BY <2>2 DEF EndApproved, NewRun, ResumedRounds
    <3>2. rounds' \in R
      BY <1>0, <3>1
    <3>3. rounds'.real \in Nat /\ rounds'.no \in Nat
      BY <3>2
    <3> QED BY <3>1, <3>2, <3>3 DEF CountType
  <2>3. CASE ~Block(k) /\ ~EndApproved(k)
    <3>1. UNCHANGED <<rounds, realSteps, nonProgress, run, delegated>>
      BY <1>4, <2>3 DEF CallStep, StartCall, PassGate, Acquire, Begin, Unreached, EndCall, TryAgain,
         AbortCall
    <3> QED BY <3>1 DEF CountType
  <2> QED BY <2>1, <2>2, <2>3
<1>5. CASE Clarified
  <2>1. /\ rounds' = rounds /\ delegated' = delegated /\ run' = run + 1
        /\ realSteps' = rounds.real /\ nonProgress' = rounds.no
    BY <1>5 DEF Clarified, NewRun
  <2> QED BY <1>0, <2>1 DEF CountType
<1>6. CASE Refuse \/ Approve \/ Stop \/ Poll \/ UNCHANGED vars
  <2>1. UNCHANGED <<rounds, realSteps, nonProgress, run, delegated>>
    BY <1>6 DEF Refuse, Approve, Stop, Poll, vars
  <2> QED BY <2>1 DEF CountType
<1> QED BY <1>1, <1>2, <1>3, <1>4, <1>5, <1>6 DEF Next, TurnStep

LEMMA ReachKept == ReachType /\ [Next]_vars => ReachType'
<1> SUFFICES ASSUME ReachType, [Next]_vars PROVE ReachType'
  OBVIOUS
<1> DEFINE R == [step : 0..MaxReactSteps, checked : BOOLEAN]
<1>0. NoLoop \in R /\ react \in R /\ react.step \in Nat
  BY TurnAssumption DEF NoLoop, ReachType
<1>1. CASE LoopTop \/ Misroute \/ Unavailable \/ Delegate \/ Evaluate \/ Synthesize \/ ToolsSettled
             \/ Cancelled
  <2>1. UNCHANGED <<pending, used, kept>> /\ react' \in {react, NoLoop}
    BY <1>1 DEF LoopTop, Misroute, Unavailable, Delegate, Evaluate, Synthesize, ToolsSettled,
       Cancelled
  <2> QED BY <1>0, <2>1 DEF ReachType
<1>2. CASE Plan
  <2>1. UNCHANGED <<react, used, kept>> /\ pending' \in {pending, 0}
    BY <1>2 DEF Plan
  <2> QED BY <2>1, TurnAssumption DEF ReachType
<1>3. CASE AskForTools
  <2>1. /\ UNCHANGED <<pending, kept>> /\ react' = [react EXCEPT !.step = @ + 1]
        /\ react.step < MaxReactSteps
        /\ \E n \in 1..MaxBatch : used + n <= MaxCalls /\ used' = used + n
    BY <1>3 DEF AskForTools
  <2>2. used' \in 0..MaxCalls
    BY <2>1, TurnAssumption DEF ReachType
  <2>3. react' \in R
    BY <1>0, <2>1, TurnAssumption
  <2> QED BY <2>1, <2>2, <2>3 DEF ReachType
<1>4. CASE SelfCheck
  <2>1. /\ UNCHANGED <<pending, used, kept>> /\ react' = [step |-> react.step + 1, checked |-> TRUE]
        /\ react.step + 1 < MaxReactSteps
    BY <1>4 DEF SelfCheck
  <2>2. react' \in R
    BY <1>0, <2>1, TurnAssumption
  <2> QED BY <2>1, <2>2 DEF ReachType
<1>5. CASE AgentAnswers
  <2>1. UNCHANGED <<pending, used>> /\ react' = NoLoop /\ kept' \in {kept \cup MadeBy(delegated), kept}
    BY <1>5 DEF AgentAnswers
  <2> QED BY <1>0, <2>1 DEF ReachType, MadeBy
<1>6. ASSUME NEW k \in Calls, CallStep(k) PROVE ReachType'
  <2>1. /\ used' = used /\ react' \in {react, NoLoop} /\ pending' \in {pending, k}
        /\ kept' \in {kept, kept \cup MadeBy(delegated), {}}
    BY <1>6 DEF CallStep, StartCall, PassGate, Block, Acquire, Begin, Unreached, EndCall, TryAgain,
       AbortCall, EndApproved, NewRun
  <2> QED BY <1>0, <2>1, TurnAssumption DEF ReachType, MadeBy, Calls
<1>7. CASE Refuse \/ Clarified \/ Approve \/ Stop \/ Poll \/ UNCHANGED vars
  <2>1. UNCHANGED <<pending, react, used>> /\ kept' \in {kept, {}}
    BY <1>7 DEF Refuse, Clarified, NewRun, Approve, Stop, Poll, vars
  <2> QED BY <2>1 DEF ReachType
<1> QED BY <1>1, <1>2, <1>3, <1>4, <1>5, <1>6, <1>7 DEF Next, TurnStep

LEMMA TurnKept == TurnType /\ [Next]_vars => TurnType'
  BY PlaceKept, FlagKept, CountKept, ReachKept DEF TurnType

\* A call that moves on keeps its type.
LEMMA SetType ==
  ASSUME call \in [Calls -> Call], NEW k \in Calls, NEW st \in States, Set(k, st)
  PROVE  call' \in [Calls -> Call]
BY DEF Set, Call

\* The calls an answer asks for have theirs.
LEMMA AskType ==
  ASSUME TurnType, call \in [Calls -> Call], AskForTools
  PROVE  call' \in [Calls -> Call]
<1>1. PICK n \in 1..MaxBatch :
        /\ used + n <= MaxCalls
        /\ \E s \in [used + 1 .. used + n -> Signatures] :
             call' = [k \in Calls |->
                        IF k \in DOMAIN s
                        THEN [sig |-> s[k], st |-> "start", tries |-> 1, first |-> used + 1,
                              of |-> delegated, run |-> run]
                        ELSE call[k]]
  BY DEF AskForTools
<1>2. PICK s \in [used + 1 .. used + n -> Signatures] :
        call' = [k \in Calls |->
                   IF k \in DOMAIN s
                   THEN [sig |-> s[k], st |-> "start", tries |-> 1, first |-> used + 1,
                         of |-> delegated, run |-> run]
                   ELSE call[k]]
  BY <1>1
<1>3. /\ used \in Nat /\ used + 1 \in 0..MaxCalls /\ 1 \in 0..MaxTries
      /\ delegated \in Nat /\ run \in Nat /\ "start" \in States
  BY <1>1, TurnAssumption DEF TurnType, ReachType, CountType, States
<1>4. ASSUME NEW k \in Calls, k \in DOMAIN s
      PROVE  [sig |-> s[k], st |-> "start", tries |-> 1, first |-> used + 1,
              of |-> delegated, run |-> run] \in Call
  <2>1. s[k] \in Signatures
    BY <1>2, <1>4
  <2> QED BY <1>3, <2>1 DEF Call
<1> QED BY <1>2, <1>4

LEMMA CallType ==
  TurnType /\ call \in [Calls -> Call] /\ [Next]_vars => call' \in [Calls -> Call]
<1> SUFFICES ASSUME TurnType, call \in [Calls -> Call], [Next]_vars
             PROVE  call' \in [Calls -> Call]
  OBVIOUS
<1>0. {"gate", "short", "approval", "reused", "blocked", "call", "again", "gone", "error", "ok"}
        \subseteq States
  BY DEF States, Settled, Recorded
<1>1. CASE TurnStep
  BY <1>1, AskType
     DEF TurnStep, LoopTop, Plan, Misroute, Unavailable, Delegate, Evaluate, Synthesize,
         SelfCheck, AgentAnswers, ToolsSettled, Cancelled
<1>2. ASSUME NEW k \in Calls, CallStep(k) PROVE call' \in [Calls -> Call]
  <2>1. CASE \E st \in States : Set(k, st)
    BY <2>1, SetType
  <2>2. CASE /\ call[k].tries < MaxTries
             /\ call' = [call EXCEPT ![k].st = "again", ![k].tries = @ + 1]
    <3>1. call[k] \in Call /\ "again" \in States
      BY <1>0
    <3>2. call[k].tries + 1 \in 0..MaxTries
      BY <2>2, <3>1, TurnAssumption DEF Call
    <3>3. [call[k] EXCEPT !.st = "again", !.tries = @ + 1] \in Call
      BY <3>1, <3>2 DEF Call
    <3> QED BY <2>2, <3>3
  <2>3. \/ \E st \in States : Set(k, st)
        \/ /\ call[k].tries < MaxTries
           /\ call' = [call EXCEPT ![k].st = "again", ![k].tries = @ + 1]
        \/ UNCHANGED call
    BY <1>0, <1>2
       DEF CallStep, StartCall, PassGate, Track, Block, Acquire, Begin, Unreached, EndCall,
           TryAgain, AbortCall, EndApproved
  <2> QED BY <2>1, <2>2, <2>3
<1>3. CASE Approve
  <2>1. pending \in Calls
    BY <1>3, TurnAssumption DEF Approve, Calls, TurnType, ReachType
  <2> QED BY <1>0, <1>3, <2>1, SetType DEF Approve
<1>4. CASE Refuse \/ Clarified \/ Stop \/ Poll \/ UNCHANGED vars
  BY <1>4 DEF Refuse, Clarified, Stop, Poll, vars
<1> QED BY <1>1, <1>2, <1>3, <1>4 DEF Next

\* Every variable keeps its type.
THEOREM TypeCorrect == Spec => []TypeOK
<1> DEFINE T == TurnType /\ call \in [Calls -> Call] /\ steps \in Seq(BOOLEAN)
<1>1. Init => T
  <2> SUFFICES ASSUME Init PROVE T
    OBVIOUS
  <2> USE TurnAssumption DEF Init
  <2>1. NoCall \in Call
    BY DEF NoCall, Call, States
  <2>2. call \in [Calls -> Call] /\ steps \in Seq(BOOLEAN)
    BY <2>1, EmptySeq
  <2>3. TurnType
    <3>1. PlaceType /\ FlagType
      BY DEF PlaceType, FlagType, Running
    <3>2. CountType
      BY DEF CountType
    <3>3. ReachType
      BY DEF ReachType, NoLoop
    <3> QED BY <3>1, <3>2, <3>3 DEF TurnType
  <2> QED BY <2>2, <2>3
<1>2. T /\ [Next]_vars => T'
  <2> SUFFICES ASSUME T, [Next]_vars PROVE T'
    OBVIOUS
  <2> QED BY TurnKept, CallType, StepsType
<1>3. T /\ SlotInv => TypeOK
  BY DEF TurnType, PlaceType, FlagType, CountType, ReachType, SlotInv, TypeOK
<1> HIDE DEF T
<1> QED BY <1>1, <1>2, <1>3, SlotInvariance, PTL DEF Spec

\* The provider never gets more calls at a time than it may, and no slot is lost
\* or left unused while somebody waits, whatever is aborted or outlives its turn
\* (acquire(), release(), onAbort()).
THEOREM SlotsKept == Spec => []SlotsAreKept
<1>1. SlotInv /\ TypeOK => SlotsAreKept
  <2> SUFFICES ASSUME SlotInv, TypeOK PROVE WithinLimit /\ NoSlotLost
    BY DEF SlotsAreKept
  <2>1. active \in Nat
    BY DEF SlotInv, L!TypeOK
  <2>2. L!Cardinality(L!Holders) = Cardinality(L!Holders)
    BY DEF L!Cardinality, Cardinality
  <2> QED
    BY <2>1, <2>2, TurnAssumption DEF SlotInv, WithinLimit, NoSlotLost, L!WithinLimit, L!NoSlotLost
<1> QED BY <1>1, SlotInvariance, TypeCorrect, PTL

-----------------------------------------------------------------------------
(* A call is made once a run.  The repeat guard looks at the calls that    *)
(* went through it, which tells nothing of one that is still on its way:   *)
(* that the same call of the batch has settled is what run() waits for,    *)
(* and one of an earlier batch has, or there would be no later batch.      *)

Made == {"call", "again", "ok", "error"}
Same(j, k) == call[j].run = call[k].run /\ call[j].sig = call[k].sig

\* The calls a model asked for, batch by batch.
Asked ==
  \A k \in Calls :
    /\ k > used => call[k].st = "unused"
    /\ k <= used => /\ call[k].sig \in Signatures /\ call[k].st # "unused"
                    /\ call[k].first >= 1 /\ call[k].first <= k /\ call[k].run <= run
Batches ==
  \A j, k \in 1..used :
    /\ j <= k => call[j].first <= call[k].first
    /\ call[j].first = call[k].first => call[j].run = call[k].run
\* Who is at the limiter is being called.
Linked == \A k \in Calls : slot[k] \in {"waiting", "granted", "running"} => call[k].st = "call"
\* What was waited for has settled: the same call before, and the batches before.
Waited ==
  \A j, k \in 1..used :
    /\ /\ j < k /\ call[j].first = call[k].first /\ call[j].sig = call[k].sig
       /\ call[k].sig \notin Risky /\ call[k].st # "start"
       => call[j].st \in Settled
    /\ call[j].run = call[k].run /\ call[j].first < call[k].first => call[j].st \in Recorded
\* A destructive call is made when it is approved.
RiskyOnly ==
  \A k \in 1..used :
    call[k].sig \in Risky => call[k].st \in {"start", "gate", "approval", "call", "ok", "error"}
RiskyOnce ==
  \A j, k \in 1..used :
    /\ {call[j].sig, call[k].sig} \subseteq Risky /\ call[j].run = call[k].run
    /\ {call[j].st, call[k].st} \subseteq Made
    => j = k
\* The others are made once, and turned down when that one failed.
OthersOnce ==
  \A j, k \in 1..used :
    Same(j, k) /\ call[k].sig \notin Risky /\ {call[j].st, call[k].st} \subseteq Made => j = k
Failed ==
  \A j, k \in 1..used :
    Same(j, k) /\ j # k /\ call[k].st = "blocked" => call[j].st \notin {"ok", "call", "again"}

CallsInv ==
  Asked /\ Batches /\ Linked /\ Waited /\ RiskyOnly /\ RiskyOnce /\ OthersOnce /\ Failed

\* What the place of the turn says of its calls.
PhaseInv ==
  /\ pc = "tools" => used >= 1 /\ call[used].run = run
  /\ pc \in Running \ {"tools"} =>
       \A k \in 1..used : call[k].run = run => call[k].st \in Recorded
  /\ pc \in {"paused", "approved"} /\ pending # 0 =>
       /\ pending \in 1..used /\ call[pending].sig \in Risky /\ call[pending].run = run
       /\ call[pending].st = IF pc = "paused" THEN "approval" ELSE "call"
  /\ pc = "approved" => pending # 0
  /\ \A k \in 1..used : call[k].sig \in Risky /\ call[k].st \in Made =>
       \/ call[k].run < run \/ pc = "over"
       \/ pc = "approved" /\ k = pending
  /\ \A k \in 1..used : call[k].sig \in Risky /\ call[k].st = "call" =>
       pc = "approved" /\ k = pending

\* A new run starts with no calls of its own; the calls themselves stay.
LEMMA SameCalls ==
  ASSUME CallsInv, UNCHANGED <<call, used, slot>>, run' >= run, run \in Nat, run' \in Nat,
         \A k \in Calls : call[k].run \in Nat, used \in Nat, used <= MaxCalls
  PROVE  CallsInv'
<1>1. Asked'
  BY TurnAssumption DEF CallsInv, Asked, Calls
<1>2. Batches' /\ Linked' /\ Waited'
  BY DEF CallsInv, Batches, Linked, Waited
<1>3. RiskyOnly' /\ RiskyOnce' /\ OthersOnce' /\ Failed'
  BY DEF CallsInv, RiskyOnly, RiskyOnce, OthersOnce, Failed, Same
<1> QED BY <1>1, <1>2, <1>3 DEF CallsInv

\* Only the state of call k moves.
Moves(k) ==
  /\ used' = used
  /\ \A j \in Calls :
       /\ call'[j].sig = call[j].sig /\ call'[j].first = call[j].first
       /\ call'[j].run = call[j].run
       /\ j # k => call'[j].st = call[j].st

\* Where a call may go from where.
Allowed(k) ==
  /\ call[k].st \notin Recorded \cup {"unused", "gone"} /\ call'[k].st # "unused"
  /\ call[k].st = "approval" => call[k].sig \in Risky
  /\ call[k].st = "start" => Ordered(k)
  /\ call[k].sig \in Risky =>
       /\ call'[k].st \in {"start", "gate", "approval", "call", "ok", "error"}
       /\ call'[k].st \in Made /\ call[k].st # "call" =>
            \A j \in 1..used : /\ j # k /\ call[j].sig \in Risky /\ call[j].run = call[k].run
                               => call[j].st \notin Made
  /\ call[k].sig \notin Risky =>
       /\ call'[k].st \in Made => call[k].st \in {"call", "again"} \/ SameBefore(k) = {}
       /\ call'[k].st = "blocked" => call[k].st \in {"start", "gate"} /\ ~Cached(k)

LEMMA MoveCall ==
  ASSUME CallsInv, NEW k \in 1..used, Moves(k), Allowed(k),
         run' >= run, run \in Nat, run' \in Nat, used \in Nat, used <= MaxCalls,
         \A j \in Calls : call[j].run \in Nat /\ call[j].first \in Nat
  PROVE  /\ Asked' /\ Batches' /\ Waited' /\ RiskyOnly' /\ RiskyOnce' /\ OthersOnce' /\ Failed'
<1> USE TurnAssumption DEF Calls
<1>0. \A j \in 1..used : j \in Calls
  OBVIOUS
<1>1. Asked'
  BY DEF CallsInv, Asked, Moves, Allowed
<1>2. Batches'
  BY <1>0 DEF CallsInv, Batches, Moves
<1>3. Waited'
  <2> SUFFICES ASSUME NEW j \in 1..used, NEW i \in 1..used
      PROVE  /\ /\ j < i /\ call'[j].first = call'[i].first /\ call'[j].sig = call'[i].sig
                /\ call'[i].sig \notin Risky /\ call'[i].st # "start"
                => call'[j].st \in Settled
             /\ call'[j].run = call'[i].run /\ call'[j].first < call'[i].first
                => call'[j].st \in Recorded
    BY DEF Waited, Moves
  <2>0. /\ j \in Calls /\ i \in Calls
        /\ call'[j].sig = call[j].sig /\ call'[j].first = call[j].first /\ call'[j].run = call[j].run
        /\ call'[i].sig = call[i].sig /\ call'[i].first = call[i].first /\ call'[i].run = call[i].run
        /\ j # k => call'[j].st = call[j].st
        /\ i # k => call'[i].st = call[i].st
    BY <1>0 DEF Moves
  <2>1. call[j].run = call[i].run /\ call[j].first < call[i].first => call'[j].st \in Recorded
    BY <2>0 DEF CallsInv, Waited, Allowed
  <2>2. ASSUME j < i, call[j].first = call[i].first, call[j].sig = call[i].sig,
               call[i].sig \notin Risky, call'[i].st # "start"
        PROVE  call'[j].st \in Settled
    <3>1. call[j].st \in Settled
      <4>1. CASE call[i].st # "start"
        BY <2>2, <4>1 DEF CallsInv, Waited
      <4>2. CASE call[i].st = "start"
        <5>1. i = k /\ Ordered(i)
          BY <2>0, <2>2, <4>2 DEF Allowed
        <5> QED BY <2>0, <2>2, <5>1 DEF Ordered, Batch
      <4> QED BY <4>1, <4>2
    <3>2. CASE j # k
      BY <2>0, <3>1, <3>2
    <3>3. j # k
      BY <2>2, <3>1 DEF Allowed, Settled
    <3> QED BY <3>2, <3>3
  <2> QED BY <2>0, <2>1, <2>2
<1>4. RiskyOnly'
  BY <1>0 DEF CallsInv, RiskyOnly, Moves, Allowed
<1>5. RiskyOnce'
  <2> SUFFICES ASSUME NEW j \in 1..used, NEW i \in 1..used,
                      {call'[j].sig, call'[i].sig} \subseteq Risky, call'[j].run = call'[i].run,
                      {call'[j].st, call'[i].st} \subseteq Made, j # i
               PROVE  FALSE
    BY DEF RiskyOnce, Moves
  <2>1. /\ call[j].sig \in Risky /\ call[i].sig \in Risky /\ call[j].run = call[i].run
        /\ j # k => call[j].st \in Made
        /\ i # k => call[i].st \in Made
    BY <1>0 DEF Moves
  <2>2. ~(call[j].st \in Made /\ call[i].st \in Made)
    BY <2>1 DEF CallsInv, RiskyOnce
  <2>3. call[k].st \notin Made /\ (j = k \/ i = k)
    BY <2>1, <2>2
  <2>4. call[k].st # "call"
    BY <2>3 DEF Made
  <2> QED BY <2>1, <2>3, <2>4 DEF Allowed
<1>6. OthersOnce'
  <2> SUFFICES ASSUME NEW j \in 1..used, NEW i \in 1..used,
                      call'[j].run = call'[i].run, call'[j].sig = call'[i].sig,
                      call'[i].sig \notin Risky,
                      call'[j].st \in Made, call'[i].st \in Made, j # i
               PROVE  FALSE
    BY DEF OthersOnce, Same, Moves
  <2>1. /\ call[j].sig = call[i].sig /\ call[i].sig \notin Risky /\ call[j].run = call[i].run
        /\ j # k => call[j].st \in Made
        /\ i # k => call[i].st \in Made
        /\ j \in Calls /\ i \in Calls
    BY <1>0 DEF Moves
  <2>2. ~(call[j].st \in Made /\ call[i].st \in Made)
    BY <2>1 DEF CallsInv, OthersOnce, Same
  <2>3. call[k].st \notin Made /\ (j = k \/ i = k)
    BY <2>1, <2>2
  <2>4. SameBefore(k) = {}
    BY <2>1, <2>3 DEF Allowed, Made
  <2>5. Made \subseteq Tracked
    BY DEF Made, Tracked
  <2> QED BY <2>1, <2>3, <2>4, <2>5 DEF SameBefore
<1>7. Failed'
  <2> SUFFICES ASSUME NEW j \in 1..used, NEW i \in 1..used,
                      call'[j].run = call'[i].run, call'[j].sig = call'[i].sig, j # i,
                      call'[i].st = "blocked", call'[j].st \in {"ok", "call", "again"}
               PROVE  FALSE
    BY DEF Failed, Same, Moves
  <2>1. /\ call[j].sig = call[i].sig /\ call[j].run = call[i].run
        /\ j # k => call'[j].st = call[j].st
        /\ i # k => call'[i].st = call[i].st
        /\ call'[i].sig = call[i].sig
        /\ j \in Calls /\ i \in Calls
    BY <1>0 DEF Moves
  <2>2. call[i].sig \notin Risky
    BY <2>1, <1>4 DEF RiskyOnly, Moves
  <2>3. CASE i # k /\ j # k
    BY <2>1, <2>3 DEF CallsInv, Failed, Same
  <2>4. CASE j = k
    <3>1. call[i].st = "blocked" /\ call[k].st \notin {"ok", "call", "again"}
      BY <2>1, <2>4 DEF CallsInv, Failed, Same
    <3>2. SameBefore(k) = {}
      BY <2>1, <2>2, <2>4, <3>1 DEF Allowed, Made
    <3>3. i \in SameBefore(k)
      BY <2>1, <2>4, <3>1 DEF SameBefore, Tracked
    <3> QED BY <3>2, <3>3
  <2>5. CASE i = k
    <3>1. /\ call[k].st \in {"start", "gate"} /\ ~Cached(k) /\ (call[k].st = "start" => Ordered(k))
          /\ call[j].st \in {"ok", "call", "again"}
      BY <2>1, <2>2, <2>5 DEF Allowed
    <3>2. call[j].st # "ok"
      BY <2>1, <2>5, <3>1 DEF Cached, SameBefore, Tracked
    <3>3. call[j].st \notin Settled
      BY <3>1, <3>2 DEF Settled, Recorded
    <3>4. call[j].first = call[k].first
      <4>1. call[j].first \in Nat /\ call[k].first \in Nat
        BY <2>1, <2>5
      <4>2. ~(call[j].first < call[k].first)
        BY <2>1, <2>5, <3>3 DEF CallsInv, Waited, Settled
      <4>3. ~(call[k].first < call[j].first)
        BY <2>1, <2>5, <3>1 DEF CallsInv, Waited, Recorded
      <4> QED BY <4>1, <4>2, <4>3
    <3>5. CASE j < k
      <4>1. CASE call[k].st = "start"
        BY <2>1, <2>5, <3>1, <3>3, <3>4, <3>5, <4>1 DEF Ordered, Batch
      <4>2. CASE call[k].st # "start"
        BY <2>1, <2>2, <2>5, <3>3, <3>4, <3>5, <4>2 DEF CallsInv, Waited
      <4> QED BY <4>1, <4>2
    <3>6. CASE k < j
      <4>1. call[k].st \in Settled
        BY <2>1, <2>2, <2>5, <3>1, <3>4, <3>6 DEF CallsInv, Waited
      <4> QED BY <3>1, <4>1 DEF Settled, Recorded
    <3> QED BY <2>5, <3>5, <3>6
  <2> QED BY <2>3, <2>4, <2>5
<1> QED BY <1>1, <1>2, <1>3, <1>4, <1>5, <1>6, <1>7

LEMMA SetMoves ==
  ASSUME call \in [Calls -> Call], NEW k \in Calls, NEW st, Set(k, st), used' = used
  PROVE  Moves(k) /\ call'[k].st = st
BY DEF Set, Moves, Call

\* The steps of the limiter bring only k to it, or along.
LEMMA LimiterMoves ==
  ASSUME SlotInv, NEW k \in Calls,
         \/ L!Acquire(k) \/ L!Reject(k) \/ L!Abort(k) \/ L!Begin(k) \/ L!Release(k) \/ L!Again(k)
  PROVE  \A j \in Calls :
           slot'[j] \in {"waiting", "granted", "running"} =>
             \/ j # k /\ slot[j] \in {"waiting", "granted", "running"}
             \/ j = k /\ (L!Acquire(k) \/ L!Begin(k))
<1> USE DEF SlotInv, L!TypeOK, L!Points
<1>1. CASE L!Acquire(k) \/ L!Reject(k) \/ L!Abort(k) \/ L!Begin(k) \/ L!Again(k)
  BY <1>1 DEF L!Acquire, L!Reject, L!Abort, L!Begin, L!Again
<1>2. CASE L!Release(k)
  <2>1. CASE waiting = <<>>
    BY <1>2, <2>1 DEF L!Release
  <2>2. CASE waiting # <<>>
    <3>1. Head(waiting) = waiting[1] /\ 1 \in 1..Len(waiting) /\ Head(waiting) \in Calls
      BY <2>2
    <3>2. slot[Head(waiting)] = "waiting"
      BY <3>1 DEF InQueue
    <3>3. slot' = [slot EXCEPT ![k] = "over", ![Head(waiting)] = "granted"] /\ slot[k] = "running"
      BY <1>2, <2>2 DEF L!Release
    <3> QED BY <3>1, <3>2, <3>3
  <2> QED BY <2>1, <2>2
<1> QED BY <1>1, <1>2

\* A call that moves, but for those approved, leaves the place of the turn as it is.
LEMMA MovePhase ==
  ASSUME PhaseInv, NEW k \in 1..used, Moves(k), UNCHANGED <<pc, run, pending>>,
         used \in Nat, used <= MaxCalls,
         call[k].st \notin Recorded \cup {"approval"}, ~Approved(k),
         call[k].sig \in Risky => call'[k].st \notin Made
  PROVE  PhaseInv'
<1>0. \A j \in 1..used : j \in Calls
  BY TurnAssumption DEF Calls
<1>1. pc = "tools" => used' >= 1 /\ call'[used'].run = run
  <2>1. pc = "tools" => used >= 1 /\ used \in Calls /\ call[used].run = run
    BY DEF PhaseInv, Calls
  <2> QED BY <2>1 DEF Moves
<1>2. pc \in Running \ {"tools"} =>
        \A j \in 1..used : call'[j].run = run => call'[j].st \in Recorded
  BY <1>0 DEF PhaseInv, Moves
<1>3. pc \in {"paused", "approved"} /\ pending # 0 =>
        /\ pending \in 1..used /\ call'[pending].sig \in Risky /\ call'[pending].run = run
        /\ call'[pending].st = IF pc = "paused" THEN "approval" ELSE "call"
  BY <1>0 DEF PhaseInv, Moves, Approved
<1>4. \A j \in 1..used : call'[j].sig \in Risky /\ call'[j].st \in Made =>
        /\ j # k /\ call[j].sig \in Risky /\ call[j].st = call'[j].st /\ call'[j].run = call[j].run
  BY <1>0 DEF Moves
<1>5. \A j \in 1..used : call'[j].sig \in Risky /\ call'[j].st \in Made =>
        call'[j].run < run \/ pc = "over" \/ (pc = "approved" /\ j = pending)
  BY <1>4 DEF PhaseInv
<1>6. \A j \in 1..used : call'[j].sig \in Risky /\ call'[j].st = "call" =>
        pc = "approved" /\ j = pending
  BY <1>4 DEF PhaseInv, Made
<1> QED BY <1>1, <1>2, <1>3, <1>5, <1>6 DEF PhaseInv, Moves

\* What is known of a state.
Known == TypeOK /\ SlotInv /\ CallsInv /\ PhaseInv

LEMMA KnownTypes ==
  ASSUME Known
  PROVE  /\ call \in [Calls -> Call] /\ used \in Nat /\ used <= MaxCalls /\ run \in Nat
         /\ \A k \in Calls : call[k].run \in Nat /\ call[k].first \in Nat
         /\ 1..used \subseteq Calls
         /\ \A k \in Calls : call[k].st # "unused" => k \in 1..used
<1>1. call \in [Calls -> Call] /\ used \in Nat /\ used <= MaxCalls /\ run \in Nat
  BY TurnAssumption DEF Known, TypeOK
<1>2. \A k \in Calls : call[k].run \in Nat /\ call[k].first \in Nat
  BY <1>1, TurnAssumption DEF Call
<1>3. 1..used \subseteq Calls
  BY <1>1, TurnAssumption DEF Calls
<1>4. \A k \in Calls : call[k].st # "unused" => k \in 1..used
  BY <1>1 DEF Known, CallsInv, Asked, Calls
<1> QED BY <1>1, <1>2, <1>3, <1>4

\* The repeat guard.
LEMMA TrackMoves ==
  ASSUME MaxRepeats <= 1, Known, NEW k \in Calls, Track(k)
  PROVE  \/ Set(k, "reused")
         \/ Set(k, "blocked") /\ ~Cached(k)
         \/ Set(k, "call") /\ SameBefore(k) = {}
<1>1. IsFiniteSet(Calls)
  BY FS_Interval, TurnAssumption DEF Calls
<1>2. IsFiniteSet(SameBefore(k))
  <2>1. SameBefore(k) \subseteq Calls
    BY DEF SameBefore
  <2> QED BY <1>1, <2>1, FS_Subset
<1>3. ~TooOften(k) => SameBefore(k) = {}
  <2>1. Cardinality(SameBefore(k)) \in Nat
    BY <1>2, FS_CardinalityType
  <2>2. ~TooOften(k) => Cardinality(SameBefore(k)) = 0
    BY <2>1, TurnAssumption DEF TooOften
  <2> QED BY <1>2, <2>2, FS_EmptySet
<1> QED BY <1>3 DEF Track

\* One move of a call that keeps everything.
LEMMA QuietMove ==
  ASSUME Known, NEW k \in Calls, Moves(k), Allowed(k), Linked', UNCHANGED <<pc, run, pending>>,
         call[k].st # "approval", ~Approved(k),
         call[k].sig \in Risky => call'[k].st \notin Made
  PROVE  CallsInv' /\ PhaseInv'
<1>1. k \in 1..used
  BY KnownTypes DEF Allowed
<1>2. CallsInv'
  BY <1>1, MoveCall, KnownTypes DEF Known, CallsInv
<1>3. PhaseInv'
  BY <1>1, MovePhase, KnownTypes DEF Known, Allowed
<1> QED BY <1>2, <1>3

-----------------------------------------------------------------------------
(* The steps of a call.                                                    *)

\* A step that sets the state of a call whose slot is not, or no longer, in use.
LEMMA SetLinks ==
  ASSUME Known, NEW k \in Calls, Moves(k),
         slot'[k] \notin {"waiting", "granted", "running"},
         \A j \in Calls : j # k /\ slot'[j] \in {"waiting", "granted", "running"}
                            => slot[j] \in {"waiting", "granted", "running"}
  PROVE  Linked'
BY DEF Known, CallsInv, Linked, Moves

LEMMA StartKeeps ==
  ASSUME MaxRepeats <= 1, Known, NEW k \in Calls, StartCall(k) \/ PassGate(k)
  PROVE  CallsInv' /\ PhaseInv'
<1>1. /\ call[k].st \in {"start", "gate"} /\ (call[k].st = "start" => Ordered(k))
      /\ call[k].sig \in Risky => Set(k, "gate")
      /\ call[k].sig \notin Risky => Set(k, "gate") \/ Set(k, "short") \/ Track(k)
      /\ UNCHANGED <<pc, run, pending, used, slot>>
  <2>1. CASE StartCall(k)
    BY <2>1, TurnAssumption DEF StartCall, limit
  <2>2. CASE PassGate(k)
    BY <2>2, TurnAssumption DEF PassGate, limit
  <2> QED BY <2>1, <2>2
<1>2. PICK st \in {"gate", "short", "reused", "blocked", "call"} :
        /\ Set(k, st)
        /\ call[k].sig \in Risky => st = "gate"
        /\ st = "blocked" => ~Cached(k)
        /\ st = "call" => SameBefore(k) = {}
  BY <1>1, TrackMoves
<1>3. Moves(k) /\ call'[k].st = st
  BY <1>1, <1>2, SetMoves, KnownTypes
<1>4. Allowed(k)
  BY <1>1, <1>2, <1>3 DEF Allowed, Recorded, Made
<1>5. Linked'
  BY <1>1, <1>3, SetLinks DEF Known, CallsInv, Linked
<1>6. ~Approved(k)
  BY <1>1 DEF Approved, Known, PhaseInv
<1> QED BY <1>1, <1>2, <1>3, <1>4, <1>5, <1>6, QuietMove DEF Made

LEMMA BlockKeeps ==
  ASSUME Known, NEW k \in Calls, Block(k)
  PROVE  CallsInv' /\ PhaseInv'
<1>1. /\ call[k].st = "gate" /\ call[k].sig \in Risky /\ Set(k, "approval")
      /\ UNCHANGED <<run, used, slot>>
  BY DEF Block, limit
<1>2. Moves(k) /\ call'[k].st = "approval"
  BY <1>1, SetMoves, KnownTypes
<1>3. Allowed(k)
  BY <1>1, <1>2 DEF Allowed, Recorded, Made
<1>4. Linked'
  BY <1>1, <1>2, SetLinks DEF Known, CallsInv, Linked
<1>5. ~Approved(k)
  BY <1>1 DEF Approved, Known, PhaseInv
<1>6. CASE UNCHANGED <<pc, pending>>
  BY <1>1, <1>2, <1>3, <1>4, <1>5, <1>6, QuietMove DEF Made
<1>7. CASE Awaited(k) /\ pending' = k /\ pc' \in {"paused", "over"}
  <2>1. k \in 1..used
    BY <1>1, KnownTypes
  <2>2. CallsInv'
    BY <1>1, <1>2, <1>3, <1>4, <2>1, MoveCall, KnownTypes DEF Known, CallsInv
  <2>3. call[k].run = run
    <3>1. pc = "tools" /\ used \in 1..used /\ call[used].run = run /\ call[k].first = call[used].first
      BY <1>7, KnownTypes DEF Awaited, Batch, Known, PhaseInv
    <3> QED BY <2>1, <3>1 DEF Known, CallsInv, Batches
  <2>4. \A j \in 1..used : call'[j].sig \in Risky /\ call'[j].st \in Made =>
          /\ call'[j].run < run /\ call'[j].st # "call"
    <3> SUFFICES ASSUME NEW j \in 1..used, call'[j].sig \in Risky, call'[j].st \in Made
                 PROVE  call'[j].run < run /\ call'[j].st # "call"
      OBVIOUS
    <3>1. j # k /\ j \in Calls
      BY <1>2, KnownTypes DEF Made
    <3>2. call[j].sig \in Risky /\ call'[j].st = call[j].st /\ call'[j].run = call[j].run
      BY <1>2, <3>1 DEF Moves
    <3>3. pc = "tools"
      BY <1>7 DEF Awaited
    <3> QED BY <3>2, <3>3 DEF Known, PhaseInv
  <2>5. call'[k].sig \in Risky /\ call'[k].run = run
    BY <1>1, <1>2, <2>3 DEF Moves
  <2>6. pending' \in 1..used' /\ call'[pending'].st = "approval"
    BY <1>1, <1>2, <1>7, <2>1
  <2>7. \A j \in 1..used' : call'[j].sig \in Risky /\ call'[j].st \in Made =>
          /\ call'[j].run < run' /\ call'[j].st # "call"
    BY <1>1, <2>4
  <2>8. PhaseInv'
    BY <1>1, <1>7, <2>5, <2>6, <2>7 DEF PhaseInv, Running, Made
  <2> QED BY <2>2, <2>8
<1> QED BY <1>6, <1>7 DEF Block, Goto, Over

\* A destructive call that is being made is the approved one.
LEMMA RiskyApproved ==
  ASSUME Known, NEW k \in Calls, call[k].st = "call", ~Approved(k)
  PROVE  call[k].sig \notin Risky /\ k \in 1..used
BY KnownTypes DEF Approved, Known, PhaseInv

LEMMA ReachKeeps ==
  ASSUME Known, NEW k \in Calls,
         Acquire(k) \/ Begin(k) \/ Unreached(k) \/ EndCall(k) \/ TryAgain(k) \/ AbortCall(k)
  PROVE  CallsInv' /\ PhaseInv'
<1>0. /\ UNCHANGED <<pc, run, pending, used>>
      /\ \A j \in Calls : slot[j] \in {"waiting", "granted", "running"} => call[j].st = "call"
      /\ slot \in [Calls -> L!Points]
  BY DEF Acquire, Begin, Unreached, EndCall, TryAgain, AbortCall, Known, CallsInv, Linked, SlotInv,
     L!TypeOK
<1>1. CASE call' = call
  <2>1. /\ L!Acquire(k) \/ L!Begin(k)
        /\ call[k].st = "call"
    <3>1. CASE Acquire(k) \/ Begin(k)
      BY <1>0, <1>1, <3>1, KnownTypes DEF Acquire, Begin, L!Begin, Set, Call
    <3>2. CASE Unreached(k) \/ EndCall(k) \/ TryAgain(k) \/ AbortCall(k)
      <4>1. call'[k].st # call[k].st
        BY <1>0, <3>2, KnownTypes DEF Unreached, EndCall, TryAgain, AbortCall, L!Release, L!Abort, Set, Call
      <4> QED BY <1>1, <4>1
    <3> QED BY <3>1, <3>2
  <2>2. Linked'
    BY <1>0, <1>1, <2>1, LimiterMoves DEF Linked, Known
  <2>3. CallsInv'
    BY <1>0, <1>1, <2>2
       DEF Known, CallsInv, Asked, Batches, Waited, RiskyOnly, RiskyOnce, OthersOnce, Failed, Same
  <2>4. PhaseInv'
    BY <1>0, <1>1 DEF Known, PhaseInv
  <2> QED BY <2>3, <2>4
<1>2. CASE call' # call
  <2>1. PICK st \in {"gone", "error", "ok", "again", "call"} :
          /\ Moves(k) /\ call'[k].st = st
          /\ call[k].st \in {"call", "again"}
          /\ ~Approved(k)
    <3>1. CASE Acquire(k)
      BY <1>0, <1>2, <3>1, SetMoves, KnownTypes DEF Acquire, SignalOf, Approved
    <3>2. CASE Unreached(k)
      BY <1>0, <3>2, SetMoves, KnownTypes DEF Unreached
    <3>3. CASE EndCall(k)
      <4>1. call[k].st = "call" /\ ~Approved(k)
        BY <1>0, <3>3 DEF EndCall, L!Release
      <4>2. CASE Set(k, "ok") \/ Set(k, "error")
        BY <1>0, <4>1, <4>2, SetMoves, KnownTypes
      <4>3. CASE call' = [call EXCEPT ![k].st = "again", ![k].tries = @ + 1]
        <5>1. Moves(k) /\ call'[k].st = "again"
          BY <1>0, <4>3, KnownTypes DEF Moves, Call
        <5> QED BY <4>1, <5>1
      <4> QED BY <3>3, <4>2, <4>3 DEF EndCall
    <3>4. CASE TryAgain(k)
      <4>1. call[k].st = "again" /\ Set(k, "call")
        BY <3>4 DEF TryAgain
      <4>2. ~Approved(k)
        BY <4>1 DEF Approved, Known, PhaseInv
      <4> QED BY <1>0, <4>1, <4>2, SetMoves, KnownTypes
    <3>5. CASE AbortCall(k)
      BY <1>0, <3>5, SetMoves, KnownTypes DEF AbortCall, SignalOf, Approved
    <3>6. ~Begin(k)
      BY <1>2 DEF Begin
    <3> QED BY <3>1, <3>2, <3>3, <3>4, <3>5, <3>6
  <2>2. k \in 1..used /\ call[k].sig \notin Risky
    <3>1. k \in 1..used
      BY <2>1, KnownTypes
    <3>2. CASE call[k].st = "call"
      BY <2>1, <3>2, RiskyApproved
    <3>3. CASE call[k].st = "again"
      BY <3>1, <3>3 DEF Known, CallsInv, RiskyOnly
    <3> QED BY <2>1, <3>1, <3>2, <3>3
  <2>3. Allowed(k)
    BY <2>1, <2>2 DEF Allowed, Recorded, Made
  <2>4. Linked'
    <3>1. L!Reject(k) \/ L!Release(k) \/ L!Again(k) \/ L!Abort(k) \/ (AbortCall(k) /\ UNCHANGED limit)
      BY <1>2 DEF Acquire, Begin, Unreached, EndCall, TryAgain, AbortCall
    <3>2. CASE AbortCall(k) /\ UNCHANGED limit /\ call[k].st = "again"
      BY <1>0, <2>1, <3>2, SetLinks DEF limit
    <3>3. CASE L!Reject(k) \/ L!Release(k) \/ L!Again(k) \/ L!Abort(k)
      <4>1. slot'[k] \notin {"waiting", "granted", "running"}
        <5>1. CASE L!Reject(k) \/ L!Again(k) \/ L!Abort(k)
          BY <1>0, <5>1 DEF L!Reject, L!Again, L!Abort
        <5>2. CASE L!Release(k)
          <6>1. ~(L!Acquire(k) \/ L!Begin(k))
            BY <5>2 DEF L!Release, L!Acquire, L!Begin
          <6> QED BY <5>2, <6>1, LimiterMoves DEF Known
        <5> QED BY <3>3, <5>1, <5>2
      <4>2. \A j \in Calls : j # k /\ slot'[j] \in {"waiting", "granted", "running"}
                               => slot[j] \in {"waiting", "granted", "running"}
        BY <3>3, LimiterMoves DEF Known
      <4> QED BY <2>1, <4>1, <4>2, SetLinks
    <3> QED BY <3>1, <3>2, <3>3 DEF AbortCall, limit
  <2> QED BY <1>0, <2>1, <2>2, <2>3, <2>4, QuietMove
<1> QED BY <1>1, <1>2

\* The approved call, with which a new run goes on or the turn fails.
LEMMA EndApprovedKeeps ==
  ASSUME Known, NEW k \in Calls, EndApproved(k)
  PROVE  CallsInv' /\ PhaseInv'
<1>1. /\ k \in 1..used /\ call[k].sig \in Risky /\ call[k].run = run /\ call[k].st = "call"
      /\ pc = "approved" /\ k = pending /\ used' = used
  BY DEF EndApproved, Approved, Known, PhaseInv
<1>2. PICK st \in {"ok", "error"} : Set(k, st)
  BY DEF EndApproved
<1>3. Moves(k) /\ call'[k].st = st
  BY <1>1, <1>2, SetMoves, KnownTypes
<1>4. Allowed(k)
  BY <1>1, <1>3 DEF Allowed, Recorded, Made
<1>5. Linked'
  <2>1. L!Release(k) \/ L!Reject(k)
    BY DEF EndApproved
  <2>2. ~(L!Acquire(k) \/ L!Begin(k))
    BY <2>1 DEF L!Release, L!Reject, L!Acquire, L!Begin, Known, SlotInv, L!TypeOK
  <2>3. /\ slot'[k] \notin {"waiting", "granted", "running"}
        /\ \A j \in Calls : j # k /\ slot'[j] \in {"waiting", "granted", "running"}
                               => slot[j] \in {"waiting", "granted", "running"}
    BY <2>1, <2>2, LimiterMoves DEF Known
  <2> QED BY <1>3, <2>3, SetLinks
<1>6. \/ run' = run + 1 /\ pc' = "evaluate"
      \/ run' = run /\ pc' = "over"
  BY DEF EndApproved, NewRun, Goto, Over
<1>7. CallsInv'
  <2>1. run' \in Nat /\ run' >= run
    BY <1>6, KnownTypes
  <2> QED BY <1>1, <1>3, <1>4, <1>5, <2>1, MoveCall, KnownTypes DEF Known, CallsInv
<1>8. PhaseInv'
  <2>1. \A j \in 1..used' : call'[j].run = call[j].run /\ call[j].run <= run /\ call[j].run \in Nat
    <3>1. 1..used' \subseteq Calls /\ \A j \in 1..used' : call'[j].run = call[j].run
      BY <1>1, <1>3, KnownTypes DEF Moves
    <3>2. \A j \in 1..used : call[j].run <= run /\ call[j].run \in Nat
      BY KnownTypes DEF Known, CallsInv, Asked
    <3> QED BY <1>1, <3>1, <3>2
  <2>2. \A j \in 1..used' : call'[j].sig \in Risky => call'[j].st # "call"
    <3>1. \A j \in 1..used : j # k => ~(call[j].sig \in Risky /\ call[j].st = "call")
      BY <1>1 DEF Known, PhaseInv
    <3> QED BY <1>1, <1>3, <3>1, KnownTypes DEF Moves
  <2>3. CASE run' = run + 1 /\ pc' = "evaluate"
    <3>1. \A j \in 1..used' : call'[j].run < run' /\ call'[j].run # run'
      BY <2>1, <2>3, KnownTypes
    <3> QED BY <2>2, <2>3, <3>1 DEF PhaseInv, Running
  <2>4. CASE pc' = "over"
    BY <2>2, <2>4 DEF PhaseInv, Running
  <2> QED BY <1>6, <2>3, <2>4
<1> QED BY <1>7, <1>8

-----------------------------------------------------------------------------
(* The steps of the turn and the answers of the user.                      *)

\* A model asks for calls: those of this run before have all been recorded.
LEMMA AskKeeps ==
  ASSUME Known, AskForTools
  PROVE  CallsInv' /\ PhaseInv'
<1>1. PICK n \in 1..MaxBatch :
        /\ used + n <= MaxCalls /\ used' = used + n
        /\ \E s \in [used + 1 .. used + n -> Signatures] :
             call' = [k \in Calls |->
                        IF k \in DOMAIN s
                        THEN [sig |-> s[k], st |-> "start", tries |-> 1, first |-> used + 1,
                              of |-> delegated, run |-> run]
                        ELSE call[k]]
  BY DEF AskForTools
<1>2. PICK s \in [used + 1 .. used + n -> Signatures] :
        call' = [k \in Calls |->
                   IF k \in DOMAIN s
                   THEN [sig |-> s[k], st |-> "start", tries |-> 1, first |-> used + 1,
                         of |-> delegated, run |-> run]
                   ELSE call[k]]
  BY <1>1
<1>3. /\ pc = "react" /\ pc' = "tools" /\ UNCHANGED <<run, pending, slot>>
      /\ used \in Nat /\ used' \in Nat /\ used' > used /\ used' <= MaxCalls /\ run \in Nat
  BY <1>1, KnownTypes, TurnAssumption DEF AskForTools, Goto, limit
<1>4. \A k \in Calls :
        IF k > used /\ k <= used'
        THEN /\ call'[k].sig \in Signatures /\ call'[k].st = "start"
             /\ call'[k].first = used + 1 /\ call'[k].run = run
        ELSE call'[k] = call[k]
  <2> SUFFICES ASSUME NEW k \in Calls
      PROVE  IF k > used /\ k <= used'
             THEN /\ call'[k].sig \in Signatures /\ call'[k].st = "start"
                  /\ call'[k].first = used + 1 /\ call'[k].run = run
             ELSE call'[k] = call[k]
    OBVIOUS
  <2>1. k \in Nat /\ DOMAIN s = used + 1 .. used + n /\ used' = used + n /\ n \in Nat
    BY <1>1, <1>2, TurnAssumption DEF Calls
  <2>2. CASE k > used /\ k <= used'
    <3>1. k \in DOMAIN s /\ s[k] \in Signatures
      BY <1>2, <1>3, <2>1, <2>2
    <3> QED BY <1>2, <2>2, <3>1
  <2>3. CASE ~(k > used /\ k <= used')
    <3>1. k \notin DOMAIN s
      BY <1>3, <2>1, <2>3
    <3> QED BY <1>2, <2>3, <3>1
  <2> QED BY <2>2, <2>3
<1>5. \A k \in 1..used' : /\ k \in Calls /\ k \in Nat
                          /\ k <= used => k \in 1..used /\ call'[k] = call[k]
                          /\ k > used => /\ call'[k].sig \in Signatures /\ call'[k].st = "start"
                                         /\ call'[k].first = used + 1 /\ call'[k].run = run
  BY <1>3, <1>4, TurnAssumption DEF Calls
<1>6. \A k \in 1..used : call[k].first <= used /\ call[k].first \in Nat
  BY <1>3, KnownTypes DEF Known, CallsInv, Asked
<1>7. Asked'
  <2> SUFFICES ASSUME NEW k \in Calls
      PROVE  /\ k > used' => call'[k].st = "unused"
             /\ k <= used' => /\ call'[k].sig \in Signatures /\ call'[k].st # "unused"
                              /\ call'[k].first >= 1 /\ call'[k].first <= k
                              /\ call'[k].run <= run
    BY <1>3 DEF Asked
  <2>1. /\ k > used => call[k].st = "unused"
        /\ k <= used => /\ call[k].sig \in Signatures /\ call[k].st # "unused"
                        /\ call[k].first >= 1 /\ call[k].first <= k /\ call[k].run <= run
    BY DEF Known, CallsInv, Asked
  <2>2. k \in Nat
    BY TurnAssumption DEF Calls
  <2> QED BY <1>3, <1>4, <2>1, <2>2
<1>8. Batches'
  <2> SUFFICES ASSUME NEW j \in 1..used', NEW k \in 1..used'
      PROVE  /\ j <= k => call'[j].first <= call'[k].first
             /\ call'[j].first = call'[k].first => call'[j].run = call'[k].run
    BY DEF Batches
  <2>1. CASE j <= used /\ k <= used
    BY <1>5, <2>1 DEF Known, CallsInv, Batches
  <2>2. CASE j <= used /\ k > used
    BY <1>3, <1>5, <1>6, <2>2
  <2>3. CASE j > used /\ k <= used
    BY <1>3, <1>5, <1>6, <2>3
  <2>4. CASE j > used /\ k > used
    BY <1>3, <1>5, <2>4
  <2> QED BY <1>3, <1>5, <2>1, <2>2, <2>3, <2>4
<1>9. Linked'
  <2> SUFFICES ASSUME NEW k \in Calls, slot[k] \in {"waiting", "granted", "running"}
               PROVE  call'[k].st = "call"
    BY <1>3 DEF Linked
  <2>1. call[k].st = "call"
    BY DEF Known, CallsInv, Linked
  <2>2. ~(k > used)
    BY <2>1 DEF Known, CallsInv, Asked
  <2> QED BY <1>4, <2>1, <2>2
<1>10. \A k \in 1..used : call[k].run = run => call[k].st \in Recorded
  BY <1>3 DEF Known, PhaseInv, Running
<1>11. Waited'
  <2> SUFFICES ASSUME NEW j \in 1..used', NEW k \in 1..used'
      PROVE  /\ /\ j < k /\ call'[j].first = call'[k].first /\ call'[j].sig = call'[k].sig
                /\ call'[k].sig \notin Risky /\ call'[k].st # "start"
                => call'[j].st \in Settled
             /\ call'[j].run = call'[k].run /\ call'[j].first < call'[k].first
                => call'[j].st \in Recorded
    BY DEF Waited
  <2>1. CASE j <= used /\ k <= used
    BY <1>5, <2>1 DEF Known, CallsInv, Waited
  <2>2. CASE j <= used /\ k > used
    BY <1>5, <1>10, <2>2
  <2>3. CASE j > used /\ k <= used
    BY <1>3, <1>5, <1>6, <2>3
  <2>4. CASE j > used /\ k > used
    BY <1>3, <1>5, <2>4
  <2> QED BY <1>3, <1>5, <2>1, <2>2, <2>3, <2>4
<1>12. \A k \in 1..used' : call'[k].st \in Made \cup {"blocked"} => k <= used
  BY <1>3, <1>5 DEF Made
<1>13. RiskyOnly'
  <2> SUFFICES ASSUME NEW k \in 1..used', call'[k].sig \in Risky
      PROVE  call'[k].st \in {"start", "gate", "approval", "call", "ok", "error"}
    BY DEF RiskyOnly
  <2>1. CASE k <= used
    BY <1>5, <2>1 DEF Known, CallsInv, RiskyOnly
  <2>2. CASE k > used
    BY <1>5, <2>2
  <2> QED BY <1>3, <1>5, <2>1, <2>2
<1>14. RiskyOnce' /\ OthersOnce'
  BY <1>5, <1>12 DEF Known, CallsInv, RiskyOnce, OthersOnce, Same
<1>15. Failed'
  BY <1>5, <1>12 DEF Known, CallsInv, Failed, Same, Made
<1>16. PhaseInv'
  <2>1. used' >= 1 /\ call'[used'].run = run
    <3>1. used' \in 1..used' /\ used' > used
      BY <1>3
    <3> QED BY <1>5, <3>1
  <2>2. \A k \in 1..used' : call'[k].sig \in Risky /\ call'[k].st \in Made =>
          call'[k].run < run /\ call'[k].st # "call"
    <3> SUFFICES ASSUME NEW k \in 1..used', call'[k].sig \in Risky, call'[k].st \in Made
                 PROVE  call'[k].run < run /\ call'[k].st # "call"
      OBVIOUS
    <3>1. k \in 1..used /\ call'[k] = call[k]
      BY <1>5, <1>12
    <3> QED BY <1>3, <3>1 DEF Known, PhaseInv
  <2> QED BY <1>3, <2>1, <2>2 DEF PhaseInv, Running, Made
<1> QED BY <1>7, <1>8, <1>9, <1>11, <1>13, <1>14, <1>15, <1>16 DEF CallsInv

\* The other steps of the turn leave the calls alone; it goes on when they have been
\* recorded.
LEMMA TurnKeeps ==
  ASSUME Known, TurnStep, ~AskForTools
  PROVE  CallsInv' /\ PhaseInv'
<1>1. /\ UNCHANGED <<call, used, slot, run>> /\ pc \in Running
      /\ \/ pc' \in Running \ {"tools"} \/ pc' = "over"
         \/ pc' = "paused" /\ pending' = 0
      /\ pc = "tools" => ToolsSettled \/ pc' = "over"
  <2> USE DEF limit, Running, Goto, Over
  <2>1. CASE LoopTop
    BY <2>1 DEF LoopTop
  <2>2. CASE Plan \/ Evaluate
    BY <2>2 DEF Plan, Evaluate, Finalize, Replan
  <2>3. CASE Misroute \/ Unavailable \/ Delegate
    BY <2>3 DEF Misroute, Replan, Unavailable, Delegate, Shift
  <2>4. CASE Synthesize \/ SelfCheck \/ AgentAnswers \/ ToolsSettled \/ Cancelled
    BY <2>4 DEF Synthesize, SelfCheck, AgentAnswers, ToolsSettled, Cancelled
  <2> QED BY <2>1, <2>2, <2>3, <2>4 DEF TurnStep
<1>2. CallsInv'
  <2>1. run \in Nat /\ run >= run
    BY KnownTypes
  <2> QED BY <1>1, <2>1, SameCalls, KnownTypes DEF Known
<1>3. pc' \in Running \ {"tools"} =>
        \A k \in 1..used : call[k].run = run => call[k].st \in Recorded
  <2>1. CASE pc # "tools"
    BY <1>1, <2>1 DEF Known, PhaseInv
  <2>2. CASE ToolsSettled
    <3> SUFFICES ASSUME NEW k \in 1..used, call[k].run = run PROVE call[k].st \in Recorded
      OBVIOUS
    <3>1. /\ \A j \in Batch(used) : call[j].st \in Recorded
          /\ call[used].run = run /\ used \in 1..used /\ k \in Calls /\ used \in Calls
      BY <2>2, KnownTypes DEF ToolsSettled, Known, PhaseInv
    <3>2. call[k].first <= call[used].first /\ call[k].first \in Nat /\ call[used].first \in Nat
      <4>1. k <= used
        OBVIOUS
      <4> QED BY <3>1, <4>1, KnownTypes DEF Known, CallsInv, Batches
    <3>3. CASE call[k].first = call[used].first
      BY <3>1, <3>3 DEF Batch
    <3>4. CASE call[k].first < call[used].first
      BY <3>1, <3>4 DEF Known, CallsInv, Waited
    <3> QED BY <3>2, <3>3, <3>4
  <2> QED BY <1>1, <2>1, <2>2, <2>2 DEF Running
<1>4. \A k \in 1..used : call[k].sig \in Risky /\ call[k].st \in Made =>
        call[k].run < run /\ call[k].st # "call"
  BY <1>1 DEF Known, PhaseInv, Running
<1>5. PhaseInv'
  BY <1>1, <1>3, <1>4 DEF PhaseInv, Running, Made
<1> QED BY <1>2, <1>5

LEMMA UserKeeps ==
  ASSUME Known, Refuse \/ Clarified \/ Approve \/ Stop \/ Poll \/ UNCHANGED vars
  PROVE  CallsInv' /\ PhaseInv'
<1>1. CASE Stop \/ Poll \/ UNCHANGED vars
  <2>1. UNCHANGED <<pc, run, pending, call, used, slot>>
    BY <1>1 DEF Stop, Poll, vars, limit
  <2>2. CallsInv'
    BY <2>1, SameCalls, KnownTypes DEF Known
  <2>3. PhaseInv'
    BY <2>1 DEF Known, PhaseInv
  <2> QED BY <2>2, <2>3
<1>2. CASE Refuse \/ Clarified
  <2>1. /\ UNCHANGED <<call, used, slot>> /\ pc = "paused"
        /\ \/ pc' = "over" /\ run' = run
           \/ pc' = "top" /\ run' = run + 1
    BY <1>2 DEF Refuse, Clarified, NewRun, limit, Over, Goto
  <2>2. run' \in Nat /\ run' >= run /\ run \in Nat
    BY <2>1, KnownTypes
  <2>3. CallsInv'
    BY <2>1, <2>2, SameCalls, KnownTypes DEF Known
  <2>4. \A k \in 1..used : /\ call[k].run <= run /\ call[k].run \in Nat
                           /\ call[k].sig \in Risky /\ call[k].st \in Made =>
                                call[k].run < run /\ call[k].st # "call"
    <3>1. \A k \in 1..used : call[k].run <= run /\ call[k].run \in Nat
      BY KnownTypes DEF Known, CallsInv, Asked
    <3>2. \A k \in 1..used : call[k].sig \in Risky /\ call[k].st \in Made =>
                                call[k].run < run /\ call[k].st # "call"
      BY <2>1 DEF Known, PhaseInv
    <3> QED BY <3>1, <3>2
  <2>5. /\ pc' \in {"over", "top"} /\ run' >= run /\ (pc' = "top" => run' = run + 1)
        /\ call' = call /\ used' = used
    BY <2>1, KnownTypes
  <2>6. pc' \in Running \ {"tools"} =>
          \A k \in 1..used' : call'[k].run = run' => call'[k].st \in Recorded
    BY <2>2, <2>4, <2>5 DEF Running
  <2>7. \A k \in 1..used' : call'[k].sig \in Risky /\ call'[k].st \in Made =>
          call'[k].run < run' /\ call'[k].st # "call"
    BY <2>2, <2>4, <2>5
  <2>8. \A k \in 1..used' : ~ (call'[k].sig \in Risky /\ call'[k].st = "call")
    BY <2>7 DEF Made
  <2>9. PhaseInv'
    BY <2>5, <2>6, <2>7, <2>8 DEF PhaseInv
  <2> QED BY <2>3, <2>9
<1>3. CASE Approve
  <2> DEFINE k == pending
  <2>1. /\ pc = "paused" /\ pc' = "approved" /\ UNCHANGED <<run, pending, used, slot>>
        /\ Set(k, "call") /\ k # 0
    BY <1>3 DEF Approve, limit, Goto
  <2>2. /\ k \in 1..used /\ k \in Calls /\ call[k].sig \in Risky /\ call[k].run = run
        /\ call[k].st = "approval"
    BY <2>1, KnownTypes DEF Known, PhaseInv
  <2>3. Moves(k) /\ call'[k].st = "call"
    BY <2>1, <2>2, SetMoves, KnownTypes
  <2>4. \A j \in 1..used : call[j].sig \in Risky /\ call[j].st \in Made =>
          call[j].run < run /\ call[j].st # "call"
    BY <2>1 DEF Known, PhaseInv
  <2>5. Allowed(k)
    <3>1. \A j \in 1..used : call[j].sig \in Risky /\ call[j].run = call[k].run
                               => call[j].st \notin Made
      BY <2>2, <2>4, KnownTypes
    <3> QED BY <2>2, <2>3, <3>1 DEF Allowed, Recorded
  <2>6. Linked'
    BY <2>1, <2>2, <2>3, SetLinks DEF Known, CallsInv, Linked
  <2>7. CallsInv'
    <3>1. run' \in Nat /\ run' >= run
      BY <2>1, KnownTypes
    <3> QED BY <2>2, <2>3, <2>5, <2>6, <3>1, MoveCall, KnownTypes DEF Known, CallsInv
  <2>8. PhaseInv'
    <3>1. /\ pending' \in 1..used' /\ pending' # 0 /\ call'[pending'].sig \in Risky
          /\ call'[pending'].run = run' /\ call'[pending'].st = "call"
      BY <2>1, <2>2, <2>3 DEF Moves
    <3>2. \A j \in 1..used' : call'[j].sig \in Risky /\ call'[j].st \in Made =>
            call'[j].run < run' \/ j = pending'
      BY <2>1, <2>3, <2>4, KnownTypes DEF Moves
    <3>3. \A j \in 1..used' : call'[j].sig \in Risky /\ call'[j].st = "call" => j = pending'
      BY <2>1, <2>3, <2>4, KnownTypes DEF Moves, Made
    <3> QED BY <2>1, <3>1, <3>2, <3>3 DEF PhaseInv, Running
  <2> QED BY <2>7, <2>8
<1> QED BY <1>1, <1>2, <1>3

LEMMA InitCalls == Init => CallsInv /\ PhaseInv
<1> SUFFICES ASSUME Init PROVE CallsInv /\ PhaseInv
  OBVIOUS
<1>1. /\ used = 0 /\ pc = "top" /\ \A k \in Calls : call[k].st = "unused" /\ slot[k] = "new" /\ k > 0
      /\ 1..used = {}
  BY TurnAssumption DEF Init, L!Init, NoCall, Calls
<1>2. Asked /\ Linked
  BY <1>1, TurnAssumption DEF Asked, Linked, Calls
<1>3. Batches /\ Waited /\ RiskyOnly /\ RiskyOnce /\ OthersOnce /\ Failed
  BY <1>1 DEF Batches, Waited, RiskyOnly, RiskyOnce, OthersOnce, Failed
<1>4. PhaseInv
  BY <1>1 DEF PhaseInv
<1> QED BY <1>2, <1>3, <1>4 DEF CallsInv

LEMMA NextCalls == MaxRepeats <= 1 /\ Known /\ [Next]_vars => CallsInv' /\ PhaseInv'
<1> SUFFICES ASSUME MaxRepeats <= 1, Known, [Next]_vars PROVE CallsInv' /\ PhaseInv'
  OBVIOUS
<1>1. CASE TurnStep
  BY <1>1, AskKeeps, TurnKeeps
<1>2. ASSUME NEW k \in Calls, CallStep(k) PROVE CallsInv' /\ PhaseInv'
  BY <1>2, StartKeeps, BlockKeeps, ReachKeeps, EndApprovedKeeps DEF CallStep
<1>3. CASE Refuse \/ Clarified \/ Approve \/ Stop \/ Poll \/ UNCHANGED vars
  BY <1>3, UserKeeps
<1> QED BY <1>1, <1>2, <1>3 DEF Next

\* The inductive invariant of the calls, as long as the guard lets no call be
\* repeated (MAX_SAME_TOOL_CALL_REPEATS is 1).
THEOREM CallsInvariance ==
  ASSUME MaxRepeats <= 1
  PROVE  Spec => [](CallsInv /\ PhaseInv)
<1>1. TypeOK /\ SlotInv /\ CallsInv /\ PhaseInv /\ [Next]_vars => (CallsInv /\ PhaseInv)'
  BY NextCalls DEF Known
<1> QED BY <1>1, InitCalls, TypeCorrect, SlotInvariance, PTL DEF Spec

\* However the calls of an agent overlap, are repeated, fail or outlive a pause:
\* a run makes the same call once, and turns a repetition down only if the call
\* did not succeed (ToolRepeatGuard, run(), lastRunBySignature).
THEOREM CalledOnce ==
  ASSUME MaxRepeats <= 1
  PROVE  Spec => []CalledInTurn
<1>1. TypeOK /\ CallsInv => CalledInTurn
  <2> SUFFICES ASSUME TypeOK, CallsInv PROVE CalledOncePerRun /\ BlockedAfterFailure
    BY DEF CalledInTurn
  <2>1. CalledOncePerRun
    BY DEF CallsInv, CalledOncePerRun, RiskyOnce, OthersOnce, Same, Made
  <2>2. ASSUME NEW k \in 1..used, call[k].st = "blocked", NEW j \in SameBefore(k), call[j].st = "ok"
        PROVE  FALSE
    <3>1. j \in Calls /\ j # k /\ call[j].run = call[k].run /\ call[j].sig = call[k].sig
      BY <2>2 DEF SameBefore
    <3>2. j \in 1..used
      BY <2>2, <3>1 DEF CallsInv, Asked, TypeOK, Calls
    <3> QED BY <2>2, <3>1, <3>2 DEF CallsInv, Failed, Same
  <2>3. BlockedAfterFailure
    BY <2>2 DEF BlockedAfterFailure, Cached
  <2> QED BY <2>1, <2>3
<1> QED BY <1>1, CallsInvariance, TypeCorrect, PTL

=============================================================================
