--------------------------- MODULE AiTrigger_proofs ---------------------------
(***************************************************************************)
(* Proofs about AI trigger jobs, for any number of messages and workers:   *)
(* the types, that a turn runs at most once as long as claims are not      *)
(* reaped under a job that is still in the queue, and that a message gets  *)
(* one reply, and gets one, under the faults the code is written for.      *)
(***************************************************************************)
EXTENDS AiTrigger, FiniteSetTheorems, TLAPS

USE TriggerAssumption
    DEF JobStates, Texts, Turning, Holding, MaxStalls, Retried, CanClaim

-----------------------------------------------------------------------------
(* Type correctness.                                                       *)

JobOK    == /\ job \in [Triggers -> Job]
            /\ \A t \in Triggers : job[t].state = "active" => job[t].fails < MaxAttempts
            /\ \A t \in Triggers : job[t].state = "waiting" => job[t].fails < MaxAttempts
            /\ \A t \in Triggers : job[t].owner # None => job[t].state = "active"
WorkerOK == /\ worker \in [Workers -> Worker]
            /\ \A w \in Workers : worker[w].pc # "idle" => worker[w].of \in Triggers
            /\ \A w \in Workers : worker[w].pc = "idle" => worker[w].of = None
            /\ \A w \in Workers : worker[w].pc \in Turning \cup {"start"} =>
                                     worker[w].reply \in Replies
ReplyOK  == /\ reply \in [Replies -> Reply]
            /\ owned \subseteq Replies
            /\ done \subseteq Replies
ClaimOK  == /\ claims \subseteq Triggers
            /\ old \subseteq Triggers
            /\ turns \in [Triggers -> Nat]
            /\ faults \in FaultSets

TypeInv == JobOK /\ WorkerOK /\ ReplyOK /\ ClaimOK

LEMMA TypeInvType == TypeInv => TypeOK
BY DEF TypeInv, TypeOK, JobOK, WorkerOK, ReplyOK, ClaimOK

LEMMA InitTypeInv == Init => TypeInv
<1> SUFFICES ASSUME Init PROVE TypeInv OBVIOUS
<1>1. JobOK BY DEF Init, JobOK, Job
<1>2. WorkerOK BY DEF Init, WorkerOK, Worker, IdleWorker
<1>3. ReplyOK /\ ClaimOK BY DEF Init, ReplyOK, ClaimOK, Reply
<1> QED BY <1>1, <1>2, <1>3 DEF TypeInv

\* What a step leaves alone keeps its type.
LEMMA Frame ==
  /\ JobOK /\ UNCHANGED job => JobOK'
  /\ WorkerOK /\ UNCHANGED worker => WorkerOK'
  /\ ReplyOK /\ UNCHANGED <<reply, owned, done>> => ReplyOK'
  /\ ClaimOK /\ UNCHANGED <<claims, old, turns, faults>> => ClaimOK'
<1>1. JobOK /\ UNCHANGED job => JobOK' BY DEF JobOK
<1>2. WorkerOK /\ UNCHANGED worker => WorkerOK' BY DEF WorkerOK
<1>3. ReplyOK /\ UNCHANGED <<reply, owned, done>> => ReplyOK' BY DEF ReplyOK
<1>4. ClaimOK /\ UNCHANGED <<claims, old, turns, faults>> => ClaimOK' BY DEF ClaimOK
<1> QED BY <1>1, <1>2, <1>3, <1>4

LEMMA GotoOK ==
  ASSUME WorkerOK, NEW w \in Workers, worker[w].pc # "idle", NEW pc \in Holding,
         NEW r \in Replies \cup {None}, Goto(w, pc, r),
         pc \in Turning \cup {"start"} => r \in Replies
  PROVE  WorkerOK'
BY DEF WorkerOK, Goto, Worker

LEMMA EndJobOK ==
  ASSUME WorkerOK, JobOK, NEW w \in Workers, worker[w].pc # "idle",
         NEW ok \in BOOLEAN, EndJob(w, ok)
  PROVE  WorkerOK' /\ JobOK'
<1>1. worker[w].of \in Triggers BY DEF WorkerOK
<1>2. WorkerOK' BY DEF WorkerOK, EndJob, IdleWorker, Worker
<1>3. JobOK' BY <1>1 DEF JobOK, EndJob, Job
<1> QED BY <1>2, <1>3

LEMMA StallOK ==
  ASSUME JobOK, NEW t \in Triggers, job[t].owner # None, Stall(t)
  PROVE  JobOK'
BY DEF JobOK, Stall, Job

LEMMA WorkerTypeInv ==
  ASSUME TypeInv, NEW w \in Workers, WorkerStep(w)
  PROVE  TypeInv'
<1> USE Frame DEF TypeInv
<1>a. JobOK /\ WorkerOK /\ ReplyOK /\ ClaimOK OBVIOUS
<1>1. CASE \E t \in Triggers : TakeJob(w, t)
  <2>1. JobOK' BY <1>a, <1>1 DEF TakeJob, JobOK, Job
  <2>2. WorkerOK' BY <1>a, <1>1 DEF TakeJob, WorkerOK, Worker
  <2> QED BY <1>a, <1>1, <2>1, <2>2 DEF TakeJob
<1>2. CASE Claim(w)
  <2>1. WorkerOK' /\ JobOK' BY <1>a, <1>2, GotoOK, EndJobOK DEF Claim, JobOK
  <2>2. worker[w].of \in Triggers BY <1>a, <1>2 DEF Claim, WorkerOK
  <2>3. ClaimOK' BY <1>a, <1>2, <2>2 DEF Claim, ClaimOK
  <2> QED BY <1>a, <1>2, <2>1, <2>3 DEF Claim
<1>3. CASE CreateReply(w)
  <2>1. WorkerOK' BY <1>a, <1>3, GotoOK DEF CreateReply
  <2>2. worker[w].of \in Triggers BY <1>a, <1>3 DEF CreateReply, WorkerOK
  <2>3. ReplyOK' BY <1>a, <1>3, <2>2 DEF CreateReply, ReplyOK, Reply
  <2> QED BY <1>a, <1>3, <2>1, <2>3 DEF CreateReply
<1>4. CASE StartTurn(w)
  <2>1. worker[w].reply \in Replies BY <1>a, <1>4 DEF StartTurn, WorkerOK
  <2>2. WorkerOK' BY <1>a, <1>4, <2>1, GotoOK DEF StartTurn
  <2>3. ReplyOK' BY <1>a, <1>4, <2>1 DEF StartTurn, ReplyOK
  <2> QED BY <1>a, <1>4, <2>2, <2>3 DEF StartTurn
<1>5. CASE Release(w)
  <2>1. WorkerOK' /\ JobOK' BY <1>a, <1>5, EndJobOK DEF Release
  <2>2. ClaimOK' BY <1>a, <1>5 DEF Release, ClaimOK
  <2> QED BY <1>a, <1>5, <2>1, <2>2 DEF Release
<1>6. CASE BeginTurn(w)
  <2>1. worker[w].of \in Triggers /\ worker[w].reply \in Replies
    BY <1>a, <1>6 DEF BeginTurn, WorkerOK
  <2>2. WorkerOK' BY <1>a, <1>6, <2>1, GotoOK DEF BeginTurn
  <2>3. ClaimOK' BY <1>a, <1>6, <2>1 DEF BeginTurn, ClaimOK
  <2> QED BY <1>a, <1>6, <2>2, <2>3 DEF BeginTurn
<1>7. CASE EndTurn(w)
  <2>1. worker[w].reply \in Replies BY <1>a, <1>7 DEF EndTurn, WorkerOK
  <2>2. WorkerOK' BY <1>a, <1>7, <2>1, GotoOK DEF EndTurn
  <2> QED BY <1>a, <1>7, <2>2 DEF EndTurn
<1>8. CASE UpdateReply(w) \/ CatchTurn(w)
  <2>1. worker[w].reply \in Replies BY <1>a, <1>8 DEF UpdateReply, CatchTurn, WorkerOK
  <2>2. WorkerOK' BY <1>a, <1>8, <2>1, GotoOK DEF UpdateReply, CatchTurn
  <2>3. ReplyOK'
    BY <1>a, <1>8, <2>1 DEF UpdateReply, CatchTurn, SetText, ReplyOK, Reply
  <2> QED BY <1>a, <1>8, <2>2, <2>3 DEF UpdateReply, CatchTurn
<1>9. CASE EmitDone(w)
  <2>1. WorkerOK' /\ JobOK' BY <1>a, <1>9, EndJobOK DEF EmitDone
  <2>2. ReplyOK' BY <1>a, <1>9 DEF EmitDone, ReplyOK, WorkerOK
  <2> QED BY <1>a, <1>9, <2>1, <2>2 DEF EmitDone
<1> QED BY <1>1, <1>2, <1>3, <1>4, <1>5, <1>6, <1>7, <1>8, <1>9 DEF WorkerStep

LEMMA OtherTypeInv ==
  ASSUME TypeInv,
         \/ \E t \in Triggers : Enqueue(t) \/ AgeClaim(t)
         \/ \E w \in Workers : Crash(w) \/ LockLost(w)
         \/ ReapStaleClaims \/ UNCHANGED vars
  PROVE  TypeInv'
<1> USE Frame DEF TypeInv
<1>a. JobOK /\ WorkerOK /\ ReplyOK /\ ClaimOK OBVIOUS
<1>1. CASE \E t \in Triggers : Enqueue(t)
  <2>1. JobOK' BY <1>a, <1>1 DEF Enqueue, JobOK, Job
  <2> QED BY <1>a, <1>1, <2>1 DEF Enqueue
<1>2. CASE (\E t \in Triggers : AgeClaim(t)) \/ ReapStaleClaims
  <2>1. ClaimOK' BY <1>a, <1>2 DEF AgeClaim, ReapStaleClaims, ClaimOK
  <2> QED BY <1>a, <1>2, <2>1 DEF AgeClaim, ReapStaleClaims
<1>3. ASSUME NEW w \in Workers, Crash(w) \/ LockLost(w) PROVE TypeInv'
  <2>1. worker[w].of \in Triggers BY <1>a, <1>3 DEF Crash, LockLost, WorkerOK
  <2>2. JobOK' BY <1>a, <1>3, <2>1, StallOK DEF Crash, LockLost
  <2>3. WorkerOK' BY <1>a, <1>3 DEF Crash, LockLost, WorkerOK, IdleWorker, Worker
  <2> QED BY <1>a, <1>3, <2>2, <2>3 DEF Crash, LockLost
<1>4. CASE UNCHANGED vars BY <1>a, <1>4 DEF vars
<1> QED BY <1>1, <1>2, <1>3, <1>4

\* Every variable keeps its type, and a job in the queue has an attempt left.
THEOREM TypeInvariance == Spec => []TypeInv
<1>1. TypeInv /\ [Next]_vars => TypeInv' BY WorkerTypeInv, OtherTypeInv DEF Next
<1> QED BY <1>1, InitTypeInv, PTL DEF Spec

\* TypeOK holds of every reachable state: no job fails more often than it has
\* attempts, none stalls more often than maxStalledCount.
THEOREM TypeCorrect == Spec => []TypeOK
BY TypeInvariance, TypeInvType, PTL

-----------------------------------------------------------------------------
(* A turn runs at most once.                                               *)

BeforeTurn == {"create", "start", "release", "begin"}

\* Whoever holds a claim holds it alone, and has not run the turn before it
\* enters it; a turn that ran keeps its claim until its job is settled.
HoldsClaim == \A w \in Workers : worker[w].pc \in Holding => worker[w].of \in claims
Exclusive  == \A v, w \in Workers :
                worker[v].pc \in Holding /\ worker[w].pc \in Holding
                  /\ worker[v].of = worker[w].of => v = w
NotRun     == \A w \in Workers : worker[w].pc \in BeforeTurn => turns[worker[w].of] = 0
Spent      == \A t \in Triggers : turns[t] > 0 => t \in claims \/ Settled(t)
Aged       == \A t \in old : Settled(t)
RanOnce    == \A t \in Triggers : turns[t] <= 1

OnceInv == HoldsClaim /\ Exclusive /\ NotRun /\ Spent /\ Aged /\ RanOnce

\* A step that lets no worker take a claim, and none back before the turn.
NoEntry ==
  \A v \in Workers : worker'[v].pc \in Holding =>
    /\ worker[v].pc \in Holding /\ worker'[v].of = worker[v].of
    /\ worker'[v].pc \in BeforeTurn => worker[v].pc \in BeforeTurn

\* Settled jobs stay settled.
StaysSettled == \A t \in Triggers : Settled(t) => Settled(t)'

LEMMA CalmOnceInv ==
  ASSUME TypeInv, OnceInv, NoEntry, StaysSettled, UNCHANGED <<claims, old, turns>>
  PROVE  OnceInv'
<1>1. HoldsClaim' BY DEF OnceInv, HoldsClaim, NoEntry
<1>2. Exclusive' BY DEF OnceInv, Exclusive, NoEntry
<1>3. NotRun' BY DEF OnceInv, NotRun, NoEntry, BeforeTurn
<1>4. Spent' BY DEF OnceInv, Spent, StaysSettled
<1>5. Aged' BY DEF OnceInv, Aged, StaysSettled, TypeInv, ClaimOK
<1>6. RanOnce' BY DEF OnceInv, RanOnce
<1> QED BY <1>1, <1>2, <1>3, <1>4, <1>5, <1>6 DEF OnceInv

LEMMA GotoCalm ==
  ASSUME TypeInv, NEW w \in Workers, worker[w].pc # "idle", NEW pc, NEW r, Goto(w, pc, r),
         job' = job,
         pc \notin Holding \/ worker[w].pc \in Holding,
         pc \notin BeforeTurn \/ worker[w].pc \in BeforeTurn
  PROVE  NoEntry /\ StaysSettled
<1>1. NoEntry BY DEF TypeInv, WorkerOK, Goto, NoEntry
<1>2. StaysSettled BY DEF TypeInv, WorkerOK, Goto, StaysSettled, Settled
<1> QED BY <1>1, <1>2

LEMMA EndJobCalm ==
  ASSUME TypeInv, NEW w \in Workers, worker[w].pc # "idle", NEW ok \in BOOLEAN, EndJob(w, ok)
  PROVE  NoEntry /\ StaysSettled
<1>1. NoEntry BY DEF TypeInv, WorkerOK, EndJob, IdleWorker, NoEntry
<1>2. StaysSettled BY DEF TypeInv, WorkerOK, JobOK, EndJob, IdleWorker, StaysSettled, Settled
<1> QED BY <1>1, <1>2

LEMMA ClaimOnceInv ==
  ASSUME TypeInv, OnceInv, NEW w \in Workers, Claim(w)
  PROVE  OnceInv'
<1> DEFINE t == worker[w].of
<1>1. CASE t \in claims
  BY <1>1, EndJobCalm, CalmOnceInv DEF Claim
<1>2. CASE t \notin claims
  <2>0. t \in Triggers /\ ~Settled(t) BY DEF Claim, TypeInv, WorkerOK, Settled
  <2>1. turns[t] = 0
    BY <1>2, <2>0 DEF OnceInv, Spent, TypeInv, ClaimOK
  <2>2. /\ claims' = claims \cup {t} /\ UNCHANGED <<job, old, turns>>
        /\ Goto(w, "create", None)
    BY <1>2 DEF Claim
  <2>3. /\ worker'[w].pc = "create" /\ worker'[w].of = t
        /\ \A v \in Workers : v # w => worker'[v] = worker[v]
    BY <2>2 DEF Goto, TypeInv, WorkerOK
  <2>4. StaysSettled BY <2>0, <2>2, <2>3 DEF StaysSettled, Settled
  <2>5. \A v \in Workers : worker[v].pc \in Holding => worker[v].of # t
    BY <1>2 DEF OnceInv, HoldsClaim
  <2>6. HoldsClaim' BY <2>2, <2>3 DEF OnceInv, HoldsClaim
  <2>7. Exclusive' BY <2>3, <2>5 DEF OnceInv, Exclusive
  <2>8. NotRun' BY <2>1, <2>2, <2>3 DEF OnceInv, NotRun
  <2>9. Spent' BY <2>2, <2>4 DEF OnceInv, Spent, StaysSettled
  <2>10. Aged' BY <2>2, <2>4 DEF OnceInv, Aged, StaysSettled, TypeInv, ClaimOK
  <2>11. RanOnce' BY <2>2 DEF OnceInv, RanOnce
  <2> QED BY <2>6, <2>7, <2>8, <2>9, <2>10, <2>11 DEF OnceInv
<1> QED BY <1>1, <1>2

LEMMA ReleaseOnceInv ==
  ASSUME TypeInv, OnceInv, NEW w \in Workers, Release(w)
  PROVE  OnceInv'
<1> DEFINE t == worker[w].of
<1>0. /\ t \in Triggers /\ turns[t] = 0 /\ turns' = turns
      /\ \A v \in Workers : v # w /\ worker[v].pc \in Holding => worker[v].of # t
  BY DEF Release, TypeInv, WorkerOK, OnceInv, NotRun, Exclusive, BeforeTurn
<1>1. NoEntry /\ StaysSettled BY EndJobCalm DEF Release
<1>2. worker'[w].pc = "idle"
  BY DEF Release, EndJob, IdleWorker, TypeInv, WorkerOK
<1>3. CASE UNCHANGED <<claims, old>> BY <1>0, <1>1, <1>3, CalmOnceInv
<1>4. CASE claims' = claims \ {t} /\ old' = old \ {t}
  <2>1. HoldsClaim' BY <1>0, <1>1, <1>2, <1>4 DEF OnceInv, HoldsClaim, NoEntry
  <2>2. Exclusive' BY <1>1 DEF OnceInv, Exclusive, NoEntry
  <2>3. NotRun' BY <1>0, <1>1 DEF OnceInv, NotRun, NoEntry, BeforeTurn
  <2>4. Spent' BY <1>0, <1>1, <1>4 DEF OnceInv, Spent, StaysSettled
  <2>5. Aged' BY <1>1, <1>4 DEF OnceInv, Aged, StaysSettled, TypeInv, ClaimOK
  <2>6. RanOnce' BY <1>0 DEF OnceInv, RanOnce
  <2> QED BY <2>1, <2>2, <2>3, <2>4, <2>5, <2>6 DEF OnceInv
<1> QED BY <1>3, <1>4 DEF Release

LEMMA BeginOnceInv ==
  ASSUME TypeInv, OnceInv, NEW w \in Workers, BeginTurn(w)
  PROVE  OnceInv'
<1> DEFINE t == worker[w].of
<1>0. /\ t \in Triggers /\ t \in claims /\ turns[t] = 0
      /\ \A v \in Workers : v # w /\ worker[v].pc \in Holding =>
            worker[v].of # t /\ worker[v].of \in Triggers
  BY DEF BeginTurn, TypeInv, WorkerOK, OnceInv, NotRun, HoldsClaim, Exclusive, BeforeTurn
<1>1. NoEntry /\ StaysSettled BY GotoCalm DEF BeginTurn, BeforeTurn
<1>2. /\ turns'[t] = 1 /\ UNCHANGED <<claims, old>>
      /\ \A d \in Triggers : d # t => turns'[d] = turns[d]
  BY <1>0 DEF BeginTurn, TypeInv, ClaimOK
<1>3. worker'[w].pc = "run"
  BY DEF BeginTurn, Goto, TypeInv, WorkerOK
<1>4. HoldsClaim' BY <1>1, <1>2 DEF OnceInv, HoldsClaim, NoEntry
<1>5. Exclusive' BY <1>1 DEF OnceInv, Exclusive, NoEntry
<1>6. NotRun'
  BY <1>0, <1>1, <1>2, <1>3 DEF OnceInv, NotRun, NoEntry, BeforeTurn
<1>7. Spent' BY <1>0, <1>1, <1>2 DEF OnceInv, Spent, StaysSettled
<1>8. Aged' BY <1>1, <1>2 DEF OnceInv, Aged, StaysSettled, TypeInv, ClaimOK
<1>9. RanOnce' BY <1>2 DEF OnceInv, RanOnce
<1> QED BY <1>4, <1>5, <1>6, <1>7, <1>8, <1>9 DEF OnceInv

LEMMA WorkerOnceInv ==
  ASSUME TypeInv, OnceInv, NEW w \in Workers, WorkerStep(w)
  PROVE  OnceInv'
<1> USE DEF BeforeTurn
<1>1. CASE Claim(w) BY <1>1, ClaimOnceInv
<1>2. CASE Release(w) BY <1>2, ReleaseOnceInv
<1>3. CASE BeginTurn(w) BY <1>3, BeginOnceInv
<1>4. CASE \E t \in Triggers : TakeJob(w, t)
  <2>1. PICK t \in Triggers : TakeJob(w, t) BY <1>4
  <2>2. NoEntry BY <2>1 DEF TakeJob, NoEntry, TypeInv, WorkerOK
  <2>3. StaysSettled
    BY <2>1 DEF TakeJob, StaysSettled, Settled, TypeInv, WorkerOK, JobOK
  <2> QED BY <2>1, <2>2, <2>3, CalmOnceInv DEF TakeJob
<1>5. CASE CreateReply(w) \/ EndTurn(w) \/ UpdateReply(w) \/ CatchTurn(w)
  <2>1. NoEntry /\ StaysSettled
    BY <1>5, GotoCalm DEF CreateReply, EndTurn, UpdateReply, CatchTurn
  <2> QED BY <1>5, <2>1, CalmOnceInv DEF CreateReply, EndTurn, UpdateReply, CatchTurn
<1>6. CASE StartTurn(w)
  <2>1. NoEntry /\ StaysSettled BY <1>6, GotoCalm DEF StartTurn
  <2> QED BY <1>6, <2>1, CalmOnceInv DEF StartTurn
<1>7. CASE EmitDone(w)
  <2>1. NoEntry /\ StaysSettled BY <1>7, EndJobCalm DEF EmitDone
  <2> QED BY <1>7, <2>1, CalmOnceInv DEF EmitDone
<1> QED BY <1>1, <1>2, <1>3, <1>4, <1>5, <1>6, <1>7 DEF WorkerStep

LEMMA OtherOnceInv ==
  ASSUME TypeInv, OnceInv, "slow" \notin faults,
         \/ \E t \in Triggers : Enqueue(t) \/ AgeClaim(t)
         \/ \E w \in Workers : Crash(w) \/ LockLost(w)
         \/ ReapStaleClaims \/ UNCHANGED vars
  PROVE  OnceInv'
<1>1. ASSUME NEW t \in Triggers, Enqueue(t) PROVE OnceInv'
  <2>1. NoEntry BY <1>1 DEF Enqueue, NoEntry
  <2>2. StaysSettled BY <1>1 DEF Enqueue, StaysSettled, Settled, TypeInv, JobOK
  <2> QED BY <1>1, <2>1, <2>2, CalmOnceInv DEF Enqueue
<1>2. ASSUME NEW t \in Triggers, AgeClaim(t) PROVE OnceInv'
  <2>1. Settled(t) /\ old' = old \cup {t} /\ UNCHANGED <<job, worker, claims, turns>>
    BY <1>2 DEF AgeClaim
  <2>2. \A d \in Triggers : Settled(d) => Settled(d)' BY <2>1 DEF Settled
  <2>3. Aged' BY <2>1, <2>2 DEF OnceInv, Aged, TypeInv, ClaimOK
  <2> QED BY <2>1, <2>2, <2>3
          DEF OnceInv, HoldsClaim, Exclusive, NotRun, Spent, RanOnce
<1>3. CASE ReapStaleClaims
  <2>1. claims' = claims \ old /\ old' = {} /\ UNCHANGED <<job, worker, turns>>
    BY <1>3 DEF ReapStaleClaims
  <2>2. \A d \in Triggers : Settled(d) => Settled(d)' BY <2>1 DEF Settled
  <2>3. HoldsClaim'
    BY <2>1 DEF OnceInv, HoldsClaim, Aged, Settled
  <2>4. Spent' BY <2>1, <2>2 DEF OnceInv, Spent, Aged
  <2>5. Aged' BY <2>1 DEF Aged
  <2> QED BY <2>1, <2>3, <2>4, <2>5 DEF OnceInv, Exclusive, NotRun, RanOnce
<1>4. ASSUME NEW w \in Workers, Crash(w) \/ LockLost(w) PROVE OnceInv'
  <2>0. worker[w].of \in Triggers BY <1>4 DEF Crash, LockLost, TypeInv, WorkerOK
  <2>1. NoEntry
    BY <1>4 DEF Crash, LockLost, NoEntry, TypeInv, WorkerOK, IdleWorker
  <2>2. StaysSettled
    BY <1>4, <2>0
    DEF Crash, LockLost, Stall, StaysSettled, Settled, TypeInv, WorkerOK, JobOK, IdleWorker
  <2> QED BY <1>4, <2>1, <2>2, CalmOnceInv DEF Crash, LockLost
<1>5. CASE UNCHANGED vars
  <2>1. NoEntry /\ StaysSettled BY <1>5 DEF vars, NoEntry, StaysSettled, Settled
  <2> QED BY <1>5, <2>1, CalmOnceInv DEF vars
<1> QED BY <1>1, <1>2, <1>3, <1>4, <1>5

\* The faults do not change in a behaviour.
LEMMA FaultsConstant == [Next]_vars => faults' = faults
BY DEF Next, WorkerStep, Enqueue, AgeClaim, TakeJob, Claim, CreateReply, StartTurn,
       Release, BeginTurn, EndTurn, UpdateReply, CatchTurn, EmitDone, Crash, LockLost,
       ReapStaleClaims, vars

OnceIfFresh == "slow" \notin faults => OnceInv

\* The inductive invariant behind the unique index of the claims: a message is
\* claimed by one worker at a time, and nobody claims it again after its turn.
THEOREM OnceInvariance == Spec => []OnceIfFresh
<1>1. Init => OnceIfFresh
  BY DEF OnceIfFresh, Init, OnceInv, HoldsClaim, Exclusive, NotRun, Spent, Aged, RanOnce,
     IdleWorker, BeforeTurn
<1>2. TypeInv /\ OnceIfFresh /\ [Next]_vars => OnceIfFresh'
  <2>1. TypeInv /\ OnceInv /\ "slow" \notin faults /\ [Next]_vars => OnceInv'
    BY WorkerOnceInv, OtherOnceInv DEF Next
  <2> QED BY <2>1, FaultsConstant DEF OnceIfFresh
<1> QED BY <1>1, <1>2, TypeInvariance, PTL DEF Spec

\* Whatever throws, crashes, stalls or is reaped afterwards, the turn of a
\* message runs at most once (claim() of TriggerClaimService), provided that a
\* claim gets ten minutes old only after its job left the queue (TurnRunsOnce).
THEOREM RunsOnce == Spec => []TurnRunsOnce
<1>1. OnceIfFresh => TurnRunsOnce BY DEF OnceIfFresh, OnceInv, RanOnce, TurnRunsOnce
<1> QED BY <1>1, OnceInvariance, PTL

-----------------------------------------------------------------------------
(* One placeholder reply.                                                  *)

\* Faults after which release() leaves no reply behind.
Tidy == faults \cap {"lostReply", "startTurn", "slow"} = {}

\* No reply while its message is claimed for a new one or given back, and a
\* message with a reply stays claimed until its job is settled.
NoneYet  == \A w \in Workers : worker[w].pc \in {"create", "release"} => RepliesTo(worker[w].of) = {}
Answered == \A t \in Triggers : RepliesTo(t) # {} => t \in claims \/ Settled(t)
Single   == \A t \in Triggers : \A p, r \in RepliesTo(t) : p = r

PlaceInv == OnceInv /\ NoneYet /\ Answered /\ Single

\* Replies are addressed once; a step that creates none keeps what they answer.
LEMMA SameReplies ==
  ASSUME reply' = reply \/ \E r \in Replies, text \in Texts : SetText(r, text),
         ReplyOK
  PROVE  \A t : RepliesTo(t)' = RepliesTo(t)
BY DEF SetText, RepliesTo, ReplyOK, Reply

LEMMA CalmPlaceInv ==
  ASSUME TypeInv, PlaceInv, OnceInv', \A t : RepliesTo(t)' = RepliesTo(t), NoEntry,
         StaysSettled, UNCHANGED claims,
         \A w \in Workers : worker'[w].pc \in {"create", "release"} => worker[w].pc \in {"create", "release"}
  PROVE  PlaceInv'
<1>1. NoneYet' BY DEF PlaceInv, NoneYet, NoEntry
<1>2. NoneYet' /\ Answered' /\ Single'
  BY <1>1 DEF PlaceInv, Answered, Single, StaysSettled
<1> QED BY <1>2 DEF PlaceInv

LEMMA NextPlaceInv ==
  ASSUME TypeInv, PlaceInv, OnceInv', Tidy, [Next]_vars
  PROVE  PlaceInv'
<1> USE DEF BeforeTurn
<1>1. ASSUME NEW w \in Workers, WorkerStep(w) PROVE PlaceInv'
  <2> DEFINE t == worker[w].of
  <2>1. CASE \E d \in Triggers : TakeJob(w, d)
    <3>1. PICK d \in Triggers : TakeJob(w, d) BY <2>1
    <3>2. NoEntry BY <3>1 DEF TakeJob, NoEntry, TypeInv, WorkerOK
    <3>3. StaysSettled
      BY <3>1 DEF TakeJob, StaysSettled, Settled, TypeInv, WorkerOK, JobOK
    <3>4. \A v \in Workers : worker'[v].pc \in {"create", "release"} =>
                              worker[v].pc \in {"create", "release"}
      BY <3>1 DEF TakeJob, TypeInv, WorkerOK
    <3> QED BY <3>1, <3>2, <3>3, <3>4, SameReplies, CalmPlaceInv DEF TakeJob, TypeInv
  <2>2. CASE Claim(w)
    <3>0. t \in Triggers /\ ~Settled(t) BY <2>2 DEF Claim, TypeInv, WorkerOK, Settled
    <3>1. \A d : RepliesTo(d)' = RepliesTo(d) BY <2>2 DEF Claim, RepliesTo
    <3>2. CASE t \in claims
      <4>1. EndJob(w, TRUE) /\ claims' = claims BY <2>2, <3>2 DEF Claim
      <4>2. NoEntry /\ StaysSettled BY <2>2, <4>1, EndJobCalm DEF Claim
      <4>3. \A v \in Workers : worker'[v].pc \in {"create", "release"} =>
                                worker[v].pc \in {"create", "release"}
        BY <4>1 DEF EndJob, IdleWorker, TypeInv, WorkerOK
      <4> QED BY <3>1, <4>1, <4>2, <4>3, CalmPlaceInv
    <3>3. CASE t \notin claims
      <4>1. /\ claims' = claims \cup {t} /\ job' = job
            /\ worker'[w].of = t /\ worker'[w].pc = "create"
            /\ \A v \in Workers : v # w => worker'[v] = worker[v]
        BY <2>2, <3>3 DEF Claim, Goto, TypeInv, WorkerOK
      <4>2. RepliesTo(t) = {} BY <3>0, <3>3 DEF PlaceInv, Answered
      <4>3. NoneYet' BY <3>1, <4>1, <4>2 DEF PlaceInv, NoneYet
      <4>4. Answered' BY <3>1, <3>0, <4>1, <4>2 DEF PlaceInv, Answered, Settled
      <4>5. Single' BY <3>1 DEF PlaceInv, Single
      <4> QED BY <4>3, <4>4, <4>5 DEF PlaceInv
    <3> QED BY <3>2, <3>3
  <2>3. CASE CreateReply(w)
    <3>0. /\ t \in Triggers /\ t \in claims /\ RepliesTo(t) = {}
          /\ \A v \in Workers : v # w /\ worker[v].pc \in Holding => worker[v].of # t
      BY <2>3 DEF CreateReply, TypeInv, WorkerOK, PlaceInv, NoneYet, OnceInv, HoldsClaim,
         Exclusive
    <3>1. UNCHANGED claims BY <2>3 DEF CreateReply
    <3>2. NoEntry /\ StaysSettled BY <2>3, GotoCalm DEF CreateReply
    <3>3. CASE reply' = reply
      <4>1. \A v \in Workers : worker'[v].pc \in {"create", "release"} =>
                                worker[v].pc \in {"create", "release"}
        BY <2>3, <3>3 DEF CreateReply, Goto, TypeInv, WorkerOK
      <4>2. \A d : RepliesTo(d)' = RepliesTo(d) BY <3>3 DEF RepliesTo
      <4> QED BY <3>1, <3>2, <4>1, <4>2, CalmPlaceInv
    <3>4. CASE reply' # reply
      <4>1. PICK r \in Replies :
              /\ reply' = [reply EXCEPT ![r] = [of |-> t, text |-> "processing"]]
              /\ reply[r].text = "unused" /\ Goto(w, "start", r)
        BY <2>3, <3>4 DEF CreateReply, Tidy
      <4>2. \A d \in Triggers : d # t => RepliesTo(d)' \subseteq RepliesTo(d)
        BY <4>1 DEF RepliesTo, TypeInv, ReplyOK
      <4>a. /\ reply'[r].of = t
            /\ \A q \in Replies : q # r => reply'[q] = reply[q] /\ reply[q].of # t
        BY <3>0, <4>1 DEF RepliesTo, TypeInv, ReplyOK
      <4>3. \A q \in Replies : reply'[q].of = t => q = r BY <4>a
      <4>4. \A v \in Workers : worker'[v].pc \in {"create", "release"} =>
              /\ v # w /\ worker'[v] = worker[v]
              /\ worker[v].of # t /\ worker[v].of \in Triggers
        BY <3>0, <4>1 DEF Goto, TypeInv, WorkerOK
      <4>5. NoneYet' BY <4>2, <4>4 DEF PlaceInv, NoneYet
      <4>6. Answered' BY <3>0, <3>1, <3>2, <4>2 DEF PlaceInv, Answered, StaysSettled
      <4>7. Single'
        <5> SUFFICES ASSUME NEW d \in Triggers PROVE \A p, q \in RepliesTo(d)' : p = q
          BY DEF Single
        <5>1. CASE d = t BY <4>3, <5>1 DEF RepliesTo
        <5>2. CASE d # t BY <4>2, <5>2 DEF PlaceInv, Single
        <5> QED BY <5>1, <5>2
      <4> QED BY <4>5, <4>6, <4>7 DEF PlaceInv
    <3> QED BY <3>3, <3>4
  <2>4. CASE Release(w)
    <3>0. t \in Triggers /\ RepliesTo(t) = {}
      BY <2>4 DEF Release, TypeInv, WorkerOK, PlaceInv, NoneYet
    <3>1. NoEntry /\ StaysSettled BY <2>4, EndJobCalm DEF Release
    <3>2. /\ \A d : RepliesTo(d)' = RepliesTo(d)
          /\ \A d \in Triggers : d # t /\ d \in claims => d \in claims'
      BY <2>4 DEF Release, RepliesTo
    <3>3. \A v \in Workers : worker'[v].pc \in {"create", "release"} => worker'[v] = worker[v]
      BY <2>4 DEF Release, EndJob, IdleWorker, TypeInv, WorkerOK
    <3>4. NoneYet' BY <3>2, <3>3 DEF PlaceInv, NoneYet
    <3>5. Answered' BY <3>0, <3>1, <3>2 DEF PlaceInv, Answered, StaysSettled
    <3>6. Single' BY <3>2 DEF PlaceInv, Single
    <3> QED BY <3>4, <3>5, <3>6 DEF PlaceInv
  <2>5. CASE StartTurn(w) \/ BeginTurn(w) \/ EndTurn(w) \/ UpdateReply(w) \/ CatchTurn(w)
    <3>1. NoEntry /\ StaysSettled
      BY <2>5, GotoCalm DEF StartTurn, BeginTurn, EndTurn, UpdateReply, CatchTurn
    <3>2. worker[w].reply \in Replies
      BY <2>5 DEF StartTurn, BeginTurn, EndTurn, UpdateReply, CatchTurn, TypeInv, WorkerOK
    <3>3. \A d : RepliesTo(d)' = RepliesTo(d)
      BY <2>5, <3>2, SameReplies
      DEF StartTurn, BeginTurn, EndTurn, UpdateReply, CatchTurn, TypeInv
    <3>4. \A v \in Workers : worker'[v].pc \in {"create", "release"} =>
                              worker[v].pc \in {"create", "release"}
      BY <2>5 DEF StartTurn, BeginTurn, EndTurn, UpdateReply, CatchTurn, Goto, Tidy,
         TypeInv, WorkerOK
    <3> QED BY <2>5, <3>1, <3>3, <3>4, CalmPlaceInv
            DEF StartTurn, BeginTurn, EndTurn, UpdateReply, CatchTurn
  <2>6. CASE EmitDone(w)
    <3>1. NoEntry /\ StaysSettled BY <2>6, EndJobCalm DEF EmitDone
    <3>2. \A v \in Workers : worker'[v].pc \in {"create", "release"} =>
                              worker[v].pc \in {"create", "release"}
      BY <2>6 DEF EmitDone, EndJob, IdleWorker, TypeInv, WorkerOK
    <3> QED BY <2>6, <3>1, <3>2, SameReplies, CalmPlaceInv DEF EmitDone, TypeInv
  <2> QED BY <1>1, <2>1, <2>2, <2>3, <2>4, <2>5, <2>6 DEF WorkerStep
<1>2. ASSUME NEW t \in Triggers, Enqueue(t) \/ AgeClaim(t) PROVE PlaceInv'
  <2>1. NoEntry BY <1>2 DEF Enqueue, AgeClaim, NoEntry
  <2>2. StaysSettled
    BY <1>2 DEF Enqueue, AgeClaim, StaysSettled, Settled, TypeInv, JobOK
  <2> QED BY <1>2, <2>1, <2>2, SameReplies, CalmPlaceInv DEF Enqueue, AgeClaim, TypeInv
<1>3. CASE ReapStaleClaims
  <2>1. /\ claims' = claims \ old /\ UNCHANGED <<job, worker, reply>>
        /\ \A d : RepliesTo(d)' = RepliesTo(d)
    BY <1>3 DEF ReapStaleClaims, RepliesTo
  <2>2. NoneYet' /\ Single' BY <2>1 DEF PlaceInv, NoneYet, Single
  <2>3. Answered'
    BY <2>1 DEF PlaceInv, OnceInv, Answered, Aged, Settled
  <2> QED BY <2>2, <2>3 DEF PlaceInv
<1>4. ASSUME NEW w \in Workers, Crash(w) \/ LockLost(w) PROVE PlaceInv'
  <2>0. worker[w].of \in Triggers BY <1>4 DEF Crash, LockLost, TypeInv, WorkerOK
  <2>1. NoEntry
    BY <1>4 DEF Crash, LockLost, NoEntry, TypeInv, WorkerOK, IdleWorker
  <2>2. StaysSettled
    BY <1>4, <2>0
    DEF Crash, LockLost, Stall, StaysSettled, Settled, TypeInv, WorkerOK, JobOK, IdleWorker
  <2>3. \A v \in Workers : worker'[v].pc \in {"create", "release"} =>
                            worker[v].pc \in {"create", "release"}
    BY <1>4 DEF Crash, LockLost, IdleWorker, TypeInv, WorkerOK
  <2> QED BY <1>4, <2>1, <2>2, <2>3, SameReplies, CalmPlaceInv DEF Crash, LockLost, TypeInv
<1>5. CASE UNCHANGED vars
  BY <1>5 DEF vars, PlaceInv, NoneYet, Answered, Single, RepliesTo, Settled
<1> QED BY <1>1, <1>2, <1>3, <1>4, <1>5 DEF Next

LEMMA AtMostOneElement ==
  ASSUME NEW S, \A p, r \in S : p = r
  PROVE  Cardinality(S) <= 1
<1>1. CASE S = {} BY <1>1, FS_EmptySet
<1>2. ASSUME NEW r \in S PROVE Cardinality(S) <= 1
  <2>1. S = {r} OBVIOUS
  <2>2. Cardinality({r}) = 1 BY FS_Singleton
  <2> QED BY <2>1, <2>2
<1>3. S = {} \/ \E r \in S : TRUE OBVIOUS
<1> QED BY <1>1, <1>2, <1>3

\* A message gets one placeholder reply, if a worker that gives its claim back
\* has left no reply behind (createMessage(), claim(), release()).
THEOREM OnePlace == Spec => []OnePlaceholder
<1> DEFINE IInv == Tidy => PlaceInv
<1>1. Init => IInv
  BY DEF Init, Tidy, PlaceInv, NoneYet, Answered, Single, RepliesTo, IdleWorker,
     OnceInv, HoldsClaim, Exclusive, NotRun, Spent, Aged, RanOnce, BeforeTurn
<1>2. TypeInv /\ IInv /\ OnceIfFresh' /\ [Next]_vars => IInv'
  BY NextPlaceInv, FaultsConstant DEF Tidy, OnceIfFresh
<1>3. IInv => OnePlaceholder
  BY AtMostOneElement DEF PlaceInv, Single, OnePlaceholder, Tidy
<1> QED BY <1>1, <1>2, <1>3, OnceInvariance, TypeInvariance, PTL DEF Spec

-----------------------------------------------------------------------------
(* A completed job has left a reply.                                       *)

\* While nothing dies a busy worker has the job of its message to itself; a
\* message stays claimed only under a worker that holds it or with a reply.
OwnJob  == \A w \in Workers : worker[w].pc # "idle" =>
             job[worker[w].of].state = "active" /\ job[worker[w].of].owner = w
Holder(t) == \E w \in Workers : worker[w].pc \in Holding /\ worker[w].of = t
Kept    == \A t \in claims : RepliesTo(t) # {} \/ Holder(t)
Posted  == \A w \in Workers : worker[w].pc \in Turning \cup {"start"} =>
             RepliesTo(worker[w].of) # {}
Replied == \A t \in Triggers : job[t].state = "completed" => RepliesTo(t) # {}
Blank   == \A r \in Replies : reply[r].text = "unused" => reply[r].of = None

TraceInv == OwnJob /\ Kept /\ Posted /\ Replied /\ Blank

\* Replies come, and stay.
ReplyStep ==
  \/ reply' = reply
  \/ \E r \in Replies : \/ \E text \in Texts \ {"unused"} : SetText(r, text)
                        \/ reply[r].text = "unused" /\ \E t \in Triggers :
                             reply' = [reply EXCEPT ![r] = [of |-> t, text |-> "processing"]]

LEMMA RepliesStay ==
  ASSUME TypeInv, Blank, ReplyStep
  PROVE  Blank' /\ \A t \in Triggers : RepliesTo(t) # {} => RepliesTo(t)' # {}
<1>1. \A r \in Replies : reply[r].of \in Triggers => reply'[r].of = reply[r].of
  BY DEF ReplyStep, SetText, Blank, TypeInv, ReplyOK, Reply
<1>2. Blank' BY DEF ReplyStep, SetText, Blank, TypeInv, ReplyOK, Reply
<1>3. ASSUME NEW t \in Triggers, RepliesTo(t) # {} PROVE RepliesTo(t)' # {}
  <2>1. PICK r \in Replies : reply[r].of = t BY <1>3 DEF RepliesTo
  <2>2. reply'[r].of = t BY <1>1, <2>1
  <2> QED BY <2>2 DEF RepliesTo
<1> QED BY <1>2, <1>3

\* A worker that goes on within the turn, or takes the claim.
LEMMA GotoTrace ==
  ASSUME TypeInv, TraceInv, ReplyStep, NEW w \in Workers, worker[w].pc # "idle",
         NEW pc \in Holding, NEW r, Goto(w, pc, r), job' = job,
         claims' \subseteq claims \cup {worker[w].of},
         pc \in Turning \cup {"start"} => RepliesTo(worker[w].of)' # {}
  PROVE  TraceInv'
<1> DEFINE t == worker[w].of
<1>1. /\ worker'[w].pc = pc /\ worker'[w].of = t /\ t \in Triggers
      /\ \A v \in Workers : v # w => worker'[v] = worker[v]
  BY DEF Goto, TypeInv, WorkerOK
<1>2. Blank' /\ \A d \in Triggers : RepliesTo(d) # {} => RepliesTo(d)' # {}
  BY RepliesStay DEF TraceInv
<1>3. OwnJob' BY <1>1 DEF TraceInv, OwnJob
<1>4. \A d \in Triggers : Holder(d) \/ d = t => Holder(d)' BY <1>1 DEF Holder
<1>5. Kept' BY <1>1, <1>2, <1>4 DEF TraceInv, Kept, TypeInv, ClaimOK
<1>6. Posted'
  <2> SUFFICES ASSUME NEW v \in Workers, worker'[v].pc \in Turning \cup {"start"},
                      NEW d \in Triggers, d = worker'[v].of
               PROVE  RepliesTo(d)' # {}
    BY <1>1 DEF Posted, TypeInv, WorkerOK
  <2>1. CASE v = w BY <1>1, <2>1
  <2>2. CASE v # w BY <1>1, <1>2, <2>2 DEF TraceInv, Posted
  <2> QED BY <2>1, <2>2
<1>7. Replied' BY <1>2 DEF TraceInv, Replied
<1> QED BY <1>2, <1>3, <1>5, <1>6, <1>7 DEF TraceInv

\* A worker that ends its job, having left a reply or given its claim back.
LEMMA EndTrace ==
  ASSUME TypeInv, TraceInv, NEW w \in Workers, worker[w].pc # "idle", NEW ok \in BOOLEAN,
         EndJob(w, ok), reply' = reply, claims' \subseteq claims,
         ok => RepliesTo(worker[w].of) # {},
         worker[w].of \in claims' => RepliesTo(worker[w].of) # {}
  PROVE  TraceInv'
<1> DEFINE t == worker[w].of
<1>1. /\ worker'[w].pc = "idle" /\ t \in Triggers
      /\ \A v \in Workers : v # w => worker'[v] = worker[v]
  BY DEF EndJob, IdleWorker, TypeInv, WorkerOK
<1>2. Blank' /\ \A d : RepliesTo(d)' = RepliesTo(d)
  BY DEF TraceInv, Blank, RepliesTo
<1>3. /\ \A d \in Triggers : d # t => job'[d] = job[d]
      /\ job'[t].state = "completed" => ok
  BY <1>1 DEF EndJob, TypeInv, JobOK, TraceInv, OwnJob
<1>4. \A v \in Workers : v # w /\ worker[v].pc # "idle" => worker[v].of \in Triggers \ {t}
  BY DEF TraceInv, OwnJob, TypeInv, WorkerOK
<1>5. OwnJob' BY <1>1, <1>3, <1>4 DEF TraceInv, OwnJob
<1>6. \A d \in Triggers : d # t /\ Holder(d) => Holder(d)' BY <1>1 DEF Holder
<1>7. Kept' BY <1>2, <1>6 DEF TraceInv, Kept, TypeInv, ClaimOK
<1>8. Posted' BY <1>1, <1>2 DEF TraceInv, Posted
<1>9. Replied' BY <1>2, <1>3 DEF TraceInv, Replied
<1> QED BY <1>2, <1>5, <1>7, <1>8, <1>9 DEF TraceInv

LEMMA NextTraceInv ==
  ASSUME TypeInv, TraceInv, Steady, [Next]_vars
  PROVE  TraceInv'
<1>1. ASSUME NEW w \in Workers, WorkerStep(w) PROVE TraceInv'
  <2> DEFINE t == worker[w].of
  <2>1. CASE \E d \in Triggers : TakeJob(w, d)
    <3>1. PICK d \in Triggers : TakeJob(w, d) BY <2>1
    <3>2. /\ worker'[w].pc = "claim" /\ worker'[w].of = d
          /\ \A v \in Workers : v # w => worker'[v] = worker[v]
          /\ job'[d].state = "active" /\ job'[d].owner = w
          /\ \A e \in Triggers : e # d => job'[e] = job[e]
      BY <3>1 DEF TakeJob, TypeInv, WorkerOK, JobOK
    <3>3. Blank' /\ \A e : RepliesTo(e)' = RepliesTo(e)
      BY <3>1 DEF TakeJob, TraceInv, Blank, RepliesTo
    <3>4. \A v \in Workers : worker[v].pc # "idle" => worker[v].of \in Triggers \ {d}
      BY <3>1 DEF TakeJob, TraceInv, OwnJob, TypeInv, WorkerOK
    <3>5. OwnJob' BY <3>2, <3>4 DEF TraceInv, OwnJob
    <3>6. \A e : Holder(e) => Holder(e)' BY <3>1, <3>2 DEF TakeJob, Holder
    <3>7. Kept' BY <3>1, <3>3, <3>6 DEF TakeJob, TraceInv, Kept
    <3>8. Posted' BY <3>2, <3>3 DEF TraceInv, Posted
    <3>9. Replied' BY <3>2, <3>3 DEF TraceInv, Replied
    <3> QED BY <3>3, <3>5, <3>7, <3>8, <3>9 DEF TraceInv
  <2>2. CASE Claim(w)
    <3>1. CASE t \notin claims
      BY <2>2, <3>1, GotoTrace DEF Claim, ReplyStep
    <3>2. CASE t \in claims
      <4>1. ~Holder(t)
        BY <2>2 DEF Claim, Holder, TraceInv, OwnJob
      <4>2. RepliesTo(t) # {} BY <3>2, <4>1 DEF TraceInv, Kept
      <4>3. EndJob(w, TRUE) /\ UNCHANGED <<reply, claims>> BY <2>2, <3>2 DEF Claim
      <4> QED BY <2>2, <4>2, <4>3, EndTrace DEF Claim
    <3> QED BY <3>1, <3>2
  <2>3. CASE CreateReply(w)
    <3>0. t \in Triggers /\ UNCHANGED <<job, claims>>
      BY <2>3 DEF CreateReply, TypeInv, WorkerOK
    <3>1. ReplyStep BY <2>3, <3>0 DEF CreateReply, ReplyStep
    <3>2. CASE Goto(w, "release", None)
      BY <2>3, <3>0, <3>1, <3>2, GotoTrace DEF CreateReply
    <3>3. ASSUME NEW r \in Replies, Goto(w, "start", r),
                 reply' = [reply EXCEPT ![r] = [of |-> t, text |-> "processing"]]
          PROVE  TraceInv'
      <4>1. reply'[r].of = worker'[w].of
        BY <3>3 DEF Goto, TypeInv, WorkerOK, ReplyOK
      <4>2. RepliesTo(worker[w].of)' # {} BY <4>1 DEF RepliesTo
      <4> QED BY <2>3, <3>0, <3>1, <3>3, <4>2, GotoTrace DEF CreateReply
    <3> QED BY <2>3, <3>2, <3>3 DEF CreateReply
  <2>4. CASE Release(w)
    BY <2>4, EndTrace DEF Release, Steady
  <2>5. CASE StartTurn(w) \/ BeginTurn(w) \/ EndTurn(w) \/ UpdateReply(w) \/ CatchTurn(w)
    <3> USE DEF StartTurn, BeginTurn, EndTurn, UpdateReply, CatchTurn
    <3>1. worker[w].reply \in Replies /\ t \in Triggers /\ RepliesTo(t) # {}
      BY <2>5 DEF TypeInv, WorkerOK, TraceInv, Posted
    <3>2. ReplyStep BY <2>5, <3>1 DEF ReplyStep
    <3>3. PICK pc \in Holding, r \in Replies \cup {None} :
            Goto(w, pc, r) /\ UNCHANGED <<job, claims>>
      BY <2>5, <3>1
    <3>4. worker'[w].of = t BY <3>3 DEF Goto, TypeInv, WorkerOK
    <3>5. RepliesTo(worker[w].of)' # {}
      BY <3>1, <3>2, <3>4, RepliesStay DEF TraceInv
    <3> QED BY <2>5, <3>2, <3>3, <3>5, GotoTrace
  <2>6. CASE EmitDone(w)
    <3>1. RepliesTo(t) # {} BY <2>6 DEF EmitDone, TraceInv, Posted
    <3> QED BY <2>6, <3>1, EndTrace DEF EmitDone
  <2> QED BY <1>1, <2>1, <2>2, <2>3, <2>4, <2>5, <2>6 DEF WorkerStep
<1>2. ASSUME NEW t \in Triggers, Enqueue(t) PROVE TraceInv'
  <2>1. \A d : RepliesTo(d)' = RepliesTo(d) BY <1>2 DEF Enqueue, RepliesTo
  <2>2. OwnJob' BY <1>2 DEF Enqueue, TraceInv, OwnJob, TypeInv, WorkerOK, JobOK
  <2>3. Replied' BY <1>2, <2>1 DEF Enqueue, TraceInv, Replied, TypeInv, JobOK
  <2>4. Kept' /\ Posted' /\ Blank'
    BY <1>2, <2>1 DEF Enqueue, TraceInv, Kept, Holder, Posted, Blank
  <2> QED BY <2>2, <2>3, <2>4 DEF TraceInv
<1>3. ASSUME claims' \subseteq claims, UNCHANGED <<job, worker, reply>> PROVE TraceInv'
  <2>1. \A d : RepliesTo(d)' = RepliesTo(d) BY <1>3 DEF RepliesTo
  <2> QED BY <1>3, <2>1 DEF TraceInv, OwnJob, Kept, Holder, Posted, Replied, Blank
<1>4. CASE (\E t \in Triggers : AgeClaim(t)) \/ ReapStaleClaims \/ UNCHANGED vars
  BY <1>3, <1>4 DEF AgeClaim, ReapStaleClaims, vars
<1>5. \A w \in Workers : ~Crash(w) /\ ~LockLost(w) BY DEF Steady, Crash, LockLost
<1> QED BY <1>1, <1>2, <1>4, <1>5 DEF Next

\* While nothing dies, no turn gets lost without a trace: a job that is completed
\* has left a reply (the skip branch of handleAiTrigger() against release()).
THEOREM CompletedReplied == Spec => []CompletedHasReply
<1> DEFINE IInv == Steady => TraceInv
<1>1. Init => IInv
  BY DEF Init, TraceInv, OwnJob, Kept, Posted, Replied, Blank, IdleWorker
<1>2. TypeInv /\ IInv /\ [Next]_vars => IInv'
  BY NextTraceInv, FaultsConstant DEF Steady
<1>3. IInv => CompletedHasReply BY DEF TraceInv, Replied, CompletedHasReply
<1> QED BY <1>1, <1>2, <1>3, TypeInvariance, PTL DEF Spec

\* A message gets one reply, and gets one: OneReply.
THEOREM OneReplyEach == Spec => []OneReply
<1>1. OnePlaceholder /\ CompletedHasReply => OneReply BY DEF OneReply
<1> QED BY <1>1, OnePlace, CompletedReplied, PTL

=============================================================================
