---------------------- MODULE CheckpointLifecycle_proofs ----------------------
(***************************************************************************)
(* Proofs about the checkpoint lifecycle, for any number of checkpoints,   *)
(* requests, workers, cron runs and jobs; for every set of faults or,      *)
(* where ReliableAdd is assumed, for every set in which queue.add() reports *)
(* no error for a job that it stored.                                      *)
(***************************************************************************)
EXTENDS CheckpointLifecycle, TLAPS

\* Who may still run the tool: nobody before execution_started_at is set, and
\* afterwards only the one worker that set it.
StartInv ==
  /\ \A c \in Checkpoints : ~started[c] => toolRuns[c] = 0
  /\ \A w \in Workers : worker[w].pc \in Executing => started[worker[w].of]
Exclusive ==
  \A v, w \in Workers :
    worker[v].pc \in Executing /\ worker[w].pc \in Executing
      /\ worker[v].of = worker[w].of => v = w
NotYetRun == \A w \in Workers : worker[w].pc \in BeforeTool => toolRuns[worker[w].of] = 0

ExecInv == StartInv /\ Exclusive /\ NotYetRun /\ AtMostOnceExecution

USE DEF NoCheckpoint, NoChoice, Kinds, Statuses, Actions, Contents, MaxStalls, MayRetry,
        CanExecute, Reverted,
        BeforeTool, AfterTool, Executing

-----------------------------------------------------------------------------
(* Type correctness.                                                       *)

\* The conjuncts of TypeInv about one kind of actor each.
ReqOK == /\ req \in [Requests -> Request]
         /\ \A r \in Requests : req[r].pc # "idle" => req[r].of \in Checkpoints
SweepOK == /\ sweep \in [Sweepers -> Sweep]
           /\ \A s \in Sweepers : sweep[s].pc # "idle" => sweep[s].of \in Checkpoints
WorkerOK == /\ worker \in [Workers -> Worker]
            /\ \A w \in Workers : worker[w].pc # "idle" =>
                  worker[w].of \in Checkpoints /\ worker[w].job \in Jobs
JobOK == /\ job \in [Jobs -> Job]
         /\ \A j \in Jobs : job[j].state # "unused" \/ job[j].owner # None =>
                               job[j].of \in Checkpoints
RowOK == /\ kind \in [Checkpoints -> Kinds]
         /\ status \in [Checkpoints -> Statuses]
         /\ payload \in [Checkpoints -> NoChoice]
         /\ started \in [Checkpoints -> BOOLEAN]
         /\ executed \in [Checkpoints -> BOOLEAN]
HistOK == /\ toolRuns \in [Checkpoints -> Nat]
          /\ ranWith \in [Checkpoints -> NoChoice]
MsgOK == /\ shown \in [Checkpoints -> Contents]
         /\ done \in [Checkpoints -> BOOLEAN]
         /\ overdue \subseteq Checkpoints
         /\ stale \subseteq Checkpoints
         /\ pausePc \in [Checkpoints -> {"none", "row", "trace", "paused"}]

TypeInv == ReqOK /\ SweepOK /\ WorkerOK /\ JobOK /\ RowOK /\ HistOK /\ MsgOK

LEMMA TypeInvType == TypeInv => TypeOK
BY DEF TypeInv, TypeOK, ReqOK, SweepOK, WorkerOK, JobOK, RowOK, HistOK, MsgOK

\* What a step leaves alone keeps its type.
LEMMA Frame ==
  /\ ReqOK /\ UNCHANGED req => ReqOK'
  /\ SweepOK /\ UNCHANGED sweep => SweepOK'
  /\ WorkerOK /\ UNCHANGED worker => WorkerOK'
  /\ JobOK /\ UNCHANGED job => JobOK'
  /\ RowOK /\ UNCHANGED rowVars => RowOK'
  /\ HistOK /\ UNCHANGED histVars => HistOK'
  /\ MsgOK /\ UNCHANGED <<msgVars, timeVars, pausePc>> => MsgOK'
<1>1. ReqOK /\ UNCHANGED req => ReqOK' BY DEF ReqOK
<1>2. SweepOK /\ UNCHANGED sweep => SweepOK' BY DEF SweepOK
<1>3. WorkerOK /\ UNCHANGED worker => WorkerOK' BY DEF WorkerOK
<1>4. JobOK /\ UNCHANGED job => JobOK' BY DEF JobOK
<1>5. RowOK /\ UNCHANGED rowVars => RowOK' BY DEF RowOK, rowVars
<1>6. HistOK /\ UNCHANGED histVars => HistOK' BY DEF HistOK, histVars
<1>7. MsgOK /\ UNCHANGED <<msgVars, timeVars, pausePc>> => MsgOK'
  BY DEF MsgOK, msgVars, timeVars
<1> QED BY <1>1, <1>2, <1>3, <1>4, <1>5, <1>6, <1>7

LEMMA InitTypeInv == Init => TypeInv
<1> SUFFICES ASSUME Init PROVE TypeInv OBVIOUS
<1> USE NoneAssumption DEF Init
<1>1. ReqOK BY DEF ReqOK, IdleRequest, Request
<1>2. SweepOK BY DEF SweepOK, IdleSweep, Sweep
<1>3. WorkerOK BY DEF WorkerOK, IdleWorker, Worker
<1>4. JobOK BY DEF JobOK, UnusedJob, Job
<1>5. RowOK BY DEF RowOK
<1>6. HistOK BY DEF HistOK
<1>7. MsgOK BY DEF MsgOK
<1> QED BY <1>1, <1>2, <1>3, <1>4, <1>5, <1>6, <1>7 DEF TypeInv

\* One lemma for each way an actor's record changes.
LEMMA GotoOK ==
  ASSUME WorkerOK, NEW w \in Workers, worker[w].pc # "idle",
         NEW pc \in Executing, Goto(w, pc)
  PROVE  WorkerOK'
BY DEF WorkerOK, Goto, Worker

LEMMA MovedOK ==
  ASSUME JobOK, NEW j \in Jobs, job[j].of \in Checkpoints,
         NEW state \in {"waiting", "active", "gone"},
         NEW owner \in Workers \cup {None}, NEW stalls \in 0..MaxStalls,
         job' = [job EXCEPT ![j] = Moved(j, state, owner, stalls)]
  PROVE  JobOK'
BY DEF JobOK, Moved, Job

LEMMA JobFields ==
  ASSUME JobOK, NEW j \in Jobs
  PROVE  job[j].stalls \in 0..MaxStalls /\ job[j].of \in NoCheckpoint
BY DEF JobOK, Job

LEMMA EndJobOK ==
  ASSUME WorkerOK, JobOK, NEW w \in Workers, worker[w].pc # "idle", EndJob(w)
  PROVE  WorkerOK' /\ JobOK'
<1>1. worker[w].job \in Jobs BY DEF WorkerOK
<1>2. WorkerOK' BY DEF WorkerOK, EndJob, IdleWorker, Worker
<1>3. CASE job' = job BY <1>2, <1>3 DEF JobOK
<1>4. CASE job' # job
  <2>1. job[worker[w].job].of \in Checkpoints BY <1>1, <1>4 DEF EndJob, JobOK
  <2> QED BY <1>1, <1>2, <1>4, <2>1, MovedOK, JobFields DEF EndJob
<1> QED BY <1>3, <1>4

LEMMA AddJobsOK ==
  ASSUME JobOK, NEW js \in SUBSET Jobs, NEW c \in Checkpoints, AddJobs(js, c)
  PROVE  JobOK'
BY DEF JobOK, AddJobs, Job

LEMMA ReqGotoOK ==
  ASSUME ReqOK, NEW r \in Requests, req[r].pc # "idle",
         \/ ReqEnd(r)
         \/ \E pc \in {"reject", "enqueue", "revert"} : ReqGoto(r, pc)
  PROVE  ReqOK'
BY DEF ReqOK, ReqGoto, ReqEnd, Request, IdleRequest

LEMMA SweepMoveOK ==
  ASSUME SweepOK, NEW s \in Sweepers, NEW c \in Checkpoints,
         NEW pc \in {"expire", "notifyExpired", "recover", "notifyStalled"},
         \/ sweep' = [sweep EXCEPT ![s] = IdleSweep]
         \/ sweep' = [sweep EXCEPT ![s] = [pc |-> pc, of |-> c]]
  PROVE  SweepOK'
BY DEF SweepOK, Sweep, IdleSweep

LEMMA MessageOK ==
  ASSUME MsgOK, NEW c \in Checkpoints, NEW text \in Contents,
         shown' = shown \/ shown' = [shown EXCEPT ![c] = text],
         done' = done \/ done' = [done EXCEPT ![c] = TRUE],
         UNCHANGED <<timeVars, pausePc>>
  PROVE  MsgOK'
BY DEF MsgOK, timeVars

-----------------------------------------------------------------------------
LEMMA PauseTypeInv ==
  ASSUME TypeInv, NEW c \in Checkpoints, PauseStep(c)
  PROVE  TypeInv'
<1> USE Frame DEF TypeInv
<1>1. RowOK' BY DEF PauseStep, PauseMessage, PauseRow, AttachTrace, RowOK
<1>2. HistOK' BY DEF PauseStep, PauseMessage, PauseRow, AttachTrace, HistOK
<1>3. MsgOK'
  BY DEF PauseStep, PauseMessage, PauseRow, AttachTrace, MsgOK, TryUpdate, UpdateOK,
         UpdateThrows, timeVars
<1>4. ReqOK' /\ SweepOK' /\ WorkerOK' /\ JobOK'
  BY DEF PauseStep, PauseMessage, PauseRow, AttachTrace, ReqOK, SweepOK, WorkerOK, JobOK
<1> QED BY <1>1, <1>2, <1>3, <1>4

LEMMA RequestTypeInv ==
  ASSUME TypeInv, NEW r \in Requests, UserStep(r) \/ RequestStep(r) \/ HandlerCrash(r)
  PROVE  TypeInv'
<1> USE Frame DEF TypeInv
<1>a. ReqOK /\ SweepOK /\ WorkerOK /\ JobOK /\ RowOK /\ HistOK /\ MsgOK OBVIOUS
<1>1. CASE UserStep(r)
  <2>1. ReqOK' BY <1>a, <1>1 DEF UserStep, LoadCheckpoint, ReqOK, Request
  <2> QED BY <1>a, <1>1, <2>1 DEF UserStep, LoadCheckpoint
<1>2. CASE ClaimDecision(r)
  <2>1. req[r].of \in Checkpoints /\ req[r].choice \in NoChoice
    BY <1>a, <1>2 DEF ClaimDecision, ReqOK, Request
  <2>2. RowOK' BY <1>a, <1>2, <2>1 DEF ClaimDecision, RowOK
  <2>3. ReqOK' BY <1>a, <1>2, ReqGotoOK DEF ClaimDecision
  <2> QED BY <1>a, <1>2, <2>2, <2>3 DEF ClaimDecision
<1>3. CASE RejectCheckpoint(r)
  <2>1. ReqOK' BY <1>a, <1>3, ReqGotoOK DEF RejectCheckpoint
  <2>2. req[r].of \in Checkpoints BY <1>a, <1>3 DEF RejectCheckpoint, ReqOK
  <2>3. MsgOK'
    BY <1>a, <1>3, <2>2, MessageOK DEF RejectCheckpoint, UpdateOK, UpdateThrows
  <2> QED BY <1>a, <1>3, <2>1, <2>3 DEF RejectCheckpoint
<1>4. CASE EnqueueApprovalJob(r) \/ EnqueueThrows(r)
  <2>1. req[r].of \in Checkpoints
    BY <1>a, <1>4 DEF EnqueueApprovalJob, EnqueueThrows, ReqOK
  <2>2. JobOK'
    <3>1. CASE \E js \in SUBSET Jobs : AddJobs(js, req[r].of)
      BY <1>a, <2>1, <3>1, AddJobsOK
    <3>2. CASE \E j \in Jobs : AddJobs({j}, req[r].of)
      BY <1>a, <2>1, <3>2, AddJobsOK
    <3>3. CASE job' = job BY <1>a, <3>3 DEF JobOK
    <3> QED BY <1>4, <3>1, <3>2, <3>3 DEF EnqueueApprovalJob, EnqueueThrows
  <2>3. ReqOK' BY <1>a, <1>4, ReqGotoOK DEF EnqueueApprovalJob, EnqueueThrows
  <2> QED BY <1>a, <1>4, <2>2, <2>3 DEF EnqueueApprovalJob, EnqueueThrows
<1>5. CASE RevertApprovedClaim(r)
  <2>1. ReqOK' BY <1>a, <1>5, ReqGotoOK DEF RevertApprovedClaim
  <2>2. RowOK' BY <1>a, <1>5 DEF RevertApprovedClaim, RowOK
  <2> QED BY <1>a, <1>5, <2>1, <2>2 DEF RevertApprovedClaim
<1>6. CASE HandlerCrash(r)
  <2>1. ReqOK' BY <1>a, <1>6, ReqGotoOK DEF HandlerCrash
  <2> QED BY <1>a, <1>6, <2>1 DEF HandlerCrash
<1> QED BY <1>1, <1>2, <1>3, <1>4, <1>5, <1>6 DEF RequestStep

LEMMA WorkerTypeInv ==
  ASSUME TypeInv, NEW w \in Workers, WorkerStep(w)
  PROVE  TypeInv'
<1> USE Frame DEF TypeInv
<1>a. ReqOK /\ SweepOK /\ WorkerOK /\ JobOK /\ RowOK /\ HistOK /\ MsgOK OBVIOUS
<1>1. CASE \E j \in Jobs : TakeJob(w, j)
  <2>1. PICK j \in Jobs : TakeJob(w, j) BY <1>1
  <2>2. job[j].of \in Checkpoints BY <1>a, <2>1 DEF TakeJob, JobOK
  <2>3. JobOK' BY <1>a, <2>1, <2>2, MovedOK, JobFields DEF TakeJob
  <2>4. WorkerOK' BY <1>a, <2>1, <2>2 DEF TakeJob, WorkerOK, Worker
  <2> QED BY <1>a, <2>1, <2>3, <2>4 DEF TakeJob
<1>2. CASE FindCheckpoint(w)
  <2>1. WorkerOK' BY <1>a, <1>2 DEF FindCheckpoint, WorkerOK, Worker, RowOK
  <2> QED BY <1>a, <1>2, <2>1 DEF FindCheckpoint
<1>3. CASE ClaimExecution(w)
  <2>1. WorkerOK' /\ JobOK'
    BY <1>a, <1>3, EndJobOK, GotoOK DEF ClaimExecution, JobOK
  <2>2. RowOK' BY <1>a, <1>3 DEF ClaimExecution, RowOK
  <2> QED BY <1>a, <1>3, <2>1, <2>2 DEF ClaimExecution
<1>4. CASE StartTurn(w)
  <2>1. WorkerOK' /\ JobOK' BY <1>a, <1>4, EndJobOK, GotoOK DEF StartTurn, JobOK
  <2> QED BY <1>a, <1>4, <2>1 DEF StartTurn
<1>5. CASE CallTool(w)
  <2>1. WorkerOK' BY <1>a, <1>5, GotoOK DEF CallTool
  <2>2. worker[w].snap \in NoChoice BY <1>a DEF WorkerOK, Worker
  <2>3. HistOK' BY <1>a, <1>5, <2>2 DEF CallTool, ToolEffect, HistOK
  <2> QED BY <1>a, <1>5, <2>1, <2>3 DEF CallTool
<1>6. CASE MarkToolExecuted(w)
  <2>1. WorkerOK' BY <1>a, <1>6, GotoOK DEF MarkToolExecuted
  <2>2. RowOK' BY <1>a, <1>6 DEF MarkToolExecuted, RowOK
  <2> QED BY <1>a, <1>6, <2>1, <2>2 DEF MarkToolExecuted
<1>7. ASSUME NEW pc \in Executing, NEW text \in Contents, NEW next \in Executing,
             UpdateThen(w, pc, text, next)
      PROVE  TypeInv'
  <2>1. WorkerOK' BY <1>a, <1>7, GotoOK DEF UpdateThen
  <2>2. worker[w].of \in Checkpoints BY <1>a, <1>7 DEF UpdateThen, WorkerOK
  <2>3. MsgOK'
    BY <1>a, <1>7, <2>2, MessageOK DEF UpdateThen, UpdateOK, UpdateThrows
  <2> QED BY <1>a, <1>7, <2>1, <2>3 DEF UpdateThen
<1>8. CASE ReportToolFailure(w) \/ Summarise(w) \/ FinishTurn(w)
  BY <1>7, <1>8 DEF ReportToolFailure, Summarise, FinishTurn
<1>9. CASE ContinueRounds(w)
  <2>1. WorkerOK' BY <1>a, <1>9, GotoOK DEF ContinueRounds
  <2> QED BY <1>a, <1>9, <2>1 DEF ContinueRounds
<1>10. CASE CatchTurn(w)
  <2>1. WorkerOK' BY <1>a, <1>10, GotoOK DEF CatchTurn
  <2>2. worker[w].of \in Checkpoints BY <1>a, <1>10 DEF CatchTurn, WorkerOK
  <2>3. MsgOK'
    BY <1>a, <1>10, <2>2, MessageOK DEF CatchTurn, TryUpdate, UpdateOK, UpdateThrows
  <2> QED BY <1>a, <1>10, <2>1, <2>3 DEF CatchTurn
<1>11. CASE EmitDone(w)
  <2>1. WorkerOK' /\ JobOK' BY <1>a, <1>11, EndJobOK DEF EmitDone
  <2>2. MsgOK' BY <1>a, <1>11 DEF EmitDone, MsgOK, timeVars
  <2> QED BY <1>a, <1>11, <2>1, <2>2 DEF EmitDone
<1> QED BY <1>1, <1>2, <1>3, <1>4, <1>5, <1>6, <1>8, <1>9, <1>10, <1>11 DEF WorkerStep

LEMMA FaultTypeInv ==
  ASSUME TypeInv, NEW w \in Workers, WorkerCrash(w) \/ LockLost(w)
  PROVE  TypeInv'
<1> USE Frame DEF TypeInv
<1> DEFINE j == worker[w].job
<1>a. ReqOK /\ SweepOK /\ WorkerOK /\ JobOK /\ RowOK /\ HistOK /\ MsgOK OBVIOUS
<1>1. worker[w].of \in Checkpoints /\ j \in Jobs
  BY <1>a DEF WorkerCrash, LockLost, WorkerOK
<1>2. JobOK'
  <2>1. CASE job' = job BY <1>a, <2>1 DEF JobOK
  <2>2. CASE job[j].owner = w /\ job' = [job EXCEPT ![j] = Redelivered(j)]
    <3>1. job[j].of \in Checkpoints
      BY <1>a, <1>1, <2>2, NoneAssumption DEF JobOK
    <3>2. job[j].stalls \in 0..MaxStalls BY <1>a, <1>1, JobFields
    <3>3. CASE job[j].stalls < MaxStalls
      <4>1. job[j].stalls + 1 \in 0..MaxStalls BY <3>2, <3>3
      <4>2. job' = [job EXCEPT ![j] = Moved(j, "waiting", None, job[j].stalls + 1)]
        BY <2>2, <3>3 DEF Redelivered
      <4> HIDE DEF j
      <4> QED BY <1>a, <1>1, <3>1, <4>1, <4>2, MovedOK
    <3>4. CASE ~(job[j].stalls < MaxStalls)
      <4>1. job' = [job EXCEPT ![j] = Moved(j, "gone", None, job[j].stalls)]
        BY <2>2, <3>4 DEF Redelivered
      <4> HIDE DEF j
      <4> QED BY <1>a, <1>1, <3>1, <3>2, <4>1, MovedOK
    <3> QED BY <3>3, <3>4
  <2> QED BY <2>1, <2>2 DEF WorkerCrash, LockLost
<1>3. WorkerOK' BY <1>a DEF WorkerCrash, LockLost, WorkerOK, IdleWorker, Worker
<1>4. HistOK' BY <1>a, <1>1 DEF WorkerCrash, LockLost, HistOK, histVars
<1> QED BY <1>a, <1>2, <1>3, <1>4 DEF WorkerCrash, LockLost

LEMMA SweepTypeInv ==
  ASSUME TypeInv, NEW s \in Sweepers, SweepStep(s) \/ SweepCrash(s)
  PROVE  TypeInv'
<1> USE Frame DEF TypeInv
<1>a. ReqOK /\ SweepOK /\ WorkerOK /\ JobOK /\ RowOK /\ HistOK /\ MsgOK OBVIOUS
<1>1. CASE \E c \in Checkpoints : FindExpiredPending(s, c) \/ FindStalledExecution(s, c)
  <2>1. SweepOK'
    BY <1>a, <1>1, SweepMoveOK DEF FindExpiredPending, FindStalledExecution, Sweeping
  <2> QED BY <1>a, <1>1, <2>1 DEF FindExpiredPending, FindStalledExecution, Sweeping
<1>2. CASE ExpireClaim(s) \/ RecoverClaim(s)
  <2>1. sweep[s].of \in Checkpoints
    BY <1>a, <1>2 DEF ExpireClaim, RecoverClaim, SweepReject, SweepOK
  <2>2. SweepOK'
    BY <1>a, <1>2, <2>1, SweepMoveOK DEF ExpireClaim, RecoverClaim, SweepReject
  <2>3. RowOK' BY <1>a, <1>2 DEF ExpireClaim, RecoverClaim, SweepReject, RowOK
  <2> QED BY <1>a, <1>2, <2>2, <2>3 DEF ExpireClaim, RecoverClaim, SweepReject
<1>3. CASE SweepNotify(s) \/ SweepCrash(s)
  <2>1. SweepOK'
    BY <1>a, <1>3 DEF SweepNotify, SweepCrash, SweepOK, Sweep, IdleSweep
  <2>2. sweep[s].of \in Checkpoints
    BY <1>a, <1>3 DEF SweepNotify, SweepCrash, SweepOK
  <2>3. MsgOK'
    BY <1>a, <1>3, <2>2, MessageOK
    DEF SweepNotify, SweepCrash, UpdateOK, UpdateThrows, msgVars, MsgOK, timeVars
  <2> QED BY <1>a, <1>3, <2>1, <2>3 DEF SweepNotify, SweepCrash
<1> QED BY <1>1, <1>2, <1>3 DEF SweepStep

LEMMA TimingTypeInv ==
  ASSUME TypeInv, Timing \/ UNCHANGED vars
  PROVE  TypeInv'
<1> USE Frame DEF TypeInv
<1>a. ReqOK /\ SweepOK /\ WorkerOK /\ JobOK /\ RowOK /\ HistOK /\ MsgOK OBVIOUS
<1>1. MsgOK'
  BY <1>a DEF Timing, PassExpiry, PassStall, MsgOK, msgVars, vars, timeVars
<1> QED BY <1>a, <1>1 DEF Timing, PassExpiry, PassStall, vars

\* Every variable keeps its type, and every busy actor keeps its checkpoint:
\* the row, the message, the queue and the actors around them.
THEOREM TypeInvariance == Spec => []TypeInv
<1>1. TypeInv /\ [Next]_vars => TypeInv'
  BY PauseTypeInv, RequestTypeInv, WorkerTypeInv, FaultTypeInv, SweepTypeInv,
     TimingTypeInv DEF Next, Failing
<1> QED BY <1>1, InitTypeInv, PTL DEF Spec

\* TypeOK holds of every reachable state of the lifecycle.
THEOREM TypeCorrect == Spec => []TypeOK
BY TypeInvariance, TypeInvType, PTL

-----------------------------------------------------------------------------
(* At most one execution.                                                  *)

\* A step that lets no worker into the turn, and none back before the tool.
NoEntry ==
  \A v \in Workers : worker'[v].pc \in Executing =>
    /\ worker[v].pc \in Executing /\ worker'[v].of = worker[v].of
    /\ worker'[v].pc \in BeforeTool => worker[v].pc \in BeforeTool

LEMMA NoEntryExecInv ==
  ASSUME TypeInv, ExecInv, NoEntry, UNCHANGED <<started, toolRuns>>
  PROVE  ExecInv'
<1>1. StartInv' BY DEF ExecInv, StartInv, NoEntry
<1>2. Exclusive' BY DEF ExecInv, Exclusive, NoEntry
<1>3. NotYetRun' BY DEF ExecInv, NotYetRun, NoEntry
<1>4. AtMostOnceExecution' BY DEF ExecInv, AtMostOnceExecution
<1> QED BY <1>1, <1>2, <1>3, <1>4 DEF ExecInv

LEMMA GotoNoEntry ==
  ASSUME WorkerOK, NEW w \in Workers, NEW pc, Goto(w, pc),
         pc \notin Executing \/ worker[w].pc \in Executing,
         pc \notin BeforeTool \/ worker[w].pc \in BeforeTool
  PROVE  NoEntry
BY DEF WorkerOK, Worker, Goto, NoEntry

LEMMA EndJobNoEntry ==
  ASSUME WorkerOK, NEW w \in Workers, worker' = [worker EXCEPT ![w] = IdleWorker]
  PROVE  NoEntry
BY DEF WorkerOK, Worker, IdleWorker, NoEntry

LEMMA ClaimExecInv ==
  ASSUME TypeInv, ExecInv, NEW w \in Workers, ClaimExecution(w)
  PROVE  ExecInv'
<1> DEFINE c == worker[w].of
<1>1. CASE started[c]
  <2>1. EndJob(w) /\ UNCHANGED <<started, toolRuns>>
    BY <1>1 DEF ClaimExecution, histVars
  <2> QED BY <2>1, EndJobNoEntry, NoEntryExecInv DEF EndJob, TypeInv
<1>2. CASE ~started[c]
  <2>0. c \in Checkpoints /\ toolRuns[c] = 0
    BY <1>2 DEF ClaimExecution, TypeInv, WorkerOK, ExecInv, StartInv
  <2>1. started' = [started EXCEPT ![c] = TRUE] /\ toolRuns' = toolRuns
    BY <1>2 DEF ClaimExecution, histVars
  <2>2. worker' = [worker EXCEPT ![w] = [pc |-> "start", job |-> worker[w].job,
                      of |-> c, snap |-> worker[w].snap]]
    BY <1>2 DEF ClaimExecution, Goto
  <2>3. /\ worker'[w].pc = "start" /\ worker'[w].of = c
        /\ \A v \in Workers : v # w => worker'[v] = worker[v]
    BY <2>2 DEF TypeInv, WorkerOK
  <2>4. \A v \in Workers : worker[v].pc \in Executing => worker[v].of # c
    BY <1>2 DEF ExecInv, StartInv
  <2>5. \A v \in Workers : worker[v].pc \in Executing => worker[v].of \in Checkpoints
    BY DEF TypeInv, WorkerOK
  <2>6. /\ started' \in [Checkpoints -> BOOLEAN] /\ started'[c]
        /\ \A d \in Checkpoints : d # c => started'[d] = started[d]
    BY <2>0, <2>1 DEF TypeInv, RowOK
  <2>7. StartInv'
    BY <2>0, <2>1, <2>3, <2>4, <2>5, <2>6 DEF ExecInv, StartInv
  <2>8. Exclusive' BY <2>3, <2>4 DEF ExecInv, Exclusive
  <2>9. NotYetRun' BY <2>0, <2>1, <2>3 DEF ExecInv, NotYetRun
  <2>10. AtMostOnceExecution' BY <2>1 DEF ExecInv, AtMostOnceExecution
  <2> QED BY <2>7, <2>8, <2>9, <2>10 DEF ExecInv
<1> QED BY <1>1, <1>2

LEMMA CallToolExecInv ==
  ASSUME TypeInv, ExecInv, NEW w \in Workers, CallTool(w)
  PROVE  ExecInv'
<1> DEFINE c == worker[w].of
<1>1. PICK pc \in AfterTool : Goto(w, pc) BY DEF CallTool
<1>2. NoEntry BY <1>1, GotoNoEntry DEF CallTool, TypeInv
<1>3. started' = started BY DEF CallTool, rowVars
<1>4. CASE toolRuns' = toolRuns BY <1>2, <1>3, <1>4, NoEntryExecInv
<1>5. CASE toolRuns' = [toolRuns EXCEPT ![c] = @ + 1]
  <2>0. /\ c \in Checkpoints /\ toolRuns[c] = 0 /\ started[c]
    BY DEF CallTool, TypeInv, WorkerOK, ExecInv, NotYetRun, StartInv
  <2>1. /\ toolRuns'[c] = 1
        /\ \A d \in Checkpoints : d # c => toolRuns'[d] = toolRuns[d]
    BY <1>5, <2>0 DEF TypeInv, HistOK
  <2>2. worker'[w].pc \in AfterTool
    BY <1>1 DEF Goto, TypeInv, WorkerOK
  <2>3. \A v \in Workers : v # w /\ worker[v].pc \in Executing =>
           worker[v].of # c /\ worker[v].of \in Checkpoints
    BY DEF CallTool, ExecInv, Exclusive, TypeInv, WorkerOK
  <2>4. StartInv' BY <1>2, <1>3, <2>0, <2>1 DEF ExecInv, StartInv, NoEntry
  <2>5. Exclusive' BY <1>2 DEF ExecInv, Exclusive, NoEntry
  <2>6. NotYetRun' BY <1>2, <2>1, <2>2, <2>3 DEF ExecInv, NotYetRun, NoEntry
  <2>7. AtMostOnceExecution' BY <2>1 DEF ExecInv, AtMostOnceExecution
  <2> QED BY <2>4, <2>5, <2>6, <2>7 DEF ExecInv
<1> QED BY <1>4, <1>5 DEF CallTool, ToolEffect

LEMMA WorkerExecInv ==
  ASSUME TypeInv, ExecInv, NEW w \in Workers, WorkerStep(w)
  PROVE  ExecInv'
<1>1. CASE ClaimExecution(w) BY <1>1, ClaimExecInv
<1>2. CASE CallTool(w) BY <1>2, CallToolExecInv
<1>3. CASE UNCHANGED <<started, toolRuns>> /\ NoEntry BY <1>3, NoEntryExecInv
<1>4. CASE \E j \in Jobs : TakeJob(w, j)
  <2>1. NoEntry BY <1>4 DEF TakeJob, NoEntry, TypeInv, WorkerOK
  <2> QED BY <1>3, <1>4, <2>1 DEF TakeJob, rowVars, histVars
<1>5. CASE FindCheckpoint(w)
  <2>1. NoEntry BY <1>5 DEF FindCheckpoint, NoEntry, TypeInv, WorkerOK
  <2> QED BY <1>3, <1>5, <2>1 DEF FindCheckpoint, rowVars, histVars
<1>6. CASE StartTurn(w)
  <2>1. NoEntry
    BY <1>6, GotoNoEntry, EndJobNoEntry DEF StartTurn, EndJob, TypeInv
  <2> QED BY <1>3, <1>6, <2>1 DEF StartTurn, rowVars, histVars
<1>7. CASE MarkToolExecuted(w)
  <2>1. NoEntry BY <1>7, GotoNoEntry DEF MarkToolExecuted, TypeInv
  <2> QED BY <1>3, <1>7, <2>1 DEF MarkToolExecuted, histVars
<1>8. CASE ReportToolFailure(w) \/ Summarise(w) \/ FinishTurn(w)
  <2>1. NoEntry
    BY <1>8, GotoNoEntry
    DEF ReportToolFailure, Summarise, FinishTurn, UpdateThen, TypeInv
  <2> QED BY <1>3, <1>8, <2>1
          DEF ReportToolFailure, Summarise, FinishTurn, UpdateThen, rowVars, histVars
<1>9. CASE ContinueRounds(w)
  <2>1. NoEntry BY <1>9, GotoNoEntry DEF ContinueRounds, TypeInv
  <2> QED BY <1>3, <1>9, <2>1 DEF ContinueRounds, rowVars, histVars
<1>10. CASE CatchTurn(w)
  <2>1. NoEntry BY <1>10, GotoNoEntry DEF CatchTurn, TypeInv
  <2> QED BY <1>3, <1>10, <2>1 DEF CatchTurn, rowVars, histVars
<1>11. CASE EmitDone(w)
  <2>1. NoEntry BY <1>11, EndJobNoEntry DEF EmitDone, EndJob, TypeInv
  <2> QED BY <1>3, <1>11, <2>1 DEF EmitDone, rowVars, histVars
<1> QED BY <1>1, <1>2, <1>4, <1>5, <1>6, <1>7, <1>8, <1>9, <1>10, <1>11 DEF WorkerStep

LEMMA FaultExecInv ==
  ASSUME TypeInv, ExecInv, NEW w \in Workers, WorkerCrash(w) \/ LockLost(w)
  PROVE  ExecInv'
<1>1. NoEntry BY EndJobNoEntry DEF WorkerCrash, LockLost, NoEntry, TypeInv
<1> QED BY <1>1, NoEntryExecInv DEF WorkerCrash, LockLost, rowVars, histVars

\* What requests, cron runs, the clock and the pausing turn do leaves the
\* workers, the claims and the effects alone.
LEMMA OtherExecInv ==
  ASSUME TypeInv, ExecInv,
         \/ \E c \in Checkpoints : PauseStep(c)
         \/ \E r \in Requests : UserStep(r) \/ RequestStep(r) \/ HandlerCrash(r)
         \/ \E s \in Sweepers : SweepStep(s) \/ SweepCrash(s)
         \/ Timing \/ UNCHANGED vars
  PROVE  ExecInv'
<1>1. UNCHANGED <<worker, started, toolRuns>>
  <2> USE DEF rowVars, histVars
  <2>1. CASE \E c \in Checkpoints : PauseStep(c)
    BY <2>1 DEF PauseStep, PauseMessage, PauseRow, AttachTrace
  <2>2. CASE \E r \in Requests : UserStep(r) \/ RequestStep(r) \/ HandlerCrash(r)
    BY <2>2 DEF UserStep, LoadCheckpoint, RequestStep, ClaimDecision, RejectCheckpoint,
       EnqueueApprovalJob, EnqueueThrows, RevertApprovedClaim, HandlerCrash
  <2>3. CASE \E s \in Sweepers : SweepStep(s) \/ SweepCrash(s)
    BY <2>3 DEF SweepStep, FindExpiredPending, FindStalledExecution, Sweeping,
       ExpireClaim, RecoverClaim, SweepReject, SweepNotify, SweepCrash
  <2>4. CASE Timing \/ UNCHANGED vars
    BY <2>4 DEF Timing, PassExpiry, PassStall, vars
  <2> QED BY <2>1, <2>2, <2>3, <2>4
<1> QED BY <1>1, NoEntryExecInv DEF NoEntry

\* The inductive invariant behind claimExecution(): whoever is in the turn has
\* set execution_started_at, and alone, and before the tool nothing has run.
THEOREM ExecInvariance == Spec => []ExecInv
<1>1. Init => ExecInv
  BY DEF Init, ExecInv, StartInv, Exclusive, NotYetRun, AtMostOnceExecution, IdleWorker
<1>2. TypeInv /\ ExecInv /\ [Next]_vars => ExecInv'
  BY WorkerExecInv, FaultExecInv, OtherExecInv DEF Next, Failing
<1> QED BY <1>1, <1>2, TypeInvariance, PTL DEF Spec

\* Whatever crashes, is redelivered, added twice or approved twice, the
\* approved tool takes effect at most once (claimExecution()).
THEOREM AtMostOnce == Spec => []AtMostOnceExecution
<1>1. ExecInv => AtMostOnceExecution BY DEF ExecInv
<1> QED BY <1>1, ExecInvariance, PTL

-----------------------------------------------------------------------------
(* A rejection is final.                                                   *)

\* The pausing turn inserts the row once, and nobody decides before that.
PauseInv ==
  \A c \in Checkpoints : pausePc[c] \in {"none", "row"} => status[c] = "absent"

\* How the status column changes: the INSERT of the pausing turn, or an UPDATE
\* of a row that is pending or approved.
Inserted(c) ==
  /\ pausePc[c] = "row" /\ pausePc'[c] \notin {"none", "row"}
  /\ status' = [status EXCEPT ![c] = "pending"]
  /\ \A d \in Checkpoints : d # c => pausePc'[d] = pausePc[d]
Decided(c) ==
  /\ status[c] \in {"pending", "approved"}
  /\ \E v \in Statuses : status' = [status EXCEPT ![c] = v]
  /\ pausePc' = pausePc
Untouched ==
  /\ status' = status
  /\ \A c \in Checkpoints : pausePc'[c] \in {"none", "row"} => pausePc[c] \in {"none", "row"}
StatusStep == Untouched \/ \E c \in Checkpoints : Inserted(c) \/ Decided(c)

LEMMA NextStatusStep ==
  ASSUME TypeInv, [Next]_vars
  PROVE  StatusStep
<1> USE DEF rowVars, StatusStep
<1>1. ASSUME NEW c \in Checkpoints, PauseStep(c) PROVE StatusStep
  <2>1. CASE PauseMessage(c)
    <3>1. Untouched BY <2>1 DEF PauseMessage, Untouched, TypeInv, MsgOK
    <3> QED BY <3>1
  <2>2. CASE PauseRow(c)
    <3>1. Untouched \/ Inserted(c)
      BY <2>2 DEF PauseRow, Untouched, Inserted, TypeInv, MsgOK
    <3> QED BY <3>1
  <2>3. CASE AttachTrace(c)
    <3>1. Untouched BY <2>3 DEF AttachTrace, Untouched, TypeInv, MsgOK
    <3> QED BY <3>1
  <2> QED BY <1>1, <2>1, <2>2, <2>3 DEF PauseStep
<1>2. ASSUME NEW r \in Requests, ClaimDecision(r) \/ RevertApprovedClaim(r)
      PROVE  StatusStep
  <2>1. req[r].of \in Checkpoints
    BY <1>2 DEF ClaimDecision, RevertApprovedClaim, TypeInv, ReqOK
  <2>2. CASE ClaimDecision(r)
    <3>1. Untouched \/ Decided(req[r].of)
      BY <2>2 DEF ClaimDecision, CanClaim, Untouched, Decided
    <3> QED BY <2>1, <3>1
  <2>3. CASE RevertApprovedClaim(r)
    <3>1. CASE status[req[r].of] = "approved"
      BY <2>1, <2>3, <3>1 DEF RevertApprovedClaim, Decided
    <3>2. CASE status[req[r].of] # "approved"
      <4>1. status' = status
        BY <2>1, <2>3, <3>2 DEF RevertApprovedClaim, TypeInv, RowOK
      <4> QED BY <2>3, <4>1 DEF RevertApprovedClaim, Untouched
    <3> QED BY <3>1, <3>2
  <2> QED BY <1>2, <2>2, <2>3
<1>3. ASSUME NEW s \in Sweepers, ExpireClaim(s) \/ RecoverClaim(s) PROVE StatusStep
  <2>1. sweep[s].of \in Checkpoints
    BY <1>3 DEF ExpireClaim, RecoverClaim, SweepReject, TypeInv, SweepOK
  <2>2. Untouched \/ Decided(sweep[s].of)
    BY <1>3 DEF ExpireClaim, RecoverClaim, SweepReject, Untouched, Decided
  <2> QED BY <2>1, <2>2
<1>4. ASSUME UNCHANGED <<status, pausePc>> PROVE StatusStep
  BY <1>4 DEF Untouched
<1>5. ASSUME NEW r \in Requests, UserStep(r) \/ RequestStep(r) \/ HandlerCrash(r)
      PROVE  StatusStep
  BY <1>2, <1>4, <1>5 DEF UserStep, LoadCheckpoint, RequestStep, RejectCheckpoint,
     EnqueueApprovalJob, EnqueueThrows, HandlerCrash
<1>6. ASSUME NEW w \in Workers, WorkerStep(w) \/ WorkerCrash(w) \/ LockLost(w)
      PROVE  StatusStep
  BY <1>4, <1>6 DEF WorkerStep, TakeJob, FindCheckpoint, ClaimExecution, StartTurn,
     CallTool, MarkToolExecuted, ReportToolFailure, Summarise, FinishTurn, UpdateThen,
     ContinueRounds, CatchTurn, EmitDone, WorkerCrash, LockLost
<1>7. ASSUME NEW s \in Sweepers, SweepStep(s) \/ SweepCrash(s) PROVE StatusStep
  BY <1>3, <1>4, <1>7 DEF SweepStep, FindExpiredPending, FindStalledExecution, Sweeping,
     SweepNotify, SweepCrash
<1>8. CASE Timing \/ UNCHANGED vars
  BY <1>4, <1>8 DEF Timing, PassExpiry, PassStall, vars
<1> QED BY <1>1, <1>5, <1>6, <1>7, <1>8 DEF Next, Failing

StaysRejected == \A c \in Checkpoints : status[c] = "rejected" => status'[c] = "rejected"

LEMMA PauseStepInv ==
  ASSUME TypeInv, PauseInv, [Next]_vars
  PROVE  PauseInv' /\ StaysRejected
<1> USE DEF StaysRejected
<1>1. CASE Untouched BY <1>1 DEF Untouched, PauseInv
<1>2. ASSUME NEW c \in Checkpoints, Inserted(c) PROVE PauseInv' /\ StaysRejected
  BY <1>2 DEF Inserted, PauseInv, TypeInv, RowOK
<1>3. ASSUME NEW c \in Checkpoints, Decided(c) PROVE PauseInv' /\ StaysRejected
  BY <1>3 DEF Decided, PauseInv, TypeInv, RowOK
<1> QED BY <1>1, <1>2, <1>3, NextStatusStep DEF StatusStep

\* Until the pausing turn has inserted it there is no row to decide on.
THEOREM PauseInvariance == Spec => []PauseInv
<1>1. Init => PauseInv BY DEF Init, PauseInv
<1>2. TypeInv /\ PauseInv /\ [Next]_vars => PauseInv' BY PauseStepInv
<1> QED BY <1>1, <1>2, TypeInvariance, PTL DEF Spec

\* Nothing reopens or runs a rejected checkpoint: no second answer, no late
\* revert of a failed enqueue, no cron run (claim(), revertApprovedClaim()).
THEOREM RejectionFinal == Spec => RejectionIsFinal
<1>1. TypeInv /\ PauseInv /\ [Next]_vars => [StaysRejected]_vars BY PauseStepInv
<1> QED BY <1>1, PauseInvariance, TypeInvariance, PTL
        DEF Spec, RejectionIsFinal, StaysRejected

-----------------------------------------------------------------------------
(* Whose approval it is: from the claim of the row, through the queue, to  *)
(* the worker or the cron run that ends it.                                *)

\* There is, or there was, a job for the checkpoint.
Queued(c) == \E j \in Jobs : job[j].state # "unused" /\ job[j].of = c

\* Between claim() and the end of queue.add() a handler has its row to itself.
Handing(r) == req[r].pc \in {"enqueue", "revert"}
HandlerInv ==
  /\ \A r \in Requests : Handing(r) => status[req[r].of] = "approved" /\ ~Queued(req[r].of)
  /\ \A q, r \in Requests : Handing(q) /\ Handing(r) /\ req[q].of = req[r].of => q = r
\* A row with a job is decided, and approved until the turn has started.
QueueInv ==
  \A c \in Checkpoints :
    /\ Queued(c) => status[c] \in {"approved", "rejected"}
    /\ Queued(c) /\ ~started[c] => status[c] = "approved"
    /\ started[c] => Queued(c)
\* A busy worker has a job for its row; what it read is still there; while the
\* turn runs the row is approved and not yet stalled.
OwnerInv ==
  \A w \in Workers : worker[w].pc # "idle" =>
    /\ job[worker[w].job].state # "unused" /\ job[worker[w].job].of = worker[w].of
    /\ worker[w].pc # "find" => worker[w].snap = payload[worker[w].of]
    /\ worker[w].pc \in Executing =>
         status[worker[w].of] = "approved" /\ worker[w].of \notin stale
\* A row is stalled after its turn has ended, and the cron run that gives it up
\* has seen that its tool is not known to have run.
StallInv ==
  /\ \A c \in stale : started[c]
  /\ \A s \in Sweepers : sweep[s].pc = "recover" =>
       sweep[s].of \in stale /\ ~executed[sweep[s].of]

OwnInv == HandlerInv /\ QueueInv /\ OwnerInv /\ StallInv /\ RanWhatWasApproved
Known  == TypeInv /\ ExecInv /\ PauseInv /\ OwnInv

LEMMA InitOwnInv == Init => OwnInv
<1> SUFFICES ASSUME Init PROVE OwnInv OBVIOUS
<1> USE DEF Init
<1>1. \A c \in Checkpoints : ~Queued(c) BY DEF Queued, UnusedJob
<1>2. HandlerInv BY DEF HandlerInv, Handing, IdleRequest
<1>3. QueueInv BY <1>1 DEF QueueInv
<1>4. OwnerInv BY DEF OwnerInv, IdleWorker
<1>5. StallInv BY DEF StallInv, IdleSweep
<1>6. RanWhatWasApproved BY DEF RanWhatWasApproved
<1> QED BY <1>2, <1>3, <1>4, <1>5, <1>6 DEF OwnInv

\* What each part of the invariant depends on.
LEMMA OwnFrame ==
  /\ HandlerInv /\ UNCHANGED <<req, status, job>> => HandlerInv'
  /\ QueueInv /\ UNCHANGED <<job, status, started>> => QueueInv'
  /\ OwnerInv /\ UNCHANGED <<worker, job, payload, status, stale>> => OwnerInv'
  /\ StallInv /\ UNCHANGED <<stale, started, sweep, executed>> => StallInv'
  /\ RanWhatWasApproved /\ UNCHANGED <<toolRuns, ranWith, payload>> => RanWhatWasApproved'
<1>1. HandlerInv /\ UNCHANGED <<req, status, job>> => HandlerInv'
  BY DEF HandlerInv, Handing, Queued
<1>2. QueueInv /\ UNCHANGED <<job, status, started>> => QueueInv'
  BY DEF QueueInv, Queued
<1>3. OwnerInv /\ UNCHANGED <<worker, job, payload, status, stale>> => OwnerInv'
  BY DEF OwnerInv
<1>4. StallInv /\ UNCHANGED <<stale, started, sweep, executed>> => StallInv'
  BY DEF StallInv
<1>5. RanWhatWasApproved /\ UNCHANGED <<toolRuns, ranWith, payload>> => RanWhatWasApproved'
  BY DEF RanWhatWasApproved
<1> QED BY <1>1, <1>2, <1>3, <1>4, <1>5

\* Jobs move, but no job comes or changes its checkpoint.
JobsKept ==
  \A j \in Jobs : /\ job'[j].state # "unused" <=> job[j].state # "unused"
                  /\ job'[j].of = job[j].of

LEMMA JobsKeptQueued ==
  ASSUME JobsKept
  PROVE  \A c : Queued(c)' = Queued(c)
BY DEF JobsKept, Queued

LEMMA EndJobKept ==
  ASSUME Known, NEW w \in Workers, worker[w].pc # "idle", EndJob(w)
  PROVE  JobsKept
BY DEF Known, TypeInv, WorkerOK, JobOK, EndJob, JobsKept, Moved

\* A request ends or goes on to the revert.
LEMMA RequestMoves ==
  ASSUME Known, NEW r \in Requests,
         \/ ReqEnd(r)
         \/ req[r].pc = "enqueue" /\ ReqGoto(r, "revert"),
         UNCHANGED <<status, job>>
  PROVE  HandlerInv'
<1>1. \A q \in Requests : Handing(q)' => Handing(q) /\ req'[q].of = req[q].of
  BY DEF Known, TypeInv, ReqOK, Handing, ReqEnd, ReqGoto, IdleRequest
<1>2. \A c : Queued(c)' = Queued(c) BY DEF Queued
<1> QED BY <1>1, <1>2 DEF Known, OwnInv, HandlerInv

\* A worker goes on, or ends, and only lets go of jobs.
LEMMA WorkerMoves ==
  ASSUME Known, JobsKept, UNCHANGED <<req, status, started, payload, stale>>,
         \A w \in Workers : worker'[w].pc # "idle" =>
           /\ worker[w].pc # "idle" /\ worker'[w].of = worker[w].of
           /\ worker'[w].job = worker[w].job
           /\ worker'[w].pc # "find" =>
                worker[w].pc # "find" /\ worker'[w].snap = worker[w].snap
           /\ worker'[w].pc \in Executing => worker[w].pc \in Executing
  PROVE  HandlerInv' /\ QueueInv' /\ OwnerInv'
<1>1. \A c : Queued(c)' = Queued(c) BY JobsKeptQueued
<1>2. HandlerInv' BY <1>1 DEF Known, OwnInv, HandlerInv, Handing
<1>3. QueueInv' BY <1>1 DEF Known, OwnInv, QueueInv
<1>4. OwnerInv' BY DEF Known, OwnInv, OwnerInv, JobsKept, TypeInv, WorkerOK
<1> QED BY <1>2, <1>3, <1>4

-----------------------------------------------------------------------------
LEMMA PauseOwnInv ==
  ASSUME Known, NEW c \in Checkpoints, PauseStep(c)
  PROVE  OwnInv'
<1> USE DEF OwnInv, rowVars, timeVars, histVars
<1>1. CASE UNCHANGED status
  BY <1>1, OwnFrame DEF Known, PauseStep, PauseMessage, PauseRow, AttachTrace
<1>2. CASE status' = [status EXCEPT ![c] = "pending"] /\ PauseRow(c)
  <2>1. status[c] = "absent" BY <1>2 DEF Known, PauseRow, PauseInv
  <2>2. /\ UNCHANGED <<req, job, worker, sweep, payload, started, executed, stale,
                       toolRuns, ranWith>>
        /\ \A d : Queued(d)' = Queued(d)
    BY <1>2 DEF PauseRow, Queued
  <2>3. \A d \in Checkpoints : d # c => status'[d] = status[d]
    BY <1>2 DEF Known, TypeInv, RowOK
  <2>4. HandlerInv'
    BY <2>1, <2>2, <2>3 DEF Known, HandlerInv, Handing, TypeInv, ReqOK
  <2>5. QueueInv' BY <2>1, <2>2, <2>3 DEF Known, QueueInv
  <2>6. OwnerInv' BY <2>1, <2>2, <2>3 DEF Known, OwnerInv, TypeInv, WorkerOK
  <2> QED BY <2>2, <2>4, <2>5, <2>6, OwnFrame DEF Known
<1> QED BY <1>1, <1>2 DEF PauseStep, PauseMessage, PauseRow, AttachTrace

LEMMA ClaimOwnInv ==
  ASSUME Known, NEW r \in Requests, ClaimDecision(r)
  PROVE  OwnInv'
<1> DEFINE c == req[r].of
<1> USE DEF OwnInv, histVars, timeVars
<1>0. c \in Checkpoints BY DEF ClaimDecision, Known, TypeInv, ReqOK
<1>1. CASE status[c] # "pending"
  <2>1. ReqEnd(r) /\ UNCHANGED <<status, payload>> BY <1>1 DEF ClaimDecision, CanClaim
  <2>2. HandlerInv' BY <2>1, RequestMoves DEF ClaimDecision
  <2> QED BY <2>1, <2>2, OwnFrame DEF Known, ClaimDecision
<1>2. CASE status[c] = "pending"
  <2>1. ~Queued(c) /\ ~started[c] /\ ~(\E q \in Requests : Handing(q) /\ req[q].of = c)
    BY <1>0, <1>2 DEF Known, HandlerInv, QueueInv
  <2>2. /\ status'[c] \in {"approved", "rejected"}
        /\ \A d \in Checkpoints : d # c => status'[d] = status[d] /\ payload'[d] = payload[d]
        /\ req'[r].of = c
        /\ Handing(r)' => status'[c] = "approved"
        /\ \A q \in Requests : q # r => req'[q] = req[q]
    BY <1>0, <1>2 DEF ClaimDecision, CanClaim, ReqGoto, Handing, Known, TypeInv, RowOK, ReqOK
  <2>3. /\ UNCHANGED <<job, worker, sweep, started, executed, stale, toolRuns, ranWith>>
        /\ \A d : Queued(d)' = Queued(d)
    BY DEF ClaimDecision, Queued
  <2>4. HandlerInv'
    BY <2>1, <2>2, <2>3 DEF HandlerInv, Handing, Known, TypeInv, ReqOK
  <2>5. QueueInv' BY <2>1, <2>2, <2>3 DEF Known, QueueInv
  <2>6. \A w \in Workers : worker[w].pc # "idle" => worker[w].of \in Checkpoints \ {c}
    BY <2>1 DEF Known, TypeInv, WorkerOK, OwnerInv, Queued
  <2>7. OwnerInv' BY <2>2, <2>3, <2>6 DEF Known, OwnerInv
  <2>8. RanWhatWasApproved'
    BY <2>1, <2>2, <2>3 DEF Known, RanWhatWasApproved, ExecInv, StartInv
  <2> QED BY <2>3, <2>4, <2>5, <2>7, <2>8, OwnFrame DEF Known
<1> QED BY <1>1, <1>2

LEMMA EnqueueOwnInv ==
  ASSUME Known, NEW r \in Requests, EnqueueApprovalJob(r)
  PROVE  OwnInv'
<1> DEFINE c == req[r].of
<1> USE DEF OwnInv, rowVars, histVars, timeVars
<1>1. c \in Checkpoints /\ Handing(r) /\ status[c] = "approved"
  BY DEF EnqueueApprovalJob, Known, TypeInv, ReqOK, HandlerInv, Handing
<1>2. PICK js \in SUBSET Jobs : AddJobs(js, c) BY DEF EnqueueApprovalJob
<1>3. /\ \A j \in Jobs : job[j].state # "unused" => job'[j] = job[j]
      /\ \A j \in Jobs : job'[j].state # "unused" => job'[j].of = c \/ job'[j] = job[j]
  BY <1>2 DEF AddJobs
<1>4. \A d : Queued(d) => Queued(d)' BY <1>3 DEF Queued
<1>5. \A d : d # c => (Queued(d)' <=> Queued(d)) BY <1>3 DEF Queued
<1>6. /\ \A q \in Requests : Handing(q)' => q # r /\ Handing(q) /\ req'[q] = req[q]
      /\ UNCHANGED <<worker, sweep, status, payload, started, executed, stale, toolRuns, ranWith>>
  BY DEF EnqueueApprovalJob, ReqEnd, Handing, IdleRequest, Known, TypeInv, ReqOK
<1>7. \A q \in Requests : q # r /\ Handing(q) => req[q].of # c
  BY <1>1 DEF Known, HandlerInv
<1>8. HandlerInv' BY <1>5, <1>6, <1>7 DEF Known, HandlerInv
<1>9. QueueInv' BY <1>1, <1>4, <1>5, <1>6 DEF Known, QueueInv
<1>10. OwnerInv' BY <1>3, <1>6 DEF Known, OwnerInv, TypeInv, WorkerOK
<1> QED BY <1>6, <1>8, <1>9, <1>10, OwnFrame DEF Known

\* What the handler reported as failed was not stored.
LEMMA HandlerOwnInv ==
  ASSUME Known, ReliableAdd, NEW r \in Requests,
         \/ UserStep(r) \/ RejectCheckpoint(r) \/ EnqueueThrows(r) \/ HandlerCrash(r)
  PROVE  OwnInv'
<1> USE DEF OwnInv, rowVars, histVars, timeVars
<1>1. HandlerInv'
  <2>1. CASE UserStep(r)
    <3>1. \A q \in Requests : Handing(q)' => Handing(q) /\ req'[q] = req[q]
      BY <2>1 DEF UserStep, LoadCheckpoint, Handing, Known, TypeInv, ReqOK
    <3>2. \A c : Queued(c)' = Queued(c) BY <2>1 DEF UserStep, LoadCheckpoint, Queued
    <3> QED BY <2>1, <3>1, <3>2 DEF Known, HandlerInv, UserStep, LoadCheckpoint
  <2>2. CASE RejectCheckpoint(r) \/ HandlerCrash(r)
    BY <2>2, RequestMoves DEF RejectCheckpoint, HandlerCrash
  <2>3. CASE EnqueueThrows(r)
    BY <2>3, RequestMoves DEF EnqueueThrows, ReliableAdd
  <2> QED BY <2>1, <2>2, <2>3
<1>2. UNCHANGED <<job, worker, sweep, status, payload, started, executed, stale, toolRuns, ranWith>>
  BY DEF UserStep, LoadCheckpoint, RejectCheckpoint, HandlerCrash, EnqueueThrows, ReliableAdd
<1> QED BY <1>1, <1>2, OwnFrame DEF Known

LEMMA RevertOwnInv ==
  ASSUME Known, NEW r \in Requests, RevertApprovedClaim(r)
  PROVE  OwnInv'
<1> DEFINE c == req[r].of
<1> USE DEF OwnInv, timeVars, histVars
<1>1. c \in Checkpoints /\ status[c] = "approved" /\ ~Queued(c)
  BY DEF RevertApprovedClaim, Known, TypeInv, ReqOK, HandlerInv, Handing
<1>2. /\ \A d \in Checkpoints : d # c => status'[d] = status[d]
      /\ \A q \in Requests : Handing(q)' => q # r /\ Handing(q) /\ req'[q] = req[q]
      /\ \A d : Queued(d)' = Queued(d)
      /\ UNCHANGED <<job, worker, sweep, payload, started, executed, stale, toolRuns, ranWith>>
  BY DEF RevertApprovedClaim, ReqEnd, Handing, IdleRequest, Queued, Known, TypeInv,
         ReqOK, RowOK
<1>3. \A q \in Requests : Handing(q) /\ q # r => req[q].of \in Checkpoints \ {c}
  BY DEF RevertApprovedClaim, Known, TypeInv, ReqOK, HandlerInv, Handing
<1>4. HandlerInv' BY <1>2, <1>3 DEF Known, HandlerInv
<1>5. QueueInv' BY <1>1, <1>2 DEF Known, QueueInv
<1>6. \A w \in Workers : worker[w].pc # "idle" => worker[w].of \in Checkpoints \ {c}
  BY <1>1 DEF Known, TypeInv, WorkerOK, OwnerInv, Queued
<1>7. OwnerInv' BY <1>2, <1>6 DEF Known, OwnerInv
<1> QED BY <1>2, <1>4, <1>5, <1>7, OwnFrame DEF Known

-----------------------------------------------------------------------------
LEMMA SweepOwnInv ==
  ASSUME Known, NEW s \in Sweepers, SweepStep(s) \/ SweepCrash(s)
  PROVE  OwnInv'
<1> DEFINE c == sweep[s].of
<1> USE DEF OwnInv, rowVars, timeVars, histVars
<1>1. CASE \E d \in Checkpoints : FindExpiredPending(s, d) \/ FindStalledExecution(s, d)
  <2>1. StallInv'
    BY <1>1 DEF FindExpiredPending, FindStalledExecution, Sweeping, Known, StallInv,
       TypeInv, SweepOK
  <2> QED BY <1>1, <2>1, OwnFrame
          DEF Known, FindExpiredPending, FindStalledExecution, Sweeping
<1>2. CASE SweepNotify(s) \/ SweepCrash(s)
  <2>1. StallInv'
    BY <1>2 DEF SweepNotify, SweepCrash, IdleSweep, Known, StallInv, TypeInv, SweepOK
  <2> QED BY <1>2, <2>1, OwnFrame DEF Known, SweepNotify, SweepCrash
<1>3. CASE ExpireClaim(s) \/ RecoverClaim(s)
  <2>0. c \in Checkpoints
    BY <1>3 DEF ExpireClaim, RecoverClaim, SweepReject, Known, TypeInv, SweepOK
  <2>1. /\ UNCHANGED <<req, job, worker, payload, started, executed, stale, toolRuns, ranWith>>
        /\ \A t \in Sweepers : sweep'[t].pc = "recover" => sweep'[t] = sweep[t]
        /\ \A d : Queued(d)' = Queued(d)
    BY <1>3 DEF ExpireClaim, RecoverClaim, SweepReject, IdleSweep, Queued, Known, TypeInv,
       SweepOK
  <2>2. StallInv' BY <2>1 DEF Known, StallInv
  <2>3. CASE status' = status BY <2>1, <2>2, <2>3, OwnFrame DEF Known
  <2>4. CASE status' # status
    <3>1. /\ status' = [status EXCEPT ![c] = "rejected"]
          /\ \/ status[c] = "pending"
             \/ status[c] = "approved" /\ c \in stale
      BY <1>3, <2>4 DEF ExpireClaim, RecoverClaim, SweepReject, Known, StallInv
    <3>2. status'[c] = "rejected" /\ \A d \in Checkpoints : d # c => status'[d] = status[d]
      BY <2>0, <3>1 DEF Known, TypeInv, RowOK
    <3>3. Queued(c) => started[c]
      BY <2>0, <3>1 DEF Known, QueueInv, StallInv
    <3>4. status[c] = "approved" => Queued(c)
      BY <2>0, <3>1 DEF Known, QueueInv, StallInv
    <3>5. HandlerInv'
      BY <2>0, <2>1, <3>1, <3>2, <3>4 DEF Known, HandlerInv, Handing, TypeInv, ReqOK
    <3>6. QueueInv' BY <2>1, <3>2, <3>3 DEF Known, QueueInv
    <3>7. \A w \in Workers : worker[w].pc \in Executing =>
             worker[w].of \in Checkpoints \ {c}
      BY <3>1 DEF Known, OwnerInv, TypeInv, WorkerOK
    <3>8. OwnerInv' BY <2>1, <3>2, <3>7 DEF Known, OwnerInv
    <3> QED BY <2>1, <2>2, <3>5, <3>6, <3>8, OwnFrame DEF Known
  <2> QED BY <2>3, <2>4
<1> QED BY <1>1, <1>2, <1>3 DEF SweepStep

-----------------------------------------------------------------------------
LEMMA TakeJobOwnInv ==
  ASSUME Known, NEW w \in Workers, NEW j \in Jobs, TakeJob(w, j)
  PROVE  OwnInv'
<1> USE DEF OwnInv, rowVars, timeVars, histVars
<1>1. JobsKept BY DEF TakeJob, JobsKept, Moved, Known, TypeInv, JobOK
<1>2. \A d : Queued(d)' = Queued(d) BY <1>1, JobsKeptQueued
<1>3. UNCHANGED <<req, sweep, status, payload, started, executed, stale, toolRuns, ranWith>>
  BY DEF TakeJob
<1>4. HandlerInv' BY <1>2, <1>3 DEF Known, HandlerInv, Handing
<1>5. QueueInv' BY <1>2, <1>3 DEF Known, QueueInv
<1>6. /\ worker'[w].pc = "find" /\ worker'[w].job = j /\ worker'[w].of = job[j].of
      /\ \A v \in Workers : v # w => worker'[v] = worker[v]
      /\ job[j].state # "unused"
  BY DEF TakeJob, Known, TypeInv, WorkerOK
<1>7. OwnerInv' BY <1>1, <1>3, <1>6 DEF Known, OwnerInv, JobsKept, TypeInv, WorkerOK
<1> QED BY <1>3, <1>4, <1>5, <1>7, OwnFrame DEF Known

LEMMA FindOwnInv ==
  ASSUME Known, NEW w \in Workers, FindCheckpoint(w)
  PROVE  OwnInv'
<1> USE DEF OwnInv, rowVars, timeVars, histVars
<1>1. OwnerInv'
  BY DEF FindCheckpoint, Known, OwnerInv, TypeInv, WorkerOK
<1> QED BY <1>1, OwnFrame DEF Known, FindCheckpoint

LEMMA ClaimExecutionOwnInv ==
  ASSUME Known, NEW w \in Workers, ClaimExecution(w)
  PROVE  OwnInv'
<1> DEFINE c == worker[w].of
<1> USE DEF OwnInv, timeVars, histVars
<1>0. c \in Checkpoints BY DEF ClaimExecution, Known, TypeInv, WorkerOK
<1>1. CASE started[c]
  <2>1. EndJob(w) /\ UNCHANGED started BY <1>1 DEF ClaimExecution
  <2>2. JobsKept BY <2>1, EndJobKept DEF ClaimExecution
  <2>3. HandlerInv' /\ QueueInv' /\ OwnerInv'
    BY <2>1, <2>2, WorkerMoves DEF ClaimExecution, EndJob, IdleWorker, Known, TypeInv, WorkerOK
  <2> QED BY <2>1, <2>3, OwnFrame DEF Known, ClaimExecution
<1>2. CASE ~started[c]
  <2>1. Queued(c) /\ status[c] = "approved" /\ c \notin stale
    BY <1>0, <1>2 DEF ClaimExecution, Known, OwnerInv, TypeInv, WorkerOK, Queued, QueueInv,
       StallInv
  <2>2. /\ started' = [started EXCEPT ![c] = TRUE]
        /\ Goto(w, "start")
        /\ UNCHANGED <<job, req, sweep, status, payload, executed, stale, toolRuns, ranWith>>
        /\ \A d : Queued(d)' = Queued(d)
    BY <1>2 DEF ClaimExecution, Queued
  <2>3. QueueInv' BY <1>0, <2>1, <2>2 DEF Known, QueueInv, TypeInv, RowOK
  <2>4. StallInv' BY <1>0, <2>2 DEF Known, StallInv, TypeInv, RowOK, MsgOK
  <2>5. OwnerInv'
    BY <2>1, <2>2 DEF Goto, ClaimExecution, Known, OwnerInv, TypeInv, WorkerOK
  <2> QED BY <2>2, <2>3, <2>4, <2>5, OwnFrame DEF Known
<1> QED BY <1>1, <1>2

\* The tool runs with what its worker has read, and nobody has changed that.
LEMMA CallToolOwnInv ==
  ASSUME Known, NEW w \in Workers, CallTool(w)
  PROVE  OwnInv'
<1> DEFINE c == worker[w].of
<1> USE DEF OwnInv, rowVars, timeVars
<1>1. PICK pc \in AfterTool : Goto(w, pc) BY DEF CallTool
<1>2. UNCHANGED <<job, req, sweep, status, payload, started, executed, stale>>
  BY DEF CallTool
<1>3. OwnerInv'
  BY <1>1, <1>2 DEF Goto, CallTool, Known, OwnerInv, TypeInv, WorkerOK
<1>4. worker[w].snap = payload[c] BY DEF CallTool, Known, OwnerInv
<1>5. RanWhatWasApproved'
  <2>1. CASE UNCHANGED <<toolRuns, ranWith>> BY <1>2, <2>1, OwnFrame DEF Known
  <2>2. CASE ToolEffect(w)
    BY <1>2, <1>4, <2>2 DEF ToolEffect, RanWhatWasApproved, Known, TypeInv, HistOK
  <2> QED BY <2>1, <2>2 DEF CallTool
<1> QED BY <1>2, <1>3, <1>5, OwnFrame DEF Known

LEMMA MarkOwnInv ==
  ASSUME Known, NEW w \in Workers, MarkToolExecuted(w)
  PROVE  OwnInv'
<1> DEFINE c == worker[w].of
<1> USE DEF OwnInv, timeVars, histVars
<1>1. PICK pc \in AfterTool : Goto(w, pc) BY DEF MarkToolExecuted
<1>2. UNCHANGED <<job, req, sweep, status, payload, started, stale, toolRuns, ranWith>>
  BY DEF MarkToolExecuted
<1>3. OwnerInv'
  BY <1>1, <1>2 DEF Goto, MarkToolExecuted, Known, OwnerInv, TypeInv, WorkerOK
<1>4. c \notin stale BY DEF MarkToolExecuted, Known, OwnerInv
<1>5. \A d \in Checkpoints : d # c => executed'[d] = executed[d]
  BY DEF MarkToolExecuted, Known, TypeInv, RowOK
<1>6. StallInv' BY <1>2, <1>4, <1>5 DEF Known, StallInv, TypeInv, MsgOK
<1> QED BY <1>2, <1>3, <1>6, OwnFrame DEF Known

\* The other steps of a worker go on within the turn, or end it.
LEMMA TurnOwnInv ==
  ASSUME Known, NEW w \in Workers, worker[w].pc \in Executing,
         \/ job' = job /\ \E pc \in Executing : Goto(w, pc)
         \/ EndJob(w),
         UNCHANGED <<req, sweep, status, payload, started, executed, stale, toolRuns, ranWith>>
  PROVE  OwnInv'
<1>1. JobsKept
  <2>1. CASE job' = job BY <2>1 DEF JobsKept
  <2>2. CASE EndJob(w) BY <2>2, EndJobKept
  <2> QED BY <2>1, <2>2
<1>2. \A v \in Workers : worker'[v].pc # "idle" =>
        /\ worker[v].pc # "idle" /\ worker'[v].of = worker[v].of
        /\ worker'[v].job = worker[v].job
        /\ worker'[v].pc # "find" =>
             worker[v].pc # "find" /\ worker'[v].snap = worker[v].snap
        /\ worker'[v].pc \in Executing => worker[v].pc \in Executing
  BY DEF Goto, EndJob, IdleWorker, Known, TypeInv, WorkerOK
<1>3. HandlerInv' /\ QueueInv' /\ OwnerInv' BY <1>1, <1>2, WorkerMoves
<1> QED BY <1>3, OwnFrame DEF Known, OwnInv

LEMMA WorkerOwnInv ==
  ASSUME Known, NEW w \in Workers, WorkerStep(w)
  PROVE  OwnInv'
<1> USE DEF rowVars, timeVars, histVars
<1>1. CASE StartTurn(w) BY <1>1, TurnOwnInv DEF StartTurn
<1>2. CASE ReportToolFailure(w) \/ Summarise(w) \/ FinishTurn(w)
  BY <1>2, TurnOwnInv DEF ReportToolFailure, Summarise, FinishTurn, UpdateThen
<1>3. CASE ContinueRounds(w) BY <1>3, TurnOwnInv DEF ContinueRounds
<1>4. CASE CatchTurn(w) BY <1>4, TurnOwnInv DEF CatchTurn
<1>5. CASE EmitDone(w) BY <1>5, TurnOwnInv DEF EmitDone
<1> QED BY <1>1, <1>2, <1>3, <1>4, <1>5, TakeJobOwnInv, FindOwnInv, ClaimExecutionOwnInv,
           CallToolOwnInv, MarkOwnInv DEF WorkerStep

LEMMA FaultOwnInv ==
  ASSUME Known, NEW w \in Workers, WorkerCrash(w) \/ LockLost(w)
  PROVE  OwnInv'
<1> USE DEF rowVars, timeVars, histVars
<1>1. JobsKept
  BY DEF WorkerCrash, LockLost, Redelivered, Moved, JobsKept, Known, TypeInv, JobOK,
     WorkerOK, OwnInv, OwnerInv
<1>2. HandlerInv' /\ QueueInv' /\ OwnerInv'
  BY <1>1, WorkerMoves DEF WorkerCrash, LockLost, IdleWorker, Known, TypeInv, WorkerOK
<1> QED BY <1>2, OwnFrame DEF Known, OwnInv, WorkerCrash, LockLost

LEMMA TimingOwnInv ==
  ASSUME Known, Timing \/ UNCHANGED vars
  PROVE  OwnInv'
<1> USE DEF OwnInv, rowVars, histVars
<1>1. CASE UNCHANGED stale
  BY <1>1, OwnFrame DEF Known, Timing, PassExpiry, PassStall, vars
<1>2. ASSUME NEW c \in Checkpoints, PassStall(c) PROVE OwnInv'
  <2>1. OwnerInv' BY <1>2 DEF PassStall, Known, OwnerInv
  <2>2. StallInv' BY <1>2 DEF PassStall, Known, StallInv
  <2> QED BY <1>2, <2>1, <2>2, OwnFrame DEF Known, PassStall
<1> QED BY <1>1, <1>2 DEF Timing, PassExpiry, vars, timeVars

LEMMA NextOwnInv ==
  ASSUME Known, ReliableAdd, [Next]_vars
  PROVE  OwnInv'
<1>1. ASSUME NEW r \in Requests, UserStep(r) \/ RequestStep(r) \/ HandlerCrash(r)
      PROVE  OwnInv'
  BY <1>1, ClaimOwnInv, EnqueueOwnInv, HandlerOwnInv, RevertOwnInv DEF RequestStep
<1> QED BY <1>1, PauseOwnInv, WorkerOwnInv, SweepOwnInv, FaultOwnInv, TimingOwnInv
        DEF Next, Failing

\* While queue.add() is reliable in what it reports, an approval has one owner
\* at a time - the handler, the queue, a worker, the cron run - and nobody but the
\* owner decides on, edits or runs what was approved.
THEOREM OwnInvariance == ReliableAdd => (Spec => []Known)
<1> SUFFICES ASSUME ReliableAdd PROVE Spec => []Known OBVIOUS
<1>1. Init => OwnInv BY InitOwnInv
<1>2. TypeInv /\ ExecInv /\ PauseInv /\ OwnInv /\ [Next]_vars => OwnInv'
  BY NextOwnInv DEF Known
<1> QED BY <1>1, <1>2, TypeInvariance, ExecInvariance, PauseInvariance, PTL
        DEF Spec, Known

\* What ran is what the row holds: nobody edits the arguments of an action under
\* a worker that has read them (claim() against findById()).
THEOREM RanApproved == ReliableAdd => (Spec => []RanWhatWasApproved)
<1>1. Known => RanWhatWasApproved BY DEF Known, OwnInv
<1> QED BY <1>1, OwnInvariance, PTL

-----------------------------------------------------------------------------
(* The gate.                                                               *)

\* How the verdict on a checkpoint and the runs of its tool may change, as far
\* as the gate tells it apart.
Ran(c) ==
  /\ status[c] = "approved" /\ toolRuns[c] = 0
  /\ toolRuns' = [toolRuns EXCEPT ![c] = 1] /\ status' = status
Opened(c) ==
  /\ status[c] = "absent" /\ status' = [status EXCEPT ![c] = "pending"]
  /\ toolRuns' = toolRuns
Judged(c) ==
  /\ status[c] = "pending" /\ toolRuns' = toolRuns
  /\ \E v \in {"approved", "rejected"} : status' = [status EXCEPT ![c] = v]
Withdrawn(c) ==
  /\ status[c] = "approved" /\ toolRuns[c] = 0 /\ toolRuns' = toolRuns
  /\ status' = [status EXCEPT ![c] = "pending"]
GivenUp(c) ==
  /\ status[c] = "approved" /\ ~executed[c] /\ toolRuns' = toolRuns
  /\ \A w \in Workers : worker[w].of = c => worker[w].pc \notin Executing
  /\ status' = [status EXCEPT ![c] = "rejected"]
GateStep ==
  \/ UNCHANGED <<status, toolRuns>>
  \/ \E c \in Checkpoints :
       Ran(c) \/ Opened(c) \/ Judged(c) \/ Withdrawn(c) \/ GivenUp(c)

LEMMA NextGateStep ==
  ASSUME Known, ReliableAdd, [Next]_vars
  PROVE  GateStep
<1> USE DEF rowVars, timeVars, histVars
<1>1. ASSUME NEW c \in Checkpoints, PauseStep(c) PROVE GateStep
  <2>1. UNCHANGED <<status, toolRuns>> \/ Opened(c)
    BY <1>1 DEF PauseStep, PauseMessage, PauseRow, AttachTrace, Opened, Known, PauseInv
  <2> QED BY <2>1 DEF GateStep
<1>2. ASSUME NEW r \in Requests, ClaimDecision(r) PROVE GateStep
  <2>1. req[r].of \in Checkpoints BY <1>2 DEF ClaimDecision, Known, TypeInv, ReqOK
  <2>2. UNCHANGED <<status, toolRuns>> \/ Judged(req[r].of)
    BY <1>2 DEF ClaimDecision, CanClaim, Judged
  <2> QED BY <2>1, <2>2 DEF GateStep
<1>3. ASSUME NEW r \in Requests, RevertApprovedClaim(r) PROVE GateStep
  <2>1. req[r].of \in Checkpoints BY <1>3 DEF RevertApprovedClaim, Known, TypeInv, ReqOK
  <2>2. status[req[r].of] = "approved" /\ ~started[req[r].of]
    BY <1>3, <2>1 DEF RevertApprovedClaim, Known, OwnInv, HandlerInv, Handing, QueueInv
  <2>3. Withdrawn(req[r].of)
    BY <1>3, <2>1, <2>2 DEF RevertApprovedClaim, Withdrawn, Known, ExecInv, StartInv
  <2> QED BY <2>1, <2>3 DEF GateStep
<1>4. ASSUME NEW r \in Requests, UserStep(r) \/ RequestStep(r) \/ HandlerCrash(r)
      PROVE  GateStep
  BY <1>2, <1>3, <1>4 DEF GateStep, UserStep, LoadCheckpoint, RequestStep,
     RejectCheckpoint, EnqueueApprovalJob, EnqueueThrows, HandlerCrash
<1>5. ASSUME NEW w \in Workers, CallTool(w) PROVE GateStep
  <2>1. /\ worker[w].of \in Checkpoints /\ status[worker[w].of] = "approved"
        /\ toolRuns[worker[w].of] = 0
    BY <1>5 DEF CallTool, Known, OwnInv, OwnerInv, TypeInv, WorkerOK, ExecInv, NotYetRun
  <2>2. UNCHANGED <<status, toolRuns>> \/ Ran(worker[w].of)
    BY <1>5, <2>1 DEF CallTool, ToolEffect, Ran, Known, TypeInv, HistOK
  <2> QED BY <2>1, <2>2 DEF GateStep
<1>6. ASSUME NEW w \in Workers, WorkerStep(w) \/ WorkerCrash(w) \/ LockLost(w)
      PROVE  GateStep
  BY <1>5, <1>6 DEF GateStep, WorkerStep, TakeJob, FindCheckpoint, ClaimExecution,
     StartTurn, MarkToolExecuted, ReportToolFailure, Summarise, FinishTurn, UpdateThen,
     ContinueRounds, CatchTurn, EmitDone, WorkerCrash, LockLost
<1>7. ASSUME NEW s \in Sweepers, ExpireClaim(s) PROVE GateStep
  <2>1. sweep[s].of \in Checkpoints
    BY <1>7 DEF ExpireClaim, SweepReject, Known, TypeInv, SweepOK
  <2>2. UNCHANGED <<status, toolRuns>> \/ Judged(sweep[s].of)
    BY <1>7 DEF ExpireClaim, SweepReject, Judged
  <2> QED BY <2>1, <2>2 DEF GateStep
<1>8. ASSUME NEW s \in Sweepers, RecoverClaim(s) PROVE GateStep
  <2>1. sweep[s].of \in Checkpoints
    BY <1>8 DEF RecoverClaim, SweepReject, Known, TypeInv, SweepOK
  <2>2. /\ ~executed[sweep[s].of]
        /\ \A w \in Workers : worker[w].of = sweep[s].of => worker[w].pc \notin Executing
    BY <1>8 DEF RecoverClaim, SweepReject, Known, OwnInv, StallInv, OwnerInv
  <2>3. UNCHANGED <<status, toolRuns>> \/ GivenUp(sweep[s].of)
    BY <1>8, <2>2 DEF RecoverClaim, SweepReject, GivenUp
  <2> QED BY <2>1, <2>3 DEF GateStep
<1>9. ASSUME NEW s \in Sweepers, SweepStep(s) \/ SweepCrash(s) PROVE GateStep
  BY <1>7, <1>8, <1>9 DEF GateStep, SweepStep, FindExpiredPending, FindStalledExecution,
     Sweeping, SweepNotify, SweepCrash
<1>10. CASE Timing \/ UNCHANGED vars
  BY <1>10 DEF GateStep, Timing, PassExpiry, PassStall, vars
<1> QED BY <1>1, <1>4, <1>6, <1>9, <1>10 DEF Next, Failing

\* The tool starts only while its row is approved - not while the question is
\* open, not after a rejection - and a cron run gives up only what no worker
\* executes and what is not known to have run (expireOne(), recoverOne() against
\* processApprovalJob()).
THEOREM OwnersOnly == ReliableAdd => (Spec => AttemptsAreOwned)
<1> SUFFICES ASSUME ReliableAdd PROVE Spec => AttemptsAreOwned OBVIOUS
<1> DEFINE Runs == \A c \in Checkpoints : toolRuns'[c] # toolRuns[c] => status[c] = "approved"
           Gives == \A c \in Checkpoints : status[c] = "approved" /\ status'[c] = "rejected" =>
                      /\ ~executed[c]
                      /\ \A w \in Workers : worker[w].of = c => worker[w].pc \notin Executing
<1>1. Known /\ [Next]_vars => Runs /\ Gives
  <2> SUFFICES ASSUME Known, [Next]_vars PROVE Runs /\ Gives OBVIOUS
  <2>1. CASE UNCHANGED <<status, toolRuns>> BY <2>1
  <2>2. ASSUME NEW c \in Checkpoints,
               Ran(c) \/ Opened(c) \/ Judged(c) \/ Withdrawn(c) \/ GivenUp(c)
        PROVE  Runs /\ Gives
    BY <2>2 DEF Ran, Opened, Judged, Withdrawn, GivenUp, Known, TypeInv, RowOK, HistOK
  <2> QED BY <2>1, <2>2, NextGateStep DEF GateStep
<1>2. Known /\ [Next]_vars => [Runs]_vars /\ [Gives]_vars BY <1>1
<1> QED BY <1>2, OwnInvariance, PTL
        DEF Spec, AttemptsAreOwned, RunsOnlyWhileApproved, GivesUpOnlyIdle

\* The lifecycle, with its queue, workers, retries, crashes and cron jobs,
\* implements the gate that its users are promised.
THEOREM Refinement == ReliableAdd => (Spec => ImplementsGate)
<1> SUFFICES ASSUME ReliableAdd PROVE Spec => Gate!GateSpec BY DEF ImplementsGate
<1>1. Init => Gate!GateInit BY DEF Init, Gate!GateInit
<1>2. Known /\ [Next]_vars => [Gate!GateNext]_(Gate!gateVars)
  <2> SUFFICES ASSUME Known, [Next]_vars PROVE Gate!GateNext \/ UNCHANGED Gate!gateVars
    OBVIOUS
  <2>0. status \in [Checkpoints -> Statuses] BY DEF Known, TypeInv, RowOK
  <2>1. CASE UNCHANGED <<status, toolRuns>> BY <2>1 DEF Gate!gateVars
  <2>2. ASSUME NEW c \in Checkpoints, Ran(c) PROVE Gate!Run(c)
    BY <2>2 DEF Ran, Gate!Run
  <2>3. ASSUME NEW c \in Checkpoints, Opened(c) PROVE UNCHANGED Gate!gateVars
    BY <2>0, <2>3 DEF Opened, Gate!gateVars
  <2>4. ASSUME NEW c \in Checkpoints, Judged(c)
        PROVE  Gate!Decide(c, "granted") \/ Gate!Decide(c, "refused")
    BY <2>0, <2>4 DEF Judged, Gate!Decide
  <2>5. ASSUME NEW c \in Checkpoints, Withdrawn(c) PROVE Gate!Withdraw(c)
    BY <2>0, <2>5 DEF Withdrawn, Gate!Withdraw
  <2>6. ASSUME NEW c \in Checkpoints, GivenUp(c) PROVE Gate!GiveUp(c)
    BY <2>0, <2>6 DEF GivenUp, Gate!GiveUp
  <2> QED BY <2>1, <2>2, <2>3, <2>4, <2>5, <2>6, NextGateStep DEF GateStep, Gate!GateNext
<1> QED BY <1>1, <1>2, OwnInvariance, PTL DEF Spec, Gate!GateSpec

=============================================================================
