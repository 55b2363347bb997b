------------------------- MODULE CheckpointLifecycle -------------------------
(***************************************************************************)
(* The life of a human-in-the-loop checkpoint of the orchestration service *)
(* (apps/orchestration): a turn pauses before a risky tool, the user       *)
(* approves, edits, clarifies or rejects, a BullMQ job resumes the turn,   *)
(* and two cron jobs expire what was forgotten and give up what stalled.   *)
(*                                                                         *)
(* Actors that interleave: the turn that pauses (one per checkpoint), the  *)
(* resolveApproval() handlers (Requests), the BullMQ workers (Workers) and *)
(* the cron runs (Sweepers).  They share the checkpoint row in Postgres,   *)
(* the reply message in the message service and the job queue in Redis.    *)
(*                                                                         *)
(* Faults names what may go wrong in a run:                                *)
(*   "createRow"    the INSERT of the checkpoint row fails                 *)
(*   "fastClick"    the user answers before the pausing turn has attached  *)
(*                  its tool trace to the message                          *)
(*   "handlerCrash" a request or cron run dies between two of its steps    *)
(*   "enqueueError" queue.add() throws and no job exists                   *)
(*   "lostReply"    queue.add() throws although Redis stored the job       *)
(*   "resend"       the Redis client resends the add: two jobs             *)
(*   "startTurn"    the Redis SET of the turn owner fails                  *)
(*   "toolThrow"    callTool() throws, the effect may have happened        *)
(*   "markTool"     the UPDATE of tool_executed_at fails                   *)
(*   "update"       the message service refuses or misses an update        *)
(*   "workerCrash"  a worker process dies                                  *)
(*   "lockLost"     a worker outlives its job lock: BullMQ redelivers      *)
(***************************************************************************)
EXTENDS Naturals, FiniteSets

CONSTANTS
  Checkpoints,  \* checkpoint rows, one per reply message
  Requests,     \* concurrent resolveApproval() handlers
  Workers,      \* BullMQ worker slots of the AI orchestration queue
  Sweepers,     \* concurrent runs of the cleanup cron jobs
  Jobs,         \* PROCESS_APPROVAL jobs the queue can ever hold (a bound)
  Choices,      \* edited arguments, or providers picked in a clarification
  None,         \* no value
  Faults        \* the faults this instance allows

FaultNames == {"createRow", "fastClick", "handlerCrash", "enqueueError",
               "lostReply", "resend", "startTurn", "toolThrow", "markTool",
               "update", "workerCrash", "lockLost"}

ASSUME NoneAssumption == None \notin Checkpoints \cup Jobs \cup Choices \cup Workers
ASSUME FaultsAssumption == Faults \subseteq FaultNames

VARIABLES
  kind, status, payload, started, executed, \* the row of a checkpoint
  overdue, stale,   \* rows past expiresAt / past STALLED_EXECUTION_TTL_MS
  shown, done,      \* the reply message, and whether 'done' was emitted
  pausePc,          \* pauseForApproval() / pauseForClarification()
  req,              \* resolveApproval() handlers
  job,              \* the queue: state, checkpoint, owner and stalls of a job
  worker,           \* workers running processApprovalJob()
  sweep,            \* cron runs
  toolRuns, ranWith \* history: effects of the tool, and with which payload

rowVars  == <<kind, status, payload, started, executed>>
timeVars == <<overdue, stale>>
msgVars  == <<shown, done>>
histVars == <<toolRuns, ranWith>>
vars == <<rowVars, timeVars, msgVars, pausePc, req, job, worker, sweep, histVars>>

Kinds    == {"approval", "clarification"}
Statuses == {"absent", "pending", "approved", "rejected"}
Actions  == {"approve", "edit_and_approve", "reject", "clarify"}
\* What the reply message says, as far as the code tells it apart.
Contents == {"none", "awaiting", "create_failed", "cancelled", "expired",
             "stalled", "summarising", "tool_failed", "answered", "stopped",
             "error"}
MaxStalls == 1  \* BullMQ's maxStalledCount

\* Program points of a worker between claimExecution() and the end of the turn.
BeforeTool == {"start", "call"}
AfterTool  == {"mark", "markFailed", "reportFailed", "summarise", "rounds",
               "finish", "catchError", "catchStopped", "emitDone"}
Executing  == BeforeTool \cup AfterTool

NoCheckpoint == Checkpoints \cup {None}
NoChoice     == Choices \cup {None}
Request == [pc : {"idle", "claim", "reject", "enqueue", "revert"},
            of : NoCheckpoint, act : Actions \cup {None}, choice : NoChoice]
Job == [state : {"unused", "waiting", "active", "gone"}, of : NoCheckpoint,
        owner : Workers \cup {None}, stalls : 0..MaxStalls]
Worker == [pc : {"idle", "find", "claim"} \cup Executing, job : Jobs \cup {None},
           of : NoCheckpoint, snap : NoChoice]
Sweep == [pc : {"idle", "expire", "notifyExpired", "recover", "notifyStalled"},
          of : NoCheckpoint]

IdleRequest == [pc |-> "idle", of |-> None, act |-> None, choice |-> None]
UnusedJob   == [state |-> "unused", of |-> None, owner |-> None, stalls |-> 0]
IdleWorker  == [pc |-> "idle", job |-> None, of |-> None, snap |-> None]
IdleSweep   == [pc |-> "idle", of |-> None]

TypeOK ==
  /\ kind \in [Checkpoints -> Kinds]
  /\ status \in [Checkpoints -> Statuses]
  /\ payload \in [Checkpoints -> NoChoice]
  /\ started \in [Checkpoints -> BOOLEAN]
  /\ executed \in [Checkpoints -> BOOLEAN]
  /\ overdue \subseteq Checkpoints
  /\ stale \subseteq Checkpoints
  /\ shown \in [Checkpoints -> Contents]
  /\ done \in [Checkpoints -> BOOLEAN]
  /\ pausePc \in [Checkpoints -> {"none", "row", "trace", "paused"}]
  /\ req \in [Requests -> Request]
  /\ job \in [Jobs -> Job]
  /\ worker \in [Workers -> Worker]
  /\ sweep \in [Sweepers -> Sweep]
  /\ toolRuns \in [Checkpoints -> Nat]
  /\ ranWith \in [Checkpoints -> NoChoice]

Init ==
  /\ kind \in [Checkpoints -> Kinds]
  /\ status = [c \in Checkpoints |-> "absent"]
  /\ payload = [c \in Checkpoints |-> None]
  /\ started = [c \in Checkpoints |-> FALSE]
  /\ executed = [c \in Checkpoints |-> FALSE]
  /\ overdue = {} /\ stale = {}
  /\ shown = [c \in Checkpoints |-> "none"]
  /\ done = [c \in Checkpoints |-> FALSE]
  /\ pausePc = [c \in Checkpoints |-> "none"]
  /\ req = [r \in Requests |-> IdleRequest]
  /\ job = [j \in Jobs |-> UnusedJob]
  /\ worker = [w \in Workers |-> IdleWorker]
  /\ sweep = [s \in Sweepers |-> IdleSweep]
  /\ toolRuns = [c \in Checkpoints |-> 0]
  /\ ranWith = [c \in Checkpoints |-> None]

-----------------------------------------------------------------------------
(* The reply message: only its author may change it (updateMessage()).     *)

MessageAuthor == "bot"
MayEdit(sender) == sender = MessageAuthor

\* An update that the message service carries out, one that throws, and the
\* best-effort one (tryUpdateMessage) that swallows the error.
UpdateOK(sender, c, text) ==
  /\ MayEdit(sender)
  /\ shown' = [shown EXCEPT ![c] = text]
UpdateThrows(sender) ==
  /\ "update" \in Faults \/ ~MayEdit(sender)
  /\ shown' = shown
TryUpdate(sender, c, text) == UpdateOK(sender, c, text) \/ UpdateThrows(sender)

-----------------------------------------------------------------------------
(* The turn that pauses.                                                   *)

\* createMessage() of the approval_request / clarification_request message.
PauseMessage(c) ==
  /\ pausePc[c] = "none"
  /\ pausePc' = [pausePc EXCEPT ![c] = "row"]
  /\ shown' = [shown EXCEPT ![c] = "awaiting"]
  /\ UNCHANGED <<rowVars, timeVars, done, req, job, worker, sweep, histVars>>

\* createCheckpointSafely(): the row, or the message turned into an error.
PauseRow(c) ==
  /\ pausePc[c] = "row"
  /\ \/ /\ status' = [status EXCEPT ![c] = "pending"]
        /\ pausePc' = [pausePc EXCEPT ![c] =
                         IF kind[c] = "approval" THEN "trace" ELSE "paused"]
        /\ shown' = shown
     \/ /\ "createRow" \in Faults
        /\ TryUpdate("bot", c, "create_failed")
        /\ pausePc' = [pausePc EXCEPT ![c] = "paused"]
        /\ status' = status
  /\ UNCHANGED <<kind, payload, started, executed, timeVars, done, req, job,
                 worker, sweep, histVars>>

\* attachPendingToolCallTrace(): the update sends the 'pending' content again.
AttachTrace(c) ==
  /\ pausePc[c] = "trace"
  /\ TryUpdate("bot", c, "awaiting")
  /\ pausePc' = [pausePc EXCEPT ![c] = "paused"]
  /\ UNCHANGED <<rowVars, timeVars, done, req, job, worker, sweep, histVars>>

-----------------------------------------------------------------------------
(* resolveApproval(): load, claim, then reject or enqueue.                 *)

ReqGoto(r, pc) ==
  req' = [req EXCEPT ![r] = [pc |-> pc, of |-> req[r].of, act |-> req[r].act,
                             choice |-> req[r].choice]]
ReqEnd(r)      == req' = [req EXCEPT ![r] = IdleRequest]

\* findPendingByReplyMessageId() and the checks of action against kind.
LoadCheckpoint(r, c, act, choice) ==
  /\ req[r].pc = "idle"
  /\ status[c] = "pending"
  /\ "fastClick" \in Faults \/ pausePc[c] = "paused"
  /\ (act = "clarify") <=> (kind[c] = "clarification")
  /\ choice \in IF act \in {"clarify", "edit_and_approve"} THEN Choices ELSE {None}
  /\ req' = [req EXCEPT ![r] = [pc |-> "claim", of |-> c, act |-> act,
                                choice |-> choice]]
  /\ UNCHANGED <<rowVars, timeVars, msgVars, pausePc, job, worker, sweep, histVars>>

\* CheckpointService.claim(): UPDATE ... WHERE status = 'pending'.
\* Mutant: the WHERE clause without the status.
CanClaimUnguarded(c) == status[c] # "absent"
CanClaim(c) == status[c] = "pending"

ClaimDecision(r) ==
  LET c == req[r].of
      verdict == IF req[r].act = "reject" THEN "rejected" ELSE "approved" IN
  /\ req[r].pc = "claim"
  /\ IF CanClaim(c)
     THEN /\ status' = [status EXCEPT ![c] = verdict]
          /\ payload' = [payload EXCEPT ![c] =
                           IF req[r].choice = None THEN @ ELSE req[r].choice]
          /\ ReqGoto(r, IF verdict = "rejected" THEN "reject" ELSE "enqueue")
     ELSE ReqEnd(r) /\ UNCHANGED <<status, payload>> \* CHECKPOINT_ALREADY_RESOLVED
  /\ UNCHANGED <<kind, started, executed, timeVars, msgVars, pausePc, job,
                 worker, sweep, histVars>>

\* rejectCheckpoint(): when the update throws, no 'done' follows it.
RejectCheckpoint(r) ==
  LET c == req[r].of IN
  /\ req[r].pc = "reject"
  /\ \/ UpdateOK("bot", c, "cancelled") /\ done' = [done EXCEPT ![c] = TRUE]
     \/ UpdateThrows("bot") /\ done' = done
  /\ ReqEnd(r)
  /\ UNCHANGED <<rowVars, timeVars, pausePc, job, worker, sweep, histVars>>

\* queue.add(PROCESS_APPROVAL, {attempts: 1}) puts the jobs js in the queue.
AddJobs(js, c) ==
  /\ \A j \in js : job[j].state = "unused"
  /\ job' = [j \in Jobs |->
               IF j \in js
               THEN [state |-> "waiting", of |-> c, owner |-> None, stalls |-> 0]
               ELSE job[j]]

EnqueueApprovalJob(r) ==
  /\ req[r].pc = "enqueue"
  /\ \E js \in SUBSET Jobs :
       /\ Cardinality(js) = 1 \/ ("resend" \in Faults /\ Cardinality(js) = 2)
       /\ AddJobs(js, req[r].of)
  /\ ReqEnd(r)
  /\ UNCHANGED <<rowVars, timeVars, msgVars, pausePc, worker, sweep, histVars>>

\* The add threw: nothing was stored, or it was and the reply got lost.
EnqueueThrows(r) ==
  /\ req[r].pc = "enqueue"
  /\ \/ "enqueueError" \in Faults /\ job' = job
     \/ "lostReply" \in Faults /\ \E j \in Jobs : AddJobs({j}, req[r].of)
  /\ ReqGoto(r, "revert")
  /\ UNCHANGED <<rowVars, timeVars, msgVars, pausePc, worker, sweep, histVars>>

\* revertApprovedClaim(): UPDATE ... SET pending WHERE status = 'approved'.
Reverted(s) == IF s = "approved" THEN "pending" ELSE s

RevertApprovedClaim(r) ==
  /\ req[r].pc = "revert"
  /\ status' = [status EXCEPT ![req[r].of] = Reverted(@)]
  /\ ReqEnd(r)
  /\ UNCHANGED <<kind, payload, started, executed, timeVars, msgVars, pausePc,
                 job, worker, sweep, histVars>>

HandlerCrash(r) ==
  /\ "handlerCrash" \in Faults
  /\ req[r].pc # "idle"
  /\ ReqEnd(r)
  /\ UNCHANGED <<rowVars, timeVars, msgVars, pausePc, job, worker, sweep, histVars>>

-----------------------------------------------------------------------------
(* processApprovalJob() on a worker.                                       *)

Goto(w, pc) ==
  worker' = [worker EXCEPT ![w] = [pc |-> pc, job |-> worker[w].job,
                                   of |-> worker[w].of, snap |-> worker[w].snap]]

\* Job j as it is after it moves to another state.
Moved(j, state, owner, stalls) ==
  [state |-> state, of |-> job[j].of, owner |-> owner, stalls |-> stalls]

\* The job ends (completed or failed); a worker that lost its lock ends
\* without touching the job.
EndJob(w) ==
  LET j == worker[w].job IN
  /\ worker' = [worker EXCEPT ![w] = IdleWorker]
  /\ job' = IF job[j].state = "active" /\ job[j].owner = w
            THEN [job EXCEPT ![j] = Moved(j, "gone", None, job[j].stalls)]
            ELSE job

TakeJob(w, j) ==
  /\ worker[w].pc = "idle"
  /\ job[j].state = "waiting"
  /\ job' = [job EXCEPT ![j] = Moved(j, "active", w, job[j].stalls)]
  /\ worker' = [worker EXCEPT ![w] = [pc |-> "find", job |-> j, of |-> job[j].of,
                                      snap |-> None]]
  /\ UNCHANGED <<rowVars, timeVars, msgVars, pausePc, req, sweep, histVars>>

\* findById(): the turn runs from this snapshot of the row.
FindCheckpoint(w) ==
  /\ worker[w].pc = "find"
  /\ worker' = [worker EXCEPT ![w] = [pc |-> "claim", job |-> worker[w].job,
                      of |-> worker[w].of, snap |-> payload[worker[w].of]]]
  /\ UNCHANGED <<rowVars, timeVars, msgVars, pausePc, req, job, sweep, histVars>>

\* claimExecution(): UPDATE ... WHERE execution_started_at IS NULL.
\* Mutant: the UPDATE without that condition.
CanExecuteAgain(c) == TRUE
CanExecute(c) == ~started[c]

ClaimExecution(w) ==
  LET c == worker[w].of IN
  /\ worker[w].pc = "claim"
  /\ IF CanExecute(c)
     THEN /\ started' = [started EXCEPT ![c] = TRUE]
          /\ Goto(w, "start")
          /\ job' = job
     ELSE EndJob(w) /\ started' = started
  /\ UNCHANGED <<kind, status, payload, executed, timeVars, msgVars, pausePc,
                 req, sweep, histVars>>

\* cancellation.startTurn() sits outside the try of runResumableTurn(): when
\* it throws the job fails with no message and no 'done'.
StartTurn(w) ==
  /\ worker[w].pc = "start"
  /\ \/ /\ Goto(w, IF kind[worker[w].of] = "approval" THEN "call" ELSE "summarise")
        /\ job' = job
     \/ "startTurn" \in Faults /\ EndJob(w)
  /\ UNCHANGED <<rowVars, timeVars, msgVars, pausePc, req, sweep, histVars>>

\* mcpClient.callTool(): a result, an error result, or an exception, which
\* comes before or after the effect.
ToolEffect(w) ==
  LET c == worker[w].of IN
  /\ toolRuns' = [toolRuns EXCEPT ![c] = @ + 1]
  /\ ranWith' = [ranWith EXCEPT ![c] = worker[w].snap]

CallTool(w) ==
  /\ worker[w].pc = "call"
  /\ \/ \E next \in {"mark", "markFailed"} : ToolEffect(w) /\ Goto(w, next)
     \/ /\ "toolThrow" \in Faults
        /\ ToolEffect(w) \/ UNCHANGED <<toolRuns, ranWith>>
        /\ Goto(w, "catchError")
  /\ UNCHANGED <<rowVars, timeVars, msgVars, pausePc, req, job, sweep>>

MarkToolExecuted(w) ==
  /\ worker[w].pc \in {"mark", "markFailed"}
  /\ \/ /\ executed' = [executed EXCEPT ![worker[w].of] = TRUE]
        /\ Goto(w, IF worker[w].pc = "mark" THEN "summarise" ELSE "reportFailed")
     \/ /\ "markTool" \in Faults
        /\ Goto(w, "catchError")
        /\ executed' = executed
  /\ UNCHANGED <<kind, status, payload, started, timeVars, msgVars, pausePc,
                 req, job, sweep, histVars>>

\* An update inside the try: it moves the turn on, or throws to the catch.
UpdateThen(w, pc, text, next) ==
  /\ worker[w].pc = pc
  /\ \/ UpdateOK("bot", worker[w].of, text) /\ Goto(w, next)
     \/ UpdateThrows("bot") /\ Goto(w, "catchError")
  /\ UNCHANGED <<rowVars, timeVars, done, pausePc, req, job, sweep, histVars>>

ReportToolFailure(w) == UpdateThen(w, "reportFailed", "tool_failed", "emitDone")
Summarise(w)         == UpdateThen(w, "summarise", "summarising", "rounds")
FinishTurn(w)        == UpdateThen(w, "finish", "answered", "emitDone")

\* turnResolver.continueRounds(): an answer (or a new pause), Stop, an error.
ContinueRounds(w) ==
  /\ worker[w].pc = "rounds"
  /\ \E next \in {"finish", "catchStopped", "catchError"} : Goto(w, next)
  /\ UNCHANGED <<rowVars, timeVars, msgVars, pausePc, req, job, sweep, histVars>>

\* Mutant: the error path returns before emitDone().
CatchTurnSilently(w) ==
  /\ worker[w].pc \in {"catchError", "catchStopped"}
  /\ TryUpdate("bot", worker[w].of, "error")
  /\ EndJob(w)
  /\ UNCHANGED <<rowVars, timeVars, done, pausePc, req, sweep, histVars>>

CatchTurn(w) ==
  /\ worker[w].pc \in {"catchError", "catchStopped"}
  /\ TryUpdate("bot", worker[w].of,
               IF worker[w].pc = "catchError" THEN "error" ELSE "stopped")
  /\ Goto(w, "emitDone")
  /\ UNCHANGED <<rowVars, timeVars, done, pausePc, req, job, sweep, histVars>>

EmitDone(w) ==
  /\ worker[w].pc = "emitDone"
  /\ done' = [done EXCEPT ![worker[w].of] = TRUE]
  /\ EndJob(w)
  /\ UNCHANGED <<rowVars, timeVars, shown, pausePc, req, sweep, histVars>>

\* A stalled job goes back to the queue once, then it fails for good.
\* Mutant: one time more.
MayRetryLate(j) == job[j].stalls <= MaxStalls
MayRetry(j) == job[j].stalls < MaxStalls

Redelivered(j) ==
  IF MayRetry(j)
  THEN Moved(j, "waiting", None, job[j].stalls + 1)
  ELSE Moved(j, "gone", None, job[j].stalls)

WorkerCrash(w) ==
  LET j == worker[w].job IN
  /\ "workerCrash" \in Faults
  /\ worker[w].pc # "idle"
  /\ job' = IF job[j].owner = w THEN [job EXCEPT ![j] = Redelivered(j)] ELSE job
  /\ worker' = [worker EXCEPT ![w] = IdleWorker]
  /\ UNCHANGED <<rowVars, timeVars, msgVars, pausePc, req, sweep, histVars>>

\* The worker lives on, but its lock ran out and the job is given to another.
LockLost(w) ==
  LET j == worker[w].job IN
  /\ "lockLost" \in Faults
  /\ worker[w].pc # "idle"
  /\ job[j].owner = w
  /\ job' = [job EXCEPT ![j] = Redelivered(j)]
  /\ UNCHANGED <<rowVars, timeVars, msgVars, pausePc, req, worker, sweep, histVars>>

-----------------------------------------------------------------------------
(* Time, and the two cron jobs of CheckpointCleanupService.                *)

PassExpiry(c) ==
  /\ status[c] # "absent"
  /\ overdue' = overdue \cup {c}
  /\ UNCHANGED <<rowVars, stale, msgVars, pausePc, req, job, worker, sweep, histVars>>

\* The thirty minutes outlast an execution that is still running: the tool
\* and LLM timeouts bound a turn to a few minutes.
PassStall(c) ==
  /\ started[c]
  /\ \A w \in Workers : worker[w].of = c => worker[w].pc \notin Executing
  /\ stale' = stale \cup {c}
  /\ UNCHANGED <<rowVars, overdue, msgVars, pausePc, req, job, worker, sweep, histVars>>

Sweeping(s, c, pc) ==
  /\ sweep[s].pc = "idle"
  /\ sweep' = [sweep EXCEPT ![s] = [pc |-> pc, of |-> c]]
  /\ UNCHANGED <<rowVars, timeVars, msgVars, pausePc, req, job, worker, histVars>>

FindExpiredPending(s, c) ==
  status[c] = "pending" /\ c \in overdue /\ Sweeping(s, c, "expire")

FindStalledExecution(s, c) ==
  /\ status[c] = "approved" /\ started[c] /\ c \in stale /\ ~executed[c]
  /\ Sweeping(s, c, "recover")

\* claim(REJECTED) of expireOne(), markStalledAsRejected() of recoverOne().
SweepReject(s, pc, from, next) ==
  LET c == sweep[s].of IN
  /\ sweep[s].pc = pc
  /\ IF status[c] = from
     THEN /\ status' = [status EXCEPT ![c] = "rejected"]
          /\ sweep' = [sweep EXCEPT ![s] = [pc |-> next, of |-> c]]
     ELSE status' = status /\ sweep' = [sweep EXCEPT ![s] = IdleSweep]
  /\ UNCHANGED <<kind, payload, started, executed, timeVars, msgVars, pausePc,
                 req, job, worker, histVars>>

ExpireClaim(s)  == SweepReject(s, "expire", "pending", "notifyExpired")
RecoverClaim(s) == SweepReject(s, "recover", "approved", "notifyStalled")

\* Both cron jobs update the message in the name of the user who asked.
SweepSender == "user"
SweepNotify(s) ==
  LET c == sweep[s].of
      text == IF sweep[s].pc = "notifyExpired" THEN "expired" ELSE "stalled" IN
  /\ sweep[s].pc \in {"notifyExpired", "notifyStalled"}
  /\ \/ UpdateOK(SweepSender, c, text) /\ done' = [done EXCEPT ![c] = TRUE]
     \/ UpdateThrows(SweepSender) /\ done' = done
  /\ sweep' = [sweep EXCEPT ![s] = IdleSweep]
  /\ UNCHANGED <<rowVars, timeVars, pausePc, req, job, worker, histVars>>

SweepCrash(s) ==
  /\ "handlerCrash" \in Faults
  /\ sweep[s].pc # "idle"
  /\ sweep' = [sweep EXCEPT ![s] = IdleSweep]
  /\ UNCHANGED <<rowVars, timeVars, msgVars, pausePc, req, job, worker, histVars>>

-----------------------------------------------------------------------------

PauseStep(c) == PauseMessage(c) \/ PauseRow(c) \/ AttachTrace(c)
RequestStep(r) ==
  \/ ClaimDecision(r) \/ RejectCheckpoint(r) \/ EnqueueApprovalJob(r)
  \/ EnqueueThrows(r) \/ RevertApprovedClaim(r)
UserStep(r) == \E c \in Checkpoints, act \in Actions, choice \in NoChoice :
                 LoadCheckpoint(r, c, act, choice)
WorkerStep(w) ==
  \/ \E j \in Jobs : TakeJob(w, j)
  \/ FindCheckpoint(w) \/ ClaimExecution(w) \/ StartTurn(w) \/ CallTool(w)
  \/ MarkToolExecuted(w) \/ ReportToolFailure(w) \/ Summarise(w)
  \/ ContinueRounds(w) \/ FinishTurn(w) \/ CatchTurn(w) \/ EmitDone(w)
SweepStep(s) ==
  \/ \E c \in Checkpoints : FindExpiredPending(s, c) \/ FindStalledExecution(s, c)
  \/ ExpireClaim(s) \/ RecoverClaim(s) \/ SweepNotify(s)
Timing == \E c \in Checkpoints : PassExpiry(c) \/ PassStall(c)
Failing ==
  \/ \E r \in Requests : HandlerCrash(r)
  \/ \E s \in Sweepers : SweepCrash(s)
  \/ \E w \in Workers : WorkerCrash(w) \/ LockLost(w)

Next ==
  \/ \E c \in Checkpoints : PauseStep(c)
  \/ \E r \in Requests : UserStep(r) \/ RequestStep(r)
  \/ \E w \in Workers : WorkerStep(w)
  \/ \E s \in Sweepers : SweepStep(s)
  \/ Timing
  \/ Failing

Spec == Init /\ [][Next]_vars

\* A pausing turn, a request, a worker and a cron run that can go on do go on;
\* users, clocks and faults owe nothing.
Fairness ==
  /\ \A c \in Checkpoints : WF_vars(PauseStep(c))
  /\ \A r \in Requests : WF_vars(RequestStep(r))
  /\ \A w \in Workers : WF_vars(WorkerStep(w))
  /\ \A s \in Sweepers : WF_vars(SweepStep(s))

FairSpec == Spec /\ Fairness

-----------------------------------------------------------------------------
(* Properties.                                                             *)

\* queue.add() never reports an error for a job that it stored.
ReliableAdd == "lostReply" \notin Faults

\* The approved tool takes effect at most once per checkpoint, through
\* redelivered jobs, doubled jobs, lost locks and crashes: claimExecution().
AtMostOnceExecution == \A c \in Checkpoints : toolRuns[c] <= 1

\* The tool only takes effect while its row is approved: not while pending,
\* not after a rejection by the user or a cron run (resolveApproval(),
\* expireOne(), recoverOne() against processApprovalJob()).
RunsOnlyWhileApproved ==
  [][\A c \in Checkpoints : toolRuns'[c] # toolRuns[c] => status[c] = "approved"]_vars

\* What ran is what the row holds: nobody edits the arguments of an action
\* under a worker that has read them (claim() against findById()).
RanWhatWasApproved ==
  \A c \in Checkpoints : toolRuns[c] > 0 => ranWith[c] = payload[c]

\* No handler, cron run or late revert brings a rejected row back.
RejectionIsFinal ==
  [][\A c \in Checkpoints : status[c] = "rejected" => status'[c] = "rejected"]_vars

\* An approval ends: the message gets a final text and the client its 'done',
\* or the approval is withdrawn for another try (runResumableTurn(),
\* enqueueApprovalJob()).
Settled(c) == done[c] /\ shown[c] \in {"answered", "tool_failed", "stopped", "error"}
ApprovalSettles ==
  \A c \in Checkpoints : status[c] = "approved" ~> (Settled(c) \/ status[c] = "pending")

\* The gate as its users see it: a row that was never inserted is an open
\* question.
Gate == INSTANCE ApprovalGate WITH
          Actions <- Checkpoints,
          verdict <- [c \in Checkpoints |->
                        IF status[c] = "approved" THEN "granted"
                        ELSE IF status[c] = "rejected" THEN "refused" ELSE "open"],
          runs <- toolRuns
\* The lifecycle implements the abstract gate as long as queue.add() is
\* reliable in what it reports.
ImplementsGate == Gate!GateSpec

\* A row that a cron run gives up as stalled is not being executed, and its
\* tool is not known to have run: the answer of findStalledExecution() is still
\* right when markStalledAsRejected() acts on it.
GivesUpOnlyIdle ==
  [][\A c \in Checkpoints : status[c] = "approved" /\ status'[c] = "rejected" =>
       /\ ~executed[c]
       /\ \A w \in Workers : worker[w].of = c => worker[w].pc \notin Executing]_vars

\* A tool runs, and is given up, only by the owner of an approved row.
AttemptsAreOwned == RunsOnlyWhileApproved /\ GivesUpOnlyIdle

\* A row that a cron run rejects gets its message edited (test of
\* expirePendingCheckpoints()).  The code does not keep this.
RejectionIsShown ==
  \A c \in Checkpoints : status[c] = "rejected" ~> shown[c] # "awaiting"

=============================================================================
