------------------------------- MODULE AgentTurn -------------------------------
(***************************************************************************)
(* One turn of the agent: TurnResolverRun (plan, delegate, evaluate,       *)
(* synthesize), the ReAct loop of the agent a step is delegated to         *)
(* (ReactLoopRun), its tool calls (ToolCallExecutor), which run side by    *)
(* side through the limiter of the provider, the pauses for an approval or *)
(* a clarification with the run that resumes them, and Stop.               *)
(*                                                                         *)
(* A model of language answers anything: every choice of plan(),           *)
(* evaluate() and the agent is a choice here.  A call is known by its      *)
(* signature (name and arguments); the model may ask for the same one      *)
(* again and again.  A planned step is TRUE when hasPendingActionStep()    *)
(* holds for it.  What a pause stores in the checkpoint stays in the       *)
(* variables until the turn is resumed; CheckpointLifecycle has the rows.  *)
(***************************************************************************)
EXTENDS Naturals, Sequences, FiniteSets

CONSTANTS
  Reads,    \* signatures of tools without destructiveHint
  Inserts,  \* INSERTs into one table, which run without approval
  Risky,    \* the other destructive ones
  MaxRealSteps,   \* MAX_REAL_STEPS_PER_TURN
  MaxNonProgress, \* MAX_SUPERVISOR_ROUNDS
  MaxReactSteps,  \* MAX_REACT_STEPS
  MaxRepeats,     \* MAX_SAME_TOOL_CALL_REPEATS
  MaxTries,       \* MAX_TRANSIENT_TOOL_RETRY_ATTEMPTS
  MaxConcurrent,  \* MAX_CONCURRENT_MCP_CALLS_PER_PROVIDER
  MaxCalls,       \* a bound: tool calls in a turn
  MaxBatch,       \* a bound: tool calls in one answer of the model
  MaxPlan         \* a bound: steps of a plan

Signatures == Reads \cup Inserts \cup Risky
Calls == 1..MaxCalls \* in the order in which the model asks for them
Plans == UNION {[1..n -> BOOLEAN] : n \in 1..MaxPlan}

ASSUME TurnAssumption ==
  /\ MaxRealSteps \in Nat /\ MaxNonProgress \in Nat /\ MaxReactSteps \in Nat
  /\ MaxRepeats \in Nat /\ MaxTries \in Nat \ {0} /\ MaxConcurrent \in Nat \ {0}
  /\ MaxCalls \in Nat /\ MaxBatch \in Nat /\ MaxPlan \in Nat
  /\ Reads \cap Inserts = {} /\ Risky \cap (Reads \cup Inserts) = {}

VARIABLES
  pc,          \* where the turn is
  end,         \* how it ended
  needsPlan, steps,        \* of run(): the steps that are left
  rounds,      \* this.rounds: how many made progress, how many did not
  realSteps, nonProgress,  \* the counters of TurnResolverRun
  pending,     \* the call that waits for approval, 0 for a clarification
  run,         \* which TurnResolverRun of the turn this is
  react,       \* of ReactLoopRun: step and selfChecked
  call, used,  \* the tool calls, and how many there are
  kept,        \* this.toolCalls of TurnResolverRun
  stop, aborted,           \* the TURN_CANCEL key; the signal of the run
  active, waiting, slot,   \* the limiter
  delegated    \* history: delegateRound() calls of the turn

plan   == <<needsPlan, steps>>
budget == <<rounds, realSteps, nonProgress>>
limit  == <<active, waiting, slot>>
vars   == <<pc, end, needsPlan, steps, rounds, realSteps, nonProgress, pending, run,
            react, call, used, kept, stop, aborted, active, waiting, slot, delegated>>

L == INSTANCE ProviderConcurrencyLimiter WITH Requests <- Calls, pc <- slot

\* What became of a call.  Those of Tracked went through the repeat guard,
\* those of Recorded are in this.toolCalls of their ToolCallExecutor.
Recorded == {"ok", "reused", "error", "blocked", "short"}
Settled  == Recorded \cup {"approval", "gone"}
Tracked  == {"call", "again", "ok", "reused", "error", "blocked"}
States   == Settled \cup {"unused", "start", "gate", "call", "again"}

\* The run under runCancellable(): its signal can be aborted.
Running == {"top", "plan", "step", "react", "tools", "evaluate", "synthesize"}

NoLoop == [step |-> 0, checked |-> FALSE]
Call == [sig : Signatures \cup {"none"}, st : States, tries : 0..MaxTries,
         first : 0..MaxCalls, of : Nat, run : Nat]
NoCall == [sig |-> "none", st |-> "unused", tries |-> 0, first |-> 0, of |-> 0, run |-> 0]

TypeOK ==
  /\ pc \in Running \cup {"paused", "approved", "over"}
  /\ end \in {"none", "final", "fallback", "refused", "failed", "rejected", "cancelled"}
  /\ needsPlan \in BOOLEAN
  /\ steps \in Seq(BOOLEAN)
  /\ rounds \in [real : Nat, no : Nat]
  /\ realSteps \in Nat /\ nonProgress \in Nat
  /\ pending \in 0..MaxCalls
  /\ run \in Nat
  /\ react \in [step : 0..MaxReactSteps, checked : BOOLEAN]
  /\ call \in [Calls -> Call]
  /\ used \in 0..MaxCalls
  /\ kept \subseteq Calls
  /\ stop \in BOOLEAN /\ aborted \in BOOLEAN
  /\ L!TypeOK
  /\ delegated \in Nat

Init ==
  /\ pc = "top" /\ end = "none"
  /\ needsPlan = TRUE /\ steps = <<>>
  /\ rounds = [real |-> 0, no |-> 0] /\ realSteps = 0 /\ nonProgress = 0
  /\ pending = 0 /\ run = 1
  /\ react = NoLoop
  /\ call = [k \in Calls |-> NoCall] /\ used = 0 /\ kept = {}
  /\ stop = FALSE /\ aborted = FALSE
  /\ L!Init
  /\ delegated = 0

Over(how) == pc' = "over" /\ end' = how
Goto(p) == pc' = p /\ UNCHANGED end

Set(k, st) == call' = [call EXCEPT ![k].st = st]

-----------------------------------------------------------------------------
(* TurnResolverRun.run(): the loop.                                        *)

\* One round is the answer; several are put together by the model.
Finalize ==
  IF rounds.real + rounds.no > 1
  THEN pc' = "synthesize" /\ end' = "final"
  ELSE Over("final")

LoopTop ==
  /\ pc = "top"
  /\ IF realSteps < MaxRealSteps /\ nonProgress < MaxNonProgress
     THEN IF stop THEN Over("cancelled")
                  ELSE Goto(IF needsPlan THEN "plan" ELSE "step")
     ELSE pc' = "synthesize" /\ end' = "fallback"
  /\ UNCHANGED <<plan, budget, pending, run, react, call, used, kept, stop, aborted, limit,
                 delegated>>

Actions(p) == Cardinality({n \in DOMAIN p : p[n]})

\* respond; no agent the user has; a plan, with or without a question first.
Plan ==
  /\ pc = "plan"
  /\ \/ /\ Finalize \/ Over("refused")
        /\ UNCHANGED <<plan, pending>>
     \/ \E p \in Plans :
          /\ steps' = p
          /\ needsPlan' = FALSE
          /\ pending' = 0
          /\ Goto("step") \/ Goto("paused") \/ Over("failed")
  /\ UNCHANGED <<budget, run, react, call, used, kept, stop, aborted, limit, delegated>>

\* A round that is no progress, and a new plan.
\* Mutant: the round is neither added nor counted.
ReplanUncounted ==
  /\ steps' = <<>> /\ needsPlan' = TRUE
  /\ UNCHANGED budget
  /\ Goto("top")

Replan ==
  /\ steps' = <<>> /\ needsPlan' = TRUE
  /\ rounds' = [rounds EXCEPT !.no = @ + 1]
  /\ nonProgress' = nonProgress + 1
  /\ UNCHANGED realSteps
  /\ Goto("top")

\* guardAgainstMisroute().
Misroute ==
  /\ pc = "step" /\ steps # <<>>
  /\ Replan
  /\ UNCHANGED <<pending, run, react, call, used, kept, stop, aborted, limit, delegated>>

\* delegateRound() is over, the round is added.
Progress ==
  /\ rounds' = [rounds EXCEPT !.real = @ + 1]
  /\ realSteps' = realSteps + 1
  /\ UNCHANGED nonProgress

Shift ==
  /\ pc = "step" /\ steps # <<>>
  /\ steps' = Tail(steps)
  /\ UNCHANGED needsPlan
  /\ delegated' = delegated + 1

\* delegateRound() of an agent the user does not have.
Unavailable ==
  /\ Shift
  /\ Progress
  /\ Goto("evaluate")
  /\ UNCHANGED <<pending, run, react, call, used, kept, stop, aborted, limit>>

Delegate ==
  /\ Shift
  /\ Goto("react")
  /\ UNCHANGED <<budget, pending, run, react, call, used, kept, stop, aborted, limit>>

\* runEvaluateAndDecide(): 'done' is overruled while an action step is left;
\* without steps the verdict is 'done'.
\* Mutant: 'done' is final.
MayFinishAlways == TRUE
MayFinish == Actions(steps) = 0

Evaluate ==
  /\ pc = "evaluate"
  /\ \/ MayFinish /\ Finalize /\ UNCHANGED <<plan, budget>>
     \/ steps # <<>> /\ Goto("top") /\ UNCHANGED <<plan, budget>>
     \/ steps # <<>> /\ Replan
  /\ UNCHANGED <<pending, run, react, call, used, kept, stop, aborted, limit, delegated>>

\* finalizeAnswer() or runNonConvergenceFallback(): the model's answer.
Synthesize ==
  /\ pc = "synthesize"
  /\ Over(end)
  /\ UNCHANGED <<plan, budget, pending, run, react, call, used, kept, stop, aborted, limit,
                 delegated>>

-----------------------------------------------------------------------------
(* ReactLoopRun.execute(): pc is "react" while the model of the agent is   *)
(* asked, "tools" while its calls run.                                     *)

MadeBy(d) == {k \in Calls : call[k].of = d /\ call[k].st \in Recorded}

AskForTools ==
  /\ pc = "react" /\ react.step < MaxReactSteps
  /\ \E n \in 1..MaxBatch :
       /\ used + n <= MaxCalls
       /\ used' = used + n
       /\ \E s \in [used + 1 .. used + n -> Signatures] :
            call' = [k \in Calls |->
                       IF k \in DOMAIN s
                       THEN [sig |-> s[k], st |-> "start", tries |-> 1, first |-> used + 1,
                             of |-> delegated, run |-> run]
                       ELSE call[k]]
  /\ react' = [react EXCEPT !.step = @ + 1]
  /\ Goto("tools")
  /\ UNCHANGED <<plan, budget, pending, run, kept, stop, aborted, limit, delegated>>

\* handleNoMoreToolCalls(): the model is told once to go on or to check.
SelfCheck ==
  /\ pc = "react" /\ react.step + 1 < MaxReactSteps /\ ~react.checked
  /\ MadeBy(delegated) # {}
  /\ react' = [step |-> react.step + 1, checked |-> TRUE]
  /\ UNCHANGED <<pc, end, plan, budget, pending, run, call, used, kept, stop, aborted, limit,
                 delegated>>

\* The answer; or sendMessage() throws, and the round says so, without calls.
AgentAnswers ==
  /\ pc = "react"
  /\ Progress
  /\ kept' \in {kept \cup MadeBy(delegated), kept}
  /\ react' = NoLoop
  /\ Goto("evaluate")
  /\ UNCHANGED <<plan, pending, run, call, used, stop, aborted, limit, delegated>>

Batch(k) == {j \in Calls : call[j].first = call[k].first}

\* Promise.all() of the batch.
ToolsSettled ==
  /\ pc = "tools"
  /\ \A k \in Batch(used) : call[k].st \in Recorded
  /\ Goto("react")
  /\ UNCHANGED <<plan, budget, pending, run, react, call, used, kept, stop, aborted, limit,
                 delegated>>

-----------------------------------------------------------------------------
(* ToolCallExecutor: a call of the batch.  It goes on when the turn does   *)
(* not wait for it any more.                                               *)

\* The same call, or an INSERT into the same table, is waited for.
\* Mutant: nothing is waited for.
OrderedNot(k) == TRUE
Ordered(k) ==
  \A j \in Batch(k) :
    j < k /\ (call[j].sig = call[k].sig \/ {call[j].sig, call[k].sig} \subseteq Inserts)
      => call[j].st \in Settled

\* ToolRepeatGuard, which a TurnResolverRun has for all its calls.
SameBefore(k) ==
  {j \in Calls \ {k} : call[j].run = call[k].run /\ call[j].sig = call[k].sig
                         /\ call[j].st \in Tracked}
Cached(k) == \E j \in SameBefore(k) : call[j].st = "ok"

\* Mutant: one repetition too many.
TooOftenOffByOne(k) == Cardinality(SameBefore(k)) > MaxRepeats
TooOften(k) == Cardinality(SameBefore(k)) + 1 > MaxRepeats

Track(k) == Set(k, IF Cached(k) THEN "reused" ELSE IF TooOften(k) THEN "blocked" ELSE "call")

StartCall(k) ==
  /\ call[k].st = "start" /\ Ordered(k)
  /\ IF call[k].sig \in Reads THEN Track(k) ELSE Set(k, "gate")
  /\ UNCHANGED <<pc, end, plan, budget, pending, run, react, used, kept, stop, aborted, limit,
                 delegated>>

\* handleDestructiveToolCall() of an INSERT: rows are missing, or it runs.
PassGate(k) ==
  /\ call[k].st = "gate" /\ call[k].sig \in Inserts
  /\ Set(k, "short") \/ Track(k)
  /\ UNCHANGED <<pc, end, plan, budget, pending, run, react, used, kept, stop, aborted, limit,
                 delegated>>

Awaited(k) == pc = "tools" /\ k \in Batch(used)

\* ApprovalRequiredError rejects Promise.all(): the turn is paused with what
\* was recorded so far.
Block(k) ==
  /\ call[k].st = "gate" /\ call[k].sig \in Risky
  /\ Set(k, "approval")
  /\ IF Awaited(k) /\ ~aborted
     THEN /\ kept' = kept \cup MadeBy(delegated)
          /\ rounds' = IF \E j \in MadeBy(delegated) : call[j].st \in {"ok", "reused"}
                       THEN [rounds EXCEPT !.real = @ + 1] ELSE rounds
          /\ realSteps' = realSteps + 1
          /\ pending' = k
          /\ react' = NoLoop
          /\ Goto("paused") \/ Over("failed")
          /\ UNCHANGED nonProgress
     ELSE UNCHANGED <<pc, end, budget, pending, react, kept>>
  /\ UNCHANGED <<plan, run, used, stop, aborted, limit, delegated>>

\* McpClientService.callTool(), in the limiter.
SignalOf(k) == aborted /\ call[k].run = run /\ pc # "approved"

Acquire(k) ==
  /\ call[k].st = "call"
  /\ IF SignalOf(k) THEN L!Reject(k) /\ Set(k, "gone")
                    ELSE L!Acquire(k) /\ UNCHANGED call
  /\ UNCHANGED <<pc, end, plan, budget, pending, run, react, used, kept, stop, aborted,
                 delegated>>

Begin(k) ==
  /\ L!Begin(k)
  /\ UNCHANGED <<pc, end, plan, budget, pending, run, react, call, used, kept, stop, aborted,
                 delegated>>

Approved(k) == pc = "approved" /\ k = pending

\* The circuit of the provider is open: the limiter is not reached.
Unreached(k) ==
  /\ call[k].st = "call" /\ ~Approved(k)
  /\ L!Reject(k)
  /\ Set(k, "error")
  /\ UNCHANGED <<pc, end, plan, budget, pending, run, react, used, kept, stop, aborted,
                 delegated>>

\* The tool answers: a result, an error or one that may be tried again.
EndCall(k) ==
  /\ ~Approved(k)
  /\ L!Release(k)
  /\ \/ Set(k, "ok") \/ Set(k, "error")
     \/ /\ call[k].tries < MaxTries
        /\ call' = [call EXCEPT ![k].st = "again", ![k].tries = @ + 1]
  /\ UNCHANGED <<pc, end, plan, budget, pending, run, react, used, kept, stop, aborted,
                 delegated>>

TryAgain(k) ==
  /\ call[k].st = "again" /\ ~SignalOf(k)
  /\ L!Again(k)
  /\ Set(k, "call")
  /\ UNCHANGED <<pc, end, plan, budget, pending, run, react, used, kept, stop, aborted,
                 delegated>>

\* The signal reaches a call that waits, runs or sleeps.
AbortCall(k) ==
  /\ SignalOf(k)
  /\ \/ call[k].st = "call" /\ (L!Abort(k) \/ L!Release(k))
     \/ call[k].st = "again" /\ UNCHANGED limit
  /\ Set(k, "gone")
  /\ UNCHANGED <<pc, end, plan, budget, pending, run, react, used, kept, stop, aborted,
                 delegated>>

-----------------------------------------------------------------------------
(* The answer of the user, and the run that resumes the turn.              *)

Refuse ==
  /\ pc = "paused"
  /\ Over("rejected")
  /\ UNCHANGED <<plan, budget, pending, run, react, call, used, kept, stop, aborted, limit,
                 delegated>>

\* The constructor of TurnResolverRun counts the rounds it is given.
NewRun ==
  /\ run' = run + 1
  /\ kept' = {}
  /\ aborted' = FALSE
  /\ realSteps' = rounds'.real /\ nonProgress' = rounds'.no

\* resolveClarificationCheckpoint(): the step asked about is the first.
\* The reply is another message: its TURN_CANCEL key is another.
Clarified ==
  /\ pc = "paused" /\ pending = 0
  /\ UNCHANGED rounds
  /\ NewRun
  /\ stop' = FALSE
  /\ Goto("top")
  /\ UNCHANGED <<plan, pending, react, call, used, limit, delegated>>

Approve ==
  /\ pc = "paused" /\ pending # 0
  /\ Set(pending, "call")
  /\ stop' = FALSE
  /\ Goto("approved")
  /\ UNCHANGED <<plan, budget, pending, run, react, used, kept, aborted, limit, delegated>>

\* approveCheckpoint(): the round of the approved call is added to those of
\* the checkpoint, and perhaps a step for the rows that are missing.
\* Mutant: the round is not added.
ResumedRoundsLost == rounds
ResumedRounds == [rounds EXCEPT !.real = @ + 1]

EndApproved(k) ==
  /\ Approved(k)
  /\ \/ /\ L!Release(k)
        /\ Set(k, "ok")
        /\ rounds' = ResumedRounds
        /\ NewRun
        /\ \/ UNCHANGED steps
           \/ steps' = <<TRUE>> \o steps
        /\ Goto("evaluate")
     \/ /\ L!Release(k) \/ L!Reject(k)
        /\ Set(k, "error")
        /\ Over("failed")
        /\ UNCHANGED <<steps, budget, run, kept, aborted>>
  /\ UNCHANGED <<needsPlan, pending, react, used, stop, delegated>>

-----------------------------------------------------------------------------
(* Stop: cancelTurn() sets the key, runCancellable() polls it.             *)

Stop ==
  /\ pc \notin {"paused", "over"} /\ ~stop
  /\ stop' = TRUE
  /\ UNCHANGED <<pc, end, plan, budget, pending, run, react, call, used, kept, aborted, limit,
                 delegated>>

Poll ==
  /\ pc \in Running /\ stop /\ ~aborted
  /\ aborted' = TRUE
  /\ UNCHANGED <<pc, end, plan, budget, pending, run, react, call, used, kept, stop, limit,
                 delegated>>

\* What the run waits for rejects.
Cancelled ==
  /\ aborted /\ pc \in {"plan", "evaluate", "react", "tools", "synthesize"}
  /\ Over("cancelled")
  /\ react' = NoLoop
  /\ UNCHANGED <<plan, budget, pending, run, call, used, kept, stop, aborted, limit,
                 delegated>>

TurnStep ==
  \/ LoopTop \/ Plan \/ Misroute \/ Unavailable \/ Delegate \/ Evaluate
  \/ Synthesize \/ AskForTools \/ SelfCheck \/ AgentAnswers \/ ToolsSettled \/ Cancelled

CallStep(k) ==
  \/ StartCall(k) \/ PassGate(k) \/ Block(k) \/ Acquire(k) \/ Begin(k) \/ Unreached(k)
  \/ EndCall(k) \/ TryAgain(k) \/ AbortCall(k) \/ EndApproved(k)

Next ==
  \/ TurnStep
  \/ \E k \in Calls : CallStep(k)
  \/ Refuse \/ Clarified \/ Approve
  \/ Stop \/ Poll

Spec == Init /\ [][Next]_vars

\* Models and tools answer (each call has a time-out), microtasks run; nobody
\* has to answer, to press Stop, or to see that it was pressed.
FairSpec == Spec /\ WF_vars(TurnStep) /\ \A k \in Calls : WF_vars(CallStep(k))

-----------------------------------------------------------------------------
(* Properties.                                                             *)

\* However often the turn pauses and resumes, it delegates at most
\* MAX_REAL_STEPS_PER_TURN steps, although each run counts from the rounds it
\* is given (the constructor, runDelegationStep(), approveCheckpoint()).
StepBudget == delegated <= MaxRealSteps

\* One run calls a tool with the same arguments once, whatever the model asks
\* for, in one batch or in several (ToolRepeatGuard, run()).
CalledOncePerRun ==
  \A j, k \in 1..used :
    /\ call[j].run = call[k].run /\ call[j].sig = call[k].sig
    /\ {call[j].st, call[k].st} \subseteq {"call", "again", "ok", "error"}
    /\ pending \notin {j, k}
    => j = k

\* A repeated call is turned down only if the first one failed; if it
\* succeeded, the repetition gets its result, also in the same batch
\* (lastRunBySignature).
BlockedAfterFailure ==
  \A k \in 1..used : call[k].st = "blocked" => ~Cached(k)

\* A call is made once a run, and not after one that failed before it.
CalledInTurn == CalledOncePerRun /\ BlockedAfterFailure

\* The provider's slots, with calls that outlive the turn's interest in them.
WithinLimit  == L!WithinLimit
NoSlotLost   == L!NoSlotLost
WaiterServed == L!WaiterServed
\* The slots of the limiter are kept to, and none gets lost.
SlotsAreKept == TypeOK /\ WithinLimit /\ NoSlotLost

\* A run of a turn ends it or asks the user, whatever the models answer (the
\* two budgets of run(), MAX_REACT_STEPS).
AnswersOrAsks == pc \notin {"paused", "over"} ~> pc \in {"paused", "over"}

\* The check of quantities at the end sees every tool call of the turn, over
\* all its steps and resumes (the comment of
\* appendCumulativeQuantityDisclaimer()).
AllCallsCounted ==
  end \in {"final", "fallback"} =>
    \A k \in 1..used : call[k].run < run /\ call[k].st = "ok" => k \in kept

=============================================================================
