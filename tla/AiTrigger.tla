------------------------------ MODULE AiTrigger ------------------------------
(***************************************************************************)
(* A message that addresses the AI becomes one PROCESS_AI_TRIGGER job of   *)
(* the orchestration queue.  handleAiTrigger() claims the message with an  *)
(* INSERT ... ON CONFLICT DO NOTHING, posts a placeholder reply, records   *)
(* who owns the turn, runs the turn and edits the reply.  BullMQ retries a *)
(* job that throws and redelivers one whose worker lost its lock; a cron   *)
(* job reaps claims that are older than CLAIM_TTL_MS.                      *)
(*                                                                         *)
(* faults is the set of what may go wrong in a behaviour; it is chosen at  *)
(* the start, so that one model covers calm and rough surroundings:        *)
(*   "create"      createMessage() fails, no reply exists                  *)
(*   "lostReply"   createMessage() throws although the reply was stored    *)
(*   "startTurn"   the Redis SET of the turn owner fails                   *)
(*   "release"     the DELETE of the claim fails                           *)
(*   "update"      an update of the reply fails                            *)
(*   "crash"       a worker dies                                           *)
(*   "lockLost"    a worker outlives its job lock                          *)
(*   "slow"        a claim gets old while its job is still in the queue    *)
(***************************************************************************)
EXTENDS Naturals, FiniteSets

CONSTANTS
  Triggers,    \* messages that address the AI; each has its own jobId
  Replies,     \* placeholder messages (a bound)
  Workers,     \* worker slots of the queue
  MaxAttempts, \* attempts of a job
  None,        \* no value
  FaultSets    \* the sets of faults to choose from

FaultNames == {"create", "lostReply", "startTurn", "release", "update", "crash",
               "lockLost", "slow"}

ASSUME TriggerAssumption ==
  /\ None \notin Triggers \cup Replies \cup Workers
  /\ MaxAttempts \in Nat \ {0}
  /\ FaultSets \subseteq SUBSET FaultNames

VARIABLES
  job,     \* the queue: state, failed attempts, stalls and owner of each job
  worker,  \* handleAiTrigger() on each worker
  claims,  \* rows of orchestration_trigger_claims
  old,     \* claims older than CLAIM_TTL_MS
  reply,   \* reply messages: the trigger they answer and what they say
  owned,   \* replies with a TURN_OWNER key
  done,    \* replies whose 'done' was emitted
  turns,   \* history: how often the turn of a trigger was run
  faults   \* what may go wrong

vars == <<job, worker, claims, old, reply, owned, done, turns, faults>>

MaxStalls == 1 \* maxStalledCount of the processor

JobStates == {"none", "waiting", "active", "completed", "failed"}
Texts     == {"unused", "processing", "answered", "stopped", "error"}
Turning   == {"begin", "run", "update", "catchStopped", "catchError", "done"}
Holding   == {"create", "start", "release"} \cup Turning \* the claim is this worker's

Job    == [state : JobStates, fails : 0..MaxAttempts, stalls : 0..MaxStalls,
           owner : Workers \cup {None}]
Worker == [pc : {"idle", "claim"} \cup Holding, of : Triggers \cup {None},
           reply : Replies \cup {None}]
Reply  == [of : Triggers \cup {None}, text : Texts]

IdleWorker == [pc |-> "idle", of |-> None, reply |-> None]

TypeOK ==
  /\ job \in [Triggers -> Job]
  /\ worker \in [Workers -> Worker]
  /\ claims \subseteq Triggers
  /\ old \subseteq Triggers
  /\ reply \in [Replies -> Reply]
  /\ owned \subseteq Replies
  /\ done \subseteq Replies
  /\ turns \in [Triggers -> Nat]
  /\ faults \in FaultSets

Init ==
  /\ job = [t \in Triggers |-> [state |-> "none", fails |-> 0, stalls |-> 0,
                                owner |-> None]]
  /\ worker = [w \in Workers |-> IdleWorker]
  /\ claims = {} /\ old = {} /\ owned = {} /\ done = {}
  /\ reply = [r \in Replies |-> [of |-> None, text |-> "unused"]]
  /\ turns = [t \in Triggers |-> 0]
  /\ faults \in FaultSets

-----------------------------------------------------------------------------
(* The queue.                                                              *)

\* addJob(PROCESS_AI_TRIGGER) of maybeTriggerAiOrchestration().
Enqueue(t) ==
  /\ job[t].state = "none"
  /\ job' = [job EXCEPT ![t] = [state |-> "waiting", fails |-> 0, stalls |-> 0,
                                owner |-> None]]
  /\ UNCHANGED <<worker, claims, old, reply, owned, done, turns, faults>>

TakeJob(w, t) ==
  /\ worker[w].pc = "idle"
  /\ job[t].state = "waiting"
  /\ job' = [job EXCEPT ![t] = [state |-> "active", fails |-> job[t].fails,
                                stalls |-> job[t].stalls, owner |-> w]]
  /\ worker' = [worker EXCEPT ![w] = [pc |-> "claim", of |-> t, reply |-> None]]
  /\ UNCHANGED <<claims, old, reply, owned, done, turns, faults>>

\* The handler returns or throws; only the holder of the lock moves the job.
\* A job that throws is tried again until its attempts are used up.
\* Mutants: it stays where it is; it is tried once too often.
RetriedNot(fails) == "active"
RetriedLate(fails) == IF fails <= MaxAttempts THEN "waiting" ELSE "failed"
Retried(fails) == IF fails < MaxAttempts THEN "waiting" ELSE "failed"

EndJob(w, ok) ==
  LET t == worker[w].of
      fails == IF ok THEN job[t].fails ELSE job[t].fails + 1 IN
  /\ worker' = [worker EXCEPT ![w] = IdleWorker]
  /\ job' = IF job[t].state = "active" /\ job[t].owner = w
            THEN [job EXCEPT ![t] =
                    [state |-> IF ok THEN "completed" ELSE Retried(fails),
                     fails |-> fails, stalls |-> job[t].stalls, owner |-> None]]
            ELSE job

\* The lock of an active job ran out: back to the queue once, then failed.
Stall(t) ==
  job' = [job EXCEPT ![t] =
            IF job[t].stalls < MaxStalls
            THEN [state |-> "waiting", fails |-> job[t].fails,
                  stalls |-> job[t].stalls + 1, owner |-> None]
            ELSE [state |-> "failed", fails |-> job[t].fails,
                  stalls |-> job[t].stalls, owner |-> None]]

Crash(w) ==
  LET t == worker[w].of IN
  /\ "crash" \in faults
  /\ worker[w].pc # "idle"
  /\ worker' = [worker EXCEPT ![w] = IdleWorker]
  /\ IF job[t].owner = w THEN Stall(t) ELSE job' = job
  /\ UNCHANGED <<claims, old, reply, owned, done, turns, faults>>

LockLost(w) ==
  /\ "lockLost" \in faults
  /\ worker[w].pc # "idle"
  /\ job[worker[w].of].owner = w
  /\ Stall(worker[w].of)
  /\ UNCHANGED <<worker, claims, old, reply, owned, done, turns, faults>>

-----------------------------------------------------------------------------
(* handleAiTrigger().                                                      *)

Goto(w, pc, r) ==
  worker' = [worker EXCEPT ![w] = [pc |-> pc, of |-> worker[w].of, reply |-> r]]

\* INSERT ... ON CONFLICT DO NOTHING.  Mutant: without the unique index.
CanClaimTwice(t) == TRUE
CanClaim(t) == t \notin claims

Claim(w) ==
  LET t == worker[w].of IN
  /\ worker[w].pc = "claim"
  /\ IF CanClaim(t)
     THEN claims' = claims \cup {t} /\ Goto(w, "create", None) /\ job' = job
     ELSE claims' = claims /\ EndJob(w, TRUE) \* claimed before: skipped
  /\ UNCHANGED <<old, reply, owned, done, turns, faults>>

\* createMessage('processing ...').
CreateReply(w) ==
  /\ worker[w].pc = "create"
  /\ \/ \E r \in Replies :
          /\ reply[r].text = "unused"
          /\ reply' = [reply EXCEPT ![r] = [of |-> worker[w].of, text |-> "processing"]]
          /\ \/ Goto(w, "start", r)
             \/ "lostReply" \in faults /\ Goto(w, "release", None)
     \/ "create" \in faults /\ Goto(w, "release", None) /\ reply' = reply
  /\ UNCHANGED <<job, claims, old, owned, done, turns, faults>>

\* cancellation.startTurn().
StartTurn(w) ==
  /\ worker[w].pc = "start"
  /\ \/ owned' = owned \cup {worker[w].reply} /\ Goto(w, "begin", worker[w].reply)
     \/ "startTurn" \in faults /\ Goto(w, "release", None) /\ owned' = owned
  /\ UNCHANGED <<job, claims, old, reply, done, turns, faults>>

\* release() and rethrow.  Mutant: the error is rethrown without release().
ReleaseNot(w) ==
  /\ worker[w].pc = "release"
  /\ EndJob(w, FALSE)
  /\ UNCHANGED <<claims, old, reply, owned, done, turns, faults>>

Release(w) ==
  /\ worker[w].pc = "release"
  /\ \/ /\ claims' = claims \ {worker[w].of}
        /\ old' = old \ {worker[w].of}
     \/ "release" \in faults /\ UNCHANGED <<claims, old>>
  /\ EndJob(w, FALSE)
  /\ UNCHANGED <<reply, owned, done, turns, faults>>

\* turnResolver.resolveAnswer(): the turn runs, then an answer, Stop or an error.
BeginTurn(w) ==
  /\ worker[w].pc = "begin"
  /\ turns' = [turns EXCEPT ![worker[w].of] = @ + 1]
  /\ Goto(w, "run", worker[w].reply)
  /\ UNCHANGED <<job, claims, old, reply, owned, done, faults>>

EndTurn(w) ==
  /\ worker[w].pc = "run"
  /\ \E pc \in {"update", "catchStopped", "catchError"} : Goto(w, pc, worker[w].reply)
  /\ UNCHANGED <<job, claims, old, reply, owned, done, turns, faults>>

SetText(r, text) == reply' = [reply EXCEPT ![r] = [of |-> reply[r].of, text |-> text]]

UpdateReply(w) ==
  /\ worker[w].pc = "update"
  /\ \/ SetText(worker[w].reply, "answered") /\ Goto(w, "done", worker[w].reply)
     \/ "update" \in faults /\ Goto(w, "catchError", worker[w].reply) /\ reply' = reply
  /\ UNCHANGED <<job, claims, old, owned, done, turns, faults>>

\* tryUpdateMessage() in the catch.  Mutant: updateMessage(), which rethrows
\* past 'done'.
CatchRethrows(w) ==
  /\ worker[w].pc \in {"catchStopped", "catchError"}
  /\ \/ SetText(worker[w].reply, "error") /\ Goto(w, "done", worker[w].reply) /\ job' = job
     \/ "update" \in faults /\ EndJob(w, FALSE) /\ reply' = reply
  /\ UNCHANGED <<claims, old, owned, done, turns, faults>>

CatchTurn(w) ==
  /\ worker[w].pc \in {"catchStopped", "catchError"}
  /\ \/ SetText(worker[w].reply,
                IF worker[w].pc = "catchError" THEN "error" ELSE "stopped")
     \/ "update" \in faults /\ reply' = reply
  /\ Goto(w, "done", worker[w].reply)
  /\ UNCHANGED <<job, claims, old, owned, done, turns, faults>>

EmitDone(w) ==
  /\ worker[w].pc = "done"
  /\ done' = done \cup {worker[w].reply}
  /\ EndJob(w, TRUE)
  /\ UNCHANGED <<claims, old, reply, owned, turns, faults>>

-----------------------------------------------------------------------------
(* The reaper.                                                             *)

Settled(t) == /\ job[t].state \in {"completed", "failed"}
              /\ \A w \in Workers : worker[w].of # t

\* Ten minutes pass.  Unless "slow" is allowed, they outlast every retry.
AgeClaim(t) ==
  /\ t \in claims
  /\ "slow" \in faults \/ Settled(t)
  /\ old' = old \cup {t}
  /\ UNCHANGED <<job, worker, claims, reply, owned, done, turns, faults>>

ReapStaleClaims ==
  /\ old # {}
  /\ claims' = claims \ old
  /\ old' = {}
  /\ UNCHANGED <<job, worker, reply, owned, done, turns, faults>>

-----------------------------------------------------------------------------

WorkerStep(w) ==
  \/ \E t \in Triggers : TakeJob(w, t)
  \/ Claim(w) \/ CreateReply(w) \/ StartTurn(w) \/ Release(w) \/ BeginTurn(w)
  \/ EndTurn(w) \/ UpdateReply(w) \/ CatchTurn(w) \/ EmitDone(w)

Next ==
  \/ \E t \in Triggers : Enqueue(t) \/ AgeClaim(t)
  \/ \E w \in Workers : WorkerStep(w) \/ Crash(w) \/ LockLost(w)
  \/ ReapStaleClaims

Spec == Init /\ [][Next]_vars

\* A worker with something to do does it, and the cron job runs.
FairSpec == Spec /\ \A w \in Workers : WF_vars(WorkerStep(w)) /\ WF_vars(ReapStaleClaims)

-----------------------------------------------------------------------------
(* Properties.                                                             *)

RepliesTo(t) == {r \in Replies : reply[r].of = t}

\* The turn of a message, its LLM calls and its tools, runs at most once,
\* through retries, redeliveries and the reaper, unless a claim ages under its
\* job (handleAiTrigger(), claim(), reapStaleClaims()).
TurnRunsOnce == "slow" \notin faults => \A t \in Triggers : turns[t] <= 1

\* A message has at most one placeholder reply: a claim that is released after
\* a failed createMessage() left no reply behind (claim(), release()).
OnePlaceholder ==
  faults \cap {"lostReply", "startTurn", "slow"} = {} =>
    \A t \in Triggers : Cardinality(RepliesTo(t)) <= 1

\* No worker dies or loses its lock, and a claim that must go is deleted.
Steady == faults \cap {"crash", "lockLost", "release", "slow"} = {}

\* A job that BullMQ records as completed has left a reply: no turn gets lost
\* without a trace (the skip branch of handleAiTrigger() against release()).
CompletedHasReply ==
  Steady => \A t \in Triggers : job[t].state = "completed" => RepliesTo(t) # {}

\* One placeholder for a message, and one that is answered has a reply.
OneReply == OnePlaceholder /\ CompletedHasReply

\* Every job ends, with 'done' on a reply or as a failed job, and every turn
\* that began tells its client so (handleAiTrigger()'s finally).
JobEnds ==
  \A t \in Triggers : Steady /\ job[t].state = "waiting" ~>
                        (job[t].state = "failed" \/ RepliesTo(t) \cap done # {})
TurnEnds ==
  \A t \in Triggers : Steady /\ turns[t] > 0 ~> RepliesTo(t) \cap done # {}

=============================================================================
