----------------------------- MODULE AiAdmission -----------------------------
(***************************************************************************)
(* What stands between a message that addresses the AI and its job:        *)
(* maybeTriggerAiOrchestration() asks the limit of the user, the limit of  *)
(* the workspace and the depth of the queue, one await after the other,    *)
(* and adds the job with a priority that gets worse with the workspace's   *)
(* count.  The limits are counters in Redis that expire a window after     *)
(* their first INCR (RateLimitService); the queue is BullMQ's, which keeps *)
(* jobs with a priority apart from those that wait.                        *)
(*                                                                         *)
(* Time is counted in ticks, a counter's TTL as the ticks it has left.     *)
(***************************************************************************)
EXTENDS Naturals, FiniteSets

CONSTANTS
  Messages, Users, Workspaces,
  Author,          \* the user of each message
  Home,            \* the workspace of each message
  UserLimit,       \* 5 triggers ...
  WorkspaceLimit,  \* WORKSPACE_TRIGGER_ADMISSION_LIMIT triggers ...
  Window,          \* ... in 60 seconds, in ticks
  PriorityMax,     \* WORKSPACE_TRIGGER_PRIORITY_MAX
  MaxDepth,        \* MAX_ORCHESTRATION_QUEUE_DEPTH
  Concurrency      \* AI_ORCHESTRATION_QUEUE_CONCURRENCY, over all processes

ASSUME AdmissionAssumption ==
  /\ Author \in [Messages -> Users] /\ Home \in [Messages -> Workspaces]
  /\ Users \cap Workspaces = {}
  /\ UserLimit \in Nat \ {0} /\ WorkspaceLimit \in Nat \ {0}
  /\ Window \in Nat \ {0}
  /\ PriorityMax \in Nat \ {0} /\ MaxDepth \in Nat /\ Concurrency \in Nat \ {0}

Keys == Users \cup Workspaces

VARIABLES
  count, ttl,  \* AI_TRIGGER_RATE_LIMIT and WORKSPACE_TRIGGER_COUNT, by key
  pc,          \* maybeTriggerAiOrchestration() of each message
  recent,      \* recentTriggerCount of each message
  job,         \* the list of BullMQ that holds the job of a message
  age          \* history: ticks since a key let the message pass (Window: long ago)

counters == <<count, ttl, age>>
vars == <<count, ttl, pc, recent, job, age>>

Points == {"new", "user", "workspace", "depth", "add", "queued", "ignored", "refused",
           "lost"}
Lists  == {"none", "waiting", "prioritized", "active", "delayed", "finished"}

TypeOK ==
  /\ count \in [Keys -> Nat] /\ ttl \in [Keys -> 0..Window]
  /\ \A k \in Keys : count[k] = 0 <=> ttl[k] = 0 \* a counter always has its TTL
  /\ pc \in [Messages -> Points]
  /\ recent \in [Messages -> Nat]
  /\ job \in [Messages -> Lists]
  /\ age \in [Messages -> [Keys -> 0..Window]]

Init ==
  /\ count = [k \in Keys |-> 0] /\ ttl = [k \in Keys |-> 0]
  /\ pc = [m \in Messages |-> "new"]
  /\ recent = [m \in Messages |-> 0]
  /\ job = [m \in Messages |-> "none"]
  /\ age = [m \in Messages |-> [k \in Keys |-> Window]]

Goto(m, p) == pc' = [pc EXCEPT ![m] = p]
In(list)   == {m \in Messages : job[m] = list}

-----------------------------------------------------------------------------
(* maybeTriggerAiOrchestration().                                          *)

\* No bot in the channel, the bot's own message, a group without a mention.
Ignore(m) ==
  /\ pc[m] = "new"
  /\ Goto(m, "ignored")
  /\ UNCHANGED <<counters, recent, job>>

Trigger(m) ==
  /\ pc[m] = "new"
  /\ Goto(m, "user")
  /\ UNCHANGED <<counters, recent, job>>

\* INCREMENT_IN_WINDOW_SCRIPT.  Mutant: the EXPIRE is left out.
FirstTtlMissing(k) == ttl[k]
FirstTtl(k) == IF count[k] = 0 THEN Window ELSE ttl[k]

Increment(k) ==
  /\ count' = [count EXCEPT ![k] = @ + 1]
  /\ ttl' = [ttl EXCEPT ![k] = FirstTtl(k)]

\* Mutant: the limit is off by one.
WithinOneMore(n, limit) == n <= limit + 1
Within(n, limit) == n <= limit

\* One limit: the message passes to next or is refused with a reply of the bot.
Check(m, k, limit, next) ==
  /\ Increment(k)
  /\ IF Within(count[k] + 1, limit)
     THEN Goto(m, next) /\ age' = [age EXCEPT ![m][k] = 0]
     ELSE Goto(m, "refused") /\ age' = age

CheckUser(m) ==
  /\ pc[m] = "user"
  /\ Check(m, Author[m], UserLimit, "workspace")
  /\ UNCHANGED <<recent, job>>

CheckWorkspace(m) ==
  /\ pc[m] = "workspace"
  /\ Check(m, Home[m], WorkspaceLimit, "depth")
  /\ recent' = [recent EXCEPT ![m] = count[Home[m]] + 1]
  /\ UNCHANGED job

\* isOverloaded(): getJobCounts('waiting', 'active').
Depth == Cardinality(In("waiting")) + Cardinality(In("active"))

CheckDepth(m) ==
  /\ pc[m] = "depth"
  /\ Goto(m, IF Depth > MaxDepth THEN "refused" ELSE "add")
  /\ UNCHANGED <<counters, recent, job>>

Priority(m) == IF recent[m] <= PriorityMax THEN recent[m] ELSE PriorityMax

\* BullMQ keeps a job with a priority in a list of its own.
ListOf(m) == IF Priority(m) = 0 THEN "waiting" ELSE "prioritized"

AddJob(m) ==
  /\ pc[m] = "add"
  /\ job' = [job EXCEPT ![m] = ListOf(m)]
  /\ Goto(m, "queued")
  /\ UNCHANGED <<counters, recent>>

\* Redis or a service throws: createMessage() logs it.
Throw(m) ==
  /\ pc[m] \in {"user", "workspace", "depth", "add"}
  /\ Goto(m, "lost")
  /\ UNCHANGED <<counters, recent, job>>

-----------------------------------------------------------------------------
(* BullMQ.                                                                 *)

Move(m, list) == job' = [job EXCEPT ![m] = list]

\* Waiting jobs come first, then those of the smallest priority.
IsNext(m) ==
  \/ job[m] = "waiting"
  \/ /\ job[m] = "prioritized" /\ In("waiting") = {}
     /\ \A n \in In("prioritized") : Priority(m) <= Priority(n)

TakeJob(m) ==
  /\ IsNext(m)
  /\ Cardinality(In("active")) < Concurrency
  /\ Move(m, "active")
  /\ UNCHANGED <<counters, pc, recent>>

\* The job is done, waits for another attempt, or its lock ran out.
LeaveWorker(m) ==
  /\ job[m] = "active"
  /\ Move(m, "finished") \/ Move(m, "delayed") \/ Move(m, "waiting")
  /\ UNCHANGED <<counters, pc, recent>>

Promote(m) ==
  /\ job[m] = "delayed"
  /\ Move(m, ListOf(m))
  /\ UNCHANGED <<counters, pc, recent>>

Left(n) == IF n = 0 THEN 0 ELSE n - 1

Tick ==
  /\ count' = [k \in Keys |-> IF ttl[k] = 1 THEN 0 ELSE count[k]]
  /\ ttl' = [k \in Keys |-> Left(ttl[k])]
  /\ age' = [m \in Messages |-> [k \in Keys |->
               IF age[m][k] < Window THEN age[m][k] + 1 ELSE Window]]
  /\ UNCHANGED <<pc, recent, job>>

Next ==
  \/ \E m \in Messages :
       \/ Ignore(m) \/ Trigger(m) \/ CheckUser(m) \/ CheckWorkspace(m) \/ CheckDepth(m)
       \/ AddJob(m) \/ Throw(m) \/ TakeJob(m) \/ LeaveWorker(m) \/ Promote(m)
  \/ Tick

Spec == Init /\ [][Next]_vars

-----------------------------------------------------------------------------
(* Properties.                                                             *)

\* The messages that key k let pass in the last Window ticks, and its limit.
Passed(k) == {m \in Messages : age[m][k] < Window}
Limit(k)  == IF k \in Users THEN UserLimit ELSE WorkspaceLimit

\* Whatever the interleaving, a span of one window sees less than twice the
\* limit: the window that ends saw its first trigger when it began
\* (incrementInWindow()).
SpanBounded == \A k \in Keys : Cardinality(Passed(k)) < 2 * Limit(k)
\* Counters expire, and no span of a window sees twice the limit.
LimitsHold == TypeOK /\ SpanBounded

\* Nobody is refused for a limit that was not used up within one window, not
\* even by triggers that were refused themselves (isAllowed(), INCR before the
\* comparison).
RefusedOnlyWhenUsedUp ==
  [][\A m \in Messages :
       /\ pc[m] = "user" /\ pc'[m] = "refused" =>
            Cardinality(Passed(Author[m])) >= UserLimit
       /\ pc[m] = "workspace" /\ pc'[m] = "refused" =>
            Cardinality(Passed(Home[m])) >= WorkspaceLimit]_vars

\* No more jobs queue up than MAX_ORCHESTRATION_QUEUE_DEPTH and the one that
\* is let in at that depth (comment of the constant, isOverloaded()).  The code
\* does not keep this.
QueueBounded ==
  Cardinality(In("waiting")) + Cardinality(In("prioritized")) + Cardinality(In("active"))
    <= MaxDepth + 1

=============================================================================
