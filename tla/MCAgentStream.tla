---------------------------- MODULE MCAgentStream ----------------------------
(* One key: silences, resumed turns and lost jobs for one process, and jobs  *)
(* that are late, doubled or split between two processes.  In behaviours of  *)
(* their own, the tasks of a board, and the video calls of a channel, in     *)
(* order and not: they share no state, and part says which one a behaviour   *)
(* is about.                                                                 *)
EXTENDS AgentStream

CONSTANTS p1, p2, t1, t2, t3, g1, g2, u1, u2, d1, r1, r2, None

MCFaultSets == {{}, {"silent", "lost", "restart"}, {"silent", "resume"},
                {"again", "lost"}, {"again", "restart"},
                {"late", "split"}, {"late", "again"}}

VARIABLES part,
          task, born, group, member, stale, job, req, served, reminded, overtaken, crossed,
          huddle, seats, hCall, hooks, token, room, running, calls, connects, egresses, raced, hasty

T == INSTANCE TaskBoard WITH
       Tasks <- {t1, t2, t3}, Groups <- {g1, g2}, Users <- {u1, u2}, Dates <- {d1},
       Requests <- {r1, r2}, MaxServed <- 2, Gap <- 8

H == INSTANCE Huddle WITH
       Users <- {u1, u2}, Slots <- {1, 2}, MaxHuddles <- 2, MaxServed <- 3, MaxConnects <- 2,
       served <- calls, call <- hCall

huddleVars == <<huddle, seats, hCall, hooks, token, room, running, calls, connects, egresses,
                raced, hasty>>
boardVars == <<task, born, group, member, stale, job, req, served, reminded, overtaken, crossed>>

MCInit ==
  /\ part \in {"stream", "board", "huddle", "late"} /\ T!Init /\ H!Init /\ Init
  /\ part # "stream" => faults = {}

\* Three calls and two connections with no stale row; two calls and one
\* connection with one kind of them.
InOrder == raced' = {} /\ hasty' = {}
Fewer   == calls' <= 2 /\ connects' <= 1 /\ (raced' = {} \/ hasty' = {})

MCNext ==
  \/ part = "stream" /\ Next   /\ UNCHANGED <<boardVars, huddleVars, part>>
  \/ part = "board"  /\ T!Next /\ UNCHANGED <<vars, huddleVars, part>>
  \/ part = "huddle" /\ H!Next /\ InOrder /\ UNCHANGED <<vars, boardVars, part>>
  \/ part = "late"   /\ H!Next /\ Fewer   /\ UNCHANGED <<vars, boardVars, part>>

Streaming(A) == part = "stream" /\ A

\* the fairness of FairSpec, for the part it is about
MCSpec ==
  /\ MCInit /\ [][MCNext]_<<vars, boardVars, huddleVars, part>>
  /\ WF_vars(Streaming(Done))
  /\ WF_vars(Streaming(Flush))
  /\ WF_vars(Streaming(\E call \in outbox : Send(call) \/ FailAdd(call)))
  /\ WF_vars(Streaming(\E p \in Processes, j \in queue : Process(p, j)))
  /\ \A p \in Processes : WF_vars(Streaming(Age(p))) /\ WF_vars(Streaming(Sweep(p)))

\* Every step is shown, and the processes forget the stream.
ShownAndForgotten == EveryStepShown /\ StreamForgotten
\* Tasks and groups keep places of their own, and lists and reminders follow them.
\* Who is in a video call is shown in it, and a call that everybody left is over.
BoardAndHuddlesHold ==
  /\ part = "board" => T!TypeOK /\ T!PlacesDiffer /\ T!ListsAreInvalidated /\ T!ReminderOfDueDate
  /\ part \in {"huddle", "late"} => H!TypeOK /\ H!HuddlesHold

=============================================================================
