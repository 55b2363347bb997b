----------------------------- MODULE MCAiTrigger -----------------------------
(* The jobs that answer a message; and, in behaviours of their own, the       *)
(* calendar of an employee: requests for leave, or one leave and days of      *)
(* work.  The two share no state: part says which a behaviour is about.       *)
EXTENDS AiTrigger

CONSTANTS t1, w1, w2, w3, p1, p2, p3, a, b, s1, r1, r2

\* Everything but a claim that ages under a job in the queue; faults after
\* which release() and the skip branch are right; and faults that leave the
\* process and its locks alone.
MCFaultSets == {FaultNames \ {"slow"},
                {"create", "release", "update", "crash", "lockLost"},
                {"create", "lostReply", "startTurn", "update"}}

VARIABLES part,
          row, used, rec, shift, logs, unlock, policy, cached, today, served, proc, cron,
          marked, exempt

C == INSTANCE Calendar WITH
       Ids <- {a, b}, Shifts <- {s1}, Procs <- {r1, r2}, LastDay <- 2,
       Ranges <- {<<1, 1>>, <<2, 2>>, <<3, 4>>}, Policies <- {{1, 2}, {1}},
       MaxPaid <- 1, Deadline <- 1, MaxServed <- 4

calendarVars == <<row, used, rec, shift, logs, unlock, policy, cached, today, served, proc, cron,
                  marked, exempt>>

MCInit ==
  /\ part \in {"trigger", "leave", "work"} /\ Init /\ C!Init
  /\ part # "trigger" => faults = FaultNames \ {"slow"}
  /\ part # "leave" => policy = {1, 2}

Asks(id, types) == \A p \in {r1, r2} : proc'[p].q = id => proc'[p].row.type \in types

\* two requests without shifts, of them one over the weekend; one paid leave, or
\* none, and a shift
LeaveOnly == /\ shift' = shift /\ served' <= 3
             /\ Asks(a, {"paid", "open"}) /\ Asks(b, {"paid"})
             /\ \A p \in {r1, r2} : proc'[p].q = b => proc'[p].row.range # <<3, 4>>
WorkAndLeave == /\ policy' = policy /\ unlock' = unlock
                /\ Asks(a, {"paid"}) /\ Asks(b, {})
                /\ \A p \in {r1, r2} : proc'[p].op # "update"

MCNext ==
  \/ part = "trigger" /\ Next   /\ UNCHANGED <<calendarVars, part>>
  \/ part = "leave"   /\ C!Next /\ LeaveOnly    /\ UNCHANGED <<vars, part>>
  \/ part = "work"    /\ C!Next /\ WorkAndLeave /\ UNCHANGED <<vars, part>>

Triggered(A) == part = "trigger" /\ A

\* the fairness of FairSpec, for the part it is about
MCSpec ==
  /\ MCInit /\ [][MCNext]_<<vars, calendarVars, part>>
  /\ \A w \in Workers : WF_vars(Triggered(WorkerStep(w)))
  /\ WF_vars(Triggered(ReapStaleClaims))

\* The job of a message ends, and its turn.
EverythingEnds == JobEnds /\ TurnEnds
\* Paid leave is counted once, leave is shown, and logs go in and out.
CalendarHolds == part \in {"leave", "work"} =>
  C!TypeOK /\ C!BalanceExact /\ C!LeaveShown /\ C!LogsAlternate

=============================================================================
