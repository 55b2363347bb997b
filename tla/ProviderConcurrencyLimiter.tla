---------------------- MODULE ProviderConcurrencyLimiter ----------------------
(***************************************************************************)
(* The semaphore in front of one MCP provider in one process               *)
(* (ProviderConcurrencyLimiterService with a fixed key): a counter and a   *)
(* FIFO of waiters.  A slot that gets free is handed to the first waiter   *)
(* without being counted down in between, and a waiter may be aborted.     *)
(* JavaScript runs to completion between two awaits, so acquire(),         *)
(* release() and an abort are one step each; the resolved waiter goes on   *)
(* in a later microtask.                                                   *)
(***************************************************************************)
EXTENDS Naturals, FiniteSets, SequencesExt

CONSTANTS
  Requests,      \* callers of run(); one may call again when it is done
  MaxConcurrent  \* the maxConcurrent argument of run()

VARIABLES
  active,   \* Map active: slots in use
  waiting,  \* Map waiting: the waiters in order
  pc        \* run(): before acquire(), waiting, granted, in action(), over

vars == <<active, waiting, pc>>

Points == {"new", "waiting", "granted", "running", "over"}

TypeOK ==
  /\ active \in Nat
  /\ waiting \in Seq(Requests)
  /\ pc \in [Requests -> Points]

Init ==
  /\ active = 0
  /\ waiting = <<>>
  /\ pc = [r \in Requests |-> "new"]

\* acquire() of a request whose signal is not aborted.
\* Mutant: one slot too many.
HasRoomOffByOne == active <= MaxConcurrent
HasRoom == active < MaxConcurrent

Acquire(r) ==
  /\ pc[r] = "new"
  /\ IF HasRoom
     THEN /\ active' = active + 1
          /\ pc' = [pc EXCEPT ![r] = "granted"]
          /\ UNCHANGED waiting
     ELSE /\ waiting' = Append(waiting, r)
          /\ pc' = [pc EXCEPT ![r] = "waiting"]
          /\ UNCHANGED active

\* acquire() of an aborted signal rejects at once.
Reject(r) ==
  /\ pc[r] = "new"
  /\ pc' = [pc EXCEPT ![r] = "over"]
  /\ UNCHANGED <<active, waiting>>

\* onAbort(): the waiter leaves the queue.
Abort(r) ==
  /\ pc[r] = "waiting"
  /\ pc' = [pc EXCEPT ![r] = "over"]
  /\ \E i \in DOMAIN waiting : waiting[i] = r /\ waiting' = RemoveAt(waiting, i)
  /\ UNCHANGED active

\* The microtask after acquire(): action() begins.
Begin(r) ==
  /\ pc[r] = "granted"
  /\ pc' = [pc EXCEPT ![r] = "running"]
  /\ UNCHANGED <<active, waiting>>

\* action() is over, returned or thrown: release().
\* Mutants: the slot is counted down and handed over all the same; the slot is
\* counted down and nobody is told.
ReleaseForgetting(r) ==
  /\ pc[r] = "running"
  /\ active' = active - 1
  /\ pc' = [pc EXCEPT ![r] = "over"]
  /\ UNCHANGED waiting

ReleaseCountingDown(r) ==
  /\ pc[r] = "running"
  /\ active' = active - 1
  /\ IF waiting # <<>>
     THEN /\ waiting' = Tail(waiting)
          /\ pc' = [pc EXCEPT ![r] = "over", ![Head(waiting)] = "granted"]
     ELSE pc' = [pc EXCEPT ![r] = "over"] /\ UNCHANGED waiting

Release(r) ==
  /\ pc[r] = "running"
  /\ IF waiting # <<>>
     THEN /\ waiting' = Tail(waiting)
          /\ pc' = [pc EXCEPT ![r] = "over", ![Head(waiting)] = "granted"]
          /\ UNCHANGED active
     ELSE /\ active' = active - 1
          /\ pc' = [pc EXCEPT ![r] = "over"]
          /\ UNCHANGED waiting

\* The caller calls run() once more.
Again(r) ==
  /\ pc[r] = "over"
  /\ pc' = [pc EXCEPT ![r] = "new"]
  /\ UNCHANGED <<active, waiting>>

-----------------------------------------------------------------------------
(* Properties.                                                             *)

Holders == {r \in Requests : pc[r] \in {"granted", "running"}}

\* A process never runs more than maxConcurrent calls against the provider,
\* through hand-overs and aborts (acquire(), release()).
WithinLimit == Cardinality(Holders) <= MaxConcurrent

\* Every slot that is counted is held by a live call, every held one is
\* counted, and none is left over while somebody waits: no hand-over or abort
\* leaks or doubles one (release() against onAbort()).
NoSlotLost ==
  /\ active = Cardinality(Holders)
  /\ waiting # <<>> => active >= MaxConcurrent

\* Whoever waits gets a slot or is aborted.
WaiterServed == \A r \in Requests : pc[r] = "waiting" ~> pc[r] # "waiting"

=============================================================================
