---------------------------- MODULE CircuitBreaker ----------------------------
(***************************************************************************)
(* CircuitBreakerService for one key (`llm:<strategy>`, `mcp:<route>`).    *)
(* The circuit lives in Redis and is shared by all processes; run() is a   *)
(* chain of single Redis commands with awaits in between, so other calls,  *)
(* deaths and the passing of time come between any two of them.            *)
(*                                                                         *)
(* Time is counted in ticks: openedAt is kept as the age of the opening,   *)
(* a key with a TTL as the ticks it has left (0 = no such key).  A caller  *)
(* is a stream of calls of run(); one whose process dies does not return.  *)
(*                                                                         *)
(* faults is the set of what may go wrong in a behaviour; it is chosen at  *)
(* the start, so that one model covers calm and rough surroundings:        *)
(*   "abort"  the caller's signal aborts the action                        *)
(*   "crash"  the process of a call dies                                   *)
(*   "redis"  a Redis command throws and takes no effect                   *)
(*   "slow"   an action outlasts the lock of its probe (two attempts of    *)
(*            LLM_CALL_TIMEOUT_MS fill CIRCUIT_BREAKER_PROBE_LOCK_TTL_MS)  *)
(***************************************************************************)
EXTENDS Naturals, FiniteSets

CONSTANTS
  Callers,
  Volume,        \* CIRCUIT_BREAKER_VOLUME_THRESHOLD
  Percentage,    \* CIRCUIT_BREAKER_ERROR_THRESHOLD_PERCENTAGE
  Window,        \* CIRCUIT_BREAKER_VOLUME_WINDOW_SEC, in ticks
  ResetTimeout,  \* CIRCUIT_BREAKER_RESET_TIMEOUT_MS, in ticks
  ProbeLockTtl,  \* CIRCUIT_BREAKER_PROBE_LOCK_TTL_MS, in ticks
  MaxTotal,      \* a bound: calls that report within one window
  FaultSets      \* the sets of faults to choose from

FaultNames == {"abort", "crash", "redis", "slow"}

ASSUME BreakerAssumption ==
  /\ Volume \in Nat \ {0} /\ Percentage \in Nat
  /\ Window \in Nat \ {0} /\ ResetTimeout \in Nat \ {0} /\ ProbeLockTtl \in Nat \ {0}
  /\ MaxTotal \in Nat
  /\ FaultSets \subseteq SUBSET FaultNames

VARIABLES
  state,      \* CIRCUIT_BREAKER_STATE, "closed" when there is no such key
  openedAge,  \* age of CIRCUIT_BREAKER_OPENED_AT; ResetTimeout when it elapsed
              \* or when there is no such key
  probeLock,  \* ticks left of CIRCUIT_BREAKER_PROBE_LOCK
  total, totalTtl,        \* CIRCUIT_BREAKER_TOTAL
  failures, failuresTtl,  \* CIRCUIT_BREAKER_FAILURES
  pc,         \* run() of each caller
  faults      \* what may go wrong

circuit  == <<state, openedAge>>
counters == <<total, totalTtl, failures, failuresTtl>>
vars     == <<state, openedAge, probeLock, total, totalTtl, failures, failuresTtl, pc,
              faults>>

\* A probe that has not given its lock back yet.
Holding == {"halfOpen", "probe", "probeOk", "probeBad", "probeAborted"}
Points  == {"idle", "openedAt", "setLock", "call", "ok", "bad", "close", "reopen",
            "stamp", "dead"} \cup Holding

TypeOK ==
  /\ state \in {"closed", "open", "half_open"}
  /\ openedAge \in 0..ResetTimeout
  /\ probeLock \in 0..ProbeLockTtl
  /\ total \in Nat /\ totalTtl \in 0..Window
  /\ failures \in Nat /\ failuresTtl \in 0..Window
  /\ total = 0 <=> totalTtl = 0 \* a counter always has its TTL
  /\ failures = 0 <=> failuresTtl = 0
  /\ pc \in [Callers -> Points]
  /\ faults \in FaultSets

Init ==
  /\ state = "closed" /\ openedAge = ResetTimeout /\ probeLock = 0
  /\ total = 0 /\ totalTtl = 0 /\ failures = 0 /\ failuresTtl = 0
  /\ pc = [c \in Callers |-> "idle"]
  /\ faults \in FaultSets

Goto(c, p) == pc' = [pc EXCEPT ![c] = p]

-----------------------------------------------------------------------------
(* acquire().                                                              *)

GetState(c) ==
  /\ pc[c] = "idle"
  /\ \/ state = "closed"    /\ Goto(c, "call")
     \/ state = "open"      /\ Goto(c, "openedAt")
     \/ state = "half_open" /\ Goto(c, "setLock")
  /\ UNCHANGED <<circuit, probeLock, counters, faults>>

\* The decision OPEN throws: run() is over.
GetOpenedAt(c) ==
  /\ pc[c] = "openedAt"
  /\ Goto(c, IF openedAge < ResetTimeout THEN "idle" ELSE "setLock")
  /\ UNCHANGED <<circuit, probeLock, counters, faults>>

\* SET ... PX ... NX.  Mutant: without NX.
AcquirableAlways == TRUE
Acquirable == probeLock = 0

SetProbeLock(c) ==
  /\ pc[c] = "setLock"
  /\ IF Acquirable
     THEN probeLock' = ProbeLockTtl /\ Goto(c, "halfOpen")
     ELSE probeLock' = probeLock /\ Goto(c, "idle")
  /\ UNCHANGED <<circuit, counters, faults>>

SetHalfOpen(c) ==
  /\ pc[c] = "halfOpen"
  /\ state' = "half_open"
  /\ Goto(c, "probe")
  /\ UNCHANGED <<openedAge, probeLock, counters, faults>>

-----------------------------------------------------------------------------
(* The action, and report().                                               *)

EndAction(c) ==
  /\ \/ pc[c] = "call"  /\ \/ Goto(c, "ok") \/ Goto(c, "bad")
                           \/ "abort" \in faults /\ Goto(c, "idle")
     \/ pc[c] = "probe" /\ \/ Goto(c, "probeOk") \/ Goto(c, "probeBad")
                           \/ "abort" \in faults /\ Goto(c, "probeAborted")
  /\ UNCHANGED <<circuit, probeLock, counters, faults>>

\* CIRCUIT_BREAKER_REPORT_SCRIPT.  EXPIRE comes with the first INCR of a key.
\* Mutant: the comparison with 1 is off by one, the key never expires.
TtlMissing(count, ttl) == IF count = 0 THEN Window ELSE ttl
Ttl(count, ttl) == IF count = 1 THEN Window ELSE ttl

Trips(calls, failed) == calls >= Volume /\ failed * 100 >= calls * Percentage

ReportOk(c) ==
  /\ pc[c] = "ok" /\ total < MaxTotal
  /\ total' = total + 1
  /\ totalTtl' = Ttl(total', totalTtl)
  /\ Goto(c, "idle")
  /\ UNCHANGED <<circuit, probeLock, failures, failuresTtl, faults>>

ReportBad(c) ==
  /\ pc[c] = "bad" /\ total < MaxTotal
  /\ IF Trips(total + 1, failures + 1)
     THEN /\ state' = "open" /\ openedAge' = 0
          /\ total' = 0 /\ totalTtl' = 0 /\ failures' = 0 /\ failuresTtl' = 0
     ELSE /\ total' = total + 1 /\ totalTtl' = Ttl(total', totalTtl)
          /\ failures' = failures + 1 /\ failuresTtl' = Ttl(failures', failuresTtl)
          /\ UNCHANGED circuit
  /\ Goto(c, "idle")
  /\ UNCHANGED <<probeLock, faults>>

\* DEL of the probe lock, whoever holds it by now.
DelProbeLock(c) ==
  /\ \/ pc[c] = "probeOk"      /\ Goto(c, "close")
     \/ pc[c] = "probeBad"     /\ Goto(c, "reopen")
     \/ pc[c] = "probeAborted" /\ Goto(c, "idle")
  /\ probeLock' = 0
  /\ UNCHANGED <<circuit, counters, faults>>

\* DEL of the state, openedAt and both counters.
\* Mutant: the state is left as it is.
CloseNot(c) ==
  /\ pc[c] = "close"
  /\ openedAge' = ResetTimeout
  /\ total' = 0 /\ totalTtl' = 0 /\ failures' = 0 /\ failuresTtl' = 0
  /\ Goto(c, "idle")
  /\ UNCHANGED <<state, probeLock, faults>>

Close(c) ==
  /\ pc[c] = "close"
  /\ state' = "closed" /\ openedAge' = ResetTimeout
  /\ total' = 0 /\ totalTtl' = 0 /\ failures' = 0 /\ failuresTtl' = 0
  /\ Goto(c, "idle")
  /\ UNCHANGED <<probeLock, faults>>

SetOpen(c) ==
  /\ pc[c] = "reopen"
  /\ state' = "open"
  /\ Goto(c, "stamp")
  /\ UNCHANGED <<openedAge, probeLock, counters, faults>>

SetOpenedAt(c) ==
  /\ pc[c] = "stamp"
  /\ openedAge' = 0
  /\ Goto(c, "idle")
  /\ UNCHANGED <<state, probeLock, counters, faults>>

\* report(key, ..., true) throws inside the try: the catch reports a failure.
RedisThrows(c) ==
  /\ "redis" \in faults
  /\ \/ pc[c] = "ok" /\ Goto(c, "bad")
     \/ pc[c] \in {"probeOk", "close"} /\ Goto(c, "probeBad")
     \/ /\ pc[c] \in {"openedAt", "setLock", "halfOpen", "bad", "probeBad", "reopen",
                       "stamp", "probeAborted"}
        /\ Goto(c, "idle")
  /\ UNCHANGED <<circuit, probeLock, counters, faults>>

-----------------------------------------------------------------------------

\* One process is left running.
Crash(c) ==
  /\ "crash" \in faults
  /\ pc[c] # "dead"
  /\ \E d \in Callers \ {c} : pc[d] # "dead"
  /\ Goto(c, "dead")
  /\ UNCHANGED <<circuit, probeLock, counters, faults>>

Left(ttl) == IF ttl = 0 THEN 0 ELSE ttl - 1
Kept(count, ttl) == IF ttl = 1 THEN 0 ELSE count

\* A tick passes, and the keys whose TTL is over are gone.
Tick ==
  /\ "slow" \in faults \/ probeLock # 1 \/ \A c \in Callers : pc[c] \notin Holding
  /\ openedAge' = IF openedAge < ResetTimeout THEN openedAge + 1 ELSE ResetTimeout
  /\ probeLock' = Left(probeLock)
  /\ total' = Kept(total, totalTtl) /\ totalTtl' = Left(totalTtl)
  /\ failures' = Kept(failures, failuresTtl) /\ failuresTtl' = Left(failuresTtl)
  /\ UNCHANGED <<state, pc, faults>>

CallerStep(c) ==
  \/ GetState(c) \/ GetOpenedAt(c) \/ SetProbeLock(c) \/ SetHalfOpen(c)
  \/ EndAction(c) \/ ReportOk(c) \/ ReportBad(c) \/ DelProbeLock(c)
  \/ Close(c) \/ SetOpen(c) \/ SetOpenedAt(c)

Next ==
  \/ \E c \in Callers : CallerStep(c) \/ RedisThrows(c) \/ Crash(c)
  \/ Tick

Spec == Init /\ [][Next]_vars

\* Calls keep coming, every command and every action ends, time passes.
FairSpec == Spec /\ \A c \in Callers : WF_vars(CallerStep(c)) /\ WF_vars(Tick)

-----------------------------------------------------------------------------
(* Properties.                                                             *)

\* One request at a time is let through to a provider that is down, however
\* calls, aborts and deaths interleave, unless an action outlasts its lock or
\* Redis fails in the middle of a report (acquire(), report(), run()).
LocksHold == faults \cap {"slow", "redis"} = {}
SingleProbe ==
  LocksHold => \A c, d \in Callers :
                 {pc[c], pc[d]} \subseteq {"halfOpen", "probe"} => c = d

\* When provider and Redis are well for good, the circuit is closed again and
\* again, whatever failed or died before (acquire(), report(), the lock's PX).
Well(c) ==
  /\ pc[c] \in {"call", "probe"} => pc'[c] \in {pc[c], "ok", "probeOk", "dead"}
  /\ pc[c] = "openedAt" /\ openedAge = ResetTimeout => pc'[c] # "idle"
  /\ pc[c] = "setLock" /\ probeLock = 0 => pc'[c] # "idle"
  /\ pc[c] = "halfOpen" => pc'[c] # "idle"
  /\ pc[c] \in {"probeOk", "close"} => pc'[c] # "probeBad"
Recovers == <>[][\A c \in Callers : Well(c)]_vars => []<>(state = "closed")

=============================================================================
