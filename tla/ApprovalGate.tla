----------------------------- MODULE ApprovalGate -----------------------------
(***************************************************************************)
(* What a human-in-the-loop gate promises, whatever queue, worker or cron  *)
(* implements it: a verdict on each action, and the action carried out at  *)
(* most once and only while it is granted.                                 *)
(***************************************************************************)
EXTENDS Naturals

CONSTANT Actions \* the actions that wait for a verdict

VARIABLES verdict, runs

gateVars == <<verdict, runs>>

GateTypeOK ==
  /\ verdict \in [Actions -> {"open", "granted", "refused"}]
  /\ runs \in [Actions -> {0, 1}]

GateInit ==
  /\ verdict = [a \in Actions |-> "open"]
  /\ runs = [a \in Actions |-> 0]

Decide(a, v) ==
  /\ verdict[a] = "open"
  /\ verdict' = [verdict EXCEPT ![a] = v]
  /\ UNCHANGED runs

\* The grant could not be passed on: the question is open again.
Withdraw(a) ==
  /\ verdict[a] = "granted" /\ runs[a] = 0
  /\ verdict' = [verdict EXCEPT ![a] = "open"]
  /\ UNCHANGED runs

\* Given up: nobody knows whether the action was carried out.
GiveUp(a) ==
  /\ verdict[a] = "granted"
  /\ verdict' = [verdict EXCEPT ![a] = "refused"]
  /\ UNCHANGED runs

Run(a) ==
  /\ verdict[a] = "granted" /\ runs[a] = 0
  /\ runs' = [runs EXCEPT ![a] = 1]
  /\ UNCHANGED verdict

GateNext ==
  \E a \in Actions :
    Decide(a, "granted") \/ Decide(a, "refused") \/ Withdraw(a) \/ GiveUp(a) \/ Run(a)

GateSpec == GateInit /\ [][GateNext]_gateVars

=============================================================================
