----------------------------- MODULE MCAgentTurn -----------------------------
(* A turn with few steps and calls; and, in behaviours of their own, the      *)
(* tokens of a dynamic provider that two processes use, with two calls in one *)
(* of them or one in each, and the gateway: each of its routes, a rate limit, *)
(* the plan's features, the members of a channel.  They share no state: part  *)
(* says which a behaviour is about.                                          *)
EXTENDS AgentTurn

CONSTANTS i1, i2, c1, c2, u1, r1, r2, None

VARIABLES part,
          row, valid, given, spec, ram, load, renewal, toolCall, update, jobs,
          spent, behind, again, discarded,
          now, pro, roster, out, window, limits, members, promise, req, served, admitted

D(place) == INSTANCE DynamicProviders WITH
       Processes <- {i1, i2}, Calls <- {c1, c2}, Updates <- {u1}, Process <- place,
       MaxSpecs <- 2, MaxTokens <- 3, MaxTries <- 1, call <- toolCall

G(R, n) == INSTANCE ApiGateway WITH
       Asked <- R, Workers <- {i1, i2}, Requests <- {r1, r2}, MaxServed <- n, MaxNow <- 4

Placed(second) == [x \in {c1, c2, u1} |-> IF x = c1 THEN i1 ELSE IF x = c2 THEN second ELSE i2]

providerVars == <<row, valid, given, spec, ram, load, renewal, toolCall, update, jobs,
                  spent, behind, again, discarded>>
Routes == G({}, 1)!Routes

gatewayVars == <<now, pro, roster, out, window, limits, members, promise, req, served, admitted>>

MCInit == /\ part \in {"turn", "together", "apart", "routes", "limits", "plan", "members"}
          /\ Init /\ D(Placed(i1))!Init /\ G(Routes, 3)!Init /\ pro.value

Hooks    == {p \in Routes : p.path = "hooks"}
Features == {p \in Routes : p.feature}
Memos    == {p \in Routes : p.memo}

\* One worker, with no fault but those; a step of a request that nothing here
\* disturbs goes at once.
Through(faults) == \A r \in {r1, r2} :
  /\ req[r].pc \in {"token", "role"} \/ (req[r].pc = "call" /\ ~ req[r].route.memo) => req'[r] # req[r]
  /\ req'[r].n # 0 => /\ req'[r].at = i1 /\ req'[r].met \subseteq faults
                      /\ req'[r].bearer \/ req'[r].route.public

\* every route, one request at a time; then more requests to one of them as time passes
GatewayNext ==
  \/ /\ part = "routes" /\ G(Routes, 1)!Next /\ now' = now
     /\ \A q, r \in {r1, r2} : {req'[q].pc, req'[r].pc} \cap {"idle", "answered"} = {} => q = r
  \/ /\ part = "limits" /\ G(Hooks, 3)!Next /\ UNCHANGED <<pro, roster, out>> /\ Through({})
  \/ /\ part = "plan" /\ G(Features, 3)!Next /\ UNCHANGED <<roster, out, promise>> /\ Through({})
     /\ served' <= 2 /\ pro'.since <= 1 /\ ~ G(Features, 3)!WorkerDies(i1)
     /\ req'[r1].pc = "idle" => req'[r2].pc = "idle"  \* r1 comes first
  \/ /\ part = "members" /\ G(Memos, 3)!Next /\ UNCHANGED <<pro, out>> /\ Through({"unreachable"})
     /\ served' <= 2 /\ now' <= 3

\* Stop is pressed before the turn is planned anew
StopEarly == stop' => stop \/ nonProgress = 0

MCNext ==
  /\ part' = part
  /\ \/ part = "turn"     /\ Next /\ StopEarly  /\ UNCHANGED <<providerVars, gatewayVars>>
     \/ part = "together" /\ D(Placed(i1))!Next /\ UNCHANGED <<vars, gatewayVars>>
     \/ part = "apart"    /\ D(Placed(i2))!Next /\ UNCHANGED <<vars, gatewayVars>>
     \/ GatewayNext       /\ UNCHANGED <<vars, providerVars>>

Turning(A) == part = "turn" /\ A

\* the fairness of FairSpec, for the part it is about
MCSpec ==
  /\ MCInit /\ [][MCNext]_<<vars, providerVars, gatewayVars, part>>
  /\ WF_vars(Turning(TurnStep))
  /\ \A k \in Calls : WF_vars(Turning(CallStep(k)))

\* Who waits for a slot gets it, and the turn ends or asks.
NobodyIsStuck == part = "turn" => WaiterServed /\ AnswersOrAsks

\* The row and the entries in RAM keep a refresh token that works.
ProviderKeepsToken == part \in {"together", "apart"} =>
  D(Placed(i1))!TypeOK /\ D(Placed(i1))!RowWorks /\ D(Placed(i1))!WinnerWorks
    /\ D(Placed(i1))!PresentedOnce

\* Who is logged out or over a limit is refused, memory follows the services within
\* its TTL, and a status says whose error it is.
GatewayHolds == part \in {"routes", "limits", "plan", "members"} =>
  /\ G(Routes, 3)!TypeOK /\ G(Routes, 3)!LoggedOutIsRefused /\ G(Routes, 3)!WindowsHold
  /\ G(Routes, 3)!MemoryFollows /\ G(Routes, 3)!StatusFits

=============================================================================
