------------------------------ MODULE McpClient ------------------------------
(***************************************************************************)
(* The client of one MCP provider (mcp-client.service.ts): one connection   *)
(* shared by all calls, made again after an error, closed when idle; a tool  *)
(* that may destroy something is sent once.  A provider of a workspace is    *)
(* reached through the socket of its relay, of which there is one, whatever  *)
(* the number of sessions that were begun over it.                           *)
(*                                                                         *)
(* The server, the relay and the network are external: a request may run or  *)
(* not, be answered, fail, or be left without an answer and still run.       *)
(* Circuit breaker and concurrency limit in front of a call are in           *)
(* CircuitBreaker and ProviderConcurrencyLimiter.                            *)
(***************************************************************************)
EXTENDS Integers, FiniteSets

CONSTANTS Calls,        \* calls of callTool()
          MaxSessions,  \* bound: connections in all
          MaxSockets,   \* bound: sockets of the relay in all
          None

VARIABLES relayed,  \* the provider is reached through a relay
          safe,     \* the tool is declared not to destroy anything
          hint,     \* what the cached list says of it, or None
          client,   \* the session in the cache of clients, or 0
          session,  \* sessions begun: [state, next]: next is the next request id
          call,
          inFlight, \* requests the server has not dealt with: [call, try, id, socket]
          ack,      \* at the relay: request id -> the request whose reply it will be
          bound,    \* the socket of the registry, or 0
          live,     \* sockets that are connected
          sockets,  \* sockets there have been
          runs,     \* effects of a call (history)
          redeclared, \* calls whose tool is not what the list said (history)
          crossed   \* an id was used again while its request was in flight (history)

vars == <<relayed, safe, hint, client, session, call, inFlight, ack, bound, live, sockets,
          runs, redeclared, crossed>>
relay == <<bound, live, sockets>>
server == <<relayed, safe, hint>>

SessionId == 1..MaxSessions
SocketId == 1..MaxSockets
Begun == {s \in SessionId : session[s] # None}
Unused == [pc |-> "idle", tries |-> 0, budget |-> 0, bonus |-> FALSE, of |-> 0,
           aborted |-> FALSE, got |-> None]
Used(s) == [state |-> "connecting", next |-> 1]

TypeOK ==
  /\ relayed \in BOOLEAN /\ safe \in BOOLEAN /\ hint \in BOOLEAN \cup {None}
  /\ client \in {0} \cup Begun /\ bound \in 0..sockets /\ live \subseteq 1..sockets
  /\ \A s \in Begun : session[s].state \in {"connecting", "open", "failed", "closed"}
  /\ \A c \in Calls : /\ call[c].pc \in {"idle", "ready", "waiting", "sent", "failed", "done"}
                      /\ call[c].tries <= call[c].budget + 1
                      /\ call[c].pc \in {"waiting", "sent"} => call[c].of \in Begun

Init ==
  /\ relayed \in BOOLEAN /\ safe \in BOOLEAN /\ hint = None /\ client = 0
  /\ session = [s \in SessionId |-> None] /\ call = [c \in Calls |-> Unused]
  /\ inFlight = {} /\ ack = {} /\ bound = 0 /\ live = {} /\ sockets = 0
  /\ runs = [c \in Calls |-> 0] /\ redeclared = {} /\ crossed = FALSE

-----------------------------------------------------------------------------
(* The list of tools, kept for MCP_TOOLS_CACHE_TTL_MS.                       *)

GetTools == hint' = safe
            /\ UNCHANGED <<relayed, safe, client, session, call, inFlight, ack, relay, runs,
                           redeclared, crossed>>

\* the list gets older than its time to live
Expire == hint # None /\ hint' = None
          /\ UNCHANGED <<relayed, safe, client, session, call, inFlight, ack, relay, runs,
                         redeclared, crossed>>

\* the provider declares the tool otherwise from now on
Redeclare ==
  /\ safe /\ safe' = FALSE
  /\ redeclared' = {c \in Calls : call[c].pc # "idle"}
  /\ UNCHANGED <<relayed, hint, client, session, call, inFlight, ack, relay, runs, crossed>>

-----------------------------------------------------------------------------
(* callTool()                                                                *)

\* an unknown tool is taken for a destructive one
Budget == IF hint = TRUE THEN 3 ELSE 1

Blocked == relayed /\ hint # TRUE

CallTool(c) ==
  /\ call[c].pc = "idle"
  /\ call' = [call EXCEPT ![c].pc = IF Blocked THEN "done" ELSE "ready", ![c].budget = Budget]
  /\ redeclared' = IF hint = TRUE /\ ~ safe THEN redeclared \cup {c} ELSE redeclared
  /\ UNCHANGED <<server, client, session, inFlight, ack, relay, runs, crossed>>

Abort(c) ==
  /\ call[c].pc \notin {"idle", "done"} /\ ~ call[c].aborted
  /\ call' = [call EXCEPT ![c].aborted = TRUE]
  /\ UNCHANGED <<server, client, session, inFlight, ack, relay, runs, redeclared, crossed>>

-----------------------------------------------------------------------------
(* getClient(): the connection in the cache, which may still be being made,  *)
(* or a new one.                                                             *)

GetClient(c) ==
  LET n == Cardinality(Begun) + 1 IN
  /\ call[c].pc = "ready" /\ ~ call[c].aborted
  /\ IF client # 0
     THEN /\ call' = [call EXCEPT ![c].pc = "waiting", ![c].of = client]
          /\ UNCHANGED <<client, session>>
     ELSE /\ n \in SessionId
          /\ call' = [call EXCEPT ![c].pc = "waiting", ![c].of = n]
          /\ client' = n /\ session' = [session EXCEPT ![n] = Used(n)]
  /\ UNCHANGED <<server, inFlight, ack, relay, runs, redeclared, crossed>>

GiveUp(c) ==
  /\ call[c].pc = "ready" /\ call[c].aborted
  /\ call' = [call EXCEPT ![c].pc = "done"]
  /\ UNCHANGED <<server, client, session, inFlight, ack, relay, runs, redeclared, crossed>>

Waiting(s) == {c \in Calls : call[c].pc = "waiting" /\ call[c].of = s}

Connect(s) ==
  /\ session[s].state = "connecting" /\ (relayed => bound \in live)
  /\ session' = [session EXCEPT ![s].state = "open"]
  /\ UNCHANGED <<server, client, call, inFlight, ack, relay, runs, redeclared, crossed>>

Fail(k, error) == [k EXCEPT !.pc = "failed", !.got = error]

\* a connection that could not be made leaves the cache, if it is still there
ConnectFails(s) ==
  /\ session[s].state = "connecting"
  /\ session' = [session EXCEPT ![s].state = "failed"]
  /\ client' = IF client = s THEN 0 ELSE client
  /\ call' = [c \in Calls |-> IF c \in Waiting(s) THEN Fail(call[c], "network") ELSE call[c]]
  /\ UNCHANGED <<server, inFlight, ack, relay, runs, redeclared, crossed>>

\* evictIdleClients(): half an hour without a call, so none is under way
Evict ==
  /\ client # 0 /\ session[client].state \in {"open", "failed"}
  /\ \A c \in Calls : call[c].of # client \/ call[c].pc \in {"idle", "ready", "done"}
  /\ session' = [session EXCEPT ![client].state = "closed"] /\ client' = 0
  /\ UNCHANGED <<server, call, inFlight, ack, relay, runs, redeclared, crossed>>

-----------------------------------------------------------------------------
(* A request: over HTTP, or dispatch() to the relay and back.                *)

Request(c, s, i) == [call |-> c, try |-> call[c].tries, id |-> i, socket |-> bound]

Send(c) ==
  LET s == call[c].of
      r == Request(c, s, session[s].next)
  IN /\ call[c].pc = "waiting" /\ session[s].state \in {"open", "closed"}
     /\ IF relayed /\ bound = 0
        THEN /\ call' = [call EXCEPT ![c] = Fail(@, "offline")]
             /\ UNCHANGED <<session, inFlight, ack, crossed>>
        ELSE /\ call' = [call EXCEPT ![c].pc = "sent"]
             /\ session' = [session EXCEPT ![s].next = @ + 1]
             /\ inFlight' = inFlight \cup {r}
             /\ ack' = IF relayed THEN {a \in ack : a.id # r.id} \cup {r} ELSE ack
             /\ crossed' = (crossed \/ (relayed /\ \E a \in ack : a.id = r.id))
     /\ UNCHANGED <<server, client, relay, runs, redeclared>>

Expects(r) == call[r.call].pc = "sent" /\ call[r.call].tries = r.try

\* the reply of a request reaches who sent it; a relay knows only its id
Receivers(r) == IF relayed THEN {a \in ack : a.id = r.id /\ a.socket \in live} ELSE {r}

\* the server runs the request, and its answer comes back or does not
Run(r, answered) ==
  /\ inFlight' = inFlight \ {r}
  /\ runs' = [runs EXCEPT ![r.call] = @ + 1]
  /\ ack' = {a \in ack : a.id # r.id}
  /\ call' = [c \in Calls |->
       IF answered /\ \E a \in Receivers(r) : a.call = c /\ Expects(a)
       THEN [call[c] EXCEPT !.pc = "done", !.got = r.call] ELSE call[c]]
  /\ UNCHANGED <<server, client, session, relay, redeclared, crossed>>

\* the server does not know the session and runs nothing
StaleSession(r) ==
  /\ ~ relayed /\ Expects(r)
  /\ inFlight' = inFlight \ {r}
  /\ call' = [call EXCEPT ![r.call] = Fail(@, "stale")]
  /\ UNCHANGED <<server, client, session, ack, relay, runs, redeclared, crossed>>

\* the request is lost before it runs
Lose(r) ==
  /\ inFlight' = inFlight \ {r}
  /\ UNCHANGED <<server, client, session, call, ack, relay, runs, redeclared, crossed>>

\* no answer: the connection breaks, the relay does not acknowledge in
\* EDGE_RELAY_ACK_TIMEOUT_MS, or the call itself takes MCP_CALL_TIMEOUT_MS;
\* the request may run yet
NoAnswer(c, error) ==
  /\ call[c].pc = "sent"
  /\ call' = [call EXCEPT ![c] = Fail(@, error)]
  /\ UNCHANGED <<server, client, session, inFlight, ack, relay, runs, redeclared, crossed>>

-----------------------------------------------------------------------------
(* callWithReconnect(): what follows an error.                               *)

Within(k) == k.got # "timeout" /\ k.tries + 1 < k.budget

\* Mutant: any error earns one more try.
BonusAlways(k) == ~ k.bonus

\* a stale session never ran the request, and earns one more try
Bonus(k) == k.got = "stale" /\ ~ k.bonus

\* whatever client is in the cache by now leaves it, and is not closed
AfterError(c) ==
  LET k == call[c] IN
  /\ k.pc = "failed"
  /\ IF k.aborted \/ k.got = "timeout"
     THEN client' = client ELSE client' = 0
  /\ call' = [call EXCEPT ![c] =
       IF ~ k.aborted /\ (Within(k) \/ Bonus(k))
       THEN [k EXCEPT !.pc = "ready", !.tries = @ + 1, !.bonus = @ \/ ~ Within(k), !.got = None]
       ELSE [k EXCEPT !.pc = "done", !.tries = @ + 1]]
  /\ UNCHANGED <<server, session, inFlight, ack, relay, runs, redeclared, crossed>>

-----------------------------------------------------------------------------
(* EdgeRelayRegistryService: the last socket that connected is the one.      *)

others == <<server, client, session, call, inFlight, ack, runs, redeclared, crossed>>

Bind ==
  /\ relayed /\ sockets + 1 \in SocketId
  /\ sockets' = sockets + 1 /\ live' = live \cup {sockets + 1} /\ bound' = sockets + 1
  /\ UNCHANGED others

Unbound(x) == IF bound = x THEN 0 ELSE bound

Unbind(x) ==
  /\ x \in live
  /\ live' = live \ {x} /\ bound' = Unbound(x)
  /\ UNCHANGED <<others, sockets>>

-----------------------------------------------------------------------------
Next ==
  \/ GetTools \/ Expire \/ Redeclare \/ Evict \/ Bind
  \/ \E c \in Calls :
       \/ CallTool(c) \/ Abort(c) \/ GetClient(c) \/ GiveUp(c) \/ Send(c) \/ AfterError(c)
       \/ \E error \in {"network", "timeout"} : NoAnswer(c, error)
  \/ \E s \in Begun : Connect(s) \/ ConnectFails(s)
  \/ \E r \in inFlight : \/ \E answered \in BOOLEAN : Run(r, answered)
                         \/ StaleSession(r) \/ Lose(r)
  \/ \E x \in live : Unbind(x)

Spec == Init /\ [][Next]_vars

-----------------------------------------------------------------------------
\* A tool that may destroy something runs at most once per call, through lost
\* answers, late runs, stale sessions, sessions that other calls replace, and
\* relays that come and go (callTool() and callWithReconnect()).  A tool that
\* was declared safe when the cached list was read may be tried again.
DestroysOnce == \A c \in Calls :
  ~ safe /\ c \notin redeclared => runs[c] <= 1

\* What a call gets is the answer to its own request: over the one socket of a
\* relay too, which goes by request ids, unless a second session has begun to
\* count from the start while a request of the first is in flight.
AnswersBelong == \A c \in Calls :
  call[c].pc = "done" /\ call[c].got \in Calls => call[c].got = c \/ crossed

\* The registry has a socket that is connected, as long as the one that came
\* last is.
RelayFound == sockets \in live => bound = sockets
=============================================================================
