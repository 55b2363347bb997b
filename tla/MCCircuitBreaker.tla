--------------------------- MODULE MCCircuitBreaker ---------------------------
(* The circuit breaker; and, in behaviours of their own, the client behind    *)
(* it, the members and apps of a workspace, the events of Stripe and the      *)
(* sockets of a user.  They share no state: part says which of them a behaviour is *)
(* about, and the others stay as they began.                                  *)
EXTENDS CircuitBreaker

CONSTANTS c1, c2, c3, None, u1, u2, u3, l1, i1, q1, q2, w1, w2, s1, s2, t1,
          a1, h1, h2, e1

\* Locks that hold, and everything that can go wrong.
MCFaultSets == {{"abort", "crash"}, FaultNames}

VARIABLES part,
          db, known, issued, req, lock, served, joined, closed, overtaken,
          checkout, customer, emitted, processed, tx, sub, invoice, deliveries, applied, missed,
          relayed, safe, hint, client, session, call, inFlight, ack, bound, live, sockets, runs,
          redeclared, crossed,
          conn, beat, beating, seen, rooms, asked, subscribed, revoked, ghost, dropped, mixed,
          item, subs, rows, parent, appReq, appServed, cache, dels, event, job, sent,
          overlapped, bare, revived

W == INSTANCE Workspaces WITH
       Users <- {u1, u2, u3}, Links <- {l1}, Invites <- {i1}, Requests <- {q1, q2},
       MaxUsage <- 1, MaxServed <- 3
B == INSTANCE Billing WITH
       Users <- {u1}, Checkouts <- {c1, c2}, Workers <- {w1, w2},
       MaxEvents <- 2, MaxDeliveries <- 4
M == INSTANCE McpClient WITH Calls <- {c1, c2}, MaxSessions <- 2, MaxSockets <- 2
\* in intervals of ten minutes
S == INSTANCE SocketRooms WITH
       Sockets <- {s1, s2}, Channels <- {c1, c2}, Threads <- {t1},
       Interval <- 1, Threshold <- 3, KeyTtl <- 6, MaxRooms <- 2

A == INSTANCE WorkspaceApps WITH
       Apps <- {a1}, Hooks <- {h1, h2}, Requests <- {q1, q2}, Events <- {e1},
       MaxItems <- 1, MaxAttempts <- 2, MaxRows <- 2, MaxServed <- 4,
       lock <- parent, req <- appReq, served <- appServed

wVars == <<db, known, issued, req, lock, served, joined, closed, overtaken>>
bVars == <<checkout, customer, emitted, processed, tx, sub, invoice, deliveries, applied, missed>>
mVars == <<relayed, safe, hint, client, session, call, inFlight, ack, bound, live, sockets, runs,
           redeclared, crossed>>
sVars == <<conn, beat, beating, seen, rooms, asked, subscribed, revoked, ghost, dropped, mixed>>
aVars == <<item, subs, rows, parent, appReq, appServed, cache, dels, event, job, sent,
           overlapped, bare, revived>>
MCVars == <<vars, wVars, bVars, mVars, sVars, aVars, part>>

MCInit ==
  /\ part \in {"breaker", "workspace", "billing", "relay", "http", "sockets", "apps", "hooks"}
  /\ W!Init /\ B!Init /\ M!Init /\ S!Init /\ A!Init /\ db[u1] # None  \* the owner
  /\ relayed = (part = "relay") /\ (part # "http" => safe)
  /\ IF part = "breaker" THEN Init ELSE Init /\ faults = {"abort", "crash"}

\* A list of tools stays valid once it says that the tool is safe, and nobody
\* stops the turn of a call; the tool behind a relay stays safe.
Lasting == /\ (hint = TRUE => hint' = TRUE) /\ \A c \in {c1, c2} : ~ call'[c].aborted
           /\ (part = "relay" => safe')

\* Three requests for an app, or four for webhooks.
OneAppOnly == appServed' <= 3 /\ \A q \in {q1, q2} : appReq'[q].of \notin {h1, h2}
HooksOnly == \A q \in {q1, q2} : appReq'[q].of # a1

MCNext ==
  \/ part = "breaker"   /\ Next   /\ UNCHANGED <<wVars, bVars, mVars, sVars, aVars, part>>
  \/ part = "workspace" /\ W!Next /\ UNCHANGED <<vars, bVars, mVars, sVars, aVars, part>>
  \/ part = "billing"   /\ B!Next /\ UNCHANGED <<vars, wVars, mVars, sVars, aVars, part>>
  \/ part \in {"relay", "http"} /\ M!Next /\ Lasting /\ UNCHANGED <<vars, wVars, bVars, sVars, aVars, part>>
  \/ part = "sockets"   /\ S!Next /\ UNCHANGED <<vars, wVars, bVars, mVars, aVars, part>>
  \/ part = "apps"      /\ A!Next /\ OneAppOnly  /\ UNCHANGED <<vars, wVars, bVars, mVars, sVars, part>>
  \/ part = "hooks"     /\ A!Next /\ HooksOnly /\ UNCHANGED <<vars, wVars, bVars, mVars, sVars, part>>

\* the fairness of FairSpec, for the part it is about
MCSpec ==
  /\ MCInit /\ [][MCNext]_MCVars
  /\ \A c \in Callers : WF_vars(part = "breaker" /\ CallerStep(c))
  /\ WF_vars(part = "breaker" /\ Tick)

\* Nobody joins who may not, a workspace keeps an owner, and its apps get each
\* message once, as they subscribed.
WorkspaceHolds ==
  /\ part = "workspace" => W!TypeOK /\ W!JoinsAreLimited /\ W!OwnerKept
  /\ part \in {"apps", "hooks"} => A!TypeOK /\ A!LimitsKept /\ A!SentOnce /\ A!CacheFollows
\* An event of Stripe takes effect once.
BillingHolds == part = "billing" => B!TypeOK /\ B!EventsApplyOnce
\* A tool that may destroy something runs once, and a call gets its own answer.
ToolCallsHold == part \in {"relay", "http"} =>
  M!TypeOK /\ M!DestroysOnce /\ M!AnswersBelong /\ M!RelayFound
\* A user is shown online while a socket is open, and a socket is in one channel.
RealtimeHolds == part = "sockets" =>
  S!TypeOK /\ S!OfflineWhenGone /\ S!OnlineWhileOpen /\ S!OneChannel

==============================================================================
