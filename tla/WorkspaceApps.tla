---------------------------- MODULE WorkspaceApps ----------------------------
(***************************************************************************)
(* The apps of a workspace (app.service.ts), the incoming webhooks of a     *)
(* channel (webhook.service.ts), and the events that a new message sends to *)
(* the apps that subscribed (dispatchWebhookEvents() of the message         *)
(* service, OutboundWebhookProcessor).                                      *)
(*                                                                         *)
(* A transaction reads what is committed when a statement of it begins, and *)
(* a DELETE then waits for rows that another one has deleted.  One type of  *)
(* event is modelled, the one that is dispatched.                           *)
(***************************************************************************)
EXTENDS Naturals, FiniteSets

CONSTANTS Apps, Hooks, Requests, Events,
          MaxItems,    \* the limit: apps of a workspace, webhooks of a channel
          MaxAttempts, \* of a job
          MaxRows,     \* bound: subscriptions there ever are
          MaxServed,   \* bound: requests in all
          None

VARIABLES item,    \* app or webhook -> "none", "on", "off" or "gone"
          subs,    \* committed subscriptions: [of, n]
          rows,    \* subscriptions there have been
          lock,    \* what is created -> who has locked the workspace or the channel
          req, served,
          cache,   \* the cached subscriptions of active apps, or None
          dels,    \* invalidations sent to Redis and not carried out
          event,   \* message -> how far its dispatch is
          job,     \* jobs in the queue: [of, n, event, tries]
          sent,    \* [of, n, event] of all jobs of events (history)
          overlapped, \* a dispatch filled the cache during an update (history)
          bare,    \* apps whose subscriptions two requests replaced at once (history)
          revived  \* webhooks that were saved after they had been deleted (history)

appVars == <<item, subs, rows, bare, revived>>
reqVars == <<lock, req, served>>
dispatch == <<event, job, sent>>
vars == <<appVars, reqVars, cache, dels, dispatch, overlapped>>

Items == Apps \cup Hooks
Kinds == {Apps, Hooks}
Kind(x) == IF x \in Apps THEN Apps ELSE Hooks
Live == {x \in Items : item[x] \in {"on", "off"}}

Idle == [op |-> "none", pc |-> "idle", of |-> None, on |-> TRUE, seen |-> {}, new |-> {},
         data |-> FALSE, events |-> FALSE]
\* in a transaction that changes subscriptions or what they point to
Writing(r) == req[r].pc \in {"saved", "found", "written", "deleting", "deleted"}
NoFlight == [pc |-> "new", got |-> {}, during |-> FALSE]

TypeOK ==
  /\ item \in [Items -> {"none", "on", "off", "gone"}] /\ rows \in 0..MaxRows
  /\ subs \subseteq [of : Apps, n : 1..rows] /\ bare \subseteq Apps /\ revived \subseteq Hooks
  /\ \A s, t \in subs : s.n = t.n => s = t
  /\ lock \in [Kinds -> Requests \cup {None}] /\ dels \in Nat
  /\ cache = None \/ cache \subseteq [of : Apps, n : 1..rows]
  /\ \A j \in job : j.tries < MaxAttempts

Init ==
  /\ item = [x \in Items |-> "none"] /\ subs = {} /\ rows = 0 /\ bare = {} /\ revived = {}
  /\ lock = [k \in Kinds |-> None] /\ req = [r \in Requests |-> Idle] /\ served = 0
  /\ cache = None /\ dels = 0 /\ overlapped = FALSE
  /\ event = [e \in Events |-> NoFlight] /\ job = {} /\ sent = {}

Start(r, op, pc, x, data, events, on) ==
  /\ req[r].pc = "idle" /\ served < MaxServed /\ served' = served + 1
  /\ req' = [req EXCEPT ![r] = [op |-> op, pc |-> pc, of |-> x, on |-> on, seen |-> {}, new |-> {},
                                data |-> data, events |-> events]]
Go(r, pc) == req' = [req EXCEPT ![r].pc = pc]
\* the end of a request: its locks go, and readers under way have seen it
End(r) ==
  /\ req' = [req EXCEPT ![r] = Idle]
  /\ lock' = [k \in Kinds |-> IF lock[k] = r THEN None ELSE lock[k]]
  /\ served' = served

-----------------------------------------------------------------------------
(* createApp() and createWebhook().                                          *)

\* permission, and the URL is verified; the id is made by the database
Create(r, x) ==
  /\ item[x] = "none" /\ \A q \in Requests : req[q].of # x
  /\ \E events \in BOOLEAN : /\ events => x \in Apps
                            /\ Start(r, "create", "asked", x, FALSE, events, TRUE)
  /\ UNCHANGED <<appVars, lock, cache, dels, dispatch, overlapped>>

\* Mutant: the row is read, not locked.
ReadParent(r) ==
  /\ req[r].pc = "asked" /\ Go(r, "locked")
  /\ UNCHANGED <<appVars, lock, served, cache, dels, dispatch, overlapped>>

LockParent(r) ==
  /\ req[r].pc = "asked" /\ lock[Kind(req[r].of)] = None
  /\ lock' = [lock EXCEPT ![Kind(req[r].of)] = r] /\ Go(r, "locked")
  /\ UNCHANGED <<appVars, served, cache, dels, dispatch, overlapped>>

CountItems(r) ==
  /\ req[r].pc = "locked"
  /\ IF Cardinality(Live \cap Kind(req[r].of)) >= MaxItems
     THEN End(r) ELSE Go(r, "counted") /\ UNCHANGED <<lock, served>>
  /\ UNCHANGED <<appVars, cache, dels, dispatch, overlapped>>

\* the row, its subscription, and the invalidation, which is not awaited
SaveItem(r) ==
  /\ req[r].pc = "counted"
  /\ IF req[r].events
     THEN /\ rows < MaxRows /\ rows' = rows + 1 /\ dels' = dels + 1
          /\ req' = [req EXCEPT ![r].pc = "saved", ![r].new = {[of |-> req[r].of, n |-> rows + 1]}]
     ELSE Go(r, "saved") /\ UNCHANGED <<rows, dels>>
  /\ UNCHANGED <<item, subs, bare, revived, lock, served, cache, dispatch, overlapped>>

-----------------------------------------------------------------------------
(* updateApp() and deleteApp().                                              *)

Update(r, a) ==
  /\ item[a] # "none"
  /\ \E data, events, on \in BOOLEAN : /\ data \/ (events /\ on)
                                       /\ Start(r, "update", "began", a, data, events, on)
  /\ UNCHANGED <<appVars, lock, cache, dels, dispatch, overlapped>>

Delete(r, a) ==
  /\ item[a] # "none" /\ Start(r, "delete", "began", a, TRUE, TRUE, FALSE)
  /\ UNCHANGED <<appVars, lock, cache, dels, dispatch, overlapped>>

RowsOf(a) == {s \in subs : s.of = a}

\* the cache of the event types it is subscribed to
FindSubscriptions(r) ==
  /\ req[r].pc = "began"
  /\ dels' = IF RowsOf(req[r].of) # {} THEN dels + 1 ELSE dels
  /\ Go(r, IF req[r].op = "delete" THEN "written" ELSE "found")
  /\ UNCHANGED <<appVars, lock, served, cache, dispatch, overlapped>>

\* transactions that have updated or deleted the row of an app
RowHeld(a, r) ==
  \E q \in Requests \ {r} :
    /\ req[q].of = a
    /\ \/ req[q].op = "update" /\ req[q].data /\ req[q].pc \in {"written", "deleting", "deleted", "saved"}
       \/ req[q].op = "delete" /\ req[q].pc = "removed"

\* UPDATE of the row, which waits for others; or only whether there is one
UpdateRow(r) ==
  /\ req[r].pc = "found"
  /\ req[r].data => ~ RowHeld(req[r].of, r)
  /\ IF req[r].of \in Live THEN Go(r, "written") /\ UNCHANGED <<lock, served>> ELSE End(r)
  /\ UNCHANGED <<appVars, cache, dels, dispatch, overlapped>>

\* DELETE: what is committed now,
SelectRows(r) ==
  /\ req[r].pc = "written" /\ req[r].events
  /\ req' = [req EXCEPT ![r].pc = "deleting", ![r].seen = RowsOf(req[r].of)]
  /\ UNCHANGED <<appVars, lock, served, cache, dels, dispatch, overlapped>>

\* without the rows that others have deleted meanwhile
DeleteRows(r) ==
  /\ req[r].pc = "deleting"
  /\ \A q \in Requests \ {r} : req[q].pc \in {"deleted", "removed"} => req[q].seen \cap req[r].seen = {}
  /\ req' = [req EXCEPT ![r].pc = "deleted", ![r].seen = @ \cap subs]
  /\ UNCHANGED <<appVars, lock, served, cache, dels, dispatch, overlapped>>

\* Mutant: only what was subscribed before is invalidated.
InsertAlone(r) ==
  /\ req[r].op = "update" /\ req[r].pc = "deleted" /\ rows < MaxRows
  /\ rows' = rows + 1 /\ dels' = dels
  /\ req' = [req EXCEPT ![r].pc = "saved", ![r].new = {[of |-> req[r].of, n |-> rows + 1]}]
  /\ UNCHANGED <<item, subs, bare, revived, lock, served, cache, dispatch, overlapped>>

InsertRows(r) ==
  /\ req[r].op = "update" /\ req[r].pc = "deleted" /\ rows < MaxRows
  /\ rows' = rows + 1 /\ dels' = dels + 1
  /\ req' = [req EXCEPT ![r].pc = "saved", ![r].new = {[of |-> req[r].of, n |-> rows + 1]}]
  /\ UNCHANGED <<item, subs, bare, revived, lock, served, cache, dispatch, overlapped>>

RemoveRow(r) ==
  /\ req[r].op = "delete" /\ req[r].pc = "deleted" /\ ~ RowHeld(req[r].of, r)
  /\ IF req[r].of \in Live THEN Go(r, "removed") /\ UNCHANGED <<lock, served>> ELSE End(r)
  /\ UNCHANGED <<appVars, cache, dels, dispatch, overlapped>>

MayCommit(q) == \/ q.pc \in {"saved", "removed"}
                \/ q.pc = "deleted" /\ q.op = "update"  \* an empty list of events
                \/ q.pc = "written" /\ ~ q.events

Replacing(r, a) == req[r].of = a /\ req[r].op = "update" /\ req[r].pc \in {"deleting", "deleted", "saved"}

Commit(r) ==
  LET q == req[r] IN
  /\ MayCommit(q) /\ End(r)
  /\ item' = [item EXCEPT ![q.of] = CASE q.op = "create" -> "on"
                                      [] q.op = "delete" -> "gone"
                                      [] q.op = "update" -> IF ~ q.data THEN @
                                                            ELSE IF q.on THEN "on" ELSE "off"]
  /\ subs' = (subs \ q.seen) \cup q.new
  /\ bare' = IF q.op = "update" /\ q.events
                /\ \E p \in Requests \ {r} : Replacing(p, q.of) /\ ~ (q.data /\ req[p].data)
             THEN bare \cup {q.of} ELSE bare
  /\ UNCHANGED <<rows, revived, cache, dels, dispatch, overlapped>>

\* an error, a death, or the deadlock that PostgreSQL ends when a deletion waits
\* for the row of an update that waits for its subscriptions
Abort(r) ==
  /\ req[r].pc \notin {"idle", "read"} /\ End(r)
  /\ UNCHANGED <<appVars, cache, dels, dispatch, overlapped>>

-----------------------------------------------------------------------------
(* updateWebhook() and deleteWebhook() read the row, and save or remove it.  *)

ReadHook(r, h) ==
  /\ h \in Live /\ \E op \in {"update", "delete"} : Start(r, op, "read", h, FALSE, FALSE, TRUE)
  /\ UNCHANGED <<appVars, lock, cache, dels, dispatch, overlapped>>

\* save() of a row that is gone inserts it again, with its token
WriteHook(r) ==
  /\ req[r].pc = "read" /\ End(r)
  /\ item' = [item EXCEPT ![req[r].of] = IF req[r].op = "update" THEN "on" ELSE "gone"]
  /\ revived' = IF req[r].op = "update" /\ item[req[r].of] = "gone"
                THEN revived \cup {req[r].of} ELSE revived
  /\ UNCHANGED <<subs, rows, bare, cache, dels, dispatch, overlapped>>

-----------------------------------------------------------------------------
(* dispatchWebhookEvents(): getOrSetDetail(), then a job for each app.       *)

Invalidate ==
  /\ dels > 0 /\ dels' = dels - 1 /\ cache' = None
  /\ UNCHANGED <<appVars, reqVars, dispatch, overlapped>>

\* The list may be empty and is cached all the same.
Look(e) ==
  /\ event[e].pc = "new"
  /\ \/ cache # None /\ event' = [event EXCEPT ![e].pc = "send", ![e].got = cache]
     \/ cache = None /\ event' = [event EXCEPT ![e].pc = "query"]
     \* another message of this process has asked already
     \/ /\ cache = None /\ \E f \in Events : event[f].pc \in {"query", "store"}
        /\ event' = [event EXCEPT ![e].pc = "join"]
  /\ UNCHANGED <<appVars, reqVars, cache, dels, job, sent, overlapped>>

Active == {s \in subs : item[s.of] = "on"}

Query(e) ==
  /\ event[e].pc = "query"
  /\ event' = [event EXCEPT ![e] = [pc |-> "store", got |-> Active,
                                    during |-> \E r \in Requests : Writing(r) \/ req[r].pc = "removed"]]
  /\ UNCHANGED <<appVars, reqVars, cache, dels, job, sent, overlapped>>

Store(e) ==
  /\ event[e].pc = "store"
  /\ cache' = event[e].got
  /\ overlapped' = (overlapped \/ event[e].got # Active \/ event[e].during
                    \/ \E r \in Requests : Writing(r) \/ req[r].pc = "removed")
  /\ event' = [f \in Events |-> IF f = e \/ event[f].pc = "join"
                                THEN [event[e] EXCEPT !.pc = "send"] ELSE event[f]]
  /\ UNCHANGED <<appVars, reqVars, dels, job, sent>>

Task(e, s) == [of |-> s.of, n |-> s.n, event |-> e]

\* one job after the other; an error ends it, and is logged
Send(e) ==
  /\ event[e].pc = "send" /\ UNCHANGED <<appVars, reqVars, cache, dels, overlapped>>
  /\ IF event[e].got = {} THEN event' = [event EXCEPT ![e].pc = "sent"] /\ UNCHANGED <<job, sent>>
     ELSE \/ /\ event' = [event EXCEPT ![e].pc = "sent"] /\ UNCHANGED <<job, sent>>
          \/ \E s \in event[e].got :
               /\ event' = [event EXCEPT ![e].got = @ \ {s}] /\ sent' = sent \cup {Task(e, s)}
               /\ job' = job \cup {[of |-> s.of, n |-> s.n, event |-> e, tries |-> 0]}

\* OutboundWebhookProcessor: an app that is gone, or has no URL, is skipped; a
\* request that fails may have reached the app all the same
Deliver(j) ==
  /\ j \in job /\ UNCHANGED <<appVars, reqVars, cache, dels, event, sent, overlapped>>
  /\ \/ job' = job \ {j}
     \/ /\ j.of \in Live
        /\ job' = (job \ {j}) \cup {x \in {[j EXCEPT !.tries = @ + 1]} : x.tries < MaxAttempts}

-----------------------------------------------------------------------------
Next ==
  \/ \E r \in Requests :
       \/ \E x \in Items : Create(r, x)
       \/ \E a \in Apps : Update(r, a) \/ Delete(r, a)
       \/ \E h \in Hooks : ReadHook(r, h)
       \/ LockParent(r) \/ CountItems(r) \/ SaveItem(r) \/ FindSubscriptions(r) \/ UpdateRow(r)
       \/ SelectRows(r) \/ DeleteRows(r) \/ InsertRows(r) \/ RemoveRow(r)
       \/ Commit(r) \/ Abort(r) \/ WriteHook(r)
  \/ Invalidate
  \/ \E e \in Events : Look(e) \/ Query(e) \/ Store(e) \/ Send(e)
  \/ \E j \in job : Deliver(j)

Spec == Init /\ [][Next]_vars

-----------------------------------------------------------------------------
\* However many are created at once, a workspace has no more apps, and a channel no
\* more webhooks, than the limit (createApp() and createWebhook() count under a
\* lock); unless an update saved a webhook again that had been deleted.
LimitsKept == \A k \in Kinds : Cardinality((Live \cap k) \ revived) <= MaxItems

\* An app gets a message by one job (event_id tells it the retries of that one, not
\* another job); unless two updates that did not write its row replaced its
\* subscriptions at once, and both remain.
SentOnce == \A s, t \in sent : s.of = t.of /\ s.event = t.event /\ s # t => s.of \in bare

\* Once nobody is at work the cached list is the one of the table, whatever was
\* created, changed, deleted or rolled back meanwhile; unless a dispatch filled it
\* while an update was under way (the keys are deleted before the commit).
CacheFollows ==
  /\ \A r \in Requests : req[r].pc \in {"idle", "read"}
  /\ dels = 0 /\ ~ overlapped /\ cache # None
  => cache = Active
=============================================================================
