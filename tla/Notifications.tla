---------------------------- MODULE Notifications ----------------------------
(***************************************************************************)
(* The jobs of the notification queue (NotificationProcessor), the rows that *)
(* pushNotification() stores for each recipient, and the count of unread    *)
(* ones that follows each (NotificationService).                            *)
(*                                                                         *)
(* The recipients of a job are handled at once; the first error ends the    *)
(* attempt, but not what is under way for the others.  The types left out   *)
(* here (plain messages) store nothing.  Push messages to phones keep no    *)
(* state and are left out.                                                 *)
(***************************************************************************)
EXTENDS Naturals, FiniteSets

CONSTANTS Users,
          Jobs,
          Author(_),   \* who wrote the message or reacted to it
          MaxAttempts, MaxStalls,
          MaxChanges,  \* bound: joins and departures
          MaxReads,    \* bound: notifications read or deleted
          None

VARIABLES members, changes, \* of the channel
          job,     \* job -> [pc, tries, stalls, only, to]
          pushing, \* calls of pushNotification() under way: [job, to, try]
          row,     \* notifications stored: [job, to, try], with their status
          reads,
          effect,  \* side effects under way: [of, count]
          emitted, \* counts in the socket queue
          badge,   \* user -> the count the client shows
          made,    \* [job, to, try] there has been a row of (history)
          mixed    \* users with two side effects at once, or who read during one (history)

queueVars == <<job, pushing>>
sideVars == <<effect, emitted, badge>>
vars == <<members, changes, queueVars, row, reads, sideVars, made, mixed>>

Status == {"unread", "read", "deleted"}
Key == [job : Jobs, to : Users, try : 1..(MaxAttempts + MaxStalls)]
NoJob == [pc |-> "none", tries |-> 0, stalls |-> 0, only |-> None, to |-> {}]

TypeOK ==
  /\ members \subseteq Users /\ pushing \cup made \subseteq Key /\ mixed \subseteq Users
  /\ \A j \in Jobs : /\ job[j].pc \in {"none", "waiting", "active", "done", "failed"}
                     /\ job[j].tries <= MaxAttempts /\ job[j].stalls <= MaxStalls
  /\ DOMAIN row = made /\ \A k \in made : row[k] \in Status
  /\ \A e \in effect \cup emitted : e.of \in made

Init ==
  /\ members = Users /\ changes = 0 /\ job = [j \in Jobs |-> NoJob] /\ pushing = {}
  /\ row = [k \in {} |-> "unread"] /\ reads = 0 /\ effect = {} /\ emitted = {}
  /\ badge = [u \in Users |-> 0] /\ made = {} /\ mixed = {}

-----------------------------------------------------------------------------
(* Members come and go (the channel service).                                *)

Change(u) ==
  /\ changes < MaxChanges /\ changes' = changes + 1
  /\ members' = IF u \in members THEN members \ {u} ELSE members \cup {u}
  /\ UNCHANGED <<queueVars, row, reads, sideVars, made, mixed>>

\* a reply in a thread notifies everybody, a reaction one user
AddJob(j) ==
  /\ job[j].pc = "none"
  /\ \E only \in {None} \cup (Users \ {Author(j)}) :
       job' = [job EXCEPT ![j].pc = "waiting", ![j].only = only]
  /\ UNCHANGED <<members, changes, pushing, row, reads, sideVars, made, mixed>>

-----------------------------------------------------------------------------
(* handleCreateNotification().                                               *)

Try(j) == job[j].tries + job[j].stalls + 1

Recipients(j) == {u \in members : u # Author(j) /\ job[j].only \in {None, u}}

\* GET_MEMBERS answers
Begin(j) ==
  /\ job[j].pc = "waiting"
  /\ job' = [job EXCEPT ![j].pc = "active", ![j].to = Recipients(j)]
  /\ pushing' = pushing \cup {[job |-> j, to |-> u, try |-> Try(j)] : u \in Recipients(j)}
  /\ UNCHANGED <<members, changes, row, reads, sideVars, made, mixed>>

\* an attempt fails; BullMQ has the job tried again
Retry(j) == job' = [job EXCEPT ![j].tries = @ + 1,
                               ![j].pc = IF job[j].tries + 1 < MaxAttempts THEN "waiting" ELSE "failed"]

FailBegin(j) ==
  /\ job[j].pc = "waiting" /\ Retry(j)
  /\ UNCHANGED <<members, changes, pushing, row, reads, sideVars, made, mixed>>

Sides(u) == {e \in effect \cup emitted : e.of.to = u}

\* saveNotificationEntity(); the side effects are not awaited
Save(k) ==
  /\ k \in pushing /\ pushing' = pushing \ {k}
  /\ made' = made \cup {k} /\ row' = [x \in made' |-> IF x = k THEN "unread" ELSE row[x]]
  /\ effect' = effect \cup {[of |-> k, count |-> None]}
  /\ mixed' = IF Sides(k.to) # {} THEN mixed \cup {k.to} ELSE mixed
  /\ UNCHANGED <<members, changes, job, reads, emitted, badge>>

\* the first error rejects Promise.all(); a later one finds nobody
FailSave(k) ==
  /\ k \in pushing /\ pushing' = pushing \ {k}
  /\ IF job[k.job].pc = "active" /\ k.try = Try(k.job) THEN Retry(k.job) ELSE job' = job
  /\ UNCHANGED <<members, changes, row, reads, sideVars, made, mixed>>

\* Mutant: the job does not wait for its promises.
FinishAtOnce(j) ==
  /\ job[j].pc = "active" /\ job' = [job EXCEPT ![j].pc = "done"]
  /\ UNCHANGED <<members, changes, pushing, row, reads, sideVars, made, mixed>>

Finish(j) ==
  /\ job[j].pc = "active" /\ \A k \in pushing : k.job = j => k.try # Try(j)
  /\ job' = [job EXCEPT ![j].pc = "done"]
  /\ UNCHANGED <<members, changes, pushing, row, reads, sideVars, made, mixed>>

\* the process dies, and what it has under way for the job; the job is given to another
Stall(j) ==
  /\ job[j].pc = "active" /\ job[j].stalls < MaxStalls
  /\ job' = [job EXCEPT ![j].pc = "waiting", ![j].stalls = @ + 1]
  /\ pushing' = {k \in pushing : k.job # j}
  /\ effect' = {e \in effect : e.of.job # j}
  /\ mixed' = mixed \cup {e.of.to : e \in effect \ effect'}
  /\ UNCHANGED <<members, changes, row, reads, emitted, badge, made>>

-----------------------------------------------------------------------------
(* triggerNotificationSideEffects(): emitSocketUpdate().                      *)

Unread(u) == {k \in made : k.to = u /\ row[k] = "unread"}

Count(e) ==
  /\ e \in effect /\ e.count = None
  /\ effect' = (effect \ {e}) \cup {[e EXCEPT !.count = Cardinality(Unread(e.of.to))]}
  /\ UNCHANGED <<members, changes, queueVars, row, reads, emitted, badge, made, mixed>>

Emit(e) ==
  /\ e \in effect /\ e.count # None
  /\ effect' = effect \ {e} /\ emitted' = emitted \cup {e}
  /\ UNCHANGED <<members, changes, queueVars, row, reads, badge, made, mixed>>

\* an error is logged
FailSide(e) ==
  /\ e \in effect /\ effect' = effect \ {e} /\ mixed' = mixed \cup {e.of.to}
  /\ UNCHANGED <<members, changes, queueVars, row, reads, emitted, badge, made>>

\* the socket queue is served in any order
Show(e) ==
  /\ e \in emitted /\ emitted' = emitted \ {e} /\ badge' = [badge EXCEPT ![e.of.to] = e.count]
  /\ UNCHANGED <<members, changes, queueVars, row, reads, effect, made, mixed>>

-----------------------------------------------------------------------------
(* markAsRead(), markAllAsRead() and deleteNotification() tell no client; the *)
(* one that asked counts for itself.                                         *)

ReadBy(u, ks, status) ==
  /\ ks # {} /\ reads < MaxReads /\ reads' = reads + 1
  /\ row' = [k \in made |-> IF k \in ks THEN status ELSE row[k]]
  /\ badge' = [badge EXCEPT ![u] = Cardinality(Unread(u) \ ks)]
  /\ mixed' = IF Sides(u) # {} THEN mixed \cup {u} ELSE mixed
  /\ UNCHANGED <<members, changes, queueVars, effect, emitted, made>>

MarkAsRead(k) == row[k] # "deleted" /\ ReadBy(k.to, {k}, "read")
MarkAllAsRead(u) == ReadBy(u, Unread(u), "read")
DeleteNotification(k) == row[k] # "deleted" /\ ReadBy(k.to, {k}, "deleted")

-----------------------------------------------------------------------------
Next ==
  \/ \E u \in Users : Change(u) \/ MarkAllAsRead(u)
  \/ \E j \in Jobs : AddJob(j) \/ Begin(j) \/ FailBegin(j) \/ Finish(j) \/ Stall(j)
  \/ \E k \in pushing : Save(k) \/ FailSave(k)
  \/ \E e \in effect : Count(e) \/ Emit(e) \/ FailSide(e)
  \/ \E e \in emitted : Show(e)
  \/ \E k \in made : MarkAsRead(k) \/ DeleteNotification(k)

Spec == Init /\ [][Next]_vars

-----------------------------------------------------------------------------
Made(j, u) == {k \in made : k.job = j /\ k.to = u}

\* A job that is done has notified everybody whom its last attempt found in the
\* channel, and nobody twice whom no earlier attempt had notified before it failed
\* (Promise.all() against the retries of BullMQ, which repeat the whole job).
EveryoneNotified ==
  \A j \in Jobs :
    /\ job[j].pc = "done" => \A u \in job[j].to : Made(j, u) # {}
    /\ \A u \in Users : Cardinality(Made(j, u)) > 1 => job[j].tries + job[j].stalls > 0
    /\ Made(j, Author(j)) = {}

\* Once all is quiet a client shows how many notifications are unread; unless two
\* were stored at once (their counts come in any order), or one was read meanwhile,
\* or a side effect failed.
BadgeCounts ==
  effect = {} /\ emitted = {} => \A u \in Users \ mixed : badge[u] = Cardinality(Unread(u))
=============================================================================
