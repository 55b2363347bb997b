---------------------------- MODULE MessageEvents ----------------------------
(***************************************************************************)
(* What follows the commit of a message: its events, each queued by a      *)
(* strand of its own, and the preview of its links, a job that looks for   *)
(* each page in Redis (L1), in the table (L2) and on the web, writes what  *)
(* it found to the message and shows the message again.                    *)
(*                                                                         *)
(* A preview is represented by its URL, a content by the edit it is of.    *)
(* shown is the last event of the message in the socket queue.  Edits that *)
(* overlap other edits and deletions are in Messages.                      *)
(***************************************************************************)
EXTENDS Integers, FiniteSets, Sequences

CONSTANTS Messages,
          Hooked,       \* the messages of the webhook job, one for each attempt
          Urls,
          Links,        \* message -> its first three URLs, each once
          MaxAttempts,  \* of a job
          MaxEdits,     \* bound: edits of a message
          None

VARIABLES row,      \* message -> what is stored
          todo,     \* message -> the strands that are left
          queued,   \* message -> what was queued for it
          hook,     \* the job PROCESS_WEBHOOK_MESSAGE
          l1, l2,
          job,      \* message -> the job GENERATE_LINK_PREVIEW
          edit,     \* message -> its edit under way
          shown,
          overtook, \* messages one event of which was overtaken (history)
          undone,   \* messages an edit took the previews from (history)
          raced     \* URLs two jobs asked for at once (history)

events == <<todo, queued, hook>>
caches == <<l1, l2, raced>>
vars == <<row, events, caches, job, edit, shown, overtook, undone>>

NoJob == [pc |-> "none", rest |-> <<>>, got |-> {}, attempt |-> 1, seen |-> None]
NoEdit == [pc |-> "idle", row |-> None, found |-> None, count |-> 0]
New == [content |-> 0, previews |-> {}]
Deleted == [content |-> -1, previews |-> {}]
Rows == [content : 0..MaxEdits, previews : SUBSET Urls]

TypeOK ==
  /\ row \in [Messages -> Rows \cup {None}] /\ shown \in [Messages -> Rows \cup {None, Deleted}]
  /\ l1 \in [Urls -> {None, "value", "FAILED"}] /\ l2 \subseteq Urls
  /\ \A m \in Messages : job[m].got \subseteq Urls /\ job[m].attempt \in 1..MaxAttempts

Init ==
  /\ row = [m \in Messages |-> None] /\ todo = [m \in Messages |-> {}]
  /\ queued = [m \in Messages |-> {}]
  /\ hook = [pc |-> "queued", message |-> None, attempt |-> 1, failed |-> 0]
  /\ l1 = [u \in Urls |-> None] /\ l2 = {} /\ raced = {}
  /\ job = [m \in Messages |-> NoJob] /\ edit = [m \in Messages |-> NoEdit]
  /\ shown = [m \in Messages |-> None] /\ overtook = {} /\ undone = {}

-----------------------------------------------------------------------------
(* createMessage() commits and answers; its strands run in later ticks.     *)
(* createWebhookMessage() awaits one after the other, and a worker calls it *)
(* again when one fails.                                                    *)

Preview(m) == IF Links[m] = <<>> THEN <<>> ELSE <<"preview">>

\* broadcastMessageEvents(): a reply also goes to those in its thread, when there
\* are any but the sender; a message of its own counts as unread
BroadcastMessageEvents(reply, others) ==
  <<"received">> \o (IF reply /\ others THEN <<"thread", "notify">> ELSE <<>>)
                 \o (IF reply THEN <<>> ELSE <<"unread">>)
Stored(m, strands) ==
  /\ row[m] = None /\ queued[m] = {} /\ shown[m] = None
  /\ row' = [row EXCEPT ![m] = New] /\ todo' = [todo EXCEPT ![m] = strands \ {<<>>}]
  /\ UNCHANGED <<queued, caches, job, edit, shown, overtook, undone>>

CreateMessage(m) == \E reply, others \in BOOLEAN :
  /\ m \notin Hooked /\ hook' = hook
  /\ Stored(m, {Preview(m), BroadcastMessageEvents(reply, others), <<"webhooks">>})

CreateWebhookMessage(m) ==
  /\ m \in Hooked /\ hook.pc = "queued"
  /\ hook' = [hook EXCEPT !.pc = "stored", !.message = m]
  /\ Stored(m, {Preview(m) \o BroadcastMessageEvents(FALSE, FALSE)})

\* the event of a new message comes after one of an update
Late(m, what) == what = "received" /\ shown[m] # None

Announce(m) == \E s \in todo[m] :
  /\ todo' = [todo EXCEPT ![m] = (@ \ {s}) \cup ({Tail(s)} \ {<<>>})]
  /\ queued' = [queued EXCEPT ![m] = @ \cup {Head(s)}]
  /\ shown' = IF Head(s) = "received" THEN [shown EXCEPT ![m] = New] ELSE shown
  /\ overtook' = IF Late(m, Head(s)) THEN overtook \cup {m} ELSE overtook
  /\ job' = IF Head(s) = "preview" THEN [job EXCEPT ![m].pc = "queued"] ELSE job
  /\ UNCHANGED <<row, hook, caches, edit, undone>>

\* the error is logged and the rest of the strand is not queued; a webhook's job
\* fails with it, or is done with its strand
StrandFails(m) ==
  /\ m \notin Hooked /\ \E s \in todo[m] : todo' = [todo EXCEPT ![m] = @ \ {s}]
  /\ UNCHANGED <<row, queued, hook, caches, job, edit, shown, overtook, undone>>

HookFails ==
  /\ hook.pc = "stored" /\ todo[hook.message] # {}
  /\ hook' = [hook EXCEPT !.pc = IF hook.attempt < MaxAttempts THEN "queued" ELSE "failed",
                          !.attempt = IF @ < MaxAttempts THEN @ + 1 ELSE @, !.failed = @ + 1]
  /\ todo' = [todo EXCEPT ![hook.message] = {}]
  /\ UNCHANGED <<row, queued, caches, job, edit, shown, overtook, undone>>

HookEnds ==
  /\ hook.pc = "stored" /\ todo[hook.message] = {} /\ hook' = [hook EXCEPT !.pc = "done"]
  /\ UNCHANGED <<row, todo, queued, caches, job, edit, shown, overtook, undone>>

\* the process of createMessage() ends: nothing remembers the strands
Restart ==
  /\ \E m \in Messages : m \notin Hooked /\ todo[m] # {}
  /\ todo' = [m \in Messages |-> IF m \in Hooked THEN todo[m] ELSE {}]
  /\ UNCHANGED <<row, queued, hook, caches, job, edit, shown, overtook, undone>>

-----------------------------------------------------------------------------
(* handleGeneratePreview()                                                  *)

Go(m, q) == job' = [job EXCEPT ![m] = q]

StartPreview(m) ==
  /\ job[m].pc = "queued"
  /\ Go(m, [job[m] EXCEPT !.pc = "look", !.rest = Links[m], !.got = {}])
  /\ UNCHANGED <<row, events, caches, edit, shown, overtook, undone>>

\* the next page, with what was found of this one
Found(m, us) ==
  Go(m, [job[m] EXCEPT !.pc = "look", !.rest = Tail(@), !.got = @ \cup us])

Stores(u) == u \in l2

\* L1, then L2: what is found there goes back to L1
Look(m) ==
  /\ job[m].pc = "look" /\ job[m].rest # <<>>
  /\ LET u == Head(job[m].rest) IN
     /\ CASE l1[u] = "FAILED"              -> Found(m, {}) /\ UNCHANGED caches
          [] l1[u] = "value"               -> Found(m, {u}) /\ UNCHANGED caches
          [] l1[u] = None /\ Stores(u)     -> /\ Found(m, {u}) /\ l1' = [l1 EXCEPT ![u] = "value"]
                                              /\ UNCHANGED <<l2, raced>>
          [] l1[u] = None /\ ~ Stores(u)   ->
               /\ Go(m, [job[m] EXCEPT !.pc = "scrape"]) /\ UNCHANGED <<l1, l2>>
               /\ raced' = IF \E n \in Messages : job[n].pc = "scrape" /\ Head(job[n].rest) = u
                           THEN raced \cup {u} ELSE raced
  /\ UNCHANGED <<row, events, edit, shown, overtook, undone>>

\* scrape(): by the worker or directly, else nothing; an error of the table is caught
Scrape(m) ==
  /\ job[m].pc = "scrape"
  /\ LET u == Head(job[m].rest) IN
     \/ /\ Found(m, {u}) /\ l1' = [l1 EXCEPT ![u] = "value"] /\ l2' \in {l2, l2 \cup {u}}
     \/ /\ Found(m, {}) /\ l1' = [l1 EXCEPT ![u] = "FAILED"] /\ l2' = l2
  /\ UNCHANGED <<raced, row, events, edit, shown, overtook, undone>>

\* a day for what was found, an hour for a page that failed
ExpireL1 == \E u \in Urls :
  /\ l1[u] # None /\ l1' = [l1 EXCEPT ![u] = None]
  /\ UNCHANGED <<l2, raced, row, events, job, edit, shown, overtook, undone>>

\* update() of one column: it waits for the row while an edit holds it
UpdatePreviews(m) ==
  /\ job[m].pc = "look" /\ job[m].rest = <<>> /\ (job[m].got # {} => edit[m].pc # "written")
  /\ Go(m, [job[m] EXCEPT !.pc = IF job[m].got = {} THEN "done" ELSE "updated"])
  /\ row' = IF job[m].got = {} \/ row[m] = None THEN row
            ELSE [row EXCEPT ![m].previews = job[m].got]
  /\ undone' = IF job[m].got # {} /\ edit[m].pc = "read" THEN undone \cup {m} ELSE undone
  /\ UNCHANGED <<events, caches, edit, shown, overtook>>

ReadBack(m) ==
  /\ job[m].pc = "updated"
  /\ Go(m, [job[m] EXCEPT !.pc = IF row[m] = None THEN "done" ELSE "emit", !.seen = row[m]])
  /\ overtook' = IF edit[m].pc = "written" THEN overtook \cup {m} ELSE overtook
  /\ UNCHANGED <<row, events, caches, edit, shown, undone>>

Emit(m) ==
  /\ job[m].pc = "emit"
  /\ Go(m, [job[m] EXCEPT !.pc = "done", !.seen = None])
  /\ shown' = [shown EXCEPT ![m] = job[m].seen]
  /\ UNCHANGED <<row, events, caches, edit, overtook, undone>>

\* an error, or a worker that ends: the job begins again
PreviewFails(m) ==
  /\ job[m].pc \in {"look", "scrape", "updated", "emit"}
  /\ Go(m, IF job[m].attempt = MaxAttempts THEN [job[m] EXCEPT !.pc = "failed", !.seen = None]
           ELSE [NoJob EXCEPT !.pc = "queued", !.attempt = job[m].attempt + 1])
  /\ UNCHANGED <<row, events, caches, edit, shown, overtook, undone>>

PreviewStep(m) == StartPreview(m) \/ Look(m) \/ Scrape(m) \/ UpdatePreviews(m) \/ ReadBack(m)
                  \/ Emit(m) \/ PreviewFails(m)

-----------------------------------------------------------------------------
(* updateMessage(): the row, the row again in save(), the columns that      *)
(* differ, the event, the commit.  deleteMessage() in one step.             *)

EditStep(m, e) == /\ edit' = [edit EXCEPT ![m] = e]
                  /\ UNCHANGED <<events, caches, job, undone>>

UpdateMessage(m) ==
  /\ edit[m].pc = "idle" /\ row[m] # None /\ edit[m].count < MaxEdits
  /\ EditStep(m, [pc |-> "read", row |-> row[m], found |-> None, count |-> edit[m].count + 1])
  /\ UNCHANGED <<row, shown, overtook>>

Select(m) ==
  /\ edit[m].pc = "read" /\ EditStep(m, [edit[m] EXCEPT !.pc = "selected", !.found = row[m]])
  /\ UNCHANGED <<row, shown, overtook>>

\* the previews are a column like others: those the edit read
Saved(m) ==
  [content  |-> edit[m].count,
   previews |-> IF edit[m].row.previews # edit[m].found.previews
                THEN edit[m].row.previews ELSE row[m].previews]

Overtakes(m) == IF job[m].pc = "emit" THEN overtook \cup {m} ELSE overtook

Write(m) ==
  /\ edit[m].pc = "selected"
  /\ EditStep(m, [edit[m] EXCEPT !.pc = "written", !.row = Saved(m)])
  /\ shown' = [shown EXCEPT ![m] = Saved(m)] /\ overtook' = Overtakes(m) /\ row' = row

Commit(m) ==
  /\ edit[m].pc = "written" /\ row' = [row EXCEPT ![m] = edit[m].row]
  /\ EditStep(m, [NoEdit EXCEPT !.count = edit[m].count]) /\ UNCHANGED <<shown, overtook>>

DeleteMessage(m) ==
  /\ row[m] # None /\ edit[m].pc = "idle" /\ EditStep(m, edit[m])
  /\ row' = [row EXCEPT ![m] = None] /\ shown' = [shown EXCEPT ![m] = Deleted]
  /\ overtook' = Overtakes(m)

Next ==
  \/ \E m \in Messages :
       \/ CreateMessage(m) \/ CreateWebhookMessage(m) \/ Announce(m) \/ StrandFails(m)
       \/ PreviewStep(m)
       \/ UpdateMessage(m) \/ Select(m) \/ Write(m) \/ Commit(m) \/ DeleteMessage(m)
  \/ HookFails \/ HookEnds \/ Restart \/ ExpireL1

Spec == Init /\ [][Next]_vars

-----------------------------------------------------------------------------
AtRest(m) == /\ todo[m] = {} /\ job[m].pc \in {"none", "done"} /\ edit[m].pc = "idle"

\* What a channel is shown last of a message is what is stored of it: an event with
\* the previews does not bring back what an edit replaced, unless one of the two was
\* queued between the other's read and its event, or the job that had stored previews
\* found none when it was called again (link-preview.processor.ts, 139-164,
\* message.service.ts, updateMessage()).
ShownAsStored == \A m \in Messages :
  AtRest(m) /\ shown[m] # None /\ m \notin overtook /\ (job[m].got = {} => job[m].attempt = 1) =>
    shown[m] = IF row[m] = None THEN Deleted ELSE row[m]

\* An edit keeps the previews, unless they came between its two reads of the row.
PreviewsKept == \A m \in Messages :
  AtRest(m) /\ row[m] # None /\ m \notin undone /\ job[m].got # {} => row[m].previews = job[m].got

\* A page that is stored is not taken for one that failed, unless two jobs asked for
\* it at once.
StoredIsNotFailed == \A u \in l2 : l1[u] = "FAILED" => u \in raced

\* Nobody is notified and no badge counts before the channel is shown the message.
CountedAfterShown == \A m \in Messages :
  queued[m] \cap {"thread", "notify", "unread"} # {} => "received" \in queued[m]

\* A webhook's job that is done has shown its message, and it stored it once more for
\* each attempt that failed after the commit.
WebhookDelivered ==
  /\ hook.pc = "done" => "received" \in queued[hook.message]
  /\ Cardinality({m \in Hooked : row[m] # None \/ shown[m] = Deleted})
       <= hook.failed + (IF hook.pc \in {"stored", "done"} THEN 1 ELSE 0)

EventsHold == ShownAsStored /\ PreviewsKept /\ StoredIsNotFailed /\ CountedAfterShown
              /\ WebhookDelivered
==============================================================================
