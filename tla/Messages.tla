------------------------------ MODULE Messages ------------------------------
(***************************************************************************)
(* The message service: create, edit, delete, pin, react, vote and read    *)
(* page by page.                                                           *)
(*                                                                         *)
(* Every method is one READ COMMITTED transaction: it reads the row without *)
(* a lock, an UPDATE or DELETE locks it until the commit, and others see    *)
(* the writes after it.  save() of TypeORM looks the row up again and      *)
(* inserts it when it is not there.  An id is a UUIDv7, taken before the   *)
(* commit: its order is the order of creation, not of commit.              *)
(***************************************************************************)
EXTENDS Integers, FiniteSets, SequencesExt

CONSTANTS Users,      \* who writes and reads
          Bot,        \* the one of them that is the AI
          Requests,   \* transactions that may be open at once
          Scans,      \* clients that page through a channel
          MaxId,      \* bound: messages in all
          MaxServed,  \* bound: other requests in all
          PageSize,      \* messages of one page
          None

VARIABLES row,       \* message id -> its row, or None
          lastId,    \* ids taken
          reaction,  \* rows <<id, user>> of message_reactions (one emoji)
          vote,      \* message_feedback
          req,       \* open transactions
          lock,      \* row locks
          shown,     \* content of the last update event queued for each message
          pinnedOver, \* messages whose edit a pin wrote over (history)
          served,
          scan       \* clients that read page by page

rowVars == <<row, reaction, vote, shown, pinnedOver>>
vars == <<rowVars, lastId, req, lock, served, scan>>

Id == 1..MaxId
Idle == [pc |-> "idle", op |-> None, id |-> 0, user |-> None, row |-> None, found |-> None]
Top == 0  \* no parent
NoCursor == 0
Deleted == -1  \* the deletion is shown
Live == {i \in Id : row[i] # None}

\* content is a number: which edit it is of, 0 for what was sent
Rows == [author : Users \cup {None}, parent : 0..MaxId, content : 0..MaxServed, pinned : BOOLEAN]

TypeOK ==
  /\ row \in [Id -> Rows \cup {None}] /\ lastId \in 0..MaxId
  /\ reaction \subseteq Id \X Users /\ pinnedOver \subseteq Id
  /\ vote \in [Id \X Users -> {None, "like", "unlike"}]
  /\ \A r \in Requests : req[r].pc \in {"idle", "read", "selected", "written"}
  /\ lock \in [Id -> Requests \cup {None}]
  /\ \A i \in Id : lock[i] # None => req[lock[i]].id = i /\ req[lock[i]].pc = "written"
  /\ shown \in [Id -> 0..MaxServed \cup {Deleted}] /\ served \in 0..MaxServed
  /\ \A s \in Scans : scan[s].pc \in {"idle", "reading", "done"}

Init ==
  /\ row = [i \in Id |-> None] /\ lastId = 0
  /\ reaction = {} /\ vote = [x \in Id \X Users |-> None]
  /\ req = [r \in Requests |-> Idle] /\ lock = [i \in Id |-> None]
  /\ shown = [i \in Id |-> 0] /\ pinnedOver = {} /\ served = 0
  /\ scan = [s \in Scans |-> [pc |-> "idle", what |-> "channel", got |-> <<>>,
                           dir |-> "before", cursor |-> NoCursor, present |-> {}]]

-----------------------------------------------------------------------------
(* createMessage(), createWebhookMessage(): the id, the parent looked up    *)
(* without a lock, the row at the commit.                                  *)

NewMessage(r, u, p) ==
  /\ req[r].pc = "idle" /\ lastId < MaxId
  /\ lastId' = lastId + 1
  /\ req' = [req EXCEPT ![r] =
       [pc |-> "written", op |-> "create", id |-> lastId + 1, user |-> u, found |-> None,
        row |-> [author |-> u, parent |-> p, content |-> 0, pinned |-> FALSE]]]
  /\ UNCHANGED <<rowVars, lock, served, scan>>

CreateMessage(r) == \E u \in Users, p \in {Top} \cup Live : NewMessage(r, u, p)

\* a webhook is nobody: only its channel is known
CreateWebhookMessage(r) == NewMessage(r, None, Top)

-----------------------------------------------------------------------------
(* The methods on one message.  What will be saved is the row as it was    *)
(* read, with the change.                                                  *)

Begin(r, op, i, u, new) ==
  /\ req[r].pc = "idle" /\ served < MaxServed
  /\ served' = served + 1
  /\ req' = [req EXCEPT ![r] = [pc |-> "read", op |-> op, id |-> i, user |-> u,
                                row |-> new, found |-> None]]
  /\ UNCHANGED <<rowVars, lastId, lock, scan>>

UpdateMessage(r, i, u) == row[i].author = u
                          /\ Begin(r, "update", i, u, [row[i] EXCEPT !.content = served + 1])
DeleteMessage(r, i, u) == row[i].author = u /\ Begin(r, "delete", i, u, row[i])
TogglePin(r, i, u) == Begin(r, "pin", i, u, [row[i] EXCEPT !.pinned = ~ @])
ToggleReaction(r, i, u) == Begin(r, "react", i, u, row[i])
ToggleFeedback(r, i, u, type) == row[i].author = Bot /\ Begin(r, "vote", i, u, type)

OnMessage(r) == \E i \in Live, u \in Users :
  \/ UpdateMessage(r, i, u) \/ DeleteMessage(r, i, u) \/ TogglePin(r, i, u)
  \/ ToggleReaction(r, i, u) \/ \E type \in {"like", "unlike"} : ToggleFeedback(r, i, u, type)

\* save(), and the toggles, look for the row they are about to write
Select(r) ==
  LET q == req[r] IN
  /\ q.pc = "read"
  /\ req' = [req EXCEPT ![r].pc = "selected", ![r].found =
               CASE q.op = "react" -> <<q.id, q.user>> \in reaction
                 [] q.op = "vote"  -> vote[<<q.id, q.user>>]
                 [] OTHER          -> row[q.id]]
  /\ UNCHANGED <<rowVars, lastId, lock, served, scan>>

\* Mutant: an edit is queued before its row is written.
OnRowAtTheEnd(q) == q.op = "delete"

OnRow(q) == q.op \in {"update", "pin", "delete"}

\* an edit that does not find its row to read it back fails, and so does the
\* INSERT of a row that is there again, or of a reaction or vote that is
Fails(q) ==
  \/ q.op = "update" /\ q.found # None /\ q.id \notin Live
  \/ q.op \in {"update", "pin"} /\ q.found = None /\ q.id \in Live
  \/ q.op = "react" /\ ~ q.found /\ <<q.id, q.user>> \in reaction
  \/ q.op = "vote" /\ q.found = None /\ vote[<<q.id, q.user>>] # None

\* the event is queued before the commit, with the row locked; a pin has none
Shows(q) == CASE q.op = "update" -> [shown EXCEPT ![q.id] = q.row.content]
              [] q.op = "delete" -> [shown EXCEPT ![q.id] = Deleted]
              [] OTHER           -> shown

\* an UPDATE or DELETE of the message waits for the lock of its row
Write(r) ==
  LET q == req[r] IN
  /\ q.pc = "selected" /\ (OnRow(q) => lock[q.id] = None) /\ ~ Fails(q)
  /\ req' = [req EXCEPT ![r].pc = "written"]
  /\ lock' = IF OnRow(q) THEN [lock EXCEPT ![q.id] = r] ELSE lock
  /\ shown' = Shows(q)
  /\ UNCHANGED <<row, reaction, vote, pinnedOver, lastId, served, scan>>

Fail(r) ==
  /\ req[r].pc = "selected" /\ (OnRow(req[r]) => lock[req[r].id] = None) /\ Fails(req[r])
  /\ req' = [req EXCEPT ![r] = Idle]
  /\ UNCHANGED <<rowVars, lastId, lock, served, scan>>

-----------------------------------------------------------------------------
(* The commits.                                                            *)

\* save() writes every column in which what it was given differs from the row
\* it found, so also what others changed since; it inserts what it did not find
SaveRow(q) ==
  CASE q.found = None    -> [row EXCEPT ![q.id] = q.row]
    [] q.id \notin Live -> row
    [] OTHER             -> [row EXCEPT ![q.id] =
         [f \in DOMAIN @ |-> IF q.row[f] # q.found[f] THEN q.row[f] ELSE @[f]]]

\* the trigger of the table: a message takes its replies with it, all that
\* have been committed
Cascade(i) ==
  LET down[n \in 0..MaxId] == IF n = 0 THEN {i}
                              ELSE down[n - 1] \cup {j \in Live : row[j].parent \in down[n - 1]}
  IN down[MaxId]

RemoveRow(q) == [i \in Id |-> IF i \in Cascade(q.id) THEN None ELSE row[i]]

Toggled(q) == IF q.found THEN reaction \ {<<q.id, q.user>>} ELSE reaction \cup {<<q.id, q.user>>}

Voted(q) == [vote EXCEPT ![<<q.id, q.user>>] = IF q.found = q.row THEN None ELSE q.row]

Commit(r) ==
  LET q == req[r] IN
  /\ q.pc = "written"
  /\ row' = CASE q.op = "create"            -> [row EXCEPT ![q.id] = q.row]
              [] q.op \in {"update", "pin"} -> SaveRow(q)
              [] q.op = "delete"            -> RemoveRow(q)
              [] OTHER                      -> row
  /\ reaction' = CASE q.op = "react"  -> Toggled(q)
                   [] q.op = "delete" -> {x \in reaction : x[1] \notin Cascade(q.id)}
                   [] OTHER           -> reaction
  /\ vote' = IF q.op = "vote" THEN Voted(q) ELSE vote
  /\ req' = [req EXCEPT ![r] = Idle]
  /\ lock' = [i \in Id |-> IF lock[i] = r THEN None ELSE lock[i]]
  /\ pinnedOver' = IF q.op = "pin" /\ q.found # None /\ q.found.content # q.row.content
                   THEN pinnedOver \cup {q.id} ELSE pinnedOver
  /\ UNCHANGED <<shown, lastId, served, scan>>

-----------------------------------------------------------------------------
(* Reading page by page: one more than the page is asked for, the last of  *)
(* the page is the next cursor.  A channel is read without its threads; a  *)
(* search, whose keyword matches all messages here, reads them too.        *)

Roots == {i \in Live : row[i].parent = Top}

Matches(what) == IF what = "channel" THEN Roots ELSE Live

Newest(set) == CHOOSE i \in set : \A j \in set : j <= i
Oldest(set) == CHOOSE i \in set : \A j \in set : j >= i

\* the first PageSize of a set, in the order of dir, and whether there are more
First(set, dir) ==
  LET Pick(left) == IF dir = "before" THEN Newest(left) ELSE Oldest(left)
      step[n \in 0..PageSize] ==
        IF n = 0 THEN <<>>
        ELSE LET left == set \ ToSet(step[n - 1])
             IN IF left = {} THEN step[n - 1] ELSE Append(step[n - 1], Pick(left))
  IN [page |-> step[PageSize], more |-> Cardinality(set) > PageSize]

Scan(s, what, dir, c) ==
  /\ scan[s].pc = "idle"
  /\ scan' = [scan EXCEPT ![s] =
       [pc |-> "reading", what |-> what, got |-> <<>>, dir |-> dir, cursor |-> c,
        present |-> {i \in Matches(what) : dir = "before" \/ i > c}]]
  /\ UNCHANGED <<rowVars, lastId, req, lock, served>>

\* from the newest on; or what is newer than a message the client has
StartScan(s) == \/ \E what \in {"channel", "search"} : Scan(s, what, "before", NoCursor)
                \/ \E c \in Roots : Scan(s, "channel", "after", c)

\* Mutant: the cursor is in both pages.
PageInclusive(c) ==
  First({i \in Matches(c.what) : IF c.dir = "before" THEN c.cursor = NoCursor \/ i <= c.cursor
                                                     ELSE i >= c.cursor}, c.dir)

\* older than the cursor, newest first; or newer, oldest first (reversed for
\* the answer, whose cursor is then its newest)
Page(c) ==
  First({i \in Matches(c.what) : IF c.dir = "before" THEN c.cursor = NoCursor \/ i < c.cursor
                                                     ELSE i > c.cursor}, c.dir)

GetMessages(s) ==
  LET c == scan[s]
      r == Page(c)
  IN /\ c.pc = "reading"
     /\ scan' = [scan EXCEPT ![s].got = @ \o r.page, ![s].present = @ \cap Matches(c.what),
                             ![s].pc = IF r.more THEN "reading" ELSE "done",
                             ![s].cursor = IF r.more THEN Last(r.page) ELSE @]
     /\ UNCHANGED <<rowVars, lastId, req, lock, served>>

-----------------------------------------------------------------------------
Next ==
  \/ \E r \in Requests : \/ CreateMessage(r) \/ CreateWebhookMessage(r) \/ OnMessage(r)
                         \/ Select(r) \/ Write(r) \/ Fail(r) \/ Commit(r)
  \/ \E s \in Scans : StartScan(s) \/ GetMessages(s)

Spec == Init /\ [][Next]_vars

-----------------------------------------------------------------------------
\* The last edit event queued for a message carries the content it has once
\* nobody holds its row: edits that overlap cannot queue their events in
\* another order than they commit (updateMessage() queues MESSAGE_UPDATED
\* between the UPDATE and the COMMIT).  A togglePin() that read the row before
\* an edit writes the old content back, without an event.
EditsShown == \A i \in Live \ pinnedOver :
                lock[i] = None /\ shown[i] # Deleted => row[i].content = shown[i]

\* A client that pages to the end has got every message that was there all
\* along, each once and in order, whatever was sent, deleted or committed late
\* between two pages (the cursor of getMessages() and of its siblings).
PagesComplete == \A s \in Scans : scan[s].pc = "done" =>
  /\ scan[s].present \cap Matches(scan[s].what) \subseteq ToSet(scan[s].got)
  /\ \A m, n \in DOMAIN scan[s].got : m < n =>
       IF scan[s].dir = "before" THEN scan[s].got[m] > scan[s].got[n]
                                 ELSE scan[s].got[m] < scan[s].got[n]
=============================================================================
