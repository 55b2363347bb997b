---------------------------- MODULE MessageLists ----------------------------
(***************************************************************************)
(* The lists of the message service that are not in the order of their     *)
(* ids, the messages around one, and the pinned messages, which are cached *)
(* (ListCache).  Pages in the order of ids are in Messages.                *)
(*                                                                         *)
(* order is the list as it would be read now, first what is shown first:   *)
(* the threads of a user by their last reply, or the replies of one by     *)
(* created_at, which is the start of their transaction and not their id.   *)
(***************************************************************************)
EXTENDS Integers, FiniteSets, SequencesExt

CONSTANTS MaxId,     \* bound: messages in all
          MaxMoves,  \* bound: replies to a thread, deletions
          PageSize,  \* limit of a list, and half of the limit around a message
          Scans, Views, Toggles, Readers,  \* requests
          Channel,   \* the tracker PINNED_VERSION of a channel
          NoValue

VARIABLES order, lastId, moves,
          scan,      \* clients that page through the list
          view,      \* getSurroundingMessages() under way
          toggle,    \* togglePin() under way
          early,     \* versions of the list read before the toggle that made them committed (history)
          rev, version, entry, floor, reader

L == INSTANCE ListCache WITH Keys <- {Channel}

listVars == <<order, lastId, moves>>
pinVars == <<toggle, early, rev, version, entry, floor, reader>>
vars == <<listVars, scan, view, pinVars>>

Id == 1..MaxId
NoCursor == 0
Items == ToSet(order)
Descending(s) == \A i, j \in DOMAIN s : i < j => s[i] > s[j]

TypeOK ==
  /\ Items \subseteq 1..lastId /\ lastId \in 0..MaxId /\ moves \in 0..MaxMoves
  /\ \A c \in Scans : scan[c].pc \in {"idle", "reading", "done"} /\ scan[c].cursor \in 0..MaxId
  /\ \A v \in Views : view[v].pc \in {"idle", "older", "done"}
  /\ \A t \in Toggles : toggle[t].pc \in {"idle", "read", "invalidated"}
  /\ L!CacheTypeOK

NoScan == [pc |-> "idle", cursor |-> NoCursor, got |-> <<>>, present |-> {}, straight |-> TRUE]
NoView == [pc |-> "idle", target |-> 0, older |-> <<>>, newer |-> <<>>,
           before |-> FALSE, after |-> FALSE, present |-> {}]

Init ==
  /\ order = <<>> /\ lastId = 0 /\ moves = 0
  /\ scan = [c \in Scans |-> NoScan] /\ view = [v \in Views |-> NoView]
  /\ toggle = [t \in Toggles |-> [pc |-> "idle", v |-> 0]] /\ early = {} /\ L!CacheInit

-----------------------------------------------------------------------------
(* Messages come, move and go.  A request notes what was there all along,   *)
(* and whether the list was in the order of ids all along.                  *)

Remains(set, s) == set \cap ToSet(s)

Becomes(s) ==
  /\ order' = s
  /\ scan' = [c \in Scans |-> [scan[c] EXCEPT !.present = Remains(@, s),
                 !.straight = @ /\ (scan[c].pc = "reading" => Descending(s))]]
  /\ view' = [v \in Views |-> [view[v] EXCEPT !.present = Remains(@, s)]]
  /\ UNCHANGED pinVars

\* a later id may be of an earlier transaction
Appears == \E at \in {1, 2} :
  /\ lastId < MaxId /\ lastId' = lastId + 1 /\ at <= Len(order) + 1
  /\ Becomes(InsertAt(order, at, lastId + 1)) /\ moves' = moves

\* a reply to an older thread
Moves == \E i \in Items :
  /\ moves < MaxMoves /\ moves' = moves + 1 /\ Becomes(<<i>> \o Remove(order, i))
  /\ lastId' = lastId

Goes == \E i \in Items :
  /\ moves < MaxMoves /\ moves' = moves + 1 /\ Becomes(Remove(order, i)) /\ lastId' = lastId

-----------------------------------------------------------------------------
(* getUserThreads(), getFullThread(): one item more than a page is read, to *)
(* know if there is a next one; the cursor is the id of the last one shown. *)

Before(cursor) == SelectSeq(order, LAMBDA i : cursor = NoCursor \/ i < cursor)
FirstOf(s, n) == SubSeq(s, 1, IF Len(s) < n THEN Len(s) ELSE n)

StartScan(c) ==
  /\ scan[c].pc = "idle"
  /\ scan' = [scan EXCEPT ![c] = [NoScan EXCEPT !.pc = "reading", !.present = Items,
                                                !.straight = Descending(order)]]
  /\ UNCHANGED <<listVars, view, pinVars>>

Cursor(read) == read[PageSize]

GetPage(c) ==
  LET read == FirstOf(Before(scan[c].cursor), PageSize + 1)
      more == Len(read) > PageSize
  IN
  /\ scan[c].pc = "reading"
  /\ scan' = [scan EXCEPT ![c].got = @ \o FirstOf(read, PageSize),
                          ![c].pc = IF more THEN "reading" ELSE "done",
                          ![c].cursor = IF more THEN Cursor(read) ELSE NoCursor]
  /\ UNCHANGED <<listVars, view, pinVars>>

-----------------------------------------------------------------------------
(* getSurroundingMessages(): those up to the target, then those after it.   *)

Sorted == SetToSortSeq(Items, LAMBDA i, j : i > j)
UpTo(t) == SelectSeq(Sorted, LAMBDA i : i <= t)
After(t) == Reverse(SelectSeq(Sorted, LAMBDA i : i > t))

GetOlder(v) == \E t \in Items :
  /\ view[v].pc = "idle"
  /\ view' = [view EXCEPT ![v] = [NoView EXCEPT !.pc = "older", !.target = t, !.present = Items,
                !.older = FirstOf(UpTo(t), PageSize), !.before = Len(UpTo(t)) > PageSize]]
  /\ UNCHANGED <<listVars, scan, pinVars>>

GetNewer(v) ==
  LET after == After(view[v].target) IN
  /\ view[v].pc = "older"
  /\ view' = [view EXCEPT ![v].pc = "done", ![v].after = Len(after) > PageSize,
                          ![v].newer = Reverse(FirstOf(after, PageSize))]
  /\ UNCHANGED <<listVars, scan, pinVars>>

Finish == \/ \E v \in Views : view[v].pc = "done" /\ view' = [view EXCEPT ![v] = NoView] /\ scan' = scan
          \/ \E c \in Scans : scan[c].pc = "done" /\ scan' = [scan EXCEPT ![c] = NoScan] /\ view' = view

-----------------------------------------------------------------------------
(* togglePin(): the row is saved, the list invalidated, then committed.     *)
(* getPinnedMessages() is getOrSetList() of that list.                      *)

Pins == UNCHANGED <<listVars, scan, view>>

BeginToggle(t) ==
  /\ toggle[t].pc = "idle" /\ toggle' = [toggle EXCEPT ![t].pc = "read"]
  /\ UNCHANGED <<early, rev, version, entry, floor, reader>> /\ Pins

InvalidatePinned(t) ==
  /\ toggle[t].pc = "read"
  /\ toggle' = [toggle EXCEPT ![t] = [pc |-> "invalidated", v |-> version[Channel] + 1]]
  /\ L!Invalidate({Channel}, {}) /\ UNCHANGED <<early, rev, entry, reader>> /\ Pins

\* the versions that were read in between
Between(t) == {v \in {e.v : e \in entry} \cup {reader[p].v : p \in {q \in Readers : reader[q].pc = "store"}} :
                 v >= toggle[t].v}

\* whoever asks from now on should see it
CommitToggle(t) ==
  /\ toggle[t].pc = "invalidated" /\ toggle' = [toggle EXCEPT ![t].pc = "idle"]
  /\ L!Changed({Channel}) /\ floor' = [floor EXCEPT ![Channel] = rev[Channel] + 1]
  /\ early' = early \cup Between(t)
  /\ UNCHANGED <<version, entry, reader>> /\ Pins

GetPinned ==
  /\ L!CacheNext /\ UNCHANGED <<toggle, early>> /\ Pins

Next ==
  \/ Appears \/ Moves \/ Goes
  \/ \E c \in Scans : StartScan(c) \/ GetPage(c)
  \/ \E v \in Views : GetOlder(v) \/ GetNewer(v)
  \/ Finish /\ UNCHANGED <<listVars, pinVars>>
  \/ \E t \in Toggles : BeginToggle(t) \/ InvalidatePinned(t) \/ CommitToggle(t)
  \/ GetPinned

Spec == Init /\ [][Next]_vars

-----------------------------------------------------------------------------
\* A client that pages through the threads of a user, or the replies of one, gets each
\* that was there all along, and none twice, if the list was in the order of ids all
\* along; with a thread that was moved up by a reply it may miss some, and gets others
\* twice (thread.service.ts, 78-84: "lastActivity" orders, root.id pages).
ThreadsComplete == \A c \in Scans : scan[c].pc = "done" /\ scan[c].straight =>
  scan[c].present \subseteq ToSet(scan[c].got) /\ IsInjective(scan[c].got)

\* Around a message nothing is left out: what is shown are neighbours, the message one
\* of them, and no more on a side means that there are none (message.service.ts,
\* getSurroundingMessages()).
AroundIsWhole == \A v \in Views : view[v].pc = "done" =>
  LET shown == ToSet(view[v].newer \o view[v].older)
      between(i) == \E a, b \in shown : a <= i /\ i <= b
  IN /\ view[v].target \in shown /\ Descending(view[v].newer \o view[v].older)
     /\ \A i \in view[v].present \ shown :
          /\ ~ between(i)
          /\ IF i < view[v].target THEN view[v].before ELSE view[v].after

\* The pinned messages that are shown hold every pin that was committed before the
\* request, unless the list of that version was read before the commit.
PinnedIsFresh == \A p \in Readers :
  reader[p].pc = "done" /\ reader[p].v \notin early => reader[p].got >= reader[p].floor
ListsHold == ThreadsComplete /\ AroundIsWhole /\ PinnedIsFresh
=============================================================================
