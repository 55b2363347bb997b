------------------------------ MODULE TaskBoard ------------------------------
(* A board of the task service: its groups, the order of groups and tasks,   *)
(* the lists it has cached, and the reminders of due dates.                  *)
(*                                                                           *)
(* A request reads, then writes and commits (READ COMMITTED, and no locks    *)
(* but in updateGroupInfo() and updateLabelInfo()), then invalidates lists,  *)
(* then replaces the reminder: remove, add.  save() writes back the row that *)
(* was read, also when it has changed or is gone; that updateTaskDetails()   *)
(* takes a groupId, beside the group it has loaded, is left out.  Redis      *)
(* answers, but for the reminder, whose errors the code swallows.            *)
EXTENDS Integers, FiniteSets

CONSTANTS Tasks, Groups, Users,
          Dates,      \* due dates
          Requests,
          MaxServed,  \* bound: requests
          Gap,        \* what changeTaskGroup() leaves before a task (1024)
          None

VARIABLES task,      \* rows of tasks: [group, order, due], or None
          born,      \* ids of tasks that were used
          group,     \* rows of groups: their order, or None
          member,    \* rows of board_members
          stale,     \* lists that may be cached as they were before a commit
          job,       \* TASK_QUEUE: reminder of a task, [due, active], or None
          req,       \* the requests under way
          served,
          reminded,  \* dates of a task whose reminder ran or was too late (history)
          overtaken, \* what was written by a request that did not see the last write
          crossed    \* tasks whose reminder was replaced by two requests at once,
                     \* or while it ran, or with an error (both history)

rows == <<task, born, group, member>>
vars == <<rows, stale, job, req, served, reminded, overtaken, crossed>>

Board == "board" \* stands for the order of the groups
Idle == [pc |-> "idle", op |-> "none", of |-> None, arg |-> None, late |-> FALSE,
         lists |-> {}, due |-> None]

Alive == {t \in Tasks : task[t] # None}
Open == {g \in Groups : group[g] # None}
In(g) == {t \in Alive : task[t].group = g}
Last(orders) == IF orders = {} THEN -1 ELSE CHOOSE n \in orders : \A o \in orders : o <= n
Orders(g) == {task[t].order : t \in In(g)}
GroupOrders == {group[g] : g \in Open}

TypeOK ==
  /\ \A t \in Alive : task[t].group \in Open /\ task[t].order \in Int
                      /\ task[t].due \in Dates \cup {None}
  /\ born \subseteq Tasks /\ Alive \subseteq born
  /\ group \in [Groups -> Nat \cup {None}] /\ member \subseteq Users
  /\ stale \subseteq Groups \cup Users
  /\ \A t \in Tasks : job[t] # None => job[t].due \in Dates /\ job[t].active \in BOOLEAN
  /\ \A r \in Requests : req[r].pc \in {"idle", "read", "lists", "remove", "add"}
  /\ overtaken \subseteq Groups \cup Users \cup {Board} /\ crossed \subseteq Tasks

\* a board with two tasks in its first group
Init ==
  LET g == CHOOSE x \in Groups : TRUE    h == CHOOSE x \in Groups \ {g} : TRUE
      t == CHOOSE x \in Tasks : TRUE     s == CHOOSE x \in Tasks \ {t} : TRUE
  IN
    /\ group = [x \in Groups |-> IF x = g THEN 0 ELSE IF x = h THEN 1 ELSE None]
    /\ task = [x \in Tasks |-> IF x \in {t, s}
                 THEN [group |-> g, order |-> IF x = t THEN 0 ELSE 1, due |-> None] ELSE None]
    /\ born = {t, s} /\ member = {CHOOSE u \in Users : TRUE}
    /\ stale = {} /\ job = [x \in Tasks |-> None] /\ req = [r \in Requests |-> Idle]
    /\ served = 0 /\ reminded = [x \in Tasks |-> {}] /\ overtaken = {} /\ crossed = {}

-----------------------------------------------------------------------------
(* What a request reads.  of: the row it is about; arg: what it is to write. *)

Begin(r, op, of, arg) ==
  /\ req[r].pc = "idle" /\ served < MaxServed /\ member # {}
  /\ served' = served + 1
  /\ req' = [req EXCEPT ![r] = [Idle EXCEPT !.pc = "read", !.op = op, !.of = of, !.arg = arg]]
  /\ UNCHANGED <<rows, stale, job, reminded, overtaken, crossed>>

Due == Dates \cup {None}

CreateNewTask(r) == \E t \in Tasks \ born, g \in Open, d \in Due :
  Begin(r, "save", t, [group |-> g, order |-> Last(Orders(g)) + 1, due |-> d])

\* the DTO may name an order and a due date, and what it does not name is kept
UpdateTaskDetails(r) == \E t \in Alive, d \in Due, top \in BOOLEAN :
  Begin(r, "save", t, [task[t] EXCEPT !.due = d, !.order = IF top THEN 0 ELSE @])

RemoveTask(r) == \E t \in Alive : Begin(r, "removeTask", t, task[t])

\* what changes what a list shows of a task, and not its row: rows of another
\* table with a key to it (assigning somebody twice fails and changes nothing)
TouchTask(r) == \E t \in Alive : Begin(r, "touch", t, task[t])
AssignMember(r) == TouchTask(r)     \* and unassignMemberFromTask()
ToggleTaskLabel(r) == TouchTask(r)
ChangeAttachment(r) == TouchTask(r) \* add, update, delete
ChangeChecklist(r) == TouchTask(r)  \* create, update, delete
ChangeItem(r) == TouchTask(r)       \* the same of a checklist's items, and toggle

DragDropTask(r) == \E t \in Alive, g \in Open, n \in 0..2 :
  Begin(r, "drag", t, [from |-> task[t].group, order |-> task[t].order, to |-> g, place |-> n])

ChangeTaskGroup(r) == \E t \in Alive, g \in Open :
  LET top == Last(Orders(g))
  IN Begin(r, "change", t, [from |-> task[t].group, to |-> g,
                            place |-> (IF top < 0 THEN 0 ELSE top) + Gap])

AddGroupToBoard(r) == \E g \in Groups \ Open : Begin(r, "saveGroup", g, Last(GroupOrders) + 1)
UpdateGroupInfo(r) == \E g \in Open : Begin(r, "order", g, 0)
RemoveGroupFromBoard(r) == \E g \in Open : Begin(r, "removeGroup", g, None)
ChangeGroupOrder(r) == \E g, h \in Open :
  Begin(r, "shift", g, [order |-> group[g], place |-> group[h]])

LabelInBoard(r) == Begin(r, "label", None, None) \* updateLabelInfo(), deleteLabel()
UpdateBoardInfo(r) == Begin(r, "board", None, member)
AddMemberToBoard(r) == \E u \in Users \ member : Begin(r, "addMember", u, None)
RemoveMemberFromBoard(r) == \E u \in Users : Begin(r, "removeMember", u, None)

-----------------------------------------------------------------------------
(* What it writes.                                                          *)

Between(n, a, b) == a <= n /\ n <= b

\* UPDATE ... SET order = order + by, for the tasks of g between two orders
Shift(tasks, g, a, b, by) ==
  [t \in Tasks |-> IF tasks[t] # None /\ tasks[t].group = g /\ Between(tasks[t].order, a, b)
                   THEN [tasks[t] EXCEPT !.order = @ + by] ELSE tasks[t]]

Place(tasks, t, g, n) ==
  IF tasks[t] = None THEN tasks ELSE [tasks EXCEPT ![t].group = g, ![t].order = n]

Infinite == 4 * Gap

\* Mutant: the task whose place is taken stays where it is.
MoveTaskWithinGroupByOne(t, a) ==
  IF a.order < a.place
  THEN Place(Shift(task, a.to, a.order + 1, a.place - 1, -1), t, a.to, a.place)
  ELSE Place(Shift(task, a.to, a.place + 1, a.order - 1, 1), t, a.to, a.place)

MoveTaskWithinGroup(t, a) ==
  CASE a.order = a.place -> task
    [] a.order < a.place -> Place(Shift(task, a.to, a.order + 1, a.place, -1), t, a.to, a.place)
    [] a.order > a.place -> Place(Shift(task, a.to, a.place, a.order - 1, 1), t, a.to, a.place)

MoveTaskToDifferentGroup(t, a) ==
  Place(Shift(Shift(task, a.from, a.order + 1, Infinite, -1), a.to, a.place, Infinite, 1),
        t, a.to, a.place)

TasksAfter(q) ==
  CASE q.op = "save"        -> [task EXCEPT ![q.of] = q.arg]
    [] q.op = "removeTask"  -> [task EXCEPT ![q.of] = None]
    [] q.op = "removeGroup" -> [t \in Tasks |-> IF t \in In(q.of) THEN None ELSE task[t]]
    [] q.op = "drag"        -> IF q.arg.from = q.arg.to THEN MoveTaskWithinGroup(q.of, q.arg)
                               ELSE MoveTaskToDifferentGroup(q.of, q.arg)
    [] q.op = "change"      -> Place(task, q.of, q.arg.to, q.arg.place)
    [] OTHER                -> task

ShiftGroups(a) ==
  [g \in Groups |->
     IF g \notin Open THEN None
     ELSE CASE a.order < a.place /\ Between(group[g], a.order + 1, a.place) -> group[g] - 1
            [] a.order > a.place /\ Between(group[g], a.place, a.order - 1) -> group[g] + 1
            [] OTHER -> group[g]]

GroupsAfter(q) ==
  CASE q.op = "saveGroup"   -> [group EXCEPT ![q.of] = q.arg]
    [] q.op = "order"       -> [group EXCEPT ![q.of] = q.arg]
    [] q.op = "removeGroup" -> [group EXCEPT ![q.of] = None]
    [] q.op = "shift"       -> [ShiftGroups(q.arg) EXCEPT ![q.of] = q.arg.place]
    [] OTHER                -> group

\* the foreign key of the group, the lock that finds no row, the unique
\* constraints of board_members
Fails(q) ==
  \/ q.op \in {"save"} /\ q.arg.group \notin Open
  \/ q.op \in {"drag", "change"} /\ q.of \in Alive /\ q.arg.to \notin Open
  \/ q.op = "touch" /\ q.of \notin Alive
  \/ q.op = "order" /\ q.of \notin Open
  \/ q.op = "addMember" /\ q.of \in member

\* the lists that show what is written, and those that will be invalidated
Shown(q, tasks) ==
  CASE q.op \in {"save", "removeTask", "touch", "drag", "change"} ->
         {g \in Groups : \E t \in Tasks :
            \/ task[t] # None /\ task[t].group = g /\ (task[t] # tasks[t] \/ t = q.of)
            \/ tasks[t] # None /\ tasks[t].group = g /\ (task[t] # tasks[t] \/ t = q.of)}
    [] q.op = "removeGroup"                 -> {q.of}
    [] q.op = "label"                       -> Open
    [] q.op = "board"                       -> member
    [] q.op \in {"addMember", "removeMember"} -> {q.of}
    [] OTHER                                -> {}

ToInvalidate(q) ==
  CASE q.op \in {"save", "removeTask", "touch"} -> {q.arg.group}
    [] q.op \in {"drag", "change"}              -> {q.arg.from, q.arg.to}
    [] q.op = "board"                           -> q.arg
    [] q.op = "label"                           -> Open
    [] q.op \in {"removeGroup", "addMember", "removeMember"} -> {q.of}
    [] OTHER                                    -> {}

\* what the request's reads are about, and what its writes change
About(q) == ToInvalidate(q) \cup (IF q.op \in {"saveGroup", "order", "shift"} THEN {Board} ELSE {})
            \cup (IF q.op = "board" THEN Users ELSE {})
Changed(q, tasks) == Shown(q, tasks) \cup About(q)

Reminding(q) == q.op \in {"save", "removeTask"}

\* the lists one after the other, then the reminder
AfterLists(q) == CASE q.lists # {}  -> q
                   [] Reminding(q) -> [q EXCEPT !.pc = "remove"]
                   [] OTHER        -> Idle

Commit(r) ==
  LET q == req[r]
      tasks == TasksAfter(q)
      changed == Changed(q, tasks)
      byHand == \/ q.op = "order"
                \/ q.op = "save" /\ q.of \in Alive /\ q.arg.order # task[q.of].order
  IN
  /\ q.pc = "read" /\ ~ Fails(q)
  /\ task' = tasks /\ group' = GroupsAfter(q)
  /\ born' = IF q.op = "save" THEN born \cup {q.of} ELSE born
  /\ member' = CASE q.op = "addMember"    -> member \cup {q.of}
                 [] q.op = "removeMember" -> member \ {q.of}
                 [] OTHER                 -> member
  /\ stale' = stale \cup Shown(q, tasks)
  /\ overtaken' = IF q.late \/ byHand THEN overtaken \cup changed ELSE overtaken
  /\ req' = [o \in Requests |->
       IF o = r
       THEN AfterLists([Idle EXCEPT !.pc = "lists", !.op = q.op, !.of = q.of,
                                    !.lists = ToInvalidate(q),
                                    !.due = IF q.op = "save" THEN q.arg.due ELSE None])
       ELSE IF req[o].pc = "read" /\ (About(req[o]) \cap changed # {} \/ req[o].of = q.of)
            THEN [req[o] EXCEPT !.late = TRUE] ELSE req[o]]
  /\ crossed' = IF Reminding(q) /\ \E o \in Requests \ {r} :
                     req[o].pc \in {"lists", "remove", "add"} /\ Reminding(req[o]) /\ req[o].of = q.of
                THEN crossed \cup {q.of} ELSE crossed
  /\ UNCHANGED <<job, served, reminded>>

Abort(r) ==
  /\ req[r].pc = "read" /\ Fails(req[r])
  /\ req' = [req EXCEPT ![r] = Idle]
  /\ UNCHANGED <<rows, stale, job, served, reminded, overtaken, crossed>>

InvalidateList(r) ==
  /\ req[r].pc = "lists"
  /\ \E l \in req[r].lists :
       /\ stale' = stale \ {l}
       /\ req' = [req EXCEPT ![r] = AfterLists([@ EXCEPT !.lists = @ \ {l}])]
  /\ UNCHANGED <<rows, job, served, reminded, overtaken, crossed>>

-----------------------------------------------------------------------------
(* handleTaskDeadlineJob() and the processor.                               *)

\* Mutant: without a due date there is nothing to do.
RemoveJobOfDate(r) ==
  /\ req[r].pc = "remove"
  /\ job' = IF req[r].due = None THEN job ELSE [job EXCEPT ![req[r].of] = None]
  /\ req' = [req EXCEPT ![r] = IF @.due = None THEN Idle ELSE [@ EXCEPT !.pc = "add"]]
  /\ UNCHANGED <<rows, stale, served, reminded, overtaken, crossed>>

\* a job that is running cannot be removed; no error of Redis is reported
RemoveJob(r) ==
  LET q == req[r] IN
  /\ q.pc = "remove"
  /\ \/ /\ job[q.of] # None => ~ job[q.of].active
        /\ job' = [job EXCEPT ![q.of] = None]
        /\ req' = [req EXCEPT ![r] = IF q.due = None THEN Idle ELSE [q EXCEPT !.pc = "add"]]
        /\ crossed' = crossed
     \/ /\ req' = [req EXCEPT ![r] = Idle] /\ crossed' = crossed \cup {q.of}
        /\ UNCHANGED job
  /\ UNCHANGED <<rows, stale, served, reminded, overtaken>>

\* a job with the id of another one is not added, nor one for a date that is over
AddJob(r) ==
  LET q == req[r] IN
  /\ q.pc = "add" /\ req' = [req EXCEPT ![r] = Idle]
  /\ \/ /\ job' = IF job[q.of] = None
                  THEN [job EXCEPT ![q.of] = [due |-> q.due, active |-> FALSE]] ELSE job
        /\ UNCHANGED <<reminded, crossed>>
     \/ reminded' = [reminded EXCEPT ![q.of] = @ \cup {q.due}] /\ UNCHANGED <<job, crossed>>
     \/ crossed' = crossed \cup {q.of} /\ UNCHANGED <<job, reminded>>
  /\ UNCHANGED <<rows, stale, served, overtaken>>

StartReminder(t) ==
  /\ job[t] # None /\ ~ job[t].active
  /\ job' = [job EXCEPT ![t].active = TRUE]
  /\ UNCHANGED <<rows, stale, req, served, reminded, overtaken, crossed>>

\* removeOnComplete
EndReminder(t) ==
  /\ job[t] # None /\ job[t].active
  /\ job' = [job EXCEPT ![t] = None]
  /\ reminded' = [reminded EXCEPT ![t] = @ \cup {job[t].due}]
  /\ UNCHANGED <<rows, stale, req, served, overtaken, crossed>>

-----------------------------------------------------------------------------
Start(r) ==
  \/ CreateNewTask(r) \/ UpdateTaskDetails(r) \/ RemoveTask(r)
  \/ AssignMember(r) \/ ToggleTaskLabel(r) \/ ChangeAttachment(r)
  \/ ChangeChecklist(r) \/ ChangeItem(r)
  \/ DragDropTask(r) \/ ChangeTaskGroup(r)
  \/ AddGroupToBoard(r) \/ UpdateGroupInfo(r) \/ RemoveGroupFromBoard(r) \/ ChangeGroupOrder(r)
  \/ LabelInBoard(r) \/ UpdateBoardInfo(r) \/ AddMemberToBoard(r) \/ RemoveMemberFromBoard(r)

Next ==
  \/ \E r \in Requests : \/ Start(r) \/ Commit(r) \/ Abort(r)
                         \/ InvalidateList(r) \/ RemoveJob(r) \/ AddJob(r)
  \/ \E t \in Tasks : StartReminder(t) \/ EndReminder(t)

Spec == Init /\ [][Next]_vars

-----------------------------------------------------------------------------
\* No two tasks of a group, and no two groups, have the same place, wherever
\* they were dragged, as long as no two moves there overlapped and no update
\* named an order (there is no constraint; only the shifts of dragDropTask()
\* and changeGroupOrder() keep them apart).
PlacesDiffer ==
  /\ \A g \in Open \ overtaken : \A s, t \in In(g) : s # t => task[s].order # task[t].order
  /\ Board \notin overtaken => \A g, h \in Open : g # h => group[g] # group[h]

\* Once nobody is at work every list that shows something else than before was
\* invalidated, unless its task was moved, or its board joined, between the
\* read and the write of a request (invalidateList() of each method).
ListsAreInvalidated ==
  (\A r \in Requests : req[r].pc = "idle") => stale \cap (Open \cup member) \subseteq overtaken

\* The reminder in the queue is the one for the due date, and a task without
\* one has none, once nobody is at work on the task; unless two updates replaced
\* it at once, or Redis or the running job kept one from it.
ReminderOfDueDate ==
  \A t \in Alive \ crossed : (\A r \in Requests : req[r].of = t => req[r].pc \in {"idle", "read"}) =>
    /\ job[t] # None /\ ~ job[t].active => job[t].due = task[t].due
    /\ task[t].due # None /\ job[t] = None => task[t].due \in reminded[t]
=============================================================================
