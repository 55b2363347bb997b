------------------------------ MODULE Calendar ------------------------------
(* The calendar of one employee: requests for leave and for an unlocked month, *)
(* the balance of paid leave, work shifts, check-ins, the record of each day   *)
(* and the job that reconciles it.                                             *)
(*                                                                             *)
(* Requests are transactions in two or three steps: what is read, with or      *)
(* without a row lock, and what commits.  What fails leaves no trace.  Time is *)
(* the day, and the count of the requests that have begun.  Shifts of one day  *)
(* overlap; the limits on hours and places of work are left out.               *)
EXTENDS Integers, FiniteSets, FiniteSetsExt

CONSTANTS Ids,       \* calendar_requests
          Shifts,    \* work_shifts
          Procs,     \* requests to the service that may be open at once
          LastDay,   \* days 1..LastDay are one month of one year
          Ranges,    \* <<first, last>> half days that may be asked for
          Policies,  \* sets of working days
          MaxPaid,   \* maxPaidLeaveDaysPerYear
          Deadline,  \* lockDeadlineDay: the month is closed after it
          MaxServed, \* bound: requests but those that create
          None

VARIABLES row,     \* requests: [type, range, n, status], or None
          used,    \* usedPaidLeave
          rec,     \* daily_reconciliations of each day, or None
          shift,   \* day of a shift, or None
          logs,    \* attendance_logs of a shift: [type, at]
          unlock,  \* the calendar_user_locks row: "none", "open", "shut"
          policy, cached, \* the working days, in the table and as getPolicy() has them
          today, served,
          proc,    \* requests under way
          cron,    \* the day a run of the cron job has read the shifts of, or None
          marked,  \* days an approval wrote as leave (history)
          exempt   \* days [left, shared, worked] and shifts [overtaken], see the properties

data == <<row, used, rec, shift, logs, unlock, marked, exempt>>
env  == <<policy, cached, today, cron>>
vars == <<data, env, served, proc>>

Day == 1..LastDay
DayOf(h) == (h + 1) \div 2
DaysOf(range) == {DayOf(h) : h \in range[1]..range[2]}
Types == {"paid", "unpaid", "open", "other"} \* other: sick, off_shift
Leave == {"paid", "unpaid"}
Approved == {q \in Ids : row[q] # None /\ row[q].status = "approved"}
Charged == {q \in Approved : row[q].type = "paid"}

Idle == [pc |-> "idle", op |-> None, q |-> None, row |-> None, s |-> None, at |-> 0,
         days |-> {}, seen |-> {}, rec |-> None]

TypeOK ==
  /\ \A q \in Ids : row[q] # None =>
       row[q].type \in Types /\ row[q].range \in Ranges /\ row[q].n \in 0..LastDay
       /\ row[q].status \in {"pending", "approved", "rejected", "cancelled"}
  /\ used \in Nat /\ unlock \in {"none", "open", "shut"}
  /\ \A d \in Day : rec[d] # None => rec[d].status \in {"worked", "absent", "leave"}
  /\ shift \in [Shifts -> Day \cup {None}] /\ (\A s \in Shifts : shift[s] = None => logs[s] = {})
  /\ policy \in Policies /\ cached \in Policies /\ today \in Day /\ cron \in Day \cup {None}
  /\ \A p \in Procs : proc[p].pc \in {"idle", "insert", "taken", "ready", "begun", "held"}
  \* a row lock has one owner
  /\ \A p, r \in Procs : proc[p].pc \in {"taken", "ready"} /\ proc[p].q = proc[r].q => p = r

Init ==
  /\ row = [q \in Ids |-> None] /\ used = 0 /\ rec = [d \in Day |-> None]
  /\ shift = [s \in Shifts |-> None] /\ logs = [s \in Shifts |-> {}] /\ unlock = "none"
  /\ policy \in Policies /\ cached = policy /\ today = 1 /\ served = 0
  /\ proc = [p \in Procs |-> Idle] /\ cron = None /\ marked = [q \in Ids |-> {}]
  /\ exempt = [left |-> {}, shared |-> {}, worked |-> {}, overtaken |-> {}]

\* checkLockDeadline(): an employee, who is not privileged
MayChange == today <= Deadline \/ unlock = "open"

Begin(p, q) == /\ proc[p].pc = "idle" /\ served < MaxServed
               /\ served' = served + 1 /\ proc' = [proc EXCEPT ![p] = q]

\* a transaction in one step
AtOnce == served < MaxServed /\ served' = served + 1 /\ UNCHANGED <<env, proc>>

End(p) == proc' = [proc EXCEPT ![p] = Idle]

Abort(p) == End(p) /\ UNCHANGED <<data, env, served>>

-----------------------------------------------------------------------------
(* Requests.                                                                 *)

\* by time, so a morning and an afternoon do not overlap; read without a lock
Overlaps(range, others) == \E q \in others : row[q] # None
  /\ row[q].status \in {"pending", "approved"}
  /\ row[q].range[1] <= range[2] /\ range[1] <= row[q].range[2]

\* durationDays, at most the working days as they are cached
Durations(range) ==
  LET most == Cardinality(DaysOf(range) \cap cached) IN IF most = 0 THEN {0} ELSE 1..most

PendingDays == MapThenSumSet(LAMBDA q : row[q].n,
  {q \in Ids : row[q] # None /\ row[q].type = "paid" /\ row[q].status = "pending"})

CreateRequest(p) == \E q \in Ids, type \in Types, range \in Ranges : \E n \in Durations(range) :
  /\ proc[p].pc = "idle" /\ row[q] = None /\ \A o \in Procs : proc[o].q # q
  /\ type # "open" => MayChange
  /\ ~ Overlaps(range, Ids)
  /\ type = "paid" => used + PendingDays + n <= MaxPaid
  /\ proc' = [proc EXCEPT ![p] = [Idle EXCEPT !.pc = "insert", !.q = q,
                !.row = [type |-> type, range |-> range, n |-> n, status |-> "pending"]]]
  /\ UNCHANGED <<data, env, served>>

Insert(p) ==
  /\ proc[p].pc = "insert" /\ End(p)
  /\ row' = [row EXCEPT ![proc[p].q] = proc[p].row]
  /\ UNCHANGED <<used, rec, shift, logs, unlock, marked, exempt, env, served>>

\* findAndValidateRequest(): the row is locked, then checked
Free(q) == \A p \in Procs : proc[p].pc \in {"taken", "ready"} => proc[p].q # q

Take(p, q, op, new) ==
  /\ Free(q) /\ UNCHANGED <<data, env>>
  /\ Begin(p, [Idle EXCEPT !.pc = "taken", !.op = op, !.q = q, !.row = new])

Started(q) == today >= DayOf(row[q].range[1])

OnRequest(p) == \E q \in {x \in Ids : row[x] # None} :
  LET r == row[q]
      pending == r.status = "pending" IN
  \/ pending /\ Take(p, q, "approve", [r EXCEPT !.status = "approved"])
  \/ pending /\ Take(p, q, "reject",  [r EXCEPT !.status = "rejected"])
  \/ /\ pending \/ (r.status = "approved" /\ ~ Started(q))
     /\ r.type # "open" => MayChange
     /\ Take(p, q, "cancel", [r EXCEPT !.status = "cancelled"])
  \/ \E range \in Ranges : \E n \in Durations(range) \cup {r.n} : \* or durationDays is not given
     /\ pending /\ (r.type # "open" => MayChange) /\ ~ Overlaps(range, Ids \ {q})
     /\ Take(p, q, "update", [r EXCEPT !.range = range, !.n = n])

Charges(p) == proc[p].row.type = "paid"
              /\ \/ proc[p].op = "approve"
                 \/ proc[p].op = "cancel" /\ row[proc[p].q].status = "approved"

\* Mutant: the balance is read without a lock.
BalanceFreeAlways == TRUE

BalanceFree == \A p \in Procs : ~ (proc[p].pc = "ready" /\ Charges(p))

Grants(p) == proc[p].op = "approve" /\ proc[p].row.type \in Leave

\* checkLeaveBalance(): the balance is locked until the commit; then the policy
\* of the table and the records that exist, which are not locked
CheckLeaveBalance(p) ==
  LET q == proc[p] IN
  /\ q.pc = "taken" /\ (Charges(p) => BalanceFree)
  /\ Charges(p) /\ q.op = "approve" => MaxPaid - used >= q.row.n
  /\ LET days == DaysOf(q.row.range) \cap policy IN
     proc' = [proc EXCEPT ![p].pc = "ready", ![p].days = IF Grants(p) THEN days ELSE {},
                ![p].seen = {<<d, rec[d]>> : d \in {x \in days : Grants(p) /\ rec[x] # None}},
                ![p].rec = unlock]
  /\ UNCHANGED <<data, env, served>>

RefuseBalance(p) ==
  /\ proc[p].pc = "taken" /\ proc[p].op = "approve" /\ Charges(p) /\ BalanceFree
  /\ MaxPaid - used < proc[p].row.n /\ Abort(p)

\* Mutant: the record is read without a lock.
RecordFreeAlways(d) == TRUE

\* a check-in or check-out holds the record of its day
RecordFree(d) == \A p \in Procs : ~ (proc[p].pc = "held" /\ proc[p].days = {d} /\ proc[p].rec # None)

SeenDays(p) == {x[1] : x \in proc[p].seen}

\* a record was inserted meanwhile, or the row of the unlocked month
Collides(p) ==
  \/ \E d \in proc[p].days \ SeenDays(p) : rec[d] # None
  \/ proc[p].op = "approve" /\ proc[p].row.type = "open" /\ proc[p].rec = "none" /\ unlock # "none"

Marked(r) == [r EXCEPT !.status = "leave"]
NewRecord(status) == [status |-> status, in |-> 0, out |-> 0]

\* save() inserts a record that it was given and does not find
MarkLeave(p) == [d \in Day |->
  IF d \notin proc[p].days THEN rec[d]
  ELSE IF rec[d] # None THEN Marked(rec[d])
  ELSE IF d \in SeenDays(p) THEN Marked((CHOOSE x \in proc[p].seen : x[1] = d)[2])
  ELSE NewRecord("leave")]

ShiftsOn(days) == {s \in Shifts : shift[s] \in days}

\* handleLeaveApproval(): the shifts of the range go, their logs belong to none
GrantLeave(p) ==
  LET gone == ShiftsOn(DaysOf(proc[p].row.range)) IN
  /\ \A d \in proc[p].days : RecordFree(d)
  /\ rec' = MarkLeave(p)
  /\ shift' = [s \in Shifts |-> IF s \in gone THEN None ELSE shift[s]]
  /\ logs' = [s \in Shifts |-> IF s \in gone THEN {} ELSE logs[s]]
  /\ marked' = [marked EXCEPT ![proc[p].q] = proc[p].days]
  /\ exempt' = [exempt EXCEPT !.left = @ \ proc[p].days, !.shared = @ \ proc[p].days,
                              !.worked = @ \ proc[p].days]
  /\ used' = IF Charges(p) THEN used + proc[p].row.n ELSE used
  /\ UNCHANGED unlock

Approve(p) ==
  /\ proc[p].op = "approve"
  /\ IF Grants(p) THEN GrantLeave(p)
     ELSE /\ unlock' = IF proc[p].row.type = "open" THEN "open" ELSE unlock
          /\ UNCHANGED <<used, rec, shift, logs, marked, exempt>>

RefundLeave(n) == used' = IF used > n THEN used - n ELSE 0

\* deleteRequest(): the records of the working days as they are cached now
Withdraw(p) ==
  LET q == proc[p].q
      days == DaysOf(proc[p].row.range) \cap cached
      gone == {d \in days : rec[d] # None /\ rec[d].status = "leave"}
      others == UNION {marked[o] : o \in Approved \ {q}}
  IN
  /\ proc[p].op = "cancel"
  /\ IF row[q].status = "approved" /\ row[q].type \in Leave
     THEN /\ \A d \in gone : RecordFree(d)
          /\ rec' = [d \in Day |-> IF d \in gone THEN None ELSE rec[d]]
          /\ marked' = [marked EXCEPT ![q] = {}]
          /\ exempt' = [exempt EXCEPT !.left = @ \cup (marked[q] \ cached),
                                      !.shared = @ \cup (gone \cap others)]
          /\ IF Charges(p) THEN RefundLeave(row[q].n) ELSE UNCHANGED used
     ELSE UNCHANGED <<rec, marked, exempt, used>>
  /\ unlock' = IF row[q].status = "approved" /\ row[q].type = "open" /\ unlock = "open"
               THEN "shut" ELSE unlock
  /\ UNCHANGED <<shift, logs>>

SaveRow(p) == proc[p].op \in {"reject", "update"}
              /\ UNCHANGED <<used, rec, shift, logs, unlock, marked, exempt>>

CommitRequest(p) ==
  /\ proc[p].pc = "ready" /\ ~ Collides(p)
  /\ Approve(p) \/ Withdraw(p) \/ SaveRow(p)
  /\ row' = [row EXCEPT ![proc[p].q] = proc[p].row]
  /\ End(p) /\ UNCHANGED <<env, served>>

FailRequest(p) == proc[p].pc = "ready" /\ Collides(p) /\ Abort(p)

ManualUnlock == /\ AtOnce /\ unlock' = "open"
                /\ UNCHANGED <<row, used, rec, shift, logs, marked, exempt>>

-----------------------------------------------------------------------------
(* Work shifts: validated and written in SERIALIZABLE transactions; nobody   *)
(* looks at approved leave.                                                  *)

ShiftChange(s, day, kept) ==
  /\ MayChange /\ AtOnce /\ shift' = [shift EXCEPT ![s] = day]
  /\ logs' = [logs EXCEPT ![s] = kept]
  /\ exempt' = IF shift[s] # None /\ \E p \in Procs : proc[p].pc \in {"begun", "held"} /\ proc[p].s = s
               THEN [exempt EXCEPT !.overtaken = @ \cup {s}] ELSE exempt
  /\ UNCHANGED <<row, used, rec, unlock, marked>>

BulkRegisterShifts == \E s \in Shifts, d \in Day :
  shift[s] = None /\ ShiftsOn({d}) = {} /\ (\A p \in Procs : proc[p].s # s) /\ ShiftChange(s, d, {})
UpdateWorkShift == \E s \in Shifts, d \in Day :
  shift[s] # None /\ ShiftsOn({d}) \subseteq {s} /\ ShiftChange(s, d, logs[s])
DeleteWorkShift == \E s \in Shifts : shift[s] # None /\ ShiftChange(s, None, {})

-----------------------------------------------------------------------------
(* Attendance.                                                               *)

\* the time is taken, and the shift read, before the transaction
CheckInOrOut(p) == \E s \in ShiftsOn({today}), type \in {"in", "out"} :
  /\ Begin(p, [Idle EXCEPT !.pc = "begun", !.op = type, !.s = s, !.at = served + 1,
                           !.days = {shift[s]}])
  /\ UNCHANGED <<data, env>>

DayAt(p) == CHOOSE d \in proc[p].days : TRUE
Latest(s) == IF logs[s] = {} THEN None
             ELSE (CHOOSE l \in logs[s] : \A m \in logs[s] : m.at <= l.at).type

\* the record is locked if there is one; the latest log allows the next
LockRecord(p) ==
  LET q == proc[p] IN
  /\ q.pc = "begun" /\ RecordFree(DayAt(p))
  /\ IF (Latest(q.s) = "in") = (q.op = "out")
     THEN proc' = [proc EXCEPT ![p].pc = "held", ![p].rec = rec[DayAt(p)]]
     ELSE End(p)
  /\ UNCHANGED <<data, env, served>>

\* a check-in that is the first of its day, and every check-out, sets the status
Attend(p) ==
  LET r == IF proc[p].rec = None THEN NewRecord("worked") ELSE proc[p].rec IN
  IF proc[p].op = "in"
  THEN IF r.in = 0 THEN [r EXCEPT !.in = proc[p].at, !.status = "worked"] ELSE r
  ELSE [r EXCEPT !.in = IF proc[p].rec = None THEN proc[p].at ELSE @, \* of the log it closes
                 !.out = proc[p].at, !.status = "worked"]

\* the shift is gone, or somebody inserted the record
AttendanceFails(p) == shift[proc[p].s] = None \/ (proc[p].rec = None /\ rec[DayAt(p)] # None)

CommitAttendance(p) ==
  LET q == proc[p]   d == DayAt(p) IN
  /\ q.pc = "held" /\ ~ AttendanceFails(p)
  /\ logs' = [logs EXCEPT ![q.s] = @ \cup {[type |-> q.op, at |-> q.at]}]
  /\ rec' = [rec EXCEPT ![d] = Attend(p)]
  /\ exempt' = [exempt EXCEPT
       !.worked = IF rec[d] # None /\ rec[d].status # Attend(p).status THEN @ \cup {d} ELSE @,
       !.overtaken = IF \E l \in logs[q.s] : l.at > q.at THEN @ \cup {q.s} ELSE @]
  /\ End(p) /\ UNCHANGED <<row, used, shift, unlock, marked, env, served>>

FailAttendance(p) == proc[p].pc = "held" /\ AttendanceFails(p) /\ Abort(p)

-----------------------------------------------------------------------------
(* The cron jobs, the policy and the days.                                   *)

FindShifts(d) == /\ cron = None /\ ShiftsOn({d}) # {} /\ cron' = d
                 /\ UNCHANGED <<data, policy, cached, today, served, proc>>
DailyReconciliation == FindShifts(today)
RunManually == \E d \in Day : FindShifts(d)

\* Mutant: leave is not left to the requests.
ReconciledAnyway(r) ==
  CASE r = None -> NewRecord("absent")
    [] r.in = 0 -> [r EXCEPT !.status = "absent"]
    [] OTHER    -> [r EXCEPT !.out = IF @ = 0 THEN MaxServed + 1 ELSE @, !.status = "worked"]

Reconciled(r) ==
  CASE r = None           -> NewRecord("absent")
    [] r.status = "leave" -> r
    [] r.in = 0           -> [r EXCEPT !.status = "absent"]
    [] OTHER              -> [r EXCEPT !.out = IF @ = 0 THEN MaxServed + 1 ELSE @,
                                       !.status = "worked"]

ReconcileDay ==
  /\ cron # None /\ RecordFree(cron) /\ cron' = None
  /\ rec' = [rec EXCEPT ![cron] = Reconciled(@)]
  /\ UNCHANGED <<row, used, shift, logs, unlock, marked, exempt, policy, cached, today, served, proc>>

CleanupExpiredLocks == /\ unlock = "shut" /\ unlock' = "none"
                       /\ UNCHANGED <<row, used, rec, shift, logs, marked, exempt, env, served, proc>>

\* createPolicy(), updatePolicy(), deletePolicy(); the cache is deleted after it,
\* and a reader that was slow may bring the old one back
SetPolicy == \E w \in Policies \ {policy} :
  /\ served < MaxServed /\ served' = served + 1 /\ policy' = w
  /\ UNCHANGED <<data, cached, today, cron, proc>>
GetPolicy == /\ cached # policy /\ cached' = policy
             /\ UNCHANGED <<data, policy, today, cron, served, proc>>

\* an unlocked month stays so for a day
NextDay == /\ today < LastDay /\ today' = today + 1
           /\ unlock' = IF unlock = "open" THEN "shut" ELSE unlock
           /\ UNCHANGED <<row, used, rec, shift, logs, marked, exempt, policy, cached, cron, served, proc>>

-----------------------------------------------------------------------------
Next ==
  \/ \E p \in Procs : \/ CreateRequest(p) \/ Insert(p) \/ OnRequest(p)
                      \/ CheckLeaveBalance(p) \/ RefuseBalance(p)
                      \/ CommitRequest(p) \/ FailRequest(p)
                      \/ CheckInOrOut(p) \/ LockRecord(p) \/ CommitAttendance(p) \/ FailAttendance(p)
  \/ ManualUnlock \/ BulkRegisterShifts \/ UpdateWorkShift \/ DeleteWorkShift
  \/ DailyReconciliation \/ RunManually \/ ReconcileDay \/ CleanupExpiredLocks
  \/ SetPolicy \/ GetPolicy \/ NextDay

Spec == Init /\ [][Next]_vars

-----------------------------------------------------------------------------
\* The balance is the days of the paid leave that is approved, and never more
\* than the year allows, whoever reviews, cancels and changes requests at once
\* (the lock of the request, then that of the balance).
BalanceExact == used = MapThenSumSet(LAMBDA q : row[q].n, Charged) /\ used <= MaxPaid

\* A day says leave because of a leave that is approved, and an approved leave is
\* shown on its days (handleLeaveApproval() and deleteRequest(), against check-ins
\* and the cron job): unless other working days were cached when it was cancelled,
\* another leave of half of that day was cancelled, or the employee came to work.
LeaveShown ==
  /\ \A d \in Day \ exempt.left : rec[d] # None /\ rec[d].status = "leave" =>
       \E q \in Approved : d \in marked[q]
  /\ \A q \in Approved : \A d \in marked[q] \ (exempt.shared \cup exempt.worked) :
       rec[d] # None /\ rec[d].status = "leave"

\* The logs of a shift go in, out, in, out by their times, unless a request that
\* began earlier committed later, or the shift was changed under one.
LogsAlternate == \A s \in Shifts \ exempt.overtaken : \A l \in logs[s] :
  LET before == {m \in logs[s] : m.at < l.at}
  IN (l.type = "in") = (Cardinality(before) % 2 = 0)
=============================================================================
