---------------------------- MODULE CalendarDesk ----------------------------
(***************************************************************************)
(* What stands around the calendar of Calendar: the shifts an employee     *)
(* registers, against the policy and the holidays of the workspace, both   *)
(* cached; and the jobs of the calendar queue, which tell people of a      *)
(* request and export a month.                                             *)
(*                                                                         *)
(* The days of Days are one week, and may belong to different months; the  *)
(* days that differ in their year only have one Anniversary.  Nothing but  *)
(* the queue joins its second half, NoticeNext and ExportNext, to the      *)
(* first.                                                                  *)
(***************************************************************************)
EXTENDS Integers, FiniteSets, FiniteSetsExt

CONSTANTS Days, Month, Anniversary, \* functions of the days
          Shifts,     \* work_shifts of one employee
          Offers,     \* what may be registered: [day, from, to, wfh]
          Rules,      \* policyData: [hours, wfh]
          DefaultRule,\* the limits of a workspace without a policy
          Holidays,   \* workspace_holidays
          Public,     \* the public holidays of the country
          Procs,      \* requests of the employee that may be open at once
          Admins,     \* requests of administrators that may be open at once
          MaxTries,   \* maxAttempts of withSerializableRetry()
          MaxChanges, \* bound: requests of administrators
          Users, Requester, \* members of the workspace, and whose calendar request it is
          Jobs,       \* a bound: jobs of that request, 1, 2, ...
          MaxAttempts,\* attempts of an export job
          None

VARIABLES roster,  \* the shifts as registered, or None
          granted, \* the limits the last registration was held against, by month and of the week (history)
          desk,    \* registrations and updates under way
          law,  \* [row, cache, recent, late, wanted, crossed], see below
          feast,   \* the holidays: [row, version, entry]
          office,  \* requests of administrators under way
          changes,
          request, \* a calendar_requests row: [status, txn], see below
          managers,\* who is an administrator or owner
          notice,  \* its jobs in CALENDAR_QUEUE
          export   \* an export: [entry, job, fails, stalls, made]

rosterVars == <<roster, granted, desk>>
deskVars == <<rosterVars, law, feast, office>>
noticeVars == <<request, managers, notice>>
vars == <<deskVars, changes, noticeVars, export>>

Months == {Month[d] : d \in Days}
NoHoliday == [day |-> None, yearly |-> FALSE, n |-> 0]
Idle == [pc |-> "idle", id |-> None, offer |-> None, v |-> 0, off |-> FALSE, known |-> {},
         rule |-> None, seen |-> {}, raced |-> FALSE, tries |-> 0]
Free == [pc |-> "idle", id |-> None, row |-> None, new |-> None, seen |-> {}]

AnyRule == [hours : {r.hours : r \in Rules}, wfh : {r.wfh : r \in Rules}]

TypeOK ==
  /\ roster \in [Shifts -> Offers \cup {None}]
  /\ \A p \in Procs : desk[p].pc \in {"idle", "asked", "fetched", "policy", "store", "find", "write"}
                      /\ desk[p].tries \in 0..MaxTries
  /\ law.row \in AnyRule \cup {None} /\ law.cache \in AnyRule \cup {None}
  /\ \A h \in Holidays : feast.row[h].day \in Days \cup {None}
  /\ \A e \in feast.entry : e.v <= feast.version
  /\ \A a \in Admins : office[a].pc \in {"idle", "read", "saved"}
  /\ changes \in 0..MaxChanges
  /\ request.status \in {"none", "pending", "approved", "rejected"}
  /\ \A j \in Jobs : notice[j].pc \in {"none", "waiting", "active", "done"}
  /\ export.entry \in {None, "PENDING", "DONE", "FAILED"} /\ export.fails \in 0..MaxAttempts

NoNotice == [pc |-> "none", status |-> None, by |-> None, left |-> {}, sent |-> {}, missed |-> {},
             blind |-> FALSE, stay |-> {}, undone |-> FALSE, runs |-> 0]

Init ==
  /\ roster = [s \in Shifts |-> None] /\ desk = [p \in Procs |-> Idle]
  /\ granted = [m \in Months \cup {"week"} |-> 0]
  /\ law = [row |-> None, cache |-> None, recent |-> {None}, late |-> FALSE,
               wanted |-> None, crossed |-> FALSE]
  /\ feast = [row |-> [h \in Holidays |-> NoHoliday], version |-> 0, entry |-> {}]
  /\ office = [a \in Admins |-> Free] /\ changes = 0
  /\ request = [status |-> "none", txn |-> None] /\ managers \in SUBSET Users
  /\ notice = [j \in Jobs |-> NoNotice]
  /\ export = [entry |-> None, job |-> "none", fails |-> 0, stalls |-> 0, made |-> FALSE]

-----------------------------------------------------------------------------
(* Holidays: getHolidays() of the year of a day, by version of the tracker.  *)

FallsOn(holiday, day) == holiday.day # None
  /\ (holiday.day = day \/ (holiday.yearly /\ Anniversary[holiday.day] = Anniversary[day]))

IsHoliday(day) == \E h \in Holidays : FallsOn(feast.row[h], day)

\* holidays whose request has ended
Settled == {h \in Holidays : \A a \in Admins : office[a].pc = "saved" => h \notin office[a].seen}

\* bulkRegisterShifts() asks for the holidays first
Register(p) == \E s \in Shifts, o \in Offers :
  /\ desk[p].pc = "idle" /\ roster[s] = None /\ \A q \in Procs : desk[q].id # s
  /\ desk' = [desk EXCEPT ![p] = [Idle EXCEPT !.pc = "asked", !.id = s, !.offer = o,
       !.v = feast.version, !.known = {feast.row[h] : h \in {x \in Settled : FallsOn(feast.row[x], o.day)}}]]
  /\ UNCHANGED <<roster, granted, law, feast, office, changes>>

Cached(p) == {e \in feast.entry : e.v = desk[p].v /\ e.day = desk[p].offer.day}

Answered(p, off) == IF off THEN Idle ELSE [desk[p] EXCEPT !.pc = "policy"]

CheckIfDatesAreHolidays(p) ==
  /\ desk[p].pc = "asked"
  /\ desk' = [desk EXCEPT ![p] =
       IF Cached(p) # {} THEN Answered(p, (CHOOSE e \in Cached(p) : TRUE).off)
       ELSE [desk[p] EXCEPT !.pc = "fetched", !.off = IsHoliday(desk[p].offer.day)]]
  /\ UNCHANGED <<roster, granted, law, feast, office, changes>>

StoreHolidays(p) ==
  /\ desk[p].pc = "fetched"
  /\ feast' = [feast EXCEPT !.entry = (@ \ Cached(p))
                 \cup {[v |-> desk[p].v, day |-> desk[p].offer.day, off |-> desk[p].off]}]
  /\ desk' = [desk EXCEPT ![p] = Answered(p, desk[p].off)]
  /\ UNCHANGED <<roster, granted, law, office, changes>>

\* updateWorkShift() does not ask
Update(p) == \E s \in Shifts, o \in Offers :
  /\ desk[p].pc = "idle" /\ roster[s] # None
  /\ desk' = [desk EXCEPT ![p] = [Idle EXCEPT !.pc = "policy", !.id = s, !.offer = o, !.seen = {s}]]
  /\ UNCHANGED <<roster, granted, law, feast, office, changes>>

Updates(p) == desk[p].seen # {}

-----------------------------------------------------------------------------
(* validateShifts() in a SERIALIZABLE transaction.                           *)

\* getOrSetDetail(): no entry is made of the absence of a policy
ReadPolicy(p) ==
  /\ desk[p].pc = "policy"
  /\ desk' = [desk EXCEPT
       ![p].pc = IF law.cache = None /\ law.row # None THEN "store" ELSE "find",
       ![p].rule = IF law.cache # None THEN law.cache ELSE law.row]
  /\ UNCHANGED <<roster, granted, law, feast, office, changes>>

StorePolicy(p) ==
  /\ desk[p].pc = "store" /\ desk' = [desk EXCEPT ![p].pc = "find"]
  /\ law' = [law EXCEPT !.cache = desk[p].rule, !.late = @ \/ desk[p].rule \notin law.recent]
  /\ UNCHANGED <<roster, granted, feast, office, changes>>

RuleOf(p) == IF desk[p].rule = None THEN DefaultRule ELSE desk[p].rule

\* calculateShiftBoundaries(): the month, and the week of a day at home
Between(o) == {d \in Days : o.wfh \/ Month[d] = Month[o.day]}

Taken(days) == {s \in Shifts : roster[s] # None /\ roster[s].day \in days}
Meet(o, q) == o.from < q.to /\ q.from < o.to
HoursOf(set) == MapThenSumSet(LAMBDA s : roster[s].to - roster[s].from, set)
OfMonth(m) == {s \in Shifts : roster[s] # None /\ Month[roster[s].day] = m}
DaysAtHome == {roster[s].day : s \in {x \in Shifts : roster[x] # None /\ roster[x].wfh}}

\* the day at home that an update leaves still counts
Valid(o, id, rule) ==
  /\ \A s \in Taken(Between(o)) \ {id} : ~ Meet(o, roster[s])
  /\ o.wfh => Cardinality(DaysAtHome \cup {o.day}) <= rule.wfh
  /\ HoursOf(OfMonth(Month[o.day]) \ {id}) + o.to - o.from <= rule.hours

\* what is updated is read and locked; then the shifts there are
FindShifts(p) ==
  /\ desk[p].pc = "find"
  /\ Updates(p) => \A q \in Procs : ~ (desk[q].pc = "write" /\ desk[q].id = desk[p].id)
  /\ desk' = [desk EXCEPT ![p] =
       IF (Updates(p) => roster[desk[p].id] # None) /\ Valid(desk[p].offer, desk[p].id, RuleOf(p))
       THEN [desk[p] EXCEPT !.pc = "write", !.raced = FALSE] ELSE Idle]
  /\ UNCHANGED <<roster, granted, law, feast, office, changes>>

WrittenDays(p) == {desk[p].offer.day} \cup (IF Updates(p) THEN {roster[desk[p].id].day} ELSE {})

\* each has read what the other writes
Dependent(p, q) == /\ WrittenDays(p) \cap Between(desk[q].offer) # {}
                   /\ WrittenDays(q) \cap Between(desk[p].offer) # {}

CommitShift(p) ==
  LET o == desk[p].offer IN
  /\ desk[p].pc = "write" /\ ~ desk[p].raced
  /\ roster' = [roster EXCEPT ![desk[p].id] = o]
  /\ granted' = [x \in DOMAIN granted |->
       CASE x = Month[o.day]    -> RuleOf(p).hours
         [] x = "week" /\ o.wfh -> RuleOf(p).wfh
         [] OTHER               -> granted[x]]
  /\ desk' = [q \in Procs |->
       IF q = p THEN Idle
       ELSE IF desk[q].pc = "write" /\ Dependent(p, q) THEN [desk[q] EXCEPT !.raced = TRUE]
       ELSE desk[q]]
  /\ UNCHANGED <<law, feast, office, changes>>

\* 40001: the callback is run again, from the policy on
Retry(p) ==
  /\ desk[p].pc = "write" /\ desk[p].raced
  /\ desk' = [desk EXCEPT ![p] = IF @.tries + 1 < MaxTries
                                 THEN [@ EXCEPT !.pc = "policy", !.tries = @ + 1] ELSE Idle]
  /\ UNCHANGED <<roster, granted, law, feast, office, changes>>

\* deleteWorkShift() waits for an update that has the row locked
DeleteShift ==
  /\ \E s \in Shifts :
       /\ roster[s] # None /\ roster' = [roster EXCEPT ![s] = None]
       /\ \A p \in Procs : ~ (desk[p].pc = "write" /\ desk[p].id = s)
  /\ UNCHANGED <<granted, desk, law, feast, office, changes>>

-----------------------------------------------------------------------------
(* Requests of administrators: read, save, invalidate.                       *)

Open(a, now) ==
  /\ office[a].pc = "idle" /\ changes < MaxChanges /\ changes' = changes + 1
  /\ office' = [office EXCEPT ![a] = now]

\* createPolicy() asks the cache whether there is one; updatePolicy() reads the row
ChangePolicy(a) ==
  /\ \/ law.cache = None /\ law.row = None
        /\ \E rule \in Rules : Open(a, [Free EXCEPT !.pc = "read", !.id = "create", !.new = rule])
     \/ law.row # None /\ \E f \in {"hours", "wfh"}, rule \in Rules :
          Open(a, [Free EXCEPT !.pc = "read", !.id = f, !.row = law.row, !.new = rule])
  /\ UNCHANGED <<rosterVars, law, feast>>

\* what updatePolicy() and updateHoliday() save: the row as it was read, and the
\* fields of the request
NewRule(a) ==
  IF office[a].id = "create" THEN office[a].new
  ELSE [office[a].row EXCEPT ![office[a].id] = office[a].new[office[a].id]]

Others(a) == \E b \in Admins \ {a} : office[b].pc = "read" /\ office[b].new # None

Wanted(a) ==
  IF office[a].id = "create" \/ law.wanted = None THEN NewRule(a)
  ELSE [law.wanted EXCEPT ![office[a].id] = office[a].new[office[a].id]]

\* workspace_id is unique; save() inserts a row that has gone
SavePolicy(a) ==
  /\ office[a].pc = "read" /\ office[a].new \in Rules
  /\ IF office[a].id = "create" /\ law.row # None
     THEN office' = [office EXCEPT ![a] = Free] /\ UNCHANGED law
     ELSE /\ office' = [office EXCEPT ![a].pc = "saved"]
          /\ law' = [law EXCEPT !.row = NewRule(a), !.recent = @ \cup {NewRule(a)},
                          !.wanted = Wanted(a), !.crossed = @ \/ Others(a)]
  /\ UNCHANGED <<rosterVars, feast, changes>>

DeletePolicy(a) ==
  /\ law.row # None /\ Open(a, [Free EXCEPT !.pc = "saved", !.new = DefaultRule])
  /\ law' = [law EXCEPT !.row = None, !.recent = @ \cup {None},
                  !.wanted = None, !.crossed = @ \/ Others(a)]
  /\ UNCHANGED <<rosterVars, feast>>

\* del() of the entry: the end of a change of the policy
ForgetPolicy(a) ==
  /\ office[a].pc = "saved" /\ office[a].new # None /\ office' = [office EXCEPT ![a] = Free]
  /\ law' = [law EXCEPT !.cache = None, !.recent = {law.row}, !.late = FALSE]
  /\ UNCHANGED <<rosterVars, feast, changes>>

\* the entry expires
ExpirePolicy == /\ law.cache # None /\ law' = [law EXCEPT !.cache = None, !.late = FALSE]
                /\ UNCHANGED <<rosterVars, feast, office, changes>>

Unused == {h \in Holidays : feast.row[h] = NoHoliday /\ \A a \in Admins : office[a].id # h}
Dates == {feast.row[h].day : h \in Holidays} \ {None}
PutHolidays(new) == feast' = [feast EXCEPT !.row = [h \in Holidays |->
                                IF h \in DOMAIN new THEN new[h] ELSE feast.row[h]]]

\* a date is there once: the INSERT of one that exists fails
CreateHoliday(a) == \E h \in Unused, d \in Days \ Dates, yearly \in BOOLEAN :
  /\ Open(a, [Free EXCEPT !.pc = "saved", !.seen = {h}])
  /\ PutHolidays([x \in {h} |-> [day |-> d, yearly |-> yearly, n |-> changes]])
  /\ UNCHANGED <<rosterVars, law>>

UpdateHoliday(a) == \E h \in Holidays : \E d \in Days \cup {feast.row[h].day}, yearly \in BOOLEAN :
  LET old == feast.row[h] IN
  /\ old # NoHoliday /\ (d = old.day) # (yearly = old.yearly) \* one of its fields
  /\ Open(a, [Free EXCEPT !.pc = "read", !.id = h,
                !.row = [day |-> d, yearly |-> yearly, n |-> changes]])
  /\ UNCHANGED <<rosterVars, law, feast>>

SaveHoliday(a) ==
  /\ office[a].pc = "read" /\ office[a].id \in Holidays
  /\ IF \E h \in Holidays \ {office[a].id} : feast.row[h].day = office[a].row.day
     THEN office' = [office EXCEPT ![a] = Free] /\ UNCHANGED feast
     ELSE /\ office' = [office EXCEPT ![a].pc = "saved", ![a].seen = {office[a].id}]
          /\ PutHolidays([x \in {office[a].id} |-> office[a].row])
  /\ UNCHANGED <<rosterVars, law, changes>>

DeleteHoliday(a) == \E h \in Holidays :
  /\ feast.row[h] # NoHoliday /\ Open(a, [Free EXCEPT !.pc = "saved", !.seen = {h}])
  /\ PutHolidays([x \in {h} |-> NoHoliday])
  /\ UNCHANGED <<rosterVars, law>>

\* autoFillHolidays(): the dates that exist, then the others in one transaction
AutoFillHolidays(a) ==
  /\ Open(a, [Free EXCEPT !.pc = "read", !.id = "fill", !.seen = Public \ Dates])
  /\ UNCHANGED <<rosterVars, law, feast>>

SaveFill(a) ==
  LET days == office[a].seen IN
  /\ office[a].pc = "read" /\ office[a].id = "fill" /\ Cardinality(days) <= Cardinality(Unused)
  /\ IF days \cap Dates # {}
     THEN office' = [office EXCEPT ![a] = Free] /\ UNCHANGED feast
     ELSE \E put \in [days -> Unused] :
            /\ \A d, e \in days : put[d] = put[e] => d = e
            /\ office' = [office EXCEPT ![a].pc = "saved", ![a].seen = {put[d] : d \in days}]
            /\ PutHolidays([h \in {put[d] : d \in days} |->
                 [day |-> CHOOSE d \in days : put[d] = h, yearly |-> FALSE, n |-> changes]])
  /\ UNCHANGED <<rosterVars, law, changes>>

InvalidateHolidays(a) ==
  /\ office[a].pc = "saved" /\ office[a].new = None /\ office' = [office EXCEPT ![a] = Free]
  /\ feast' = [feast EXCEPT !.version = @ + 1]
  /\ UNCHANGED <<rosterVars, law, changes>>

-----------------------------------------------------------------------------
(* A calendar request and its jobs, which are dispatched inside the          *)
(* transaction that writes the row.                                          *)

NextJob == {j \in Jobs : notice[j].pc = "none" /\ ~ notice[j].undone
                         /\ \A i \in Jobs : i < j => notice[i].pc # "none" \/ notice[i].undone}

\* addJob() is not awaited, and what fails there is logged
Dispatch(status, by) == \E j \in NextJob :
  /\ request.txn = None
  /\ request' = [request EXCEPT !.txn = [status |-> status, job |-> j]]
  /\ \/ notice' = [notice EXCEPT ![j] = [NoNotice EXCEPT !.pc = "waiting", !.status = status,
                                           !.by = by, !.stay = managers]]
     \/ notice' = [notice EXCEPT ![j] = [NoNotice EXCEPT !.undone = TRUE]]
  /\ UNCHANGED <<managers, export>>

CreateRequest == request.status = "none" /\ Dispatch("pending", Requester)
ReviewRequest == request.status = "pending"
  /\ \E by \in managers, status \in {"approved", "rejected"} : Dispatch(status, by)

EndRequest ==
  /\ request.txn # None /\ UNCHANGED <<managers, export>>
  /\ \/ /\ request' = [status |-> request.txn.status, txn |-> None] /\ UNCHANGED notice
     \/ /\ request' = [request EXCEPT !.txn = None]
        /\ notice' = [notice EXCEPT ![request.txn.job].undone = TRUE]

SetRole == /\ changes < MaxChanges /\ changes' = changes + 1
           /\ \E u \in Users : managers' = IF u \in managers THEN managers \ {u} ELSE managers \cup {u}
           /\ notice' = [j \in Jobs |-> [notice[j] EXCEPT !.stay = @ \cap managers']]
           /\ UNCHANGED <<request, export>>

\* the requester is told as such, and once more among the administrators
Recipients(j, admins) ==
  {<<u, "admin">> : u \in admins \ {notice[j].by}}
    \cup (IF notice[j].by # Requester THEN {<<Requester, "requester">>} ELSE {})

\* getWorkspaceAdmins() answers nobody when it fails
HandleNotice(j) ==
  /\ notice[j].pc = "waiting"
  /\ \E admins \in {managers, {}} :
       notice' = [notice EXCEPT ![j].pc = "active", ![j].runs = @ + 1, ![j].left = Recipients(j, admins),
                                ![j].blind = @ \/ admins # managers]
  /\ UNCHANGED <<request, managers, export>>

\* what fails to be pushed is logged, and the others are told
Push(j) ==
  /\ notice[j].pc = "active" /\ notice[j].left # {}
  /\ \E x \in notice[j].left, ok \in BOOLEAN :
       notice' = [notice EXCEPT ![j].left = @ \ {x},
                    ![j].sent = IF ok THEN @ \cup {x} ELSE @,
                    ![j].missed = IF ok THEN @ ELSE @ \cup {x}]
  /\ UNCHANGED <<request, managers, export>>

EndNotice(j) == /\ notice[j].pc = "active" /\ notice[j].left = {}
                /\ notice' = [notice EXCEPT ![j].pc = "done"]
                /\ UNCHANGED <<request, managers, export>>

\* a worker dies: the job stalls, and is run once more
StallNotice(j) == /\ notice[j].pc = "active" /\ notice[j].runs = 1
                  /\ notice' = [notice EXCEPT ![j].pc = "waiting", ![j].left = {}]
                  /\ UNCHANGED <<request, managers, export>>

-----------------------------------------------------------------------------
(* The export of a month: a key in Redis that the client polls, and a job.   *)

\* enqueueExport(): the key, then the job
EnqueueExport == /\ export.job = "none" /\ export.entry = None
                 /\ export' = [export EXCEPT !.entry = "PENDING", !.job = "adding"]
AddExport == export.job = "adding" /\ export' = [export EXCEPT !.job = "waiting"]

RunExport == export.job = "waiting" /\ export' = [export EXCEPT !.job = "active"]

\* exportWorkspaceExcel(), and a worker thread that writes the file
StoreExport == /\ export.job = "active"
               /\ export' = [export EXCEPT !.job = "stored", !.entry = "DONE", !.made = TRUE]
CompleteExport == export.job = "stored" /\ export' = [export EXCEPT !.job = "done"]

\* whatever throws, the SET included, is told and thrown: the job is tried again
FailExport ==
  /\ export.job = "active"
  /\ \E told \in {"FAILED", export.entry} : \* or Redis fails
       export' = [export EXCEPT !.entry = told, !.fails = @ + 1,
                    !.job = IF export.fails + 1 < MaxAttempts THEN "waiting" ELSE "failed"]

\* a second stall fails the job, and nobody writes its key
StallExport ==
  /\ export.job \in {"active", "stored"}
  /\ export' = [export EXCEPT !.stalls = @ + 1, !.job = IF export.stalls = 0 THEN "waiting" ELSE "failed"]

\* the TTL of the key; getExportStatus() answers FAILED without one
ExpireExport == export.entry # None /\ export' = [export EXCEPT !.entry = None]

-----------------------------------------------------------------------------
RosterNext == \/ \E p \in Procs : \/ Register(p) \/ CheckIfDatesAreHolidays(p) \/ StoreHolidays(p)
                                  \/ Update(p) \/ ReadPolicy(p) \/ StorePolicy(p)
                                  \/ FindShifts(p) \/ CommitShift(p) \/ Retry(p)
              \/ DeleteShift
PolicyNext == \/ \E a \in Admins : ChangePolicy(a) \/ SavePolicy(a) \/ DeletePolicy(a) \/ ForgetPolicy(a)
              \/ ExpirePolicy
HolidayNext == \E a \in Admins : \/ CreateHoliday(a) \/ UpdateHoliday(a) \/ SaveHoliday(a)
                                 \/ DeleteHoliday(a) \/ AutoFillHolidays(a) \/ SaveFill(a)
                                 \/ InvalidateHolidays(a)

NoticeNext == \/ SetRole
              \/ /\ \/ CreateRequest \/ ReviewRequest \/ EndRequest
                    \/ \E j \in Jobs : HandleNotice(j) \/ Push(j) \/ EndNotice(j) \/ StallNotice(j)
                 /\ UNCHANGED changes
ExportNext == /\ \/ EnqueueExport \/ AddExport \/ RunExport \/ StoreExport \/ CompleteExport
                 \/ FailExport \/ StallExport \/ ExpireExport
              /\ UNCHANGED <<noticeVars, changes>>

Next == \/ (RosterNext \/ PolicyNext \/ HolidayNext) /\ UNCHANGED <<noticeVars, export>>
        \/ (NoticeNext \/ ExportNext) /\ UNCHANGED deskVars

-----------------------------------------------------------------------------
\* A month has no more hours, and the week no more days at home, than the limit
\* the last registration there was held against, whatever other requests commit
\* meanwhile (validateShifts(), in SERIALIZABLE transactions that are retried).
WithinLimits ==
  /\ \A m \in Months : HoursOf(OfMonth(m)) <= granted[m]
  /\ Cardinality(DaysAtHome) <= granted["week"]

\* Shifts meet only if neither was looked at for the other: they belong to
\* different months (validateExternalOverlaps() and calculateShiftBoundaries()).
ShiftsApart == \A s, t \in Shifts : s # t /\ roster[s] # None /\ roster[t] # None
                                    /\ Meet(roster[s], roster[t])
                                    => Month[roster[s].day] # Month[roster[t].day]

\* A shift is not registered on a holiday whose request had ended when the
\* registration asked for the holidays, if it still is as it was then
\* (checkIfDatesAreHolidays(), against the writers' invalidateList()).
NotOnHolidays == \A p \in Procs : desk[p].pc \in {"policy", "store", "find", "write"} =>
  \A h \in Holidays : feast.row[h] \notin desk[p].known

\* The policy that is cached was in the table since the last change of it ended,
\* but for one that a slow reader puts back (getPolicy(), against del()).
PolicyIsShown == law.late \/ law.cache = None \/ law.cache \in law.recent

\* What a change of the policy sets stays until another sets it, unless two
\* changes were under way at once (updatePolicy(): the row is read, then saved).
PolicyKept == law.crossed \/ law.row = law.wanted

\* Whoever is told of a request is told what its row says, unless the row is still
\* to be committed or its transaction rolled back (reviewRequest() dispatches the
\* job before the commit).
NoticesAreTrue == \A j \in Jobs : notice[j].sent # {} =>
  \/ request.status = notice[j].status \/ notice[j].undone
  \/ request.txn # None /\ request.txn.job = j
  \/ notice[j].status = "pending" /\ request.status # "none"

\* A job that has run has told, or failed to tell, the requester, and everybody who
\* was an administrator all along unless the list of them failed; but not who did it
\* (handleCalendarRequestCreated() and handleCalendarRequestReviewed()).
EveryoneIsTold == \A j \in Jobs : notice[j].pc = "done" =>
  LET reached == {x[1] : x \in notice[j].sent \cup notice[j].missed} IN
  /\ notice[j].by # Requester => Requester \in reached
  /\ ~ notice[j].blind => notice[j].stay \ {notice[j].by} \subseteq reached
  /\ notice[j].by \notin reached

\* The key of an export that was made does not say PENDING again, DONE is of a file that was made, and a job that is done leaves DONE or nothing
\* (enqueueExport(), against handleCalendarExportExcel()).
ExportIsSettled ==
  /\ export.made => export.entry # "PENDING"
  /\ export.entry = "DONE" => export.made
  /\ export.job = "done" => export.entry \in {"DONE", None}

DeskHolds == TypeOK /\ WithinLimits /\ ShiftsApart /\ NotOnHolidays /\ PolicyIsShown /\ PolicyKept
             /\ NoticesAreTrue /\ EveryoneIsTold /\ ExportIsSettled
=============================================================================
