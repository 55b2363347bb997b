------------------------------ MODULE Channels ------------------------------
(***************************************************************************)
(* The channel service: channels, their members, the unread counters, and  *)
(* the two cached lists, the channels of a member and the members of a     *)
(* channel.                                                                *)
(*                                                                         *)
(* A request is what its method does in three steps: the reads and checks, *)
(* the writes that commit, the invalidation after the commit.  Transactions *)
(* are READ COMMITTED and take no lock when they read: others commit       *)
(* between the first two steps, and any request may run between the last   *)
(* two.  channel_members has a unique (channel, member) and no foreign key. *)
(***************************************************************************)
EXTENDS ListCache, FiniteSets

CONSTANTS Members, Groups, Directs, \* users; ids of group and direct channels
          Requests,                 \* requests to the service
          Jobs,                     \* <<channel, sender>>: a message to be counted
          Role,                     \* the workspace role of each user
          MaxServed, MaxAttempts    \* bound on requests; attempts of a job

VARIABLES exists,   \* rows of channels
          star,     \* is_star
          members,  \* rows of channel_members
          unread,   \* unread_count of a member's row
          req,      \* the requests under way
          served,   \* how many have begun
          job       \* INCREMENT_UNREAD_COUNT jobs

Channel == Groups \cup Directs
chanVars == <<exists, star, members, unread, req, served, job>>
vars == <<cacheVars, chanVars>>

Idle == [pc |-> "idle", op |-> "none", c |-> NoValue, t |-> {}, seen |-> {},
         star |-> FALSE, written |-> {}]

TypeOK ==
  /\ CacheTypeOK
  /\ exists \subseteq Channel /\ star \in [Channel -> BOOLEAN]
  /\ members \in [Channel -> SUBSET Members]
  /\ unread \in [Channel -> [Members -> 0..(MaxAttempts * Cardinality(Jobs))]]
  /\ \A c \in Channel : \A m \in Members \ members[c] : unread[c][m] = 0
  /\ \A r \in Requests : req[r].pc \in {"idle", "checked", "committed"}
  /\ served \in 0..MaxServed
  /\ \A j \in Jobs : job[j].pc \in {"none", "waiting", "counted", "done"}

Init ==
  /\ CacheInit
  /\ exists = {} /\ star = [c \in Channel |-> FALSE]
  /\ members = [c \in Channel |-> {}]
  /\ unread = [c \in Channel |-> [m \in Members |-> 0]]
  /\ req = [r \in Requests |-> Idle] /\ served = 0
  /\ job = [j \in Jobs |-> [pc |-> "none", tries |-> 0]]

-----------------------------------------------------------------------------
(* The checks.  A request that fails one is answered with its RpcException *)
(* and leaves no trace.                                                    *)

Begin(r, q) ==
  /\ req[r].pc = "idle" /\ served < MaxServed
  /\ req' = [req EXCEPT ![r] = q]
  /\ served' = served + 1
  /\ UNCHANGED <<exists, star, members, unread, job, cacheVars>>

Checked(op, c, t) == [Idle EXCEPT !.pc = "checked", !.op = op, !.c = c, !.t = t,
                                  !.seen = members[c], !.star = star[c]]

\* an id nobody has
New(c) == c \notin exists /\ \A q \in Requests : req[q].pc = "idle" \/ req[q].c # c

Manages(who) == Role[who] \in {"owner", "admin"}

CreateGroup(r) == \E c \in Groups, who \in Members : New(c) /\ Begin(r, Checked("create", c, {who}))

\* the channel with exactly these members is answered when there is one
CreateDirect(r) ==
  \E c \in Directs, pair \in SUBSET Members :
    /\ Cardinality(pair) = 2
    /\ \/ c \in exists /\ members[c] = pair
          /\ Begin(r, [Checked("create", c, pair) EXCEPT !.pc = "committed"])
       \/ /\ ~ \E d \in Directs \cap exists : members[d] = pair
          /\ New(c) /\ Begin(r, Checked("create", c, pair))

\* what is saved is the row as it was read, with the change
UpdateChannel(r) == \E c \in exists, who \in Members :
                      Role[who] = "owner" /\ Begin(r, Checked("save", c, {}))

ToggleStar(r) == \E c \in exists : Begin(r, [Checked("save", c, {}) EXCEPT !.star = ~ star[c]])

DeleteChannel(r) == \E c \in exists, who \in Members :
                      Role[who] = "owner" /\ Begin(r, Checked("delete", c, {}))

AddMember(r) == \E c \in exists \cap Groups, who \in Members :
  /\ Manages(who)
  /\ \E t \in Members \ members[c] : Begin(r, Checked("add", c, {t}))

\* those who are members already are left out; with nobody new nothing is done
AddBatchMembers(r) == \E c \in exists \cap Groups, who \in Members, batch \in SUBSET Members :
  /\ Manages(who)
  /\ Cardinality(batch) > 1 /\ ~ (batch \subseteq members[c])
  /\ Begin(r, Checked("add", c, batch \ members[c]))

MayRemove(who, target) == /\ Manages(who) /\ Role[target] # "owner"
                          /\ ~ (Role[who] = "admin" /\ Role[target] = "admin")

RemoveMember(r) == \E c \in exists \cap Groups, who, target \in Members :
                     MayRemove(who, target) /\ Begin(r, Checked("remove", c, {target}))

LeaveChannel(r) == \E c \in exists, who \in Members : Begin(r, Checked("remove", c, {who}))

\* asked for by the workspace service: every channel the member is in now
RemoveMemberFromAllChannels(r) == \E who \in Members :
  LET found == {c \in Channel : who \in members[c]} IN
  found # {} /\ Begin(r, [Idle EXCEPT !.pc = "checked", !.op = "all", !.t = {who}, !.seen = found])

MarkAsRead(r) == \E c \in exists, who \in Members : Begin(r, Checked("read", c, {who}))

-----------------------------------------------------------------------------
(* The writes, and the keys whose lists they change.                       *)

Wrote(r, ks) ==
  /\ Changed(ks)
  /\ req' = [req EXCEPT ![r].pc = "committed", ![r].written = Revisions(ks)]
  /\ UNCHANGED <<served, job, version, entry, floor, reader>>

\* rows are new, or gone, or read: their counters are zero
Zero(c, ms) == unread' = [unread EXCEPT ![c] = [m \in Members |-> IF m \in ms THEN 0 ELSE @[m]]]

CommitCreate(r) ==
  LET c == req[r].c IN
  /\ req[r].op = "create"
  /\ exists' = exists \cup {c} /\ members' = [members EXCEPT ![c] = req[r].t]
  /\ star' = [star EXCEPT ![c] = FALSE]
  /\ Zero(c, req[r].t) /\ Wrote(r, req[r].t)

\* save() updates the row it finds and inserts the one it does not find
CommitSave(r) ==
  LET c == req[r].c IN
  /\ req[r].op = "save"
  /\ star' = [star EXCEPT ![c] = req[r].star] /\ exists' = exists \cup {c}
  /\ Wrote(r, members[c]) /\ UNCHANGED <<members, unread>>

\* who joined after the members were found loses the row, not the cached list
CommitDelete(r) ==
  LET c == req[r].c IN
  /\ req[r].op = "delete"
  /\ exists' = exists \ {c} /\ members' = [members EXCEPT ![c] = {}]
  /\ Zero(c, Members) /\ Wrote(r, req[r].seen) /\ UNCHANGED star

\* the unique constraint refuses the whole insert
CommitAdd(r) ==
  LET c == req[r].c IN
  /\ req[r].op = "add" /\ req[r].t \cap members[c] = {}
  /\ members' = [members EXCEPT ![c] = @ \cup req[r].t]
  /\ Zero(c, req[r].t) /\ Wrote(r, req[r].t \cup {c}) /\ UNCHANGED <<exists, star>>

\* the row is locked as it is read again: it may be gone
CommitRemove(r) ==
  LET c == req[r].c IN
  /\ req[r].op = "remove" /\ req[r].t \subseteq members[c]
  /\ members' = [members EXCEPT ![c] = @ \ req[r].t]
  /\ Zero(c, req[r].t) /\ Wrote(r, req[r].t \cup {c}) /\ UNCHANGED <<exists, star>>

\* one DELETE over the channels that were found
CommitRemoveAll(r) ==
  LET gone == [c \in Channel |-> IF c \in req[r].seen THEN req[r].t ELSE {}] IN
  /\ req[r].op = "all"
  /\ members' = [c \in Channel |-> members[c] \ gone[c]]
  /\ unread' = [c \in Channel |-> [m \in Members |-> IF m \in gone[c] THEN 0 ELSE unread[c][m]]]
  /\ Wrote(r, req[r].t \cup req[r].seen) /\ UNCHANGED <<exists, star>>

CommitRead(r) ==
  /\ req[r].op = "read"
  /\ Zero(req[r].c, req[r].t) /\ Wrote(r, req[r].t) /\ UNCHANGED <<exists, star, members>>

Refuse(r) ==
  /\ \/ req[r].op = "add" /\ req[r].t \cap members[req[r].c] # {}
     \/ req[r].op = "remove" /\ ~ (req[r].t \subseteq members[req[r].c])
  /\ req' = [req EXCEPT ![r] = Idle]
  /\ UNCHANGED <<exists, star, members, unread, served, job, cacheVars>>

Commit(r) ==
  /\ req[r].pc = "checked"
  /\ \/ CommitCreate(r) \/ CommitSave(r) \/ CommitDelete(r) \/ CommitAdd(r)
     \/ CommitRemove(r) \/ CommitRemoveAll(r) \/ CommitRead(r) \/ Refuse(r)

-----------------------------------------------------------------------------
(* The invalidation: the trackers each method increments.                  *)

\* Mutant: the members of the channel are forgotten.
TrackersOfMembers(q) == IF q.op = "save" THEN members[q.c]
                        ELSE IF q.op \in {"delete", "all"} THEN q.seen ELSE q.t

Trackers(q) ==
  CASE q.op \in {"create", "read"} -> q.t
    [] q.op = "save"               -> members[q.c]  \* found after the save
    [] q.op = "delete"             -> q.seen        \* found before the delete
    [] q.op \in {"add", "remove"}  -> q.t \cup {q.c}
    [] q.op = "all"                -> q.t \cup q.seen

\* a save promises nothing to those who left meanwhile
Promised(q) == {w \in q.written : q.op = "save" => w.key \in members[q.c]}

Bump(r) ==
  /\ req[r].pc = "committed"
  /\ Invalidate(Trackers(req[r]), Promised(req[r]))
  /\ req' = [req EXCEPT ![r] = Idle]
  /\ UNCHANGED <<exists, star, members, unread, served, job, rev, entry, reader>>

-----------------------------------------------------------------------------
(* The channel queue: a message was sent to a channel by a member.         *)

Send(j) ==
  /\ job[j].pc = "none" /\ j[1] \in exists /\ j[2] \in members[j[1]]
  /\ job' = [job EXCEPT ![j].pc = "waiting"]
  /\ UNCHANGED <<exists, star, members, unread, req, served, cacheVars>>

\* the UPDATE adds to what each row holds; no cached list is invalidated
IncrementUnread(j) ==
  LET c == j[1] IN
  /\ job[j].pc = "waiting"
  /\ unread' = [unread EXCEPT ![c] = [m \in Members |->
                   IF m \in members[c] \ {j[2]} THEN @[m] + 1 ELSE @[m]]]
  /\ job' = [job EXCEPT ![j] = [pc |-> "counted", tries |-> @.tries + 1]]
  /\ UNCHANGED <<exists, star, members, req, served, cacheVars>>

\* the events are queued; when that fails the job runs again from its start
EmitUnread(j) ==
  /\ job[j].pc = "counted"
  /\ \/ job' = [job EXCEPT ![j].pc = "done"]
     \/ job[j].tries < MaxAttempts /\ job' = [job EXCEPT ![j].pc = "waiting"]
  /\ UNCHANGED <<exists, star, members, unread, req, served, cacheVars>>

-----------------------------------------------------------------------------
Start(r) == \/ CreateGroup(r) \/ CreateDirect(r) \/ UpdateChannel(r) \/ ToggleStar(r)
            \/ DeleteChannel(r) \/ AddMember(r) \/ AddBatchMembers(r) \/ RemoveMember(r)
            \/ LeaveChannel(r) \/ RemoveMemberFromAllChannels(r) \/ MarkAsRead(r)

Next ==
  \/ \E r \in Requests : Start(r) \/ Commit(r) \/ Bump(r)
  \/ \E j \in Jobs : Send(j) \/ IncrementUnread(j) \/ EmitUnread(j)
  \/ CacheNext /\ UNCHANGED chanVars

Spec == Init /\ [][Next]_vars
=============================================================================
