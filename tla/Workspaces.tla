----------------------------- MODULE Workspaces -----------------------------
(***************************************************************************)
(* The members, invites and links of one workspace.                        *)
(*                                                                         *)
(* Most methods read a row without a lock, change what they read and call  *)
(* save(): TypeORM looks the row up again, writes the columns in which the *)
(* two differ, or inserts the row when it is not there.  The joins lock the *)
(* row of the invite or link until they commit.  workspace_members has one *)
(* row per user.                                                           *)
(***************************************************************************)
EXTENDS Integers, FiniteSets

CONSTANTS Users, Links, Invites, \* keys of the rows
          Requests,
          MaxUsage,              \* how many may join by a link
          MaxServed,             \* bound on requests
          None

VARIABLES db,        \* key -> row, or None
          known,     \* the roles a cached member row may still show
          issued,    \* tokens made so far
          req,       \* the requests under way
          lock,      \* row locks
          served,
          joined,    \* who joined with which token or link (history)
          closed,    \* links and tokens that were disabled, deleted or revoked (history)
          overtaken  \* keys of rows that a save found changed since they were read (history)

vars == <<db, known, issued, req, lock, served, joined, closed, overtaken>>

Key == Users \cup Links \cup Invites
Role == {"owner", "admin", "member"}
Idle == [pc |-> "idle", op |-> "none", by |-> None, save |-> <<>>, read |-> <<>>, found |-> <<>>]

Rows(k) == CASE k \in Users -> [role : Role, active : BOOLEAN]
             [] k \in Links -> [status : {"active", "expired"}, used : 0..MaxUsage, old : BOOLEAN]
             [] OTHER       -> [status : {"pending", "accepted", "revoked"},
                                token : 1..MaxServed, old : BOOLEAN]

IsMember(u) == db[u] # None /\ db[u].active
Owners == {u \in Users : IsMember(u) /\ db[u].role = "owner"}

TypeOK ==
  /\ \A k \in Key : db[k] \in Rows(k) \cup {None}
  /\ known \in [Users -> SUBSET Role]
  /\ issued \in 0..MaxServed /\ served \in 0..MaxServed
  /\ \A r \in Requests : req[r].pc \in {"idle", "read", "selected"}
                         /\ \A k \in DOMAIN req[r].save : req[r].save[k] \in Rows(k)
  /\ lock \in [Key -> Requests \cup {None}]
  /\ overtaken \subseteq Key

\* createWorkspace(): the workspace and its owner in one transaction
Init ==
  /\ \E owner \in Users :
       /\ db = [k \in Key |-> IF k = owner THEN [role |-> "owner", active |-> TRUE] ELSE None]
       /\ known = [u \in Users |-> IF u = owner THEN {"owner"} ELSE {}]
  /\ issued = 0 /\ served = 0
  /\ req = [r \in Requests |-> Idle] /\ lock = [k \in Key |-> None]
  /\ joined = {} /\ closed = {} /\ overtaken = {}

-----------------------------------------------------------------------------
(* checkPermission() takes the member from a cache (TTL.SHORT) that is     *)
(* deleted after a change and that a slow reader may fill again.           *)

MayManage(who) == known[who] \cap {"owner", "admin"} # {}

CurrentRole(u) == IF IsMember(u) THEN {db[u].role} ELSE {}

CacheExpires(u) ==
  /\ known[u] # CurrentRole(u)
  /\ known' = [known EXCEPT ![u] = CurrentRole(u)]
  /\ UNCHANGED <<db, issued, req, lock, served, joined, closed, overtaken>>

-----------------------------------------------------------------------------
(* The first step of a method: the checks, and the rows it reads.          *)

Begin(r, op, by, save) ==
  /\ req[r].pc = "idle" /\ served < MaxServed
  /\ served' = served + 1
  /\ req' = [req EXCEPT ![r] = [pc |-> "read", op |-> op, by |-> by, save |-> save,
                                read |-> [k \in DOMAIN save |-> db[k]], found |-> <<>>]]
  /\ UNCHANGED <<db, known, joined, closed, overtaken>>

Unlocked(r, op, save) == Begin(r, op, None, save) /\ UNCHANGED <<lock, issued>>

Row(k, row) == [x \in {k} |-> row]
ActiveRow(role) == [role |-> role, active |-> TRUE]

AddMember(r) == \E who, u \in Users, role \in Role :
  MayManage(who) /\ ~ IsMember(u) /\ Unlocked(r, "save", Row(u, ActiveRow(role)))

\* a sign-in by SSO adds the user without a check
AddMemberSso(r) == \E u \in Users :
  ~ IsMember(u) /\ Unlocked(r, "save", Row(u, ActiveRow("member")))

\* the rows that are there are locked as they are read
AddBatchMembers(r) == \E who \in Users, batch \in SUBSET Users, role \in Role :
  LET new == {u \in batch : ~ IsMember(u)} IN
  /\ MayManage(who) /\ new # {} /\ \A u \in batch : lock[u] = None
  /\ Begin(r, "save", None, [u \in new |-> ActiveRow(role)])
  /\ lock' = [k \in Key |-> IF k \in batch /\ db[k] # None THEN r ELSE lock[k]]
  /\ UNCHANGED issued

\* an owner is out of reach, and an admin is for an admin
InReach(who, target) ==
  /\ IsMember(target) /\ db[target].role # "owner"
  /\ \/ "owner" \in known[who]
     \/ "admin" \in known[who] /\ db[target].role # "admin"

RemoveMember(r) == \E who, target \in Users :
  InReach(who, target) /\ Unlocked(r, "save", Row(target, [db[target] EXCEPT !.active = FALSE]))

LeaveWorkspace(r) == \E u \in Users :
  IsMember(u) /\ db[u].role # "owner"
  /\ Unlocked(r, "save", Row(u, [db[u] EXCEPT !.active = FALSE]))

UpdateMember(r) == \E who, target \in Users, role \in Role :
  InReach(who, target) /\ Unlocked(r, "save", Row(target, [db[target] EXCEPT !.role = role]))

TransferOwnership(r) == \E from \in Owners, to \in Users :
  /\ IsMember(to) /\ from # to
  /\ Unlocked(r, "save", [u \in {from, to} |->
                             [db[u] EXCEPT !.role = IF u = to THEN "owner" ELSE "admin"]])

-----------------------------------------------------------------------------
(* Invites and links.  A token is made by the request that saves it.       *)

\* an id nobody has
Fresh(k) == db[k] = None /\ k \notin closed /\ \A r \in Requests : k \notin DOMAIN req[r].save

NewToken(r, i) ==
  /\ issued' = issued + 1 /\ UNCHANGED lock
  /\ Begin(r, "save", None, Row(i, [status |-> "pending", token |-> issued + 1, old |-> FALSE]))

InviteMember(r) == \E who \in Users, i \in Invites :
  /\ MayManage(who) /\ Fresh(i)
  /\ \A j \in Invites : db[j] # None => db[j].status # "pending"
  /\ NewToken(r, i)

ResendInvite(r) == \E who \in Users, i \in Invites :
  db[i] # None /\ MayManage(who) /\ NewToken(r, i)

RevokeInvite(r) == \E who \in Users, i \in Invites :
  db[i] # None /\ MayManage(who)
  /\ Unlocked(r, "save", Row(i, [db[i] EXCEPT !.status = "revoked"]))

GenerateLink(r) == \E who \in Users, l \in Links :
  MayManage(who) /\ Fresh(l)
  /\ Unlocked(r, "save", Row(l, [status |-> "active", used |-> 0, old |-> FALSE]))

DisableLink(r) == \E who \in Users, l \in Links :
  MayManage(who) /\ db[l] # None
  /\ Unlocked(r, "save", Row(l, [db[l] EXCEPT !.status = "expired"]))

DeleteLink(r) == \E who \in Users, l \in Links :
  MayManage(who) /\ db[l] # None /\ Unlocked(r, "delete", Row(l, db[l]))

\* Mutant: a plain read.
LockedAnyway(r, k, held) == lock' = [held EXCEPT ![k] = r]

\* the row is read for update: the reader waits for its lock, and holds it
Locked(r, k, held) == held[k] = None /\ lock' = [held EXCEPT ![k] = r]

\* the user becomes a member in the transaction that changes the row
Join(r, k, u, key, row, role) ==
  /\ Locked(r, k, lock)
  /\ Begin(r, "join", [user |-> u, row |-> k, key |-> key, late |-> FALSE],
           [x \in {k, u} |-> IF x = k THEN row ELSE ActiveRow(role)])
  /\ UNCHANGED issued

JoinWorkspace(r) == \E u \in Users, i \in Invites, role \in Role \ {"owner"} :
  /\ db[i] # None /\ db[i].status = "pending" /\ ~ db[i].old
  /\ Join(r, i, u, db[i].token, [db[i] EXCEPT !.status = "accepted"], role)

JoinLink(r) == \E u \in Users, l \in Links :
  /\ db[l] # None /\ db[l].status # "expired" /\ ~ db[l].old
  /\ db[l].used < MaxUsage /\ db[u] = None
  /\ Join(r, l, u, l, [db[l] EXCEPT !.used = @ + 1], "member")

\* seven days pass
Expire == \E k \in Links \cup Invites :
  /\ db[k] # None /\ ~ db[k].old
  /\ db' = [db EXCEPT ![k].old = TRUE]
  /\ UNCHANGED <<known, issued, req, lock, served, joined, closed, overtaken>>

-----------------------------------------------------------------------------
(* save(): the rows are looked up, and then written.                       *)

Select(r) ==
  /\ req[r].pc = "read"
  /\ req' = [req EXCEPT ![r].pc = "selected", ![r].found = [k \in DOMAIN req[r].save |-> db[k]]]
  /\ UNCHANGED <<db, known, issued, lock, served, joined, closed, overtaken>>

\* a join inserts the member it made, whether there is one or not
New(q, k) == q.found[k] = None \/ (q.op = "join" /\ k \in Users)

Fails(q) == \E k \in DOMAIN q.save : New(q, k) /\ db[k] # None

Written(q, k) ==
  CASE q.op = "delete" -> None
    [] New(q, k)       -> q.save[k]
    [] db[k] = None    -> None
    [] OTHER           -> [f \in DOMAIN db[k] |-> IF q.save[k][f] # q.found[k][f]
                                                  THEN q.save[k][f] ELSE db[k][f]]

\* what the answer of a request closes
Closes(q) ==
  {k \in DOMAIN q.save \cap Links : q.op = "delete" \/ q.save[k].status = "expired"}
  \cup {q.save[i].token : i \in {j \in DOMAIN q.save \cap Invites : q.save[j].status = "revoked"}}

Unlock(r) == lock' = [k \in Key |-> IF lock[k] = r THEN None ELSE lock[k]]

\* an UPDATE, or a DELETE, waits for who holds the row
MayWrite(r) == req[r].pc = "selected" /\ \A k \in DOMAIN req[r].save : lock[k] \in {None, r}

Write(r) ==
  LET q == req[r]
      ks == DOMAIN q.save
  IN /\ MayWrite(r) /\ ~ Fails(q)
     /\ db' = [k \in Key |-> IF k \in ks THEN Written(q, k) ELSE db[k]]
     /\ known' = [u \in Users |-> IF db'[u] # None /\ db'[u].active
                                   THEN known[u] \cup {db'[u].role} ELSE known[u]]
     /\ joined' = IF q.op = "join" THEN joined \cup {[q.by EXCEPT !.late = q.by.key \in closed]}
                                   ELSE joined
     /\ closed' = closed \cup Closes(q)
     /\ overtaken' = overtaken \cup {k \in ks : q.read[k] # q.found[k] \/ q.found[k] # db[k]}
     /\ req' = [req EXCEPT ![r] = Idle] /\ Unlock(r)
     /\ UNCHANGED <<issued, served>>

\* the unique constraint takes the whole transaction back
Fail(r) ==
  /\ MayWrite(r) /\ Fails(req[r])
  /\ req' = [req EXCEPT ![r] = Idle] /\ Unlock(r)
  /\ UNCHANGED <<db, known, issued, served, joined, closed, overtaken>>

-----------------------------------------------------------------------------
Start(r) ==
  \/ AddMember(r) \/ AddMemberSso(r) \/ AddBatchMembers(r) \/ RemoveMember(r)
  \/ LeaveWorkspace(r) \/ UpdateMember(r) \/ TransferOwnership(r)
  \/ InviteMember(r) \/ ResendInvite(r) \/ RevokeInvite(r) \/ JoinWorkspace(r)
  \/ GenerateLink(r) \/ DisableLink(r) \/ DeleteLink(r) \/ JoinLink(r)

Next ==
  \/ \E r \in Requests : Start(r) \/ Select(r) \/ Write(r) \/ Fail(r)
  \/ \E u \in Users : CacheExpires(u)
  \/ Expire

Spec == Init /\ [][Next]_vars

-----------------------------------------------------------------------------
\* A link admits no more users than its maxUsage and nobody once it is disabled
\* or deleted; an invite admits one user per token that was sent and nobody
\* with a token that was revoked, however the joins overlap with each other and
\* with an administrator's saves (joinLink() and joinWorkspace() read under a
\* lock, the others do not).  A row of an invite that was saved over a change
\* its writer had not seen may hold an old token again.
JoinsAreLimited ==
  /\ \A l \in Links : Cardinality({j \in joined : j.row = l}) <= MaxUsage
  /\ \A j \in joined : j.late => j.row \in overtaken \cap Invites
  /\ \A i, j \in joined : i.row \in Invites \ overtaken /\ i.key = j.key => i = j

\* The workspace always has an active owner, through transfers, removals, new
\* roles and users who leave, as long as no member was saved over a change that
\* the writer had not seen (transferOwnership() and updateMember() take no lock).
OwnerKept == overtaken \cap Users = {} => Owners # {}
=============================================================================
