-------------------------- MODULE WorkspaceSettings --------------------------
(***************************************************************************)
(* One workspace from its creation to its deletion: the row, what is cached *)
(* of it under the key DETAIL, the lists in which its members see it, and    *)
(* its configuration of single sign-on (workspace.service.ts).               *)
(*                                                                         *)
(* updateWorkspace() takes the row from the cache, changes it and save()s    *)
(* it: TypeORM writes every column in which it differs from the row of the   *)
(* database, and inserts the row when there is none any more.  A value of a  *)
(* column is the number of the write that made it.                           *)
(***************************************************************************)
EXTENDS ListCache, FiniteSets

CONSTANTS Users, Owner,  \* Owner creates the workspace
          Requests,      \* requests under way at a time
          MaxServed,     \* bound: requests in all
          MaxRetries,    \* attempts to find a slug that is free
          None

VARIABLES ws,      \* [row: [name, logo] or None, members, born: has been created]
          sso,     \* workspace_sso_configs: the secret, or None
          detail,  \* the entry of DETAIL: [value, slow]; slow: a write has overtaken
                   \* the flight that stored it (history)
          req, served, writes,
          past     \* history: [kept: column -> the last value whose request has ended,
                   \*   gone: deleteWorkspace() has ended, typed: the secret typed last,
                   \*   raced: the requests overlapped that wrote the row, or sso,
                   \*   overlooked: users who joined when it had read the members]

vars == <<cacheVars, ws, sso, detail, req, served, writes, past>>

Column == {"name", "logo"}
Bot == "AI Assistant"
NoEntry == [value |-> None, slow |-> FALSE]
Idle == [op |-> "none", pc |-> "idle", cols |-> {}, tries |-> 0, got |-> None, old |-> FALSE,
         calm |-> TRUE, base |-> 0, seen |-> {}, written |-> {}]
At(r, op, pc) == req[r].op = op /\ req[r].pc = pc

TypeOK ==
  /\ CacheTypeOK
  /\ {ws.row, detail.value} \subseteq [Column -> 0..writes] \cup {None}
  /\ ws.members \subseteq Users \cup {Bot} /\ sso \in (0..writes) \cup {None}
  /\ past.overlooked \subseteq Users /\ past.raced \subseteq {"row", "sso"}
  /\ \A r \in Requests : req[r].pc \in {"idle", "begun", "find", "wait", "fetched", "found", "saved",
                                        "members", "deleted", "committed", "listed"}

Init ==
  /\ CacheInit
  /\ ws \in {[row |-> None, members |-> {}, born |-> FALSE],
              [row |-> [f \in Column |-> 0], members |-> {Owner, Bot}, born |-> TRUE]}
  /\ sso = None /\ detail = NoEntry
  /\ req = [r \in Requests |-> Idle] /\ served = 0 /\ writes = 0
  /\ past = [kept |-> [f \in Column |-> 0], gone |-> FALSE, typed |-> 0,
             raced |-> {}, overlooked |-> {}]

\* a step that changes the request only
Quietly == UNCHANGED <<cacheVars, ws, sso, detail, writes, past>>
Go(r, pc) == req' = [req EXCEPT ![r].pc = pc]
End(r) == req' = [req EXCEPT ![r] = Idle]

Begin(r, op, pc, cols) ==
  /\ req[r].pc = "idle" /\ served < MaxServed /\ served' = served + 1
  /\ req' = [req EXCEPT ![r] = [Idle EXCEPT !.op = op, !.pc = pc, !.cols = cols]]
  /\ Quietly

-----------------------------------------------------------------------------
(* findWorkspaceById(): getOrSetDetail() of the key DETAIL, with one flight   *)
(* at a time.                                                                *)

\* nobody is between a write of the row and the invalidation that follows it
Settled == \A q \in Requests : req[q].pc \notin {"saved", "deleted"}

Found(q, value, calm) == [q EXCEPT !.pc = "found", !.got = value, !.calm = calm, !.base = writes]

HitDetail(r) ==
  /\ req[r].pc = "find" /\ detail.value # None
  /\ req' = [req EXCEPT ![r] = Found(@, detail.value, ~ detail.slow /\ Settled)]
  /\ UNCHANGED served /\ Quietly

\* a workspace that is not there is refused, and not cached
FetchDetail(r) ==
  /\ req[r].pc = "find" /\ detail.value = None
  /\ req' = [req EXCEPT ![r] =
        IF \E q \in Requests : req[q].pc = "fetched" THEN [@ EXCEPT !.pc = "wait"]
        ELSE IF ws.row = None THEN Idle ELSE [@ EXCEPT !.pc = "fetched", !.got = ws.row]]
  /\ UNCHANGED served /\ Quietly

\* whoever waits gets the same value
StoreDetail(r) ==
  LET calm == ~ req[r].old /\ Settled IN
  /\ req[r].pc = "fetched"
  /\ detail' = [value |-> req[r].got, slow |-> req[r].old]
  /\ req' = [q \in Requests |-> IF q = r \/ req[q].pc = "wait"
                                THEN Found(req[q], req[r].got, calm) ELSE req[q]]
  /\ UNCHANGED <<cacheVars, ws, sso, served, writes, past>>

Expire ==
  /\ detail # NoEntry /\ detail' = NoEntry
  /\ UNCHANGED <<cacheVars, ws, sso, req, served, writes, past>>

\* getDetailWorkspace()
GetDetail(r) == ws.row # None /\ Begin(r, "get", "find", {})
Answer(r) == At(r, "get", "found") /\ End(r) /\ UNCHANGED served /\ Quietly

\* a request that writes the row: the flights under way have read what is now old
Writes(r, q) ==
  /\ writes' = writes + 1 /\ Changed(ws.members)
  /\ req' = [p \in Requests |-> IF p = r THEN [q EXCEPT !.written = Revisions(ws.members)]
                                ELSE [req[p] EXCEPT !.old = @ \/ req[p].pc = "fetched"]]
  /\ UNCHANGED <<version, entry, floor, reader, detail, served>>

-----------------------------------------------------------------------------
(* createWorkspace().                                                        *)

CreateWorkspace(r) == /\ ~ ws.born /\ (\A q \in Requests : req[q].op # "create")
                      /\ Begin(r, "create", "begun", {})

\* the slug is taken (23505): another name is tried, and in the end the error is answered
SlugCollision(r) ==
  /\ At(r, "create", "begun")
  /\ req' = [req EXCEPT ![r] = IF @.tries < MaxRetries - 1 THEN [@ EXCEPT !.tries = @ + 1] ELSE Idle]
  /\ UNCHANGED served /\ Quietly

\* the workspace and its owner are inserted in one transaction
InsertWorkspace(r) ==
  /\ At(r, "create", "begun")
  /\ ws' = [row |-> [f \in Column |-> 0], members |-> {Owner}, born |-> TRUE]
  /\ Changed({Owner})
  /\ req' = [req EXCEPT ![r].pc = "committed", ![r].seen = {Owner}, ![r].written = Revisions({Owner})]
  /\ UNCHANGED <<version, entry, floor, reader, sso, detail, served, writes, past>>

\* the user of the assistant is made and added, unless something fails
AddBot(r) == \E added \in BOOLEAN :
  /\ At(r, "create", "listed") /\ End(r)
  /\ ws' = IF added /\ ws.row # None THEN [ws EXCEPT !.members = @ \cup {Bot}] ELSE ws
  /\ UNCHANGED <<cacheVars, sso, detail, served, writes, past>>

-----------------------------------------------------------------------------
(* updateWorkspace() and deleteWorkspace().                                   *)

UpdateWorkspace(r) == \E cols \in SUBSET Column : ws.born /\ Begin(r, "update", "find", cols)
DeleteWorkspace(r) == ws.born /\ Begin(r, "delete", "find", {})

Overlaps(r) == ~ req[r].calm \/ req[r].base # writes
Raced(what, overlaps) == IF overlaps THEN past.raced \cup {what} ELSE past.raced

\* what was read, with the change, over the row or in its place
Save(r) ==
  /\ At(r, "update", "found")
  /\ ws' = [ws EXCEPT !.row = [f \in Column |-> IF f \in req[r].cols THEN writes + 1 ELSE req[r].got[f]]]
  /\ Writes(r, [req[r] EXCEPT !.pc = "saved", !.base = writes + 1])
  /\ past' = [past EXCEPT !.raced = Raced("row", Overlaps(r))]
  /\ UNCHANGED sso

\* Mutant: the entry is left to its TTL.
LeaveDetail(r) ==
  /\ At(r, "update", "saved") /\ Go(r, "members")
  /\ UNCHANGED served /\ Quietly

DelDetail(r) ==
  /\ At(r, "update", "saved") /\ Go(r, "members") /\ detail' = NoEntry
  /\ UNCHANGED <<cacheVars, ws, sso, served, writes, past>>

\* before the deletion, and after the update
ReadMembers(r) ==
  /\ At(r, "delete", "found") \/ At(r, "update", "members")
  /\ req' = [req EXCEPT ![r].pc = IF @ = "found" THEN "members" ELSE "committed", ![r].seen = ws.members]
  /\ UNCHANGED served /\ Quietly

\* members and configuration go with the row (CASCADE)
Delete(r) ==
  /\ At(r, "delete", "members")
  /\ ws' = [ws EXCEPT !.row = None, !.members = {}] /\ sso' = None
  /\ Writes(r, [req[r] EXCEPT !.pc = "deleted"])
  /\ past' = [past EXCEPT !.typed = 0, !.overlooked = @ \cup ((ws.members \cap Users) \ req[r].seen)]

\* the changes whose lists a request answers for when it ends
Owed(r) == {w \in req[r].written :
              w.key \notin past.overlooked /\ (req[r].op = "delete" \/ w.key \in ws.members)}

\* the lists of the members who were read; an update ends here
InvalidateLists(r) ==
  /\ req[r].pc = "committed" \/ (req[r].pc = "deleted" /\ req[r].tries = 0)
  /\ Invalidate(req[r].seen, Owed(r))
  /\ CASE req[r].op = "create" -> Go(r, "listed") /\ UNCHANGED past
       [] req[r].op = "delete" -> req' = [req EXCEPT ![r].tries = 1] /\ UNCHANGED past
       [] OTHER -> /\ End(r)
                   /\ past' = [past EXCEPT !.kept = [f \in Column |->
                        IF f \in req[r].cols /\ req[r].base > @[f] THEN req[r].base ELSE @[f]]]
  /\ UNCHANGED <<rev, entry, reader, ws, sso, detail, served, writes>>

\* the keys of the workspace, last
DelKeys(r) ==
  /\ At(r, "delete", "deleted") /\ req[r].tries = 1 /\ End(r)
  /\ detail' = NoEntry /\ past' = [past EXCEPT !.gone = TRUE]
  /\ UNCHANGED <<cacheVars, ws, sso, served, writes>>

\* addMember(): the row of the member, then their list
AddMember(r) == Begin(r, "join", "begun", {})
Insert(r) == \E u \in Users \ ws.members :
  /\ At(r, "join", "begun") /\ ws.row # None
  /\ ws' = [ws EXCEPT !.members = @ \cup {u}] /\ Changed({u})
  /\ req' = [req EXCEPT ![r].pc = "committed", ![r].seen = {u}, ![r].written = Revisions({u})]
  /\ UNCHANGED <<version, entry, floor, reader, sso, detail, served, writes, past>>

-----------------------------------------------------------------------------
(* The configuration of single sign-on: read, then saved; a secret that is    *)
(* sent as its mask is not assigned.                                         *)

UpdateWorkspaceSsoConfig(r) ==
  /\ ws.row # None /\ req[r].pc = "idle" /\ served < MaxServed /\ served' = served + 1
  /\ req' = [req EXCEPT ![r] = [Idle EXCEPT !.op = "sso", !.pc = "found", !.got = sso]]
  /\ Quietly

Secret(r, typed) == IF typed THEN writes + 1 ELSE IF req[r].got = None THEN 0 ELSE req[r].got

\* refused when there is no workspace any more, or when a row of it or of the domain
\* is there already
SaveSsoConfig(r) == \E typed, taken \in BOOLEAN :
  /\ At(r, "sso", "found") /\ End(r)
  /\ IF ws.row = None \/ taken \/ (req[r].got = None /\ sso # None)
     THEN UNCHANGED <<sso, writes, past>>
     ELSE /\ sso' = Secret(r, typed) /\ writes' = writes + 1
          /\ past' = [past EXCEPT !.raced = Raced("sso", sso # req[r].got),
                                  !.typed = IF typed THEN writes + 1 ELSE @]
  /\ UNCHANGED <<cacheVars, ws, detail, served>>

DeleteWorkspaceSsoConfig ==
  /\ sso # None /\ served < MaxServed /\ served' = served + 1
  /\ sso' = None /\ past' = [past EXCEPT !.typed = 0]
  /\ UNCHANGED <<cacheVars, ws, detail, req, writes>>

-----------------------------------------------------------------------------
\* getListWorkspaceOfUser()
ListOfUser == CacheNext /\ UNCHANGED <<ws, sso, detail, req, served, writes, past>>

Next ==
  \/ Expire \/ ListOfUser \/ DeleteWorkspaceSsoConfig
  \/ \E r \in Requests :
       \/ CreateWorkspace(r) \/ SlugCollision(r) \/ InsertWorkspace(r) \/ AddBot(r)
       \/ HitDetail(r) \/ FetchDetail(r) \/ StoreDetail(r) \/ GetDetail(r) \/ Answer(r)
       \/ UpdateWorkspace(r) \/ Save(r) \/ DelDetail(r) \/ ReadMembers(r) \/ InvalidateLists(r)
       \/ DeleteWorkspace(r) \/ Delete(r) \/ DelKeys(r) \/ AddMember(r) \/ Insert(r)
       \/ UpdateWorkspaceSsoConfig(r) \/ SaveSsoConfig(r)

Spec == Init /\ [][Next]_vars

-----------------------------------------------------------------------------
\* What an update has changed is neither put back by a later one nor hidden by the
\* entry, unless two writers overlapped or a slow flight stored what it had read.
ChangesKept ==
  /\ ws.row # None /\ "row" \notin past.raced => \A f \in Column : ws.row[f] >= past.kept[f]
  /\ detail.value # None /\ ~ detail.slow /\ Settled => detail.value = ws.row

\* A workspace that was deleted does not come back by a request that began later,
\* and while it is there it has its owner.
GoneStaysGone ==
  "row" \notin past.raced => /\ past.gone => ws.row = None
                             /\ ws.row # None => Owner \in ws.members

\* The lists of members show what requests that have ended did, except to those
\* who joined while the workspace was being deleted.
ListsShown == \A p \in Readers :
  reader[p].pc = "done" /\ reader[p].key \notin past.overlooked => reader[p].got >= reader[p].floor

\* The secret stays the one that was typed last, unless two requests overlapped.
SecretKept == sso # None /\ "sso" \notin past.raced => sso = past.typed

=============================================================================
