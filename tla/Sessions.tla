------------------------------- MODULE Sessions -------------------------------
(***************************************************************************)
(* The sessions of one user (AuthService and AuthCacheService).  A log-in  *)
(* signs a pair of access and refresh token and stores a session under the *)
(* refresh token.  refresh() rotates: in one database transaction, under a *)
(* row lock, it revokes the old session and stores a new one; the new pair *)
(* is kept in Redis for ROTATION_GRACE_TTL for a second tab that comes     *)
(* with the same old token.  An old token outside that time is taken for   *)
(* stolen: every session is revoked and the token version is bumped, as    *)
(* logoutAll() and secureAccount() do.                                     *)
(*                                                                         *)
(* Sessions of different users share no rows and no keys.  A step is what  *)
(* a request does between two awaits; PostgreSQL's row locks and Read      *)
(* Committed snapshots are modelled, a transaction's writes are seen when  *)
(* it commits.  A pair is named by its refresh token.                      *)
(***************************************************************************)
EXTENDS Naturals, FiniteSets

CONSTANTS
  Tokens,    \* pairs that can be signed (a bound)
  Requests,  \* calls of the service, each made once (a bound)
  None       \* no value

ASSUME SessionAssumption == None \notin Tokens \cup Requests

VARIABLES
  row,       \* sessions: state of the committed row of each refresh token
  lock,      \* the transaction that holds the row lock
  ver,       \* tokenVersion in the payload of the pair
  version,   \* TOKEN_VERSION of the user in Redis, 0 when the key is missing
  grace,     \* ROTATION_GRACE of the token: the pair it was rotated to
  blacklist, \* BLACKLIST: access tokens logged out
  handed,    \* pairs the user's clients hold
  root,      \* history: the log-in a pair descends from
  used,      \* history: rotated tokens, and those whose grace is over
  req        \* the requests

data == <<row, lock, ver, version, grace, blacklist, handed, root, used>>
vars == <<data, req>>

Ops    == {"none", "login", "refresh", "logout", "logoutAll"}
Points == {"new", "insert", "lock", "grace", "generate", "cache", "commit",
           "scan", "revoke", "bump", "update", "blacklist", "over"}
Locked == {"grace", "generate", "cache", "commit", "scan", "revoke", "bump"}
          \* points of refresh() inside its transaction

Request == [op : Ops, pc : Points, token : Tokens \cup {None},
            pair : Tokens \cup {None}, scan : SUBSET Tokens, ok : BOOLEAN]

\* A lock belongs to a transaction on its row.
LockHeld ==
  \A t \in Tokens : lock[t] # None =>
    /\ req[lock[t]].op = "refresh" /\ req[lock[t]].pc \in Locked
    /\ req[lock[t]].token = t

TypeOK ==
  /\ row \in [Tokens -> {"unused", "signed", "live", "revoked"}]
  /\ lock \in [Tokens -> Requests \cup {None}]
  /\ ver \in [Tokens -> Nat]
  /\ version \in Nat
  /\ grace \in [Tokens -> Tokens \cup {None}]
  /\ blacklist \subseteq Tokens
  /\ handed \subseteq Tokens
  /\ root \in [Tokens -> Tokens]
  /\ used \in [Tokens -> {"fresh", "rotated", "late"}]
  /\ req \in [Requests -> Request]
  /\ LockHeld

Init ==
  /\ row = [t \in Tokens |-> "unused"]
  /\ lock = [t \in Tokens |-> None]
  /\ ver = [t \in Tokens |-> 0]
  /\ version = 0
  /\ grace = [t \in Tokens |-> None]
  /\ blacklist = {} /\ handed = {}
  /\ root = [t \in Tokens |-> t]
  /\ used = [t \in Tokens |-> "fresh"]
  /\ req = [r \in Requests |-> [op |-> "none", pc |-> "new", token |-> None,
                                pair |-> None, scan |-> {}, ok |-> FALSE]]

Live     == {t \in Tokens : row[t] = "live"}
Token(r) == req[r].token
Pair(r)  == req[r].pair
At(r, op, pc) == req[r].op = op /\ req[r].pc = pc

Goto(r, pc) == req' = [req EXCEPT ![r].pc = pc]
Finish(r, ok) == req' = [req EXCEPT ![r].pc = "over", ![r].ok = ok]

\* The end of a transaction releases its lock.
Unlock(r) == lock' = [t \in Tokens |-> IF lock[t] = r THEN None ELSE lock[t]]

\* getUserTokenVersion(): a missing key reads as 1.
Current == IF version = 0 THEN 1 ELSE version

\* generateTokens(): a fresh pair with the version of this moment.
Sign(n, of) ==
  /\ row[n] = "unused"
  /\ row' = [row EXCEPT ![n] = "signed"]
  /\ ver' = [ver EXCEPT ![n] = Current]
  /\ root' = [root EXCEPT ![n] = of]

\* Bound: a request that will sign a pair is begun only if one is left for it.
Room == Cardinality({t \in Tokens : row[t] = "unused"}) >
        Cardinality({r \in Requests : At(r, "refresh", "lock") \/ At(r, "refresh", "generate")})

-----------------------------------------------------------------------------
(* login(), loginGoogle(), loginSso(), verifyOtpFromAuthenticator().       *)

Login(r, n) ==
  /\ req[r].pc = "new" /\ Room
  /\ Sign(n, n)
  /\ req' = [req EXCEPT ![r].op = "login", ![r].pc = "insert", ![r].pair = n]
  /\ UNCHANGED <<lock, version, grace, blacklist, handed, used>>

\* createSession().
InsertSession(r) ==
  /\ At(r, "login", "insert")
  /\ row' = [row EXCEPT ![Pair(r)] = "live"]
  /\ handed' = handed \cup {Pair(r)}
  /\ Finish(r, TRUE)
  /\ UNCHANGED <<lock, ver, version, grace, blacklist, root, used>>

-----------------------------------------------------------------------------
(* refresh().                                                              *)

Refresh(r, t) ==
  /\ req[r].pc = "new" /\ Room
  /\ t \in handed
  /\ req' = [req EXCEPT ![r].op = "refresh", ![r].pc = "lock", ![r].token = t]
  /\ UNCHANGED data

\* findOne() with pessimistic_write, waiting while another has the row.
\* Mutant: it does not wait.
LockRowAnyway(r) ==
  /\ At(r, "refresh", "lock")
  /\ Token(r) \in {t \in Tokens : row[t] \in {"live", "revoked"}}
  /\ lock' = [lock EXCEPT ![Token(r)] = r]
  /\ Goto(r, IF row[Token(r)] = "revoked" THEN "grace" ELSE "generate")
  /\ UNCHANGED <<row, ver, version, grace, blacklist, handed, root, used>>

LockRow(r) ==
  /\ At(r, "refresh", "lock")
  /\ Token(r) \in {t \in Tokens : row[t] \in {"live", "revoked"} /\ lock[t] = None}
  /\ lock' = [lock EXCEPT ![Token(r)] = r]
  /\ Goto(r, IF row[Token(r)] = "revoked" THEN "grace" ELSE "generate")
  /\ UNCHANGED <<row, ver, version, grace, blacklist, handed, root, used>>

\* The token has expired, or
Refuse(r) ==
  /\ At(r, "refresh", "lock")
  /\ Finish(r, FALSE)
  /\ UNCHANGED data

\* there is no session of it: the one that signed it was rolled back.
NoSession(r) == Refuse(r) /\ row[Token(r)] \notin {"live", "revoked"}

\* getRotationResult(): the pair of the request that won, or reuse.
AnswerFromGrace(r, t) ==
  /\ handed' = handed \cup {grace[t]}
  /\ req' = [req EXCEPT ![r].pc = "over", ![r].ok = TRUE, ![r].pair = grace[t]]

\* Mutant: the second tab keeps its lock.
ReadGraceKeepingLock(r) ==
  /\ At(r, "refresh", "grace")
  /\ \/ grace[Token(r)] # None /\ AnswerFromGrace(r, Token(r)) /\ UNCHANGED lock
     \/ grace[Token(r)] = None /\ Goto(r, "scan") /\ UNCHANGED <<lock, handed>>
  /\ UNCHANGED <<row, ver, version, grace, blacklist, root, used>>

ReadGrace(r) ==
  /\ At(r, "refresh", "grace")
  /\ \/ grace[Token(r)] # None /\ AnswerFromGrace(r, Token(r)) /\ Unlock(r)
     \/ grace[Token(r)] = None /\ Goto(r, "scan") /\ UNCHANGED <<lock, handed>>
  /\ UNCHANGED <<row, ver, version, grace, blacklist, root, used>>

\* The session is live: isRevoked is set, a pair is signed and a new session
\* saved, all inside the transaction.
Generate(r, n) ==
  /\ At(r, "refresh", "generate")
  /\ Sign(n, root[Token(r)])
  /\ req' = [req EXCEPT ![r].pc = "cache", ![r].pair = n]
  /\ UNCHANGED <<lock, version, grace, blacklist, handed, used>>

\* cacheRotationResult(), before the commit.
\* Mutant: the pair is not kept.
CacheNot(r) ==
  /\ At(r, "refresh", "cache")
  /\ Goto(r, "commit")
  /\ UNCHANGED data

Cache(r) ==
  /\ At(r, "refresh", "cache")
  /\ grace' = [grace EXCEPT ![Token(r)] = Pair(r)]
  /\ Goto(r, "commit")
  /\ UNCHANGED <<row, lock, ver, version, blacklist, handed, root, used>>

Commit(r) ==
  /\ At(r, "refresh", "commit")
  /\ row' = [row EXCEPT ![Token(r)] = "revoked", ![Pair(r)] = "live"]
  /\ used' = [used EXCEPT ![Token(r)] = "rotated"]
  /\ handed' = handed \cup {Pair(r)}
  /\ Unlock(r)
  /\ Finish(r, TRUE)
  /\ UNCHANGED <<ver, version, grace, blacklist, root>>

\* ROTATION_GRACE_TTL passes; a refresh takes less than that.
ExpireGrace(t) ==
  /\ grace[t] # None
  /\ \A r \in Requests : Token(r) = t => req[r].pc \in {"new", "over"}
  /\ grace' = [grace EXCEPT ![t] = None]
  /\ used' = [used EXCEPT ![t] = IF @ = "rotated" THEN "late" ELSE @]
  /\ UNCHANGED <<row, lock, ver, version, blacklist, handed, root, req>>

-----------------------------------------------------------------------------
(* logoutAll() and secureAccount(), and refresh() of a reused token.       *)

LogoutAll(r) ==
  /\ req[r].pc = "new" /\ handed # {}
  /\ req' = [req EXCEPT ![r].op = "logoutAll", ![r].pc = "scan"]
  /\ UNCHANGED data

\* UPDATE ... WHERE userId AND NOT isRevoked: the rows its snapshot has,
Scan(r) ==
  /\ req[r].pc = "scan"
  /\ req' = [req EXCEPT ![r].pc = "revoke", ![r].scan = Live]
  /\ UNCHANGED data

\* once nobody else has them locked.
Revoke(r) ==
  /\ req[r].pc = "revoke"
  /\ \A t \in req[r].scan : lock[t] \in {None, r}
  /\ row' = [t \in Tokens |-> IF t \in req[r].scan THEN "revoked" ELSE row[t]]
  /\ Goto(r, "bump")
  /\ UNCHANGED <<lock, ver, version, grace, blacklist, handed, root, used>>

\* bumpUserTokenVersion(): INCR; refresh() then throws and rolls back.
Bump(r) ==
  /\ req[r].pc = "bump"
  /\ version' = version + 1
  /\ Unlock(r)
  /\ Finish(r, req[r].op = "logoutAll")
  /\ UNCHANGED <<row, ver, grace, blacklist, handed, root, used>>

-----------------------------------------------------------------------------
(* logout() of one session.                                                *)

Logout(r, t) ==
  /\ req[r].pc = "new"
  /\ t \in handed
  /\ req' = [req EXCEPT ![r].op = "logout", ![r].pc = "update", ![r].token = t]
  /\ UNCHANGED data

\* One UPDATE that waits for the row and then looks at isRevoked again.
\* Mutant: the row is read before and written without a second look.
UpdateSessionAnyway(r) ==
  /\ req[r].pc = "update"
  /\ \/ /\ row[Token(r)] = "live"
        /\ row' = [row EXCEPT ![Token(r)] = "revoked"]
        /\ Goto(r, "blacklist")
     \/ row[Token(r)] # "live" /\ Finish(r, FALSE) /\ UNCHANGED row
  /\ UNCHANGED <<lock, ver, version, grace, blacklist, handed, root, used>>

UpdateSession(r) ==
  /\ req[r].pc = "update"
  /\ lock[Token(r)] = None
  /\ \/ /\ row[Token(r)] = "live"
        /\ row' = [row EXCEPT ![Token(r)] = "revoked"]
        /\ Goto(r, "blacklist")
     \/ row[Token(r)] # "live" /\ Finish(r, FALSE) /\ UNCHANGED row
  /\ UNCHANGED <<lock, ver, version, grace, blacklist, handed, root, used>>

\* blacklistToken().
Blacklist(r) ==
  /\ req[r].pc = "blacklist"
  /\ blacklist' = blacklist \cup {Token(r)}
  /\ Finish(r, TRUE)
  /\ UNCHANGED <<row, lock, ver, version, grace, handed, root, used>>

-----------------------------------------------------------------------------
\* PostgreSQL or Redis fails: the call throws and its transaction, if it has
\* one, is rolled back; what other calls wrote before stays.
\* Mutant: the rollback leaves the row locked.
FailKeepingLock(r) ==
  /\ req[r].pc \in {"insert", "update", "blacklist"} \cup Locked
  /\ Finish(r, FALSE)
  /\ UNCHANGED <<row, lock, ver, version, grace, blacklist, handed, root, used>>

Fail(r) ==
  /\ req[r].pc \in {"insert", "update", "blacklist"} \cup Locked
  /\ Unlock(r)
  /\ Finish(r, FALSE)
  /\ UNCHANGED <<row, ver, version, grace, blacklist, handed, root, used>>

Call(r) ==
  \/ \E n \in Tokens : Login(r, n)
  \/ \E t \in Tokens : Refresh(r, t) \/ Logout(r, t)
  \/ LogoutAll(r)

\* What a request does after it was called.
Proceed(r) ==
  \/ InsertSession(r) \/ LockRow(r) \/ NoSession(r)
  \/ ReadGrace(r) \/ Cache(r) \/ Commit(r)
  \/ \E n \in Tokens : Generate(r, n)
  \/ Scan(r) \/ Revoke(r) \/ Bump(r) \/ UpdateSession(r) \/ Blacklist(r)

Next ==
  \/ \E r \in Requests : Call(r) \/ Proceed(r) \/ Refuse(r) \/ Fail(r)
  \/ \E t \in Tokens : ExpireGrace(t)

Spec == Init /\ [][Next]_vars

\* A request that is not waiting for a lock goes on.
FairSpec == Spec /\ \A r \in Requests : WF_vars(Proceed(r))

-----------------------------------------------------------------------------
(* Properties.                                                             *)

\* The sessions that descend from one log-in are rotated, never multiplied:
\* at most one is live, with tabs that refresh at the same time, log-outs and
\* failures in between (the row lock of refresh()).
OneLivePerLogin == \A a, b \in Live : root[a] = root[b] => a = b

\* A log-out that succeeded leaves no live session of its log-in, and a
\* rotation under way cannot bring one back (logout() against refresh()).
LogoutEnds ==
  \A r \in Requests : At(r, "logout", "over") /\ req[r].ok =>
    /\ Token(r) \in blacklist
    /\ \A t \in Live : root[t] # root[Token(r)]

\* Two tabs that refresh with the same token within the grace time are not
\* taken for reuse: whoever sees the revoked row also finds the pair, as it
\* is cached before the commit.
TabsAreNotReuse ==
  \A r \in Requests : At(r, "refresh", "scan") => used[Token(r)] # "rotated"

\* and they get the same pair.
TabsGetSamePair ==
  \A r, s \in {q \in Requests : At(q, "refresh", "over") /\ req[q].ok} :
    Token(r) = Token(s) => Pair(r) = Pair(s)

\* Tabs that refresh at once are not taken for reuse, and get one pair.
TabsShareAPair == TabsAreNotReuse /\ TabsGetSamePair

\* Every request is answered: row locks are given back on every path and
\* reuse detection, which holds one while it waits for others, does not
\* deadlock with them.
RequestEnds ==
  \A r \in Requests : req[r].pc # "new" ~> req[r].pc = "over"

\* After logoutAll() and secureAccount() nothing of the sessions they ended
\* is accepted any more (answer of secureAccount(): "All active sessions were
\* terminated").
AllLoggedOut ==
  \A r \in Requests : At(r, "logoutAll", "over") /\ req[r].ok =>
    \A t \in req[r].scan : row[t] = "revoked" /\ ver[t] # Current

=============================================================================
