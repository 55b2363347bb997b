---------------------------- MODULE OAuthProvider ----------------------------
(***************************************************************************)
(* The OAuth 2.0 provider (oauth.service.ts and its two grant strategies):  *)
(* codes, tokens and revocations of one user and one client.                *)
(*                                                                         *)
(* The primary key of a token is its access token, a JWT without an id of   *)
(* its own: with the same scopes it is told from another only by the second *)
(* it was signed in, so it is represented by that second.  manager.save()   *)
(* looks for a row of the primary key it is given and updates it, or else   *)
(* inserts one.  The scopes asked for are always the same.                  *)
(***************************************************************************)
EXTENDS Naturals, FiniteSets

CONSTANTS Requests,   \* requests under way at a time
          MaxCodes,   \* bound: consents in all
          MaxTokens,  \* bound: refresh tokens in all
          MaxSecrets, \* bound: secrets of the client in all
          MaxSeconds, \* bound: seconds that matter
          None

VARIABLES client,    \* the row of the client: [secret, name], or None
          secrets,   \* secrets there have been
          code,      \* code -> "live", "expired", "gone", or None
          row,       \* second -> the refresh token of the row of its access token, or None
          second, refreshes,
          req,       \* request -> how far it is
          exchanged, \* code -> how often it got a token (history)
          answered,  \* refresh tokens a client got (history)
          ended      \* refresh tokens that were revoked or replaced (history)

tokens == <<row, refreshes, exchanged, answered, ended>>
vars == <<client, secrets, code, second, req, tokens>>

CodeId == 1..MaxCodes
Refresh == 1..MaxTokens
Second == 1..MaxSeconds
Free == [op |-> "none", pc |-> "idle", of |-> None, seen |-> {}, at |-> None, update |-> FALSE]

TypeOK ==
  /\ client \in {None} \cup [secret : 1..MaxSecrets, name : BOOLEAN]
  /\ secrets \in 1..MaxSecrets /\ code \in [CodeId -> {None, "live", "expired", "gone"}]
  /\ row \in [Second -> {None} \cup 1..refreshes] /\ second \in Second
  /\ \A s, t \in Second : row[s] # None /\ row[s] = row[t] => s = t
  /\ answered \cup ended \subseteq Refresh

Init ==
  /\ client = [secret |-> 1, name |-> TRUE] /\ secrets = 1
  /\ code = [c \in CodeId |-> None] /\ row = [s \in Second |-> None]
  /\ second = 1 /\ refreshes = 0 /\ req = [r \in Requests |-> Free]
  /\ exchanged = [c \in CodeId |-> 0] /\ answered = {} /\ ended = {}

Start(r, op, pc, of, seen) ==
  /\ req[r].pc = "idle"
  /\ req' = [req EXCEPT ![r].op = op, ![r].pc = pc, ![r].of = of, ![r].seen = seen]
End(r) == req' = [req EXCEPT ![r] = Free]

\* rows and codes that an open transaction has locked
HeldCodes == {req[r].of : r \in {q \in Requests : req[q].op = "code" /\ req[q].pc \in {"locked", "saved"}}}
HeldRows == UNION {req[r].seen : r \in {q \in Requests : req[q].op # "code" /\ req[q].pc \in {"locked", "saved"}}}
            \cup {req[r].at : r \in {q \in Requests : req[q].pc = "saved" /\ req[q].update}}

-----------------------------------------------------------------------------
(* The developer's console, and what else there is.                          *)

\* updateClient(), regenerateClientSecret(): the row is read, and saved whole
ReadClient(r, op) ==
  /\ client # None /\ req[r].pc = "idle" /\ (op = "secret" => secrets < MaxSecrets)
  /\ req' = [req EXCEPT ![r].op = op, ![r].pc = "read", ![r].of = client]
  /\ UNCHANGED <<client, secrets, code, second, tokens>>

\* a row that is gone is inserted again
SaveClient(r) ==
  /\ req[r].op \in {"update", "secret"} /\ End(r)
  /\ IF req[r].op = "update"
     THEN /\ client' = [req[r].of EXCEPT !.name = ~ @] /\ secrets' = secrets
     ELSE /\ secrets < MaxSecrets /\ secrets' = secrets + 1
          /\ client' = [req[r].of EXCEPT !.secret = secrets + 1]
  /\ UNCHANGED <<code, second, tokens>>

\* its tokens are left
DeleteClient ==
  /\ client # None /\ client' = None
  /\ UNCHANGED <<secrets, code, second, req, tokens>>

ApproveConsent(c) ==
  /\ client # None /\ code[c] = None /\ \A d \in CodeId : d < c => code[d] # None
  /\ code' = [code EXCEPT ![c] = "live"]
  /\ UNCHANGED <<client, secrets, second, req, tokens>>

Expire(c) ==
  /\ code[c] = "live" /\ code' = [code EXCEPT ![c] = "expired"]
  /\ UNCHANGED <<client, secrets, second, req, tokens>>

Tick == second < MaxSeconds /\ second' = second + 1 /\ UNCHANGED <<client, secrets, code, req, tokens>>

-----------------------------------------------------------------------------
(* exchangeToken(): the client is checked, then the strategy's transaction.  *)

\* the application sends the secret it has
CheckClient(r, op, of, secret) ==
  /\ client # None /\ client.secret = secret
  /\ Start(r, op, "checked", of, {})
  /\ UNCHANGED <<client, secrets, code, second, tokens>>

Exchange(r) ==
  /\ refreshes < MaxTokens
  /\ \E s \in 1..secrets :
       \/ \E c \in CodeId : code[c] # None /\ CheckClient(r, "code", c, s)
       \/ \E t \in answered : CheckClient(r, "refresh", t, s)

\* Mutant: the code is read without a lock.
ReadsCode(r) == code[req[r].of] = "live"

FindsCode(r) == req[r].of \notin HeldCodes /\ code[req[r].of] = "live"

\* SELECT ... FOR UPDATE waits for the row, and looks again
LockCode(r) ==
  /\ req[r].op = "code" /\ req[r].pc = "checked" /\ FindsCode(r)
  /\ req' = [req EXCEPT ![r].pc = "locked"]
  /\ UNCHANGED <<client, secrets, code, second, tokens>>

RowsOf(t) == {s \in Second : row[s] = t}

LockToken(r) ==
  /\ req[r].op = "refresh" /\ req[r].pc = "checked"
  /\ LET found == RowsOf(req[r].of) IN
     /\ found # {} /\ found \cap HeldRows = {}
     /\ req' = [req EXCEPT ![r].pc = "locked", ![r].seen = found]
  /\ UNCHANGED <<client, secrets, code, second, tokens>>

\* manager.save(): the row of the new access token, if there is one
Save(r) ==
  /\ req[r].op \in {"code", "refresh"} /\ req[r].pc = "locked"
  /\ row[second] # None => second \notin HeldRows \/ second \in req[r].seen
  /\ req' = [req EXCEPT ![r].pc = "saved", ![r].at = second, ![r].update = row[second] # None]
  /\ UNCHANGED <<client, secrets, code, second, tokens>>

\* The old row of a refresh token stays when the access token is another one.
Commit(r) ==
  LET q == req[r]
      conflict == ~ q.update /\ row[q.at] # None
      new == refreshes + 1
  IN /\ q.pc = "saved" /\ End(r)
     /\ \/ conflict /\ UNCHANGED <<code, tokens>>  \* duplicate key: rolled back
        \/ /\ ~ conflict /\ refreshes < MaxTokens
           /\ refreshes' = new /\ row' = [row EXCEPT ![q.at] = new]
           /\ answered' = answered \cup {new}
           /\ ended' = ended \cup ({row[q.at]} \ {None})
           /\ IF q.op = "code"
              THEN /\ code' = [code EXCEPT ![q.of] = "gone"]
                   /\ exchanged' = [exchanged EXCEPT ![q.of] = @ + 1]
              ELSE UNCHANGED <<code, exchanged>>
     /\ UNCHANGED <<client, secrets, second>>

\* nothing is found, or the process dies: the transaction is rolled back
Abort(r) ==
  /\ req[r].pc \in {"checked", "locked", "saved", "read"} /\ End(r)
  /\ UNCHANGED <<client, secrets, code, second, tokens>>

-----------------------------------------------------------------------------
(* revokeToken() of one token, revokeAuthorizedClient() of all of them.      *)

RevokeToken(r) ==
  /\ client # None /\ \E t \in answered : Start(r, "revokeOne", "selected", t, RowsOf(t))
  /\ UNCHANGED <<client, secrets, code, second, tokens>>

\* also of a client that is gone
RevokeAuthorizedClient(r) ==
  /\ Start(r, "revokeAll", "selected", None, {s \in Second : row[s] # None})
  /\ UNCHANGED <<client, secrets, code, second, tokens>>

\* rows that were found and still are what was looked for
Found(r) == {s \in req[r].seen : IF req[r].op = "revokeOne" THEN row[s] = req[r].of ELSE row[s] # None}

\* Mutant: only one of the rows is removed.
FindsOne(r) == IF Found(r) = {} THEN {} ELSE {CHOOSE s \in Found(r) : TRUE}

Removed(r) == Found(r)

\* the locks are waited for, then the rows are removed
Remove(r) ==
  /\ req[r].pc = "selected" /\ req[r].seen \cap HeldRows = {}
  /\ ended' = ended \cup {row[s] : s \in Found(r)}
  /\ row' = [s \in Second |-> IF s \in Removed(r) THEN None ELSE row[s]]
  /\ End(r)
  /\ UNCHANGED <<client, secrets, code, second, refreshes, exchanged, answered>>

-----------------------------------------------------------------------------
Next ==
  \/ Tick \/ DeleteClient
  \/ \E c \in CodeId : ApproveConsent(c) \/ Expire(c)
  \/ \E r \in Requests :
       \/ \E op \in {"update", "secret"} : ReadClient(r, op)
       \/ SaveClient(r) \/ Exchange(r) \/ LockCode(r) \/ LockToken(r) \/ Save(r) \/ Commit(r)
       \/ Abort(r) \/ RevokeToken(r) \/ RevokeAuthorizedClient(r) \/ Remove(r)

Spec == Init /\ [][Next]_vars

-----------------------------------------------------------------------------
\* A code gets one token, however many requests bring it at once
\* (AuthorizationCodeGrantStrategy locks its row and looks again).
CodesWorkOnce == \A c \in CodeId : exchanged[c] <= 1

\* A refresh token works until it is revoked, or another is signed in its second
\* (the row is looked up by an access token that two of them share); and not after.
TokensLast == \A t \in answered : (t \notin ended) = (RowsOf(t) # {})

=============================================================================
