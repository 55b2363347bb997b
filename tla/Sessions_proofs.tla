---------------------------- MODULE Sessions_proofs ----------------------------
(***************************************************************************)
(* Proofs about Sessions, for any number of pairs and requests: types, that*)
(* at most one session of a log-in is live, that a log-out ends the        *)
(* sessions of its log-in, and that tabs that refresh together get one     *)
(* pair.                                                                   *)
(***************************************************************************)
EXTENDS Sessions, TLAPS

\* A request past its call has its arguments, and one that signed has its pair.
Arguments ==
  \A r \in Requests :
    /\ req[r].op \in {"refresh", "logout"} => Token(r) \in Tokens
    /\ At(r, "login", "insert") => Pair(r) \in Tokens
    /\ req[r].op = "refresh" /\ req[r].pc \in {"cache", "commit"} => Pair(r) \in Tokens
    /\ req[r].pc \in {"update", "blacklist"} => req[r].op = "logout"
    /\ req[r].pc \in {"scan", "revoke", "bump"} => req[r].op \in {"refresh", "logoutAll"}

Stored == {t \in Tokens : row[t] \in {"live", "revoked"}}

\* Requests that hold a pair whose session is not committed.
Rotating == {r \in Requests : req[r].op = "refresh" /\ req[r].pc \in {"cache", "commit"}}
Signing  == {r \in Requests : At(r, "login", "insert")} \cup Rotating

\* A request inside the transaction of refresh() holds the lock of its row,
\* and until it commits its session is live: whoever would revoke it waits.
InTx(r) == req[r].op = "refresh" /\ req[r].pc \in Locked
HoldsRow ==
  \A r \in Requests : InTx(r) =>
    /\ Token(r) \in Tokens /\ lock[Token(r)] = r
    /\ req[r].pc \in {"generate", "cache", "commit"} => row[Token(r)] = "live"

\* A pair that is not committed belongs to one request.
OwnPair ==
  /\ \A r \in Signing : Pair(r) \in Tokens /\ row[Pair(r)] = "signed"
  /\ \A r \in Rotating : root[Pair(r)] = root[Token(r)]
  /\ \A r \in Requests : At(r, "login", "insert") => root[Pair(r)] = Pair(r)
  /\ \A r, s \in Signing : Pair(r) = Pair(s) => r = s

\* Only a session that was stored has descendants.
RootStored == \A t \in Stored : root[t] \in Stored

\* The rows that an UPDATE waits for are sessions.
Scanned == \A r \in Requests : req[r].pc = "revoke" => req[r].scan \subseteq Stored

\* A request that logged a session out left no live one of its log-in.
LoggedOut(r) == req[r].op = "logout" /\
  (req[r].pc = "blacklist" \/ (req[r].pc = "over" /\ req[r].ok))
Ended ==
  \A r \in Requests : LoggedOut(r) =>
    /\ Token(r) \in Stored
    /\ \A t \in Live : root[t] # root[Token(r)]
    /\ req[r].pc = "over" => Token(r) \in blacklist

IInv == TypeOK /\ Arguments /\ HoldsRow /\ OwnPair /\ RootStored /\ OneLivePerLogin /\ Ended
        /\ Scanned

\* The types of the variables are those of TypeOK without its locks.
Types ==
  /\ row \in [Tokens -> {"unused", "signed", "live", "revoked"}]
  /\ lock \in [Tokens -> Requests \cup {None}]
  /\ ver \in [Tokens -> Nat] /\ version \in Nat
  /\ grace \in [Tokens -> Tokens \cup {None}]
  /\ blacklist \subseteq Tokens /\ handed \subseteq Tokens
  /\ root \in [Tokens -> Tokens]
  /\ used \in [Tokens -> {"fresh", "rotated", "late"}]
  /\ req \in [Requests -> Request]

\* What a step changes in its request keeps the type of the request.
LEMMA GotoType ==
  ASSUME NEW r \in Requests, req \in [Requests -> Request], NEW pc \in Points, Goto(r, pc)
  PROVE  req' \in [Requests -> Request]
<1>1. [req[r] EXCEPT !.pc = pc] \in Request
      BY DEF Request
<1>2. req' = [req EXCEPT ![r] = [req[r] EXCEPT !.pc = pc]]
      BY DEF Goto
<1> QED BY <1>1, <1>2

LEMMA FinishType ==
  ASSUME NEW r \in Requests, req \in [Requests -> Request], NEW ok \in BOOLEAN, Finish(r, ok)
  PROVE  req' \in [Requests -> Request]
<1>1. [req[r] EXCEPT !.pc = "over", !.ok = ok] \in Request
      BY DEF Request, Points
<1>2. req' = [req EXCEPT ![r] = [req[r] EXCEPT !.pc = "over", !.ok = ok]]
      BY DEF Finish
<1> QED BY <1>1, <1>2

\* Every variable keeps its type, and locks belong to transactions (TypeOK).
THEOREM TypeInvariance == TypeOK /\ Arguments /\ [Next]_vars => TypeOK' /\ Arguments'
<1>1. SUFFICES ASSUME Types, LockHeld, Arguments, [Next]_vars
               PROVE  Types' /\ LockHeld' /\ Arguments'
      BY DEF TypeOK, Types
<1> USE SessionAssumption DEF Types, Ops, Points, At, Token, Pair
<1>2. ASSUME NEW r \in Requests, NEW n \in Tokens, Login(r, n)
      PROVE  Types' /\ LockHeld' /\ Arguments'
  <2>1. Types'
        BY <1>1, <1>2 DEF Request, Login, Sign, Current
  <2>2. LockHeld'
        BY <1>1, <1>2 DEF Request, LockHeld, Locked, Login, Sign, Current
  <2>3. Arguments'
        BY <1>1, <1>2 DEF Request, Arguments, Login, Sign, Current
  <2> QED BY <2>1, <2>2, <2>3
<1>3. ASSUME NEW r \in Requests, InsertSession(r)
      PROVE  Types' /\ LockHeld' /\ Arguments'
  <2>1. Types'
        BY <1>1, <1>3, FinishType DEF Arguments, InsertSession
  <2>2. LockHeld'
        BY <1>1, <1>3 DEF Request, LockHeld, Locked, InsertSession, Finish
  <2>3. Arguments'
        BY <1>1, <1>3 DEF Request, Arguments, InsertSession, Finish
  <2> QED BY <2>1, <2>2, <2>3
<1>4. ASSUME NEW r \in Requests, NEW t \in Tokens, Refresh(r, t)
      PROVE  Types' /\ LockHeld' /\ Arguments'
  <2>1. Types'
        BY <1>1, <1>4 DEF Request, Refresh, data
  <2>2. LockHeld'
        BY <1>1, <1>4 DEF Request, LockHeld, Locked, Refresh, data
  <2>3. Arguments'
        BY <1>1, <1>4 DEF Request, Arguments, Refresh, data
  <2> QED BY <2>1, <2>2, <2>3
<1>5. ASSUME NEW r \in Requests, LockRow(r)
      PROVE  Types' /\ LockHeld' /\ Arguments'
  <2>1. Types'
        BY <1>1, <1>5 DEF Arguments, Request, LockRow, Goto
  <2>2. LockHeld'
        BY <1>1, <1>5 DEF Request, LockHeld, Locked, LockRow, Goto
  <2>3. Arguments'
        BY <1>1, <1>5 DEF Request, Arguments, LockRow, Goto
  <2> QED BY <2>1, <2>2, <2>3
<1>6. ASSUME NEW r \in Requests, Refuse(r)
      PROVE  Types' /\ LockHeld' /\ Arguments'
  <2>1. Types'
        BY <1>1, <1>6, FinishType DEF Refuse, data
  <2>2. LockHeld'
        BY <1>1, <1>6 DEF Request, LockHeld, Locked, Refuse, Finish, data
  <2>3. Arguments'
        BY <1>1, <1>6 DEF Request, Arguments, Refuse, Finish, data
  <2> QED BY <2>1, <2>2, <2>3
<1>7. ASSUME NEW r \in Requests, ReadGrace(r)
      PROVE  Types' /\ LockHeld' /\ Arguments'
  <2>1. Types'
        BY <1>1, <1>7 DEF Arguments, Request, ReadGrace, AnswerFromGrace, Unlock, Goto
  <2>2. LockHeld'
    <3>1. CASE AnswerFromGrace(r, Token(r)) /\ Unlock(r)
          BY <1>1, <1>7, <3>1 DEF Request, LockHeld, Locked, AnswerFromGrace, Unlock
    <3>2. CASE Goto(r, "scan") /\ UNCHANGED lock
          BY <1>1, <1>7, <3>2 DEF Request, LockHeld, Locked, ReadGrace, Goto
    <3> QED BY <1>7, <3>1, <3>2 DEF ReadGrace
  <2>3. Arguments'
    <3>1. CASE grace[Token(r)] # None
          BY <1>1, <1>7, <3>1 DEF Request, Arguments, ReadGrace, AnswerFromGrace
    <3>2. CASE grace[Token(r)] = None
          BY <1>1, <1>7, <3>2 DEF Request, Arguments, ReadGrace, Goto
    <3> QED BY <3>1, <3>2
  <2> QED BY <2>1, <2>2, <2>3
<1>8. ASSUME NEW r \in Requests, NEW n \in Tokens, Generate(r, n)
      PROVE  Types' /\ LockHeld' /\ Arguments'
  <2>1. Types'
    <3>0. req[r] \in Request /\ "cache" \in Points
          BY <1>1 DEF Points
    <3>1. [req[r] EXCEPT !.pc = "cache", !.pair = n] \in Request
          BY <3>0 DEF Request
    <3>2. req' = [req EXCEPT ![r] = [req[r] EXCEPT !.pc = "cache", !.pair = n]]
          BY <1>8 DEF Generate
    <3> QED BY <1>1, <1>8, <3>1, <3>2 DEF Arguments, Generate, Sign, Current
  <2>2. LockHeld'
        BY <1>1, <1>8 DEF Request, LockHeld, Locked, Generate, Sign, Current
  <2>3. Arguments'
        BY <1>1, <1>8 DEF Request, Arguments, Generate, Sign, Current
  <2> QED BY <2>1, <2>2, <2>3
<1>9. ASSUME NEW r \in Requests, Cache(r)
      PROVE  Types' /\ LockHeld' /\ Arguments'
  <2>1. Types'
        BY <1>1, <1>9, GotoType DEF Arguments, Cache
  <2>2. LockHeld'
        BY <1>1, <1>9 DEF Request, LockHeld, Locked, Cache, Goto
  <2>3. Arguments'
        BY <1>1, <1>9 DEF Request, Arguments, Cache, Goto
  <2> QED BY <2>1, <2>2, <2>3
<1>10. ASSUME NEW r \in Requests, Commit(r)
      PROVE  Types' /\ LockHeld' /\ Arguments'
  <2>1. Types'
        BY <1>1, <1>10, FinishType DEF Arguments, Commit, Unlock
  <2>2. LockHeld'
        BY <1>1, <1>10 DEF Request, LockHeld, Locked, Commit, Unlock, Finish
  <2>3. Arguments'
        BY <1>1, <1>10 DEF Request, Arguments, Commit, Unlock, Finish
  <2> QED BY <2>1, <2>2, <2>3
<1>11. ASSUME NEW r \in Requests, Fail(r)
      PROVE  Types' /\ LockHeld' /\ Arguments'
  <2>1. Types'
        BY <1>1, <1>11, FinishType DEF Fail, Unlock
  <2>2. LockHeld'
        BY <1>1, <1>11 DEF Request, LockHeld, Locked, Fail, Unlock, Finish
  <2>3. Arguments'
        BY <1>1, <1>11 DEF Request, Arguments, Fail, Unlock, Finish
  <2> QED BY <2>1, <2>2, <2>3
<1>12. ASSUME NEW t \in Tokens, ExpireGrace(t)
      PROVE  Types' /\ LockHeld' /\ Arguments'
  <2>1. Types'
        BY <1>1, <1>12 DEF Request, ExpireGrace
  <2>2. LockHeld'
        BY <1>1, <1>12 DEF Request, LockHeld, Locked, ExpireGrace
  <2>3. Arguments'
        BY <1>1, <1>12 DEF Request, Arguments, ExpireGrace
  <2> QED BY <2>1, <2>2, <2>3
<1>13. ASSUME NEW r \in Requests, LogoutAll(r)
      PROVE  Types' /\ LockHeld' /\ Arguments'
  <2>1. Types'
        BY <1>1, <1>13 DEF Request, LogoutAll, data
  <2>2. LockHeld'
        BY <1>1, <1>13 DEF Request, LockHeld, Locked, LogoutAll, data
  <2>3. Arguments'
        BY <1>1, <1>13 DEF Request, Arguments, LogoutAll, data
  <2> QED BY <2>1, <2>2, <2>3
<1>14. ASSUME NEW r \in Requests, Scan(r)
      PROVE  Types' /\ LockHeld' /\ Arguments'
  <2>1. Types'
    <3>0. req[r] \in Request /\ "revoke" \in Points /\ Live \in SUBSET Tokens
          BY <1>1 DEF Points, Live
    <3>1. [req[r] EXCEPT !.pc = "revoke", !.scan = Live] \in Request
          BY <3>0 DEF Request
    <3>2. req' = [req EXCEPT ![r] = [req[r] EXCEPT !.pc = "revoke", !.scan = Live]]
          BY <1>14 DEF Scan
    <3> QED BY <1>1, <1>14, <3>1, <3>2 DEF Scan, data
  <2>2. LockHeld'
        BY <1>1, <1>14 DEF Request, LockHeld, Locked, Scan, Live, data
  <2>3. Arguments'
        BY <1>1, <1>14 DEF Request, Arguments, Scan, Live, data
  <2> QED BY <2>1, <2>2, <2>3
<1>15. ASSUME NEW r \in Requests, Revoke(r)
      PROVE  Types' /\ LockHeld' /\ Arguments'
  <2>1. Types'
        BY <1>1, <1>15, GotoType DEF Revoke
  <2>2. LockHeld'
        BY <1>1, <1>15 DEF Request, LockHeld, Locked, Revoke, Goto
  <2>3. Arguments'
        BY <1>1, <1>15 DEF Request, Arguments, Revoke, Goto
  <2> QED BY <2>1, <2>2, <2>3
<1>16. ASSUME NEW r \in Requests, Bump(r)
      PROVE  Types' /\ LockHeld' /\ Arguments'
  <2>1. Types'
    <3>1. req' \in [Requests -> Request]
          BY <1>1, <1>16, FinishType, (req[r].op = "logoutAll") \in BOOLEAN DEF Bump
    <3> QED BY <1>1, <1>16, <3>1 DEF Bump, Unlock
  <2>2. LockHeld'
        BY <1>1, <1>16 DEF Request, LockHeld, Locked, Bump, Unlock, Finish
  <2>3. Arguments'
        BY <1>1, <1>16 DEF Request, Arguments, Bump, Unlock, Finish
  <2> QED BY <2>1, <2>2, <2>3
<1>17. ASSUME NEW r \in Requests, NEW t \in Tokens, Logout(r, t)
      PROVE  Types' /\ LockHeld' /\ Arguments'
  <2>1. Types'
        BY <1>1, <1>17 DEF Request, Logout, data
  <2>2. LockHeld'
        BY <1>1, <1>17 DEF Request, LockHeld, Locked, Logout, data
  <2>3. Arguments'
        BY <1>1, <1>17 DEF Request, Arguments, Logout, data
  <2> QED BY <2>1, <2>2, <2>3
<1>18. ASSUME NEW r \in Requests, UpdateSession(r)
      PROVE  Types' /\ LockHeld' /\ Arguments'
  <2>1. Types'
        BY <1>1, <1>18, GotoType, FinishType DEF Arguments, UpdateSession
  <2>2. LockHeld'
        BY <1>1, <1>18 DEF Request, LockHeld, Locked, UpdateSession, Goto, Finish
  <2>3. Arguments'
        BY <1>1, <1>18 DEF Request, Arguments, UpdateSession, Goto, Finish
  <2> QED BY <2>1, <2>2, <2>3
<1>19. ASSUME NEW r \in Requests, Blacklist(r)
      PROVE  Types' /\ LockHeld' /\ Arguments'
  <2>1. Types'
        BY <1>1, <1>19, FinishType DEF Arguments, Blacklist
  <2>2. LockHeld'
    <3>1. \A q \in Requests : q # r => req'[q] = req[q]
          BY <1>1, <1>19 DEF Request, Blacklist, Finish
    <3>2. lock' = lock /\ req[r].pc = "blacklist"
          BY <1>19 DEF Blacklist
    <3> QED BY <1>1, <3>1, <3>2 DEF LockHeld, Locked
  <2>3. Arguments'
        BY <1>1, <1>19 DEF Request, Arguments, Blacklist, Finish
  <2> QED BY <2>1, <2>2, <2>3
<1>20. CASE UNCHANGED vars
      BY <1>1, <1>20 DEF vars, data, LockHeld, Arguments
<1> QED BY <1>1, <1>2, <1>3, <1>4, <1>5, <1>6, <1>7, <1>8, <1>9, <1>10, <1>11, <1>12, <1>13, <1>14, <1>15, <1>16, <1>17, <1>18, <1>19, <1>20 DEF Next, Call, Proceed, NoSession

\* A step of one request that signs nothing, and after which the request has no
\* pair to store, leaves the pairs of the others alone.
LEMMA OwnPairKept ==
  ASSUME OwnPair, NEW r \in Requests, \A q \in Requests : q # r => req'[q] = req[q],
         req'[r].op = "logout" \/ req'[r].pc \in {"lock", "over"}, row' = row, root' = root
  PROVE  OwnPair'
<1>1. \A q \in Requests : q \in Signing' \/ q \in Rotating' \/ At(q, "login", "insert")' => q # r
  BY DEF Signing, Rotating, At
<1>2. \A q \in Requests : q # r =>
        /\ (q \in Signing' <=> q \in Signing) /\ (q \in Rotating' <=> q \in Rotating)
        /\ (At(q, "login", "insert")' <=> At(q, "login", "insert"))
        /\ Pair(q)' = Pair(q) /\ Token(q)' = Token(q)
  BY DEF Signing, Rotating, At, Pair, Token
<1>3. Signing' \subseteq Requests /\ Rotating' \subseteq Requests
  BY DEF Signing, Rotating
<1> QED BY <1>1, <1>2, <1>3 DEF OwnPair

\* The strengthened invariant is inductive.
THEOREM Inductive == IInv /\ [Next]_vars => IInv'
<1>1. SUFFICES ASSUME IInv, [Next]_vars
               PROVE  IInv'
      OBVIOUS
<1>2. TypeOK' /\ Arguments'
      BY <1>1, TypeInvariance DEF IInv
<1> USE SessionAssumption DEF IInv, TypeOK, LockHeld, Arguments, Request, At, Token, Pair, InTx, HoldsRow, OwnPair,
        RootStored, OneLivePerLogin, Ended, Scanned, LoggedOut, Stored, Live, Signing, Rotating, Locked
<1>3. ASSUME NEW r \in Requests, NEW n \in Tokens, Login(r, n)
      PROVE  IInv'
  <2>1. HoldsRow'
        BY <1>1, <1>2, <1>3 DEF Login, Sign
  <2>2. OwnPair'
        BY <1>1, <1>2, <1>3 DEF Login, Sign
  <2>3. RootStored'
        BY <1>1, <1>2, <1>3 DEF Login, Sign
  <2>4. OneLivePerLogin'
        BY <1>1, <1>2, <1>3 DEF Login, Sign
  <2>5. Ended'
        BY <1>1, <1>2, <1>3 DEF Login, Sign
  <2>6. Scanned'
        BY <1>1, <1>2, <1>3 DEF Login, Sign
  <2> QED BY <1>2, <2>1, <2>2, <2>3, <2>4, <2>5, <2>6
<1>4. ASSUME NEW r \in Requests, InsertSession(r)
      PROVE  IInv'
  <2>1. HoldsRow'
        BY <1>1, <1>2, <1>4 DEF InsertSession, Finish
  <2>2. OwnPair'
        BY <1>1, <1>2, <1>4 DEF InsertSession, Finish
  <2>3. RootStored'
        BY <1>1, <1>2, <1>4 DEF InsertSession, Finish
  <2>4. OneLivePerLogin'
        BY <1>1, <1>2, <1>4 DEF InsertSession, Finish
  <2>5. Ended'
        BY <1>1, <1>2, <1>4 DEF InsertSession, Finish
  <2>6. Scanned'
        BY <1>1, <1>2, <1>4 DEF InsertSession, Finish
  <2> QED BY <1>2, <2>1, <2>2, <2>3, <2>4, <2>5, <2>6
<1>5. ASSUME NEW r \in Requests, NEW t \in Tokens, Refresh(r, t)
      PROVE  IInv'
  <2>1. HoldsRow'
        BY <1>1, <1>2, <1>5 DEF Refresh, data
  <2>2. OwnPair'
    <3>1. /\ \A q \in Requests : q # r => req'[q] = req[q]
          /\ req'[r].op = "refresh" /\ req'[r].pc = "lock" /\ row' = row /\ root' = root
          BY <1>1, <1>5 DEF Refresh, data
    <3> QED BY <1>1, <3>1, OwnPairKept
  <2>3. RootStored'
        BY <1>1, <1>2, <1>5 DEF Refresh, data
  <2>4. OneLivePerLogin'
        BY <1>1, <1>2, <1>5 DEF Refresh, data
  <2>5. Ended'
        BY <1>1, <1>2, <1>5 DEF Refresh, data
  <2>6. Scanned'
        BY <1>1, <1>2, <1>5 DEF Refresh, data
  <2> QED BY <1>2, <2>1, <2>2, <2>3, <2>4, <2>5, <2>6
<1>6. ASSUME NEW r \in Requests, LockRow(r)
      PROVE  IInv'
  <2>1. HoldsRow'
        BY <1>1, <1>2, <1>6 DEF LockRow, Goto
  <2>2. OwnPair'
        BY <1>1, <1>2, <1>6 DEF LockRow, Goto
  <2>3. RootStored'
        BY <1>1, <1>2, <1>6 DEF LockRow, Goto
  <2>4. OneLivePerLogin'
        BY <1>1, <1>2, <1>6 DEF LockRow, Goto
  <2>5. Ended'
        BY <1>1, <1>2, <1>6 DEF LockRow, Goto
  <2>6. Scanned'
        BY <1>1, <1>2, <1>6 DEF LockRow, Goto
  <2> QED BY <1>2, <2>1, <2>2, <2>3, <2>4, <2>5, <2>6
<1>7. ASSUME NEW r \in Requests, Refuse(r)
      PROVE  IInv'
  <2>1. HoldsRow'
        BY <1>1, <1>2, <1>7 DEF Refuse, Finish, data
  <2>2. OwnPair'
        BY <1>1, <1>2, <1>7 DEF Refuse, Finish, data
  <2>3. RootStored'
        BY <1>1, <1>2, <1>7 DEF Refuse, Finish, data
  <2>4. OneLivePerLogin'
        BY <1>1, <1>2, <1>7 DEF Refuse, Finish, data
  <2>5. Ended'
        BY <1>1, <1>2, <1>7 DEF Refuse, Finish, data
  <2>6. Scanned'
        BY <1>1, <1>2, <1>7 DEF Refuse, Finish, data
  <2> QED BY <1>2, <2>1, <2>2, <2>3, <2>4, <2>5, <2>6
<1>8. ASSUME NEW r \in Requests, ReadGrace(r)
      PROVE  IInv'
  <2>1. HoldsRow'
        BY <1>1, <1>2, <1>8 DEF ReadGrace, AnswerFromGrace, Unlock, Goto
  <2>2. OwnPair'
    <3>1. Signing' = Signing /\ Rotating' = Rotating /\ r \notin Signing
          BY <1>1, <1>8 DEF ReadGrace, AnswerFromGrace, Unlock, Goto
    <3>2. \A q \in Requests : q # r => req'[q] = req[q]
          BY <1>1, <1>8 DEF ReadGrace, AnswerFromGrace, Unlock, Goto
    <3>3. root' = root /\ \A t \in Tokens : row[t] = "signed" => row'[t] = "signed"
          BY <1>1, <1>8 DEF ReadGrace, AnswerFromGrace, Unlock, Goto
    <3> QED BY <1>1, <3>1, <3>2, <3>3
  <2>3. RootStored'
        BY <1>1, <1>2, <1>8 DEF ReadGrace, AnswerFromGrace, Unlock, Goto
  <2>4. OneLivePerLogin'
        BY <1>1, <1>2, <1>8 DEF ReadGrace, AnswerFromGrace, Unlock, Goto
  <2>5. Ended'
        BY <1>1, <1>2, <1>8 DEF ReadGrace, AnswerFromGrace, Unlock, Goto
  <2>6. Scanned'
        BY <1>1, <1>2, <1>8 DEF ReadGrace, AnswerFromGrace, Unlock, Goto
  <2> QED BY <1>2, <2>1, <2>2, <2>3, <2>4, <2>5, <2>6
<1>9. ASSUME NEW r \in Requests, NEW n \in Tokens, Generate(r, n)
      PROVE  IInv'
  <2>1. HoldsRow'
        BY <1>1, <1>2, <1>9 DEF Generate, Sign
  <2>2. OwnPair'
        BY <1>1, <1>2, <1>9 DEF Generate, Sign
  <2>3. RootStored'
        BY <1>1, <1>2, <1>9 DEF Generate, Sign
  <2>4. OneLivePerLogin'
        BY <1>1, <1>2, <1>9 DEF Generate, Sign
  <2>5. Ended'
        BY <1>1, <1>2, <1>9 DEF Generate, Sign
  <2>6. Scanned'
        BY <1>1, <1>2, <1>9 DEF Generate, Sign
  <2> QED BY <1>2, <2>1, <2>2, <2>3, <2>4, <2>5, <2>6
<1>10. ASSUME NEW r \in Requests, Cache(r)
      PROVE  IInv'
  <2>1. HoldsRow'
        BY <1>1, <1>2, <1>10 DEF Cache, Goto
  <2>2. OwnPair'
        BY <1>1, <1>2, <1>10 DEF Cache, Goto
  <2>3. RootStored'
        BY <1>1, <1>2, <1>10 DEF Cache, Goto
  <2>4. OneLivePerLogin'
        BY <1>1, <1>2, <1>10 DEF Cache, Goto
  <2>5. Ended'
        BY <1>1, <1>2, <1>10 DEF Cache, Goto
  <2>6. Scanned'
        BY <1>1, <1>2, <1>10 DEF Cache, Goto
  <2> QED BY <1>2, <2>1, <2>2, <2>3, <2>4, <2>5, <2>6
<1>11. ASSUME NEW r \in Requests, Commit(r)
      PROVE  IInv'
  <2>1. HoldsRow'
        BY <1>1, <1>2, <1>11 DEF Commit, Unlock, Finish
  <2>2. OwnPair'
        BY <1>1, <1>2, <1>11 DEF Commit, Unlock, Finish
  <2>3. /\ Stored' = Stored \cup {Pair(r)} /\ root' = root
        /\ Token(r) \in Stored /\ root[Pair(r)] = root[Token(r)]
        BY <1>1, <1>2, <1>11 DEF Commit
  <2>4. RootStored'
        BY <1>1, <2>3 DEF RootStored
  <2>5. OneLivePerLogin'
        BY <1>1, <1>2, <1>11 DEF Commit, Unlock, Finish
  <2>6. Ended'
        BY <1>1, <1>2, <1>11 DEF Commit, Unlock, Finish
  <2>7. Scanned'
    <3>1. \A q \in Requests : q # r => req'[q] = req[q]
          BY <1>1, <1>11 DEF Commit, Finish
    <3>2. req'[r].pc = "over"
          BY <1>1, <1>11 DEF Commit, Finish
    <3> QED BY <1>1, <2>3, <3>1, <3>2 DEF Scanned
  <2> QED BY <1>2, <2>1, <2>2, <2>3, <2>4, <2>5, <2>6, <2>7
<1>12. ASSUME NEW r \in Requests, Fail(r)
      PROVE  IInv'
  <2>1. HoldsRow'
        BY <1>1, <1>2, <1>12 DEF Fail, Unlock, Finish
  <2>2. OwnPair'
        BY <1>1, <1>2, <1>12 DEF Fail, Unlock, Finish
  <2>3. RootStored'
        BY <1>1, <1>2, <1>12 DEF Fail, Unlock, Finish
  <2>4. OneLivePerLogin'
        BY <1>1, <1>2, <1>12 DEF Fail, Unlock, Finish
  <2>5. Ended'
        BY <1>1, <1>2, <1>12 DEF Fail, Unlock, Finish
  <2>6. Scanned'
        BY <1>1, <1>2, <1>12 DEF Fail, Unlock, Finish
  <2> QED BY <1>2, <2>1, <2>2, <2>3, <2>4, <2>5, <2>6
<1>13. ASSUME NEW t \in Tokens, ExpireGrace(t)
      PROVE  IInv'
  <2>1. HoldsRow'
        BY <1>1, <1>2, <1>13 DEF ExpireGrace
  <2>2. OwnPair'
        BY <1>1, <1>2, <1>13 DEF ExpireGrace
  <2>3. RootStored'
        BY <1>1, <1>2, <1>13 DEF ExpireGrace
  <2>4. OneLivePerLogin'
        BY <1>1, <1>2, <1>13 DEF ExpireGrace
  <2>5. Ended'
        BY <1>1, <1>2, <1>13 DEF ExpireGrace
  <2>6. Scanned'
        BY <1>1, <1>2, <1>13 DEF ExpireGrace
  <2> QED BY <1>2, <2>1, <2>2, <2>3, <2>4, <2>5, <2>6
<1>14. ASSUME NEW r \in Requests, LogoutAll(r)
      PROVE  IInv'
  <2>1. HoldsRow'
        BY <1>1, <1>2, <1>14 DEF LogoutAll, data
  <2>2. OwnPair'
        BY <1>1, <1>2, <1>14 DEF LogoutAll, data
  <2>3. RootStored'
        BY <1>1, <1>2, <1>14 DEF LogoutAll, data
  <2>4. OneLivePerLogin'
        BY <1>1, <1>2, <1>14 DEF LogoutAll, data
  <2>5. Ended'
        BY <1>1, <1>2, <1>14 DEF LogoutAll, data
  <2>6. Scanned'
        BY <1>1, <1>2, <1>14 DEF LogoutAll, data
  <2> QED BY <1>2, <2>1, <2>2, <2>3, <2>4, <2>5, <2>6
<1>15. ASSUME NEW r \in Requests, Scan(r)
      PROVE  IInv'
  <2>1. /\ UNCHANGED data
        /\ \A q \in Requests : q # r => req'[q] = req[q]
        /\ req'[r].op = req[r].op /\ req'[r].token = req[r].token
        /\ req[r].pc = "scan" /\ req'[r].pc = "revoke"
        BY <1>1, <1>15 DEF Scan
  <2>2. Signing' = Signing /\ Rotating' = Rotating
        BY <2>1
  <2>3. HoldsRow'
        BY <1>1, <2>1 DEF data
  <2>4. OwnPair'
        BY <1>1, <2>1, <2>2 DEF data
  <2>5. RootStored' /\ OneLivePerLogin'
        BY <1>1, <2>1 DEF data
  <2>6. Ended'
        BY <1>1, <2>1 DEF data
  <2>7. Scanned'
    <3>1. req'[r].scan = Live /\ Live \subseteq Stored
          BY <1>1, <1>15 DEF Scan
    <3> QED BY <1>1, <2>1, <3>1 DEF data
  <2> QED BY <1>2, <2>3, <2>4, <2>5, <2>6, <2>7
<1>16. ASSUME NEW r \in Requests, Revoke(r)
      PROVE  IInv'
  <2>1. HoldsRow'
        BY <1>1, <1>2, <1>16 DEF Revoke, Goto
  <2>2. OwnPair'
    <3>1. Signing' = Signing /\ Rotating' = Rotating /\ r \notin Signing
          BY <1>1, <1>16 DEF Revoke, Goto
    <3>2. \A q \in Requests : q # r => req'[q] = req[q]
          BY <1>1, <1>16 DEF Revoke, Goto
    <3>3. root' = root /\ \A t \in Tokens : row[t] = "signed" => row'[t] = "signed"
          BY <1>1, <1>16 DEF Revoke, Goto
    <3> QED BY <1>1, <3>1, <3>2, <3>3
  <2>3. RootStored'
        BY <1>1, <1>2, <1>16 DEF Revoke, Goto
  <2>4. OneLivePerLogin'
        BY <1>1, <1>2, <1>16 DEF Revoke, Goto
  <2>5. Ended'
        BY <1>1, <1>2, <1>16 DEF Revoke, Goto
  <2>6. Scanned'
        BY <1>1, <1>2, <1>16 DEF Revoke, Goto
  <2> QED BY <1>2, <2>1, <2>2, <2>3, <2>4, <2>5, <2>6
<1>17. ASSUME NEW r \in Requests, Bump(r)
      PROVE  IInv'
  <2>1. HoldsRow'
        BY <1>1, <1>2, <1>17 DEF Bump, Unlock, Finish
  <2>2. OwnPair'
        BY <1>1, <1>2, <1>17 DEF Bump, Unlock, Finish
  <2>3. RootStored'
        BY <1>1, <1>2, <1>17 DEF Bump, Unlock, Finish
  <2>4. OneLivePerLogin'
        BY <1>1, <1>2, <1>17 DEF Bump, Unlock, Finish
  <2>5. Ended'
        BY <1>1, <1>2, <1>17 DEF Bump, Unlock, Finish
  <2>6. Scanned'
        BY <1>1, <1>2, <1>17 DEF Bump, Unlock, Finish
  <2> QED BY <1>2, <2>1, <2>2, <2>3, <2>4, <2>5, <2>6
<1>18. ASSUME NEW r \in Requests, NEW t \in Tokens, Logout(r, t)
      PROVE  IInv'
  <2>1. HoldsRow'
        BY <1>1, <1>2, <1>18 DEF Logout, data
  <2>2. OwnPair'
    <3>1. /\ \A q \in Requests : q # r => req'[q] = req[q]
          /\ req'[r].op = "logout" /\ row' = row /\ root' = root
          BY <1>1, <1>18 DEF Logout, data
    <3> QED BY <1>1, <3>1, OwnPairKept
  <2>3. RootStored'
        BY <1>1, <1>2, <1>18 DEF Logout, data
  <2>4. OneLivePerLogin'
        BY <1>1, <1>2, <1>18 DEF Logout, data
  <2>5. Ended'
        BY <1>1, <1>2, <1>18 DEF Logout, data
  <2>6. Scanned'
        BY <1>1, <1>2, <1>18 DEF Logout, data
  <2> QED BY <1>2, <2>1, <2>2, <2>3, <2>4, <2>5, <2>6
<1>19. ASSUME NEW r \in Requests, UpdateSession(r)
      PROVE  IInv'
  <2>1. /\ \A q \in Requests : q # r => req'[q] = req[q]
        /\ req[r].op = "logout" /\ req[r].pc = "update"
        /\ Token(r) \in Tokens /\ lock[Token(r)] = None /\ lock' = lock /\ root' = root
        /\ blacklist' = blacklist
        BY <1>1, <1>19 DEF UpdateSession, Goto, Finish
  <2>2. /\ req'[r].op = "logout" /\ req'[r].token = req[r].token
        /\ req'[r].pc \in {"blacklist", "over"}
    <3>1. CASE Goto(r, "blacklist")
          BY <1>1, <2>1, <3>1 DEF Goto
    <3>2. CASE Finish(r, FALSE)
          BY <1>1, <2>1, <3>2 DEF Finish
    <3> QED BY <1>19, <3>1, <3>2 DEF UpdateSession
  <2>3. \/ /\ row[Token(r)] = "live" /\ req'[r].pc = "blacklist"
           /\ row' = [row EXCEPT ![Token(r)] = "revoked"]
        \/ row' = row /\ req'[r].pc = "over" /\ ~req'[r].ok
        BY <1>1, <1>19 DEF UpdateSession, Goto, Finish
  <2>4. \A t \in Tokens : /\ t # Token(r) => row'[t] = row[t]
                          /\ row[t] = "signed" => row'[t] = "signed"
        BY <1>1, <2>1, <2>3
  <2>5. Stored' = Stored /\ Live' \subseteq Live
        BY <1>1, <2>1, <2>3
  <2>6. HoldsRow'
        BY <1>1, <2>1, <2>2, <2>4
  <2>7. OwnPair'
    <3>1. Signing' = Signing /\ Rotating' = Rotating /\ r \notin Signing
          BY <2>1, <2>2
    <3>2. \A q \in Signing : Pair(q)' = Pair(q) /\ Token(q)' = Token(q) /\ row'[Pair(q)] = "signed"
          BY <1>1, <2>1, <2>4, <3>1
    <3>3. \A q \in Requests : At(q, "login", "insert")' => At(q, "login", "insert") /\ Pair(q)' = Pair(q)
          BY <1>1, <2>1, <2>2
    <3>4. \A q \in Requests : At(q, "login", "insert")' => root'[Pair(q)'] = Pair(q)'
          BY <1>1, <2>1, <3>3
    <3> QED BY <1>1, <2>1, <3>1, <3>2, <3>4
  <2>8. RootStored' /\ OneLivePerLogin'
        BY <1>1, <2>1, <2>5 DEF RootStored, OneLivePerLogin
  <2>9. Ended'
    <3>1. ASSUME NEW q \in Requests, q # r, LoggedOut(q)'
          PROVE  LoggedOut(q) /\ Token(q)' = Token(q) /\ req'[q] = req[q]
          BY <2>1, <3>1
    <3>2. ASSUME LoggedOut(r)'
          PROVE  /\ row[Token(r)] = "live" /\ row'[Token(r)] = "revoked" /\ req'[r].pc = "blacklist"
                 /\ Token(r)' = Token(r)
          BY <1>1, <2>1, <2>2, <2>3, <3>2
    <3>3. LoggedOut(r)' => /\ Token(r)' \in Stored' /\ req'[r].pc # "over"
                           /\ \A t \in Live' : root'[t] # root'[Token(r)']
          BY <1>1, <2>1, <2>5, <3>2 DEF OneLivePerLogin
    <3> QED BY <1>1, <2>1, <2>5, <3>1, <3>3
  <2>10. Scanned'
        BY <1>1, <2>1, <2>2, <2>5
  <2> QED BY <1>2, <2>6, <2>7, <2>8, <2>9, <2>10
<1>20. ASSUME NEW r \in Requests, Blacklist(r)
      PROVE  IInv'
  <2>1. /\ \A q \in Requests : q # r => req'[q] = req[q]
        /\ req[r].op = "logout" /\ req[r].pc = "blacklist"
        /\ Token(r) \in Tokens /\ lock' = lock /\ root' = root /\ row' = row
        BY <1>1, <1>20 DEF Blacklist, Finish
  <2>2. req'[r].op = "logout" /\ req'[r].token = req[r].token /\ req'[r].pc = "over"
        BY <1>1, <1>20, <2>1 DEF Blacklist, Finish
  <2>3. HoldsRow'
        BY <1>1, <2>1, <2>2
  <2>4. OwnPair'
    <3>1. \A q \in Requests : q # r => req'[q] = req[q]
          BY <2>1
    <3> QED BY <1>1, <2>1, <2>2, <3>1, OwnPairKept
  <2>5. RootStored' /\ OneLivePerLogin'
        BY <1>1, <2>1
  <2>6. Ended'
        BY <1>1, <1>2, <1>20 DEF Blacklist, Finish
  <2>7. Scanned'
        BY <1>1, <2>1, <2>2
  <2> QED BY <1>2, <2>3, <2>4, <2>5, <2>6, <2>7
<1>21. CASE UNCHANGED vars
      BY <1>1, <1>2, <1>21 DEF vars, data
<1> QED BY <1>1, <1>3, <1>4, <1>5, <1>6, <1>7, <1>8, <1>9, <1>10, <1>11, <1>12, <1>13, <1>14, <1>15, <1>16, <1>17, <1>18, <1>19, <1>20, <1>21 DEF Next, Call, Proceed, NoSession

\* The initial state satisfies the invariant.
THEOREM Initial == Init => IInv
BY SessionAssumption DEF Init, IInv, TypeOK, LockHeld, Arguments, Request, Ops, Points, At, Token, Pair,
   InTx, HoldsRow, OwnPair, RootStored, OneLivePerLogin, Ended, Scanned, LoggedOut, Stored,
   Live, Signing, Rotating, Locked

\* and so it always holds.
THEOREM Invariance == Spec => []IInv
BY Initial, Inductive, PTL DEF Spec

\* Every variable keeps its type, and a row lock belongs to a transaction of
\* refresh() on that row (the lock of findOne() in refresh()).
THEOREM TypeCorrect == Spec => []TypeOK
<1>1. IInv => TypeOK
      BY DEF IInv
<1> QED BY <1>1, Invariance, PTL

\* However many tabs refresh, log in and log out at the same time, at most one
\* of the sessions that descend from a log-in is live (refresh() revokes the
\* old session and inserts the new one under the lock of the old one).
THEOREM OneLive == Spec => []OneLivePerLogin
<1>1. IInv => OneLivePerLogin
      BY DEF IInv
<1> QED BY <1>1, Invariance, PTL

\* After a log-out that succeeded no session of its log-in is live and its
\* access token is on the blacklist, whatever rotations ran beside logout().
THEOREM LogoutIsFinal == Spec => []LogoutEnds
<1>1. IInv => LogoutEnds
      BY DEF IInv, Ended, LoggedOut, LogoutEnds, At
<1> QED BY <1>1, Invariance, PTL

-----------------------------------------------------------------------------
(* Tabs that refresh at the same time.                                     *)

\* Requests that were answered with a pair, and those that take their token for
\* stolen.
Answered(r) == At(r, "refresh", "over") /\ req[r].ok
Reusing(r)  == req[r].op = "refresh" /\ req[r].pc \in {"scan", "revoke", "bump"}

\* A token that was rotated has its new pair in Redis until the grace is over.
GraceKept == \A t \in Tokens : used[t] = "rotated" => grace[t] # None /\ row[t] = "revoked"
\* The pair is there before the transaction that stores it commits.
CachedFirst == \A r \in Requests : At(r, "refresh", "commit") => grace[Token(r)] = Pair(r)
\* Who looks for the pair, or did not find it, has seen a revoked row.
SeenRevoked ==
  \A r \in Requests :
    /\ At(r, "refresh", "grace") => row[Token(r)] = "revoked"
    /\ Reusing(r) => row[Token(r)] = "revoked" /\ used[Token(r)] # "rotated"
\* What was answered is what is still to be answered.
SameAnswer ==
  \A r \in Requests : Answered(r) =>
    /\ Token(r) \in Tokens /\ row[Token(r)] = "revoked"
    /\ grace[Token(r)] \in {None, Pair(r)}

TabsInv == GraceKept /\ CachedFirst /\ SeenRevoked /\ SameAnswer /\ TabsGetSamePair

\* A revoked session stays revoked.
StayRevoked == \A t \in Tokens : row[t] = "revoked" => row'[t] = "revoked"

\* A step that neither looks at the grace of a token nor changes it.
Elsewhere ==
  /\ StayRevoked /\ UNCHANGED <<grace, used>>
  /\ \A r \in Requests :
       \/ Answered(r)' \/ At(r, "refresh", "commit")' \/ At(r, "refresh", "grace")' \/ Reusing(r)'
       => /\ Token(r)' = Token(r) /\ Pair(r)' = Pair(r)
          /\ Answered(r)' => Answered(r)
          /\ At(r, "refresh", "commit")' => At(r, "refresh", "commit")
          /\ At(r, "refresh", "grace")' => At(r, "refresh", "grace")
          /\ Reusing(r)' => Reusing(r)

LEMMA ElsewhereTabs ==
  ASSUME IInv, TabsInv, Elsewhere
  PROVE  TabsInv'
<1>1. GraceKept' BY DEF TabsInv, GraceKept, Elsewhere, StayRevoked
<1>2. CachedFirst' BY DEF TabsInv, CachedFirst, Elsewhere
<1>3. \A r \in Requests : req[r].op = "refresh" => Token(r) \in Tokens
  BY DEF IInv, Arguments
<1>4. SeenRevoked'
  BY <1>3 DEF TabsInv, SeenRevoked, Elsewhere, StayRevoked, At, Reusing
<1>5. SameAnswer' BY DEF TabsInv, SameAnswer, Elsewhere, StayRevoked
<1>6. TabsGetSamePair'
  BY DEF TabsInv, TabsGetSamePair, Elsewhere, Answered
<1> QED BY <1>1, <1>2, <1>4, <1>5, <1>6 DEF TabsInv

\* What a request does to itself, as far as the invariant tells it apart.
Calm(r) ==
  \/ req'[r].op # "refresh"
  \/ /\ req'[r].pc \in {"lock", "generate", "cache"}
  \/ req'[r].pc = "over" /\ ~req'[r].ok
  \/ req[r].op = "refresh" /\ req[r].pc \in {"scan", "revoke", "bump"}
     /\ req'[r].pc \in {"scan", "revoke", "bump"} /\ req'[r].token = req[r].token
     /\ req'[r].pair = req[r].pair

LEMMA CalmElsewhere ==
  ASSUME NEW r \in Requests, \A q \in Requests : q # r => req'[q] = req[q],
         UNCHANGED <<grace, used>>, StayRevoked, Calm(r)
  PROVE  Elsewhere
BY DEF Elsewhere, Calm, At, Answered, Reusing, Token, Pair

LEMMA ElsewhereSteps ==
  ASSUME IInv, NEW r \in Requests,
         \/ Call(r) \/ Refuse(r) \/ Fail(r)
         \/ InsertSession(r) \/ (\E n \in Tokens : Generate(r, n))
         \/ Scan(r) \/ Revoke(r) \/ Bump(r) \/ UpdateSession(r) \/ Blacklist(r)
  PROVE  Elsewhere
<1> USE DEF data, At, Token, Pair
<1>t. Types /\ Arguments BY DEF IInv, TypeOK, Types
<1>1. \A q \in Requests : q # r => req'[q] = req[q]
  BY <1>t DEF Call, Login, Refresh, Logout, LogoutAll, Refuse, Fail, InsertSession, Generate,
     Scan, Revoke, Bump, UpdateSession, Blacklist, Finish, Goto, Types
<1>2. UNCHANGED <<grace, used>>
  BY DEF Call, Login, Refresh, Logout, LogoutAll, Refuse, Fail, InsertSession, Generate,
     Scan, Revoke, Bump, UpdateSession, Blacklist
<1>3. StayRevoked
  <2>1. CASE \E n \in Tokens, of \in Tokens : Sign(n, of)
    BY <1>t, <2>1 DEF Sign, StayRevoked, Types
  <2>2. CASE InsertSession(r)
    BY <1>t, <2>2 DEF InsertSession, StayRevoked, Types, IInv, OwnPair, Signing
  <2>3. CASE UpdateSession(r)
    BY <1>t, <2>3 DEF UpdateSession, StayRevoked, Types
  <2>4. CASE Revoke(r) BY <1>t, <2>4 DEF Revoke, StayRevoked, Types
  <2>5. CASE UNCHANGED row BY <2>5 DEF StayRevoked
  <2>6. CASE \E n \in Tokens : Generate(r, n)
    BY <1>t, <2>1, <2>6 DEF Generate, Types, Arguments
  <2> QED BY <2>1, <2>2, <2>3, <2>4, <2>5, <2>6
          DEF Call, Login, Refresh, Logout, LogoutAll, Refuse, Fail, Scan, Bump, Blacklist
<1>4. Calm(r)
  <2> USE <1>t DEF Calm, Types, Request, Finish, Goto
  <2>1. CASE Call(r) BY <2>1 DEF Call, Login, Refresh, Logout, LogoutAll
  <2>2. CASE Refuse(r) BY <2>2 DEF Refuse
  <2>3. CASE Fail(r) BY <2>3 DEF Fail
  <2>4. CASE InsertSession(r) BY <2>4 DEF InsertSession
  <2>5. CASE \E n \in Tokens : Generate(r, n)
    <3>1. req'[r].pc = "cache" BY <2>5 DEF Generate
    <3> QED BY <3>1
  <2>6. CASE Scan(r) BY <2>6 DEF Scan, Arguments
  <2>7. CASE Revoke(r) BY <2>7 DEF Revoke
  <2>8. CASE Bump(r) BY <2>8 DEF Bump, Arguments
  <2>9. CASE UpdateSession(r) \/ Blacklist(r) BY <2>9 DEF UpdateSession, Blacklist, Arguments
  <2> QED BY <2>1, <2>2, <2>3, <2>4, <2>5, <2>6, <2>7, <2>8, <2>9
<1> QED BY <1>1, <1>2, <1>3, <1>4, CalmElsewhere

LEMMA LockRowTabs ==
  ASSUME IInv, TabsInv, NEW r \in Requests, LockRow(r)
  PROVE  TabsInv'
<1> USE DEF At, Token, Pair
<1>t. Types BY DEF IInv, TypeOK, Types
<1>0. /\ UNCHANGED <<row, grace, used>> /\ req[r].op = "refresh"
      /\ \A q \in Requests : q # r => req'[q] = req[q]
      /\ req'[r].op = "refresh" /\ req'[r].token = req[r].token
      /\ \/ req'[r].pc = "generate"
         \/ req'[r].pc = "grace" /\ row[Token(r)] = "revoked"
  BY <1>t DEF LockRow, Goto, Types, Request
<1>1. GraceKept' BY <1>0 DEF TabsInv, GraceKept
<1>2. CachedFirst' BY <1>0 DEF TabsInv, CachedFirst
<1>3. SeenRevoked' BY <1>0 DEF TabsInv, SeenRevoked, Reusing
<1>4. SameAnswer' BY <1>0 DEF TabsInv, SameAnswer, Answered
<1>5. TabsGetSamePair' BY <1>0 DEF TabsInv, TabsGetSamePair
<1> QED BY <1>1, <1>2, <1>3, <1>4, <1>5 DEF TabsInv

LEMMA ReadGraceTabs ==
  ASSUME IInv, TabsInv, NEW r \in Requests, ReadGrace(r)
  PROVE  TabsInv'
<1> USE DEF At, Token, Pair
<1>t. Types BY DEF IInv, TypeOK, Types
<1>0. /\ UNCHANGED <<row, grace, used>> /\ req[r].op = "refresh"
      /\ \A q \in Requests : q # r => req'[q] = req[q]
      /\ req'[r].op = "refresh" /\ req'[r].token = req[r].token
      /\ Token(r) \in Tokens /\ row[Token(r)] = "revoked"
      /\ \/ req'[r].pc = "over" /\ grace[Token(r)] # None /\ req'[r].pair = grace[Token(r)]
         \/ req'[r].pc = "scan" /\ grace[Token(r)] = None
  BY <1>t DEF ReadGrace, AnswerFromGrace, Goto, Types, Request, IInv, Arguments, TabsInv,
     SeenRevoked
<1>1. GraceKept' BY <1>0 DEF TabsInv, GraceKept
<1>2. CachedFirst' BY <1>0 DEF TabsInv, CachedFirst
<1>3. SeenRevoked' BY <1>0 DEF TabsInv, SeenRevoked, Reusing, GraceKept
<1>4. SameAnswer' BY <1>0 DEF TabsInv, SameAnswer, Answered
<1>5. \A q \in Requests : Answered(q) /\ Token(q) = Token(r) => grace[Token(r)] \in {None, Pair(q)}
  BY DEF TabsInv, SameAnswer
<1>6. TabsGetSamePair' BY <1>0, <1>5 DEF TabsInv, TabsGetSamePair, Answered
<1> QED BY <1>1, <1>2, <1>3, <1>4, <1>6 DEF TabsInv

LEMMA CacheTabs ==
  ASSUME IInv, TabsInv, NEW r \in Requests, Cache(r)
  PROVE  TabsInv'
<1> USE DEF At, Token, Pair
<1>t. Types BY DEF IInv, TypeOK, Types
<1>0. /\ UNCHANGED <<row, used>> /\ req[r].op = "refresh" /\ Token(r) \in Tokens
      /\ row[Token(r)] = "live" /\ lock[Token(r)] = r /\ Pair(r) \in Tokens
      /\ \A q \in Requests : q # r => req'[q] = req[q]
      /\ req'[r].op = "refresh" /\ req'[r].token = req[r].token /\ req'[r].pc = "commit"
      /\ req'[r].pair = req[r].pair
      /\ grace'[Token(r)] = Pair(r) /\ \A t \in Tokens : t # Token(r) => grace'[t] = grace[t]
  BY <1>t DEF Cache, Goto, Types, Request, IInv, Arguments, HoldsRow, InTx, Locked
<1>1. GraceKept' BY <1>0, SessionAssumption DEF TabsInv, GraceKept
<1>2. \A q \in Requests : q # r /\ At(q, "refresh", "commit") => Token(q) \in Tokens \ {Token(r)}
  BY <1>0 DEF IInv, HoldsRow, InTx, Locked
<1>3. CachedFirst' BY <1>0, <1>2 DEF TabsInv, CachedFirst
<1>4. SeenRevoked' BY <1>0 DEF TabsInv, SeenRevoked, Reusing
<1>5. SameAnswer' BY <1>0 DEF TabsInv, SameAnswer, Answered
<1>6. TabsGetSamePair' BY <1>0 DEF TabsInv, TabsGetSamePair
<1> QED BY <1>1, <1>3, <1>4, <1>5, <1>6 DEF TabsInv

LEMMA CommitTabs ==
  ASSUME IInv, TabsInv, NEW r \in Requests, Commit(r)
  PROVE  TabsInv'
<1> USE DEF At, Token, Pair
<1>t. Types BY DEF IInv, TypeOK, Types
<1>0. /\ UNCHANGED grace /\ req[r].op = "refresh" /\ Token(r) \in Tokens
      /\ row[Token(r)] = "live" /\ Pair(r) \in Tokens /\ row[Pair(r)] = "signed"
      /\ grace[Token(r)] = Pair(r)
      /\ \A q \in Requests : q # r => req'[q] = req[q]
      /\ req'[r].op = "refresh" /\ req'[r].token = req[r].token /\ req'[r].pc = "over"
      /\ req'[r].pair = req[r].pair
  BY <1>t DEF Commit, Finish, Types, Request, IInv, Arguments, HoldsRow, InTx, Locked, OwnPair,
     Signing, Rotating, TabsInv, CachedFirst
<1>1. /\ row'[Token(r)] = "revoked" /\ used'[Token(r)] = "rotated"
      /\ \A t \in Tokens : t # Token(r) => used'[t] = used[t]
      /\ StayRevoked
  BY <1>t, <1>0 DEF Commit, Types, StayRevoked
<1>2. GraceKept' BY <1>0, <1>1, SessionAssumption DEF TabsInv, GraceKept, StayRevoked
<1>3. CachedFirst' BY <1>0 DEF TabsInv, CachedFirst
<1>4. \A q \in Requests : req[q].op = "refresh" => Token(q) \in Tokens
  BY DEF IInv, Arguments
<1>5. SeenRevoked'
  BY <1>0, <1>1, <1>4 DEF TabsInv, SeenRevoked, Reusing, StayRevoked
<1>6. SameAnswer' BY <1>0, <1>1 DEF TabsInv, SameAnswer, Answered, StayRevoked
<1>7. \A q \in Requests : Answered(q) => Token(q) # Token(r)
  BY <1>0 DEF TabsInv, SameAnswer
<1>8. TabsGetSamePair' BY <1>0, <1>7 DEF TabsInv, TabsGetSamePair, Answered
<1> QED BY <1>2, <1>3, <1>5, <1>6, <1>8 DEF TabsInv

LEMMA ExpireTabs ==
  ASSUME IInv, TabsInv, NEW t \in Tokens, ExpireGrace(t)
  PROVE  TabsInv'
<1> USE DEF At, Token, Pair
<1>t. Types BY DEF IInv, TypeOK, Types
<1>0. /\ UNCHANGED <<row, req>> /\ grace'[t] = None /\ used'[t] # "rotated"
      /\ \A d \in Tokens : d # t => grace'[d] = grace[d] /\ used'[d] = used[d]
      /\ \A r \in Requests : Token(r) = t => req[r].pc \in {"new", "over"}
  BY <1>t DEF ExpireGrace, Types
<1>1. \A q \in Requests : req[q].op = "refresh" => Token(q) \in Tokens
  BY DEF IInv, Arguments
<1>2. GraceKept' BY <1>0 DEF TabsInv, GraceKept
<1>3. CachedFirst' BY <1>0, <1>1 DEF TabsInv, CachedFirst
<1>4. SeenRevoked' BY <1>0, <1>1 DEF TabsInv, SeenRevoked, Reusing
<1>5. SameAnswer' BY <1>0 DEF TabsInv, SameAnswer, Answered
<1>6. TabsGetSamePair' BY <1>0 DEF TabsInv, TabsGetSamePair
<1> QED BY <1>2, <1>3, <1>4, <1>5, <1>6 DEF TabsInv

LEMMA NextTabs ==
  ASSUME IInv, TabsInv, [Next]_vars
  PROVE  TabsInv'
<1>1. CASE UNCHANGED vars
  <2>1. Elsewhere BY <1>1 DEF vars, data, Elsewhere, StayRevoked, At, Answered, Reusing, Token, Pair
  <2> QED BY <2>1, ElsewhereTabs
<1> QED BY <1>1, ElsewhereSteps, ElsewhereTabs, LockRowTabs, ReadGraceTabs, CacheTabs, CommitTabs,
           ExpireTabs DEF Next, Proceed, NoSession

\* Tabs that refresh with one token within its grace are not taken for thieves,
\* and get one pair: the pair is in Redis before the row is seen revoked
\* (cacheRotationResult() inside the transaction, getRotationResult()).
THEOREM TabsShare == Spec => []TabsShareAPair
<1>1. Init => TabsInv
  BY DEF Init, TabsInv, GraceKept, CachedFirst, SeenRevoked, SameAnswer, TabsGetSamePair, At,
     Answered, Reusing
<1>2. IInv /\ TabsInv /\ [Next]_vars => TabsInv' BY NextTabs
<1>3. TabsInv => TabsShareAPair
  BY DEF TabsInv, SeenRevoked, Reusing, TabsShareAPair, TabsAreNotReuse, At
<1> QED BY <1>1, <1>2, <1>3, Invariance, PTL DEF Spec

=============================================================================
