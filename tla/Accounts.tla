------------------------------- MODULE Accounts -------------------------------
(***************************************************************************)
(* How an account comes to be (auth.service.ts): registration, log-in with  *)
(* Google and SSO, the codes that are mailed, and the devices of a user, for *)
(* one e-mail address.  The user's row is in another service, which answers  *)
(* or fails on its own; the rows of auth and verifications are here.         *)
(*                                                                         *)
(* Sessions are in Sessions; passwords are left out.                         *)
(***************************************************************************)
EXTENDS Naturals, FiniteSets

CONSTANTS Requests,  \* requests under way at a time
          MaxUsers,  \* bound: users created in all
          MaxCodes,  \* bound: codes mailed in all
          MaxServed, \* bound: requests in all
          None

VARIABLES user,      \* the row of the e-mail: [id, status], or None
          users,     \* users created
          auth,      \* "local", "google", "sso" -> a user id, or None
          ver,       \* row -> [action, code, used, live], or None
          codes,     \* codes made
          device,    \* the device of the log-ins is known
          alerts,    \* mails about an unknown device
          req,       \* request -> how far it is
          served,
          applied,   \* code -> how often it had its effect (history)
          replaced,  \* codes that were replaced (history)
          stranded,  \* a user was left without a way to log in (history)
          unfinished \* an account was verified but not activated (history)

rows == <<auth, ver, codes>>
devices == <<device, alerts>>
history == <<applied, replaced, stranded, unfinished>>
vars == <<user, users, rows, devices, req, served, history>>

Provider == {"local", "google", "sso"}
Code == 1..MaxCodes
Action == {"verify", "reset"}
Free == [op |-> "none", pc |-> "idle", id |-> None, of |-> None]

TypeOK ==
  /\ user # None => user.id \in 1..users /\ user.status \in {"pending", "active"}
  /\ auth \in [Provider -> {None} \cup 1..users] /\ users \in 0..MaxUsers
  /\ \A r \in Code : (ver[r] # None) => /\ ver[r].action \in Action /\ ver[r].code \in 1..codes
                                       /\ ver[r].used \in BOOLEAN /\ ver[r].live \in BOOLEAN
  /\ device \in BOOLEAN /\ served \in 0..MaxServed
  /\ \A q \in Requests :
       /\ req[q].id \in {None} \cup 1..users
       /\ req[q].of # None => IF req[q].op = "resend" /\ req[q].pc # "locked"
                              THEN req[q].of \in Action ELSE req[q].of \in Code

Init ==
  /\ user = None /\ users = 0 /\ auth = [p \in Provider |-> None]
  /\ ver = [r \in Code |-> None] /\ codes = 0 /\ device = FALSE /\ alerts = 0
  /\ req = [q \in Requests |-> Free] /\ served = 0
  /\ applied = [c \in Code |-> 0] /\ replaced = {} /\ stranded = FALSE /\ unfinished = FALSE

Start(q, op, of) ==
  /\ req[q].pc = "idle" /\ served < MaxServed /\ served' = served + 1
  /\ req' = [req EXCEPT ![q] = [op |-> op, pc |-> "begun", id |-> None, of |-> of]]
  /\ UNCHANGED <<user, users, rows, devices, history>>
At(q, op, pc) == req[q].op = op /\ req[q].pc = pc
Go(q, pc) == req' = [req EXCEPT ![q].pc = pc]
End(q) == req' = [req EXCEPT ![q] = Free]

-----------------------------------------------------------------------------
(* The users' service, as it is called.                                      *)

\* GET_USER_BY_EMAIL, GET_USER_BY_ID: of accounts that are active
IsActive == user # None /\ user.status = "active"

\* Mutant: pending accounts are found too.
IsThere == user # None

Findable == IsActive

\* CREATE_USER: the e-mail is unique
CreateUser(q, status, pc) ==
  IF user = None /\ users < MaxUsers
  THEN /\ user' = [id |-> users + 1, status |-> status] /\ users' = users + 1
       /\ req' = [req EXCEPT ![q].pc = pc, ![q].id = users + 1]
  ELSE End(q) /\ UNCHANGED <<user, users>>

-----------------------------------------------------------------------------
(* register()                                                               *)

CheckAuth(q) ==
  /\ At(q, "register", "begun")
  /\ IF auth["local"] # None THEN End(q) ELSE Go(q, "checked")
  /\ UNCHANGED <<user, users, rows, devices, served, history>>

RegisterUser(q) ==
  /\ At(q, "register", "checked") /\ CreateUser(q, "pending", "created")
  /\ UNCHANGED <<rows, devices, served, history>>

NewRow(action) ==
  /\ codes < MaxCodes /\ codes' = codes + 1
  /\ ver' = [ver EXCEPT ![codes + 1] = [action |-> action, code |-> codes + 1,
                                        used |-> FALSE, live |-> TRUE]]

\* auth and verification in one transaction, or the user is taken back
RegisterAuth(q) ==
  /\ At(q, "register", "created")
  /\ \/ /\ auth["local"] = None /\ auth' = [auth EXCEPT !["local"] = req[q].id]
        /\ NewRow("verify") /\ End(q)
     \/ Go(q, "undo") /\ UNCHANGED rows
  /\ UNCHANGED <<user, users, devices, served, history>>

DeleteUser(id) == user' = (IF user # None /\ user.id = id THEN None ELSE user)

\* DELETE_USER, which may fail
Undo(q) ==
  /\ At(q, "register", "undo") /\ End(q)
  /\ \/ DeleteUser(req[q].id) /\ stranded' = stranded
     \/ user' = user /\ stranded' = TRUE
  /\ UNCHANGED <<users, rows, devices, served, applied, replaced, unfinished>>

-----------------------------------------------------------------------------
(* loginGoogle(), loginSso()                                                *)

FindAuth(q, p) ==
  /\ At(q, p, "begun")
  /\ IF auth[p] = None THEN Go(q, "unknown")
     ELSE IF IsActive THEN Go(q, "welcome") ELSE End(q)
  /\ UNCHANGED <<user, users, rows, devices, served, history>>

\* SSO takes over the account there is; Google makes one
FindUser(q) ==
  /\ At(q, "sso", "unknown")
  /\ req' = [req EXCEPT ![q].pc = IF Findable THEN "created" ELSE "unfound",
                        ![q].id = IF Findable THEN user.id ELSE None]
  /\ UNCHANGED <<user, users, rows, devices, served, history>>

NewUser(q) ==
  /\ At(q, "google", "unknown") \/ At(q, "sso", "unfound")
  /\ CreateUser(q, "active", "created")
  /\ UNCHANGED <<rows, devices, served, history>>

SaveAuth(q, p) ==
  /\ At(q, p, "created")
  /\ \/ /\ auth[p] = None /\ auth' = [auth EXCEPT ![p] = req[q].id]
        /\ Go(q, "welcome") /\ stranded' = stranded
     \/ End(q) /\ auth' = auth /\ stranded' = (stranded \/ \A o \in Provider : auth[o] = None)
  /\ UNCHANGED <<user, users, ver, codes, devices, served, applied, replaced, unfinished>>

\* login() of an account with a password goes on in the same way
Login(q) ==
  /\ At(q, "login", "begun")
  /\ IF auth["local"] # None /\ IsActive THEN Go(q, "welcome") ELSE End(q)
  /\ UNCHANGED <<user, users, rows, devices, served, history>>

\* handleDeviceTracking()
FindDevice(q) ==
  /\ req[q].pc = "welcome" /\ IF device THEN End(q) ELSE Go(q, "new device")
  /\ UNCHANGED <<user, users, rows, devices, served, history>>

\* the index is unique: another log-in may have saved it, and this one fails
SaveDevice(q) ==
  /\ req[q].pc = "new device" /\ End(q)
  /\ IF device THEN UNCHANGED devices ELSE device' = TRUE /\ alerts' = alerts + 1
  /\ UNCHANGED <<user, users, rows, served, history>>

-----------------------------------------------------------------------------
(* Codes.  A row that is found FOR UPDATE is waited for, and looked at again. *)

Held == {req[q].of : q \in {p \in Requests : req[p].pc = "locked"}}
Unused(r) == ver[r] # None /\ ~ ver[r].used /\ r \notin Held

ForgotPassword ==
  /\ auth["local"] # None /\ served < MaxServed /\ served' = served + 1 /\ NewRow("reset")
  /\ UNCHANGED <<user, users, auth, devices, req, history>>

\* secureAccount() goes on, and mails a code, when the sessions are gone and a
\* password is there; the device is known still
SecureAccount == device /\ ForgotPassword

\* Mutant: a row is found whether its code was used or not.
AnyRow(q) == \E r \in Code : /\ ver[r] # None /\ ver[r].live /\ r \notin Held
                             /\ ver[r].code = req[q].of /\ ver[r].action = req[q].op
                             /\ req' = [req EXCEPT ![q].pc = "locked", ![q].of = r]

\* verifyEmail(), resetPassword(): of is the code until the row is found
RowOfCode(q) == \E r \in Code : /\ Unused(r) /\ ver[r].live
                                /\ ver[r].code = req[q].of /\ ver[r].action = req[q].op
                                /\ req' = [req EXCEPT ![q].pc = "locked", ![q].of = r]

LockRow(q) ==
  /\ req[q].op \in Action /\ req[q].pc = "begun" /\ auth["local"] # None /\ RowOfCode(q)
  /\ UNCHANGED <<user, users, rows, devices, served, history>>

UseCode(q) ==
  LET r == req[q].of IN
  /\ req[q].op \in Action /\ req[q].pc = "locked"
  /\ ver' = [ver EXCEPT ![r].used = TRUE]
  /\ applied' = [applied EXCEPT ![ver[r].code] = @ + 1]
  /\ req' = [req EXCEPT ![q] = IF @.op = "verify" THEN [@ EXCEPT !.pc = "used", !.of = None]
                                                  ELSE Free]
  /\ UNCHANGED <<user, users, auth, codes, devices, served, replaced, stranded, unfinished>>

\* CHANGE_USER_STATUS, after the commit
Activate(q) ==
  /\ At(q, "verify", "used") /\ End(q)
  /\ \/ user # None /\ user' = [user EXCEPT !.status = "active"] /\ unfinished' = unfinished
     \/ user' = user /\ unfinished' = TRUE
  /\ UNCHANGED <<users, rows, devices, served, applied, replaced, stranded>>

\* resendCode(): the row of an active code is locked and gets another code,
\* or there is a new row
FindActive(q) ==
  /\ At(q, "resend", "begun") /\ auth["local"] # None
  /\ LET found == {r \in Code : ver[r] # None /\ ~ ver[r].used /\ ver[r].live
                                /\ ver[r].action = req[q].of}
     IN \/ \E r \in found \ Held : req' = [req EXCEPT ![q].pc = "locked", ![q].of = r]
        \/ found = {} /\ Go(q, "none found")
  /\ UNCHANGED <<user, users, rows, devices, served, history>>

Resend(q) ==
  /\ req[q].op = "resend" /\ End(q)
  /\ \/ req[q].pc = "none found" /\ NewRow(req[q].of) /\ UNCHANGED replaced
     \/ /\ req[q].pc = "locked" /\ codes < MaxCodes /\ codes' = codes + 1
        /\ ver' = [ver EXCEPT ![req[q].of].code = codes + 1, ![req[q].of].live = TRUE]
        /\ replaced' = replaced \cup {ver[req[q].of].code}
  /\ UNCHANGED <<user, users, auth, devices, served, applied, stranded, unfinished>>

Expire(r) ==
  /\ ver[r] # None /\ ver[r].live /\ ver' = [ver EXCEPT ![r].live = FALSE]
  /\ r \notin Held
  /\ UNCHANGED <<user, users, auth, codes, devices, req, served, history>>

-----------------------------------------------------------------------------
\* the process dies, a service does not answer, or what is looked for is not there
Fail(q) ==
  /\ req[q].pc # "idle" /\ End(q)
  /\ stranded' = (stranded \/ /\ req[q].pc \in {"created", "undo"}
                              /\ \A p \in Provider : auth[p] = None)
  /\ unfinished' = (unfinished \/ At(q, "verify", "used"))
  /\ UNCHANGED <<user, users, rows, devices, served, applied, replaced>>

Next ==
  \/ ForgotPassword \/ SecureAccount \/ \E r \in Code : Expire(r)
  \/ \E q \in Requests :
       \/ \E op \in {"register", "login", "google", "sso"} : Start(q, op, None)
       \/ \E action \in Action : Start(q, "resend", action)
       \/ \E op \in Action, c \in 1..codes : Start(q, op, c)
       \/ CheckAuth(q) \/ RegisterUser(q) \/ RegisterAuth(q) \/ Undo(q)
       \/ \E p \in {"google", "sso"} : FindAuth(q, p) \/ SaveAuth(q, p)
       \/ FindUser(q) \/ NewUser(q) \/ Login(q) \/ FindDevice(q) \/ SaveDevice(q)
       \/ LockRow(q) \/ UseCode(q) \/ Activate(q) \/ FindActive(q) \/ Resend(q) \/ Fail(q)

Spec == Init /\ [][Next]_vars

-----------------------------------------------------------------------------
\* register() takes a user back that another log-in may have found meanwhile:
\* no way to log in leads to a user who is gone.
AuthHasUser == \A p \in Provider : auth[p] # None => user # None /\ user.id = auth[p]

\* The other way round, a user has a way to log in once nobody is making one,
\* unless a request died between the two services.
UserHasAuth ==
  user # None /\ ~ stranded /\ (\A q \in Requests : req[q].pc \notin {"created", "undo"})
    => \E p \in Provider : auth[p] # None

\* A mailed code has its effect once, however many requests bring it, and
\* none once resendCode() has replaced it.
CodesActOnce == \A c \in Code : applied[c] <= (IF c \in replaced THEN 0 ELSE 1)

\* A code that was used to verify the e-mail has made the account active,
\* unless the users' service failed after the commit.
VerifiedIsActive ==
  ~ unfinished /\ (\A q \in Requests : ~ At(q, "verify", "used")) =>
    \A r \in Code : ver[r] # None /\ ver[r].action = "verify" /\ ver[r].used => IsActive

\* An unknown device is announced once, however many log-ins race.
DeviceAnnouncedOnce == alerts <= 1

=============================================================================
