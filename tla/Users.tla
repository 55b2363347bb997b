-------------------------------- MODULE Users --------------------------------
(***************************************************************************)
(* One user and their second factor (user.service.ts, two_fa.service.ts):   *)
(* the rows, and what getOrSetDetail() has cached of them under the id, the  *)
(* e-mail and the key of the second factor.                                  *)
(*                                                                         *)
(* save() writes every column in which the object that was read earlier now  *)
(* differs from the row; update() writes the columns it names.  The status   *)
(* stands for all that only the key of the id is invalidated for (status,    *)
(* Stripe's customer), info for names and avatar.                            *)
(***************************************************************************)
EXTENDS Naturals, FiniteSets

CONSTANTS Writers, Readers,  \* requests under way at a time
          MaxInfo,     \* bound: changes of info in all
          MaxSecrets,  \* bound: secrets of the second factor in all
          MaxServed,   \* bound: requests that write in all
          None

VARIABLES row,     \* users: [status, info]
          two,     \* two_factor: [secret, enabled], or None
          secrets, \* secrets made
          entry,   \* key -> what is cached, or None
          writer, reader, served,
          raced,   \* a secret was written over, or enabled, that another request replaced (history)
          slow,    \* keys filled by a flight that a write has overtaken (history)
          proven,  \* secrets an OTP was verified with (history)
          toggled  \* secrets toggleTwoFactor() has switched on (history)

history == <<raced, slow, proven, toggled>>
vars == <<row, two, secrets, entry, writer, reader, served, history>>

Key == {"id", "email", "two"}
Idle == [op |-> "none", pc |-> "idle", read |-> None]
NoFlight == [pc |-> "idle", key |-> "id", got |-> None, old |-> FALSE]
At(w, op, pc) == writer[w].op = op /\ writer[w].pc = pc

TypeOK ==
  /\ row.status \in {"active", "inactive"} /\ row.info \in 0..MaxInfo
  /\ two # None => two.secret \in 1..secrets /\ two.enabled \in BOOLEAN
  /\ slow \subseteq Key /\ proven \cup toggled \subseteq 1..secrets
  /\ \A r \in Readers : reader[r].pc \in {"idle", "fetched"} /\ reader[r].key \in Key

Init ==
  /\ row = [status |-> "active", info |-> 0] /\ two = None /\ secrets = 0
  /\ entry = [k \in Key |-> None]
  /\ writer = [w \in Writers |-> Idle] /\ served = 0
  /\ reader = [r \in Readers |-> NoFlight]
  /\ raced = FALSE /\ slow = {} /\ proven = {} /\ toggled = {}

-----------------------------------------------------------------------------
(* getOrSetDetail(): only what is there is cached.                           *)

\* findOneBy(), of users that are active
Fetched(k) == CASE k = "two" -> two
                [] row.status = "active" -> row
                [] OTHER -> None

\* one flight of a key at a time: the others wait for its value
Fetch(r, k) ==
  /\ reader[r].pc = "idle" /\ entry[k] = None
  /\ \A o \in Readers : reader[o].pc = "idle" \/ reader[o].key # k
  /\ Fetched(k) # None
  /\ reader' = [reader EXCEPT ![r] = [pc |-> "fetched", key |-> k, got |-> Fetched(k), old |-> FALSE]]
  /\ UNCHANGED <<row, two, secrets, entry, writer, served, history>>

Store(r) ==
  LET k == reader[r].key IN
  /\ reader[r].pc = "fetched"
  /\ entry' = [entry EXCEPT ![k] = reader[r].got]
  /\ slow' = IF reader[r].old THEN slow \cup {k} ELSE slow \ {k}
  /\ reader' = [reader EXCEPT ![r] = NoFlight]
  /\ UNCHANGED <<row, two, secrets, writer, served, raced, proven, toggled>>

\* the TTL ends
Expire(k) ==
  /\ entry[k] # None /\ entry' = [entry EXCEPT ![k] = None] /\ slow' = slow \ {k}
  /\ UNCHANGED <<row, two, secrets, writer, reader, served, raced, proven, toggled>>

\* a flight that has read before this write is old
Overtaken(ks) ==
  reader' = [r \in Readers |-> [reader[r] EXCEPT
               !.old = @ \/ (reader[r].pc = "fetched" /\ reader[r].key \in ks)]]

\* Mutant: the entry of the e-mail is left.
LeavesEmail(op) == IF op \in {"status", "info"} THEN {"id"} ELSE {"id", "two"}

\* what an operation invalidates when it has written
Stale(op) == CASE op = "status" -> {"id"}
               [] op = "info" -> {"id", "email"}
               [] OTHER -> {"id", "two"}

Invalidate(w) ==
  /\ writer[w].pc = "written"
  /\ entry' = [k \in Key |-> IF k \in Stale(writer[w].op) THEN None ELSE entry[k]]
  /\ slow' = slow \ Stale(writer[w].op)
  /\ writer' = [writer EXCEPT ![w] = Idle]
  /\ UNCHANGED <<row, two, secrets, reader, served, raced, proven, toggled>>

-----------------------------------------------------------------------------
(* The writers.                                                              *)

Begin(w) == writer[w].pc = "idle" /\ served < MaxServed /\ served' = served + 1
Written(w) == writer' = [writer EXCEPT ![w].pc = "written", ![w].read = None]
Done(w) == writer' = [writer EXCEPT ![w] = Idle]

\* updateStatus(), updateStripeCustomerId()
UpdateStatus(w, status) ==
  /\ Begin(w) /\ row' = [row EXCEPT !.status = status]
  /\ writer' = [writer EXCEPT ![w].op = "status", ![w].pc = "written"]
  /\ Overtaken({"id", "email"})
  /\ UNCHANGED <<two, secrets, entry, history>>

\* changeAvatar(), updateInfo(), and the requests of the second factor
Read(w, op) ==
  /\ Begin(w) /\ (op \in {"verify", "toggle"} => two # None)
  /\ writer' = [writer EXCEPT ![w] = [op |-> op, pc |-> "read",
                                      read |-> IF op = "info" THEN row ELSE two]]
  /\ UNCHANGED <<row, two, secrets, entry, reader, history>>

SaveInfo(w) ==
  /\ At(w, "info", "read") /\ row.info < MaxInfo
  /\ row' = [status |-> writer[w].read.status, info |-> row.info + 1]
  /\ Written(w) /\ Overtaken({"id", "email"})
  /\ UNCHANGED <<two, secrets, entry, served, history>>

\* Mutant: a secret in use is replaced as well.
AlwaysReplaceable(w) == TRUE

\* generateSecret() refuses once the second factor is enabled
Replaceable(w) == writer[w].read = None \/ ~ writer[w].read.enabled

\* a second row is refused by the unique index
GenerateSecret(w) ==
  /\ At(w, "generate", "read") /\ Done(w)
  /\ IF Replaceable(w) /\ (writer[w].read = None => two = None)
     THEN /\ secrets < MaxSecrets /\ secrets' = secrets + 1
          /\ two' = [secret |-> secrets + 1, enabled |-> FALSE]
          /\ raced' = (raced \/ two # writer[w].read) /\ Overtaken({"two"})
     ELSE UNCHANGED <<two, secrets, raced, reader>>
  /\ UNCHANGED <<row, entry, served, slow, proven, toggled>>

\* verifyOTP(): the OTP is one of the secret that was read, or refused
VerifyOtp(w) ==
  /\ At(w, "verify", "read")
  /\ \/ /\ two' = [two EXCEPT !.enabled = TRUE] /\ Written(w)
        /\ proven' = proven \cup {writer[w].read.secret} /\ Overtaken({"two"})
        /\ raced' = (raced \/ two.secret # writer[w].read.secret)
     \/ Done(w) /\ UNCHANGED <<two, reader, raced, proven>>
  /\ UNCHANGED <<row, secrets, entry, served, slow, toggled>>

ToggleTwoFactor(w) ==
  /\ At(w, "toggle", "read")
  /\ two' = [writer[w].read EXCEPT !.enabled = ~ @] /\ Written(w) /\ Overtaken({"two"})
  /\ toggled' = IF two'.enabled THEN toggled \cup {two'.secret} ELSE toggled
  /\ raced' = (raced \/ two # writer[w].read)
  /\ UNCHANGED <<row, secrets, entry, served, slow, proven>>

-----------------------------------------------------------------------------
Next ==
  \/ \E k \in Key : Expire(k) \/ \E r \in Readers : Fetch(r, k)
  \/ \E r \in Readers : Store(r)
  \/ \E w \in Writers :
       \/ Invalidate(w) \/ \E status \in {"active", "inactive"} : UpdateStatus(w, status)
       \/ \E op \in {"info", "generate", "verify", "toggle"} : Read(w, op)
       \/ SaveInfo(w) \/ GenerateSecret(w) \/ VerifyOtp(w) \/ ToggleTwoFactor(w)

Spec == Init /\ [][Next]_vars

-----------------------------------------------------------------------------
\* Writers that will still invalidate k
Coming(k) == \E w \in Writers : writer[w].pc = "written" /\ k \in Stale(writer[w].op)

\* What is cached is what the row says, once its writers have invalidated it and
\* unless a slow flight has stored what it read before.  The status under the
\* e-mail, which login() reads, is not invalidated by updateStatus().
CachesAgree ==
  \A k \in Key : entry[k] # None /\ k \notin slow /\ ~ Coming(k) =>
    CASE k = "two"   -> entry[k].enabled = two.enabled \/ raced
      [] k = "id"    -> entry[k] = row
      [] k = "email" -> entry[k].info = row.info

\* A second factor that is on asks for a secret the user has shown to have, or
\* that they switched on themselves, unless two requests about it overlapped.
SecretProven == two # None /\ two.enabled /\ ~ raced => two.secret \in proven \cup toggled

=============================================================================
