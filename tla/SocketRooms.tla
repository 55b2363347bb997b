---------------------------- MODULE SocketRooms ----------------------------
(***************************************************************************)
(* The sockets of one user (socket.gateway.ts): connecting, heartbeats, the *)
(* presence key in Redis, and the rooms of channels and threads.            *)
(*                                                                         *)
(* Handlers await between what they check and what they do, and a socket    *)
(* may be gone by then.  A room list keeps the order of joining; a socket   *)
(* begins in the room of its own id.                                        *)
(***************************************************************************)
EXTENDS Integers, Sequences, SequencesExt

CONSTANTS Sockets, Channels, Threads,
          Interval,    \* a client sends a heartbeat at least this often
          Threshold,   \* ONLINE_THRESHOLD
          KeyTtl,      \* REDIS_TTL
          MaxRooms,    \* bound: subscriptions of a socket in all
          None

VARIABLES conn,    \* socket -> how far its connection is
          beat,    \* ticks since the last heartbeat of a client
          beating, \* sockets whose heartbeat is being checked
          seen,    \* ticks since what the presence key says; KeyTtl when there is none
          rooms,   \* socket -> rooms joined, in order
          asked,   \* socket -> a channel or thread being checked, or None
          subscribed, \* subscriptions of a socket
          revoked, \* the token of the sockets is revoked
          ghost,   \* the key was last written for a socket that had gone (history)
          dropped, \* a socket took the status of the others with it (history)
          mixed    \* sockets that have asked for a thread (history)

presence == <<beat, beating, seen, ghost, dropped>>
roomVars == <<rooms, asked, subscribed, mixed>>
vars == <<conn, presence, roomVars, revoked>>

Private == "user"
Own == "id"
Open == {s \in Sockets : conn[s] = "open"}
Rooms(s) == ToSet(rooms[s])

TypeOK ==
  /\ conn \in [Sockets -> {"new", "verifying", "joined", "open", "late", "gone"}]
  /\ beat \in [Sockets -> 0..Interval] /\ seen \in 0..KeyTtl
  /\ beating \subseteq Sockets /\ mixed \subseteq Sockets
  /\ asked \in [Sockets -> Channels \cup Threads \cup {None}]
  /\ \A s \in Sockets : /\ subscribed[s] \in 0..MaxRooms /\ IsInjective(rooms[s])
                        /\ Rooms(s) \subseteq {Own, Private} \cup Channels \cup Threads

Init ==
  /\ conn = [s \in Sockets |-> "new"] /\ beat = [s \in Sockets |-> 0] /\ beating = {}
  /\ seen = KeyTtl /\ ghost = FALSE /\ dropped = FALSE /\ revoked = FALSE
  /\ rooms = [s \in Sockets |-> <<>>] /\ asked = [s \in Sockets |-> None]
  /\ subscribed = [s \in Sockets |-> 0] /\ mixed = {}

-----------------------------------------------------------------------------
(* handleConnection() and handleDisconnect().                                *)

Connect(s) ==
  /\ conn[s] = "new"
  /\ conn' = [conn EXCEPT ![s] = "verifying"]
  /\ rooms' = [rooms EXCEPT ![s] = <<Own>>]
  /\ UNCHANGED <<presence, asked, subscribed, mixed, revoked>>

\* verifyToken(): a bad token disconnects
Verify(s) ==
  /\ conn[s] = "verifying"
  /\ IF revoked
     THEN /\ conn' = [conn EXCEPT ![s] = "gone"]
          /\ rooms' = [rooms EXCEPT ![s] = <<>>]
     ELSE /\ conn' = [conn EXCEPT ![s] = "joined"]
          /\ rooms' = [rooms EXCEPT ![s] = Append(@, Private)]
  /\ UNCHANGED <<presence, asked, subscribed, mixed, revoked>>

\* updateLastSeen()
LastSeen(s) ==
  /\ seen' = 0 /\ dropped' = FALSE
  /\ ghost' = (ghost \/ conn[s] = "gone")

Ready(s) ==
  /\ conn[s] = "joined" /\ conn' = [conn EXCEPT ![s] = "open"]
  /\ LastSeen(s) /\ beat' = [beat EXCEPT ![s] = 0]
  /\ UNCHANGED <<beating, roomVars, revoked>>

\* removeStatus(): it is the key of the user, not of the socket
Leave(s) ==
  /\ rooms' = [rooms EXCEPT ![s] = <<>>]
  /\ seen' = KeyTtl /\ dropped' = (Open \ {s} # {}) /\ ghost' = FALSE

\* handleConnection() goes on for a socket that has closed meanwhile
HandleDisconnect(s) ==
  /\ \/ conn[s] \in {"joined", "open"} /\ Leave(s)
     \* the user is not known yet
     \/ /\ conn[s] = "verifying" /\ rooms' = [rooms EXCEPT ![s] = <<>>]
        /\ UNCHANGED <<seen, dropped, ghost>>
  /\ conn' = [conn EXCEPT ![s] = IF @ = "open" THEN "gone" ELSE "late"]
  /\ UNCHANGED <<beat, beating, asked, subscribed, mixed, revoked>>

ReadyLate(s) ==
  /\ conn[s] = "late" /\ conn' = [conn EXCEPT ![s] = "gone"]
  /\ \/ seen' = 0 /\ dropped' = FALSE /\ ghost' = TRUE
     \/ revoked /\ UNCHANGED <<seen, dropped, ghost>>
  /\ UNCHANGED <<beat, beating, roomVars, revoked>>

-----------------------------------------------------------------------------
(* handleUserHeartbeat(): the token is checked again; what it finds disconnects. *)

StartHeartbeat(s) ==
  /\ conn[s] = "open" /\ s \notin beating
  /\ beating' = beating \cup {s} /\ beat' = [beat EXCEPT ![s] = 0]
  /\ UNCHANGED <<conn, seen, ghost, dropped, roomVars, revoked>>

Heartbeat(s) ==
  /\ s \in beating /\ beating' = beating \ {s}
  /\ \/ ~ revoked /\ LastSeen(s) /\ UNCHANGED <<conn, rooms>>
     \/ revoked /\ conn[s] = "open" /\ Leave(s) /\ conn' = [conn EXCEPT ![s] = "gone"]
     \/ revoked /\ conn[s] # "open" /\ UNCHANGED <<conn, rooms, seen, dropped, ghost>>
  /\ UNCHANGED <<beat, asked, subscribed, mixed, revoked>>

Revoke == ~ revoked /\ revoked' = TRUE /\ UNCHANGED <<conn, presence, roomVars>>

\* time passes: a client that is connected does not miss a heartbeat, and
\* handlers take less than a tick
Tick ==
  /\ beating = {} /\ \A s \in Sockets : conn[s] \notin {"verifying", "joined", "late"}
  /\ \A s \in Open : beat[s] < Interval
  /\ seen < KeyTtl \/ Open # {}
  /\ beat' = [s \in Sockets |-> IF s \in Open THEN beat[s] + 1 ELSE 0]
  /\ seen' = IF seen < KeyTtl THEN seen + 1 ELSE KeyTtl
  /\ UNCHANGED <<conn, beating, ghost, dropped, roomVars, revoked>>

-----------------------------------------------------------------------------
(* Rooms: access is checked, then the rooms are changed.                     *)

Without(list, r) == SelectSeq(list, LAMBDA x : x # r)
Joined(list, r) == IF r \in ToSet(list) THEN list ELSE Append(list, r)

Subscribe(s, r) ==
  /\ conn[s] = "open" /\ asked[s] = None /\ subscribed[s] < MaxRooms
  /\ asked' = [asked EXCEPT ![s] = r] /\ subscribed' = [subscribed EXCEPT ![s] = @ + 1]
  /\ mixed' = IF r \in Threads THEN mixed \cup {s} ELSE mixed
  /\ UNCHANGED <<conn, presence, rooms, revoked>>

\* Mutant: the room of the channel before is not left.
StaysInAll(list) == list

\* the first room that is not the private one is taken for the channel before
LeavesPrevious(list) ==
  LET others == Without(list, Private) IN
  IF others = <<>> THEN list ELSE Without(list, Head(others))

\* a join of a socket that has gone does nothing
HandleSubscribe(s) ==
  /\ asked[s] # None /\ asked' = [asked EXCEPT ![s] = None]
  /\ \E allowed \in BOOLEAN :
       rooms' = IF ~ allowed \/ conn[s] # "open" THEN rooms
                ELSE [rooms EXCEPT ![s] = IF asked[s] \in Threads THEN Joined(@, asked[s])
                                          ELSE Joined(LeavesPrevious(@), asked[s])]
  /\ UNCHANGED <<conn, presence, subscribed, mixed, revoked>>

\* UNSUBSCRIBE_CHANNEL, UNSUBSCRIBE_THREAD: at once
Unsubscribe(s, r) ==
  /\ r \in Rooms(s) /\ rooms' = [rooms EXCEPT ![s] = Without(@, r)]
  /\ UNCHANGED <<conn, presence, asked, subscribed, mixed, revoked>>

-----------------------------------------------------------------------------
Next ==
  \/ Revoke \/ Tick
  \/ \E s \in Sockets :
       \/ Connect(s) \/ Verify(s) \/ Ready(s) \/ HandleDisconnect(s) \/ ReadyLate(s)
       \/ StartHeartbeat(s) \/ Heartbeat(s) \/ HandleSubscribe(s)
       \/ \E r \in Channels \cup Threads : Subscribe(s, r) \/ Unsubscribe(s, r)

Spec == Init /\ [][Next]_vars

-----------------------------------------------------------------------------
\* A user whose sockets are all gone is shown offline at once
\* (presenceCached.service.ts removeStatus()), unless a handler of a closed
\* socket has written the key since.
OfflineWhenGone ==
  (\A s \in Sockets : conn[s] \in {"new", "gone"}) /\ ~ ghost => seen = KeyTtl

\* Heartbeats keep the status of a user with an open socket within the
\* threshold, unless another socket of theirs has taken it away.
OnlineWhileOpen == Open # {} /\ ~ dropped => seen < Threshold

\* handleSubscribeChannel(): a socket is in the room of one channel at a time.
\* With a thread among its rooms the code leaves the thread, see the README.
OneChannel ==
  \A s \in Sockets \ mixed :
    \A q, r \in Channels : {q, r} \subseteq Rooms(s) => q = r
=============================================================================
