------------------------------- MODULE Huddle -------------------------------
(***************************************************************************)
(* Video calls of one channel (video-call.service.ts): join, leave, record, *)
(* and the webhooks of LiveKit, which is external here: its rooms, who is   *)
(* connected, its recordings (egresses).                                    *)
(*                                                                         *)
(* No method has a transaction or a lock: each reads, and later saves the   *)
(* row it read.  save() of TypeORM looks the row up once more and writes    *)
(* the columns that differ, those that another call changed included.       *)
(***************************************************************************)
EXTENDS Integers, FiniteSets

CONSTANTS Users,
          Slots,         \* 1..n, for the calls and webhooks handled at once
          MaxHuddles,    \* bound: huddles in all
          MaxServed,     \* bound: calls in all
          MaxConnects,   \* bound: connections to LiveKit in all
          None

VARIABLES huddle,  \* number -> its row, or None
          seats,   \* rows of huddle_participants: [of, user, by, here]
          call,    \* slot -> what it does
          hooks,   \* webhooks on their way
          token,   \* <<h, u>>: u has a token of the room of h, and uses it
          room,    \* h -> who is connected; closed rooms have NoRoom
          running, \* h -> egresses that record its room
          served, connects, egresses,
          raced,   \* huddles some call has worked on with a stale row (history)
          hasty    \* users with two calls open, or in two huddles, at once (history)

vars == <<huddle, seats, call, hooks, token, room, running, served, connects, egresses,
          raced, hasty>>

Number == 1..MaxHuddles
Exists == {h \in Number : huddle[h] # None}
Active == {h \in Exists : huddle[h].isActive}
NoRoom == None
Idle == [op |-> None, pc |-> "idle", h |-> 0, user |-> None, row |-> None, seen |-> None,
         found |-> None, count |-> {}]
Here(h) == {s \in seats : s.of = h /\ s.here}
Present(h) == {s.user : s \in Here(h)}
Fresh == [isActive |-> TRUE, endedAt |-> FALSE, egressId |-> 0, isRecording |-> FALSE]
Rows == [isActive : BOOLEAN, endedAt : BOOLEAN, egressId : 0..MaxServed, isRecording : BOOLEAN]

TypeOK ==
  /\ huddle \in [Number -> Rows \cup {None}]
  /\ \A s \in seats : s.of \in Exists /\ s.user \in Users /\ s.here \in BOOLEAN
  /\ \A c \in Slots : call[c].pc \in {"idle", "reading", "creating", "seating", "sitting",
                                      "leaving", "counting", "calling", "saving", "writing", "clearing"}
  /\ room \in [Number -> SUBSET Users \cup {NoRoom}] 
  /\ raced \subseteq Exists /\ hasty \subseteq Users
  /\ \A h \in Number : running[h] \subseteq 1..egresses /\ (room[h] = NoRoom => running[h] = {})

Init ==
  /\ huddle = [h \in Number |-> None] /\ seats = {} /\ call = [c \in Slots |-> Idle]
  /\ hooks = {} /\ token = {} /\ room = [h \in Number |-> NoRoom] /\ raced = {} /\ hasty = {}
  /\ running = [h \in Number |-> {}] /\ served = 0 /\ connects = 0 /\ egresses = 0

liveKit == <<hooks, room, running, connects, egresses>>

\* every step of a call but its first: from one pc to another
At(c, op, pc) == call[c].op = op /\ call[c].pc = pc
Goto(c, pc) == call' = [call EXCEPT ![c].pc = pc]
Done(c) == call' = [call EXCEPT ![c] = Idle]

Working == {c \in Slots : call[c].pc # "idle"}

\* the call reads the huddle it is about
Accept(c, op, pc, h, u) ==
  LET row == IF h = 0 THEN None ELSE huddle[h] IN
  /\ c \notin Working /\ \A d \in Slots \ Working : c <= d
  /\ call' = [call EXCEPT ![c] = [op |-> op, pc |-> pc, h |-> h, user |-> u,
                                  row |-> row, seen |-> row, found |-> None, count |-> {}]]
  /\ hasty' = IF u # None /\ \E d \in Working : call[d].user = u THEN hasty \cup {u} ELSE hasty

Begin(c, op, pc, h, u) ==
  /\ served < MaxServed /\ served' = served + 1
  /\ Accept(c, op, pc, h, u)
  /\ UNCHANGED <<huddle, seats, liveKit, raced>>

-----------------------------------------------------------------------------
(* A seat: joinHuddle() and 'participant_joined' look for one and take it or *)
(* insert one; leaveHuddle() and 'participant_left' clear one.               *)

SeatsOf(c) == {s \in seats : s.of = call[c].h /\ s.user = call[c].user}

\* the row found for the one who comes, or the one that is about to be inserted
FindSeat(c, next) ==
  \E s \in IF SeatsOf(c) # {} THEN SeatsOf(c)
           ELSE {[of |-> call[c].h, user |-> call[c].user, by |-> c, here |-> FALSE]} :
    call' = [call EXCEPT ![c].pc = next, ![c].found = s]

SaveSeat(s, here) == seats' = {x \in seats : <<x.of, x.user, x.by>> # <<s.of, s.user, s.by>>}
                              \cup {[s EXCEPT !.here = here]}

Sit(c) == SaveSeat(call[c].found, TRUE)

\* the open seat found for the one who goes, or none
FindOpenSeat(c, next) ==
  LET open == {s \in SeatsOf(c) : s.here} IN
  \E s \in IF open # {} THEN open ELSE {None} :
    call' = [call EXCEPT ![c].pc = next, ![c].found = s]

Rise(c) == IF call[c].found = None THEN UNCHANGED seats ELSE SaveSeat(call[c].found, FALSE)

-----------------------------------------------------------------------------
(* save() of the huddle read before, with the changes of the call.           *)

Keep(c, new) == call' = [call EXCEPT ![c].row = new, ![c].pc = "saving",
                                     ![c].count = Present(call[c].h)]

SelectHuddle(c) ==
  /\ call[c].pc = "saving"
  /\ call' = [call EXCEPT ![c].found = huddle[call[c].h], ![c].pc = "writing"]
  /\ UNCHANGED <<huddle, seats, token, liveKit, served, raced, hasty>>

Saved(c) == [f \in DOMAIN Fresh |-> IF call[c].row[f] # call[c].found[f] THEN call[c].row[f]
                                    ELSE huddle[call[c].h][f]]

\* another call has changed the row in between, or is about to come to sit in
\* what ends, or started the next huddle before the room of this one opens again
\* who is, or is about to be, in the room
Coming(h) == Present(h) \cup {u \in Users : <<h, u>> \in token}

Stale(c) == \/ call[c].seen # huddle[call[c].h]
            \/ call[c].op = "leave" /\ Coming(call[c].h) # call[c].count
            \/ call[c].op = "room_started" /\ Active \ {call[c].h} # {}

WriteHuddle(c) ==
  LET q == call[c] IN
  /\ q.pc = "writing"
  /\ huddle' = [huddle EXCEPT ![q.h] = Saved(c)]
  /\ raced' = IF Stale(c) THEN raced \cup {q.h} ELSE raced
  /\ IF q.op = "room_finished" THEN Goto(c, "clearing") ELSE Done(c)
  /\ UNCHANGED <<seats, token, liveKit, served, hasty>>

-----------------------------------------------------------------------------
(* joinHuddle()                                                              *)

JoinHuddle(c, u) == Begin(c, "join", "reading", 0, u) /\ UNCHANGED token

FindActive(c) ==
  /\ At(c, "join", "reading")
  /\ \/ \E h \in Active : call' = [call EXCEPT ![c].h = h, ![c].pc = "seating"]
     \/ Active = {} /\ Goto(c, "creating")
  /\ UNCHANGED <<huddle, seats, token, liveKit, served, raced, hasty>>

\* a second one when another call has created one in between
Create(c) ==
  LET h == Cardinality(Exists) + 1 IN
  /\ At(c, "join", "creating") /\ h \in Number
  /\ huddle' = [huddle EXCEPT ![h] = Fresh]
  /\ raced' = IF Active = {} THEN raced ELSE raced \cup {h}
  /\ call' = [call EXCEPT ![c].h = h, ![c].pc = "seating"]
  /\ UNCHANGED <<seats, token, liveKit, served, hasty>>

FindParticipant(c) ==
  /\ At(c, "join", "seating")
  /\ FindSeat(c, "sitting")
  /\ UNCHANGED <<huddle, seats, token, liveKit, served, raced, hasty>>

\* the huddle may have ended since it was found
SaveParticipant(c) ==
  LET q == call[c] IN
  /\ At(c, "join", "sitting")
  /\ Sit(c) /\ Done(c)
  /\ token' = {t \in token : t[2] # q.user} \cup {<<q.h, q.user>>}
  /\ raced' = IF huddle[q.h].isActive THEN raced ELSE raced \cup {q.h}
  /\ hasty' = IF \E t \in token : t[2] = q.user /\ t[1] # q.h THEN hasty \cup {q.user} ELSE hasty
  /\ UNCHANGED <<huddle, liveKit, served>>

-----------------------------------------------------------------------------
(* leaveHuddle()                                                             *)

LeaveHuddle(c, h, u) ==
  /\ Begin(c, "leave", "leaving", h, u)
  /\ token' = token \ {<<h, u>>}  \* the client closes its call

FindLeaver(c) ==
  /\ At(c, "leave", "leaving")
  /\ FindOpenSeat(c, "sitting")
  /\ UNCHANGED <<huddle, seats, token, liveKit, served, raced, hasty>>

SaveLeaver(c) ==
  /\ At(c, "leave", "sitting")
  /\ Rise(c) /\ Goto(c, "counting")
  /\ UNCHANGED <<huddle, token, liveKit, served, raced, hasty>>

\* Mutant: whoever leaves ends the huddle.
EndsAlways(c) == call[c].row.isActive

EndsHuddle(c) == Here(call[c].h) = {} /\ call[c].row.isActive

Count(c) ==
  /\ At(c, "leave", "counting")
  /\ IF EndsHuddle(c) THEN Keep(c, [call[c].row EXCEPT !.isActive = FALSE, !.endedAt = TRUE])
                      ELSE Done(c)
  /\ UNCHANGED <<huddle, seats, token, liveKit, served, raced, hasty>>

-----------------------------------------------------------------------------
(* startRecording(), stopRecording(): LiveKit is called between the read and *)
(* the save.                                                                 *)

StartRecording(c, h) ==
  huddle[h].isActive /\ Begin(c, "start", "calling", h, None) /\ UNCHANGED token

StopRecording(c, h) ==
  huddle[h].egressId # 0 /\ Begin(c, "stop", "calling", h, None) /\ UNCHANGED token

\* the call fails for a room that is not open; nothing keeps a second
\* recording of a room from being started
StartEgress(c) ==
  LET h == call[c].h IN
  /\ At(c, "start", "calling") /\ room[h] # NoRoom
  /\ egresses' = egresses + 1
  /\ running' = [running EXCEPT ![h] = @ \cup {egresses + 1}]
  /\ raced' = IF running[h] = {} THEN raced ELSE raced \cup {h}
  /\ Keep(c, [call[c].row EXCEPT !.egressId = egresses + 1, !.isRecording = TRUE])
  /\ UNCHANGED <<huddle, seats, token, hooks, room, connects, served, hasty>>

StopEgress(c) ==
  LET q == call[c] IN
  /\ At(c, "stop", "calling") /\ q.row.egressId \in running[q.h]
  /\ running' = [running EXCEPT ![q.h] = @ \ {q.row.egressId}]
  /\ Keep(c, [q.row EXCEPT !.egressId = 0, !.isRecording = FALSE])
  /\ UNCHANGED <<huddle, seats, token, hooks, room, connects, egresses, served, raced, hasty>>

EgressFails(c) ==
  LET q == call[c] IN
  /\ q.pc = "calling"
  /\ \/ q.op = "start" /\ room[q.h] = NoRoom
     \/ q.op = "stop" /\ q.row.egressId \notin running[q.h]
  /\ Done(c)
  /\ UNCHANGED <<huddle, seats, token, liveKit, served, raced, hasty>>

-----------------------------------------------------------------------------
(* handleWebhook(): each event is a request of its own, handled at once with *)
(* others and in no order.  The members of the channel are fetched between   *)
(* the read of the huddle and what the event does.                           *)

\* an earlier event is still to come, a call is at work on the huddle, or what
\* was done since the event was sent has made it untrue
Overtaken(k) ==
  \/ \E j \in hooks : j.h = k.h /\ j.n < k.n
  \/ \E c \in Working : call[c].h = k.h
  \/ k.event = "room_started" /\ k.active # huddle[k.h].isActive
  \/ k.event = "participant_joined" /\ <<k.h, k.user>> \notin token
  \/ k.event = "participant_left" /\ <<k.h, k.user>> \in token

HandleWebhook(c) ==
  \E k \in hooks :
    /\ hooks' = hooks \ {k}
    /\ Accept(c, k.event, IF k.user = None THEN "calling" ELSE "seating", k.h, k.user)
    /\ raced' = IF Overtaken(k) THEN raced \cup {k.h} ELSE raced
    /\ UNCHANGED <<huddle, seats, token, room, running, connects, egresses, served>>

RoomEvent(c) ==
  LET q == call[c] IN
  /\ q.pc = "calling" /\ q.op \in {"room_started", "room_finished"}
  /\ Keep(c, IF q.op = "room_started" THEN [q.row EXCEPT !.isActive = TRUE]
             ELSE [q.row EXCEPT !.isActive = FALSE, !.endedAt = TRUE])
  /\ UNCHANGED <<huddle, seats, token, liveKit, served, raced, hasty>>

Emptied(h) == {IF s.of = h THEN [s EXCEPT !.here = FALSE] ELSE s : s \in seats}

ClearSeats(c) ==
  /\ At(c, "room_finished", "clearing")
  /\ seats' = Emptied(call[c].h) /\ Done(c)
  /\ UNCHANGED <<huddle, token, liveKit, served, raced, hasty>>

ParticipantEvent(c) ==
  LET op == call[c].op IN
  /\ op \in {"participant_joined", "participant_left"}
  /\ \/ /\ call[c].pc = "seating" /\ UNCHANGED seats
        /\ IF op = "participant_joined" THEN FindSeat(c, "sitting") ELSE FindOpenSeat(c, "sitting")
     \/ /\ call[c].pc = "sitting" /\ Done(c)
        /\ IF op = "participant_joined" THEN Sit(c) ELSE Rise(c)
  /\ UNCHANGED <<huddle, token, liveKit, served, raced, hasty>>

-----------------------------------------------------------------------------
(* LiveKit, and the clients: a token opens the room, for as long as it is    *)
(* valid; a room that is empty is closed some time later.  Events carry the  *)
(* order they were sent in.                                                  *)

Hook(event, h, u, i) ==
  [event |-> event, h |-> h, user |-> u, n |-> i, active |-> huddle[h].isActive]

Last == IF hooks = {} THEN 0 ELSE CHOOSE n \in {k.n : k \in hooks} : \A k \in hooks : k.n <= n

Connect(h, u) ==
  LET joined == Hook("participant_joined", h, u, Last + 2) IN
  /\ <<h, u>> \in token /\ connects < MaxConnects
  /\ connects' = connects + 1
  /\ \/ /\ room[h] = NoRoom
        /\ room' = [room EXCEPT ![h] = {u}]
        /\ hooks' = hooks \cup {Hook("room_started", h, None, Last + 1), joined}
     \/ /\ room[h] # NoRoom /\ u \notin room[h]
        /\ room' = [room EXCEPT ![h] = @ \cup {u}]
        /\ hooks' = hooks \cup {joined}
  /\ UNCHANGED <<huddle, seats, token, call, running, egresses, served, raced, hasty>>

\* the tab is closed, with or without leaveHuddle()
Disconnect(h, u) ==
  /\ room[h] # NoRoom /\ u \in room[h]
  /\ room' = [room EXCEPT ![h] = @ \ {u}]
  /\ token' = token \ {<<h, u>>}
  /\ hooks' = hooks \cup {Hook("participant_left", h, u, Last + 1)}
  /\ UNCHANGED <<huddle, seats, call, running, connects, egresses, served, raced, hasty>>

\* its recordings end with it
CloseRoom(h) ==
  /\ room[h] = {}
  /\ room' = [room EXCEPT ![h] = NoRoom]
  /\ running' = [running EXCEPT ![h] = {}]
  /\ hooks' = hooks \cup {Hook("room_finished", h, None, Last + 1)}
  /\ UNCHANGED <<huddle, seats, token, call, connects, egresses, served, raced, hasty>>

-----------------------------------------------------------------------------
Next ==
  \/ \E c \in Slots :
       \/ \E u \in Users : JoinHuddle(c, u) \/ \E h \in Exists : LeaveHuddle(c, h, u)
       \/ \E h \in Exists : StartRecording(c, h) \/ StopRecording(c, h)
       \/ FindActive(c) \/ Create(c) \/ FindParticipant(c) \/ SaveParticipant(c)
       \/ FindLeaver(c) \/ SaveLeaver(c) \/ Count(c)
       \/ StartEgress(c) \/ StopEgress(c) \/ EgressFails(c)
       \/ HandleWebhook(c) \/ RoomEvent(c) \/ ClearSeats(c) \/ ParticipantEvent(c)
       \/ SelectHuddle(c) \/ WriteHuddle(c)
  \/ \E h \in Exists : CloseRoom(h) \/ \E u \in Users : Connect(h, u) \/ Disconnect(h, u)

Spec == Init /\ [][Next]_vars

-----------------------------------------------------------------------------
Quiet == Working = {} /\ hooks = {}

\* no call was stale, and nobody in it has called twice at once
Orderly(h) == h \notin raced /\ \A s \in seats : s.of = h => s.user \notin hasty

\* Who is connected is shown to be there, in a huddle that others find: so all
\* who join a channel meet in one room.  Once its room is closed a huddle has
\* nobody but those who are about to connect, and without them it is over: no
\* huddle stays for ever.  And a recording that runs can be stopped.  All this
\* without a transaction in joinHuddle(), leaveHuddle() and handleWebhook(),
\* for huddles in which no row was stale when it was saved.
HuddlesHold == Quiet => \A h \in Exists : Orderly(h) =>
  /\ room[h] # NoRoom => \A u \in room[h] : <<h, u>> \in token =>
                            u \in Present(h) /\ huddle[h].isActive
  /\ room[h] = NoRoom => /\ \A u \in Present(h) : <<h, u>> \in token
                         /\ huddle[h].isActive => Present(h) # {}
  /\ running[h] \subseteq {huddle[h].egressId}
  /\ \A k \in Active \ {h} : ~ (Orderly(k) /\ huddle[h].isActive)
=============================================================================
