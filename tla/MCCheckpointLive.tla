--------------------------- MODULE MCCheckpointLive ---------------------------
(* A checkpoint that settles; and, in behaviours of their own, the channels   *)
(* and their cached lists, and the messages in one: what follows their        *)
(* commit, and the lists of them.  They share no state: part says which a     *)
(* behaviour is about.                                                        *)
EXTENDS CheckpointLifecycle, Sequences

CONSTANTS c1, r1, r2, w1, w2, s1, j1, j2, j3, e1
CONSTANTS m1, m2, g1, d1, p1, x1, x2, h1, h2, y1, y2, NoValue

\* Faults an approval survives: no process dies, updates and Redis work.
MCFaultsNoLoss ==
  {"enqueueError", "lostReply", "resend", "toolThrow", "markTool"}

MCRole == [m \in {m1, m2} |-> IF m = m1 THEN "owner" ELSE "admin"]
MCLinks == [x \in {x1, x2, h1, h2} |-> IF x = x1 THEN <<y1, y2>> ELSE <<y1>>]

VARIABLES part,
          rev, version, entry, floor, reader,
          exists, star, members, unread, chanReq, served, chanJob,
          message, todo, queued, hook, l1, l2, preview, edit, shownLast, overtook, undone, raced,
          order, lastId, moves, scan, view, toggle, early,
          pinRev, pinVersion, pinEntry, pinFloor, pinReader

C == INSTANCE Channels WITH
       Members <- {m1, m2}, Groups <- {g1}, Directs <- {d1}, Requests <- {r1, r2},
       Readers <- {p1}, Keys <- {m2, g1}, Jobs <- {<<g1, m1>>}, Role <- MCRole,
       MaxServed <- 3, MaxAttempts <- 2, req <- chanReq, job <- chanJob

E == INSTANCE MessageEvents WITH
       Messages <- {x1, x2, h1, h2}, Hooked <- {h1, h2}, Urls <- {y1, y2}, Links <- MCLinks,
       MaxAttempts <- 2, MaxEdits <- 1, row <- message, job <- preview, shown <- shownLast

M == INSTANCE MessageLists WITH
       MaxId <- 4, MaxMoves <- 2, PageSize <- 1, Scans <- {r1}, Views <- {r1},
       Toggles <- {r1, r2}, Readers <- {p1}, Channel <- g1,
       rev <- pinRev, version <- pinVersion, entry <- pinEntry, floor <- pinFloor,
       reader <- pinReader

channelVars == <<rev, version, entry, floor, reader,
                 exists, star, members, unread, chanReq, served, chanJob>>
eventVars == <<message, todo, queued, hook, l1, l2, preview, edit, shownLast, overtook, undone,
               raced>>
pinVars == <<toggle, early, pinRev, pinVersion, pinEntry, pinFloor, pinReader>>
listVars == <<order, lastId, moves, scan, view, pinVars>>

\* Two requests for everything; three for a group channel, whose star and unread
\* counters are left alone and whose cached lists do not expire.
GroupsOnly == /\ chanJob' = chanJob /\ \A e \in entry : \E f \in entry' : f.key = e.key /\ f.v = e.v
              /\ \A r \in {r1, r2} : chanReq'[r].c # d1 /\ chanReq'[r].op # "read" /\ ~ chanReq'[r].star

ChannelsNext ==
  \/ part = "channels" /\ C!Next /\ served' <= 2
  \/ part = "lists"    /\ C!Next /\ GroupsOnly

\* The previews of two messages that link to one page, with no job that fails; one
\* message, no reply, with its edit, whose page stays in Redis; a webhook, beside a message
\* whose process may end, with no edit and the jobs of previews left in the queue.
Only(xs) == \A x \in {x1, x2, h1, h2} \ xs : message'[x] = message[x]
Short == \A x \in {x1, x2} : \A s \in todo'[x] : Len(s) <= 2

EventsNext ==
  \/ /\ part = "previews"
     /\ \/ E!ExpireL1
        \/ \E x \in {x1, x2} : E!CreateMessage(x) \/ E!Announce(x) \/ E!PreviewStep(x)
     /\ Short
     /\ \A x \in {x1, x2} : queued'[x] \subseteq {"preview"} /\ preview'[x].attempt = 1
                             /\ preview'[x].pc # "failed"
  \/ /\ part = "edit" /\ E!Next /\ Only({x2}) /\ Short
     /\ \A y \in {y1, y2} : l1[y] # None => l1'[y] # None
  \/ /\ part = "webhook" /\ E!Next /\ Only({h1, h2, x2}) /\ edit' = edit
     /\ \A x \in {x2, h1, h2} : preview'[x].pc \in {"none", "queued"} /\ shownLast'[x] # E!Deleted

\* pages, with the list in any order; around one; two pins
ListsNext ==
  \/ part = "threads" /\ M!Next /\ UNCHANGED <<view, pinVars>>
  \/ part = "around"  /\ M!Next /\ M!Descending(order') /\ UNCHANGED <<scan, pinVars>>
  \/ part = "pins"    /\ M!Next /\ pinVersion'[g1] <= 2 /\ order' = order

MCInit == /\ part \in {"checkpoint", "channels", "lists", "previews", "edit", "webhook",
                       "threads", "around", "pins"}
          /\ Init /\ C!Init /\ E!Init /\ M!Init
          /\ part # "checkpoint" => kind[c1] = "approval"

MCNext ==
  /\ part' = part
  /\ \/ part = "checkpoint" /\ Next /\ UNCHANGED <<channelVars, eventVars, listVars>>
     \/ ChannelsNext /\ UNCHANGED <<vars, eventVars, listVars>>
     \/ EventsNext   /\ UNCHANGED <<vars, channelVars, listVars>>
     \/ ListsNext    /\ UNCHANGED <<vars, channelVars, eventVars>>

Deciding(A) == part = "checkpoint" /\ A

\* the fairness of FairSpec, for the part it is about
MCSpec ==
  /\ MCInit /\ [][MCNext]_<<vars, channelVars, eventVars, listVars, part>>
  /\ \A c \in Checkpoints : WF_vars(Deciding(PauseStep(c)))
  /\ \A r \in Requests : WF_vars(Deciding(RequestStep(r)))
  /\ \A w \in Workers : WF_vars(Deciding(WorkerStep(w)))
  /\ \A s \in Sweepers : WF_vars(Deciding(SweepStep(s)))

\* What a member or a channel is shown is not older than the last change, of the
\* channels as of the messages in them, and their lists leave nothing out.
ListsAreFresh ==
  /\ part \in {"channels", "lists"} => C!TypeOK /\ C!ReadsAreFresh
  /\ part \in {"previews", "edit", "webhook"} => E!TypeOK /\ E!EventsHold
  /\ part \in {"threads", "around", "pins"} => M!TypeOK /\ M!ListsHold

==============================================================================
