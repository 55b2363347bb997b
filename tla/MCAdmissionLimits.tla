-------------------------- MODULE MCAdmissionLimits --------------------------
(* The limits of AI triggers; and, in behaviours of their own, the messages  *)
(* of a channel and their notifications.  They share no state: part says     *)
(* which a behaviour is about.                                               *)
EXTENDS AiAdmission, TLC

CONSTANTS m1, m2, m3, m4, u1, u2, w1, w2, user, bot, r1, r2, s1, n1, n2, n3, j1, None

\* Two users of one workspace, the second one in another workspace as well.
MCAuthor == (m1 :> u1) @@ (m2 :> u1) @@ (m3 :> u2) @@ (m4 :> u2)
MCHome   == (m1 :> w1) @@ (m2 :> w1) @@ (m3 :> w1) @@ (m4 :> w2)
\* Everything in one workspace.
MCOneHome == [m \in Messages |-> w1]
\* The messages of one user are interchangeable there.
MCSymmetry == {f \in Permutations(Messages) : \A m \in Messages : MCAuthor[f[m]] = MCAuthor[m]}

NotedAuthor(j) == n1

VARIABLES part,
          row, lastId, reaction, vote, req, lock, shown, pinnedOver, served, scan,
          members, changes, noteJob, pushing, note, reads, effect, emitted, badge, made, mixed

M == INSTANCE Messages WITH
       Users <- {user, bot}, Bot <- bot, Requests <- {r1, r2}, Scans <- {s1},
       MaxId <- 2, MaxServed <- 2, PageSize <- 1

N == INSTANCE Notifications WITH
       Users <- {n1, n2, n3}, Jobs <- {j1}, Author <- NotedAuthor,
       MaxAttempts <- 2, MaxStalls <- 1, MaxChanges <- 1, MaxReads <- 1, row <- note, job <- noteJob

noteVars == <<members, changes, noteJob, pushing, note, reads, effect, emitted, badge, made, mixed>>
messageVars == <<row, lastId, reaction, vote, req, lock, shown, pinnedOver, served, scan>>

\* Notifications are read, or a worker stalls.
Calm == noteJob'[j1].stalls = 0

MCInit == /\ part \in {"admission", "edits", "pages", "notified", "badges"}
          /\ Init /\ M!Init /\ N!Init

MCNext ==
  \/ part = "admission" /\ Next   /\ UNCHANGED <<messageVars, noteVars, part>>
  \/ part = "edits"     /\ M!Next /\ scan' = scan  /\ UNCHANGED <<vars, noteVars, part>>
  \/ part = "pages"     /\ M!Next /\ served' <= 1  /\ UNCHANGED <<vars, noteVars, part>>
  \/ part = "notified"  /\ N!Next /\ reads' = 0    /\ UNCHANGED <<vars, messageVars, part>>
  \/ part = "badges"    /\ N!Next /\ Calm          /\ UNCHANGED <<vars, messageVars, part>>

MCSpec == MCInit /\ [][MCNext]_<<vars, messageVars, noteVars, part>>
DepthSpec == (MCInit /\ part = "admission") /\ [][MCNext]_<<vars, messageVars, noteVars, part>>

\* Edits are shown as they are stored, pages miss and repeat nothing, and everybody
\* is notified.
MessagesHold ==
  /\ part \in {"edits", "pages"}     => M!TypeOK /\ M!EditsShown /\ M!PagesComplete
  /\ part \in {"notified", "badges"} => N!TypeOK /\ N!EveryoneNotified /\ N!BadgeCounts

==============================================================================
