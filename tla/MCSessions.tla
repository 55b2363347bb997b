------------------------------ MODULE MCSessions ------------------------------
(* Sessions of one user: two log-ins or rotations and a few requests at once. *)
(* In behaviours of their own, a workspace: its row, the lists of its         *)
(* members, its single sign-on.  The two share no state: part says which a    *)
(* behaviour is about.                                                       *)
EXTENDS Sessions

CONSTANTS t1, t2, t3, t4, r1, r2, r3, r4, r5, u1, u2, p1

VARIABLES part,
          rev, listVersion, entry, floor, reader,
          ws, sso, detail, setReq, served, writes, past

W == INSTANCE WorkspaceSettings WITH
       Users <- {u1, u2}, Owner <- u1, Keys <- {u1, u2}, Readers <- {p1}, NoValue <- None,
       Requests <- {r1, r2}, MaxServed <- 3, MaxRetries <- 2,
       version <- listVersion, req <- setReq

workspaceVars == <<rev, listVersion, entry, floor, reader,
                   ws, sso, detail, setReq, served, writes, past>>

\* only the part of the row begins with a workspace that is to be created
MCInit ==
  /\ part \in {"sessions", "row", "lists", "sso"} /\ Init /\ W!Init
  /\ part = "row" \/ ws.born

\* Requests and pairs are interchangeable: they are taken in order.
Earlier(q, r) == req'[r].pc # "new" => req'[q].pc # "new"
Sooner(s, t)  == row'[t] # "unused" => row'[s] # "unused"
InTheirOrder ==
  /\ Earlier(r1, r2) /\ Earlier(r2, r3) /\ Earlier(r3, r4) /\ Earlier(r4, r5)
  /\ req'[r5].op \in {"none", "refresh"}
  /\ Sooner(t1, t2) /\ Sooner(t2, t3)

Asked(ops) == \A r \in {r1, r2} : setReq'[r].op \in ops \cup {"none"}
NoReader == reader' = reader

\* three requests, where one creates and one reads and the other changes any column; two
\* where the list of one member is read too, which then does not expire
MCNext ==
  /\ part' = part
  /\ \/ part = "sessions" /\ Next /\ InTheirOrder /\ UNCHANGED workspaceVars
     \/ /\ part = "row" /\ W!Next /\ UNCHANGED vars
        /\ Asked({"create", "update", "delete", "get"}) /\ NoReader
        /\ setReq'[r1].op # "get" /\ setReq'[r1].cols \subseteq {"name"}
        /\ setReq'[r2].op # "create"
     \/ /\ part = "lists" /\ W!Next /\ UNCHANGED vars
        /\ Asked({"update", "delete", "join"}) /\ served' <= 2 /\ entry \subseteq entry'
        /\ reader'[p1].key # u1
     \/ /\ part = "sso" /\ W!Next /\ UNCHANGED vars
        /\ Asked({"delete", "sso"}) /\ NoReader

Serving(A) == part = "sessions" /\ A

\* the fairness of FairSpec, for the part it is about
MCSpec ==
  /\ MCInit /\ [][MCNext]_<<vars, workspaceVars, part>>
  /\ \A r \in Requests : WF_vars(Serving(Proceed(r)))

\* What is changed of a workspace stays and is shown, and one that is deleted is gone.
SettingsHold == part # "sessions" =>
  W!TypeOK /\ W!ChangesKept /\ W!GoneStaysGone /\ W!ListsShown /\ W!SecretKept

=============================================================================
