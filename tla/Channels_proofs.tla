--------------------------- MODULE Channels_proofs ---------------------------
(***************************************************************************)
(* A cached list of the channel service is as fresh as the last request    *)
(* that had ended, for any number of requests, readers, members and        *)
(* channels, however they overlap.                                         *)
(***************************************************************************)
EXTENDS Channels, TLAPS

Points == {"idle", "lookup", "query", "store", "wait", "done"}
Reader == [pc : Points, key : Keys \cup {NoValue}, v : Nat, got : Nat \cup {NoValue},
           floor : Nat]
Ops == {"none", "create", "save", "delete", "add", "remove", "all", "read"}
Request == [pc : {"idle", "checked", "committed"}, op : Ops, c : Channel \cup {NoValue},
            t : SUBSET Members, seen : SUBSET (Members \cup Channel), star : BOOLEAN,
            written : SUBSET [key : Keys, value : Nat]]

\* The rows of the service, as far as the lists need them.
RowsTyped ==
  /\ exists \subseteq Channel /\ star \in [Channel -> BOOLEAN]
  /\ members \in [Channel -> SUBSET Members]

CountsTyped == rev \in [Keys -> Nat] /\ version \in [Keys -> Nat] /\ floor \in [Keys -> Nat]

ListsTyped ==
  /\ entry \subseteq [key : Keys, v : Nat, value : Nat]
  /\ reader \in [Readers -> Reader]

\* What a request has written is committed, and its trackers are those of the
\* lists it has changed; a save finds its own at the end.
Tracked(q) ==
  \A w \in q.written :
    /\ w.value <= rev[w.key] /\ q.op # "none"
    /\ q.op \in {"create", "read"} => w.key \in q.t
    /\ q.op = "delete" => w.key \in q.seen
    /\ q.op \in {"add", "remove"} => w.key \in q.t \cup {q.c}
    /\ q.op = "all" => w.key \in q.t \cup q.seen

RequestInv ==
  /\ req \in [Requests -> Request]
  /\ \A r \in Requests :
       /\ Tracked(req[r])
       /\ req[r].pc # "idle" /\ req[r].op \notin {"none", "all"} => req[r].c \in Channel

\* What the lists hold, against what has been written and what has ended.
Current ==
  /\ \A k \in Keys : floor[k] <= rev[k]
  /\ \A e \in entry : /\ e.v <= version[e.key] /\ e.value <= rev[e.key]
                      /\ e.v = version[e.key] => e.value >= floor[e.key]
  /\ \A e, f \in entry : e.key = f.key /\ e.v = f.v => e = f

\* A reader under way: the version it read stands for the changes that had ended.
Busy(p) == reader[p].pc # "idle"
Asking(p) ==
  Busy(p) =>
    /\ reader[p].key \in Keys /\ reader[p].v <= version[reader[p].key]
    /\ reader[p].floor <= rev[reader[p].key]
    /\ reader[p].v = version[reader[p].key] => reader[p].floor = floor[reader[p].key]
    /\ reader[p].pc \in {"store", "done"} =>
         /\ reader[p].got \in Nat /\ reader[p].got >= reader[p].floor
         /\ reader[p].got <= rev[reader[p].key]

\* The same version of a list: the same changes for every reader, and in the entry.
Together(p, q) ==
  /\ Busy(p) /\ Busy(q) /\ reader[p].key = reader[q].key /\ reader[p].v = reader[q].v
  => reader[p].floor = reader[q].floor
Holds(e, p) ==
  /\ Busy(p) /\ e.key = reader[p].key /\ e.v = reader[p].v => e.value >= reader[p].floor

ReaderInv ==
  /\ \A p \in Readers : Asking(p)
  /\ \A p, q \in Readers : Together(p, q)
  /\ \A e \in entry, p \in Readers : Holds(e, p)

FreshInv == RowsTyped /\ CountsTyped /\ ListsTyped /\ RequestInv /\ Current /\ ReaderInv

LEMMA InitFresh == Init => FreshInv
<1> SUFFICES ASSUME Init PROVE FreshInv
  OBVIOUS
<1> USE DEF Init, CacheInit
<1>1. RowsTyped /\ CountsTyped
  BY DEF RowsTyped, CountsTyped
<1>2. ListsTyped
  BY DEF ListsTyped, Reader, IdleReader, Points
<1>3. RequestInv
  BY DEF RequestInv, Request, Idle, Ops, Tracked
<1>4. Current
  BY DEF Current
<1>5. ReaderInv
  BY DEF ReaderInv, Asking, Together, Holds, Busy, IdleReader
<1> QED BY <1>1, <1>2, <1>3, <1>4, <1>5 DEF FreshInv

-----------------------------------------------------------------------------
(* Readers.                                                                *)

\* Only the readers and the entries change.
LEMMA ServiceStays ==
  ASSUME FreshInv, UNCHANGED <<chanVars, rev, version, floor>>
  PROVE  RowsTyped' /\ CountsTyped' /\ RequestInv'
BY DEF FreshInv, chanVars, RowsTyped, CountsTyped, RequestInv, Tracked, Request

\* One reader moves on without a list, or with one that is fresh.
LEMMA ReaderMoves ==
  ASSUME FreshInv, UNCHANGED <<rev, version, floor, entry>>,
         NEW p \in Readers, NEW x \in Reader, reader' = [reader EXCEPT ![p] = x],
         Asking(p)', x.pc # "idle" =>
           /\ \A q \in Readers : (q # p) => Together(p, q)'
           /\ \A e \in entry : Holds(e, p)'
  PROVE  ListsTyped' /\ Current' /\ ReaderInv'
<1> USE DEF FreshInv
<1>1. \A q \in Readers \ {p} : reader'[q] = reader[q]
  BY DEF ListsTyped
<1>2. reader'[p] = x
  BY DEF ListsTyped
<1>3. ListsTyped' /\ Current'
  BY DEF ListsTyped, Current
<1>4. \A q \in Readers : Asking(q)'
  BY <1>1 DEF ReaderInv, Asking, Busy
<1>5. \A q, r \in Readers : Together(q, r)'
  <2> TAKE q, r \in Readers
  <2>1. CASE q # p /\ r # p
    BY <1>1, <2>1 DEF ReaderInv, Together, Busy
  <2>2. CASE q = p \/ r = p
    BY <1>2, <2>2 DEF Together, Busy
  <2> QED BY <2>1, <2>2
<1>6. \A e \in entry', q \in Readers : Holds(e, q)'
  BY <1>1, <1>2 DEF ReaderInv, Holds, Busy
<1> QED BY <1>3, <1>4, <1>5, <1>6 DEF ReaderInv

LEMMA GetVersionKeeps ==
  ASSUME FreshInv, NEW p \in Readers, NEW k \in Keys, GetVersion(p, k)
  PROVE  ListsTyped' /\ Current' /\ ReaderInv'
<1> DEFINE x == [pc |-> "lookup", key |-> k, v |-> version[k], got |-> NoValue,
                 floor |-> floor[k]]
<1>1. /\ reader' = [reader EXCEPT ![p] = x] /\ UNCHANGED <<rev, version, floor, entry>>
      /\ version[k] \in Nat /\ floor[k] \in Nat /\ floor[k] <= rev[k] /\ reader'[p] = x
  BY DEF GetVersion, FreshInv, CountsTyped, Current, ListsTyped
<1>2. x \in Reader
  BY <1>1 DEF Reader, Points
<1>3. Asking(p)'
  BY <1>1 DEF Asking
<1>4. ASSUME NEW q \in Readers, q # p PROVE Together(p, q)'
  <2>1. reader'[q] = reader[q]
    BY <1>1, <1>4 DEF FreshInv, ListsTyped
  <2> QED BY <1>1, <2>1 DEF Together, Busy, FreshInv, ReaderInv, Asking
<1>5. ASSUME NEW e \in entry PROVE Holds(e, p)'
  BY <1>1, <1>5 DEF Holds, FreshInv, Current
<1> HIDE DEF x
<1> QED BY <1>1, <1>2, <1>3, <1>4, <1>5, ReaderMoves

LEMMA LookupKeeps ==
  ASSUME FreshInv, NEW p \in Readers, Lookup(p)
  PROVE  ListsTyped' /\ Current' /\ ReaderInv'
<1>1. /\ reader[p].pc = "lookup" /\ reader[p] \in Reader /\ UNCHANGED <<rev, version, floor, entry>>
      /\ Asking(p) /\ \A q \in Readers : Together(p, q)
  BY DEF Lookup, FreshInv, ListsTyped, ReaderInv
<1>2. PICK x \in Reader :
        /\ reader' = [reader EXCEPT ![p] = x]
        /\ x.key = reader[p].key /\ x.v = reader[p].v /\ x.floor = reader[p].floor
        /\ \/ x.pc \in {"wait", "query"}
           \/ x.pc = "done" /\ \E e \in EntryOf(reader[p].key, reader[p].v) : x.got = e.value
  <2>1. CASE EntryOf(reader[p].key, reader[p].v) = {}
    <3> DEFINE y == [reader[p] EXCEPT !.pc = IF \E q \in Readers : Flying(q, p)
                                             THEN "wait" ELSE "query"]
    <3>1. y \in Reader
      BY <1>1 DEF Reader, Points
    <3>2. reader' = [reader EXCEPT ![p] = y]
      BY <2>1 DEF Lookup
    <3>3. y.key = reader[p].key /\ y.v = reader[p].v /\ y.floor = reader[p].floor
          /\ y.pc \in {"wait", "query"}
      BY <1>1 DEF Reader
    <3> HIDE DEF y
    <3> QED BY <3>1, <3>2, <3>3
  <2>2. ASSUME NEW e \in EntryOf(reader[p].key, reader[p].v),
               reader' = [reader EXCEPT ![p].pc = "done", ![p].got = e.value]
        PROVE  \E y \in Reader :
                 /\ reader' = [reader EXCEPT ![p] = y]
                 /\ y.key = reader[p].key /\ y.v = reader[p].v /\ y.floor = reader[p].floor
                 /\ y.pc = "done" /\ y.got = e.value
    <3> DEFINE y == [reader[p] EXCEPT !.pc = "done", !.got = e.value]
    <3>1. e.value \in Nat
      BY DEF EntryOf, FreshInv, ListsTyped
    <3>2. y \in Reader
      BY <1>1, <3>1 DEF Reader, Points
    <3>3. reader' = [reader EXCEPT ![p] = y]
      BY <2>2 DEF FreshInv, ListsTyped
    <3>4. y.key = reader[p].key /\ y.v = reader[p].v /\ y.floor = reader[p].floor
          /\ y.pc = "done" /\ y.got = e.value
      BY <1>1 DEF Reader
    <3> HIDE DEF y
    <3> QED BY <3>2, <3>3, <3>4
  <2> QED BY <2>1, <2>2 DEF Lookup
<1>3. reader'[p] = x
  BY <1>2 DEF FreshInv, ListsTyped
<1>4. Asking(p)'
  <2>1. ASSUME x.pc = "done"
        PROVE  x.got \in Nat /\ x.got >= x.floor /\ x.got <= rev[x.key]
    <3>1. PICK e \in entry : e.key = x.key /\ e.v = x.v /\ x.got = e.value
      BY <1>2, <2>1 DEF EntryOf
    <3>2. Holds(e, p) /\ e.value \in Nat /\ e.value <= rev[e.key]
      BY DEF FreshInv, ReaderInv, Current, ListsTyped
    <3> QED BY <1>1, <1>2, <3>1, <3>2 DEF Holds, Busy
  <2> QED BY <1>1, <1>2, <1>3, <2>1 DEF Asking, Busy
<1>5. ASSUME NEW q \in Readers, q # p PROVE Together(p, q)'
  <2>1. reader'[q] = reader[q]
    BY <1>2, <1>5 DEF FreshInv, ListsTyped
  <2> QED BY <1>1, <1>2, <1>3, <2>1 DEF Together, Busy
<1>6. ASSUME NEW e \in entry PROVE Holds(e, p)'
  <2>1. Holds(e, p)
    BY DEF FreshInv, ReaderInv
  <2> QED BY <1>1, <1>2, <1>3, <2>1 DEF Holds, Busy
<1> QED BY <1>1, <1>2, <1>4, <1>5, <1>6, ReaderMoves

LEMMA FetchKeeps ==
  ASSUME FreshInv, NEW p \in Readers, Fetch(p)
  PROVE  ListsTyped' /\ Current' /\ ReaderInv'
<1> DEFINE x == [reader[p] EXCEPT !.pc = "store", !.got = rev[reader[p].key]]
<1>1. /\ reader[p].pc = "query" /\ reader[p] \in Reader /\ UNCHANGED <<rev, version, floor, entry>>
      /\ Asking(p) /\ \A q \in Readers : Together(p, q)
  BY DEF Fetch, FreshInv, ListsTyped, ReaderInv
<1>2. rev[reader[p].key] \in Nat
  BY <1>1 DEF Asking, Busy, FreshInv, CountsTyped
<1>3. x \in Reader /\ x.key = reader[p].key /\ x.v = reader[p].v /\ x.floor = reader[p].floor
      /\ x.pc = "store" /\ x.got = rev[reader[p].key]
  BY <1>1, <1>2 DEF Reader, Points
<1>4. reader' = [reader EXCEPT ![p] = x]
  BY DEF Fetch, FreshInv, ListsTyped
<1> HIDE DEF x
<1>5. reader'[p] = x
  BY <1>4 DEF FreshInv, ListsTyped
<1>6. Asking(p)'
  BY <1>1, <1>2, <1>3, <1>5 DEF Asking, Busy
<1>7. ASSUME NEW q \in Readers, q # p PROVE Together(p, q)'
  <2>1. reader'[q] = reader[q]
    BY <1>4, <1>7 DEF FreshInv, ListsTyped
  <2> QED BY <1>1, <1>3, <1>5, <2>1 DEF Together, Busy
<1>8. ASSUME NEW e \in entry PROVE Holds(e, p)'
  <2>1. Holds(e, p)
    BY DEF FreshInv, ReaderInv
  <2> QED BY <1>1, <1>3, <1>5, <2>1 DEF Holds, Busy
<1> QED BY <1>1, <1>3, <1>4, <1>6, <1>7, <1>8, ReaderMoves

\* The end of a flight: what it found is at least what had ended when any reader
\* of its version asked.
LEMMA StoreKeeps ==
  ASSUME FreshInv, NEW p \in Readers, Store(p)
  PROVE  ListsTyped' /\ Current' /\ ReaderInv'
<1> DEFINE k == reader[p].key
           n == [key |-> k, v |-> reader[p].v, value |-> reader[p].got]
<1>1. /\ reader[p].pc = "store" /\ reader[p] \in Reader /\ UNCHANGED <<rev, version, floor>>
      /\ k \in Keys /\ reader[p].v <= version[k] /\ reader[p].v \in Nat
      /\ reader[p].got \in Nat /\ reader[p].got >= reader[p].floor /\ reader[p].got <= rev[k]
      /\ (reader[p].v = version[k] => reader[p].floor = floor[k])
  BY DEF Store, FreshInv, ListsTyped, ReaderInv, Asking, Busy, Reader
<1>2. entry' = (entry \ EntryOf(k, reader[p].v)) \cup {n}
  BY DEF Store
<1>3. \A e \in entry' : e = n \/ (e \in entry /\ ~(e.key = k /\ e.v = reader[p].v))
  BY <1>2 DEF EntryOf
<1>4. n \in [key : Keys, v : Nat, value : Nat] /\ n.key = k /\ n.v = reader[p].v
      /\ n.value = reader[p].got
  BY <1>1
<1> HIDE DEF n
<1>5. Current'
  BY <1>1, <1>3, <1>4 DEF FreshInv, Current
<1>6. ASSUME NEW q \in Readers
      PROVE  /\ reader'[q] \in Reader /\ reader'[q].key = reader[q].key
             /\ reader'[q].v = reader[q].v /\ reader'[q].floor = reader[q].floor
             /\ Busy(q)' <=> Busy(q)
             /\ \/ reader'[q] = reader[q]
                \/ /\ Busy(q) /\ reader'[q].pc = "done" /\ reader'[q].got = reader[p].got
                   /\ reader[q].key = k /\ reader[q].v = reader[p].v
  <2>1. reader[q] \in Reader
    BY DEF FreshInv, ListsTyped
  <2>2. CASE q = p \/ (reader[q].pc = "wait" /\ reader[q].key = k /\ reader[q].v = reader[p].v)
    <3>1. reader'[q] = [reader[q] EXCEPT !.pc = "done", !.got = reader[p].got]
      BY <2>2 DEF Store
    <3> QED BY <1>1, <2>1, <2>2, <3>1 DEF Reader, Points, Busy
  <2>3. CASE ~(q = p \/ (reader[q].pc = "wait" /\ reader[q].key = k /\ reader[q].v = reader[p].v))
    <3>1. reader'[q] = reader[q]
      BY <2>3 DEF Store
    <3> QED BY <2>1, <3>1 DEF Busy
  <2> QED BY <2>2, <2>3
<1>7. ListsTyped'
  <2>1. entry' \subseteq [key : Keys, v : Nat, value : Nat]
    BY <1>3, <1>4 DEF FreshInv, ListsTyped
  <2>2. reader' \in [Readers -> Reader]
    BY <1>6 DEF Store
  <2> QED BY <2>1, <2>2 DEF ListsTyped
<1>8. ASSUME NEW q \in Readers PROVE Asking(q)'
  <2>1. Asking(q) /\ Together(p, q)
    BY DEF FreshInv, ReaderInv
  <2>2. CASE reader'[q] = reader[q]
    BY <1>1, <2>1, <2>2 DEF Asking, Busy
  <2>3. CASE /\ Busy(q) /\ reader'[q].pc = "done" /\ reader'[q].got = reader[p].got
             /\ reader[q].key = k /\ reader[q].v = reader[p].v
    <3>1. reader[q].floor = reader[p].floor
      BY <1>1, <2>1, <2>3 DEF Together, Busy
    <3> QED BY <1>1, <1>6, <2>1, <2>3, <3>1 DEF Asking, Busy
  <2> QED BY <1>6, <2>2, <2>3
<1>9. ASSUME NEW q \in Readers, NEW r \in Readers PROVE Together(q, r)'
  <2>1. Together(q, r)
    BY DEF FreshInv, ReaderInv
  <2> QED BY <1>6, <2>1 DEF Together
<1>10. ASSUME NEW e \in entry', NEW q \in Readers PROVE Holds(e, q)'
  <2>1. CASE e \in entry
    <3>1. Holds(e, q)
      BY <2>1 DEF FreshInv, ReaderInv
    <3> QED BY <1>6, <3>1 DEF Holds
  <2>2. CASE e = n
    <3>1. Together(p, q)
      BY DEF FreshInv, ReaderInv
    <3> QED BY <1>1, <1>4, <1>6, <2>2, <3>1 DEF Holds, Together, Busy
  <2> QED BY <1>3, <2>1, <2>2
<1> QED BY <1>5, <1>7, <1>8, <1>9, <1>10 DEF ReaderInv

LEMMA RespondKeeps ==
  ASSUME FreshInv, NEW p \in Readers, Respond(p)
  PROVE  ListsTyped' /\ Current' /\ ReaderInv'
<1>1. reader' = [reader EXCEPT ![p] = IdleReader] /\ UNCHANGED <<rev, version, floor, entry>>
      /\ reader'[p] = IdleReader
  BY DEF Respond, FreshInv, ListsTyped
<1>2. IdleReader \in Reader /\ IdleReader.pc = "idle"
  BY DEF IdleReader, Reader, Points
<1>3. Asking(p)'
  BY <1>1, <1>2 DEF Asking, Busy
<1> QED BY <1>1, <1>2, <1>3, ReaderMoves

LEMMA CacheKeeps ==
  ASSUME FreshInv, CacheNext, UNCHANGED chanVars
  PROVE  FreshInv'
<1>1. UNCHANGED <<rev, version, floor>>
  BY DEF CacheNext, GetVersion, Lookup, Fetch, Store, Respond, ExpireEntry
<1>2. ListsTyped' /\ Current' /\ ReaderInv'
  <2>1. CASE ExpireEntry
    <3>1. entry' \subseteq entry /\ UNCHANGED <<rev, version, floor, reader>>
      BY <2>1 DEF ExpireEntry
    <3> QED BY <3>1 DEF FreshInv, ListsTyped, Current, ReaderInv, Asking, Together, Holds, Busy
  <2> QED BY <2>1, GetVersionKeeps, LookupKeeps, FetchKeeps, StoreKeeps, RespondKeeps
          DEF CacheNext
<1> QED BY <1>1, <1>2, ServiceStays DEF FreshInv

-----------------------------------------------------------------------------
(* Requests and jobs.                                                      *)

\* Lists and readers do not notice what leaves the cache alone.
LEMMA CacheStays ==
  ASSUME FreshInv, UNCHANGED cacheVars
  PROVE  CountsTyped' /\ ListsTyped' /\ Current' /\ ReaderInv'
BY DEF FreshInv, cacheVars, CountsTyped, ListsTyped, Current, ReaderInv, Asking, Together,
       Holds, Busy

LEMMA BeginKeeps ==
  ASSUME FreshInv, NEW r \in Requests, NEW q \in Request, Begin(r, q),
         q.written = {}, q.pc # "idle" /\ q.op \notin {"none", "all"} => q.c \in Channel
  PROVE  FreshInv'
<1>1. req' = [req EXCEPT ![r] = q] /\ UNCHANGED <<cacheVars, exists, star, members, rev>>
  BY DEF Begin, cacheVars
<1>2. RequestInv'
  <2>1. req' \in [Requests -> Request]
    BY <1>1 DEF FreshInv, RequestInv
  <2>2. ASSUME NEW s \in Requests
        PROVE  /\ Tracked(req[s])'
               /\ req'[s].pc # "idle" /\ req'[s].op \notin {"none", "all"} => req'[s].c \in Channel
    <3>1. CASE s = r
      BY <1>1, <3>1 DEF FreshInv, RequestInv, Tracked
    <3>2. CASE s # r
      BY <1>1, <3>2 DEF FreshInv, RequestInv, Tracked
    <3> QED BY <3>1, <3>2
  <2> QED BY <2>1, <2>2 DEF RequestInv
<1>3. RowsTyped'
  BY <1>1 DEF FreshInv, RowsTyped
<1> QED BY <1>1, <1>2, <1>3, CacheStays DEF FreshInv

\* What is known of a request that has passed its checks.
LEMMA CheckedType ==
  ASSUME RowsTyped, NEW op \in Ops, NEW c \in Channel, NEW t \in SUBSET Members
  PROVE  /\ Checked(op, c, t) \in Request /\ Checked(op, c, t).written = {}
         /\ Checked(op, c, t).c = c /\ Checked(op, c, t).op = op
BY DEF Checked, Idle, Request, RowsTyped, Ops

LEMMA StartKeeps ==
  ASSUME FreshInv, NEW r \in Requests, Start(r)
  PROVE  FreshInv'
<1>0. /\ RowsTyped /\ exists \subseteq Channel /\ Groups \subseteq Channel
      /\ Directs \subseteq Channel /\ \A c \in Channel : star[c] \in BOOLEAN
  BY DEF FreshInv, RowsTyped, Channel
<1>1. \A op \in Ops, c \in Channel, t \in SUBSET Members :
        Begin(r, Checked(op, c, t)) => FreshInv'
  BY <1>0, CheckedType, BeginKeeps
<1>2. CASE CreateGroup(r)
  <2>1. PICK c \in Groups, who \in Members : Begin(r, Checked("create", c, {who}))
    BY <1>2 DEF CreateGroup
  <2> QED BY <1>0, <1>1, <2>1 DEF Ops
<1>3. CASE UpdateChannel(r)
  <2>1. PICK c \in exists : Begin(r, Checked("save", c, {}))
    BY <1>3 DEF UpdateChannel
  <2> QED BY <1>0, <1>1, <2>1 DEF Ops
<1>4. CASE DeleteChannel(r)
  <2>1. PICK c \in exists : Begin(r, Checked("delete", c, {}))
    BY <1>4 DEF DeleteChannel
  <2> QED BY <1>0, <1>1, <2>1 DEF Ops
<1>5. CASE AddMember(r)
  <2>1. PICK c \in exists, who \in Members : Begin(r, Checked("add", c, {who}))
    BY <1>5 DEF AddMember
  <2> QED BY <1>0, <1>1, <2>1 DEF Ops
<1>6. CASE AddBatchMembers(r)
  <2>1. PICK c \in exists, t \in SUBSET Members : Begin(r, Checked("add", c, t))
    BY <1>6 DEF AddBatchMembers
  <2> QED BY <1>0, <1>1, <2>1 DEF Ops
<1>7. CASE RemoveMember(r)
  <2>1. PICK c \in exists, who \in Members : Begin(r, Checked("remove", c, {who}))
    BY <1>7 DEF RemoveMember
  <2> QED BY <1>0, <1>1, <2>1 DEF Ops
<1>8. CASE LeaveChannel(r)
  <2>1. PICK c \in exists, who \in Members : Begin(r, Checked("remove", c, {who}))
    BY <1>8 DEF LeaveChannel
  <2> QED BY <1>0, <1>1, <2>1 DEF Ops
<1>9. CASE MarkAsRead(r)
  <2>1. PICK c \in exists, who \in Members : Begin(r, Checked("read", c, {who}))
    BY <1>9 DEF MarkAsRead
  <2> QED BY <1>0, <1>1, <2>1 DEF Ops
<1>10. CASE CreateDirect(r)
  <2>1. ASSUME NEW c \in Directs, NEW pair \in SUBSET Members,
               Begin(r, [Checked("create", c, pair) EXCEPT !.pc = "committed"])
        PROVE  FreshInv'
    <3> DEFINE q == [Checked("create", c, pair) EXCEPT !.pc = "committed"]
    <3>1. c \in Channel /\ "create" \in Ops
      BY <1>0 DEF Ops
    <3>2. q \in Request /\ q.written = {} /\ q.c \in Channel
      <4>1. /\ Checked("create", c, pair) \in Request
            /\ Checked("create", c, pair).written = {} /\ Checked("create", c, pair).c = c
        BY <1>0, <3>1, CheckedType
      <4> QED BY <3>1, <4>1 DEF Request
    <3> HIDE DEF q
    <3> QED BY <2>1, <3>2, BeginKeeps DEF q
  <2> QED BY <1>0, <1>1, <1>10, <2>1 DEF CreateDirect, Ops
<1>11. CASE ToggleStar(r)
  <2>1. PICK c \in exists : Begin(r, [Checked("save", c, {}) EXCEPT !.star = ~ star[c]])
    BY <1>11 DEF ToggleStar
  <2> DEFINE q == [Checked("save", c, {}) EXCEPT !.star = ~ star[c]]
  <2>2. c \in Channel /\ "save" \in Ops /\ (~ star[c]) \in BOOLEAN
    BY <1>0 DEF Ops
  <2>3. q \in Request /\ q.written = {} /\ q.c \in Channel
    <3>1. /\ Checked("save", c, {}) \in Request
          /\ Checked("save", c, {}).written = {} /\ Checked("save", c, {}).c = c
      BY <1>0, <2>2, CheckedType
    <3> QED BY <2>2, <3>1 DEF Request
  <2> HIDE DEF q
  <2> QED BY <2>1, <2>3, BeginKeeps DEF q
<1>12. CASE RemoveMemberFromAllChannels(r)
  <2>1. PICK who \in Members :
          Begin(r, [Idle EXCEPT !.pc = "checked", !.op = "all", !.t = {who},
                                !.seen = {c \in Channel : who \in members[c]}])
    BY <1>12 DEF RemoveMemberFromAllChannels
  <2> DEFINE q == [Idle EXCEPT !.pc = "checked", !.op = "all", !.t = {who},
                               !.seen = {c \in Channel : who \in members[c]}]
  <2>2. q \in Request /\ q.written = {} /\ q.op = "all"
    BY <1>0 DEF Idle, Request, Ops, RowsTyped
  <2> HIDE DEF q
  <2> QED BY <2>1, <2>2, BeginKeeps DEF q
<1> QED
  BY <1>2, <1>3, <1>4, <1>5, <1>6, <1>7, <1>8, <1>9, <1>10, <1>11, <1>12 DEF Start

\* A commit moves the revision of what it changes.
LEMMA WroteKeeps ==
  ASSUME FreshInv, RowsTyped', NEW r \in Requests, NEW ks, Wrote(r, ks),
         req[r].op # "none",
         req[r].op \notin {"none", "all"} => req[r].c \in Channel,
         req[r].op \in {"create", "read"} => ks \subseteq req[r].t,
         req[r].op = "delete" => ks \subseteq req[r].seen,
         req[r].op \in {"add", "remove"} => ks \subseteq req[r].t \cup {req[r].c},
         req[r].op = "all" => ks \subseteq req[r].t \cup req[r].seen
  PROVE  FreshInv'
<1>1. /\ UNCHANGED <<version, entry, floor, reader>>
      /\ req' = [req EXCEPT ![r].pc = "committed", ![r].written = Revisions(ks)]
      /\ rev' = [k \in Keys |-> IF k \in ks THEN rev[k] + 1 ELSE rev[k]]
  BY DEF Wrote, Changed
<1>2. rev' \in [Keys -> Nat] /\ \A k \in Keys : rev[k] \in Nat /\ rev[k] <= rev'[k]
  BY <1>1 DEF FreshInv, CountsTyped
<1>3. \A w \in Revisions(ks) : /\ w \in [key : Keys, value : Nat] /\ w.key \in ks
                               /\ w.value = rev'[w.key]
  BY <1>1, <1>2 DEF Revisions
<1>4. CountsTyped' /\ ListsTyped'
  BY <1>1, <1>2 DEF FreshInv, CountsTyped, ListsTyped
<1>5. Current'
  <2>1. \A k \in Keys : floor[k] <= rev'[k]
    BY <1>2 DEF FreshInv, Current, CountsTyped
  <2>2. \A e \in entry : e.value <= rev'[e.key]
    BY <1>2 DEF FreshInv, Current, ListsTyped
  <2> QED BY <1>1, <2>1, <2>2 DEF FreshInv, Current
<1>6. ReaderInv'
  <2>1. ASSUME NEW p \in Readers PROVE Asking(p)'
    <3>1. Asking(p) /\ reader[p] \in Reader
      BY DEF FreshInv, ReaderInv, ListsTyped
    <3>2. CASE Busy(p)
      <4>1. rev[reader[p].key] <= rev'[reader[p].key] /\ rev'[reader[p].key] \in Nat
            /\ rev[reader[p].key] \in Nat
        BY <1>2, <3>1, <3>2 DEF Asking
      <4> QED BY <1>1, <3>1, <3>2, <4>1 DEF Asking, Busy, Reader
    <3>3. CASE ~Busy(p)
      BY <1>1, <3>3 DEF Asking, Busy
    <3> QED BY <3>2, <3>3
  <2> QED BY <1>1, <2>1 DEF FreshInv, ReaderInv, Together, Holds, Busy
<1>7. RequestInv'
  <2>1. req[r] \in Request
    BY DEF FreshInv, RequestInv
  <2>2. req'[r] = [req[r] EXCEPT !.pc = "committed", !.written = Revisions(ks)]
    BY <1>1 DEF FreshInv, RequestInv
  <2>3. /\ req'[r] \in Request /\ req'[r].op = req[r].op /\ req'[r].t = req[r].t
        /\ req'[r].seen = req[r].seen /\ req'[r].c = req[r].c /\ req'[r].written = Revisions(ks)
    BY <1>3, <2>1, <2>2 DEF Request
  <2>4. req' \in [Requests -> Request]
    BY <1>1, <2>3 DEF FreshInv, RequestInv
  <2>5. Tracked(req[r])'
    BY <1>2, <1>3, <2>3 DEF Tracked
  <2>6. ASSUME NEW s \in Requests, s # r
        PROVE  /\ Tracked(req[s])'
               /\ req'[s].pc # "idle" /\ req'[s].op \notin {"none", "all"} => req'[s].c \in Channel
    <3>1. req'[s] = req[s] /\ Tracked(req[s]) /\ req[s] \in Request
      BY <1>1, <2>6 DEF FreshInv, RequestInv
    <3>2. \A w \in req[s].written : w.key \in Keys /\ w.value \in Nat
      BY <3>1 DEF Request
    <3> QED BY <1>2, <3>1, <3>2 DEF Tracked, FreshInv, RequestInv
  <2> QED BY <2>3, <2>4, <2>5, <2>6 DEF RequestInv
<1> QED BY <1>4, <1>5, <1>6, <1>7 DEF FreshInv

\* A request that is answered without a trace.
LEMMA DropKeeps ==
  ASSUME FreshInv, NEW r \in Requests, req' = [req EXCEPT ![r] = Idle], UNCHANGED rev
  PROVE  RequestInv'
<1>1. Idle \in Request /\ Idle.written = {} /\ Idle.pc = "idle"
  BY DEF Idle, Request, Ops
<1>2. ASSUME NEW s \in Requests
      PROVE  /\ Tracked(req[s])'
             /\ req'[s].pc # "idle" /\ req'[s].op \notin {"none", "all"} => req'[s].c \in Channel
  <2>1. CASE s = r
    BY <1>1, <2>1 DEF FreshInv, RequestInv, Tracked
  <2>2. CASE s # r
    BY <2>2 DEF FreshInv, RequestInv, Tracked
  <2> QED BY <2>1, <2>2
<1> QED BY <1>1, <1>2 DEF FreshInv, RequestInv

LEMMA CommitKeeps ==
  ASSUME FreshInv, NEW r \in Requests, Commit(r)
  PROVE  FreshInv'
<1> DEFINE c == req[r].c
<1>1. /\ req[r].pc = "checked" /\ req[r] \in Request /\ RowsTyped
      /\ req[r].op \notin {"none", "all"} => c \in Channel
  BY DEF Commit, FreshInv, RequestInv
<1> USE DEF RowsTyped, Request
<1>2. CASE CommitCreate(r)
  <2>1. RowsTyped'
    BY <1>1, <1>2 DEF CommitCreate
  <2> QED BY <1>1, <1>2, <2>1, WroteKeeps DEF CommitCreate
<1>3. CASE CommitSave(r)
  <2>1. RowsTyped'
    BY <1>1, <1>3 DEF CommitSave
  <2> QED BY <1>1, <1>3, <2>1, WroteKeeps DEF CommitSave
<1>4. CASE CommitDelete(r)
  <2>1. RowsTyped'
    BY <1>1, <1>4 DEF CommitDelete
  <2> QED BY <1>1, <1>4, <2>1, WroteKeeps DEF CommitDelete
<1>5. CASE CommitAdd(r)
  <2>1. RowsTyped'
    BY <1>1, <1>5 DEF CommitAdd
  <2> QED BY <1>1, <1>5, <2>1, WroteKeeps DEF CommitAdd
<1>6. CASE CommitRemove(r)
  <2>1. RowsTyped'
    BY <1>1, <1>6 DEF CommitRemove
  <2> QED BY <1>1, <1>6, <2>1, WroteKeeps DEF CommitRemove
<1>7. CASE CommitRemoveAll(r)
  <2>1. RowsTyped'
    BY <1>1, <1>7 DEF CommitRemoveAll
  <2> QED BY <1>1, <1>7, <2>1, WroteKeeps DEF CommitRemoveAll
<1>8. CASE CommitRead(r)
  <2>1. RowsTyped'
    BY <1>1, <1>8 DEF CommitRead
  <2> QED BY <1>1, <1>8, <2>1, WroteKeeps DEF CommitRead
<1>9. CASE Refuse(r)
  <2>1. req' = [req EXCEPT ![r] = Idle] /\ UNCHANGED <<exists, star, members, cacheVars, rev>>
    BY <1>9 DEF Refuse, cacheVars
  <2>2. RowsTyped'
    BY <1>1, <2>1
  <2> QED BY <2>1, <2>2, DropKeeps, CacheStays DEF FreshInv
<1> QED BY <1>2, <1>3, <1>4, <1>5, <1>6, <1>7, <1>8, <1>9 DEF Commit

\* The end of a write: a list whose promise moves gets a new version, of which
\* there is neither an entry nor a reader.
LEMMA BumpKeeps ==
  ASSUME FreshInv, NEW r \in Requests, Bump(r)
  PROVE  FreshInv'
<1> DEFINE ks == Trackers(req[r])
           ws == Promised(req[r])
<1>1. /\ UNCHANGED <<exists, star, members, rev, entry, reader>>
      /\ req' = [req EXCEPT ![r] = Idle]
      /\ version' = [k \in Keys |-> IF k \in ks THEN version[k] + 1 ELSE version[k]]
      /\ floor' = [k \in Keys |-> IF \E w \in ws : w.key = k /\ w.value > floor[k]
                                  THEN (CHOOSE w \in ws : w.key = k).value ELSE floor[k]]
  BY DEF Bump, Invalidate
<1>2. \A w \in ws : w.key \in Keys /\ w.value \in Nat /\ w.value <= rev[w.key] /\ w.key \in ks
  <2>1. req[r] \in Request /\ Tracked(req[r])
    BY DEF FreshInv, RequestInv
  <2>2. ASSUME NEW w \in ws
        PROVE  w \in req[r].written /\ (req[r].op = "save" => w.key \in members[req[r].c])
    BY DEF Promised
  <2>3. ASSUME NEW w \in ws
        PROVE  w.key \in ks
    <3>1. req[r].op \in {"create", "save", "delete", "add", "remove", "all", "read"}
      BY <2>1, <2>2 DEF Tracked, Request, Ops
    <3> QED BY <2>1, <2>2, <3>1 DEF Tracked, Trackers
  <2> QED BY <2>1, <2>2, <2>3 DEF Tracked, Request
<1> HIDE DEF ks, ws
<1>3. \A k \in Keys : /\ floor'[k] \in Nat /\ floor'[k] <= rev[k]
                      /\ version'[k] \in Nat /\ version'[k] >= version[k]
                      /\ k \in ks => version'[k] = version[k] + 1
                      /\ k \notin ks => version'[k] = version[k] /\ floor'[k] = floor[k]
  <2> SUFFICES ASSUME NEW k \in Keys
               PROVE  /\ floor'[k] \in Nat /\ floor'[k] <= rev[k]
                      /\ version'[k] \in Nat /\ version'[k] >= version[k]
                      /\ k \in ks => version'[k] = version[k] + 1
                      /\ k \notin ks => version'[k] = version[k] /\ floor'[k] = floor[k]
    OBVIOUS
  <2>1. version[k] \in Nat /\ floor[k] \in Nat /\ rev[k] \in Nat /\ floor[k] <= rev[k]
    BY DEF FreshInv, CountsTyped, Current
  <2>2. floor'[k] \in Nat /\ floor'[k] <= rev[k] /\ (k \notin ks => floor'[k] = floor[k])
    <3>1. CASE \E w \in ws : w.key = k /\ w.value > floor[k]
      <4>1. (CHOOSE w \in ws : w.key = k) \in ws /\ (CHOOSE w \in ws : w.key = k).key = k
        BY <3>1
      <4>2. floor'[k] = (CHOOSE w \in ws : w.key = k).value
        BY <1>1, <3>1
      <4> QED BY <1>2, <4>1, <4>2
    <3>2. CASE ~ \E w \in ws : w.key = k /\ w.value > floor[k]
      BY <1>1, <2>1, <3>2
    <3> QED BY <3>1, <3>2
  <2>3. version'[k] = IF k \in ks THEN version[k] + 1 ELSE version[k]
    BY <1>1
  <2> QED BY <2>1, <2>2, <2>3
<1>4. RowsTyped'
  BY <1>1 DEF FreshInv, RowsTyped
<1>5. CountsTyped'
  BY <1>1, <1>3 DEF FreshInv, CountsTyped
<1>6. ListsTyped' /\ RequestInv'
  BY <1>1, DropKeeps DEF FreshInv, ListsTyped
<1>7. Current'
  <2>1. ASSUME NEW e \in entry
        PROVE  /\ e.v <= version'[e.key] /\ e.value <= rev[e.key]
               /\ e.v = version'[e.key] => e.value >= floor'[e.key]
    <3>1. /\ e.key \in Keys /\ e.v \in Nat /\ e.v <= version[e.key] /\ e.value <= rev[e.key]
          /\ version[e.key] \in Nat
          /\ e.v = version[e.key] => e.value >= floor[e.key]
      BY DEF FreshInv, Current, ListsTyped, CountsTyped
    <3> QED BY <1>3, <3>1
  <2> QED BY <1>1, <1>3, <2>1 DEF FreshInv, Current
<1>8. ReaderInv'
  <2>1. ASSUME NEW p \in Readers PROVE Asking(p)'
    <3>1. Asking(p) /\ reader[p] \in Reader
      BY DEF FreshInv, ReaderInv, ListsTyped
    <3>2. CASE Busy(p)
      <4>1. /\ reader[p].key \in Keys /\ reader[p].v \in Nat /\ reader[p].v <= version[reader[p].key]
            /\ version[reader[p].key] \in Nat
            /\ reader[p].v = version[reader[p].key] => reader[p].floor = floor[reader[p].key]
        BY <3>1, <3>2 DEF Asking, Reader, FreshInv, CountsTyped
      <4>2. /\ reader[p].v <= version'[reader[p].key]
            /\ reader[p].v = version'[reader[p].key] => reader[p].floor = floor'[reader[p].key]
        BY <1>3, <4>1
      <4> QED BY <1>1, <3>1, <3>2, <4>2 DEF Asking, Busy
    <3>3. CASE ~Busy(p)
      BY <1>1, <3>3 DEF Asking, Busy
    <3> QED BY <3>2, <3>3
  <2> QED BY <1>1, <2>1 DEF FreshInv, ReaderInv, Together, Holds, Busy
<1> QED BY <1>4, <1>5, <1>6, <1>7, <1>8 DEF FreshInv

LEMMA NextFresh == FreshInv /\ [Next]_vars => FreshInv'
<1> SUFFICES ASSUME FreshInv, [Next]_vars PROVE FreshInv'
  OBVIOUS
<1>1. ASSUME NEW r \in Requests, Start(r) \/ Commit(r) \/ Bump(r) PROVE FreshInv'
  BY <1>1, StartKeeps, CommitKeeps, BumpKeeps
<1>2. ASSUME UNCHANGED <<exists, star, members, req, cacheVars>> PROVE FreshInv'
  <2>1. RowsTyped' /\ RequestInv'
    BY <1>2 DEF FreshInv, RowsTyped, RequestInv, Tracked, cacheVars
  <2> QED BY <1>2, <2>1, CacheStays DEF FreshInv
<1>3. ASSUME NEW j \in Jobs, Send(j) \/ IncrementUnread(j) \/ EmitUnread(j) PROVE FreshInv'
  BY <1>2, <1>3 DEF Send, IncrementUnread, EmitUnread
<1>4. CASE UNCHANGED vars
  BY <1>2, <1>4 DEF vars, chanVars
<1> QED BY <1>1, <1>3, <1>4, CacheKeeps DEF Next

\* The inductive invariant of the lists and of the requests that change them.
THEOREM FreshInvariance == Spec => []FreshInv
  BY InitFresh, NextFresh, PTL DEF Spec

\* Entries and readers keep their types; a version of a list has one entry, no
\* newer than the tracker or the data (CachedService).
THEOREM CacheTyped == Spec => []CacheTypeOK
<1>1. FreshInv => CacheTypeOK
  BY DEF FreshInv, CountsTyped, ListsTyped, Current, CacheTypeOK, Reader, Points
<1> QED BY <1>1, FreshInvariance, PTL

\* A list that is answered holds every change of a channel or its members whose
\* request had ended before the reader asked (getOrSetList() against
\* invalidateList() in every method of the channel service).
THEOREM ListsFresh == Spec => []ReadsAreFresh
<1>1. FreshInv => ReadsAreFresh
  BY DEF FreshInv, ReaderInv, Asking, Busy, ReadsAreFresh
<1> QED BY <1>1, FreshInvariance, PTL

=============================================================================
