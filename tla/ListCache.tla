------------------------------ MODULE ListCache ------------------------------
(***************************************************************************)
(* CachedService: lists cached in Redis under a key that carries the       *)
(* version of its tracker.  A writer does not delete entries: it INCRs the *)
(* tracker, and entries of older versions are left to their TTL.           *)
(*                                                                         *)
(* A cached value is represented by the revision of the data it was read   *)
(* from: rev[k] counts the committed changes of what k lists.              *)
(***************************************************************************)
EXTENDS Naturals

CONSTANTS Keys,     \* trackers: one per list that is cached
          Readers,  \* requests that call getOrSetList()
          NoValue   \* a value that is no revision

VARIABLES rev,      \* the revision of the data behind each key
          version,  \* the tracker: how often the key was invalidated
          entry,    \* [key, version] pairs that are cached, with their value
          floor,    \* the revision at the end of the last write (history)
          reader    \* the requests under way

cacheVars == <<rev, version, entry, floor, reader>>

IdleReader == [pc |-> "idle", key |-> NoValue, v |-> 0, got |-> NoValue, floor |-> 0]

CacheTypeOK ==
  /\ rev \in [Keys -> Nat] /\ version \in [Keys -> Nat] /\ floor \in [Keys -> Nat]
  /\ \A e \in entry : e.key \in Keys /\ e.v <= version[e.key] /\ e.value <= rev[e.key]
  /\ \A e, f \in entry : e.key = f.key /\ e.v = f.v => e = f
  /\ \A p \in Readers : reader[p].pc \in {"idle", "lookup", "query", "store", "wait", "done"}

CacheInit ==
  /\ rev = [k \in Keys |-> 0] /\ version = [k \in Keys |-> 0] /\ floor = [k \in Keys |-> 0]
  /\ entry = {}
  /\ reader = [p \in Readers |-> IdleReader]

-----------------------------------------------------------------------------
(* The writers' side, used in the actions of the module that owns the data. *)

Changed(ks) == rev' = [k \in Keys |-> IF k \in ks THEN rev[k] + 1 ELSE rev[k]]

\* the revisions a write of the keys ks makes
Revisions(ks) == {[key |-> k, value |-> rev[k] + 1] : k \in ks \cap Keys}

\* invalidateList(), invalidateListBulk(): the end of the write that made written
Invalidate(ks, written) ==
  /\ version' = [k \in Keys |-> IF k \in ks THEN version[k] + 1 ELSE version[k]]
  /\ floor' = [k \in Keys |-> IF \E w \in written : w.key = k /\ w.value > floor[k]
                               THEN (CHOOSE w \in written : w.key = k).value ELSE floor[k]]

-----------------------------------------------------------------------------
(* getOrSetList(): the version first, then the entry of that version.  One *)
(* flight per key and process: others wait for its value.                  *)

EntryOf(k, v) == {e \in entry : e.key = k /\ e.v = v}

GetVersion(p, k) ==
  /\ reader[p].pc = "idle"
  /\ reader' = [reader EXCEPT ![p] = [pc |-> "lookup", key |-> k, v |-> version[k],
                                      got |-> NoValue, floor |-> floor[k]]]
  /\ UNCHANGED <<rev, version, entry, floor>>

Flying(q, p) == reader[q].pc \in {"query", "store"}
                /\ reader[q].key = reader[p].key /\ reader[q].v = reader[p].v

Lookup(p) ==
  /\ reader[p].pc = "lookup"
  /\ \/ \E e \in EntryOf(reader[p].key, reader[p].v) :
          reader' = [reader EXCEPT ![p].pc = "done", ![p].got = e.value]
     \/ /\ EntryOf(reader[p].key, reader[p].v) = {}
        /\ reader' = [reader EXCEPT ![p].pc = IF \E q \in Readers : Flying(q, p)
                                              THEN "wait" ELSE "query"]
  /\ UNCHANGED <<rev, version, entry, floor>>

\* the fetcher reads the database
Fetch(p) ==
  /\ reader[p].pc = "query"
  /\ reader' = [reader EXCEPT ![p].pc = "store", ![p].got = rev[reader[p].key]]
  /\ UNCHANGED <<rev, version, entry, floor>>

\* set() and the end of the flight: whoever waits gets the same value
Store(p) ==
  /\ reader[p].pc = "store"
  /\ entry' = (entry \ EntryOf(reader[p].key, reader[p].v))
                \cup {[key |-> reader[p].key, v |-> reader[p].v, value |-> reader[p].got]}
  /\ reader' = [q \in Readers |->
                  IF q = p \/ (reader[q].pc = "wait" /\ reader[q].key = reader[p].key
                                                     /\ reader[q].v = reader[p].v)
                  THEN [reader[q] EXCEPT !.pc = "done", !.got = reader[p].got]
                  ELSE reader[q]]
  /\ UNCHANGED <<rev, version, floor>>

Respond(p) ==
  /\ reader[p].pc = "done"
  /\ reader' = [reader EXCEPT ![p] = IdleReader]
  /\ UNCHANGED <<rev, version, entry, floor>>

\* the TTL of an entry runs out
ExpireEntry == /\ \E e \in entry : entry' = entry \ {e}
               /\ UNCHANGED <<rev, version, floor, reader>>

CacheNext ==
  \/ \E p \in Readers : \/ \E k \in Keys : GetVersion(p, k)
                        \/ Lookup(p) \/ Fetch(p) \/ Store(p) \/ Respond(p)
  \/ ExpireEntry

\* A list that is answered holds every change whose request ended before the
\* tracker was read: neither an entry, nor a flight that began earlier, nor a
\* slow fetcher brings back what a writer has changed (cached.service.ts,
\* getOrSetList() against invalidateList(), with the trackers each method of
\* the writers increments after its commit).
ReadsAreFresh == \A p \in Readers : reader[p].pc = "done" => reader[p].got >= reader[p].floor
=============================================================================
