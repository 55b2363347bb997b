--------------------------- MODULE DynamicProviders ---------------------------
(***************************************************************************)
(* The OAuth2 tokens of one dynamic provider: its row                       *)
(* (dynamic-provider-db.service.ts), the specs that each process keeps in   *)
(* RAM (dynamic-tool-registry.service.ts), the renewal of a token after a   *)
(* 401 (dynamic-tool-executor.service.ts) and the jobs that write what was  *)
(* renewed into the row (dynamic-provider.processor.ts).                    *)
(*                                                                         *)
(* A pair of tokens is a number, in the order in which the provider gave    *)
(* them out.  The provider rotates: a refresh token works once.  Times are  *)
(* only compared, of a token in RAM with the last write of the row.         *)
(***************************************************************************)
EXTENDS Naturals, Sequences

CONSTANTS Processes,  \* of the orchestration service
          Calls,      \* tool calls, each made once (a bound)
          Updates,    \* updateProvider() requests, each made once (a bound)
          Process,    \* where each of them runs
          MaxSpecs,   \* bound: specs loaded in all
          MaxTokens,  \* bound: pairs given out in all
          MaxTries,   \* attempts of a job
          None

VARIABLES row,      \* the refresh token in the row, or None
          valid,    \* refresh tokens the provider takes
          given,    \* pairs given out
          spec,     \* the refresh tokens of the specs that were loaded
          ram,      \* process -> its entry: [spec, newer, mixed], or None
          load,     \* loadIntoCache() of a call or an update
          renewal,  \* process -> pendingOAuth2Refreshes
          call, update,
          jobs,     \* {[prev, new, tries]}
          spent,    \* process -> refresh tokens it has renewed (history)
          behind,   \* processes that have one of these in a second spec (history)
          again,    \* processes that presented one of these (history)
          discarded \* the only working token was dropped (history)

history == <<spent, behind, again>>
vars == <<row, valid, given, spec, ram, load, renewal, call, update, jobs, history, discarded>>

Token == 1..MaxTokens
NoLoad == [pc |-> "idle", read |-> None, keep |-> FALSE, newer |-> FALSE, old |-> None]
NoRenewal == [pc |-> "idle", spec |-> None, had |-> None, got |-> None]
NoCall == [pc |-> "idle", spec |-> None]
NoUpdate == [pc |-> "idle", had |-> None, got |-> None]

TypeOK ==
  /\ row \in {None} \cup 1..given /\ valid \subseteq 1..given /\ given \in Token
  /\ Len(spec) <= MaxSpecs /\ \A o \in DOMAIN spec : spec[o] \in 1..given
  /\ \A i \in Processes :
       /\ ram[i] # None => ram[i].spec \in DOMAIN spec
       /\ renewal[i].pc # "idle" => renewal[i].spec \in DOMAIN spec
  /\ \A j \in jobs : j.prev < j.new /\ j.tries \in 1..MaxTries

Init ==
  /\ row = 1 /\ valid = {1} /\ given = 1
  /\ spec = <<>> /\ ram = [i \in Processes |-> None]
  /\ load = [x \in Calls \cup Updates |-> NoLoad]
  /\ renewal = [i \in Processes |-> NoRenewal]
  /\ call = [c \in Calls |-> NoCall] /\ update = [u \in Updates |-> NoUpdate] /\ jobs = {}
  /\ spent = [i \in Processes |-> {}] /\ behind = {} /\ again = {} /\ discarded = FALSE

\* a token that nobody keeps any more, when the row has none that works
Drop(t) == discarded' = (discarded \/ (t \in valid /\ row # None /\ row \notin valid))

\* update() sets updatedAt: no token in RAM is newer
Write(t) ==
  /\ row' = t
  /\ ram' = [i \in Processes |-> IF ram[i] = None THEN None ELSE [ram[i] EXCEPT !.newer = FALSE]]
  /\ load' = [x \in DOMAIN load |-> [load[x] EXCEPT !.newer = FALSE]]

\* The provider takes a refresh token once.
Rotate(t) ==
  /\ t \in valid /\ given < MaxTokens
  /\ given' = given + 1 /\ valid' = (valid \ {t}) \cup {given + 1}

-----------------------------------------------------------------------------
(* DynamicToolRegistryService                                               *)

ShouldKeepRamToken(i) == ram[i] # None /\ ram[i].newer

\* loadIntoCache(): the row is read ...
Load(x) ==
  LET i == Process[x] IN
  /\ load[x].pc = "idle" /\ row # None
  /\ load' = [load EXCEPT ![x] = [pc |-> "parsing", read |-> row, keep |-> ShouldKeepRamToken(i),
                                  newer |-> ShouldKeepRamToken(i),
                                  old |-> IF ram[i] = None THEN None ELSE ram[i].spec]]

\* ... and, when the spec was fetched and parsed, the entry is replaced
Loaded(x) ==
  LET l == load[x]
      i == Process[x]
      t == IF l.keep THEN spec[l.old] ELSE l.read
  IN /\ l.pc = "parsing" /\ Len(spec) < MaxSpecs
     /\ spec' = Append(spec, t)
     /\ ram' = [ram EXCEPT ![i] = [spec |-> Len(spec) + 1, newer |-> l.keep /\ l.newer,
                                   mixed |-> FALSE]]
     /\ behind' = IF t \in spent[i] THEN behind \cup {i} ELSE behind
     /\ load' = [load EXCEPT ![x] = NoLoad]

\* cleanupExpiredCache()
Clean(i) ==
  /\ ram[i] # None /\ ram' = [ram EXCEPT ![i] = None]
  /\ UNCHANGED <<row, valid, given, spec, load, renewal, call, update, jobs, history, discarded>>

-----------------------------------------------------------------------------
(* DynamicToolExecutorService                                               *)

\* ensureLoaded() finds an entry, or none, or one that is an hour old
GetProviderSpec(c) ==
  LET i == Process[c] IN
  /\ call[c].pc = "idle"
  /\ \/ /\ ram[i] # None
        /\ call' = [call EXCEPT ![c] = [pc |-> "calling", spec |-> ram[i].spec]]
        /\ UNCHANGED load
     \/ Load(c) /\ call' = [call EXCEPT ![c].pc = "loading"]
  /\ UNCHANGED <<row, valid, given, spec, ram, renewal, update, jobs, history, discarded>>

SpecLoaded(c) ==
  /\ call[c].pc = "loading" /\ Loaded(c)
  /\ call' = [call EXCEPT ![c] = [pc |-> "calling", spec |-> Len(spec) + 1]]
  /\ UNCHANGED <<row, valid, given, renewal, update, jobs, spent, again, discarded>>

NothingPending(i) == renewal[i].pc = "idle"

\* The answer is a 401, and tryRenewOAuth2Token() renews or waits; any other
\* answer ends the call.
Unauthorized(c) ==
  LET i == Process[c]  o == call[c].spec IN
  /\ call[c].pc = "calling"
  /\ IF NothingPending(i)
     THEN /\ renewal' = [renewal EXCEPT ![i] = [pc |-> "asking", spec |-> o, had |-> spec[o], got |-> None]]
          /\ again' = IF spec[o] \in spent[i] THEN again \cup {i} ELSE again
     ELSE UNCHANGED <<renewal, again>>
  /\ call' = [call EXCEPT ![c].pc = "renewing"]
  /\ UNCHANGED <<row, valid, given, spec, ram, load, update, jobs, spent, behind, discarded>>

\* refreshIfNeeded() at the provider
Refresh(i) ==
  /\ renewal[i].pc = "asking" /\ Rotate(renewal[i].had)
  /\ renewal' = [renewal EXCEPT ![i].pc = "answered", ![i].got = given + 1]
  /\ spent' = [spent EXCEPT ![i] = @ \cup {renewal[i].had}]
  /\ UNCHANGED <<row, spec, ram, load, call, update, jobs, behind, again, discarded>>

\* it does not answer, or not take the token
RefreshFails(i) ==
  /\ renewal[i].pc = "asking" /\ renewal' = [renewal EXCEPT ![i] = NoRenewal]
  /\ UNCHANGED <<row, valid, given, spec, ram, load, call, update, jobs, history, discarded>>

\* specs that somebody may still call with
InUse(i) == (IF ram[i] = None THEN {} ELSE {ram[i].spec})
            \cup {call[c].spec : c \in {d \in Calls : Process[d] = i /\ call[d].spec # None}}

\* onRefreshed() adds the job, which may fail; the spec that was called with is
\* changed in place, and the entry there is now is marked (markTokenRefreshed)
Renewed(i) ==
  LET n == renewal[i]
      mine == ram[i] # None /\ ram[i].spec = n.spec
  IN /\ n.pc = "answered"
     /\ \/ jobs' = jobs \cup {[prev |-> n.had, new |-> n.got, tries |-> 1]} /\ UNCHANGED discarded
        \/ jobs' = jobs /\ Drop(n.got)
     /\ spec' = [spec EXCEPT ![n.spec] = n.got]
     /\ ram' = IF ram[i] = None THEN ram
               ELSE [ram EXCEPT ![i].newer = TRUE, ![i].mixed = @ \/ ~ mine]
     /\ load' = [x \in DOMAIN load |-> IF Process[x] = i /\ load[x].old = n.spec /\ mine
                                       THEN [load[x] EXCEPT !.newer = TRUE] ELSE load[x]]
     /\ renewal' = [renewal EXCEPT ![i] = NoRenewal]
     /\ behind' = IF \E o \in InUse(i) \ {n.spec} : spec[o] = n.had THEN behind \cup {i} ELSE behind
     /\ UNCHANGED <<row, valid, given, call, update, spent, again>>

\* The call is made once more after a renewal, then ends whatever the answer.
CallEnds(c) ==
  /\ \/ call[c].pc \in {"calling", "loading"}
     \/ call[c].pc = "renewing" /\ NothingPending(Process[c])
  /\ call' = [call EXCEPT ![c] = [pc |-> "ended", spec |-> None]]
  /\ load' = [load EXCEPT ![c] = NoLoad]
  /\ UNCHANGED <<row, valid, given, spec, ram, renewal, update, jobs, history, discarded>>

-----------------------------------------------------------------------------
(* DynamicProviderProcessor: jobs are processed in any order, some again.    *)

\* Mutant: the row is written whatever is in it.
AnyRow(j) == row # None

RowOf(j) == row = j.prev

UpdateToken(j) ==
  /\ j \in jobs /\ \E more \in {jobs, jobs \ {j}} : jobs' = more
  /\ IF RowOf(j) THEN Write(j.new) /\ UNCHANGED discarded
                 ELSE Drop(j.new) /\ UNCHANGED <<row, ram, load>>
  /\ UNCHANGED <<valid, given, spec, renewal, call, update, history>>

JobFails(j) ==
  /\ j \in jobs
  /\ IF j.tries < MaxTries
     THEN jobs' = (jobs \ {j}) \cup {[j EXCEPT !.tries = @ + 1]} /\ UNCHANGED discarded
     ELSE jobs' = jobs \ {j} /\ Drop(j.new)
  /\ UNCHANGED <<row, valid, given, spec, ram, load, renewal, call, update, history>>

-----------------------------------------------------------------------------
(* DynamicProviderDbService                                                 *)

\* the row is read; the user may bring a refresh token of a new authorization
UpdateProvider(u) ==
  /\ update[u].pc = "idle" /\ row # None
  /\ \/ update' = [update EXCEPT ![u] = [pc |-> "asking", had |-> row, got |-> row]]
        /\ UNCHANGED <<valid, given>>
     \/ /\ given < MaxTokens /\ given' = given + 1 /\ valid' = valid \cup {given + 1}
        /\ update' = [update EXCEPT ![u] = [pc |-> "asking", had |-> row, got |-> given + 1]]
  /\ UNCHANGED <<row, spec, ram, load, renewal, call, jobs, history, discarded>>

\* refreshOAuth2IfConfigured()
UpdateRefreshes(u) ==
  /\ update[u].pc = "asking" /\ Rotate(update[u].got)
  /\ update' = [update EXCEPT ![u].pc = "refreshed", ![u].got = given + 1]
  /\ UNCHANGED <<row, spec, ram, load, renewal, call, jobs, history, discarded>>

SameToken(u) == row = update[u].had

\* persistUpdatedProvider() and removeProvider()
PersistUpdated(u) ==
  LET i == Process[u] IN
  /\ update[u].pc = "refreshed"
  /\ IF SameToken(u)
     THEN /\ row' = update[u].got
          /\ ram' = [p \in Processes |-> IF p = i \/ ram[p] = None THEN None
                                         ELSE [ram[p] EXCEPT !.newer = FALSE]]
          /\ load' = [x \in DOMAIN load |-> [load[x] EXCEPT !.newer = FALSE]]
          /\ update' = [update EXCEPT ![u].pc = "written"] /\ UNCHANGED discarded
     ELSE /\ Drop(update[u].got) /\ update' = [update EXCEPT ![u].pc = "ended"]
          /\ UNCHANGED <<row, ram, load>>
  /\ UNCHANGED <<valid, given, spec, renewal, call, jobs, history>>

\* reloadRegistryTools()
Reload(u) ==
  /\ update[u].pc = "written" /\ Load(u)
  /\ UNCHANGED <<row, valid, given, spec, ram, renewal, call, update, jobs, history, discarded>>

Reloaded(u) ==
  /\ update[u].pc = "written" /\ Loaded(u)
  /\ update' = [update EXCEPT ![u].pc = "ended"]
  /\ UNCHANGED <<row, valid, given, renewal, call, jobs, spent, again, discarded>>

\* the provider refuses, the new specUrl is no spec, the process dies
UpdateFails(u) ==
  /\ update[u].pc \in {"asking", "refreshed", "written"}
  /\ IF update[u].pc = "refreshed" THEN Drop(update[u].got) ELSE UNCHANGED discarded
  /\ update' = [update EXCEPT ![u].pc = "ended"] /\ load' = [load EXCEPT ![u] = NoLoad]
  /\ UNCHANGED <<row, valid, given, spec, ram, renewal, call, jobs, history>>

\* deleteProvider(): other processes keep what they have loaded
DeleteProvider(i) ==
  /\ row # None /\ row' = None /\ ram' = [ram EXCEPT ![i] = None]
  /\ UNCHANGED <<valid, given, spec, load, renewal, call, update, jobs, history, discarded>>

\* A process starts again, with nothing in RAM.
Restart(i) ==
  /\ ram[i] # None \/ renewal[i].pc # "idle"
  /\ ram' = [ram EXCEPT ![i] = None] /\ renewal' = [renewal EXCEPT ![i] = NoRenewal]
  /\ IF renewal[i].pc = "answered" THEN Drop(renewal[i].got) ELSE UNCHANGED discarded
  /\ call' = [c \in Calls |-> IF Process[c] = i /\ call[c].pc # "idle"
                              THEN [pc |-> "ended", spec |-> None] ELSE call[c]]
  /\ load' = [x \in DOMAIN load |-> IF Process[x] = i /\ x \in Calls THEN NoLoad ELSE load[x]]
  /\ UNCHANGED <<row, valid, given, spec, update, jobs, history>>

-----------------------------------------------------------------------------
Next ==
  \/ \E i \in Processes : \/ Clean(i) \/ Refresh(i) \/ RefreshFails(i) \/ Renewed(i)
                          \/ DeleteProvider(i) \/ Restart(i)
  \/ \E c \in Calls : GetProviderSpec(c) \/ SpecLoaded(c) \/ Unauthorized(c) \/ CallEnds(c)
  \/ \E j \in jobs : UpdateToken(j) \/ JobFails(j)
  \/ \E u \in Updates : \/ UpdateProvider(u) \/ UpdateRefreshes(u) \/ PersistUpdated(u)
                        \/ Reload(u) \/ Reloaded(u) \/ UpdateFails(u)

Spec == Init /\ [][Next]_vars

-----------------------------------------------------------------------------
\* The row has a token that works once every renewal has been written, unless
\* one was dropped that was the only one (handleUpdateDynamicProviderToken and
\* persistUpdatedProvider compare before they write).
RowWorks ==
  /\ row # None /\ ~ discarded /\ jobs = {}
  /\ \A i \in Processes : renewal[i].pc # "answered"
  /\ \A u \in Updates : update[u].pc # "refreshed"
  => row \in valid

\* A token that wins over the row (shouldKeepRamToken) works, unless the row
\* has it, or a spec was renewed that a reload had replaced.
WinnerWorks ==
  \A i \in Processes :
    ShouldKeepRamToken(i) /\ ~ ram[i].mixed /\ row # None =>
      \/ spec[ram[i].spec] \in (valid \cup {row})
      \/ renewal[i].pc = "answered" /\ renewal[i].spec = ram[i].spec

\* A process presents a refresh token once (pendingOAuth2Refreshes), unless it
\* loaded it again from the row, or had two specs with it in use.
PresentedOnce == again \subseteq behind

=============================================================================
