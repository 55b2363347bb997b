----------------------------- MODULE AgentStream -----------------------------
(***************************************************************************)
(* How the steps of a turn reach the browser.  AgentStreamService (one     *)
(* orchestration process) gathers tokens into batches, numbers every       *)
(* payload of a stream and adds it to SOCKET_QUEUE, one add after the      *)
(* other for each call of emitStep().  BullMQ hands each job to one of the *)
(* socket-gateway processes, up to 20 at a time and in any order, and      *)
(* SocketProcessor.emitOrdered() puts them back in order: early ones wait  *)
(* in a buffer, old ones are dropped, and a sweep lets go of a buffer that *)
(* has been idle for STREAM_ORDER_STALE_MS.                                *)
(*                                                                         *)
(* The module follows one key messageId:streamKey.  Streams of different   *)
(* keys share no state.  A turn that pauses for an approval ends its       *)
(* stream with 'done' and later begins a new one under the same key.       *)
(*                                                                         *)
(* A step is a number, in the order in which emitStep() was called.        *)
(* faults is what may happen in a behaviour, chosen at the start:          *)
(*   "silent"   the turn says nothing for longer than the stale time       *)
(*   "resume"   a second stream of the same key (an approved turn)         *)
(*   "lost"     addJob() fails                                             *)
(*   "late"     a job waits in the queue for longer than the stale time    *)
(*   "again"    BullMQ delivers a processed job once more (a stall)        *)
(*   "split"    several socket-gateway processes serve the queue           *)
(*   "restart"  the orchestration process is shut down in good order       *)
(***************************************************************************)
EXTENDS Naturals, FiniteSets, Sequences

CONSTANTS
  Processes,   \* socket-gateway processes
  Only,        \* the one that runs where there is no "split"
  MaxSteps,    \* steps of all streams, 'done' not counted (a bound)
  MaxStreams,  \* streams under the key (a bound)
  NoState,     \* the key is not in streamOrder
  FaultSets    \* the sets of faults to choose from

FaultNames == {"silent", "resume", "lost", "late", "again", "split", "restart"}

Steps    == 1..(MaxSteps + MaxStreams)
Payloads == [seq : Steps, steps : Seq(Steps), done : BOOLEAN]

ASSUME StreamAssumption ==
  /\ Only \in Processes
  /\ MaxSteps \in Nat /\ MaxStreams \in Nat \ {0}
  /\ FaultSets \subseteq SUBSET FaultNames
  /\ NoState \notin [next : Nat, buffer : SUBSET Payloads, stale : BOOLEAN]

VARIABLES
  said,    \* history: the stream of every step, in the order of the calls
  streams, \* history: streams begun
  open,    \* a turn is writing to the key
  next,    \* sequenceStates: the number of the next payload
  batch,   \* pendingTokenBatches: tokens that wait for the timer
  outbox,  \* payloads that emitStep() or the timer is adding, call by call
  queue,   \* jobs in SOCKET_QUEUE
  order,   \* streamOrder of each process: next number, buffer, idle too long
  shown,   \* payloads that reached the browser, in order
  faults   \* what may happen

producer == <<said, streams, open, next, batch>>
vars     == <<producer, outbox, queue, order, shown, faults>>

Payload(seq, steps, done) == [seq |-> seq, steps |-> steps, done |-> done]
NewState == [next |-> 1, buffer |-> {}, stale |-> FALSE]

TypeOK ==
  /\ said \in Seq(1..MaxStreams) /\ Len(said) <= MaxSteps + MaxStreams
  /\ streams \in 0..MaxStreams
  /\ open \in BOOLEAN
  /\ next \in Nat \ {0}
  /\ batch \in Seq(Steps)
  /\ outbox \subseteq Seq(Payloads)
  /\ \A job \in queue : job.payload \in Payloads /\ job.again \in BOOLEAN
  /\ \A p \in Processes :
       \/ order[p] = NoState
       \/ /\ order[p].next \in Nat \ {0} /\ order[p].stale \in BOOLEAN
          /\ order[p].buffer \subseteq Payloads
          /\ \A x \in order[p].buffer : x.seq > order[p].next
          /\ \A x, y \in order[p].buffer : x.seq = y.seq => x = y
  /\ shown \in Seq(Payloads)
  /\ faults \in FaultSets

Init ==
  /\ said = <<>> /\ streams = 0 /\ open = FALSE
  /\ next = 1 /\ batch = <<>> /\ outbox = {} /\ queue = {}
  /\ order = [p \in Processes |-> NoState]
  /\ shown = <<>>
  /\ faults \in FaultSets

-----------------------------------------------------------------------------
(* AgentStreamService.                                                     *)

\* A turn begins to write.  The second one follows an approval by a person,
\* who answers after the jobs of the first have gone through the queue.
Begin ==
  /\ ~open
  /\ streams < (IF "resume" \in faults THEN MaxStreams ELSE 1)
  /\ outbox = {} /\ queue = {}
  /\ open' = TRUE
  /\ streams' = streams + 1
  /\ UNCHANGED <<said, next, batch, outbox, queue, order, shown, faults>>

\* drainPendingBatch(): at most one payload, which takes the next number.
Drained == IF batch = <<>> THEN <<>> ELSE <<Payload(next, batch, FALSE)>>

\* emitStep() of a token: bufferToken().
Token ==
  /\ open
  /\ Len(said) < MaxSteps
  /\ said' = Append(said, streams)
  /\ batch' = Append(batch, Len(said'))
  /\ UNCHANGED <<streams, open, next, outbox, queue, order, shown, faults>>

\* emitStep() of any other step: the batch is drained first; both payloads
\* have their numbers before the first add.
\* Mutant: the step takes its number before the batch.
NumberedFirst(step, done) ==
  <<Payload(next, <<step>>, done)>> \o
  [i \in DOMAIN Drained |-> Payload(next + 1, batch, FALSE)]
Numbered(step, done) ==
  Append(Drained, Payload(next + Len(Drained), <<step>>, done))

Emit(done) ==
  /\ open
  /\ said' = Append(said, streams)
  /\ batch' = <<>>
  /\ outbox' = outbox \cup {Numbered(Len(said'), done)}
  /\ next' = IF done THEN 1 ELSE next + Len(Drained) + 1
  /\ open' = ~done
  /\ UNCHANGED <<streams, queue, order, shown, faults>>

Step == Len(said) < MaxSteps /\ Emit(FALSE)
Done == Emit(TRUE)

\* The timer of a batch fires.
Flush ==
  /\ batch # <<>>
  /\ outbox' = outbox \cup {Drained}
  /\ next' = next + 1
  /\ batch' = <<>>
  /\ UNCHANGED <<said, streams, open, queue, order, shown, faults>>

\* onModuleDestroy(): the batch is flushed; the numbers go with the process.
ShutDown ==
  /\ open /\ "restart" \in faults
  /\ outbox' = IF batch = <<>> THEN outbox ELSE outbox \cup {Drained}
  /\ next' = 1 /\ batch' = <<>> /\ open' = FALSE
  /\ UNCHANGED <<said, streams, queue, order, shown, faults>>

\* sweepStaleSequenceStates(), ten minutes after the last number: whatever
\* was numbered has been shown or swept long ago.
ForgetSequence ==
  /\ next # 1 /\ batch = <<>> /\ outbox = {} /\ queue = {}
  /\ "silent" \in faults
  /\ \A p \in Processes : order[p] = NoState
  /\ next' = 1
  /\ UNCHANGED <<said, streams, open, batch, outbox, queue, order, shown, faults>>

\* The first addJob() of a call of emitStep() returns.
Send(call) ==
  /\ queue' = queue \cup {[payload |-> Head(call), again |-> FALSE]}
  /\ outbox' = (outbox \ {call}) \cup (IF Len(call) = 1 THEN {} ELSE {Tail(call)})
  /\ UNCHANGED <<producer, order, shown, faults>>

\* It throws: sendPayload() is not called for the payload after it.
FailAdd(call) ==
  /\ "lost" \in faults
  /\ outbox' = outbox \ {call}
  /\ UNCHANGED <<producer, queue, order, shown, faults>>

-----------------------------------------------------------------------------
(* SocketProcessor.                                                        *)

Running == IF "split" \in faults THEN Processes ELSE {Only}

\* buffer.get() of a number that is there.
Buffered(buffer, k) == CHOOSE x \in buffer : x.seq = k

\* The last number that the loop of emitOrdered() reaches from the next one.
\* Mutant: the loop is left out.
LastInTurnAlone(st) == st.next
LastInTurn(st) ==
  CHOOSE n \in {st.next} \cup {x.seq : x \in st.buffer} :
    /\ \A k \in (st.next + 1)..n : \E x \in st.buffer : x.seq = k
    /\ ~ \E x \in st.buffer : x.seq = n + 1

\* emitOrdered() on the state of the process for the key.
Drop(p, st) ==
  /\ order' = [order EXCEPT ![p] = [st EXCEPT !.stale = FALSE]]
  /\ UNCHANGED shown

Hold(p, st, x) ==
  /\ order' = [order EXCEPT ![p] =
       [st EXCEPT !.stale = FALSE,
                  !.buffer = {y \in @ : y.seq # x.seq} \cup {x}]]
  /\ UNCHANGED shown

InTurn(p, st, x) ==
  LET last == LastInTurn(st) IN
  /\ shown' = Append(shown, x) \o
       [i \in 1..(last - st.next) |-> Buffered(st.buffer, st.next + i)]
  /\ order' = [order EXCEPT ![p] =
       IF x.done THEN NoState
       ELSE [next |-> last + 1, stale |-> FALSE,
             buffer |-> {y \in st.buffer : y.seq > last}]]

\* Mutant: a payload that was emitted before is taken for one in its turn.
EmitOrderedTwice(p, x) ==
  LET st == IF order[p] = NoState THEN NewState ELSE order[p] IN
  \/ x.seq > st.next /\ Hold(p, st, x)
  \/ x.seq <= st.next /\ InTurn(p, st, x)

EmitOrdered(p, x) ==
  LET st == IF order[p] = NoState THEN NewState ELSE order[p] IN
  \/ x.seq < st.next /\ Drop(p, st)
  \/ x.seq > st.next /\ Hold(p, st, x)
  \/ x.seq = st.next /\ InTurn(p, st, x)

\* process() of a job; with "again" the job may come back once.
Process(p, job) ==
  /\ p \in Running
  /\ EmitOrdered(p, job.payload)
  /\ \/ queue' = queue \ {job}
     \/ /\ "again" \in faults /\ ~job.again
        /\ queue' = (queue \ {job}) \cup {[job EXCEPT !.again = TRUE]}
  /\ UNCHANGED <<producer, outbox, faults>>

\* STREAM_ORDER_STALE_MS pass without a job of the key in this process.  A
\* job takes less than that from emitStep() to process(), retries included.
Age(p) ==
  /\ order[p] # NoState
  /\ ~order[p].stale
  /\ open => "silent" \in faults
  /\ "late" \in faults \/ (batch = <<>> /\ outbox = {} /\ queue = {})
  /\ order' = [order EXCEPT ![p].stale = TRUE]
  /\ UNCHANGED <<producer, outbox, queue, shown, faults>>

\* sort() of the numbers that are buffered.
BySeq(buffer) ==
  CHOOSE s \in [1..Cardinality(buffer) -> buffer] :
    \A i, j \in DOMAIN s : i < j => s[i].seq < s[j].seq

\* sweepStaleStreams().
\* Mutants: what is buffered is thrown away; only empty states are deleted.
SweepAway(p) ==
  /\ order[p] # NoState /\ order[p].stale
  /\ order' = [order EXCEPT ![p] = NoState]
  /\ UNCHANGED <<producer, outbox, queue, shown, faults>>

SweepEmpty(p) ==
  /\ order[p] # NoState /\ order[p].stale /\ order[p].buffer = {}
  /\ order' = [order EXCEPT ![p] = NoState]
  /\ UNCHANGED <<producer, outbox, queue, shown, faults>>

Sweep(p) ==
  /\ order[p] # NoState /\ order[p].stale
  /\ shown' = shown \o BySeq(order[p].buffer)
  /\ order' = [order EXCEPT ![p] = NoState]
  /\ UNCHANGED <<producer, outbox, queue, faults>>

-----------------------------------------------------------------------------
Next ==
  \/ Begin \/ Token \/ Step \/ Done \/ Flush \/ ShutDown \/ ForgetSequence
  \/ \E call \in outbox : Send(call) \/ FailAdd(call)
  \/ \E p \in Processes :
       \/ \E job \in queue : Process(p, job)
       \/ Age(p) \/ Sweep(p)

Spec == Init /\ [][Next]_vars

\* Adds settle, the timers fire, workers run and time passes; nobody has to
\* say anything, and a turn ends (TurnEnds of AiTrigger).
FairSpec ==
  /\ Spec
  /\ WF_vars(Done)
  /\ WF_vars(Flush)
  /\ WF_vars(\E call \in outbox : Send(call) \/ FailAdd(call))
  /\ WF_vars(\E p \in Processes, job \in queue : Process(p, job))
  /\ \A p \in Processes : WF_vars(Age(p)) /\ WF_vars(Sweep(p))

-----------------------------------------------------------------------------
(* Properties.                                                             *)

Ascends(s) == \A a, b \in DOMAIN s : a < b => s[a] < s[b]
Before(x, y) == \A a \in DOMAIN x.steps, b \in DOMAIN y.steps : x.steps[a] < y.steps[b]

\* The steps of a stream are shown in the order of the calls of emitStep(),
\* each at most once, whatever order the jobs come in, also when some are
\* lost and through silences and a shutdown (comments of emitOrdered() and
\* StreamSequenceState).
StepsInOrder ==
  faults \cap {"late", "again", "split", "resume"} = {} =>
    /\ \A i \in DOMAIN shown : Ascends(shown[i].steps)
    /\ \A i, j \in DOMAIN shown : i < j => Before(shown[i], shown[j])

\* A payload that was already emitted is not emitted again when its job is
\* delivered twice while the stream goes on (seq < state.nextSeq).
NotRepeated ==
  faults \subseteq {"again", "lost"} /\ open =>
    \A i, j \in DOMAIN shown :
      \A a \in DOMAIN shown[i].steps, b \in DOMAIN shown[j].steps :
        shown[i].steps[a] = shown[j].steps[b] => i = j /\ a = b

\* Steps are shown in order, and once.
ShownInOrder == TypeOK /\ StepsInOrder /\ NotRepeated

\* A step that was not shown yet is held back only behind one of its stream
\* that has not come: in its turn it is emitted at once (emitOrdered()).
Has(x, n)   == \E a \in DOMAIN x.steps : x.steps[a] = n
WasShown(n) == \E i \in DOMAIN shown : Has(shown[i], n)
Held == {n \in DOMAIN said : ~WasShown(n) /\
           \E p \in Processes : order[p] # NoState /\
             \E x \in order[p].buffer : Has(x, n)}
InTurnShown ==
  \A n \in Held : \E k \in DOMAIN said :
    k < n /\ said[k] = said[n] /\ k \notin Held /\ ~WasShown(k)

\* That holds for one process and a stream that neither pauses nor loses a
\* job (the loop of emitOrdered()).
PromptWhenSteady == faults \subseteq {"again", "restart"} => InTurnShown

\* Every step that was said reaches the browser, with jobs that come late,
\* twice or to different processes (sweepStaleStreams(), onModuleDestroy()).
EveryStepShown ==
  \A n \in Steps :
    (n \in DOMAIN said /\ faults \cap {"lost", "resume"} = {})
      ~> WasShown(n)

\* Both ends forget a stream, also one whose jobs were lost: streamOrder does
\* not grow for ever.
StreamForgotten == \A p \in Processes : order[p] # NoState ~> order[p] = NoState

=============================================================================
