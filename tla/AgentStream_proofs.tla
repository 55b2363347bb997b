-------------------------- MODULE AgentStream_proofs --------------------------
(***************************************************************************)
(* The steps of a turn are shown in the order they were said, once and in  *)
(* their turn: for any number of processes, steps and streams, and for     *)
(* any set of faults.  What is on its way to the browser (payloads that    *)
(* are being added, jobs, a buffer) is ordered by its numbers; whatever    *)
(* was shown came before all of it that is due; and where nothing is lost  *)
(* every number from the one that is due on is on its way.                 *)
(***************************************************************************)
EXTENDS AgentStream, FiniteSetTheorems, SequenceTheorems, WellFoundedInduction, TLAPS

\* A call of emitStep() adds at least one payload.
Calls == Seq(Payloads) \ {<<>>}
State == [next : Nat \ {0}, buffer : SUBSET Payloads, stale : BOOLEAN]

Typed ==
  /\ said \in Seq(1..MaxStreams) /\ streams \in 0..MaxStreams /\ open \in BOOLEAN
  /\ next \in Nat \ {0} /\ batch \in Seq(Steps)
  /\ outbox \subseteq Calls
  /\ queue \subseteq [payload : Payloads, again : BOOLEAN]
  /\ order \in [Processes -> {NoState} \cup State]
  /\ shown \in Seq(Payloads) /\ faults \in FaultSets

\* The numbers and the batch of a stream are within what was said.
Sized ==
  /\ next - 1 + Len(batch) <= Len(said)
  /\ Len(said) <= MaxSteps + streams - (IF open THEN 1 ELSE 0)
  /\ open => streams >= 1
  /\ ~open => batch = <<>>

\* A buffer holds one payload of a number, and not the one whose turn it is.
Kept(st) ==
  /\ IsFiniteSet(st.buffer)
  /\ \A x \in st.buffer : x.seq > st.next
  /\ \A x, y \in st.buffer : x.seq = y.seq => x = y
Buffers == \A p \in Processes : order[p] # NoState => Kept(order[p])

TypeInv == Typed /\ Sized /\ Buffers

-----------------------------------------------------------------------------
(* The operators of the module: what their CHOOSE finds.                   *)

LEMMA Least ==
  ASSUME NEW T \in SUBSET Nat, T # {}
  PROVE  \E m \in T : \A n \in T : m <= n
<1> DEFINE W == {0..m : m \in T}
<1>1. W \subseteq FiniteSubsetsOf(Nat) /\ W # {}
  <2>1. ASSUME NEW m \in T
        PROVE  0..m \in FiniteSubsetsOf(Nat)
    BY FS_Interval DEF FiniteSubsetsOf
  <2> QED BY <2>1
<1>2. PICK w \in W : \A v \in W : ~ (<<v, w>> \in StrictSubsetOrdering(Nat))
  <2> HIDE DEF W
  <2> QED BY <1>1, WFMin, FS_StrictSubsetOrderingWellFounded
<1>3. PICK m \in T : w = 0..m
  BY <1>2
<1>4. ASSUME NEW n \in T, n < m
      PROVE  FALSE
  <2>1. 0..n \subseteq 0..m /\ m \in 0..m /\ m \notin 0..n
    BY <1>4
  <2>2. <<0..n, w>> \in StrictSubsetOrdering(Nat)
    BY <2>1, <1>3 DEF StrictSubsetOrdering
  <2> QED BY <2>2, <1>2
<1> QED BY <1>4

\* The loop of emitOrdered() ends: at a number after which the buffer has a gap.
LEMMA LastInTurnFound ==
  ASSUME NEW st, st.next \in Nat, st.buffer \in SUBSET Payloads
  PROVE  LET last == LastInTurn(st) IN
         /\ last \in {st.next} \cup {x.seq : x \in st.buffer}
         /\ \A k \in (st.next + 1)..last : \E x \in st.buffer : x.seq = k
         /\ ~ \E x \in st.buffer : x.seq = last + 1
<1> DEFINE seqs == {x.seq : x \in st.buffer}
<1> DEFINE T == {m \in Nat : m >= st.next /\ (m + 1) \notin seqs}
<1>0. /\ MaxSteps \in Nat /\ MaxStreams \in Nat
      /\ seqs \subseteq Nat /\ \A s \in seqs : s <= MaxSteps + MaxStreams
  BY StreamAssumption DEF Payloads, Steps
<1>1. st.next + MaxSteps + MaxStreams \in T
  <2> HIDE DEF seqs
  <2> QED BY <1>0
<1>2. PICK n \in T : \A m \in T : n <= m
  <2> HIDE DEF T
  <2>1. T \in SUBSET Nat
    BY DEF T
  <2> QED BY <1>1, <2>1, Least
<1>3. \A k \in (st.next + 1)..n : k \in seqs
  <2> TAKE k \in (st.next + 1)..n
  <2>1. k - 1 \in Nat /\ k - 1 >= st.next /\ ~ (n <= k - 1) /\ (k - 1) + 1 = k
    OBVIOUS
  <2> QED BY <2>1, <1>2
<1>4. n \in {st.next} \cup seqs
  BY <1>2, <1>3
<1>5. \A k \in (st.next + 1)..n : \E x \in st.buffer : x.seq = k
  BY <1>3
<1>6. ~ \E x \in st.buffer : x.seq = n + 1
  BY <1>2
<1> QED BY <1>4, <1>5, <1>6 DEF LastInTurn

\* The sort of the sweep: a buffer with one payload of a number can be put in
\* the order of the numbers, by well-founded induction on its subsets.
LEMMA BySeqFound ==
  ASSUME NEW buffer \in SUBSET Payloads, IsFiniteSet(buffer),
         \A x, y \in buffer : x.seq = y.seq => x = y
  PROVE  /\ Cardinality(buffer) \in Nat
         /\ BySeq(buffer) \in [1..Cardinality(buffer) -> buffer]
         /\ \A i, j \in 1..Cardinality(buffer) : i < j => BySeq(buffer)[i].seq < BySeq(buffer)[j].seq
<1> DEFINE Sorted(B) == \E s \in [1..Cardinality(B) -> B] :
                 \A i, j \in 1..Cardinality(B) : i < j => s[i].seq < s[j].seq
<1> DEFINE W == {B \in FiniteSubsetsOf(buffer) : ~ Sorted(B)}
<1>1. buffer \in FiniteSubsetsOf(buffer) /\ W \subseteq FiniteSubsetsOf(buffer)
  BY DEF FiniteSubsetsOf
<1>2. SUFFICES ASSUME W # {} PROVE FALSE
  <2>1. SUFFICES Sorted(buffer)
    BY FS_CardinalityType DEF BySeq
  <2> QED BY <1>1, <1>2
<1>3. PICK B \in W : \A C \in W : ~ (<<C, B>> \in StrictSubsetOrdering(buffer))
  <2> HIDE DEF W
  <2> QED BY <1>1, <1>2, WFMin, FS_StrictSubsetOrderingWellFounded
<1>4. B \in SUBSET buffer /\ IsFiniteSet(B) /\ ~ Sorted(B)
  BY <1>3 DEF FiniteSubsetsOf
<1>5. B # {}
  <2>1. SUFFICES ASSUME B = {} PROVE Sorted(B)
    BY <1>4
  <2>2. Cardinality(B) = 0
    BY <2>1, FS_EmptySet
  <2>3. [i \in {} |-> i] \in [1..0 -> B]
    OBVIOUS
  <2> QED BY <2>2, <2>3
<1>6. PICK x \in B : \A y \in B : y.seq <= x.seq
  <2> DEFINE N == MaxSteps + MaxStreams
  <2> DEFINE T == {N - y.seq : y \in B}
  <2>1. \A y \in B : y.seq \in 1..N /\ N - y.seq \in Nat
    BY <1>4, StreamAssumption DEF Payloads, Steps
  <2>2. T \in SUBSET Nat /\ T # {}
    BY <2>1, <1>5
  <2>3. PICK m \in T : \A n \in T : m <= n
    <3> HIDE DEF T
    <3> QED BY <2>2, Least
  <2>4. PICK x \in B : m = N - x.seq
    BY <2>3
  <2>5. \A y \in B : N - x.seq <= N - y.seq
    BY <2>3, <2>4
  <2>6. \A y \in B : y.seq <= x.seq
    <3> HIDE DEF N
    <3>1. N \in Nat
      BY StreamAssumption DEF N
    <3> QED BY <2>1, <2>5, <3>1
  <2> QED BY <2>6
<1> DEFINE C == B \ {x}
<1> DEFINE n == Cardinality(B)
<1>7. n \in Nat /\ n # 0 /\ Cardinality(C) = n - 1 /\ IsFiniteSet(C) /\ C \in SUBSET buffer
  BY <1>4, <1>5, <1>6, FS_RemoveElement, FS_CardinalityType, FS_EmptySet
<1>8. Sorted(C)
  <2>1. <<C, B>> \in StrictSubsetOrdering(buffer)
    BY <1>4, <1>6, <1>7 DEF StrictSubsetOrdering
  <2> QED BY <2>1, <1>3, <1>7 DEF FiniteSubsetsOf
<1>9. PICK s \in [1..(n - 1) -> C] : \A i, j \in 1..(n - 1) : i < j => s[i].seq < s[j].seq
  BY <1>7, <1>8
<1>10. \A y \in C : y.seq < x.seq
  <2> TAKE y \in C
  <2>1. y.seq <= x.seq /\ y.seq # x.seq /\ y.seq \in Nat /\ x.seq \in Nat
    BY <1>4, <1>6, StreamAssumption DEF Payloads, Steps
  <2> QED BY <2>1
<1> HIDE DEF C, n
<1> DEFINE t == [i \in 1..n |-> IF i < n THEN s[i] ELSE x]
<1>11. t \in [1..n -> B]
  <2>1. ASSUME NEW i \in 1..n, i < n PROVE s[i] \in B
    <3>1. i \in 1..(n - 1)
      BY <2>1, <1>7
    <3> QED BY <3>1, <1>9 DEF C
  <2> QED BY <2>1, <1>6
<1>12. ASSUME NEW i \in 1..n, NEW j \in 1..n, i < j
       PROVE  t[i].seq < t[j].seq
  <2>1. i \in 1..(n - 1) /\ i < n /\ t[i] = s[i] /\ s[i] \in C
    BY <1>7, <1>9, <1>12
  <2>2. CASE j < n
    <3>1. j \in 1..(n - 1) /\ t[j] = s[j]
      BY <1>7, <2>2
    <3> QED BY <2>1, <3>1, <1>9, <1>12
  <2>3. CASE ~ (j < n)
    <3>1. t[j] = x
      BY <2>3
    <3> QED BY <2>1, <3>1, <1>10
  <2> QED BY <2>2, <2>3
<1>13. Sorted(B)
  <2> HIDE DEF t
  <2> QED BY <1>11, <1>12 DEF n
<1> QED BY <1>4, <1>13

-----------------------------------------------------------------------------
(* Types.                                                                  *)

StateOf(p) == IF order[p] = NoState THEN NewState ELSE order[p]

\* An entry of streamOrder is not the lack of one.
LEMMA NoStateIsNone == NoState \notin State
BY StreamAssumption DEF State

\* emitOrdered() begins with a well-formed entry, its own or a new one.
LEMMA StateOfKept ==
  ASSUME TypeInv, NEW p \in Processes
  PROVE  StateOf(p) \in State /\ Kept(StateOf(p))
<1>1. CASE order[p] = NoState
  BY <1>1, FS_EmptySet DEF StateOf, NewState, State, Kept
<1>2. CASE order[p] # NoState
  BY <1>2 DEF StateOf, TypeInv, Typed, Buffers
<1> QED BY <1>1, <1>2

\* There is a number left for the batch and for one more step.
LEMMA NumbersLeft ==
  ASSUME TypeInv, open
  PROVE  /\ Len(said) + 1 \in Steps /\ next \in Steps
         /\ batch # <<>> => next + 1 \in Steps /\ Len(batch) >= 1
         /\ MaxSteps + MaxStreams \in Nat
<1>1. Len(said) \in Nat /\ Len(batch) \in Nat /\ (batch # <<>> => Len(batch) >= 1)
  BY DEF TypeInv, Typed
<1> QED BY <1>1, StreamAssumption DEF TypeInv, Typed, Sized, Steps

\* Calls of one payload and of two.
LEMMA CallOf ==
  ASSUME NEW a \in Payloads
  PROVE  /\ <<a>> \in Calls /\ Len(<<a>>) = 1 /\ <<a>>[1] = a /\ Append(<<>>, a) = <<a>>
         /\ \A b \in Payloads :
              /\ Append(<<a>>, b) \in Calls /\ Len(Append(<<a>>, b)) = 2
              /\ Append(<<a>>, b)[1] = a /\ Append(<<a>>, b)[2] = b
<1>1. <<a>> \in Seq(Payloads) /\ Len(<<a>>) = 1 /\ Append(<<>>, a) = <<a>> /\ <<a>> # <<>> /\ <<a>>[1] = a
  OBVIOUS
<1>2. ASSUME NEW b \in Payloads
      PROVE  /\ Append(<<a>>, b) \in Calls /\ Len(Append(<<a>>, b)) = 2
             /\ Append(<<a>>, b)[1] = a /\ Append(<<a>>, b)[2] = b
  <2>1. /\ Append(<<a>>, b) \in Seq(Payloads) /\ Append(<<a>>, b) # <<>>
        /\ Len(Append(<<a>>, b)) = Len(<<a>>) + 1
        /\ \A i \in 1..Len(<<a>>) : Append(<<a>>, b)[i] = <<a>>[i]
        /\ Append(<<a>>, b)[Len(<<a>>) + 1] = b
    BY <1>1, AppendProperties
  <2> QED BY <1>1, <2>1 DEF Calls
<1> QED BY <1>1, <1>2 DEF Calls

\* The first payload of a call, and what is left of it to be added.
LEMMA CallParts ==
  ASSUME NEW call \in Calls
  PROVE  /\ Len(call) \in Nat \ {0} /\ Head(call) = call[1] /\ Head(call) \in Payloads
         /\ Len(call) # 1 => /\ Tail(call) \in Calls /\ Len(Tail(call)) = Len(call) - 1
                             /\ \A i \in 1..(Len(call) - 1) : Tail(call)[i] = call[i + 1]
<1>1. call \in Seq(Payloads) /\ call # <<>> /\ Len(call) \in Nat
  BY DEF Calls
<1>2. Len(call) # 0
  BY <1>1, EmptySeq
<1>3. Tail(call) \in Seq(Payloads) /\ Len(Tail(call)) = Len(call) - 1
  BY <1>1, <1>2, HeadTailProperties
<1>4. \A i \in 1..(Len(call) - 1) : Tail(call)[i] = call[i + 1]
  BY <1>1, <1>2, HeadTailProperties
<1>5. Head(call) = call[1] /\ call[1] \in Payloads
  BY <1>1, <1>2, ElementOfSeq
<1>6. Len(call) # 1 => Tail(call) # <<>>
  <2> SUFFICES ASSUME Len(call) # 1, Tail(call) = <<>> PROVE FALSE
    OBVIOUS
  <2>1. Len(Tail(call)) = 0
    BY EmptySeq
  <2> QED BY <1>1, <1>3, <2>1
<1> QED BY <1>1, <1>2, <1>3, <1>4, <1>5, <1>6 DEF Calls

\* What emitStep() adds: the batch, if there is one, and the step.
LEMMA NumberedIs ==
  ASSUME TypeInv, open, NEW step \in Steps, NEW done \in BOOLEAN
  PROVE  /\ Numbered(step, done) \in Calls
         /\ batch = <<>> =>
              /\ Len(Drained) = 0
              /\ Numbered(step, done) = <<Payload(next, <<step>>, done)>>
         /\ batch # <<>> =>
              /\ Len(Drained) = 1 /\ Drained \in Calls
              /\ Drained = <<Payload(next, batch, FALSE)>>
              /\ Len(Numbered(step, done)) = 2
              /\ Numbered(step, done)[1] = Payload(next, batch, FALSE)
              /\ Numbered(step, done)[2] = Payload(next + 1, <<step>>, done)
<1>1. CASE batch = <<>>
  <2>1. Payload(next, <<step>>, done) \in Payloads
    BY NumbersLeft DEF Payload, Payloads
  <2>2. Drained = <<>> /\ Len(Drained) = 0 /\ next + Len(Drained) = next
    BY <1>1 DEF Drained, TypeInv, Typed
  <2>3. Numbered(step, done) = Append(<<>>, Payload(next, <<step>>, done))
    BY <2>2 DEF Numbered
  <2> QED BY <1>1, <2>1, <2>2, <2>3, CallOf
<1>2. CASE batch # <<>>
  <2>1. Payload(next, batch, FALSE) \in Payloads
    BY <1>2, NumbersLeft DEF Payload, Payloads, TypeInv, Typed
  <2>2. Payload(next + 1, <<step>>, done) \in Payloads
    BY <1>2, NumbersLeft DEF Payload, Payloads
  <2>3. Drained = <<Payload(next, batch, FALSE)>> /\ Len(Drained) = 1 /\ Drained \in Calls
    BY <1>2, <2>1, CallOf DEF Drained
  <2>4. Numbered(step, done) = Append(<<Payload(next, batch, FALSE)>>, Payload(next + 1, <<step>>, done))
    <3>1. Numbered(step, done) = Append(Drained, Payload(next + Len(Drained), <<step>>, done))
      BY DEF Numbered
    <3> QED BY <2>3, <3>1
  <2>5. /\ Numbered(step, done) \in Calls /\ Len(Numbered(step, done)) = 2
        /\ Numbered(step, done)[1] = Payload(next, batch, FALSE)
        /\ Numbered(step, done)[2] = Payload(next + 1, <<step>>, done)
    <3> DEFINE a == Payload(next, batch, FALSE)
               b == Payload(next + 1, <<step>>, done)
               n == Numbered(step, done)
    <3>1. a \in Payloads /\ b \in Payloads /\ n = Append(<<a>>, b)
      BY <2>1, <2>2, <2>4
    <3> HIDE DEF a, b, n
    <3>2. n \in Calls /\ Len(n) = 2 /\ n[1] = a /\ n[2] = b
      BY <3>1, CallOf
    <3> QED BY <3>2, Zenon DEF a, b, n
  <2> QED BY <1>2, <2>3, <2>5
<1> QED BY <1>1, <1>2

\* The invariant of types holds at first, and through each kind of step.
LEMMA InitTypes == Init => TypeInv
<1> SUFFICES ASSUME Init PROVE TypeInv
  OBVIOUS
<1>1. Typed
  <2>1. said \in Seq(1..MaxStreams) /\ batch \in Seq(Steps) /\ shown \in Seq(Payloads)
    BY EmptySeq DEF Init
  <2>4. next \in Nat \ {0} /\ outbox \subseteq Calls
    BY DEF Init
  <2>6. open \in BOOLEAN
    BY Zenon DEF Init
  <2>5. queue \subseteq [payload : Payloads, again : BOOLEAN]
    BY DEF Init
  <2>2. streams \in 0..MaxStreams
    BY StreamAssumption DEF Init
  <2>3. order \in [Processes -> {NoState} \cup State] /\ faults \in FaultSets
    BY DEF Init
  <2> QED BY <2>1, <2>2, <2>3, <2>4, <2>5, <2>6 DEF Typed
<1>2. Sized
  <2>1. Len(said) = 0 /\ Len(batch) = 0
    BY EmptySeq DEF Init
  <2> QED BY <2>1, StreamAssumption DEF Sized, Init
<1>3. Buffers
  BY DEF Buffers, Init
<1> QED BY <1>1, <1>2, <1>3 DEF TypeInv

\* Calls of the orchestration process.
LEMMA ProducerTypes ==
  ASSUME TypeInv, \/ Begin \/ Token \/ Step \/ Done \/ Flush \/ ShutDown \/ ForgetSequence
  PROVE  TypeInv'
<1>t. Typed /\ Sized /\ Buffers
  BY DEF TypeInv
<1>0. Len(said) \in Nat /\ Len(batch) \in Nat /\ MaxSteps \in Nat /\ MaxStreams \in Nat \ {0}
  BY <1>t, StreamAssumption DEF Typed
<1>1. CASE Begin
  <2>1. Typed'
    BY <1>t, <1>0, <1>1 DEF Begin, Typed
  <2>2. Sized' /\ Buffers'
    BY <1>t, <1>0, <1>1 DEF Begin, Sized, Buffers, Typed
  <2> QED BY <2>1, <2>2 DEF TypeInv
<1>2. CASE Token
  <2>1. Len(said') = Len(said) + 1 /\ Len(batch') = Len(batch) + 1 /\ Len(said') \in Steps
    BY <1>t, <1>0, <1>2 DEF Token, Typed, Steps
  <2>2. Typed'
    BY <1>t, <1>0, <1>2, <2>1 DEF Token, Typed, Sized
  <2>3. Sized' /\ Buffers'
    BY <1>t, <1>0, <1>2, <2>1 DEF Token, Sized, Buffers, Typed
  <2> QED BY <2>2, <2>3 DEF TypeInv
<1>3. ASSUME NEW done \in BOOLEAN, Emit(done), done \/ Len(said) < MaxSteps
      PROVE  TypeInv'
  <2>0. open /\ UNCHANGED <<streams, queue, order, shown, faults>>
    BY <1>3 DEF Emit
  <2>1. said' \in Seq(1..MaxStreams) /\ Len(said') = Len(said) + 1 /\ Len(said') \in Steps
    BY <1>t, <1>0, <1>3, NumbersLeft DEF Emit, Typed, Sized
  <2>2. next' \in Nat \ {0} /\ next' <= Len(said') + 1 /\ batch' = <<>>
    <3>1. Len(Drained) = IF batch = <<>> THEN 0 ELSE 1
      BY <2>0, <2>1, NumberedIs
    <3>2. /\ next \in Nat \ {0} /\ next - 1 + Len(batch) <= Len(said)
          /\ batch # <<>> => Len(batch) >= 1
      BY <1>t, <2>0, NumbersLeft DEF Typed, Sized
    <3> QED BY <1>0, <1>3, <2>1, <3>1, <3>2 DEF Emit
  <2>3. outbox' \subseteq Calls
    <3>1. Numbered(Len(said'), done) \in Calls
      BY <2>0, <2>1, NumberedIs
    <3> QED BY <1>t, <1>3, <3>1 DEF Emit, Typed
  <2>4. Typed'
    BY <1>t, <1>3, <2>0, <2>1, <2>2, <2>3 DEF Emit, Typed
  <2>5. Sized'
    <3>1. Len(batch') = 0 /\ open' = ~done
      BY <1>3, <2>2 DEF Emit
    <3>2. Len(said) <= MaxSteps + streams - 1 /\ streams >= 1 /\ streams \in Nat
      BY <1>t, <2>0, StreamAssumption DEF Sized, Typed
    <3>3. next' - 1 + Len(batch') <= Len(said')
      BY <1>0, <2>1, <2>2, <3>1
    <3>4. streams' = streams
      BY <2>0
    <3>5. Len(said') <= MaxSteps + streams' - (IF open' THEN 1 ELSE 0)
      <4>1. CASE done
        <5>1. ~open'
          BY <4>1, <3>1
        <5> QED BY <1>0, <5>1, <2>1, <3>2, <3>4
      <4>2. CASE ~done
        BY <1>0, <1>3, <4>2, <2>1, <3>1, <3>2, <3>4
      <4> QED BY <4>1, <4>2
    <3> QED BY <2>2, <3>2, <3>3, <3>4, <3>5 DEF Sized
  <2>6. Buffers'
    BY <1>t, <2>0 DEF Buffers
  <2> QED BY <2>4, <2>5, <2>6 DEF TypeInv
<1>4. CASE Flush \/ ShutDown
  <2>0. open /\ UNCHANGED <<said, streams, queue, order, shown, faults>>
    BY <1>t, <1>4 DEF Flush, ShutDown, Sized
  <2>1. outbox' \subseteq Calls
    <3>1. batch # <<>> => Drained \in Calls
      BY <2>0, NumberedIs, NumbersLeft
    <3> QED BY <1>t, <1>4, <3>1 DEF Flush, ShutDown, Typed
  <2>2. /\ batch' = <<>> /\ Len(batch') = 0
        /\ next' = 1 \/ (next' = next + 1 /\ batch # <<>>)
        /\ open' \in BOOLEAN
    BY <1>t, <1>4, EmptySeq DEF Flush, ShutDown, Typed
  <2>3. Typed'
    <3>1. next' \in Nat \ {0} /\ batch' \in Seq(Steps) /\ open' \in BOOLEAN
      BY <1>t, <2>2, EmptySeq DEF Typed
    <3> QED BY <1>t, <2>0, <2>1, <3>1 DEF Typed
  <2>4. Sized'
    <3>1. batch # <<>> => Len(batch) >= 1
      BY <2>0, NumbersLeft
    <3>2. next - 1 + Len(batch) <= Len(said) /\ Len(said) <= MaxSteps + streams - 1 /\ streams >= 1
      BY <1>t, <2>0 DEF Sized
    <3>3. next \in Nat /\ streams \in Nat
      BY <1>t, StreamAssumption DEF Typed
    <3>4. next' - 1 + Len(batch') <= Len(said')
      BY <1>0, <2>0, <2>2, <3>1, <3>2, <3>3
    <3>5. Len(said') <= MaxSteps + streams' - (IF open' THEN 1 ELSE 0)
      BY <1>0, <2>0, <2>2, <3>2, <3>3
    <3> QED BY <2>0, <2>2, <3>2, <3>4, <3>5 DEF Sized
  <2>5. Buffers'
    BY <1>t, <2>0 DEF Buffers
  <2> QED BY <2>3, <2>4, <2>5 DEF TypeInv
<1>5. CASE ForgetSequence
  <2>1. Typed'
    BY <1>t, <1>0, <1>5 DEF ForgetSequence, Typed
  <2>2. Sized' /\ Buffers'
    BY <1>t, <1>0, <1>5 DEF ForgetSequence, Sized, Buffers, Typed
  <2> QED BY <2>1, <2>2 DEF TypeInv
<1> QED BY <1>1, <1>2, <1>3, <1>4, <1>5 DEF Step, Done

\* addAgentStream() adds a payload, or fails to.
LEMMA QueueTypes ==
  ASSUME TypeInv, NEW call \in outbox, Send(call) \/ FailAdd(call)
  PROVE  TypeInv'
<1>t. Typed /\ Sized /\ Buffers
  BY DEF TypeInv
<1>1. call \in Calls /\ Head(call) \in Payloads /\ (Len(call) # 1 => Tail(call) \in Calls)
  BY <1>t, CallParts DEF Typed
<1>2. outbox' \subseteq Calls
  BY <1>t, <1>1 DEF Typed, Send, FailAdd
<1>3. queue' \subseteq [payload : Payloads, again : BOOLEAN]
  <2>1. [payload |-> Head(call), again |-> FALSE] \in [payload : Payloads, again : BOOLEAN]
    BY <1>1
  <2>2. queue' = queue \/ queue' = queue \cup {[payload |-> Head(call), again |-> FALSE]}
    BY DEF Send, FailAdd
  <2> QED BY <1>t, <2>1, <2>2 DEF Typed
<1>4. UNCHANGED <<said, streams, open, next, batch, order, shown, faults>>
  BY DEF Send, FailAdd, producer
<1>5. Typed'
  BY <1>t, <1>2, <1>3, <1>4 DEF Typed
<1>6. Sized' /\ Buffers'
  BY <1>t, <1>4 DEF Sized, Buffers
<1> QED BY <1>5, <1>6 DEF TypeInv

-----------------------------------------------------------------------------
(* What a process shows.                                                   *)

\* Payloads of P are shown after all others, in the order of their numbers.
Grown(P) ==
  /\ shown' \in Seq(Payloads) /\ Len(shown) <= Len(shown')
  /\ \A i \in 1..Len(shown) : shown'[i] = shown[i]
  /\ \A i \in (Len(shown) + 1)..Len(shown') : shown'[i] \in P
  /\ \A i, j \in (Len(shown) + 1)..Len(shown') : i < j => shown'[i].seq < shown'[j].seq

\* A function on 1..n is a sequence of n elements.
LEMMA SeqOfFunction ==
  ASSUME NEW S, NEW n \in Nat, NEW f \in [1..n -> S]
  PROVE  f \in Seq(S) /\ Len(f) = n
<1>1. f \in Seq(S)
  BY SeqDef
<1>2. DOMAIN f = 1..Len(f) /\ DOMAIN f = 1..n /\ Len(f) \in Nat
  BY <1>1, LenProperties
<1> QED BY <1>1, <1>2

\* What is appended in ascending order is shown after all others.
LEMMA GrownBy ==
  ASSUME shown \in Seq(Payloads), NEW t \in Seq(Payloads), NEW P, shown' = shown \o t,
         \A i \in 1..Len(t) : t[i] \in P,
         \A i, j \in 1..Len(t) : i < j => t[i].seq < t[j].seq
  PROVE  Grown(P)
<1>1. Len(shown) \in Nat /\ Len(t) \in Nat
  OBVIOUS
<1>2. /\ shown' \in Seq(Payloads) /\ Len(shown') = Len(shown) + Len(t)
      /\ \A i \in 1..(Len(shown) + Len(t)) :
           shown'[i] = IF i <= Len(shown) THEN shown[i] ELSE t[i - Len(shown)]
  BY ConcatProperties
<1>3. \A i \in (Len(shown) + 1)..Len(shown') :
        i - Len(shown) \in 1..Len(t) /\ shown'[i] = t[i - Len(shown)]
  BY <1>1, <1>2
<1>4. ASSUME NEW i \in (Len(shown) + 1)..Len(shown'), NEW j \in (Len(shown) + 1)..Len(shown'), i < j
      PROVE  shown'[i].seq < shown'[j].seq
  <2>1. i - Len(shown) < j - Len(shown)
    BY <1>1, <1>4
  <2> QED BY <1>3, <2>1
<1>5. \A i \in (Len(shown) + 1)..Len(shown') : shown'[i] \in P
  BY <1>3
<1>6. Len(shown) <= Len(shown') /\ \A i \in 1..Len(shown) : shown'[i] = shown[i]
  BY <1>1, <1>2
<1> QED BY <1>2, <1>4, <1>5, <1>6 DEF Grown

\* A payload in its turn is shown with those of the buffer that follow it.
LEMMA InTurnGrows ==
  ASSUME TypeInv, NEW p \in Processes, NEW x \in Payloads,
         InTurn(p, StateOf(p), x), x.seq = StateOf(p).next
  PROVE  LET st == StateOf(p)  last == LastInTurn(st) IN
         /\ last \in Nat /\ last >= st.next
         /\ last \in {st.next} \cup {y.seq : y \in st.buffer}
         /\ \A k \in (st.next + 1)..last : \E y \in st.buffer : y.seq = k
         /\ ~ \E y \in st.buffer : y.seq = last + 1
         /\ Grown({x} \cup {y \in st.buffer : y.seq <= last})
         /\ \A y \in {x} \cup {z \in st.buffer : z.seq <= last} :
              \E i \in DOMAIN shown' : shown'[i] = y
<1> DEFINE st == StateOf(p)
           last == LastInTurn(st)
           n == last - st.next
           f == [i \in 1..n |-> Buffered(st.buffer, st.next + i)]
           t == <<x>> \o f
<1>1. st \in State /\ Kept(st)
  BY StateOfKept
<1>2. st.next \in Nat \ {0} /\ st.buffer \in SUBSET Payloads /\ \A y \in st.buffer : y.seq > st.next
  BY <1>1 DEF State, Kept
<1>3. shown' = Append(shown, x) \o f /\ shown \in Seq(Payloads) /\ x.seq = st.next
  BY DEF InTurn, TypeInv, Typed
<1> HIDE DEF st
<1>4. /\ last \in {st.next} \cup {y.seq : y \in st.buffer}
      /\ \A k \in (st.next + 1)..last : \E y \in st.buffer : y.seq = k
      /\ ~ \E y \in st.buffer : y.seq = last + 1
  BY <1>2, LastInTurnFound
<1>5. \A y \in Payloads : y.seq \in Nat
  BY StreamAssumption DEF Payloads, Steps
<1> HIDE DEF last
<1>6. last \in Nat /\ last >= st.next /\ n \in Nat
  BY <1>2, <1>4, <1>5
<1>7. ASSUME NEW i \in 1..n
      PROVE  /\ Buffered(st.buffer, st.next + i) \in st.buffer
             /\ Buffered(st.buffer, st.next + i).seq = st.next + i
             /\ st.next + i <= last
  <2>1. st.next + i \in (st.next + 1)..last
    BY <1>2, <1>6
  <2>2. \E y \in st.buffer : y.seq = st.next + i
    BY <2>1, <1>4
  <2> QED BY <2>1, <2>2, <1>6 DEF Buffered
<1>8. f \in Seq(Payloads) /\ Len(f) = n
  <2>1. f \in [1..n -> Payloads]
    BY <1>2, <1>7
  <2> HIDE DEF f, n
  <2> QED BY <2>1, <1>6, SeqOfFunction
<1>9. \A i \in 1..n : f[i] \in st.buffer /\ f[i].seq = st.next + i /\ f[i].seq <= last
  BY <1>7
<1> HIDE DEF f, n
<1>10. <<x>> \in Seq(Payloads) /\ Len(<<x>>) = 1 /\ <<x>>[1] = x
  OBVIOUS
<1>11. shown' = shown \o t /\ t \in Seq(Payloads)
  <2>1. Append(shown, x) = shown \o <<x>>
    BY <1>3, AppendIsConcat
  <2>2. (shown \o <<x>>) \o f = shown \o (<<x>> \o f)
    BY <1>3, <1>8, <1>10, ConcatAssociative
  <2>3. <<x>> \o f \in Seq(Payloads)
    BY <1>8, <1>10, ConcatProperties
  <2> QED BY <1>3, <2>1, <2>2, <2>3
<1>12. Len(t) = 1 + n /\ \A i \in 1..(1 + n) : t[i] = IF i <= 1 THEN <<x>>[i] ELSE f[i - 1]
  BY <1>8, <1>10, ConcatProperties
<1> HIDE DEF t
<1>13. ASSUME NEW i \in 1..Len(t)
       PROVE  t[i] \in {x} \cup {y \in st.buffer : y.seq <= last} /\ t[i].seq = st.next + i - 1
  <2>1. CASE i = 1
    BY <2>1, <1>2, <1>3, <1>10, <1>12, <1>6
  <2>2. CASE i # 1
    <3>1. i - 1 \in 1..n /\ t[i] = f[i - 1]
      BY <2>2, <1>6, <1>12
    <3> QED BY <3>1, <1>9, <1>2, <1>6
  <2> QED BY <2>1, <2>2
<1>14. \A i, j \in 1..Len(t) : i < j => t[i].seq < t[j].seq
  <2>1. \A i \in 1..Len(t) : i \in Nat
    BY <1>6, <1>12
  <2> QED BY <2>1, <1>2, <1>13
<1>15. Grown({x} \cup {y \in st.buffer : y.seq <= last})
  BY <1>3, <1>11, <1>13, <1>14, GrownBy
<1>16. ASSUME NEW y \in {x} \cup {z \in st.buffer : z.seq <= last}
       PROVE  \E i \in DOMAIN shown' : shown'[i] = y
  <2>1. \E i \in 1..Len(t) : t[i] = y
    <3>1. CASE y = x
      BY <3>1, <1>6, <1>10, <1>12
    <3>2. CASE y \in st.buffer /\ y.seq <= last
      <4>1. y.seq \in Nat /\ y.seq > st.next
        BY <3>2, <1>2, <1>5
      <4> DEFINE i == y.seq - st.next
      <4>2. i \in 1..n /\ st.next + i = y.seq
        BY <4>1, <3>2, <1>2, <1>6 DEF n
      <4> HIDE DEF i
      <4>3. f[i] = y
        BY <4>2, <3>2, <1>1, <1>9 DEF Kept
      <4>4. i + 1 \in 1..Len(t) /\ t[i + 1] = f[i]
        BY <4>2, <1>6, <1>12
      <4> QED BY <4>3, <4>4
    <3> QED BY <3>1, <3>2, <1>16
  <2>2. PICK i \in 1..Len(t) : t[i] = y
    BY <2>1
  <2>3. /\ Len(shown) \in Nat /\ Len(t) \in Nat
        /\ shown' \in Seq(Payloads) /\ Len(shown') = Len(shown) + Len(t)
        /\ \A j \in 1..(Len(shown) + Len(t)) :
             shown'[j] = IF j <= Len(shown) THEN shown[j] ELSE t[j - Len(shown)]
    BY <1>3, <1>11, ConcatProperties, LenProperties
  <2>4. Len(shown) + i \in 1..Len(shown') /\ shown'[Len(shown) + i] = t[i]
    <3>1. /\ Len(shown) + i \in 1..(Len(shown) + Len(t)) /\ ~ (Len(shown) + i <= Len(shown))
          /\ (Len(shown) + i) - Len(shown) = i
      BY <2>3
    <3> QED BY <2>3, <3>1
  <2> QED BY <2>2, <2>3, <2>4, LenProperties
<1> QED BY <1>4, <1>6, <1>15, <1>16 DEF st, last

\* A sweep shows what the buffer holds.
LEMMA SweepGrows ==
  ASSUME TypeInv, NEW p \in Processes, Sweep(p)
  PROVE  Grown(order[p].buffer)
<1> DEFINE buffer == order[p].buffer
           t == BySeq(buffer)
<1>1. buffer \in SUBSET Payloads /\ Kept(order[p]) /\ shown' = shown \o t /\ shown \in Seq(Payloads)
  BY DEF Sweep, TypeInv, Typed, Buffers, State
<1>2. IsFiniteSet(buffer) /\ \A x, y \in buffer : x.seq = y.seq => x = y
  BY <1>1 DEF Kept
<1> HIDE DEF buffer
<1>3. /\ Cardinality(buffer) \in Nat /\ t \in [1..Cardinality(buffer) -> buffer]
      /\ \A i, j \in 1..Cardinality(buffer) : i < j => t[i].seq < t[j].seq
  BY <1>1, <1>2, BySeqFound
<1> HIDE DEF t
<1>4. t \in [1..Cardinality(buffer) -> Payloads]
  BY <1>1, <1>3
<1>5. t \in Seq(Payloads) /\ Len(t) = Cardinality(buffer)
  BY <1>3, <1>4, SeqOfFunction
<1>6. \A i \in 1..Len(t) : t[i] \in buffer
  BY <1>3, <1>5
<1> QED BY <1>1, <1>3, <1>5, <1>6, GrownBy DEF buffer

-----------------------------------------------------------------------------
(* Type correctness.                                                       *)

\* Only what a process holds and what is shown change.
LEMMA WorkerTypes ==
  ASSUME TypeInv, NEW p \in Processes, NEW st \in {NoState} \cup State,
         order' = [order EXCEPT ![p] = st], st # NoState => Kept(st),
         shown' \in Seq(Payloads), queue' \subseteq [payload : Payloads, again : BOOLEAN],
         UNCHANGED <<said, streams, open, next, batch, outbox, faults>>
  PROVE  TypeInv'
<1>t. Typed /\ Sized /\ Buffers
  BY DEF TypeInv
<1>1. order' \in [Processes -> {NoState} \cup State]
  BY <1>t DEF Typed
<1>2. Typed'
  BY <1>t, <1>1 DEF Typed
<1>3. Sized'
  BY <1>t DEF Sized
<1>4. Buffers'
  <2> SUFFICES ASSUME NEW q \in Processes, order'[q] # NoState PROVE Kept(order'[q])
    BY DEF Buffers, Kept
  <2>1. CASE q = p
    <3>1. order'[q] = st
      BY <1>t, <2>1 DEF Typed
    <3> QED BY <3>1
  <2>2. CASE q # p
    <3>1. order'[q] = order[q]
      BY <1>t, <2>2 DEF Typed
    <3> QED BY <1>t, <3>1 DEF Buffers
  <2> QED BY <2>1, <2>2
<1> QED BY <1>2, <1>3, <1>4 DEF TypeInv

\* What emitOrdered() leaves of the state of its process.
Holding(st, x) == [st EXCEPT !.stale = FALSE, !.buffer = {y \in @ : y.seq # x.seq} \cup {x}]
Passed(st)   == [next |-> LastInTurn(st) + 1, stale |-> FALSE,
                 buffer |-> {y \in st.buffer : y.seq > LastInTurn(st)}]

\* The entries that emitOrdered() may leave are well-formed.
LEMMA EmitOrderedKeeps ==
  ASSUME TypeInv, NEW p \in Processes, NEW x \in Payloads
  PROVE  LET st == StateOf(p) IN
         /\ [st EXCEPT !.stale = FALSE] \in State /\ Kept([st EXCEPT !.stale = FALSE])
         /\ x.seq > st.next => Holding(st, x) \in State /\ Kept(Holding(st, x))
         /\ x.seq = st.next /\ InTurn(p, st, x) => Passed(st) \in State /\ Kept(Passed(st))
<1> DEFINE st == StateOf(p)
           last == LastInTurn(st)
<1>1. st \in State /\ Kept(st)
  BY StateOfKept
<1> HIDE DEF st
<1>2. /\ st.next \in Nat \ {0} /\ st.buffer \in SUBSET Payloads /\ IsFiniteSet(st.buffer)
      /\ \A y \in st.buffer : y.seq > st.next
      /\ \A y, z \in st.buffer : y.seq = z.seq => y = z
  BY <1>1 DEF State, Kept
<1>3. [st EXCEPT !.stale = FALSE] \in State /\ Kept([st EXCEPT !.stale = FALSE])
  <2>1. /\ [st EXCEPT !.stale = FALSE] \in State
        /\ [st EXCEPT !.stale = FALSE].next = st.next /\ [st EXCEPT !.stale = FALSE].buffer = st.buffer
    BY <1>1 DEF State
  <2> QED BY <1>2, <2>1 DEF Kept
<1>4. ASSUME x.seq > st.next
      PROVE  Holding(st, x) \in State /\ Kept(Holding(st, x))
  <2> DEFINE b == {y \in st.buffer : y.seq # x.seq} \cup {x}
  <2>1. Holding(st, x) \in State /\ Holding(st, x).next = st.next /\ Holding(st, x).buffer = b
    BY <1>1, <1>2 DEF State, Holding
  <2>2. IsFiniteSet(b)
    <3>1. IsFiniteSet({y \in st.buffer : y.seq # x.seq})
      BY <1>2, FS_Subset
    <3> QED BY <3>1, FS_AddElement
  <2>3. /\ \A y \in b : y.seq > st.next
        /\ \A y, z \in b : y.seq = z.seq => y = z
    BY <1>2, <1>4
  <2> HIDE DEF b
  <2> QED BY <2>1, <2>2, <2>3 DEF Kept
<1>5. ASSUME x.seq = st.next, InTurn(p, st, x)
      PROVE  Passed(st) \in State /\ Kept(Passed(st))
  <2> DEFINE b == {y \in st.buffer : y.seq > last}
  <2>1. last \in Nat /\ last >= st.next /\ ~ \E y \in st.buffer : y.seq = last + 1
    <3>1. LET s == StateOf(p) l == LastInTurn(s) IN
          l \in Nat /\ l >= s.next /\ ~ \E y \in s.buffer : y.seq = l + 1
      BY <1>5, InTurnGrows DEF st
    <3> QED BY <3>1 DEF st
  <2>2. Passed(st) \in State /\ Passed(st).next = last + 1 /\ Passed(st).buffer = b
    BY <1>2, <2>1 DEF State, Passed
  <2>3. IsFiniteSet(b)
    BY <1>2, FS_Subset
  <2>4. \A y \in b : y.seq > last + 1
    <3> TAKE y \in b
    <3>1. y.seq \in Nat /\ y.seq > last /\ y.seq # last + 1
      BY <1>2, <2>1, StreamAssumption DEF Payloads, Steps
    <3> QED BY <2>1, <3>1
  <2>5. \A y, z \in b : y.seq = z.seq => y = z
    BY <1>2
  <2> HIDE DEF b, last
  <2> QED BY <2>2, <2>3, <2>4, <2>5 DEF Kept
<1> QED BY <1>3, <1>4, <1>5 DEF st

\* A job of the queue, and what is left of the queue.
LEMMA JobTypes ==
  ASSUME TypeInv, NEW p, NEW job \in queue, Process(p, job)
  PROVE  /\ job.payload \in Payloads /\ job.again \in BOOLEAN
         /\ queue' \subseteq [payload : Payloads, again : BOOLEAN]
         /\ UNCHANGED <<said, streams, open, next, batch, outbox, faults>>
         /\ \/ queue' = queue \ {job}
            \/ /\ "again" \in faults /\ ~job.again
               /\ queue' = (queue \ {job}) \cup {[job EXCEPT !.again = TRUE]}
<1>1. queue \subseteq [payload : Payloads, again : BOOLEAN]
  BY DEF TypeInv, Typed
<1>2. \/ queue' = queue \ {job}
      \/ /\ "again" \in faults /\ ~job.again
         /\ queue' = (queue \ {job}) \cup {[job EXCEPT !.again = TRUE]}
  BY DEF Process
<1>3. job \in [payload : Payloads, again : BOOLEAN]
  BY <1>1
<1>4. [job EXCEPT !.again = TRUE] \in [payload : Payloads, again : BOOLEAN]
  BY <1>3
<1>5. queue' \subseteq [payload : Payloads, again : BOOLEAN]
  BY <1>1, <1>2, <1>4
<1>6. job.payload \in Payloads /\ job.again \in BOOLEAN
  BY <1>3
<1> QED BY <1>2, <1>5, <1>6 DEF Process, producer

\* What emitOrdered() does, with the state that it leaves.
LEMMA EmitOrderedDoes ==
  ASSUME TypeInv, NEW p \in Processes, NEW x \in Payloads, EmitOrdered(p, x)
  PROVE  LET st == StateOf(p) IN
         \/ /\ x.seq < st.next /\ shown' = shown
            /\ order' = [order EXCEPT ![p] = [st EXCEPT !.stale = FALSE]]
         \/ /\ x.seq > st.next /\ shown' = shown
            /\ order' = [order EXCEPT ![p] = Holding(st, x)]
         \/ /\ x.seq = st.next /\ InTurn(p, st, x)
            /\ order' = [order EXCEPT ![p] = IF x.done THEN NoState ELSE Passed(st)]
BY DEF EmitOrdered, StateOf, Drop, Hold, InTurn, Holding, Passed

\* A job is processed: shown, held or dropped.
LEMMA ProcessTypes ==
  ASSUME TypeInv, NEW p \in Processes, NEW job \in queue, Process(p, job)
  PROVE  TypeInv'
<1> DEFINE x == job.payload
           st == StateOf(p)
<1>1. /\ x \in Payloads /\ queue' \subseteq [payload : Payloads, again : BOOLEAN]
      /\ UNCHANGED <<said, streams, open, next, batch, outbox, faults>>
  BY JobTypes
<1>2. \/ /\ x.seq < st.next /\ shown' = shown
         /\ order' = [order EXCEPT ![p] = [st EXCEPT !.stale = FALSE]]
      \/ /\ x.seq > st.next /\ shown' = shown
         /\ order' = [order EXCEPT ![p] = Holding(st, x)]
      \/ /\ x.seq = st.next /\ InTurn(p, st, x)
         /\ order' = [order EXCEPT ![p] = IF x.done THEN NoState ELSE Passed(st)]
  BY <1>1, EmitOrderedDoes DEF Process
<1>3. /\ [st EXCEPT !.stale = FALSE] \in State /\ Kept([st EXCEPT !.stale = FALSE])
      /\ x.seq > st.next => Holding(st, x) \in State /\ Kept(Holding(st, x))
      /\ x.seq = st.next /\ InTurn(p, st, x) => Passed(st) \in State /\ Kept(Passed(st))
  BY <1>1, EmitOrderedKeeps
<1>4. shown \in Seq(Payloads)
  BY DEF TypeInv, Typed
<1>5. x.seq = st.next /\ InTurn(p, st, x) => shown' \in Seq(Payloads)
  BY <1>1, InTurnGrows DEF Grown
<1> HIDE DEF x, st
<1>6. PICK s \in {NoState} \cup State :
        order' = [order EXCEPT ![p] = s] /\ (s # NoState => Kept(s)) /\ shown' \in Seq(Payloads)
  BY <1>2, <1>3, <1>4, <1>5
<1> QED BY <1>1, <1>6, WorkerTypes

\* sweepStaleStreams(): an entry grows old, and is swept with what it held.
LEMMA ClockTypes ==
  ASSUME TypeInv, NEW p \in Processes, Age(p) \/ Sweep(p)
  PROVE  TypeInv'
<1>1. /\ UNCHANGED <<said, streams, open, next, batch, outbox, queue, faults>>
      /\ order[p] # NoState /\ order[p] \in State /\ Kept(order[p])
      /\ queue \subseteq [payload : Payloads, again : BOOLEAN] /\ shown \in Seq(Payloads)
  BY DEF Age, Sweep, producer, TypeInv, Typed, Buffers
<1>2. CASE Age(p)
  <2> DEFINE s == [order[p] EXCEPT !.stale = TRUE]
  <2>1. s \in State /\ s.next = order[p].next /\ s.buffer = order[p].buffer
    BY <1>1 DEF State
  <2>2. order' = [order EXCEPT ![p] = s] /\ shown' = shown
    BY <1>2 DEF Age
  <2>3. Kept(s)
    BY <1>1, <2>1 DEF Kept
  <2> HIDE DEF s
  <2> QED BY <1>1, <2>1, <2>2, <2>3, WorkerTypes
<1>3. CASE Sweep(p)
  <2>1. order' = [order EXCEPT ![p] = NoState]
    BY <1>3 DEF Sweep
  <2>2. shown' \in Seq(Payloads)
    BY <1>3, SweepGrows DEF Grown
  <2> QED BY <1>1, <2>1, <2>2, WorkerTypes
<1> QED BY <1>2, <1>3

\* Every step keeps the types.
LEMMA NextTypes == TypeInv /\ [Next]_vars => TypeInv'
<1> SUFFICES ASSUME TypeInv, [Next]_vars PROVE TypeInv'
  OBVIOUS
<1>1. CASE UNCHANGED vars
  <2>1. Typed' /\ Sized' /\ Buffers'
    BY <1>1 DEF vars, producer, TypeInv, Typed, Sized, Buffers
  <2> QED BY <2>1 DEF TypeInv
<1>2. CASE Next
  BY <1>2, ProducerTypes, QueueTypes, ProcessTypes, ClockTypes DEF Next
<1> QED BY <1>1, <1>2

\* The variables have the types of TypeOK: a batch fits in what was said, and
\* a buffer holds one payload of a number, later than the one that is due.
THEOREM TypesHold == Spec => []TypeOK
<1>1. TypeInv => TypeOK
  <2> SUFFICES ASSUME TypeInv PROVE TypeOK
    OBVIOUS
  <2>1. Typed /\ Sized /\ Buffers
    BY DEF TypeInv
  <2>2. Len(said) <= MaxSteps + MaxStreams
    <3>1. /\ Len(said) \in Nat /\ streams \in Nat /\ streams <= MaxStreams
          /\ Len(said) <= MaxSteps + streams - (IF open THEN 1 ELSE 0)
      BY <2>1, StreamAssumption DEF Typed, Sized
    <3> QED BY <3>1, StreamAssumption
  <2>3. outbox \subseteq Seq(Payloads)
    BY <2>1 DEF Typed, Calls
  <2>4. \A job \in queue : job.payload \in Payloads /\ job.again \in BOOLEAN
    BY <2>1 DEF Typed
  <2>5. ASSUME NEW p \in Processes, order[p] # NoState
        PROVE  /\ order[p].next \in Nat \ {0} /\ order[p].stale \in BOOLEAN
               /\ order[p].buffer \subseteq Payloads
               /\ \A x \in order[p].buffer : x.seq > order[p].next
               /\ \A x, y \in order[p].buffer : x.seq = y.seq => x = y
    <3>1. order[p] \in State /\ Kept(order[p])
      BY <2>1, <2>5 DEF Typed, Buffers
    <3> QED BY <3>1 DEF State, Kept
  <2> QED BY <2>1, <2>2, <2>3, <2>4, <2>5 DEF TypeOK, Typed
<1> QED BY <1>1, InitTypes, NextTypes, PTL DEF Spec

-----------------------------------------------------------------------------
(* The order of what is on its way, in the behaviours where it matters.    *)

\* Without "resume" there is one stream, of all steps, and nothing before it; without
\* "split" one process holds the key.
OneStream ==
  /\ "resume" \notin faults => streams <= 1 /\ \A i \in DOMAIN said : said[i] = 1
  /\ streams = 0 =>
       /\ outbox = {} /\ queue = {} /\ shown = <<>> /\ next = 1 /\ batch = <<>> /\ said = <<>>
       /\ order = [p \in Processes |-> NoState]
  /\ "split" \notin faults => \A p \in Processes : p # Only => order[p] = NoState

AllShown == \A n \in DOMAIN said : \E i \in DOMAIN shown : Has(shown[i], n)

Calm   == faults \cap {"late", "again", "split", "resume"} = {}
Steady == faults \subseteq {"again", "lost"} /\ open
Prompt == faults \subseteq {"again", "restart"} /\ (open \/ ~AllShown)
Good   == Calm \/ Steady \/ Prompt

Adding  == UNION {{call[i] : i \in DOMAIN call} : call \in outbox}
Queued  == {job.payload : job \in queue}
Flying  == Adding \cup Queued
Waiting == StateOf(Only).buffer
Pending == Flying \cup Waiting
Due     == StateOf(Only).next
Stale   == StateOf(Only).stale

UpTo(steps, n) == \A a \in DOMAIN steps : steps[a] <= n
Earlier(s, t)  == \A a \in DOMAIN s, b \in DOMAIN t : s[a] < t[b]

BatchInv == Ascends(batch) /\ UpTo(batch, Len(said))
PendingInv ==
  \A x \in Pending :
    /\ Ascends(x.steps) /\ UpTo(x.steps, Len(said)) /\ Earlier(x.steps, batch)
    /\ open => x.seq < next
\* The numbers of what is pending are its order.
OrderInv ==
  \A x, y \in Pending :
    /\ x.seq = y.seq => x = y
    /\ x.seq < y.seq => Before(x, y)
ShownInv ==
  /\ \A i \in DOMAIN shown :
       /\ Ascends(shown[i].steps) /\ UpTo(shown[i].steps, Len(said))
       /\ Earlier(shown[i].steps, batch)
  /\ \A i, j \in DOMAIN shown : i < j => Before(shown[i], shown[j])
\* All that was shown came before what is due.
AfterShown ==
  \A x \in Pending : x.seq >= Due => \A i \in DOMAIN shown : Before(shown[i], x)

\* A state is swept only when what is on its way comes after its buffer.
DueInv ==
  /\ open => Due <= next
  /\ Stale => \A x \in Flying : x.seq >= Due /\ \A y \in Waiting : y.seq < x.seq
SteadyInv == Steady => ~Stale /\ \A x \in Pending : ~x.done
\* Nothing comes twice, and 'done' is the last.
CalmInv ==
  Calm =>
    /\ \A x \in Flying : x.seq >= Due /\ \A y \in Waiting : x.seq # y.seq
    /\ \A x, y \in Pending : x.done => y.seq <= x.seq
    /\ \A x \in Pending : x.done => ~open
OnceInv ==
  Calm =>
    /\ \A c, d \in outbox : \A i \in DOMAIN c, j \in DOMAIN d : c[i].seq = d[j].seq => c = d /\ i = j
    /\ \A job \in queue : /\ ~job.again
                          /\ \A c \in outbox : \A i \in DOMAIN c : c[i].seq # job.payload.seq

\* Where nothing is lost or late: every number from the one that is due on is
\* pending, and so is every step that was not shown, unless it is in the batch.
Arrives ==
  /\ \A x \in Pending : \A m \in Due..x.seq : \E y \in Pending : y.seq = m
  /\ open => \A m \in Due..(next - 1) : \E y \in Pending : y.seq = m
InBatch(n) == \E a \in DOMAIN batch : batch[a] = n
Complete ==
  \A n \in DOMAIN said :
    \/ \E i \in DOMAIN shown : Has(shown[i], n)
    \/ \E a \in DOMAIN batch : batch[a] = n
    \/ \E x \in Pending : x.seq >= Due /\ Has(x, n)
PromptInv ==
  Prompt =>
    /\ ~Stale
    /\ \A x, y \in Pending : x.done => y.seq <= x.seq
    /\ \A x \in Pending : x.steps # <<>> /\ (x.done => ~open)
    /\ Arrives /\ Complete

Ordered  == BatchInv /\ PendingInv /\ OrderInv /\ ShownInv /\ AfterShown
Settled  == DueInv /\ SteadyInv /\ CalmInv /\ OnceInv /\ PromptInv
OrderedInv == Good => Ordered /\ Settled

IInv == TypeInv /\ OneStream /\ OrderedInv

\* What is pending are payloads.
LEMMA PendingTypes ==
  ASSUME TypeInv
  PROVE  /\ Adding \subseteq Payloads /\ Queued \subseteq Payloads /\ Waiting \subseteq Payloads
         /\ Pending \subseteq Payloads /\ Due \in Nat \ {0} /\ Stale \in BOOLEAN
         /\ \A x \in Waiting : x.seq > Due
         /\ \A x \in Payloads : x.seq \in Nat \ {0} /\ x.steps \in Seq(Steps) /\ x.done \in BOOLEAN
<1>1. Adding \subseteq Payloads
  <2>1. outbox \subseteq Seq(Payloads)
    BY DEF TypeInv, Typed, Calls
  <2>2. ASSUME NEW call \in outbox, NEW i \in DOMAIN call PROVE call[i] \in Payloads
    <3>1. call \in Seq(Payloads) /\ i \in 1..Len(call)
      BY <2>1, LenProperties
    <3> QED BY <3>1, ElementOfSeq
  <2> QED BY <2>2 DEF Adding
<1>2. Queued \subseteq Payloads
  BY DEF TypeInv, Typed, Queued
<1>3. StateOf(Only) \in State /\ Kept(StateOf(Only))
  BY StateOfKept, StreamAssumption
<1>4. \A x \in Payloads : x.seq \in Nat \ {0} /\ x.steps \in Seq(Steps) /\ x.done \in BOOLEAN
  BY StreamAssumption DEF Payloads, Steps
<1>5. Waiting \subseteq Payloads /\ Due \in Nat \ {0} /\ Stale \in BOOLEAN /\ \A x \in Waiting : x.seq > Due
  BY <1>3 DEF Waiting, Due, Stale, State, Kept
<1> QED BY <1>1, <1>2, <1>4, <1>5 DEF Pending, Flying

\* A step that shows nothing shows payloads of the empty set.
LEMMA ShowingNothing ==
  ASSUME TypeInv, shown' = shown
  PROVE  Grown({})
<1>1. shown \in Seq(Payloads) /\ Len(shown) \in Nat
  BY DEF TypeInv, Typed
<1> QED BY <1>1 DEF Grown

\* The order is kept by every step that only hands on or shows what is pending,
\* and shows what is due.
LEMMA OrderedOnTheWay ==
  ASSUME TypeInv, TypeInv', Ordered, UNCHANGED <<said, open, next, batch>>, Pending' \subseteq Pending,
         NEW P \in SUBSET Pending, Grown(P), \A x \in P : x.seq >= Due,
         \A x \in Pending' : x.seq >= Due' => x.seq >= Due /\ \A y \in P : y.seq < x.seq
  PROVE  Ordered'
<1>1. /\ BatchInv /\ PendingInv /\ OrderInv /\ ShownInv /\ AfterShown
      /\ Pending \subseteq Payloads /\ \A x \in Payloads : x.seq \in Nat
  BY PendingTypes DEF Ordered
<1>2. BatchInv' /\ PendingInv' /\ OrderInv'
  <2>1. BatchInv'
    BY <1>1 DEF BatchInv, Ascends, UpTo
  <2>2. PendingInv'
    BY <1>1 DEF PendingInv, Ascends, UpTo, Earlier
  <2>3. OrderInv'
    BY <1>1 DEF OrderInv, Before
  <2> QED BY <2>1, <2>2, <2>3
<1> DEFINE n == Len(shown)
           m == Len(shown')
<1>3. /\ DOMAIN shown = 1..n /\ DOMAIN shown' = 1..m /\ n \in Nat /\ m \in Nat /\ n <= m
      /\ \A i \in 1..n : shown'[i] = shown[i]
      /\ \A i \in (n + 1)..m : shown'[i] \in P
      /\ \A i, j \in (n + 1)..m : i < j => shown'[i].seq < shown'[j].seq
  BY LenProperties DEF Grown, TypeInv, Typed
<1> HIDE DEF n, m
<1>4. \A i \in 1..m : i \in 1..n \/ i \in (n + 1)..m
  BY <1>3
<1>5. ASSUME NEW i \in 1..m
      PROVE  /\ Ascends(shown'[i].steps) /\ UpTo(shown'[i].steps, Len(said))
             /\ Earlier(shown'[i].steps, batch)
  <2>1. CASE i \in 1..n
    BY <1>1, <1>3, <2>1 DEF ShownInv
  <2>2. CASE i \in (n + 1)..m
    BY <1>1, <1>3, <2>2 DEF PendingInv
  <2> QED BY <1>4, <2>1, <2>2
<1>6. ASSUME NEW i \in 1..m, NEW j \in 1..m, i < j
      PROVE  Before(shown'[i], shown'[j])
  <2>1. CASE j \in 1..n
    <3>1. i \in 1..n
      BY <1>3, <1>6, <2>1
    <3> QED BY <1>1, <1>3, <1>6, <2>1, <3>1 DEF ShownInv
  <2>2. CASE i \in 1..n /\ j \in (n + 1)..m
    <3>1. shown'[j] \in Pending /\ shown'[j].seq >= Due
      BY <1>3, <2>2
    <3> QED BY <1>1, <1>3, <2>2, <3>1 DEF AfterShown
  <2>3. CASE i \in (n + 1)..m /\ j \in (n + 1)..m
    BY <1>1, <1>3, <1>6, <2>3 DEF OrderInv
  <2> QED BY <1>4, <1>3, <1>6, <2>1, <2>2, <2>3
<1>7. ShownInv'
  <2>1. \A i \in DOMAIN shown' : /\ Ascends(shown'[i].steps) /\ UpTo(shown'[i].steps, Len(said'))
                                 /\ Earlier(shown'[i].steps, batch')
    BY <1>3, <1>5
  <2>2. \A i, j \in DOMAIN shown' : i < j => Before(shown'[i], shown'[j])
    BY <1>3, <1>6
  <2> QED BY <2>1, <2>2 DEF ShownInv, Ascends, UpTo, Earlier, Before
<1>8. AfterShown'
  <2> SUFFICES ASSUME NEW x \in Pending', x.seq >= Due', NEW i \in DOMAIN shown'
               PROVE  Before(shown'[i], x)
    BY DEF AfterShown, Before
  <2>1. x \in Pending /\ x.seq >= Due /\ \A y \in P : y.seq < x.seq
    OBVIOUS
  <2>2. CASE i \in 1..n
    BY <1>1, <1>3, <2>1, <2>2 DEF AfterShown
  <2>3. CASE i \in (n + 1)..m
    BY <1>1, <1>3, <2>1, <2>3 DEF OrderInv
  <2> QED BY <1>3, <1>4, <2>2, <2>3
<1> QED BY <1>2, <1>7, <1>8 DEF Ordered

\* Whatever was said before comes before x.
Fresh(x) ==
  \A z \in Payloads : UpTo(z.steps, Len(said)) /\ Earlier(z.steps, batch) => Before(z, x)

\* A call of emitStep() (or the timer) of which the numbers go on.
NewCall(call) ==
  /\ call \in Calls
  /\ \A i \in DOMAIN call :
       /\ call[i].seq = next + i - 1
       /\ Ascends(call[i].steps) /\ UpTo(call[i].steps, Len(said')) /\ Fresh(call[i])
       /\ call[i].done => i = Len(call) /\ ~open'
       /\ call[i].steps # <<>>
  /\ \A i, j \in DOMAIN call : i < j => Before(call[i], call[j])
  /\ open' => next' = next + Len(call)
  /\ \A n \in DOMAIN said' :
       (n \in DOMAIN said /\ ~InBatch(n)) \/ \E i \in DOMAIN call : Has(call[i], n)

\* What emitStep() adds continues the order: its numbers are the next ones, and its
\* steps come after all that were said.
LEMMA SaidInOrder ==
  ASSUME TypeInv, TypeInv', Good, open, Ordered, Settled,
         NEW call, NewCall(call), outbox' = outbox \cup {call},
         UNCHANGED <<streams, queue, order, shown, faults>>,
         batch' = <<>>, Len(said') >= Len(said)
  PROVE  Ordered' /\ Settled'
<1> DEFINE N == {call[i] : i \in DOMAIN call}
<1>1. /\ BatchInv /\ PendingInv /\ OrderInv /\ ShownInv /\ AfterShown
      /\ DueInv /\ SteadyInv /\ CalmInv /\ OnceInv /\ PromptInv
  BY DEF Ordered, Settled
<1>2. /\ Pending \subseteq Payloads /\ Waiting \subseteq Payloads /\ Due \in Nat
      /\ \A x \in Payloads : x.seq \in Nat \ {0} /\ x.steps \in Seq(Steps) /\ x.done \in BOOLEAN
      /\ next \in Nat /\ Len(said) \in Nat /\ Len(said') \in Nat
  BY PendingTypes DEF TypeInv, Typed
<1>3. /\ call \in Calls /\ DOMAIN call = 1..Len(call) /\ Len(call) \in Nat
      /\ \A i \in DOMAIN call : call[i] \in Payloads
  BY LenProperties, ElementOfSeq DEF NewCall, Calls
<1>4. ASSUME NEW x \in N
      PROVE  /\ x \in Payloads /\ x.seq >= next /\ x.seq < next + Len(call) /\ x.steps # <<>>
             /\ Ascends(x.steps) /\ UpTo(x.steps, Len(said')) /\ Fresh(x)
             /\ open' => x.seq < next'
             /\ x.done => ~open' /\ \A y \in N : y.seq <= x.seq
  <2>1. PICK i \in DOMAIN call : x = call[i]
    BY <1>4
  <2>2. i \in Nat /\ 1 <= i /\ i <= Len(call) /\ x.seq = next + i - 1
    BY <2>1, <1>3 DEF NewCall
  <2>3. x.seq >= next /\ x.seq < next + Len(call)
    BY <2>2, <1>2, <1>3
  <2>4. open' => x.seq < next'
    <3>1. open' => next' = next + Len(call) /\ next' \in Nat
      BY DEF NewCall, TypeInv, Typed
    <3> QED BY <3>1, <2>2, <1>2, <1>3
  <2>5. ASSUME x.done PROVE ~open' /\ \A y \in N : y.seq <= x.seq
    <3>1. i = Len(call) /\ ~open'
      BY <2>1, <2>5 DEF NewCall
    <3>2. \A j \in DOMAIN call : call[j].seq = next + j - 1 /\ j \in Nat /\ j <= Len(call)
      BY <1>3 DEF NewCall
    <3> QED BY <3>1, <3>2, <2>2, <1>2, <1>3
  <2> QED BY <2>1, <2>3, <2>4, <2>5, <1>3 DEF NewCall
<1>5. ASSUME NEW x \in N, NEW y \in N
      PROVE  /\ x.seq = y.seq => x = y
             /\ x.seq < y.seq => Before(x, y)
  <2>1. PICK i \in DOMAIN call : x = call[i]
    BY <1>5
  <2>2. PICK j \in DOMAIN call : y = call[j]
    BY <1>5
  <2>3. i \in Nat /\ j \in Nat /\ x.seq = next + i - 1 /\ y.seq = next + j - 1
    BY <2>1, <2>2, <1>3 DEF NewCall
  <2>4. (x.seq = y.seq => i = j) /\ (x.seq < y.seq => i < j)
    BY <2>3, <1>2
  <2> QED BY <2>1, <2>2, <2>4 DEF NewCall
<1>6. Adding' = Adding \cup N
  BY DEF Adding
<1>7. Queued' = Queued /\ Waiting' = Waiting /\ Due' = Due /\ Stale' = Stale
  BY DEF Queued, Waiting, Due, Stale, StateOf
<1> HIDE DEF N
<1>8. /\ Flying' \subseteq Flying \cup N
      /\ Pending' \subseteq Pending \cup N
      /\ Flying \subseteq Pending /\ Waiting \subseteq Pending
  BY <1>6, <1>7 DEF Flying, Pending
<1>9. ASSUME NEW x \in Pending
      PROVE  /\ x \in Payloads /\ x.seq < next /\ ~x.done
             /\ Ascends(x.steps) /\ UpTo(x.steps, Len(said)) /\ Earlier(x.steps, batch)
  <2>1. ~x.done
    BY <1>1, <1>9 DEF Good, SteadyInv, CalmInv, PromptInv
  <2> QED BY <2>1, <1>1, <1>2, <1>9 DEF PendingInv
<1>10. ASSUME NEW s, s.steps \in Seq(Steps), UpTo(s.steps, Len(said)) PROVE UpTo(s.steps, Len(said'))
  <2>1. \A a \in DOMAIN s.steps : s.steps[a] \in Nat
    <3>1. \A a \in DOMAIN s.steps : s.steps[a] \in Steps
      BY <1>10, LenProperties, ElementOfSeq
    <3> QED BY <3>1, StreamAssumption DEF Steps
  <2> QED BY <2>1, <1>2, <1>10 DEF UpTo
<1>11. Ordered'
  <2>1. BatchInv'
    <3>1. DOMAIN batch' = {}
      OBVIOUS
    <3> QED BY <3>1 DEF BatchInv, Ascends, UpTo
  <2>2. PendingInv'
    <3> SUFFICES ASSUME NEW x \in Pending'
                 PROVE  /\ Ascends(x.steps) /\ UpTo(x.steps, Len(said')) /\ Earlier(x.steps, batch')
                        /\ open' => x.seq < next'
      BY DEF PendingInv, Ascends, UpTo, Earlier
    <3>1. Earlier(x.steps, batch')
      <4>1. DOMAIN batch' = {}
        OBVIOUS
      <4> QED BY <4>1 DEF Earlier
    <3>2. CASE x \in N
      BY <3>1, <3>2, <1>4
    <3>3. CASE x \in Pending
      <4>1. UpTo(x.steps, Len(said'))
        BY <3>3, <1>2, <1>9, <1>10
      <4>2. open' => x.seq < next'
        <5>1. open' => next' = next + Len(call) /\ next' \in Nat
          BY DEF NewCall, TypeInv, Typed
        <5>2. x.seq < next /\ x.seq \in Nat
          BY <3>3, <1>2, <1>9
        <5> QED BY <5>1, <5>2, <1>2, <1>3
      <4> QED BY <3>1, <4>1, <4>2, <3>3, <1>9
    <3> QED BY <3>2, <3>3, <1>8
  <2>3. OrderInv'
    <3> SUFFICES ASSUME NEW x \in Pending', NEW y \in Pending'
                 PROVE  (x.seq = y.seq => x = y) /\ (x.seq < y.seq => Before(x, y))
      BY DEF OrderInv, Before
    <3>1. CASE x \in Pending /\ y \in Pending
      BY <3>1, <1>1 DEF OrderInv
    <3>2. CASE x \in N /\ y \in N
      BY <3>2, <1>5
    <3>3. CASE x \in Pending /\ y \in N
      <4>1. Before(x, y) /\ x.seq < y.seq /\ x.seq \in Nat /\ y.seq \in Nat
        BY <3>3, <1>2, <1>4, <1>9 DEF Fresh
      <4> QED BY <4>1
    <3>4. CASE x \in N /\ y \in Pending
      <4>1. y.seq < x.seq /\ x.seq \in Nat /\ y.seq \in Nat
        BY <3>4, <1>2, <1>4, <1>9
      <4> QED BY <4>1
    <3> QED BY <3>1, <3>2, <3>3, <3>4, <1>8
  <2>4. /\ shown \in Seq(Payloads) /\ shown' = shown
        /\ \A i \in DOMAIN shown : shown[i] \in Payloads /\ shown[i].steps \in Seq(Steps)
    <3>1. shown \in Seq(Payloads)
      BY DEF TypeInv, Typed
    <3>2. \A i \in DOMAIN shown : shown[i] \in Payloads
      BY <3>1, LenProperties, ElementOfSeq
    <3> QED BY <3>1, <3>2, <1>2
  <2>5. ShownInv'
    <3>1. DOMAIN batch' = {}
      OBVIOUS
    <3>2. \A i \in DOMAIN shown : /\ Ascends(shown[i].steps) /\ UpTo(shown[i].steps, Len(said'))
                                  /\ Earlier(shown[i].steps, batch')
      BY <3>1, <2>4, <1>1, <1>10 DEF ShownInv, Earlier
    <3>3. \A i, j \in DOMAIN shown : i < j => Before(shown[i], shown[j])
      BY <1>1 DEF ShownInv
    <3> QED BY <3>2, <3>3, <2>4 DEF ShownInv, Ascends, UpTo, Earlier, Before
  <2>6. AfterShown'
    <3> SUFFICES ASSUME NEW x \in Pending', x.seq >= Due', NEW i \in DOMAIN shown
                 PROVE  Before(shown[i], x)
      BY <2>4 DEF AfterShown, Before
    <3>1. CASE x \in Pending
      BY <3>1, <1>1, <1>7 DEF AfterShown
    <3>2. CASE x \in N
      <4>1. UpTo(shown[i].steps, Len(said)) /\ Earlier(shown[i].steps, batch) /\ shown[i] \in Payloads
        BY <2>4, <1>1 DEF ShownInv
      <4> QED BY <3>2, <4>1, <1>4 DEF Fresh
    <3> QED BY <3>1, <3>2, <1>8
  <2> QED BY <2>1, <2>2, <2>3, <2>5, <2>6 DEF Ordered
<1>12. DueInv'
  <2>1. Due <= next
    BY <1>1 DEF DueInv
  <2>2. open' => Due' <= next'
    <3>1. open' => next' = next + Len(call) /\ next' \in Nat
      BY DEF NewCall, TypeInv, Typed
    <3> QED BY <3>1, <2>1, <1>2, <1>3, <1>7
  <2>3. ASSUME Stale, NEW x \in Flying'
        PROVE  x.seq >= Due /\ \A y \in Waiting : y.seq < x.seq
    <3>1. CASE x \in Flying
      BY <3>1, <2>3, <1>1 DEF DueInv
    <3>2. CASE x \in N
      <4>1. x.seq >= next /\ x.seq \in Nat
        BY <3>2, <1>4, <1>2
      <4>2. \A y \in Waiting : y.seq < next /\ y.seq \in Nat
        BY <1>2, <1>8, <1>9
      <4> QED BY <2>1, <4>1, <4>2, <1>2
    <3> QED BY <3>1, <3>2, <1>8
  <2> QED BY <2>2, <2>3, <1>7 DEF DueInv
<1>13. SteadyInv'
  <2> SUFFICES ASSUME Steady' PROVE ~Stale' /\ \A x \in Pending' : ~x.done
    BY DEF SteadyInv
  <2>1. Steady /\ open'
    BY DEF Steady
  <2>2. \A x \in N : ~x.done
    BY <2>1, <1>4
  <2> QED BY <2>1, <2>2, <1>1, <1>7, <1>8, <1>9 DEF SteadyInv
<1>14. CalmInv'
  <2> SUFFICES ASSUME Calm
               PROVE  /\ \A x \in Flying' : x.seq >= Due /\ \A y \in Waiting : x.seq # y.seq
                      /\ \A x, y \in Pending' : x.done => y.seq <= x.seq
                      /\ \A x \in Pending' : x.done => ~open'
    BY <1>7 DEF CalmInv, Calm
  <2>1. ASSUME NEW x \in Flying' PROVE x.seq >= Due /\ \A y \in Waiting : x.seq # y.seq
    <3>1. CASE x \in Flying
      BY <3>1, <1>1 DEF CalmInv
    <3>2. CASE x \in N
      <4>1. x.seq >= next /\ x.seq \in Nat /\ Due <= next
        BY <3>2, <1>4, <1>2, <1>1 DEF DueInv
      <4>2. \A y \in Waiting : y.seq < next /\ y.seq \in Nat
        BY <1>2, <1>8, <1>9
      <4> QED BY <4>1, <4>2, <1>2
    <3> QED BY <3>1, <3>2, <1>8
  <2>2. ASSUME NEW x \in Pending', NEW y \in Pending', x.done PROVE y.seq <= x.seq /\ ~open'
    <3>1. x \in N
      BY <2>2, <1>8, <1>9
    <3>2. CASE y \in N
      BY <3>1, <3>2, <2>2, <1>4
    <3>3. CASE y \in Pending
      <4>1. y.seq < next /\ y.seq \in Nat /\ x.seq >= next /\ x.seq \in Nat /\ ~open'
        BY <3>1, <3>3, <2>2, <1>2, <1>4, <1>9
      <4> QED BY <4>1, <1>2
    <3> QED BY <3>2, <3>3, <1>8
  <2> QED BY <2>1, <2>2
<1>15. OnceInv'
  <2> SUFFICES ASSUME Calm
               PROVE  /\ \A c, d \in outbox' : \A i \in DOMAIN c, j \in DOMAIN d :
                           c[i].seq = d[j].seq => c = d /\ i = j
                      /\ \A job \in queue : /\ ~job.again
                           /\ \A c \in outbox' : \A i \in DOMAIN c : c[i].seq # job.payload.seq
    BY DEF OnceInv, Calm
  <2>1. ASSUME NEW c \in outbox, NEW i \in DOMAIN c PROVE c[i].seq < next /\ c[i].seq \in Nat
    <3>1. c[i] \in Pending
      BY DEF Pending, Flying, Adding
    <3> QED BY <3>1, <1>2, <1>9
  <2>2. \A i \in DOMAIN call : i \in Nat \ {0} /\ call[i].seq = next + i - 1
    BY <1>3 DEF NewCall
  <2>3. \A job \in queue : job.payload.seq < next /\ job.payload.seq \in Nat
    <3> TAKE job \in queue
    <3>1. job.payload \in Pending
      BY DEF Pending, Flying, Queued
    <3> QED BY <3>1, <1>2, <1>9
  <2>4. \A i \in DOMAIN call : call[i].seq >= next /\ call[i].seq \in Nat
    BY <2>2, <1>2
  <2>5. \A i, j \in DOMAIN call : call[i].seq = call[j].seq => i = j
    BY <2>2, <1>2
  <2>6. ASSUME NEW c \in outbox', NEW d \in outbox', NEW i \in DOMAIN c, NEW j \in DOMAIN d,
               c[i].seq = d[j].seq
        PROVE  c = d /\ i = j
    <3>1. CASE c \in outbox /\ d \in outbox
      BY <3>1, <2>6, <1>1 DEF OnceInv
    <3>2. CASE c = call /\ d = call
      BY <3>2, <2>5, <2>6
    <3>3. CASE c \in outbox /\ d = call
      <4>1. c[i].seq < next /\ c[i].seq \in Nat /\ d[j].seq >= next
        BY <3>3, <2>1, <2>4
      <4> QED BY <4>1, <2>6, <1>2
    <3>4. CASE c = call /\ d \in outbox
      <4>1. d[j].seq < next /\ d[j].seq \in Nat /\ c[i].seq >= next
        BY <3>4, <2>1, <2>4
      <4> QED BY <4>1, <2>6, <1>2
    <3> QED BY <3>1, <3>2, <3>3, <3>4
  <2>7. ASSUME NEW job \in queue, NEW c \in outbox', NEW i \in DOMAIN c
        PROVE  c[i].seq # job.payload.seq
    <3>1. CASE c \in outbox
      BY <3>1, <1>1 DEF OnceInv
    <3>2. CASE c = call
      BY <3>2, <2>3, <2>4, <1>2
    <3> QED BY <3>1, <3>2
  <2>8. \A job \in queue : ~job.again
    BY <1>1 DEF OnceInv
  <2> QED BY <2>6, <2>7, <2>8
<1>16. PromptInv'
  <2> SUFFICES ASSUME Prompt'
               PROVE  /\ ~Stale'
                      /\ \A x, y \in Pending' : x.done => y.seq <= x.seq
                      /\ \A x \in Pending' : x.steps # <<>> /\ (x.done => ~open')
                      /\ Arrives' /\ Complete'
    BY DEF PromptInv
  <2>1. Prompt
    BY DEF Prompt
  <2>2. ~Stale /\ (\A x \in Pending : x.steps # <<>>) /\ Arrives /\ Complete
    BY <2>1, <1>1 DEF PromptInv
  <2>3. Pending' = Pending \cup N
    BY <1>6, <1>7 DEF Flying, Pending
  <2>4. \A x \in Pending' : x.steps # <<>> /\ (x.done => ~open')
    BY <2>2, <2>3, <1>4, <1>9
  <2>5. ASSUME NEW x \in Pending', NEW y \in Pending', x.done PROVE y.seq <= x.seq
    <3>1. x \in N
      BY <2>5, <1>8, <1>9
    <3>2. CASE y \in N
      BY <3>1, <3>2, <2>5, <1>4
    <3>3. CASE y \in Pending
      <4>1. y.seq < next /\ y.seq \in Nat /\ x.seq >= next /\ x.seq \in Nat
        BY <3>1, <3>3, <1>2, <1>4, <1>9
      <4> QED BY <4>1, <1>2
    <3> QED BY <3>2, <3>3, <1>8
  <2>6. Arrives'
    <3>1. ASSUME NEW m \in Due..(next + Len(call) - 1) PROVE \E y \in Pending' : y.seq = m
      <4>1. CASE m < next
        <5>1. m \in Due..(next - 1)
          BY <4>1, <1>2, <1>3
        <5> QED BY <5>1, <2>2, <2>3 DEF Arrives
      <4>2. CASE m >= next
        <5> DEFINE i == m - next + 1
        <5>1. i \in 1..Len(call) /\ next + i - 1 = m
          BY <4>2, <1>2, <1>3
        <5> HIDE DEF i
        <5>2. i \in DOMAIN call /\ call[i].seq = m
          BY <5>1, <1>3 DEF NewCall
        <5> QED BY <5>2, <2>3 DEF N
      <4> QED BY <4>1, <4>2, <1>2, <1>3
    <3>2. \A x \in Pending' : x.seq \in Nat /\ x.seq < next + Len(call)
      BY <2>3, <1>2, <1>3, <1>4, <1>9
    <3>3. ASSUME NEW x \in Pending', NEW m \in Due..x.seq PROVE m \in Due..(next + Len(call) - 1)
      BY <3>2, <1>2, <1>3
    <3>4. open' => next' = next + Len(call)
      BY DEF NewCall
    <3>5. ASSUME open', NEW m \in Due..(next' - 1) PROVE m \in Due..(next + Len(call) - 1)
      BY <3>4, <3>5, <1>2, <1>3
    <3>6. \A x \in Pending' : \A m \in Due..x.seq : \E y \in Pending' : y.seq = m
      BY <3>1, <3>3
    <3>7. open' => \A m \in Due..(next' - 1) : \E y \in Pending' : y.seq = m
      BY <3>1, <3>5
    <3> QED BY <3>6, <3>7, <1>7 DEF Arrives
  <2>7. Complete'
    <3> SUFFICES ASSUME NEW n \in DOMAIN said'
                 PROVE  \/ \E i \in DOMAIN shown : Has(shown[i], n)
                        \/ \E x \in Pending' : x.seq >= Due /\ Has(x, n)
      BY <1>7 DEF Complete, Has
    <3>1. CASE n \in DOMAIN said /\ ~InBatch(n)
      BY <3>1, <2>2, <2>3 DEF Complete, InBatch
    <3>2. CASE \E i \in DOMAIN call : Has(call[i], n)
      <4>1. PICK x \in N : Has(x, n)
        BY <3>2 DEF N
      <4>2. x.seq >= Due
        BY <1>1, <1>2, <1>4 DEF DueInv
      <4> QED BY <4>1, <4>2, <2>3
    <3> QED BY <3>1, <3>2 DEF NewCall
  <2> QED BY <2>2, <2>4, <2>5, <2>6, <2>7, <1>7
<1> QED BY <1>11, <1>12, <1>13, <1>14, <1>15, <1>16 DEF Settled

\* The payload of the batch, and that of one step.
LEMMA PayloadsInOrder ==
  ASSUME TypeInv, open, BatchInv, NEW seq, NEW done
  PROVE  LET a == Payload(seq, batch, FALSE)  k == Len(said) + 1  b == Payload(seq, <<k>>, done) IN
         /\ a.seq = seq /\ ~a.done /\ Ascends(a.steps) /\ UpTo(a.steps, Len(said)) /\ Fresh(a)
         /\ UpTo(a.steps, k)
         /\ b.seq = seq /\ b.done = done /\ Ascends(b.steps) /\ UpTo(b.steps, k) /\ Fresh(b)
         /\ \A s : UpTo(s.steps, Len(said)) /\ s.steps \in Seq(Steps) => Before(s, b)
<1> DEFINE a == Payload(seq, batch, FALSE)
           k == Len(said) + 1
           b == Payload(seq, <<k>>, done)
<1>1. /\ a.seq = seq /\ ~a.done /\ a.steps = batch
      /\ b.seq = seq /\ b.done = done /\ b.steps = <<k>>
  BY DEF Payload
<1>2. Len(said) \in Nat /\ k \in Nat /\ batch \in Seq(Steps)
  BY DEF TypeInv, Typed
<1>3. DOMAIN <<k>> = {1} /\ <<k>>[1] = k
  OBVIOUS
<1> HIDE DEF a, b, k
<1>4. ASSUME NEW s \in Seq(Steps), NEW i \in DOMAIN s PROVE s[i] \in Nat
  <2>1. s[i] \in Steps
    BY <1>4, LenProperties, ElementOfSeq
  <2> QED BY <2>1, StreamAssumption DEF Steps
<1>5. Ascends(a.steps) /\ UpTo(a.steps, Len(said))
  BY <1>1 DEF BatchInv
<1>6. UpTo(a.steps, k)
  <2>1. \A i \in DOMAIN batch : batch[i] \in Nat /\ batch[i] <= Len(said)
    BY <1>1, <1>2, <1>4, <1>5 DEF UpTo
  <2> QED BY <2>1, <1>1, <1>2 DEF UpTo, k
<1>7. Fresh(a)
  BY <1>1 DEF Fresh, Before, Earlier
<1>8. Ascends(b.steps) /\ UpTo(b.steps, k)
  BY <1>1, <1>2, <1>3 DEF Ascends, UpTo
<1>9. ASSUME NEW s, UpTo(s.steps, Len(said)), s.steps \in Seq(Steps)
      PROVE  Before(s, b)
  <2>1. \A i \in DOMAIN s.steps : s.steps[i] \in Nat /\ s.steps[i] <= Len(said)
    BY <1>4, <1>9 DEF UpTo
  <2> QED BY <2>1, <1>1, <1>2, <1>3 DEF Before, k
<1>10. Fresh(b)
  BY <1>9, PendingTypes DEF Fresh
<1> QED BY <1>1, <1>5, <1>6, <1>7, <1>8, <1>9, <1>10 DEF a, b, k

\* A payload of one step has that step.
LEMMA PayloadHas ==
  ASSUME NEW seq, NEW k, NEW done
  PROVE  Payload(seq, <<k>>, done).steps # <<>> /\ Has(Payload(seq, <<k>>, done), k)
<1>1. DOMAIN <<k>> = {1} /\ <<k>>[1] = k /\ <<k>> # <<>>
  OBVIOUS
<1>2. Payload(seq, <<k>>, done).steps = <<k>>
  BY DEF Payload
<1> QED BY <1>1, <1>2 DEF Has

\* emitStep() with a step: the batch is drained before it.
LEMMA EmitInOrder ==
  ASSUME TypeInv, TypeInv', Good, Ordered, Settled, NEW done \in BOOLEAN, Emit(done),
         done \/ Len(said) < MaxSteps
  PROVE  Ordered' /\ Settled'
<1> DEFINE k == Len(said) + 1
           call == Numbered(k, done)
<1>1. /\ open /\ BatchInv /\ said' = Append(said, streams) /\ batch' = <<>>
      /\ UNCHANGED <<streams, queue, order, shown, faults>>
      /\ open' = ~done
  BY DEF Emit, Ordered
<1>2. Len(said) \in Nat /\ Len(said') = k /\ k \in Steps /\ next \in Nat
  BY <1>1, NumbersLeft DEF TypeInv, Typed
<1>3. /\ outbox' = outbox \cup {call}
      /\ next' = IF done THEN 1 ELSE next + Len(Drained) + 1
  BY <1>2 DEF Emit
<1> HIDE DEF call
<1>6. \A n \in DOMAIN said' : n \in DOMAIN said \/ n = k
  <2>1. DOMAIN said = 1..Len(said) /\ DOMAIN said' = 1..k
    BY <1>2, LenProperties DEF TypeInv, Typed
  <2> QED BY <2>1, <1>2
<1>4. NewCall(call)
  <2>1. CASE batch = <<>>
    <3> DEFINE b == Payload(next, <<k>>, done)
    <3>1. call = <<b>> /\ call \in Calls /\ Len(Drained) = 0
      BY <1>1, <1>2, <2>1, NumberedIs DEF call
    <3>2. /\ b.seq = next /\ b.done = done /\ Ascends(b.steps) /\ UpTo(b.steps, k) /\ Fresh(b)
      BY <1>1, <1>2, PayloadsInOrder
    <3>8. b.steps # <<>> /\ Has(b, k)
      BY PayloadHas
    <3> HIDE DEF b
    <3>3. Len(call) = 1 /\ DOMAIN call = {1} /\ call[1] = b
      BY <3>1
    <3>4. open' => next' = next + Len(call)
      <4>1. open' => ~done
        BY <1>1
      <4> QED BY <4>1, <1>2, <1>3, <3>1, <3>3
    <3>5. next + 1 - 1 = next
      BY <1>2
    <3>6. b.done => ~open'
      BY <1>1, <3>2
    <3>7. \A n \in DOMAIN said' :
            (n \in DOMAIN said /\ ~InBatch(n)) \/ \E i \in DOMAIN call : Has(call[i], n)
      <4>1. \A n \in DOMAIN said : ~InBatch(n)
        <5>1. DOMAIN batch = {}
          BY <2>1
        <5> QED BY <5>1 DEF InBatch
      <4> QED BY <4>1, <1>6, <3>3, <3>8
    <3> QED BY <1>2, <3>1, <3>2, <3>3, <3>4, <3>5, <3>6, <3>7, <3>8 DEF NewCall
  <2>2. CASE batch # <<>>
    <3> DEFINE a == Payload(next, batch, FALSE)
               b == Payload(next + 1, <<k>>, done)
    <3>1. call \in Calls /\ Len(call) = 2 /\ call[1] = a /\ call[2] = b /\ Len(Drained) = 1
      BY <1>1, <1>2, <2>2, NumberedIs DEF call
    <3>2. /\ a.seq = next /\ ~a.done /\ Ascends(a.steps) /\ UpTo(a.steps, Len(said)) /\ Fresh(a)
          /\ UpTo(a.steps, k)
      BY <1>1, <1>2, PayloadsInOrder
    <3>3. /\ b.seq = next + 1 /\ b.done = done /\ Ascends(b.steps) /\ UpTo(b.steps, k) /\ Fresh(b)
          /\ \A s : UpTo(s.steps, Len(said)) /\ s.steps \in Seq(Steps) => Before(s, b)
      BY <1>1, <1>2, PayloadsInOrder
    <3>4. a.steps \in Seq(Steps) /\ a.steps = batch
      BY DEF Payload, TypeInv, Typed
    <3>12. b.steps # <<>> /\ Has(b, k)
      BY PayloadHas
    <3> HIDE DEF a, b
    <3>5. DOMAIN call = 1..2
      BY <3>1, LenProperties DEF Calls
    <3>6. open' => next' = next + Len(call)
      <4>1. open' => ~done
        BY <1>1
      <4> QED BY <4>1, <1>2, <1>3, <3>1
    <3>7. Before(call[1], call[2])
      BY <3>1, <3>2, <3>3, <3>4
    <3>8. \A i, j \in 1..2 : i < j => i = 1 /\ j = 2
      OBVIOUS
    <3>9. \A i, j \in DOMAIN call : i < j => Before(call[i], call[j])
      BY <3>5, <3>7, <3>8
    <3>10. ASSUME NEW i \in DOMAIN call
           PROVE  /\ call[i].seq = next + i - 1
                  /\ Ascends(call[i].steps) /\ UpTo(call[i].steps, Len(said')) /\ Fresh(call[i])
                  /\ call[i].done => i = Len(call) /\ ~open'
                  /\ call[i].steps # <<>>
      <4>1. CASE i = 1
        BY <4>1, <1>2, <3>1, <3>2, <3>4, <2>2
      <4>2. CASE i = 2
        <5>1. call[i] = b /\ next + i - 1 = next + 1 /\ i = Len(call)
          BY <4>2, <1>2, <3>1
        <5>2. b.done => ~open'
          BY <1>1, <3>3
        <5> QED BY <5>1, <5>2, <1>2, <3>3, <3>12
      <4> QED BY <3>5, <4>1, <4>2
    <3>11. \A n \in DOMAIN said' :
             (n \in DOMAIN said /\ ~InBatch(n)) \/ \E i \in DOMAIN call : Has(call[i], n)
      <4>1. \A n : InBatch(n) => Has(a, n)
        BY <3>4 DEF InBatch, Has
      <4>2. 1 \in DOMAIN call /\ 2 \in DOMAIN call
        BY <3>5
      <4> QED BY <4>1, <4>2, <1>6, <3>1, <3>12
    <3> QED BY <3>1, <3>6, <3>9, <3>10, <3>11 DEF NewCall
  <2> QED BY <2>1, <2>2
<1>5. Len(said') >= Len(said) /\ outbox' = outbox \cup {call}
  BY <1>2, <1>3
<1> QED BY <1>1, <1>4, <1>5, SaidInOrder

\* The timer, and the flush of a shutdown.
LEMMA FlushInOrder ==
  ASSUME TypeInv, TypeInv', Good, Ordered, Settled, batch # <<>>, Flush \/ ShutDown
  PROVE  Ordered' /\ Settled'
<1> DEFINE a == Payload(next, batch, FALSE)
           call == <<a>>
<1>1. /\ open /\ BatchInv /\ batch' = <<>> /\ outbox' = outbox \cup {call}
      /\ UNCHANGED <<said, streams, queue, order, shown, faults>>
      /\ ~open' \/ next' = next + 1
  BY DEF Flush, ShutDown, Drained, Ordered, TypeInv, Sized
<1>2. Len(said) \in Nat /\ next \in Nat
  BY DEF TypeInv, Typed
<1>3. a \in Payloads
  BY <1>1, NumbersLeft DEF Payload, Payloads, TypeInv, Typed
<1>4. /\ a.seq = next /\ ~a.done /\ Ascends(a.steps) /\ UpTo(a.steps, Len(said)) /\ Fresh(a)
  BY <1>1, <1>2, PayloadsInOrder
<1>8. a.steps = batch
  BY DEF Payload
<1> HIDE DEF a
<1>5. call \in Calls /\ Len(call) = 1 /\ DOMAIN call = {1} /\ call[1] = a
  BY <1>3, CallOf
<1> HIDE DEF call
<1>6. NewCall(call)
  <2>1. open' => next' = next + Len(call)
    BY <1>1, <1>2, <1>5
  <2>2. next + 1 - 1 = next
    BY <1>2
  <2>3. \A n \in DOMAIN said' :
          (n \in DOMAIN said /\ ~InBatch(n)) \/ \E i \in DOMAIN call : Has(call[i], n)
    <3>1. \A n : InBatch(n) => Has(a, n)
      BY <1>8 DEF InBatch, Has
    <3> QED BY <3>1, <1>1, <1>5
  <2> QED BY <1>1, <1>2, <1>4, <1>5, <1>8, <2>1, <2>2, <2>3 DEF NewCall
<1>7. Len(said') >= Len(said) /\ outbox' = outbox \cup {call}
  BY <1>1, <1>2
<1> QED BY <1>1, <1>6, <1>7, SaidInOrder

\* The numbers begin anew, and nothing is added.
LEMMA RestartInOrder ==
  ASSUME TypeInv, TypeInv', Good, Ordered, Settled,
         (batch = <<>> /\ ShutDown) \/ ForgetSequence
  PROVE  Ordered' /\ Settled'
<1>1. /\ UNCHANGED <<said, outbox, queue, order, shown, faults, batch>>
      /\ next' = 1
      /\ BatchInv /\ PendingInv /\ OrderInv /\ ShownInv /\ AfterShown
      /\ DueInv /\ SteadyInv /\ CalmInv /\ OnceInv /\ PromptInv
  BY DEF ShutDown, ForgetSequence, Ordered, Settled
<1>2. /\ Pending' = Pending /\ Flying' = Flying /\ Waiting' = Waiting /\ Due' = Due /\ Stale' = Stale
  BY <1>1 DEF Pending, Flying, Adding, Queued, Waiting, Due, Stale, StateOf
<1>3. \/ ~open'
      \/ Pending = {} /\ Due = 1 /\ (open' => open)
  <2>1. CASE ShutDown
    BY <2>1 DEF ShutDown
  <2>2. CASE ForgetSequence
    <3>1. /\ order[Only] = NoState /\ outbox = {} /\ queue = {} /\ open' = open
      BY <2>2, StreamAssumption DEF ForgetSequence
    <3>2. Waiting = {} /\ Due = 1
      BY <3>1 DEF Waiting, Due, StateOf, NewState
    <3>3. Adding = {} /\ Queued = {}
      BY <3>1 DEF Adding, Queued
    <3> QED BY <3>1, <3>2, <3>3 DEF Pending, Flying
  <2> QED BY <2>1, <2>2
<1>4. Ordered'
  <2>1. BatchInv' /\ OrderInv' /\ ShownInv' /\ AfterShown'
    BY <1>1, <1>2 DEF BatchInv, OrderInv, ShownInv, AfterShown, Ascends, UpTo, Earlier, Before
  <2>2. PendingInv'
    BY <1>1, <1>2, <1>3 DEF PendingInv, Ascends, UpTo, Earlier
  <2> QED BY <2>1, <2>2 DEF Ordered
<1>5. DueInv'
  BY <1>1, <1>2, <1>3 DEF DueInv
<1>6. SteadyInv' /\ CalmInv'
  <2>1. open' => open
    BY <1>3
  <2>2. (Steady' => Steady) /\ (Calm' <=> Calm)
    BY <2>1, <1>1 DEF Steady, Calm
  <2>3. SteadyInv'
    BY <2>2, <1>1, <1>2 DEF SteadyInv
  <2>4. CalmInv'
    BY <2>1, <2>2, <1>1, <1>2 DEF CalmInv
  <2> QED BY <2>3, <2>4
<1>7. OnceInv'
  BY <1>1 DEF OnceInv, Calm
<1>8. PromptInv'
  <2> SUFFICES ASSUME Prompt' PROVE Prompt /\ ~open'
    <3>1. Arrives /\ ~open' => Arrives'
      BY <1>2 DEF Arrives
    <3>2. Complete => Complete'
      BY <1>1, <1>2 DEF Complete, Has
    <3> QED BY <3>1, <3>2, <1>1, <1>2 DEF PromptInv
  <2>1. "silent" \notin faults
    BY <1>1 DEF Prompt
  <2> QED BY <2>1, <1>1 DEF ShutDown, ForgetSequence, Prompt
<1> QED BY <1>4, <1>5, <1>6, <1>7, <1>8 DEF Settled

\* A token joins the batch and is not on its way yet.
LEMMA TokenInOrder ==
  ASSUME TypeInv, TypeInv', Ordered, Settled, Token
  PROVE  Ordered' /\ Settled'
<1> DEFINE k == Len(said) + 1
<1>1. /\ UNCHANGED <<next, open, outbox, queue, order, shown, faults>>
      /\ said' = Append(said, streams) /\ batch' = Append(batch, Len(said'))
      /\ BatchInv /\ PendingInv /\ OrderInv /\ ShownInv /\ AfterShown
      /\ DueInv /\ SteadyInv /\ CalmInv /\ OnceInv /\ PromptInv
  BY DEF Token, Ordered, Settled
<1>2. /\ Len(said) \in Nat /\ Len(said') = k /\ k \in Nat /\ batch \in Seq(Steps) /\ Len(batch) \in Nat
      /\ shown \in Seq(Payloads)
  BY <1>1 DEF TypeInv, Typed
<1> HIDE DEF k
<1>3. /\ Pending' = Pending /\ Flying' = Flying /\ Waiting' = Waiting /\ Due' = Due /\ Stale' = Stale
  BY <1>1 DEF Pending, Flying, Adding, Queued, Waiting, Due, Stale, StateOf
<1>4. ASSUME NEW s \in Seq(Steps), NEW i \in DOMAIN s PROVE s[i] \in Nat
  <2>1. s[i] \in Steps
    BY <1>4, LenProperties, ElementOfSeq
  <2> QED BY <2>1, StreamAssumption DEF Steps
<1>5. /\ DOMAIN batch = 1..Len(batch) /\ DOMAIN batch' = 1..(Len(batch) + 1)
      /\ batch'[Len(batch) + 1] = k /\ \A i \in DOMAIN batch : batch'[i] = batch[i]
  BY <1>1, <1>2
<1>6. ASSUME NEW s \in Seq(Steps), UpTo(s, Len(said)), Earlier(s, batch)
      PROVE  UpTo(s, Len(said')) /\ Earlier(s, batch')
  <2>1. \A i \in DOMAIN s : s[i] \in Nat /\ s[i] <= Len(said)
    BY <1>4, <1>6 DEF UpTo
  <2>2. UpTo(s, Len(said'))
    BY <2>1, <1>2 DEF UpTo, k
  <2>3. ASSUME NEW i \in DOMAIN s, NEW j \in DOMAIN batch' PROVE s[i] < batch'[j]
    <3>1. CASE j \in DOMAIN batch
      BY <3>1, <1>5, <1>6 DEF Earlier
    <3>2. CASE j = Len(batch) + 1
      BY <3>2, <2>1, <1>2, <1>5 DEF k
    <3> QED BY <3>1, <3>2, <1>2, <1>5
  <2> QED BY <2>2, <2>3 DEF Earlier
<1>7. BatchInv'
  <2>1. \A i \in DOMAIN batch : batch[i] \in Nat /\ batch[i] <= Len(said)
    BY <1>1, <1>2, <1>4 DEF BatchInv, UpTo
  <2>2. ASSUME NEW i \in DOMAIN batch', NEW j \in DOMAIN batch', i < j PROVE batch'[i] < batch'[j]
    <3>1. i \in DOMAIN batch
      BY <2>2, <1>2, <1>5
    <3>2. CASE j \in DOMAIN batch
      BY <3>1, <3>2, <2>2, <1>1, <1>5 DEF BatchInv, Ascends
    <3>3. CASE j = Len(batch) + 1
      BY <3>1, <3>3, <2>1, <1>2, <1>5 DEF k
    <3> QED BY <3>2, <3>3, <1>2, <1>5
  <2>3. ASSUME NEW i \in DOMAIN batch' PROVE batch'[i] <= Len(said')
    <3>1. CASE i \in DOMAIN batch
      BY <3>1, <2>1, <1>2, <1>5 DEF k
    <3>2. CASE i = Len(batch) + 1
      BY <3>2, <1>2, <1>5
    <3> QED BY <3>1, <3>2, <1>2, <1>5
  <2> QED BY <2>2, <2>3 DEF BatchInv, Ascends, UpTo
<1>8. \A x \in Payloads : x.steps \in Seq(Steps)
  BY PendingTypes
<1>9. PendingInv'
  <2>1. \A x \in Pending : x.steps \in Seq(Steps)
    BY <1>8, PendingTypes
  <2>2. ASSUME NEW x \in Pending
        PROVE  /\ Ascends(x.steps) /\ UpTo(x.steps, Len(said')) /\ Earlier(x.steps, batch')
               /\ open => x.seq < next
    BY <2>1, <1>1, <1>6 DEF PendingInv
  <2> QED BY <2>2, <1>1, <1>3 DEF PendingInv, Ascends, UpTo, Earlier
<1>10. ShownInv'
  <2>1. \A i \in DOMAIN shown : shown[i].steps \in Seq(Steps)
    BY <1>2, <1>8, LenProperties, ElementOfSeq
  <2>2. ASSUME NEW i \in DOMAIN shown
        PROVE  /\ Ascends(shown[i].steps) /\ UpTo(shown[i].steps, Len(said'))
               /\ Earlier(shown[i].steps, batch')
    BY <2>1, <1>1, <1>6 DEF ShownInv
  <2>3. \A i, j \in DOMAIN shown : i < j => Before(shown[i], shown[j])
    BY <1>1 DEF ShownInv
  <2> QED BY <2>2, <2>3, <1>1 DEF ShownInv, Ascends, UpTo, Earlier, Before
<1>11. OrderInv' /\ AfterShown'
  BY <1>1, <1>3 DEF OrderInv, AfterShown, Before
<1>12. DueInv' /\ SteadyInv' /\ CalmInv' /\ OnceInv'
  BY <1>1, <1>3 DEF DueInv, SteadyInv, CalmInv, OnceInv, Steady, Calm
<1>13. PromptInv'
  <2>1. Prompt' => Prompt
    BY DEF Prompt, Token
  <2>2. Arrives => Arrives'
    BY <1>1, <1>3 DEF Arrives
  <2>3. Complete => Complete'
    <3> SUFFICES ASSUME Complete, NEW n \in DOMAIN said'
                 PROVE  \/ \E i \in DOMAIN shown : Has(shown[i], n)
                        \/ \E a \in DOMAIN batch' : batch'[a] = n
                        \/ \E x \in Pending : x.seq >= Due /\ Has(x, n)
      BY <1>1, <1>3 DEF Complete, Has
    <3>1. n \in DOMAIN said \/ n = k
      <4>1. DOMAIN said = 1..Len(said) /\ DOMAIN said' = 1..k
        BY <1>2, LenProperties DEF TypeInv, Typed
      <4> QED BY <4>1, <1>2 DEF k
    <3>2. CASE n = k
      BY <3>2, <1>2, <1>5
    <3>3. CASE n \in DOMAIN said
      <4>1. DOMAIN batch \subseteq DOMAIN batch'
        BY <1>2, <1>5
      <4> QED BY <4>1, <3>3, <1>5 DEF Complete
    <3> QED BY <3>1, <3>2, <3>3
  <2> QED BY <2>1, <2>2, <2>3, <1>1, <1>3 DEF PromptInv
<1> QED BY <1>7, <1>9, <1>10, <1>11, <1>12, <1>13 DEF Ordered, Settled

\* An add that settles takes nothing from what is on its way but what is lost.
LEMMA SendInOrder ==
  ASSUME TypeInv, TypeInv', Ordered, Settled, Prompt' => Prompt,
         NEW call \in outbox, Send(call) \/ FailAdd(call)
  PROVE  Ordered' /\ Settled'
<1>1. /\ UNCHANGED <<said, streams, open, next, batch, order, shown, faults>>
      /\ DueInv /\ SteadyInv /\ CalmInv /\ OnceInv /\ PromptInv
  BY DEF Send, FailAdd, producer, Settled
<1>2. /\ call \in Calls /\ Len(call) \in Nat \ {0} /\ Head(call) = call[1] /\ DOMAIN call = 1..Len(call)
      /\ Len(call) # 1 => /\ Tail(call) \in Calls /\ Len(Tail(call)) = Len(call) - 1
                          /\ \A i \in 1..(Len(call) - 1) : Tail(call)[i] = call[i + 1]
  BY CallParts, LenProperties DEF TypeInv, Typed, Calls
<1>3. ASSUME NEW c \in outbox', c \notin outbox \ {call}, NEW i \in DOMAIN c
      PROVE  i \in Nat \ {0} /\ i + 1 \in DOMAIN call /\ c[i] = call[i + 1] /\ c = Tail(call)
             /\ 1 \in DOMAIN call
  <2>1. c = Tail(call) /\ Len(call) # 1
    BY <1>3 DEF Send, FailAdd
  <2>2. DOMAIN Tail(call) = 1..(Len(call) - 1)
    BY <1>2, <2>1, LenProperties DEF Calls
  <2>3. i \in 1..(Len(call) - 1)
    BY <1>3, <2>1, <2>2
  <2>4. i \in Nat \ {0} /\ i + 1 \in 1..Len(call) /\ 1 \in 1..Len(call)
    BY <2>3, <1>2
  <2>5. c[i] = call[i + 1]
    BY <1>2, <2>1, <2>3
  <2> QED BY <1>2, <2>1, <2>4, <2>5
<1>4. 1 \in DOMAIN call
  BY <1>2
<1>5. ASSUME NEW c \in outbox', NEW i \in DOMAIN c
      PROVE  \/ c \in outbox /\ c # call
             \/ i \in Nat \ {0} /\ i + 1 \in DOMAIN call /\ c[i] = call[i + 1] /\ c = Tail(call)
  BY <1>3
<1>6. Adding' \subseteq Adding
  <2>1. ASSUME NEW c \in outbox', NEW i \in DOMAIN c PROVE c[i] \in Adding
    BY <1>5 DEF Adding
  <2> QED BY <2>1 DEF Adding
<1>7. \A job \in queue' : job \in queue \/ job = [payload |-> call[1], again |-> FALSE]
  BY <1>2 DEF Send, FailAdd
<1>8. Queued' \subseteq Queued \cup {call[1]} /\ call[1] \in Adding
  BY <1>4, <1>7 DEF Queued, Adding
<1>9. /\ Flying' \subseteq Flying /\ Waiting' = Waiting /\ Due' = Due /\ Stale' = Stale
      /\ Pending' \subseteq Pending
  <2>1. Waiting' = Waiting /\ Due' = Due /\ Stale' = Stale
    BY <1>1 DEF Waiting, Due, Stale, StateOf
  <2> QED BY <1>6, <1>8, <2>1 DEF Flying, Pending
<1>10. Ordered'
  <2>1. Grown({})
    BY <1>1, ShowingNothing
  <2> QED BY <2>1, <1>1, <1>9, OrderedOnTheWay
<1>11. DueInv' /\ SteadyInv' /\ CalmInv'
  BY <1>1, <1>9 DEF DueInv, SteadyInv, CalmInv, Steady, Calm
<1>12. OnceInv'
  <2> SUFFICES ASSUME Calm
               PROVE  /\ \A c, d \in outbox' : \A i \in DOMAIN c, j \in DOMAIN d :
                           c[i].seq = d[j].seq => c = d /\ i = j
                      /\ \A job \in queue' : /\ ~job.again
                           /\ \A c \in outbox' : \A i \in DOMAIN c : c[i].seq # job.payload.seq
    BY <1>1 DEF OnceInv, Calm
  <2>1. /\ \A c, d \in outbox : \A i \in DOMAIN c, j \in DOMAIN d : c[i].seq = d[j].seq => c = d /\ i = j
        /\ \A job \in queue : /\ ~job.again
                              /\ \A c \in outbox : \A i \in DOMAIN c : c[i].seq # job.payload.seq
    BY <1>1 DEF OnceInv
  <2>2. ASSUME NEW c \in outbox', NEW d \in outbox', NEW i \in DOMAIN c, NEW j \in DOMAIN d,
               c[i].seq = d[j].seq
        PROVE  c = d /\ i = j
    <3>1. CASE (c \in outbox /\ c # call) /\ (d \in outbox /\ d # call)
      BY <3>1, <2>1, <2>2
    <3>2. CASE (c \in outbox /\ c # call) /\ ~ (d \in outbox /\ d # call)
      BY <3>2, <2>1, <2>2, <1>5
    <3>3. CASE ~ (c \in outbox /\ c # call) /\ (d \in outbox /\ d # call)
      BY <3>3, <2>1, <2>2, <1>5
    <3>4. CASE ~ (c \in outbox /\ c # call) /\ ~ (d \in outbox /\ d # call)
      <4>1. /\ i \in Nat \ {0} /\ i + 1 \in DOMAIN call /\ c[i] = call[i + 1] /\ c = Tail(call)
            /\ j \in Nat \ {0} /\ j + 1 \in DOMAIN call /\ d[j] = call[j + 1] /\ d = Tail(call)
        BY <3>4, <1>5
      <4>2. i + 1 = j + 1
        BY <4>1, <2>1, <2>2
      <4> QED BY <4>1, <4>2
    <3> QED BY <3>1, <3>2, <3>3, <3>4
  <2>3. ASSUME NEW job \in queue', NEW c \in outbox', NEW i \in DOMAIN c
        PROVE  c[i].seq # job.payload.seq
    <3>1. CASE job \in queue
      BY <3>1, <2>1, <1>5
    <3>2. CASE job = [payload |-> call[1], again |-> FALSE]
      <4>1. job.payload = call[1]
        BY <3>2
      <4>2. CASE c \in outbox /\ c # call
        BY <4>1, <4>2, <2>1, <1>4
      <4>3. CASE ~ (c \in outbox /\ c # call)
        <5>1. i \in Nat \ {0} /\ i + 1 \in DOMAIN call /\ c[i] = call[i + 1]
          BY <4>3, <1>5
        <5>2. i + 1 # 1
          BY <5>1
        <5> QED BY <4>1, <5>1, <5>2, <1>4, <2>1
      <4> QED BY <4>2, <4>3
    <3> QED BY <3>1, <3>2, <1>7
  <2>4. \A job \in queue' : ~job.again
    BY <2>1, <1>7
  <2> QED BY <2>2, <2>3, <2>4
<1>13. PromptInv'
  <2> SUFFICES ASSUME Prompt PROVE Flying \subseteq Flying'
    <3>1. ASSUME Flying \subseteq Flying' PROVE Pending' = Pending
      BY <3>1, <1>9 DEF Pending
    <3>2. ASSUME Pending' = Pending PROVE (Arrives => Arrives') /\ (Complete => Complete')
      BY <3>2, <1>1, <1>9 DEF Arrives, Complete, Has
    <3> QED BY <3>1, <3>2, <1>1, <1>9 DEF PromptInv
  <2>1. Send(call)
    BY DEF Prompt, FailAdd
  <2>2. call[1] \in Queued'
    <3>1. [payload |-> call[1], again |-> FALSE] \in queue'
      BY <2>1, <1>2 DEF Send
    <3>2. [payload |-> call[1], again |-> FALSE].payload = call[1]
      OBVIOUS
    <3> QED BY <3>1, <3>2 DEF Queued
  <2>3. Queued \subseteq Queued'
    BY <2>1 DEF Send, Queued
  <2>4. ASSUME NEW c \in outbox, NEW i \in DOMAIN c PROVE c[i] \in Flying'
    <3>1. CASE c # call
      BY <3>1, <2>1 DEF Send, Flying, Adding
    <3>2. CASE c = call /\ i = 1
      BY <3>2, <2>2 DEF Flying
    <3>3. CASE c = call /\ i # 1
      <4>1. Len(call) # 1 /\ i - 1 \in 1..(Len(call) - 1) /\ (i - 1) + 1 = i
        BY <3>3, <1>2
      <4>2. Tail(call) \in outbox' /\ Tail(call)[i - 1] = call[i] /\ i - 1 \in DOMAIN Tail(call)
        <5>1. DOMAIN Tail(call) = 1..(Len(call) - 1)
          BY <4>1, <1>2, LenProperties DEF Calls
        <5>2. Tail(call)[i - 1] = call[i]
          BY <4>1, <1>2
        <5>3. Tail(call) \in outbox'
          BY <4>1, <2>1 DEF Send
        <5> QED BY <4>1, <5>1, <5>2, <5>3
      <4>3. \A d \in outbox' : \A j \in DOMAIN d : d[j] \in Adding'
        BY DEF Adding
      <4>4. Tail(call)[i - 1] \in Adding'
        BY <4>2, <4>3
      <4> QED BY <3>3, <4>2, <4>4 DEF Flying
    <3> QED BY <3>1, <3>2, <3>3
  <2> QED BY <2>3, <2>4 DEF Flying, Adding
<1> QED BY <1>10, <1>11, <1>12, <1>13 DEF Settled

\* What is left for the key in the one process.
LEMMA StateLeft ==
  ASSUME TypeInv, NEW s \in {NoState} \cup State, order' = [order EXCEPT ![Only] = s]
  PROVE  LET st == IF s = NoState THEN NewState ELSE s IN
         Due' = st.next /\ Waiting' = st.buffer /\ Stale' = st.stale
<1>1. order'[Only] = s
  BY StreamAssumption DEF TypeInv, Typed
<1> QED BY <1>1, Zenon DEF Due, Waiting, Stale, StateOf

\* A job that is taken leaves the queue, or comes again where that may happen.
LEMMA JobTaken ==
  ASSUME TypeInv, Settled, NEW p, NEW job \in queue, Process(p, job)
  PROVE  /\ Flying' \subseteq Flying /\ job.payload \in Flying
         /\ Calm => job.payload \notin Flying'
         /\ Flying \ {job.payload} \subseteq Flying'
         /\ OnceInv'
<1> DEFINE x == job.payload
<1>1. /\ UNCHANGED <<outbox, faults>>
      /\ \/ queue' = queue \ {job}
         \/ /\ "again" \in faults /\ ~job.again
            /\ queue' = (queue \ {job}) \cup {[job EXCEPT !.again = TRUE]}
  BY JobTypes
<1>2. queue \subseteq [payload : Payloads, again : BOOLEAN]
  BY DEF TypeInv, Typed
<1>3. Adding' = Adding
  BY <1>1 DEF Adding
<1>4. Queued' \subseteq Queued
  <2>1. [job EXCEPT !.again = TRUE].payload = x
    BY <1>2
  <2> QED BY <1>1, <2>1 DEF Queued
<1>5. ASSUME Calm PROVE x \notin Flying' /\ queue' = queue \ {job}
  <2>1. queue' = queue \ {job}
    BY <1>1, <1>5 DEF Calm
  <2>2. /\ \A j \in queue : ~j.again
        /\ \A c \in outbox : \A i \in DOMAIN c : c[i].seq # x.seq
    BY <1>5 DEF Settled, OnceInv
  <2>3. x \notin Adding
    BY <2>2 DEF Adding
  <2>4. \A j \in queue : j.payload = x => j = job
    <3> TAKE j \in queue
    <3> HAVE j.payload = x
    <3>1. ~j.again /\ ~job.again /\ j \in [payload : Payloads, again : BOOLEAN]
          /\ job \in [payload : Payloads, again : BOOLEAN]
      BY <1>2, <2>2
    <3> QED BY <3>1
  <2>5. x \notin Queued'
    BY <2>1, <2>4 DEF Queued
  <2> QED BY <2>1, <2>3, <2>5, <1>3 DEF Flying
<1>6. OnceInv'
  <2> SUFFICES ASSUME Calm
               PROVE  /\ \A c, d \in outbox : \A i \in DOMAIN c, j \in DOMAIN d :
                           c[i].seq = d[j].seq => c = d /\ i = j
                      /\ \A jb \in queue' : /\ ~jb.again
                           /\ \A c \in outbox : \A i \in DOMAIN c : c[i].seq # jb.payload.seq
    BY <1>1 DEF OnceInv, Calm
  <2> QED BY <1>5 DEF Settled, OnceInv
<1>7. x \in Flying
  BY DEF Flying, Queued
<1>8. Queued \ {x} \subseteq Queued'
  <2> SUFFICES ASSUME NEW j \in queue, j.payload # x PROVE j.payload \in Queued'
    BY DEF Queued
  <2>1. j \in queue'
    BY <1>1
  <2> QED BY <2>1 DEF Queued
<1> QED BY <1>3, <1>4, <1>5, <1>6, <1>7, <1>8 DEF Flying

\* emitOrdered() shows what is due and all that follows it in its buffer, and
\* keeps the order whatever the job.
LEMMA ProcessInOrder ==
  ASSUME TypeInv, TypeInv', Good, Good', Prompt' => Prompt, Ordered, Settled,
         NEW p \in Processes, NEW job \in queue, Process(p, job)
  PROVE  Ordered' /\ Settled'
<1> DEFINE x == job.payload
           st == StateOf(Only)
           last == LastInTurn(st)
<1>1. p = Only /\ Only \in Processes
  BY StreamAssumption DEF Process, Running, Good, Calm, Steady, Prompt
<1>2. /\ x \in Payloads /\ UNCHANGED <<said, streams, open, next, batch, outbox, faults>>
  BY JobTypes
<1>3. \/ /\ x.seq < st.next /\ shown' = shown
         /\ order' = [order EXCEPT ![Only] = [st EXCEPT !.stale = FALSE]]
      \/ /\ x.seq > st.next /\ shown' = shown
         /\ order' = [order EXCEPT ![Only] = Holding(st, x)]
      \/ /\ x.seq = st.next /\ InTurn(Only, st, x)
         /\ order' = [order EXCEPT ![Only] = IF x.done THEN NoState ELSE Passed(st)]
  BY <1>1, <1>2, EmitOrderedDoes DEF Process
<1>4. /\ [st EXCEPT !.stale = FALSE] \in State
      /\ x.seq > st.next => Holding(st, x) \in State
      /\ x.seq = st.next /\ InTurn(Only, st, x) => Passed(st) \in State
  BY <1>1, <1>2, EmitOrderedKeeps
<1>5. st \in State /\ st.next = Due /\ st.buffer = Waiting
  BY <1>1, StateOfKept DEF Due, Waiting
<1>6. /\ Flying' \subseteq Flying /\ x \in Flying /\ OnceInv'
      /\ Calm => x \notin Flying'
      /\ Flying \ {x} \subseteq Flying'
  BY JobTaken
<1>7. /\ BatchInv /\ PendingInv /\ OrderInv /\ ShownInv /\ AfterShown
      /\ DueInv /\ SteadyInv /\ CalmInv /\ OnceInv /\ PromptInv
  BY DEF Ordered, Settled
<1>8. /\ Pending \subseteq Payloads /\ Due \in Nat \ {0} /\ x \in Pending
      /\ Flying \subseteq Pending /\ Waiting \subseteq Pending
      /\ \A y \in Waiting : y.seq > Due
      /\ \A y \in Payloads : y.seq \in Nat
      /\ Pending' = Flying' \cup Waiting'
      /\ next \in Nat
  BY <1>6, PendingTypes DEF Pending, TypeInv, Typed
<1>9. NoState \notin State
  BY NoStateIsNone
<1>10. (Steady' <=> Steady) /\ (Calm' <=> Calm)
  BY <1>2 DEF Steady, Calm
<1> HIDE DEF x, st, last
\* A number that has been emitted.
<1>11. CASE x.seq < st.next /\ shown' = shown
            /\ order' = [order EXCEPT ![Only] = [st EXCEPT !.stale = FALSE]]
  <2>1. Due' = Due /\ Waiting' = Waiting /\ Stale' = FALSE
    <3>1. /\ [st EXCEPT !.stale = FALSE].next = Due /\ [st EXCEPT !.stale = FALSE].buffer = Waiting
          /\ [st EXCEPT !.stale = FALSE].stale = FALSE
      BY <1>5 DEF State
    <3> QED BY <3>1, <1>4, <1>9, <1>11, StateLeft
  <2>2. ~Calm
    BY <1>5, <1>6, <1>7, <1>8, <1>11 DEF CalmInv
  <2>3. Pending' \subseteq Pending
    BY <2>1, <1>6, <1>8
  <2>4. Ordered'
    <3>1. Grown({})
      BY <1>11, ShowingNothing
    <3> QED BY <3>1, <2>1, <2>3, <1>2, OrderedOnTheWay
  <2>5. DueInv'
    BY <2>1, <1>2, <1>7 DEF DueInv
  <2>6. SteadyInv' /\ CalmInv'
    BY <2>1, <2>2, <2>3, <1>7, <1>10 DEF SteadyInv, CalmInv
  <2>7. PromptInv'
    <3> SUFFICES ASSUME Prompt PROVE Arrives' /\ Complete'
      BY <2>1, <2>3, <1>2, <1>7 DEF PromptInv
    <3>1. \A y \in Pending : y.seq >= Due => y \in Pending'
      BY <2>1, <1>5, <1>6, <1>8, <1>11 DEF Pending
    <3>2. Arrives'
      BY <3>1, <2>1, <2>3, <1>2, <1>7, <1>8 DEF PromptInv, Arrives
    <3>3. Complete'
      BY <3>1, <2>1, <1>2, <1>7, <1>11 DEF PromptInv, Complete, Has
    <3> QED BY <3>2, <3>3
  <2> QED BY <2>4, <2>5, <2>6, <2>7, <1>6 DEF Settled
\* One that comes early.
<1>12. CASE x.seq > st.next /\ shown' = shown
            /\ order' = [order EXCEPT ![Only] = Holding(st, x)]
  <2>1. Due' = Due /\ Waiting' = {y \in Waiting : y.seq # x.seq} \cup {x} /\ Stale' = FALSE
    <3>1. /\ Holding(st, x).next = Due
          /\ Holding(st, x).buffer = {y \in Waiting : y.seq # x.seq} \cup {x}
          /\ Holding(st, x).stale = FALSE
      BY <1>5 DEF State, Holding
    <3> QED BY <3>1, <1>4, <1>9, <1>12, StateLeft
  <2>2. Pending' \subseteq Pending
    BY <2>1, <1>6, <1>8
  <2>3. Ordered'
    <3>1. Grown({})
      BY <1>12, ShowingNothing
    <3> QED BY <3>1, <2>1, <2>2, <1>2, OrderedOnTheWay
  <2>4. DueInv'
    BY <2>1, <1>2, <1>7 DEF DueInv
  <2>5. SteadyInv'
    BY <2>1, <2>2, <1>7, <1>10 DEF SteadyInv
  <2>6. CalmInv'
    <3> SUFFICES ASSUME Calm
                 PROVE  /\ \A y \in Flying' : y.seq >= Due' /\ \A z \in Waiting' : y.seq # z.seq
                        /\ \A y, z \in Pending' : y.done => z.seq <= y.seq
                        /\ \A y \in Pending' : y.done => ~open'
      BY <1>10 DEF CalmInv
    <3>1. ASSUME NEW y \in Flying' PROVE y.seq >= Due /\ \A z \in Waiting' : y.seq # z.seq
      <4>1. y \in Flying /\ y # x
        BY <1>6
      <4>2. y.seq # x.seq
        BY <4>1, <1>7, <1>8 DEF OrderInv
      <4> QED BY <4>1, <4>2, <2>1, <1>7 DEF CalmInv
    <3> QED BY <3>1, <2>1, <2>2, <1>2, <1>7 DEF CalmInv
  <2>7. PromptInv'
    <3>1. Pending' = Pending
      <4>1. Waiting \subseteq Waiting' /\ x \in Waiting'
        BY <2>1, <1>7, <1>8 DEF OrderInv
      <4> QED BY <4>1, <2>2, <1>6, <1>8 DEF Pending
    <3>2. (Arrives => Arrives') /\ (Complete => Complete')
      BY <3>1, <2>1, <1>2, <1>12 DEF Arrives, Complete, Has
    <3> QED BY <3>1, <3>2, <2>1, <1>2, <1>7 DEF PromptInv
  <2> QED BY <2>3, <2>4, <2>5, <2>6, <2>7, <1>6 DEF Settled
\* One in its turn.
<1>13. CASE x.seq = st.next /\ InTurn(Only, st, x)
            /\ order' = [order EXCEPT ![Only] = IF x.done THEN NoState ELSE Passed(st)]
  <2> DEFINE P == {x} \cup {y \in Waiting : y.seq <= last}
  <2>1. /\ last \in Nat /\ last >= Due
        /\ last \in {Due} \cup {y.seq : y \in Waiting}
        /\ \A k \in (Due + 1)..last : \E y \in Waiting : y.seq = k
        /\ Grown(P) /\ \A y \in P : \E i \in DOMAIN shown' : shown'[i] = y
    <3>1. /\ last \in Nat /\ last >= st.next
          /\ last \in {st.next} \cup {y.seq : y \in st.buffer}
          /\ \A k \in (st.next + 1)..last : \E y \in st.buffer : y.seq = k
          /\ Grown({x} \cup {y \in st.buffer : y.seq <= last})
          /\ \A y \in {x} \cup {z \in st.buffer : z.seq <= last} : \E i \in DOMAIN shown' : shown'[i] = y
      BY <1>1, <1>2, <1>13, InTurnGrows DEF st, last
    <3> QED BY <3>1, <1>5
  <2>2. P \subseteq Pending /\ \A y \in P : y.seq >= Due /\ y.seq <= last
    <3>1. x.seq = Due
      BY <1>5, <1>13
    <3> QED BY <3>1, <2>1, <1>8
  <2>5. x \in P /\ \A y \in Waiting : y.seq <= last => y \in P
    OBVIOUS
  <2> HIDE DEF P
  \* what was shown stays so
  <2>6. \A n : (\E i \in DOMAIN shown : Has(shown[i], n)) => \E i \in DOMAIN shown' : Has(shown'[i], n)
    <3>1. /\ DOMAIN shown = 1..Len(shown) /\ DOMAIN shown' = 1..Len(shown')
          /\ Len(shown) \in Nat /\ Len(shown') \in Nat /\ Len(shown) <= Len(shown')
          /\ \A i \in 1..Len(shown) : shown'[i] = shown[i]
      BY <2>1, LenProperties DEF Grown, TypeInv, Typed
    <3>2. \A i \in DOMAIN shown : i \in DOMAIN shown' /\ shown'[i] = shown[i]
      BY <3>1
    <3> QED BY <3>2
  <2>7. \A y \in P : \A n : Has(y, n) => \E i \in DOMAIN shown' : Has(shown'[i], n)
    BY <2>1
  <2>3. CASE x.done
    <3>7. ~Prompt'
      <4> SUFFICES ASSUME Prompt, ~open', ~AllShown' PROVE FALSE
        <5>1. ASSUME Prompt PROVE ~open'
          BY <5>1, <2>3, <1>2, <1>7, <1>8 DEF PromptInv
        <5> QED BY <5>1 DEF Prompt
      <4>1. /\ Complete /\ batch = <<>>
            /\ \A y \in Pending : y.seq <= x.seq
        BY <2>3, <1>2, <1>7, <1>8 DEF PromptInv, TypeInv, Sized
      <4>2. \A y \in Pending : y.seq >= Due => y = x
        <5> TAKE y \in Pending
        <5> HAVE y.seq >= Due
        <5>1. y.seq = x.seq
          BY <4>1, <1>5, <1>8, <1>13
        <5> QED BY <5>1, <1>7, <1>8 DEF OrderInv
      <4>3. x \in P
        BY <2>5
      <4>4. ~ \E a \in DOMAIN batch : TRUE
        BY <4>1
      <4>5. AllShown'
        <5> SUFFICES ASSUME NEW n \in DOMAIN said PROVE \E i \in DOMAIN shown' : Has(shown'[i], n)
          BY <1>2 DEF AllShown, Has
        <5>1. \/ \E i \in DOMAIN shown : Has(shown[i], n)
              \/ \E y \in Pending : y.seq >= Due /\ Has(y, n)
          BY <4>1, <4>4 DEF Complete
        <5> QED BY <5>1, <4>2, <4>3, <2>6, <2>7
      <4> QED BY <4>5
    <3>1. Calm /\ ~open
      <4>1. ~Steady
        BY <2>3, <1>7, <1>8 DEF SteadyInv
      <4>2. Calm
        BY <4>1, <3>7, <1>10 DEF Good
      <4> QED BY <4>2, <2>3, <1>7, <1>8 DEF CalmInv
    <3>2. Due' = 1 /\ Waiting' = {} /\ Stale' = FALSE
      BY <2>3, <1>13, StateLeft DEF NewState
    <3>3. Flying' = {}
      <4> SUFFICES ASSUME NEW y \in Flying' PROVE FALSE
        OBVIOUS
      <4>1. y \in Flying /\ y # x
        BY <1>6, <3>1
      <4>2. y.seq <= x.seq /\ y.seq >= Due
        BY <4>1, <3>1, <2>3, <1>7, <1>8 DEF CalmInv
      <4>3. y.seq = x.seq
        BY <4>1, <4>2, <1>5, <1>8, <1>13
      <4> QED BY <4>1, <4>3, <1>7, <1>8 DEF OrderInv
    <3>4. Pending' = {}
      BY <3>2, <3>3, <1>8
    <3>5. Ordered'
      BY <2>1, <2>2, <3>4, <1>2, OrderedOnTheWay
    <3>6. DueInv' /\ SteadyInv' /\ CalmInv'
      BY <3>1, <3>2, <3>3, <3>4, <1>2 DEF DueInv, SteadyInv, CalmInv
    <3> QED BY <3>5, <3>6, <3>7, <1>6 DEF Settled, PromptInv
  <2>4. CASE ~x.done
    <3>1. Due' = last + 1 /\ Waiting' = {y \in Waiting : y.seq > last} /\ Stale' = FALSE
      <4>1. /\ Passed(st).next = last + 1 /\ Passed(st).stale = FALSE
            /\ Passed(st).buffer = {y \in Waiting : y.seq > last}
        BY <1>5 DEF Passed, last
      <4>2. order' = [order EXCEPT ![Only] = Passed(st)] /\ Passed(st) \in State
        BY <2>4, <1>4, <1>13
      <4> QED BY <4>1, <4>2, <1>9, StateLeft
    <3>2. Pending' \subseteq Pending /\ Waiting' \subseteq Waiting
      BY <3>1, <1>6, <1>8
    <3>3. Ordered'
      <4>1. \A y \in Pending' : y.seq >= Due' => y.seq >= Due /\ \A z \in P : z.seq < y.seq
        <5>1. \A y \in Pending' : y.seq \in Nat
          BY <3>2, <1>8
        <5>2. \A z \in P : z.seq \in Nat /\ z.seq <= last
          BY <2>2, <1>8
        <5> QED BY <5>1, <5>2, <2>1, <3>1, <1>8
      <4> QED BY <4>1, <2>1, <2>2, <3>2, <1>2, OrderedOnTheWay
    <3>4. DueInv'
      <4>1. open => last < next
        <5>1. last = x.seq \/ \E y \in Waiting : last = y.seq
          BY <2>1, <1>5, <1>13
        <5> QED BY <5>1, <1>7, <1>8 DEF PendingInv
      <4>2. open' => Due' <= next'
        BY <4>1, <2>1, <3>1, <1>2, <1>8
      <4> QED BY <4>2, <3>1 DEF DueInv
    <3>5. SteadyInv'
      BY <3>1, <3>2, <1>7, <1>10 DEF SteadyInv
    <3>6. CalmInv'
      <4> SUFFICES ASSUME Calm
                   PROVE  /\ \A y \in Flying' : y.seq >= Due' /\ \A z \in Waiting' : y.seq # z.seq
                          /\ \A y, z \in Pending' : y.done => z.seq <= y.seq
                          /\ \A y \in Pending' : y.done => ~open'
        BY <1>10 DEF CalmInv
      <4>1. ASSUME NEW y \in Flying' PROVE y.seq >= Due' /\ \A z \in Waiting' : y.seq # z.seq
        <5>1. y \in Flying /\ y # x
          BY <1>6
        <5>2. y.seq >= Due /\ \A z \in Waiting : y.seq # z.seq
          BY <5>1, <1>7 DEF CalmInv
        <5>3. y.seq # Due
          BY <5>1, <1>5, <1>7, <1>8, <1>13 DEF OrderInv
        <5>4. y.seq \in Nat /\ ~ (y.seq \in (Due + 1)..last)
          BY <5>1, <5>2, <2>1, <1>8
        <5>5. y.seq >= last + 1
          BY <5>2, <5>3, <5>4, <2>1, <1>8
        <5> QED BY <5>2, <5>5, <3>1, <3>2
      <4> QED BY <4>1, <3>2, <1>2, <1>7 DEF CalmInv
    <3>7. PromptInv'
      <4> SUFFICES ASSUME Prompt PROVE Arrives' /\ Complete'
        BY <3>1, <3>2, <1>2, <1>7 DEF PromptInv
      <4>1. Arrives /\ Complete
        BY <1>7 DEF PromptInv
      <4>2. \A y \in Pending : y.seq > last => y \in Pending'
        BY <3>1, <2>1, <1>5, <1>6, <1>8, <1>13 DEF Pending
      <4>3. ASSUME NEW y \in Pending, y.seq >= Due, ~ (y.seq > last) PROVE y \in P
        <5>1. CASE y.seq = Due
          <6>1. y.seq = x.seq
            BY <5>1, <1>5, <1>13
          <6>2. y = x
            BY <6>1, <1>7, <1>8 DEF OrderInv
          <6> QED BY <6>2, <2>5
        <5>2. CASE y.seq # Due
          <6>1. y.seq \in (Due + 1)..last
            BY <4>3, <5>2, <2>1, <1>8
          <6>2. PICK z \in Waiting : z.seq = y.seq
            BY <6>1, <2>1
          <6>3. z = y
            BY <6>2, <1>7, <1>8 DEF OrderInv
          <6>4. y.seq <= last
            BY <4>3, <2>1, <1>8
          <6> QED BY <6>2, <6>3, <6>4, <2>5
        <5> QED BY <5>1, <5>2
      <4>4. Arrives'
        <5>1. \A m : m \in Nat /\ m >= Due' => m >= Due /\ m > last
          BY <3>1, <2>1, <1>8
        <5>2. ASSUME NEW m \in Nat, m >= Due', \E y \in Pending : y.seq = m
              PROVE  \E y \in Pending' : y.seq = m
          BY <5>1, <5>2, <4>2
        <5>3. ASSUME NEW y \in Pending', NEW m \in Due'..y.seq PROVE \E z \in Pending' : z.seq = m
          <6>1. m \in Nat /\ m >= Due' /\ m \in Due..y.seq /\ y \in Pending
            BY <3>1, <3>2, <2>1, <1>8
          <6> QED BY <6>1, <5>2, <4>1 DEF Arrives
        <5>4. ASSUME open, NEW m \in Due'..(next - 1) PROVE \E z \in Pending' : z.seq = m
          <6>1. m \in Nat /\ m >= Due' /\ m \in Due..(next - 1)
            BY <3>1, <2>1, <1>8
          <6> QED BY <6>1, <5>2, <5>4, <4>1 DEF Arrives
        <5> QED BY <5>3, <5>4, <1>2 DEF Arrives
      <4>5. Complete'
        <5> SUFFICES ASSUME NEW n \in DOMAIN said
                     PROVE  \/ \E i \in DOMAIN shown' : Has(shown'[i], n)
                            \/ \E a \in DOMAIN batch : batch[a] = n
                            \/ \E y \in Pending' : y.seq >= Due' /\ Has(y, n)
          BY <1>2 DEF Complete, Has
        <5>1. CASE \E y \in Pending : y.seq >= Due /\ Has(y, n)
          <6>1. PICK y \in Pending : y.seq >= Due /\ Has(y, n)
            BY <5>1
          <6>2. CASE y.seq > last
            <7>1. y \in Pending' /\ y.seq >= Due'
              BY <6>2, <4>2, <3>1, <2>1, <1>8
            <7> QED BY <6>1, <7>1
          <6>3. CASE ~ (y.seq > last)
            BY <6>1, <6>3, <4>3, <2>7
          <6> QED BY <6>2, <6>3
        <5> QED BY <5>1, <4>1, <2>6 DEF Complete
      <4> QED BY <4>4, <4>5
    <3> QED BY <3>3, <3>4, <3>5, <3>6, <3>7, <1>6 DEF Settled
  <2> QED BY <2>3, <2>4
<1> QED BY <1>3, <1>11, <1>12, <1>13

\* Time passes only where nothing is on its way, and not while a stream that
\* never falls silent is open.
LEMMA AgeInOrder ==
  ASSUME TypeInv, TypeInv', OneStream, Good, Prompt' => Prompt, Ordered, Settled,
         NEW p \in Processes, Age(p)
  PROVE  Ordered' /\ Settled'
<1>1. /\ UNCHANGED <<said, streams, open, next, batch, outbox, queue, shown, faults>>
      /\ DueInv /\ SteadyInv /\ CalmInv /\ OnceInv /\ PromptInv
  BY DEF Age, producer, Settled
<1>2. p = Only /\ order[Only] # NoState /\ Only \in Processes
  BY StreamAssumption DEF Age, OneStream, Good, Calm, Steady, Prompt
<1>3. ~Steady /\ ~Prompt /\ Calm
  <2>1. ~Steady
    BY DEF Age, Steady
  <2>2. ASSUME Prompt PROVE FALSE
    <3>1. ~open /\ ~AllShown /\ batch = <<>> /\ outbox = {} /\ queue = {}
      BY <2>2 DEF Age, Prompt
    <3>2. Pending = Waiting
      BY <3>1 DEF Pending, Flying, Adding, Queued
    <3>3. Arrives /\ Complete
      BY <2>2, <1>1 DEF PromptInv
    <3>4. \A x \in Waiting : x.seq > Due /\ x.seq \in Nat /\ Due \in Nat
      BY PendingTypes
    <3>5. Waiting = {}
      <4> SUFFICES ASSUME NEW x \in Waiting PROVE FALSE
        OBVIOUS
      <4>1. Due \in Due..x.seq
        BY <3>4
      <4>2. PICK y \in Waiting : y.seq = Due
        BY <4>1, <3>2, <3>3 DEF Arrives
      <4> QED BY <4>2, <3>4
    <3>6. ~ \E a \in DOMAIN batch : TRUE
      BY <3>1
    <3> QED BY <3>1, <3>2, <3>3, <3>5, <3>6 DEF Complete, AllShown
  <2> QED BY <2>1, <2>2 DEF Good
<1>4. Flying = {} /\ Flying' = Flying
  <2>1. outbox = {} /\ queue = {}
    BY <1>3 DEF Age, Calm
  <2> QED BY <2>1, <1>1 DEF Flying, Adding, Queued
<1>5. Due' = Due /\ Waiting' = Waiting
  <2> DEFINE s == [order[Only] EXCEPT !.stale = TRUE]
  <2>1. order[Only] \in State /\ StateOf(Only) = order[Only]
    BY <1>2 DEF TypeInv, Typed, StateOf
  <2>2. s \in State /\ s.next = Due /\ s.buffer = Waiting
    BY <2>1 DEF State, Due, Waiting
  <2>3. order' = [order EXCEPT ![Only] = s]
    BY <1>2 DEF Age
  <2> HIDE DEF s
  <2> QED BY <2>2, <2>3, NoStateIsNone, StateLeft
<1>6. Pending' = Pending
  BY <1>4, <1>5 DEF Pending
<1>7. Ordered'
  <2>1. Grown({})
    BY <1>1, ShowingNothing
  <2> QED BY <2>1, <1>1, <1>5, <1>6, OrderedOnTheWay
<1>8. DueInv' /\ SteadyInv' /\ CalmInv' /\ OnceInv'
  BY <1>1, <1>3, <1>4, <1>5, <1>6 DEF DueInv, SteadyInv, CalmInv, OnceInv, Steady, Calm
<1> QED BY <1>3, <1>7, <1>8 DEF Settled, PromptInv

\* A state that is swept begins anew at 1, and what comes is later than all
\* that it held.
LEMMA SweepInOrder ==
  ASSUME TypeInv, TypeInv', OneStream, Good, Prompt' => Prompt, Ordered, Settled,
         NEW p \in Processes, Sweep(p)
  PROVE  Ordered' /\ Settled'
<1>1. /\ UNCHANGED <<said, streams, open, next, batch, outbox, queue, faults>>
      /\ DueInv /\ SteadyInv /\ CalmInv /\ OnceInv /\ PromptInv
  BY DEF Sweep, producer, Settled
<1>2. p = Only /\ order[Only] # NoState /\ Only \in Processes /\ StateOf(Only) = order[Only]
  BY StreamAssumption DEF Sweep, OneStream, Good, Calm, Steady, Prompt, StateOf
<1>3. Stale /\ Calm /\ ~Steady /\ ~Prompt
  BY <1>1, <1>2 DEF Sweep, Stale, SteadyInv, PromptInv, Good
<1>4. Due' = 1 /\ Waiting' = {} /\ Stale' = FALSE
  <2>1. order' = [order EXCEPT ![Only] = NoState]
    BY <1>2 DEF Sweep
  <2> QED BY <2>1, StateLeft DEF NewState
<1>5. Flying' = Flying /\ Pending' = Flying /\ Flying \subseteq Pending /\ Waiting \subseteq Pending
  BY <1>1, <1>4 DEF Pending, Flying, Adding, Queued
<1>6. /\ \A x \in Flying : x.seq >= Due /\ \A y \in Waiting : y.seq < x.seq
      /\ \A y \in Waiting : y.seq > Due
      /\ Due \in Nat /\ \A x \in Pending : x.seq \in Nat \ {0}
  BY <1>1, <1>3, PendingTypes DEF DueInv
<1>7. Ordered'
  <2>1. Grown(Waiting)
    BY <1>2, SweepGrows DEF Waiting
  <2>2. \A y \in Waiting : y.seq >= Due
    BY <1>5, <1>6
  <2> QED BY <2>1, <2>2, <1>1, <1>5, <1>6, OrderedOnTheWay
<1>8. DueInv'
  <2>1. next \in Nat \ {0}
    BY DEF TypeInv, Typed
  <2> QED BY <2>1, <1>1, <1>4 DEF DueInv
<1>9. SteadyInv'
  BY <1>1, <1>3 DEF SteadyInv, Steady
<1>10. CalmInv'
  <2>1. \A x \in Flying : x.seq >= 1
    BY <1>5, <1>6
  <2> QED BY <2>1, <1>1, <1>3, <1>4, <1>5 DEF CalmInv, Calm
<1>11. OnceInv'
  BY <1>1 DEF OnceInv, Calm
<1> QED BY <1>3, <1>7, <1>8, <1>9, <1>10, <1>11 DEF Settled, PromptInv

\* Where nothing was said.
Nothing ==
  /\ outbox = {} /\ queue = {} /\ shown = <<>> /\ batch = <<>> /\ next = 1 /\ said = <<>>
  /\ order = [p \in Processes |-> NoState]

\* Where nothing was said the order holds.
LEMMA NothingYet == Nothing => Ordered /\ Settled
<1> SUFFICES ASSUME Nothing PROVE Ordered /\ Settled
  OBVIOUS
<1> USE DEF Nothing
<1>1. Only \in Processes
  BY StreamAssumption
<1>2. Flying = {} /\ Waiting = {} /\ Due = 1 /\ Stale = FALSE /\ Pending = {}
  BY <1>1 DEF Flying, Adding, Queued, Waiting, Due, Stale, Pending, StateOf, NewState
<1>3. DOMAIN shown = {} /\ DOMAIN batch = {} /\ DOMAIN said = {}
  OBVIOUS
<1>4. Ordered
  BY <1>2, <1>3 DEF Ordered, BatchInv, PendingInv, OrderInv, ShownInv, AfterShown, Ascends, UpTo
<1>5. Settled
  <2>1. DueInv /\ SteadyInv /\ CalmInv /\ OnceInv
    BY <1>2 DEF DueInv, SteadyInv, CalmInv, OnceInv
  <2>2. \A m : m \notin 1..0
    OBVIOUS
  <2>3. PromptInv
    BY <1>2, <1>3, <2>2 DEF PromptInv, Arrives, Complete
  <2> QED BY <2>1, <2>3 DEF Settled
<1> QED BY <1>4, <1>5

\* The same of the state after a step.
LEMMA NothingNext == Nothing' => Ordered' /\ Settled'
BY NothingYet, PTL

\* The invariant of the order holds at first.
LEMMA InitOrdered == Init => IInv
<1> SUFFICES ASSUME Init PROVE IInv
  OBVIOUS
<1>1. TypeInv
  BY InitTypes
<1>2. OneStream
  <2>1. said = <<>> => DOMAIN said = {}
    OBVIOUS
  <2> QED BY <2>1 DEF Init, OneStream
<1>3. OrderedInv
  BY NothingYet DEF Init, OrderedInv, Nothing
<1> QED BY <1>1, <1>2, <1>3 DEF IInv

\* The key has one stream unless a run is resumed, and one process unless it is split.
LEMMA NextOneStream ==
  ASSUME TypeInv, OneStream, [Next]_vars
  PROVE  OneStream'
<1> DEFINE Empty == /\ outbox = {} /\ queue = {} /\ shown = <<>> /\ next = 1 /\ batch = <<>> /\ said = <<>>
                    /\ order = [p \in Processes |-> NoState]
<1>1. /\ streams \in Nat /\ MaxStreams \in Nat /\ Only \in Processes
      /\ open => streams >= 1
      /\ ~open => batch = <<>>
      /\ order \in [Processes -> {NoState} \cup State]
  BY StreamAssumption DEF TypeInv, Typed, Sized
<1>2. CASE UNCHANGED vars
  BY <1>2 DEF vars, producer, OneStream
<1>3. CASE Begin
  <2>1. streams' = streams + 1 /\ UNCHANGED <<order, faults>>
    BY <1>3 DEF Begin
  <2>2. "resume" \notin faults' => streams' <= 1 /\ \A i \in DOMAIN said' : said'[i] = 1
    BY <1>1, <1>3, <2>1 DEF Begin, OneStream
  <2>3. streams' # 0
    BY <1>1, <2>1
  <2> QED BY <2>1, <2>2, <2>3 DEF OneStream
<1>4. ASSUME \/ Token \/ Step \/ Done \/ Flush \/ ShutDown
      PROVE  OneStream'
  <2>1. UNCHANGED <<streams, order, faults>> /\ open
    BY <1>1, <1>4 DEF Token, Step, Done, Emit, Flush, ShutDown
  <2>2. streams # 0 /\ said \in Seq(1..MaxStreams)
    BY <1>1, <2>1 DEF TypeInv, Typed
  <2>3. "resume" \notin faults => \A i \in DOMAIN said' : said'[i] = 1
    <3> SUFFICES ASSUME "resume" \notin faults, NEW i \in DOMAIN said' PROVE said'[i] = 1
      OBVIOUS
    <3>1. streams = 1 /\ \A j \in DOMAIN said : said[j] = 1
      BY <2>2, <1>1 DEF OneStream
    <3>2. said' = said \/ said' = Append(said, streams)
      BY <1>4 DEF Token, Step, Done, Emit, Flush, ShutDown
    <3>3. CASE said' = Append(said, streams)
      <4>1. /\ DOMAIN said' = 1..(Len(said) + 1) /\ DOMAIN said = 1..Len(said) /\ Len(said) \in Nat
            /\ said'[Len(said) + 1] = streams /\ \A j \in 1..Len(said) : said'[j] = said[j]
        BY <2>2, <3>3, <1>1
      <4> QED BY <3>1, <4>1
    <3> QED BY <3>1, <3>2, <3>3
  <2> QED BY <2>1, <2>2, <2>3 DEF OneStream
<1>5. CASE ForgetSequence
  BY <1>5 DEF ForgetSequence, OneStream
<1>6. ASSUME NEW call \in outbox, Send(call) \/ FailAdd(call)
      PROVE  OneStream'
  <2>1. UNCHANGED <<streams, said, order, faults>> /\ outbox # {}
    BY <1>6 DEF Send, FailAdd, producer
  <2> QED BY <2>1 DEF OneStream
<1>7. ASSUME NEW p \in Processes, NEW s \in {NoState} \cup State, order' = [order EXCEPT ![p] = s],
             "split" \notin faults => p = Only, streams # 0, UNCHANGED <<streams, said, faults>>
      PROVE  OneStream'
  <2>1. \A q \in Processes : q # p => order'[q] = order[q]
    BY <1>1, <1>7
  <2> QED BY <2>1, <1>7 DEF OneStream
<1>8. ASSUME NEW p \in Processes, NEW job \in queue, Process(p, job)
      PROVE  OneStream'
  <2> DEFINE st == StateOf(p)
  <2>1. job.payload \in Payloads /\ UNCHANGED <<streams, said, faults>>
    BY <1>8, JobTypes
  <2>2. \/ order' = [order EXCEPT ![p] = [st EXCEPT !.stale = FALSE]]
        \/ /\ job.payload.seq > st.next
           /\ order' = [order EXCEPT ![p] = Holding(st, job.payload)]
        \/ /\ job.payload.seq = st.next /\ InTurn(p, st, job.payload)
           /\ order' = [order EXCEPT ![p] = IF job.payload.done THEN NoState ELSE Passed(st)]
    BY <1>8, <2>1, EmitOrderedDoes DEF Process
  <2>3. /\ [st EXCEPT !.stale = FALSE] \in State
        /\ job.payload.seq > st.next => Holding(st, job.payload) \in State
        /\ job.payload.seq = st.next /\ InTurn(p, st, job.payload) => Passed(st) \in State
    BY <2>1, EmitOrderedKeeps
  <2> HIDE DEF st
  <2>4. PICK s \in {NoState} \cup State : order' = [order EXCEPT ![p] = s]
    BY <2>2, <2>3
  <2>5. streams # 0
    BY <1>8 DEF OneStream
  <2>6. "split" \notin faults => p = Only
    BY <1>8 DEF Process, Running
  <2> QED BY <2>1, <2>4, <2>5, <2>6, <1>7
<1>9. ASSUME NEW p \in Processes, Age(p) \/ Sweep(p)
      PROVE  OneStream'
  <2>1. /\ UNCHANGED <<streams, said, faults>> /\ order[p] # NoState
        /\ \/ order' = [order EXCEPT ![p] = [order[p] EXCEPT !.stale = TRUE]]
           \/ order' = [order EXCEPT ![p] = NoState]
    BY <1>9 DEF Age, Sweep, producer
  <2>2. [order[p] EXCEPT !.stale = TRUE] \in State
    <3>1. order[p] \in State
      BY <1>1, <2>1
    <3> QED BY <3>1 DEF State
  <2>3. streams # 0 /\ ("split" \notin faults => p = Only)
    BY <2>1 DEF OneStream
  <2> QED BY <2>1, <2>2, <2>3, <1>7
<1> QED BY <1>2, <1>3, <1>4, <1>5, <1>6, <1>8, <1>9 DEF Next

\* What is shown stays shown: every step appends to it or leaves it.
LEMMA ShownGrows ==
  ASSUME TypeInv, [Next]_vars
  PROVE  shown' = shown \/ \E P : Grown(P)
<1>1. ASSUME \/ UNCHANGED vars \/ Begin \/ Token \/ Step \/ Done \/ Flush \/ ShutDown \/ ForgetSequence
             \/ \E call \in outbox : Send(call) \/ FailAdd(call)
             \/ \E p \in Processes : Age(p)
      PROVE  shown' = shown
  BY <1>1 DEF vars, Begin, Token, Step, Done, Emit, Flush, ShutDown, ForgetSequence, Send, FailAdd, Age
<1>2. ASSUME NEW p \in Processes, NEW job \in queue, Process(p, job)
      PROVE  shown' = shown \/ \E P : Grown(P)
  <2>1. job.payload \in Payloads
    BY <1>2, JobTypes
  <2>2. \/ shown' = shown
        \/ job.payload.seq = StateOf(p).next /\ InTurn(p, StateOf(p), job.payload)
    BY <1>2, <2>1, EmitOrderedDoes DEF Process
  <2> QED BY <2>1, <2>2, InTurnGrows
<1>3. ASSUME NEW p \in Processes, Sweep(p)
      PROVE  \E P : Grown(P)
  BY <1>3, SweepGrows
<1> QED BY <1>1, <1>2, <1>3 DEF Next

\* A stream that is not open says nothing more, so what was all shown stays so.
LEMMA ShownStays ==
  ASSUME TypeInv, [Next]_vars, ~Begin
  PROVE  ~open /\ AllShown => AllShown'
<1> SUFFICES ASSUME ~open, AllShown PROVE AllShown'
  OBVIOUS
<1>1. said' = said
  <2>1. batch = <<>> /\ ~Flush
    BY DEF TypeInv, Sized, Flush
  <2> QED BY <2>1 DEF Next, vars, Token, Step, Done, Emit, ShutDown, ForgetSequence, Send, FailAdd,
                      Process, Age, Sweep, producer
<1>2. \A i \in DOMAIN shown : i \in DOMAIN shown' /\ shown'[i] = shown[i]
  <2>1. CASE shown' = shown
    BY <2>1
  <2>2. ASSUME NEW P, Grown(P)
        PROVE  \A i \in DOMAIN shown : i \in DOMAIN shown' /\ shown'[i] = shown[i]
    <3>1. /\ DOMAIN shown = 1..Len(shown) /\ DOMAIN shown' = 1..Len(shown')
          /\ Len(shown) \in Nat /\ Len(shown') \in Nat /\ Len(shown) <= Len(shown')
          /\ \A i \in 1..Len(shown) : shown'[i] = shown[i]
      BY <2>2, LenProperties DEF Grown, TypeInv, Typed
    <3> QED BY <3>1
  <2> QED BY <2>1, <2>2, ShownGrows
<1> QED BY <1>1, <1>2 DEF AllShown, Has

\* Every step keeps the order, in the behaviours it is claimed for: one lemma per kind
\* of step.
LEMMA NextOrdered ==
  ASSUME TypeInv, TypeInv', OneStream, OrderedInv, [Next]_vars
  PROVE  OrderedInv'
<1> SUFFICES ASSUME Good' PROVE Ordered' /\ Settled'
  BY DEF OrderedInv
<1>1. CASE Begin
  <2>1. streams = 0
    <3>1. "resume" \notin faults
      BY <1>1 DEF Good, Calm, Steady, Prompt, Begin
    <3>2. streams < 1 /\ streams \in Nat
      BY <3>1, <1>1, StreamAssumption DEF Begin, TypeInv, Typed
    <3> QED BY <3>2
  <2>2. /\ outbox' = {} /\ queue' = {} /\ shown' = <<>> /\ batch' = <<>> /\ next' = 1 /\ said' = <<>>
        /\ order' = [p \in Processes |-> NoState]
    BY <1>1, <2>1 DEF Begin, OneStream
  <2> QED BY <2>2, NothingNext DEF Nothing
<1>2. ASSUME ~Begin PROVE (open' => open) /\ faults' = faults
  <2>1. CASE UNCHANGED vars
    BY <2>1 DEF vars, producer
  <2>2. CASE Token \/ Step \/ Done
    BY <2>2 DEF Token, Step, Done, Emit
  <2>3. CASE Flush \/ ShutDown \/ ForgetSequence
    BY <2>3 DEF Flush, ShutDown, ForgetSequence
  <2>4. CASE \E call \in outbox : Send(call) \/ FailAdd(call)
    BY <2>4 DEF Send, FailAdd, producer
  <2>5. CASE \E p \in Processes : (\E job \in queue : Process(p, job)) \/ Age(p) \/ Sweep(p)
    BY <2>5 DEF Process, Age, Sweep, producer
  <2> QED BY <1>2, <2>1, <2>2, <2>3, <2>4, <2>5 DEF Next
<1>3. CASE ~Begin
  <2>0. Prompt' => Prompt
    BY <1>2, <1>3, ShownStays DEF Prompt
  <2>1. Good
    BY <2>0, <1>2, <1>3 DEF Good, Calm, Steady
  <2>2. Ordered /\ Settled
    BY <2>1 DEF OrderedInv
  <2>3. CASE UNCHANGED vars
    BY <2>2, <2>3 DEF vars, producer, Ordered, BatchInv, PendingInv, OrderInv, ShownInv, AfterShown,
         Settled, DueInv, SteadyInv, CalmInv, OnceInv, PromptInv, Arrives, Complete, Has, Prompt, AllShown,
         Steady, Calm, Pending, Flying, Adding, Queued,
         Waiting, Due, Stale, StateOf, Ascends, UpTo, Earlier, Before
  <2>4. CASE Token
    BY <2>2, <2>4, TokenInOrder
  <2>5. CASE Step \/ Done
    BY <2>1, <2>2, <2>5, EmitInOrder DEF Step, Done
  <2>6. CASE Flush \/ ShutDown \/ ForgetSequence
    BY <2>1, <2>2, <2>6, FlushInOrder, RestartInOrder DEF Flush
  <2>7. ASSUME NEW call \in outbox, Send(call) \/ FailAdd(call) PROVE Ordered' /\ Settled'
    BY <2>0, <2>2, <2>7, SendInOrder
  <2>8. ASSUME NEW p \in Processes, NEW job \in queue, Process(p, job) PROVE Ordered' /\ Settled'
    BY <2>0, <2>1, <2>2, <2>8, ProcessInOrder
  <2>9. ASSUME NEW p \in Processes, Age(p) \/ Sweep(p) PROVE Ordered' /\ Settled'
    BY <2>0, <2>1, <2>2, <2>9, AgeInOrder, SweepInOrder
  <2> QED BY <1>3, <2>3, <2>4, <2>5, <2>6, <2>7, <2>8, <2>9 DEF Next
<1> QED BY <1>1, <1>3

\* What is on its way is ordered by its numbers and comes after what was shown,
\* through losses, silences and a shutdown, and with jobs that come twice while
\* the stream is open: the invariant of the order.
THEOREM OrderKept == Spec => []IInv
<1>1. IInv /\ [Next]_vars => IInv'
  <2> SUFFICES ASSUME TypeInv, OneStream, OrderedInv, [Next]_vars PROVE TypeInv' /\ OneStream' /\ OrderedInv'
    BY DEF IInv
  <2>1. TypeInv'
    BY NextTypes
  <2> QED BY <2>1, NextOneStream, NextOrdered
<1> QED BY <1>1, InitOrdered, PTL DEF Spec

\* The invariant shows the steps in order and none twice.
LEMMA OrderShows == IInv => StepsInOrder /\ NotRepeated
<1> SUFFICES ASSUME IInv PROVE StepsInOrder /\ NotRepeated
  OBVIOUS
<1>1. Good => ShownInv
  BY DEF IInv, OrderedInv, Ordered
<1>2. \A i \in DOMAIN shown : \A a \in DOMAIN shown[i].steps : shown[i].steps[a] \in Nat /\ a \in Nat
  <2>1. \A i \in DOMAIN shown : shown[i].steps \in Seq(Steps)
    <3>1. \A i \in DOMAIN shown : shown[i] \in Payloads
      BY LenProperties, ElementOfSeq DEF IInv, TypeInv, Typed
    <3> QED BY <3>1 DEF Payloads
  <2>2. ASSUME NEW s \in Seq(Steps), NEW a \in DOMAIN s PROVE s[a] \in Nat /\ a \in Nat
    <3>1. a \in 1..Len(s)
      BY <2>2, LenProperties
    <3>2. s[a] \in Steps
      BY <3>1, ElementOfSeq
    <3> QED BY <3>1, <3>2, StreamAssumption DEF Steps
  <2> QED BY <2>1, <2>2
<1>3. DOMAIN shown \subseteq Nat
  BY LenProperties DEF IInv, TypeInv, Typed
<1>4. StepsInOrder
  BY <1>1 DEF Good, Calm, ShownInv, StepsInOrder
<1>5. NotRepeated
  <2> SUFFICES ASSUME Steady, NEW i \in DOMAIN shown, NEW j \in DOMAIN shown,
                      NEW a \in DOMAIN shown[i].steps, NEW b \in DOMAIN shown[j].steps,
                      shown[i].steps[a] = shown[j].steps[b]
               PROVE  i = j /\ a = b
    BY DEF NotRepeated, Steady
  <2>1. ShownInv
    BY <1>1 DEF Good
  <2>2. ~ (shown[i].steps[a] < shown[j].steps[b]) /\ ~ (shown[j].steps[b] < shown[i].steps[a])
    BY <1>2
  <2>3. ~ (i < j) /\ ~ (j < i)
    BY <2>1, <2>2 DEF ShownInv, Before
  <2>4. i = j
    BY <2>3, <1>3
  <2>5. ~ (a < b) /\ ~ (b < a)
    BY <2>1, <2>2, <2>4 DEF ShownInv, Ascends
  <2> QED BY <2>4, <2>5, <1>2
<1> QED BY <1>4, <1>5

\* Whatever order the jobs come in, with adds that fail, silences and a
\* shutdown, the steps of a stream are shown in the order of the calls of
\* emitStep(), and none twice while it is open although its job came twice.
THEOREM StreamShownInOrder == Spec => []ShownInOrder
BY OrderKept, TypesHold, OrderShows, PTL DEF ShownInOrder

\* The step of the payload that is due is neither held nor shown.
LEMMA PromptShows == IInv => PromptWhenSteady
<1> SUFFICES ASSUME IInv, faults \subseteq {"again", "restart"}, NEW n \in Held
             PROVE  \E k \in DOMAIN said : k < n /\ said[k] = said[n] /\ k \notin Held /\ ~WasShown(k)
  BY DEF PromptWhenSteady, InTurnShown
<1>1. TypeInv /\ OneStream /\ OrderedInv
  BY DEF IInv
<1>2. /\ n \in DOMAIN said /\ ~ \E i \in DOMAIN shown : Has(shown[i], n)
      /\ \A p \in Processes : order[p] # NoState => p = Only
  BY <1>1 DEF Held, WasShown, OneStream
<1>3. Prompt
  BY <1>2 DEF Prompt, AllShown
<1>4. Arrives /\ OrderInv /\ AfterShown /\ PendingInv /\ \A x \in Pending : x.steps # <<>>
  BY <1>1, <1>3 DEF OrderedInv, Good, Ordered, Settled, PromptInv
<1>5. /\ Pending \subseteq Payloads /\ Waiting \subseteq Pending /\ Due \in Nat
      /\ \A x \in Waiting : x.seq > Due
      /\ \A x \in Payloads : x.seq \in Nat /\ x.steps \in Seq(Steps)
  BY <1>1, PendingTypes DEF Pending
<1>6. ASSUME NEW k, NEW p \in Processes, order[p] # NoState, \E x \in order[p].buffer : Has(x, k)
      PROVE  \E x \in Waiting : Has(x, k)
  <2>1. Waiting = order[p].buffer
    BY <1>2, <1>6 DEF Waiting, StateOf
  <2> QED BY <1>6, <2>1
<1>7. PICK x \in Waiting : Has(x, n)
  BY <1>6 DEF Held
<1>8. PICK y \in Pending : y.seq = Due
  <2>1. Due \in Due..x.seq
    BY <1>5, <1>7
  <2> QED BY <2>1, <1>4, <1>5 DEF Arrives
<1> DEFINE k == y.steps[1]
<1>9. 1 \in DOMAIN y.steps /\ k \in Nat \ {0} /\ k <= Len(said)
  <2>1. y.steps \in Seq(Steps) /\ y.steps # <<>>
    BY <1>4, <1>5
  <2>2. 1 \in DOMAIN y.steps /\ DOMAIN y.steps = 1..Len(y.steps)
    BY <2>1, EmptySeq, LenProperties
  <2>3. k \in Steps
    BY <2>1, <2>2, ElementOfSeq
  <2> QED BY <2>2, <2>3, <1>4, StreamAssumption DEF PendingInv, UpTo, Steps
<1>10. k \in DOMAIN said
  <2>1. DOMAIN said = 1..Len(said) /\ Len(said) \in Nat
    BY <1>1, LenProperties DEF TypeInv, Typed
  <2> QED BY <2>1, <1>9
<1> HIDE DEF k
<1>11. ASSUME NEW z \in Waiting, NEW m, Has(z, m) PROVE k < m
  <2>1. Before(y, z)
    BY <1>4, <1>5, <1>8 DEF OrderInv
  <2> QED BY <2>1, <1>9, <1>11 DEF Before, Has, k
<1>12. ~ (k < k)
  BY <1>9
<1>13. k \notin Held
  BY <1>6, <1>11, <1>12 DEF Held
<1>14. ~WasShown(k)
  <2> SUFFICES ASSUME NEW i \in DOMAIN shown, Has(shown[i], k) PROVE FALSE
    BY DEF WasShown
  <2>1. Before(shown[i], y)
    BY <1>4, <1>5, <1>8 DEF AfterShown
  <2> QED BY <2>1, <1>9, <1>12 DEF Before, Has, k
<1>15. said[k] = said[n]
  BY <1>1, <1>2, <1>10 DEF OneStream
<1> QED BY <1>7, <1>10, <1>11, <1>13, <1>14, <1>15

\* Where no job is lost or late, a step that is held back in a buffer waits for
\* an earlier one of its stream that has not come: it is shown in its turn.
THEOREM StepsArePrompt == Spec => []PromptWhenSteady
BY OrderKept, PromptShows, PTL

=============================================================================
