------------------------- MODULE ReflectionLoopProofs -------------------------
(***************************************************************************)
(* For any queue size, batch size and number of decisions, processes and   *)
(* batch runs: a decision handed to the reflection loop has one fate, the  *)
(* scores match the checkpoint, the exports partition what it counted,     *)
(* stop() leaves nothing behind, and a served loop counts in order.        *)
(***************************************************************************)
EXTENDS ReflectionLoop, SequenceFacts, FiniteSetTheorems

States == {"off", "get", "audit", "persist", "done"}
Busy == {"audit", "persist"}
Persisting == {w \in Worker : at[w] = "persist"}

\* A busy worker holds a decision; of the two that take from the queue only one ever runs.
Workers ==
    /\ \A w \in Worker : at[w] \in Busy => hand[w] \in 1..made
    /\ served \in BOOLEAN
    /\ IF served THEN at["drain"] = "off" ELSE at["consumer"] = "off"
    /\ at["batch"] = "off" => todo = <<>>

\* The item of stop() is the last of the queue, and the consumer leaves nothing behind it.
Sentinel ==
    /\ \A i \in 1..Len(queue) : queue[i] = None => i = Len(queue)
    /\ stopper \in {"idle", "put"} => \A i \in 1..Len(queue) : queue[i] # None
    /\ stopper # "idle" => at["consumer"] # "off"
    /\ at["consumer"] = "done" => queue = <<>> /\ stopper \in {"join", "stopped"}
    /\ stopper = "join" /\ at["consumer"] # "done" => queue # <<>> /\ queue[Len(queue)] = None
    /\ stopper = "stopped" => at["consumer"] = "done"

\* A decision of a batch that the checkpoint may still count, or has counted.
FromBatches ==
    batches * BatchLimit - Len(todo) - (IF at["batch"] \in Busy THEN 1 ELSE 0)
VersionBound == version <= Cardinality(consumed) + FromBatches

\* What the queue holds: decisions, and the item of stop().
Items == 0..made

\* The five fates, one by one.
Apart ==
    /\ IsInjective(queue) /\ ToSet(queue) \cap InHand = {}
    /\ Pending \cap consumed = {} /\ Pending \cap dropped = {}
    /\ Pending \cap failed = {} /\ Pending \cap lost = {}
    /\ consumed \cap dropped = {} /\ consumed \cap failed = {} /\ consumed \cap lost = {}
    /\ dropped \cap failed = {} /\ dropped \cap lost = {} /\ failed \cap lost = {}
    /\ 1..made = Pending \cup consumed \cup dropped \cup failed \cup lost

IInv ==
    /\ TypeOK /\ Workers /\ Sentinel /\ Apart
    /\ ScoresMatchCheckpoint /\ ExportsPartition /\ VersionBound

\* The worker that takes from the queue.
Taker == IF served THEN "consumer" ELSE "drain"

--------------------------------------------------------------------------------
(* Lemmas about the operators of the model *)

\* Five sets in a tuple, pairwise disjoint.
LEMMA ApartFates == Apart => OneFate
<1> DEFINE fates == <<Pending, consumed, dropped, failed, lost>>
<1> SUFFICES ASSUME Apart
             PROVE  \A p, q \in 1..5 : p # q => fates[p] \cap fates[q] = {}
  BY DEF Apart, OneFate
<1>1. /\ fates[1] = Pending /\ fates[2] = consumed /\ fates[3] = dropped
      /\ fates[4] = failed /\ fates[5] = lost
  OBVIOUS
<1> HIDE DEF fates
<1>2. \A p \in 1..5 : p = 1 \/ p = 2 \/ p = 3 \/ p = 4 \/ p = 5
  OBVIOUS
<1> QED BY <1>1, <1>2 DEF Apart

\* In hand is what the worker that takes from the queue is busy with.
LEMMA InHandNow ==
    ASSUME Workers
    PROVE  /\ Taker \in FromQueue /\ Taker # "batch"
           /\ InHand = IF at[Taker] \in Busy THEN {hand[Taker]} ELSE {}
           /\ \A w \in FromQueue : at[w] \in Busy => w = Taker
BY DEF Workers, InHand, Taker, FromQueue, Busy

LEMMA InHandNext ==
    ASSUME Workers', served' = served
    PROVE  InHand' = IF at'[Taker] \in Busy THEN {hand'[Taker]} ELSE {}
BY DEF Workers, InHand, Taker, FromQueue, Busy

\* What a step of one worker does to the number of those that persist.
LEMMA PersistingFacts ==
    ASSUME at \in [Worker -> States], NEW w \in Worker, NEW x \in States,
           at' = [at EXCEPT ![w] = x]
    PROVE  /\ at' \in [Worker -> States] /\ at'[w] = x
           /\ \A v \in Worker : v # w => at'[v] = at[v]
           /\ Cardinality(Persisting) \in Nat
           /\ x = "persist" /\ at[w] # "persist"
                 => Cardinality(Persisting') = Cardinality(Persisting) + 1
           /\ x # "persist" /\ at[w] = "persist"
                 => Cardinality(Persisting') = Cardinality(Persisting) - 1
           /\ x # "persist" /\ at[w] # "persist"
                 => Cardinality(Persisting') = Cardinality(Persisting)
<1>1. IsFiniteSet(Worker)
  <2>1. Worker = ({"consumer"} \cup {"drain"}) \cup {"batch"}
    BY DEF Worker
  <2>2. IsFiniteSet({"consumer"})
    BY FS_Singleton
  <2>3. IsFiniteSet({"consumer"} \cup {"drain"})
    BY <2>2, FS_AddElement
  <2> QED BY <2>1, <2>3, FS_AddElement
<1>2. IsFiniteSet(Persisting)
  BY <1>1, FS_Subset DEF Persisting
<1>3. at'[w] = x /\ \A v \in Worker : v # w => at'[v] = at[v]
  OBVIOUS
<1>4. x = "persist" /\ at[w] # "persist" => Persisting' = Persisting \cup {w} /\ w \notin Persisting
  BY <1>3 DEF Persisting
<1>5. x # "persist" /\ at[w] = "persist" => Persisting' = Persisting \ {w} /\ w \in Persisting
  BY <1>3 DEF Persisting
<1>6. x # "persist" /\ at[w] # "persist" => Persisting' = Persisting
  BY <1>3 DEF Persisting
<1>7. Cardinality(Persisting) \in Nat
  BY <1>2, FS_CardinalityType
<1>8. at' \in [Worker -> States]
  OBVIOUS
<1>9. /\ w \notin Persisting => Cardinality(Persisting \cup {w}) = Cardinality(Persisting) + 1
      /\ w \in Persisting => Cardinality(Persisting \ {w}) = Cardinality(Persisting) - 1
  BY <1>2, FS_AddElement, FS_RemoveElement
<1> QED BY <1>3, <1>4, <1>5, <1>6, <1>7, <1>8, <1>9

\* A longer history of decisions is a longer type of rows.
LEMMA RowsGrow ==
    ASSUME NEW S, NEW T, S \subseteq T
    PROVE  Seq(S) \subseteq Seq(T)
<1> SUFFICES ASSUME NEW s \in Seq(S) PROVE s \in Seq(T)
  OBVIOUS
<1>1. Len(s) \in Nat /\ DOMAIN s = 1..Len(s) /\ \A i \in 1..Len(s) : s[i] \in S
  BY LenProperties
<1>2. s = [i \in 1..Len(s) |-> s[i]]
  BY <1>1
<1> QED BY <1>1, <1>2

\* Putting one more row at the end of the second half puts it at the end of the whole.
LEMMA ConcatAppend ==
    ASSUME NEW S, NEW s \in Seq(S), NEW t \in Seq(S), NEW x \in S
    PROVE  s \o Append(t, x) = Append(s \o t, x)
<1>1. Append(t, x) = t \o <<x>> /\ s \o t \in Seq(S) /\ <<x>> \in Seq(S)
  BY AppendIsConcat, ConcatProperties
<1>2. Append(s \o t, x) = (s \o t) \o <<x>>
  BY <1>1, AppendIsConcat
<1>3. s \o (t \o <<x>>) = (s \o t) \o <<x>>
  BY <1>1, ConcatAssociative
<1> QED BY <1>1, <1>2, <1>3

\* A new item at the end of a queue.
LEMMA QueueAppend ==
    ASSUME NEW S, NEW s \in Seq(S), NEW x \in S, x \notin ToSet(s), IsInjective(s)
    PROVE  /\ Append(s, x) \in Seq(S) /\ Len(Append(s, x)) = Len(s) + 1
           /\ ToSet(Append(s, x)) = ToSet(s) \cup {x} /\ IsInjective(Append(s, x))
           /\ Append(s, x)[Len(s) + 1] = x
           /\ \A i \in 1..Len(s) : Append(s, x)[i] = s[i]
<1>1. /\ Append(s, x) \in Seq(S) /\ Len(Append(s, x)) = Len(s) + 1
      /\ ToSet(Append(s, x)) = ToSet(s) \cup {x} /\ IsInjective(Append(s, x))
  BY AppendFacts
<1>2. Append(s, x)[Len(s) + 1] = x /\ \A i \in 1..Len(s) : Append(s, x)[i] = s[i]
  BY AppendProperties
<1> QED BY <1>1, <1>2

\* What the consumer has decided, the checkpoint can count at most once per decision.
LEMMA ConsumedFacts ==
    ASSUME TypeOK
    PROVE  /\ IsFiniteSet(consumed) /\ Cardinality(consumed) \in Nat
           /\ Cardinality(consumed) <= MaxDecisions
<1>1. made \in Nat /\ made <= MaxDecisions /\ consumed \subseteq 1..made /\ MaxDecisions \in Nat
  BY BoundsAssumption DEF TypeOK
<1>2. IsFiniteSet(1..made) /\ Cardinality(1..made) = made
  BY <1>1, FS_Interval
<1>3. IsFiniteSet(consumed) /\ Cardinality(consumed) <= made
  BY <1>1, <1>2, FS_Subset
<1>4. Cardinality(consumed) \in Nat
  BY <1>3, FS_CardinalityType
<1> QED BY <1>1, <1>2, <1>3, <1>4

--------------------------------------------------------------------------------
(* The initial state, and the steps outside _process *)

\* A new loop has an empty queue and has counted nothing.
LEMMA InitIInv == Init => IInv
<1> SUFFICES ASSUME Init PROVE IInv
  OBVIOUS
<1> USE DEF Init
<1>1. \A w \in Worker : at[w] = "off" /\ hand[w] = None
  OBVIOUS
<1>2. Persisting = {} /\ Cardinality(Persisting) = 0 /\ Cardinality(consumed) = 0
  BY <1>1, FS_EmptySet DEF Persisting
<1>3. 0 \in 0..MaxVersion
  BY BoundsAssumption, ExportAssumption DEF MaxVersion
<1>4. /\ \A S : <<>> \in Seq(S) /\ <<>> \o <<>> = <<>>
      /\ Len(<<>>) = 0 /\ ToSet(<<>>) = {} /\ IsInjective(<<>>)
  <2>1. <<>> \in Seq({0}) /\ Len(<<>>) = 0 /\ \A S : <<>> \in Seq(S)
    BY EmptySeq
  <2>2. <<>> \o <<>> = <<>>
    BY <2>1, ConcatEmptySeq
  <2> QED BY <2>1, <2>2 DEF ToSet, IsInjective
<1>5. Workers
  BY <1>1 DEF Workers, Busy, Worker
<1>6. InHand = {} /\ Pending = {}
  BY <1>1, <1>4 DEF InHand, Pending, FromQueue, Worker
<1>7. TypeOK
  BY <1>1, <1>3, <1>4, BoundsAssumption, QueueAssumption DEF TypeOK, Rows, None
<1>8. Sentinel
  BY <1>1, <1>4 DEF Sentinel, Worker
<1>9. Apart
  BY <1>4, <1>6 DEF Apart
<1>10. ScoresMatchCheckpoint /\ ExportsPartition
  BY <1>2, <1>4 DEF ScoresMatchCheckpoint, ExportsPartition, Persisting
<1>11. VersionBound
  BY <1>1, <1>2, <1>4, ExportAssumption DEF VersionBound, FromBatches, Busy, Worker
<1> QED BY <1>5, <1>7, <1>8, <1>9, <1>10, <1>11 DEF IInv

\* The background task begins to wait for the queue.
LEMMA StartStep ==
    ASSUME IInv, Start
    PROVE  IInv'
<1>1. /\ at["consumer"] = "off" /\ at' = [at EXCEPT !["consumer"] = "get"] /\ served
      /\ at \in [Worker -> States]
      /\ UNCHANGED <<made, queue, hand, todo, batches, scored, reflected, version, batch, summary,
                     exported, reflectionFile, feedbackFile, outcomes, consumed, dropped,
                     failed, lost, stopper, ends, served>>
  BY DEF Start, IInv, TypeOK, States, checkpoint, files, fate
<1>2. /\ at' \in [Worker -> States] /\ at'["consumer"] = "get"
      /\ \A v \in Worker : v # "consumer" => at'[v] = at[v]
      /\ Cardinality(Persisting') = Cardinality(Persisting)
  BY <1>1, PersistingFacts DEF Worker, States
<1>3. TypeOK'
  BY <1>1, <1>2 DEF IInv, TypeOK, Rows, States
<1>4. Workers'
  BY <1>1, <1>2 DEF IInv, Workers, Busy, Worker
<1>5. Sentinel'
  BY <1>1, <1>2 DEF IInv, Sentinel
<1>6. InHand' = InHand
  BY <1>1, <1>2, <1>4, InHandNow, InHandNext DEF IInv, Busy, Taker
<1>7. Apart'
  BY <1>1, <1>6 DEF IInv, Apart, Pending
<1>8. ScoresMatchCheckpoint' /\ ExportsPartition'
  BY <1>1, <1>2 DEF IInv, ScoresMatchCheckpoint, ExportsPartition, Persisting
<1>9. VersionBound'
  BY <1>1, <1>2 DEF IInv, VersionBound, FromBatches, Worker
<1> QED BY <1>3, <1>4, <1>5, <1>7, <1>8, <1>9 DEF IInv

\* A decision enters the history: it waits at the end of the queue, or is dropped.
LEMMA EnqueueStep ==
    ASSUME IInv, Enqueue
    PROVE  IInv'
<1> DEFINE d == made + 1
<1>1. /\ made \in Nat /\ made < MaxDecisions /\ made' = d /\ stopper = "idle" /\ d \notin 1..made
      /\ 0..made \subseteq 0..made' /\ 1..made \subseteq 1..made' /\ d \in 1..made' /\ d # None
      /\ 1..made' = 1..made \cup {d}
      /\ \/ Room /\ queue' = Append(queue, d) /\ dropped' = dropped
         \/ dropped' = dropped \cup {d} /\ queue' = queue
      /\ UNCHANGED <<at, hand, todo, batches, scored, reflected, version, batch, summary,
                     exported, reflectionFile, feedbackFile, outcomes, consumed,
                     failed, lost, stopper, ends, served>>
  BY BoundsAssumption, SMTT(30) DEF Enqueue, IInv, TypeOK, checkpoint, files, None
<1> HIDE DEF d
<1>2. Rows \subseteq Rows' /\ Seq(0..made) \subseteq Seq(0..made')
  BY <1>1, RowsGrow DEF Rows
<1>3. queue \in Seq(0..made') /\ Len(queue) \in Nat /\ Len(queue) <= QueueMax /\ QueueMax \in Nat
      /\ ToSet(queue) \subseteq 0..made /\ DOMAIN queue = 1..Len(queue)
  <2>1. queue \in Seq(0..made) /\ Len(queue) <= QueueMax
    BY DEF IInv, TypeOK
  <2>2. \A i \in 1..Len(queue) : queue[i] \in 0..made
    BY <2>1, ElementOfSeq
  <2> QED BY <1>2, <2>1, <2>2, LenProperties, QueueAssumption DEF ToSet
<1>4. d \notin ToSet(queue)
  BY <1>1, <1>3 DEF d
<1>5. queue' = Append(queue, d) =>
         /\ queue' \in Seq(0..made') /\ Len(queue') = Len(queue) + 1
         /\ ToSet(queue') = ToSet(queue) \cup {d} /\ IsInjective(queue')
         /\ queue'[Len(queue) + 1] = d /\ \A i \in 1..Len(queue) : queue'[i] = queue[i]
  <2>1. d \in 0..made' /\ IsInjective(queue)
    BY <1>1 DEF IInv, Apart
  <2>2. queue \in Seq(Items') /\ d \in Items'
    BY <1>3, <2>1 DEF Items
  <2>3. /\ Append(queue, d) \in Seq(Items') /\ Len(Append(queue, d)) = Len(queue) + 1
        /\ ToSet(Append(queue, d)) = ToSet(queue) \cup {d} /\ IsInjective(Append(queue, d))
        /\ Append(queue, d)[Len(queue) + 1] = d
        /\ \A i \in 1..Len(queue) : Append(queue, d)[i] = queue[i]
    BY <1>4, <2>1, <2>2, QueueAppend
  <2> QED BY <2>3 DEF Items
<1>6. TypeOK'
  <2>1. queue' \in Seq(0..made') /\ Len(queue') <= QueueMax
    BY <1>1, <1>3, <1>5 DEF Room
  <2>2. /\ hand' \in [Worker -> 0..made'] /\ todo' \in Rows' /\ scored' \in Rows'
        /\ reflected' \in Rows' /\ batch' \in Rows' /\ exported' \in Rows'
    BY <1>1, <1>2 DEF IInv, TypeOK
  <2>3. reflectionFile' \in [1..MaxVersion -> Rows'] /\ feedbackFile' \in [1..MaxVersion -> Rows']
    BY <1>1, <1>2 DEF IInv, TypeOK
  <2>4. /\ outcomes' \subseteq 1..made'
        /\ consumed' \subseteq 1..made' /\ dropped' \subseteq 1..made'
        /\ failed' \subseteq 1..made' /\ lost' \subseteq 1..made'
    BY <1>1 DEF IInv, TypeOK
  <2>5. made' \in 0..MaxDecisions
    BY <1>1, BoundsAssumption DEF d
  <2> QED BY <1>1, <2>1, <2>2, <2>3, <2>4, <2>5 DEF IInv, TypeOK
<1>7. Workers'
  BY <1>1 DEF IInv, Workers
<1>8. Sentinel'
  <2>1. \A i \in 1..Len(queue) : queue[i] # None
    BY <1>1 DEF IInv, Sentinel
  <2>2. \A i \in 1..Len(queue') : queue'[i] # None
    BY <1>1, <1>3, <1>5, <2>1, SMTT(30)
  <2>3. at["consumer"] # "done"
    BY <1>1 DEF IInv, Sentinel
  <2> QED BY <1>1, <2>2, <2>3 DEF Sentinel
<1>9. InHand' = InHand
  BY <1>1 DEF InHand
<1>10. Apart'
  <2>1. InHand \subseteq 1..made
    BY InHandNow DEF IInv, Workers, FromQueue, Worker
  <2>2. d \notin Pending \cup consumed \cup dropped \cup failed \cup lost /\ d \notin InHand
    BY <1>1, <2>1 DEF IInv, Apart
  <2>3. CASE queue' = Append(queue, d) /\ dropped' = dropped
    <3>1. Pending' = Pending \cup {d}
      BY <1>1, <1>5, <1>9, <2>3 DEF Pending
    <3> QED BY <1>1, <1>5, <1>9, <2>2, <2>3, <3>1 DEF IInv, Apart
  <2>4. CASE dropped' = dropped \cup {d} /\ queue' = queue
    <3>1. Pending' = Pending
      BY <1>9, <2>4 DEF Pending
    <3> QED BY <1>1, <1>9, <2>2, <2>4, <3>1 DEF IInv, Apart
  <2> QED BY <1>1, <2>3, <2>4
<1>11. ScoresMatchCheckpoint' /\ ExportsPartition' /\ VersionBound'
  BY <1>1 DEF IInv, ScoresMatchCheckpoint, ExportsPartition, VersionBound, FromBatches
<1> QED BY <1>6, <1>7, <1>8, <1>10, <1>11 DEF IInv

\* What is taken from the queue was its first item, and is not in it any more.
LEMMA TakeFacts ==
    ASSUME IInv, queue # <<>>
    PROVE  /\ Tail(queue) \in Seq(Items) /\ Len(Tail(queue)) = Len(queue) - 1
           /\ Len(queue) \in Nat \ {0} /\ Head(queue) \in 0..made /\ Head(queue) = queue[1]
           /\ \A i \in 1..(Len(queue) - 1) : Tail(queue)[i] = queue[i + 1]
           /\ ToSet(queue) = ToSet(Tail(queue)) \cup {Head(queue)}
           /\ IsInjective(Tail(queue)) /\ Head(queue) \notin ToSet(Tail(queue))
<1>1. queue \in Seq(Items) /\ IsInjective(queue)
  BY DEF IInv, TypeOK, Items, Apart
<1>2. Len(queue) \in Nat \ {0}
  BY <1>1, LenProperties, EmptySeq
<1>3. Head(queue) \in Items
  BY <1>1, TailFacts
<1> QED BY <1>1, <1>2, <1>3, TailFacts DEF Items

\* A worker takes a decision from the queue into its hand.
LEMMA ReceiveStep ==
    ASSUME IInv, NEW w \in FromQueue, at[w] = "get", queue # <<>>, Head(queue) # None,
           queue' = Tail(queue), Receive(w, Head(queue)),
           UNCHANGED <<made, todo, batches, checkpoint, files, outcomes, fate, stopper,
                       ends, served>>
    PROVE  IInv'
<1> PICK d : d = Head(queue)
  OBVIOUS
<1>1. /\ at' = [at EXCEPT ![w] = "audit"] /\ hand' = [hand EXCEPT ![w] = d]
      /\ w \in Worker /\ w # "batch" /\ at \in [Worker -> States] /\ hand \in [Worker -> 0..made]
      /\ UNCHANGED <<made, todo, batches, scored, reflected, version, batch, summary,
                     exported, reflectionFile, feedbackFile, outcomes, consumed,
                     dropped, failed, lost, stopper, ends, served>>
  BY DEF Receive, FromQueue, Worker, IInv, TypeOK, States, checkpoint, files, fate
<1>2. /\ at' \in [Worker -> States] /\ at'[w] = "audit"
      /\ \A v \in Worker : v # w => at'[v] = at[v]
      /\ Cardinality(Persisting') = Cardinality(Persisting)
  BY <1>1, PersistingFacts DEF States
<1>3. /\ queue' \in Seq(Items) /\ Len(queue') = Len(queue) - 1
      /\ Len(queue) \in Nat \ {0} /\ d \in 0..made /\ d = queue[1] /\ d # None
      /\ \A i \in 1..(Len(queue) - 1) : queue'[i] = queue[i + 1]
      /\ ToSet(queue) = ToSet(queue') \cup {d} /\ IsInjective(queue') /\ d \notin ToSet(queue')
  BY TakeFacts
<1>4. d \in 1..made /\ made \in Nat
  BY <1>3, BoundsAssumption DEF None, IInv, TypeOK
<1>5. hand' \in [Worker -> 0..made] /\ hand'[w] = d /\ \A v \in Worker : v # w => hand'[v] = hand[v]
  BY <1>1, <1>3
<1>6. TypeOK'
  <2>1. queue' \in Seq(0..made') /\ Len(queue') <= QueueMax
    BY <1>1, <1>3, QueueAssumption DEF Items, IInv, TypeOK
  <2> QED BY <1>1, <1>2, <1>5, <2>1 DEF IInv, TypeOK, Rows, States
<1>7. Workers'
  <2>1. w = Taker
    BY <1>1 DEF IInv, Workers, FromQueue, Taker
  <2>2. IF served THEN at'["drain"] = "off" ELSE at'["consumer"] = "off"
    BY <1>1, <1>2, <2>1 DEF IInv, Workers, Taker, Worker
  <2> QED BY <1>1, <1>2, <1>4, <1>5, <2>2 DEF IInv, Workers, Worker
<1>8. Sentinel'
  <2>1. \A i \in 1..Len(queue') : i + 1 \in 1..Len(queue) /\ queue'[i] = queue[i + 1]
    BY <1>3
  <2>2. ASSUME NEW i \in 1..Len(queue'), queue'[i] = None
        PROVE  i = Len(queue')
    <3>1. queue[i + 1] = None /\ i + 1 \in 1..Len(queue)
      BY <2>1, <2>2
    <3>2. i + 1 = Len(queue)
      BY <3>1 DEF IInv, Sentinel
    <3>3. Len(queue') = Len(queue) - 1 /\ Len(queue) \in Nat /\ i \in Int
      BY <1>3
    <3> QED BY <3>2, <3>3
  <2>3. stopper \in {"idle", "put"} => \A i \in 1..Len(queue') : queue'[i] # None
    BY <2>1 DEF IInv, Sentinel
  <2>4. at["consumer"] # "done" /\ at'["consumer"] # "done"
    BY <1>1, <1>2, <1>3 DEF IInv, Sentinel, Worker
  <2>5. stopper = "join" => queue' # <<>> /\ queue'[Len(queue')] = None
    <3> SUFFICES ASSUME stopper = "join" PROVE queue' # <<>> /\ queue'[Len(queue')] = None
      OBVIOUS
    <3>1. queue[Len(queue)] = None
      BY <2>4 DEF IInv, Sentinel
    <3>2. Len(queue) # 1
      BY <1>3, <3>1
    <3>3. Len(queue) - 1 \in 1..Len(queue') /\ (Len(queue) - 1) + 1 = Len(queue)
      BY <1>3, <3>2
    <3>4. queue' # <<>>
      <4>1. Len(queue') # 0 /\ Len(<<>>) = 0
        BY <3>3, EmptySeq
      <4> QED BY <4>1
    <3> QED BY <1>3, <2>1, <3>1, <3>3, <3>4
  <2>6. at'["consumer"] = "off" => at["consumer"] = "off"
    BY <1>1, <1>2 DEF Worker
  <2> QED BY <1>1, <2>2, <2>3, <2>4, <2>5, <2>6 DEF IInv, Sentinel
<1>9. InHand = {} /\ InHand' = {d}
  <2>1. w = Taker
    BY <1>1 DEF IInv, Workers, FromQueue, Taker
  <2> QED BY <1>2, <1>5, <1>7, <2>1, InHandNow, InHandNext DEF IInv, Busy
<1>10. Pending' = Pending
  BY <1>3, <1>9 DEF Pending
<1>11. Apart'
  BY <1>1, <1>3, <1>9, <1>10 DEF IInv, Apart
<1>12. ScoresMatchCheckpoint' /\ ExportsPartition'
  BY <1>1, <1>2 DEF IInv, ScoresMatchCheckpoint, ExportsPartition, Persisting
<1>13. VersionBound'
  BY <1>1, <1>2 DEF IInv, VersionBound, FromBatches, Worker
<1> QED BY <1>6, <1>7, <1>8, <1>11, <1>12, <1>13 DEF IInv

\* The consumer takes the item of stop() and ends; nothing is behind it.
LEMMA ConsumerEndsStep ==
    ASSUME IInv, at["consumer"] = "get", queue # <<>>, Head(queue) = None,
           queue' = Tail(queue), at' = [at EXCEPT !["consumer"] = "done"],
           UNCHANGED <<made, hand, todo, batches, checkpoint, files, outcomes, fate, stopper,
                       ends, served>>
    PROVE  IInv'
<1>1. /\ "consumer" \in Worker /\ at \in [Worker -> States]
      /\ UNCHANGED <<made, hand, todo, batches, scored, reflected, version, batch, summary,
                     exported, reflectionFile, feedbackFile, outcomes, consumed,
                     dropped, failed, lost, stopper, ends, served>>
  BY DEF Worker, IInv, TypeOK, States, checkpoint, files, fate
<1>2. /\ at' \in [Worker -> States] /\ at'["consumer"] = "done"
      /\ \A v \in Worker : v # "consumer" => at'[v] = at[v]
      /\ Cardinality(Persisting') = Cardinality(Persisting)
  BY <1>1, PersistingFacts DEF States
<1>3. /\ queue' \in Seq(Items) /\ Len(queue') = Len(queue) - 1
      /\ Len(queue) \in Nat \ {0} /\ None = queue[1]
      /\ ToSet(queue) = ToSet(queue') \cup {None} /\ IsInjective(queue') /\ None \notin ToSet(queue')
  BY TakeFacts
<1>4. queue' = <<>> /\ stopper = "join"
  <2>1. 1 \in 1..Len(queue) /\ queue[1] = None
    BY <1>3
  <2>2. 1 = Len(queue)
    BY <2>1 DEF IInv, Sentinel
  <2>3. queue' = <<>>
    BY <1>3, <2>2, EmptySeq
  <2>4. stopper \in {"idle", "put", "join", "stopped"}
    BY DEF IInv, TypeOK
  <2>5. stopper \notin {"idle", "put"} /\ stopper # "stopped"
    BY <2>1 DEF IInv, Sentinel
  <2> QED BY <2>3, <2>4, <2>5
<1>5. served
  BY DEF IInv, Workers
<1>6. TypeOK'
  <2>1. queue' \in Seq(0..made') /\ Len(queue') <= QueueMax
    BY <1>1, <1>3, QueueAssumption DEF Items, IInv, TypeOK
  <2> QED BY <1>1, <1>2, <2>1 DEF IInv, TypeOK, Rows, States
<1>7. Workers'
  BY <1>1, <1>2, <1>5 DEF IInv, Workers, Busy, Worker
<1>8. Sentinel'
  <2>1. Len(queue') = 0
    BY <1>4, EmptySeq
  <2>2. 1..Len(queue') = {}
    <3>1. 1..0 = {}
      OBVIOUS
    <3> QED BY <2>1, <3>1
  <2>3. stopper' = "join"
    BY <1>1, <1>4
  <2> QED BY <1>2, <1>4, <2>2, <2>3 DEF Sentinel
<1>9. InHand = {} /\ InHand' = {}
  BY <1>2, <1>5, <1>7, InHandNow, InHandNext DEF IInv, Busy, Taker
<1>10. Pending' = Pending
  BY <1>3, <1>9 DEF Pending
<1>11. Apart'
  BY <1>1, <1>3, <1>9, <1>10 DEF IInv, Apart
<1>12. ScoresMatchCheckpoint' /\ ExportsPartition'
  BY <1>1, <1>2 DEF IInv, ScoresMatchCheckpoint, ExportsPartition, Persisting
<1>13. VersionBound'
  BY <1>1, <1>2 DEF IInv, VersionBound, FromBatches, Worker
<1> QED BY <1>6, <1>7, <1>8, <1>11, <1>12, <1>13 DEF IInv

\* A worker other than the consumer begins, or ends having nothing in hand.
LEMMA BetweenStep ==
    ASSUME IInv, NEW w \in {"drain", "batch"}, NEW x \in {"off", "get"}, at[w] \in {"off", "get"},
           w = "drain" => ~served, w = "batch" /\ x = "off" => todo' = <<>>,
           at' = [at EXCEPT ![w] = x], todo' \in Rows, batches' \in 0..MaxBatches,
           FromBatches <= FromBatches', FromBatches \in Int, FromBatches' \in Int,
           w = "drain" => UNCHANGED todo,
           UNCHANGED <<made, queue, hand, checkpoint, files, outcomes, fate, stopper,
                       ends, served>>
    PROVE  IInv'
<1>1. /\ w \in Worker /\ at \in [Worker -> States] /\ x \in States /\ w # "consumer"
      /\ UNCHANGED <<made, queue, hand, scored, reflected, version, batch, summary,
                     exported, reflectionFile, feedbackFile, outcomes, consumed,
                     dropped, failed, lost, stopper, ends, served>>
  BY DEF Worker, IInv, TypeOK, States, checkpoint, files, fate
<1>2. /\ at' \in [Worker -> States] /\ at'[w] = x
      /\ \A v \in Worker : v # w => at'[v] = at[v]
      /\ Cardinality(Persisting') = Cardinality(Persisting)
  BY <1>1, PersistingFacts
<1>3. TypeOK'
  BY <1>1, <1>2 DEF IInv, TypeOK, Rows, States
<1>4. Workers'
  <2>1. IF served THEN at'["drain"] = "off" ELSE at'["consumer"] = "off"
    BY <1>1, <1>2 DEF IInv, Workers, Worker
  <2>2. at'["batch"] = "off" => todo' = <<>>
    BY <1>1, <1>2 DEF IInv, Workers, Worker
  <2> QED BY <1>1, <1>2, <2>1, <2>2 DEF IInv, Workers, Busy
<1>5. Sentinel'
  BY <1>1, <1>2 DEF IInv, Sentinel, Worker
<1>6. InHand' = InHand
  <2>1. \A v \in FromQueue : at[v] \in Busy <=> at'[v] \in Busy
    BY <1>1, <1>2 DEF Busy, FromQueue, Worker
  <2> QED BY <1>1, <1>4, <2>1, InHandNow, InHandNext DEF IInv
<1>7. Apart'
  BY <1>1, <1>6 DEF IInv, Apart, Pending
<1>8. ScoresMatchCheckpoint' /\ ExportsPartition'
  BY <1>1, <1>2 DEF IInv, ScoresMatchCheckpoint, ExportsPartition, Persisting
<1>9. VersionBound'
  <2>1. version \in Nat /\ Cardinality(consumed) \in Nat
    BY ConsumedFacts, BoundsAssumption, ExportAssumption DEF IInv, TypeOK, MaxVersion
  <2> QED BY <1>1, <2>1 DEF IInv, VersionBound
<1> QED BY <1>3, <1>4, <1>5, <1>7, <1>8, <1>9 DEF IInv

\* The two places where workers that are not served take a decision, or stop to.
LEMMA GetsStep ==
    ASSUME IInv, ConsumerGets \/ DrainCalled \/ DrainGets
    PROVE  IInv'
<1> USE DEF FromQueue
<1>1. CASE ConsumerGets
  <2>1. CASE Head(queue) = None
    BY <1>1, <2>1, ConsumerEndsStep DEF ConsumerGets
  <2>2. CASE Head(queue) # None
    BY <1>1, <2>2, ReceiveStep DEF ConsumerGets
  <2> QED BY <2>1, <2>2
<1>2. /\ todo \in Rows /\ batches \in 0..MaxBatches /\ batches * BatchLimit \in Int
      /\ Len(todo) \in Nat
  <2>1. todo \in Rows /\ batches \in 0..MaxBatches
    BY DEF IInv, TypeOK
  <2> QED BY <2>1, LenProperties, BoundsAssumption, ExportAssumption DEF Rows
<1>3. FromBatches \in Int
  BY <1>2 DEF FromBatches
<1>4. ASSUME NEW x \in {"off", "get"}, at["drain"] \in {"off", "get"}, ~served,
             at' = [at EXCEPT !["drain"] = x],
             UNCHANGED <<made, queue, hand, todo, batches, checkpoint, files, outcomes, fate,
                         stopper, ends, served>>
      PROVE  IInv'
  <2>1. at'["batch"] = at["batch"]
    BY <1>4 DEF IInv, TypeOK, Worker
  <2>2. FromBatches' = FromBatches
    BY <1>4, <2>1 DEF FromBatches
  <2>3. /\ todo' \in Rows /\ batches' \in 0..MaxBatches /\ UNCHANGED todo
        /\ FromBatches <= FromBatches' /\ FromBatches' \in Int
        /\ UNCHANGED <<made, queue, hand, checkpoint, files, outcomes, fate, stopper,
                       ends, served>>
    BY <1>2, <1>3, <1>4, <2>2
  <2> QED BY <1>3, <1>4, <2>3, BetweenStep
<1>5. CASE DrainCalled
  BY <1>4, <1>5 DEF DrainCalled
<1>6. CASE DrainGets
  <2>1. ~served /\ stopper = "idle"
    <3>1. ~served
      BY <1>6 DEF DrainGets, IInv, Workers
    <3>2. at["consumer"] = "off"
      BY <3>1 DEF IInv, Workers
    <3> QED BY <3>1, <3>2 DEF IInv, Sentinel
  <2>2. CASE queue = <<>>
    BY <1>4, <1>6, <2>1, <2>2 DEF DrainGets
  <2>3. CASE queue # <<>>
    <3>1. Head(queue) = queue[1] /\ 1 \in 1..Len(queue)
      BY <2>3, TakeFacts
    <3>2. Head(queue) # None
      BY <2>1, <3>1 DEF IInv, Sentinel
    <3> QED BY <1>6, <2>3, <3>2, ReceiveStep DEF DrainGets
  <2> QED BY <2>2, <2>3
<1> QED BY <1>1, <1>5, <1>6

\* A call of run_batch_from_store reads no more rows than its limit.
LEMMA BatchCalledStep ==
    ASSUME IInv, BatchCalled
    PROVE  IInv'
<1> DEFINE n == IF made < BatchLimit THEN made ELSE BatchLimit
<1>1. /\ made \in Nat \ {0} /\ n \in Nat /\ n <= made /\ n <= BatchLimit
      /\ todo' = [i \in 1..n |-> made + 1 - i] /\ at["batch"] = "off"
      /\ batches' = batches + 1 /\ batches < MaxBatches /\ batches \in Nat
      /\ at' = [at EXCEPT !["batch"] = "get"] /\ at \in [Worker -> States]
      /\ UNCHANGED <<made, queue, hand, checkpoint, files, outcomes, fate, stopper,
                     ends, served>>
  BY BoundsAssumption, ExportAssumption DEF BatchCalled, IInv, TypeOK, States
<1> HIDE DEF n
<1>2. \A i \in 1..n : made + 1 - i \in 1..made
  BY <1>1
<1>3. todo' \in Seq(1..made) /\ Len(todo') = n
  BY <1>1, <1>2
<1>4. Len(todo) = 0
  BY <1>1, EmptySeq DEF IInv, Workers
<1>5. /\ FromBatches = batches * BatchLimit
      /\ FromBatches' = (batches + 1) * BatchLimit - n
  BY <1>1, <1>3, <1>4, ExportAssumption DEF FromBatches, Busy, Worker
<1>6. (batches + 1) * BatchLimit = batches * BatchLimit + BatchLimit
      /\ batches * BatchLimit \in Nat /\ BatchLimit \in Nat
  BY <1>1, ExportAssumption
<1>7. FromBatches \in Int /\ FromBatches' \in Int /\ FromBatches <= FromBatches'
  BY <1>1, <1>5, <1>6
<1>8. batches' \in 0..MaxBatches
  BY <1>1, BoundsAssumption
<1> QED BY <1>1, <1>3, <1>7, <1>8, BetweenStep DEF Rows

\* A batch takes its next row, or is done.
LEMMA BatchGetsStep ==
    ASSUME IInv, BatchGets
    PROVE  IInv'
<1>1. /\ todo \in Rows /\ batches \in 0..MaxBatches /\ batches * BatchLimit \in Int
      /\ Len(todo) \in Nat /\ at["batch"] = "get" /\ at \in [Worker -> States]
  <2>1. todo \in Rows /\ batches \in 0..MaxBatches
    BY DEF IInv, TypeOK
  <2> QED BY <2>1, LenProperties, BoundsAssumption, ExportAssumption DEF Rows, BatchGets, IInv, TypeOK, States
<1>2. CASE todo = <<>>
  <2>1. /\ at' = [at EXCEPT !["batch"] = "off"] /\ todo' = todo /\ batches' = batches
        /\ UNCHANGED <<made, queue, hand, checkpoint, files, outcomes, fate, stopper,
                       ends, served>>
    BY <1>2 DEF BatchGets
  <2>2. at'["batch"] = "off"
    BY <1>1, <2>1 DEF Worker
  <2>3. FromBatches \in Int /\ FromBatches' = FromBatches
    BY <1>1, <2>1, <2>2 DEF FromBatches, Busy
  <2> QED BY <1>1, <1>2, <2>1, <2>3, BetweenStep
<1>3. CASE todo # <<>>
  <2> PICK d : d = Head(todo)
    OBVIOUS
  <2>1. /\ at' = [at EXCEPT !["batch"] = "audit"] /\ hand' = [hand EXCEPT !["batch"] = d]
        /\ todo' = Tail(todo) /\ hand \in [Worker -> 0..made]
        /\ UNCHANGED <<made, queue, batches, scored, reflected, version, batch, summary,
                       exported, reflectionFile, feedbackFile, outcomes, consumed,
                       dropped, failed, lost, stopper, ends, served>>
    BY <1>3 DEF BatchGets, Receive, checkpoint, files, fate, IInv, TypeOK
  <2>2. /\ at' \in [Worker -> States] /\ at'["batch"] = "audit"
        /\ \A v \in Worker : v # "batch" => at'[v] = at[v]
        /\ Cardinality(Persisting') = Cardinality(Persisting)
    BY <1>1, <2>1, PersistingFacts DEF States, Worker
  <2>3. todo' \in Rows /\ d \in 1..made /\ Len(todo') = Len(todo) - 1
    BY <1>1, <1>3, <2>1, HeadTailProperties DEF Rows
  <2>4. hand' \in [Worker -> 0..made] /\ hand'["batch"] = d
        /\ \A v \in Worker : v # "batch" => hand'[v] = hand[v]
    BY <2>1, <2>3 DEF Worker
  <2>5. TypeOK'
    BY <2>1, <2>2, <2>3, <2>4 DEF IInv, TypeOK, Rows, States
  <2>6. Workers'
    BY <1>1, <2>1, <2>2, <2>3, <2>4 DEF IInv, Workers, Worker
  <2>7. Sentinel'
    BY <2>1, <2>2 DEF IInv, Sentinel, Worker
  <2>8. InHand' = InHand
    BY <2>1, <2>2, <2>4, <2>6, InHandNow, InHandNext DEF IInv, FromQueue, Worker
  <2>9. Apart'
    BY <2>1, <2>8 DEF IInv, Apart, Pending
  <2>10. ScoresMatchCheckpoint' /\ ExportsPartition'
    BY <2>1, <2>2 DEF IInv, ScoresMatchCheckpoint, ExportsPartition, Persisting
  <2>11. FromBatches' = FromBatches
    BY <1>1, <2>1, <2>2, <2>3 DEF FromBatches, Busy
  <2>12. VersionBound'
    BY <2>1, <2>11 DEF IInv, VersionBound
  <2> QED BY <2>5, <2>6, <2>7, <2>9, <2>10, <2>12 DEF IInv
<1> QED BY <1>2, <1>3

--------------------------------------------------------------------------------
(* _process *)

\* The audit appends its score: from then on the worker persists.
LEMMA AuditScoresStep ==
    ASSUME IInv, NEW w \in Worker, AuditScores(w)
    PROVE  IInv'
<1>1. /\ at[w] = "audit" /\ at \in [Worker -> States] /\ at' = [at EXCEPT ![w] = "persist"]
      /\ scored' = Append(scored, hand[w])
      /\ UNCHANGED <<made, queue, hand, todo, batches, reflected, version, batch, summary,
                     exported, reflectionFile, feedbackFile, outcomes, consumed,
                     dropped, failed, lost, stopper, ends, served>>
  BY DEF AuditScores, IInv, TypeOK, States, files, fate
<1>2. /\ at' \in [Worker -> States] /\ at'[w] = "persist"
      /\ \A v \in Worker : v # w => at'[v] = at[v]
      /\ Cardinality(Persisting') = Cardinality(Persisting) + 1
      /\ Cardinality(Persisting) \in Nat
  BY <1>1, PersistingFacts DEF States
<1>3. hand[w] \in 1..made /\ scored \in Seq(1..made)
  BY <1>1 DEF IInv, Workers, Busy, TypeOK, Rows
<1>4. scored' \in Seq(1..made) /\ Len(scored') = Len(scored) + 1
  BY <1>1, <1>3
<1>5. TypeOK'
  BY <1>1, <1>2, <1>4 DEF IInv, TypeOK, Rows, States
<1>6. Workers'
  BY <1>1, <1>2 DEF IInv, Workers, Busy, Worker
<1>7. Sentinel'
  BY <1>1, <1>2 DEF IInv, Sentinel, Worker
<1>8. InHand' = InHand
  <2>1. \A v \in FromQueue : at[v] \in Busy <=> at'[v] \in Busy
    BY <1>1, <1>2 DEF Busy, FromQueue, Worker
  <2> QED BY <1>1, <1>6, <2>1, InHandNow, InHandNext DEF IInv
<1>9. Apart'
  BY <1>1, <1>8 DEF IInv, Apart, Pending
<1>10. ScoresMatchCheckpoint'
  <2>1. version \in Nat
    BY BoundsAssumption, ExportAssumption DEF IInv, TypeOK, MaxVersion
  <2> QED BY <1>1, <1>2, <1>4, <2>1 DEF IInv, ScoresMatchCheckpoint, Persisting
<1>11. ExportsPartition'
  BY <1>1 DEF IInv, ExportsPartition
<1>12. VersionBound'
  <2>1. at[w] \in Busy /\ at'[w] \in Busy
    BY <1>1, <1>2 DEF Busy
  <2>2. at'["batch"] \in Busy <=> at["batch"] \in Busy
    BY <1>2, <2>1 DEF Worker
  <2> QED BY <1>1, <2>2 DEF IInv, VersionBound, FromBatches
<1> QED BY <1>5, <1>6, <1>7, <1>9, <1>10, <1>11, <1>12 DEF IInv

\* A worker that is through with its decision, or gives it up, has it no more.
LEMMA LeaveFacts ==
    ASSUME IInv, NEW w \in Worker, at[w] \in Busy, NEW x \in {"off", "get"},
           at' = [at EXCEPT ![w] = x], x = "off" => w # "consumer",
           todo' = IF w = "batch" /\ x = "off" THEN <<>> ELSE todo,
           UNCHANGED <<made, queue, hand, batches, stopper, served>>
    PROVE  /\ at' \in [Worker -> States] /\ todo' \in Rows /\ hand[w] \in 1..made
           /\ Workers' /\ Sentinel'
           /\ w \in FromQueue => /\ hand[w] \in Pending /\ InHand' = {}
                                 /\ Pending' = Pending \ {hand[w]}
           /\ w \notin FromQueue => Pending' = Pending /\ InHand' = InHand
           /\ FromBatches \in Int /\ FromBatches' \in Int
           /\ FromBatches' >= FromBatches + (IF w = "batch" THEN 1 ELSE 0)
           /\ Cardinality(Persisting) \in Nat
           /\ Cardinality(Persisting')
                 = IF at[w] = "persist" THEN Cardinality(Persisting) - 1 ELSE Cardinality(Persisting)
<1>1. at \in [Worker -> States] /\ x \in States /\ x # "persist"
  BY DEF IInv, TypeOK, States
<1>2. /\ at' \in [Worker -> States] /\ at'[w] = x
      /\ \A v \in Worker : v # w => at'[v] = at[v]
      /\ Cardinality(Persisting) \in Nat
      /\ Cardinality(Persisting')
            = IF at[w] = "persist" THEN Cardinality(Persisting) - 1 ELSE Cardinality(Persisting)
  BY <1>1, PersistingFacts
<1>3. todo \in Rows /\ todo' \in Rows /\ hand[w] \in 1..made
  <2>1. todo \in Rows /\ <<>> \in Rows
    BY EmptySeq DEF IInv, TypeOK, Rows
  <2> QED BY <2>1 DEF IInv, Workers
<1>4. Workers'
  <2>1. \A v \in Worker : at'[v] \in Busy => hand'[v] \in 1..made'
    BY <1>2 DEF IInv, Workers, Busy
  <2>2. IF served THEN at'["drain"] = "off" ELSE at'["consumer"] = "off"
    BY <1>2 DEF IInv, Workers, Worker, Busy
  <2>3. at'["batch"] = "off" => todo' = <<>>
    BY <1>2 DEF IInv, Workers, Worker
  <2> QED BY <2>1, <2>2, <2>3 DEF IInv, Workers
<1>5. Sentinel'
  BY <1>2 DEF IInv, Sentinel, Worker, Busy
<1>6. ASSUME w \in FromQueue
      PROVE  hand[w] \in Pending /\ InHand' = {} /\ Pending' = Pending \ {hand[w]}
  <2>1. w = Taker /\ InHand = {hand[w]}
    BY <1>6, InHandNow DEF IInv
  <2>2. InHand' = {}
    BY <1>2, <1>4, <2>1, InHandNext DEF Busy
  <2>3. hand[w] \notin ToSet(queue)
    BY <2>1 DEF IInv, Apart
  <2> QED BY <2>1, <2>2, <2>3 DEF Pending
<1>7. ASSUME w \notin FromQueue
      PROVE  Pending' = Pending /\ InHand' = InHand
  <2>1. Taker \in FromQueue /\ Taker \in Worker /\ Taker # w
    BY <1>7, InHandNow DEF IInv, FromQueue, Worker
  <2>2. at'[Taker] = at[Taker] /\ hand' = hand
    BY <1>2, <2>1
  <2>3. InHand' = InHand
    BY <1>4, <2>2, InHandNow, InHandNext DEF IInv
  <2> QED BY <2>3 DEF Pending
<1>8. /\ FromBatches \in Int /\ FromBatches' \in Int
      /\ FromBatches' >= FromBatches + (IF w = "batch" THEN 1 ELSE 0)
  <2>1. batches * BatchLimit \in Int /\ Len(todo) \in Nat /\ Len(todo') \in Nat /\ Len(<<>>) = 0
    BY <1>3, LenProperties, EmptySeq, BoundsAssumption, ExportAssumption DEF Rows, IInv, TypeOK
  <2>2. CASE w = "batch"
    <3>1. at["batch"] \in Busy /\ at'["batch"] \notin Busy
      BY <1>2, <2>2 DEF Busy
    <3>2. Len(todo') <= Len(todo)
      BY <2>1
    <3> QED BY <2>1, <2>2, <3>1, <3>2 DEF FromBatches
  <2>3. CASE w # "batch"
    <3>1. at'["batch"] = at["batch"] /\ todo' = todo
      BY <1>2, <2>3 DEF Worker
    <3> QED BY <2>1, <2>3, <3>1 DEF FromBatches
  <2> QED BY <2>2, <2>3
<1> QED BY <1>2, <1>3, <1>4, <1>5, <1>6, <1>7, <1>8

\* A failed audit is counted, and leaves no score behind.
LEMMA AuditRaisesStep ==
    ASSUME IInv, NEW w \in Worker, AuditRaises(w)
    PROVE  IInv'
<1> DEFINE x == IF w = "consumer" THEN "get" ELSE "off"
<1>1. /\ at[w] = "audit" /\ at[w] \in Busy /\ x \in {"off", "get"}
      /\ x = "off" => w # "consumer"
      /\ at' = [at EXCEPT ![w] = x]
      /\ todo' = IF w = "batch" /\ x = "off" THEN <<>> ELSE todo
      /\ failed' = IF w \in FromQueue THEN failed \cup {hand[w]} ELSE failed
      /\ UNCHANGED <<made, queue, hand, batches, scored, reflected, version, batch, summary,
                     exported, reflectionFile, feedbackFile, outcomes, consumed,
                     dropped, lost, stopper, ends, served>>
  BY DEF AuditRaises, AfterRaise, Busy, checkpoint, files
<1> HIDE DEF x
<1>2. /\ at' \in [Worker -> States] /\ todo' \in Rows /\ hand[w] \in 1..made
      /\ Workers' /\ Sentinel'
      /\ w \in FromQueue => /\ hand[w] \in Pending /\ InHand' = {}
                            /\ Pending' = Pending \ {hand[w]}
      /\ w \notin FromQueue => Pending' = Pending /\ InHand' = InHand
      /\ FromBatches \in Int /\ FromBatches' \in Int
      /\ FromBatches' >= FromBatches + (IF w = "batch" THEN 1 ELSE 0)
      /\ Cardinality(Persisting) \in Nat
      /\ Cardinality(Persisting')
            = IF at[w] = "persist" THEN Cardinality(Persisting) - 1 ELSE Cardinality(Persisting)
  BY <1>1, LeaveFacts
<1>3. TypeOK'
  BY <1>1, <1>2 DEF IInv, TypeOK, Rows, States
<1>4. Apart'
  BY <1>1, <1>2 DEF IInv, Apart
<1>5. ScoresMatchCheckpoint' /\ ExportsPartition'
  <2>1. Cardinality(Persisting') = Cardinality(Persisting)
    BY <1>1, <1>2
  <2> QED BY <1>1, <2>1 DEF IInv, ScoresMatchCheckpoint, ExportsPartition, Persisting
<1>6. VersionBound'
  <2>1. version \in Nat /\ Cardinality(consumed) \in Nat
    BY ConsumedFacts, BoundsAssumption, ExportAssumption DEF IInv, TypeOK, MaxVersion
  <2>2. FromBatches' >= FromBatches
    BY <1>2
  <2> QED BY <1>1, <1>2, <2>1, <2>2 DEF IInv, VersionBound
<1> QED BY <1>2, <1>3, <1>4, <1>5, <1>6 DEF IInv

\* The checkpoint counts the decision of w, which goes on to x.
Applies(w, x) ==
    /\ at[w] = "persist" /\ Apply(w) /\ Persist(hand[w])
    /\ at' = [at EXCEPT ![w] = x]
    /\ todo' = IF w = "batch" /\ x = "off" THEN <<>> ELSE todo
    /\ UNCHANGED <<made, queue, hand, batches, scored, dropped, failed, lost, stopper,
                   ends, served>>

\* The version stays within what was made and what batches were allowed to read.
LEMMA VersionFacts ==
    ASSUME IInv, NEW w \in Worker, NEW x \in {"off", "get"}, x = "off" => w # "consumer",
           Applies(w, x)
    PROVE  /\ VersionBound' /\ version' = version + 1 /\ version' \in 1..MaxVersion
           /\ consumed' \subseteq 1..made
<1>1. /\ at[w] = "persist" /\ at[w] \in Busy /\ version' = version + 1
      /\ consumed' = IF w \in FromQueue THEN consumed \cup {hand[w]} ELSE consumed
      /\ at' = [at EXCEPT ![w] = x]
      /\ todo' = IF w = "batch" /\ x = "off" THEN <<>> ELSE todo
      /\ UNCHANGED <<made, queue, hand, batches, stopper, served>>
  BY DEF Applies, Apply, Busy
<1>2. /\ todo' \in Rows /\ hand[w] \in 1..made
      /\ w \in FromQueue => hand[w] \in Pending
      /\ FromBatches \in Int /\ FromBatches' \in Int
      /\ FromBatches' >= FromBatches + (IF w = "batch" THEN 1 ELSE 0)
  BY <1>1, LeaveFacts
<1>3. version \in Nat /\ made \in Nat /\ made <= MaxDecisions /\ consumed \subseteq 1..made
  BY BoundsAssumption, ExportAssumption DEF IInv, TypeOK, MaxVersion
<1>4. IsFiniteSet(consumed) /\ Cardinality(consumed) \in Nat
  BY ConsumedFacts DEF IInv
<1>5. w \in FromQueue => Cardinality(consumed') = Cardinality(consumed) + 1
  <2>1. w \in FromQueue => hand[w] \notin consumed
    BY <1>2 DEF IInv, Apart
  <2> QED BY <1>1, <1>4, <2>1, FS_AddElement
<1>6. w \notin FromQueue => w = "batch" /\ consumed' = consumed
  BY <1>1 DEF FromQueue, Worker
<1>7. w \in FromQueue => w # "batch"
  BY DEF FromQueue
<1>8. version' <= Cardinality(consumed') + FromBatches'
  <2>1. version <= Cardinality(consumed) + FromBatches
    BY DEF IInv, VersionBound
  <2>2. CASE w \in FromQueue
    BY <1>1, <1>2, <1>3, <1>4, <1>5, <1>7, <2>1, <2>2
  <2>3. CASE w \notin FromQueue
    BY <1>1, <1>2, <1>3, <1>4, <1>6, <2>1, <2>3
  <2> QED BY <2>2, <2>3
<1>9. consumed' \subseteq 1..made
  BY <1>1, <1>2, <1>3
<1>10. Cardinality(consumed') \in Nat /\ Cardinality(consumed') <= MaxDecisions
  <2>1. IsFiniteSet(1..made) /\ Cardinality(1..made) = made
    BY <1>3, FS_Interval
  <2>2. IsFiniteSet(consumed') /\ Cardinality(consumed') <= made
    BY <1>9, <2>1, FS_Subset
  <2>3. Cardinality(consumed') \in Nat
    BY <2>2, FS_CardinalityType
  <2> QED BY <1>3, <2>2, <2>3, BoundsAssumption
<1>11. FromBatches' <= MaxBatches * BatchLimit
  <2>1. batches \in Nat /\ batches <= MaxBatches /\ BatchLimit \in Nat /\ MaxBatches \in Nat
    BY BoundsAssumption, ExportAssumption DEF IInv, TypeOK
  <2>2. batches * BatchLimit <= MaxBatches * BatchLimit
    BY <2>1
  <2>3. Len(todo') \in Nat
    BY <1>2, LenProperties DEF Rows
  <2>4. batches * BatchLimit \in Int /\ MaxBatches * BatchLimit \in Int /\ batches' = batches
    BY <1>1, <2>1
  <2> QED BY <2>2, <2>3, <2>4 DEF FromBatches
<1>12. MaxBatches * BatchLimit \in Int
  BY BoundsAssumption, ExportAssumption
<1>13. version' \in 1..MaxVersion
  BY <1>1, <1>2, <1>3, <1>8, <1>10, <1>11, <1>12, BoundsAssumption DEF MaxVersion
<1> QED BY <1>1, <1>8, <1>9, <1>13 DEF VersionBound

\* What the files and the batch are after it does not matter to the rest, if the exports
\* and the batch still partition what the checkpoint has counted.
LEMMA AppliesStep ==
    ASSUME IInv, NEW w \in Worker, NEW x \in {"off", "get"}, x = "off" => w # "consumer",
           Applies(w, x), batch' \in Rows, exported' \in Rows,
           exported' \o batch' = exported \o Append(batch, hand[w]),
           summary' \in [processed : 0..MaxVersion, version : 0..MaxVersion],
           reflectionFile' \in [1..MaxVersion -> Rows], feedbackFile' \in [1..MaxVersion -> Rows]
    PROVE  IInv'
<1>1. /\ at[w] = "persist" /\ at[w] \in Busy /\ version' = version + 1
      /\ reflected' = Append(reflected, hand[w])
      /\ consumed' = IF w \in FromQueue THEN consumed \cup {hand[w]} ELSE consumed
      /\ at' = [at EXCEPT ![w] = x]
      /\ todo' = IF w = "batch" /\ x = "off" THEN <<>> ELSE todo
      /\ outcomes' \in {outcomes, outcomes \cup {hand[w]}}
      /\ UNCHANGED <<made, queue, hand, batches, scored, dropped, failed, lost, stopper,
                     ends, served>>
  BY DEF Applies, Apply, Persist, Busy
<1>2. /\ at' \in [Worker -> States] /\ todo' \in Rows /\ hand[w] \in 1..made
      /\ Workers' /\ Sentinel'
      /\ w \in FromQueue => /\ hand[w] \in Pending /\ InHand' = {}
                            /\ Pending' = Pending \ {hand[w]}
      /\ w \notin FromQueue => Pending' = Pending /\ InHand' = InHand
      /\ Cardinality(Persisting) \in Nat
      /\ Cardinality(Persisting')
            = IF at[w] = "persist" THEN Cardinality(Persisting) - 1 ELSE Cardinality(Persisting)
  BY <1>1, LeaveFacts
<1>3. VersionBound' /\ version' \in 1..MaxVersion /\ consumed' \subseteq 1..made
  BY VersionFacts
<1>4. reflected \in Seq(1..made) /\ scored \in Seq(1..made) /\ batch \in Seq(1..made)
      /\ exported \in Seq(1..made)
  BY DEF IInv, TypeOK, Rows
<1>5. reflected' \in Seq(1..made) /\ Len(reflected') = Len(reflected) + 1
  BY <1>1, <1>2, <1>4
<1>6. TypeOK'
  <2>1. /\ outcomes' \subseteq 1..made
    BY <1>1, <1>2 DEF IInv, TypeOK
  <2>2. Rows' = Rows
    BY <1>1 DEF Rows
  <2>3. scored' \in Rows /\ reflected' \in Rows /\ version' \in 0..MaxVersion
    BY <1>1, <1>3, <1>4, <1>5 DEF Rows
  <2>4. /\ made \in 0..MaxDecisions /\ queue \in Seq(0..made) /\ Len(queue) <= QueueMax
        /\ hand \in [Worker -> 0..made] /\ batches \in 0..MaxBatches
        /\ dropped \subseteq 1..made /\ failed \subseteq 1..made /\ lost \subseteq 1..made
        /\ stopper \in {"idle", "put", "join", "stopped"} /\ ends \in 0..MaxEnds
        /\ served \in BOOLEAN
    BY DEF IInv, TypeOK
  <2> QED BY <1>1, <1>2, <1>3, <2>1, <2>2, <2>3, <2>4 DEF TypeOK, States
<1>7. Apart'
  BY <1>1, <1>2, SMTT(30) DEF IInv, Apart
<1>8. ScoresMatchCheckpoint'
  <2>1. Cardinality(Persisting') = Cardinality(Persisting) - 1 /\ Cardinality(Persisting) \in Nat
    BY <1>1, <1>2
  <2>2. version = Len(reflected) /\ Len(scored) = version + Cardinality(Persisting) /\ version \in Nat
    BY BoundsAssumption, ExportAssumption DEF IInv, TypeOK, MaxVersion, ScoresMatchCheckpoint, Persisting
  <2>3. version' = version + 1 /\ Len(reflected') = Len(reflected) + 1 /\ scored' = scored
    BY <1>1, <1>5
  <2>4. Len(scored') = Len(scored) /\ Len(scored) \in Nat
    BY <1>4, <2>3, LenProperties
  <2>5. version' = Len(reflected')
    BY <2>2, <2>3
  <2>6. Len(scored') = version' + Cardinality(Persisting')
    BY <2>1, <2>2, <2>3, <2>4
  <2> QED BY <2>5, <2>6 DEF ScoresMatchCheckpoint, Persisting
<1>9. ExportsPartition'
  <2>1. exported \o Append(batch, hand[w]) = Append(exported \o batch, hand[w])
    <3> PICK S : S = 1..made
      OBVIOUS
    <3>1. exported \in Seq(S) /\ batch \in Seq(S) /\ hand[w] \in S
      BY <1>2, <1>4
    <3> QED BY <3>1, ConcatAppend
  <2> QED BY <1>1, <2>1 DEF IInv, ExportsPartition
<1> QED BY <1>2, <1>3, <1>6, <1>7, <1>8, <1>9 DEF IInv

\* Below the batch size, the decision joins the batch.
LEMMA FinishBelowBatchStep ==
    ASSUME IInv, NEW w \in Worker, FinishBelowBatch(w)
    PROVE  IInv'
<1>1. Applies(w, "get")
  BY DEF FinishBelowBatch, Applies
<1>2. /\ batch' = Append(batch, hand[w]) /\ exported' = exported /\ summary' = summary
      /\ UNCHANGED <<reflectionFile, feedbackFile>> /\ at[w] = "persist"
  BY DEF FinishBelowBatch, files
<1>3. hand[w] \in 1..made /\ batch \in Seq(1..made)
  BY <1>2 DEF IInv, Workers, Busy, TypeOK, Rows
<1>4. batch' \in Rows
  BY <1>2, <1>3 DEF Rows
<1>5. /\ exported' \in Rows /\ summary' \in [processed : 0..MaxVersion, version : 0..MaxVersion]
      /\ reflectionFile' \in [1..MaxVersion -> Rows] /\ feedbackFile' \in [1..MaxVersion -> Rows]
  BY <1>2 DEF IInv, TypeOK
<1> QED BY <1>1, <1>2, <1>4, <1>5, AppliesStep

\* At the batch size it is exported, or stays for the next export.
LEMMA FinishAndExportStep ==
    ASSUME IInv, NEW w \in Worker, FinishAndExport(w)
    PROVE  IInv'
<1> PICK now : now = Append(batch, hand[w])
  OBVIOUS
<1>1. PICK x \in {"off", "get"} : (x = "off" => w # "consumer") /\ Applies(w, x)
  BY DEF FinishAndExport, Applies, AfterRaise
<1>2. version' \in 1..MaxVersion /\ version' = version + 1
  BY <1>1, VersionFacts
<1>3. hand[w] \in 1..made /\ batch \in Seq(1..made) /\ exported \in Seq(1..made)
  BY DEF FinishAndExport, IInv, Workers, Busy, TypeOK, Rows
<1>4. now \in Seq(1..made) /\ Len(now) = Len(batch) + 1
  BY <1>3
<1>5. Len(now) \in 0..MaxVersion
  <2>1. Len(exported \o batch) = Len(exported) + Len(batch) /\ Len(batch) \in Nat /\ Len(exported) \in Nat
    BY <1>3, ConcatProperties, LenProperties
  <2>2. version = Len(exported \o batch) /\ version \in Nat
    BY BoundsAssumption, ExportAssumption
       DEF IInv, ScoresMatchCheckpoint, ExportsPartition, TypeOK, MaxVersion
  <2>3. version = Len(exported) + Len(batch)
    BY <2>1, <2>2
  <2>4. Len(now) = Len(batch) + 1 /\ Len(batch) \in Nat /\ Len(exported) \in Nat
    BY <1>4, <2>1
  <2>5. MaxVersion \in Int /\ version \in Int
    BY BoundsAssumption, ExportAssumption DEF MaxVersion, IInv, TypeOK
  <2> QED BY <1>2, <2>3, <2>4, <2>5
<1>6. CASE Export(now)
  <2>1. /\ batch' = <<>> /\ exported' = exported \o now
        /\ summary' = [processed |-> Len(now), version |-> version']
    BY <1>6 DEF Export
  <2>2. /\ exported \o now \in Seq(1..made) /\ <<>> \in Seq(1..made)
        /\ (exported \o now) \o <<>> = exported \o now
    BY <1>3, <1>4, ConcatProperties, ConcatEmptySeq, EmptySeq
  <2>3. summary' \in [processed : 0..MaxVersion, version : 0..MaxVersion]
    BY <1>2, <1>5, <2>1
  <2>4. reflectionFile' \in [1..MaxVersion -> Rows] /\ feedbackFile' \in [1..MaxVersion -> Rows]
    BY <1>4, <1>6 DEF Export, IInv, TypeOK, Rows
  <2>5. batch' \in Rows /\ exported' \in Rows /\ exported' \o batch' = exported \o Append(batch, hand[w])
    BY <2>1, <2>2 DEF Rows
  <2> QED BY <1>1, <2>3, <2>4, <2>5, AppliesStep
<1>7. CASE ExportRaises(now)
  <2>1. batch' = now /\ exported' = exported /\ summary' = summary
    BY <1>7 DEF ExportRaises
  <2>2. reflectionFile' \in [1..MaxVersion -> Rows] /\ feedbackFile' \in [1..MaxVersion -> Rows]
    <3>1. now \in Rows /\ <<>> \in Rows
      BY <1>4, EmptySeq DEF Rows
    <3>2. reflectionFile \in [1..MaxVersion -> Rows] /\ feedbackFile \in [1..MaxVersion -> Rows]
      BY DEF IInv, TypeOK
    <3> QED BY <1>7, <3>1, <3>2 DEF ExportRaises, files
  <2>3. /\ batch' \in Rows /\ exported' \in Rows
        /\ summary' \in [processed : 0..MaxVersion, version : 0..MaxVersion]
    BY <1>3, <1>4, <2>1 DEF IInv, TypeOK, Rows
  <2> QED BY <1>1, <2>1, <2>2, <2>3, AppliesStep
<1> QED BY <1>6, <1>7 DEF FinishAndExport

--------------------------------------------------------------------------------
(* stop() and the end of the process *)

\* The item of stop() goes behind every decision.
LEMMA SentinelPutStep ==
    ASSUME IInv, at["consumer"] # "off", stopper \in {"idle", "put"}, Room,
           queue' = Append(queue, None), stopper' = "join",
           UNCHANGED <<made, at, hand, todo, batches, checkpoint, files, outcomes, fate,
                       ends, served>>
    PROVE  IInv'
<1>1. UNCHANGED <<made, at, hand, todo, batches, scored, reflected, version, batch, summary,
                  exported, reflectionFile, feedbackFile, outcomes, consumed,
                  dropped, failed, lost, ends, served>>
  BY DEF checkpoint, files, fate
<1>2. /\ queue \in Seq(Items) /\ IsInjective(queue) /\ None \in Items
      /\ Len(queue) \in Nat /\ DOMAIN queue = 1..Len(queue)
  BY LenProperties, BoundsAssumption DEF IInv, TypeOK, Items, Apart, None
<1>3. \A i \in 1..Len(queue) : queue[i] # None
  BY DEF IInv, Sentinel
<1>4. None \notin ToSet(queue)
  BY <1>2, <1>3 DEF ToSet
<1>5. /\ queue' \in Seq(Items) /\ Len(queue') = Len(queue) + 1
      /\ ToSet(queue') = ToSet(queue) \cup {None} /\ IsInjective(queue')
      /\ queue'[Len(queue) + 1] = None
      /\ \A i \in 1..Len(queue) : queue'[i] = queue[i]
  BY <1>2, <1>4, QueueAppend
<1>6. TypeOK'
  <2>1. queue' \in Seq(0..made') /\ Len(queue') <= QueueMax
    BY <1>1, <1>2, <1>5, QueueAssumption DEF Items, Room
  <2> QED BY <1>1, <2>1 DEF IInv, TypeOK, Rows
<1>7. Workers'
  BY <1>1 DEF IInv, Workers
<1>8. Sentinel'
  <2>1. queue' # <<>>
    <3>1. Len(queue') # 0 /\ Len(<<>>) = 0
      BY <1>2, <1>5, EmptySeq
    <3> QED BY <3>1
  <2>2. \A i \in 1..Len(queue') : queue'[i] = None => i = Len(queue')
    BY <1>2, <1>3, <1>5
  <2>3. at["consumer"] # "done"
    BY DEF IInv, Sentinel
  <2> QED BY <1>1, <1>5, <2>1, <2>2, <2>3 DEF Sentinel
<1>9. InHand' = InHand
  BY <1>1 DEF InHand
<1>10. Apart'
  <2>1. Pending' = Pending
    BY <1>5, <1>9 DEF Pending
  <2>2. None \notin InHand
    BY InHandNow DEF IInv, Workers, FromQueue, Worker, None
  <2> QED BY <1>1, <1>5, <1>9, <2>1, <2>2 DEF IInv, Apart
<1>11. ScoresMatchCheckpoint' /\ ExportsPartition' /\ VersionBound'
  BY <1>1 DEF IInv, ScoresMatchCheckpoint, ExportsPartition, VersionBound, FromBatches
<1> QED BY <1>6, <1>7, <1>8, <1>10, <1>11 DEF IInv

\* stop() waits for a place in the queue, or returns when the consumer has ended.
LEMMA StopperStep ==
    ASSUME IInv, stopper' \in {"put", "stopped"},
           stopper' = "put" => stopper = "idle" /\ at["consumer"] # "off",
           stopper' = "stopped" => stopper = "join" /\ at["consumer"] = "done",
           UNCHANGED <<made, work, batches, checkpoint, files, outcomes, fate, ends, served>>
    PROVE  IInv'
<1>1. UNCHANGED <<made, queue, at, hand, todo, batches, scored, reflected, version, batch, summary,
                  exported, reflectionFile, feedbackFile, outcomes, consumed,
                  dropped, failed, lost, ends, served>>
  BY DEF work, checkpoint, files, fate
<1>2. TypeOK'
  BY <1>1 DEF IInv, TypeOK, Rows
<1>3. Sentinel'
  BY <1>1 DEF IInv, Sentinel
<1>4. Workers' /\ Apart'
  BY <1>1 DEF IInv, Workers, Apart, Pending, InHand
<1>5. ScoresMatchCheckpoint' /\ ExportsPartition' /\ VersionBound'
  BY <1>1 DEF IInv, ScoresMatchCheckpoint, ExportsPartition, VersionBound, FromBatches
<1> QED BY <1>2, <1>3, <1>4, <1>5 DEF IInv

\* Only the rows, the files and the fates outlive a process; what was pending is lost.
LEMMA ForgetStep ==
    ASSUME IInv, Forget, ends < MaxEnds, ends' = ends + 1,
           outcomes' \subseteq 1..made,
           reflectionFile' \in [1..MaxVersion -> Rows],
           UNCHANGED <<made, batches, feedbackFile, consumed, dropped, failed, served>>
    PROVE  IInv'
<1>1. \A w \in Worker : at'[w] = "off" /\ hand'[w] = None
  BY DEF Forget
<1>2. Persisting' = {} /\ Cardinality(Persisting') = 0
  BY <1>1, FS_EmptySet DEF Persisting
<1>3. /\ queue' = <<>> /\ todo' = <<>> /\ scored' = <<>> /\ reflected' = <<>> /\ batch' = <<>>
      /\ exported' = <<>> /\ version' = 0 /\ stopper' = "idle"
      /\ summary' = [processed |-> 0, version |-> 0] /\ lost' = lost \cup Pending
  BY DEF Forget
<1>4. /\ \A S : <<>> \in Seq(S) /\ <<>> \o <<>> = <<>>
      /\ Len(<<>>) = 0 /\ ToSet(<<>>) = {} /\ IsInjective(<<>>)
  <2>1. <<>> \in Seq({0}) /\ Len(<<>>) = 0 /\ \A S : <<>> \in Seq(S)
    BY EmptySeq
  <2>2. <<>> \o <<>> = <<>>
    BY <2>1, ConcatEmptySeq
  <2> QED BY <2>1, <2>2 DEF ToSet, IsInjective
<1>5. MaxVersion \in Nat /\ made \in Nat
  BY BoundsAssumption, ExportAssumption DEF MaxVersion, IInv, TypeOK
<1>6. Workers'
  BY <1>1, <1>3 DEF IInv, Workers, Busy, Worker
<1>7. InHand' = {} /\ Pending' = {}
  BY <1>1, <1>3, <1>4 DEF InHand, Pending, FromQueue, Worker
<1>8. Pending \subseteq 1..made
  BY DEF IInv, Apart
<1>9. TypeOK'
  <2>1. at' \in [Worker -> States] /\ hand' \in [Worker -> 0..made]
    BY <1>5 DEF Forget, States, None
  <2>2. lost' \subseteq 1..made /\ ends' \in 0..MaxEnds
    BY <1>3, <1>8, BoundsAssumption DEF IInv, TypeOK
  <2>3. summary' \in [processed : 0..MaxVersion, version : 0..MaxVersion] /\ version' \in 0..MaxVersion
    BY <1>3, <1>5
  <2>4. /\ queue' \in Seq(0..made) /\ Len(queue') <= QueueMax /\ todo' \in Rows
        /\ scored' \in Rows /\ reflected' \in Rows /\ batch' \in Rows /\ exported' \in Rows
    BY <1>3, <1>4, QueueAssumption DEF Rows
  <2>5. Rows' = Rows
    BY DEF Rows
  <2>6. /\ made \in 0..MaxDecisions /\ batches \in 0..MaxBatches
        /\ feedbackFile \in [1..MaxVersion -> Rows]
        /\ consumed \subseteq 1..made /\ dropped \subseteq 1..made /\ failed \subseteq 1..made
        /\ served \in BOOLEAN
    BY DEF IInv, TypeOK
  <2> QED BY <1>3, <2>1, <2>2, <2>3, <2>4, <2>5, <2>6 DEF TypeOK, States
<1>10. Sentinel'
  <2>1. 1..0 = {}
    OBVIOUS
  <2> QED BY <1>1, <1>3, <1>4, <2>1 DEF Sentinel, Worker
<1>11. Apart'
  BY <1>3, <1>4, <1>7 DEF IInv, Apart
<1>12. ScoresMatchCheckpoint' /\ ExportsPartition'
  BY <1>2, <1>3, <1>4 DEF ScoresMatchCheckpoint, ExportsPartition, Persisting
<1>13. VersionBound'
  <2>1. Cardinality(consumed') \in Nat /\ batches' * BatchLimit \in Nat
    BY ConsumedFacts, ExportAssumption, BoundsAssumption DEF IInv, TypeOK
  <2>2. FromBatches' = batches' * BatchLimit
    BY <1>1, <1>3, <1>4, <2>1 DEF FromBatches, Busy, Worker
  <2> QED BY <1>3, <2>1, <2>2 DEF VersionBound
<1> QED BY <1>6, <1>9, <1>10, <1>11, <1>12, <1>13 DEF IInv

\* A crash, also between the two files of an export.
LEMMA EndStep ==
    ASSUME IInv, EndProcess \/ \E w \in Worker : CrashInExport(w)
    PROVE  IInv'
<1>1. \A w \in Worker : at[w] = "persist" => hand[w] \in 1..made
  BY DEF IInv, Workers, Busy
<1>2. /\ outcomes \subseteq 1..made
      /\ reflectionFile \in [1..MaxVersion -> Rows] /\ batch \in Seq(1..made)
  BY DEF IInv, TypeOK, Rows
<1>3. CASE EndProcess
  <2>1. outcomes' \subseteq 1..made
    BY <1>1, <1>2, <1>3 DEF EndProcess
  <2>2. /\ Forget /\ ends < MaxEnds /\ ends' = ends + 1
        /\ reflectionFile' \in [1..MaxVersion -> Rows]
        /\ UNCHANGED <<made, batches, feedbackFile, consumed, dropped, failed, served>>
    BY <1>2, <1>3 DEF EndProcess, files
  <2> QED BY <2>1, <2>2, ForgetStep
<1>4. CASE \E w \in Worker : CrashInExport(w)
  <2>1. PICK w \in Worker : CrashInExport(w)
    BY <1>4
  <2>2. hand[w] \in 1..made
    BY <1>1, <2>1 DEF CrashInExport
  <2>3. Append(batch, hand[w]) \in Rows
    BY <1>2, <2>2 DEF Rows
  <2>4. reflectionFile' \in [1..MaxVersion -> Rows]
    BY <1>2, <2>1, <2>3 DEF CrashInExport
  <2>5. outcomes' \subseteq 1..made
    BY <1>2, <2>1, <2>2 DEF CrashInExport, Persist
  <2>6. /\ Forget /\ ends < MaxEnds /\ ends' = ends + 1
        /\ UNCHANGED <<made, batches, feedbackFile, consumed, dropped, failed, served>>
    BY <2>1 DEF CrashInExport
  <2> QED BY <2>4, <2>5, <2>6, ForgetStep
<1> QED BY <1>3, <1>4

\* So does a step that changes nothing.
LEMMA StutterStep ==
    ASSUME IInv, UNCHANGED vars
    PROVE  IInv'
<1>1. UNCHANGED <<made, queue, at, hand, todo, batches, scored, reflected, version, batch, summary,
                  exported, reflectionFile, feedbackFile, outcomes, consumed,
                  dropped, failed, lost, stopper, ends, served>>
  BY DEF vars, work, checkpoint, files, fate
<1>2. TypeOK'
  BY <1>1 DEF IInv, TypeOK, Rows
<1>3. Workers' /\ Sentinel'
  BY <1>1 DEF IInv, Workers, Sentinel
<1>4. Apart'
  BY <1>1 DEF IInv, Apart, Pending, InHand
<1>5. ScoresMatchCheckpoint' /\ ExportsPartition' /\ VersionBound'
  BY <1>1 DEF IInv, ScoresMatchCheckpoint, ExportsPartition, VersionBound, FromBatches
<1> QED BY <1>2, <1>3, <1>4, <1>5 DEF IInv

\* Every step of the loop preserves the inductive invariant.
LEMMA NextIInv == IInv /\ [Next]_vars => IInv'
<1> SUFFICES ASSUME IInv, [Next]_vars
             PROVE  IInv'
  OBVIOUS
<1>1. CASE Start \/ Enqueue
  BY <1>1, StartStep, EnqueueStep
<1>2. CASE ConsumerGets \/ DrainCalled \/ DrainGets
  BY <1>2, GetsStep
<1>3. CASE BatchCalled \/ BatchGets
  BY <1>3, BatchCalledStep, BatchGetsStep
<1>4. ASSUME NEW w \in Worker, Process(w)
      PROVE  IInv'
  BY <1>4, AuditScoresStep, AuditRaisesStep, FinishBelowBatchStep, FinishAndExportStep DEF Process
<1>5. CASE EndProcess \/ \E w \in Worker : CrashInExport(w)
  BY <1>5, EndStep
<1>6. CASE Stop
  <2>1. CASE Room
    BY <1>6, <2>1, SentinelPutStep DEF Stop
  <2>2. CASE ~Room
    BY <1>6, <2>2, StopperStep DEF Stop, work
  <2> QED BY <2>1, <2>2
<1>7. CASE StopPuts
  <2>1. at["consumer"] # "off"
    BY <1>7 DEF StopPuts, IInv, Sentinel
  <2> QED BY <1>7, <2>1, SentinelPutStep DEF StopPuts
<1>8. CASE StopReturns
  BY <1>8, StopperStep DEF StopReturns
<1>9. CASE Rest \/ UNCHANGED vars
  BY <1>9, StutterStep DEF Rest
<1> QED BY <1>1, <1>2, <1>3, <1>4, <1>5, <1>6, <1>7, <1>8, <1>9 DEF Next

\* The inductive invariant of the loop holds at every moment of every execution.
THEOREM ReflectionIInv == Spec => []IInv
BY InitIInv, NextIInv, PTL DEF Spec

\* Every variable keeps its type; in particular the version, and with it the number in the
\* names of the exports, stays within what was made and what batches were allowed to read.
THEOREM ReflectionTypeOK == Spec => []TypeOK
<1>1. IInv => TypeOK
  BY DEF IInv
<1> QED BY <1>1, ReflectionIInv, PTL

\* Every decision handed to enqueue() has exactly one fate (reflection_loop.py:129-193).
THEOREM ReflectionOneFate == Spec => []OneFate
<1>1. IInv => OneFate
  BY ApartFates DEF IInv
<1> QED BY <1>1, ReflectionIInv, PTL

\* No exception separates the score history from the checkpoint (reflection_loop.py:225-241).
THEOREM ReflectionScoresMatch == Spec => []ScoresMatchCheckpoint
<1>1. IInv => ScoresMatchCheckpoint
  BY DEF IInv
<1> QED BY <1>1, ReflectionIInv, PTL

\* The complete exports and the current batch are what the checkpoint counted, in its order,
\* whichever exports failed (_maybe_export_batch).
THEOREM ReflectionExportsPartition == Spec => []ExportsPartition
<1>1. IInv => ExportsPartition
  BY DEF IInv
<1> QED BY <1>1, ReflectionIInv, PTL

\* When stop() has returned, the queue is empty and nothing is in hand (stop,
\* reflection_loop.py:172-179).
THEOREM ReflectionStopDrains == Spec => []StopDrains
<1>1. IInv => StopDrains
  <2> SUFFICES ASSUME IInv, stopper = "stopped"
               PROVE  Pending = {}
    BY DEF StopDrains
  <2>1. at["consumer"] = "done" /\ queue = <<>>
    BY DEF IInv, Sentinel
  <2>2. ToSet(queue) = {}
    <3>1. Len(queue) = 0 /\ DOMAIN queue = 1..Len(queue) /\ 1..0 = {}
      BY <2>1, EmptySeq, LenProperties DEF IInv, TypeOK
    <3> QED BY <3>1 DEF ToSet
  <2>3. Taker = "consumer"
    BY <2>1 DEF IInv, Workers, Taker
  <2>4. InHand = {}
    BY <2>1, <2>3, InHandNow DEF IInv, Busy
  <2> QED BY <2>2, <2>4 DEF Pending
<1> QED BY <1>1, ReflectionIInv, PTL

\* The version in the name of an export is one that no earlier export of the process has,
\* also after exports that failed (_maybe_export_batch).
THEOREM ReflectionNoOverwrite == Spec => NoOverwriteInProcess
<1> DEFINE Kept == \A v \in 1..version :
                      \/ reflectionFile'[v] = reflectionFile[v] /\ feedbackFile'[v] = feedbackFile[v]
                      \/ version' = 0
<1>1. IInv /\ [Next]_vars => [Kept]_vars
  <2> SUFFICES ASSUME IInv, [Next]_vars, version' # 0, NEW v \in 1..version
               PROVE  reflectionFile'[v] = reflectionFile[v] /\ feedbackFile'[v] = feedbackFile[v]
    OBVIOUS
  <2>1. version \in Nat /\ version + 1 # v
    BY BoundsAssumption, ExportAssumption DEF IInv, TypeOK, MaxVersion
  <2>2. ASSUME NEW w \in Worker, FinishAndExport(w)
        PROVE  reflectionFile'[v] = reflectionFile[v] /\ feedbackFile'[v] = feedbackFile[v]
    <3>1. version' = version + 1
      BY <2>2 DEF FinishAndExport, Apply
    <3>2. /\ reflectionFile \in [1..MaxVersion -> Rows] /\ feedbackFile \in [1..MaxVersion -> Rows]
          /\ v \in 1..MaxVersion
      BY BoundsAssumption, ExportAssumption DEF IInv, TypeOK, MaxVersion
    <3>3. ASSUME NEW now, Export(now)
          PROVE  reflectionFile'[v] = reflectionFile[v] /\ feedbackFile'[v] = feedbackFile[v]
      BY <2>1, <3>1, <3>2, <3>3 DEF Export, BatchId
    <3>4. ASSUME NEW now, ExportRaises(now)
          PROVE  reflectionFile'[v] = reflectionFile[v] /\ feedbackFile'[v] = feedbackFile[v]
      BY <2>1, <3>1, <3>2, <3>4 DEF ExportRaises, BatchId, files
    <3> QED BY <2>2, <3>3, <3>4 DEF FinishAndExport
  <2>3. CASE UNCHANGED files
    BY <2>3 DEF files
  <2>4. ASSUME NEW w \in Worker, Process(w)
        PROVE  FinishAndExport(w) \/ UNCHANGED files
    BY <2>4 DEF Process, AuditScores, AuditRaises, FinishBelowBatch
  <2>5. ~EndProcess /\ \A w \in Worker : ~CrashInExport(w)
    BY DEF EndProcess, CrashInExport, Forget
  <2>6. CASE \/ Start \/ Enqueue \/ ConsumerGets \/ DrainCalled \/ DrainGets
             \/ BatchCalled \/ BatchGets \/ Stop \/ StopPuts \/ StopReturns \/ Rest \/ UNCHANGED vars
    BY <2>3, <2>6 DEF Start, Enqueue, ConsumerGets, DrainCalled, DrainGets, BatchCalled, BatchGets,
                      Stop, StopPuts, StopReturns, Rest, vars
  <2> QED BY <2>2, <2>3, <2>4, <2>5, <2>6 DEF Next
<1>2. Spec => [][Kept]_vars
  BY <1>1, ReflectionIInv, PTL DEF Spec
<1> QED BY <1>2 DEF NoOverwriteInProcess

--------------------------------------------------------------------------------
(* The order of a served loop *)

\* The queue and the hand of the consumer continue the checkpoint in order.
Increasing(s) == \A i, j \in 1..Len(s) : i < j => s[i] < s[j]
Follows ==
    /\ \A i, j \in 1..Len(queue) : i < j /\ queue[j] # None => queue[i] < queue[j]
    /\ \A i \in 1..Len(queue), j \in 1..Len(reflected) :
          queue[i] # None => reflected[j] < queue[i]
HandBetween ==
    at["consumer"] \in Busy =>
        /\ \A j \in 1..Len(reflected) : reflected[j] < hand["consumer"]
        /\ \A i \in 1..Len(queue) : queue[i] # None => hand["consumer"] < queue[i]
Ordered == at["batch"] = "off" /\ Increasing(reflected) /\ Follows /\ HandBetween

\* An item that is put last keeps the order if it is larger than all, or the item of stop().
LEMMA AppendOrdered ==
    ASSUME IInv, Ordered, at["consumer"] # "off", NEW x \in Nat,
           x # None => x > made, queue' = Append(queue, x),
           UNCHANGED <<at, hand, reflected>>
    PROVE  Ordered'
<1>1. queue \in Seq(0..made) /\ reflected \in Seq(1..made) /\ made \in Nat
  BY BoundsAssumption DEF IInv, TypeOK, Rows
<1>2. /\ Len(queue) \in Nat /\ \A i \in 1..Len(queue) : queue[i] \in 0..made
      /\ Len(reflected) \in Nat /\ \A i \in 1..Len(reflected) : reflected[i] \in 1..made
  BY <1>1, ElementOfSeq, LenProperties
<1>3. /\ Len(queue') = Len(queue) + 1 /\ queue'[Len(queue) + 1] = x
      /\ \A i \in 1..Len(queue) : queue'[i] = queue[i]
  BY <1>1
<1>4. at["consumer"] \in Busy => hand["consumer"] \in 1..made
  BY DEF IInv, Workers, Worker
<1>5. \A i \in 1..Len(queue') : i \in 1..Len(queue) \/ i = Len(queue) + 1
  BY <1>2, <1>3
<1>6. Follows'
  <2>1. ASSUME NEW i \in 1..Len(queue'), NEW j \in 1..Len(queue'), i < j, queue'[j] # None
        PROVE  queue'[i] < queue'[j]
    <3>1. i \in 1..Len(queue) /\ queue'[i] = queue[i]
      <4>1. i # Len(queue) + 1
        BY <1>2, <1>3, <2>1
      <4> QED BY <1>3, <1>5, <4>1
    <3>2. CASE j \in 1..Len(queue)
      BY <1>3, <2>1, <3>1, <3>2 DEF Ordered, Follows
    <3>3. CASE j = Len(queue) + 1
      <4>1. x > made /\ queue[i] \in 0..made /\ queue'[j] = x
        BY <1>2, <1>3, <2>1, <3>1, <3>3
      <4> QED BY <1>1, <3>1, <4>1
    <3> QED BY <1>5, <3>2, <3>3
  <2>2. ASSUME NEW i \in 1..Len(queue'), NEW j \in 1..Len(reflected'), queue'[i] # None
        PROVE  reflected'[j] < queue'[i]
    <3>1. CASE i \in 1..Len(queue)
      BY <1>3, <2>2, <3>1 DEF Ordered, Follows
    <3>2. CASE i = Len(queue) + 1
      <4>1. x > made /\ reflected[j] \in 1..made /\ queue'[i] = x
        BY <1>2, <1>3, <2>2, <3>2
      <4> QED BY <1>1, <4>1
    <3> QED BY <1>5, <3>1, <3>2
  <2> QED BY <2>1, <2>2 DEF Follows
<1>7. HandBetween'
  <2> SUFFICES ASSUME at["consumer"] \in Busy
               PROVE  /\ \A j \in 1..Len(reflected) : reflected[j] < hand["consumer"]
                      /\ \A i \in 1..Len(queue') : queue'[i] # None => hand["consumer"] < queue'[i]
    BY DEF HandBetween
  <2>1. \A j \in 1..Len(reflected) : reflected[j] < hand["consumer"]
    BY DEF Ordered, HandBetween
  <2>2. ASSUME NEW i \in 1..Len(queue'), queue'[i] # None
        PROVE  hand["consumer"] < queue'[i]
    <3>1. CASE i \in 1..Len(queue)
      BY <1>3, <2>2, <3>1 DEF Ordered, HandBetween
    <3>2. CASE i = Len(queue) + 1
      <4>1. x > made /\ hand["consumer"] \in 1..made /\ queue'[i] = x
        BY <1>3, <1>4, <2>2, <3>2
      <4> QED BY <1>1, <4>1
    <3> QED BY <1>5, <3>1, <3>2
  <2> QED BY <2>1, <2>2
<1> QED BY <1>6, <1>7 DEF Ordered, Increasing

\* The consumer takes the smallest of what waits.
LEMMA TakeOrdered ==
    ASSUME IInv, Ordered, queue # <<>>, queue' = Tail(queue), at["consumer"] = "get",
           at'["batch"] = at["batch"], reflected' = reflected,
           at'["consumer"] \in Busy => Head(queue) # None /\ hand'["consumer"] = Head(queue)
    PROVE  Ordered'
<1>1. /\ Len(queue') = Len(queue) - 1 /\ Len(queue) \in Nat \ {0} /\ Head(queue) = queue[1]
      /\ \A i \in 1..(Len(queue) - 1) : queue'[i] = queue[i + 1]
  BY TakeFacts
<1>2. \A i \in 1..Len(queue') : i + 1 \in 1..Len(queue) /\ queue'[i] = queue[i + 1] /\ 1 < i + 1
  BY <1>1
<1>3. Follows'
  <2>1. ASSUME NEW i \in 1..Len(queue'), NEW j \in 1..Len(queue'), i < j, queue'[j] # None
        PROVE  queue'[i] < queue'[j]
    <3>1. i + 1 < j + 1
      BY <1>1, <2>1
    <3> QED BY <1>2, <2>1, <3>1 DEF Ordered, Follows
  <2>2. ASSUME NEW i \in 1..Len(queue'), NEW j \in 1..Len(reflected'), queue'[i] # None
        PROVE  reflected'[j] < queue'[i]
    BY <1>2, <2>2 DEF Ordered, Follows
  <2> QED BY <2>1, <2>2 DEF Follows
<1>4. HandBetween'
  <2> SUFFICES ASSUME at'["consumer"] \in Busy PROVE
        /\ \A j \in 1..Len(reflected') : reflected'[j] < hand'["consumer"]
        /\ \A i \in 1..Len(queue') : queue'[i] # None => hand'["consumer"] < queue'[i]
    BY DEF HandBetween
  <2>1. hand'["consumer"] = queue[1] /\ queue[1] # None /\ 1 \in 1..Len(queue)
    BY <1>1
  <2>2. \A j \in 1..Len(reflected') : reflected'[j] < hand'["consumer"]
    BY <2>1 DEF Ordered, Follows
  <2>3. ASSUME NEW i \in 1..Len(queue'), queue'[i] # None
        PROVE  hand'["consumer"] < queue'[i]
    BY <1>2, <2>1, <2>3 DEF Ordered, Follows
  <2> QED BY <2>2, <2>3
<1> QED BY <1>3, <1>4 DEF Ordered, Increasing

\* The checkpoint counts what is in hand, which is between it and the queue.
LEMMA ApplyOrdered ==
    ASSUME IInv, Ordered, at["consumer"] = "persist", NEW x \in {"off", "get"},
           Applies("consumer", x)
    PROVE  Ordered'
<1>1. /\ reflected' = Append(reflected, hand["consumer"]) /\ queue' = queue
      /\ at' = [at EXCEPT !["consumer"] = x] /\ at \in [Worker -> States]
      /\ hand["consumer"] \in 1..made /\ reflected \in Seq(1..made) /\ at["consumer"] \in Busy
  BY DEF Applies, Apply, IInv, TypeOK, Rows, Workers, Worker, Busy, States
<1>2. /\ Len(reflected') = Len(reflected) + 1 /\ reflected'[Len(reflected) + 1] = hand["consumer"]
      /\ \A i \in 1..Len(reflected) : reflected'[i] = reflected[i]
      /\ Len(reflected) \in Nat
  BY <1>1
<1>3. \A i \in 1..Len(reflected') : i \in 1..Len(reflected) \/ i = Len(reflected) + 1
  BY <1>2
<1>4. at'["batch"] = "off" /\ at'["consumer"] \notin Busy
  BY <1>1 DEF Ordered, Worker, Busy
<1>5. Increasing(reflected)'
  BY <1>1, <1>2, <1>3 DEF Ordered, Increasing, HandBetween
<1>6. Follows'
  BY <1>1, <1>2, <1>3 DEF Ordered, Follows, HandBetween
<1> QED BY <1>4, <1>5, <1>6 DEF Ordered, HandBetween

\* Of the consumer's steps only those above concern the order.
LEMMA NextOrdered ==
    ASSUME served, batches = 0, batches' = 0, IInv, Ordered, [Next]_vars
    PROVE  Ordered'
<1>1. /\ at["drain"] = "off" /\ at["batch"] = "off" /\ at \in [Worker -> States]
      /\ ~BatchCalled /\ ~BatchGets /\ ~DrainCalled /\ ~DrainGets
  <2>1. at["drain"] = "off" /\ at["batch"] = "off" /\ at \in [Worker -> States]
    BY DEF IInv, Workers, Ordered, TypeOK, States
  <2>2. ~BatchCalled
    BY DEF BatchCalled
  <2>3. ~BatchGets /\ ~DrainCalled /\ ~DrainGets
    BY <2>1 DEF BatchGets, DrainCalled, DrainGets
  <2> QED BY <2>1, <2>2, <2>3
<1>2. ASSUME UNCHANGED <<queue, reflected>>, at'["batch"] = "off",
             at'["consumer"] \in Busy => at["consumer"] \in Busy /\ hand'["consumer"] = hand["consumer"]
      PROVE  Ordered'
  BY <1>2 DEF Ordered, Increasing, Follows, HandBetween
<1>3. CASE Start
  BY <1>1, <1>2, <1>3 DEF Start, Busy, checkpoint, Worker
<1>4. CASE Enqueue
  <2>1. made \in Nat /\ made + 1 \in Nat /\ made + 1 > made /\ at["consumer"] # "off"
    BY <1>4 DEF Enqueue, IInv, TypeOK
  <2>2. UNCHANGED <<at, hand, reflected>>
    BY <1>4 DEF Enqueue, checkpoint
  <2>3. CASE queue' = Append(queue, made + 1)
    BY <2>1, <2>2, <2>3, AppendOrdered
  <2>4. CASE queue' = queue
    BY <1>1, <1>2, <2>2, <2>4
  <2> QED BY <1>4, <2>3, <2>4 DEF Enqueue
<1>5. CASE ConsumerGets
  <2>1. /\ queue # <<>> /\ queue' = Tail(queue) /\ at["consumer"] = "get" /\ reflected' = reflected
    BY <1>5 DEF ConsumerGets, checkpoint
  <2>2. hand \in [Worker -> 0..made]
    BY DEF IInv, TypeOK
  <2>3. at'["batch"] = at["batch"]
    BY <1>1, <1>5 DEF ConsumerGets, Receive, Worker
  <2>4. at'["consumer"] \in Busy => Head(queue) # None /\ hand'["consumer"] = Head(queue)
    BY <1>1, <1>5, <2>2 DEF ConsumerGets, Receive, Worker, Busy
  <2> QED BY <2>1, <2>3, <2>4, TakeOrdered
<1>6. ASSUME NEW w \in Worker, Process(w)
      PROVE  Ordered'
  <2>1. w = "consumer"
    BY <1>1, <1>6 DEF Process, AuditScores, AuditRaises, FinishBelowBatch, FinishAndExport, Worker
  <2>2. CASE AuditScores(w)
    BY <1>1, <1>2, <2>1, <2>2 DEF AuditScores, Worker, Busy
  <2>3. CASE AuditRaises(w)
    BY <1>1, <1>2, <2>1, <2>3 DEF AuditRaises, AfterRaise, Worker, Busy, checkpoint
  <2>4. CASE FinishBelowBatch(w)
    <3>1. Applies("consumer", "get")
      BY <2>1, <2>4 DEF FinishBelowBatch, Applies
    <3> QED BY <3>1, ApplyOrdered DEF Applies
  <2>5. CASE FinishAndExport(w)
    <3>1. PICK x \in {"off", "get"} : Applies("consumer", x)
      BY <2>1, <2>5 DEF FinishAndExport, Applies, AfterRaise
    <3> QED BY <3>1, ApplyOrdered DEF Applies
  <2> QED BY <1>6, <2>2, <2>3, <2>4, <2>5 DEF Process
<1>7. CASE Stop \/ StopPuts
  <2>1. UNCHANGED <<at, hand, reflected>> /\ queue' \in {queue, Append(queue, None)}
    BY <1>7 DEF Stop, StopPuts, checkpoint
  <2>2. at["consumer"] # "off"
    BY <1>7 DEF Stop, StopPuts, IInv, Sentinel
  <2>3. CASE queue' = Append(queue, None)
    BY <2>1, <2>2, <2>3, AppendOrdered DEF None
  <2>4. CASE queue' = queue
    BY <1>1, <1>2, <2>1, <2>4
  <2> QED BY <2>1, <2>3, <2>4
<1>8. CASE EndProcess \/ \E w \in Worker : CrashInExport(w)
  <2>1. Forget
    BY <1>8 DEF EndProcess, CrashInExport
  <2>2. queue' = <<>> /\ reflected' = <<>> /\ at'["batch"] = "off" /\ at'["consumer"] = "off"
    BY <2>1 DEF Forget, Worker
  <2>3. Len(<<>>) = 0 /\ 1..0 = {}
    BY EmptySeq
  <2> QED BY <2>2, <2>3 DEF Ordered, Increasing, Follows, HandBetween, Busy
<1>9. CASE StopReturns \/ Rest \/ UNCHANGED vars
  BY <1>1, <1>2, <1>9 DEF StopReturns, Rest, vars, work, checkpoint
<1> QED BY <1>1, <1>3, <1>4, <1>5, <1>6, <1>7, <1>8, <1>9 DEF Next

\* The world of the loop does not change, and calls of run_batch_from_store only add up.
LEMMA WorldKept ==
    ASSUME IInv, [Next]_vars
    PROVE  served' = served /\ batches \in Nat /\ batches' \in {batches, batches + 1}
<1>1. batches \in Nat
  BY BoundsAssumption DEF IInv, TypeOK
<1>2. CASE \/ Start \/ Enqueue \/ ConsumerGets \/ DrainCalled \/ DrainGets \/ BatchCalled \/ BatchGets
  BY <1>1, <1>2 DEF Start, Enqueue, ConsumerGets, DrainCalled, DrainGets, BatchCalled, BatchGets
<1>3. CASE \E w \in Worker : Process(w) \/ CrashInExport(w)
  BY <1>1, <1>3 DEF Process, AuditScores, AuditRaises, FinishBelowBatch, FinishAndExport,
                    CrashInExport
<1>4. CASE Stop \/ StopPuts \/ StopReturns \/ EndProcess \/ Rest \/ UNCHANGED vars
  BY <1>1, <1>4 DEF Stop, StopPuts, StopReturns, EndProcess, Rest, vars
<1> QED BY <1>1, <1>2, <1>3, <1>4 DEF Next

\* The checkpoint of a server counts the decisions in the order they were made, until
\* somebody calls run_batch_from_store, which no part of the server does (main.py:187-213).
THEOREM ReflectionInOrder == Spec => []InOrder
<1> DEFINE ServedInOrder == served /\ batches = 0 => Ordered
<1>1. Init => ServedInOrder
  <2> SUFFICES ASSUME Init PROVE Ordered
    OBVIOUS
  <2>1. Len(<<>>) = 0 /\ 1..0 = {}
    BY EmptySeq
  <2> QED BY <2>1 DEF Init, Ordered, Increasing, Follows, HandBetween, Busy, Worker
<1>2. IInv /\ ServedInOrder /\ [Next]_vars => ServedInOrder'
  <2> SUFFICES ASSUME IInv, ServedInOrder, [Next]_vars, served', batches' = 0
               PROVE  Ordered'
    OBVIOUS
  <2>1. served' = served /\ batches \in Nat /\ (batches' = batches \/ batches' = batches + 1)
    BY WorldKept
  <2>2. served /\ batches = 0
    BY <2>1
  <2> QED BY <2>2, NextOrdered
<1>3. IInv /\ ServedInOrder => InOrder
  <2> SUFFICES ASSUME IInv, Ordered, served, batches = 0 PROVE InOrder
    BY DEF InOrder
  <2>1. DOMAIN reflected = 1..Len(reflected)
    BY LenProperties DEF IInv, TypeOK, Rows
  <2> QED BY <2>1 DEF InOrder, Ordered, Increasing
<1> QED BY <1>1, <1>2, <1>3, ReflectionIInv, PTL DEF Spec
================================================================================
