--------------------------- MODULE AuditWriterProofs ---------------------------
(***************************************************************************)
(* For every queue size and every number of events: the audit writer keeps *)
(* each emitted event in exactly one place, overtakes only overflow events *)
(* and implements the audit trail.                                         *)
(***************************************************************************)
EXTENDS AuditWriter, SequenceFacts

\* Places, each apart from all that follow it.
Apart ==
    /\ ToSet(queue) \cap (ToSet(putters) \cup ToSet(ready) \cup Hand \cup ToSet(stored)
                              \cup dropped \cup failed \cup lost) = {}
    /\ ToSet(putters) \cap (ToSet(ready) \cup Hand \cup ToSet(stored)
                              \cup dropped \cup failed \cup lost) = {}
    /\ ToSet(ready) \cap (Hand \cup ToSet(stored) \cup dropped \cup failed \cup lost) = {}
    /\ Hand \cap (ToSet(stored) \cup dropped \cup failed \cup lost) = {}
    /\ ToSet(stored) \cap (dropped \cup failed \cup lost) = {}
    /\ dropped \cap (failed \cup lost) = {}
    /\ failed \cap lost = {}

EachOnce ==
    IsInjective(queue) /\ IsInjective(putters) /\ IsInjective(ready) /\ IsInjective(stored)

Covered == 1..emitted = Pending \cup ToSet(stored) \cup dropped \cup failed \cup lost

\* The None item does not exist before stop(); the consumer is in the ready queue
\* only when it is ready, and holds an event while it appends.
Entries ==
    /\ stopper = "idle" => None \notin ToSet(queue) \cup ToSet(putters) \cup ToSet(ready)
    /\ Consumer \in ToSet(ready) => consumer = "ready"
    /\ consumer = "append" => current \in 1..emitted

IInv == TypeOK /\ EachOnce /\ Apart /\ Covered /\ Entries

LEMMA InitIInv == Init => IInv
BY QueueMaxAssumption, BoundsAssumption
   DEF Init, IInv, TypeOK, EachOnce, Apart, Covered, Entries, Pending, Hand, ToSet,
       IsInjective, None, Consumer

\* The pairwise form of OnePlace.
LEMMA ApartPlaces == IInv => OnePlace
<1> SUFFICES ASSUME IInv PROVE OnePlace
  OBVIOUS
<1>1. \A p, q \in DOMAIN Places : p # q => Places[p] \cap Places[q] = {}
  BY DEF IInv, Apart, Places
<1> QED BY <1>1 DEF IInv, EachOnce, Covered, OnePlace

--------------------------------------------------------------------------------
\* A put into a queue with room adds its item, and at most the consumer to the
\* ready queue.
LEMMA EnqueueFacts ==
    ASSUME IInv, Room, NEW item \in Nat, item \notin ToSet(queue),
           NEW rest \in Seq(Int), IsInjective(rest), ToSet(rest) \subseteq ToSet(ready),
           Enqueue(item, rest)
    PROVE  /\ queue' \in Seq(Nat) /\ Len(queue') <= QueueMax
           /\ ToSet(queue') = ToSet(queue) \cup {item}
           /\ IsInjective(queue')
           /\ ready' \in Seq(Int) /\ IsInjective(ready')
           /\ \/ ToSet(ready') = ToSet(rest)
              \/ ToSet(ready') = ToSet(rest) \cup {Consumer}
           /\ Consumer \in ToSet(ready') => consumer' = "ready"
           /\ consumer' \in {consumer, "ready"}
           /\ consumer' # consumer => consumer = "wait"
<1>1. queue \in Seq(Nat) /\ IsInjective(queue) /\ Len(queue) \in Nat
  BY LenProperties DEF IInv, TypeOK, EachOnce
<1>2. /\ queue' \in Seq(Nat) /\ Len(queue') = Len(queue) + 1
      /\ ToSet(queue') = ToSet(queue) \cup {item} /\ IsInjective(queue')
  BY <1>1, AppendFacts DEF Enqueue
<1>3. Len(queue') <= QueueMax
  BY <1>1, <1>2, QueueMaxAssumption DEF Room
<1>4. CASE consumer = "wait"
  <2>1. Consumer \notin ToSet(rest) /\ Consumer \in Int
    BY <1>4 DEF IInv, Entries, Consumer
  <2>2. /\ Append(rest, Consumer) \in Seq(Int)
        /\ ToSet(Append(rest, Consumer)) = ToSet(rest) \cup {Consumer}
        /\ IsInjective(Append(rest, Consumer))
    BY <2>1, AppendFacts
  <2>3. ready' = Append(rest, Consumer) /\ consumer' = "ready"
    BY <1>4 DEF Enqueue
  <2> QED BY <1>2, <1>3, <1>4, <2>2, <2>3
<1>5. CASE consumer # "wait"
  BY <1>2, <1>3, <1>5 DEF Enqueue, IInv, Entries
<1> QED BY <1>4, <1>5

\* A wake-up moves the first put in line, if there is one, to the ready queue.
LEMMA WakePutFacts ==
    ASSUME IInv, NEW rest \in Seq(Int), IsInjective(rest),
           ToSet(rest) \subseteq ToSet(ready), WakePut(rest)
    PROVE  /\ putters' \in Seq(Nat) /\ ready' \in Seq(Int)
           /\ ToSet(putters') \cup ToSet(ready') = ToSet(putters) \cup ToSet(rest)
           /\ ToSet(putters') \subseteq ToSet(putters)
           /\ ToSet(rest) \subseteq ToSet(ready')
           /\ ToSet(putters') \cap ToSet(ready') = {}
           /\ IsInjective(putters') /\ IsInjective(ready')
<1>1. /\ putters \in Seq(Nat) /\ IsInjective(putters)
      /\ ToSet(putters) \cap ToSet(rest) = {}
  BY DEF IInv, TypeOK, EachOnce, Apart
<1>2. CASE putters = <<>>
  BY <1>1, <1>2 DEF WakePut
<1>3. CASE putters # <<>>
  <2>1. /\ Tail(putters) \in Seq(Nat) /\ IsInjective(Tail(putters))
        /\ Head(putters) \in Nat /\ Head(putters) \notin ToSet(Tail(putters))
        /\ ToSet(putters) = ToSet(Tail(putters)) \cup {Head(putters)}
    BY <1>1, <1>3, TailFacts
  <2>2. Head(putters) \in Int /\ Head(putters) \notin ToSet(rest)
    BY <1>1, <2>1
  <2>3. /\ Append(rest, Head(putters)) \in Seq(Int)
        /\ IsInjective(Append(rest, Head(putters)))
        /\ ToSet(Append(rest, Head(putters))) = ToSet(rest) \cup {Head(putters)}
    BY <2>2, AppendFacts
  <2>4. putters' = Tail(putters) /\ ready' = Append(rest, Head(putters))
    BY <1>3 DEF WakePut
  <2> QED BY <1>1, <2>1, <2>2, <2>3, <2>4
<1> QED BY <1>2, <1>3

\* The entry that runs leaves the ready queue.
LEMMA ReadyFacts ==
    ASSUME IInv, ready # <<>>
    PROVE  /\ Tail(ready) \in Seq(Int) /\ IsInjective(Tail(ready))
           /\ Head(ready) \in Int /\ Head(ready) \notin ToSet(Tail(ready))
           /\ ToSet(ready) = ToSet(Tail(ready)) \cup {Head(ready)}
BY TailFacts DEF IInv, TypeOK, EachOnce

--------------------------------------------------------------------------------
(* Each action preserves IInv *)

\* emit() numbers its event freshly: it is nowhere yet.
LEMMA FreshFacts ==
    ASSUME IInv
    PROVE  LET e == emitted + 1 IN
           /\ e \in Nat /\ e # None /\ e # Consumer
           /\ e \notin ToSet(queue) \cup ToSet(putters) \cup ToSet(ready) \cup Hand
           /\ e \notin ToSet(stored) \cup dropped \cup failed \cup lost
BY DEF IInv, TypeOK, Entries, Hand, None, Consumer

\* The consumer task is no event.
LEMMA ConsumerFacts ==
    ASSUME IInv
    PROVE  /\ Consumer \notin ToSet(queue) \cup ToSet(putters) \cup Hand
           /\ Consumer \notin ToSet(stored) \cup dropped \cup failed \cup lost
BY DEF IInv, TypeOK, Hand, Consumer

LEMMA StartIInv == IInv /\ Start => IInv'
<1> SUFFICES ASSUME IInv, Start PROVE IInv'
  OBVIOUS
<1>1. Consumer \notin ToSet(ready) /\ Consumer \in Int /\ ready \in Seq(Int) /\ IsInjective(ready)
  BY DEF IInv, TypeOK, EachOnce, Entries, Start, Consumer
<1>2. /\ Append(ready, Consumer) \in Seq(Int)
      /\ ToSet(Append(ready, Consumer)) = ToSet(ready) \cup {Consumer}
      /\ IsInjective(Append(ready, Consumer))
  BY <1>1, AppendFacts
<1>3. ready' = Append(ready, Consumer) /\ consumer = "off" /\ consumer' = "ready"
      /\ UNCHANGED <<emitted, queue, putters, tasks, current, stopper, outcome, overflowed, ends>>
  BY DEF Start
<1>4. Hand = {} /\ Hand' = {} /\ Pending' = Pending
  BY <1>2, <1>3 DEF Hand, Pending, outcome
<1>5. TypeOK'
  BY <1>2, <1>3, SMTT(30) DEF IInv, TypeOK, tasks, outcome, Consumer
<1>6. EachOnce'
  BY <1>2, <1>3 DEF IInv, EachOnce, outcome
<1>7. Apart'
  BY <1>2, <1>3, <1>4, ConsumerFacts DEF IInv, Apart, outcome
<1>8. Covered'
  BY <1>3, <1>4 DEF IInv, Covered, outcome
<1>9. Entries'
  BY <1>2, <1>3 DEF IInv, Entries, None, Consumer
<1> QED BY <1>5, <1>6, <1>7, <1>8, <1>9 DEF IInv

LEMMA EmitDirectIInv == IInv /\ EmitDirect => IInv'
<1> SUFFICES ASSUME IInv, EmitDirect PROVE IInv'
  OBVIOUS
<1> DEFINE e == emitted + 1
<1>1. /\ e \in Nat /\ e # None /\ e # Consumer
      /\ e \notin ToSet(queue) \cup ToSet(putters) \cup ToSet(ready) \cup Hand
      /\ e \notin ToSet(stored) \cup dropped \cup failed \cup lost
  BY FreshFacts
<1>2. /\ emitted' = e /\ emitted \in Nat /\ e <= MaxEvents /\ Room /\ Enqueue(e, ready)
      /\ stopper = "idle" /\ emitted < MaxEvents
      /\ UNCHANGED <<putters, tasks, current, stopper, outcome, overflowed, ends>>
  BY BoundsAssumption DEF EmitDirect, Serving, IInv, TypeOK
<1>3. ready \in Seq(Int) /\ IsInjective(ready)
  BY DEF IInv, TypeOK, EachOnce
<1> HIDE DEF e
<1>4. /\ queue' \in Seq(Nat) /\ Len(queue') <= QueueMax
      /\ ToSet(queue') = ToSet(queue) \cup {e}
      /\ IsInjective(queue')
      /\ ready' \in Seq(Int) /\ IsInjective(ready')
      /\ \/ ToSet(ready') = ToSet(ready)
         \/ ToSet(ready') = ToSet(ready) \cup {Consumer}
      /\ Consumer \in ToSet(ready') => consumer' = "ready"
      /\ consumer' \in {consumer, "ready"}
      /\ consumer' # consumer => consumer = "wait"
  BY <1>1, <1>2, <1>3, EnqueueFacts
<1>5. Hand' = Hand
  BY <1>2, <1>4 DEF Hand
<1>6. TypeOK'
  BY <1>1, <1>2, <1>4, SMTT(30) DEF IInv, TypeOK, tasks, outcome, Consumer, e
<1>7. EachOnce'
  BY <1>2, <1>4 DEF IInv, EachOnce, outcome
<1>8. Apart'
  BY <1>1, <1>2, <1>4, <1>5, ConsumerFacts DEF IInv, Apart, outcome
<1>9. Covered'
  <2>1. Pending' = Pending \cup {e}
    BY <1>1, <1>2, <1>4, <1>5 DEF Pending
  <2>2. 1..emitted' = 1..emitted \cup {e}
    BY <1>2 DEF e
  <2> QED BY <1>2, <2>1, <2>2 DEF IInv, Covered, outcome
<1>10. Entries'
  BY <1>1, <1>2, <1>4 DEF IInv, Entries, None, Consumer, e
<1> QED BY <1>6, <1>7, <1>8, <1>9, <1>10 DEF IInv

LEMMA EmitOverflowIInv == IInv /\ EmitOverflow => IInv'
<1> SUFFICES ASSUME IInv, EmitOverflow PROVE IInv'
  OBVIOUS
<1> DEFINE e == emitted + 1
<1>1. /\ e \in Nat /\ e # None /\ e # Consumer
      /\ e \notin ToSet(queue) \cup ToSet(putters) \cup ToSet(ready) \cup Hand
      /\ e \notin ToSet(stored) \cup dropped \cup failed \cup lost
  BY FreshFacts
<1>2. /\ emitted' = e /\ emitted \in Nat /\ e <= MaxEvents
      /\ ready' = Append(ready, e) /\ ready \in Seq(Int) /\ IsInjective(ready)
      /\ spawned' = spawned \cup {e} /\ overflowed' = overflowed \cup {e}
      /\ UNCHANGED <<queue, putters, nested, consumer, current, stopper, outcome, ends>>
  BY BoundsAssumption DEF EmitOverflow, Serving, IInv, TypeOK, EachOnce
<1>3. /\ ready' \in Seq(Int) /\ IsInjective(ready')
      /\ ToSet(ready') = ToSet(ready) \cup {e}
  <2>1. /\ Append(ready, e) \in Seq(Int)
        /\ ToSet(Append(ready, e)) = ToSet(ready) \cup {e}
        /\ IsInjective(ready) /\ e \notin ToSet(ready) => IsInjective(Append(ready, e))
    BY <1>2, AppendFacts
  <2> QED BY <1>1, <1>2, <2>1
<1>4. Hand' = Hand
  BY <1>2 DEF Hand
<1>5. TypeOK'
  <2>1. e \in 1..e /\ -1..emitted \subseteq -1..e /\ 0..emitted \subseteq 0..e
        /\ 1..emitted \subseteq 1..e /\ e \in 0..MaxEvents
    BY <1>2, BoundsAssumption
  <2>2. ToSet(ready') \subseteq -1..e /\ spawned' \subseteq 1..e /\ overflowed' \subseteq 1..e
    BY <1>2, <1>3, <2>1 DEF IInv, TypeOK
  <2> HIDE DEF e
  <2> QED BY <1>2, <1>3, <2>1, <2>2 DEF IInv, TypeOK, outcome
<1>6. EachOnce'
  BY <1>2, <1>3 DEF IInv, EachOnce, outcome
<1> HIDE DEF e
<1>7. Apart'
  BY <1>1, <1>2, <1>3, <1>4 DEF IInv, Apart, outcome
<1>8. Covered'
  <2>1. Pending' = Pending \cup {e}
    BY <1>1, <1>2, <1>3, <1>4 DEF Pending
  <2>2. 1..emitted' = 1..emitted \cup {e}
    BY <1>2 DEF e
  <2> QED BY <1>2, <2>1, <2>2 DEF IInv, Covered, outcome
<1>9. Entries'
  BY <1>1, <1>2, <1>3 DEF IInv, Entries, e
<1> QED BY <1>5, <1>6, <1>7, <1>8, <1>9 DEF IInv

\* The put that is next to run is an item, and in no other place.
LEMMA NextPutFacts ==
    ASSUME IInv, NEW item, NextPut(item)
    PROVE  /\ item \in Nat /\ item \in 0..emitted
           /\ item \notin ToSet(queue) \cup ToSet(putters) \cup Hand
           /\ item \notin ToSet(stored) \cup dropped \cup failed \cup lost
           /\ Tail(ready) \in Seq(Int) /\ IsInjective(Tail(ready))
           /\ item \notin ToSet(Tail(ready))
           /\ ToSet(ready) = ToSet(Tail(ready)) \cup {item}
<1>1. /\ Tail(ready) \in Seq(Int) /\ IsInjective(Tail(ready))
      /\ item \in Int /\ item \notin ToSet(Tail(ready))
      /\ ToSet(ready) = ToSet(Tail(ready)) \cup {item}
  BY ReadyFacts DEF NextPut
<1>2. item \in -1..emitted /\ item # -1 /\ emitted \in Nat
  BY <1>1 DEF IInv, TypeOK, NextPut, Consumer
<1> QED BY <1>1, <1>2 DEF IInv, Apart

LEMMA EnterWaitForIInv ==
    ASSUME IInv, NEW item, EnterWaitFor(item)
    PROVE  IInv'
<1>1. /\ item \in Int /\ item \notin ToSet(Tail(ready))
      /\ Tail(ready) \in Seq(Int) /\ IsInjective(Tail(ready))
      /\ ToSet(ready) = ToSet(Tail(ready)) \cup {item}
  BY NextPutFacts DEF EnterWaitFor
<1>2. /\ Append(Tail(ready), item) \in Seq(Int)
      /\ ToSet(Append(Tail(ready), item)) = ToSet(Tail(ready)) \cup {item}
      /\ IsInjective(Append(Tail(ready), item))
  <2>1. item \in Int /\ item \notin ToSet(Tail(ready))
    BY <1>1
  <2>2. Tail(ready) \in Seq(Int) /\ IsInjective(Tail(ready))
    BY <1>1
  <2> QED BY <2>1, <2>2, AppendFacts, ZenonT(30)
<1>3. /\ ready' \in Seq(Int) /\ IsInjective(ready') /\ ToSet(ready') = ToSet(ready)
      /\ spawned' \subseteq spawned /\ nested' \subseteq nested \cup spawned
      /\ UNCHANGED <<emitted, queue, putters, consumer, current, stopper, outcome,
                     overflowed, ends>>
  BY <1>1, <1>2 DEF EnterWaitFor
<1>4. Hand' = Hand /\ Pending' = Pending
  BY <1>3 DEF Hand, Pending
<1>5. TypeOK'
  BY <1>3 DEF IInv, TypeOK, outcome
<1>6. EachOnce' /\ Apart' /\ Covered' /\ Entries'
  BY <1>3, <1>4 DEF IInv, EachOnce, Apart, Covered, Entries, outcome
<1> QED BY <1>5, <1>6 DEF IInv

LEMMA PutLandsIInv ==
    ASSUME IInv, NEW item, PutLands(item)
    PROVE  IInv'
<1>1. /\ item \in Nat /\ item \in 0..emitted
      /\ item \notin ToSet(queue) \cup ToSet(putters) \cup Hand
      /\ item \notin ToSet(stored) \cup dropped \cup failed \cup lost
      /\ Tail(ready) \in Seq(Int) /\ IsInjective(Tail(ready))
      /\ item \notin ToSet(Tail(ready))
      /\ ToSet(ready) = ToSet(Tail(ready)) \cup {item}
  BY NextPutFacts DEF PutLands
<1>2. /\ Room /\ Enqueue(item, Tail(ready))
      /\ spawned' \subseteq spawned /\ nested' \subseteq nested
      /\ stopper' = IF item = None THEN "join" ELSE stopper
      /\ UNCHANGED <<emitted, putters, current, outcome, overflowed, ends>>
  BY DEF PutLands
<1>3. /\ queue' \in Seq(Nat) /\ Len(queue') <= QueueMax
      /\ ToSet(queue') = ToSet(queue) \cup {item}
      /\ IsInjective(queue')
      /\ ready' \in Seq(Int) /\ IsInjective(ready')
      /\ \/ ToSet(ready') = ToSet(Tail(ready))
         \/ ToSet(ready') = ToSet(Tail(ready)) \cup {Consumer}
      /\ Consumer \in ToSet(ready') => consumer' = "ready"
      /\ consumer' \in {consumer, "ready"}
      /\ consumer' # consumer => consumer = "wait"
  BY <1>1, <1>2, EnqueueFacts
<1>4. Hand' = Hand
  BY <1>2, <1>3 DEF Hand
<1>5. Consumer # item /\ Consumer \notin ToSet(queue) \cup ToSet(putters) \cup Hand
      /\ Consumer \notin ToSet(stored) \cup dropped \cup failed \cup lost
  BY <1>1, ConsumerFacts DEF Consumer
<1>6. TypeOK'
  <2>1. ToSet(queue') \subseteq 0..emitted /\ ToSet(ready') \subseteq -1..emitted
    BY <1>1, <1>3 DEF IInv, TypeOK, Consumer
  <2>2. consumer' \in {"off", "ready", "wait", "append", "done"}
        /\ stopper' \in {"idle", "put", "join", "stopped"}
    BY <1>2, <1>3 DEF IInv, TypeOK
  <2> QED BY <1>2, <1>3, <2>1, <2>2 DEF IInv, TypeOK, outcome
<1>7. EachOnce'
  BY <1>2, <1>3 DEF IInv, EachOnce, outcome
<1>8. Apart'
  BY <1>1, <1>2, <1>3, <1>4, <1>5 DEF IInv, Apart, outcome
<1>9. Covered'
  <2>1. Pending' = Pending
    BY <1>1, <1>2, <1>3, <1>4 DEF Pending
  <2> QED BY <1>2, <2>1 DEF IInv, Covered, outcome
<1>10. Entries'
  <2>1. stopper' = "idle" => item # None /\ stopper = "idle"
    BY <1>2
  <2> QED BY <1>1, <1>2, <1>3, <2>1 DEF IInv, Entries, None, Consumer
<1> QED BY <1>6, <1>7, <1>8, <1>9, <1>10 DEF IInv

LEMMA PutWaitsIInv ==
    ASSUME IInv, NEW item, PutWaits(item)
    PROVE  IInv'
<1>1. /\ item \in Nat /\ item \in 0..emitted
      /\ item \notin ToSet(queue) \cup ToSet(putters) \cup Hand
      /\ item \notin ToSet(stored) \cup dropped \cup failed \cup lost
      /\ Tail(ready) \in Seq(Int) /\ IsInjective(Tail(ready))
      /\ item \notin ToSet(Tail(ready))
      /\ ToSet(ready) = ToSet(Tail(ready)) \cup {item}
  BY NextPutFacts DEF PutWaits
<1>2. putters \in Seq(Nat) /\ IsInjective(putters)
  BY DEF IInv, TypeOK, EachOnce
<1>3. /\ Append(putters, item) \in Seq(Nat)
      /\ ToSet(Append(putters, item)) = ToSet(putters) \cup {item}
      /\ IsInjective(Append(putters, item))
  BY <1>1, <1>2, AppendFacts
<1>4. /\ putters' = Append(putters, item) /\ ready' = Tail(ready)
      /\ spawned' \subseteq spawned /\ nested' \subseteq nested
      /\ UNCHANGED <<emitted, queue, consumer, current, stopper, outcome, overflowed, ends>>
  BY DEF PutWaits
<1>5. Hand' = Hand /\ Pending' = Pending
  BY <1>1, <1>3, <1>4 DEF Hand, Pending
<1>6. TypeOK'
  BY <1>1, <1>3, <1>4 DEF IInv, TypeOK, outcome
<1>7. EachOnce'
  BY <1>1, <1>3, <1>4 DEF IInv, EachOnce, outcome
<1>8. Apart'
  BY <1>1, <1>3, <1>4, <1>5 DEF IInv, Apart, outcome
<1>9. Covered' /\ Entries'
  BY <1>1, <1>3, <1>4, <1>5 DEF IInv, Covered, Entries, outcome
<1> QED BY <1>6, <1>7, <1>8, <1>9 DEF IInv

LEMMA ExpireWaitingIInv == IInv /\ ExpireWaiting => IInv'
<1> SUFFICES ASSUME IInv, ExpireWaiting PROVE IInv'
  OBVIOUS
<1>1. PICK i \in DOMAIN putters :
        /\ putters[i] # None
        /\ putters' = RemoveAt(putters, i)
        /\ dropped' = dropped \cup {putters[i]}
        /\ UNCHANGED <<emitted, queue, ready, tasks, consumer, current, stopper,
                       stored, failed, lost, overflowed, ends>>
  BY DEF ExpireWaiting
<1> DEFINE e == putters[i]
<1>2. putters \in Seq(Nat) /\ IsInjective(putters)
  BY DEF IInv, TypeOK, EachOnce
<1>3. /\ putters' \in Seq(Nat) /\ IsInjective(putters')
      /\ ToSet(putters) = ToSet(putters') \cup {e} /\ e \notin ToSet(putters')
  BY <1>1, <1>2, RemoveAtFacts
<1> HIDE DEF e
<1>4. e \in 1..emitted /\ e # None /\ e # Consumer
  <2>1. e # None
    BY <1>1 DEF e
  <2> QED BY <1>3, <2>1 DEF IInv, TypeOK, None, Consumer
<1>5. /\ dropped' = dropped \cup {e}
      /\ UNCHANGED <<emitted, queue, ready, spawned, nested, consumer, current, stopper,
                     stored, failed, lost, overflowed, ends>>
  BY <1>1 DEF e, tasks
<1>6. e \notin ToSet(queue) \cup ToSet(ready) \cup Hand
      /\ e \notin ToSet(stored) \cup dropped \cup failed \cup lost
  BY <1>3 DEF IInv, Apart
<1>7. Hand' = Hand
  BY <1>5 DEF Hand
<1>8. TypeOK'
  BY <1>3, <1>4, <1>5 DEF IInv, TypeOK
<1>9. EachOnce'
  BY <1>3, <1>5 DEF IInv, EachOnce
<1>10. Apart'
  BY <1>3, <1>5, <1>6, <1>7 DEF IInv, Apart
<1>11. Covered'
  <2>1. Pending = Pending' \cup {e}
    BY <1>3, <1>4, <1>5, <1>6, <1>7 DEF Pending
  <2> QED BY <1>5, <2>1 DEF IInv, Covered
<1>12. Entries'
  BY <1>3, <1>5 DEF IInv, Entries
<1> QED BY <1>8, <1>9, <1>10, <1>11, <1>12 DEF IInv

LEMMA ExpireWokenIInv ==
    ASSUME IInv, NEW item, ExpireWoken(item)
    PROVE  IInv'
<1>1. /\ item \in Nat /\ item \in 0..emitted
      /\ item \notin ToSet(queue) \cup ToSet(putters) \cup Hand
      /\ item \notin ToSet(stored) \cup dropped \cup failed \cup lost
      /\ Tail(ready) \in Seq(Int) /\ IsInjective(Tail(ready))
      /\ item \notin ToSet(Tail(ready))
      /\ ToSet(ready) = ToSet(Tail(ready)) \cup {item}
  BY NextPutFacts DEF ExpireWoken
<1>2. /\ item # None /\ dropped' = dropped \cup {item}
      /\ UNCHANGED <<emitted, queue, spawned, nested, consumer, current, stopper, stored,
                     failed, lost, overflowed, ends>>
  BY DEF ExpireWoken, tasks
<1>3. /\ putters' \in Seq(Nat) /\ ready' \in Seq(Int)
      /\ ToSet(putters') \cup ToSet(ready') = ToSet(putters) \cup ToSet(Tail(ready))
      /\ ToSet(putters') \subseteq ToSet(putters)
      /\ ToSet(putters') \cap ToSet(ready') = {}
      /\ IsInjective(putters') /\ IsInjective(ready')
  <2>1. CASE Room
    <3>1. WakePut(Tail(ready))
      BY <2>1 DEF ExpireWoken
    <3> QED BY <1>1, <3>1, WakePutFacts
  <2>2. CASE ~Room
    <3>1. ready' = Tail(ready) /\ putters' = putters
      BY <2>2 DEF ExpireWoken
    <3> QED BY <1>1, <3>1 DEF IInv, TypeOK, EachOnce, Apart
  <2> QED BY <2>1, <2>2
<1>4. item \in 1..emitted /\ item # Consumer
  BY <1>1, <1>2 DEF None, Consumer
<1>5. Hand' = Hand
  BY <1>2 DEF Hand
<1>6. TypeOK'
  <2>1. ToSet(putters') \subseteq 0..emitted /\ ToSet(ready') \subseteq -1..emitted
    BY <1>1, <1>3 DEF IInv, TypeOK
  <2> QED BY <1>2, <1>3, <1>4, <2>1 DEF IInv, TypeOK
<1>7. EachOnce'
  BY <1>2, <1>3 DEF IInv, EachOnce
<1>8. Apart'
  BY <1>1, <1>2, <1>3, <1>5 DEF IInv, Apart
<1>9. Covered'
  <2>1. Pending = Pending' \cup {item} /\ item \notin Pending'
    BY <1>1, <1>2, <1>3, <1>4, <1>5 DEF Pending
  <2> QED BY <1>2, <2>1 DEF IInv, Covered
<1>10. Entries'
  <2>1. Consumer \notin ToSet(putters)
    BY ConsumerFacts
  <2> QED BY <1>1, <1>2, <1>3, <2>1 DEF IInv, Entries
<1> QED BY <1>6, <1>7, <1>8, <1>9, <1>10 DEF IInv

LEMMA WaitForItemIInv == IInv /\ WaitForItem => IInv'
<1> SUFFICES ASSUME IInv, WaitForItem PROVE IInv'
  OBVIOUS
<1>1. /\ Tail(ready) \in Seq(Int) /\ IsInjective(Tail(ready))
      /\ Consumer \notin ToSet(Tail(ready))
      /\ ToSet(ready) = ToSet(Tail(ready)) \cup {Consumer}
  BY ReadyFacts DEF WaitForItem, ConsumerRuns
<1>2. /\ ready' = Tail(ready) /\ consumer' = "wait" /\ consumer = "ready"
      /\ UNCHANGED <<emitted, queue, putters, spawned, nested, current, stopper, outcome,
                     overflowed, ends>>
  BY <1>1 DEF WaitForItem, tasks, IInv, Entries
<1>3. Hand = {} /\ Hand' = {}
  BY <1>2 DEF Hand
<1>4. Pending' = Pending
  BY <1>1, <1>2, <1>3 DEF Pending
<1>5. TypeOK'
  BY <1>1, <1>2 DEF IInv, TypeOK, outcome
<1>6. EachOnce'
  BY <1>1, <1>2 DEF IInv, EachOnce, outcome
<1>7. Apart'
  BY <1>1, <1>2, <1>3 DEF IInv, Apart, outcome
<1>8. Covered'
  BY <1>2, <1>4 DEF IInv, Covered, outcome
<1>9. Entries'
  BY <1>1, <1>2 DEF IInv, Entries, outcome
<1> QED BY <1>5, <1>6, <1>7, <1>8, <1>9 DEF IInv

LEMMA TakeIInv == IInv /\ Take => IInv'
<1> SUFFICES ASSUME IInv, Take PROVE IInv'
  OBVIOUS
<1> DEFINE e == Head(queue)
<1>1. /\ Tail(ready) \in Seq(Int) /\ IsInjective(Tail(ready))
      /\ Consumer \notin ToSet(Tail(ready))
      /\ ToSet(ready) = ToSet(Tail(ready)) \cup {Consumer}
  BY ReadyFacts DEF Take, ConsumerRuns
<1>2. /\ queue' = Tail(queue) /\ WakePut(Tail(ready)) /\ consumer = "ready"
      /\ UNCHANGED <<emitted, spawned, nested, stopper, outcome, overflowed, ends>>
  BY <1>1 DEF Take, tasks, IInv, Entries
<1>3. queue \in Seq(Nat) /\ queue # <<>> /\ IsInjective(queue) /\ Len(queue) \in Nat
  BY LenProperties DEF Take, IInv, TypeOK, EachOnce
<1>4. /\ queue' \in Seq(Nat) /\ IsInjective(queue') /\ Len(queue') <= QueueMax
      /\ e \in Nat /\ e \notin ToSet(queue') /\ ToSet(queue) = ToSet(queue') \cup {e}
  <2>1. /\ Tail(queue) \in Seq(Nat) /\ IsInjective(Tail(queue))
        /\ Len(Tail(queue)) = Len(queue) - 1
        /\ e \in Nat /\ e \notin ToSet(Tail(queue))
        /\ ToSet(queue) = ToSet(Tail(queue)) \cup {e}
    BY <1>3, TailFacts
  <2>2. Len(queue) - 1 <= QueueMax
    BY <1>3, QueueMaxAssumption DEF IInv, TypeOK
  <2> QED BY <1>2, <2>1, <2>2
<1>5. /\ putters' \in Seq(Nat) /\ ready' \in Seq(Int)
      /\ ToSet(putters') \cup ToSet(ready') = ToSet(putters) \cup ToSet(Tail(ready))
      /\ ToSet(putters') \subseteq ToSet(putters)
      /\ ToSet(putters') \cap ToSet(ready') = {}
      /\ IsInjective(putters') /\ IsInjective(ready')
  BY <1>1, <1>2, WakePutFacts
<1>6. IF e = None THEN consumer' = "done" /\ current' = current
                  ELSE consumer' = "append" /\ current' = e
  BY DEF Take
<1> HIDE DEF e
<1>7. Hand = {} /\ Hand' = {e} \ {None}
  BY <1>2, <1>6 DEF Hand
<1>8. e \in 0..emitted /\ e # Consumer
      /\ e \notin ToSet(putters) \cup ToSet(ready)
      /\ e \notin ToSet(stored) \cup dropped \cup failed \cup lost
  BY <1>4 DEF IInv, TypeOK, Apart, Consumer
<1>9. Consumer \notin ToSet(putters)
  BY ConsumerFacts
<1>10. TypeOK'
  <2>1. ToSet(putters') \subseteq 0..emitted /\ ToSet(ready') \subseteq -1..emitted
        /\ ToSet(queue') \subseteq 0..emitted
    BY <1>1, <1>4, <1>5, SMTT(30) DEF IInv, TypeOK
  <2>2. current' \in 0..emitted /\ consumer' \in {"off", "ready", "wait", "append", "done"}
    BY <1>6, <1>8 DEF IInv, TypeOK
  <2> QED BY <1>2, <1>4, <1>5, <2>1, <2>2 DEF IInv, TypeOK, outcome
<1>11. EachOnce'
  BY <1>2, <1>4, <1>5 DEF IInv, EachOnce, outcome
<1>12. Apart'
  BY <1>1, <1>2, <1>4, <1>5, <1>7, <1>8 DEF IInv, Apart, outcome
<1>13. Covered'
  <2>1. Pending' = Pending
    BY <1>1, <1>2, <1>4, <1>5, <1>7, <1>8, <1>9 DEF Pending
  <2> QED BY <1>2, <2>1 DEF IInv, Covered, outcome
<1>14. Entries'
  <2>1. consumer' = "append" => current' \in 1..emitted'
    BY <1>2, <1>6, <1>8 DEF None
  <2>2. Consumer \notin ToSet(ready')
    BY <1>1, <1>5, <1>9
  <2> QED BY <1>1, <1>2, <1>4, <1>5, <2>1, <2>2 DEF IInv, Entries
<1> QED BY <1>10, <1>11, <1>12, <1>13, <1>14 DEF IInv

LEMMA AppendReturnsIInv == IInv /\ AppendReturns => IInv'
<1> SUFFICES ASSUME IInv, AppendReturns PROVE IInv'
  OBVIOUS
<1>1. /\ consumer = "append" /\ consumer' = "ready" /\ ready' = Append(ready, Consumer)
      /\ UNCHANGED <<emitted, queue, putters, spawned, nested, current, stopper, dropped,
                     lost, overflowed, ends>>
  BY DEF AppendReturns, tasks
<1>2. /\ ready' \in Seq(Int) /\ IsInjective(ready')
      /\ ToSet(ready') = ToSet(ready) \cup {Consumer} /\ Consumer \notin ToSet(ready)
  <2>1. ready \in Seq(Int) /\ IsInjective(ready) /\ Consumer \notin ToSet(ready)
    BY <1>1 DEF IInv, TypeOK, EachOnce, Entries
  <2>2. Consumer \in Int
    BY DEF Consumer
  <2>3. /\ Append(ready, Consumer) \in Seq(Int)
        /\ ToSet(Append(ready, Consumer)) = ToSet(ready) \cup {Consumer}
        /\ IsInjective(Append(ready, Consumer))
    BY <2>1, <2>2, AppendFacts
  <2> QED BY <1>1, <2>1, <2>3
<1>3. /\ current \in 1..emitted /\ current \in Nat
      /\ current \notin ToSet(queue) \cup ToSet(putters) \cup ToSet(ready)
      /\ current \notin ToSet(stored) \cup dropped \cup failed \cup lost
      /\ Hand = {current} /\ Hand' = {}
  BY <1>1 DEF IInv, TypeOK, Entries, Apart, Hand
<1>4. /\ stored' \in Seq(Nat) /\ IsInjective(stored') /\ failed' \subseteq 1..emitted
      /\ \/ ToSet(stored') = ToSet(stored) \cup {current} /\ failed' = failed
         \/ ToSet(stored') = ToSet(stored) /\ failed' = failed \cup {current}
  <2>1. CASE stored' = Append(stored, current) /\ UNCHANGED failed
    <3>1. stored \in Seq(Nat) /\ IsInjective(stored) /\ current \notin ToSet(stored)
          /\ failed \subseteq 1..emitted
      BY <1>3 DEF IInv, TypeOK, EachOnce
    <3>2. /\ Append(stored, current) \in Seq(Nat)
          /\ ToSet(Append(stored, current)) = ToSet(stored) \cup {current}
          /\ IsInjective(Append(stored, current))
      BY <1>3, <3>1, AppendFacts
    <3> QED BY <2>1, <3>1, <3>2
  <2>2. CASE failed' = failed \cup {current} /\ UNCHANGED stored
    BY <1>3, <2>2 DEF IInv, TypeOK, EachOnce
  <2> QED BY <2>1, <2>2 DEF AppendReturns
<1>5. Consumer \notin ToSet(queue) \cup ToSet(putters)
      /\ Consumer \notin ToSet(stored') \cup dropped \cup failed' \cup lost
  <2>1. Consumer # current
    BY <1>3 DEF Consumer
  <2> QED BY <1>4, <2>1, ConsumerFacts
<1>6. TypeOK'
  <2>1. ToSet(ready') \subseteq -1..emitted /\ ToSet(stored') \subseteq 1..emitted
    BY <1>2, <1>3, <1>4 DEF IInv, TypeOK, Consumer
  <2> QED BY <1>1, <1>2, <1>4, <2>1 DEF IInv, TypeOK
<1>7. EachOnce'
  BY <1>1, <1>2, <1>4 DEF IInv, EachOnce
<1>8. Apart'
  BY <1>1, <1>2, <1>3, <1>4, <1>5 DEF IInv, Apart
<1>9. Covered'
  <2>1. Pending = Pending' \cup {current}
    BY <1>1, <1>2, <1>3 DEF Pending, None, Consumer
  <2> QED BY <1>1, <1>4, <2>1 DEF IInv, Covered
<1>10. Entries'
  BY <1>1, <1>2 DEF IInv, Entries, None, Consumer
<1> QED BY <1>6, <1>7, <1>8, <1>9, <1>10 DEF IInv

LEMMA StopIInv == IInv /\ Stop => IInv'
<1> SUFFICES ASSUME IInv, Stop PROVE IInv'
  OBVIOUS
<1>1. /\ consumer # "off" /\ stopper = "idle"
      /\ UNCHANGED <<emitted, spawned, nested, current, stored, dropped, failed, lost,
                     overflowed, ends>>
  BY DEF Stop, tasks, outcome
<1>2. /\ None \in Nat /\ None \in 0..emitted /\ None # Consumer
      /\ None \notin ToSet(queue) \cup ToSet(putters) \cup ToSet(ready) \cup Hand
      /\ None \notin ToSet(stored) \cup dropped \cup failed \cup lost
  BY <1>1 DEF IInv, TypeOK, Entries, Hand, None, Consumer
<1>3. ready \in Seq(Int) /\ IsInjective(ready) /\ putters \in Seq(Nat) /\ IsInjective(putters)
  BY DEF IInv, TypeOK, EachOnce
<1>4. CASE Room /\ Enqueue(None, ready) /\ stopper' = "join" /\ UNCHANGED putters
  <2>1. /\ queue' \in Seq(Nat) /\ Len(queue') <= QueueMax
        /\ ToSet(queue') = ToSet(queue) \cup {None}
        /\ IsInjective(queue')
        /\ ready' \in Seq(Int) /\ IsInjective(ready')
        /\ \/ ToSet(ready') = ToSet(ready)
           \/ ToSet(ready') = ToSet(ready) \cup {Consumer}
        /\ Consumer \in ToSet(ready') => consumer' = "ready"
        /\ consumer' \in {consumer, "ready"}
        /\ consumer' # consumer => consumer = "wait"
    BY <1>2, <1>3, <1>4, EnqueueFacts
  <2>2. Hand' = Hand
    BY <1>1, <2>1 DEF Hand
  <2>3. TypeOK'
    <3>1. ToSet(queue') \subseteq 0..emitted /\ ToSet(ready') \subseteq -1..emitted
      BY <1>2, <2>1 DEF IInv, TypeOK, Consumer
    <3>2. consumer' \in {"off", "ready", "wait", "append", "done"}
      BY <2>1 DEF IInv, TypeOK
    <3> QED BY <1>1, <1>4, <2>1, <3>1, <3>2 DEF IInv, TypeOK
  <2>4. EachOnce'
    BY <1>1, <1>4, <2>1 DEF IInv, EachOnce
  <2>5. Apart'
    BY <1>1, <1>2, <1>4, <2>1, <2>2, ConsumerFacts DEF IInv, Apart
  <2>6. Covered'
    <3>1. Pending' = Pending
      BY <1>2, <1>4, <2>1, <2>2 DEF Pending
    <3> QED BY <1>1, <3>1 DEF IInv, Covered
  <2>7. Entries'
    BY <1>1, <1>4, <2>1 DEF IInv, Entries
  <2> QED BY <2>3, <2>4, <2>5, <2>6, <2>7 DEF IInv
<1>5. CASE putters' = Append(putters, None) /\ stopper' = "put"
           /\ UNCHANGED <<queue, ready, consumer>>
  <2>1. /\ putters' \in Seq(Nat) /\ IsInjective(putters')
        /\ ToSet(putters') = ToSet(putters) \cup {None}
    <3>1. /\ Append(putters, None) \in Seq(Nat)
          /\ ToSet(Append(putters, None)) = ToSet(putters) \cup {None}
          /\ IsInjective(Append(putters, None))
      BY <1>2, <1>3, AppendFacts
    <3> QED BY <1>5, <3>1
  <2>2. Hand' = Hand /\ Pending' = Pending
    BY <1>1, <1>2, <1>5, <2>1 DEF Hand, Pending
  <2>3. TypeOK'
    BY <1>1, <1>2, <1>5, <2>1 DEF IInv, TypeOK
  <2>4. EachOnce'
    BY <1>1, <1>5, <2>1 DEF IInv, EachOnce
  <2>5. Apart'
    BY <1>1, <1>2, <1>5, <2>1, <2>2 DEF IInv, Apart
  <2>6. Covered' /\ Entries'
    BY <1>1, <1>5, <2>2 DEF IInv, Covered, Entries
  <2> QED BY <2>3, <2>4, <2>5, <2>6 DEF IInv
<1> QED BY <1>4, <1>5 DEF Stop

LEMMA EndProcessIInv == IInv /\ EndProcess => IInv'
<1> SUFFICES ASSUME IInv, EndProcess PROVE IInv'
  OBVIOUS
<1>1. /\ ends < MaxEnds /\ ends' = ends + 1 /\ lost' = lost \cup Pending
      /\ queue' = <<>> /\ putters' = <<>> /\ ready' = <<>>
      /\ spawned' = {} /\ nested' = {}
      /\ consumer' = "off" /\ current' = None /\ stopper' = "idle"
      /\ UNCHANGED <<emitted, stored, dropped, failed, overflowed>>
  BY DEF EndProcess
<1>2. ToSet(queue') = {} /\ ToSet(putters') = {} /\ ToSet(ready') = {} /\ Hand' = {}
      /\ IsInjective(queue') /\ IsInjective(putters') /\ IsInjective(ready')
      /\ queue' \in Seq(Nat) /\ putters' \in Seq(Nat) /\ ready' \in Seq(Int)
      /\ Len(queue') = 0
  BY <1>1 DEF ToSet, IsInjective, Hand
<1>3. Pending' = {}
  BY <1>2 DEF Pending
<1>4. Pending \subseteq 1..emitted
  BY DEF IInv, Covered
<1>5. Pending \cap (ToSet(stored) \cup dropped \cup failed \cup lost) = {}
  BY DEF IInv, Apart, Pending
<1>6. TypeOK'
  BY <1>1, <1>2, <1>4, QueueMaxAssumption, BoundsAssumption DEF IInv, TypeOK, None
<1>7. EachOnce'
  BY <1>1, <1>2 DEF IInv, EachOnce
<1>8. Apart'
  BY <1>1, <1>2, <1>5 DEF IInv, Apart
<1>9. Covered'
  BY <1>1, <1>3 DEF IInv, Covered
<1>10. Entries'
  BY <1>1, <1>2 DEF Entries
<1> QED BY <1>6, <1>7, <1>8, <1>9, <1>10 DEF IInv

LEMMA StutterIInv == IInv /\ UNCHANGED vars => IInv'
BY SMTT(30) DEF IInv, TypeOK, EachOnce, Apart, Covered, Entries, Pending, Hand, vars

LEMMA StopReturnsIInv == IInv /\ StopReturns => IInv'
<1> SUFFICES ASSUME IInv, StopReturns PROVE IInv'
  OBVIOUS
<1>1. /\ stopper = "join" /\ stopper' = "stopped"
      /\ UNCHANGED <<emitted, queue, putters, ready, spawned, nested, consumer, current,
                     stored, dropped, failed, lost, overflowed, ends>>
  BY DEF StopReturns, tasks, outcome
<1>2. Hand' = Hand /\ Pending' = Pending
  BY <1>1 DEF Hand, Pending
<1>3. TypeOK'
  BY <1>1 DEF IInv, TypeOK
<1>4. EachOnce' /\ Apart' /\ Covered' /\ Entries'
  BY <1>1, <1>2 DEF IInv, EachOnce, Apart, Covered, Entries
<1> QED BY <1>3, <1>4 DEF IInv

--------------------------------------------------------------------------------
LEMMA NextIInv == IInv /\ [Next]_vars => IInv'
<1> SUFFICES ASSUME IInv, [Next]_vars PROVE IInv'
  OBVIOUS
<1>1. ASSUME NEW item \in ToSet(ready),
             EnterWaitFor(item) \/ PutLands(item) \/ PutWaits(item) \/ ExpireWoken(item)
      PROVE  IInv'
  BY <1>1, EnterWaitForIInv, PutLandsIInv, PutWaitsIInv, ExpireWokenIInv
<1>2. CASE Start \/ EmitDirect \/ EmitOverflow \/ ExpireWaiting
  BY <1>2, StartIInv, EmitDirectIInv, EmitOverflowIInv, ExpireWaitingIInv
<1>3. CASE WaitForItem \/ Take \/ AppendReturns
  BY <1>3, WaitForItemIInv, TakeIInv, AppendReturnsIInv
<1>4. CASE Stop \/ StopReturns \/ EndProcess
  BY <1>4, StopIInv, StopReturnsIInv, EndProcessIInv
<1>5. CASE Stopped \/ UNCHANGED vars
  BY <1>5, StutterIInv DEF Stopped
<1> QED BY <1>1, <1>2, <1>3, <1>4, <1>5 DEF Next

\* IInv is inductive.
THEOREM WriterIInv == Spec => []IInv
BY InitIInv, NextIInv, PTL DEF Spec

\* The audit writer's state keeps its type: no queue outgrows its bound
\* (AuditWriter, writer.py:16-93).
THEOREM WriterTypeOK == Spec => []TypeOK
<1>1. IInv => TypeOK
  BY DEF IInv
<1> QED BY <1>1, WriterIInv, PTL

\* Every emitted event is in exactly one place, once: no interleaving of overflow
\* puts, timeouts, appends, shutdown and crashes loses or doubles it
\* (emit, _enqueue_with_timeout, _consumer and stop, writer.py:29-93).
THEOREM WriterOnePlace == Spec => []OnePlace
BY ApartPlaces, WriterIInv, PTL

--------------------------------------------------------------------------------
(* Each step is a step of the audit trail, or a stutter.  The places are a     *)
(* partition, so the pending events are known from the outcomes alone.         *)

Settled == ToSet(stored) \cup dropped \cup failed \cup lost

LEMMA PendingIsTheRest == IInv => Pending = (1..emitted) \ Settled
BY DEF IInv, Covered, Apart, Pending, Settled

LEMMA PendingIsTheRestPrimed == IInv' => Pending' = (1..emitted') \ Settled'
<1> DEFINE rest == (1..emitted) \ Settled
<1>1. IInv => Pending = rest
  BY PendingIsTheRest
<1>2. (IInv => Pending = rest)'
  BY <1>1, PTL
<1> QED BY <1>2

LEMMA InitTrail == Init => Trail!TrailInit
BY DEF Init, Trail!TrailInit, Pending, Hand, ToSet

\* A step that emits and settles nothing is invisible.
LEMMA SilentStep ==
    ASSUME IInv, IInv', UNCHANGED <<emitted, outcome>>
    PROVE  UNCHANGED Trail!trailVars
<1>1. Pending' = Pending
  BY PendingIsTheRest, PendingIsTheRestPrimed DEF outcome, Settled
<1> QED BY <1>1 DEF Trail!trailVars, outcome

LEMMA EmitStep ==
    ASSUME IInv, IInv', emitted' = emitted + 1, emitted < MaxEvents, UNCHANGED outcome
    PROVE  Trail!TrailNext
<1> DEFINE events == {emitted + 1}
<1>1. emitted \in Nat /\ emitted + 1 \in 1..MaxEvents
      /\ 1..emitted' = 1..emitted \cup events /\ events \cap 1..emitted = {}
  BY BoundsAssumption DEF IInv, TypeOK
<1>2. Settled' = Settled /\ Settled \subseteq 1..emitted
  BY DEF IInv, Covered, Settled, outcome
<1>3. Pending' = Pending \cup events
  BY <1>1, <1>2, PendingIsTheRest, PendingIsTheRestPrimed
<1>4. Trail!EmitAll(events)
  BY <1>1, <1>3 DEF Trail!EmitAll, outcome
<1>5. events \in SUBSET (1..MaxEvents)
  BY <1>1
<1> QED BY <1>4, <1>5 DEF Trail!TrailNext

\* Settling one pending event takes it, and only it, from the pending ones.
LEMMA SettleFacts ==
    ASSUME IInv, IInv', UNCHANGED emitted, NEW e \in Pending, Settled' = Settled \cup {e}
    PROVE  Pending' = Pending \ {e}
BY PendingIsTheRest, PendingIsTheRestPrimed

LEMMA DropStep ==
    ASSUME IInv, IInv', UNCHANGED <<emitted, stored, failed, lost>>,
           NEW e \in Pending, dropped' = dropped \cup {e}
    PROVE  Trail!TrailNext
<1>1. Settled' = Settled \cup {e} /\ emitted' = emitted
  BY DEF Settled
<1>2. Pending' = Pending \ {e}
  BY <1>1, SettleFacts
<1>3. Trail!Drop(e)
  BY <1>2 DEF Trail!Drop
<1> QED BY <1>3 DEF Trail!TrailNext

LEMMA AppendStep == IInv /\ IInv' /\ AppendReturns => Trail!TrailNext
<1> SUFFICES ASSUME IInv, IInv', AppendReturns PROVE Trail!TrailNext
  OBVIOUS
<1>1. /\ consumer = "append" /\ UNCHANGED <<emitted, dropped, lost>>
      /\ current \in Nat /\ stored \in Seq(Nat) /\ current \in Pending
  BY DEF AppendReturns, IInv, TypeOK, Entries, Pending, Hand, None, Consumer
<1>2. CASE stored' = Append(stored, current) /\ UNCHANGED failed
  <2>1. ToSet(stored') = ToSet(stored) \cup {current}
    <3>1. ToSet(Append(stored, current)) = ToSet(stored) \cup {current}
      BY <1>1, AppendFacts
    <3> QED BY <1>2, <3>1
  <2>2. Settled' = Settled \cup {current} /\ emitted' = emitted
    BY <1>1, <1>2, <2>1 DEF Settled
  <2>3. Pending' = Pending \ {current}
    BY <1>1, <2>2, SettleFacts
  <2>4. Trail!Record(current)
    BY <1>1, <1>2, <2>1, <2>3 DEF Trail!Record
  <2> QED BY <1>1, <2>4 DEF Trail!TrailNext
<1>3. CASE failed' = failed \cup {current} /\ UNCHANGED stored
  <2>1. Settled' = Settled \cup {current} /\ emitted' = emitted
    BY <1>1, <1>3 DEF Settled
  <2>2. Pending' = Pending \ {current}
    BY <1>1, <2>1, SettleFacts
  <2>3. Trail!Refuse(current)
    BY <1>1, <1>3, <2>2 DEF Trail!Refuse
  <2> QED BY <1>1, <2>3 DEF Trail!TrailNext
<1> QED BY <1>2, <1>3 DEF AppendReturns

LEMMA EndStep == IInv /\ IInv' /\ EndProcess => Trail!TrailNext
<1> SUFFICES ASSUME IInv, IInv', EndProcess PROVE Trail!TrailNext
  OBVIOUS
<1>1. lost' = lost \cup Pending /\ UNCHANGED <<emitted, stored, dropped, failed>>
  BY DEF EndProcess
<1>2. Pending' = {}
  <2>1. Settled' = Settled \cup Pending /\ emitted' = emitted
    BY <1>1 DEF Settled
  <2> QED BY <2>1, PendingIsTheRest, PendingIsTheRestPrimed
<1>3. Trail!End
  BY <1>1, <1>2 DEF Trail!End
<1> QED BY <1>3 DEF Trail!TrailNext

LEMMA NextTrail == IInv /\ IInv' /\ [Next]_vars => [Trail!TrailNext]_(Trail!trailVars)
<1> SUFFICES ASSUME IInv, IInv', [Next]_vars
             PROVE  Trail!TrailNext \/ UNCHANGED Trail!trailVars
  OBVIOUS
<1>1. ASSUME EmitDirect \/ EmitOverflow PROVE Trail!TrailNext
  <2>1. emitted' = emitted + 1 /\ emitted < MaxEvents /\ UNCHANGED outcome
    BY <1>1 DEF EmitDirect, EmitOverflow, Serving
  <2> QED BY <2>1, EmitStep
<1>2. ASSUME NEW item \in ToSet(ready), ExpireWoken(item) PROVE Trail!TrailNext
  <2>1. item \in Pending
    BY <1>2 DEF ExpireWoken, NextPut, Pending
  <2>2. dropped' = dropped \cup {item} /\ UNCHANGED <<emitted, stored, failed, lost>>
    BY <1>2 DEF ExpireWoken
  <2> QED BY <2>1, <2>2, DropStep
<1>3. ASSUME ExpireWaiting PROVE Trail!TrailNext
  <2>1. PICK i \in DOMAIN putters :
          /\ putters[i] # None /\ dropped' = dropped \cup {putters[i]}
          /\ UNCHANGED <<emitted, stored, failed, lost>>
    BY <1>3 DEF ExpireWaiting
  <2>2. putters[i] \in ToSet(putters) /\ putters[i] # Consumer
    <3>1. putters[i] \in ToSet(putters)
      BY DEF ToSet
    <3> QED BY <3>1, ConsumerFacts
  <2>3. putters[i] \in Pending
    BY <2>1, <2>2 DEF Pending
  <2> QED BY <2>1, <2>3, DropStep
<1>4. ASSUME NEW item \in ToSet(ready),
             EnterWaitFor(item) \/ PutLands(item) \/ PutWaits(item)
      PROVE  UNCHANGED Trail!trailVars
  <2>1. UNCHANGED <<emitted, outcome>>
    BY <1>4 DEF EnterWaitFor, PutLands, PutWaits
  <2> QED BY <2>1, SilentStep
<1>5. ASSUME Start \/ WaitForItem \/ Take \/ Stop \/ StopReturns \/ Stopped \/ UNCHANGED vars
      PROVE  UNCHANGED Trail!trailVars
  <2>1. UNCHANGED <<emitted, outcome>>
    BY <1>5 DEF Start, WaitForItem, Take, Stop, StopReturns, Stopped, vars, outcome
  <2> QED BY <2>1, SilentStep
<1>6. ASSUME AppendReturns \/ EndProcess PROVE Trail!TrailNext
  BY <1>6, AppendStep, EndStep
<1> QED BY <1>1, <1>2, <1>3, <1>4, <1>5, <1>6 DEF Next

\* The writer implements the audit trail: whatever is queued, overflows, times out
\* or is cut off by shutdown and crashes, each event goes from pending to exactly
\* the outcomes the trail allows (AuditWriter, writer.py:16-93).
THEOREM WriterImplementsTrail == Spec => ImplementsTrail
<1>1. IInv /\ IInv' /\ [Next]_vars => [Trail!TrailNext]_(Trail!trailVars)
  BY NextTrail
<1> QED BY InitTrail, <1>1, WriterIInv, PTL DEF Spec, ImplementsTrail, Trail!TrailSpec
================================================================================
