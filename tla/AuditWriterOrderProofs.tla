------------------------ MODULE AuditWriterOrderProofs -------------------------
(***************************************************************************)
(* For every queue size and every number of events: rows are overtaken,    *)
(* and events stranded by stop(), only after an overflow, and no wake-up   *)
(* of a blocked put is lost.                                               *)
(***************************************************************************)
EXTENDS AuditWriterProofs, FiniteSetTheorems

\* What is put by a task, and not by emit() itself, had found the queue full.
OverflowPuts ==
    (ToSet(putters) \cup ToSet(ready)) \ {None, Consumer} \subseteq overflowed

\* On its way through the queue and the consumer's hand to the table, only an
\* overflow event, or the None item, is behind a later one.
Excused == overflowed \cup {None}
InOrderWithin(s) == \A i, j \in 1..Len(s) : i < j /\ s[i] > s[j] => s[j] \in Excused
Before(S, T) == \A x \in S, y \in T : x > y => y \in Excused
Ordered ==
    /\ InOrderWithin(stored) /\ InOrderWithin(queue)
    /\ Before(ToSet(stored), Hand)
    /\ Before(ToSet(stored), ToSet(queue)) /\ Before(Hand, ToSet(queue))

\* Only overflow events are behind the None item, and so are all that the
\* consumer leaves when it ends.
BehindNone ==
    /\ \A i, j \in 1..Len(queue) : i < j /\ queue[i] = None => queue[j] \in overflowed
    /\ consumer = "done" => stopper # "idle" /\ ToSet(queue) \subseteq Excused
    /\ stopper = "stopped" => consumer = "done"

\* While puts wait in line, every free slot has a woken put that will take it.
Woken == ToSet(ready) \ {Consumer}
WakeUps == putters # <<>> => Cardinality(Woken) + Len(queue) >= QueueMax

OInv == OverflowPuts /\ Ordered /\ BehindNone /\ WakeUps

LEMMA InitOInv == Init => OInv
BY DEF Init, OInv, OverflowPuts, Excused, InOrderWithin, Before, Ordered, BehindNone,
       WakeUps, Hand, ToSet, None, Consumer

--------------------------------------------------------------------------------
(* The facts each step needs about the queue, the hand and the woken puts *)

\* The queue and the table as sequences of their elements.
LEMMA QueueFacts ==
    ASSUME IInv
    PROVE  /\ queue \in Seq(Nat) /\ Len(queue) \in Nat
           /\ \A i \in 1..Len(queue) : queue[i] \in ToSet(queue) /\ queue[i] \in 0..emitted
           /\ \A y \in ToSet(queue) : \E i \in 1..Len(queue) : y = queue[i]
           /\ \A i, j \in 1..Len(queue) : queue[i] = queue[j] => i = j
           /\ stored \in Seq(Nat) /\ Len(stored) \in Nat
           /\ \A i \in 1..Len(stored) : stored[i] \in ToSet(stored) /\ stored[i] \in 1..emitted
           /\ emitted \in Nat
<1>1. queue \in Seq(Nat) /\ stored \in Seq(Nat) /\ emitted \in Nat
      /\ ToSet(queue) \subseteq 0..emitted /\ ToSet(stored) \subseteq 1..emitted
      /\ IsInjective(queue)
  BY DEF IInv, TypeOK, EachOnce
<1>2. /\ Len(queue) \in Nat /\ DOMAIN queue = 1..Len(queue)
      /\ Len(stored) \in Nat /\ DOMAIN stored = 1..Len(stored)
  BY <1>1, LenProperties
<1>3. \A i \in 1..Len(queue) : queue[i] \in ToSet(queue)
  BY <1>2 DEF ToSet
<1>4. \A i \in 1..Len(stored) : stored[i] \in ToSet(stored)
  BY <1>2 DEF ToSet
<1>5. \A y \in ToSet(queue) : \E i \in 1..Len(queue) : y = queue[i]
  BY <1>2 DEF ToSet
<1>6. \A i, j \in 1..Len(queue) : queue[i] = queue[j] => i = j
  BY <1>1, <1>2 DEF IsInjective
<1> QED BY <1>1, <1>2, <1>3, <1>4, <1>5, <1>6

\* A put with room appends its item and leaves the hand as it is.
LEMMA PutEffect ==
    ASSUME NEW item, NEW rest, Enqueue(item, rest), current' = current
    PROVE  /\ queue' = Append(queue, item) /\ Hand' = Hand
           /\ consumer' = "done" <=> consumer = "done"
BY DEF Enqueue, Hand

\* The woken puts are finitely many, so they can be counted.
LEMMA WokenFinite == IInv => IsFiniteSet(Woken) /\ Cardinality(Woken) \in Nat
<1> SUFFICES ASSUME IInv PROVE IsFiniteSet(Woken) /\ Cardinality(Woken) \in Nat
  OBVIOUS
<1>1. emitted \in Int /\ -1 \in Int /\ Woken \subseteq -1..emitted
  BY DEF IInv, TypeOK, Woken
<1>2. IsFiniteSet(-1..emitted)
  BY <1>1, FS_Interval
<1>3. IsFiniteSet(Woken)
  BY <1>1, <1>2, FS_Subset
<1> QED BY <1>3, FS_CardinalityType

LEMMA WokenFiniteNext == IInv' => IsFiniteSet(Woken') /\ Cardinality(Woken') \in Nat
<1> DEFINE Counted == IsFiniteSet(Woken) /\ Cardinality(Woken) \in Nat
<1>1. IInv => Counted
  BY WokenFinite
<1>2. (IInv => Counted)'
  BY <1>1, PTL
<1> QED BY <1>2

\* One more woken put counts one more.
LEMMA WokenGrows ==
    ASSUME NEW S, NEW x, IsFiniteSet(S), x \notin S
    PROVE  Cardinality(S \cup {x}) = Cardinality(S) + 1
BY FS_AddElement

--------------------------------------------------------------------------------
(* OverflowPuts *)

LEMMA OverflowPutsNext == IInv /\ OverflowPuts /\ [Next]_vars => OverflowPuts'
<1> SUFFICES ASSUME IInv, OverflowPuts, [Next]_vars PROVE OverflowPuts'
  OBVIOUS
<1>1. ASSUME Start \/ AppendReturns PROVE OverflowPuts'
  <2>1. ready \in Seq(Int) /\ Consumer \in Int
    BY DEF IInv, TypeOK, Consumer
  <2>2. ToSet(Append(ready, Consumer)) = ToSet(ready) \cup {Consumer}
    BY <2>1, AppendFacts
  <2>3. ready' = Append(ready, Consumer) /\ UNCHANGED <<putters, overflowed>>
    BY <1>1 DEF Start, AppendReturns
  <2> QED BY <2>2, <2>3 DEF OverflowPuts
<1>2. ASSUME EmitDirect PROVE OverflowPuts'
  <2>1. emitted + 1 \in Nat /\ emitted + 1 \notin ToSet(queue)
        /\ ready \in Seq(Int) /\ IsInjective(ready)
    BY FreshFacts DEF IInv, TypeOK, EachOnce
  <2>2. Room /\ Enqueue(emitted + 1, ready) /\ UNCHANGED <<putters, overflowed>>
    BY <1>2 DEF EmitDirect
  <2>3. ToSet(ready') = ToSet(ready) \/ ToSet(ready') = ToSet(ready) \cup {Consumer}
    BY <2>1, <2>2, EnqueueFacts
  <2> QED BY <2>2, <2>3 DEF OverflowPuts
<1>3. ASSUME EmitOverflow PROVE OverflowPuts'
  <2>1. emitted + 1 \in Int /\ ready \in Seq(Int)
    BY DEF IInv, TypeOK
  <2>2. ToSet(Append(ready, emitted + 1)) = ToSet(ready) \cup {emitted + 1}
    BY <2>1, AppendFacts
  <2>3. ready' = Append(ready, emitted + 1) /\ overflowed' = overflowed \cup {emitted + 1}
        /\ UNCHANGED putters
    BY <1>3 DEF EmitOverflow
  <2> QED BY <2>2, <2>3 DEF OverflowPuts
<1>4. ASSUME NEW item \in ToSet(ready), EnterWaitFor(item) PROVE OverflowPuts'
  <2>1. item \in Int /\ Tail(ready) \in Seq(Int)
        /\ ToSet(ready) = ToSet(Tail(ready)) \cup {item}
    BY <1>4, NextPutFacts DEF EnterWaitFor
  <2>2. ToSet(Append(Tail(ready), item)) = ToSet(Tail(ready)) \cup {item}
    <3>1. PICK rest : rest = Tail(ready)
      OBVIOUS
    <3>2. item \in Int /\ rest \in Seq(Int)
      BY <2>1, <3>1
    <3>3. ToSet(Append(rest, item)) = ToSet(rest) \cup {item}
      BY <3>2, AppendFacts
    <3> QED BY <3>1, <3>3
  <2>3. ready' = Append(Tail(ready), item) /\ UNCHANGED <<putters, overflowed>>
    BY <1>4 DEF EnterWaitFor
  <2> QED BY <2>1, <2>2, <2>3 DEF OverflowPuts
<1>5. ASSUME NEW item \in ToSet(ready), PutLands(item) PROVE OverflowPuts'
  <2>1. /\ item \in Nat /\ item \notin ToSet(queue)
        /\ Tail(ready) \in Seq(Int) /\ IsInjective(Tail(ready))
        /\ ToSet(ready) = ToSet(Tail(ready)) \cup {item}
    BY <1>5, NextPutFacts DEF PutLands
  <2>2. Room /\ Enqueue(item, Tail(ready)) /\ UNCHANGED <<putters, overflowed>>
    BY <1>5 DEF PutLands
  <2>3. \/ ToSet(ready') = ToSet(Tail(ready))
        \/ ToSet(ready') = ToSet(Tail(ready)) \cup {Consumer}
    BY <2>1, <2>2, EnqueueFacts
  <2> QED BY <2>1, <2>2, <2>3 DEF OverflowPuts
<1>6. ASSUME NEW item \in ToSet(ready), PutWaits(item) PROVE OverflowPuts'
  <2>1. item \in Nat /\ ToSet(ready) = ToSet(Tail(ready)) \cup {item} /\ putters \in Seq(Nat)
    BY <1>6, NextPutFacts DEF PutWaits, IInv, TypeOK
  <2>2. ToSet(Append(putters, item)) = ToSet(putters) \cup {item}
    BY <2>1, AppendFacts
  <2>3. putters' = Append(putters, item) /\ ready' = Tail(ready) /\ UNCHANGED overflowed
    BY <1>6 DEF PutWaits
  <2> QED BY <2>1, <2>2, <2>3 DEF OverflowPuts
<1>7. ASSUME ExpireWaiting PROVE OverflowPuts'
  <2>1. PICK i \in DOMAIN putters :
          putters' = RemoveAt(putters, i) /\ UNCHANGED <<ready, overflowed>>
    BY <1>7 DEF ExpireWaiting
  <2>2. ToSet(putters) = ToSet(putters') \cup {putters[i]}
    <3>1. putters \in Seq(Nat)
      BY DEF IInv, TypeOK
    <3> QED BY <2>1, <3>1, RemoveAtFacts
  <2> QED BY <2>1, <2>2 DEF OverflowPuts
<1>8. ASSUME NEW item \in ToSet(ready), ExpireWoken(item) PROVE OverflowPuts'
  <2>1. /\ Tail(ready) \in Seq(Int) /\ IsInjective(Tail(ready))
        /\ ToSet(ready) = ToSet(Tail(ready)) \cup {item}
    BY <1>8, NextPutFacts DEF ExpireWoken
  <2>2. WakePut(Tail(ready)) \/ (ready' = Tail(ready) /\ UNCHANGED putters)
    BY <1>8 DEF ExpireWoken
  <2>3. ToSet(putters') \cup ToSet(ready') = ToSet(putters) \cup ToSet(Tail(ready))
    BY <2>1, <2>2, WakePutFacts
  <2>4. UNCHANGED overflowed
    BY <1>8 DEF ExpireWoken
  <2> QED BY <2>1, <2>3, <2>4 DEF OverflowPuts
<1>9. ASSUME WaitForItem PROVE OverflowPuts'
  <2>1. ToSet(ready) = ToSet(Tail(ready)) \cup {Head(ready)}
    BY <1>9, ReadyFacts DEF WaitForItem, ConsumerRuns
  <2> QED BY <1>9, <2>1 DEF WaitForItem, OverflowPuts
<1>10. ASSUME Take PROVE OverflowPuts'
  <2>1. /\ Tail(ready) \in Seq(Int) /\ IsInjective(Tail(ready))
        /\ ToSet(ready) = ToSet(Tail(ready)) \cup {Head(ready)}
    BY <1>10, ReadyFacts DEF Take, ConsumerRuns
  <2>2. WakePut(Tail(ready)) /\ UNCHANGED overflowed
    BY <1>10 DEF Take
  <2>3. ToSet(putters') \cup ToSet(ready') = ToSet(putters) \cup ToSet(Tail(ready))
    BY <2>1, <2>2, WakePutFacts
  <2> QED BY <2>1, <2>2, <2>3 DEF OverflowPuts
<1>11. ASSUME Stop PROVE OverflowPuts'
  <2>1. /\ None \in Nat /\ None \notin ToSet(queue) /\ UNCHANGED overflowed
        /\ ready \in Seq(Int) /\ IsInjective(ready) /\ putters \in Seq(Nat)
    BY <1>11 DEF Stop, IInv, TypeOK, EachOnce, Entries, None
  <2>2. CASE Room /\ Enqueue(None, ready) /\ UNCHANGED putters
    <3>1. ToSet(ready') = ToSet(ready) \/ ToSet(ready') = ToSet(ready) \cup {Consumer}
      BY <2>1, <2>2, EnqueueFacts
    <3> QED BY <2>1, <2>2, <3>1 DEF OverflowPuts
  <2>3. CASE putters' = Append(putters, None) /\ UNCHANGED ready
    <3>1. ToSet(Append(putters, None)) = ToSet(putters) \cup {None}
      BY <2>1, AppendFacts, SMTT(30)
    <3> QED BY <2>1, <2>3, <3>1 DEF OverflowPuts
  <2> QED BY <1>11, <2>2, <2>3 DEF Stop
<1>12. ASSUME EndProcess PROVE OverflowPuts'
  BY <1>12 DEF EndProcess, OverflowPuts, ToSet
<1>13. ASSUME StopReturns \/ Stopped \/ UNCHANGED vars PROVE OverflowPuts'
  BY <1>13 DEF StopReturns, Stopped, vars, OverflowPuts
<1> QED BY <1>1, <1>2, <1>3, <1>4, <1>5, <1>6, <1>7, <1>8, <1>9, <1>10, <1>11, <1>12, <1>13
        DEF Next

--------------------------------------------------------------------------------
(* Ordered *)

\* Nothing moves on: what is excused stays excused.
LEMMA OrderedKept ==
    ASSUME Ordered, overflowed \subseteq overflowed', UNCHANGED <<queue, stored>>,
           Hand' \subseteq Hand
    PROVE  Ordered'
BY DEF Ordered, InOrderWithin, Before, Excused

\* A put is behind only what it may be behind.
LEMMA OrderedPut ==
    ASSUME IInv, Ordered, NEW x \in Nat, x > emitted \/ x \in Excused,
           queue' = Append(queue, x), stored' = stored, Hand' = Hand, overflowed' = overflowed
    PROVE  Ordered'
<1>1. Excused' = Excused
  BY DEF Excused
<1>2. /\ Len(queue') = Len(queue) + 1 /\ queue'[Len(queue) + 1] = x
      /\ \A i \in 1..Len(queue) : queue'[i] = queue[i]
      /\ ToSet(queue') = ToSet(queue) \cup {x}
  <2>1. queue \in Seq(Nat)
    BY QueueFacts
  <2> QED BY <2>1, AppendFacts
<1>3. Len(queue) \in Nat /\ emitted \in Nat /\ \A i \in 1..Len(queue) : queue[i] \in 0..emitted
  BY QueueFacts
<1>4. InOrderWithin(queue)'
  <2> SUFFICES ASSUME NEW i \in 1..Len(queue'), NEW j \in 1..Len(queue'), i < j,
                      queue'[i] > queue'[j]
               PROVE  queue'[j] \in Excused
    BY <1>1 DEF InOrderWithin
  <2>1. i \in 1..Len(queue) /\ queue'[i] = queue[i]
    BY <1>2, <1>3
  <2>2. CASE j \in 1..Len(queue)
    BY <1>2, <2>1, <2>2 DEF Ordered, InOrderWithin
  <2>3. CASE j = Len(queue) + 1
    <3>1. queue'[j] = x /\ queue[i] \in 0..emitted
      BY <1>2, <1>3, <2>1, <2>3
    <3> QED BY <1>3, <2>1, <3>1
  <2> QED BY <1>2, <1>3, <2>2, <2>3, SMTT(30)
<1>5. \A y \in ToSet(stored) \cup Hand : y \in 1..emitted
  BY DEF IInv, TypeOK, Entries, Hand
<1>6. \A y \in ToSet(stored) \cup Hand : y > x => x \in Excused
  BY <1>3, <1>5
<1>7. Before(ToSet(stored), ToSet(queue))' /\ Before(Hand, ToSet(queue))'
  BY <1>1, <1>2, <1>6 DEF Ordered, Before
<1>8. InOrderWithin(stored)' /\ Before(ToSet(stored), Hand)'
  BY <1>1 DEF Ordered, InOrderWithin, Before
<1> QED BY <1>4, <1>7, <1>8 DEF Ordered

\* The consumer takes the head, which is ahead of the rest of the queue.
LEMMA OrderedTake == IInv /\ Ordered /\ Take => Ordered'
<1> SUFFICES ASSUME IInv, Ordered, Take PROVE Ordered'
  OBVIOUS
<1>1. /\ queue' = Tail(queue) /\ UNCHANGED <<stored, overflowed>>
      /\ Hand' \subseteq {Head(queue)}
  BY DEF Take, Hand, outcome
<1>2. Excused' = Excused
  BY <1>1 DEF Excused
<1>3. /\ queue \in Seq(Nat) /\ queue # <<>> /\ Len(queue) \in Nat
  BY QueueFacts DEF Take
<1>4. /\ Len(queue') = Len(queue) - 1 /\ Head(queue) = queue[1]
      /\ Head(queue) \in ToSet(queue) /\ ToSet(queue') \subseteq ToSet(queue)
      /\ \A i \in 1..(Len(queue) - 1) : queue'[i] = queue[i + 1]
      /\ Tail(queue) \in Seq(Nat)
  BY <1>1, <1>3, TailFacts
<1>5. Len(queue) \in Nat \ {0}
  BY <1>3, EmptySeq
<1>6. InOrderWithin(queue)'
  <2> SUFFICES ASSUME NEW i \in 1..Len(queue'), NEW j \in 1..Len(queue'), i < j,
                      queue'[i] > queue'[j]
               PROVE  queue'[j] \in Excused
    BY <1>2 DEF InOrderWithin
  <2>1. i + 1 \in 1..Len(queue) /\ j + 1 \in 1..Len(queue) /\ i + 1 < j + 1
        /\ queue'[i] = queue[i + 1] /\ queue'[j] = queue[j + 1]
    BY <1>4, <1>5
  <2> QED BY <2>1 DEF Ordered, InOrderWithin
<1>7. Before(Hand, ToSet(queue))'
  <2>1. ASSUME NEW y \in ToSet(queue'), queue[1] > y PROVE y \in Excused
    <3>1. PICK i \in 1..Len(queue') : y = queue'[i]
      <4>1. DOMAIN queue' = 1..Len(queue')
        BY <1>1, <1>4, LenProperties
      <4> QED BY <4>1 DEF ToSet
    <3>2. 1 \in 1..Len(queue) /\ i + 1 \in 1..Len(queue) /\ 1 < i + 1 /\ y = queue[i + 1]
      BY <1>4, <1>5, <3>1
    <3> QED BY <2>1, <3>2 DEF Ordered, InOrderWithin
  <2> QED BY <1>1, <1>2, <1>4, <2>1 DEF Before
<1>8. Before(ToSet(stored), ToSet(queue))' /\ Before(ToSet(stored), Hand)'
  BY <1>1, <1>2, <1>4 DEF Ordered, Before
<1>9. InOrderWithin(stored)'
  BY <1>1, <1>2 DEF Ordered, InOrderWithin
<1> QED BY <1>6, <1>7, <1>8, <1>9 DEF Ordered

\* The row goes behind the others with the order its event has in the hand.
LEMMA OrderedAppend == IInv /\ Ordered /\ AppendReturns => Ordered'
<1> SUFFICES ASSUME IInv, Ordered, AppendReturns PROVE Ordered'
  OBVIOUS
<1>1. /\ Hand = {current} /\ Hand' = {} /\ current \in Nat
      /\ UNCHANGED <<queue, overflowed>>
  BY DEF AppendReturns, Hand, IInv, Entries, TypeOK
<1>2. CASE UNCHANGED stored
  BY <1>1, <1>2, OrderedKept
<1>3. CASE stored' = Append(stored, current)
  <2>1. Excused' = Excused
    BY <1>1 DEF Excused
  <2>2. stored \in Seq(Nat) /\ Len(stored) \in Nat
        /\ \A i \in 1..Len(stored) : stored[i] \in ToSet(stored)
    BY QueueFacts
  <2>3. /\ Len(stored') = Len(stored) + 1 /\ stored'[Len(stored) + 1] = current
        /\ \A i \in 1..Len(stored) : stored'[i] = stored[i]
    BY <1>1, <1>3, <2>2
  <2>4. ToSet(stored') = ToSet(stored) \cup Hand
    BY <1>1, <1>3, <2>2, AppendFacts
  <2>5. InOrderWithin(stored)'
    <3> SUFFICES ASSUME NEW i \in 1..Len(stored'), NEW j \in 1..Len(stored'), i < j,
                        stored'[i] > stored'[j]
                 PROVE  stored'[j] \in Excused
      BY <2>1 DEF InOrderWithin
    <3>1. i \in 1..Len(stored) /\ stored'[i] = stored[i] /\ stored[i] \in ToSet(stored)
      BY <2>2, <2>3
    <3>2. CASE j \in 1..Len(stored)
      BY <2>3, <3>1, <3>2 DEF Ordered, InOrderWithin
    <3>3. CASE j = Len(stored) + 1
      BY <1>1, <2>3, <3>1, <3>3 DEF Ordered, Before
    <3> QED BY <2>2, <2>3, <3>2, <3>3
  <2>6. Before(ToSet(stored), ToSet(queue))' /\ Before(Hand, ToSet(queue))'
        /\ Before(ToSet(stored), Hand)'
    BY <1>1, <2>1, <2>4 DEF Ordered, Before
  <2>7. InOrderWithin(queue)'
    BY <1>1, <2>1 DEF Ordered, InOrderWithin
  <2> QED BY <2>5, <2>6, <2>7 DEF Ordered
<1> QED BY <1>2, <1>3 DEF AppendReturns

LEMMA OrderedNext == IInv /\ OverflowPuts /\ Ordered /\ [Next]_vars => Ordered'
<1> SUFFICES ASSUME IInv, OverflowPuts, Ordered, [Next]_vars PROVE Ordered'
  OBVIOUS
<1>1. ASSUME \/ Start \/ EmitOverflow \/ ExpireWaiting \/ WaitForItem \/ StopReturns
             \/ Stopped \/ UNCHANGED vars
             \/ \E item \in ToSet(ready) :
                    EnterWaitFor(item) \/ PutWaits(item) \/ ExpireWoken(item)
      PROVE  Ordered'
  <2>1. /\ UNCHANGED <<queue, stored>> /\ overflowed \subseteq overflowed'
        /\ Hand' \subseteq Hand
    BY <1>1 DEF Start, EmitOverflow, ExpireWaiting, WaitForItem, StopReturns, Stopped,
                EnterWaitFor, PutWaits, ExpireWoken, vars, Hand, outcome
  <2> QED BY <2>1, OrderedKept
<1>2. ASSUME EmitDirect PROVE Ordered'
  <2>1. emitted + 1 \in Nat /\ emitted + 1 > emitted
    BY QueueFacts
  <2>2. Enqueue(emitted + 1, ready) /\ UNCHANGED <<stored, current, overflowed>>
    BY <1>2 DEF EmitDirect, outcome
  <2>3. queue' = Append(queue, emitted + 1) /\ Hand' = Hand
    BY <2>2, PutEffect
  <2> QED BY <2>1, <2>2, <2>3, OrderedPut
<1>3. ASSUME NEW item \in ToSet(ready), PutLands(item) PROVE Ordered'
  <2>1. item \in Nat
    BY <1>3, NextPutFacts DEF PutLands
  <2>2. item \in Excused
    BY <1>3 DEF PutLands, NextPut, OverflowPuts, Excused
  <2>3. Enqueue(item, Tail(ready)) /\ UNCHANGED <<stored, current, overflowed>>
    BY <1>3 DEF PutLands, outcome
  <2>4. queue' = Append(queue, item) /\ Hand' = Hand
    BY <2>3, PutEffect
  <2> QED BY <2>1, <2>2, <2>3, <2>4, OrderedPut
<1>4. ASSUME Stop PROVE Ordered'
  <2>1. None \in Nat /\ None \in Excused /\ UNCHANGED <<stored, current, overflowed>>
    BY <1>4 DEF Stop, outcome, None, Excused
  <2>2. CASE Enqueue(None, ready)
    <3>1. queue' = Append(queue, None) /\ Hand' = Hand
      BY <2>1, <2>2, PutEffect
    <3> QED BY <2>1, <3>1, OrderedPut
  <2>3. CASE UNCHANGED <<queue, ready, consumer>>
    BY <2>1, <2>3, OrderedKept DEF Hand
  <2> QED BY <1>4, <2>2, <2>3 DEF Stop
<1>5. ASSUME EndProcess PROVE Ordered'
  <2>1. queue' = <<>> /\ Hand' = {} /\ UNCHANGED <<stored, overflowed>>
    BY <1>5 DEF EndProcess, Hand
  <2>2. Len(queue') = 0 /\ ToSet(queue') = {}
    BY <2>1 DEF ToSet
  <2>3. InOrderWithin(queue)'
    BY <2>2 DEF InOrderWithin
  <2> QED BY <2>1, <2>2, <2>3 DEF Ordered, InOrderWithin, Before, Excused
<1> QED BY <1>1, <1>2, <1>3, <1>4, <1>5, OrderedTake, OrderedAppend DEF Next

--------------------------------------------------------------------------------
(* BehindNone *)

\* A put behind the None item is an overflow put, as emit() puts nothing after stop().
LEMMA BehindPut ==
    ASSUME IInv, BehindNone, NEW x \in Nat, queue' = Append(queue, x),
           \/ x \in overflowed
           \/ None \notin ToSet(queue) /\ (x = None \/ consumer # "done"),
           consumer' = "done" <=> consumer = "done", overflowed' = overflowed,
           stopper = "idle" \/ stopper' # "idle", stopper' = "stopped" => stopper = "stopped"
    PROVE  BehindNone'
<1>1. /\ Len(queue') = Len(queue) + 1 /\ queue'[Len(queue) + 1] = x
      /\ \A i \in 1..Len(queue) : queue'[i] = queue[i]
      /\ ToSet(queue') = ToSet(queue) \cup {x}
  <2>1. queue \in Seq(Nat)
    BY QueueFacts
  <2> QED BY <2>1, AppendFacts
<1>2. Len(queue) \in Nat /\ \A i \in 1..Len(queue) : queue[i] \in ToSet(queue)
  BY QueueFacts
<1>3. ASSUME NEW i \in 1..Len(queue'), NEW j \in 1..Len(queue'), i < j, queue'[i] = None
      PROVE  queue'[j] \in overflowed
  <2>1. i \in 1..Len(queue) /\ queue[i] = None
    BY <1>1, <1>2, <1>3
  <2>2. CASE j \in 1..Len(queue)
    BY <1>1, <1>3, <2>1, <2>2 DEF BehindNone
  <2>3. CASE j = Len(queue) + 1
    BY <1>1, <1>2, <2>1, <2>3
  <2> QED BY <1>1, <1>2, <2>2, <2>3
<1>4. consumer' = "done" => stopper' # "idle" /\ ToSet(queue') \subseteq Excused'
  BY <1>1 DEF BehindNone, Excused
<1>5. stopper' = "stopped" => consumer' = "done"
  BY DEF BehindNone
<1> QED BY <1>3, <1>4, <1>5 DEF BehindNone

LEMMA BehindKept ==
    ASSUME BehindNone, UNCHANGED queue, overflowed \subseteq overflowed',
           consumer' = "done" <=> consumer = "done",
           stopper = "idle" \/ stopper' # "idle",
           stopper' = "stopped" => consumer = "done" \/ stopper = "stopped"
    PROVE  BehindNone'
BY DEF BehindNone, Excused

\* When the consumer takes the None item, what is left is behind it.
LEMMA BehindTake == IInv /\ BehindNone /\ Take => BehindNone'
<1> SUFFICES ASSUME IInv, BehindNone, Take PROVE BehindNone'
  OBVIOUS
<1>1. /\ queue' = Tail(queue) /\ UNCHANGED <<stopper, overflowed>>
      /\ consumer' = "done" <=> Head(queue) = None
      /\ consumer = "ready"
  BY DEF Take, ConsumerRuns, IInv, Entries, ToSet, TypeOK, outcome
<1>2. /\ queue \in Seq(Nat) /\ queue # <<>> /\ Len(queue) \in Nat
  BY QueueFacts DEF Take
<1>3. /\ Len(queue') = Len(queue) - 1 /\ Head(queue) = queue[1]
      /\ Head(queue) \in ToSet(queue)
      /\ \A i \in 1..(Len(queue) - 1) : queue'[i] = queue[i + 1]
      /\ Tail(queue) \in Seq(Nat)
  BY <1>1, <1>2, TailFacts
<1>4. Len(queue) \in Nat \ {0}
  BY <1>2, EmptySeq
<1>5. \A i \in 1..Len(queue') : i + 1 \in 1..Len(queue) /\ queue'[i] = queue[i + 1]
  BY <1>3, <1>4
<1>6. ASSUME NEW i \in 1..Len(queue'), NEW j \in 1..Len(queue'), i < j, queue'[i] = None
      PROVE  queue'[j] \in overflowed
  <2>1. i + 1 < j + 1
    BY <1>3, <1>4, <1>6
  <2> QED BY <1>5, <1>6, <2>1 DEF BehindNone
<1>7. ASSUME Head(queue) = None
      PROVE  stopper # "idle" /\ ToSet(queue') \subseteq Excused
  <2>1. stopper # "idle"
    BY <1>3, <1>7 DEF IInv, Entries
  <2>2. ASSUME NEW y \in ToSet(queue') PROVE y \in overflowed
    <3>1. PICK i \in 1..Len(queue') : y = queue'[i]
      <4>1. DOMAIN queue' = 1..Len(queue')
        BY <1>1, <1>3, LenProperties
      <4> QED BY <4>1 DEF ToSet
    <3>2. 1 \in 1..Len(queue) /\ 1 < i + 1
      BY <1>3, <1>4
    <3> QED BY <1>3, <1>5, <1>7, <3>1, <3>2 DEF BehindNone
  <2> QED BY <2>1, <2>2 DEF Excused
<1>8. stopper' # "stopped"
  BY <1>1 DEF BehindNone
<1> QED BY <1>1, <1>6, <1>7, <1>8 DEF BehindNone, Excused

LEMMA BehindNext == IInv /\ OverflowPuts /\ BehindNone /\ [Next]_vars => BehindNone'
<1> SUFFICES ASSUME IInv, OverflowPuts, BehindNone, [Next]_vars PROVE BehindNone'
  OBVIOUS
<1>1. ASSUME \/ Start \/ EmitOverflow \/ ExpireWaiting \/ AppendReturns
             \/ StopReturns \/ Stopped \/ UNCHANGED vars
             \/ \E item \in ToSet(ready) :
                    EnterWaitFor(item) \/ PutWaits(item) \/ ExpireWoken(item)
      PROVE  BehindNone'
  <2>1. /\ UNCHANGED queue /\ overflowed \subseteq overflowed'
        /\ consumer' = "done" <=> consumer = "done"
        /\ stopper = "idle" \/ stopper' # "idle"
        /\ stopper' = "stopped" => consumer = "done" \/ stopper = "stopped"
    BY <1>1 DEF Start, EmitOverflow, ExpireWaiting, AppendReturns, StopReturns, Stopped,
                EnterWaitFor, PutWaits, ExpireWoken, vars, outcome
  <2> QED BY <2>1, BehindKept
<1>2. ASSUME WaitForItem PROVE BehindNone'
  <2>1. Head(ready) \in ToSet(ready)
    BY <1>2, ReadyFacts DEF WaitForItem, ConsumerRuns
  <2>2. consumer = "ready" /\ consumer' = "wait" /\ UNCHANGED <<queue, overflowed, stopper>>
    BY <1>2, <2>1 DEF WaitForItem, ConsumerRuns, IInv, Entries
  <2> QED BY <2>2, BehindKept
<1>3. ASSUME EmitDirect PROVE BehindNone'
  <2>1. emitted + 1 \in Nat
    BY QueueFacts
  <2>2. /\ Enqueue(emitted + 1, ready) /\ UNCHANGED <<current, overflowed, stopper>>
        /\ stopper = "idle"
    BY <1>3 DEF EmitDirect, Serving
  <2>3. queue' = Append(queue, emitted + 1) /\ (consumer' = "done" <=> consumer = "done")
    BY <2>2, PutEffect
  <2>4. None \notin ToSet(queue) /\ consumer # "done"
    BY <2>2 DEF IInv, Entries, BehindNone
  <2> QED BY <2>1, <2>2, <2>3, <2>4, BehindPut
<1>4. ASSUME NEW item \in ToSet(ready), PutLands(item) PROVE BehindNone'
  <2>1. item \in Nat /\ item \notin ToSet(queue)
    BY <1>4, NextPutFacts DEF PutLands
  <2>2. item \in overflowed \/ (item = None /\ None \notin ToSet(queue))
    BY <1>4, <2>1 DEF PutLands, NextPut, OverflowPuts
  <2>3. /\ Enqueue(item, Tail(ready)) /\ UNCHANGED <<current, overflowed>>
        /\ stopper = "idle" \/ stopper' # "idle"
        /\ stopper' = "stopped" => stopper = "stopped"
    BY <1>4 DEF PutLands
  <2>4. queue' = Append(queue, item) /\ (consumer' = "done" <=> consumer = "done")
    BY <2>3, PutEffect
  <2> QED BY <2>1, <2>2, <2>3, <2>4, BehindPut
<1>5. ASSUME Stop PROVE BehindNone'
  <2>1. /\ None \in Nat /\ None \notin ToSet(queue) /\ consumer # "done"
        /\ UNCHANGED <<current, overflowed>> /\ stopper = "idle" /\ stopper' # "stopped"
    BY <1>5 DEF Stop, IInv, Entries, BehindNone, None
  <2>2. CASE Enqueue(None, ready)
    <3>1. queue' = Append(queue, None) /\ (consumer' = "done" <=> consumer = "done")
      BY <2>1, <2>2, PutEffect
    <3> QED BY <2>1, <3>1, BehindPut
  <2>3. CASE UNCHANGED <<queue, ready, consumer>>
    BY <2>1, <2>3, BehindKept
  <2> QED BY <1>5, <2>2, <2>3 DEF Stop
<1>6. ASSUME EndProcess PROVE BehindNone'
  <2>1. queue' = <<>> /\ consumer' = "off" /\ stopper' = "idle"
    BY <1>6 DEF EndProcess
  <2> QED BY <2>1 DEF BehindNone
<1> QED BY <1>1, <1>2, <1>3, <1>4, <1>5, <1>6, BehindTake DEF Next

--------------------------------------------------------------------------------
(* WakeUps *)

\* As many puts are woken as before.
LEMMA WakeUpsKept ==
    ASSUME WakeUps, Woken' = Woken, UNCHANGED queue, putters' # <<>> => putters # <<>>
    PROVE  WakeUps'
BY DEF WakeUps

\* Nothing waits, or nothing is free.
LEMMA WakeUpsVoid ==
    ASSUME IInv, IInv', putters' = <<>> \/ (~Room /\ UNCHANGED queue)
    PROVE  WakeUps'
<1>1. Cardinality(Woken') \in Nat /\ Len(queue) \in Nat /\ QueueMax \in Nat
  BY WokenFiniteNext, QueueFacts, QueueMaxAssumption
<1> QED BY <1>1 DEF WakeUps, Room

\* A slot is taken by a put that emit() or stop() makes without being woken.
LEMMA WakeUpsDirect ==
    ASSUME IInv, WakeUps, NEW x \in Nat, queue' = Append(queue, x), Woken' = Woken,
           UNCHANGED putters
    PROVE  WakeUps'
<1>1. queue \in Seq(Nat) /\ Len(queue) \in Nat
  BY QueueFacts
<1>2. Len(queue') = Len(queue) + 1
  BY <1>1, AppendFacts
<1>3. Cardinality(Woken) \in Nat /\ QueueMax \in Nat
  BY WokenFinite, QueueMaxAssumption
<1> QED BY <1>1, <1>2, <1>3 DEF WakeUps

\* WakePut moves the first put in line to the woken ones.
LEMMA WokenByWakePut ==
    ASSUME IInv, NEW rest \in Seq(Int), ToSet(rest) \subseteq ToSet(ready), WakePut(rest)
    PROVE  \/ putters = <<>> /\ putters' = <<>>
           \/ putters # <<>> /\ \E put \in ToSet(putters) :
                 /\ put \notin ToSet(ready) /\ put # Consumer
                 /\ ToSet(ready') = ToSet(rest) \cup {put}
<1>1. CASE putters = <<>>
  BY <1>1 DEF WakePut
<1>2. CASE putters # <<>>
  <2>1. Head(putters) \in Nat /\ Head(putters) \in ToSet(putters)
    BY <1>2, TailFacts DEF IInv, TypeOK
  <2>2. Head(putters) \notin ToSet(ready) /\ Head(putters) # Consumer
    BY <2>1, ConsumerFacts DEF IInv, Apart
  <2>3. Head(putters) \in Int
    BY <2>1
  <2>4. \A x \in Int : ToSet(Append(rest, x)) = ToSet(rest) \cup {x}
    BY AppendFacts
  <2>5. ready' = Append(rest, Head(putters))
    BY <1>2 DEF WakePut
  <2> QED BY <1>2, <2>1, <2>2, <2>3, <2>4, <2>5
<1> QED BY <1>1, <1>2

LEMMA WakeUpsNext == IInv /\ IInv' /\ WakeUps /\ [Next]_vars => WakeUps'
<1> SUFFICES ASSUME IInv, IInv', WakeUps, [Next]_vars PROVE WakeUps'
  OBVIOUS
<1>1. Cardinality(Woken) \in Nat /\ IsFiniteSet(Woken) /\ Len(queue) \in Nat /\ QueueMax \in Nat
      /\ Cardinality(Woken') \in Nat /\ IsFiniteSet(Woken')
  BY WokenFinite, WokenFiniteNext, QueueFacts, QueueMaxAssumption
<1>2. ASSUME Start \/ AppendReturns PROVE WakeUps'
  <2>1. ready \in Seq(Int) /\ Consumer \in Int
    BY DEF IInv, TypeOK, Consumer
  <2>2. ToSet(Append(ready, Consumer)) = ToSet(ready) \cup {Consumer}
    BY <2>1, AppendFacts
  <2>3. ready' = Append(ready, Consumer) /\ UNCHANGED <<queue, putters>>
    BY <1>2 DEF Start, AppendReturns
  <2>4. Woken' = Woken
    BY <2>2, <2>3 DEF Woken
  <2> QED BY <2>3, <2>4, WakeUpsKept
<1>3. ASSUME EmitDirect PROVE WakeUps'
  <2>1. /\ emitted + 1 \in Nat /\ emitted + 1 \notin ToSet(queue)
        /\ ready \in Seq(Int) /\ IsInjective(ready)
    BY FreshFacts DEF IInv, TypeOK, EachOnce
  <2>2. Room /\ Enqueue(emitted + 1, ready) /\ UNCHANGED putters
    BY <1>3 DEF EmitDirect
  <2>3. ToSet(ready') = ToSet(ready) \/ ToSet(ready') = ToSet(ready) \cup {Consumer}
    BY <2>1, <2>2, EnqueueFacts
  <2>4. Woken' = Woken /\ queue' = Append(queue, emitted + 1)
    BY <2>2, <2>3 DEF Woken, Enqueue
  <2> QED BY <2>1, <2>2, <2>4, WakeUpsDirect
<1>4. ASSUME EmitOverflow PROVE WakeUps'
  <2>1. emitted + 1 \in Int /\ ready \in Seq(Int) /\ emitted + 1 \notin Woken
        /\ emitted + 1 # Consumer
    <3>1. emitted + 1 # Consumer /\ emitted + 1 \notin ToSet(ready)
      BY FreshFacts
    <3>2. emitted + 1 \in Int /\ ready \in Seq(Int)
      BY DEF IInv, TypeOK
    <3> QED BY <3>1, <3>2 DEF Woken
  <2>2. ToSet(Append(ready, emitted + 1)) = ToSet(ready) \cup {emitted + 1}
    BY <2>1, AppendFacts
  <2>3. ready' = Append(ready, emitted + 1) /\ UNCHANGED <<queue, putters>>
    BY <1>4 DEF EmitOverflow
  <2>4. Woken' = Woken \cup {emitted + 1}
    BY <2>1, <2>2, <2>3 DEF Woken
  <2>5. Cardinality(Woken') = Cardinality(Woken) + 1
    BY <1>1, <2>1, <2>4, WokenGrows
  <2> QED BY <1>1, <2>3, <2>5 DEF WakeUps
<1>5. ASSUME NEW item \in ToSet(ready), EnterWaitFor(item) PROVE WakeUps'
  <2>1. PICK rest : rest = Tail(ready)
    OBVIOUS
  <2>2. item \in Int /\ rest \in Seq(Int) /\ ToSet(ready) = ToSet(rest) \cup {item}
    BY <1>5, <2>1, NextPutFacts DEF EnterWaitFor
  <2>3. ToSet(Append(rest, item)) = ToSet(rest) \cup {item}
    BY <2>2, AppendFacts
  <2>4. ready' = Append(rest, item) /\ UNCHANGED <<queue, putters>>
    BY <1>5, <2>1 DEF EnterWaitFor
  <2>5. Woken' = Woken
    BY <2>2, <2>3, <2>4 DEF Woken
  <2> QED BY <2>4, <2>5, WakeUpsKept
<1>6. ASSUME NEW item \in ToSet(ready), PutLands(item) PROVE WakeUps'
  <2>1. /\ item \in Nat /\ item \notin ToSet(queue) /\ item # Consumer
        /\ Tail(ready) \in Seq(Int) /\ IsInjective(Tail(ready))
        /\ item \notin ToSet(Tail(ready))
        /\ ToSet(ready) = ToSet(Tail(ready)) \cup {item}
    BY <1>6, NextPutFacts DEF PutLands, NextPut
  <2>2. Room /\ Enqueue(item, Tail(ready)) /\ UNCHANGED putters
    BY <1>6 DEF PutLands
  <2>3. \/ ToSet(ready') = ToSet(Tail(ready))
        \/ ToSet(ready') = ToSet(Tail(ready)) \cup {Consumer}
    BY <2>1, <2>2, EnqueueFacts
  <2>4. Woken = Woken' \cup {item} /\ item \notin Woken'
    BY <2>1, <2>3 DEF Woken
  <2>5. Cardinality(Woken) = Cardinality(Woken') + 1
    BY <1>1, <2>4, WokenGrows
  <2>6. Len(queue') = Len(queue) + 1
    <3>1. queue \in Seq(Nat) /\ queue' = Append(queue, item)
      BY <2>2, QueueFacts DEF Enqueue
    <3> QED BY <2>1, <3>1, AppendFacts
  <2> QED BY <1>1, <2>2, <2>5, <2>6 DEF WakeUps
<1>7. ASSUME NEW item \in ToSet(ready), PutWaits(item) PROVE WakeUps'
  BY <1>7, WakeUpsVoid DEF PutWaits
<1>8. ASSUME ExpireWaiting PROVE WakeUps'
  <2>1. UNCHANGED <<ready, queue>> /\ DOMAIN putters # {}
    BY <1>8 DEF ExpireWaiting
  <2>2. putters # <<>> /\ Woken' = Woken
    BY <2>1 DEF Woken
  <2> QED BY <2>1, <2>2, WakeUpsKept
<1>9. ASSUME NEW item \in ToSet(ready), ExpireWoken(item) PROVE WakeUps'
  <2>1. PICK rest : rest = Tail(ready)
    OBVIOUS
  <2>2. /\ item # Consumer /\ rest \in Seq(Int) /\ item \notin ToSet(rest)
        /\ ToSet(ready) = ToSet(rest) \cup {item}
    BY <1>9, <2>1, NextPutFacts DEF ExpireWoken, NextPut
  <2>3. UNCHANGED queue
    BY <1>9 DEF ExpireWoken
  <2>4. CASE ~Room
    BY <2>3, <2>4, WakeUpsVoid
  <2>5. CASE Room
    <3>1. WakePut(rest)
      BY <1>9, <2>1, <2>5 DEF ExpireWoken
    <3>2. \/ putters = <<>> /\ putters' = <<>>
          \/ putters # <<>> /\ \E put \in ToSet(putters) :
                /\ put \notin ToSet(ready) /\ put # Consumer
                /\ ToSet(ready') = ToSet(rest) \cup {put}
      BY <2>2, <3>1, WokenByWakePut
    <3>3. CASE putters' = <<>>
      BY <3>3, WakeUpsVoid
    <3>4. CASE putters # <<>>
      <4>1. PICK put : /\ put \notin ToSet(ready) /\ put # Consumer
                       /\ ToSet(ready') = ToSet(rest) \cup {put}
        BY <3>2, <3>4
      <4>2. PICK others : others = ToSet(rest) \ {Consumer}
        OBVIOUS
      <4>3. /\ Woken = others \cup {item} /\ item \notin others
            /\ Woken' = others \cup {put} /\ put \notin others
        BY <2>2, <4>1, <4>2 DEF Woken
      <4>4. IsFiniteSet(others)
        BY <1>1, <4>3, FS_Subset
      <4>5. Cardinality(Woken) = Cardinality(others) + 1
            /\ Cardinality(Woken') = Cardinality(others) + 1
        BY <4>3, <4>4, WokenGrows
      <4>6. Cardinality(Woken) + Len(queue) >= QueueMax
        BY <3>4 DEF WakeUps
      <4>7. Cardinality(Woken') + Len(queue') >= QueueMax
        BY <2>3, <4>5, <4>6
      <4> QED BY <4>7 DEF WakeUps
    <3> QED BY <3>2, <3>3, <3>4
  <2> QED BY <2>4, <2>5
<1>10. ASSUME WaitForItem PROVE WakeUps'
  <2>1. ToSet(ready) = ToSet(Tail(ready)) \cup {Consumer}
    BY <1>10, ReadyFacts DEF WaitForItem, ConsumerRuns
  <2>2. ready' = Tail(ready) /\ UNCHANGED <<queue, putters>>
    BY <1>10 DEF WaitForItem
  <2>3. Woken' = Woken
    BY <2>1, <2>2 DEF Woken
  <2> QED BY <2>2, <2>3, WakeUpsKept
<1>11. ASSUME Take PROVE WakeUps'
  <2>1. PICK rest : rest = Tail(ready)
    OBVIOUS
  <2>2. rest \in Seq(Int) /\ ToSet(ready) = ToSet(rest) \cup {Consumer}
    BY <1>11, <2>1, ReadyFacts DEF Take, ConsumerRuns
  <2>3. WakePut(rest) /\ queue' = Tail(queue) /\ queue # <<>>
    BY <1>11, <2>1 DEF Take
  <2>4. \/ putters = <<>> /\ putters' = <<>>
        \/ putters # <<>> /\ \E put \in ToSet(putters) :
              /\ put \notin ToSet(ready) /\ put # Consumer
              /\ ToSet(ready') = ToSet(rest) \cup {put}
    BY <2>2, <2>3, WokenByWakePut
  <2>5. CASE putters' = <<>>
    BY <2>5, WakeUpsVoid
  <2>6. CASE putters # <<>>
    <3>1. PICK put : /\ put \notin ToSet(ready) /\ put # Consumer
                     /\ ToSet(ready') = ToSet(rest) \cup {put}
      BY <2>4, <2>6
    <3>2. Woken' = Woken \cup {put} /\ put \notin Woken
      BY <2>2, <3>1 DEF Woken
    <3>3. Cardinality(Woken') = Cardinality(Woken) + 1
      BY <1>1, <3>2, WokenGrows
    <3>4. Len(queue') = Len(queue) - 1
      <4>1. queue \in Seq(Nat)
        BY QueueFacts
      <4> QED BY <2>3, <4>1, TailFacts
    <3>5. Cardinality(Woken) + Len(queue) >= QueueMax
      BY <2>6 DEF WakeUps
    <3>6. Cardinality(Woken') + Len(queue') >= QueueMax
      BY <1>1, <3>3, <3>4, <3>5
    <3> QED BY <3>6 DEF WakeUps
  <2> QED BY <2>4, <2>5, <2>6
<1>12. ASSUME Stop PROVE WakeUps'
  <2>1. /\ None \in Nat /\ None \notin ToSet(queue)
        /\ ready \in Seq(Int) /\ IsInjective(ready)
    BY <1>12 DEF Stop, IInv, TypeOK, EachOnce, Entries, None
  <2>2. CASE Room /\ Enqueue(None, ready) /\ UNCHANGED putters
    <3>1. ToSet(ready') = ToSet(ready) \/ ToSet(ready') = ToSet(ready) \cup {Consumer}
      BY <2>1, <2>2, EnqueueFacts
    <3>2. Woken' = Woken /\ queue' = Append(queue, None)
      BY <2>2, <3>1 DEF Woken, Enqueue
    <3> QED BY <2>1, <2>2, <3>2, WakeUpsDirect
  <2>3. CASE ~Room /\ UNCHANGED queue
    BY <2>3, WakeUpsVoid
  <2> QED BY <1>12, <2>2, <2>3 DEF Stop
<1>13. ASSUME EndProcess PROVE WakeUps'
  BY <1>13, WakeUpsVoid DEF EndProcess
<1>14. ASSUME StopReturns \/ Stopped \/ UNCHANGED vars PROVE WakeUps'
  BY <1>14, WakeUpsKept DEF StopReturns, Stopped, vars, Woken
<1> QED BY <1>2, <1>3, <1>4, <1>5, <1>6, <1>7, <1>8, <1>9, <1>10, <1>11, <1>12, <1>13, <1>14
        DEF Next

--------------------------------------------------------------------------------
\* OInv, with IInv, is inductive.
THEOREM WriterOInv == Spec => []OInv
<1>1. IInv /\ IInv' /\ OInv /\ [Next]_vars => OInv'
  BY OverflowPutsNext, OrderedNext, BehindNext, WakeUpsNext DEF OInv
<1> QED BY InitOInv, <1>1, WriterIInv, PTL DEF Spec

\* Rows are out of the order of emission only where the overtaken event had found
\* the queue full, whatever interleaving of overflow tasks, timeouts, crashes
\* and appends led there (emit and _enqueue_with_timeout, writer.py:39-70).
THEOREM WriterOvertakenOnlyByOverflow == Spec => []OvertakenOnlyByOverflow
<1>1. IInv /\ OInv => OvertakenOnlyByOverflow
  <2> SUFFICES ASSUME IInv, OInv, NEW i \in 1..Len(stored), NEW j \in 1..Len(stored),
                      i < j, stored[i] > stored[j]
               PROVE  stored[j] \in overflowed
    <3>1. DOMAIN stored = 1..Len(stored)
      BY QueueFacts, LenProperties
    <3> QED BY <3>1 DEF OvertakenOnlyByOverflow
  <2>1. stored[j] \in Excused
    BY DEF OInv, Ordered, InOrderWithin
  <2>2. stored[j] # None
    BY QueueFacts DEF None
  <2> QED BY <2>1, <2>2 DEF Excused
<1> QED BY <1>1, WriterIInv, WriterOInv, PTL

\* What stop() leaves unwritten when it returns had found the queue full: it never
\* strands an event that emit() put directly (stop, writer.py:29-37, and _consumer).
THEOREM WriterStopStrandsOnlyOverflow == Spec => []StopStrandsOnlyOverflow
<1>1. IInv /\ OInv => StopStrandsOnlyOverflow
  <2> SUFFICES ASSUME IInv, OInv, stopper = "stopped" PROVE Pending \subseteq overflowed
    BY DEF StopStrandsOnlyOverflow
  <2>1. consumer = "done" /\ ToSet(queue) \subseteq Excused
    BY DEF OInv, BehindNone
  <2> QED BY <2>1 DEF OInv, OverflowPuts, Pending, Hand, Excused
<1> QED BY <1>1, WriterIInv, WriterOInv, PTL

\* No put sleeps beside a free slot: a wake-up that a timed-out put leaves behind is
\* passed on, and one that a direct put overtakes is not needed any more
\* (_enqueue_with_timeout, writer.py:62-70, over asyncio.Queue).
THEOREM WriterNoLostWakeup == Spec => []NoLostWakeup
<1>1. IInv /\ OInv => NoLostWakeup
  <2> SUFFICES ASSUME IInv, OInv, putters # <<>>, Room, Woken = {} PROVE FALSE
    BY DEF NoLostWakeup, Woken
  <2>1. Cardinality(Woken) = 0
    BY FS_EmptySet
  <2>2. Len(queue) \in Nat /\ QueueMax \in Nat
    BY QueueFacts, QueueMaxAssumption
  <2> QED BY <2>1, <2>2 DEF OInv, WakeUps, Room
<1> QED BY <1>1, WriterIInv, WriterOInv, PTL
================================================================================
