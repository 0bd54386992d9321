------------------------------ MODULE AuditWriter ------------------------------
(***************************************************************************)
(* rada.audit.writer.AuditWriter over a rada.audit.store.AuditStore: a     *)
(* bounded asyncio.Queue, the overflow tasks emit() starts when the queue  *)
(* is full, one consumer task, and stop(), which ends the consumer with a  *)
(* None item.  A step is what runs between two awaits; the consumer and    *)
(* the puts that are ready to run take turns in the order of the event     *)
(* loop's ready queue, and requests, shutdown and timers come in anywhere. *)
(* Events are numbered in the order of emit() and so of their timestamps.  *)
(***************************************************************************)
EXTENDS Integers, SequencesExt

CONSTANTS
    QueueMax,   \* queue_maxsize
    MaxEvents,  \* bound: events emitted over all processes
    MaxEnds     \* bound: process ends (crash or exit), each followed by a restart

ASSUME QueueMaxAssumption == QueueMax \in Nat \ {0}
ASSUME BoundsAssumption == MaxEvents \in Nat /\ MaxEnds \in Nat

None == 0       \* the item stop() puts; events count from 1
Consumer == -1  \* the consumer task, as an entry of the ready queue

VARIABLES
    emitted,     \* number of events emitted so far
    queue,       \* items in the asyncio.Queue
    putters,     \* items whose put() waits for room, in waiting order
    ready,       \* the ready queue: items about to be put, and Consumer
    spawned,     \* those events in it whose overflow task has not run before
    nested,      \* those whose put wait_for has given a task that has not run
    consumer,    \* _consumer: off, ready, wait (in get), append, done
    current,     \* the event it appends
    stopper,     \* stop(): idle, put, join, stopped
    stored,      \* rows of audit_events, in insertion order
    dropped,     \* events counted in rada_audit_queue_drops_total
    failed,      \* events whose append raised, counted in rada_loop_errors_total
    lost,        \* events pending when their process ended
    overflowed,  \* history: events that found the queue full
    ends         \* process ends so far

tasks == <<spawned, nested>>
outcome == <<stored, dropped, failed, lost>>
vars == <<emitted, queue, putters, ready, spawned, nested, consumer, current, stopper,
          stored, dropped, failed, lost, overflowed, ends>>

\* Mutant of Room: one put too many fits.
RoomForOneMore == Len(queue) <= QueueMax
Room == Len(queue) < QueueMax
Hand == IF consumer = "append" THEN {current} ELSE {}
Pending == (ToSet(queue) \cup ToSet(putters) \cup ToSet(ready) \cup Hand)
               \ {None, Consumer}

--------------------------------------------------------------------------------
(* asyncio.Queue: a put wakes the consumer if it waits in get; a get, and a *)
(* woken put that is cancelled, wake the first put in line.                 *)

Enqueue(item, rest) ==
    /\ queue' = Append(queue, item)
    /\ IF consumer = "wait"
       THEN consumer' = "ready" /\ ready' = Append(rest, Consumer)
       ELSE ready' = rest /\ UNCHANGED consumer

\* Mutant of WakePut: a freed slot wakes no put.
WakesNobody(rest) == ready' = rest /\ UNCHANGED putters

WakePut(rest) ==
    IF putters = <<>>
    THEN ready' = rest /\ UNCHANGED putters
    ELSE ready' = Append(rest, Head(putters)) /\ putters' = Tail(putters)

Init ==
    /\ emitted = 0
    /\ queue = <<>> /\ putters = <<>> /\ ready = <<>> /\ spawned = {} /\ nested = {}
    /\ consumer = "off" /\ current = None /\ stopper = "idle"
    /\ stored = <<>> /\ dropped = {} /\ failed = {} /\ lost = {}
    /\ overflowed = {}
    /\ ends = 0

\* The lifespan starts the writer before the first request is served.
Start ==
    /\ consumer = "off"
    /\ consumer' = "ready"
    /\ ready' = Append(ready, Consumer)
    /\ UNCHANGED <<emitted, queue, putters, tasks, current, stopper, outcome,
                   overflowed, ends>>

\* Requests are served until shutdown begins.
Serving == consumer # "off" /\ stopper = "idle" /\ emitted < MaxEvents

\* put_nowait finds room.
EmitDirect ==
    /\ Serving /\ Room
    /\ emitted' = emitted + 1
    /\ Enqueue(emitted + 1, ready)
    /\ UNCHANGED <<putters, tasks, current, stopper, outcome, overflowed, ends>>

\* QueueFull: a task is created, and emit() returns without running it.
EmitOverflow ==
    /\ Serving /\ ~Room
    /\ emitted' = emitted + 1
    /\ ready' = Append(ready, emitted + 1)
    /\ spawned' = spawned \cup {emitted + 1}
    /\ overflowed' = overflowed \cup {emitted + 1}
    /\ UNCHANGED <<queue, putters, nested, consumer, current, stopper, outcome, ends>>

--------------------------------------------------------------------------------
(* Queue.put run by an overflow task, or by stop() when the queue was full *)

NextPut(item) == ready # <<>> /\ item = Head(ready) /\ item # Consumer

\* wait_for of Python 3.11 runs the put in a task of its own, one turn later;
\* from 3.12 on the overflow task runs it itself.
EnterWaitFor(item) ==
    /\ NextPut(item) /\ item \in spawned
    /\ ready' = Append(Tail(ready), item)
    /\ spawned' = spawned \ {item}
    /\ nested' = nested \cup {item}
    /\ UNCHANGED <<emitted, queue, putters, consumer, current, stopper, outcome,
                   overflowed, ends>>

PutLands(item) ==
    /\ NextPut(item) /\ Room
    /\ Enqueue(item, Tail(ready))
    /\ spawned' = spawned \ {item} /\ nested' = nested \ {item}
    /\ stopper' = IF item = None THEN "join" ELSE stopper
    /\ UNCHANGED <<emitted, putters, current, outcome, overflowed, ends>>

\* The queue is full, perhaps again: another put took the place.  The task
\* waits at the end of the line.
PutWaits(item) ==
    /\ NextPut(item) /\ ~Room
    /\ putters' = Append(putters, item)
    /\ ready' = Tail(ready)
    /\ spawned' = spawned \ {item} /\ nested' = nested \ {item}
    /\ UNCHANGED <<emitted, queue, consumer, current, stopper, outcome, overflowed,
                   ends>>

\* Mutant of ExpireWaiting: the drop is counted, and the put stays in line.
ExpireWaitingStaysInLine ==
    \E i \in DOMAIN putters :
        /\ putters[i] # None
        /\ dropped' = dropped \cup {putters[i]}
        /\ UNCHANGED <<emitted, queue, putters, ready, tasks, consumer, current,
                       stopper, stored, failed, lost, overflowed, ends>>

\* wait_for gives up on a put that waits in line: the drop is counted.
ExpireWaiting ==
    \E i \in DOMAIN putters :
        /\ putters[i] # None
        /\ putters' = RemoveAt(putters, i)
        /\ dropped' = dropped \cup {putters[i]}
        /\ UNCHANGED <<emitted, queue, ready, tasks, consumer, current, stopper,
                       stored, failed, lost, overflowed, ends>>

\* Mutant of ExpireWoken: the cancelled put keeps the wake-up.
ExpireWokenKeepsWakeup(item) ==
    /\ NextPut(item) /\ item # None /\ item \notin spawned \cup nested
    /\ dropped' = dropped \cup {item}
    /\ ready' = Tail(ready)
    /\ UNCHANGED <<emitted, queue, putters, tasks, consumer, current, stopper, stored,
                   failed, lost, overflowed, ends>>

\* It gave up on a put that was woken: when the task runs it is cancelled, and
\* passes the wake-up on if there is room.
ExpireWoken(item) ==
    /\ NextPut(item) /\ item # None /\ item \notin spawned \cup nested
    /\ dropped' = dropped \cup {item}
    /\ IF Room
       THEN WakePut(Tail(ready))
       ELSE ready' = Tail(ready) /\ UNCHANGED putters
    /\ UNCHANGED <<emitted, queue, tasks, consumer, current, stopper, stored,
                   failed, lost, overflowed, ends>>

--------------------------------------------------------------------------------
(* _consumer *)

ConsumerRuns == ready # <<>> /\ Head(ready) = Consumer

WaitForItem ==
    /\ ConsumerRuns /\ queue = <<>>
    /\ consumer' = "wait"
    /\ ready' = Tail(ready)
    /\ UNCHANGED <<emitted, queue, putters, tasks, current, stopper, outcome,
                   overflowed, ends>>

Take ==
    /\ ConsumerRuns /\ queue # <<>>
    /\ queue' = Tail(queue)
    /\ WakePut(Tail(ready))
    /\ IF Head(queue) = None
       THEN consumer' = "done" /\ UNCHANGED current
       ELSE consumer' = "append" /\ current' = Head(queue)
    /\ UNCHANGED <<emitted, tasks, stopper, outcome, overflowed, ends>>

\* Mutant of AppendReturns: a failed event goes back to the end of the queue.
AppendReturnsRetries ==
    /\ consumer = "append"
    /\ consumer' = "ready"
    /\ ready' = Append(ready, Consumer)
    /\ \/ stored' = Append(stored, current) /\ UNCHANGED queue
       \/ queue' = Append(queue, current) /\ UNCHANGED stored
    /\ UNCHANGED <<emitted, putters, tasks, current, stopper, dropped, failed, lost,
                   overflowed, ends>>

\* Mutant of AppendReturns: the exception is swallowed without being counted.
AppendReturnsSilently ==
    /\ consumer = "append"
    /\ consumer' = "ready"
    /\ ready' = Append(ready, Consumer)
    /\ stored' \in {Append(stored, current), stored}
    /\ UNCHANGED <<emitted, queue, putters, tasks, current, stopper, dropped, failed,
                   lost, overflowed, ends>>

\* The store's thread finishes; an exception is caught and counted, and the
\* event is not tried again.
AppendReturns ==
    /\ consumer = "append"
    /\ consumer' = "ready"
    /\ ready' = Append(ready, Consumer)
    /\ \/ stored' = Append(stored, current) /\ UNCHANGED failed
       \/ failed' = failed \cup {current} /\ UNCHANGED stored
    /\ UNCHANGED <<emitted, queue, putters, tasks, current, stopper, dropped, lost,
                   overflowed, ends>>

--------------------------------------------------------------------------------
(* stop() and the end of the process *)

\* Mutant of Stop: it cancels the consumer instead of letting it drain.
StopCancels ==
    /\ consumer # "off" /\ stopper = "idle"
    /\ consumer' = "done" /\ stopper' = "join"
    /\ ready' = SelectSeq(ready, LAMBDA entry : entry # Consumer)
    /\ UNCHANGED <<emitted, queue, putters, tasks, current, outcome, overflowed, ends>>

\* Mutant of Stop: put_nowait on a full queue, and the exception ignored.
StopDropsSentinel ==
    /\ consumer # "off" /\ stopper = "idle"
    /\ stopper' = "join"
    /\ IF Room THEN Enqueue(None, ready) ELSE UNCHANGED <<queue, ready, consumer>>
    /\ UNCHANGED <<emitted, putters, tasks, current, outcome, overflowed, ends>>

Stop ==
    /\ consumer # "off" /\ stopper = "idle"
    /\ \/ /\ Room
          /\ Enqueue(None, ready)
          /\ stopper' = "join"
          /\ UNCHANGED putters
       \/ /\ ~Room
          /\ putters' = Append(putters, None)
          /\ stopper' = "put"
          /\ UNCHANGED <<queue, ready, consumer>>
    /\ UNCHANGED <<emitted, tasks, current, outcome, overflowed, ends>>

StopReturns ==
    /\ stopper = "join" /\ consumer = "done"
    /\ stopper' = "stopped"
    /\ UNCHANGED <<emitted, queue, putters, ready, tasks, consumer, current, outcome,
                   overflowed, ends>>

\* A crash at any point, or the exit after stop(): only the table survives.
EndProcess ==
    /\ consumer # "off" /\ ends < MaxEnds
    /\ ends' = ends + 1
    /\ lost' = lost \cup Pending
    /\ queue' = <<>> /\ putters' = <<>> /\ ready' = <<>> /\ spawned' = {} /\ nested' = {}
    /\ consumer' = "off" /\ current' = None /\ stopper' = "idle"
    /\ UNCHANGED <<emitted, stored, dropped, failed, overflowed>>

\* Nothing need happen once stop() has returned.
Stopped == stopper = "stopped" /\ UNCHANGED vars

Next ==
    \/ Start \/ EmitDirect \/ EmitOverflow
    \/ \E item \in ToSet(ready) :
           EnterWaitFor(item) \/ PutLands(item) \/ PutWaits(item) \/ ExpireWoken(item)
    \/ ExpireWaiting
    \/ WaitForItem \/ Take \/ AppendReturns
    \/ Stop \/ StopReturns \/ EndProcess \/ Stopped

\* The event loop runs every task that is ready, a store call returns or raises,
\* and stop() resumes when the consumer has ended.  Requests, timeouts, shutdown
\* and crashes need not happen.
RunReady ==
    \/ \E item \in ToSet(ready) : EnterWaitFor(item) \/ PutLands(item) \/ PutWaits(item)
    \/ WaitForItem \/ Take
Fairness == WF_vars(RunReady) /\ WF_vars(AppendReturns) /\ WF_vars(StopReturns)

Spec == Init /\ [][Next]_vars
FairSpec == Spec /\ Fairness

--------------------------------------------------------------------------------
(* Properties *)

TypeOK ==
    /\ emitted \in 0..MaxEvents
    /\ queue \in Seq(Nat) /\ ToSet(queue) \subseteq 0..emitted
    /\ Len(queue) <= QueueMax
    /\ putters \in Seq(Nat) /\ ToSet(putters) \subseteq 0..emitted
    /\ ready \in Seq(Int) /\ ToSet(ready) \subseteq -1..emitted
    /\ spawned \subseteq 1..emitted /\ nested \subseteq 1..emitted
    /\ consumer \in {"off", "ready", "wait", "append", "done"}
    /\ current \in 0..emitted
    /\ stopper \in {"idle", "put", "join", "stopped"}
    /\ stored \in Seq(Nat) /\ ToSet(stored) \subseteq 1..emitted
    /\ dropped \subseteq 1..emitted
    /\ failed \subseteq 1..emitted
    /\ lost \subseteq 1..emitted
    /\ overflowed \subseteq 1..emitted
    /\ ends \in 0..MaxEnds

\* Where an item can be: the queue, the line of blocked puts, the ready queue,
\* the consumer's hand, and the four outcomes.
Places == <<ToSet(queue), ToSet(putters), ToSet(ready), Hand,
            ToSet(stored), dropped, failed, lost>>

\* No interleaving of overflow puts, timeouts, appends and shutdown loses track
\* of an emitted event or gives it two fates: each is in exactly one place, once
\* (emit, _enqueue_with_timeout and _consumer, writer.py:39-93).
OnePlace ==
    /\ \A s \in {queue, putters, ready, stored} : IsInjective(s)
    /\ \A p, q \in DOMAIN Places : p # q => Places[p] \cap Places[q] = {}
    /\ 1..emitted = Pending \cup ToSet(stored) \cup dropped \cup failed \cup lost

\* Rows may be out of the order of emission (and of their timestamps), but only
\* by an overflow: an event that was overtaken had found the queue full.
OvertakenOnlyByOverflow ==
    \A i, j \in DOMAIN stored :
        i < j /\ stored[i] > stored[j] => stored[j] \in overflowed

\* What a clean stop() leaves unwritten had found the queue full: events put
\* directly are all ahead of the None item, and are settled before it is taken.
StopStrandsOnlyOverflow ==
    stopper = "stopped" => Pending \subseteq overflowed

\* A put does not sleep beside a free slot: while puts wait in line and the
\* queue has room, a wake-up for one of them is on its way, also when the put
\* that was woken first was cancelled by its timeout.
NoLostWakeup ==
    putters # <<>> /\ Room => \E item \in ToSet(ready) : item # Consumer

\* stop() returns, whatever is queued before it: the None item is put and taken
\* unless the process ends first.
StopEventuallyReturns ==
    stopper \in {"put", "join"} ~> stopper = "stopped" \/ consumer = "off"

\* An emitted event does not stay open while the consumer runs: it is written,
\* counted, or cut off by the end of the consumer or of the process.
EventuallySettled ==
    \A e \in 1..MaxEvents :
        emitted >= e ~> (emitted >= e /\ e \notin Pending) \/ consumer = "done"

\* docs/audit.md:3 promises an event for every pipeline step, and
\* docs/monitoring.md:32 counts the ones dropped: after a clean stop() each
\* event would be written or counted.  The code breaks it: an overflow put that
\* was woken but ran after stop() lands behind the None item.
CleanStopAccountsForAll ==
    stopper = "stopped" => Pending = {}

\* The writer implements the audit trail: queueing, overflow tasks and shutdown
\* are invisible, and each step records, drops, refuses or cuts off at most
\* what the trail allows.
Trail == INSTANCE AuditTrail WITH
    Event <- 1..MaxEvents,
    emitted <- 1..emitted,
    pending <- Pending,
    log <- ToSet(stored)
ImplementsTrail == Trail!TrailSpec
================================================================================
