------------------------------ MODULE EventBus ------------------------------
(***************************************************************************)
(* rada.data.bus as run_bootstrap_once of rada.main uses it: a run builds  *)
(* a bus, enqueues its synthetic events, dequeues as many and processes    *)
(* each.  The in-memory and the ZeroMQ bus hold a queue of the run; the    *)
(* Redis list and the Kafka topic outlive it and are shared by all runs.   *)
(* A run never closes its bus.                                             *)
(***************************************************************************)
EXTENDS Integers, FiniteSets, SequencesExt

CONSTANTS
    BootRun,      \* bootstrap runs
    EventCount,   \* event_count
    MaxBusFaults  \* bound: calls that raise, and kills

Kinds == {"inmemory", "redis", "kafka", "zeromq"}
Shared == "shared"

\* A run enqueues at least one event: the callers of run_bootstrap_once ask for one.
ASSUME BusAssumption ==
    Shared \notin BootRun /\ IsFiniteSet(BootRun) /\ EventCount \in Nat \ {0}
    /\ MaxBusFaults \in Nat

VARIABLES
    busMode,      \* RADA_EVENT_BUS_MODE of every run
    run,          \* per run: kind of its bus, the await it is in, events sent and
                  \* done, the event in hand
    busLog,       \* per queue: every event put on it, <<run, number>>, in order
    taken,        \* per queue: how many are gone from it (Kafka: the committed offset)
    members,      \* Kafka: consumers in the group "rada-ingest"
    position,     \* Kafka: <<the member the partition is assigned to, its position>>
    processed,    \* <<run, place of the event in its queue>> in the order processed
    busFaults

busVars == <<busMode, run, busLog, taken, members, position, processed, busFaults>>

NoRun == [kind |-> "inmemory", at |-> "idle", sent |-> 0, done |-> 0, hand |-> 0]
Unassigned == <<Shared, 0>>

BusInit ==
    /\ busMode \in Kinds
    /\ run = [r \in BootRun |-> NoRun]
    /\ busLog = [q \in BootRun \cup {Shared} |-> <<>>]
    /\ taken = [q \in BootRun \cup {Shared} |-> 0]
    /\ members = {} /\ position = Unassigned /\ processed = <<>> /\ busFaults = 0

QueueOf(r) == IF run[r].kind \in {"redis", "kafka"} THEN Shared ELSE r
NextPlace(r) == IF run[r].kind = "kafka" THEN position[2] + 1 ELSE taken[QueueOf(r)] + 1

\* What build_event_bus returns: the mode asked for, or the in-memory bus (Redis that
\* cannot be set up), or the in-memory queue inside a bus whose library is missing.
BuildEventBus(mode) == {mode, "inmemory"}

BeginRun(r) ==
    /\ run[r].at = "idle"
    /\ \E kind \in BuildEventBus(busMode) :
         run' = [run EXCEPT ![r].kind = kind,
                            ![r].at = IF kind = "kafka" THEN "start" ELSE "enqueue"]
    /\ UNCHANGED <<busMode, busLog, taken, members, position, processed, busFaults>>

\* _ensure_kafka: the producer, then the consumer, which joins the group.
EnsureKafka(r) ==
    /\ run[r].at = "start"
    /\ run' = [run EXCEPT ![r].at = "enqueue"] /\ members' = members \cup {r}
    /\ UNCHANGED <<busMode, busLog, taken, position, processed, busFaults>>

Sent(r) == [run EXCEPT ![r].sent = @ + 1,
                       ![r].at = IF run[r].sent + 1 = EventCount THEN "dequeue" ELSE "enqueue"]

Enqueue(r) ==
    /\ run[r].at = "enqueue" /\ run' = Sent(r)
    /\ busLog' = [busLog EXCEPT ![QueueOf(r)] = Append(@, <<r, run[r].sent + 1>>)]
    /\ UNCHANGED <<busMode, taken, members, position, processed, busFaults>>

Fault(r) ==
    /\ busFaults < MaxBusFaults /\ busFaults' = busFaults + 1
    /\ run' = [run EXCEPT ![r].at = "ended", ![r].hand = 0]
    /\ UNCHANGED <<busMode, taken, members, position, processed>>

\* rpush, send_and_wait or bind raises; the event may be stored all the same.
EnqueueRaises(r) ==
    /\ run[r].at \in {"start", "enqueue"} /\ run[r].kind # "inmemory" /\ Fault(r)
    /\ \/ UNCHANGED busLog
       \/ /\ run[r].at = "enqueue" /\ run[r].kind # "zeromq"
          /\ busLog' = [busLog EXCEPT ![QueueOf(r)] = Append(@, <<r, run[r].sent + 1>>)]

\* process_one raises, or the process is killed: the event in hand is gone.
RunDies(r) ==
    /\ run[r].at \notin {"idle", "ended"} /\ Fault(r) /\ UNCHANGED busLog

--------------------------------------------------------------------------------
\* A get that leaves the event on the queue until it is processed.
DequeuePeeks(r) ==
    /\ run[r].at = "dequeue" /\ NextPlace(r) \in DOMAIN busLog[QueueOf(r)]
    /\ run[r].kind = "kafka" => position[1] = r
    /\ run' = [run EXCEPT ![r].at = "process", ![r].hand = NextPlace(r)]
    /\ UNCHANGED <<busMode, busLog, taken, members, position, processed, busFaults>>

\* Queue.get, BLPOP or getone: waits while there is nothing, takes what is first.
Dequeue(r) ==
    /\ run[r].at = "dequeue" /\ NextPlace(r) \in DOMAIN busLog[QueueOf(r)]
    /\ run' = [run EXCEPT ![r].at = "process", ![r].hand = NextPlace(r)]
    /\ IF run[r].kind = "kafka"
       THEN position[1] = r /\ position' = <<r, NextPlace(r)>> /\ UNCHANGED taken
       ELSE taken' = [taken EXCEPT ![QueueOf(r)] = @ + 1] /\ UNCHANGED position
    /\ UNCHANGED <<busMode, busLog, members, processed, busFaults>>

ProcessOneMore(r) ==
    /\ run[r].at = "process"
    /\ processed' = Append(processed, <<r, run[r].hand>>)
    /\ run' = [run EXCEPT ![r].done = @ + 1, ![r].hand = 0,
                          ![r].at = IF run[r].done = EventCount THEN "ended" ELSE "dequeue"]
    /\ UNCHANGED <<busMode, busLog, taken, members, position, busFaults>>

Process(r) ==
    /\ run[r].at = "process"
    /\ processed' = Append(processed, <<r, run[r].hand>>)
    /\ run' = [run EXCEPT ![r].done = @ + 1, ![r].hand = 0,
                          ![r].at = IF run[r].done + 1 = EventCount THEN "ended" ELSE "dequeue"]
    /\ UNCHANGED <<busMode, busLog, taken, members, position, busFaults>>

--------------------------------------------------------------------------------
(* The group coordinator of Kafka                                              *)

Assign(r) ==
    /\ position = Unassigned /\ r \in members /\ position' = <<r, taken[Shared]>>
    /\ UNCHANGED <<busMode, run, busLog, taken, members, processed, busFaults>>

\* The consumer commits its position every few seconds.
AutoCommit ==
    /\ position # Unassigned /\ taken' = [taken EXCEPT ![Shared] = position[2]]
    /\ UNCHANGED <<busMode, run, busLog, members, position, processed, busFaults>>

\* A consumer that nobody closed leaves the group when it is collected or times out.
LeaveGroup(r) ==
    /\ r \in members /\ run[r].at = "ended"
    /\ members' = members \ {r}
    /\ position' = IF position[1] = r THEN Unassigned ELSE position
    /\ UNCHANGED <<busMode, run, busLog, taken, processed, busFaults>>

BusNext ==
    \/ AutoCommit
    \/ \E r \in BootRun : \/ BeginRun(r) \/ EnsureKafka(r) \/ Enqueue(r) \/ EnqueueRaises(r)
                          \/ Dequeue(r) \/ Process(r) \/ RunDies(r)
                          \/ Assign(r) \/ LeaveGroup(r)

BusSpec == BusInit /\ [][BusNext]_busVars

--------------------------------------------------------------------------------

\* Every variable has its type.
BusTypeOK ==
    /\ busMode \in Kinds
    /\ run \in [BootRun -> [kind : Kinds, sent : 0..EventCount, done : 0..EventCount,
                            at : {"idle", "start", "enqueue", "dequeue", "process", "ended"},
                            hand : 0..(EventCount * Cardinality(BootRun))]]
    /\ \A q \in DOMAIN busLog : taken[q] \in 0..Len(busLog[q])
    /\ members \subseteq BootRun /\ position[2] \in 0..Len(busLog[Shared])
    /\ busFaults \in 0..MaxBusFaults

\* dequeue waits without a timeout, and runs take each other's events from a shared list
\* or topic: still, there are always as many events left as the runs that have enqueued
\* theirs are going to wait for, whatever runs died or raised before them.
NobodyStarves ==
    \A q \in DOMAIN busLog :
      LET wanted == {w \in BootRun \X (1..EventCount) :
                       /\ run[w[1]].at \in {"dequeue", "process"} /\ QueueOf(w[1]) = q
                       /\ w[2] > run[w[1]].done + (IF run[w[1]].hand = 0 THEN 0 ELSE 1)}
          gone == IF q = Shared /\ position # Unassigned THEN position[2] ELSE taken[q]
      IN  Cardinality(wanted) <= Len(busLog[q]) - gone

\* An event is processed at most once (at the brokers that remove what they hand out), and
\* every run processes its events in the order they were put on the queue.
OnceAndInOrder ==
    \A i, j \in DOMAIN processed :
      LET a == processed[i] b == processed[j]
      IN  /\ i < j /\ a[1] = b[1] => a[2] < b[2]
          /\ i # j /\ QueueOf(a[1]) = QueueOf(b[1]) /\ busMode # "kafka" => a[2] # b[2]
================================================================================
