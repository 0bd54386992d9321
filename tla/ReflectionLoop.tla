---------------------------- MODULE ReflectionLoop -----------------------------
(***************************************************************************)
(* rada.core.reflection_loop.ReflectionLoop: decisions are queued off the  *)
(* hot path (and dropped when the queue is full); a consumer task audits   *)
(* each one, writes its outcome back to the decision store, folds it into  *)
(* the policy checkpoint and exports every ExportBatchSize of them to two  *)
(* files named after the checkpoint version.  drain_all does the same      *)
(* without the task, run_batch_from_store for rows read from the store.    *)
(* A worker runs to its next await in one step.  Decisions are numbered in *)
(* the order of enqueue().                                                 *)
(***************************************************************************)
EXTENDS Integers, SequencesExt

CONSTANTS
    QueueMax,         \* queue_maxsize
    ExportBatchSize,  \* export_batch_size
    BatchLimit,       \* limit of run_batch_from_store
    MaxDecisions,     \* bound: decisions over all processes
    MaxBatches,       \* bound: calls of run_batch_from_store
    MaxEnds           \* bound: process ends, each followed by a restart

ASSUME QueueAssumption == QueueMax \in Nat \ {0}
ASSUME ExportAssumption == ExportBatchSize \in Nat \ {0} /\ BatchLimit \in Nat \ {0}
ASSUME BoundsAssumption == MaxDecisions \in Nat /\ MaxBatches \in Nat /\ MaxEnds \in Nat

None == 0  \* the item stop() puts; decisions count from 1
MaxVersion == MaxDecisions + MaxBatches * BatchLimit

VARIABLES
    served,          \* TRUE: the lifespan, which starts the consumer before it serves;
                     \* FALSE: tests and evaluations, which call drain_all
    made,            \* decisions saved and handed to enqueue()
    queue,           \* items in the asyncio.Queue
    at,              \* per worker: off, get, audit, persist; the consumer's end: done
    hand,            \* per worker: the decision it processes
    todo,            \* the rows run_batch_from_store has yet to process
    batches,         \* its calls so far
    scored,          \* _audit_scores: the decisions scored by this process
    reflected,       \* policy_update_signals: those folded into the checkpoint
    version,         \* checkpoint.version
    batch,           \* _processed_with_outcome
    summary,         \* last_summary: processed and checkpoint_version
    reflectionFile,  \* exports/reflection/reflection-<version>.jsonl, <<>> if absent
    feedbackFile,    \* feedback/outgoing/reflection-<version>.jsonl
    outcomes,        \* decisions whose stored row has the outcome
    consumed,        \* taken from the queue and folded in
    dropped,         \* counted in rada_reflection_queue_drops_total
    failed,          \* taken from the queue, and the audit raised
    lost,            \* queued or in hand when their process ended
    exported,        \* history: rows of this process's complete exports, in order
    stopper,         \* stop(): idle, put, join, stopped
    ends             \* process ends so far

work == <<queue, at, hand, todo>>
checkpoint == <<scored, reflected, version, batch, summary, exported>>
files == <<reflectionFile, feedbackFile>>
fate == <<consumed, dropped, failed, lost>>
vars == <<made, work, batches, checkpoint, files, outcomes, fate, stopper, ends, served>>

Worker == {"consumer", "drain", "batch"}
FromQueue == {"consumer", "drain"}
\* Mutant of Room: one put too many fits.
RoomForOneMore == Len(queue) <= QueueMax
Room == Len(queue) < QueueMax
InHand == {hand[w] : w \in {v \in FromQueue : at[v] \in {"audit", "persist"}}}
Pending == (ToSet(queue) \ {None}) \cup InHand

Init ==
    /\ served \in BOOLEAN /\ made = 0 /\ queue = <<>> /\ todo = <<>> /\ batches = 0
    /\ at = [w \in Worker |-> "off"] /\ hand = [w \in Worker |-> None]
    /\ scored = <<>> /\ reflected = <<>> /\ version = 0 /\ batch = <<>>
    /\ summary = [processed |-> 0, version |-> 0] /\ exported = <<>>
    /\ reflectionFile = [v \in 1..MaxVersion |-> <<>>]
    /\ feedbackFile = [v \in 1..MaxVersion |-> <<>>]
    /\ outcomes = {}
    /\ consumed = {} /\ dropped = {} /\ failed = {} /\ lost = {}
    /\ stopper = "idle" /\ ends = 0

Start ==
    /\ served /\ at["consumer"] = "off"
    /\ at' = [at EXCEPT !["consumer"] = "get"]
    /\ UNCHANGED <<made, queue, hand, todo, batches, checkpoint, files, outcomes, fate,
                   stopper, ends, served>>

\* Mutant of Enqueue: the exception is ignored, and the drop is not counted.
EnqueueDropsSilently ==
    /\ served => at["consumer"] # "off"
    /\ stopper = "idle" /\ made < MaxDecisions
    /\ made' = made + 1
    /\ queue' = IF Room THEN Append(queue, made + 1) ELSE queue
    /\ UNCHANGED <<at, hand, todo, batches, checkpoint, files, outcomes, fate, stopper,
                   ends, served>>

\* put_nowait, or a counted drop; requests come until shutdown begins.
Enqueue ==
    /\ served => at["consumer"] # "off"
    /\ stopper = "idle" /\ made < MaxDecisions
    /\ made' = made + 1
    /\ IF Room
       THEN queue' = Append(queue, made + 1) /\ UNCHANGED dropped
       ELSE dropped' = dropped \cup {made + 1} /\ UNCHANGED queue
    /\ UNCHANGED <<at, hand, todo, batches, checkpoint, files, outcomes, consumed, failed,
                   lost, stopper, ends, served>>

--------------------------------------------------------------------------------
(* Where a worker's next decision comes from *)

Receive(w, decision) ==
    /\ hand' = [hand EXCEPT ![w] = decision]
    /\ at' = [at EXCEPT ![w] = "audit"]

ConsumerGets ==
    /\ at["consumer"] = "get" /\ queue # <<>>
    /\ queue' = Tail(queue)
    /\ IF Head(queue) = None
       THEN at' = [at EXCEPT !["consumer"] = "done"] /\ UNCHANGED hand
       ELSE Receive("consumer", Head(queue))
    /\ UNCHANGED <<made, todo, batches, checkpoint, files, outcomes, fate, stopper,
                   ends, served>>

\* drain_all is for callers without the background task.
DrainCalled ==
    /\ ~served /\ at["drain"] = "off" /\ queue # <<>>
    /\ at' = [at EXCEPT !["drain"] = "get"]
    /\ UNCHANGED <<made, queue, hand, todo, batches, checkpoint, files, outcomes, fate,
                   stopper, ends, served>>

DrainGets ==
    /\ at["drain"] = "get"
    /\ IF queue = <<>>
       THEN at' = [at EXCEPT !["drain"] = "off"] /\ UNCHANGED <<queue, hand>>
       ELSE queue' = Tail(queue) /\ Receive("drain", Head(queue))
    /\ UNCHANGED <<made, todo, batches, checkpoint, files, outcomes, fate, stopper,
                   ends, served>>

\* list_decisions returns the newest rows first.
BatchCalled ==
    /\ at["batch"] = "off" /\ batches < MaxBatches /\ made > 0
    /\ batches' = batches + 1
    /\ at' = [at EXCEPT !["batch"] = "get"]
    /\ todo' = [i \in 1..(IF made < BatchLimit THEN made ELSE BatchLimit) |-> made + 1 - i]
    /\ UNCHANGED <<made, queue, hand, checkpoint, files, outcomes, fate, stopper, ends, served>>

BatchGets ==
    /\ at["batch"] = "get"
    /\ IF todo = <<>>
       THEN at' = [at EXCEPT !["batch"] = "off"] /\ UNCHANGED <<todo, hand>>
       ELSE todo' = Tail(todo) /\ Receive("batch", Head(todo))
    /\ UNCHANGED <<made, queue, batches, checkpoint, files, outcomes, fate, stopper,
                   ends, served>>

--------------------------------------------------------------------------------
(* _process *)

\* An exception ends a drain or a batch; the consumer logs it and goes on.
AfterRaise(w) ==
    /\ at' = [at EXCEPT ![w] = IF w = "consumer" THEN "get" ELSE "off"]
    /\ todo' = IF w = "batch" THEN <<>> ELSE todo

AuditScores(w) ==
    /\ at[w] = "audit"
    /\ scored' = Append(scored, hand[w])
    /\ at' = [at EXCEPT ![w] = "persist"]
    /\ UNCHANGED <<made, queue, hand, todo, batches, reflected, version, batch, summary,
                   exported, files, outcomes, fate, stopper, ends, served>>

\* Mutant of AuditRaises: the decision goes back to the end of the queue.
AuditRaisesRequeues(w) ==
    /\ at[w] = "audit"
    /\ queue' = Append(queue, hand[w])
    /\ AfterRaise(w)
    /\ UNCHANGED <<made, hand, batches, checkpoint, files, outcomes, fate, stopper,
                   ends, served>>

\* Mutant of AuditRaises: a score is recorded before the exception.
AuditRaisesAfterScore(w) ==
    /\ at[w] = "audit"
    /\ scored' = Append(scored, hand[w])
    /\ failed' = IF w \in FromQueue THEN failed \cup {hand[w]} ELSE failed
    /\ AfterRaise(w)
    /\ UNCHANGED <<made, queue, hand, batches, reflected, version, batch, summary, exported,
                   files, outcomes, consumed, dropped, lost, stopper, ends, served>>

AuditRaises(w) ==
    /\ at[w] = "audit"
    /\ failed' = IF w \in FromQueue THEN failed \cup {hand[w]} ELSE failed
    /\ AfterRaise(w)
    /\ UNCHANGED <<made, queue, hand, batches, checkpoint, files, outcomes, consumed, dropped,
                   lost, stopper, ends, served>>

\* update_decision writes the outcome, or raises, which is only logged.
Persist(decision) == outcomes' \in {outcomes \cup {decision}, outcomes}

\* The checkpoint counts the decision, which joins the batch.
Apply(w) ==
    /\ version' = version + 1
    /\ reflected' = Append(reflected, hand[w])
    /\ consumed' = IF w \in FromQueue THEN consumed \cup {hand[w]} ELSE consumed

\* Mutant of BatchId: numbered within a batch, not over the process.
BatchIdInBatch == 1 + (version' % ExportBatchSize)

BatchId == version'

\* The two files are opened for writing, whatever is there, and the batch is
\* cleared once both are written.
Export(now) ==
    /\ reflectionFile' = [reflectionFile EXCEPT ![BatchId] = now]
    /\ feedbackFile' = [feedbackFile EXCEPT ![BatchId] = now]
    /\ summary' = [processed |-> Len(now), version |-> version']
    /\ batch' = <<>>
    /\ exported' = exported \o now

\* Mutant of ExportRaises: the batch is cleared in any case.
ExportRaisesClears(now) ==
    /\ batch' = <<>>
    /\ UNCHANGED <<files, summary, exported>>

\* It raises before it opens a file (no directory, no config), or in the second.
ExportRaises(now) ==
    /\ \/ UNCHANGED files
       \/ /\ reflectionFile' = [reflectionFile EXCEPT ![BatchId] = now]
          /\ feedbackFile' \in {feedbackFile, [feedbackFile EXCEPT ![BatchId] = <<>>]}
    /\ batch' = now
    /\ UNCHANGED <<summary, exported>>

\* From the return of update_decision on nothing suspends: the policy update,
\* the metrics and the export are one step.
FinishBelowBatch(w) ==
    /\ at[w] = "persist" /\ Len(batch) + 1 < ExportBatchSize
    /\ Persist(hand[w]) /\ Apply(w)
    /\ batch' = Append(batch, hand[w])
    /\ at' = [at EXCEPT ![w] = "get"]
    /\ UNCHANGED <<made, queue, hand, todo, batches, scored, summary, exported, files,
                   dropped, failed, lost, stopper, ends, served>>

FinishAndExport(w) ==
    /\ at[w] = "persist" /\ Len(batch) + 1 >= ExportBatchSize
    /\ Persist(hand[w]) /\ Apply(w)
    /\ \/ /\ Export(Append(batch, hand[w]))
          /\ at' = [at EXCEPT ![w] = "get"]
          /\ UNCHANGED todo
       \/ /\ ExportRaises(Append(batch, hand[w]))
          /\ AfterRaise(w)
    /\ UNCHANGED <<made, queue, hand, batches, scored, dropped, failed, lost, stopper,
                   ends, served>>

--------------------------------------------------------------------------------
(* stop() and the end of the process *)

\* Mutant of Stop: it cancels the consumer instead of letting it drain.
StopCancels ==
    /\ at["consumer"] # "off" /\ stopper = "idle"
    /\ at' = [at EXCEPT !["consumer"] = "done"]
    /\ stopper' = "join"
    /\ UNCHANGED <<made, queue, hand, todo, batches, checkpoint, files, outcomes, fate,
                   ends, served>>

\* Mutant of Stop: the exception of put_nowait on a full queue is ignored.
StopDropsSentinel ==
    /\ at["consumer"] # "off" /\ stopper = "idle"
    /\ queue' = IF Room THEN Append(queue, None) ELSE queue
    /\ stopper' = "join"
    /\ UNCHANGED <<made, at, hand, todo, batches, checkpoint, files, outcomes, fate,
                   ends, served>>

\* put_nowait, or an awaited put when the queue is full.
Stop ==
    /\ at["consumer"] # "off" /\ stopper = "idle"
    /\ IF Room
       THEN queue' = Append(queue, None) /\ stopper' = "join"
       ELSE stopper' = "put" /\ UNCHANGED queue
    /\ UNCHANGED <<made, at, hand, todo, batches, checkpoint, files, outcomes, fate,
                   ends, served>>

StopPuts ==
    /\ stopper = "put" /\ Room
    /\ queue' = Append(queue, None)
    /\ stopper' = "join"
    /\ UNCHANGED <<made, at, hand, todo, batches, checkpoint, files, outcomes, fate,
                   ends, served>>

StopReturns ==
    /\ stopper = "join" /\ at["consumer"] = "done"
    /\ stopper' = "stopped"
    /\ UNCHANGED <<made, work, batches, checkpoint, files, outcomes, fate, ends, served>>

\* What ends with the process.  The rows and the files survive it, and the next
\* checkpoint starts from version 0.
Forget ==
    /\ lost' = lost \cup Pending
    /\ queue' = <<>> /\ todo' = <<>>
    /\ at' = [w \in Worker |-> "off"] /\ hand' = [w \in Worker |-> None]
    /\ scored' = <<>> /\ reflected' = <<>> /\ version' = 0 /\ batch' = <<>>
    /\ summary' = [processed |-> 0, version |-> 0] /\ exported' = <<>>
    /\ stopper' = "idle"

\* A crash, or the exit after stop(); an update_decision that is under way may
\* have been committed.
EndProcess ==
    /\ ends < MaxEnds
    /\ ends' = ends + 1
    /\ Forget
    /\ \E written \in SUBSET {hand[w] : w \in {v \in Worker : at[v] = "persist"}} :
           outcomes' = outcomes \cup written
    /\ UNCHANGED <<made, batches, files, consumed, dropped, failed, served>>

\* A crash between the two files of an export.
CrashInExport(w) ==
    /\ ends < MaxEnds
    /\ ends' = ends + 1
    /\ at[w] = "persist" /\ Len(batch) + 1 >= ExportBatchSize
    /\ Persist(hand[w])
    /\ reflectionFile' = [reflectionFile EXCEPT ![version + 1] = Append(batch, hand[w])]
    /\ Forget
    /\ UNCHANGED <<made, batches, feedbackFile, consumed, dropped, failed, served>>

\* Nothing need happen once stop() has returned, or when nothing calls.
Rest ==
    /\ \A w \in Worker : at[w] \in {"off", "get", "done"}
    /\ queue = <<>> /\ todo = <<>>
    /\ UNCHANGED vars

Process(w) == AuditScores(w) \/ AuditRaises(w) \/ FinishBelowBatch(w) \/ FinishAndExport(w)

Next ==
    \/ Start \/ Enqueue
    \/ ConsumerGets \/ DrainCalled \/ DrainGets \/ BatchCalled \/ BatchGets
    \/ \E w \in Worker : Process(w) \/ CrashInExport(w)
    \/ Stop \/ StopPuts \/ StopReturns \/ EndProcess \/ Rest

\* The event loop runs the consumer and stop(), and awaited calls return or raise.
Fairness ==
    /\ WF_vars(ConsumerGets) /\ WF_vars(Process("consumer"))
    /\ WF_vars(StopPuts) /\ WF_vars(StopReturns)

Spec == Init /\ [][Next]_vars
FairSpec == Spec /\ Fairness

--------------------------------------------------------------------------------
(* Properties *)

Rows == Seq(1..made)

TypeOK ==
    /\ served \in BOOLEAN /\ made \in 0..MaxDecisions
    /\ queue \in Seq(0..made) /\ Len(queue) <= QueueMax
    /\ at \in [Worker -> {"off", "get", "audit", "persist", "done"}]
    /\ hand \in [Worker -> 0..made]
    /\ todo \in Rows /\ batches \in 0..MaxBatches
    /\ scored \in Rows /\ reflected \in Rows /\ version \in 0..MaxVersion
    /\ batch \in Rows /\ exported \in Rows
    /\ summary \in [processed : 0..MaxVersion, version : 0..MaxVersion]
    /\ reflectionFile \in [1..MaxVersion -> Rows]
    /\ feedbackFile \in [1..MaxVersion -> Rows]
    /\ outcomes \subseteq 1..made
    /\ consumed \subseteq 1..made /\ dropped \subseteq 1..made
    /\ failed \subseteq 1..made /\ lost \subseteq 1..made
    /\ stopper \in {"idle", "put", "join", "stopped"} /\ ends \in 0..MaxEnds

\* Every decision handed to enqueue() is in one place: waiting or in hand, folded
\* into a checkpoint, dropped and counted, failed and counted, or cut off by the
\* end of the process (enqueue and _consumer_loop, reflection_loop.py:129-193).
OneFate ==
    /\ IsInjective(queue)
    /\ ToSet(queue) \cap InHand = {}
    /\ \A p, q \in 1..5 : p # q =>
          LET fates == <<Pending, consumed, dropped, failed, lost>>
          IN  fates[p] \cap fates[q] = {}
    /\ 1..made = Pending \cup consumed \cup dropped \cup failed \cup lost

\* The checkpoint of a server that runs no batch takes the decisions in the order
\* they were made, whichever were dropped or failed between them.
InOrder == served /\ batches = 0 =>
    \A i, j \in DOMAIN reflected : i < j => reflected[i] < reflected[j]

\* Each score belongs to a decision the checkpoint has counted or is about to:
\* an exception of the audit, the store or the export cannot separate the score
\* history from the checkpoint (_process, reflection_loop.py:225-241).
ScoresMatchCheckpoint ==
    /\ version = Len(reflected)
    /\ Len(scored) = version + Cardinality({w \in Worker : at[w] = "persist"})

\* The exports cut what the checkpoint counted into consecutive batches: a failed
\* export neither loses a decision nor lets a completed one repeat it.
ExportsPartition == exported \o batch = reflected

\* In one process no export writes over an earlier one: the version in the file
\* name has moved on, also after a failed export (_maybe_export_batch).
NoOverwriteInProcess ==
    [][\A v \in 1..version :
          \/ reflectionFile'[v] = reflectionFile[v] /\ feedbackFile'[v] = feedbackFile[v]
          \/ version' = 0]_vars

\* stop() leaves nothing behind: what was accepted before it is ahead of the None
\* item and was processed (stop, reflection_loop.py:172-179).
StopDrains == stopper = "stopped" => Pending = {}

\* stop() returns unless the process ends, also when the queue was full.
StopEventuallyReturns ==
    stopper \in {"put", "join"} ~> stopper = "stopped" \/ at["consumer"] = "off"
================================================================================
