------------------------------ MODULE AuditTrail ------------------------------
(***************************************************************************)
(* What the audit writer promises the rest of RADA, without its queue: an  *)
(* emitted event is pending until it is appended to the log, dropped (and  *)
(* counted), refused by the store (and counted), or still pending when the *)
(* process ends.  Events are emitted once: every AuditEvent has a new uuid.*)
(* No order of the rows is promised.                                       *)
(***************************************************************************)
CONSTANT Event

VARIABLES
    emitted,   \* events handed to AuditWriter.emit
    pending,   \* emitted, and the outcome is still open
    log,       \* rows of audit_events
    dropped,   \* counted in rada_audit_queue_drops_total
    failed,    \* append raised: counted in rada_loop_errors_total
    lost       \* pending when the process ended: counted nowhere

trailVars == <<emitted, pending, log, dropped, failed, lost>>

TrailInit ==
    /\ emitted = {}
    /\ pending = {}
    /\ log = {}
    /\ dropped = {}
    /\ failed = {}
    /\ lost = {}

\* AuditWriter.emit returns at once: the event is pending.  The batch is what
\* one uninterrupted stretch of code emits.
EmitAll(events) ==
    /\ events \cap emitted = {}
    /\ emitted' = emitted \cup events
    /\ pending' = pending \cup events
    /\ UNCHANGED <<log, dropped, failed, lost>>

Record(e) ==
    /\ e \in pending
    /\ pending' = pending \ {e}
    /\ log' = log \cup {e}
    /\ UNCHANGED <<emitted, dropped, failed, lost>>

Drop(e) ==
    /\ e \in pending
    /\ pending' = pending \ {e}
    /\ dropped' = dropped \cup {e}
    /\ UNCHANGED <<emitted, log, failed, lost>>

Refuse(e) ==
    /\ e \in pending
    /\ pending' = pending \ {e}
    /\ failed' = failed \cup {e}
    /\ UNCHANGED <<emitted, log, dropped, lost>>

\* The process ends, by a crash or after stop(): nothing pending survives it.
End ==
    /\ lost' = lost \cup pending
    /\ pending' = {}
    /\ UNCHANGED <<emitted, log, dropped, failed>>

TrailNext ==
    \/ \E events \in SUBSET Event : EmitAll(events)
    \/ \E e \in pending : Record(e) \/ Drop(e) \/ Refuse(e)
    \/ End

TrailSpec == TrailInit /\ [][TrailNext]_trailVars
===============================================================================
