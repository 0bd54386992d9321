--------------------------- MODULE TimescaleStore ---------------------------
(***************************************************************************)
(* The decision stores of rada.data.  TimescaleDecisionStore in detail:    *)
(* the pool that is created on first use, the tables made ready before     *)
(* every operation, the transaction of save_decision over three tables,    *)
(* the one-statement update, the lifespan of rada.main that warms its      *)
(* store up and closes it, and POST /bootstrap-demo, which builds a store  *)
(* of its own in every call.  The in-memory and the SQLite store keep the  *)
(* payloads only and list them with filter_decisions.                      *)
(***************************************************************************)
EXTENDS Integers, FiniteSets, SequencesExt

CONSTANTS
    Caller,        \* tasks that use the store at once
    StoredId,      \* decision ids
    Payload,       \* decisions as stored: [ts |-> , policy |-> , trace |-> ]
    LocalOffset,   \* what the clock of the process is ahead of UTC
    MaxPools,      \* bound: pools created
    MaxLosses      \* bound: statements that find their connection gone

NoPool == 0
Lifespan == "lifespan"

ASSUME CallerAssumption == Lifespan \notin Caller
ASSUME PoolsAssumption == MaxPools \in Nat
ASSUME OffsetAssumption == LocalOffset \in Int
ASSUME StoredAssumption == StoredId # {} /\ Payload # {} /\ \A p \in Payload : p.ts \in Nat \ {0}
Moment == {p.ts : p \in Payload}
Policy == {p.policy : p \in Payload}

VARIABLES
    server,          \* "down", "starting", "serving", "closing" or "closed"
    pool,            \* self._pool of the lifespan's store
    openPools,       \* pools created and not closed, poolsDrawn of them created so far
    demoPools,       \* pools that the stores of the demo created
    poolsDrawn,
    storeCall,       \* per caller: the operation, its arguments, the await it is in, the
                     \* pool it uses, whether its store is one of its own (then that pool
                     \* is the store's _pool) and the tables its transaction has written
    rows,            \* decisions: id -> payload and the column created_at
    marketEvents,    \* market_events: ids
    decisionTraces,  \* decision_traces: id -> trace
    inserted,        \* ids in the order their rows were committed
    updated,         \* ids of rows that update_decision changed
    losses

storeTables == <<rows, marketEvents, decisionTraces, inserted, updated>>
storePools == <<server, pool, openPools, demoPools, poolsDrawn>>
storeVars == <<storePools, storeCall, storeTables, losses>>

AnyPayload == CHOOSE p \in Payload : TRUE
AnyId == CHOOSE d \in StoredId : TRUE
Ops == {"save", "update", "read"}
NoCall == [op |-> "read", id |-> AnyId, payload |-> AnyPayload, own |-> FALSE,
           at |-> "idle", next |-> "ready", pool |-> NoPool, wrote |-> {}]

StoreInit ==
    /\ server = "down" /\ pool = NoPool /\ openPools = {} /\ demoPools = {} /\ poolsDrawn = 0
    /\ storeCall = [c \in Caller \cup {Lifespan} |-> NoCall]
    /\ rows = <<>> /\ marketEvents = {} /\ decisionTraces = <<>>
    /\ inserted = <<>> /\ updated = {} /\ losses = 0

--------------------------------------------------------------------------------
(* The pool and the tables                                                    *)

\* _pool_or_create: call k goes on to "next" with the pool of its store, or awaits create_pool.
PoolOrCreate(k, next) ==
    LET p == IF k.own THEN k.pool ELSE pool
    IN  IF p # NoPool THEN [k EXCEPT !.at = next, !.pool = p]
                      ELSE [k EXCEPT !.at = "create", !.next = next]

Created(c) ==
    /\ storeCall[c].at = "create" /\ poolsDrawn < MaxPools
    /\ poolsDrawn' = poolsDrawn + 1
    /\ openPools' = openPools \cup {poolsDrawn'}
    /\ IF storeCall[c].own THEN demoPools' = demoPools \cup {poolsDrawn'} /\ UNCHANGED pool
                           ELSE pool' = poolsDrawn' /\ UNCHANGED demoPools
    /\ storeCall' = [storeCall EXCEPT ![c].at = storeCall[c].next, ![c].pool = poolsDrawn']
    /\ UNCHANGED <<server, storeTables, losses>>

\* CREATE TABLE IF NOT EXISTS and the rest: the operation proper comes next.
EnsureReady(c) ==
    /\ storeCall[c].at = "ready" /\ storeCall[c].pool \in openPools
    /\ IF c = Lifespan THEN /\ server' = "serving"
                            /\ storeCall' = [storeCall EXCEPT ![c] = NoCall]
                       ELSE /\ storeCall' = [storeCall EXCEPT ![c] = PoolOrCreate(@, @.op)]
                            /\ UNCHANGED server
    /\ UNCHANGED <<pool, openPools, demoPools, poolsDrawn, storeTables, losses>>

StartCold ==
    /\ server = "down" /\ server' = "serving"
    /\ UNCHANGED <<pool, openPools, demoPools, poolsDrawn, storeCall, storeTables, losses>>

\* _lifespan: ensure_ready before the first request.
StartStore ==
    /\ server = "down" /\ server' = "starting"
    /\ storeCall' = [storeCall EXCEPT ![Lifespan] = PoolOrCreate(@, "ready")]
    /\ UNCHANGED <<pool, openPools, demoPools, poolsDrawn, storeTables, losses>>

\* ... and close() once the requests and the reflection loop are done.
CloseStarts ==
    /\ server = "serving" /\ \A c \in Caller : storeCall[c].at = "idle"
    /\ server' = "closing"
    /\ UNCHANGED <<pool, openPools, demoPools, poolsDrawn, storeCall, storeTables, losses>>

CloseReturns ==
    /\ server = "closing" /\ server' = "closed"
    /\ openPools' = openPools \ {pool} /\ pool' = NoPool
    /\ UNCHANGED <<demoPools, poolsDrawn, storeCall, storeTables, losses>>

--------------------------------------------------------------------------------
(* The operations                                                             *)

\* A read is the same call whatever it reads.
Asked(op, d, p, own) ==
    IF op = "read" THEN NoCall
                   ELSE [NoCall EXCEPT !.op = op, !.id = d, !.payload = p, !.own = own]

\* On the lifespan's store, or as run_bootstrap_once does: one save of a new decision on
\* a store just built, which nobody closes and which is gone when the call returns.
Invoke(c) ==
    /\ server = "serving" /\ storeCall[c].at = "idle"
    /\ \E op \in Ops, d \in StoredId, p \in Payload, own \in BOOLEAN :
         /\ own => op = "save" /\ d \notin DOMAIN rows
         /\ storeCall' = [storeCall EXCEPT ![c] = PoolOrCreate(Asked(op, d, p, own), "ready")]
    /\ UNCHANGED <<storePools, storeTables, losses>>

Return(c) == storeCall' = [storeCall EXCEPT ![c] = NoCall]

\* get_decision and list_decisions only read; MayList says what a list holds.
Read(c) ==
    /\ storeCall[c].at = "read" /\ Return(c)
    /\ UNCHANGED <<storePools, storeTables, losses>>

\* The INSERT waits for a transaction that holds the same key, and raises
\* UniqueViolationError if the row is there: ValueError to the caller.
InsertDecision(c) ==
    LET d == storeCall[c].id
    IN  /\ storeCall[c].at = "save"
        /\ \A other \in Caller : ~(storeCall[other].id = d /\ storeCall[other].wrote # {})
        /\ IF d \in DOMAIN rows
           THEN Return(c)
           ELSE storeCall' = [storeCall EXCEPT ![c].at = "market_events",
                                               ![c].wrote = {"decisions"}]
        /\ UNCHANGED <<storePools, storeTables, losses>>

InsertMarketEvent(c) ==
    /\ storeCall[c].at = "market_events"
    /\ storeCall' = [storeCall EXCEPT ![c].at = "decision_traces",
                                      ![c].wrote = @ \cup {"market_events"}]
    /\ UNCHANGED <<storePools, storeTables, losses>>

SkipTrace(c) ==
    /\ storeCall[c].at = "decision_traces"
    /\ storeCall' = [storeCall EXCEPT ![c].at = "commit"]
    /\ UNCHANGED <<storePools, storeTables, losses>>

InsertTrace(c) ==
    /\ storeCall[c].at = "decision_traces"
    /\ storeCall' = [storeCall EXCEPT ![c].at = "commit",
                                      ![c].wrote = @ \cup {"decision_traces"}]
    /\ UNCHANGED <<storePools, storeTables, losses>>

With(f, d, value) == [e \in DOMAIN f \cup {d} |-> IF e = d THEN value ELSE f[e]]

Commit(c) ==
    LET k == storeCall[c] p == k.payload
    IN  /\ k.at = "commit" /\ Return(c)
        /\ rows' = IF "decisions" \in k.wrote
                   THEN With(rows, k.id, [payload |-> p, created_at |-> p.ts]) ELSE rows
        /\ marketEvents' = IF "market_events" \in k.wrote
                           THEN marketEvents \cup {k.id} ELSE marketEvents
        /\ decisionTraces' = IF "decision_traces" \in k.wrote /\ k.id \notin DOMAIN decisionTraces
                             THEN With(decisionTraces, k.id, p.trace) ELSE decisionTraces
        /\ inserted' = Append(inserted, k.id)
        /\ UNCHANGED <<storePools, updated, losses>>

UpdatePayloadOnly(c) ==
    LET k == storeCall[c]
    IN  /\ k.at = "update" /\ Return(c)
        /\ IF k.id \in DOMAIN rows
           THEN /\ rows' = [rows EXCEPT ![k.id].payload = k.payload]
                /\ updated' = updated \cup {k.id}
           ELSE UNCHANGED <<rows, updated>>
        /\ UNCHANGED <<storePools, marketEvents, decisionTraces, inserted, losses>>

\* One UPDATE of payload and created_at; no row matched: KeyError to the caller.
Update(c) ==
    LET k == storeCall[c]
    IN  /\ k.at = "update" /\ Return(c)
        /\ IF k.id \in DOMAIN rows
           THEN /\ rows' = [rows EXCEPT ![k.id] = [payload |-> k.payload,
                                                   created_at |-> k.payload.ts]]
                /\ updated' = updated \cup {k.id}
           ELSE UNCHANGED <<rows, updated>>
        /\ UNCHANGED <<storePools, marketEvents, decisionTraces, inserted, losses>>

\* create_pool, an acquire or a statement raises: the transaction rolls back.
\* In the lifespan that ends the process.
StatementRaises(c) ==
    /\ storeCall[c].at # "idle" /\ losses < MaxLosses
    /\ losses' = losses + 1 /\ Return(c)
    /\ IF c = Lifespan THEN /\ server' = "down" /\ pool' = NoPool
                            /\ openPools' = {} /\ demoPools' = {}
                       ELSE UNCHANGED <<server, pool, openPools, demoPools>>
    /\ UNCHANGED <<poolsDrawn, storeTables>>

\* After close(), or as a crash at any other moment.
ProcessEnds ==
    /\ server # "down" /\ server' = "down" /\ pool' = NoPool
    /\ openPools' = {} /\ demoPools' = {}
    /\ storeCall' = [c \in DOMAIN storeCall |-> NoCall]
    /\ UNCHANGED <<poolsDrawn, storeTables, losses>>

StoreNext ==
    \/ StartStore \/ CloseStarts \/ CloseReturns \/ ProcessEnds
    \/ \E c \in Caller \cup {Lifespan} : Created(c) \/ EnsureReady(c) \/ StatementRaises(c)
    \/ \E c \in Caller : \/ Invoke(c) \/ Read(c) \/ Update(c)
                         \/ InsertDecision(c) \/ InsertMarketEvent(c) \/ InsertTrace(c) \/ Commit(c)

StoreSpec == StoreInit /\ [][StoreNext]_storeVars

--------------------------------------------------------------------------------
(* What the stores list: newest first, from `since`, of the policies named     *)
(* (none: any), cut at `limit` (0 stands for None and any <= 0).  A bound is   *)
(* what a clock shows and whether a zone comes with it; 0 UTC: no bound.       *)

Since == [wall : Nat, aware : BOOLEAN]
NoBound == [wall |-> 0, aware |-> TRUE]
Queries == [since : {NoBound} \cup [wall : Moment, aware : BOOLEAN], limit : {0, 1},
            policies : {{}} \cup {{a} : a \in Policy}]

\* filter_decisions takes a bound without a zone for UTC, asyncpg takes it for local time.
SinceUtc(since) == since.wall
SinceSent(since) == IF since.aware THEN since.wall ELSE since.wall - LocalOffset

Matches(p, ts, since, q) == ts >= since /\ (q.policies = {} \/ p.policy \in q.policies)

\* The stable sort by timestamp, newest first, of the payloads in the order they were saved.
PlaceSaved(d) == CHOOSE i \in DOMAIN inserted : inserted[i] = d
Timestamp(d) == rows[d].payload.ts
Sooner(d, e) == \/ Timestamp(d) > Timestamp(e)
                \/ Timestamp(d) = Timestamp(e) /\ PlaceSaved(d) < PlaceSaved(e)

\* Of what matches the bound, each in its place of that order, as many as the limit.
FilteredFrom(since, q) ==
    LET found == {d \in DOMAIN rows : Matches(rows[d].payload, Timestamp(d), since, q)}
        all == Cardinality(found)
    IN  [i \in 1..(IF q.limit \in 1..all THEN q.limit ELSE all) |->
            CHOOSE d \in found : Cardinality({e \in found : Sooner(e, d)}) = i - 1]

FilterDecisions(q) == FilteredFrom(SinceUtc(q.since), q)

\* What ORDER BY created_at DESC LIMIT may return: rows that match, once each and in that order,
\* and all of them or as many as the limit, of which those left out are no newer.
MayList(s, q) ==
    LET at(d) == rows[d].created_at
        found == {d \in DOMAIN rows : Matches(rows[d].payload, at(d), SinceSent(q.since), q)}
        absent == found \ ToSet(s)
    IN  /\ ToSet(s) \subseteq found /\ Cardinality(ToSet(s)) = Len(s)
        /\ \A i \in 2..Len(s) : at(s[i]) <= at(s[i - 1])
        /\ absent # {} => /\ q.limit > 0 /\ Len(s) = q.limit
                          /\ \A d \in absent, e \in ToSet(s) : at(d) <= at(e)

--------------------------------------------------------------------------------

\* Every variable has its type.
StoreTypeOK ==
    /\ server \in {"down", "starting", "serving", "closing", "closed"}
    /\ poolsDrawn \in 0..MaxPools /\ pool \in 0..poolsDrawn
    /\ openPools \subseteq 1..poolsDrawn /\ demoPools \subseteq 1..poolsDrawn
    /\ \A c \in Caller \cup {Lifespan} :
         /\ storeCall[c].op \in Ops /\ storeCall[c].id \in StoredId
         /\ storeCall[c].payload \in Payload /\ storeCall[c].own \in BOOLEAN
         /\ storeCall[c].pool \in 0..poolsDrawn
         /\ storeCall[c].wrote \subseteq {"decisions", "market_events", "decision_traces"}
    /\ \A d \in DOMAIN rows : d \in StoredId /\ rows[d] \in [payload : Payload, created_at : Moment]
    /\ marketEvents \subseteq StoredId /\ updated \subseteq DOMAIN rows
    /\ ToSet(inserted) = DOMAIN rows

\* Which pools a process has open: the one that self._pool of the lifespan's store names until
\* close() has closed it, and one for every demo that reached the database, for as long as the
\* process lives.  The first half is what the warm-up of the lifespan is for (_pool_or_create
\* checks, awaits and assigns: two first requests would create a pool each and close() would
\* close one); the second is a leak, which nothing in run_bootstrap_once or close() ends.
OnlyDemosLeavePools ==
    /\ openPools = demoPools \cup ({pool} \ {NoPool})
    /\ pool \notin demoPools
    /\ server = "closed" => openPools = demoPools

\* A decision is in all three tables or in none, whatever save fails or is repeated, and its
\* trace row is the trace of its payload unless update_decision replaced the payload.
TablesTogether ==
    /\ marketEvents = DOMAIN rows /\ DOMAIN decisionTraces = DOMAIN rows
    /\ \A d \in DOMAIN rows \ updated : decisionTraces[d] = rows[d].payload.trace
    /\ Cardinality(DOMAIN rows) = Len(inserted)

\* The backends are interchangeable as far as `since` means the same to both: what
\* filter_decisions lists (in-memory, SQLite) is a list the SQL of the Timescale store may
\* return, by its own time column, for every bound that names its zone (and for every bound if
\* the process runs on UTC).  For a bound without a zone the SQL lists what filter_decisions
\* would list for the bound that many hours earlier or later.
BackendsAgree ==
    DOMAIN rows # {} => \A q \in Queries :
        IF q.since.aware \/ LocalOffset = 0
        THEN MayList(FilterDecisions(q), q)
        ELSE MayList(FilteredFrom(q.since.wall - LocalOffset, q), q)
================================================================================
