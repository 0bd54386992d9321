------------------------- MODULE TimescaleStoreProofs -------------------------
(***************************************************************************)
(* For any number of callers, decisions, pools and lost connections: the   *)
(* pools the process has open are the one it will close and one per demo,  *)
(* and a decision is in all three tables or in none.                       *)
(***************************************************************************)
EXTENDS TimescaleStore, SequenceFacts, FiniteSetTheorems

Anyone == Caller \cup {Lifespan}
AwaitsOfCall == {"idle", "create", "ready", "read", "update", "save",
           "market_events", "decision_traces", "commit"}
CallRecord == [op : Ops, id : StoredId, payload : Payload, own : BOOLEAN, at : AwaitsOfCall,
               next : {"ready", "read", "update", "save"}, pool : Nat,
               wrote : SUBSET {"decisions", "market_events", "decision_traces"}]

\* What an open transaction has written when it is about to execute its next statement.
Written(at) == CASE at = "market_events" -> {"decisions"}
                 [] at = "decision_traces" -> {"decisions", "market_events"}
                 [] at = "commit" -> {"decisions", "market_events", "decision_traces"}
                 [] OTHER -> {}

CallsOK == storeCall \in [Anyone -> CallRecord]

At(c) == storeCall[c].at
AllIdle(S) == \A c \in S : At(c) = "idle"

\* No open transaction but that of c has inserted id.
Alone(c, id) == \A d \in Caller : storeCall[d].wrote # {} /\ storeCall[d].id = id => d = c

\* Of the users of the lifespan's store only the lifespan ever finds no pool, and while it is
\* at it nobody else is there: what the warm-up before the first request is for.
PoolInv ==
    /\ server \in {"down", "starting", "serving", "closing", "closed"} /\ poolsDrawn \in Nat
    /\ pool \in 0..poolsDrawn /\ demoPools \subseteq 1..poolsDrawn /\ pool \notin demoPools
    /\ openPools = demoPools \cup ({pool} \ {NoPool})
    /\ server # "starting" => At(Lifespan) = "idle"
    /\ server # "serving" => AllIdle(Caller)
    /\ server = "starting" => \/ At(Lifespan) = "create" /\ storeCall[Lifespan].next = "ready"
                                 /\ pool = NoPool
                              \/ At(Lifespan) = "ready" /\ pool # NoPool
    /\ server \in {"serving", "closing"} => pool # NoPool
    /\ server \in {"down", "closed"} => pool = NoPool
    /\ ~ storeCall[Lifespan].own
    /\ \A c \in Caller : At(c) = "create" => storeCall[c].own

\* A row that an open transaction has inserted is not in the table and in no other transaction.
TablesInv ==
    /\ \A c \in Caller : storeCall[c].wrote = Written(At(c))
    /\ \A c \in Caller : storeCall[c].wrote # {} => storeCall[c].id \notin DOMAIN rows
    /\ \A c, d \in Caller : storeCall[c].wrote # {} /\ storeCall[d].wrote # {}
                            /\ storeCall[c].id = storeCall[d].id => c = d
    /\ inserted \in Seq(StoredId) /\ IsInjective(inserted) /\ ToSet(inserted) = DOMAIN rows
    /\ updated \subseteq DOMAIN rows
    /\ \A d \in DOMAIN rows : rows[d] \in [payload : Payload, created_at : Moment]
    /\ marketEvents = DOMAIN rows /\ DOMAIN decisionTraces = DOMAIN rows
    /\ \A d \in DOMAIN rows \ updated : decisionTraces[d] = rows[d].payload.trace

IInv == CallsOK /\ PoolInv /\ TablesInv

--------------------------------------------------------------------------------

\* The call of a caller that does nothing is one, and PoolOrCreate makes one.
LEMMA NoCallFacts ==
    NoCall \in CallRecord /\ NoCall.at = "idle" /\ NoCall.wrote = {} /\ NoCall.next = "ready"
    /\ ~ NoCall.own /\ NoCall.pool = NoPool
<1>1. AnyId \in StoredId /\ AnyPayload \in Payload
  BY StoredAssumption DEF AnyId, AnyPayload
<1> QED BY <1>1 DEF NoCall, CallRecord, AwaitsOfCall, Ops, NoPool

LEMMA PoolOrCreateFacts ==
    ASSUME NEW k \in CallRecord, NEW next \in {"ready", "read", "update", "save"}, pool \in Nat
    PROVE  /\ PoolOrCreate(k, next) \in CallRecord
           /\ PoolOrCreate(k, next).wrote = k.wrote /\ PoolOrCreate(k, next).id = k.id
           /\ (PoolOrCreate(k, next).own <=> k.own) /\ PoolOrCreate(k, next).at \in {next, "create"}
           /\ ~ k.own /\ pool = NoPool => /\ PoolOrCreate(k, next).at = "create"
                                          /\ PoolOrCreate(k, next).next = next
BY DEF PoolOrCreate, CallRecord, AwaitsOfCall, NoPool

\* The store of the call has its pool: the call goes on.
LEMMA PoolFound ==
    ASSUME NEW k \in CallRecord, NEW next \in {"ready", "read", "update", "save"},
           pool # NoPool, k.pool # NoPool
    PROVE  PoolOrCreate(k, next).at = next
BY DEF PoolOrCreate, CallRecord

\* The store that still has to create its pool is one of the call's own.
LEMMA PoolMissing ==
    ASSUME NEW k \in CallRecord, NEW next \in {"ready", "read", "update", "save"}, pool # NoPool
    PROVE  PoolOrCreate(k, next).at = "create" => PoolOrCreate(k, next).own
BY DEF PoolOrCreate, CallRecord

\* A step that writes the call of c leaves the others alone.
LEMMA OneCall ==
    ASSUME CallsOK, NEW c \in Anyone, NEW k \in CallRecord,
           storeCall' = [storeCall EXCEPT ![c] = k]
    PROVE  /\ CallsOK' /\ storeCall'[c] = k
           /\ \A d \in Anyone : d # c => storeCall'[d] = storeCall[d]
BY DEF CallsOK

\* What a caller does once it has the pool does not disturb the pool.
LEMMA PoolKept ==
    ASSUME CallsOK, PoolInv, NEW c \in Caller, NEW k \in CallRecord,
           server = "serving", k.at = "create" => k.own, UNCHANGED storePools,
           storeCall' = [storeCall EXCEPT ![c] = k]
    PROVE  PoolInv'
<1>1. c \in Anyone /\ c # Lifespan /\ Lifespan \in Anyone /\ Caller \subseteq Anyone
  BY CallerAssumption DEF Anyone
<1>2. storeCall'[c] = k /\ \A d \in Anyone : d # c => storeCall'[d] = storeCall[d]
  BY <1>1, OneCall
<1> QED BY <1>1, <1>2 DEF PoolInv, AllIdle, At, storePools

\* A call that has written nothing and changes no table does not disturb the tables.
LEMMA TablesKept ==
    ASSUME CallsOK, TablesInv, NEW c \in Anyone, NEW k \in CallRecord,
           k.wrote = {}, Written(k.at) = {}, UNCHANGED storeTables,
           storeCall' = [storeCall EXCEPT ![c] = k]
    PROVE  TablesInv'
<1>1. Caller \subseteq Anyone
  BY DEF Anyone
<1>2. storeCall'[c] = k /\ \A d \in Anyone : d # c => storeCall'[d] = storeCall[d]
  BY OneCall
<1>3. UNCHANGED <<rows, marketEvents, decisionTraces, inserted, updated>>
  BY DEF storeTables
<1>4. \A d \in Caller : storeCall'[d].wrote # {} => storeCall'[d] = storeCall[d]
  BY <1>1, <1>2
<1>5. \A d \in Caller : storeCall'[d].wrote = Written(storeCall'[d].at)
  BY <1>1, <1>2 DEF TablesInv, At
<1>6. \A d \in Caller : storeCall'[d].wrote # {} => storeCall'[d].id \notin DOMAIN rows
  BY <1>4 DEF TablesInv
<1>7. \A d, e \in Caller : storeCall'[d].wrote # {} /\ storeCall'[e].wrote # {}
                           /\ storeCall'[d].id = storeCall'[e].id => d = e
  BY <1>4 DEF TablesInv
<1> QED BY <1>3, <1>5, <1>6, <1>7 DEF TablesInv, At, Moment

\* A caller that is at something is at it while the server serves.
LEMMA BusyMeansServing ==
    ASSUME PoolInv, NEW c \in Caller, At(c) # "idle"
    PROVE  /\ server = "serving" /\ pool # NoPool
           /\ At(c) = "create" => storeCall[c].own
BY DEF PoolInv, AllIdle

--------------------------------------------------------------------------------
(* The initial state and the steps                                             *)

LEMMA InitIInv == StoreInit => IInv
<1> SUFFICES ASSUME StoreInit PROVE IInv
  OBVIOUS
<1>1. CallsOK /\ \A c \in Anyone : storeCall[c] = NoCall
  BY NoCallFacts DEF StoreInit, CallsOK, Anyone
<1>2. PoolInv
  BY <1>1, NoCallFacts DEF StoreInit, PoolInv, At, AllIdle, Anyone, NoPool
<1>3. inserted = <<>> /\ inserted \in Seq(StoredId) /\ DOMAIN inserted = {}
      /\ rows = <<>> /\ DOMAIN rows = {} /\ decisionTraces = <<>> /\ DOMAIN decisionTraces = {}
      /\ marketEvents = {} /\ updated = {}
  BY DEF StoreInit
<1>4. ToSet(inserted) = {} /\ IsInjective(inserted)
  BY <1>3 DEF ToSet, IsInjective
<1>5. \A c \in Caller : storeCall[c].wrote = {} /\ Written(At(c)) = {}
  BY <1>1, NoCallFacts DEF Written, At, Anyone
<1>6. TablesInv
  BY <1>3, <1>4, <1>5 DEF TablesInv
<1> QED BY <1>1, <1>2, <1>6 DEF IInv

\* The pool that is created is the lifespan's, which had none, or the one of a demo's store.
LEMMA CreatedStep ==
    ASSUME IInv, NEW c \in Anyone, Created(c)
    PROVE  IInv'
<1> DEFINE k == [storeCall[c] EXCEPT !.at = storeCall[c].next, !.pool = poolsDrawn']
<1>1. storeCall[c] \in CallRecord /\ CallsOK /\ PoolInv /\ TablesInv /\ Caller \subseteq Anyone
  BY DEF IInv, CallsOK, Anyone
<1>2. poolsDrawn' \in Nat /\ poolsDrawn' = poolsDrawn + 1 /\ poolsDrawn \in Nat
  BY <1>1 DEF Created, PoolInv
<1>3. k \in CallRecord /\ k.at = storeCall[c].next /\ k.wrote = storeCall[c].wrote
      /\ k.own = storeCall[c].own /\ Written(k.at) = {} /\ k.at # "create"
  BY <1>1, <1>2 DEF CallRecord, AwaitsOfCall, Written
<1>4. storeCall' = [storeCall EXCEPT ![c] = k]
  BY <1>1 DEF Created, CallsOK, CallRecord
<1>5. UNCHANGED storeTables /\ server' = server /\ openPools' = openPools \cup {poolsDrawn'}
      /\ At(c) = "create"
  BY DEF Created, At
<1> HIDE DEF k
<1>6. CallsOK' /\ storeCall'[c] = k /\ \A d \in Anyone : d # c => storeCall'[d] = storeCall[d]
  BY <1>1, <1>3, <1>4, OneCall
<1>7. CASE c = Lifespan
  <2>1. server = "starting" /\ storeCall[c].next = "ready" /\ ~ storeCall[c].own /\ pool = NoPool
    BY <1>1, <1>5, <1>7 DEF PoolInv, At
  <2>2. pool' = poolsDrawn' /\ demoPools' = demoPools
    BY <2>1 DEF Created
  <2>3. \A d \in Caller : storeCall'[d] = storeCall[d]
    BY <1>6, <1>7, CallerAssumption DEF Anyone
  <2>4. AllIdle(Caller) /\ AllIdle(Caller)' /\ \A d \in Caller : At(d)' # "create"
    BY <1>1, <2>1, <2>3 DEF PoolInv, AllIdle, At
  <2>5. /\ pool' \in 0..poolsDrawn' /\ demoPools' \subseteq 1..poolsDrawn' /\ pool' \notin demoPools'
        /\ openPools' = demoPools' \cup ({pool'} \ {NoPool}) /\ pool' # NoPool
    <3>1. openPools = demoPools /\ demoPools \subseteq 1..poolsDrawn
      BY <1>1, <2>1 DEF PoolInv
    <3>2. poolsDrawn' \notin demoPools /\ 1..poolsDrawn \subseteq 1..poolsDrawn' /\ poolsDrawn' # 0
      BY <1>2, <3>1
    <3> QED BY <1>2, <1>5, <2>2, <3>1, <3>2 DEF NoPool
  <2>6. PoolInv'
    BY <1>2, <1>3, <1>5, <1>6, <1>7, <2>1, <2>4, <2>5 DEF PoolInv, At
  <2>7. TablesInv'
    BY <1>1, <1>5, <2>3 DEF storeTables, TablesInv, At, Moment
  <2> QED BY <1>6, <2>6, <2>7 DEF IInv
<1>8. CASE c \in Caller
  <2>1. server = "serving" /\ storeCall[c].own
    BY <1>1, <1>5, <1>8, BusyMeansServing
  <2>2. pool' = pool /\ demoPools' = demoPools \cup {poolsDrawn'}
    BY <2>1 DEF Created
  <2>3. storeCall'[Lifespan] = storeCall[Lifespan]
    BY <1>6, <1>8, CallerAssumption DEF Anyone
  <2>4. /\ pool' \in 0..poolsDrawn' /\ demoPools' \subseteq 1..poolsDrawn' /\ pool' \notin demoPools'
        /\ openPools' = demoPools' \cup ({pool'} \ {NoPool}) /\ pool' # NoPool
    <3>1. openPools = demoPools \cup {pool} /\ pool \in 0..poolsDrawn /\ pool # NoPool
          /\ demoPools \subseteq 1..poolsDrawn /\ pool \notin demoPools
      BY <1>1, <2>1 DEF PoolInv
    <3>2. pool # poolsDrawn' /\ pool \in 0..poolsDrawn'
          /\ demoPools \cup {poolsDrawn'} \subseteq 1..poolsDrawn'
      BY <1>2, <3>1
    <3>3. openPools' = demoPools' \cup {pool} /\ pool \notin demoPools'
      BY <1>5, <2>2, <3>1, <3>2
    <3> QED BY <2>2, <3>1, <3>2, <3>3
  <2>5. \A d \in Caller : At(d)' = "create" => storeCall'[d].own
    BY <1>1, <1>3, <1>6 DEF PoolInv, At
  <2>6. PoolInv'
    BY <1>1, <1>2, <1>5, <2>1, <2>3, <2>4, <2>5 DEF PoolInv, At
  <2>7. k.wrote = {}
    BY <1>1, <1>3, <1>5, <1>8 DEF TablesInv, Written
  <2>8. TablesInv'
    BY <1>1, <1>3, <1>4, <1>5, <2>7, TablesKept
  <2> QED BY <1>6, <2>6, <2>8 DEF IInv
<1> QED BY <1>7, <1>8 DEF Anyone

\* The steps that write no call and no table.
LEMMA ServerStep ==
    ASSUME IInv, CloseStarts \/ CloseReturns
    PROVE  IInv'
<1>1. storeCall' = storeCall /\ UNCHANGED storeTables /\ poolsDrawn' = poolsDrawn
  BY DEF CloseStarts, CloseReturns
<1>2. CallsOK'
  BY <1>1 DEF IInv, CallsOK
<1>3. TablesInv'
  BY <1>1 DEF IInv, TablesInv, At, storeTables, Moment
<1>4. CASE CloseStarts
  BY <1>1, <1>2, <1>3, <1>4 DEF CloseStarts, IInv, PoolInv, At, AllIdle
<1>5. CASE CloseReturns
  BY <1>1, <1>2, <1>3, <1>5 DEF CloseReturns, IInv, PoolInv, At, AllIdle, NoPool
<1> QED BY <1>4, <1>5

LEMMA StartStoreStep ==
    ASSUME IInv, StartStore
    PROVE  IInv'
<1> DEFINE k == PoolOrCreate(storeCall[Lifespan], "ready")
<1>1. CallsOK /\ PoolInv /\ TablesInv /\ Lifespan \in Anyone /\ storeCall[Lifespan] \in CallRecord
  BY DEF IInv, CallsOK, Anyone
<1>2. server = "down" /\ pool = NoPool /\ pool \in Nat /\ ~ storeCall[Lifespan].own
  BY <1>1 DEF StartStore, PoolInv
<1>3. k \in CallRecord /\ k.at = "create" /\ k.next = "ready" /\ ~ k.own
  <2>1. "ready" \in {"ready", "read", "update", "save"}
    OBVIOUS
  <2> QED BY ONLY <1>1, <1>2, <2>1, PoolOrCreateFacts
<1>4. storeCall' = [storeCall EXCEPT ![Lifespan] = k]
  BY DEF StartStore
<1> HIDE DEF k
<1>5. /\ CallsOK' /\ storeCall'[Lifespan] = k
      /\ \A d \in Anyone : d # Lifespan => storeCall'[d] = storeCall[d]
  BY <1>1, <1>3, <1>4, OneCall
<1>6. \A d \in Caller : storeCall'[d] = storeCall[d]
  BY <1>5, CallerAssumption DEF Anyone
<1>7. PoolInv'
  BY <1>1, <1>2, <1>3, <1>5, <1>6 DEF StartStore, PoolInv, At, AllIdle
<1>8. TablesInv'
  BY <1>1, <1>6 DEF StartStore, storeTables, TablesInv, At, Moment
<1> QED BY <1>5, <1>7, <1>8 DEF IInv

LEMMA ProcessEndsStep ==
    ASSUME IInv, ProcessEnds
    PROVE  IInv'
<1>1. CallsOK /\ PoolInv /\ TablesInv
  BY DEF IInv
<1>2. CallsOK' /\ \A c \in Anyone : storeCall'[c] = NoCall
  BY <1>1, NoCallFacts DEF ProcessEnds, CallsOK
<1>3. PoolInv'
  BY <1>1, <1>2, NoCallFacts DEF ProcessEnds, PoolInv, At, AllIdle, Anyone, NoPool
<1>4. \A c \in Caller : storeCall'[c].wrote = {} /\ Written(storeCall'[c].at) = {}
  BY <1>2, NoCallFacts DEF Written, Anyone
<1>5. TablesInv'
  BY <1>1, <1>4 DEF ProcessEnds, storeTables, TablesInv, At, Moment
<1> QED BY <1>2, <1>3, <1>5 DEF IInv

\* The lifespan that has made the tables ready serves; a caller goes on to its operation.
LEMMA EnsureReadyStep ==
    ASSUME IInv, NEW c \in Anyone, EnsureReady(c)
    PROVE  IInv'
<1>1. CallsOK /\ PoolInv /\ TablesInv /\ storeCall[c] \in CallRecord /\ Caller \subseteq Anyone
  BY DEF IInv, CallsOK, Anyone
<1>2. CASE c = Lifespan
  <2>1. server = "starting" /\ server' = "serving" /\ pool # NoPool
    BY <1>1, <1>2 DEF EnsureReady, PoolInv, At
  <2>2. storeCall' = [storeCall EXCEPT ![c] = NoCall]
    BY <1>2 DEF EnsureReady
  <2>3. /\ CallsOK' /\ storeCall'[Lifespan] = NoCall
        /\ \A d \in Anyone : d # Lifespan => storeCall'[d] = storeCall[d]
    BY <1>1, <1>2, <2>2, NoCallFacts, OneCall
  <2>4. \A d \in Caller : storeCall'[d] = storeCall[d]
    BY <1>1, <2>3, CallerAssumption
  <2>5. PoolInv'
    BY <1>1, <2>1, <2>3, <2>4, NoCallFacts DEF EnsureReady, PoolInv, At, AllIdle
  <2>6. TablesInv'
    BY <1>1, <2>4 DEF EnsureReady, storeTables, TablesInv, At, Moment
  <2> QED BY <2>3, <2>5, <2>6 DEF IInv
<1>3. CASE c # Lifespan
  <2> DEFINE k == PoolOrCreate(storeCall[c], storeCall[c].op)
  <2>1. c \in Caller /\ At(c) = "ready" /\ pool \in Nat
    BY <1>1, <1>3 DEF Anyone, EnsureReady, At, PoolInv
  <2>2. server = "serving" /\ pool # NoPool
    BY <1>1, <2>1, BusyMeansServing
  <2>3. storeCall[c].op \in Ops /\ storeCall[c].wrote = {} /\ storeCall[c].pool # NoPool
    BY <1>1, <2>1 DEF CallRecord, TablesInv, Written, At, EnsureReady, PoolInv, NoPool
  <2>4. k \in CallRecord /\ k.at = storeCall[c].op /\ k.wrote = {}
    <3>1. storeCall[c].op \in {"ready", "read", "update", "save"}
      BY <2>3 DEF Ops
    <3>2. k \in CallRecord /\ k.wrote = storeCall[c].wrote
      BY ONLY <1>1, <2>1, <3>1, PoolOrCreateFacts
    <3>3. k.at = storeCall[c].op
      BY ONLY <1>1, <2>2, <2>3, <3>1, PoolFound
    <3> QED BY <2>3, <3>2, <3>3
  <2>5. k.at # "create" /\ Written(k.at) = {}
    BY <2>3, <2>4 DEF Ops, Written
  <2>6. storeCall' = [storeCall EXCEPT ![c] = k] /\ UNCHANGED storePools /\ UNCHANGED storeTables
    BY <1>3 DEF EnsureReady, storePools
  <2> HIDE DEF k
  <2> QED BY <1>1, <2>1, <2>2, <2>4, <2>5, <2>6, OneCall, PoolKept, TablesKept DEF IInv
<1> QED BY <1>2, <1>3

\* The calls that begin, return and fail without having changed a table.
LEMMA InvokeStep ==
    ASSUME IInv, NEW c \in Caller, Invoke(c)
    PROVE  IInv'
<1>1. CallsOK /\ PoolInv /\ TablesInv /\ c \in Anyone
  BY DEF IInv, Anyone
<1>2. server = "serving" /\ pool # NoPool /\ pool \in Nat
  BY <1>1 DEF Invoke, PoolInv
<1>3. PICK op \in Ops, d \in StoredId, p \in Payload, own \in BOOLEAN :
        storeCall' = [storeCall EXCEPT ![c] = PoolOrCreate(Asked(op, d, p, own), "ready")]
  BY DEF Invoke
<1> DEFINE call == Asked(op, d, p, own)
<1>4. call \in CallRecord /\ call.wrote = {}
  BY NoCallFacts DEF Asked, CallRecord
<1> HIDE DEF call
<1> DEFINE k == PoolOrCreate(call, "ready")
<1>5. k \in CallRecord /\ k.at \in {"ready", "create"} /\ k.wrote = {} /\ (k.at = "create" => k.own)
  <2>1. "ready" \in {"ready", "read", "update", "save"}
    OBVIOUS
  <2>2. k \in CallRecord /\ k.at \in {"ready", "create"} /\ k.wrote = {}
    BY ONLY <1>2, <1>4, <2>1, PoolOrCreateFacts
  <2>3. k.at = "create" => k.own
    BY ONLY <1>2, <1>4, <2>1, PoolMissing
  <2> QED BY <2>2, <2>3
<1>6. Written(k.at) = {}
  BY <1>5 DEF Written
<1>7. UNCHANGED storePools /\ UNCHANGED storeTables
  BY DEF Invoke
<1> HIDE DEF k
<1>8. storeCall' = [storeCall EXCEPT ![c] = k]
  BY <1>3 DEF k, call
<1> QED BY <1>1, <1>2, <1>5, <1>6, <1>7, <1>8, OneCall, PoolKept, TablesKept DEF IInv

LEMMA ReturnStep ==
    ASSUME IInv, NEW c \in Caller, At(c) # "idle", Return(c),
           UNCHANGED storePools, UNCHANGED storeTables
    PROVE  IInv'
<1>1. CallsOK /\ PoolInv /\ TablesInv /\ c \in Anyone
  BY DEF IInv, Anyone
<1>2. server = "serving"
  BY <1>1, BusyMeansServing
<1>3. Written(NoCall.at) = {} /\ NoCall.at # "create"
  BY NoCallFacts DEF Written
<1>4. storeCall' = [storeCall EXCEPT ![c] = NoCall]
  BY DEF Return
<1> QED BY <1>1, <1>2, <1>3, <1>4, NoCallFacts, OneCall, PoolKept, TablesKept DEF IInv

LEMMA StatementRaisesStep ==
    ASSUME IInv, NEW c \in Anyone, StatementRaises(c)
    PROVE  IInv'
<1>1. CallsOK /\ PoolInv /\ TablesInv /\ At(c) # "idle"
  BY DEF IInv, StatementRaises, At
<1>2. CASE c = Lifespan
  <2>1. server = "starting" /\ AllIdle(Caller)
    BY <1>1, <1>2 DEF PoolInv
  <2>2. storeCall' = [storeCall EXCEPT ![c] = NoCall]
    BY DEF StatementRaises, Return
  <2>3. /\ CallsOK' /\ storeCall'[Lifespan] = NoCall
        /\ \A d \in Anyone : d # Lifespan => storeCall'[d] = storeCall[d]
    BY <1>1, <1>2, <2>2, NoCallFacts, OneCall
  <2>4. \A d \in Caller : storeCall'[d] = storeCall[d]
    BY <2>3, CallerAssumption DEF Anyone
  <2>5. PoolInv'
    BY <1>1, <1>2, <2>1, <2>3, <2>4, NoCallFacts DEF StatementRaises, PoolInv, At, AllIdle, NoPool
  <2>6. TablesInv'
    BY <1>1, <2>4 DEF StatementRaises, storeTables, TablesInv, At, Moment
  <2> QED BY <2>3, <2>5, <2>6 DEF IInv
<1>3. CASE c # Lifespan
  BY <1>1, <1>3, ReturnStep DEF Anyone, StatementRaises, storePools
<1> QED BY <1>2, <1>3

--------------------------------------------------------------------------------
(* The transaction of save_decision and the update                             *)

\* A statement of a transaction on a row that nobody else has inserted.
LEMMA AdvanceStep ==
    ASSUME IInv, NEW c \in Caller, At(c) # "idle", NEW k \in CallRecord,
           k.id = storeCall[c].id, k.wrote = Written(k.at), k.at # "create",
           k.id \notin DOMAIN rows,
           Alone(c, k.id),
           storeCall' = [storeCall EXCEPT ![c] = k],
           UNCHANGED storePools, UNCHANGED storeTables
    PROVE  IInv'
<1>1. CallsOK /\ PoolInv /\ TablesInv /\ Caller \subseteq Anyone /\ server = "serving"
  BY BusyMeansServing DEF IInv, Anyone
<1>2. CallsOK' /\ storeCall'[c] = k /\ \A d \in Anyone : d # c => storeCall'[d] = storeCall[d]
  BY <1>1, OneCall
<1>3. PoolInv'
  BY <1>1, PoolKept
<1>4. \A d \in Caller : storeCall'[d].wrote = Written(storeCall'[d].at)
  BY <1>1, <1>2 DEF TablesInv, At
<1>5. \A d \in Caller : storeCall'[d].wrote # {} => storeCall'[d].id \notin DOMAIN rows
  BY <1>1, <1>2 DEF TablesInv
<1>6. \A d, e \in Caller : storeCall'[d].wrote # {} /\ storeCall'[e].wrote # {}
                           /\ storeCall'[d].id = storeCall'[e].id => d = e
  BY <1>1, <1>2 DEF TablesInv, Alone
<1>7. TablesInv'
  BY <1>1, <1>4, <1>5, <1>6 DEF TablesInv, storeTables, At, Moment
<1> QED BY <1>2, <1>3, <1>7 DEF IInv

LEMMA InsertDecisionStep ==
    ASSUME IInv, NEW c \in Caller, InsertDecision(c)
    PROVE  IInv'
<1>1. At(c) = "save" /\ UNCHANGED storePools /\ UNCHANGED storeTables
      /\ storeCall[c] \in CallRecord /\ CallsOK /\ c \in Anyone
  BY DEF InsertDecision, At, IInv, CallsOK, Anyone
<1>2. CASE storeCall[c].id \in DOMAIN rows
  BY <1>1, <1>2, ReturnStep DEF InsertDecision
<1>3. CASE storeCall[c].id \notin DOMAIN rows
  <2> DEFINE k == [storeCall[c] EXCEPT !.at = "market_events", !.wrote = {"decisions"}]
  <2>1. k \in CallRecord /\ k.id = storeCall[c].id /\ k.at = "market_events"
        /\ k.wrote = {"decisions"}
    BY <1>1 DEF CallRecord, AwaitsOfCall
  <2>2. storeCall' = [storeCall EXCEPT ![c] = k]
    BY <1>1, <1>3 DEF InsertDecision, CallsOK
  <2>3. Alone(c, k.id) /\ k.id \notin DOMAIN rows /\ k.at # "create" /\ At(c) # "idle"
    BY <1>1, <1>3, <2>1 DEF InsertDecision, Alone
  <2>4. k.wrote = Written(k.at)
    BY <2>1 DEF Written
  <2> HIDE DEF k
  <2> QED BY <1>1, <2>1, <2>2, <2>3, <2>4, AdvanceStep
<1> QED BY <1>2, <1>3

LEMMA InsertMarketEventStep ==
    ASSUME IInv, NEW c \in Caller, InsertMarketEvent(c)
    PROVE  IInv'
<1> DEFINE k == [storeCall[c] EXCEPT !.at = "decision_traces", !.wrote = @ \cup {"market_events"}]
<1>1. At(c) = "market_events" /\ UNCHANGED storePools /\ UNCHANGED storeTables
      /\ storeCall[c] \in CallRecord /\ CallsOK /\ c \in Anyone
  BY DEF InsertMarketEvent, At, IInv, CallsOK, Anyone
<1>2. storeCall[c].wrote = {"decisions"}
  BY <1>1 DEF IInv, TablesInv, Written
<1>3. storeCall[c].id \notin DOMAIN rows /\ Alone(c, storeCall[c].id)
  BY <1>2 DEF IInv, TablesInv, Alone
<1>4. k \in CallRecord /\ k.id = storeCall[c].id /\ k.at = "decision_traces"
      /\ k.wrote = {"decisions", "market_events"}
  BY <1>1, <1>2 DEF CallRecord, AwaitsOfCall
<1>5. storeCall' = [storeCall EXCEPT ![c] = k]
  BY <1>1 DEF InsertMarketEvent, CallsOK
<1>6. k.wrote = Written(k.at)
  BY <1>4 DEF Written
<1>7. Alone(c, k.id) /\ k.id \notin DOMAIN rows /\ k.at # "create" /\ At(c) # "idle"
  BY <1>1, <1>3, <1>4
<1> HIDE DEF k
<1> QED BY <1>1, <1>4, <1>5, <1>6, <1>7, AdvanceStep

LEMMA InsertTraceStep ==
    ASSUME IInv, NEW c \in Caller, InsertTrace(c)
    PROVE  IInv'
<1> DEFINE k == [storeCall[c] EXCEPT !.at = "commit", !.wrote = @ \cup {"decision_traces"}]
<1>1. At(c) = "decision_traces" /\ UNCHANGED storePools /\ UNCHANGED storeTables
      /\ storeCall[c] \in CallRecord /\ CallsOK /\ c \in Anyone
  BY DEF InsertTrace, At, IInv, CallsOK, Anyone
<1>2. storeCall[c].wrote = {"decisions", "market_events"}
  BY <1>1 DEF IInv, TablesInv, Written
<1>3. storeCall[c].id \notin DOMAIN rows /\ Alone(c, storeCall[c].id)
  BY <1>2 DEF IInv, TablesInv, Alone
<1>4. k \in CallRecord /\ k.id = storeCall[c].id /\ k.at = "commit"
      /\ k.wrote = {"decisions", "market_events", "decision_traces"}
  BY <1>1, <1>2 DEF CallRecord, AwaitsOfCall
<1>5. storeCall' = [storeCall EXCEPT ![c] = k]
  BY <1>1 DEF InsertTrace, CallsOK
<1>6. k.wrote = Written(k.at)
  BY <1>4 DEF Written
<1>7. Alone(c, k.id) /\ k.id \notin DOMAIN rows /\ k.at # "create" /\ At(c) # "idle"
  BY <1>1, <1>3, <1>4
<1> HIDE DEF k
<1> QED BY <1>1, <1>4, <1>5, <1>6, <1>7, AdvanceStep

\* The commit adds the row to the three tables at once; whoever else is in a transaction is in
\* one for another row.
LEMMA CommitStep ==
    ASSUME IInv, NEW c \in Caller, Commit(c)
    PROVE  IInv'
<1> DEFINE p == storeCall[c].payload
           id == storeCall[c].id
           row == [payload |-> p, created_at |-> p.ts]
<1>1. CallsOK /\ PoolInv /\ TablesInv /\ c \in Anyone /\ Caller \subseteq Anyone
      /\ storeCall[c] \in CallRecord /\ At(c) = "commit"
  BY DEF IInv, CallsOK, Anyone, Commit, At
<1>2. storeCall[c].wrote = {"decisions", "market_events", "decision_traces"}
  BY <1>1 DEF TablesInv, Written
<1>3. server = "serving"
  BY <1>1, BusyMeansServing
<1>4. id \notin DOMAIN rows /\ id \in StoredId /\ p \in Payload /\ p.ts \in Moment
  BY <1>1, <1>2 DEF TablesInv, CallRecord, Moment
<1>5. id \notin DOMAIN decisionTraces /\ marketEvents = DOMAIN rows
      /\ DOMAIN decisionTraces = DOMAIN rows
  BY <1>1, <1>4 DEF TablesInv
<1>6. /\ rows' = With(rows, id, row) /\ marketEvents' = marketEvents \cup {id}
      /\ decisionTraces' = With(decisionTraces, id, p.trace)
      /\ inserted' = Append(inserted, id) /\ updated' = updated
      /\ UNCHANGED storePools
      /\ storeCall' = [storeCall EXCEPT ![c] = NoCall]
  BY <1>2, <1>5 DEF Commit, Return
<1>7. CallsOK' /\ storeCall'[c] = NoCall /\ \A d \in Anyone : d # c => storeCall'[d] = storeCall[d]
  BY <1>1, <1>6, NoCallFacts, OneCall
<1>8. PoolInv'
  BY <1>1, <1>3, <1>6, NoCallFacts, PoolKept
<1>9. TablesInv'
  <2> HIDE DEF p, id, row
  <2>1. DOMAIN rows' = DOMAIN rows \cup {id} /\ DOMAIN decisionTraces' = DOMAIN rows \cup {id}
        /\ rows'[id] = row /\ decisionTraces'[id] = p.trace
        /\ \A d \in DOMAIN rows : rows'[d] = rows[d] /\ decisionTraces'[d] = decisionTraces[d]
    BY <1>4, <1>5, <1>6 DEF With
  <2>2. /\ inserted' \in Seq(StoredId) /\ IsInjective(inserted')
        /\ ToSet(inserted') = DOMAIN rows \cup {id}
    BY <1>1, <1>4, <1>6, AppendFacts DEF TablesInv
  <2>3. \A d \in Caller : storeCall'[d].wrote # {} =>
           d # c /\ storeCall'[d] = storeCall[d] /\ storeCall[d].id # id
    <3>1. ASSUME NEW d \in Caller, storeCall'[d].wrote # {}
          PROVE  d # c /\ storeCall'[d] = storeCall[d]
      BY <1>1, <1>7, <3>1, NoCallFacts
    <3>2. ASSUME NEW d \in Caller, d # c, storeCall[d].wrote # {}
          PROVE  storeCall[d].id # id
      BY <1>1, <1>2, <3>2 DEF TablesInv, id
    <3> QED BY <3>1, <3>2
  <2>4. \A d \in Caller : storeCall'[d].wrote = Written(storeCall'[d].at)
    <3>1. NoCall.wrote = Written(NoCall.at)
      BY NoCallFacts DEF Written
    <3> QED BY <1>1, <1>7, <3>1 DEF TablesInv, At
  <2>5. \A d \in Caller : storeCall'[d].wrote # {} => storeCall'[d].id \notin DOMAIN rows'
    BY <1>1, <2>1, <2>3 DEF TablesInv
  <2>6. \A d, e \in Caller : storeCall'[d].wrote # {} /\ storeCall'[e].wrote # {}
                             /\ storeCall'[d].id = storeCall'[e].id => d = e
    BY <1>1, <2>3 DEF TablesInv
  <2>7. \A d \in DOMAIN rows' : rows'[d] \in [payload : Payload, created_at : Moment]
    BY <1>1, <1>4, <2>1 DEF TablesInv, row
  <2>8. \A d \in DOMAIN rows' \ updated' : decisionTraces'[d] = rows'[d].payload.trace
    BY <1>1, <1>6, <2>1 DEF TablesInv, row
  <2>9. updated' \subseteq DOMAIN rows' /\ marketEvents' = DOMAIN rows'
        /\ DOMAIN decisionTraces' = DOMAIN rows' /\ ToSet(inserted') = DOMAIN rows'
    BY <1>1, <1>5, <1>6, <2>1, <2>2 DEF TablesInv
  <2> QED BY <2>2, <2>4, <2>5, <2>6, <2>7, <2>8, <2>9 DEF TablesInv, At, Moment
<1> QED BY <1>7, <1>8, <1>9 DEF IInv

LEMMA UpdateStep ==
    ASSUME IInv, NEW c \in Caller, Update(c)
    PROVE  IInv'
<1> DEFINE p == storeCall[c].payload
           id == storeCall[c].id
<1>1. CallsOK /\ PoolInv /\ TablesInv /\ c \in Anyone /\ Caller \subseteq Anyone
      /\ storeCall[c] \in CallRecord /\ At(c) = "update"
      /\ UNCHANGED <<storePools, marketEvents, decisionTraces, inserted>>
      /\ storeCall' = [storeCall EXCEPT ![c] = NoCall]
  BY DEF IInv, CallsOK, Anyone, Update, Return, At
<1>2. CASE id \notin DOMAIN rows
  <2>1. UNCHANGED storeTables
    BY <1>1, <1>2 DEF Update, storeTables
  <2> QED BY <1>1, <2>1, ReturnStep DEF Return
<1>3. CASE id \in DOMAIN rows
  <2>1. /\ rows' = [rows EXCEPT ![id] = [payload |-> p, created_at |-> p.ts]]
        /\ updated' = updated \cup {id}
    BY <1>3 DEF Update
  <2>2. p \in Payload /\ p.ts \in Moment
    BY <1>1 DEF CallRecord, Moment
  <2>3. DOMAIN rows' = DOMAIN rows /\ \A d \in DOMAIN rows : d # id => rows'[d] = rows[d]
    BY <2>1
  <2>4. rows'[id] \in [payload : Payload, created_at : Moment]
    BY <1>3, <2>1, <2>2
  <2>5. CallsOK' /\ storeCall'[c] = NoCall
        /\ \A d \in Anyone : d # c => storeCall'[d] = storeCall[d]
    BY <1>1, NoCallFacts, OneCall
  <2>6. PoolInv'
    BY <1>1, BusyMeansServing, NoCallFacts, PoolKept
  <2>7. \A d \in Caller : storeCall'[d].wrote # {} => storeCall'[d] = storeCall[d]
    BY <1>1, <2>5, NoCallFacts
  <2>8. \A d \in Caller : storeCall'[d].wrote = Written(storeCall'[d].at)
    <3>1. NoCall.wrote = Written(NoCall.at)
      BY NoCallFacts DEF Written
    <3> QED BY <1>1, <2>5, <3>1 DEF TablesInv, At
  <2>9. \A d, e \in Caller : storeCall'[d].wrote # {} /\ storeCall'[e].wrote # {}
                             /\ storeCall'[d].id = storeCall'[e].id => d = e
    BY <1>1, <2>7 DEF TablesInv
  <2>10. \A d \in Caller : storeCall'[d].wrote # {} => storeCall'[d].id \notin DOMAIN rows'
    BY <1>1, <2>3, <2>7 DEF TablesInv
  <2>11. \A d \in DOMAIN rows' : rows'[d] \in [payload : Payload, created_at : Moment]
    BY <1>1, <2>3, <2>4 DEF TablesInv
  <2>12. \A d \in DOMAIN rows' \ updated' : decisionTraces'[d] = rows'[d].payload.trace
    BY <1>1, <2>1, <2>3 DEF TablesInv
  <2>13. updated' \subseteq DOMAIN rows'
    BY <1>1, <1>3, <2>1, <2>3 DEF TablesInv
  <2>14. TablesInv'
    BY <1>1, <2>3, <2>8, <2>9, <2>10, <2>11, <2>12, <2>13 DEF TablesInv, At, Moment
  <2> QED BY <2>5, <2>6, <2>14 DEF IInv
<1> QED BY <1>2, <1>3
--------------------------------------------------------------------------------
(* The theorems                                                                *)

LEMMA NextIInv == IInv /\ [StoreNext]_storeVars => IInv'
<1> SUFFICES ASSUME IInv, [StoreNext]_storeVars PROVE IInv'
  OBVIOUS
<1>1. CASE UNCHANGED storeVars
  BY <1>1 DEF storeVars, storePools, storeTables, IInv, CallsOK, PoolInv, TablesInv, At,
              AllIdle, Moment
<1>2. CASE StartStore
  BY <1>2, StartStoreStep
<1>3. CASE CloseStarts \/ CloseReturns
  BY <1>3, ServerStep
<1>4. CASE ProcessEnds
  BY <1>4, ProcessEndsStep
<1>5. ASSUME NEW c \in Anyone, Created(c) \/ EnsureReady(c) \/ StatementRaises(c)
      PROVE  IInv'
  BY <1>5, CreatedStep, EnsureReadyStep, StatementRaisesStep
<1>6. ASSUME NEW c \in Caller, Read(c)
      PROVE  IInv'
  <2>1. At(c) # "idle" /\ Return(c) /\ UNCHANGED storePools /\ UNCHANGED storeTables
    BY <1>6 DEF Read, At
  <2> QED BY <2>1, ReturnStep
<1>7. ASSUME NEW c \in Caller, Invoke(c) \/ Update(c)
      PROVE  IInv'
  BY <1>7, InvokeStep, UpdateStep
<1>8. ASSUME NEW c \in Caller,
             InsertDecision(c) \/ InsertMarketEvent(c) \/ InsertTrace(c) \/ Commit(c)
      PROVE  IInv'
  BY <1>8, InsertDecisionStep, InsertMarketEventStep, InsertTraceStep, CommitStep
<1> QED BY <1>1, <1>2, <1>3, <1>4, <1>5, <1>6, <1>7, <1>8 DEF StoreNext, Anyone

\* IInv is inductive.
THEOREM StoreIInv == StoreSpec => []IInv
BY InitIInv, NextIInv, PTL DEF StoreSpec

\* However many tasks use the stores, and whatever raises, crashes or restarts, a process has
\* open the pool that close() will close and one per demo that reached the database, no other:
\* the lifespan warms its store up before the first request, so _pool_or_create never runs twice
\* at once on it, while every run_bootstrap_once builds a store that nobody closes
\* (timescale_store.py:39-48, main.py:147-155, 195-197, 282-285).
THEOREM StoreOnlyDemosLeavePools == StoreSpec => []OnlyDemosLeavePools
<1>1. IInv => OnlyDemosLeavePools
  BY DEF IInv, PoolInv, OnlyDemosLeavePools
<1> QED BY <1>1, StoreIInv, PTL

\* A decision is in decisions, market_events and decision_traces or in none of them, and once:
\* a save that raises, is repeated or is overtaken by a save of the same id leaves no part of
\* itself (save_decision and update_decision, timescale_store.py:130-214).
THEOREM StoreTablesTogether == StoreSpec => []TablesTogether
<1>1. IInv => TablesTogether
  BY InjectiveCount DEF IInv, TablesInv, TablesTogether
<1> QED BY <1>1, StoreIInv, PTL

--------------------------------------------------------------------------------
(* The types                                                                   *)

PoolNumbers ==
    /\ poolsDrawn \in 0..MaxPools
    /\ \A c \in Anyone : storeCall[c].pool \in 0..poolsDrawn

TypeInv == IInv /\ PoolNumbers

\* A call that goes on with a pool that was drawn already.
LEMMA NumbersKept ==
    ASSUME CallsOK, PoolNumbers, NEW c \in Anyone, NEW k,
           k.pool \in 0..poolsDrawn, storeCall' = [storeCall EXCEPT ![c] = k],
           UNCHANGED poolsDrawn
    PROVE  PoolNumbers'
<1>1. \A d \in Anyone : storeCall'[d] = IF d = c THEN k ELSE storeCall[d]
  BY DEF CallsOK
<1> QED BY <1>1 DEF PoolNumbers

LEMMA PoolOrCreateNumber ==
    ASSUME NEW k, NEW next, k.pool \in 0..poolsDrawn, pool \in 0..poolsDrawn,
           k \in CallRecord
    PROVE  PoolOrCreate(k, next).pool \in 0..poolsDrawn
BY DEF PoolOrCreate, CallRecord

LEMMA NextTypeInv == TypeInv /\ [StoreNext]_storeVars => TypeInv'
<1> SUFFICES ASSUME TypeInv, [StoreNext]_storeVars PROVE PoolNumbers'
  BY NextIInv DEF TypeInv
<1>1. CallsOK /\ PoolNumbers /\ poolsDrawn \in Nat /\ MaxPools \in Nat
      /\ 0 \in 0..poolsDrawn /\ pool \in 0..poolsDrawn
      /\ \A c \in Anyone : storeCall[c] \in CallRecord /\ storeCall[c].pool \in 0..poolsDrawn
  BY PoolsAssumption DEF TypeInv, IInv, CallsOK, PoolInv, PoolNumbers
<1>2. NoCall.pool = 0
  BY DEF NoCall, NoPool
<1>3. Caller \subseteq Anyone /\ Lifespan \in Anyone
  BY DEF Anyone
<1>4. CASE UNCHANGED storeVars
  <2>1. UNCHANGED <<storeCall, poolsDrawn>>
    BY <1>4 DEF storeVars, storePools
  <2> QED BY <1>1, <2>1 DEF PoolNumbers
<1>5. CASE StartStore
  BY <1>1, <1>3, <1>5, PoolOrCreateNumber, NumbersKept DEF StartStore
<1>6. CASE CloseStarts \/ CloseReturns
  BY <1>1, <1>6 DEF CloseStarts, CloseReturns, PoolNumbers, NoPool
<1>7. CASE ProcessEnds
  <2>1. \A c \in Anyone : storeCall'[c].pool = 0
    BY <1>1, <1>2, <1>7 DEF ProcessEnds, CallsOK
  <2> QED BY <1>1, <1>7, <2>1 DEF ProcessEnds, PoolNumbers, NoPool
<1>8. ASSUME NEW c \in Anyone, Created(c) PROVE PoolNumbers'
  <2>1. poolsDrawn' = poolsDrawn + 1 /\ poolsDrawn' \in 0..MaxPools
    BY <1>1, <1>8 DEF Created, PoolNumbers
  <2>2. \A d \in Anyone : storeCall'[d].pool \in {storeCall[d].pool, poolsDrawn'}
    BY <1>1, <1>8 DEF Created, CallsOK, CallRecord
  <2> QED BY <1>1, <2>1, <2>2 DEF PoolNumbers
<1>9. ASSUME NEW c \in Anyone, EnsureReady(c) PROVE PoolNumbers'
  <2> DEFINE k == IF c = Lifespan THEN NoCall ELSE PoolOrCreate(storeCall[c], storeCall[c].op)
  <2>1. k.pool \in 0..poolsDrawn
    BY <1>1, <1>2, PoolOrCreateNumber
  <2>2. storeCall' = [storeCall EXCEPT ![c] = k] /\ UNCHANGED poolsDrawn
    BY <1>9 DEF EnsureReady
  <2> QED BY <1>1, <2>1, <2>2, NumbersKept
<1>10. ASSUME NEW c \in Anyone, StatementRaises(c) PROVE PoolNumbers'
  <2>1. storeCall' = [storeCall EXCEPT ![c] = NoCall] /\ poolsDrawn' = poolsDrawn
    BY <1>10 DEF StatementRaises, Return, NoPool
  <2>2. \A d \in Anyone : storeCall'[d].pool \in {storeCall[d].pool, 0}
    BY <1>1, <1>2, <2>1 DEF CallsOK
  <2> QED BY <1>1, <2>1, <2>2 DEF PoolNumbers
<1>11. ASSUME NEW c \in Caller, Invoke(c) PROVE PoolNumbers'
  <2>1. PICK op \in Ops, d \in StoredId, p \in Payload, own \in BOOLEAN :
          storeCall' = [storeCall EXCEPT ![c] = PoolOrCreate(Asked(op, d, p, own), "ready")]
    BY <1>11 DEF Invoke
  <2>2. Asked(op, d, p, own).pool = 0 /\ Asked(op, d, p, own) \in CallRecord
    BY <1>2, NoCallFacts DEF Asked, CallRecord
  <2>3. UNCHANGED poolsDrawn
    BY <1>11 DEF Invoke, storePools
  <2>4. PoolOrCreate(Asked(op, d, p, own), "ready").pool \in 0..poolsDrawn
    BY <1>1, <2>2, PoolOrCreateNumber
  <2> QED BY <1>1, <1>3, <2>1, <2>3, <2>4, NumbersKept
<1>12. ASSUME NEW c \in Caller,
              \/ Read(c) \/ Update(c) \/ InsertDecision(c) \/ InsertMarketEvent(c)
              \/ InsertTrace(c) \/ Commit(c)
       PROVE  PoolNumbers'
  <2>1. UNCHANGED poolsDrawn
    BY <1>12 DEF Read, Update, InsertDecision, InsertMarketEvent, InsertTrace, Commit, storePools
  <2>2. \/ Return(c)
        \/ storeCall' = [storeCall EXCEPT ![c].at = "market_events", ![c].wrote = {"decisions"}]
        \/ storeCall' = [storeCall EXCEPT ![c].at = "decision_traces",
                                          ![c].wrote = @ \cup {"market_events"}]
        \/ storeCall' = [storeCall EXCEPT ![c].at = "commit",
                                          ![c].wrote = @ \cup {"decision_traces"}]
    BY <1>12 DEF Read, Update, InsertDecision, InsertMarketEvent, InsertTrace, Commit
  <2>3. \A d \in Anyone : storeCall'[d].pool \in {storeCall[d].pool, 0}
    BY <1>1, <1>2, <1>3, <2>2 DEF Return, CallsOK, CallRecord
  <2> QED BY <1>1, <2>1, <2>3 DEF PoolNumbers
<1> QED BY <1>4, <1>5, <1>6, <1>7, <1>8, <1>9, <1>10, <1>11, <1>12 DEF StoreNext, Anyone

\* Every variable of the store has its type: no pool is in use that was not drawn, and only rows
\* that were inserted are listed, updated or in the other tables.
THEOREM StoreTypes == StoreSpec => []StoreTypeOK
<1>1. StoreInit => TypeInv
  <2> SUFFICES ASSUME StoreInit PROVE PoolNumbers
    BY InitIInv DEF TypeInv
  <2>1. \A c \in Anyone : storeCall[c].pool = 0
    BY DEF StoreInit, Anyone, NoCall, NoPool
  <2> QED BY <2>1, PoolsAssumption DEF StoreInit, PoolNumbers, NoPool
<1>2. TypeInv => StoreTypeOK
  <2> SUFFICES ASSUME TypeInv PROVE StoreTypeOK
    OBVIOUS
  <2>1. IInv /\ PoolNumbers /\ CallsOK /\ TablesInv /\ PoolInv
    BY DEF TypeInv, IInv
  <2>2. \A c \in Anyone : storeCall[c] \in CallRecord /\ storeCall[c].pool \in 0..poolsDrawn
    BY <2>1 DEF CallsOK, PoolNumbers
  <2>3. \A c \in Caller \cup {Lifespan} :
          /\ storeCall[c].op \in Ops /\ storeCall[c].id \in StoredId
          /\ storeCall[c].payload \in Payload /\ storeCall[c].own \in BOOLEAN
          /\ storeCall[c].pool \in 0..poolsDrawn
          /\ storeCall[c].wrote \subseteq {"decisions", "market_events", "decision_traces"}
    BY <2>2 DEF CallRecord, Anyone
  <2>4. ToSet(inserted) \subseteq StoredId
    BY <2>1 DEF TablesInv, ToSet
  <2>5. openPools \subseteq 1..poolsDrawn /\ demoPools \subseteq 1..poolsDrawn
    <3>1. pool = NoPool \/ pool \in 1..poolsDrawn
      BY <2>1 DEF PoolInv, NoPool
    <3> QED BY <2>1, <3>1 DEF PoolInv
  <2> QED BY <2>1, <2>3, <2>4, <2>5 DEF StoreTypeOK, PoolNumbers, PoolInv, TablesInv
<1> QED BY <1>1, <1>2, NextTypeInv, PTL DEF StoreSpec

--------------------------------------------------------------------------------
(* The two lists                                                               *)

\* The time column of a row is the timestamp of the payload it holds now: every statement that
\* writes the one writes the other.
Clocks == \A d \in DOMAIN rows : rows[d].created_at = rows[d].payload.ts

ClockInv == IInv /\ Clocks

LEMMA ClockInvHolds == StoreSpec => []ClockInv
<1>1. StoreInit => Clocks
  BY DEF StoreInit, Clocks
<1>2. ASSUME IInv, Clocks, [StoreNext]_storeVars PROVE Clocks'
  <2>1. CASE rows' = rows
    BY <1>2, <2>1 DEF Clocks
  <2>2. ASSUME NEW c \in Caller, Commit(c) PROVE Clocks'
    BY <1>2, <2>2 DEF Clocks, Commit, With
  <2>3. ASSUME NEW c \in Caller, Update(c) PROVE Clocks'
    BY <1>2, <2>3 DEF Clocks, Update
  <2> QED
    BY <1>2, <2>1, <2>2, <2>3
       DEF StoreNext, storeVars, storePools, storeTables, StartStore, CloseStarts, CloseReturns,
           ProcessEnds, Created, EnsureReady, StatementRaises, Invoke, Read, InsertDecision,
           InsertMarketEvent, InsertTrace
<1> QED BY <1>1, <1>2, InitIInv, NextIInv, StoreIInv, PTL DEF StoreSpec, ClockInv

\* A request as a client may make it: any bound, any limit, any policies.
AnyQuery == [since : Since, limit : Int, policies : SUBSET Policy]

ListedBefore == {pair \in (DOMAIN rows) \X (DOMAIN rows) : Sooner(pair[1], pair[2])}

\* What filter_decisions sorts is strictly and totally ordered: no two rows were saved at one
\* place.
LEMMA ListOrder ==
    ASSUME ClockInv, NEW S \in SUBSET DOMAIN rows
    PROVE  IsFiniteSet(S) /\ Orders(ListedBefore, S)
<1>1. /\ inserted \in Seq(StoredId) /\ ToSet(inserted) = DOMAIN rows
      /\ \A d \in DOMAIN rows : rows[d] \in [payload : Payload, created_at : Moment]
  BY DEF ClockInv, IInv, TablesInv
<1>2. IsFiniteSet(DOMAIN rows)
  <2>1. inserted \in Surjection(1..Len(inserted), DOMAIN rows)
    BY <1>1 DEF Surjection, ToSet
  <2>2. IsFiniteSet(1..Len(inserted))
    BY <1>1, FS_Interval
  <2> QED BY <2>1, <2>2, FS_Surjection
<1>3. IsFiniteSet(S)
  BY <1>2, FS_Subset
<1>4. ASSUME NEW d \in DOMAIN rows
      PROVE  PlaceSaved(d) \in Nat /\ inserted[PlaceSaved(d)] = d /\ Timestamp(d) \in Nat
  <2>1. \E i \in DOMAIN inserted : inserted[i] = d
    BY <1>1 DEF ToSet
  <2>2. PlaceSaved(d) \in DOMAIN inserted /\ inserted[PlaceSaved(d)] = d
    BY <2>1 DEF PlaceSaved
  <2>3. DOMAIN inserted \subseteq Nat
    BY <1>1
  <2>4. Timestamp(d) \in Nat
    BY <1>1, StoredAssumption DEF Timestamp
  <2> QED BY <2>2, <2>3, <2>4
<1>5. \A d, e \in S : <<d, e>> \in ListedBefore <=> Sooner(d, e)
  BY DEF ListedBefore
<1>6. \A d \in S : ~ Sooner(d, d)
  BY <1>4 DEF Sooner
<1>7. \A d, e, f \in S : Sooner(d, e) /\ Sooner(e, f) => Sooner(d, f)
  BY <1>4 DEF Sooner
<1>8. ASSUME NEW d \in S, NEW e \in S PROVE d = e \/ Sooner(d, e) \/ Sooner(e, d)
  <2>1. PlaceSaved(d) = PlaceSaved(e) => d = e
    BY <1>4
  <2> QED BY <1>4, <2>1 DEF Sooner
<1> QED BY <1>3, <1>5, <1>6, <1>7, <1>8 DEF Orders

\* For the bound that the SQL is given the two lists are one list.
LEMMA ListsAgree ==
    ASSUME ClockInv, NEW q \in AnyQuery
    PROVE  MayList(FilteredFrom(SinceSent(q.since), q), q)
<1> DEFINE since == SinceSent(q.since)
           found == {d \in DOMAIN rows : Matches(rows[d].payload, Timestamp(d), since, q)}
           foundAt == {d \in DOMAIN rows : Matches(rows[d].payload, rows[d].created_at, since, q)}
           all == Cardinality(found)
<1>1. \A d \in DOMAIN rows : rows[d].created_at = Timestamp(d) /\ Timestamp(d) \in Nat
  BY StoredAssumption DEF ClockInv, Clocks, Timestamp, IInv, TablesInv
<1>2. foundAt = found
  BY <1>1
<1>3. IsFiniteSet(found) /\ Orders(ListedBefore, found) /\ all \in Nat
  <2>1. found \in SUBSET DOMAIN rows
    OBVIOUS
  <2>2. IsFiniteSet(found) /\ Orders(ListedBefore, found)
    BY <2>1, ListOrder
  <2> QED BY <2>2, FS_CardinalityType
<1>4. PICK n \in Nat : n = IF q.limit \in 1..all THEN q.limit ELSE all
  BY <1>3 DEF AnyQuery
<1>5. n \in 0..Cardinality(found)
  BY <1>3, <1>4
<1>6. FilteredFrom(since, q) = Listed(ListedBefore, found, n)
  <2>1. \A d \in found : {e \in found : Sooner(e, d)} = {e \in found : <<e, d>> \in ListedBefore}
    BY DEF ListedBefore
  <2>2. \A d \in found : Cardinality({e \in found : Sooner(e, d)}) = RankOf(ListedBefore, found, d)
    BY <2>1 DEF RankOf
  <2>3. FilteredFrom(since, q) = [i \in 1..n |->
          CHOOSE d \in found : Cardinality({e \in found : Sooner(e, d)}) = i - 1]
    BY <1>4 DEF FilteredFrom
  <2> HIDE DEF found
  <2>4. \A i \in 1..n : (CHOOSE d \in found : Cardinality({e \in found : Sooner(e, d)}) = i - 1)
                       = (CHOOSE d \in found : RankOf(ListedBefore, found, d) = i - 1)
    BY <2>2
  <2> QED BY <2>3, <2>4 DEF Listed
<1> DEFINE s == Listed(ListedBefore, found, n)
<1>7. found \subseteq DOMAIN rows
  OBVIOUS
<1> HIDE DEF found, foundAt
<1>8. /\ Len(s) = n /\ ToSet(s) \subseteq found /\ Cardinality(ToSet(s)) = n
      /\ \A i, j \in 1..n : s[i] \in found /\ (i < j => <<s[i], s[j]>> \in ListedBefore)
      /\ \A d \in found \ ToSet(s) :
            n < all /\ \A e \in ToSet(s) : <<e, d>> \in ListedBefore
  BY ONLY <1>3, <1>5, ListedFacts
<1> HIDE DEF s
<1>9. \A d, e \in found : <<d, e>> \in ListedBefore => rows[e].created_at <= rows[d].created_at
  BY <1>1, <1>7 DEF ListedBefore, Sooner
<1>10. \A i \in 2..Len(s) : rows[s[i]].created_at <= rows[s[i - 1]].created_at
  <2>1. ASSUME NEW i \in 2..Len(s) PROVE i \in 1..n /\ i - 1 \in 1..n /\ i - 1 < i
    BY <1>8
  <2> QED BY <1>8, <1>9, <2>1
<1>11. ASSUME foundAt \ ToSet(s) # {}
       PROVE  /\ q.limit > 0 /\ Len(s) = q.limit
              /\ \A d \in foundAt \ ToSet(s), e \in ToSet(s) :
                    rows[d].created_at <= rows[e].created_at
  <2>1. n < all
    BY <1>2, <1>8, <1>11
  <2>2. q.limit \in 1..all /\ n = q.limit
    BY <1>3, <1>4, <2>1
  <2>3. \A d \in found \ ToSet(s), e \in ToSet(s) : rows[d].created_at <= rows[e].created_at
    BY <1>8, <1>9
  <2> QED BY <1>2, <1>3, <1>8, <2>2, <2>3
<1>12. s = FilteredFrom(since, q)
  BY <1>6 DEF s
<1> QED BY <1>2, <1>8, <1>10, <1>11, <1>12 DEF MayList, foundAt

\* What the two readings of a bound have to do with one another.
LEMMA BoundsMeet ==
    ASSUME NEW since \in Since
    PROVE  /\ since.aware \/ LocalOffset = 0 => SinceSent(since) = SinceUtc(since)
           /\ ~ since.aware => SinceSent(since) = since.wall - LocalOffset
BY OffsetAssumption DEF Since, SinceSent, SinceUtc

\* The backends are interchangeable for every request whose bound names its zone, or whatever the
\* bound if the process runs on UTC: what filter_decisions lists of the in-memory and the SQLite
\* store is a list that the SQL of the Timescale store may return.  For any other bound the SQL
\* may return what filter_decisions lists from LocalOffset earlier: query.py:20 takes it for UTC,
\* asyncpg for local time (query.py:10-28, timescale_store.py:216-243).
THEOREM StoreListsAgree ==
    StoreSpec => [](\A q \in AnyQuery :
                      /\ q.since.aware \/ LocalOffset = 0 => MayList(FilterDecisions(q), q)
                      /\ ~ q.since.aware => MayList(FilteredFrom(q.since.wall - LocalOffset, q), q))
<1>1. ASSUME ClockInv, NEW q \in AnyQuery
      PROVE  /\ q.since.aware \/ LocalOffset = 0 => MayList(FilterDecisions(q), q)
             /\ ~ q.since.aware => MayList(FilteredFrom(q.since.wall - LocalOffset, q), q)
  <2>1. q.since \in Since
    BY DEF AnyQuery
  <2>2. MayList(FilteredFrom(SinceSent(q.since), q), q)
    BY <1>1, ListsAgree
  <2> QED BY <2>1, <2>2, BoundsMeet DEF FilterDecisions
<1>2. ClockInv => \A q \in AnyQuery :
                     /\ q.since.aware \/ LocalOffset = 0 => MayList(FilterDecisions(q), q)
                     /\ ~ q.since.aware => MayList(FilteredFrom(q.since.wall - LocalOffset, q), q)
  BY <1>1
<1> QED BY <1>2, ClockInvHolds, PTL

\* In particular for the queries that the runs ask.
THEOREM StoreBackendsAgree == StoreSpec => []BackendsAgree
<1>1. ASSUME NEW q \in Queries PROVE q \in AnyQuery /\ q.since \in Since
  <2>1. Moment \subseteq Nat
    BY StoredAssumption DEF Moment
  <2>2. NoBound \in Since /\ [wall : Moment, aware : BOOLEAN] \subseteq Since
    BY <2>1 DEF NoBound, Since
  <2>3. q.since \in Since /\ q.limit \in Int /\ q.policies \in SUBSET Policy
        /\ q = [since |-> q.since, limit |-> q.limit, policies |-> q.policies]
    BY <2>2 DEF Queries
  <2> QED BY <2>3 DEF AnyQuery
<1>2. ASSUME ClockInv, NEW q \in Queries
      PROVE  IF q.since.aware \/ LocalOffset = 0
             THEN MayList(FilterDecisions(q), q)
             ELSE MayList(FilteredFrom(q.since.wall - LocalOffset, q), q)
  <2>1. MayList(FilteredFrom(SinceSent(q.since), q), q)
    BY <1>1, <1>2, ListsAgree
  <2> QED BY <1>1, <2>1, BoundsMeet DEF FilterDecisions
<1>3. ClockInv => BackendsAgree
  BY <1>2 DEF BackendsAgree
<1> QED BY <1>3, ClockInvHolds, PTL
================================================================================
