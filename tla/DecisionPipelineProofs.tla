------------------------ MODULE DecisionPipelineProofs ------------------------
(***************************************************************************)
(* For any number of requests, decisions, feedback items and process ends: *)
(* nothing speaks of a row that is not stored, an answered decision has    *)
(* gone through the whole pipeline, nothing is written once the audit      *)
(* writer is being stopped, and the server is a client of the audit trail  *)
(* that AuditWriter implements.                                            *)
(***************************************************************************)
EXTENDS DecisionPipeline, FiniteSetTheorems, TLAPS

Apps == {"down", "serving", "reflecting", "auditing", "closed"}
Awaits == {"idle", "decide", "demo_decide", "save", "demo_save", "flag", "review"}
RequestRecord == [at : Awaits, decision : DecisionId \cup {NoId},
                  feedback : FeedbackId \cup {NoId}, flagged : BOOLEAN]

Saves == {"save", "demo_save"}
Submits == {"flag", "review"}
Flagging == {r \in Request : request[r].at = "flag"}

\* An id that is drawn and not stored yet belongs to one request.
FreshIds ==
    /\ \A r \in Request : request[r].at \in Saves => request[r].decision \in (1..drawn) \ rows
    /\ \A r, s \in Request :
          /\ request[r].at \in Saves /\ request[s].at \in Saves
          /\ request[r].decision = request[s].decision
          => r = s
    /\ \A r \in Request : request[r].at \in Submits =>
          /\ request[r].feedback \in 1..submitted /\ request[r].decision \in DecisionId
          /\ \A f \in feedback : f.id # request[r].feedback
    /\ \A r, s \in Request :
          /\ request[r].at \in Submits /\ request[s].at \in Submits
          /\ request[r].feedback = request[s].feedback
          => r = s

\* What a 200 of /ingest promises of its decision, but for the flag.
Complete(d) ==
    /\ d \in rows /\ DecisionEvents(d) \subseteq emitted
    /\ d \in waiting \cup outcomes \cup overlooked

FlagsAreComplete == \A r \in Request : request[r].at = "flag" => Complete(request[r].decision)

\* The lifespan's order of shutdown.
Stages ==
    /\ app # "serving" => \A r \in Request : request[r].at = "idle"
    /\ app \notin {"serving", "reflecting"} => waiting = {}

\* A decision counts when it has been stored, and as processed when its flag has been, too.
Counted ==
    /\ decisionsTotal <= Cardinality(rows)
    /\ processedTotal + Cardinality(Flagging) <= decisionsTotal

IInv ==
    /\ TypeOK /\ FreshIds /\ FlagsAreComplete /\ Stages /\ Counted
    /\ NothingAheadOfTheRow /\ AnsweredIsComplete

--------------------------------------------------------------------------------

\* The server starts with nothing stored, emitted or answered.
LEMMA InitIInv == Init => IInv
<1> SUFFICES ASSUME Init PROVE IInv
  OBVIOUS
<1> USE DEF Init, Trail!TrailInit
<1>1. \A r \in Request : request[r] = Idle
  OBVIOUS
<1>2. Idle \in RequestRecord /\ Idle.at = "idle"
  BY DEF Idle, RequestRecord, Awaits
<1>3. Cardinality(waiting) = 0 /\ Cardinality(rows) = 0
  BY FS_EmptySet
<1>4. Flagging = {} /\ Cardinality(Flagging) = 0
  BY <1>1, <1>2, FS_EmptySet DEF Flagging
<1>5. TypeOK
  BY <1>2, <1>3, ReflectAssumption, BoundsAssumption DEF TypeOK, RequestRecord, Awaits
<1>6. FreshIds /\ FlagsAreComplete /\ Stages
  BY <1>1, <1>2 DEF FreshIds, FlagsAreComplete, Stages, Saves, Submits
<1>7. Counted
  BY <1>3, <1>4 DEF Counted
<1>8. NothingAheadOfTheRow /\ AnsweredIsComplete
  BY DEF NothingAheadOfTheRow, AnsweredIsComplete
<1> QED BY <1>5, <1>6, <1>7, <1>8 DEF IInv

\* The sets that are counted are finite.
LEMMA FiniteFacts ==
    ASSUME TypeOK
    PROVE  /\ IsFiniteSet(Flagging) /\ Cardinality(Flagging) \in Nat
           /\ IsFiniteSet(waiting) /\ Cardinality(waiting) \in Nat
           /\ IsFiniteSet(rows) /\ Cardinality(rows) \in Nat /\ Cardinality(rows) <= drawn
<1>1. IsFiniteSet(Flagging)
  BY RequestAssumption, FS_Subset DEF Flagging
<1>2. IsFiniteSet(DecisionId)
  BY FS_Interval, BoundsAssumption DEF DecisionId
<1>3. IsFiniteSet(waiting)
  BY <1>2, FS_Subset DEF TypeOK
<1>4. drawn \in Nat
  BY BoundsAssumption DEF TypeOK
<1>5. IsFiniteSet(1..drawn) /\ Cardinality(1..drawn) = drawn
  BY <1>4, FS_Interval
<1>6. IsFiniteSet(rows) /\ Cardinality(rows) <= drawn
  BY <1>5, FS_Subset DEF TypeOK
<1> QED BY <1>1, <1>3, <1>6, FS_CardinalityType

\* A step that writes one request leaves the others alone.
LEMMA OneRequest ==
    ASSUME request \in [Request -> RequestRecord], NEW r \in Request, NEW k \in RequestRecord,
           request' = [request EXCEPT ![r] = k]
    PROVE  /\ request' \in [Request -> RequestRecord] /\ request'[r] = k
           /\ \A s \in Request : s # r => request'[s] = request[s]
OBVIOUS

\* What a step that writes one request does to the number of those that wait for the flag.
LEMMA FlaggingFacts ==
    ASSUME TypeOK, NEW r \in Request, NEW k,
           request'[r] = k, \A s \in Request : s # r => request'[s] = request[s]
    PROVE  /\ k.at = "flag" /\ request[r].at # "flag"
                 => Cardinality(Flagging') = Cardinality(Flagging) + 1
           /\ k.at # "flag" /\ request[r].at = "flag"
                 => Cardinality(Flagging') = Cardinality(Flagging) - 1
           /\ k.at # "flag" /\ request[r].at # "flag"
                 => Cardinality(Flagging') = Cardinality(Flagging)
<1>1. IsFiniteSet(Flagging)
  BY FiniteFacts
<1>2. ASSUME k.at = "flag", request[r].at # "flag"
      PROVE  Flagging' = Flagging \cup {r} /\ r \notin Flagging
  BY <1>2 DEF Flagging
<1>3. ASSUME k.at # "flag", request[r].at = "flag"
      PROVE  Flagging' = Flagging \ {r} /\ r \in Flagging
  BY <1>3 DEF Flagging
<1>4. ASSUME k.at # "flag", request[r].at # "flag"
      PROVE  Flagging' = Flagging
  BY <1>4 DEF Flagging
<1> QED BY <1>1, <1>2, <1>3, <1>4, FS_AddElement, FS_RemoveElement

--------------------------------------------------------------------------------

\* A call starts with nothing drawn.
LEMMA CallStep ==
    ASSUME IInv, NEW r \in Request, NEW at \in {"decide", "demo_decide"}, Call(r, at),
           UNCHANGED <<app, drawn, submitted, store, feedback, waiting, overlooked, answered,
                       counters, trail, ends>>
    PROVE  IInv'
<1> DEFINE k == [request[r] EXCEPT !.at = at]
<1>1. /\ request \in [Request -> RequestRecord]
      /\ k \in RequestRecord /\ k.at = at /\ request[r].at = "idle" /\ app = "serving"
  BY DEF IInv, TypeOK, Call, RequestRecord, Awaits
<1>2. request' = [request EXCEPT ![r] = k]
  BY DEF Call
<1> HIDE DEF k
<1>3. /\ request' \in [Request -> RequestRecord] /\ request'[r] = k
      /\ \A s \in Request : s # r => request'[s] = request[s]
  BY <1>1, <1>2, OneRequest
<1>4. Cardinality(Flagging') = Cardinality(Flagging)
  BY <1>1, <1>3, FlaggingFacts DEF IInv
<1>5. TypeOK'
  BY <1>3 DEF IInv, TypeOK, RequestRecord, Awaits, store, counters, trail
<1>6. FreshIds'
  BY <1>1, <1>3 DEF IInv, FreshIds, Saves, Submits, store
<1>7. FlagsAreComplete' /\ Stages'
  BY <1>1, <1>3 DEF IInv, FlagsAreComplete, Stages, Complete, store, trail, DecisionEvents
<1>8. Counted'
  BY <1>4 DEF IInv, Counted, store, counters
<1>9. NothingAheadOfTheRow' /\ AnsweredIsComplete'
  BY DEF IInv, NothingAheadOfTheRow, AnsweredIsComplete, store, trail, DecisionEvents, FeedbackEvent
<1> QED BY <1>5, <1>6, <1>7, <1>8, <1>9 DEF IInv

\* A decision gets an id that no row and no other request has.
LEMMA DecidedStep ==
    ASSUME IInv, NEW r \in Request, NEW flagged \in BOOLEAN, Decided(r, flagged)
    PROVE  IInv'
<1> DEFINE k == [at |-> IF request[r].at = "decide" THEN "save" ELSE "demo_save",
                 decision |-> drawn + 1, feedback |-> NoId, flagged |-> flagged]
<1>1. /\ request \in [Request -> RequestRecord] /\ drawn \in Nat /\ drawn + 1 \in DecisionId
      /\ request[r].at \in {"decide", "demo_decide"} /\ drawn' = drawn + 1
  BY BoundsAssumption DEF IInv, TypeOK, Decided, RequestRecord, Awaits, DecisionId
<1>2. k \in RequestRecord /\ k.at \in Saves /\ k.decision = drawn + 1
  BY <1>1 DEF RequestRecord, Awaits, Saves
<1>3. request' = [request EXCEPT ![r] = k]
  BY DEF Decided
<1> HIDE DEF k
<1>4. /\ request' \in [Request -> RequestRecord] /\ request'[r] = k
      /\ \A s \in Request : s # r => request'[s] = request[s]
  BY <1>1, <1>2, <1>3, OneRequest
<1>5. Cardinality(Flagging') = Cardinality(Flagging)
  BY <1>1, <1>2, <1>4, FlaggingFacts DEF IInv, Saves
<1>6. TypeOK'
  <2>1. request' \in [Request -> RequestRecord] /\ drawn' \in 0..MaxDecisions /\ 1..drawn \subseteq 1..drawn'
    BY <1>1, <1>4, BoundsAssumption DEF DecisionId
  <2> QED BY <2>1 DEF IInv, TypeOK, Decided, RequestRecord, Awaits, store, counters, trail
<1>7. FreshIds'
  <2>1. UNCHANGED <<rows, feedback, submitted>> /\ rows \subseteq 1..drawn
    BY DEF Decided, store, IInv, TypeOK
  <2>2. \A s \in Request : request[s].at \in Saves => request[s].decision \in (1..drawn) \ rows
    BY DEF IInv, FreshIds
  <2>3. \A s \in Request : request'[s].at \in Saves => request'[s].decision \in (1..drawn') \ rows'
    BY <1>1, <1>2, <1>4, <2>1, <2>2
  <2>4. \A s, q \in Request :
           /\ request'[s].at \in Saves /\ request'[q].at \in Saves
           /\ request'[s].decision = request'[q].decision
           => s = q
    <3>1. \A s \in Request : request[s].at \in Saves => request[s].decision # drawn + 1
      BY <1>1, <2>2
    <3>2. \A s, q \in Request : /\ request[s].at \in Saves /\ request[q].at \in Saves
                                /\ request[s].decision = request[q].decision
                                => s = q
      BY DEF IInv, FreshIds
    <3> QED BY <1>2, <1>4, <3>1, <3>2
  <2>5. k.at \notin Submits
    BY <1>2 DEF Saves, Submits
  <2> QED BY <1>4, <2>1, <2>3, <2>4, <2>5 DEF IInv, FreshIds
<1>8. FlagsAreComplete'
  BY <1>2, <1>4 DEF IInv, FlagsAreComplete, Complete, Decided, store, trail, DecisionEvents, Saves
<1>9. Stages' /\ Counted'
  BY <1>1, <1>4, <1>5 DEF IInv, Stages, Counted, Decided, store, counters
<1>10. NothingAheadOfTheRow' /\ AnsweredIsComplete'
  BY DEF IInv, NothingAheadOfTheRow, AnsweredIsComplete, Decided, store, trail,
         DecisionEvents, FeedbackEvent
<1> QED BY <1>6, <1>7, <1>8, <1>9, <1>10 DEF IInv

\* A request that ends leaves no id behind that could be stored by another.
LEMMA EndedFacts ==
    ASSUME IInv, NEW r \in Request, request' = [request EXCEPT ![r] = Idle]
    PROVE  /\ request' \in [Request -> RequestRecord] /\ request'[r] = Idle /\ Idle.at = "idle"
           /\ \A s \in Request : s # r => request'[s] = request[s]
           /\ request[r].at # "flag" => Cardinality(Flagging') = Cardinality(Flagging)
           /\ request[r].at = "flag" => Cardinality(Flagging') = Cardinality(Flagging) - 1
<1>1. request \in [Request -> RequestRecord] /\ Idle \in RequestRecord /\ Idle.at = "idle"
  BY DEF IInv, TypeOK, RequestRecord, Awaits, Idle
<1>2. /\ request' \in [Request -> RequestRecord] /\ request'[r] = Idle
      /\ \A s \in Request : s # r => request'[s] = request[s]
  BY <1>1, OneRequest
<1>3. TypeOK
  BY DEF IInv
<1> QED BY <1>1, <1>2, <1>3, FlaggingFacts

\* A request that fails before its row, or at the flag, changes nothing but its own state.
LEMMA RaisesStep ==
    ASSUME IInv, NEW r \in Request, request' = [request EXCEPT ![r] = Idle],
           UNCHANGED <<app, drawn, submitted, store, feedback, waiting, overlooked, answered,
                       counters, trail, ends>>
    PROVE  IInv'
<1>1. /\ request' \in [Request -> RequestRecord] /\ request'[r] = Idle /\ Idle.at = "idle"
      /\ \A s \in Request : s # r => request'[s] = request[s]
      /\ Cardinality(Flagging') \in {Cardinality(Flagging), Cardinality(Flagging) - 1}
  BY EndedFacts
<1>2. Cardinality(Flagging) \in Nat /\ Cardinality(rows) \in Nat
  BY FiniteFacts DEF IInv
<1>3. TypeOK'
  BY <1>1 DEF IInv, TypeOK, RequestRecord, Awaits, store, counters, trail
<1>4. FreshIds'
  BY <1>1 DEF IInv, FreshIds, Saves, Submits, store
<1>5. FlagsAreComplete' /\ Stages'
  BY <1>1 DEF IInv, FlagsAreComplete, Stages, Complete, store, trail, DecisionEvents
<1>6. Counted'
  BY <1>1, <1>2 DEF IInv, Counted, TypeOK, store, counters
<1>7. NothingAheadOfTheRow' /\ AnsweredIsComplete'
  BY DEF IInv, NothingAheadOfTheRow, AnsweredIsComplete, store, trail, DecisionEvents, FeedbackEvent
<1> QED BY <1>3, <1>4, <1>5, <1>6, <1>7 DEF IInv

\* Complete decisions stay so: rows, events and the reflection's bookkeeping only grow.
LEMMA CompleteKept ==
    ASSUME NEW d, Complete(d), rows \subseteq rows', emitted \subseteq emitted',
           waiting \cup outcomes \cup overlooked \subseteq waiting' \cup outcomes' \cup overlooked'
    PROVE  Complete(d)'
BY DEF Complete, DecisionEvents

\* The step in which a decision is stored makes it complete, and its queue stays in bounds.
LEMMA SavedFacts ==
    ASSUME IInv, NEW r \in Request, Saved(r), NEW d, d = request[r].decision
    PROVE  /\ d \in DecisionId /\ d \in 1..drawn
           /\ d \notin rows /\ rows' = rows \cup {d}
           /\ Cardinality(rows') = Cardinality(rows) + 1 /\ Cardinality(rows') <= drawn
           /\ DecisionEvents(d) \subseteq Event
           /\ Cardinality(waiting') <= ReflectMax + 1
           /\ waiting \cup overlooked \cup {d} = waiting' \cup overlooked'
           /\ waiting' \in {waiting, waiting \cup {d}}
           /\ Complete(d)'
           /\ \A q : Complete(q) => Complete(q)'
           /\ app = "serving"
<1>1. request[r].at = "save" /\ d \in (1..drawn) \ rows /\ d \in DecisionId
  BY BoundsAssumption DEF Saved, IInv, FreshIds, TypeOK, Saves, DecisionId
<1>2. rows' = rows \cup {d} /\ emitted' = emitted \cup DecisionEvents(d) /\ UNCHANGED <<outcomes, drawn>>
  BY DEF Saved, Trail!EmitAll
<1>3. Reflectable(d)
  BY DEF Saved
<1>4. IsFiniteSet(rows) /\ Cardinality(rows) \in Nat /\ IsFiniteSet(waiting) /\ Cardinality(waiting) \in Nat
  BY FiniteFacts DEF IInv
<1>5. Cardinality(rows') = Cardinality(rows) + 1
  BY <1>1, <1>2, <1>4, FS_AddElement
<1>6. rows' \subseteq 1..drawn /\ IsFiniteSet(1..drawn) /\ Cardinality(1..drawn) = drawn
  <2>1. rows \subseteq 1..drawn /\ drawn \in Nat
    BY BoundsAssumption DEF IInv, TypeOK
  <2>2. rows' \subseteq 1..drawn
    BY <1>1, <1>2, <2>1
  <2> QED BY <2>1, <2>2, FS_Interval
<1>7. Cardinality(rows') <= drawn
  BY <1>6, FS_Subset
<1>8. /\ Cardinality(waiting') <= ReflectMax + 1
      /\ waiting' \in {waiting, waiting \cup {d}}
      /\ waiting \cup overlooked \cup {d} = waiting' \cup overlooked'
  <2>1. CASE Cardinality(waiting) <= ReflectMax /\ waiting' = waiting \cup {d} /\ UNCHANGED overlooked
    <3>1. Cardinality(waiting \cup {d}) \in {Cardinality(waiting), Cardinality(waiting) + 1}
      BY <1>4, FS_AddElement
    <3>2. Cardinality(waiting') <= ReflectMax + 1
      BY <2>1, <3>1, <1>4, ReflectAssumption
    <3> QED BY <2>1, <3>2
  <2>2. CASE overlooked' = overlooked \cup {d} /\ UNCHANGED waiting
    BY <2>2 DEF IInv, TypeOK
  <2> QED BY <1>3, <2>1, <2>2 DEF Reflectable
<1>9. DecisionEvents(d) \subseteq Event
  BY <1>1 DEF DecisionEvents, Event
<1>10. Complete(d)'
  <2>1. d \in rows' /\ d \in waiting' \cup outcomes' \cup overlooked'
    BY <1>2, <1>8
  <2>2. DecisionEvents(d) \subseteq emitted'
    BY <1>2
  <2> QED BY <2>1, <2>2 DEF Complete, DecisionEvents
<1>11. \A q : Complete(q) => Complete(q)'
  BY <1>2, <1>8, CompleteKept
<1>12. app = "serving"
  BY <1>1 DEF IInv, Stages
<1> QED BY <1>1, <1>2, <1>5, <1>7, <1>8, <1>9, <1>10, <1>11, <1>12

\* Without a flag the answer is given in the step that stores the decision.
LEMMA SavedAndAnswersStep ==
    ASSUME IInv, NEW r \in Request, SavedAndAnswers(r)
    PROVE  IInv'
<1> PICK d : d = request[r].decision
  OBVIOUS
<1>1. /\ Saved(r) /\ request' = [request EXCEPT ![r] = Idle] /\ request[r].at = "save"
      /\ processedTotal' = processedTotal + 1 /\ decisionsTotal' = decisionsTotal + 1
      /\ answered' = answered \cup {[decision |-> d, flagged |-> FALSE]}
      /\ emitted' = emitted \cup DecisionEvents(d) /\ pending' = pending \cup DecisionEvents(d)
      /\ UNCHANGED <<app, drawn, submitted, outcomes, demos, feedback, ends, log, dropped, failed, lost>>
  BY DEF SavedAndAnswers, Saved, Trail!EmitAll
<1>2. /\ d \in DecisionId /\ d \in 1..drawn /\ d \notin rows /\ rows' = rows \cup {d}
      /\ Cardinality(rows') = Cardinality(rows) + 1 /\ Cardinality(rows') <= drawn
      /\ DecisionEvents(d) \subseteq Event
      /\ Cardinality(waiting') <= ReflectMax + 1
      /\ waiting \cup overlooked \cup {d} = waiting' \cup overlooked'
      /\ waiting' \in {waiting, waiting \cup {d}}
      /\ Complete(d)' /\ \A q : Complete(q) => Complete(q)'
      /\ app = "serving"
  BY <1>1, SavedFacts
<1>3. /\ request' \in [Request -> RequestRecord] /\ request'[r] = Idle /\ Idle.at = "idle"
      /\ \A s \in Request : s # r => request'[s] = request[s]
      /\ Cardinality(Flagging') = Cardinality(Flagging)
  BY <1>1, EndedFacts
<1>4. Cardinality(Flagging) \in Nat /\ Cardinality(rows) \in Nat
  BY FiniteFacts DEF IInv
<1>5. Counted'
  BY <1>1, <1>2, <1>3, <1>4 DEF IInv, Counted, TypeOK
<1>6. TypeOK'
  <2>1. decisionsTotal' \in 0..MaxDecisions /\ processedTotal' \in 0..decisionsTotal'
    BY <1>1, <1>2, <1>4, BoundsAssumption DEF IInv, TypeOK, Counted
  <2>2. waiting' \subseteq DecisionId /\ overlooked' \subseteq DecisionId
    BY <1>2 DEF IInv, TypeOK
  <2>3. rows' \subseteq 1..drawn' /\ outcomes' \subseteq rows' /\ demos' \subseteq rows'
    BY <1>1, <1>2 DEF IInv, TypeOK
  <2>4. answered' \subseteq [decision : DecisionId, flagged : BOOLEAN]
    <3>1. [decision |-> d, flagged |-> FALSE] \in [decision : DecisionId, flagged : BOOLEAN]
      BY <1>2
    <3>2. answered \subseteq [decision : DecisionId, flagged : BOOLEAN]
      BY DEF IInv, TypeOK
    <3> QED BY <1>1, <3>1, <3>2
  <2>5. /\ emitted' \subseteq Event /\ pending' \subseteq emitted' /\ log' \subseteq emitted'
        /\ dropped' \subseteq emitted' /\ failed' \subseteq emitted' /\ lost' \subseteq emitted'
    BY <1>1, <1>2 DEF IInv, TypeOK
  <2> QED BY <1>1, <1>2, <1>3, <2>1, <2>2, <2>3, <2>4, <2>5 DEF IInv, TypeOK, RequestRecord, Awaits
<1>7. FreshIds'
  <2>1. \A s \in Request : s # r /\ request[s].at \in Saves => request[s].decision # d
    BY <1>1 DEF IInv, FreshIds, Saves
  <2> QED BY <1>1, <1>2, <1>3, <2>1 DEF IInv, FreshIds, Saves, Submits
<1>8. FlagsAreComplete' /\ Stages'
  BY <1>1, <1>2, <1>3 DEF IInv, FlagsAreComplete, Stages
<1>9. NothingAheadOfTheRow'
  BY <1>1, <1>2 DEF IInv, NothingAheadOfTheRow, DecisionEvents
<1>10. AnsweredIsComplete'
  <2>1. ASSUME NEW a \in answered
        PROVE  Complete(a.decision)'
    BY <1>2 DEF IInv, AnsweredIsComplete, NothingAheadOfTheRow, Complete
  <2>2. /\ answered' = answered \cup {[decision |-> d, flagged |-> FALSE]}
        /\ feedback' = feedback /\ emitted \subseteq emitted'
    BY <1>1
  <2>3. ASSUME NEW a \in answered'
        PROVE  Complete(a.decision)'
    BY <1>2, <2>1, <2>2, <2>3
  <2>4. ASSUME NEW a \in answered', a.flagged
        PROVE  \E f \in feedback' : /\ f.decision = a.decision
                                    /\ FeedbackEvent(f.id) \in emitted'
    <3>1. a \in answered
      BY <2>2, <2>4
    <3> QED BY <2>2, <2>4, <3>1 DEF IInv, AnsweredIsComplete
  <2> QED BY <2>3, <2>4 DEF AnsweredIsComplete, Complete, DecisionEvents, FeedbackEvent
<1> QED BY <1>5, <1>6, <1>7, <1>8, <1>9, <1>10 DEF IInv

\* The flag's request keeps its decision, which is complete by then.
LEMMA SavedAndFlagsStep ==
    ASSUME IInv, NEW r \in Request, SavedAndFlags(r)
    PROVE  IInv'
<1> PICK d : d = request[r].decision
  OBVIOUS
<1> DEFINE k == [[request[r] EXCEPT !.at = "flag"] EXCEPT !.feedback = submitted + 1]
<1>1. /\ Saved(r) /\ request' = [request EXCEPT ![r] = k] /\ request[r].at = "save"
      /\ submitted' = submitted + 1 /\ decisionsTotal' = decisionsTotal + 1
      /\ emitted' = emitted \cup DecisionEvents(d) /\ pending' = pending \cup DecisionEvents(d)
      /\ submitted \in Nat /\ submitted + 1 \in FeedbackId /\ request \in [Request -> RequestRecord]
      /\ UNCHANGED <<app, drawn, processedTotal, answered, outcomes, demos, feedback, ends,
                     log, dropped, failed, lost>>
  <2>1. /\ submitted \in Nat /\ submitted + 1 \in FeedbackId /\ request \in [Request -> RequestRecord]
    BY BoundsAssumption DEF SavedAndFlags, IInv, TypeOK, RequestRecord, Awaits, FeedbackId
  <2>2. request' = [request EXCEPT ![r] = k]
    BY <2>1 DEF SavedAndFlags
  <2> HIDE DEF k
  <2> QED BY <2>1, <2>2 DEF SavedAndFlags, Saved, Trail!EmitAll
<1>2. k \in RequestRecord /\ k.at = "flag" /\ k.decision = d /\ k.feedback = submitted + 1
  BY <1>1 DEF RequestRecord, Awaits
<1> HIDE DEF k
<1>3. /\ d \in DecisionId /\ d \in 1..drawn /\ d \notin rows /\ rows' = rows \cup {d}
      /\ Cardinality(rows') = Cardinality(rows) + 1 /\ Cardinality(rows') <= drawn
      /\ DecisionEvents(d) \subseteq Event
      /\ Cardinality(waiting') <= ReflectMax + 1
      /\ waiting \cup overlooked \cup {d} = waiting' \cup overlooked'
      /\ waiting' \in {waiting, waiting \cup {d}}
      /\ Complete(d)' /\ \A q : Complete(q) => Complete(q)'
      /\ app = "serving"
  BY <1>1, SavedFacts
<1>4. /\ request' \in [Request -> RequestRecord] /\ request'[r] = k
      /\ \A s \in Request : s # r => request'[s] = request[s]
  BY <1>1, <1>2, OneRequest
<1>5. Cardinality(Flagging') = Cardinality(Flagging) + 1
  BY <1>1, <1>2, <1>4, FlaggingFacts DEF IInv
<1>6. Cardinality(Flagging) \in Nat /\ Cardinality(rows) \in Nat
  BY FiniteFacts DEF IInv
<1>7. Counted'
  BY <1>1, <1>3, <1>5, <1>6 DEF IInv, Counted, TypeOK
<1>8. TypeOK'
  <2>1. decisionsTotal' \in 0..MaxDecisions /\ processedTotal' \in 0..decisionsTotal'
    BY <1>1, <1>3, <1>6, BoundsAssumption DEF IInv, TypeOK, Counted
  <2>2. waiting' \subseteq DecisionId /\ overlooked' \subseteq DecisionId
    BY <1>3 DEF IInv, TypeOK
  <2>3. /\ submitted' \in 0..MaxFeedback
        /\ feedback \subseteq [id : 1..submitted', decision : DecisionId]
    BY <1>1, BoundsAssumption DEF FeedbackId, IInv, TypeOK
  <2> QED BY <1>1, <1>3, <1>4, <2>1, <2>2, <2>3 DEF IInv, TypeOK, RequestRecord, Awaits
<1>9. FreshIds'
  <2>1. \A s \in Request : s # r /\ request[s].at \in Saves => request[s].decision # d
    BY <1>1 DEF IInv, FreshIds, Saves
  <2>2. \A s \in Request : request[s].at \in Submits => request[s].feedback # submitted + 1
    BY <1>1 DEF IInv, FreshIds
  <2>3. \A f \in feedback : f.id # submitted + 1
    BY <1>1 DEF IInv, TypeOK
  <2>4. k.at \notin Saves
    BY <1>2 DEF Saves
  <2>5. \A s \in Request : request'[s].at \in Saves => request'[s].decision \in (1..drawn') \ rows'
    BY <1>1, <1>3, <1>4, <2>1, <2>4 DEF IInv, FreshIds
  <2>6. \A s, q \in Request :
          /\ request'[s].at \in Saves /\ request'[q].at \in Saves
          /\ request'[s].decision = request'[q].decision
          => s = q
    BY <1>4, <2>4 DEF IInv, FreshIds
  <2>7. \A s \in Request : request'[s].at \in Submits =>
          /\ request'[s].feedback \in 1..submitted' /\ request'[s].decision \in DecisionId
          /\ \A f \in feedback' : f.id # request'[s].feedback
    <3>1. \A s \in Request : request[s].at \in Submits =>
          /\ request[s].feedback \in 1..submitted /\ request[s].decision \in DecisionId
          /\ \A f \in feedback : f.id # request[s].feedback
      BY DEF IInv, FreshIds
    <3>2. 1..submitted \subseteq 1..submitted' /\ submitted + 1 \in 1..submitted' /\ feedback' = feedback
      BY <1>1
    <3>3. ASSUME NEW s \in Request, s # r, request'[s].at \in Submits
          PROVE  /\ request'[s].feedback \in 1..submitted' /\ request'[s].decision \in DecisionId
                 /\ \A f \in feedback' : f.id # request'[s].feedback
      BY <1>4, <3>1, <3>2, <3>3
    <3> QED BY <1>2, <1>3, <1>4, <2>3, <3>2, <3>3
  <2>8. \A s, q \in Request :
          /\ request'[s].at \in Submits /\ request'[q].at \in Submits
          /\ request'[s].feedback = request'[q].feedback
          => s = q
    BY <1>2, <1>4, <2>2 DEF IInv, FreshIds
  <2> QED BY <2>5, <2>6, <2>7, <2>8 DEF FreshIds
<1>10. FlagsAreComplete' /\ Stages'
  BY <1>1, <1>2, <1>3, <1>4 DEF IInv, FlagsAreComplete, Stages
<1>11. NothingAheadOfTheRow'
  BY <1>1, <1>3 DEF IInv, NothingAheadOfTheRow, DecisionEvents
<1>12. AnsweredIsComplete'
  <2>1. ASSUME NEW a \in answered
        PROVE  Complete(a.decision)'
    BY <1>3 DEF IInv, AnsweredIsComplete, NothingAheadOfTheRow, Complete
  <2> QED BY <1>1, <2>1 DEF IInv, AnsweredIsComplete, Complete, DecisionEvents, FeedbackEvent
<1> QED BY <1>7, <1>8, <1>9, <1>10, <1>11, <1>12 DEF IInv

\* The demo's decision is counted and processed at once; no event, no reflection.
LEMMA DemoSavedStep ==
    ASSUME IInv, NEW r \in Request, DemoSaved(r)
    PROVE  IInv'
<1> PICK d : d = request[r].decision
  OBVIOUS
<1>1. /\ request' = [request EXCEPT ![r] = Idle] /\ request[r].at = "demo_save"
      /\ processedTotal' = processedTotal + 1 /\ decisionsTotal' = decisionsTotal + 1
      /\ rows' = rows \cup {d} /\ demos' = demos \cup {d}
      /\ UNCHANGED <<app, drawn, submitted, outcomes, feedback, waiting, overlooked, answered,
                     emitted, pending, log, dropped, failed, lost, ends>>
  BY DEF DemoSaved, trail
<1>2. d \in 1..drawn /\ d \notin rows
  BY <1>1 DEF IInv, FreshIds, Saves
<1>3. /\ request' \in [Request -> RequestRecord] /\ request'[r] = Idle /\ Idle.at = "idle"
      /\ \A s \in Request : s # r => request'[s] = request[s]
      /\ Cardinality(Flagging') = Cardinality(Flagging)
  BY <1>1, EndedFacts
<1>4. /\ IsFiniteSet(rows) /\ Cardinality(rows) \in Nat /\ Cardinality(rows') = Cardinality(rows) + 1
      /\ Cardinality(Flagging) \in Nat
  BY <1>1, <1>2, FiniteFacts, FS_AddElement DEF IInv
<1>5. drawn \in Nat /\ rows \subseteq 1..drawn
  BY BoundsAssumption DEF IInv, TypeOK
<1>6. rows' \subseteq 1..drawn
  BY <1>1, <1>2, <1>5
<1>7. Cardinality(rows') <= drawn
  <2>1. IsFiniteSet(1..drawn) /\ Cardinality(1..drawn) = drawn
    BY <1>5, FS_Interval
  <2> QED BY <1>6, <2>1, FS_Subset
<1>8. Counted'
  BY <1>1, <1>3, <1>4 DEF IInv, Counted, TypeOK
<1>9. TypeOK'
  <2>1. decisionsTotal' \in 0..MaxDecisions /\ processedTotal' \in 0..decisionsTotal'
    BY <1>1, <1>4, <1>7, BoundsAssumption DEF IInv, TypeOK, Counted
  <2> QED BY <1>1, <1>3, <1>6, <2>1 DEF IInv, TypeOK, RequestRecord, Awaits
<1>10. FreshIds'
  <2>1. \A s \in Request : s # r /\ request[s].at \in Saves => request[s].decision # d
    BY <1>1 DEF IInv, FreshIds, Saves
  <2> QED BY <1>1, <1>2, <1>3, <2>1 DEF IInv, FreshIds, Saves, Submits
<1>11. FlagsAreComplete' /\ Stages'
  BY <1>1, <1>3 DEF IInv, FlagsAreComplete, Stages, Complete, DecisionEvents
<1>12. NothingAheadOfTheRow'
  BY <1>1 DEF IInv, NothingAheadOfTheRow
<1>13. AnsweredIsComplete'
  BY <1>1 DEF IInv, AnsweredIsComplete, DecisionEvents, FeedbackEvent
<1> QED BY <1>8, <1>9, <1>10, <1>11, <1>12, <1>13 DEF IInv

\* A save that fails after its commit leaves a row that nothing speaks of.
LEMMA SaveRaisesStep ==
    ASSUME IInv, NEW r \in Request, SaveRaises(r)
    PROVE  IInv'
<1> PICK d : d = request[r].decision
  OBVIOUS
<1>1. /\ request' = [request EXCEPT ![r] = Idle] /\ request[r].at \in Saves
      /\ rows' \in {rows, rows \cup {d}} /\ demos' \in {demos, demos \cup {d}}
      /\ rows' = rows => demos' = demos
      /\ rows' # rows => rows' = rows \cup {d}
      /\ UNCHANGED <<app, drawn, submitted, outcomes, feedback, waiting, overlooked, answered,
                     decisionsTotal, processedTotal, emitted, pending, log, dropped, failed,
                     lost, ends>>
  <2>1. d \notin rows
    BY DEF SaveRaises, IInv, FreshIds, Saves
  <2> QED BY <2>1 DEF SaveRaises, Saves, trail, counters
<1>2. d \in 1..drawn /\ d \notin rows
  BY <1>1 DEF IInv, FreshIds
<1>3. /\ request' \in [Request -> RequestRecord] /\ request'[r] = Idle /\ Idle.at = "idle"
      /\ \A s \in Request : s # r => request'[s] = request[s]
      /\ Cardinality(Flagging') = Cardinality(Flagging)
  BY <1>1, EndedFacts DEF Saves
<1>4. /\ IsFiniteSet(rows) /\ Cardinality(rows) \in Nat
      /\ Cardinality(rows \cup {d}) = Cardinality(rows) + 1
      /\ Cardinality(Flagging) \in Nat
  BY <1>2, FiniteFacts, FS_AddElement DEF IInv
<1>5. drawn \in Nat /\ rows \subseteq 1..drawn /\ demos \subseteq rows
  BY BoundsAssumption DEF IInv, TypeOK
<1>6. rows' \subseteq 1..drawn /\ demos' \subseteq rows' /\ rows \subseteq rows'
  BY <1>1, <1>2, <1>5
<1>7. Counted'
  <2>1. Cardinality(rows') \in {Cardinality(rows), Cardinality(rows) + 1}
    BY <1>1, <1>4
  <2> QED BY <1>1, <1>3, <1>4, <2>1 DEF IInv, Counted, TypeOK
<1>8. TypeOK'
  BY <1>1, <1>3, <1>6 DEF IInv, TypeOK, RequestRecord, Awaits
<1>9. FreshIds'
  <2>1. \A s \in Request : s # r /\ request[s].at \in Saves => request[s].decision # d
    BY <1>1 DEF IInv, FreshIds
  <2> QED BY <1>1, <1>2, <1>3, <2>1 DEF IInv, FreshIds, Saves, Submits
<1>10. FlagsAreComplete' /\ Stages'
  BY <1>1, <1>3, <1>6 DEF IInv, FlagsAreComplete, Stages, Complete, DecisionEvents
<1>11. NothingAheadOfTheRow'
  BY <1>1, <1>6 DEF IInv, NothingAheadOfTheRow
<1>12. AnsweredIsComplete'
  BY <1>1 DEF IInv, AnsweredIsComplete, DecisionEvents, FeedbackEvent
<1> QED BY <1>7, <1>8, <1>9, <1>10, <1>11, <1>12 DEF IInv

\* An operator's feedback item gets an id that no other item has.
LEMMA ReviewStep ==
    ASSUME IInv, NEW r \in Request, NEW d \in DecisionId, Review(r, d)
    PROVE  IInv'
<1> DEFINE k == [at |-> "review", decision |-> d, feedback |-> submitted + 1, flagged |-> FALSE]
<1>1. /\ request \in [Request -> RequestRecord] /\ submitted \in Nat /\ submitted + 1 \in FeedbackId
      /\ request[r].at = "idle" /\ app = "serving" /\ submitted' = submitted + 1
      /\ request' = [request EXCEPT ![r] = k]
  BY BoundsAssumption DEF IInv, TypeOK, Review, RequestRecord, Awaits, FeedbackId
<1>2. k \in RequestRecord /\ k.at = "review" /\ k.decision = d /\ k.feedback = submitted + 1
  BY <1>1 DEF RequestRecord, Awaits
<1> HIDE DEF k
<1>3. /\ request' \in [Request -> RequestRecord] /\ request'[r] = k
      /\ \A s \in Request : s # r => request'[s] = request[s]
  BY <1>1, <1>2, OneRequest
<1>4. Cardinality(Flagging') = Cardinality(Flagging)
  BY <1>1, <1>2, <1>3, FlaggingFacts DEF IInv
<1>5. UNCHANGED <<app, drawn, rows, outcomes, demos, feedback, waiting, overlooked, answered,
                  decisionsTotal, processedTotal, emitted, pending, log, dropped, failed, lost, ends>>
  BY DEF Review, store, counters, trail
<1>6. TypeOK'
  <2>1. submitted' \in 0..MaxFeedback /\ feedback \subseteq [id : 1..submitted', decision : DecisionId]
    BY <1>1, BoundsAssumption DEF FeedbackId, IInv, TypeOK
  <2> QED BY <1>3, <1>5, <2>1 DEF IInv, TypeOK, RequestRecord, Awaits
<1>7. FreshIds'
  <2>1. \A s \in Request : request[s].at \in Submits =>
          /\ request[s].feedback \in 1..submitted /\ request[s].decision \in DecisionId
          /\ \A f \in feedback : f.id # request[s].feedback
    BY DEF IInv, FreshIds
  <2>2. 1..submitted \subseteq 1..submitted' /\ submitted + 1 \in 1..submitted'
        /\ submitted + 1 \notin 1..submitted
    BY <1>1
  <2>3. \A f \in feedback : f.id # submitted + 1
    BY <1>1 DEF IInv, TypeOK
  <2>4. \A s \in Request : request'[s].at \in Submits =>
          /\ request'[s].feedback \in 1..submitted' /\ request'[s].decision \in DecisionId
          /\ \A f \in feedback' : f.id # request'[s].feedback
    BY <1>2, <1>3, <1>5, <2>1, <2>2, <2>3
  <2>5. \A s, q \in Request :
          /\ request'[s].at \in Submits /\ request'[q].at \in Submits
          /\ request'[s].feedback = request'[q].feedback
          => s = q
    BY <1>2, <1>3, <2>1, <2>2 DEF IInv, FreshIds
  <2> QED BY <1>2, <1>3, <1>5, <2>4, <2>5 DEF IInv, FreshIds, Saves
<1>8. FlagsAreComplete' /\ Stages'
  BY <1>1, <1>2, <1>3, <1>5 DEF IInv, FlagsAreComplete, Stages, Complete, DecisionEvents
<1>9. Counted'
  BY <1>4, <1>5 DEF IInv, Counted
<1>10. NothingAheadOfTheRow' /\ AnsweredIsComplete'
  BY <1>5 DEF IInv, NothingAheadOfTheRow, AnsweredIsComplete, DecisionEvents, FeedbackEvent
<1> QED BY <1>6, <1>7, <1>8, <1>9, <1>10 DEF IInv

\* A feedback row and its event come together; a flag's request is then answered.
LEMMA SubmittedStep ==
    ASSUME IInv, NEW r \in Request, ReviewSubmitted(r) \/ FlagSubmitted(r)
    PROVE  IInv'
<1> PICK d, f : d = request[r].decision /\ f = request[r].feedback
  OBVIOUS
<1> DEFINE item == [id |-> f, decision |-> d]
           answer == [decision |-> d, flagged |-> TRUE]
<1>1. /\ request' = [request EXCEPT ![r] = Idle] /\ request[r].at \in Submits
      /\ feedback' = feedback \cup {item}
      /\ emitted' = emitted \cup {FeedbackEvent(f)} /\ pending' = pending \cup {FeedbackEvent(f)}
      /\ UNCHANGED <<app, drawn, submitted, rows, outcomes, demos, waiting, overlooked,
                     decisionsTotal, log, dropped, failed, lost, ends>>
  BY DEF ReviewSubmitted, FlagSubmitted, Submitted, Submits, Trail!EmitAll, store
<1>2. \/ request[r].at = "review" /\ processedTotal' = processedTotal /\ answered' = answered
      \/ /\ request[r].at = "flag" /\ processedTotal' = processedTotal + 1
         /\ answered' = answered \cup {answer}
  BY DEF ReviewSubmitted, FlagSubmitted
<1>3. /\ f \in 1..submitted /\ d \in DecisionId /\ submitted \in 0..MaxFeedback
      /\ request[r].at = "flag" => Complete(d)
  BY <1>1 DEF IInv, FreshIds, FlagsAreComplete, TypeOK
<1>4. /\ item \in [id : 1..submitted, decision : DecisionId] /\ item.id = f /\ item.decision = d
      /\ answer \in [decision : DecisionId, flagged : BOOLEAN] /\ answer.decision = d /\ answer.flagged
  BY <1>3
<1>5. /\ FeedbackEvent(f) \in Event /\ FeedbackEvent(f).type = "HUMAN_FEEDBACK"
      /\ FeedbackEvent(f).of = f
  BY <1>3, BoundsAssumption DEF FeedbackEvent, Event, FeedbackId
<1> HIDE DEF item, answer
<1>6. /\ request' \in [Request -> RequestRecord] /\ request'[r] = Idle /\ Idle.at = "idle"
      /\ \A s \in Request : s # r => request'[s] = request[s]
      /\ request[r].at # "flag" => Cardinality(Flagging') = Cardinality(Flagging)
      /\ request[r].at = "flag" => Cardinality(Flagging') = Cardinality(Flagging) - 1
  BY <1>1, EndedFacts
<1>7. Cardinality(Flagging) \in Nat /\ Cardinality(Flagging') \in Nat
  <2>1. IsFiniteSet(Flagging')
    BY RequestAssumption, FS_Subset DEF Flagging
  <2> QED BY <2>1, FiniteFacts, FS_CardinalityType DEF IInv
<1>8. Counted'
  BY <1>1, <1>2, <1>6, <1>7 DEF IInv, Counted, TypeOK
<1>9. TypeOK'
  <2>1. processedTotal' \in 0..decisionsTotal'
    <3>1. decisionsTotal \in Nat /\ processedTotal \in Nat /\ Cardinality(Flagging) \in Nat
      BY <1>7, BoundsAssumption DEF IInv, TypeOK
    <3>2. processedTotal' \in Nat /\ processedTotal' + Cardinality(Flagging') <= decisionsTotal'
      BY <1>2, <1>8, <3>1 DEF Counted
    <3> QED BY <1>1, <1>7, <3>1, <3>2
  <2>2. answered' \subseteq [decision : DecisionId, flagged : BOOLEAN]
    BY <1>2, <1>4 DEF IInv, TypeOK
  <2>3. feedback' \subseteq [id : 1..submitted', decision : DecisionId]
    BY <1>1, <1>4 DEF IInv, TypeOK
  <2>4. /\ emitted' \subseteq Event /\ pending' \subseteq emitted' /\ log' \subseteq emitted'
        /\ dropped' \subseteq emitted' /\ failed' \subseteq emitted' /\ lost' \subseteq emitted'
    BY <1>1, <1>5 DEF IInv, TypeOK
  <2> QED BY <1>1, <1>6, <2>1, <2>2, <2>3, <2>4 DEF IInv, TypeOK, RequestRecord, Awaits
<1>10. FreshIds'
  <2>1. \A s \in Request : s # r /\ request[s].at \in Submits => request[s].feedback # f
    BY <1>1 DEF IInv, FreshIds
  <2>2. \A s \in Request : request'[s].at \in Submits =>
          /\ request'[s].feedback \in 1..submitted' /\ request'[s].decision \in DecisionId
          /\ \A g \in feedback' : g.id # request'[s].feedback
    BY <1>1, <1>4, <1>6, <2>1 DEF IInv, FreshIds, Submits
  <2> QED BY <1>1, <1>6, <2>2 DEF IInv, FreshIds, Saves, Submits
<1>11. \A q : Complete(q) => Complete(q)'
  BY <1>1, CompleteKept
<1>12. FlagsAreComplete' /\ Stages'
  BY <1>1, <1>6, <1>11 DEF IInv, FlagsAreComplete, Stages
<1>13. NothingAheadOfTheRow'
  <2>1. \A a \in answered' : a.decision \in rows'
    BY <1>1, <1>2, <1>3, <1>4 DEF IInv, NothingAheadOfTheRow, Complete
  <2>2. \A e \in emitted' :
          IF e.type = "HUMAN_FEEDBACK" THEN \E g \in feedback' : g.id = e.of
                                       ELSE e.of \in rows'
    <3>1. \A e \in emitted :
            IF e.type = "HUMAN_FEEDBACK" THEN \E g \in feedback : g.id = e.of
                                         ELSE e.of \in rows
      BY DEF IInv, NothingAheadOfTheRow
    <3> QED BY <1>1, <1>4, <1>5, <3>1
  <2> QED BY <1>1, <2>1, <2>2 DEF IInv, NothingAheadOfTheRow
<1>14. AnsweredIsComplete'
  <2>1. ASSUME NEW a \in answered
        PROVE  /\ Complete(a.decision)'
               /\ a.flagged => \E g \in feedback' : /\ g.decision = a.decision
                                                    /\ FeedbackEvent(g.id) \in emitted'
    <3>1. Complete(a.decision)
      BY DEF IInv, AnsweredIsComplete, NothingAheadOfTheRow, Complete
    <3>2. a.flagged => \E g \in feedback : /\ g.decision = a.decision
                                           /\ FeedbackEvent(g.id) \in emitted
      BY DEF IInv, AnsweredIsComplete
    <3> QED BY <1>1, <1>11, <3>1, <3>2
  <2>2. ASSUME answered' = answered \cup {answer}, request[r].at = "flag"
        PROVE  /\ Complete(answer.decision)'
               /\ \E g \in feedback' : /\ g.decision = answer.decision
                                       /\ FeedbackEvent(g.id) \in emitted'
    <3>1. Complete(d)'
      BY <1>3, <1>11, <2>2
    <3>2. item \in feedback' /\ FeedbackEvent(item.id) \in emitted'
      BY <1>1, <1>4
    <3> QED BY <1>4, <3>1, <3>2
  <2>3. ASSUME NEW a \in answered'
        PROVE  /\ Complete(a.decision)'
               /\ a.flagged => \E g \in feedback' : /\ g.decision = a.decision
                                                    /\ FeedbackEvent(g.id) \in emitted'
    BY <1>2, <2>1, <2>2
  <2> QED BY <2>3 DEF AnsweredIsComplete, Complete, DecisionEvents, FeedbackEvent
<1> QED BY <1>8, <1>9, <1>10, <1>12, <1>13, <1>14 DEF IInv

--------------------------------------------------------------------------------

\* The reflection moves a decision from waiting to outcomes, if its row is there, or overlooks it.
LEMMA ReflectStep ==
    ASSUME IInv, NEW d \in waiting, Reflect(d)
    PROVE  IInv'
<1>1. /\ waiting' = waiting \ {d}
      /\ \/ outcomes' = outcomes /\ overlooked' = overlooked \cup {d}
         \/ outcomes' = outcomes \cup {d} /\ overlooked' = overlooked /\ d \in rows
      /\ UNCHANGED <<app, request, drawn, submitted, rows, demos, feedback, answered,
                     decisionsTotal, processedTotal, emitted, pending, log, dropped, failed,
                     lost, ends>>
  BY DEF Reflect, counters, trail
<1>2. IsFiniteSet(waiting) /\ Cardinality(waiting) \in Nat
  BY FiniteFacts DEF IInv
<1>3. Cardinality(waiting') = Cardinality(waiting) - 1
  BY <1>1, <1>2, FS_RemoveElement
<1>4. TypeOK'
  <2>1. Cardinality(waiting') <= ReflectMax + 1
    BY <1>2, <1>3, ReflectAssumption DEF IInv, TypeOK
  <2> QED BY <1>1, <2>1 DEF IInv, TypeOK
<1>5. waiting \cup outcomes \cup overlooked \subseteq waiting' \cup outcomes' \cup overlooked'
  BY <1>1
<1>6. \A q : Complete(q) => Complete(q)'
  BY <1>1, <1>5, CompleteKept
<1>7. FlagsAreComplete' /\ Stages'
  BY <1>1, <1>6 DEF IInv, FlagsAreComplete, Stages
<1>8. Counted' /\ FreshIds'
  BY <1>1 DEF IInv, Counted, Flagging, FreshIds
<1>9. NothingAheadOfTheRow'
  BY <1>1 DEF IInv, NothingAheadOfTheRow
<1>10. AnsweredIsComplete'
  BY <1>1, <1>5 DEF IInv, AnsweredIsComplete, DecisionEvents, FeedbackEvent
<1> QED BY <1>4, <1>7, <1>8, <1>9, <1>10 DEF IInv

\* What the audit writer does with an event concerns none of the others.
LEMMA SettleStep ==
    ASSUME IInv, NEW e \in pending, Settle(e)
    PROVE  IInv'
<1>1. /\ UNCHANGED <<app, request, drawn, submitted, rows, outcomes, demos, feedback, waiting,
                     overlooked, answered, decisionsTotal, processedTotal, emitted, ends>>
      /\ pending' = pending \ {e} /\ lost' = lost
      /\ log' \in {log, log \cup {e}} /\ dropped' \in {dropped, dropped \cup {e}}
      /\ failed' \in {failed, failed \cup {e}}
  BY DEF Settle, Trail!Record, Trail!Drop, Trail!Refuse, store, counters
<1>2. TypeOK'
  BY <1>1 DEF IInv, TypeOK
<1>3. FreshIds' /\ FlagsAreComplete' /\ Stages' /\ Counted'
  BY <1>1 DEF IInv, FreshIds, FlagsAreComplete, Stages, Counted, Flagging, Complete, DecisionEvents
<1>4. NothingAheadOfTheRow' /\ AnsweredIsComplete'
  BY <1>1 DEF IInv, NothingAheadOfTheRow, AnsweredIsComplete, DecisionEvents, FeedbackEvent
<1> QED BY <1>2, <1>3, <1>4 DEF IInv

\* The lifespan leaves a stage only when what the next one relies on is done.
LEMMA LifespanStep ==
    ASSUME IInv, Startup \/ Shutdown \/ ReflectionStopped \/ StoreClosed
    PROVE  IInv'
<1>1. /\ UNCHANGED <<request, drawn, submitted, rows, outcomes, demos, feedback, waiting,
                     overlooked, answered, decisionsTotal, processedTotal, emitted, pending,
                     log, dropped, failed, lost, ends>>
      /\ app' \in Apps
  BY DEF Startup, Shutdown, ReflectionStopped, StoreClosed, Lifespan, Apps, store, counters, trail
<1>2. Stages'
  BY <1>1 DEF IInv, Stages, Startup, Shutdown, ReflectionStopped, StoreClosed, Lifespan
<1>3. TypeOK'
  BY <1>1 DEF IInv, TypeOK, Apps
<1>4. FreshIds' /\ FlagsAreComplete' /\ Counted'
  BY <1>1 DEF IInv, FreshIds, FlagsAreComplete, Counted, Flagging, Complete, DecisionEvents
<1>5. NothingAheadOfTheRow' /\ AnsweredIsComplete'
  BY <1>1 DEF IInv, NothingAheadOfTheRow, AnsweredIsComplete, DecisionEvents, FeedbackEvent
<1> QED BY <1>2, <1>3, <1>4, <1>5 DEF IInv

\* A crash may keep rows and feedback items that were being written, and forgets the rest.
LEMMA EndProcessStep ==
    ASSUME IInv, EndProcess
    PROVE  IInv'
<1>1. /\ app' = "down" /\ ends' = ends + 1 /\ ends < MaxEnds
      /\ request' = [r \in Request |-> Idle]
      /\ overlooked' = overlooked \cup waiting /\ waiting' = {}
      /\ decisionsTotal' = 0 /\ processedTotal' = 0
      /\ lost' = lost \cup pending /\ pending' = {}
      /\ UNCHANGED <<drawn, submitted, outcomes, answered, emitted, log, dropped, failed>>
  BY DEF EndProcess, Trail!End
<1>2. PICK S \in SUBSET {r \in Request : request[r].at \in Saves} :
         /\ rows' = rows \cup {request[r].decision : r \in S}
         /\ demos' = demos \cup {request[r].decision :
                                    r \in {s \in S : request[s].at = "demo_save"}}
  BY DEF EndProcess, Saves
<1>3. PICK T \in SUBSET {r \in Request : request[r].at \in Submits} :
         feedback' = feedback \cup {[id |-> request[r].feedback,
                                     decision |-> request[r].decision] : r \in T}
  BY DEF EndProcess, Submits
<1>4. \A r \in Request : request'[r] = Idle /\ request'[r].at = "idle"
  BY <1>1 DEF Idle
<1>5. /\ drawn \in Nat /\ rows \subseteq 1..drawn /\ demos \subseteq rows
      /\ \A r \in S : request[r].decision \in 1..drawn
  BY <1>2, BoundsAssumption DEF IInv, TypeOK, FreshIds
<1>6. rows' \subseteq 1..drawn /\ demos' \subseteq rows' /\ rows \subseteq rows'
  BY <1>2, <1>5
<1>7. Flagging' = {} /\ Cardinality(Flagging') = 0 /\ Cardinality(waiting') = 0
  BY <1>1, <1>4, FS_EmptySet DEF Flagging
<1>8. Cardinality(rows') \in Nat
  <2>1. IsFiniteSet(1..drawn)
    BY <1>5, FS_Interval
  <2>2. IsFiniteSet(rows')
    BY <1>6, <2>1, FS_Subset
  <2> QED BY <2>2, FS_CardinalityType
<1>9. TypeOK'
  <2>1. request' \in [Request -> RequestRecord]
    BY <1>1 DEF Idle, RequestRecord, Awaits
  <2>2. feedback' \subseteq [id : 1..submitted', decision : DecisionId]
    <3>1. \A r \in T : request[r].feedback \in 1..submitted /\ request[r].decision \in DecisionId
      BY <1>3 DEF IInv, FreshIds
    <3>2. feedback \subseteq [id : 1..submitted, decision : DecisionId]
      BY DEF IInv, TypeOK
    <3> QED BY <1>1, <1>3, <3>1, <3>2
  <2>3. ends' \in 0..MaxEnds /\ Cardinality(waiting') <= ReflectMax + 1
        /\ decisionsTotal' \in 0..MaxDecisions /\ processedTotal' \in 0..decisionsTotal'
    BY <1>1, <1>7, BoundsAssumption, ReflectAssumption DEF IInv, TypeOK
  <2> QED BY <1>1, <1>6, <2>1, <2>2, <2>3 DEF IInv, TypeOK, RequestRecord, Awaits
<1>10. FreshIds' /\ FlagsAreComplete' /\ Stages'
  BY <1>1, <1>4 DEF FreshIds, FlagsAreComplete, Stages, Saves, Submits
<1>11. Counted'
  BY <1>1, <1>7, <1>8 DEF Counted
<1>12. feedback \subseteq feedback'
  BY <1>3
<1>13. NothingAheadOfTheRow'
  BY <1>1, <1>6, <1>12 DEF IInv, NothingAheadOfTheRow
<1>14. AnsweredIsComplete'
  BY <1>1, <1>12 DEF IInv, AnsweredIsComplete, DecisionEvents, FeedbackEvent
<1> QED BY <1>9, <1>10, <1>11, <1>13, <1>14 DEF IInv

\* So does a step that changes nothing.
LEMMA StutterStep ==
    ASSUME IInv, UNCHANGED vars
    PROVE  IInv'
BY DEF IInv, TypeOK, FreshIds, FlagsAreComplete, Stages, Counted, Flagging, Complete,
       NothingAheadOfTheRow, AnsweredIsComplete, DecisionEvents, FeedbackEvent,
       vars, store, counters, trail

\* Every step of the server preserves the inductive invariant.
LEMMA NextIInv == IInv /\ [Next]_vars => IInv'
<1> SUFFICES ASSUME IInv, [Next]_vars
             PROVE  IInv'
  OBVIOUS
<1>1. ASSUME NEW r \in Request, Ingest(r) \/ BootstrapDemo(r)
      PROVE  IInv'
  BY <1>1, CallStep DEF Ingest, BootstrapDemo
<1>2. ASSUME NEW r \in Request, NEW d \in DecisionId, Review(r, d)
      PROVE  IInv'
  BY <1>2, ReviewStep
<1>3. ASSUME NEW r \in Request, Step(r)
      PROVE  IInv'
  <2>1. ASSUME NEW flagged \in BOOLEAN, Decided(r, flagged)
        PROVE  IInv'
    BY <2>1, DecidedStep
  <2>2. CASE DecideRaises(r)
    BY <2>2, RaisesStep DEF DecideRaises
  <2>3. CASE SubmitRaises(r)
    BY <2>3, RaisesStep DEF SubmitRaises
  <2>4. CASE SavedAndAnswers(r)
    BY <2>4, SavedAndAnswersStep
  <2>5. CASE SavedAndFlags(r)
    BY <2>5, SavedAndFlagsStep
  <2>6. CASE DemoSaved(r)
    BY <2>6, DemoSavedStep
  <2>7. CASE SaveRaises(r)
    BY <2>7, SaveRaisesStep
  <2>8. CASE ReviewSubmitted(r) \/ FlagSubmitted(r)
    BY <2>8, SubmittedStep
  <2> QED BY <1>3, <2>1, <2>2, <2>3, <2>4, <2>5, <2>6, <2>7, <2>8 DEF Step
<1>4. ASSUME NEW d \in waiting, Reflect(d)
      PROVE  IInv'
  BY <1>4, ReflectStep
<1>5. ASSUME NEW e \in pending, Settle(e)
      PROVE  IInv'
  BY <1>5, SettleStep
<1>6. CASE Startup \/ Shutdown \/ ReflectionStopped \/ StoreClosed
  BY <1>6, LifespanStep
<1>7. CASE EndProcess
  BY <1>7, EndProcessStep
<1>8. CASE Rest \/ UNCHANGED vars
  BY <1>8, StutterStep DEF Rest
<1> QED BY <1>1, <1>2, <1>3, <1>4, <1>5, <1>6, <1>7, <1>8 DEF Next

\* The inductive invariant of the server holds at every moment of every execution.
THEOREM PipelineIInv == Spec => []IInv
BY InitIInv, NextIInv, PTL DEF Spec

\* Every variable keeps its type; at most one decision more than the queue holds waits for
\* reflection, and no more decisions are counted as processed than as made (main.py:266-287).
THEOREM PipelineTypeOK == Spec => []TypeOK
<1>1. IInv => TypeOK
  BY DEF IInv
<1> QED BY <1>1, PipelineIInv, PTL

\* Persist before emit, enqueue and answer: nothing speaks of a row that is not stored
\* (decision_loop.py:158-174, main.py:260-279, feedback/api.py:47-55).
THEOREM PipelineNothingAheadOfTheRow == Spec => []NothingAheadOfTheRow
<1>1. IInv => NothingAheadOfTheRow
  BY DEF IInv
<1> QED BY <1>1, PipelineIInv, PTL

\* An answered decision has gone through audit, reflection queue and review queue, whatever
\* raises or crashes after it (main.py:266-287).
THEOREM PipelineAnsweredIsComplete == Spec => []AnsweredIsComplete
<1>1. IInv => AnsweredIsComplete
  BY DEF IInv
<1> QED BY <1>1, PipelineIInv, PTL

\* From the moment the audit writer is being stopped, no step emits, stores or updates:
\* requests are over and the reflection loop is empty (main.py:206-213).
THEOREM PipelineNothingAfterStop == Spec => NothingAfterStop
<1> DEFINE Quiet == (app \in {"auditing", "closed"}) => UNCHANGED <<emitted, rows, outcomes, feedback>>
<1>1. IInv /\ [Next]_vars => [Quiet]_vars
  <2> SUFFICES ASSUME IInv, [Next]_vars, app \in {"auditing", "closed"}
               PROVE  UNCHANGED <<emitted, rows, outcomes, feedback>>
    OBVIOUS
  <2>1. waiting = {} /\ \A r \in Request : request[r].at = "idle"
    BY DEF IInv, Stages
  <2>2. ASSUME NEW r \in Request
        PROVE  /\ ~Ingest(r) /\ ~BootstrapDemo(r) /\ ~Step(r)
               /\ \A d \in DecisionId : ~Review(r, d)
    BY <2>1 DEF Ingest, BootstrapDemo, Call, Review, Step, Decided, DecideRaises,
                SavedAndAnswers, SavedAndFlags, Saved, DemoSaved, SaveRaises,
                ReviewSubmitted, FlagSubmitted, SubmitRaises
  <2>3. ASSUME NEW e \in pending, Settle(e)
        PROVE  UNCHANGED <<emitted, rows, outcomes, feedback>>
    BY <2>3 DEF Settle, store, Trail!Record, Trail!Drop, Trail!Refuse
  <2>4. CASE Startup \/ Shutdown \/ ReflectionStopped \/ StoreClosed
    BY <2>4 DEF Startup, Shutdown, ReflectionStopped, StoreClosed, Lifespan, store, trail
  <2>5. CASE EndProcess
    <3>1. rows' = rows
      BY <2>1, <2>5 DEF EndProcess
    <3>2. feedback' = feedback
      BY <2>1, <2>5 DEF EndProcess
    <3> QED BY <2>5, <3>1, <3>2 DEF EndProcess, Trail!End
  <2>6. CASE Rest \/ UNCHANGED vars
    BY <2>6 DEF Rest, vars, store, trail
  <2> QED BY <2>1, <2>2, <2>3, <2>4, <2>5, <2>6 DEF Next
<1>2. Spec => [][Quiet]_vars
  BY <1>1, PipelineIInv, PTL DEF Spec
<1> QED BY <1>2 DEF NothingAfterStop

--------------------------------------------------------------------------------

\* No event that a request is about to emit has been emitted before: ids are drawn once.
EmitsFresh ==
    \A r \in Request :
        /\ request[r].at = "save" => DecisionEvents(request[r].decision) \cap emitted = {}
        /\ request[r].at \in Submits => FeedbackEvent(request[r].feedback) \notin emitted

\* Trail!EmitAll never holds a request back: its guard is a promise the server keeps, since
\* the id of a decision or feedback item is drawn for one request and no other stores it.
THEOREM PipelineEmitsFresh == Spec => []EmitsFresh
<1>1. IInv => EmitsFresh
  <2> SUFFICES ASSUME IInv, NEW r \in Request
               PROVE  /\ request[r].at = "save" => DecisionEvents(request[r].decision) \cap emitted = {}
                      /\ request[r].at \in Submits => FeedbackEvent(request[r].feedback) \notin emitted
    BY DEF EmitsFresh
  <2>1. request[r].at = "save" => request[r].decision \notin rows
    BY DEF IInv, FreshIds, Saves
  <2>2. request[r].at \in Submits => \A f \in feedback : f.id # request[r].feedback
    BY DEF IInv, FreshIds
  <2> QED BY <2>1, <2>2 DEF IInv, NothingAheadOfTheRow, DecisionEvents, FeedbackEvent
<1> QED BY <1>1, PipelineIInv, PTL

\* The server asks nothing of the audit trail that AuditTrail does not allow: every event is
\* emitted once, and what AuditWriter implements is what the server relies on.
THEOREM PipelineUsesTrail == Spec => Trail!TrailSpec
<1>1. Init => Trail!TrailInit
  BY DEF Init
<1>2. IInv' /\ [Next]_vars => [Trail!TrailNext]_(Trail!trailVars)
  <2> SUFFICES ASSUME IInv', [Next]_vars
               PROVE  Trail!TrailNext \/ UNCHANGED trail
    BY DEF Trail!trailVars, trail
  <2>1. ASSUME NEW events, Trail!EmitAll(events)
        PROVE  Trail!TrailNext
    <3>1. events \subseteq emitted'
      BY <2>1 DEF Trail!EmitAll
    <3>2. events \in SUBSET Event
      BY <3>1 DEF IInv, TypeOK
    <3> QED BY <2>1, <3>2 DEF Trail!TrailNext
  <2>2. ASSUME NEW r \in Request, Step(r)
        PROVE  Trail!TrailNext \/ UNCHANGED trail
    BY <2>1, <2>2 DEF Step, Decided, DecideRaises, SavedAndAnswers, SavedAndFlags, Saved,
                      DemoSaved, SaveRaises, ReviewSubmitted, FlagSubmitted, Submitted,
                      SubmitRaises
  <2>3. ASSUME NEW r \in Request,
               Ingest(r) \/ BootstrapDemo(r) \/ \E d \in DecisionId : Review(r, d)
        PROVE  UNCHANGED trail
    BY <2>3 DEF Ingest, BootstrapDemo, Review
  <2>4. ASSUME NEW e \in pending, Settle(e)
        PROVE  Trail!TrailNext
    BY <2>4 DEF Settle, Trail!TrailNext
  <2>5. ASSUME NEW d \in waiting, Reflect(d)
        PROVE  UNCHANGED trail
    BY <2>5 DEF Reflect
  <2>6. CASE EndProcess
    BY <2>6 DEF EndProcess, Trail!TrailNext
  <2>7. CASE Startup \/ Shutdown \/ ReflectionStopped \/ StoreClosed \/ Rest \/ UNCHANGED vars
    BY <2>7 DEF Startup, Shutdown, ReflectionStopped, StoreClosed, Lifespan, Rest, vars
  <2> QED BY <2>2, <2>3, <2>4, <2>5, <2>6, <2>7 DEF Next
<1> QED BY <1>1, <1>2, PipelineIInv, PTL DEF Spec, Trail!TrailSpec
================================================================================
