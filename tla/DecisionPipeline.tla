---------------------------- MODULE DecisionPipeline ----------------------------
(***************************************************************************)
(* The server of rada.main: the handlers of POST /ingest, /feedback/submit *)
(* and /bootstrap-demo, DecisionLoop.process_one inside them, and the      *)
(* lifespan, over the decision store, the feedback store, the audit trail  *)
(* (AuditTrail, which AuditWriter implements) and the reflection loop      *)
(* (ReflectionLoop in detail; here its queue, and the rows it updates).    *)
(* A handler runs to its next await in one step.  Decisions and feedback   *)
(* items are numbered in the order their ids are drawn.                    *)
(***************************************************************************)
EXTENDS Integers, FiniteSets

CONSTANTS
    Request,       \* requests that can be in progress at once
    ReflectMax,    \* queue_maxsize of the reflection loop
    MaxDecisions,  \* bound: decisions
    MaxFeedback,   \* bound: feedback items
    MaxEnds        \* bound: process ends

ASSUME RequestAssumption == IsFiniteSet(Request)
ASSUME ReflectAssumption == ReflectMax \in Nat \ {0}
ASSUME BoundsAssumption == MaxDecisions \in Nat /\ MaxFeedback \in Nat /\ MaxEnds \in Nat

DecisionId == 1..MaxDecisions
FeedbackId == 1..MaxFeedback
NoId == 0

Event == [type : {"DECISION", "CALC"}, of : DecisionId]
             \cup [type : {"HUMAN_FEEDBACK"}, of : FeedbackId]
DecisionEvents(d) == {[type |-> "DECISION", of |-> d], [type |-> "CALC", of |-> d]}
FeedbackEvent(f) == [type |-> "HUMAN_FEEDBACK", of |-> f]

VARIABLES
    app,           \* the lifespan: down, serving, reflecting and auditing (in
                   \* their stop()), closed (the store)
    request,       \* per request: at, the await it is in; the decision; the
                   \* feedback item; flagged, what should_auto_flag will say
    drawn,         \* decision ids drawn
    submitted,     \* feedback ids drawn
    rows,          \* decisions stored
    outcomes,      \* decisions whose stored row has an outcome
    demos,         \* those that /bootstrap-demo made
    feedback,      \* rows of human_feedback: id, decision
    waiting,       \* decisions in the reflection loop
    overlooked,    \* those that left it without an outcome: dropped, failed, lost
    answered,      \* decisions a 200 of /ingest named, and whether flagged
    decisionsTotal,  \* rada_decisions_total
    processedTotal,  \* rada_decisions_processed_total
    emitted, pending, log, dropped, failed, lost,  \* the audit trail
    ends           \* process ends so far

trail == <<emitted, pending, log, dropped, failed, lost>>
store == <<rows, outcomes, demos>>
counters == <<decisionsTotal, processedTotal>>
vars == <<app, request, drawn, submitted, store, feedback, waiting, overlooked, answered,
          counters, trail, ends>>

Trail == INSTANCE AuditTrail

Idle == [at |-> "idle", decision |-> NoId, feedback |-> NoId, flagged |-> FALSE]

Init ==
    /\ app = "down" /\ request = [r \in Request |-> Idle]
    /\ drawn = 0 /\ submitted = 0
    /\ rows = {} /\ outcomes = {} /\ demos = {} /\ feedback = {}
    /\ waiting = {} /\ overlooked = {} /\ answered = {}
    /\ decisionsTotal = 0 /\ processedTotal = 0
    /\ Trail!TrailInit
    /\ ends = 0

--------------------------------------------------------------------------------
(* DecisionLoop.process_one, for /ingest ("decide", "save") and for         *)
(* /bootstrap-demo ("demo_decide", "demo_save")                             *)

Call(r, at) ==
    /\ app = "serving" /\ request[r].at = "idle"
    /\ request' = [request EXCEPT ![r].at = at]

Ingest(r) ==
    /\ Call(r, "decide")
    /\ UNCHANGED <<app, drawn, submitted, store, feedback, waiting, overlooked, answered,
                   counters, trail, ends>>

BootstrapDemo(r) ==
    /\ Call(r, "demo_decide")
    /\ UNCHANGED <<app, drawn, submitted, store, feedback, waiting, overlooked, answered,
                   counters, trail, ends>>

\* Mutant of Decided: the audit events are emitted before the decision is stored.
DecidedAudits(r, flagged) ==
    /\ request[r].at \in {"decide", "demo_decide"} /\ drawn < MaxDecisions
    /\ drawn' = drawn + 1
    /\ Trail!EmitAll(DecisionEvents(drawn + 1))
    /\ request' = [request EXCEPT ![r] = [at |-> "save", decision |-> drawn + 1,
                                          feedback |-> NoId, flagged |-> flagged]]
    /\ UNCHANGED <<app, submitted, store, feedback, waiting, overlooked, answered, counters,
                   ends>>

\* The reasoner, the policy, the search and the optimizer have returned: the
\* Decision gets its id, and save_decision is awaited.
Decided(r, flagged) ==
    /\ request[r].at \in {"decide", "demo_decide"} /\ drawn < MaxDecisions
    /\ flagged => request[r].at = "decide"
    /\ drawn' = drawn + 1
    /\ request' = [request EXCEPT
                      ![r] = [at |-> IF @.at = "decide" THEN "save" ELSE "demo_save",
                              decision |-> drawn + 1, feedback |-> NoId,
                              flagged |-> flagged]]
    /\ UNCHANGED <<app, submitted, store, feedback, waiting, overlooked, answered, counters,
                   trail, ends>>

DecideRaises(r) ==
    /\ request[r].at \in {"decide", "demo_decide"}
    /\ request' = [request EXCEPT ![r] = Idle]
    /\ UNCHANGED <<app, drawn, submitted, store, feedback, waiting, overlooked, answered,
                   counters, trail, ends>>

\* reflection.enqueue: whether the consumer holds one of the waiting decisions,
\* or all are in the queue, is not visible here.
Reflectable(d) ==
    \/ /\ Cardinality(waiting) <= ReflectMax
       /\ waiting' = waiting \cup {d}
       /\ UNCHANGED overlooked
    \/ /\ Cardinality(waiting) >= ReflectMax
       /\ overlooked' = overlooked \cup {d}
       /\ UNCHANGED waiting

\* After save_decision nothing suspends until the auto-flag: the two audit events,
\* the counter and the reflection queue belong to the same step.  Without a flag
\* the request is answered in it too.
Saved(r) ==
    LET d == request[r].decision IN
    /\ request[r].at = "save"
    /\ rows' = rows \cup {d}
    /\ Trail!EmitAll(DecisionEvents(d))
    /\ decisionsTotal' = decisionsTotal + 1
    /\ Reflectable(d)
    /\ UNCHANGED <<app, drawn, outcomes, demos, feedback, ends>>

SavedAndAnswers(r) ==
    /\ Saved(r) /\ ~request[r].flagged
    /\ processedTotal' = processedTotal + 1
    /\ answered' = answered \cup {[decision |-> request[r].decision, flagged |-> FALSE]}
    /\ request' = [request EXCEPT ![r] = Idle]
    /\ UNCHANGED submitted

\* Mutant of SavedAndFlags: it answers before the flag is stored.
SavedAndFlagsLater(r) ==
    /\ Saved(r) /\ request[r].flagged /\ submitted < MaxFeedback
    /\ submitted' = submitted + 1
    /\ request' = [request EXCEPT ![r].at = "flag", ![r].feedback = submitted + 1]
    /\ answered' = answered \cup {[decision |-> request[r].decision, flagged |-> TRUE]}
    /\ UNCHANGED processedTotal

SavedAndFlags(r) ==
    /\ Saved(r) /\ request[r].flagged /\ submitted < MaxFeedback
    /\ submitted' = submitted + 1
    /\ request' = [request EXCEPT ![r].at = "flag", ![r].feedback = submitted + 1]
    /\ UNCHANGED <<processedTotal, answered>>

\* The demo has a loop of its own, without audit writer or reflection.
DemoSaved(r) ==
    LET d == request[r].decision IN
    /\ request[r].at = "demo_save"
    /\ rows' = rows \cup {d} /\ demos' = demos \cup {d}
    /\ decisionsTotal' = decisionsTotal + 1 /\ processedTotal' = processedTotal + 1
    /\ request' = [request EXCEPT ![r] = Idle]
    /\ UNCHANGED <<app, drawn, submitted, outcomes, feedback, waiting, overlooked, answered,
                   trail, ends>>

\* The error may come after the commit.
SaveRaises(r) ==
    LET d == request[r].decision IN
    /\ request[r].at \in {"save", "demo_save"}
    /\ \/ rows' = rows /\ demos' = demos
       \/ /\ rows' = rows \cup {d}
          /\ demos' = IF request[r].at = "demo_save" THEN demos \cup {d} ELSE demos
    /\ request' = [request EXCEPT ![r] = Idle]
    /\ UNCHANGED <<app, drawn, submitted, outcomes, feedback, waiting, overlooked, answered,
                   counters, trail, ends>>

--------------------------------------------------------------------------------
(* FeedbackStore.submit, for the auto-flag ("flag") and for an operator      *)
(* ("review")                                                                *)

Review(r, d) ==
    /\ app = "serving" /\ request[r].at = "idle" /\ submitted < MaxFeedback
    /\ submitted' = submitted + 1
    /\ request' = [request EXCEPT ![r] = [at |-> "review", decision |-> d,
                                          feedback |-> submitted + 1, flagged |-> FALSE]]
    /\ UNCHANGED <<app, drawn, store, feedback, waiting, overlooked, answered, counters,
                   trail, ends>>

Submitted(r) ==
    /\ feedback' = feedback \cup {[id |-> request[r].feedback,
                                   decision |-> request[r].decision]}
    /\ Trail!EmitAll({FeedbackEvent(request[r].feedback)})
    /\ request' = [request EXCEPT ![r] = Idle]
    /\ UNCHANGED <<app, drawn, submitted, store, waiting, overlooked, decisionsTotal, ends>>

ReviewSubmitted(r) ==
    /\ request[r].at = "review"
    /\ Submitted(r)
    /\ UNCHANGED <<processedTotal, answered>>

FlagSubmitted(r) ==
    /\ request[r].at = "flag"
    /\ Submitted(r)
    /\ processedTotal' = processedTotal + 1
    /\ answered' = answered \cup {[decision |-> request[r].decision, flagged |-> TRUE]}

\* Mutant of SubmitRaises: a request that failed is counted as processed.
SubmitRaisesCounted(r) ==
    /\ request[r].at \in {"flag", "review"}
    /\ request' = [request EXCEPT ![r] = Idle]
    /\ processedTotal' = processedTotal + 1
    /\ UNCHANGED <<app, drawn, submitted, store, feedback, waiting, overlooked, answered,
                   decisionsTotal, trail, ends>>

\* The request ends with a 500 (or a 409); what was done before stays.
SubmitRaises(r) ==
    /\ request[r].at \in {"flag", "review"}
    /\ request' = [request EXCEPT ![r] = Idle]
    /\ UNCHANGED <<app, drawn, submitted, store, feedback, waiting, overlooked, answered,
                   counters, trail, ends>>

--------------------------------------------------------------------------------
(* The background tasks *)

\* Mutant of Reflect: the first failure ends the consumer.
ReflectUntilFailure(d) ==
    /\ d \in waiting /\ overlooked = {}
    /\ waiting' = waiting \ {d}
    /\ \/ outcomes' = outcomes \cup {d} /\ UNCHANGED overlooked
       \/ overlooked' = overlooked \cup {d} /\ UNCHANGED outcomes
    /\ UNCHANGED <<app, request, drawn, submitted, rows, demos, feedback, answered,
                   counters, trail, ends>>

\* The consumer writes the outcome into the row, or fails at it or before it.
Reflect(d) ==
    /\ d \in waiting
    /\ waiting' = waiting \ {d}
    /\ \/ d \in rows /\ outcomes' = outcomes \cup {d} /\ UNCHANGED overlooked
       \/ overlooked' = overlooked \cup {d} /\ UNCHANGED outcomes
    /\ UNCHANGED <<app, request, drawn, submitted, rows, demos, feedback, answered,
                   counters, trail, ends>>

\* The audit writer settles an event.
Settle(e) ==
    /\ e \in pending
    /\ Trail!Record(e) \/ Trail!Drop(e) \/ Trail!Refuse(e)
    /\ UNCHANGED <<app, request, drawn, submitted, store, feedback, waiting, overlooked,
                   answered, counters, ends>>

--------------------------------------------------------------------------------
(* The lifespan *)

Lifespan(from, to) ==
    /\ app = from /\ app' = to
    /\ UNCHANGED <<request, drawn, submitted, store, feedback, waiting, overlooked, answered,
                   counters, trail, ends>>

Startup == Lifespan("down", "serving")

\* The server lets the requests in progress finish before it shuts down.
Shutdown ==
    /\ \A r \in Request : request[r].at = "idle"
    /\ Lifespan("serving", "reflecting")

\* Mutant of ReflectionStopped: stop() does not wait for the consumer.
ReflectionNotAwaited == Lifespan("reflecting", "auditing")

ReflectionStopped == waiting = {} /\ Lifespan("reflecting", "auditing")

\* AuditWriter.stop may leave overflow events pending.
StoreClosed == Lifespan("auditing", "closed")

\* The exit, or a crash at any point; a save or a submit that is under way may
\* have been committed.  Counters are in memory.
EndProcess ==
    /\ app # "down" /\ ends < MaxEnds
    /\ ends' = ends + 1
    /\ app' = "down"
    /\ \E S \in SUBSET {r \in Request : request[r].at \in {"save", "demo_save"}} :
          /\ rows' = rows \cup {request[r].decision : r \in S}
          /\ demos' = demos \cup {request[r].decision :
                                     r \in {s \in S : request[s].at = "demo_save"}}
    /\ \E S \in SUBSET {r \in Request : request[r].at \in {"flag", "review"}} :
          feedback' = feedback \cup {[id |-> request[r].feedback,
                                      decision |-> request[r].decision] : r \in S}
    /\ request' = [r \in Request |-> Idle]
    /\ overlooked' = overlooked \cup waiting /\ waiting' = {}
    /\ decisionsTotal' = 0 /\ processedTotal' = 0
    /\ Trail!End
    /\ UNCHANGED <<drawn, submitted, outcomes, answered>>

Rest ==
    /\ app \in {"serving", "closed"} /\ \A r \in Request : request[r].at = "idle"
    /\ UNCHANGED vars

Step(r) ==
    \/ \E flagged \in BOOLEAN : Decided(r, flagged)
    \/ DecideRaises(r)
    \/ SavedAndAnswers(r) \/ SavedAndFlags(r) \/ DemoSaved(r) \/ SaveRaises(r)
    \/ ReviewSubmitted(r) \/ FlagSubmitted(r) \/ SubmitRaises(r)

Next ==
    \/ \E r \in Request :
          Ingest(r) \/ BootstrapDemo(r) \/ (\E d \in DecisionId : Review(r, d)) \/ Step(r)
    \/ \E d \in waiting : Reflect(d)
    \/ \E e \in pending : Settle(e)
    \/ Startup \/ Shutdown \/ ReflectionStopped \/ StoreClosed \/ EndProcess \/ Rest

\* Every await of a handler returns or raises (calls have timeouts), the reflection
\* consumer runs, and the audit writer settles its events until it is stopped.
Fairness ==
    /\ \A r \in Request : WF_vars(Step(r))
    /\ WF_vars(\E d \in waiting : Reflect(d))
    /\ WF_vars(app \in {"serving", "reflecting"} /\ \E e \in pending : Settle(e))

Spec == Init /\ [][Next]_vars
FairSpec == Spec /\ Fairness

--------------------------------------------------------------------------------
(* Properties *)

TypeOK ==
    /\ app \in {"down", "serving", "reflecting", "auditing", "closed"}
    /\ request \in [Request -> [at : {"idle", "decide", "demo_decide", "save", "demo_save",
                                      "flag", "review"},
                                decision : DecisionId \cup {NoId},
                                feedback : FeedbackId \cup {NoId},
                                flagged : BOOLEAN]]
    /\ drawn \in 0..MaxDecisions /\ submitted \in 0..MaxFeedback
    /\ rows \subseteq 1..drawn /\ outcomes \subseteq rows /\ demos \subseteq rows
    /\ feedback \subseteq [id : 1..submitted, decision : DecisionId]
    /\ waiting \subseteq DecisionId /\ overlooked \subseteq DecisionId
    /\ Cardinality(waiting) <= ReflectMax + 1
    /\ answered \subseteq [decision : DecisionId, flagged : BOOLEAN]
    /\ decisionsTotal \in 0..MaxDecisions /\ processedTotal \in 0..decisionsTotal
    /\ emitted \subseteq Event /\ pending \subseteq emitted /\ log \subseteq emitted
    /\ dropped \subseteq emitted /\ failed \subseteq emitted /\ lost \subseteq emitted
    /\ ends \in 0..MaxEnds

\* Nothing speaks of a row that is not stored, whatever crashes: an audit event
\* has its decision or feedback row, and reflection and answers name stored
\* decisions (persist before emit, enqueue and answer: decision_loop.py:158-174,
\* main.py:260-279, feedback/api.py:47-55).
NothingAheadOfTheRow ==
    /\ \A e \in emitted :
          IF e.type = "HUMAN_FEEDBACK" THEN \E f \in feedback : f.id = e.of
                                       ELSE e.of \in rows
    /\ waiting \subseteq rows
    /\ \A a \in answered : a.decision \in rows

\* A 200 of /ingest means the pipeline is complete, also after a restart: both
\* audit events were emitted, the reflection loop has or had the decision, and a
\* flagged one is in the review queue with an event of its own.
AnsweredIsComplete ==
    \A a \in answered :
        /\ DecisionEvents(a.decision) \subseteq emitted
        /\ a.decision \in waiting \cup outcomes \cup overlooked
        /\ a.flagged => \E f \in feedback : /\ f.decision = a.decision
                                            /\ FeedbackEvent(f.id) \in emitted

\* Once the audit writer is being stopped, nothing is emitted, stored or updated:
\* the lifespan stops the producers of events and the users of the store first.
NothingAfterStop ==
    [][(app \in {"auditing", "closed"})
           => UNCHANGED <<emitted, rows, outcomes, feedback>>]_vars

\* What was answered is settled: its events are written or counted and it has
\* been reflected on, unless the server is shut down first.
AnsweredEventuallySettled ==
    \A d \in DecisionId :
        (\E a \in answered : a.decision = d)
            ~> \/ DecisionEvents(d) \cap pending = {} /\ d \notin waiting
               \/ app \in {"auditing", "closed"}
================================================================================
