----------------------------- MODULE ReviewQueue -----------------------------
(***************************************************************************)
(* What reviewers read: the pending list of the feedback store and the     *)
(* audit trail of the audit store, next to those who write to them.  A     *)
(* row carries the time at which it was made, awaits and threads later it  *)
(* is stored: rows and events are not stored in the order of their times.  *)
(***************************************************************************)
EXTENDS Integers, FiniteSets, Sequences

CONSTANTS
    Reviewer,      \* requests that submit feedback or auto-flag at once
    ReviewedId,    \* decision ids
    PageLimit,     \* the limit of list_pending (100)
    ExportLimit,   \* the limit of an export (1000; 10000 of the script)
    MaxRows,       \* bound: rows of human_feedback
    MaxClock       \* bound: the clock

ASSUME LimitAssumption ==
    PageLimit \in Nat \ {0} /\ ExportLimit \in Nat \ {0} /\ MaxClock \in Nat \ {0}
    /\ IsFiniteSet(Reviewer)

Clock == 1..MaxClock
FeedbackAction == {"FLAG", "APPROVE"}   \* REJECT and ANNOTATE are stored like APPROVE
Idle == [at |-> "idle"]

VARIABLES
    clock,
    submission,     \* per request: nothing, a row made, or a row stored
    feedback,       \* human_feedback: [decision, action, ts] in the order inserted
    emitted,        \* HUMAN_FEEDBACK events in the audit writer: [decision, ts], places 1..
    auditEvents     \* audit_events: places of the events that are stored

reviewVars == <<clock, submission, feedback, emitted, auditEvents>>

ReviewInit ==
    /\ clock = 1 /\ submission = [w \in Reviewer |-> Idle]
    /\ feedback = <<>> /\ emitted = <<>> /\ auditEvents = {}

Tick == /\ clock < MaxClock /\ clock' = clock + 1
        /\ UNCHANGED <<submission, feedback, emitted, auditEvents>>

\* submit_feedback, or build_flag_feedback of an ingest: the time is taken here.
MakeFeedback(w) ==
    /\ submission[w] = Idle
    /\ Len(feedback) + Cardinality({v \in Reviewer : submission[v].at = "made"}) < MaxRows
    /\ \E d \in ReviewedId, a \in FeedbackAction :
         submission' = [submission EXCEPT ![w] =
                          [at |-> "made", decision |-> d, action |-> a, ts |-> clock]]
    /\ UNCHANGED <<clock, feedback, emitted, auditEvents>>

Submit(w) ==
    /\ submission[w].at = "made"
    /\ LET made == submission[w]
       IN  feedback' = Append(feedback, [decision |-> made.decision, action |-> made.action,
                                         ts |-> made.ts])
    /\ submission' = [submission EXCEPT ![w].at = "stored"]
    /\ UNCHANGED <<clock, emitted, auditEvents>>

\* sqlite3 raises (a locked or full database): 500, and no audit event.
SubmissionRaises(w) ==
    /\ submission[w].at = "made" /\ submission' = [submission EXCEPT ![w] = Idle]
    /\ UNCHANGED <<clock, feedback, emitted, auditEvents>>

EmitFeedback(w) ==
    /\ submission[w].at = "stored" /\ submission' = [submission EXCEPT ![w] = Idle]
    /\ emitted' = Append(emitted, [decision |-> submission[w].decision, ts |-> clock])
    /\ UNCHANGED <<clock, feedback, auditEvents>>

\* The audit writer (AuditWriter) stores each event at most once, overtaking included;
\* one that it drops is never stored.
AppendEvent ==
    /\ \E i \in DOMAIN emitted \ auditEvents : auditEvents' = auditEvents \cup {i}
    /\ UNCHANGED <<clock, submission, feedback, emitted>>

ReviewNext ==
    \/ Tick \/ AppendEvent
    \/ \E w \in Reviewer : \/ MakeFeedback(w) \/ Submit(w) \/ SubmissionRaises(w)
                           \/ EmitFeedback(w)

ReviewSpec == ReviewInit /\ [][ReviewNext]_reviewVars

--------------------------------------------------------------------------------
(* list_pending                                                                *)

Flags == {i \in DOMAIN feedback : feedback[i].action = "FLAG"}

LastInserted(i, j) == i > j

\* ORDER BY timestamp DESC; rows of one time in any order, here the one inserted first.
Newer(i, j) == \/ feedback[i].ts > feedback[j].ts
               \/ feedback[i].ts = feedback[j].ts /\ i < j

\* LIMIT: the rows with fewer than that many before them.
Page == {i \in Flags : Cardinality({j \in Flags : Newer(j, i)}) < PageLimit}

\* Of the page, the first row of each decision.
ListPending ==
    {i \in Page : \A j \in Page : Newer(j, i) => feedback[j].decision # feedback[i].decision}

--------------------------------------------------------------------------------
(* GET /audit/export and scripts/export_audit.py                               *)

\* A bound of the range: the time on the clock of its zone, as the client wrote it, or
\* nothing.  The zones: none given, UTC (or Z), and one that is a tick ahead of UTC.
Bound == [wall : Clock, zone : {"none", "utc", "ahead"}]
Unbounded == [wall |-> 0, zone |-> "absent"]
Instant(b) == IF b.zone = "ahead" THEN b.wall - 1 ELSE b.wall

\* How a reader hands over the lower bound: as the query parameter `from` or `from_` of the
\* endpoint, or as --from of the script.  The endpoint's parameter is from_, without an alias:
\* it never sees what is sent as `from`.
LowerName == {"from", "from_", "--from"}
LowerBound(name, from) == IF name = "from" THEN Unbounded ELSE from

\* The rows are in UTC, and SQLite compares the ISO texts: the wall times and then the zones,
\* of which "+00:00" is after none and before the one ahead.
TextFrom(ts, b) == b = Unbounded \/ ts > b.wall \/ (ts = b.wall /\ b.zone # "ahead")
TextTo(ts, b) == b = Unbounded \/ ts < b.wall \/ (ts = b.wall /\ b.zone # "none")

Older(i, j) == \/ emitted[i].ts < emitted[j].ts
               \/ emitted[i].ts = emitted[j].ts /\ i < j

ExportRange(from, to) ==
    {i \in auditEvents : TextFrom(emitted[i].ts, from) /\ TextTo(emitted[i].ts, to)}

\* events[:limit]
FirstRows(S) == {i \in S : Cardinality({j \in S : Older(j, i)}) < ExportLimit}

ExportAudit(name, from, to) == FirstRows(ExportRange(LowerBound(name, from), to))

ListForDecision(d) == {i \in auditEvents : emitted[i].decision = d}

--------------------------------------------------------------------------------

\* Every variable has its type.
ReviewTypeOK ==
    /\ clock \in Clock
    /\ \A w \in Reviewer : submission[w].at \in {"idle", "made", "stored"}
    /\ feedback \in Seq([decision : ReviewedId, action : FeedbackAction, ts : Clock])
    /\ emitted \in Seq([decision : ReviewedId, ts : Clock])
    /\ auditEvents \subseteq DOMAIN emitted

\* The review queue shows a newest flag of every decision it lists, once, and leaves a flagged
\* decision out only behind a full page of flags that are no older than its own, whatever
\* was submitted about it since and in whatever order the rows were stored.
PendingHidesOnlyOlder ==
    LET listed == ListPending
    IN  /\ \A i \in listed, j \in Flags :
             feedback[i].decision = feedback[j].decision =>
                feedback[i].ts >= feedback[j].ts /\ (j \in listed => i = j)
        /\ \A j \in Flags :
             \/ \E i \in listed : feedback[i].decision = feedback[j].decision
             \/ Cardinality({i \in Flags : feedback[i].ts >= feedback[j].ts}) > PageLimit

\* The events that a reader means by a range.
Between(from, to) ==
    {i \in auditEvents : /\ from = Unbounded \/ Instant(from) <= emitted[i].ts
                         /\ to = Unbounded \/ emitted[i].ts <= Instant(to)}

\* An export whose bounds, if it has them, are in UTC holds no event outside them, and an event
\* inside them is missing only behind a full export of events that are no newer; a bound
\* without a zone loses nothing but the events of its very moment at the upper end.  All of
\* this if the lower bound is sent as from_ or given to the script: sent as `from` it is no
\* bound, and the export is that of everything up to the upper one (FromIsHonoured).
ExportLosesOnlyNewer ==
    auditEvents # {} =>
      \A from, to \in {Unbounded} \cup {b \in Bound : b.zone # "ahead"}, name \in LowerName :
        LET export == ExportAudit(name, from, to)
            inside == IF name = "from" THEN Between(Unbounded, to) ELSE Between(from, to)
        IN  /\ export \subseteq inside
            /\ \A i \in inside \ export :
                 \/ to.zone = "none" /\ emitted[i].ts = Instant(to)
                 \/ /\ Cardinality(export) = ExportLimit
                    /\ \A k \in export : emitted[k].ts <= emitted[i].ts

\* GET /audit/export?from=&to=&limit= (docs/audit.md:10, tests/integration/test_audit_api.py:67):
\* an export asked for from a moment on holds nothing older.  The code does not keep it:
\* audit/api.py:50 calls the parameter from_.
FromIsHonoured ==
    \A from \in {b \in Bound : b.zone = "utc"} :
      ExportAudit("from", from, Unbounded) \subseteq Between(from, Unbounded)

\* What reviewers read: the two lists lose one end only, and the trail of a decision never
\* has more feedback events than the feedback store has rows for it.
ReadersLoseOneEnd ==
    /\ PendingHidesOnlyOlder /\ ExportLosesOnlyNewer
    /\ \A d \in ReviewedId : Cardinality(ListForDecision(d)) <=
                             Cardinality({i \in DOMAIN feedback : feedback[i].decision = d})
================================================================================
