------------------------------ MODULE Evaluation ------------------------------
(***************************************************************************)
(* The evaluations that run off the server: decisions exported as feedback *)
(* records (export_reflection.py, data.export_batch, data.pipeline,        *)
(* data.cards), the comparison before and after a training on those        *)
(* records (evaluation.pre_post_compare), and the search benchmark         *)
(* (search.eval).  Scores are hundredths; a record is its label score.     *)
(***************************************************************************)
EXTENDS RiskSelection, FiniteSets

CONSTANTS
    MaxDecisions,    \* bound: decisions to export, records of a fixture file, benchmark cases
    QueueLimit,      \* maxsize of a reflection queue (256)
    ExportSize,      \* _EXPORT_BATCH_SIZE (10)
    BenchCase        \* benchmark cases: [price |-> , optimal |-> , candidates |-> ]

ASSUME EvalAssumption ==
    /\ QueueLimit \in Nat \ {0} /\ ExportSize \in Nat \ {0} /\ MaxDecisions \in Nat
    /\ BenchCase \subseteq [price : Nat \ {0}, optimal : {"BUY", "SELL", "HOLD"},
                           candidates : Seq([direction : {"BUY", "SELL", "HOLD"}, size : Nat,
                                             cvar_impact : Nat])]

BenchLimit == 50000       \* TailWarpStub(cvar_limit=0.05)
StubScore == 90           \* FeedbackRecord.from_decision_stub
Target == 80              \* the default faithfulness_target of a case
NoMetrics == [cases |-> 0, passes |-> 0, audited |-> 0, audits |-> 0, quality |-> 0]
NoAudits == [count |-> 0, sum |-> 0]
NoBench == [cases |-> 0, regrets |-> 0, breaches |-> 0, faithful |-> 0]

VARIABLES
    phase,
    decisions,     \* to export: does each have an outcome
    reflectionFile, feedbackFile,   \* rows written, and whether a torn line follows them
    records,       \* what load_jsonl_records returned
    evaluated,     \* records the evaluation under way has gone through
    queued,        \* decisions in the queue of its ReflectionLoop
    audits,        \* the loop's audit_scores: how many, and their sum
    batches,       \* runtime export files of the working directory: version -> last writer
    adapterUsed,   \* "none", "given", "missing" or "trained"
    metrics,       \* [pre, post]: sums, not means
    bench          \* sums of evaluate_cases

exportVars == <<decisions, reflectionFile, feedbackFile>>
compareVars == <<records, evaluated, queued, audits, batches, adapterUsed, metrics>>
evalVars == <<phase, exportVars, compareVars, bench>>

NoFile == [rows |-> -1, torn |-> FALSE]
FullBatch == {v \in 1..MaxDecisions : v % ExportSize = 0}
UpTo(n, S) == UNION {[1..k -> S] : k \in 0..n}

\* The working directory may be that of a server, whose runtime exports are there.
EvalInit ==
    /\ phase = "start" /\ decisions \in UpTo(MaxDecisions, BOOLEAN)
    /\ reflectionFile = NoFile /\ feedbackFile = NoFile
    /\ records = <<>> /\ evaluated = 0 /\ queued = 0 /\ audits = NoAudits
    /\ batches \in [FullBatch -> {"nobody", "server"}]
    /\ adapterUsed = "none" /\ bench = NoBench
    /\ metrics = [pre |-> NoMetrics, post |-> NoMetrics]

--------------------------------------------------------------------------------
(* The export                                                                  *)

\* export_reflection.py gives every decision the outcome it may lack, and ...
FillOutcomes(ds) == [i \in DOMAIN ds |-> TRUE]

\* ... the filter stage of export.yaml (require_outcome) drops those without one.
Exported == Cardinality({i \in DOMAIN decisions : FillOutcomes(decisions)[i]})
Rows(n, torn) == [rows |-> n, torn |-> torn]

BeginExport ==
    /\ phase = "start" /\ decisions # <<>>
    /\ phase' = "reflectionRows" /\ reflectionFile' = Rows(0, FALSE)
    /\ UNCHANGED <<decisions, feedbackFile, compareVars, bench>>

\* The rows of the reflection file are written, then those of the feedback file.
WriteReflectionRows ==
    /\ phase = "reflectionRows" /\ phase' = "feedbackRows"
    /\ reflectionFile' = Rows(Exported, FALSE) /\ feedbackFile' = Rows(0, FALSE)
    /\ UNCHANGED <<decisions, compareVars, bench>>

WriteFeedbackRows ==
    /\ phase = "feedbackRows" /\ phase' = "exported"
    /\ feedbackFile' = Rows(Exported, FALSE)
    /\ UNCHANGED <<decisions, reflectionFile, compareVars, bench>>

\* A kill or a full disk leaves some of the file that is being written.
ExportDies ==
    /\ phase \in {"reflectionRows", "feedbackRows"} /\ phase' = "exported"
    /\ \E n \in 0..Exported, torn \in BOOLEAN :
         /\ n = Exported => ~torn
         /\ IF phase = "reflectionRows"
            THEN reflectionFile' = Rows(n, torn) /\ UNCHANGED feedbackFile
            ELSE feedbackFile' = Rows(n, torn) /\ UNCHANGED reflectionFile
    /\ UNCHANGED <<decisions, compareVars, bench>>

--------------------------------------------------------------------------------
(* run_pre_post_compare                                                        *)

\* load_jsonl_records: of an export, complete or not, or of a file of fixtures.
LoadRecords ==
    /\ \/ /\ phase = "exported" /\ feedbackFile # NoFile /\ ~feedbackFile.torn
          /\ records' = [i \in 1..feedbackFile.rows |-> StubScore]
       \/ /\ phase = "start" /\ decisions = <<>>
          /\ records' \in UpTo(MaxDecisions, {40, StubScore})
    /\ phase' = "pre"
    /\ UNCHANGED <<exportVars, evaluated, queued, audits, batches, adapterUsed, metrics, bench>>

\* There is no file, or a torn line does not validate; an adapter or a directory is missing, a
\* write fails: no report.
CompareRaises ==
    /\ \/ phase \in {"pre", "train", "post"}
       \/ phase = "exported" /\ (feedbackFile = NoFile \/ feedbackFile.torn)
    /\ phase' = "raised"
    /\ UNCHANGED <<exportVars, compareVars, bench>>

\* TraceReasoner, of the backend without and with an adapter.
Faithfulness == IF phase = "post" /\ adapterUsed # "none" THEN 70 ELSE 50

\* process_one, and enqueue: a full queue drops the decision.
EvaluateRecord ==
    /\ phase \in {"pre", "post"} /\ evaluated < Len(records)
    /\ evaluated' = evaluated + 1
    /\ queued' = IF queued < QueueLimit THEN queued + 1 ELSE queued
    /\ UNCHANGED <<phase, exportVars, records, audits, batches, adapterUsed, metrics, bench>>

\* drain_all, once every record is evaluated; each full batch is exported under its version.
DrainOne ==
    /\ phase \in {"pre", "post"} /\ evaluated = Len(records) /\ queued > 0
    /\ queued' = queued - 1
    /\ audits' = [count |-> audits.count + 1, sum |-> audits.sum + Faithfulness]
    /\ batches' = [v \in DOMAIN batches |-> IF v = audits'.count THEN phase ELSE batches[v]]
    /\ UNCHANGED <<phase, exportVars, records, evaluated, adapterUsed, metrics, bench>>

Sum(scores) == FoldSeq(+, 0, scores)
SameLoop(scores) == scores

\* Each evaluation builds a ReflectionLoop of its own.
FreshLoop(scores) == NoAudits

\* _risk_gate_pass_rate: for every record, whatever is in it, the gate selects from a unit to
\* buy at 1000 plus the record's index, and HOLD; the record passes unless that is None.
\* Prices are in units here, and so losses and the limit in billionths.
GateCandidates == <<Action("BUY", 100, NoImpact), Hold>>
NoneSelected == Action("NONE", 0, NoImpact)
GatePasses(rs) ==
    {i \in DOMAIN rs : Select(GateCandidates, 999 + i, 1000 * BenchLimit) # NoneSelected}

\* EvalMetrics as sums.
Measured == [cases |-> Len(records), passes |-> Cardinality(GatePasses(records)),
             quality |-> Sum(records), audited |-> audits.count, audits |-> audits.sum]

MeasurePre ==
    /\ phase = "pre" /\ evaluated = Len(records) /\ queued = 0
    /\ phase' = "train" /\ metrics' = [metrics EXCEPT !.pre = Measured]
    /\ evaluated' = 0 /\ audits' = FreshLoop(audits)
    /\ UNCHANGED <<exportVars, records, queued, batches, adapterUsed, bench>>

\* --adapter, a training with the stub backend, or --no-train: the backend stays the same.
ObtainAdapter ==
    /\ phase = "train" /\ phase' = "post"
    /\ adapterUsed' \in {"given", "trained", "none"}
    /\ UNCHANGED <<exportVars, records, evaluated, queued, audits, batches, metrics, bench>>

MeasurePost ==
    /\ phase = "post" /\ evaluated = Len(records) /\ queued = 0
    /\ phase' = "reported" /\ metrics' = [metrics EXCEPT !.post = Measured]
    /\ UNCHANGED <<exportVars, records, evaluated, queued, audits, batches, adapterUsed, bench>>

--------------------------------------------------------------------------------

\* evaluate_cases, one case.
Benchmark ==
    /\ phase \in {"start", "bench"} /\ decisions = <<>> /\ phase' = "bench"
    /\ bench.cases < MaxDecisions
    /\ \E c \in BenchCase :
         LET chosen == Select(c.candidates, c.price, BenchLimit)
             regret == IF chosen.direction = c.optimal THEN 0 ELSE 1
             breach == IF TailLoss(chosen, c.price) > BenchLimit THEN 1 ELSE 0
         IN  bench' = [cases |-> bench.cases + 1, regrets |-> bench.regrets + regret,
                       breaches |-> bench.breaches + breach,
                       faithful |-> bench.faithful + (IF regret = 0 THEN 100 ELSE Target)]
    /\ UNCHANGED <<exportVars, compareVars>>

EvalNext ==
    \/ BeginExport \/ WriteReflectionRows \/ WriteFeedbackRows \/ ExportDies
    \/ LoadRecords \/ CompareRaises \/ EvaluateRecord \/ DrainOne
    \/ MeasurePre \/ ObtainAdapter \/ MeasurePost
    \/ Benchmark

EvalSpec == EvalInit /\ [][EvalNext]_evalVars

--------------------------------------------------------------------------------

\* Every variable has its type.
EvalTypeOK ==
    /\ phase \in {"start", "reflectionRows", "feedbackRows", "exported", "pre", "train", "post",
                  "reported", "raised", "bench"}
    /\ {reflectionFile.rows, feedbackFile.rows, Len(records)} \subseteq -1..MaxDecisions
    /\ evaluated \in 0..Len(records) /\ queued \in 0..QueueLimit
    /\ \A v \in DOMAIN batches : batches[v] \in {"nobody", "server", "pre", "post"}
    /\ adapterUsed \in {"given", "trained", "none"}

\* The two evaluations of a comparison keep apart: each audits its own decisions, all that a
\* queue holds and each once, so that the audit score differs by the constant 0.2 and whenever
\* any adapter was loaded; post leaves its runtime exports over those of pre, and over those of
\* a server in that directory.  The CVaR breach rate of the benchmark is 0 and its faithfulness
\* a function of the regret, whatever the candidates.
EvaluationsApart ==
    /\ phase = "reported" =>
         LET held == IF QueueLimit < Len(records) THEN QueueLimit ELSE Len(records)
         IN  /\ metrics.pre.audited = held /\ metrics.post.audited = held
             /\ metrics.pre.audits = 50 * held
             /\ metrics.post.audits = (IF adapterUsed = "none" THEN 50 ELSE 70) * held
             /\ \A v \in DOMAIN batches : batches[v] = "post" <=> v <= held
    /\ bench.breaches = 0 /\ bench.faithful = 100 * bench.cases - (100 - Target) * bench.regrets

\* "Protocol for measuring decision and reflection quality before and after" a training
\* (docs/benchmarks/pre-post-comparison.md:3), which moves risk_gate_pass_rate from 0.65 to 0.78
\* and reflection_quality from 0.68 to 0.81 (TECHNICAL_SPECIFICATION_MODEL_LOADING.md:540-556):
\* after a training the one or the other is not what it was before.  The code does not keep it:
\* both are computed from the records alone (pre_post_compare.py:135-136).
TrainingMovesMetrics ==
    phase = "reported" /\ adapterUsed = "trained" /\ records # <<>> =>
       metrics.post.passes # metrics.pre.passes \/ metrics.post.quality # metrics.pre.quality
================================================================================
