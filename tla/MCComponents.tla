----------------------------- MODULE MCComponents -----------------------------
(***************************************************************************)
(* The components that keep to themselves, checked side by side in one     *)
(* run: "which" picks the component that runs, the others stay in one      *)
(* initial state.  Each has its own constants, variables and properties.   *)
(***************************************************************************)
EXTENDS TimescaleStore, EventBus, LlmClient, ContextBudget, MCDecisionGate, ReviewQueue,
        TransferSync, TrainingRun, Evaluation

VARIABLE which
components == {"store", "bus", "llm", "context", "gate", "review", "sync", "train", "eval"}

MCPayload == {[ts |-> 1, policy |-> "p", trace |-> "t"], [ts |-> 2, policy |-> "q", trace |-> "u"]}

\* Prompts of up to three segments; a limit of 1 up to 9 tokens, an override that is cut by the
\* model's window, and a window smaller than the reserve.
MCSegment == [size : {1, 7, 12}, protected : {TRUE}, priority : {1}]
             \cup [size : {1, 7, 14}, protected : {FALSE}, priority : {1, 3}]
MCSegmentLists == {<<>>} \cup [1..2 -> MCSegment] \cup [1..3 -> MCSegment]
MCLimits == [window |-> 20, reserve |-> 2, extra_window |-> 0, extra_reserve |-> 0,
             override |-> 0, max_context_tokens |-> 0, env_cap |-> 0]
MCLimitInputs == {MCLimits, [MCLimits EXCEPT !.window = 3], [MCLimits EXCEPT !.reserve = 30],
                  [MCLimits EXCEPT !.extra_window = 9, !.extra_reserve = 4]}
                 \cup {[MCLimits EXCEPT !.env_cap = n, !.override = 12] : n \in 3..8}

\* One file is of two sizes.
MCFileSize == [f \in LocalFile |-> IF f = AnyFile THEN 2 ELSE 1]

\* An order that fits, one that does not, and one that is as large as the limit allows.
MCOffer == {Action("BUY", 100, 0), Action("SELL", 100, 0), Action("BUY", 9000, 0), Hold}
MCBenchCase == [price : {1, 50}, optimal : {"BUY", "HOLD"}, candidates : [1..2 -> MCOffer]]

\* Callers are interchangeable.
Symmetry == Permutations(Caller)

\* What the components with several initial states are pinned to unless they run.
Pinned ==
    /\ which = "bus" \/ busMode = "inmemory"
    /\ which = "llm" \/ provider = [primary |-> "mock", fallback |-> NoProvider]
    /\ which = "context" \/ (segments = <<>> /\ limits = ResolveLimits(MCLimits))
    /\ which = "gate" \/ /\ event = CHOOSE e \in MarketEvent : TRUE
                         /\ reasoner = "noop" /\ profile = NoProfile /\ search = FALSE
    /\ which = "train" \/ backend = "stub"
    /\ which = "eval" \/ (decisions = <<>> /\ batches = [v \in FullBatch |-> "nobody"])

Init ==
    /\ which \in components /\ Pinned
    /\ StoreInit /\ BusInit /\ LlmInit /\ BudgetInit /\ GateInit /\ ReviewInit /\ SyncInit
    /\ TrainInit /\ EvalInit

RunStore == /\ which = "store" /\ StoreNext
         /\ UNCHANGED <<which, busVars, llmVars, budgetVars, gateVars, reviewVars, syncVars,
                        trainVars, evalVars>>
RunBus == /\ which = "bus" /\ BusNext
       /\ UNCHANGED <<which, storeVars, llmVars, budgetVars, gateVars, reviewVars, syncVars,
                      trainVars, evalVars>>
RunLlm == /\ which = "llm" /\ LlmNext
       /\ UNCHANGED <<which, storeVars, busVars, budgetVars, gateVars, reviewVars, syncVars,
                      trainVars, evalVars>>
RunBudget == /\ which = "context" /\ BudgetNext
          /\ UNCHANGED <<which, storeVars, busVars, llmVars, gateVars, reviewVars, syncVars,
                         trainVars, evalVars>>
RunGate == /\ which = "gate" /\ GateNext
        /\ UNCHANGED <<which, storeVars, busVars, llmVars, budgetVars, reviewVars, syncVars,
                       trainVars, evalVars>>
RunReview == /\ which = "review" /\ ReviewNext
          /\ UNCHANGED <<which, storeVars, busVars, llmVars, budgetVars, gateVars, syncVars,
                         trainVars, evalVars>>
RunSync == /\ which = "sync" /\ SyncNext
        /\ UNCHANGED <<which, storeVars, busVars, llmVars, budgetVars, gateVars, reviewVars,
                       trainVars, evalVars>>
RunTrain == /\ which = "train" /\ TrainNext
         /\ UNCHANGED <<which, storeVars, busVars, llmVars, budgetVars, gateVars, reviewVars,
                        syncVars, evalVars>>
RunEval == /\ which = "eval" /\ EvalNext
            /\ UNCHANGED <<which, storeVars, busVars, llmVars, budgetVars, gateVars, reviewVars,
                           syncVars, trainVars>>

Next == \/ RunStore \/ RunBus \/ RunLlm \/ RunBudget \/ RunGate
        \/ RunReview \/ RunSync \/ RunTrain \/ RunEval

vars == <<which, storeVars, busVars, llmVars, budgetVars, gateVars, reviewVars, syncVars,
          trainVars, evalVars>>
Spec == Init /\ [][Next]_vars

\* Every variable of the component that runs has its type.
ComponentsTypeOK ==
    CASE which = "store" -> StoreTypeOK    [] which = "bus" -> BusTypeOK
      [] which = "llm" -> LlmTypeOK        [] which = "context" -> BudgetTypeOK
      [] which = "gate" -> GateTypeOK      [] which = "review" -> ReviewTypeOK
      [] which = "sync" -> SyncTypeOK      [] which = "train" -> TrainTypeOK
      [] which = "eval" -> EvalTypeOK
================================================================================
