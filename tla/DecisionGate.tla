---------------------------- MODULE DecisionGate ----------------------------
(***************************************************************************)
(* What DecisionLoop.process_one decides for one event, stage by stage:    *)
(* the synthetic CVaR, the reasoner's target, the CVaR gate, the policy,   *)
(* the search, the risk optimizer, and the auto-flag of the answer.        *)
(* Volumes are hundredths of a unit like sizes, and multiples of 50 so     *)
(* that a tenth and 12 % of one are exact.                                 *)
(***************************************************************************)
EXTENDS RiskSelection

CONSTANTS
    MarketEvent,   \* events: [symbol |-> , price |-> , volume |-> ]
    InnerAction    \* what the policy inside a RiskGatedPolicy may propose

\* MarketEvent is validated; sizes of InnerAction are even, so that half of one is exact.
ASSUME GateAssumption ==
    /\ MarketEvent \subseteq [symbol : STRING, price : Nat \ {0}, volume : Nat]
    /\ InnerAction \subseteq [direction : {"BUY", "SELL", "HOLD"}, size : Nat, cvar_impact : Nat]
    /\ \A a \in InnerAction : a.size % 2 = 0

CvarLimit == 50000                  \* DecisionLoop's and should_auto_flag's 0.05
ShockSymbol == "BTCUSD"
ShockThreshold == (60000 * 92) \div 100   \* of a price in units, base_price less 8 %

NoScore == -1

VARIABLES
    event, reasoner, profile, search,  \* the input and the wiring of the loop
    stage,
    limit,       \* effective_cvar_limit
    signals,      \* the score of the trace and its synthetic cvar and drawdown
    target, proposed, optimized,
    source,      \* who made the proposal: "reasoner", "policy" or "search"
    flagged

gateVars == <<event, reasoner, profile, search, stage, limit, signals, target, proposed,
              optimized, source, flagged>>

\* configs/policies; the scaling in halves.
Profile == [ aggressive |-> [cvar_max |-> 100000, drawdown_max |-> 200000, size_scaling |-> 3],
             balanced |-> [cvar_max |-> 50000, drawdown_max |-> 100000, size_scaling |-> 2],
             conservative |-> [cvar_max |-> 20000, drawdown_max |-> 50000, size_scaling |-> 1] ]
NoProfile == "HoldPolicy"

GateInit ==
    /\ event \in MarketEvent /\ search \in BOOLEAN
    /\ reasoner \in {"scenario", "llm", "llm_mock", "noop"}
    /\ profile \in DOMAIN Profile \cup {NoProfile}
    /\ stage = "calc" /\ limit = CvarLimit
    /\ signals = [score |-> NoScore, cvar |-> 0, drawdown |-> 0]
    /\ target = Hold /\ proposed = Hold /\ optimized = Hold /\ source = "none" /\ flagged = FALSE

--------------------------------------------------------------------------------
(* run_event_calcs                                                             *)

\* compute_cvar: minus the mean of the returns up to the 5 % quantile.  Of the eight of
\* Returns, numpy's quantile lies between the two smallest, and above the smallest if they
\* differ: the mean is the smallest.
Cvar(returns) == 0 - Min(returns)

Returns(e) == {-20000, -10000, 0, 10000, -15000, 5000, -30000, e.volume * 10}

Larger(a, b) == IF a > b THEN a ELSE b
Smaller(a, b) == IF a < b THEN a ELSE b

\* compute_drawdown of the curve 100, 102, 101, 100 - 0.0001 price, 99.5
Drawdown(e) == (1000000 * Larger(20 + e.price, 25)) \div 1020

Calc ==
    /\ stage = "calc" /\ stage' = "reason"
    /\ signals' = [signals EXCEPT !.cvar = Cvar(Returns(event)), !.drawdown = Drawdown(event)]
    /\ limit' = Smaller(CvarLimit, Larger(signals'.cvar, 10000))
    /\ UNCHANGED <<event, reasoner, profile, search, target, proposed, optimized, source, flagged>>

(* ReasonerLoop.propose_targets: only the scenario reasoner has a target of     *)
(* its own                                                                      *)

Shock(e) == e.symbol = ShockSymbol /\ e.price * 1000 < ShockThreshold

Propose ==
    /\ stage = "reason" /\ stage' = "select"
    /\ target' = IF reasoner = "scenario" /\ Shock(event)
                 THEN Action("SELL", Larger(10, Smaller(event.volume, 1000)), 40000) ELSE Hold
    /\ signals' = [signals EXCEPT !.score =
                    CASE reasoner = "scenario" -> IF Shock(event) THEN 75 ELSE 90
                      [] reasoner = "llm" -> 80 [] reasoner = "llm_mock" -> 55 [] OTHER -> @]
    /\ UNCHANGED <<event, reasoner, profile, search, limit, proposed, optimized, source, flagged>>

--------------------------------------------------------------------------------
(* The CVaR gate                                                               *)

Feasible(candidates) == Select(candidates, event.price, limit)

SelectTarget ==
    /\ stage = "select" /\ stage' = "policy"
    /\ proposed' = Feasible(<<target>>) /\ source' = "reasoner"
    /\ UNCHANGED <<event, reasoner, profile, search, limit, signals, target, optimized, flagged>>

\* ToolAwarePolicy: synthetic_context holds no last_price, so that the reference price is
\* the event's own and its ActionProposer finds no difference to trade on.
ToolAware == Hold

\* RiskGatedPolicy: the thresholds of the profile, then its scaling.
RiskGated(inner) ==
    IF profile = NoProfile THEN Hold
    ELSE IF \/ inner.cvar_impact > Profile[profile].cvar_max
            \/ signals.drawdown > Profile[profile].drawdown_max
            \/ inner.size = 0
         THEN [Hold EXCEPT !.cvar_impact = inner.cvar_impact]
         ELSE [inner EXCEPT !.size = (@ * Profile[profile].size_scaling) \div 2]

\* A HOLD is handed to the policy, whose proposal does not pass the gate again.
AskPolicy ==
    /\ stage = "policy" /\ stage' = "search"
    /\ IF proposed.direction = "HOLD"
       THEN /\ source' = "policy"
            /\ \E inner \in InnerAction \cup {ToolAware} : proposed' = RiskGated(inner)
       ELSE UNCHANGED <<proposed, source>>
    /\ UNCHANGED <<event, reasoner, profile, search, limit, signals, target, optimized, flagged>>

--------------------------------------------------------------------------------
(* SearchLoop.refine_proposal                                                  *)

\* TrinityPolicyStub: a tenth of the volume, 20 % more to sell.
Candidates == << Action("BUY", event.volume \div 10, NoImpact), Hold,
                 Action("SELL", (12 * event.volume) \div 100, NoImpact) >>

\* MCTSPlanner: every rollout of a node has the same reward, so its mean is that reward.
Reward(a) == CASE a.direction = "BUY" -> a.size * event.price
               [] a.direction = "SELL" -> 0 - a.size * event.price
               [] OTHER -> (a.size * event.price) \div 5
BestNode == LET best == {i \in 1..3 : \A j \in 1..3 : Reward(Candidates[j]) <= Reward(Candidates[i])}
            IN  Candidates[CHOOSE i \in best : \A j \in best : i <= j]

\* The best node comes first; that it is not listed again makes no difference to the first
\* of the largest.
Refine ==
    /\ stage = "search" /\ stage' = "optimize"
    /\ IF search
       THEN /\ proposed' = Feasible(<<BestNode>> \o Candidates)
            /\ source' = "search"
       ELSE UNCHANGED <<proposed, source>>
    /\ UNCHANGED <<event, reasoner, profile, search, limit, signals, target, optimized, flagged>>

KeepImpact(a) == a

\* PassThroughRiskOptimizer keeps the action and its size, and sets cvar_impact to 0.
PassThrough(a) == [a EXCEPT !.cvar_impact = NoImpact]

ShouldAutoFlag(a) == \/ signals.cvar > CvarLimit
                     \/ signals.score # NoScore /\ signals.score < 70
                     \/ a.cvar_impact > CvarLimit

Decide ==
    /\ stage = "optimize" /\ stage' = "decided"
    /\ optimized' = PassThrough(proposed)
    /\ flagged' = ShouldAutoFlag(optimized')
    /\ UNCHANGED <<event, reasoner, profile, search, limit, signals, target, proposed, source>>

GateNext == Calc \/ Propose \/ SelectTarget \/ AskPolicy \/ Refine \/ Decide

GateSpec == GateInit /\ [][GateNext]_gateVars

--------------------------------------------------------------------------------

\* Every variable has its type.
GateTypeOK ==
    /\ stage \in {"calc", "reason", "select", "policy", "search", "optimize", "decided"}
    /\ \A a \in {target, proposed, optimized} :
         a.direction \in {"BUY", "SELL", "HOLD"} /\ a.size \in Nat /\ a.cvar_impact \in Nat
    /\ limit \in 0..CvarLimit /\ source \in {"none", "reasoner", "policy", "search"}

\* No decision risks more than the effective CVaR limit, except one that a RiskGatedPolicy
\* proposed after the gate, within its profile's own thresholds, and that no search replaced;
\* and HOLD is decided over a target or a search candidate only if that does not fit.
LossBounded ==
    stage = "decided" =>
      /\ \/ TailLoss(optimized, event.price) <= limit
         \/ /\ source = "policy" /\ ~search /\ signals.drawdown <= Profile[profile].drawdown_max
            /\ \E inner \in InnerAction :
                 /\ inner.cvar_impact <= Profile[profile].cvar_max
                 /\ 2 * TailLoss(optimized, event.price)
                       = Profile[profile].size_scaling * TailLoss(inner, event.price)
      /\ optimized.direction = "HOLD" =>
           \A a \in (IF search THEN ToSet(Candidates) ELSE {target}) :
              a.direction = "HOLD" \/ TailLoss(a, event.price) > limit

\* The auto-flag flags exactly the decisions of low confidence: the synthetic CVaR of an event
\* never exceeds 0.05, and the risk optimizer has overwritten the action's cvar_impact by then,
\* so that the two CVaR rules of should_auto_flag do not fire (CvarBreachIsFlagged).
FlagMeansLowConfidence ==
    stage = "decided" => (flagged <=> signals.score \in 0..69)

\* "Auto-flagging triggers on CVaR threshold breaches, low LLM confidence, and anomaly scores"
\* (docs/human-validation.md:31; "Return (flag, reason) for CVaR breach", auto_flag.py:13): a
\* decision to trade whose proposal came with a cvar_impact over the threshold is flagged.  The
\* code does not keep it: process_one puts the optimizer's action, whose cvar_impact is 0, in
\* the place of the proposal before should_auto_flag reads it.
CvarBreachIsFlagged ==
    stage = "decided" /\ optimized.size > 0 => (proposed.cvar_impact > CvarLimit => flagged)
================================================================================
