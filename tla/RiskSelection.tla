----------------------------- MODULE RiskSelection -----------------------------
(***************************************************************************)
(* rada.search.risk_selection: the gate that DecisionLoop, SearchLoop and  *)
(* the evaluations select actions with.  Sizes are hundredths of a unit,   *)
(* prices thousands, losses millionths of the capital of 1,000,000: a tail *)
(* loss is a product of integers.                                          *)
(***************************************************************************)
EXTENDS Integers, SequencesExt

NoImpact == 0
Action(direction, size, impact) == [direction |-> direction, size |-> size, cvar_impact |-> impact]
Hold == Action("HOLD", 0, NoImpact)

\* TailWarpStub.estimate_tail_loss
TailLoss(a, price) == CASE a.direction = "BUY" -> 10 * a.size * price
                        [] a.direction = "SELL" -> 12 * a.size * price
                        [] OTHER -> 0

SelectAny(candidates, price, limit) == candidates[Len(candidates)]

\* select_cvar_feasible_action: the first of the largest that fit.
Select(candidates, price, limit) ==
    LET feasible == {i \in DOMAIN candidates : TailLoss(candidates[i], price) <= limit}
        largest == {i \in feasible : \A j \in feasible : candidates[j].size <= candidates[i].size}
    IN  IF feasible = {} THEN Hold
        ELSE candidates[CHOOSE i \in largest : \A j \in largest : i <= j]
================================================================================
