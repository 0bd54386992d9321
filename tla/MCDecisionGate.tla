---------------------------- MODULE MCDecisionGate ----------------------------
(***************************************************************************)
(* The decision gate on events on both sides of its thresholds, with an    *)
(* inner policy that proposes more CVaR than the auto-flag allows.         *)
(***************************************************************************)
EXTENDS DecisionGate

MCMarketEvent == [symbol : {"BTCUSD", "ETHUSD"}, price : {1, 30, 50, 60}, volume : {0, 50, 500, 5000}]
MCInnerAction == {Action("SELL", 60, 60000), Action("BUY", 0, 0), Action("BUY", 100, 10000)}
================================================================================
