------------------------------- MODULE MCRunner -------------------------------
(***************************************************************************)
(* Values for the constants of ProductRunner: one treasury calls for either*)
(* trade, its risk reduction in two amounts; the other for one trade.      *)
(***************************************************************************)
EXTENDS ProductRunner

CONSTANTS t1, t2

Trade(strategy, amount) == [strategy |-> strategy, amount |-> amount]
MCOffers ==
  [t \in Treasuries |->
     IF t = t1 THEN {Trade("arbitrage", 1), Trade("riskReduction", 1), Trade("riskReduction", 2)}
     ELSE {Trade("arbitrage", 1)}]
================================================================================
