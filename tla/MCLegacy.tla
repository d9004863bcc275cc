------------------------------- MODULE MCLegacy -------------------------------
(***************************************************************************)
(* Values for the constants of LegacyRunner. The observer that is watched  *)
(* is the PRICE_CONTRACT, reporting the price of the call or another, or it*)
(* is the repository's own, which no instance reads. One reported price    *)
(* lies within either trade of the destination's prices, the other at one  *)
(* of them; the second tenant's floor lies between its widths, and its     *)
(* drift bound below what lies between the prices of the calls.            *)
(***************************************************************************)
EXTENDS LegacyRunner

CONSTANTS t1, t2

Rails(width, drift) ==
  [maxTradeSize |-> 1000, minArbWidthBps |-> width, maxDriftBps |-> drift,
   maxConfirmGapBlocks |-> 2, maxActionsPerEpoch |-> 1]
MCGuardrails == [t \in Tenants |-> IF t = t1 THEN Rails(80, 250) ELSE Rails(175, 50)]

Call(argument, report) ==
  [to |-> "priceContract", selector |-> "observePrice(uint256)", words |-> <<argument>>,
   priceE6 |-> report]
Observer == [to |-> "observer", selector |-> "observe()", words |-> <<>>, priceE6 |-> 1010]

\* What is watched in each of the deployments.
Deployments == {{Call(1010, 1010), Call(1020, 1030)}, {Observer}}
MCObservations == UNION Deployments
MCFiles == {<<t1, t2>>, <<t1, t1>>, <<>>, None}

VARIABLE watched

InitWatched == Init /\ watched \in Deployments

NextWatched ==
  /\ Next
  /\ events' # events => events'[Len(events')] \in watched \union {None}
  /\ UNCHANGED watched

SpecWatched == InitWatched /\ [][NextWatched]_<<vars, watched>>
================================================================================
