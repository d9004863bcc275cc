------------------------------- MODULE MCDemo -------------------------------
(***************************************************************************)
(* Values for the constants of DemoLifecycle: a faucet that can fund two   *)
(* treasuries before one of them is closed.                                *)
(***************************************************************************)
EXTENDS DemoLifecycle, TLC

CONSTANTS t1, t2, t3

Symmetry == Permutations(Treasuries)

Amounts(wctc, stable) == [a \in Assets |-> IF a = "WCTC" THEN wctc ELSE stable]
OneOfEach == Amounts(1, 1)
TwoOfEach == Amounts(2, 2)
OneStable == Amounts(0, 1)
=============================================================================
