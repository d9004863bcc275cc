------------------------------ MODULE MCRotation ------------------------------
(* Values for the constants of TreasuryRotation. *)
EXTENDS TreasuryRotation

CONSTANTS t1, t2, t3
================================================================================
