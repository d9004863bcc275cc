------------------------------- MODULE MCSponsor -------------------------------
(* Values for the constants of GasSponsor. *)
EXTENDS GasSponsor

CONSTANTS s1, s2, w1, w2, w3
================================================================================
