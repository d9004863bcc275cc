-------------------------- MODULE BoundedExecution --------------------------
(***************************************************************************)
(* What a treasury promises about executions, whatever strategies, proofs  *)
(* and proposals it is made of: a key is executed at most once, and in a   *)
(* period no more keys are executed than the cap allows.                   *)
(***************************************************************************)
EXTENDS Naturals

CONSTANTS
  Keys,      (* what may be executed                                       *)
  Periods    (* the periods the cap is counted in                          *)

VARIABLES
  executed,  (* the keys executed so far                                   *)
  used,      (* executions per period                                      *)
  cap        (* executions a period may have; never changes                *)

vars == <<executed, used, cap>>

Init ==
  /\ executed = {}
  /\ used = [t \in Periods |-> 0]
  /\ cap \in Nat

Execute(key, t) ==
  /\ key \notin executed
  /\ used[t] < cap
  /\ executed' = executed \cup {key}
  /\ used' = [used EXCEPT ![t] = @ + 1]
  /\ UNCHANGED cap

Next == \E key \in Keys, t \in Periods : Execute(key, t)

Spec == Init /\ [][Next]_vars
=============================================================================
