------------------------------ MODULE MCOperations ------------------------------
(***************************************************************************)
(* Two questions that share no state: the life cycle of the treasuries of  *)
(* the demonstration (DemoLifecycle), and the operator's scripts.          *)
(***************************************************************************)
EXTENDS MCDemo, DemoOperations

CONSTANTS o1, o2

VARIABLE question

InitQuestion == Init /\ OperationsInit /\ question \in {"lifecycle", "operations"}

NextQuestion ==
  /\ \/ question = "lifecycle" /\ Next /\ UNCHANGED operationsVars
     \/ question = "operations" /\ OperationsNext /\ UNCHANGED vars
  /\ UNCHANGED question

SpecQuestion == InitQuestion /\ [][NextQuestion]_<<vars, operationsVars, question>>

Interchangeable == Permutations(Treasuries) \union Permutations(Terminals)
================================================================================
