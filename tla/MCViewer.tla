------------------------------- MODULE MCViewer -------------------------------
(***************************************************************************)
(* Values for the constants of InstanceViewer, and a choice of two         *)
(* questions that share no state: the page of an instance, and the agent's *)
(* strategies with the values of MCStrategies. What is not asked about     *)
(* stays at one of its initial states.                                     *)
(***************************************************************************)
EXTENDS InstanceViewer, MCStrategies

CONSTANTS i1, i2

VARIABLE question

InitQuestion ==
  /\ ViewerInit /\ StrategiesInit /\ question \in {"viewer", "strategies"}
  /\ question = "viewer" => view = CHOOSE v \in Views : TRUE

NextQuestion ==
  /\ \/ question = "viewer" /\ ViewerNext /\ UNCHANGED strategyVars
     \/ question = "strategies" /\ StrategiesNext /\ UNCHANGED viewerVars
  /\ UNCHANGED question

SpecQuestion == InitQuestion /\ [][NextQuestion]_<<viewerVars, strategyVars, question>>
================================================================================
