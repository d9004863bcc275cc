--------------------------------- MODULE MCAudit ---------------------------------
(***************************************************************************)
(* Values for the constants of AuditProjection: two transactions with the  *)
(* repository in the database and with the one in memory, and two writers  *)
(* of one transaction's decision in the database.                          *)
(***************************************************************************)
EXTENDS AuditProjection

MCSettings ==
  {[inDatabase |-> TRUE, txs |-> {"a", "b"}, writers |-> {}],
   [inDatabase |-> TRUE, txs |-> {"a"}, writers |-> {"w1", "w2"}],
   [inDatabase |-> FALSE, txs |-> {"a", "b"}, writers |-> {}]}
================================================================================
