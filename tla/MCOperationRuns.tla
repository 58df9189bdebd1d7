------------------------ MODULE MCOperationRuns ------------------------
(***************************************************************************)
(* Three grants of the lease: an operation or a transaction with up to two *)
(* phases and two writes, each linked to a phase or to none, then two      *)
(* recoveries, the second of which may find what the first has left.       *)
(***************************************************************************)
EXTENDS OperationRuns, TLC

TwoRecoveries == <<{"operation", "transaction"}, {"recovery"}, {"recovery"}>>

=============================================================================
