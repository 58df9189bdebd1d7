------------------------- MODULE MCOperationJournal -------------------------
(* Small instances of OperationJournal for TLC. *)
EXTENDS OperationJournal, TLC
=============================================================================
