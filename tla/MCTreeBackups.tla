--------------------------- MODULE MCTreeBackups ---------------------------
(* Two backups for the runs of TreeBackups, one of two files and one of the *)
(* first of them.  Contents are interchangeable: no definition names one.   *)
EXTENDS TreeBackups, TLC
CONSTANTS b1, b2

MCEntries == b1 :> <<"p1", "p2">> @@ b2 :> <<"p1">>
Symmetry == Permutations(Contents)
=============================================================================
