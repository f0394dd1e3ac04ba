--------------------------- MODULE MCUsageCleanup ---------------------------
(* Two nodes; a task of two rows and one of one row, which they share.     *)
EXTENDS UsageCleanup, TLC

AllRows == {1, 2}
BothTasks == {1, 2}
SharedRow == 1 :> AllRows @@ 2 :> {2}

=============================================================================
