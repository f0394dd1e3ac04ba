----------------------- MODULE MCSystemOperationLock -----------------------
(* System operations of two or three administrators.                       *)
EXTENDS SystemOperationLock, TLC

CONSTANTS update, rollback, restart

Two == {update, rollback}
Three == {update, rollback, restart}

Symmetry == Permutations(Three)

=============================================================================
