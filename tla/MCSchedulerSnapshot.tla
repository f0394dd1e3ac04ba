------------------------ MODULE MCSchedulerSnapshot ------------------------
(* A goroutine that runs only the periodic full rebuild, and one that runs *)
(* any job of a request, of an event or of a rebuild.                      *)
EXTENDS SchedulerSnapshot, TLC

CONSTANTS full, other

Both == {full, other}
OneRebuilder == {full}

=============================================================================
