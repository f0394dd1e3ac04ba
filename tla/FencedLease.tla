---------------------------- MODULE FencedLease ----------------------------
(***************************************************************************)
(* What a fenced lease promises, without rows, clocks or renewals.  Each   *)
(* time the lease is taken it gets a new epoch, it is taken only when the  *)
(* last one is over, and a holder is confirmed only in the newest epoch.   *)
(***************************************************************************)
EXTENDS Naturals

CONSTANT Nodes

VARIABLES
  epoch,   \* how often the lease was taken
  valid,   \* whether the newest epoch lasts
  mine,    \* per node: the epoch it works in, 0 when it does not work
  passed   \* the epoch that was confirmed last

vars == <<epoch, valid, mine, passed>>

Init ==
  /\ epoch = 0
  /\ valid = FALSE
  /\ mine = [n \in Nodes |-> 0]
  /\ passed = 0

Take(n) ==
  /\ ~valid
  /\ mine[n] = 0
  /\ epoch' = epoch + 1
  /\ valid' = TRUE
  /\ mine' = [mine EXCEPT ![n] = epoch + 1]
  /\ UNCHANGED passed

\* A node is told that the lease is still its own.
Pass(n) ==
  /\ valid
  /\ mine[n] = epoch
  /\ passed' = epoch
  /\ UNCHANGED <<epoch, valid, mine>>

\* The lease ends on its own, whatever its holder does.
Lapse ==
  /\ valid' = FALSE
  /\ UNCHANGED <<epoch, mine, passed>>

\* A node stops; only the holder of the newest epoch frees the lease.
Leave(n) ==
  /\ mine[n] # 0
  /\ mine' = [mine EXCEPT ![n] = 0]
  /\ valid' = (valid /\ mine[n] # epoch) \/ UNCHANGED valid
  /\ UNCHANGED <<epoch, passed>>

Next ==
  \/ \E n \in Nodes : Take(n) \/ Pass(n) \/ Leave(n)
  \/ Lapse

Spec == Init /\ [][Next]_vars

=============================================================================
