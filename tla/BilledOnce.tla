----------------------------- MODULE BilledOnce -----------------------------
(***************************************************************************)
(* What usage billing promises, without tables, retries or deliveries: an  *)
(* event costs its user something once, and whoever is told that it is     *)
(* settled is told the truth.                                              *)
(***************************************************************************)
EXTENDS Integers

CONSTANTS
  Events,   \* billable events
  Bills     \* what each event may cost: a set of integers per event

VARIABLES
  billed,   \* events that have been charged
  balance,  \* what the user has left
  settled   \* events reported as charged

vars == <<billed, balance, settled>>

Init == billed = {} /\ balance \in Int /\ settled = {}

Charge(e) ==
  /\ e \notin billed
  /\ billed' = billed \cup {e}
  /\ \E cost \in Bills[e] : balance' = balance - cost
  /\ UNCHANGED settled

Report(e) ==
  /\ e \in billed
  /\ settled' = settled \cup {e}
  /\ UNCHANGED <<billed, balance>>

Next == \E e \in Events : Charge(e) \/ Report(e)

Spec == Init /\ [][Next]_vars

=============================================================================
