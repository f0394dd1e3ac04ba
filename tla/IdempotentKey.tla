--------------------------- MODULE IdempotentKey ---------------------------
(***************************************************************************)
(* What an idempotency key promises, without rows, locks and clocks: one   *)
(* execution at a time, whose answer is kept, is given only to who asks for*)
(* the same, and gives way to nothing but a new execution of the same or to*)
(* being forgotten.  Idempotency implements this.                          *)
(***************************************************************************)
CONSTANTS
  Requests,
  Payloads,
  Nothing    \* no payload

VARIABLES
  running,  \* the executions going on: who, and for which payload
  kept,     \* the payload whose answer is kept
  given     \* the answers given to others, with what they asked for

vars == <<running, kept, given>>

Init ==
  /\ running = {}
  /\ kept = Nothing
  /\ given = {}

Begin(r, p) ==
  /\ running = {}
  /\ kept \in {p, Nothing}
  /\ running' = {[who |-> r, asks |-> p]}
  /\ kept' = Nothing
  /\ UNCHANGED given

\* An execution ends, with an answer to be kept or without.
End(r, p) ==
  /\ running = {[who |-> r, asks |-> p]}
  /\ running' = {}
  /\ kept' \in {p, Nothing}
  /\ UNCHANGED given

Replay ==
  /\ kept # Nothing
  /\ given' = given \cup {[asked |-> kept, answer |-> kept]}
  /\ UNCHANGED <<running, kept>>

Forget ==
  /\ running = {}
  /\ kept' = Nothing
  /\ UNCHANGED <<running, given>>

Next ==
  \/ \E r \in Requests, p \in Payloads : Begin(r, p) \/ End(r, p)
  \/ Replay
  \/ Forget

Spec == Init /\ [][Next]_vars

=============================================================================
