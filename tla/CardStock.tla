------------------------------ MODULE CardStock ------------------------------
(***************************************************************************)
(* What the shop promises about its goods, without statuses, payments or   *)
(* requests.  A card is offered, promised to one order, sold to one order  *)
(* or withdrawn; an order is promised all it bought or nothing; it gets    *)
(* its goods once, a promised card only by its own order; and what was     *)
(* sold stays sold.  ShopDelivery implements this.                         *)
(***************************************************************************)
EXTENDS Naturals, FiniteSets

CONSTANTS
  Orders,
  Cards,
  Quantity   \* how many cards each order buys

VARIABLES
  offered,   \* cards anybody may get
  promised,  \* per order: the cards that wait for its payment
  sold,      \* per order: the cards it got
  credited   \* per order: how often it was given a reward

vars == <<offered, promised, sold, credited>>

Init ==
  /\ offered = Cards
  /\ promised = [o \in Orders |-> {}]
  /\ sold = [o \in Orders |-> {}]
  /\ credited = [o \in Orders |-> 0]

Unserved(o) == sold[o] = {} /\ credited[o] = 0

Bundles(o) == {S \in SUBSET offered : Cardinality(S) = Quantity[o]}

Promise(o) ==
  /\ Unserved(o)
  /\ promised[o] = {}
  /\ \E S \in Bundles(o) :
       /\ offered' = offered \ S
       /\ promised' = [promised EXCEPT ![o] = S]
  /\ UNCHANGED <<sold, credited>>

SellPromised(o) ==
  /\ Unserved(o)
  /\ promised[o] # {}
  /\ sold' = [sold EXCEPT ![o] = promised[o]]
  /\ promised' = [promised EXCEPT ![o] = {}]
  /\ UNCHANGED <<offered, credited>>

SellOffered(o) ==
  /\ Unserved(o)
  /\ promised[o] = {}
  /\ \E S \in Bundles(o) :
       /\ offered' = offered \ S
       /\ sold' = [sold EXCEPT ![o] = S]
  /\ UNCHANGED <<promised, credited>>

Credit(o) ==
  /\ Unserved(o)
  /\ promised[o] = {}
  /\ credited' = [credited EXCEPT ![o] = 1]
  /\ UNCHANGED <<offered, promised, sold>>

\* A promise is taken back as a whole.
Release(o) ==
  /\ promised[o] # {}
  /\ offered' = offered \cup promised[o]
  /\ promised' = [promised EXCEPT ![o] = {}]
  /\ UNCHANGED <<sold, credited>>

\* Admins add and remove cards that are nobody's.
Offer(c) ==
  /\ \A o \in Orders : c \notin promised[o] /\ c \notin sold[o]
  /\ offered' = offered \cup {c}
  /\ UNCHANGED <<promised, sold, credited>>

Withdraw(c) ==
  /\ offered' = offered \ {c}
  /\ UNCHANGED <<promised, sold, credited>>

Next ==
  \/ \E c \in Cards : Withdraw(c) \/ Offer(c)
  \/ \E o \in Orders :
       Promise(o) \/ SellPromised(o) \/ SellOffered(o) \/ Credit(o) \/ Release(o)

Spec == Init /\ [][Next]_vars

=============================================================================
