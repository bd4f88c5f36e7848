------------------------------ MODULE Delivery ------------------------------
(***************************************************************************)
(* What the sync client promises about the events table and the SC Bridge  *)
(* API, without its goroutines, batches, preferences or failures: events   *)
(* reach the API in the order they were stored, except those the player's  *)
(* preferences withheld, and the local record of what has been dealt with  *)
(* never runs ahead of the API.  An event may reach the API more than once *)
(* (at-least-once delivery), which the set `delivered' does not count.     *)
(***************************************************************************)
EXTENDS Naturals

VARIABLES
  stored,     \* how many events have been stored; they are 1 .. stored
  withheld,   \* those a preference check has refused at some time
  delivered,  \* those the API has accepted
  settled     \* those that will not be sent any more

deliveryVars == <<stored, withheld, delivered, settled>>

DeliveryInit ==
  /\ stored = 0
  /\ withheld = {}
  /\ delivered = {}
  /\ settled = {}

\* One more event is stored.
Record ==
  /\ stored' = stored + 1
  /\ UNCHANGED <<withheld, delivered, settled>>

\* A preference check refuses event i.
Withhold(i) ==
  /\ i \in 1 .. stored
  /\ withheld' = withheld \cup {i}
  /\ UNCHANGED <<stored, delivered, settled>>

\* The API accepts the events S, having seen every older one that is due.
Deliver(S) ==
  /\ S \subseteq 1 .. stored
  /\ \A i \in S : 1 .. i \subseteq S \cup delivered \cup withheld
  /\ delivered' = delivered \cup S
  /\ UNCHANGED <<stored, withheld, settled>>

\* The first n events are settled, each accepted or withheld before.
Settle(n) ==
  /\ n \in 1 .. stored
  /\ 1 .. n \subseteq delivered \cup withheld
  /\ settled' = settled \cup 1 .. n
  /\ UNCHANGED <<stored, withheld, delivered>>

DeliveryNext ==
  \/ Record
  \/ \E i \in 1 .. stored : Withhold(i)
  \/ \E S \in SUBSET (1 .. stored) : Deliver(S)
  \/ \E n \in 1 .. stored : Settle(n)

DeliverySpec == DeliveryInit /\ [][DeliveryNext]_deliveryVars
=============================================================================
