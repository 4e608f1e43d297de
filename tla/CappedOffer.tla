------------------------------ MODULE CappedOffer ------------------------------
(***************************************************************************)
(* What a promo code promises its owner: it is taken only while it is on,  *)
(* never more often than its limit, and never more often per phone number  *)
(* than its limit for that; the limits may change at any time and bind     *)
(* what is taken from then on.                                             *)
(***************************************************************************)
EXTENDS Integers, FiniteSets

CONSTANTS Tickets, Numbers, NoNumber, Limits, NoLimit

VARIABLES
  offer, \* whether it is on, and its limits; 0 per number is no limit
  taken  \* who took it: one record per ticket

Offers == [active : BOOLEAN, maxUses : Limits \cup {NoLimit}, perPhone : Limits \cup {0}]

By(n) == {x \in taken : x.number = n}

Take(k, n) ==
  /\ offer.active
  /\ \A x \in taken : x.ticket # k
  /\ offer.maxUses # NoLimit => Cardinality(taken) < offer.maxUses
  /\ offer.perPhone > 0 => n # NoNumber /\ Cardinality(By(n)) < offer.perPhone
  /\ taken' = taken \cup {[ticket |-> k, number |-> n]}
  /\ UNCHANGED offer

Change == offer' \in Offers /\ UNCHANGED taken

Init == offer \in Offers /\ taken = {}

Next == Change \/ \E k \in Tickets, n \in Numbers \cup {NoNumber} : Take(k, n)

Spec == Init /\ [][Next]_<<offer, taken>>

=============================================================================
