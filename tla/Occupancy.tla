------------------------------ MODULE Occupancy ------------------------------
(***************************************************************************)
(* What the floor plan promises: a table serves one visit at a time, its   *)
(* sign says so at every moment, and a visit that has left never returns.  *)
(*                                                                         *)
(* It is the abstract specification that Seating implements.  Locks,       *)
(* refusals, guests and the reconciler do not show here.                   *)
(***************************************************************************)
CONSTANTS Tables, Sessions, Nobody

VARIABLES
  visit,  \* visit[t]: the session the table serves, or Nobody
  sign,   \* sign[t]: what the staff's board shows
  served  \* the sessions that have ever been seated

Init ==
  /\ visit = [t \in Tables |-> Nobody]
  /\ sign = [t \in Tables |-> "available"]
  /\ served = {}

Seat(t, s) ==
  /\ visit[t] = Nobody
  /\ s \notin served
  /\ visit' = [visit EXCEPT ![t] = s]
  /\ sign' = [sign EXCEPT ![t] = "occupied"]
  /\ served' = served \cup {s}

Leave(t) ==
  /\ visit[t] # Nobody
  /\ visit' = [visit EXCEPT ![t] = Nobody]
  /\ sign' = [sign EXCEPT ![t] = "available"]
  /\ UNCHANGED served

Next == \E t \in Tables : Leave(t) \/ \E s \in Sessions : Seat(t, s)

Spec == Init /\ [][Next]_<<visit, sign, served>>

=============================================================================
