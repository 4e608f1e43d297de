------------------------------ MODULE OnceOnly ------------------------------
(***************************************************************************)
(* What an idempotency key promises: a request that arrives twice acts     *)
(* once.  A key is taken before its request acts; whatever the request     *)
(* makes fills the key in the same step, and a key is filled at most once  *)
(* until it is forgotten.                                                  *)
(*                                                                         *)
(* It is the abstract specification that IdempotencyKeys implements.  How  *)
(* a request fails, when rows are deleted and how a retry is answered do   *)
(* not show here.                                                          *)
(***************************************************************************)
CONSTANTS Keys, Resources, Nothing

VARIABLES
  slot,   \* slot[k]: free, taken, or filled with the resource of its request
  made    \* the orders and payments that exist

Free == [state |-> "free", with |-> Nothing]
Taken == [state |-> "taken", with |-> Nothing]
Filled(r) == [state |-> "filled", with |-> r]

Init ==
  /\ slot = [k \in Keys |-> Free]
  /\ made = {}

Take(k) ==
  /\ slot[k] = Free
  /\ slot' = [slot EXCEPT ![k] = Taken]
  /\ UNCHANGED made

\* The request acts: what it makes is new, and fills its key at once.
Make(k, r) ==
  /\ slot[k] = Taken
  /\ r \notin made
  /\ slot' = [slot EXCEPT ![k] = Filled(r)]
  /\ made' = made \cup {r}

\* The request finds that what it asks for exists already.
Attach(k, r) ==
  /\ slot[k] = Taken
  /\ r \in made
  /\ slot' = [slot EXCEPT ![k] = Filled(r)]
  /\ UNCHANGED made

Forget(k) ==
  /\ slot' = [slot EXCEPT ![k] = Free]
  /\ UNCHANGED made

Next ==
  \E k \in Keys :
    \/ Take(k)
    \/ \E r \in Resources : Make(k, r) \/ Attach(k, r)
    \/ Forget(k)

Spec == Init /\ [][Next]_<<slot, made>>

=============================================================================
