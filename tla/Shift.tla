--------------------------------- MODULE Shift ---------------------------------
(***************************************************************************)
(* What staff do with the requests that StaffAccess lets through: the      *)
(* kitchen moves an order along, the floor answers a call for assistance.  *)
(* Each reads the row, consults the table and then updates the row: the    *)
(* order's only if its status is still the one that was read, the call's   *)
(* whatever it is by then.                                                 *)
(***************************************************************************)
EXTENDS StaffAccess, Statuses

CONSTANTS
  Orders,
  Calls,   \* assistance requests
  AskedFor \* bound: the statuses that employees ask for

ASSUME ShiftAssumption == Orders \cap Calls = {} /\ Nothing \notin Orders \cup Calls

VARIABLES
  status, \* of each order and call
  job     \* what each accepted request is about to write

vars == <<accessVars, status, job>>

NoJob == [row |-> Nothing, from |-> "none", to |-> "none"]

Init ==
  /\ AccessInit
  /\ status = [x \in Orders \cup Calls |-> "pending"]
  /\ job = [r \in Requests |-> NoJob]

-----------------------------------------------------------------------------
OrderTransitions ==
  From("pending", {"confirmed", "cancelled"})
    \cup From("confirmed", {"preparing", "cancelled"})
    \cup From("preparing", {"ready", "cancelled"})
    \cup From("ready", {"served"})

\* Slip: a call can be cancelled as an order can.
AssistanceTransitions_Cancel ==
  From("pending", {"acknowledged", "resolved", "cancelled"})
    \cup From("acknowledged", {"resolved", "cancelled"})

AssistanceTransitions ==
  From("pending", {"acknowledged", "resolved"}) \cup From("acknowledged", {"resolved"})

Free(r) == request[r].pc = "accepted" /\ job[r] = NoJob

\* The status an employee asks for is checked against the one that is read.
ReadOrder(r, o, to) ==
  /\ Free(r) /\ <<status[o], to>> \in OrderTransitions
  /\ job' = [job EXCEPT ![r] = [row |-> o, from |-> status[o], to |-> to]]
  /\ UNCHANGED <<accessVars, status>>

ReadCall(r, c, to) ==
  /\ Free(r) /\ <<status[c], to>> \in AssistanceTransitions
  /\ job' = [job EXCEPT ![r] = [row |-> c, from |-> status[c], to |-> to]]
  /\ UNCHANGED <<accessVars, status>>

Finish(r) == job' = [job EXCEPT ![r] = NoJob]

\* Slip: UpdateOrderStatusScoped, which does not name the status it expects.
UpdateOrderStatusExpected_Scoped(r) ==
  /\ job[r].row \in Orders
  /\ status' = [status EXCEPT ![job[r].row] = job[r].to]
  /\ Finish(r) /\ Done(r)

\* No row is updated once the order has moved on, and the request is refused.
UpdateOrderStatusExpected(r) ==
  /\ job[r].row \in Orders
  /\ status' = [status EXCEPT ![job[r].row] = IF @ = job[r].from THEN job[r].to ELSE @]
  /\ Finish(r) /\ Done(r)

UpdateAssistanceStatusScoped(r) ==
  /\ job[r].row \in Calls
  /\ status' = [status EXCEPT ![job[r].row] = job[r].to]
  /\ Finish(r) /\ Done(r)

\* A request that acts takes no other step before it is done, unless its
\* process is gone.
Drop(r) ==
  /\ job[r] # NoJob
  /\ Finish(r) /\ Done(r) /\ UNCHANGED status

Work(r) ==
  \/ \E o \in Orders, to \in AskedFor : ReadOrder(r, o, to)
  \/ \E c \in Calls, to \in AskedFor : ReadCall(r, c, to)
  \/ UpdateOrderStatusExpected(r) \/ UpdateAssistanceStatusScoped(r) \/ Drop(r)

Access == AccessStep /\ UNCHANGED <<status, job>>
            /\ \A r \in Requests : job[r] # NoJob => request'[r] = request[r]

Next == Access \/ \E r \in Requests : Work(r)

Spec == Init /\ [][Next]_vars

-----------------------------------------------------------------------------
TypeOK ==
  /\ AccessTypeOK
  /\ \A o \in Orders : status[o] \in
       {"pending", "confirmed", "preparing", "ready", "served", "cancelled"}
  /\ \A c \in Calls : status[c] \in {"pending", "acknowledged", "resolved"}
  /\ \A r \in Requests : job[r] # NoJob =>
       request[r].pc = "accepted" /\ job[r].row \in Orders \cup Calls

(* However the requests of several employees overlap, an order's ticket moves *)
(* only along the table: a served order is not prepared again, and one that   *)
(* was cancelled while the kitchen had it on screen is not confirmed.         *)
TicketFollowsTable ==
  [][\A o \in Orders : status'[o] # status[o] =>
       <<status[o], status'[o]>> \in OrderTransitions]_status

(* A call that was resolved stays resolved.                                   *)
AssistanceFollowsTable ==
  [][\A c \in Calls : status'[c] # status[c] =>
       <<status[c], status'[c]>> \in AssistanceTransitions]_status

=============================================================================
