----------------------------- MODULE Settlement -----------------------------
(***************************************************************************)
(* One dining session from its first order to its last payment: the        *)
(* session row, its orders, and the payments that bill them.               *)
(*                                                                         *)
(* Every handler of the backend runs in a goroutine of its own and touches *)
(* the database in several statements.  A TASK is such a goroutine, an     *)
(* HTTP request or a worker's tick; the label stage[t] says which          *)
(* statement it executes next.  A database transaction is one step, the    *)
(* one that commits it; what a transaction or a service read earlier       *)
(* without a lock is kept in the task's locals bill[t] and held[t] and may *)
(* be stale by the time it is used.                                        *)
(*                                                                         *)
(* Sources: services/payment.go, services/session.go,                      *)
(* services/session_close.go, services/order.go, worker/worker.go,         *)
(* repository/worker.go and the statements of sql/queries.                 *)
(***************************************************************************)
EXTENDS Statuses, FiniteSets, FiniteSetsExt, Naturals

CONSTANTS
  Orders,      \* identities of the orders the table may place
  Payments,    \* identities of the payments that may be created
  Tasks,       \* concurrent requests and worker ticks
  NoPayment,   \* "no payment is completed yet"
  Price,       \* Price[o] is the total of order o
  StopsAt      \* the statements before which a task may stop: crash, lost client, error

ASSUME PaymentsAssumption == NoPayment \notin Payments
ASSUME PriceAssumption == Price \in [Orders -> Nat \ {0}]

VARIABLES
  sess,      \* sessions.status
  closedBy,  \* the actor of the step that ended the session
  order,     \* order[o]: absent, placed (any live status), or cancelled
  pay,       \* pay[p]: "none" or payments.status
  snap,      \* snap[p]: source_order_ids of the bill snapshot of p
  latest,    \* the payment with the greatest completed_at
  stage,     \* stage[t]: the next statement of task t
  bill,      \* bill[t]: the orders on the bill the handler computed
  held       \* held[t]: the payments the task has read and acts on

vars == <<sess, closedBy, order, pay, snap, latest, stage, bill, held>>
local == <<bill, held>>

Stages ==
  {"idle",
   "order_insert",                                    \* PlaceOrder
   "initiate", "freeze", "insert",                    \* InitiatePayment
   "settle", "list_completed", "check_fresh", "auto_close",  \* SettlePaymentByStaff
   "cancel", "list_outstanding", "release",           \* CancelPaymentByStaff
   "list_stranded", "withdraw",                       \* ForceCloseByStaff
   "await", "abandon"}                                \* session workers

ASSUME StopsAssumption == StopsAt \subseteq Stages \ {"idle"}

Closers == {"nobody", "participant", "system", "staff", "worker"}

TypeOK ==
  /\ sess \in SessionStatus
  /\ closedBy \in Closers
  /\ order \in [Orders -> {"absent", "placed", "cancelled"}]
  /\ pay \in [Payments -> PaymentStatus \cup {"none"}]
  /\ snap \in [Payments -> SUBSET Orders]
  /\ latest \in Payments \cup {NoPayment}
  /\ stage \in [Tasks -> Stages]
  /\ bill \in [Tasks -> SUBSET Orders]
  /\ held \in [Tasks -> SUBSET Payments]

\* A session begins active, with nothing ordered (CreateSession).
Init ==
  /\ sess = "active"
  /\ closedBy = "nobody"
  /\ order = [o \in Orders |-> "absent"]
  /\ pay = [p \in Payments |-> "none"]
  /\ snap = [p \in Payments |-> {}]
  /\ latest = NoPayment
  /\ stage = [t \in Tasks |-> "idle"]
  /\ bill = [t \in Tasks |-> {}]
  /\ held = [t \in Tasks |-> {}]

-----------------------------------------------------------------------------
(***************************************************************************)
(* What a statement reads.                                                 *)
(***************************************************************************)

\* ListOrdersForSession without the cancelled ones: what a bill covers, and what
\* a snapshot must still match to be fresh.
ActiveOrders == {o \in Orders : order[o] = "placed"}

Outstanding == {p \in Payments : pay[p] # "none" /\ ~IsTerminalPayment(pay[p])}

HasNonTerminalPayment == Outstanding # {}

\* idx_payments_one_non_terminal_per_session accepts a new non-terminal row.
\* Slip: the index forgets the status every handler-created payment has.
UniqueIndexAccepts_ForgetsStaff ==
  \A p \in Outstanding : pay[p] = "requires_staff_confirmation"

UniqueIndexAccepts == ~HasNonTerminalPayment

SnapshotFresh(p) == snap[p] = ActiveOrders

Total(S) == MapThenSumSet(LAMBDA o : Price[o], S)

-----------------------------------------------------------------------------
(***************************************************************************)
(* The conditional UPDATE statements.  Each takes effect only when its     *)
(* WHERE clause still holds of the committed row.                          *)
(***************************************************************************)

TransitionSessionToPaymentPending ==
  sess' = IF sess = "active" THEN "payment_pending" ELSE sess

\* Slip: the release forgets AND status = 'payment_pending'.
TransitionSessionToActive_Unconditional == sess' = "active"

\* Slip: the release writes a payment status into the session row.
TransitionSessionToActive_WrongEnum ==
  sess' = IF sess = "payment_pending" THEN "requested" ELSE sess

TransitionSessionToActive ==
  sess' = IF sess = "payment_pending" THEN "active" ELSE sess

TransitionSessionToAwaitingReactivation ==
  sess' = IF sess = "active" THEN "awaiting_reactivation" ELSE sess

ReactivateSession ==
  sess' = IF sess = "awaiting_reactivation" THEN "active" ELSE sess

\* Slip: the closing UPDATE no longer asks that the session is still open.
CloseSessionIfActive_Unconditional(actor) == sess' = "closed" /\ closedBy' = actor

CloseSessionIfActive(actor) ==
  IF sess \in {"active", "payment_pending", "awaiting_reactivation"}
    THEN sess' = "closed" /\ closedBy' = actor
    ELSE UNCHANGED <<sess, closedBy>>

AbandonStaleSession ==
  IF sess \in {"active", "awaiting_reactivation"}
    THEN sess' = "abandoned" /\ closedBy' = "worker"
    ELSE UNCHANGED <<sess, closedBy>>

\* Slip: UPDATE payments without AND status = the status that was read.
UpdatePaymentStatusExpected_Unconditional(p, from, to) ==
  pay' = [pay EXCEPT ![p] = to]

UpdatePaymentStatusExpected(p, from, to) ==
  pay' = IF pay[p] = from THEN [pay EXCEPT ![p] = to] ELSE pay

-----------------------------------------------------------------------------

Goto(t, s) == stage' = [stage EXCEPT ![t] = s]

\* The handler returns; nothing of what it read survives it.
Return(t) ==
  /\ Goto(t, "idle")
  /\ bill' = [bill EXCEPT ![t] = {}]
  /\ held' = [held EXCEPT ![t] = {}]

Begin(t, s, S) ==
  /\ stage[t] = "idle"
  /\ Goto(t, s)
  /\ held' = [held EXCEPT ![t] = S]

\* A task stops between two statements: the process dies, the client goes away
\* and cancels the request context, or a statement fails.  An open transaction
\* rolls back; what was committed stays.
Abort(t) ==
  /\ stage[t] \in StopsAt
  /\ Return(t)
  /\ UNCHANGED <<sess, closedBy, order, pay, snap, latest>>

-----------------------------------------------------------------------------
(***************************************************************************)
(* OrderService.PlaceOrder and UpdateOrderStatus.                          *)
(***************************************************************************)

\* The status is read once, before the host check, the idempotency key and the
\* menu lookups ...
\* Slip: only a terminal session is refused, a frozen one is not.
PlaceOrderCheck_NotFrozen(t) ==
  /\ ~IsSessionTerminal(sess)
  /\ Begin(t, "order_insert", {})
  /\ UNCHANGED <<sess, closedBy, order, pay, snap, latest, bill>>

PlaceOrderCheck(t) ==
  /\ ~IsSessionCartFrozen(sess)
  /\ sess = "active"
  /\ Begin(t, "order_insert", {})
  /\ UNCHANGED <<sess, closedBy, order, pay, snap, latest, bill>>

\* ... and the transaction that inserts the order does not read it again.
PlaceOrderCommit(t) ==
  /\ stage[t] = "order_insert"
  /\ \E o \in Orders :
       /\ order[o] = "absent"
       /\ order' = [order EXCEPT ![o] = "placed"]
  /\ Return(t)
  /\ UNCHANGED <<sess, closedBy, pay, snap, latest>>

\* Staff cancel an order that is not ready yet.  The update expects the status
\* that was validated; the session's status is not looked at.
CancelOrder(o) ==
  /\ order[o] = "placed"
  /\ order' = [order EXCEPT ![o] = "cancelled"]
  /\ UNCHANGED <<sess, closedBy, pay, snap, latest, stage, bill, held>>

-----------------------------------------------------------------------------
(***************************************************************************)
(* PaymentHandler.InitiatePayment and PaymentService.initiatePayment.      *)
(***************************************************************************)

\* The handler computes the bill; a request for nothing is refused.
ComputeBill(t) ==
  /\ ActiveOrders # {}
  /\ stage[t] = "idle"
  /\ bill' = [bill EXCEPT ![t] = ActiveOrders]
  /\ Goto(t, "initiate")
  /\ UNCHANGED <<sess, closedBy, order, pay, snap, latest, held>>

\* The reuse lookup and the transaction's reads of the session and, when it is
\* frozen, of its payments; none of them locks a row.  An outstanding payment is
\* returned as it is; a session that is neither active nor frozen is refused.
\* One step, the last read: an earlier lookup that finds nothing leaves nothing
\* behind, one that finds a payment returns, and a payment that comes after it
\* is refused by the index at the insert.
InitiateRead(t) ==
  /\ stage[t] = "initiate"
  /\ IF HasNonTerminalPayment \/ sess \notin {"active", "payment_pending"}
       THEN Return(t)
       ELSE /\ Goto(t, IF sess = "active" THEN "freeze" ELSE "insert")
            /\ UNCHANGED local
  /\ UNCHANGED <<sess, closedBy, order, pay, snap, latest>>

\* CreateBillSnapshot and CreatePayment; every accepted method waits for staff.
CreatePayment(t, p) ==
  /\ pay[p] = "none"
  /\ pay' = [pay EXCEPT ![p] = "requires_staff_confirmation"]
  /\ snap' = [snap EXCEPT ![p] = bill[t]]

\* The session was active: freeze it and create the payment in one transaction.
\* A session that left active, or a payment that slipped in, rolls both back.
InitiateFreeze(t) ==
  /\ stage[t] = "freeze"
  /\ IF sess = "active" /\ UniqueIndexAccepts
       THEN /\ TransitionSessionToPaymentPending
            /\ \E p \in Payments : CreatePayment(t, p)
       ELSE UNCHANGED <<sess, pay, snap>>
  /\ Return(t)
  /\ UNCHANGED <<closedBy, order, latest>>

\* The session was frozen already but nothing was outstanding: the payment is
\* created without another look at the session row.
InitiateInsert(t) ==
  /\ stage[t] = "insert"
  /\ IF UniqueIndexAccepts
       THEN \E p \in Payments : CreatePayment(t, p)
       ELSE UNCHANGED <<pay, snap>>
  /\ Return(t)
  /\ UNCHANGED <<sess, closedBy, order, latest>>

-----------------------------------------------------------------------------
(***************************************************************************)
(* PaymentService.SettlePaymentByStaff, which closes the session when the  *)
(* bill is covered.                                                        *)
(***************************************************************************)

\* The payment must wait for staff and its snapshot must still match.
SettleCheck(t, p) ==
  /\ pay[p] = "requires_staff_confirmation"
  /\ SnapshotFresh(p)
  /\ Begin(t, "settle", {p})
  /\ UNCHANGED <<sess, closedBy, order, pay, snap, latest, bill>>

SettleUpdate(t) ==
  /\ stage[t] = "settle"
  /\ \E p \in held[t] :
       IF pay[p] = "requires_staff_confirmation"
         THEN /\ UpdatePaymentStatusExpected(p, "requires_staff_confirmation",
                                             "completed")
              /\ latest' = p
              /\ Goto(t, "list_completed")
              /\ UNCHANGED local
         ELSE /\ Return(t)
              /\ UNCHANGED <<pay, latest>>
  /\ UNCHANGED <<sess, closedBy, order, snap>>

\* maybeCloseSettledSession: the latest completed payment selects the snapshot.
ListCompleted(t) ==
  /\ stage[t] = "list_completed"
  /\ IF latest = NoPayment
       THEN Return(t)
       ELSE /\ held' = [held EXCEPT ![t] = {latest}]
            /\ Goto(t, "check_fresh")
            /\ UNCHANGED bill
  /\ UNCHANGED <<sess, closedBy, order, pay, snap, latest>>

\* A stale snapshot ends the attempt, which is logged and never repeated.  The
\* completed payments of a snapshot always cover it: a snapshot belongs to one
\* payment and the payment carries its total.
\* Slip: a freshness check the wrong way round.
CheckFresh_Inverted(t) ==
  /\ stage[t] = "check_fresh"
  /\ IF \E p \in held[t] : SnapshotFresh(p)
       THEN Return(t)
       ELSE Goto(t, "auto_close") /\ UNCHANGED local
  /\ UNCHANGED <<sess, closedBy, order, pay, snap, latest>>

CheckFresh(t) ==
  /\ stage[t] = "check_fresh"
  /\ IF \A p \in held[t] : SnapshotFresh(p)
       THEN Goto(t, "auto_close") /\ UNCHANGED local
       ELSE Return(t)
  /\ UNCHANGED <<sess, closedBy, order, pay, snap, latest>>

\* CloseSession without a requester.
AutoClose(t) ==
  /\ stage[t] = "auto_close"
  /\ CloseSessionIfActive("system")
  /\ Return(t)
  /\ UNCHANGED <<order, pay, snap, latest>>

-----------------------------------------------------------------------------
(***************************************************************************)
(* PaymentService.CancelPaymentByStaff, which thaws the session when       *)
(* nothing is outstanding any more (maybeReleasePaymentPending).           *)
(***************************************************************************)

CancelRead(t, p) ==
  /\ <<pay[p], "cancelled">> \in PaymentTransitions
  /\ Begin(t, "cancel", {p})
  /\ UNCHANGED <<sess, closedBy, order, pay, snap, latest, bill>>

\* Every outstanding payment waits for staff, so that is the status read.
\* Slip: the cancel returns without the release.
CancelUpdate_NoRelease(t) ==
  /\ stage[t] = "cancel"
  /\ \E p \in held[t] :
       UpdatePaymentStatusExpected(p, "requires_staff_confirmation", "cancelled")
  /\ Return(t)
  /\ UNCHANGED <<sess, closedBy, order, snap, latest>>

CancelUpdate(t) ==
  /\ stage[t] = "cancel"
  /\ \E p \in held[t] :
       /\ UpdatePaymentStatusExpected(p, "requires_staff_confirmation",
                                      "cancelled")
       /\ IF pay[p] = "requires_staff_confirmation"
            THEN Goto(t, "list_outstanding") /\ UNCHANGED local
            ELSE Return(t)
  /\ UNCHANGED <<sess, closedBy, order, snap, latest>>

\* Slip: only the payment that was cancelled is looked at.
ListOutstanding_OwnOnly(t) ==
  /\ stage[t] = "list_outstanding"
  /\ IF \E p \in held[t] : ~IsTerminalPayment(pay[p])
       THEN Return(t)
       ELSE Goto(t, "release") /\ UNCHANGED local
  /\ UNCHANGED <<sess, closedBy, order, pay, snap, latest>>

ListOutstanding(t) ==
  /\ stage[t] = "list_outstanding"
  /\ IF HasNonTerminalPayment
       THEN Return(t)
       ELSE Goto(t, "release") /\ UNCHANGED local
  /\ UNCHANGED <<sess, closedBy, order, pay, snap, latest>>

ReleasePaymentPending(t) ==
  /\ stage[t] = "release"
  /\ TransitionSessionToActive
  /\ Return(t)
  /\ UNCHANGED <<closedBy, order, pay, snap, latest>>

-----------------------------------------------------------------------------
(***************************************************************************)
(* The other ways a session ends.                                          *)
(***************************************************************************)

\* SessionService.CloseSession for the host: no look at the payments.
CloseSession ==
  /\ ~IsSessionTerminal(sess)
  /\ CloseSessionIfActive("participant")
  /\ UNCHANGED <<order, pay, snap, latest, stage, bill, held>>

\* SessionService.ForceCloseByStaff: close first, then withdraw the payments.
ForceClose(t) ==
  /\ ~IsSessionTerminal(sess)
  /\ CloseSessionIfActive("staff")
  /\ Begin(t, "list_stranded", {})
  /\ UNCHANGED <<order, pay, snap, latest, bill>>

\* Slip: the payments are listed but never withdrawn.
ListStranded_Forgets(t) ==
  /\ stage[t] = "list_stranded"
  /\ Return(t)
  /\ UNCHANGED <<sess, closedBy, order, pay, snap, latest>>

ListStranded(t) ==
  /\ stage[t] = "list_stranded"
  /\ IF Outstanding = {}
       THEN Return(t)
       ELSE /\ held' = [held EXCEPT ![t] = Outstanding]
            /\ Goto(t, "withdraw")
            /\ UNCHANGED bill
  /\ UNCHANGED <<sess, closedBy, order, pay, snap, latest>>

WithdrawStranded(t) ==
  /\ stage[t] = "withdraw"
  /\ \E p \in held[t] :
       /\ UpdatePaymentStatusExpected(p, "requires_staff_confirmation",
                                      "cancelled")
       /\ IF held[t] = {p}
            THEN Return(t)
            ELSE /\ held' = [held EXCEPT ![t] = @ \ {p}]
                 /\ UNCHANGED <<stage, bill>>
  /\ UNCHANGED <<sess, closedBy, order, snap, latest>>

\* Reactivation pipeline, phase 1: everybody has been away for long enough and
\* nothing is outstanding.  A failed payment lookup counts as "nothing".
AwaitCheck(t) ==
  /\ sess = "active"
  /\ HasNonTerminalPayment => "await" \in StopsAt
  /\ Begin(t, "await", {})
  /\ UNCHANGED <<sess, closedBy, order, pay, snap, latest, bill>>

AwaitUpdate(t) ==
  /\ stage[t] = "await"
  /\ TransitionSessionToAwaitingReactivation
  /\ Return(t)
  /\ UNCHANGED <<closedBy, order, pay, snap, latest>>

\* Stale cleaner (an idle active session) and phase 2 (nobody came back).  Only
\* phase 2 looks at the payments.
AbandonCheck(t) ==
  /\ \/ sess = "active"
     \/ sess = "awaiting_reactivation" /\ ~HasNonTerminalPayment
  /\ Begin(t, "abandon", {})
  /\ UNCHANGED <<sess, closedBy, order, pay, snap, latest, bill>>

AbandonUpdate(t) ==
  /\ stage[t] = "abandon"
  /\ AbandonStaleSession
  /\ Return(t)
  /\ UNCHANGED <<order, pay, snap, latest>>

\* A guest comes back: JoinSession, Reactivate or a snapshot read.
Reactivate ==
  /\ sess = "awaiting_reactivation"
  /\ ReactivateSession
  /\ UNCHANGED <<closedBy, order, pay, snap, latest, stage, bill, held>>

-----------------------------------------------------------------------------

PlaceOrder(t) == PlaceOrderCheck(t) \/ PlaceOrderCommit(t)

InitiatePayment(t) ==
  ComputeBill(t) \/ InitiateRead(t) \/ InitiateFreeze(t) \/ InitiateInsert(t)

SettlePaymentByStaff(t) ==
  \/ \E p \in Payments : SettleCheck(t, p)
  \/ SettleUpdate(t) \/ ListCompleted(t) \/ CheckFresh(t) \/ AutoClose(t)

CancelPaymentByStaff(t) ==
  \/ \E p \in Payments : CancelRead(t, p)
  \/ CancelUpdate(t) \/ ListOutstanding(t) \/ ReleasePaymentPending(t)

ForceCloseByStaff(t) == ForceClose(t) \/ ListStranded(t) \/ WithdrawStranded(t)

SessionWorker(t) ==
  AwaitCheck(t) \/ AwaitUpdate(t) \/ AbandonCheck(t) \/ AbandonUpdate(t)

TaskStep(t) ==
  \/ PlaceOrder(t) \/ InitiatePayment(t) \/ SettlePaymentByStaff(t)
  \/ CancelPaymentByStaff(t) \/ ForceCloseByStaff(t) \/ SessionWorker(t)

Next ==
  \/ \E t \in Tasks : TaskStep(t) \/ Abort(t)
  \/ \E o \in Orders : CancelOrder(o)
  \/ CloseSession
  \/ Reactivate

Spec == Init /\ [][Next]_vars

\* A goroutine that has begun is scheduled until its handler returns; nobody is
\* obliged to begin anything.
Continue(t) == stage[t] # "idle" /\ TaskStep(t)

FairSpec == Spec /\ \A t \in Tasks : WF_vars(Continue(t))

-----------------------------------------------------------------------------
(***************************************************************************)
(* What the billing reconciliation worker can see of the session           *)
(* (ListBillingReconciliationDiscrepancies).                               *)
(***************************************************************************)

Completed == {p \in Payments : pay[p] = "completed"}

\* Slip: only the payments of the authoritative snapshot are summed.
CollectedTotal_OneSnapshot ==
  MapThenSumSet(LAMBDA p : Total(snap[p]), Completed \cap {latest})

CollectedTotal == MapThenSumSet(LAMBDA p : Total(snap[p]), Completed)

\* collected_vs_snapshot.  A force-closed session is left out.
DiscrepancyReported ==
  /\ sess = "closed" /\ closedBy # "staff"
  /\ latest # NoPayment
  /\ CollectedTotal # Total(snap[latest])

-----------------------------------------------------------------------------
(***************************************************************************)
(* Properties that hold however the tasks interleave and wherever one of   *)
(* them stops.                                                             *)
(***************************************************************************)

\* P1: at most one payment of a session is outstanding, although initiations run
\* concurrently and one of their two branches locks nothing but the payment row.
OneNonTerminalPayment == \A p, q \in Outstanding : p = q

\* A payment moves only along the transition table, whatever status the handler
\* that moves it had read: a settle, a cancel and a force-close that overlap
\* never undo one another, and collected money is never marked cancelled.
PaymentsFollowTable ==
  [][\A p \in Payments :
       pay[p] # "none" /\ pay'[p] # pay[p]
         => <<pay[p], pay'[p]>> \in PaymentTransitions]_vars

\* S3: the session moves only along its transition table; in particular a closed
\* or abandoned session is not revived by a release, a reactivation or an
\* initiation that read its status while it was alive.
SessionFollowsTable ==
  [][sess' # sess => <<sess, sess'>> \in SessionTransitions]_vars

\* A session closes on its own only when a bill for at least one order has been
\* collected, and that collection is never undone afterwards.
SystemCloseWasPaid ==
  closedBy = "system" => \E p \in Payments : pay[p] = "completed" /\ snap[p] # {}

\* A session that charged its guests twice, because the close after the first
\* collection was lost or refused, is reported once it is closed.
DoubleCollectionReported ==
  (sess = "closed" /\ closedBy # "staff" /\ Cardinality(Completed) > 1)
    => DiscrepancyReported

-----------------------------------------------------------------------------
(***************************************************************************)
(* The abstract specification, and how the rows implement it.              *)
(***************************************************************************)

Visit ==
  CASE sess = "active" -> "open"
    [] sess = "payment_pending" -> "frozen"
    [] sess = "awaiting_reactivation" -> "paused"
    [] IsSessionTerminal(sess) -> IF closedBy = "system" THEN "settled" ELSE "left"

Ledger ==
  [p \in Payments |->
     CASE pay[p] = "none" -> "none"
       [] pay[p] = "completed" -> "collected"
       [] pay[p] = "cancelled" -> "withdrawn"
       [] OTHER -> "outstanding"]

Protocol == INSTANCE PaymentProtocol WITH visit <- Visit, ledger <- Ledger

\* The statements of all handlers together keep the promise of PaymentProtocol:
\* every interleaving of them is, seen by the guests, one bill at a time, each
\* decided once, and a settlement only for collected money.
ImplementsProtocol == Protocol!Spec

-----------------------------------------------------------------------------
(***************************************************************************)
(* Rules the documentation states, each of which one pair of overlapping   *)
(* statements breaks; they hold of every other overlap.  The first four    *)
(* predicates say that such a pair is not pending.                         *)
(***************************************************************************)

\* A release is pending while a payment is about to be created.
ThawApart ==
  \A t, u \in Tasks :
    ~(stage[t] = "release" /\ stage[u] \in {"freeze", "insert"})

\* An order that was admitted is not in yet while an initiation is about to freeze.
OrderApart ==
  \A t, u \in Tasks : ~(stage[t] = "order_insert" /\ stage[u] = "freeze")

\* An order that was admitted is not in yet while a session is about to be closed
\* on the strength of its bill.
CloseApart ==
  \A t, u \in Tasks : ~(stage[t] = "auto_close" /\ stage[u] = "order_insert")

\* A payment is about to be created while a force-close has yet to look for
\* payments.
ForceApart ==
  \A t, u \in Tasks : ~(stage[t] = "list_stranded" /\ stage[u] = "insert")

\* C4: no order is added while payment is pending.
NoOrderWhilePaying == sess = "payment_pending" => ActiveOrders' \subseteq ActiveOrders
OrdersFrozenWhilePaying == [][NoOrderWhilePaying]_vars

\* The release of maybeReleasePaymentPending: an active session has no payment
\* outstanding.
NothingOutstandingWhileActive == sess = "active" => ~HasNonTerminalPayment

\* A settled session closes only against a bill that covers its orders.
CloseCoversOrders ==
  closedBy # "system" /\ closedBy' = "system" => ActiveOrders \subseteq snap[latest]
SystemCloseCoversOrders == [][CloseCoversOrders]_vars

\* When a force-close has run to its end, none of the session's payments is
\* outstanding.
ForceCloseWithdrawsPayments ==
  closedBy = "staff" /\ (\A t \in Tasks : stage[t] = "idle")
    => ~HasNonTerminalPayment

-----------------------------------------------------------------------------
(***************************************************************************)
(* Liveness, for handlers that finish once they have changed something.    *)
(***************************************************************************)

\* Money taken ends the visit: after each settlement the session is over, or its
\* orders are no longer those of the bill that was collected.
SettlementEndsVisit ==
  \A t \in Tasks :
    stage[t] = "list_completed"
      ~> \/ IsSessionTerminal(sess)
         \/ \A p \in Payments : p = latest => ~SnapshotFresh(p)

\* A table is not left frozen for nothing: as long as no money has been taken, a
\* frozen session without an outstanding payment thaws, closes or is billed again.
FreezeEnds ==
  (sess = "payment_pending" /\ ~HasNonTerminalPayment /\ Completed = {})
    ~> (sess # "payment_pending" \/ HasNonTerminalPayment)

=============================================================================
