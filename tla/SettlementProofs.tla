-------------------------- MODULE SettlementProofs --------------------------
(***************************************************************************)
(* Theorems about Settlement: for any number of orders, payments and       *)
(* overlapping tasks, and whether or not tasks may stop half way.          *)
(*                                                                         *)
(* None of the safety properties is inductive alone.  What a task does     *)
(* next depends on what it read before, so Inv says what a task may rely   *)
(* on at each of its statements (Billed, CloserSawMoney), that the         *)
(* only outstanding status is the one every handler assumes (StaffDecides) *)
(* and that a session has an ending exactly when it is over (EndedBy).     *)
(***************************************************************************)
EXTENDS Settlement, FiniteSetTheorems, TLAPS

\* No handler creates a payment that waits for anybody but staff.
StaffDecides ==
  \A p \in Payments :
    pay[p] \in {"none", "requires_staff_confirmation", "completed", "cancelled"}

\* A bill that reached the transaction, and every snapshot, names an order.
Billed ==
  /\ \A t \in Tasks :
       stage[t] \in {"initiate", "freeze", "insert"} => bill[t] # {}
  /\ \A p \in Payments : pay[p] # "none" => snap[p] # {}

\* The last collection is known as soon as there is one, and a task on its way to
\* close a session holds a collected payment.
CloserSawMoney ==
  /\ latest # NoPayment => pay[latest] = "completed"
  /\ Completed # {} => latest # NoPayment
  /\ \A t \in Tasks :
       /\ stage[t] = "list_completed" => latest # NoPayment
       /\ stage[t] \in {"check_fresh", "auto_close"}
            => \E p \in held[t] : pay[p] = "completed"

\* A session is over exactly when somebody ended it.
EndedBy ==
  /\ IsSessionTerminal(sess) <=> closedBy # "nobody"
  /\ closedBy = "system" => \E p \in Payments : pay[p] = "completed"

Inv ==
  TypeOK /\ OneNonTerminalPayment /\ StaffDecides /\ Billed
    /\ CloserSawMoney /\ EndedBy

-----------------------------------------------------------------------------
(***************************************************************************)
(* Type correctness.                                                       *)
(***************************************************************************)

\* A task that begins or returns keeps well-typed locals.
LEMMA ControlType ==
  ASSUME TypeOK, NEW t \in Tasks, NEW S \in SUBSET Payments, NEW s \in Stages
  PROVE  /\ Begin(t, s, S) => stage' \in [Tasks -> Stages]
                                /\ held' \in [Tasks -> SUBSET Payments]
         /\ Goto(t, s) => stage' \in [Tasks -> Stages]
         /\ Return(t) => /\ stage' \in [Tasks -> Stages]
                         /\ held' \in [Tasks -> SUBSET Payments]
                         /\ bill' \in [Tasks -> SUBSET Orders]
BY DEF TypeOK, Begin, Goto, Return, Stages

LEMMA TypeStep == TypeOK /\ [Next]_vars => TypeOK'
<1> USE DEF local
<1> SUFFICES ASSUME TypeOK, [Next]_vars PROVE TypeOK'
  OBVIOUS
<1>1. ASSUME NEW t \in Tasks, PlaceOrder(t) PROVE TypeOK'
  <2>1. CASE PlaceOrderCheck(t)
    BY <2>1, ControlType DEF TypeOK, PlaceOrderCheck, Stages
  <2>2. CASE PlaceOrderCommit(t)
    BY <2>2, ControlType DEF TypeOK, PlaceOrderCommit, Stages
  <2> QED BY <1>1, <2>1, <2>2 DEF PlaceOrder
<1>2. ASSUME NEW t \in Tasks, InitiatePayment(t) PROVE TypeOK'
  <2>1. CASE ComputeBill(t)
    BY <2>1 DEF TypeOK, ComputeBill, Goto, Stages, ActiveOrders
  <2>2. CASE InitiateRead(t)
    BY <2>2, ControlType DEF TypeOK, InitiateRead, Stages
  <2>3. CASE InitiateFreeze(t)
    <3> USE DEF SessionStatus, PaymentStatus
    <3>1. CASE sess = "active" /\ UniqueIndexAccepts
      BY <2>3, <3>1, ControlType
      DEF TypeOK, InitiateFreeze, TransitionSessionToPaymentPending, CreatePayment
    <3>2. CASE ~(sess = "active" /\ UniqueIndexAccepts)
      BY <2>3, <3>2, ControlType DEF TypeOK, InitiateFreeze
    <3> QED BY <3>1, <3>2
  <2>4. CASE InitiateInsert(t)
    BY <2>4, ControlType
    DEF TypeOK, InitiateInsert, CreatePayment, PaymentStatus
  <2> QED BY <1>2, <2>1, <2>2, <2>3, <2>4 DEF InitiatePayment
<1>3. ASSUME NEW t \in Tasks, SettlePaymentByStaff(t) PROVE TypeOK'
  <2>1. ASSUME NEW p \in Payments, SettleCheck(t, p) PROVE TypeOK'
    BY <2>1, ControlType DEF TypeOK, SettleCheck, Stages
  <2>2. CASE SettleUpdate(t)
    <3>1. PICK p \in held[t] :
            \/ /\ UpdatePaymentStatusExpected(p, "requires_staff_confirmation",
                                              "completed")
               /\ latest' = p
               /\ Goto(t, "list_completed")
               /\ UNCHANGED local
            \/ Return(t) /\ UNCHANGED <<pay, latest>>
      BY <2>2 DEF SettleUpdate
    <3>2. p \in Payments
      BY <3>1 DEF TypeOK
    <3>3. CASE Return(t) /\ UNCHANGED <<pay, latest>>
      BY <2>2, <3>3, ControlType DEF TypeOK, SettleUpdate, Stages
    <3>4. CASE ~(Return(t) /\ UNCHANGED <<pay, latest>>)
      BY <2>2, <3>1, <3>2, <3>4
      DEF TypeOK, SettleUpdate, UpdatePaymentStatusExpected, PaymentStatus,
          Goto, Stages
    <3> QED BY <3>3, <3>4
  <2>3. CASE ListCompleted(t)
    <3>1. CASE latest = NoPayment
      BY <2>3, <3>1, ControlType DEF TypeOK, ListCompleted
    <3>2. CASE latest # NoPayment
      <4>1. held' \in [Tasks -> SUBSET Payments]
        BY <2>3, <3>2 DEF TypeOK, ListCompleted
      <4> QED BY <2>3, <3>2, <4>1, ControlType DEF TypeOK, ListCompleted, Stages
    <3> QED BY <3>1, <3>2
  <2>4. CASE CheckFresh(t)
    BY <2>4, ControlType DEF TypeOK, CheckFresh, Stages
  <2>5. CASE AutoClose(t)
    BY <2>5, ControlType
    DEF TypeOK, AutoClose, CloseSessionIfActive, SessionStatus, Closers
  <2> QED BY <1>3, <2>1, <2>2, <2>3, <2>4, <2>5 DEF SettlePaymentByStaff
<1>4. ASSUME NEW t \in Tasks, CancelPaymentByStaff(t) PROVE TypeOK'
  <2>1. ASSUME NEW p \in Payments, CancelRead(t, p) PROVE TypeOK'
    BY <2>1, ControlType DEF TypeOK, CancelRead, Stages
  <2>2. CASE CancelUpdate(t)
    BY <2>2, ControlType
    DEF TypeOK, CancelUpdate, UpdatePaymentStatusExpected, PaymentStatus, Stages
  <2>3. CASE ListOutstanding(t)
    BY <2>3, ControlType DEF TypeOK, ListOutstanding, Stages
  <2>4. CASE ReleasePaymentPending(t)
    BY <2>4, ControlType
    DEF TypeOK, ReleasePaymentPending, TransitionSessionToActive, SessionStatus
  <2> QED BY <1>4, <2>1, <2>2, <2>3, <2>4 DEF CancelPaymentByStaff
<1>5. ASSUME NEW t \in Tasks, ForceCloseByStaff(t) PROVE TypeOK'
  <2>1. CASE ForceClose(t)
    BY <2>1, ControlType
    DEF TypeOK, ForceClose, CloseSessionIfActive, SessionStatus, Closers, Stages
  <2>2. CASE ListStranded(t)
    <3>1. Outstanding \in SUBSET Payments
      BY DEF Outstanding
    <3> QED BY <2>2, <3>1, ControlType DEF TypeOK, ListStranded, Stages
  <2>3. CASE WithdrawStranded(t)
    <3>1. PICK p \in held[t] :
            /\ UpdatePaymentStatusExpected(p, "requires_staff_confirmation",
                                           "cancelled")
            /\ \/ Return(t)
               \/ held' = [held EXCEPT ![t] = @ \ {p}] /\ UNCHANGED <<stage, bill>>
      BY <2>3 DEF WithdrawStranded
    <3>2. pay' \in [Payments -> PaymentStatus \cup {"none"}]
      BY <3>1 DEF TypeOK, UpdatePaymentStatusExpected, PaymentStatus
    <3>3. /\ stage' \in [Tasks -> Stages]
          /\ held' \in [Tasks -> SUBSET Payments]
          /\ bill' \in [Tasks -> SUBSET Orders]
      <4>1. CASE Return(t)
        BY <4>1, ControlType DEF TypeOK, Stages
      <4>2. CASE held' = [held EXCEPT ![t] = @ \ {p}] /\ UNCHANGED <<stage, bill>>
        BY <4>2 DEF TypeOK
      <4> QED BY <3>1, <4>1, <4>2
    <3> QED BY <2>3, <3>2, <3>3 DEF TypeOK, WithdrawStranded
  <2> QED BY <1>5, <2>1, <2>2, <2>3 DEF ForceCloseByStaff
<1>6. ASSUME NEW t \in Tasks, SessionWorker(t) PROVE TypeOK'
  <2>1. CASE AwaitCheck(t)
    BY <2>1, ControlType DEF TypeOK, AwaitCheck, Stages
  <2>2. CASE AwaitUpdate(t)
    BY <2>2, ControlType
    DEF TypeOK, AwaitUpdate, TransitionSessionToAwaitingReactivation, SessionStatus
  <2>3. CASE AbandonCheck(t)
    BY <2>3, ControlType DEF TypeOK, AbandonCheck, Stages
  <2>4. CASE AbandonUpdate(t)
    BY <2>4, ControlType
    DEF TypeOK, AbandonUpdate, AbandonStaleSession, SessionStatus, Closers
  <2> QED BY <1>6, <2>1, <2>2, <2>3, <2>4 DEF SessionWorker
<1>7. ASSUME NEW t \in Tasks, Abort(t) PROVE TypeOK'
  BY <1>7, ControlType DEF TypeOK, Abort
<1>8. ASSUME NEW o \in Orders, CancelOrder(o) PROVE TypeOK'
  BY <1>8 DEF TypeOK, CancelOrder
<1>9. CASE CloseSession
  BY <1>9 DEF TypeOK, CloseSession, CloseSessionIfActive, SessionStatus, Closers
<1>10. CASE Reactivate
  BY <1>10 DEF TypeOK, Reactivate, ReactivateSession, SessionStatus
<1>11. CASE UNCHANGED vars
  BY <1>11 DEF TypeOK, vars
<1> QED
  BY <1>1, <1>2, <1>3, <1>4, <1>5, <1>6, <1>7, <1>8, <1>9, <1>10, <1>11
  DEF Next, TaskStep

LEMMA TypeInit == Init => TypeOK
BY DEF Init, TypeOK, SessionStatus, Closers, Stages

\* Every row keeps to the enumeration of its column and every task to its
\* handler's statements, for any number of orders, payments and tasks.
THEOREM TypeCorrect == Spec => []TypeOK
BY TypeInit, TypeStep, PTL DEF Spec

-----------------------------------------------------------------------------
(***************************************************************************)
(* What one step can do to the session and its payments.  Every property   *)
(* below follows from these five cases and Inv.                            *)
(***************************************************************************)

Asked(p) ==
  /\ ~HasNonTerminalPayment
  /\ pay[p] = "none"
  /\ pay' = [pay EXCEPT ![p] = "requires_staff_confirmation"]
  /\ \E t \in Tasks : /\ stage[t] \in {"freeze", "insert"}
                      /\ snap' = [snap EXCEPT ![p] = bill[t]]
  /\ sess' = sess \/ (sess = "active" /\ sess' = "payment_pending")
  /\ UNCHANGED <<closedBy, latest>>

Decided(p, d) ==
  /\ pay[p] = "requires_staff_confirmation"
  /\ pay' = [pay EXCEPT ![p] = d]
  /\ latest' = IF d = "completed" THEN p ELSE latest
  /\ UNCHANGED <<sess, closedBy, snap>>

Moved ==
  /\ <<sess, sess'>> \in {<<"payment_pending", "active">>,
                          <<"active", "awaiting_reactivation">>,
                          <<"awaiting_reactivation", "active">>}
  /\ UNCHANGED <<closedBy, pay, snap, latest>>

Ended(actor) ==
  /\ sess \in {"active", "payment_pending", "awaiting_reactivation"}
  /\ sess' \in {"closed", "abandoned"}
  /\ closedBy' = actor
  /\ actor = "system" => \E t \in Tasks : stage[t] = "auto_close"
  /\ UNCHANGED <<pay, snap, latest>>

Untouched == UNCHANGED <<sess, closedBy, pay, snap, latest>>

Effect ==
  \/ \E p \in Payments : Asked(p)
  \/ \E p \in Payments : \E d \in {"completed", "cancelled"} : Decided(p, d)
  \/ Moved
  \/ \E actor \in Closers \ {"nobody"} : Ended(actor)
  \/ Untouched

\* A conditional payment update either finds the row waiting for staff and
\* decides it, or leaves it alone.
LEMMA UpdateEffect ==
  ASSUME NEW p \in Payments,
         UpdatePaymentStatusExpected(p, "requires_staff_confirmation", "cancelled"),
         UNCHANGED <<sess, closedBy, snap, latest>>
  PROVE  Effect
<1>1. CASE pay[p] = "requires_staff_confirmation"
  BY <1>1 DEF UpdatePaymentStatusExpected, Effect, Decided
<1>2. CASE pay[p] # "requires_staff_confirmation"
  BY <1>2 DEF UpdatePaymentStatusExpected, Effect, Untouched
<1> QED BY <1>1, <1>2

LEMMA CloseEffect ==
  ASSUME NEW actor \in Closers \ {"nobody"},
         actor = "system" => \E t \in Tasks : stage[t] = "auto_close",
         CloseSessionIfActive(actor),
         UNCHANGED <<pay, snap, latest>>
  PROVE  Effect
<1>1. CASE sess \in {"active", "payment_pending", "awaiting_reactivation"}
  BY <1>1 DEF CloseSessionIfActive, Effect, Ended
<1>2. CASE sess \notin {"active", "payment_pending", "awaiting_reactivation"}
  BY <1>2 DEF CloseSessionIfActive, Effect, Untouched
<1> QED BY <1>1, <1>2

LEMMA StepEffect == TypeOK /\ [Next]_vars => Effect
<1> SUFFICES ASSUME TypeOK, [Next]_vars PROVE Effect
  OBVIOUS
<1>1. ASSUME NEW t \in Tasks, PlaceOrder(t) PROVE Effect
  BY <1>1 DEF PlaceOrder, PlaceOrderCheck, PlaceOrderCommit, Effect, Untouched
<1>2. ASSUME NEW t \in Tasks, InitiatePayment(t) PROVE Effect
  <2>1. CASE ComputeBill(t) \/ InitiateRead(t)
    BY <2>1 DEF ComputeBill, InitiateRead, Effect, Untouched
  <2>2. CASE InitiateFreeze(t)
    <3>1. CASE sess = "active" /\ UniqueIndexAccepts
      <4>1. PICK p \in Payments : CreatePayment(t, p)
        BY <2>2, <3>1 DEF InitiateFreeze
      <4>2. Asked(p)
        BY <2>2, <3>1, <4>1
        DEF InitiateFreeze, TransitionSessionToPaymentPending, CreatePayment,
            UniqueIndexAccepts, Asked
      <4> QED BY <4>2 DEF Effect
    <3>2. CASE ~(sess = "active" /\ UniqueIndexAccepts)
      BY <2>2, <3>2 DEF InitiateFreeze, Effect, Untouched
    <3> QED BY <3>1, <3>2
  <2>3. CASE InitiateInsert(t)
    <3>1. CASE UniqueIndexAccepts
      <4>1. PICK p \in Payments : CreatePayment(t, p)
        BY <2>3, <3>1 DEF InitiateInsert
      <4>2. Asked(p)
        BY <2>3, <3>1, <4>1
        DEF InitiateInsert, CreatePayment, UniqueIndexAccepts, Asked
      <4> QED BY <4>2 DEF Effect
    <3>2. CASE ~UniqueIndexAccepts
      BY <2>3, <3>2 DEF InitiateInsert, Effect, Untouched
    <3> QED BY <3>1, <3>2
  <2> QED BY <1>2, <2>1, <2>2, <2>3 DEF InitiatePayment
<1>3. ASSUME NEW t \in Tasks, SettlePaymentByStaff(t) PROVE Effect
  <2>1. CASE (\E p \in Payments : SettleCheck(t, p)) \/ ListCompleted(t) \/ CheckFresh(t)
    BY <2>1 DEF SettleCheck, ListCompleted, CheckFresh, Effect, Untouched
  <2>2. CASE SettleUpdate(t)
    <3>1. PICK p \in held[t] :
            \/ /\ pay[p] = "requires_staff_confirmation"
               /\ UpdatePaymentStatusExpected(p, "requires_staff_confirmation",
                                              "completed")
               /\ latest' = p
            \/ UNCHANGED <<pay, latest>>
      BY <2>2 DEF SettleUpdate
    <3>2. p \in Payments
      BY <3>1 DEF TypeOK
    <3>3. Decided(p, "completed") \/ Untouched
      BY <2>2, <3>1
      DEF SettleUpdate, UpdatePaymentStatusExpected, Decided, Untouched
    <3> QED BY <3>2, <3>3 DEF Effect
  <2>3. CASE AutoClose(t)
    BY <2>3, CloseEffect DEF AutoClose, Closers
  <2> QED BY <1>3, <2>1, <2>2, <2>3 DEF SettlePaymentByStaff
<1>4. ASSUME NEW t \in Tasks, CancelPaymentByStaff(t) PROVE Effect
  <2>1. CASE (\E p \in Payments : CancelRead(t, p)) \/ ListOutstanding(t)
    BY <2>1 DEF CancelRead, ListOutstanding, Effect, Untouched
  <2>2. CASE CancelUpdate(t)
    BY <2>2, UpdateEffect DEF CancelUpdate, TypeOK
  <2>3. CASE ReleasePaymentPending(t)
    BY <2>3 DEF ReleasePaymentPending, TransitionSessionToActive, Effect, Moved,
                Untouched
  <2> QED BY <1>4, <2>1, <2>2, <2>3 DEF CancelPaymentByStaff
<1>5. ASSUME NEW t \in Tasks, ForceCloseByStaff(t) PROVE Effect
  <2>1. CASE ForceClose(t)
    BY <2>1, CloseEffect DEF ForceClose, Closers
  <2>2. CASE ListStranded(t)
    BY <2>2 DEF ListStranded, Effect, Untouched
  <2>3. CASE WithdrawStranded(t)
    BY <2>3, UpdateEffect DEF WithdrawStranded, TypeOK
  <2> QED BY <1>5, <2>1, <2>2, <2>3 DEF ForceCloseByStaff
<1>6. ASSUME NEW t \in Tasks, SessionWorker(t) PROVE Effect
  <2>1. CASE AwaitCheck(t) \/ AbandonCheck(t)
    BY <2>1 DEF AwaitCheck, AbandonCheck, Effect, Untouched
  <2>2. CASE AwaitUpdate(t)
    BY <2>2 DEF AwaitUpdate, TransitionSessionToAwaitingReactivation, Effect,
                Moved, Untouched
  <2>3. CASE AbandonUpdate(t)
    <3>1. Ended("worker") \/ Untouched
      BY <2>3 DEF AbandonUpdate, AbandonStaleSession, Ended, Untouched
    <3> QED BY <3>1 DEF Effect, Closers
  <2> QED BY <1>6, <2>1, <2>2, <2>3 DEF SessionWorker
<1>7. ASSUME NEW t \in Tasks, Abort(t) PROVE Effect
  BY <1>7 DEF Abort, Effect, Untouched
<1>8. ASSUME NEW o \in Orders, CancelOrder(o) PROVE Effect
  BY <1>8 DEF CancelOrder, Effect, Untouched
<1>9. CASE CloseSession
  BY <1>9, CloseEffect DEF CloseSession, Closers
<1>10. CASE Reactivate
  BY <1>10 DEF Reactivate, ReactivateSession, Effect, Moved
<1>11. CASE UNCHANGED vars
  BY <1>11 DEF vars, Effect, Untouched
<1> QED
  BY <1>1, <1>2, <1>3, <1>4, <1>5, <1>6, <1>7, <1>8, <1>9, <1>10, <1>11
  DEF Next, TaskStep

-----------------------------------------------------------------------------
(***************************************************************************)
(* What one step can do to the knowledge of a task.                        *)
(***************************************************************************)

Billing == {"initiate", "freeze", "insert"}

Closing == {"list_completed", "check_fresh", "auto_close"}

Kept(t) == stage'[t] = stage[t] /\ bill'[t] = bill[t] /\ held'[t] = held[t]

\* What a task knows after a step about the bill it carries and the payment it
\* closes the session for.
Informed(t) ==
  \/ stage'[t] \notin Billing \cup Closing
  \/ stage'[t] \in Billing /\ bill'[t] # {}
  \/ stage'[t] = "list_completed" /\ latest' # NoPayment
  \/ stage'[t] \in {"check_fresh", "auto_close"}
       /\ \E p \in held'[t] : pay[p] = "completed"

LEMMA ReturnEffect ==
  ASSUME TypeOK, NEW t \in Tasks, NEW u \in Tasks, Return(t)
  PROVE  Kept(u) \/ Informed(u)
BY DEF TypeOK, Return, Goto, Kept, Informed, Billing, Closing

LEMMA MoveEffect ==
  ASSUME TypeOK, NEW t \in Tasks, NEW u \in Tasks, UNCHANGED bill,
         NEW s \in Stages \ (Billing \cup Closing), NEW S,
         Begin(t, s, S) \/ (Goto(t, s) /\ UNCHANGED held)
  PROVE  Kept(u) \/ Informed(u)
BY DEF TypeOK, Begin, Goto, Kept, Informed, Billing, Closing, Stages

LEMMA ControlEffect ==
  ASSUME TypeOK, NEW t \in Tasks, NEW u \in Tasks
  PROVE  /\ Return(t) => Kept(u) \/ Informed(u)
         /\ \A s \in Stages \ (Billing \cup Closing), S \in SUBSET Payments :
              /\ Begin(t, s, S) /\ UNCHANGED bill => Kept(u) \/ Informed(u)
              /\ Goto(t, s) /\ UNCHANGED local => Kept(u) \/ Informed(u)
<1>1. Return(t) => Kept(u) \/ Informed(u)
  BY ReturnEffect
<1>2. ASSUME NEW s \in Stages \ (Billing \cup Closing), NEW S \in SUBSET Payments
      PROVE  /\ Begin(t, s, S) /\ UNCHANGED bill => Kept(u) \/ Informed(u)
             /\ Goto(t, s) /\ UNCHANGED local => Kept(u) \/ Informed(u)
  BY <1>2, MoveEffect DEF local
<1> QED BY <1>1, <1>2

LEMMA TaskEffect ==
  TypeOK /\ PaymentsAssumption /\ Billed /\ CloserSawMoney /\ [Next]_vars
    => \A u \in Tasks : Kept(u) \/ Informed(u)
<1> SUFFICES ASSUME TypeOK, PaymentsAssumption, Billed, CloserSawMoney, [Next]_vars,
                    NEW u \in Tasks
             PROVE  Kept(u) \/ Informed(u)
  OBVIOUS
<1> USE DEF Stages, Billing, Closing
<1>1. ASSUME NEW t \in Tasks, PlaceOrder(t) PROVE Kept(u) \/ Informed(u)
  BY <1>1, ControlEffect DEF PlaceOrder, PlaceOrderCheck, PlaceOrderCommit
<1>2. ASSUME NEW t \in Tasks, InitiatePayment(t) PROVE Kept(u) \/ Informed(u)
  <2>1. CASE ComputeBill(t)
    BY <2>1 DEF TypeOK, ComputeBill, Goto, Kept, Informed
  <2>2. CASE InitiateRead(t)
    <3>1. CASE Return(t)
      BY <3>1, ControlEffect
    <3>2. CASE ~Return(t)
      BY <2>2, <3>2 DEF TypeOK, InitiateRead, Goto, local, Billed, Kept, Informed
    <3> QED BY <3>1, <3>2
  <2>3. CASE InitiateFreeze(t) \/ InitiateInsert(t)
    BY <2>3, ControlEffect DEF InitiateFreeze, InitiateInsert
  <2> QED BY <1>2, <2>1, <2>2, <2>3 DEF InitiatePayment
<1>3. ASSUME NEW t \in Tasks, SettlePaymentByStaff(t) PROVE Kept(u) \/ Informed(u)
  <2>1. ASSUME NEW p \in Payments, SettleCheck(t, p) PROVE Kept(u) \/ Informed(u)
    BY <2>1, ControlEffect DEF SettleCheck
  <2>2. CASE SettleUpdate(t)
    <3>1. CASE Return(t)
      BY <3>1, ControlEffect
    <3>2. CASE ~Return(t)
      <4>1. PICK p \in held[t] :
              latest' = p /\ Goto(t, "list_completed") /\ UNCHANGED local
        BY <2>2, <3>2 DEF SettleUpdate
      <4>2. latest' # NoPayment
        BY <4>1 DEF TypeOK, PaymentsAssumption
      <4> QED BY <4>1, <4>2 DEF TypeOK, Goto, local, Kept, Informed
    <3> QED BY <3>1, <3>2
  <2>3. CASE ListCompleted(t)
    <3>1. CASE Return(t)
      BY <3>1, ControlEffect
    <3>2. CASE ~Return(t)
      BY <2>3, <3>2 DEF TypeOK, ListCompleted, Goto, CloserSawMoney, Kept, Informed
    <3> QED BY <3>1, <3>2
  <2>4. CASE CheckFresh(t)
    <3>1. CASE Return(t)
      BY <3>1, ControlEffect
    <3>2. CASE ~Return(t)
      BY <2>4, <3>2 DEF TypeOK, CheckFresh, Goto, local, CloserSawMoney, Kept, Informed
    <3> QED BY <3>1, <3>2
  <2>5. CASE AutoClose(t)
    BY <2>5, ControlEffect DEF AutoClose
  <2> QED BY <1>3, <2>1, <2>2, <2>3, <2>4, <2>5 DEF SettlePaymentByStaff
<1>4. ASSUME NEW t \in Tasks, CancelPaymentByStaff(t) PROVE Kept(u) \/ Informed(u)
  <2>1. ASSUME NEW p \in Payments, CancelRead(t, p) PROVE Kept(u) \/ Informed(u)
    BY <2>1, ControlEffect DEF CancelRead
  <2>2. CASE CancelUpdate(t)
    BY <2>2, ControlEffect DEF CancelUpdate
  <2>3. CASE ListOutstanding(t) \/ ReleasePaymentPending(t)
    BY <2>3, ControlEffect DEF ListOutstanding, ReleasePaymentPending
  <2> QED BY <1>4, <2>1, <2>2, <2>3 DEF CancelPaymentByStaff
<1>5. ASSUME NEW t \in Tasks, ForceCloseByStaff(t) PROVE Kept(u) \/ Informed(u)
  <2>1. CASE ForceClose(t)
    BY <2>1, ControlEffect DEF ForceClose
  <2>2. CASE ListStranded(t)
    <3>1. CASE Return(t)
      BY <3>1, ControlEffect
    <3>2. CASE ~Return(t)
      BY <2>2, <3>2 DEF TypeOK, ListStranded, Goto, Kept, Informed
    <3> QED BY <3>1, <3>2
  <2>3. CASE WithdrawStranded(t)
    <3>1. CASE Return(t)
      BY <3>1, ControlEffect
    <3>2. CASE ~Return(t)
      <4>1. PICK p \in held[t] :
              held' = [held EXCEPT ![t] = @ \ {p}] /\ UNCHANGED <<stage, bill>>
        BY <2>3, <3>2 DEF WithdrawStranded
      <4> QED BY <2>3, <4>1 DEF TypeOK, WithdrawStranded, Kept, Informed
    <3> QED BY <3>1, <3>2
  <2> QED BY <1>5, <2>1, <2>2, <2>3 DEF ForceCloseByStaff
<1>6. ASSUME NEW t \in Tasks, SessionWorker(t) PROVE Kept(u) \/ Informed(u)
  BY <1>6, ControlEffect
  DEF SessionWorker, AwaitCheck, AwaitUpdate, AbandonCheck, AbandonUpdate
<1>7. ASSUME NEW t \in Tasks, Abort(t) PROVE Kept(u) \/ Informed(u)
  BY <1>7, ControlEffect DEF Abort
<1>8. CASE (\E o \in Orders : CancelOrder(o)) \/ CloseSession \/ Reactivate
           \/ UNCHANGED vars
  BY <1>8 DEF CancelOrder, CloseSession, Reactivate, vars, Kept
<1> QED
  BY <1>1, <1>2, <1>3, <1>4, <1>5, <1>6, <1>7, <1>8 DEF Next, TaskStep

-----------------------------------------------------------------------------
(***************************************************************************)
(* The inductive invariant, one lemma per part.                            *)
(***************************************************************************)

LEMMA InvInit == PaymentsAssumption /\ Init => Inv
BY TypeInit
DEF Init, Inv, OneNonTerminalPayment, Outstanding, StaffDecides, Billed,
    CloserSawMoney, Completed, EndedBy, IsSessionTerminal

\* With only the four statuses of StaffDecides, outstanding means waiting for
\* staff.
LEMMA OutstandingIsStaff ==
  StaffDecides
    => Outstanding = {p \in Payments : pay[p] = "requires_staff_confirmation"}
BY DEF StaffDecides, Outstanding, IsTerminalPayment

LEMMA StaffDecidesStep == TypeOK /\ StaffDecides /\ Effect => StaffDecides'
BY DEF TypeOK, StaffDecides, Effect, Asked, Decided, Moved, Ended, Untouched

LEMMA OneStep ==
  ASSUME TypeOK, StaffDecides, OneNonTerminalPayment, Effect
  PROVE  OneNonTerminalPayment'
<1>1. StaffDecides'
  BY StaffDecidesStep
<1>2. Outstanding' = {p \in Payments : pay'[p] = "requires_staff_confirmation"}
  BY <1>1 DEF StaffDecides, Outstanding, IsTerminalPayment
<1>3. ASSUME NEW p \in Payments, Asked(p) PROVE Outstanding' \subseteq {p}
  BY <1>2, <1>3, OutstandingIsStaff DEF TypeOK, Asked, HasNonTerminalPayment
<1>4. CASE ~\E p \in Payments : Asked(p)
  <2>1. Outstanding' \subseteq Outstanding
    BY <1>2, <1>4, OutstandingIsStaff
    DEF TypeOK, Effect, Decided, Moved, Ended, Untouched
  <2> QED BY <2>1 DEF OneNonTerminalPayment
<1> QED BY <1>3, <1>4 DEF OneNonTerminalPayment

LEMMA BilledStep ==
  ASSUME TypeOK, Billed, Effect, \A u \in Tasks : Kept(u) \/ Informed(u)
  PROVE  Billed'
<1>1. ASSUME NEW t \in Tasks, stage'[t] \in Billing PROVE bill'[t] # {}
  BY <1>1 DEF Billed, Kept, Informed, Billing, Closing
<1>2. ASSUME NEW p \in Payments, pay'[p] # "none" PROVE snap'[p] # {}
  BY <1>2 DEF TypeOK, Billed, Effect, Asked, Decided, Moved, Ended, Untouched
<1> QED BY <1>1, <1>2 DEF Billed, Billing

\* Collected money stays collected.
LEMMA CompletedStays ==
  ASSUME TypeOK, Effect, NEW p \in Payments, pay[p] = "completed"
  PROVE  pay'[p] = "completed"
BY DEF TypeOK, Effect, Asked, Decided, Moved, Ended, Untouched

LEMMA CloserStep ==
  ASSUME TypeOK, TypeOK', CloserSawMoney, Effect, PaymentsAssumption,
         \A u \in Tasks : Kept(u) \/ Informed(u)
  PROVE  CloserSawMoney'
<1>1. latest # NoPayment => latest' # NoPayment
  BY DEF TypeOK, PaymentsAssumption, Effect, Asked, Decided, Moved, Ended, Untouched
<1>2. latest' # NoPayment => pay'[latest'] = "completed"
  <2>1. CASE latest' = latest
    BY <2>1, CompletedStays DEF TypeOK, CloserSawMoney
  <2>2. CASE latest' # latest
    BY <2>2 DEF TypeOK, Effect, Asked, Decided, Moved, Ended, Untouched
  <2> QED BY <2>1, <2>2
<1>3. ASSUME NEW t \in Tasks, stage'[t] = "list_completed"
      PROVE  latest' # NoPayment
  BY <1>1, <1>3 DEF CloserSawMoney, Kept, Informed, Billing, Closing
<1>4. ASSUME NEW t \in Tasks, stage'[t] \in {"check_fresh", "auto_close"}
      PROVE  \E p \in held'[t] : pay'[p] = "completed"
  <2>1. CASE Kept(t)
    <3>1. PICK p \in held[t] : pay[p] = "completed"
      BY <1>4, <2>1 DEF CloserSawMoney, Kept
    <3> QED BY <2>1, <3>1, CompletedStays DEF TypeOK, Kept
  <2>2. CASE ~Kept(t)
    <3>1. PICK p \in held'[t] : pay[p] = "completed"
      BY <1>4, <2>2 DEF Informed, Billing, Closing
    <3>2. p \in Payments
      BY <3>1 DEF TypeOK
    <3> QED BY <3>1, <3>2, CompletedStays
  <2> QED BY <2>1, <2>2
<1>5. Completed' # {} => latest' # NoPayment
  <2>1. CASE \E p \in Payments : Decided(p, "completed")
    BY <2>1 DEF Decided, PaymentsAssumption
  <2>2. CASE ~\E p \in Payments : Decided(p, "completed")
    <3>1. Completed' \subseteq Completed
      BY <2>2 DEF TypeOK, Completed, Effect, Asked, Decided, Moved, Ended, Untouched
    <3> QED BY <1>1, <3>1 DEF CloserSawMoney
  <2> QED BY <2>1, <2>2
<1> QED BY <1>2, <1>3, <1>4, <1>5 DEF CloserSawMoney

LEMMA EndedByStep ==
  ASSUME TypeOK, CloserSawMoney, EndedBy, Effect
  PROVE  EndedBy'
<1> USE DEF IsSessionTerminal
<1>1. IsSessionTerminal(sess') <=> closedBy' # "nobody"
  BY DEF EndedBy, Effect, Asked, Decided, Moved, Ended, Untouched
<1>2. closedBy' = "system" => \E p \in Payments : pay'[p] = "completed"
  <2>1. CASE closedBy = "system"
    BY <2>1, CompletedStays DEF EndedBy
  <2>2. CASE closedBy # "system" /\ closedBy' = "system"
    <3>1. \E t \in Tasks : stage[t] = "auto_close"
      BY <2>2 DEF Effect, Asked, Decided, Moved, Ended, Untouched
    <3>2. PICK p \in Payments : pay[p] = "completed"
      BY <3>1 DEF TypeOK, CloserSawMoney
    <3> QED BY <3>2, CompletedStays
  <2> QED BY <2>1, <2>2
<1> QED BY <1>1, <1>2 DEF EndedBy

LEMMA InvStep == PaymentsAssumption /\ Inv /\ [Next]_vars => Inv'
<1> SUFFICES ASSUME PaymentsAssumption, Inv, [Next]_vars PROVE Inv'
  OBVIOUS
<1>1. TypeOK'
  BY TypeStep DEF Inv
<1>2. Effect
  BY StepEffect DEF Inv
<1>3. \A u \in Tasks : Kept(u) \/ Informed(u)
  BY TaskEffect DEF Inv
<1> QED
  BY <1>1, <1>2, <1>3, StaffDecidesStep, OneStep, BilledStep, CloserStep,
     EndedByStep
  DEF Inv

LEMMA InvAlways == Spec => []Inv
BY InvInit, InvStep, PaymentsAssumption, PTL DEF Spec

-----------------------------------------------------------------------------

\* Whatever initiations, cancellations and closes overlap, a session never has
\* two payments outstanding (P1 of docs/INVARIANTS.md).
THEOREM OnePaymentAtATime == Spec => []OneNonTerminalPayment
<1>1. Inv => OneNonTerminalPayment
  BY DEF Inv
<1> QED BY <1>1, InvAlways, PTL

\* The system closes a session only for collected money, and the money is never
\* uncollected afterwards.
THEOREM SettledMeansPaid == Spec => []SystemCloseWasPaid
<1>1. Inv => SystemCloseWasPaid
  BY DEF Inv, EndedBy, Billed, SystemCloseWasPaid
<1> QED BY <1>1, InvAlways, PTL

\* Overlapping settles, cancels and force-closes never undo each other: every
\* change of a payment is one the transition table allows.
THEOREM PaymentsKeepToTheTable == Spec => PaymentsFollowTable
<1>1. Inv /\ [Next]_vars
        => [\A p \in Payments :
              pay[p] # "none" /\ pay'[p] # pay[p]
                => <<pay[p], pay'[p]>> \in PaymentTransitions]_vars
  <2> SUFFICES ASSUME Inv, [Next]_vars, NEW p \in Payments,
                      pay[p] # "none", pay'[p] # pay[p]
               PROVE  <<pay[p], pay'[p]>> \in PaymentTransitions
    OBVIOUS
  <2>1. Effect
    BY StepEffect DEF Inv
  <2>2. /\ pay[p] = "requires_staff_confirmation"
        /\ pay'[p] \in {"completed", "cancelled"}
    BY <2>1 DEF Inv, TypeOK, Effect, Asked, Decided, Moved, Ended, Untouched
  <2> QED BY <2>2 DEF PaymentTransitions, From
<1> QED BY <1>1, InvAlways, PTL DEF Spec, PaymentsFollowTable

\* A session that is over is never revived, whatever an overlapping request read
\* while it was alive (S3).
THEOREM SessionKeepsToTheTable == Spec => SessionFollowsTable
<1>1. Inv /\ [Next]_vars
        => [sess' # sess => <<sess, sess'>> \in SessionTransitions]_vars
  <2> SUFFICES ASSUME Inv, [Next]_vars, sess' # sess
               PROVE  <<sess, sess'>> \in SessionTransitions
    OBVIOUS
  <2>1. Effect
    BY StepEffect DEF Inv
  <2> QED
    BY <2>1 DEF Effect, Asked, Decided, Moved, Ended, Untouched,
                SessionTransitions, SessionStatus, From
<1> QED BY <1>1, InvAlways, PTL DEF Spec, SessionFollowsTable

-----------------------------------------------------------------------------
(***************************************************************************)
(* Settlement implements PaymentProtocol.                                  *)
(***************************************************************************)

LEMMA ProtocolInit == Init => Protocol!Init
<1> SUFFICES ASSUME Init PROVE Visit = "open" /\ Ledger = [p \in Payments |-> "none"]
  BY DEF Protocol!Init
<1>1. Visit = "open"
  BY DEF Init, Visit, IsSessionTerminal
<1>2. Ledger = [p \in Payments |-> "none"]
  <2>1. \A p \in Payments : pay[p] = "none"
    BY DEF Init
  <2> QED BY <2>1 DEF Ledger
<1> QED BY <1>1, <1>2

\* An entry of the ledger follows its row.
LEMMA LedgerUpdate ==
  ASSUME TypeOK, NEW p \in Payments,
         NEW d \in {"requires_staff_confirmation", "completed", "cancelled"},
         pay' = [pay EXCEPT ![p] = d]
  PROVE  Ledger' = [Ledger EXCEPT ![p] =
                      CASE d = "completed" -> "collected"
                        [] d = "cancelled" -> "withdrawn"
                        [] OTHER -> "outstanding"]
BY DEF TypeOK, Ledger

LEMMA ProtocolStep ==
  Inv /\ [Next]_vars => [Protocol!Next]_<<Visit, Ledger>>
<1> SUFFICES ASSUME Inv, [Next]_vars
             PROVE  Protocol!Next \/ (Visit' = Visit /\ Ledger' = Ledger)
  BY DEF Protocol!Next
<1>1. Effect
  BY StepEffect DEF Inv
<1>2. /\ \A p \in Payments :
           /\ pay[p] = "none" <=> Ledger[p] = "none"
           /\ p \in Outstanding <=> Ledger[p] = "outstanding"
           /\ pay[p] = "completed" => Ledger[p] = "collected"
  BY OutstandingIsStaff DEF Inv, TypeOK, StaffDecides, Ledger
<1>3. ASSUME NEW p \in Payments, Asked(p) PROVE Protocol!Ask(p)
  <2>1. Protocol!NothingOutstanding /\ Ledger[p] = "none"
    BY <1>2, <1>3 DEF Asked, HasNonTerminalPayment, Protocol!NothingOutstanding
  <2>2. Ledger' = [Ledger EXCEPT ![p] = "outstanding"]
    BY <1>3, LedgerUpdate DEF Inv, Asked
  <2>3. Visit' \in {Visit} \cup (IF Visit = "open" THEN {"frozen"} ELSE {})
    BY <1>3 DEF Asked, Visit, IsSessionTerminal
  <2> QED BY <2>1, <2>2, <2>3 DEF Protocol!Ask
<1>4. ASSUME NEW p \in Payments, NEW d \in {"completed", "cancelled"}, Decided(p, d)
      PROVE  Protocol!Decide(p)
  <2>1. Ledger[p] = "outstanding"
    BY <1>2, <1>4, OutstandingIsStaff DEF Inv, Decided
  <2>2. \E e \in {"collected", "withdrawn"} : Ledger' = [Ledger EXCEPT ![p] = e]
    BY <1>4, LedgerUpdate DEF Inv, Decided
  <2>3. Visit' = Visit
    BY <1>4 DEF Decided, Visit
  <2> QED BY <2>1, <2>2, <2>3 DEF Protocol!Decide
<1>5. CASE Moved
  <2>1. Ledger' = Ledger
    BY <1>5 DEF Moved, Ledger
  <2>2. \/ Visit = "frozen" /\ Visit' = "open"
        \/ Visit = "open" /\ Visit' = "paused"
        \/ Visit = "paused" /\ Visit' = "open"
    BY <1>5 DEF Moved, Visit, IsSessionTerminal
  <2> QED
    BY <2>1, <2>2 DEF Protocol!Next, Protocol!Thaw, Protocol!Pause, Protocol!Resume
<1>6. ASSUME NEW actor \in Closers \ {"nobody"}, Ended(actor) PROVE Protocol!Next
  <2>1. Ledger' = Ledger
    BY <1>6 DEF Ended, Ledger
  <2>2. Visit \in {"open", "frozen", "paused"}
    BY <1>6 DEF Ended, Visit, IsSessionTerminal
  <2>3. Visit' = IF actor = "system" THEN "settled" ELSE "left"
    BY <1>6 DEF Ended, Visit, IsSessionTerminal
  <2>4. CASE actor = "system"
    <3>1. PICK p \in Payments : pay[p] = "completed"
      BY <1>6, <2>4 DEF Ended, Inv, TypeOK, CloserSawMoney
    <3>2. Ledger[p] = "collected"
      BY <1>2, <3>1
    <3> QED
      BY <2>1, <2>2, <2>3, <2>4, <3>2
      DEF Protocol!Next, Protocol!SettleVisit, Protocol!Over
  <2>5. CASE actor # "system"
    BY <2>1, <2>2, <2>3, <2>5 DEF Protocol!Next, Protocol!Leave, Protocol!Over
  <2> QED BY <2>4, <2>5
<1>7. CASE Untouched
  BY <1>7 DEF Untouched, Visit, Ledger
<1> QED
  BY <1>1, <1>3, <1>4, <1>5, <1>6, <1>7 DEF Effect, Protocol!Next

\* All interleavings of all handlers' statements keep the promise of
\* PaymentProtocol: one bill at a time, each decided once, a visit that is over
\* stays over, and is settled only for collected money.
THEOREM Implementation == Spec => ImplementsProtocol
<1>1. Spec => Protocol!Init /\ [][Protocol!Next]_<<Visit, Ledger>>
  BY ProtocolInit, ProtocolStep, InvAlways, PTL DEF Spec
<1> QED BY <1>1 DEF ImplementsProtocol, Protocol!Spec

-----------------------------------------------------------------------------
(***************************************************************************)
(* Sums.  MapThenSumSet picks its elements one by one; that the recursive  *)
(* function behind it exists, and what it adds up to, is shown by the      *)
(* smallest subset for which it would fail.                                *)
(***************************************************************************)

\* The element a sum takes next.
Pick(s) == CHOOSE x \in s : TRUE

\* g holds the sum of the weights w over every subset of S.
Sums(g, w, S) ==
  g = [s \in SUBSET S |->
         IF s = {} THEN 0 ELSE w[Pick(s)] + g[s \ {Pick(s)}]]

\* Among some subsets of a finite set one has no smaller one.
LEMMA SmallestSubset ==
  ASSUME NEW S, IsFiniteSet(S), NEW B \in SUBSET SUBSET S, B # {}
  PROVE  \E T \in B : \A U \in B : U \subseteq T => U = T
<1>1. FiniteSubsetsOf(S) = SUBSET S
  BY FS_FiniteSubsetsOfFinite
<1>2. IsWellFoundedOn(StrictSubsetOrdering(S), SUBSET S)
  BY <1>1, FS_StrictSubsetOrderingWellFounded
<1>3. PICK T \in B : \A U \in B : <<U, T>> \notin StrictSubsetOrdering(S)
  BY <1>2, WFMin
<1> QED BY <1>3 DEF StrictSubsetOrdering

LEMMA PickIn == \A s : s # {} => Pick(s) \in s
BY DEF Pick

LEMMA SumAt ==
  ASSUME NEW g, NEW w, NEW S, Sums(g, w, S)
  PROVE  /\ g[{}] = 0
         /\ \A T \in SUBSET S : T # {} => g[T] = w[Pick(T)] + g[T \ {Pick(T)}]
<1>1. \A T \in SUBSET S :
        g[T] = IF T = {} THEN 0 ELSE w[Pick(T)] + g[T \ {Pick(T)}]
  BY DEF Sums
<1> QED BY <1>1

\* A sum does not depend on the set it was begun from.
LEMMA SumAgrees ==
  ASSUME NEW w, NEW S, NEW R, NEW g, NEW h, Sums(g, w, S), Sums(h, w, R),
         NEW X, IsFiniteSet(X), X \subseteq S, X \subseteq R
  PROVE  g[X] = h[X]
<1> DEFINE B == {T \in SUBSET X : g[T] # h[T]}
<1>1. SUFFICES ASSUME B # {} PROVE FALSE
  OBVIOUS
<1>2. PICK T \in B : \A U \in B : U \subseteq T => U = T
  <2>1. B \in SUBSET SUBSET X
    OBVIOUS
  <2> HIDE DEF B
  <2> QED BY <1>1, <2>1, SmallestSubset
<1>3. /\ g[{}] = 0 /\ h[{}] = 0
      /\ \A U \in SUBSET S : U # {} => g[U] = w[Pick(U)] + g[U \ {Pick(U)}]
      /\ \A U \in SUBSET R : U # {} => h[U] = w[Pick(U)] + h[U \ {Pick(U)}]
  BY SumAt
<1>4. T \in SUBSET X /\ T \in SUBSET S /\ T \in SUBSET R /\ g[T] # h[T]
  BY <1>2
<1>5. T # {}
  BY <1>3, <1>4
<1>6. g[T] = w[Pick(T)] + g[T \ {Pick(T)}] /\ h[T] = w[Pick(T)] + h[T \ {Pick(T)}]
  BY <1>3, <1>4, <1>5
<1>7. T \ {Pick(T)} \notin B
  BY <1>2, <1>5, PickIn
<1>8. g[T \ {Pick(T)}] = h[T \ {Pick(T)}]
  BY <1>2, <1>7
<1> QED BY <1>2, <1>6, <1>8

\* Every finite set has its sums.
LEMMA SumExists ==
  ASSUME NEW w, NEW S, IsFiniteSet(S)
  PROVE  \E g : Sums(g, w, S)
<1> DEFINE B == {T \in SUBSET S : ~\E g : Sums(g, w, T)}
<1>1. SUFFICES ASSUME B # {} PROVE FALSE
  OBVIOUS
<1>2. PICK T \in B : \A U \in B : U \subseteq T => U = T
  <2>1. B \in SUBSET SUBSET S
    OBVIOUS
  <2> HIDE DEF B
  <2> QED BY <1>1, <2>1, SmallestSubset
<1> DEFINE of == [U \in SUBSET T |-> CHOOSE g : Sums(g, w, U)]
           rest(s) == s \ {Pick(s)}
           sum(s) == IF s = {} THEN 0 ELSE w[Pick(s)] + of[rest(s)][rest(s)]
           h == [s \in SUBSET T |-> sum(s)]
<1>3. ASSUME NEW U \in SUBSET T, U # T PROVE Sums(of[U], w, U)
  <2>1. \E g : Sums(g, w, U)
    BY <1>2, <1>3
  <2> QED BY <2>1
<1>4. h = [s \in SUBSET T |-> h[s]] /\ \A s \in SUBSET T : h[s] = sum(s)
  <2> HIDE DEF sum
  <2> QED OBVIOUS
<1> HIDE DEF of, h
<1>5. ASSUME NEW U \in SUBSET T, U # T PROVE of[U][U] = h[U]
  <2> DEFINE V == rest(U)
  <2>1. /\ of[U][{}] = 0
        /\ \A W \in SUBSET U : W # {} => of[U][W] = w[Pick(W)] + of[U][W \ {Pick(W)}]
    <3>1. PICK g : g = of[U]
      OBVIOUS
    <3>2. Sums(g, w, U)
      BY <1>3, <1>5, <3>1
    <3> QED BY <3>1, <3>2, SumAt
  <2>2. CASE U = {}
    BY <1>4, <2>1, <2>2
  <2>3. CASE U # {}
    <3>1. V \in SUBSET U /\ V \in SUBSET T /\ V # T
      BY <1>5, <2>3, PickIn
    <3>2. Sums(of[U], w, U) /\ Sums(of[V], w, V)
      BY <1>3, <1>5, <3>1
    <3>3. IsFiniteSet(V)
      BY <1>2, FS_Subset
    <3>4. of[U][V] = of[V][V]
      <4> HIDE DEF V
      <4> QED BY <3>1, <3>2, <3>3, SumAgrees
    <3>5. of[U][U] = w[Pick(U)] + of[U][V]
      BY <2>1, <2>3
    <3> QED BY <1>4, <2>3, <3>4, <3>5
  <2> QED BY <2>2, <2>3
<1>6. \A s \in SUBSET T : h[s] = IF s = {} THEN 0 ELSE w[Pick(s)] + h[rest(s)]
  <2>1. ASSUME NEW s \in SUBSET T, s # {}
        PROVE  h[s] = w[Pick(s)] + h[rest(s)]
    <3>1. rest(s) \in SUBSET T /\ rest(s) # T
      BY <2>1, PickIn
    <3>2. of[rest(s)][rest(s)] = h[rest(s)]
      BY <1>5, <3>1
    <3> QED BY <1>4, <2>1, <3>2
  <2>2. h[{}] = 0
    BY <1>4
  <2> QED BY <2>1, <2>2
<1>7. h = [s \in SUBSET T |-> IF s = {} THEN 0 ELSE w[Pick(s)] + h[rest(s)]]
  BY <1>4, <1>6
<1>8. Sums(h, w, T)
  BY <1>7 DEF Sums
<1> QED BY <1>2, <1>8

\* A sum of positive weights is at least each of them, and more than any of two.
LEMMA SumBounds ==
  ASSUME NEW S, IsFiniteSet(S), NEW w, \A x \in S : w[x] \in Nat \ {0},
         NEW g, Sums(g, w, S)
  PROVE  /\ g[S] \in Nat
         /\ \A x \in S : g[S] >= w[x]
         /\ \A x, y \in S : x # y => g[S] > w[x]
<1> DEFINE Good(T) == /\ g[T] \in Nat
                      /\ \A x \in T : g[T] >= w[x]
                      /\ \A x, y \in T : x # y => g[T] > w[x]
           B == {T \in SUBSET S : ~Good(T)}
<1>1. SUFFICES ASSUME B # {} PROVE FALSE
  OBVIOUS
<1>2. PICK T \in B : \A U \in B : U \subseteq T => U = T
  <2>1. B \in SUBSET SUBSET S
    OBVIOUS
  <2> HIDE DEF B
  <2> QED BY <1>1, <2>1, SmallestSubset
<1>3. /\ g[{}] = 0
      /\ \A U \in SUBSET S : U # {} => g[U] = w[Pick(U)] + g[U \ {Pick(U)}]
  BY SumAt
<1>4. T # {}
  <2>1. Good({})
    BY <1>3
  <2> HIDE DEF Good
  <2> QED BY <1>2, <2>1
<1> DEFINE p == Pick(T)
           R == T \ {p}
<1>5. p \in T
  BY <1>4, PickIn
<1>6. Good(R)
  BY <1>2, <1>5
<1>7. g[T] = w[p] + g[R]
  BY <1>2, <1>4, <1>3
<1>8. w[p] \in Nat \ {0} /\ \A x \in T : w[x] \in Nat \ {0}
  BY <1>2, <1>5
<1>9. Good(T)
  <2> HIDE DEF p
  <2>1. g[T] \in Nat
    BY <1>6, <1>7, <1>8
  <2>2. ASSUME NEW x \in T PROVE g[T] >= w[x]
    <3>1. CASE x = p
      BY <1>6, <1>7, <1>8, <3>1
    <3>2. CASE x # p
      BY <1>6, <1>7, <1>8, <3>2
    <3> QED BY <3>1, <3>2
  <2>3. ASSUME NEW x \in T, NEW y \in T, x # y PROVE g[T] > w[x]
    <3>1. CASE x = p
      <4>1. y \in R /\ g[R] >= w[y]
        BY <1>6, <2>3, <3>1
      <4> QED BY <1>6, <1>7, <1>8, <3>1, <4>1
    <3>2. CASE x # p
      <4>1. g[R] >= w[x]
        BY <1>6, <3>2
      <4> QED BY <1>6, <1>7, <1>8, <4>1
    <3> QED BY <3>1, <3>2
  <2> QED BY <2>1, <2>2, <2>3
<1> QED BY <1>2, <1>9

-----------------------------------------------------------------------------
(***************************************************************************)
(* The money of a session.                                                 *)
(***************************************************************************)

\* However many orders and payments there may be, only finitely many were made.
FinitelyMany ==
  /\ IsFiniteSet(ActiveOrders) /\ IsFiniteSet(Completed)
  /\ \A t \in Tasks : IsFiniteSet(bill[t])
  /\ \A p \in Payments : IsFiniteSet(snap[p])

\* The orders change by an insert and by a cancellation.
LEMMA OrderSteps ==
  [Next]_vars => \/ \E t \in Tasks : PlaceOrderCommit(t)
                 \/ \E o \in Orders : CancelOrder(o)
                 \/ UNCHANGED order
<1>1. ASSUME NEW t \in Tasks, TaskStep(t)
      PROVE  PlaceOrderCommit(t) \/ UNCHANGED order
  <2>1. CASE PlaceOrder(t)
    BY <2>1 DEF PlaceOrder, PlaceOrderCheck
  <2>2. CASE InitiatePayment(t)
    BY <2>2 DEF InitiatePayment, ComputeBill, InitiateRead, InitiateFreeze,
                InitiateInsert
  <2>3. CASE SettlePaymentByStaff(t)
    BY <2>3 DEF SettlePaymentByStaff, SettleCheck, SettleUpdate, ListCompleted,
                CheckFresh, AutoClose
  <2>4. CASE CancelPaymentByStaff(t)
    BY <2>4 DEF CancelPaymentByStaff, CancelRead, CancelUpdate, ListOutstanding,
                ReleasePaymentPending
  <2>5. CASE ForceCloseByStaff(t)
    BY <2>5 DEF ForceCloseByStaff, ForceClose, ListStranded, WithdrawStranded
  <2>6. CASE SessionWorker(t)
    BY <2>6 DEF SessionWorker, AwaitCheck, AwaitUpdate, AbandonCheck, AbandonUpdate
  <2> QED BY <1>1, <2>1, <2>2, <2>3, <2>4, <2>5, <2>6 DEF TaskStep
<1>2. ASSUME NEW t \in Tasks, Abort(t) PROVE UNCHANGED order
  BY <1>2 DEF Abort
<1>3. CloseSession \/ Reactivate \/ UNCHANGED vars => UNCHANGED order
  BY DEF CloseSession, Reactivate, vars
<1> QED BY <1>1, <1>2, <1>3 DEF Next

LEMMA OrdersEffect ==
  ASSUME TypeOK, [Next]_vars
  PROVE  /\ \E o : ActiveOrders' \subseteq ActiveOrders \cup {o}
         /\ \A u \in Tasks : bill'[u] \in {bill[u], {}, ActiveOrders}
<1>1. \E o : ActiveOrders' \subseteq ActiveOrders \cup {o}
  <2>1. ASSUME NEW t \in Tasks, PlaceOrderCommit(t)
        PROVE  \E o : ActiveOrders' \subseteq ActiveOrders \cup {o}
    BY <2>1 DEF TypeOK, PlaceOrderCommit, ActiveOrders
  <2>2. ASSUME NEW o \in Orders, CancelOrder(o)
        PROVE  ActiveOrders' \subseteq ActiveOrders
    BY <2>2 DEF TypeOK, CancelOrder, ActiveOrders
  <2>3. CASE UNCHANGED order
    BY <2>3 DEF ActiveOrders
  <2> QED BY <2>1, <2>2, <2>3, OrderSteps
<1>2. ASSUME NEW u \in Tasks PROVE bill'[u] \in {bill[u], {}, ActiveOrders}
  <2>1. ASSUME NEW t \in Tasks, Return(t) PROVE bill'[u] \in {bill[u], {}}
    BY <2>1 DEF TypeOK, Return
  <2>2. ASSUME NEW t \in Tasks, ComputeBill(t)
        PROVE  bill'[u] \in {bill[u], ActiveOrders}
    BY <2>2 DEF TypeOK, ComputeBill
  <2>3. CASE UNCHANGED bill
    BY <2>3
  <2>4. \/ \E t \in Tasks : Return(t) \/ ComputeBill(t)
        \/ UNCHANGED bill
    <3> USE DEF local
    <3>1. ASSUME NEW t \in Tasks, TaskStep(t)
          PROVE  Return(t) \/ ComputeBill(t) \/ UNCHANGED bill
      <4>1. CASE PlaceOrder(t)
        BY <4>1 DEF PlaceOrder, PlaceOrderCheck, PlaceOrderCommit
      <4>2. CASE InitiatePayment(t)
        BY <4>2 DEF InitiatePayment, InitiateRead, InitiateFreeze, InitiateInsert
      <4>3. CASE SettlePaymentByStaff(t)
        BY <4>3 DEF SettlePaymentByStaff, SettleCheck, SettleUpdate, ListCompleted,
                    CheckFresh, AutoClose
      <4>4. CASE CancelPaymentByStaff(t)
        BY <4>4 DEF CancelPaymentByStaff, CancelRead, CancelUpdate, ListOutstanding,
                    ReleasePaymentPending
      <4>5. CASE ForceCloseByStaff(t)
        BY <4>5 DEF ForceCloseByStaff, ForceClose, ListStranded, WithdrawStranded
      <4>6. CASE SessionWorker(t)
        BY <4>6 DEF SessionWorker, AwaitCheck, AwaitUpdate, AbandonCheck, AbandonUpdate
      <4> QED BY <3>1, <4>1, <4>2, <4>3, <4>4, <4>5, <4>6 DEF TaskStep
    <3>2. ASSUME NEW t \in Tasks, Abort(t) PROVE Return(t)
      BY <3>2 DEF Abort
    <3>3. ASSUME NEW o \in Orders, CancelOrder(o) PROVE UNCHANGED bill
      BY <3>3 DEF CancelOrder
    <3>4. CloseSession \/ Reactivate \/ UNCHANGED vars => UNCHANGED bill
      BY DEF CloseSession, Reactivate, vars
    <3> QED BY <3>1, <3>2, <3>3, <3>4 DEF Next
  <2> QED BY <2>1, <2>2, <2>3, <2>4
<1> QED BY <1>1, <1>2

LEMMA FinitelyManyStep ==
  ASSUME TypeOK, FinitelyMany, [Next]_vars
  PROVE  FinitelyMany'
<1>1. Effect
  BY StepEffect
<1>2. IsFiniteSet(ActiveOrders')
  <2>1. PICK o : ActiveOrders' \subseteq ActiveOrders \cup {o}
    BY OrdersEffect
  <2>2. IsFiniteSet(ActiveOrders \cup {o})
    BY FS_AddElement DEF FinitelyMany
  <2> QED BY <2>1, <2>2, FS_Subset
<1>3. IsFiniteSet(Completed')
  <2>1. PICK p : Completed' \subseteq Completed \cup {p}
    BY <1>1 DEF TypeOK, Completed, Effect, Asked, Decided, Moved, Ended, Untouched
  <2>2. IsFiniteSet(Completed \cup {p})
    BY FS_AddElement DEF FinitelyMany
  <2> QED BY <2>1, <2>2, FS_Subset
<1>4. ASSUME NEW t \in Tasks PROVE IsFiniteSet(bill'[t])
  <2>1. bill'[t] \in {bill[t], {}, ActiveOrders}
    BY OrdersEffect
  <2> QED BY <2>1, FS_EmptySet DEF FinitelyMany
<1>5. ASSUME NEW p \in Payments PROVE IsFiniteSet(snap'[p])
  BY <1>1 DEF TypeOK, FinitelyMany, Effect, Asked, Decided, Moved, Ended, Untouched
<1> QED BY <1>2, <1>3, <1>4, <1>5 DEF FinitelyMany

LEMMA FinitelyManyAlways == Spec => []FinitelyMany
<1>1. Init => FinitelyMany
  <2> SUFFICES ASSUME Init PROVE FinitelyMany
    OBVIOUS
  <2>1. ActiveOrders = {} /\ Completed = {}
    BY DEF Init, ActiveOrders, Completed
  <2> QED BY <2>1, FS_EmptySet DEF Init, FinitelyMany
<1> QED BY <1>1, FinitelyManyStep, TypeCorrect, PTL DEF Spec

\* What is on a bill costs something.
LEMMA TotalIsPositive ==
  ASSUME PriceAssumption, NEW S \in SUBSET Orders, IsFiniteSet(S), S # {}
  PROVE  Total(S) \in Nat \ {0}
<1> DEFINE g == CHOOSE iter : iter = [s \in SUBSET S |->
                  IF s = {} THEN 0 ELSE Price[Pick(s)] + iter[s \ {Pick(s)}]]
<1>1. Total(S) = g[S]
  BY DEF Total, MapThenSumSet, MapThenFoldSet, Pick
<1>2. Sums(g, Price, S)
  <2>1. PICK h : Sums(h, Price, S)
    BY SumExists
  <2>2. h = [s \in SUBSET S |->
               IF s = {} THEN 0 ELSE Price[Pick(s)] + h[s \ {Pick(s)}]]
    BY <2>1 DEF Sums
  <2>3. g = [s \in SUBSET S |->
               IF s = {} THEN 0 ELSE Price[Pick(s)] + g[s \ {Pick(s)}]]
    BY <2>2
  <2> HIDE DEF g
  <2> QED BY <2>3 DEF Sums
<1> HIDE DEF g
<1>3. \A x \in S : Price[x] \in Nat \ {0}
  BY DEF PriceAssumption
<1>4. g[S] \in Nat /\ \A x \in S : g[S] >= Price[x]
  BY <1>2, <1>3, SumBounds
<1> QED BY <1>1, <1>3, <1>4

\* Two collections add up to more than either of them.
LEMMA CollectedExceeds ==
  ASSUME TypeOK, FinitelyMany, PriceAssumption,
         \A p \in Completed : snap[p] # {},
         NEW p \in Completed, NEW q \in Completed, p # q
  PROVE  CollectedTotal > Total(snap[p]) /\ Total(snap[p]) \in Nat
<1> DEFINE w == [x \in Payments |-> Total(snap[x])]
           g == CHOOSE iter : iter = [s \in SUBSET Completed |->
                  IF s = {} THEN 0 ELSE Total(snap[Pick(s)]) + iter[s \ {Pick(s)}]]
<1>1. CollectedTotal = g[Completed]
  BY DEF CollectedTotal, MapThenSumSet, MapThenFoldSet, Pick
<1>2. Completed \subseteq Payments
  BY DEF Completed
<1>3. \A x \in Completed : w[x] = Total(snap[x])
  BY <1>2
<1>4. \A x \in Completed : w[x] \in Nat \ {0}
  BY <1>2, <1>3, TotalIsPositive DEF TypeOK, FinitelyMany
<1> HIDE DEF w
<1>5. ASSUME NEW h
      PROVE  Sums(h, w, Completed)
               <=> h = [s \in SUBSET Completed |->
                     IF s = {} THEN 0 ELSE Total(snap[Pick(s)]) + h[s \ {Pick(s)}]]
  <2>1. \A s \in SUBSET Completed : s # {} => w[Pick(s)] = Total(snap[Pick(s)])
    BY <1>3, PickIn
  <2> QED BY <2>1 DEF Sums
<1>6. Sums(g, w, Completed)
  <2>1. \E h : Sums(h, w, Completed)
    BY SumExists DEF FinitelyMany
  <2> QED BY <1>5, <2>1
<1> HIDE DEF g
<1>7. g[Completed] > w[p]
  BY <1>4, <1>6, SumBounds DEF FinitelyMany
<1> QED BY <1>1, <1>3, <1>4, <1>7

\* A session that was charged twice, whichever step of the first settlement was
\* lost, does not escape the reconciliation of its bill.
THEOREM DoubleCollectionsAreSeen == Spec => []DoubleCollectionReported
<1>1. PriceAssumption /\ Inv /\ FinitelyMany => DoubleCollectionReported
  <2> SUFFICES ASSUME PriceAssumption, Inv, FinitelyMany, sess = "closed",
                      closedBy # "staff", Cardinality(Completed) > 1
               PROVE  latest # NoPayment /\ CollectedTotal # Total(snap[latest])
    BY DEF DoubleCollectionReported, DiscrepancyReported
  <2>1. Completed # {}
    BY FS_EmptySet
  <2>2. latest # NoPayment /\ latest \in Completed
    BY <2>1 DEF Inv, TypeOK, CloserSawMoney, Completed
  <2>3. PICK q \in Completed : q # latest
    <3>1. Completed # {latest}
      BY FS_Singleton
    <3> QED BY <2>2, <3>1
  <2>4. \A p \in Completed : snap[p] # {}
    BY DEF Inv, Billed, Completed
  <2>5. CollectedTotal > Total(snap[latest]) /\ Total(snap[latest]) \in Nat
    BY <2>2, <2>3, <2>4, CollectedExceeds DEF Inv
  <2> QED BY <2>2, <2>5
<1> QED BY <1>1, InvAlways, FinitelyManyAlways, PriceAssumption, PTL

=============================================================================
