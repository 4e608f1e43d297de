---------------------------- MODULE OverlapProofs ----------------------------
(***************************************************************************)
(* Theorems about Settlement: which overlaps of requests break the rules   *)
(* the documentation states, and that nothing else does.                   *)
(*                                                                         *)
(* Four rules are false of overlapping requests; OrderSlipsIn, LateOrder   *)
(* and ReleaseRace show three of them broken.  Each theorem here names the *)
(* statements that must not be pending at the same time (ThawApart,        *)
(* OrderApart, CloseApart, ForceApart) and proves the rule for every       *)
(* behaviour that keeps them apart, whatever else overlaps.  A backend     *)
(* that takes one request at a time keeps all of them apart.               *)
(***************************************************************************)
EXTENDS SettlementProofs

-----------------------------------------------------------------------------
(***************************************************************************)
(* What a task that arrives at a statement has just seen, and how it       *)
(* leaves the two statements of a force-close.                             *)
(***************************************************************************)

Still(u) == stage'[u] = stage[u] /\ held'[u] = held[u]

Arrived(u) ==
  /\ stage'[u] = "order_insert" => sess = "active" /\ UNCHANGED sess
  /\ stage'[u] = "insert" => sess = "payment_pending" /\ UNCHANGED sess
  /\ stage'[u] = "release" => ~HasNonTerminalPayment /\ UNCHANGED pay
  /\ stage'[u] = "settle"
       => \E p \in Payments :
            /\ held'[u] = {p} /\ pay[p] = "requires_staff_confirmation"
            /\ SnapshotFresh(p)
            /\ UNCHANGED <<order, pay, snap>>
  /\ stage'[u] = "auto_close"
       => /\ stage[u] = "check_fresh" /\ \A p \in held[u] : SnapshotFresh(p)
          /\ UNCHANGED <<order, snap, latest>>
  /\ stage'[u] = "withdraw"
       => \/ held'[u] = Outstanding /\ UNCHANGED pay
          \/ WithdrawStranded(u)

Left(u) ==
  /\ stage[u] = "list_stranded"
       => \/ "list_stranded" \in StopsAt
          \/ Outstanding = {} /\ UNCHANGED pay
          \/ stage'[u] = "withdraw" /\ held'[u] = Outstanding /\ UNCHANGED pay
  /\ stage[u] = "withdraw" => "withdraw" \in StopsAt \/ WithdrawStranded(u)

LEMMA Control ==
  ASSUME TypeOK, NEW t \in Tasks, NEW u \in Tasks
  PROVE  /\ \A s : Goto(t, s) => stage'[u] = IF u = t THEN s ELSE stage[u]
         /\ \A s, S : Begin(t, s, S)
              => /\ stage[t] = "idle"
                 /\ stage'[u] = IF u = t THEN s ELSE stage[u]
                 /\ held'[u] = IF u = t THEN S ELSE held[u]
         /\ Return(t) => /\ stage'[u] = IF u = t THEN "idle" ELSE stage[u]
                         /\ held'[u] = IF u = t THEN {} ELSE held[u]
         /\ \A S : held' = [held EXCEPT ![t] = S]
              => held'[u] = IF u = t THEN S ELSE held[u]
BY DEF TypeOK, Goto, Begin, Return

LEMMA Movements ==
  ASSUME TypeOK, [Next]_vars, NEW u \in Tasks
  PROVE  Still(u) \/ (Arrived(u) /\ Left(u))
<1> DEFINE Goal == Still(u) \/ (Arrived(u) /\ Left(u))
<1> USE DEF local, Still, Arrived, Left
<1>1. ASSUME NEW t \in Tasks, PlaceOrder(t) PROVE Goal
  BY <1>1, Control DEF PlaceOrder, PlaceOrderCheck, PlaceOrderCommit
<1>2. ASSUME NEW t \in Tasks, InitiatePayment(t) PROVE Goal
  <2>1. CASE ComputeBill(t)
    BY <2>1, Control DEF ComputeBill
  <2>2. CASE InitiateRead(t)
    BY <2>2, Control DEF InitiateRead
  <2>3. CASE InitiateFreeze(t) \/ InitiateInsert(t)
    BY <2>3, Control DEF InitiateFreeze, InitiateInsert
  <2> QED BY <1>2, <2>1, <2>2, <2>3 DEF InitiatePayment
<1>3. ASSUME NEW t \in Tasks, SettlePaymentByStaff(t) PROVE Goal
  <2>1. ASSUME NEW p \in Payments, SettleCheck(t, p) PROVE Goal
    BY <2>1, Control DEF SettleCheck
  <2>2. CASE SettleUpdate(t)
    BY <2>2, Control DEF SettleUpdate
  <2>3. CASE ListCompleted(t)
    BY <2>3, Control DEF ListCompleted
  <2>4. CASE CheckFresh(t)
    BY <2>4, Control DEF CheckFresh
  <2>5. CASE AutoClose(t)
    BY <2>5, Control DEF AutoClose
  <2> QED BY <1>3, <2>1, <2>2, <2>3, <2>4, <2>5 DEF SettlePaymentByStaff
<1>4. ASSUME NEW t \in Tasks, CancelPaymentByStaff(t) PROVE Goal
  <2>1. ASSUME NEW p \in Payments, CancelRead(t, p) PROVE Goal
    BY <2>1, Control DEF CancelRead
  <2>2. CASE CancelUpdate(t)
    BY <2>2, Control DEF CancelUpdate
  <2>3. CASE ListOutstanding(t)
    BY <2>3, Control DEF ListOutstanding
  <2>4. CASE ReleasePaymentPending(t)
    BY <2>4, Control DEF ReleasePaymentPending
  <2> QED BY <1>4, <2>1, <2>2, <2>3, <2>4 DEF CancelPaymentByStaff
<1>5. ASSUME NEW t \in Tasks, ForceCloseByStaff(t) PROVE Goal
  <2>1. CASE ForceClose(t)
    BY <2>1, Control DEF ForceClose
  <2>2. CASE ListStranded(t)
    BY <2>2, Control DEF ListStranded
  <2>3. CASE WithdrawStranded(t)
    <3>1. CASE u = t
      <4>1. stage[u] = "withdraw" /\ stage'[u] \in {"withdraw", "idle"}
        BY <2>3, <3>1, Control DEF WithdrawStranded
      <4> QED BY <2>3, <3>1, <4>1
    <3>2. CASE u # t
      BY <2>3, <3>2, Control DEF WithdrawStranded
    <3> QED BY <3>1, <3>2
  <2> QED BY <1>5, <2>1, <2>2, <2>3 DEF ForceCloseByStaff
<1>6. ASSUME NEW t \in Tasks, SessionWorker(t) PROVE Goal
  BY <1>6, Control
  DEF SessionWorker, AwaitCheck, AwaitUpdate, AbandonCheck, AbandonUpdate
<1>7. ASSUME NEW t \in Tasks, Abort(t) PROVE Goal
  BY <1>7, Control DEF Abort
<1>8. CASE (\E o \in Orders : CancelOrder(o)) \/ CloseSession \/ Reactivate
           \/ UNCHANGED vars
  BY <1>8 DEF CancelOrder, CloseSession, Reactivate, vars
<1> QED
  BY <1>1, <1>2, <1>3, <1>4, <1>5, <1>6, <1>7, <1>8 DEF Next, TaskStep

-----------------------------------------------------------------------------
(***************************************************************************)
(* Which statement is behind a change of the session or of the payments.   *)
(***************************************************************************)

\* Statements that change neither the session nor a payment.
Silent(t) ==
  \/ PlaceOrder(t) \/ ComputeBill(t) \/ InitiateRead(t)
  \/ \E p \in Payments : SettleCheck(t, p) \/ CancelRead(t, p)
  \/ ListCompleted(t) \/ CheckFresh(t) \/ ListOutstanding(t) \/ ListStranded(t)
  \/ AwaitCheck(t) \/ AbandonCheck(t) \/ Abort(t)

LEMMA SilentIsSilent ==
  ASSUME NEW t, Silent(t)
  PROVE  UNCHANGED <<sess, closedBy, pay, snap, latest>>
BY DEF Silent, PlaceOrder, PlaceOrderCheck, PlaceOrderCommit, ComputeBill,
       InitiateRead, SettleCheck, CancelRead, ListCompleted, CheckFresh,
       ListOutstanding, ListStranded, AwaitCheck, AbandonCheck, Abort

\* Next with the silent statements taken together.
LEMMA StepCases ==
  ASSUME [Next]_vars
  PROVE  \/ \E t \in Tasks :
              \/ Silent(t)
              \/ InitiateFreeze(t) \/ InitiateInsert(t)
              \/ SettleUpdate(t) \/ AutoClose(t)
              \/ CancelUpdate(t) \/ ReleasePaymentPending(t)
              \/ ForceClose(t) \/ WithdrawStranded(t)
              \/ AwaitUpdate(t) \/ AbandonUpdate(t)
         \/ \E o \in Orders : CancelOrder(o)
         \/ CloseSession \/ Reactivate \/ UNCHANGED vars
BY DEF Next, TaskStep, InitiatePayment, SettlePaymentByStaff, CancelPaymentByStaff,
       ForceCloseByStaff, SessionWorker, Silent

LEMMA SessionCauses ==
  ASSUME [Next]_vars, sess' # sess
  PROVE  \/ /\ sess = "active" /\ sess' = "payment_pending"
            /\ \E t \in Tasks : stage[t] = "freeze"
         \/ /\ sess' = "active" /\ UNCHANGED pay
            /\ \/ sess = "awaiting_reactivation"
               \/ sess = "payment_pending" /\ \E t \in Tasks : stage[t] = "release"
         \/ sess = "active" /\ sess' = "awaiting_reactivation" /\ UNCHANGED pay
         \/ IsSessionTerminal(sess')
<1>1. ASSUME NEW t \in Tasks, Silent(t) PROVE FALSE
  BY <1>1, SilentIsSilent
<1>2. ASSUME NEW t \in Tasks, InitiateFreeze(t)
      PROVE  stage[t] = "freeze" /\ sess = "active" /\ sess' = "payment_pending"
  BY <1>2 DEF InitiateFreeze, TransitionSessionToPaymentPending
<1>3. ASSUME NEW t \in Tasks,
             \/ InitiateInsert(t) \/ SettleUpdate(t) \/ CancelUpdate(t)
             \/ WithdrawStranded(t)
      PROVE  FALSE
  BY <1>3 DEF InitiateInsert, SettleUpdate, CancelUpdate, WithdrawStranded
<1>4. ASSUME NEW t \in Tasks, AutoClose(t) \/ ForceClose(t) \/ AbandonUpdate(t)
      PROVE  IsSessionTerminal(sess')
  BY <1>4 DEF AutoClose, ForceClose, AbandonUpdate, AbandonStaleSession,
              CloseSessionIfActive, IsSessionTerminal
<1>5. ASSUME NEW t \in Tasks, ReleasePaymentPending(t)
      PROVE  /\ stage[t] = "release" /\ sess = "payment_pending"
             /\ sess' = "active" /\ UNCHANGED pay
  BY <1>5 DEF ReleasePaymentPending, TransitionSessionToActive
<1>6. ASSUME NEW t \in Tasks, AwaitUpdate(t)
      PROVE  /\ sess = "active" /\ sess' = "awaiting_reactivation"
             /\ UNCHANGED pay
  BY <1>6 DEF AwaitUpdate, TransitionSessionToAwaitingReactivation
<1>7. ASSUME NEW o \in Orders, CancelOrder(o) PROVE FALSE
  BY <1>7 DEF CancelOrder
<1>8. CloseSession => IsSessionTerminal(sess')
  BY DEF CloseSession, CloseSessionIfActive, IsSessionTerminal
<1>9. Reactivate => /\ sess = "awaiting_reactivation" /\ sess' = "active"
                    /\ UNCHANGED pay
  BY DEF Reactivate, ReactivateSession
<1>10. ~UNCHANGED vars
  BY DEF vars
<1> QED
  BY <1>1, <1>2, <1>3, <1>4, <1>5, <1>6, <1>7, <1>8, <1>9, <1>10, StepCases

LEMMA AskCauses ==
  ASSUME TypeOK, StaffDecides, [Next]_vars
  PROVE  \/ Outstanding' \subseteq Outstanding
         \/ /\ sess' = "payment_pending"
            /\ \E t \in Tasks : stage[t] = "freeze"
         \/ UNCHANGED sess /\ \E t \in Tasks : stage[t] = "insert"
<1>1. Effect
  BY StepEffect
<1>2. CASE ~\E p \in Payments : Asked(p)
  <2>1. StaffDecides'
    BY <1>1, StaffDecidesStep
  <2>2. Outstanding' = {p \in Payments : pay'[p] = "requires_staff_confirmation"}
    BY <2>1 DEF StaffDecides, Outstanding, IsTerminalPayment
  <2> QED
    BY <1>1, <1>2, <2>2, OutstandingIsStaff
    DEF TypeOK, Effect, Decided, Moved, Ended, Untouched
<1>3. ASSUME NEW q \in Payments, Asked(q)
      PROVE  \/ /\ sess' = "payment_pending"
                /\ \E t \in Tasks : stage[t] = "freeze"
             \/ UNCHANGED sess /\ \E t \in Tasks : stage[t] = "insert"
  <2>1. pay'[q] # pay[q] /\ pay'[q] = "requires_staff_confirmation" /\ pay[q] = "none"
    BY <1>3 DEF TypeOK, Asked
  <2>2. ASSUME NEW t \in Tasks, InitiateFreeze(t)
        PROVE  stage[t] = "freeze" /\ sess' = "payment_pending"
    BY <2>1, <2>2 DEF InitiateFreeze, TransitionSessionToPaymentPending
  <2>3. ASSUME NEW t \in Tasks, InitiateInsert(t)
        PROVE  stage[t] = "insert" /\ UNCHANGED sess
    BY <2>3 DEF InitiateInsert
  <2>4. ASSUME NEW t \in Tasks,
               \/ Silent(t) \/ AutoClose(t) \/ ReleasePaymentPending(t)
               \/ ForceClose(t) \/ AwaitUpdate(t) \/ AbandonUpdate(t)
        PROVE  FALSE
    <3>1. UNCHANGED pay
      BY <2>4, SilentIsSilent
      DEF AutoClose, ReleasePaymentPending, ForceClose, AwaitUpdate, AbandonUpdate
    <3> QED BY <2>1, <3>1
  <2>5. ASSUME NEW t \in Tasks, SettleUpdate(t) \/ CancelUpdate(t) \/ WithdrawStranded(t)
        PROVE  FALSE
    <3>1. PICK p \in held[t] :
            \/ UpdatePaymentStatusExpected(p, "requires_staff_confirmation", "completed")
            \/ UpdatePaymentStatusExpected(p, "requires_staff_confirmation", "cancelled")
            \/ UNCHANGED pay
      BY <2>5 DEF SettleUpdate, CancelUpdate, WithdrawStranded
    <3>2. p \in Payments
      BY <3>1 DEF TypeOK
    <3> QED BY <2>1, <3>1, <3>2 DEF TypeOK, UpdatePaymentStatusExpected
  <2>6. ASSUME NEW o \in Orders, CancelOrder(o) PROVE UNCHANGED pay
    BY <2>6 DEF CancelOrder
  <2>7. CloseSession \/ Reactivate \/ UNCHANGED vars => UNCHANGED pay
    BY DEF CloseSession, Reactivate, vars
  <2> QED BY <2>1, <2>2, <2>3, <2>4, <2>5, <2>6, <2>7, StepCases
<1> QED BY <1>2, <1>3

LEMMA CloseCauses ==
  ASSUME [Next]_vars, closedBy' # closedBy
  PROVE  /\ closedBy' = "system"
              => \E t \in Tasks : /\ stage[t] = "auto_close"
                                  /\ UNCHANGED <<order, snap, latest>>
         /\ closedBy' = "staff"
              => \E t \in Tasks : ForceClose(t)
<1>1. ASSUME NEW t \in Tasks, Silent(t) PROVE FALSE
  BY <1>1, SilentIsSilent
<1>2. ASSUME NEW t \in Tasks,
             \/ InitiateFreeze(t) \/ InitiateInsert(t) \/ SettleUpdate(t)
             \/ CancelUpdate(t) \/ ReleasePaymentPending(t) \/ WithdrawStranded(t)
             \/ AwaitUpdate(t)
      PROVE  FALSE
  BY <1>2 DEF InitiateFreeze, InitiateInsert, SettleUpdate, CancelUpdate,
              ReleasePaymentPending, WithdrawStranded, AwaitUpdate
<1>3. ASSUME NEW t \in Tasks, AutoClose(t)
      PROVE  /\ closedBy' = "system" /\ stage[t] = "auto_close"
             /\ UNCHANGED <<order, snap, latest>>
  BY <1>3 DEF AutoClose, CloseSessionIfActive
<1>4. ASSUME NEW t \in Tasks, AbandonUpdate(t) PROVE closedBy' = "worker"
  BY <1>4 DEF AbandonUpdate, AbandonStaleSession
<1>5. ASSUME NEW t \in Tasks, ForceClose(t) PROVE closedBy' = "staff"
  BY <1>5 DEF ForceClose, CloseSessionIfActive
<1>6. CloseSession => closedBy' = "participant"
  BY DEF CloseSession, CloseSessionIfActive
<1>7. ~Reactivate /\ ~UNCHANGED vars /\ \A o \in Orders : ~CancelOrder(o)
  BY DEF Reactivate, vars, CancelOrder
<1> QED BY <1>1, <1>2, <1>3, <1>4, <1>5, <1>6, <1>7, StepCases

LEMMA SettleCauses ==
  ASSUME TypeOK, [Next]_vars, NEW p \in Payments, Decided(p, "completed")
  PROVE  UNCHANGED order /\ \E t \in Tasks : stage[t] = "settle" /\ p \in held[t]
<1>1. pay'[p] # pay[p] /\ pay'[p] = "completed"
  BY DEF TypeOK, Decided
<1>2. ASSUME NEW t \in Tasks,
             \/ Silent(t) \/ AutoClose(t) \/ ReleasePaymentPending(t)
             \/ ForceClose(t) \/ AwaitUpdate(t) \/ AbandonUpdate(t)
      PROVE  FALSE
  <2>1. UNCHANGED pay
    BY <1>2, SilentIsSilent
    DEF AutoClose, ReleasePaymentPending, ForceClose, AwaitUpdate, AbandonUpdate
  <2> QED BY <1>1, <2>1
<1>3. ASSUME NEW t \in Tasks, InitiateFreeze(t) \/ InitiateInsert(t) PROVE FALSE
  <2>1. UNCHANGED pay \/ \E q \in Payments : CreatePayment(t, q)
    BY <1>3 DEF InitiateFreeze, InitiateInsert
  <2> QED BY <1>1, <2>1 DEF TypeOK, CreatePayment
<1>4. ASSUME NEW t \in Tasks, CancelUpdate(t) \/ WithdrawStranded(t) PROVE FALSE
  <2>1. PICK q \in held[t] :
          UpdatePaymentStatusExpected(q, "requires_staff_confirmation", "cancelled")
    BY <1>4 DEF CancelUpdate, WithdrawStranded
  <2> QED BY <1>1, <2>1 DEF TypeOK, UpdatePaymentStatusExpected
<1>5. ASSUME NEW t \in Tasks, SettleUpdate(t)
      PROVE  stage[t] = "settle" /\ UNCHANGED order /\ p \in held[t]
  <2>1. PICK q \in held[t] :
          \/ UpdatePaymentStatusExpected(q, "requires_staff_confirmation", "completed")
          \/ UNCHANGED pay
    BY <1>5 DEF SettleUpdate
  <2>2. q = p
    BY <1>1, <2>1 DEF TypeOK, UpdatePaymentStatusExpected
  <2> QED BY <1>5, <2>2 DEF SettleUpdate
<1>6. /\ \A o \in Orders : ~CancelOrder(o)
      /\ ~CloseSession /\ ~Reactivate /\ ~UNCHANGED vars
  BY <1>1 DEF CancelOrder, CloseSession, Reactivate, vars
<1> QED BY <1>2, <1>3, <1>4, <1>5, <1>6, StepCases

-----------------------------------------------------------------------------
(***************************************************************************)
(* The release.                                                            *)
(***************************************************************************)

\* What a release or an insert read of the session is still true when it acts.
ThawInv ==
  /\ sess \in {"active", "awaiting_reactivation"} => ~HasNonTerminalPayment
  /\ \A t \in Tasks :
       /\ stage[t] = "insert" => sess \notin {"active", "awaiting_reactivation"}
       /\ stage[t] = "release" => ~HasNonTerminalPayment

LEMMA ThawStep ==
  ASSUME Inv, ThawInv, ThawApart, [Next]_vars
  PROVE  ThawInv'
<1> USE DEF IsSessionTerminal, HasNonTerminalPayment
<1>1. TypeOK /\ StaffDecides
  BY DEF Inv
<1>2. UNCHANGED pay => Outstanding' = Outstanding
  BY DEF Outstanding
<1>3. sess' \in {"active", "awaiting_reactivation"} => ~HasNonTerminalPayment'
  BY <1>1, <1>2, AskCauses, SessionCauses DEF ThawInv
<1>4. ASSUME NEW t \in Tasks, stage'[t] = "insert"
      PROVE  sess' \notin {"active", "awaiting_reactivation"}
  BY <1>1, <1>4, Movements, SessionCauses DEF Still, Arrived, ThawInv, ThawApart
<1>5. ASSUME NEW t \in Tasks, stage'[t] = "release"
      PROVE  ~HasNonTerminalPayment'
  BY <1>1, <1>2, <1>5, Movements, AskCauses DEF Still, Arrived, ThawInv, ThawApart
<1> QED BY <1>3, <1>4, <1>5 DEF ThawInv

\* An active session has a payment outstanding only if the release of a
\* cancellation overlapped an initiation (maybeReleasePaymentPending); every
\* other overlap, and a stop anywhere, is harmless.
THEOREM ThawedMeansUnbilled ==
  Spec /\ []ThawApart => []NothingOutstandingWhileActive
<1>1. Init => ThawInv
  BY DEF Init, ThawInv, HasNonTerminalPayment, Outstanding
<1>2. Inv /\ ThawInv /\ ThawApart /\ [Next]_vars => ThawInv'
  BY ThawStep
<1>3. ThawInv => NothingOutstandingWhileActive
  BY DEF ThawInv, NothingOutstandingWhileActive
<1> QED BY <1>1, <1>2, <1>3, InvAlways, PTL DEF Spec

-----------------------------------------------------------------------------
(***************************************************************************)
(* The frozen table.                                                       *)
(***************************************************************************)

\* An admitted order is never in front of a frozen session.
OrderInv == \A t \in Tasks : stage[t] = "order_insert" => sess # "payment_pending"

LEMMA OrderStep ==
  ASSUME Inv, OrderInv, OrderApart, [Next]_vars
  PROVE  OrderInv'
<1> SUFFICES ASSUME NEW t \in Tasks, stage'[t] = "order_insert"
             PROVE  sess' # "payment_pending"
  BY DEF OrderInv
<1>1. Still(t) \/ Arrived(t)
  BY Movements DEF Inv
<1> QED
  BY <1>1, SessionCauses
  DEF Still, Arrived, OrderInv, OrderApart, IsSessionTerminal

\* A frozen table gets a new order (against C4 of docs/INVARIANTS.md) only if an
\* initiation freezes it between the admission of an order and its insert.
THEOREM OrdersStayFrozen == Spec /\ []OrderApart => OrdersFrozenWhilePaying
<1>1. Init => OrderInv
  BY DEF Init, OrderInv
<1>2. Inv /\ OrderInv /\ OrderApart /\ [Next]_vars => OrderInv'
  BY OrderStep
<1>3. Inv /\ OrderInv /\ [Next]_vars
        => [sess = "payment_pending" => ActiveOrders' \subseteq ActiveOrders]_vars
  <2> SUFFICES ASSUME Inv, OrderInv, [Next]_vars, sess = "payment_pending"
               PROVE  ActiveOrders' \subseteq ActiveOrders
    OBVIOUS
  <2>1. \A t \in Tasks : ~PlaceOrderCommit(t)
    BY DEF OrderInv, PlaceOrderCommit
  <2> QED BY <2>1, OrderSteps DEF Inv, TypeOK, CancelOrder, ActiveOrders
<1> QED
  BY <1>1, <1>2, <1>3, InvAlways, PTL
     DEF Spec, OrdersFrozenWhilePaying, NoOrderWhilePaying

-----------------------------------------------------------------------------
(***************************************************************************)
(* The bill of the latest collection.                                      *)
(***************************************************************************)

Unplaced == {o \in Orders : order[o] = "absent"}

\* Bills name only orders that were placed.
BilledWerePlaced ==
  /\ \A t \in Tasks : bill[t] \cap Unplaced = {}
  /\ \A p \in Payments : snap[p] \cap Unplaced = {}

\* Every order still to be paid for that any collected bill names is on the
\* latest one, the one maybeCloseSettledSession compares with the orders.
LatestCovers == \A c \in Completed : ActiveOrders \cap snap[c] \subseteq snap[latest]

\* A payment that is about to be collected will be such a latest one, unless
\* somebody decides it first.
SettlerSaw ==
  \A t \in Tasks :
    stage[t] = "settle"
      => \A p \in held[t] :
           /\ pay[p] # "none"
           /\ pay[p] = "requires_staff_confirmation"
                => \A c \in Completed : ActiveOrders \cap snap[c] \subseteq snap[p]

CoverInv == BilledWerePlaced /\ LatestCovers /\ SettlerSaw

\* What a step does to the orders and to the bills that were presented.
LEMMA PresentedStays ==
  ASSUME TypeOK, [Next]_vars
  PROVE  /\ Unplaced' \subseteq Unplaced
         /\ ActiveOrders' \subseteq ActiveOrders \cup Unplaced
         /\ \A p \in Payments : pay[p] # "none" => /\ pay'[p] # "none"
                                                   /\ snap'[p] = snap[p]
<1>1. /\ Unplaced' \subseteq Unplaced
      /\ ActiveOrders' \subseteq ActiveOrders \cup Unplaced
  <2>1. ASSUME NEW t \in Tasks, PlaceOrderCommit(t)
        PROVE  \E o \in Unplaced : order' = [order EXCEPT ![o] = "placed"]
    BY <2>1 DEF PlaceOrderCommit, Unplaced
  <2>2. ASSUME NEW o \in Orders, CancelOrder(o)
        PROVE  order[o] = "placed" /\ order' = [order EXCEPT ![o] = "cancelled"]
    BY <2>2 DEF CancelOrder
  <2> QED BY <2>1, <2>2, OrderSteps DEF TypeOK, Unplaced, ActiveOrders
<1>2. Effect
  BY StepEffect
<1>3. ASSUME NEW p \in Payments, pay[p] # "none"
      PROVE  pay'[p] # "none" /\ snap'[p] = snap[p]
  BY <1>2, <1>3 DEF TypeOK, Effect, Asked, Decided, Moved, Ended, Untouched
<1> QED BY <1>1, <1>3

LEMMA BilledPlacedStep ==
  ASSUME TypeOK, BilledWerePlaced, [Next]_vars
  PROVE  BilledWerePlaced'
<1>1. Unplaced' \subseteq Unplaced
  BY PresentedStays
<1>2. ActiveOrders \cap Unplaced = {}
  BY DEF ActiveOrders, Unplaced
<1>3. ASSUME NEW u \in Tasks PROVE bill'[u] \cap Unplaced' = {}
  BY <1>1, <1>2, OrdersEffect DEF BilledWerePlaced
<1>4. ASSUME NEW p \in Payments PROVE snap'[p] \cap Unplaced' = {}
  <2>1. Effect
    BY StepEffect
  <2>2. snap'[p] = snap[p] \/ \E t \in Tasks : snap'[p] = bill[t]
    BY <2>1 DEF TypeOK, Effect, Asked, Decided, Moved, Ended, Untouched
  <2> QED BY <1>1, <2>2 DEF BilledWerePlaced
<1> QED BY <1>3, <1>4 DEF BilledWerePlaced

\* A collection either was there before the step or is the one a settlement makes,
\* which becomes the latest.
LEMMA Collections ==
  ASSUME TypeOK, [Next]_vars
  PROVE  \/ Completed' = Completed /\ latest' = latest
         \/ \E p \in Payments : /\ Decided(p, "completed") /\ latest' = p
                                /\ Completed' = Completed \cup {p}
<1>1. Effect
  BY StepEffect
<1>2. ASSUME NEW p \in Payments, Decided(p, "completed")
      PROVE  latest' = p /\ Completed' = Completed \cup {p}
  BY <1>2 DEF TypeOK, Decided, Completed
<1>3. CASE ~\E p \in Payments : Decided(p, "completed")
  <2>1. Completed' = Completed /\ latest' = latest
    BY <1>1, <1>3 DEF TypeOK, Effect, Asked, Decided, Moved, Ended, Untouched, Completed
  <2> QED BY <2>1
<1> QED BY <1>2, <1>3

LEMMA LatestStep ==
  ASSUME Inv, CoverInv, [Next]_vars
  PROVE  LatestCovers'
<1>1. TypeOK
  BY DEF Inv
<1>2. SUFFICES ASSUME NEW c \in Completed'
               PROVE  (ActiveOrders \cap snap[c] \subseteq snap[latest])'
  BY DEF LatestCovers
<1>3. CASE Completed' = Completed /\ latest' = latest
  <2>1. latest \in Completed
    BY <1>1, <1>2, <1>3 DEF Inv, CloserSawMoney, TypeOK, Completed
  <2>2. snap'[c] = snap[c] /\ snap'[latest] = snap[latest]
    BY <1>1, <1>2, <1>3, <2>1, PresentedStays DEF Completed
  <2>3. snap[c] \cap Unplaced = {}
    BY <1>2, <1>3 DEF CoverInv, BilledWerePlaced, Completed
  <2>4. ActiveOrders \cap snap[c] \subseteq snap[latest]
    BY <1>2, <1>3 DEF CoverInv, LatestCovers
  <2> QED BY <1>1, <1>3, <2>2, <2>3, <2>4, PresentedStays
<1>4. ASSUME NEW p \in Payments, Decided(p, "completed"), latest' = p,
             Completed' = Completed \cup {p}
      PROVE  (ActiveOrders \cap snap[c] \subseteq snap[latest])'
  <2>1. /\ UNCHANGED order
        /\ \E t \in Tasks : stage[t] = "settle" /\ p \in held[t]
    BY <1>1, <1>4, SettleCauses
  <2>2. ActiveOrders' = ActiveOrders /\ snap' = snap
    BY <1>4, <2>1 DEF ActiveOrders, Decided
  <2>3. CASE c = p
    BY <1>4, <2>2, <2>3
  <2>4. CASE c \in Completed
    <3>1. ActiveOrders \cap snap[c] \subseteq snap[p]
      BY <1>4, <2>1, <2>4 DEF CoverInv, SettlerSaw, Decided
    <3> QED BY <1>4, <2>2, <3>1
  <2> QED BY <1>2, <1>4, <2>3, <2>4
<1> QED BY <1>1, <1>3, <1>4, Collections

LEMMA SettlerStep ==
  ASSUME Inv, CoverInv, [Next]_vars
  PROVE  SettlerSaw'
<1>1. TypeOK
  BY DEF Inv
<1>2. SUFFICES ASSUME NEW t \in Tasks, stage'[t] = "settle", NEW p \in held'[t]
               PROVE  /\ pay'[p] # "none"
                      /\ pay'[p] = "requires_staff_confirmation"
                           => \A c \in Completed' :
                                (ActiveOrders \cap snap[c] \subseteq snap[p])'
  BY DEF SettlerSaw
<1>3. CASE Still(t)
  <2>1. p \in Payments /\ p \in held[t] /\ pay[p] # "none"
    BY <1>1, <1>2, <1>3 DEF Still, CoverInv, SettlerSaw, TypeOK
  <2>2. pay'[p] # "none" /\ snap'[p] = snap[p]
    BY <1>1, <2>1, PresentedStays
  <2>3. ASSUME pay'[p] = "requires_staff_confirmation", NEW c \in Completed'
        PROVE  (ActiveOrders \cap snap[c] \subseteq snap[p])'
    <3>1. Effect
      BY <1>1, StepEffect
    <3>2. pay[p] = "requires_staff_confirmation"
      BY <1>1, <2>1, <2>3, <3>1
      DEF TypeOK, Effect, Asked, Decided, Moved, Ended, Untouched
    <3>3. c \in Completed
      <4>1. ASSUME NEW q \in Payments, Decided(q, "completed") PROVE FALSE
        <5>1. q \in Outstanding /\ p \in Outstanding
          BY <2>1, <3>2, <4>1, OutstandingIsStaff DEF Inv, Decided
        <5>2. q = p
          BY <5>1 DEF Inv, OneNonTerminalPayment
        <5> QED BY <1>1, <2>1, <2>3, <4>1, <5>2 DEF Decided, TypeOK
      <4> QED BY <1>1, <2>3, <4>1, Collections
    <3>4. ActiveOrders \cap snap[c] \subseteq snap[p]
      BY <1>2, <1>3, <2>1, <3>2, <3>3 DEF Still, CoverInv, SettlerSaw
    <3>5. snap[c] \cap Unplaced = {}
      BY <3>3 DEF CoverInv, BilledWerePlaced, Completed
    <3>6. snap'[c] = snap[c]
      BY <1>1, <3>3, PresentedStays DEF Completed
    <3> QED BY <1>1, <2>2, <3>4, <3>5, <3>6, PresentedStays
  <2> QED BY <2>2, <2>3
<1>4. CASE Arrived(t)
  <2>1. /\ pay[p] = "requires_staff_confirmation" /\ SnapshotFresh(p)
        /\ UNCHANGED <<order, pay, snap>>
    BY <1>2, <1>4 DEF Arrived
  <2>2. ActiveOrders' = ActiveOrders
    BY <2>1 DEF ActiveOrders
  <2> QED BY <2>1, <2>2 DEF SnapshotFresh
<1> QED BY <1>1, <1>3, <1>4, Movements

LEMMA CoverAlways == Spec => []CoverInv
<1>1. Init => CoverInv
  BY DEF Init, CoverInv, BilledWerePlaced, LatestCovers, SettlerSaw, Completed
<1>2. Inv /\ CoverInv /\ [Next]_vars => CoverInv'
  <2> SUFFICES ASSUME Inv, CoverInv, [Next]_vars PROVE CoverInv'
    OBVIOUS
  <2>1. BilledWerePlaced'
    BY BilledPlacedStep DEF Inv, CoverInv
  <2> QED BY <2>1, LatestStep, SettlerStep DEF CoverInv
<1> QED BY <1>1, <1>2, InvAlways, PTL DEF Spec

\* However settlements, cancellations and orders overlap, the latest collected bill
\* covers every order still to be paid for that any collected bill covered: it is
\* sound of maybeCloseSettledSession to look at that bill alone.
THEOREM LatestBillIsAuthoritative == Spec => []LatestCovers
<1>1. CoverInv => LatestCovers
  BY DEF CoverInv
<1> QED BY <1>1, CoverAlways, PTL

-----------------------------------------------------------------------------
(***************************************************************************)
(* The close of a settled session.                                         *)
(***************************************************************************)

\* What CheckFresh saw is still true when AutoClose acts on it.
CloseInv == \A t \in Tasks : stage[t] = "auto_close" => ActiveOrders \subseteq snap[latest]

LEMMA CloseStep ==
  ASSUME Inv, CoverInv, CloseInv, CloseApart, LatestCovers', [Next]_vars
  PROVE  CloseInv'
<1>1. TypeOK
  BY DEF Inv
<1>2. SUFFICES ASSUME NEW t \in Tasks, stage'[t] = "auto_close"
               PROVE  (ActiveOrders \subseteq snap[latest])'
  BY DEF CloseInv
<1>3. CASE Still(t)
  <2>1. stage[t] = "auto_close" /\ ActiveOrders \subseteq snap[latest]
    BY <1>2, <1>3 DEF Still, CloseInv
  <2>2. latest \in Completed
    BY <1>1, <2>1 DEF Inv, CloserSawMoney, TypeOK, Completed
  <2>3. \A u \in Tasks : ~PlaceOrderCommit(u)
    BY <2>1 DEF CloseApart, PlaceOrderCommit
  <2>4. ActiveOrders' \subseteq ActiveOrders
    BY <1>1, <2>3, OrderSteps DEF TypeOK, CancelOrder, ActiveOrders
  <2>5. latest \in Completed' /\ snap'[latest] = snap[latest]
    BY <1>1, <2>2, Collections, PresentedStays DEF Completed
  <2>6. ActiveOrders' \cap snap'[latest] \subseteq snap'[latest']
    BY <2>5 DEF LatestCovers
  <2> QED BY <2>1, <2>4, <2>5, <2>6
<1>4. CASE Arrived(t)
  <2>1. /\ stage[t] = "check_fresh" /\ \A p \in held[t] : SnapshotFresh(p)
        /\ UNCHANGED <<order, snap, latest>>
    BY <1>2, <1>4 DEF Arrived
  <2>2. PICK p \in held[t] : pay[p] = "completed"
    BY <2>1 DEF Inv, CloserSawMoney
  <2>3. p \in Completed
    BY <1>1, <2>2 DEF TypeOK, Completed
  <2>4. ActiveOrders \subseteq snap[latest]
    BY <2>1, <2>2, <2>3 DEF SnapshotFresh, CoverInv, LatestCovers
  <2>5. ActiveOrders' = ActiveOrders
    BY <2>1 DEF ActiveOrders
  <2> QED BY <2>1, <2>4, <2>5
<1> QED BY <1>1, <1>3, <1>4, Movements

\* The system closes a session over an order that no collected bill covers only if
\* the order was admitted before the freeze and inserted between the freshness
\* check and the close (maybeCloseSettledSession).
THEOREM SettledCloseCoversOrders == Spec /\ []CloseApart => SystemCloseCoversOrders
<1>1. Init => CloseInv
  BY DEF Init, CloseInv
<1>2. Inv /\ CoverInv /\ CoverInv' /\ CloseInv /\ CloseApart /\ [Next]_vars => CloseInv'
  BY CloseStep DEF CoverInv
<1>3. CloseInv /\ [Next]_vars
        => [closedBy # "system" /\ closedBy' = "system"
              => ActiveOrders \subseteq snap[latest]]_vars
  BY CloseCauses DEF CloseInv
<1> QED
  BY <1>1, <1>2, <1>3, InvAlways, CoverAlways, PTL
     DEF Spec, SystemCloseCoversOrders, CloseCoversOrders

-----------------------------------------------------------------------------
(***************************************************************************)
(* The force-close.                                                        *)
(***************************************************************************)

\* After a force-close nothing can be billed any more, and what is outstanding is
\* still to be listed by it or among what it listed.
ForceInv ==
  closedBy = "staff"
    => /\ \A t \in Tasks : stage[t] # "insert"
       /\ \/ ~HasNonTerminalPayment
          \/ \E t \in Tasks : \/ stage[t] = "list_stranded"
                              \/ stage[t] = "withdraw" /\ Outstanding \subseteq held[t]

\* One withdrawal takes one payment off what is outstanding.
LEMMA Withdrawal ==
  ASSUME TypeOK, StaffDecides, NEW t \in Tasks, WithdrawStranded(t),
         Outstanding \subseteq held[t], Outstanding' \subseteq Outstanding
  PROVE  \/ ~HasNonTerminalPayment'
         \/ stage'[t] = "withdraw" /\ Outstanding' \subseteq held'[t]
<1>1. PICK p \in held[t] :
        /\ UpdatePaymentStatusExpected(p, "requires_staff_confirmation", "cancelled")
        /\ IF held[t] = {p}
             THEN Return(t)
             ELSE /\ held' = [held EXCEPT ![t] = @ \ {p}]
                  /\ UNCHANGED <<stage, bill>>
  BY DEF WithdrawStranded
<1>2. p \notin Outstanding'
  <2>1. p \in Payments
    BY <1>1 DEF TypeOK
  <2>2. pay[p] # "requires_staff_confirmation" => p \notin Outstanding
    BY OutstandingIsStaff
  <2>3. pay'[p] = IF pay[p] = "requires_staff_confirmation"
                    THEN "cancelled" ELSE pay[p]
    BY <1>1, <2>1 DEF TypeOK, UpdatePaymentStatusExpected
  <2> QED BY <2>2, <2>3 DEF Outstanding, IsTerminalPayment
<1>3. CASE held[t] = {p}
  BY <1>2, <1>3 DEF HasNonTerminalPayment
<1>4. CASE held[t] # {p}
  <2>1. stage'[t] = "withdraw" /\ held'[t] = held[t] \ {p}
    BY <1>1, <1>4 DEF TypeOK, WithdrawStranded
  <2> QED BY <1>2, <2>1
<1> QED BY <1>3, <1>4

\* A force-close that has ended the session runs to its end.
ForceCloseReturns == "list_stranded" \notin StopsAt /\ "withdraw" \notin StopsAt

LEMMA ForceStep ==
  ASSUME Inv, ForceInv, ForceApart', ForceCloseReturns, [Next]_vars
  PROVE  ForceInv'
<1>1. TypeOK /\ StaffDecides /\ EndedBy
  BY DEF Inv
<1>2. SUFFICES ASSUME closedBy' = "staff" PROVE ForceInv'
  BY DEF ForceInv
<1>3. CASE closedBy # "staff"
  <2>1. PICK t \in Tasks : ForceClose(t)
    BY <1>2, <1>3, CloseCauses
  <2>2. stage'[t] = "list_stranded"
    BY <1>1, <2>1, Control DEF ForceClose
  <2> QED BY <2>2 DEF ForceInv, ForceApart
<1>4. CASE closedBy = "staff"
  <2>1. IsSessionTerminal(sess)
    BY <1>1, <1>4 DEF EndedBy
  <2>2. sess' # "payment_pending"
    BY <2>1, SessionCauses DEF IsSessionTerminal
  <2>3. Outstanding' \subseteq Outstanding
    BY <1>1, <1>4, <2>2, AskCauses DEF ForceInv
  <2>4. ASSUME NEW t \in Tasks PROVE stage'[t] # "insert"
    BY <1>1, <1>4, <2>1, Movements DEF Still, Arrived, ForceInv, IsSessionTerminal
  <2>5. CASE ~HasNonTerminalPayment
    BY <2>3, <2>4, <2>5 DEF ForceInv, HasNonTerminalPayment
  <2>6. ASSUME NEW t \in Tasks,
               \/ stage[t] = "list_stranded"
               \/ stage[t] = "withdraw" /\ Outstanding \subseteq held[t]
        PROVE  \/ ~HasNonTerminalPayment'
               \/ stage'[t] = "list_stranded"
               \/ stage'[t] = "withdraw" /\ Outstanding' \subseteq held'[t]
    <3>1. CASE Still(t)
      BY <2>3, <2>6, <3>1 DEF Still
    <3>2. CASE Left(t)
      <4>1. CASE stage[t] = "list_stranded"
        BY <2>3, <3>2, <4>1 DEF Left, ForceCloseReturns, HasNonTerminalPayment
      <4>2. CASE stage[t] = "withdraw" /\ Outstanding \subseteq held[t]
        BY <1>1, <2>3, <3>2, <4>2, Withdrawal DEF Left, ForceCloseReturns
      <4> QED BY <2>6, <4>1, <4>2
    <3> QED BY <1>1, <3>1, <3>2, Movements
  <2>7. CASE HasNonTerminalPayment
    <3>1. PICK t \in Tasks : \/ stage[t] = "list_stranded"
                             \/ stage[t] = "withdraw" /\ Outstanding \subseteq held[t]
      BY <1>4, <2>7 DEF ForceInv
    <3>2. \/ ~HasNonTerminalPayment'
          \/ stage'[t] = "list_stranded"
          \/ stage'[t] = "withdraw" /\ Outstanding' \subseteq held'[t]
      BY <2>6, <3>1
    <3> QED BY <2>4, <3>2 DEF ForceInv
  <2> QED BY <2>5, <2>7
<1> QED BY <1>3, <1>4

\* A force-close that runs to its end leaves no payment outstanding unless an
\* initiation that read the session as frozen inserts its payment after the
\* close (ForceCloseByStaff).
THEOREM ForceCloseLeavesNothing ==
  ASSUME ForceCloseReturns
  PROVE  Spec /\ []ForceApart => []ForceCloseWithdrawsPayments
<1>1. Init => ForceInv
  BY DEF Init, ForceInv
<1>2. Inv /\ ForceInv /\ ForceApart' /\ [Next]_vars => ForceInv'
  BY ForceStep
<1>3. ForceInv => ForceCloseWithdrawsPayments
  BY DEF ForceInv, ForceCloseWithdrawsPayments
<1> QED BY <1>1, <1>2, <1>3, InvAlways, PTL DEF Spec

-----------------------------------------------------------------------------

\* Whoever acts for the session is alone.
OneAtATime == \E t : Tasks = {t}

LEMMA AloneIsApart ==
  OneAtATime => ThawApart /\ OrderApart /\ CloseApart /\ ForceApart
BY DEF OneAtATime, ThawApart, OrderApart, CloseApart, ForceApart

LEMMA AloneStaysApart ==
  ASSUME OneAtATime
  PROVE  Spec => [](ThawApart /\ OrderApart /\ CloseApart /\ ForceApart)
<1>1. ThawApart /\ OrderApart /\ CloseApart /\ ForceApart
  BY AloneIsApart
<1> QED BY <1>1, PTL

\* With one request at a time nothing overlaps: three rules of the documentation
\* hold wherever the request stops ...
COROLLARY SerialRules ==
  ASSUME OneAtATime
  PROVE  Spec => /\ []NothingOutstandingWhileActive
                 /\ OrdersFrozenWhilePaying
                 /\ SystemCloseCoversOrders
<1>1. Spec => [](ThawApart /\ OrderApart /\ CloseApart /\ ForceApart)
  BY AloneStaysApart
<1> QED
  BY <1>1, ThawedMeansUnbilled, OrdersStayFrozen, SettledCloseCoversOrders, PTL

\* ... and the fourth when a force-close does not stop half way.
COROLLARY SerialForceClose ==
  ASSUME OneAtATime, ForceCloseReturns
  PROVE  Spec => []ForceCloseWithdrawsPayments
<1>1. Spec => [](ThawApart /\ OrderApart /\ CloseApart /\ ForceApart)
  BY AloneStaysApart
<1>2. Spec /\ []ForceApart => []ForceCloseWithdrawsPayments
  BY ForceCloseLeavesNothing
<1> QED BY <1>1, <1>2, PTL

=============================================================================
