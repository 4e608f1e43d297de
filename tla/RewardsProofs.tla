----------------------------- MODULE RewardsProofs -----------------------------
(***************************************************************************)
(* Proofs about Rewards, for any tasks, sessions, payments, phones, limits *)
(* and rates.                                                              *)
(*                                                                         *)
(* A redemption keeps the limits that hold when it is committed because    *)
(* what was found under the lock of the promo's row stays true while it is *)
(* held (Good, Exclusive), and because the counter of the row is the       *)
(* number of redemptions (Counted).  A session is counted as a visit       *)
(* because a request that counts none has seen an earn of that session,    *)
(* and earns stay (Good, Visits).  Inv is the conjunction.                 *)
(***************************************************************************)
EXTENDS Rewards, FiniteSetTheorems, TLAPS

Tx == {"inserted", "locked", "counted"}

\* What a request has found and what still holds of it.
Good(x) ==
  /\ x.pc \in Tx \cup {"quoted"} => x.session \in Sessions
  /\ x.pc \in Tx => x.payment \in Payments /\ payment[x.payment].status = "none"
  /\ x.pc \in {"locked", "counted"} => Redeemable(x.phone)
  /\ x.pc = "counted" => UnderPhoneLimit(x.phone)
  /\ x.pc \in {"settled", "accruing"} =>
       /\ x.payment \in Payments /\ payment[x.payment].status = "completed"
       /\ payment[x.payment].session = x.session
  /\ x.pc = "accruing" /\ x.visit = 0 => EarnsOf(x.session) # {}

\* No two transactions insert one payment or hold the promo's row.
Exclusive ==
  \A t, u \in Tasks :
    \/ InTx(t) /\ InTx(u) /\ task[t].payment = task[u].payment
    \/ HoldsPromo(t) /\ HoldsPromo(u)
    => t = u

Counted ==
  /\ IsFiniteSet(redemptions) /\ promo.redeemed = Cardinality(redemptions)
  /\ \A r \in redemptions : payment[r.ticket].status # "none"
  /\ \A p \in Payments : payment[p].status # "none" => payment[p].session \in Sessions

Visits ==
  /\ IsFiniteSet(ledger.earnedFor) /\ IsFiniteSet(EarningSessions)
  /\ \A p \in ledger.earnedFor : payment[p].status = "completed"
  /\ VisitsCoverSessions

Inv ==
  /\ TypeOK /\ \A t \in Tasks : Good(task[t])
  /\ Exclusive /\ Counted /\ LedgerBalances /\ Visits

-----------------------------------------------------------------------------
LEMMA IdleGood == Idle \in Task /\ Good(Idle) /\ Idle.pc = "idle"
BY DEF Idle, Task, Good, Tx

\* The record of one request is replaced by one that is good.
LEMMA TaskReplaced ==
  ASSUME Inv, NEW t \in Tasks, NEW x \in Task, task' = [task EXCEPT ![t] = x],
         day' \in 0..1, UNCHANGED <<promoVars, payment, loyaltyVars>>, Good(x),
         x.pc \in Tx => \A u \in Tasks : u # t /\ InTx(u) => task[u].payment # x.payment,
         x.pc \in {"locked", "counted"} => \A u \in Tasks : u # t => ~HoldsPromo(u)
  PROVE  Inv'
<1>1. UNCHANGED <<promo, redemptions, account, ledger, payment>>
  BY DEF promoVars, loyaltyVars
<1>2. task' \in [Tasks -> Task]
  BY DEF Inv, TypeOK
<1>3. \A u \in Tasks : task'[u] = IF u = t THEN x ELSE task[u]
  BY DEF Inv, TypeOK
<1>4. /\ \A phone : Redeemable(phone)' <=> Redeemable(phone)
      /\ \A phone : UnderPhoneLimit(phone)' <=> UnderPhoneLimit(phone)
      /\ \A s : EarnsOf(s)' = EarnsOf(s)
  BY <1>1 DEF Redeemable, UnderPhoneLimit, RedeemedBy, EarnsOf
<1>5. ASSUME NEW u \in Tasks PROVE Good(task[u])'
  <2>1. CASE u = t
    BY <1>1, <1>3, <1>4, <2>1 DEF Good
  <2>2. CASE u # t
    <3>1. Good(task[u]) /\ task'[u] = task[u]
      BY <1>3, <2>2 DEF Inv
    <3> QED BY <1>1, <1>4, <3>1 DEF Good
  <2> QED BY <2>1, <2>2
<1>6. Exclusive'
  BY <1>3 DEF Inv, Exclusive, InTx, HoldsPromo, Tx
<1>7. TypeOK'
  BY <1>1, <1>2 DEF Inv, TypeOK
<1>8. Counted' /\ LedgerBalances' /\ Visits'
  BY <1>1 DEF Inv, Counted, LedgerBalances, Visits, VisitsCoverSessions, EarningSessions, EarnsOf
<1> QED BY <1>5, <1>6, <1>7, <1>8 DEF Inv

LEMMA TaskShape ==
  ASSUME Inv, NEW t \in Tasks
  PROVE  task[t] \in Task /\ Good(task[t]) /\ task \in [Tasks -> Task]
BY DEF Inv, TypeOK

LEMMA ToIdle ==
  ASSUME Inv, NEW t \in Tasks, task' = [task EXCEPT ![t] = Idle],
         day' \in 0..1, UNCHANGED <<promoVars, payment, loyaltyVars>>
  PROVE  Inv'
<1>1. Idle.pc \notin Tx /\ Idle.pc \notin {"locked", "counted"}
  BY IdleGood DEF Tx
<1> QED BY <1>1, IdleGood, TaskReplaced

LEMMA DayTyped == ASSUME Inv, day' = day PROVE day' \in 0..1
BY DEF Inv, TypeOK

LEMMA QuoteInv ==
  ASSUME Inv, NEW t \in Tasks, NEW s \in Sessions, NEW phone \in Spellings \cup {NoPhone},
         Quote(t, s, phone)
  PROVE  Inv'
<1> DEFINE x == [Idle EXCEPT !.pc = "quoted", !.session = s, !.phone = phone]
<1>1. x \in Task /\ x.pc = "quoted" /\ x.session = s
  BY IdleGood DEF Task, Idle
<1>2. Good(x) /\ x.pc \notin Tx
  BY <1>1 DEF Good, Tx
<1> HIDE DEF x
<1>3. task' = [task EXCEPT ![t] = x] /\ UNCHANGED <<promoVars, payment, loyaltyVars>>
      /\ day' = day
  BY DEF Quote, x
<1> QED BY <1>1, <1>2, <1>3, DayTyped, TaskReplaced

LEMMA InsertPaymentInv ==
  ASSUME Inv, NEW t \in Tasks, NEW p \in Payments, InsertPayment(t, p) PROVE Inv'
<1> DEFINE x == [task[t] EXCEPT !.pc = "inserted", !.payment = p, !.day = day]
<1>1. task[t] \in Task /\ Good(task[t]) /\ task[t].pc = "quoted" /\ day \in Nat
  <2>1. day \in Nat
    BY DEF Inv, TypeOK
  <2> QED BY <2>1, TaskShape DEF InsertPayment
<1>2. x \in Task /\ x.pc = "inserted" /\ x.payment = p /\ x.session = task[t].session
  BY <1>1 DEF Task
<1>3. task' = [task EXCEPT ![t] = x]
  BY DEF InsertPayment, Inv, TypeOK
<1>4. Good(x)
  BY <1>1, <1>2 DEF Good, Tx, InsertPayment
<1>5. \A u \in Tasks : u # t /\ InTx(u) => task[u].payment # x.payment
  BY <1>2 DEF InsertPayment
<1>6. UNCHANGED <<promoVars, payment, loyaltyVars>> /\ day' = day
  BY DEF InsertPayment
<1> HIDE DEF x
<1> QED BY <1>2, <1>3, <1>4, <1>5, <1>6, DayTyped, TaskReplaced

\* One more step of the transaction that has the promo's row.
LEMMA Advances ==
  ASSUME Inv, NEW t \in Tasks, NEW pc \in {"locked", "counted"},
         InTx(t), task' = [task EXCEPT ![t].pc = pc], Redeemable(task[t].phone),
         pc = "counted" => UnderPhoneLimit(task[t].phone),
         \A u \in Tasks : u # t => ~HoldsPromo(u),
         UNCHANGED <<promoVars, payment, day, loyaltyVars>>
  PROVE  Inv'
<1> DEFINE x == [task[t] EXCEPT !.pc = pc]
<1>1. /\ x \in Task /\ x.pc = pc /\ x.session = task[t].session
      /\ x.payment = task[t].payment /\ x.phone = task[t].phone
      /\ task' = [task EXCEPT ![t] = x]
  BY TaskShape DEF Task
<1>2. Good(x)
  <2>1. Good(task[t]) /\ task[t].pc \in Tx
    BY TaskShape DEF InTx, Tx
  <2> HIDE DEF x
  <2> QED BY <1>1, <2>1 DEF Good, Tx
<1> HIDE DEF x
<1>3. \A u \in Tasks : u # t /\ InTx(u) => task[u].payment # x.payment
  BY <1>1 DEF Inv, Exclusive
<1> QED BY <1>1, <1>2, <1>3, DayTyped, TaskReplaced

LEMMA LockPromoInv == ASSUME Inv, NEW t \in Tasks, LockPromo(t) PROVE Inv'
<1>1. InTx(t) /\ \A u \in Tasks : ~HoldsPromo(u)
  BY DEF LockPromo, InTx, PromoLocked
<1> QED BY <1>1, Advances DEF LockPromo

LEMMA CountByPhoneInv == ASSUME Inv, NEW t \in Tasks, CountByPhone(t) PROVE Inv'
<1>1. InTx(t) /\ HoldsPromo(t)
  BY DEF CountByPhone, InTx, HoldsPromo
<1>2. \A u \in Tasks : u # t => ~HoldsPromo(u)
  BY <1>1 DEF Inv, Exclusive
<1>3. Redeemable(task[t].phone)
  BY TaskShape DEF Good, CountByPhone
<1> QED BY <1>1, <1>2, <1>3, Advances DEF CountByPhone

LEMMA RestInv ==
  ASSUME Inv, NEW t \in Tasks, AttachToExisting(t) \/ RollBack(t) \/ Stop(t) PROVE Inv'
BY ToIdle, DayTyped DEF AttachToExisting, RollBack, Stop

LEMMA AccrueReadInv ==
  ASSUME Inv, NEW t \in Tasks, NEW points \in Rates, AccrueRead(t, points) PROVE Inv'
<1> DEFINE visit == IF EarnsOf(task[t].session) = {} THEN 1 ELSE 0
           x == [task[t] EXCEPT !.pc = "accruing", !.points = points, !.visit = visit]
<1>1. task[t] \in Task /\ Good(task[t]) /\ task[t].pc = "settled"
  BY TaskShape DEF AccrueRead
<1>2. points \in Nat /\ visit \in 0..1
  BY RewardsAssumption
<1>3. task' = [task EXCEPT ![t] = x]
  BY DEF AccrueRead, Inv, TypeOK
<1>4. visit = 0 => EarnsOf(task[t].session) # {}
  OBVIOUS
<1> HIDE DEF visit
<1>5. /\ x \in Task /\ x.pc = "accruing" /\ x.payment = task[t].payment
      /\ x.session = task[t].session /\ x.visit = visit
  BY <1>1, <1>2 DEF Task
<1>6. UNCHANGED <<promoVars, payment, loyaltyVars>> /\ day' = day
  BY DEF AccrueRead
<1> HIDE DEF x
<1>7. Good(x) /\ x.pc \notin Tx /\ x.pc \notin {"locked", "counted"}
  BY <1>1, <1>4, <1>5 DEF Good, Tx
<1> QED BY <1>3, <1>5, <1>6, <1>7, DayTyped, TaskReplaced

LEMMA NextDayInv == ASSUME Inv, NextDay PROVE Inv'
<1>1. day' \in 0..1 /\ UNCHANGED <<promo, redemptions, account, ledger, payment, task>>
  BY DEF NextDay, promoVars, loyaltyVars
<1>2. \A t \in Tasks : Good(task[t])'
  BY <1>1 DEF Inv, Good, Redeemable, UnderPhoneLimit, RedeemedBy, EarnsOf
<1> QED BY <1>1, <1>2
        DEF Inv, TypeOK, Exclusive, InTx, HoldsPromo, Counted, LedgerBalances, Visits,
            VisitsCoverSessions, EarningSessions, EarnsOf

-----------------------------------------------------------------------------
(* Steps that write rows. *)

\* While nobody holds the promo's row its limits bind no request.
LEMMA PromoEdited ==
  ASSUME Inv, ~PromoLocked, promo' \in Promo, promo'.redeemed = promo.redeemed,
         UNCHANGED <<redemptions, payment, day, loyaltyVars, task>>
  PROVE  Inv'
<1>1. UNCHANGED <<account, ledger>>
  BY DEF loyaltyVars
<1>2. \A t \in Tasks : task[t].pc \notin {"locked", "counted"}
  BY DEF PromoLocked, HoldsPromo
<1>3. \A t \in Tasks : Good(task[t])'
  BY <1>1, <1>2 DEF Inv, Good, EarnsOf
<1>4. Counted' /\ Exclusive'
  BY DEF Inv, Counted, Exclusive, InTx, HoldsPromo
<1>5. LedgerBalances' /\ Visits'
  BY <1>1 DEF Inv, LedgerBalances, Visits, VisitsCoverSessions, EarningSessions, EarnsOf
<1> QED BY <1>1, <1>3, <1>4, <1>5 DEF Inv, TypeOK

LEMMA OwnerInv ==
  ASSUME Inv,
         \/ \E max \in Limits \cup {NoLimit}, per \in Limits \cup {0} : UpdatePromo(max, per)
         \/ \E on \in BOOLEAN : SetActive(on)
  PROVE  Inv'
<1>1. promo \in Promo
  BY DEF Inv, TypeOK
<1>2. promo' \in Promo /\ promo'.redeemed = promo.redeemed
  BY <1>1 DEF UpdatePromo, SetActive, Promo
<1> QED BY <1>2, PromoEdited DEF UpdatePromo, SetActive

\* Earns are of completed payments, whose rows stay.
LEMMA EarnsKept ==
  ASSUME Inv, ledger' = ledger, NEW p \in Payments, NEW y,
         payment' = [payment EXCEPT ![p] = y], payment[p].status # "completed"
  PROVE  /\ \A s : EarnsOf(s)' = EarnsOf(s)
         /\ \A q \in Payments : payment[q].status = "completed" => payment'[q] = payment[q]
<1>1. \A q \in Payments : payment[q].status = "completed" => payment'[q] = payment[q]
  BY DEF Inv, TypeOK
<1>2. ledger.earnedFor \subseteq Payments
  BY DEF Inv, TypeOK, Ledger
<1> QED BY <1>1, <1>2 DEF Inv, Visits, EarnsOf

LEMMA VisitsKept ==
  ASSUME Inv, UNCHANGED <<account, ledger>>, NEW p \in Payments, NEW y,
         payment' = [payment EXCEPT ![p] = y], payment[p].status # "completed"
  PROVE  Visits' /\ LedgerBalances'
<1>1. EarningSessions' = EarningSessions
  <2>1. \A s : EarnsOf(s)' = EarnsOf(s)
    BY EarnsKept
  <2> QED BY <2>1 DEF EarningSessions
<1>2. ledger.earnedFor \subseteq Payments
  BY DEF Inv, TypeOK, Ledger
<1>3. \A q \in ledger.earnedFor : payment'[q].status = "completed"
  BY <1>2, EarnsKept DEF Inv, Visits
<1> QED BY <1>1, <1>3 DEF Inv, Visits, VisitsCoverSessions, LedgerBalances

LEMMA CommitPaymentInv == ASSUME Inv, NEW t \in Tasks, CommitPayment(t) PROVE Inv'
<1> DEFINE p == task[t].payment
           s == task[t].session
           r == [ticket |-> p, number |-> Normalized(task[t].phone)]
           y == [status |-> "pending", session |-> s]
<1>1. /\ task[t].pc = "counted" /\ task[t] \in Task
      /\ p \in Payments /\ payment[p].status = "none" /\ s \in Sessions
  BY TaskShape DEF CommitPayment, Good, Tx
<1>2. /\ payment' = [payment EXCEPT ![p] = y]
      /\ redemptions' = redemptions \cup {r}
      /\ promo' = [promo EXCEPT !.redeemed = @ + 1]
      /\ task' = [task EXCEPT ![t] = Idle]
      /\ UNCHANGED <<day, account, ledger>>
  BY DEF CommitPayment, loyaltyVars
<1>3. r \in [ticket : Payments, number : Spellings \cup {NoPhone}] /\ r.ticket = p
  BY <1>1, RewardsAssumption DEF Normalized, Task
<1>4. y \in Payment /\ y.status = "pending" /\ y.session = s
  BY <1>1 DEF Payment
<1>5. /\ promo \in Promo /\ promo' \in Promo /\ promo'.redeemed = promo.redeemed + 1
  BY <1>2 DEF Inv, TypeOK, Promo
<1> HIDE DEF r, y
<1>6. TypeOK'
  BY <1>1, <1>2, <1>3, <1>4, <1>5, IdleGood DEF Inv, TypeOK
<1>7. HoldsPromo(t) /\ \A u \in Tasks : u # t => ~HoldsPromo(u)
  BY <1>1 DEF Inv, Exclusive, HoldsPromo
<1>8. \A u \in Tasks : task'[u] = IF u = t THEN Idle ELSE task[u]
  BY <1>2, TaskShape
<1>9. Exclusive'
  BY <1>8, IdleGood DEF Inv, Exclusive, InTx, HoldsPromo
<1>10. \A q \in Payments : payment'[q] = IF q = p THEN y ELSE payment[q]
  BY <1>1, <1>2 DEF Inv, TypeOK
<1>11. ASSUME NEW u \in Tasks PROVE Good(task[u])'
  <2>1. CASE u = t
    BY <1>8, <2>1, IdleGood DEF Good, Tx
  <2>2. CASE u # t
    <3>1. Good(task[u]) /\ task'[u] = task[u]
      BY <1>8, <2>2 DEF Inv
    <3>2. task[u].pc \notin {"locked", "counted"}
      BY <1>7, <2>2 DEF HoldsPromo
    <3>3. task[u].pc \in Tx => task[u].payment # p
      BY <1>1, <2>2 DEF Inv, Exclusive, InTx, Tx
    <3>4. \A x : EarnsOf(x)' = EarnsOf(x)
      BY <1>1, <1>2, EarnsKept
    <3> QED BY <1>1, <1>10, <3>1, <3>2, <3>3, <3>4 DEF Good
  <2> QED BY <2>1, <2>2
<1>12. Counted'
  <2>1. r \notin redemptions
    BY <1>1, <1>3 DEF Inv, Counted
  <2>2. /\ IsFiniteSet(redemptions') /\ Cardinality(redemptions') = Cardinality(redemptions) + 1
    BY <1>2, <2>1, FS_AddElement DEF Inv, Counted
  <2>3. \A x \in redemptions' : payment'[x.ticket].status # "none"
    <3>1. \A x \in redemptions : x.ticket \in Payments
      BY DEF Inv, TypeOK
    <3> QED BY <1>1, <1>2, <1>3, <1>4, <1>10, <3>1 DEF Inv, Counted
  <2>4. \A q \in Payments : payment'[q].status # "none" => payment'[q].session \in Sessions
    BY <1>1, <1>4, <1>10 DEF Inv, Counted
  <2> QED BY <1>5, <2>2, <2>3, <2>4 DEF Inv, Counted
<1>13. Visits' /\ LedgerBalances'
  BY <1>1, <1>2, VisitsKept
<1> QED BY <1>6, <1>9, <1>11, <1>12, <1>13 DEF Inv

\* A pending payment is cancelled or completed.
LEMMA PaymentMoved ==
  ASSUME Inv, NEW p \in Payments, NEW status \in {"cancelled", "completed"},
         payment[p].status = "pending", payment' = [payment EXCEPT ![p].status = status],
         UNCHANGED <<promo, redemptions, day, account, ledger>>
  PROVE  /\ \A x : Good(x) => Good(x)'
         /\ Counted' /\ Visits' /\ LedgerBalances' /\ payment' \in [Payments -> Payment]
         /\ payment'[p].status = status /\ payment'[p].session = payment[p].session
<1> DEFINE y == [payment[p] EXCEPT !.status = status]
<1>1. /\ payment' = [payment EXCEPT ![p] = y] /\ payment \in [Payments -> Payment]
      /\ y \in Payment /\ y.status = status /\ y.session = payment[p].session
  BY DEF Inv, TypeOK, Payment
<1> HIDE DEF y
<1>2. \A q \in Payments : payment'[q] = IF q = p THEN y ELSE payment[q]
  BY <1>1
<1>3. ASSUME NEW x, Good(x) PROVE Good(x)'
  <2>1. \A s : EarnsOf(s)' = EarnsOf(s)
    BY <1>1, EarnsKept
  <2>2. /\ Redeemable(x.phone)' <=> Redeemable(x.phone)
        /\ UnderPhoneLimit(x.phone)' <=> UnderPhoneLimit(x.phone)
    BY DEF Redeemable, UnderPhoneLimit, RedeemedBy
  <2> QED BY <1>2, <1>3, <2>1, <2>2 DEF Good
<1>4. Counted'
  <2>1. \A r \in redemptions : r.ticket \in Payments
    BY DEF Inv, TypeOK
  <2> QED BY <1>1, <1>2, <2>1 DEF Inv, Counted
<1>5. Visits' /\ LedgerBalances'
  BY <1>1, VisitsKept
<1> QED BY <1>1, <1>2, <1>3, <1>4, <1>5

LEMMA CancelPaymentInv == ASSUME Inv, NEW p \in Payments, CancelPayment(p) PROVE Inv'
<1>1. /\ payment[p].status = "pending" /\ payment' = [payment EXCEPT ![p].status = "cancelled"]
      /\ UNCHANGED <<promo, redemptions, day, account, ledger, task>>
  BY DEF CancelPayment, promoVars, loyaltyVars
<1>2. /\ \A x : Good(x) => Good(x)'
      /\ Counted' /\ Visits' /\ LedgerBalances' /\ payment' \in [Payments -> Payment]
  BY <1>1, PaymentMoved
<1>3. ASSUME NEW t \in Tasks PROVE Good(task[t])'
  <2>1. Good(task[t])
    BY DEF Inv
  <2> QED BY <1>1, <1>2, <2>1 DEF Good
<1>4. TypeOK' /\ Exclusive'
  BY <1>1, <1>2 DEF Inv, TypeOK, Exclusive, InTx, HoldsPromo
<1> QED BY <1>2, <1>3, <1>4 DEF Inv

LEMMA SettlePaymentInv ==
  ASSUME Inv, NEW t \in Tasks, NEW p \in Payments, SettlePayment(t, p) PROVE Inv'
<1> DEFINE x == [Idle EXCEPT !.pc = "settled", !.payment = p, !.session = payment[p].session]
<1>1. /\ payment[p].status = "pending" /\ payment' = [payment EXCEPT ![p].status = "completed"]
      /\ task' = [task EXCEPT ![t] = x]
      /\ UNCHANGED <<promo, redemptions, day, account, ledger>>
  BY DEF SettlePayment, promoVars, loyaltyVars
<1>2. /\ \A y : Good(y) => Good(y)'
      /\ Counted' /\ Visits' /\ LedgerBalances' /\ payment' \in [Payments -> Payment]
      /\ payment'[p].status = "completed" /\ payment'[p].session = payment[p].session
  BY <1>1, PaymentMoved
<1>3. /\ x \in Task /\ x.pc = "settled" /\ x.payment = p
      /\ x.session = payment[p].session
  <2>1. payment[p].session \in Sessions \cup {None}
    BY DEF Inv, TypeOK, Payment
  <2> QED BY <2>1, IdleGood DEF Task, Idle
<1> HIDE DEF x
<1>4. \A u \in Tasks : task'[u] = IF u = t THEN x ELSE task[u]
  BY <1>1, TaskShape
<1>5. ASSUME NEW u \in Tasks PROVE Good(task[u])'
  <2>1. CASE u = t
    BY <1>2, <1>3, <1>4, <2>1 DEF Good, Tx
  <2>2. CASE u # t
    <3>1. Good(task[u]) /\ task'[u] = task[u]
      BY <1>4, <2>2 DEF Inv
    <3>2. \A s : EarnsOf(s)' = EarnsOf(s)
      <4>1. payment' = [payment EXCEPT ![p] = [payment[p] EXCEPT !.status = "completed"]]
        BY <1>1 DEF Inv, TypeOK
      <4> QED BY <1>1, <4>1, EarnsKept
    <3> QED BY <1>2, <3>1, <3>2 DEF Good
  <2> QED BY <2>1, <2>2
<1>6. TypeOK'
  BY <1>1, <1>2, <1>3 DEF Inv, TypeOK
<1>7. Exclusive'
  BY <1>3, <1>4 DEF Inv, Exclusive, InTx, HoldsPromo
<1> QED BY <1>2, <1>5, <1>6, <1>7 DEF Inv

\* An accrual that writes: a session that already earned earns again, or one
\* more session does, and is counted.
LEMMA AccrualVisits ==
  ASSUME Inv, NEW t \in Tasks, AccrueCommit(t), task[t].payment \notin ledger.earnedFor
  PROVE  Visits' /\ \A s : EarnsOf(s) # {} => EarnsOf(s)' # {}
<1> DEFINE p == task[t].payment
           s0 == task[t].session
<1>1. /\ task[t].pc = "accruing" /\ task[t] \in Task /\ p \in Payments
      /\ payment[p].status = "completed" /\ payment[p].session = s0
      /\ task[t].visit = 0 => EarnsOf(s0) # {}
  BY TaskShape DEF AccrueCommit, Good
<1>2. /\ ledger'.earnedFor = ledger.earnedFor \cup {p} /\ payment' = payment
      /\ account'.visits = account.visits + task[t].visit
  BY DEF AccrueCommit, Deposited, Inv, TypeOK, Ledger, Account
<1>3. task[t].visit \in 0..1 /\ account.visits \in Nat
  BY <1>1 DEF Task, Inv, TypeOK, Account
<1>4. \A s : EarnsOf(s)' = IF s = s0 THEN EarnsOf(s) \cup {p} ELSE EarnsOf(s)
  BY <1>1, <1>2 DEF EarnsOf
<1>5. EarningSessions' = EarningSessions \cup {s0}
  <2>1. s0 \in Sessions
    BY <1>1 DEF Inv, Counted
  <2> QED BY <1>4, <2>1 DEF EarningSessions
<1>6. /\ IsFiniteSet(ledger'.earnedFor)
      /\ Cardinality(ledger'.earnedFor) = Cardinality(ledger.earnedFor) + 1
      /\ Cardinality(ledger.earnedFor) \in Nat
  BY <1>2, FS_AddElement, FS_CardinalityType DEF Inv, Visits
<1>7. /\ IsFiniteSet(EarningSessions') /\ Cardinality(EarningSessions) \in Nat
      /\ Cardinality(EarningSessions') = IF s0 \in EarningSessions
                                         THEN Cardinality(EarningSessions)
                                         ELSE Cardinality(EarningSessions) + 1
  BY <1>5, FS_AddElement, FS_CardinalityType DEF Inv, Visits
<1>8. s0 \notin EarningSessions => task[t].visit = 1
  <2>1. s0 \in Sessions
    BY <1>1 DEF Inv, Counted
  <2> QED BY <1>1, <1>3, <2>1 DEF EarningSessions
<1>9. \A q \in ledger'.earnedFor : payment'[q].status = "completed"
  BY <1>1, <1>2 DEF Inv, Visits
<1>10. /\ Cardinality(EarningSessions) <= account.visits
       /\ account.visits <= Cardinality(ledger.earnedFor)
  BY DEF Inv, Visits, VisitsCoverSessions
<1>11. /\ Cardinality(EarningSessions') <= account'.visits
       /\ account'.visits <= Cardinality(ledger'.earnedFor)
  <2>1. task[t].visit = 0 \/ task[t].visit = 1
    BY <1>3
  <2> HIDE DEF p, s0
  <2> QED BY <1>2, <1>3, <1>6, <1>7, <1>8, <1>10, <2>1
<1>12. Visits'
  BY <1>6, <1>7, <1>9, <1>11 DEF Visits, VisitsCoverSessions
<1> QED BY <1>4, <1>12

\* An account after a deposit and after points were moved.
LEMMA AccountUpdated ==
  ASSUME NEW a \in Account, NEW b \in Nat, NEW e \in Nat, NEW v \in Nat
  PROVE  /\ [a EXCEPT !.exists = TRUE, !.balance = b, !.earned = e, !.visits = v] \in Account
         /\ [a EXCEPT !.balance = b, !.redeemed = e] \in Account
         /\ [a EXCEPT !.balance = b, !.earned = e] \in Account
<1>1. [a EXCEPT !.exists = TRUE, !.balance = b, !.earned = e, !.visits = v] \in Account
  BY DEF Account
<1>2. [a EXCEPT !.balance = b, !.redeemed = e] \in Account
  BY DEF Account
<1>3. [a EXCEPT !.balance = b, !.earned = e] \in Account
  BY DEF Account
<1> QED BY <1>1, <1>2, <1>3

LEMMA AccrueCommitInv == ASSUME Inv, NEW t \in Tasks, AccrueCommit(t) PROVE Inv'
<1>1. CASE task[t].payment \in ledger.earnedFor
  BY <1>1, ToIdle, DayTyped DEF AccrueCommit, promoVars, loyaltyVars
<1>2. CASE task[t].payment \notin ledger.earnedFor
  <2> DEFINE points == task[t].points
             visit == task[t].visit
  <2>1. /\ account' = Deposited(points, visit)
        /\ ledger' = [ledger EXCEPT !.earnedFor = @ \cup {task[t].payment}, !.plus = @ + points]
        /\ task' = [task EXCEPT ![t] = Idle]
        /\ UNCHANGED <<promo, redemptions, payment, day>>
    BY <1>2 DEF AccrueCommit, promoVars
  <2>2. /\ points \in Nat /\ visit \in Nat /\ task[t].payment \in Payments
        /\ account \in Account /\ ledger \in Ledger
    BY TaskShape DEF Task, Good, AccrueCommit, Inv, TypeOK
  <2> HIDE DEF points, visit
  <2>3. account' \in Account /\ ledger' \in Ledger
    <3>1. account' \in Account
      <4>1. /\ account.balance + points \in Nat /\ account.earned + points \in Nat
            /\ account.visits + visit \in Nat
        BY <2>2 DEF Account
      <4> QED BY <2>1, <2>2, <4>1, AccountUpdated DEF Deposited
    <3>2. ledger.earnedFor \cup {task[t].payment} \in SUBSET Payments
      BY <2>2 DEF Ledger
    <3>3. ledger.plus + points \in Nat
      BY <2>2 DEF Ledger
    <3>4. ledger' \in Ledger
      BY <2>1, <2>2, <3>2, <3>3 DEF Ledger
    <3> QED BY <3>1, <3>4
  <2>4. LedgerBalances'
    BY <2>1, <2>2 DEF Inv, LedgerBalances, Deposited, Account, Ledger
  <2>5. Visits' /\ \A s : EarnsOf(s) # {} => EarnsOf(s)' # {}
    BY <1>2, AccrualVisits
  <2>6. \A u \in Tasks : task'[u] = IF u = t THEN Idle ELSE task[u]
    BY <2>1, TaskShape
  <2>7. ASSUME NEW u \in Tasks PROVE Good(task[u])'
    <3>1. CASE u = t
      BY <2>6, <3>1, IdleGood DEF Good, Tx
    <3>2. CASE u # t
      <4>1. Good(task[u]) /\ task'[u] = task[u]
        BY <2>6, <3>2 DEF Inv
      <4>2. /\ \A phone : Redeemable(phone)' <=> Redeemable(phone)
            /\ \A phone : UnderPhoneLimit(phone)' <=> UnderPhoneLimit(phone)
        BY <2>1 DEF Redeemable, UnderPhoneLimit, RedeemedBy
      <4> QED BY <2>1, <2>5, <4>1, <4>2 DEF Good
    <3> QED BY <3>1, <3>2
  <2>8. Exclusive'
    BY <2>6, IdleGood DEF Inv, Exclusive, InTx, HoldsPromo
  <2>9. TypeOK' /\ Counted'
    BY <2>1, <2>3, IdleGood DEF Inv, TypeOK, Counted
  <2> QED BY <2>4, <2>5, <2>7, <2>8, <2>9 DEF Inv
<1> QED BY <1>1, <1>2

LEMMA PointsInv ==
  ASSUME Inv, NEW points \in Rates, Redeem(points) \/ Adjust(points) PROVE Inv'
<1>1. points \in Nat /\ account \in Account /\ ledger \in Ledger
  BY RewardsAssumption DEF Inv, TypeOK
<1>2. /\ ledger'.earnedFor = ledger.earnedFor /\ account'.visits = account.visits
      /\ account' \in Account /\ ledger' \in Ledger /\ LedgerBalances'
  <2>1. CASE Redeem(points)
    <3>1. /\ account' = [account EXCEPT !.balance = @ - points, !.redeemed = @ + points]
          /\ ledger' = [ledger EXCEPT !.minus = @ + points] /\ account.balance >= points
      BY <2>1 DEF Redeem
    <3>2. account' \in Account
      <4>1. account.balance - points \in Nat /\ account.redeemed + points \in Nat
        BY <1>1, <3>1 DEF Account
      <4> QED BY <1>1, <3>1, <4>1, AccountUpdated
    <3>3. ledger' \in Ledger /\ ledger'.earnedFor = ledger.earnedFor
      BY <1>1, <3>1 DEF Ledger
    <3>4. LedgerBalances' /\ account'.visits = account.visits
      BY <1>1, <3>1 DEF Inv, LedgerBalances, Account, Ledger
    <3> QED BY <3>2, <3>3, <3>4
  <2>2. CASE Adjust(points)
    <3>1. /\ account' = [account EXCEPT !.balance = @ + points, !.earned = @ + points]
          /\ ledger' = [ledger EXCEPT !.plus = @ + points]
      BY <2>2 DEF Adjust
    <3>2. account' \in Account
      <4>1. account.balance + points \in Nat /\ account.earned + points \in Nat
        BY <1>1 DEF Account
      <4> QED BY <1>1, <3>1, <4>1, AccountUpdated
    <3>3. ledger' \in Ledger /\ ledger'.earnedFor = ledger.earnedFor
      BY <1>1, <3>1 DEF Ledger
    <3>4. LedgerBalances' /\ account'.visits = account.visits
      BY <1>1, <3>1 DEF Inv, LedgerBalances, Account, Ledger
    <3> QED BY <3>2, <3>3, <3>4
  <2> QED BY <2>1, <2>2
<1>3. UNCHANGED <<promo, redemptions, payment, day, task>>
  BY DEF Redeem, Adjust, promoVars
<1>4. \A s : EarnsOf(s)' = EarnsOf(s)
  BY <1>2, <1>3 DEF EarnsOf
<1>5. EarningSessions' = EarningSessions
  BY <1>4 DEF EarningSessions
<1>6. Visits' /\ Counted' /\ Exclusive' /\ TypeOK'
  BY <1>2, <1>3, <1>5
     DEF Inv, TypeOK, Visits, VisitsCoverSessions, Counted, Exclusive, InTx, HoldsPromo
<1>7. \A t \in Tasks : Good(task[t])'
  BY <1>3, <1>4 DEF Inv, Good, Redeemable, UnderPhoneLimit, RedeemedBy
<1> QED BY <1>2, <1>6, <1>7 DEF Inv

-----------------------------------------------------------------------------
LEMMA InvInit == Init => Inv
<1> SUFFICES ASSUME Init PROVE Inv
  OBVIOUS
<1>1. /\ redemptions = {} /\ ledger = [earnedFor |-> {}, plus |-> 0, minus |-> 0]
      /\ payment = [p \in Payments |-> [status |-> "none", session |-> None]]
      /\ account = [exists |-> FALSE, balance |-> 0, earned |-> 0, redeemed |-> 0, visits |-> 0]
      /\ task = [t \in Tasks |-> Idle] /\ day = 0 /\ promo \in Promo /\ promo.redeemed = 0
  BY DEF Init, Promo
<1>2. TypeOK
  BY <1>1, IdleGood DEF TypeOK, Payment, Account, Ledger
<1>3. \A t \in Tasks : Good(task[t])
  BY <1>1, IdleGood
<1>4. Exclusive
  BY <1>1, IdleGood DEF Exclusive, InTx, HoldsPromo
<1>5. Counted
  BY <1>1, FS_EmptySet DEF Counted
<1>6. EarningSessions = {}
  BY <1>1 DEF EarningSessions, EarnsOf
<1>7. LedgerBalances /\ Visits
  BY <1>1, <1>6, FS_EmptySet DEF LedgerBalances, Visits, VisitsCoverSessions
<1> QED BY <1>2, <1>3, <1>4, <1>5, <1>7 DEF Inv

LEMMA InvStep == Inv /\ [Next]_vars => Inv'
<1> SUFFICES ASSUME Inv, [Next]_vars PROVE Inv'
  OBVIOUS
<1>1. ASSUME NEW t \in Tasks, Initiation(t) PROVE Inv'
  BY <1>1, QuoteInv, InsertPaymentInv, LockPromoInv, CountByPhoneInv, CommitPaymentInv,
     RestInv DEF Initiation
<1>2. ASSUME NEW t \in Tasks, Settling(t) PROVE Inv'
  BY <1>2, SettlePaymentInv, AccrueReadInv, AccrueCommitInv, RestInv DEF Settling
<1>3. CASE Owner
  BY <1>3, OwnerInv, PointsInv DEF Owner
<1>4. CASE NextDay \/ \E p \in Payments : CancelPayment(p)
  BY <1>4, NextDayInv, CancelPaymentInv
<1>5. CASE UNCHANGED vars
  <2>1. UNCHANGED <<promo, redemptions, payment, day, account, ledger, task>>
    BY <1>5 DEF vars, promoVars, loyaltyVars
  <2>2. \A t \in Tasks : Good(task[t])'
    BY <2>1 DEF Inv, Good, Redeemable, UnderPhoneLimit, RedeemedBy, EarnsOf
  <2> QED BY <2>1, <2>2
          DEF Inv, TypeOK, Exclusive, InTx, HoldsPromo, Counted, LedgerBalances, Visits,
              VisitsCoverSessions, EarningSessions, EarnsOf
<1> QED BY <1>1, <1>2, <1>3, <1>4, <1>5 DEF Next

LEMMA InvHolds == Spec => []Inv
BY InvInit, InvStep, PTL DEF Spec

\* Rows and requests keep their types.
THEOREM TypeCorrect == Spec => []TypeOK
<1>1. Inv => TypeOK
  BY DEF Inv
<1> QED BY <1>1, InvHolds, PTL

\* An account is what its ledger adds up to and is never overdrawn.
THEOREM AccountsBalance == Spec => []LedgerBalances
<1>1. Inv => LedgerBalances
  BY DEF Inv
<1> QED BY <1>1, InvHolds, PTL

\* Every session that earned is counted as a visit, and no visit without an earn.
THEOREM VisitsAreCounted == Spec => []VisitsCoverSessions
<1>1. Inv => VisitsCoverSessions
  BY DEF Inv, Visits
<1> QED BY <1>1, InvHolds, PTL

-----------------------------------------------------------------------------
(* The refinement. *)

\* A redemption that is committed is one the offer allows.
LEMMA CommitTakes ==
  ASSUME Inv, NEW t \in Tasks, CommitPayment(t)
  PROVE  Offer!Take(task[t].payment, Normalized(task[t].phone))
<1> DEFINE p == task[t].payment
           n == Normalized(task[t].phone)
<1>1. /\ task[t] \in Task /\ p \in Payments /\ payment[p].status = "none"
      /\ Redeemable(task[t].phone) /\ UnderPhoneLimit(task[t].phone)
  BY TaskShape DEF CommitPayment, Good, Tx
<1>2. promo.active /\ \A x \in redemptions : x.ticket # p
  BY <1>1 DEF Redeemable, Inv, Counted
<1>3. promo.maxUses # NoLimit => Cardinality(redemptions) < promo.maxUses
  BY <1>1 DEF Redeemable, Inv, Counted
<1>4. promo.perPhone > 0 => n # NoPhone /\ Cardinality(RedeemedBy(n)) < promo.perPhone
  BY <1>1, RewardsAssumption DEF Redeemable, UnderPhoneLimit, Normalized, Task
<1>5. /\ redemptions' = redemptions \cup {[ticket |-> p, number |-> n]}
      /\ promo'.active = promo.active /\ promo'.maxUses = promo.maxUses
      /\ promo'.perPhone = promo.perPhone
  BY DEF CommitPayment, Inv, TypeOK, Promo
<1>6. RedeemedBy(n) = Offer!By(n)
  BY DEF RedeemedBy, Offer!By
<1>7. UNCHANGED [active |-> promo.active, maxUses |-> promo.maxUses,
                 perPhone |-> promo.perPhone]
  BY <1>5
<1> HIDE DEF p, n
<1>8. \A S : Offer!Cardinality(S) = Cardinality(S)
  BY DEF Offer!Cardinality, Cardinality
<1>9. Offer!Take(p, n)
  BY <1>2, <1>3, <1>4, <1>5, <1>6, <1>7, <1>8 DEF Offer!Take
<1> QED BY <1>9 DEF p, n

\* Rewards implements CappedOffer: a commit takes, an owner's edit changes, and
\* everything else stutters.
THEOREM Implementation == Spec => ImplementsCappedOffer
<1> DEFINE offering == [active |-> promo.active, maxUses |-> promo.maxUses,
                        perPhone |-> promo.perPhone]
<1>1. Init => Offer!Init
  <2> SUFFICES ASSUME Init PROVE offering \in Offer!Offers /\ redemptions = {}
    BY DEF Offer!Init
  <2> QED BY DEF Init, Offer!Offers
<1>2. Inv /\ [Next]_vars => [Offer!Next]_<<offering, redemptions>>
  <2> SUFFICES ASSUME Inv, [Next]_vars
               PROVE  Offer!Next \/ UNCHANGED <<offering, redemptions>>
    OBVIOUS
  <2>1. ASSUME NEW t \in Tasks, CommitPayment(t) PROVE Offer!Next
    <3>1. Offer!Take(task[t].payment, Normalized(task[t].phone))
      BY <2>1, CommitTakes
    <3>2. task[t].payment \in Payments
      BY <2>1, TaskShape DEF CommitPayment, Good, Tx
    <3>3. Normalized(task[t].phone) \in Spellings \cup {NoPhone}
      BY TaskShape, RewardsAssumption DEF Normalized, Task
    <3> QED BY <3>1, <3>2, <3>3 DEF Offer!Next
  <2>2. ASSUME \/ \E max \in Limits \cup {NoLimit}, per \in Limits \cup {0} :
                    UpdatePromo(max, per)
               \/ \E on \in BOOLEAN : SetActive(on)
        PROVE Offer!Next
    <3>1. promo \in Promo
      BY DEF Inv, TypeOK
    <3>2. offering' \in Offer!Offers /\ UNCHANGED redemptions
      BY <2>2, <3>1 DEF UpdatePromo, SetActive, Promo, Offer!Offers
    <3> QED BY <3>2 DEF Offer!Next, Offer!Change
  <2>3. ASSUME NEW t \in Tasks, Settling(t) PROVE UNCHANGED <<offering, redemptions>>
    BY <2>3 DEF Settling, SettlePayment, AccrueRead, AccrueCommit, Stop, promoVars
  <2>4. ASSUME NEW t \in Tasks, Initiation(t), ~CommitPayment(t)
        PROVE UNCHANGED <<offering, redemptions>>
    BY <2>4 DEF Initiation, Quote, AttachToExisting, InsertPayment, LockPromo, CountByPhone,
                RollBack, promoVars
  <2>5. ASSUME \/ \E points \in Rates : Redeem(points) \/ Adjust(points)
               \/ \E p \in Payments : CancelPayment(p)
               \/ NextDay \/ UNCHANGED vars
        PROVE UNCHANGED <<offering, redemptions>>
    BY <2>5 DEF Redeem, Adjust, CancelPayment, NextDay, promoVars, vars
  <2> QED BY <2>1, <2>2, <2>3, <2>4, <2>5 DEF Next, Owner
<1> QED BY <1>1, <1>2, InvHolds, PTL DEF Spec, ImplementsCappedOffer, Offer!Spec

=============================================================================
