-------------------------------- MODULE Rewards --------------------------------
(***************************************************************************)
(* What a payment earns and costs beside its money: the promo redeemed     *)
(* when it is initiated, and the loyalty points accrued when staff settle  *)
(* it.  One promo, and one customer's account in one organization.  The    *)
(* statuses of sessions are the subject of Settlement: here a session may  *)
(* be billed again whenever it has no outstanding payment.                 *)
(*                                                                         *)
(* A request is one task: the guest's initiation of a payment with a promo *)
(* code, or the staff's settlement of one.  An initiation's transaction    *)
(* locks the session's row, the branch's payment counter of its business   *)
(* day and the promo's row, in this order, until it ends.                  *)
(***************************************************************************)
EXTENDS Integers, FiniteSets

CONSTANTS
  Tasks, Sessions, Payments,
  Spellings,  \* phones as guests write them
  NumberOf,   \* promoNormalizePhone
  NoPhone,    \* no phone was given
  None,
  Limits,     \* the limits an owner may set
  NoLimit,
  Rates,      \* points that a payment earns, by the program's rate
  MaxPoints   \* bound: points earned and redeemed by hand

ASSUME RewardsAssumption ==
  /\ NumberOf \in [Spellings -> Spellings] /\ NoPhone \notin Spellings
  /\ Limits \subseteq Nat \ {0} /\ Rates \subseteq Nat \ {0} /\ MaxPoints \in Nat
  /\ NoLimit \notin Nat
  /\ None \notin Payments /\ None \notin Sessions

VARIABLES
  promo,       \* the promos row
  redemptions, \* promo_redemptions
  payment,     \* payments: status and session
  day,         \* the branch's business day
  account,     \* customer_loyalty_accounts
  ledger,      \* customer_loyalty_transactions: payments with an earn row, and the
               \* sums of the positive and the negative entries
  task

promoVars == <<promo, redemptions>>
loyaltyVars == <<account, ledger>>
vars == <<promoVars, payment, day, loyaltyVars, task>>

Promo == [active : BOOLEAN, maxUses : Limits \cup {NoLimit}, perPhone : Limits \cup {0},
          redeemed : Nat]
Payment == [status : {"none", "pending", "completed", "cancelled"},
            session : Sessions \cup {None}]
Account == [exists : BOOLEAN, balance : Nat, earned : Nat, redeemed : Nat, visits : Nat]
Ledger == [earnedFor : SUBSET Payments, plus : Nat, minus : Nat]
Task == [pc : {"idle", "quoted", "inserted", "locked", "counted", "settled", "accruing"},
         session : Sessions \cup {None}, payment : Payments \cup {None},
         phone : Spellings \cup {NoPhone}, day : Nat, visit : 0..1, points : Nat]

Idle == [pc |-> "idle", session |-> None, payment |-> None, phone |-> NoPhone, day |-> 0,
         visit |-> 0, points |-> 0]

Init ==
  /\ promo \in [active : BOOLEAN, maxUses : Limits \cup {NoLimit},
                perPhone : Limits \cup {0}, redeemed : {0}]
  /\ redemptions = {}
  /\ payment = [p \in Payments |-> [status |-> "none", session |-> None]]
  /\ day = 0
  /\ account = [exists |-> FALSE, balance |-> 0, earned |-> 0, redeemed |-> 0, visits |-> 0]
  /\ ledger = [earnedFor |-> {}, plus |-> 0, minus |-> 0]
  /\ task = [t \in Tasks |-> Idle]

-----------------------------------------------------------------------------
(* Promos. *)

InTx(t) == task[t].pc \in {"inserted", "locked", "counted"}
HoldsPromo(t) == task[t].pc \in {"locked", "counted"}
PromoLocked == \E t \in Tasks : HoldsPromo(t)

Normalized(phone) == IF phone = NoPhone THEN NoPhone ELSE NumberOf[phone]

\* Slip: the phone is kept and compared as it was written.
Normalized_AsWritten(phone) == phone

RedeemedBy(number) == {r \in redemptions : r.number = number}

\* ValidatePromo up to the count by phone.
Redeemable(phone) ==
  /\ promo.active
  /\ promo.perPhone > 0 => phone # NoPhone
  /\ promo.maxUses # NoLimit => promo.redeemed < promo.maxUses

UnderPhoneLimit(phone) ==
  promo.perPhone > 0 => Cardinality(RedeemedBy(Normalized(phone))) < promo.perPhone

\* The handler's quote, under a lock its statement gives back at once.
Quote(t, s, phone) ==
  /\ task[t].pc = "idle" /\ ~PromoLocked
  /\ Redeemable(phone) /\ UnderPhoneLimit(phone)
  /\ task' = [task EXCEPT ![t] = [Idle EXCEPT !.pc = "quoted", !.session = s, !.phone = phone]]
  /\ UNCHANGED <<promoVars, payment, day, loyaltyVars>>

Outstanding(s) == {p \in Payments : payment[p].status = "pending" /\ payment[p].session = s}

\* An initiation that finds an outstanding payment answers with that one.
AttachToExisting(t) ==
  /\ task[t].pc = "quoted" /\ Outstanding(task[t].session) # {}
  /\ task' = [task EXCEPT ![t] = Idle]
  /\ UNCHANGED <<promoVars, payment, day, loyaltyVars>>

\* The transaction as far as the payment, which waits for a transaction of the
\* same session or the same day.
InsertPayment(t, p) ==
  /\ task[t].pc = "quoted"
  /\ Outstanding(task[t].session) = {}
  /\ payment[p].status = "none"
  /\ \A u \in Tasks : InTx(u) =>
       task[u].session # task[t].session /\ task[u].day # day /\ task[u].payment # p
  /\ task' = [task EXCEPT ![t].pc = "inserted", ![t].payment = p, ![t].day = day]
  /\ UNCHANGED <<promoVars, payment, day, loyaltyVars>>

\* Slip: GetPromoByCode, without FOR UPDATE.
LockPromo_Reads(t) ==
  /\ task[t].pc = "inserted" /\ Redeemable(task[t].phone)
  /\ task' = [task EXCEPT ![t].pc = "locked"]
  /\ UNCHANGED <<promoVars, payment, day, loyaltyVars>>

LockPromo(t) ==
  /\ task[t].pc = "inserted" /\ ~PromoLocked /\ Redeemable(task[t].phone)
  /\ task' = [task EXCEPT ![t].pc = "locked"]
  /\ UNCHANGED <<promoVars, payment, day, loyaltyVars>>

CountByPhone(t) ==
  /\ task[t].pc = "locked" /\ UnderPhoneLimit(task[t].phone)
  /\ task' = [task EXCEPT ![t].pc = "counted"]
  /\ UNCHANGED <<promoVars, payment, day, loyaltyVars>>

CommitPayment(t) ==
  LET p == task[t].payment IN
  /\ task[t].pc = "counted"
  /\ payment' = [payment EXCEPT ![p] = [status |-> "pending", session |-> task[t].session]]
  /\ redemptions' = redemptions \cup {[ticket |-> p, number |-> Normalized(task[t].phone)]}
  /\ promo' = [promo EXCEPT !.redeemed = @ + 1]
  /\ task' = [task EXCEPT ![t] = Idle]
  /\ UNCHANGED <<day, loyaltyVars>>

\* The transaction is refused, or its connection is lost.
RollBack(t) ==
  /\ InTx(t)
  /\ task' = [task EXCEPT ![t] = Idle]
  /\ UNCHANGED <<promoVars, payment, day, loyaltyVars>>

UpdatePromo(max, per) ==
  /\ ~PromoLocked
  /\ promo' = [promo EXCEPT !.maxUses = max, !.perPhone = per]
  /\ UNCHANGED <<redemptions, payment, day, loyaltyVars, task>>

\* ActivatePromo and DeactivatePromo.
SetActive(on) ==
  /\ ~PromoLocked
  /\ promo' = [promo EXCEPT !.active = on]
  /\ UNCHANGED <<redemptions, payment, day, loyaltyVars, task>>

NextDay ==
  /\ day = 0 /\ day' = 1
  /\ UNCHANGED <<promoVars, payment, loyaltyVars, task>>

-----------------------------------------------------------------------------
(* Settlement and loyalty. *)

\* The redemption of a payment that is cancelled stays.
CancelPayment(p) ==
  /\ payment[p].status = "pending"
  /\ payment' = [payment EXCEPT ![p].status = "cancelled"]
  /\ UNCHANGED <<promoVars, day, loyaltyVars, task>>

SettlePayment(t, p) ==
  /\ task[t].pc = "idle" /\ payment[p].status = "pending"
  /\ payment' = [payment EXCEPT ![p].status = "completed"]
  /\ task' = [task EXCEPT ![t] = [Idle EXCEPT !.pc = "settled", !.payment = p,
                                              !.session = payment[p].session]]
  /\ UNCHANGED <<promoVars, day, loyaltyVars>>

EarnsOf(s) == {p \in ledger.earnedFor : payment[p].session = s}

\* Slip: the earns of the account are counted, not those of its session.
AccrueRead_AnyEarn(t, points) ==
  /\ task[t].pc = "settled"
  /\ task' = [task EXCEPT ![t].pc = "accruing", ![t].points = points,
                          ![t].visit = IF ledger.earnedFor = {} THEN 1 ELSE 0]
  /\ UNCHANGED <<promoVars, payment, day, loyaltyVars>>

\* The session has a customer and the program is on, at a rate that its owner
\* may have just changed.  Nothing locks the account until the upsert.
AccrueRead(t, points) ==
  /\ task[t].pc = "settled"
  /\ task' = [task EXCEPT ![t].pc = "accruing", ![t].points = points,
                          ![t].visit = IF EarnsOf(task[t].session) = {} THEN 1 ELSE 0]
  /\ UNCHANGED <<promoVars, payment, day, loyaltyVars>>

Deposited(points, visit) ==
  [account EXCEPT !.exists = TRUE, !.balance = @ + points, !.earned = @ + points,
                  !.visits = @ + visit]

\* The unique index on the earn rows of a payment aborts a second accrual.
AccrueCommit(t) ==
  /\ task[t].pc = "accruing"
  /\ IF task[t].payment \in ledger.earnedFor
     THEN UNCHANGED <<account, ledger>>
     ELSE /\ account' = Deposited(task[t].points, task[t].visit)
          /\ ledger' = [ledger EXCEPT !.earnedFor = @ \cup {task[t].payment},
                                      !.plus = @ + task[t].points]
  /\ task' = [task EXCEPT ![t] = Idle]
  /\ UNCHANGED <<promoVars, payment, day>>

\* Slip: the account and the ledger are written in two transactions.
Stop_BetweenWrites(t) ==
  /\ task[t].pc \in {"settled", "accruing"}
  /\ account' = IF task[t].pc = "settled" THEN account
                ELSE Deposited(task[t].points, task[t].visit)
  /\ task' = [task EXCEPT ![t] = Idle]
  /\ UNCHANGED <<promoVars, payment, day, ledger>>

\* There is nothing to accrue, the accrual fails, or the process is gone.
Stop(t) ==
  /\ task[t].pc \in {"settled", "accruing"}
  /\ task' = [task EXCEPT ![t] = Idle]
  /\ UNCHANGED <<promoVars, payment, day, loyaltyVars>>

\* Slip: the balance is not compared in the statement that deducts.
Redeem_Unguarded(points) ==
  /\ account.exists /\ account.redeemed + points <= MaxPoints
  /\ account' = [account EXCEPT !.balance = @ - points, !.redeemed = @ + points]
  /\ ledger' = [ledger EXCEPT !.minus = @ + points]
  /\ UNCHANGED <<promoVars, payment, day, task>>

Redeem(points) ==
  /\ account.exists /\ account.balance >= points /\ account.redeemed + points <= MaxPoints
  /\ account' = [account EXCEPT !.balance = @ - points, !.redeemed = @ + points]
  /\ ledger' = [ledger EXCEPT !.minus = @ + points]
  /\ UNCHANGED <<promoVars, payment, day, task>>

\* Adjust with a positive delta; with a negative one it does what Redeem does.
Adjust(points) ==
  /\ account.exists /\ account.earned + points <= MaxPoints
  /\ account' = [account EXCEPT !.balance = @ + points, !.earned = @ + points]
  /\ ledger' = [ledger EXCEPT !.plus = @ + points]
  /\ UNCHANGED <<promoVars, payment, day, task>>

-----------------------------------------------------------------------------
Initiation(t) ==
  \/ \E s \in Sessions, phone \in Spellings \cup {NoPhone} : Quote(t, s, phone)
  \/ AttachToExisting(t)
  \/ \E p \in Payments : InsertPayment(t, p)
  \/ LockPromo(t) \/ CountByPhone(t) \/ CommitPayment(t) \/ RollBack(t)

Settling(t) ==
  \/ \E p \in Payments : SettlePayment(t, p)
  \/ \E points \in Rates : AccrueRead(t, points)
  \/ AccrueCommit(t) \/ Stop(t)

Owner ==
  \/ \E max \in Limits \cup {NoLimit}, per \in Limits \cup {0} : UpdatePromo(max, per)
  \/ \E on \in BOOLEAN : SetActive(on)
  \/ \E points \in Rates : Redeem(points) \/ Adjust(points)

Next ==
  \/ \E t \in Tasks : Initiation(t) \/ Settling(t)
  \/ \E p \in Payments : CancelPayment(p)
  \/ Owner \/ NextDay

Spec == Init /\ [][Next]_vars

-----------------------------------------------------------------------------
TypeOK ==
  /\ promo \in Promo
  /\ redemptions \subseteq [ticket : Payments, number : Spellings \cup {NoPhone}]
  /\ payment \in [Payments -> Payment]
  /\ day \in 0..1
  /\ account \in Account /\ ledger \in Ledger
  /\ task \in [Tasks -> Task]

(* A promo is redeemed while it is on and within both of its limits, however  *)
(* many payments are initiated at once, across the turn of a business day,    *)
(* and whatever its owner changes meanwhile: Rewards implements CappedOffer.  *)
Offer == INSTANCE CappedOffer WITH
  Tickets <- Payments, Numbers <- Spellings, NoNumber <- NoPhone, taken <- redemptions,
  offer <- [active |-> promo.active, maxUses |-> promo.maxUses, perPhone |-> promo.perPhone]
ImplementsCappedOffer == Offer!Spec

(* The account is what its ledger adds up to, and is never overdrawn, however *)
(* accruals, redemptions and corrections interleave and wherever they stop.   *)
LedgerBalances ==
  /\ account.earned = ledger.plus /\ account.redeemed = ledger.minus
  /\ account.balance = ledger.plus - ledger.minus /\ account.balance >= 0

(* Every session that earned counts as a visit, and no visit is counted       *)
(* without an earn; two earns of one session that overlap may count twice.    *)
EarningSessions == {s \in Sessions : EarnsOf(s) # {}}
VisitsCoverSessions ==
  /\ Cardinality(EarningSessions) <= account.visits
  /\ account.visits <= Cardinality(ledger.earnedFor)

=============================================================================
