----------------------------- MODULE PlatformProofs -----------------------------
(***************************************************************************)
(* Proofs about Platform and the Billing it contains, for any plans,       *)
(* operators and lookups, and any lifetime of a cached decision.           *)
(*                                                                         *)
(* The tables of billing are false of overlapping operators, as            *)
(* InvoiceReopened and CancellationLost show; they hold while no two       *)
(* operators have both read the same row and not written it yet            *)
(* (InvoicesApart, SubscriptionsApart), because what an operator is about  *)
(* to write then still follows from the row as it is (InvoicesTimely,      *)
(* SubscriptionsTimely).                                                   *)
(*                                                                         *)
(* A gate is stale no longer than TTL + MaxDelay by an argument about      *)
(* ages: a resolution that is younger than the last edit saw nothing older *)
(* than that edit (FreshLookups), and it fills an entry whose age then     *)
(* counts on from at most MaxDelay (FreshEntries).                         *)
(***************************************************************************)
EXTENDS Platform, TLAPS

Value == Setting \cup Plans \cup {NoPlan} \cup BOOLEAN

Pending == [about : {"nothing", "subscription", "creation", "invoice"},
            row : Subscription \cup Invoice]

\* The statuses that the code writes: no row is ever past due or expired.
Written == {"trial", "active", "suspended", "cancelled"}

\* What every operator is about to write.
PendingTyped ==
  /\ operator \in [Operators -> Pending]
  /\ \A o \in Operators :
       /\ operator[o].about = "nothing" => operator[o] = Resting
       /\ operator[o].about \in {"subscription", "creation"} =>
            operator[o].row \in Subscription /\ operator[o].row.status \in Written
       /\ operator[o].about = "creation" => operator[o].row.status \in {"trial", "active"}
       /\ operator[o].about = "invoice" => operator[o].row \in Invoice

BillingInv ==
  /\ BillingTypeOK /\ PendingTyped
  /\ subscription.status \in Written \cup {"none"}
  /\ AssignmentFollowsSubscription

\* Two operators have not both read the invoice and not written it yet.
InvoicesApart ==
  \A o, u \in Operators :
    operator[o].about = "invoice" /\ operator[u].about = "invoice" => o = u

\* Nor the subscription.
SubscriptionsApart ==
  \A o, u \in Operators :
    operator[o].about = "subscription" /\ operator[u].about = "subscription" => o = u

InvoicesTimely ==
  \A o \in Operators :
    operator[o].about = "invoice" =>
      /\ invoice.status # "none"
      /\ <<invoice.status, operator[o].row.status>> \in InvoiceLifecycle

SubscriptionsTimely ==
  \A o \in Operators :
    operator[o].about = "subscription" =>
      /\ subscription.status # "none"
      /\ operator[o].row.status
           \in {subscription.status} \cup SubscriptionSuccessors[subscription.status]

\* What a gate's rows hold now, in the order it reads them.
Now(g) == [i \in 1..Len(Reads[g]) |-> RowNow(Reads[g][i], assignment.plan)]

LookupsShaped ==
  /\ lookup \in [Lookups -> [gate : Gates \cup {"none"}, seen : Seq(Value), age : 0..MaxDelay]]
  /\ \A l \in Lookups :
       /\ lookup[l].gate = "none" => lookup[l] = NoLookup
       /\ lookup[l].gate \in Gates => Len(lookup[l].seen) <= Len(Order(l))

\* A resolution that began after the last edit has seen the rows as they are.
FreshLookups ==
  \A l \in Lookups : \A g \in Gates :
    lookup[l].gate = g /\ quiet[g] > lookup[l].age =>
      \A i \in 1..Len(lookup[l].seen) : lookup[l].seen[i] = Now(g)[i]

\* So has the one that filled an entry which is young enough.
FreshEntries ==
  \A g \in Gates :
    entry[g].held /\ quiet[g] > entry[g].age + MaxDelay => entry[g].decision = Truth(g)

GateInv == TypeOK /\ LookupsShaped /\ FreshLookups /\ FreshEntries

-----------------------------------------------------------------------------
(* Billing. *)

\* Resting can be pending.
LEMMA RestingPends == Resting \in Pending
BY DEF Resting, Pending, Invoice

\* What an action makes of a subscription follows from it by the table.
LEMMA MutatedFollows ==
  ASSUME NEW action \in DOMAIN AllowedFrom, NEW plan \in Plans \cup {NoPlan},
         NEW s \in Subscription, s.status \in Written, s.status \in AllowedFrom[action]
  PROVE  /\ Mutated(action, s, plan) \in Subscription
         /\ Mutated(action, s, plan).status \in Written
         /\ Mutated(action, s, plan).status
              \in {s.status} \cup SubscriptionSuccessors[s.status]
<1> USE DEF AllowedFrom, SubscriptionStatus, Subscription, Mutated, Chosen, Written,
            SubscriptionSuccessors
<1>1. CASE action = "activate" BY <1>1
<1>2. CASE action = "suspend" BY <1>2
<1>3. CASE action = "renew" BY <1>3
<1>4. CASE action = "cancel" BY <1>4
<1>5. CASE action = "extend_trial" BY <1>5
<1>6. CASE action = "change_plan" BY <1>6
<1> QED BY <1>1, <1>2, <1>3, <1>4, <1>5, <1>6

\* So does what an action makes of an invoice.
LEMMA TransitionedFollows ==
  ASSUME NEW action \in DOMAIN InvoiceAllowedFrom, NEW i \in Invoice,
         i.status \in InvoiceAllowedFrom[action]
  PROVE  /\ [status |-> Transitioned[action]] \in Invoice
         /\ i.status # "none" /\ <<i.status, Transitioned[action]>> \in InvoiceLifecycle
<1> USE DEF InvoiceAllowedFrom, Invoice, Transitioned, InvoiceLifecycle
<1>1. CASE action = "issue" BY <1>1
<1>2. CASE action = "mark_paid" BY <1>2
<1>3. CASE action = "cancel" BY <1>3
<1> QED BY <1>1, <1>2, <1>3

\* An operator's record is replaced; the rows stay.
LEMMA PendingReplaced ==
  ASSUME BillingInv, NEW o \in Operators, NEW x \in Pending,
         operator' = [operator EXCEPT ![o] = x],
         UNCHANGED <<subscription, assignment, invoice, direct>>,
         x.about = "nothing" => x = Resting,
         x.about \in {"subscription", "creation"} =>
           x.row \in Subscription /\ x.row.status \in Written,
         x.about = "creation" => x.row.status \in {"trial", "active"},
         x.about = "invoice" => x.row \in Invoice
  PROVE  BillingInv'
<1>1. PendingTyped'
  BY DEF BillingInv, PendingTyped
<1>2. \A u \in Operators : operator'[u] = x \/ operator'[u] = operator[u]
  BY DEF BillingInv, PendingTyped
<1>3. x = Resting \/ x.about \in {"subscription", "creation"} \/ x.about = "invoice"
  BY DEF Pending
<1>4. BillingTypeOK'
  BY <1>2, <1>3 DEF BillingInv, BillingTypeOK
<1> QED BY <1>1, <1>4 DEF BillingInv, AssignmentFollowsSubscription

\* What a request that read the subscription is about to write.
LEMMA SubscriptionRead ==
  ASSUME BillingInv, NEW o \in Operators, NEW action \in DOMAIN AllowedFrom,
         NEW plan \in Plans \cup {NoPlan}, ReadSubscription(o, action, plan)
  PROVE  \E x \in Pending :
           /\ operator' = [operator EXCEPT ![o] = x]
           /\ UNCHANGED <<subscription, assignment, invoice, direct>>
           /\ x.about = "subscription" /\ x.row \in Subscription /\ x.row.status \in Written
           /\ subscription.status # "none"
           /\ x.row.status
                \in {subscription.status} \cup SubscriptionSuccessors[subscription.status]
<1>1. /\ subscription.status \in AllowedFrom[action]
      /\ Writes(o, "subscription", Mutated(action, subscription, plan))
      /\ UNCHANGED <<subscription, assignment, invoice, direct>>
  BY DEF ReadSubscription
<1>2. AllowedFrom[action] \subseteq SubscriptionStatus /\ "none" \notin SubscriptionStatus
  BY DEF AllowedFrom, SubscriptionStatus
<1>3. subscription \in Subscription /\ subscription.status \in Written
  BY <1>1, <1>2 DEF BillingInv, BillingTypeOK
<1> DEFINE x == [about |-> "subscription", row |-> Mutated(action, subscription, plan)]
<1>4. /\ x.about = "subscription" /\ x.row \in Subscription /\ x.row.status \in Written
      /\ x.row.status
           \in {subscription.status} \cup SubscriptionSuccessors[subscription.status]
  BY <1>1, <1>3, MutatedFollows
<1>5. x \in Pending
  BY <1>4 DEF Pending
<1>6. operator' = [operator EXCEPT ![o] = x]
  BY <1>1 DEF Writes
<1> HIDE DEF x
<1> QED BY <1>1, <1>2, <1>4, <1>5, <1>6

\* One that found none is about to create it.
LEMMA CreationRead ==
  ASSUME BillingInv, NEW o \in Operators, NEW action \in DOMAIN AllowedFrom,
         NEW plan \in Plans \cup {NoPlan}, ReadNoSubscription(o, action, plan)
  PROVE  \E x \in Pending :
           /\ operator' = [operator EXCEPT ![o] = x]
           /\ UNCHANGED <<subscription, assignment, invoice, direct>>
           /\ x.about = "creation" /\ x.row \in Subscription /\ x.row.status \in Written
           /\ x.row.status \in {"trial", "active"}
<1> DEFINE row == [plan |-> plan, status |-> IF action = "activate" THEN "active" ELSE "trial"]
           x == [about |-> "creation", row |-> row]
<1>1. row \in Subscription /\ row.status \in Written /\ row.status \in {"trial", "active"}
  BY DEF Subscription, Written, SubscriptionStatus
<1>2. operator' = [operator EXCEPT ![o] = x]
      /\ UNCHANGED <<subscription, assignment, invoice, direct>>
  BY DEF ReadNoSubscription, Writes
<1> HIDE DEF row
<1>3. /\ x \in Pending /\ x.about = "creation" /\ x.row = row
  BY <1>1 DEF Pending
<1> HIDE DEF x
<1> QED BY <1>1, <1>2, <1>3

LEMMA InvoiceRead ==
  ASSUME BillingInv, NEW o \in Operators, NEW action \in DOMAIN InvoiceAllowedFrom,
         ReadInvoice(o, action)
  PROVE  \E x \in Pending :
           /\ operator' = [operator EXCEPT ![o] = x]
           /\ UNCHANGED <<subscription, assignment, invoice, direct>>
           /\ x.about = "invoice" /\ x.row \in Invoice
           /\ invoice.status # "none"
           /\ <<invoice.status, x.row.status>> \in InvoiceLifecycle
<1> DEFINE x == [about |-> "invoice", row |-> [status |-> Transitioned[action]]]
<1>1. invoice \in Invoice
  BY DEF BillingInv, BillingTypeOK
<1>2. /\ x.about = "invoice" /\ x.row \in Invoice /\ invoice.status # "none"
      /\ <<invoice.status, x.row.status>> \in InvoiceLifecycle
  BY <1>1, TransitionedFollows DEF ReadInvoice
<1>3. x \in Pending
  BY <1>2 DEF Pending
<1>4. operator' = [operator EXCEPT ![o] = x]
      /\ UNCHANGED <<subscription, assignment, invoice, direct>>
  BY DEF ReadInvoice, Writes
<1> HIDE DEF x
<1> QED BY <1>2, <1>3, <1>4

LEMMA ReadInv ==
  ASSUME BillingInv, NEW o \in Operators, Read(o) PROVE BillingInv'
<1>1. ASSUME NEW action \in DOMAIN AllowedFrom, NEW plan \in Plans \cup {NoPlan},
             ReadSubscription(o, action, plan)
      PROVE BillingInv'
  BY <1>1, SubscriptionRead, PendingReplaced
<1>2. ASSUME NEW action \in DOMAIN AllowedFrom, NEW plan \in Plans \cup {NoPlan},
             ReadNoSubscription(o, action, plan)
      PROVE BillingInv'
  BY <1>2, CreationRead, PendingReplaced
<1>3. ASSUME NEW action \in DOMAIN InvoiceAllowedFrom, ReadInvoice(o, action)
      PROVE BillingInv'
  BY <1>3, InvoiceRead, PendingReplaced
<1> QED BY <1>1, <1>2, <1>3 DEF Read

LEMMA GiveUpInv == ASSUME BillingInv, NEW o \in Operators, GiveUp(o) PROVE BillingInv'
<1>1. Resting.about = "nothing"
  BY DEF Resting
<1> QED BY <1>1, RestingPends, PendingReplaced DEF GiveUp

\* An operator that has written rests.
LEMMA WroteAndRests ==
  ASSUME PendingTyped, NEW o \in Operators, operator' = [operator EXCEPT ![o] = Resting]
  PROVE  /\ PendingTyped'
         /\ \A u \in Operators : operator'[u] = IF u = o THEN Resting ELSE operator[u]
BY RestingPends DEF PendingTyped, Resting

LEMMA WriteSubscriptionInv ==
  ASSUME BillingInv, NEW o \in Operators, WriteSubscription(o) PROVE BillingInv'
<1> DEFINE row == operator[o].row
<1>1. /\ subscription' = row /\ assignment' = Synced(row) /\ direct' = FALSE
      /\ UNCHANGED invoice
  BY DEF WriteSubscription
<1>2. row \in Subscription /\ row.status \in Written
  BY DEF BillingInv, PendingTyped, WriteSubscription
<1> HIDE DEF row
<1>3. /\ Synced(row) \in Assignment /\ Synced(row).plan = row.plan
      /\ Synced(row).status \in {"trial", "active"}
           <=> row.status \in {"trial", "active", "past_due"}
  BY <1>2 DEF Synced, mappedAssignmentStatus, Assignment, AssignmentStatus, Subscription, Written
<1>4. /\ PendingTyped'
      /\ \A u \in Operators : operator'[u] = Resting \/ operator'[u] = operator[u]
  BY WroteAndRests DEF WriteSubscription, BillingInv
<1>5. BillingTypeOK'
  BY <1>1, <1>2, <1>3, <1>4 DEF BillingInv, BillingTypeOK
<1>6. AssignmentFollowsSubscription'
  BY <1>1, <1>3 DEF AssignmentFollowsSubscription
<1> QED BY <1>1, <1>2, <1>4, <1>5, <1>6 DEF BillingInv

LEMMA UpdateInvoiceInv ==
  ASSUME BillingInv, NEW o \in Operators, UpdateInvoiceStatus(o) PROVE BillingInv'
<1>1. /\ PendingTyped'
      /\ \A u \in Operators : operator'[u] = Resting \/ operator'[u] = operator[u]
  BY WroteAndRests DEF UpdateInvoiceStatus, BillingInv
<1>2. invoice' \in Invoice
  BY DEF UpdateInvoiceStatus, BillingInv, PendingTyped
<1> QED BY <1>1, <1>2 DEF UpdateInvoiceStatus, BillingInv, BillingTypeOK,
                          AssignmentFollowsSubscription

LEMMA CreateInvoiceInv == ASSUME BillingInv, CreateInvoice PROVE BillingInv'
<1>1. invoice' \in Invoice
  BY DEF CreateInvoice, BillingInv, BillingTypeOK, Invoice
<1> QED BY <1>1 DEF CreateInvoice, BillingInv, BillingTypeOK, PendingTyped,
                    AssignmentFollowsSubscription

LEMMA AssignPlanInv ==
  ASSUME BillingInv, NEW plan \in Plans, NEW status \in Assignable,
         AssignOrganizationPlan(plan, status)
  PROVE  BillingInv'
<1>1. assignment' \in Assignment
  BY PlatformAssumption DEF AssignOrganizationPlan, Assignment
<1> QED BY <1>1 DEF AssignOrganizationPlan, BillingInv, BillingTypeOK, PendingTyped,
                    AssignmentFollowsSubscription

LEMMA BillingUnchanged == ASSUME BillingInv, UNCHANGED billingVars PROVE BillingInv'
BY DEF billingVars, BillingInv, BillingTypeOK, PendingTyped, AssignmentFollowsSubscription

-----------------------------------------------------------------------------
LEMMA BillingInit0 == Init => BillingInv
<1> SUFFICES ASSUME Init PROVE BillingInv
  OBVIOUS
<1>1. PICK plan \in Plans \cup {NoPlan} : BillingInit(plan)
  BY DEF Init
<1>2. /\ subscription \in Subscription /\ subscription.plan = plan
      /\ subscription.status \in Written \cup {"none"}
  BY <1>1 DEF BillingInit, Subscription, SubscriptionStatus, Written
<1>3. /\ assignment = [plan |-> plan, status |-> subscription.status]
      /\ assignment \in Assignment
  BY <1>1, <1>2 DEF BillingInit, Assignment, AssignmentStatus, Written
<1>4. invoice \in Invoice
  BY <1>1 DEF BillingInit, Invoice
<1>5. PendingTyped
  BY <1>1, RestingPends DEF BillingInit, PendingTyped, Resting
<1>6. BillingTypeOK
  BY <1>1, <1>2, <1>3, <1>4 DEF BillingInit, BillingTypeOK
<1> QED BY <1>2, <1>3, <1>4, <1>5, <1>6 DEF BillingInv, Written, AssignmentFollowsSubscription

\* What a step does to the rows of billing.
BillingActs ==
  \/ UNCHANGED billingVars
  \/ CreateInvoice
  \/ \E plan \in Plans, status \in Assignable : AssignOrganizationPlan(plan, status)
  \/ \E o \in Operators :
       Read(o) \/ GiveUp(o) \/ WriteSubscription(o) \/ UpdateInvoiceStatus(o)

LEMMA BillingActsOnly == [Next]_vars => BillingActs
<1> SUFFICES ASSUME [Next]_vars PROVE BillingActs
  OBVIOUS
<1>1. ASSUME NEW l \in Lookups,
             (\E g \in Gates : Lookup(l, g)) \/ Resolve(l) \/ cacheSet(l) \/ LookupFails(l)
      PROVE BillingActs
  BY <1>1 DEF BillingActs, Lookup, Resolve, cacheSet, LookupFails
<1>2. ASSUME NEW plan \in Plans, SetPlanEntitlements(plan) PROVE BillingActs
  BY <1>2 DEF BillingActs, SetPlanEntitlements
<1>3. ASSUME NEW plan \in Plans, NEW status \in Assignable, AssignPlan(plan, status)
      PROVE BillingActs
  BY <1>3 DEF BillingActs, AssignPlan
<1>4. ASSUME NEW row, NEW value, setStatus(row, value) \/ SetOverride(row, value)
      PROVE BillingActs
  BY <1>4 DEF BillingActs, setStatus, SetOverride, Set
<1>5. ASSUME NEW value, UpdateFlag(value) PROVE BillingActs
  BY <1>5 DEF BillingActs, UpdateFlag, Set
<1>6. CASE (\E g \in Gates : Invalidate(g)) \/ Tick \/ UNCHANGED vars
  BY <1>6 DEF BillingActs, Invalidate, Tick, vars
<1>7. ASSUME NEW o \in Operators, Bill(o) PROVE BillingActs
  BY <1>7 DEF BillingActs, Bill
<1>8. CASE Draft
  BY <1>8 DEF BillingActs, Draft
<1> QED BY <1>1, <1>2, <1>3, <1>4, <1>5, <1>6, <1>7, <1>8 DEF Next, Edit

LEMMA BillingStep == BillingInv /\ [Next]_vars => BillingInv'
BY BillingActsOnly, BillingUnchanged, CreateInvoiceInv, AssignPlanInv, ReadInv, GiveUpInv,
   WriteSubscriptionInv, UpdateInvoiceInv DEF BillingActs

LEMMA BillingHolds == Spec => []BillingInv
BY BillingInit0, BillingStep, PTL DEF Spec

-----------------------------------------------------------------------------
(***************************************************************************)
(* The tables, for operators that do not overlap on a row.                 *)
(***************************************************************************)

\* A pending write of the invoice stays timely: nobody else has one.
LEMMA InvoicesStayTimely ==
  BillingInv /\ InvoicesApart /\ InvoicesTimely /\ [Next]_vars => InvoicesTimely'
<1> SUFFICES ASSUME BillingInv, InvoicesApart, InvoicesTimely, [Next]_vars PROVE InvoicesTimely'
  OBVIOUS
<1>1. ASSUME NEW o \in Operators, NEW x, operator' = [operator EXCEPT ![o] = x],
             UNCHANGED invoice,
             x.about = "invoice" => /\ invoice.status # "none"
                                    /\ <<invoice.status, x.row.status>> \in InvoiceLifecycle
      PROVE InvoicesTimely'
  BY <1>1 DEF InvoicesTimely, BillingInv, PendingTyped
<1>2. Resting.about = "nothing"
  BY DEF Resting
<1>3. CASE UNCHANGED billingVars
  BY <1>3 DEF billingVars, InvoicesTimely
<1>4. CASE CreateInvoice
  BY <1>4 DEF CreateInvoice, InvoicesTimely
<1>5. ASSUME NEW plan, NEW status, AssignOrganizationPlan(plan, status) PROVE InvoicesTimely'
  BY <1>5 DEF AssignOrganizationPlan, InvoicesTimely
<1>6. ASSUME NEW o \in Operators, Read(o) PROVE InvoicesTimely'
  <2>1. ASSUME NEW action \in DOMAIN AllowedFrom, NEW plan \in Plans \cup {NoPlan},
               ReadSubscription(o, action, plan)
        PROVE InvoicesTimely'
    BY <2>1, <1>1, SubscriptionRead
  <2>2. ASSUME NEW action \in DOMAIN AllowedFrom, NEW plan \in Plans \cup {NoPlan},
               ReadNoSubscription(o, action, plan)
        PROVE InvoicesTimely'
    BY <2>2, <1>1, CreationRead
  <2>3. ASSUME NEW action \in DOMAIN InvoiceAllowedFrom, ReadInvoice(o, action)
        PROVE InvoicesTimely'
    BY <2>3, <1>1, InvoiceRead
  <2> QED BY <1>6, <2>1, <2>2, <2>3 DEF Read
<1>7. ASSUME NEW o \in Operators, GiveUp(o) \/ WriteSubscription(o) PROVE InvoicesTimely'
  BY <1>7, <1>1, <1>2 DEF GiveUp, WriteSubscription
<1>8. ASSUME NEW o \in Operators, UpdateInvoiceStatus(o) PROVE InvoicesTimely'
  <2>1. \A u \in Operators : operator'[u] = IF u = o THEN Resting ELSE operator[u]
    BY <1>8, WroteAndRests DEF UpdateInvoiceStatus, BillingInv
  <2>2. \A u \in Operators : operator'[u].about # "invoice"
    BY <1>8, <1>2, <2>1 DEF InvoicesApart, UpdateInvoiceStatus
  <2> QED BY <2>2 DEF InvoicesTimely
<1> QED BY <1>3, <1>4, <1>5, <1>6, <1>7, <1>8, BillingActsOnly DEF BillingActs

LEMMA SubscriptionsStayTimely ==
  BillingInv /\ SubscriptionsApart /\ SubscriptionsTimely /\ [Next]_vars
    => SubscriptionsTimely'
<1> SUFFICES ASSUME BillingInv, SubscriptionsApart, SubscriptionsTimely, [Next]_vars
             PROVE  SubscriptionsTimely'
  OBVIOUS
<1>1. ASSUME NEW o \in Operators, NEW x, operator' = [operator EXCEPT ![o] = x],
             UNCHANGED subscription,
             x.about = "subscription" =>
               /\ subscription.status # "none"
               /\ x.row.status
                    \in {subscription.status} \cup SubscriptionSuccessors[subscription.status]
      PROVE SubscriptionsTimely'
  BY <1>1 DEF SubscriptionsTimely, BillingInv, PendingTyped
<1>2. Resting.about = "nothing"
  BY DEF Resting
<1>3. CASE UNCHANGED billingVars
  BY <1>3 DEF billingVars, SubscriptionsTimely
<1>4. CASE CreateInvoice
  BY <1>4 DEF CreateInvoice, SubscriptionsTimely
<1>5. ASSUME NEW plan, NEW status, AssignOrganizationPlan(plan, status)
      PROVE SubscriptionsTimely'
  BY <1>5 DEF AssignOrganizationPlan, SubscriptionsTimely
<1>6. ASSUME NEW o \in Operators, Read(o) PROVE SubscriptionsTimely'
  <2>1. ASSUME NEW action \in DOMAIN AllowedFrom, NEW plan \in Plans \cup {NoPlan},
               ReadSubscription(o, action, plan)
        PROVE SubscriptionsTimely'
    BY <2>1, <1>1, SubscriptionRead
  <2>2. ASSUME NEW action \in DOMAIN AllowedFrom, NEW plan \in Plans \cup {NoPlan},
               ReadNoSubscription(o, action, plan)
        PROVE SubscriptionsTimely'
    BY <2>2, <1>1, CreationRead
  <2>3. ASSUME NEW action \in DOMAIN InvoiceAllowedFrom, ReadInvoice(o, action)
        PROVE SubscriptionsTimely'
    BY <2>3, <1>1, InvoiceRead
  <2> QED BY <1>6, <2>1, <2>2, <2>3 DEF Read
<1>7. ASSUME NEW o \in Operators, GiveUp(o) \/ UpdateInvoiceStatus(o)
      PROVE SubscriptionsTimely'
  BY <1>7, <1>1, <1>2 DEF GiveUp, UpdateInvoiceStatus
<1>8. ASSUME NEW o \in Operators, WriteSubscription(o) PROVE SubscriptionsTimely'
  <2>1. \A u \in Operators : operator'[u] = IF u = o THEN Resting ELSE operator[u]
    BY <1>8, WroteAndRests DEF WriteSubscription, BillingInv
  <2>2. CASE operator[o].about = "subscription"
    BY <1>2, <2>1, <2>2 DEF SubscriptionsTimely, SubscriptionsApart
  <2>3. CASE operator[o].about = "creation"
    \* Nobody has read a subscription that is not there.
    <3>1. subscription.status = "none"
      BY <1>8, <2>3 DEF WriteSubscription
    <3>2. \A u \in Operators : operator[u].about # "subscription"
      BY <3>1 DEF SubscriptionsTimely
    <3> QED BY <1>2, <2>1, <3>2 DEF SubscriptionsTimely
  <2> QED BY <1>8, <2>2, <2>3 DEF WriteSubscription
<1> QED BY <1>3, <1>4, <1>5, <1>6, <1>7, <1>8, BillingActsOnly DEF BillingActs

LEMMA TimelyAtFirst == Init => InvoicesTimely /\ SubscriptionsTimely
<1> SUFFICES ASSUME Init PROVE InvoicesTimely /\ SubscriptionsTimely
  OBVIOUS
<1>1. \A o \in Operators : operator[o] = Resting
  BY DEF Init, BillingInit
<1> QED BY <1>1 DEF InvoicesTimely, SubscriptionsTimely, Resting

\* An invoice leaves its lifecycle, as in InvoiceReopened, only if two operators
\* have both read it before either wrote it.
THEOREM InvoiceKeepsToTable == Spec /\ []InvoicesApart => InvoiceFollowsTable
<1>1. BillingInv /\ InvoicesTimely /\ [Next]_vars
        => [invoice'.status # invoice.status
              => <<invoice.status, invoice'.status>> \in InvoiceLifecycle]_invoice
  <2> SUFFICES ASSUME BillingInv, InvoicesTimely, [Next]_vars, invoice'.status # invoice.status
               PROVE  <<invoice.status, invoice'.status>> \in InvoiceLifecycle
    OBVIOUS
  <2>1. CASE CreateInvoice
    BY <2>1 DEF CreateInvoice, InvoiceLifecycle, BillingInv, BillingTypeOK, Invoice
  <2>2. ASSUME NEW o \in Operators, UpdateInvoiceStatus(o)
        PROVE <<invoice.status, invoice'.status>> \in InvoiceLifecycle
    BY <2>2 DEF UpdateInvoiceStatus, InvoicesTimely
  <2>3. CreateInvoice \/ \E o \in Operators : UpdateInvoiceStatus(o)
    BY BillingActsOnly DEF BillingActs, billingVars, AssignOrganizationPlan, Read,
       ReadSubscription, ReadNoSubscription, ReadInvoice, GiveUp, WriteSubscription
  <2> QED BY <2>1, <2>2, <2>3
<1> QED BY <1>1, BillingHolds, TimelyAtFirst, InvoicesStayTimely, PTL
        DEF Spec, InvoiceFollowsTable

\* A subscription leaves its table, as in CancellationLost, only if two operators
\* have both read it before either wrote it.
THEOREM SubscriptionKeepsToTable ==
  Spec /\ []SubscriptionsApart => SubscriptionFollowsTable
<1>1. BillingInv /\ SubscriptionsTimely /\ [Next]_vars
        => [subscription'.status # subscription.status
              => subscription'.status
                   \in SubscriptionSuccessors[subscription.status]]_subscription
  <2> SUFFICES ASSUME BillingInv, SubscriptionsTimely, [Next]_vars,
                      subscription'.status # subscription.status
               PROVE  subscription'.status \in SubscriptionSuccessors[subscription.status]
    OBVIOUS
  <2>1. PICK o \in Operators : WriteSubscription(o)
    BY BillingActsOnly DEF BillingActs, billingVars, AssignOrganizationPlan, Read,
       ReadSubscription, ReadNoSubscription, ReadInvoice, GiveUp, UpdateInvoiceStatus,
       CreateInvoice
  <2>2. CASE operator[o].about = "subscription"
    BY <2>1, <2>2 DEF WriteSubscription, SubscriptionsTimely
  <2>3. CASE operator[o].about = "creation"
    BY <2>1, <2>3 DEF WriteSubscription, BillingInv, PendingTyped, SubscriptionSuccessors
  <2> QED BY <2>1, <2>2, <2>3 DEF WriteSubscription
<1> QED BY <1>1, BillingHolds, TimelyAtFirst, SubscriptionsStayTimely, PTL
        DEF Spec, SubscriptionFollowsTable

\* The assignment that entitlements are resolved from follows the subscription.
THEOREM AssignmentFollows == Spec => []AssignmentFollowsSubscription
<1>1. BillingInv => AssignmentFollowsSubscription
  BY DEF BillingInv
<1> QED BY <1>1, BillingHolds, PTL

-----------------------------------------------------------------------------
(* Types of the gates. *)

\* What is read of a row is a value.
LEMMA RowsAreValues ==
  ASSUME TypeOK, NEW g \in Gates, NEW i \in 1..Len(Reads[g]), NEW plan
  PROVE  RowNow(Reads[g][i], plan) \in Value
<1>1. /\ Reads["tenant"] = <<"branch", "organization">>
      /\ Reads["feature"] = <<"override", "assignment", "grants", "default", "global",
                              "organization_flag", "branch_flag">>
  BY DEF Reads
<1>2. assignment.plan \in Value
  BY DEF TypeOK, BillingTypeOK, Assignment, Value
<1>3. \A s \in Switches \cup Overrides : setting[s] \in Value
  BY DEF TypeOK, Value
<1>4. (plan \in grants) \in Value
  BY DEF Value
<1>5. CASE g = "tenant"
  <2>1. i \in 1..2
    BY <1>1, <1>5
  <2> QED BY <1>1, <1>3, <1>5, <2>1 DEF RowNow, Switches
<1>6. CASE g = "feature"
  <2>1. i \in 1..7
    BY <1>1, <1>6
  <2>2. CASE i \in {1, 4, 5, 6, 7}
    BY <1>1, <1>3, <1>6, <2>2 DEF RowNow, Switches, Overrides, Flags
  <2>3. CASE i = 2
    BY <1>1, <1>2, <1>6, <2>3 DEF RowNow
  <2>4. CASE i = 3
    BY <1>1, <1>4, <1>6, <2>4 DEF RowNow
  <2> QED BY <2>1, <2>2, <2>3, <2>4
<1> QED BY <1>5, <1>6 DEF Gates

LEMMA NoLookupShaped ==
  NoLookup \in [gate : Gates \cup {"none"}, seen : Seq(Value), age : 0..MaxDelay]
<1>1. 0 \in 0..MaxDelay
  BY PlatformAssumption
<1> QED BY <1>1 DEF NoLookup

LEMMA NoEntryShaped ==
  NoEntry \in [held : BOOLEAN, decision : BOOLEAN, age : 0..(TTL - 1)]
<1>1. 0 \in 0..(TTL - 1)
  BY PlatformAssumption
<1> QED BY <1>1 DEF NoEntry

-----------------------------------------------------------------------------
(* What a gate reads. *)

LEMMA TenantRows ==
  ASSUME setting'["branch"] = setting["branch"],
         setting'["organization"] = setting["organization"]
  PROVE  Now("tenant")' = Now("tenant")
<1>1. Reads["tenant"] = <<"branch", "organization">>
  BY DEF Reads
<1>2. ASSUME NEW i \in 1..2
      PROVE RowNow(Reads["tenant"][i], assignment.plan)'
              = RowNow(Reads["tenant"][i], assignment.plan)
  BY <1>1, <1>2 DEF RowNow
<1> QED BY <1>1, <1>2 DEF Now

LEMMA FeatureRows ==
  ASSUME \A s \in Overrides \cup {"default"} : setting'[s] = setting[s],
         grants' = grants, assignment'.plan = assignment.plan
  PROVE  Now("feature")' = Now("feature")
<1>1. Reads["feature"] = <<"override", "assignment", "grants", "default", "global",
                          "organization_flag", "branch_flag">>
  BY DEF Reads
<1>2. ASSUME NEW i \in 1..7
      PROVE RowNow(Reads["feature"][i], assignment.plan)'
              = RowNow(Reads["feature"][i], assignment.plan)
  BY <1>1, <1>2 DEF RowNow, Overrides, Flags
<1> QED BY <1>1, <1>2 DEF Now

\* Every step that leaves the caches and the resolutions alone either was an edit
\* of what a gate reads, or left its rows as they were.
TouchedOrKept ==
  \A g \in Gates : \/ quiet'[g] = 0
                   \/ quiet'[g] = quiet[g] /\ Now(g)' = Now(g)

LEMMA KeptStaysFresh ==
  ASSUME GateInv, UNCHANGED <<lookup, entry>>, TouchedOrKept
  PROVE  FreshLookups' /\ FreshEntries'
<1>1. ASSUME NEW l \in Lookups, NEW g \in Gates, lookup[l].gate = g,
             quiet'[g] > lookup[l].age, NEW i \in 1..Len(lookup[l].seen)
      PROVE lookup[l].seen[i] = Now(g)'[i]
  <2>1. lookup[l].age \in Nat
    BY DEF GateInv, LookupsShaped
  <2>2. quiet'[g] = quiet[g] /\ Now(g)' = Now(g)
    BY <1>1, <2>1 DEF TouchedOrKept
  <2> QED BY <1>1, <2>2 DEF GateInv, FreshLookups
<1>2. ASSUME NEW g \in Gates, entry[g].held, quiet'[g] > entry[g].age + MaxDelay
      PROVE entry[g].decision = Truth(g)'
  <2>1. entry[g].age \in Nat
    BY PlatformAssumption DEF GateInv, TypeOK
  <2>2. quiet'[g] = quiet[g] /\ Now(g)' = Now(g)
    BY <1>2, <2>1, PlatformAssumption DEF TouchedOrKept
  <2>3. Truth(g)' = Truth(g)
    BY <2>2 DEF Truth, Now, Decision
  <2> QED BY <1>2, <2>2, <2>3 DEF GateInv, FreshEntries
<1> QED BY <1>1, <1>2 DEF FreshLookups, FreshEntries

\* What a resolution that saw everything decides, if all it saw still holds.
LEMMA DecisionOfRows ==
  ASSUME NEW g \in Gates, NEW v, \A i \in 1..Len(Reads[g]) : v[i] = Now(g)[i]
  PROVE  Decision(g, v) = Truth(g)
<1>1. Truth(g) = Decision(g, Now(g))
  BY DEF Truth, Now
<1>2. CASE g = "tenant"
  <2>1. v[1] = Now(g)[1] /\ v[2] = Now(g)[2]
    BY <1>2 DEF Reads
  <2> QED BY <1>1, <1>2, <2>1 DEF Decision
<1>3. CASE g = "feature"
  <2>1. /\ v[1] = Now(g)[1] /\ v[3] = Now(g)[3] /\ v[4] = Now(g)[4] /\ v[5] = Now(g)[5]
        /\ v[6] = Now(g)[6] /\ v[7] = Now(g)[7]
    BY <1>3 DEF Reads
  <2> QED BY <1>1, <1>3, <2>1 DEF Decision
<1> QED BY <1>2, <1>3 DEF Gates

-----------------------------------------------------------------------------
(***************************************************************************)
(* The gates' invariant.  Billing's part of the types comes from           *)
(* BillingStep; the steps are sorted by what they write.                   *)
(***************************************************************************)

Inv == BillingInv /\ GateInv

\* What every step keeps of the types of rows it does not cache.
RowsTyped ==
  /\ setting \in [Switches \cup Overrides -> Setting]
  /\ \A s \in Switches : setting[s] # "unset"
  /\ grants \subseteq Plans /\ owed \subseteq Gates
  /\ quiet \in [Gates -> 0..Still] /\ requests \in 0..MaxRequests

LEMMA InvParts ==
  ASSUME BillingInv', RowsTyped', LookupsShaped', FreshLookups', FreshEntries',
         entry' \in [Gates -> [held : BOOLEAN, decision : BOOLEAN, age : 0..(TTL - 1)]]
  PROVE  Inv'
<1>1. \A l \in Lookups :
        /\ lookup'[l].gate \in Gates \cup {"none"} /\ lookup'[l].age \in 0..MaxDelay
        /\ lookup'[l].gate \in Gates => Len(lookup'[l].seen) <= Len(Order(l)')
  BY DEF LookupsShaped
<1>2. TypeOK'
  BY <1>1 DEF TypeOK, RowsTyped, BillingInv
<1> QED BY <1>2 DEF Inv, GateInv

\* The resolution of one request takes a step or is over.
LEMMA LookupReplaced ==
  ASSUME Inv, BillingInv', NEW l \in Lookups,
         NEW x \in [gate : Gates \cup {"none"}, seen : Seq(Value), age : 0..MaxDelay],
         lookup' = [lookup EXCEPT ![l] = x],
         UNCHANGED <<assignment, setting, grants, owed, quiet, requests>>,
         x.gate = "none" => x = NoLookup,
         x.gate \in Gates =>
           /\ Len(x.seen) <= Len(Reads[x.gate])
           /\ quiet[x.gate] > x.age => \A i \in 1..Len(x.seen) : x.seen[i] = Now(x.gate)[i],
         entry' \in [Gates -> [held : BOOLEAN, decision : BOOLEAN, age : 0..(TTL - 1)]],
         FreshEntries'
  PROVE  Inv'
<1>1. \A k \in Lookups : lookup'[k] = IF k = l THEN x ELSE lookup[k]
  BY DEF Inv, GateInv, LookupsShaped
<1>2. LookupsShaped'
  BY <1>1 DEF Inv, GateInv, LookupsShaped, Order
<1>3. \A g \in Gates : Now(g)' = Now(g)
  BY DEF Now, RowNow
<1>4. FreshLookups'
  <2> SUFFICES ASSUME NEW k \in Lookups, NEW g \in Gates, lookup'[k].gate = g,
                      quiet'[g] > lookup'[k].age, NEW i \in 1..Len(lookup'[k].seen)
               PROVE  lookup'[k].seen[i] = Now(g)'[i]
    BY DEF FreshLookups
  <2>1. quiet' = quiet /\ Now(g)' = Now(g)
    BY <1>3
  <2>2. CASE k = l
    BY <1>1, <2>1, <2>2
  <2>3. CASE k # l
    BY <1>1, <2>1, <2>3 DEF Inv, GateInv, FreshLookups
  <2> QED BY <2>2, <2>3
<1>5. RowsTyped'
  BY DEF RowsTyped, Inv, GateInv, TypeOK
<1> QED BY <1>2, <1>4, <1>5, InvParts

LEMMA EntriesKept ==
  ASSUME Inv, UNCHANGED <<entry, quiet, assignment, setting, grants>>
  PROVE  /\ entry' \in [Gates -> [held : BOOLEAN, decision : BOOLEAN, age : 0..(TTL - 1)]]
         /\ FreshEntries'
<1>1. \A g \in Gates : Truth(g)' = Truth(g)
  BY DEF Truth, RowNow
<1> QED BY <1>1 DEF Inv, GateInv, TypeOK, FreshEntries

LEMMA LookupInv ==
  ASSUME Inv, BillingInv', NEW l \in Lookups, NEW g \in Gates, Lookup(l, g)
  PROVE  Inv'
<1> DEFINE x == [lookup[l] EXCEPT !.gate = g]
<1>1. x.gate = g /\ x.seen = <<>> /\ x.age = 0
  BY DEF Lookup, NoLookup
<1>2. x \in [gate : Gates \cup {"none"}, seen : Seq(Value), age : 0..MaxDelay]
  BY NoLookupShaped DEF Lookup, NoLookup
<1>3. lookup' = [lookup EXCEPT ![l] = x]
  BY DEF Lookup, Inv, GateInv, LookupsShaped
<1>4. UNCHANGED <<assignment, setting, grants, owed, quiet, requests, entry>>
  BY DEF Lookup, billingVars
<1>5. g # "none" /\ Len(Reads[g]) >= 0
  BY DEF Gates, Reads
<1>6. Len(x.seen) = 0
  BY <1>1
<1>7. /\ Len(x.seen) <= Len(Reads[x.gate])
      /\ \A i \in 1..Len(x.seen) : x.seen[i] = Now(x.gate)[i]
  BY <1>1, <1>5, <1>6
<1>8. FreshEntries' /\
      entry' \in [Gates -> [held : BOOLEAN, decision : BOOLEAN, age : 0..(TTL - 1)]]
  BY <1>4, EntriesKept
<1> HIDE DEF x
<1> QED BY <1>1, <1>2, <1>3, <1>4, <1>5, <1>7, <1>8, LookupReplaced

\* A resolution under way.
LEMMA UnderWay ==
  ASSUME Inv, NEW l \in Lookups, lookup[l] # NoLookup
  PROVE  /\ lookup[l].gate \in Gates /\ lookup[l].seen \in Seq(Value)
         /\ lookup[l].age \in 0..MaxDelay
         /\ Order(l) = Reads[lookup[l].gate] /\ Len(Order(l)) \in Nat
         /\ Len(lookup[l].seen) <= Len(Order(l))
         /\ quiet[lookup[l].gate] > lookup[l].age =>
              \A i \in 1..Len(lookup[l].seen) : lookup[l].seen[i] = Now(lookup[l].gate)[i]
<1>1. lookup[l].gate \in Gates
  BY DEF Inv, GateInv, LookupsShaped
<1>2. \A g \in Gates : Len(Reads[g]) \in Nat
  BY DEF Gates, Reads
<1> QED BY <1>1, <1>2 DEF Inv, GateInv, LookupsShaped, FreshLookups, Order

LEMMA ResolveInv ==
  ASSUME Inv, BillingInv', NEW l \in Lookups, Resolve(l) PROVE Inv'
<1> DEFINE g == lookup[l].gate
           seen == lookup[l].seen
           row == Order(l)[Len(seen) + 1]
           plan == IF row = "grants" THEN seen[2] ELSE NoPlan
           x == [lookup[l] EXCEPT !.seen = Append(seen, RowNow(row, plan))]
<1>1. /\ lookup[l] # NoLookup /\ Len(seen) < Len(Order(l))
      /\ lookup' = [lookup EXCEPT ![l].seen = Append(@, RowNow(row, plan))]
      /\ UNCHANGED <<assignment, setting, grants, entry, owed, quiet, requests>>
  BY DEF Resolve, billingVars
<1>2. /\ g \in Gates /\ seen \in Seq(Value) /\ lookup[l].age \in 0..MaxDelay
      /\ Order(l) = Reads[g] /\ Len(Order(l)) \in Nat
      /\ quiet[g] > lookup[l].age => \A i \in 1..Len(seen) : seen[i] = Now(g)[i]
  BY <1>1, UnderWay
<1>3. Len(seen) \in Nat /\ Len(seen) + 1 \in 1..Len(Reads[g])
  BY <1>1, <1>2
<1>4. RowNow(row, plan) \in Value
  BY <1>2, <1>3, RowsAreValues DEF Inv, GateInv
<1>5. x \in [gate : Gates \cup {"none"}, seen : Seq(Value), age : 0..MaxDelay]
  <2>1. Append(seen, RowNow(row, plan)) \in Seq(Value)
    BY <1>2, <1>4
  <2>2. lookup[l] \in [gate : Gates \cup {"none"}, seen : Seq(Value), age : 0..MaxDelay]
    BY DEF Inv, GateInv, LookupsShaped
  <2> HIDE DEF row, plan, seen
  <2> QED BY <2>1, <2>2
<1>6. /\ x.gate = g /\ x.age = lookup[l].age
      /\ x.seen = Append(seen, RowNow(row, plan))
  BY <1>5 DEF Inv, GateInv, LookupsShaped
<1>7. lookup' = [lookup EXCEPT ![l] = x]
  BY <1>1 DEF Inv, GateInv, LookupsShaped
<1>8. ASSUME quiet[g] > lookup[l].age
      PROVE RowNow(row, plan) = Now(g)[Len(seen) + 1]
  <2>1. row = Reads[g][Len(seen) + 1]
    BY <1>2
  <2>2. row = "grants" => g = "feature" /\ Len(seen) = 2
    <3>1. CASE g = "tenant"
      <4>1. Reads[g] = <<"branch", "organization">> /\ Len(seen) + 1 \in 1..2
        BY <1>3, <3>1 DEF Reads
      <4>2. row # "grants"
        BY <2>1, <4>1
      <4> QED BY <4>2
    <3>2. CASE g = "feature"
      <4>1. /\ Reads[g] = <<"override", "assignment", "grants", "default", "global",
                             "organization_flag", "branch_flag">>
            /\ Len(seen) + 1 \in 1..7
        BY <1>3, <3>2 DEF Reads
      <4>2. row = "grants" => Len(seen) + 1 = 3
        BY <2>1, <4>1
      <4>3. Len(seen) \in Nat
        BY <1>3
      <4>4. Len(seen) + 1 = 3 => Len(seen) = 2
        <5>1. \A n \in Nat : n + 1 = 3 => n = 2
          OBVIOUS
        <5> QED BY <4>3, <5>1
      <4> QED BY <3>2, <4>2, <4>4
    <3> QED BY <1>2, <3>1, <3>2 DEF Gates
  <2>3. row = "grants" => plan = assignment.plan
    <3> SUFFICES ASSUME row = "grants" PROVE seen[2] = assignment.plan
      OBVIOUS
    <3>1. seen[2] = Now(g)[2] /\ g = "feature"
      BY <1>2, <1>8, <2>2
    <3> QED BY <3>1 DEF Now, Reads, RowNow
  <2>4. RowNow(row, plan) = RowNow(row, assignment.plan)
    BY <2>3 DEF RowNow
  <2> QED BY <1>3, <2>1, <2>4 DEF Now
<1>9. /\ Len(x.seen) = Len(seen) + 1
      /\ quiet[g] > x.age => \A i \in 1..Len(x.seen) : x.seen[i] = Now(g)[i]
  BY <1>2, <1>3, <1>4, <1>6, <1>8
<1>10. g # "none"
  BY <1>2 DEF Gates
<1>11. FreshEntries' /\
      entry' \in [Gates -> [held : BOOLEAN, decision : BOOLEAN, age : 0..(TTL - 1)]]
  BY <1>1, EntriesKept
<1> HIDE DEF x, g, seen, row, plan
<1>12. /\ Len(x.seen) <= Len(Reads[x.gate])
       /\ quiet[x.gate] > x.age => \A i \in 1..Len(x.seen) : x.seen[i] = Now(x.gate)[i]
  BY <1>3, <1>6, <1>9
<1> QED BY <1>1, <1>5, <1>6, <1>7, <1>10, <1>11, <1>12, LookupReplaced

LEMMA LookupFailsInv ==
  ASSUME Inv, BillingInv', NEW l \in Lookups, LookupFails(l) PROVE Inv'
<1>1. /\ lookup' = [lookup EXCEPT ![l] = NoLookup]
      /\ UNCHANGED <<assignment, setting, grants, entry, owed, quiet, requests>>
  BY DEF LookupFails, billingVars
<1>2. NoLookup.gate = "none" /\ "none" \notin Gates
  BY DEF NoLookup, Gates
<1>3. FreshEntries' /\
      entry' \in [Gates -> [held : BOOLEAN, decision : BOOLEAN, age : 0..(TTL - 1)]]
  BY <1>1, EntriesKept
<1> QED BY <1>1, <1>2, <1>3, NoLookupShaped, LookupReplaced

LEMMA CacheSetInv ==
  ASSUME Inv, BillingInv', NEW l \in Lookups, cacheSet(l) PROVE Inv'
<1> DEFINE g == lookup[l].gate
           seen == lookup[l].seen
           e == [held |-> TRUE, decision |-> Decision(g, seen), age |-> 0]
<1>1. /\ lookup[l] # NoLookup /\ Len(seen) = Len(Order(l))
      /\ entry' = [entry EXCEPT ![g] = e]
      /\ lookup' = [lookup EXCEPT ![l] = NoLookup]
      /\ UNCHANGED <<assignment, setting, grants, owed, quiet, requests>>
  BY DEF cacheSet, billingVars
<1>2. /\ g \in Gates /\ lookup[l].age \in 0..MaxDelay
      /\ quiet[g] > lookup[l].age => \A i \in 1..Len(Reads[g]) : seen[i] = Now(g)[i]
  BY <1>1, UnderWay
<1>3. quiet[g] > MaxDelay => e.decision = Truth(g)
  <2>1. quiet[g] \in Nat
    BY <1>2, PlatformAssumption DEF Inv, GateInv, TypeOK, Still
  <2>2. quiet[g] > MaxDelay => quiet[g] > lookup[l].age
    BY <1>2, <2>1, PlatformAssumption
  <2> QED BY <1>2, <2>2, DecisionOfRows
<1>4. e \in [held : BOOLEAN, decision : BOOLEAN, age : 0..(TTL - 1)]
  <2>1. Decision(g, seen) \in BOOLEAN
    BY DEF Decision
  <2> QED BY <2>1, PlatformAssumption
<1>5. entry' \in [Gates -> [held : BOOLEAN, decision : BOOLEAN, age : 0..(TTL - 1)]]
  BY <1>1, <1>2, <1>4 DEF Inv, GateInv, TypeOK
<1>6. FreshEntries'
  <2> SUFFICES ASSUME NEW h \in Gates, entry'[h].held, quiet'[h] > entry'[h].age + MaxDelay
               PROVE  entry'[h].decision = Truth(h)'
    BY DEF FreshEntries
  <2>1. Truth(h)' = Truth(h) /\ quiet' = quiet
    BY <1>1 DEF Truth, RowNow
  <2>2. CASE h = g
    <3>1. entry'[h] = e /\ e.age = 0
      BY <1>1, <1>2, <2>2 DEF Inv, GateInv, TypeOK
    <3>2. 0 + MaxDelay = MaxDelay
      BY PlatformAssumption
    <3> QED BY <1>3, <2>1, <2>2, <3>1, <3>2
  <2>3. CASE h # g
    BY <1>1, <2>1, <2>3 DEF Inv, GateInv, TypeOK, FreshEntries
  <2> QED BY <2>2, <2>3
<1>7. NoLookup.gate = "none" /\ "none" \notin Gates
  BY DEF NoLookup, Gates
<1> QED BY <1>1, <1>5, <1>6, <1>7, NoLookupShaped, LookupReplaced

\* Edits, and what operators do to the rows of billing.
LEMMA EditInv ==
  ASSUME Inv, BillingInv', RowsTyped', UNCHANGED <<lookup, entry>>, TouchedOrKept
  PROVE  Inv'
<1>1. FreshLookups' /\ FreshEntries'
  BY KeptStaysFresh DEF Inv
<1>2. LookupsShaped'
  BY DEF Inv, GateInv, LookupsShaped, Order
<1>3. entry' \in [Gates -> [held : BOOLEAN, decision : BOOLEAN, age : 0..(TTL - 1)]]
  BY DEF Inv, GateInv, TypeOK
<1> QED BY <1>1, <1>2, <1>3, InvParts

LEMMA GatesAre == Gates = {"feature", "tenant"}
BY DEF Gates

\* An edit of what one gate reads.
LEMMA EditedTypes ==
  ASSUME Inv, NEW g \in Gates, Edited(g)
  PROVE  /\ quiet' \in [Gates -> 0..Still] /\ quiet'[g] = 0
         /\ \A h \in Gates : h # g => quiet'[h] = quiet[h]
         /\ requests' \in 0..MaxRequests
<1>1. 0 \in 0..Still
  BY PlatformAssumption DEF Still
<1> QED BY <1>1, PlatformAssumption DEF Inv, GateInv, TypeOK, Edited, Request, Touched

LEMMA SettingInv ==
  ASSUME Inv, BillingInv', NEW row, NEW value \in Setting,
         setStatus(row, value) \/ SetOverride(row, value) \/ UpdateFlag(value)
  PROVE  Inv'
<1>1. CASE setStatus(row, value)
  <2>1. /\ row \in {"organization", "branch"} /\ value # "unset" /\ Edited("tenant")
        /\ setting' = [setting EXCEPT ![row] = value] /\ owed' = owed \cup {"tenant"}
        /\ UNCHANGED <<assignment, grants, entry, lookup>>
    BY <1>1 DEF setStatus, Set, billingVars
  <2>2. RowsTyped'
    BY <2>1, EditedTypes, GatesAre DEF RowsTyped, Inv, GateInv, TypeOK, Switches
  <2>3. \A s \in Overrides \cup {"default"} : setting'[s] = setting[s]
    BY <2>1 DEF Inv, GateInv, TypeOK, Overrides, Flags, Switches
  <2>4. TouchedOrKept
    BY <2>1, <2>3, FeatureRows, EditedTypes, GatesAre DEF TouchedOrKept
  <2> QED BY <2>1, <2>2, <2>4, EditInv
<1>2. CASE SetOverride(row, value)
  <2>1. /\ row \in Overrides /\ Edited("feature")
        /\ setting' = [setting EXCEPT ![row] = value] /\ owed' = owed \cup {"feature"}
        /\ UNCHANGED <<assignment, grants, entry, lookup>>
    BY <1>2 DEF SetOverride, Set, billingVars
  <2>2. RowsTyped'
    BY <2>1, EditedTypes, GatesAre
       DEF RowsTyped, Inv, GateInv, TypeOK, Switches, Overrides, Flags
  <2>3. /\ setting'["branch"] = setting["branch"]
        /\ setting'["organization"] = setting["organization"]
    BY <2>1 DEF Inv, GateInv, TypeOK, Overrides, Flags, Switches
  <2>4. TouchedOrKept
    BY <2>1, <2>3, TenantRows, EditedTypes, GatesAre DEF TouchedOrKept
  <2> QED BY <2>1, <2>2, <2>4, EditInv
<1>3. CASE UpdateFlag(value)
  <2>1. /\ value # "unset" /\ Edited("feature") /\ owed' = owed
        /\ setting' = [setting EXCEPT !["default"] = value]
        /\ UNCHANGED <<assignment, grants, entry, lookup>>
    BY <1>3 DEF UpdateFlag, Set, billingVars
  <2>2. RowsTyped'
    BY <2>1, EditedTypes, GatesAre
       DEF RowsTyped, Inv, GateInv, TypeOK, Switches, Overrides, Flags
  <2>3. /\ setting'["branch"] = setting["branch"]
        /\ setting'["organization"] = setting["organization"]
    BY <2>1 DEF Inv, GateInv, TypeOK, Overrides, Flags, Switches
  <2>4. TouchedOrKept
    BY <2>1, <2>3, TenantRows, EditedTypes, GatesAre DEF TouchedOrKept
  <2> QED BY <2>1, <2>2, <2>4, EditInv
<1> QED BY <1>1, <1>2, <1>3

LEMMA PlanInv ==
  ASSUME Inv, BillingInv', NEW plan \in Plans,
         SetPlanEntitlements(plan) \/ (\E status \in Assignable : AssignPlan(plan, status))
  PROVE  Inv'
<1>1. /\ Edited("feature") /\ owed' = owed \cup {"feature"} /\ grants' \subseteq Plans
      /\ UNCHANGED <<setting, entry, lookup>>
  BY DEF SetPlanEntitlements, AssignPlan, Inv, GateInv, TypeOK
<1>2. RowsTyped'
  BY <1>1, EditedTypes, GatesAre DEF RowsTyped, Inv, GateInv, TypeOK
<1>3. TouchedOrKept
  BY <1>1, TenantRows, EditedTypes, GatesAre DEF TouchedOrKept
<1> QED BY <1>1, <1>2, <1>3, EditInv

LEMMA BillInv ==
  ASSUME Inv, BillingInv', (\E o \in Operators : Bill(o)) \/ Draft PROVE Inv'
<1>1. CASE /\ UNCHANGED <<assignment, setting, grants, entry, lookup, owed, quiet>>
           /\ requests' = requests \/ Request
  <2>1. RowsTyped'
    BY <1>1, PlatformAssumption DEF RowsTyped, Inv, GateInv, TypeOK, Request
  <2>2. TouchedOrKept
    BY <1>1, TenantRows, FeatureRows, GatesAre DEF TouchedOrKept
  <2> QED BY <1>1, <2>1, <2>2, EditInv
<1>2. CASE Touched("feature") /\ UNCHANGED <<setting, grants, entry, lookup, owed, requests>>
  <2>1. /\ quiet' \in [Gates -> 0..Still] /\ quiet'["feature"] = 0
        /\ quiet'["tenant"] = quiet["tenant"]
    BY <1>2, PlatformAssumption DEF Touched, Inv, GateInv, TypeOK, Still, Gates
  <2>2. RowsTyped'
    BY <1>2, <2>1 DEF RowsTyped, Inv, GateInv, TypeOK
  <2>3. TouchedOrKept
    BY <1>2, <2>1, TenantRows, GatesAre DEF TouchedOrKept
  <2> QED BY <1>2, <2>2, <2>3, EditInv
<1>3. ASSUME NEW o \in Operators, Read(o) PROVE UNCHANGED assignment
  BY <1>3 DEF Read, ReadSubscription, ReadNoSubscription, ReadInvoice
<1> QED BY <1>1, <1>2, <1>3
        DEF Bill, Draft, GiveUp, UpdateInvoiceStatus, CreateInvoice, gateVars

LEMMA InvalidateInv ==
  ASSUME Inv, BillingInv', NEW g \in Gates, Invalidate(g) PROVE Inv'
<1>1. /\ owed' = owed \ {g} /\ entry' \in {entry, [entry EXCEPT ![g] = NoEntry]}
      /\ UNCHANGED <<assignment, setting, grants, lookup, quiet, requests>>
  BY DEF Invalidate, billingVars
<1>2. RowsTyped' /\ LookupsShaped'
  BY <1>1 DEF RowsTyped, Inv, GateInv, TypeOK, LookupsShaped, Order
<1>3. entry' \in [Gates -> [held : BOOLEAN, decision : BOOLEAN, age : 0..(TTL - 1)]]
  BY <1>1, NoEntryShaped DEF Inv, GateInv, TypeOK
<1>4. FreshLookups'
  <2>1. \A h \in Gates : Now(h)' = Now(h)
    BY <1>1 DEF Now, RowNow
  <2> QED BY <1>1, <2>1 DEF Inv, GateInv, FreshLookups
<1>5. FreshEntries'
  <2>1. \A h \in Gates : Truth(h)' = Truth(h)
    BY <1>1 DEF Truth, RowNow
  <2>2. \A h \in Gates : entry'[h] = entry[h] \/ ~entry'[h].held
    BY <1>1 DEF NoEntry, Inv, GateInv, TypeOK
  <2> QED BY <1>1, <2>1, <2>2 DEF Inv, GateInv, FreshEntries
<1> QED BY <1>2, <1>3, <1>4, <1>5, InvParts

\* Ages and the time since an edit go up together, and stop only where the age
\* of an entry or a resolution no longer reaches.
LEMMA TickInv == ASSUME Inv, BillingInv', Tick PROVE Inv'
<1>1. /\ \A l \in Lookups : lookup[l].age < MaxDelay \/ lookup[l] = NoLookup
      /\ entry' = [g \in Gates |-> Aged(entry[g])]
      /\ lookup' = [l \in Lookups |-> Older(lookup[l])]
      /\ quiet' = [g \in Gates |-> IF quiet[g] < Still THEN quiet[g] + 1 ELSE Still]
      /\ UNCHANGED <<assignment, setting, grants, owed, requests>>
  BY DEF Tick, billingVars
<1>2. /\ TTL \in Nat /\ MaxDelay \in Nat /\ TTL > 0 /\ Still = TTL + MaxDelay
  BY PlatformAssumption DEF Still
<1>3. \A g \in Gates : quiet[g] \in 0..Still
  BY DEF Inv, GateInv, TypeOK
<1>4. RowsTyped'
  <2>1. quiet' \in [Gates -> 0..Still]
    BY <1>1, <1>2, <1>3
  <2> QED BY <1>1, <2>1 DEF RowsTyped, Inv, GateInv, TypeOK
<1>5. ASSUME NEW l \in Lookups
      PROVE /\ lookup'[l] \in [gate : Gates \cup {"none"}, seen : Seq(Value), age : 0..MaxDelay]
            /\ lookup'[l].gate = lookup[l].gate /\ lookup'[l].seen = lookup[l].seen
            /\ lookup[l] = NoLookup => lookup'[l] = NoLookup
            /\ lookup[l] # NoLookup => lookup'[l].age = lookup[l].age + 1
  <2>1. lookup[l] \in [gate : Gates \cup {"none"}, seen : Seq(Value), age : 0..MaxDelay]
    BY DEF Inv, GateInv, LookupsShaped
  <2>2. lookup'[l] = Older(lookup[l])
    BY <1>1
  <2>3. CASE lookup[l] = NoLookup
    BY <2>1, <2>2, <2>3 DEF Older
  <2>4. CASE lookup[l] # NoLookup
    <3>1. lookup'[l] = [lookup[l] EXCEPT !.age = @ + 1]
      BY <2>2, <2>4 DEF Older
    <3>2. lookup[l].age + 1 \in 0..MaxDelay
      BY <1>1, <1>2, <2>1, <2>4
    <3> QED BY <2>1, <2>4, <3>1, <3>2
  <2> QED BY <2>3, <2>4
<1>6. LookupsShaped'
  <2>1. lookup' \in [Lookups -> [gate : Gates \cup {"none"}, seen : Seq(Value),
                                 age : 0..MaxDelay]]
    BY <1>1, <1>5
  <2>2. ASSUME NEW l \in Lookups
        PROVE /\ lookup'[l].gate = "none" => lookup'[l] = NoLookup
              /\ lookup'[l].gate \in Gates => Len(lookup'[l].seen) <= Len(Order(l)')
    BY <1>5 DEF Inv, GateInv, LookupsShaped, Order
  <2> QED BY <2>1, <2>2 DEF LookupsShaped
<1>7. FreshLookups'
  <2> SUFFICES ASSUME NEW l \in Lookups, NEW g \in Gates, lookup'[l].gate = g,
                      quiet'[g] > lookup'[l].age, NEW i \in 1..Len(lookup'[l].seen)
               PROVE  lookup'[l].seen[i] = Now(g)'[i]
    BY DEF FreshLookups
  <2>1. Now(g)' = Now(g)
    BY <1>1 DEF Now, RowNow
  <2>2. lookup[l] # NoLookup
    BY <1>5 DEF NoLookup, Gates
  <2>3. lookup[l].age \in 0..MaxDelay
    BY DEF Inv, GateInv, LookupsShaped
  <2>4. quiet[g] > lookup[l].age
    <3>1. quiet'[g] = IF quiet[g] < Still THEN quiet[g] + 1 ELSE Still
      BY <1>1
    <3>2. lookup'[l].age = lookup[l].age + 1
      BY <1>5, <2>2
    <3> QED BY <1>2, <1>3, <2>3, <3>1, <3>2
  <2> QED BY <1>5, <2>1, <2>4 DEF Inv, GateInv, FreshLookups
<1>8. ASSUME NEW g \in Gates
      PROVE /\ entry'[g] \in [held : BOOLEAN, decision : BOOLEAN, age : 0..(TTL - 1)]
            /\ entry'[g].held => /\ entry[g].held /\ entry'[g].age = entry[g].age + 1
                                 /\ entry'[g].decision = entry[g].decision
  <2>1. entry[g] \in [held : BOOLEAN, decision : BOOLEAN, age : 0..(TTL - 1)]
    BY DEF Inv, GateInv, TypeOK
  <2>2. entry'[g] = Aged(entry[g])
    BY <1>1
  <2>3. CASE ~entry[g].held \/ entry[g].age + 1 >= TTL
    BY <2>2, <2>3, NoEntryShaped DEF Aged, NoEntry
  <2>4. CASE entry[g].held /\ entry[g].age + 1 < TTL
    <3>1. entry'[g] = [entry[g] EXCEPT !.age = @ + 1]
      BY <1>2, <2>1, <2>2, <2>4 DEF Aged
    <3>2. entry[g].age + 1 \in 0..(TTL - 1)
      BY <1>2, <2>1, <2>4
    <3> QED BY <2>1, <2>4, <3>1, <3>2
  <2> QED BY <1>2, <2>1, <2>3, <2>4
<1>9. entry' \in [Gates -> [held : BOOLEAN, decision : BOOLEAN, age : 0..(TTL - 1)]]
  BY <1>1, <1>8
<1>10. FreshEntries'
  <2> SUFFICES ASSUME NEW g \in Gates, entry'[g].held, quiet'[g] > entry'[g].age + MaxDelay
               PROVE  entry'[g].decision = Truth(g)'
    BY DEF FreshEntries
  <2>1. Truth(g)' = Truth(g)
    BY <1>1 DEF Truth, RowNow
  <2>2. entry[g].age \in 0..(TTL - 1) /\ entry'[g].age \in 0..(TTL - 1)
    BY <1>8 DEF Inv, GateInv, TypeOK
  <2>3. quiet[g] > entry[g].age + MaxDelay
    <3>1. quiet'[g] = IF quiet[g] < Still THEN quiet[g] + 1 ELSE Still
      BY <1>1
    <3>2. entry'[g].age = entry[g].age + 1
      BY <1>8
    <3> QED BY <1>2, <1>3, <2>2, <3>1, <3>2
  <2> QED BY <1>8, <2>1, <2>3 DEF Inv, GateInv, FreshEntries
<1> QED BY <1>4, <1>6, <1>7, <1>9, <1>10, InvParts

-----------------------------------------------------------------------------
LEMMA InvInit == Init => Inv
<1> SUFFICES ASSUME Init PROVE Inv
  OBVIOUS
<1>1. BillingInv
  BY BillingInit0
<1>2. PICK plan \in Plans \cup {NoPlan} :
        /\ grants = Plans \cap {plan}
        /\ setting = [s \in Switches \cup Overrides |->
                        CASE s = "default" -> "off"
                          [] s \in {"organization", "branch"} -> "on"
                          [] s = "global" /\ plan # NoPlan -> "on"
                          [] OTHER -> "unset"]
  BY DEF Init
<1>3. setting \in [Switches \cup Overrides -> Setting] /\ grants \subseteq Plans
  BY <1>2 DEF Setting
<1>4. \A s \in Switches : setting[s] # "unset"
  BY <1>2 DEF Switches
<1>5. /\ entry = [g \in Gates |-> NoEntry] /\ lookup = [l \in Lookups |-> NoLookup]
      /\ owed = {} /\ quiet = [g \in Gates |-> Still] /\ requests = 0
  BY DEF Init
<1>6. Still \in 0..Still /\ 0 \in 0..MaxRequests
  BY PlatformAssumption DEF Still
<1>7. NoLookup.gate = "none" /\ "none" \notin Gates /\ ~NoEntry.held
  BY DEF NoLookup, Gates, NoEntry
<1>8. LookupsShaped
  BY <1>5, <1>7, NoLookupShaped DEF LookupsShaped
<1>9. FreshLookups /\ FreshEntries
  BY <1>5, <1>7 DEF FreshLookups, FreshEntries
<1>10. TypeOK
  BY <1>1, <1>3, <1>4, <1>5, <1>6, <1>8, NoEntryShaped DEF TypeOK, BillingInv, LookupsShaped
<1> QED BY <1>1, <1>8, <1>9, <1>10 DEF Inv, GateInv

LEMMA InvStep == Inv /\ [Next]_vars => Inv'
<1> SUFFICES ASSUME Inv, [Next]_vars PROVE Inv'
  OBVIOUS
<1>1. BillingInv'
  BY BillingStep DEF Inv
<1>2. ASSUME NEW l \in Lookups,
             (\E g \in Gates : Lookup(l, g)) \/ Resolve(l) \/ cacheSet(l) \/ LookupFails(l)
      PROVE Inv'
  BY <1>1, <1>2, LookupInv, ResolveInv, CacheSetInv, LookupFailsInv
<1>3. CASE Edit
  BY <1>1, <1>3, SettingInv, PlanInv DEF Edit, Setting
<1>4. CASE Tick \/ \E g \in Gates : Invalidate(g)
  BY <1>1, <1>4, TickInv, InvalidateInv
<1>5. CASE Draft \/ \E o \in Operators : Bill(o)
  BY <1>1, <1>5, BillInv
<1>6. CASE UNCHANGED vars
  <2>1. UNCHANGED <<assignment, setting, grants, entry, lookup, owed, quiet, requests>>
    BY <1>6 DEF vars, billingVars, gateVars
  <2>2. RowsTyped'
    BY <2>1 DEF RowsTyped, Inv, GateInv, TypeOK
  <2>3. TouchedOrKept
    BY <2>1, TenantRows, FeatureRows, GatesAre DEF TouchedOrKept
  <2> QED BY <1>1, <2>1, <2>2, <2>3, EditInv
<1> QED BY <1>2, <1>3, <1>4, <1>5, <1>6 DEF Next

LEMMA InvHolds == Spec => []Inv
BY InvInit, InvStep, PTL DEF Spec

\* Rows, caches and requests keep their types.
THEOREM TypeCorrect == Spec => []TypeOK
<1>1. Inv => TypeOK
  BY DEF Inv, GateInv
<1> QED BY <1>1, InvHolds, PTL

\* Once nothing a gate reads was edited for TTL + MaxDelay ticks, the gate serves
\* what the rows say, whatever flushes failed or were overtaken.
THEOREM CachesCatchUp == Spec => []StaleWithinTTL
<1>1. Inv => StaleWithinTTL
  <2> SUFFICES ASSUME Inv, NEW g \in Gates, quiet[g] = Still, entry[g].held
               PROVE  entry[g].decision = Truth(g)
    BY DEF StaleWithinTTL
  <2>1. entry[g].age \in 0..(TTL - 1)
    BY DEF Inv, GateInv, TypeOK
  <2>2. quiet[g] > entry[g].age + MaxDelay
    BY <2>1, PlatformAssumption DEF Still
  <2> QED BY <2>2 DEF Inv, GateInv, FreshEntries
<1> QED BY <1>1, InvHolds, PTL

=============================================================================
