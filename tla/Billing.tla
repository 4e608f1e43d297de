-------------------------------- MODULE Billing --------------------------------
(***************************************************************************)
(* One organization's subscription, the plan assignment that is to follow  *)
(* it, and one of its invoices.  An operator's request reads a row without *)
(* a lock, consults the table, and overwrites the whole row with what it   *)
(* makes of the one it read, so the later of two writers wins.  The dates  *)
(* in a row follow its status and are left out.                            *)
(***************************************************************************)
EXTENDS Integers, FiniteSets

CONSTANTS Plans, NoPlan, Operators

ASSUME BillingAssumption == NoPlan \notin Plans

VARIABLES
  subscription, \* organization_subscriptions
  assignment,   \* organization_plan_assignments
  invoice,
  operator,     \* what each operator's request is about to write
  direct        \* history: the assignment was made by hand since it last followed

billingVars == <<subscription, assignment, invoice, operator, direct>>

\* Nothing in the code writes past_due or expired.
SubscriptionStatus == {"trial", "active", "suspended", "cancelled", "expired", "past_due"}
Subscription == [status : SubscriptionStatus \cup {"none"}, plan : Plans \cup {NoPlan}]
AssignmentStatus == {"trial", "active", "suspended", "cancelled"}
Assignment == [plan : Plans \cup {NoPlan}, status : AssignmentStatus \cup {"none"}]
Invoice == [status : {"none", "draft", "issued", "paid", "cancelled"}]

Resting == [about |-> "nothing", row |-> [status |-> "none"]]

\* Before an organization subscribes, or at any time after it did.
BillingInit(plan) ==
  /\ \E status \in {"none", "trial", "active", "suspended", "cancelled"} :
       /\ status = "none" <=> plan = NoPlan
       /\ subscription = [status |-> status, plan |-> plan]
  /\ assignment = [plan |-> plan, status |-> subscription.status]
  /\ invoice = [status |-> "none"]
  /\ operator = [o \in Operators |-> Resting]
  /\ direct = FALSE

-----------------------------------------------------------------------------
(* Subscriptions. *)

AllowedFrom ==
  [activate     |-> SubscriptionStatus,
   suspend      |-> {"trial", "active", "past_due"},
   renew        |-> {"active", "past_due", "expired"},
   cancel       |-> SubscriptionStatus \ {"cancelled"},
   extend_trial |-> {"trial"},
   change_plan  |-> SubscriptionStatus \ {"cancelled"}]

mappedAssignmentStatus(status) ==
  CASE status \in {"trial", "suspended"} -> status
    [] status \in {"active", "past_due"} -> "active"
    [] OTHER -> "cancelled"

Chosen(plan, row) == IF plan = NoPlan THEN row.plan ELSE plan

Mutated(action, row, plan) ==
  CASE action = "activate"     -> [status |-> "active", plan |-> Chosen(plan, row)]
    [] action = "suspend"      -> [row EXCEPT !.status = "suspended"]
    [] action = "renew"        -> [row EXCEPT !.status = "active"]
    [] action = "cancel"       -> [row EXCEPT !.status = "cancelled"]
    [] action = "extend_trial" -> [row EXCEPT !.plan = Chosen(plan, row)]
    [] action = "change_plan"  -> [row EXCEPT !.plan = plan]

TakesPlan(action, plan) ==
  CASE action \in {"activate", "extend_trial"} -> TRUE
    [] action = "change_plan" -> plan # NoPlan
    [] OTHER -> plan = NoPlan

Writes(o, about, row) == operator' = [operator EXCEPT ![o] = [about |-> about, row |-> row]]

ReadSubscription(o, action, plan) ==
  /\ operator[o] = Resting /\ TakesPlan(action, plan)
  /\ subscription.status \in AllowedFrom[action]
  /\ Writes(o, "subscription", Mutated(action, subscription, plan))
  /\ UNCHANGED <<subscription, assignment, invoice, direct>>

\* Activate and ExtendTrial create what they do not find.
ReadNoSubscription(o, action, plan) ==
  /\ operator[o] = Resting /\ subscription.status = "none"
  /\ action \in {"activate", "extend_trial"} /\ plan # NoPlan
  /\ Writes(o, "creation", [plan |-> plan,
              status |-> IF action = "activate" THEN "active" ELSE "trial"])
  /\ UNCHANGED <<subscription, assignment, invoice, direct>>

Synced(row) == [plan |-> row.plan, status |-> mappedAssignmentStatus(row.status)]

\* Slip: the assignment is written after the subscription was committed, if the
\* process lives that long.
WriteSubscription_TwoCommits(o) ==
  /\ operator[o].about \in {"subscription", "creation"}
  /\ operator[o].about = "creation" => subscription.status = "none"
  /\ subscription' = operator[o].row
  /\ assignment' \in {assignment, Synced(operator[o].row)}
  /\ direct' = FALSE
  /\ operator' = [operator EXCEPT ![o] = Resting]
  /\ UNCHANGED invoice

\* One transaction with the assignment; a second row of one organization is
\* refused.
WriteSubscription(o) ==
  /\ operator[o].about \in {"subscription", "creation"}
  /\ operator[o].about = "creation" => subscription.status = "none"
  /\ subscription' = operator[o].row
  /\ assignment' = Synced(operator[o].row)
  /\ direct' = FALSE
  /\ operator' = [operator EXCEPT ![o] = Resting]
  /\ UNCHANGED invoice

\* An operator may also assign a plan past the subscription.
AssignOrganizationPlan(plan, status) ==
  /\ assignment' = [plan |-> plan, status |-> status]
  /\ direct' = TRUE
  /\ UNCHANGED <<subscription, invoice, operator>>

\* The request fails, or loses its connection before the commit.
GiveUp(o) ==
  /\ operator[o] # Resting
  /\ operator' = [operator EXCEPT ![o] = Resting]
  /\ UNCHANGED <<subscription, assignment, invoice, direct>>

-----------------------------------------------------------------------------
(* Invoices. *)

CreateInvoice ==
  /\ invoice.status = "none"
  /\ invoice' = [invoice EXCEPT !.status = "draft"]
  /\ UNCHANGED <<subscription, assignment, operator, direct>>

InvoiceAllowedFrom ==
  [issue |-> {"draft"}, mark_paid |-> {"draft", "issued"}, cancel |-> {"draft", "issued"}]

Transitioned ==
  [issue |-> "issued", mark_paid |-> "paid", cancel |-> "cancelled"]

ReadInvoice(o, action) ==
  /\ operator[o] = Resting /\ invoice.status \in InvoiceAllowedFrom[action]
  /\ Writes(o, "invoice", [status |-> Transitioned[action]])
  /\ UNCHANGED <<subscription, assignment, invoice, direct>>

UpdateInvoiceStatus(o) ==
  /\ operator[o].about = "invoice"
  /\ invoice' = operator[o].row
  /\ operator' = [operator EXCEPT ![o] = Resting]
  /\ UNCHANGED <<subscription, assignment, direct>>

Read(o) ==
  \/ \E action \in DOMAIN AllowedFrom, plan \in Plans \cup {NoPlan} :
       ReadSubscription(o, action, plan) \/ ReadNoSubscription(o, action, plan)
  \/ \E action \in DOMAIN InvoiceAllowedFrom : ReadInvoice(o, action)

-----------------------------------------------------------------------------
BillingTypeOK ==
  /\ subscription \in Subscription
  /\ assignment \in Assignment
  /\ invoice \in Invoice
  /\ \A o \in Operators :
       \/ operator[o] = Resting
       \/ operator[o].about \in {"subscription", "creation"} /\ operator[o].row \in Subscription
       \/ operator[o].about = "invoice" /\ operator[o].row \in Invoice
  /\ direct \in BOOLEAN

(* Unless an operator assigned a plan by hand since, the assignment that the  *)
(* entitlements are resolved from has the plan of the subscription, and is in *)
(* force exactly when the subscription is.                                    *)
AssignmentFollowsSubscription ==
  subscription.status # "none" /\ ~direct =>
    /\ assignment.plan = subscription.plan
    /\ assignment.status \in {"trial", "active"}
         <=> subscription.status \in {"trial", "active", "past_due"}

(* What the tables promise of a row is that its status moves along them,      *)
(* whatever statuses requests had read.  The code keeps neither table while   *)
(* two operators overlap on the row; PlatformProofs shows that it does while  *)
(* they do not.                                                               *)

\* An invoice is drafted, issued, paid or cancelled in the order of the lifecycle:
\* "Paid is terminal", and so is cancelled.
InvoiceLifecycle ==
  {<<"none", "draft">>, <<"draft", "issued">>, <<"draft", "paid">>, <<"draft", "cancelled">>,
   <<"issued", "paid">>, <<"issued", "cancelled">>}

InvoiceFollowsTable ==
  [][invoice'.status # invoice.status
       => <<invoice.status, invoice'.status>> \in InvoiceLifecycle]_invoice

\* A subscription goes back to its trial from nowhere, and a suspension never
\* takes the place of a cancellation; active is open to every status.
SubscriptionSuccessors ==
  [status \in SubscriptionStatus \cup {"none"} |->
     CASE status = "none" -> {"trial", "active"}
       [] status \in {"trial", "active", "past_due"} -> {"active", "suspended", "cancelled"}
       [] OTHER -> {"active", "cancelled"}]

SubscriptionFollowsTable ==
  [][subscription'.status # subscription.status
       => subscription'.status \in SubscriptionSuccessors[subscription.status]]_subscription

=============================================================================
