-------------------------------- MODULE Platform --------------------------------
(***************************************************************************)
(* Two decisions about a branch that every request asks for: whether it    *)
(* may admit guests (TenantStatusGate) and whether a feature is on for it  *)
(* (FeatureGate).  A gate reads the rows it decides from one after the     *)
(* other and caches the decision in Redis for its TTL.  An operator's edit *)
(* is committed and then the cache is flushed; the flush may fail, or find *)
(* a decision still being made from older rows.                            *)
(***************************************************************************)
EXTENDS Billing, Sequences

CONSTANTS
  Lookups,  \* requests that resolve a gate at once
  TTL,      \* ticks a decision is cached
  MaxDelay, \* bound: ticks between the first row a resolution reads and its fill
  Editable, \* bound: the statuses and overrides that are edited
  Assignable, \* bound: the statuses a plan is assigned with by hand
  MaxRequests \* bound: requests of operators

ASSUME PlatformAssumption ==
  /\ TTL \in Nat \ {0} /\ MaxDelay \in Nat /\ MaxRequests \in Nat
  /\ Assignable \subseteq AssignmentStatus

VARIABLES
  setting, \* statuses, flags and the organization's override of the capability
  grants,  \* the plans that grant the capability
  entry,   \* each gate's cached decision
  lookup,
  owed,    \* gates whose flush an operator's request has yet to make
  quiet,   \* ticks since what a gate reads was last edited
  requests

gateVars == <<setting, grants, entry, lookup, owed, quiet, requests>>
vars == <<billingVars, gateVars>>

Gates == {"feature", "tenant"}
Flags == {"global", "organization_flag", "branch_flag"}
Switches == {"default", "organization", "branch"}
Overrides == Flags \cup {"override"}
Setting == {"on", "off", "unset"}

\* The rows a gate reads, in its order.
Reads == [feature |-> <<"override", "assignment", "grants", "default", "global",
                        "organization_flag", "branch_flag">>,
          tenant |-> <<"branch", "organization">>]

NoEntry == [held |-> FALSE, decision |-> FALSE, age |-> 0]
NoLookup == [gate |-> "none", seen |-> <<>>, age |-> 0]
Still == TTL + MaxDelay

\* An organization without a plan, or one whose plan has the feature that is on
\* for everyone.
Init ==
  /\ \E plan \in Plans \cup {NoPlan} :
       /\ BillingInit(plan)
       /\ grants = Plans \cap {plan}
       /\ setting = [s \in Switches \cup Overrides |->
                       CASE s = "default" -> "off"
                         [] s \in {"organization", "branch"} -> "on"
                         [] s = "global" /\ plan # NoPlan -> "on"
                         [] OTHER -> "unset"]
  /\ entry = [g \in Gates |-> NoEntry]
  /\ lookup = [l \in Lookups |-> NoLookup]
  /\ owed = {}
  /\ quiet = [g \in Gates |-> Still]
  /\ requests = 0

-----------------------------------------------------------------------------
(* The decisions. *)

FirstSet(layers) == Head(SelectSeq(layers, LAMBDA v : v # "unset"))

\* mergeEntitlements for one capability: no plan grants it by default.
HasCapability(override, granted) == IF override = "unset" THEN granted ELSE override = "on"

resolveFlag(default, global, organization, branch) ==
  FirstSet(<<branch, organization, global, default>>) = "on"

Decision(g, v) ==
  IF g = "feature"
  THEN HasCapability(v[1], v[3]) /\ resolveFlag(v[4], v[5], v[6], v[7])
  ELSE v[1] = "on" /\ v[2] = "on"

\* What a read of a row returns; the plan's entitlements are read for the plan
\* of the assignment that was seen.
RowNow(row, plan) ==
  CASE row = "assignment" -> assignment.plan
    [] row = "grants" -> plan \in grants
    [] OTHER -> setting[row]

Truth(g) == Decision(g, [i \in 1..Len(Reads[g]) |-> RowNow(Reads[g][i], assignment.plan)])

-----------------------------------------------------------------------------
(* Resolving a gate. *)

\* Slip: a hit renews the entry.
Lookup_Sliding(l, g) ==
  /\ lookup[l] = NoLookup
  /\ IF entry[g].held
     THEN entry' = [entry EXCEPT ![g].age = 0] /\ UNCHANGED lookup
     ELSE lookup' = [lookup EXCEPT ![l].gate = g] /\ UNCHANGED entry
  /\ UNCHANGED <<billingVars, setting, grants, owed, quiet, requests>>

\* A cached decision is served as it is, which changes nothing; without one, or
\* when Redis does not answer, the rows are read.
Lookup(l, g) ==
  /\ lookup[l] = NoLookup
  /\ lookup' = [lookup EXCEPT ![l].gate = g]
  /\ UNCHANGED <<billingVars, setting, grants, entry, owed, quiet, requests>>

Order(l) == Reads[lookup[l].gate]

Resolve(l) ==
  LET seen == lookup[l].seen
      row  == Order(l)[Len(seen) + 1]
      plan == IF row = "grants" THEN seen[2] ELSE NoPlan
  IN
  /\ lookup[l] # NoLookup /\ Len(seen) < Len(Order(l))
  /\ lookup' = [lookup EXCEPT ![l].seen = Append(@, RowNow(row, plan))]
  /\ UNCHANGED <<billingVars, setting, grants, entry, owed, quiet, requests>>

\* Slip: the decision is cached without an expiry.
cacheSet_Forever(l) ==
  LET g == lookup[l].gate IN
  /\ lookup[l] # NoLookup /\ Len(lookup[l].seen) = Len(Order(l))
  /\ entry' = [entry EXCEPT ![g] = [held |-> TRUE, decision |-> Decision(g, lookup[l].seen),
                                    age |-> -TTL]]
  /\ lookup' = [lookup EXCEPT ![l] = NoLookup]
  /\ UNCHANGED <<billingVars, setting, grants, owed, quiet, requests>>

cacheSet(l) ==
  LET g == lookup[l].gate IN
  /\ lookup[l] # NoLookup /\ Len(lookup[l].seen) = Len(Order(l))
  /\ entry' = [entry EXCEPT ![g] = [held |-> TRUE, decision |-> Decision(g, lookup[l].seen),
                                    age |-> 0]]
  /\ lookup' = [lookup EXCEPT ![l] = NoLookup]
  /\ UNCHANGED <<billingVars, setting, grants, owed, quiet, requests>>

\* A read or the fill fails.
LookupFails(l) ==
  /\ lookup[l] # NoLookup
  /\ lookup' = [lookup EXCEPT ![l] = NoLookup]
  /\ UNCHANGED <<billingVars, setting, grants, entry, owed, quiet, requests>>

-----------------------------------------------------------------------------
(* Editing what the gates read. *)

Request == requests < MaxRequests /\ requests' = requests + 1

Touched(g) == quiet' = [quiet EXCEPT ![g] = 0]

Edited(g) == Request /\ Touched(g)

Set(row, value) ==
  /\ setting[row] # value
  /\ setting' = [setting EXCEPT ![row] = value]
  /\ UNCHANGED <<billingVars, grants, entry, lookup>>

setStatus(row, value) ==
  /\ row \in {"organization", "branch"} /\ value # "unset"
  /\ Set(row, value) /\ Edited("tenant") /\ owed' = owed \cup {"tenant"}

\* Also clears one, and so does an entitlement override without a value.
SetOverride(row, value) ==
  /\ row \in Overrides
  /\ Set(row, value) /\ Edited("feature") /\ owed' = owed \cup {"feature"}

\* The default of a flag is changed without a flush.
UpdateFlag(value) ==
  /\ value # "unset"
  /\ Set("default", value) /\ Edited("feature") /\ UNCHANGED owed

SetPlanEntitlements(plan) ==
  /\ grants' = IF plan \in grants THEN grants \ {plan} ELSE grants \cup {plan}
  /\ Edited("feature") /\ owed' = owed \cup {"feature"}
  /\ UNCHANGED <<billingVars, setting, entry, lookup>>

AssignPlan(plan, status) ==
  /\ AssignOrganizationPlan(plan, status)
  /\ Edited("feature") /\ owed' = owed \cup {"feature"}
  /\ UNCHANGED <<setting, grants, entry, lookup>>

\* Nor do billing's changes of the plan flush.
Bill(o) ==
  \/ Read(o) /\ Request /\ UNCHANGED <<setting, grants, entry, lookup, owed, quiet>>
  \/ (GiveUp(o) \/ UpdateInvoiceStatus(o)) /\ UNCHANGED gateVars
  \/ WriteSubscription(o) /\ Touched("feature")
       /\ UNCHANGED <<setting, grants, entry, lookup, owed, requests>>

Draft == CreateInvoice /\ Request /\ UNCHANGED <<setting, grants, entry, lookup, owed, quiet>>

Invalidate(g) ==
  /\ g \in owed /\ owed' = owed \ {g}
  /\ entry' \in {entry, [entry EXCEPT ![g] = NoEntry]}
  /\ UNCHANGED <<billingVars, setting, grants, lookup, quiet, requests>>

-----------------------------------------------------------------------------
Aged(e) == IF ~e.held \/ e.age + 1 >= TTL THEN NoEntry ELSE [e EXCEPT !.age = @ + 1]

Older(l) == IF l = NoLookup THEN l ELSE [l EXCEPT !.age = @ + 1]

\* A resolution is over before the tick that would make it too old.
Tick ==
  /\ \A l \in Lookups : lookup[l].age < MaxDelay \/ lookup[l] = NoLookup
  /\ entry' = [g \in Gates |-> Aged(entry[g])]
  /\ lookup' = [l \in Lookups |-> Older(lookup[l])]
  /\ quiet' = [g \in Gates |-> IF quiet[g] < Still THEN quiet[g] + 1 ELSE Still]
  /\ UNCHANGED <<billingVars, setting, grants, owed, requests>>

Edit ==
  \/ \E row \in Editable, value \in Setting : setStatus(row, value) \/ SetOverride(row, value)
  \/ \E value \in {"on", "off"} : UpdateFlag(value)
  \/ \E plan \in Plans : SetPlanEntitlements(plan)
  \/ \E plan \in Plans, status \in Assignable : AssignPlan(plan, status)

Next ==
  \/ \E l \in Lookups :
       (\E g \in Gates : Lookup(l, g)) \/ Resolve(l) \/ cacheSet(l) \/ LookupFails(l)
  \/ Edit \/ \E g \in Gates : Invalidate(g)
  \/ \E o \in Operators : Bill(o)
  \/ Draft \/ Tick

Spec == Init /\ [][Next]_vars

-----------------------------------------------------------------------------
TypeOK ==
  /\ BillingTypeOK
  /\ setting \in [Switches \cup Overrides -> Setting]
  /\ \A s \in Switches : setting[s] # "unset"
  /\ grants \subseteq Plans /\ owed \subseteq Gates
  /\ entry \in [Gates -> [held : BOOLEAN, decision : BOOLEAN, age : 0..(TTL - 1)]]
  /\ \A l \in Lookups :
       /\ lookup[l].gate \in Gates \cup {"none"} /\ lookup[l].age \in 0..MaxDelay
       /\ lookup[l].gate \in Gates => Len(lookup[l].seen) <= Len(Order(l))
  /\ quiet \in [Gates -> 0..Still] /\ requests \in 0..MaxRequests

(* Flushes may fail, be missed or be overtaken by an older resolution: once   *)
(* nothing a gate reads was edited for as long as an entry and a resolution   *)
(* last, the gate serves what the rows say.                                   *)
StaleWithinTTL ==
  \A g \in Gates : quiet[g] = Still /\ entry[g].held => entry[g].decision = Truth(g)

=============================================================================
