--------------------------- MODULE IdempotencyKeys ---------------------------
(***************************************************************************)
(* The idempotency keys of one session: how PlaceOrder and initiatePayment *)
(* reserve a key, act, and complete or fail it, how a repeated request is  *)
(* answered from the key, and how keys expire and are deleted.             *)
(*                                                                         *)
(* A task is a request; a statement or transaction is one step, as in      *)
(* Settlement.  The status of the session is not kept here: a transaction  *)
(* that the session or the database refuses may happen at any time.        *)
(*                                                                         *)
(* Sources: services/order.go, services/payment.go, worker/worker.go,      *)
(* repository/idempotency.go and sql/queries/idempotency.sql.              *)
(***************************************************************************)
EXTENDS FiniteSets, Naturals

CONSTANTS
  Keys,        \* the (scope, actor, key) tuples
  OrderBodies, \* request hashes of orders
  PayBodies,   \* request hashes of payment initiations
  Resources,   \* identities of the orders and payments that may be created
  Tasks,       \* concurrent requests
  Nothing,     \* SQL NULL
  Faults       \* whether a request may stop half way

Bodies == OrderBodies \cup PayBodies

ASSUME NothingAssumption == Nothing \notin Keys \cup Bodies \cup Resources
ASSUME BodiesAssumption == OrderBodies \cap PayBodies = {}
ASSUME KeyFaultsAssumption == Faults \in BOOLEAN

VARIABLES
  row,    \* row[k]: status, request_hash and response_resource_id of key k
  live,   \* live[k]: expires_at > NOW()
  asked,  \* asked[r]: the request that r was created for; Nothing before
  owner,  \* owner[r]: the key r was created under, until that key expires
  open,   \* the payment of the session that is outstanding
  stage,  \* stage[t]: the next statement of task t
  req,    \* req[t]: key and body of the request
  found,  \* found[t]: the resource the request has at hand or has answered with
  reply   \* reply[t]: its answer; "none" before it and after an error

vars == <<row, live, asked, owner, open, stage, req, found, reply>>

Stages == {"idle", "replay", "reserved", "attach", "create", "lookup",
           "fallback", "fail"}

\* A request in one of these stages has the reservation.
Owning == Stages \ {"idle", "replay"}

Rows == [status : {"none", "pending", "completed", "failed"},
         body : Bodies \cup {Nothing},
         resource : Resources \cup {Nothing}]

NoRow == [status |-> "none", body |-> Nothing, resource |-> Nothing]

TypeOK ==
  /\ row \in [Keys -> Rows]
  /\ live \in [Keys -> BOOLEAN]
  /\ asked \in [Resources -> Bodies \cup {Nothing}]
  /\ owner \in [Resources -> Keys \cup {Nothing}]
  /\ open \in Resources \cup {Nothing}
  /\ stage \in [Tasks -> Stages]
  /\ req \in [Tasks -> [key : Keys, body : Bodies]]
  /\ found \in [Tasks -> Resources \cup {Nothing}]
  /\ reply \in [Tasks -> {"none", "ok", "conflict", "in_progress"}]

Init ==
  /\ row = [k \in Keys |-> NoRow]
  /\ live = [k \in Keys |-> FALSE]
  /\ asked = [r \in Resources |-> Nothing]
  /\ owner = [r \in Resources |-> Nothing]
  /\ open = Nothing
  /\ stage = [t \in Tasks |-> "idle"]
  /\ req \in [Tasks -> [key : Keys, body : Bodies]]
  /\ found = [t \in Tasks |-> Nothing]
  /\ reply = [t \in Tasks |-> "none"]

-----------------------------------------------------------------------------
(***************************************************************************)
(* The statements on idempotency_keys.                                     *)
(***************************************************************************)

\* CreateIdempotencyKey inserts, or takes over a row whose expiry has passed.
\* Slip: a row that is still pending is taken over as well.
Reservable_Pending(k) == row[k].status \in {"none", "pending"} \/ ~live[k]

Reservable(k) == row[k].status = "none" \/ ~live[k]

\* GetIdempotencyKey, which does not see an expired row.
\* Slip: the lookup without AND expires_at > NOW().
Visible_IgnoresExpiry(k) == row[k].status # "none"

Visible(k) == row[k].status # "none" /\ live[k]

\* CompleteIdempotencyKey, whatever the status was.
Completed(k, r) ==
  IF row[k].status = "none" THEN row
  ELSE [row EXCEPT ![k] =
          [status |-> "completed", body |-> @.body, resource |-> r]]

\* FailIdempotencyKey, of a pending key only.
\* Slip: the update without AND status = 'pending'.
Failed_Unconditional(k) ==
  IF row[k].status # "none" THEN [row EXCEPT ![k].status = "failed"] ELSE row

\* Slip: a status that is not in the column's CHECK constraint.
Failed_WrongStatus(k) ==
  IF row[k].status = "pending" THEN [row EXCEPT ![k].status = "error"] ELSE row

Failed(k) ==
  IF row[k].status # "pending" THEN row
  ELSE [row EXCEPT ![k] =
          [status |-> "failed", body |-> @.body, resource |-> @.resource]]

-----------------------------------------------------------------------------

Goto(t, s) == stage' = [stage EXCEPT ![t] = s] /\ UNCHANGED <<req, reply>>

Answer(t, verdict) ==
  /\ stage' = [stage EXCEPT ![t] = "idle"]
  /\ reply' = [reply EXCEPT ![t] = verdict]
  /\ UNCHANGED req

ReturnError(t) == Answer(t, "none") /\ found' = [found EXCEPT ![t] = Nothing]

\* CREATE of an order or payment inside the transaction that completes its key.
\* Slip: the transaction leaves the key to a later statement.
Create_KeyLater(t, r) ==
  /\ asked[r] = Nothing
  /\ asked' = [asked EXCEPT ![r] = req[t].body]
  /\ owner' = [owner EXCEPT ![r] = req[t].key]
  /\ found' = [found EXCEPT ![t] = r]
  /\ UNCHANGED row

Create(t, r) ==
  /\ asked[r] = Nothing
  /\ asked' = [asked EXCEPT ![r] = req[t].body]
  /\ owner' = [owner EXCEPT ![r] = req[t].key]
  /\ found' = [found EXCEPT ![t] = r]
  /\ row' = Completed(req[t].key, r)

\* The commit succeeds; the service learns so, or sees only a broken connection.
Committed(t) == Answer(t, "ok") \/ (Faults /\ Goto(t, "fail"))

\* A task stops between two statements, with what it committed in place.
Abort(t) ==
  /\ Faults
  /\ stage[t] # "idle"
  /\ ReturnError(t)
  /\ UNCHANGED <<row, live, asked, owner, open>>

\* A new request reserves its key, or goes to the replay path.
Reserve(t, k, b) ==
  /\ stage[t] = "idle"
  /\ req' = [req EXCEPT ![t] = [key |-> k, body |-> b]]
  /\ reply' = [reply EXCEPT ![t] = "none"]
  /\ found' = [found EXCEPT ![t] = Nothing]
  /\ IF Reservable(k)
       THEN /\ row' = [row EXCEPT ![k] =
                         [status |-> "pending", body |-> b, resource |-> Nothing]]
            /\ live' = [live EXCEPT ![k] = TRUE]
            /\ stage' = [stage EXCEPT ![t] = "reserved"]
       ELSE /\ stage' = [stage EXCEPT ![t] = "replay"]
            /\ UNCHANGED <<row, live>>
  /\ UNCHANGED <<asked, owner, open>>

\* The same key again.  A row that expired since the reservation was refused is
\* answered like one in progress.
\* Slip: the request hash is not compared.
Replay_AnyBody(t) ==
  LET k == req[t].key
  IN  /\ stage[t] = "replay"
      /\ IF Visible(k) /\ row[k].status = "completed"
           THEN Answer(t, "ok") /\ found' = [found EXCEPT ![t] = row[k].resource]
           ELSE Answer(t, "in_progress") /\ UNCHANGED found
      /\ UNCHANGED <<row, live, asked, owner, open>>

Replay(t) ==
  LET k == req[t].key
  IN  /\ stage[t] = "replay"
      /\ IF Visible(k) /\ row[k].body # req[t].body
           THEN Answer(t, "conflict") /\ UNCHANGED found
         ELSE IF Visible(k) /\ row[k].status = "completed"
           THEN Answer(t, "ok") /\ found' = [found EXCEPT ![t] = row[k].resource]
         ELSE Answer(t, "in_progress") /\ UNCHANGED found
      /\ UNCHANGED <<row, live, asked, owner, open>>

-----------------------------------------------------------------------------
(***************************************************************************)
(* OrderService.PlaceOrder, once it has the key.                           *)
(***************************************************************************)

\* A dish is gone, from another branch, or cannot be looked up: PlaceOrder returns
\* and leaves its key pending.
RefuseOrder(t) ==
  /\ stage[t] = "reserved" /\ req[t].body \in OrderBodies
  /\ ReturnError(t)
  /\ UNCHANGED <<row, live, asked, owner, open>>

CommitOrder(t) ==
  /\ stage[t] = "reserved" /\ req[t].body \in OrderBodies
  /\ \E r \in Resources : Create(t, r)
  /\ Committed(t)
  /\ UNCHANGED <<live, open>>

\* The transaction of an order or of a payment is rolled back.
RollBack(t) ==
  /\ \/ stage[t] = "reserved" /\ req[t].body \in OrderBodies
     \/ stage[t] = "create"
  /\ Goto(t, "fail")
  /\ UNCHANGED <<row, live, asked, owner, open, found>>

FailKey(t) ==
  /\ stage[t] = "fail"
  /\ row' = Failed(req[t].key)
  /\ ReturnError(t)
  /\ UNCHANGED <<live, asked, owner, open>>

-----------------------------------------------------------------------------
(***************************************************************************)
(* PaymentService.initiatePayment, once it has the key.                    *)
(***************************************************************************)

\* The session's outstanding payment is returned instead of a second one.  A
\* session that has ended has none to return.
ReuseLookup(t) ==
  /\ stage[t] = "reserved" /\ req[t].body \in PayBodies
  /\ \/ /\ open # Nothing
        /\ found' = [found EXCEPT ![t] = open]
        /\ Goto(t, "attach")
     \/ Goto(t, "create") /\ UNCHANGED found
  /\ UNCHANGED <<row, live, asked, owner, open>>

AttachToExisting(t) ==
  /\ stage[t] = "attach"
  /\ row' = Completed(req[t].key, found[t])
  /\ Answer(t, "ok")
  /\ UNCHANGED <<live, asked, owner, open, found>>

\* The transaction creates the payment ...
CommitPayment(t) ==
  /\ stage[t] = "create"
  /\ open = Nothing
  /\ \E r \in Resources : Create(t, r) /\ open' = r
  /\ Committed(t)
  /\ UNCHANGED live

\* ... or finds one on a frozen session ...
CommitExisting(t) ==
  /\ stage[t] = "create"
  /\ open # Nothing
  /\ found' = [found EXCEPT ![t] = open]
  /\ row' = Completed(req[t].key, open)
  /\ Committed(t)
  /\ UNCHANGED <<live, asked, owner, open>>

\* ... or loses the race for it: the index refuses the row, or the session is no
\* longer active.
LoseRace(t) ==
  /\ stage[t] = "create"
  /\ Goto(t, "lookup")
  /\ UNCHANGED <<row, live, asked, owner, open, found>>

LookUpWinner(t) ==
  /\ stage[t] = "lookup"
  /\ \/ /\ open # Nothing
        /\ found' = [found EXCEPT ![t] = open]
        /\ Goto(t, "fallback")
     \/ Goto(t, "fail") /\ UNCHANGED found
  /\ UNCHANGED <<row, live, asked, owner, open>>

\* The winner's payment is the answer even when the key cannot be completed.
AnswerWithWinner(t) ==
  /\ stage[t] = "fallback"
  /\ \/ row' = Completed(req[t].key, found[t])
     \/ Faults /\ UNCHANGED row
  /\ Answer(t, "ok")
  /\ UNCHANGED <<live, asked, owner, open, found>>

\* Staff settle or cancel the payment (module Settlement).
Decide ==
  /\ open # Nothing
  /\ open' = Nothing
  /\ UNCHANGED <<row, live, asked, owner, stage, req, found, reply>>

-----------------------------------------------------------------------------

\* Twenty-four hours pass.  A request is answered within seconds, so no request
\* still has the reservation.
Expire(k) ==
  /\ live[k]
  /\ \A t \in Tasks : stage[t] \in Owning => req[t].key # k
  /\ live' = [live EXCEPT ![k] = FALSE]
  /\ owner' = [r \in Resources |-> IF owner[r] = k THEN Nothing ELSE owner[r]]
  /\ UNCHANGED <<row, asked, open, stage, req, found, reply>>

\* Worker.ReapIdempotencyKeys deletes a row that expired long enough ago.
Reap(k) ==
  /\ row[k].status # "none"
  /\ ~live[k]
  /\ row' = [row EXCEPT ![k] = NoRow]
  /\ UNCHANGED <<live, asked, owner, open, stage, req, found, reply>>

PlaceOrder(t) == RefuseOrder(t) \/ CommitOrder(t)

InitiatePayment(t) ==
  \/ ReuseLookup(t) \/ AttachToExisting(t) \/ CommitPayment(t)
  \/ CommitExisting(t) \/ LoseRace(t) \/ LookUpWinner(t) \/ AnswerWithWinner(t)

TaskStep(t) ==
  \/ \E k \in Keys, b \in Bodies : Reserve(t, k, b)
  \/ Replay(t) \/ PlaceOrder(t) \/ InitiatePayment(t)
  \/ RollBack(t) \/ FailKey(t) \/ Abort(t)

Next ==
  \/ \E t \in Tasks : TaskStep(t)
  \/ Decide
  \/ \E k \in Keys : Expire(k) \/ Reap(k)

Spec == Init /\ [][Next]_vars

-----------------------------------------------------------------------------

\* A retry finds what the first attempt made, wherever that attempt stopped: an
\* order or payment created under a key that has not expired is what the key
\* replays, so no second one can be made under it.
CreatedIsReplayed ==
  \A r \in Resources :
    owner[r] # Nothing =>
      LET k == owner[r]
      IN  live[k] /\ row[k].status = "completed" /\ row[k].resource = r

\* Nobody is answered with somebody else's request: an order is the order this
\* body asked for, and a payment is answered with a payment, although both kinds
\* share one key space and the replay never looks at the resource's type.
AnswerMatchesRequest ==
  \A t \in Tasks :
    reply[t] = "ok" =>
      IF req[t].body \in OrderBodies
        THEN asked[found[t]] = req[t].body
        ELSE asked[found[t]] \in PayBodies

\* An expired key is dead although its row is still there: an order is replayed
\* only to a request within the lifetime of the reservation that made it.
ReplayedWithinLifetime ==
  [][\A t \in Tasks :
       stage[t] = "replay" /\ reply'[t] = "ok" /\ req[t].body \in OrderBodies
         => owner[found'[t]] = req[t].key]_vars

Slot ==
  [k \in Keys |->
     IF Reservable(k) THEN [state |-> "free", with |-> Nothing]
     ELSE IF row[k].status = "completed"
       THEN [state |-> "filled", with |-> row[k].resource]
     ELSE [state |-> "taken", with |-> Nothing]]

Made == {r \in Resources : asked[r] # Nothing}

Contract == INSTANCE OnceOnly WITH slot <- Slot, made <- Made

\* The keys keep the promise of OnceOnly; in particular the reaper changes no
\* request's outcome, since deleting a row is a step nobody sees.
ImplementsOnceOnly == Contract!Spec

\* What the interface says of IDEMPOTENCY_IN_PROGRESS: a concurrent request holds
\* the key.  Every live key that Replay answers so has a request at work.
InProgressMeansHeld ==
  \A k \in Keys :
    Visible(k) /\ row[k].status # "completed"
      => \E t \in Tasks : stage[t] \in Owning /\ req[t].key = k

=============================================================================
