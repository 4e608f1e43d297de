# Verification of the dining backend

TLA+ modules that model the qr-dining backend (`src/backend`, Go, PostgreSQL and
Redis), the TLC runs that check them on small instances, and TLAPS proofs that
hold for instances of any size. `PROJECT.json` lists, for every definition, the
source lines it translates, and for every property a mutant of the code that
breaks it.

How to run: `tlc -workers 2 -config X.cfg M` with the module and configuration of a
row in "Runs" below; `tlapm M.tla` with one of the eight modules whose name ends in
`Proofs`.

## 1. The system

Guests scan the code on a table, join its session, fill one shared cart, order,
and ask for the bill; staff settle it; the session closes and the table is free
again. Each HTTP request and each tick of a background worker is a goroutine of
its own, on any of several instances. They share no memory that matters: all
they share is rows of PostgreSQL, hashes and locks of Redis, and a pub/sub
channel. So the hard behaviour is that of several statements of one handler
between which the statements of others fall, and of a handler that stops between
two of them.

| Component | State | Operations | Interacts with | What makes it correct |
|---|---|---|---|---|
| Session lifecycle | `sessions.status`, closing actor | create, join, freeze, release, pause, reactivate, close, force-close, abandon | every other service reads the status first and writes later | status follows its table; a session that is over stays over; it closes by itself only when paid |
| Payments and settlement | `payments`, `bill_snapshots` | initiate, settle, cancel, auto-close, release, reconcile | freezes and closes the session, reads the orders | one outstanding payment; a decision is final; a collected bill covers the orders or is reported |
| Orders | `orders` | place, cancel, kitchen statuses | session status, idempotency key, cart | nothing is ordered while the bill is being paid |
| Idempotency keys | `idempotency_keys` | reserve, replay, complete, fail, expire, reap | order and payment services | one effect per key; a retry gets the first answer |
| Tables, participants, host | `tables`, `session_participants`, presence hashes | open, join, transfer, promote, heal, revoke | session lifecycle, workers | table and session agree; exactly one host who can act; no needless deadlock |
| Session workers | none of their own | stale cleaner, reactivation pipeline, table reconciler, key reaper, escalation, presence expiry | all tables above, Redis lock per worker | never end a visit that is alive or paid for twice |
| Shared cart | `carts`, `cart_items` | add, remove, clear after an order | order service, session status | - |
| Realtime events | `session_events`, hub rooms, client buffers | append, publish, subscribe, evict, replay | every service publishes | no gap a client cannot see; an evicted client notices |
| Web clients | the connection, what the screen shows | connect, back off, reconcile, give up | snapshot and ticket endpoints, the hub | the screen never goes back; gives up only in trouble |
| Promotions and loyalty | `promos`, `promo_redemptions`, accounts and ledger | quote, redeem, accrue, adjust | payment transaction, settlement | limits hold; balance is the sum of the ledger |
| Staff identity | `staff`, `staff_sessions`, Redis sessions and token sets, lockout | login, validate, sign off, rotate, reset, deactivate | every staff route | a revocation is final; signing one device off spares the others |
| Assistance requests | one row, three states | request, acknowledge, resolve | events | follows its table |
| Entitlements, flags, billing | plan, flag and subscription rows, invoices, Redis caches | change, resolve, invalidate | gates of the services | subscription and invoice follow their tables, the plan assignment follows the subscription; a cached decision is not stale for long |
| Tenancy, platform administration | organisation and branch rows, cached entry gate | suspend, activate | entry gate of sessions | a suspended tenant admits nobody for long |
| Menu, QR, themes, collateral; analytics, support, audit; server and storage | catalogue rows, reports, log, wiring | create, read, update, delete | - | - |

Hard behaviours, by where they bite (the full list, with lines, is `hazards` in
`PROJECT.json`):

- *Check, then act.* `PlaceOrder`, `AddItem`, `initiatePayment`, `TransferHost`,
  `JoinSession` and `AuthorizeHostAction` read a row without a lock and write on
  the strength of it several statements later.
- *Two transactions where one was meant.* The release after a cancellation lists
  the payments and then thaws the session; the auto-close compares the bill and
  then closes; a force-close closes and then withdraws payments.
- *Stops in between.* After a settlement the auto-close may be lost; after a
  commit its answer may be.
- *Retries.* A client repeats an order or an initiation with its key while the
  first attempt still runs, after it crashed, or a day later.
- *Locks in different orders.* Opening, closing, abandoning and handing over the
  host role lock the same rows.
- *Two stores, one truth.* A revocation writes PostgreSQL and then Redis, an edit is
  committed and then the cache is flushed; the second half may fail, or overtake a
  reader that is filling the cache from the rows of before.
- *Commit, append, publish.* An event is numbered after the change it tells of and
  published after that; the publication may be lost, the subscriber's buffer full,
  the client's connection half closed.
- *Workers beside users.* The stale cleaner and the reactivation pipeline end or
  pause a session that a guest is just about to use.

## 2. Modules

| Module | What it is |
|---|---|
| `Statuses` | the status enumerations and transition tables of `domain/statemachine.go` |
| `Settlement` | one session, its orders and payments; every handler statement by statement |
| `PaymentProtocol` | the abstract specification `Settlement` implements |
| `SettlementProofs` | theorems about `Settlement` |
| `OverlapProofs` | more of them: which overlaps of requests break the documented rules, and that no other does |
| `IdempotencyKeys` | the keys of one session and the requests that use them |
| `OnceOnly` | the abstract specification `IdempotencyKeys` implements |
| `IdempotencyProofs` | theorems about `IdempotencyKeys` |
| `Seating` | tables, sessions, guests, host, row locks |
| `Occupancy` | the abstract specification `Seating` implements |
| `SeatingProofs` | theorems about `Seating` |
| `Hub` | one process's WebSocket hub: its goroutine, its channels and the two pumps of each connection |
| `EventStream` | extends `Hub` by the requests that raise events, the log, and one guest's client |
| `EventStreamProofs` | theorems about `Hub` and `EventStream` |
| `Rewards` | a promo and its redemptions, a loyalty account and its ledger |
| `CappedOffer` | the abstract specification `Rewards` implements |
| `RewardsProofs` | theorems about `Rewards` |
| `StaffAccess` | one staff member's row, sessions, tokens and the requests made with them |
| `Shift` | extends `StaffAccess` by what accepted requests do to orders and calls |
| `ShiftProofs` | theorems about `Shift` |
| `Billing` | one organization's subscription, plan assignment and invoice |
| `Platform` | extends `Billing` by the two cached gates that depend on it |
| `PlatformProofs` | theorems about `Platform` |
| `MCSettlement`, `MCIdempotencyKeys`, `MCSeating`, `MCEventStream`, `MCRewards`, `MCShift`, `MCPlatform` | constants and symmetry for TLC |
| `MCOverlap` | extends `MCSettlement` by a history of the documented rules |

Definitions carry the names of the functions and queries they translate. A
definition whose name has a suffix after an underscore and whose comment begins
with "Slip" is a plausible bug in its neighbour (a dropped `WHERE` clause, a
swapped lock order); nothing uses it. Substituted for its neighbour it must break
the property `PROJECT.json` pairs it with, which shows that the property depends
on that line of the code.

### Settlement

A *task* is a goroutine. `stage[t]` is the statement it executes next and
`bill[t]`, `held[t]` are what it has read; a database transaction is the one step
that commits it. A conditional `UPDATE ... WHERE status = ...` is an operator whose
condition is evaluated on the committed row, which is what PostgreSQL does with a
row another transaction has just changed (read committed). `Abort` lets a task stop
before any statement `StopsAt` names, for a crash, a lost client or a failing statement.
`InitiateRead` is one step for the look at an existing payment before the transaction
and the reads inside it: an earlier look that finds a payment answers with it and is
over, one that finds none leaves nothing behind, and a payment made in between meets the
unique index when the insert is tried, so looking earlier adds no behaviour.

| Handler | Steps |
|---|---|
| `OrderService.PlaceOrder` | `PlaceOrderCheck`, `PlaceOrderCommit` |
| `PaymentHandler.InitiatePayment`, `initiatePayment` | `ComputeBill`, `InitiateRead`, `InitiateFreeze` or `InitiateInsert` |
| `SettlePaymentByStaff`, `maybeCloseSettledSession` | `SettleCheck`, `SettleUpdate`, `ListCompleted`, `CheckFresh`, `AutoClose` |
| `CancelPaymentByStaff`, `maybeReleasePaymentPending` | `CancelRead`, `CancelUpdate`, `ListOutstanding`, `ReleasePaymentPending` |
| `ForceCloseByStaff` | `ForceClose`, `ListStranded`, `WithdrawStranded` |
| reactivation pipeline, stale cleaner | `AwaitCheck`, `AwaitUpdate`, `AbandonCheck`, `AbandonUpdate` |
| one-statement handlers | `CancelOrder`, `CloseSession`, `Reactivate` |

Left out: the host check (in `Seating`), the key of a request (in
`IdempotencyKeys`), promos (in `Rewards`; a discount changes the amount, not which
orders a bill covers), kitchen statuses (in `Shift`; an order that is not cancelled is
billed whatever its status), and the provider webhook: it looks a payment up by provider and reference,
and no handler gives a payment a provider, so it changes no row.

A legal sequence worth knowing: a bill is settled while a newer order makes it
stale, so the auto-close refuses; the order is cancelled later, the collected bill
is fresh again, but nothing retries the close. The session stays frozen with no
outstanding payment, and the escalation query, which joins an outstanding payment,
does not list it. It can be billed again in full, for the bill does not subtract
what was collected. `DoubleCollectionReported` shows that the reconciliation query
sees it once the session is closed.

### IdempotencyKeys

`row[k]` is the stored key, `live[k]` whether `expires_at` is in the future,
`owner[r]` the key a resource was created under while that key lives. A request
reserves its key or goes to the replay path; an order or payment and the completion
of its key are one transaction; a commit whose answer is lost leads to the failure
path although the order exists. The session's status is not kept: a transaction may
be refused at any time, which allows more than the code does. `Expire` assumes that
no request runs for the 24 hours its key lives.

The code honours expiry in the lookup and reaps expired rows. Two documents still
say otherwise (`src/docs/INVARIANTS.md:163-165` and
`src/docs/reference/payment-finalization-invariants.md:38-41`); the model follows
the code.

### Seating

The variables are committed rows. A transaction takes the locks of the rows it
writes in the order of its statements, waits while another holds one, and its
writes appear when it commits. `RollBack` may end it at any moment: a crash, a
cancelled request, or PostgreSQL choosing it to break a deadlock. An insert into
the unique index of live sessions waits for an uncommitted writer of the
conflicting row, and only for that; a row that is merely locked `FOR UPDATE`
does not block it (`IndexWaitsFor`, `BeingWritten`).

| Code | Actions |
|---|---|
| `CreateSession` | `StartCreate`, `Lock`, `CommitCreate` or `RefuseCreate` |
| `JoinSession` | `StartJoin`, `CommitJoin` |
| `TransferHost`, `AuthorizeHostAction`, `ensureHostBaseline`, `reassignHost` | `TransferHost`, `Promote`, `EnsureHostBaseline`, `Lock`, `ReassignHost` |
| `CloseSession`, `closeSessionRecord` | `StartClose`, `Lock`, `CommitClose` |
| `cleanStaleSessions`, `AbandonStaleSession` | `StartAbandon`, `Lock`, `CommitAbandon` |
| freeze and release | `FreezeOrThaw` |
| `Repos.ReconcileSessionTables` | `ReconcileSessionTables` |
| presence | `Heartbeat`, `Silence` |

Abstractions: "open" stands for `active` and `awaiting_reactivation`; a heartbeat has
one of three ages (within 90 seconds, within the host's grace, beyond it) instead of
a timestamp, and failing reads of presence, which make the code do nothing, are
the action not being taken; the presence hash that a close deletes after its commit
ages by `Silence`, as slowly as it likes; healing picks any present guest where the code picks
the one who joined first; the guests of a session are one lock, because every
writer of them writes the host's row; the numbering row of `session_sequences`,
which only openings of one branch share, is left out.

### Hub and EventStream

`Hub` is `websocket/hub.go` and `client.go` at the grain of channel operations: the
select loop of `Run` (`HubStep`), `addToRoom`, `removeFromRoom`, `broadcastToRoom`
with its eviction of a client whose buffer is full, `drainAll`, and for each
connection `readPump` and `writePump` with the ways each of them ends. A message is
a sequence number. A send on a closed channel is a step to `proc = "panicked"`.
`EventStream` adds what happens before and after: a request commits a change,
`AppendSessionEvent` numbers it, `PublishEvent` publishes it; `LoseEvent`,
`RequestFails`, `LoseSubscription`, `drainAll`, `Exit` are the faults. The guest is the
client's connection class and reconciliation: `openSocket`, `onclose`, `reconnect`
with its attempts, `ReadOrders` and `ListSessionEventsAfter` as the snapshot handler
makes its two reads, `reconcileSnapshot`, and `retry`. The client is told that the
session is over (`endSession`) only when the close falls between two reads of one
request: a ticket asked for later is refused for the session's status, and a snapshot for
the credential, which `reconnect` takes for a failed fetch.

A message the hub has taken for a connection is `owed` to it until it is written or
the connection has left the room; `NoSilentGap` compares the two. Left out: several
processes on one Redis, pruning of the log, presence, and the timers of pings, whose
expiry is a connection that drops at any time.

### Rewards

An initiation quotes a promo (`Quote`), then runs its transaction row by row:
`InsertPayment` (the branch's payment counter of its business day), `LockPromo`
(`GetPromoForUpdate`, and the checks of `ValidatePromo` again), `CountByPhone`,
`CommitPayment` or `RollBack`. A settlement (`SettlePayment`) is followed by `AccrueRead`
and `AccrueCommit`, or by `Stop`. The owner changes or deactivates the offer, and
redeems or adjusts points by hand, at any time; `NextDay` turns the business day, which
is when two initiations hold different counters and only the promo's row is between
them. `NumberOf` is `promoNormalizePhone`: two spellings of one number. Left out: the
value of a discount, windows of validity, several customers.

### StaffAccess and Shift

A token has a `staff_sessions` row and a cached session with the versions of the
staff row that its login read. `ReadCached`, `ReadStaff`, `ReadRow` are the three
reads of a validation; `Verify`, `CreateStaffSession`, `StoreToken`, `HandOut` the
statements of a login; `RevokeStaffSession`, `ForgetToken` those of a sign-off;
`ResetPIN` or `DeactivateStaff`, `RevokeStaffSessionsForStaff`, `ListTokens`,
`DeleteTokens` those of a manager's revocation. Any Redis call may fail and
`RedisForgets` may drop an entry at any time; a session expires (`Expire`) only once its
login has answered, because it lives for hours. `strict` is
`AUTH_STAFF_SESSION_DB_REQUIRED`, chosen once. `over` is a history of the tokens whose
end somebody was told: a sign-off counts only in strict mode, because in the other
the cached session is all that is consulted and its deletion may fail.

In `Shift` an accepted request reads an order or a call, consults the table and
updates the row: an order's only if the status is the one it read
(`UpdateOrderStatusExpected`), a call's whatever it is (`UpdateAssistanceStatusScoped`).
The PINs themselves, the lockout and the rate limits are left out: a login is made by
somebody who knew the PIN when it was compared.

### Billing and Platform

An operator's request reads the subscription or invoice without a lock
(`ReadSubscription`, `ReadInvoice`), consults the table, and overwrites the row with
what it made of the one it read (`WriteSubscription` with the plan assignment in one
transaction, `UpdateInvoiceStatus`), so the later of two writers wins. A gate is
resolved row by row in the order of the code (`Resolve`), also when Redis holds a
decision but cannot be read, cached with a lifetime
(`cacheSet`) and flushed after an edit (`Invalidate`), which may fail. Time is a
`Tick` of all ages. Left out: limits (which no handler enforces), the
bridge from the older restaurant plans, billing profiles, recorded payments, and the
dates of a subscription and an invoice, from which nothing is decided.

## 3. Runs

| Run | Instance | Distinct states | Shows |
|---|---|---|---|
| `settlement` | 2 orders, 3 payments, 2 tasks, faults | 715 542 | `OneNonTerminalPayment`, `SystemCloseWasPaid`, `DoubleCollectionReported`, `PaymentsFollowTable`, `SessionFollowsTable` under every interleaving and every stop; `ImplementsProtocol`; the documented rules `ThawsUnbilled`, `FrozenStaysFrozen`, `ClosesCovered`, `ForceCloseWithdraws` as long as nothing excuses them |
| `settlement_live` | 2 orders, 2 payments, 2 tasks, fair, stops only before anything is changed | 243 342 | `SettlementEndsVisit`, `FreezeEnds` |
| `idempotency` | 2 keys, orders and payments, 2 requests, faults | 370 654 | `CreatedIsReplayed`, `AnswerMatchesRequest`, `ReplayedWithinLifetime`, `ImplementsOnceOnly` |
| `seating` | 1 table, 2 visits, 3 guests, 2 requests | 119 207 | `TableFollowsVisit`, `VisitHasOneHost`, `EndingsNeverDeadlock`, `ImplementsOccupancy` |
| `stream` | 1 connection at a time, buffers of 1, 2 changes, 2 attempts, a replay limit of 1, 1 request, every fault | 1 496 208 | `NoSilentGap`, `NobodyDeaf`, `GivesUpOnlyInTrouble`, `SnapshotNeverGoesBack`, `EvictedGuestNotices` |
| `rewards` | 2 requests, 2 sessions, 2 payments, 1 phone in 2 spellings | 966 624 | `LedgerBalances`, `VisitsCoverSessions`, `ImplementsCappedOffer` |
| `shift` | 2 tokens, 2 requests, 1 order, 1 call, 1 change of the row | 2 427 501 | `RevocationIsFinal`, `SessionsEndForCause`, `TicketFollowsTable` |
| `platform` | 2 plans, 2 operators, 1 lookup, 2 requests, a lifetime of 2 ticks | 1 558 860 | `AssignmentFollowsSubscription`, `StaleWithinTTL` |
| `late_order` | 2 orders, 2 payments, 2 tasks, no faults | violation | the auto-close closes over an order that is on no bill |
| `hub_panic` | 2 connections, nothing fails but sockets | violation | a connection that is unregistered before it is registered leaves a closed channel in the room, and the next broadcast panics |
| `request_reopened` | 1 call, 2 requests | violation | an acknowledgement that read the call before its resolution reopens it |
| `invoice_reopened` | 1 invoice, 2 operators | violation | an invoice one operator has ended is written over by another who read it before (`InvoiceFollowsTable`) |

Every passing run but `settlement_live` also checks the module's type invariant. A violation run checks one
sentence of the repository that overlapping requests break; `findings` in
`PROJECT.json` quotes the sentence and the line.

Six more configurations are kept to be run by hand; each ends in the trace it is
named for:

| Configuration | Module | Trace |
|---|---|---|
| `OrderSlipsIn.cfg` | `MCSettlement` | an order admitted before the freeze is inserted after it, against INVARIANTS.md C4 (`OrdersFrozenWhilePaying`) |
| `ReleaseRace.cfg` | `MCSettlement` | the release thaws a session into which a payment has just been inserted (`NothingOutstandingWhileActive`) |
| `KeyStuck.cfg` | `MCIdempotencyKeys` | a refused order leaves its key "in progress" for a day (`InProgressMeansHeld`) |
| `HostOusted.cfg` | `MCSeating` | the second of two promotions takes the role from a guest who is present (`PresentHostKeepsRole`) |
| `CancellationLost.cfg` | `MCPlatform` | a suspension that read the subscription before its cancellation overwrites it (`SubscriptionFollowsTable`) |
| `ClosedGuest.cfg` | `MCEventStream` | a guest who was reconnecting while the session closed is shown a lost connection (`ClosedGuestIsTold`) |

*Bounds.* Two tasks are the least that overlap, and every race found here is one of
two. Two orders are the least for a bill that covers some and not others, three
payments the least for one that is cancelled, one that is collected and a further
one that is outstanding. Two keys, two orders that differ and one payment request let
a key be shared by unequal requests of one kind and of both, and a payment be reached
from two keys. Two sessions of one
table are the least that contend for it; three guests the least for a host who is
replaced and replaced again by somebody else. What a bound on identities cuts off
is only more of the same: when the payments run out no further one is created.
Every order costs the same in `settlement`, so "collected more than the snapshot" is
a matter of how many bills were collected, not of unlucky sums. Interchangeable
identities are symmetric sets in safety runs and not in the liveness run.

In `stream` one order that changes twice and a close make three events, the least for
which a replay of one leaves a gap behind it; with one request at a time events are
lost but not published out of order, which `SnapshotsGoForward` covers for any number; a buffer of one is full with one
message, which is when a client is evicted. `MaxAttempts` is 10 in the client; two are
a first retry and a last. In `rewards` a limit of one is reached by the first of two
requests; `MaxPoints` bounds what is earned and redeemed by hand. In `shift` `AskedFor` names the statuses employees ask for: two steps
out of `pending` that exclude each other, and the end of a call; `MaxChanges` is one
reset, rotation or deactivation. In `platform` `Editable` names the rows that are
edited, one of each gate; `MaxRequests` is the number of operators' requests,
`MaxDelay` the longest a resolution takes: two requests overwrite one another, from
whatever earlier requests left, because the run begins with a subscription in any of
the statuses the code writes; `Assignable` names the statuses with which a plan is assigned
directly: one in force and one not, of the four the handler takes. The proofs need
none of these numbers.

*Rules with an excuse.* Four rules of the documentation are broken by overlapping
requests: `late_order`, `OrderSlipsIn.cfg` and `ReleaseRace.cfg` are three of the traces.
`MCOverlap`, the module of `settlement`, keeps in `binding` those of the four that
nothing has excused so far, an excuse being that the one pair of statements named in
`ThawApart`, `OrderApart`, `CloseApart` or `ForceApart` was pending at once, or, for a
force-close, that it stopped half way. Until then the rule must hold, whatever overlaps
and whatever stops: a second cause would be a violation. The theorems of
`OverlapProofs` say the same for any number of requests.

*Deadlock* is checked in `seating`, `rewards` and `platform`, where there is always a
step. In the others the system really ends: the session is over and its requests have
returned, or the bounded identities are used up.

*Fairness.* `FairSpec` of `Settlement` has weak fairness on `Continue(t)` for each
task: a goroutine that has started a handler is scheduled until it returns. Nobody
is obliged to begin anything: no guest has to pay, no staff to settle, no worker is
assumed to tick. `FairSpec` of `EventStream` is weaker still: a message in a
connection's channel is delivered, and a `writePump` whose channel or socket is closed
leaves, because goroutines are scheduled and a write ends by its deadline; with that
alone an evicted guest notices. `StopsAt` in `settlement_live` names the statements before
which a handler has changed nothing: one that dies after its settlement or cancellation
promises nothing.

*Host and close.* A close can still deadlock with an opening of the same table (one
holds the table and waits for the session through the index, the other the reverse),
and an ending with a change of host (they lock session and guests in opposite
orders). PostgreSQL aborts one of the two, which is `RollBack`, and both requests
can be repeated; `EndingsNeverDeadlock` says which pairs never do.

## 4. Proofs

Every theorem below is for arbitrary finite or infinite sets of identities and any
value of the bounds. The assumptions on constants are that the null values are not
identities, that prices, limits and rates are positive numbers, that a phone's
normal form is again a phone, that an entry lives for at least one tick, that orders
and payments have different request bodies (their hashes differ), and that orders are
not calls. The proofs about sets that are counted (`RewardsProofs`) use that what the
initial state starts from is finite and that a step adds one element.

| Theorem | States |
|---|---|
| `SettlementProofs!TypeCorrect` | `TypeOK` |
| `SettlementProofs!OnePaymentAtATime` | `OneNonTerminalPayment` |
| `SettlementProofs!SettledMeansPaid` | `SystemCloseWasPaid` |
| `SettlementProofs!PaymentsKeepToTheTable` | `PaymentsFollowTable` |
| `SettlementProofs!SessionKeepsToTheTable` | `SessionFollowsTable` |
| `SettlementProofs!Implementation` | `ImplementsProtocol` |
| `SettlementProofs!DoubleCollectionsAreSeen` | `DoubleCollectionReported` |
| `OverlapProofs!ThawedMeansUnbilled` | `NothingOutstandingWhileActive`, while `ThawApart` |
| `OverlapProofs!OrdersStayFrozen` | `OrdersFrozenWhilePaying`, while `OrderApart` |
| `OverlapProofs!LatestBillIsAuthoritative` | `LatestCovers`: no collected bill covers what the latest one does not |
| `OverlapProofs!SettledCloseCoversOrders` | `SystemCloseCoversOrders`, while `CloseApart` |
| `OverlapProofs!ForceCloseLeavesNothing` | `ForceCloseWithdrawsPayments`, while `ForceApart` and no force-close stops half way |
| `OverlapProofs!SerialRules`, `OverlapProofs!SerialForceClose` | the same four rules for one task |
| `IdempotencyProofs!TypeCorrect` | `TypeOK` |
| `IdempotencyProofs!RetryFindsCreated` | `CreatedIsReplayed` |
| `IdempotencyProofs!AnswersMatch` | `AnswerMatchesRequest` |
| `IdempotencyProofs!ReplayDiesWithKey` | `ReplayedWithinLifetime` |
| `IdempotencyProofs!ActsOnce` | `ImplementsOnceOnly` |
| `IdempotencyProofs!WhatStrandsAKey` | `PendingIsHeld`, while `NobodyLeavesKeyBehind` |
| `SeatingProofs!TypeCorrect` | `TypeOK` |
| `SeatingProofs!TablesAreTruthful` | `TableFollowsVisit` |
| `SeatingProofs!SomebodyIsHost` | `VisitHasOneHost` |
| `SeatingProofs!NoDeadlock` | `EndingsNeverDeadlock` |
| `SeatingProofs!Implementation` | `ImplementsOccupancy` |
| `SeatingProofs!PromotionReplacesTheAbsent` | `PresentHostKeepsRole`, while `HostsApart` |
| `RewardsProofs!TypeCorrect` | `TypeOK` |
| `RewardsProofs!AccountsBalance` | `LedgerBalances` |
| `RewardsProofs!VisitsAreCounted` | `VisitsCoverSessions` |
| `RewardsProofs!Implementation` | `ImplementsCappedOffer` |
| `EventStreamProofs!StreamTypes` | `TypeOK` |
| `EventStreamProofs!NobodyIsDeaf` | `NobodyDeaf` |
| `EventStreamProofs!NoGapIsSilent` | `NoSilentGap` |
| `EventStreamProofs!GivingUpHasAReason` | `GivesUpOnlyInTrouble` |
| `EventStreamProofs!SnapshotsGoForward` | `SnapshotNeverGoesBack` |
| `EventStreamProofs!FanoutIsSafe` | `RoomIsOpen`: an event is written to open channels only, while `RegisterFirst` |
| `EventStreamProofs!TwoWaysToPanic` | `NeverPanics`, while `RegisterFirst` and `NoPingAfterClose` |
| `ShiftProofs!TypeCorrect` | `TypeOK` |
| `ShiftProofs!RevocationStands` | `RevocationIsFinal` |
| `ShiftProofs!TicketKeepsToTable` | `TicketFollowsTable` |
| `ShiftProofs!SessionsEndInOrder` | `SessionsEndForCause` |
| `ShiftProofs!CallsKeepToTable` | `AssistanceFollowsTable`, while `CallsApart` |
| `PlatformProofs!TypeCorrect` | `TypeOK` |
| `PlatformProofs!InvoiceKeepsToTable` | `InvoiceFollowsTable`, while `InvoicesApart` |
| `PlatformProofs!SubscriptionKeepsToTable` | `SubscriptionFollowsTable`, while `SubscriptionsApart` |
| `PlatformProofs!AssignmentFollows` | `AssignmentFollowsSubscription` |
| `PlatformProofs!CachesCatchUp` | `StaleWithinTTL` |

The arguments:

- *Settlement.* What a task does depends on what it read before, so `Inv` adds what a
  task may rely on at each statement: the bill it carries is not empty (`Billed`), a
  task on the way to the auto-close has seen a collected payment
  (`CloserSawMoney`), the only outstanding status is the one every handler
  compares with (`StaffDecides`), and a session is over exactly when somebody ended
  it (`EndedBy`). The theorems about tables and the refinement then follow one step
  at a time.
- *Sums.* `DoubleCollectionReported` compares sums of prices, which
  `MapThenSumSet` defines by a recursive function. `Sums` says what that function has
  to satisfy; that one exists (`SumExists`), that it is the same whatever set it was
  begun from (`SumAgrees`), and that it is at least each of its terms (`SumBounds`) is
  shown by taking a smallest subset for which it fails. That only finitely many orders
  and payments are ever used is an invariant (`FinitelyMany`), not an assumption. Two
  collected bills are two positive sums (`Billed`), so together they exceed the latest.
- *Overlaps.* Four rules of the documentation are false of overlapping requests. For
  each, one pair of statements is to blame: a release pending beside an initiation
  about to create a payment (`ThawApart`); an admitted order not inserted yet beside an
  initiation about to freeze (`OrderApart`); such an order beside a close that has
  compared its bill (`CloseApart`); a payment about to be inserted beside a
  force-close that has not listed the payments yet (`ForceApart`). With the pair kept
  apart, what a task read is still true when it acts on it (`ThawInv`, `OrderInv`,
  `CloseInv`, `ForceInv`), whatever else overlaps and, but for a force-close, whatever
  stops. Each pair is needed: the violation traces go through it.
  `CloseInv` rests on a fact that holds without any hypothesis, and that the code relies
  on when it compares only the latest collected bill: an order still to be paid for that
  is on any collected bill is on the latest one (`LatestCovers`), because a payment that
  was checked against a fresh bill is the next to be collected or never is
  (`SettlerSaw`, by `OneNonTerminalPayment`).
- *Hub and EventStream.* `HubInv` adds to the properties what the hub relies on: a
  connection waits once to enter the room and was sent nothing but pongs until then
  (`RegisteredOnce`, `RegisteredIsQuiet`), what it is asked to forget has closed its
  socket (`UnregisteredIsClosed`), and an open socket has the pump that closes it
  (`OpenIsWritten`). `RequestInv` says what a request in flight and the log know of
  each other, `GuestOK` what the guest's screen, its reconciliation and the log do.
  `EventsOf` states what selecting the events of a channel gives by an order-preserving
  correspondence of places instead of the library's recursive `SelectSeq`;
  `MCEventStream` has TLC compare the two on all short channels. `hub_panic` shows that
  `NeverPanics` is false. What an event is written to is open (`ChannelsOpen`) unless a
  connection is forgotten while it still waits to enter the room (`RegisterFirst`: Go's
  `select` may take either channel first); besides that, only a PING answered after the
  eviction (`NoPingAfterClose`) reaches a closed channel. TLC finds the panic when either
  is dropped, the proof that there is no third way.
- *IdempotencyKeys.* `CreatedIsReplayed` needs that only one request works under a key
  (`SoleOwner`), that its key is still pending (`OwnerHolds`), and that what it is
  about to answer with is of the right kind (`AtWork`, `OpenIsPayment`,
  `RowSound`). Every step is a reservation, a failure, one that leaves the rows
  alone, or one that fills the key; the lemmas are about these four.
  `WhatStrandsAKey` lists what leaves a key pending that nobody works on: an order
  refused before its transaction, a stop, an answer whose key could not be completed;
  and nothing else, because the holder of a pending key goes on working (`HolderStays`).
- *Seating.* An ending frees the table of the session it found live. That is right
  only if the session is live still (`FoundStays`), because nobody else can have had
  the row (`Exclusive`), and if it is still at that table (`ReadsHold`). A host can
  act because guests are revoked only with their visit (`RevokedWithVisit`). For the
  deadlocks, `EndingsQueue` shows that an ending waits only for one with more
  locks than it has, so two never wait for each other. `PresentHostKeepsRole` is false
  of two promotions that pick different guests; with no third guest being given the role
  beside a promotion (`HostsApart`), the host it has read is the host it replaces
  (`ReplacesWhomItRead`), since only a reassignment changes the host of a session.
- *Rewards.* What a transaction found under the lock of the promo's row is still so
  when it commits (`Good`), because nobody else can hold the row (`Exclusive`) and the
  owner's update waits for it; the row's counter is the number of redemptions
  (`Counted`). A request that counts no visit has seen an earn of its session, and
  earns stay (`Good`, `Visits`).
- *Shift.* A token whose authority is over shows it (`OverShows`): either the staff row
  is at a newer version than its session carries, or, in strict mode, its row has
  ended; neither is undone, since versions only grow (`NeverAhead`) and a row that
  ended stays so. A request that slipped past the first check with such a token
  fails the second (`Requesting`). An order keeps to its table because what a request
  is about to write agrees with what it read (`JobsAgree`) and is written over nothing
  else. A call is written without comparing, so it leaves its table (`request_reopened`)
  when an acknowledgement and a resolution overlap, and only then (`CallsApart`).
- *Platform.* The tables of invoices and subscriptions are false of operators who
  overlap (`invoice_reopened`, `CancellationLost.cfg`). While no two have read the same row
  and not written it yet (`InvoicesApart`, `SubscriptionsApart`), what one is about to
  write follows from the row as it is (`InvoicesTimely`, `SubscriptionsTimely`). For `StaleWithinTTL` the
  ages do the work: a resolution younger than the last edit has seen nothing older
  (`FreshLookups`), and it fills an entry that lives `TTL` from then
  (`FreshEntries`); so `TTL + MaxDelay` after the last edit every entry tells the truth.

Only model-checked: the three liveness properties `SettlementEndsVisit`, `FreezeEnds`
and `EvictedGuestNotices`, because liveness under fairness and `ENABLED` are out of
the prover's reach here. The library's induction theorems cannot be used either (they
take an operator as a parameter); where a sum over a set needs induction, a smallest
set for which the claim fails takes its place. No module declares a RECURSIVE
operator.

## 5. Plan

Done: `Settlement`, `IdempotencyKeys`, `Seating`, `EventStream`, `Rewards`, `Shift`,
`Platform`, and the proofs of every safety property their passing runs check. To
come, most useful first:

1. The rule `ClosedGuestIsTold`: under which conditions on the order of a closing's
   publication and the guest's connection it would hold.
2. Two processes that share one Redis channel in `Hub`, if the hub ever keeps state
   that another process needs.

The other rules that violation traces break have a theorem that names what breaks them
(the rows with "while" in section 4). `InProgressMeansHeld` is more than `PendingIsHeld`:
it also fails of every key that was marked failed, which is answered as in progress
until it expires.

## 6. Not modelled

- *Shared cart.* Each of its operations is one statement, an order is placed from the
  lines the client sends and not from the cart, and no document says what the cart
  holds after an order: a property could only restate a statement. That `ClearCart`
  also deletes a line added meanwhile is recorded as a hazard.
- *Lockout, rate limits, platform logins.* Counters in Redis with a lifetime, each
  changed by one command; nothing else reads them.
- *Provider webhook.* It looks a payment up by a provider that no handler ever sets.
- *Menu, QR, themes, collateral; analytics, support, audit.* Row-by-row administration,
  read-only reports and an append-only log: no behaviour that interleaving or failure
  changes.
- *Server, configuration, storage, observability.* Wiring and I/O; alerting and metrics
  are observation only.
- *The workers' Redis lock.* Nothing here rests on it: ticks overlap freely in every
  module.
- *User interface* beyond the guest's connection and what it shows.
