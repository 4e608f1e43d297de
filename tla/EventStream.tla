------------------------------ MODULE EventStream ------------------------------
(***************************************************************************)
(* From a change of a session to a guest's screen: the change is           *)
(* committed, then an event about it is numbered and stored, then it is    *)
(* published, and the hub writes it to the guest's connection.  A guest    *)
(* without a connection fetches a snapshot and the events it missed, and   *)
(* then opens the next one.                                                *)
(*                                                                         *)
(* The session is one order, whose status is a counter, and its own        *)
(* status; "active" stands for payment_pending as well, which is served    *)
(* like it.  SESSION_REACTIVATED is left out: no part of the view comes    *)
(* from it.                                                                *)
(***************************************************************************)
EXTENDS Hub, FiniteSets

CONSTANTS Tasks,       \* requests that change the session
          NoSocket,
          MaxVersion,  \* bound: changes of the order
          MaxAttempts, \* MAX_ATTEMPTS
          ReplayLimit, \* LIMIT of the replay query
          Faults       \* lost publications, failing requests, requests that stop

ASSUME StreamAssumption ==
  /\ MaxVersion \in Nat /\ MaxAttempts \in Nat \ {0} /\ ReplayLimit \in Nat \ {0}
  /\ NoSocket \notin Sockets /\ Faults \in BOOLEAN

VARIABLES
  version, \* the order's committed status
  status,  \* sessions.status
  log,     \* session_events in sequence order
  task,    \* what each request is about to do, and with what
  guest    \* the guest's WSConnection and what it shows

streamVars == <<version, status, log, task, guest>>
vars == <<hubVars, streamVars>>

Closed == MaxVersion + 1
Event == 1..Closed  \* an order's status, or the closing of the session

TaskState == [pc : {"idle", "append", "publish"}, event : Event, seq : Nat]
NoTask == [pc |-> "idle", event |-> Closed, seq |-> 0]

Unread == -1
GuestState ==
  [pc : {"connecting", "connected", "backoff", "fetching", "failed"},
   sock : Sockets \cup {NoSocket}, attempts : Nat, last : Nat,
   view : Nat, ended : BOOLEAN, orders : Nat \cup {Unread},
   missed : Nat \cup {Unread}, trouble : BOOLEAN]

Init ==
  /\ HubInit
  /\ version = 0 /\ status = "active" /\ log = << >>
  /\ task = [t \in Tasks |-> NoTask]
  /\ guest = [pc |-> "connecting", sock |-> NoSocket, attempts |-> 0, last |-> 0,
              view |-> 0, ended |-> FALSE, orders |-> Unread, missed |-> Unread,
              trouble |-> FALSE]

-----------------------------------------------------------------------------
(* Requests: commit, append, publish. *)

\* UpdateOrderStatus asks nothing of the session.
ChangeOrder(t) ==
  /\ Alive /\ task[t].pc = "idle" /\ version < MaxVersion
  /\ version' = version + 1
  /\ task' = [task EXCEPT ![t] = [pc |-> "append", event |-> version + 1, seq |-> 0]]
  /\ UNCHANGED <<hubVars, status, log, guest>>

CloseSession(t) ==
  /\ Alive /\ task[t].pc = "idle" /\ status = "active"
  /\ status' = "closed"
  /\ task' = [task EXCEPT ![t] = [pc |-> "append", event |-> Closed, seq |-> 0]]
  /\ UNCHANGED <<hubVars, version, log, guest>>

\* The advisory lock makes reading MAX(sequence) and inserting one step.
AppendSessionEvent(t) ==
  /\ Alive /\ task[t].pc = "append"
  /\ log' = Append(log, task[t].event)
  /\ task' = [task EXCEPT ![t].pc = "publish", ![t].seq = Len(log) + 1]
  /\ UNCHANGED <<hubVars, version, status, guest>>

PublishEvent(t) ==
  /\ Alive /\ task[t].pc = "publish"
  /\ Publish(task[t].seq)
  /\ task' = [task EXCEPT ![t] = NoTask]
  /\ UNCHANGED <<version, status, log, guest>>

\* An append or a publication that fails is logged and forgotten.
LoseEvent(t) ==
  /\ Faults /\ task[t].pc # "idle"
  /\ task' = [task EXCEPT ![t] = NoTask]
  /\ UNCHANGED <<hubVars, version, status, log, guest>>

\* The reactivation pipeline, when no heartbeat has come for the grace: minutes,
\* which do not end in the moment between a snapshot and the ticket after it.
PauseSession ==
  /\ Alive /\ status = "active" /\ guest.pc \in {"backoff", "failed"}
  /\ status' = "awaiting"
  /\ UNCHANGED <<hubVars, version, log, task, guest>>

-----------------------------------------------------------------------------
(* The guest's client. *)

\* handleEnvelope for event number m of the log.
Handled(g, m) ==
  [g EXCEPT !.last = IF m > @ THEN m ELSE @,
            !.view = IF log[m] = Closed THEN @ ELSE log[m],
            !.ended = @ \/ log[m] = Closed]

\* Slip: the closed socket is kept.
Backoff_KeepsSocket(g) ==
  IF g.attempts >= MaxAttempts THEN [g EXCEPT !.pc = "failed"]
  ELSE [g EXCEPT !.pc = "backoff", !.attempts = @ + 1, !.orders = Unread, !.missed = Unread]

\* scheduleReconnect.  trouble is history: a request has failed since the last
\* connection for a reason that is not the session's status.
Backoff(g) ==
  IF g.attempts >= MaxAttempts
  THEN [g EXCEPT !.pc = "failed", !.sock = NoSocket, !.orders = Unread, !.missed = Unread]
  ELSE [g EXCEPT !.pc = "backoff", !.sock = NoSocket, !.attempts = @ + 1,
                 !.orders = Unread, !.missed = Unread]

InTrouble(g) == [g EXCEPT !.trouble = TRUE]

Serves == status = "active"

\* Slip: the socket is opened first and the snapshot fetched while it delivers.
openSocket_ThenSnapshot(c) ==
  /\ guest.pc = "connecting" /\ Serves /\ Upgrade(c)
  /\ guest' = [guest EXCEPT !.pc = "fetching", !.sock = c, !.attempts = 0]
  /\ UNCHANGED <<version, status, log, task>>

\* openSocket: a ticket and an upgrade, which the status of the session refuses.
openSocket(c) ==
  /\ guest.pc = "connecting" /\ Serves /\ Upgrade(c)
  /\ guest' = [guest EXCEPT !.pc = "connected", !.sock = c, !.attempts = 0,
                              !.trouble = FALSE]
  /\ UNCHANGED <<version, status, log, task>>

openSocketRefused ==
  /\ guest.pc = "connecting"
  /\ Alive /\ ~Serves
  /\ guest' = Backoff(guest)
  /\ UNCHANGED <<hubVars, version, status, log, task>>

\* A close between two reads of one request: of the session and then the
\* credential for a ticket, of the credential and then the session for a snapshot.
endSession ==
  /\ Alive /\ status = "closed" /\ guest.orders = Unread /\ guest.missed = Unread
  /\ guest.pc \in {"connecting", "fetching"}
  /\ guest' = [guest EXCEPT !.pc = "failed", !.ended = TRUE]
  /\ UNCHANGED <<hubVars, version, status, log, task>>

RequestFails ==
  /\ guest.pc \in {"connecting", "backoff", "fetching"} /\ (Faults \/ ~Alive)
  /\ guest' = Backoff(InTrouble(guest))
  /\ UNCHANGED <<hubVars, version, status, log, task>>

onclose ==
  /\ guest.pc = "connected" /\ conn[guest.sock] = "closed"
  /\ guest' = Backoff(guest)
  /\ UNCHANGED <<hubVars, version, status, log, task>>

\* Slip: the snapshot endpoint serves an idle session as it finds it.
reconnect_NoReactivation ==
  /\ guest.pc = "backoff" /\ Alive
  /\ guest' = IF status # "active" THEN Backoff(guest)
              ELSE [guest EXCEPT !.pc = "fetching"]
  /\ UNCHANGED <<hubVars, version, status, log, task>>

\* reconnect asks for the snapshot, which revives an idle session; ending a
\* session rotates the guest's credential, and the 401 ends in the catch.
reconnect ==
  /\ guest.pc = "backoff" /\ Alive
  /\ IF status = "closed"
     THEN guest' = Backoff(guest) /\ UNCHANGED status
     ELSE guest' = [guest EXCEPT !.pc = "fetching"] /\ status' = "active"
  /\ UNCHANGED <<hubVars, version, log, task>>

\* GetSnapshot reads the orders and the missed events side by side.
ReadOrders ==
  /\ Alive /\ guest.pc = "fetching" /\ guest.orders = Unread
  /\ guest' = [guest EXCEPT !.orders = version]
  /\ UNCHANGED <<hubVars, version, status, log, task>>

\* missed is how many events after last the replay returns.
ListSessionEventsAfter ==
  /\ Alive /\ guest.pc = "fetching" /\ guest.missed = Unread
  /\ guest' = [guest EXCEPT !.missed =
       IF guest.last = 0 THEN 0
       ELSE LET later == Len(log) - guest.last
            IN IF later > ReplayLimit THEN ReplayLimit ELSE later]
  /\ UNCHANGED <<hubVars, version, status, log, task>>

Fetched == guest.pc = "fetching" /\ guest.orders # Unread /\ guest.missed # Unread

Replayed == guest.last + 1 .. guest.last + guest.missed

Reconciled(view) ==
  [guest EXCEPT !.pc = "connecting", !.last = guest.last + guest.missed, !.view = view,
                !.ended = @ \/ \E m \in Replayed : log[m] = Closed,
                !.orders = Unread, !.missed = Unread]

\* The missed events are handled, and then the snapshot replaces the view.  The
\* log has no holes, so a snapshot is authoritative only when last is 0.
reconcileSnapshot ==
  /\ Fetched
  /\ guest' = Reconciled(guest.orders)
  /\ UNCHANGED <<hubVars, version, status, log, task>>

\* The guest presses Retry.
retry ==
  /\ guest.pc = "failed" /\ status # "closed"
  /\ guest' = [guest EXCEPT !.pc = "connecting", !.attempts = 0]
  /\ UNCHANGED <<hubVars, version, status, log, task>>

\* writePump's message arrives.
Deliver(c) ==
  /\ Write(c)
  /\ guest' = IF guest.sock = c /\ Head(send[c]) # Pong
              THEN Handled(guest, Head(send[c])) ELSE guest
  /\ UNCHANGED <<version, status, log, task>>

-----------------------------------------------------------------------------
(* Everything. *)

\* A step of the hub's own; a panic takes the running requests with it.
HubOnly(A) ==
  /\ A
  /\ task' = IF proc' \in {"up", "draining"} THEN task ELSE [t \in Tasks |-> NoTask]
  /\ UNCHANGED <<version, status, log, guest>>

Faulty(A) == Faults /\ HubOnly(A)

Request(t) == ChangeOrder(t) \/ CloseSession(t) \/ AppendSessionEvent(t) \/ PublishEvent(t)

GuestStep ==
  \/ \E c \in Sockets : openSocket(c)
  \/ openSocketRefused \/ endSession \/ onclose \/ reconnect \/ ReadOrders
  \/ ListSessionEventsAfter \/ reconcileSnapshot

Next ==
  \/ \E t \in Tasks : Request(t) \/ LoseEvent(t)
  \/ PauseSession \/ GuestStep \/ RequestFails \/ retry
  \/ HubOnly(HubStep) \/ HubOnly(Restart)
  \/ Faulty(drainAll) \/ Faulty(Exit) \/ Faulty(LoseSubscription) \/ HubOnly(Resubscribe)
  \/ \E c \in Sockets : \/ Deliver(c)
                        \/ HubOnly(Drop(c)) \/ HubOnly(ReadPing(c))
                        \/ HubOnly(LeaveReadPump(c)) \/ HubOnly(LeaveWritePump(c))

Spec == Init /\ [][Next]_vars

\* Goroutines are scheduled, and a write ends by its deadline.
FairSpec ==
  /\ Spec
  /\ \A c \in Sockets : WF_vars(Deliver(c)) /\ WF_vars(HubOnly(LeaveWritePump(c)))

-----------------------------------------------------------------------------
TypeOK ==
  /\ TypeOKHub
  /\ version \in 0..MaxVersion
  /\ status \in {"active", "awaiting", "closed"}
  /\ log \in Seq(Event)
  /\ task \in [Tasks -> TaskState]
  /\ guest \in GuestState
  /\ guest.last <= Len(log) /\ guest.view <= version
  /\ guest.pc = "connected" <=> guest.sock # NoSocket

(* What a guest is shown never goes back when a snapshot replaces it: the     *)
(* orders are read after the connection that showed more was gone.            *)
SnapshotNeverGoesBack ==
  [][guest.pc = "fetching" /\ guest'.pc = "connecting" => guest'.view >= guest.view]_vars

(* A client gives up on a session that has not ended only after requests that *)
(* failed for technical reasons; that the session idled is not one of them.   *)
GivesUpOnlyInTrouble == guest.pc = "failed" => status = "closed" \/ guest.trouble

(* A guest whose session was closed is shown so, and not a lost connection.   *)
ClosedGuestIsTold == guest.pc = "failed" /\ status = "closed" => guest.ended \/ guest.trouble

=============================================================================
