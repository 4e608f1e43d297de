---------------------------------- MODULE Hub ----------------------------------
(***************************************************************************)
(* The WebSocket hub of one process and one session's room: the hub        *)
(* goroutine with its three channels, and the two pumps of every           *)
(* connection.  A message is a number; Pong is none of the session's       *)
(* events.  The Redis channel, the subscriber's own buffer and the hub's   *)
(* broadcast channel are one queue that drops what does not fit.           *)
(*                                                                         *)
(* Sending on a closed Go channel panics, also inside a select that has a  *)
(* default, and neither the pumps nor the hub recover: the process is gone *)
(* and the container's restart policy starts another.                      *)
(***************************************************************************)
EXTENDS Integers, Sequences

CONSTANTS Sockets, SendBuffer, QueueBuffer

ASSUME BuffersHoldSomething == SendBuffer \in Nat \ {0} /\ QueueBuffer \in Nat \ {0}

VARIABLES
  proc,       \* "up", "draining" after the shutdown signal, "down", or
              \* "panicked": down because of a send on a closed channel
  subscribed, \* the subscriber goroutine holds a Redis subscription
  room,       \* the room's connections
  register, unregister, broadcast, \* the hub's channels
  conn,       \* a connection's socket: "free" before it is used
  reader,     \* readPump is running
  writer,     \* writePump is running
  send,       \* the connection's send channel
  sendClosed, \* ... has been closed
  owed        \* history: events broadcast to the room since this connection
              \* entered it and not yet written to it

queues == <<register, unregister, broadcast>>
pumps == <<conn, reader, writer>>
hubVars == <<proc, subscribed, room, queues, pumps, send, sendClosed, owed>>

Pong == 0

HubInit ==
  /\ proc = "up" /\ subscribed = TRUE /\ room = {}
  /\ register = << >> /\ unregister = << >> /\ broadcast = << >>
  /\ conn = [c \in Sockets |-> "free"]
  /\ reader = [c \in Sockets |-> FALSE]
  /\ writer = [c \in Sockets |-> FALSE]
  /\ send = [c \in Sockets |-> << >>]
  /\ sendClosed = [c \in Sockets |-> FALSE]
  /\ owed = [c \in Sockets |-> << >>]

-----------------------------------------------------------------------------
(* The process. *)

\* What a process that ends takes with it; the peers see their sockets close.
End(how) ==
  /\ proc' = how /\ subscribed' = FALSE /\ room' = {}
  /\ register' = << >> /\ unregister' = << >> /\ broadcast' = << >>
  /\ conn' = [c \in Sockets |-> IF conn[c] = "open" THEN "closed" ELSE conn[c]]
  /\ reader' = [c \in Sockets |-> FALSE]
  /\ writer' = [c \in Sockets |-> FALSE]
  /\ send' = [c \in Sockets |-> << >>]
  /\ sendClosed' = [c \in Sockets |-> FALSE]
  /\ owed' = [c \in Sockets |-> << >>]

Alive == proc \in {"up", "draining"}

Restart ==
  /\ ~Alive
  /\ proc' = "up" /\ subscribed' = TRUE
  /\ UNCHANGED <<room, queues, pumps, send, sendClosed, owed>>

\* The shutdown signal: Run closes every send channel, empties the rooms and
\* returns, and the subscriber stops.
drainAll ==
  /\ proc = "up"
  /\ proc' = "draining" /\ subscribed' = FALSE /\ room' = {}
  /\ sendClosed' = [c \in Sockets |-> sendClosed[c] \/ c \in room]
  /\ UNCHANGED <<queues, pumps, send, owed>>

Exit == proc = "draining" /\ End("down")

-----------------------------------------------------------------------------
(* The subscriber. *)

\* A connection to Redis that breaks; the backoff ends with a new one.
LoseSubscription ==
  /\ subscribed /\ proc = "up" /\ subscribed' = FALSE
  /\ UNCHANGED <<proc, room, queues, pumps, send, sendClosed, owed>>

Resubscribe ==
  /\ ~subscribed /\ proc = "up" /\ subscribed' = TRUE
  /\ UNCHANGED <<proc, room, queues, pumps, send, sendClosed, owed>>

\* PUBLISH: whoever is not subscribed, or has no room for it, does not get it.
Publish(m) ==
  /\ broadcast' = IF subscribed /\ Len(broadcast) < QueueBuffer
                  THEN Append(broadcast, m) ELSE broadcast
  /\ UNCHANGED <<proc, subscribed, room, register, unregister, pumps, send,
                 sendClosed, owed>>

-----------------------------------------------------------------------------
(* The hub goroutine: one of its channels, whichever is ready. *)

addToRoom ==
  /\ proc = "up" /\ register # << >>
  /\ register' = Tail(register)
  /\ room' = room \cup {Head(register)}
  /\ owed' = [owed EXCEPT ![Head(register)] = << >>]
  /\ UNCHANGED <<proc, subscribed, unregister, broadcast, pumps, send, sendClosed>>

removeFromRoom ==
  /\ proc = "up" /\ unregister # << >>
  /\ unregister' = Tail(unregister)
  /\ room' = room \ {Head(unregister)}
  /\ sendClosed' = [sendClosed EXCEPT ![Head(unregister)] = TRUE]
  /\ UNCHANGED <<proc, subscribed, register, broadcast, pumps, send, owed>>

Full(c) == Len(send[c]) >= SendBuffer

\* What Run does with one message, given the connections it evicts.
Fanout(evicted, closed) ==
  LET m == Head(broadcast) IN
  /\ proc = "up" /\ broadcast # << >>
  /\ IF \E c \in room : sendClosed[c]
     THEN End("panicked")
     ELSE /\ broadcast' = Tail(broadcast)
          /\ room' = room \ evicted
          /\ send' = [c \in Sockets |->
                        IF c \in room /\ ~Full(c) THEN Append(send[c], m) ELSE send[c]]
          /\ sendClosed' = [c \in Sockets |-> sendClosed[c] \/ c \in closed]
          /\ owed' = [c \in Sockets |->
                        IF c \in room THEN Append(owed[c], m) ELSE owed[c]]
          /\ UNCHANGED <<proc, subscribed, register, unregister, pumps>>

Slow == {c \in room : Full(c)}

\* Slip: a message that does not fit is skipped and the connection kept.
broadcastToRoom_Skips == Fanout({}, {})
\* Slip: the evicted connection's channel is never closed.
broadcastToRoom_Deafens == Fanout(Slow, {})
broadcastToRoom == Fanout(Slow, Slow)

HubStep == addToRoom \/ removeFromRoom \/ broadcastToRoom

-----------------------------------------------------------------------------
(* Connections. *)

\* An identity nothing refers to any more serves for the next connection.
Unused(c) ==
  /\ conn[c] # "open" /\ ~reader[c] /\ ~writer[c] /\ c \notin room
  /\ \A i \in 1..Len(register) : register[i] # c
  /\ \A i \in 1..Len(unregister) : unregister[i] # c

Upgrade(c) ==
  /\ proc = "up" /\ Unused(c) /\ Len(register) < QueueBuffer
  /\ register' = Append(register, c)
  /\ conn' = [conn EXCEPT ![c] = "open"]
  /\ reader' = [reader EXCEPT ![c] = TRUE]
  /\ writer' = [writer EXCEPT ![c] = TRUE]
  /\ send' = [send EXCEPT ![c] = << >>]
  /\ sendClosed' = [sendClosed EXCEPT ![c] = FALSE]
  /\ owed' = [owed EXCEPT ![c] = << >>]
  /\ UNCHANGED <<proc, subscribed, room, unregister, broadcast>>

\* The peer goes away or the network between them fails.
Drop(c) ==
  /\ conn[c] = "open"
  /\ conn' = [conn EXCEPT ![c] = "closed"]
  /\ UNCHANGED <<proc, subscribed, room, queues, reader, writer, send, sendClosed, owed>>

\* readPump answers a PING with a PONG if the send channel has room.
ReadPing(c) ==
  /\ Alive /\ reader[c] /\ conn[c] = "open"
  /\ IF sendClosed[c] THEN End("panicked")
     ELSE /\ ~Full(c)
          /\ send' = [send EXCEPT ![c] = Append(@, Pong)]
          /\ UNCHANGED <<proc, subscribed, room, queues, pumps, sendClosed, owed>>

\* readPump returns, for a read error, a missed deadline or too many strikes: it
\* asks the hub to forget the connection, waiting for a place in the channel.
LeaveReadPump(c) ==
  /\ Alive /\ reader[c] /\ Len(unregister) < QueueBuffer
  /\ unregister' = Append(unregister, c)
  /\ reader' = [reader EXCEPT ![c] = FALSE]
  /\ conn' = [conn EXCEPT ![c] = "closed"]
  /\ UNCHANGED <<proc, subscribed, room, register, broadcast, writer, send,
                 sendClosed, owed>>

\* writePump writes the next message to an open socket.
Write(c) ==
  /\ Alive /\ writer[c] /\ conn[c] = "open" /\ send[c] # << >>
  /\ send' = [send EXCEPT ![c] = Tail(@)]
  /\ owed' = [owed EXCEPT ![c] =
                IF Head(send[c]) # Pong /\ @ # << >> THEN Tail(@) ELSE @]
  /\ UNCHANGED <<proc, subscribed, room, queues, pumps, sendClosed>>

\* Slip: a receive from the closed channel is taken for an empty message.
LeaveWritePump_IgnoresClose(c) ==
  /\ Alive /\ writer[c] /\ conn[c] = "closed"
  /\ writer' = [writer EXCEPT ![c] = FALSE]
  /\ UNCHANGED <<proc, subscribed, room, queues, conn, reader, send, sendClosed, owed>>

\* writePump returns: the channel is closed and empty, or a write fails.
LeaveWritePump(c) ==
  /\ Alive /\ writer[c]
  /\ (sendClosed[c] /\ send[c] = << >>) \/ conn[c] = "closed"
  /\ writer' = [writer EXCEPT ![c] = FALSE]
  /\ conn' = [conn EXCEPT ![c] = "closed"]
  /\ UNCHANGED <<proc, subscribed, room, queues, reader, send, sendClosed, owed>>

-----------------------------------------------------------------------------
TypeOKHub ==
  /\ proc \in {"up", "draining", "down", "panicked"} /\ subscribed \in BOOLEAN
  /\ room \subseteq Sockets
  /\ register \in Seq(Sockets) /\ unregister \in Seq(Sockets) /\ broadcast \in Seq(Nat)
  /\ conn \in [Sockets -> {"free", "open", "closed"}]
  /\ reader \in [Sockets -> BOOLEAN] /\ writer \in [Sockets -> BOOLEAN]
  /\ send \in [Sockets -> Seq(Nat)]
  /\ sendClosed \in [Sockets -> BOOLEAN]
  /\ owed \in [Sockets -> Seq(Nat)]

\* o is what is left of q without its pongs: at says where in q each of o is.
EventsOf(o, q) ==
  \E at \in [1..Len(o) -> 1..Len(q)] :
    /\ \A i \in 1..Len(o) : o[i] # Pong /\ q[at[i]] = o[i]
    /\ \A i, j \in 1..Len(o) : i < j => at[i] < at[j]
    /\ \A k \in 1..Len(q) : q[k] # Pong => \E i \in 1..Len(o) : at[i] = k

(* A connection in the room has, in its channel, exactly the events broadcast *)
(* since it entered and not yet written: one that cannot keep up is evicted   *)
(* and never silently skipped, so its guest knows to fetch a snapshot.        *)
NoSilentGap ==
  \A c \in room : sendClosed[c] \/ EventsOf(owed[c], send[c])

(* An open connection that is neither in the room nor on its way into it is   *)
(* on its way to being closed: nobody waits on a socket nothing writes to.    *)
NobodyDeaf ==
  \A c \in Sockets : conn[c] = "open" =>
    \/ c \in room \/ (sendClosed[c] /\ writer[c])
    \/ \E i \in 1..Len(register) : register[i] = c

(* A connection that was evicted or unregistered gets closed, so that its     *)
(* guest's client sees it and reconnects.                                     *)
EvictedGuestNotices == \A c \in Sockets : sendClosed[c] ~> conn[c] # "open"

(* No goroutine sends on a channel that has been closed.                      *)
NeverPanics == proc # "panicked"

=============================================================================
