------------------------------- MODULE Seating -------------------------------
(***************************************************************************)
(* Tables, visits and the people at them: opening a session at a table,    *)
(* joining it, handing over the host role, and the ways it ends.           *)
(*                                                                         *)
(* The variables are the committed rows.  A transaction takes the locks of *)
(* the rows it writes in the order of its statements, waits for a row that *)
(* another one holds, and its writes show when it commits; while it holds  *)
(* a lock nobody else writes that row, so what it found there stays true.  *)
(* A transaction may be rolled back at any moment: a crash, a cancelled    *)
(* request, or the server choosing it as the victim of a deadlock.         *)
(*                                                                         *)
(* "open" stands for active and awaiting_reactivation, which no statement  *)
(* here tells apart except JoinSession, that turns one into the other.     *)
(***************************************************************************)
EXTENDS Integers, Sequences

CONSTANTS Tables, Sessions, Guests, Tasks, Nobody

ASSUME NobodyIsNoRow == Nobody \notin Tables \cup Sessions \cup Guests

VARIABLES
  status,  \* sessions.status
  at,      \* sessions.table_id
  hostOf,  \* sessions.host_participant_id
  table,   \* tables.status
  member,  \* session_participants.session_id
  isHost,  \* session_participants.is_host
  revoked, \* session_participants.revoked_at is set
  seen,    \* the age of a guest's newest heartbeat: within 90 seconds, within
           \* the grace, or beyond it
  tx       \* what each running request is doing

rows == <<status, at, hostOf, table, member, isHost, revoked>>
vars == <<rows, seen, tx>>

Live == {"open", "paying"}
Ended == {"closed", "abandoned"}

Ops == {"create", "join", "close", "abandon", "transfer", "promote"}
Reassigning == {"transfer", "promote"}

\* from is the host the request has read and means to replace.
Request == [op : Ops \cup {"idle"}, s : Sessions \cup {Nobody},
            t : Tables \cup {Nobody}, g : Guests \cup {Nobody},
            from : Guests \cup {Nobody}, locks : 0..3]
Idle == [op |-> "idle", s |-> Nobody, t |-> Nobody, g |-> Nobody,
         from |-> Nobody, locks |-> 0]

Init ==
  /\ status = [s \in Sessions |-> "none"]
  /\ at = [s \in Sessions |-> Nobody]
  /\ hostOf = [s \in Sessions |-> Nobody]
  /\ table = [t \in Tables |-> "available"]
  /\ member = [g \in Guests |-> Nobody]
  /\ isHost = [g \in Guests |-> FALSE]
  /\ revoked = [g \in Guests |-> FALSE]
  /\ seen = [g \in Guests |-> "quiet"]
  /\ tx = [k \in Tasks |-> Idle]

-----------------------------------------------------------------------------
(* Rows and locks. *)

CreateLocks == <<"table">>
CloseLocks == <<"session", "table", "guests">>
\* Slip: the cleaner locks the table before the session.
AbandonLocks_TableFirst == <<"table", "session", "guests">>
AbandonLocks == <<"session", "table", "guests">>
ReassignLocks == <<"guests", "session">>

LockOrder(op) ==
  CASE op = "create" -> CreateLocks
    [] op = "close" -> CloseLocks
    [] op = "abandon" -> AbandonLocks
    [] op \in Reassigning -> ReassignLocks
    [] op \in {"join", "idle"} -> << >>

Holds(k, row) == \E i \in 1..tx[k].locks : LockOrder(tx[k].op)[i] = row

\* The guests of a session are one row: every request that writes one of them
\* writes its host's.
SameRow(j, k, row) ==
  IF row = "table" THEN tx[j].t = tx[k].t ELSE tx[j].s = tx[k].s

HeldAgainst(j, k, row) == j # k /\ Holds(j, row) /\ SameRow(j, k, row)

Wants(k, row) ==
  /\ tx[k].locks < Len(LockOrder(tx[k].op))
  /\ LockOrder(tx[k].op)[tx[k].locks + 1] = row

LiveAt(t) == {s \in Sessions : status[s] \in Live /\ at[s] = t}

\* An uncommitted write to the session's row.  The stale cleaner locks the row
\* first and writes it when it has the table as well.
BeingWritten(j, s) ==
  /\ tx[j].s = s
  /\ Holds(j, "session")
  /\ tx[j].op = "abandon" => Holds(j, "table")

\* An insert whose key a committed row has waits for whoever is writing that
\* row, and fails when nobody is.
IndexWaitsFor(k, j) ==
  /\ j # k
  /\ tx[k].op = "create"
  /\ Holds(k, "table")
  /\ \E s \in LiveAt(tx[k].t) : BeingWritten(j, s)

WaitsFor(k, j) ==
  \/ \E row \in {"session", "table", "guests"} : Wants(k, row) /\ HeldAgainst(j, k, row)
  \/ IndexWaitsFor(k, j)

Deadlocked(j, k) == WaitsFor(j, k) /\ WaitsFor(k, j)

\* What a request finds in the session's row once it has the lock.  Without the
\* status it came for it stops there and writes nothing.
\* Slip: the close does not look at the status.
CloseSessionIfActive_Unconditional(s) == status[s] # "none"
CloseSessionIfActive(s) == status[s] \in Live
AbandonStaleSession(s) == status[s] = "open"

FindsNothingToDo(k, row) ==
  /\ row = "session"
  /\ \/ tx[k].op = "close" /\ ~CloseSessionIfActive(tx[k].s)
     \/ tx[k].op = "abandon" /\ ~AbandonStaleSession(tx[k].s)

OneLockMore(k) == [tx[k] EXCEPT !.locks = @ + 1]

End(k) == tx' = [tx EXCEPT ![k] = Idle]

Lock(k, row) ==
  /\ Wants(k, row)
  /\ \A j \in Tasks : ~HeldAgainst(j, k, row)
  /\ IF FindsNothingToDo(k, row) THEN End(k)
     ELSE tx' = [tx EXCEPT ![k] = OneLockMore(k)]
  /\ UNCHANGED <<rows, seen>>

HasAllLocks(k) == tx[k].locks = Len(LockOrder(tx[k].op))

Begin(k, op, s, t, g, from) ==
  /\ tx[k] = Idle
  /\ tx' = [tx EXCEPT ![k] = [op |-> op, s |-> s, t |-> t, g |-> g,
                              from |-> from, locks |-> 0]]
  /\ UNCHANGED <<rows, seen>>

RollBack(k) ==
  /\ tx[k] # Idle
  /\ End(k)
  /\ UNCHANGED <<rows, seen>>

-----------------------------------------------------------------------------
(* Opening a session and joining one. *)

StartCreate(k, t) == Begin(k, "create", Nobody, t, Nobody, Nobody)

\* Slip: the index covers active sessions only, as it did before migration 24.
UniqueIndexAccepts_ActiveOnly(t) == {s \in LiveAt(t) : status[s] = "open"} = {}
UniqueIndexAccepts(t) == LiveAt(t) = {}

AddGuest(g, s, host) ==
  /\ member[g] = Nobody
  /\ member' = [member EXCEPT ![g] = s]
  /\ isHost' = [isHost EXCEPT ![g] = host]
  /\ UNCHANGED <<revoked, seen>>

\* The rows of a new session are its own until it commits.
CommitCreate(k) ==
  /\ tx[k].op = "create" /\ HasAllLocks(k)
  /\ \A j \in Tasks : ~IndexWaitsFor(k, j)
  /\ UniqueIndexAccepts(tx[k].t)
  /\ \E s \in Sessions, g \in Guests :
       /\ status[s] = "none"
       /\ status' = [status EXCEPT ![s] = "open"]
       /\ at' = [at EXCEPT ![s] = tx[k].t]
       /\ AddGuest(g, s, TRUE)
       /\ hostOf' = [hostOf EXCEPT ![s] = g]
  /\ table' = [table EXCEPT ![tx[k].t] = "occupied"]
  /\ End(k)

RefuseCreate(k) ==
  /\ tx[k].op = "create" /\ HasAllLocks(k)
  /\ \A j \in Tasks : ~IndexWaitsFor(k, j)
  /\ ~UniqueIndexAccepts(tx[k].t)
  /\ End(k)
  /\ UNCHANGED <<rows, seen>>

StartJoin(k, s) ==
  /\ status[s] \in Live
  /\ Begin(k, "join", s, at[s], Nobody, Nobody)

\* The status was read before; the insert only needs the session's row not to
\* be locked FOR UPDATE, as the stale cleaner locks it.
CommitJoin(k) ==
  /\ tx[k].op = "join"
  /\ \A j \in Tasks : ~(tx[j].op = "abandon" /\ HeldAgainst(j, k, "session"))
  /\ \E g \in Guests : AddGuest(g, tx[k].s, FALSE)
  /\ End(k)
  /\ UNCHANGED <<status, at, hostOf, table>>

-----------------------------------------------------------------------------
(* The host role. *)

PresentMember(g, s) == member[g] = s /\ ~revoked[g] /\ seen[g] = "here"

\* The host hands the role over, on a session it has read as not being paid.
TransferHost(k, s, g) ==
  /\ status[s] \notin {"none", "paying"}
  /\ ~revoked[hostOf[s]]
  /\ g # hostOf[s]
  /\ PresentMember(g, s)
  /\ Begin(k, "transfer", s, at[s], g, hostOf[s])

\* A guest who acts becomes host when the host it has read is gone.  Its caller
\* has read the session as live, which it may no longer be.
Promote(k, s, g) ==
  /\ status[s] # "none"
  /\ g # hostOf[s]
  /\ seen[hostOf[s]] = "gone"
  /\ PresentMember(g, s)
  /\ Begin(k, "promote", s, at[s], g, hostOf[s])

\* A snapshot gives the role to a present guest, of those the one who joined
\* first, when the host is gone or, of a session that has ended since it was
\* read, revoked.
EnsureHostBaseline(k, s, g) ==
  /\ status[s] # "none"
  /\ g # hostOf[s]
  /\ revoked[hostOf[s]] \/ seen[hostOf[s]] = "gone"
  /\ PresentMember(g, s)
  /\ Begin(k, "promote", s, at[s], g, hostOf[s])

\* Slip: the outgoing host keeps its flag.
SetParticipantHostFlags_KeepsOld(s, g) == isHost' = [isHost EXCEPT ![g] = TRUE]
SetParticipantHostFlags(s, g) ==
  isHost' = [h \in Guests |-> IF member[h] = s THEN h = g ELSE isHost[h]]

ReassignHost(k) ==
  /\ tx[k].op \in Reassigning /\ HasAllLocks(k)
  /\ SetParticipantHostFlags(tx[k].s, tx[k].g)
  /\ hostOf' = [hostOf EXCEPT ![tx[k].s] = tx[k].g]
  /\ End(k)
  /\ UNCHANGED <<status, at, table, member, revoked, seen>>

-----------------------------------------------------------------------------
(* The ways a session ends. *)

StartClose(k, s) ==
  /\ status[s] # "none"
  /\ Begin(k, "close", s, at[s], Nobody, Nobody)

StartAbandon(k, s) ==
  /\ status[s] = "open"
  /\ Begin(k, "abandon", s, at[s], Nobody, Nobody)

RevokeAllParticipants(s) ==
  revoked' = [g \in Guests |-> revoked[g] \/ member[g] = s]

EndVisit(k, final) ==
  /\ HasAllLocks(k)
  /\ status' = [status EXCEPT ![tx[k].s] = final]
  /\ table' = [table EXCEPT ![tx[k].t] = "available"]
  /\ RevokeAllParticipants(tx[k].s)
  /\ End(k)
  /\ UNCHANGED <<at, hostOf, member, isHost, seen>>

\* Slip: a status of another table's type.
CommitClose_WrongEnum(k) == tx[k].op = "close" /\ EndVisit(k, "completed")
CommitClose(k) == tx[k].op = "close" /\ EndVisit(k, "closed")

CommitAbandon(k) == tx[k].op = "abandon" /\ EndVisit(k, "abandoned")

-----------------------------------------------------------------------------
(* Everything else that touches these rows. *)

Unlocked(s) == \A j \in Tasks : ~(tx[j].s = s /\ Holds(j, "session"))

\* A payment freezes the session or its release thaws it, in one statement.
FreezeOrThaw(s) ==
  /\ status[s] \in Live
  /\ Unlocked(s)
  /\ status' = [status EXCEPT ![s] = IF @ = "open" THEN "paying" ELSE "open"]
  /\ UNCHANGED <<at, hostOf, table, member, isHost, revoked, seen, tx>>

\* The reconciler: tables first, then sessions that share one; it keeps one of
\* them, and neither revokes the others' guests nor looks at the table again.
ReconcileSessionTables ==
  /\ table' = [t \in Tables |->
       IF table[t] = "occupied" /\ LiveAt(t) = {} THEN "available"
       ELSE IF table[t] = "available" /\ LiveAt(t) # {} THEN "occupied"
       ELSE table[t]]
  /\ \E kept \in SUBSET Sessions :
       /\ \A t \in Tables : \A r \in LiveAt(t) : status[r] = "open" =>
            \E s \in kept \cap LiveAt(t) :
              /\ status[s] = "open"
              /\ \A q \in kept \cap LiveAt(t) : status[q] = "open" => q = s
       /\ status' = [s \in Sessions |->
            IF status[s] = "open" /\ s \notin kept THEN "abandoned" ELSE status[s]]
  /\ UNCHANGED <<at, hostOf, member, isHost, revoked, seen, tx>>

\* A socket keeps beating after its guest has been revoked, until it is closed.
Heartbeat(g) ==
  /\ member[g] # Nobody
  /\ seen' = [seen EXCEPT ![g] = "here"]
  /\ UNCHANGED <<rows, tx>>

\* Time passes without one.  The presence hash that a close deletes after its
\* commit is such a silence as well, of all the session's guests.
Silence(g) ==
  /\ member[g] # Nobody
  /\ seen[g] # "gone"
  /\ seen' = [seen EXCEPT ![g] = IF @ = "here" THEN "quiet" ELSE "gone"]
  /\ UNCHANGED <<rows, tx>>

-----------------------------------------------------------------------------
Step(k) ==
  \/ \E t \in Tables : StartCreate(k, t)
  \/ \E s \in Sessions :
       \/ StartJoin(k, s) \/ StartClose(k, s) \/ StartAbandon(k, s)
       \/ \E g \in Guests : TransferHost(k, s, g) \/ Promote(k, s, g)
                             \/ EnsureHostBaseline(k, s, g)
  \/ \E row \in {"session", "table", "guests"} : Lock(k, row)
  \/ CommitCreate(k) \/ RefuseCreate(k) \/ CommitJoin(k) \/ ReassignHost(k)
  \/ CommitClose(k) \/ CommitAbandon(k) \/ RollBack(k)

Next ==
  \/ \E k \in Tasks : Step(k)
  \/ \E s \in Sessions : FreezeOrThaw(s)
  \/ \E g \in Guests : Heartbeat(g) \/ Silence(g)
  \/ ReconcileSessionTables

Spec == Init /\ [][Next]_vars

-----------------------------------------------------------------------------
(* Properties. *)

\* Rows and requests keep their types.
TypeOK ==
  /\ status \in [Sessions -> {"none"} \cup Live \cup Ended]
  /\ at \in [Sessions -> Tables \cup {Nobody}]
  /\ hostOf \in [Sessions -> Guests \cup {Nobody}]
  /\ table \in [Tables -> {"available", "occupied"}]
  /\ member \in [Guests -> Sessions \cup {Nobody}]
  /\ isHost \in [Guests -> BOOLEAN]
  /\ revoked \in [Guests -> BOOLEAN]
  /\ seen \in [Guests -> {"here", "quiet", "gone"}]
  /\ tx \in [Tasks -> Request]

\* A table is shown as occupied exactly while a live session is at it, and never
\* has two: whatever opens and ends sessions in whatever order, the reconciler
\* finds nothing to repair.
TableFollowsVisit ==
  \A t \in Tables :
    /\ table[t] = "occupied" <=> LiveAt(t) # {}
    /\ \A r, s \in LiveAt(t) : r = s

\* The pointer of a session and the flags of its guests name the same, one,
\* host (INVARIANTS.md, H1), and while the session lives that host has not been
\* revoked, so somebody can order and pay.
VisitHasOneHost ==
  \A s \in Sessions : status[s] # "none" =>
    /\ {g \in Guests : member[g] = s /\ isHost[g]} = {hostOf[s]}
    /\ status[s] \in Live => ~revoked[hostOf[s]]

\* No two requests that end sessions wait for each other, and the stale
\* cleaner never does with a guest who opens one: both take the table last, and
\* the cleaner writes the session only when it has the table.  A close can still
\* deadlock with an opening, and both endings with a change of host.
EndingsNeverDeadlock ==
  \A j, k \in Tasks : Deadlocked(j, k) =>
    /\ ~(tx[j].op \in {"close", "abandon"} /\ tx[k].op \in {"close", "abandon"})
    /\ ~(tx[j].op = "abandon" /\ tx[k].op = "create")

\* The floor plan: sessions are seated one at a time and never come back.
OneOf(S) == IF S = {} THEN Nobody ELSE CHOOSE s \in S : TRUE
Visiting == [t \in Tables |-> OneOf(LiveAt(t))]
Served == {s \in Sessions : status[s] # "none"}
Floor == INSTANCE Occupancy WITH visit <- Visiting, sign <- table, served <- Served
ImplementsOccupancy == Floor!Spec

\* INVARIANTS.md, H3: an automatic transfer happens only after the current host
\* is absent.  What the code does not keep: of two requests that have read the
\* same absent host, the second takes the role from the guest to whom the first
\* has just given it, and who is present.
PresentHostKeepsRole ==
  [][\A k \in Tasks :
       /\ tx[k].op = "promote" /\ ReassignHost(k)
       /\ hostOf[tx[k].s] \notin {tx[k].from, tx[k].g}
       => seen[hostOf[tx[k].s]] # "here"]_vars

=============================================================================
