---------------------------- MODULE SeatingProofs ----------------------------
(***************************************************************************)
(* Proofs about Seating, for any tables, sessions, guests and requests.    *)
(*                                                                         *)
(* What the tables and hosts show is not inductive by itself: an ending    *)
(* frees the table of the session it found live when it took the lock, so  *)
(* the table stays right only if that session is live still (FoundStays),  *)
(* which holds because nobody else can have had the row meanwhile          *)
(* (Exclusive) and because a session never moves (ReadsHold).  A host can  *)
(* act because guests are revoked only with their visit                    *)
(* (RevokedWithVisit).  Inv is the conjunction, one lemma per step.        *)
(***************************************************************************)
EXTENDS Seating, TLAPS

Ending == {"close", "abandon"}
Rows == {"session", "table", "guests"}

\* A session that exists has a table and a host of its own, and one that does
\* not has no guests.
SessionRows ==
  /\ \A s \in Sessions : status[s] # "none" =>
       at[s] \in Tables /\ hostOf[s] \in Guests /\ member[hostOf[s]] = s
  /\ \A g \in Guests : member[g] # Nobody => status[member[g]] # "none"

\* What a request has read of rows that never change again.
ReadsHold ==
  \A k \in Tasks :
    /\ tx[k].locks <= Len(LockOrder(tx[k].op))
    /\ tx[k].op = "create" => tx[k].t \in Tables
    /\ tx[k].op \in Ending \cup Reassigning \cup {"join"} =>
         tx[k].s \in Sessions /\ status[tx[k].s] # "none"
    /\ tx[k].op \in Ending => tx[k].t = at[tx[k].s]
    /\ tx[k].op \in Reassigning => tx[k].g \in Guests /\ member[tx[k].g] = tx[k].s

\* No two requests hold one row.
Exclusive ==
  \A j, k \in Tasks : \A row \in Rows :
    Holds(k, row) => ~HeldAgainst(j, k, row)

\* What an ending found in the session's row stays there while it is locked.
FoundStays ==
  \A k \in Tasks : tx[k].locks >= 1 =>
    /\ tx[k].op = "close" => status[tx[k].s] \in Live
    /\ tx[k].op = "abandon" => status[tx[k].s] = "open"

\* Guests are revoked with their visit, not before.
RevokedWithVisit ==
  \A g \in Guests : revoked[g] => member[g] # Nobody /\ status[member[g]] \in Ended

Inv ==
  /\ TypeOK /\ SessionRows /\ ReadsHold /\ Exclusive /\ FoundStays
  /\ RevokedWithVisit /\ TableFollowsVisit /\ VisitHasOneHost

-----------------------------------------------------------------------------
(* Locks. *)

\* The locks of a request, by what it does and how many it has.
LEMMA LocksHeld ==
  ASSUME NEW x \in Request, NEW row \in Rows, x.locks <= Len(LockOrder(x.op))
  PROVE (\E i \in 1..x.locks : LockOrder(x.op)[i] = row) <=>
          \/ row = "table" /\ \/ x.op = "create" /\ x.locks >= 1
                              \/ x.op \in Ending /\ x.locks >= 2
          \/ row = "session" /\ \/ x.op \in Ending /\ x.locks >= 1
                                \/ x.op \in Reassigning /\ x.locks >= 2
          \/ row = "guests" /\ \/ x.op \in Ending /\ x.locks >= 3
                               \/ x.op \in Reassigning /\ x.locks >= 1
<1> USE DEF LockOrder, CreateLocks, CloseLocks, AbandonLocks, ReassignLocks, Reassigning,
        Ending, Rows, Request, Ops
<1>1. CASE x.op = "create" BY <1>1
<1>2. CASE x.op = "close" BY <1>2
<1>3. CASE x.op = "abandon" BY <1>3
<1>4. CASE x.op \in Reassigning BY <1>4
<1>5. CASE x.op \in {"join", "idle"} BY <1>5
<1> QED BY <1>1, <1>2, <1>3, <1>4, <1>5

\* The lock a request takes next.
LEMMA LocksWanted ==
  ASSUME NEW x \in Request, NEW row \in Rows,
         x.locks < Len(LockOrder(x.op)), LockOrder(x.op)[x.locks + 1] = row
  PROVE  \/ x.op = "create" /\ x.locks = 0 /\ row = "table"
         \/ x.op \in Ending /\ x.locks = 0 /\ row = "session"
         \/ x.op \in Ending /\ x.locks = 1 /\ row = "table"
         \/ x.op \in Ending /\ x.locks = 2 /\ row = "guests"
         \/ x.op \in Reassigning /\ x.locks = 0 /\ row = "guests"
         \/ x.op \in Reassigning /\ x.locks = 1 /\ row = "session"
<1> USE DEF LockOrder, CreateLocks, CloseLocks, AbandonLocks, ReassignLocks, Reassigning,
        Ending, Rows, Request, Ops
<1>1. CASE x.op = "create" BY <1>1
<1>2. CASE x.op = "close" BY <1>2
<1>3. CASE x.op = "abandon" BY <1>3
<1>4. CASE x.op \in Reassigning BY <1>4
<1>5. CASE x.op \in {"join", "idle"} BY <1>5
<1> QED BY <1>1, <1>2, <1>3, <1>4, <1>5

\* How many locks a request takes.
LEMMA LocksNeeded ==
  ASSUME NEW x \in Request
  PROVE  /\ x.op = "create" => Len(LockOrder(x.op)) = 1
         /\ x.op \in Ending => Len(LockOrder(x.op)) = 3
         /\ x.op \in Reassigning => Len(LockOrder(x.op)) = 2
         /\ x.op \in {"join", "idle"} => Len(LockOrder(x.op)) = 0
BY DEF LockOrder, CreateLocks, CloseLocks, AbandonLocks, ReassignLocks, Reassigning,
       Ending, Rows, Request, Ops

-----------------------------------------------------------------------------
(***************************************************************************)
(* Next, sorted by what a step writes: nothing but a request's own record, *)
(* nothing but the heartbeats, or rows.                                    *)
(***************************************************************************)

\* A request that begins has read what ReadsHold says.
Begins(k) ==
  \E op \in Ops, s \in Sessions \cup {Nobody}, t \in Tables \cup {Nobody},
     g \in Guests \cup {Nobody}, from \in Guests \cup {Nobody} :
    /\ Begin(k, op, s, t, g, from)
    /\ op = "create" => t \in Tables
    /\ op \in Ending \cup Reassigning \cup {"join"} =>
         s \in Sessions /\ status[s] # "none"
    /\ op \in Ending => t = at[s]
    /\ op \in Reassigning => g \in Guests /\ member[g] = s

Quits(k) == End(k) /\ UNCHANGED <<rows, seen>>

\* Taking a lock, and going on.
Takes(k, row) ==
  /\ Wants(k, row)
  /\ \A j \in Tasks : ~HeldAgainst(j, k, row)
  /\ ~FindsNothingToDo(k, row)
  /\ tx' = [tx EXCEPT ![k] = OneLockMore(k)]
  /\ UNCHANGED <<rows, seen>>

LEMMA StepCases ==
  ASSUME TypeOK, [Next]_vars
  PROVE  \/ \E k \in Tasks : Begins(k) \/ Quits(k) \/ (\E row \in Rows : Takes(k, row))
         \/ \E k \in Tasks : \/ CommitCreate(k) \/ CommitJoin(k) \/ ReassignHost(k)
                            \/ CommitClose(k) \/ CommitAbandon(k)
         \/ \E s \in Sessions : FreezeOrThaw(s)
         \/ ReconcileSessionTables
         \/ UNCHANGED <<rows, tx>> /\ seen' \in [Guests -> {"here", "quiet", "gone"}]
<1>1. ASSUME NEW k \in Tasks, NEW t \in Tables, StartCreate(k, t) PROVE Begins(k)
  BY <1>1 DEF StartCreate, Begins, Ops, Ending, Reassigning
<1>2. ASSUME NEW k \in Tasks, NEW s \in Sessions,
             StartJoin(k, s) \/ StartClose(k, s) \/ StartAbandon(k, s)
      PROVE Begins(k)
  <2>1. at[s] \in Tables \cup {Nobody} /\ Nobody \in Guests \cup {Nobody}
    BY DEF TypeOK
  <2> QED BY <1>2, <2>1
          DEF StartJoin, StartClose, StartAbandon, Begins, Ops, Ending, Reassigning, Live
<1>3. ASSUME NEW k \in Tasks, NEW s \in Sessions, NEW g \in Guests,
             TransferHost(k, s, g) \/ Promote(k, s, g) \/ EnsureHostBaseline(k, s, g)
      PROVE Begins(k)
  <2>1. at[s] \in Tables \cup {Nobody} /\ hostOf[s] \in Guests \cup {Nobody}
    BY DEF TypeOK
  <2>2. status[s] # "none" /\ member[g] = s
    BY <1>3 DEF TransferHost, Promote, EnsureHostBaseline, PresentMember
  <2>3. \E op \in Reassigning : Begin(k, op, s, at[s], g, hostOf[s])
    BY <1>3 DEF TransferHost, Promote, EnsureHostBaseline, Reassigning
  <2> QED BY <2>1, <2>2, <2>3 DEF Begins, Ops, Ending, Reassigning
<1>4. ASSUME NEW k \in Tasks, NEW row \in Rows, Lock(k, row)
      PROVE Quits(k) \/ Takes(k, row)
  BY <1>4 DEF Lock, Quits, Takes
<1>5. ASSUME NEW k \in Tasks, RollBack(k) \/ RefuseCreate(k) PROVE Quits(k)
  BY <1>5 DEF RollBack, RefuseCreate, Quits
<1>6. ASSUME NEW g \in Guests, Heartbeat(g) \/ Silence(g)
      PROVE UNCHANGED <<rows, tx>> /\ seen' \in [Guests -> {"here", "quiet", "gone"}]
  BY <1>6 DEF Heartbeat, Silence, TypeOK
<1>7. CASE UNCHANGED vars
  BY <1>7 DEF vars, TypeOK
<1> QED BY <1>1, <1>2, <1>3, <1>4, <1>5, <1>6, <1>7 DEF Next, Step, Rows

-----------------------------------------------------------------------------
(* Types. *)

LEMMA TypeStep == TypeOK /\ [Next]_vars => TypeOK'
<1> SUFFICES ASSUME TypeOK, [Next]_vars PROVE TypeOK'
  OBVIOUS
<1> USE DEF Live, Ended
<1>0. Idle \in Request
  BY DEF Idle, Request
<1>1. ASSUME NEW k \in Tasks, Begins(k) PROVE TypeOK'
  BY <1>1 DEF Begins, Begin, TypeOK, Request, rows
<1>2. ASSUME NEW k \in Tasks, Quits(k) PROVE TypeOK'
  BY <1>0, <1>2 DEF Quits, End, TypeOK, rows
<1>3. ASSUME NEW k \in Tasks, NEW row \in Rows, Takes(k, row) PROVE TypeOK'
  <2>1. tx[k] \in Request /\ tx[k].locks < 3
    <3>1. tx[k] \in Request
      BY DEF TypeOK
    <3> QED BY <1>3, <3>1, LocksNeeded DEF Takes, Wants, Request, Ops, Ending, Reassigning
  <2>2. OneLockMore(k) \in Request
    BY <2>1 DEF Request, OneLockMore
  <2> QED BY <1>3, <2>2 DEF Takes, TypeOK, rows
<1>4. ASSUME NEW k \in Tasks, CommitCreate(k) PROVE TypeOK'
  <2>1. PICK s \in Sessions, g \in Guests :
          /\ status' = [status EXCEPT ![s] = "open"]
          /\ at' = [at EXCEPT ![s] = tx[k].t]
          /\ AddGuest(g, s, TRUE)
          /\ hostOf' = [hostOf EXCEPT ![s] = g]
    BY <1>4 DEF CommitCreate
  <2>2. tx[k].t \in Tables \cup {Nobody}
    BY DEF TypeOK, Request
  <2>3. tx' \in [Tasks -> Request] /\ table' \in [Tables -> {"available", "occupied"}]
    BY <1>0, <1>4 DEF CommitCreate, End, TypeOK
  <2> QED BY <2>1, <2>2, <2>3 DEF AddGuest, TypeOK
<1>5. ASSUME NEW k \in Tasks, CommitJoin(k) PROVE TypeOK'
  BY <1>0, <1>5 DEF CommitJoin, AddGuest, End, TypeOK, Request
<1>6. ASSUME NEW k \in Tasks, ReassignHost(k) PROVE TypeOK'
  BY <1>0, <1>6 DEF ReassignHost, SetParticipantHostFlags, End, TypeOK, Request
<1>7. ASSUME NEW k \in Tasks, CommitClose(k) \/ CommitAbandon(k) PROVE TypeOK'
  <2>1. revoked' \in [Guests -> BOOLEAN]
    BY <1>7 DEF CommitClose, CommitAbandon, EndVisit, RevokeAllParticipants
  <2>2. tx' \in [Tasks -> Request]
    BY <1>0, <1>7 DEF CommitClose, CommitAbandon, EndVisit, End, TypeOK
  <2> QED BY <1>7, <2>1, <2>2 DEF CommitClose, CommitAbandon, EndVisit, TypeOK
<1>8. ASSUME NEW s \in Sessions, FreezeOrThaw(s) PROVE TypeOK'
  BY <1>8 DEF FreezeOrThaw, TypeOK
<1>9. CASE ReconcileSessionTables
  BY <1>9 DEF ReconcileSessionTables, TypeOK
<1>10. CASE UNCHANGED <<rows, tx>> /\ seen' \in [Guests -> {"here", "quiet", "gone"}]
  BY <1>10 DEF TypeOK, rows
<1> QED BY <1>1, <1>2, <1>3, <1>4, <1>5, <1>6, <1>7, <1>8, <1>9, <1>10, StepCases

\* Rows and requests keep their types.
THEOREM TypeCorrect == Spec => []TypeOK
<1>1. Init => TypeOK
  BY DEF Init, Idle, Request, TypeOK
<1> QED BY <1>1, TypeStep, PTL DEF Spec

-----------------------------------------------------------------------------
(* What requests rely on. *)

\* A request that holds no lock takes its place without a conflict.
LEMMA FreshLocks ==
  ASSUME TypeOK, Exclusive, NEW k \in Tasks, NEW x, x.locks = 0,
         tx' = [tx EXCEPT ![k] = x]
  PROVE  Exclusive'
<1> SUFFICES ASSUME NEW i \in Tasks, NEW j \in Tasks, NEW row \in Rows,
                    Holds(j, row)', HeldAgainst(i, j, row)'
             PROVE FALSE
  BY DEF Exclusive
<1>1. tx'[k] = x /\ \A l \in Tasks : l # k => tx'[l] = tx[l]
  BY DEF TypeOK
<1>2. ~Holds(k, row)'
  BY <1>1 DEF Holds
<1>3. i # k /\ j # k /\ i # j
  BY <1>2 DEF HeldAgainst
<1> QED BY <1>1, <1>3 DEF Exclusive, HeldAgainst, Holds, SameRow

\* A request goes on only when nobody else holds the row it wants.
LEMMA LockExclusive ==
  ASSUME TypeOK, Exclusive, NEW k \in Tasks, NEW row \in Rows, Takes(k, row)
  PROVE  Exclusive'
<1> SUFFICES ASSUME NEW i \in Tasks, NEW j \in Tasks, NEW r \in Rows,
                    Holds(j, r)', HeldAgainst(i, j, r)'
             PROVE FALSE
  BY DEF Exclusive
<1>1. /\ tx'[k] = OneLockMore(k)
      /\ \A l \in Tasks : l # k => tx'[l] = tx[l]
  BY DEF TypeOK, Takes
<1>2. tx[k] \in Request
  BY DEF TypeOK
<1>3. /\ OneLockMore(k).op = tx[k].op /\ OneLockMore(k).s = tx[k].s
      /\ OneLockMore(k).t = tx[k].t /\ OneLockMore(k).locks = tx[k].locks + 1
  BY <1>2 DEF OneLockMore, Request
<1>4. Holds(k, r)' => Holds(k, r) \/ r = row
  <2> SUFFICES ASSUME Holds(k, r)' PROVE Holds(k, r) \/ r = row
    OBVIOUS
  <2>1. PICK n \in 1..(tx[k].locks + 1) : LockOrder(tx[k].op)[n] = r
    BY <1>1, <1>3 DEF Holds
  <2>2. n \in 1..tx[k].locks \/ n = tx[k].locks + 1
    BY <1>2, <2>1 DEF Request
  <2> QED BY <2>1, <2>2 DEF Holds, Takes, Wants
<1>5. \A l \in Tasks : l # k => (Holds(l, r)' <=> Holds(l, r))
  BY <1>1 DEF Holds
<1>6. SameRow(i, j, r) /\ i # j
  BY <1>1, <1>3 DEF HeldAgainst, SameRow
<1>7. \A l \in Tasks : ~HeldAgainst(l, k, row)
  BY DEF Takes
<1>8. CASE j = k
  BY <1>4, <1>5, <1>6, <1>7, <1>8 DEF HeldAgainst, Exclusive
<1>9. CASE i = k
  BY <1>4, <1>5, <1>6, <1>7, <1>9 DEF HeldAgainst, Exclusive, SameRow
<1> QED BY <1>5, <1>6, <1>8, <1>9 DEF HeldAgainst, Exclusive

\* Rows are added and never given to somebody else.
Grows ==
  /\ \A s \in Sessions : status[s] # "none" => status'[s] # "none" /\ at'[s] = at[s]
  /\ \A g \in Guests : member[g] # Nobody => member'[g] = member[g]

LEMMA ReadsStillHold ==
  ASSUME TypeOK, ReadsHold, Grows,
         UNCHANGED tx \/ \E k \in Tasks : End(k)
  PROVE  ReadsHold'
<1> SUFFICES ASSUME NEW k \in Tasks
             PROVE  /\ tx'[k].locks <= Len(LockOrder(tx'[k].op))
                    /\ tx'[k].op = "create" => tx'[k].t \in Tables
                    /\ tx'[k].op \in Ending \cup Reassigning \cup {"join"} =>
                         tx'[k].s \in Sessions /\ status'[tx'[k].s] # "none"
                    /\ tx'[k].op \in Ending => tx'[k].t = at'[tx'[k].s]
                    /\ tx'[k].op \in Reassigning =>
                         tx'[k].g \in Guests /\ member'[tx'[k].g] = tx'[k].s
  BY DEF ReadsHold
<1>1. tx'[k] = tx[k] \/ tx'[k] = Idle
  BY DEF End, TypeOK
<1>2. CASE tx'[k] = Idle
  <2>1. Idle \in Request
    BY DEF Idle, Request
  <2>2. Len(LockOrder(Idle.op)) = 0
    BY <2>1, LocksNeeded DEF Idle
  <2> QED BY <1>2, <2>2 DEF Idle, Ending, Reassigning
<1>3. CASE tx'[k] = tx[k]
  <2>1. tx[k].s \in Sessions => tx[k].s # Nobody
    BY NobodyIsNoRow
  <2> QED BY <1>3, <2>1 DEF ReadsHold, Grows, Ending, Reassigning
<1> QED BY <1>1, <1>2, <1>3

\* The locks of an ending or a reassignment, once it has them all.
LEMMA AllLocks ==
  ASSUME TypeOK, ReadsHold, NEW k \in Tasks, HasAllLocks(k)
  PROVE  /\ tx[k].op \in Ending => tx[k].locks >= 1 /\ Holds(k, "session")
         /\ tx[k].op = "create" => Holds(k, "table")
<1>1. tx[k] \in Request /\ tx[k].locks <= Len(LockOrder(tx[k].op))
  BY DEF TypeOK, ReadsHold
<1> QED BY <1>1, LocksNeeded, LocksHeld DEF HasAllLocks, Holds, Rows, Ending

\* Two requests that hold the rows of one session are one.
LEMMA OneHolder ==
  ASSUME TypeOK, ReadsHold, Exclusive, NEW j \in Tasks, NEW k \in Tasks,
         Holds(j, "session"), Holds(k, "session"), tx[j].s = tx[k].s
  PROVE  j = k
BY DEF Exclusive, HeldAgainst, SameRow, Rows

LEMMA EndingHoldsSession ==
  ASSUME TypeOK, ReadsHold, NEW k \in Tasks, tx[k].op \in Ending, tx[k].locks >= 1
  PROVE  Holds(k, "session")
<1>1. tx[k] \in Request /\ tx[k].locks <= Len(LockOrder(tx[k].op))
  BY DEF TypeOK, ReadsHold
<1> QED BY <1>1, LocksHeld DEF Holds, Rows, Ending

-----------------------------------------------------------------------------
(***************************************************************************)
(* Every step keeps the invariant.  TypeStep gives the types.              *)
(***************************************************************************)

\* Steps that write no row but the request's own record.
LEMMA RowsUntouched ==
  ASSUME Inv, UNCHANGED rows
  PROVE  SessionRows' /\ RevokedWithVisit' /\ TableFollowsVisit' /\ VisitHasOneHost'
<1>1. UNCHANGED <<status, at, hostOf, table, member, isHost, revoked>>
  BY DEF rows
<1>2. SessionRows' /\ RevokedWithVisit'
  BY <1>1 DEF Inv, SessionRows, RevokedWithVisit
<1>3. TableFollowsVisit'
  BY <1>1 DEF Inv, TableFollowsVisit, LiveAt
<1>4. VisitHasOneHost'
  BY <1>1 DEF Inv, VisitHasOneHost
<1> QED BY <1>2, <1>3, <1>4

LEMMA BeginsInv == ASSUME Inv, TypeOK', NEW k \in Tasks, Begins(k) PROVE Inv'
<1>1. PICK op \in Ops, s \in Sessions \cup {Nobody}, t \in Tables \cup {Nobody},
           g \in Guests \cup {Nobody}, from \in Guests \cup {Nobody} :
        /\ Begin(k, op, s, t, g, from)
        /\ op = "create" => t \in Tables
        /\ op \in Ending \cup Reassigning \cup {"join"} =>
             s \in Sessions /\ status[s] # "none"
        /\ op \in Ending => t = at[s]
        /\ op \in Reassigning => g \in Guests /\ member[g] = s
  BY DEF Begins
<1> DEFINE x == [op |-> op, s |-> s, t |-> t, g |-> g, from |-> from, locks |-> 0]
<1>2. tx' = [tx EXCEPT ![k] = x] /\ UNCHANGED <<rows, seen>>
  BY <1>1 DEF Begin
<1>3. x \in Request
  BY DEF Request
<1>4. tx'[k] = x /\ \A j \in Tasks : j # k => tx'[j] = tx[j]
  BY <1>2 DEF Inv, TypeOK
<1>5. Exclusive'
  BY <1>2, FreshLocks DEF Inv
<1>6. UNCHANGED <<status, at, member>>
  BY <1>2 DEF rows
<1>7. Len(LockOrder(x.op)) >= 0
  BY <1>3, LocksNeeded DEF Request, Ops, Ending, Reassigning
<1>8. ReadsHold'
  <2> SUFFICES ASSUME NEW j \in Tasks
               PROVE  /\ tx'[j].locks <= Len(LockOrder(tx'[j].op))
                      /\ tx'[j].op = "create" => tx'[j].t \in Tables
                      /\ tx'[j].op \in Ending \cup Reassigning \cup {"join"} =>
                           tx'[j].s \in Sessions /\ status'[tx'[j].s] # "none"
                      /\ tx'[j].op \in Ending => tx'[j].t = at'[tx'[j].s]
                      /\ tx'[j].op \in Reassigning =>
                           tx'[j].g \in Guests /\ member'[tx'[j].g] = tx'[j].s
    BY DEF ReadsHold
  <2>1. CASE j = k
    BY <1>1, <1>4, <1>6, <1>7, <2>1
  <2>2. CASE j # k
    BY <1>4, <1>6, <2>2 DEF Inv, ReadsHold
  <2> QED BY <2>1, <2>2
<1>9. FoundStays'
  BY <1>4, <1>6 DEF Inv, FoundStays
<1> QED BY <1>2, <1>5, <1>8, <1>9, RowsUntouched DEF Inv

LEMMA QuitsInv == ASSUME Inv, TypeOK', NEW k \in Tasks, Quits(k) PROVE Inv'
<1>1. End(k) /\ UNCHANGED rows /\ UNCHANGED <<status, at, member>>
  BY DEF Quits, rows
<1>2. Exclusive'
  BY <1>1, FreshLocks DEF Inv, End, Idle
<1>3. ReadsHold'
  BY <1>1, ReadsStillHold DEF Inv, Grows
<1>4. FoundStays'
  BY <1>1 DEF Inv, TypeOK, End, Idle, FoundStays
<1> QED BY <1>1, <1>2, <1>3, <1>4, RowsUntouched DEF Inv

LEMMA TakesInv ==
  ASSUME Inv, TypeOK', NEW k \in Tasks, NEW row \in Rows, Takes(k, row) PROVE Inv'
<1>1. /\ UNCHANGED rows /\ UNCHANGED <<status, at, member>>
      /\ tx'[k] = OneLockMore(k)
      /\ \A j \in Tasks : j # k => tx'[j] = tx[j]
  BY DEF Takes, rows, Inv, TypeOK
<1>2. tx[k] \in Request
  BY DEF Inv, TypeOK
<1>3. /\ OneLockMore(k).op = tx[k].op /\ OneLockMore(k).s = tx[k].s
      /\ OneLockMore(k).t = tx[k].t /\ OneLockMore(k).g = tx[k].g
      /\ OneLockMore(k).locks = tx[k].locks + 1
  BY <1>2 DEF OneLockMore, Request
<1>4. Exclusive'
  BY LockExclusive DEF Inv
<1>5. tx[k].locks + 1 <= Len(LockOrder(tx[k].op))
  BY <1>2, LocksNeeded DEF Takes, Wants, Request, Ops, Ending, Reassigning
<1>6. ReadsHold'
  <2> SUFFICES ASSUME NEW j \in Tasks
               PROVE  /\ tx'[j].locks <= Len(LockOrder(tx'[j].op))
                      /\ tx'[j].op = "create" => tx'[j].t \in Tables
                      /\ tx'[j].op \in Ending \cup Reassigning \cup {"join"} =>
                           tx'[j].s \in Sessions /\ status'[tx'[j].s] # "none"
                      /\ tx'[j].op \in Ending => tx'[j].t = at'[tx'[j].s]
                      /\ tx'[j].op \in Reassigning =>
                           tx'[j].g \in Guests /\ member'[tx'[j].g] = tx'[j].s
    BY DEF ReadsHold
  <2> QED BY <1>1, <1>3, <1>5 DEF Inv, ReadsHold
<1>7. FoundStays'
  <2> SUFFICES ASSUME NEW j \in Tasks, tx'[j].locks >= 1
               PROVE  /\ tx'[j].op = "close" => status'[tx'[j].s] \in Live
                      /\ tx'[j].op = "abandon" => status'[tx'[j].s] = "open"
    BY DEF FoundStays
  <2>1. CASE j # k
    BY <1>1, <2>1 DEF Inv, FoundStays
  <2>2. CASE j = k /\ tx[k].locks >= 1
    BY <1>1, <1>3, <2>2 DEF Inv, FoundStays
  <2>3. CASE j = k /\ tx[k].locks = 0
    <3>1. tx[k].op \in Ending => row = "session"
      BY <1>2, <2>3, LocksWanted DEF Takes, Wants, Ending, Reassigning
    <3> QED BY <1>1, <1>3, <2>3, <3>1
            DEF Takes, FindsNothingToDo, CloseSessionIfActive, AbandonStaleSession, Ending
  <2> QED BY <1>2, <2>1, <2>2, <2>3 DEF Request
<1> QED BY <1>1, <1>4, <1>6, <1>7, RowsUntouched DEF Inv

\* A new session: its rows are nobody's, and its table has no live one.
LEMMA CreateInv == ASSUME Inv, TypeOK', NEW k \in Tasks, CommitCreate(k) PROVE Inv'
<1>1. PICK s \in Sessions, g \in Guests :
        /\ status[s] = "none"
        /\ status' = [status EXCEPT ![s] = "open"]
        /\ at' = [at EXCEPT ![s] = tx[k].t]
        /\ AddGuest(g, s, TRUE)
        /\ hostOf' = [hostOf EXCEPT ![s] = g]
  BY DEF CommitCreate
<1>0. PICK t \in Tables : t = tx[k].t
  BY DEF CommitCreate, Inv, ReadsHold
<1>2. /\ t \in Tables /\ LiveAt(t) = {} /\ End(k)
      /\ table' = [table EXCEPT ![t] = "occupied"]
  BY <1>0 DEF CommitCreate, UniqueIndexAccepts
<1>3. /\ status'[s] = "open" /\ at'[s] = t /\ hostOf'[s] = g
      /\ \A r \in Sessions : r # s =>
           status'[r] = status[r] /\ at'[r] = at[r] /\ hostOf'[r] = hostOf[r]
  BY <1>0, <1>1 DEF Inv, TypeOK
<1>4. /\ member[g] = Nobody /\ member'[g] = s /\ isHost'[g] = TRUE
      /\ \A h \in Guests : h # g => member'[h] = member[h] /\ isHost'[h] = isHost[h]
      /\ revoked' = revoked
  BY <1>1 DEF AddGuest, Inv, TypeOK
<1>5. Nobody \notin Sessions
  BY NobodyIsNoRow
<1>6. Grows
  BY <1>1, <1>3, <1>4 DEF Grows
<1>7. Exclusive'
  BY <1>2, FreshLocks DEF Inv, End, Idle
<1>8. ReadsHold'
  BY <1>2, <1>6, ReadsStillHold DEF Inv
<1>9. FoundStays'
  <2> SUFFICES ASSUME NEW j \in Tasks, tx'[j].locks >= 1
               PROVE  /\ tx'[j].op = "close" => status'[tx'[j].s] \in Live
                      /\ tx'[j].op = "abandon" => status'[tx'[j].s] = "open"
    BY DEF FoundStays
  <2>1. tx'[j] = tx[j]
    BY <1>2 DEF End, Idle, Inv, TypeOK
  <2> QED BY <1>1, <1>3, <2>1 DEF Inv, FoundStays, ReadsHold, Ending
<1>10. SessionRows'
  <2>1. \A r \in Sessions : status'[r] # "none" =>
          at'[r] \in Tables /\ hostOf'[r] \in Guests /\ member'[hostOf'[r]] = r
    BY <1>2, <1>3, <1>4, <1>5 DEF Inv, SessionRows
  <2>2. \A h \in Guests : member'[h] # Nobody => status'[member'[h]] # "none"
    BY <1>1, <1>3, <1>4 DEF Inv, SessionRows, TypeOK
  <2> QED BY <2>1, <2>2 DEF SessionRows
<1>11. RevokedWithVisit'
  BY <1>1, <1>3, <1>4 DEF Inv, RevokedWithVisit, TypeOK, Ended
<1>12. TableFollowsVisit'
  <2>1. LiveAt(t)' = {s}
    BY <1>2, <1>3 DEF LiveAt, Live
  <2>2. \A u \in Tables : u # t => LiveAt(u)' = LiveAt(u)
    BY <1>1, <1>3 DEF LiveAt, Live
  <2>3. table'[t] = "occupied" /\ \A u \in Tables : u # t => table'[u] = table[u]
    BY <1>2 DEF Inv, TypeOK
  <2> QED BY <2>1, <2>2, <2>3 DEF Inv, TableFollowsVisit
<1>13. VisitHasOneHost'
  <2> SUFFICES ASSUME NEW r \in Sessions, status'[r] # "none"
               PROVE  /\ {h \in Guests : member'[h] = r /\ isHost'[h]} = {hostOf'[r]}
                      /\ status'[r] \in Live => ~revoked'[hostOf'[r]]
    BY DEF VisitHasOneHost
  <2>1. CASE r = s
    <3>1. \A h \in Guests : h # g => member'[h] # s
      BY <1>1, <1>4, <1>5 DEF Inv, SessionRows
    <3>2. ~revoked[g]
      BY <1>4 DEF Inv, RevokedWithVisit
    <3> QED BY <1>3, <1>4, <2>1, <3>1, <3>2
  <2>2. CASE r # s
    <3>1. {h \in Guests : member'[h] = r /\ isHost'[h]}
            = {h \in Guests : member[h] = r /\ isHost[h]}
      BY <1>4, <1>5, <2>2
    <3> QED BY <1>3, <1>4, <2>2, <3>1 DEF Inv, VisitHasOneHost
  <2> QED BY <2>1, <2>2
<1> QED BY <1>7, <1>8, <1>9, <1>10, <1>11, <1>12, <1>13 DEF Inv

\* A guest joins and is not the host, whatever has become of the session.
LEMMA JoinInv == ASSUME Inv, TypeOK', NEW k \in Tasks, CommitJoin(k) PROVE Inv'
<1>1. PICK g \in Guests : AddGuest(g, tx[k].s, FALSE)
  BY DEF CommitJoin
<1> DEFINE s == tx[k].s
<1>2. /\ s \in Sessions /\ status[s] # "none" /\ Nobody \notin Sessions
      /\ End(k) /\ UNCHANGED <<status, at, hostOf, table>>
  BY NobodyIsNoRow DEF CommitJoin, Inv, ReadsHold
<1>3. /\ member[g] = Nobody /\ member'[g] = s /\ isHost'[g] = FALSE
      /\ \A h \in Guests : h # g => member'[h] = member[h] /\ isHost'[h] = isHost[h]
      /\ revoked' = revoked
  BY <1>1 DEF AddGuest, Inv, TypeOK
<1>4. Grows
  BY <1>2, <1>3 DEF Grows
<1>5. Exclusive'
  BY <1>2, FreshLocks DEF Inv, End, Idle
<1>6. ReadsHold'
  BY <1>2, <1>4, ReadsStillHold DEF Inv
<1>7. FoundStays'
  BY <1>2 DEF Inv, TypeOK, End, Idle, FoundStays
<1>8. SessionRows'
  BY <1>2, <1>3 DEF Inv, SessionRows
<1>9. RevokedWithVisit'
  BY <1>2, <1>3 DEF Inv, RevokedWithVisit
<1>10. TableFollowsVisit'
  BY <1>2 DEF Inv, TableFollowsVisit, LiveAt
<1>11. VisitHasOneHost'
  <2> SUFFICES ASSUME NEW r \in Sessions, status[r] # "none"
               PROVE  /\ {h \in Guests : member'[h] = r /\ isHost'[h]} = {hostOf[r]}
                      /\ status[r] \in Live => ~revoked[hostOf[r]]
    BY <1>2, <1>3 DEF VisitHasOneHost
  <2>1. {h \in Guests : member'[h] = r /\ isHost'[h]}
          = {h \in Guests : member[h] = r /\ isHost[h]}
    BY <1>2, <1>3
  <2> QED BY <2>1 DEF Inv, VisitHasOneHost
<1> QED BY <1>5, <1>6, <1>7, <1>8, <1>9, <1>10, <1>11 DEF Inv

\* The new host is a guest of the session, and not revoked while it lives.
LEMMA ReassignInv == ASSUME Inv, TypeOK', NEW k \in Tasks, ReassignHost(k) PROVE Inv'
<1> DEFINE s == tx[k].s
           g == tx[k].g
<1>1. /\ s \in Sessions /\ g \in Guests /\ member[g] = s /\ End(k)
      /\ UNCHANGED <<status, at, table, member, revoked>>
  BY DEF ReassignHost, Inv, ReadsHold
<1>2. /\ hostOf'[s] = g /\ \A r \in Sessions : r # s => hostOf'[r] = hostOf[r]
      /\ \A h \in Guests : IF member[h] = s THEN isHost'[h] <=> h = g
                            ELSE isHost'[h] = isHost[h]
  BY <1>1 DEF ReassignHost, SetParticipantHostFlags, Inv, TypeOK
<1>3. Exclusive'
  BY <1>1, FreshLocks DEF Inv, End, Idle
<1>4. ReadsHold'
  BY <1>1, ReadsStillHold DEF Inv, Grows
<1>5. FoundStays'
  BY <1>1 DEF Inv, TypeOK, End, Idle, FoundStays
<1>6. SessionRows' /\ RevokedWithVisit'
  BY <1>1, <1>2 DEF Inv, SessionRows, RevokedWithVisit
<1>7. TableFollowsVisit'
  BY <1>1 DEF Inv, TableFollowsVisit, LiveAt
<1>8. VisitHasOneHost'
  <2> SUFFICES ASSUME NEW r \in Sessions, status[r] # "none"
               PROVE  /\ {h \in Guests : member[h] = r /\ isHost'[h]} = {hostOf'[r]}
                      /\ status[r] \in Live => ~revoked[hostOf'[r]]
    BY <1>1 DEF VisitHasOneHost
  <2>1. CASE r = s
    <3>1. {h \in Guests : member[h] = s /\ isHost'[h]} = {g}
      BY <1>1, <1>2
    <3>2. status[s] \in Live => ~revoked[g]
      BY <1>1 DEF Inv, RevokedWithVisit, Live, Ended
    <3> QED BY <1>2, <2>1, <3>1, <3>2
  <2>2. CASE r # s
    <3>1. {h \in Guests : member[h] = r /\ isHost'[h]}
            = {h \in Guests : member[h] = r /\ isHost[h]}
      BY <1>2, <2>2
    <3> QED BY <1>2, <2>2, <3>1 DEF Inv, VisitHasOneHost
  <2> QED BY <2>1, <2>2
<1> QED BY <1>3, <1>4, <1>5, <1>6, <1>7, <1>8 DEF Inv

\* Sessions come and stay with their table, their host and their guests.
LEMMA SessionRowsKept ==
  ASSUME Inv, UNCHANGED <<at, hostOf, member>>,
         \A s \in Sessions : status'[s] # "none" <=> status[s] # "none"
  PROVE  SessionRows'
<1>1. \A g \in Guests : member[g] # Nobody => member[g] \in Sessions
  BY DEF Inv, TypeOK
<1> QED BY <1>1 DEF Inv, SessionRows

\* What an ending with all its locks does: its session was live and the only one
\* at its table.
LEMMA EndVisitFacts ==
  ASSUME Inv, TypeOK', NEW k \in Tasks, NEW final \in Ended,
         tx[k].op \in Ending, EndVisit(k, final)
  PROVE  \E s \in Sessions, t \in Tables :
           /\ s = tx[k].s /\ status[s] \in Live /\ at[s] = t /\ status'[s] = final
           /\ \A r \in Sessions : r # s => status'[r] = status[r]
           /\ table' = [table EXCEPT ![t] = "available"]
           /\ revoked' = [g \in Guests |-> revoked[g] \/ member[g] = s]
           /\ LiveAt(t) = {s}
<1> DEFINE s == tx[k].s
           t == tx[k].t
<1>1. tx[k].locks >= 1
  BY AllLocks DEF EndVisit, Inv
<1>2. status[s] \in Live /\ s \in Sessions /\ t = at[s] /\ at[s] \in Tables
  BY <1>1 DEF Inv, FoundStays, ReadsHold, SessionRows, Ending, Live
<1>3. status'[s] = final /\ \A r \in Sessions : r # s => status'[r] = status[r]
  BY <1>2 DEF EndVisit, Inv, TypeOK
<1>4. LiveAt(t) = {s}
  BY <1>2 DEF Inv, TableFollowsVisit, LiveAt
<1> QED BY <1>2, <1>3, <1>4 DEF EndVisit, RevokeAllParticipants

LEMMA EndVisitInv ==
  ASSUME Inv, TypeOK', NEW k \in Tasks, NEW final \in Ended,
         tx[k].op \in Ending, EndVisit(k, final)
  PROVE  Inv'
<1>1. PICK s \in Sessions, t \in Tables :
        /\ s = tx[k].s /\ status[s] \in Live /\ at[s] = t /\ status'[s] = final
        /\ \A r \in Sessions : r # s => status'[r] = status[r]
        /\ table' = [table EXCEPT ![t] = "available"]
        /\ revoked' = [g \in Guests |-> revoked[g] \/ member[g] = s]
        /\ LiveAt(t) = {s}
  BY EndVisitFacts
<1>2. End(k) /\ UNCHANGED <<at, hostOf, member, isHost>>
  BY DEF EndVisit
<1>3. Grows
  BY <1>1, <1>2 DEF Grows, Ended
<1>4. Exclusive'
  BY <1>2, FreshLocks DEF Inv, End, Idle
<1>5. ReadsHold'
  BY <1>2, <1>3, ReadsStillHold DEF Inv
<1>6. FoundStays'
  <2> SUFFICES ASSUME NEW j \in Tasks, tx'[j].locks >= 1, tx'[j].op \in Ending
               PROVE  /\ tx'[j].op = "close" => status'[tx'[j].s] \in Live
                      /\ tx'[j].op = "abandon" => status'[tx'[j].s] = "open"
    BY DEF FoundStays, Ending
  <2>1. j # k /\ tx'[j] = tx[j]
    BY <1>2 DEF End, Idle, Inv, TypeOK
  <2>2. Holds(j, "session") /\ Holds(k, "session")
    BY <2>1, EndingHoldsSession, AllLocks DEF EndVisit, Inv
  <2>3. tx[j].s # s
    BY <1>1, <2>1, <2>2, OneHolder DEF Inv
  <2> QED BY <1>1, <2>1, <2>3 DEF Inv, FoundStays, ReadsHold, Ending
<1>7. SessionRows'
  BY <1>1, <1>2, SessionRowsKept DEF Live, Ended
<1>8. RevokedWithVisit'
  <2> SUFFICES ASSUME NEW g \in Guests, revoked'[g]
               PROVE  member[g] # Nobody /\ status'[member[g]] \in Ended
    BY <1>2 DEF RevokedWithVisit
  <2>1. revoked[g] \/ member[g] = s
    BY <1>1
  <2>2. s # Nobody
    BY NobodyIsNoRow
  <2> QED BY <1>1, <2>1, <2>2 DEF Inv, RevokedWithVisit, TypeOK
<1>9. TableFollowsVisit'
  <2>1. LiveAt(t)' = {}
    BY <1>1, <1>2 DEF LiveAt, Live, Ended
  <2>2. \A u \in Tables : u # t => LiveAt(u)' = LiveAt(u)
    BY <1>1, <1>2 DEF LiveAt
  <2>3. table'[t] = "available" /\ \A u \in Tables : u # t => table'[u] = table[u]
    BY <1>1 DEF Inv, TypeOK
  <2> QED BY <2>1, <2>2, <2>3 DEF Inv, TableFollowsVisit
<1>10. VisitHasOneHost'
  <2> SUFFICES ASSUME NEW r \in Sessions, status'[r] # "none"
               PROVE  /\ {g \in Guests : member[g] = r /\ isHost[g]} = {hostOf[r]}
                      /\ status'[r] \in Live => ~revoked'[hostOf[r]]
    BY <1>2 DEF VisitHasOneHost
  <2>1. status[r] # "none"
    BY <1>1 DEF Live
  <2>2. hostOf[r] \in Guests /\ member[hostOf[r]] = r
    BY <2>1 DEF Inv, SessionRows
  <2>3. status'[r] \in Live => r # s /\ status[r] \in Live
    BY <1>1 DEF Live, Ended
  <2>4. {g \in Guests : member[g] = r /\ isHost[g]} = {hostOf[r]}
    BY <2>1 DEF Inv, VisitHasOneHost
  <2>5. status[r] \in Live => ~revoked[hostOf[r]]
    BY <2>1 DEF Inv, VisitHasOneHost
  <2> QED BY <1>1, <2>2, <2>3, <2>4, <2>5
<1> QED BY <1>4, <1>5, <1>6, <1>7, <1>8, <1>9, <1>10 DEF Inv

LEMMA FreezeInv == ASSUME Inv, TypeOK', NEW s \in Sessions, FreezeOrThaw(s) PROVE Inv'
<1>1. /\ status[s] \in Live /\ status'[s] \in Live
      /\ \A r \in Sessions : r # s => status'[r] = status[r]
      /\ UNCHANGED <<at, hostOf, table, member, isHost, revoked, tx>>
  BY DEF FreezeOrThaw, Inv, TypeOK, Live
<1>2. Exclusive'
  BY <1>1 DEF Inv, Exclusive, HeldAgainst, Holds, SameRow
<1>3. ReadsHold'
  BY <1>1, ReadsStillHold DEF Inv, Grows, Live
<1>4. FoundStays'
  <2> SUFFICES ASSUME NEW j \in Tasks, tx[j].locks >= 1, tx[j].op \in Ending
               PROVE  /\ tx[j].op = "close" => status'[tx[j].s] \in Live
                      /\ tx[j].op = "abandon" => status'[tx[j].s] = "open"
    BY <1>1 DEF FoundStays, Ending
  <2>1. tx[j].s # s
    BY EndingHoldsSession DEF FreezeOrThaw, Unlocked, Inv
  <2> QED BY <1>1, <2>1 DEF Inv, FoundStays, ReadsHold, Ending
<1>5. SessionRows'
  BY <1>1, SessionRowsKept DEF Live
<1>6. RevokedWithVisit'
  BY <1>1 DEF Inv, RevokedWithVisit, Live, Ended, TypeOK
<1>7. TableFollowsVisit'
  <2>1. \A t \in Tables : LiveAt(t)' = LiveAt(t)
    BY <1>1 DEF LiveAt
  <2> QED BY <1>1, <2>1 DEF Inv, TableFollowsVisit
<1>8. VisitHasOneHost'
  BY <1>1 DEF Inv, VisitHasOneHost, Live
<1> QED BY <1>2, <1>3, <1>4, <1>5, <1>6, <1>7, <1>8 DEF Inv

\* The reconciler has nothing to do.
LEMMA ReconcileIdles ==
  ASSUME Inv, ReconcileSessionTables PROVE UNCHANGED <<rows, seen, tx>>
<1>1. table' = table
  <2>1. \A t \in Tables : table'[t] = table[t]
    BY DEF ReconcileSessionTables, Inv, TableFollowsVisit
  <2> QED BY <2>1 DEF ReconcileSessionTables, Inv, TypeOK
<1>2. status' = status
  <2>1. PICK kept \in SUBSET Sessions :
          /\ \A t \in Tables : \A r \in LiveAt(t) : status[r] = "open" =>
               \E s \in kept \cap LiveAt(t) :
                 /\ status[s] = "open"
                 /\ \A q \in kept \cap LiveAt(t) : status[q] = "open" => q = s
          /\ status' = [s \in Sessions |->
               IF status[s] = "open" /\ s \notin kept THEN "abandoned" ELSE status[s]]
    BY DEF ReconcileSessionTables
  <2>2. ASSUME NEW r \in Sessions, status[r] = "open" PROVE r \in kept
    <3>1. at[r] \in Tables /\ r \in LiveAt(at[r])
      BY <2>2 DEF Inv, SessionRows, LiveAt, Live
    <3>2. PICK s \in kept \cap LiveAt(at[r]) : status[s] = "open"
      BY <2>1, <2>2, <3>1
    <3>3. s = r
      BY <3>1, <3>2 DEF Inv, TableFollowsVisit
    <3> QED BY <3>2, <3>3
  <2>3. \A r \in Sessions : status'[r] = status[r]
    BY <2>1, <2>2
  <2> QED BY <2>1, <2>3 DEF Inv, TypeOK
<1> QED BY <1>1, <1>2 DEF ReconcileSessionTables, rows

\* Heartbeats, and steps that do nothing.
LEMMA TxUntouched == ASSUME Inv, TypeOK', UNCHANGED <<rows, tx>> PROVE Inv'
<1>1. UNCHANGED <<status, at, member, tx>>
  BY DEF rows
<1>2. Exclusive' /\ FoundStays' /\ ReadsHold'
  BY <1>1 DEF Inv, Exclusive, HeldAgainst, Holds, SameRow, FoundStays, ReadsHold
<1> QED BY <1>2, RowsUntouched DEF Inv

LEMMA InitInv == Init => Inv
<1> SUFFICES ASSUME Init PROVE Inv
  OBVIOUS
<1>1. TypeOK
  BY DEF Init, Idle, Request, TypeOK
<1>2. \A k \in Tasks : tx[k] = Idle /\ Idle.locks = 0 /\ Idle.op = "idle"
  BY DEF Init, Idle
<1>3. \A k \in Tasks, row \in Rows : ~Holds(k, row)
  BY <1>2 DEF Holds
<1>4. Len(LockOrder("idle")) = 0
  BY DEF LockOrder, Reassigning
<1>5. ReadsHold /\ Exclusive /\ FoundStays
  BY <1>2, <1>3, <1>4 DEF ReadsHold, Exclusive, FoundStays, Ending, Reassigning
<1>6. SessionRows /\ RevokedWithVisit /\ VisitHasOneHost
  BY DEF Init, SessionRows, RevokedWithVisit, VisitHasOneHost
<1>7. TableFollowsVisit
  BY DEF Init, TableFollowsVisit, LiveAt, Live
<1> QED BY <1>1, <1>5, <1>6, <1>7 DEF Inv

LEMMA InvStep == Inv /\ [Next]_vars => Inv'
<1> SUFFICES ASSUME Inv, [Next]_vars PROVE Inv'
  OBVIOUS
<1>1. TypeOK'
  BY TypeStep DEF Inv
<1>2. ASSUME NEW k \in Tasks, CommitClose(k) \/ CommitAbandon(k) PROVE Inv'
  BY <1>1, <1>2, EndVisitInv DEF CommitClose, CommitAbandon, Ended, Ending
<1>3. CASE ReconcileSessionTables
  BY <1>1, <1>3, ReconcileIdles, TxUntouched
<1> QED BY <1>1, <1>2, <1>3, StepCases, BeginsInv, QuitsInv, TakesInv, CreateInv, JoinInv,
           ReassignInv, FreezeInv, TxUntouched DEF Inv

LEMMA InvAlways == Spec => []Inv
BY InitInv, InvStep, PTL DEF Spec

\* The floor plan is right at every commit, and the reconciler never finds
\* anything to repair.
THEOREM TablesAreTruthful == Spec => []TableFollowsVisit
<1>1. Inv => TableFollowsVisit
  BY DEF Inv
<1> QED BY <1>1, InvAlways, PTL

\* A live session always has exactly one host, who can act.
THEOREM SomebodyIsHost == Spec => []VisitHasOneHost
<1>1. Inv => VisitHasOneHost
  BY DEF Inv
<1> QED BY <1>1, InvAlways, PTL

-----------------------------------------------------------------------------
(* Deadlocks. *)

\* An ending waits only for requests that are further along than it is.
LEMMA EndingsQueue ==
  ASSUME TypeOK, ReadsHold, NEW j \in Tasks, NEW k \in Tasks,
         tx[j].op \in Ending, tx[k].op \in Ending, WaitsFor(j, k)
  PROVE  tx[j].locks < tx[k].locks
<1>1. /\ tx[j] \in Request /\ tx[j].locks <= Len(LockOrder(tx[j].op))
      /\ tx[k] \in Request /\ tx[k].locks <= Len(LockOrder(tx[k].op))
  BY DEF TypeOK, ReadsHold
<1>2. PICK row \in Rows : Wants(j, row) /\ Holds(k, row)
  BY DEF WaitsFor, IndexWaitsFor, HeldAgainst, Rows, Ending
<1>3. tx[j].locks < Len(LockOrder(tx[j].op))
  BY <1>1, <1>2, LocksNeeded DEF Wants, Request, Ending
<1>4. \/ tx[j].locks = 0 /\ row = "session"
      \/ tx[j].locks = 1 /\ row = "table"
      \/ tx[j].locks = 2 /\ row = "guests"
  BY <1>1, <1>2, <1>3, LocksWanted DEF Wants, Ending, Reassigning
<1>5. \/ row = "session" /\ tx[k].locks >= 1
      \/ row = "table" /\ tx[k].locks >= 2
      \/ row = "guests" /\ tx[k].locks >= 3
  BY <1>1, <1>2, LocksHeld DEF Holds, Ending, Reassigning
<1> QED BY <1>1, <1>4, <1>5 DEF Request

\* The cleaner waits for an opening only before it has written anything, and an
\* opening waits for the cleaner only afterwards.
LEMMA CleanerAndOpening ==
  ASSUME TypeOK, ReadsHold, NEW j \in Tasks, NEW k \in Tasks,
         tx[j].op = "abandon", tx[k].op = "create", WaitsFor(j, k), WaitsFor(k, j)
  PROVE  FALSE
<1>1. /\ tx[j] \in Request /\ tx[j].locks <= Len(LockOrder(tx[j].op))
      /\ tx[k] \in Request /\ tx[k].locks <= Len(LockOrder(tx[k].op))
  BY DEF TypeOK, ReadsHold
<1>2. PICK row \in Rows : Wants(j, row) /\ Holds(k, row)
  BY DEF WaitsFor, IndexWaitsFor, HeldAgainst, Rows
<1>3. row = "table" /\ tx[k].locks >= 1
  BY <1>1, <1>2, LocksHeld DEF Holds, Ending, Reassigning
<1>4. tx[j].locks < Len(LockOrder(tx[j].op)) /\ tx[j].locks = 1
  BY <1>1, <1>2, <1>3, LocksNeeded, LocksWanted DEF Wants, Request, Ending, Reassigning
<1>5. ~Holds(j, "table")
  BY <1>1, <1>4, LocksHeld DEF Holds, Rows, Ending
<1>6. PICK r \in Rows : Wants(k, r)
  BY <1>5 DEF WaitsFor, IndexWaitsFor, BeingWritten, Rows
<1> QED BY <1>1, <1>3, <1>6, LocksNeeded, LocksWanted DEF Wants, Request, Ending, Reassigning

\* No two requests that end sessions wait for each other, nor the stale cleaner
\* and a guest who opens one.
THEOREM NoDeadlock == Spec => []EndingsNeverDeadlock
<1>1. Inv => EndingsNeverDeadlock
  <2> SUFFICES ASSUME Inv, NEW j \in Tasks, NEW k \in Tasks, WaitsFor(j, k), WaitsFor(k, j)
               PROVE  /\ ~(tx[j].op \in Ending /\ tx[k].op \in Ending)
                      /\ ~(tx[j].op = "abandon" /\ tx[k].op = "create")
    BY DEF EndingsNeverDeadlock, Deadlocked, Ending
  <2>1. ASSUME tx[j].op \in Ending, tx[k].op \in Ending PROVE FALSE
    <3>1. tx[j].locks \in Int /\ tx[k].locks \in Int
      BY DEF Inv, TypeOK, Request
    <3>2. tx[j].locks < tx[k].locks /\ tx[k].locks < tx[j].locks
      BY <2>1, EndingsQueue DEF Inv
    <3> QED BY <3>1, <3>2
  <2>2. ~(tx[j].op = "abandon" /\ tx[k].op = "create")
    BY CleanerAndOpening DEF Inv
  <2> QED BY <2>1, <2>2
<1> QED BY <1>1, InvAlways, PTL

-----------------------------------------------------------------------------
(* The floor plan. *)

\* A table whose sessions do not change shows the same visit.
LEMMA SameVisit ==
  ASSUME \A t \in Tables : LiveAt(t)' = LiveAt(t) PROVE Visiting' = Visiting
BY DEF Visiting

LEMMA CreateSeats ==
  ASSUME Inv, NEW k \in Tasks, CommitCreate(k)
  PROVE  \E t \in Tables, s \in Sessions : Floor!Seat(t, s)
<1>1. PICK s \in Sessions : /\ status[s] = "none"
                           /\ status' = [status EXCEPT ![s] = "open"]
                           /\ at' = [at EXCEPT ![s] = tx[k].t]
  BY DEF CommitCreate
<1>2. PICK t \in Tables : t = tx[k].t
  BY DEF CommitCreate, Inv, ReadsHold
<1>3. LiveAt(t) = {} /\ table' = [table EXCEPT ![t] = "occupied"]
  BY <1>2 DEF CommitCreate, UniqueIndexAccepts
<1>4. /\ status'[s] = "open" /\ at'[s] = t
      /\ \A r \in Sessions : r # s => status'[r] = status[r] /\ at'[r] = at[r]
  BY <1>1, <1>2 DEF Inv, TypeOK
<1>5. LiveAt(t)' = {s} /\ \A u \in Tables : u # t => LiveAt(u)' = LiveAt(u)
  BY <1>1, <1>3, <1>4 DEF LiveAt, Live
<1>0. OneOf({s}) = s /\ OneOf({}) = Nobody
  BY DEF OneOf
<1>6. Visiting' = [Visiting EXCEPT ![t] = s]
  BY <1>0, <1>5 DEF Visiting
<1>7. Visiting[t] = Nobody /\ s \notin Served
  BY <1>0, <1>1, <1>3 DEF Visiting, Served
<1>8. Served' = Served \cup {s}
  BY <1>1, <1>4 DEF Served
<1> QED BY <1>3, <1>6, <1>7, <1>8 DEF Floor!Seat

LEMMA EndingLeaves ==
  ASSUME Inv, TypeOK', NEW k \in Tasks, NEW final \in Ended,
         tx[k].op \in Ending, EndVisit(k, final)
  PROVE  \E t \in Tables : Floor!Leave(t)
<1>1. PICK s \in Sessions, t \in Tables :
        /\ status[s] \in Live /\ at[s] = t /\ status'[s] = final
        /\ \A r \in Sessions : r # s => status'[r] = status[r]
        /\ table' = [table EXCEPT ![t] = "available"]
        /\ LiveAt(t) = {s}
  BY EndVisitFacts
<1>2. at' = at
  BY DEF EndVisit
<1>3. LiveAt(t)' = {} /\ \A u \in Tables : u # t => LiveAt(u)' = LiveAt(u)
  BY <1>1, <1>2 DEF LiveAt, Live, Ended
<1>0. OneOf({s}) = s /\ OneOf({}) = Nobody
  BY DEF OneOf
<1>4. Visiting' = [Visiting EXCEPT ![t] = Nobody]
  BY <1>0, <1>3 DEF Visiting
<1>5. Visiting[t] # Nobody
  BY <1>0, <1>1, NobodyIsNoRow DEF Visiting
<1>6. Served' = Served
  BY <1>1 DEF Served, Live, Ended
<1> QED BY <1>1, <1>4, <1>5, <1>6 DEF Floor!Leave

LEMMA FreezeStutters ==
  ASSUME Inv, NEW s \in Sessions, FreezeOrThaw(s)
  PROVE  UNCHANGED <<Visiting, table, Served>>
<1>1. /\ status[s] \in Live /\ status'[s] \in Live
      /\ \A r \in Sessions : r # s => status'[r] = status[r]
      /\ UNCHANGED <<at, table>>
  BY DEF FreezeOrThaw, Inv, TypeOK, Live
<1>2. \A t \in Tables : LiveAt(t)' = LiveAt(t)
  BY <1>1 DEF LiveAt
<1>3. Served' = Served
  BY <1>1 DEF Served, Live
<1> QED BY <1>1, <1>2, <1>3, SameVisit

LEMMA StatusStutters ==
  ASSUME UNCHANGED <<status, at, table>>
  PROVE  UNCHANGED <<Visiting, table, Served>>
BY DEF Visiting, Served, LiveAt

\* Opening a session seats it, closing or abandoning it leaves, and nothing else
\* touches the floor plan.
THEOREM Implementation == Spec => ImplementsOccupancy
<1>1. Init => Floor!Init
  <2> SUFFICES ASSUME Init PROVE Floor!Init
    OBVIOUS
  <2>1. Served = {} /\ \A t \in Tables : LiveAt(t) = {}
    BY DEF Init, Served, LiveAt, Live
  <2>2. OneOf({}) = Nobody
    BY DEF OneOf
  <2> QED BY <2>1, <2>2 DEF Init, Floor!Init, Visiting
<1>2. Inv /\ [Next]_vars => [Floor!Next]_<<Visiting, table, Served>>
  <2> SUFFICES ASSUME Inv, [Next]_vars
               PROVE  Floor!Next \/ UNCHANGED <<Visiting, table, Served>>
    OBVIOUS
  <2>1. TypeOK'
    BY TypeStep DEF Inv
  <2>2. ASSUME NEW k \in Tasks, Begins(k) \/ Quits(k) \/ \E row \in Rows : Takes(k, row)
        PROVE UNCHANGED <<status, at, table>>
    BY <2>2 DEF Begins, Begin, Quits, Takes, rows
  <2>3. ASSUME NEW k \in Tasks, CommitJoin(k) \/ ReassignHost(k)
        PROVE UNCHANGED <<status, at, table>>
    BY <2>3 DEF CommitJoin, ReassignHost
  <2>4. ASSUME NEW k \in Tasks, CommitCreate(k) PROVE Floor!Next
    BY <2>4, CreateSeats DEF Floor!Next
  <2>5. ASSUME NEW k \in Tasks, CommitClose(k) \/ CommitAbandon(k) PROVE Floor!Next
    BY <2>1, <2>5, EndingLeaves DEF CommitClose, CommitAbandon, Ended, Ending, Floor!Next
  <2>6. CASE ReconcileSessionTables
    BY <2>6, ReconcileIdles, StatusStutters DEF rows
  <2>7. CASE UNCHANGED rows
    BY <2>7, StatusStutters DEF rows
  <2> QED BY <2>2, <2>3, <2>4, <2>5, <2>6, <2>7, StepCases, StatusStutters, FreezeStutters
          DEF Inv
<1> QED BY <1>1, <1>2, InvAlways, PTL DEF Spec, ImplementsOccupancy, Floor!Spec

-----------------------------------------------------------------------------
(***************************************************************************)
(* A host who is present.  A promotion replaces the host it has read, or   *)
(* nobody, as long as no request that overlaps it gives the role of that   *)
(* session to a third guest: what the code would have to see to.           *)
(***************************************************************************)

\* While a promotion runs, whoever else changes the host of its session gives
\* the role to the guest it promotes or back to the host it has read.
HostsApart ==
  \A j, k \in Tasks :
    /\ tx[k].op = "promote" /\ tx[j].op \in Reassigning
    /\ tx[j].s = tx[k].s
    => tx[j].g \in {tx[k].g, tx[k].from}

\* The host a promotion has read is the host still, unless its own guest is.
ReplacesWhomItRead ==
  \A k \in Tasks : tx[k].op = "promote" =>
    hostOf[tx[k].s] \in {tx[k].from, tx[k].g}

\* A promotion goes on with what it has read, or has just read it.
LEMMA PromotionsRead ==
  ASSUME TypeOK, [Next]_vars, NEW k \in Tasks, tx'[k].op = "promote"
  PROVE  \/ /\ tx[k].op = "promote" /\ tx'[k].s = tx[k].s
            /\ tx'[k].g = tx[k].g /\ tx'[k].from = tx[k].from
         \/ hostOf' = hostOf /\ tx'[k].from = hostOf[tx'[k].s]
<1> DEFINE Same == /\ tx'[k].op = tx[k].op /\ tx'[k].s = tx[k].s
                   /\ tx'[k].g = tx[k].g /\ tx'[k].from = tx[k].from
           Fresh == hostOf' = hostOf /\ tx'[k].from = hostOf[tx'[k].s]
<1> SUFFICES Same \/ Fresh
  OBVIOUS
<1>0. tx[k] \in Request /\ Idle.op # "promote" /\ tx \in [Tasks -> Request]
  BY DEF TypeOK, Idle
<1>1. ASSUME NEW j \in Tasks, End(j) PROVE Same
  BY <1>0, <1>1 DEF End
<1>2. ASSUME NEW j \in Tasks, NEW t \in Tables, StartCreate(j, t) PROVE Same
  BY <1>0, <1>2 DEF StartCreate, Begin
<1>3. ASSUME NEW j \in Tasks, NEW s \in Sessions,
             StartJoin(j, s) \/ StartClose(j, s) \/ StartAbandon(j, s)
      PROVE Same
  BY <1>0, <1>3 DEF StartJoin, StartClose, StartAbandon, Begin
<1>4. ASSUME NEW j \in Tasks, NEW s \in Sessions, NEW g \in Guests,
             TransferHost(j, s, g) \/ Promote(j, s, g) \/ EnsureHostBaseline(j, s, g)
      PROVE Same \/ Fresh
  <2>1. \E op \in Reassigning : Begin(j, op, s, at[s], g, hostOf[s])
    BY <1>4 DEF TransferHost, Promote, EnsureHostBaseline, Reassigning
  <2> QED BY <1>0, <2>1 DEF Begin, rows
<1>5. ASSUME NEW j \in Tasks, NEW row \in Rows, Lock(j, row) PROVE Same
  <2>1. End(j) \/ tx' = [tx EXCEPT ![j] = OneLockMore(j)]
    BY <1>5 DEF Lock
  <2>2. /\ OneLockMore(j).op = tx[j].op /\ OneLockMore(j).s = tx[j].s
        /\ OneLockMore(j).g = tx[j].g /\ OneLockMore(j).from = tx[j].from
    BY <1>0 DEF OneLockMore, Request
  <2> QED BY <1>0, <1>1, <2>1, <2>2
<1>6. ASSUME NEW j \in Tasks,
             \/ CommitCreate(j) \/ RefuseCreate(j) \/ CommitJoin(j) \/ ReassignHost(j)
             \/ CommitClose(j) \/ CommitAbandon(j) \/ RollBack(j)
      PROVE Same
  <2>1. End(j)
    BY <1>6 DEF CommitCreate, RefuseCreate, CommitJoin, ReassignHost, CommitClose,
                CommitAbandon, EndVisit, RollBack
  <2> QED BY <1>1, <2>1
<1>7. ASSUME UNCHANGED tx PROVE Same
  BY <1>7
<1>8. ASSUME \/ \E s \in Sessions : FreezeOrThaw(s)
             \/ \E g \in Guests : Heartbeat(g) \/ Silence(g)
             \/ ReconcileSessionTables \/ UNCHANGED vars
      PROVE Same
  BY <1>7, <1>8 DEF FreezeOrThaw, Heartbeat, Silence, ReconcileSessionTables, vars
<1> HIDE DEF Same, Fresh
<1> QED BY <1>2, <1>3, <1>4, <1>5, <1>6, <1>8 DEF Next, Step, Rows

\* The host of a session changes only when it is opened and when a request
\* reassigns it.
LEMMA HostsChange ==
  ASSUME Inv, [Next]_vars, NEW s \in Sessions, status[s] # "none",
         hostOf'[s] # hostOf[s]
  PROVE  \E j \in Tasks : /\ tx[j].op \in Reassigning
                         /\ tx[j].s = s /\ hostOf'[s] = tx[j].g
<1>1. TypeOK
  BY DEF Inv
<1>2. ASSUME NEW k \in Tasks, Begins(k) \/ Quits(k) \/ \E row \in Rows : Takes(k, row)
      PROVE FALSE
  BY <1>2 DEF Begins, Begin, Quits, Takes, rows
<1>3. ASSUME NEW k \in Tasks, CommitCreate(k) PROVE FALSE
  BY <1>1, <1>3 DEF CommitCreate, TypeOK
<1>4. ASSUME NEW k \in Tasks, CommitJoin(k) \/ CommitClose(k) \/ CommitAbandon(k)
      PROVE FALSE
  BY <1>4 DEF CommitJoin, CommitClose, CommitAbandon, EndVisit
<1>5. ASSUME NEW k \in Tasks, ReassignHost(k)
      PROVE tx[k].op \in Reassigning /\ tx[k].s = s /\ hostOf'[s] = tx[k].g
  BY <1>1, <1>5 DEF ReassignHost, TypeOK
<1>6. ~\E r \in Sessions : FreezeOrThaw(r)
  BY DEF FreezeOrThaw
<1>7. ~ReconcileSessionTables /\ ~UNCHANGED rows
  BY DEF ReconcileSessionTables, rows
<1> QED BY <1>1, <1>2, <1>3, <1>4, <1>5, <1>6, <1>7, StepCases DEF rows

LEMMA ReplacesStep ==
  Inv /\ HostsApart /\ ReplacesWhomItRead /\ [Next]_vars => ReplacesWhomItRead'
<1> SUFFICES ASSUME Inv, HostsApart, ReplacesWhomItRead, [Next]_vars,
                    NEW k \in Tasks, tx'[k].op = "promote"
             PROVE  hostOf'[tx'[k].s] \in {tx'[k].from, tx'[k].g}
  BY DEF ReplacesWhomItRead
<1>1. CASE hostOf' = hostOf /\ tx'[k].from = hostOf[tx'[k].s]
  BY <1>1
<1>2. CASE /\ tx[k].op = "promote" /\ tx'[k].s = tx[k].s
           /\ tx'[k].g = tx[k].g /\ tx'[k].from = tx[k].from
  <2>1. tx[k].s \in Sessions /\ status[tx[k].s] # "none"
    BY <1>2 DEF Inv, ReadsHold, Reassigning
  <2>2. CASE hostOf'[tx[k].s] = hostOf[tx[k].s]
    BY <1>2, <2>2 DEF ReplacesWhomItRead
  <2>3. CASE hostOf'[tx[k].s] # hostOf[tx[k].s]
    <3>1. PICK j \in Tasks : /\ tx[j].op \in Reassigning
                             /\ tx[j].s = tx[k].s /\ hostOf'[tx[k].s] = tx[j].g
      BY <2>1, <2>3, HostsChange
    <3> QED BY <1>2, <3>1 DEF HostsApart
  <2> QED BY <2>2, <2>3
<1> QED BY <1>1, <1>2, PromotionsRead DEF Inv

\* The second of two promotions is all that can take the role from a host who
\* is present: where no request that overlaps a promotion gives the role to
\* somebody else, every promotion replaces the host it found absent
\* (INVARIANTS.md, H3).
THEOREM PromotionReplacesTheAbsent ==
  Spec /\ []HostsApart => PresentHostKeepsRole
<1>1. Init => ReplacesWhomItRead
  BY DEF Init, Idle, ReplacesWhomItRead
<1>2. Spec /\ []HostsApart => []ReplacesWhomItRead
  BY <1>1, ReplacesStep, InvAlways, PTL DEF Spec
<1>3. ReplacesWhomItRead =>
        [\A k \in Tasks :
           /\ tx[k].op = "promote" /\ ReassignHost(k)
           /\ hostOf[tx[k].s] \notin {tx[k].from, tx[k].g}
           => seen[hostOf[tx[k].s]] # "here"]_vars
  BY DEF ReplacesWhomItRead
<1> QED BY <1>2, <1>3, PTL DEF PresentHostKeepsRole

=============================================================================
