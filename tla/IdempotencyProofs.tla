-------------------------- MODULE IdempotencyProofs --------------------------
(***************************************************************************)
(* Theorems about IdempotencyKeys: for any number of keys, requests and    *)
(* resources, and whether or not requests may stop half way.               *)
(*                                                                         *)
(* CreatedIsReplayed is not inductive alone: it needs to know that only    *)
(* one request works under a key, that the key of a request at work is     *)
(* still pending (OwnerHolds, SoleOwner), and that the payment a request   *)
(* is about to answer with is one (HasPayment, OpenIsPayment).  Every step *)
(* of a task is a reservation, a failure, a step that leaves the tables    *)
(* alone (Stays) or one that fills the key (Fills).                        *)
(***************************************************************************)
EXTENDS IdempotencyKeys, TLAPS

\* r answers a request for b.
Fits(r, b) ==
  /\ r \in Resources
  /\ IF b \in OrderBodies THEN asked[r] = b ELSE asked[r] \in PayBodies

\* The key of a request at work is live, carries its hash and is pending; only
\* the request that did not learn of its own commit finds it completed.
OwnerHolds ==
  \A t \in Tasks :
    stage[t] \in Owning =>
      LET k == req[t].key
      IN  /\ live[k]
          /\ row[k].body = req[t].body
          /\ row[k].status = "pending"
               \/ (stage[t] = "fail" /\ row[k].status = "completed")

SoleOwner ==
  \A t, u \in Tasks :
    t # u /\ stage[t] \in Owning /\ stage[u] \in Owning
      => req[t].key # req[u].key

\* A request at work has not been answered; one on the payment path asks for a
\* payment, and holds one where it is about to answer with it.
AtWork ==
  \A t \in Tasks :
    /\ stage[t] # "idle" => reply[t] = "none"
    /\ stage[t] \in {"attach", "create", "lookup", "fallback"}
         => req[t].body \in PayBodies
    /\ stage[t] \in {"attach", "fallback"}
         => found[t] \in Resources /\ asked[found[t]] \in PayBodies

OpenIsPayment == open # Nothing => open \in Resources /\ asked[open] \in PayBodies

RowSound ==
  \A k \in Keys :
    row[k].status = "completed"
      => row[k].body \in Bodies /\ Fits(row[k].resource, row[k].body)

\* The order a live key replays was created under that key, in this lifetime.
LiveOrderIsOwned ==
  \A k \in Keys :
    live[k] /\ row[k].status = "completed" /\ row[k].body \in OrderBodies
      => owner[row[k].resource] = k

Answered == \A t \in Tasks : reply[t] = "ok" => Fits(found[t], req[t].body)

Inv ==
  /\ TypeOK /\ OwnerHolds /\ SoleOwner /\ AtWork /\ OpenIsPayment
  /\ RowSound /\ LiveOrderIsOwned /\ Answered /\ CreatedIsReplayed

-----------------------------------------------------------------------------

Others(t) ==
  \A u \in Tasks \ {t} :
    stage'[u] = stage[u] /\ found'[u] = found[u] /\ reply'[u] = reply[u]

\* A step of t that leaves every row alone.
Stays(t) ==
  /\ UNCHANGED <<row, live, asked, owner, open, req>>
  /\ Others(t)
  /\ stage'[t] \in Owning => stage[t] \in Owning /\ stage[t] # "fail"
  /\ stage'[t] # "idle" => reply'[t] = reply[t] /\ stage[t] # "idle"
  /\ stage'[t] \in {"attach", "create", "lookup", "fallback"}
       => req[t].body \in PayBodies
  /\ stage'[t] \in {"attach", "fallback"} => open # Nothing /\ found'[t] = open
  /\ reply'[t] = "ok" => Fits(found'[t], req[t].body)

\* A step of t that completes its key with r, which it creates or has found.
Fills(t, r) ==
  /\ r \in Resources
  /\ stage[t] \in Owning /\ stage[t] # "fail"
  /\ row' = Completed(req[t].key, r)
  /\ UNCHANGED <<live, req>>
  /\ Others(t)
  /\ found'[t] = r
  /\ stage'[t] \in {"idle", "fail"}
  /\ stage'[t] = "fail" => reply'[t] = "none"
  /\ \/ /\ asked[r] = Nothing
        /\ asked' = [asked EXCEPT ![r] = req[t].body]
        /\ owner' = [owner EXCEPT ![r] = req[t].key]
        /\ open' = open \/ (open' = r /\ req[t].body \in PayBodies)
     \/ /\ UNCHANGED <<asked, owner, open>>
        /\ req[t].body \in PayBodies /\ Fits(r, req[t].body)

-----------------------------------------------------------------------------

LEMMA InitInv == Init => Inv
<1> SUFFICES ASSUME Init PROVE Inv
  OBVIOUS
<1>1. TypeOK
  BY DEF Init, TypeOK, Rows, NoRow, Stages
<1>2. OwnerHolds /\ SoleOwner /\ AtWork
  BY DEF Init, OwnerHolds, SoleOwner, AtWork, Owning
<1>3. OpenIsPayment /\ RowSound /\ LiveOrderIsOwned /\ Answered /\ CreatedIsReplayed
  BY DEF Init, OpenIsPayment, RowSound, LiveOrderIsOwned, Answered,
         CreatedIsReplayed, NoRow
<1> QED BY <1>1, <1>2, <1>3 DEF Inv

\* The statements keep the types.
LEMMA TypeStep == TypeOK /\ [Next]_vars => TypeOK'
<1> SUFFICES ASSUME TypeOK, [Next]_vars PROVE TypeOK'
  OBVIOUS
<1>0. ASSUME NEW k \in Keys, NEW r \in Resources
      PROVE  Completed(k, r) \in [Keys -> Rows] /\ Failed(k) \in [Keys -> Rows]
  BY DEF TypeOK, Completed, Failed, Rows
<1>a. ASSUME NEW t \in Tasks PROVE req[t].key \in Keys /\ req[t].body \in Bodies
  BY DEF TypeOK
<1>1. ASSUME NEW t \in Tasks, NEW k \in Keys, NEW b \in Bodies, Reserve(t, k, b)
      PROVE  TypeOK'
  <2>. DEFINE R == [status |-> "pending", body |-> b, resource |-> Nothing]
  <2>0. R \in Rows
    BY DEF Rows, Bodies
  <2>. HIDE DEF R
  <2>1. row' \in [Keys -> Rows] /\ live' \in [Keys -> BOOLEAN]
    <3>1. row' = [row EXCEPT ![k] = R] \/ row' = row
      BY <1>1 DEF Reserve, R
    <3> QED BY <1>1, <2>0, <3>1 DEF Reserve, TypeOK
  <2>2. stage' \in [Tasks -> Stages]
    BY <1>1 DEF Reserve, TypeOK, Stages
  <2> QED BY <1>1, <2>1, <2>2 DEF Reserve, TypeOK
<1>2. ASSUME NEW t \in Tasks, Replay(t) PROVE TypeOK'
  <2>1. row[req[t].key] \in Rows
    BY DEF TypeOK
  <2> QED BY <1>2, <2>1 DEF Replay, Answer, TypeOK, Stages, Rows
<1>3. ASSUME NEW t \in Tasks, PlaceOrder(t) \/ RollBack(t) \/ Abort(t)
      PROVE  TypeOK'
  <2>1. CASE CommitOrder(t)
    <3>1. PICK r \in Resources : Create(t, r)
      BY <2>1 DEF CommitOrder
    <3>2. row' \in [Keys -> Rows]
      BY <1>0, <1>a, <3>1 DEF Create
    <3> QED BY <1>a, <2>1, <3>1, <3>2
            DEF CommitOrder, Create, Committed, Answer, Goto, TypeOK, Stages
  <2>2. CASE RefuseOrder(t) \/ RollBack(t) \/ Abort(t)
    BY <2>2 DEF RefuseOrder, RollBack, Abort, ReturnError, Answer, Goto, TypeOK, Stages
  <2> QED BY <1>3, <2>1, <2>2 DEF PlaceOrder
<1>4. ASSUME NEW t \in Tasks, FailKey(t) PROVE TypeOK'
  <2>1. row' \in [Keys -> Rows]
    BY <1>4 DEF FailKey, Failed, TypeOK, Rows
  <2> QED BY <1>4, <2>1 DEF FailKey, ReturnError, Answer, TypeOK, Stages
<1>5. ASSUME NEW t \in Tasks, InitiatePayment(t) PROVE TypeOK'
  <2>1. CASE ReuseLookup(t) \/ LoseRace(t) \/ LookUpWinner(t)
    BY <2>1 DEF ReuseLookup, LoseRace, LookUpWinner, Goto, TypeOK, Stages
  <2>2. ASSUME NEW r \in Resources \cup {Nothing}
        PROVE  Completed(req[t].key, r) \in [Keys -> Rows]
    BY DEF TypeOK, Completed, Rows
  <2>3. CASE AttachToExisting(t)
    BY <2>2, <2>3 DEF AttachToExisting, Answer, TypeOK, Stages
  <2>4. CASE CommitPayment(t)
    <3>1. PICK r \in Resources : Create(t, r) /\ open' = r
      BY <2>4 DEF CommitPayment
    <3>2. row' \in [Keys -> Rows]
      BY <1>0, <1>a, <3>1 DEF Create
    <3> QED BY <1>a, <2>4, <3>1, <3>2
            DEF CommitPayment, Create, Committed, Answer, Goto, TypeOK, Stages
  <2>5. CASE CommitExisting(t)
    BY <2>2, <2>5 DEF CommitExisting, Committed, Answer, Goto, TypeOK, Stages
  <2>6. CASE AnswerWithWinner(t)
    BY <2>2, <2>6 DEF AnswerWithWinner, Answer, TypeOK, Stages
  <2> QED BY <1>5, <2>1, <2>3, <2>4, <2>5, <2>6 DEF InitiatePayment
<1>6. CASE Decide
  BY <1>6 DEF Decide, TypeOK
<1>7. ASSUME NEW k \in Keys, Expire(k) \/ Reap(k) PROVE TypeOK'
  <2>1. NoRow \in Rows
    BY DEF NoRow, Rows
  <2>2. CASE Expire(k)
    BY <2>2 DEF Expire, TypeOK
  <2>3. CASE Reap(k)
    BY <2>1, <2>3 DEF Reap, TypeOK
  <2> QED BY <1>7, <2>2, <2>3
<1>8. CASE UNCHANGED vars
  BY <1>8 DEF vars, TypeOK
<1> QED BY <1>1, <1>2, <1>3, <1>4, <1>5, <1>6, <1>7, <1>8 DEF Next, TaskStep

-----------------------------------------------------------------------------

\* What the steps of a task amount to.
LEMMA StaysEffect ==
  ASSUME Inv, TypeOK', NEW t \in Tasks,
         \/ Abort(t) \/ Replay(t) \/ RefuseOrder(t) \/ RollBack(t)
         \/ ReuseLookup(t) \/ LoseRace(t) \/ LookUpWinner(t)
  PROVE  Stays(t)
<1> USE DEF Inv, TypeOK, Others, Owning, Stages
<1>1. CASE Abort(t)
  BY <1>1 DEF Abort, ReturnError, Answer, Stays
<1>2. CASE Replay(t)
  <2>1. reply'[t] = "ok" =>
          /\ row[req[t].key].status = "completed"
          /\ row[req[t].key].body = req[t].body
          /\ found'[t] = row[req[t].key].resource
    BY <1>2 DEF Replay, Answer
  <2>2. reply'[t] = "ok" => Fits(found'[t], req[t].body)
    BY <2>1 DEF RowSound
  <2>3. /\ UNCHANGED <<row, live, asked, owner, open, req>>
        /\ stage'[t] = "idle"
        /\ Others(t)
    BY <1>2 DEF Replay, Answer
  <2> QED BY <2>2, <2>3 DEF Stays
<1>3. CASE RefuseOrder(t)
  BY <1>3 DEF RefuseOrder, ReturnError, Answer, Stays
<1>4. CASE RollBack(t)
  BY <1>4 DEF RollBack, Goto, Stays, AtWork
<1>5. CASE ReuseLookup(t)
  BY <1>5 DEF ReuseLookup, Goto, Stays, AtWork
<1>6. CASE LoseRace(t)
  BY <1>6 DEF LoseRace, Goto, Stays, AtWork
<1>7. CASE LookUpWinner(t)
  BY <1>7 DEF LookUpWinner, Goto, Stays, AtWork
<1> QED BY <1>1, <1>2, <1>3, <1>4, <1>5, <1>6, <1>7

\* The winner's answer stays when the key could not be completed, and fills the
\* key otherwise.
LEMMA FillsEffect ==
  ASSUME Inv, TypeOK', NEW t \in Tasks,
         \/ CommitOrder(t) \/ CommitPayment(t) \/ CommitExisting(t)
         \/ AttachToExisting(t) \/ AnswerWithWinner(t)
  PROVE  Stays(t) \/ \E r \in Resources : Fills(t, r)
<1> USE DEF Inv, TypeOK, Others, Owning, Stages
<1>1. CASE CommitOrder(t)
  <2>1. PICK r \in Resources : Create(t, r)
    BY <1>1 DEF CommitOrder
  <2>2. Fills(t, r)
    BY <1>1, <2>1 DEF CommitOrder, Create, Committed, Answer, Goto, Fills, AtWork
  <2> QED BY <2>2
<1>2. CASE CommitPayment(t)
  <2>1. PICK r \in Resources : Create(t, r) /\ open' = r
    BY <1>2 DEF CommitPayment
  <2>2. Fills(t, r)
    BY <1>2, <2>1 DEF CommitPayment, Create, Committed, Answer, Goto, Fills, AtWork
  <2> QED BY <2>2
<1>a. ASSUME NEW r \in Resources, asked[r] \in PayBodies, req[t].body \in PayBodies
      PROVE  Fits(r, req[t].body)
  BY <1>a, BodiesAssumption DEF Fits
<1>3. CASE CommitExisting(t)
  <2>1. open \in Resources /\ Fits(open, req[t].body)
    BY <1>3, <1>a DEF CommitExisting, OpenIsPayment, AtWork
  <2>2. Fills(t, open)
    BY <1>3, <2>1 DEF CommitExisting, Committed, Answer, Goto, Fills, AtWork
  <2> QED BY <2>1, <2>2
<1>4. CASE AttachToExisting(t)
  <2>1. /\ found[t] \in Resources /\ Fits(found[t], req[t].body)
        /\ req[t].body \in PayBodies
    BY <1>4, <1>a DEF AttachToExisting, AtWork
  <2>2. Fills(t, found[t])
    BY <1>4, <2>1 DEF AttachToExisting, Answer, Fills
  <2> QED BY <2>1, <2>2
<1>5. CASE AnswerWithWinner(t)
  <2>1. /\ found[t] \in Resources /\ Fits(found[t], req[t].body)
        /\ req[t].body \in PayBodies
    BY <1>5, <1>a DEF AnswerWithWinner, AtWork
  <2>2. CASE row' = Completed(req[t].key, found[t])
    <3>1. Fills(t, found[t])
      BY <1>5, <2>1, <2>2 DEF AnswerWithWinner, Answer, Fills
    <3> QED BY <2>1, <3>1
  <2>3. CASE UNCHANGED row
    BY <1>5, <2>1, <2>3 DEF AnswerWithWinner, Answer, Stays
  <2> QED BY <1>5, <2>2, <2>3 DEF AnswerWithWinner
<1> QED BY <1>1, <1>2, <1>3, <1>4, <1>5

-----------------------------------------------------------------------------

LEMMA StaysInv ==
  ASSUME Inv, TypeOK', NEW t \in Tasks, Stays(t)
  PROVE  Inv'
<1> USE DEF Inv, Stays, Others
<1>0. Fits(open, req[t].body)' \/ open = Nothing \/ req[t].body \notin PayBodies
  BY BodiesAssumption DEF OpenIsPayment, Fits
<1>1. OwnerHolds' /\ SoleOwner'
  BY DEF OwnerHolds, SoleOwner
<1>2. AtWork'
  BY DEF AtWork, OpenIsPayment, TypeOK, Stages
<1>3. OpenIsPayment' /\ RowSound' /\ LiveOrderIsOwned' /\ CreatedIsReplayed'
  BY DEF OpenIsPayment, RowSound, LiveOrderIsOwned, CreatedIsReplayed, Fits
<1>4. Answered'
  BY DEF Answered, Fits
<1> QED BY <1>1, <1>2, <1>3, <1>4

LEMMA FillsInv ==
  ASSUME Inv, TypeOK', NEW t \in Tasks, NEW r \in Resources, Fills(t, r)
  PROVE  Inv'
<1> DEFINE k == req[t].key
           b == req[t].body
<1>1. /\ k \in Keys /\ b \in Bodies
      /\ live[k] /\ row[k].body = b /\ row[k].status = "pending"
  BY DEF Inv, TypeOK, OwnerHolds, Fills
<1>2. /\ row'[k] = [status |-> "completed", body |-> b, resource |-> r]
      /\ \A j \in Keys \ {k} : row'[j] = row[j]
  BY <1>1 DEF Fills, Completed, Inv, TypeOK
<1>b. req' = req
  BY DEF Fills
\* What fitted a request still does; and r fits this one.
<1>3. ASSUME NEW q, NEW c \in Bodies, Fits(q, c) PROVE Fits(q, c)'
  BY <1>3, NothingAssumption DEF Fits, Fills, Inv, TypeOK, Bodies
<1>4. Fits(r, b)'
  <2>1. CASE asked[r] = Nothing /\ asked' = [asked EXCEPT ![r] = b]
    BY <1>1, <1>b, <2>1 DEF Fits, Inv, TypeOK, Bodies
  <2>2. CASE UNCHANGED asked /\ Fits(r, b)
    BY <1>b, <2>2 DEF Fits
  <2> QED BY <2>1, <2>2 DEF Fills
<1>5. OwnerHolds'
  <2> SUFFICES ASSUME NEW u \in Tasks, stage'[u] \in Owning
               PROVE  /\ live'[req'[u].key]
                      /\ row'[req'[u].key].body = req'[u].body
                      /\ \/ row'[req'[u].key].status = "pending"
                         \/ stage'[u] = "fail"
                              /\ row'[req'[u].key].status = "completed"
    BY DEF OwnerHolds
  <2>1. CASE u = t
    BY <1>1, <1>2, <2>1 DEF Fills, Owning
  <2>2. CASE u # t
    <3>1. stage[u] \in Owning /\ req[u].key # k /\ req[u].key \in Keys
      BY <2>2 DEF Fills, Others, Inv, SoleOwner, TypeOK
    <3> QED BY <1>2, <2>2, <3>1 DEF Fills, Others, Inv, OwnerHolds
  <2> QED BY <2>1, <2>2
<1>6. SoleOwner'
  BY DEF SoleOwner, Fills, Others, Inv, Owning, Stages
<1>7. AtWork'
  <2>1. ASSUME NEW q \in Resources, asked[q] \in PayBodies
        PROVE  asked'[q] \in PayBodies
    BY <2>1, NothingAssumption DEF Fills, Inv, TypeOK, Bodies
  <2> QED BY <2>1 DEF AtWork, Fills, Others, Inv
<1>8. OpenIsPayment'
  <2>1. CASE open' = r /\ b \in PayBodies
    BY <1>4, <1>b, <2>1, BodiesAssumption DEF OpenIsPayment, Fits
  <2>2. CASE open' = open
    BY <2>2, NothingAssumption DEF OpenIsPayment, Fills, Inv, TypeOK, Bodies
  <2> QED BY <2>1, <2>2 DEF Fills
<1>9. RowSound'
  <2> SUFFICES ASSUME NEW j \in Keys, row'[j].status = "completed"
               PROVE  (row[j].body \in Bodies /\ Fits(row[j].resource, row[j].body))'
    BY DEF RowSound
  <2>1. CASE j = k
    BY <1>1, <1>2, <1>4, <1>b, <2>1 DEF Fits
  <2>2. CASE j # k
    <3>1. Fits(row[j].resource, row[j].body)
      BY <1>2, <2>2 DEF Inv, RowSound
    <3>2. row[j].body \in Bodies
      BY <1>2, <2>2 DEF Inv, RowSound
    <3> QED BY <1>2, <1>3, <2>2, <3>1, <3>2
  <2> QED BY <2>1, <2>2
<1>10. Answered'
  <2> SUFFICES ASSUME NEW u \in Tasks, reply'[u] = "ok"
               PROVE  Fits(found[u], req[u].body)'
    BY DEF Answered
  <2>1. CASE u = t
    BY <1>4, <2>1 DEF Fills
  <2>2. CASE u # t
    <3>1. req[u].body \in Bodies
      BY DEF Inv, TypeOK
    <3> QED BY <1>3, <2>2, <3>1 DEF Fills, Others, Inv, Answered
  <2> QED BY <2>1, <2>2
<1>11. CreatedIsReplayed'
  <2> SUFFICES ASSUME NEW q \in Resources, owner'[q] # Nothing
               PROVE  /\ live'[owner'[q]]
                      /\ row'[owner'[q]].status = "completed"
                      /\ row'[owner'[q]].resource = q
    BY DEF CreatedIsReplayed
  <2>1. CASE owner'[q] = owner[q]
    <3>1. owner[q] \in Keys /\ owner[q] # k
      BY <1>1, <2>1 DEF Inv, TypeOK, CreatedIsReplayed
    <3> QED BY <1>2, <2>1, <3>1 DEF Fills, Inv, CreatedIsReplayed
  <2>2. CASE owner'[q] # owner[q]
    <3>1. q = r /\ owner'[q] = k
      BY <2>2 DEF Fills, Inv, TypeOK
    <3> QED BY <1>1, <1>2, <3>1 DEF Fills
  <2> QED BY <2>1, <2>2
<1>12. LiveOrderIsOwned'
  <2> SUFFICES ASSUME NEW j \in Keys, live[j], row'[j].status = "completed",
                      row'[j].body \in OrderBodies
               PROVE  owner'[row'[j].resource] = j
    BY DEF LiveOrderIsOwned, Fills
  <2>1. CASE j = k
    <3>1. owner' = [owner EXCEPT ![r] = k]
      BY <1>2, <2>1, BodiesAssumption DEF Fills
    <3> QED BY <1>2, <2>1, <3>1 DEF Inv, TypeOK
  <2>2. CASE j # k
    <3>1. row'[j] = row[j] /\ owner[row[j].resource] = j
      BY <1>2, <2>2 DEF Inv, LiveOrderIsOwned
    <3>2. asked[row[j].resource] # Nothing /\ row[j].resource \in Resources
      BY <2>2, <3>1, NothingAssumption DEF Inv, RowSound, Fits, Bodies
    <3>3. owner'[row[j].resource] = owner[row[j].resource]
      BY <1>1, <3>2 DEF Fills, Inv, TypeOK
    <3> QED BY <3>1, <3>3
  <2> QED BY <2>1, <2>2
<1> QED BY <1>5, <1>6, <1>7, <1>8, <1>9, <1>10, <1>11, <1>12 DEF Inv

-----------------------------------------------------------------------------

LEMMA ReserveInv ==
  ASSUME Inv, TypeOK', NEW t \in Tasks, NEW k \in Keys, NEW b \in Bodies,
         Reserve(t, k, b)
  PROVE  Inv'
<1>1. /\ req'[t] = [key |-> k, body |-> b]
      /\ stage'[t] \in {"reserved", "replay"}
      /\ reply'[t] = "none"
      /\ \A u \in Tasks \ {t} : /\ stage'[u] = stage[u] /\ req'[u] = req[u]
                               /\ found'[u] = found[u] /\ reply'[u] = reply[u]
  BY DEF Reserve, Inv, TypeOK
<1>2. UNCHANGED <<asked, owner, open>>
  BY DEF Reserve
<1>3. AtWork' /\ OpenIsPayment' /\ Answered'
  BY <1>1, <1>2 DEF AtWork, OpenIsPayment, Answered, Fits, Inv
<1>4. CASE Reservable(k)
  <2>1. /\ row'[k] = [status |-> "pending", body |-> b, resource |-> Nothing]
        /\ live'[k] /\ stage'[t] = "reserved"
        /\ \A j \in Keys \ {k} : row'[j] = row[j] /\ live'[j] = live[j]
    BY <1>4 DEF Reserve, Inv, TypeOK
  \* No request at work holds k, and nothing was made under it.
  <2>2. /\ \A u \in Tasks : stage[u] \in Owning => req[u].key # k
        /\ \A r \in Resources : owner[r] # k
    BY <1>4, NothingAssumption
    DEF Reservable, Inv, OwnerHolds, CreatedIsReplayed
  <2>3. OwnerHolds'
    <3> SUFFICES ASSUME NEW u \in Tasks, stage'[u] \in Owning
                 PROVE  /\ live'[req'[u].key]
                        /\ row'[req'[u].key].body = req'[u].body
                        /\ \/ row'[req'[u].key].status = "pending"
                           \/ stage'[u] = "fail"
                                /\ row'[req'[u].key].status = "completed"
      BY DEF OwnerHolds
    <3>1. CASE u = t
      BY <1>1, <2>1, <3>1
    <3>2. CASE u # t
      <4>1. /\ stage[u] \in Owning /\ stage'[u] = stage[u] /\ req'[u] = req[u]
            /\ req[u].key \in Keys \ {k}
        BY <1>1, <2>2, <3>2 DEF Inv, TypeOK
      <4> QED BY <2>1, <4>1 DEF Inv, OwnerHolds
    <3> QED BY <3>1, <3>2
  <2>5. SoleOwner'
    BY <1>1, <2>2 DEF SoleOwner, Inv
  <2>4. RowSound' /\ LiveOrderIsOwned'
    BY <1>2, <2>1 DEF RowSound, LiveOrderIsOwned, Fits, Inv
  <2>6. CreatedIsReplayed'
    BY <1>2, <2>1, <2>2 DEF CreatedIsReplayed, Inv, TypeOK
  <2> QED BY <1>3, <2>3, <2>4, <2>5, <2>6 DEF Inv
<1>5. CASE ~Reservable(k)
  <2>1. UNCHANGED <<row, live>> /\ stage'[t] = "replay"
    BY <1>5 DEF Reserve, Inv, TypeOK
  <2>2. OwnerHolds' /\ SoleOwner'
    BY <1>1, <2>1 DEF OwnerHolds, SoleOwner, Inv, Owning
  <2>3. RowSound' /\ LiveOrderIsOwned' /\ CreatedIsReplayed'
    BY <1>2, <2>1 DEF RowSound, LiveOrderIsOwned, CreatedIsReplayed, Fits, Inv
  <2> QED BY <1>3, <2>2, <2>3 DEF Inv
<1> QED BY <1>4, <1>5

\* A failure gives the reservation up; it does not touch a completed key.
LEMMA FailInv ==
  ASSUME Inv, TypeOK', NEW t \in Tasks, FailKey(t)
  PROVE  Inv'
<1> DEFINE k == req[t].key
<1>1. /\ UNCHANGED <<live, asked, owner, open, req>>
      /\ stage'[t] = "idle" /\ reply'[t] = "none" /\ Others(t)
      /\ stage[t] \in Owning /\ k \in Keys
  BY DEF FailKey, ReturnError, Answer, Others, Inv, TypeOK, Owning, Stages
<1>2. \A j \in Keys :
        \/ row'[j] = row[j]
        \/ j = k /\ row[j].status = "pending" /\ row'[j].status = "failed"
  BY DEF FailKey, Failed, Inv, TypeOK
<1>3. OwnerHolds'
  <2> SUFFICES ASSUME NEW u \in Tasks, stage'[u] \in Owning
               PROVE  u # t /\ row'[req[u].key] = row[req[u].key]
    BY <1>1 DEF OwnerHolds, Others, Inv
  <2>1. u # t /\ stage[u] \in Owning
    BY <1>1 DEF Others, Owning
  <2>2. req[u].key # k /\ req[u].key \in Keys
    BY <1>1, <2>1 DEF Inv, SoleOwner, TypeOK
  <2> QED BY <1>2, <2>1, <2>2
<1>4. SoleOwner' /\ AtWork' /\ Answered'
  BY <1>1 DEF SoleOwner, AtWork, Answered, Fits, Others, Owning, Inv
<1>5. RowSound' /\ LiveOrderIsOwned' /\ OpenIsPayment'
  BY <1>1, <1>2 DEF RowSound, LiveOrderIsOwned, OpenIsPayment, Fits, Inv
<1>6. CreatedIsReplayed'
  <2>1. \A j \in Keys : row[j].status = "completed" => row'[j] = row[j]
    BY <1>2
  <2> QED BY <1>1, <2>1 DEF CreatedIsReplayed, Inv, TypeOK
<1> QED BY <1>3, <1>4, <1>5, <1>6 DEF Inv

\* Staff, the clock and the reaper.
LEMMA OutsideInv ==
  ASSUME Inv, TypeOK', Decide \/ \E k \in Keys : Expire(k) \/ Reap(k)
  PROVE  Inv'
<1>1. CASE Decide
  BY <1>1
  DEF Decide, Inv, OwnerHolds, SoleOwner, AtWork, OpenIsPayment, RowSound,
              LiveOrderIsOwned, Answered, CreatedIsReplayed, Fits
<1>2. ASSUME NEW k \in Keys, Expire(k) PROVE Inv'
  <2>1. /\ UNCHANGED <<row, asked, open, stage, req, found, reply>>
        /\ \A j \in Keys \ {k} : live'[j] = live[j]
        /\ \A t \in Tasks : stage[t] \in Owning => req[t].key # k
        /\ \A r \in Resources :
             \/ owner[r] = k /\ owner'[r] = Nothing
             \/ owner[r] # k /\ owner'[r] = owner[r]
    BY <1>2 DEF Expire, Inv, TypeOK
  <2>2. OwnerHolds' /\ SoleOwner'
    BY <2>1 DEF OwnerHolds, SoleOwner, Inv, TypeOK
  <2>5. LiveOrderIsOwned'
    <3> SUFFICES ASSUME NEW j \in Keys, live'[j], row[j].status = "completed",
                        row[j].body \in OrderBodies
                 PROVE  owner'[row[j].resource] = j
      BY <2>1 DEF LiveOrderIsOwned
    <3>1. j # k /\ live[j]
      BY <1>2 DEF Expire, Inv, TypeOK
    <3>2. owner[row[j].resource] = j /\ row[j].resource \in Resources
      BY <3>1 DEF Inv, LiveOrderIsOwned, RowSound, Fits
    <3> QED BY <2>1, <3>1, <3>2
  <2>3. CreatedIsReplayed'
    BY <2>1 DEF CreatedIsReplayed, Inv, TypeOK
  <2>4. AtWork' /\ OpenIsPayment' /\ RowSound' /\ Answered'
    BY <2>1 DEF AtWork, OpenIsPayment, RowSound, Answered, Fits, Inv
  <2> QED BY <2>2, <2>3, <2>4, <2>5 DEF Inv
<1>3. ASSUME NEW k \in Keys, Reap(k) PROVE Inv'
  <2>1. /\ UNCHANGED <<live, asked, owner, open, stage, req, found, reply>>
        /\ ~live[k] /\ row'[k] = NoRow
        /\ \A j \in Keys \ {k} : row'[j] = row[j]
    BY <1>3 DEF Reap, Inv, TypeOK
  <2>2. OwnerHolds' /\ SoleOwner'
    BY <2>1 DEF OwnerHolds, SoleOwner, Inv, TypeOK
  <2>3. CreatedIsReplayed' /\ RowSound' /\ LiveOrderIsOwned'
    BY <2>1
    DEF CreatedIsReplayed, RowSound, LiveOrderIsOwned, Fits, NoRow, Inv, TypeOK
  <2>4. AtWork' /\ OpenIsPayment' /\ Answered'
    BY <2>1 DEF AtWork, OpenIsPayment, Answered, Fits, Inv
  <2> QED BY <2>2, <2>3, <2>4 DEF Inv
<1> QED BY <1>1, <1>2, <1>3

-----------------------------------------------------------------------------

\* Every step is one of the steps above.
LEMMA StepCases ==
  ASSUME [Next]_vars
  PROVE  \/ \E t \in Tasks :
              \/ \E k \in Keys, b \in Bodies : Reserve(t, k, b)
              \/ FailKey(t)
              \/ \/ Abort(t) \/ Replay(t) \/ RefuseOrder(t) \/ RollBack(t)
                 \/ ReuseLookup(t) \/ LoseRace(t) \/ LookUpWinner(t)
              \/ \/ CommitOrder(t) \/ CommitPayment(t) \/ CommitExisting(t)
                 \/ AttachToExisting(t) \/ AnswerWithWinner(t)
         \/ Decide \/ \E k \in Keys : Expire(k) \/ Reap(k)
         \/ UNCHANGED vars
BY DEF Next, TaskStep, PlaceOrder, InitiatePayment

LEMMA InvStep == Inv /\ [Next]_vars => Inv'
<1> SUFFICES ASSUME Inv, [Next]_vars PROVE Inv'
  OBVIOUS
<1>1. TypeOK'
  BY TypeStep DEF Inv
<1>2. CASE UNCHANGED vars
  BY <1>2 DEF vars, Inv, TypeOK, OwnerHolds, SoleOwner, AtWork, OpenIsPayment,
              RowSound, LiveOrderIsOwned, Answered, CreatedIsReplayed, Fits
<1> QED BY <1>1, <1>2, StepCases, StaysEffect, FillsEffect, StaysInv, FillsInv,
           ReserveInv, FailInv, OutsideInv

LEMMA InvAlways == Spec => []Inv
BY InitInv, InvStep, PTL DEF Spec

\* Rows and requests keep their types.
THEOREM TypeCorrect == Spec => []TypeOK
<1>1. Inv => TypeOK
  BY DEF Inv
<1> QED BY <1>1, InvAlways, PTL

\* Whatever was created under a key that has not expired is what the key replays,
\* wherever the request that created it stopped.
THEOREM RetryFindsCreated == Spec => []CreatedIsReplayed
<1>1. Inv => CreatedIsReplayed
  BY DEF Inv
<1> QED BY <1>1, InvAlways, PTL

\* A request is answered only with what it asked for.
THEOREM AnswersMatch == Spec => []AnswerMatchesRequest
<1>1. Inv => AnswerMatchesRequest
  BY DEF Inv, Answered, Fits, AnswerMatchesRequest
<1> QED BY <1>1, InvAlways, PTL

\* An order is replayed only within the lifetime of the reservation that made it.
THEOREM ReplayDiesWithKey == Spec => ReplayedWithinLifetime
<1> DEFINE A == \A t \in Tasks :
                  stage[t] = "replay" /\ reply'[t] = "ok" /\ req[t].body \in OrderBodies
                    => owner[found'[t]] = req[t].key
<1>1. ASSUME Inv, [Next]_vars PROVE A
  <2> SUFFICES ASSUME NEW t \in Tasks, stage[t] = "replay", reply'[t] = "ok",
                      req[t].body \in OrderBodies
               PROVE  owner[found'[t]] = req[t].key
    OBVIOUS
  <2>0. reply[t] # "ok" /\ req[t].key \in Keys
    BY <1>1 DEF Inv, AtWork, TypeOK
  <2>1. CASE Replay(t)
    BY <1>1, <2>0, <2>1 DEF Replay, Answer, Visible, Inv, TypeOK, LiveOrderIsOwned
  <2>2. ASSUME NEW u \in Tasks \ {t}, TaskStep(u) PROVE reply'[t] = reply[t]
    BY <1>1, <2>2
    DEF TaskStep, Reserve, Replay, PlaceOrder, RefuseOrder, CommitOrder, RollBack,
        FailKey, InitiatePayment, ReuseLookup, AttachToExisting, CommitPayment,
        CommitExisting, LoseRace, LookUpWinner, AnswerWithWinner, Abort,
        ReturnError, Committed, Answer, Goto, Inv, TypeOK
  <2>3. CASE Decide \/ (\E k \in Keys : Expire(k) \/ Reap(k)) \/ UNCHANGED vars
    BY <2>0, <2>3 DEF Decide, Expire, Reap, vars
  <2>4. CASE TaskStep(t) /\ ~Replay(t)
    BY <1>1, <2>0, <2>4
    DEF TaskStep, Reserve, PlaceOrder, RefuseOrder, CommitOrder, RollBack, FailKey,
        InitiatePayment, ReuseLookup, AttachToExisting, CommitPayment,
        CommitExisting, LoseRace, LookUpWinner, AnswerWithWinner, Abort,
        ReturnError, Answer, Inv, TypeOK
  <2> QED BY <1>1, <2>0, <2>1, <2>2, <2>3, <2>4 DEF Next
<1>2. Spec => [][A]_vars
  BY <1>1, InvAlways, PTL DEF Spec
<1> QED BY <1>2 DEF ReplayedWithinLifetime

-----------------------------------------------------------------------------

LEMMA ContractInit == Init => Contract!Init
BY DEF Init, Contract!Init, Slot, Made, Reservable, NoRow, Contract!Free

\* The slot of a key is what its row says while the row is live.
LEMMA ContractStep ==
  Inv /\ [Next]_vars => [Contract!Next]_<<Slot, Made>>
<1> SUFFICES ASSUME Inv, [Next]_vars
             PROVE  Contract!Next \/ (Slot' = Slot /\ Made' = Made)
  OBVIOUS
<1> USE DEF Contract!Free, Contract!Taken, Contract!Filled
<1>1. TypeOK'
  BY TypeStep DEF Inv
<1>2. ASSUME NEW t \in Tasks, Stays(t) PROVE Slot' = Slot /\ Made' = Made
  BY <1>2 DEF Stays, Slot, Made, Reservable
<1>3. ASSUME NEW t \in Tasks, NEW r \in Resources, Fills(t, r)
      PROVE  Contract!Next
  <2> DEFINE k == req[t].key
  <2>1. /\ k \in Keys /\ live[k] /\ row[k].status = "pending"
        /\ req[t].body \in Bodies
    BY <1>3 DEF Fills, Inv, OwnerHolds, TypeOK
  <2>2. Slot[k] = Contract!Taken
    BY <2>1 DEF Slot, Reservable
  <2>3. Slot' = [Slot EXCEPT ![k] = Contract!Filled(r)]
    BY <1>3, <2>1 DEF Fills, Completed, Slot, Reservable, Inv, TypeOK
  <2>4. CASE asked[r] = Nothing /\ asked' = [asked EXCEPT ![r] = req[t].body]
    <3>1. r \notin Made /\ Made' = Made \cup {r}
      BY <2>1, <2>4, NothingAssumption DEF Made, Inv, TypeOK
    <3> QED BY <2>1, <2>2, <2>3, <3>1 DEF Contract!Next, Contract!Make
  <2>5. CASE UNCHANGED asked /\ Fits(r, req[t].body)
    <3>1. r \in Made /\ Made' = Made
      BY <2>1, <2>5, NothingAssumption DEF Made, Fits, Bodies
    <3> QED BY <2>1, <2>2, <2>3, <3>1 DEF Contract!Next, Contract!Attach
  <2> QED BY <1>3, <2>4, <2>5 DEF Fills
<1>4. ASSUME NEW t \in Tasks, NEW k \in Keys, NEW b \in Bodies, Reserve(t, k, b)
      PROVE  Contract!Next \/ (Slot' = Slot /\ Made' = Made)
  <2>1. Made' = Made
    BY <1>4 DEF Reserve, Made
  <2>2. CASE Reservable(k)
    <3>1. Slot[k] = Contract!Free
      BY <2>2 DEF Slot
    <3>2. Slot' = [Slot EXCEPT ![k] = Contract!Taken]
      <4>1. /\ row'[k] = [status |-> "pending", body |-> b, resource |-> Nothing]
            /\ live'[k]
            /\ \A j \in Keys \ {k} : row'[j] = row[j] /\ live'[j] = live[j]
        BY <1>4, <2>2 DEF Reserve, Inv, TypeOK
      <4>2. Slot'[k] = Contract!Taken
        BY <4>1 DEF Slot, Reservable
      <4>3. \A j \in Keys \ {k} : Slot'[j] = Slot[j]
        BY <4>1 DEF Slot, Reservable
      <4>4. Slot \in [Keys -> {Slot[j] : j \in Keys}]
            /\ Slot' = [j \in Keys |-> Slot'[j]]
        BY DEF Slot
      <4> QED BY <4>2, <4>3, <4>4
    <3> QED BY <2>1, <3>1, <3>2 DEF Contract!Next, Contract!Take
  <2>3. CASE ~Reservable(k)
    BY <1>4, <2>1, <2>3 DEF Reserve, Slot, Reservable
  <2> QED BY <2>2, <2>3
<1>5. ASSUME NEW t \in Tasks, FailKey(t) PROVE Slot' = Slot /\ Made' = Made
  BY <1>5 DEF FailKey, Failed, Slot, Made, Reservable, Inv, TypeOK
<1>6. CASE Decide \/ UNCHANGED vars
  BY <1>6 DEF Decide, vars, Slot, Made, Reservable
<1>7. ASSUME NEW k \in Keys, Expire(k) PROVE Contract!Next
  <2>1. Slot' = [Slot EXCEPT ![k] = Contract!Free]
    BY <1>7 DEF Expire, Slot, Reservable, Inv, TypeOK
  <2> QED BY <1>7, <2>1 DEF Expire, Made, Contract!Next, Contract!Forget
<1>8. ASSUME NEW k \in Keys, Reap(k) PROVE Slot' = Slot /\ Made' = Made
  BY <1>8 DEF Reap, Slot, Made, Reservable, NoRow, Inv, TypeOK
<1> QED BY <1>1, <1>2, <1>3, <1>4, <1>5, <1>6, <1>7, <1>8,
           StepCases, StaysEffect, FillsEffect

\* The idempotency keys implement OnceOnly: a request that arrives twice acts
\* once, and the reaper is invisible.
THEOREM ActsOnce == Spec => ImplementsOnceOnly
<1>1. Spec => Contract!Init /\ [][Contract!Next]_<<Slot, Made>>
  BY ContractInit, ContractStep, InvAlways, PTL DEF Spec
<1> QED BY <1>1 DEF ImplementsOnceOnly, Contract!Spec

-----------------------------------------------------------------------------
(***************************************************************************)
(* What strands a key.  A key is answered as in progress until it expires, *)
(* so one that nobody works on locks the guest out of its own request.     *)
(***************************************************************************)

\* A key that is live and pending is some request's at work.
PendingIsHeld ==
  \A k \in Keys :
    live[k] /\ row[k].status = "pending" =>
      \E t \in Tasks : stage[t] \in Owning /\ req[t].key = k

\* The three ways to leave a reservation behind: PlaceOrder returns early, the
\* request stops, or the key cannot be completed although its answer is there.
LeavesKeyBehind(t) ==
  RefuseOrder(t) \/ Abort(t) \/ (AnswerWithWinner(t) /\ UNCHANGED row)

NobodyLeavesKeyBehind == \A t \in Tasks : ~LeavesKeyBehind(t)

\* A request at work goes on working, or its key is no longer pending.
LEMMA HolderStays ==
  ASSUME Inv, NEW t \in Tasks, TaskStep(t), stage[t] \in Owning, ~LeavesKeyBehind(t),
         row'[req[t].key].status = "pending"
  PROVE  stage'[t] \in Owning /\ req'[t] = req[t]
<1>0. /\ req[t].key \in Keys /\ stage[t] # "idle" /\ stage[t] # "replay"
      /\ row \in [Keys -> Rows] /\ stage \in [Tasks -> Stages]
  BY DEF Inv, TypeOK, Owning, Stages
<1>1. ASSUME NEW r, row' = Completed(req[t].key, r) PROVE FALSE
  BY <1>0, <1>1 DEF Completed
<1>2. ~\E k \in Keys, b \in Bodies : Reserve(t, k, b)
  BY <1>0 DEF Reserve
<1>3. ~Replay(t)
  BY <1>0 DEF Replay
<1>4. ~CommitOrder(t) /\ ~CommitPayment(t)
  BY <1>1 DEF CommitOrder, CommitPayment, Create
<1>5. ~AttachToExisting(t) /\ ~CommitExisting(t)
  BY <1>1 DEF AttachToExisting, CommitExisting
<1>6. ~AnswerWithWinner(t)
  BY <1>1 DEF AnswerWithWinner, LeavesKeyBehind
<1>7. ~FailKey(t)
  BY <1>0 DEF FailKey, Failed
<1>8. \/ RollBack(t) /\ Goto(t, "fail")
      \/ ReuseLookup(t) /\ (Goto(t, "attach") \/ Goto(t, "create"))
      \/ LoseRace(t) /\ Goto(t, "lookup")
      \/ LookUpWinner(t) /\ (Goto(t, "fallback") \/ Goto(t, "fail"))
  BY <1>2, <1>3, <1>4, <1>5, <1>6, <1>7
     DEF TaskStep, PlaceOrder, InitiatePayment, LeavesKeyBehind, RollBack, ReuseLookup,
         LoseRace, LookUpWinner
<1>9. \E next \in Owning : Goto(t, next)
  BY <1>8 DEF Owning, Stages
<1> QED BY <1>0, <1>9 DEF Goto

\* A step of a task changes no other task and makes no key pending but the one it
\* reserves.
LEMMA OthersKeepKeys ==
  ASSUME Inv, NEW t \in Tasks, TaskStep(t), NEW k \in Keys,
         live'[k], row'[k].status = "pending"
  PROVE  /\ \A u \in Tasks \ {t} : stage'[u] = stage[u] /\ req'[u] = req[u]
         /\ \/ live[k] /\ row[k].status = "pending"
            \/ stage'[t] \in Owning /\ req'[t].key = k
<1>0. /\ row \in [Keys -> Rows] /\ live \in [Keys -> BOOLEAN]
      /\ stage \in [Tasks -> Stages] /\ req \in [Tasks -> [key : Keys, body : Bodies]]
  BY DEF Inv, TypeOK
<1> DEFINE Kept == \A u \in Tasks \ {t} : stage'[u] = stage[u] /\ req'[u] = req[u]
           Was == live[k] /\ row[k].status = "pending"
           Mine == stage'[t] \in Owning /\ req'[t].key = k
<1> SUFFICES Kept /\ (Was \/ Mine)
  OBVIOUS
<1>1. ASSUME NEW j \in Keys, NEW b \in Bodies, Reserve(t, j, b) PROVE Kept /\ (Was \/ Mine)
  <2>1. Kept
    BY <1>0, <1>1 DEF Reserve
  <2>2. CASE k = j /\ Reservable(j)
    BY <1>0, <1>1, <2>2 DEF Reserve, Owning, Stages
  <2>3. CASE ~(k = j /\ Reservable(j))
    BY <1>0, <1>1, <2>3 DEF Reserve
  <2> QED BY <2>1, <2>2, <2>3
<1>2. ASSUME NEW verdict, Answer(t, verdict) PROVE Kept
  BY <1>0, <1>2 DEF Answer
<1>3. ASSUME NEW s, Goto(t, s) PROVE Kept
  BY <1>0, <1>3 DEF Goto
<1>4. ASSUME NEW j, NEW r, row' = Completed(j, r), live' = live PROVE Was
  BY <1>0, <1>4 DEF Completed
<1>5. ASSUME NEW j, row' = Failed(j), live' = live PROVE Was
  BY <1>0, <1>5 DEF Failed
<1>6. ASSUME Replay(t) \/ RefuseOrder(t) \/ Abort(t) PROVE Kept /\ Was
  <2>1. Kept
    BY <1>2, <1>6 DEF Replay, RefuseOrder, Abort, ReturnError
  <2> QED BY <1>6, <2>1 DEF Replay, RefuseOrder, Abort
<1>7. ASSUME CommitOrder(t) \/ CommitPayment(t) \/ CommitExisting(t) PROVE Kept /\ Was
  <2>1. Kept
    BY <1>2, <1>3, <1>7 DEF CommitOrder, CommitPayment, CommitExisting, Committed
  <2>2. live' = live /\ \E r : row' = Completed(req[t].key, r)
    BY <1>7 DEF CommitOrder, CommitPayment, CommitExisting, Create
  <2> QED BY <1>4, <2>1, <2>2
<1>8. ASSUME RollBack(t) \/ ReuseLookup(t) \/ LoseRace(t) \/ LookUpWinner(t)
      PROVE Kept /\ Was
  <2>1. Kept
    BY <1>3, <1>8 DEF RollBack, ReuseLookup, LoseRace, LookUpWinner
  <2> QED BY <1>8, <2>1 DEF RollBack, ReuseLookup, LoseRace, LookUpWinner
<1>9. ASSUME FailKey(t) PROVE Kept /\ Was
  BY <1>2, <1>5, <1>9 DEF FailKey, ReturnError
<1>10. ASSUME AttachToExisting(t) \/ AnswerWithWinner(t) PROVE Kept /\ Was
  <2>1. Kept
    BY <1>2, <1>10 DEF AttachToExisting, AnswerWithWinner
  <2>2. live' = live /\ (row' = row \/ row' = Completed(req[t].key, found[t]))
    BY <1>10 DEF AttachToExisting, AnswerWithWinner
  <2> QED BY <1>4, <2>1, <2>2
<1> HIDE DEF Kept, Was, Mine
<1> QED BY <1>1, <1>6, <1>7, <1>8, <1>9, <1>10 DEF TaskStep, PlaceOrder, InitiatePayment

LEMMA PendingStep ==
  Inv /\ PendingIsHeld /\ [Next /\ NobodyLeavesKeyBehind]_vars => PendingIsHeld'
<1> SUFFICES ASSUME Inv, PendingIsHeld, [Next /\ NobodyLeavesKeyBehind]_vars,
                    NEW k \in Keys, live'[k], row'[k].status = "pending"
             PROVE  \E t \in Tasks : stage'[t] \in Owning /\ req'[t].key = k
  BY DEF PendingIsHeld
<1>1. ASSUME NEW t \in Tasks, TaskStep(t), ~LeavesKeyBehind(t)
      PROVE  \E u \in Tasks : stage'[u] \in Owning /\ req'[u].key = k
  <2>1. CASE live[k] /\ row[k].status = "pending"
    <3>1. PICK u \in Tasks : stage[u] \in Owning /\ req[u].key = k
      BY <2>1 DEF PendingIsHeld
    <3>2. CASE u = t
      BY <1>1, <3>1, <3>2, HolderStays
    <3>3. CASE u # t
      BY <1>1, <3>1, <3>3, OthersKeepKeys
    <3> QED BY <3>2, <3>3
  <2> QED BY <1>1, <2>1, OthersKeepKeys
<1>2. CASE Decide \/ UNCHANGED vars
  BY <1>2 DEF Decide, vars, PendingIsHeld
<1>3. ASSUME NEW j \in Keys, Expire(j) \/ Reap(j)
      PROVE  \E t \in Tasks : stage'[t] \in Owning /\ req'[t].key = k
  <2>1. live[k] /\ row[k].status = "pending" /\ UNCHANGED <<stage, req>>
    BY <1>3 DEF Expire, Reap, NoRow, Inv, TypeOK
  <2> QED BY <2>1 DEF PendingIsHeld
<1> QED BY <1>1, <1>2, <1>3 DEF Next, NobodyLeavesKeyBehind

\* A key is pending with nobody at work on it only after an order was refused before
\* its transaction, a request stopped, or a payment was answered without completing
\* the key; a commit whose acknowledgement is lost, a lost race and a roll-back strand
\* no key (order.go, placeOrder; payment.go, initiatePayment).
THEOREM WhatStrandsAKey ==
  Spec /\ [][NobodyLeavesKeyBehind]_vars => []PendingIsHeld
<1>1. Init => PendingIsHeld
  BY DEF Init, PendingIsHeld, NoRow
<1> QED BY <1>1, PendingStep, InvAlways, PTL DEF Spec

=============================================================================
