------------------------------ MODULE ShiftProofs ------------------------------
(***************************************************************************)
(* Proofs about Shift and the StaffAccess it contains, for any tokens,     *)
(* requests, orders and calls, and any number of changes of the staff row. *)
(*                                                                         *)
(* That a revocation is final rests on what a token whose authority is     *)
(* over looks like (OverShows): either the staff row has gone on to a      *)
(* newer version than its session carries, or its row has ended in strict  *)
(* mode, and neither is ever undone.  A request that passed the first of   *)
(* the two checks with such a token fails the second (Requesting).  An     *)
(* order keeps to its table because what a request is about to write       *)
(* agrees with what it read (JobsAgree) and is written only over that.     *)
(***************************************************************************)
EXTENDS Shift, TLAPS

Request == [pc : {"idle", "known", "current", "accepted", "signing_off"},
            token : Tokens \cup {Nothing}, late : BOOLEAN]

Shape ==
  /\ AccessTypeOK
  /\ request \in [Requests -> Request]
  /\ staff.is.pin <= staff.is.token

\* No session carries a version that the staff row has not had.
NeverAhead ==
  \A t \in Tokens : login[t] # "none" => session[t].is.token <= staff.is.token

\* How it shows that the authority of a token is over.
OverShows ==
  \A t \in over :
    /\ login[t] # "none"
    /\ \/ session[t].is.token < staff.is.token
       \/ strict /\ login[t] = "open" /\ session[t].row # "live"

Requesting ==
  \A r \in Requests : request[r].pc # "idle" =>
    /\ request[r].token \in Tokens /\ login[request[r].token] = "open"
    /\ request[r].late => request[r].token \in over
    /\ request[r].pc = "current" /\ request[r].late =>
         strict /\ session[request[r].token].row # "live"
    /\ request[r].pc = "signing_off" => session[request[r].token].row # "live"

AccessInv == Shape /\ NeverAhead /\ OverShows /\ Requesting /\ RevocationIsFinal

-----------------------------------------------------------------------------
LEMMA NoRequestShaped == NoRequest \in Request /\ NoRequest.pc = "idle"
BY DEF NoRequest, Request

\* One request moves on; rows, logins and what is over stay.
LEMMA RequestMoved ==
  ASSUME AccessInv, NEW r \in Requests, NEW x \in Request,
         request' = [request EXCEPT ![r] = x],
         UNCHANGED <<strict, staff, login, session, over>>,
         cached' \subseteq Tokens, tracked' \subseteq Tokens, UNCHANGED manager,
         x.pc # "idle" =>
           /\ x.token \in Tokens /\ login[x.token] = "open"
           /\ x.late => x.token \in over
           /\ x.pc = "current" /\ x.late => strict /\ session[x.token].row # "live"
           /\ x.pc = "signing_off" => session[x.token].row # "live"
           /\ x.pc \in {"accepted", "signing_off"} => ~x.late
  PROVE  AccessInv'
<1>1. \A u \in Requests : request'[u] = IF u = r THEN x ELSE request[u]
  BY DEF AccessInv, Shape
<1>2. request' \in [Requests -> Request]
  BY DEF AccessInv, Shape
<1>3. Shape'
  BY <1>2 DEF AccessInv, Shape, AccessTypeOK, Request
<1>4. NeverAhead' /\ OverShows'
  BY DEF AccessInv, NeverAhead, OverShows
<1>5. Requesting'
  BY <1>1 DEF AccessInv, Requesting
<1>6. RevocationIsFinal'
  BY <1>1 DEF AccessInv, RevocationIsFinal
<1> QED BY <1>3, <1>4, <1>5, <1>6 DEF AccessInv

\* A request stays, is over, or has just ended the session it signs off.
Stays(r) ==
  \/ request'[r] = request[r]
  \/ request'[r] = NoRequest
  \/ /\ request[r].pc = "accepted" /\ request'[r] = [request[r] EXCEPT !.pc = "signing_off"]
     /\ session'[request[r].token].row # "live"

\* Rows, logins and the staff row change as they may.
LEMMA RowsMoved ==
  ASSUME AccessInv, strict' = strict,
         request' \in [Requests -> Request], \A r \in Requests : Stays(r),
         staff' \in Staff, staff'.is.pin <= staff'.is.token,
         staff'.is.token >= staff.is.token,
         login' \in [Tokens -> {"none", "verified", "inserted", "stored", "open", "lost"}],
         session' \in [Tokens -> Session], manager' \in Manager,
         cached' \subseteq Tokens, tracked' \subseteq Tokens, over' \subseteq Tokens,
         over \subseteq over',
         \A t \in Tokens : login[t] = "open" => login'[t] = "open",
         \A t \in Tokens : login[t] # "none" =>
           login'[t] # "none" /\ session'[t].is = session[t].is,
         \A t \in Tokens : login[t] = "none" =>
           login'[t] = "none" \/ session'[t].is.token <= staff'.is.token,
         \A t \in Tokens : login[t] = "open" /\ session[t].row # "live"
           => session'[t].row # "live",
         \A t \in over' \ over :
           /\ login'[t] # "none"
           /\ \/ session'[t].is.token < staff'.is.token
              \/ strict /\ login'[t] = "open" /\ session'[t].row # "live"
  PROVE  AccessInv'
<1>1. staff.is.token \in Nat /\ staff'.is.token \in Nat
  BY StaffAssumption DEF AccessInv, Shape, AccessTypeOK, Staff, Versions
<1>2. \A t \in Tokens : session[t].is.token \in Nat /\ session'[t].is.token \in Nat
  BY StaffAssumption DEF AccessInv, Shape, AccessTypeOK, Session, Versions
<1>3. Shape'
  BY DEF AccessInv, Shape, AccessTypeOK, Request
<1>4. NeverAhead'
  BY <1>1, <1>2 DEF AccessInv, NeverAhead
<1>5. OverShows'
  <2> SUFFICES ASSUME NEW t \in over'
               PROVE  /\ login'[t] # "none"
                      /\ \/ session'[t].is.token < staff'.is.token
                         \/ strict /\ login'[t] = "open" /\ session'[t].row # "live"
    BY DEF OverShows
  <2>1. t \in Tokens
    OBVIOUS
  <2>2. CASE t \in over
    BY <1>1, <1>2, <2>1, <2>2 DEF AccessInv, OverShows
  <2>3. CASE t \notin over
    BY <2>3
  <2> QED BY <2>2, <2>3
<1>6. ASSUME NEW r \in Requests, request'[r].pc # "idle"
      PROVE  /\ request'[r].token \in Tokens /\ login'[request'[r].token] = "open"
             /\ request'[r].late => request'[r].token \in over'
             /\ request'[r].pc = "current" /\ request'[r].late =>
                  strict' /\ session'[request'[r].token].row # "live"
             /\ request'[r].pc = "signing_off" => session'[request'[r].token].row # "live"
             /\ request'[r].pc \in {"accepted", "signing_off"} => ~request'[r].late
  <2>1. CASE request'[r] = request[r]
    BY <1>6, <2>1 DEF AccessInv, Requesting, RevocationIsFinal
  <2>2. CASE request'[r] = NoRequest
    BY <1>6, <2>2, NoRequestShaped
  <2>3. CASE /\ request[r].pc = "accepted"
             /\ request'[r] = [request[r] EXCEPT !.pc = "signing_off"]
             /\ session'[request[r].token].row # "live"
    <3>1. /\ request'[r].pc = "signing_off" /\ request'[r].token = request[r].token
          /\ request'[r].late = request[r].late
      BY <2>3 DEF AccessInv, Shape, Request
    <3> QED BY <2>3, <3>1 DEF AccessInv, Requesting, RevocationIsFinal
  <2> QED BY <2>1, <2>2, <2>3 DEF Stays
<1>7. Requesting' /\ RevocationIsFinal'
  BY <1>6 DEF Requesting, RevocationIsFinal
<1> QED BY <1>3, <1>4, <1>5, <1>7 DEF AccessInv

\* No request moves.
LEMMA RequestsStay ==
  ASSUME AccessInv, request' = request
  PROVE  request' \in [Requests -> Request] /\ \A r \in Requests : Stays(r)
BY DEF AccessInv, Shape, Stays

-----------------------------------------------------------------------------
(* Logins, revocations and time: no request moves. *)

LEMMA AccessTypes ==
  ASSUME AccessInv
  PROVE  /\ staff \in Staff /\ staff.is.pin <= staff.is.token /\ staff.is.token \in Nat
         /\ login \in [Tokens -> {"none", "verified", "inserted", "stored", "open", "lost"}]
         /\ session \in [Tokens -> Session] /\ manager \in Manager
         /\ cached \subseteq Tokens /\ tracked \subseteq Tokens /\ over \subseteq Tokens
BY StaffAssumption DEF AccessInv, Shape, AccessTypeOK, Staff, Versions

LEMMA EndedSession ==
  ASSUME NEW x \in Session
  PROVE  /\ Ended(x) \in Session /\ Ended(x).is = x.is
         /\ Ended(x).row # "live"
BY DEF Ended, Session

LEMMA LoginInv ==
  ASSUME AccessInv, NEW t \in Tokens,
         Verify(t) \/ CreateStaffSession(t) \/ StoreToken(t) \/ HandOut(t) \/ LoginFails(t)
  PROVE  AccessInv'
<1>1. CASE Verify(t)
  <2>1. /\ login[t] = "none" /\ login' = [login EXCEPT ![t] = "verified"]
        /\ session' = [session EXCEPT ![t].is = staff.is]
        /\ UNCHANGED <<strict, staff, cached, tracked, manager, request, over>>
    BY <1>1 DEF Verify
  <2>2. session' \in [Tokens -> Session] /\ session'[t].is = staff.is
    BY <2>1, AccessTypes DEF Staff, Session
  <2>3. \A u \in Tokens : u # t => session'[u] = session[u] /\ login'[u] = login[u]
    BY <2>1, AccessTypes
  <2>4. /\ login' \in [Tokens -> {"none", "verified", "inserted", "stored", "open", "lost"}]
        /\ session'[t].is.token <= staff'.is.token /\ staff'.is.token >= staff.is.token
    BY <2>1, <2>2, AccessTypes
  <2> QED BY <2>1, <2>2, <2>3, <2>4, AccessTypes, RequestsStay, RowsMoved
<1>2. CASE CreateStaffSession(t)
  <2>1. /\ login[t] = "verified" /\ login' = [login EXCEPT ![t] = "inserted"]
        /\ session' = [session EXCEPT ![t].row = "live"]
        /\ UNCHANGED <<strict, staff, cached, tracked, manager, request, over>>
    BY <1>2 DEF CreateStaffSession
  <2>2. session' \in [Tokens -> Session] /\ session'[t].is = session[t].is
    BY <2>1, AccessTypes DEF Session
  <2>3. \A u \in Tokens : u # t => session'[u] = session[u] /\ login'[u] = login[u]
    BY <2>1, AccessTypes
  <2>4. /\ login' \in [Tokens -> {"none", "verified", "inserted", "stored", "open", "lost"}]
        /\ login'[t] = "inserted" /\ staff'.is.token >= staff.is.token
    BY <2>1, AccessTypes
  <2> QED BY <2>1, <2>2, <2>3, <2>4, AccessTypes, RequestsStay, RowsMoved
<1>3. CASE StoreToken(t) \/ HandOut(t) \/ LoginFails(t)
  <2>1. PICK to \in {"stored", "open", "lost"} : login' = [login EXCEPT ![t] = to]
    BY <1>3 DEF StoreToken, HandOut, LoginFails
  <2>2. /\ login[t] \in {"verified", "inserted", "stored"}
        /\ cached' \subseteq Tokens /\ tracked' \subseteq Tokens
        /\ UNCHANGED <<strict, staff, session, manager, request, over>>
    BY <1>3, AccessTypes DEF StoreToken, HandOut, LoginFails
  <2>3. \A u \in Tokens : u # t => login'[u] = login[u]
    BY <2>1, AccessTypes
  <2>4. /\ login' \in [Tokens -> {"none", "verified", "inserted", "stored", "open", "lost"}]
        /\ login'[t] = to /\ staff'.is.token >= staff.is.token
    BY <2>1, <2>2, AccessTypes
  <2> QED BY <2>2, <2>3, <2>4, AccessTypes, RequestsStay, RowsMoved
<1> QED BY <1>1, <1>2, <1>3

\* Sessions end, and nothing else of them changes.
LEMMA SessionsOver ==
  ASSUME AccessInv, UNCHANGED <<strict, staff, login, request, over>>,
         session' \in [Tokens -> Session],
         \A t \in Tokens : session'[t] = session[t] \/ session'[t] = Ended(session[t]),
         manager' \in Manager, cached' \subseteq Tokens, tracked' \subseteq Tokens
  PROVE  AccessInv'
<1>1. \A t \in Tokens : /\ session'[t].is = session[t].is
                        /\ session[t].row # "live" => session'[t].row # "live"
  BY AccessTypes, EndedSession
<1>2. staff'.is.token >= staff.is.token
  BY AccessTypes
<1> QED BY <1>1, <1>2, AccessTypes, RequestsStay, RowsMoved

LEMMA TimeInv ==
  ASSUME AccessInv, NEW t \in Tokens, Expire(t) \/ RedisForgets(t) PROVE AccessInv'
<1>1. CASE Expire(t)
  <2>1. session' = [session EXCEPT ![t] = Ended(session[t])]
    BY <1>1 DEF Expire
  <2>2. /\ session' \in [Tokens -> Session]
        /\ \A u \in Tokens : session'[u] = session[u] \/ session'[u] = Ended(session[u])
    BY <2>1, AccessTypes, EndedSession
  <2> QED BY <1>1, <2>2, AccessTypes, SessionsOver DEF Expire
<1>2. CASE RedisForgets(t)
  <2>1. cached' \subseteq Tokens /\ tracked' \subseteq Tokens
    BY <1>2, AccessTypes DEF RedisForgets
  <2> QED BY <1>2, <2>1, AccessTypes, SessionsOver DEF RedisForgets
<1> QED BY <1>1, <1>2

LEMMA RevokeAllInv ==
  ASSUME AccessInv, RevokeStaffSessionsForStaff \/ ListTokens \/ DeleteTokens
  PROVE  AccessInv'
<1>1. CASE RevokeStaffSessionsForStaff
  <2>1. /\ session' = [t \in Tokens |-> Ended(session[t])] \/ session' = session
        /\ manager' = [manager EXCEPT !.pc = "revoked"]
        /\ UNCHANGED <<strict, staff, login, cached, tracked, request, over>>
    BY <1>1 DEF RevokeStaffSessionsForStaff
  <2>2. /\ session' \in [Tokens -> Session]
        /\ \A t \in Tokens : session'[t] = session[t] \/ session'[t] = Ended(session[t])
    BY <2>1, AccessTypes, EndedSession
  <2>3. manager' \in Manager
    BY <2>1, AccessTypes DEF Manager
  <2> QED BY <2>1, <2>2, <2>3, AccessTypes, SessionsOver
<1>2. CASE ListTokens \/ DeleteTokens
  <2>1. manager' \in Manager
    BY <1>2, AccessTypes DEF ListTokens, DeleteTokens, Manager, AtRest
  <2>2. /\ cached' \subseteq Tokens /\ tracked' \subseteq Tokens
        /\ UNCHANGED <<strict, staff, login, session, request, over>>
    BY <1>2, AccessTypes DEF ListTokens, DeleteTokens
  <2> QED BY <2>1, <2>2, AccessTypes, SessionsOver
<1> QED BY <1>1, <1>2

-----------------------------------------------------------------------------
(* A change of the staff row ends the authority of every token issued so far. *)

LEMMA BumpedStaff ==
  ASSUME AccessInv, MayChange, NEW pin \in 0..1, NEW active \in BOOLEAN,
         staff'.is = Bumped(staff.is, pin), staff' = [active |-> active, is |-> staff'.is]
  PROVE  /\ staff' \in Staff /\ staff'.is.pin <= staff'.is.token
         /\ staff'.is.token = staff.is.token + 1
<1>1. /\ staff.is.token \in Nat /\ staff.is.pin \in Nat /\ staff.is.token < MaxChanges
      /\ staff.is.pin <= staff.is.token /\ MaxChanges \in Nat
  BY AccessTypes, StaffAssumption DEF MayChange, Staff, Versions
<1>2. staff'.is = [token |-> staff.is.token + 1, pin |-> staff.is.pin + pin]
  BY DEF Bumped
<1>3. staff'.is \in Versions
  BY <1>1, <1>2 DEF Versions
<1> QED BY <1>1, <1>2, <1>3 DEF Staff

LEMMA ChangeInv ==
  ASSUME AccessInv, staff' \in Staff, staff'.is.pin <= staff'.is.token,
         staff'.is.token = staff.is.token + 1, over' = over \cup Issued,
         manager' \in Manager, UNCHANGED <<strict, login, session, cached, tracked>>,
         request' \in [Requests -> Request], \A r \in Requests : Stays(r)
  PROVE  AccessInv'
<1>1. \A t \in Tokens : session[t].is.token \in Nat
  BY AccessTypes, StaffAssumption DEF Session, Versions
<1>2. \A t \in over' \ over : login'[t] # "none" /\ session'[t].is.token < staff'.is.token
  BY <1>1, AccessTypes DEF Issued, AccessInv, NeverAhead
<1>3. over' \subseteq Tokens /\ over \subseteq over'
  BY AccessTypes DEF Issued
<1> QED BY <1>2, <1>3, AccessTypes, RowsMoved

LEMMA ManagerInv == ASSUME AccessInv, ResetPIN \/ DeactivateStaff PROVE AccessInv'
<1>1. manager' \in Manager
  BY AccessTypes DEF ResetPIN, DeactivateStaff, Manager
<1>2. /\ MayChange /\ over' = over \cup Issued
      /\ UNCHANGED <<strict, login, session, cached, tracked, request>>
  BY DEF ResetPIN, UpdateStaffPIN, DeactivateStaff
<1>3. CASE ResetPIN
  <2>1. staff' = [active |-> staff.active, is |-> Bumped(staff.is, 1)]
    BY <1>3, AccessTypes DEF ResetPIN, UpdateStaffPIN, Staff
  <2>2. staff.active \in BOOLEAN /\ staff'.is = Bumped(staff.is, 1) /\ 1 \in 0..1
    BY <2>1, AccessTypes DEF Staff
  <2>3. staff' = [active |-> staff.active, is |-> staff'.is]
    BY <2>1
  <2>4. /\ staff' \in Staff /\ staff'.is.pin <= staff'.is.token
        /\ staff'.is.token = staff.is.token + 1
    BY <1>2, <2>2, <2>3, BumpedStaff
  <2> QED BY <1>1, <1>2, <2>4, RequestsStay, ChangeInv
<1>4. CASE DeactivateStaff
  <2>1. staff' = [active |-> FALSE, is |-> Bumped(staff.is, 0)]
    BY <1>4 DEF DeactivateStaff
  <2>2. FALSE \in BOOLEAN /\ staff'.is = Bumped(staff.is, 0) /\ 0 \in 0..1
    BY <2>1
  <2>3. staff' = [active |-> FALSE, is |-> staff'.is]
    BY <2>1
  <2>4. /\ staff' \in Staff /\ staff'.is.pin <= staff'.is.token
        /\ staff'.is.token = staff.is.token + 1
    BY <1>2, <2>2, <2>3, BumpedStaff
  <2> QED BY <1>1, <1>2, <2>4, RequestsStay, ChangeInv
<1> QED BY <1>3, <1>4

-----------------------------------------------------------------------------
(* Requests. *)

\* The record of a request, as its steps change it.
LEMMA RequestShape ==
  ASSUME AccessInv, NEW r \in Requests, NEW pc \in {"current", "accepted", "signing_off"}
  PROVE  /\ request[r] \in Request
         /\ [request[r] EXCEPT !.pc = pc] \in Request
         /\ [request[r] EXCEPT !.pc = pc].pc = pc
         /\ [request[r] EXCEPT !.pc = pc].token = request[r].token
         /\ [request[r] EXCEPT !.pc = pc].late = request[r].late
BY DEF AccessInv, Shape, Request

LEMMA RefusedInv ==
  ASSUME AccessInv, NEW r \in Requests, Refused(r),
         UNCHANGED <<strict, staff, login, session, cached, tracked, manager, over>>
  PROVE  AccessInv'
BY NoRequestShaped, AccessTypes, RequestMoved DEF Refused

LEMMA ReadInv ==
  ASSUME AccessInv, NEW r \in Requests,
         (\E t \in Tokens : ReadCached(r, t)) \/ ReadStaff(r) \/ ReadRow(r)
  PROVE  AccessInv'
<1>1. ASSUME NEW t \in Tokens, ReadCached(r, t) PROVE AccessInv'
  <2> DEFINE x == [pc |-> "known", token |-> t, late |-> t \in over]
  <2>1. x \in Request /\ x.pc = "known" /\ x.token = t /\ (x.late => t \in over)
    <3>1. (t \in over) \in BOOLEAN
      OBVIOUS
    <3>2. x \in Request
      BY <3>1 DEF Request
    <3> QED BY <3>2
  <2>2. /\ request' = [request EXCEPT ![r] = x] /\ login[t] = "open"
        /\ UNCHANGED <<strict, staff, login, session, cached, tracked, manager, over>>
    BY <1>1 DEF ReadCached
  <2> HIDE DEF x
  <2> QED BY <2>1, <2>2, AccessTypes, RequestMoved
<1>2. CASE ReadStaff(r)
  <2>1. UNCHANGED <<strict, staff, login, session, cached, tracked, manager, over>>
    BY <1>2 DEF ReadStaff
  <2>2. CASE Refused(r)
    BY <2>1, <2>2, RefusedInv
  <2>3. CASE /\ staff.is = session[request[r].token].is
             /\ request' = [request EXCEPT ![r].pc = "current"]
    <3>1. request' = [request EXCEPT ![r] = [request[r] EXCEPT !.pc = "current"]]
      BY <2>3
    <3>2. /\ request[r].token \in Tokens /\ login[request[r].token] = "open"
          /\ request[r].late => request[r].token \in over
      BY <1>2 DEF ReadStaff, AccessInv, Requesting
    <3>3. request[r].late => strict /\ session[request[r].token].row # "live"
      BY <2>3, <3>2, AccessTypes DEF AccessInv, OverShows
    <3> DEFINE x == [request[r] EXCEPT !.pc = "current"]
    <3>4. /\ x \in Request /\ x.pc = "current" /\ x.token = request[r].token
          /\ x.late = request[r].late
      BY RequestShape
    <3> HIDE DEF x
    <3> QED BY <2>1, <3>1, <3>2, <3>3, <3>4, AccessTypes, RequestMoved DEF x
  <2> QED BY <1>2, <2>2, <2>3 DEF ReadStaff, Reaches
<1>3. CASE ReadRow(r)
  <2>1. UNCHANGED <<strict, staff, login, session, cached, tracked, manager, over>>
    BY <1>3 DEF ReadRow
  <2>2. CASE Refused(r)
    BY <2>1, <2>2, RefusedInv
  <2>3. CASE /\ strict => session[request[r].token].row = "live"
             /\ request' = [request EXCEPT ![r].pc = "accepted"]
    <3>1. request' = [request EXCEPT ![r] = [request[r] EXCEPT !.pc = "accepted"]]
      BY <2>3
    <3>2. /\ request[r].token \in Tokens /\ login[request[r].token] = "open"
          /\ ~request[r].late
      BY <1>3, <2>3 DEF ReadRow, AccessInv, Requesting
    <3> DEFINE x == [request[r] EXCEPT !.pc = "accepted"]
    <3>3. /\ x \in Request /\ x.pc = "accepted" /\ x.token = request[r].token
          /\ x.late = request[r].late
      BY RequestShape
    <3> HIDE DEF x
    <3> QED BY <2>1, <3>1, <3>2, <3>3, AccessTypes, RequestMoved DEF x
  <2> QED BY <1>3, <2>2, <2>3 DEF ReadRow, Reaches
<1> QED BY <1>1, <1>2, <1>3

LEMMA SignOffInv == ASSUME AccessInv, NEW r \in Requests, RevokeStaffSession(r) PROVE AccessInv'
<1> DEFINE t == request[r].token
<1>1. request[r].pc = "accepted" /\ t \in Tokens /\ login[t] = "open" /\ request[r].pc # "idle"
  BY DEF RevokeStaffSession, AccessInv, Requesting
<1>2. /\ session' = [session EXCEPT ![t] = Ended(session[t])]
      /\ request' = [request EXCEPT ![r] = [request[r] EXCEPT !.pc = "signing_off"]]
      /\ UNCHANGED <<strict, staff, login, cached, tracked, manager, over>>
  BY DEF RevokeStaffSession, Reaches
<1>3. /\ session' \in [Tokens -> Session] /\ session'[t].row # "live"
      /\ \A u \in Tokens : session'[u] = session[u] \/ session'[u] = Ended(session[u])
  BY <1>1, <1>2, AccessTypes, EndedSession
<1>4. \A u \in Tokens : /\ session'[u].is = session[u].is
                        /\ session[u].row # "live" => session'[u].row # "live"
  BY <1>3, AccessTypes, EndedSession
<1>5. request' \in [Requests -> Request] /\ \A q \in Requests : Stays(q)
  BY <1>1, <1>2, <1>3, RequestShape DEF Stays, AccessInv, Shape
<1>6. staff'.is.token >= staff.is.token
  BY <1>2, AccessTypes
<1> HIDE DEF t
<1> QED BY <1>2, <1>3, <1>4, <1>5, <1>6, AccessTypes, RowsMoved

LEMMA ForgetInv == ASSUME AccessInv, NEW r \in Requests, ForgetToken(r) PROVE AccessInv'
<1> DEFINE t == request[r].token
<1>1. /\ t \in Tokens /\ login[t] = "open" /\ session[t].row # "live"
  BY DEF ForgetToken, AccessInv, Requesting
<1>2. /\ cached' \subseteq Tokens /\ tracked' \subseteq Tokens
      /\ over' = IF strict THEN over \cup {t} ELSE over
      /\ request' = [request EXCEPT ![r] = NoRequest]
      /\ UNCHANGED <<strict, staff, login, session, manager>>
  BY AccessTypes DEF ForgetToken
<1>3. request' \in [Requests -> Request] /\ \A q \in Requests : Stays(q)
  BY <1>2, NoRequestShaped DEF Stays, AccessInv, Shape
<1>4. over' \subseteq Tokens /\ over \subseteq over'
  BY <1>1, <1>2, AccessTypes
<1>5. \A u \in over' \ over : strict /\ login'[u] = "open" /\ session'[u].row # "live"
  BY <1>1, <1>2
<1>6. staff'.is.token >= staff.is.token
  BY <1>2, AccessTypes
<1> HIDE DEF t
<1> QED BY <1>2, <1>3, <1>4, <1>5, <1>6, AccessTypes, RowsMoved

LEMMA RotateInv == ASSUME AccessInv, NEW r \in Requests, RotatePIN(r) PROVE AccessInv'
<1>1. /\ MayChange /\ over' = over \cup Issued /\ staff' = [staff EXCEPT !.is = Bumped(@, 1)]
      /\ request' = [request EXCEPT ![r] = NoRequest]
      /\ UNCHANGED <<strict, login, session, cached, tracked, manager>>
  BY DEF RotatePIN, UpdateStaffPIN, Refused
<1>2. staff' = [active |-> staff.active, is |-> Bumped(staff.is, 1)]
  BY <1>1, AccessTypes DEF Staff
<1>3. staff.active \in BOOLEAN /\ staff'.is = Bumped(staff.is, 1) /\ 1 \in 0..1
  BY <1>2, AccessTypes DEF Staff
<1>4. staff' = [active |-> staff.active, is |-> staff'.is]
  BY <1>2
<1>5. /\ staff' \in Staff /\ staff'.is.pin <= staff'.is.token
      /\ staff'.is.token = staff.is.token + 1
  BY <1>1, <1>3, <1>4, BumpedStaff
<1>6. request' \in [Requests -> Request] /\ \A q \in Requests : Stays(q)
  BY <1>1, NoRequestShaped DEF Stays, AccessInv, Shape
<1> QED BY <1>1, <1>5, <1>6, AccessTypes, ChangeInv

LEMMA DoneInv == ASSUME AccessInv, NEW r \in Requests, Done(r) PROVE AccessInv'
BY RefusedInv DEF Done

LEMMA AccessStepInv == ASSUME AccessInv, AccessStep PROVE AccessInv'
BY LoginInv, TimeInv, RevokeAllInv, ManagerInv, ReadInv, SignOffInv, ForgetInv, RotateInv, DoneInv
   DEF AccessStep

LEMMA AccessStutter == ASSUME AccessInv, UNCHANGED accessVars PROVE AccessInv'
<1>1. UNCHANGED <<strict, staff, login, session, cached, tracked, manager, request, over>>
  BY DEF accessVars
<1> QED BY <1>1, AccessTypes, SessionsOver

LEMMA AccessStarts == AccessInit => AccessInv
<1> SUFFICES ASSUME AccessInit PROVE AccessInv
  OBVIOUS
<1>1. 0 \in 0..MaxChanges
  BY StaffAssumption
<1>2. [token |-> 0, pin |-> 0] \in Versions
  BY <1>1 DEF Versions
<1>3. staff \in Staff /\ NoSession \in Session /\ AtRest \in Manager
  BY <1>2 DEF AccessInit, Staff, Session, Manager, NoSession, AtRest
<1>4. AccessTypeOK /\ request \in [Requests -> Request]
  BY <1>3, NoRequestShaped DEF AccessInit, AccessTypeOK, Request, NoRequest
<1>5. staff.is.pin <= staff.is.token
  BY DEF AccessInit
<1>6. NeverAhead /\ OverShows /\ Requesting /\ RevocationIsFinal
  BY NoRequestShaped DEF AccessInit, NeverAhead, OverShows, Requesting, RevocationIsFinal
<1> QED BY <1>4, <1>5, <1>6 DEF AccessInv, Shape

-----------------------------------------------------------------------------
(* Orders and calls. *)

Named == {"none", "pending", "confirmed", "preparing", "ready", "served", "cancelled",
          "acknowledged", "resolved"}
Job == [row : Orders \cup Calls \cup {Nothing}, from : Named, to : Named]

\* What a request is about to write agrees with the table and what it read.
JobsAgree ==
  /\ status \in [Orders \cup Calls -> Named]
  /\ job \in [Requests -> Job]
  /\ \A o \in Orders : status[o] \in
       {"pending", "confirmed", "preparing", "ready", "served", "cancelled"}
  /\ \A c \in Calls : status[c] \in {"pending", "acknowledged", "resolved"}
  /\ \A r \in Requests : job[r] # NoJob =>
       /\ request[r].pc = "accepted"
       /\ \/ job[r].row \in Orders /\ <<job[r].from, job[r].to>> \in OrderTransitions
          \/ job[r].row \in Calls /\ <<job[r].from, job[r].to>> \in AssistanceTransitions

Inv == AccessInv /\ JobsAgree

\* Where a step along either table can lead.
LEMMA TablesLead ==
  /\ \A a, b : <<a, b>> \in OrderTransitions =>
       /\ a \in Named /\ b \in Named
       /\ b \in {"pending", "confirmed", "preparing", "ready", "served", "cancelled"}
  /\ \A a, b : <<a, b>> \in AssistanceTransitions =>
       a \in Named /\ b \in Named /\ b \in {"pending", "acknowledged", "resolved"}
BY DEF OrderTransitions, AssistanceTransitions, From, Named

LEMMA NoJobShaped == NoJob \in Job /\ \A x \in Orders \cup Calls : NoJob.row # x
BY ShiftAssumption DEF NoJob, Job, Named

\* What a request reads and means to write.
LEMMA ReadAgrees ==
  ASSUME JobsAgree, NEW r \in Requests, NEW x \in Orders \cup Calls, NEW to,
         Free(r), UNCHANGED <<status, request>>,
         \/ x \in Orders /\ <<status[x], to>> \in OrderTransitions
         \/ x \in Calls /\ <<status[x], to>> \in AssistanceTransitions,
         job' = [job EXCEPT ![r] = [row |-> x, from |-> status[x], to |-> to]]
  PROVE  JobsAgree'
<1> DEFINE j == [row |-> x, from |-> status[x], to |-> to]
<1>1. j \in Job /\ j.row = x /\ j.from = status[x] /\ j.to = to
  BY TablesLead DEF Job, JobsAgree
<1>2. job' = [job EXCEPT ![r] = j]
  OBVIOUS
<1> HIDE DEF j
<1>3. job' \in [Requests -> Job] /\ job'[r] = j /\ \A q \in Requests : q # r => job'[q] = job[q]
  BY <1>1, <1>2 DEF JobsAgree
<1> QED BY <1>1, <1>3 DEF JobsAgree, Free

\* A request that finished frees its job; another's request is as it was.
LEMMA FinishAgrees ==
  ASSUME AccessInv, JobsAgree, NEW r \in Requests, Finish(r), Done(r),
         status' \in [Orders \cup Calls -> Named],
         \A o \in Orders : status'[o] \in
           {"pending", "confirmed", "preparing", "ready", "served", "cancelled"},
         \A c \in Calls : status'[c] \in {"pending", "acknowledged", "resolved"}
  PROVE  JobsAgree'
<1>1. /\ job' \in [Requests -> Job] /\ job'[r] = NoJob
      /\ \A q \in Requests : q # r => job'[q] = job[q]
  BY NoJobShaped DEF Finish, JobsAgree
<1>2. \A q \in Requests : q # r => request'[q] = request[q]
  BY DEF Done, Refused, AccessInv, Shape
<1> QED BY <1>1, <1>2 DEF JobsAgree

LEMMA WorkInv == ASSUME Inv, NEW r \in Requests, Work(r) PROVE Inv'
<1>1. ASSUME NEW o \in Orders, NEW to \in AskedFor, ReadOrder(r, o, to) PROVE Inv'
  <2>1. JobsAgree'
    BY <1>1, ReadAgrees DEF ReadOrder, Inv, accessVars
  <2> QED BY <1>1, <2>1, AccessStutter DEF ReadOrder, Inv
<1>2. ASSUME NEW c \in Calls, NEW to \in AskedFor, ReadCall(r, c, to) PROVE Inv'
  <2>1. JobsAgree'
    BY <1>2, ReadAgrees DEF ReadCall, Inv, accessVars
  <2> QED BY <1>2, <2>1, AccessStutter DEF ReadCall, Inv
<1>3. CASE UpdateOrderStatusExpected(r)
  <2>1. <<job[r].from, job[r].to>> \in OrderTransitions
    BY <1>3, ShiftAssumption, NoJobShaped DEF UpdateOrderStatusExpected, Inv, JobsAgree
  <2>2. job[r].to \in Named /\
        job[r].to \in {"pending", "confirmed", "preparing", "ready", "served", "cancelled"}
    BY <2>1, TablesLead
  <2>3. \A x \in Orders \cup Calls :
          status'[x] = IF x = job[r].row /\ status[x] = job[r].from THEN job[r].to ELSE status[x]
    BY <1>3 DEF UpdateOrderStatusExpected, Inv, JobsAgree
  <2>4. status' \in [Orders \cup Calls -> Named]
    BY <1>3, <2>2 DEF UpdateOrderStatusExpected, Inv, JobsAgree
  <2>5. job[r].row \notin Calls
    BY <1>3, ShiftAssumption DEF UpdateOrderStatusExpected
  <2>6. JobsAgree'
    BY <1>3, <2>2, <2>3, <2>4, <2>5, FinishAgrees DEF UpdateOrderStatusExpected, Inv, JobsAgree
  <2> QED BY <1>3, <2>6, DoneInv DEF UpdateOrderStatusExpected, Inv
<1>4. CASE UpdateAssistanceStatusScoped(r)
  <2>1. <<job[r].from, job[r].to>> \in AssistanceTransitions
    BY <1>4, ShiftAssumption, NoJobShaped DEF UpdateAssistanceStatusScoped, Inv, JobsAgree
  <2>2. job[r].to \in Named /\ job[r].to \in {"pending", "acknowledged", "resolved"}
    BY <2>1, TablesLead
  <2>3. \A x \in Orders \cup Calls : status'[x] = IF x = job[r].row THEN job[r].to ELSE status[x]
    BY <1>4 DEF UpdateAssistanceStatusScoped, Inv, JobsAgree
  <2>4. status' \in [Orders \cup Calls -> Named]
    BY <1>4, <2>2 DEF UpdateAssistanceStatusScoped, Inv, JobsAgree
  <2>5. job[r].row \notin Orders
    BY <1>4, ShiftAssumption DEF UpdateAssistanceStatusScoped
  <2>6. JobsAgree'
    BY <1>4, <2>2, <2>3, <2>4, <2>5, FinishAgrees DEF UpdateAssistanceStatusScoped, Inv, JobsAgree
  <2> QED BY <1>4, <2>6, DoneInv DEF UpdateAssistanceStatusScoped, Inv
<1>5. CASE Drop(r)
  <2>1. JobsAgree'
    BY <1>5, FinishAgrees DEF Drop, Inv, JobsAgree
  <2> QED BY <1>5, <2>1, DoneInv DEF Drop, Inv
<1> QED BY <1>1, <1>2, <1>3, <1>4, <1>5 DEF Work

LEMMA AccessAgrees == ASSUME Inv, Access PROVE Inv'
<1>1. JobsAgree'
  BY DEF Access, Inv, JobsAgree
<1> QED BY <1>1, AccessStepInv DEF Access, Inv

LEMMA Starts == ASSUME Init PROVE Inv
<1>1. status \in [Orders \cup Calls -> Named] /\ \A x \in Orders \cup Calls : status[x] = "pending"
  BY DEF Init, Named
<1>2. job \in [Requests -> Job] /\ \A r \in Requests : job[r] = NoJob
  BY NoJobShaped DEF Init
<1>3. JobsAgree
  BY <1>1, <1>2 DEF JobsAgree
<1> QED BY <1>3, AccessStarts DEF Init, Inv

LEMMA Steps == ASSUME Inv, [Next]_vars PROVE Inv'
<1>1. CASE UNCHANGED vars
  <2>1. UNCHANGED accessVars /\ UNCHANGED <<status, job, request>>
    BY <1>1 DEF vars, accessVars
  <2> QED BY <2>1, AccessStutter DEF Inv, JobsAgree
<1> QED BY <1>1, AccessAgrees, WorkInv DEF Next

LEMMA Invariance == Spec => []Inv
BY Starts, Steps, PTL DEF Spec

-----------------------------------------------------------------------------
(* Every row, version, token set and request is of its type, and a request    *)
(* that acts is one that was let in (auth.go, order.go, assistance.go).       *)
THEOREM TypeCorrect == Spec => []TypeOK
<1>1. Inv => TypeOK
  <2> SUFFICES ASSUME Inv PROVE TypeOK
    OBVIOUS
  <2>1. AccessTypeOK
    BY DEF Inv, AccessInv, Shape
  <2>2. JobsAgree
    BY DEF Inv
  <2> QED BY <2>1, <2>2 DEF TypeOK, JobsAgree
<1> QED BY <1>1, Invariance, PTL

(* For any number of tokens and requests, whichever Redis calls fail: no      *)
(* token of before a change of the PIN, a deactivation or, in strict mode, a  *)
(* sign-off is accepted again (validateStaffSession).                         *)
THEOREM RevocationStands == Spec => []RevocationIsFinal
<1>1. Inv => RevocationIsFinal
  BY DEF Inv, AccessInv
<1> QED BY <1>1, Invariance, PTL

(* An order's ticket takes only steps of the table, whoever else is changing  *)
(* it: UpdateOrderStatusExpected writes over nothing but what was read.       *)
THEOREM TicketKeepsToTable == Spec => TicketFollowsTable
<1>1. Inv /\ [Next]_vars =>
        [\A o \in Orders : status'[o] # status[o] =>
           <<status[o], status'[o]>> \in OrderTransitions]_status
  <2> SUFFICES ASSUME Inv, [Next]_vars, NEW o \in Orders, status'[o] # status[o]
               PROVE  <<status[o], status'[o]>> \in OrderTransitions
    OBVIOUS
  <2>1. ASSUME NEW r \in Requests, UpdateOrderStatusExpected(r)
        PROVE  <<status[o], status'[o]>> \in OrderTransitions
    <3>1. <<job[r].from, job[r].to>> \in OrderTransitions
      BY <2>1, ShiftAssumption, NoJobShaped DEF UpdateOrderStatusExpected, Inv, JobsAgree
    <3>2. o = job[r].row /\ status[o] = job[r].from /\ status'[o] = job[r].to
      BY <2>1 DEF UpdateOrderStatusExpected, Inv, JobsAgree
    <3> QED BY <3>1, <3>2
  <2>2. ASSUME NEW r \in Requests, UpdateAssistanceStatusScoped(r) PROVE FALSE
    BY <2>2, ShiftAssumption DEF UpdateAssistanceStatusScoped, Inv, JobsAgree
  <2> QED BY <2>1, <2>2 DEF Next, Access, Work, ReadOrder, ReadCall, Drop, vars
<1> QED BY <1>1, Invariance, PTL DEF Spec, TicketFollowsTable

(* Signing one device off leaves the member's others signed in (Logout):      *)
(* whatever ends a session in use is its own sign-off, a change of the staff  *)
(* row, the revocation that follows one, its age, or Redis forgetting it.     *)
THEOREM SessionsEndInOrder == Spec => SessionsEndForCause
<1> DEFINE Cause(t) == \/ SignsOff(t) \/ staff' # staff \/ manager' # manager
                       \/ Expire(t) \/ RedisForgets(t)
<1>1. ASSUME Inv, [Next]_vars, NEW t \in Tokens, InUse(t), ~InUse(t)', staff' = staff
      PROVE  Cause(t)
  <2>1. \A u \in Tokens : \A q \in Requests :
          ~(ReadCached(q, u) \/ ReadStaff(q) \/ ReadRow(q) \/ Done(q) \/ RotatePIN(q))
    <3> SUFFICES ASSUME NEW u \in Tokens, NEW q \in Requests,
                        ReadCached(q, u) \/ ReadStaff(q) \/ ReadRow(q) \/ Done(q) \/ RotatePIN(q)
                 PROVE  FALSE
      OBVIOUS
    <3>1. UNCHANGED <<login, session, cached>>
      BY DEF ReadCached, ReadStaff, ReadRow, Done, RotatePIN
    <3> QED BY <1>1, <3>1 DEF InUse
  <2>2. \A u \in Tokens : ~(Verify(u) \/ CreateStaffSession(u) \/ StoreToken(u) \/ HandOut(u)
                            \/ LoginFails(u))
    <3> SUFFICES ASSUME NEW u \in Tokens,
                        Verify(u) \/ CreateStaffSession(u) \/ StoreToken(u) \/ HandOut(u)
                          \/ LoginFails(u)
                 PROVE  FALSE
      OBVIOUS
    <3>1. u # t /\ login'[t] = login[t] /\ session'[t] = session[t]
      BY <1>1, AccessTypes
         DEF InUse, Inv, Verify, CreateStaffSession, StoreToken, HandOut, LoginFails
    <3>2. cached \subseteq cached'
      BY DEF Verify, CreateStaffSession, StoreToken, HandOut, LoginFails
    <3> QED BY <1>1, <3>1, <3>2 DEF InUse
  <2>3. ASSUME NEW r \in Requests, RevokeStaffSession(r) PROVE Cause(t)
    <3>1. request[r].token = t
      <4>1. session'[t] # session[t]
        BY <1>1, <2>3 DEF InUse, RevokeStaffSession
      <4> QED BY <1>1, <2>3, <4>1, AccessTypes DEF Inv, RevokeStaffSession
    <3>2. request[r].pc = "accepted" /\ request'[r].pc = "signing_off"
      BY <1>1, <2>3 DEF RevokeStaffSession, Reaches, Inv, AccessInv, Shape, Request
    <3> QED BY <3>1, <3>2 DEF SignsOff
  <2>4. ASSUME NEW r \in Requests, ForgetToken(r) PROVE Cause(t)
    <3>1. request[r].token = t
      <4>1. t \notin cached'
        BY <1>1, <2>4 DEF InUse, ForgetToken
      <4> QED BY <1>1, <2>4, <4>1 DEF InUse, ForgetToken
    <3>2. request[r].pc = "signing_off" /\ request'[r].pc = "idle"
      BY <1>1, <2>4, NoRequestShaped DEF ForgetToken, Inv, AccessInv, Shape
    <3> QED BY <3>1, <3>2 DEF SignsOff
  <2>5. CASE ResetPIN \/ DeactivateStaff \/ RevokeStaffSessionsForStaff \/ ListTokens \/ DeleteTokens
    <3>1. manager.pc # manager'.pc
      BY <1>1, <2>5, AccessTypes DEF Inv, ResetPIN, DeactivateStaff, RevokeStaffSessionsForStaff,
         ListTokens, DeleteTokens, AtRest, Manager
    <3> QED BY <3>1
  <2>6. ASSUME NEW u \in Tokens, Expire(u) \/ RedisForgets(u) PROVE Cause(t)
    <3>1. u = t
      <4>1. login' = login
        BY <2>6 DEF Expire, RedisForgets
      <4>2. u # t => session'[t] = session[t] /\ (t \in cached => t \in cached')
        BY <1>1, <2>6, AccessTypes DEF Expire, RedisForgets, Inv
      <4> QED BY <1>1, <4>1, <4>2 DEF InUse
    <3> QED BY <2>6, <3>1
  <2>7. ~UNCHANGED accessVars
    BY <1>1 DEF InUse, accessVars
  <2>8. \A q \in Requests : Work(q) => Done(q) \/ UNCHANGED accessVars
    BY DEF Work, ReadOrder, ReadCall, UpdateOrderStatusExpected, UpdateAssistanceStatusScoped, Drop
  <2>9. AccessStep
    BY <1>1, <2>1, <2>7, <2>8 DEF Next, Access, vars, accessVars
  <2> HIDE DEF Cause
  <2> QED BY <2>1, <2>2, <2>3, <2>4, <2>5, <2>6, <2>9 DEF AccessStep
<1>2. Inv /\ [Next]_vars =>
        [\A t \in Tokens : InUse(t) /\ ~InUse(t)' =>
           \/ SignsOff(t)
           \/ staff' # staff
           \/ manager' # manager
           \/ Expire(t) \/ RedisForgets(t)]_accessVars
  BY <1>1
<1> QED BY <1>2, Invariance, PTL DEF Spec, SessionsEndForCause

-----------------------------------------------------------------------------
(* AssistanceFollowsTable is false of overlapping requests (request_reopened).  *)
(* What has to be kept apart is one pair of updates, and nothing else.          *)

\* No call is about to be acknowledged by one request and resolved by another.
CallsApart ==
  \A r, q \in Requests :
    ~(/\ job[r].row \in Calls /\ job[q].row = job[r].row
      /\ job[r].to = "acknowledged" /\ job[q].to = "resolved")

\* Who acknowledges a call writes over one that is not resolved.
AcknowledgesOpen ==
  \A r \in Requests :
    job[r].row \in Calls /\ job[r].to = "acknowledged"
      => status[job[r].row] \in {"pending", "acknowledged"}

\* What a pending update of a call can be.
LEMMA CallJobs ==
  ASSUME Inv, NEW r \in Requests, job[r].row \in Calls
  PROVE  /\ job[r].to \in {"acknowledged", "resolved"}
         /\ \A x \in Orders \cup Calls :
              UpdateAssistanceStatusScoped(r)
                => status'[x] = IF x = job[r].row THEN job[r].to ELSE status[x]
<1>1. <<job[r].from, job[r].to>> \in AssistanceTransitions
  BY ShiftAssumption, NoJobShaped DEF Inv, JobsAgree
<1>2. job[r].to \in {"acknowledged", "resolved"}
  BY <1>1 DEF AssistanceTransitions, From
<1> QED BY <1>2 DEF Inv, JobsAgree, UpdateAssistanceStatusScoped

LEMMA AcknowledgesOpenStep ==
  ASSUME Inv, AcknowledgesOpen, CallsApart, [Next]_vars
  PROVE  AcknowledgesOpen'
<1>1. job \in [Requests -> Job] /\ status \in [Orders \cup Calls -> Named]
  BY DEF Inv, JobsAgree
<1>2. ASSUME NEW q \in Requests, Finish(q),
             \A c \in Calls : status'[c] = status[c]
      PROVE  AcknowledgesOpen'
  BY <1>1, <1>2, NoJobShaped DEF Finish, AcknowledgesOpen
<1>3. ASSUME NEW q \in Requests, NEW o \in Orders, NEW to, ReadOrder(q, o, to)
      PROVE  AcknowledgesOpen'
  BY <1>1, <1>3, ShiftAssumption DEF ReadOrder, AcknowledgesOpen
<1>4. ASSUME NEW q \in Requests, NEW c \in Calls, NEW to, ReadCall(q, c, to)
      PROVE  AcknowledgesOpen'
  <2>1. to = "acknowledged" => status[c] = "pending"
    BY <1>4 DEF ReadCall, AssistanceTransitions, From
  <2> QED BY <1>1, <1>4, <2>1 DEF ReadCall, AcknowledgesOpen
<1>5. ASSUME NEW q \in Requests, UpdateOrderStatusExpected(q) PROVE AcknowledgesOpen'
  <2>1. \A c \in Calls : status'[c] = status[c]
    BY <1>1, <1>5, ShiftAssumption DEF UpdateOrderStatusExpected
  <2> QED BY <1>2, <1>5, <2>1 DEF UpdateOrderStatusExpected
<1>6. ASSUME NEW q \in Requests, UpdateAssistanceStatusScoped(q) PROVE AcknowledgesOpen'
  <2>1. job[q].row \in Calls /\ Finish(q)
    BY <1>6 DEF UpdateAssistanceStatusScoped
  <2>2. ASSUME NEW r \in Requests, job'[r].row \in Calls, job'[r].to = "acknowledged"
        PROVE  status'[job'[r].row] \in {"pending", "acknowledged"}
    <3>1. job'[r] = job[r]
      BY <1>1, <2>1, <2>2, NoJobShaped DEF Finish
    <3>2. job[r].row = job[q].row => job[q].to = "acknowledged"
      BY <2>1, <2>2, <3>1, CallJobs DEF CallsApart
    <3> QED BY <1>6, <2>1, <2>2, <3>1, <3>2, CallJobs DEF AcknowledgesOpen
  <2> QED BY <2>2 DEF AcknowledgesOpen
<1>7. ASSUME NEW q \in Requests, Drop(q) PROVE AcknowledgesOpen'
  BY <1>2, <1>7 DEF Drop
<1>8. CASE Access \/ UNCHANGED vars
  BY <1>8 DEF Access, vars, AcknowledgesOpen
<1> QED BY <1>3, <1>4, <1>5, <1>6, <1>7, <1>8 DEF Next, Work

(* A call moves against its table (statemachine.go) only if an acknowledgement  *)
(* and a resolution of it overlap (UpdateAssistanceStatusScoped): two           *)
(* acknowledgements, or two resolutions, do no harm.                            *)
THEOREM CallsKeepToTable == Spec /\ []CallsApart => AssistanceFollowsTable
<1>1. Init => AcknowledgesOpen
  BY NoJobShaped DEF Init, AcknowledgesOpen
<1>2. Inv /\ AcknowledgesOpen /\ CallsApart /\ [Next]_vars => AcknowledgesOpen'
  BY AcknowledgesOpenStep
<1>3. Inv /\ AcknowledgesOpen /\ [Next]_vars =>
        [\A c \in Calls : status'[c] # status[c] =>
           <<status[c], status'[c]>> \in AssistanceTransitions]_status
  <2> SUFFICES ASSUME Inv, AcknowledgesOpen, [Next]_vars,
                      NEW c \in Calls, status'[c] # status[c]
               PROVE  <<status[c], status'[c]>> \in AssistanceTransitions
    OBVIOUS
  <2>1. ASSUME NEW r \in Requests, UpdateAssistanceStatusScoped(r)
        PROVE  <<status[c], status'[c]>> \in AssistanceTransitions
    <3>1. /\ c = job[r].row /\ status'[c] = job[r].to
          /\ job[r].to \in {"acknowledged", "resolved"}
      BY <2>1, CallJobs DEF UpdateAssistanceStatusScoped
    <3>2. status[c] \in {"pending", "acknowledged", "resolved"}
      BY DEF Inv, JobsAgree
    <3>3. job[r].to = "acknowledged" => status[c] # "resolved"
      BY <3>1 DEF AcknowledgesOpen
    <3> QED BY <3>1, <3>2, <3>3 DEF AssistanceTransitions, From
  <2>2. ASSUME NEW r \in Requests, UpdateOrderStatusExpected(r) PROVE FALSE
    BY <2>2, ShiftAssumption DEF UpdateOrderStatusExpected, Inv, JobsAgree
  <2> QED BY <2>1, <2>2 DEF Next, Access, Work, ReadOrder, ReadCall, Drop, vars
<1> QED BY <1>1, <1>2, <1>3, Invariance, PTL DEF Spec, AssistanceFollowsTable

=============================================================================
