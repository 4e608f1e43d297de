------------------------------ MODULE StaffAccess ------------------------------
(***************************************************************************)
(* How one staff member is recognised: the staff row with its versions,    *)
(* one durable staff_sessions row and one cached session per token, and    *)
(* the set of the member's tokens in Redis.  Logins, requests, sign-offs   *)
(* and a manager's reset or deactivation run statement by statement; any   *)
(* Redis call may fail, and Redis may forget an entry at any time.  The    *)
(* PIN itself is left out: whoever logs in or rotates it knows it at the   *)
(* moment it is compared.  So is the lockout of repeated failures.         *)
(***************************************************************************)
EXTENDS Integers, FiniteSets

CONSTANTS
  Tokens,    \* one per login
  Requests,  \* requests that staff may have in flight at once
  Nothing,
  MaxChanges \* bound: PIN changes and deactivations

ASSUME StaffAssumption == MaxChanges \in Nat /\ Nothing \notin Tokens

VARIABLES
  strict,   \* AUTH_STAFF_SESSION_DB_REQUIRED
  staff,    \* the staff row
  login,    \* the login that makes each token: how far it is
  session,  \* its staff_sessions row, which carries what the cached session does
  cached,   \* tokens with a cached session
  tracked,  \* tokens in the set of the member's tokens
  manager,  \* the reset or deactivation that is under way
  request,
  over      \* history: tokens whose authority somebody was told is over

accessVars == <<strict, staff, login, session, cached, tracked, manager, request, over>>

Versions == [token : 0..MaxChanges, pin : 0..MaxChanges]
Staff == [active : BOOLEAN, is : Versions]
Session == [row : {"none", "live", "ended"}, is : Versions]
Manager == [pc : {"idle", "updated", "revoked", "listed"}, keys : SUBSET Tokens]

AtRest == [pc |-> "idle", keys |-> {}]
NoSession == [row |-> "none", is |-> [token |-> 0, pin |-> 0]]
NoRequest == [pc |-> "idle", token |-> Nothing, late |-> FALSE]

AccessInit ==
  /\ strict \in BOOLEAN
  /\ staff = [active |-> TRUE, is |-> [token |-> 0, pin |-> 0]]
  /\ login = [t \in Tokens |-> "none"]
  /\ session = [t \in Tokens |-> NoSession]
  /\ cached = {} /\ tracked = {}
  /\ manager = AtRest
  /\ request = [r \in Requests |-> NoRequest]
  /\ over = {}

-----------------------------------------------------------------------------
(* Logging in. *)

Issued == {t \in Tokens : login[t] # "none"}

\* The row of an active member, with the versions its session will carry.
Verify(t) ==
  /\ login[t] = "none" /\ staff.active
  /\ login' = [login EXCEPT ![t] = "verified"]
  /\ session' = [session EXCEPT ![t].is = staff.is]
  /\ UNCHANGED <<strict, staff, cached, tracked, manager, request, over>>

\* Slip: the versions are read once more when the session is made.
CreateStaffSession_Reread(t) ==
  /\ login[t] = "verified"
  /\ login' = [login EXCEPT ![t] = "inserted"]
  /\ session' = [session EXCEPT ![t] = [row |-> "live", is |-> staff.is]]
  /\ UNCHANGED <<strict, staff, cached, tracked, manager, request, over>>

CreateStaffSession(t) ==
  /\ login[t] = "verified"
  /\ login' = [login EXCEPT ![t] = "inserted"]
  /\ session' = [session EXCEPT ![t].row = "live"]
  /\ UNCHANGED <<strict, staff, cached, tracked, manager, request, over>>

StoreToken(t) ==
  /\ login[t] = "inserted"
  /\ login' = [login EXCEPT ![t] = "stored"]
  /\ cached' = cached \cup {t}
  /\ UNCHANGED <<strict, staff, session, tracked, manager, request, over>>

\* The token is handed out even when it could not be added to the set.
HandOut(t) ==
  /\ login[t] = "stored"
  /\ login' = [login EXCEPT ![t] = "open"]
  /\ tracked' \in {tracked, tracked \cup {t}}
  /\ UNCHANGED <<strict, staff, session, cached, manager, request, over>>

\* The branch or organization is not active, or a store fails: the token is
\* never handed out, and whatever was written stays.
LoginFails(t) ==
  /\ login[t] \in {"verified", "inserted"}
  /\ login' = [login EXCEPT ![t] = "lost"]
  /\ UNCHANGED <<strict, staff, session, cached, tracked, manager, request, over>>

-----------------------------------------------------------------------------
(* A request and its validation. *)

Refused(r) == request' = [request EXCEPT ![r] = NoRequest]
Reaches(r, pc) == request' = [request EXCEPT ![r].pc = pc]

\* The request is taken to begin where its cached session is read: one that
\* finds none is refused.
ReadCached(r, t) ==
  /\ request[r].pc = "idle" /\ login[t] = "open" /\ t \in cached
  /\ request' = [request EXCEPT ![r] = [pc |-> "known", token |-> t, late |-> t \in over]]
  /\ UNCHANGED <<strict, staff, login, session, cached, tracked, manager, over>>

\* The row says otherwise, or cannot be read.
ReadStaff(r) ==
  /\ request[r].pc = "known"
  /\ \/ staff.active /\ staff.is = session[request[r].token].is /\ Reaches(r, "current")
     \/ Refused(r)
  /\ UNCHANGED <<strict, staff, login, session, cached, tracked, manager, over>>

\* A missing row, or a failed read of it, matters in strict mode only.
ReadRow(r) ==
  /\ request[r].pc = "current"
  /\ \/ (strict => session[request[r].token].row = "live") /\ Reaches(r, "accepted")
     \/ strict /\ Refused(r)
  /\ UNCHANGED <<strict, staff, login, session, cached, tracked, manager, over>>

-----------------------------------------------------------------------------
(* Signing off. *)

Ended(s) == IF s.row = "live" THEN [s EXCEPT !.row = "ended"] ELSE s

\* Slip: a sign-off ends all sessions of the member.
RevokeStaffSession_All(r) ==
  /\ request[r].pc = "accepted"
  /\ session' = [t \in Tokens |-> Ended(session[t])]
  /\ Reaches(r, "signing_off")
  /\ UNCHANGED <<strict, staff, login, cached, tracked, manager, over>>

\* Slip: the sign-off goes on although its row could not be revoked.
RevokeStaffSession_BestEffort(r) ==
  /\ request[r].pc = "accepted"
  /\ \/ session' = [session EXCEPT ![request[r].token] = Ended(@)]
     \/ UNCHANGED session
  /\ Reaches(r, "signing_off")
  /\ UNCHANGED <<strict, staff, login, cached, tracked, manager, over>>

RevokeStaffSession(r) ==
  /\ request[r].pc = "accepted"
  /\ session' = [session EXCEPT ![request[r].token] = Ended(@)]
  /\ Reaches(r, "signing_off")
  /\ UNCHANGED <<strict, staff, login, cached, tracked, manager, over>>

\* Logout answers 204 whether or not Redis could be reached.
ForgetToken(r) ==
  LET t == request[r].token IN
  /\ request[r].pc = "signing_off"
  /\ cached' \in {cached, cached \ {t}}
  /\ tracked' \in {tracked, tracked \ {t}}
  /\ over' = IF strict THEN over \cup {t} ELSE over
  /\ request' = [request EXCEPT ![r] = NoRequest]
  /\ UNCHANGED <<strict, staff, login, session, manager>>

\* A handler has run to its end, or failed.
Done(r) ==
  /\ request[r].pc = "accepted" /\ Refused(r)
  /\ UNCHANGED <<strict, staff, login, session, cached, tracked, manager, over>>

-----------------------------------------------------------------------------
(* Changing the PIN and deactivation. *)

Bumped(v, pin) == [token |-> v.token + 1, pin |-> v.pin + pin]

MayChange == staff.is.token < MaxChanges

UpdateStaffPIN ==
  /\ MayChange
  /\ staff' = [staff EXCEPT !.is = Bumped(@, 1)]
  /\ over' = over \cup Issued

\* By a request of the member's own or of an owner; it clears no session.
RotatePIN(r) ==
  /\ request[r].pc = "accepted"
  /\ UpdateStaffPIN /\ Refused(r)
  /\ UNCHANGED <<strict, login, session, cached, tracked, manager>>

ResetPIN ==
  /\ manager = AtRest
  /\ UpdateStaffPIN
  /\ manager' = [manager EXCEPT !.pc = "updated"]
  /\ UNCHANGED <<strict, login, session, cached, tracked, request>>

DeactivateStaff ==
  /\ manager = AtRest /\ MayChange
  /\ staff' = [active |-> FALSE, is |-> Bumped(staff.is, 0)]
  /\ over' = over \cup Issued
  /\ manager' = [manager EXCEPT !.pc = "updated"]
  /\ UNCHANGED <<strict, login, session, cached, tracked, request>>

\* Also a session that was opened since the row was updated.
RevokeStaffSessionsForStaff ==
  /\ manager.pc = "updated"
  /\ \/ session' = [t \in Tokens |-> Ended(session[t])]
     \/ UNCHANGED session
  /\ manager' = [manager EXCEPT !.pc = "revoked"]
  /\ UNCHANGED <<strict, staff, login, cached, tracked, request, over>>

ListTokens ==
  /\ manager.pc = "revoked"
  /\ manager' \in {[pc |-> "listed", keys |-> tracked], AtRest}
  /\ UNCHANGED <<strict, staff, login, session, cached, tracked, request, over>>

\* The set goes with the tokens that were read from it.
DeleteTokens ==
  /\ manager.pc = "listed"
  /\ \/ manager.keys # {} /\ cached' = cached \ manager.keys /\ tracked' = {}
     \/ UNCHANGED <<cached, tracked>>
  /\ manager' = AtRest
  /\ UNCHANGED <<strict, staff, login, session, request, over>>

-----------------------------------------------------------------------------
(* Time. *)

\* A login is over long before its session is.
Expire(t) ==
  /\ login[t] = "open" /\ session[t].row = "live"
  /\ session' = [session EXCEPT ![t] = Ended(@)]
  /\ UNCHANGED <<strict, staff, login, cached, tracked, manager, request, over>>

\* An entry expires or is evicted; the set is kept longer than its members'.
RedisForgets(t) ==
  /\ t \in cached
  /\ cached' = cached \ {t}
  /\ UNCHANGED <<strict, staff, login, session, tracked, manager, request, over>>

AccessStep ==
  \/ \E t \in Tokens :
       Verify(t) \/ CreateStaffSession(t) \/ StoreToken(t) \/ HandOut(t) \/ LoginFails(t)
  \/ \E r \in Requests :
       \/ \E t \in Tokens : ReadCached(r, t)
       \/ ReadStaff(r) \/ ReadRow(r)
       \/ RevokeStaffSession(r) \/ ForgetToken(r) \/ Done(r) \/ RotatePIN(r)
  \/ ResetPIN \/ DeactivateStaff
  \/ RevokeStaffSessionsForStaff \/ ListTokens \/ DeleteTokens
  \/ \E t \in Tokens : Expire(t) \/ RedisForgets(t)

-----------------------------------------------------------------------------
AccessTypeOK ==
  /\ strict \in BOOLEAN
  /\ staff \in Staff
  /\ login \in [Tokens -> {"none", "verified", "inserted", "stored", "open", "lost"}]
  /\ session \in [Tokens -> Session]
  /\ cached \subseteq Tokens /\ tracked \subseteq Tokens /\ over \subseteq Tokens
  /\ manager \in Manager
  /\ \A r \in Requests :
       /\ request[r].pc \in {"idle", "known", "current", "accepted", "signing_off"}
       /\ request[r].token \in Tokens \cup {Nothing} /\ request[r].late \in BOOLEAN

(* Once a PIN was changed or the member deactivated, or a sign-off answered   *)
(* in strict mode, no later request with a token of before is accepted,       *)
(* whatever Redis failed to delete or a login was in the middle of.           *)
RevocationIsFinal ==
  \A r \in Requests : request[r].pc \in {"accepted", "signing_off"} => ~request[r].late

(* Signing one device off leaves the member's other sessions alone: a session *)
(* in use ends by its own sign-off, by a change of the staff row or the       *)
(* revocation that follows it, by its age, or with its entry in Redis.        *)
InUse(t) ==
  /\ login[t] = "open" /\ session[t].row = "live" /\ t \in cached
  /\ staff.active /\ staff.is = session[t].is

SignsOff(t) ==
  \E r \in Requests : request[r].token = t /\ request[r].pc # request'[r].pc
                      /\ request[r].pc \in {"accepted", "signing_off"}

SessionsEndForCause ==
  [][\A t \in Tokens : InUse(t) /\ ~InUse(t)' =>
       \/ SignsOff(t)
       \/ staff' # staff
       \/ manager' # manager
       \/ Expire(t) \/ RedisForgets(t)]_accessVars

=============================================================================
