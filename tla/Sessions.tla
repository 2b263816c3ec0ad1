------------------------------ MODULE Sessions ------------------------------
(***************************************************************************)
(* AuthService (apps/backend/src/modules/auth/auth.service.ts): accounts,  *)
(* sessions and the rotation of refresh tokens.                            *)
(*                                                                         *)
(* A request is a sequence of statements on the database, each an action,  *)
(* with a password hash or a token signature in between: requests overlap. *)
(* Every statement takes one unit of time.  A refresh token is known by    *)
(* its session: one token is signed per session, so the comparison with    *)
(* the stored hash cannot fail, and a request with a bad password, token   *)
(* or e-mail changes nothing.  lastLoginAt is left out.                    *)
(***************************************************************************)
EXTENDS Naturals, Sequences

CONSTANTS
  Users,       \* e-mail addresses
  Requests,    \* requests that may be under way at once
  TTL,         \* refreshTokenExpiresIn
  MaxNow       \* bound: statements in all

ASSUME TTLAssumption == TTL \in Nat

VARIABLES
  status,      \* status[u] of the account with that address, or NONE
  sessions,    \* the rows of the sessions table, in the order of creation
  req,         \* req[r]: the request under way, at its next statement
  now,         \* the time: statements made so far, plus one
  lockedAt     \* history: when the account was locked, or 0

vars == <<status, sessions, req, now, lockedAt>>

Statement == now < MaxNow /\ now' = now + 1

\* A request at its next statement.  user, session: what it is for; read: when it
\* read the session; checked: when it read or made the user; both histories.
Request(step, u, i, read) ==
  [step |-> step, user |-> u, session |-> i, read |-> read, checked |-> 0, expires |-> 0]
Idle == Request("idle", "none", 0, 0)

Init ==
  /\ status = [u \in Users |-> "NONE"]
  /\ sessions = <<>>
  /\ req = [r \in Requests |-> Idle]
  /\ now = 1
  /\ lockedAt = [u \in Users |-> 0]

\* Fault: the status is not looked at.
UsableWhenLocked(u) == status[u] # "NONE"
\* login and refresh refuse a locked account.
Usable(u) == status[u] = "ACTIVE"

\* The user is known: the tokens are made, and expire from now on.
Checked(q, u, step) ==
  [step |-> step, user |-> u, session |-> q.session, read |-> q.read,
   checked |-> now, expires |-> now + TTL]

-----------------------------------------------------------------------------
(* register: the address is looked up, and taken when the row is made (it  *)
(* is unique: of two registrations the second then throws).                *)
Register(r, u) ==
  /\ Statement
  /\ req[r] = Idle
  /\ status[u] = "NONE"
  /\ req' = [req EXCEPT ![r] = Request("create", u, 0, 0)]
  /\ UNCHANGED <<status, sessions, lockedAt>>

CreateUser(r) ==
  /\ Statement
  /\ req[r].step = "create"
  /\ LET u == req[r].user IN
       IF status[u] = "NONE"
       THEN /\ status' = [status EXCEPT ![u] = "ACTIVE"]
            /\ req' = [req EXCEPT ![r] = Checked(@, u, "issue")]
       ELSE /\ req' = [req EXCEPT ![r] = Idle]
            /\ UNCHANGED status
  /\ UNCHANGED <<sessions, lockedAt>>

login(r, u) ==
  /\ Statement
  /\ req[r] = Idle
  /\ Usable(u)
  /\ req' = [req EXCEPT ![r] = Checked(@, u, "issue")]
  /\ UNCHANGED <<status, sessions, lockedAt>>

\* The row of a new session of request q, a child of the session it was for.
Row(q) ==
  [owner |-> q.user, parent |-> q.session, expires |-> q.expires, revokedAt |-> 0,
   spentAt |-> 0,                                           \* history: revoked first
   read |-> q.read, checked |-> q.checked, made |-> now]    \* history

\* _createSessionAndIssueTokens, of register and login.
Issue(r) ==
  /\ Statement
  /\ req[r].step = "issue"
  /\ sessions' = Append(sessions, Row(req[r]))
  /\ req' = [req EXCEPT ![r] = Idle]
  /\ UNCHANGED <<status, lockedAt>>

-----------------------------------------------------------------------------
(* refresh: the session is read, then the user; one transaction revokes    *)
(* the session and makes its child, and looks at neither again.            *)
Refresh(r, i) ==
  /\ Statement
  /\ req[r] = Idle
  /\ sessions[i].revokedAt = 0
  /\ sessions[i].expires >= now
  /\ req' = [req EXCEPT ![r] = Request("user", sessions[i].owner, i, now)]
  /\ UNCHANGED <<status, sessions, lockedAt>>

ReadUser(r) ==
  /\ Statement
  /\ req[r].step = "user"
  /\ req' = [req EXCEPT ![r] = IF Usable(@.user) THEN Checked(@, @.user, "rotate") ELSE Idle]
  /\ UNCHANGED <<status, sessions, lockedAt>>

\* Fault: refresh makes the new session and leaves the old one.
RevokedNever(s) == s
\* revokedAt is overwritten; spentAt keeps the first time.
Revoked(s) == [s EXCEPT !.revokedAt = now, !.spentAt = IF @ = 0 THEN now ELSE @]

Rotate(r) ==
  /\ Statement
  /\ req[r].step = "rotate"
  /\ LET i == req[r].session IN
       sessions' = Append([sessions EXCEPT ![i] = Revoked(@)], Row(req[r]))
  /\ req' = [req EXCEPT ![r] = Idle]
  /\ UNCHANGED <<status, lockedAt>>

\* The request ends early: its statement fails or the process stops.
Fail(r) ==
  /\ req[r] # Idle
  /\ req' = [req EXCEPT ![r] = Idle]
  /\ UNCHANGED <<status, sessions, now, lockedAt>>

-----------------------------------------------------------------------------
\* logout: one updateMany, which leaves a revoked session as it is.
logout(i) ==
  /\ Statement
  /\ sessions[i].revokedAt = 0
  /\ sessions' = [sessions EXCEPT ![i] = Revoked(@)]
  /\ UNCHANGED <<status, req, lockedAt>>

\* An operator locks the account in the database.
LockUser(u) ==
  /\ Statement
  /\ status[u] = "ACTIVE"
  /\ status' = [status EXCEPT ![u] = "LOCKED"]
  /\ lockedAt' = [lockedAt EXCEPT ![u] = now]
  /\ UNCHANGED <<sessions, req>>

Next ==
  \/ \E r \in Requests, u \in Users : Register(r, u) \/ login(r, u)
  \/ \E r \in Requests : CreateUser(r) \/ Issue(r) \/ ReadUser(r) \/ Rotate(r) \/ Fail(r)
  \/ \E i \in 1 .. Len(sessions) : logout(i) \/ \E r \in Requests : Refresh(r, i)
  \/ \E u \in Users : LockUser(u)

Spec == Init /\ [][Next]_vars

-----------------------------------------------------------------------------
(* Properties.                                                             *)

(* A refreshed session is spent, and so is one that was logged out: every  *)
(* child was made by a request that had read it before (and before it      *)
(* expired).  Two refreshes that overlap both get a session; one that      *)
(* starts after either has committed, or after the logout, gets none.      *)
SpentForGood ==
  \A c \in 1 .. Len(sessions) : sessions[c].parent # 0 =>
    LET p == sessions[sessions[c].parent] IN
    /\ p.revokedAt # 0
    /\ p.made < sessions[c].read
    /\ sessions[c].read < p.spentAt
    /\ sessions[c].read <= p.expires
    /\ p.owner = sessions[c].owner

(* Locking an account stops it: whatever is under way, a session made      *)
(* after the lock belongs to a request that looked before it.              *)
LockedOut ==
  \A c \in 1 .. Len(sessions) :
    LET lock == lockedAt[sessions[c].owner] IN lock # 0 => sessions[c].checked < lock
=============================================================================
