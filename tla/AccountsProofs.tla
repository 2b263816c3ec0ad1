--------------------------- MODULE AccountsProofs ---------------------------
(***************************************************************************)
(* Proofs about what a user's account rests on.  First accounts and        *)
(* sessions, for any number of accounts, requests under way and            *)
(* statements; then the ledger of the wallets, for any wallets, starting   *)
(* rows, transactions and page size, and a clock that runs on.             *)
(***************************************************************************)
EXTENDS Sessions, Ledger, SequenceTheorems, FiniteSetTheorems, TLAPS

-----------------------------------------------------------------------------
(* Accounts and sessions.                                                  *)

Rows == [owner : Users, parent : Nat, expires : Nat, revokedAt : Nat, spentAt : Nat,
         read : Nat, checked : Nat, made : Nat]
ReqType ==
  [step : {"idle", "create", "issue", "user", "rotate"}, user : Users \cup {"none"},
   session : Nat, read : Nat, checked : Nat, expires : Nat]
Types ==
  /\ now \in Nat \ {0}
  /\ status \in [Users -> {"NONE", "ACTIVE", "LOCKED"}]
  /\ lockedAt \in [Users -> Nat]
  /\ sessions \in Seq(Rows)
  /\ req \in [Requests -> ReqType]

\* Only a locked account has a time of its lock.
LockOK == \A u \in Users : lockedAt[u] # 0 => status[u] = "LOCKED"

\* What a row records happened in the past; revokedAt and spentAt agree.
RowOK(s) ==
  /\ s.made < now /\ s.checked < now
  /\ s.revokedAt # 0 <=> s.spentAt # 0
  /\ lockedAt[s.owner] # 0 => s.checked < lockedAt[s.owner]
RowsOK == \A i \in 1 .. Len(sessions) : RowOK(sessions[i])

\* A request that makes a session looked at the user before a lock.
CheckedOK(q) ==
  /\ q.user \in Users
  /\ q.checked < now
  /\ lockedAt[q.user] # 0 => q.checked < lockedAt[q.user]

\* A request that refreshes read its session while it could be refreshed.
ReadOK(q) ==
  /\ q.user \in Users
  /\ q.session \in 1 .. Len(sessions)
  /\ q.read < now
  /\ LET p == sessions[q.session] IN
       /\ p.owner = q.user /\ p.made < q.read /\ q.read <= p.expires
       /\ p.spentAt # 0 => q.read < p.spentAt

ReqOK(q) ==
  /\ q.step = "create" => q.user \in Users /\ q.session = 0
  /\ q.step = "issue" => CheckedOK(q) /\ q.session = 0
  /\ q.step = "user" => ReadOK(q)
  /\ q.step = "rotate" => ReadOK(q) /\ CheckedOK(q)
ReqsOK == \A r \in Requests : ReqOK(req[r])

\* The parent of a row is an older row.
ParentsOK == \A c \in 1 .. Len(sessions) : sessions[c].parent < c

Inv == Types /\ LockOK /\ RowsOK /\ ReqsOK /\ ParentsOK /\ SpentForGood

LEMMA IdleType == Idle \in ReqType
BY DEF Idle, Request, ReqType

LEMMA CheckedType ==
  ASSUME now \in Nat, NEW q \in ReqType, NEW u \in Users, NEW step \in {"issue", "rotate"}
  PROVE  /\ Checked(q, u, step) \in ReqType
         /\ Checked(q, u, step).step = step /\ Checked(q, u, step).user = u
         /\ Checked(q, u, step).checked = now
         /\ Checked(q, u, step).session = q.session /\ Checked(q, u, step).read = q.read
BY TTLAssumption DEF Checked, ReqType

\* A statement of request r that gives it the state q.
LEMMA ReqTypes ==
  ASSUME Types, NEW r \in Requests, NEW q \in ReqType, req' = [req EXCEPT ![r] = q]
  PROVE  /\ req' \in [Requests -> ReqType]
         /\ req'[r] = q
         /\ \A p \in Requests \ {r} : req'[p] = req[p]
BY DEF Types

LEMMA InitInv == Init => Inv
BY IdleType DEF Init, Inv, Types, LockOK, RowsOK, ReqsOK, ReqOK, ParentsOK, SpentForGood, Idle, Request

-----------------------------------------------------------------------------
(* A statement that leaves the sessions alone.                             *)

LEMMA SameRow ==
  ASSUME Types, now' = now \/ now' = now + 1,
         \A u \in Users : lockedAt'[u] = lockedAt[u] \/ lockedAt'[u] = now,
         NEW i \in 1 .. Len(sessions), sessions[i] \in Rows, RowOK(sessions[i]),
         sessions' = sessions
  PROVE  RowOK(sessions[i])'
<1> DEFINE s == sessions[i]
<1>1. /\ s.owner \in Users /\ s.made \in Nat /\ s.checked \in Nat /\ now \in Nat
      /\ lockedAt[s.owner] \in Nat
  BY DEF Rows, Types
<1>2. /\ s.made < now /\ s.checked < now /\ (s.revokedAt # 0 <=> s.spentAt # 0)
      /\ lockedAt[s.owner] # 0 => s.checked < lockedAt[s.owner]
  BY DEF RowOK
<1>3. s.made < now' /\ s.checked < now'
  BY <1>1, <1>2
<1>4. lockedAt'[s.owner] # 0 => s.checked < lockedAt'[s.owner]
  BY <1>1, <1>2
<1> QED BY <1>2, <1>3, <1>4 DEF RowOK

LEMMA SameReq ==
  ASSUME Types, now' = now \/ now' = now + 1,
         \A u \in Users : lockedAt'[u] = lockedAt[u] \/ lockedAt'[u] = now,
         sessions' = sessions, NEW p \in Requests, req'[p] = req[p], ReqOK(req[p])
  PROVE  ReqOK(req[p])'
<1> DEFINE q == req[p]
<1>1. q \in ReqType /\ now \in Nat /\ lockedAt \in [Users -> Nat]
  BY DEF Types
<1>2. q.read \in Nat /\ q.checked \in Nat
  BY <1>1 DEF ReqType
<1>3. ReadOK(q) => ReadOK(req[p])'
  BY <1>1, <1>2 DEF ReadOK
<1>4. CheckedOK(q) => CheckedOK(req[p])'
  <2> SUFFICES ASSUME CheckedOK(q)
               PROVE  /\ q.user \in Users /\ q.checked < now'
                      /\ lockedAt'[q.user] # 0 => q.checked < lockedAt'[q.user]
    BY DEF CheckedOK
  <2>1. /\ q.user \in Users /\ q.checked < now
        /\ lockedAt[q.user] # 0 => q.checked < lockedAt[q.user]
    BY DEF CheckedOK
  <2> QED BY <1>1, <1>2, <2>1
<1> QED BY <1>3, <1>4 DEF ReqOK

LEMMA SameSessions ==
  ASSUME Inv, Types', sessions' = sessions, now' = now \/ now' = now + 1,
         LockOK', \A u \in Users : lockedAt'[u] = lockedAt[u] \/ lockedAt'[u] = now,
         now' = now => lockedAt' = lockedAt,
         NEW r \in Requests, \A q \in Requests \ {r} : req'[q] = req[q], ReqOK(req[r])' 
  PROVE  Inv'
<1>1. RowsOK'
  <2> SUFFICES ASSUME NEW i \in 1 .. Len(sessions) PROVE RowOK(sessions[i])'
    BY DEF RowsOK
  <2>1. sessions[i] \in Rows /\ RowOK(sessions[i])
    BY DEF Inv, Types, RowsOK
  <2> QED BY <2>1, SameRow DEF Inv
<1>2. ReqsOK'
  <2> SUFFICES ASSUME NEW q \in Requests, q # r PROVE ReqOK(req[q])'
    BY DEF ReqsOK
  <2>1. req'[q] = req[q] /\ ReqOK(req[q])
    BY DEF Inv, ReqsOK
  <2> QED BY <2>1, SameReq DEF Inv
<1>3. ParentsOK' /\ SpentForGood'
  BY DEF Inv, ParentsOK, SpentForGood
<1> QED BY <1>1, <1>2, <1>3 DEF Inv

LEMMA RegisterInv ==
  ASSUME Inv, NEW r \in Requests, NEW u \in Users, Register(r, u)
  PROVE  Inv'
<1> DEFINE q == Request("create", u, 0, 0)
<1>1. q \in ReqType /\ q.step = "create" /\ q.user = u /\ q.session = 0
  BY DEF Request, ReqType
<1>2. /\ sessions' = sessions /\ now' = now + 1 /\ lockedAt' = lockedAt /\ status' = status
      /\ req' = [req EXCEPT ![r] = q]
  BY DEF Register, Statement
<1>3. req' \in [Requests -> ReqType] /\ req'[r] = q /\ \A p \in Requests \ {r} : req'[p] = req[p]
  BY <1>1, <1>2, ReqTypes DEF Inv
<1>4. Types' /\ LockOK'
  BY <1>2, <1>3 DEF Inv, Types, LockOK
<1>5. ReqOK(req[r])'
  BY <1>1, <1>3 DEF ReqOK
<1> QED BY <1>2, <1>3, <1>4, <1>5, SameSessions DEF Inv, Types

LEMMA LoginInv ==
  ASSUME Inv, NEW r \in Requests, NEW u \in Users, login(r, u)
  PROVE  Inv'
<1> DEFINE q == Checked(Idle, u, "issue")
<1>1. /\ q \in ReqType /\ q.step = "issue" /\ q.user = u /\ q.checked = now /\ q.session = 0
  BY IdleType, CheckedType DEF Inv, Types, Idle, Request
<1>2. /\ sessions' = sessions /\ now' = now + 1 /\ lockedAt' = lockedAt /\ status' = status
      /\ req' = [req EXCEPT ![r] = q]
  BY DEF login, Statement
<1>3. req' \in [Requests -> ReqType] /\ req'[r] = q /\ \A p \in Requests \ {r} : req'[p] = req[p]
  BY <1>1, <1>2, ReqTypes DEF Inv
<1>4. Types' /\ LockOK'
  BY <1>2, <1>3 DEF Inv, Types, LockOK
<1>5. lockedAt[u] = 0
  BY DEF login, Usable, Inv, LockOK
<1>6. ReqOK(req[r])'
  BY <1>1, <1>2, <1>3, <1>5 DEF ReqOK, CheckedOK, Inv, Types
<1> QED BY <1>2, <1>3, <1>4, <1>6, SameSessions DEF Inv, Types

LEMMA CreateUserInv ==
  ASSUME Inv, NEW r \in Requests, CreateUser(r)
  PROVE  Inv'
<1> DEFINE u == req[r].user
           q == IF status[u] = "NONE" THEN Checked(req[r], u, "issue") ELSE Idle
<1>1. u \in Users /\ req[r].session = 0 /\ req[r] \in ReqType /\ now \in Nat
  BY DEF CreateUser, Inv, ReqsOK, ReqOK, Types
<1>2. sessions' = sessions /\ now' = now + 1 /\ lockedAt' = lockedAt
  BY DEF CreateUser, Statement
<1>3. req' = [req EXCEPT ![r] = q]
  BY DEF CreateUser, Inv, Types
<1>4. q \in ReqType
  BY <1>1, IdleType, CheckedType
<1>5. req' \in [Requests -> ReqType] /\ req'[r] = q /\ \A p \in Requests \ {r} : req'[p] = req[p]
  BY <1>3, <1>4, ReqTypes DEF Inv
<1>6. Types' /\ LockOK'
  BY <1>1, <1>2, <1>5 DEF CreateUser, Inv, Types, LockOK
<1>7. ReqOK(req[r])'
  <2>1. CASE status[u] = "NONE"
    <3>1. lockedAt[u] = 0
      BY <1>1, <2>1 DEF Inv, LockOK
    <3>2. q.step = "issue" /\ q.user = u /\ q.session = 0 /\ q.checked = now
      BY <1>1, <2>1, CheckedType
    <3> QED BY <1>1, <1>2, <1>5, <3>1, <3>2 DEF ReqOK, CheckedOK
  <2>2. CASE status[u] # "NONE"
    BY <1>5, <2>2 DEF ReqOK, Idle, Request
  <2> QED BY <2>1, <2>2
<1> QED BY <1>1, <1>2, <1>5, <1>6, <1>7, SameSessions

LEMMA RefreshInv ==
  ASSUME Inv, NEW r \in Requests, NEW i \in 1 .. Len(sessions), Refresh(r, i)
  PROVE  Inv'
<1> DEFINE q == Request("user", sessions[i].owner, i, now)
<1>1. sessions[i] \in Rows /\ RowOK(sessions[i]) /\ now \in Nat
  BY DEF Inv, Types, RowsOK
<1>2. /\ q \in ReqType /\ q.step = "user" /\ q.user = sessions[i].owner
      /\ q.session = i /\ q.read = now
  BY <1>1 DEF Request, ReqType, Rows
<1>3. /\ sessions' = sessions /\ now' = now + 1 /\ lockedAt' = lockedAt /\ status' = status
      /\ req' = [req EXCEPT ![r] = q]
  BY DEF Refresh, Statement
<1>4. req' \in [Requests -> ReqType] /\ req'[r] = q /\ \A p \in Requests \ {r} : req'[p] = req[p]
  BY <1>2, <1>3, ReqTypes DEF Inv
<1>5. Types' /\ LockOK'
  BY <1>3, <1>4 DEF Inv, Types, LockOK
<1>6. ReadOK(req[r])'
  <2>1. /\ sessions[i].made < now /\ now <= sessions[i].expires
        /\ sessions[i].spentAt = 0 /\ sessions[i].owner \in Users
    BY <1>1 DEF Refresh, RowOK, Rows
  <2> QED BY <1>1, <1>2, <1>3, <1>4, <2>1 DEF ReadOK
<1>7. ReqOK(req[r])'
  BY <1>2, <1>4, <1>6 DEF ReqOK
<1> QED BY <1>1, <1>3, <1>4, <1>5, <1>7, SameSessions

LEMMA ReadUserInv ==
  ASSUME Inv, NEW r \in Requests, ReadUser(r)
  PROVE  Inv'
<1> DEFINE u == req[r].user
           q == IF Usable(u) THEN Checked(req[r], u, "rotate") ELSE Idle
<1>1. ReadOK(req[r]) /\ u \in Users /\ req[r] \in ReqType /\ now \in Nat
  BY DEF ReadUser, Inv, ReqsOK, ReqOK, ReadOK, Types
<1>2. /\ sessions' = sessions /\ now' = now + 1 /\ lockedAt' = lockedAt /\ status' = status
  BY DEF ReadUser, Statement
<1>3. req' = [req EXCEPT ![r] = q]
  BY DEF ReadUser, Inv, Types
<1>4. q \in ReqType
  BY <1>1, IdleType, CheckedType
<1>5. req' \in [Requests -> ReqType] /\ req'[r] = q /\ \A p \in Requests \ {r} : req'[p] = req[p]
  BY <1>3, <1>4, ReqTypes DEF Inv
<1>6. Types' /\ LockOK'
  BY <1>2, <1>5 DEF Inv, Types, LockOK
<1>7. ReqOK(req[r])'
  <2>1. CASE Usable(u)
    <3>1. lockedAt[u] = 0
      BY <1>1, <2>1 DEF Usable, Inv, LockOK
    <3>2. /\ q.step = "rotate" /\ q.user = u /\ q.checked = now
          /\ q.session = req[r].session /\ q.read = req[r].read
      BY <1>1, <2>1, CheckedType
    <3>3. ReadOK(req[r])'
      BY <1>1, <1>2, <1>5, <3>2 DEF ReadOK, ReqType
    <3>4. CheckedOK(req[r])'
      BY <1>1, <1>2, <1>5, <3>1, <3>2 DEF CheckedOK
    <3> QED BY <1>5, <3>2, <3>3, <3>4 DEF ReqOK
  <2>2. CASE ~Usable(u)
    BY <1>5, <2>2 DEF ReqOK, Idle, Request
  <2> QED BY <2>1, <2>2
<1> QED BY <1>1, <1>2, <1>5, <1>6, <1>7, SameSessions

LEMMA OtherInv ==
  ASSUME Inv
  PROVE  /\ \A r \in Requests : Fail(r) => Inv'
         /\ \A u \in Users : LockUser(u) => Inv'
         /\ UNCHANGED vars => Inv'
<1>1. ASSUME NEW r \in Requests, Fail(r)
      PROVE  Inv'
  <2>1. Types' /\ LockOK'
    BY <1>1, IdleType DEF Fail, Inv, Types, LockOK
  <2>2. ReqOK(req[r])' /\ \A q \in Requests \ {r} : req'[q] = req[q]
    BY <1>1 DEF Fail, ReqOK, Idle, Request, Inv, Types
  <2> QED BY <1>1, <2>1, <2>2, SameSessions DEF Fail, Inv, Types
<1>2. ASSUME NEW u \in Users, LockUser(u)
      PROVE  Inv'
  <2>1. Types' /\ LockOK'
    BY <1>2 DEF LockUser, Statement, Inv, Types, LockOK
  <2>2. /\ req' = req /\ sessions' = sessions /\ now' = now + 1
        /\ \A v \in Users : lockedAt'[v] = lockedAt[v] \/ lockedAt'[v] = now
    BY <1>2 DEF LockUser, Statement, Inv, Types
  <2>3. \A q \in Requests : ReqOK(req[q])'
    <3> SUFFICES ASSUME NEW q \in Requests PROVE ReqOK(req[q])'
      OBVIOUS
    <3>1. ReqOK(req[q])
      BY DEF Inv, ReqsOK
    <3> QED BY <2>2, <3>1, SameReq DEF Inv
  <2>4. RowsOK'
    <3> SUFFICES ASSUME NEW i \in 1 .. Len(sessions) PROVE RowOK(sessions[i])'
      BY <2>2 DEF RowsOK
    <3>1. sessions[i] \in Rows /\ RowOK(sessions[i])
      BY DEF Inv, Types, RowsOK
    <3> QED BY <2>1, <2>2, <3>1, SameRow DEF Inv
  <2> QED BY <2>1, <2>2, <2>3, <2>4 DEF Inv, ReqsOK, ParentsOK, SpentForGood
<1>3. ASSUME UNCHANGED vars
      PROVE  Inv'
  BY <1>3 DEF vars, Inv, Types, LockOK, RowsOK, RowOK, ReqsOK, ReqOK, ReadOK, CheckedOK,
              ParentsOK, SpentForGood
<1> QED BY <1>1, <1>2, <1>3

-----------------------------------------------------------------------------
(* Statements that write sessions: old rows stay or are revoked, and at    *)
(* most one row is added.                                                  *)

Spent(c) ==
  sessions[c].parent # 0 =>
    LET p == sessions[sessions[c].parent] IN
    /\ p.revokedAt # 0
    /\ p.made < sessions[c].read
    /\ sessions[c].read < p.spentAt
    /\ sessions[c].read <= p.expires
    /\ p.owner = sessions[c].owner

LEMMA SpentRows == SpentForGood <=> \A c \in 1 .. Len(sessions) : Spent(c)
BY DEF SpentForGood, Spent

\* What a statement may do to the row j.
Later(j) ==
  LET s == sessions[j]  t == sessions'[j] IN
  /\ t \in Rows
  /\ t.owner = s.owner /\ t.parent = s.parent /\ t.expires = s.expires
  /\ t.read = s.read /\ t.checked = s.checked /\ t.made = s.made
  /\ \/ t.revokedAt = s.revokedAt /\ t.spentAt = s.spentAt
     \/ t.revokedAt = now /\ t.spentAt = IF s.spentAt = 0 THEN now ELSE s.spentAt

LEMMA RevokedRow ==
  ASSUME now \in Nat, NEW s \in Rows
  PROVE  /\ Revoked(s) \in Rows
         /\ Revoked(s).owner = s.owner /\ Revoked(s).parent = s.parent
         /\ Revoked(s).expires = s.expires /\ Revoked(s).read = s.read
         /\ Revoked(s).checked = s.checked /\ Revoked(s).made = s.made
         /\ Revoked(s).revokedAt = now
         /\ Revoked(s).spentAt = IF s.spentAt = 0 THEN now ELSE s.spentAt
BY DEF Revoked, Rows

LEMMA Revoking ==
  ASSUME Types, NEW i \in 1 .. Len(sessions)
  PROVE  LET mid == [sessions EXCEPT ![i] = Revoked(@)] IN
         /\ mid \in Seq(Rows) /\ Len(mid) = Len(sessions)
         /\ \A j \in 1 .. Len(sessions) :
              mid[j] = IF j = i THEN Revoked(sessions[i]) ELSE sessions[j]
<1>1. sessions \in Seq(Rows) /\ sessions[i] \in Rows /\ now \in Nat
  BY DEF Types
<1>2. Revoked(sessions[i]) \in Rows
  BY <1>1, RevokedRow
<1> QED BY <1>1, <1>2, ExceptSeq

LEMMA LaterRow ==
  ASSUME Types, NEW j \in 1 .. Len(sessions),
         sessions'[j] = sessions[j] \/ sessions'[j] = Revoked(sessions[j])
  PROVE  Later(j)
<1>1. sessions[j] \in Rows /\ now \in Nat
  BY DEF Types
<1> QED BY <1>1, RevokedRow DEF Later

LEMMA OldRows ==
  ASSUME Inv, now' = now + 1, lockedAt' = lockedAt, sessions' \in Seq(Rows),
         Len(sessions') >= Len(sessions), \A j \in 1 .. Len(sessions) : Later(j)
  PROVE  /\ \A j \in 1 .. Len(sessions) : RowOK(sessions[j])' /\ Spent(j)'
         /\ \A p \in Requests : req'[p] = req[p] => ReqOK(req[p])'
<1>1. /\ now \in Nat /\ now # 0 /\ lockedAt \in [Users -> Nat] /\ sessions \in Seq(Rows)
      /\ Len(sessions) \in Nat /\ Len(sessions') \in Nat
  BY DEF Inv, Types
<1>2. ASSUME NEW j \in 1 .. Len(sessions)
      PROVE  RowOK(sessions[j])'
  <2>1. sessions[j] \in Rows /\ RowOK(sessions[j]) /\ Later(j)
    BY <1>1 DEF Inv, RowsOK
  <2>2. sessions[j].revokedAt # 0 <=> sessions[j].spentAt # 0
    BY <2>1 DEF RowOK
  <2>3. sessions'[j].revokedAt # 0 <=> sessions'[j].spentAt # 0
    BY <1>1, <2>1, <2>2 DEF Later
  <2>4. /\ sessions'[j].made = sessions[j].made /\ sessions'[j].checked = sessions[j].checked
        /\ sessions'[j].owner = sessions[j].owner
    BY <2>1 DEF Later
  <2>5. sessions[j].made \in Nat /\ sessions[j].checked \in Nat
    BY <2>1 DEF Rows
  <2>6. /\ sessions[j].made < now /\ sessions[j].checked < now
        /\ lockedAt[sessions[j].owner] # 0 => sessions[j].checked < lockedAt[sessions[j].owner]
    BY <2>1 DEF RowOK
  <2>7. sessions'[j].made < now' /\ sessions'[j].checked < now'
    BY <1>1, <2>4, <2>5, <2>6
  <2> QED BY <2>3, <2>4, <2>6, <2>7 DEF RowOK
<1>3. ASSUME NEW c \in 1 .. Len(sessions), sessions'[c].parent # 0
      PROVE  Spent(c)'
  <2> DEFINE i == sessions[c].parent
             s == sessions[i]
             t == sessions'[i]
  <2>0. sessions[c] \in Rows /\ Later(c)
    BY <1>1
  <2>1. /\ sessions'[c].parent = i /\ i # 0 /\ i < c /\ i \in Nat
        /\ sessions[c].read \in Nat
    BY <1>3, <2>0 DEF Inv, ParentsOK, Later, Rows
  <2>2. i \in 1 .. Len(sessions)
    BY <1>1, <2>1
  <2>3. s \in Rows /\ Later(i)
    BY <1>1, <2>2
  <2>4. /\ s.revokedAt # 0 /\ s.made < sessions[c].read /\ sessions[c].read < s.spentAt
        /\ sessions[c].read <= s.expires /\ s.owner = sessions[c].owner
    BY <2>1, SpentRows DEF Inv, Spent
  <2>5. s.spentAt # 0
    <3>1. s.spentAt \in Nat
      BY <2>3 DEF Rows
    <3> QED BY <2>1, <2>4, <3>1
  <2>6. /\ t.owner = s.owner /\ t.made = s.made /\ t.expires = s.expires
        /\ t.revokedAt # 0 /\ t.spentAt = s.spentAt
    BY <1>1, <2>3, <2>4, <2>5 DEF Later
  <2>7. sessions'[c].read = sessions[c].read /\ sessions'[c].owner = sessions[c].owner
    BY <2>0 DEF Later
  <2> QED BY <2>1, <2>4, <2>6, <2>7 DEF Spent
<1>4. ASSUME NEW p \in Requests, req'[p] = req[p]
      PROVE  ReqOK(req[p])'
  <2> DEFINE q == req[p]
  <2>1. q \in ReqType /\ ReqOK(q)
    BY DEF Inv, Types, ReqsOK
  <2>2. CheckedOK(q) => CheckedOK(req[p])'
    BY <1>1, <1>4, <2>1 DEF CheckedOK, ReqType
  <2>3. ASSUME ReadOK(q)
        PROVE  ReadOK(req[p])'
    <3> DEFINE s == sessions[q.session]
               t == sessions'[q.session]
    <3>1. /\ q.user \in Users /\ q.session \in 1 .. Len(sessions) /\ q.read < now
          /\ s.owner = q.user /\ s.made < q.read /\ q.read <= s.expires
          /\ s.spentAt # 0 => q.read < s.spentAt
      BY <2>3 DEF ReadOK
    <3>2. Later(q.session)
      BY <3>1
    <3>3. t.owner = q.user /\ t.made < q.read /\ q.read <= t.expires
      BY <3>1, <3>2 DEF Later
    <3>4. t.spentAt # 0 => q.read < t.spentAt
      BY <3>1, <3>2 DEF Later
    <3>5. q.read < now'
      BY <1>1, <2>1, <3>1 DEF ReqType
    <3>6. q.session \in 1 .. Len(sessions')
      BY <1>1, <3>1
    <3> QED BY <1>4, <3>1, <3>3, <3>4, <3>5, <3>6 DEF ReadOK
  <2> QED BY <1>4, <2>1, <2>2, <2>3 DEF ReqOK
<1> QED BY <1>2, <1>3, <1>4 DEF Spent

LEMMA AddedInv ==
  ASSUME Inv, now' = now + 1, lockedAt' = lockedAt, status' = status,
         sessions' \in Seq(Rows), \A j \in 1 .. Len(sessions) : Later(j),
         NEW r \in Requests, req' = [req EXCEPT ![r] = Idle],
         Len(sessions') = Len(sessions) + 1, sessions'[Len(sessions) + 1].parent < Len(sessions) + 1,
         RowOK(sessions[Len(sessions)])', Spent(Len(sessions))'
  PROVE  Inv'
<1>1. Len(sessions) \in Nat /\ now \in Nat /\ sessions \in Seq(Rows)
  BY DEF Inv, Types
<1>2. /\ req' \in [Requests -> ReqType] /\ req'[r] = Idle
      /\ \A p \in Requests \ {r} : req'[p] = req[p]
  BY IdleType, ReqTypes DEF Inv
<1>3. Types' /\ LockOK'
  BY <1>1, <1>2 DEF Inv, Types, LockOK
<1>4. /\ \A j \in 1 .. Len(sessions) : RowOK(sessions[j])' /\ Spent(j)'
      /\ \A p \in Requests : req'[p] = req[p] => ReqOK(req[p])'
  BY <1>1, OldRows
<1>5. ReqsOK'
  <2>1. ReqOK(req[r])'
    BY <1>2 DEF ReqOK, Idle, Request
  <2> QED BY <1>2, <1>4, <2>1 DEF ReqsOK
<1>6. \A j \in 1 .. Len(sessions') : j \in 1 .. Len(sessions) \/ j = Len(sessions) + 1
  BY <1>1
<1>7. ParentsOK'
  <2> SUFFICES ASSUME NEW c \in 1 .. Len(sessions') PROVE sessions'[c].parent < c
    BY DEF ParentsOK
  <2>1. CASE c \in 1 .. Len(sessions)
    BY <2>1 DEF Later, Inv, ParentsOK
  <2> QED BY <1>6, <2>1
<1>8. RowsOK'
  <2>1. RowOK(sessions[Len(sessions)])' /\ Len(sessions') = Len(sessions) + 1
    OBVIOUS
  <2>2. \A j \in 1 .. Len(sessions') : RowOK(sessions[j])'
    BY <1>4, <1>6, <2>1
  <2> QED BY <2>2 DEF RowsOK
<1>9. SpentForGood'
  <2>1. \A c \in 1 .. Len(sessions') : Spent(c)'
    BY <1>4, <1>6
  <2> QED BY <2>1 DEF SpentForGood, Spent
<1> QED BY <1>3, <1>5, <1>7, <1>8, <1>9 DEF Inv

\* The new row of a request.
LEMMA NewRow ==
  ASSUME Types, NEW q \in ReqType, q.user \in Users
  PROVE  /\ Row(q) \in Rows /\ Row(q).owner = q.user /\ Row(q).parent = q.session
         /\ Row(q).read = q.read /\ Row(q).checked = q.checked /\ Row(q).made = now
         /\ Row(q).revokedAt = 0 /\ Row(q).spentAt = 0
BY DEF Types, ReqType, Row, Rows

LEMMA IssueInv ==
  ASSUME Inv, NEW r \in Requests, Issue(r)
  PROVE  Inv'
<1> DEFINE q == req[r]
           m == Len(sessions)
<1>1. CheckedOK(q) /\ q.session = 0 /\ q \in ReqType /\ q.user \in Users
  BY DEF Issue, Inv, ReqsOK, ReqOK, Types, CheckedOK
<1>2. /\ now' = now + 1 /\ lockedAt' = lockedAt /\ status' = status
      /\ req' = [req EXCEPT ![r] = Idle] /\ sessions' = Append(sessions, Row(q))
  BY DEF Issue, Statement
<1>3. Row(q) \in Rows /\ Row(q).parent = 0
  BY <1>1, NewRow DEF Inv
<1>4. /\ sessions' \in Seq(Rows) /\ Len(sessions') = m + 1 /\ sessions'[m + 1] = Row(q)
      /\ m \in Nat /\ now \in Nat
      /\ \A j \in 1 .. m : sessions'[j] = sessions[j]
  BY <1>2, <1>3 DEF Inv, Types
<1>5. \A j \in 1 .. m : Later(j)
  BY <1>4, LaterRow DEF Inv
<1>6. RowOK(sessions[Len(sessions)])' /\ Spent(Len(sessions))'
  <2>1. /\ Row(q).made < now' /\ Row(q).checked < now' /\ Row(q).revokedAt = 0 /\ Row(q).spentAt = 0
        /\ lockedAt[Row(q).owner] # 0 => Row(q).checked < lockedAt[Row(q).owner]
    BY <1>1, <1>2, <1>4, NewRow DEF Inv, CheckedOK, ReqType
  <2> QED BY <1>2, <1>3, <1>4, <2>1 DEF RowOK, Spent
<1>7. sessions'[Len(sessions) + 1].parent < Len(sessions) + 1
  BY <1>3, <1>4
<1> QED BY <1>2, <1>4, <1>5, <1>6, <1>7, AddedInv

LEMMA RotateInv ==
  ASSUME Inv, NEW r \in Requests, Rotate(r)
  PROVE  Inv'
<1> DEFINE q == req[r]
           i == q.session
           m == Len(sessions)
           mid == [sessions EXCEPT ![i] = Revoked(@)]
<1>1. ReadOK(q) /\ CheckedOK(q) /\ q \in ReqType /\ q.user \in Users /\ i \in 1 .. m
  BY DEF Rotate, Inv, ReqsOK, ReqOK, Types, CheckedOK, ReadOK
<1>2. /\ now' = now + 1 /\ lockedAt' = lockedAt /\ status' = status
      /\ req' = [req EXCEPT ![r] = Idle] /\ sessions' = Append(mid, Row(q))
  BY DEF Rotate, Statement
<1>3. Row(q) \in Rows /\ Row(q).parent = i /\ Row(q).read = q.read /\ Row(q).owner = q.user
  BY <1>1, NewRow DEF Inv
<1>4. /\ mid \in Seq(Rows) /\ Len(mid) = m /\ m \in Nat /\ now \in Nat /\ now # 0
      /\ \A j \in 1 .. m : mid[j] = IF j = i THEN Revoked(sessions[i]) ELSE sessions[j]
  BY <1>1, Revoking DEF Inv, Types
<1>5. /\ sessions' \in Seq(Rows) /\ Len(sessions') = m + 1 /\ sessions'[m + 1] = Row(q)
      /\ \A j \in 1 .. m : sessions'[j] = mid[j]
  BY <1>2, <1>3, <1>4
<1>6. \A j \in 1 .. m : Later(j)
  BY <1>4, <1>5, LaterRow DEF Inv
<1>7. RowOK(sessions[Len(sessions)])'
  <2>1. /\ Row(q).made < now' /\ Row(q).checked < now' /\ Row(q).revokedAt = 0 /\ Row(q).spentAt = 0
        /\ lockedAt[Row(q).owner] # 0 => Row(q).checked < lockedAt[Row(q).owner]
    BY <1>1, <1>2, <1>4, NewRow DEF Inv, CheckedOK, ReqType
  <2> QED BY <1>2, <1>5, <2>1 DEF RowOK
<1>8. Spent(Len(sessions))'
  <2> DEFINE t == sessions'[i]
  <2>1. /\ sessions[i] \in Rows /\ t = Revoked(sessions[i])
    BY <1>1, <1>4, <1>5 DEF Inv, Types
  <2>2. /\ sessions[i].owner = q.user /\ sessions[i].made < q.read /\ q.read <= sessions[i].expires
        /\ sessions[i].spentAt # 0 => q.read < sessions[i].spentAt
        /\ q.read < now
    BY <1>1 DEF ReadOK
  <2>3. /\ t.revokedAt = now /\ t.made = sessions[i].made /\ t.expires = sessions[i].expires
        /\ t.owner = sessions[i].owner
        /\ t.spentAt = IF sessions[i].spentAt = 0 THEN now ELSE sessions[i].spentAt
    BY <1>4, <2>1, RevokedRow
  <2>4. q.read < t.spentAt
    BY <2>2, <2>3
  <2> QED BY <1>3, <1>4, <1>5, <2>2, <2>3, <2>4 DEF Spent
<1>9. sessions'[Len(sessions) + 1].parent < Len(sessions) + 1
  BY <1>1, <1>3, <1>4, <1>5
<1> QED BY <1>2, <1>5, <1>6, <1>7, <1>8, <1>9, AddedInv

LEMMA LogoutInv ==
  ASSUME Inv, NEW i \in 1 .. Len(sessions), logout(i)
  PROVE  Inv'
<1>1. /\ now' = now + 1 /\ lockedAt' = lockedAt /\ status' = status /\ req' = req
      /\ sessions' = [sessions EXCEPT ![i] = Revoked(@)]
  BY DEF logout, Statement
<1>2. /\ sessions' \in Seq(Rows) /\ Len(sessions') = Len(sessions)
      /\ \A j \in 1 .. Len(sessions) :
           sessions'[j] = IF j = i THEN Revoked(sessions[i]) ELSE sessions[j]
  BY <1>1, Revoking DEF Inv
<1>3. \A j \in 1 .. Len(sessions) : Later(j)
  BY <1>2, LaterRow DEF Inv
<1>4. Len(sessions) \in Nat /\ now \in Nat
  BY DEF Inv, Types
<1>5. /\ \A j \in 1 .. Len(sessions) : RowOK(sessions[j])' /\ Spent(j)'
      /\ \A p \in Requests : req'[p] = req[p] => ReqOK(req[p])'
  BY <1>1, <1>2, <1>3, <1>4, OldRows
<1>6. Types' /\ LockOK'
  BY <1>1, <1>2 DEF Inv, Types, LockOK
<1>7. RowsOK' /\ ReqsOK'
  BY <1>1, <1>2, <1>5 DEF RowsOK, ReqsOK
<1>8. ParentsOK'
  BY <1>2, <1>3 DEF Inv, ParentsOK, Later
<1>9. SpentForGood'
  BY <1>2, <1>5 DEF SpentForGood, Spent
<1> QED BY <1>6, <1>7, <1>8, <1>9 DEF Inv

LEMMA NextInv == Inv /\ [Next]_vars => Inv'
<1> SUFFICES ASSUME Inv, [Next]_vars PROVE Inv'
  OBVIOUS
<1>1. ASSUME NEW r \in Requests, NEW u \in Users, Register(r, u) \/ login(r, u)
      PROVE  Inv'
  BY <1>1, RegisterInv, LoginInv
<1>2. ASSUME NEW r \in Requests, CreateUser(r) \/ Issue(r) \/ ReadUser(r) \/ Rotate(r) \/ Fail(r)
      PROVE  Inv'
  BY <1>2, CreateUserInv, IssueInv, ReadUserInv, RotateInv, OtherInv
<1>3. ASSUME NEW i \in 1 .. Len(sessions), logout(i) \/ \E r \in Requests : Refresh(r, i)
      PROVE  Inv'
  BY <1>3, LogoutInv, RefreshInv
<1>4. ASSUME NEW u \in Users, LockUser(u)
      PROVE  Inv'
  BY <1>4, OtherInv
<1> QED BY <1>1, <1>2, <1>3, <1>4, OtherInv DEF Next

-----------------------------------------------------------------------------
THEOREM Invariance == Spec => []Inv
<1> QED BY InitInv, NextInv, PTL DEF Spec

(* A session that was refreshed or logged out is never refreshed by a      *)
(* request that starts later, however requests overlap or fail.            *)
THEOREM RefreshedOnce == Spec => []SpentForGood
<1>1. Inv => SpentForGood
  BY DEF Inv
<1> QED BY <1>1, Invariance, PTL

(* No session made after a lock comes from a look at the account after it. *)
THEOREM LockStops == Spec => []LockedOut
<1>1. Inv => LockedOut
  BY DEF Inv, RowsOK, RowOK, LockedOut
<1> QED BY <1>1, Invariance, PTL

-----------------------------------------------------------------------------
(* Lists of ledger rows.                                                   *)

Entry == [id : Nat, at : Nat, wallet : Wallets, type : DOMAIN Balances,
          amount : Int, before : Int, after : Int]

(* Rows of the table: an id is given out once.                             *)
Distinct(S) == S \subseteq Entry /\ \A e, f \in S : e.id = f.id => e = f

LEMMA NewerOrder ==
  ASSUME NEW S, Distinct(S)
  PROVE  /\ \A e \in S : ~Newer(e, e)
         /\ \A e, f \in S : e = f \/ Newer(e, f) \/ Newer(f, e)
         /\ \A e, f \in S : ~(Newer(e, f) /\ Newer(f, e))
         /\ \A e, f, g \in S : Newer(e, f) /\ Newer(f, g) => Newer(e, g)
<1>1. \A e \in S : e.id \in Nat /\ e.at \in Nat
  BY DEF Distinct, Entry
<1>. QED  BY <1>1 DEF Distinct, Newer

(* The rank of a row is a bijection, so the list has each row in its place.*)
LEMMA Listing ==
  ASSUME NEW S, Distinct(S), IsFiniteSet(S)
  PROVE  LET list == Descending(S)
             n == Cardinality(S)
         IN /\ n \in Nat /\ list \in Seq(S) /\ Len(list) = n
            /\ \A i \in 1 .. n : list[i] \in S
            /\ \A e \in S : \E i \in 1 .. n : list[i] = e
            /\ \A i, j \in 1 .. n : i < j <=> Newer(list[i], list[j])
<1>. DEFINE list == Descending(S)
            n == Cardinality(S)
            above(e) == {f \in S : Newer(f, e)}
            rank == [e \in S |-> Cardinality(above(e)) + 1]
<1>0. n \in Nat
  BY FS_CardinalityType
<1>1. ASSUME NEW e \in S
      PROVE  IsFiniteSet(above(e)) /\ Cardinality(above(e)) \in Nat /\ Cardinality(above(e)) < n
  <2>1. IsFiniteSet(above(e)) /\ Cardinality(above(e)) <= n /\ (n = Cardinality(above(e)) => S = above(e))
    BY FS_Subset
  <2>2. e \notin above(e)
    BY NewerOrder
  <2>. QED  BY <1>0, <2>1, <2>2, FS_CardinalityType
<1>2. ASSUME NEW e \in S, NEW f \in S, Newer(e, f)
      PROVE  Cardinality(above(e)) < Cardinality(above(f))
  <2>1. above(e) \subseteq above(f) /\ e \in above(f) /\ e \notin above(e)
    BY <1>2, NewerOrder
  <2>2. IsFiniteSet(above(f)) /\ Cardinality(above(e)) \in Nat /\ Cardinality(above(f)) \in Nat
    BY <1>1
  <2>. HIDE DEF above
  <2>3. Cardinality(above(e)) <= Cardinality(above(f)) /\ Cardinality(above(f)) # Cardinality(above(e))
    BY <2>1, <2>2, FS_Subset
  <2>. QED  BY <2>2, <2>3
<1>. HIDE DEF above
<1>3. rank \in [S -> 1 .. n]
  BY <1>0, <1>1
<1>4. \A e, f \in S : rank[e] = rank[f] => e = f
  <2>. SUFFICES ASSUME NEW e \in S, NEW f \in S, rank[e] = rank[f], e # f PROVE FALSE
    OBVIOUS
  <2>1. Cardinality(above(e)) \in Nat /\ Cardinality(above(f)) \in Nat
    BY <1>1
  <2>2. Newer(e, f) \/ Newer(f, e)
    BY NewerOrder
  <2>3. Cardinality(above(e)) # Cardinality(above(f))
    BY <1>2, <2>1, <2>2
  <2>. QED  BY <2>1, <2>3
<1>. HIDE DEF rank
<1>5. rank \in Injection(S, 1 .. n)
  BY <1>3, <1>4 DEF Injection, IsInjective
<1>6. IsFiniteSet(1 .. n) /\ Cardinality(1 .. n) = n
  BY <1>0, FS_Interval
<1>7. rank \in Surjection(S, 1 .. n)
  BY <1>5, <1>6, FS_Injection
<1>8. ASSUME NEW i \in 1 .. n
      PROVE  list[i] \in S /\ rank[list[i]] = i
  <2>1. PICK e \in S : rank[e] = i
    BY <1>7 DEF Surjection
  <2>2. Cardinality(above(e)) = i - 1
    BY <1>0, <1>1, <2>1 DEF rank
  <2>3. list[i] = CHOOSE f \in S : Cardinality(above(f)) = i - 1
    BY DEF Descending, above
  <2>4. list[i] \in S /\ Cardinality(above(list[i])) = i - 1
    BY <2>2, <2>3
  <2>. QED  BY <1>0, <2>4 DEF rank
<1>9. list = [i \in 1 .. n |-> list[i]]
  BY DEF Descending
<1>. HIDE DEF list
<1>10. list \in [1 .. n -> S]
  BY <1>8, <1>9
<1>11. list \in Seq(S) /\ Len(list) = n
  BY <1>0, <1>10
<1>12. ASSUME NEW e \in S PROVE \E i \in 1 .. n : list[i] = e
  BY <1>3, <1>4, <1>8
<1>13. ASSUME NEW i \in 1 .. n, NEW j \in 1 .. n
       PROVE  i < j <=> Newer(list[i], list[j])
  <2>1. /\ list[i] \in S /\ list[j] \in S /\ rank[list[i]] = i /\ rank[list[j]] = j
    BY <1>8
  <2>2. \A e, f \in S : Newer(e, f) => rank[e] < rank[f]
    BY <1>1, <1>2 DEF rank
  <2>3. list[i] = list[j] \/ Newer(list[i], list[j]) \/ Newer(list[j], list[i])
    BY <2>1, NewerOrder
  <2>4. ~Newer(list[i], list[i])
    BY <2>1, NewerOrder
  <2>. QED  BY <1>0, <2>1, <2>2, <2>3, <2>4
<1>. QED  BY <1>0, <1>8, <1>11, <1>12, <1>13 DEF list

(* What Accounts says of a list, said of the rows themselves: neighbours   *)
(* meet, the oldest row starts from nothing, the newest ends at v.         *)
Meets(S, f, e) == Newer(f, e) /\ \A g \in S : ~(Newer(f, g) /\ Newer(g, e))
Chain(S, v) ==
  /\ \A e \in S : e.after = e.before + e.amount
  /\ \A e \in S : (\A f \in S : ~Newer(e, f)) => e.before = 0
  /\ \A e, f \in S : Meets(S, f, e) => f.before = e.after
  /\ \A e \in S : (\A f \in S : ~Newer(f, e)) => e.after = v
  /\ S = {} => v = 0

LEMMA AccountsIs ==
  ASSUME NEW S, Distinct(S), IsFiniteSet(S), NEW v
  PROVE  Accounts(Descending(S), v) <=> Chain(S, v)
<1>. DEFINE list == Descending(S)
            n == Cardinality(S)
<1>1. /\ n \in Nat /\ Len(list) = n
      /\ \A i \in 1 .. n : list[i] \in S
      /\ \A e \in S : \E i \in 1 .. n : list[i] = e
      /\ \A i, j \in 1 .. n : i < j <=> Newer(list[i], list[j])
  BY Listing
<1>. HIDE DEF list, n
<1>2. \A i \in 1 .. n - 1 : i \in 1 .. n /\ i + 1 \in 1 .. n /\ Meets(S, list[i], list[i + 1])
  <2>. SUFFICES ASSUME NEW i \in 1 .. n - 1 PROVE i \in 1 .. n /\ i + 1 \in 1 .. n /\ Meets(S, list[i], list[i + 1])
    OBVIOUS
  <2>1. i \in 1 .. n /\ i + 1 \in 1 .. n
    BY <1>1
  <2>2. Newer(list[i], list[i + 1])
    BY <1>1, <2>1
  <2>3. ASSUME NEW g \in S, Newer(list[i], g), Newer(g, list[i + 1]) PROVE FALSE
    <3>1. PICK k \in 1 .. n : list[k] = g
      BY <1>1
    <3>2. i < k /\ k < i + 1
      BY <1>1, <2>1, <2>3, <3>1
    <3>. QED  BY <2>1, <3>2
  <2>. QED  BY <2>1, <2>2, <2>3 DEF Meets
<1>3. \A i, j \in 1 .. n : Meets(S, list[i], list[j]) => j = i + 1 /\ i \in 1 .. n - 1
  <2>. SUFFICES ASSUME NEW i \in 1 .. n, NEW j \in 1 .. n, Meets(S, list[i], list[j])
       PROVE  j = i + 1 /\ i \in 1 .. n - 1
    OBVIOUS
  <2>1. i < j
    BY <1>1 DEF Meets
  <2>2. i + 1 \in 1 .. n
    BY <1>1, <2>1
  <2>3. ~(i + 1 < j)
    <3>1. SUFFICES ASSUME i + 1 < j PROVE FALSE
      OBVIOUS
    <3>2. Newer(list[i], list[i + 1]) /\ Newer(list[i + 1], list[j]) /\ list[i + 1] \in S
      BY <1>1, <2>2, <3>1
    <3>. QED  BY <3>2 DEF Meets
  <2>. QED  BY <1>1, <2>1, <2>2, <2>3
<1>4. \A i \in 1 .. n : (\A f \in S : ~Newer(list[i], f)) <=> i = n
  BY <1>1
<1>5. \A i \in 1 .. n : (\A f \in S : ~Newer(f, list[i])) <=> i = 1
  BY <1>1
<1>6. S = {} <=> n = 0
  BY FS_EmptySet DEF n
<1>7. Chain(S, v) <=>
        /\ \A i \in 1 .. n : list[i].after = list[i].before + list[i].amount
        /\ n # 0 => list[n].before = 0
        /\ \A i \in 1 .. n - 1 : list[i].before = list[i + 1].after
        /\ n # 0 => list[1].after = v
        /\ n = 0 => v = 0
  <2>1. (\A e \in S : e.after = e.before + e.amount) <=>
        (\A i \in 1 .. n : list[i].after = list[i].before + list[i].amount)
    BY <1>1
  <2>2. (\A e \in S : (\A f \in S : ~Newer(e, f)) => e.before = 0) <=> (n # 0 => list[n].before = 0)
    BY <1>1, <1>4
  <2>3. (\A e, f \in S : Meets(S, f, e) => f.before = e.after) <=>
        (\A i \in 1 .. n - 1 : list[i].before = list[i + 1].after)
    <3>1. ASSUME \A e, f \in S : Meets(S, f, e) => f.before = e.after
          PROVE  \A i \in 1 .. n - 1 : list[i].before = list[i + 1].after
      BY <1>1, <1>2, <3>1
    <3>2. ASSUME \A i \in 1 .. n - 1 : list[i].before = list[i + 1].after,
                 NEW e \in S, NEW f \in S, Meets(S, f, e)
          PROVE  f.before = e.after
      <4>1. PICK i \in 1 .. n : list[i] = f
        BY <1>1
      <4>2. PICK j \in 1 .. n : list[j] = e
        BY <1>1
      <4>. QED  BY <1>3, <3>2, <4>1, <4>2
    <3>. QED  BY <3>1, <3>2
  <2>4. (\A e \in S : (\A f \in S : ~Newer(f, e)) => e.after = v) <=> (n # 0 => list[1].after = v)
    BY <1>1, <1>5
  <2>. QED  BY <1>6, <2>1, <2>2, <2>3, <2>4 DEF Chain
<1>8. Accounts(list, v) <=>
        /\ \A i \in 1 .. n : list[i].after = list[i].before + list[i].amount
        /\ n # 0 => list[n].before = 0
        /\ \A i \in 1 .. n - 1 : list[i].before = list[i + 1].after
        /\ n # 0 => list[1].after = v
        /\ n = 0 => v = 0
  <2>. DEFINE before(i) == IF i = n THEN 0 ELSE list[i + 1].after
  <2>1. Accounts(list, v) <=>
          /\ \A i \in 1 .. n : list[i].before = before(i) /\ list[i].after = before(i) + list[i].amount
          /\ v = before(0)
    BY <1>1 DEF Accounts
  <2>2. v = before(0) <=> (n # 0 => list[1].after = v) /\ (n = 0 => v = 0)
    BY <1>1
  <2>3. (\A i \in 1 .. n : list[i].before = before(i)) <=>
          (n # 0 => list[n].before = 0) /\ (\A i \in 1 .. n - 1 : list[i].before = list[i + 1].after)
    BY <1>1
  <2>. HIDE DEF before
  <2>. QED  BY <2>1, <2>2, <2>3
<1>. QED  BY <1>7, <1>8 DEF list

(* A row newer than all, which starts where the balance was, is the new    *)
(* end of the chain.                                                       *)
LEMMA ChainGrows ==
  ASSUME NEW S, NEW v, Chain(S, v), NEW e, Distinct(S \cup {e}),
         \A f \in S : Newer(e, f), e.before = v, e.after = v + e.amount
  PROVE  Chain(S \cup {e}, e.after)
<1>. DEFINE T == S \cup {e}
<1>0. /\ \A f \in T : ~Newer(f, f)
      /\ \A f, g \in T : ~(Newer(f, g) /\ Newer(g, f))
  BY NewerOrder
<1>1. \A f \in T : f.after = f.before + f.amount
  BY DEF Chain
<1>2. ASSUME NEW f \in T, \A g \in T : ~Newer(f, g) PROVE f.before = 0
  <2>1. CASE f \in S
    BY <1>2, <2>1 DEF Chain
  <2>2. CASE f = e
    <3>1. S = {}
      BY <1>2, <2>2
    <3>. QED  BY <2>2, <3>1 DEF Chain
  <2>. QED  BY <2>1, <2>2
<1>3. ASSUME NEW g \in T, NEW f \in T, Meets(T, f, g) PROVE f.before = g.after
  <2>1. g # e
    BY <1>0, <1>3 DEF Meets
  <2>2. CASE f \in S
    <3>1. Meets(S, f, g)
      BY <1>3 DEF Meets
    <3>. QED  BY <2>1, <2>2, <3>1 DEF Chain
  <2>3. CASE f = e
    <3>1. \A h \in S : ~Newer(h, g)
      BY <1>3, <2>3 DEF Meets
    <3>. QED  BY <2>1, <2>3, <3>1 DEF Chain
  <2>. QED  BY <2>2, <2>3
<1>4. ASSUME NEW f \in T, \A g \in T : ~Newer(g, f) PROVE f.after = e.after
  <2>1. f = e
    BY <1>4
  <2>. QED  BY <2>1
<1>. HIDE DEF Newer
<1>. QED  BY <1>1, <1>2, <1>3, <1>4 DEF Chain

-----------------------------------------------------------------------------
(* The invariant of the transactions.                                      *)

All == ledger \cup UNION {open[t].rows : t \in Transactions}

OpenType == [wallet : Wallets \cup {"none"}, read : [Columns -> Int], rows : SUBSET Entry]

LedgerTypes ==
  /\ wallets \in [Wallets -> [Columns -> Nat]]
  /\ committed \in [Wallets -> [Columns -> Nat]]
  /\ holder \in [Wallets -> Transactions \cup {"none"}]
  /\ open \in [Transactions -> OpenType]
  /\ ledger \in SUBSET Entry /\ clock \in Nat /\ ids \in Nat
  /\ IsFiniteSet(ledger) /\ \A t \in Transactions : IsFiniteSet(open[t].rows)

(* Ids are given out once, and the next row is newer than all there are.   *)
Stamped ==
  /\ \A e, f \in All : e.id = f.id => e = f
  /\ \A e \in All : e.at <= clock /\ e.id <= ids

(* A transaction writes only to wallets it has locked, and what it read of *)
(* the one it works on is still so.                                        *)
Locking ==
  \A t \in Transactions :
    /\ \A e \in open[t].rows : holder[e.wallet] = t
    /\ open[t].wallet # "none" =>
         holder[open[t].wallet] = t /\ open[t].read = wallets[open[t].wallet]

(* The committed rows account for what others see, and with those of open  *)
(* transactions for what the rows of the wallets are.                      *)
Books ==
  /\ \A w \in Wallets, type \in DOMAIN Balances :
       /\ Chain(RowsOf(ledger, w, type), committed[w][Balances[type]])
       /\ Chain(RowsOf(All, w, type), wallets[w][Balances[type]])
  /\ \A w \in Wallets : holder[w] = "none" => wallets[w] = committed[w]

LedgerInv == LedgerTypes /\ Stamped /\ Locking /\ Books

LEMMA BalanceNames ==
  /\ DOMAIN Balances = {"AVAILABLE", "LOCKED"}
  /\ Balances["AVAILABLE"] = "available" /\ Balances["LOCKED"] = "locked"
  /\ \A type \in DOMAIN Balances : Balances[type] \in Columns
BY DEF Balances, Columns

LEMMA AllIs ==
  ASSUME LedgerTypes
  PROVE  /\ All \subseteq Entry /\ ledger \subseteq All
         /\ \A t \in Transactions : open[t].rows \subseteq All
         /\ \A e \in All : e \in ledger \/ \E t \in Transactions : e \in open[t].rows
<1>1. \A t \in Transactions : open[t].rows \subseteq Entry
  BY DEF LedgerTypes, OpenType
<1>. QED  BY <1>1 DEF LedgerTypes, All

LEMMA RowsDistinct ==
  ASSUME LedgerTypes, Stamped, NEW S, S \subseteq All
  PROVE  Distinct(S)
BY AllIs DEF Stamped, Distinct

(* The rows of a wallet that nobody holds, or another transaction holds.   *)
LEMMA OthersRows ==
  ASSUME LedgerInv, NEW t \in Transactions, NEW w \in Wallets, NEW type, holder[w] # t
  PROVE  RowsOf(open[t].rows, w, type) = {}
BY DEF LedgerInv, Locking, RowsOf

LEMMA InitLedger == LedgerInit => LedgerInv
<1>. SUFFICES ASSUME LedgerInit PROVE LedgerInv
  OBVIOUS
<1>0. /\ wallets = StartBalances /\ committed = StartBalances
      /\ holder = [w \in Wallets |-> "none"]
      /\ open = [t \in Transactions |-> Closed]
      /\ ledger = StartLedger /\ clock = 0 /\ ids = Len(StartRows)
  BY DEF LedgerInit
<1>1. Len(StartRows) \in Nat
  BY StartAssumption
<1>2. \A t \in Transactions : open[t].wallet = "none" /\ open[t].rows = {} /\ open[t] \in OpenType
  BY <1>0 DEF Closed, OpenType
<1>3. \A e \in ledger : \E i \in 1 .. Len(StartRows) :
        e = [id |-> i, at |-> 0, wallet |-> StartRows[i].wallet, type |-> StartRows[i].type,
             amount |-> StartRows[i].amount, before |-> StartRows[i].before,
             after |-> StartRows[i].after]
  BY <1>0 DEF StartLedger
<1>4. ASSUME NEW i \in 1 .. Len(StartRows)
      PROVE  /\ StartRows[i].wallet \in Wallets /\ StartRows[i].type \in DOMAIN Balances
             /\ StartRows[i].amount \in Int /\ StartRows[i].before \in Int
             /\ StartRows[i].after \in Int
  <2>. DEFINE Given == [wallet : Wallets, type : DOMAIN Balances,
                        amount : Int, before : Int, after : Int]
  <2>1. StartRows \in Seq(Given)
    BY StartAssumption
  <2>2. \A r \in Given : /\ r.wallet \in Wallets /\ r.type \in DOMAIN Balances
                       /\ r.amount \in Int /\ r.before \in Int /\ r.after \in Int
    OBVIOUS
  <2>. HIDE DEF Given
  <2>3. StartRows[i] \in Given
    BY <2>1
  <2>. QED  BY <2>2, <2>3
<1>5. ledger \in SUBSET Entry
  BY <1>1, <1>3, <1>4 DEF Entry
<1>6. \A e \in ledger : e.at = 0 /\ e.id \in 1 .. Len(StartRows)
  BY <1>3
<1>7. \A e, f \in ledger : e.id = f.id => e = f
  BY <1>3
<1>8. IsFiniteSet(ledger)
  <2>. DEFINE number == [e \in ledger |-> e.id]
  <2>1. number \in Injection(ledger, 1 .. Len(StartRows))
    BY <1>6, <1>7 DEF Injection, IsInjective
  <2>2. IsFiniteSet(1 .. Len(StartRows))
    BY <1>1, FS_Interval
  <2>. HIDE DEF number
  <2>. QED  BY <2>1, <2>2, FS_Injection
<1>9. All = ledger
  BY <1>2 DEF All
<1>10. LedgerTypes
  BY <1>0, <1>1, <1>2, <1>5, <1>8, StartAssumption, FS_EmptySet DEF LedgerTypes
<1>11. Stamped
  BY <1>0, <1>1, <1>6, <1>7, <1>9 DEF Stamped
<1>12. Locking
  BY <1>2 DEF Locking
<1>13. Books
  <2>1. ASSUME NEW w \in Wallets, NEW type \in DOMAIN Balances
        PROVE  Chain(RowsOf(ledger, w, type), committed[w][Balances[type]])
    <3>. DEFINE S == RowsOf(ledger, w, type)
    <3>1. S \subseteq ledger
      BY DEF RowsOf
    <3>2. Distinct(S) /\ IsFiniteSet(S)
      BY <1>5, <1>7, <1>8, <3>1, FS_Subset DEF Distinct
    <3>3. Accounts(Descending(S), committed[w][Balances[type]])
      BY <1>0, StartAssumption DEF Explains
    <3>. HIDE DEF S
    <3>4. Chain(S, committed[w][Balances[type]])
      BY <3>2, <3>3, AccountsIs
    <3>. QED  BY <3>4 DEF S
  <2>. QED  BY <1>0, <1>9, <2>1 DEF Books
<1>. QED  BY <1>10, <1>11, <1>12, <1>13 DEF LedgerInv

-----------------------------------------------------------------------------
(* The steps of a transaction.                                             *)

LEMMA LockRowStep ==
  ASSUME LedgerInv, NEW t \in Transactions, NEW w \in Wallets, lockRow(t, w)
  PROVE  LedgerInv'
<1>0. LedgerTypes /\ Stamped /\ Locking /\ Books
  BY DEF LedgerInv
<1>1. /\ holder[w] \in {"none", t} /\ holder' = [holder EXCEPT ![w] = t]
      /\ open' = [open EXCEPT ![t].wallet = w, ![t].read = wallets[w]]
      /\ UNCHANGED <<wallets, committed, ledger, clock, ids>>
  BY DEF lockRow, Reads
<1>2. open[t] \in OpenType /\ wallets[w] \in [Columns -> Int]
  BY <1>0 DEF LedgerTypes
<1>3. /\ open'[t].rows = open[t].rows /\ open'[t].wallet = w /\ open'[t].read = wallets[w]
      /\ open'[t] \in OpenType
      /\ \A u \in Transactions : u # t => open'[u] = open[u]
  <2>1. open'[t] = [open[t] EXCEPT !.wallet = w, !.read = wallets[w]]
    BY <1>0, <1>1 DEF LedgerTypes
  <2>. QED  BY <1>0, <1>1, <1>2, <2>1 DEF LedgerTypes, OpenType
<1>4. \A u \in Transactions : open'[u].rows = open[u].rows /\ open'[u] \in OpenType
  BY <1>0, <1>3 DEF LedgerTypes
<1>5. All' = All
  <2>. DEFINE P == UNION {open[u].rows : u \in Transactions}
              Q == UNION {open'[u].rows : u \in Transactions}
  <2>1. \A e : e \in P <=> \E u \in Transactions : e \in open[u].rows
    OBVIOUS
  <2>2. \A e : e \in Q <=> \E u \in Transactions : e \in open'[u].rows
    OBVIOUS
  <2>3. All = ledger \cup P /\ All' = ledger \cup Q
    BY <1>1 DEF All
  <2>. HIDE DEF P, Q
  <2>4. P = Q
    BY <1>4, <2>1, <2>2
  <2>. QED  BY <2>3, <2>4
<1>6. LedgerTypes'
  <2>1. open' \in [Transactions -> OpenType]
    BY <1>0, <1>1, <1>4 DEF LedgerTypes
  <2>. QED  BY <1>0, <1>1, <1>4, <2>1 DEF LedgerTypes
<1>7. Stamped'
  BY <1>0, <1>1, <1>5 DEF Stamped
<1>8. \A x \in Wallets, u \in Transactions : holder[x] = u => holder'[x] = u
  BY <1>0, <1>1, NoneAssumption DEF LedgerTypes
<1>9. Locking'
  <2>1. \A u \in Transactions : \A e \in open[u].rows : e.wallet \in Wallets
    BY <1>0 DEF LedgerTypes, OpenType, Entry
  <2>2. holder'[w] = t
    BY <1>0, <1>1 DEF LedgerTypes
  <2>3. ASSUME NEW u \in Transactions
        PROVE  /\ \A e \in open'[u].rows : holder'[e.wallet] = u
               /\ open'[u].wallet # "none" =>
                    holder'[open'[u].wallet] = u /\ open'[u].read = wallets'[open'[u].wallet]
    <3>1. \A e \in open'[u].rows : holder'[e.wallet] = u
      BY <1>0, <1>4, <1>8, <2>1 DEF Locking
    <3>2. CASE u = t
      <4>1. open'[u].wallet = w /\ open'[u].read = wallets'[w] /\ holder'[w] = u
        BY <1>1, <1>3, <2>2, <3>2
      <4>. QED  BY <3>1, <4>1
    <3>3. CASE u # t
      <4>1. open[u].wallet \in Wallets \cup {"none"}
        BY <1>0 DEF LedgerTypes, OpenType
      <4>2. open'[u] = open[u] /\ wallets' = wallets
        BY <1>1, <1>3, <3>3
      <4>3. open[u].wallet # "none" =>
              holder[open[u].wallet] = u /\ open[u].read = wallets[open[u].wallet]
        BY <1>0 DEF Locking
      <4>4. open[u].wallet # "none" => holder'[open[u].wallet] = u
        BY <1>8, <4>1, <4>3
      <4>. QED  BY <3>1, <4>2, <4>3, <4>4
    <3>. QED  BY <3>2, <3>3
  <2>. QED  BY <2>3 DEF Locking
<1>10. Books'
  <2>1. \A x \in Wallets : holder'[x] = "none" => holder[x] = "none"
    BY <1>0, <1>1, NoneAssumption DEF LedgerTypes
  <2>. QED  BY <1>0, <1>1, <1>5, <2>1 DEF Books
<1>. QED  BY <1>6, <1>7, <1>9, <1>10 DEF LedgerInv

LEMMA ChangeTypes ==
  ASSUME NEW method \in Methods, NEW x \in Nat
  PROVE  Change(method, x)["available"] \in Int /\ Change(method, x)["locked"] \in Int
<1>1. CASE method = "moveAvailableToLocked"
  BY <1>1 DEF Change
<1>2. CASE method = "moveLockedToAvailable"
  BY <1>2 DEF Change
<1>3. CASE method = "creditAvailable"
  BY <1>3 DEF Change
<1>4. CASE method = "debitLocked"
  BY <1>4 DEF Change
<1>5. CASE method = "debitAvailable"
  BY <1>5 DEF Change
<1>. QED  BY <1>1, <1>2, <1>3, <1>4, <1>5 DEF Methods

(* A change writes one row for each balance it changes, with the next ids. *)
LEMMA EntriesAre ==
  ASSUME LedgerTypes, NEW t \in Transactions, open[t].wallet \in Wallets,
         NEW change, change["available"] \in Int, change["locked"] \in Int
  PROVE  LET rows == Entries(t, change) IN
         /\ IsFiniteSet(rows) /\ Cardinality(rows) \in Nat
         /\ \A e \in rows :
              /\ e \in Entry /\ e.wallet = open[t].wallet /\ e.at = clock
              /\ ids < e.id /\ e.id <= ids + Cardinality(rows)
              /\ change[Balances[e.type]] # 0
              /\ e.amount = change[Balances[e.type]]
              /\ e.before = open[t].read[Balances[e.type]]
              /\ e.after = open[t].read[Balances[e.type]] + change[Balances[e.type]]
         /\ \A e, f \in rows : e.id = f.id \/ e.type = f.type => e = f
         /\ \A type \in DOMAIN Balances : change[Balances[type]] # 0 => \E e \in rows : e.type = type
<1>. DEFINE rows == Entries(t, change)
            read == open[t].read
            one(type, id) ==
              [id |-> id, at |-> clock, wallet |-> open[t].wallet, type |-> type,
               amount |-> change[Balances[type]], before |-> read[Balances[type]],
               after |-> read[Balances[type]] + change[Balances[type]]]
            a == one("AVAILABLE", ids + 1)
            l(id) == one("LOCKED", id)
            A == change["available"] # 0
            L == change["locked"] # 0
<1>0. /\ read["available"] \in Int /\ read["locked"] \in Int /\ clock \in Nat /\ ids \in Nat
  BY DEF LedgerTypes, OpenType, Columns
<1>1. /\ a \in Entry /\ a.type = "AVAILABLE" /\ a.id = ids + 1 /\ a.wallet = open[t].wallet
      /\ a.at = clock /\ a.amount = change["available"] /\ a.before = read["available"]
      /\ a.after = read["available"] + change["available"]
  BY <1>0, BalanceNames DEF Entry
<1>2. \A id \in Nat :
      /\ l(id) \in Entry /\ l(id).type = "LOCKED" /\ l(id).id = id /\ l(id).wallet = open[t].wallet
      /\ l(id).at = clock /\ l(id).amount = change["locked"] /\ l(id).before = read["locked"]
      /\ l(id).after = read["locked"] + change["locked"]
  BY <1>0, BalanceNames DEF Entry
<1>3. /\ ~A /\ ~L => rows = {}
      /\ A /\ ~L => rows = {a}
      /\ ~A /\ L => rows = {l(ids + 1)}
      /\ A /\ L => rows = {a, l(ids + 2)}
  <2>. DEFINE types == {type \in DOMAIN Balances : change[Balances[type]] # 0}
              entry(type) == one(type, ids + (IF type = "LOCKED" /\ "AVAILABLE" \in types THEN 2 ELSE 1))
  <2>1. rows = {entry(type) : type \in types}
    BY DEF Entries
  <2>2. /\ ~A /\ ~L => types = {}
        /\ A /\ ~L => types = {"AVAILABLE"}
        /\ ~A /\ L => types = {"LOCKED"}
        /\ A /\ L => types = {"AVAILABLE", "LOCKED"}
    BY BalanceNames
  <2>3. entry("AVAILABLE") = a
    OBVIOUS
  <2>4. /\ ~A => entry("LOCKED") = l(ids + 1)
        /\ A => entry("LOCKED") = l(ids + 2)
    BY BalanceNames
  <2>. HIDE DEF rows, entry, types, a, l, A, L
  <2>5. CASE ~A /\ ~L
    BY <2>1, <2>2, <2>5
  <2>6. CASE A /\ ~L
    BY <2>1, <2>2, <2>3, <2>6
  <2>7. CASE ~A /\ L
    BY <2>1, <2>2, <2>4, <2>7
  <2>8. CASE A /\ L
    BY <2>1, <2>2, <2>3, <2>4, <2>8
  <2>. QED  BY <2>5, <2>6, <2>7, <2>8
<1>. HIDE DEF rows, a, l, read
<1>4. /\ \A e \in rows :
           /\ e \in Entry /\ e.wallet = open[t].wallet /\ e.at = clock
           /\ change[Balances[e.type]] # 0
           /\ e.amount = change[Balances[e.type]]
           /\ e.before = read[Balances[e.type]]
           /\ e.after = read[Balances[e.type]] + change[Balances[e.type]]
      /\ \A e, f \in rows : e.id = f.id \/ e.type = f.type => e = f
      /\ \A type \in DOMAIN Balances : change[Balances[type]] # 0 => \E e \in rows : e.type = type
  <2>1. CASE ~A /\ ~L
    BY <1>3, <2>1, BalanceNames
  <2>2. CASE A /\ ~L
    BY <1>1, <1>3, <2>2, BalanceNames
  <2>3. CASE ~A /\ L
    BY <1>0, <1>2, <1>3, <2>3, BalanceNames
  <2>4. CASE A /\ L
    <3>1. /\ l(ids + 2) \in Entry /\ l(ids + 2).type = "LOCKED" /\ l(ids + 2).id = ids + 2
          /\ l(ids + 2).wallet = open[t].wallet /\ l(ids + 2).at = clock
          /\ l(ids + 2).amount = change["locked"] /\ l(ids + 2).before = read["locked"]
          /\ l(ids + 2).after = read["locked"] + change["locked"]
      BY <1>0, <1>2
    <3>2. rows = {a, l(ids + 2)}
      BY <1>3, <2>4
    <3>3. \A e, f \in rows : e.id = f.id \/ e.type = f.type => e = f
      BY <1>0, <1>1, <3>1, <3>2
    <3>. QED  BY <1>1, <2>4, <3>1, <3>2, <3>3, BalanceNames
  <2>. QED  BY <2>1, <2>2, <2>3, <2>4
<1>5. /\ IsFiniteSet(rows) /\ Cardinality(rows) \in Nat
      /\ \A e \in rows : ids < e.id /\ e.id <= ids + Cardinality(rows)
  <2>1. CASE ~A /\ ~L
    BY <1>3, <2>1, FS_EmptySet
  <2>2. CASE A /\ ~L
    <3>1. rows = {a} /\ IsFiniteSet(rows) /\ Cardinality(rows) = 1
      BY <1>3, <2>2, FS_Singleton
    <3>. QED  BY <1>0, <1>1, <3>1
  <2>3. CASE ~A /\ L
    <3>1. rows = {l(ids + 1)} /\ IsFiniteSet(rows) /\ Cardinality(rows) = 1
      BY <1>3, <2>3, FS_Singleton
    <3>2. l(ids + 1).id = ids + 1
      BY <1>0, <1>2
    <3>. QED  BY <1>0, <3>1, <3>2
  <2>4. CASE A /\ L
    <3>1. l(ids + 2).id = ids + 2 /\ a.id = ids + 1
      BY <1>0, <1>1, <1>2
    <3>2. rows = {a} \cup {l(ids + 2)} /\ l(ids + 2) \notin {a}
      BY <1>0, <1>3, <2>4, <3>1
    <3>3. IsFiniteSet({a}) /\ Cardinality({a}) = 1
      BY FS_Singleton
    <3>4. /\ IsFiniteSet({a} \cup {l(ids + 2)})
          /\ Cardinality({a} \cup {l(ids + 2)}) =
               IF l(ids + 2) \in {a} THEN Cardinality({a}) ELSE Cardinality({a}) + 1
      BY <3>3, FS_AddElement
    <3>5. IsFiniteSet(rows) /\ Cardinality(rows) = 2
      BY <3>2, <3>3, <3>4
    <3>6. \A e \in rows : e.id = ids + 1 \/ e.id = ids + 2
      BY <3>1, <3>2
    <3>. QED  BY <1>0, <3>5, <3>6
  <2>. QED  BY <2>1, <2>2, <2>3, <2>4
<1>. QED  BY <1>4, <1>5 DEF rows, read

LEMMA WriteStep ==
  ASSUME LedgerInv, NEW t \in Transactions, NEW method \in Methods, NEW x \in Amounts,
         Write(t, method, x)
  PROVE  LedgerInv'
<1>. DEFINE w == open[t].wallet
            change == Change(method, x)
            rows == Entries(t, change)
<1>0. LedgerTypes /\ Stamped /\ Locking /\ Books
  BY DEF LedgerInv
<1>1. /\ w # "none" /\ \A b \in Columns : open[t].read[b] + change[b] >= 0
      /\ wallets' = [wallets EXCEPT ![w] = [b \in Columns |-> @[b] + change[b]]]
      /\ open' = [open EXCEPT ![t].wallet = "none", ![t].rows = @ \cup rows]
      /\ ids' = ids + Cardinality(rows)
      /\ UNCHANGED <<committed, holder, ledger, clock>>
  BY DEF Write
<1>2. /\ w \in Wallets /\ open[t] \in OpenType /\ holder[w] = t /\ open[t].read = wallets[w]
      /\ ids \in Nat /\ clock \in Nat
  BY <1>0, <1>1 DEF LedgerTypes, OpenType, Locking
<1>3. change["available"] \in Int /\ change["locked"] \in Int
  BY ChangeTypes, AmountsAssumption
<1>4. \A b \in Columns : change[b] \in Int
  BY <1>3 DEF Columns
<1>. HIDE DEF change, w
<1>5. /\ IsFiniteSet(rows) /\ Cardinality(rows) \in Nat
      /\ \A e \in rows :
           /\ e \in Entry /\ e.wallet = w /\ e.at = clock
           /\ ids < e.id /\ e.id <= ids + Cardinality(rows)
           /\ change[Balances[e.type]] # 0
           /\ e.amount = change[Balances[e.type]]
           /\ e.before = wallets[w][Balances[e.type]]
           /\ e.after = wallets[w][Balances[e.type]] + change[Balances[e.type]]
      /\ \A e, f \in rows : e.id = f.id \/ e.type = f.type => e = f
      /\ \A type \in DOMAIN Balances : change[Balances[type]] # 0 => \E e \in rows : e.type = type
  <2>1. open[t].wallet \in Wallets
    BY <1>2 DEF w
  <2>. HIDE DEF rows
  <2>. QED  BY <1>0, <1>2, <1>3, <2>1, EntriesAre DEF rows, w
<1>. HIDE DEF rows
<1>6. /\ open'[t].wallet = "none" /\ open'[t].rows = open[t].rows \cup rows
      /\ open'[t] \in OpenType
      /\ \A u \in Transactions : u # t => open'[u] = open[u]
  <2>1. open'[t] = [open[t] EXCEPT !.wallet = "none", !.rows = @ \cup rows]
    BY <1>0, <1>1 DEF LedgerTypes
  <2>2. rows \subseteq Entry
    BY <1>5
  <2>. QED  BY <1>0, <1>1, <1>2, <2>1, <2>2 DEF LedgerTypes, OpenType
<1>7. All' = All \cup rows
  <2>1. \A u \in Transactions : open'[u].rows = IF u = t THEN open[t].rows \cup rows ELSE open[u].rows
    BY <1>6
  <2>. DEFINE P == UNION {open[u].rows : u \in Transactions}
              Q == UNION {open'[u].rows : u \in Transactions}
  <2>2. \A e : e \in P <=> \E u \in Transactions : e \in open[u].rows
    OBVIOUS
  <2>3. \A e : e \in Q <=> \E u \in Transactions : e \in open'[u].rows
    OBVIOUS
  <2>4. All = ledger \cup P /\ All' = ledger \cup Q
    BY <1>1 DEF All
  <2>. HIDE DEF P, Q
  <2>5. Q = P \cup rows
    BY <2>1, <2>2, <2>3
  <2>. QED  BY <2>4, <2>5
<1>8. wallets \in [Wallets -> [Columns -> Nat]]
  BY <1>0 DEF LedgerTypes
<1>9. /\ \A b \in Columns : wallets'[w][b] = wallets[w][b] + change[b] /\ wallets'[w][b] \in Nat
      /\ \A v \in Wallets : v # w => wallets'[v] = wallets[v]
      /\ wallets' \in [Wallets -> [Columns -> Nat]]
  <2>1. wallets'[w] = [b \in Columns |-> wallets[w][b] + change[b]]
    BY <1>1, <1>2, <1>8
  <2>2. \A b \in Columns : wallets[w][b] + change[b] \in Nat
    <3>1. \A b \in Columns : wallets[w][b] \in Nat
      BY <1>2, <1>8
    <3>. QED  BY <1>1, <1>2, <1>4, <3>1
  <2>3. wallets'[w] \in [Columns -> Nat]
    BY <2>1, <2>2
  <2>. QED  BY <1>1, <1>2, <1>8, <2>1, <2>2, <2>3
<1>10. LedgerTypes'
  <2>1. open' \in [Transactions -> OpenType]
    BY <1>0, <1>1, <1>6 DEF LedgerTypes
  <2>2. IsFiniteSet(open[t].rows \cup rows)
    BY <1>0, <1>5, FS_Union DEF LedgerTypes
  <2>3. \A u \in Transactions : IsFiniteSet(open'[u].rows)
    BY <1>0, <1>6, <2>2 DEF LedgerTypes
  <2>4. ids' \in Nat
    BY <1>1, <1>2, <1>5
  <2>. QED  BY <1>0, <1>1, <1>9, <2>1, <2>3, <2>4 DEF LedgerTypes
<1>11. \A e \in All, f \in rows : Newer(f, e) /\ e.id # f.id
  <2>1. \A e \in All : e.at \in Nat /\ e.id \in Nat /\ e.at <= clock /\ e.id <= ids
    BY <1>0, AllIs DEF Stamped, Entry
  <2>2. \A f \in rows : f.at = clock /\ f.id \in Nat /\ ids < f.id
    BY <1>5 DEF Entry
  <2>. QED  BY <1>2, <2>1, <2>2 DEF Newer
<1>12. Stamped'
  <2>1. \A e, f \in All' : e.id = f.id => e = f
    BY <1>0, <1>5, <1>7, <1>11 DEF Stamped
  <2>2. \A e \in All' : e.at <= clock /\ e.id <= ids'
    <3>1. \A e \in All : e.at <= clock /\ e.id <= ids'
      <4>1. \A e \in All : e.id \in Nat /\ e.at <= clock /\ e.id <= ids
        BY <1>0, AllIs DEF Stamped, Entry
      <4>. QED  BY <1>1, <1>2, <1>5, <4>1
    <3>2. \A e \in rows : e.at <= clock /\ e.id <= ids'
      BY <1>1, <1>2, <1>5
    <3>. QED  BY <1>7, <3>1, <3>2
  <2>. QED  BY <1>1, <2>1, <2>2 DEF Stamped
<1>13. Locking'
  <2>1. ASSUME NEW u \in Transactions
        PROVE  /\ \A e \in open'[u].rows : holder'[e.wallet] = u
               /\ open'[u].wallet # "none" =>
                    holder'[open'[u].wallet] = u /\ open'[u].read = wallets'[open'[u].wallet]
    <3>1. CASE u = t
      <4>1. \A e \in open[t].rows \cup rows : holder[e.wallet] = t
        BY <1>0, <1>2, <1>5 DEF Locking
      <4>. QED  BY <1>1, <1>6, <3>1, <4>1
    <3>2. CASE u # t
      <4>1. open'[u] = open[u]
        BY <1>6, <3>2
      <4>2. /\ \A e \in open[u].rows : holder[e.wallet] = u
            /\ open[u].wallet # "none" =>
                 holder[open[u].wallet] = u /\ open[u].read = wallets[open[u].wallet]
            /\ open[u].wallet \in Wallets \cup {"none"}
        BY <1>0 DEF Locking, LedgerTypes, OpenType
      <4>3. open[u].wallet # "none" => open[u].wallet # w
        BY <1>2, <3>2, <4>2
      <4>4. open[u].wallet # "none" => wallets'[open[u].wallet] = wallets[open[u].wallet]
        BY <1>9, <4>2, <4>3
      <4>. QED  BY <1>1, <4>1, <4>2, <4>4
    <3>. QED  BY <3>1, <3>2
  <2>. QED  BY <2>1 DEF Locking
<1>14. Books'
  <2>1. ASSUME NEW v \in Wallets, NEW type \in DOMAIN Balances
        PROVE  Chain(RowsOf(All', v, type), wallets'[v][Balances[type]])
    <3>. DEFINE S == RowsOf(All, v, type)
    <3>0. Chain(S, wallets[v][Balances[type]]) /\ Balances[type] \in Columns /\ S \subseteq All
      BY <1>0, BalanceNames DEF Books, RowsOf
    <3>1. CASE v = w /\ change[Balances[type]] # 0
      <4>1. PICK e \in rows : e.type = type
        BY <1>5, <3>1
      <4>2. RowsOf(All', v, type) = S \cup {e}
        BY <1>5, <1>7, <3>1, <4>1 DEF RowsOf
      <4>3. Distinct(S \cup {e})
        <5>1. S \cup {e} \subseteq All'
          BY <1>7, <3>0
        <5>2. S \cup {e} \subseteq Entry
          BY <1>0, <1>5, <3>0, AllIs
        <5>. QED  BY <1>12, <5>1, <5>2 DEF Distinct, Stamped
      <4>4. /\ \A f \in S : Newer(e, f)
            /\ e.before = wallets[v][Balances[type]]
            /\ e.after = wallets[v][Balances[type]] + e.amount
            /\ e.after = wallets'[v][Balances[type]]
        BY <1>5, <1>9, <1>11, <3>0, <3>1, <4>1
      <4>. HIDE DEF S
      <4>5. Chain(S \cup {e}, e.after)
        BY <3>0, <4>3, <4>4, ChainGrows
      <4>. QED  BY <4>2, <4>4, <4>5
    <3>2. CASE v = w /\ change[Balances[type]] = 0
      <4>1. RowsOf(All', v, type) = S
        BY <1>5, <1>7, <3>2 DEF RowsOf
      <4>2. wallets'[v][Balances[type]] = wallets[v][Balances[type]]
        BY <1>8, <1>9, <3>0, <3>2
      <4>. QED  BY <3>0, <4>1, <4>2
    <3>3. CASE v # w
      <4>1. RowsOf(All', v, type) = S
        BY <1>5, <1>7, <3>3 DEF RowsOf
      <4>. QED  BY <1>9, <3>0, <3>3, <4>1
    <3>. QED  BY <3>1, <3>2, <3>3
  <2>2. \A v \in Wallets : holder'[v] = "none" => wallets'[v] = committed'[v]
    BY <1>0, <1>1, <1>2, <1>9, NoneAssumption DEF Books
  <2>. QED  BY <1>0, <1>1, <2>1, <2>2 DEF Books
<1>. QED  BY <1>10, <1>12, <1>13, <1>14 DEF LedgerInv

(* A transaction that ends: what it held is free, and it has no rows.      *)
LEMMA Ended ==
  ASSUME LedgerInv, NEW t \in Transactions,
         holder' = [w \in Wallets |-> IF w \in Held(t) THEN "none" ELSE holder[w]],
         open' = [open EXCEPT ![t] = Closed]
  PROVE  /\ holder' \in [Wallets -> Transactions \cup {"none"}]
         /\ \A w \in Wallets : w \in Held(t) <=> holder[w] = t
         /\ \A w \in Wallets : holder[w] # t => holder'[w] = holder[w]
         /\ \A w \in Wallets : holder[w] = t => holder'[w] = "none"
         /\ open' \in [Transactions -> OpenType]
         /\ open'[t].wallet = "none" /\ open'[t].rows = {}
         /\ \A u \in Transactions : u # t => open'[u] = open[u]
         /\ \A u \in Transactions : IsFiniteSet(open'[u].rows)
         /\ \A u \in Transactions, w \in Wallets :
              u # t /\ holder[w] = u => holder'[w] = u
<1>0. LedgerTypes
  BY DEF LedgerInv
<1>1. Closed \in OpenType /\ Closed.wallet = "none" /\ Closed.rows = {}
  BY DEF Closed, OpenType
<1>. HIDE DEF Closed
<1>2. open' \in [Transactions -> OpenType] /\ open'[t] = Closed
      /\ \A u \in Transactions : u # t => open'[u] = open[u]
  BY <1>0, <1>1 DEF LedgerTypes
<1>3. \A u \in Transactions : IsFiniteSet(open'[u].rows)
  BY <1>0, <1>1, <1>2, FS_EmptySet DEF LedgerTypes
<1>. QED  BY <1>0, <1>1, <1>2, <1>3, NoneAssumption DEF LedgerTypes, Held

LEMMA EndedLocking ==
  ASSUME LedgerInv, NEW t \in Transactions,
         holder' = [w \in Wallets |-> IF w \in Held(t) THEN "none" ELSE holder[w]],
         open' = [open EXCEPT ![t] = Closed],
         \A w \in Wallets : holder[w] # t => wallets'[w] = wallets[w]
  PROVE  Locking'
<1>0. Locking /\ LedgerTypes
  BY DEF LedgerInv
<1>. SUFFICES ASSUME NEW u \in Transactions
     PROVE  /\ \A e \in open'[u].rows : holder'[e.wallet] = u
            /\ open'[u].wallet # "none" =>
                 holder'[open'[u].wallet] = u /\ open'[u].read = wallets'[open'[u].wallet]
  BY DEF Locking
<1>1. CASE u = t
  BY <1>1, Ended
<1>2. CASE u # t
  <2>1. open'[u] = open[u]
    BY <1>2, Ended
  <2>2. /\ \A e \in open[u].rows : holder[e.wallet] = u /\ e.wallet \in Wallets
        /\ open[u].wallet # "none" =>
             holder[open[u].wallet] = u /\ open[u].read = wallets[open[u].wallet]
        /\ open[u].wallet \in Wallets \cup {"none"}
    BY <1>0 DEF Locking, LedgerTypes, OpenType, Entry
  <2>3. \A w \in Wallets : holder[w] = u => holder'[w] = u /\ wallets'[w] = wallets[w]
    BY <1>2, Ended
  <2>. QED  BY <2>1, <2>2, <2>3
<1>. QED  BY <1>1, <1>2

LEMMA CommitStep ==
  ASSUME LedgerInv, NEW t \in Transactions, Commit(t)
  PROVE  LedgerInv'
<1>0. LedgerTypes /\ Stamped /\ Locking /\ Books
  BY DEF LedgerInv
<1>1. /\ committed' = [w \in Wallets |-> IF w \in Held(t) THEN wallets[w] ELSE committed[w]]
      /\ ledger' = ledger \cup open[t].rows
      /\ holder' = [w \in Wallets |-> IF w \in Held(t) THEN "none" ELSE holder[w]]
      /\ open' = [open EXCEPT ![t] = Closed]
      /\ UNCHANGED <<wallets, clock, ids>>
  BY DEF Commit
<1>2. /\ \A w \in Wallets : w \in Held(t) <=> holder[w] = t
      /\ open'[t].rows = {} /\ \A u \in Transactions : u # t => open'[u] = open[u]
  BY <1>1, Ended
<1>3. \A w \in Wallets : committed'[w] = IF holder[w] = t THEN wallets[w] ELSE committed[w]
  BY <1>1, <1>2
<1>4. All' = All
  <2>. DEFINE P == UNION {open[u].rows : u \in Transactions}
              Q == UNION {open'[u].rows : u \in Transactions}
  <2>1. \A e : e \in P <=> \E u \in Transactions : e \in open[u].rows
    OBVIOUS
  <2>2. \A e : e \in Q <=> \E u \in Transactions : e \in open'[u].rows
    OBVIOUS
  <2>3. All = ledger \cup P /\ All' = (ledger \cup open[t].rows) \cup Q
    BY <1>1 DEF All
  <2>. HIDE DEF P, Q
  <2>4. P = open[t].rows \cup Q
    BY <1>2, <2>1, <2>2
  <2>. QED  BY <2>3, <2>4
<1>5. LedgerTypes'
  <2>1. open[t].rows \subseteq Entry /\ IsFiniteSet(open[t].rows)
    BY <1>0 DEF LedgerTypes, OpenType
  <2>2. ledger' \in SUBSET Entry /\ IsFiniteSet(ledger')
    BY <1>0, <1>1, <2>1, FS_Union DEF LedgerTypes
  <2>3. committed' \in [Wallets -> [Columns -> Nat]]
    BY <1>0, <1>1 DEF LedgerTypes
  <2>4. /\ holder' \in [Wallets -> Transactions \cup {"none"}]
        /\ open' \in [Transactions -> OpenType]
        /\ \A u \in Transactions : IsFiniteSet(open'[u].rows)
    BY <1>1, Ended
  <2>. QED  BY <1>0, <1>1, <2>2, <2>3, <2>4 DEF LedgerTypes
<1>6. Stamped'
  BY <1>0, <1>1, <1>4 DEF Stamped
<1>7. Locking'
  BY <1>1, EndedLocking
<1>8. Books'
  <2>1. ASSUME NEW w \in Wallets, NEW type \in DOMAIN Balances
        PROVE  Chain(RowsOf(ledger', w, type), committed'[w][Balances[type]])
    <3>1. CASE holder[w] = t
      <4>1. \A e \in All : e.wallet = w => e \in ledger'
        BY <1>0, <1>1, <3>1, AllIs DEF Locking
      <4>2. ledger' \subseteq All
        BY <1>0, <1>1, AllIs
      <4>3. RowsOf(ledger', w, type) = RowsOf(All, w, type)
        BY <4>1, <4>2 DEF RowsOf
      <4>. QED  BY <1>0, <1>3, <3>1, <4>3 DEF Books
    <3>2. CASE holder[w] # t
      <4>1. RowsOf(open[t].rows, w, type) = {}
        BY <3>2, OthersRows
      <4>2. RowsOf(ledger', w, type) = RowsOf(ledger, w, type)
        BY <1>1, <4>1 DEF RowsOf
      <4>. QED  BY <1>0, <1>3, <3>2, <4>2 DEF Books
    <3>. QED  BY <3>1, <3>2
  <2>2. ASSUME NEW w \in Wallets, holder'[w] = "none" PROVE wallets'[w] = committed'[w]
    <3>1. holder[w] = t \/ holder[w] = "none"
      BY <1>1, <1>2, <2>2
    <3>. QED  BY <1>0, <1>1, <1>3, <3>1 DEF Books
  <2>. QED  BY <1>0, <1>1, <1>4, <2>1, <2>2 DEF Books
<1>. QED  BY <1>5, <1>6, <1>7, <1>8 DEF LedgerInv

LEMMA RollbackStep ==
  ASSUME LedgerInv, NEW t \in Transactions, Rollback(t)
  PROVE  LedgerInv'
<1>0. LedgerTypes /\ Stamped /\ Locking /\ Books
  BY DEF LedgerInv
<1>1. /\ wallets' = [w \in Wallets |-> IF w \in Held(t) THEN committed[w] ELSE wallets[w]]
      /\ holder' = [w \in Wallets |-> IF w \in Held(t) THEN "none" ELSE holder[w]]
      /\ open' = [open EXCEPT ![t] = Closed]
      /\ UNCHANGED <<committed, ledger, clock, ids>>
  BY DEF Rollback
<1>2. /\ \A w \in Wallets : w \in Held(t) <=> holder[w] = t
      /\ open'[t].rows = {} /\ \A u \in Transactions : u # t => open'[u] = open[u]
  BY <1>1, Ended
<1>3. \A w \in Wallets : wallets'[w] = IF holder[w] = t THEN committed[w] ELSE wallets[w]
  BY <1>1, <1>2
<1>4. /\ ledger \subseteq All' /\ All' \subseteq All
      /\ \A e \in All' : e \in ledger \/ \E u \in Transactions : u # t /\ e \in open[u].rows
      /\ \A e \in All : e \in All' \/ e \in open[t].rows
  <2>. DEFINE P == UNION {open[u].rows : u \in Transactions}
              Q == UNION {open'[u].rows : u \in Transactions}
  <2>1. \A e : e \in P <=> \E u \in Transactions : e \in open[u].rows
    OBVIOUS
  <2>2. \A e : e \in Q <=> \E u \in Transactions : e \in open'[u].rows
    OBVIOUS
  <2>3. All = ledger \cup P /\ All' = ledger \cup Q
    BY <1>1 DEF All
  <2>. HIDE DEF P, Q
  <2>4. \A e : e \in Q <=> \E u \in Transactions : u # t /\ e \in open[u].rows
    BY <1>2, <2>2
  <2>. QED  BY <2>1, <2>3, <2>4
<1>5. LedgerTypes'
  <2>1. wallets' \in [Wallets -> [Columns -> Nat]]
    BY <1>0, <1>1 DEF LedgerTypes
  <2>2. /\ holder' \in [Wallets -> Transactions \cup {"none"}]
        /\ open' \in [Transactions -> OpenType]
        /\ \A u \in Transactions : IsFiniteSet(open'[u].rows)
    BY <1>1, Ended
  <2>. QED  BY <1>0, <1>1, <2>1, <2>2 DEF LedgerTypes
<1>6. Stamped'
  BY <1>0, <1>1, <1>4 DEF Stamped
<1>7. Locking'
  BY <1>1, <1>3, EndedLocking
<1>8. Books'
  <2>1. ASSUME NEW w \in Wallets, NEW type \in DOMAIN Balances
        PROVE  Chain(RowsOf(All', w, type), wallets'[w][Balances[type]])
    <3>1. CASE holder[w] = t
      <4>1. RowsOf(All', w, type) = RowsOf(ledger, w, type)
        BY <1>0, <1>4, <3>1 DEF RowsOf, Locking
      <4>. QED  BY <1>0, <1>3, <3>1, <4>1 DEF Books
    <3>2. CASE holder[w] # t
      <4>1. RowsOf(open[t].rows, w, type) = {}
        BY <3>2, OthersRows
      <4>2. RowsOf(All', w, type) = RowsOf(All, w, type)
        BY <1>4, <4>1 DEF RowsOf
      <4>. QED  BY <1>0, <1>3, <3>2, <4>2 DEF Books
    <3>. QED  BY <3>1, <3>2
  <2>2. ASSUME NEW w \in Wallets, holder'[w] = "none" PROVE wallets'[w] = committed'[w]
    <3>1. holder[w] = t \/ holder[w] = "none"
      BY <1>1, <1>2, <2>2
    <3>. QED  BY <1>0, <1>1, <1>3, <3>1 DEF Books
  <2>. QED  BY <1>0, <1>1, <2>1, <2>2 DEF Books
<1>. QED  BY <1>5, <1>6, <1>7, <1>8 DEF LedgerInv

LEMMA StepLedger == LedgerInv /\ [LedgerNext]_ledgerVars => LedgerInv'
<1>. SUFFICES ASSUME LedgerInv, [LedgerNext]_ledgerVars PROVE LedgerInv'
  OBVIOUS
<1>1. ASSUME NEW t \in Transactions, NEW w \in Touched, lockRow(t, w) PROVE LedgerInv'
  BY <1>1, LockRowStep, TouchedAssumption
<1>2. ASSUME NEW t \in Transactions, NEW method \in Methods, NEW x \in Amounts, Write(t, method, x)
      PROVE  LedgerInv'
  BY <1>2, WriteStep
<1>3. ASSUME NEW t \in Transactions, Commit(t) \/ Rollback(t) PROVE LedgerInv'
  BY <1>3, CommitStep, RollbackStep
<1>4. CASE Tick
  <2>1. /\ UNCHANGED <<wallets, committed, holder, open, ledger, ids>> /\ clock' = clock + 1
        /\ LedgerTypes /\ Stamped /\ Locking /\ Books
    BY <1>4 DEF Tick, dbVars, LedgerInv
  <2>2. All' = All
    BY <2>1 DEF All
  <2>3. LedgerTypes'
    BY <2>1 DEF LedgerTypes
  <2>4. Stamped'
    <3>1. \A e \in All : e.at \in Nat /\ e.at <= clock /\ e.id <= ids
      BY <2>1, AllIs DEF Stamped, Entry
    <3>2. clock \in Nat
      BY <2>1 DEF LedgerTypes
    <3>3. \A e \in All : e.at <= clock + 1 /\ e.id <= ids
      BY <3>1, <3>2
    <3>. QED  BY <2>1, <2>2, <3>3 DEF Stamped
  <2>5. Locking' /\ Books'
    BY <2>1, <2>2 DEF Locking, Books
  <2>. QED  BY <2>3, <2>4, <2>5 DEF LedgerInv
<1>5. CASE getMyLedger \/ UNCHANGED ledgerVars
  <2>1. /\ UNCHANGED <<wallets, committed, holder, open, ledger, ids, clock>>
        /\ LedgerTypes /\ Stamped /\ Locking /\ Books
    BY <1>5 DEF getMyLedger, ledgerVars, dbVars, LedgerInv
  <2>2. All' = All
    BY <2>1 DEF All
  <2>. QED  BY <2>1, <2>2 DEF LedgerInv, LedgerTypes, Stamped, Locking, Books
<1>. QED  BY <1>1, <1>2, <1>3, <1>4, <1>5 DEF LedgerNext

LEMMA LedgerInvariance == LedgerSpec => []LedgerInv
BY InitLedger, StepLedger, PTL DEF LedgerSpec

(* The ledger explains every balance that others see, whichever            *)
(* transactions overlapped, waited for a lock or rolled back, and whatever *)
(* the clock did.                                                          *)
THEOREM LedgerAddsUp == LedgerSpec => []LedgerExplains
<1>1. LedgerInv => LedgerExplains
  <2>. SUFFICES ASSUME LedgerInv, NEW w \in Wallets, NEW type \in DOMAIN Balances
       PROVE  Accounts(Descending(RowsOf(ledger, w, type)), committed[w][Balances[type]])
    BY DEF LedgerExplains, Explains
  <2>. DEFINE S == RowsOf(ledger, w, type)
  <2>1. LedgerTypes /\ Stamped /\ S \subseteq ledger /\ Chain(S, committed[w][Balances[type]])
    BY DEF LedgerInv, Books, RowsOf
  <2>2. S \subseteq All
    BY <2>1, AllIs
  <2>. HIDE DEF S
  <2>3. Distinct(S) /\ IsFiniteSet(S)
    BY <2>1, <2>2, RowsDistinct, FS_Subset DEF LedgerTypes
  <2>4. Accounts(Descending(S), committed[w][Balances[type]])
    BY <2>1, <2>3, AccountsIs
  <2>. QED  BY <2>4 DEF S
<1>. QED  BY <1>1, LedgerInvariance, PTL

-----------------------------------------------------------------------------
(* The reader's pages.                                                     *)

Page(rows) == SubSeq(rows, 1, IF Len(rows) > Limit THEN Limit ELSE Len(rows))

(* A page is a piece of the list, and a row that is not on it comes after  *)
(* its last row, with more to come.                                        *)
LEMMA PageOf ==
  ASSUME NEW S, Distinct(S), IsFiniteSet(S)
  PROVE  LET rows == Descending(S)
             items == Page(rows)
         IN /\ items \in Seq(S)
            /\ \A i \in DOMAIN items : items[i] \in S
            /\ \A i, j \in DOMAIN items : i < j => Newer(items[i], items[j])
            /\ items = <<>> => S = {} /\ ~(Len(rows) > Limit)
            /\ \A e \in S : (\E i \in DOMAIN items : items[i] = e)
                              \/ (Len(rows) > Limit /\ Newer(items[Len(items)], e))
<1>. DEFINE rows == Descending(S)
            n == Cardinality(S)
            k == IF n > Limit THEN Limit ELSE n
            items == SubSeq(rows, 1, k)
<1>1. /\ n \in Nat /\ rows \in Seq(S) /\ Len(rows) = n
      /\ \A i \in 1 .. n : rows[i] \in S
      /\ \A e \in S : \E i \in 1 .. n : rows[i] = e
      /\ \A i, j \in 1 .. n : i < j <=> Newer(rows[i], rows[j])
  BY Listing
<1>. HIDE DEF rows, n
<1>2. k \in Nat /\ k <= n /\ (n = 0 <=> k = 0) /\ (k < n <=> n > Limit)
  BY <1>1, LimitAssumption
<1>. HIDE DEF k
<1>3. items \in Seq(S) /\ Len(items) = k /\ \A i \in 1 .. k : items[i] = rows[i]
  BY <1>1, <1>2, SubSeqProperties
<1>. HIDE DEF items
<1>4. DOMAIN items = 1 .. k
  BY <1>2, <1>3
<1>5. \A i \in DOMAIN items : items[i] \in S
  BY <1>1, <1>2, <1>3, <1>4
<1>6. \A i, j \in DOMAIN items : i < j => Newer(items[i], items[j])
  BY <1>1, <1>2, <1>3, <1>4
<1>7. items = <<>> => S = {} /\ ~(n > Limit)
  <2>1. items = <<>> => k = 0
    BY <1>3
  <2>. QED  BY <1>1, <1>2, <2>1
<1>8. ASSUME NEW e \in S
      PROVE  \/ \E i \in DOMAIN items : items[i] = e
             \/ n > Limit /\ Newer(items[Len(items)], e)
  <2>1. PICK i \in 1 .. n : rows[i] = e
    BY <1>1
  <2>2. CASE i <= k
    BY <1>1, <1>2, <1>3, <1>4, <2>1, <2>2
  <2>3. CASE k < i
    <3>1. k \in 1 .. n /\ n > Limit
      BY <1>1, <1>2, <2>3
    <3>2. Newer(rows[k], rows[i])
      BY <1>1, <2>3, <3>1
    <3>. QED  BY <1>2, <1>3, <2>1, <3>1, <3>2
  <2>. QED  BY <1>1, <1>2, <2>2, <2>3
<1>9. items = Page(rows)
  BY <1>1 DEF Page, items, k
<1>. QED  BY <1>1, <1>3, <1>5, <1>6, <1>7, <1>8, <1>9 DEF rows

(* What the reader was given are rows of the ledger in the order of the    *)
(* list; while there is more the cursor is the last of them, so that what  *)
(* comes next is older than all; what was there at first and is not among  *)
(* them is still to come.                                                  *)
Paging ==
  /\ got \in Seq(Entry)
  /\ \A i \in DOMAIN got : got[i] \in Mine
  /\ opening \subseteq Mine
  /\ hasMore => \/ got = <<>> /\ cursor = {} /\ opening = {}
                \/ got # <<>> /\ cursor = {got[Len(got)]}
  /\ PagesComplete

LEMMA InitPaging == LedgerInit => Paging
<1>. SUFFICES ASSUME LedgerInit PROVE Paging
  OBVIOUS
<1>1. got = <<>> /\ cursor = {} /\ opening = {}
  BY DEF LedgerInit
<1>2. got \in Seq(Entry) /\ DOMAIN got = {}
  BY <1>1
<1>. QED  BY <1>1, <1>2 DEF Paging, PagesComplete

(* The ledger only grows, and the reader's own state is untouched.         *)
LEMMA OthersPaging ==
  ASSUME Paging, UNCHANGED readVars, ledger \subseteq ledger'
  PROVE  Paging'
<1>1. UNCHANGED <<got, cursor, hasMore, opening>>
  BY DEF readVars
<1>2. Mine \subseteq Mine'
  BY DEF Mine
<1>3. PagesComplete'
  BY <1>1 DEF Paging, PagesComplete, AfterCursor
<1>. QED  BY <1>1, <1>2, <1>3 DEF Paging

LEMMA PageStep ==
  ASSUME LedgerInv, Paging, getMyLedger
  PROVE  Paging'
<1>. DEFINE S == {e \in Mine : AfterCursor(e)}
            rows == Descending(S)
            items == Page(rows)
<1>1. /\ hasMore
      /\ hasMore' = (Len(rows) > Limit)
      /\ got' = got \o items
      /\ cursor' = IF items = <<>> THEN {} ELSE {items[Len(items)]}
      /\ opening' = IF got = <<>> THEN Mine ELSE opening
      /\ ledger' = ledger
  BY DEF getMyLedger, dbVars, Page
<1>2. Mine \subseteq ledger /\ ledger \subseteq Entry /\ Mine' = Mine /\ S \subseteq Mine
  BY <1>1 DEF LedgerInv, LedgerTypes, Mine
<1>3. Distinct(Mine)
  <2>1. ledger \subseteq All
    BY AllIs DEF LedgerInv
  <2>. QED  BY <1>2, <2>1, RowsDistinct DEF LedgerInv
<1>4. Distinct(S) /\ IsFiniteSet(S)
  BY <1>2, <1>3, FS_Subset DEF Distinct, LedgerInv, LedgerTypes
<1>5. /\ got \in Seq(Entry)
      /\ \A i \in DOMAIN got : got[i] \in Mine
      /\ opening \subseteq Mine
      /\ \A i, j \in DOMAIN got : i < j => Newer(got[i], got[j])
      /\ \A e \in opening : ~AfterCursor(e) => e \in Range(got)
      /\ \/ got = <<>> /\ cursor = {} /\ opening = {}
         \/ got # <<>> /\ cursor = {got[Len(got)]}
  BY <1>1 DEF Paging, PagesComplete
<1>6. \A e \in S, c \in cursor : Newer(c, e)
  BY DEF AfterCursor
<1>7. \A e \in Mine : AfterCursor(e) => e \in S
  OBVIOUS
<1>. HIDE DEF S
<1>8. /\ items \in Seq(S)
      /\ \A i \in DOMAIN items : items[i] \in S
      /\ \A i, j \in DOMAIN items : i < j => Newer(items[i], items[j])
      /\ items = <<>> => S = {} /\ ~(Len(rows) > Limit)
      /\ \A e \in S : (\E i \in DOMAIN items : items[i] = e)
                        \/ (Len(rows) > Limit /\ Newer(items[Len(items)], e))
  BY <1>4, PageOf
<1>. HIDE DEF items
<1>9. /\ got' \in Seq(Entry) /\ Len(got') = Len(got) + Len(items)
      /\ Len(got) \in Nat /\ Len(items) \in Nat
      /\ DOMAIN got = 1 .. Len(got) /\ DOMAIN items = 1 .. Len(items)
      /\ DOMAIN got' = 1 .. Len(got) + Len(items)
      /\ \A i \in 1 .. Len(got) : got'[i] = got[i]
      /\ \A i \in 1 .. Len(got) + Len(items) :
           i > Len(got) => i - Len(got) \in 1 .. Len(items) /\ got'[i] = items[i - Len(got)]
      /\ \A i \in 1 .. Len(items) : got'[Len(got) + i] = items[i]
  <2>1. items \in Seq(Entry)
    BY <1>2, <1>8
  <2>. QED  BY <1>1, <1>5, <2>1
<1>10. ASSUME NEW i \in DOMAIN got' PROVE got'[i] \in Mine'
  <2>1. CASE i <= Len(got)
    BY <1>2, <1>5, <1>9, <2>1
  <2>2. CASE i > Len(got)
    <3>1. i - Len(got) \in DOMAIN items /\ got'[i] = items[i - Len(got)]
      BY <1>9, <2>2
    <3>. QED  BY <1>2, <1>8, <3>1
  <2>. QED  BY <1>9, <2>1, <2>2
<1>11. opening' \subseteq Mine'
  BY <1>1, <1>2, <1>5
<1>12. hasMore' => got' # <<>> /\ cursor' = {got'[Len(got')]}
  <2>. SUFFICES ASSUME hasMore' PROVE got' # <<>> /\ cursor' = {got'[Len(got')]}
    OBVIOUS
  <2>1. items # <<>>
    BY <1>1, <1>8
  <2>2. Len(items) \in 1 .. Len(items)
    BY <1>8, <2>1
  <2>3. got'[Len(got')] = items[Len(items)] /\ Len(got') # 0
    BY <1>9, <2>2
  <2>. QED  BY <1>1, <2>1, <2>3
<1>13. ASSUME NEW i \in 1 .. Len(got), NEW e \in S
       PROVE  Newer(got[i], e)
  <2>1. got # <<>> /\ cursor = {got[Len(got)]}
    BY <1>5
  <2>2. Len(got) \in 1 .. Len(got) /\ Newer(got[Len(got)], e)
    BY <1>6, <1>9, <2>1
  <2>3. i = Len(got) \/ Newer(got[i], got[Len(got)])
    <3>1. i = Len(got) \/ i < Len(got)
      <4>1. Len(got) \in Nat
        BY <1>9
      <4>. QED  BY <4>1
    <3>2. i \in DOMAIN got /\ Len(got) \in DOMAIN got
      BY <1>9, <2>2
    <3>3. \A k, l \in DOMAIN got : k < l => Newer(got[k], got[l])
      BY <1>5
    <3>. QED  BY <3>1, <3>2, <3>3
  <2>4. got[i] \in Mine /\ got[Len(got)] \in Mine /\ e \in Mine
    BY <1>2, <1>5, <1>9, <2>2
  <2>. QED  BY <1>3, <2>2, <2>3, <2>4, NewerOrder
<1>14. ASSUME NEW i \in DOMAIN got', NEW j \in DOMAIN got', i < j
       PROVE  Newer(got'[i], got'[j])
  <2>1. CASE j <= Len(got)
    BY <1>5, <1>9, <1>14, <2>1
  <2>2. CASE i > Len(got)
    <3>1. /\ i - Len(got) \in DOMAIN items /\ j - Len(got) \in DOMAIN items
          /\ i - Len(got) < j - Len(got)
          /\ got'[i] = items[i - Len(got)] /\ got'[j] = items[j - Len(got)]
      BY <1>9, <1>14, <2>2
    <3>. QED  BY <1>8, <3>1
  <2>3. CASE i <= Len(got) /\ j > Len(got)
    <3>1. i \in 1 .. Len(got) /\ got'[i] = got[i]
      BY <1>9, <2>3
    <3>2. got'[j] \in S
      BY <1>8, <1>9, <2>3
    <3>. QED  BY <1>13, <3>1, <3>2
  <2>. QED  BY <1>9, <2>1, <2>2, <2>3
<1>15. ASSUME NEW e \in opening', hasMore' => ~AfterCursor(e)'
       PROVE  e \in Range(got')
  <2>1. \A i \in DOMAIN got' : got'[i] \in Range(got')
    BY DEF Range
  <2>2. CASE e \in S
    <3>1. ~(hasMore' /\ Newer(items[Len(items)], e) /\ items # <<>>)
      BY <1>1, <1>15 DEF AfterCursor
    <3>2. PICK i \in DOMAIN items : items[i] = e
      BY <1>1, <1>8, <2>2, <3>1
    <3>3. Len(got) + i \in DOMAIN got' /\ got'[Len(got) + i] = e
      BY <1>9, <3>2
    <3>. QED  BY <2>1, <3>3
  <2>3. CASE e \notin S
    <3>1. e \in Mine /\ ~AfterCursor(e)
      BY <1>1, <1>5, <1>7, <2>3
    <3>2. cursor # {}
      BY <3>1 DEF AfterCursor
    <3>3. e \in Range(got)
      BY <1>1, <1>5, <3>1, <3>2
    <3>4. PICK i \in DOMAIN got : got[i] = e
      BY <3>3 DEF Range
    <3>5. i \in DOMAIN got' /\ got'[i] = e
      BY <1>9, <3>4
    <3>. QED  BY <2>1, <3>5
  <2>. QED  BY <2>2, <2>3
<1>16. PagesComplete'
  BY <1>14, <1>15 DEF PagesComplete
<1>. QED  BY <1>9, <1>10, <1>11, <1>12, <1>16 DEF Paging

LEMMA StepPaging == LedgerInv /\ Paging /\ [LedgerNext]_ledgerVars => Paging'
<1>. SUFFICES ASSUME LedgerInv, Paging, [LedgerNext]_ledgerVars PROVE Paging'
  OBVIOUS
<1>1. CASE getMyLedger
  BY <1>1, PageStep
<1>2. CASE ~getMyLedger
  <2>1. UNCHANGED readVars /\ ledger \subseteq ledger'
    BY <1>2 DEF LedgerNext, lockRow, Write, Commit, Rollback, Tick, ledgerVars, dbVars
  <2>. QED  BY <2>1, OthersPaging
<1>. QED  BY <1>1, <1>2

(* A user who pages through the ledger with the cursor gets every entry    *)
(* there was at the first page, once, in order, though entries are         *)
(* committed between the pages and the clock moves.                        *)
THEOREM PagingLosesNothing == LedgerSpec => []PagesComplete
<1>1. Paging => PagesComplete
  BY DEF Paging
<1>. QED  BY <1>1, LedgerInvariance, InitPaging, StepPaging, PTL DEF LedgerSpec

=============================================================================
