-------------------------------- MODULE Accounts --------------------------------
(***************************************************************************)
(* Accounts of the staff, their sessions, and who may administer whom:      *)
(* login, refresh tokens, passwords, blocking, roles and assignments.       *)
(* Translated from modules/auth/auth.service.js, refresh-token.repository,  *)
(* modules/users/user.service.js, user.repository and                       *)
(* modules/access-control/.                                                 *)
(*                                                                          *)
(* A call is one HTTP request.  Most calls read the account in one step and *)
(* write in a later one.  revokeAllForUser is one UPDATE: it revokes the    *)
(* tokens that were there when it began, and waits for a token another      *)
(* transaction has locked, so it begins in one step and ends in another.    *)
(* A call that is refused changes nothing and is no step.  Whether a        *)
(* password matches is the only thing modelled of it: it is the number of   *)
(* the call that set it.                                                    *)
(***************************************************************************)
EXTENDS Rows, Naturals, FiniteSets

CONSTANTS
  User,          \* ids of users
  Installations, \* accounts and assignments that a behaviour begins with
  NewRoles,      \* roles that administrators give
  MaxCalls       \* bound: calls of a behaviour

Call == 1 .. MaxCalls
Role == {"SUPER_ADMIN", "ADMIN", "STAFF"}
AccountRow == [role : Role, isActive : BOOLEAN, blockedAt : Call \union {NoValue},
               mustChangePassword : BOOLEAN, password : 0 .. MaxCalls]
TokenRow == [user : User, parent : Call \union {NoValue}, revoked : BOOLEAN]
\* One journey and one station at which it stops stand for all.
Assignment == {"JOURNEY", "STATION"} \X User

\* A call in flight: what it has read and will write, the token it has locked,
\* the tokens it revokes, and whether no account was written since it read one.
Operation == {"LOGIN", "REFRESH", "REUSE", "LOGOUT_ALL", "CHANGE_INITIAL",
              "CHANGE_OWN", "BLOCK", "UNBLOCK", "RESET", "ASSIGN_ROLE"}
Password == [password : 0 .. MaxCalls, mustChangePassword : BOOLEAN]
Activity == [isActive : BOOLEAN, blockedAt : Call \union {NoValue}]
Values == {<<>>} \union Password \union Activity \union [role : Role]
CallRow == [op : Operation, user : User, stage : {"READ", "WRITTEN", "SWEEPING"},
            read : AccountRow, values : Values, token : Call \union {NoValue},
            seen : SUBSET Call, fresh : BOOLEAN]

\* The installation is made with a super admin (db/bootstrap), and blockedAt is
\* written with isActive.
ASSUME AccountsAssumption ==
  /\ IsFiniteSet(User)
  /\ MaxCalls \in Nat
  /\ NewRoles \subseteq Role
  /\ NoValue \notin Call
  /\ None \notin AccountRow \union TokenRow \union CallRow
  /\ \A i \in Installations :
       /\ i.account \in [User -> AccountRow \union {None}]
       /\ i.assigned \subseteq Assignment
       /\ \A u \in User : i.account[u] # None =>
            (i.account[u].isActive <=> i.account[u].blockedAt = NoValue)
       /\ \E u \in User : i.account[u] # None /\ i.account[u].role = "SUPER_ADMIN"
                           /\ i.account[u].isActive

VARIABLES
  account,     \* users: a row for each id
  tokens,      \* refresh_tokens: the row that a call has stored
  calls,       \* the calls in flight
  begun,       \* how many calls have begun
  assigned,    \* active rows of admin_journeys and staff_stations
  raced,       \* an account was written from a reading older than the row
  overlapped   \* calls that had read an account when it was blocked

accountVars == <<account, tokens, calls, begun, assigned, raced, overlapped>>

AccountsTypeOK ==
  /\ account \in [User -> AccountRow \union {None}]
  /\ tokens \in [Call -> TokenRow \union {None}]
  /\ calls \in [Call -> CallRow \union {None}]
  /\ begun \in 0 .. MaxCalls
  /\ assigned \subseteq Assignment
  /\ raced \in BOOLEAN /\ overlapped \subseteq Call

AccountsInit ==
  /\ \E i \in Installations : account = i.account /\ assigned = i.assigned
  /\ tokens = [c \in Call |-> None]
  /\ calls = [c \in Call |-> None]
  /\ begun = 0
  /\ raced = FALSE
  /\ overlapped = {}

-------------------------------------------------------------------------------
(* Who may do what                                                           *)

\* validateAuthenticatedUser; the middleware of every request runs it too.
Admitted(u) == account[u] # None /\ account[u].isActive /\ account[u].blockedAt = NoValue

\* A mistake: the block is not looked at.
Known(u) == account[u] # None

HasRole(u, role) == account[u] # None /\ account[u].role = role

\* authenticate and requirePasswordChanged
Actor(a) == Admitted(a) /\ ~account[a].mustChangePassword

SuperAdmin(a) == Actor(a) /\ HasRole(a, "SUPER_ADMIN")

\* canCreateUser and canAssignRole
CanGiveRole(a, role) == SuperAdmin(a) \/ (Actor(a) /\ HasRole(a, "ADMIN") /\ role = "STAFF")

\* canManageUser: the administrator has a journey that stops where the member
\* of staff works.
CanManage(a, u) ==
  \/ SuperAdmin(a)
  \/ /\ Actor(a) /\ HasRole(a, "ADMIN") /\ HasRole(u, "STAFF")
     /\ <<"STATION", u>> \in assigned /\ <<"JOURNEY", a>> \in assigned

ActiveSuperAdmins == {u \in User : HasRole(u, "SUPER_ADMIN") /\ account[u].isActive}

\* Off by one.
NotTheLastOne(u) == HasRole(u, "SUPER_ADMIN") => Cardinality(ActiveSuperAdmins) > 0

\* countActiveSuperAdmins() <= 1 refuses to block or to demote.
NotLastSuperAdmin(u) == HasRole(u, "SUPER_ADMIN") => Cardinality(ActiveSuperAdmins) > 1

-------------------------------------------------------------------------------
(* Calls, row locks and the revocation of sessions                           *)

InFlight(op) == {c \in Call : calls[c] # None /\ calls[c].op = op}

\* Call c begins: its operation, and the account it has read.
Begin(c, op, u) ==
  /\ begun' = c
  /\ account[u] # None
  /\ calls' = [calls EXCEPT ![c] =
       [op |-> op, user |-> u, stage |-> "READ", read |-> account[u], values |-> <<>>,
        token |-> NoValue, seen |-> {}, fresh |-> TRUE]]

Finished(c) == [calls EXCEPT ![c] = None]

LiveTokens(u) ==
  {t \in Call : tokens[t] # None /\ tokens[t].user = u /\ ~tokens[t].revoked}

\* findByIdForUpdate on a refresh token, by a call other than c
TokenLocked(t, c) == \E d \in Call \ {c} : calls[d] # None /\ calls[d].token = t

\* A mistake: the token is read without its lock.
NeverLocked(t, c) == FALSE

\* The user row was updated, or read FOR UPDATE, in a transaction still open.
Holding(u, ops) ==
  \E c \in Call : calls[c] # None /\ calls[c].user = u /\ calls[c].op \in ops
                  /\ calls[c].stage = "SWEEPING"
RowLocked(u) == Holding(u, {"BLOCK", "RESET", "CHANGE_INITIAL"})

\* A new token refers to the user: FOR UPDATE on the user keeps it out.
MayStoreToken(u) == ~Holding(u, {"CHANGE_INITIAL"})

Revoked(table, these) ==
  [t \in Call |-> IF t \in these THEN [table[t] EXCEPT !.revoked = TRUE] ELSE table[t]]

NewToken(u, parent) == [user |-> u, parent |-> parent, revoked |-> FALSE]

\* Tokens that revokeAllForUser finds when it begins.
Sweeping(c, table) ==
  [table EXCEPT ![c].stage = "SWEEPING", ![c].seen = LiveTokens(table[c].user)]

\* The UPDATE has got every row it found.
Swept(c) ==
  /\ calls[c] # None /\ calls[c].stage = "SWEEPING"
  /\ \A t \in calls[c].seen : ~TokenLocked(t, c)

\* The account is written; readings of other calls are older than it now.
Write(c, row) ==
  /\ account' = [account EXCEPT ![calls[c].user] = row]
  /\ raced' = (raced \/ ~calls[c].fresh)

Outdate(c, table) ==
  [d \in Call |-> IF d # c /\ table[d] # None THEN [table[d] EXCEPT !.fresh = FALSE]
                  ELSE table[d]]

\* Requests that were let in before the account is blocked.
Overlap(c) ==
  IF calls[c].op # "BLOCK" THEN overlapped
  ELSE overlapped \union
       {d \in InFlight("LOGIN") \union InFlight("REFRESH") : calls[d].user = calls[c].user}

\* The same of a request that is let in while the block is not committed.
LetIn(c, u) == IF Holding(u, {"BLOCK"}) THEN overlapped \union {c} ELSE overlapped

-------------------------------------------------------------------------------
(* Sessions                                                                  *)

\* login: the password matches; the account is read before the transaction.
Login(c, u) ==
  /\ Begin(c, "LOGIN", u)
  /\ Admitted(u) /\ ~account[u].mustChangePassword
  /\ overlapped' = LetIn(c, u)
  /\ UNCHANGED <<account, tokens, assigned, raced>>

\* issueTokenPair in the transaction of login
IssueFirstToken(c) ==
  /\ calls[c] # None /\ calls[c].op = "LOGIN"
  /\ MayStoreToken(calls[c].user)
  /\ tokens' = [tokens EXCEPT ![c] = NewToken(calls[c].user, NoValue)]
  /\ calls' = Finished(c)
  /\ UNCHANGED <<account, begun, assigned, raced, overlapped>>

\* A mistake: any token that is stored is exchanged.
RefreshWithoutLock(c, t) ==
  /\ tokens[t] # None /\ ~tokens[t].revoked /\ ~NeverLocked(t, c)
  /\ Admitted(tokens[t].user) /\ ~account[tokens[t].user].mustChangePassword

\* A mistake: whether the account is blocked is left to the access token.
RefreshForAnyone(c, t) ==
  /\ tokens[t] # None /\ ~tokens[t].revoked /\ ~TokenLocked(t, c)
  /\ Known(tokens[t].user) /\ ~account[tokens[t].user].mustChangePassword

\* The checks of refreshAccessToken, under the lock of the token
MayRefresh(c, t) ==
  /\ tokens[t] # None /\ ~tokens[t].revoked /\ ~TokenLocked(t, c)
  /\ Admitted(tokens[t].user) /\ ~account[tokens[t].user].mustChangePassword

\* refreshAccessToken up to the new token
Refresh(c, t) ==
  /\ MayRefresh(c, t)
  /\ begun' = c
  /\ calls' = [calls EXCEPT ![c] =
       [op |-> "REFRESH", user |-> tokens[t].user, stage |-> "READ",
        read |-> account[tokens[t].user], values |-> <<>>, token |-> t, seen |-> {},
        fresh |-> TRUE]]
  /\ overlapped' = LetIn(c, tokens[t].user)
  /\ UNCHANGED <<account, tokens, assigned, raced>>

\* The old token is revoked, a new one stored, and the transaction commits.
CompleteRefresh(c) ==
  /\ calls[c] # None /\ calls[c].op = "REFRESH"
  /\ MayStoreToken(calls[c].user)
  /\ tokens' = [Revoked(tokens, {calls[c].token}) EXCEPT
                  ![c] = NewToken(calls[c].user, calls[c].token)]
  /\ calls' = Finished(c)
  /\ UNCHANGED <<account, begun, assigned, raced, overlapped>>

\* A token that is revoked already is shown again: every session ends.
DetectReuse(c, t) ==
  /\ tokens[t] # None /\ tokens[t].revoked /\ ~TokenLocked(t, c)
  /\ begun' = c
  /\ calls' = [calls EXCEPT ![c] =
       [op |-> "REUSE", user |-> tokens[t].user, stage |-> "SWEEPING",
        read |-> account[tokens[t].user], values |-> <<>>, token |-> t,
        seen |-> LiveTokens(tokens[t].user), fresh |-> TRUE]]
  /\ UNCHANGED <<account, tokens, assigned, raced, overlapped>>

\* logout
Logout(c, t) ==
  /\ tokens[t] # None /\ ~tokens[t].revoked /\ ~TokenLocked(t, c)
  /\ begun' = c
  /\ tokens' = Revoked(tokens, {t})
  /\ UNCHANGED <<account, calls, assigned, raced, overlapped>>

\* logoutAll
LogoutAll(c, u) ==
  /\ Begin(c, "LOGOUT_ALL", u)
  /\ Admitted(u)
  /\ UNCHANGED <<account, tokens, assigned, raced, overlapped>>

-------------------------------------------------------------------------------
(* Administration of accounts                                                *)

HolderRole(kind) == IF kind = "STATION" THEN "STAFF" ELSE "ADMIN"

\* createUser: one transaction, with the first journeys of an administrator or
\* stations of a member of staff, which only a super admin gives.
CreateUser(c, a, u, role, kinds) ==
  /\ account[u] = None /\ role \in NewRoles /\ CanGiveRole(a, role)
  /\ begun' = c
  /\ account' = [account EXCEPT ![u] =
       [role |-> role, isActive |-> TRUE, blockedAt |-> NoValue,
        mustChangePassword |-> TRUE, password |-> c]]
  /\ kinds # {} => SuperAdmin(a) /\ \A kind \in kinds : HolderRole(kind) = role
  /\ assigned' = assigned \union (kinds \X {u})
  /\ UNCHANGED <<tokens, calls, raced, overlapped>>

\* A call of an administrator that reads the account of u; what it will write
Administer(c, op, a, u, values) ==
  /\ begun' = c
  /\ account[u] # None
  /\ calls' = [calls EXCEPT ![c] =
       [op |-> op, user |-> u, stage |-> "READ", read |-> account[u], values |-> values,
        token |-> NoValue, seen |-> {}, fresh |-> TRUE]]
  /\ UNCHANGED <<account, tokens, assigned, raced, overlapped>>

\* blockUser: the super admins are counted before the transaction.
BlockUser(c, a, u) ==
  /\ CanManage(a, u) /\ NotLastSuperAdmin(u)
  /\ Administer(c, "BLOCK", a, u, [isActive |-> FALSE, blockedAt |-> c])

UnblockUser(c, a, u) ==
  /\ CanManage(a, u)
  /\ Administer(c, "UNBLOCK", a, u, [isActive |-> TRUE, blockedAt |-> NoValue])

ResetUserPassword(c, a, u) ==
  /\ CanManage(a, u)
  /\ Administer(c, "RESET", a, u, [password |-> c, mustChangePassword |-> TRUE])

\* assignRole, which only a super admin reaches
AssignRole(c, a, u, role) ==
  /\ SuperAdmin(a) /\ role \in NewRoles
  /\ role = "SUPER_ADMIN" \/ NotLastSuperAdmin(u)
  /\ Administer(c, "ASSIGN_ROLE", a, u, [role |-> role])

\* changeOwnPassword
ChangeOwnPassword(c, u) ==
  /\ Actor(u)
  /\ Administer(c, "CHANGE_OWN", u, u, [password |-> c, mustChangePassword |-> FALSE])

\* login with a temporary password: its answer is a token to change it.
LoginTemporary(c, u) ==
  /\ Begin(c, "CHANGE_INITIAL", u)
  /\ Admitted(u) /\ account[u].mustChangePassword
  /\ UNCHANGED <<account, tokens, assigned, raced, overlapped>>

\* changeInitialPassword reads the account FOR UPDATE: the temporary password
\* must still be the one that was given to log in.
ChangeInitialPassword(c) ==
  /\ calls[c] # None /\ calls[c].op = "CHANGE_INITIAL" /\ calls[c].stage = "READ"
  /\ LET u == calls[c].user IN
       /\ Admitted(u) /\ account[u].mustChangePassword /\ ~RowLocked(u)
       /\ account[u].password = calls[c].read.password
       /\ calls' = Sweeping(c, [calls EXCEPT
            ![c].read = account[u], ![c].fresh = TRUE,
            ![c].values = [password |-> c, mustChangePassword |-> FALSE]])
  /\ UNCHANGED <<account, tokens, begun, assigned, raced, overlapped>>

\* blockUser and resetUserPassword write the account and begin to revoke.
WriteInTransaction(c) ==
  /\ calls[c] # None /\ calls[c].op \in {"BLOCK", "RESET"} /\ calls[c].stage = "READ"
  /\ ~RowLocked(calls[c].user)
  /\ calls' = Sweeping(c, calls)
  /\ overlapped' = Overlap(c)
  /\ UNCHANGED <<account, tokens, begun, assigned, raced>>

\* The statements of the others commit one by one.
WriteAlone(c) ==
  /\ calls[c] # None /\ calls[c].stage = "READ" /\ ~RowLocked(calls[c].user)
  /\ calls[c].op \in {"CHANGE_OWN", "ASSIGN_ROLE", "UNBLOCK"}
  /\ Write(c, Updated(account[calls[c].user], calls[c].read, calls[c].values))
  /\ calls' = Outdate(c, IF calls[c].op = "UNBLOCK" THEN Finished(c)
                         ELSE [calls EXCEPT ![c].stage = "WRITTEN"])
  /\ UNCHANGED <<tokens, begun, assigned, overlapped>>

BeginSweep(c) ==
  /\ calls[c] # None
  /\ \/ calls[c].op \in {"CHANGE_OWN", "ASSIGN_ROLE"} /\ calls[c].stage = "WRITTEN"
     \/ calls[c].op = "LOGOUT_ALL" /\ calls[c].stage = "READ"
  /\ calls' = Sweeping(c, calls)
  /\ UNCHANGED <<account, tokens, begun, assigned, raced, overlapped>>

\* The statement, and its transaction where it has one, commits.
FinishSweep(c) ==
  /\ Swept(c)
  /\ IF calls[c].op \in {"BLOCK", "RESET", "CHANGE_INITIAL"}
     THEN /\ Write(c, Updated(account[calls[c].user], calls[c].read, calls[c].values))
          /\ calls' = Outdate(c, Finished(c))
     ELSE calls' = Finished(c) /\ UNCHANGED <<account, raced>>
  /\ tokens' = [Revoked(tokens, calls[c].seen) EXCEPT
       ![c] = IF calls[c].op = "CHANGE_INITIAL" THEN NewToken(calls[c].user, NoValue)
              ELSE tokens[c]]
  /\ overlapped' = IF calls[c].op = "BLOCK" THEN overlapped \ calls[c].seen ELSE overlapped
  /\ UNCHANGED <<begun, assigned>>

\* A call ends without its last steps: rolled back, a deadlock, a stop.  One
\* that has only read leaves nothing behind.
Abandon(c) ==
  /\ calls[c] # None /\ (calls[c].stage # "READ" \/ calls[c].token # NoValue)
  /\ calls' = Finished(c)
  /\ UNCHANGED <<account, tokens, begun, assigned, raced, overlapped>>

-------------------------------------------------------------------------------
(* Assignments                                                               *)

\* assignAdminToJourney, assignStaffToStation: the row is
\* inserted, or restored when it was revoked before.
Assign(c, a, kind, u) ==
  /\ SuperAdmin(a) /\ HasRole(u, HolderRole(kind))
  /\ <<kind, u>> \notin assigned
  /\ begun' = c
  /\ assigned' = assigned \union {<<kind, u>>}
  /\ UNCHANGED <<account, tokens, calls, raced, overlapped>>

\* removeAdminFromJourney, removeStaffFromStation
Unassign(c, a, kind, u) ==
  /\ SuperAdmin(a) /\ <<kind, u>> \in assigned
  /\ begun' = c
  /\ assigned' = assigned \ {<<kind, u>>}
  /\ UNCHANGED <<account, tokens, calls, raced, overlapped>>

SessionCall(c) ==
  \/ \E u \in User : Login(c, u) \/ LoginTemporary(c, u) \/ LogoutAll(c, u)
                     \/ ChangeOwnPassword(c, u)
  \/ \E t \in Call : Refresh(c, t) \/ DetectReuse(c, t) \/ Logout(c, t)

AdministrationCall(c) ==
  \E a, u \in User :
    \/ BlockUser(c, a, u) \/ UnblockUser(c, a, u) \/ ResetUserPassword(c, a, u)
    \/ \E role \in NewRoles :
         \/ \E kinds \in SUBSET {"JOURNEY", "STATION"} : CreateUser(c, a, u, role, kinds)
         \/ AssignRole(c, a, u, role)
    \/ \E kind \in {"JOURNEY", "STATION"} :
         Assign(c, a, kind, u) \/ Unassign(c, a, kind, u)

ContinuedCall(c) ==
  \/ IssueFirstToken(c) \/ CompleteRefresh(c) \/ ChangeInitialPassword(c)
  \/ WriteInTransaction(c) \/ WriteAlone(c) \/ BeginSweep(c) \/ FinishSweep(c)
  \/ Abandon(c)

AccountsNext ==
  \/ begun < MaxCalls /\ (SessionCall(begun + 1) \/ AdministrationCall(begun + 1))
  \/ \E c \in Call : ContinuedCall(c)

AccountsSpec == AccountsInit /\ [][AccountsNext]_accountVars

-------------------------------------------------------------------------------
(* Properties                                                                *)

\* A refresh token is exchanged once, however many requests show it at once:
\* two successors would be two sessions that both look genuine.
TokensExchangedOnce ==
  \A c \in Call : tokens[c] # None /\ tokens[c].parent # NoValue =>
    \A d \in Call : tokens[d] # None /\ tokens[d].parent = tokens[c].parent => c = d

\* Blocking a user ends the sessions: a token of a blocked user that is not
\* revoked was stored by a request let in before the block was committed.
BlockedSessionsEnd ==
  \A c \in Call :
    tokens[c] # None /\ ~tokens[c].revoked /\ ~Admitted(tokens[c].user)
      => c \in overlapped

\* Blocks, demotions and unblocks never take away the last super admin who can
\* log in, unless one of them was decided on an account read before another.
SuperAdminRemains ==
  raced \/ \E u \in User : HasRole(u, "SUPER_ADMIN") /\ Admitted(u)
===============================================================================
