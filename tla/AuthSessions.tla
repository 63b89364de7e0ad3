----------------------------- MODULE AuthSessions -----------------------------
(***************************************************************************)
(* The refresh-token store of the API and the handlers that work on it:    *)
(* login, refresh (rotation), session validation, logout, forgot-password  *)
(* and reset-password (apps/api/src/auth/auth.service.ts and               *)
(* apps/api/src/student/student-auth.service.ts).                          *)
(*                                                                         *)
(* Every handler reads the database, decides, and writes in a later        *)
(* transaction.  No transaction repeats the check of the read, the         *)
(* isolation level is the database's default and no row is locked by a     *)
(* read, so the read and the write are two steps here and the steps of     *)
(* other handlers come between them.  A handler in flight may also be      *)
(* dropped (process restart, lost database connection): each transaction   *)
(* is atomic, what follows it is lost.                                     *)
(*                                                                         *)
(* One audience is modelled.  Account status and roles are written at      *)
(* registration only, so eligibility is a constant.                        *)
(***************************************************************************)
EXTENDS Integers, FiniteSets

CONSTANTS
  User,                \* accounts
  Eligible,            \* those that are active and hold the audience's role
  TokenId,             \* refresh token ids (jti); finite: a bound of a run
  ResetLink,           \* password reset tokens; finite: a bound of a run
  Request,             \* handler slots: how many requests run at a time
  Endpoint,            \* the endpoints called in a run ("guess": login with a
                       \* wrong password)
  None,                \* the SQL NULL
  RefreshTtl,          \* lifetime of a refresh token, in ticks
  RotationGrace,       \* ROTATION_GRACE_MS, in ticks
  RotationGraceMaxUses,\* ROTATION_GRACE_MAX_USES
  MaxFailedAttempts,   \* authMaxFailedAttempts
  LockTime,            \* authLockMinutes, in ticks
  ResetTtl,            \* TOKEN_TTL_MS of a reset link, in ticks
  MaxTime              \* bound on the clock of a run

(* revocationReason, when it is set *)
Reason == {"ROTATED", "LOGOUT", "PASSWORD_RESET"}

ASSUME ConstantsAssumption ==
  /\ Eligible \subseteq User
  /\ None \notin User \cup TokenId \cup ResetLink \cup Request \cup Reason
  /\ RefreshTtl \in Nat \ {0} /\ ResetTtl \in Nat \ {0}
  /\ RotationGrace \in Nat /\ RotationGraceMaxUses \in Nat
  /\ MaxFailedAttempts \in Nat \ {0} /\ LockTime \in Nat \ {0}
  /\ MaxTime \in Nat

VARIABLES
  now,       \* the clock
  user,      \* the users table
  issued,    \* ids of the rows of refresh_tokens
  rt,        \* those rows
  link,      \* password_reset_tokens
  audited,   \* ROTATION_GRACE_VALIDATE rows of audit_logs, per token
  req,       \* the handlers in flight
  \* History, read by no handler:
  parent,    \* the token a token was rotated from
  minter,    \* the handler slot that created a token
  pwdAtLogin,\* the password a token's session signed in with
  escaped,   \* tokens created by a handler that had read the account before a
             \* reset committed, and the tokens rotated from them
  loggedOut, \* tokens a logout has been committed for
  pwdAtIssue,\* the password of the account when a reset link was issued
  reopened   \* failed logins that were let in because a lock had run out

storeVars   == <<user, issued, rt, link, audited>>
historyVars == <<parent, minter, pwdAtLogin, escaped, loggedOut, pwdAtIssue, reopened>>
vars == <<now, storeVars, req, historyVars>>

-----------------------------------------------------------------------------
(* Rows.  A password is the number of times it has been reset.  A null      *)
(* lockedUntil is 0 (a lock always ends later than 0); revokedAt is set     *)
(* exactly when the reason is.                                              *)

UserRow == [password : Nat, failedLoginAttempts : Nat, lockedUntil : Nat]

TokenRow == [owner            : User \cup {None},
             expiresAt        : Nat,
             revocationReason : Reason \cup {None},
             revokedAt        : Nat,
             replacedBy       : TokenId \cup {None},
             graceUseCount    : Nat]

NoTokenRow == [owner |-> None, expiresAt |-> 0, revocationReason |-> None,
               revokedAt |-> 0, replacedBy |-> None, graceUseCount |-> 0]

NewTokenRow(u) == [NoTokenRow EXCEPT !.owner = u, !.expiresAt = now + RefreshTtl]

LinkRow == [owner : User \cup {None}, used : BOOLEAN, expiresAt : Nat]

NoLinkRow == [owner |-> None, used |-> FALSE, expiresAt |-> 0]

(* A handler in flight: where it is and what it has read. *)
Pc == {"idle", "loginSucceed", "loginFail", "rotate", "claimGrace",
       "auditGrace", "logout", "reset"}

Handler == [pc : Pc, user : User \cup {None}, token : TokenId \cup {None},
            link : ResetLink \cup {None}, password : Nat, lockRanOut : BOOLEAN]

Idle == [pc |-> "idle", user |-> None, token |-> None, link |-> None,
         password |-> 0, lockRanOut |-> FALSE]

-----------------------------------------------------------------------------
(* What the handlers ask of a row and what they write to one.  A definition *)
(* whose name begins with Mut is its neighbour with a bug: no action uses   *)
(* it, the mutation runs put it in the neighbour's place.                   *)

Locked(u)    == user[u].lockedUntil > now

Expired(t) == rt[t].expiresAt <= now
Revoked(t) == rt[t].revocationReason # None

MutLive(t) == t \in issued
Live(t)    == t \in issued /\ ~Revoked(t)

InGrace(t) == rt[t].revocationReason = "ROTATED" /\ now < rt[t].revokedAt + RotationGrace

(* The conditional updateMany of claimRotationGrace. *)
MutGraceClaimable(t) == InGrace(t) /\ rt[t].graceUseCount <= RotationGraceMaxUses
GraceClaimable(t)    == InGrace(t) /\ rt[t].graceUseCount < RotationGraceMaxUses

MutRotatedRenamed(row, n) ==
  [row EXCEPT !.revocationReason = "SUPERSEDED", !.revokedAt = now, !.replacedBy = n]
MutRotatedUnlinked(row, n) ==
  [row EXCEPT !.revocationReason = "ROTATED", !.revokedAt = now]
MutRotatedUnrevoked(row, n) == [row EXCEPT !.replacedBy = n]
Rotated(row, n) ==
  [row EXCEPT !.revocationReason = "ROTATED", !.revokedAt = now, !.replacedBy = n]

MutLoggedOut(row) == [row EXCEPT !.revocationReason = "ROTATED", !.revokedAt = now]
LoggedOut(row)    == [row EXCEPT !.revocationReason = "LOGOUT", !.revokedAt = now]

MutResetRevokes(t, u) == Live(t) /\ rt[t].owner = u /\ Expired(t)
ResetRevokes(t, u)    == Live(t) /\ rt[t].owner = u

MutUsedUp(k, l, u) == k = l
UsedUp(k, l, u)    == k = l \/ link[k].owner = u

MutLockAfter(count) == IF count > MaxFailedAttempts THEN now + LockTime ELSE 0
LockAfter(count)    == IF count >= MaxFailedAttempts THEN now + LockTime ELSE 0

At(r, pc) == req[r].pc = pc
Finish(r) == req' = [req EXCEPT ![r] = Idle]

Calls(r, endpoint) == endpoint \in Endpoint /\ At(r, "idle")

(* A new row of refresh_tokens, created by slot r, which read the account   *)
(* when its password was req[r].password.                                   *)
Mint(r, t, from, password) ==
  /\ issued' = issued \cup {t}
  /\ parent' = [parent EXCEPT ![t] = from]
  /\ minter' = [minter EXCEPT ![t] = r]
  /\ pwdAtLogin' = [pwdAtLogin EXCEPT ![t] = password]
  /\ escaped' = IF req[r].password # user[req[r].user].password \/ from \in escaped
                  THEN escaped \cup {t} ELSE escaped

Init ==
  /\ now = 0
  /\ user = [u \in User |-> [password |-> 0, failedLoginAttempts |-> 0, lockedUntil |-> 0]]
  /\ issued = {}
  /\ rt = [t \in TokenId |-> NoTokenRow]
  /\ link = [l \in ResetLink |-> NoLinkRow]
  /\ audited = [t \in TokenId |-> 0]
  /\ req = [r \in Request |-> Idle]
  /\ parent = [t \in TokenId |-> None]
  /\ minter = [t \in TokenId |-> None]
  /\ pwdAtLogin = [t \in TokenId |-> 0]
  /\ escaped = {}
  /\ loggedOut = {}
  /\ pwdAtIssue = [l \in ResetLink |-> 0]
  /\ reopened = [u \in User |-> 0]

-----------------------------------------------------------------------------
(* login.  An unknown email or a locked account only leaves a row in        *)
(* login_attempts, which nothing reads: no step.  The password is compared  *)
(* with the hash of the row just read.                                      *)
LoginRead(r, u, correct) ==
  /\ Calls(r, IF correct THEN "login" ELSE "guess")
  /\ ~Locked(u)
  /\ req' = [req EXCEPT ![r] =
       [Idle EXCEPT !.pc = IF correct /\ u \in Eligible THEN "loginSucceed" ELSE "loginFail",
                    !.user = u,
                    !.password = user[u].password,
                    !.lockRanOut = user[u].lockedUntil # 0]]
  /\ UNCHANGED <<now, storeVars, historyVars>>

(* createAuthenticatedSession *)
LoginSucceed(r, t) ==
  LET u == req[r].user IN
  /\ At(r, "loginSucceed")
  /\ t \notin issued
  /\ user' = [user EXCEPT ![u].failedLoginAttempts = 0, ![u].lockedUntil = 0]
  /\ rt' = [rt EXCEPT ![t] = NewTokenRow(u)]
  /\ Mint(r, t, None, req[r].password)
  /\ reopened' = [reopened EXCEPT ![u] = 0]
  /\ Finish(r)
  /\ UNCHANGED <<now, link, audited, loggedOut, pwdAtIssue>>

(* recordFailedLogin: the increment, the comparison of the new count and    *)
(* the lock, or its removal, are one transaction.                           *)
LoginFail(r) ==
  LET u     == req[r].user
      count == user[u].failedLoginAttempts + 1
  IN
  /\ At(r, "loginFail")
  /\ user' = [user EXCEPT
       ![u].failedLoginAttempts = count,
       ![u].lockedUntil = LockAfter(count)]
  /\ reopened' = [reopened EXCEPT ![u] = @ + IF req[r].lockRanOut THEN 1 ELSE 0]
  /\ Finish(r)
  /\ UNCHANGED <<now, issued, rt, link, audited,
                 parent, minter, pwdAtLogin, escaped, loggedOut, pwdAtIssue>>

-----------------------------------------------------------------------------
(* refresh.  validatedRefreshSession, strict: a revoked row, superseded a   *)
(* moment ago or not, is refused and nothing is written.                    *)
RefreshRead(r, t) ==
  /\ Calls(r, "refresh")
  /\ Live(t) /\ ~Expired(t)
  /\ req' = [req EXCEPT ![r] =
       [Idle EXCEPT !.pc = "rotate", !.token = t, !.user = rt[t].owner,
                    !.password = user[rt[t].owner].password]]
  /\ UNCHANGED <<now, storeVars, historyVars>>

(* Its transaction creates the successor n and then updates the presented   *)
(* row by id alone, whatever has become of it since it was read.            *)
RefreshCommit(r, n) ==
  LET t == req[r].token IN
  /\ At(r, "rotate")
  /\ n \notin issued
  /\ rt' = [rt EXCEPT ![n] = NewTokenRow(req[r].user), ![t] = Rotated(@, n)]
  /\ Mint(r, n, t, pwdAtLogin[t])
  /\ Finish(r)
  /\ UNCHANGED <<now, user, link, audited, loggedOut, pwdAtIssue, reopened>>

-----------------------------------------------------------------------------
(* validateRefreshSession.  A live row is accepted without a write: no      *)
(* step.  A rotated row goes through claimRotationGrace.                    *)
ValidateRead(r, t) ==
  /\ Calls(r, "validate")
  /\ t \in issued /\ ~Expired(t)
  /\ rt[t].revocationReason = "ROTATED"
  /\ req' = [req EXCEPT ![r] = [Idle EXCEPT !.pc = "claimGrace", !.token = t]]
  /\ UNCHANGED <<now, storeVars, historyVars>>

(* The database compares the row as it is now, in the update. *)
ClaimGrace(r) ==
  LET t == req[r].token IN
  /\ At(r, "claimGrace")
  /\ IF GraceClaimable(t)
       THEN /\ rt' = [rt EXCEPT ![t].graceUseCount = @ + 1]
            /\ req' = [req EXCEPT ![r].pc = "auditGrace"]
       ELSE Finish(r) /\ UNCHANGED rt
  /\ UNCHANGED <<now, user, issued, link, audited, historyVars>>

(* The audit row is written before the validation is accepted. *)
AuditGrace(r) ==
  /\ At(r, "auditGrace")
  /\ audited' = [audited EXCEPT ![req[r].token] = @ + 1]
  /\ Finish(r)
  /\ UNCHANGED <<now, user, issued, rt, link, historyVars>>

-----------------------------------------------------------------------------
(* logout: a row already revoked is left alone; the update is by id. *)
LogoutRead(r, t) ==
  /\ Calls(r, "logout")
  /\ Live(t) /\ ~Expired(t)
  /\ req' = [req EXCEPT ![r] = [Idle EXCEPT !.pc = "logout", !.token = t]]
  /\ UNCHANGED <<now, storeVars, historyVars>>

LogoutCommit(r) ==
  LET t == req[r].token IN
  /\ At(r, "logout")
  /\ rt' = [rt EXCEPT ![t] = LoggedOut(@)]
  /\ loggedOut' = loggedOut \cup {t}
  /\ Finish(r)
  /\ UNCHANGED <<now, user, issued, link, audited,
                 parent, minter, pwdAtLogin, escaped, pwdAtIssue, reopened>>

-----------------------------------------------------------------------------
(* forgotPassword: one insert. *)
ForgotPassword(u, l) ==
  /\ "reset" \in Endpoint
  /\ u \in Eligible
  /\ link[l].owner = None
  /\ link' = [link EXCEPT ![l] = [owner |-> u, used |-> FALSE, expiresAt |-> now + ResetTtl]]
  /\ pwdAtIssue' = [pwdAtIssue EXCEPT ![l] = user[u].password]
  /\ UNCHANGED <<now, user, issued, rt, audited, req,
                 parent, minter, pwdAtLogin, escaped, loggedOut, reopened>>

(* resetPassword.  The password recorded with the read is history. *)
ResetRead(r, l) ==
  /\ Calls(r, "reset")
  /\ link[l].owner # None /\ ~link[l].used /\ link[l].expiresAt > now
  /\ req' = [req EXCEPT ![r] =
       [Idle EXCEPT !.pc = "reset", !.link = l, !.user = link[l].owner,
                    !.password = user[link[l].owner].password]]
  /\ UNCHANGED <<now, storeVars, historyVars>>

(* One transaction: the link and every other open link of the user are      *)
(* used up, the password changes, the lock is lifted, live rows are revoked.*)
ResetCommit(r) ==
  LET u == req[r].user
      l == req[r].link
  IN
  /\ At(r, "reset")
  /\ link' = [k \in ResetLink |->
       IF UsedUp(k, l, u) THEN [link[k] EXCEPT !.used = TRUE] ELSE link[k]]
  /\ user' = [user EXCEPT
       ![u] = [password |-> @.password + 1, failedLoginAttempts |-> 0, lockedUntil |-> 0]]
  /\ rt' = [t \in TokenId |->
       IF ResetRevokes(t, u)
         THEN [rt[t] EXCEPT !.revocationReason = "PASSWORD_RESET", !.revokedAt = now]
         ELSE rt[t]]
  /\ reopened' = [reopened EXCEPT ![u] = 0]
  /\ Finish(r)
  /\ UNCHANGED <<now, issued, audited, parent, minter, pwdAtLogin, escaped, loggedOut,
                 pwdAtIssue>>

-----------------------------------------------------------------------------
(* A handler is dropped between two of its steps. *)
Drop(r) ==
  /\ ~At(r, "idle")
  /\ Finish(r)
  /\ UNCHANGED <<now, storeVars, historyVars>>

Tick ==
  /\ now < MaxTime
  /\ now' = now + 1
  /\ UNCHANGED <<storeVars, req, historyVars>>

Next ==
  \/ \E r \in Request, u \in User, correct \in BOOLEAN : LoginRead(r, u, correct)
  \/ \E r \in Request, t \in TokenId : LoginSucceed(r, t)
  \/ \E r \in Request : LoginFail(r)
  \/ \E r \in Request, t \in TokenId : RefreshRead(r, t)
  \/ \E r \in Request, n \in TokenId : RefreshCommit(r, n)
  \/ \E r \in Request, t \in TokenId : ValidateRead(r, t)
  \/ \E r \in Request : ClaimGrace(r)
  \/ \E r \in Request : AuditGrace(r)
  \/ \E r \in Request, t \in TokenId : LogoutRead(r, t)
  \/ \E r \in Request : LogoutCommit(r)
  \/ \E u \in User, l \in ResetLink : ForgotPassword(u, l)
  \/ \E r \in Request, l \in ResetLink : ResetRead(r, l)
  \/ \E r \in Request : ResetCommit(r)
  \/ \E r \in Request : Drop(r)
  \/ Tick

Spec == Init /\ [][Next]_vars

-----------------------------------------------------------------------------
(* Type invariant. *)
TypeOK ==
  /\ now \in Nat
  /\ user \in [User -> UserRow]
  /\ issued \subseteq TokenId
  /\ rt \in [TokenId -> TokenRow]
  /\ link \in [ResetLink -> LinkRow]
  /\ audited \in [TokenId -> Nat]
  /\ req \in [Request -> Handler]
  /\ parent \in [TokenId -> TokenId \cup {None}]
  /\ minter \in [TokenId -> Request \cup {None}]
  /\ pwdAtLogin \in [TokenId -> Nat]
  /\ escaped \subseteq issued
  /\ loggedOut \subseteq issued
  /\ pwdAtIssue \in [ResetLink -> Nat]
  /\ reopened \in [User -> Nat]

-----------------------------------------------------------------------------
(* What holds however many handlers run at a time.                          *)

(* One handler slot creates at most one successor of a token: a session     *)
(* forks at most as often as refreshes of it overlap.  The code revokes the *)
(* presented row in the transaction that creates its successor, so a slot   *)
(* that comes back reads it as revoked.                                     *)
OneSuccessorPerHandler ==
  \A c, d \in issued :
    parent[c] # None /\ parent[c] = parent[d] /\ minter[c] = minter[d] => c = d

(* A row that is ROTATED names a successor, and the successor it names was  *)
(* created from it, whichever of several refreshes wrote last.              *)
RotatedNamesSuccessor ==
  \A t \in issued :
    /\ rt[t].revocationReason = "ROTATED" => rt[t].replacedBy # None
    /\ rt[t].replacedBy # None => rt[t].replacedBy \in issued /\ parent[rt[t].replacedBy] = t

(* Grace uses of a superseded token, counted by claims racing each other    *)
(* and by handlers dropped between the claim and the audit row: never more  *)
(* than the cap, and every audit row stands for a claim of its own.         *)
Auditing(t) == {r \in Request : At(r, "auditGrace") /\ req[r].token = t}

GraceIsBoundedAndAudited ==
  \A t \in TokenId :
    /\ audited[t] + Cardinality(Auditing(t)) <= rt[t].graceUseCount
    /\ rt[t].graceUseCount <= RotationGraceMaxUses

(* Grace is only ever spent on a token whose rotation did produce a         *)
(* successor: it never vouches for a session that simply ended.             *)
GraceOnlyAfterRotation ==
  \A t \in TokenId :
    rt[t].graceUseCount > 0 => \E c \in issued : parent[c] = t

(* Once a row is revoked and no handler that read it before is still to     *)
(* write it, its revocation never changes again and no later handler gets   *)
(* to write it: a logout or a reset is final from then on.                  *)
Writing(t) == \E r \in Request : req[r].token = t /\ req[r].pc \in {"rotate", "logout"}

QuietRevocationIsFinal ==
  [][\A t \in issued : Revoked(t) /\ ~Writing(t) =>
       /\ rt'[t].revocationReason = rt[t].revocationReason
       /\ rt'[t].revokedAt = rt[t].revokedAt
       /\ ~Writing(t)']_vars

(* A live session that signed in with a password that has been reset since  *)
(* was created by a handler the reset overlapped, or descends from such a   *)
(* session: nothing else survives a reset.                                  *)
OnlyOverlappedSurviveReset ==
  \A t \in issued :
    Live(t) /\ pwdAtLogin[t] < user[rt[t].owner].password => t \in escaped

(* A password is replaced through the link of an older password only by a  *)
(* handler that had read its link before another reset of the account       *)
(* committed: whichever link changes the password uses up all that are      *)
(* open, so that no request begun afterwards gets an older one accepted.    *)
(* The overlapped handler is let through: the transaction does not look at  *)
(* usedAt again, so the older of two links may have the last word.          *)
OnlyOverlappedUseOldLinks ==
  [][\A r \in Request : ResetCommit(r) =>
       LET u == req[r].user
       IN  \/ pwdAtIssue[req[r].link] = user[u].password
           \/ req[r].password # user[u].password]_vars

(* The lock and the counter are written together: an account carries a lock *)
(* exactly when its failures have reached the limit, whatever mix of        *)
(* failures, successes and resets is in flight.                             *)
LockMatchesCounter ==
  \A u \in User :
    user[u].lockedUntil # 0 <=> user[u].failedLoginAttempts >= MaxFailedAttempts

(* How many wrong passwords can be tried: up to the limit, plus one for     *)
(* each other handler that had read the account before the lock, plus one   *)
(* for each login let in because the lock had run out.                      *)
Failing(u) == {r \in Request : /\ At(r, "loginFail") /\ req[r].user = u
                              /\ ~req[r].lockRanOut}

GuessBudget ==
  \A u \in User :
    user[u].failedLoginAttempts + Cardinality(Failing(u))
      <= MaxFailedAttempts - 1 + Cardinality(Request) + reopened[u]

(* However many handlers overlap, the store implements SessionGrants: every *)
(* transaction, late or not, is one of its steps.  A handler ends only a    *)
(* token that was live when it read it, the successor it makes goes to that *)
(* token's owner and is the one the row names, and no row works again.      *)
Fate(t) == IF t \notin issued THEN "UNUSED"
           ELSE IF Revoked(t) THEN rt[t].revocationReason ELSE "WORKING"

Asked(r) == IF req[r].pc \in {"rotate", "logout"} THEN req[r].token ELSE None

Grants == INSTANCE SessionGrants WITH
  Credential <- TokenId, Account <- User, Holder <- Request, Nobody <- None,
  fate   <- [t \in TokenId |-> Fate(t)],
  owner  <- [t \in TokenId |-> rt[t].owner],
  source <- parent,
  heir   <- [t \in TokenId |-> rt[t].replacedBy],
  asked  <- [r \in Request |-> Asked(r)]

ImplementsGrants == Grants!Spec

-----------------------------------------------------------------------------
(* What the comments and tests say, which holds when handlers do not        *)
(* overlap (one slot) and is refuted when two do.                           *)

(* Rotation is single-use: a token has at most one successor, so a session  *)
(* never forks.                                                             *)
NoFork ==
  \A c, d \in issued : parent[c] # None /\ parent[c] = parent[d] => c = d

(* A token revoked by logout stays dead: its row keeps the reason that      *)
(* denies it the rotation grace.                                            *)
LogoutIsFinal == \A t \in loggedOut : rt[t].revocationReason = "LOGOUT"

(* A password reset ends every session: a live token's session signed in    *)
(* with the password the account has now.                                   *)
ResetEndsSessions ==
  \A t \in issued : Live(t) => pwdAtLogin[t] = user[rt[t].owner].password

(* With one handler at a time the store implements the promise of           *)
(* SessionLineage, dropped handlers included: every transaction is one of   *)
(* its steps or leaves the credentials as they are.                         *)
Lineage == INSTANCE SessionLineage WITH
  Credential <- TokenId, Account <- User, Nobody <- None,
  live  <- {t \in issued : ~Revoked(t)},
  spent <- {t \in issued : Revoked(t)},
  owner <- [t \in TokenId |-> rt[t].owner],
  source <- parent

ImplementsLineage == Lineage!Spec
=============================================================================
