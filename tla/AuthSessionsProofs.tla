--------------------------- MODULE AuthSessionsProofs ---------------------------
(***************************************************************************)
(* Proofs about AuthSessions for every set of accounts, tokens, links and  *)
(* handler slots and every limit, not only those of the runs.              *)
(*                                                                         *)
(* TypeInv, the types and what the pc of a handler says of what it has     *)
(* read, is inductive on its own and supports everything else.  Lineage    *)
(* (who created which successor) and grace are invariants of the token     *)
(* rows and of the handlers about to write them; EscapeInv adds to         *)
(* OnlyOverlappedSurviveReset what it needs of refreshes in flight, which  *)
(* carry a password that may be older than the account's.                  *)
(***************************************************************************)
EXTENDS AuthSessions, TLAPS

-----------------------------------------------------------------------------
(* Types. *)

(* The blank rows and the rows the handlers write have the type of a row.   *)
LEMMA RowTypes ==
  /\ NoTokenRow \in TokenRow
  /\ NoLinkRow \in LinkRow
  /\ Idle \in Handler
BY DEF NoTokenRow, TokenRow, NoLinkRow, LinkRow, Idle, Handler, Pc

LEMMA NewTokenRowType ==
  ASSUME TypeOK, NEW u \in User
  PROVE  NewTokenRow(u) \in TokenRow /\ NewTokenRow(u).owner = u
<1>1. now + RefreshTtl \in Nat
  BY ConstantsAssumption DEF TypeOK
<1>2. NewTokenRow(u) \in TokenRow
  BY <1>1, RowTypes DEF TokenRow, NewTokenRow
<1>3. NewTokenRow(u).owner = u
  BY RowTypes DEF NewTokenRow, TokenRow
<1> QED
  BY <1>2, <1>3

LEMMA RevokedRowTypes ==
  ASSUME TypeOK, NEW row \in TokenRow, NEW n \in TokenId
  PROVE  /\ Rotated(row, n) \in TokenRow /\ Rotated(row, n).owner = row.owner
         /\ LoggedOut(row) \in TokenRow /\ LoggedOut(row).owner = row.owner
<1>1. now \in Nat
  BY DEF TypeOK
<1>2. Rotated(row, n) \in TokenRow /\ Rotated(row, n).owner = row.owner
  BY <1>1 DEF TokenRow, Rotated, Reason
<1>3. LoggedOut(row) \in TokenRow /\ LoggedOut(row).owner = row.owner
  BY <1>1 DEF TokenRow, LoggedOut, Reason
<1> QED
  BY <1>2, <1>3

LEMMA LockAfterType ==
  ASSUME TypeOK, NEW count \in Nat
  PROVE  LockAfter(count) \in Nat
BY ConstantsAssumption DEF TypeOK, LockAfter

(* What the pc of a handler says of the rest of its state: its account is   *)
(* an account, its token has a row, and that row is the account's.          *)
HandlerOK ==
  \A r \in Request :
    /\ req[r].pc \in {"loginSucceed", "loginFail", "rotate", "reset"} => req[r].user \in User
    /\ req[r].pc \in {"rotate", "claimGrace", "auditGrace", "logout"} => req[r].token \in issued
    /\ req[r].pc = "rotate" => req[r].user = rt[req[r].token].owner
    /\ req[r].pc = "reset" => req[r].link \in ResetLink

(* Rows in use belong to an account. *)
OwnedOK ==
  /\ \A t \in issued : rt[t].owner \in User
  /\ \A l \in ResetLink : link[l].owner \in User \cup {None}

TypeInv == TypeOK /\ HandlerOK /\ OwnedOK

LEMMA FinishType ==
  ASSUME TypeOK, NEW r \in Request, Finish(r)
  PROVE  req' \in [Request -> Handler]
BY RowTypes DEF TypeOK, Finish

LEMMA InitType == Init => TypeInv
<1> SUFFICES ASSUME Init PROVE TypeInv
  OBVIOUS
<1>1. user \in [User -> UserRow]
  BY DEF Init, UserRow
<1>2. TypeOK
  BY <1>1, RowTypes DEF Init, TypeOK
<1>3. HandlerOK
  BY DEF Init, HandlerOK, Idle
<1>4. OwnedOK
  BY DEF Init, OwnedOK, NoLinkRow
<1> QED
  BY <1>2, <1>3, <1>4 DEF TypeInv

(* Every step keeps the types, handler by handler. *)
LEMMA LoginReadType ==
  ASSUME TypeInv, NEW r \in Request, NEW u \in User, NEW correct \in BOOLEAN,
         LoginRead(r, u, correct)
  PROVE  TypeInv'
<1> DEFINE h == req'[r]
<1>1. UNCHANGED <<now, storeVars, historyVars>>
  BY DEF LoginRead
<1>2. /\ h \in Handler
      /\ h.pc \in {"loginSucceed", "loginFail"}
      /\ h.user = u
  BY DEF LoginRead, TypeInv, TypeOK, Handler, Idle, Pc, UserRow
<1>3. req' = [req EXCEPT ![r] = h]
  BY DEF LoginRead, TypeInv, TypeOK
<1> HIDE DEF h
<1>4. TypeOK'
  BY <1>1, <1>2, <1>3 DEF TypeInv, TypeOK, storeVars, historyVars
<1>5. HandlerOK'
  BY <1>1, <1>2, <1>3 DEF TypeInv, TypeOK, HandlerOK, storeVars
<1>6. OwnedOK'
  BY <1>1 DEF TypeInv, OwnedOK, storeVars
<1> QED
  BY <1>4, <1>5, <1>6 DEF TypeInv

LEMMA LoginSucceedType ==
  ASSUME TypeInv, NEW r \in Request, NEW t \in TokenId, LoginSucceed(r, t)
  PROVE  TypeInv'
<1> DEFINE u == req[r].user
<1>1. u \in User
  BY DEF LoginSucceed, At, TypeInv, HandlerOK
<1>2. NewTokenRow(u) \in TokenRow /\ NewTokenRow(u).owner = u
  BY <1>1, NewTokenRowType DEF TypeInv
<1>3. user' \in [User -> UserRow]
  BY <1>1 DEF LoginSucceed, TypeInv, TypeOK, UserRow
<1>4. rt' = [rt EXCEPT ![t] = NewTokenRow(u)]
  BY DEF LoginSucceed
<1>5. req' \in [Request -> Handler]
  BY FinishType DEF LoginSucceed, TypeInv
<1>6. req[r].password \in Nat
  BY DEF TypeInv, TypeOK, Handler
<1>7. issued' = issued \cup {t} /\ escaped' \subseteq issued'
  BY DEF LoginSucceed, Mint, TypeInv, TypeOK
<1>8. TypeOK'
  <2>1. rt' \in [TokenId -> TokenRow]
    BY <1>2, <1>4 DEF TypeInv, TypeOK
  <2>2. /\ parent' \in [TokenId -> TokenId \cup {None}]
        /\ minter' \in [TokenId -> Request \cup {None}]
        /\ pwdAtLogin' \in [TokenId -> Nat]
    BY <1>6 DEF LoginSucceed, Mint, TypeInv, TypeOK
  <2>3. reopened' \in [User -> Nat]
    BY DEF LoginSucceed, TypeInv, TypeOK
  <2> QED
    BY <1>3, <1>5, <1>7, <2>1, <2>2, <2>3 DEF LoginSucceed, TypeInv, TypeOK
<1>9. HandlerOK'
  BY <1>4, <1>7 DEF LoginSucceed, Finish, Idle, TypeInv, TypeOK, HandlerOK
<1>10. OwnedOK'
  BY <1>1, <1>2, <1>4, <1>7 DEF LoginSucceed, TypeInv, TypeOK, OwnedOK
<1> QED
  BY <1>8, <1>9, <1>10 DEF TypeInv

LEMMA LoginFailType ==
  ASSUME TypeInv, NEW r \in Request, LoginFail(r)
  PROVE  TypeInv'
<1>1. req[r].user \in User
  BY DEF LoginFail, At, TypeInv, HandlerOK
<1>2. user[req[r].user].failedLoginAttempts + 1 \in Nat
  BY <1>1 DEF TypeInv, TypeOK, UserRow
<1>3. LockAfter(user[req[r].user].failedLoginAttempts + 1) \in Nat
  BY <1>2, LockAfterType DEF TypeInv
<1>4. user' \in [User -> UserRow]
  BY <1>1, <1>2, <1>3 DEF LoginFail, TypeInv, TypeOK, UserRow
<1>5. req' \in [Request -> Handler]
  BY FinishType DEF LoginFail, TypeInv
<1>6. TypeOK'
  BY <1>4, <1>5 DEF LoginFail, TypeInv, TypeOK
<1>7. HandlerOK'
  BY DEF LoginFail, Finish, Idle, TypeInv, TypeOK, HandlerOK
<1>8. OwnedOK'
  BY DEF LoginFail, TypeInv, OwnedOK
<1> QED
  BY <1>6, <1>7, <1>8 DEF TypeInv

(* The reads of refresh, validate and logout: the handler takes a token     *)
(* that has a row, and the store is unchanged.                              *)
LEMMA TokenReadType ==
  ASSUME TypeInv, NEW r \in Request, NEW t \in TokenId,
         RefreshRead(r, t) \/ ValidateRead(r, t) \/ LogoutRead(r, t)
  PROVE  TypeInv'
<1> DEFINE h == req'[r]
<1>1. UNCHANGED <<now, storeVars, historyVars>>
  BY DEF RefreshRead, ValidateRead, LogoutRead
<1>2. t \in issued /\ rt[t].owner \in User
  BY DEF RefreshRead, ValidateRead, LogoutRead, Live, TypeInv, OwnedOK
<1>3. /\ req' = [req EXCEPT ![r] = h]
      /\ h \in Handler
      /\ h.pc \in {"rotate", "claimGrace", "logout"}
      /\ h.token = t
      /\ h.pc = "rotate" => h.user = rt[t].owner
  <2>1. CASE RefreshRead(r, t)
    <3>1. user[rt[t].owner].password \in Nat
      BY <1>2 DEF TypeInv, TypeOK, UserRow
    <3> QED
      BY <2>1, <3>1, <1>2 DEF RefreshRead, TypeInv, TypeOK, Handler, Idle, Pc
  <2>2. CASE ValidateRead(r, t)
    BY <2>2 DEF ValidateRead, TypeInv, TypeOK, Handler, Idle, Pc
  <2>3. CASE LogoutRead(r, t)
    BY <2>3 DEF LogoutRead, TypeInv, TypeOK, Handler, Idle, Pc
  <2> QED
    BY <2>1, <2>2, <2>3
<1> HIDE DEF h
<1>4. TypeOK'
  BY <1>1, <1>3 DEF TypeInv, TypeOK, storeVars, historyVars
<1>5. HandlerOK'
  BY <1>1, <1>2, <1>3 DEF TypeInv, TypeOK, HandlerOK, storeVars
<1>6. OwnedOK'
  BY <1>1 DEF TypeInv, OwnedOK, storeVars
<1> QED
  BY <1>4, <1>5, <1>6 DEF TypeInv

LEMMA RefreshCommitType ==
  ASSUME TypeInv, NEW r \in Request, NEW n \in TokenId, RefreshCommit(r, n)
  PROVE  TypeInv'
<1> DEFINE t == req[r].token
           u == req[r].user
<1>1. u \in User /\ t \in issued /\ t \in TokenId /\ n \notin issued
  BY DEF RefreshCommit, At, TypeInv, HandlerOK, TypeOK
<1>2. rt' = [rt EXCEPT ![n] = NewTokenRow(u), ![t] = Rotated(rt[t], n)]
  BY <1>1 DEF RefreshCommit, TypeInv, TypeOK
<1>3. /\ NewTokenRow(u) \in TokenRow /\ NewTokenRow(u).owner = u
      /\ Rotated(rt[t], n) \in TokenRow /\ Rotated(rt[t], n).owner = rt[t].owner
  BY <1>1, NewTokenRowType, RevokedRowTypes DEF TypeInv, TypeOK
<1>4. req' \in [Request -> Handler]
  BY FinishType DEF RefreshCommit, TypeInv
<1>5. issued' = issued \cup {n} /\ escaped' \subseteq issued'
  BY DEF RefreshCommit, Mint, TypeInv, TypeOK
<1>6. TypeOK'
  <2>1. rt' \in [TokenId -> TokenRow]
    BY <1>1, <1>2, <1>3 DEF TypeInv, TypeOK
  <2>2. /\ parent' \in [TokenId -> TokenId \cup {None}]
        /\ minter' \in [TokenId -> Request \cup {None}]
        /\ pwdAtLogin' \in [TokenId -> Nat]
    BY <1>1 DEF RefreshCommit, Mint, TypeInv, TypeOK
  <2> QED
    BY <1>4, <1>5, <2>1, <2>2 DEF RefreshCommit, TypeInv, TypeOK
<1>7. \A x \in issued : rt'[x].owner = rt[x].owner
  BY <1>1, <1>2, <1>3 DEF TypeInv, TypeOK
<1>8. HandlerOK'
  BY <1>5, <1>7 DEF RefreshCommit, Finish, Idle, TypeInv, TypeOK, HandlerOK
<1>9. OwnedOK'
  <2>1. rt'[n].owner \in User
    BY <1>1, <1>2, <1>3 DEF TypeInv, TypeOK
  <2> QED
    BY <1>5, <1>7, <2>1 DEF RefreshCommit, TypeInv, TypeOK, OwnedOK
<1> QED
  BY <1>6, <1>8, <1>9 DEF TypeInv

LEMMA ClaimGraceType ==
  ASSUME TypeInv, NEW r \in Request, ClaimGrace(r)
  PROVE  TypeInv'
<1> DEFINE t == req[r].token
<1>1. t \in issued /\ t \in TokenId
  BY DEF ClaimGrace, At, TypeInv, HandlerOK, TypeOK
<1>2. CASE GraceClaimable(t)
  <2>1. /\ rt' = [rt EXCEPT ![t].graceUseCount = @ + 1]
        /\ req' = [req EXCEPT ![r].pc = "auditGrace"]
    BY <1>2 DEF ClaimGrace
  <2>2. /\ rt' \in [TokenId -> TokenRow]
        /\ \A x \in TokenId : rt'[x].owner = rt[x].owner
    <3>1. rt[t] \in TokenRow /\ rt[t].graceUseCount + 1 \in Nat
      BY <1>1 DEF TypeInv, TypeOK, TokenRow
    <3>2. [rt[t] EXCEPT !.graceUseCount = @ + 1] \in TokenRow
      BY <3>1 DEF TokenRow
    <3> QED
      BY <1>1, <2>1, <3>1, <3>2 DEF TypeInv, TypeOK, TokenRow
  <2>3. req' \in [Request -> Handler]
    BY <2>1 DEF TypeInv, TypeOK, Handler, Pc
  <2>4. TypeOK'
    BY <2>2, <2>3 DEF ClaimGrace, historyVars, TypeInv, TypeOK
  <2>5. HandlerOK'
    BY <1>1, <2>1, <2>2 DEF ClaimGrace, TypeInv, TypeOK, HandlerOK, Handler
  <2>6. OwnedOK'
    BY <2>2 DEF ClaimGrace, TypeInv, TypeOK, OwnedOK
  <2> QED
    BY <2>4, <2>5, <2>6 DEF TypeInv
<1>3. CASE ~GraceClaimable(t)
  <2>1. Finish(r) /\ UNCHANGED rt
    BY <1>3 DEF ClaimGrace
  <2>2. TypeOK'
    BY <2>1, FinishType DEF ClaimGrace, historyVars, TypeInv, TypeOK
  <2>3. HandlerOK'
    BY <2>1 DEF ClaimGrace, Finish, Idle, TypeInv, TypeOK, HandlerOK
  <2>4. OwnedOK'
    BY <2>1 DEF ClaimGrace, TypeInv, OwnedOK
  <2> QED
    BY <2>2, <2>3, <2>4 DEF TypeInv
<1> QED
  BY <1>2, <1>3

LEMMA AuditGraceType ==
  ASSUME TypeInv, NEW r \in Request, AuditGrace(r)
  PROVE  TypeInv'
<1> DEFINE t == req[r].token
<1>1. TypeOK'
  <2>1. t \in TokenId /\ audited[t] + 1 \in Nat
    BY DEF AuditGrace, At, TypeInv, HandlerOK, TypeOK
  <2>2. audited' \in [TokenId -> Nat]
    BY <2>1 DEF AuditGrace, TypeInv, TypeOK
  <2>3. req' \in [Request -> Handler]
    BY FinishType DEF AuditGrace, TypeInv
  <2> QED
    BY <2>2, <2>3 DEF AuditGrace, historyVars, TypeInv, TypeOK
<1>2. HandlerOK'
  BY DEF AuditGrace, Finish, Idle, TypeInv, TypeOK, HandlerOK
<1>3. OwnedOK'
  BY DEF AuditGrace, TypeInv, OwnedOK
<1> QED
  BY <1>1, <1>2, <1>3 DEF TypeInv

LEMMA LogoutCommitType ==
  ASSUME TypeInv, NEW r \in Request, LogoutCommit(r)
  PROVE  TypeInv'
<1> DEFINE t == req[r].token
<1>1. t \in issued /\ t \in TokenId
  BY DEF LogoutCommit, At, TypeInv, HandlerOK, TypeOK
<1>2. rt' = [rt EXCEPT ![t] = LoggedOut(rt[t])]
  BY <1>1 DEF LogoutCommit, TypeInv, TypeOK
<1>3. LoggedOut(rt[t]) \in TokenRow /\ LoggedOut(rt[t]).owner = rt[t].owner
  BY <1>1, RevokedRowTypes DEF TypeInv, TypeOK
<1>4. rt' \in [TokenId -> TokenRow] /\ \A x \in TokenId : rt'[x].owner = rt[x].owner
  BY <1>1, <1>2, <1>3 DEF TypeInv, TypeOK
<1>5. TypeOK'
  BY <1>1, <1>4, FinishType DEF LogoutCommit, TypeInv, TypeOK
<1>6. HandlerOK'
  BY <1>4 DEF LogoutCommit, Finish, Idle, TypeInv, TypeOK, HandlerOK
<1>7. OwnedOK'
  BY <1>4 DEF LogoutCommit, TypeInv, TypeOK, OwnedOK
<1> QED
  BY <1>5, <1>6, <1>7 DEF TypeInv

LEMMA LinkType ==
  ASSUME TypeInv, NEW u \in User, NEW l \in ResetLink, ForgotPassword(u, l)
  PROVE  TypeInv'
<1>1. now + ResetTtl \in Nat
  BY ConstantsAssumption DEF TypeInv, TypeOK
<1>2. link' \in [ResetLink -> LinkRow]
  BY <1>1 DEF ForgotPassword, TypeInv, TypeOK, LinkRow
<1>3. TypeOK'
  <2>1. u \in User /\ user[u].password \in Nat
    BY DEF TypeInv, TypeOK, UserRow
  <2>2. pwdAtIssue' \in [ResetLink -> Nat]
    BY <2>1 DEF ForgotPassword, TypeInv, TypeOK
  <2> QED
    BY <1>2, <2>2 DEF ForgotPassword, TypeInv, TypeOK
<1>4. HandlerOK'
  BY DEF ForgotPassword, TypeInv, HandlerOK
<1>5. OwnedOK'
  BY <1>2 DEF ForgotPassword, TypeInv, TypeOK, OwnedOK, LinkRow
<1> QED
  BY <1>3, <1>4, <1>5 DEF TypeInv

LEMMA ResetReadType ==
  ASSUME TypeInv, NEW r \in Request, NEW l \in ResetLink, ResetRead(r, l)
  PROVE  TypeInv'
<1> DEFINE h == req'[r]
<1>1. link[l].owner \in User /\ user[link[l].owner].password \in Nat
  BY DEF ResetRead, TypeInv, TypeOK, OwnedOK, UserRow
<1>2. /\ req' = [req EXCEPT ![r] = h]
      /\ h \in Handler
      /\ h.pc = "reset" /\ h.user \in User /\ h.link = l
  BY <1>1, RowTypes DEF ResetRead, TypeInv, TypeOK, Handler, Idle, Pc
<1>3. UNCHANGED <<now, storeVars, historyVars>>
  BY DEF ResetRead
<1> HIDE DEF h
<1>4. TypeOK'
  BY <1>2, <1>3 DEF TypeInv, TypeOK, storeVars, historyVars
<1>5. HandlerOK'
  BY <1>2, <1>3 DEF TypeInv, TypeOK, HandlerOK, storeVars
<1>6. OwnedOK'
  BY <1>3 DEF TypeInv, OwnedOK, storeVars
<1> QED
  BY <1>4, <1>5, <1>6 DEF TypeInv

LEMMA ResetCommitType ==
  ASSUME TypeInv, NEW r \in Request, ResetCommit(r)
  PROVE  TypeInv'
<1>1. req[r].user \in User /\ req[r].link \in ResetLink
  BY DEF ResetCommit, At, TypeInv, HandlerOK
<1>2. user' \in [User -> UserRow]
  <2> DEFINE row == [password |-> user[req[r].user].password + 1,
                     failedLoginAttempts |-> 0, lockedUntil |-> 0]
  <2>1. row \in UserRow
    BY <1>1 DEF TypeInv, TypeOK, UserRow
  <2>2. user' = [user EXCEPT ![req[r].user] = row]
    BY DEF ResetCommit
  <2> QED
    BY <2>1, <2>2 DEF TypeInv, TypeOK
<1>3. /\ link' \in [ResetLink -> LinkRow]
      /\ \A k \in ResetLink : link'[k].owner = link[k].owner
  BY DEF ResetCommit, TypeInv, TypeOK, LinkRow
<1>4. /\ rt' \in [TokenId -> TokenRow]
      /\ \A x \in TokenId : rt'[x].owner = rt[x].owner
  <2>1. now \in Nat /\ rt \in [TokenId -> TokenRow]
    BY DEF TypeInv, TypeOK
  <2>2. rt' = [t \in TokenId |->
                 IF ResetRevokes(t, req[r].user)
                   THEN [rt[t] EXCEPT !.revocationReason = "PASSWORD_RESET", !.revokedAt = now]
                   ELSE rt[t]]
    BY DEF ResetCommit
  <2>3. ASSUME NEW x \in TokenId PROVE rt'[x] \in TokenRow /\ rt'[x].owner = rt[x].owner
    BY <2>1, <2>2 DEF TokenRow, Reason
  <2> QED
    BY <2>2, <2>3
<1>5. reopened' \in [User -> Nat]
  <2>1. reopened' = [reopened EXCEPT ![req[r].user] = 0]
    BY DEF ResetCommit
  <2> QED
    BY <2>1 DEF TypeInv, TypeOK
<1>6. TypeOK'
  BY <1>2, <1>3, <1>4, <1>5, FinishType DEF ResetCommit, TypeInv, TypeOK
<1>7. HandlerOK'
  BY <1>4 DEF ResetCommit, Finish, Idle, TypeInv, TypeOK, HandlerOK
<1>8. OwnedOK'
  BY <1>3, <1>4 DEF ResetCommit, TypeInv, TypeOK, OwnedOK
<1> QED
  BY <1>6, <1>7, <1>8 DEF TypeInv

LEMMA DropType ==
  ASSUME TypeInv, NEW r \in Request, Drop(r)
  PROVE  TypeInv'
<1>1. TypeOK'
  BY FinishType DEF Drop, storeVars, historyVars, TypeInv, TypeOK
<1>2. HandlerOK'
  BY DEF Drop, storeVars, Finish, Idle, TypeInv, TypeOK, HandlerOK
<1>3. OwnedOK'
  BY DEF Drop, storeVars, TypeInv, OwnedOK
<1> QED
  BY <1>1, <1>2, <1>3 DEF TypeInv

LEMMA TickType == TypeInv /\ (Tick \/ UNCHANGED vars) => TypeInv'
BY DEF Tick, vars, storeVars, historyVars, TypeInv, TypeOK, HandlerOK, OwnedOK

LEMMA TypeStep == TypeInv /\ [Next]_vars => TypeInv'
BY LoginReadType, LoginSucceedType, LoginFailType, TokenReadType, RefreshCommitType,
   ClaimGraceType, AuditGraceType, LogoutCommitType, LinkType, ResetReadType,
   ResetCommitType, DropType, TickType
   DEF Next

(* Every row, handler and history variable keeps its type, and a handler in *)
(* flight always works on rows that exist.                                  *)
THEOREM TypeCorrect == Spec => [](TypeOK /\ HandlerOK /\ OwnedOK)
BY InitType, TypeStep, PTL DEF Spec, TypeInv

-----------------------------------------------------------------------------
(* Steps seen from the rows.                                                *)

(* Only a login or a refresh creates a row; every other step leaves ids and *)
(* lineage alone.                                                           *)
LEMMA MintedBy ==
  ASSUME [Next]_vars
  PROVE  \/ \E r \in Request, t \in TokenId : LoginSucceed(r, t)
         \/ \E r \in Request, n \in TokenId : RefreshCommit(r, n)
         \/ UNCHANGED <<issued, parent, minter, pwdAtLogin, escaped>>
BY DEF Next, vars, storeVars, historyVars, LoginRead, LoginFail, RefreshRead, ValidateRead,
       ClaimGrace, AuditGrace, LogoutRead, LogoutCommit, ForgotPassword, ResetRead,
       ResetCommit, Drop, Tick

(* A handler that is about to rotate was so before the step, with the same  *)
(* token, or has just read a live one.                                      *)
LEMMA RotatingSince ==
  ASSUME TypeInv, [Next]_vars, NEW s \in Request, At(s, "rotate")'
  PROVE  \/ At(s, "rotate") /\ req'[s] = req[s]
         \/ \E t \in TokenId : RefreshRead(s, t)
<1>1. ASSUME NEW r \in Request, Finish(r)
      PROVE  At(s, "rotate") /\ req'[s] = req[s]
  BY <1>1 DEF Finish, Idle, At, TypeInv, TypeOK
<1>2. CASE UNCHANGED req
  BY <1>2 DEF At
<1>3. ASSUME NEW r \in Request, NEW u \in User, NEW correct \in BOOLEAN, LoginRead(r, u, correct)
      PROVE  At(s, "rotate") /\ req'[s] = req[s]
  BY <1>3 DEF LoginRead, At, Idle, TypeInv, TypeOK
<1>4. ASSUME NEW r \in Request, NEW t \in TokenId, RefreshRead(r, t)
      PROVE  \/ At(s, "rotate") /\ req'[s] = req[s]
             \/ RefreshRead(s, t)
  BY <1>4 DEF RefreshRead, At, TypeInv, TypeOK
<1>5. ASSUME NEW r \in Request, NEW t \in TokenId, ValidateRead(r, t) \/ LogoutRead(r, t)
      PROVE  At(s, "rotate") /\ req'[s] = req[s]
  BY <1>5 DEF ValidateRead, LogoutRead, At, Idle, TypeInv, TypeOK
<1>6. ASSUME NEW r \in Request, ClaimGrace(r)
      PROVE  At(s, "rotate") /\ req'[s] = req[s]
  BY <1>6, <1>1 DEF ClaimGrace, At, TypeInv, TypeOK, Handler
<1>7. ASSUME NEW r \in Request, NEW l \in ResetLink, ResetRead(r, l)
      PROVE  At(s, "rotate") /\ req'[s] = req[s]
  BY <1>7 DEF ResetRead, At, Idle, TypeInv, TypeOK
<1> QED
  BY <1>1, <1>2, <1>3, <1>4, <1>5, <1>6, <1>7
     DEF Next, vars, LoginSucceed, LoginFail, RefreshCommit, AuditGrace, LogoutCommit,
         ForgotPassword, ResetCommit, Drop, Tick

(* No step makes a revoked row live again. *)
LEMMA RevocationStays ==
  ASSUME TypeInv, [Next]_vars, NEW x \in issued, Revoked(x)
  PROVE  rt'[x].revocationReason # None
<1>1. x \in TokenId /\ rt[x] \in TokenRow /\ rt[x].revocationReason # None
  BY DEF TypeInv, TypeOK, Revoked
<1>2. ASSUME NEW r \in Request, NEW t \in TokenId, LoginSucceed(r, t)
      PROVE  rt'[x].revocationReason # None
  BY <1>1, <1>2 DEF LoginSucceed, Revoked, TypeInv, TypeOK
<1>3. ASSUME NEW r \in Request, NEW n \in TokenId, RefreshCommit(r, n)
      PROVE  rt'[x].revocationReason # None
  <2>1. x # n
    BY <1>3 DEF RefreshCommit
  <2>2. rt'[x] = rt[x] \/ rt'[x] = Rotated(rt[x], n)
    BY <1>1, <1>3, <2>1 DEF RefreshCommit, TypeInv, TypeOK
  <2> QED
    BY <1>1, <2>2, ConstantsAssumption DEF Rotated, TokenRow, Revoked, Reason
<1>4. ASSUME NEW r \in Request, ClaimGrace(r)
      PROVE  rt'[x].revocationReason # None
  BY <1>1, <1>4 DEF ClaimGrace, Revoked, TokenRow, TypeInv, TypeOK
<1>5. ASSUME NEW r \in Request, LogoutCommit(r)
      PROVE  rt'[x].revocationReason # None
  <2>1. rt'[x] = rt[x] \/ rt'[x] = LoggedOut(rt[x])
    BY <1>1, <1>5 DEF LogoutCommit, TypeInv, TypeOK
  <2> QED
    BY <1>1, <2>1, ConstantsAssumption DEF LoggedOut, TokenRow, Revoked, Reason
<1>6. ASSUME NEW r \in Request, ResetCommit(r)
      PROVE  rt'[x].revocationReason # None
  BY <1>1, <1>6 DEF ResetCommit, ResetRevokes, Live, Revoked
<1>7. CASE UNCHANGED rt
  BY <1>1, <1>7 DEF Revoked
<1> QED
  BY <1>2, <1>3, <1>4, <1>5, <1>6, <1>7
     DEF Next, vars, storeVars, LoginRead, LoginFail, RefreshRead, ValidateRead, AuditGrace,
         LogoutRead, ForgotPassword, ResetRead, Drop, Tick

-----------------------------------------------------------------------------
(* Lineage: one successor of a token per handler slot.                      *)

(* A token with a successor is revoked; and a handler about to rotate a     *)
(* token has not created a successor of it yet.                             *)
LineageInv ==
  /\ \A c \in issued : parent[c] \in issued \cup {None} /\ minter[c] \in Request
  /\ \A c \in issued : parent[c] # None => rt[parent[c]].revocationReason # None
  /\ \A s \in Request : At(s, "rotate") =>
       \A c \in issued : parent[c] = req[s].token => minter[c] # s
  /\ OneSuccessorPerHandler

LEMMA InitLineage == Init => LineageInv
BY DEF Init, LineageInv, OneSuccessorPerHandler

LEMMA LineageStep == TypeInv /\ LineageInv /\ [Next]_vars => LineageInv'
<1> SUFFICES ASSUME TypeInv, LineageInv, [Next]_vars PROVE LineageInv'
  OBVIOUS
<1> USE ConstantsAssumption
<1>1. CASE UNCHANGED <<issued, parent, minter, pwdAtLogin, escaped>>
  <2>1. \A c \in issued : parent[c] # None => rt'[parent[c]].revocationReason # None
    BY RevocationStays DEF LineageInv, Revoked
  <2>2. ASSUME NEW s \in Request, At(s, "rotate")', NEW c \in issued, parent[c] = req'[s].token
        PROVE  minter[c] # s
    <3>1. CASE At(s, "rotate") /\ req'[s] = req[s]
      BY <2>2, <3>1 DEF LineageInv
    <3>2. ASSUME NEW t \in TokenId, RefreshRead(s, t) PROVE FALSE
      <4>1. parent[c] = t /\ t # None
        BY <2>2, <3>2 DEF RefreshRead, TypeInv, TypeOK
      <4>2. ~Revoked(t)
        BY <3>2 DEF RefreshRead, Live
      <4> QED
        BY <4>1, <4>2, <2>2 DEF LineageInv, Revoked
    <3> QED
      BY <2>2, <3>1, <3>2, RotatingSince
  <2> QED
    BY <1>1, <2>1, <2>2 DEF LineageInv, OneSuccessorPerHandler
<1>2. ASSUME NEW r \in Request, NEW t \in TokenId, LoginSucceed(r, t)
      PROVE  LineageInv'
  <2>1. /\ t \notin issued /\ issued' = issued \cup {t}
        /\ parent' = [parent EXCEPT ![t] = None]
        /\ minter' = [minter EXCEPT ![t] = r]
        /\ parent'[t] = None /\ minter'[t] = r
        /\ \A c \in issued : parent'[c] = parent[c] /\ minter'[c] = minter[c]
    BY <1>2 DEF LoginSucceed, Mint, TypeInv, TypeOK
  <2>2. \A c \in issued' : parent'[c] \in issued' \cup {None} /\ minter'[c] \in Request
    BY <2>1 DEF LineageInv
  <2>3. \A c \in issued' : parent'[c] # None => rt'[parent'[c]].revocationReason # None
    BY <2>1, RevocationStays DEF LineageInv, Revoked
  <2>4. ASSUME NEW s \in Request, At(s, "rotate")'
        PROVE  At(s, "rotate") /\ req'[s] = req[s]
    BY <1>2, <2>4 DEF LoginSucceed, Finish, Idle, At, TypeInv, TypeOK
  <2>5. \A s \in Request : At(s, "rotate") => req[s].token \in issued /\ req[s].token # None
    BY DEF At, TypeInv, TypeOK, HandlerOK
  <2>6. \A s \in Request : At(s, "rotate")' =>
          \A c \in issued' : parent'[c] = req'[s].token => minter'[c] # s
    BY <2>1, <2>4, <2>5 DEF LineageInv
  <2>7. OneSuccessorPerHandler'
    BY <2>1 DEF LineageInv, OneSuccessorPerHandler
  <2> QED
    BY <2>2, <2>3, <2>6, <2>7 DEF LineageInv
<1>3. ASSUME NEW r \in Request, NEW n \in TokenId, RefreshCommit(r, n)
      PROVE  LineageInv'
  <2> DEFINE t == req[r].token
  <2>1. /\ n \notin issued /\ issued' = issued \cup {n}
        /\ parent'[n] = t /\ minter'[n] = r
        /\ \A c \in issued : parent'[c] = parent[c] /\ minter'[c] = minter[c]
        /\ t \in issued /\ t \in TokenId
    BY <1>3 DEF RefreshCommit, Mint, At, TypeInv, TypeOK, HandlerOK
  <2>2. rt'[t].revocationReason # None
    <3>1. rt'[t] = Rotated(rt[t], n) /\ rt[t] \in TokenRow
      BY <1>3, <2>1 DEF RefreshCommit, TypeInv, TypeOK
    <3> QED
      BY <3>1 DEF Rotated, TokenRow, Reason
  <2>3. \A c \in issued' : parent'[c] \in issued' \cup {None} /\ minter'[c] \in Request
    BY <2>1 DEF LineageInv
  <2>4. \A c \in issued' : parent'[c] # None => rt'[parent'[c]].revocationReason # None
    BY <2>1, <2>2, RevocationStays DEF LineageInv, Revoked
  <2>5. ASSUME NEW s \in Request, At(s, "rotate")'
        PROVE  s # r /\ At(s, "rotate") /\ req'[s] = req[s]
    BY <1>3, <2>5 DEF RefreshCommit, Finish, Idle, At, TypeInv, TypeOK
  <2>6. \A s \in Request : At(s, "rotate")' =>
          \A c \in issued' : parent'[c] = req'[s].token => minter'[c] # s
    BY <2>1, <2>5 DEF LineageInv
  <2>7. \A c \in issued : parent[c] = t => minter[c] # r
    BY <1>3 DEF RefreshCommit, LineageInv
  <2>8. OneSuccessorPerHandler'
    BY <2>1, <2>7 DEF LineageInv, OneSuccessorPerHandler
  <2> QED
    BY <2>3, <2>4, <2>6, <2>8 DEF LineageInv
<1> QED
  BY <1>1, <1>2, <1>3, MintedBy

LEMMA LineageCorrect == Spec => []LineageInv
<1>1. Spec => []TypeInv
  BY InitType, TypeStep, PTL DEF Spec
<1> QED
  BY <1>1, InitLineage, LineageStep, PTL DEF Spec

(* However many refreshes race, each handler slot gives a token at most one *)
(* successor.                                                               *)
THEOREM SuccessorPerHandler == Spec => []OneSuccessorPerHandler
BY LineageCorrect, PTL DEF LineageInv

(* Where handlers do not overlap, a session never forks.                    *)
THEOREM SerialSessionsDoNotFork ==
  ASSUME \A r, s \in Request : r = s
  PROVE  Spec => []NoFork
<1>1. LineageInv => NoFork
  BY DEF LineageInv, OneSuccessorPerHandler, NoFork
<1> QED
  BY <1>1, LineageCorrect, PTL

-----------------------------------------------------------------------------
(* The lock and the counter.                                                *)

LEMMA InitLock == Init => LockMatchesCounter
BY ConstantsAssumption DEF Init, LockMatchesCounter

LEMMA LockStep == TypeInv /\ LockMatchesCounter /\ [Next]_vars => LockMatchesCounter'
<1> SUFFICES ASSUME TypeInv, LockMatchesCounter, [Next]_vars PROVE LockMatchesCounter'
  OBVIOUS
<1> USE ConstantsAssumption
<1>1. ASSUME NEW r \in Request, NEW t \in TokenId, LoginSucceed(r, t)
      PROVE  LockMatchesCounter'
  BY <1>1 DEF LoginSucceed, LockMatchesCounter, TypeInv, TypeOK, UserRow
<1>2. ASSUME NEW r \in Request, LoginFail(r)
      PROVE  LockMatchesCounter'
  <2> DEFINE u == req[r].user
             count == user[u].failedLoginAttempts + 1
  <2>1. u \in User /\ count \in Nat /\ now \in Nat
    BY <1>2 DEF LoginFail, At, TypeInv, TypeOK, HandlerOK, UserRow
  <2>2. LockAfter(count) # 0 <=> count >= MaxFailedAttempts
    BY <2>1 DEF LockAfter
  <2>3. user' = [user EXCEPT ![u].failedLoginAttempts = count, ![u].lockedUntil = LockAfter(count)]
    BY <1>2 DEF LoginFail
  <2> QED
    BY <2>1, <2>2, <2>3 DEF LockMatchesCounter, TypeInv, TypeOK, UserRow
<1>3. ASSUME NEW r \in Request, ResetCommit(r)
      PROVE  LockMatchesCounter'
  <2>1. user' = [user EXCEPT ![req[r].user] =
          [password |-> @.password + 1, failedLoginAttempts |-> 0, lockedUntil |-> 0]]
    BY <1>3 DEF ResetCommit
  <2> QED
    BY <2>1 DEF LockMatchesCounter, TypeInv, TypeOK, UserRow
<1>4. CASE UNCHANGED user
  BY <1>4 DEF LockMatchesCounter
<1> QED
  BY <1>1, <1>2, <1>3, <1>4
     DEF Next, vars, storeVars, LoginRead, RefreshRead, RefreshCommit, ValidateRead, ClaimGrace,
         AuditGrace, LogoutRead, LogoutCommit, ForgotPassword, ResetRead, Drop, Tick

(* An account carries a lock exactly when its failures have reached the     *)
(* limit, whatever logins and resets are in flight.                         *)
THEOREM LockFollowsCounter == Spec => []LockMatchesCounter
<1>1. Spec => []TypeInv
  BY InitType, TypeStep, PTL DEF Spec
<1> QED
  BY <1>1, InitLock, LockStep, PTL DEF Spec

-----------------------------------------------------------------------------
(* A settled revocation.                                                    *)

(* One step does not change a revoked row nobody is about to write, nor let *)
(* anybody begin to.                                                        *)
LEMMA QuietStep ==
  ASSUME TypeInv, [Next]_vars, NEW x \in issued, Revoked(x), ~Writing(x)
  PROVE  /\ rt'[x].revocationReason = rt[x].revocationReason
         /\ rt'[x].revokedAt = rt[x].revokedAt
         /\ \A s \in Request : ~(req'[s].token = x /\ req'[s].pc \in {"rotate", "logout"})
<1> USE ConstantsAssumption
<1>1. x \in TokenId /\ x # None /\ rt[x] \in TokenRow
  BY DEF TypeInv, TypeOK
<1>2. \A s \in Request : ~(req[s].token = x /\ req[s].pc \in {"rotate", "logout"})
  BY DEF Writing
<1>3. ASSUME NEW r \in Request, Finish(r)
      PROVE  \A s \in Request : ~(req'[s].token = x /\ req'[s].pc \in {"rotate", "logout"})
  BY <1>2, <1>3 DEF Finish, Idle, TypeInv, TypeOK
<1>4. ASSUME NEW r \in Request, NEW u \in User, NEW correct \in BOOLEAN, LoginRead(r, u, correct)
      PROVE  \A s \in Request : ~(req'[s].token = x /\ req'[s].pc \in {"rotate", "logout"})
  BY <1>1, <1>2, <1>4 DEF LoginRead, Idle, TypeInv, TypeOK
<1>5. ASSUME NEW r \in Request, NEW t \in TokenId,
             RefreshRead(r, t) \/ ValidateRead(r, t) \/ LogoutRead(r, t)
      PROVE  \A s \in Request : ~(req'[s].token = x /\ req'[s].pc \in {"rotate", "logout"})
  <2>1. CASE RefreshRead(r, t) \/ LogoutRead(r, t)
    <3>1. t # x
      BY <2>1 DEF RefreshRead, LogoutRead, Live
    <3>2. \E h : h.token = t /\ req' = [req EXCEPT ![r] = h]
      BY <2>1, Zenon DEF RefreshRead, LogoutRead, Idle
    <3> QED
      BY <1>2, <3>1, <3>2 DEF TypeInv, TypeOK
  <2>2. CASE ValidateRead(r, t)
    BY <1>2, <2>2 DEF ValidateRead, Idle, TypeInv, TypeOK
  <2> QED
    BY <1>5, <2>1, <2>2
<1>6. ASSUME NEW r \in Request, NEW l \in ResetLink, ResetRead(r, l)
      PROVE  \A s \in Request : ~(req'[s].token = x /\ req'[s].pc \in {"rotate", "logout"})
  BY <1>1, <1>2, <1>6 DEF ResetRead, Idle, TypeInv, TypeOK
<1>7. ASSUME NEW r \in Request, NEW t \in TokenId, LoginSucceed(r, t)
      PROVE  rt'[x] = rt[x]
  BY <1>1, <1>7 DEF LoginSucceed, TypeInv, TypeOK
<1>8. ASSUME NEW r \in Request, NEW n \in TokenId, RefreshCommit(r, n)
      PROVE  rt'[x] = rt[x]
  BY <1>1, <1>2, <1>8 DEF RefreshCommit, At, TypeInv, TypeOK
<1>9. ASSUME NEW r \in Request, ClaimGrace(r)
      PROVE  /\ rt'[x].revocationReason = rt[x].revocationReason
             /\ rt'[x].revokedAt = rt[x].revokedAt
             /\ \A s \in Request : ~(req'[s].token = x /\ req'[s].pc \in {"rotate", "logout"})
  <2>1. CASE GraceClaimable(req[r].token)
    <3>1. /\ rt' = [rt EXCEPT ![req[r].token].graceUseCount = @ + 1]
          /\ req' = [req EXCEPT ![r].pc = "auditGrace"]
      BY <1>9, <2>1 DEF ClaimGrace
    <3> QED
      BY <1>1, <1>2, <3>1 DEF TypeInv, TypeOK, TokenRow, Handler
  <2>2. CASE ~GraceClaimable(req[r].token)
    BY <1>3, <1>9, <2>2 DEF ClaimGrace
  <2> QED
    BY <2>1, <2>2
<1>10. ASSUME NEW r \in Request, LogoutCommit(r)
       PROVE  rt'[x] = rt[x]
  BY <1>1, <1>2, <1>10 DEF LogoutCommit, At, TypeInv, TypeOK
<1>11. ASSUME NEW r \in Request, ResetCommit(r)
       PROVE  rt'[x] = rt[x]
  BY <1>1, <1>11 DEF ResetCommit, ResetRevokes, Live
<1>12. CASE UNCHANGED <<rt, req>>
  BY <1>2, <1>12
<1> QED
  BY <1>3, <1>4, <1>5, <1>6, <1>7, <1>8, <1>9, <1>10, <1>11, <1>12
     DEF Next, vars, storeVars, LoginRead, LoginSucceed, LoginFail, RefreshRead, RefreshCommit,
         ValidateRead, AuditGrace, LogoutRead, LogoutCommit, ForgotPassword, ResetRead,
         ResetCommit, Drop, Tick

(* Once the handlers that read a row before its revocation are done, the    *)
(* revocation is final.                                                     *)
THEOREM SettledRevocationIsFinal == Spec => QuietRevocationIsFinal
<1>1. TypeInv /\ [Next]_vars =>
        [\A t \in issued : Revoked(t) /\ ~Writing(t) =>
           /\ rt'[t].revocationReason = rt[t].revocationReason
           /\ rt'[t].revokedAt = rt[t].revokedAt
           /\ ~Writing(t)']_vars
  BY QuietStep DEF Writing
<1>2. Spec => []TypeInv
  BY InitType, TypeStep, PTL DEF Spec
<1> QED
  BY <1>1, <1>2, PTL DEF Spec, QuietRevocationIsFinal

-----------------------------------------------------------------------------
(* Grace.                                                                   *)

(* What a row's rotation and grace count say of its successors.             *)
GraceInv ==
  /\ RotatedNamesSuccessor
  /\ \A t \in TokenId : rt[t].graceUseCount <= RotationGraceMaxUses
  /\ GraceOnlyAfterRotation
  /\ \A s \in Request : At(s, "claimGrace") => \E c \in issued : parent[c] = req[s].token

(* A handler about to claim a grace use was so before, or has just read a   *)
(* rotated row.                                                             *)
LEMMA ClaimingSince ==
  ASSUME TypeInv, [Next]_vars, NEW s \in Request, At(s, "claimGrace")'
  PROVE  \/ At(s, "claimGrace") /\ req'[s] = req[s]
         \/ \E t \in TokenId : ValidateRead(s, t)
<1>1. ASSUME NEW r \in Request, Finish(r)
      PROVE  At(s, "claimGrace") /\ req'[s] = req[s]
  BY <1>1 DEF Finish, Idle, At, TypeInv, TypeOK
<1>2. CASE UNCHANGED req
  BY <1>2 DEF At
<1>3. ASSUME NEW r \in Request, NEW u \in User, NEW correct \in BOOLEAN, LoginRead(r, u, correct)
      PROVE  At(s, "claimGrace") /\ req'[s] = req[s]
  BY <1>3 DEF LoginRead, At, Idle, TypeInv, TypeOK
<1>4. ASSUME NEW r \in Request, NEW t \in TokenId, ValidateRead(r, t)
      PROVE  \/ At(s, "claimGrace") /\ req'[s] = req[s]
             \/ ValidateRead(s, t)
  BY <1>4 DEF ValidateRead, At, TypeInv, TypeOK
<1>5. ASSUME NEW r \in Request, NEW t \in TokenId, RefreshRead(r, t) \/ LogoutRead(r, t)
      PROVE  At(s, "claimGrace") /\ req'[s] = req[s]
  BY <1>5 DEF RefreshRead, LogoutRead, At, Idle, TypeInv, TypeOK
<1>6. ASSUME NEW r \in Request, ClaimGrace(r)
      PROVE  At(s, "claimGrace") /\ req'[s] = req[s]
  BY <1>6, <1>1 DEF ClaimGrace, At, TypeInv, TypeOK, Handler
<1>7. ASSUME NEW r \in Request, NEW l \in ResetLink, ResetRead(r, l)
      PROVE  At(s, "claimGrace") /\ req'[s] = req[s]
  BY <1>7 DEF ResetRead, At, Idle, TypeInv, TypeOK
<1> QED
  BY <1>1, <1>2, <1>3, <1>4, <1>5, <1>6, <1>7
     DEF Next, vars, LoginSucceed, LoginFail, RefreshCommit, AuditGrace, LogoutCommit,
         ForgotPassword, ResetCommit, Drop, Tick

(* Successors are never unmade. *)
LEMMA SuccessorsStay ==
  ASSUME TypeInv, [Next]_vars, NEW c \in issued
  PROVE  c \in issued' /\ parent'[c] = parent[c]
<1>1. ASSUME NEW r \in Request, NEW t \in TokenId, LoginSucceed(r, t)
      PROVE  c \in issued' /\ parent'[c] = parent[c]
  BY <1>1 DEF LoginSucceed, Mint, TypeInv, TypeOK
<1>2. ASSUME NEW r \in Request, NEW n \in TokenId, RefreshCommit(r, n)
      PROVE  c \in issued' /\ parent'[c] = parent[c]
  BY <1>2 DEF RefreshCommit, Mint, TypeInv, TypeOK
<1> QED
  BY <1>1, <1>2, MintedBy

(* How one step may change a row, whatever the handler. *)
LEMMA RowStep ==
  ASSUME TypeInv, [Next]_vars, NEW x \in TokenId
  PROVE  \/ /\ rt'[x].replacedBy = rt[x].replacedBy
            /\ rt'[x].graceUseCount = rt[x].graceUseCount
            /\ rt'[x].revocationReason = "ROTATED" => rt[x].revocationReason = "ROTATED"
         \/ /\ x \notin issued /\ x \in issued'
            /\ rt'[x].graceUseCount = 0 /\ rt'[x].replacedBy = None
            /\ rt'[x].revocationReason = None
         \/ \E r \in Request, n \in TokenId :
            /\ RefreshCommit(r, n) /\ x = req[r].token
            /\ rt'[x] = Rotated(rt[x], n)
         \/ \E r \in Request :
            /\ At(r, "claimGrace") /\ x = req[r].token /\ GraceClaimable(x)
            /\ rt'[x] = [rt[x] EXCEPT !.graceUseCount = @ + 1]
<1> USE ConstantsAssumption
<1>0. rt[x] \in TokenRow
  BY DEF TypeInv, TypeOK
<1>1. ASSUME NEW r \in Request, NEW t \in TokenId, LoginSucceed(r, t)
      PROVE  \/ rt'[x] = rt[x]
             \/ /\ x \notin issued /\ x \in issued'
                /\ rt'[x].graceUseCount = 0 /\ rt'[x].replacedBy = None
                /\ rt'[x].revocationReason = None
  BY <1>1 DEF LoginSucceed, Mint, NewTokenRow, NoTokenRow, TypeInv, TypeOK
<1>2. ASSUME NEW r \in Request, NEW n \in TokenId, RefreshCommit(r, n)
      PROVE  \/ rt'[x] = rt[x]
             \/ /\ x \notin issued /\ x \in issued'
                /\ rt'[x].graceUseCount = 0 /\ rt'[x].replacedBy = None
                /\ rt'[x].revocationReason = None
             \/ x = req[r].token /\ rt'[x] = Rotated(rt[x], n)
  <2>1. rt' = [rt EXCEPT ![n] = NewTokenRow(req[r].user), ![req[r].token] = Rotated(@, n)]
    BY <1>2 DEF RefreshCommit
  <2>2. n \notin issued /\ issued' = issued \cup {n} /\ req[r].token \in issued
    BY <1>2 DEF RefreshCommit, Mint, At, TypeInv, HandlerOK
  <2>3. CASE x = n
    BY <2>1, <2>2, <2>3 DEF NewTokenRow, NoTokenRow, TypeInv, TypeOK
  <2>4. CASE x # n
    BY <2>1, <2>2, <2>4 DEF TypeInv, TypeOK
  <2> QED
    BY <2>3, <2>4
<1>3. ASSUME NEW r \in Request, ClaimGrace(r)
      PROVE  \/ rt'[x] = rt[x]
             \/ /\ At(r, "claimGrace") /\ x = req[r].token /\ GraceClaimable(x)
                /\ rt'[x] = [rt[x] EXCEPT !.graceUseCount = @ + 1]
  BY <1>3 DEF ClaimGrace, TypeInv, TypeOK
<1>4. ASSUME NEW r \in Request, LogoutCommit(r)
      PROVE  rt'[x] = rt[x] \/ rt'[x] = LoggedOut(rt[x])
  BY <1>4 DEF LogoutCommit, TypeInv, TypeOK
<1>5. ASSUME NEW r \in Request, ResetCommit(r)
      PROVE  \/ rt'[x] = rt[x]
             \/ rt'[x] = [rt[x] EXCEPT !.revocationReason = "PASSWORD_RESET", !.revokedAt = now]
  BY <1>5 DEF ResetCommit
<1>6. \/ rt'[x] = rt[x]
      \/ rt'[x] = LoggedOut(rt[x])
      \/ rt'[x] = [rt[x] EXCEPT !.revocationReason = "PASSWORD_RESET", !.revokedAt = now]
      => /\ rt'[x].replacedBy = rt[x].replacedBy
         /\ rt'[x].graceUseCount = rt[x].graceUseCount
         /\ rt'[x].revocationReason = "ROTATED" => rt[x].revocationReason = "ROTATED"
  BY <1>0 DEF LoggedOut, TokenRow
<1>7. CASE UNCHANGED rt
  BY <1>7
<1> QED
  BY <1>1, <1>2, <1>3, <1>4, <1>5, <1>6, <1>7
     DEF Next, vars, storeVars, LoginRead, LoginFail, RefreshRead, ValidateRead, AuditGrace,
         LogoutRead, ForgotPassword, ResetRead, Drop, Tick

LEMMA InitGrace == Init => GraceInv
BY ConstantsAssumption
   DEF Init, GraceInv, RotatedNamesSuccessor, GraceOnlyAfterRotation, NoTokenRow, At, Idle

LEMMA GraceStep == TypeInv /\ GraceInv /\ [Next]_vars => GraceInv'
<1> SUFFICES ASSUME TypeInv, GraceInv, [Next]_vars PROVE GraceInv'
  OBVIOUS
<1> USE ConstantsAssumption
<1>1. ASSUME NEW r \in Request, NEW n \in TokenId, RefreshCommit(r, n)
      PROVE  /\ n \in issued' /\ parent'[n] = req[r].token
             /\ req[r].token \in issued
  BY <1>1 DEF RefreshCommit, Mint, At, TypeInv, TypeOK, HandlerOK
<1>2. ASSUME NEW t \in TokenId, \E c \in issued : parent[c] = t
      PROVE  \E c \in issued' : parent'[c] = t
  BY <1>2, SuccessorsStay
<1>3. ASSUME NEW t \in issued'
      PROVE  /\ rt'[t].revocationReason = "ROTATED" => rt'[t].replacedBy # None
             /\ rt'[t].replacedBy # None =>
                  rt'[t].replacedBy \in issued' /\ parent'[rt'[t].replacedBy] = t
  <2>1. t \in TokenId /\ rt[t] \in TokenRow
    BY <1>3, TypeStep DEF TypeInv, TypeOK
  <2>2. CASE /\ rt'[t].replacedBy = rt[t].replacedBy
             /\ rt'[t].revocationReason = "ROTATED" => rt[t].revocationReason = "ROTATED"
             /\ t \in issued
    BY <2>2, SuccessorsStay DEF GraceInv, RotatedNamesSuccessor
  <2>3. CASE rt'[t].replacedBy = None /\ rt'[t].revocationReason = None
    BY <2>3 DEF Reason
  <2>4. ASSUME NEW r \in Request, NEW n \in TokenId, RefreshCommit(r, n), t = req[r].token,
               rt'[t] = Rotated(rt[t], n)
        PROVE  rt'[t].replacedBy = n
    BY <2>1, <2>4 DEF Rotated, TokenRow
  <2>5. ASSUME NEW r \in Request, At(r, "claimGrace"), t = req[r].token,
               rt'[t] = [rt[t] EXCEPT !.graceUseCount = @ + 1]
        PROVE  /\ rt'[t].replacedBy = rt[t].replacedBy
               /\ rt'[t].revocationReason = rt[t].revocationReason
               /\ t \in issued
    BY <2>1, <2>5 DEF TokenRow, At, TypeInv, HandlerOK
  <2>6. CASE t \notin issued
    <3>1. \/ \E r \in Request : LoginSucceed(r, t)
          \/ \E r \in Request : RefreshCommit(r, t)
      BY <1>3, <2>6, MintedBy DEF LoginSucceed, RefreshCommit, Mint
    <3>2. rt'[t].replacedBy = None /\ rt'[t].revocationReason = None
      <4>1. \A u : /\ NewTokenRow(u).replacedBy = None
                   /\ NewTokenRow(u).revocationReason = None
        BY DEF NewTokenRow, NoTokenRow
      <4>2. ASSUME NEW r \in Request, LoginSucceed(r, t)
            PROVE  \E u : rt'[t] = NewTokenRow(u)
        BY <2>1, <4>2 DEF LoginSucceed, TypeInv, TypeOK
      <4>3. ASSUME NEW r \in Request, RefreshCommit(r, t)
            PROVE  \E u : rt'[t] = NewTokenRow(u)
        BY <1>1, <2>1, <2>6, <4>3 DEF RefreshCommit, TypeInv, TypeOK
      <4> QED
        BY <3>1, <4>1, <4>2, <4>3
    <3> QED
      BY <3>2, <2>3
  <2> QED
    BY <1>1, <2>1, <2>2, <2>3, <2>4, <2>5, <2>6, RowStep
<1>4. RotatedNamesSuccessor'
  BY <1>3 DEF RotatedNamesSuccessor
<1>5. ASSUME NEW t \in TokenId
      PROVE  /\ rt'[t].graceUseCount <= RotationGraceMaxUses
             /\ rt'[t].graceUseCount > 0 => \E c \in issued' : parent'[c] = t
  <2>1. rt[t] \in TokenRow /\ rt[t].graceUseCount \in Nat
    BY DEF TypeInv, TypeOK, TokenRow
  <2>2. CASE rt'[t].graceUseCount \in {0, rt[t].graceUseCount}
    BY <1>2, <2>1, <2>2 DEF GraceInv, GraceOnlyAfterRotation
  <2>3. ASSUME NEW n \in TokenId, rt'[t] = Rotated(rt[t], n)
        PROVE  rt'[t].graceUseCount = rt[t].graceUseCount
    BY <2>1, <2>3 DEF Rotated, TokenRow
  <2>4. ASSUME NEW r \in Request, At(r, "claimGrace"), t = req[r].token, GraceClaimable(t),
               rt'[t] = [rt[t] EXCEPT !.graceUseCount = @ + 1]
        PROVE  /\ rt'[t].graceUseCount <= RotationGraceMaxUses
               /\ \E c \in issued' : parent'[c] = t
    <3>1. rt'[t].graceUseCount = rt[t].graceUseCount + 1
      BY <2>1, <2>4 DEF TokenRow
    <3>2. rt[t].graceUseCount < RotationGraceMaxUses
      BY <2>4 DEF GraceClaimable
    <3>3. \E c \in issued : parent[c] = t
      BY <2>4 DEF GraceInv
    <3> QED
      BY <1>2, <2>1, <3>1, <3>2, <3>3
  <2> QED
    BY <2>2, <2>3, <2>4, RowStep
<1>6. GraceOnlyAfterRotation'
  BY <1>5 DEF GraceOnlyAfterRotation
<1>7. ASSUME NEW s \in Request, At(s, "claimGrace")'
      PROVE  \E c \in issued' : parent'[c] = req'[s].token
  <2>1. CASE At(s, "claimGrace") /\ req'[s] = req[s]
    <3>1. req[s].token \in TokenId
      BY <2>1 DEF At, TypeInv, TypeOK, HandlerOK
    <3> QED
      BY <1>2, <2>1, <3>1 DEF GraceInv
  <2>2. ASSUME NEW t \in TokenId, ValidateRead(s, t)
        PROVE  \E c \in issued' : parent'[c] = req'[s].token
    <3>1. t \in issued /\ rt[t].revocationReason = "ROTATED" /\ req'[s].token = t
      BY <2>2 DEF ValidateRead, Idle, TypeInv, TypeOK
    <3>2. \E c \in issued : parent[c] = t
      BY <3>1 DEF GraceInv, RotatedNamesSuccessor
    <3> QED
      BY <1>2, <3>1, <3>2
  <2> QED
    BY <1>7, <2>1, <2>2, ClaimingSince
<1> QED
  BY <1>4, <1>5, <1>6, <1>7 DEF GraceInv

LEMMA GraceCorrect == Spec => []GraceInv
<1>1. Spec => []TypeInv
  BY InitType, TypeStep, PTL DEF Spec
<1> QED
  BY <1>1, InitGrace, GraceStep, PTL DEF Spec

(* The successor a rotated row names was created from it.                   *)
THEOREM RotatedRowsNameSuccessors == Spec => []RotatedNamesSuccessor
BY GraceCorrect, PTL DEF GraceInv

(* Grace is spent only where a rotation produced a successor.               *)
THEOREM GraceFollowsRotation == Spec => []GraceOnlyAfterRotation
BY GraceCorrect, PTL DEF GraceInv

-----------------------------------------------------------------------------
(* What survives a password reset.                                          *)

(* A handler about to rotate a session older than the password it has read  *)
(* works on a session that had escaped a reset already.                     *)
EscapeInv ==
  /\ OnlyOverlappedSurviveReset
  /\ \A s \in Request :
       At(s, "rotate") /\ pwdAtLogin[req[s].token] < req[s].password => req[s].token \in escaped

LEMMA InitEscape == Init => EscapeInv
BY DEF Init, EscapeInv, OnlyOverlappedSurviveReset, At, Idle

(* A live row was live before the step, or has just been created.           *)
LEMMA LiveSince ==
  ASSUME TypeInv, [Next]_vars, NEW x \in issued', rt'[x].revocationReason = None
  PROVE  \/ x \in issued /\ rt[x].revocationReason = None /\ rt'[x].owner = rt[x].owner
         \/ x \notin issued
<1>1. CASE x \in issued
  <2>1. x \in TokenId /\ rt[x] \in TokenRow
    BY <1>1 DEF TypeInv, TypeOK
  <2>2. rt[x].revocationReason = None
    BY <1>1, RevocationStays DEF Revoked
  <2>3. rt'[x].owner = rt[x].owner
    <3>1. ASSUME NEW r \in Request, NEW t \in TokenId, LoginSucceed(r, t)
          PROVE  rt'[x].owner = rt[x].owner
      BY <1>1, <2>1, <3>1 DEF LoginSucceed, TypeInv, TypeOK
    <3>2. ASSUME NEW r \in Request, NEW n \in TokenId, RefreshCommit(r, n)
          PROVE  rt'[x].owner = rt[x].owner
      <4>1. rt'[x] = rt[x] \/ rt'[x] = Rotated(rt[x], n)
        BY <1>1, <2>1, <3>2 DEF RefreshCommit, TypeInv, TypeOK
      <4> QED
        BY <2>1, <4>1, RevokedRowTypes DEF TypeInv
    <3>3. ASSUME NEW r \in Request, ClaimGrace(r)
          PROVE  rt'[x].owner = rt[x].owner
      <4>1. CASE GraceClaimable(req[r].token)
        <5>1. rt' = [rt EXCEPT ![req[r].token].graceUseCount = @ + 1]
          BY <3>3, <4>1 DEF ClaimGrace
        <5> QED
          BY <2>1, <5>1 DEF TypeInv, TypeOK, TokenRow
      <4>2. CASE ~GraceClaimable(req[r].token)
        BY <3>3, <4>2 DEF ClaimGrace
      <4> QED
        BY <4>1, <4>2
    <3>4. ASSUME NEW r \in Request, LogoutCommit(r)
          PROVE  rt'[x].owner = rt[x].owner
      <4>1. rt'[x] = rt[x] \/ rt'[x] = LoggedOut(rt[x])
        BY <2>1, <3>4 DEF LogoutCommit, TypeInv, TypeOK
      <4> QED
        BY <2>1, <4>1, RevokedRowTypes DEF TypeInv
    <3>5. ASSUME NEW r \in Request, ResetCommit(r)
          PROVE  rt'[x].owner = rt[x].owner
      BY <2>1, <3>5 DEF ResetCommit, TokenRow
    <3>6. CASE UNCHANGED rt
      BY <3>6
    <3>7. \/ UNCHANGED rt
          \/ \E r \in Request, n \in TokenId : LoginSucceed(r, n) \/ RefreshCommit(r, n)
          \/ \E r \in Request : ClaimGrace(r) \/ LogoutCommit(r) \/ ResetCommit(r)
      BY DEF Next, vars, storeVars, LoginRead, LoginFail, RefreshRead, ValidateRead, AuditGrace,
             LogoutRead, ForgotPassword, ResetRead, Drop, Tick
    <3> QED
      BY <3>1, <3>2, <3>3, <3>4, <3>5, <3>6, <3>7
  <2> QED
    BY <1>1, <2>2, <2>3
<1> QED
  BY <1>1

(* Passwords change only in a reset, which leaves no live row of the        *)
(* account behind.                                                          *)
LEMMA PasswordStep ==
  ASSUME TypeInv, [Next]_vars, NEW u \in User, user'[u].password # user[u].password
  PROVE  /\ UNCHANGED <<issued, pwdAtLogin, escaped>>
         /\ \A x \in issued : rt'[x].owner = u => rt'[x].revocationReason # None
<1>1. PICK r \in Request : ResetCommit(r)
  <2>1. ASSUME NEW r \in Request, NEW t \in TokenId, LoginSucceed(r, t)
        PROVE  user'[u].password = user[u].password
    BY <2>1 DEF LoginSucceed, TypeInv, TypeOK, UserRow
  <2>2. ASSUME NEW r \in Request, LoginFail(r)
        PROVE  user'[u].password = user[u].password
    BY <2>2 DEF LoginFail, TypeInv, TypeOK, UserRow
  <2> QED
    BY <2>1, <2>2
       DEF Next, vars, storeVars, LoginRead, RefreshRead, RefreshCommit, ValidateRead, ClaimGrace,
           AuditGrace, LogoutRead, LogoutCommit, ForgotPassword, ResetRead, Drop, Tick
<1>2. u = req[r].user
  BY <1>1 DEF ResetCommit, TypeInv, TypeOK
<1>3. ASSUME NEW x \in issued, rt'[x].owner = u
      PROVE  rt'[x].revocationReason # None
  <2>1. x \in TokenId /\ rt[x] \in TokenRow
    BY DEF TypeInv, TypeOK
  <2>2. rt[x].owner = u
    BY <1>1, <1>3, <2>1 DEF ResetCommit, TokenRow
  <2>3. CASE Revoked(x)
    BY <2>3, RevocationStays
  <2>4. CASE ~Revoked(x)
    <3>1. rt'[x] = [rt[x] EXCEPT !.revocationReason = "PASSWORD_RESET", !.revokedAt = now]
      BY <1>1, <1>2, <2>1, <2>2, <2>4 DEF ResetCommit, ResetRevokes, Live
    <3> QED
      BY <2>1, <3>1, ConstantsAssumption DEF TokenRow, Reason
  <2> QED
    BY <2>3, <2>4
<1> QED
  BY <1>1, <1>3 DEF ResetCommit

LEMMA EscapeStep == TypeInv /\ EscapeInv /\ [Next]_vars => EscapeInv'
<1> SUFFICES ASSUME TypeInv, EscapeInv, [Next]_vars PROVE EscapeInv'
  OBVIOUS
<1>1. /\ \A c \in issued : c \in issued' /\ pwdAtLogin'[c] = pwdAtLogin[c]
      /\ escaped \subseteq escaped'
  <2>1. ASSUME NEW r \in Request, NEW t \in TokenId, LoginSucceed(r, t) \/ RefreshCommit(r, t)
        PROVE  /\ \A c \in issued : c \in issued' /\ pwdAtLogin'[c] = pwdAtLogin[c]
               /\ escaped \subseteq escaped'
    BY <2>1 DEF LoginSucceed, RefreshCommit, Mint, TypeInv, TypeOK
  <2> QED
    BY <2>1, MintedBy
<1>2. ASSUME NEW s \in Request, At(s, "rotate")',
             pwdAtLogin'[req'[s].token] < req'[s].password
      PROVE  req'[s].token \in escaped'
  <2>1. CASE At(s, "rotate") /\ req'[s] = req[s]
    <3>1. req[s].token \in issued
      BY <2>1 DEF At, TypeInv, HandlerOK
    <3> QED
      BY <1>1, <1>2, <2>1, <3>1 DEF EscapeInv
  <2>2. ASSUME NEW t \in TokenId, RefreshRead(s, t)
        PROVE  req'[s].token \in escaped'
    <3>1. /\ req'[s].token = t /\ req'[s].password = user[rt[t].owner].password
          /\ Live(t) /\ t \in issued /\ UNCHANGED <<pwdAtLogin, escaped>>
      BY <2>2 DEF RefreshRead, Live, historyVars, Idle, TypeInv, TypeOK
    <3> QED
      BY <1>2, <3>1 DEF EscapeInv, OnlyOverlappedSurviveReset
  <2> QED
    BY <1>2, <2>1, <2>2, RotatingSince
<1>3. ASSUME NEW x \in issued', rt'[x].revocationReason = None,
             pwdAtLogin'[x] < user'[rt'[x].owner].password
      PROVE  x \in escaped'
  <2>1. CASE x \in issued
    <3>1. rt[x].revocationReason = None /\ rt'[x].owner = rt[x].owner /\ rt[x].owner \in User
      BY <1>3, <2>1, LiveSince DEF TypeInv, OwnedOK
    <3>2. user'[rt[x].owner].password = user[rt[x].owner].password
      BY <1>3, <2>1, <3>1, PasswordStep
    <3> QED
      BY <1>1, <1>3, <2>1, <3>1, <3>2 DEF EscapeInv, OnlyOverlappedSurviveReset, Live, Revoked
  <2>2. CASE x \notin issued
    <3>1. ASSUME NEW r \in Request, NEW t \in TokenId, LoginSucceed(r, t)
          PROVE  x \in escaped'
      <4>1. x = t /\ x \in TokenId /\ req[r].user \in User
        BY <1>3, <2>2, <3>1 DEF LoginSucceed, Mint, At, TypeInv, TypeOK, HandlerOK
      <4>2. pwdAtLogin'[x] = req[r].password
        BY <3>1, <4>1 DEF LoginSucceed, Mint, TypeInv, TypeOK
      <4>3. rt'[x].owner = req[r].user
        BY <3>1, <4>1, NewTokenRowType DEF LoginSucceed, TypeInv, TypeOK
      <4>4. user'[req[r].user].password = user[req[r].user].password
        BY <3>1, <4>1 DEF LoginSucceed, TypeInv, TypeOK, UserRow
      <4>5. req[r].password # user[req[r].user].password
        BY <1>3, <4>1, <4>2, <4>3, <4>4 DEF TypeInv, TypeOK, Handler, UserRow
      <4> QED
        BY <3>1, <4>1, <4>5 DEF LoginSucceed, Mint
    <3>2. ASSUME NEW r \in Request, NEW n \in TokenId, RefreshCommit(r, n)
          PROVE  x \in escaped'
      <4>1. /\ x = n /\ x \in TokenId /\ req[r].user \in User
            /\ req[r].token \in issued /\ x # req[r].token
        BY <1>3, <2>2, <3>2 DEF RefreshCommit, Mint, At, TypeInv, TypeOK, HandlerOK
      <4>2. pwdAtLogin'[x] = pwdAtLogin[req[r].token]
        BY <3>2, <4>1 DEF RefreshCommit, Mint, TypeInv, TypeOK
      <4>3. rt'[x].owner = req[r].user
        <5>1. rt'[x] = NewTokenRow(req[r].user)
          BY <3>2, <4>1 DEF RefreshCommit, TypeInv, TypeOK
        <5> QED
          BY <4>1, <5>1, NewTokenRowType DEF TypeInv
      <4>4. pwdAtLogin[req[r].token] < user[req[r].user].password
        BY <1>3, <3>2, <4>2, <4>3 DEF RefreshCommit
      <4>5. req[r].password # user[req[r].user].password \/ req[r].token \in escaped
        BY <3>2, <4>4 DEF RefreshCommit, EscapeInv
      <4> QED
        BY <3>2, <4>1, <4>5 DEF RefreshCommit, Mint
    <3> QED
      BY <1>3, <2>2, <3>1, <3>2, MintedBy
  <2> QED
    BY <2>1, <2>2
<1>4. OnlyOverlappedSurviveReset'
  BY <1>3 DEF OnlyOverlappedSurviveReset, Live, Revoked
<1> QED
  BY <1>2, <1>4 DEF EscapeInv

(* A live session older than its account's password was created by a        *)
(* handler the reset overlapped, or descends from such a session.           *)
THEOREM ResetSurvivorsOverlapped == Spec => []OnlyOverlappedSurviveReset
<1>1. Spec => []TypeInv
  BY InitType, TypeStep, PTL DEF Spec
<1>2. Spec => []EscapeInv
  BY <1>1, InitEscape, EscapeStep, PTL DEF Spec
<1> QED
  BY <1>2, PTL DEF EscapeInv

-----------------------------------------------------------------------------
(* Reset links.                                                             *)

(* A reset link that can still be used was issued for the password the      *)
(* account has now.                                                         *)
OpenLinksAreCurrent ==
  \A l \in ResetLink :
    link[l].owner # None /\ ~link[l].used
      => pwdAtIssue[l] = user[link[l].owner].password

(* A handler about to reset a password read its link while it was open, and *)
(* the link was for the password the handler read with it.                  *)
ReadLinksWereCurrent ==
  \A r \in Request : At(r, "reset") =>
    /\ link[req[r].link].owner = req[r].user
    /\ pwdAtIssue[req[r].link] = req[r].password

LEMMA InitLinks == Init => OpenLinksAreCurrent
BY DEF Init, NoLinkRow, OpenLinksAreCurrent

LEMMA LinksStep == TypeInv /\ OpenLinksAreCurrent /\ [Next]_vars => OpenLinksAreCurrent'
<1> SUFFICES ASSUME TypeInv, OpenLinksAreCurrent, [Next]_vars PROVE OpenLinksAreCurrent'
  OBVIOUS
<1> DEFINE Kept == \A u \in User : user'[u].password = user[u].password
<1>1. ASSUME NEW u \in User, NEW l \in ResetLink, ForgotPassword(u, l)
      PROVE  OpenLinksAreCurrent'
  <2>1. /\ UNCHANGED user
        /\ link'[l].owner = u /\ pwdAtIssue'[l] = user[u].password
    BY <1>1 DEF ForgotPassword, TypeInv, TypeOK
  <2>2. \A k \in ResetLink \ {l} : link'[k] = link[k] /\ pwdAtIssue'[k] = pwdAtIssue[k]
    BY <1>1 DEF ForgotPassword, TypeInv, TypeOK
  <2> QED
    BY <2>1, <2>2 DEF OpenLinksAreCurrent
<1>2. ASSUME NEW r \in Request, ResetCommit(r)
      PROVE  OpenLinksAreCurrent'
  <2> SUFFICES ASSUME NEW k \in ResetLink, link'[k].owner # None, ~link'[k].used
               PROVE  pwdAtIssue'[k] = user'[link'[k].owner].password
    BY DEF OpenLinksAreCurrent
  <2>1. ~UsedUp(k, req[r].link, req[r].user) /\ link'[k] = link[k]
    BY <1>2 DEF ResetCommit, TypeInv, TypeOK, LinkRow
  <2>2. link[k].owner # req[r].user
    BY <2>1 DEF UsedUp
  <2>3. link[k].owner \in User
    BY <2>1 DEF TypeInv, OwnedOK
  <2>4. user'[link[k].owner] = user[link[k].owner] /\ UNCHANGED pwdAtIssue
    BY <1>2, <2>2, <2>3 DEF ResetCommit, TypeInv, TypeOK
  <2> QED
    BY <2>1, <2>4 DEF OpenLinksAreCurrent
<1>3. CASE UNCHANGED <<link, pwdAtIssue>> /\ Kept
  BY <1>3 DEF OpenLinksAreCurrent, TypeInv, OwnedOK
<1>4. ASSUME NEW r \in Request, NEW t \in TokenId, LoginSucceed(r, t)
      PROVE  UNCHANGED <<link, pwdAtIssue>> /\ Kept
  BY <1>4 DEF LoginSucceed, TypeInv, TypeOK, UserRow
<1>5. ASSUME NEW r \in Request, LoginFail(r)
      PROVE  UNCHANGED <<link, pwdAtIssue>> /\ Kept
  BY <1>5 DEF LoginFail, TypeInv, TypeOK, UserRow
<1>6. CASE UNCHANGED <<link, pwdAtIssue, user>>
  BY <1>3, <1>6
<1> QED
  BY <1>1, <1>2, <1>3, <1>4, <1>5, <1>6
     DEF Next, vars, storeVars, historyVars, LoginRead, RefreshRead, RefreshCommit, ValidateRead,
         ClaimGrace, AuditGrace, LogoutRead, LogoutCommit, ResetRead, Drop, Tick

LEMMA InitReadLinks == Init => ReadLinksWereCurrent
BY DEF Init, Idle, At, ReadLinksWereCurrent

LEMMA ReadLinksStep ==
  TypeInv /\ OpenLinksAreCurrent /\ ReadLinksWereCurrent /\ [Next]_vars => ReadLinksWereCurrent'
<1> SUFFICES ASSUME TypeInv, OpenLinksAreCurrent, ReadLinksWereCurrent, [Next]_vars
             PROVE  ReadLinksWereCurrent'
  OBVIOUS
<1> DEFINE Undisturbed == /\ \A l \in ResetLink : link[l].owner # None =>
                               link'[l].owner = link[l].owner /\ pwdAtIssue'[l] = pwdAtIssue[l]
                          /\ \A r \in Request : At(r, "reset")' => At(r, "reset") /\ req'[r] = req[r]
<1>1. ASSUME Undisturbed PROVE ReadLinksWereCurrent'
  <2> SUFFICES ASSUME NEW r \in Request, At(r, "reset")'
               PROVE  /\ link'[req'[r].link].owner = req'[r].user
                      /\ pwdAtIssue'[req'[r].link] = req'[r].password
    BY DEF ReadLinksWereCurrent
  <2>1. At(r, "reset") /\ req'[r] = req[r]
    BY <1>1
  <2>2. req[r].link \in ResetLink /\ req[r].user \in User
    BY <2>1 DEF At, TypeInv, HandlerOK
  <2>3. link[req[r].link].owner = req[r].user /\ pwdAtIssue[req[r].link] = req[r].password
    BY <2>1 DEF ReadLinksWereCurrent
  <2>4. req[r].user # None
    BY <2>2, ConstantsAssumption
  <2> QED
    BY <1>1, <2>1, <2>2, <2>3, <2>4
<1>2. ASSUME NEW r \in Request, NEW l \in ResetLink, ResetRead(r, l)
      PROVE  ReadLinksWereCurrent'
  <2>1. /\ req'[r].link = l /\ req'[r].user = link[l].owner
        /\ req'[r].password = user[link[l].owner].password
        /\ \A q \in Request \ {r} : req'[q] = req[q]
    BY <1>2 DEF ResetRead, Idle, TypeInv, TypeOK
  <2>2. pwdAtIssue[l] = user[link[l].owner].password
    BY <1>2 DEF ResetRead, OpenLinksAreCurrent
  <2>3. UNCHANGED <<link, pwdAtIssue>>
    BY <1>2 DEF ResetRead, storeVars, historyVars
  <2> QED
    BY <2>1, <2>2, <2>3 DEF ReadLinksWereCurrent, At
<1>3. ASSUME NEW u \in User, NEW l \in ResetLink, ForgotPassword(u, l)
      PROVE  Undisturbed
  BY <1>3 DEF ForgotPassword, At, TypeInv, TypeOK
<1>4. ASSUME NEW r \in Request, ResetCommit(r)
      PROVE  Undisturbed
  <2>1. \A l \in ResetLink : link'[l].owner = link[l].owner
    BY <1>4 DEF ResetCommit, TypeInv, TypeOK, LinkRow
  <2>2. req' = [req EXCEPT ![r] = Idle] /\ UNCHANGED pwdAtIssue
    BY <1>4 DEF ResetCommit, Finish
  <2> QED
    BY <2>1, <2>2 DEF At, Idle, TypeInv, TypeOK
<1>5. ASSUME UNCHANGED <<link, pwdAtIssue>>,
             NEW r \in Request, NEW h, h.pc # "reset", req' = [req EXCEPT ![r] = h]
      PROVE  Undisturbed
  BY <1>5 DEF At, TypeInv, TypeOK
<1>6. CASE UNCHANGED <<link, pwdAtIssue, req>>
  BY <1>1, <1>6 DEF At
<1>7. ASSUME NEW r \in Request,
             \/ \E u \in User, correct \in BOOLEAN : LoginRead(r, u, correct)
             \/ \E t \in TokenId : \/ LoginSucceed(r, t) \/ RefreshRead(r, t)
                                   \/ RefreshCommit(r, t) \/ ValidateRead(r, t)
                                   \/ LogoutRead(r, t)
             \/ LoginFail(r) \/ ClaimGrace(r) \/ AuditGrace(r) \/ LogoutCommit(r) \/ Drop(r)
      PROVE  Undisturbed
  <2>1. UNCHANGED <<link, pwdAtIssue>>
    BY <1>7 DEF storeVars, historyVars, LoginRead, LoginSucceed, LoginFail, RefreshRead,
                RefreshCommit, ValidateRead, ClaimGrace, AuditGrace, LogoutRead, LogoutCommit, Drop
  <2>2. \E h : h.pc # "reset" /\ req' = [req EXCEPT ![r] = h]
    <3>1. CASE \E u \in User, correct \in BOOLEAN : LoginRead(r, u, correct)
      BY <3>1 DEF LoginRead, Idle
    <3>2. CASE \E t \in TokenId : RefreshRead(r, t)
      BY <3>2 DEF RefreshRead, Idle
    <3>3. CASE \E t \in TokenId : ValidateRead(r, t)
      BY <3>3 DEF ValidateRead, Idle
    <3>4. CASE \E t \in TokenId : LogoutRead(r, t)
      BY <3>4 DEF LogoutRead, Idle
    <3>5. CASE Finish(r)
      BY <3>5 DEF Finish, Idle
    <3>6. CASE req' = [req EXCEPT ![r].pc = "auditGrace"]
      BY <3>6 DEF TypeInv, TypeOK, Handler
    <3> QED
      BY <1>7, <3>1, <3>2, <3>3, <3>4, <3>5, <3>6
         DEF LoginSucceed, LoginFail, RefreshCommit, ClaimGrace, AuditGrace, LogoutCommit, Drop
  <2> QED
    BY <1>5, <2>1, <2>2
<1> QED
  BY <1>1, <1>2, <1>3, <1>4, <1>6, <1>7 DEF Next, vars, storeVars, historyVars, Tick

(* A password is replaced through the link of an older password only by a   *)
(* handler that had read its link before another reset committed.           *)
THEOREM OldLinksNeedOverlap == Spec => OnlyOverlappedUseOldLinks
<1>1. Spec => []TypeInv
  BY InitType, TypeStep, PTL DEF Spec
<1>2. Spec => [](OpenLinksAreCurrent /\ ReadLinksWereCurrent)
  BY <1>1, InitLinks, LinksStep, InitReadLinks, ReadLinksStep, PTL DEF Spec
<1>3. ReadLinksWereCurrent =>
        [\A r \in Request : ResetCommit(r) =>
           LET u == req[r].user
           IN  \/ pwdAtIssue[req[r].link] = user[u].password
               \/ req[r].password # user[u].password]_vars
  BY DEF ReadLinksWereCurrent, ResetCommit
<1> QED
  BY <1>2, <1>3, PTL DEF OnlyOverlappedUseOldLinks
=============================================================================
