------------------------- MODULE AuthRefinementProofs -------------------------
(***************************************************************************)
(* How AuthSessions implements its two abstract specifications, whatever   *)
(* the accounts, tokens and links.                                         *)
(*                                                                         *)
(* With one handler slot, and although a handler may be dropped between    *)
(* any two of its steps, a logout is final, a reset ends every session,    *)
(* and the store implements SessionLineage.  While a handler is under way  *)
(* nothing but the clock and new reset links move, so that the token it is *)
(* about to revoke is still live and the password it has read is still the *)
(* account's (StillTrue).                                                  *)
(*                                                                         *)
(* With any number of slots it implements SessionGrants, which needs less: *)
(* that a handler holds the owner of its token (HandlerOK) and that a row  *)
(* not yet created is blank (Unborn).                                      *)
(***************************************************************************)
EXTENDS AuthSessionsProofs

OneSlot == \A r, s \in Request : r = s

(* What a handler has read still holds. *)
StillTrue ==
  \A r \in Request :
    /\ req[r].pc \in {"rotate", "logout"} => Live(req[r].token)
    /\ At(r, "loginSucceed") => req[r].password = user[req[r].user].password

(* A token without a row descends from nothing and names nothing. *)
Unborn == \A t \in TokenId \ issued : parent[t] = None /\ rt[t].replacedBy = None

SerialInv ==
  /\ StillTrue
  /\ Unborn
  /\ LogoutIsFinal
  /\ ResetEndsSessions

Acting == {"rotate", "logout", "loginSucceed"}

-----------------------------------------------------------------------------
(* A handler that is about to write has just read, or has waited alone.     *)
LEMMA Alone ==
  ASSUME OneSlot, TypeInv, [Next]_vars, NEW s \in Request, req'[s].pc \in Acting
  PROVE  \/ req'[s] = req[s] /\ UNCHANGED <<user, issued, rt>>
         \/ \E t \in TokenId : RefreshRead(s, t) \/ LogoutRead(s, t)
         \/ \E u \in User : LoginRead(s, u, TRUE)
<1>1. \A r \in Request : r = s
  BY DEF OneSlot
<1>2. ~Finish(s)
  BY DEF Finish, Idle, Acting, TypeInv, TypeOK
<1>3. ASSUME NEW u \in User, LoginRead(s, u, FALSE)
      PROVE  FALSE
  BY <1>3 DEF LoginRead, Idle, Acting, TypeInv, TypeOK
<1>4. ASSUME NEW t \in TokenId, ValidateRead(s, t)
      PROVE  FALSE
  BY <1>4 DEF ValidateRead, Idle, Acting, TypeInv, TypeOK
<1>5. ASSUME NEW l \in ResetLink, ResetRead(s, l)
      PROVE  FALSE
  BY <1>5 DEF ResetRead, Idle, Acting, TypeInv, TypeOK
<1>6. ASSUME ClaimGrace(s)
      PROVE  FALSE
  <2>1. req' = [req EXCEPT ![s].pc = "auditGrace"]
    BY <1>2, <1>6 DEF ClaimGrace
  <2>2. req'[s].pc = "auditGrace"
    BY <2>1 DEF TypeInv, TypeOK, Handler
  <2> QED
    BY <2>2 DEF Acting
<1>7. ~AuditGrace(s) /\ ~LogoutCommit(s) /\ ~ResetCommit(s) /\ ~Drop(s) /\ ~LoginFail(s)
  BY <1>2 DEF AuditGrace, LogoutCommit, ResetCommit, Drop, LoginFail
<1>8. \A t \in TokenId : ~LoginSucceed(s, t) /\ ~RefreshCommit(s, t)
  BY <1>2 DEF LoginSucceed, RefreshCommit
<1>9. \/ \E t \in TokenId : RefreshRead(s, t) \/ LogoutRead(s, t)
      \/ \E u \in User : LoginRead(s, u, TRUE)
      \/ \E u \in User, l \in ResetLink : ForgotPassword(u, l)
      \/ Tick \/ UNCHANGED vars
  BY <1>1, <1>3, <1>4, <1>5, <1>6, <1>7, <1>8 DEF Next
<1> QED
  BY <1>9 DEF ForgotPassword, Tick, vars, storeVars

LEMMA StillTrueStep == OneSlot /\ TypeInv /\ StillTrue /\ [Next]_vars => StillTrue'
<1> SUFFICES ASSUME OneSlot, TypeInv, StillTrue, [Next]_vars, NEW s \in Request
             PROVE  /\ req'[s].pc \in {"rotate", "logout"} =>
                         req'[s].token \in issued' /\ rt'[req'[s].token].revocationReason = None
                    /\ At(s, "loginSucceed")' => req'[s].password = user'[req'[s].user].password
  BY DEF StillTrue, Live, Revoked
<1>1. CASE req'[s] = req[s] /\ UNCHANGED <<user, issued, rt>>
  BY <1>1 DEF StillTrue, Live, Revoked, At
<1>2. ASSUME NEW t \in TokenId, RefreshRead(s, t) \/ LogoutRead(s, t)
      PROVE  /\ req'[s].pc \in {"rotate", "logout"} /\ req'[s].token = t
             /\ t \in issued' /\ rt'[t].revocationReason = None
  <2>1. Live(t) /\ UNCHANGED <<issued, rt>>
    BY <1>2 DEF RefreshRead, LogoutRead, storeVars
  <2>2. req \in [Request -> Handler]
    BY DEF TypeInv, TypeOK
  <2>3. req'[s].pc \in {"rotate", "logout"} /\ req'[s].token = t
    <3>1. CASE RefreshRead(s, t)
      BY <2>2, <3>1 DEF RefreshRead, Idle
    <3>2. CASE LogoutRead(s, t)
      BY <2>2, <3>2 DEF LogoutRead, Idle
    <3> QED
      BY <1>2, <3>1, <3>2
  <2> QED
    BY <2>1, <2>3 DEF Live, Revoked
<1>3. ASSUME NEW u \in User, LoginRead(s, u, TRUE)
      PROVE  /\ req'[s].pc \in {"loginSucceed", "loginFail"}
             /\ req'[s].password = user'[req'[s].user].password
  BY <1>3 DEF LoginRead, Idle, storeVars, TypeInv, TypeOK
<1> QED
  BY <1>1, <1>2, <1>3, Alone DEF Acting, At

LEMMA UnbornStep == TypeInv /\ Unborn /\ [Next]_vars => Unborn'
<1> SUFFICES ASSUME TypeInv, Unborn, [Next]_vars, NEW x \in TokenId \ issued'
             PROVE  parent'[x] = None /\ rt'[x].replacedBy = None
  BY DEF Unborn
<1>1. ASSUME NEW r \in Request, NEW t \in TokenId, LoginSucceed(r, t) \/ RefreshCommit(r, t)
      PROVE  parent'[x] = None /\ issued \subseteq issued'
  BY <1>1 DEF LoginSucceed, RefreshCommit, Mint, Unborn, TypeInv, TypeOK
<1>2. parent'[x] = None /\ x \notin issued /\ issued \subseteq issued'
  BY <1>1, MintedBy DEF Unborn
<1>3. ASSUME NEW r \in Request, NEW n \in TokenId, RefreshCommit(r, n)
      PROVE  x # req[r].token
  BY <1>2, <1>3 DEF RefreshCommit, At, TypeInv, HandlerOK
<1>4. ASSUME NEW r \in Request, At(r, "claimGrace")
      PROVE  x # req[r].token
  BY <1>2, <1>4 DEF At, TypeInv, HandlerOK
<1>5. rt'[x].replacedBy = rt[x].replacedBy
  BY <1>3, <1>4, RowStep
<1> QED
  BY <1>2, <1>5 DEF Unborn

-----------------------------------------------------------------------------
(* Logout.                                                                  *)

LEMMA LoggedOutBy ==
  ASSUME [Next]_vars
  PROVE  (\E r \in Request : LogoutCommit(r)) \/ UNCHANGED loggedOut
BY DEF Next, vars, historyVars, LoginRead, LoginSucceed, LoginFail, RefreshRead, RefreshCommit,
       ValidateRead, ClaimGrace, AuditGrace, LogoutRead, ForgotPassword, ResetRead, ResetCommit,
       Drop, Tick

(* A row whose reason is LOGOUT keeps it: the one handler there is would    *)
(* not rotate it.                                                           *)
LEMMA LogoutStays ==
  ASSUME TypeInv, StillTrue, [Next]_vars, NEW x \in issued, rt[x].revocationReason = "LOGOUT"
  PROVE  rt'[x].revocationReason = "LOGOUT"
<1> USE ConstantsAssumption
<1>1. x \in TokenId /\ rt[x] \in TokenRow /\ Revoked(x)
  BY DEF TypeInv, TypeOK, Revoked, Reason
<1>2. ASSUME NEW r \in Request, NEW t \in TokenId, LoginSucceed(r, t)
      PROVE  rt'[x] = rt[x]
  BY <1>1, <1>2 DEF LoginSucceed, TypeInv, TypeOK
<1>3. ASSUME NEW r \in Request, NEW n \in TokenId, RefreshCommit(r, n)
      PROVE  rt'[x] = rt[x]
  <2>1. x # n /\ x # req[r].token
    BY <1>1, <1>3 DEF RefreshCommit, StillTrue, Live, At
  <2> QED
    BY <1>1, <1>3, <2>1 DEF RefreshCommit, TypeInv, TypeOK
<1>4. ASSUME NEW r \in Request, ClaimGrace(r)
      PROVE  rt'[x] = rt[x]
  <2>1. ~GraceClaimable(x)
    BY DEF GraceClaimable, InGrace
  <2> QED
    BY <1>1, <1>4, <2>1 DEF ClaimGrace, TypeInv, TypeOK
<1>5. ASSUME NEW r \in Request, LogoutCommit(r)
      PROVE  rt'[x].revocationReason = "LOGOUT"
  <2>1. rt'[x] = rt[x] \/ rt'[x] = LoggedOut(rt[x])
    BY <1>1, <1>5 DEF LogoutCommit, TypeInv, TypeOK
  <2> QED
    BY <1>1, <2>1 DEF LoggedOut, TokenRow
<1>6. ASSUME NEW r \in Request, ResetCommit(r)
      PROVE  rt'[x] = rt[x]
  BY <1>1, <1>6 DEF ResetCommit, ResetRevokes, Live
<1>7. \/ UNCHANGED rt
      \/ \E r \in Request, n \in TokenId : LoginSucceed(r, n) \/ RefreshCommit(r, n)
      \/ \E r \in Request : ClaimGrace(r) \/ LogoutCommit(r) \/ ResetCommit(r)
  BY DEF Next, vars, storeVars, LoginRead, LoginFail, RefreshRead, ValidateRead, AuditGrace,
         LogoutRead, ForgotPassword, ResetRead, Drop, Tick
<1> QED
  BY <1>2, <1>3, <1>4, <1>5, <1>6, <1>7

LEMMA LogoutStep ==
  TypeInv /\ StillTrue /\ LogoutIsFinal /\ [Next]_vars => LogoutIsFinal'
<1> SUFFICES ASSUME TypeInv, StillTrue, LogoutIsFinal, [Next]_vars, NEW x \in loggedOut'
             PROVE  rt'[x].revocationReason = "LOGOUT"
  BY DEF LogoutIsFinal
<1>1. CASE x \in loggedOut
  BY <1>1, LogoutStays DEF LogoutIsFinal, TypeInv, TypeOK
<1>2. CASE x \notin loggedOut
  <2>1. PICK r \in Request : LogoutCommit(r)
    BY <1>2, LoggedOutBy
  <2>2. x = req[r].token /\ x \in TokenId
    BY <1>2, <2>1 DEF LogoutCommit, At, TypeInv, TypeOK, HandlerOK
  <2>3. rt'[x] = LoggedOut(rt[x]) /\ rt[x] \in TokenRow
    BY <2>1, <2>2 DEF LogoutCommit, TypeInv, TypeOK
  <2> QED
    BY <2>3 DEF LoggedOut, TokenRow
<1> QED
  BY <1>1, <1>2

-----------------------------------------------------------------------------
(* Reset.                                                                   *)

LEMMA ResetStep ==
  TypeInv /\ StillTrue /\ ResetEndsSessions /\ [Next]_vars => ResetEndsSessions'
<1> SUFFICES ASSUME TypeInv, StillTrue, ResetEndsSessions, [Next]_vars,
                    NEW x \in issued', rt'[x].revocationReason = None
             PROVE  pwdAtLogin'[x] = user'[rt'[x].owner].password
  BY DEF ResetEndsSessions, Live, Revoked
<1>1. CASE x \in issued
  <2>1. rt[x].revocationReason = None /\ rt'[x].owner = rt[x].owner /\ rt[x].owner \in User
    BY <1>1, LiveSince DEF TypeInv, OwnedOK
  <2>2. user'[rt[x].owner].password = user[rt[x].owner].password
    BY <1>1, <2>1, PasswordStep
  <2>3. pwdAtLogin'[x] = pwdAtLogin[x]
    <3>1. ASSUME NEW r \in Request, NEW t \in TokenId, LoginSucceed(r, t) \/ RefreshCommit(r, t)
          PROVE  pwdAtLogin'[x] = pwdAtLogin[x]
      BY <1>1, <3>1 DEF LoginSucceed, RefreshCommit, Mint, TypeInv, TypeOK
    <3> QED
      BY <3>1, MintedBy
  <2> QED
    BY <1>1, <2>1, <2>2, <2>3 DEF ResetEndsSessions, Live, Revoked
<1>2. CASE x \notin issued
  <2>1. ASSUME NEW r \in Request, NEW t \in TokenId, LoginSucceed(r, t)
        PROVE  pwdAtLogin'[x] = user'[rt'[x].owner].password
    <3>1. x = t /\ x \in TokenId /\ req[r].user \in User
      BY <1>2, <2>1 DEF LoginSucceed, Mint, At, TypeInv, TypeOK, HandlerOK
    <3>2. pwdAtLogin'[x] = req[r].password
      BY <2>1, <3>1 DEF LoginSucceed, Mint, TypeInv, TypeOK
    <3>3. rt'[x].owner = req[r].user
      BY <2>1, <3>1, NewTokenRowType DEF LoginSucceed, TypeInv, TypeOK
    <3>4. user'[req[r].user].password = user[req[r].user].password
      BY <2>1, <3>1 DEF LoginSucceed, TypeInv, TypeOK, UserRow
    <3> QED
      BY <2>1, <3>2, <3>3, <3>4 DEF LoginSucceed, StillTrue
  <2>2. ASSUME NEW r \in Request, NEW n \in TokenId, RefreshCommit(r, n)
        PROVE  pwdAtLogin'[x] = user'[rt'[x].owner].password
    <3>1. /\ x = n /\ x \in TokenId /\ req[r].user \in User
          /\ req[r].token \in issued /\ x # req[r].token /\ req[r].user = rt[req[r].token].owner
      BY <1>2, <2>2 DEF RefreshCommit, Mint, At, TypeInv, TypeOK, HandlerOK
    <3>2. pwdAtLogin'[x] = pwdAtLogin[req[r].token] /\ UNCHANGED user
      BY <2>2, <3>1 DEF RefreshCommit, Mint, TypeInv, TypeOK
    <3>3. rt'[x] = NewTokenRow(req[r].user)
      BY <2>2, <3>1 DEF RefreshCommit, TypeInv, TypeOK
    <3>4. rt'[x].owner = req[r].user
      BY <3>1, <3>3, NewTokenRowType DEF TypeInv
    <3>5. Live(req[r].token)
      BY <2>2 DEF RefreshCommit, At, StillTrue
    <3> QED
      BY <3>1, <3>2, <3>4, <3>5 DEF ResetEndsSessions
  <2> QED
    BY <1>2, <2>1, <2>2, MintedBy
<1> QED
  BY <1>1, <1>2

LEMMA InitSerial == Init => SerialInv
BY DEF Init, SerialInv, StillTrue, Unborn, LogoutIsFinal, ResetEndsSessions, At, Idle, NoTokenRow

LEMMA SerialInductive == ASSUME OneSlot PROVE Spec => [](TypeInv /\ SerialInv)
<1>1. Init => TypeInv /\ SerialInv
  BY InitType, InitSerial
<1>2. TypeInv /\ SerialInv /\ [Next]_vars => (TypeInv /\ SerialInv)'
  BY TypeStep, StillTrueStep, UnbornStep, LogoutStep, ResetStep DEF SerialInv
<1> QED
  BY <1>1, <1>2, PTL DEF Spec

(* Where handlers do not overlap, a token ended by a logout stays so: no    *)
(* rotation turns its reason into one that earns it the rotation grace.     *)
THEOREM SerialLogoutIsFinal ==
  ASSUME \A r, s \in Request : r = s
  PROVE  Spec => []LogoutIsFinal
<1>1. Spec => [](TypeInv /\ SerialInv)
  BY SerialInductive DEF OneSlot
<1> QED
  BY <1>1, PTL DEF SerialInv

(* Where handlers do not overlap, a password reset ends every session of    *)
(* the account.                                                             *)
THEOREM SerialResetEndsSessions ==
  ASSUME \A r, s \in Request : r = s
  PROVE  Spec => []ResetEndsSessions
<1>1. Spec => [](TypeInv /\ SerialInv)
  BY SerialInductive DEF OneSlot
<1> QED
  BY <1>1, PTL DEF SerialInv

-----------------------------------------------------------------------------
(* The refinement of SessionLineage.                                        *)

Working == {t \in issued : ~Revoked(t)}
Spent   == {t \in issued : Revoked(t)}
Owners  == [t \in TokenId |-> rt[t].owner]

(* What rows the mapping cannot tell apart. *)
LEMMA SameCredentials ==
  ASSUME UNCHANGED <<issued, parent>>,
         TypeInv,
         \A t \in TokenId : /\ rt'[t].owner = rt[t].owner
                            /\ t \in issued => (rt'[t].revocationReason # None
                                                  <=> rt[t].revocationReason # None)
  PROVE  UNCHANGED Lineage!vars
<1>1. Owners' = Owners
  BY DEF Owners
<1>2. Working' = Working /\ Spent' = Spent
  BY DEF Working, Spent, Revoked, TypeInv, TypeOK
<1> QED
  BY <1>1, <1>2 DEF Lineage!vars, Owners, Working, Spent

LEMMA OpenRefines ==
  ASSUME TypeInv, Unborn, NEW r \in Request, NEW t \in TokenId, LoginSucceed(r, t)
  PROVE  Lineage!Next
<1> DEFINE u == req[r].user
<1> USE ConstantsAssumption
<1>1. u \in User /\ t \notin issued /\ issued' = issued \cup {t}
  BY DEF LoginSucceed, Mint, At, TypeInv, HandlerOK
<1>2. /\ rt'[t].owner = u /\ rt'[t].revocationReason = None
      /\ \A x \in TokenId \ {t} : rt'[x] = rt[x]
  <2>1. NewTokenRow(u).owner = u /\ NewTokenRow(u).revocationReason = None
    BY DEF NewTokenRow, NoTokenRow
  <2> QED
    BY <2>1 DEF LoginSucceed, TypeInv, TypeOK
<1>3. parent' = parent
  <2>1. parent[t] = None
    BY <1>1 DEF Unborn
  <2> QED
    BY <2>1 DEF LoginSucceed, Mint, TypeInv, TypeOK
<1>4. Working' = Working \cup {t} /\ Spent' = Spent
  BY <1>1, <1>2 DEF Working, Spent, Revoked, TypeInv, TypeOK
<1>5. Owners' = [Owners EXCEPT ![t] = u]
  BY <1>2 DEF Owners
<1>6. t \in TokenId \ (Working \cup Spent)
  BY <1>1 DEF Working, Spent
<1>7. Lineage!Open(u, t)
  BY <1>3, <1>4, <1>5, <1>6 DEF Lineage!Open, Lineage!Fresh, Working, Spent, Owners
<1> QED
  BY <1>1, <1>7 DEF Lineage!Next

LEMMA RotateRefines ==
  ASSUME TypeInv, StillTrue, NEW r \in Request, NEW n \in TokenId, RefreshCommit(r, n)
  PROVE  Lineage!Next
<1> DEFINE t == req[r].token
           u == req[r].user
<1> USE ConstantsAssumption
<1>1. /\ u \in User /\ t \in issued /\ t \in TokenId /\ u = rt[t].owner
      /\ n \notin issued /\ issued' = issued \cup {n} /\ n # t
      /\ Live(t)
  BY DEF RefreshCommit, Mint, At, TypeInv, TypeOK, HandlerOK, StillTrue
<1>2. /\ rt'[n] = NewTokenRow(u) /\ rt'[t] = Rotated(rt[t], n)
      /\ \A x \in TokenId \ {n, t} : rt'[x] = rt[x]
  BY <1>1 DEF RefreshCommit, TypeInv, TypeOK
<1>3. NewTokenRow(u).owner = u /\ NewTokenRow(u).revocationReason = None
  BY DEF NewTokenRow, NoTokenRow
<1>4. Rotated(rt[t], n).owner = u /\ Rotated(rt[t], n).revocationReason = "ROTATED"
  <2>1. rt[t] \in TokenRow
    BY <1>1 DEF TypeInv, TypeOK
  <2> QED
    BY <1>1, <2>1 DEF Rotated, TokenRow
<1>5. None # "ROTATED"
  BY DEF Reason
<1>6. Working' = (Working \ {t}) \cup {n} /\ Spent' = Spent \cup {t}
  BY <1>1, <1>2, <1>3, <1>4, <1>5 DEF Working, Spent, Revoked, TypeInv, TypeOK
<1>7. Owners' = [Owners EXCEPT ![n] = Owners[t]]
  BY <1>1, <1>2, <1>3, <1>4 DEF Owners
<1>8. parent' = [parent EXCEPT ![n] = t]
  BY DEF RefreshCommit, Mint
<1>9. n \in TokenId \ (Working \cup Spent) /\ t \in Working
  BY <1>1 DEF Working, Spent, Live
<1> HIDE DEF t, u
<1>10. Lineage!Rotate(t, n)
  BY <1>6, <1>7, <1>8, <1>9 DEF Lineage!Rotate, Lineage!Fresh, Working, Spent, Owners
<1> QED
  BY <1>1, <1>10 DEF Lineage!Next

LEMMA CloseRefines ==
  ASSUME TypeInv, StillTrue, NEW r \in Request, LogoutCommit(r)
  PROVE  Lineage!Next
<1> DEFINE t == req[r].token
<1> USE ConstantsAssumption
<1>1. t \in issued /\ t \in TokenId /\ Live(t) /\ UNCHANGED <<issued, parent>>
  BY DEF LogoutCommit, At, TypeInv, TypeOK, HandlerOK, StillTrue
<1>2. rt'[t] = LoggedOut(rt[t]) /\ \A x \in TokenId \ {t} : rt'[x] = rt[x]
  BY <1>1 DEF LogoutCommit, TypeInv, TypeOK
<1>3. LoggedOut(rt[t]).owner = rt[t].owner /\ LoggedOut(rt[t]).revocationReason = "LOGOUT"
  <2>1. rt[t] \in TokenRow
    BY <1>1 DEF TypeInv, TypeOK
  <2> QED
    BY <2>1 DEF LoggedOut, TokenRow
<1>4. None # "LOGOUT"
  BY DEF Reason
<1>5. Working' = Working \ {t} /\ Spent' = Spent \cup {t}
  BY <1>1, <1>2, <1>3, <1>4 DEF Working, Spent, Revoked, TypeInv, TypeOK
<1>6. Owners' = Owners
  BY <1>2, <1>3 DEF Owners
<1>7. t \in Working
  BY <1>1 DEF Working, Live
<1> HIDE DEF t
<1>8. Lineage!Close(t)
  BY <1>1, <1>5, <1>6, <1>7 DEF Lineage!Close, Working, Spent, Owners
<1> QED
  BY <1>1, <1>8 DEF Lineage!Next

LEMMA CloseAllRefines ==
  ASSUME TypeInv, NEW r \in Request, ResetCommit(r)
  PROVE  Lineage!Next
<1> DEFINE u == req[r].user
           closed == {c \in Working : Owners[c] = u}
<1> USE ConstantsAssumption
<1>1. u \in User /\ UNCHANGED <<issued, parent>>
  BY DEF ResetCommit, At, TypeInv, HandlerOK
<1>2. \A t \in TokenId : t \in closed <=> ResetRevokes(t, u)
  BY DEF ResetRevokes, Working, Owners, Live, TypeInv, TypeOK
<1>3. ASSUME NEW t \in TokenId
      PROVE  rt'[t] = IF t \in closed
               THEN [rt[t] EXCEPT !.revocationReason = "PASSWORD_RESET", !.revokedAt = now]
               ELSE rt[t]
  BY <1>2 DEF ResetCommit
<1>4. ASSUME NEW t \in TokenId
      PROVE  /\ rt'[t].owner = rt[t].owner
             /\ rt'[t].revocationReason = IF t \in closed THEN "PASSWORD_RESET"
                                                          ELSE rt[t].revocationReason
  <2>1. rt[t] \in TokenRow
    BY DEF TypeInv, TypeOK
  <2> HIDE DEF closed
  <2> QED
    BY <1>3, <2>1 DEF TokenRow
<1>5. None # "PASSWORD_RESET"
  BY DEF Reason
<1>6. closed \subseteq Working
  OBVIOUS
<1>7. Owners' = Owners
  BY <1>4 DEF Owners
<1>8. Working' = Working \ closed /\ Spent' = Spent \cup closed
  <2> HIDE DEF closed
  <2>1. \A t \in issued : Revoked(t)' <=> (Revoked(t) \/ t \in closed)
    BY <1>4, <1>5 DEF Revoked, TypeInv, TypeOK
  <2> QED
    BY <1>1, <1>6, <2>1 DEF Working, Spent
<1> HIDE DEF u
<1>9. Lineage!CloseAll(u)
  BY <1>1, <1>7, <1>8 DEF Lineage!CloseAll, Working, Spent, Owners
<1> QED
  BY <1>1, <1>9 DEF Lineage!Next

LEMMA LineageInit == Init => Lineage!Init
<1> SUFFICES ASSUME Init PROVE Lineage!Init
  OBVIOUS
<1>1. Owners = [c \in TokenId |-> None]
  BY DEF Init, Owners, NoTokenRow
<1>2. Working = {} /\ Spent = {}
  BY DEF Init, Working, Spent
<1> QED
  BY <1>1, <1>2 DEF Init, Lineage!Init, Working, Spent, Owners

LEMMA LineageRefines ==
  TypeInv /\ SerialInv /\ [Next]_vars => [Lineage!Next]_Lineage!vars
<1> SUFFICES ASSUME TypeInv, SerialInv, [Next]_vars
             PROVE  Lineage!Next \/ UNCHANGED Lineage!vars
  OBVIOUS
<1>1. ASSUME NEW r \in Request, ClaimGrace(r)
      PROVE  UNCHANGED Lineage!vars
  <2>1. \A x \in TokenId : /\ rt'[x].owner = rt[x].owner
                           /\ rt'[x].revocationReason = rt[x].revocationReason
    BY <1>1 DEF ClaimGrace, TypeInv, TypeOK, TokenRow
  <2>2. UNCHANGED <<issued, parent>>
    BY <1>1 DEF ClaimGrace, historyVars
  <2> QED
    BY <2>1, <2>2, SameCredentials
<1>2. CASE UNCHANGED <<rt, issued, parent>>
  BY <1>2, SameCredentials
<1> QED
  BY <1>1, <1>2, OpenRefines, RotateRefines, CloseRefines, CloseAllRefines
     DEF SerialInv, Next, vars, storeVars, historyVars, LoginRead, LoginFail, RefreshRead,
         ValidateRead, AuditGrace, LogoutRead, ForgotPassword, ResetRead, Drop, Tick

(* Where handlers do not overlap, and although any of them may be dropped   *)
(* between two of its steps, the token store implements SessionLineage: a   *)
(* session is carried by one credential at a time.                          *)
THEOREM SerialStoreImplementsLineage ==
  ASSUME \A r, s \in Request : r = s
  PROVE  Spec => ImplementsLineage
<1>1. Spec => [](TypeInv /\ SerialInv)
  BY SerialInductive DEF OneSlot
<1> QED
  BY <1>1, LineageInit, LineageRefines, PTL DEF Spec, ImplementsLineage, Lineage!Spec

-----------------------------------------------------------------------------
(* The refinement of SessionGrants.                                         *)

Fates == [t \in TokenId |-> Fate(t)]
Heirs == [t \in TokenId |-> rt[t].replacedBy]
Askers == [r \in Request |-> Asked(r)]

LEMMA GrantsVars ==
  ASSUME UNCHANGED <<Fates, Owners, parent, Heirs, Askers>>
  PROVE  UNCHANGED Grants!vars
BY DEF Grants!vars, Fates, Owners, Heirs, Askers

(* A handler that ends asks for nothing any more, the others still do. *)
LEMMA AskersFinish ==
  ASSUME TypeInv, NEW r \in Request, Finish(r)
  PROVE  Askers' = [Askers EXCEPT ![r] = None]
BY DEF Finish, Idle, Askers, Asked, TypeInv, TypeOK

(* What a handler that neither rotates nor logs out does to who asks.       *)
LEMMA AskersRest ==
  ASSUME TypeInv, NEW r \in Request, NEW h, req' = [req EXCEPT ![r] = h],
         req[r].pc \notin {"rotate", "logout"}, h.pc \notin {"rotate", "logout"}
  PROVE  Askers' = Askers
BY DEF Askers, Asked, TypeInv, TypeOK

(* A row whose owner, reason and successor stay, of a token that is issued  *)
(* or not as before, looks the same.                                        *)
LEMMA SameRows ==
  ASSUME UNCHANGED issued,
         \A t \in TokenId : /\ rt'[t].owner = rt[t].owner
                            /\ rt'[t].revocationReason = rt[t].revocationReason
                            /\ rt'[t].replacedBy = rt[t].replacedBy
  PROVE  UNCHANGED <<Fates, Owners, Heirs>>
BY DEF Fates, Fate, Revoked, Owners, Heirs

LEMMA OpenGrants ==
  ASSUME TypeInv, Unborn, NEW r \in Request, NEW t \in TokenId, LoginSucceed(r, t)
  PROVE  Grants!Next
<1> DEFINE u == req[r].user
<1> USE ConstantsAssumption
<1>1. u \in User /\ t \notin issued /\ issued' = issued \cup {t}
  BY DEF LoginSucceed, Mint, At, TypeInv, HandlerOK
<1>2. /\ rt'[t].owner = u /\ rt'[t].revocationReason = None /\ rt'[t].replacedBy = None
      /\ \A x \in TokenId \ {t} : rt'[x] = rt[x]
  <2>1. /\ NewTokenRow(u).owner = u /\ NewTokenRow(u).revocationReason = None
        /\ NewTokenRow(u).replacedBy = None
    BY DEF NewTokenRow, NoTokenRow
  <2> QED
    BY <2>1 DEF LoginSucceed, TypeInv, TypeOK
<1>3. parent' = parent /\ Heirs' = Heirs
  <2>1. parent[t] = None /\ rt[t].replacedBy = None
    BY <1>1 DEF Unborn
  <2>2. parent' = parent
    BY <2>1 DEF LoginSucceed, Mint, TypeInv, TypeOK
  <2>3. Heirs' = Heirs
    BY <1>2, <2>1 DEF Heirs
  <2> QED
    BY <2>2, <2>3
<1>4. Fates[t] = "UNUSED" /\ Fates' = [Fates EXCEPT ![t] = "WORKING"]
  BY <1>1, <1>2 DEF Fates, Fate, Revoked
<1>5. Owners' = [Owners EXCEPT ![t] = u]
  BY <1>2 DEF Owners
<1>6. Askers' = Askers
  BY AskersRest DEF LoginSucceed, Finish, Idle, At
<1>7. Grants!Open(u, t)
  BY <1>3, <1>4, <1>5, <1>6 DEF Grants!Open, Fates, Owners, Heirs, Askers
<1> QED
  BY <1>1, <1>7 DEF Grants!Next

LEMMA AskGrants ==
  ASSUME TypeInv, NEW r \in Request, NEW t \in TokenId, RefreshRead(r, t) \/ LogoutRead(r, t)
  PROVE  Grants!Next
<1> USE ConstantsAssumption
<1>1. Live(t) /\ At(r, "idle") /\ UNCHANGED <<issued, rt, parent>>
  BY DEF RefreshRead, LogoutRead, Calls, storeVars, historyVars
<1>2. /\ req'[r].pc \in {"rotate", "logout"} /\ req'[r].token = t
      /\ \A s \in Request \ {r} : req'[s] = req[s]
  <2>1. req \in [Request -> Handler]
    BY DEF TypeInv, TypeOK
  <2>2. CASE RefreshRead(r, t)
    BY <2>1, <2>2 DEF RefreshRead, Idle
  <2>3. CASE LogoutRead(r, t)
    BY <2>1, <2>3 DEF LogoutRead, Idle
  <2> QED
    BY <2>2, <2>3
<1>3. Askers[r] = None /\ Askers' = [Askers EXCEPT ![r] = t]
  BY <1>1, <1>2 DEF Askers, Asked, At
<1>4. Fates[t] = "WORKING"
  BY <1>1 DEF Fates, Fate, Live
<1>5. UNCHANGED <<Fates, Owners, Heirs>>
  BY <1>1, SameRows
<1>6. Grants!Ask(r, t)
  BY <1>1, <1>3, <1>4, <1>5 DEF Grants!Ask, Fates, Owners, Heirs, Askers
<1> QED
  BY <1>6 DEF Grants!Next

LEMMA ExchangeGrants ==
  ASSUME TypeInv, Unborn, NEW r \in Request, NEW n \in TokenId, RefreshCommit(r, n)
  PROVE  Grants!Next
<1> DEFINE t == req[r].token
           u == req[r].user
<1> USE ConstantsAssumption
<1>1. /\ u \in User /\ t \in issued /\ t \in TokenId /\ u = rt[t].owner
      /\ n \notin issued /\ issued' = issued \cup {n} /\ n # t
  BY DEF RefreshCommit, Mint, At, TypeInv, TypeOK, HandlerOK
<1>2. /\ rt'[n] = NewTokenRow(u) /\ rt'[t] = Rotated(rt[t], n)
      /\ \A x \in TokenId \ {n, t} : rt'[x] = rt[x]
  BY <1>1 DEF RefreshCommit, TypeInv, TypeOK
<1>3. /\ NewTokenRow(u).owner = u /\ NewTokenRow(u).revocationReason = None
      /\ NewTokenRow(u).replacedBy = None
  BY DEF NewTokenRow, NoTokenRow
<1>4. /\ Rotated(rt[t], n).owner = u /\ Rotated(rt[t], n).revocationReason = "ROTATED"
      /\ Rotated(rt[t], n).replacedBy = n
  <2>1. rt[t] \in TokenRow
    BY <1>1 DEF TypeInv, TypeOK
  <2> QED
    BY <1>1, <2>1 DEF Rotated, TokenRow
<1>5. None # "ROTATED"
  BY DEF Reason
<1>6. Fates[n] = "UNUSED" /\ Fates' = [Fates EXCEPT ![t] = "ROTATED", ![n] = "WORKING"]
  BY <1>1, <1>2, <1>3, <1>4, <1>5 DEF Fates, Fate, Revoked
<1>7. Owners' = [Owners EXCEPT ![n] = Owners[t]]
  BY <1>1, <1>2, <1>3, <1>4 DEF Owners
<1>8. parent' = [parent EXCEPT ![n] = t]
  BY DEF RefreshCommit, Mint
<1>9. Heirs' = [Heirs EXCEPT ![t] = n]
  <2>1. rt[n].replacedBy = None
    BY <1>1 DEF Unborn
  <2> QED
    BY <1>1, <1>2, <1>3, <1>4, <2>1 DEF Heirs
<1>10. Askers[r] = t /\ t # None /\ Askers' = [Askers EXCEPT ![r] = None]
  BY <1>1, AskersFinish DEF RefreshCommit, At, Askers, Asked
<1> HIDE DEF t, u
<1>11. Grants!Exchange(r, n)
  BY <1>6, <1>7, <1>8, <1>9, <1>10 DEF Grants!Exchange, Fates, Owners, Heirs, Askers
<1> QED
  BY <1>11 DEF Grants!Next

LEMMA CloseGrants ==
  ASSUME TypeInv, NEW r \in Request, LogoutCommit(r)
  PROVE  Grants!Next
<1> DEFINE t == req[r].token
<1> USE ConstantsAssumption
<1>1. t \in issued /\ t \in TokenId /\ UNCHANGED <<issued, parent>>
  BY DEF LogoutCommit, At, TypeInv, TypeOK, HandlerOK
<1>2. rt'[t] = LoggedOut(rt[t]) /\ \A x \in TokenId \ {t} : rt'[x] = rt[x]
  BY <1>1 DEF LogoutCommit, TypeInv, TypeOK
<1>3. /\ LoggedOut(rt[t]).owner = rt[t].owner /\ LoggedOut(rt[t]).revocationReason = "LOGOUT"
      /\ LoggedOut(rt[t]).replacedBy = rt[t].replacedBy
  <2>1. rt[t] \in TokenRow
    BY <1>1 DEF TypeInv, TypeOK
  <2> QED
    BY <2>1 DEF LoggedOut, TokenRow
<1>4. None # "LOGOUT"
  BY DEF Reason
<1>5. Fates' = [Fates EXCEPT ![t] = "LOGOUT"]
  BY <1>1, <1>2, <1>3, <1>4 DEF Fates, Fate, Revoked
<1>6. UNCHANGED <<Owners, Heirs>>
  BY <1>2, <1>3 DEF Owners, Heirs
<1>7. Askers[r] = t /\ t # None /\ Askers' = [Askers EXCEPT ![r] = None]
  BY <1>1, AskersFinish DEF LogoutCommit, At, Askers, Asked
<1> HIDE DEF t
<1>8. Grants!Close(r)
  BY <1>1, <1>5, <1>6, <1>7 DEF Grants!Close, Fates, Owners, Heirs, Askers
<1> QED
  BY <1>8 DEF Grants!Next

LEMMA CloseAllGrants ==
  ASSUME TypeInv, NEW r \in Request, ResetCommit(r)
  PROVE  Grants!Next
<1> DEFINE u == req[r].user
<1> USE ConstantsAssumption
<1>1. u \in User /\ UNCHANGED <<issued, parent>>
  BY DEF ResetCommit, At, TypeInv, HandlerOK
<1>2. None # "PASSWORD_RESET"
  BY DEF Reason
<1>3. ASSUME NEW t \in TokenId
      PROVE  /\ rt'[t].owner = rt[t].owner /\ rt'[t].replacedBy = rt[t].replacedBy
             /\ rt'[t].revocationReason = IF ResetRevokes(t, u) THEN "PASSWORD_RESET"
                                                               ELSE rt[t].revocationReason
  <2>1. rt[t] \in TokenRow
    BY DEF TypeInv, TypeOK
  <2>2. rt'[t] = IF ResetRevokes(t, u)
          THEN [rt[t] EXCEPT !.revocationReason = "PASSWORD_RESET", !.revokedAt = now]
          ELSE rt[t]
    BY DEF ResetCommit
  <2> QED
    BY <2>1, <2>2 DEF TokenRow
<1>4. ASSUME NEW t \in TokenId
      PROVE  ResetRevokes(t, u) <=> Fates[t] = "WORKING" /\ Owners[t] = u
  <2>1. Revoked(t) => rt[t].revocationReason # "WORKING"
    BY DEF Revoked, TypeInv, TypeOK, TokenRow, Reason
  <2> QED
    BY <2>1 DEF ResetRevokes, Live, Fates, Fate, Revoked, Owners
<1>5. Fates' = [t \in TokenId |->
         IF Fates[t] = "WORKING" /\ Owners[t] = u THEN "PASSWORD_RESET" ELSE Fates[t]]
  <2>1. ASSUME NEW t \in TokenId
        PROVE  Fate(t)' = IF Fates[t] = "WORKING" /\ Owners[t] = u THEN "PASSWORD_RESET"
                                                                   ELSE Fates[t]
    <3>1. CASE ResetRevokes(t, u)
      BY <1>1, <1>2, <1>3, <1>4, <3>1 DEF Fate, Revoked, ResetRevokes, Live
    <3>2. CASE ~ResetRevokes(t, u)
      BY <1>1, <1>3, <1>4, <3>2 DEF Fates, Fate, Revoked
    <3> QED
      BY <3>1, <3>2
  <2> QED
    BY <2>1 DEF Fates
<1>6. UNCHANGED <<Owners, Heirs>>
  BY <1>3 DEF Owners, Heirs
<1>7. Askers' = Askers
  BY AskersRest DEF ResetCommit, Finish, Idle, At
<1> HIDE DEF u
<1>8. Grants!CloseAll(u)
  BY <1>1, <1>5, <1>6, <1>7 DEF Grants!CloseAll, Fates, Owners, Heirs, Askers
<1> QED
  BY <1>1, <1>8 DEF Grants!Next

(* A handler is dropped, and asks for nothing any more. *)
LEMMA DropGrants ==
  ASSUME TypeInv, NEW r \in Request, Drop(r)
  PROVE  Grants!Next
<1>1. UNCHANGED <<Fates, Owners, Heirs, parent>>
  BY SameRows DEF Drop, storeVars, historyVars
<1>2. Askers' = [Askers EXCEPT ![r] = None]
  BY AskersFinish DEF Drop
<1>3. Grants!Withdraw(r)
  BY <1>1, <1>2 DEF Grants!Withdraw, Fates, Owners, Heirs, Askers
<1> QED
  BY <1>3 DEF Grants!Next

(* The other handlers only read, count, or write what nobody asks about. *)
LEMMA QuietGrants ==
  ASSUME TypeInv, NEW r \in Request,
         \/ \E u \in User, correct \in BOOLEAN : LoginRead(r, u, correct)
         \/ LoginFail(r) \/ ClaimGrace(r) \/ AuditGrace(r)
         \/ \E t \in TokenId : ValidateRead(r, t)
         \/ \E l \in ResetLink : ResetRead(r, l)
  PROVE  UNCHANGED Grants!vars
<1>1. UNCHANGED <<issued, parent>>
  BY DEF LoginRead, LoginFail, ClaimGrace, AuditGrace, ValidateRead, ResetRead, storeVars,
         historyVars
<1>2. \A t \in TokenId : /\ rt'[t].owner = rt[t].owner
                         /\ rt'[t].revocationReason = rt[t].revocationReason
                         /\ rt'[t].replacedBy = rt[t].replacedBy
  <2>1. CASE ClaimGrace(r)
    BY <2>1 DEF ClaimGrace, TypeInv, TypeOK, TokenRow
  <2>2. CASE ~ClaimGrace(r)
    <3>1. rt' = rt
      BY <2>2 DEF LoginRead, LoginFail, AuditGrace, ValidateRead, ResetRead, storeVars
    <3> QED
      BY <3>1
  <2> QED
    BY <2>1, <2>2
<1>3. PICK h : /\ req' = [req EXCEPT ![r] = h]
               /\ req[r].pc \notin {"rotate", "logout"} /\ h.pc \notin {"rotate", "logout"}
  <2>1. ASSUME NEW u \in User, NEW correct \in BOOLEAN, LoginRead(r, u, correct)
        PROVE  \E h : /\ req' = [req EXCEPT ![r] = h]
                      /\ req[r].pc \notin {"rotate", "logout"}
                      /\ h.pc \notin {"rotate", "logout"}
    <3>1. WITNESS [Idle EXCEPT !.pc = IF correct /\ u \in Eligible THEN "loginSucceed"
                                                                  ELSE "loginFail",
                               !.user = u, !.password = user[u].password,
                               !.lockRanOut = user[u].lockedUntil # 0]
    <3> QED
      BY <2>1 DEF LoginRead, Calls, At, Idle
  <2>2. ASSUME LoginFail(r) \/ AuditGrace(r) \/ (ClaimGrace(r) /\ ~GraceClaimable(req[r].token))
        PROVE  /\ req' = [req EXCEPT ![r] = Idle] /\ Idle.pc = "idle"
               /\ req[r].pc \notin {"rotate", "logout"}
    BY <2>2 DEF LoginFail, AuditGrace, ClaimGrace, Finish, At, Idle
  <2>3. ASSUME ClaimGrace(r), GraceClaimable(req[r].token)
        PROVE  /\ req' = [req EXCEPT ![r] = [req[r] EXCEPT !.pc = "auditGrace"]]
               /\ [req[r] EXCEPT !.pc = "auditGrace"].pc = "auditGrace"
               /\ req[r].pc \notin {"rotate", "logout"}
    BY <2>3 DEF ClaimGrace, At, TypeInv, TypeOK, Handler
  <2>4. ASSUME NEW t \in TokenId, ValidateRead(r, t)
        PROVE  /\ req' = [req EXCEPT ![r] = [Idle EXCEPT !.pc = "claimGrace", !.token = t]]
               /\ [Idle EXCEPT !.pc = "claimGrace", !.token = t].pc = "claimGrace"
               /\ req[r].pc \notin {"rotate", "logout"}
    BY <2>4 DEF ValidateRead, Calls, At, Idle
  <2>5. ASSUME NEW l \in ResetLink, ResetRead(r, l)
        PROVE  /\ req' = [req EXCEPT ![r] =
                    [Idle EXCEPT !.pc = "reset", !.link = l, !.user = link[l].owner,
                                 !.password = user[link[l].owner].password]]
               /\ [Idle EXCEPT !.pc = "reset", !.link = l, !.user = link[l].owner,
                               !.password = user[link[l].owner].password].pc = "reset"
               /\ req[r].pc \notin {"rotate", "logout"}
    BY <2>5 DEF ResetRead, Calls, At, Idle
  <2> QED
    BY <2>1, <2>2, <2>3, <2>4, <2>5
<1>4. Askers' = Askers
  BY <1>3, AskersRest
<1> QED
  BY <1>1, <1>2, <1>4, SameRows, GrantsVars

LEMMA GrantsInit == Init => Grants!Init
<1> SUFFICES ASSUME Init PROVE Grants!Init
  OBVIOUS
<1>1. Fates = [t \in TokenId |-> "UNUSED"]
  BY DEF Init, Fates, Fate
<1>2. Owners = [t \in TokenId |-> None] /\ Heirs = [t \in TokenId |-> None]
  BY DEF Init, Owners, Heirs, NoTokenRow
<1>3. Askers = [r \in Request |-> None]
  BY DEF Init, Askers, Asked, Idle
<1> QED
  BY <1>1, <1>2, <1>3 DEF Init, Grants!Init, Fates, Owners, Heirs, Askers

LEMMA GrantsRefine == TypeInv /\ Unborn /\ [Next]_vars => [Grants!Next]_Grants!vars
<1> SUFFICES ASSUME TypeInv, Unborn, [Next]_vars
             PROVE  Grants!Next \/ UNCHANGED Grants!vars
  OBVIOUS
<1>1. ASSUME UNCHANGED <<issued, rt, parent, req>>
      PROVE  UNCHANGED Grants!vars
  <2>1. Askers' = Askers
    BY <1>1 DEF Askers, Asked
  <2> QED
    BY <1>1, <2>1, SameRows, GrantsVars
<1>2. \/ UNCHANGED <<issued, rt, parent, req>>
      \/ \E r \in Request :
           \/ \E t \in TokenId : \/ LoginSucceed(r, t) \/ RefreshCommit(r, t)
                               \/ RefreshRead(r, t) \/ LogoutRead(r, t)
           \/ LogoutCommit(r) \/ ResetCommit(r) \/ Drop(r)
           \/ \E u \in User, correct \in BOOLEAN : LoginRead(r, u, correct)
           \/ LoginFail(r) \/ ClaimGrace(r) \/ AuditGrace(r)
           \/ \E t \in TokenId : ValidateRead(r, t)
           \/ \E l \in ResetLink : ResetRead(r, l)
  BY DEF Next, vars, storeVars, historyVars, ForgotPassword, Tick
<1> QED
  BY <1>1, <1>2, OpenGrants, AskGrants, ExchangeGrants, CloseGrants, CloseAllGrants, DropGrants,
     QuietGrants

(* However many handlers overlap, and although any of them may be dropped,  *)
(* the token store implements SessionGrants: a handler ends only what was   *)
(* live when it asked and makes its successor for the same account, and no  *)
(* credential works a second time.                                          *)
THEOREM StoreImplementsGrants == Spec => ImplementsGrants
<1>1. Init => Unborn
  BY DEF Init, Unborn, NoTokenRow
<1>2. Spec => [](TypeInv /\ Unborn)
  BY <1>1, InitType, TypeStep, UnbornStep, PTL DEF Spec
<1> QED
  BY <1>2, GrantsInit, GrantsRefine, PTL DEF Spec, ImplementsGrants, Grants!Spec
=============================================================================
