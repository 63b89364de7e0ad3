-------------------------- MODULE AuthCountingProofs --------------------------
(***************************************************************************)
(* The promises of AuthSessions that count handlers in flight, for any     *)
(* finite number of slots: grace uses stay within the cap, each audit row  *)
(* stands for a claim of its own, and wrong guesses stay within their      *)
(* budget however many logins overlap.                                     *)
(*                                                                         *)
(* Both invariants count a set of handlers that one step changes by one    *)
(* member at most, and move the counter beside it the other way.           *)
(***************************************************************************)
EXTENDS AuthSessionsProofs, FiniteSetTheorems

(* A set of handlers and what one step may do to its size. *)
LEMMA Counted ==
  ASSUME IsFiniteSet(Request), NEW S \in SUBSET Request
  PROVE  IsFiniteSet(S) /\ Cardinality(S) \in Nat /\ Cardinality(S) <= Cardinality(Request)
BY FS_Subset, FS_CardinalityType

LEMMA Fewer ==
  ASSUME IsFiniteSet(Request), NEW S \in SUBSET Request, NEW T \in SUBSET S
  PROVE  Cardinality(T) <= Cardinality(S)
BY Counted, FS_Subset

LEMMA OneMore ==
  ASSUME IsFiniteSet(Request), NEW S \in SUBSET Request, NEW r \in Request, r \notin S
  PROVE  Cardinality(S \cup {r}) = Cardinality(S) + 1
BY Counted, FS_AddElement

LEMMA OneLess ==
  ASSUME IsFiniteSet(Request), NEW S \in SUBSET Request, NEW r \in S
  PROVE  Cardinality(S \ {r}) = Cardinality(S) - 1
BY Counted, FS_RemoveElement

-----------------------------------------------------------------------------
(* The rotation grace.                                                      *)

(* A token without a row has no audit row either. *)
GraceCounts ==
  /\ GraceIsBoundedAndAudited
  /\ \A t \in TokenId \ issued : audited[t] = 0

(* Handlers that have claimed a grace and not yet written its audit row:    *)
(* one step of one handler adds or removes it.                              *)
LEMMA AuditingStep ==
  ASSUME TypeInv, [Next]_vars, NEW t \in TokenId
  PROVE  \/ /\ Auditing(t)' \subseteq Auditing(t)
            /\ audited'[t] = audited[t]
         \/ \E r \in Request : /\ ClaimGrace(r) /\ req[r].token = t /\ GraceClaimable(t)
                               /\ r \notin Auditing(t) /\ Auditing(t)' = Auditing(t) \cup {r}
                               /\ audited'[t] = audited[t]
         \/ \E r \in Auditing(t) : /\ AuditGrace(r)
                                   /\ Auditing(t)' = Auditing(t) \ {r}
                                   /\ audited'[t] = audited[t] + 1
<1>1. ASSUME NEW r \in Request,
             \A s \in Request : req'[s] = req[s] \/ req'[s].pc # "auditGrace"
      PROVE  Auditing(t)' \subseteq Auditing(t)
  BY <1>1 DEF Auditing, At
<1>2. ASSUME NEW r \in Request, Finish(r)
      PROVE  \A s \in Request : req'[s] = req[s] \/ req'[s].pc # "auditGrace"
  BY <1>2 DEF Finish, Idle, TypeInv, TypeOK
<1>3. ASSUME NEW r \in Request, ClaimGrace(r), GraceClaimable(req[r].token)
      PROVE  \/ /\ Auditing(t)' \subseteq Auditing(t)
                /\ audited'[t] = audited[t]
             \/ /\ req[r].token = t /\ GraceClaimable(t)
                /\ r \notin Auditing(t) /\ Auditing(t)' = Auditing(t) \cup {r}
                /\ audited'[t] = audited[t]
  <2>1. req' = [req EXCEPT ![r].pc = "auditGrace"] /\ UNCHANGED audited /\ req[r].pc = "claimGrace"
    BY <1>3 DEF ClaimGrace, At
  <2>2. /\ req'[r].pc = "auditGrace" /\ req'[r].token = req[r].token
        /\ \A s \in Request \ {r} : req'[s] = req[s]
    BY <2>1 DEF TypeInv, TypeOK, Handler
  <2>3. CASE req[r].token = t
    <3>1. r \notin Auditing(t) /\ Auditing(t)' = Auditing(t) \cup {r}
      BY <2>1, <2>2, <2>3 DEF Auditing, At
    <3> QED
      BY <1>3, <2>1, <2>3, <3>1
  <2>4. CASE req[r].token # t
    BY <2>1, <2>2, <2>4 DEF Auditing, At
  <2> QED
    BY <2>3, <2>4
<1>4. ASSUME NEW r \in Request, ClaimGrace(r), ~GraceClaimable(req[r].token)
      PROVE  Auditing(t)' \subseteq Auditing(t) /\ audited'[t] = audited[t]
  <2>1. Finish(r) /\ UNCHANGED audited
    BY <1>4 DEF ClaimGrace
  <2> QED
    BY <1>1, <1>2, <2>1
<1>5. ASSUME NEW r \in Request, AuditGrace(r)
      PROVE  \/ /\ Auditing(t)' \subseteq Auditing(t)
                /\ audited'[t] = audited[t]
             \/ /\ r \in Auditing(t) /\ Auditing(t)' = Auditing(t) \ {r}
                /\ audited'[t] = audited[t] + 1
  <2>1. /\ req'[r].pc = "idle" /\ req[r].pc = "auditGrace"
        /\ \A s \in Request \ {r} : req'[s] = req[s]
    BY <1>5 DEF AuditGrace, At, Finish, Idle, TypeInv, TypeOK
  <2>2. CASE req[r].token = t
    <3>1. audited'[t] = audited[t] + 1
      BY <1>5, <2>2 DEF AuditGrace, TypeInv, TypeOK
    <3>2. r \in Auditing(t) /\ Auditing(t)' = Auditing(t) \ {r}
      BY <2>1, <2>2 DEF Auditing, At
    <3> QED
      BY <3>1, <3>2
  <2>3. CASE req[r].token # t
    <3>1. audited'[t] = audited[t]
      BY <1>5, <2>3 DEF AuditGrace, TypeInv, TypeOK
    <3>2. Auditing(t)' \subseteq Auditing(t)
      BY <2>1 DEF Auditing, At
    <3> QED
      BY <3>1, <3>2
  <2> QED
    BY <2>2, <2>3
<1>6. ASSUME NEW r \in Request, NEW u \in User, NEW correct \in BOOLEAN, LoginRead(r, u, correct)
      PROVE  \A s \in Request : req'[s] = req[s] \/ req'[s].pc # "auditGrace"
  BY <1>6 DEF LoginRead, Idle, TypeInv, TypeOK
<1>7. ASSUME NEW r \in Request, NEW x \in TokenId,
             RefreshRead(r, x) \/ ValidateRead(r, x) \/ LogoutRead(r, x)
      PROVE  \A s \in Request : req'[s] = req[s] \/ req'[s].pc # "auditGrace"
  BY <1>7 DEF RefreshRead, ValidateRead, LogoutRead, Idle, TypeInv, TypeOK
<1>8. ASSUME NEW r \in Request, NEW l \in ResetLink, ResetRead(r, l)
      PROVE  \A s \in Request : req'[s] = req[s] \/ req'[s].pc # "auditGrace"
  BY <1>8 DEF ResetRead, Idle, TypeInv, TypeOK
<1>9. CASE UNCHANGED audited /\ UNCHANGED req
  BY <1>9 DEF Auditing, At
<1>10. ASSUME NEW r \in Request, Finish(r), UNCHANGED audited
       PROVE  Auditing(t)' \subseteq Auditing(t) /\ audited'[t] = audited[t]
  BY <1>1, <1>2, <1>10
<1>11. \/ UNCHANGED audited /\ UNCHANGED req
       \/ \E r \in Request : \/ ClaimGrace(r) \/ AuditGrace(r)
                             \/ Finish(r) /\ UNCHANGED audited
       \/ \E r \in Request, u \in User, correct \in BOOLEAN : LoginRead(r, u, correct)
       \/ \E r \in Request, x \in TokenId :
            RefreshRead(r, x) \/ ValidateRead(r, x) \/ LogoutRead(r, x)
       \/ \E r \in Request, l \in ResetLink : ResetRead(r, l)
  BY DEF Next, vars, storeVars, LoginSucceed, LoginFail, RefreshCommit, LogoutCommit,
         ForgotPassword, ResetCommit, Drop, Tick
<1>12. ASSUME NEW r \in Request, NEW u \in User, NEW correct \in BOOLEAN, LoginRead(r, u, correct)
       PROVE  Auditing(t)' \subseteq Auditing(t) /\ audited'[t] = audited[t]
  BY <1>1, <1>6, <1>12 DEF LoginRead, storeVars
<1>13. ASSUME NEW r \in Request, NEW x \in TokenId,
              RefreshRead(r, x) \/ ValidateRead(r, x) \/ LogoutRead(r, x)
       PROVE  Auditing(t)' \subseteq Auditing(t) /\ audited'[t] = audited[t]
  BY <1>1, <1>7, <1>13 DEF RefreshRead, ValidateRead, LogoutRead, storeVars
<1>14. ASSUME NEW r \in Request, NEW l \in ResetLink, ResetRead(r, l)
       PROVE  Auditing(t)' \subseteq Auditing(t) /\ audited'[t] = audited[t]
  BY <1>1, <1>8, <1>14 DEF ResetRead, storeVars
<1> QED
  BY <1>3, <1>4, <1>5, <1>9, <1>10, <1>11, <1>12, <1>13, <1>14

LEMMA AuditingIsAudited ==
  ASSUME TypeInv, NEW t \in TokenId
  PROVE  /\ Auditing(t) \subseteq Request
         /\ t \notin issued => Auditing(t) = {}
BY DEF Auditing, At, TypeInv, HandlerOK

(* The count of grace uses of a row only grows, within the cap, once the    *)
(* row is there.                                                            *)
LEMMA GraceUseStep ==
  ASSUME TypeInv, [Next]_vars, NEW t \in TokenId, rt[t].graceUseCount <= RotationGraceMaxUses
  PROVE  /\ rt[t].graceUseCount \in Nat /\ rt'[t].graceUseCount \in Nat
         /\ rt'[t].graceUseCount <= RotationGraceMaxUses
         /\ rt'[t].graceUseCount >= rt[t].graceUseCount \/ t \notin issued
<1> USE ConstantsAssumption
<1>1. rt[t] \in TokenRow /\ rt[t].graceUseCount \in Nat
  BY DEF TypeInv, TypeOK, TokenRow
<1>2. ASSUME NEW r \in Request, NEW n \in TokenId, rt'[t] = Rotated(rt[t], n)
      PROVE  rt'[t].graceUseCount = rt[t].graceUseCount
  BY <1>1, <1>2 DEF Rotated, TokenRow
<1>3. ASSUME GraceClaimable(t), rt'[t] = [rt[t] EXCEPT !.graceUseCount = @ + 1]
      PROVE  /\ rt'[t].graceUseCount = rt[t].graceUseCount + 1
             /\ rt[t].graceUseCount < RotationGraceMaxUses
  BY <1>1, <1>3 DEF GraceClaimable, TokenRow
<1>4. \/ rt'[t].graceUseCount = rt[t].graceUseCount
      \/ t \notin issued /\ rt'[t].graceUseCount = 0
      \/ /\ rt'[t].graceUseCount = rt[t].graceUseCount + 1
         /\ rt[t].graceUseCount < RotationGraceMaxUses
  BY <1>2, <1>3, RowStep
<1> QED
  BY <1>1, <1>4

LEMMA GraceCountsStep ==
  ASSUME IsFiniteSet(Request), TypeInv, GraceCounts, [Next]_vars
  PROVE  GraceCounts'
<1> USE ConstantsAssumption
<1>1. issued \subseteq issued'
  BY SuccessorsStay
<1>2. ASSUME NEW t \in TokenId
      PROVE  /\ audited'[t] + Cardinality(Auditing(t)') <= rt'[t].graceUseCount
             /\ rt'[t].graceUseCount <= RotationGraceMaxUses
  <2>1. /\ rt[t].graceUseCount <= RotationGraceMaxUses
        /\ audited[t] + Cardinality(Auditing(t)) <= rt[t].graceUseCount
        /\ t \notin issued => audited[t] = 0
        /\ audited[t] \in Nat
    BY DEF GraceCounts, GraceIsBoundedAndAudited, TypeInv, TypeOK
  <2>2. /\ rt[t].graceUseCount \in Nat /\ rt'[t].graceUseCount \in Nat
        /\ rt'[t].graceUseCount <= RotationGraceMaxUses
        /\ rt'[t].graceUseCount >= rt[t].graceUseCount \/ t \notin issued
    BY <2>1, GraceUseStep
  <2>3. /\ Auditing(t) \subseteq Request
        /\ Cardinality(Auditing(t)) \in Nat
    BY AuditingIsAudited, Counted
  <2>4. CASE Auditing(t)' \subseteq Auditing(t) /\ audited'[t] = audited[t]
    <3>1. /\ Cardinality(Auditing(t)') <= Cardinality(Auditing(t))
          /\ Cardinality(Auditing(t)') \in Nat
      BY <2>3, <2>4, Fewer, Counted
    <3>2. t \notin issued => Cardinality(Auditing(t)') = 0
      BY <2>4, AuditingIsAudited, FS_EmptySet
    <3> QED
      BY <2>1, <2>2, <2>3, <2>4, <3>1, <3>2
  <2>5. ASSUME NEW r \in Request, ClaimGrace(r), req[r].token = t, GraceClaimable(t),
               r \notin Auditing(t), Auditing(t)' = Auditing(t) \cup {r}, audited'[t] = audited[t]
        PROVE  audited'[t] + Cardinality(Auditing(t)') <= rt'[t].graceUseCount
    <3>1. Cardinality(Auditing(t)') = Cardinality(Auditing(t)) + 1
      BY <2>3, <2>5, OneMore
    <3>2. rt'[t].graceUseCount = rt[t].graceUseCount + 1
      <4>1. rt' = [rt EXCEPT ![t].graceUseCount = @ + 1]
        BY <2>5 DEF ClaimGrace
      <4>2. rt[t] \in TokenRow
        BY DEF TypeInv, TypeOK
      <4> QED
        BY <4>1, <4>2 DEF TypeInv, TypeOK, TokenRow
    <3> QED
      BY <2>1, <2>2, <2>3, <2>5, <3>1, <3>2
  <2>6. ASSUME NEW r \in Auditing(t), AuditGrace(r), Auditing(t)' = Auditing(t) \ {r},
               audited'[t] = audited[t] + 1
        PROVE  audited'[t] + Cardinality(Auditing(t)') <= rt'[t].graceUseCount
    <3>1. Cardinality(Auditing(t)') = Cardinality(Auditing(t)) - 1
      BY <2>3, <2>6, OneLess
    <3>2. rt' = rt
      BY <2>6 DEF AuditGrace
    <3> QED
      BY <2>1, <2>2, <2>3, <2>6, <3>1, <3>2
  <2> QED
    BY <2>2, <2>4, <2>5, <2>6, AuditingStep
<1>3. ASSUME NEW t \in TokenId \ issued'
      PROVE  audited'[t] = 0
  <2>1. t \notin issued /\ audited[t] = 0 /\ Auditing(t) = {}
    BY <1>1, AuditingIsAudited DEF GraceCounts
  <2> QED
    BY <2>1, AuditingStep
<1>4. GraceIsBoundedAndAudited'
  BY <1>2 DEF GraceIsBoundedAndAudited
<1> QED
  BY <1>3, <1>4 DEF GraceCounts

LEMMA InitGraceCounts == Init => GraceCounts
<1> SUFFICES ASSUME Init PROVE GraceCounts
  OBVIOUS
<1>1. \A t \in TokenId : Auditing(t) = {} /\ audited[t] = 0 /\ rt[t].graceUseCount = 0
  BY DEF Init, Auditing, At, Idle, NoTokenRow
<1>2. Cardinality({}) = 0
  BY FS_EmptySet
<1>3. ASSUME NEW t \in TokenId
      PROVE  /\ audited[t] + Cardinality(Auditing(t)) <= rt[t].graceUseCount
             /\ rt[t].graceUseCount <= RotationGraceMaxUses
  <2>1. Cardinality(Auditing(t)) = 0
    BY <1>1, <1>2
  <2> QED
    BY <1>1, <2>1, ConstantsAssumption
<1> QED
  BY <1>1, <1>3 DEF GraceCounts, GraceIsBoundedAndAudited

(* However many navigations race one rotation, the grace of a token is used *)
(* at most as often as the cap allows, and every audit row, written or      *)
(* about to be, stands for a use of its own.                                *)
THEOREM GraceStaysBoundedAndAudited ==
  ASSUME IsFiniteSet(Request)
  PROVE  Spec => []GraceIsBoundedAndAudited
<1>1. Init => TypeInv /\ GraceCounts
  BY InitType, InitGraceCounts
<1>2. TypeInv /\ GraceCounts /\ [Next]_vars => (TypeInv /\ GraceCounts)'
  BY TypeStep, GraceCountsStep
<1> QED
  BY <1>1, <1>2, PTL DEF Spec, GraceCounts

-----------------------------------------------------------------------------
(* Wrong guesses.                                                           *)

Failures(u) == user[u].failedLoginAttempts
Budget(u)   == MaxFailedAttempts - 1 + Cardinality(Request) + reopened[u]

(* One step begins, counts or drops a failing login of an account, or       *)
(* clears its failures.                                                     *)
LEMMA FailingStep ==
  ASSUME TypeInv, [Next]_vars, NEW u \in User
  PROVE  \/ /\ Failing(u)' \subseteq Failing(u)
            /\ Failures(u)' = Failures(u) /\ reopened'[u] = reopened[u]
         \/ Failures(u)' = 0 /\ reopened'[u] = 0
         \/ /\ user[u].lockedUntil = 0
            /\ Failures(u)' = Failures(u) /\ reopened'[u] = reopened[u]
         \/ \E r \in Failing(u) : /\ Failing(u)' = Failing(u) \ {r}
                                  /\ Failures(u)' = Failures(u) + 1
                                  /\ reopened'[u] = reopened[u]
         \/ /\ Failing(u)' \subseteq Failing(u)
            /\ Failures(u)' = Failures(u) + 1
            /\ reopened'[u] = reopened[u] + 1
<1> DEFINE Same == Failures(u)' = Failures(u) /\ reopened'[u] = reopened[u]
           Less == Failing(u)' \subseteq Failing(u)
<1>1. ASSUME \A s \in Request : req'[s] = req[s] \/ req'[s].pc # "loginFail"
      PROVE  Less
  BY <1>1 DEF Failing, At
<1>2. ASSUME NEW r \in Request, Finish(r)
      PROVE  /\ Less
             /\ req'[r].pc = "idle"
             /\ \A s \in Request \ {r} : req'[s] = req[s]
  <2>1. req'[r].pc = "idle" /\ \A s \in Request \ {r} : req'[s] = req[s]
    BY <1>2 DEF Finish, Idle, TypeInv, TypeOK
  <2> QED
    BY <1>1, <2>1
<1>3. ASSUME NEW r \in Request, NEW t \in TokenId, LoginSucceed(r, t)
      PROVE  (Less /\ Same) \/ (Failures(u)' = 0 /\ reopened'[u] = 0)
  <2>1. Less
    BY <1>2, <1>3 DEF LoginSucceed
  <2>2. CASE req[r].user = u
    <3>1. Failures(u)' = 0 /\ reopened'[u] = 0
      BY <1>3, <2>2 DEF LoginSucceed, Failures, TypeInv, TypeOK, UserRow
    <3> QED
      BY <3>1
  <2>3. CASE req[r].user # u
    <3>1. Same
      BY <1>3, <2>3 DEF LoginSucceed, Failures, TypeInv, TypeOK
    <3> QED
      BY <2>1, <3>1
  <2> QED
    BY <2>2, <2>3
<1>4. ASSUME NEW r \in Request, ResetCommit(r)
      PROVE  (Less /\ Same) \/ (Failures(u)' = 0 /\ reopened'[u] = 0)
  <2>1. Less
    BY <1>2, <1>4 DEF ResetCommit
  <2>2. CASE req[r].user = u
    <3>1. Failures(u)' = 0 /\ reopened'[u] = 0
      BY <1>4, <2>2 DEF ResetCommit, Failures, TypeInv, TypeOK, UserRow
    <3> QED
      BY <3>1
  <2>3. CASE req[r].user # u
    <3>1. Same
      BY <1>4, <2>3 DEF ResetCommit, Failures, TypeInv, TypeOK
    <3> QED
      BY <2>1, <3>1
  <2> QED
    BY <2>2, <2>3
<1>5. ASSUME NEW r \in Request, LoginFail(r)
      PROVE  \/ Less /\ Same
             \/ /\ r \in Failing(u) /\ Failing(u)' = Failing(u) \ {r}
                /\ Failures(u)' = Failures(u) + 1
                /\ reopened'[u] = reopened[u]
             \/ /\ Less
                /\ Failures(u)' = Failures(u) + 1
                /\ reopened'[u] = reopened[u] + 1
  <2>1. /\ Less /\ req'[r].pc = "idle" /\ \A s \in Request \ {r} : req'[s] = req[s]
        /\ req[r].pc = "loginFail"
    BY <1>2, <1>5 DEF LoginFail, At
  <2>2. CASE req[r].user # u
    <3>1. Same
      BY <1>5, <2>2 DEF LoginFail, Failures, TypeInv, TypeOK
    <3> QED
      BY <2>1, <3>1
  <2>3. CASE req[r].user = u
    <3>1. Failures(u)' = Failures(u) + 1
      BY <1>5, <2>3 DEF LoginFail, Failures, TypeInv, TypeOK, UserRow
    <3>2. CASE req[r].lockRanOut
      <4>1. reopened'[u] = reopened[u] + 1
        BY <1>5, <2>3, <3>2 DEF LoginFail, TypeInv, TypeOK
      <4> QED
        BY <2>1, <3>1, <4>1
    <3>3. CASE ~req[r].lockRanOut
      <4>1. reopened'[u] = reopened[u]
        BY <1>5, <2>3, <3>3 DEF LoginFail, TypeInv, TypeOK
      <4>2. r \in Failing(u) /\ Failing(u)' = Failing(u) \ {r}
        BY <2>1, <2>3, <3>3 DEF Failing, At
      <4> QED
        BY <3>1, <4>1, <4>2
    <3> QED
      BY <3>2, <3>3
  <2> QED
    BY <2>2, <2>3
<1>6. ASSUME NEW r \in Request, NEW v \in User, NEW correct \in BOOLEAN, LoginRead(r, v, correct)
      PROVE  (Less /\ Same) \/ (user[u].lockedUntil = 0 /\ Same)
  <2>1. Same
    BY <1>6 DEF LoginRead, storeVars, historyVars, Failures
  <2>2. /\ req'[r].user = v /\ req'[r].lockRanOut = (user[v].lockedUntil # 0)
        /\ \A s \in Request \ {r} : req'[s] = req[s]
    BY <1>6 DEF LoginRead, Idle, TypeInv, TypeOK
  <2>3. CASE v = u /\ user[u].lockedUntil = 0
    BY <2>1, <2>3
  <2>4. CASE ~(v = u /\ user[u].lockedUntil = 0)
    <3>1. r \notin Failing(u)'
      BY <2>2, <2>4 DEF Failing
    <3>2. Less
      BY <2>2, <3>1 DEF Failing, At
    <3> QED
      BY <2>1, <3>2
  <2> QED
    BY <2>3, <2>4
<1>7. ASSUME NEW r \in Request, NEW x \in TokenId,
             RefreshRead(r, x) \/ ValidateRead(r, x) \/ LogoutRead(r, x)
      PROVE  Less /\ Same
  <2>1. \A s \in Request : req'[s] = req[s] \/ req'[s].pc # "loginFail"
    BY <1>7 DEF RefreshRead, ValidateRead, LogoutRead, Idle, TypeInv, TypeOK
  <2>2. Same
    BY <1>7 DEF RefreshRead, ValidateRead, LogoutRead, storeVars, historyVars, Failures
  <2> QED
    BY <1>1, <2>1, <2>2
<1>8. ASSUME NEW r \in Request, NEW l \in ResetLink, ResetRead(r, l)
      PROVE  Less /\ Same
  <2>1. \A s \in Request : req'[s] = req[s] \/ req'[s].pc # "loginFail"
    BY <1>8 DEF ResetRead, Idle, TypeInv, TypeOK
  <2>2. Same
    BY <1>8 DEF ResetRead, storeVars, historyVars, Failures
  <2> QED
    BY <1>1, <2>1, <2>2
<1>9. ASSUME NEW r \in Request, ClaimGrace(r)
      PROVE  Less /\ Same
  <2>1. Same
    BY <1>9 DEF ClaimGrace, historyVars, Failures
  <2>2. CASE Finish(r)
    BY <1>2, <2>1, <2>2
  <2>3. CASE req' = [req EXCEPT ![r].pc = "auditGrace"]
    <3>1. req'[r].pc = "auditGrace" /\ \A s \in Request \ {r} : req'[s] = req[s]
      BY <2>3 DEF TypeInv, TypeOK, Handler
    <3> QED
      BY <1>1, <2>1, <3>1
  <2> QED
    BY <1>9, <2>2, <2>3 DEF ClaimGrace
<1>10. ASSUME UNCHANGED <<req, user, reopened>>
       PROVE  Less /\ Same
  BY <1>10 DEF Failing, At, Failures
<1>11. ASSUME NEW r \in Request, Finish(r), UNCHANGED <<user, reopened>>
       PROVE  Less /\ Same
  BY <1>2, <1>11 DEF Failures
<1>12. \/ UNCHANGED <<req, user, reopened>>
       \/ \E r \in Request : \/ ClaimGrace(r) \/ LoginFail(r) \/ ResetCommit(r)
                             \/ Finish(r) /\ UNCHANGED <<user, reopened>>
       \/ \E r \in Request, t \in TokenId : LoginSucceed(r, t)
       \/ \E r \in Request, v \in User, correct \in BOOLEAN : LoginRead(r, v, correct)
       \/ \E r \in Request, x \in TokenId :
            RefreshRead(r, x) \/ ValidateRead(r, x) \/ LogoutRead(r, x)
       \/ \E r \in Request, l \in ResetLink : ResetRead(r, l)
  BY DEF Next, vars, storeVars, historyVars, RefreshCommit, AuditGrace, LogoutCommit,
         ForgotPassword, Drop, Tick
<1> HIDE DEF Same, Less
<1>13. \/ Less /\ Same
       \/ Failures(u)' = 0 /\ reopened'[u] = 0
       \/ user[u].lockedUntil = 0 /\ Same
       \/ \E r \in Failing(u) : /\ Failing(u)' = Failing(u) \ {r}
                                /\ Failures(u)' = Failures(u) + 1
                                /\ reopened'[u] = reopened[u]
       \/ /\ Less
          /\ Failures(u)' = Failures(u) + 1
          /\ reopened'[u] = reopened[u] + 1
  BY <1>3, <1>4, <1>5, <1>6, <1>7, <1>8, <1>9, <1>10, <1>11, <1>12
<1> QED
  BY <1>13 DEF Same, Less

LEMMA GuessStep ==
  ASSUME IsFiniteSet(Request), TypeInv, LockMatchesCounter, GuessBudget, [Next]_vars
  PROVE  GuessBudget'
<1> USE ConstantsAssumption
<1> SUFFICES ASSUME NEW u \in User
             PROVE  Failures(u)' + Cardinality(Failing(u)')
                      <= MaxFailedAttempts - 1 + Cardinality(Request) + reopened'[u]
  BY DEF GuessBudget, Failures
<1>1. /\ Failures(u) \in Nat /\ reopened[u] \in Nat
      /\ Failures(u) + Cardinality(Failing(u)) <= Budget(u)
  BY DEF GuessBudget, Failures, Budget, TypeInv, TypeOK, UserRow
<1>2. /\ Failing(u) \subseteq Request /\ Failing(u)' \subseteq Request
      /\ Cardinality(Failing(u)) \in Nat /\ Cardinality(Failing(u)') \in Nat
      /\ Cardinality(Failing(u)') <= Cardinality(Request) /\ Cardinality(Request) \in Nat
  <2>1. Failing(u) \subseteq Request /\ Failing(u)' \subseteq Request
    BY DEF Failing
  <2> QED
    BY <2>1, Counted, FS_CardinalityType
<1>3. CASE Failing(u)' \subseteq Failing(u) /\ Failures(u)' <= Failures(u) + 1
           /\ Failures(u)' - Failures(u) = reopened'[u] - reopened[u] /\ reopened'[u] \in Nat
           /\ Failures(u)' \in Nat
  <2>1. Cardinality(Failing(u)') <= Cardinality(Failing(u))
    BY <1>2, <1>3, Fewer
  <2> QED
    BY <1>1, <1>2, <1>3, <2>1 DEF Budget
<1>4. CASE Failures(u)' = 0 /\ reopened'[u] = 0
  BY <1>2, <1>4
<1>5. CASE user[u].lockedUntil = 0 /\ Failures(u)' = Failures(u) /\ reopened'[u] = reopened[u]
  <2>1. Failures(u) < MaxFailedAttempts
    BY <1>1, <1>5 DEF LockMatchesCounter, Failures
  <2> QED
    BY <1>1, <1>2, <1>5, <2>1
<1>6. ASSUME NEW r \in Failing(u), Failing(u)' = Failing(u) \ {r},
             Failures(u)' = Failures(u) + 1, reopened'[u] = reopened[u]
      PROVE  Failures(u)' + Cardinality(Failing(u)')
               <= MaxFailedAttempts - 1 + Cardinality(Request) + reopened'[u]
  <2>1. Cardinality(Failing(u)') = Cardinality(Failing(u)) - 1
    BY <1>2, <1>6, OneLess
  <2> QED
    BY <1>1, <1>2, <1>6, <2>1 DEF Budget
<1>7. CASE /\ Failing(u)' \subseteq Failing(u)
           /\ \/ Failures(u)' = Failures(u) /\ reopened'[u] = reopened[u]
              \/ Failures(u)' = Failures(u) + 1 /\ reopened'[u] = reopened[u] + 1
  BY <1>1, <1>3, <1>7
<1> QED
  BY <1>4, <1>5, <1>6, <1>7, FailingStep

LEMMA InitGuess == IsFiniteSet(Request) /\ Init => GuessBudget
<1> SUFFICES ASSUME IsFiniteSet(Request), Init PROVE GuessBudget
  OBVIOUS
<1>1. \A u \in User : Failing(u) = {} /\ user[u].failedLoginAttempts = 0 /\ reopened[u] = 0
  BY DEF Init, Failing, At, Idle
<1>2. Cardinality({}) = 0 /\ Cardinality(Request) \in Nat
  BY FS_EmptySet, FS_CardinalityType
<1>3. ASSUME NEW u \in User
      PROVE  user[u].failedLoginAttempts + Cardinality(Failing(u))
               <= MaxFailedAttempts - 1 + Cardinality(Request) + reopened[u]
  <2>1. Cardinality(Failing(u)) = 0
    BY <1>1, <1>2
  <2> QED
    BY <1>1, <1>2, <2>1, ConstantsAssumption
<1> QED
  BY <1>3 DEF GuessBudget

(* However many logins overlap, the wrong passwords counted and in flight   *)
(* exceed the limit by no more than the other handlers and the logins let   *)
(* in because a lock had run out.                                           *)
THEOREM GuessesStayInBudget ==
  ASSUME IsFiniteSet(Request)
  PROVE  Spec => []GuessBudget
<1>1. Init => TypeInv /\ LockMatchesCounter /\ GuessBudget
  BY InitType, InitLock, InitGuess
<1>2. TypeInv /\ LockMatchesCounter /\ GuessBudget /\ [Next]_vars
        => (TypeInv /\ LockMatchesCounter /\ GuessBudget)'
  BY TypeStep, LockStep, GuessStep
<1> QED
  BY <1>1, <1>2, PTL DEF Spec
=============================================================================
