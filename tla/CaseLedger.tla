------------------------------ MODULE CaseLedger ------------------------------
(***************************************************************************)
(* What a student's case promises whatever requests overlap: statuses are  *)
(* earned.  The ledger keeps, for every application, the set of statuses   *)
(* it has ever been given, and for every student whether a referral reward *)
(* may be and has been paid.                                               *)
(*                                                                         *)
(*   Enter   an application gets a status it has the prerequisite of;      *)
(*   Credit  a reward is earned by an enrolment;                           *)
(*   Pay     a reward that has been earned is paid.                        *)
(*                                                                         *)
(* The ledger does not say that an application moves along one path, and   *)
(* lets a paid reward be earned again: that is what overlapping requests   *)
(* break.  It says that no overlap forges a status or a reward.            *)
(***************************************************************************)
CONSTANTS Application, Student

VARIABLES
  owner,    \* the student of an application that has been started
  entered,  \* the statuses each application has been given
  reward    \* the reward for each referred student

vars == <<owner, entered, reward>>

First == "APPLICATION_STARTED"

(* The status an application must have been given before. *)
Prerequisite ==
  [SUBMITTED |-> First, UNDER_REVIEW |-> "SUBMITTED", OFFER_RECEIVED |-> "UNDER_REVIEW",
   ACCEPTED |-> "OFFER_RECEIVED", ENROLLED |-> "ACCEPTED", REJECTED |-> "UNDER_REVIEW",
   WITHDRAWN |-> First]

Init ==
  /\ owner = [a \in Application |-> {}]
  /\ entered = [a \in Application |-> {}]
  /\ reward = [s \in Student |-> "NOT_ELIGIBLE"]

Open(a, s) ==
  /\ owner[a] = {}
  /\ owner' = [owner EXCEPT ![a] = {s}]
  /\ entered' = [entered EXCEPT ![a] = {First}]
  /\ UNCHANGED reward

Enter(a, status) ==
  /\ Prerequisite[status] \in entered[a]
  /\ entered' = [entered EXCEPT ![a] = @ \cup {status}]
  /\ UNCHANGED <<owner, reward>>

Credit(a, s) ==
  /\ owner[a] = {s}
  /\ "ENROLLED" \in entered[a]
  /\ reward' = [reward EXCEPT ![s] = "ELIGIBLE"]
  /\ UNCHANGED <<owner, entered>>

Pay(s) ==
  /\ reward[s] # "NOT_ELIGIBLE"
  /\ reward' = [reward EXCEPT ![s] = "PAID"]
  /\ UNCHANGED <<owner, entered>>

Next ==
  \/ \E a \in Application, s \in Student : Open(a, s) \/ Credit(a, s)
  \/ \E a \in Application, status \in DOMAIN Prerequisite : Enter(a, status)
  \/ \E s \in Student : Pay(s)

Spec == Init /\ [][Next]_vars
===============================================================================
