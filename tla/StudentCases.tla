----------------------------- MODULE StudentCases -----------------------------
(***************************************************************************)
(* University applications of students, the referrals that follow them and *)
(* the offer letters in the media library: StudentPhase2Service of the API *)
(* and the parts of MediaService that may take a letter away.              *)
(*                                                                         *)
(* No handler repeats the check of its read: each reads a row, decides,    *)
(* and writes it by id in a later transaction.  The read and the write are *)
(* two steps here, and other handlers run between them.  A referral is     *)
(* advanced after the application's transaction, by another read and       *)
(* another write, so a handler that stops in between advances nothing.     *)
(*                                                                         *)
(* Not modelled: documents, notifications, messages and support tickets,   *)
(* which no check of these handlers reads, and scholarship applications,   *)
(* whose rows no other row depends on.                                     *)
(***************************************************************************)
EXTENDS Integers, Sequences, FiniteSets

CONSTANTS
  Student,     \* student profiles
  Offering,    \* published offerings of universities
  Application, \* ids of applications
  Request,     \* handler slots
  None,        \* the SQL NULL, and nothing
  MaxChanges   \* bound of a run on the rows of all timelines

ASSUME ConstantsAssumption ==
  /\ None \notin Student \cup Offering \cup Application
  /\ MaxChanges \in Nat

VARIABLES
  app,        \* rows of student_applications
  timeline,   \* student_application_timeline: the statuses, in order
  referral,   \* the row of student_referrals in which a student is referred
  req,        \* the handlers in flight
  \* history, read by no handler
  raced,      \* applications two handlers changed at a time
  racedStart, \* student and offering two handlers started an application of at a time
  racedReward,\* students whose referral two handlers changed at a time
  missed,     \* students with an enrolment that no handler will credit
  payments    \* how often a reward was marked as paid

store   == <<app, timeline, referral>>
history == <<raced, racedStart, racedReward, missed, payments>>
vars    == <<store, req, history>>

-----------------------------------------------------------------------------
Status == {"APPLICATION_STARTED", "SUBMITTED", "UNDER_REVIEW", "OFFER_RECEIVED",
           "ACCEPTED", "ENROLLED", "REJECTED", "WITHDRAWN"}

Ended == {"REJECTED", "WITHDRAWN"}

(* APPLICATION_TRANSITIONS *)
MutLegal(from, to) ==
  \/ from = "APPLICATION_STARTED" /\ to \in {"SUBMITTED", "WITHDRAWN"}
  \/ from = "SUBMITTED" /\ to \in {"UNDER_REVIEW", "OFFER_RECEIVED", "WITHDRAWN"}
Legal(from, to) ==
  \/ from = "APPLICATION_STARTED" /\ to \in {"SUBMITTED", "WITHDRAWN"}
  \/ from = "SUBMITTED" /\ to \in {"UNDER_REVIEW", "WITHDRAWN"}
  \/ from = "UNDER_REVIEW" /\ to \in {"OFFER_RECEIVED", "REJECTED", "WITHDRAWN"}
  \/ from = "OFFER_RECEIVED" /\ to \in {"ACCEPTED", "REJECTED"}
  \/ from = "ACCEPTED" /\ to = "ENROLLED"

(* REFERRAL_STAGE_ORDER; a stage it does not name comes before all others.  *)
Rank(stage) ==
  CASE stage = "REGISTERED" -> 0
    [] stage = "APPLICATION_STARTED" -> 1
    [] stage = "APPLICATION_SUBMITTED" -> 2
    [] stage = "OFFER_RECEIVED" -> 3
    [] stage = "ENROLLED" -> 4
    [] OTHER -> -1

Stage  == {"REFERRED", "REGISTERED", "APPLICATION_STARTED", "APPLICATION_SUBMITTED",
           "OFFER_RECEIVED", "ENROLLED"}
Reward == {"NOT_ELIGIBLE", "ELIGIBLE", "PAID"}

(* A letter in the media library is archived, file and all, before its row  *)
(* is removed and offerMediaId becomes NULL.                                *)
Letter == {None, "STORED", "ARCHIVED"}

Row == [student : Student, offering : Offering, status : Status, letter : Letter,
        decision : {None, "ACCEPTED", "REJECTED"}]

Referral == [stage : Stage, reward : Reward]

(* The SQL NULL is neither a row nor a text. *)
ASSUME NullAssumption ==
  /\ None \notin Row \cup Referral
  /\ None \notin Status \cup Stage

(* A handler in flight: the row it read and is about to write, what it will *)
(* write, and the stage it will then advance the student's referral to.     *)
Pc == {"idle", "start", "commit", "refer", "advance", "pay"}

Handler == [pc : Pc, app : Application \cup {None}, student : Student \cup {None},
            offering : Offering \cup {None}, to : Status \cup {None},
            decision : {None, "ACCEPTED", "REJECTED"}, stage : Stage \cup {None},
            reward : Reward \cup {None}, letter : BOOLEAN]

Idle == [pc |-> "idle", app |-> None, student |-> None, offering |-> None, to |-> None,
         decision |-> None, stage |-> None, reward |-> None, letter |-> FALSE]

At(r, pc) == req[r].pc = pc
Begin(r, handler) == req' = [req EXCEPT ![r] = handler]
Finish(r) == Begin(r, Idle)

-----------------------------------------------------------------------------
(* What a handler asks of the row it reads.                                 *)

(* An application of the student for the offering that a new one would      *)
(* duplicate. *)
MutDuplicate(a, s, o) == app[a] # None /\ app[a].student = s /\ app[a].offering = o
                           /\ app[a].status = "APPLICATION_STARTED"
Duplicate(a, s, o)    == app[a] # None /\ app[a].student = s /\ app[a].offering = o
                           /\ app[a].status \notin Ended

MutDecidable(row) == row.status \in {"OFFER_RECEIVED", "REJECTED"} /\ row.decision = None
Decidable(row)    == row.status = "OFFER_RECEIVED" /\ row.decision = None

MutPayable(ref) == ref.stage = "ENROLLED"
Payable(ref)    == ref.stage = "ENROLLED" /\ ref.reward = "ELIGIBLE"

MutBehind(ref, stage) == Rank(stage) = Rank(ref.stage) + 1
Behind(ref, stage)    == Rank(ref.stage) < Rank(stage)

(* What a handler writes.                                                   *)

(* The stage an administrator's change of status advances the referral to.  *)
MutMilestone(status) == IF status = "ACCEPTED" THEN "ENROLLED" ELSE None
Milestone(status)    == IF status \in {"OFFER_RECEIVED", "ENROLLED"} THEN status ELSE None

MutStarted(s, o) == [student |-> s, offering |-> o, status |-> None,
                     letter |-> None, decision |-> None]
Started(s, o)    == [student |-> s, offering |-> o, status |-> "APPLICATION_STARTED",
                     letter |-> None, decision |-> None]

Moved(row, h) ==
  [row EXCEPT !.status = h.to,
              !.letter = IF h.letter THEN "STORED" ELSE @,
              !.decision = IF h.decision = None THEN @ ELSE h.decision]

(* The reward is taken from the referral as it was read. *)
Advanced(ref, h) ==
  IF h.stage = "ENROLLED"
    THEN [stage |-> h.stage, reward |-> IF h.reward = "PAID" THEN "PAID" ELSE "ELIGIBLE"]
    ELSE [ref EXCEPT !.stage = h.stage]

-----------------------------------------------------------------------------
Entered(a) == {timeline[a][i] : i \in 1 .. Len(timeline[a])}

Enrolled(s) == \E a \in Application :
                 app[a] # None /\ app[a].student = s /\ "ENROLLED" \in Entered(a)

(* The rows of all timelines. *)
Changes == Cardinality(UNION {{a} \X (1 .. Len(timeline[a])) : a \in Application})

(* The other handlers that are about to write. *)
InFlight(r, pcs) == {q \in Request \ {r} : req[q].pc \in pcs}

Init ==
  /\ app = [a \in Application |-> None]
  /\ timeline = [a \in Application |-> <<>>]
  \* registration with a referral code, or without
  /\ referral \in [Student -> {None, [stage |-> "REGISTERED", reward |-> "NOT_ELIGIBLE"]}]
  /\ req = [r \in Request |-> Idle]
  /\ raced = {}
  /\ racedStart = {}
  /\ racedReward = {}
  /\ missed = {}
  /\ payments = [s \in Student |-> 0]

-----------------------------------------------------------------------------
(* startApplication: the look-up, then the transaction. *)
StartRead(r, s, o) ==
  /\ At(r, "idle")
  /\ Changes < MaxChanges
  /\ \A a \in Application : ~Duplicate(a, s, o)
  /\ Begin(r, [Idle EXCEPT !.pc = "start", !.student = s, !.offering = o])
  /\ racedStart' = IF \E q \in InFlight(r, {"start"}) : req[q].student = s /\ req[q].offering = o
                     THEN racedStart \cup {<<s, o>>} ELSE racedStart
  /\ UNCHANGED <<store, raced, racedReward, missed, payments>>

StartCommit(r, a) ==
  LET s == req[r].student IN
  /\ At(r, "start")
  /\ Changes < MaxChanges
  /\ app[a] = None
  /\ app' = [app EXCEPT ![a] = Started(s, req[r].offering)]
  /\ timeline' = [timeline EXCEPT ![a] = <<"APPLICATION_STARTED">>]
  /\ Begin(r, [Idle EXCEPT !.pc = "refer", !.student = s, !.stage = "APPLICATION_STARTED"])
  /\ UNCHANGED <<referral, history>>

(* A handler that has read application a and found its status fit for       *)
(* another one, a decision or a letter. *)
Change(r, a, to, decision, letter, stage) ==
  /\ At(r, "idle")
  /\ Changes < MaxChanges
  /\ app[a] # None
  /\ Begin(r, [Idle EXCEPT !.pc = "commit", !.app = a, !.student = app[a].student, !.to = to,
                           !.decision = decision, !.letter = letter, !.stage = stage])
  /\ raced' = IF \E q \in InFlight(r, {"commit"}) : req[q].app = a THEN raced \cup {a} ELSE raced
  /\ UNCHANGED <<store, racedStart, racedReward, missed, payments>>

Submit(r, a) ==
  /\ Change(r, a, "SUBMITTED", None, FALSE, "APPLICATION_SUBMITTED")
  /\ app[a].status = "APPLICATION_STARTED"

Withdraw(r, a) ==
  /\ Change(r, a, "WITHDRAWN", None, FALSE, None)
  /\ app[a].status \in {"APPLICATION_STARTED", "SUBMITTED", "UNDER_REVIEW"}

DecideOffer(r, a, decision) ==
  /\ Change(r, a, decision, decision, FALSE, None)
  /\ Decidable(app[a])

(* An offer comes with a letter, any other status may. *)
AdminSetStatus(r, a, status, letter) ==
  /\ Change(r, a, status, None, letter, Milestone(status))
  /\ Legal(app[a].status, status)
  /\ status = "OFFER_RECEIVED" => letter

(* The transaction of the four: update by id and a row of the timeline.     *)
Commit(r) ==
  LET h == req[r] IN
  /\ At(r, "commit")
  /\ Changes < MaxChanges
  /\ app' = [app EXCEPT ![h.app] = Moved(@, h)]
  /\ timeline' = [timeline EXCEPT ![h.app] = Append(@, h.to)]
  /\ IF h.stage = None
       THEN Finish(r)
       ELSE Begin(r, [Idle EXCEPT !.pc = "refer", !.student = h.student, !.stage = h.stage])
  /\ UNCHANGED <<referral, history>>

-----------------------------------------------------------------------------
(* The history of a handler that is about to write the referral of s.       *)
Contend(r, s) ==
  racedReward' = IF \E q \in InFlight(r, {"advance", "pay"}) : req[q].student = s
                   THEN racedReward \cup {s} ELSE racedReward

(* advanceReferral: the read, which also ends a referral that is as far     *)
(* already, and the write. *)
ReferRead(r) ==
  LET s == req[r].student IN
  /\ At(r, "refer")
  /\ IF referral[s] # None /\ Behind(referral[s], req[r].stage)
       THEN /\ Begin(r, [req[r] EXCEPT !.pc = "advance", !.reward = referral[s].reward])
            /\ Contend(r, s)
       ELSE Finish(r) /\ UNCHANGED racedReward
  /\ UNCHANGED <<store, raced, racedStart, missed, payments>>

Advance(r) ==
  /\ At(r, "advance")
  /\ referral' = [referral EXCEPT ![req[r].student] = Advanced(@, req[r])]
  /\ Finish(r)
  /\ UNCHANGED <<app, timeline, history>>

(* applyReferral: the unique key lets one referral through.                 *)
ApplyReferral(s) ==
  /\ referral[s] = None
  /\ referral' = [referral EXCEPT ![s] = [stage |-> "REFERRED", reward |-> "NOT_ELIGIBLE"]]
  /\ missed' = IF Enrolled(s) THEN missed \cup {s} ELSE missed
  /\ UNCHANGED <<app, timeline, req, raced, racedStart, racedReward, payments>>

(* adminMarkReferralPaid *)
PayRead(r, s) ==
  /\ At(r, "idle")
  /\ referral[s] # None
  /\ Payable(referral[s])
  /\ Begin(r, [Idle EXCEPT !.pc = "pay", !.student = s])
  /\ Contend(r, s)
  /\ UNCHANGED <<store, raced, racedStart, missed, payments>>

PayCommit(r) ==
  LET s == req[r].student IN
  /\ At(r, "pay")
  /\ referral' = [referral EXCEPT ![s].reward = "PAID"]
  /\ payments' = [payments EXCEPT ![s] = @ + 1]
  /\ Finish(r)
  /\ UNCHANGED <<app, timeline, raced, racedStart, racedReward, missed>>

-----------------------------------------------------------------------------
(* MediaService.archive and its usageCount, which asks of many relations    *)
(* whether they use an asset, and not of student_applications.              *)
ArchiveLetter(a) ==
  /\ app[a] # None
  /\ app[a].letter = "STORED"
  /\ app' = [app EXCEPT ![a].letter = "ARCHIVED"]
  /\ UNCHANGED <<timeline, referral, req, history>>

(* removePermanently: the foreign key of an application is ON DELETE SET    *)
(* NULL and does not stop it. *)
RemoveLetter(a) ==
  /\ app[a] # None
  /\ app[a].letter = "ARCHIVED"
  /\ app' = [app EXCEPT ![a].letter = None]
  /\ UNCHANGED <<timeline, referral, req, history>>

(* A handler stops between two of its steps: a restart, a lost connection.  *)
Drop(r) ==
  /\ ~At(r, "idle")
  /\ missed' = IF req[r].pc \in {"refer", "advance"} /\ req[r].stage = "ENROLLED"
                 THEN missed \cup {req[r].student} ELSE missed
  /\ Finish(r)
  /\ UNCHANGED <<store, raced, racedStart, racedReward, payments>>

Next ==
  \/ \E r \in Request, s \in Student, o \in Offering : StartRead(r, s, o)
  \/ \E r \in Request, a \in Application : StartCommit(r, a)
  \/ \E r \in Request, a \in Application : Submit(r, a)
  \/ \E r \in Request, a \in Application : Withdraw(r, a)
  \/ \E r \in Request, a \in Application, d \in {"ACCEPTED", "REJECTED"} : DecideOffer(r, a, d)
  \/ \E r \in Request, a \in Application, status \in Status, letter \in BOOLEAN :
       AdminSetStatus(r, a, status, letter)
  \/ \E r \in Request : Commit(r)
  \/ \E r \in Request : ReferRead(r)
  \/ \E r \in Request : Advance(r)
  \/ \E s \in Student : ApplyReferral(s)
  \/ \E r \in Request, s \in Student : PayRead(r, s)
  \/ \E r \in Request : PayCommit(r)
  \/ \E a \in Application : ArchiveLetter(a)
  \/ \E a \in Application : RemoveLetter(a)
  \/ \E r \in Request : Drop(r)

Spec == Init /\ [][Next]_vars

-----------------------------------------------------------------------------
(* Type invariant. *)
TypeOK ==
  /\ app \in [Application -> Row \cup {None}]
  /\ timeline \in [Application -> Seq(Status)]
  /\ referral \in [Student -> Referral \cup {None}]
  /\ req \in [Request -> Handler]
  /\ raced \subseteq Application
  /\ racedStart \subseteq Student \X Offering
  /\ racedReward \subseteq Student
  /\ missed \subseteq Student
  /\ payments \in [Student -> Nat]

(* An application no two handlers changed at a time has gone from status to *)
(* status along APPLICATION_TRANSITIONS, and its timeline tells how: every  *)
(* departure from the table is the work of overlapping handlers.            *)
OnlyRacesBreakTheTable ==
  \A a \in Application \ raced :
    app[a] # None =>
      /\ timeline[a] # <<>> /\ app[a].status = timeline[a][Len(timeline[a])]
      /\ \A i \in 1 .. Len(timeline[a]) - 1 : Legal(timeline[a][i], timeline[a][i + 1])

(* A student has two open applications for one offering only if two were    *)
(* started at a time, or a race reopened one.                               *)
OneOpenApplication ==
  \A a, b \in Application \ raced :
    /\ a # b /\ app[a] # None /\ app[b] # None
    /\ app[a].status \notin Ended /\ app[b].status \notin Ended
    /\ app[a].student = app[b].student /\ app[a].offering = app[b].offering
    => <<app[a].student, app[a].offering>> \in racedStart

(* The stage of a referral is real: the referred student has an application *)
(* that went through the status it stands for.                              *)
Evidence(stage) == IF stage = "APPLICATION_SUBMITTED" THEN "SUBMITTED" ELSE stage

StageIsReal ==
  \A s \in Student :
    referral[s] # None /\ Rank(referral[s].stage) > 0 =>
      \E a \in Application :
        app[a] # None /\ app[a].student = s /\ Evidence(referral[s].stage) \in Entered(a)

(* A reward is marked as paid once, and stays paid, unless two handlers     *)
(* changed the referral at a time. *)
RewardPaidOnce ==
  \A s \in Student \ racedReward :
    /\ payments[s] <= 1
    /\ payments[s] = 1 => referral[s] # None /\ referral[s].reward = "PAID"

(* The enrolment of a referred student makes the reward eligible, whatever  *)
(* else races for the referral.  It is missed only if the handler stopped   *)
(* before it could, or the code was applied after the enrolment.            *)
EnrolmentIsCredited ==
  \A s \in Student \ missed :
    Enrolled(s) /\ referral[s] # None =>
      \/ referral[s].reward # "NOT_ELIGIBLE"
      \/ \E r \in Request : /\ req[r].pc \in {"refer", "advance"}
                            /\ req[r].student = s /\ req[r].stage = "ENROLLED"

(* Whatever overlaps, statuses and rewards are earned. *)
Ledger == INSTANCE CaseLedger WITH
  owner   <- [a \in Application |-> IF app[a] = None THEN {} ELSE {app[a].student}],
  entered <- [a \in Application |-> Entered(a)],
  reward  <- [s \in Student |-> IF referral[s] = None THEN "NOT_ELIGIBLE"
                                                      ELSE referral[s].reward]

ImplementsLedger == Ledger!Spec

-----------------------------------------------------------------------------
(* What adminSetApplicationStatus asks for ("Upload and attach an offer     *)
(* letter before marking an application as offer received") and usageCount  *)
(* claims to protect ("every MediaAsset relation the schema currently       *)
(* defines"): an application with an offer has its letter.                  *)
OfferHasLetter ==
  \A a \in Application :
    app[a] # None /\ app[a].status \in {"OFFER_RECEIVED", "ACCEPTED", "ENROLLED"} =>
      app[a].letter = "STORED"
=============================================================================
