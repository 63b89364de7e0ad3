-------------------------- MODULE StudentCasesProofs --------------------------
(***************************************************************************)
(* Proofs about StudentCases, for any number of students, offerings,       *)
(* applications and handlers.                                              *)
(*                                                                         *)
(* The argument has two halves.  What overlapping handlers cannot break    *)
(* rests on Earned: a handler writes a status the application had the      *)
(* prerequisite of when it was read, and advances a referral to a stage    *)
(* some application shows, and neither is ever taken back.  What only      *)
(* overlapping handlers break rests on Alone: an application outside raced *)
(* has one handler at a time, which still finds the status it read; the    *)
(* same for a start outside racedStart and a referral outside racedReward. *)
(***************************************************************************)
EXTENDS StudentCases, TLAPS

First == "APPLICATION_STARTED"

(* The stages a handler advances a referral to. *)
Milestones == Stage \ {"REFERRED", "REGISTERED"}

(* What a handler in flight works on. *)
HandlerOK(r) ==
  /\ At(r, "start") => req[r].student \in Student /\ req[r].offering \in Offering
  /\ At(r, "commit") => /\ req[r].app \in Application /\ req[r].to \in Status
                        /\ app[req[r].app] # None
                        /\ req[r].student = app[req[r].app].student
                        /\ req[r].stage \in Milestones \cup {None}
  /\ req[r].pc \in {"refer", "advance"} => req[r].student \in Student
                                           /\ req[r].stage \in Milestones
  /\ At(r, "advance") => referral[req[r].student] # None /\ req[r].reward \in Reward
  /\ At(r, "pay") => req[r].student \in Student /\ referral[req[r].student] # None

InFlightOK == \A r \in Request : HandlerOK(r)

(* An application has a timeline from its first row on. *)
Told == \A a \in Application : app[a] = None <=> timeline[a] = <<>>

TypeInv == TypeOK /\ InFlightOK /\ Told

-----------------------------------------------------------------------------
(* Handlers begin, go on and end.                                           *)

LEMMA BeginFacts ==
  ASSUME TypeInv, NEW r \in Request, NEW h \in Handler, Begin(r, h)
  PROVE  /\ req' \in [Request -> Handler]
         /\ req'[r] = h
         /\ \A q \in Request \ {r} : req'[q] = req[q]
BY DEF Begin, TypeInv, TypeOK

LEMMA FinishFacts ==
  ASSUME TypeInv, NEW r \in Request, Finish(r)
  PROVE  /\ req' \in [Request -> Handler]
         /\ req'[r].pc = "idle"
         /\ \A q \in Request \ {r} : req'[q] = req[q]
<1>1. Idle \in Handler /\ Idle.pc = "idle"
  BY DEF Idle, Handler, Pc
<1> QED
  BY <1>1, BeginFacts DEF Finish

LEMMA StartReadFacts ==
  ASSUME TypeInv, NEW r \in Request, NEW s \in Student, NEW o \in Offering, StartRead(r, s, o)
  PROVE  /\ req' \in [Request -> Handler]
         /\ req'[r].pc = "start" /\ req'[r].student = s /\ req'[r].offering = o
         /\ \A q \in Request \ {r} : req'[q] = req[q]
<1> DEFINE h == [Idle EXCEPT !.pc = "start", !.student = s, !.offering = o]
<1>1. h \in Handler /\ h.pc = "start" /\ h.student = s /\ h.offering = o
  BY DEF Idle, Handler, Pc
<1>2. Begin(r, h)
  BY DEF StartRead
<1> HIDE DEF h
<1> QED
  BY <1>1, <1>2, BeginFacts

(* A handler that will advance the referral of s to the stage. *)
LEMMA ReferFacts ==
  ASSUME TypeInv, NEW r \in Request, NEW s \in Student, NEW stage \in Milestones,
         Begin(r, [Idle EXCEPT !.pc = "refer", !.student = s, !.stage = stage])
  PROVE  /\ req' \in [Request -> Handler]
         /\ req'[r].pc = "refer" /\ req'[r].student = s /\ req'[r].stage = stage
         /\ \A q \in Request \ {r} : req'[q] = req[q]
<1> DEFINE h == [Idle EXCEPT !.pc = "refer", !.student = s, !.stage = stage]
<1>1. h \in Handler /\ h.pc = "refer" /\ h.student = s /\ h.stage = stage
  BY DEF Idle, Handler, Pc, Milestones
<1> HIDE DEF h
<1>2. Begin(r, h)
  BY DEF h
<1> QED
  BY <1>1, <1>2, BeginFacts

(* The four handlers that change the status of an application. *)
Touch(r, a) ==
  \/ Submit(r, a) \/ Withdraw(r, a)
  \/ \E d \in {"ACCEPTED", "REJECTED"} : DecideOffer(r, a, d)
  \/ \E status \in Status, letter \in BOOLEAN : AdminSetStatus(r, a, status, letter)

(* What they remember of their read. *)
Planned(h, a) ==
  /\ h.pc = "commit" /\ h.app = a /\ h.student = app[a].student
  /\ h.to \in Status /\ Legal(app[a].status, h.to)
  /\ h.stage \in Milestones \cup {None}
  /\ h.stage # None => Evidence(h.stage) = h.to
  /\ h.to = "ENROLLED" => h.stage = "ENROLLED"

LEMMA PlannedFacts ==
  ASSUME TypeInv, NEW r \in Request, NEW a \in Application, NEW to \in Status,
         NEW decision \in {None, "ACCEPTED", "REJECTED"}, NEW letter \in BOOLEAN,
         NEW stage \in Milestones \cup {None}, Change(r, a, to, decision, letter, stage),
         Legal(app[a].status, to), stage # None => Evidence(stage) = to,
         to = "ENROLLED" => stage = "ENROLLED"
  PROVE  /\ req' \in [Request -> Handler]
         /\ Planned(req'[r], a)
         /\ \A q \in Request \ {r} : req'[q] = req[q]
<1> DEFINE h == [Idle EXCEPT !.pc = "commit", !.app = a, !.student = app[a].student, !.to = to,
                             !.decision = decision, !.letter = letter, !.stage = stage]
<1>1. app[a].student \in Student
  BY DEF Change, TypeInv, TypeOK, Row
<1>2. /\ h \in Handler /\ h.pc = "commit" /\ h.app = a /\ h.student = app[a].student
      /\ h.to = to /\ h.stage = stage
  BY <1>1 DEF Idle, Handler, Pc, Milestones
<1>3. Begin(r, h)
  BY DEF Change
<1> HIDE DEF h
<1>4. Planned(h, a)
  BY <1>2 DEF Planned
<1> QED
  BY <1>2, <1>3, <1>4, BeginFacts

LEMMA TouchFacts ==
  ASSUME TypeInv, NEW r \in Request, NEW a \in Application, Touch(r, a)
  PROVE  /\ app[a] # None /\ At(r, "idle")
         /\ req' \in [Request -> Handler]
         /\ Planned(req'[r], a)
         /\ \A q \in Request \ {r} : req'[q] = req[q]
         /\ raced \subseteq raced' /\ raced' \subseteq Application
         /\ \A q \in Request \ {r} : At(q, "commit") /\ req[q].app = a => a \in raced'
         /\ UNCHANGED <<store, racedStart, racedReward, missed, payments>>
<1>1. \E to, decision, letter, stage : Change(r, a, to, decision, letter, stage)
  BY DEF Touch, Submit, Withdraw, DecideOffer, AdminSetStatus
<1>2. /\ app[a] # None /\ At(r, "idle")
      /\ raced \subseteq raced' /\ raced' \subseteq Application
      /\ \A q \in Request \ {r} : At(q, "commit") /\ req[q].app = a => a \in raced'
      /\ UNCHANGED <<store, racedStart, racedReward, missed, payments>>
  BY <1>1 DEF Change, InFlight, At, TypeInv, TypeOK
<1> DEFINE Goal == /\ req' \in [Request -> Handler] /\ Planned(req'[r], a)
                   /\ \A q \in Request \ {r} : req'[q] = req[q]
<1>3. CASE Submit(r, a)
  <2>1. /\ Change(r, a, "SUBMITTED", None, FALSE, "APPLICATION_SUBMITTED")
        /\ Legal(app[a].status, "SUBMITTED") /\ "SUBMITTED" \in Status
        /\ "APPLICATION_SUBMITTED" \in Milestones
        /\ Evidence("APPLICATION_SUBMITTED") = "SUBMITTED"
    BY <1>3 DEF Submit, Legal, Status, Milestones, Stage, Evidence
  <2> QED
    BY <1>2, <2>1, PlannedFacts
<1>4. CASE Withdraw(r, a)
  <2>1. /\ Change(r, a, "WITHDRAWN", None, FALSE, None)
        /\ Legal(app[a].status, "WITHDRAWN") /\ "WITHDRAWN" \in Status
    BY <1>4 DEF Withdraw, Legal, Status
  <2> QED
    BY <1>2, <2>1, PlannedFacts
<1>5. ASSUME NEW d \in {"ACCEPTED", "REJECTED"}, DecideOffer(r, a, d)
      PROVE  Goal
  <2>1. /\ Change(r, a, d, d, FALSE, None)
        /\ Legal(app[a].status, d) /\ d \in Status
    BY <1>5 DEF DecideOffer, Decidable, Legal, Status
  <2> QED
    BY <1>2, <2>1, PlannedFacts
<1>6. ASSUME NEW status \in Status, NEW letter \in BOOLEAN, AdminSetStatus(r, a, status, letter)
      PROVE  Goal
  <2>1. /\ Change(r, a, status, None, letter, Milestone(status))
        /\ Legal(app[a].status, status)
    BY <1>6 DEF AdminSetStatus
  <2>2. /\ Milestone(status) \in Milestones \cup {None}
        /\ Milestone(status) # None => Evidence(Milestone(status)) = status
        /\ status = "ENROLLED" => Milestone(status) = "ENROLLED"
    BY DEF Milestone, Milestones, Stage, Evidence
  <2> QED
    BY <1>2, <2>1, <2>2, PlannedFacts
<1> QED
  BY <1>2, <1>3, <1>4, <1>5, <1>6 DEF Touch

-----------------------------------------------------------------------------
(* What the steps write.                                                    *)

(* The statuses of an application whose timeline grows. *)
LEMMA AppendFacts ==
  ASSUME NEW S, NEW line \in Seq(S), NEW e \in S
  PROVE  /\ Append(line, e) \in Seq(S) /\ Append(line, e) # <<>>
         /\ Len(Append(line, e)) = Len(line) + 1
         /\ Append(line, e)[Len(line) + 1] = e
         /\ \A i \in 1 .. Len(line) : Append(line, e)[i] = line[i]
         /\ {Append(line, e)[i] : i \in 1 .. Len(Append(line, e))}
              = {line[i] : i \in 1 .. Len(line)} \cup {e}
<1>1. /\ Append(line, e) \in Seq(S) /\ Append(line, e) # <<>>
      /\ Len(Append(line, e)) = Len(line) + 1
      /\ Append(line, e)[Len(line) + 1] = e
      /\ \A i \in 1 .. Len(line) : Append(line, e)[i] = line[i]
  OBVIOUS
<1>2. 1 .. Len(line) + 1 = (1 .. Len(line)) \cup {Len(line) + 1}
  OBVIOUS
<1> QED
  BY <1>1, <1>2

(* An application keeps who it is of, and every status it was given. *)
Kept(a) ==
  app[a] # None => /\ app'[a] # None
                   /\ app'[a].student = app[a].student /\ app'[a].offering = app[a].offering
                   /\ Entered(a) \subseteq Entered(a)'

Grown(a, status) == Entered(a)' = Entered(a) \cup {status}

Alike(a) == app'[a] = app[a] /\ timeline'[a] = timeline[a]

LEMMA AlikeFacts ==
  ASSUME NEW a, Alike(a)
  PROVE  Entered(a)' = Entered(a) /\ Kept(a)
BY DEF Alike, Kept, Entered

LEMMA StartCommitFacts ==
  ASSUME TypeInv, NEW r \in Request, NEW a \in Application, StartCommit(r, a),
         NEW s, s = req[r].student, NEW o, o = req[r].offering
  PROVE  /\ s \in Student /\ o \in Offering /\ app[a] = None
         /\ app' \in [Application -> Row \cup {None}]
         /\ app'[a] # None /\ app'[a].student = s /\ app'[a].offering = o
         /\ app'[a].status = First
         /\ timeline' \in [Application -> Seq(Status)]
         /\ timeline'[a] = <<First>> /\ Entered(a)' = {First}
         /\ \A b \in Application \ {a} : Alike(b)
         /\ req' \in [Request -> Handler]
         /\ req'[r].pc = "refer" /\ req'[r].student = s /\ req'[r].stage = First
         /\ \A q \in Request \ {r} : req'[q] = req[q]
         /\ UNCHANGED <<referral, history>>
<1>1. s \in Student /\ o \in Offering /\ app[a] = None
  BY DEF StartCommit, At, TypeInv, InFlightOK, HandlerOK
<1>2. /\ Started(s, o) \in Row /\ Started(s, o).student = s /\ Started(s, o).offering = o
      /\ Started(s, o).status = First
  BY <1>1 DEF Started, Row, Status, Letter, First
<1>3. app' = [app EXCEPT ![a] = Started(s, o)] /\ timeline' = [timeline EXCEPT ![a] = <<First>>]
  BY DEF StartCommit, First
<1>4. First \in Status /\ First \in Milestones
  BY DEF First, Status, Milestones, Stage
<1>5. /\ app' \in [Application -> Row \cup {None}] /\ app'[a] = Started(s, o)
      /\ timeline' \in [Application -> Seq(Status)] /\ timeline'[a] = <<First>>
      /\ \A b \in Application \ {a} : Alike(b)
  BY <1>2, <1>3, <1>4 DEF TypeInv, TypeOK, Alike
<1>6. Entered(a)' = {First}
  BY <1>5 DEF Entered
<1>7. Begin(r, [Idle EXCEPT !.pc = "refer", !.student = s, !.stage = First])
  BY DEF StartCommit, First
<1>8. /\ req' \in [Request -> Handler]
      /\ req'[r].pc = "refer" /\ req'[r].student = s /\ req'[r].stage = First
      /\ \A q \in Request \ {r} : req'[q] = req[q]
  <2>1. First \in Milestones
    BY <1>4
  <2> QED
    BY <1>1, <1>7, <2>1, ReferFacts
<1> QED
  BY <1>1, <1>2, <1>5, <1>6, <1>8, NullAssumption DEF StartCommit

LEMMA CommitFacts ==
  ASSUME TypeInv, NEW r \in Request, Commit(r), NEW a, a = req[r].app, NEW to, to = req[r].to
  PROVE  /\ a \in Application /\ to \in Status /\ app[a] # None
         /\ app' \in [Application -> Row \cup {None}]
         /\ app'[a].status = to /\ Kept(a)
         /\ timeline' \in [Application -> Seq(Status)]
         /\ timeline'[a] = Append(timeline[a], to) /\ Grown(a, to)
         /\ \A b \in Application \ {a} : Alike(b)
         /\ req' \in [Request -> Handler]
         /\ IF req[r].stage = None
              THEN req'[r].pc = "idle"
              ELSE /\ req'[r].pc = "refer" /\ req'[r].student = app[a].student
                   /\ req'[r].stage = req[r].stage /\ req[r].stage \in Milestones
         /\ \A q \in Request \ {r} : req'[q] = req[q]
         /\ UNCHANGED <<referral, history>>
<1>1. /\ a \in Application /\ to \in Status /\ app[a] # None /\ app[a] \in Row
      /\ req[r].student = app[a].student /\ req[r].stage \in Milestones \cup {None}
      /\ app[a].student \in Student
  BY DEF Commit, At, TypeInv, TypeOK, InFlightOK, HandlerOK, Row
<1>2. req[r].decision \in {None, "ACCEPTED", "REJECTED"} /\ req[r].letter \in BOOLEAN
  BY DEF TypeInv, TypeOK, Handler
<1> DEFINE new == Moved(app[a], req[r])
<1>3. /\ new \in Row /\ new # None /\ new.status = to /\ new.student = app[a].student
      /\ new.offering = app[a].offering
  <2>1. new \in Row
    BY <1>1, <1>2 DEF Moved, Row, Letter
  <2>2. new.status = to /\ new.student = app[a].student /\ new.offering = app[a].offering
    BY <1>1 DEF Moved, Row
  <2> QED
    BY <2>1, <2>2, NullAssumption
<1> HIDE DEF new
<1>4. app' = [app EXCEPT ![a] = new] /\ timeline' = [timeline EXCEPT ![a] = Append(@, to)]
  BY DEF Commit, new
<1>5. timeline[a] \in Seq(Status)
  BY <1>1 DEF TypeInv, TypeOK
<1>6. Append(timeline[a], to) \in Seq(Status)
  BY <1>1, <1>5, AppendFacts
<1>7. /\ app' \in [Application -> Row \cup {None}] /\ app'[a] = new
      /\ timeline' \in [Application -> Seq(Status)] /\ timeline'[a] = Append(timeline[a], to)
      /\ \A b \in Application \ {a} : Alike(b)
  BY <1>1, <1>3, <1>4, <1>6 DEF TypeInv, TypeOK, Alike
<1>8. Entered(a)' = Entered(a) \cup {to}
  <2> DEFINE line == timeline[a]
  <2>1. {Append(line, to)[i] : i \in 1 .. Len(Append(line, to))}
          = {line[i] : i \in 1 .. Len(line)} \cup {to}
    <3> HIDE DEF line
    <3>1. line \in Seq(Status)
      BY <1>5 DEF line
    <3> QED
      BY <1>1, <3>1, AppendFacts
  <2>2. Entered(a)' = {Append(line, to)[i] : i \in 1 .. Len(Append(line, to))}
    BY <1>7 DEF Entered
  <2> QED
    BY <2>1, <2>2 DEF Entered
<1>9. Kept(a)
  BY <1>1, <1>3, <1>7, <1>8 DEF Kept
<1>10. /\ req' \in [Request -> Handler]
       /\ IF req[r].stage = None
            THEN req'[r].pc = "idle"
            ELSE /\ req'[r].pc = "refer" /\ req'[r].student = app[a].student
                 /\ req'[r].stage = req[r].stage
       /\ \A q \in Request \ {r} : req'[q] = req[q]
  <2>1. CASE req[r].stage = None
    BY <2>1, FinishFacts DEF Commit
  <2>2. CASE req[r].stage # None
    <3>1. Begin(r, [Idle EXCEPT !.pc = "refer", !.student = app[a].student,
                                !.stage = req[r].stage])
      BY <1>1, <2>2 DEF Commit
    <3>2. req[r].stage \in Milestones
      BY <1>1, <2>2
    <3>3. app[a].student \in Student
      BY <1>1
    <3>4. /\ req' \in [Request -> Handler]
          /\ req'[r].pc = "refer" /\ req'[r].student = app[a].student
          /\ req'[r].stage = req[r].stage
          /\ \A q \in Request \ {r} : req'[q] = req[q]
      BY <3>1, <3>2, <3>3, ReferFacts
    <3> QED
      BY <2>2, <3>4
  <2> QED
    BY <2>1, <2>2
<1>11. Grown(a, to)
  BY <1>8 DEF Grown
<1> QED
  BY <1>1, <1>3, <1>7, <1>9, <1>10, <1>11 DEF Commit

LEMMA LetterFacts ==
  ASSUME TypeInv, NEW a \in Application, ArchiveLetter(a) \/ RemoveLetter(a)
  PROVE  /\ app[a] # None /\ app' \in [Application -> Row \cup {None}]
         /\ Kept(a) /\ app'[a].status = app[a].status
         /\ \A b \in Application \ {a} : Alike(b)
         /\ UNCHANGED <<timeline, referral, req, history>>
<1>1. PICK letter \in Letter : app' = [app EXCEPT ![a].letter = letter]
  BY DEF ArchiveLetter, RemoveLetter, Letter
<1>2. app[a] # None /\ app[a] \in Row /\ UNCHANGED <<timeline, referral, req, history>>
  BY DEF ArchiveLetter, RemoveLetter, TypeInv, TypeOK
<1> DEFINE new == [app[a] EXCEPT !.letter = letter]
<1>3. /\ new \in Row /\ new # None /\ new.status = app[a].status
      /\ new.student = app[a].student /\ new.offering = app[a].offering
  BY <1>2, NullAssumption DEF Row
<1>4. app' = [app EXCEPT ![a] = new]
  BY <1>1, <1>2 DEF TypeInv, TypeOK
<1> HIDE DEF new
<1>5. app' \in [Application -> Row \cup {None}] /\ app'[a] = new
      /\ \A b \in Application \ {a} : Alike(b)
  BY <1>2, <1>3, <1>4 DEF TypeInv, TypeOK, Alike
<1>6. Kept(a)
  BY <1>2, <1>3, <1>5 DEF Kept, Entered
<1> QED
  BY <1>2, <1>3, <1>5, <1>6

-----------------------------------------------------------------------------
LEMMA ReferReadFacts ==
  ASSUME TypeInv, NEW r \in Request, ReferRead(r), NEW s, s = req[r].student
  PROVE  /\ s \in Student /\ req[r].stage \in Milestones /\ At(r, "refer")
         /\ req' \in [Request -> Handler]
         /\ \A q \in Request \ {r} : req'[q] = req[q]
         /\ UNCHANGED <<store, raced, racedStart, missed, payments>>
         /\ racedReward \subseteq racedReward' /\ racedReward' \subseteq Student
         /\ \/ /\ referral[s] = None \/ ~Behind(referral[s], req[r].stage)
               /\ req'[r].pc = "idle"
            \/ /\ referral[s] # None
               /\ req'[r].pc = "advance" /\ req'[r].student = s
               /\ req'[r].stage = req[r].stage
               /\ req'[r].reward = referral[s].reward /\ referral[s].reward \in Reward
               /\ \A q \in Request \ {r} : /\ req[q].pc \in {"advance", "pay"}
                                           /\ req[q].student = s
                                           => s \in racedReward'
<1>1. s \in Student /\ req[r].stage \in Milestones /\ At(r, "refer")
      /\ UNCHANGED <<store, raced, racedStart, missed, payments>>
  BY DEF ReferRead, At, TypeInv, InFlightOK, HandlerOK
<1>2. racedReward \subseteq racedReward' /\ racedReward' \subseteq Student
  BY <1>1 DEF ReferRead, Contend, TypeInv, TypeOK
<1>3. CASE referral[s] # None /\ Behind(referral[s], req[r].stage)
  <2> DEFINE h == [req[r] EXCEPT !.pc = "advance", !.reward = referral[s].reward]
  <2>1. referral[s].reward \in Reward
    BY <1>1, <1>3 DEF TypeInv, TypeOK, Referral
  <2>2. /\ h \in Handler /\ h.pc = "advance" /\ h.student = s /\ h.stage = req[r].stage
        /\ h.reward = referral[s].reward
    BY <2>1 DEF TypeInv, TypeOK, Handler, Pc
  <2>3. Begin(r, h) /\ Contend(r, s)
    BY <1>3 DEF ReferRead
  <2> HIDE DEF h
  <2>4. req' \in [Request -> Handler] /\ req'[r] = h /\ \A q \in Request \ {r} : req'[q] = req[q]
    BY <2>2, <2>3, BeginFacts
  <2>5. \A q \in Request \ {r} : req[q].pc \in {"advance", "pay"} /\ req[q].student = s
                                   => s \in racedReward'
    BY <2>3 DEF Contend, InFlight
  <2> QED
    BY <1>1, <1>2, <1>3, <2>1, <2>2, <2>4, <2>5
<1>4. CASE ~(referral[s] # None /\ Behind(referral[s], req[r].stage))
  <2>1. Finish(r)
    BY <1>4 DEF ReferRead
  <2> QED
    BY <1>1, <1>2, <1>4, <2>1, FinishFacts
<1> QED
  BY <1>3, <1>4

LEMMA AdvanceFacts ==
  ASSUME TypeInv, NEW r \in Request, Advance(r), NEW s, s = req[r].student
  PROVE  /\ s \in Student /\ referral[s] # None /\ req[r].stage \in Milestones
         /\ referral' \in [Student -> Referral \cup {None}]
         /\ referral'[s] # None /\ referral'[s].stage = req[r].stage
         /\ referral'[s].reward = IF req[r].stage = "ENROLLED"
                                    THEN IF req[r].reward = "PAID" THEN "PAID" ELSE "ELIGIBLE"
                                    ELSE referral[s].reward
         /\ \A u \in Student \ {s} : referral'[u] = referral[u]
         /\ req' \in [Request -> Handler] /\ req'[r].pc = "idle"
         /\ \A q \in Request \ {r} : req'[q] = req[q]
         /\ UNCHANGED <<app, timeline, history>>
<1>1. /\ s \in Student /\ referral[s] # None /\ referral[s] \in Referral
      /\ req[r].stage \in Milestones
  BY DEF Advance, At, TypeInv, TypeOK, InFlightOK, HandlerOK
<1> DEFINE new == Advanced(referral[s], req[r])
<1>2. /\ new \in Referral /\ new.stage = req[r].stage
      /\ new.reward = IF req[r].stage = "ENROLLED"
                        THEN IF req[r].reward = "PAID" THEN "PAID" ELSE "ELIGIBLE"
                        ELSE referral[s].reward
  BY <1>1 DEF Advanced, Referral, Milestones, Reward
<1>3. new # None
  BY <1>2, NullAssumption
<1>4. referral' = [referral EXCEPT ![s] = new]
  BY DEF Advance
<1> HIDE DEF new
<1>5. /\ referral' \in [Student -> Referral \cup {None}] /\ referral'[s] = new
      /\ \A u \in Student \ {s} : referral'[u] = referral[u]
  BY <1>1, <1>2, <1>4 DEF TypeInv, TypeOK
<1>6. /\ req' \in [Request -> Handler] /\ req'[r].pc = "idle"
      /\ \A q \in Request \ {r} : req'[q] = req[q]
  BY FinishFacts DEF Advance
<1> QED
  BY <1>1, <1>2, <1>3, <1>5, <1>6 DEF Advance

LEMMA ApplyFacts ==
  ASSUME TypeInv, NEW s \in Student, ApplyReferral(s)
  PROVE  /\ referral[s] = None
         /\ referral' \in [Student -> Referral \cup {None}]
         /\ referral'[s] # None /\ referral'[s].stage = "REFERRED"
         /\ referral'[s].reward = "NOT_ELIGIBLE"
         /\ \A u \in Student \ {s} : referral'[u] = referral[u]
         /\ Enrolled(s) => s \in missed'
         /\ missed \subseteq missed' /\ missed' \subseteq Student
         /\ UNCHANGED <<app, timeline, req, raced, racedStart, racedReward, payments>>
<1> DEFINE new == [stage |-> "REFERRED", reward |-> "NOT_ELIGIBLE"]
<1>1. new \in Referral /\ new # None /\ new.stage = "REFERRED" /\ new.reward = "NOT_ELIGIBLE"
  BY NullAssumption DEF Referral, Stage, Reward
<1>2. referral' = [referral EXCEPT ![s] = new]
  BY DEF ApplyReferral
<1> HIDE DEF new
<1>3. /\ referral' \in [Student -> Referral \cup {None}] /\ referral'[s] = new
      /\ \A u \in Student \ {s} : referral'[u] = referral[u]
  BY <1>1, <1>2 DEF TypeInv, TypeOK
<1> QED
  BY <1>1, <1>3 DEF ApplyReferral, TypeInv, TypeOK

LEMMA PayReadFacts ==
  ASSUME TypeInv, NEW r \in Request, NEW s \in Student, PayRead(r, s)
  PROVE  /\ referral[s] # None /\ Payable(referral[s]) /\ At(r, "idle")
         /\ req' \in [Request -> Handler]
         /\ req'[r].pc = "pay" /\ req'[r].student = s
         /\ \A q \in Request \ {r} : req'[q] = req[q]
         /\ UNCHANGED <<store, raced, racedStart, missed, payments>>
         /\ racedReward \subseteq racedReward' /\ racedReward' \subseteq Student
         /\ \A q \in Request \ {r} : req[q].pc \in {"advance", "pay"} /\ req[q].student = s
                                       => s \in racedReward'
<1> DEFINE h == [Idle EXCEPT !.pc = "pay", !.student = s]
<1>1. h \in Handler /\ h.pc = "pay" /\ h.student = s
  BY DEF Idle, Handler, Pc
<1>2. Begin(r, h)
  BY DEF PayRead
<1> HIDE DEF h
<1>3. req' \in [Request -> Handler] /\ req'[r] = h /\ \A q \in Request \ {r} : req'[q] = req[q]
  BY <1>1, <1>2, BeginFacts
<1> QED
  BY <1>1, <1>3 DEF PayRead, Contend, InFlight, TypeInv, TypeOK

LEMMA PayCommitFacts ==
  ASSUME TypeInv, NEW r \in Request, PayCommit(r), NEW s, s = req[r].student
  PROVE  /\ s \in Student /\ referral[s] # None
         /\ referral' \in [Student -> Referral \cup {None}]
         /\ referral'[s] # None /\ referral'[s].stage = referral[s].stage
         /\ referral'[s].reward = "PAID"
         /\ \A u \in Student \ {s} : referral'[u] = referral[u]
         /\ payments' \in [Student -> Nat] /\ payments'[s] = payments[s] + 1
         /\ \A u \in Student \ {s} : payments'[u] = payments[u]
         /\ req' \in [Request -> Handler] /\ req'[r].pc = "idle"
         /\ \A q \in Request \ {r} : req'[q] = req[q]
         /\ UNCHANGED <<app, timeline, raced, racedStart, racedReward, missed>>
<1>1. s \in Student /\ referral[s] # None /\ referral[s] \in Referral
  BY DEF PayCommit, At, TypeInv, TypeOK, InFlightOK, HandlerOK
<1> DEFINE new == [referral[s] EXCEPT !.reward = "PAID"]
<1>2. new \in Referral /\ new # None /\ new.stage = referral[s].stage /\ new.reward = "PAID"
  BY <1>1, NullAssumption DEF Referral, Reward
<1>3. referral' = [referral EXCEPT ![s] = new]
  BY <1>1 DEF PayCommit, TypeInv, TypeOK
<1> HIDE DEF new
<1>4. /\ referral' \in [Student -> Referral \cup {None}] /\ referral'[s] = new
      /\ \A u \in Student \ {s} : referral'[u] = referral[u]
  BY <1>1, <1>2, <1>3 DEF TypeInv, TypeOK
<1>5. /\ payments' \in [Student -> Nat] /\ payments'[s] = payments[s] + 1
      /\ \A u \in Student \ {s} : payments'[u] = payments[u]
  BY <1>1 DEF PayCommit, TypeInv, TypeOK
<1>6. /\ req' \in [Request -> Handler] /\ req'[r].pc = "idle"
      /\ \A q \in Request \ {r} : req'[q] = req[q]
  BY FinishFacts DEF PayCommit
<1> QED
  BY <1>1, <1>2, <1>4, <1>5, <1>6 DEF PayCommit

LEMMA DropFacts ==
  ASSUME TypeInv, NEW r \in Request, Drop(r)
  PROVE  /\ req' \in [Request -> Handler] /\ req'[r].pc = "idle"
         /\ \A q \in Request \ {r} : req'[q] = req[q]
         /\ req[r].pc \in {"refer", "advance"} /\ req[r].stage = "ENROLLED"
              => req[r].student \in missed'
         /\ missed \subseteq missed' /\ missed' \subseteq Student
         /\ UNCHANGED <<store, raced, racedStart, racedReward, payments>>
BY FinishFacts DEF Drop, TypeInv, TypeOK, InFlightOK, HandlerOK

-----------------------------------------------------------------------------
(* The type of the state.                                                   *)

(* Rows stay, and a reward never becomes ineligible again. *)
RewardKept(s) ==
  referral[s] # None =>
    /\ referral'[s] # None
    /\ referral[s].reward # "NOT_ELIGIBLE" => referral'[s].reward # "NOT_ELIGIBLE"

LEMMA KeptStep ==
  ASSUME TypeInv, [Next]_vars
  PROVE  /\ \A a \in Application : Kept(a)
         /\ \A s \in Student : RewardKept(s)
<1>1. ASSUME UNCHANGED <<app, timeline>>
      PROVE  \A a \in Application : Kept(a)
  BY <1>1 DEF Kept, Entered
<1>2. ASSUME UNCHANGED referral
      PROVE  \A s \in Student : RewardKept(s)
  BY <1>2 DEF RewardKept
<1>3. ASSUME NEW r \in Request, NEW a \in Application, StartCommit(r, a)
      PROVE  (\A b \in Application : Kept(b)) /\ UNCHANGED referral
  <2>1. app[a] = None /\ (\A b \in Application \ {a} : Alike(b)) /\ UNCHANGED referral
    BY <1>3, StartCommitFacts
  <2> QED
    BY <2>1, AlikeFacts DEF Kept
<1>4. ASSUME NEW r \in Request, Commit(r)
      PROVE  (\A b \in Application : Kept(b)) /\ UNCHANGED referral
  <2>1. /\ Kept(req[r].app) /\ (\A b \in Application \ {req[r].app} : Alike(b))
        /\ UNCHANGED referral
    BY <1>4, CommitFacts
  <2> QED
    BY <2>1, AlikeFacts
<1>5. ASSUME NEW a \in Application, ArchiveLetter(a) \/ RemoveLetter(a)
      PROVE  (\A b \in Application : Kept(b)) /\ UNCHANGED referral
  <2>1. Kept(a) /\ (\A b \in Application \ {a} : Alike(b)) /\ UNCHANGED referral
    BY <1>5, LetterFacts
  <2> QED
    BY <2>1, AlikeFacts
<1>6. ASSUME NEW r \in Request, Advance(r)
      PROVE  (\A s \in Student : RewardKept(s)) /\ UNCHANGED <<app, timeline>>
  <2> DEFINE s == req[r].student
  <2>1. /\ referral'[s] # None
        /\ referral'[s].reward \in {"PAID", "ELIGIBLE", referral[s].reward}
        /\ \A u \in Student \ {s} : referral'[u] = referral[u]
        /\ UNCHANGED <<app, timeline>>
    BY <1>6, AdvanceFacts
  <2> QED
    BY <2>1 DEF RewardKept
<1>7. ASSUME NEW s \in Student, ApplyReferral(s)
      PROVE  (\A u \in Student : RewardKept(u)) /\ UNCHANGED <<app, timeline>>
  BY <1>7, ApplyFacts DEF RewardKept
<1>8. ASSUME NEW r \in Request, PayCommit(r)
      PROVE  (\A u \in Student : RewardKept(u)) /\ UNCHANGED <<app, timeline>>
  BY <1>8, PayCommitFacts DEF RewardKept
<1>9. ASSUME NEW r \in Request, NEW a \in Application, Touch(r, a)
      PROVE  UNCHANGED store
  BY <1>9, TouchFacts
<1>10. CASE UNCHANGED vars
  BY <1>1, <1>2, <1>10 DEF vars, store
<1>11. CASE Next
  BY <1>1, <1>2, <1>3, <1>4, <1>5, <1>6, <1>7, <1>8, <1>9, <1>11
     DEF Next, Touch, StartRead, ReferRead, PayRead, Drop, store
<1> QED
  BY <1>10, <1>11

(* A handler that does not step is fine, and so is one that ended. *)
LEMMA OthersOK ==
  ASSUME TypeInv, [Next]_vars, NEW r \in Request, req'[r] = req[r]
  PROVE  HandlerOK(r)'
<1>1. \A a \in Application : Kept(a)
  BY KeptStep
<1>2. \A s \in Student : RewardKept(s)
  BY KeptStep
<1>3. HandlerOK(r)
  BY DEF TypeInv, InFlightOK
<1>4. At(r, "advance") => req[r].student \in Student
  BY <1>3 DEF HandlerOK, At
<1> QED
  BY <1>1, <1>2, <1>3, <1>4 DEF HandlerOK, At, Kept, RewardKept

LEMMA IdleOK ==
  ASSUME NEW r, req'[r].pc = "idle"
  PROVE  HandlerOK(r)'
BY DEF HandlerOK, At

LEMMA TypeStep == TypeInv /\ [Next]_vars => TypeInv'
<1> SUFFICES ASSUME TypeInv, [Next]_vars PROVE TypeInv'
  OBVIOUS
<1>0. ASSUME NEW r \in Request, \A q \in Request \ {r} : req'[q] = req[q], HandlerOK(r)'
      PROVE  InFlightOK'
  BY <1>0, OthersOK DEF InFlightOK
<1>1. ASSUME NEW r \in Request, NEW s \in Student, NEW o \in Offering, StartRead(r, s, o)
      PROVE  TypeInv'
  <2>1. /\ req' \in [Request -> Handler]
        /\ req'[r].pc = "start" /\ req'[r].student = s /\ req'[r].offering = o
        /\ \A q \in Request \ {r} : req'[q] = req[q]
    BY <1>1, StartReadFacts
  <2>2. InFlightOK'
    BY <1>0, <2>1 DEF HandlerOK, At
  <2>3. racedStart' \subseteq Student \X Offering
    BY <1>1 DEF StartRead, TypeInv, TypeOK
  <2> QED
    BY <1>1, <2>1, <2>2, <2>3 DEF StartRead, TypeInv, TypeOK, Told, store
<1>2. ASSUME NEW r \in Request, NEW a \in Application, StartCommit(r, a)
      PROVE  TypeInv'
  <2> DEFINE s == req[r].student
  <2>1. /\ s \in Student
        /\ app' \in [Application -> Row \cup {None}] /\ app'[a] # None
        /\ timeline' \in [Application -> Seq(Status)] /\ timeline'[a] = <<First>>
        /\ \A b \in Application \ {a} : Alike(b)
        /\ req' \in [Request -> Handler]
        /\ req'[r].pc = "refer" /\ req'[r].student = s /\ req'[r].stage = First
        /\ \A q \in Request \ {r} : req'[q] = req[q]
        /\ UNCHANGED <<referral, history>>
    BY <1>2, StartCommitFacts
  <2>2. First \in Milestones
    BY DEF First, Milestones, Stage
  <2>3. InFlightOK'
    BY <1>0, <2>1, <2>2 DEF HandlerOK, At
  <2>4. Told'
    <3>1. timeline'[a] # <<>>
      BY <2>1
    <3>2. ASSUME NEW b \in Application
          PROVE  app'[b] = None <=> timeline'[b] = <<>>
      <4>1. CASE b = a
        BY <2>1, <3>1, <4>1
      <4>2. CASE b # a
        BY <2>1, <4>2 DEF Told, Alike, TypeInv
      <4> QED
        BY <4>1, <4>2
    <3> QED
      BY <3>2 DEF Told
  <2> QED
    BY <2>1, <2>3, <2>4 DEF TypeInv, TypeOK, history
<1>3. ASSUME NEW r \in Request, NEW a \in Application, Touch(r, a)
      PROVE  TypeInv'
  <2>1. /\ app[a] # None
        /\ req' \in [Request -> Handler] /\ Planned(req'[r], a)
        /\ \A q \in Request \ {r} : req'[q] = req[q]
        /\ raced' \subseteq Application
        /\ UNCHANGED <<store, racedStart, racedReward, missed, payments>>
    BY <1>3, TouchFacts
  <2>2. InFlightOK'
    BY <1>0, <2>1 DEF HandlerOK, At, Planned, store
  <2> QED
    BY <2>1, <2>2 DEF TypeInv, TypeOK, Told, store
<1>4. ASSUME NEW r \in Request, Commit(r)
      PROVE  TypeInv'
  <2> DEFINE a == req[r].app
             to == req[r].to
  <2>1. /\ a \in Application /\ to \in Status /\ app[a] # None
        /\ app' \in [Application -> Row \cup {None}] /\ Kept(a)
        /\ timeline' \in [Application -> Seq(Status)]
        /\ timeline'[a] = Append(timeline[a], to)
        /\ \A b \in Application \ {a} : Alike(b)
        /\ req' \in [Request -> Handler]
        /\ \A q \in Request \ {r} : req'[q] = req[q]
        /\ UNCHANGED <<referral, history>>
    BY <1>4, CommitFacts
  <2>2. IF req[r].stage = None
          THEN req'[r].pc = "idle"
          ELSE /\ req'[r].pc = "refer" /\ req'[r].student = app[a].student
               /\ req'[r].stage = req[r].stage /\ req[r].stage \in Milestones
    BY <1>4, CommitFacts
  <2>3. app[a].student \in Student
    BY <2>1 DEF TypeInv, TypeOK, Row
  <2>4. InFlightOK'
    BY <1>0, <2>1, <2>2, <2>3 DEF HandlerOK, At
  <2>5. timeline'[a] # <<>>
    <3>1. timeline[a] \in Seq(Status)
      BY <2>1 DEF TypeInv, TypeOK
    <3> QED
      BY <2>1, <3>1, AppendFacts
  <2>6. Told'
    BY <2>1, <2>5 DEF Told, Alike, Kept, TypeInv
  <2> QED
    BY <2>1, <2>4, <2>6 DEF TypeInv, TypeOK, history
<1>5. ASSUME NEW r \in Request, ReferRead(r)
      PROVE  TypeInv'
  <2>1. /\ req' \in [Request -> Handler]
        /\ \A q \in Request \ {r} : req'[q] = req[q]
        /\ UNCHANGED <<store, raced, racedStart, missed, payments>>
        /\ racedReward' \subseteq Student
    BY <1>5, ReferReadFacts
  <2>2. HandlerOK(r)'
    BY <1>5, <2>1, ReferReadFacts DEF HandlerOK, At, store
  <2> QED
    BY <1>0, <2>1, <2>2 DEF TypeInv, TypeOK, Told, store
<1>6. ASSUME NEW r \in Request, Advance(r)
      PROVE  TypeInv'
  BY <1>0, <1>6, AdvanceFacts, IdleOK DEF TypeInv, TypeOK, Told, history
<1>7. ASSUME NEW s \in Student, ApplyReferral(s)
      PROVE  TypeInv'
  <2>1. InFlightOK'
    BY <1>7, ApplyFacts, OthersOK DEF InFlightOK
  <2> QED
    BY <1>7, <2>1, ApplyFacts DEF TypeInv, TypeOK, Told
<1>8. ASSUME NEW r \in Request, NEW s \in Student, PayRead(r, s)
      PROVE  TypeInv'
  <2>1. /\ referral[s] # None
        /\ req' \in [Request -> Handler]
        /\ req'[r].pc = "pay" /\ req'[r].student = s
        /\ \A q \in Request \ {r} : req'[q] = req[q]
        /\ UNCHANGED <<store, raced, racedStart, missed, payments>>
        /\ racedReward' \subseteq Student
    BY <1>8, PayReadFacts
  <2>2. HandlerOK(r)'
    BY <2>1 DEF HandlerOK, At, store
  <2> QED
    BY <1>0, <2>1, <2>2 DEF TypeInv, TypeOK, Told, store
<1>9. ASSUME NEW r \in Request, PayCommit(r)
      PROVE  TypeInv'
  BY <1>0, <1>9, PayCommitFacts, IdleOK DEF TypeInv, TypeOK, Told
<1>10. ASSUME NEW a \in Application, ArchiveLetter(a) \/ RemoveLetter(a)
       PROVE  TypeInv'
  <2>1. /\ app[a] # None /\ app' \in [Application -> Row \cup {None}] /\ Kept(a)
        /\ \A b \in Application \ {a} : Alike(b)
        /\ UNCHANGED <<timeline, referral, req, history>>
    BY <1>10, LetterFacts
  <2>2. InFlightOK'
    BY <2>1, OthersOK DEF InFlightOK
  <2>3. Told'
    BY <2>1 DEF Told, Alike, Kept, TypeInv
  <2> QED
    BY <2>1, <2>2, <2>3 DEF TypeInv, TypeOK, history
<1>11. ASSUME NEW r \in Request, Drop(r)
       PROVE  TypeInv'
  BY <1>0, <1>11, DropFacts, IdleOK DEF TypeInv, TypeOK, Told, store
<1>12. CASE UNCHANGED vars
  BY <1>12, OthersOK DEF vars, store, history, TypeInv, TypeOK, Told, InFlightOK
<1>13. CASE Next
  BY <1>1, <1>2, <1>3, <1>4, <1>5, <1>6, <1>7, <1>8, <1>9, <1>10, <1>11, <1>13 DEF Next, Touch
<1> QED
  BY <1>12, <1>13

LEMMA TypeInit == Init => TypeInv
<1> SUFFICES ASSUME Init PROVE TypeInv
  OBVIOUS
<1>1. Idle \in Handler /\ Idle.pc = "idle"
  BY DEF Idle, Handler, Pc
<1>2. [stage |-> "REGISTERED", reward |-> "NOT_ELIGIBLE"] \in Referral
  BY DEF Referral, Stage, Reward
<1>3. TypeOK
  BY <1>1, <1>2 DEF Init, TypeOK
<1>4. InFlightOK
  BY <1>1 DEF Init, InFlightOK, HandlerOK, At
<1> QED
  BY <1>3, <1>4 DEF Init, TypeInv, Told

(* Rows, handlers and histories keep their types, whatever overlaps. *)
THEOREM TypeCorrect == Spec => []TypeOK
<1>1. TypeInv => TypeOK
  BY DEF TypeInv
<1> QED
  BY <1>1, TypeInit, TypeStep, PTL DEF Spec

-----------------------------------------------------------------------------
(* Statuses are earned.                                                     *)

Later == Status \ {First}

(* The status an application must have been given before. *)
Before(status) ==
  CASE status \in {"SUBMITTED", "WITHDRAWN"}   -> First
    [] status = "UNDER_REVIEW"                 -> "SUBMITTED"
    [] status \in {"OFFER_RECEIVED", "REJECTED"} -> "UNDER_REVIEW"
    [] status = "ACCEPTED"                     -> "OFFER_RECEIVED"
    [] status = "ENROLLED"                     -> "ACCEPTED"

(* The statuses of an application, the prerequisites among them. *)
Closed(E) == First \in E /\ \A status \in E \ {First} : Before(status) \in E

LEMMA LegalFacts ==
  ASSUME NEW from \in Status, NEW to \in Status, Legal(from, to), NEW E, Closed(E), from \in E
  PROVE  to \in Later /\ Before(to) \in E
<1>1. to \in Later
  BY DEF Legal, Later, First
<1>2. CASE from = "OFFER_RECEIVED" /\ to = "REJECTED"
  <2>1. Before(from) \in E /\ Before(from) = "UNDER_REVIEW" /\ Before(to) = "UNDER_REVIEW"
    BY <1>2 DEF Closed, Before, First
  <2> QED
    BY <1>1, <2>1
<1>3. CASE ~(from = "OFFER_RECEIVED" /\ to = "REJECTED")
  <2>1. Before(to) \in {from, First}
    BY <1>3 DEF Legal, Before, First
  <2> QED
    BY <1>1, <2>1 DEF Closed
<1> QED
  BY <1>2, <1>3

LEMMA ClosedGrows ==
  ASSUME NEW E, Closed(E), NEW to \in Later, Before(to) \in E
  PROVE  Closed(E \cup {to})
BY DEF Closed, Later

EarnedStatus(a) == app[a] # None => app[a].status \in Entered(a) /\ Closed(Entered(a))

(* What a handler is about to write is earned when it writes it. *)
EarnedPlan(r) ==
  /\ At(r, "commit") => /\ req[r].to \in Later /\ Before(req[r].to) \in Entered(req[r].app)
                        /\ req[r].stage # None => Evidence(req[r].stage) = req[r].to
                        /\ req[r].to = "ENROLLED" => req[r].stage = "ENROLLED"

Earned ==
  /\ \A a \in Application : EarnedStatus(a)
  /\ \A r \in Request : EarnedPlan(r)

LEMMA EarnedStep == TypeInv /\ Earned /\ [Next]_vars => Earned'
<1> SUFFICES ASSUME TypeInv, Earned, [Next]_vars PROVE Earned'
  OBVIOUS
<1>1. ASSUME NEW r \in Request, req'[r] = req[r]
      PROVE  EarnedPlan(r)'
  <2> SUFFICES ASSUME At(r, "commit")'
               PROVE  EarnedPlan(r)'
    BY DEF EarnedPlan
  <2>1. At(r, "commit") /\ EarnedPlan(r) /\ HandlerOK(r)
    BY <1>1 DEF At, Earned, TypeInv, InFlightOK
  <2>2. Kept(req[r].app) /\ app[req[r].app] # None
    BY <2>1, KeptStep DEF HandlerOK
  <2> QED
    BY <1>1, <2>1, <2>2 DEF EarnedPlan, Kept
<1>2. ASSUME NEW r \in Request, req'[r].pc # "commit"
      PROVE  EarnedPlan(r)'
  BY <1>2 DEF EarnedPlan, At
<1>3. ASSUME UNCHANGED <<app, timeline>>
      PROVE  \A a \in Application : EarnedStatus(a)'
  BY <1>3 DEF Earned, EarnedStatus, Entered
<1>4. ASSUME NEW r \in Request, UNCHANGED <<app, timeline>>, req'[r].pc # "commit",
             \A q \in Request \ {r} : req'[q] = req[q]
      PROVE  Earned'
  BY <1>1, <1>2, <1>3, <1>4 DEF Earned
<1>5. ASSUME NEW r \in Request, NEW a \in Application, StartCommit(r, a)
      PROVE  Earned'
  <2>1. /\ app'[a].status = First /\ Entered(a)' = {First}
        /\ \A b \in Application \ {a} : Alike(b)
        /\ req'[r].pc = "refer"
        /\ \A q \in Request \ {r} : req'[q] = req[q]
    BY <1>5, StartCommitFacts
  <2>2. EarnedStatus(a)'
    BY <2>1 DEF EarnedStatus, Closed
  <2>3. ASSUME NEW b \in Application \ {a}
        PROVE  EarnedStatus(b)'
    <3>1. app'[b] = app[b] /\ Entered(b)' = Entered(b) /\ EarnedStatus(b)
      BY <2>1, AlikeFacts DEF Earned, Alike
    <3> QED
      BY <3>1 DEF EarnedStatus
  <2> QED
    BY <1>1, <1>2, <2>1, <2>2, <2>3 DEF Earned
<1>6. ASSUME NEW r \in Request, Commit(r)
      PROVE  Earned'
  <2>0. PICK a, to : a = req[r].app /\ to = req[r].to
    OBVIOUS
  <2>1. /\ a \in Application /\ app[a] # None
        /\ app'[a].status = to /\ Grown(a, to)
        /\ \A b \in Application \ {a} : Alike(b)
        /\ \A q \in Request \ {r} : req'[q] = req[q]
    BY <1>6, <2>0, CommitFacts
  <2>2. req'[r].pc \in {"idle", "refer"}
    BY <1>6, <2>0, CommitFacts
  <2>3. to \in Later /\ Before(to) \in Entered(a) /\ Closed(Entered(a))
    BY <1>6, <2>0, <2>1 DEF Commit, Earned, EarnedPlan, EarnedStatus
  <2>4. Closed(Entered(a) \cup {to})
    BY <2>3, ClosedGrows
  <2>5. EarnedStatus(a)'
    BY <2>1, <2>4 DEF EarnedStatus, Grown
  <2>6. ASSUME NEW b \in Application \ {a}
        PROVE  EarnedStatus(b)'
    <3>1. app'[b] = app[b] /\ Entered(b)' = Entered(b) /\ EarnedStatus(b)
      BY <2>1, AlikeFacts DEF Earned, Alike
    <3> QED
      BY <3>1 DEF EarnedStatus
  <2> QED
    BY <1>1, <1>2, <2>1, <2>2, <2>5, <2>6 DEF Earned
<1>7. ASSUME NEW a \in Application, ArchiveLetter(a) \/ RemoveLetter(a)
      PROVE  Earned'
  <2>1. /\ app[a] # None /\ app'[a].status = app[a].status
        /\ \A b \in Application \ {a} : Alike(b)
        /\ UNCHANGED <<timeline, req>>
    BY <1>7, LetterFacts
  <2>2. ASSUME NEW b \in Application
        PROVE  EarnedStatus(b)'
    BY <2>1 DEF Earned, EarnedStatus, Alike, Entered
  <2> QED
    BY <1>1, <2>1, <2>2 DEF Earned
<1>8. ASSUME NEW r \in Request, NEW a \in Application, Touch(r, a)
      PROVE  Earned'
  <2>1. /\ app[a] # None /\ Planned(req'[r], a)
        /\ \A q \in Request \ {r} : req'[q] = req[q]
        /\ UNCHANGED <<app, timeline>>
    BY <1>8, TouchFacts DEF store
  <2>2. app[a].status \in Status
    BY <2>1 DEF TypeInv, TypeOK, Row
  <2>3. app[a].status \in Entered(a) /\ Closed(Entered(a))
    BY <2>1 DEF Earned, EarnedStatus
  <2>4. req'[r].to \in Later /\ Before(req'[r].to) \in Entered(a)
    BY <2>1, <2>2, <2>3, LegalFacts DEF Planned
  <2>5. EarnedPlan(r)'
    BY <2>1, <2>4 DEF EarnedPlan, Planned, Entered
  <2> QED
    BY <1>1, <1>3, <2>1, <2>5 DEF Earned
<1>9. ASSUME NEW r \in Request, ReferRead(r) \/ Advance(r) \/ PayCommit(r) \/ Drop(r)
      PROVE  Earned'
  <2>1. /\ req'[r].pc # "commit" /\ UNCHANGED <<app, timeline>>
        /\ \A q \in Request \ {r} : req'[q] = req[q]
    BY <1>9, ReferReadFacts, AdvanceFacts, PayCommitFacts, DropFacts DEF store
  <2> QED
    BY <1>4, <2>1
<1>10. ASSUME NEW r \in Request, NEW s \in Student,
              PayRead(r, s) \/ \E o \in Offering : StartRead(r, s, o)
       PROVE  Earned'
  <2>1. /\ req'[r].pc # "commit" /\ UNCHANGED <<app, timeline>>
        /\ \A q \in Request \ {r} : req'[q] = req[q]
    BY <1>10, StartReadFacts, PayReadFacts DEF StartRead, store
  <2> QED
    BY <1>4, <2>1
<1>11. CASE UNCHANGED <<app, timeline, req>>
  BY <1>1, <1>3, <1>11 DEF Earned
<1>12. CASE UNCHANGED vars
  BY <1>11, <1>12 DEF vars, store
<1>13. CASE Next
  BY <1>5, <1>6, <1>7, <1>8, <1>9, <1>10, <1>11, <1>13 DEF Next, Touch, ApplyReferral
<1> QED
  BY <1>12, <1>13

-----------------------------------------------------------------------------
(* Stages and rewards are earned.                                           *)

ShownBy(s, stage) ==
  \E a \in Application :
    app[a] # None /\ app[a].student = s /\ Evidence(stage) \in Entered(a)

EarnedStage(r) ==
  req[r].pc \in {"refer", "advance"} => ShownBy(req[r].student, req[r].stage)

EarnedReward(r) ==
  /\ At(r, "pay") => referral[req[r].student].reward # "NOT_ELIGIBLE"
  /\ At(r, "advance") /\ req[r].reward = "PAID" =>
       referral[req[r].student].reward # "NOT_ELIGIBLE"

(* A referral and what it says. *)
RealStage(s) ==
  referral[s] # None /\ Rank(referral[s].stage) > 0 => ShownBy(s, referral[s].stage)

Rewarded(s) ==
  referral[s] # None /\ referral[s].stage = "ENROLLED" => referral[s].reward # "NOT_ELIGIBLE"

Referred ==
  /\ \A r \in Request : EarnedStage(r) /\ EarnedReward(r)
  /\ \A s \in Student : RealStage(s) /\ Rewarded(s)

LEMMA ShownKept ==
  ASSUME TypeInv, [Next]_vars, NEW s, NEW stage, ShownBy(s, stage)
  PROVE  ShownBy(s, stage)'
<1>1. PICK a \in Application : app[a] # None /\ app[a].student = s /\ Evidence(stage) \in Entered(a)
  BY DEF ShownBy
<1>2. Kept(a)
  BY KeptStep
<1> QED
  BY <1>1, <1>2 DEF ShownBy, Kept

LEMMA OthersReferred ==
  ASSUME TypeInv, Referred, [Next]_vars, NEW r \in Request, req'[r] = req[r]
  PROVE  EarnedStage(r)' /\ EarnedReward(r)'
<1>1. EarnedStage(r) /\ EarnedReward(r) /\ HandlerOK(r)
  BY DEF Referred, TypeInv, InFlightOK
<1>2. EarnedStage(r)'
  BY <1>1, ShownKept DEF EarnedStage
<1>3. \A s \in Student : RewardKept(s)
  BY KeptStep
<1>4. EarnedReward(r)'
  BY <1>1, <1>3 DEF EarnedReward, HandlerOK, At, RewardKept
<1> QED
  BY <1>2, <1>4

(* A referral that stays as it is stays real. *)
LEMMA ReferralReal ==
  ASSUME TypeInv, Referred, [Next]_vars, NEW s \in Student, referral'[s] = referral[s]
  PROVE  RealStage(s)' /\ Rewarded(s)'
<1>1. RealStage(s) /\ Rewarded(s)
  BY DEF Referred
<1>2. RealStage(s)'
  BY <1>1, ShownKept DEF RealStage
<1> QED
  BY <1>1, <1>2 DEF Rewarded

LEMMA ReferredStep == TypeInv /\ Earned /\ Referred /\ [Next]_vars => Referred'
<1> SUFFICES ASSUME TypeInv, Earned, Referred, [Next]_vars PROVE Referred'
  OBVIOUS
<1>1. ASSUME NEW r \in Request, \A q \in Request \ {r} : req'[q] = req[q],
             EarnedStage(r)', EarnedReward(r)', UNCHANGED referral
      PROVE  Referred'
  BY <1>1, OthersReferred, ReferralReal DEF Referred
<1>2. ASSUME NEW r, req'[r].pc \in {"idle", "start", "commit"}
      PROVE  EarnedStage(r)' /\ EarnedReward(r)'
  BY <1>2 DEF EarnedStage, EarnedReward, At
<1>3. ASSUME NEW r, req'[r].pc = "refer"
      PROVE  EarnedReward(r)'
  BY <1>3 DEF EarnedReward, At
<1>4. ASSUME NEW r \in Request, NEW a \in Application, StartCommit(r, a)
      PROVE  Referred'
  <2>1. PICK s : s = req[r].student
    OBVIOUS
  <2>2. /\ app'[a] # None /\ app'[a].student = s /\ Entered(a)' = {First}
        /\ req'[r].pc = "refer" /\ req'[r].student = s /\ req'[r].stage = First
        /\ \A q \in Request \ {r} : req'[q] = req[q]
        /\ UNCHANGED referral
    BY <1>4, <2>1, StartCommitFacts
  <2>3. Evidence(First) = First
    BY DEF Evidence, First
  <2>4. ShownBy(s, First)'
    BY <2>2, <2>3 DEF ShownBy
  <2>5. EarnedStage(r)'
    BY <2>2, <2>4 DEF EarnedStage
  <2> QED
    BY <1>1, <1>3, <2>2, <2>5
<1>5. ASSUME NEW r \in Request, Commit(r)
      PROVE  Referred'
  <2>1. PICK a, to, stage : a = req[r].app /\ to = req[r].to /\ stage = req[r].stage
    OBVIOUS
  <2>2. /\ a \in Application /\ app[a] # None /\ Kept(a) /\ Grown(a, to)
        /\ \A q \in Request \ {r} : req'[q] = req[q]
        /\ UNCHANGED referral
    BY <1>5, <2>1, CommitFacts
  <2>3. CASE stage = None
    <3>1. req'[r].pc = "idle"
      BY <1>5, <2>1, <2>3, CommitFacts
    <3> QED
      BY <1>1, <1>2, <2>2, <3>1
  <2>4. CASE stage # None
    <3>1. req'[r].pc = "refer" /\ req'[r].student = app[a].student /\ req'[r].stage = stage
      BY <1>5, <2>1, <2>4, CommitFacts
    <3>2. Evidence(stage) = to
      BY <1>5, <2>1, <2>4 DEF Commit, Earned, EarnedPlan
    <3>3. app'[a] # None /\ app'[a].student = app[a].student /\ Evidence(stage) \in Entered(a)'
      BY <2>2, <3>2 DEF Kept, Grown
    <3>4. ShownBy(app[a].student, stage)'
      BY <2>2, <3>3 DEF ShownBy
    <3>5. EarnedStage(r)'
      BY <3>1, <3>3, <3>4 DEF EarnedStage, ShownBy
    <3> QED
      BY <1>1, <1>3, <2>2, <3>1, <3>5
  <2> QED
    BY <2>3, <2>4
<1>6. ASSUME NEW r \in Request, ReferRead(r)
      PROVE  Referred'
  <2>1. PICK s, stage : s = req[r].student /\ stage = req[r].stage
    OBVIOUS
  <2>2. /\ At(r, "refer") /\ s \in Student
        /\ \A q \in Request \ {r} : req'[q] = req[q]
        /\ UNCHANGED referral
    BY <1>6, <2>1, ReferReadFacts DEF store
  <2>3. CASE req'[r].pc = "idle"
    BY <1>1, <1>2, <2>2, <2>3
  <2>4. CASE /\ req'[r].pc = "advance" /\ req'[r].student = s /\ req'[r].stage = stage
             /\ req'[r].reward = referral[s].reward
    <3>1. ShownBy(s, stage)
      BY <2>1, <2>2 DEF Referred, EarnedStage, At
    <3>2. EarnedStage(r)'
      BY <2>4, <3>1, ShownKept DEF EarnedStage
    <3>3. EarnedReward(r)'
      BY <2>2, <2>4 DEF EarnedReward, At
    <3> QED
      BY <1>1, <2>2, <3>2, <3>3
  <2> QED
    BY <1>6, <2>1, <2>3, <2>4, ReferReadFacts
<1>7. ASSUME NEW r \in Request, Advance(r)
      PROVE  Referred'
  <2>1. PICK s, stage : s = req[r].student /\ stage = req[r].stage
    OBVIOUS
  <2>2. /\ s \in Student /\ referral[s] # None
        /\ referral'[s].stage = stage
        /\ referral'[s].reward = IF stage = "ENROLLED"
                                   THEN IF req[r].reward = "PAID" THEN "PAID" ELSE "ELIGIBLE"
                                   ELSE referral[s].reward
        /\ \A u \in Student \ {s} : referral'[u] = referral[u]
        /\ req'[r].pc = "idle"
        /\ \A q \in Request \ {r} : req'[q] = req[q]
    BY <1>7, <2>1, AdvanceFacts
  <2>3. ShownBy(s, stage)
    BY <1>7, <2>1 DEF Advance, At, Referred, EarnedStage
  <2>4. RealStage(s)'
    BY <2>2, <2>3, ShownKept DEF RealStage
  <2>5. Rewarded(s)'
    BY <2>2 DEF Rewarded
  <2> QED
    BY <1>2, <2>2, <2>4, <2>5, OthersReferred, ReferralReal DEF Referred
<1>8. ASSUME NEW s \in Student, ApplyReferral(s)
      PROVE  Referred'
  <2>1. /\ referral'[s].stage = "REFERRED"
        /\ \A u \in Student \ {s} : referral'[u] = referral[u]
        /\ req' = req
    BY <1>8, ApplyFacts
  <2>2. RealStage(s)' /\ Rewarded(s)'
    BY <2>1 DEF RealStage, Rewarded, Rank
  <2> QED
    BY <2>1, <2>2, OthersReferred, ReferralReal DEF Referred
<1>9. ASSUME NEW r \in Request, NEW s \in Student, PayRead(r, s)
      PROVE  Referred'
  <2>1. /\ Payable(referral[s]) /\ req'[r].pc = "pay" /\ req'[r].student = s
        /\ \A q \in Request \ {r} : req'[q] = req[q]
        /\ UNCHANGED referral
    BY <1>9, PayReadFacts DEF store
  <2>2. EarnedStage(r)' /\ EarnedReward(r)'
    BY <2>1 DEF EarnedStage, EarnedReward, At, Payable
  <2> QED
    BY <1>1, <2>1, <2>2
<1>10. ASSUME NEW r \in Request, PayCommit(r)
       PROVE  Referred'
  <2>1. PICK s : s = req[r].student
    OBVIOUS
  <2>2. /\ s \in Student /\ referral[s] # None
        /\ referral'[s].stage = referral[s].stage /\ referral'[s].reward = "PAID"
        /\ \A u \in Student \ {s} : referral'[u] = referral[u]
        /\ req'[r].pc = "idle"
        /\ \A q \in Request \ {r} : req'[q] = req[q]
    BY <1>10, <2>1, PayCommitFacts
  <2>3. RealStage(s)'
    BY <2>2, ShownKept DEF RealStage, Referred
  <2>4. Rewarded(s)'
    BY <2>2 DEF Rewarded
  <2> QED
    BY <1>2, <2>2, <2>3, <2>4, OthersReferred, ReferralReal DEF Referred
<1>11. ASSUME NEW r \in Request,
              \/ Drop(r)
              \/ \E a \in Application : Touch(r, a)
              \/ \E s \in Student, o \in Offering : StartRead(r, s, o)
       PROVE  Referred'
  <2>1. /\ req'[r].pc \in {"idle", "start", "commit"}
        /\ \A q \in Request \ {r} : req'[q] = req[q]
        /\ UNCHANGED referral
    BY <1>11, DropFacts, TouchFacts, StartReadFacts DEF StartRead, Planned, store
  <2> QED
    BY <1>1, <1>2, <2>1
<1>12. CASE UNCHANGED <<referral, req>>
  BY <1>12, OthersReferred, ReferralReal DEF Referred
<1>13. CASE UNCHANGED vars
  BY <1>12, <1>13 DEF vars, store
<1>14. CASE Next
  BY <1>4, <1>5, <1>6, <1>7, <1>8, <1>9, <1>10, <1>11, <1>12, <1>14
     DEF Next, Touch, ArchiveLetter, RemoveLetter
<1> QED
  BY <1>13, <1>14

LEMMA ReferredInit == Init => Earned /\ Referred
<1> SUFFICES ASSUME Init PROVE Earned /\ Referred
  OBVIOUS
<1>1. \A r \in Request : req[r].pc = "idle"
  BY DEF Init, Idle
<1>2. \A s \in Student : referral[s] # None => referral[s].stage = "REGISTERED"
  BY DEF Init
<1>3. Earned
  BY <1>1 DEF Init, Earned, EarnedStatus, EarnedPlan, At
<1>4. \A s \in Student : RealStage(s) /\ Rewarded(s)
  BY <1>2 DEF RealStage, Rewarded, Rank
<1> QED
  BY <1>1, <1>3, <1>4 DEF Referred, EarnedStage, EarnedReward, At

EarnedInv == TypeInv /\ Earned /\ Referred

LEMMA EarnedInductive == Spec => []EarnedInv
<1>1. Init => EarnedInv
  BY TypeInit, ReferredInit DEF EarnedInv
<1>2. EarnedInv /\ [Next]_vars => EarnedInv'
  BY TypeStep, EarnedStep, ReferredStep DEF EarnedInv
<1> QED
  BY <1>1, <1>2, PTL DEF Spec

(* However requests overlap, a referral stands at no stage its student has  *)
(* not reached with some application. *)
THEOREM StagesAreReal == Spec => []StageIsReal
<1>1. EarnedInv => StageIsReal
  BY DEF EarnedInv, Referred, RealStage, ShownBy, StageIsReal
<1> QED
  BY <1>1, EarnedInductive, PTL

-----------------------------------------------------------------------------
(* Enrolments are credited.                                                 *)

Crediting(r, s) ==
  req[r].pc \in {"refer", "advance"} /\ req[r].student = s /\ req[r].stage = "ENROLLED"

Due(s) == Enrolled(s) /\ referral[s] # None

Credited(s) ==
  Due(s) => referral[s].reward # "NOT_ELIGIBLE" \/ \E r \in Request : Crediting(r, s)

(* A step that enrols and refers nobody, and ends no handler that will      *)
(* credit s. *)
LEMMA CreditedKept ==
  ASSUME TypeInv, [Next]_vars, NEW s \in Student, Credited(s), Due(s)' => Due(s),
         \A r \in Request : Crediting(r, s) => Crediting(r, s)'
  PROVE  Credited(s)'
<1>1. RewardKept(s)
  BY KeptStep
<1> QED
  BY <1>1 DEF Credited, Due, RewardKept

LEMMA OthersCrediting ==
  ASSUME NEW r \in Request, NEW s, \A q \in Request \ {r} : req'[q] = req[q], ~Crediting(r, s)
  PROVE  \A q \in Request : Crediting(q, s) => Crediting(q, s)'
BY DEF Crediting

LEMMA CreditStep == EarnedInv /\ EnrolmentIsCredited /\ [Next]_vars => EnrolmentIsCredited'
<1> SUFFICES ASSUME TypeInv, Earned, Referred, EnrolmentIsCredited, [Next]_vars,
                    NEW s \in Student, s \notin missed'
             PROVE  Credited(s)'
  BY DEF EarnedInv, EnrolmentIsCredited, Credited, Due, Crediting
<1>1. ASSUME s \notin missed
      PROVE  Credited(s)
  BY <1>1 DEF EnrolmentIsCredited, Credited, Due, Crediting
<1>2. ASSUME NEW r \in Request, s \notin missed, UNCHANGED store, ~Crediting(r, s),
             \A q \in Request \ {r} : req'[q] = req[q]
      PROVE  Credited(s)'
  <2>1. Due(s)' <=> Due(s)
    BY <1>2 DEF Due, Enrolled, Entered, store
  <2> QED
    BY <1>1, <1>2, <2>1, OthersCrediting, CreditedKept
<1>3. ASSUME NEW r \in Request, NEW a \in Application, StartCommit(r, a)
      PROVE  Credited(s)'
  <2>1. /\ Entered(a)' = {First}
        /\ \A b \in Application \ {a} : Alike(b)
        /\ \A q \in Request \ {r} : req'[q] = req[q]
        /\ UNCHANGED referral /\ s \notin missed
    BY <1>3, StartCommitFacts DEF history
  <2>2. Enrolled(s)' => Enrolled(s)
    <3>1. First # "ENROLLED"
      BY DEF First
    <3> QED
      BY <2>1, <3>1, AlikeFacts DEF Enrolled, Alike
  <2>3. ~Crediting(r, s)
    BY <1>3 DEF StartCommit, At, Crediting
  <2> QED
    BY <1>1, <2>1, <2>2, <2>3, OthersCrediting, CreditedKept DEF Due
<1>4. ASSUME NEW r \in Request, Commit(r)
      PROVE  Credited(s)'
  <2>1. PICK a, to : a = req[r].app /\ to = req[r].to
    OBVIOUS
  <2>2. /\ a \in Application /\ app[a] # None /\ Kept(a) /\ Grown(a, to)
        /\ \A b \in Application \ {a} : Alike(b)
        /\ \A q \in Request \ {r} : req'[q] = req[q]
        /\ UNCHANGED referral /\ s \notin missed
    BY <1>4, <2>1, CommitFacts DEF history
  <2>3. ~Crediting(r, s)
    BY <1>4 DEF Commit, At, Crediting
  <2>4. CASE to = "ENROLLED" /\ app[a].student = s
    <3>1. req[r].stage = "ENROLLED" /\ req[r].stage # None
      <4>1. "ENROLLED" # None
        BY NullAssumption DEF Status
      <4> QED
        BY <1>4, <2>1, <2>4, <4>1 DEF Commit, Earned, EarnedPlan
    <3>2. Crediting(r, s)'
      BY <1>4, <2>1, <2>4, <3>1, CommitFacts DEF Crediting
    <3> QED
      BY <3>2 DEF Credited
  <2>5. CASE ~(to = "ENROLLED" /\ app[a].student = s)
    <3>1. ASSUME NEW b \in Application, app'[b] # None, app'[b].student = s,
                 "ENROLLED" \in Entered(b)'
          PROVE  app[b] # None /\ app[b].student = s /\ "ENROLLED" \in Entered(b)
      <4>1. CASE b = a
        <5>1. app[a].student = s
          BY <2>2, <3>1, <4>1 DEF Kept
        <5> QED
          BY <2>2, <2>5, <3>1, <4>1, <5>1 DEF Grown
      <4>2. CASE b # a
        BY <2>2, <3>1, <4>2, AlikeFacts DEF Alike
      <4> QED
        BY <4>1, <4>2
    <3>2. Enrolled(s)' => Enrolled(s)
      BY <3>1 DEF Enrolled
    <3> QED
      BY <1>1, <2>2, <2>3, <3>2, OthersCrediting, CreditedKept DEF Due
  <2> QED
    BY <2>4, <2>5
<1>5. ASSUME NEW a \in Application, ArchiveLetter(a) \/ RemoveLetter(a)
      PROVE  Credited(s)'
  <2>1. /\ Kept(a) /\ app[a] # None
        /\ \A b \in Application \ {a} : Alike(b)
        /\ UNCHANGED <<timeline, referral, req>> /\ s \notin missed
    BY <1>5, LetterFacts DEF history
  <2>2. Enrolled(s)' => Enrolled(s)
    BY <2>1 DEF Enrolled, Entered, Alike, Kept
  <2> QED
    BY <1>1, <2>1, <2>2, CreditedKept DEF Due, Crediting
<1>6. ASSUME NEW r \in Request, ReferRead(r)
      PROVE  Credited(s)'
  <2>1. PICK u : u = req[r].student
    OBVIOUS
  <2>2. /\ u \in Student /\ At(r, "refer")
        /\ \A q \in Request \ {r} : req'[q] = req[q]
        /\ UNCHANGED store /\ s \notin missed
    BY <1>6, <2>1, ReferReadFacts
  <2>3. CASE ~Crediting(r, s)
    BY <1>2, <2>2, <2>3
  <2>4. CASE Crediting(r, s) /\ Crediting(r, s)'
    BY <2>4 DEF Credited
  <2>5. CASE Crediting(r, s) /\ ~Crediting(r, s)'
    <3>1. u = s /\ req[r].stage = "ENROLLED"
      BY <2>1, <2>5 DEF Crediting
    <3>2. referral[s] = None \/ ~Behind(referral[s], "ENROLLED")
      BY <1>6, <2>1, <2>5, <3>1, ReferReadFacts DEF Crediting
    <3>3. ASSUME referral[s] # None
          PROVE  referral[s].reward # "NOT_ELIGIBLE"
      <4>1. referral[s].stage \in Stage
        BY <3>3 DEF TypeInv, TypeOK, Referral
      <4>2. referral[s].stage = "ENROLLED"
        BY <3>2, <3>3, <4>1 DEF Behind, Rank, Stage
      <4> QED
        BY <3>3, <4>2 DEF Referred, Rewarded
    <3> QED
      BY <2>2, <3>3 DEF Credited, Due, store
  <2> QED
    BY <2>3, <2>4, <2>5
<1>7. ASSUME NEW r \in Request, Advance(r)
      PROVE  Credited(s)'
  <2>1. PICK u, stage : u = req[r].student /\ stage = req[r].stage
    OBVIOUS
  <2>2. /\ u \in Student /\ referral[u] # None
        /\ referral'[u].reward = IF stage = "ENROLLED"
                                   THEN IF req[r].reward = "PAID" THEN "PAID" ELSE "ELIGIBLE"
                                   ELSE referral[u].reward
        /\ \A v \in Student \ {u} : referral'[v] = referral[v]
        /\ \A q \in Request \ {r} : req'[q] = req[q]
        /\ UNCHANGED <<app, timeline>> /\ s \notin missed
    BY <1>7, <2>1, AdvanceFacts DEF history
  <2>3. CASE stage = "ENROLLED" /\ u = s
    BY <2>2, <2>3 DEF Credited
  <2>4. CASE ~(stage = "ENROLLED" /\ u = s)
    <3>1. ~Crediting(r, s)
      BY <2>1, <2>4 DEF Crediting
    <3>2. Due(s)' => Due(s)
      BY <2>2 DEF Due, Enrolled, Entered
    <3> QED
      BY <1>1, <2>2, <3>1, <3>2, OthersCrediting, CreditedKept
  <2> QED
    BY <2>3, <2>4
<1>8. ASSUME NEW u \in Student, ApplyReferral(u)
      PROVE  Credited(s)'
  <2>1. /\ \A v \in Student \ {u} : referral'[v] = referral[v]
        /\ Enrolled(u) => u \in missed'
        /\ missed \subseteq missed'
        /\ UNCHANGED <<app, timeline, req>>
    BY <1>8, ApplyFacts
  <2>2. Enrolled(s)' <=> Enrolled(s)
    BY <2>1 DEF Enrolled, Entered
  <2>3. CASE u = s
    BY <2>1, <2>2, <2>3 DEF Credited, Due
  <2>4. CASE u # s
    BY <1>1, <2>1, <2>2, <2>4, CreditedKept DEF Due, Crediting
  <2> QED
    BY <2>3, <2>4
<1>9. ASSUME NEW r \in Request, PayCommit(r)
      PROVE  Credited(s)'
  <2>1. PICK u : u = req[r].student
    OBVIOUS
  <2>2. /\ referral[u] # None
        /\ \A v \in Student \ {u} : referral'[v] = referral[v]
        /\ \A q \in Request \ {r} : req'[q] = req[q]
        /\ UNCHANGED <<app, timeline, missed>>
    BY <1>9, <2>1, PayCommitFacts
  <2>3. ~Crediting(r, s)
    BY <1>9 DEF PayCommit, At, Crediting
  <2>4. Due(s)' => Due(s)
    BY <2>2 DEF Due, Enrolled, Entered
  <2> QED
    BY <1>1, <2>2, <2>3, <2>4, OthersCrediting, CreditedKept
<1>10. ASSUME NEW r \in Request, Drop(r)
       PROVE  Credited(s)'
  <2>1. /\ \A q \in Request \ {r} : req'[q] = req[q]
        /\ ~Crediting(r, s) /\ s \notin missed /\ UNCHANGED store
    BY <1>10, DropFacts DEF Crediting
  <2> QED
    BY <1>2, <2>1
<1>11. ASSUME NEW r \in Request,
              \/ \E a \in Application : Touch(r, a)
              \/ \E u \in Student : PayRead(r, u)
              \/ \E u \in Student, o \in Offering : StartRead(r, u, o)
       PROVE  Credited(s)'
  <2>1. /\ At(r, "idle") /\ UNCHANGED <<store, missed>>
        /\ \A q \in Request \ {r} : req'[q] = req[q]
    BY <1>11, TouchFacts, PayReadFacts, StartReadFacts DEF StartRead
  <2> QED
    BY <1>2, <2>1 DEF Crediting, At
<1>12. CASE UNCHANGED vars
  <2>1. Due(s)' => Due(s)
    BY <1>12 DEF vars, store, Due, Enrolled, Entered
  <2> QED
    BY <1>1, <1>12, <2>1, CreditedKept DEF vars, history, Crediting
<1>13. CASE Next
  BY <1>3, <1>4, <1>5, <1>6, <1>7, <1>8, <1>9, <1>10, <1>11, <1>13 DEF Next, Touch
<1> QED
  BY <1>12, <1>13

(* The enrolment of a referred student makes the reward eligible, whatever  *)
(* races for the referral: only a stopped handler or a code applied         *)
(* afterwards misses it. *)
THEOREM EnrolmentsAreCredited == Spec => []EnrolmentIsCredited
<1>1. Init => EnrolmentIsCredited
  BY DEF Init, EnrolmentIsCredited, Enrolled
<1> QED
  BY <1>1, CreditStep, EarnedInductive, PTL DEF Spec

-----------------------------------------------------------------------------
(* The refinement.                                                          *)

LEMMA PrerequisiteFacts ==
  ASSUME NEW status \in Later
  PROVE  status \in DOMAIN Ledger!Prerequisite /\ Ledger!Prerequisite[status] = Before(status)
BY DEF Later, Status, First, Ledger!Prerequisite, Ledger!First, Before

(* The ledger's variables. *)
Owner   == [a \in Application |-> IF app[a] = None THEN {} ELSE {app[a].student}]
Statuses == [a \in Application |-> Entered(a)]
Rewards == [s \in Student |-> IF referral[s] = None THEN "NOT_ELIGIBLE" ELSE referral[s].reward]

LEMMA QuietStep ==
  ASSUME Owner' = Owner, Statuses' = Statuses, Rewards' = Rewards
  PROVE  UNCHANGED Ledger!vars
BY DEF Ledger!vars, Owner, Statuses, Rewards

LEMMA OpenStep ==
  ASSUME NEW a \in Application, NEW s \in Student, Owner[a] = {},
         Owner' = [Owner EXCEPT ![a] = {s}], Statuses' = [Statuses EXCEPT ![a] = {First}],
         Rewards' = Rewards
  PROVE  Ledger!Next
BY DEF Ledger!Next, Ledger!Open, Ledger!First, First, Owner, Statuses, Rewards

LEMMA EnterStep ==
  ASSUME NEW a \in Application, NEW to \in Later, Before(to) \in Statuses[a],
         Owner' = Owner, Statuses' = [Statuses EXCEPT ![a] = @ \cup {to}], Rewards' = Rewards
  PROVE  Ledger!Next
<1>1. to \in DOMAIN Ledger!Prerequisite /\ Ledger!Prerequisite[to] = Before(to)
  BY PrerequisiteFacts
<1>2. Ledger!Enter(a, to)
  BY <1>1 DEF Ledger!Enter, Owner, Statuses, Rewards
<1> QED
  BY <1>1, <1>2 DEF Ledger!Next

LEMMA CreditLedger ==
  ASSUME NEW a \in Application, NEW s \in Student, Owner[a] = {s}, "ENROLLED" \in Statuses[a],
         Owner' = Owner, Statuses' = Statuses, Rewards' = [Rewards EXCEPT ![s] = "ELIGIBLE"]
  PROVE  Ledger!Next
<1>1. Ledger!Credit(a, s)
  BY DEF Ledger!Credit, Owner, Statuses, Rewards
<1> QED
  BY <1>1 DEF Ledger!Next

LEMMA PayLedger ==
  ASSUME NEW s \in Student, Rewards[s] # "NOT_ELIGIBLE",
         Owner' = Owner, Statuses' = Statuses, Rewards' = [Rewards EXCEPT ![s] = "PAID"]
  PROVE  Ledger!Next
<1>1. Ledger!Pay(s)
  BY DEF Ledger!Pay, Owner, Statuses, Rewards
<1> QED
  BY <1>1 DEF Ledger!Next

LEMMA LedgerInit == Init => Ledger!Init
<1> SUFFICES ASSUME Init PROVE Ledger!Init
  OBVIOUS
<1>1. \A a \in Application : app[a] = None /\ Entered(a) = {}
  BY DEF Init, Entered
<1>2. \A s \in Student : referral[s] # None => referral[s].reward = "NOT_ELIGIBLE"
  BY DEF Init
<1> QED
  BY <1>1, <1>2 DEF Ledger!Init

LEMMA LedgerStep == EarnedInv /\ [Next]_vars => [Ledger!Next]_Ledger!vars
<1> SUFFICES ASSUME TypeInv, Earned, Referred, [Next]_vars
             PROVE  Ledger!Next \/ UNCHANGED Ledger!vars
  BY DEF EarnedInv
<1>1. ASSUME UNCHANGED <<app, timeline>>
      PROVE  Owner' = Owner /\ Statuses' = Statuses
  BY <1>1 DEF Owner, Statuses, Entered
<1>2. ASSUME UNCHANGED referral
      PROVE  Rewards' = Rewards
  BY <1>2 DEF Rewards
<1>3. ASSUME NEW r \in Request, NEW a \in Application, StartCommit(r, a)
      PROVE  Ledger!Next
  <2>1. PICK s : s = req[r].student
    OBVIOUS
  <2>2. /\ s \in Student /\ app[a] = None
        /\ app'[a] # None /\ app'[a].student = s /\ Entered(a)' = {First}
        /\ \A b \in Application \ {a} : Alike(b)
        /\ UNCHANGED referral
    BY <1>3, <2>1, StartCommitFacts
  <2>3. Owner[a] = {} /\ Owner' = [Owner EXCEPT ![a] = {s}]
    BY <2>2 DEF Owner, Alike
  <2>4. Statuses' = [Statuses EXCEPT ![a] = {First}]
    <3>1. \A b \in Application : Entered(b)' = IF b = a THEN {First} ELSE Entered(b)
      BY <2>2, AlikeFacts
    <3> QED
      BY <3>1 DEF Statuses
  <2> QED
    BY <1>2, <2>2, <2>3, <2>4, OpenStep
<1>4. ASSUME NEW r \in Request, Commit(r)
      PROVE  Ledger!Next
  <2>1. PICK a, to : a = req[r].app /\ to = req[r].to
    OBVIOUS
  <2>2. /\ a \in Application /\ app[a] # None /\ Kept(a) /\ Grown(a, to)
        /\ \A b \in Application \ {a} : Alike(b)
        /\ UNCHANGED referral
    BY <1>4, <2>1, CommitFacts
  <2>3. to \in Later /\ Before(to) \in Statuses[a]
    BY <1>4, <2>1, <2>2 DEF Commit, Earned, EarnedPlan, Statuses
  <2>4. Owner' = Owner
    BY <2>2 DEF Owner, Alike, Kept
  <2>5. Statuses' = [Statuses EXCEPT ![a] = @ \cup {to}]
    <3>1. \A b \in Application : Entered(b)' = IF b = a THEN Entered(a) \cup {to} ELSE Entered(b)
      BY <2>2, AlikeFacts DEF Grown
    <3> QED
      BY <2>2, <3>1 DEF Statuses
  <2> QED
    BY <1>2, <2>2, <2>3, <2>4, <2>5, EnterStep
<1>5. ASSUME NEW a \in Application, ArchiveLetter(a) \/ RemoveLetter(a)
      PROVE  UNCHANGED Ledger!vars
  <2>1. /\ app[a] # None /\ Kept(a)
        /\ \A b \in Application \ {a} : Alike(b)
        /\ UNCHANGED <<timeline, referral>>
    BY <1>5, LetterFacts
  <2>2. Owner' = Owner
    BY <2>1 DEF Owner, Alike, Kept
  <2>3. Statuses' = Statuses
    BY <2>1 DEF Statuses, Entered
  <2> QED
    BY <1>2, <2>1, <2>2, <2>3, QuietStep
<1>6. ASSUME NEW r \in Request, Advance(r)
      PROVE  Ledger!Next \/ UNCHANGED Ledger!vars
  <2>1. PICK s, stage, read : s = req[r].student /\ stage = req[r].stage /\ read = req[r].reward
    OBVIOUS
  <2>2. /\ s \in Student /\ referral[s] # None /\ referral'[s] # None
        /\ referral'[s].reward = IF stage = "ENROLLED"
                                   THEN IF read = "PAID" THEN "PAID" ELSE "ELIGIBLE"
                                   ELSE referral[s].reward
        /\ \A u \in Student \ {s} : referral'[u] = referral[u]
        /\ UNCHANGED <<app, timeline>>
    BY <1>6, <2>1, AdvanceFacts
  <2>3. CASE stage # "ENROLLED"
    <3>1. Rewards' = Rewards
      BY <2>2, <2>3 DEF Rewards
    <3> QED
      BY <1>1, <2>2, <3>1, QuietStep
  <2>4. CASE stage = "ENROLLED" /\ read = "PAID"
    <3>1. Rewards[s] # "NOT_ELIGIBLE"
      BY <1>6, <2>1, <2>2, <2>4 DEF Advance, Referred, EarnedReward, Rewards
    <3>2. Rewards' = [Rewards EXCEPT ![s] = "PAID"]
      BY <2>2, <2>4 DEF Rewards
    <3> QED
      BY <1>1, <2>2, <3>1, <3>2, PayLedger
  <2>5. CASE stage = "ENROLLED" /\ read # "PAID"
    <3>1. PICK a \in Application : app[a] # None /\ app[a].student = s /\ "ENROLLED" \in Entered(a)
      <4>1. ShownBy(s, "ENROLLED")
        BY <1>6, <2>1, <2>5 DEF Advance, At, Referred, EarnedStage
      <4> QED
        BY <4>1 DEF ShownBy, Evidence
    <3>2. Owner[a] = {s} /\ "ENROLLED" \in Statuses[a]
      BY <3>1 DEF Owner, Statuses
    <3>3. Rewards' = [Rewards EXCEPT ![s] = "ELIGIBLE"]
      BY <2>2, <2>5 DEF Rewards
    <3> QED
      BY <1>1, <2>2, <3>2, <3>3, CreditLedger
  <2> QED
    BY <2>3, <2>4, <2>5
<1>7. ASSUME NEW s \in Student, ApplyReferral(s)
      PROVE  UNCHANGED Ledger!vars
  <2>1. /\ referral[s] = None /\ referral'[s] # None /\ referral'[s].reward = "NOT_ELIGIBLE"
        /\ \A u \in Student \ {s} : referral'[u] = referral[u]
        /\ UNCHANGED <<app, timeline>>
    BY <1>7, ApplyFacts
  <2>2. Rewards' = Rewards
    BY <2>1 DEF Rewards
  <2> QED
    BY <1>1, <2>1, <2>2, QuietStep
<1>8. ASSUME NEW r \in Request, PayCommit(r)
      PROVE  Ledger!Next
  <2>1. PICK s : s = req[r].student
    OBVIOUS
  <2>2. /\ s \in Student /\ referral[s] # None /\ referral'[s] # None
        /\ referral'[s].reward = "PAID"
        /\ \A u \in Student \ {s} : referral'[u] = referral[u]
        /\ UNCHANGED <<app, timeline>>
    BY <1>8, <2>1, PayCommitFacts
  <2>3. Rewards[s] # "NOT_ELIGIBLE"
    BY <1>8, <2>1, <2>2 DEF PayCommit, Referred, EarnedReward, Rewards
  <2>4. Rewards' = [Rewards EXCEPT ![s] = "PAID"]
    BY <2>2 DEF Rewards
  <2> QED
    BY <1>1, <2>2, <2>3, <2>4, PayLedger
<1>9. CASE UNCHANGED store
  BY <1>1, <1>2, <1>9, QuietStep DEF store
<1>10. ASSUME NEW r \in Request, NEW a \in Application, Touch(r, a)
       PROVE  UNCHANGED store
  BY <1>10, TouchFacts
<1>11. CASE UNCHANGED vars
  BY <1>9, <1>11 DEF vars
<1>12. CASE Next
  BY <1>3, <1>4, <1>5, <1>6, <1>7, <1>8, <1>9, <1>10, <1>12
     DEF Next, Touch, StartRead, ReferRead, PayRead, Drop
<1> QED
  BY <1>11, <1>12

(* Whatever overlaps, statuses, credits and payments are those of a ledger  *)
(* in which each is earned. *)
THEOREM CasesImplementLedger == Spec => ImplementsLedger
<1> QED
  BY LedgerInit, LedgerStep, EarnedInductive, PTL DEF Spec, ImplementsLedger, Ledger!Spec

-----------------------------------------------------------------------------
(* What only overlapping handlers break.  First the rewards: outside        *)
(* racedReward one handler at a time settles a referral, and it still finds *)
(* the reward it read. *)

Settling(r, s) == req[r].pc \in {"advance", "pay"} /\ req[r].student = s

Settled(s) ==
  /\ payments[s] \in {0, 1}
  /\ payments[s] = 1 => referral[s] # None /\ referral[s].reward = "PAID"

AloneReward(s) ==
  /\ Settled(s)
  /\ \A q, r \in Request : Settling(q, s) /\ Settling(r, s) => q = r
  /\ \A r \in Request : At(r, "pay") /\ req[r].student = s => payments[s] = 0
  /\ \A r \in Request : At(r, "advance") /\ req[r].student = s =>
                          req[r].reward = referral[s].reward

RewardsAlone == \A s \in Student \ racedReward : AloneReward(s)

(* A step of r that leaves the referral of s and what is paid for it, and   *)
(* does not make r settle it. *)
LEMMA OthersSettling ==
  ASSUME NEW s, AloneReward(s), NEW r \in Request, \A q \in Request \ {r} : req'[q] = req[q],
         ~Settling(r, s)', referral'[s] = referral[s], payments'[s] = payments[s]
  PROVE  AloneReward(s)'
<1>1. \A q \in Request : /\ Settling(q, s)' => Settling(q, s)
                         /\ At(q, "pay")' /\ req'[q].student = s => q # r
                         /\ At(q, "advance")' /\ req'[q].student = s => q # r
  BY DEF Settling, At
<1> QED
  BY <1>1 DEF AloneReward, Settled, At

(* A handler begins to settle the referral, and no other does. *)
LEMMA BeginSettling ==
  ASSUME NEW s, Settled(s), NEW r \in Request, \A q \in Request \ {r} : req'[q] = req[q],
         \A q \in Request \ {r} : ~Settling(q, s),
         referral'[s] = referral[s], payments'[s] = payments[s],
         At(r, "pay")' => payments[s] = 0,
         At(r, "advance")' => req'[r].reward = referral[s].reward
  PROVE  AloneReward(s)'
<1>1. \A q \in Request : Settling(q, s)' => q = r
  BY DEF Settling
<1>2. Settled(s)'
  BY DEF Settled
<1>3. \A q \in Request : (At(q, "pay") \/ At(q, "advance"))' /\ req'[q].student = s => q = r
  BY <1>1 DEF Settling, At
<1> QED
  BY <1>1, <1>2, <1>3 DEF AloneReward

(* A handler has settled it, and no other is about to. *)
LEMMA EndSettling ==
  ASSUME NEW s, NEW r \in Request, \A q \in Request \ {r} : req'[q] = req[q],
         \A q \in Request \ {r} : ~Settling(q, s), req'[r].pc = "idle", Settled(s)'
  PROVE  AloneReward(s)'
<1>1. \A q \in Request : ~Settling(q, s)'
  BY DEF Settling
<1> QED
  BY <1>1 DEF AloneReward, Settling, At

LEMMA RewardStep == TypeInv /\ RewardsAlone /\ [Next]_vars => RewardsAlone'
<1> SUFFICES ASSUME TypeInv, RewardsAlone, [Next]_vars, NEW s \in Student, s \notin racedReward'
             PROVE  AloneReward(s)'
  BY DEF RewardsAlone
<1>1. ASSUME s \notin racedReward
      PROVE  AloneReward(s)
  BY <1>1 DEF RewardsAlone
<1>2. ASSUME NEW r \in Request, \A q \in Request \ {r} : req'[q] = req[q], ~Settling(r, s)',
             UNCHANGED <<referral, payments, racedReward>>
      PROVE  AloneReward(s)'
  BY <1>1, <1>2, OthersSettling
<1>3. ASSUME NEW r \in Request, ReferRead(r)
      PROVE  AloneReward(s)'
  <2>1. PICK u : u = req[r].student
    OBVIOUS
  <2>2. /\ s \notin racedReward /\ At(r, "refer")
        /\ \A q \in Request \ {r} : req'[q] = req[q]
        /\ UNCHANGED <<referral, payments>>
    BY <1>3, <2>1, ReferReadFacts DEF store
  <2>3. CASE ~Settling(r, s)'
    BY <1>1, <2>2, <2>3, OthersSettling
  <2>4. CASE Settling(r, s)'
    <3>1. /\ u = s /\ req'[r].pc = "advance" /\ req'[r].reward = referral[s].reward
          /\ \A q \in Request \ {r} : ~Settling(q, s)
      BY <1>3, <2>1, <2>4, ReferReadFacts DEF Settling
    <3> QED
      BY <1>1, <2>2, <3>1, BeginSettling DEF AloneReward, At
  <2> QED
    BY <2>3, <2>4
<1>4. ASSUME NEW r \in Request, NEW u \in Student, PayRead(r, u)
      PROVE  AloneReward(s)'
  <2>1. /\ referral[u] # None /\ Payable(referral[u])
        /\ s \notin racedReward
        /\ req'[r].pc = "pay" /\ req'[r].student = u
        /\ \A q \in Request \ {r} : req'[q] = req[q]
        /\ UNCHANGED <<referral, payments>>
    BY <1>4, PayReadFacts DEF store
  <2>2. CASE u # s
    BY <1>1, <2>1, <2>2, OthersSettling DEF Settling
  <2>3. CASE u = s
    <3>1. \A q \in Request \ {r} : ~Settling(q, s)
      BY <1>4, <2>3, PayReadFacts DEF Settling
    <3>2. payments[s] = 0
      BY <1>1, <2>1, <2>3 DEF AloneReward, Settled, Payable
    <3> QED
      BY <1>1, <2>1, <3>1, <3>2, BeginSettling DEF AloneReward, At
  <2> QED
    BY <2>2, <2>3
<1>5. ASSUME NEW r \in Request, Advance(r)
      PROVE  AloneReward(s)'
  <2>1. PICK u, stage, read : u = req[r].student /\ stage = req[r].stage /\ read = req[r].reward
    OBVIOUS
  <2>2. /\ u \in Student /\ referral[u] # None /\ referral'[u] # None
        /\ referral'[u].reward = IF stage = "ENROLLED"
                                   THEN IF read = "PAID" THEN "PAID" ELSE "ELIGIBLE"
                                   ELSE referral[u].reward
        /\ \A v \in Student \ {u} : referral'[v] = referral[v]
        /\ req'[r].pc = "idle"
        /\ \A q \in Request \ {r} : req'[q] = req[q]
        /\ UNCHANGED payments /\ s \notin racedReward
    BY <1>5, <2>1, AdvanceFacts DEF history
  <2>3. CASE u # s
    BY <1>1, <2>2, <2>3, OthersSettling DEF Settling
  <2>4. CASE u = s
    <3>1. Settling(r, s) /\ read = referral[s].reward
      BY <1>1, <1>5, <2>1, <2>2, <2>4 DEF Advance, At, Settling, AloneReward
    <3>2. \A q \in Request \ {r} : ~Settling(q, s)
      BY <1>1, <2>2, <3>1 DEF AloneReward
    <3>3. Settled(s)'
      BY <1>1, <2>2, <2>4, <3>1 DEF AloneReward, Settled
    <3> QED
      BY <2>2, <3>2, <3>3, EndSettling
  <2> QED
    BY <2>3, <2>4
<1>6. ASSUME NEW u \in Student, ApplyReferral(u)
      PROVE  AloneReward(s)'
  <2>1. /\ referral[u] = None
        /\ \A v \in Student \ {u} : referral'[v] = referral[v]
        /\ UNCHANGED <<req, payments>> /\ s \notin racedReward
    BY <1>6, ApplyFacts
  <2>2. CASE u # s
    BY <1>1, <2>1, <2>2 DEF AloneReward, Settled, Settling, At
  <2>3. CASE u = s
    <3>1. payments[s] = 0
      BY <1>1, <2>1, <2>3 DEF AloneReward, Settled
    <3>2. \A r \in Request : ~Settling(r, s)
      BY <2>1, <2>3 DEF TypeInv, InFlightOK, HandlerOK, Settling, At
    <3>3. \A r \in Request : ~(At(r, "pay") /\ req[r].student = s)
                             /\ ~(At(r, "advance") /\ req[r].student = s)
      BY <3>2 DEF Settling, At
    <3> QED
      BY <2>1, <3>1, <3>2, <3>3 DEF AloneReward, Settled, Settling, At
  <2> QED
    BY <2>2, <2>3
<1>7. ASSUME NEW r \in Request, PayCommit(r)
      PROVE  AloneReward(s)'
  <2>1. PICK u : u = req[r].student
    OBVIOUS
  <2>2. /\ u \in Student /\ referral'[u] # None /\ referral'[u].reward = "PAID"
        /\ \A v \in Student \ {u} : referral'[v] = referral[v]
        /\ payments'[u] = payments[u] + 1
        /\ \A v \in Student \ {u} : payments'[v] = payments[v]
        /\ req'[r].pc = "idle"
        /\ \A q \in Request \ {r} : req'[q] = req[q]
        /\ s \notin racedReward
    BY <1>7, <2>1, PayCommitFacts
  <2>3. CASE u # s
    BY <1>1, <2>2, <2>3, OthersSettling DEF Settling
  <2>4. CASE u = s
    <3>1. At(r, "pay") /\ Settling(r, s)
      BY <1>7, <2>1, <2>4 DEF PayCommit, At, Settling
    <3>2. payments[s] = 0 /\ \A q \in Request \ {r} : ~Settling(q, s)
      BY <1>1, <2>1, <2>2, <2>4, <3>1 DEF AloneReward
    <3>3. Settled(s)'
      BY <2>2, <2>4, <3>2 DEF Settled
    <3> QED
      BY <2>2, <3>2, <3>3, EndSettling
  <2> QED
    BY <2>3, <2>4
<1>8. ASSUME NEW r \in Request, NEW a \in Application, StartCommit(r, a)
      PROVE  AloneReward(s)'
  BY <1>2, <1>8, StartCommitFacts DEF history, Settling
<1>9. ASSUME NEW r \in Request, Commit(r)
      PROVE  AloneReward(s)'
  <2>1. req'[r].pc \in {"idle", "refer"}
    BY <1>9, CommitFacts
  <2>2. (\A q \in Request \ {r} : req'[q] = req[q]) /\ UNCHANGED <<referral, history>>
    BY <1>9, CommitFacts
  <2> QED
    BY <1>2, <2>1, <2>2 DEF history, Settling
<1>10. ASSUME NEW r \in Request,
              \/ Drop(r)
              \/ \E a \in Application : Touch(r, a)
              \/ \E u \in Student, o \in Offering : StartRead(r, u, o)
       PROVE  AloneReward(s)'
  <2>1. /\ req'[r].pc \in {"idle", "start", "commit"}
        /\ \A q \in Request \ {r} : req'[q] = req[q]
        /\ UNCHANGED <<referral, payments, racedReward>>
    BY <1>10, DropFacts, TouchFacts, StartReadFacts DEF StartRead, Planned, store
  <2> QED
    BY <1>2, <2>1 DEF Settling
<1>11. CASE UNCHANGED <<referral, req, payments, racedReward>>
  BY <1>1, <1>11 DEF AloneReward, Settled, Settling, At
<1>12. CASE UNCHANGED vars
  BY <1>11, <1>12 DEF vars, store, history
<1>13. CASE Next
  BY <1>3, <1>4, <1>5, <1>6, <1>7, <1>8, <1>9, <1>10, <1>11, <1>13
     DEF Next, Touch, ArchiveLetter, RemoveLetter, history
<1> QED
  BY <1>12, <1>13

(* A reward is marked as paid once and stays paid, however its referral     *)
(* moves on, unless two handlers settle the referral at a time. *)
THEOREM RewardsArePaidOnce == Spec => []RewardPaidOnce
<1>1. Init => TypeInv /\ RewardsAlone
  BY TypeInit DEF Init, Idle, RewardsAlone, AloneReward, Settled, Settling, At
<1>2. TypeInv /\ RewardsAlone /\ [Next]_vars => TypeInv' /\ RewardsAlone'
  BY TypeStep, RewardStep
<1>3. RewardsAlone => RewardPaidOnce
  BY DEF RewardsAlone, AloneReward, Settled, RewardPaidOnce
<1> QED
  BY <1>1, <1>2, <1>3, PTL DEF Spec

-----------------------------------------------------------------------------
(* The statuses: outside raced one handler at a time changes an             *)
(* application, and the status it read still allows what it writes.         *)

Working(r, a) == At(r, "commit") /\ req[r].app = a

Straight(a) ==
  app[a] # None =>
    /\ timeline[a] # <<>> /\ app[a].status = timeline[a][Len(timeline[a])]
    /\ \A i \in 1 .. Len(timeline[a]) - 1 : Legal(timeline[a][i], timeline[a][i + 1])

AloneStatus(a) ==
  /\ Straight(a)
  /\ \A q, r \in Request : Working(q, a) /\ Working(r, a) => q = r
  /\ \A r \in Request : Working(r, a) => Legal(app[a].status, req[r].to)

StatusesAlone == \A a \in Application \ raced : AloneStatus(a)

(* A timeline goes on legally. *)
LEMMA LongerLine ==
  ASSUME NEW line \in Seq(Status), NEW to \in Status, line # <<>>,
         \A i \in 1 .. Len(line) - 1 : Legal(line[i], line[i + 1]), Legal(line[Len(line)], to),
         NEW longer, longer = Append(line, to)
  PROVE  /\ longer # <<>> /\ longer[Len(longer)] = to
         /\ \A i \in 1 .. Len(longer) - 1 : Legal(longer[i], longer[i + 1])
<1>1. /\ longer # <<>> /\ Len(longer) = Len(line) + 1 /\ longer[Len(line) + 1] = to
      /\ \A i \in 1 .. Len(line) : longer[i] = line[i]
  BY AppendFacts
<1>2. Len(line) \in Nat \ {0}
  OBVIOUS
<1>3. ASSUME NEW i \in 1 .. Len(longer) - 1
      PROVE  Legal(longer[i], longer[i + 1])
  <2>1. CASE i = Len(line)
    BY <1>1, <1>2, <2>1
  <2>2. CASE i # Len(line)
    <3>1. i \in 1 .. Len(line) - 1 /\ i \in 1 .. Len(line) /\ i + 1 \in 1 .. Len(line)
      BY <1>1, <1>2, <2>2
    <3> QED
      BY <1>1, <3>1
  <2> QED
    BY <2>1, <2>2
<1> QED
  BY <1>1, <1>3

(* A step that does not make anybody work on an application leaves it       *)
(* straight with its row. *)
LEMMA OthersWorking ==
  ASSUME NEW a, AloneStatus(a),
         app[a] = None => app'[a] = None,
         app[a] # None => app'[a] # None /\ app'[a].status = app[a].status,
         timeline'[a] = timeline[a],
         \A q \in Request : Working(q, a)' => Working(q, a) /\ req'[q] = req[q],
         \A q \in Request : Working(q, a) => app[a] # None
  PROVE  AloneStatus(a)'
<1>1. Straight(a)'
  BY DEF AloneStatus, Straight
<1> QED
  BY <1>1 DEF AloneStatus

LEMMA StatusStep == TypeInv /\ StatusesAlone /\ [Next]_vars => StatusesAlone'
<1> SUFFICES ASSUME TypeInv, StatusesAlone, [Next]_vars, NEW a \in Application, a \notin raced'
             PROVE  AloneStatus(a)'
  BY DEF StatusesAlone
<1>1. ASSUME a \notin raced
      PROVE  AloneStatus(a)
  BY <1>1 DEF StatusesAlone
<1>2. \A q \in Request : Working(q, a) => app[a] # None
  BY DEF TypeInv, InFlightOK, HandlerOK, Working
<1>3. ASSUME NEW r \in Request, \A q \in Request \ {r} : req'[q] = req[q], ~Working(r, a)',
             a \notin raced, UNCHANGED <<app, timeline>>
      PROVE  AloneStatus(a)'
  <2>1. \A q \in Request : Working(q, a)' => Working(q, a) /\ req'[q] = req[q]
    BY <1>3 DEF Working, At
  <2> QED
    BY <1>1, <1>2, <1>3, <2>1, OthersWorking
<1>4. ASSUME NEW r \in Request, NEW b \in Application, Touch(r, b)
      PROVE  AloneStatus(a)'
  <2>1. /\ Planned(req'[r], b)
        /\ \A q \in Request \ {r} : req'[q] = req[q]
        /\ a \notin raced /\ UNCHANGED <<app, timeline>>
    BY <1>4, TouchFacts DEF store
  <2>2. CASE b # a
    BY <1>3, <2>1, <2>2 DEF Working, Planned
  <2>3. CASE b = a
    <3>1. \A q \in Request \ {r} : ~Working(q, a)
      BY <1>4, <2>3, TouchFacts DEF Working
    <3>2. \A q \in Request : Working(q, a)' => q = r
      BY <2>1, <3>1 DEF Working, At
    <3>3. Legal(app'[a].status, req'[r].to)
      BY <2>1, <2>3 DEF Planned
    <3>4. Straight(a)'
      BY <1>1, <2>1 DEF AloneStatus, Straight
    <3> QED
      BY <3>2, <3>3, <3>4 DEF AloneStatus
  <2> QED
    BY <2>2, <2>3
<1>5. ASSUME NEW r \in Request, Commit(r)
      PROVE  AloneStatus(a)'
  <2>1. PICK b, to : b = req[r].app /\ to = req[r].to
    OBVIOUS
  <2>2. /\ b \in Application /\ to \in Status /\ app[b] # None /\ app'[b].status = to
        /\ timeline'[b] = Append(timeline[b], to)
        /\ \A c \in Application \ {b} : Alike(c)
        /\ \A q \in Request \ {r} : req'[q] = req[q]
        /\ a \notin raced
    BY <1>5, <2>1, CommitFacts DEF history
  <2>3. req'[r].pc \in {"idle", "refer"}
    BY <1>5, CommitFacts
  <2>4. CASE b # a
    <3>1. \A q \in Request : Working(q, a)' => Working(q, a) /\ req'[q] = req[q]
      BY <2>2, <2>3 DEF Working, At
    <3> QED
      BY <1>1, <1>2, <2>2, <2>4, <3>1, OthersWorking DEF Alike
  <2>5. CASE b = a
    <3>1. Working(r, a)
      BY <1>5, <2>1, <2>5 DEF Commit, Working
    <3>2. Legal(app[a].status, to) /\ \A q \in Request \ {r} : ~Working(q, a)
      BY <1>1, <2>1, <2>2, <3>1 DEF AloneStatus
    <3>3. \A q \in Request : ~Working(q, a)'
      BY <2>2, <2>3, <3>2 DEF Working, At
    <3>4. /\ timeline[a] \in Seq(Status) /\ timeline[a] # <<>>
          /\ app[a].status = timeline[a][Len(timeline[a])]
          /\ \A i \in 1 .. Len(timeline[a]) - 1 : Legal(timeline[a][i], timeline[a][i + 1])
      BY <1>1, <2>2, <2>5 DEF AloneStatus, Straight, TypeInv, TypeOK
    <3>5. PICK line, longer : line = timeline[a] /\ longer = Append(line, to)
      OBVIOUS
    <3>6. /\ longer # <<>> /\ longer[Len(longer)] = to
          /\ \A i \in 1 .. Len(longer) - 1 : Legal(longer[i], longer[i + 1])
      BY <2>2, <3>2, <3>4, <3>5, LongerLine
    <3>7. Straight(a)'
      BY <2>2, <2>5, <3>5, <3>6 DEF Straight
    <3> QED
      BY <3>3, <3>7 DEF AloneStatus
  <2> QED
    BY <2>4, <2>5
<1>6. ASSUME NEW r \in Request, NEW b \in Application, StartCommit(r, b)
      PROVE  AloneStatus(a)'
  <2>1. /\ app[b] = None /\ app'[b].status = First /\ timeline'[b] = <<First>>
        /\ \A c \in Application \ {b} : Alike(c)
        /\ req'[r].pc = "refer"
        /\ \A q \in Request \ {r} : req'[q] = req[q]
        /\ a \notin raced
    BY <1>6, StartCommitFacts DEF history
  <2>2. \A q \in Request : Working(q, a)' => Working(q, a) /\ req'[q] = req[q]
    BY <2>1 DEF Working, At
  <2>3. CASE b # a
    BY <1>1, <1>2, <2>1, <2>2, <2>3, OthersWorking DEF Alike
  <2>4. CASE b = a
    <3>1. \A q \in Request : ~Working(q, a)'
      BY <1>2, <2>1, <2>2, <2>4
    <3>2. PICK line : line = <<First>>
      OBVIOUS
    <3>3. line # <<>> /\ Len(line) = 1 /\ line[1] = First
      BY <3>2
    <3>4. Straight(a)'
      BY <2>1, <2>4, <3>2, <3>3 DEF Straight
    <3> QED
      BY <3>1, <3>4 DEF AloneStatus
  <2> QED
    BY <2>3, <2>4
<1>7. ASSUME NEW b \in Application, ArchiveLetter(b) \/ RemoveLetter(b)
      PROVE  AloneStatus(a)'
  <2>1. /\ app[b] # None /\ Kept(b) /\ app'[b].status = app[b].status
        /\ \A c \in Application \ {b} : Alike(c)
        /\ UNCHANGED <<timeline, req>> /\ a \notin raced
    BY <1>7, LetterFacts DEF history
  <2>2. /\ app[a] = None => app'[a] = None
        /\ app[a] # None => app'[a] # None /\ app'[a].status = app[a].status
    BY <2>1 DEF Alike, Kept
  <2> QED
    BY <1>1, <1>2, <2>1, <2>2, OthersWorking DEF Working, At
<1>8. ASSUME NEW r \in Request, ReferRead(r) \/ Advance(r) \/ PayCommit(r) \/ Drop(r)
      PROVE  AloneStatus(a)'
  <2>1. /\ req'[r].pc \in {"idle", "advance"}
        /\ \A q \in Request \ {r} : req'[q] = req[q]
        /\ a \notin raced /\ UNCHANGED <<app, timeline>>
    BY <1>8, ReferReadFacts, AdvanceFacts, PayCommitFacts, DropFacts DEF store, history
  <2> QED
    BY <1>3, <2>1 DEF Working, At
<1>9. ASSUME NEW r \in Request, NEW s \in Student,
             PayRead(r, s) \/ \E o \in Offering : StartRead(r, s, o)
      PROVE  AloneStatus(a)'
  <2>1. /\ req'[r].pc \in {"pay", "start"}
        /\ \A q \in Request \ {r} : req'[q] = req[q]
        /\ a \notin raced /\ UNCHANGED <<app, timeline>>
    BY <1>9, StartReadFacts, PayReadFacts DEF StartRead, store
  <2> QED
    BY <1>3, <2>1 DEF Working, At
<1>10. CASE UNCHANGED <<app, timeline, req, raced>>
  BY <1>1, <1>2, <1>10, OthersWorking DEF Working, At
<1>11. CASE UNCHANGED vars
  BY <1>10, <1>11 DEF vars, store, history
<1>12. CASE Next
  BY <1>4, <1>5, <1>6, <1>7, <1>8, <1>9, <1>10, <1>12 DEF Next, Touch, ApplyReferral
<1> QED
  BY <1>11, <1>12

LEMMA StatusInductive == Spec => [](TypeInv /\ StatusesAlone)
<1>1. Init => TypeInv /\ StatusesAlone
  BY TypeInit DEF Init, Idle, StatusesAlone, AloneStatus, Straight, Working, At
<1>2. TypeInv /\ StatusesAlone /\ [Next]_vars => TypeInv' /\ StatusesAlone'
  BY TypeStep, StatusStep
<1> QED
  BY <1>1, <1>2, PTL DEF Spec

(* An application follows APPLICATION_TRANSITIONS, and its timeline tells   *)
(* how, as long as no two handlers change it at a time. *)
THEOREM StatusesFollowTheTable == Spec => []OnlyRacesBreakTheTable
<1>1. TypeInv /\ StatusesAlone => OnlyRacesBreakTheTable
  BY DEF StatusesAlone, AloneStatus, Straight, OnlyRacesBreakTheTable
<1> QED
  BY <1>1, StatusInductive, PTL

-----------------------------------------------------------------------------
(* The starts: outside racedStart one handler at a time starts an           *)
(* application of a student for an offering, and there is still none open.  *)

Starting(r, s, o) == At(r, "start") /\ req[r].student = s /\ req[r].offering = o

AloneStart(s, o) ==
  /\ \A q, r \in Request : Starting(q, s, o) /\ Starting(r, s, o) => q = r
  /\ \A r \in Request, a \in Application \ raced : ~(Starting(r, s, o) /\ Duplicate(a, s, o))
  /\ \A a, b \in Application \ raced : Duplicate(a, s, o) /\ Duplicate(b, s, o) => a = b

StartsAlone ==
  \A s \in Student, o \in Offering : <<s, o>> \notin racedStart => AloneStart(s, o)

(* No step but a start opens an application: an ended one stays so outside  *)
(* raced. *)
LEMMA NoneReopens ==
  ASSUME TypeInv, StatusesAlone, [Next]_vars, NEW a \in Application, a \notin raced',
         NEW s, NEW o, Duplicate(a, s, o)', ~Duplicate(a, s, o)
  PROVE  \E r \in Request : StartCommit(r, a)
<1> SUFFICES ASSUME \A r \in Request : ~StartCommit(r, a) PROVE FALSE
  OBVIOUS
<1>1. CASE UNCHANGED app
  BY <1>1 DEF Duplicate
<1>2. ASSUME NEW r \in Request, NEW b \in Application, StartCommit(r, b)
      PROVE  FALSE
  <2>1. Alike(a)
    BY <1>2, StartCommitFacts
  <2> QED
    BY <2>1 DEF Alike, Duplicate
<1>3. ASSUME NEW r \in Request, Commit(r)
      PROVE  FALSE
  <2>1. PICK b, to : b = req[r].app /\ to = req[r].to
    OBVIOUS
  <2>2. /\ app[b] # None /\ Kept(b) /\ \A c \in Application \ {b} : Alike(c)
        /\ a \notin raced
    BY <1>3, <2>1, CommitFacts DEF history
  <2>3. b = a
    BY <2>2 DEF Alike, Duplicate
  <2>4. Legal(app[a].status, to)
    BY <1>3, <2>1, <2>2, <2>3 DEF Commit, StatusesAlone, AloneStatus, Working
  <2>5. app[a].status \notin Ended
    BY <2>4 DEF Legal, Ended
  <2> QED
    BY <2>2, <2>3, <2>5 DEF Duplicate, Kept
<1>4. ASSUME NEW b \in Application, ArchiveLetter(b) \/ RemoveLetter(b)
      PROVE  FALSE
  <2>1. /\ app[b] # None /\ Kept(b) /\ app'[b].status = app[b].status
        /\ \A c \in Application \ {b} : Alike(c)
    BY <1>4, LetterFacts
  <2> QED
    BY <2>1 DEF Alike, Duplicate, Kept
<1>5. ASSUME NEW r \in Request, NEW b \in Application, Touch(r, b)
      PROVE  UNCHANGED app
  BY <1>5, TouchFacts DEF store
<1>6. CASE Next
  BY <1>1, <1>2, <1>3, <1>4, <1>5, <1>6
     DEF Next, Touch, StartRead, ReferRead, Advance, ApplyReferral, PayRead, PayCommit, Drop, store
<1> QED
  BY <1>1, <1>6 DEF vars, store

LEMMA StartStep == TypeInv /\ StatusesAlone /\ StartsAlone /\ [Next]_vars => StartsAlone'
<1> SUFFICES ASSUME TypeInv, StatusesAlone, StartsAlone, [Next]_vars,
                    NEW s \in Student, NEW o \in Offering, <<s, o>> \notin racedStart'
             PROVE  AloneStart(s, o)'
  BY DEF StartsAlone
<1>1. ASSUME <<s, o>> \notin racedStart
      PROVE  AloneStart(s, o)
  BY <1>1 DEF StartsAlone
<1>2. ASSUME <<s, o>> \notin racedStart, raced \subseteq raced',
             \A q \in Request : Starting(q, s, o)' => Starting(q, s, o),
             \A a \in Application \ raced' : Duplicate(a, s, o)' => Duplicate(a, s, o)
      PROVE  AloneStart(s, o)'
  BY <1>1, <1>2 DEF AloneStart
<1>3. ASSUME NEW r \in Request, NEW b \in Application, StartCommit(r, b)
      PROVE  AloneStart(s, o)'
  <2>1. PICK u, v : u = req[r].student /\ v = req[r].offering
    OBVIOUS
  <2>2. /\ app'[b].student = u /\ app'[b].offering = v /\ app[b] = None
        /\ \A c \in Application \ {b} : Alike(c)
        /\ req'[r].pc = "refer"
        /\ \A q \in Request \ {r} : req'[q] = req[q]
        /\ <<s, o>> \notin racedStart /\ raced' = raced
    BY <1>3, <2>1, StartCommitFacts DEF history
  <2>3. \A q \in Request : Starting(q, s, o)' => Starting(q, s, o) /\ q # r
    BY <2>2 DEF Starting, At
  <2>4. \A c \in Application \ {b} : Duplicate(c, s, o)' => Duplicate(c, s, o)
    BY <2>2 DEF Alike, Duplicate
  <2>5. CASE u = s /\ v = o
    <3>1. Starting(r, s, o)
      BY <1>3, <2>1, <2>5 DEF StartCommit, Starting
    <3>2. \A q \in Request : ~Starting(q, s, o)'
      BY <1>1, <2>2, <2>3, <3>1 DEF AloneStart
    <3>3. \A c \in Application \ raced : ~Duplicate(c, s, o)
      BY <1>1, <2>2, <3>1 DEF AloneStart
    <3> QED
      BY <2>2, <2>4, <3>2, <3>3 DEF AloneStart
  <2>6. CASE ~(u = s /\ v = o)
    <3>1. ~Duplicate(b, s, o)'
      BY <2>2, <2>6 DEF Duplicate
    <3> QED
      BY <1>2, <2>2, <2>3, <2>4, <3>1
  <2> QED
    BY <2>5, <2>6
<1>4. ASSUME \A r \in Request, a \in Application : ~StartCommit(r, a)
      PROVE  \A a \in Application \ raced' : Duplicate(a, s, o)' => Duplicate(a, s, o)
  BY <1>4, NoneReopens
<1>5. ASSUME NEW r \in Request, NEW u \in Student, NEW v \in Offering, StartRead(r, u, v)
      PROVE  AloneStart(s, o)'
  <2>1. /\ req'[r].pc = "start" /\ req'[r].student = u /\ req'[r].offering = v
        /\ \A q \in Request \ {r} : req'[q] = req[q]
    BY <1>5, StartReadFacts
  <2>2. /\ <<s, o>> \notin racedStart /\ raced' = raced /\ app' = app
        /\ \A a \in Application : ~Duplicate(a, u, v)
        /\ \A q \in Request \ {r} : Starting(q, u, v) => <<u, v>> \in racedStart'
    BY <1>5 DEF StartRead, InFlight, Starting, At, store
  <2>3. \A a \in Application : Duplicate(a, s, o)' <=> Duplicate(a, s, o)
    BY <2>2 DEF Duplicate
  <2>4. CASE u = s /\ v = o
    <3>1. \A q \in Request : Starting(q, s, o)' => q = r
      BY <2>1, <2>2, <2>4 DEF Starting, At
    <3> QED
      BY <2>2, <2>3, <2>4, <3>1 DEF AloneStart
  <2>5. CASE ~(u = s /\ v = o)
    <3>1. \A q \in Request : Starting(q, s, o)' => Starting(q, s, o)
      BY <2>1, <2>5 DEF Starting, At
    <3> QED
      BY <1>2, <2>2, <2>3, <3>1
  <2> QED
    BY <2>4, <2>5
<1>6. ASSUME NEW r \in Request, req'[r].pc # "start", \A q \in Request \ {r} : req'[q] = req[q],
             racedStart' = racedStart, raced \subseteq raced',
             \A q \in Request, a \in Application : ~StartCommit(q, a)
      PROVE  AloneStart(s, o)'
  <2>1. \A q \in Request : Starting(q, s, o)' => Starting(q, s, o)
    BY <1>6 DEF Starting, At
  <2> QED
    BY <1>2, <1>4, <1>6, <2>1
<1>7. ASSUME NEW r \in Request,
             \/ \E a \in Application : Touch(r, a)
             \/ Commit(r) \/ ReferRead(r) \/ Advance(r) \/ PayCommit(r) \/ Drop(r)
             \/ \E u \in Student : PayRead(r, u)
      PROVE  AloneStart(s, o)'
  <2>1. CASE \E q \in Request, a \in Application : StartCommit(q, a)
    BY <1>3, <2>1
  <2>2. CASE \A q \in Request, a \in Application : ~StartCommit(q, a)
    <3>1. CASE Commit(r)
      <4>1. req'[r].pc \in {"idle", "refer"}
        BY <3>1, CommitFacts
      <4>2. (\A q \in Request \ {r} : req'[q] = req[q]) /\ UNCHANGED history
        BY <3>1, CommitFacts
      <4> QED
        BY <1>6, <2>2, <4>1, <4>2 DEF history
    <3>2. CASE \E a \in Application : Touch(r, a)
      BY <1>6, <2>2, <3>2, TouchFacts DEF Planned
    <3>3. CASE \/ ReferRead(r) \/ Advance(r) \/ PayCommit(r) \/ Drop(r)
               \/ \E u \in Student : PayRead(r, u)
      <4>1. /\ req'[r].pc \in {"idle", "advance", "pay"}
            /\ \A q \in Request \ {r} : req'[q] = req[q]
            /\ UNCHANGED <<raced, racedStart>>
        BY <3>3, ReferReadFacts, AdvanceFacts, PayCommitFacts, DropFacts, PayReadFacts DEF history
      <4> QED
        BY <1>6, <2>2, <4>1
    <3> QED
      BY <1>7, <3>1, <3>2, <3>3
  <2> QED
    BY <2>1, <2>2
<1>8. CASE UNCHANGED <<req, raced, racedStart>>
  <2>1. CASE \E q \in Request, a \in Application : StartCommit(q, a)
    BY <1>3, <2>1
  <2>2. CASE \A q \in Request, a \in Application : ~StartCommit(q, a)
    BY <1>2, <1>4, <1>8, <2>2 DEF Starting, At
  <2> QED
    BY <2>1, <2>2
<1>9. CASE UNCHANGED vars
  BY <1>8, <1>9 DEF vars, history
<1>10. CASE Next
  BY <1>3, <1>5, <1>7, <1>8, <1>10
     DEF Next, Touch, ApplyReferral, ArchiveLetter, RemoveLetter, history
<1> QED
  BY <1>9, <1>10

(* A student has at most one open application for an offering, unless two   *)
(* were started at a time or overlapping changes reopened one. *)
THEOREM OpenApplicationsAreSingle == Spec => []OneOpenApplication
<1>1. Init => StartsAlone
  BY DEF Init, Idle, StartsAlone, AloneStart, Starting, At, Duplicate
<1>2. (TypeInv /\ StatusesAlone) /\ StartsAlone /\ [Next]_vars => StartsAlone'
  BY StartStep
<1>3. (TypeInv /\ StatusesAlone) /\ StartsAlone => OneOpenApplication
  <2> SUFFICES ASSUME TypeInv, StartsAlone, NEW a \in Application \ raced,
                      NEW b \in Application \ raced, a # b, app[a] # None, app[b] # None,
                      app[a].status \notin Ended, app[b].status \notin Ended,
                      app[a].student = app[b].student, app[a].offering = app[b].offering,
                      <<app[a].student, app[a].offering>> \notin racedStart
               PROVE  FALSE
    BY DEF OneOpenApplication
  <2>1. PICK s \in Student, o \in Offering : s = app[a].student /\ o = app[a].offering
    BY DEF TypeInv, TypeOK, Row
  <2>2. AloneStart(s, o)
    BY <2>1 DEF StartsAlone
  <2> QED
    BY <2>1, <2>2 DEF AloneStart, Duplicate
<1> QED
  BY <1>1, <1>2, <1>3, StatusInductive, PTL DEF Spec
=============================================================================
