--------------------------- MODULE LeadEditingProofs ---------------------------
(***************************************************************************)
(* Proofs about LeadEditing, for any number of leads, tabs, statuses and   *)
(* consultants.                                                            *)
(*                                                                         *)
(* The argument: a tab or a transaction that holds the current updatedAt   *)
(* of a lead holds its current status and consultant, because whatever     *)
(* changes one of the two changes updatedAt (Snapshots).  A commit whose   *)
(* condition holds therefore replaces exactly what its history or audit    *)
(* row says it replaces, which keeps the two logs chained (Logs), and      *)
(* every commit has an updatedAt of its own to show for it (Versions).     *)
(***************************************************************************)
EXTENDS LeadEditing, TLAPS

(* What a save in flight and a displayed page refer to.                     *)
InFlightOK ==
  \A e \in Editor :
    /\ req[e].pc # "idle" => req[e].lead \in Lead
    /\ req[e].pc = "commitStatus" => req[e].status \in Status /\ req[e].newStatus \in Status

(* Whoever holds the current updatedAt holds the current values.            *)
Snapshots ==
  \A e \in Editor :
    /\ page[e].lead # None =>
         /\ page[e].updatedAt <= lead[page[e].lead].updatedAt
         /\ page[e].updatedAt = lead[page[e].lead].updatedAt
              => page[e].status = lead[page[e].lead].status
    /\ req[e].pc # "idle" => req[e].expected <= lead[req[e].lead].updatedAt
    /\ req[e].pc = "commitStatus" /\ Current(e) =>
         req[e].status = lead[req[e].lead].status /\ req[e].shown = req[e].status
    /\ req[e].pc = "commitAssignment" /\ Current(e) =>
         req[e].consultant = assigned[req[e].lead]

(* Each commit produced an updatedAt of its own, one more than it was based *)
(* on, and not later than the row's.                                        *)
Versions ==
  /\ \A c \in commits : c.result = c.base + 1 /\ c.result <= lead[c.lead].updatedAt
  /\ \A c, d \in commits : c.lead = d.lead /\ c.result = d.result => c = d

Logs == HistoryTellsTheStatus /\ AuditTellsTheConsultant

TypeInv == TypeOK /\ InFlightOK
IInv    == TypeInv /\ Snapshots /\ Versions /\ NoBlindStatus /\ Logs

-----------------------------------------------------------------------------
(* Logs.                                                                    *)

(* A row that takes over where a chain ended extends the chain.             *)
LEMMA ChainedAppend ==
  ASSUME NEW Row, NEW log \in Seq(Row), NEW row \in Row, NEW initially,
         Chained(log), Latest(log, initially) = row.old
  PROVE  /\ Chained(Append(log, row))
         /\ Latest(Append(log, row), initially) = row.new
<1> DEFINE longer == Append(log, row)
<1>1. /\ longer \in Seq(Row)
      /\ Len(log) \in Nat /\ Len(longer) = Len(log) + 1
      /\ longer[Len(log) + 1] = row
      /\ \A i \in 1 .. Len(log) : longer[i] = log[i]
  OBVIOUS
<1>2. longer # <<>>
  BY <1>1
<1>3. ASSUME NEW i \in 1 .. Len(longer) - 1
      PROVE  longer[i + 1].old = longer[i].new
  <2>1. CASE i + 1 \in 1 .. Len(log)
    BY <1>1, <2>1 DEF Chained
  <2>2. CASE i = Len(log)
    <3>1. log # <<>> /\ log[i].new = row.old
      BY <1>1, <2>2 DEF Latest
    <3> QED
      BY <1>1, <2>2, <3>1
  <2> QED
    BY <1>1, <2>1, <2>2
<1> QED
  BY <1>1, <1>2, <1>3 DEF Chained, Latest

(* The log a lead starts with. *)
LEMMA FirstLog ==
  ASSUME NEW log, NEW initially, NEW row,
         log = <<>> \/ (log = <<row>> /\ row.new = initially)
  PROVE  Chained(log) /\ Latest(log, initially) = initially
<1>1. CASE log = <<>>
  BY <1>1 DEF Chained, Latest
<1>2. CASE log = <<row>> /\ row.new = initially
  <2>1. Len(log) = 1 /\ log[1] = row /\ log # <<>>
    BY <1>2
  <2> QED
    BY <1>2, <2>1 DEF Chained, Latest
<1> QED
  BY <1>1, <1>2

-----------------------------------------------------------------------------
(* Type correctness.                                                        *)

LEMMA InitType == Init => TypeInv
<1> SUFFICES ASSUME Init PROVE TypeInv
  OBVIOUS
<1>1. [old |-> None, new |-> NewStatus] \in StatusChange
  BY ConstantsAssumption DEF StatusChange, MaybeStatus
<1>2. <<>> \in Seq(StatusChange) /\ <<[old |-> None, new |-> NewStatus]>> \in Seq(StatusChange)
  BY <1>1
<1>3. history \in [Lead -> Seq(StatusChange)]
  BY <1>2 DEF Init
<1> QED
  BY <1>3, ConstantsAssumption
     DEF Init, TypeInv, TypeOK, InFlightOK, LeadRow, MaybeConsultant, MaybeStatus, Page, NoPage,
         Card, NoCard, Save, Idle, Pc

LEMMA IdleType == Idle \in Save
BY DEF Idle, Save, Pc, MaybeStatus, MaybeConsultant

LEMMA FinishType ==
  ASSUME TypeInv, NEW e \in Editor, Finish(e)
  PROVE  /\ req' \in [Editor -> Save]
         /\ req'[e] = Idle
         /\ \A f \in Editor : f # e => req'[f] = req[f]
BY IdleType DEF Finish, TypeInv, TypeOK

LEMMA WrittenType ==
  ASSUME NEW row \in LeadRow, NEW s \in Status
  PROVE  /\ Written(row, s) \in LeadRow
         /\ Written(row, s).status = s
         /\ Written(row, s).updatedAt = row.updatedAt + 1
BY DEF Written, LeadRow

(* What a successful status save does. *)
LEMMA StatusCommitted ==
  ASSUME TypeInv, NEW e \in Editor, CommitStatus(e), Current(e)
  PROVE  LET l == req[e].lead IN
         /\ l \in Lead /\ lead[l] \in LeadRow /\ req[e] \in Save
         /\ req[e].newStatus \in Status /\ req[e].status \in Status
         /\ lead' = [lead EXCEPT ![l] = Written(lead[l], req[e].newStatus)]
         /\ lead'[l].status = req[e].newStatus
         /\ lead'[l].updatedAt = lead[l].updatedAt + 1
         /\ StatusRow(e) \in StatusChange
         /\ history' = [history EXCEPT ![l] = Append(history[l], StatusRow(e))]
         /\ UNCHANGED <<assigned, audit, retired, page, card>>
         /\ Committed(e, "status", lead[l].status)
<1> DEFINE l == req[e].lead
<1>1. l \in Lead /\ req[e].newStatus \in Status /\ req[e].status \in Status
  BY DEF CommitStatus, At, TypeInv, InFlightOK
<1>2. lead[l] \in LeadRow /\ req[e] \in Save
  BY <1>1 DEF TypeInv, TypeOK
<1>3. /\ lead' = [lead EXCEPT ![l] = Written(lead[l], req[e].newStatus)]
      /\ history' = [history EXCEPT ![l] = Append(history[l], StatusRow(e))]
      /\ UNCHANGED <<assigned, audit, retired, page, card>>
      /\ Committed(e, "status", lead[l].status)
  BY <1>1 DEF CommitStatus, TypeInv, TypeOK
<1>4. lead'[l] = Written(lead[l], req[e].newStatus)
  BY <1>1, <1>3 DEF TypeInv, TypeOK
<1>5. StatusRow(e) \in StatusChange
  BY <1>1 DEF StatusRow, StatusChange, MaybeStatus
<1> QED
  BY <1>1, <1>2, <1>3, <1>4, <1>5, WrittenType

(* What a successful assignment does. *)
LEMMA AssignmentCommitted ==
  ASSUME TypeInv, NEW e \in Editor, CommitAssignment(e), Current(e)
  PROVE  LET l == req[e].lead IN
         /\ l \in Lead /\ lead[l] \in LeadRow /\ req[e] \in Save
         /\ assigned' = [assigned EXCEPT ![l] = req[e].newConsultant]
         /\ lead' = [lead EXCEPT ![l] = Written(lead[l], lead[l].status)]
         /\ lead'[l].status = lead[l].status
         /\ lead'[l].updatedAt = lead[l].updatedAt + 1
         /\ AssignmentRow(e) \in ConsultantChange
         /\ audit' = [audit EXCEPT ![l] = Append(audit[l], AssignmentRow(e))]
         /\ UNCHANGED <<history, retired, page, card>>
         /\ Committed(e, "consultant", assigned[l])
<1> DEFINE l == req[e].lead
<1>1. l \in Lead
  BY DEF CommitAssignment, At, TypeInv, InFlightOK
<1>2. lead[l] \in LeadRow /\ req[e] \in Save
  BY <1>1 DEF TypeInv, TypeOK
<1>3. /\ assigned' = [assigned EXCEPT ![l] = req[e].newConsultant]
      /\ lead' = [lead EXCEPT ![l] = Written(lead[l], lead[l].status)]
      /\ audit' = [audit EXCEPT ![l] = Append(audit[l], AssignmentRow(e))]
      /\ UNCHANGED <<history, retired, page, card>>
      /\ Committed(e, "consultant", assigned[l])
  BY <1>1 DEF CommitAssignment, TypeInv, TypeOK
<1>4. lead'[l] = Written(lead[l], lead[l].status) /\ lead[l].status \in Status
  BY <1>1, <1>2, <1>3 DEF TypeInv, TypeOK, LeadRow
<1>5. AssignmentRow(e) \in ConsultantChange
  BY <1>2 DEF AssignmentRow, Save, ConsultantChange
<1> QED
  BY <1>1, <1>2, <1>3, <1>4, <1>5, WrittenType

(* Only a save that commits under its condition writes to the store; every  *)
(* other step leaves leads, assignments and both logs alone.                *)
LEMMA WhatCommits ==
  ASSUME TypeInv, [Next]_vars
  PROVE  \/ UNCHANGED <<lead, history, assigned, audit, commits>>
         \/ \E e \in Editor : CommitStatus(e) /\ Current(e)
         \/ \E e \in Editor : CommitAssignment(e) /\ Current(e)
<1>1. ASSUME NEW e \in Editor, CommitStatus(e), ~Current(e)
      PROVE  UNCHANGED <<lead, history, assigned, audit, commits>>
  BY <1>1 DEF CommitStatus
<1>2. ASSUME NEW e \in Editor, CommitAssignment(e), ~Current(e)
      PROVE  UNCHANGED <<lead, history, assigned, audit, commits>>
  BY <1>2 DEF CommitAssignment
<1>3. \/ UNCHANGED <<lead, history, assigned, audit, commits>>
      \/ \E e \in Editor : CommitStatus(e) \/ CommitAssignment(e)
  BY DEF Next, vars, storeVars, OpenPage, OpenCard, SaveStatus, SaveAssignment, ReadAssignment,
         Retire, Drop
<1> QED
  BY <1>1, <1>2, <1>3

LEMMA StatusCommitType ==
  ASSUME TypeInv, NEW e \in Editor, CommitStatus(e), Current(e)
  PROVE  /\ lead' \in [Lead -> LeadRow] /\ history' \in [Lead -> Seq(StatusChange)]
         /\ commits' \subseteq Commit
<1> DEFINE l == req[e].lead
<1>1. /\ l \in Lead /\ lead[l] \in LeadRow /\ req[e] \in Save
      /\ req[e].newStatus \in Status
      /\ lead' = [lead EXCEPT ![l] = Written(lead[l], req[e].newStatus)]
      /\ StatusRow(e) \in StatusChange
      /\ history' = [history EXCEPT ![l] = Append(history[l], StatusRow(e))]
      /\ Committed(e, "status", lead[l].status)
  BY StatusCommitted
<1>2. lead' \in [Lead -> LeadRow]
  BY <1>1, WrittenType DEF TypeInv, TypeOK
<1>3. history' \in [Lead -> Seq(StatusChange)]
  <2>1. history[l] \in Seq(StatusChange)
    BY <1>1 DEF TypeInv, TypeOK
  <2>2. Append(history[l], StatusRow(e)) \in Seq(StatusChange)
    BY <1>1, <2>1
  <2> QED
    BY <1>1, <2>2 DEF TypeInv, TypeOK
<1>4. commits' \subseteq Commit
  BY <1>1 DEF Committed, Commit, Save, LeadRow, MaybeStatus, TypeInv, TypeOK
<1> QED
  BY <1>2, <1>3, <1>4

LEMMA AssignmentCommitType ==
  ASSUME TypeInv, NEW e \in Editor, CommitAssignment(e), Current(e)
  PROVE  /\ lead' \in [Lead -> LeadRow] /\ assigned' \in [Lead -> MaybeConsultant]
         /\ audit' \in [Lead -> Seq(ConsultantChange)] /\ commits' \subseteq Commit
<1> DEFINE l == req[e].lead
<1>1. /\ l \in Lead /\ lead[l] \in LeadRow /\ req[e] \in Save
      /\ assigned' = [assigned EXCEPT ![l] = req[e].newConsultant]
      /\ lead' = [lead EXCEPT ![l] = Written(lead[l], lead[l].status)]
      /\ AssignmentRow(e) \in ConsultantChange
      /\ audit' = [audit EXCEPT ![l] = Append(audit[l], AssignmentRow(e))]
      /\ Committed(e, "consultant", assigned[l])
  BY AssignmentCommitted
<1>2. lead' \in [Lead -> LeadRow]
  <2>1. lead[l].status \in Status
    BY <1>1 DEF LeadRow
  <2> QED
    BY <1>1, <2>1, WrittenType DEF TypeInv, TypeOK
<1>3. assigned' \in [Lead -> MaybeConsultant]
  <2>1. req[e].newConsultant \in MaybeConsultant
    BY <1>1 DEF CommitAssignment, AssignmentRow, ConsultantChange
  <2> QED
    BY <1>1, <2>1 DEF TypeInv, TypeOK
<1>4. audit' \in [Lead -> Seq(ConsultantChange)]
  <2>1. audit[l] \in Seq(ConsultantChange)
    BY <1>1 DEF TypeInv, TypeOK
  <2>2. Append(audit[l], AssignmentRow(e)) \in Seq(ConsultantChange)
    BY <1>1, <2>1
  <2> QED
    BY <1>1, <2>2 DEF TypeInv, TypeOK
<1>5. commits' \subseteq Commit
  <2>1. assigned[l] \in MaybeConsultant
    BY <1>1 DEF TypeInv, TypeOK
  <2> QED
    BY <1>1, <2>1 DEF Committed, Commit, Save, LeadRow, TypeInv, TypeOK
<1> QED
  BY <1>2, <1>3, <1>4, <1>5

(* What a step makes of the save of one tab. *)
LEMMA SaveSince ==
  ASSUME TypeInv, [Next]_vars, NEW e \in Editor
  PROVE  \/ req'[e] = req[e]
         \/ req'[e] = Idle
         \/ \E s \in Status : SaveStatus(e, s)
         \/ \E c \in MaybeConsultant : SaveAssignment(e, c)
         \/ ReadAssignment(e) /\ req'[e] # Idle
<1>1. ASSUME NEW f \in Editor,
             \/ \E s \in Status : SaveStatus(f, s)
             \/ \E c \in MaybeConsultant : SaveAssignment(f, c)
             \/ ReadAssignment(f) /\ ~Finish(f)
      PROVE  f # e => req'[e] = req[e]
  BY <1>1 DEF SaveStatus, SaveAssignment, ReadAssignment, TypeInv, TypeOK
<1>2. ASSUME NEW f \in Editor, Finish(f)
      PROVE  req'[e] = req[e] \/ req'[e] = Idle
  BY <1>2, FinishType
<1>3. ASSUME NEW f \in Editor, CommitStatus(f) \/ CommitAssignment(f) \/ Drop(f)
      PROVE  Finish(f)
  BY <1>3 DEF CommitStatus, CommitAssignment, Drop
<1>4. CASE UNCHANGED req
  BY <1>4
<1>5. \/ UNCHANGED req
      \/ \E f \in Editor : \/ CommitStatus(f) \/ CommitAssignment(f) \/ Drop(f)
                           \/ \E s \in Status : SaveStatus(f, s)
                           \/ \E c \in MaybeConsultant : SaveAssignment(f, c)
                           \/ ReadAssignment(f)
  BY DEF Next, vars, OpenPage, OpenCard, Retire
<1> QED
  BY <1>1, <1>2, <1>3, <1>4, <1>5

LEMMA SaveType ==
  ASSUME TypeInv, [Next]_vars, NEW e \in Editor
  PROVE  /\ req'[e] \in Save
         /\ req'[e].pc # "idle" => req'[e].lead \in Lead
         /\ req'[e].pc = "commitStatus" =>
              req'[e].status \in Status /\ req'[e].newStatus \in Status
<1>1. CASE req'[e] = req[e]
  BY <1>1 DEF TypeInv, TypeOK, InFlightOK
<1>2. CASE req'[e] = Idle
  BY <1>2, IdleType DEF Idle
<1>3. ASSUME NEW s \in Status, SaveStatus(e, s)
      PROVE  /\ req'[e] \in Save /\ req'[e].lead \in Lead
             /\ req'[e].status \in Status /\ req'[e].newStatus \in Status
  <2>1. /\ page[e].lead \in Lead /\ page[e].status \in MaybeStatus
        /\ page[e].updatedAt \in Nat /\ lead[page[e].lead].status \in Status
    BY <1>3 DEF SaveStatus, TypeInv, TypeOK, Page, LeadRow
  <2> QED
    BY <1>3, <2>1 DEF SaveStatus, Displayed, Idle, Save, Pc, MaybeStatus, MaybeConsultant,
                      TypeInv, TypeOK
<1>4. ASSUME NEW c \in MaybeConsultant, SaveAssignment(e, c)
      PROVE  req'[e] \in Save /\ req'[e].lead \in Lead /\ req'[e].pc = "readAssignment"
  <2>1. /\ card[e].lead \in Lead /\ card[e].consultant \in MaybeConsultant
        /\ lead[card[e].lead].updatedAt \in Nat
    BY <1>4 DEF SaveAssignment, TypeInv, TypeOK, Card, LeadRow
  <2> QED
    BY <1>4, <2>1 DEF SaveAssignment, Fetched, Idle, Save, Pc, MaybeStatus, MaybeConsultant,
                      TypeInv, TypeOK
<1>5. CASE ReadAssignment(e) /\ req'[e] # Idle
  <2>1. req[e].lead \in Lead
    BY <1>5 DEF ReadAssignment, At, TypeInv, InFlightOK
  <2>2. req' = [req EXCEPT ![e].pc = "commitAssignment", ![e].consultant = assigned[req[e].lead]]
    BY <1>5, FinishType DEF ReadAssignment
  <2>3. assigned[req[e].lead] \in MaybeConsultant /\ req[e] \in Save
    BY <2>1 DEF TypeInv, TypeOK
  <2>4. /\ req'[e].pc = "commitAssignment" /\ req'[e].lead = req[e].lead
        /\ req'[e] \in Save
    BY <2>2, <2>3 DEF TypeInv, TypeOK, Save, Pc
  <2> QED
    BY <2>1, <2>4
<1> QED
  BY <1>1, <1>2, <1>3, <1>4, <1>5, SaveSince

LEMMA ReqFunction ==
  ASSUME TypeInv, [Next]_vars
  PROVE  req' \in [Editor -> Save]
<1>1. req' = [e \in Editor |-> req'[e]]
  BY DEF Next, vars, storeVars, OpenPage, OpenCard, SaveStatus, CommitStatus, SaveAssignment,
         ReadAssignment, CommitAssignment, Retire, Drop, Finish, TypeInv, TypeOK
<1>2. \A e \in Editor : req'[e] \in Save
  BY SaveType
<1> QED
  BY <1>1, <1>2

LEMMA TypeStep == TypeInv /\ [Next]_vars => TypeInv'
<1> SUFFICES ASSUME TypeInv, [Next]_vars PROVE TypeInv'
  OBVIOUS
<1>1. /\ lead' \in [Lead -> LeadRow]
      /\ history' \in [Lead -> Seq(StatusChange)]
      /\ assigned' \in [Lead -> MaybeConsultant]
      /\ audit' \in [Lead -> Seq(ConsultantChange)]
      /\ commits' \subseteq Commit
  <2>1. CASE UNCHANGED <<lead, history, assigned, audit, commits>>
    BY <2>1 DEF TypeInv, TypeOK
  <2>2. ASSUME NEW e \in Editor, CommitStatus(e), Current(e)
        PROVE  <1>1
    BY <2>2, StatusCommitType, StatusCommitted DEF TypeInv, TypeOK
  <2>3. ASSUME NEW e \in Editor, CommitAssignment(e), Current(e)
        PROVE  <1>1
    BY <2>3, AssignmentCommitType, AssignmentCommitted DEF TypeInv, TypeOK
  <2> QED
    BY <2>1, <2>2, <2>3, WhatCommits
<1>2. retired' \subseteq Consultant
  BY DEF TypeInv, TypeOK, Next, vars, storeVars, OpenPage, OpenCard, SaveStatus, CommitStatus,
         SaveAssignment, ReadAssignment, CommitAssignment, Retire, Drop
<1>3. page' \in [Editor -> Page]
  <2>1. ASSUME NEW e \in Editor, NEW l \in Lead, OpenPage(e, l)
        PROVE  page' \in [Editor -> Page]
    <3>1. lead[l] \in LeadRow
      BY DEF TypeInv, TypeOK
    <3> QED
      BY <2>1, <3>1 DEF OpenPage, Page, LeadRow, MaybeStatus, TypeInv, TypeOK
  <2>2. CASE UNCHANGED page
    BY <2>2 DEF TypeInv, TypeOK
  <2> QED
    BY <2>1, <2>2 DEF Next, vars, storeVars, OpenCard, SaveStatus, CommitStatus,
         SaveAssignment, ReadAssignment, CommitAssignment, Retire, Drop
<1>4. card' \in [Editor -> Card]
  <2>1. ASSUME NEW e \in Editor, NEW l \in Lead, OpenCard(e, l)
        PROVE  card' \in [Editor -> Card]
    <3>1. Visible(l) \in MaybeConsultant
      BY DEF Visible, MaybeConsultant, TypeInv, TypeOK
    <3> QED
      BY <2>1, <3>1 DEF OpenCard, Card, TypeInv, TypeOK
  <2>2. CASE UNCHANGED card
    BY <2>2 DEF TypeInv, TypeOK
  <2> QED
    BY <2>1, <2>2 DEF Next, vars, storeVars, OpenPage, SaveStatus, CommitStatus,
         SaveAssignment, ReadAssignment, CommitAssignment, Retire, Drop
<1>5. req' \in [Editor -> Save]
  BY ReqFunction
<1>6. InFlightOK'
  BY SaveType DEF InFlightOK
<1> QED
  BY <1>1, <1>2, <1>3, <1>4, <1>5, <1>6 DEF TypeInv, TypeOK

-----------------------------------------------------------------------------
(* The strengthened invariant.                                              *)

LEMMA InitIInv == Init => IInv
<1> SUFFICES ASSUME Init PROVE IInv
  OBVIOUS
<1>1. TypeInv
  BY InitType
<1>2. Snapshots /\ Versions /\ NoBlindStatus
  BY DEF Init, Snapshots, Versions, NoBlindStatus, NoPage, Idle
<1>3. ASSUME NEW l \in Lead
      PROVE  Chained(history[l]) /\ Latest(history[l], NewStatus) = lead[l].status
  <2> DEFINE row == [old |-> None, new |-> NewStatus]
  <2>1. history[l] = <<>> \/ (history[l] = <<row>> /\ row.new = NewStatus)
    BY DEF Init
  <2>2. lead[l].status = NewStatus
    BY DEF Init
  <2> HIDE DEF row
  <2> QED
    BY <2>1, <2>2, FirstLog
<1>4. ASSUME NEW l \in Lead
      PROVE  Chained(audit[l]) /\ Latest(audit[l], None) = assigned[l]
  BY FirstLog DEF Init
<1> QED
  BY <1>1, <1>2, <1>3, <1>4 DEF IInv, Logs, HistoryTellsTheStatus, AuditTellsTheConsultant

(* updatedAt never goes back, and while it stays the row and its assignment *)
(* stay too.                                                                *)
LEMMA VersionMoves ==
  ASSUME TypeInv, [Next]_vars, NEW l \in Lead
  PROVE  /\ lead[l].updatedAt \in Nat /\ lead'[l].updatedAt \in Nat
         /\ lead[l].updatedAt <= lead'[l].updatedAt
         /\ lead'[l].updatedAt = lead[l].updatedAt =>
              lead'[l] = lead[l] /\ assigned'[l] = assigned[l]
<1>1. lead[l] \in LeadRow /\ lead[l].updatedAt \in Nat
  BY DEF TypeInv, TypeOK, LeadRow
<1>2. CASE UNCHANGED <<lead, history, assigned, audit, commits>>
  BY <1>1, <1>2
<1>3. ASSUME NEW e \in Editor, CommitStatus(e), Current(e)
      PROVE  /\ lead'[l] = lead[l] \/ lead'[l].updatedAt = lead[l].updatedAt + 1
             /\ UNCHANGED assigned
  BY <1>3, StatusCommitted DEF TypeInv, TypeOK
<1>4. ASSUME NEW e \in Editor, CommitAssignment(e), Current(e)
      PROVE  \/ lead'[l] = lead[l] /\ assigned'[l] = assigned[l]
             \/ lead'[l].updatedAt = lead[l].updatedAt + 1
  <2>1. CASE l = req[e].lead
    BY <1>4, <2>1, AssignmentCommitted
  <2>2. CASE l # req[e].lead
    BY <1>4, <2>2, AssignmentCommitted DEF TypeInv, TypeOK
  <2> QED
    BY <2>1, <2>2
<1> QED
  BY <1>1, <1>2, <1>3, <1>4, WhatCommits

LEMMA SnapshotStep == TypeInv /\ Snapshots /\ [Next]_vars => Snapshots'
<1> SUFFICES ASSUME TypeInv, Snapshots, [Next]_vars, NEW e \in Editor
             PROVE  /\ page'[e].lead # None =>
                         /\ page'[e].updatedAt <= lead'[page'[e].lead].updatedAt
                         /\ page'[e].updatedAt = lead'[page'[e].lead].updatedAt
                              => page'[e].status = lead'[page'[e].lead].status
                    /\ req'[e].pc # "idle" => req'[e].expected <= lead'[req'[e].lead].updatedAt
                    /\ req'[e].pc = "commitStatus" /\ Current(e)' =>
                         /\ req'[e].status = lead'[req'[e].lead].status
                         /\ req'[e].shown = req'[e].status
                    /\ req'[e].pc = "commitAssignment" /\ Current(e)' =>
                         req'[e].consultant = assigned'[req'[e].lead]
  BY DEF Snapshots
<1>1. ASSUME page'[e].lead # None
      PROVE  /\ page'[e].updatedAt <= lead'[page'[e].lead].updatedAt
             /\ page'[e].updatedAt = lead'[page'[e].lead].updatedAt
                  => page'[e].status = lead'[page'[e].lead].status
  <2>1. CASE page'[e] = page[e]
    <3>1. page[e].lead \in Lead /\ page[e].updatedAt \in Nat
      BY <1>1, <2>1 DEF TypeInv, TypeOK, Page
    <3> QED
      BY <1>1, <2>1, <3>1, VersionMoves DEF Snapshots
  <2>2. ASSUME NEW l \in Lead, OpenPage(e, l)
        PROVE  /\ page'[e].lead = l /\ page'[e].updatedAt = lead'[l].updatedAt
               /\ page'[e].status = lead'[l].status /\ lead'[l].updatedAt \in Nat
    BY <2>2, VersionMoves DEF OpenPage, storeVars, TypeInv, TypeOK
  <2>3. page'[e] = page[e] \/ \E l \in Lead : OpenPage(e, l)
    BY DEF Next, vars, storeVars, OpenPage, OpenCard, SaveStatus, CommitStatus,
           SaveAssignment, ReadAssignment, CommitAssignment, Retire, Drop, TypeInv, TypeOK
  <2> QED
    BY <2>1, <2>2, <2>3
<1>2. CASE req'[e] = req[e]
  <2>1. CASE req[e].pc = "idle"
    BY <1>1, <1>2, <2>1
  <2>2. CASE req[e].pc # "idle"
    <3>1. req[e].lead \in Lead /\ req[e].expected \in Nat
      BY <2>2 DEF TypeInv, TypeOK, InFlightOK, Save
    <3>2. req[e].expected <= lead[req[e].lead].updatedAt
      BY <2>2 DEF Snapshots
    <3>3. Current(e)' => Current(e) /\ lead'[req[e].lead].updatedAt = lead[req[e].lead].updatedAt
      BY <1>2, <3>1, <3>2, VersionMoves DEF Current
    <3> QED
      BY <1>1, <1>2, <3>1, <3>2, <3>3, VersionMoves DEF Snapshots
  <2> QED
    BY <2>1, <2>2
<1>3. CASE req'[e] = Idle
  BY <1>1, <1>3 DEF Idle
<1>4. ASSUME NEW s \in Status, SaveStatus(e, s)
      PROVE  /\ req'[e].pc = "commitStatus"
             /\ req'[e].expected <= lead'[req'[e].lead].updatedAt
             /\ req'[e].status = lead'[req'[e].lead].status
             /\ req'[e].shown = req'[e].status
  <2>1. /\ page[e].lead \in Lead /\ page[e].updatedAt = lead[page[e].lead].updatedAt
        /\ page[e].updatedAt \in Nat /\ lead' = lead
    BY <1>4 DEF SaveStatus, Displayed, storeVars, TypeInv, TypeOK, Page
  <2>2. page[e].status = lead[page[e].lead].status
    BY <1>4, <2>1 DEF SaveStatus, Snapshots
  <2>3. /\ req'[e].pc = "commitStatus" /\ req'[e].lead = page[e].lead
        /\ req'[e].expected = page[e].updatedAt
        /\ req'[e].status = lead[page[e].lead].status /\ req'[e].shown = page[e].status
    BY <1>4 DEF SaveStatus, Displayed, Idle, TypeInv, TypeOK
  <2> QED
    BY <2>1, <2>2, <2>3
<1>5. ASSUME NEW c \in MaybeConsultant, SaveAssignment(e, c)
      PROVE  /\ req'[e].pc = "readAssignment"
             /\ req'[e].expected <= lead'[req'[e].lead].updatedAt
  <2>1. card[e].lead \in Lead /\ lead[card[e].lead].updatedAt \in Nat /\ lead' = lead
    BY <1>5, VersionMoves DEF SaveAssignment, storeVars, TypeInv, TypeOK, Card
  <2>2. /\ req'[e].pc = "readAssignment" /\ req'[e].lead = card[e].lead
        /\ req'[e].expected = lead[card[e].lead].updatedAt
    BY <1>5 DEF SaveAssignment, Fetched, Idle, TypeInv, TypeOK
  <2> QED
    BY <2>1, <2>2
<1>6. CASE ReadAssignment(e) /\ req'[e] # Idle
  <2>1. req[e].lead \in Lead /\ req[e].pc # "idle"
    BY <1>6 DEF ReadAssignment, At, TypeInv, InFlightOK
  <2>2. req' = [req EXCEPT ![e].pc = "commitAssignment", ![e].consultant = assigned[req[e].lead]]
    BY <1>6, FinishType DEF ReadAssignment
  <2>3. /\ req'[e].pc = "commitAssignment" /\ req'[e].lead = req[e].lead
        /\ req'[e].expected = req[e].expected
        /\ req'[e].consultant = assigned[req[e].lead]
    BY <2>2 DEF TypeInv, TypeOK, Save
  <2>4. lead' = lead /\ assigned' = assigned
    BY <1>6 DEF ReadAssignment, storeVars
  <2> QED
    BY <1>1, <2>1, <2>3, <2>4 DEF Snapshots
<1> QED
  BY <1>1, <1>2, <1>3, <1>4, <1>5, <1>6, SaveSince

(* A successful commit adds one record, based on the current updatedAt.     *)
LEMMA NewCommit ==
  ASSUME TypeInv, NEW e \in Editor, Current(e),
         CommitStatus(e) \/ CommitAssignment(e)
  PROVE  \E c : /\ commits' = commits \cup {c}
                /\ c.lead = req[e].lead /\ c.lead \in Lead
                /\ c.base = lead[c.lead].updatedAt /\ c.result = c.base + 1
                /\ lead'[c.lead].updatedAt = c.result
                /\ CommitStatus(e) => c.shown = req[e].shown /\ c.old = lead[c.lead].status
                /\ CommitAssignment(e) => c.kind = "consultant"
<1> DEFINE l == req[e].lead
           record(kind, old) == [lead |-> l, base |-> req[e].expected,
                                 result |-> lead[l].updatedAt + 1, kind |-> kind,
                                 old |-> old, shown |-> req[e].shown]
<1>1. lead[l].updatedAt = req[e].expected
  BY DEF Current
<1>2. CASE CommitStatus(e)
  <2>1. /\ l \in Lead /\ lead'[l].updatedAt = lead[l].updatedAt + 1
        /\ Committed(e, "status", lead[l].status)
    BY <1>2, StatusCommitted
  <2>2. commits' = commits \cup {record("status", lead[l].status)}
    BY <2>1 DEF Committed
  <2>3. ~CommitAssignment(e)
    BY <1>2 DEF CommitStatus, CommitAssignment, At
  <2> WITNESS record("status", lead[l].status)
  <2> QED
    BY <1>1, <2>1, <2>2, <2>3
<1>3. CASE CommitAssignment(e)
  <2>1. /\ l \in Lead /\ lead'[l].updatedAt = lead[l].updatedAt + 1
        /\ Committed(e, "consultant", assigned[l])
    BY <1>3, AssignmentCommitted
  <2>2. commits' = commits \cup {record("consultant", assigned[l])}
    BY <2>1 DEF Committed
  <2>3. ~CommitStatus(e)
    BY <1>3 DEF CommitStatus, CommitAssignment, At
  <2> WITNESS record("consultant", assigned[l])
  <2> QED
    BY <1>1, <2>1, <2>2, <2>3
<1> QED
  BY <1>2, <1>3

LEMMA CommitsStep ==
  TypeInv /\ Snapshots /\ Versions /\ NoBlindStatus /\ [Next]_vars
    => Versions' /\ NoBlindStatus'
<1> SUFFICES ASSUME TypeInv, Snapshots, Versions, NoBlindStatus, [Next]_vars
             PROVE  Versions' /\ NoBlindStatus'
  OBVIOUS
<1>1. \A c \in commits : /\ c.lead \in Lead /\ c.base \in Nat /\ c.result \in Nat
                         /\ c.result <= lead[c.lead].updatedAt
                         /\ c.result <= lead'[c.lead].updatedAt
  BY VersionMoves DEF TypeInv, TypeOK, Commit, Versions
<1>2. CASE UNCHANGED <<lead, history, assigned, audit, commits>>
  BY <1>2 DEF Versions, NoBlindStatus
<1>3. ASSUME NEW e \in Editor, Current(e), CommitStatus(e) \/ CommitAssignment(e)
      PROVE  Versions' /\ NoBlindStatus'
  <2>1. PICK c : /\ commits' = commits \cup {c}
                 /\ c.lead = req[e].lead /\ c.lead \in Lead
                 /\ c.base = lead[c.lead].updatedAt /\ c.result = c.base + 1
                 /\ lead'[c.lead].updatedAt = c.result
                 /\ CommitStatus(e) => c.shown = req[e].shown /\ c.old = lead[c.lead].status
                 /\ CommitAssignment(e) => c.kind = "consultant"
    BY <1>3, NewCommit
  <2>2. lead[c.lead].updatedAt \in Nat
    BY <2>1, VersionMoves
  <2>3. \A d \in commits : d.lead = c.lead => d.result < c.result
    BY <1>1, <2>1, <2>2
  <2>4. Versions'
    BY <1>1, <2>1, <2>2, <2>3 DEF Versions
  <2>5. CommitStatus(e) => c.shown = c.old
    BY <1>3, <2>1 DEF CommitStatus, At, Snapshots
  <2>6. NoBlindStatus'
    BY <1>3, <2>1, <2>5 DEF NoBlindStatus
  <2> QED
    BY <2>4, <2>6
<1> QED
  BY <1>2, <1>3, WhatCommits

LEMMA LogStep == TypeInv /\ Snapshots /\ Logs /\ [Next]_vars => Logs'
<1> SUFFICES ASSUME TypeInv, Snapshots, Logs, [Next]_vars, NEW l \in Lead
             PROVE  /\ Chained(history'[l]) /\ Latest(history'[l], NewStatus) = lead'[l].status
                    /\ Chained(audit'[l]) /\ Latest(audit'[l], None) = assigned'[l]
  BY DEF Logs, HistoryTellsTheStatus, AuditTellsTheConsultant, Chained, Latest
<1>1. /\ Chained(history[l]) /\ Latest(history[l], NewStatus) = lead[l].status
      /\ Chained(audit[l]) /\ Latest(audit[l], None) = assigned[l]
  BY DEF Logs, HistoryTellsTheStatus, AuditTellsTheConsultant
<1>2. CASE UNCHANGED <<lead, history, assigned, audit, commits>>
  BY <1>1, <1>2
<1>3. ASSUME NEW e \in Editor, CommitStatus(e), Current(e)
      PROVE  /\ Chained(history'[l]) /\ Latest(history'[l], NewStatus) = lead'[l].status
             /\ Chained(audit'[l]) /\ Latest(audit'[l], None) = assigned'[l]
  <2>1. UNCHANGED <<assigned, audit>>
    BY <1>3, StatusCommitted
  <2>2. CASE l # req[e].lead
    <3>1. history'[l] = history[l] /\ lead'[l] = lead[l]
      BY <1>3, <2>2, StatusCommitted DEF TypeInv, TypeOK
    <3> QED
      BY <1>1, <2>1, <3>1
  <2>3. CASE l = req[e].lead
    <3>1. /\ lead'[l].status = req[e].newStatus
          /\ StatusRow(e) \in StatusChange
          /\ history'[l] = Append(history[l], StatusRow(e))
      BY <1>3, <2>3, StatusCommitted DEF TypeInv, TypeOK
    <3>2. StatusRow(e).old = lead[l].status /\ StatusRow(e).new = req[e].newStatus
      BY <1>3, <2>3 DEF StatusRow, CommitStatus, At, Snapshots
    <3>3. history[l] \in Seq(StatusChange)
      BY DEF TypeInv, TypeOK
    <3>4. /\ Chained(Append(history[l], StatusRow(e)))
          /\ Latest(Append(history[l], StatusRow(e)), NewStatus) = StatusRow(e).new
      <4>1. Chained(history[l]) /\ Latest(history[l], NewStatus) = StatusRow(e).old
        BY <1>1, <3>2
      <4> QED
        BY <3>1, <3>3, <4>1, ChainedAppend
    <3>5. Chained(history'[l]) /\ Latest(history'[l], NewStatus) = lead'[l].status
      BY <3>1, <3>2, <3>4
    <3> QED
      BY <1>1, <2>1, <3>5
  <2> QED
    BY <2>2, <2>3
<1>4. ASSUME NEW e \in Editor, CommitAssignment(e), Current(e)
      PROVE  /\ Chained(history'[l]) /\ Latest(history'[l], NewStatus) = lead'[l].status
             /\ Chained(audit'[l]) /\ Latest(audit'[l], None) = assigned'[l]
  <2>1. history' = history
    BY <1>4, AssignmentCommitted
  <2>2. CASE l # req[e].lead
    <3>1. audit'[l] = audit[l] /\ lead'[l] = lead[l] /\ assigned'[l] = assigned[l]
      BY <1>4, <2>2, AssignmentCommitted DEF TypeInv, TypeOK
    <3> QED
      BY <1>1, <2>1, <3>1
  <2>3. CASE l = req[e].lead
    <3>1. /\ lead'[l].status = lead[l].status
          /\ assigned'[l] = req[e].newConsultant
          /\ AssignmentRow(e) \in ConsultantChange
          /\ audit'[l] = Append(audit[l], AssignmentRow(e))
      BY <1>4, <2>3, AssignmentCommitted DEF TypeInv, TypeOK
    <3>2. AssignmentRow(e).old = assigned[l] /\ AssignmentRow(e).new = req[e].newConsultant
      BY <1>4, <2>3 DEF AssignmentRow, CommitAssignment, At, Snapshots
    <3>3. audit[l] \in Seq(ConsultantChange)
      BY DEF TypeInv, TypeOK
    <3>4. /\ Chained(Append(audit[l], AssignmentRow(e)))
          /\ Latest(Append(audit[l], AssignmentRow(e)), None) = AssignmentRow(e).new
      <4>1. Chained(audit[l]) /\ Latest(audit[l], None) = AssignmentRow(e).old
        BY <1>1, <3>2
      <4> QED
        BY <3>1, <3>3, <4>1, ChainedAppend
    <3>5. Chained(audit'[l]) /\ Latest(audit'[l], None) = assigned'[l]
      BY <3>1, <3>2, <3>4
    <3> QED
      BY <1>1, <2>1, <3>1, <3>5
  <2> QED
    BY <2>2, <2>3
<1> QED
  BY <1>2, <1>3, <1>4, WhatCommits

THEOREM EditingCorrect == Spec => []IInv
<1>1. IInv /\ [Next]_vars => IInv'
  BY TypeStep, SnapshotStep, CommitsStep, LogStep DEF IInv
<1> QED
  BY <1>1, InitIInv, PTL DEF Spec

(* Every variable keeps its type. *)
THEOREM EditingTypes == Spec => []TypeOK
<1>1. IInv => TypeOK
  BY DEF IInv, TypeInv
<1> QED
  BY <1>1, EditingCorrect, PTL

(* The status history of a lead and its status never disagree. *)
THEOREM StatusHistoryIsTrue == Spec => []HistoryTellsTheStatus
<1>1. IInv => HistoryTellsTheStatus
  BY DEF IInv, Logs
<1> QED
  BY <1>1, EditingCorrect, PTL

(* Nor do the audit trail of a lead's assignments and its consultant. *)
THEOREM AssignmentAuditIsTrue == Spec => []AuditTellsTheConsultant
<1>1. IInv => AuditTellsTheConsultant
  BY DEF IInv, Logs
<1> QED
  BY <1>1, EditingCorrect, PTL

(* Of the saves that start from one state of a lead at most one succeeds. *)
THEOREM OneWinner == Spec => []OneWinnerPerVersion
<1>1. IInv => OneWinnerPerVersion
  BY DEF IInv, Versions, OneWinnerPerVersion
<1> QED
  BY <1>1, EditingCorrect, PTL

(* No status is overwritten unseen. *)
THEOREM StatusNeverBlind == Spec => []NoBlindStatus
<1>1. IInv => NoBlindStatus
  BY DEF IInv
<1> QED
  BY <1>1, EditingCorrect, PTL

-----------------------------------------------------------------------------
(* The refinement of LeadRecord.                                            *)

(* A save that is about to commit replaces a value by another one.          *)
Effective ==
  \A e \in Editor :
    /\ At(e, "commitStatus") => req[e].newStatus # req[e].status
    /\ At(e, "commitAssignment") => /\ req[e].newConsultant # req[e].consultant
                                   /\ req[e].newConsultant \in MaybeConsultant

LEMMA EffectiveStep == TypeInv /\ Effective /\ [Next]_vars => Effective'
<1> SUFFICES ASSUME TypeInv, Effective, [Next]_vars, NEW e \in Editor
             PROVE  /\ req'[e].pc = "commitStatus" => req'[e].newStatus # req'[e].status
                    /\ req'[e].pc = "commitAssignment" =>
                         /\ req'[e].newConsultant # req'[e].consultant
                         /\ req'[e].newConsultant \in MaybeConsultant
  BY DEF Effective, At
<1>1. CASE req'[e] = req[e]
  BY <1>1 DEF Effective, At
<1>2. CASE req'[e] = Idle
  BY <1>2 DEF Idle
<1>3. ASSUME NEW s \in Status, SaveStatus(e, s)
      PROVE  req'[e].pc = "commitStatus" /\ req'[e].newStatus # req'[e].status
  BY <1>3 DEF SaveStatus, Idle, TypeInv, TypeOK
<1>4. ASSUME NEW c \in MaybeConsultant, SaveAssignment(e, c)
      PROVE  req'[e].pc = "readAssignment"
  BY <1>4 DEF SaveAssignment, Idle, TypeInv, TypeOK
<1>5. CASE ReadAssignment(e) /\ req'[e] # Idle
  <2>1. /\ req' = [req EXCEPT ![e].pc = "commitAssignment",
                              ![e].consultant = assigned[req[e].lead]]
        /\ req[e].newConsultant # assigned[req[e].lead]
    BY <1>5, FinishType DEF ReadAssignment
  <2>2. req[e] \in Save
    BY DEF TypeInv, TypeOK
  <2>3. /\ req'[e].pc = "commitAssignment" /\ req'[e].consultant = assigned[req[e].lead]
        /\ req'[e].newConsultant = req[e].newConsultant
    BY <2>1, <2>2 DEF TypeInv, TypeOK, Save
  <2>4. req[e].newConsultant \in MaybeConsultant
    BY <2>2 DEF Save
  <2> QED
    BY <2>1, <2>3, <2>4
<1> QED
  BY <1>1, <1>2, <1>3, <1>4, <1>5, SaveSince

Rows == [l \in Lead |-> [status |-> lead[l].status, consultant |-> assigned[l],
                         version |-> lead[l].updatedAt]]

LEMMA StatusRefines ==
  ASSUME TypeInv, Snapshots, Effective, NEW e \in Editor, CommitStatus(e), Current(e)
  PROVE  Record!Next
<1>1. PICK l \in Lead, s \in Status : l = req[e].lead /\ s = req[e].newStatus
  BY StatusCommitted
<1>2. /\ lead' = [lead EXCEPT ![l] = Written(lead[l], s)]
      /\ lead'[l].status = s /\ lead'[l].updatedAt = lead[l].updatedAt + 1
      /\ history' = [history EXCEPT ![l] = Append(history[l], StatusRow(e))]
      /\ UNCHANGED <<assigned, audit>>
  BY <1>1, StatusCommitted
<1>3. req[e].status = lead[l].status /\ s # lead[l].status
  BY <1>1 DEF Snapshots, Effective, CommitStatus, At
<1>4. StatusRow(e) = [old |-> lead[l].status, new |-> s]
  BY <1>1, <1>3 DEF StatusRow
<1>5. \A k \in Lead \ {l} : lead'[k] = lead[k]
  BY <1>2 DEF TypeInv, TypeOK
<1>6. Rows[l].status = lead[l].status /\ Rows' = [Rows EXCEPT ![l].status = s, ![l].version = @ + 1]
  BY <1>2, <1>5 DEF Rows
<1>7. Record!SetStatus(l, s)
  <2>1. s # Rows[l].status
    BY <1>3, <1>6
  <2>2. history' = [history EXCEPT ![l] = Append(@, [old |-> Rows[l].status, new |-> s])]
    BY <1>2, <1>4, <1>6
  <2> QED
    BY <1>2, <1>6, <2>1, <2>2 DEF Record!SetStatus, Rows
<1> QED
  BY <1>7 DEF Record!Next

LEMMA AssignmentRefines ==
  ASSUME TypeInv, Snapshots, Effective, NEW e \in Editor, CommitAssignment(e), Current(e)
  PROVE  Record!Next
<1>1. PICK l \in Lead, c \in MaybeConsultant : l = req[e].lead /\ c = req[e].newConsultant
  BY AssignmentCommitted DEF Effective, CommitAssignment
<1>2. /\ assigned' = [assigned EXCEPT ![l] = c]
      /\ lead' = [lead EXCEPT ![l] = Written(lead[l], lead[l].status)]
      /\ lead'[l].status = lead[l].status /\ lead'[l].updatedAt = lead[l].updatedAt + 1
      /\ audit' = [audit EXCEPT ![l] = Append(audit[l], AssignmentRow(e))]
      /\ UNCHANGED history
  BY <1>1, AssignmentCommitted
<1>3. req[e].consultant = assigned[l] /\ c # assigned[l]
  BY <1>1 DEF Snapshots, Effective, CommitAssignment, At
<1>4. AssignmentRow(e) = [old |-> assigned[l], new |-> c]
  BY <1>1, <1>3 DEF AssignmentRow
<1>5. /\ \A k \in Lead \ {l} : lead'[k] = lead[k] /\ assigned'[k] = assigned[k]
      /\ assigned'[l] = c
  BY <1>2 DEF TypeInv, TypeOK
<1>6. /\ Rows[l].consultant = assigned[l]
      /\ Rows' = [Rows EXCEPT ![l].consultant = c, ![l].version = @ + 1]
  BY <1>2, <1>5 DEF Rows
<1>7. Record!Assign(l, c)
  <2>1. c # Rows[l].consultant
    BY <1>3, <1>6
  <2>2. audit' = [audit EXCEPT ![l] = Append(@, [old |-> Rows[l].consultant, new |-> c])]
    BY <1>2, <1>4, <1>6
  <2> QED
    BY <1>2, <1>6, <2>1, <2>2 DEF Record!Assign, Rows
<1> QED
  BY <1>7 DEF Record!Next, MaybeConsultant

LEMMA RecordRefines ==
  TypeInv /\ Snapshots /\ Effective /\ [Next]_vars => [Record!Next]_Record!vars
<1> SUFFICES ASSUME TypeInv, Snapshots, Effective, [Next]_vars
             PROVE  Record!Next \/ UNCHANGED Record!vars
  OBVIOUS
<1>1. CASE UNCHANGED <<lead, history, assigned, audit, commits>>
  <2>1. Rows' = Rows
    BY <1>1 DEF Rows
  <2> QED
    BY <1>1, <2>1 DEF Record!vars, Rows
<1> QED
  BY <1>1, WhatCommits, StatusRefines, AssignmentRefines

LEMMA RecordInit == Init => Record!Init
<1> SUFFICES ASSUME Init PROVE Record!Init
  OBVIOUS
<1>1. Rows = [l \in Lead |-> [status |-> NewStatus, consultant |-> None, version |-> 0]]
  BY DEF Init, Rows
<1> QED
  BY <1>1 DEF Init, Record!Init, Rows

(* The leads, their status history and the audit rows of their assignments  *)
(* implement LeadRecord: every save takes effect at once or not at all,     *)
(* however many tabs have saves under way.                                  *)
THEOREM EditingImplementsRecord == Spec => ImplementsRecord
<1>1. Init => Effective
  BY DEF Init, Effective, At, Idle
<1>2. Spec => [](IInv /\ Effective)
  <2>1. IInv /\ Effective /\ [Next]_vars => Effective'
    BY EffectiveStep DEF IInv
  <2> QED
    BY <1>1, <2>1, EditingCorrect, PTL DEF Spec
<1>3. IInv /\ Effective /\ [Next]_vars => [Record!Next]_Record!vars
  BY RecordRefines DEF IInv
<1> QED
  BY <1>2, <1>3, RecordInit, PTL DEF Spec, ImplementsRecord, Record!Spec
=============================================================================
