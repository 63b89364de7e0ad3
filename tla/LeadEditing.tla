----------------------------- MODULE LeadEditing -----------------------------
(***************************************************************************)
(* Administrators editing leads: the lead page and its consultant card in  *)
(* the admin console (features/leads/LeadDetailPage.tsx and                *)
(* LeadConsultantAssignmentCard.tsx) and the two transactions they call    *)
(* (LeadsService.updateStatus and LeadConsultantAssignmentsService.update  *)
(* of the API), which use the lead's updatedAt as an optimistic lock.      *)
(*                                                                         *)
(* A transaction reads a snapshot, decides, and writes under a condition   *)
(* on updatedAt; its read and its commit are two steps and other           *)
(* transactions commit between them.  The condition is evaluated on the    *)
(* row as it is at the commit, because the update locks it.                *)
(*                                                                         *)
(* updatedAt is a count of the writes to the row.  In the code it is a     *)
(* millisecond clock; every write that succeeds comes from a request that  *)
(* carried the timestamp of the write before, so a network round trip lies *)
(* between two writes and their timestamps differ.                         *)
(***************************************************************************)
EXTENDS Integers, Sequences

CONSTANTS
  Lead,        \* leads
  Editor,      \* browser tabs, each with the lead page and its card
  Status,      \* LEAD_STATUSES
  NewStatus,   \* the status a lead is created with
  Consultant,  \* consultants
  None,        \* the SQL NULL
  MaxWrites    \* bound of a run on the writes to one lead

ASSUME ConstantsAssumption ==
  /\ NewStatus \in Status
  /\ None \notin Status \cup Consultant \cup Lead
  /\ MaxWrites \in Nat

VARIABLES
  lead,      \* rows of leads
  history,   \* lead_status_history, per lead, in order of creation
  assigned,  \* lead_consultant_assignments
  audit,     \* the consultant rows of audit_logs, per lead, in order
  retired,   \* consultants with a deletedAt
  page,      \* what LeadDetailPage displays
  card,      \* what LeadConsultantAssignmentCard displays
  req,       \* the save in flight of each tab
  commits    \* history variable: one record per committed change

storeVars == <<lead, history, assigned, audit, retired>>
vars == <<storeVars, page, card, req, commits>>

-----------------------------------------------------------------------------
MaybeStatus     == Status \cup {None}
MaybeConsultant == Consultant \cup {None}

LeadRow == [status : Status, updatedAt : Nat]

StatusChange     == [old : MaybeStatus, new : Status]
ConsultantChange == [old : MaybeConsultant, new : MaybeConsultant]

Page == [lead : Lead \cup {None}, status : MaybeStatus, updatedAt : Nat]
Card == [lead : Lead \cup {None}, consultant : MaybeConsultant]

NoPage == [lead |-> None, status |-> None, updatedAt |-> 0]
NoCard == [lead |-> None, consultant |-> None]

(* A save in flight: expected is expectedUpdatedAt, which the transaction   *)
(* has found to be the updatedAt of its snapshot; status and consultant are *)
(* what that snapshot holds; shown is the value the tab displayed.          *)
Pc == {"idle", "commitStatus", "readAssignment", "commitAssignment"}

Save == [pc : Pc, lead : Lead \cup {None}, expected : Nat,
         status : MaybeStatus, consultant : MaybeConsultant,
         newStatus : MaybeStatus, newConsultant : MaybeConsultant,
         shown : MaybeStatus \cup MaybeConsultant]

Idle == [pc |-> "idle", lead |-> None, expected |-> 0,
         status |-> None, consultant |-> None,
         newStatus |-> None, newConsultant |-> None, shown |-> None]

Commit == [lead : Lead, base : Nat, result : Nat, kind : {"status", "consultant"},
           old : MaybeStatus \cup MaybeConsultant, shown : MaybeStatus \cup MaybeConsultant]

(* The consultant the API reports: a deleted one is not joined. *)
Visible(l) == IF assigned[l] \in retired THEN None ELSE assigned[l]

At(e, pc)  == req[e].pc = pc
Finish(e)  == req' = [req EXCEPT ![e] = Idle]

(* updateMany ... where updatedAt is the one read: the row is still the one *)
(* the transaction read.                                                    *)
MutCurrent(e) == TRUE
Current(e)    == lead[req[e].lead].updatedAt = req[e].expected

(* The row after a write that leaves it with status s. *)
MutWritten(row, s) == [status |-> s, updatedAt |-> row.updatedAt]
Written(row, s)    == [status |-> s, updatedAt |-> row.updatedAt + 1]

(* A row of lead_status_history. *)
MutStatusRow(e) == [old |-> req[e].status, new |-> None]
StatusRow(e)    == [old |-> req[e].status, new |-> req[e].newStatus]

(* The old and new values of an audit row of an assignment.                 *)
MutAssignmentRow(e) == [old |-> card[e].consultant, new |-> req[e].newConsultant]
AssignmentRow(e)    == [old |-> req[e].consultant, new |-> req[e].newConsultant]

(* What the consultant card sends for expectedUpdatedAt: it fetches the     *)
(* lead again when Save is pressed.                                         *)
Fetched(l) == lead[l].updatedAt

(* What the lead page sends: the timestamp of the record it displays.       *)
MutDisplayed(e) == lead[page[e].lead].updatedAt
Displayed(e)    == page[e].updatedAt

Committed(e, kind, old) ==
  commits' = commits \cup
    {[lead |-> req[e].lead, base |-> req[e].expected,
      result |-> lead[req[e].lead].updatedAt + 1, kind |-> kind,
      old |-> old, shown |-> req[e].shown]}

(* A lead from one of the public forms has a first history row, a lead      *)
(* converted from a contact enquiry has none.                               *)
Init ==
  /\ lead = [l \in Lead |-> [status |-> NewStatus, updatedAt |-> 0]]
  /\ history \in [Lead -> {<<>>, <<[old |-> None, new |-> NewStatus]>>}]
  /\ assigned = [l \in Lead |-> None]
  /\ audit = [l \in Lead |-> <<>>]
  /\ retired = {}
  /\ page = [e \in Editor |-> NoPage]
  /\ card = [e \in Editor |-> NoCard]
  /\ req = [e \in Editor |-> Idle]
  /\ commits = {}

-----------------------------------------------------------------------------
(* LeadDetailPage.load: one row, read at once.                              *)
OpenPage(e, l) ==
  /\ At(e, "idle")
  /\ page' = [page EXCEPT ![e] =
       [lead |-> l, status |-> lead[l].status, updatedAt |-> lead[l].updatedAt]]
  /\ UNCHANGED <<storeVars, card, req, commits>>

(* The card's own load, a request apart from the page's. *)
OpenCard(e, l) ==
  /\ At(e, "idle")
  /\ card' = [card EXCEPT ![e] = [lead |-> l, consultant |-> Visible(l)]]
  /\ UNCHANGED <<storeVars, page, req, commits>>

(* saveStatus sends the timestamp it displays; the transaction refuses it   *)
(* unless it is the one of the row it reads.  A save of the status the row  *)
(* has already returns without a write: no step.                            *)
SaveStatus(e, s) ==
  LET l == page[e].lead IN
  /\ At(e, "idle")
  /\ l # None
  /\ s # page[e].status
  /\ Displayed(e) = lead[l].updatedAt
  /\ s # lead[l].status
  /\ req' = [req EXCEPT ![e] =
       [Idle EXCEPT !.pc = "commitStatus", !.lead = l, !.expected = Displayed(e),
                    !.status = lead[l].status, !.newStatus = s,
                    !.shown = page[e].status]]
  /\ UNCHANGED <<storeVars, page, card, commits>>

(* Conditional update, history row and audit row, or a conflict and nothing.*)
CommitStatus(e) ==
  LET l == req[e].lead IN
  /\ At(e, "commitStatus")
  /\ lead[l].updatedAt < MaxWrites
  /\ IF Current(e)
       THEN /\ lead' = [lead EXCEPT ![l] = Written(@, req[e].newStatus)]
            /\ history' = [history EXCEPT ![l] = Append(@, StatusRow(e))]
            /\ Committed(e, "status", lead[l].status)
       ELSE UNCHANGED <<lead, history, commits>>
  /\ Finish(e)
  /\ UNCHANGED <<assigned, audit, retired, page, card>>

-----------------------------------------------------------------------------
(* saveAssignment and unassign: the card asks for the lead once more and    *)
(* takes its timestamp, not its consultant.                                 *)
SaveAssignment(e, c) ==
  LET l == card[e].lead IN
  /\ At(e, "idle")
  /\ l # None
  /\ c # card[e].consultant
  /\ req' = [req EXCEPT ![e] =
       [Idle EXCEPT !.pc = "readAssignment", !.lead = l, !.expected = Fetched(l),
                    !.newConsultant = c, !.shown = card[e].consultant]]
  /\ UNCHANGED <<storeVars, page, card, commits>>

(* The transaction's reads: a stale timestamp, a deleted consultant or an   *)
(* assignment that is there already end the request without a write.        *)
ReadAssignment(e) ==
  LET l == req[e].lead
      c == req[e].newConsultant
  IN
  /\ At(e, "readAssignment")
  /\ IF /\ Current(e)
        /\ c \notin retired
        /\ c # assigned[l]
       THEN req' = [req EXCEPT ![e].pc = "commitAssignment", ![e].consultant = assigned[l]]
       ELSE Finish(e)
  /\ UNCHANGED <<storeVars, page, card, commits>>

(* Upsert or delete, then the lead is touched on the same condition; a      *)
(* conflict rolls the assignment back.                                      *)
CommitAssignment(e) ==
  LET l == req[e].lead IN
  /\ At(e, "commitAssignment")
  /\ lead[l].updatedAt < MaxWrites
  /\ IF Current(e)
       THEN /\ assigned' = [assigned EXCEPT ![l] = req[e].newConsultant]
            /\ lead' = [lead EXCEPT ![l] = Written(@, @.status)]
            /\ audit' = [audit EXCEPT ![l] = Append(@, AssignmentRow(e))]
            /\ Committed(e, "consultant", assigned[l])
       ELSE UNCHANGED <<assigned, lead, audit, commits>>
  /\ Finish(e)
  /\ UNCHANGED <<history, retired, page, card>>

(* adminDelete of a consultant. *)
Retire(c) ==
  /\ c \notin retired
  /\ retired' = retired \cup {c}
  /\ UNCHANGED <<lead, history, assigned, audit, page, card, req, commits>>

(* A save is lost between two of its steps. *)
Drop(e) ==
  /\ ~At(e, "idle")
  /\ Finish(e)
  /\ UNCHANGED <<storeVars, page, card, commits>>

Next ==
  \/ \E e \in Editor, l \in Lead : OpenPage(e, l)
  \/ \E e \in Editor, l \in Lead : OpenCard(e, l)
  \/ \E e \in Editor, s \in Status : SaveStatus(e, s)
  \/ \E e \in Editor : CommitStatus(e)
  \/ \E e \in Editor, c \in MaybeConsultant : SaveAssignment(e, c)
  \/ \E e \in Editor : ReadAssignment(e)
  \/ \E e \in Editor : CommitAssignment(e)
  \/ \E c \in Consultant : Retire(c)
  \/ \E e \in Editor : Drop(e)

Spec == Init /\ [][Next]_vars

-----------------------------------------------------------------------------
(* Type invariant. *)
TypeOK ==
  /\ lead \in [Lead -> LeadRow]
  /\ history \in [Lead -> Seq(StatusChange)]
  /\ assigned \in [Lead -> MaybeConsultant]
  /\ audit \in [Lead -> Seq(ConsultantChange)]
  /\ retired \subseteq Consultant
  /\ page \in [Editor -> Page]
  /\ card \in [Editor -> Card]
  /\ req \in [Editor -> Save]
  /\ commits \subseteq Commit

(* The rows of a log are a chain: each takes over where the one before it   *)
(* ended.                                                                   *)
Chained(log) == \A i \in 1 .. Len(log) - 1 : log[i + 1].old = log[i].new

(* What the last row of a log says, or initially where there is none.       *)
Latest(log, initially) == IF log = <<>> THEN initially ELSE log[Len(log)].new

(* The status history of a lead is a chain that ends in its status,         *)
(* whatever saves of either kind raced: no row claims a change that did not *)
(* happen, none is missing, none is from a status the lead no longer had.   *)
HistoryTellsTheStatus ==
  \A l \in Lead : Chained(history[l]) /\ Latest(history[l], NewStatus) = lead[l].status

(* So do the audit rows of a lead's assignments and its consultant.         *)
AuditTellsTheConsultant ==
  \A l \in Lead : Chained(audit[l]) /\ Latest(audit[l], None) = assigned[l]

(* At most one change, of either kind, succeeds against a given updatedAt:  *)
(* of all the saves that start from one state of the lead one wins.         *)
OneWinnerPerVersion ==
  \A c, d \in commits : c.lead = d.lead /\ c.base = d.base => c = d

(* A status is replaced only by an editor who was shown it. *)
NoBlindStatus == \A c \in commits : c.kind = "status" => c.shown = c.old

(* Leads as LeadRecord has them: although a transaction reads a snapshot    *)
(* and writes later, every save that goes through is a change made at once, *)
(* and a conflict, a lost save or one that changes nothing leaves no trace. *)
Record == INSTANCE LeadRecord WITH
  First <- NewStatus, Nobody <- None,
  record <- [l \in Lead |-> [status |-> lead[l].status, consultant |-> assigned[l],
                             version |-> lead[l].updatedAt]],
  statusLog <- history,
  consultantLog <- audit

ImplementsRecord == Record!Spec

-----------------------------------------------------------------------------
(* What the API's contract says of expectedUpdatedAt ("Timestamp last       *)
(* displayed by the editor") would have as its effect for assignments, and  *)
(* the card does not keep: a consultant is replaced only by an editor who   *)
(* was shown the assignment, a consultant deleted since aside.              *)
NoBlindAssignment ==
  \A c \in commits : c.kind = "consultant" => c.shown = c.old \/ c.old \in retired
=============================================================================
