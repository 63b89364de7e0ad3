-------------------------- MODULE LeadIntakeProofs ---------------------------
(***************************************************************************)
(* Proofs about LeadIntake: the pending keys are those of the handlers in  *)
(* flight, the forms never create two leads of one contact within the      *)
(* duplicate window, and the rate limiter admits and refuses what it       *)
(* should in a bounded map, for any number of contacts, enquiries and      *)
(* handlers.                                                               *)
(*                                                                         *)
(* NoDuplicateForms is not inductive: nothing in it speaks of the gap      *)
(* between a handler's look-up and its insert.  FormsAreOld closes it (no  *)
(* form lead of the contact is within the window while a handler is about  *)
(* to insert one), and holds because the pending keys keep every other     *)
(* handler of the contact out (PendingIsInFlight) and the clock only moves *)
(* forward (LeadsArePast).                                                 *)
(*                                                                         *)
(* What the limiter admitted is told from its map by Counts (an entry      *)
(* stands for the last admissions of its contact, and runs for a window    *)
(* from the first of them) and Windows (before the first of the current    *)
(* window there is a whole window between an admission and the one that    *)
(* is RateLimit later).  That the bounded map has a key to drop is         *)
(* HasFirst: every set of its keys has a first one.                        *)
(***************************************************************************)
EXTENDS LeadIntake, FiniteSetTheorems, TLAPS

FormLead(j, k) == leads[j].key = k /\ leads[j].inquiry = None

(* The part of the type the argument needs. *)
IntakeTypes ==
  /\ now \in Nat
  /\ req \in [Request -> Handler]
  /\ leads \in Seq(LeadRow)
  /\ \A r \in Request : Working(r) => req[r].key \in Key
  /\ \A r \in Request : At(r, "convert") => req[r].inquiry \in Inquiry

EachIsPending == \A r \in Request : Working(r) => req[r].key \in pending
EachIsWorkedOn == \A k \in pending : \E r \in Request : Working(r) /\ req[r].key = k
OneHandlerPerKey ==
  \A r, q \in Request :
    Working(r) /\ Working(q) /\ req[r].key = req[q].key => r = q

LeadsArePast == \A j \in 1 .. Len(leads) : leads[j].createdAt <= now

FormsAreOld ==
  \A r \in Request : At(r, "create") =>
    \A j \in 1 .. Len(leads) :
      FormLead(j, req[r].key) => leads[j].createdAt + DuplicateWindow < now

IInv ==
  /\ IntakeTypes
  /\ EachIsPending /\ EachIsWorkedOn /\ OneHandlerPerKey
  /\ LeadsArePast /\ FormsAreOld /\ NoDuplicateForms

(* Initially nothing is in flight and there are no leads. *)
THEOREM InitIntake == Init => IInv
<1> USE ConstantsAssumption DEF LeadRow
<1> SUFFICES ASSUME Init PROVE IInv
  OBVIOUS
<1>1. \A r \in Request : req[r] = Idle
  BY DEF Init
<1>2. \A r \in Request : req[r].pc = "idle"
  BY <1>1 DEF Idle
<1>3. IntakeTypes
  <2>1. req \in [Request -> Handler]
    BY DEF Init, Idle, Handler, Pc
  <2> QED
    BY <1>2, <2>1 DEF Init, IntakeTypes, Working, At
<1>4. EachIsPending /\ EachIsWorkedOn /\ OneHandlerPerKey
  BY <1>2 DEF Init, EachIsPending, EachIsWorkedOn, OneHandlerPerKey, Working
<1>5. LeadsArePast /\ FormsAreOld /\ NoDuplicateForms
  BY <1>2 DEF Init, LeadsArePast, FormsAreOld, NoDuplicateForms, At
<1> QED
  BY <1>3, <1>4, <1>5 DEF IInv

-----------------------------------------------------------------------------
(* What the type of the leads says of one of them. *)
LEMMA LeadTypes ==
  ASSUME IntakeTypes, NEW j \in 1 .. Len(leads)
  PROVE  /\ leads[j].key \in Key
         /\ leads[j].createdAt \in Nat
         /\ leads[j].inquiry \in Inquiry \cup {None}
<1>1. leads[j] \in LeadRow
  BY DEF IntakeTypes
<1> QED
  BY <1>1 DEF LeadRow

(* Steps that touch neither the handlers nor the leads: the clock may move  *)
(* forward, the rate limiter may do what it likes.                          *)
LEMMA QuietStep ==
  ASSUME IInv, UNCHANGED <<pending, req, leads>>, now' \in Nat, now' >= now
  PROVE  IInv'
<1>1. IntakeTypes'
  BY DEF IInv, IntakeTypes, Working, At
<1>2. EachIsPending' /\ EachIsWorkedOn' /\ OneHandlerPerKey'
  BY DEF IInv, EachIsPending, EachIsWorkedOn, OneHandlerPerKey, Working
<1>3. \A j \in 1 .. Len(leads) : leads[j].createdAt \in Nat
  BY LeadTypes DEF IInv
<1>4. now \in Nat /\ DuplicateWindow \in Nat
  BY ConstantsAssumption DEF IInv, IntakeTypes
<1>5. LeadsArePast'
  BY <1>3, <1>4 DEF IInv, LeadsArePast
<1>6. FormsAreOld'
  BY <1>3, <1>4 DEF IInv, FormsAreOld, FormLead, At
<1>7. NoDuplicateForms'
  BY DEF IInv, NoDuplicateForms
<1> QED
  BY <1>1, <1>2, <1>5, <1>6, <1>7 DEF IInv

(* A handler ends, and its contact is released if it was one of a form.     *)
LEMMA EndStep ==
  ASSUME IInv, NEW r \in Request,
         Finish(r), UNCHANGED <<now, leads>>,
         \/ Working(r) /\ pending' = pending \ {req[r].key}
         \/ ~Working(r) /\ UNCHANGED pending
  PROVE  IInv'
<1>1. req'[r] = Idle /\ \A q \in Request \ {r} : req'[q] = req[q]
  BY DEF Finish, IInv, IntakeTypes
<1>2. ~Working(r)' /\ ~At(r, "create")' /\ ~At(r, "convert")'
  BY <1>1 DEF Working, At, Idle
<1>3. IntakeTypes'
  <2>1. Idle \in Handler
    BY DEF Idle, Handler, Pc
  <2>2. req' \in [Request -> Handler]
    BY <2>1 DEF Finish, IInv, IntakeTypes
  <2> QED
    BY <1>1, <1>2, <2>2 DEF IInv, IntakeTypes, Working, At
<1>4. EachIsPending'
  <2> SUFFICES ASSUME NEW q \in Request, Working(q)'
               PROVE  req'[q].key \in pending'
    BY DEF EachIsPending
  <2>1. q # r /\ req'[q] = req[q] /\ Working(q)
    BY <1>1, <1>2 DEF Working
  <2>2. req[q].key \in pending
    BY <2>1 DEF IInv, EachIsPending
  <2>3. Working(r) => req[r].key # req[q].key
    BY <2>1 DEF IInv, OneHandlerPerKey
  <2> QED
    BY <2>1, <2>2, <2>3
<1>5. EachIsWorkedOn'
  <2> SUFFICES ASSUME NEW k \in pending'
               PROVE  \E q \in Request : Working(q)' /\ req'[q].key = k
    BY DEF EachIsWorkedOn
  <2>1. PICK q \in Request : Working(q) /\ req[q].key = k
    BY DEF IInv, EachIsWorkedOn
  <2>2. q # r
    BY <2>1
  <2> QED
    BY <1>1, <2>1, <2>2 DEF Working
<1>6. OneHandlerPerKey'
  BY <1>1, <1>2 DEF IInv, OneHandlerPerKey, Working
<1>7. LeadsArePast' /\ FormsAreOld' /\ NoDuplicateForms'
  BY <1>1, <1>2 DEF IInv, LeadsArePast, FormsAreOld, FormLead, NoDuplicateForms, At
<1> QED
  BY <1>3, <1>4, <1>5, <1>6, <1>7 DEF IInv

(* A handler takes up a contact nobody works on. *)
LEMMA BeginStep ==
  ASSUME IInv, NEW r \in Request, NEW k \in Key, Begin(r, k)
  PROVE  IInv'
<1>1. /\ req'[r] = [pc |-> "lookup", key |-> k, inquiry |-> None]
      /\ \A q \in Request \ {r} : req'[q] = req[q]
  BY DEF Begin, IInv, IntakeTypes
<1>2. UNCHANGED <<now, leads>>
  BY DEF Begin, Admit, rows
<1>3. k \notin pending /\ pending' = pending \cup {k}
  BY DEF Begin
<1>4. Working(r)' /\ ~Working(r) /\ ~At(r, "create")' /\ ~At(r, "convert")' /\ req'[r].key = k
  BY <1>1 DEF Begin, Working, At
<1>5. IntakeTypes'
  <2>1. [pc |-> "lookup", key |-> k, inquiry |-> None] \in Handler
    BY DEF Handler, Pc
  <2>2. req' \in [Request -> Handler]
    BY <2>1 DEF Begin, IInv, IntakeTypes
  <2> QED
    BY <1>1, <1>2, <1>4, <2>2 DEF IInv, IntakeTypes, Working, At
<1>6. EachIsPending'
  BY <1>1, <1>3, <1>4 DEF IInv, EachIsPending, Working
<1>7. EachIsWorkedOn'
  <2> SUFFICES ASSUME NEW c \in pending'
               PROVE  \E q \in Request : Working(q)' /\ req'[q].key = c
    BY DEF EachIsWorkedOn
  <2>1. CASE c = k
    BY <1>4, <2>1
  <2>2. CASE c # k
    <3>1. PICK q \in Request : Working(q) /\ req[q].key = c
      BY <1>3, <2>2 DEF IInv, EachIsWorkedOn
    <3>2. q # r
      BY <1>4, <3>1
    <3> QED
      BY <1>1, <3>1, <3>2 DEF Working
  <2> QED
    BY <2>1, <2>2
<1>8. OneHandlerPerKey'
  <2>1. \A q \in Request \ {r} : Working(q)' => req'[q].key # k
    BY <1>1, <1>3 DEF IInv, EachIsPending, Working
  <2> QED
    BY <1>1, <1>4, <2>1 DEF IInv, OneHandlerPerKey, Working
<1>9. LeadsArePast' /\ FormsAreOld' /\ NoDuplicateForms'
  BY <1>1, <1>2, <1>4 DEF IInv, LeadsArePast, FormsAreOld, FormLead, NoDuplicateForms, At
<1> QED
  BY <1>5, <1>6, <1>7, <1>8, <1>9 DEF IInv

(* The look-up found no recent lead: every form lead of the contact is      *)
(* older than the window, and stays so until the insert.                    *)
LEMMA LookupStep ==
  ASSUME IInv, NEW r \in Request, Lookup(r)
  PROVE  IInv'
<1>1. CASE Recent(req[r].key)
  <2>1. Finish(r) /\ pending' = pending \ {req[r].key} /\ UNCHANGED <<now, leads>>
    BY <1>1 DEF Lookup, Released, rows
  <2>2. Working(r)
    BY DEF Lookup, At, Working
  <2> QED
    BY <2>1, <2>2, EndStep
<1>2. CASE ~Recent(req[r].key)
  <2>1. /\ req' = [req EXCEPT ![r].pc = "create"]
        /\ UNCHANGED <<now, pending, leads>>
        /\ req[r].pc = "lookup"
    BY <1>2 DEF Lookup, Goto, At, rows
  <2>2. req \in [Request -> Handler]
    BY DEF IInv, IntakeTypes
  <2>3. \A q \in Request \ {r} : req'[q] = req[q]
    BY <2>1, <2>2
  <2>4. req'[r] = [req[r] EXCEPT !.pc = "create"]
    BY <2>1, <2>2
  <2>5. req'[r].pc = "create" /\ req'[r].key = req[r].key /\ req'[r] \in Handler
    BY <2>2, <2>4 DEF Handler, Pc
  <2>6. \A q \in Request : (Working(q)' <=> Working(q)) /\ req'[q].key = req[q].key
    BY <2>1, <2>3, <2>5 DEF Working
  <2>7. IntakeTypes'
    <3>1. req' \in [Request -> Handler]
      BY <2>1, <2>2, <2>5
    <3> QED
      BY <2>1, <2>3, <2>5, <2>6, <3>1 DEF IInv, IntakeTypes, At
  <2>8. EachIsPending' /\ EachIsWorkedOn' /\ OneHandlerPerKey'
    BY <2>1, <2>6 DEF IInv, EachIsPending, EachIsWorkedOn, OneHandlerPerKey
  <2>9. FormsAreOld'
    <3> SUFFICES ASSUME NEW q \in Request, At(q, "create")',
                        NEW j \in 1 .. Len(leads'), FormLead(j, req[q].key)'
                 PROVE  leads'[j].createdAt + DuplicateWindow < now'
      BY DEF FormsAreOld, FormLead
    <3> HIDE DEF FormLead
    <3>1. leads[j].createdAt \in Nat /\ now \in Nat /\ DuplicateWindow \in Nat
      BY <2>1, LeadTypes, ConstantsAssumption DEF IInv, IntakeTypes
    <3>2. leads[j].key = req[q].key /\ leads[j].inquiry = None
      BY <2>1, <2>6 DEF FormLead
    <3>3. CASE q = r
      <4>1. ~(leads[j].createdAt >= now - DuplicateWindow)
        BY <1>2, <2>1, <3>2, <3>3 DEF Recent
      <4> QED
        BY <2>1, <3>1, <4>1
    <3>4. CASE q # r
      BY <2>1, <2>3, <3>2, <3>4 DEF IInv, FormsAreOld, FormLead, At
    <3> QED
      BY <3>3, <3>4
  <2>10. LeadsArePast' /\ NoDuplicateForms'
    BY <2>1 DEF IInv, LeadsArePast, NoDuplicateForms
  <2> QED
    BY <2>7, <2>8, <2>9, <2>10 DEF IInv
<1> QED
  BY <1>1, <1>2

(* One more lead: the old ones keep their places. *)
LEMMA OneMoreLead ==
  ASSUME leads \in Seq(LeadRow), NEW x \in LeadRow, leads' = Append(leads, x)
  PROVE  /\ leads' \in Seq(LeadRow)
         /\ Len(leads') = Len(leads) + 1 /\ Len(leads) \in Nat
         /\ \A j \in 1 .. Len(leads) : leads'[j] = leads[j]
         /\ leads'[Len(leads) + 1] = x
OBVIOUS

(* The insert: what the look-up found still holds, because no other handler *)
(* of the contact was let in meanwhile.                                     *)
LEMMA CreateStep ==
  ASSUME IInv, NEW r \in Request, Create(r)
  PROVE  IInv'
<1> DEFINE x == [key |-> req[r].key, createdAt |-> now, inquiry |-> None]
           n == Len(leads) + 1
<1>1. /\ req' = [req EXCEPT ![r].pc = "release"]
      /\ UNCHANGED <<now, pending>>
      /\ leads' = Append(leads, x)
      /\ req[r].pc = "create"
  BY DEF Create, Goto, At, memory
<1>2. req \in [Request -> Handler] /\ now \in Nat /\ leads \in Seq(LeadRow)
  BY DEF IInv, IntakeTypes
<1>3. \A q \in Request \ {r} : req'[q] = req[q]
  BY <1>1, <1>2
<1>4. req'[r] = [req[r] EXCEPT !.pc = "release"]
  BY <1>1, <1>2
<1>5. req'[r].pc = "release" /\ req'[r].key = req[r].key /\ req'[r] \in Handler
  BY <1>2, <1>4 DEF Handler, Pc
<1>6. \A q \in Request : (Working(q)' <=> Working(q)) /\ req'[q].key = req[q].key
  BY <1>1, <1>3, <1>5 DEF Working
<1>7. Working(r) /\ req[r].key \in Key
  BY <1>1 DEF IInv, IntakeTypes, Working
<1>8. x \in LeadRow /\ x.key = req[r].key /\ x.createdAt = now /\ x.inquiry = None
  BY <1>2, <1>7 DEF LeadRow
<1>9. /\ leads' \in Seq(LeadRow)
      /\ Len(leads') = n /\ Len(leads) \in Nat
      /\ \A j \in 1 .. Len(leads) : leads'[j] = leads[j]
      /\ leads'[n] = x
  BY <1>1, <1>2, <1>8, OneMoreLead
<1> HIDE DEF x
<1>10. IntakeTypes'
  <2>1. req' \in [Request -> Handler]
    BY <1>1, <1>2, <1>5
  <2> QED
    BY <1>1, <1>2, <1>3, <1>5, <1>6, <1>9, <2>1 DEF IInv, IntakeTypes, At
<1>11. EachIsPending' /\ EachIsWorkedOn' /\ OneHandlerPerKey'
  BY <1>1, <1>6 DEF IInv, EachIsPending, EachIsWorkedOn, OneHandlerPerKey
<1>12. \A j \in 1 .. Len(leads) : leads[j].createdAt \in Nat /\ leads[j].createdAt <= now
  BY LeadTypes DEF IInv, LeadsArePast
<1>13. LeadsArePast'
  BY <1>1, <1>2, <1>8, <1>9, <1>12 DEF LeadsArePast
<1>14. FormsAreOld'
  <2> SUFFICES ASSUME NEW q \in Request, At(q, "create")',
                      NEW j \in 1 .. Len(leads'),
                      leads'[j].key = req'[q].key, leads'[j].inquiry = None
               PROVE  leads'[j].createdAt + DuplicateWindow < now'
    BY DEF FormsAreOld, FormLead
  <2>1. q # r /\ At(q, "create") /\ Working(q)
    BY <1>3, <1>5 DEF At, Working
  <2>2. req[q].key # req[r].key /\ req'[q].key = req[q].key
    BY <1>6, <1>7, <2>1 DEF IInv, OneHandlerPerKey
  <2>3. j # n
    BY <1>8, <1>9, <2>2
  <2>4. j \in 1 .. Len(leads) /\ leads'[j] = leads[j]
    BY <1>9, <2>3
  <2> QED
    BY <1>1, <2>1, <2>2, <2>4 DEF IInv, FormsAreOld, FormLead
<1>15. NoDuplicateForms'
  <2> SUFFICES ASSUME NEW i \in 1 .. Len(leads'), NEW j \in 1 .. Len(leads'), i < j,
                      leads'[i].key = leads'[j].key,
                      leads'[i].inquiry = None, leads'[j].inquiry = None
               PROVE  leads'[j].createdAt > leads'[i].createdAt + DuplicateWindow
    BY DEF NoDuplicateForms
  <2>1. i \in 1 .. Len(leads) /\ leads'[i] = leads[i]
    BY <1>9
  <2>2. CASE j = n
    <3>1. FormLead(i, req[r].key)
      BY <1>8, <1>9, <2>1, <2>2 DEF FormLead
    <3>2. leads[i].createdAt + DuplicateWindow < now
      BY <1>1, <2>1, <3>1 DEF IInv, FormsAreOld, At
    <3>3. leads[i].createdAt \in Nat /\ DuplicateWindow \in Nat
      BY <1>12, <2>1, ConstantsAssumption
    <3> QED
      BY <1>2, <1>8, <1>9, <2>1, <2>2, <3>2, <3>3
  <2>3. CASE j # n
    <3>1. j \in 1 .. Len(leads) /\ leads'[j] = leads[j]
      BY <1>9, <2>3
    <3> QED
      BY <2>1, <3>1 DEF IInv, NoDuplicateForms
  <2> QED
    BY <2>2, <2>3
<1> QED
  BY <1>10, <1>11, <1>13, <1>14, <1>15 DEF IInv

(* A conversion takes a handler slot, but no contact. *)
LEMMA ConvertReadStep ==
  ASSUME IInv, NEW r \in Request, NEW i \in Inquiry, ConvertRead(r, i)
  PROVE  IInv'
<1>1. /\ req'[r] = [pc |-> "convert", key |-> None, inquiry |-> i]
      /\ \A q \in Request \ {r} : req'[q] = req[q]
  BY DEF ConvertRead, IInv, IntakeTypes
<1>2. UNCHANGED <<now, pending, leads>>
  BY DEF ConvertRead, memory, rows
<1>3. ~Working(r) /\ ~Working(r)' /\ ~At(r, "create")' /\ req'[r].inquiry = i
  BY <1>1 DEF ConvertRead, Working, At
<1>4. IntakeTypes'
  <2>1. [pc |-> "convert", key |-> None, inquiry |-> i] \in Handler
    BY DEF Handler, Pc
  <2>2. req' \in [Request -> Handler]
    BY <2>1 DEF ConvertRead, IInv, IntakeTypes
  <2> QED
    BY <1>1, <1>2, <1>3, <2>2 DEF IInv, IntakeTypes, Working, At
<1>5. EachIsPending' /\ OneHandlerPerKey'
  BY <1>1, <1>2, <1>3 DEF IInv, EachIsPending, OneHandlerPerKey, Working
<1>6. EachIsWorkedOn'
  BY <1>1, <1>2, <1>3 DEF IInv, EachIsWorkedOn, Working
<1>7. LeadsArePast' /\ FormsAreOld' /\ NoDuplicateForms'
  BY <1>1, <1>2, <1>3 DEF IInv, LeadsArePast, FormsAreOld, FormLead, NoDuplicateForms, At
<1> QED
  BY <1>4, <1>5, <1>6, <1>7 DEF IInv

(* The lead of a conversion is not one of a form. *)
LEMMA ConvertCommitStep ==
  ASSUME IInv, NEW r \in Request, ConvertCommit(r)
  PROVE  IInv'
<1> DEFINE x == [key |-> KeyOf(req[r].inquiry), createdAt |-> now, inquiry |-> req[r].inquiry]
           n == Len(leads) + 1
<1>1. /\ Finish(r) /\ UNCHANGED <<now, pending>>
      /\ leads' = Append(leads, x)
      /\ At(r, "convert")
  BY DEF ConvertCommit, memory
<1>2. now \in Nat /\ leads \in Seq(LeadRow) /\ req[r].inquiry \in Inquiry
  BY <1>1 DEF IInv, IntakeTypes
<1>3. x \in LeadRow /\ x.createdAt = now /\ x.inquiry # None
  BY <1>2, ConstantsAssumption DEF LeadRow
<1>4. /\ leads' \in Seq(LeadRow)
      /\ Len(leads') = n /\ Len(leads) \in Nat
      /\ \A j \in 1 .. Len(leads) : leads'[j] = leads[j]
      /\ leads'[n] = x
  BY <1>1, <1>2, <1>3, OneMoreLead
<1> HIDE DEF x
<1>5. req'[r] = Idle /\ \A q \in Request \ {r} : req'[q] = req[q]
  BY <1>1 DEF Finish, IInv, IntakeTypes
<1>6. ~Working(r) /\ ~Working(r)' /\ ~At(r, "create")' /\ ~At(r, "convert")'
  BY <1>1, <1>5 DEF Working, At, Idle
<1>7. IntakeTypes'
  <2>1. Idle \in Handler
    BY DEF Idle, Handler, Pc
  <2>2. req' \in [Request -> Handler]
    BY <1>1, <2>1 DEF Finish, IInv, IntakeTypes
  <2> QED
    BY <1>1, <1>4, <1>5, <1>6, <2>2 DEF IInv, IntakeTypes, Working, At
<1>8. EachIsPending' /\ OneHandlerPerKey'
  BY <1>1, <1>5, <1>6 DEF IInv, EachIsPending, OneHandlerPerKey, Working
<1>9. EachIsWorkedOn'
  BY <1>1, <1>5, <1>6 DEF IInv, EachIsWorkedOn, Working
<1>10. LeadsArePast'
  BY <1>1, <1>2, <1>3, <1>4 DEF IInv, LeadsArePast
<1>11. FormsAreOld'
  <2> SUFFICES ASSUME NEW q \in Request, At(q, "create")',
                      NEW j \in 1 .. Len(leads'),
                      leads'[j].key = req'[q].key, leads'[j].inquiry = None
               PROVE  leads'[j].createdAt + DuplicateWindow < now'
    BY DEF FormsAreOld, FormLead
  <2>1. q # r /\ At(q, "create") /\ req'[q] = req[q]
    BY <1>5, <1>6 DEF At
  <2>2. j \in 1 .. Len(leads) /\ leads'[j] = leads[j]
    BY <1>3, <1>4
  <2> QED
    BY <1>1, <2>1, <2>2 DEF IInv, FormsAreOld, FormLead
<1>12. NoDuplicateForms'
  <2> SUFFICES ASSUME NEW i \in 1 .. Len(leads'), NEW j \in 1 .. Len(leads'), i < j,
                      leads'[i].key = leads'[j].key,
                      leads'[i].inquiry = None, leads'[j].inquiry = None
               PROVE  leads'[j].createdAt > leads'[i].createdAt + DuplicateWindow
    BY DEF NoDuplicateForms
  <2>1. /\ i \in 1 .. Len(leads) /\ leads'[i] = leads[i]
        /\ j \in 1 .. Len(leads) /\ leads'[j] = leads[j]
    BY <1>3, <1>4
  <2> QED
    BY <2>1 DEF IInv, NoDuplicateForms
<1> QED
  BY <1>7, <1>8, <1>9, <1>10, <1>11, <1>12 DEF IInv

(* A restart forgets the pending keys and the handlers together. *)
LEMMA RestartStep ==
  ASSUME IInv, Restart
  PROVE  IInv'
<1>1. \A r \in Request : req'[r] = Idle
  BY DEF Restart
<1>2. \A r \in Request : ~Working(r)' /\ ~At(r, "create")' /\ ~At(r, "convert")'
  BY <1>1 DEF Working, At, Idle
<1>3. UNCHANGED <<now, leads>> /\ pending' = {}
  BY DEF Restart, rows
<1>4. IntakeTypes'
  <2>1. req' \in [Request -> Handler]
    BY DEF Restart, Idle, Handler, Pc
  <2> QED
    BY <1>2, <1>3, <2>1 DEF IInv, IntakeTypes
<1>5. EachIsPending' /\ EachIsWorkedOn' /\ OneHandlerPerKey'
  BY <1>2, <1>3 DEF EachIsPending, EachIsWorkedOn, OneHandlerPerKey
<1>6. LeadsArePast' /\ FormsAreOld' /\ NoDuplicateForms'
  BY <1>2, <1>3 DEF IInv, LeadsArePast, FormsAreOld, NoDuplicateForms
<1> QED
  BY <1>4, <1>5, <1>6 DEF IInv

-----------------------------------------------------------------------------
(* Every step preserves the invariant. *)
THEOREM NextIntake == IInv /\ [Next]_vars => IInv'
<1> SUFFICES ASSUME IInv, [Next]_vars PROVE IInv'
  OBVIOUS
<1>1. now \in Nat
  BY DEF IInv, IntakeTypes
<1>2. ASSUME NEW k \in Key, Refuse(k) PROVE IInv'
  BY <1>1, <1>2, QuietStep DEF Refuse, rows
<1>3. ASSUME NEW k \in Key, Dismiss(k) PROVE IInv'
  BY <1>1, <1>3, QuietStep DEF Dismiss, Admit, rows
<1>4. ASSUME NEW r \in Request, NEW k \in Key, Begin(r, k) PROVE IInv'
  BY <1>4, BeginStep
<1>5. ASSUME NEW r \in Request, Lookup(r) PROVE IInv'
  BY <1>5, LookupStep
<1>6. ASSUME NEW r \in Request, Create(r) PROVE IInv'
  BY <1>6, CreateStep
<1>7. ASSUME NEW r \in Request, Release(r) PROVE IInv'
  BY <1>7, EndStep DEF Release, Released, At, Working, rows
<1>8. ASSUME NEW r \in Request, Fail(r) PROVE IInv'
  BY <1>8, EndStep DEF Fail, Released, Working, rows
<1>9. ASSUME NEW r \in Request, NEW i \in Inquiry, ConvertRead(r, i) PROVE IInv'
  BY <1>9, ConvertReadStep
<1>10. ASSUME NEW r \in Request, ConvertCommit(r) PROVE IInv'
  BY <1>10, ConvertCommitStep
<1>11. CASE Restart
  BY <1>11, RestartStep
<1>12. CASE Tick
  BY <1>1, <1>12, QuietStep DEF Tick, memory, rows
<1>13. CASE UNCHANGED vars
  BY <1>1, <1>13, QuietStep DEF vars, memory, rows
<1> QED
  BY <1>2, <1>3, <1>4, <1>5, <1>6, <1>7, <1>8, <1>9, <1>10, <1>11, <1>12, <1>13 DEF Next

(* The invariant holds of every reachable state. *)
THEOREM IntakeInvariant == Spec => []IInv
  BY InitIntake, NextIntake, PTL DEF Spec

(* Two form leads of a contact are more than the duplicate window apart,    *)
(* however many handlers run (createPublic, createAssessment).              *)
THEOREM FormsDoNotDuplicate == Spec => []NoDuplicateForms
<1>1. IInv => NoDuplicateForms
  BY DEF IInv
<1> QED
  BY <1>1, IntakeInvariant, PTL

(* The pending keys are exactly the contacts of the handlers in flight, one *)
(* handler each: the finally blocks release what their request took up.     *)
THEOREM PendingFollowsHandlers == Spec => []PendingIsInFlight
<1>1. IInv => PendingIsInFlight
  <2> SUFFICES ASSUME IInv PROVE PendingIsInFlight
    OBVIOUS
  <2>1. \A k \in pending : k \in {req[r].key : r \in {q \in Request : Working(q)}}
    BY DEF IInv, EachIsWorkedOn
  <2>2. \A k \in {req[r].key : r \in {q \in Request : Working(q)}} : k \in pending
    BY DEF IInv, EachIsPending
  <2> QED
    BY <2>1, <2>2 DEF IInv, OneHandlerPerKey, PendingIsInFlight
<1> QED
  BY <1>1, IntakeInvariant, PTL

-----------------------------------------------------------------------------
(* The rate limiter.                                                        *)

HasFirst(D, order) ==
  \A T \in SUBSET D : T # {} => \E k \in T : \A l \in T : <<l, k>> \notin order

(* An entry stands for the last admissions of its contact. *)
EntryFrom(k, first) ==
  /\ first \in 1 .. Len(admitted[k])
  /\ entries[k].count + first = Len(admitted[k]) + 1
  /\ entries[k].expiresAt = admitted[k][first] + RateWindow
Counts == \A k \in DOMAIN entries : \E first \in Nat : EntryFrom(k, first)

(* p is where the current or the last window of k begins. *)
WindowOf(k, p) ==
  /\ p \in 1 .. Len(admitted[k])
  /\ Len(admitted[k]) < p + RateLimit
  /\ k \in DOMAIN entries => entries[k].count + p = Len(admitted[k]) + 1
  /\ k \notin DOMAIN entries => admitted[k][p] + RateWindow <= now
  /\ \A i \in 1 .. Len(admitted[k]) :
       i + RateLimit <= p => admitted[k][i] + RateWindow <= admitted[k][p]
Windows ==
  \A k \in Key \ evicted : Len(admitted[k]) > 0 => \E p \in Nat : WindowOf(k, p)

AdmittedInOrder ==
  \A k \in Key : \A j \in 1 .. Len(admitted[k]) :
    /\ admitted[k][j] <= now
    /\ \A i \in 1 .. j : admitted[k][i] <= admitted[k][j]

MapInv ==
  /\ IsFiniteSet(DOMAIN entries)
  /\ HasFirst(DOMAIN entries, earlier)

LimitInv == MapInv /\ AdmittedInOrder /\ Counts /\ Windows /\ RateKept

(* The cleanup only takes away entries that have expired. *)
LEMMA SweptFacts ==
  ASSUME TypeOK, MapInv
  PROVE  /\ Swept \in [DOMAIN Swept -> Entry]
         /\ DOMAIN Swept \subseteq DOMAIN entries
         /\ \A k \in DOMAIN Swept : Swept[k] = entries[k]
         /\ \A k \in DOMAIN entries \ DOMAIN Swept : ~LiveEntry(entries[k])
         /\ IsFiniteSet(DOMAIN Swept) /\ Cardinality(DOMAIN Swept) <= MaxRateKeys
         /\ SweepDue => \A k \in DOMAIN Swept : LiveEntry(Swept[k])
<1>1. /\ entries \in [DOMAIN entries -> Entry]
      /\ IsFiniteSet(DOMAIN entries) /\ Cardinality(DOMAIN entries) <= MaxRateKeys
  BY DEF TypeOK, MapInv
<1>2. CASE ~SweepDue
  BY <1>1, <1>2 DEF Swept
<1>3. CASE SweepDue
  <2> DEFINE L == {k \in DOMAIN entries : LiveEntry(entries[k])}
  <2>1. Swept = [k \in L |-> entries[k]]
    BY <1>3 DEF Swept, RestrictValues, Restrict
  <2>2. DOMAIN Swept = L
    BY <2>1
  <2>3. IsFiniteSet(L) /\ Cardinality(L) <= Cardinality(DOMAIN entries)
    BY <1>1, FS_Subset
  <2>4. Cardinality(L) \in Nat /\ Cardinality(DOMAIN entries) \in Nat
    BY <1>1, <2>3, FS_CardinalityType
  <2>5. Cardinality(L) <= MaxRateKeys
    BY <1>1, <2>3, <2>4, ConstantsAssumption
  <2> QED
    BY <1>1, <2>1, <2>2, <2>3, <2>5
<1> QED
  BY <1>2, <1>3

(* A map with room for one more is a part of the swept one. *)
LEMMA RoomyFacts ==
  ASSUME TypeOK, MapInv
  PROVE  LET room == Roomy(Swept) IN
         /\ room \in [DOMAIN room -> Entry]
         /\ DOMAIN room \subseteq DOMAIN Swept
         /\ \A k \in DOMAIN room : room[k] = entries[k]
         /\ IsFiniteSet(DOMAIN room)
         /\ Cardinality(DOMAIN room) \in Nat /\ Cardinality(DOMAIN room) < MaxRateKeys
<1> DEFINE S == DOMAIN Swept
           room == Roomy(Swept)
<1>1. /\ Swept \in [S -> Entry] /\ S \subseteq DOMAIN entries
      /\ \A k \in S : Swept[k] = entries[k]
      /\ IsFiniteSet(S) /\ Cardinality(S) <= MaxRateKeys
  BY SweptFacts
<1>2. Cardinality(S) \in Nat /\ MaxRateKeys \in Nat \ {0}
  BY <1>1, FS_CardinalityType, ConstantsAssumption
<1>3. CASE Cardinality(S) < MaxRateKeys
  <2>1. room = Swept
    BY <1>2, <1>3 DEF Roomy
  <2> QED
    BY <1>1, <1>2, <1>3, <2>1
<1>4. CASE ~(Cardinality(S) < MaxRateKeys)
  <2> DEFINE o == Oldest(Swept)
  <2>1. Cardinality(S) = MaxRateKeys /\ Cardinality(S) # 0
    BY <1>1, <1>2, <1>4
  <2>2. S # {}
    BY <2>1, FS_EmptySet
  <2>3. \E k \in S : \A l \in S : <<l, k>> \notin earlier
    BY <1>1, <2>2 DEF MapInv, HasFirst
  <2>4. o \in S
    BY <2>3 DEF Oldest
  <2>5. room = [k \in S \ {o} |-> Swept[k]]
    BY <1>2, <2>1 DEF Roomy, Restrict
  <2>6. IsFiniteSet(S \ {o}) /\ Cardinality(S \ {o}) = Cardinality(S) - 1
    BY <1>1, <2>4, FS_RemoveElement
  <2> HIDE DEF o
  <2>7. DOMAIN room = S \ {o}
    BY <2>5
  <2>8. room \in [S \ {o} -> Entry] /\ \A k \in S \ {o} : room[k] = entries[k]
    BY <1>1, <2>5
  <2> QED
    BY <1>2, <2>1, <2>6, <2>7, <2>8
<1> QED
  BY <1>3, <1>4

(* The map after an admission differs in the contact's entry, and in what   *)
(* expired or was dropped.                                                  *)
LEMMA CountedFacts ==
  ASSUME TypeOK, MapInv, NEW k \in Key, ~Limited(k)
  PROVE  LET map == Counted(k) IN
         /\ map \in [DOMAIN map -> Entry]
         /\ k \in DOMAIN map /\ DOMAIN map \subseteq DOMAIN Swept \cup {k}
         /\ \A c \in DOMAIN map \ {k} : map[c] = entries[c]
         /\ IsFiniteSet(DOMAIN map) /\ Cardinality(DOMAIN map) <= MaxRateKeys
         /\ \/ /\ k \in DOMAIN entries /\ LiveEntry(entries[k])
               /\ map[k].count = entries[k].count + 1
               /\ map[k].expiresAt = entries[k].expiresAt
            \/ /\ k \in DOMAIN entries => ~LiveEntry(entries[k])
               /\ map[k].count = 1 /\ map[k].expiresAt = now + RateWindow
<1> DEFINE S == DOMAIN Swept
           room == Roomy(Swept)
           map == Counted(k)
<1>1. /\ Swept \in [S -> Entry] /\ S \subseteq DOMAIN entries
      /\ \A c \in S : Swept[c] = entries[c]
      /\ \A c \in DOMAIN entries \ S : ~LiveEntry(entries[c])
      /\ IsFiniteSet(S) /\ Cardinality(S) <= MaxRateKeys
  BY SweptFacts
<1>2. now \in Nat /\ RateLimit \in Nat \ {0} /\ RateWindow \in Nat
  BY ConstantsAssumption DEF TypeOK
<1>3. CASE Running(k)
  <2>1. map = [Swept EXCEPT ![k].count = @ + 1]
    BY <1>3 DEF Counted
  <2>2. k \in S /\ LiveEntry(Swept[k]) /\ ~(Swept[k].count >= RateLimit)
    BY <1>3 DEF Running, Limited
  <2>3. Swept[k] \in Entry
    BY <1>1, <2>2
  <2> DEFINE e == [Swept[k] EXCEPT !.count = @ + 1]
  <2>4. /\ e \in Entry
        /\ e.count = Swept[k].count + 1 /\ e.expiresAt = Swept[k].expiresAt
    BY <1>2, <2>2, <2>3 DEF Entry
  <2>5. map = [Swept EXCEPT ![k] = e]
    BY <1>1, <2>1, <2>2
  <2> HIDE DEF e
  <2>6. /\ DOMAIN map = S /\ map \in [S -> Entry] /\ map[k] = e
        /\ \A c \in S \ {k} : map[c] = Swept[c]
    BY <1>1, <2>2, <2>4, <2>5
  <2> QED
    BY <1>1, <2>2, <2>4, <2>6
<1>4. CASE ~Running(k)
  <2> DEFINE e == [count |-> 1, expiresAt |-> now + RateWindow]
  <2>1. /\ room \in [DOMAIN room -> Entry]
        /\ DOMAIN room \subseteq S
        /\ \A c \in DOMAIN room : room[c] = entries[c]
        /\ IsFiniteSet(DOMAIN room)
        /\ Cardinality(DOMAIN room) \in Nat /\ Cardinality(DOMAIN room) < MaxRateKeys
    BY RoomyFacts
  <2>2. map = Set(room, k, e)
    BY <1>4 DEF Counted
  <2>3. e \in Entry /\ e.count = 1 /\ e.expiresAt = now + RateWindow
    BY <1>2 DEF Entry
  <2> HIDE DEF e, room
  <2>4. map = [c \in DOMAIN room \cup {k} |-> IF c = k THEN e ELSE room[c]]
    BY <2>2 DEF Set
  <2>5. /\ DOMAIN map = DOMAIN room \cup {k} /\ map[k] = e
        /\ \A c \in DOMAIN room \ {k} : map[c] = room[c]
        /\ map \in [DOMAIN map -> Entry]
    BY <2>1, <2>3, <2>4
  <2>6. /\ IsFiniteSet(DOMAIN room \cup {k})
        /\ Cardinality(DOMAIN room \cup {k}) = IF k \in DOMAIN room THEN Cardinality(DOMAIN room) ELSE Cardinality(DOMAIN room) + 1
    BY <2>1, FS_AddElement
  <2>7. Cardinality(DOMAIN map) <= MaxRateKeys
    BY <2>1, <2>5, <2>6, ConstantsAssumption
  <2>8. k \in DOMAIN entries => ~LiveEntry(entries[k])
    BY <1>1, <1>4 DEF Running
  <2> HIDE DEF map
  <2>9. DOMAIN map \subseteq S \cup {k} /\ \A c \in DOMAIN map \ {k} : map[c] = entries[c]
    BY <2>1, <2>5
  <2> QED
    BY <2>3, <2>5, <2>6, <2>7, <2>8, <2>9 DEF map
<1> QED
  BY <1>3, <1>4

(* A map that keeps the order has a first key too. *)
LEMMA OrderedFacts ==
  ASSUME TypeOK, MapInv, NEW map, DOMAIN map \subseteq Key
  PROVE  HasFirst(DOMAIN map, Ordered(map)) /\ Ordered(map) \subseteq Key \X Key
<1> DEFINE D == DOMAIN map
           kept == DOMAIN Swept \cap D
<1>1. Ordered(map) = (earlier \cap (kept \X kept)) \cup (kept \X (D \ kept))
  BY DEF Ordered
<1>2. kept \subseteq DOMAIN entries /\ kept \subseteq Key /\ D \subseteq Key
  BY SweptFacts
<1>3. Ordered(map) \subseteq Key \X Key
  BY <1>1, <1>2
<1>4. ASSUME NEW T \in SUBSET D, T # {}
      PROVE  \E k \in T : \A l \in T : <<l, k>> \notin Ordered(map)
  <2> HIDE DEF kept, D
  <2>1. \A l, k : <<l, k>> \in Ordered(map) =>
          \/ <<l, k>> \in earlier /\ l \in kept /\ k \in kept
          \/ l \in kept /\ k \notin kept
    BY <1>1
  <2>2. CASE T \cap kept = {}
    BY <1>4, <2>1, <2>2
  <2>3. CASE T \cap kept # {}
    <3>1. T \cap kept \in SUBSET DOMAIN entries
      BY <1>2
    <3>2. PICK k \in T \cap kept : \A l \in T \cap kept : <<l, k>> \notin earlier
      BY <2>3, <3>1 DEF MapInv, HasFirst
    <3> QED
      BY <2>1, <3>2
  <2> QED
    BY <2>2, <2>3
<1> QED
  BY <1>3, <1>4 DEF HasFirst

(* What the types say of the admissions. *)
LEMMA AdmissionTypes ==
  ASSUME TypeOK
  PROVE  /\ now \in Nat /\ RateLimit \in Nat \ {0} /\ RateWindow \in Nat
         /\ \A k \in Key :
              /\ admitted[k] \in Seq(Nat) /\ Len(admitted[k]) \in Nat
              /\ \A j \in 1 .. Len(admitted[k]) : admitted[k][j] \in Nat
         /\ \A k \in DOMAIN entries :
              k \in Key /\ entries[k].count \in 1 .. RateLimit /\ entries[k].expiresAt \in Nat
<1>1. now \in Nat /\ RateLimit \in Nat \ {0} /\ RateWindow \in Nat
  BY ConstantsAssumption DEF TypeOK
<1>2. ASSUME NEW k \in Key
      PROVE  /\ admitted[k] \in Seq(Nat) /\ Len(admitted[k]) \in Nat
             /\ \A j \in 1 .. Len(admitted[k]) : admitted[k][j] \in Nat
  <2>1. admitted[k] \in Seq(Nat)
    BY DEF TypeOK
  <2> QED
    BY <2>1
<1>3. ASSUME NEW k \in DOMAIN entries
      PROVE  k \in Key /\ entries[k].count \in 1 .. RateLimit /\ entries[k].expiresAt \in Nat
  <2>1. k \in Key /\ entries[k] \in Entry
    BY DEF TypeOK
  <2> QED
    BY <2>1 DEF Entry
<1> QED
  BY <1>1, <1>2, <1>3

(* Where a window begins follows from its count.                            *)
LEMMA SameFirst ==
  ASSUME NEW x \in Int, NEW n \in Int, NEW f \in Int, NEW p \in Int,
         x + f = n + 1, x + p = n + 1
  PROVE  f = p
OBVIOUS

(* A window without an unexpired entry is over. *)
LEMMA WindowOver ==
  ASSUME TypeOK, LimitInv, NEW k \in Key, NEW p \in Nat, WindowOf(k, p),
         k \in DOMAIN entries => ~LiveEntry(entries[k])
  PROVE  admitted[k][p] + RateWindow <= now
<1> USE AdmissionTypes
<1>1. p \in 1 .. Len(admitted[k]) /\ admitted[k][p] \in Nat
  BY DEF WindowOf
<1>2. CASE k \notin DOMAIN entries
  BY <1>2 DEF WindowOf
<1>3. CASE k \in DOMAIN entries
  <2>1. PICK f \in Nat : EntryFrom(k, f)
    BY <1>3 DEF LimitInv, Counts
  <2>a. entries[k].count \in Int /\ Len(admitted[k]) \in Int
    BY <1>3
  <2>b. entries[k].count + f = Len(admitted[k]) + 1
    BY <2>1 DEF EntryFrom
  <2>c. entries[k].count + p = Len(admitted[k]) + 1
    BY <1>3 DEF WindowOf
  <2> HIDE AdmissionTypes
  <2>2. f = p
    BY <2>a, <2>b, <2>c, SameFirst
  <2> USE AdmissionTypes
  <2>3. entries[k].expiresAt = admitted[k][p] + RateWindow
    BY <2>1, <2>2 DEF EntryFrom
  <2> QED
    BY <1>1, <1>3, <2>3 DEF LiveEntry
<1> QED
  BY <1>2, <1>3

(* The entry of a contact stays, or goes when it has expired. *)
LEMMA WindowStays ==
  ASSUME TypeOK, LimitInv, NEW c \in Key \ evicted,
         admitted'[c] = admitted[c], now' \in Nat, now' >= now,
         c \in DOMAIN entries' => c \in DOMAIN entries /\ entries'[c] = entries[c],
         c \in DOMAIN entries \ DOMAIN entries' => ~LiveEntry(entries[c]),
         Len(admitted'[c]) > 0
  PROVE  \E p \in Nat : WindowOf(c, p)'
<1> USE AdmissionTypes
<1>1. PICK p \in Nat : WindowOf(c, p)
  BY DEF LimitInv, Windows
<1>2. p \in 1 .. Len(admitted[c]) /\ admitted[c][p] \in Nat
  BY <1>1 DEF WindowOf
<1>3. c \in DOMAIN entries \ DOMAIN entries' => admitted[c][p] + RateWindow <= now
  BY <1>1, WindowOver
<1>4. c \notin DOMAIN entries' => admitted[c][p] + RateWindow <= now'
  <2>1. c \notin DOMAIN entries' => admitted[c][p] + RateWindow <= now
    BY <1>1, <1>3 DEF WindowOf
  <2>2. now \in Nat /\ RateWindow \in Nat
    OBVIOUS
  <2> HIDE AdmissionTypes
  <2> QED
    BY <1>2, <2>1, <2>2
<1> QED
  BY <1>1, <1>4 DEF WindowOf

(* A step that admits nobody. *)
LEMMA NoAdmission ==
  ASSUME TypeOK, LimitInv, MapInv',
         UNCHANGED admitted, now' \in Nat, now' >= now, evicted \subseteq evicted',
         DOMAIN entries' \subseteq DOMAIN entries,
         \A k \in DOMAIN entries' : entries'[k] = entries[k],
         \A k \in DOMAIN entries \ DOMAIN entries' : k \in evicted' \/ ~LiveEntry(entries[k])
  PROVE  LimitInv'
<1>1. AdmittedInOrder'
  BY AdmissionTypes DEF LimitInv, AdmittedInOrder
<1>2. Counts'
  BY DEF LimitInv, Counts, EntryFrom
<1>3. Windows'
  BY WindowStays DEF Windows
<1>4. RateKept'
  BY DEF LimitInv, RateKept
<1> QED
  BY <1>1, <1>2, <1>3, <1>4 DEF LimitInv

(* One more admission of k: the old ones keep their places. *)
LEMMA OneMoreAdmission ==
  ASSUME TypeOK, NEW k \in Key, admitted' = [admitted EXCEPT ![k] = Append(@, now)]
  PROVE  /\ \A c \in Key \ {k} : admitted'[c] = admitted[c]
         /\ Len(admitted'[k]) = Len(admitted[k]) + 1
         /\ \A j \in 1 .. Len(admitted[k]) : admitted'[k][j] = admitted[k][j]
         /\ admitted'[k][Len(admitted[k]) + 1] = now
         /\ admitted' \in [Key -> Seq(Nat)]
<1>1. admitted \in [Key -> Seq(Nat)] /\ admitted[k] \in Seq(Nat) /\ now \in Nat
  BY AdmissionTypes DEF TypeOK
<1>2. Append(admitted[k], now) \in Seq(Nat)
  BY <1>1
<1>3. admitted'[k] = Append(admitted[k], now)
  BY <1>1
<1>4. admitted' \in [Key -> Seq(Nat)] /\ \A c \in Key \ {k} : admitted'[c] = admitted[c]
  BY <1>1, <1>2
<1> QED
  BY <1>1, <1>3, <1>4

(* The map an admission of k leaves. *)
LEMMA AdmitMap ==
  ASSUME TypeOK, MapInv, NEW k \in Key, Admit(k)
  PROVE  /\ entries' \in [DOMAIN entries' -> Entry] /\ DOMAIN entries' \subseteq Key
         /\ Cardinality(DOMAIN entries') <= MaxRateKeys
         /\ earlier' \subseteq Key \X Key
         /\ MapInv'
         /\ k \in DOMAIN entries'
         /\ \A c \in DOMAIN entries' \ {k} : c \in DOMAIN entries /\ entries'[c] = entries[c]
         /\ \A c \in DOMAIN entries \ DOMAIN entries' : c \in evicted' \/ ~LiveEntry(entries[c])
         /\ \/ /\ k \in DOMAIN entries /\ LiveEntry(entries[k])
               /\ entries'[k].count = entries[k].count + 1
               /\ entries'[k].expiresAt = entries[k].expiresAt
            \/ /\ k \in DOMAIN entries => ~LiveEntry(entries[k])
               /\ entries'[k].count = 1 /\ entries'[k].expiresAt = now + RateWindow
<1> DEFINE map == Counted(k)
<1>1. /\ ~Limited(k) /\ entries' = map /\ earlier' = Ordered(map)
      /\ evicted' = evicted \cup Dropped(Swept, map)
  BY DEF Admit
<1>2. /\ map \in [DOMAIN map -> Entry]
      /\ k \in DOMAIN map /\ DOMAIN map \subseteq DOMAIN Swept \cup {k}
      /\ \A c \in DOMAIN map \ {k} : map[c] = entries[c]
      /\ IsFiniteSet(DOMAIN map) /\ Cardinality(DOMAIN map) <= MaxRateKeys
      /\ \/ /\ k \in DOMAIN entries /\ LiveEntry(entries[k])
            /\ map[k].count = entries[k].count + 1
            /\ map[k].expiresAt = entries[k].expiresAt
         \/ /\ k \in DOMAIN entries => ~LiveEntry(entries[k])
            /\ map[k].count = 1 /\ map[k].expiresAt = now + RateWindow
  BY <1>1, CountedFacts
<1>3. /\ DOMAIN Swept \subseteq DOMAIN entries
      /\ \A c \in DOMAIN Swept : Swept[c] = entries[c]
      /\ \A c \in DOMAIN entries \ DOMAIN Swept : ~LiveEntry(entries[c])
  BY SweptFacts
<1>4. DOMAIN map \subseteq Key
  BY <1>2, <1>3 DEF TypeOK
<1>5. HasFirst(DOMAIN map, Ordered(map)) /\ Ordered(map) \subseteq Key \X Key
  BY <1>4, OrderedFacts
<1> HIDE DEF map
<1>6. MapInv'
  BY <1>1, <1>2, <1>5 DEF MapInv, HasFirst
<1>7. ASSUME NEW c \in DOMAIN entries \ DOMAIN map, LiveEntry(entries[c])
      PROVE  c \in evicted'
  <2>1. c \in DOMAIN Swept /\ c \in Key /\ LiveEntry(Swept[c])
    BY <1>3, <1>7 DEF TypeOK
  <2> QED
    BY <1>1, <1>7, <2>1 DEF Dropped
<1> QED
  BY <1>1, <1>2, <1>3, <1>4, <1>5, <1>6, <1>7

(* The admitted contact: it is in its window and under the limit, or begins *)
(* a new one.                                                               *)
LEMMA AdmitLimit ==
  ASSUME TypeOK, LimitInv, NEW k \in Key, Admit(k)
  PROVE  LimitInv'
<1> DEFINE n == Len(admitted[k])
           A == admitted[k]
<1>a. /\ now \in Nat /\ RateLimit \in Nat \ {0} /\ RateWindow \in Nat /\ n \in Nat
      /\ \A j \in 1 .. n : A[j] \in Nat
      /\ \A c \in Key : Len(admitted[c]) \in Nat /\ \A j \in 1 .. Len(admitted[c]) : admitted[c][j] \in Nat
      /\ \A c \in DOMAIN entries : c \in Key /\ entries[c].count \in 1 .. RateLimit
  BY AdmissionTypes
<1> USE <1>a
<1>0. MapInv /\ UNCHANGED now /\ evicted \subseteq evicted'
  BY DEF LimitInv, Admit
<1>1. /\ MapInv'
      /\ k \in DOMAIN entries' /\ entries'[k] \in Entry
      /\ \A c \in DOMAIN entries' \ {k} : c \in DOMAIN entries /\ entries'[c] = entries[c]
      /\ \A c \in DOMAIN entries \ DOMAIN entries' : c \in evicted' \/ ~LiveEntry(entries[c])
      /\ \/ /\ k \in DOMAIN entries /\ LiveEntry(entries[k])
            /\ entries'[k].count = entries[k].count + 1
            /\ entries'[k].expiresAt = entries[k].expiresAt
         \/ /\ k \in DOMAIN entries => ~LiveEntry(entries[k])
            /\ entries'[k].count = 1 /\ entries'[k].expiresAt = now + RateWindow
  BY <1>0, AdmitMap
<1>2. /\ \A c \in Key \ {k} : admitted'[c] = admitted[c]
      /\ Len(admitted'[k]) = n + 1
      /\ \A j \in 1 .. n : admitted'[k][j] = A[j]
      /\ admitted'[k][n + 1] = now
  BY OneMoreAdmission DEF Admit
<1>3. entries'[k].count \in 1 .. RateLimit
  BY <1>1 DEF Entry
<1>4. /\ \A j \in 1 .. n : A[j] <= now
      /\ \A j \in 1 .. n : \A i \in 1 .. j : A[i] <= A[j]
  BY DEF LimitInv, AdmittedInOrder
<1>5. AdmittedInOrder'
  <2> SUFFICES ASSUME NEW c \in Key, NEW j \in 1 .. Len(admitted'[c])
               PROVE  /\ admitted'[c][j] <= now'
                      /\ \A i \in 1 .. j : admitted'[c][i] <= admitted'[c][j]
    BY DEF AdmittedInOrder
  <2>1. CASE c # k
    BY <1>0, <1>2, <2>1 DEF LimitInv, AdmittedInOrder
  <2>2. CASE c = k /\ j = n + 1
    <3>2. ASSUME NEW i \in 1 .. j PROVE admitted'[k][i] <= now
      <4>1. CASE i = n + 1
        BY <1>2, <4>1
      <4>2. CASE i # n + 1
        <5>1. i \in 1 .. n
          BY <2>2, <4>2
        <5> QED
          BY <1>2, <1>4, <5>1
      <4> QED
        BY <4>1, <4>2
    <3> QED
      BY <1>0, <1>2, <2>2, <3>2
  <2>3. CASE c = k /\ j # n + 1
    <3>1. j \in 1 .. n /\ \A i \in 1 .. j : i \in 1 .. n
      BY <1>2, <2>3
    <3> QED
      BY <1>0, <1>2, <1>4, <2>3, <3>1
  <2> QED
    BY <2>1, <2>2, <2>3
<1>6. Counts'
  <2> SUFFICES ASSUME NEW c \in DOMAIN entries'
               PROVE  \E f \in Nat : EntryFrom(c, f)'
    BY DEF Counts
  <2>1. CASE c # k
    <3>1. c \in DOMAIN entries /\ c \in Key /\ entries'[c] = entries[c]
      BY <1>1, <2>1
    <3>2. PICK f \in Nat : EntryFrom(c, f)
      BY <3>1 DEF LimitInv, Counts
    <3>3. admitted'[c] = admitted[c]
      BY <1>2, <2>1, <3>1
    <3> HIDE <1>a
    <3>4. EntryFrom(c, f)'
      BY <3>1, <3>2, <3>3 DEF EntryFrom
    <3> QED
      BY <3>4
  <2>2. CASE c = k /\ k \in DOMAIN entries /\ LiveEntry(entries[k])
    <3>1. PICK f \in Nat : EntryFrom(k, f)
      BY <2>2 DEF LimitInv, Counts
    <3>2. f \in 1 .. n /\ entries[k].count + f = n + 1 /\ entries[k].expiresAt = A[f] + RateWindow
      BY <3>1 DEF EntryFrom
    <3>3. f \in 1 .. n + 1 /\ admitted'[k][f] = A[f]
      BY <1>2, <3>2
    <3>4. entries'[k].count = entries[k].count + 1 /\ entries'[k].expiresAt = entries[k].expiresAt
      BY <1>1, <2>2
    <3>a. entries[k].count \in Int /\ entries'[k].count \in Int /\ n \in Int
      BY <1>3, <2>2
    <3> HIDE <1>a
    <3>b. entries[k].count + f = n + 1 /\ entries'[k].count = entries[k].count + 1
      BY <3>2, <3>4
    <3>5. entries'[k].count + f = n + 1 + 1
      <4> HIDE DEF n
      <4> QED
        BY <3>a, <3>b
    <3>6. EntryFrom(k, f)'
      BY <1>2, <3>2, <3>3, <3>4, <3>5 DEF EntryFrom
    <3> QED
      BY <2>2, <3>6
  <2>3. CASE c = k /\ (k \in DOMAIN entries => ~LiveEntry(entries[k]))
    <3>1. entries'[k].count = 1 /\ entries'[k].expiresAt = now + RateWindow
      BY <1>1, <2>3
    <3>2. PICK f \in Nat : f = n + 1
      OBVIOUS
    <3>3. EntryFrom(k, f)'
      BY <1>2, <3>1, <3>2 DEF EntryFrom
    <3> QED
      BY <2>3, <3>3
  <2> QED
    BY <2>1, <2>2, <2>3
<1>7. ASSUME k \notin evicted', NEW i \in 1 .. n + 1, i + 2 * RateLimit - 1 = n + 1
      PROVE  now - A[i] >= RateWindow /\ i \in 1 .. n
  <2>0. n \in Nat /\ RateLimit \in Nat \ {0} /\ now \in Nat /\ RateWindow \in Nat
    OBVIOUS
  <2>1. i \in 1 .. n
    <3> HIDE <1>a
    <3> HIDE DEF n
    <3> QED
      BY <1>7, <2>0
  <2>a. k \in Key \ evicted
    BY <1>0, <1>7
  <2>b. n > 0
    BY <2>0, <2>1
  <2>2. PICK p \in Nat : WindowOf(k, p)
    <3> HIDE <1>a
    <3> QED
      BY <2>a, <2>b DEF LimitInv, Windows
  <2>3. p \in 1 .. n /\ n < p + RateLimit /\ A[p] \in Nat /\ A[i] \in Nat
    BY <2>1, <2>2 DEF WindowOf
  <2>4. CASE k \in DOMAIN entries /\ LiveEntry(entries[k])
    <3>a. entries[k].count \in Int /\ n \in Int /\ RateLimit \in Int
      BY <2>4
    <3>b. entries[k].count + p = n + 1
      BY <2>2, <2>4 DEF WindowOf
    <3>c. entries[k].count + 1 <= RateLimit
      BY <1>1, <1>3, <2>4
    <3>2. i + RateLimit <= p
      <4>1. PICK x \in Int : x = entries[k].count
        BY <3>a
      <4> HIDE <1>a
      <4> HIDE DEF n
      <4>2. x + p = n + 1 /\ x + 1 <= RateLimit
        BY <3>b, <3>c, <4>1
      <4>3. i \in Int /\ p \in Int /\ i + 2 * RateLimit - 1 = n + 1
        BY <1>7
      <4> QED
        BY <3>a, <4>2, <4>3
    <3>3. A[i] + RateWindow <= A[p]
      BY <2>1, <2>2, <3>2 DEF WindowOf
    <3>4. A[p] <= now
      BY <1>4, <2>3
    <3> HIDE <1>a
    <3> HIDE DEF n, A
    <3>5. now - A[i] >= RateWindow
      BY <2>0, <2>3, <3>3, <3>4
    <3> QED
      BY <2>1, <3>5
  <2>5. CASE k \in DOMAIN entries => ~LiveEntry(entries[k])
    <3>1. A[p] + RateWindow <= now
      BY <2>2, <2>5, WindowOver
    <3>2. i \in 1 .. p
      BY <1>7, <2>1, <2>3
    <3> HIDE <1>a
    <3>3. A[i] <= A[p]
      BY <1>4, <2>3, <3>2
    <3> QED
      BY <2>0, <2>1, <2>3, <3>1, <3>3
  <2> QED
    BY <2>4, <2>5
<1>8. RateKept'
  <2> SUFFICES ASSUME NEW c \in Key \ evicted', NEW i \in 1 .. Len(admitted'[c]),
                      i + 2 * RateLimit - 1 <= Len(admitted'[c])
               PROVE  admitted'[c][i + 2 * RateLimit - 1] - admitted'[c][i] >= RateWindow
    BY DEF RateKept
  <2>1. CASE c # k
    BY <1>0, <1>2, <2>1 DEF LimitInv, RateKept
  <2>2. CASE c = k /\ i + 2 * RateLimit - 1 <= n
    <3>1. i \in 1 .. n /\ i + 2 * RateLimit - 1 \in 1 .. n
      BY <2>2
    <3> QED
      BY <1>0, <1>2, <2>2, <3>1 DEF LimitInv, RateKept
  <2>3. CASE c = k /\ ~(i + 2 * RateLimit - 1 <= n)
    <3>1. i + 2 * RateLimit - 1 = n + 1
      BY <1>2, <2>3
    <3> QED
      BY <1>2, <1>7, <2>3, <3>1
  <2> QED
    BY <2>1, <2>2, <2>3
<1>9. Windows'
  <2> SUFFICES ASSUME NEW c \in Key \ evicted', Len(admitted'[c]) > 0
               PROVE  \E p \in Nat : WindowOf(c, p)'
    BY DEF Windows
  <2>1. CASE c # k
    BY <1>0, <1>1, <1>2, <2>1, WindowStays
  <2>2. CASE c = k /\ k \in DOMAIN entries /\ LiveEntry(entries[k])
    <3>1. PICK f \in Nat : EntryFrom(k, f)
      BY <2>2 DEF LimitInv, Counts
    <3>a. k \in Key \ evicted /\ n > 0
      BY <1>0, <2>2, <3>1 DEF EntryFrom
    <3>2. PICK p \in Nat : WindowOf(k, p)
      BY <3>a DEF LimitInv, Windows
    <3>3. p \in 1 .. n /\ entries[k].count + p = n + 1
      BY <2>2, <3>2 DEF WindowOf
    <3>b. /\ entries[k].count \in Int /\ entries'[k].count \in Int
          /\ n \in Int /\ RateLimit \in Int
      BY <1>3, <2>2
    <3>c. entries'[k].count = entries[k].count + 1 /\ entries[k].count + 1 <= RateLimit
      BY <1>1, <1>3, <2>2
    <3>4. entries'[k].count + p = n + 1 + 1 /\ n + 1 < p + RateLimit
      <4>1. PICK x \in Int : x = entries[k].count
        BY <3>b
      <4>2. PICK y \in Int : y = entries'[k].count
        BY <3>b
      <4> HIDE <1>a
      <4> HIDE DEF n
      <4>3. y = x + 1 /\ x + p = n + 1 /\ x + 1 <= RateLimit /\ n \in Int /\ RateLimit \in Int
        BY <3>3, <3>b, <3>c, <4>1, <4>2
      <4>4. y + p = n + 1 + 1 /\ n + 1 < p + RateLimit
        BY <4>3
      <4> QED
        BY <4>2, <4>4
    <3>5. ASSUME NEW i \in 1 .. n + 1, i + RateLimit <= p
          PROVE  i \in 1 .. n /\ A[i] + RateWindow <= A[p]
      <4>1. i \in 1 .. n
        BY <3>3, <3>5
      <4> QED
        BY <3>2, <3>5, <4>1 DEF WindowOf
    <3>6. /\ p \in 1 .. n + 1 /\ admitted'[k][p] = A[p]
          /\ \A i \in 1 .. n : admitted'[k][i] = A[i]
      BY <1>2, <3>3
    <3>7. \A i \in 1 .. n + 1 :
            i + RateLimit <= p => admitted'[k][i] + RateWindow <= admitted'[k][p]
      BY <3>5, <3>6
    <3>8. WindowOf(k, p)'
      BY <1>1, <1>2, <3>4, <3>6, <3>7 DEF WindowOf
    <3> QED
      BY <2>2, <3>8
  <2>3. CASE c = k /\ (k \in DOMAIN entries => ~LiveEntry(entries[k]))
    <3>1. entries'[k].count = 1
      BY <1>1, <2>3
    <3>2. ASSUME NEW i \in 1 .. n + 1, i + RateLimit <= n + 1
          PROVE  i \in 1 .. n /\ A[i] + RateWindow <= now
      <4>1. i \in 1 .. n
        BY <3>2
      <4>2. PICK p \in Nat : WindowOf(k, p)
        BY <1>0, <2>3, <4>1 DEF LimitInv, Windows
      <4>3. p \in 1 .. n /\ n < p + RateLimit /\ A[p] \in Nat /\ A[i] \in Nat
        BY <4>1, <4>2 DEF WindowOf
      <4>4. A[p] + RateWindow <= now
        BY <2>3, <4>2, WindowOver
      <4>5. i \in 1 .. p
        BY <3>2, <4>1, <4>3
      <4>6. A[i] <= A[p]
        BY <1>4, <4>3, <4>5
      <4>7. now \in Nat /\ RateWindow \in Nat
        OBVIOUS
      <4> HIDE <1>a
      <4> QED
        BY <4>1, <4>3, <4>4, <4>6, <4>7
    <3>a. \A i \in 1 .. n + 1 :
            i + RateLimit <= n + 1 => admitted'[k][i] + RateWindow <= admitted'[k][n + 1]
      BY <1>2, <3>2
    <3>b. PICK p \in Nat : p = n + 1
      OBVIOUS
    <3>c. p \in 1 .. Len(admitted'[k]) /\ Len(admitted'[k]) < p + RateLimit
      BY <1>2, <3>b
    <3>d. entries'[k].count + p = Len(admitted'[k]) + 1
      BY <1>2, <3>1, <3>b
    <3>3. WindowOf(k, p)'
      BY <1>1, <1>2, <3>a, <3>b, <3>c, <3>d DEF WindowOf
    <3> QED
      BY <2>3, <3>3
  <2> QED
    BY <2>1, <2>2, <2>3
<1> QED
  BY <1>1, <1>5, <1>6, <1>8, <1>9 DEF LimitInv

-----------------------------------------------------------------------------
FullInv == IInv /\ TypeOK /\ LimitInv

LEMMA InitFull == Init => FullInv
<1> USE ConstantsAssumption
<1> SUFFICES ASSUME Init PROVE FullInv
  OBVIOUS
<1>1. IInv
  BY InitIntake
<1>2. /\ DOMAIN entries = {} /\ earlier = {}
      /\ \A k \in Key : admitted[k] = <<>> /\ Len(admitted[k]) = 0
  BY DEF Init
<1>3. IsFiniteSet(DOMAIN entries) /\ Cardinality(DOMAIN entries) = 0
  BY <1>2, FS_EmptySet
<1>4. TypeOK
  <2>1. entries \in [DOMAIN entries -> Entry] /\ DOMAIN entries \subseteq Key
    BY <1>2 DEF Init
  <2>2. Cardinality(DOMAIN entries) <= MaxRateKeys /\ earlier \subseteq Key \X Key
    BY <1>2, <1>3
  <2>3. now \in 0 .. MaxTime /\ lastCleanup \in Int
    BY DEF Init, Never
  <2>4. req \in [Request -> Handler] /\ leads \in Seq(LeadRow)
    BY <1>1 DEF IInv, IntakeTypes
  <2>5. Len(leads) = 0 /\ converted \in [Inquiry -> 0 .. Len(leads)]
    BY DEF Init
  <2>6. admitted \in [Key -> Seq(Nat)]
    BY DEF Init
  <2>7. /\ pending \subseteq Key /\ evicted \subseteq Key
        /\ submissions \in 0 .. MaxSubmissions
        /\ conversions \in 0 .. MaxConversions /\ restarts \in 0 .. MaxRestarts
    BY DEF Init
  <2> QED
    BY <2>1, <2>2, <2>3, <2>4, <2>5, <2>6, <2>7 DEF TypeOK
<1>5. MapInv
  BY <1>2, <1>3 DEF MapInv, HasFirst
<1>6. AdmittedInOrder /\ Counts /\ Windows /\ RateKept
  BY <1>2 DEF AdmittedInOrder, Counts, Windows, RateKept
<1> QED
  BY <1>1, <1>4, <1>5, <1>6 DEF FullInv, LimitInv

(* A cleanup without an admission, a restart, and steps that leave the      *)
(* limiter alone: entries go only when they have expired, or into evicted.  *)
LEMMA LimiterStep ==
  ASSUME TypeOK, LimitInv, [Next]_vars, ~\E k \in Key : Admit(k)
  PROVE  /\ LimitInv'
         /\ entries' \in [DOMAIN entries' -> Entry] /\ DOMAIN entries' \subseteq Key
         /\ Cardinality(DOMAIN entries') <= MaxRateKeys
         /\ earlier' \subseteq Key \X Key /\ lastCleanup' \in Int
         /\ UNCHANGED admitted /\ evicted' \subseteq Key
         /\ now' \in 0 .. MaxTime
<1> USE ConstantsAssumption
<1>0. now \in Nat /\ now \in 0 .. MaxTime /\ MapInv
  BY DEF TypeOK, LimitInv
<1>1. CASE UNCHANGED <<entries, earlier, lastCleanup, admitted, evicted>> /\ now' \in 0 .. MaxTime /\ now' >= now
  <2>1. MapInv'
    BY <1>0, <1>1 DEF MapInv, HasFirst
  <2>2. LimitInv'
    BY <1>1, <2>1, NoAdmission
  <2> QED
    BY <1>1, <2>2 DEF TypeOK
<1>2. ASSUME NEW k \in Key, Refuse(k)
      PROVE  /\ LimitInv'
             /\ entries' \in [DOMAIN entries' -> Entry] /\ DOMAIN entries' \subseteq Key
             /\ Cardinality(DOMAIN entries') <= MaxRateKeys
             /\ earlier' \subseteq Key \X Key /\ lastCleanup' \in Int
             /\ UNCHANGED <<admitted, evicted, now>>
  <2>1. /\ entries' = Swept /\ earlier' = Ordered(Swept)
        /\ UNCHANGED <<admitted, evicted, now>>
        /\ lastCleanup' \in {now, lastCleanup}
    BY <1>2 DEF Refuse
  <2>2. /\ Swept \in [DOMAIN Swept -> Entry]
        /\ DOMAIN Swept \subseteq DOMAIN entries
        /\ \A c \in DOMAIN Swept : Swept[c] = entries[c]
        /\ \A c \in DOMAIN entries \ DOMAIN Swept : ~LiveEntry(entries[c])
        /\ IsFiniteSet(DOMAIN Swept) /\ Cardinality(DOMAIN Swept) <= MaxRateKeys
    BY <1>0, SweptFacts
  <2>3. DOMAIN Swept \subseteq Key
    BY <2>2 DEF TypeOK
  <2>4. HasFirst(DOMAIN Swept, Ordered(Swept)) /\ Ordered(Swept) \subseteq Key \X Key
    BY <1>0, <2>3, OrderedFacts
  <2>5. MapInv'
    BY <2>1, <2>2, <2>4 DEF MapInv, HasFirst
  <2>6. LimitInv'
    BY <1>0, <2>1, <2>2, <2>5, NoAdmission
  <2>7. lastCleanup' \in Int
    BY <1>0, <2>1 DEF TypeOK
  <2> QED
    BY <2>1, <2>2, <2>3, <2>4, <2>6, <2>7
<1>3. CASE Restart
  <2>1. /\ entries' = <<>> /\ earlier' = {} /\ lastCleanup' = Never
        /\ UNCHANGED <<now, admitted>>
        /\ evicted' = evicted \cup Dropped(entries, <<>>)
    BY <1>3 DEF Restart
  <2>2. DOMAIN entries' = {}
    BY <2>1
  <2>3. IsFiniteSet(DOMAIN entries') /\ Cardinality(DOMAIN entries') = 0
    BY <2>2, FS_EmptySet
  <2>4. MapInv'
    BY <2>2, <2>3 DEF MapInv, HasFirst
  <2>5. ASSUME NEW c \in DOMAIN entries, LiveEntry(entries[c]) PROVE c \in evicted'
    BY <2>1, <2>2, <2>5 DEF TypeOK, Dropped
  <2>6. LimitInv'
    BY <1>0, <2>1, <2>2, <2>4, <2>5, NoAdmission
  <2>7. entries' \in [DOMAIN entries' -> Entry]
    BY <2>2
  <2>8. lastCleanup' \in Int
    BY <2>1 DEF Never
  <2>9. evicted' \subseteq Key
    BY <2>1 DEF TypeOK, Dropped
  <2> QED
    BY <1>0, <2>1, <2>2, <2>3, <2>6, <2>7, <2>8, <2>9
<1>4. ASSUME NEW r \in Request, \/ Lookup(r) \/ Create(r) \/ Release(r) \/ Fail(r)
                                \/ \E i \in Inquiry : ConvertRead(r, i)
                                \/ ConvertCommit(r)
      PROVE  UNCHANGED <<now, entries, earlier, lastCleanup, admitted, evicted>>
  BY <1>4 DEF Lookup, Create, Release, Fail, ConvertRead, ConvertCommit, memory
<1>5. CASE Tick
  <2>1. UNCHANGED <<entries, earlier, lastCleanup, admitted, evicted>> /\ now' = now + 1 /\ now < MaxTime
    BY <1>5 DEF Tick, memory
  <2> QED
    BY <1>0, <1>1, <2>1
<1>6. CASE UNCHANGED vars
  BY <1>0, <1>1, <1>6 DEF vars, memory
<1>7. ASSUME NEW k \in Key, Dismiss(k) PROVE FALSE
  BY <1>7 DEF Dismiss
<1>8. ASSUME NEW k \in Key, NEW r \in Request, Begin(r, k) PROVE FALSE
  BY <1>8 DEF Begin
<1>9. CASE UNCHANGED <<now, entries, earlier, lastCleanup, admitted, evicted>>
  BY <1>0, <1>1, <1>9
<1>10. ASSUME NEW k \in Key, Refuse(k) PROVE evicted' \subseteq Key /\ now' \in 0 .. MaxTime /\ UNCHANGED admitted
  BY <1>0, <1>2, <1>10 DEF TypeOK
<1> QED
  BY <1>2, <1>3, <1>4, <1>5, <1>6, <1>7, <1>8, <1>9, <1>10 DEF Next

(* Every step preserves the full invariant. *)
LEMMA NextFull == FullInv /\ [Next]_vars => FullInv'
<1> USE ConstantsAssumption
<1> SUFFICES ASSUME FullInv, [Next]_vars PROVE FullInv'
  OBVIOUS
<1>0. IInv /\ TypeOK /\ LimitInv /\ MapInv
  BY DEF FullInv, LimitInv
<1>1. IInv'
  BY <1>0, NextIntake
<1>2. /\ LimitInv'
      /\ entries' \in [DOMAIN entries' -> Entry] /\ DOMAIN entries' \subseteq Key
      /\ Cardinality(DOMAIN entries') <= MaxRateKeys
      /\ earlier' \subseteq Key \X Key /\ lastCleanup' \in Int
      /\ admitted' \in [Key -> Seq(Nat)] /\ evicted' \subseteq Key
      /\ now' \in 0 .. MaxTime
  <2>1. CASE \E k \in Key : Admit(k)
    <3>1. PICK k \in Key : Admit(k)
      BY <2>1
    <3>2. LimitInv'
      BY <1>0, <3>1, AdmitLimit
    <3>3. /\ entries' \in [DOMAIN entries' -> Entry] /\ DOMAIN entries' \subseteq Key
          /\ Cardinality(DOMAIN entries') <= MaxRateKeys
          /\ earlier' \subseteq Key \X Key
      BY <1>0, <3>1, AdmitMap
    <3>4. admitted' \in [Key -> Seq(Nat)]
      BY <1>0, <3>1, OneMoreAdmission DEF Admit
    <3>5. /\ UNCHANGED now /\ lastCleanup' \in {now, lastCleanup}
          /\ evicted' = evicted \cup Dropped(Swept, Counted(k))
      BY <3>1 DEF Admit
    <3>6. now' \in 0 .. MaxTime /\ lastCleanup' \in Int
      BY <1>0, <3>5 DEF TypeOK
    <3>7. Dropped(Swept, Counted(k)) \subseteq Key
      BY <1>0, SweptFacts DEF Dropped, TypeOK
    <3>8. evicted' \subseteq Key
      BY <1>0, <3>5, <3>7 DEF TypeOK
    <3> QED
      BY <3>2, <3>3, <3>4, <3>6, <3>8
  <2>2. CASE ~\E k \in Key : Admit(k)
    <3>1. admitted \in [Key -> Seq(Nat)]
      BY <1>0 DEF TypeOK
    <3> QED
      BY <1>0, <2>2, <3>1, LimiterStep
  <2> QED
    BY <2>1, <2>2
<1>3. pending' \subseteq Key /\ req' \in [Request -> Handler] /\ leads' \in Seq(LeadRow)
  BY <1>1 DEF IInv, IntakeTypes, EachIsWorkedOn
<1>4. /\ submissions' \in 0 .. MaxSubmissions
      /\ conversions' \in 0 .. MaxConversions /\ restarts' \in 0 .. MaxRestarts
  <2>1. /\ submissions \in 0 .. MaxSubmissions
        /\ conversions \in 0 .. MaxConversions /\ restarts \in 0 .. MaxRestarts
    BY <1>0 DEF TypeOK
  <2>2. /\ UNCHANGED submissions \/ (submissions < MaxSubmissions /\ submissions' = submissions + 1)
        /\ UNCHANGED conversions \/ (conversions < MaxConversions /\ conversions' = conversions + 1)
        /\ UNCHANGED restarts \/ (restarts < MaxRestarts /\ restarts' = restarts + 1)
    BY DEF Next, Refuse, Dismiss, Begin, Admit, Lookup, Create, Release, Fail, ConvertRead,
           ConvertCommit, Restart, Tick, vars
  <2>3. MaxSubmissions \in Nat /\ MaxConversions \in Nat /\ MaxRestarts \in Nat
    BY ConstantsAssumption
  <2>4. submissions' \in 0 .. MaxSubmissions
    BY <2>1, <2>2, <2>3
  <2>5. conversions' \in 0 .. MaxConversions
    BY <2>1, <2>2, <2>3
  <2>6. restarts' \in 0 .. MaxRestarts
    BY <2>1, <2>2, <2>3
  <2> QED
    BY <2>4, <2>5, <2>6
<1>5. converted' \in [Inquiry -> 0 .. Len(leads')]
  <2>1. converted \in [Inquiry -> 0 .. Len(leads)] /\ leads \in Seq(LeadRow) /\ Len(leads) \in Nat
    <3>1. converted \in [Inquiry -> 0 .. Len(leads)] /\ leads \in Seq(LeadRow)
      BY <1>0, Zenon DEF TypeOK
    <3>2. Len(leads) \in Nat
      BY <3>1
    <3> QED
      BY <3>1, <3>2, Zenon
  <2>2. \/ UNCHANGED <<leads, converted>>
        \/ (\E x : leads' = Append(leads, x)) /\ UNCHANGED converted
        \/ \E i \in Inquiry : /\ \E x : leads' = Append(leads, x)
                              /\ converted' = [converted EXCEPT ![i] = Len(leads) + 1]
    <3>1. ASSUME NEW r \in Request, Create(r)
          PROVE  (\E x : leads' = Append(leads, x)) /\ UNCHANGED converted
      BY <3>1 DEF Create
    <3>2. ASSUME NEW r \in Request, ConvertCommit(r)
          PROVE  \E i \in Inquiry : /\ \E x : leads' = Append(leads, x)
                                    /\ converted' = [converted EXCEPT ![i] = Len(leads) + 1]
      <4>1. req[r].inquiry \in Inquiry
        BY <1>0, <3>2 DEF ConvertCommit, IInv, IntakeTypes
      <4> QED
        BY <3>2, <4>1 DEF ConvertCommit
    <3> QED
      BY <3>1, <3>2 DEF Next, Refuse, Dismiss, Begin, Admit, Lookup, Release, Fail, ConvertRead,
           Restart, Tick, vars, rows
  <2>3. CASE UNCHANGED <<leads, converted>>
    BY <2>1, <2>3
  <2>4. CASE (\E x : leads' = Append(leads, x)) /\ UNCHANGED converted
    <3>1. Len(leads') = Len(leads) + 1
      BY <2>1, <2>4
    <3> QED
      BY <2>1, <2>4, <3>1
  <2>5. CASE \E i \in Inquiry : /\ \E x : leads' = Append(leads, x)
                                /\ converted' = [converted EXCEPT ![i] = Len(leads) + 1]
    <3>1. Len(leads') = Len(leads) + 1
      BY <2>1, <2>5
    <3> QED
      BY <2>1, <2>5, <3>1
  <2> QED
    BY <2>2, <2>3, <2>4, <2>5
<1>6. TypeOK'
  BY <1>2, <1>3, <1>4, <1>5 DEF TypeOK
<1> QED
  BY <1>1, <1>2, <1>6 DEF FullInv

LEMMA FullInvariant == Spec => []FullInv
  BY InitFull, NextFull, PTL DEF Spec

(* The type of the state, the bounds of the limiter's map and of its counts *)
(* among it, for maps of any size.                                          *)
THEOREM TypeCorrect == Spec => []TypeOK
<1>1. FullInv => TypeOK
  BY DEF FullInv
<1> QED
  BY <1>1, FullInvariant, PTL

(* 2 * RateLimit submissions of a contact whose entry was never dropped     *)
(* unexpired take at least a window (assertRateLimit).                      *)
THEOREM RateIsKept == Spec => []RateKept
<1>1. FullInv => RateKept
  BY DEF FullInv, LimitInv
<1> QED
  BY <1>1, FullInvariant, PTL

(* A contact is refused only after RateLimit admissions of that contact     *)
(* within the last window, whatever was swept or dropped before             *)
(* (assertRateLimit).                                                       *)
THEOREM RefusalsHaveCause == Spec => RefusedOnlyOverBudget
<1> USE ConstantsAssumption
<1> DEFINE Step == \A k \in Key : Refuse(k) => Cardinality(AdmittedLately(k)) >= RateLimit
<1>1. ASSUME TypeOK, LimitInv, NEW k \in Key, Refuse(k)
      PROVE  Cardinality(AdmittedLately(k)) >= RateLimit
  <2> DEFINE n == Len(admitted[k])
  <2>1. /\ k \in DOMAIN entries /\ LiveEntry(entries[k]) /\ entries[k].count >= RateLimit
    BY <1>1, SweptFacts DEF Refuse, Limited, Running, LimitInv
  <2>2. PICK f \in Nat : EntryFrom(k, f)
    BY <1>1, <2>1 DEF LimitInv, Counts
  <2>3. /\ f \in 1 .. n /\ entries[k].count + f = n + 1
        /\ entries[k].expiresAt = admitted[k][f] + RateWindow
    BY <2>2 DEF EntryFrom
  <2>4. /\ now \in Nat /\ RateWindow \in Nat /\ RateLimit \in Nat /\ n \in Nat
        /\ entries[k].count \in Nat
        /\ \A j \in 1 .. n : admitted[k][j] \in Nat
    BY <1>1, <2>1, AdmissionTypes
  <2>5. f \in Nat /\ n - f + 1 >= RateLimit /\ f <= n
    BY <2>1, <2>3, <2>4
  <2>6. admitted[k][f] > now - RateWindow
    BY <2>1, <2>3, <2>4 DEF LiveEntry
  <2>7. f .. n \in SUBSET AdmittedLately(k)
    <3> SUFFICES ASSUME NEW j \in f .. n PROVE j \in AdmittedLately(k)
      OBVIOUS
    <3>1. j \in 1 .. n /\ f \in 1 .. j
      BY <2>3, <2>4, <2>5
    <3>2. admitted[k][f] <= admitted[k][j]
      BY <1>1, <3>1 DEF LimitInv, AdmittedInOrder
    <3>3. admitted[k][j] > now - RateWindow
      BY <2>3, <2>4, <2>6, <3>1, <3>2
    <3> QED
      BY <3>1, <3>3 DEF AdmittedLately
  <2>8. IsFiniteSet(AdmittedLately(k))
    <3>1. IsFiniteSet(1 .. n)
      BY <2>4, FS_Interval
    <3> QED
      BY <3>1, FS_Subset DEF AdmittedLately
  <2>9. Cardinality(f .. n) = n - f + 1
    <3>1. f \in Int /\ n \in Int /\ ~(f > n)
      BY <2>4, <2>5
    <3> HIDE DEF n
    <3> QED
      BY <3>1, FS_Interval
  <2>10. Cardinality(f .. n) <= Cardinality(AdmittedLately(k))
    BY <2>7, <2>8, FS_Subset
  <2>11. Cardinality(AdmittedLately(k)) \in Nat
    BY <2>8, FS_CardinalityType
  <2> QED
    BY <2>4, <2>5, <2>9, <2>10, <2>11
<1>2. FullInv => [Step]_vars
  BY <1>1 DEF FullInv
<1> QED
  BY <1>2, FullInvariant, PTL DEF Spec, RefusedOnlyOverBudget
-----------------------------------------------------------------------------
(* The map with its lazy cleanup implements a window for each contact.      *)

Shown == [k \in Key |-> WindowNow(k)]
Alive == {k \in DOMAIN entries : LiveEntry(entries[k])}

(* The two modules count alike. *)
LEMMA SameCount == \A S : Limiter!Cardinality(S) = Cardinality(S)
BY DEF Cardinality, Limiter!Cardinality

(* What the map shows of a contact. *)
LEMMA ShownFacts ==
  ASSUME TypeOK
  PROVE  /\ Limiter!Open = Alive /\ Alive \subseteq Key
         /\ \A k \in Alive : Shown[k] = [used |-> entries[k].count, until |-> entries[k].expiresAt]
         /\ \A k \in Key \ Alive : Shown[k] = Limiter!Closed
<1>1. Alive \subseteq Key
  BY DEF Alive, TypeOK
<1>2. \A k \in Alive : Shown[k] = [used |-> entries[k].count, until |-> entries[k].expiresAt]
  BY <1>1 DEF Shown, WindowNow, Alive
<1>3. \A k \in Key \ Alive : Shown[k] = Limiter!Closed
  BY DEF Shown, WindowNow, Alive, Limiter!Closed
<1>4. \A k \in Alive : Shown[k].used > 0
  <2> TAKE k \in Alive
  <2>1. entries[k].count \in 1 .. RateLimit /\ RateLimit \in Nat
    BY AdmissionTypes DEF Alive
  <2> DEFINE n == entries[k].count
             t == entries[k].expiresAt
  <2>2. Shown[k] = [used |-> n, until |-> t]
    BY <1>2
  <2> HIDE DEF n, t
  <2>3. Shown[k].used = n
    BY <2>2
  <2> QED
    BY <2>1, <2>3 DEF n
<1>5. \A k \in Key \ Alive : ~(Shown[k].used > 0)
  BY <1>3 DEF Limiter!Closed
<1>6. Limiter!Open = {k \in Key : Shown[k].used > 0}
  BY DEF Limiter!Open, Shown
<1>7. Limiter!Open = Alive
  BY <1>1, <1>4, <1>5, <1>6
<1> QED
  BY <1>1, <1>2, <1>3, <1>7

(* A contact whose entry stays, or goes after it has expired, keeps its     *)
(* window.                                                                  *)
LEMMA WindowKept ==
  ASSUME NEW c \in Key, UNCHANGED now,
         c \in DOMAIN entries' => c \in DOMAIN entries /\ entries'[c] = entries[c],
         c \in DOMAIN entries \ DOMAIN entries' => ~LiveEntry(entries[c])
  PROVE  Shown'[c] = Shown[c]
BY DEF Shown, WindowNow, LiveEntry

(* The contact is in its window. *)
LEMMA JoinWindow ==
  ASSUME TypeOK, MapInv, NEW k \in Key, Admit(k), Running(k)
  PROVE  Limiter!Join(k)
<1> DEFINE map == [Swept EXCEPT ![k].count = @ + 1]
<1>1. entries' = map /\ UNCHANGED now /\ ~Limited(k)
  BY DEF Admit, Counted
<1>2. /\ Swept \in [DOMAIN Swept -> Entry] /\ DOMAIN Swept \subseteq DOMAIN entries
      /\ \A c \in DOMAIN Swept : Swept[c] = entries[c]
      /\ \A c \in DOMAIN entries \ DOMAIN Swept : ~LiveEntry(entries[c])
  BY SweptFacts
<1>3. k \in DOMAIN Swept /\ k \in Alive /\ ~(entries[k].count >= RateLimit)
  BY <1>1, <1>2 DEF Running, Limited, Alive
<1>4. /\ DOMAIN entries' = DOMAIN Swept
      /\ \A c \in DOMAIN Swept \ {k} : entries'[c] = entries[c]
      /\ entries'[k] = [entries[k] EXCEPT !.count = @ + 1]
  BY <1>1, <1>2, <1>3
<1>5. \A c \in Key \ {k} : Shown'[c] = Shown[c]
  BY <1>1, <1>2, <1>4, WindowKept
<1>6. Shown[k] = [used |-> entries[k].count, until |-> entries[k].expiresAt] /\ Limiter!Open = Alive
  BY <1>3, ShownFacts
<1>7. entries[k] \in Entry
  BY <1>2, <1>3
<1>8. entries'[k].count = entries[k].count + 1 /\ entries'[k].expiresAt = entries[k].expiresAt
  BY <1>4, <1>7 DEF Entry
<1>9. Shown'[k] = [used |-> entries[k].count + 1, until |-> entries[k].expiresAt]
  BY <1>1, <1>3, <1>4, <1>8 DEF Shown, WindowNow, LiveEntry, Alive
<1> DEFINE n == entries[k].count
           t == entries[k].expiresAt
<1>10. /\ Shown[k] = [used |-> n, until |-> t]
       /\ Shown'[k] = [used |-> n + 1, until |-> t]
  BY <1>6, <1>9
<1>11. n \in 1 .. RateLimit /\ RateLimit \in Nat /\ ~(n >= RateLimit)
  BY <1>3, AdmissionTypes DEF Alive
<1> HIDE DEF n, t
<1>12. Shown[k].used < RateLimit
  BY <1>10, <1>11
<1>13. Shown'[k] = [Shown[k] EXCEPT !.used = @ + 1]
  BY <1>10
<1>14. Shown' = [Shown EXCEPT ![k].used = @ + 1]
  <2>1. Shown = [c \in Key |-> Shown[c]] /\ Shown' = [c \in Key |-> Shown'[c]]
    BY DEF Shown
  <2> QED
    BY <1>5, <1>13, <2>1
<1> QED
  BY <1>3, <1>6, <1>12, <1>14 DEF Limiter!Join, Shown

(* The contact begins a window.  Only a map full of open windows is asked   *)
(* to give one up: it has been swept in the same call.                      *)
LEMMA StartWindow ==
  ASSUME TypeOK, MapInv, NEW k \in Key, Admit(k), ~Running(k)
  PROVE  Limiter!Start(k) \/ \E c \in Key : Limiter!StartInsteadOf(k, c)
<1> DEFINE S == DOMAIN Swept
           room == Roomy(Swept)
           e == [count |-> 1, expiresAt |-> now + RateWindow]
           w == [used |-> 1, until |-> now + RateWindow]
<1>1. entries' = Set(room, k, e) /\ UNCHANGED now
  BY DEF Admit, Counted
<1>2. /\ Swept \in [S -> Entry] /\ S \subseteq DOMAIN entries
      /\ \A c \in S : Swept[c] = entries[c]
      /\ \A c \in DOMAIN entries \ S : ~LiveEntry(entries[c])
      /\ IsFiniteSet(S) /\ Cardinality(S) <= MaxRateKeys
      /\ SweepDue => \A c \in S : LiveEntry(Swept[c])
  BY SweptFacts
<1>3. /\ Cardinality(S) \in Nat /\ MaxRateKeys \in Nat \ {0}
      /\ now \in Nat /\ RateWindow \in Nat \ {0}
  BY <1>2, FS_CardinalityType, ConstantsAssumption DEF TypeOK
<1>4. Alive \subseteq S /\ k \notin Alive /\ Limiter!Open = Alive
  BY <1>2, ShownFacts DEF Alive, Running
<1>5. /\ DOMAIN entries' = DOMAIN room \cup {k} /\ entries'[k] = e
      /\ \A c \in DOMAIN room \ {k} : entries'[c] = room[c]
  BY <1>1 DEF Set
<1>6. Shown'[k] = w
  <2>1. entries'[k].expiresAt > now'
    BY <1>1, <1>3, <1>5
  <2> QED
    BY <1>1, <1>5, <2>1 DEF Shown, WindowNow, LiveEntry
<1>7. CASE Cardinality(S) < MaxRateKeys
  <2>1. room = Swept
    BY <1>3, <1>7 DEF Roomy
  <2>2. \A c \in Key \ {k} : Shown'[c] = Shown[c]
    BY <1>1, <1>2, <1>5, <2>1, WindowKept
  <2>3. Shown' = [Shown EXCEPT ![k] = w]
    BY <1>6, <2>2 DEF Shown
  <2>4. Cardinality(Alive) < MaxRateKeys
    <3>1. IsFiniteSet(Alive) /\ Cardinality(Alive) <= Cardinality(S)
      BY <1>2, <1>4, FS_Subset
    <3>2. Cardinality(Alive) \in Nat
      BY <3>1, FS_CardinalityType
    <3> QED
      BY <1>3, <1>7, <3>1, <3>2
  <2>5. Limiter!Start(k)
    BY <1>4, <2>3, <2>4, SameCount DEF Limiter!Start, Limiter!New, Shown
  <2> QED
    BY <2>5
<1>8. CASE ~(Cardinality(S) < MaxRateKeys)
  <2> DEFINE o == Oldest(Swept)
  <2>1. Cardinality(S) = MaxRateKeys
    BY <1>2, <1>3, <1>8
  <2>2. Cardinality(DOMAIN entries) >= MaxRateKeys
    <3>1. IsFiniteSet(DOMAIN entries) /\ Cardinality(S) <= Cardinality(DOMAIN entries)
      BY <1>2, FS_Subset DEF MapInv
    <3>2. Cardinality(DOMAIN entries) \in Nat
      BY <3>1, FS_CardinalityType
    <3> QED
      BY <1>3, <2>1, <3>1, <3>2
  <2>3. Alive = S
    BY <1>2, <1>4, <2>2 DEF SweepDue, Alive
  <2>4. S # {}
    BY <1>3, <2>1, FS_EmptySet
  <2>5. \E c \in S : \A l \in S : <<l, c>> \notin earlier
    BY <1>2, <2>4 DEF MapInv, HasFirst
  <2>6. o \in S
    BY <2>5 DEF Oldest
  <2>7. room = [c \in S \ {o} |-> Swept[c]]
    BY <1>3, <2>1 DEF Roomy, Restrict
  <2> HIDE DEF o
  <2>8. PICK c \in Key : c = o
    BY <1>2, <2>6 DEF TypeOK
  <2>9. c \in Alive /\ c # k
    BY <1>4, <2>3, <2>6, <2>8
  <2>10. /\ DOMAIN entries' = (S \ {c}) \cup {k}
         /\ \A d \in S \ {c, k} : entries'[d] = entries[d]
    BY <1>2, <1>5, <2>7, <2>8
  <2>11. Shown'[c] = Limiter!Closed
    BY <2>9, <2>10 DEF Shown, WindowNow, Limiter!Closed
  <2>12. \A d \in Key \ {c, k} : Shown'[d] = Shown[d]
    BY <1>1, <1>2, <2>10, WindowKept
  <2>13. Shown' = [Shown EXCEPT ![k] = w, ![c] = Limiter!Closed]
    BY <1>6, <2>9, <2>11, <2>12 DEF Shown
  <2>14. Limiter!StartInsteadOf(k, c)
    BY <1>4, <2>1, <2>3, <2>9, <2>13, SameCount DEF Limiter!StartInsteadOf, Limiter!New, Shown
  <2> QED
    BY <2>14
<1> QED
  BY <1>7, <1>8

LEMMA AdmitWindow ==
  ASSUME TypeOK, MapInv, NEW k \in Key, Admit(k)
  PROVE  Limiter!Next
<1>1. submissions' = submissions + 1 /\ UNCHANGED now
  BY DEF Admit
<1>2. Limiter!Submit(k)
  BY <1>1, JoinWindow, StartWindow DEF Limiter!Submit
<1> QED
  BY <1>2 DEF Limiter!Next

(* Refused with a full window. *)
LEMMA RefuseWindow ==
  ASSUME TypeOK, MapInv, NEW k \in Key, Refuse(k)
  PROVE  Limiter!Next
<1>1. entries' = Swept /\ submissions' = submissions + 1 /\ UNCHANGED now
  BY DEF Refuse
<1>2. /\ DOMAIN Swept \subseteq DOMAIN entries
      /\ \A c \in DOMAIN Swept : Swept[c] = entries[c]
      /\ \A c \in DOMAIN entries \ DOMAIN Swept : ~LiveEntry(entries[c])
  BY SweptFacts
<1>3. Shown' = Shown
  <2>1. \A c \in Key : Shown'[c] = Shown[c]
    BY <1>1, <1>2, WindowKept
  <2> QED
    BY <2>1 DEF Shown
<1>4. k \in Alive /\ entries[k].count >= RateLimit
  BY <1>2 DEF Refuse, Limited, Running, Alive
<1>5. entries[k].count \in 1 .. RateLimit /\ RateLimit \in Nat
  BY <1>4, AdmissionTypes DEF Alive
<1>6. Shown[k].used = RateLimit /\ Limiter!Open = Alive
  <2> DEFINE n == entries[k].count
             t == entries[k].expiresAt
  <2>1. Shown[k] = [used |-> n, until |-> t] /\ Limiter!Open = Alive
    BY <1>4, ShownFacts
  <2>2. n = RateLimit
    BY <1>4, <1>5
  <2> HIDE DEF n, t
  <2> QED
    BY <2>1, <2>2
<1>7. Limiter!Refuse(k)
  BY <1>3, <1>4, <1>6 DEF Limiter!Refuse, Shown
<1>8. Limiter!Submit(k)
  BY <1>1, <1>7 DEF Limiter!Submit
<1> QED
  BY <1>8 DEF Limiter!Next

(* Time closes windows, swept or not. *)
LEMMA TickWindow ==
  ASSUME TypeOK, Tick
  PROVE  Limiter!Next
<1>1. now' = now + 1 /\ UNCHANGED <<entries, submissions>>
  BY DEF Tick, memory
<1>2. now \in Nat
  BY DEF TypeOK
<1>3. Limiter!Open = Alive
  BY ShownFacts
<1>4. ASSUME NEW k \in Alive
      PROVE  Shown'[k] = IF Shown[k].until > now' THEN Shown[k] ELSE Limiter!Closed
  <2>1. k \in Key /\ Shown[k] = [used |-> entries[k].count, until |-> entries[k].expiresAt]
    BY ShownFacts
  <2>2. k \in DOMAIN entries
    BY DEF Alive
  <2>3. CASE entries[k].expiresAt > now'
    BY <1>1, <2>1, <2>2, <2>3 DEF Shown, WindowNow, LiveEntry
  <2>4. CASE ~(entries[k].expiresAt > now')
    BY <1>1, <2>1, <2>2, <2>4 DEF Shown, WindowNow, LiveEntry, Limiter!Closed
  <2> QED
    BY <2>1, <2>3, <2>4
<1>5. ASSUME NEW k \in Key \ Alive
      PROVE  Shown'[k] = Limiter!Closed
  <2>1. k \in DOMAIN entries => ~LiveEntry(entries[k]) /\ entries[k].expiresAt \in Nat
    BY AdmissionTypes DEF Alive
  <2>2. k \in DOMAIN entries' => ~(entries'[k].expiresAt > now')
    BY <1>1, <1>2, <2>1 DEF LiveEntry
  <2> QED
    BY <2>2 DEF Shown, WindowNow, LiveEntry, Limiter!Closed
<1>6. Shown' = [k \in Key |-> IF k \in Alive /\ Shown[k].until > now' THEN Shown[k] ELSE Limiter!Closed]
  BY <1>4, <1>5, ShownFacts DEF Shown
<1>7. Limiter!Pass
  BY <1>1, <1>3, <1>6 DEF Limiter!Pass, Shown
<1> QED
  BY <1>7 DEF Limiter!Next

LEMMA RestartWindow ==
  ASSUME Restart
  PROVE  Limiter!Next
<1>1. entries' = <<>> /\ UNCHANGED <<now, submissions>>
  BY DEF Restart
<1>2. DOMAIN entries' = {}
  BY <1>1
<1>3. Shown' = [k \in Key |-> Limiter!Closed]
  BY <1>2 DEF Shown, WindowNow, Limiter!Closed
<1>4. Limiter!Forget
  BY <1>1, <1>3 DEF Limiter!Forget, Shown
<1> QED
  BY <1>4 DEF Limiter!Next

LEMMA WindowsRefine == TypeOK /\ MapInv /\ [Next]_vars => [Limiter!Next]_Limiter!vars
<1> SUFFICES ASSUME TypeOK, MapInv, [Next]_vars
             PROVE  Limiter!Next \/ UNCHANGED Limiter!vars
  OBVIOUS
<1>1. ASSUME NEW k \in Key, Dismiss(k) PROVE Limiter!Next
  BY <1>1, AdmitWindow DEF Dismiss
<1>2. ASSUME NEW k \in Key, NEW r \in Request, Begin(r, k) PROVE Limiter!Next
  BY <1>2, AdmitWindow DEF Begin
<1>3. CASE UNCHANGED <<now, entries, submissions>>
  <2>1. Shown' = Shown
    BY <1>3 DEF Shown, WindowNow, LiveEntry
  <2> QED
    BY <1>3, <2>1 DEF Limiter!vars, Shown
<1>4. ASSUME NEW r \in Request, \/ Lookup(r) \/ Create(r) \/ Release(r) \/ Fail(r)
                                \/ \E i \in Inquiry : ConvertRead(r, i)
                                \/ ConvertCommit(r)
      PROVE  UNCHANGED <<now, entries, submissions>>
  BY <1>4 DEF Lookup, Create, Release, Fail, ConvertRead, ConvertCommit, memory
<1>5. CASE UNCHANGED vars
  BY <1>3, <1>5 DEF vars, memory
<1> QED
  BY <1>1, <1>2, <1>3, <1>4, <1>5, RefuseWindow, TickWindow, RestartWindow DEF Next

LEMMA WindowsInit == Init => Limiter!Init
<1> SUFFICES ASSUME Init PROVE Limiter!Init
  OBVIOUS
<1>1. DOMAIN entries = {}
  BY DEF Init
<1>2. Shown = [k \in Key |-> Limiter!Closed]
  BY <1>1 DEF Shown, WindowNow, Limiter!Closed
<1> QED
  BY <1>2 DEF Init, Limiter!Init, Shown

(* The bounded map with its lazy cleanup implements RateWindows: what it    *)
(* keeps too long or forgets is not seen by any contact, but for the one    *)
(* window a full map gives up (assertRateLimit, cleanup).                   *)
THEOREM LimiterImplementsWindows == Spec => ImplementsWindows
<1>1. FullInv => TypeOK /\ MapInv
  BY DEF FullInv, LimitInv
<1> QED
  BY <1>1, FullInvariant, WindowsRefine, WindowsInit, PTL DEF Spec, ImplementsWindows, Limiter!Spec
=============================================================================
