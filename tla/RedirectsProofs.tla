--------------------------- MODULE RedirectsProofs ---------------------------
(***************************************************************************)
(* Proofs about Redirects, for any number of addresses, pages, redirects   *)
(* and handlers.                                                           *)
(*                                                                         *)
(* The argument: a handler that is about to write a redirect s -> t knows  *)
(* that nothing leads away from t (Clear), unless somebody enabled a       *)
(* redirect at t or worked on t at a time with it.  A new redirect         *)
(* therefore ends every walk that goes through it at t, and closes no      *)
(* loop.  A rename knows where its page is (Renaming), which is what       *)
(* covers its old address until the redirect does, and its new one.  Both  *)
(* rest on Apart: two handlers with an address or a page in common have    *)
(* all their addresses in met.                                             *)
(***************************************************************************)
EXTENDS Redirects, TLAPS

Renames == {"page", "disable", "upsert"}

(* What a handler in flight works on. *)
InFlightOK ==
  \A r \in Request :
    /\ ~At(r, "idle") => req[r].source \in Path /\ req[r].target \in Path
                         /\ req[r].source # req[r].target
    /\ req[r].pc \in Renames => req[r].page \in Page /\ req[r].row = None
    /\ At(r, "idle") => req[r] = Idle

(* Two handlers with an address or a page in common have met. *)
Apart ==
  \A q, r \in Request :
    q # r /\ (Both(q) \cap Both(r) # {} \/ (req[q].page # None /\ req[q].page = req[r].page))
      => Both(q) \cup Both(r) \subseteq met

(* Nothing leads away from where a new redirect is about to lead. *)
Raced == switched \cup met

Clear ==
  \A r \in Request :
    req[r].pc \in {"incoming", "write", "upsert"} /\ req[r].target \notin Raced
      => ~HasOutgoing(req[r].target, req[r].row)

(* Where the page of a rename is. *)
Renaming ==
  \A r \in Request :
    /\ At(r, "page") => \/ place[req[r].page] = req[r].source
                        \/ {place[req[r].page], req[r].source} \subseteq met
    /\ req[r].pc \in {"disable", "upsert"} =>
         /\ req[r].target \in known
         /\ place[req[r].page] = req[r].target \/ req[r].target \in met
         /\ (\A g \in Page : place[g] # req[r].source) \/ req[r].source \in met

TypeInv == TypeOK /\ InFlightOK
IInv    == TypeInv /\ Apart /\ Clear /\ Renaming

-----------------------------------------------------------------------------
(* What the statements do to the table.                                     *)

(* The unique key. *)
Keys == \A i, j \in Id : i # j /\ rows[i] # None => ~RowAt(j, rows[i].source)

(* The redirect of p, if it has one, stays as it is. *)
Untouched(p) ==
  \A i \in Id : (RowAt(i, p)' <=> RowAt(i, p)) /\ (RowAt(i, p) => rows'[i] = rows[i])

LEMMA UntouchedFacts ==
  ASSUME NEW p, Untouched(p)
  PROVE  /\ \A q \in Path : Sends(p, q)' <=> Sends(p, q)
         /\ Moved(p)' <=> Moved(p)
         /\ \A e : HasOutgoing(p, e)' <=> HasOutgoing(p, e)
<1>1. \A q \in Path : Sends(p, q)' <=> Sends(p, q)
  BY DEF Untouched, Sends, RowAt
<1>2. \A e : HasOutgoing(p, e)' <=> HasOutgoing(p, e)
  BY DEF Untouched, HasOutgoing, RowAt
<1> QED
  BY <1>1, <1>2 DEF Moved

LEMMA NothingTouched ==
  ASSUME UNCHANGED rows
  PROVE  \A p \in Path : Untouched(p)
BY DEF Untouched, RowAt

(* A row at p that is active sends, and only it. *)
LEMMA OutgoingSends ==
  ASSUME TypeOK, NEW p \in Path
  PROVE  /\ Moved(p) <=> \E i \in Id : RowAt(i, p) /\ rows[i].active
         /\ HasOutgoing(p, None) <=> Moved(p)
<1>1. Moved(p) <=> \E i \in Id : RowAt(i, p) /\ rows[i].active
  BY DEF TypeOK, Row, Moved, Sends, RowAt
<1>2. Id \ {None} = Id
  BY ConstantsAssumption
<1> QED
  BY <1>1, <1>2 DEF HasOutgoing

(* A row of the table. *)
LEMMA RowFacts ==
  ASSUME NEW s \in Path, NEW t \in Path, NEW a \in BOOLEAN
  PROVE  /\ [source |-> s, target |-> t, active |-> a] \in Row
         /\ [source |-> s, target |-> t, active |-> a] # None
BY ConstantsAssumption DEF Row

(* An upsert or a create of s -> t. *)
LEMMA LeavesFacts ==
  ASSUME TypeOK, NEW i \in Id, NEW s \in Path, NEW t \in Path, Leaves(i, s, t)
  PROVE  /\ rows' \in [Id -> Row \cup {None}]
         /\ Keys'
         /\ \A p \in Path \ {s} : Untouched(p)
         /\ \A q \in Path : Sends(s, q)' <=> q = t
<1> DEFINE new == [source |-> s, target |-> t, active |-> TRUE]
<1>1. new \in Row /\ new # None
  BY RowFacts
<1>2. rows' = [rows EXCEPT ![i] = new] /\ (rows[i] # None => rows[i].source = s)
  BY DEF Leaves, Taken, RowAt, Fresh
<1>3. rows' \in [Id -> Row \cup {None}] /\ rows'[i] = new
      /\ \A j \in Id \ {i} : rows'[j] = rows[j]
  BY <1>1, <1>2 DEF TypeOK
<1>4. \A j \in Id \ {i} : ~RowAt(j, s)
  BY DEF Leaves, Taken, RowAt, TypeOK
<1>5. new.source = s /\ new.target = t /\ new.active
  OBVIOUS
<1> HIDE DEF new
<1>6. Keys'
  BY <1>1, <1>3, <1>4, <1>5 DEF TypeOK, RowAt, Keys
<1>7. \A p \in Path \ {s} : Untouched(p)
  BY <1>1, <1>2, <1>3, <1>5 DEF Untouched, RowAt
<1>8. \A q \in Path : Sends(s, q)' <=> q = t
  BY <1>1, <1>3, <1>4, <1>5 DEF Sends, RowAt
<1> QED
  BY <1>3, <1>6, <1>7, <1>8

(* An update of row i to s -> t, which keeps whether it is active. *)
LEMMA UpdateFacts ==
  ASSUME TypeInv, NEW r \in Request, Update(r),
         NEW i, i = req[r].row, NEW s, s = req[r].source, NEW t, t = req[r].target,
         NEW old, old = rows[i].source
  PROVE  /\ s \in Path /\ t \in Path /\ old \in Path /\ s # t
         /\ rows' \in [Id -> Row \cup {None}]
         /\ Keys'
         /\ \A p \in Path \ {s, old} : Untouched(p)
         /\ \A p \in Path \ {s}, q \in Path : Sends(p, q)' => Sends(p, q)
         /\ \A p \in Path \ {s} : \A e : HasOutgoing(p, e)' => HasOutgoing(p, e)
         /\ \A q \in Path : Sends(s, q)' => q = t
         /\ ~HasOutgoing(t, i) => \A q \in Path : ~Sends(t, q)'
<1>1. s \in Path /\ t \in Path /\ s # t /\ i \in Id /\ rows[i] \in Row /\ old \in Path
  BY DEF Update, At, TypeInv, TypeOK, InFlightOK, Handler, Row
<1> DEFINE new == [rows[i] EXCEPT !.source = s, !.target = t]
<1>2. new \in Row /\ new # None /\ new.source = s /\ new.target = t /\ new.active = rows[i].active
  BY <1>1, ConstantsAssumption DEF Row
<1>3. rows' = [rows EXCEPT ![i] = new]
  BY <1>1 DEF Update, TypeInv, TypeOK, Row
<1>4. rows' \in [Id -> Row \cup {None}] /\ rows'[i] = new
      /\ \A j \in Id \ {i} : rows'[j] = rows[j]
  BY <1>1, <1>2, <1>3 DEF TypeInv, TypeOK
<1>5. \A j \in Id \ {i} : ~RowAt(j, s)
  BY DEF Update
<1> HIDE DEF new
<1>6. Keys'
  BY <1>2, <1>4, <1>5 DEF TypeInv, TypeOK, RowAt, Keys
<1>7. \A p \in Path \ {s, old} : Untouched(p)
  BY <1>2, <1>4 DEF Untouched, RowAt
<1>8. \A p \in Path \ {s}, q \in Path : Sends(p, q)' => Sends(p, q)
  BY <1>2, <1>4 DEF Sends, RowAt
<1>9. \A p \in Path \ {s} : \A e : HasOutgoing(p, e)' => HasOutgoing(p, e)
  BY <1>2, <1>4 DEF HasOutgoing, RowAt
<1>10. \A q \in Path : Sends(s, q)' => q = t
  BY <1>2, <1>4, <1>5 DEF Sends, RowAt
<1>11. ~HasOutgoing(t, i) => \A q \in Path : ~Sends(t, q)'
  BY <1>1, <1>2, <1>4 DEF HasOutgoing, Sends, RowAt
<1> QED
  BY <1>1, <1>4, <1>6, <1>7, <1>8, <1>9, <1>10, <1>11

(* setActive and archive of row i, and the updateMany of a rename. *)
LEMMA SetActiveFacts ==
  ASSUME TypeOK, NEW i \in Id, NEW active \in BOOLEAN, SetActive(i, active),
         NEW old, old = rows[i].source
  PROVE  /\ old \in Path
         /\ rows' \in [Id -> Row \cup {None}]
         /\ Keys'
         /\ \A p \in Path \ {old} : Untouched(p)
         /\ ~active => \A q \in Path : ~Sends(old, q)'
         /\ ~active => \A e : ~HasOutgoing(old, e)'
<1> DEFINE new == [rows[i] EXCEPT !.active = active]
<1>1. rows[i] \in Row /\ old \in Path
  BY DEF SetActive, TypeOK, Row
<1>2. new \in Row /\ new # None /\ new.source = old
  BY <1>1, ConstantsAssumption DEF Row
<1>3. new.active = active
  BY <1>1 DEF Row
<1>4. rows' \in [Id -> Row \cup {None}] /\ rows'[i] = new
      /\ \A j \in Id \ {i} : rows'[j] = rows[j]
  BY <1>1, <1>2 DEF SetActive, TypeOK, Row
<1>5. \A j \in Id \ {i} : ~RowAt(j, old)
  BY DEF SetActive, TypeOK
<1> HIDE DEF new
<1>6. Keys'
  BY <1>2, <1>4, <1>5 DEF TypeOK, RowAt, Keys
<1>7. \A p \in Path \ {old} : Untouched(p)
  BY <1>2, <1>4 DEF Untouched, RowAt
<1>8. ~active => /\ \A q \in Path : ~Sends(old, q)'
                 /\ \A e : ~HasOutgoing(old, e)'
  BY <1>2, <1>3, <1>4, <1>5 DEF Sends, HasOutgoing, RowAt
<1> QED
  BY <1>1, <1>4, <1>6, <1>7, <1>8

LEMMA ArchiveFacts ==
  ASSUME TypeOK, NEW i \in Id, Archive(i), NEW old, old = rows[i].source
  PROVE  /\ old \in Path
         /\ rows' \in [Id -> Row \cup {None}]
         /\ Keys'
         /\ \A p \in Path \ {old} : Untouched(p)
         /\ \A q \in Path : ~Sends(old, q)'
         /\ \A e : ~HasOutgoing(old, e)'
<1>1. old \in Path
  BY DEF Archive, TypeOK, Row
<1>2. rows' \in [Id -> Row \cup {None}] /\ rows'[i] = None
      /\ \A j \in Id \ {i} : rows'[j] = rows[j]
  BY DEF Archive, TypeOK
<1>3. \A j \in Id \ {i} : ~RowAt(j, old)
  BY DEF Archive, TypeOK
<1> QED
  BY <1>1, <1>2, <1>3 DEF TypeOK, RowAt, Untouched, Sends, HasOutgoing, Keys

LEMMA DisabledFacts ==
  ASSUME TypeOK, NEW t \in Path, rows' = Disabled(t)
  PROVE  /\ rows' \in [Id -> Row \cup {None}]
         /\ Keys'
         /\ \A p \in Path \ {t} : Untouched(p)
         /\ \A q \in Path : ~Sends(t, q)'
         /\ \A e : ~HasOutgoing(t, e)'
<1>1. ASSUME NEW j \in Id, RowAt(j, t)
      PROVE  /\ rows'[j] \in Row /\ rows'[j] # None
             /\ rows'[j].source = t /\ ~rows'[j].active
  <2>1. rows'[j] = [rows[j] EXCEPT !.active = FALSE]
    BY <1>1 DEF Disabled
  <2>2. rows[j] \in Row /\ rows[j].source = t
    BY <1>1 DEF RowAt, TypeOK
  <2> QED
    BY <2>1, <2>2, ConstantsAssumption DEF Row
<1>2. ASSUME NEW j \in Id, ~RowAt(j, t)
      PROVE  rows'[j] = rows[j]
  BY <1>2 DEF Disabled
<1>3. rows' \in [Id -> Row \cup {None}]
  BY <1>1, <1>2 DEF Disabled, TypeOK
<1>4. \A j \in Id, p \in Path : RowAt(j, p)' <=> RowAt(j, p)
  BY <1>1, <1>2 DEF RowAt
<1>5. Keys'
  <2> SUFFICES ASSUME NEW j \in Id, NEW k \in Id, j # k, rows'[j] # None, rows'[k] # None,
                      rows'[k].source = rows'[j].source
               PROVE  FALSE
    BY DEF Keys, RowAt
  <2>1. rows'[j].source \in Path
    BY <1>3 DEF Row
  <2>2. RowAt(j, rows'[j].source) /\ RowAt(k, rows'[j].source)
    BY <1>4, <2>1 DEF RowAt
  <2> QED
    BY <2>2 DEF TypeOK, RowAt
<1>6. \A p \in Path \ {t} : Untouched(p)
  BY <1>2, <1>4 DEF Untouched, RowAt
<1>7. (\A q \in Path : ~Sends(t, q)') /\ \A e : ~HasOutgoing(t, e)'
  BY <1>1, <1>2 DEF Sends, HasOutgoing, RowAt
<1> QED
  BY <1>3, <1>5, <1>6, <1>7

-----------------------------------------------------------------------------
(* What a step does to the handlers, and to met.                            *)

LEMMA BothFacts ==
  ASSUME TypeInv, NEW r \in Request
  PROVE  /\ Both(r) \subseteq Path
         /\ At(r, "idle") => Both(r) = {} /\ req[r].page = None
         /\ ~At(r, "idle") => Both(r) = {req[r].source, req[r].target}
BY ConstantsAssumption DEF TypeInv, TypeOK, InFlightOK, Handler, Idle, At, Both

(* A handler begins, goes on or ends.  A handler that ends is idle. *)
LEMMA BeginFacts ==
  ASSUME TypeInv, NEW r \in Request, NEW h \in Handler, Begin(r, h)
  PROVE  /\ req' \in [Request -> Handler]
         /\ req'[r] = h
         /\ \A q \in Request \ {r} : req'[q] = req[q]
BY DEF Begin, TypeInv, TypeOK

LEMMA FinishFacts ==
  ASSUME TypeInv, NEW r \in Request, Finish(r)
  PROVE  /\ req' \in [Request -> Handler]
         /\ req'[r] = Idle
         /\ \A q \in Request \ {r} : req'[q] = req[q]
<1>1. Idle \in Handler
  BY DEF Idle, Handler
<1> QED
  BY <1>1, BeginFacts DEF Finish

LEMMA GoFacts ==
  ASSUME TypeInv, NEW r \in Request, NEW pc \in {"write", "disable", "upsert"}, Go(r, pc)
  PROVE  /\ req' \in [Request -> Handler]
         /\ req'[r].pc = pc
         /\ req'[r].row = req[r].row /\ req'[r].page = req[r].page
         /\ req'[r].source = req[r].source /\ req'[r].target = req[r].target
         /\ \A q \in Request \ {r} : req'[q] = req[q]
<1> DEFINE h == [req[r] EXCEPT !.pc = pc]
<1>1. h \in Handler /\ h.pc = pc /\ h.row = req[r].row /\ h.page = req[r].page
      /\ h.source = req[r].source /\ h.target = req[r].target
  BY DEF TypeInv, TypeOK, Handler
<1> HIDE DEF h
<1>2. Begin(r, h)
  BY DEF Go, h
<1> QED
  BY <1>1, <1>2, BeginFacts

(* Whoever meets the step is in met after it, addresses and all. *)
LEMMA MeetFacts ==
  ASSUME TypeInv, NEW g, NEW ps \in SUBSET Path, Meet(g, ps)
  PROVE  /\ met \subseteq met' /\ met' \subseteq Path
         /\ \A q \in Request : ~At(q, "idle") /\ Meets(q, g, ps) => Both(q) \cup ps \subseteq met'
<1>1. \A q \in Request : Both(q) \subseteq Path
  BY BothFacts
<1>2. Shared(g, ps) \subseteq Path
  BY <1>1 DEF Shared
<1>3. met \subseteq met' /\ met' \subseteq Path
  BY <1>2 DEF Meet, TypeInv, TypeOK
<1>4. ASSUME NEW q \in Request, ~At(q, "idle"), Meets(q, g, ps)
      PROVE  Both(q) \cup ps \subseteq met'
  <2>1. Both(q) \subseteq Shared(g, ps)
    BY <1>4 DEF Shared
  <2>2. Both(q) # {}
    BY <1>4, BothFacts
  <2> QED
    BY <2>1, <2>2 DEF Meet
<1> QED
  BY <1>3, <1>4

(* The first statements of the handlers. *)
LEMMA BeginWriteFacts ==
  ASSUME TypeInv, NEW r \in Request, NEW i \in Id \cup {None}, NEW s \in Path, NEW t \in Path,
         BeginWrite(r, i, s, t)
  PROVE  /\ req' \in [Request -> Handler]
         /\ req'[r] = [Idle EXCEPT !.pc = "incoming", !.row = i, !.source = s, !.target = t]
         /\ req'[r].pc = "incoming" /\ req'[r].row = i /\ req'[r].page = None
         /\ req'[r].source = s /\ req'[r].target = t
         /\ \A q \in Request \ {r} : req'[q] = req[q]
<1> DEFINE h == [Idle EXCEPT !.pc = "incoming", !.row = i, !.source = s, !.target = t]
<1>1. h \in Handler /\ h.pc = "incoming" /\ h.row = i /\ h.page = None
      /\ h.source = s /\ h.target = t
  BY DEF Idle, Handler
<1>2. Begin(r, h)
  BY DEF BeginWrite
<1> HIDE DEF h
<1>3. req' \in [Request -> Handler] /\ req'[r] = h /\ \A q \in Request \ {r} : req'[q] = req[q]
  BY <1>1, <1>2, BeginFacts
<1> QED
  BY <1>1, <1>3 DEF h

LEMMA BeginWriteFields ==
  ASSUME TypeInv, NEW r \in Request, NEW i \in Id \cup {None}, NEW s \in Path, NEW t \in Path,
         BeginWrite(r, i, s, t)
  PROVE  /\ req' \in [Request -> Handler]
         /\ req'[r].pc = "incoming" /\ req'[r].page = None
         /\ req'[r].source = s /\ req'[r].target = t
         /\ \A q \in Request \ {r} : req'[q] = req[q]
BY BeginWriteFacts

LEMMA BeginRenameFacts ==
  ASSUME TypeInv, NEW r \in Request, NEW g \in Page, NEW p \in Path, BeginRename(r, g, p)
  PROVE  /\ place[g] \in Path /\ place[g] # p
         /\ req' \in [Request -> Handler]
         /\ req'[r].pc = "page" /\ req'[r].row = None /\ req'[r].page = g
         /\ req'[r].source = place[g] /\ req'[r].target = p
         /\ \A q \in Request \ {r} : req'[q] = req[q]
<1> DEFINE h == [Idle EXCEPT !.pc = "page", !.page = g, !.source = place[g], !.target = p]
<1>1. place[g] \in Path /\ place[g] # p
  BY DEF BeginRename, TypeInv, TypeOK
<1>2. h \in Handler /\ h.pc = "page" /\ h.row = None /\ h.page = g
      /\ h.source = place[g] /\ h.target = p
  BY <1>1 DEF Idle, Handler
<1>3. Begin(r, h)
  BY DEF BeginRename
<1> HIDE DEF h
<1>4. req' \in [Request -> Handler] /\ req'[r] = h /\ \A q \in Request \ {r} : req'[q] = req[q]
  BY <1>2, <1>3, BeginFacts
<1> QED
  BY <1>1, <1>2, <1>4

-----------------------------------------------------------------------------
(* Type correctness.                                                        *)

LEMMA InitInv == Init => IInv
<1> SUFFICES ASSUME Init PROVE IInv
  OBVIOUS
<1>1. \A r \in Request : req[r] = Idle
  BY DEF Init
<1>2. TypeInv
  BY <1>1, ConstantsAssumption
     DEF Init, TypeInv, TypeOK, InFlightOK, Handler, Idle, At, RowAt, Renames
<1>3. \A r \in Request : Both(r) = {} /\ req[r].page = None /\ req[r].pc = "idle"
  BY <1>1 DEF Both, Idle
<1> QED
  BY <1>2, <1>3 DEF IInv, Apart, Clear, Renaming, At

(* The table. *)
LEMMA RowsType ==
  ASSUME TypeInv, [Next]_vars
  PROVE  rows' \in [Id -> Row \cup {None}] /\ Keys'
<1>0. CASE UNCHANGED rows
  BY <1>0 DEF TypeInv, TypeOK, Keys, RowAt
<1>1. ASSUME NEW r \in Request, NEW i \in Id, Create(r, i) \/ LeaveSource(r, i)
      PROVE  rows' \in [Id -> Row \cup {None}] /\ Keys'
  <2>1. req[r].source \in Path /\ req[r].target \in Path
    BY <1>1 DEF Create, LeaveSource, At, TypeInv, InFlightOK
  <2>2. Leaves(i, req[r].source, req[r].target)
    BY <1>1 DEF Create, LeaveSource
  <2> QED
    BY <2>1, <2>2, LeavesFacts DEF TypeInv
<1>2. ASSUME NEW r \in Request, Update(r)
      PROVE  rows' \in [Id -> Row \cup {None}] /\ Keys'
  BY <1>2, UpdateFacts
<1>3. ASSUME NEW i \in Id, NEW active \in BOOLEAN, SetActive(i, active)
      PROVE  rows' \in [Id -> Row \cup {None}] /\ Keys'
  BY <1>3, SetActiveFacts DEF TypeInv
<1>4. ASSUME NEW i \in Id, Archive(i)
      PROVE  rows' \in [Id -> Row \cup {None}] /\ Keys'
  BY <1>4, ArchiveFacts DEF TypeInv
<1>5. ASSUME NEW r \in Request, FreeTarget(r)
      PROVE  rows' \in [Id -> Row \cup {None}] /\ Keys'
  <2>1. req[r].target \in Path
    BY <1>5 DEF FreeTarget, At, TypeInv, InFlightOK
  <2> QED
    BY <1>5, <2>1, DisabledFacts DEF FreeTarget, TypeInv
<1>6. CASE UNCHANGED vars
  BY <1>0, <1>6 DEF vars, store
<1>7. CASE Next
  BY <1>0, <1>1, <1>2, <1>3, <1>4, <1>5, <1>7
     DEF Next, BeginWrite, AskIncoming, Refuse, Publish, BeginRename, MovePage, Drop, store
<1> QED
  BY <1>6, <1>7

(* The handlers. *)
HandlersOK == req \in [Request -> Handler] /\ InFlightOK

LEMMA FinishType ==
  ASSUME TypeInv, NEW r \in Request, Finish(r)
  PROVE  HandlersOK'
<1>1. /\ req' \in [Request -> Handler]
      /\ req'[r] = Idle
      /\ \A q \in Request \ {r} : req'[q] = req[q]
  BY FinishFacts
<1> QED
  BY <1>1 DEF TypeInv, InFlightOK, HandlersOK, Renames, At, Idle

LEMMA GoType ==
  ASSUME TypeInv, NEW r \in Request, NEW pc \in {"write", "disable", "upsert"}, Go(r, pc),
         ~At(r, "idle"), pc \in Renames => req[r].pc \in Renames
  PROVE  HandlersOK'
<1>1. /\ req' \in [Request -> Handler]
      /\ req'[r].pc = pc
      /\ req'[r].row = req[r].row /\ req'[r].page = req[r].page
      /\ req'[r].source = req[r].source /\ req'[r].target = req[r].target
      /\ \A q \in Request \ {r} : req'[q] = req[q]
  BY GoFacts
<1> QED
  BY <1>1 DEF TypeInv, InFlightOK, HandlersOK, Renames, At

LEMMA HandlersType ==
  ASSUME TypeInv, [Next]_vars
  PROVE  HandlersOK'
<1>0. CASE UNCHANGED req
  BY <1>0 DEF TypeInv, TypeOK, InFlightOK, HandlersOK, At
<1>1. ASSUME NEW r \in Request, Finish(r)
      PROVE  HandlersOK'
  BY <1>1, FinishType
<1>2. ASSUME NEW r \in Request, NEW i \in Id \cup {None}, NEW s \in Path, NEW t \in Path,
             BeginWrite(r, i, s, t)
      PROVE  HandlersOK'
  <2>1. /\ req' \in [Request -> Handler]
        /\ req'[r].pc = "incoming" /\ req'[r].source = s /\ req'[r].target = t /\ s # t
        /\ \A q \in Request \ {r} : req'[q] = req[q]
    BY <1>2, BeginWriteFields DEF BeginWrite
  <2> QED
    BY <2>1 DEF TypeInv, InFlightOK, HandlersOK, Renames, At
<1>3. ASSUME NEW r \in Request, NEW g \in Page, NEW p \in Path, BeginRename(r, g, p)
      PROVE  HandlersOK'
  BY <1>3, BeginRenameFacts DEF TypeInv, InFlightOK, HandlersOK, Renames, At
<1>4. ASSUME NEW r \in Request, AskIncoming(r)
      PROVE  HandlersOK'
  BY <1>1, <1>4, GoType DEF AskIncoming, At, Renames
<1>5. ASSUME NEW r \in Request, MovePage(r)
      PROVE  HandlersOK'
  BY <1>1, <1>5, GoType DEF MovePage, At, Renames
<1>6. ASSUME NEW r \in Request, FreeTarget(r)
      PROVE  HandlersOK'
  BY <1>6, GoType DEF FreeTarget, At, Renames
<1>7. CASE UNCHANGED vars
  BY <1>0, <1>7 DEF vars
<1>8. CASE Next
  BY <1>0, <1>1, <1>2, <1>3, <1>4, <1>5, <1>6, <1>8
     DEF Next, Create, Update, Refuse, SetActive, Archive, Publish, LeaveSource, Drop
<1> QED
  BY <1>7, <1>8

(* The pages and the history. *)
PlacesOK ==
  /\ place \in [Page -> Path \cup {None}]
  /\ \A g, h \in Page : g # h /\ place[g] # None => place[g] # place[h]
  /\ known \subseteq Path /\ switched \subseteq Path /\ moot \subseteq Path /\ work \in Nat
  /\ met \subseteq Path

LEMMA PlacesType ==
  ASSUME TypeInv, [Next]_vars
  PROVE  PlacesOK'
<1> USE DEF PlacesOK
<1>0. PlacesOK
  BY DEF TypeInv, TypeOK
<1>1. ASSUME NEW g, NEW ps \in SUBSET Path, Meet(g, ps)
      PROVE  met' \subseteq Path
  BY <1>1, MeetFacts
<1>2. ASSUME NEW r \in Request, NEW i \in Id \cup {None}, NEW s \in Path, NEW t \in Path,
             BeginWrite(r, i, s, t)
      PROVE  PlacesOK'
  BY <1>0, <1>1, <1>2 DEF BeginWrite, store, Work
<1>3. ASSUME NEW r \in Request, NEW g \in Page, NEW p \in Path, BeginRename(r, g, p)
      PROVE  PlacesOK'
  <2>1. {place[g], p} \in SUBSET Path
    BY <1>3, BeginRenameFacts
  <2> QED
    BY <1>0, <1>1, <1>3, <2>1 DEF BeginRename, store, Work
<1>4. ASSUME NEW g \in Page, NEW p \in Path, Publish(g, p)
      PROVE  PlacesOK'
  BY <1>0, <1>1, <1>4 DEF Publish, Work
<1>5. ASSUME NEW r \in Request, MovePage(r)
      PROVE  PlacesOK'
  <2>1. req[r].page \in Page /\ req[r].target \in Path
    BY <1>5 DEF MovePage, At, TypeInv, InFlightOK, Renames
  <2> QED
    BY <1>0, <1>5, <2>1 DEF MovePage
<1>6. ASSUME NEW i \in Id, NEW active \in BOOLEAN, SetActive(i, active) \/ Archive(i)
      PROVE  PlacesOK'
  <2>1. rows[i].source \in Path
    BY <1>6, SetActiveFacts, ArchiveFacts DEF TypeInv
  <2> QED
    BY <1>0, <1>6, <2>1 DEF SetActive, Archive, Work
<1>7. ASSUME NEW r \in Request, NEW i \in Id, Create(r, i)
      PROVE  PlacesOK'
  BY <1>0, <1>7 DEF Create, TypeInv, InFlightOK, At
<1>8. ASSUME NEW r \in Request, Update(r)
      PROVE  PlacesOK'
  <2>1. req[r].source \in Path /\ rows[req[r].row].source \in Path
    BY <1>8, UpdateFacts
  <2> QED
    BY <1>0, <1>8, <2>1 DEF Update
<1>9. ASSUME NEW r \in Request, Drop(r)
      PROVE  PlacesOK'
  <2>1. Both(r) \subseteq Path
    BY BothFacts
  <2> QED
    BY <1>0, <1>9, <2>1 DEF Drop, store
<1>10. CASE UNCHANGED <<place, history>>
  BY <1>0, <1>10 DEF history
<1>11. CASE UNCHANGED vars
  BY <1>10, <1>11 DEF vars, store
<1>12. CASE Next
  BY <1>2, <1>3, <1>4, <1>5, <1>6, <1>7, <1>8, <1>9, <1>10, <1>12
     DEF Next, AskIncoming, Refuse, FreeTarget, LeaveSource, store
<1> QED
  BY <1>11, <1>12

LEMMA TypeStep == TypeInv /\ [Next]_vars => TypeInv'
<1> SUFFICES ASSUME TypeInv, [Next]_vars PROVE TypeInv'
  OBVIOUS
<1>1. rows' \in [Id -> Row \cup {None}] /\ Keys'
  BY RowsType
<1>2. HandlersOK'
  BY HandlersType
<1>3. PlacesOK'
  BY PlacesType
<1> QED
  BY <1>1, <1>2, <1>3 DEF TypeInv, TypeOK, Keys, HandlersOK, PlacesOK

(* TypeOK holds in every reachable state: one redirect for an address, one  *)
(* page at an address, whatever handlers overlap or stop. *)
THEOREM TypeCorrect == Spec => []TypeOK
<1>1. Init => TypeInv
  BY InitInv DEF IInv
<1>2. TypeInv => TypeOK
  BY DEF TypeInv
<1> QED
  BY <1>1, <1>2, TypeStep, PTL DEF Spec

-----------------------------------------------------------------------------
(* Handlers with an address or a page in common have met.                   *)

LEMMA MetGrows ==
  ASSUME TypeInv, [Next]_vars
  PROVE  met \subseteq met' /\ switched \subseteq switched' /\ known \subseteq known'
<1>1. ASSUME NEW g, NEW ps, Meet(g, ps)
      PROVE  met \subseteq met'
  BY <1>1 DEF Meet
<1>2. CASE UNCHANGED vars
  BY <1>2 DEF vars, history
<1>3. CASE Next
  BY <1>1, <1>3
     DEF Next, BeginWrite, AskIncoming, Create, Update, Refuse, SetActive, Archive, Publish,
         BeginRename, MovePage, FreeTarget, LeaveSource, Drop, history
<1> QED
  BY <1>2, <1>3

LEMMA ApartKept ==
  ASSUME Apart, met \subseteq met',
         \A q \in Request : (Both(q)' = Both(q) /\ req'[q].page = req[q].page)
                           \/ (Both(q)' = {} /\ req'[q].page = None)
  PROVE  Apart'
<1> SUFFICES ASSUME NEW q \in Request, NEW r \in Request, q # r,
                    \/ Both(q)' \cap Both(r)' # {}
                    \/ req'[q].page # None /\ req'[q].page = req'[r].page
             PROVE  Both(q)' \cup Both(r)' \subseteq met'
  BY DEF Apart
<1>1. Both(q) \cap Both(r) # {} \/ (req[q].page # None /\ req[q].page = req[r].page)
  OBVIOUS
<1>2. Both(q) \cup Both(r) \subseteq met
  BY <1>1 DEF Apart
<1> QED
  BY <1>2

LEMMA ApartBegun ==
  ASSUME TypeInv, Apart, NEW r \in Request, At(r, "idle"), NEW g, NEW ps \in SUBSET Path,
         Meet(g, ps), Both(r)' = ps, req'[r].page = g,
         \A q \in Request \ {r} : req'[q] = req[q]
  PROVE  Apart'
<1>1. \A q \in Request \ {r} : Both(q)' = Both(q) /\ req'[q].page = req[q].page
  BY DEF Both
<1>2. ASSUME NEW q \in Request \ {r},
             Both(q) \cap ps # {} \/ (g # None /\ req[q].page = g)
      PROVE  Both(q) \cup ps \subseteq met'
  <2>1. ~At(q, "idle")
    BY <1>2, BothFacts
  <2>2. Meets(q, g, ps)
    BY <1>2 DEF Meets
  <2> QED
    BY <2>1, <2>2, MeetFacts
<1>3. met \subseteq met'
  BY MeetFacts
<1> QED
  BY <1>1, <1>2, <1>3 DEF Apart

LEMMA ApartStep == TypeInv /\ Apart /\ [Next]_vars => Apart'
<1> SUFFICES ASSUME TypeInv, Apart, [Next]_vars PROVE Apart'
  OBVIOUS
<1>0. met \subseteq met'
  BY MetGrows
<1>1. CASE UNCHANGED req
  BY <1>0, <1>1, ApartKept DEF Both
<1>2. ASSUME NEW r \in Request, Finish(r)
      PROVE  Apart'
  <2>1. req'[r] = Idle /\ \A q \in Request \ {r} : req'[q] = req[q]
    BY <1>2, FinishFacts
  <2>2. Both(r)' = {} /\ req'[r].page = None
    BY <2>1 DEF Both, Idle
  <2>3. \A q \in Request \ {r} : Both(q)' = Both(q) /\ req'[q].page = req[q].page
    BY <2>1 DEF Both
  <2> QED
    BY <1>0, <2>2, <2>3, ApartKept
<1>3. ASSUME NEW r \in Request, NEW pc \in {"write", "disable", "upsert"}, Go(r, pc)
      PROVE  Apart'
  <2>1. \A q \in Request : req'[q].page = req[q].page /\ req'[q].source = req[q].source
                           /\ req'[q].target = req[q].target
    BY <1>3, GoFacts
  <2>2. \A q \in Request : Both(q)' = Both(q)
    BY <2>1 DEF Both
  <2> QED
    BY <1>0, <2>1, <2>2, ApartKept
<1>4. ASSUME NEW r \in Request, NEW i \in Id \cup {None}, NEW s \in Path, NEW t \in Path,
             BeginWrite(r, i, s, t)
      PROVE  Apart'
  <2>1. /\ req'[r].page = None /\ req'[r].source = s /\ req'[r].target = t
        /\ \A q \in Request \ {r} : req'[q] = req[q]
    BY <1>4, BeginWriteFields
  <2>a. None \notin {s, t}
    BY ConstantsAssumption
  <2>b. Both(r)' = {s, t} \ {None}
    BY <2>1 DEF Both
  <2>2. Both(r)' = {s, t}
    BY <2>a, <2>b
  <2>3. At(r, "idle") /\ Meet(None, {s, t}) /\ {s, t} \in SUBSET Path
    BY <1>4 DEF BeginWrite
  <2> QED
    BY <2>1, <2>2, <2>3, ApartBegun
<1>5. ASSUME NEW r \in Request, NEW g \in Page, NEW p \in Path, BeginRename(r, g, p)
      PROVE  Apart'
  <2>1. /\ req'[r].page = g /\ req'[r].source = place[g] /\ req'[r].target = p
        /\ place[g] \in Path
        /\ \A q \in Request \ {r} : req'[q] = req[q]
    BY <1>5, BeginRenameFacts
  <2>2. Both(r)' = {place[g], p}
    BY <2>1, ConstantsAssumption DEF Both
  <2>3. At(r, "idle") /\ Meet(g, {place[g], p}) /\ {place[g], p} \in SUBSET Path
    BY <1>5, <2>1 DEF BeginRename
  <2> QED
    BY <2>1, <2>2, <2>3, ApartBegun
<1>6. CASE UNCHANGED vars
  BY <1>1, <1>6 DEF vars
<1>7. CASE Next
  BY <1>1, <1>2, <1>3, <1>4, <1>5, <1>7
     DEF Next, AskIncoming, Create, Update, Refuse, SetActive, Archive, Publish, MovePage,
         FreeTarget, LeaveSource, Drop
<1> QED
  BY <1>6, <1>7

-----------------------------------------------------------------------------
(* Nothing leads away from the target of a handler about to write.          *)

ClearAt(r) ==
  req[r].pc \in {"incoming", "write", "upsert"} /\ req[r].target \notin Raced
    => ~HasOutgoing(req[r].target, req[r].row)

(* New redirects appear at the addresses S only. *)
LEMMA ClearKept ==
  ASSUME TypeInv, Clear, [Next]_vars,
         NEW S, \A p \in Path \ S : \A e : HasOutgoing(p, e)' => HasOutgoing(p, e),
         NEW q \in Request, req'[q] = req[q],
         ~At(q, "idle") /\ req[q].target \in S => req[q].target \in Raced'
  PROVE  ClearAt(q)'
<1> SUFFICES ASSUME req[q].pc \in {"incoming", "write", "upsert"}, req[q].target \notin Raced',
                    HasOutgoing(req[q].target, req[q].row)'
             PROVE  FALSE
  BY DEF ClearAt
<1> DEFINE t == req[q].target
           e == req[q].row
<1>1. t \in Path /\ t \notin S /\ t \notin Raced
  BY MetGrows DEF At, TypeInv, InFlightOK, Raced
<1>2. ASSUME NEW u, NEW d, u = req'[q].target, d = req'[q].row
      PROVE  HasOutgoing(u, d)'
  BY <1>2 DEF HasOutgoing
<1>3. HasOutgoing(t, e)
  <2>1. PICK u, d : u = t /\ d = e
    OBVIOUS
  <2>2. HasOutgoing(u, d)'
    BY <1>2, <2>1
  <2> QED
    BY <1>1, <2>1, <2>2
<1> QED
  BY <1>1, <1>3 DEF Clear

LEMMA ClearStep == TypeInv /\ Apart /\ Clear /\ [Next]_vars => Clear'
<1> SUFFICES ASSUME TypeInv, Apart, Clear, [Next]_vars, NEW q \in Request
             PROVE  ClearAt(q)'
  BY DEF Clear, ClearAt
<1>0. CASE req'[q].pc \notin {"incoming", "write", "upsert"}
  BY <1>0 DEF ClearAt
<1>1. CASE UNCHANGED rows /\ req'[q] = req[q]
  <2>1. \A p \in Path : \A e : HasOutgoing(p, e)' => HasOutgoing(p, e)
    BY <1>1, NothingTouched, UntouchedFacts
  <2> QED
    BY <1>1, <2>1, ClearKept
<1>2. ASSUME NEW r \in Request, NEW pc, UNCHANGED rows, q # r, Go(r, pc) \/ Finish(r)
      PROVE  ClearAt(q)'
  <2>1. req'[q] = req[q]
    BY <1>2 DEF Go, Finish, Begin, TypeInv, TypeOK
  <2> QED
    BY <1>1, <1>2, <2>1
<1>3. ASSUME NEW r \in Request, Finish(r), q = r
      PROVE  ClearAt(q)'
  BY <1>0, <1>3, FinishFacts DEF Idle
<1>4. ASSUME NEW r \in Request, Finish(r), q # r, NEW s, s = req[r].source, ~At(r, "idle"),
             \A p \in Path \ {s} : \A e : HasOutgoing(p, e)' => HasOutgoing(p, e)
      PROVE  ClearAt(q)'
  <2>1. req'[q] = req[q]
    BY <1>4, FinishFacts
  <2>2. ASSUME ~At(q, "idle"), req[q].target \in {s}
        PROVE  req[q].target \in Raced'
    <3>1. req[q].target \in Both(q) \cap Both(r)
      BY <1>4, <2>2, BothFacts
    <3>2. req[q].target \in met
      BY <1>4, <3>1 DEF Apart
    <3> QED
      BY <3>2, MetGrows DEF Raced
  <2> QED
    BY <1>4, <2>1, <2>2, ClearKept
<1>5. ASSUME NEW r \in Request, NEW i \in Id, Create(r, i) \/ LeaveSource(r, i)
      PROVE  ClearAt(q)'
  <2>1. ~At(r, "idle") /\ Finish(r) /\ Leaves(i, req[r].source, req[r].target)
    BY <1>5 DEF Create, LeaveSource, At
  <2>2. req[r].source \in Path /\ req[r].target \in Path
    BY <2>1 DEF TypeInv, InFlightOK
  <2>3. \A p \in Path \ {req[r].source} : \A e : HasOutgoing(p, e)' => HasOutgoing(p, e)
    BY <2>1, <2>2, LeavesFacts, UntouchedFacts DEF TypeInv
  <2> QED
    BY <1>3, <1>4, <2>1, <2>3
<1>6. ASSUME NEW r \in Request, Update(r)
      PROVE  ClearAt(q)'
  <2>1. ~At(r, "idle") /\ Finish(r)
    BY <1>6 DEF Update, At
  <2>2. \A p \in Path \ {req[r].source} : \A e : HasOutgoing(p, e)' => HasOutgoing(p, e)
    BY <1>6, UpdateFacts
  <2> QED
    BY <1>3, <1>4, <2>1, <2>2
<1>7. ASSUME NEW i \in Id, NEW active \in BOOLEAN, SetActive(i, active)
      PROVE  ClearAt(q)'
  <2> DEFINE old == rows[i].source
  <2>1. req' = req /\ (active => switched' = switched \cup {old})
    BY <1>7 DEF SetActive
  <2>2. \A p \in Path \ {old} : \A e : HasOutgoing(p, e)' => HasOutgoing(p, e)
    BY <1>7, SetActiveFacts, UntouchedFacts DEF TypeInv
  <2>3. CASE active
    BY <2>1, <2>2, <2>3, ClearKept DEF Raced
  <2>4. CASE ~active
    <3>1. ASSUME NEW p, p = old, NEW e
          PROVE  ~HasOutgoing(p, e)'
      BY <1>7, <2>4, <3>1, SetActiveFacts DEF TypeInv
    <3>2. \A p \in Path \ {} : \A e : HasOutgoing(p, e)' => HasOutgoing(p, e)
      BY <2>2, <3>1
    <3> QED
      BY <2>1, <3>2, ClearKept
  <2> QED
    BY <2>3, <2>4
<1>8. ASSUME NEW i \in Id, Archive(i)
      PROVE  ClearAt(q)'
  <2> DEFINE old == rows[i].source
  <2>1. req' = req
    BY <1>8 DEF Archive
  <2>2. \A p \in Path \ {old} : \A e : HasOutgoing(p, e)' => HasOutgoing(p, e)
    BY <1>8, ArchiveFacts, UntouchedFacts DEF TypeInv
  <2>3. ASSUME NEW p, p = old, NEW e
        PROVE  ~HasOutgoing(p, e)'
    BY <1>8, <2>3, ArchiveFacts DEF TypeInv
  <2>4. \A p \in Path \ {} : \A e : HasOutgoing(p, e)' => HasOutgoing(p, e)
    BY <2>2, <2>3
  <2> QED
    BY <2>1, <2>4, ClearKept
<1>9. ASSUME NEW r \in Request, FreeTarget(r)
      PROVE  ClearAt(q)'
  <2>1. PICK t \in Path : t = req[r].target
    BY <1>9 DEF FreeTarget, At, TypeInv, InFlightOK
  <2>2. Go(r, "upsert") /\ rows' = Disabled(t)
    BY <1>9, <2>1 DEF FreeTarget
  <2>3. \A e : ~HasOutgoing(t, e)'
    BY <2>2, DisabledFacts DEF TypeInv
  <2>4. \A p \in Path \ {} : \A e : HasOutgoing(p, e)' => HasOutgoing(p, e)
    BY <2>2, <2>3, DisabledFacts, UntouchedFacts DEF TypeInv
  <2>5. req'[r].target = t /\ \A h \in Request \ {r} : req'[h] = req[h]
    BY <2>1, <2>2, GoFacts
  <2>6. CASE q = r
    BY <2>3, <2>5, <2>6 DEF ClearAt, HasOutgoing
  <2>7. CASE q # r
    BY <2>4, <2>5, <2>7, ClearKept
  <2> QED
    BY <2>6, <2>7
<1>10. ASSUME NEW r \in Request, NEW i \in Id \cup {None}, NEW s \in Path, NEW t \in Path,
              BeginWrite(r, i, s, t)
      PROVE  ClearAt(q)'
  <2>1. /\ req'[r].target = t /\ req'[r].row = i
        /\ \A h \in Request \ {r} : req'[h] = req[h]
    BY <1>10, BeginWriteFacts
  <2>2. UNCHANGED rows /\ ~HasOutgoing(t, i)
    BY <1>10 DEF BeginWrite, store
  <2>3. CASE q = r
    BY <2>1, <2>2, <2>3 DEF ClearAt, HasOutgoing, RowAt
  <2> QED
    BY <1>1, <2>1, <2>2, <2>3
<1>11. ASSUME NEW r \in Request, NEW g \in Page, NEW p \in Path, BeginRename(r, g, p)
      PROVE  ClearAt(q)'
  <2>1. req'[r].pc = "page" /\ \A h \in Request \ {r} : req'[h] = req[h]
    BY <1>11, BeginRenameFacts
  <2>2. UNCHANGED rows
    BY <1>11 DEF BeginRename, store
  <2> QED
    BY <1>0, <1>1, <2>1, <2>2
<1>12. ASSUME NEW r \in Request, AskIncoming(r)
      PROVE  ClearAt(q)'
  <2>1. UNCHANGED rows /\ (Go(r, "write") \/ Finish(r))
    BY <1>12 DEF AskIncoming, store
  <2>2. CASE q = r /\ Go(r, "write")
    <3>1. req'[r].target = req[r].target /\ req'[r].row = req[r].row
      BY <2>2, GoFacts
    <3>2. req[r].target \notin Raced => ~HasOutgoing(req[r].target, req[r].row)
      BY <1>12 DEF AskIncoming, At, Clear
    <3> QED
      BY <2>1, <2>2, <3>1, <3>2, MetGrows DEF ClearAt, HasOutgoing, RowAt, Raced
  <2> QED
    BY <1>2, <1>3, <2>1, <2>2
<1>13. ASSUME NEW r \in Request, MovePage(r)
      PROVE  ClearAt(q)'
  <2>1. UNCHANGED rows /\ (Go(r, "disable") \/ Finish(r))
    BY <1>13 DEF MovePage
  <2>2. CASE q = r /\ Go(r, "disable")
    BY <1>0, <2>2, GoFacts
  <2> QED
    BY <1>2, <1>3, <2>1, <2>2
<1>14. ASSUME NEW r \in Request, Refuse(r) \/ Drop(r)
      PROVE  ClearAt(q)'
  BY <1>2, <1>3, <1>14 DEF Refuse, Drop, store
<1>15. CASE UNCHANGED vars
  BY <1>1, <1>15 DEF vars, store
<1>16. CASE Next
  BY <1>1, <1>5, <1>6, <1>7, <1>8, <1>9, <1>10, <1>11, <1>12, <1>13, <1>14, <1>16 DEF Next, Publish
<1> QED
  BY <1>15, <1>16

-----------------------------------------------------------------------------
(* Where the page of a rename is.                                           *)

RenamingAt(r) ==
  /\ At(r, "page") => \/ place[req[r].page] = req[r].source
                      \/ {place[req[r].page], req[r].source} \subseteq met
  /\ req[r].pc \in {"disable", "upsert"} =>
       /\ req[r].target \in known
       /\ place[req[r].page] = req[r].target \/ req[r].target \in met
       /\ (\A g \in Page : place[g] # req[r].source) \/ req[r].source \in met

(* The handlers a step does not move. *)
LEMMA RenamingStill ==
  ASSUME TypeInv, Apart, Renaming, [Next]_vars, NEW q \in Request, req'[q] = req[q]
  PROVE  RenamingAt(q)'
<1>0. RenamingAt(q) /\ met \subseteq met' /\ known \subseteq known'
  BY MetGrows DEF Renaming, RenamingAt
<1>1. CASE req[q].pc \notin Renames
  BY <1>1 DEF RenamingAt, At, Renames
<1>2. CASE UNCHANGED place
  BY <1>0, <1>2 DEF RenamingAt, At
<1>3. ASSUME req[q].pc \in Renames, NEW g \in Page, NEW p \in Path, Publish(g, p)
      PROVE  RenamingAt(q)'
  <2>1. /\ ~At(q, "idle") /\ req[q].page \in Page
        /\ req[q].source \in Path /\ req[q].target \in Path
    BY <1>3 DEF Renames, At, TypeInv, InFlightOK
  <2>2. place' = [place EXCEPT ![g] = p] /\ place[g] = None /\ Meet(g, {p})
    BY <1>3 DEF Publish
  <2>3. \A h \in Page : place'[h] = IF h = g THEN p ELSE place[h]
    BY <2>2 DEF TypeInv, TypeOK
  <2>4. place[req[q].page] \in Path => place'[req[q].page] = place[req[q].page]
    BY <2>1, <2>2, <2>3, ConstantsAssumption
  <2>5. met \subseteq Path
    BY DEF TypeInv, TypeOK
  <2>6. req[q].source = p => req[q].source \in met'
    BY <2>1, <2>2, BothFacts, MeetFacts DEF Meets
  <2>7. At(q, "page") => place[req[q].page] \in Path
    BY <1>0, <2>1, <2>5 DEF RenamingAt
  <2>8. CASE At(q, "page")
    BY <1>0, <1>3, <2>4, <2>7, <2>8 DEF RenamingAt, At
  <2>9. CASE ~At(q, "page")
    BY <1>0, <1>3, <2>1, <2>3, <2>4, <2>6, <2>9 DEF RenamingAt, At
  <2> QED
    BY <2>8, <2>9
<1>4. ASSUME req[q].pc \in Renames, NEW r \in Request, MovePage(r)
      PROVE  RenamingAt(q)'
  <2>1. CASE UNCHANGED place
    BY <1>2, <2>1
  <2>2. CASE Go(r, "disable") /\ place' = [place EXCEPT ![req[r].page] = req[r].target]
    <3>1. /\ ~At(q, "idle") /\ req[q].page \in Page
          /\ req[q].source \in Path /\ req[q].target \in Path
          /\ ~At(r, "idle") /\ req[r].page \in Page /\ req[r].page # None
      BY <1>4, ConstantsAssumption DEF MovePage, Renames, At, TypeInv, InFlightOK
    <3>2. req[r].pc = "page" /\ req'[r].pc = "disable"
      BY <1>4, <2>2, GoFacts DEF MovePage, At
    <3>3. q # r
      BY <3>2
    <3>4. \A h \in Page : place'[h] = IF h = req[r].page THEN req[r].target ELSE place[h]
      BY <2>2 DEF TypeInv, TypeOK
    <3>5. req[q].page = req[r].page => {req[r].target, req[q].source, req[q].target} \subseteq met
      BY <3>1, <3>3, BothFacts DEF Apart
    <3>6. req[q].source = req[r].target => req[q].source \in met
      BY <3>1, <3>3, BothFacts DEF Apart
    <3>7. CASE At(q, "page")
      BY <1>0, <1>4, <3>1, <3>4, <3>5, <3>7 DEF RenamingAt, At
    <3>8. CASE ~At(q, "page")
      BY <1>0, <1>4, <3>1, <3>4, <3>5, <3>6, <3>8 DEF RenamingAt, At
    <3> QED
      BY <3>7, <3>8
  <2> QED
    BY <1>4, <2>1, <2>2 DEF MovePage
<1>5. CASE UNCHANGED vars
  BY <1>2, <1>5 DEF vars, store
<1>6. CASE Next
  BY <1>1, <1>2, <1>3, <1>4, <1>6
     DEF Next, BeginWrite, AskIncoming, Create, Update, Refuse, SetActive, Archive, BeginRename,
         FreeTarget, LeaveSource, Drop, store
<1> QED
  BY <1>5, <1>6

LEMMA RenamingStep == TypeInv /\ Apart /\ Renaming /\ [Next]_vars => Renaming'
<1> SUFFICES ASSUME TypeInv, Apart, Renaming, [Next]_vars, NEW q \in Request
             PROVE  RenamingAt(q)'
  BY DEF Renaming, RenamingAt
<1>0. met \subseteq met' /\ known \subseteq known'
  BY MetGrows
<1>1. CASE req'[q] = req[q]
  BY <1>1, RenamingStill
<1>2. CASE req'[q].pc \notin Renames
  BY <1>2 DEF RenamingAt, Renames, At
<1>3. ASSUME NEW r \in Request, Finish(r)
      PROVE  RenamingAt(q)'
  BY <1>1, <1>2, <1>3, FinishFacts DEF Idle, Renames
<1>4. ASSUME NEW r \in Request, NEW i \in Id \cup {None}, NEW s \in Path, NEW t \in Path,
             BeginWrite(r, i, s, t)
      PROVE  RenamingAt(q)'
  <2>1. req'[r].pc = "incoming" /\ \A h \in Request \ {r} : req'[h] = req[h]
    BY <1>4, BeginWriteFields
  <2> QED
    BY <1>1, <1>2, <2>1 DEF Renames
<1>5. ASSUME NEW r \in Request, NEW g \in Page, NEW p \in Path, BeginRename(r, g, p)
      PROVE  RenamingAt(q)'
  <2>1. /\ req'[r].pc = "page" /\ req'[r].page = g /\ req'[r].source = place[g]
        /\ \A h \in Request \ {r} : req'[h] = req[h]
    BY <1>5, BeginRenameFacts
  <2>2. place' = place
    BY <1>5 DEF BeginRename, store
  <2>3. CASE q = r
    BY <2>1, <2>2, <2>3 DEF RenamingAt, At
  <2> QED
    BY <1>1, <2>1, <2>3
<1>6. ASSUME NEW r \in Request, AskIncoming(r)
      PROVE  RenamingAt(q)'
  <2>1. CASE Go(r, "write")
    BY <1>1, <1>2, <2>1, GoFacts DEF Renames
  <2> QED
    BY <1>3, <1>6, <2>1 DEF AskIncoming
<1>7. ASSUME NEW r \in Request, MovePage(r)
      PROVE  RenamingAt(q)'
  <2>1. CASE /\ Go(r, "disable") /\ q = r /\ known' = known \cup {req[r].target}
             /\ place' = [place EXCEPT ![req[r].page] = req[r].target]
    <3>1. /\ req[r].page \in Page /\ req[r].source \in Path /\ req[r].source # req[r].target
          /\ At(r, "page")
      BY <1>7 DEF MovePage, At, TypeInv, InFlightOK, Renames
    <3>2. \A h \in Page : place'[h] = IF h = req[r].page THEN req[r].target ELSE place[h]
      BY <2>1 DEF TypeInv, TypeOK
    <3>3. (\A h \in Page : place'[h] # req[r].source) \/ req[r].source \in met
      <4>1. CASE place[req[r].page] = req[r].source
        <5>1. \A h \in Page \ {req[r].page} : place[h] # req[r].source
          BY <3>1, <4>1, ConstantsAssumption DEF TypeInv, TypeOK
        <5> QED
          BY <3>1, <3>2, <5>1
      <4> QED
        BY <3>1, <4>1 DEF Renaming
    <3>4. /\ req'[r].pc = "disable" /\ req'[r].page = req[r].page
          /\ req'[r].source = req[r].source /\ req'[r].target = req[r].target
      BY <2>1, GoFacts
    <3> QED
      BY <1>0, <2>1, <3>1, <3>2, <3>3, <3>4 DEF RenamingAt, At
  <2>2. CASE Go(r, "disable") /\ q # r
    BY <1>1, <2>2, GoFacts
  <2> QED
    BY <1>3, <1>7, <2>1, <2>2 DEF MovePage
<1>8. ASSUME NEW r \in Request, FreeTarget(r)
      PROVE  RenamingAt(q)'
  <2>1. Go(r, "upsert") /\ At(r, "disable") /\ place' = place
    BY <1>8 DEF FreeTarget
  <2>2. CASE q = r
    <3>1. /\ req'[r].pc = "upsert" /\ req'[r].page = req[r].page
          /\ req'[r].source = req[r].source /\ req'[r].target = req[r].target
      BY <2>1, GoFacts
    <3> QED
      BY <1>0, <2>1, <2>2, <3>1 DEF RenamingAt, Renaming, At
  <2>3. CASE q # r
    BY <1>1, <2>1, <2>3, GoFacts
  <2> QED
    BY <2>2, <2>3
<1>9. CASE UNCHANGED vars
  BY <1>1, <1>9 DEF vars
<1>10. CASE Next
  BY <1>1, <1>3, <1>4, <1>5, <1>6, <1>7, <1>8, <1>10
     DEF Next, Create, Update, Refuse, SetActive, Archive, Publish, LeaveSource, Drop
<1> QED
  BY <1>9, <1>10

LEMMA InvStep == IInv /\ [Next]_vars => IInv'
BY TypeStep, ApartStep, ClearStep, RenamingStep DEF IInv

LEMMA Inductive == Spec => []IInv
BY InitInv, InvStep, PTL DEF Spec

-----------------------------------------------------------------------------
(* Loops.                                                                   *)

(* A step that changes nothing but where s leads, and either s may be in a  *)
(* loop, or s ends up at an address that leads nowhere. *)
LEMMA NoNewLoop ==
  ASSUME LoopsAreEnabledOrRaced, Raced \subseteq Raced', NEW s,
         \A p \in Path \ {s}, q \in Path : Sends(p, q)' => Sends(p, q),
         \/ s \in Raced'
         \/ \A q \in Path : Sends(s, q)' => q \in Raced' \/ \A u \in Path : ~Sends(q, u)'
  PROVE  LoopsAreEnabledOrRaced'
<1> SUFFICES ASSUME NEW ps \in SUBSET Path, Loop(ps)', ps \cap Raced' = {}
             PROVE  FALSE
  BY DEF LoopsAreEnabledOrRaced, Raced
<1>1. ps # {} /\ \A p \in ps : \E q \in ps : Sends(p, q)'
  BY DEF Loop
<1>2. s \notin ps
  <2> SUFFICES ASSUME s \in ps PROVE FALSE
    OBVIOUS
  <2>1. PICK q \in ps : Sends(s, q)'
    BY <1>1
  <2>2. \A u \in Path : ~Sends(q, u)'
    BY <2>1
  <2> QED
    BY <1>1, <2>2
<1>3. Loop(ps)
  BY <1>1, <1>2 DEF Loop
<1> QED
  BY <1>3 DEF LoopsAreEnabledOrRaced, Raced

LEMMA LoopStep == IInv /\ LoopsAreEnabledOrRaced /\ [Next]_vars => LoopsAreEnabledOrRaced'
<1> SUFFICES ASSUME IInv, LoopsAreEnabledOrRaced, [Next]_vars PROVE LoopsAreEnabledOrRaced'
  OBVIOUS
<1> USE DEF IInv
<1>0. Raced \subseteq Raced'
  BY MetGrows DEF Raced
<1>1. ASSUME \A p \in Path, q \in Path : Sends(p, q)' => Sends(p, q)
      PROVE  LoopsAreEnabledOrRaced'
  <2>1. ASSUME NEW ps \in SUBSET Path, Loop(ps)'
        PROVE  Loop(ps)
    BY <1>1, <2>1 DEF Loop
  <2> QED
    BY <1>0, <2>1 DEF LoopsAreEnabledOrRaced, Raced
<1>2. CASE UNCHANGED rows
  BY <1>1, <1>2, NothingTouched, UntouchedFacts
<1>3. ASSUME NEW r \in Request, NEW i \in Id, Create(r, i) \/ LeaveSource(r, i)
      PROVE  LoopsAreEnabledOrRaced'
  <2>1. PICK s \in Path, t \in Path : s = req[r].source /\ t = req[r].target /\ s # t
    BY <1>3 DEF Create, LeaveSource, At, TypeInv, InFlightOK
  <2>2. Leaves(i, s, t)
    BY <1>3, <2>1 DEF Create, LeaveSource
  <2>3. req[r].row = None /\ req[r].pc \in {"write", "upsert"}
    BY <1>3 DEF Create, LeaveSource, At, TypeInv, InFlightOK, Renames
  <2>4. t \notin Raced => ~Moved(t)
    BY <2>1, <2>3, OutgoingSends DEF Clear, TypeInv
  <2>5. /\ \A p \in Path \ {s} : Untouched(p)
        /\ \A q \in Path : Sends(s, q)' <=> q = t
    BY <2>2, LeavesFacts DEF TypeInv
  <2>6. \A p \in Path \ {s}, q \in Path : Sends(p, q)' <=> Sends(p, q)
    BY <2>5, UntouchedFacts
  <2>7. t \notin Raced => \A u \in Path : ~Sends(t, u)'
    BY <2>1, <2>4, <2>6 DEF Moved
  <2> QED
    BY <1>0, <2>5, <2>6, <2>7, NoNewLoop
<1>4. ASSUME NEW r \in Request, Update(r)
      PROVE  LoopsAreEnabledOrRaced'
  <2>1. PICK i, s, t, old : /\ i = req[r].row /\ s = req[r].source /\ t = req[r].target
                            /\ old = rows[i].source
    OBVIOUS
  <2>2. /\ s \in Path /\ t \in Path /\ s # t
        /\ \A p \in Path \ {s}, q \in Path : Sends(p, q)' => Sends(p, q)
        /\ \A q \in Path : Sends(s, q)' => q = t
        /\ ~HasOutgoing(t, i) => \A q \in Path : ~Sends(t, q)'
    BY <1>4, <2>1, UpdateFacts
  <2>3. t \notin Raced => ~HasOutgoing(t, i)
    BY <1>4, <2>1 DEF Clear, Update, At
  <2> QED
    BY <1>0, <2>2, <2>3, NoNewLoop
<1>5. ASSUME NEW i \in Id, NEW active \in BOOLEAN, SetActive(i, active)
      PROVE  LoopsAreEnabledOrRaced'
  <2>1. PICK old : old = rows[i].source
    OBVIOUS
  <2>2. \A p \in Path \ {old}, q \in Path : Sends(p, q)' => Sends(p, q)
    BY <1>5, <2>1, SetActiveFacts, UntouchedFacts DEF TypeInv
  <2>3. CASE active
    <3>1. old \in Raced'
      BY <1>5, <2>1, <2>3 DEF SetActive, Raced
    <3> QED
      BY <1>0, <2>2, <3>1, NoNewLoop
  <2>4. CASE ~active
    <3>1. \A q \in Path : ~Sends(old, q)'
      BY <1>5, <2>1, <2>4, SetActiveFacts DEF TypeInv
    <3> QED
      BY <1>1, <2>2, <3>1
  <2> QED
    BY <2>3, <2>4
<1>6. ASSUME NEW i \in Id, Archive(i)
      PROVE  LoopsAreEnabledOrRaced'
  <2>1. PICK old : old = rows[i].source
    OBVIOUS
  <2>2. /\ \A p \in Path \ {old}, q \in Path : Sends(p, q)' => Sends(p, q)
        /\ \A q \in Path : ~Sends(old, q)'
    BY <1>6, <2>1, ArchiveFacts, UntouchedFacts DEF TypeInv
  <2> QED
    BY <1>1, <2>2
<1>7. ASSUME NEW r \in Request, FreeTarget(r)
      PROVE  LoopsAreEnabledOrRaced'
  <2>1. PICK t \in Path : t = req[r].target
    BY <1>7 DEF FreeTarget, At, TypeInv, InFlightOK
  <2>2. /\ \A p \in Path \ {t}, q \in Path : Sends(p, q)' => Sends(p, q)
        /\ \A q \in Path : ~Sends(t, q)'
    BY <1>7, <2>1, DisabledFacts, UntouchedFacts DEF FreeTarget, TypeInv
  <2> QED
    BY <1>1, <2>2
<1>8. CASE UNCHANGED vars
  BY <1>2, <1>8 DEF vars, store
<1>9. CASE Next
  BY <1>2, <1>3, <1>4, <1>5, <1>6, <1>7, <1>9
     DEF Next, BeginWrite, AskIncoming, Refuse, Publish, BeginRename, MovePage, Drop, store
<1> QED
  BY <1>8, <1>9

(* Whoever is sent around for ever passes an address whose redirect was     *)
(* enabled by hand, or that two handlers worked on at a time: the questions *)
(* of create and update and the updateMany of a rename rule out every other *)
(* loop, however long. *)
THEOREM LoopsHaveACause == Spec => []LoopsAreEnabledOrRaced
<1>1. Init => LoopsAreEnabledOrRaced
  BY DEF Init, LoopsAreEnabledOrRaced, Loop, Sends, RowAt
<1> QED
  BY <1>1, LoopStep, Inductive, PTL DEF Spec

-----------------------------------------------------------------------------
(* Old addresses.                                                           *)

Pending(r, p) == req[r].pc \in {"disable", "upsert"} /\ req[r].source = p

Answers(p) ==
  \/ \E g \in Page : place[g] = p
  \/ \E q \in known : Sends(p, q)
  \/ \E r \in Request : Pending(r, p)

LEMMA MootGrows ==
  ASSUME [Next]_vars
  PROVE  moot \subseteq moot'
<1>1. CASE UNCHANGED vars
  BY <1>1 DEF vars, history
<1>2. CASE Next
  BY <1>2
     DEF Next, BeginWrite, AskIncoming, Create, Update, Refuse, SetActive, Archive, Publish,
         BeginRename, MovePage, FreeTarget, LeaveSource, Drop, history
<1> QED
  BY <1>1, <1>2

(* A step that moves no page away from p, leaves its redirect alone, and    *)
(* ends no handler that is about to write it. *)
LEMMA AnswerKept ==
  ASSUME TypeInv, [Next]_vars, NEW p \in Path, Answers(p),
         \A g \in Page : place[g] = p => place'[g] = p,
         Untouched(p),
         \A r \in Request : Pending(r, p) => Pending(r, p)'
  PROVE  Answers(p)'
<1>1. known \subseteq known' /\ known \subseteq Path
  BY MetGrows DEF TypeInv, TypeOK
<1>2. \A q \in Path : Sends(p, q)' <=> Sends(p, q)
  BY UntouchedFacts
<1> QED
  BY <1>1, <1>2 DEF Answers

(* Handlers that begin or end elsewhere. *)
LEMMA OthersPending ==
  ASSUME TypeInv, NEW r \in Request, NEW p, ~Pending(r, p),
         \A q \in Request \ {r} : req'[q] = req[q]
  PROVE  \A q \in Request : Pending(q, p) => Pending(q, p)'
BY DEF Pending

LEMMA EndsStep == IInv /\ NoDeadEnds /\ [Next]_vars => NoDeadEnds'
<1> SUFFICES ASSUME IInv, NoDeadEnds, [Next]_vars, NEW p \in known', p \notin met' \cup moot'
             PROVE  Answers(p)'
  BY DEF NoDeadEnds, Answers, Pending
<1> USE DEF IInv
<1>0. /\ p \notin met \cup moot /\ p \in Path
      /\ p \in known => Answers(p)
  BY MetGrows, MootGrows, TypeStep DEF NoDeadEnds, Answers, Pending, TypeInv, TypeOK
<1>1. CASE UNCHANGED <<rows, place, req, known>>
  BY <1>0, <1>1, NothingTouched, AnswerKept DEF Pending
<1>2. ASSUME NEW r \in Request, UNCHANGED <<rows, place, known>>, Finish(r), ~Pending(r, p)
      PROVE  Answers(p)'
  <2>1. \A q \in Request : Pending(q, p) => Pending(q, p)'
    BY <1>2, FinishFacts, OthersPending
  <2> QED
    BY <1>0, <1>2, <2>1, NothingTouched, AnswerKept
<1>3. ASSUME NEW r \in Request, NEW i \in Id \cup {None}, NEW s \in Path, NEW t \in Path,
             BeginWrite(r, i, s, t)
      PROVE  Answers(p)'
  <2>1. ~Pending(r, p) /\ UNCHANGED <<rows, place, known>>
    BY <1>3 DEF BeginWrite, Pending, At, store
  <2>2. \A q \in Request : Pending(q, p) => Pending(q, p)'
    BY <1>3, <2>1, BeginWriteFacts, OthersPending
  <2> QED
    BY <1>0, <2>1, <2>2, NothingTouched, AnswerKept
<1>4. ASSUME NEW r \in Request, NEW g \in Page, NEW a \in Path, BeginRename(r, g, a)
      PROVE  Answers(p)'
  <2>1. ~Pending(r, p) /\ UNCHANGED <<rows, place, known>>
    BY <1>4 DEF BeginRename, Pending, At, store
  <2>2. \A q \in Request : Pending(q, p) => Pending(q, p)'
    BY <1>4, <2>1, BeginRenameFacts, OthersPending
  <2> QED
    BY <1>0, <2>1, <2>2, NothingTouched, AnswerKept
<1>5. ASSUME NEW r \in Request, AskIncoming(r)
      PROVE  Answers(p)'
  <2>1. ~Pending(r, p) /\ UNCHANGED <<rows, place, known>>
    BY <1>5 DEF AskIncoming, Pending, At, store, history
  <2>2. CASE Go(r, "write")
    <3>1. \A q \in Request : Pending(q, p) => Pending(q, p)'
      BY <2>1, <2>2, GoFacts, OthersPending
    <3> QED
      BY <1>0, <2>1, <3>1, NothingTouched, AnswerKept
  <2> QED
    BY <1>2, <1>5, <2>1, <2>2 DEF AskIncoming
<1>6. ASSUME NEW r \in Request, NEW i \in Id, Create(r, i)
      PROVE  Answers(p)'
  <2>1. /\ req[r].source \in Path /\ req[r].target \in Path /\ ~Pending(r, p)
        /\ Leaves(i, req[r].source, req[r].target) /\ p # req[r].source
        /\ UNCHANGED <<place, known>> /\ Finish(r)
    BY <1>6 DEF Create, At, Pending, TypeInv, InFlightOK
  <2>2. Untouched(p)
    BY <1>0, <2>1, LeavesFacts DEF TypeInv
  <2>3. \A q \in Request : Pending(q, p) => Pending(q, p)'
    BY <2>1, FinishFacts, OthersPending
  <2> QED
    BY <1>0, <2>1, <2>2, <2>3, AnswerKept
<1>7. ASSUME NEW r \in Request, Update(r)
      PROVE  Answers(p)'
  <2>1. /\ ~Pending(r, p) /\ p # req[r].source /\ p # rows[req[r].row].source
        /\ UNCHANGED <<place, known>> /\ Finish(r)
    BY <1>7 DEF Update, At, Pending
  <2>2. Untouched(p)
    BY <1>0, <1>7, <2>1, UpdateFacts
  <2>3. \A q \in Request : Pending(q, p) => Pending(q, p)'
    BY <2>1, FinishFacts, OthersPending
  <2> QED
    BY <1>0, <2>1, <2>2, <2>3, AnswerKept
<1>8. ASSUME NEW i \in Id, NEW active \in BOOLEAN, SetActive(i, active) \/ Archive(i)
      PROVE  Answers(p)'
  <2>1. p # rows[i].source /\ UNCHANGED <<place, req, known>>
    BY <1>8 DEF SetActive, Archive
  <2>2. Untouched(p)
    BY <1>0, <1>8, <2>1, SetActiveFacts, ArchiveFacts DEF TypeInv
  <2> QED
    BY <1>0, <2>1, <2>2, AnswerKept DEF Pending
<1>9. ASSUME NEW g \in Page, NEW a \in Path, Publish(g, a)
      PROVE  Answers(p)'
  <2>1. /\ place[g] = None /\ place' = [place EXCEPT ![g] = a] /\ known' = known \cup {a}
        /\ UNCHANGED <<rows, req>>
    BY <1>9 DEF Publish
  <2>2. place'[g] = a /\ \A h \in Page \ {g} : place'[h] = place[h]
    BY <2>1 DEF TypeInv, TypeOK
  <2>3. CASE p = a
    BY <2>2, <2>3 DEF Answers
  <2>4. CASE p # a
    BY <1>0, <2>1, <2>2, <2>4, NothingTouched, AnswerKept, ConstantsAssumption DEF Pending
  <2> QED
    BY <2>3, <2>4
<1>10. ASSUME NEW r \in Request, MovePage(r)
       PROVE  Answers(p)'
  <2>1. /\ At(r, "page") /\ req[r].page \in Page /\ req[r].target \in Path /\ rows' = rows
        /\ ~Pending(r, p)
    BY <1>10 DEF MovePage, At, TypeInv, InFlightOK, Renames, Pending
  <2>2. CASE Finish(r) /\ UNCHANGED <<place, known>>
    BY <1>2, <2>1, <2>2
  <2>3. CASE /\ Go(r, "disable") /\ known' = known \cup {req[r].target}
             /\ place' = [place EXCEPT ![req[r].page] = req[r].target]
    <3>1. \A h \in Page : place'[h] = IF h = req[r].page THEN req[r].target ELSE place[h]
      BY <2>3 DEF TypeInv, TypeOK
    <3>2. /\ req'[r].pc = "disable" /\ req'[r].source = req[r].source
          /\ \A q \in Request \ {r} : req'[q] = req[q]
      BY <2>3, GoFacts
    <3>3. CASE p = req[r].target
      BY <2>1, <3>1, <3>3 DEF Answers
    <3>4. CASE p = req[r].source
      BY <3>2, <3>4 DEF Answers, Pending
    <3>5. CASE p \notin {req[r].source, req[r].target}
      <4>1. place[req[r].page] # p
        BY <1>0, <2>1, <3>5 DEF Renaming
      <4>2. \A q \in Request : Pending(q, p) => Pending(q, p)'
        BY <2>1, <3>2, OthersPending
      <4> QED
        BY <1>0, <2>1, <2>3, <3>1, <3>5, <4>1, <4>2, NothingTouched, AnswerKept
    <3> QED
      BY <3>3, <3>4, <3>5
  <2> QED
    BY <1>10, <2>2, <2>3 DEF MovePage
<1>11. ASSUME NEW r \in Request, FreeTarget(r)
       PROVE  Answers(p)'
  <2>1. PICK t \in Path : t = req[r].target
    BY <1>11 DEF FreeTarget, At, TypeInv, InFlightOK
  <2>2. Go(r, "upsert") /\ At(r, "disable") /\ rows' = Disabled(t) /\ UNCHANGED <<place, known>>
    BY <1>11, <2>1 DEF FreeTarget, history
  <2>3. /\ req'[r].pc = "upsert" /\ req'[r].source = req[r].source
        /\ \A q \in Request \ {r} : req'[q] = req[q]
    BY <2>2, GoFacts
  <2>4. CASE p = t
    <3>1. req[r].page \in Page /\ place[req[r].page] = t
      BY <1>0, <2>1, <2>2, <2>4 DEF Renaming, At, TypeInv, InFlightOK, Renames
    <3> QED
      BY <2>2, <2>4, <3>1 DEF Answers
  <2>5. CASE p # t
    <3>1. Untouched(p)
      BY <1>0, <2>2, <2>5, DisabledFacts DEF TypeInv
    <3>2. \A q \in Request : Pending(q, p) => Pending(q, p)'
      BY <2>3 DEF Pending
    <3> QED
      BY <1>0, <2>2, <3>1, <3>2, AnswerKept
  <2> QED
    BY <2>4, <2>5
<1>12. ASSUME NEW r \in Request, NEW i \in Id, LeaveSource(r, i)
       PROVE  Answers(p)'
  <2>1. PICK s \in Path, t \in Path : s = req[r].source /\ t = req[r].target
    BY <1>12 DEF LeaveSource, At, TypeInv, InFlightOK
  <2>2. Leaves(i, s, t) /\ Finish(r) /\ UNCHANGED <<place, known>> /\ t \in known
    BY <1>12, <2>1 DEF LeaveSource, history, Renaming, At
  <2>3. (\A a \in Path \ {s} : Untouched(a)) /\ \A q \in Path : Sends(s, q)' <=> q = t
    BY <2>2, LeavesFacts DEF TypeInv
  <2>4. CASE p = s
    BY <2>2, <2>3, <2>4 DEF Answers
  <2>5. CASE p # s
    <3>1. \A q \in Request : Pending(q, p) => Pending(q, p)'
      BY <2>1, <2>2, <2>5, FinishFacts, OthersPending DEF Pending
    <3> QED
      BY <1>0, <2>2, <2>3, <2>5, <3>1, AnswerKept
  <2> QED
    BY <2>4, <2>5
<1>13. ASSUME NEW r \in Request, Refuse(r)
       PROVE  Answers(p)'
  BY <1>2, <1>13 DEF Refuse, Pending, At, store, history
<1>14. ASSUME NEW r \in Request, Drop(r)
       PROVE  Answers(p)'
  <2>1. Finish(r) /\ UNCHANGED <<rows, place, known>>
    BY <1>14 DEF Drop, store
  <2>2. ~Pending(r, p)
    <3> SUFFICES ASSUME Pending(r, p) PROVE FALSE
      OBVIOUS
    <3>1. Both(r) \subseteq moot' /\ p \in Both(r)
      BY <1>0, <1>14, BothFacts DEF Drop, Pending, At
    <3> QED
      BY <3>1
  <2> QED
    BY <1>2, <2>1, <2>2
<1>15. CASE UNCHANGED vars
  BY <1>1, <1>15 DEF vars, store, history
<1>16. CASE Next
  BY <1>3, <1>4, <1>5, <1>6, <1>7, <1>8, <1>9, <1>10, <1>11, <1>12, <1>13, <1>14, <1>16 DEF Next
<1> QED
  BY <1>15, <1>16

(* An address a page once had leads on to an address a page has had, unless *)
(* an administrator, a rename that stopped or a race broke it, however      *)
(* often pages are renamed. *)
THEOREM OldAddressesLead == Spec => []NoDeadEnds
<1>1. Init => NoDeadEnds
  BY DEF Init, NoDeadEnds
<1> QED
  BY <1>1, EndsStep, Inductive, PTL DEF Spec

-----------------------------------------------------------------------------
(* Pages.                                                                   *)

Freeing(p) == \E r \in Request : At(r, "disable") /\ req[r].target = p

Visible(p) == Moved(p) => Freeing(p)

(* A step that adds no redirect at p and ends no rename that is about to    *)
(* free it. *)
LEMMA VisibleKept ==
  ASSUME NEW p, Visible(p), Moved(p)' => Moved(p), Freeing(p) => Freeing(p)'
  PROVE  Visible(p)'
BY DEF Visible

LEMMA OthersFreeing ==
  ASSUME NEW r \in Request, NEW p, ~(At(r, "disable") /\ req[r].target = p),
         \A q \in Request \ {r} : req'[q] = req[q]
  PROVE  Freeing(p) => Freeing(p)'
BY DEF Freeing, At

LEMMA PagesStep == IInv /\ PagesAnswer /\ [Next]_vars => PagesAnswer'
<1> SUFFICES ASSUME IInv, PagesAnswer, [Next]_vars, NEW g \in Page, NEW p, p = place'[g],
                    p # None, p \notin met' \cup moot'
             PROVE  Visible(p)'
  BY DEF PagesAnswer, Visible, Freeing
<1> USE DEF IInv
<1>0. /\ p \notin met \cup moot /\ p \in Path
      /\ place[g] = p => Visible(p)
  BY MetGrows, MootGrows, TypeStep DEF PagesAnswer, Visible, Freeing, TypeInv, TypeOK
<1>1. ASSUME UNCHANGED <<rows, place>>, Freeing(p) => Freeing(p)'
      PROVE  Visible(p)'
  <2>1. Moved(p)' <=> Moved(p)
    BY <1>0, <1>1, NothingTouched, UntouchedFacts
  <2> QED
    BY <1>0, <1>1, <2>1, VisibleKept
<1>2. ASSUME UNCHANGED <<place, req>>, Untouched(p)
      PROVE  Visible(p)'
  BY <1>0, <1>2, UntouchedFacts, VisibleKept DEF Freeing, At
<1>3. ASSUME NEW r \in Request, NEW i \in Id \cup {None}, NEW s \in Path, NEW t \in Path,
             BeginWrite(r, i, s, t)
      PROVE  Visible(p)'
  <2>1. ~At(r, "disable") /\ UNCHANGED <<rows, place>>
    BY <1>3 DEF BeginWrite, At, store
  <2> QED
    BY <1>1, <1>3, <2>1, BeginWriteFacts, OthersFreeing
<1>4. ASSUME NEW r \in Request, NEW h \in Page, NEW a \in Path, BeginRename(r, h, a)
      PROVE  Visible(p)'
  <2>1. ~At(r, "disable") /\ UNCHANGED <<rows, place>>
    BY <1>4 DEF BeginRename, At, store
  <2> QED
    BY <1>1, <1>4, <2>1, BeginRenameFacts, OthersFreeing
<1>5. ASSUME NEW r \in Request, AskIncoming(r) \/ Refuse(r)
      PROVE  Visible(p)'
  <2>1. ~At(r, "disable") /\ UNCHANGED <<rows, place>> /\ (Finish(r) \/ Go(r, "write"))
    BY <1>5 DEF AskIncoming, Refuse, At, store
  <2>2. \A q \in Request \ {r} : req'[q] = req[q]
    BY <2>1, FinishFacts, GoFacts
  <2> QED
    BY <1>1, <2>1, <2>2, OthersFreeing
<1>6. ASSUME NEW r \in Request, NEW i \in Id, Create(r, i)
      PROVE  Visible(p)'
  <2>1. /\ req[r].source \in Path /\ req[r].target \in Path /\ ~At(r, "disable")
        /\ Leaves(i, req[r].source, req[r].target) /\ p # req[r].source
        /\ UNCHANGED place /\ Finish(r)
    BY <1>6 DEF Create, At, TypeInv, InFlightOK
  <2>2. Untouched(p)
    BY <1>0, <2>1, LeavesFacts DEF TypeInv
  <2>3. Freeing(p) => Freeing(p)'
    BY <2>1, FinishFacts, OthersFreeing
  <2> QED
    BY <1>0, <2>1, <2>2, <2>3, UntouchedFacts, VisibleKept
<1>7. ASSUME NEW r \in Request, Update(r)
      PROVE  Visible(p)'
  <2>1. /\ ~At(r, "disable") /\ p # req[r].source /\ p # rows[req[r].row].source
        /\ UNCHANGED place /\ Finish(r)
    BY <1>7 DEF Update, At
  <2>2. Untouched(p)
    BY <1>0, <1>7, <2>1, UpdateFacts
  <2>3. Freeing(p) => Freeing(p)'
    BY <2>1, FinishFacts, OthersFreeing
  <2> QED
    BY <1>0, <2>1, <2>2, <2>3, UntouchedFacts, VisibleKept
<1>8. ASSUME NEW i \in Id, NEW active \in BOOLEAN, SetActive(i, active) \/ Archive(i)
      PROVE  Visible(p)'
  <2>1. p # rows[i].source /\ UNCHANGED <<place, req>>
    BY <1>8 DEF SetActive, Archive
  <2>2. Untouched(p)
    BY <1>0, <1>8, <2>1, SetActiveFacts, ArchiveFacts DEF TypeInv
  <2> QED
    BY <1>2, <2>1, <2>2
<1>9. ASSUME NEW h \in Page, NEW a \in Path, Publish(h, a)
      PROVE  Visible(p)'
  <2>1. /\ place' = [place EXCEPT ![h] = a] /\ UNCHANGED <<rows, req>>
        /\ Moved(a) => a \in moot'
    BY <1>9 DEF Publish
  <2>2. Moved(p)' <=> Moved(p)
    BY <1>0, <2>1, NothingTouched, UntouchedFacts
  <2>3. CASE g = h
    <3>1. p = a
      BY <2>1, <2>3 DEF TypeInv, TypeOK
    <3> QED
      BY <2>1, <2>2, <3>1 DEF Visible
  <2>4. CASE g # h
    <3>1. place[g] = p
      BY <2>1, <2>4 DEF TypeInv, TypeOK
    <3> QED
      BY <1>0, <2>1, <2>2, <3>1, VisibleKept DEF Freeing, At
  <2> QED
    BY <2>3, <2>4
<1>10. ASSUME NEW r \in Request, MovePage(r)
       PROVE  Visible(p)'
  <2>1. At(r, "page") /\ rows' = rows /\ ~At(r, "disable")
    BY <1>10 DEF MovePage, At
  <2>2. CASE Finish(r) /\ UNCHANGED place
    BY <1>1, <2>1, <2>2, FinishFacts, OthersFreeing
  <2>3. CASE Go(r, "disable") /\ place' = [place EXCEPT ![req[r].page] = req[r].target]
    <3>1. /\ req'[r].pc = "disable" /\ req'[r].target = req[r].target
          /\ \A q \in Request \ {r} : req'[q] = req[q]
      BY <2>3, GoFacts
    <3>2. CASE p = req[r].target
      BY <3>1, <3>2 DEF Visible, Freeing, At
    <3>3. CASE p # req[r].target
      <4>1. place[g] = p
        BY <2>3, <3>3 DEF TypeInv, TypeOK
      <4>2. Moved(p)' <=> Moved(p)
        BY <1>0, <2>1, NothingTouched, UntouchedFacts
      <4>3. Freeing(p) => Freeing(p)'
        BY <2>1, <3>1, OthersFreeing
      <4> QED
        BY <1>0, <4>1, <4>2, <4>3, VisibleKept
    <3> QED
      BY <3>2, <3>3
  <2> QED
    BY <1>10, <2>2, <2>3 DEF MovePage
<1>11. ASSUME NEW r \in Request, FreeTarget(r)
       PROVE  Visible(p)'
  <2>1. PICK t \in Path : t = req[r].target
    BY <1>11 DEF FreeTarget, At, TypeInv, InFlightOK
  <2>2. Go(r, "upsert") /\ rows' = Disabled(t) /\ UNCHANGED place
    BY <1>11, <2>1 DEF FreeTarget
  <2>3. /\ \A q \in Path : ~Sends(t, q)'
        /\ \A a \in Path \ {t} : Untouched(a)
    BY <2>1, <2>2, DisabledFacts DEF TypeInv
  <2>4. CASE p = t
    BY <2>3, <2>4 DEF Visible, Moved
  <2>5. CASE p # t
    <3>1. Freeing(p) => Freeing(p)'
      BY <2>1, <2>2, <2>5, GoFacts, OthersFreeing
    <3> QED
      BY <1>0, <2>2, <2>3, <2>5, <3>1, UntouchedFacts, VisibleKept
  <2> QED
    BY <2>4, <2>5
<1>12. ASSUME NEW r \in Request, NEW i \in Id, LeaveSource(r, i)
       PROVE  Visible(p)'
  <2>1. PICK s \in Path, t \in Path : s = req[r].source /\ t = req[r].target
    BY <1>12 DEF LeaveSource, At, TypeInv, InFlightOK
  <2>2. /\ Leaves(i, s, t) /\ Finish(r) /\ UNCHANGED place /\ ~At(r, "disable")
        /\ At(r, "upsert")
    BY <1>12, <2>1 DEF LeaveSource, At
  <2>3. p # s
    BY <1>0, <2>1, <2>2 DEF Renaming, At
  <2>4. Untouched(p)
    BY <1>0, <2>2, <2>3, LeavesFacts DEF TypeInv
  <2>5. Freeing(p) => Freeing(p)'
    BY <2>2, FinishFacts, OthersFreeing
  <2> QED
    BY <1>0, <2>2, <2>4, <2>5, UntouchedFacts, VisibleKept
<1>13. ASSUME NEW r \in Request, Drop(r)
       PROVE  Visible(p)'
  <2>1. Finish(r) /\ UNCHANGED <<rows, place>>
    BY <1>13 DEF Drop, store
  <2>2. ~(At(r, "disable") /\ req[r].target = p)
    BY <1>0, <1>13, BothFacts DEF Drop, At
  <2> QED
    BY <1>1, <2>1, <2>2, FinishFacts, OthersFreeing
<1>14. CASE UNCHANGED vars
  BY <1>1, <1>14 DEF vars, store, Freeing, At
<1>15. CASE Next
  BY <1>3, <1>4, <1>5, <1>6, <1>7, <1>8, <1>9, <1>10, <1>11, <1>12, <1>13, <1>15 DEF Next
<1> QED
  BY <1>14, <1>15

(* No redirect hides a page, however often pages are renamed and addresses  *)
(* change hands between them, unless an administrator wrote it, a rename    *)
(* stopped, or handlers met. *)
THEOREM PagesAreVisible == Spec => []PagesAnswer
<1>1. Init => PagesAnswer
  BY DEF Init, PagesAnswer
<1> QED
  BY <1>1, PagesStep, Inductive, PTL DEF Spec
=============================================================================
