------------------------------- MODULE Redirects -------------------------------
(***************************************************************************)
(* Redirects of the public website: RedirectsService of the API, where an  *)
(* administrator keeps them by hand, and recordSlugRedirect of             *)
(* ExpandedService, which leaves one behind whenever a page is renamed.    *)
(* The website asks for a redirect of every address before it looks for a  *)
(* page, so a redirect hides the page at its source.                       *)
(*                                                                         *)
(* Every statement of a handler is a transaction of its own, and other     *)
(* handlers run in between: create and update ask two questions and then   *)
(* write, a rename moves the page, disables the redirect at its new        *)
(* address and then writes the one at its old address.                     *)
(*                                                                         *)
(* Not modelled: status codes, the hit count, the audit log, and the       *)
(* withdrawal of pages, which leaves their addresses and redirects alone.  *)
(***************************************************************************)
EXTENDS Integers

CONSTANTS
  Path,     \* addresses on the public website
  Page,     \* records with a page of their own: universities, jobs, events...
  Id,       \* ids of redirects
  Request,  \* handler slots
  None,
  MaxWork   \* bound of a run on requests

ASSUME ConstantsAssumption ==
  /\ None \notin Path \cup Page \cup Id
  /\ None \notin [source : Path, target : Path, active : BOOLEAN]
  /\ MaxWork \in Nat

VARIABLES
  rows,     \* the table redirects
  place,    \* the address of each page
  req,      \* the handlers in flight
  \* history, read by no handler
  known,    \* addresses pages have had
  switched, \* addresses whose redirect was enabled by hand
  met,      \* addresses of handlers that ran at a time, on an address or a page
  moot,     \* addresses managed by hand, left by a stopped rename, or reused
  work      \* requests so far

store   == <<rows, place>>
history == <<known, switched, met, moot, work>>
vars    == <<store, req, history>>

-----------------------------------------------------------------------------
Row == [source : Path, target : Path, active : BOOLEAN]

Handler == [pc : {"idle", "incoming", "write", "page", "disable", "upsert"},
            row : Id \cup {None}, page : Page \cup {None},
            source : Path \cup {None}, target : Path \cup {None}]

Idle == [pc |-> "idle", row |-> None, page |-> None, source |-> None, target |-> None]

At(r, pc) == req[r].pc = pc
Begin(r, handler) == req' = [req EXCEPT ![r] = handler]
Finish(r) == Begin(r, Idle)
Go(r, pc) == Begin(r, [req[r] EXCEPT !.pc = pc])

(* The unique key of redirects is the source. *)
RowAt(i, p) == rows[i] # None /\ rows[i].source = p
MutTaken(p) == \E i \in Id : RowAt(i, p) /\ rows[i].active
Taken(p)    == \E i \in Id : RowAt(i, p)

(* resolveRedirect: where the website sends a visitor of p. *)
Sends(p, q) == \E i \in Id : RowAt(i, p) /\ rows[i].target = q /\ rows[i].active
Moved(p)    == \E q \in Path : Sends(p, q)

(* A uuid no row has, and no handler remembers. *)
Fresh(i) == rows[i] = None /\ \A r \in Request : req[r].row # i

(* The two questions of assertNoLoopOrChain, the row under edit left out.   *)
HasOutgoing(p, except) ==
  \E i \in Id \ {except} : RowAt(i, p) /\ rows[i].active
HasIncoming(p, except) ==
  \E i \in Id \ {except} : rows[i] # None /\ rows[i].target = p /\ rows[i].active

(* updateMany of recordSlugRedirect: nothing leads away from p any more.    *)
MutDisabled(p) == rows
Disabled(p) == [i \in Id |-> IF RowAt(i, p) THEN [rows[i] EXCEPT !.active = FALSE] ELSE rows[i]]

(* upsert of recordSlugRedirect, and create. *)
MutLeaves(i, p, q) ==
  IF Taken(p) THEN RowAt(i, p) /\ rows' = [rows EXCEPT ![i].target = q]
              ELSE Fresh(i) /\ rows' = [rows EXCEPT ![i] = [source |-> p, target |-> q,
                                                            active |-> TRUE]]
Leaves(i, p, q) ==
  /\ IF Taken(p) THEN RowAt(i, p) ELSE Fresh(i)
  /\ rows' = [rows EXCEPT ![i] = [source |-> p, target |-> q, active |-> TRUE]]

(* A handler on page g and the addresses ps meets those in flight that work *)
(* on the page, or on one of the addresses. *)
Both(r)        == {req[r].source, req[r].target} \ {None}
Meets(r, g, ps) == (g # None /\ req[r].page = g) \/ Both(r) \cap ps # {}
Shared(g, ps)  == UNION {Both(r) : r \in {q \in Request : Meets(q, g, ps)}}
Meet(g, ps)    == met' = met \cup (IF Shared(g, ps) = {} THEN {} ELSE Shared(g, ps) \cup ps)

Work == work < MaxWork /\ work' = work + 1

Init ==
  /\ rows = [i \in Id |-> None]
  /\ place = [g \in Page |-> None]
  /\ req = [r \in Request |-> Idle]
  /\ known = {}
  /\ switched = {}
  /\ met = {}
  /\ moot = {}
  /\ work = 0

-----------------------------------------------------------------------------
(* RedirectsService.create and update of row i up to the first answer of    *)
(* assertNoLoopOrChain; a refusal changes nothing.                          *)
BeginWrite(r, i, s, t) ==
  /\ At(r, "idle")
  /\ i # None => rows[i] # None
  /\ s # t
  /\ ~HasOutgoing(t, i)
  /\ Begin(r, [Idle EXCEPT !.pc = "incoming", !.row = i, !.source = s, !.target = t])
  /\ Meet(None, {s, t})
  /\ Work
  /\ UNCHANGED <<store, known, switched, moot>>

AskIncoming(r) ==
  /\ At(r, "incoming")
  /\ IF HasIncoming(req[r].source, req[r].row) THEN Finish(r) ELSE Go(r, "write")
  /\ UNCHANGED <<store, history>>

Create(r, i) ==
  LET h == req[r] IN
  /\ At(r, "write") /\ h.row = None
  /\ ~Taken(h.source)
  /\ Leaves(i, h.source, h.target)
  /\ Finish(r)
  /\ moot' = moot \cup {h.source}
  /\ UNCHANGED <<place, known, switched, met, work>>

Update(r) ==
  LET h == req[r] IN
  /\ At(r, "write") /\ h.row # None
  /\ rows[h.row] # None
  /\ \A i \in Id \ {h.row} : ~RowAt(i, h.source)
  /\ rows' = [rows EXCEPT ![h.row].source = h.source, ![h.row].target = h.target]
  /\ Finish(r)
  /\ moot' = moot \cup {h.source, rows[h.row].source}
  /\ UNCHANGED <<place, known, switched, met, work>>

(* A unique key violation, or the row is gone. *)
Refuse(r) ==
  LET h == req[r] IN
  /\ At(r, "write")
  /\ \/ \E i \in Id \ {h.row} : RowAt(i, h.source)
     \/ h.row # None /\ rows[h.row] = None
  /\ Finish(r)
  /\ UNCHANGED <<store, history>>

(* setActive, which asks neither question. *)
SetActive(i, active) ==
  /\ rows[i] # None
  /\ rows' = [rows EXCEPT ![i].active = active]
  /\ switched' = IF active THEN switched \cup {rows[i].source} ELSE switched
  /\ moot' = moot \cup {rows[i].source}
  /\ Work
  /\ UNCHANGED <<place, req, known, met>>

(* archive deletes the row. *)
Archive(i) ==
  /\ rows[i] # None
  /\ rows' = [rows EXCEPT ![i] = None]
  /\ moot' = moot \cup {rows[i].source}
  /\ Work
  /\ UNCHANGED <<place, req, known, switched, met>>

-----------------------------------------------------------------------------
(* adminCreate of ExpandedService: slugs are unique, and nobody asks        *)
(* whether the address redirects. *)
Publish(g, p) ==
  /\ place[g] = None
  /\ \A other \in Page : place[other] # p
  /\ place' = [place EXCEPT ![g] = p]
  /\ known' = known \cup {p}
  /\ moot' = IF Moved(p) THEN moot \cup {p} ELSE moot
  /\ Meet(g, {p})
  /\ Work
  /\ UNCHANGED <<rows, req, switched>>

(* adminUpdate with another slug: the read. *)
BeginRename(r, g, p) ==
  /\ At(r, "idle")
  /\ place[g] \notin {None, p}
  /\ Begin(r, [Idle EXCEPT !.pc = "page", !.page = g, !.source = place[g], !.target = p])
  /\ Meet(g, {place[g], p})
  /\ Work
  /\ UNCHANGED <<store, known, switched, moot>>

(* The update of the page, unless its slug is another's. *)
MovePage(r) ==
  LET h == req[r] IN
  /\ At(r, "page")
  /\ IF \E other \in Page \ {h.page} : place[other] = h.target
       THEN Finish(r) /\ UNCHANGED <<place, known>>
       ELSE /\ place' = [place EXCEPT ![h.page] = h.target]
            /\ known' = known \cup {h.target}
            /\ Go(r, "disable")
  /\ UNCHANGED <<rows, switched, met, moot, work>>

(* The two statements of recordSlugRedirect. *)
FreeTarget(r) ==
  /\ At(r, "disable")
  /\ rows' = Disabled(req[r].target)
  /\ Go(r, "upsert")
  /\ UNCHANGED <<place, history>>

LeaveSource(r, i) ==
  /\ At(r, "upsert")
  /\ Leaves(i, req[r].source, req[r].target)
  /\ Finish(r)
  /\ UNCHANGED <<place, history>>

(* A handler stops between two of its statements. *)
Drop(r) ==
  /\ ~At(r, "idle")
  /\ moot' = IF req[r].pc \in {"disable", "upsert"} THEN moot \cup Both(r) ELSE moot
  /\ Finish(r)
  /\ UNCHANGED <<store, known, switched, met, work>>

Next ==
  \/ \E r \in Request, i \in Id \cup {None}, s, t \in Path : BeginWrite(r, i, s, t)
  \/ \E r \in Request : AskIncoming(r)
  \/ \E r \in Request, i \in Id : Create(r, i)
  \/ \E r \in Request : Update(r)
  \/ \E r \in Request : Refuse(r)
  \/ \E i \in Id, active \in BOOLEAN : SetActive(i, active)
  \/ \E i \in Id : Archive(i)
  \/ \E g \in Page, p \in Path : Publish(g, p)
  \/ \E r \in Request, g \in Page, p \in Path : BeginRename(r, g, p)
  \/ \E r \in Request : MovePage(r)
  \/ \E r \in Request : FreeTarget(r)
  \/ \E r \in Request, i \in Id : LeaveSource(r, i)
  \/ \E r \in Request : Drop(r)

Spec == Init /\ [][Next]_vars

-----------------------------------------------------------------------------
(* Type invariant, with the unique keys of redirects and slugs. *)
TypeOK ==
  /\ rows \in [Id -> Row \cup {None}]
  /\ \A i, j \in Id : i # j /\ rows[i] # None => ~RowAt(j, rows[i].source)
  /\ place \in [Page -> Path \cup {None}]
  /\ \A g, h \in Page : g # h /\ place[g] # None => place[g] # place[h]
  /\ req \in [Request -> Handler]
  /\ known \subseteq Path
  /\ switched \subseteq Path
  /\ met \subseteq Path
  /\ moot \subseteq Path
  /\ work \in Nat

(* A visitor of an address in ps is sent around in ps for ever. *)
Loop(ps) == ps # {} /\ \A p \in ps : \E q \in ps : Sends(p, q)

(* Every loop runs through an address whose redirect was enabled by hand,   *)
(* or that two handlers worked on at a time: the questions of create and    *)
(* update, and the updateMany of a rename, rule out all others, with any    *)
(* number of redirects on the way.                                          *)
LoopsAreEnabledOrRaced ==
  \A ps \in SUBSET Path : Loop(ps) => ps \cap (switched \cup met) # {}

(* An address a page once had still leads somewhere: to a page, or by a     *)
(* redirect to another address a page has had; or a rename is about to see  *)
(* to it.  Only an administrator, a rename that stopped or two handlers on  *)
(* the address at a time may break this. *)
NoDeadEnds ==
  \A p \in known \ (met \cup moot) :
    \/ \E g \in Page : place[g] = p
    \/ \E q \in known : Sends(p, q)
    \/ \E r \in Request : req[r].pc \in {"disable", "upsert"} /\ req[r].source = p

(* No redirect hides a page, its own old ones least of all, unless a rename *)
(* is about to disable it, or for the same reasons. *)
PagesAnswer ==
  \A g \in Page :
    /\ place[g] # None
    /\ place[g] \notin met \cup moot
    /\ Moved(place[g])
    => \E r \in Request : At(r, "disable") /\ req[r].target = place[g]
=============================================================================
