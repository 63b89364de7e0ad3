----------------------------- MODULE LeadIntake ------------------------------
(***************************************************************************)
(* How leads come into being: the two public forms behind the rate limiter *)
(* (LeadProtectionService.assertRateLimit, LeadsService.createPublic and   *)
(* createAssessment, which share the duplicate suppression) and the        *)
(* conversion of a contact enquiry (ExpandedService.convertContact).       *)
(*                                                                         *)
(* The API is one process: up to its first await a handler runs without    *)
(* interruption, after it the handlers interleave.  The rate limiter's map *)
(* and the set of pending keys live in the memory of that process and are  *)
(* gone after a restart; leads and enquiries are rows of the database.     *)
(***************************************************************************)
EXTENDS Integers, Sequences, FiniteSets, Functions

CONSTANTS
  Key,             \* contacts: an email address and a phone number
  Inquiry,         \* contact enquiries
  KeyOf(_),        \* the contact of an enquiry
  Request,         \* handler slots: how many requests run at a time
  None,            \* no value
  RateLimit,       \* RATE_LIMIT
  RateWindow,      \* RATE_WINDOW_MS, in ticks
  MaxRateKeys,     \* MAX_RATE_KEYS
  CleanupInterval, \* the 60 seconds of cleanup, in ticks
  DuplicateWindow, \* LEAD_DUPLICATE_WINDOW_MS, in ticks
  MaxTime,         \* bound of a run on the clock
  MaxSubmissions,  \* bound of a run on the form submissions
  MaxConversions,  \* bound of a run on the conversions begun
  MaxRestarts,     \* bound of a run on the restarts
  MaxWork          \* bound of a run on all of these together

ASSUME ConstantsAssumption ==
  /\ \A i \in Inquiry : KeyOf(i) \in Key
  /\ None \notin Key \cup Inquiry
  /\ RateLimit \in Nat \ {0} /\ RateWindow \in Nat \ {0} /\ MaxRateKeys \in Nat \ {0}
  /\ CleanupInterval \in Nat /\ DuplicateWindow \in Nat
  /\ MaxTime \in Nat /\ MaxSubmissions \in Nat
  /\ MaxConversions \in Nat /\ MaxRestarts \in Nat /\ MaxWork \in Nat

VARIABLES
  now,         \* the clock
  \* memory of the process
  entries,     \* the rate limiter's Map
  earlier,     \* its order: the pairs of contacts of which the first was inserted first
  lastCleanup, \* lastCleanupAt
  pending,     \* pendingDuplicateKeys
  req,         \* the handlers in flight
  \* database
  leads,       \* rows of leads, in order of creation
  converted,   \* convertedLeadId of each enquiry: an index of leads
  \* history, read by no handler
  admitted,    \* when submissions of a contact passed the rate limiter
  evicted,     \* contacts whose unexpired entry was dropped
  submissions, \* form submissions so far
  conversions, \* conversions begun so far
  restarts     \* restarts so far

memory == <<entries, earlier, lastCleanup, pending>>
rows   == <<leads, converted>>
vars == <<now, memory, req, rows, admitted, evicted, submissions, conversions, restarts>>

-----------------------------------------------------------------------------
Entry == [count : 1 .. RateLimit, expiresAt : Nat]
LeadRow == [key : Key, createdAt : Nat, inquiry : Inquiry \cup {None}]

Pc == {"idle", "lookup", "create", "release", "convert"}
Handler == [pc : Pc, key : Key \cup {None}, inquiry : Inquiry \cup {None}]
Idle == [pc |-> "idle", key |-> None, inquiry |-> None]

At(r, pc) == req[r].pc = pc

(* Idle slots are all alike: a new request takes a fixed one of them.       *)
Chosen(r) == r = CHOOSE q \in Request : At(q, "idle")

(* Bound of a run: what is begun from outside, altogether. *)
Work == submissions + conversions + restarts < MaxWork

Goto(r, pc) == req' = [req EXCEPT ![r].pc = pc]
Finish(r) == req' = [req EXCEPT ![r] = Idle]

-----------------------------------------------------------------------------
(* The rate limiter.                                                        *)

LiveEntry(x)    == x.expiresAt > now

(* A new process starts with lastCleanupAt = 0, decades before any clock. *)
Never == -CleanupInterval

(* cleanup *)
MutSweepDue == now - lastCleanup >= CleanupInterval
SweepDue == now - lastCleanup >= CleanupInterval \/ Cardinality(DOMAIN entries) >= MaxRateKeys
Swept == IF SweepDue THEN RestrictValues(entries, LiveEntry) ELSE entries

(* The window of k is running. *)
MutRunning(k) == k \in DOMAIN Swept
Running(k)    == k \in DOMAIN Swept /\ LiveEntry(Swept[k])

Limited(k) == Running(k) /\ Swept[k].count >= RateLimit

(* The first key of the Map. *)
Oldest(map) == CHOOSE k \in DOMAIN map : \A l \in DOMAIN map : <<l, k>> \notin earlier

(* A full map makes room for another entry by dropping its oldest. *)
MutRoomy(map) ==
  IF Cardinality(DOMAIN map) > MaxRateKeys THEN Restrict(map, DOMAIN map \ {Oldest(map)}) ELSE map
Roomy(map) ==
  IF Cardinality(DOMAIN map) >= MaxRateKeys THEN Restrict(map, DOMAIN map \ {Oldest(map)}) ELSE map

(* Map.set *)
Set(map, k, entry) == [c \in DOMAIN map \cup {k} |-> IF c = k THEN entry ELSE map[c]]

(* The map after an admitted submission of k. *)
MutCounted(k) ==
  Set(IF Running(k) THEN Swept ELSE Roomy(Swept), k, [count |-> 1, expiresAt |-> now + RateWindow])
Counted(k) ==
  IF Running(k)
    THEN [Swept EXCEPT ![k].count = @ + 1]
    ELSE Set(Roomy(Swept), k, [count |-> 1, expiresAt |-> now + RateWindow])

(* A key that stays in the Map keeps its place, a new one comes last. *)
Ordered(map) ==
  LET kept == DOMAIN Swept \cap DOMAIN map
  IN  (earlier \cap (kept \X kept)) \cup (kept \X (DOMAIN map \ kept))

Dropped(before, after) == {k \in DOMAIN before \ DOMAIN after : LiveEntry(before[k])}

-----------------------------------------------------------------------------
(* The duplicate suppression.                                               *)

(* A lead of the contact that is not older than the duplicate window. *)
MutRecent(k) == \E i \in 1 .. Len(leads) : leads[i].key = k /\ leads[i].createdAt = now
Recent(k)    == \E i \in 1 .. Len(leads) :
                  leads[i].key = k /\ leads[i].createdAt >= now - DuplicateWindow

(* The pending keys once the finally block of a request has run. *)
MutReleased(r) == IF At(r, "release") THEN pending \ {req[r].key} ELSE pending
Released(r)    == pending \ {req[r].key}

Init ==
  /\ now = 0
  /\ entries = <<>> /\ earlier = {} /\ lastCleanup = Never /\ pending = {}
  /\ req = [r \in Request |-> Idle]
  /\ leads = <<>> /\ converted = [i \in Inquiry |-> 0]
  /\ admitted = [k \in Key |-> <<>>]
  /\ evicted = {}
  /\ submissions = 0 /\ conversions = 0 /\ restarts = 0

(* assertRateLimit refuses; the cleanup it began with stays done. *)
Refuse(k) ==
  /\ submissions < MaxSubmissions
  /\ Work
  /\ Limited(k)
  /\ entries' = Swept /\ earlier' = Ordered(Swept)
  /\ lastCleanup' = IF SweepDue THEN now ELSE lastCleanup
  /\ submissions' = submissions + 1
  /\ UNCHANGED <<now, pending, req, rows, admitted, evicted, conversions, restarts>>

(* assertRateLimit admits a submission. *)
Admit(k) ==
  /\ submissions < MaxSubmissions
  /\ Work
  /\ ~Limited(k)
  /\ entries' = Counted(k) /\ earlier' = Ordered(Counted(k))
  /\ lastCleanup' = IF SweepDue THEN now ELSE lastCleanup
  /\ evicted' = evicted \cup Dropped(Swept, Counted(k))
  /\ admitted' = [admitted EXCEPT ![k] = Append(@, now)]
  /\ submissions' = submissions + 1
  /\ UNCHANGED <<now, rows, conversions, restarts>>

(* The honeypot is filled in, an answer of the assessment is not one of the *)
(* options, or a request of the same contact is under way: the submission   *)
(* is answered at once.                                                     *)
Dismiss(k) ==
  /\ Admit(k)
  /\ UNCHANGED <<pending, req>>

Begin(r, k) ==
  /\ At(r, "idle") /\ Chosen(r)
  /\ k \notin pending
  /\ Admit(k)
  /\ pending' = pending \cup {k}
  /\ req' = [req EXCEPT ![r] = [pc |-> "lookup", key |-> k, inquiry |-> None]]

(* The options are valid and no recent lead has the contact, or the request *)
(* ends with the answer "received" for the lead there is.                   *)
Lookup(r) ==
  /\ At(r, "lookup")
  /\ IF Recent(req[r].key)
       THEN Finish(r) /\ pending' = Released(r)
       ELSE Goto(r, "create") /\ UNCHANGED pending
  /\ UNCHANGED <<now, entries, earlier, lastCleanup, rows, admitted, evicted, submissions, conversions, restarts>>

(* The transaction: the lead, its first history row, its audit row. *)
Create(r) ==
  /\ At(r, "create")
  /\ leads' = Append(leads, [key |-> req[r].key, createdAt |-> now, inquiry |-> None])
  /\ Goto(r, "release")
  /\ UNCHANGED <<now, memory, converted, admitted, evicted, submissions, conversions, restarts>>

(* The commit has come back: the finally block and the answer. *)
Release(r) ==
  /\ At(r, "release")
  /\ pending' = Released(r)
  /\ Finish(r)
  /\ UNCHANGED <<now, entries, earlier, lastCleanup, rows, admitted, evicted, submissions, conversions, restarts>>

(* An unavailable option or an error of the database: the request fails,    *)
(* and a submission dismissed because of it has no lead to show.            *)
Fail(r) ==
  /\ req[r].pc \in {"lookup", "create"}
  /\ pending' = Released(r)
  /\ Finish(r)
  /\ UNCHANGED <<now, entries, earlier, lastCleanup, rows, admitted, evicted, submissions, conversions, restarts>>

-----------------------------------------------------------------------------
(* convertContact: the transaction's read ... *)
ConvertRead(r, i) ==
  /\ At(r, "idle") /\ Chosen(r)
  /\ converted[i] = 0
  /\ req' = [req EXCEPT ![r] = [pc |-> "convert", key |-> None, inquiry |-> i]]
  /\ Work /\ conversions < MaxConversions /\ conversions' = conversions + 1
  /\ UNCHANGED <<now, memory, rows, admitted, evicted, submissions, restarts>>

(* ... and its writes: a lead, and the enquiry by id alone. *)
ConvertCommit(r) ==
  LET i == req[r].inquiry IN
  /\ At(r, "convert")
  /\ leads' = Append(leads, [key |-> KeyOf(i), createdAt |-> now, inquiry |-> i])
  /\ converted' = [converted EXCEPT ![i] = Len(leads) + 1]
  /\ Finish(r)
  /\ UNCHANGED <<now, memory, admitted, evicted, submissions, conversions, restarts>>

(* The process restarts: its memory and its handlers are gone. *)
Restart ==
  /\ restarts < MaxRestarts
  /\ Work
  /\ restarts' = restarts + 1
  /\ entries' = <<>> /\ earlier' = {} /\ lastCleanup' = Never /\ pending' = {}
  /\ req' = [r \in Request |-> Idle]
  /\ evicted' = evicted \cup Dropped(entries, <<>>)
  /\ UNCHANGED <<now, rows, admitted, submissions, conversions>>

Tick ==
  /\ now < MaxTime
  /\ now' = now + 1
  /\ UNCHANGED <<memory, req, rows, admitted, evicted, submissions, conversions, restarts>>

Next ==
  \/ \E k \in Key : Refuse(k)
  \/ \E k \in Key : Dismiss(k)
  \/ \E r \in Request, k \in Key : Begin(r, k)
  \/ \E r \in Request : Lookup(r)
  \/ \E r \in Request : Create(r)
  \/ \E r \in Request : Release(r)
  \/ \E r \in Request : Fail(r)
  \/ \E r \in Request, i \in Inquiry : ConvertRead(r, i)
  \/ \E r \in Request : ConvertCommit(r)
  \/ Restart
  \/ Tick

Spec == Init /\ [][Next]_vars

(* A handler that has begun gets on with it: the database answers or fails. *)
(* Nobody has to submit anything, convert anything or let time pass.        *)
Proceed(r) == Lookup(r) \/ Create(r) \/ Release(r) \/ Fail(r)
Fairness == \A r \in Request : WF_vars(Proceed(r))
FairSpec == Spec /\ Fairness

-----------------------------------------------------------------------------
(* Properties.                                                              *)

(* The type of the state.  The map stays bounded, and so do its counts. *)
TypeOK ==
  /\ now \in 0 .. MaxTime
  /\ entries \in [DOMAIN entries -> Entry] /\ DOMAIN entries \subseteq Key
  /\ Cardinality(DOMAIN entries) <= MaxRateKeys
  /\ earlier \subseteq Key \X Key /\ lastCleanup \in Int
  /\ pending \subseteq Key
  /\ req \in [Request -> Handler]
  /\ leads \in Seq(LeadRow)
  /\ converted \in [Inquiry -> 0 .. Len(leads)]
  /\ admitted \in [Key -> Seq(Nat)]
  /\ evicted \subseteq Key
  /\ submissions \in 0 .. MaxSubmissions
  /\ conversions \in 0 .. MaxConversions /\ restarts \in 0 .. MaxRestarts

(* However submissions interleave, two leads that the forms create for one  *)
(* contact are more than the duplicate window apart: the look-up and the    *)
(* insert are far apart, and only the pending keys keep another handler of  *)
(* the contact out of the gap (createPublic, createAssessment).             *)
NoDuplicateForms ==
  \A i, j \in 1 .. Len(leads) :
    (/\ i < j
     /\ leads[i].key = leads[j].key
     /\ leads[i].inquiry = None /\ leads[j].inquiry = None)
      => leads[j].createdAt > leads[i].createdAt + DuplicateWindow

(* A contact is pending exactly as long as one handler works on it, also    *)
(* after a failure: no contact is locked out by a request that is over, and *)
(* no two handlers work on the same contact (the finally blocks).           *)
Working(r) == req[r].pc \in {"lookup", "create", "release"}
PendingIsInFlight ==
  /\ pending = {req[r].key : r \in {q \in Request : Working(q)}}
  /\ \A r, q \in Request :
       Working(r) /\ Working(q) /\ req[r].key = req[q].key => r = q

(* What the fixed window promises: 2 * RateLimit submissions of a contact   *)
(* whose entry was never dropped unexpired take at least one whole window,  *)
(* whatever cleanups and other contacts come between (assertRateLimit).     *)
RateKept ==
  \A k \in Key \ evicted : \A i \in 1 .. Len(admitted[k]) :
    i + 2 * RateLimit - 1 <= Len(admitted[k])
      => admitted[k][i + 2 * RateLimit - 1] - admitted[k][i] >= RateWindow

(* A contact is refused only when RateLimit submissions of that contact     *)
(* were admitted within the last window: an entry that has expired and that *)
(* the lazy cleanup has not come to refuses nobody, nor does the entry of   *)
(* another contact in a full map (assertRateLimit).                         *)
AdmittedLately(k) == {i \in 1 .. Len(admitted[k]) : admitted[k][i] > now - RateWindow}
RefusedOnlyOverBudget ==
  [][\A k \in Key : Refuse(k) => Cardinality(AdmittedLately(k)) >= RateLimit]_vars

(* A pending contact is always released again: none is answered "received"  *)
(* for nothing for ever (the finally blocks, under the fairness above).     *)
EventuallyReleased == \A k \in Key : []<>(k \notin pending)

(* An enquiry becomes exactly one lead (docs/phase1-client-demo-script.md). *)
OneLeadPerInquiry ==
  \A i, j \in 1 .. Len(leads) :
    leads[i].inquiry # None /\ leads[i].inquiry = leads[j].inquiry => i = j
-----------------------------------------------------------------------------
(* The window a contact is in: an entry that has expired is none, whether   *)
(* or not the cleanup has come to it.                                       *)
WindowNow(k) ==
  IF k \in DOMAIN entries /\ LiveEntry(entries[k])
    THEN [used |-> entries[k].count, until |-> entries[k].expiresAt]
    ELSE [used |-> 0, until |-> 0]

Limiter == INSTANCE RateWindows WITH
  Limit <- RateLimit, Length <- RateWindow, Capacity <- MaxRateKeys,
  clock <- now, window <- [k \in Key |-> WindowNow(k)], asked <- submissions

(* For the contacts the bounded map with its lazy cleanup is a window each: *)
(* no entry is dropped unexpired but the one that must go when MaxRateKeys  *)
(* windows are open (never in the stead of one that has run out and is yet  *)
(* to be swept), none outlives its window, and nobody is counted twice or   *)
(* refused early (assertRateLimit, cleanup).                                *)
ImplementsWindows == Limiter!Spec
=============================================================================
