------------------------------ MODULE LeadRecord ------------------------------
(***************************************************************************)
(* What the lead API promises its editors: a lead is one record whose      *)
(* changes take effect one at a time.  A change replaces the value that is *)
(* there by another one, gives the record a new version, and leaves the    *)
(* row that says what it replaced; nothing is changed or logged otherwise. *)
(***************************************************************************)
EXTENDS Integers, Sequences

CONSTANTS Lead, Status, First, Consultant, Nobody

VARIABLES
  record,        \* status, consultant and version of each lead
  statusLog,     \* the status changes of each lead
  consultantLog  \* the changes of its consultant

vars == <<record, statusLog, consultantLog>>

Init ==
  /\ record = [l \in Lead |-> [status |-> First, consultant |-> Nobody, version |-> 0]]
  /\ statusLog \in [Lead -> {<<>>, <<[old |-> Nobody, new |-> First]>>}]
  /\ consultantLog = [l \in Lead |-> <<>>]

SetStatus(l, s) ==
  /\ s # record[l].status
  /\ record' = [record EXCEPT ![l].status = s, ![l].version = @ + 1]
  /\ statusLog' = [statusLog EXCEPT ![l] = Append(@, [old |-> record[l].status, new |-> s])]
  /\ UNCHANGED consultantLog

Assign(l, c) ==
  /\ c # record[l].consultant
  /\ record' = [record EXCEPT ![l].consultant = c, ![l].version = @ + 1]
  /\ consultantLog' =
       [consultantLog EXCEPT ![l] = Append(@, [old |-> record[l].consultant, new |-> c])]
  /\ UNCHANGED statusLog

Next ==
  \/ \E l \in Lead, s \in Status : SetStatus(l, s)
  \/ \E l \in Lead, c \in Consultant \cup {Nobody} : Assign(l, c)

Spec == Init /\ [][Next]_vars
=============================================================================
