------------------------------ MODULE RateWindows -----------------------------
(***************************************************************************)
(* What the rate limiter promises the contacts of the public forms: each   *)
(* has a window of its own, which begins with a submission, admits Limit   *)
(* of them and closes after Length, whenever the memory of it is cleaned   *)
(* up.  There is room for Capacity open windows: to open one more, exactly *)
(* one is given up before its time, and only then.  A restart forgets all. *)
(***************************************************************************)
EXTENDS Integers, FiniteSets

CONSTANTS Key, Limit, Length, Capacity

VARIABLES
  clock,
  window,  \* of each contact: what it used and when it closes
  asked    \* submissions, admitted or refused

vars == <<clock, window, asked>>

Closed == [used |-> 0, until |-> 0]

Init ==
  /\ clock = 0
  /\ window = [k \in Key |-> Closed]
  /\ asked = 0

Open == {k \in Key : window[k].used > 0}
New  == [used |-> 1, until |-> clock + Length]

Join(k) ==
  /\ k \in Open /\ window[k].used < Limit
  /\ window' = [window EXCEPT ![k].used = @ + 1]

Start(k) ==
  /\ k \notin Open /\ Cardinality(Open) < Capacity
  /\ window' = [window EXCEPT ![k] = New]

StartInsteadOf(k, c) ==
  /\ k \notin Open /\ Cardinality(Open) = Capacity
  /\ c \in Open
  /\ window' = [window EXCEPT ![k] = New, ![c] = Closed]

Refuse(k) ==
  /\ k \in Open /\ window[k].used = Limit
  /\ UNCHANGED window

Submit(k) ==
  /\ asked' = asked + 1
  /\ UNCHANGED clock
  /\ \/ Join(k)
     \/ Start(k)
     \/ \E c \in Key : StartInsteadOf(k, c)
     \/ Refuse(k)

Pass ==
  /\ clock' = clock + 1
  /\ window' = [k \in Key |-> IF k \in Open /\ window[k].until > clock' THEN window[k] ELSE Closed]
  /\ UNCHANGED asked

Forget ==
  /\ window' = [k \in Key |-> Closed]
  /\ UNCHANGED <<clock, asked>>

Next ==
  \/ \E k \in Key : Submit(k)
  \/ Pass
  \/ Forget

Spec == Init /\ [][Next]_vars
=============================================================================
