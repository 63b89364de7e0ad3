---------------------------- MODULE SessionLineage ----------------------------
(***************************************************************************)
(* What the refresh-token store promises: a session is carried by one      *)
(* credential at a time.  Signing in opens it with a fresh credential, a   *)
(* rotation moves it from a working credential to a fresh one, closing it  *)
(* spends its credential, and a password reset spends all of an account's. *)
(* A spent credential never works again and nothing new comes from it.     *)
(***************************************************************************)
CONSTANTS Credential, Account, Nobody

VARIABLES
  live,   \* credentials that work
  spent,  \* credentials that did
  owner,  \* whose they are
  source  \* the credential each was rotated from, Nobody at sign-in

vars == <<live, spent, owner, source>>

Fresh(c) == c \in Credential \ (live \cup spent)

Init ==
  /\ live = {} /\ spent = {}
  /\ owner = [c \in Credential |-> Nobody]
  /\ source = [c \in Credential |-> Nobody]

Open(a, c) ==
  /\ Fresh(c)
  /\ live' = live \cup {c}
  /\ owner' = [owner EXCEPT ![c] = a]
  /\ UNCHANGED <<spent, source>>

Rotate(c, d) ==
  /\ c \in live /\ Fresh(d)
  /\ live' = (live \ {c}) \cup {d}
  /\ spent' = spent \cup {c}
  /\ owner' = [owner EXCEPT ![d] = owner[c]]
  /\ source' = [source EXCEPT ![d] = c]

Close(c) ==
  /\ c \in live
  /\ live' = live \ {c}
  /\ spent' = spent \cup {c}
  /\ UNCHANGED <<owner, source>>

CloseAll(a) ==
  LET closed == {c \in live : owner[c] = a} IN
  /\ live' = live \ closed
  /\ spent' = spent \cup closed
  /\ UNCHANGED <<owner, source>>

Next ==
  \/ \E a \in Account, c \in Credential : Open(a, c)
  \/ \E c, d \in Credential : Rotate(c, d)
  \/ \E c \in Credential : Close(c)
  \/ \E a \in Account : CloseAll(a)

Spec == Init /\ [][Next]_vars
=============================================================================
