---------------------------- MODULE SessionGrants -----------------------------
(***************************************************************************)
(* What the refresh-token store keeps of that promise when requests        *)
(* overlap.  A request asks with a credential while it works and is served *)
(* later, whatever has become of the credential by then: it may be served  *)
(* twice, and a credential that was closed may be marked as exchanged.     *)
(* Nothing is served that was not asked for; a credential is made from one *)
(* account's only for that account; nothing works a second time; and the   *)
(* heir a credential names is the last one made from it.                   *)
(***************************************************************************)
CONSTANTS Credential, Account, Holder, Nobody

VARIABLES
  fate,    \* unused, working, or how it ended
  owner,   \* whose it is
  source,  \* the credential it was exchanged for, Nobody at sign-in
  heir,    \* the credential it was last exchanged for
  asked    \* what each request under way has asked to end

vars == <<fate, owner, source, heir, asked>>

Init ==
  /\ fate = [c \in Credential |-> "UNUSED"]
  /\ owner = [c \in Credential |-> Nobody]
  /\ source = [c \in Credential |-> Nobody]
  /\ heir = [c \in Credential |-> Nobody]
  /\ asked = [h \in Holder |-> Nobody]

Open(a, c) ==
  /\ fate[c] = "UNUSED"
  /\ fate' = [fate EXCEPT ![c] = "WORKING"]
  /\ owner' = [owner EXCEPT ![c] = a]
  /\ UNCHANGED <<source, heir, asked>>

Ask(h, c) ==
  /\ asked[h] = Nobody
  /\ fate[c] = "WORKING"
  /\ asked' = [asked EXCEPT ![h] = c]
  /\ UNCHANGED <<fate, owner, source, heir>>

Withdraw(h) ==
  /\ asked' = [asked EXCEPT ![h] = Nobody]
  /\ UNCHANGED <<fate, owner, source, heir>>

Exchange(h, d) ==
  LET c == asked[h] IN
  /\ c # Nobody
  /\ fate[d] = "UNUSED"
  /\ fate' = [fate EXCEPT ![c] = "ROTATED", ![d] = "WORKING"]
  /\ owner' = [owner EXCEPT ![d] = owner[c]]
  /\ source' = [source EXCEPT ![d] = c]
  /\ heir' = [heir EXCEPT ![c] = d]
  /\ asked' = [asked EXCEPT ![h] = Nobody]

Close(h) ==
  /\ asked[h] # Nobody
  /\ fate' = [fate EXCEPT ![asked[h]] = "LOGOUT"]
  /\ asked' = [asked EXCEPT ![h] = Nobody]
  /\ UNCHANGED <<owner, source, heir>>

CloseAll(a) ==
  /\ fate' = [c \in Credential |->
       IF fate[c] = "WORKING" /\ owner[c] = a THEN "PASSWORD_RESET" ELSE fate[c]]
  /\ UNCHANGED <<owner, source, heir, asked>>

Next ==
  \/ \E a \in Account, c \in Credential : Open(a, c)
  \/ \E h \in Holder, c \in Credential : Ask(h, c)
  \/ \E h \in Holder : Withdraw(h)
  \/ \E h \in Holder, d \in Credential : Exchange(h, d)
  \/ \E h \in Holder : Close(h)
  \/ \E a \in Account : CloseAll(a)

Spec == Init /\ [][Next]_vars
=============================================================================
