---------------------------- MODULE MCAuthSessions ----------------------------
(* AuthSessions on small instances; the cfg files give the constants. *)
EXTENDS AuthSessions, TLC

\* Ids, links and slots are only compared for equality.
Symmetry == Permutations(TokenId) \cup Permutations(ResetLink) \cup Permutations(Request)
=============================================================================
