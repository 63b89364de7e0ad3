---------------------------- MODULE MCLeadEditing ----------------------------
(* LeadEditing for TLC. *)
EXTENDS LeadEditing, TLC

(* Tabs and consultants are interchangeable: no action prefers one. *)
Symmetry == Permutations(Editor) \cup Permutations(Consultant)
=============================================================================
