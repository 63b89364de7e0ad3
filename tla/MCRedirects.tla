------------------------------ MODULE MCRedirects ------------------------------
(* Redirects for TLC. *)
EXTENDS Redirects, TLC

(* Nothing in the module tells one address, page, id or slot from another.  *)
Symmetry == Permutations(Path) \cup Permutations(Page) \cup Permutations(Id)
              \cup Permutations(Request)
=============================================================================
