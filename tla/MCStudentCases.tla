---------------------------- MODULE MCStudentCases ----------------------------
(* StudentCases for TLC. *)
EXTENDS StudentCases, TLC

(* Handler slots, ids of applications and students are interchangeable.     *)
Symmetry == Permutations(Request) \cup Permutations(Application) \cup Permutations(Student)
=============================================================================
