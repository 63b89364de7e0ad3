---------------------------- MODULE MCAdminConsole ----------------------------
(* AdminConsole for TLC. *)
EXTENDS AdminConsole, TLC
=============================================================================
