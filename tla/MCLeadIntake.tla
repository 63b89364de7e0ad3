----------------------------- MODULE MCLeadIntake ----------------------------
(* LeadIntake for TLC. *)
EXTENDS LeadIntake, TLC

CONSTANT Sender   \* the contact every enquiry comes from

MCKeyOf(i) == Sender
=============================================================================
