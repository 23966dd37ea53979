------------------------------ MODULE MCHandoff ------------------------------
(* Instances of Handoff for TLC. *)
EXTENDS Handoff

OneAck == {"accepted"}
=============================================================================
