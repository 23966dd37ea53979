----------------------------- MODULE MCThreadLock -----------------------------
(* A small instance of ThreadLock for TLC. *)
EXTENDS ThreadLock

CONSTANTS c1, c2, c3
=============================================================================
