----------------------------- MODULE MCProjection -----------------------------
(* Small instances of Projection for TLC. *)
EXTENDS Projection

CONSTANTS k1, k2, k3
=============================================================================
