------------------------------ MODULE MCProbes ------------------------------
(* A small instance of the drivers for TLC. *)
EXTENDS Probes

MCLengths == <<33, 64>>
=============================================================================
