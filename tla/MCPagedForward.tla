---------------------------- MODULE MCPagedForward -----------------------------
(* Small instances of the paged forward pass for TLC. *)
EXTENDS PagedForward

(* Ids are compared for equality only; order is kept in seq_no. *)
Symmetry == Permutations(ReqId)
================================================================================
