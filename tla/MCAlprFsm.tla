----------------------------- MODULE MCAlprFsm -----------------------------
(* AlprFsm on a few plates. *)
EXTENDS AlprFsm
=============================================================================
