----------------------------- MODULE MCWorkload -----------------------------
(* Every configuration of a small universe.                                 *)
EXTENDS Workload, TLC

=============================================================================
