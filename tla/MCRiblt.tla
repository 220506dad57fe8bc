------------------------------ MODULE MCRiblt -------------------------------
(* Every mapping of a few symbols to a few cells.                           *)
EXTENDS Riblt, TLC

=============================================================================
