--------------------------- MODULE MCMultiSketch ----------------------------
(* Every mapping of a few elements to a few cells, in a small field.        *)
EXTENDS MultiSketch, TLC

=============================================================================
