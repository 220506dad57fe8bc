------------------------------ MODULE MCEngine ------------------------------
EXTENDS RoundInvariant, TLC

Symmetric == Permutations(Element)

=============================================================================
