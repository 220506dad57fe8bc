--------------------------- MODULE MCBloomFilters ---------------------------
EXTENDS BloomFilters, TLC

=============================================================================
