---------------------------- MODULE MCCatalogue ----------------------------
EXTENDS Catalogue, TLC

CONSTANTS s1, s2, g1, g2, g3, v1, v2

Symmetric == Permutations(Session) \cup Permutations(Sku) \cup Permutations(Group \ Sorted)

=============================================================================
