---------------------------- MODULE MCCatalogue ----------------------------
EXTENDS Catalogue, TLC

Symmetry == Permutations(Theaters) \cup Permutations(Showtimes) \cup Permutations(Workers)
=============================================================================
