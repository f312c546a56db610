------------------------------- MODULE MCSaga -------------------------------
EXTENDS Saga, TLC

Symmetry == Permutations(Invoices) \cup Permutations(Refunds)
=============================================================================
