----------------------------- MODULE MCPayment -----------------------------
EXTENDS PaymentSystem, TLC

Symmetry == Permutations(Invoices) \cup Permutations(Refunds) \cup Permutations(Workers)
=============================================================================
