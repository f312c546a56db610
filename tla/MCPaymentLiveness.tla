------------------------- MODULE MCPaymentLiveness -------------------------
EXTENDS PaymentLiveness
=============================================================================
