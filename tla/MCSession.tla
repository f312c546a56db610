----------------------------- MODULE MCSession -----------------------------
EXTENDS Session
=============================================================================
