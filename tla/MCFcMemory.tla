----------------------------- MODULE MCFcMemory -----------------------------
EXTENDS FcMemory
=============================================================================
