----------------------------- MODULE MCFcHooks -----------------------------
EXTENDS FcHooks
=============================================================================
