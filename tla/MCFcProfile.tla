---------------------------- MODULE MCFcProfile ----------------------------
EXTENDS FcProfile
=============================================================================
