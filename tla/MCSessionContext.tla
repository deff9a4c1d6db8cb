-------------------------- MODULE MCSessionContext --------------------------
EXTENDS SessionContext, TLC
=============================================================================
