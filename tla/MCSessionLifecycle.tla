------------------------- MODULE MCSessionLifecycle -------------------------
EXTENDS SessionLifecycle
=============================================================================
