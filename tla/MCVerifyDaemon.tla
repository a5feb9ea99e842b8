--------------------------- MODULE MCVerifyDaemon ---------------------------
\* VerifyDaemon on a small instance.
EXTENDS VerifyDaemon, TLC

CONSTANTS v1, v2
=============================================================================
