---------------------------- MODULE MCHandBuilt ----------------------------
EXTENDS HandBuilt
=============================================================================
