--------------------------- MODULE MCFastbootLink ---------------------------
EXTENDS FastbootLink
=============================================================================
