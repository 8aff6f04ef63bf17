--------------------------- MODULE MCManagerInit ---------------------------
EXTENDS ManagerInit
=============================================================================
