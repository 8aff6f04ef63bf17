------------------------- MODULE MCMediaConnectors -------------------------
EXTENDS MediaConnectors
=============================================================================
