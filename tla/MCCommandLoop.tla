--------------------------- MODULE MCCommandLoop ---------------------------
EXTENDS CommandLoop
=============================================================================
