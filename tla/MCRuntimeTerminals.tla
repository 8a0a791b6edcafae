--------------------------- MODULE MCRuntimeTerminals ---------------------------
EXTENDS RuntimeTerminals, TLC

=============================================================================
