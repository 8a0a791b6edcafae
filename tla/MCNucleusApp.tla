----------------------------- MODULE MCNucleusApp -----------------------------
EXTENDS NucleusApp, TLC

=============================================================================
