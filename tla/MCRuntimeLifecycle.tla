-------------------------- MODULE MCRuntimeLifecycle --------------------------
EXTENDS RuntimeLifecycle, TLC

=============================================================================
