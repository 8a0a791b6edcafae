-------------------------- MODULE MCRequestPipeline --------------------------
EXTENDS RequestPipeline, TLC

\* No action tells one request, session or terminal session from another.
Interchangeable ==
  Permutations(Request) \union Permutations(Session) \union Permutations(Terminal)

=============================================================================
