--------------------------- MODULE MCTerminalService ---------------------------
EXTENDS TerminalService, TLC

\* No action tells one call, object, id or client from another.  Used only where
\* no liveness is checked.
Interchangeable ==
  Permutations(Owner) \union Permutations(Id) \union Permutations(Session)
    \union Permutations(Command) \union Permutations(Ender)

=============================================================================
