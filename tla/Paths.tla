-------------------------------- MODULE Paths --------------------------------
(***************************************************************************)
(* Paths, as sequences of names.  The empty one is the root of the file    *)
(* system.                                                                 *)
(***************************************************************************)
EXTENDS Sequences, SequencesExt

Up == ".."
Here == "."

\* A relative path is one that starts from the working directory.
IsAbs(path) == path = <<>> \/ Head(path) # Here

\* filepath.Clean, which knows nothing of links: ".." takes the name before it away.
Clean(path) ==
  IF IsAbs(path)
    THEN FoldLeft(LAMBDA done, name :
                    IF name # Up THEN Append(done, name)
                    ELSE IF done = <<>> THEN <<>> ELSE Front(done),
                  <<>>, path)
    ELSE path

\* The path is the prefix or goes on after it with a separator.  The root of the
\* file system ends in one already, and has only itself in its scope.
PathWithinScope(path, prefix) ==
  path = prefix \/ (prefix # <<>> /\ IsStrictPrefix(prefix, path))

=============================================================================
