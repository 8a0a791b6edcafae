--------------------------- MODULE FilesystemTools ---------------------------
(***************************************************************************)
(* The tools filesystem.list and filesystem.read, which resolve a path     *)
(* against the file system and check it against the allowed roots before   *)
(* they touch it.  The file system does not change during a call.          *)
(***************************************************************************)
EXTENDS Paths

CONSTANTS
  Real,   \* the canonical form of every clean path that names something
  Kind    \* what a canonical path names: "directory", "text", "binary" or "special"

ASSUME FileSystemAssumption ==
  /\ \A p \in DOMAIN Real :
       /\ p \in Seq(STRING) /\ Clean(p) = p
       /\ Real[p] \in DOMAIN Real /\ Real[Real[p]] = Real[p]
  /\ DOMAIN Kind = {Real[p] : p \in DOMAIN Real}

Resolve_Lexically(path) == Clean(path)

\* filepath.EvalSymlinks, whose failure leaves the path as it was.
Resolve(path) ==
  IF Clean(path) \in DOMAIN Real THEN Real[Clean(path)] ELSE Clean(path)

\* NewService: the roots are resolved once, and must be directories.
NormalizeRoot(root) == Resolve(root)
ValidRoot(root) ==
  NormalizeRoot(root) \in DOMAIN Real /\ Kind[Real[NormalizeRoot(root)]] = "directory"

PathAllowed(path, roots) ==
  \E i \in DOMAIN roots : PathWithinScope(path, NormalizeRoot(roots[i]))

\* What the tool answers about a path before it reads anything: Stat follows the
\* links that are left in a path that could not be resolved.
Admit(path, roots, kinds) ==
  IF ~IsAbs(path) THEN "invalid"
  ELSE IF ~PathAllowed(Resolve(path), roots) THEN "out of scope"
  ELSE IF Resolve(path) \notin DOMAIN Real THEN "invalid"
  ELSE IF Kind[Real[Resolve(path)]] \in kinds THEN "result"
  ELSE "invalid"

\* filesystem.read finds out whether a file is text when it has read it.
Content(path) == IF Kind[Real[path]] = "text" THEN "result" ELSE "invalid"

EntryPaths_Followed(directory) ==
  {Real[p] : p \in {q \in DOMAIN Real : q # <<>> /\ Front(q) = directory}}

\* The entries of the answer: the directory's resolved path and a name each.
EntryPaths(directory) == {p \in DOMAIN Real : p # <<>> /\ Front(p) = directory}

=============================================================================
