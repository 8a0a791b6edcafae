---------------------------- MODULE MCRequestGuard ----------------------------
(***************************************************************************)
(* A small file system: /r is a directory with a file f, a directory s     *)
(* that holds a binary file b, and a link l to /o; /o is a directory with  *)
(* a file f; /k is a link to /r.                                           *)
(***************************************************************************)
EXTENDS RequestGuard, TLC

CONSTANTS v1, v2, v3, c1, s1, s2

MCRequest == {v1, v2, v3, c1}
MCCaller == {c1}
MCSession == {s1, s2}
Symmetry == Permutations({v1, v2, v3}) \union Permutations(MCSession)

R == <<"r">>
O == <<"o">>
K == <<"k">>
F == <<"f">>
S == <<"s">>
B == <<"b">>
L == <<"l">>

MCKind ==
  (<<>> :> "directory") @@ (R :> "directory") @@ (O :> "directory") @@
  (R \o F :> "text") @@ (R \o S :> "directory") @@ (R \o S \o B :> "binary") @@
  (O \o F :> "text")

MCReal ==
  [p \in DOMAIN MCKind |-> p] @@
  (K :> R) @@ (K \o F :> R \o F) @@ (K \o S :> R \o S) @@ (K \o S \o B :> R \o S \o B) @@
  (K \o L :> O) @@ (K \o L \o F :> O \o F) @@
  (R \o L :> O) @@ (R \o L \o F :> O \o F)

MCRoots == {<<R>>, <<K>>, <<R, O>>, <<<<>>>>}

MCActions ==
  ("filesystem.list" :> "allow") @@ ("filesystem.read" :> "allow") @@
  ("desktop.get_state" :> "allow") @@ ("terminal.exec" :> "approval required")

MCDenied == {";"}
MCApproval == {"rm "}

Call(action, path, timeout, command) ==
  [action |-> action, path |-> path, timeout |-> timeout, command |-> command]

MCPaths ==
  {{}} \union
  {{p} : p \in {<<>>, R, K, O, R \o F, K \o F, O \o F, R \o S, R \o S \o B,
                R \o L, R \o L \o F, R \o <<"..">> \o O \o F, R \o <<"missing">>,
                <<".">> \o F}}

\* Halves of a millisecond: about zero, about the limit, one whose product wraps
\* around, about the largest int, and less than the least one.
MCTimeouts == {-130, -35, -1, 0, 1, 2, 6, 7, 8, 35, 127, 128}

MCInput ==
  {Call(a, p, {}, {}) : a \in {"filesystem.list", "filesystem.read"}, p \in MCPaths}
  \union {Call(a, {R \o F}, {ms}, {}) : a \in {"filesystem.read", "desktop.get_state"}, ms \in MCTimeouts}
  \union {Call(a, p, t, d) : a \in {"desktop.get_state", "terminal.exec", "logs.tail"},
                             p \in {{}, {R}, {O}}, t \in {{}, {8}},
                             d \in SUBSET {";", "rm "}}

=============================================================================
