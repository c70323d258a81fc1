--------------------------- MODULE MCBundleManifest ---------------------------
(* Values of the constants of BundleManifest for TLC. *)
EXTENDS BundleManifest

A == [size |-> 1, sha256 |-> "a"]
B == [size |-> 2, sha256 |-> "b"]
Big == [size |-> 3, sha256 |-> "d"]
MCContent == {A, B, Big}

Of(ns, p) == [artifacts |-> ns, primary |-> p]
Line(n, c) == [path |-> n, size |-> c.size, sha256 |-> c.sha256]
Neither(n) == [path |-> n, size |-> 2, sha256 |-> "a"]
Sheet(es, p, t) == [artifacts |-> es, primary |-> p, total |-> t]

\* Out of order, twice the same artifact, too many.
MCRequests == {Of(<<2, 1>>, 1), Of(<<1, 1>>, 1), Of(<<1, 2, 1>>, 1)}

\* Manifests found in a directory: none, and ones other programs wrote, good,
\* out of order, without the primary record, over the limit, and two with an entry
\* that no version of an artifact satisfies.
MCPrior ==
  {Absent, Sheet(<<Line(1, A)>>, 1, 1), Sheet(<<Line(2, A), Line(1, B)>>, 1, 3),
   Sheet(<<Line(2, A)>>, 1, 1), Sheet(<<Line(1, B), Line(2, B)>>, 1, 4),
   Sheet(<<Neither(1)>>, 1, 2), Sheet(<<Line(1, A), Neither(2)>>, 1, 3)}

\* Writers differ in nothing but their arguments.
Symmetry == Permutations(Writer)
=============================================================================
