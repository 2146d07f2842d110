------------------------------ MODULE MCIndexer -----------------------------
(* Small instances of Indexer: histories of three commits.                 *)
EXTENDS Indexer, TLC

CONSTANTS w, c, d,           \* the worker, CLI processes
          f1, f2, f3, f4,    \* f3 is not indexable (docs, tests)
          k1, k2, big, bin,  \* contents; big is too large, bin not UTF-8
          s1, s2, s3         \* commits

MCFile == {f1, f2, f3, f4}
MCIndexable == {f1, f2, f4}
MCContent == {k1, k2, big, bin}
MCSmall == {k1, k2, bin}
MCReadable == {k1, k2, big}
MCSha == {s1, s2, s3}

TreeFrom(x, y, z, u) ==
  [f \in MCFile |-> CASE f = f1 -> x [] f = f2 -> y [] f = f3 -> z [] f = f4 -> u]

\* s1 -> s2: f1 modified, f2 added, f4 deleted; s2 -> s3: the change of f1
\* reverted, f2 no longer UTF-8.
MCTreeOf ==
  [s \in MCSha |-> CASE s = s1 -> TreeFrom(k1, None, k1, k2)
                     [] s = s2 -> TreeFrom(k2, k1, k1, None)
                     [] s = s3 -> TreeFrom(k1, bin, None, None)]

MCImports ==
  [x \in MCContent |-> CASE x = k1 -> {f2, f3} [] x = k2 -> {f1, f2}
                         [] OTHER -> {}]

\* The two CLI processes are interchangeable.
ClisAlike == Permutations(Clis)

\* Without the contents above the size limit.
NoBigContent == MCContent \ {big}
NoBigReadable == MCReadable \ {big}
NoBigImports == [x \in NoBigContent |-> MCImports[x]]
=============================================================================
