CONSTANTS
  w = w
  c = c
  d = d
  f4 = f4
  f1 = f1
  f2 = f2
  f3 = f3
  k1 = k1
  k2 = k2
  big = big
  bin = bin
  s1 = s1
  s2 = s2
  s3 = s3
  None = None
  Workers = {w}
  Clis = {c, d}
  File <- MCFile
  Content <- NoBigContent
  Sha <- MCSha
  TreeOf <- MCTreeOf
  Indexable <- MCIndexable
  Small <- MCSmall
  Readable <- NoBigReadable
  Imports <- NoBigImports
  Untracked = {f2}
  Faults = {"crash", "git_fails", "checkout"}
  MaxRuns = 3
SPECIFICATION Spec
INVARIANT TypeOK
INVARIANT IndexMatchesHead
INVARIANT EdgesFollowRows
INVARIANT NoEdgeIsLost
SYMMETRY ClisAlike
