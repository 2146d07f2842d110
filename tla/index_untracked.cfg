CONSTANTS
  w = w
  c = c
  d = d
  f4 = f4
  f1 = f1
  f2 = f2
  f3 = f3
  k1 = k1
  k2 = k2
  big = big
  bin = bin
  s1 = s1
  s2 = s2
  s3 = s3
  None = None
  Workers = {}
  Clis = {c}
  File <- MCFile
  Content <- MCContent
  Sha <- MCSha
  TreeOf <- MCTreeOf
  Indexable <- MCIndexable
  Small <- MCSmall
  Readable <- MCReadable
  Imports <- MCImports
  Untracked = {f2}
  Faults = {"checkout"}
  MaxRuns = 2
SPECIFICATION Spec
INVARIANT RunsWithoutOverlapComplete
