CONSTANTS
  w = w
  c = c
  p1 = p1
  p2 = p2
  i1 = i1
  s1 = s1
  s2 = s2
  s3 = s3
  h1 = h1
  h2 = h2
  h3 = h3
  use = use
  use2 = use2
  src = src
  src2 = src2
  broken = broken
  empty = empty
  text = text
  t1 = t1
  t2 = t2
  None = None
  ExcludedDirs = {"tests"}
  File <- MCFile
  Content <- MCContent
  Sha = {s1, s2, s3}
  TreeOf <- MCTreeTwice
  Indexable <- MCIndexable
  ImportsIn <- MCImports
  PathOrder <- MCPathOrder
  SymbolsIn <- MCSymbols
  ListLimit = 1
  MaxNeighbors = 2
  LinesOf <- MCLines
  Parses <- MCParses
  Worker = w
  Clis = {c}
  PR = {p1, p2}
  Issue = {i1}
  PrCommit = {h1, h2, h3}
  BaseOf <- MCBaseOf
  HeadTree <- MCHeadTree
  PatchOf <- MCPatch
  AddedIn <- MCAdded
  FileOrder <- MCFileOrder
  PageSize = 2
  MaxFiles = 2
  DeepReads = 2
  Replies <- MCReplies
  Picks <- MCPicks
  Groupings <- MCGroupings
  Confidences = {20, 80}
  Texts = {t1, t2}
  MaxTries = 2
  Modes = {"shadow", "comment"}
  Budgets <- IndexOnly
SPECIFICATION Spec
INVARIANT RanksCountOtherFiles
