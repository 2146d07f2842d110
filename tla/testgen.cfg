CONSTANTS
  w = w
  c = c
  s1 = s1
  s2 = s2
  s3 = s3
  s4 = s4
  api = api
  big = big
  blank = blank
  guide = guide
  aside = aside
  t1 = t1
  t2 = t2
  t3 = t3
  None = None
  ExcludedDirs = {"tests", "vendor"}
  SkipDirs = {"vendor"}
  TestDirs = {"tests"}
  TestStems <- MCTestStems
  Worker = w
  Clis = {c}
  File <- MCFile
  Content <- MCContent
  Sha = {s1, s2, s3, s4}
  TreeOf <- MCTree
  PathOrder <- MCPathOrder
  Slug <- MCSlug
  Mentions <- MCMentions
  Facts <- MCFacts
  MaxLines = 5
  Cap = 1
  Tests = {t1, t2, t3}
  Collects <- MCCollects
  Claims = {50, 100}
  Threshold = 90
  Life = 3
  Skew = 1
  MaxTries = 2
  Modes = {"shadow", "comment", "full"}
  Budgets <- MCBudgets
SPECIFICATION Spec
INVARIANT TypeOK
INVARIANT PushedTestsWereVerified
INVARIANT PrsShowWhatTheyClaim
INVARIANT NothingIsReplaced
INVARIANT OneAttemptPerFile
INVARIANT SpendingIsCapped
INVARIANT TokensAreAlive
