CONSTANTS
  w = w
  c = c
  i1 = i1
  b1 = b1
  t1 = t1
  t2 = t2
  t3 = t3
  None = None
  Proc = {w, c}
  Jobs <- RaceJobs
  Issue <- MCIssue
  Branch <- MCBranch
  Text <- MCText
  BodyHead <- MCBodyHead
  Faults = {"crash", "reply_lost"}
  MaxRuns = 3
SPECIFICATION FairSpec
INVARIANT RowsTellTheTruth
INVARIANT EffectsAccounted
INVARIANT DuplicatesWereForgotten
PROPERTY SettledForGood
PROPERTY RunsEnd
