CONSTANTS
  w = w
  c = c
  i1 = i1
  b1 = b1
  t1 = t1
  t2 = t2
  t3 = t3
  None = None
  Proc = {w}
  Jobs <- UpgradeJobs
  Issue <- MCIssue
  Branch <- MCBranch
  Text <- MCText
  BodyHead <- MCBodyHead
  Faults = {}
  MaxRuns = 2
SPECIFICATION Spec
INVARIANT NoWriteWithoutBranch
