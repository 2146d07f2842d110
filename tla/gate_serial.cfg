CONSTANTS
  w = w
  c = c
  i1 = i1
  b1 = b1
  t1 = t1
  t2 = t2
  t3 = t3
  None = None
  Proc = {w}
  Jobs <- SerialJobs
  Issue <- MCIssue
  Branch <- MCBranch
  Text <- MCText
  BodyHead <- MCBodyHead
  Faults = {"http_failure"}
  MaxRuns = 3
SPECIFICATION Spec
INVARIANT TypeOK
INVARIANT OnlyEntitledEffects
INVARIANT CallsAreAcceptable
PROPERTY ImplementsAtMostOnce
