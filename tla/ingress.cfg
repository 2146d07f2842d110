CONSTANTS
  opened = opened
  sync = sync
  push = push
  pushBot = pushBot
  forged = forged
  comment = comment
  ping = ping
  odd = odd
  garbled = garbled
  R = R
  r = r
  n1 = n1
  s1 = s1
  None = None
  Delivery = {opened, sync, pushBot, garbled}
  Event <- MCEvent
  Repo <- MCRepo
  Lower <- MCLower
  Window = 1
  MaxTries = 2
  Faults = {"redis_error", "redis_reply_lost", "job_raises"}
  MaxConcurrent = 2
  MaxTime = 1
  MaxRestarts = 1
SPECIFICATION FairSpec
INVARIANT TypeOK
INVARIANT OneLiveJobPerSubject
INVARIANT NoSelfTrigger
INVARIANT AnswersAreHonest
INVARIANT ApartOrOverlapping
PROPERTY DispatchedJobsEnd
