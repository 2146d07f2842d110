CONSTANTS
  opened = opened
  sync = sync
  push = push
  pushBot = pushBot
  forged = forged
  comment = comment
  ping = ping
  odd = odd
  garbled = garbled
  R = R
  r = r
  n1 = n1
  s1 = s1
  None = None
  Delivery = {sync, push}
  Event <- MCEvent
  Repo <- MCRepo
  Lower <- MCLower
  Window = 2
  MaxTries = 3
  Faults = {}
  MaxConcurrent = 1
  MaxTime = 1
  MaxRestarts = 0
SPECIFICATION FairSpec
PROPERTY EveryPushIsReindexed
