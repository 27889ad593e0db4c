\* Three posts of one client, one restart, a body with an old observed_at
SPECIFICATION FairSpec
CONSTANTS
  operator = operator
  Clients = {operator}
  GivenTimes = {0}
  InsertTimeout = 1
  Retention = 1
  MaxPosts = 3
  MaxTime = 2
  MaxRestarts = 1
CHECK_DEADLOCK FALSE
INVARIANTS TypeOK AcknowledgedDurable LatestStands
PROPERTIES PostAnswered
