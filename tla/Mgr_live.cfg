SPECIFICATION FairSpec
CONSTANTS
  q1 = q1
  q2 = q2
  q3 = q3
  a1 = a1
  a2 = a2
  Configs <- Production
  Requests <- LiveWorkload
  Clients <- TwoClients
  BackoffNum = 4
  BackoffDen = 5
  TimedClients <- NoTimed
  Admins <- TwoAdmins
  AdminOp <- ClearsAndStops
  NewTotals <- NoTotals
  NewPolicies <- NoPolicies
  AutoShrink = TRUE
  PageSize = 1
PROPERTY EveryRequestIsAnswered
PROPERTY PauseCompletes
PROPERTY ShutdownCompletes
CHECK_DEADLOCK FALSE
