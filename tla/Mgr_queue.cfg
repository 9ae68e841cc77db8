SPECIFICATION Spec
CONSTANTS
  q1 = q1
  q2 = q2
  q3 = q3
  a1 = a1
  a2 = a2
  Configs <- Production
  Requests <- Workload
  Clients <- TwoClients
  BackoffNum = 4
  BackoffDen = 5
  TimedClients <- NoTimed
  Admins <- OneAdmin
  AdminOp <- Sets
  NewTotals <- MoreSlots
  NewPolicies <- OneAtATime
  AutoShrink = TRUE
  PageSize = 1
SYMMETRY UntimedSymmetry
INVARIANT TypeOK
INVARIANT StagesMatchCounters
INVARIANT AllocatedIsExecuting
INVARIANT PausedMeansIdle
INVARIANT PauserIsAlone
INVARIANT NoGrantMissed
INVARIANT RunsOnItsGrant
INVARIANT NothingLeaks
INVARIANT NeverOvercommitted
 
