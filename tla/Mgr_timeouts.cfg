SPECIFICATION Spec
CONSTANTS
  q1 = q1
  q2 = q2
  q3 = q3
  a1 = a1
  a2 = a2
  Configs <- Production
  Requests <- CpuWorkload
  Clients <- ThreeClients
  BackoffNum = 4
  BackoffDen = 5
  TimedClients <- OneTimed
  Admins <- NoAdmins
  AdminOp <- Clears
  NewTotals <- NoTotals
  NewPolicies <- NoPolicies
  AutoShrink = TRUE
  PageSize = 1
SYMMETRY UntimedSymmetry
INVARIANT StagesMatchCounters
 
