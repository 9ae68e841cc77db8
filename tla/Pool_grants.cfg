SPECIFICATION PoolSpec
CONSTANTS
  q1 = q1
  q2 = q2
  q3 = q3
  Configs <- SeparateResultMem
  Requests <- Ordinary
  Clients <- ThreeClients
  BackoffNum = 1
  BackoffDen = 2
SYMMETRY ClientSymmetry
INVARIANT PoolMatchesGrants
INVARIANT NeverOvercommitted
INVARIANT RunsAlone
INVARIANT GrantsWithinBounds
INVARIANT AcceptedIsServable
INVARIANT ChecksHold
INVARIANT SanityCheckHolds
