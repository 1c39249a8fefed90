\* Does total_escrow cover the jobs that still wait for their payment?
SPECIFICATION Spec
CONSTANTS
  p1 = p1
  p2 = p2
  u = u
  j1 = j1
  j2 = j2
  Provider = {p1, p2}
  User = {u}
  Job = {j1, j2}
  DisputeId = {d1, d2}
  None = None
  ResourceType = {"VM", "Browser"}
  Supports <- MCSupports
  MinStake = 1
  DisputeWindow = 0
  Stakes = {1}
  Capacities <- MCCapacities
  NewCapacities <- MCNewCapacities
  Requests <- MCRequests
  Slashes = {0, 1}
  MaxTime = 1
  MaxStake = 1
SYMMETRY Symmetry
INVARIANT
  EscrowCoversJobs
CHECK_DEADLOCK FALSE
