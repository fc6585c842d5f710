SPECIFICATION Spec
CONSTANTS
  Requests = {r1, r2}
  Versions = {v1, v2}
  Actors = {ann, bob, cem}
  Eligible = {ann, bob, cem}
  MinApprovals = 2
  SelfApproval = FALSE
  MaxTime = 1
  Repeats = TRUE
CHECK_DEADLOCK FALSE
INVARIANT Quorum
