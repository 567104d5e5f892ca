SPECIFICATION Spec
CONSTANTS
  Questions = {q1, q2}
  MaxPreviews = 2
  MaxFaults = 0
  None = None
INVARIANT ShownIsApproved
CHECK_DEADLOCK FALSE
