SPECIFICATION Spec
CONSTANTS
  NWorkers = 2
  MaxJobs = 2
  MaxChanges = 2
INVARIANT
  SharesNameTheirJob
CHECK_DEADLOCK FALSE
