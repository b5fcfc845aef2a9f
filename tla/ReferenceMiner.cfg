SPECIFICATION Spec
CONSTANTS
  NWorkers = 2
  MaxJobs = 2
  MaxChanges = 2
INVARIANTS
  TypeOK
  TargetBeforeWork
  StaleWorkFlagged
PROPERTIES
  HandedJobIsMined
  MiningStarts
CHECK_DEADLOCK FALSE
