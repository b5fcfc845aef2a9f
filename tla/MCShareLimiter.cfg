SPECIFICATION Spec
CONSTANTS
  Conn = {c1, c2}
  Worker = {w1}
  NetworkDiff = {18, 60}
  Float <- MCFloat
  Mantissa = 16
  Largest = 256
  One = 64
  VDIFF_TARGET_TIME = 4
  VDIFF_RETARGET_TIME = 4
  VDIFF_VARIANCE_PERCENT = 50
  VDIFF_MIN_TARGET = 13
  VDIFF_MAX_TARGET = 52
  POOL_TARGET = 20
  VDIFF_FLOAT = FALSE
  X2Settings <- MCX2
  Gap = {1, 4, 8}
  MaxTime = 13
  NoStats = NoStats
SYMMETRY MCSymmetry
INVARIANTS
  TypeOK
  BufferHoldsLatestGaps
  DifficultyInWindow
PROPERTIES
  RetargetPace
