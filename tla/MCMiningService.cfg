SPECIFICATION ServiceSpec
CONSTANTS
  Conn = {c1, c2}
  POOL_TARGET = 2
  MaxSubscribes = 3
  NoConn = NoConn
  JobId = {i1, i2}
  Prevhash = {pA, pB}
  Curtime = {1}
  Extranonce <- MCExtranonce
  Ntime = {1}
  Nonce = {0}
  Clock = {1}
  MaxFuture = 1
  Hash = {36, 50}
  Float <- MCFloat
  Mantissa = 8
  Largest = 127
  MaxTarget = 127
  Difficulty <- MCDifficulty
  UserDifficulty = {2, 3, 4}
  MaxNetworkDiff = 5
  MaxTemplates = 2
  MaxShares = 2
  BadLength = BadLength
  NotHex = NotHex
  NoBlock = NoBlock
  NoHash = NoHash
  NoFinal = NoFinal
SYMMETRY MCSymmetry
INVARIANTS
  SessionTypeOK
  SubscribersInformed
  ExtranoncesDiffer
PROPERTIES
  JudgedAsTold
