SPECIFICATION Spec
CONSTANTS
  pA = pA
  pB = pB
  JobId = {i1, i2}
  Prevhash = {pA, pB}
  Curtime = {1}
  Extranonce <- MCExtranonce
  Ntime <- MCNtime
  Nonce = {0, 1}
  Clock = {1}
  MaxFuture = 1
  Hash <- MCHashRefused
  Float <- MCFloat
  Mantissa = 8
  Largest = 127
  MaxTarget = 127
  Difficulty <- MCDifficulty
  UserDifficulty = {2, 3}
  MaxNetworkDiff = 5
  MaxTemplates = 3
  MaxShares = 2
  BadLength = BadLength
  NotHex = NotHex
  NoBlock = NoBlock
  NoHash = NoHash
  NoFinal = NoFinal
INVARIANT
  CandidatesSubmitted
