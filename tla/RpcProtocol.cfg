CONSTANTS
  ServiceType = {mining}
  Vendor = {stratum, other}
  NoVendor = NoVendor
  MaxBatches = 2
  MaxLines = 3
  MaxCalls = 2
  TcpProxyProtocol = {TRUE, FALSE}
SPECIFICATION FairSpec
INVARIANTS TypeOK OneDefault CounterCounts FinishedWhenAnswered EachCallerToldOnce
PROPERTIES DefaultStays BatchFinishes SubscriberTold
CHECK_DEADLOCK FALSE
