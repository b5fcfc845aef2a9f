CONSTANTS
  ServiceType = {}
  Vendor = {}
  NoVendor = NoVendor
  MaxBatches = 2
  MaxLines = 2
  MaxCalls = 3
  TcpProxyProtocol = {FALSE}
  Host = {main, spare}
  NoHost = NoHost
  Command = {notify, banner}
  MaxSubscribed = 2
SPECIFICATION ClientSpec
INVARIANTS ClientTypeOK SubscriptionsInForce HostFollowed HostKept
PROPERTIES FirstWaiterTold
CHECK_DEADLOCK FALSE
