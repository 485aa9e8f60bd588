CONSTANTS
  QueueLen = 2
  MaxStarts = 4
  MaxShared = 1
  Users = {u1, u2}
  Nodes = {n1, n2}
  Endpoints = {e1, e2}
  Default = e1
  MaxPeers = 2
  None = None
SPECIFICATION UdpFairSpec
INVARIANTS OneRxTask MutexReturned AddressesRight
PROPERTY RunningReceives
