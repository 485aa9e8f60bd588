CONSTANTS
  p1 = p1
  p2 = p2
  r1 = r1
  r2 = r2
  m1 = m1
  None = None
  Producers <- MCProducers
  Registrars <- MCRegistrars
  Commands <- MCCommands
  QueueLen = 1
  MaxPackets = 2
  MaxRegistrations = 2
  MaxStops = 1
SPECIFICATION FairSpec
INVARIANTS TypeOK AcceptedKept WholeEntry AtMostOneLateCall
PROPERTIES RegisterReturns AcceptedHandled
