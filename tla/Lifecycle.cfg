CONSTANTS
  u1 = u1
  u2 = u2
  s1 = s1
  s2 = s2
  Multi = Multi
  None = None
  Lost = Lost
  Uarts <- MCUarts
  Senders <- MCSenders
  MaxSlots = 2
  MaxCalls = 8
  MaxEvents = 3
  MaxSends = 2
SYMMETRY Symmetry
SPECIFICATION Spec
INVARIANTS TypeOK FaultOnlyByLateUse DispatcherOwned OnlyReceiversHeard TransceiverReleased
