CONSTANTS
  MaxPayload = 4
  Frames <- MCFrames
  Chunks <- MCChunks
  PacedChunks <- MCPacedChunks
  MaxLosses = 1
  MaxPacedLosses = 2
SPECIFICATION FairSpec
INVARIANTS TypeOK DeliveredInOrder UndamagedDelivered StrandedOnlyByRace
PROPERTY Resynchronizes
