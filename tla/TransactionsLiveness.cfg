CONSTANTS
  c1 = c1
  c2 = c2
  None = None
  Callers <- MCCallers
  NumSlots = 1
  MaxSeq = 2
  QueueLen = 1
  MaxReplies = 2
  MaxCalls = 3
SPECIFICATION FairSpec
PROPERTY CallsReturn
