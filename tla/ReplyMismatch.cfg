CONSTANTS
  c1 = c1
  c2 = c2
  None = None
  Callers <- MCCallers
  NumSlots = 2
  MaxSeq = 3
  QueueLen = 2
  MaxReplies = 2
  MaxCalls = 2
SYMMETRY Symmetry
SPECIFICATION Spec
INVARIANT ReplyMatchesRequest
