CONSTANTS
  c1 = c1
  c2 = c2
  None = None
  Callers <- MCCallers
  NumSlots = 2
  MaxSeq = 3
  QueueLen = 1
  MaxReplies = 2
  MaxCalls = 3
SYMMETRY Symmetry
SPECIFICATION Spec
INVARIANTS TypeOK OwnSlot NoOrphanSlot DamageBounded
PROPERTIES NestedNeverAnswered PromiseKept
