CONSTANTS
  a = a
  b = b
  None = None
  Peers <- MCOnePeer
  MaxFrags = 3
  Totals = {1, 3}
  SeqMod = 2
  QueueLen = 2
  MaxMessages = 3
SPECIFICATION Spec
INVARIANTS TypeOK MessagesWhole QueuedDelivered ReportedMeansDone
